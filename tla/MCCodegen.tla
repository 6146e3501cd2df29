----------------------------- MODULE MCCodegen -----------------------------
(***************************************************************************)
(* Small ASTs for Codegen.  Each family is a set of programs; a cfg picks  *)
(* one for Programs.                                                       *)
(***************************************************************************)
EXTENDS Codegen, MCAst

Call(f, as)   == call_node(id_node(f), args_node(as, <<>>))
Un(op, e)     == unary_op_node(op, e, FALSE)
Decl(ids)     == decl_node(ids, id_node("t"))
Function(f, ps, b) == function_node(f, Null, b, ps)
ElseIf(c, b) == if_node(c, b, <<>>, Null)

A == id_node("a")
B == id_node("b")
Let(e) == binary_op_node("OP_ASSIGN", A, e)

\* Conditions
Eq  == binary_op_node("OP_EQ", A, int_node(1))
Neq == binary_op_node("OP_NEQ", A, B)
Asg == binary_op_node("OP_ASSIGN", A, int_node(2))
Gt  == binary_op_node("OP_GT", A, B)
Lt  == binary_op_node("OP_LT", A, int_node(3))

\* Simple statements that leave no context behind
Move   == Let(int_node(1))
Arith  == Let(binary_op_node("OP_PLUS", A, B))
Divide == Let(binary_op_node("OP_DIV", A, B))
CallF  == Let(Call("f", <<A>>))
Simple == {Move, Arith, Divide, CallF,
           Let(string_node("x")), Let(binary_op_node("OP_BIT_AND", A, B)), Let(Call("f", <<>>)),
           Let(Un("OP_MINUS", int_node(3))), Let(Un("OP_MINUS", double_node(3))),
           Let(Un("OP_LNOT", B)), return_node(int_node(1)), return_node(id_node("b")), return_node(Null),
           dim_node(<<binary_op_node("OP_ASSIGN", Decl(<<A, B>>), Null)>>), print_node(<<A>>)}

Arm == block_node(<<Move>>)
Else(flagged) == IF flagged THEN block_node(<<Arith>>) ELSE Null

FlatIfs ==
    {if_node(c, block_node(<<Arith>>), eis, Else(e)) :
        c \in {Eq, Neq, Asg}, e \in BOOLEAN,
        eis \in {<<>>, <<ElseIf(Eq, Arm)>>, <<ElseIf(Neq, Arm), ElseIf(Asg, Arm)>>}}

\* Loops closed by `==', each with at most one loop in its body
Chain1 == while_node(Eq, Arm)
Chain2 == while_node(Eq, block_node(<<Chain1>>))
Chains == {Chain1, Chain2, while_node(Eq, block_node(<<Move, Chain2>>)),
           while_node(Eq, block_node(<<if_node(Eq, Arm, <<>>, Null)>>))}

F == Function("f", <<Decl(<<id_node("n")>>)>>,
              block_node(<<Let(binary_op_node("OP_MUL", id_node("n"), int_node(2))), return_node(id_node("n"))>>))

\* f and a scope of two statements, ifs not nested in ifs
FlatPrograms ==
    LET S == Simple \cup FlatIfs \cup Chains
    IN  {block_node(<<F, scope_node(block_node(<<s, t>>))>>) :
            s \in S, t \in {u \in S : u # Divide}}

\* The same with one statement, for two runs in one process
ShortPrograms ==
    {block_node(<<F, scope_node(block_node(<<s>>))>>) : s \in Simple \cup FlatIfs \cup Chains}

\* Ifs in the branches of ifs, in loops and in functions; every kind of condition
InnerIfs ==
    {if_node(c, Arm, eis, Else(e)) :
        c \in {Eq, Gt}, e \in BOOLEAN, eis \in {<<>>, <<ElseIf(Lt, Arm)>>}}
Arms == {Arm} \cup {block_node(<<s>>) : s \in InnerIfs}
              \cup {block_node(<<while_node(c, Arm)>>) : c \in {Eq, Neq, Gt}}
\* In the middle: nothing nested, the largest if, a while
MiddleArms == {Arm, block_node(<<if_node(Gt, Arm, <<ElseIf(Lt, Arm)>>, Else(TRUE))>>),
               block_node(<<while_node(Neq, Arm)>>)}
NestedIfs ==
    {if_node(c, b, eis, e) :
        c \in {Neq, Gt}, b \in Arms,
        eis \in {<<>>} \cup {<<ElseIf(Asg, a)>> : a \in MiddleArms}, e \in Arms \cup {Null}}
NestedPrograms ==
    {block_node(<<scope_node(block_node(<<s>>))>>) : s \in NestedIfs}
    \cup {block_node(<<Function("g", <<>>, block_node(<<s>>)), scope_node(block_node(<<while_node(Gt, block_node(<<s, t>>))>>))>>) :
            s \in InnerIfs, t \in InnerIfs}

AllNodes == NodesOf(Programs)

\* The two families without nested ifs are tidy: what CodegenTidyProofs proves of
\* tidy programs holds of them.
OutBlocks == Programs \cup {n.block : n \in OfType(Nodes, "FUNCTION")}
InBlocks  == OfType(Nodes, "BLOCK") \ Programs
ASSUME FamiliesAreTidy ==
    Programs \in {FlatPrograms, ShortPrograms} => Tidy(OutBlocks, InBlocks)

\* and their loops stand one inside the other.
FreeBlocks == {b \in OfType(Nodes, "BLOCK") : OfType(NodesOf({b}), "WHILE") = {}}
LoopBodies == {n.block : n \in OfType(Nodes, "WHILE")}
OneBlocks  == OfType(NodesOf(LoopBodies), "BLOCK")
ASSUME FamiliesAreChained ==
    Programs \in {FlatPrograms, ShortPrograms} => LoopsChained(FreeBlocks, OneBlocks)

\* Without those that divide, their labels do not meet.
UndividedPrograms == {p \in Programs : Undivided(NodesOf({p}))}
UndividedNodes    == NodesOf(UndividedPrograms)
BranchBlocks ==
    UNION {{Branch(n, j) : j \in Slots(n)} \ {Null} : n \in OfType(UndividedNodes, "IF")}
BelowBlocks  == OfType(UndividedNodes, "BLOCK") \ UndividedPrograms
ASSUME FamiliesAreApart ==
    Programs \in {FlatPrograms, ShortPrograms} =>
        /\ \E p \in UndividedPrograms : OfType(NodesOf({p}), "IF") # {}
        /\ LabelsApart(UndividedPrograms, UndividedNodes, BelowBlocks,
                       OfType(NodesOf(BranchBlocks), "BLOCK"))
=============================================================================
