------------------------------ MODULE Codegen ------------------------------
(***************************************************************************)
(* The code generator of src/src/codegen.c: the visitor that walks an AST  *)
(* and prints IFJcode17.                                                   *)
(*                                                                         *)
(* The C handlers call each other recursively and talk through file-static *)
(* ints.  Here the call stack is explicit.  `frames' holds the activations *)
(* of the handlers that visit blocks (visit_block, visit_if, visit_while,  *)
(* visit_scope, visit_function), with their local variables.  `todo' holds *)
(* what the current expression or simple statement still has to do, in     *)
(* order: nodes to visit, tokens to print, assignments to make.  A handler *)
(* that calls visit() in the middle of its body puts the rest of its body  *)
(* on `todo', so every flag is read at the moment the C code reads it.     *)
(*                                                                         *)
(* Spaces between printed words are left out; line ends are not.           *)
(***************************************************************************)
EXTENDS Integers, Sequences, FiniteSets, Ast

CONSTANTS
    Nodes,      \* the nodes the parser built
    Programs,   \* the ASTs handed to ifj17_gen
    MaxRuns     \* bound: how many programs one process compiles (test/test.c: many)

ASSUME NodesAssumption == Forest(Nodes)
ASSUME ProgramsAssumption == Programs \subseteq OfType(Nodes, "BLOCK")
ASSUME MaxRunsNat == MaxRuns \in Nat

\* The printer has walked the same AST before: it stops the process at a call
\* without arguments (eval in ifj17.c prints before it generates).
ASSUME CallsAssumption == \A n \in OfType(Nodes, "CALL") : n.args # Null

VARIABLES
    frames,     \* activations of the handlers that visit blocks, innermost last
    todo,       \* the rest of the current expression or simple statement
    flag,       \* the file-static flags of codegen.c
    lbl,        \* the file-static label counters of codegen.c
    out,        \* the tokens printed by this run of ifj17_gen
    base,       \* else_if_num when this run of ifj17_gen began
    runs        \* how many programs this process has begun to compile

vars == <<frames, todo, flag, lbl, out, base, runs>>

-----------------------------------------------------------------------------
(* Printed tokens and the other items of `todo'.                           *)

Tok(k, s, n) == [k |-> k, s |-> s, n |-> n]
Op(s)     == Tok("op", s, 0)
GF(s)     == Tok("GF", s, 0)
TF(s)     == Tok("TF", s, 0)
NL        == Tok("nl", "nl", 0)
Def(s, n) == Tok("def", s, n)       \* the name a LABEL defines
Ref(s, n) == Tok("ref", s, n)       \* a label named by a jump or a CALL
TB1       == TF("temp_bool_1")
TB2       == TF("temp_bool_2")

LabelLine(s, n) == <<Op("LABEL"), Def(s, n), NL>>
JumpLine(s, n)  == <<Op("JUMP"), Ref(s, n), NL>>

\* The kinds of token an item of `todo' can print as it stands.
Plain == {"op", "GF", "TF", "nl", "int", "float", "string", "bool", "word"}

Visit(n)       == [k |-> "visit", node |-> n]
Add(var, d)    == [k |-> "add", s |-> var, n |-> d]
Set(var, v)    == [k |-> "set", s |-> var, n |-> v]
TypeGuard      == [k |-> "typeguard"]
IfTarget       == [k |-> "iftarget"]
LoopTarget     == [k |-> "looptarget"]
ResIfRef       == [k |-> "resifref"]
DivRef(c, var) == [k |-> "divref", cont |-> c, var |-> var]
DivDef(c, var) == [k |-> "divdef", cont |-> c, var |-> var]
Params(vec)    == [k |-> "params", vec |-> vec]

FlagNames == {"bin_op", "from_if", "args", "params", "from_func", "from_call",
              "from_return", "scope", "from_loop", "loop_num", "not",
              "from_minus", "from_dim", "label_cont", "int2float"}
LblNames  == {"else_if_num", "else_num", "end_if_num", "mem_loop_num"}

-----------------------------------------------------------------------------
(* emit_op: what a binary (or `not') operator prints before its operands.  *)

\* Mutant: the line end after the second TYPE is forgotten.
TypeCheckGlued(n) ==
    <<Op("TYPE"), TB1, Visit(n.left), NL, Op("TYPE"), TB2, Visit(n.right), TypeGuard>>

\* TYPE of both operands into the temporaries, and the run-time type check.
TypeCheck(n) ==
    <<Op("TYPE"), TB1, Visit(n.left), NL,
      Op("TYPE"), TB2, Visit(n.right), NL, TypeGuard>>

\* One operand of a division: INT2FLOAT unless it already is a float.
ToFloat(operand, defVar) ==
    <<Op("TYPE"), TB1, Visit(operand), NL>>
    \o <<Op("TYPE"), TB2, Tok("float", "1.5", 0), NL>>
    \o <<Add("int2float", 1), Op("JUMPIFNEQ"), DivRef(FALSE, "int2float"), TB1, TB2, NL>>
    \o <<Add("label_cont", 1), Op("JUMP"), DivRef(TRUE, "label_cont"), NL>>
    \o <<Op("LABEL"), DivDef(FALSE, defVar), NL>>
    \o <<Op("INT2FLOAT"), Visit(operand), Visit(operand), NL>>
    \o <<Op("LABEL"), DivDef(TRUE, "label_cont"), NL>>

Mnemonic == [OP_PLUS |-> "ADD", OP_MINUS |-> "SUB", OP_MUL |-> "MUL",
             OP_BIT_AND |-> "AND", OP_BIT_OR |-> "OR", OP_LNOT |-> "NOT"]

emit_op(n) ==
    CASE n.op \in {"OP_PLUS", "OP_MINUS", "OP_MUL"} ->
           TypeCheck(n) \o <<Op(Mnemonic[n.op])>>
      [] n.op = "OP_DIV" ->
           <<Set("int2float", 0), Set("label_cont", 0)>>
             \o ToFloat(n.left, "int2float") \o ToFloat(n.right, "label_cont")
             \o <<Op("DIV")>>
      [] n.op = "OP_EQ"  -> TypeCheck(n) \o <<Op("JUMPIFEQ"), IfTarget, LoopTarget>>
      [] n.op = "OP_NEQ" -> TypeCheck(n) \o <<Op("JUMPIFNEQ"), IfTarget>>
      [] n.op \in {"OP_BIT_AND", "OP_BIT_OR", "OP_LNOT"} -> <<Op(Mnemonic[n.op])>>
      [] OTHER -> <<>>

-----------------------------------------------------------------------------
(* The items of `todo'.                                                    *)

\* Replace the first item of todo by the items of `rest'.
Do(rest) == todo' = rest \o Tail(todo)

Doing(kind) == todo # <<>> /\ Head(todo).k = kind

\* The expression handlers leave these alone.
NoStatement == UNCHANGED <<frames, lbl, base, runs>>

\* print_func: the leading tokens of todo.
PrintTokens ==
    /\ \E n \in 1 .. Len(todo) :
        /\ \A i \in 1 .. n : todo[i].k \in Plain
        /\ n < Len(todo) => todo[n + 1].k \notin Plain
        /\ out' = out \o SubSeq(todo, 1, n)
        /\ todo' = SubSeq(todo, n + 1, Len(todo))
    /\ UNCHANGED flag
    /\ NoStatement

\* var += d and var = v
Assign ==
    /\ \/ /\ Doing("add")
          /\ flag' = [flag EXCEPT ![Head(todo).s] = @ + Head(todo).n]
       \/ /\ Doing("set")
          /\ flag' = [flag EXCEPT ![Head(todo).s] = Head(todo).n]
    /\ Do(<<>>)
    /\ UNCHANGED out
    /\ NoStatement

\* "JUMPIFNEQ END_IF_0 TF@temp_bool_1 TF@temp_bool_2"
PrintTypeGuard ==
    /\ Doing("typeguard")
    /\ Do(<<>>)
    /\ out' = out \o <<Op("JUMPIFNEQ"), Ref("END_IF", 0), TB1, TB2, NL>>
    /\ UNCHANGED flag
    /\ NoStatement

\* The label a comparison jumps to, when an `if' is waiting for one.
PrintIfTarget ==
    /\ Doing("iftarget")
    /\ Do(<<>>)
    /\ IF flag.from_if = 1
         THEN /\ out' = out \o <<Ref("RES_IF", lbl.else_if_num)>>
              /\ flag' = [flag EXCEPT !.from_if = @ - 1]
         ELSE UNCHANGED <<out, flag>>
    /\ NoStatement

\* Mutant: loop_num is not counted down when a loop is closed.
PrintLoopTargetKept ==
    /\ Doing("looptarget")
    /\ Do(<<>>)
    /\ IF flag.from_loop = 1
         THEN /\ out' = out \o <<Ref("LOOP", flag.loop_num)>>
              /\ flag' = [flag EXCEPT !.from_loop = @ - 1]
         ELSE UNCHANGED <<out, flag>>
    /\ NoStatement

\* The label `==' jumps back to, when a loop is waiting for one.
PrintLoopTarget ==
    /\ Doing("looptarget")
    /\ Do(<<>>)
    /\ IF flag.from_loop = 1
         THEN /\ out' = out \o <<Ref("LOOP", flag.loop_num)>>
              /\ flag' = [flag EXCEPT !.loop_num = @ - 1, !.from_loop = @ - 1]
         ELSE UNCHANGED <<out, flag>>
    /\ NoStatement

\* The label `=' and `>' / `<' jump to in a condition.
PrintResIfRef ==
    /\ Doing("resifref")
    /\ Do(<<>>)
    /\ out' = out \o <<Ref("RES_IF", lbl.else_if_num)>>
    /\ UNCHANGED flag
    /\ NoStatement

\* The labels around INT2FLOAT in a division.
PrintDivLabel ==
    /\ Doing("divref") \/ Doing("divdef")
    /\ LET name == IF Head(todo).cont THEN "CONT" ELSE "RES_IF_int2float"
           num  == flag[Head(todo).var]
       IN  out' = out \o <<IF Head(todo).k = "divref" THEN Ref(name, num)
                                                     ELSE Def(name, num)>>
    /\ Do(<<>>)
    /\ UNCHANGED flag
    /\ NoStatement

-----------------------------------------------------------------------------
(* The handlers of expressions and simple statements.                      *)

Visiting(type) == Doing("visit") /\ Head(todo).node.type = type
node == Head(todo).node

\* visit_int and visit_double; only visit_int looks at from_return
visit_number ==
    /\ Visiting("INT") \/ Visiting("DOUBLE")
    /\ LET kind == IF node.type = "INT" THEN "int" ELSE "float"
       IN  CASE node.type = "INT" /\ flag.from_return = 1 ->
                  Do(<<Op("PUSHS"), Tok(kind, "num", node.num), Add("from_return", -1)>>)
             [] flag.from_minus = 1 /\ ~(node.type = "INT" /\ flag.from_return = 1) ->
                  Do(<<Tok(kind, "num", 0 - node.num), Add("from_minus", -1)>>)
             [] OTHER -> Do(<<Tok(kind, "num", node.num)>>)
    /\ UNCHANGED <<flag, out>>
    /\ NoStatement

visit_string ==
    /\ Visiting("STRING")
    /\ Do(<<Tok("string", node.val, 0)>>)
    /\ UNCHANGED <<flag, out>>
    /\ NoStatement

\* visit_id also calls emit_op, whose switch reads half of the name's address
\* as an operator: no address of a name is that small, so nothing is printed.
visit_id ==
    /\ Visiting("ID")
    /\ LET end == IF flag.args # 0 THEN <<NL>> ELSE <<>>
       IN  CASE flag.from_call = 1 ->
                  Do(<<Tok("word", node.val, 0), Add("from_call", -1)>>)
             [] flag.from_call # 1 /\ flag.from_func = 1 /\ flag.from_return = 0 ->
                  Do(<<TF(node.val)>> \o end)
             [] flag.from_call # 1 /\ flag.from_return = 1 ->
                  Do(<<Op("PUSHS"), TF(node.val), Add("from_return", -1)>>)
             [] OTHER -> Do(<<GF(node.val)>> \o end)
    /\ UNCHANGED <<flag, out>>
    /\ NoStatement

\* One turn of the ifj17_vec_each loop of visit_decl.
visit_decl ==
    /\ Visiting("DECL")
    /\ IF node.vec = <<>>
         THEN Do(<<>>)
         ELSE LET id   == Visit(Head(node.vec))
                  rest == <<Visit([node EXCEPT !.vec = Tail(@)])>>
              IN  IF flag.params = 1
                    THEN Do(<<Op("DEFVAR"), id, NL, Op("POPS"), id, NL>> \o rest)
                  ELSE IF flag.from_dim = 1
                    THEN Do(<<id>> \o rest)
                    ELSE Do(<<Op("DEFVAR"), id, NL>> \o rest)
    /\ UNCHANGED <<flag, out>>
    /\ NoStatement

\* A unary node is visited twice: once for its mnemonic, once for its operand.
visit_unary_op ==
    /\ Visiting("UNARY_OP")
    /\ CASE node.op = "OP_LNOT" /\ flag.not = 0 ->
              Do(<<Add("not", 1)>> \o emit_op(node))
         [] node.op = "OP_LNOT" /\ flag.not = 2 ->
              Do(<<Visit(node.expr), Set("not", 0)>>)
         [] node.op = "OP_MINUS" /\ flag.not = 0 ->
              Do(<<Add("not", 1)>> \o IF flag.from_dim # 1 THEN <<Op("MOVE")>> ELSE <<>>)
         [] node.op = "OP_MINUS" /\ flag.not = 2 ->
              Do(<<Add("from_minus", 1), Visit(node.expr), Set("not", 0)>>)
         [] OTHER -> Do(<<>>)
    /\ UNCHANGED <<flag, out>>
    /\ NoStatement

Arithmetic == {"OP_PLUS", "OP_MINUS", "OP_MUL", "OP_DIV", "OP_BIT_AND", "OP_BIT_OR"}

\* `a = b' as the condition of an if.
CompareItems(n) ==
    TypeCheck(n) \o <<Op("JUMPIFEQ"), ResIfRef, Visit(n.right), Visit(n.left), NL>>

\* Mutant: from_if is not taken back.
AssignInIfKept(n) == CompareItems(n)
AssignInIf(n) == CompareItems(n) \o <<Add("from_if", -1)>>

\* `=' whose right side is no binary operation.
AssignItems(n) ==
    CASE n.right.type = "CALL" ->
           <<Visit(n.right), NL, Op("POPS"), Visit(n.left), NL>>
      [] n.right.type = "UNARY_OP" ->
           <<Visit(n.right), Add("not", 1), Visit(n.left), Visit(n.right), NL>>
      [] n.right.type \notin {"CALL", "UNARY_OP"} /\ flag.from_if = 1 ->
           AssignInIf(n)
      [] OTHER -> <<Op("MOVE"), Visit(n.left), Visit(n.right), NL>>

visit_binary_op ==
    /\ Visiting("BINARY_OP")
    /\ LET n == node
           operands == <<Visit(n.left), Visit(n.right), NL>>
       IN  CASE n.op = "OP_ASSIGN" /\ n.right.type # "BINARY_OP" ->
                  Do(AssignItems(n))
             [] n.op \in Arithmetic /\ flag.bin_op = 1 ->
                  Do(emit_op(n))
             [] n.op \in Arithmetic /\ flag.bin_op = 2 ->
                  Do(operands \o <<Add("bin_op", -2)>>)
             [] n.op \in {"OP_EQ", "OP_NEQ"} ->
                  Do(emit_op(n) \o operands)
             [] n.op \in {"OP_GT", "OP_LT"} ->
                  Do(TypeCheck(n)
                     \o <<Op("DEFVAR"), TF("temp_bool_rel"), NL,
                          Op("GT"), TF("temp_bool_rel")>> \o operands
                     \o <<Op("JUMPIFEQ"), ResIfRef, TF("temp_bool_rel"),
                          Tok("bool", "true", 0), NL>>)
             [] OTHER ->
                  Do(<<Add("bin_op", 1), Visit(n.right), Visit(n.left),
                       Add("bin_op", 1), Visit(n.right)>>)
    /\ UNCHANGED <<flag, out>>
    /\ NoStatement

visit_call ==
    /\ Visiting("CALL")
    /\ LET len  == Len(node.args.vec)
           push == IF len = 0 THEN <<>>
                   ELSE <<Op("PUSHS")>> \o [i \in 1 .. len |-> Visit(node.args.vec[i])]
                        \o <<Set("args", 0)>>
           call == IF flag.scope # 1
                     THEN <<Op("PUSHFRAME"), NL, NL, Op("POPFRAME")>>
                     ELSE <<Op("CALL"), Add("from_call", 1), Visit(node.expr)>>
       IN  Do(<<Set("args", len)>> \o push \o call)
    /\ UNCHANGED <<flag, out>>
    /\ NoStatement

\* One turn of the ifj17_vec_each loop of visit_dim.
visit_dim ==
    /\ Visiting("DIM")
    /\ IF node.vec = <<>>
         THEN Do(<<>>)
         ELSE LET bin  == Head(node.vec)
                  init == <<Add("from_dim", 1), Op("MOVE"), Visit(bin.left),
                            Visit(bin.right), Add("not", 1), Visit(bin.right),
                            Add("from_dim", -1)>>
              IN  Do(<<Visit(bin.left)>> \o (IF bin.right = Null THEN <<>> ELSE init)
                     \o <<Visit([node EXCEPT !.vec = Tail(@)])>>)
    /\ UNCHANGED <<flag, out>>
    /\ NoStatement

visit_return ==
    /\ Visiting("RETURN")
    /\ Do((IF node.expr = Null THEN <<>>
           ELSE <<Add("from_return", 1), Visit(node.expr), NL>>)
          \o <<Op("RETURN"), NL>>)
    /\ UNCHANGED <<flag, out>>
    /\ NoStatement

\* Nodes with an empty handler, and those ifj17_gen registers none for.
Silent == {"DECLARE", "PRINT", "INPUT", "TYPE", "ARRAY", "HASH", "SUBSCRIPT", "SLOT"}

\* Mutant: those of statements have no handler at all.
visit_silentOperands ==
    /\ Doing("visit") /\ node.type \in Silent \ {"DECLARE", "PRINT", "INPUT"}
    /\ Do(<<>>)
    /\ UNCHANGED <<flag, out>>
    /\ NoStatement

visit_silent ==
    /\ Doing("visit") /\ node.type \in Silent
    /\ Do(<<>>)
    /\ UNCHANGED <<flag, out>>
    /\ NoStatement

\* One turn of the loop over the parameters in visit_function.
visit_params ==
    /\ Doing("params")
    /\ LET vec == Head(todo).vec
       IN  IF vec = <<>>
             THEN Do(<<>>)
             ELSE Do(<<Add("params", 1), Visit(Head(vec)), Add("params", -1),
                       Params(Tail(vec))>>)
    /\ UNCHANGED <<flag, out>>
    /\ NoStatement

ExpressionStep ==
    \/ PrintTokens \/ Assign \/ PrintTypeGuard \/ PrintIfTarget \/ PrintLoopTarget
    \/ PrintResIfRef \/ PrintDivLabel
    \/ visit_number \/ visit_string \/ visit_id \/ visit_decl \/ visit_unary_op
    \/ visit_binary_op \/ visit_call \/ visit_dim \/ visit_return \/ visit_silent
    \/ visit_params

-----------------------------------------------------------------------------
(* The handlers that visit blocks.                                         *)

\* h: the handler; node: its argument; pc, i: where it stands; mem: visit_if's
\* local mem_else_if_num (of a loop: the number of its label, for LoopRouting);
\* len: the length of the vector visit_if iterates, known after its first pass.
FrameFromZero(h, n, pc, mem) ==   \* Mutant: iterates from index 0
    [h |-> h, node |-> n, pc |-> pc, i |-> 0, mem |-> mem, len |-> 0]
Frame(h, n, pc, mem) ==
    [h |-> h, node |-> n, pc |-> pc, i |-> 1, mem |-> mem, len |-> 0]
BlockFrame(n) == Frame("block", n, "body", 0)

Top     == frames[Len(frames)]
Callers == SubSeq(frames, 1, Len(frames) - 1)

\* The innermost activation is one of handler h and no expression is pending.
Running(h) == todo = <<>> /\ frames # <<>> /\ Top.h = h

\* The statement visit_block visits next is of this type.
NextStmt == Top.node.stmts[Top.i]
AtStmt(types) ==
    /\ Running("block")
    /\ Top.i <= Len(Top.node.stmts)
    /\ NextStmt.type \in types

\* visit_block moves on to its next statement, calling the handlers `called'.
CallFromBlock(called) ==
    frames' = Callers \o (<<[Top EXCEPT !.i = @ + 1]>> \o called)

Composite == {"IF", "WHILE", "SCOPE", "FUNCTION"}

visit_block ==
    /\ \/ /\ Running("block")
          /\ Top.i <= Len(Top.node.stmts)
          /\ NextStmt.type \notin Composite
          /\ todo' = <<Visit(NextStmt)>>
          /\ CallFromBlock(<<>>)
       \/ /\ Running("block")
          /\ Top.i > Len(Top.node.stmts)
          /\ frames' = Callers
          /\ UNCHANGED todo
    /\ UNCHANGED <<flag, lbl, out, base, runs>>

\* visit_if up to the visit of the first condition.
visit_if ==
    /\ AtStmt({"IF"})
    /\ CallFromBlock(<<Frame("if", NextStmt, "conds", lbl.else_if_num)>>)
    /\ lbl' = [lbl EXCEPT !.else_if_num = @ + 1, !.end_if_num = @ + 1]
    /\ flag' = [flag EXCEPT !.from_if = @ + 1]
    /\ todo' = <<Visit(NextStmt.expr)>>
    /\ UNCHANGED <<out, base, runs>>

InIf(pc) == Running("if") /\ Top.pc = pc
ElseIfs  == Top.node.else_ifs

\* Mutant: an elseif does not count its condition.
IfElseIfCondUncounted ==
    /\ InIf("conds") /\ Top.i <= Len(ElseIfs)
    /\ flag' = [flag EXCEPT !.from_if = @ + 1]
    /\ todo' = <<Visit(ElseIfs[Top.i].expr)>>
    /\ frames' = Callers \o <<[Top EXCEPT !.i = @ + 1]>>
    /\ UNCHANGED <<lbl, out, base, runs>>

\* The next elseif condition.
IfElseIfCond ==
    /\ InIf("conds") /\ Top.i <= Len(ElseIfs)
    /\ lbl' = [lbl EXCEPT !.else_if_num = @ + 1]
    /\ flag' = [flag EXCEPT !.from_if = @ + 1]
    /\ todo' = <<Visit(ElseIfs[Top.i].expr)>>
    /\ frames' = Callers \o <<[Top EXCEPT !.i = @ + 1]>>
    /\ UNCHANGED <<out, base, runs>>

\* Where to go if no condition held.
Missed(hasElse, num) ==
    IF hasElse THEN JumpLine("RES_ELSE", num)
    ELSE IF ElseIfs = <<>> THEN JumpLine("END_IF", lbl.end_if_num)
    ELSE <<>>

\* Mutant: an if without else is treated as if it had one.
MissedElse(hasElse, num) == JumpLine("RES_ELSE", num)
NoMatch(hasElse, num) == Missed(hasElse, num)

\* The label of the next branch.  Mutant: the number is taken from the global
\* counter and not from the local copy.
BranchLabelGlobal == LabelLine("RES_IF", lbl.else_if_num)
BranchLabel == LabelLine("RES_IF", Top.mem + 1)

\* After the conditions: the first branch.
IfBlock ==
    /\ InIf("conds") /\ ~(Top.i <= Len(ElseIfs))
    /\ LET hasElse == Top.node.else_block # Null
           num     == IF hasElse THEN lbl.else_num + 1 ELSE lbl.else_num
       IN  /\ lbl' = [lbl EXCEPT !.else_num = num]
           /\ out' = out \o NoMatch(hasElse, num) \o BranchLabel
    /\ frames' = Callers \o <<[Top EXCEPT !.pc = "blocks", !.i = 1, !.mem = @ + 1,
                                   !.len = Top.i - 1],
                              BlockFrame(Top.node.block)>>
    /\ UNCHANGED <<todo, flag, base, runs>>

\* The next elseif branch.
IfElseIfBlock ==
    /\ InIf("blocks") /\ Top.i <= Top.len
    /\ out' = out \o JumpLine("END_IF", lbl.end_if_num) \o BranchLabel
    /\ frames' = Callers \o <<[Top EXCEPT !.i = @ + 1, !.mem = @ + 1],
                              BlockFrame(ElseIfs[Top.i].block)>>
    /\ UNCHANGED <<todo, flag, lbl, base, runs>>

IfElseBlock ==
    /\ InIf("blocks") /\ Top.i > Top.len /\ Top.node.else_block # Null
    /\ out' = out \o JumpLine("END_IF", lbl.end_if_num) \o LabelLine("RES_ELSE", lbl.else_num)
    /\ frames' = Callers \o <<[Top EXCEPT !.pc = "else"], BlockFrame(Top.node.else_block)>>
    /\ UNCHANGED <<todo, flag, lbl, base, runs>>

IfEnd ==
    /\ \/ InIf("blocks") /\ Top.i > Top.len /\ Top.node.else_block = Null
       \/ InIf("else")
    /\ out' = out \o JumpLine("END_IF", lbl.end_if_num) \o LabelLine("END_IF", lbl.end_if_num)
    /\ frames' = Callers
    /\ UNCHANGED <<todo, flag, lbl, base, runs>>

\* The number of the loop being entered.  Mutant: counted from loop_num, which
\* conditions count down, and not from mem_loop_num.
NextLoopFromTop == flag.loop_num + 1
NextLoop == lbl.mem_loop_num + 1

visit_while ==
    /\ AtStmt({"WHILE"})
    /\ flag' = [flag EXCEPT !.loop_num = NextLoop]
    /\ lbl' = [lbl EXCEPT !.mem_loop_num = @ + 1]
    /\ out' = out \o LabelLine("LOOP", NextLoop)
    /\ CallFromBlock(<<Frame("while", NextStmt, "body", NextLoop),
                    BlockFrame(NextStmt.block)>>)
    /\ UNCHANGED <<todo, base, runs>>

\* The loop's body is printed; its condition comes last.
WhileCond ==
    /\ Running("while")
    /\ flag' = [flag EXCEPT !.from_loop = @ + 1]
    /\ todo' = <<Visit(Top.node.expr)>>
    /\ frames' = Callers
    /\ UNCHANGED <<lbl, out, base, runs>>

visit_scope ==
    /\ AtStmt({"SCOPE"})
    /\ out' = out \o LabelLine("Scope", 0)
                  \o <<Op("CREATEFRAME"), NL, Op("DEFVAR"), TB1, NL, Op("DEFVAR"), TB2, NL>>
    /\ flag' = [flag EXCEPT !.scope = @ + 1]
    /\ CallFromBlock(<<Frame("scope", NextStmt, "body", 0), BlockFrame(NextStmt.block)>>)
    /\ UNCHANGED <<todo, lbl, base, runs>>

\* Mutant: scope is not counted down.
ScopeEndKept ==
    /\ Running("scope")
    /\ out' = out \o LabelLine("END_IF", 0)
    /\ frames' = Callers
    /\ UNCHANGED <<todo, flag, lbl, base, runs>>

ScopeEnd ==
    /\ Running("scope")
    /\ flag' = [flag EXCEPT !.scope = @ - 1]
    /\ out' = out \o LabelLine("END_IF", 0)
    /\ frames' = Callers
    /\ UNCHANGED <<todo, lbl, base, runs>>

visit_function ==
    /\ AtStmt({"FUNCTION"})
    /\ flag' = [flag EXCEPT !.from_func = @ + 1]
    /\ out' = out \o <<Op("LABEL"), Tok("word", NextStmt.name, 0), NL, Op("CREATEFRAME"), NL>>
    /\ todo' = <<Params(NextStmt.params)>>
    /\ CallFromBlock(<<Frame("function", NextStmt, "body", 0), BlockFrame(NextStmt.block)>>)
    /\ UNCHANGED <<lbl, base, runs>>

FunctionEnd ==
    /\ Running("function")
    /\ flag' = [flag EXCEPT !.from_func = @ - 1]
    /\ frames' = Callers
    /\ UNCHANGED <<todo, lbl, out, base, runs>>

-----------------------------------------------------------------------------
Idle == frames = <<>> /\ todo = <<>>

Init ==
    /\ frames = <<>>
    /\ todo = <<>>
    /\ flag = [v \in FlagNames |-> 0]
    /\ lbl = [v \in LblNames |-> 0]
    /\ out = <<>>
    /\ base = 0
    /\ runs = 0

\* A new call of ifj17_gen: the file-static variables keep their values.
GenBegin(p) ==
    /\ Idle
    /\ runs < MaxRuns
    /\ frames' = <<Frame("gen", p, "body", 0), BlockFrame(p)>>
    /\ out' = <<Op(".IFJcode17"), NL>> \o JumpLine("Scope", 0)
    /\ base' = lbl.else_if_num
    /\ runs' = runs + 1
    /\ UNCHANGED <<todo, flag, lbl>>

ifj17_gen == \E p \in Programs : GenBegin(p)

\* The program's block is done.
GenEnd ==
    /\ Running("gen")
    /\ out' = out \o <<NL>>
    /\ frames' = Callers
    /\ UNCHANGED <<todo, flag, lbl, base, runs>>

StatementStep ==
    \/ visit_block \/ visit_if \/ IfElseIfCond \/ IfBlock \/ IfElseIfBlock
    \/ IfElseBlock \/ IfEnd \/ visit_while \/ WhileCond \/ visit_scope \/ ScopeEnd
    \/ visit_function \/ FunctionEnd \/ GenEnd

Next == ifj17_gen \/ ExpressionStep \/ StatementStep

Spec == Init /\ [][Next]_vars

\* The visitor is a plain C program: a step it can take is taken.
FairSpec == Spec /\ WF_vars(ExpressionStep \/ StatementStep)

-----------------------------------------------------------------------------
(* Tidy programs: those whose context flags are all taken back and whose    *)
(* pieces fit together.  Outside this class the handlers leave flags behind  *)
(* (`>' in an if, a unary operand, an initialised dim) or lines unfinished. *)

Leaf == {"INT", "DOUBLE", "STRING", "ID"}
AllIds(vec) == \A i \in DOMAIN vec : vec[i].type = "ID"

\* Two operands without handlers of their own below them.
Flat(n, ops) ==
    n.type = "BINARY_OP" /\ n.op \in ops /\ n.left.type \in Leaf /\ n.right.type \in Leaf

TidyUnary(n) ==
    /\ n.type = "UNARY_OP"
    /\ \/ n.op = "OP_LNOT" /\ n.expr.type \in Leaf
       \/ n.op = "OP_MINUS" /\ n.expr.type \in {"INT", "DOUBLE"}

\* INT2FLOAT writes to its operand.
TidyArithmetic(n) ==
    Flat(n, Arithmetic) /\ (n.op = "OP_DIV" => n.left.type = "ID" /\ n.right.type = "ID")

TidyCall(n) == n.type = "CALL" /\ n.expr.type = "ID" /\ Len(n.args.vec) <= 1 /\ AllIds(n.args.vec)

\* What may stand on the right of `='; calls are printed in the scope only.
TidyValue(n, called) ==
    n.type \in Leaf \/ TidyUnary(n) \/ TidyArithmetic(n) \/ (called /\ TidyCall(n))

TidySimple(n, called) ==
    \/ n.type \in Silent
    \/ n.type = "RETURN" /\ (n.expr = Null \/ n.expr.type \in {"INT", "ID"})
    \/ /\ n.type = "DIM"
       /\ \A i \in DOMAIN n.vec :
            n.vec[i].left.type = "DECL" /\ AllIds(n.vec[i].left.vec) /\ n.vec[i].right = Null
    \/ /\ n.type = "BINARY_OP" /\ n.op = "OP_ASSIGN"
       /\ n.left.type = "ID" /\ TidyValue(n.right, called)

TidyIf(n, B) ==
    LET Condition(e) == Flat(e, {"OP_EQ", "OP_NEQ", "OP_ASSIGN"})
    IN  /\ Condition(n.expr) /\ n.block \in B
        /\ \A i \in DOMAIN n.else_ifs : Condition(n.else_ifs[i].expr) /\ n.else_ifs[i].block \in B
        /\ n.else_block \in B \cup {Null}

TidyWhile(n, B) == Flat(n.expr, {"OP_EQ"}) /\ n.block \in B

TidyFunction(n, B) ==
    /\ \A i \in DOMAIN n.params : n.params[i].type = "DECL" /\ AllIds(n.params[i].vec)
    /\ n.block \in B

\* A statement outside the scope, where Out holds the blocks and In those of the
\* scope, or inside it, where both are In.
TidyStatement(n, B, called, In) ==
    \/ TidySimple(n, called)
    \/ n.type = "IF" /\ TidyIf(n, B)
    \/ n.type = "WHILE" /\ TidyWhile(n, B)
    \/ n.type = "FUNCTION" /\ TidyFunction(n, B)
    \/ n.type = "SCOPE" /\ ~called /\ n.block \in In

\* Out: blocks outside a scope, the programs among them; In: blocks inside one.
Tidy(Out, In) ==
    /\ Programs \subseteq Out
    /\ \A b \in Out : \A i \in DOMAIN b.stmts : TidyStatement(b.stmts[i], Out, FALSE, In)
    /\ \A b \in In  : \A i \in DOMAIN b.stmts : TidyStatement(b.stmts[i], In, TRUE, In)

-----------------------------------------------------------------------------
(* Loops one inside the other: none holds two side by side, at any depth,   *)
(* and each is closed by `=='.  Outside this class loop_num may be counted   *)
(* down to a number that is not the enclosing loop's, or not at all.        *)

\* The blocks that visit_if visits: its own, those of the elseifs, that of else.
Slots(n) == 0 .. Len(n.else_ifs) + 1
Branch(n, j) ==
    IF j = 0 THEN n.block
    ELSE IF j <= Len(n.else_ifs) THEN n.else_ifs[j].block ELSE n.else_block

\* Statement n holds no loop; Free are blocks that hold none.
LoopFree(n, Free) ==
    /\ n.type # "WHILE"
    /\ n.type = "IF" => \A j \in Slots(n) : Branch(n, j) \in Free \cup {Null}
    /\ n.type \in {"SCOPE", "FUNCTION"} => n.block \in Free

\* Statement n is a loop or holds one at most; One are blocks that hold one at most.
OneLoop(n, Free, One) ==
    /\ n.type = "IF" =>
         /\ \A j \in Slots(n) : Branch(n, j) \in One \cup {Null}
         /\ \A j, l \in Slots(n) : j # l =>
              Branch(n, j) \in Free \cup {Null} \/ Branch(n, l) \in Free \cup {Null}
    /\ n.type \in {"SCOPE", "FUNCTION"} => n.block \in One

LoopsChained(Free, One) ==
    /\ \A b \in Free : \A i \in DOMAIN b.stmts : LoopFree(b.stmts[i], Free)
    /\ \A b \in One : \A i \in DOMAIN b.stmts :
         /\ OneLoop(b.stmts[i], Free, One)
         /\ \A j \in DOMAIN b.stmts :
              i # j => LoopFree(b.stmts[i], Free) \/ LoopFree(b.stmts[j], Free)
    /\ \A n \in OfType(Nodes, "WHILE") :
         n.expr.type = "BINARY_OP" /\ n.expr.op = "OP_EQ" /\ n.block \in One

-----------------------------------------------------------------------------
(* Programs whose labels do not meet: no if in a branch of an if, one scope, *)
(* functions with names of their own, and no division.  Outside this class   *)
(* END_IF and RES_ELSE get the numbers of inner ifs, a second scope prints    *)
(* Scope and END_IF_0 again, and a second division the labels of the first.   *)

Undivided(N) == \A n \in OfType(N, "BINARY_OP") : n.op # "OP_DIV"

\* Statement n visits blocks of B only, and in the branches of an if only of A.
Apart(n, B, A) ==
    /\ n.type = "WHILE" => n.block \in B
    /\ n.type = "IF" => \A j \in Slots(n) : Branch(n, j) \in A \cup {Null}

\* P: programs of nodes N; B: their inner blocks; A: those of the branches of ifs.
LabelsApart(P, N, B, A) ==
    /\ Undivided(N)
    /\ \A b \in A : \A i \in DOMAIN b.stmts :
         b.stmts[i].type \notin {"IF", "SCOPE", "FUNCTION"} /\ Apart(b.stmts[i], A, A)
    /\ \A b \in B : \A i \in DOMAIN b.stmts :
         b.stmts[i].type \notin {"SCOPE", "FUNCTION"} /\ Apart(b.stmts[i], B, A)
    /\ \A p \in P : \A i \in DOMAIN p.stmts :
         /\ Apart(p.stmts[i], B, A)
         /\ p.stmts[i].type \in {"SCOPE", "FUNCTION"} => p.stmts[i].block \in B
         /\ p.stmts[i].type = "FUNCTION" =>
              p.stmts[i].name \notin {"Scope", "END_IF", "RES_IF", "RES_ELSE", "LOOP"}
         /\ \A j \in DOMAIN p.stmts :
              /\ p.stmts[i].type = "SCOPE" /\ p.stmts[j].type = "SCOPE" => i = j
              /\ /\ p.stmts[i].type = "FUNCTION" /\ p.stmts[j].type = "FUNCTION"
                 /\ p.stmts[i].name = p.stmts[j].name
                 => i = j

-----------------------------------------------------------------------------
(* Properties.                                                             *)

Elements(seq) == {seq[i] : i \in DOMAIN seq}

\* Every activation stands somewhere in its handler, the label counters count
\* up from 0 and the flags are ints.
TypeOK ==
    /\ frames \in Seq(Elements(frames))
    /\ \A f \in Elements(frames) :
        f \in [h : {"gen", "block", "if", "while", "scope", "function"}, node : {f.node},
              pc : {"body", "conds", "blocks", "else"}, i : Nat \ {0}, mem : Nat, len : Nat]
    /\ flag \in [FlagNames -> Int]
    /\ lbl \in [LblNames -> Nat]
    /\ base \in Nat
    /\ runs \in 0 .. MaxRuns

Finished == Idle /\ runs > 0

Defs(s) == {i \in DOMAIN out : out[i].k = "def" /\ out[i].s = s}
Refs(s) == {i \in DOMAIN out : out[i].k = "ref" /\ out[i].s = s}

\* visit_if's local mem_else_if_num numbers the RES_IF labels of nested, chained
\* and repeated ifs so that none is defined twice.
ResIfUnique ==
    \A i, j \in Defs("RES_IF") : out[i].n = out[j].n => i = j

\* Every RES_IF label that a condition of this run jumps to is defined when the
\* run ends, at whatever depth the condition was.  A `>' or `<' printed before
\* the run's first `if' names the label of an earlier run (or RES_IF_0).
ResIfResolved ==
    Finished => \A i \in Refs("RES_IF") :
        out[i].n > base => \E j \in Defs("RES_IF") : out[j].n = out[i].n

\* While visit_if is in its conditions, the global counter that a condition
\* prints is the number its own local counter will give that condition's branch.
BranchRouting ==
    \A p \in DOMAIN frames : frames[p].pc = "conds" =>
        /\ p = Len(frames)
        /\ lbl.else_if_num = frames[p].mem + frames[p].i

\* visit_while never reuses a LOOP label, whatever the conditions do to loop_num.
LoopUnique ==
    \A i, j \in Defs("LOOP") : out[i].n = out[j].n => i = j

\* When a loop's condition is about to be visited, loop_num is that loop's own
\* label: the back jump goes to the top of the loop being closed.
LoopRouting == Running("while") => flag.loop_num = Top.mem

\* The flags by which handlers pass context to the nodes they visit are all
\* taken back by the time the next statement is visited.
ContextFlags == FlagNames \ {"from_func", "scope", "loop_num", "label_cont", "int2float"}
FlagsClean == Running("block") => \A v \in ContextFlags : flag[v] = 0

\* Lines of the output: from the token after a line end up to the next one.
LineStarts == {i \in DOMAIN out : i = 1 \/ out[i - 1] = NL}
LineEnd(i) == CHOOSE j \in i .. Len(out) : out[j] = NL /\ \A m \in i .. j - 1 : out[m] # NL
LabelLines == {i \in LineStarts : out[i] = Op("LABEL")}
Jumps      == {"JUMP", "JUMPIFEQ", "JUMPIFNEQ", "CALL"}

\* The operands of the IFJcode17 instructions the generator prints.
Var   == {"GF", "TF"}
Sym   == Var \cup {"int", "float", "string", "bool"}
Label == {"def", "ref", "word"}
Operands(op) ==
    CASE op \in {".IFJcode17", "CREATEFRAME", "PUSHFRAME", "POPFRAME", "RETURN"} -> <<>>
      [] op \in {"DEFVAR", "POPS"} -> <<Var>>
      [] op = "PUSHS" -> <<Sym>>
      [] op \in {"LABEL", "JUMP", "CALL"} -> <<Label>>
      [] op \in {"MOVE", "TYPE", "NOT", "INT2FLOAT"} -> <<Var, Sym>>
      [] op \in {"JUMPIFEQ", "JUMPIFNEQ"} -> <<Label, Sym, Sym>>
      [] op \in {"ADD", "SUB", "MUL", "DIV", "AND", "OR", "GT"} -> <<Var, Sym, Sym>>

\* Every printed line is empty or one instruction with operands of the right
\* number and kind: the pieces the handlers print separately fit together.
CodeWellFormed ==
    Finished =>
        /\ out[Len(out)] = NL
        /\ \A i \in LineStarts :
            LET j == LineEnd(i)
            IN  i = j \/ /\ out[i].k = "op"
                         /\ LET sig == Operands(out[i].s)
                            IN  /\ j - i - 1 = Len(sig)
                                /\ \A m \in DOMAIN sig : out[i + m].k \in sig[m]

\* No label of the finished program is defined by two LABEL instructions.
LabelsUnique ==
    Finished => \A i, j \in LabelLines :
        (out[i + 1].s = out[j + 1].s /\ out[i + 1].n = out[j + 1].n) => i = j

\* Every loop label is the target of a later jump: no loop is printed that never
\* repeats.
LoopsRepeat ==
    \A i \in Defs("LOOP") : \E j \in Refs("LOOP") : j > i /\ out[j].n = out[i].n

\* Every jump and every CALL of the finished program names a label it defines, and
\* its loops repeat.
JumpsResolved ==
    Finished =>
        /\ \A i \in {m \in LineStarts : out[m].k = "op" /\ out[m].s \in Jumps} :
               \E j \in LabelLines : out[j + 1].s = out[i + 1].s /\ out[j + 1].n = out[i + 1].n
        /\ LoopsRepeat

\* A POPS takes a parameter, just declared, or the result of the CALL before it:
\* no call's result is taken without the call.
ResultsReturned ==
    Finished => \A i \in {m \in LineStarts : out[m] = Op("POPS")} :
        \E j \in LineStarts : LineEnd(j) = i - 1 /\ out[j] \in {Op("DEFVAR"), Op("CALL")}

\* Every program, however nested, is printed to its end.
Terminates == \A r \in 1 .. MaxRuns : (runs = r) ~> Finished
=============================================================================
