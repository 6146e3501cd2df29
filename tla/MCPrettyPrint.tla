---------------------------- MODULE MCPrettyPrint ---------------------------
(***************************************************************************)
(* Small trees for PrettyPrint, and what a reader of a page can tell about *)
(* its tree.                                                               *)
(***************************************************************************)
EXTENDS PrettyPrint, MCAst

Vecs(s, n) == UNION {[1 .. k -> s] : k \in 0 .. n}
Keyword(slot, v) == [slot |-> slot, val |-> v]

A == id_node("a")
B == id_node("b")
T == id_node("t")
Args(vec) == args_node(vec, <<>>)
Init1(l, r) == binary_op_node("OP_ASSIGN", l, r)

Atoms == {A, int_node(1), double_node(1), string_node("a")}
\* Every kind of expression over the operands of a set
Over(s) ==
    UNION {{unary_op_node("OP_MINUS", e, FALSE), unary_op_node("OP_INCR", e, FALSE),
            unary_op_node("OP_INCR", e, TRUE), binary_op_node("OP_PLUS", e, B),
            binary_op_node("OP_ASSIGN", A, e), array_node(<<e>>), array_node(<<B, e>>),
            hash_node(<<hash_pair_node(e, B)>>), hash_node(<<hash_pair_node(A, A), hash_pair_node(A, e)>>),
            subscript_node(A, e), slot_node(e, A), call_node(e, Args(<<>>)),
            call_node(A, Args(<<e>>)), call_node(A, Args(<<B, e>>)),
            call_node(A, args_node(<<B>>, <<Keyword("k", e)>>)),
            call_node(A, args_node(<<B>>, <<Keyword("j", B), Keyword("k", e)>>))} : e \in s}
Empty  == {array_node(<<>>), hash_node(<<>>)}
Exprs1 == Atoms \cup Over({A}) \cup Empty
Exprs2 == Exprs1 \cup Over(Over({A}))

Decls  == {decl_node(<<A>>, T), decl_node(<<A, B>>, T), decl_node(<<A>>, Null)}
Simple(es) ==
    es \cup {return_node(e) : e \in es \cup {Null}} \cup {input_node(e) : e \in es}
       \cup {print_node(ps) : ps \in {<<>>} \cup {<<e>> : e \in es} \cup {<<A, e>> : e \in es}}
       \cup {dim_node(<<Init1(d, e)>>) : d \in Decls, e \in es \cup {Null}}
       \cup {dim_node(<<Init1(d, Null), Init1(decl_node(<<B>>, T), e)>>) : d \in Decls, e \in es}
       \cup {declare_node("f", t, ps) : t \in {Null, T}, ps \in Vecs(Decls, 2)}
       \cup {type_node("t", fs) : fs \in Vecs(Decls, 2)}

Move   == Init1(A, int_node(1))
Blocks == {block_node(ss) : ss \in {<<>>, <<Move>>, <<Move, A>>}}
Nest(bs, es) ==
    {scope_node(b) : b \in bs} \cup {while_node(e, b) : e \in es, b \in bs}
    \cup {function_node("f", t, b, ps) : t \in {Null, T}, b \in bs, ps \in Vecs({decl_node(<<A>>, T)}, 2)}
    \cup {if_node(e, b, eis, els) : e \in es, b \in bs, els \in bs \cup {Null},
             eis \in {<<>>} \cup {<<if_node(A, c, <<>>, Null)>> : c \in bs}
                            \cup {<<if_node(A, c, <<>>, Null), if_node(B, c, <<>>, Null)>> : c \in bs}}

Deep == Nest({block_node(<<Move, s>>) : s \in {if_node(A, block_node(<<Move>>), <<>>, block_node(<<>>)),
                                             while_node(A, block_node(<<return_node(A)>>)),
                                             dim_node(<<Init1(decl_node(<<A>>, T), array_node(<<A>>))>>)}},
             {call_node(A, Args(<<B>>))})

Program(s) == block_node(<<s>>)
Whole ==
    {Program(s) : s \in Exprs2 \cup Simple({A, array_node(<<A, B>>)}) \cup Nest(Blocks, {A}) \cup Deep}
    \cup {block_node(<<>>)} \cup {block_node(<<s, t>>) : s, t \in {Move, scope_node(block_node(<<Move>>))}}

\* What the parser builds where a part is missing, and where that is not visited
Missing == {unary_op_node("OP_MINUS", Null, FALSE), input_node(Null), call_node(A, Null),
            call_node(A, args_node(<<B>>, <<Keyword("k", Null)>>))}
BareKeywords == {call_node(A, args_node(<<>>, <<Keyword("k", v)>>)) : v \in {A, B, Null}}
Partial(s) == {Program(e) : e \in s} \cup {block_node(<<Move, return_node(e)>>) : e \in s}
              \cup {Program(scope_node(block_node(<<e, Move>>))) : e \in s}

AllTrees == Whole \cup Partial(Missing) \cup Partial(BareKeywords)
AllNodes == NodesOf(Trees)
Heights  == HeightsOf(AllNodes)

-----------------------------------------------------------------------------
\* A page tells its tree: no two trees are printed alike, except that a call
\* without plain arguments loses its keyword arguments.
TellsApart ==
    pc = "idle" /\ root # Null /\ root \notin Partial(BareKeywords) =>
        \A t \in Trees \ Partial(BareKeywords) : Pages[t] = out => t = root
=============================================================================
