-------------------------------- MODULE Ast --------------------------------
(***************************************************************************)
(* The nodes of src/src/ast.h and their constructors in src/src/ast.c.     *)
(*                                                                         *)
(* A node is a record of its type and the members of its struct; a vector  *)
(* is a sequence, and what the parser pushes to an empty vector after the  *)
(* call is an argument here.  Line numbers, failing allocation and `let',  *)
(* which is always 0, are left out.  Three members are named apart from    *)
(* the source: `of' is the `type' of a declaration, next to the base's     *)
(* `type'; `num' is the `val' of a number; and `hash', the keyword         *)
(* arguments, is a sequence in the order of the table's buckets.           *)
(***************************************************************************)
EXTENDS Sequences

Null == [type |-> "NULL"]

block_node(stmts)       == [type |-> "BLOCK", stmts |-> stmts]
args_node(vec, hash)    == [type |-> "ARGS", vec |-> vec, hash |-> hash]
int_node(n)             == [type |-> "INT", num |-> n]
double_node(n)          == [type |-> "DOUBLE", num |-> n]
id_node(val)            == [type |-> "ID", val |-> val]
string_node(val)        == [type |-> "STRING", val |-> val]
decl_node(vec, t)       == [type |-> "DECL", vec |-> vec, of |-> t]
dim_node(vec)           == [type |-> "DIM", vec |-> vec]
call_node(e, args)      == [type |-> "CALL", expr |-> e, args |-> args]
subscript_node(l, r)    == [type |-> "SUBSCRIPT", left |-> l, right |-> r]
slot_node(l, r)         == [type |-> "SLOT", left |-> l, right |-> r]
unary_op_node(op, e, p) == [type |-> "UNARY_OP", op |-> op, expr |-> e, postfix |-> p]
binary_op_node(op, l, r) == [type |-> "BINARY_OP", op |-> op, left |-> l, right |-> r]
array_node(vals)        == [type |-> "ARRAY", vals |-> vals]
hash_pair_node(k, v)    == [type |-> "HASH_PAIR", key |-> k, val |-> v]
hash_node(pairs)        == [type |-> "HASH", pairs |-> pairs]
scope_node(b)           == [type |-> "SCOPE", block |-> b]
declare_node(f, t, ps)  == [type |-> "DECLARE", name |-> f, of |-> t, params |-> ps]
function_node(f, t, b, ps) ==
    [type |-> "FUNCTION", name |-> f, of |-> t, block |-> b, params |-> ps]
type_node(name, fields) == [type |-> "TYPE", name |-> name, fields |-> fields]
if_node(e, b, eis, els) ==
    [type |-> "IF", expr |-> e, block |-> b, else_ifs |-> eis, else_block |-> els]
while_node(e, b)        == [type |-> "WHILE", expr |-> e, block |-> b]
return_node(e)          == [type |-> "RETURN", expr |-> e]
print_node(params)      == [type |-> "PRINT", params |-> params]
input_node(param)       == [type |-> "INPUT", param |-> param]

\* The members of the structs of expressions and of statements.
ExprMembers(type) ==
    CASE type = "ARGS"       -> {"vec", "hash"}
      [] type = "CALL"       -> {"expr", "args"}
      [] type = "DECL"       -> {"vec", "of"}
      [] type = "DIM"        -> {"vec"}
      [] type = "UNARY_OP"   -> {"op", "expr", "postfix"}
      [] type = "BINARY_OP"  -> {"op", "left", "right"}
      [] type = "ARRAY"      -> {"vals"}
      [] type = "HASH"       -> {"pairs"}
      [] type = "HASH_PAIR"  -> {"key", "val"}
      [] type \in {"INT", "DOUBLE"}     -> {"num"}
      [] type \in {"ID", "STRING"}      -> {"val"}
      [] type \in {"SUBSCRIPT", "SLOT"} -> {"left", "right"}
      [] OTHER               -> {}
StmtMembers(type) ==
    CASE type = "BLOCK"      -> {"stmts"}
      [] type = "SCOPE"      -> {"block"}
      [] type = "DECLARE"    -> {"name", "of", "params"}
      [] type = "FUNCTION"   -> {"name", "of", "block", "params"}
      [] type = "TYPE"       -> {"name", "fields"}
      [] type = "IF"         -> {"expr", "block", "else_ifs", "else_block"}
      [] type = "WHILE"      -> {"expr", "block"}
      [] type = "RETURN"     -> {"expr"}
      [] type = "PRINT"      -> {"params"}
      [] type = "INPUT"      -> {"param"}
      [] OTHER               -> {}

\* A record with the members of the struct its type names.
IsNode(n) == DOMAIN n = {"type"} \cup ExprMembers(n.type) \cup StmtMembers(n.type)

\* The types a visitor meets.  Argument lists, pairs of a hash and NULL are no
\* statements and no expressions.
Visited == {"BLOCK", "INT", "DOUBLE", "ID", "STRING", "DECL", "DIM", "CALL", "SUBSCRIPT", "SLOT",
            "UNARY_OP", "BINARY_OP", "ARRAY", "HASH", "SCOPE", "DECLARE", "FUNCTION", "TYPE",
            "IF", "WHILE", "RETURN", "PRINT", "INPUT"}

\* The members that point to one node, and the ones that hold many.
Pointers == {"of", "expr", "left", "right", "param", "else_block"}
Vectors  == {"vec", "vals", "stmts", "params", "fields"}
OfType(N, type) == {n \in N : n.type = type}

Elems(seq) == {seq[i] : i \in DOMAIN seq}

\* The nodes a node points to.
Children(n) ==
    (   {n[m] : m \in (Pointers \cup {"block"}) \cap DOMAIN n}
     \cup (UNION {Elems(n[m]) : m \in (Vectors \cup {"else_ifs"}) \cap DOMAIN n})
     \cup (IF n.type # "HASH" THEN {}
           ELSE UNION {{n.pairs[i].key, n.pairs[i].val} : i \in DOMAIN n.pairs})
     \cup (IF n.type # "CALL" \/ n.args = Null THEN {}
           ELSE Elems(n.args.vec) \cup {n.args.hash[i].val : i \in DOMAIN n.args.hash}))
    \ {Null}

\* A node all of whose members are nodes of N, or NULL where there is none.
Grown(N, n) ==
    LET Node == N \cup {Null}
    IN  /\ IsNode(n) /\ n.type \in Visited
        /\ \A m \in Pointers \cap DOMAIN n : n[m] \in Node
        /\ \A m \in Vectors \cap DOMAIN n : n[m] \in Seq(Node)
        /\ n.type \in {"SCOPE", "FUNCTION", "IF", "WHILE"} => n.block \in OfType(N, "BLOCK")
        /\ n.type = "DIM" => n.vec \in Seq(OfType(N, "BINARY_OP"))
        /\ n.type = "IF" => /\ n.else_ifs \in Seq(OfType(N, "IF"))
                            /\ n.else_block \in OfType(N, "BLOCK") \cup {Null}
        /\ n.type = "HASH" => n.pairs \in Seq([type : {"HASH_PAIR"}, key : Node, val : Node])
        /\ n.type = "CALL" /\ n.args # Null => /\ n.args.vec \in Seq(Node)
                                               /\ n.args.hash \in Seq([slot : STRING, val : Node])

\* Nodes with all that hangs below them.
Forest(N) == \A n \in N : Grown(N, n)
=============================================================================
