-------------------------------- MODULE SExpr -------------------------------
(***************************************************************************)
(* The page of a tree, as a function of the tree and of the depth at which *)
(* it stands.  There is nothing here to be counted or taken back: a part   *)
(* of a node stands at the depth of the node, or one or two levels deeper. *)
(***************************************************************************)
EXTENDS Integers, Ast, Page

CONSTANTS
    Nodes,      \* the nodes the parser built
    Height      \* of each node: the parser builds the parts of a node before the node

ASSUME NodesAssumption == Forest(Nodes)
ASSUME HeightAssumption ==
    /\ Height \in [Nodes -> Nat]
    /\ \A n \in Nodes : \A m \in Children(n) : Height[m] < Height[n]

Hole == [k |-> "hole"]      \* where a missing node would have to be printed

\* The page of the part m of a node.
At(pages, m, d) == IF m = Null THEN <<Hole>> ELSE pages[m][d]

\* What stands on a line of its own.
Row(page, d)         == <<NL>> \o Pads(d) \o page
Rows(pages, vec, d)  == Each(vec, LAMBDA i, m : Row(At(pages, m, d), d))
Beside(pages, m, d)  == IF m = Null THEN <<>> ELSE At(pages, m, d)
Marked(pages, word, m, d) == IF m = Null THEN <<>> ELSE Row(<<Word(word)>>, d) \o At(pages, m, d)
If(cond, piece)      == IF cond THEN <<piece>> ELSE <<>>

\* The statements of a block below their statement.
Body(pages, b, d) == <<NL>> \o At(pages, b, d + 1) \o <<Close>>

\* The arguments of a call: those by keyword only behind others.
Arguments(pages, args, d) ==
    IF args = Null THEN <<Hole>>
    ELSE IF args.vec = <<>> THEN <<>>
    ELSE <<NL>> \o Pads(d) \o Each(args.vec, LAMBDA i, a : At(pages, a, d))
         \o Each(args.hash, LAMBDA i, h : <<Word(h.slot)>> \o At(pages, h.val, d))

\* The page of a node that stands at depth d, made of the pages of its parts.
Form(n, d, pages) ==
    CASE n.type = "INT"    -> <<Open("int"), Num(n.num), Close>>
      [] n.type = "DOUBLE" -> <<Open("double"), Num(n.num), Close>>
      [] n.type = "ID"     -> <<Open("id"), Word(n.val), Close>>
      [] n.type = "STRING" -> <<Open("string"), Word(n.val), Close>>
      [] n.type = "UNARY_OP" ->
           IF n.postfix THEN <<Open("")>> \o At(pages, n.expr, d) \o <<Word(n.op), Close>>
                        ELSE <<Open(n.op)>> \o At(pages, n.expr, d) \o <<Close>>
      [] n.type = "BINARY_OP" ->
           <<Open(n.op)>> \o At(pages, n.left, d) \o At(pages, n.right, d) \o <<Close>>
      [] n.type = "DECL" ->
           <<Open("decl")>> \o Rows(pages, n.vec, d + 1) \o Marked(pages, ":", n.of, d + 1) \o <<Close>>
      [] n.type = "DIM" ->
           <<Open("dim")>>
           \o Each(n.vec, LAMBDA i, bin : Row(At(pages, bin.left, d + 1), d + 1)
                                          \o Marked(pages, "=", bin.right, d + 1))
           \o <<Close>>
      [] n.type = "CALL" ->
           <<Open("call")>> \o Row(At(pages, n.expr, d + 1), d + 1) \o Arguments(pages, n.args, d + 1)
           \o <<Close>>
      [] n.type \in {"SUBSCRIPT", "SLOT"} ->
           <<Open(IF n.type = "SLOT" THEN "slot" ELSE "subscript")>>
           \o Row(At(pages, n.left, d + 1), d + 1) \o Row(At(pages, n.right, d + 1), d + 1) \o <<Close>>
      [] n.type = "ARRAY" ->
           <<Open("array"), NL>>
           \o Each(n.vals, LAMBDA i, v : Pads(d + 1) \o At(pages, v, d + 1) \o If(i # Len(n.vals), NL))
           \o <<Close>>
      [] n.type = "HASH" ->
           <<Open("hash"), NL>>
           \o Each(n.pairs, LAMBDA i, p : Pads(d + 1) \o At(pages, p.key, d + 1) \o <<Word(":")>>
                                          \o At(pages, p.val, d + 1) \o <<NL>>)
           \o <<Close>>
      [] n.type = "PRINT"  -> <<Open("print")>> \o Rows(pages, n.params, d + 1) \o <<Close>>
      [] n.type = "INPUT"  -> <<Open("input")>> \o At(pages, n.param, d + 1) \o <<Close>>
      [] n.type = "TYPE"   -> <<Open("type"), Word(n.name)>> \o Rows(pages, n.fields, d + 1) \o <<Close>>
      [] n.type = "RETURN" ->
           <<Open("return")>> \o (IF n.expr = Null THEN <<>> ELSE Row(At(pages, n.expr, d + 1), d + 1))
           \o <<Close>>
      [] n.type = "SCOPE"  -> <<Open("scope ->")>> \o Body(pages, n.block, d)
      [] n.type = "WHILE"  -> <<Open("while")>> \o At(pages, n.expr, d) \o Body(pages, n.block, d)
      [] n.type = "DECLARE" ->
           <<Open("declare")>> \o Row(<<Open("function"), Word(n.name)>>, d + 1)
           \o Beside(pages, n.of, d + 1) \o Rows(pages, n.params, d + 2) \o <<Close, Close>>
      [] n.type = "FUNCTION" ->
           <<Open("function"), Word(n.name)>>
           \o Beside(pages, n.of, d + 1) \o Rows(pages, n.params, d + 1) \o Body(pages, n.block, d)
      [] n.type = "IF" ->
           <<Open("if")>> \o At(pages, n.expr, d) \o Body(pages, n.block, d)
           \o Each(n.else_ifs, LAMBDA i, e : Row(<<Open("else if")>>, d) \o At(pages, e.expr, d)
                                             \o Body(pages, e.block, d))
           \o IF n.else_block = Null THEN <<>> ELSE Row(<<Open("else")>>, d) \o Body(pages, n.else_block, d)
      [] n.type = "BLOCK" ->
           \* of a program: an empty line between statements
           Each(n.stmts, LAMBDA i, s : If(i > 1, NL) \o (Pads(d) \o At(pages, s, d) \o If(d = 0, NL)))

\* The nodes that stand in the page of a node: its parts, or the parts of these.
Near(n) == Children(n) \cup UNION {Children(m) : m \in Children(n)}

\* The page of a node, at each depth.
pageOf[n \in Nodes] == [d \in Int |-> Form(n, d, [m \in Near(n) |-> pageOf[m]])]

FullText(t) == pageOf[t][0] \o <<NL>>

\* What can be written of it: it ends at its first hole.
FirstHole(s) == CHOOSE n \in 0 .. Len(s) : (\A i \in 1 .. n : s[i] # Hole) /\ (n < Len(s) => s[n + 1] = Hole)
Text(t) == SubSeq(FullText(t), 1, FirstHole(FullText(t)))
=============================================================================
