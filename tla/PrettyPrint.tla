----------------------------- MODULE PrettyPrint ----------------------------
(***************************************************************************)
(* The pretty printer of src/src/prettyprint.c: a visitor that prints a    *)
(* tree as an s-expression, a statement to a line, and keeps the depth of  *)
(* the indentation in the file-static `indents'.                           *)
(*                                                                         *)
(* A handler that calls visit() in the middle of its body puts the rest of *)
(* its body on `todo', so `indents' is read and counted when the C code    *)
(* does it.  A NULL node is dereferenced by ifj17_visit: the process dies. *)
(***************************************************************************)
EXTENDS Integers, FiniteSets, SequencesExt, SExpr

CONSTANTS
    Trees       \* the nodes handed to ifj17_prettyprint

ASSUME TreesAssumption == Trees \subseteq Nodes

VARIABLES
    root,       \* the tree of this call
    todo,       \* what the handlers on the stack have still to do
    indents,    \* the indentation; it is kept from call to call
    out,        \* what this call has printed
    pc          \* "idle", "printing" or "dead"

vars == <<root, todo, indents, out, pc>>

-----------------------------------------------------------------------------
(* The items of `todo' besides the pieces of a page.                       *)

INDENT   == [k |-> "indent"]
Gap      == [k |-> "gap"]       \* the empty line behind a statement of the program
Deeper   == [k |-> "count", n |-> 1]
Back     == [k |-> "count", n |-> -1]
Visit(n) == [k |-> "visit", node |-> n]
Pieces   == {"open", "close", "word", "num", "nl"}

Line(n)     == <<NL, INDENT, Visit(n)>>
Lines(vec)  == Each(vec, LAMBDA i, n : Line(n))
\* visit(node) if there is a node
Optional(items, n) == IF n = Null THEN <<>> ELSE items \o <<Visit(n)>>

-----------------------------------------------------------------------------
(* The handlers of expressions.                                            *)

visit_atom(n) ==
    CASE n.type = "INT"    -> <<Open("int"), Num(n.num), Close>>
      [] n.type = "DOUBLE" -> <<Open("double"), Num(n.num), Close>>
      [] n.type = "ID"     -> <<Open("id"), Word(n.val), Close>>
      [] n.type = "STRING" -> <<Open("string"), Word(n.val), Close>>

visit_decl(n) ==
    <<Open("decl"), Deeper>> \o Lines(n.vec)
    \o Optional(<<NL, INDENT, Word(":")>>, n.of) \o <<Close, Back>>

visit_dim(n) ==
    <<Open("dim"), Deeper>>
    \o Each(n.vec, LAMBDA i, bin : Line(bin.left)
                                   \o Optional(<<NL, INDENT, Word("=")>>, bin.right))
    \o <<Close, Back>>

\* Mutant: every operator is printed in front.
visit_unary_opPrefix(n) == <<Open(n.op), Visit(n.expr), Close>>
visit_unary_op(n) ==
    IF n.postfix THEN <<Open(""), Visit(n.expr), Word(n.op), Close>>
                 ELSE <<Open(n.op), Visit(n.expr), Close>>

visit_binary_op(n) == <<Open(n.op), Visit(n.left), Visit(n.right), Close>>

visit_array(n) ==
    <<Open("array"), NL, Deeper>>
    \o Each(n.vals, LAMBDA i, v : <<INDENT, Visit(v)>>
                                  \o IF i # Len(n.vals) THEN <<NL>> ELSE <<>>)
    \o <<Back, Close>>

visit_hash(n) ==
    <<Open("hash"), NL, Deeper>>
    \o Each(n.pairs, LAMBDA i, p : <<INDENT, Visit(p.key), Word(":"), Visit(p.val), NL>>)
    \o <<Back, Close>>

visit_subscript(n) ==
    <<Open("subscript"), NL, Deeper, INDENT, Visit(n.left), NL, INDENT, Visit(n.right),
      Back, Close>>

visit_slot(n) ==
    <<Open("slot"), NL, Deeper, INDENT, Visit(n.left), NL, INDENT, Visit(n.right),
      Back, Close>>

\* All arguments are on one line, and the ones by keyword follow only others.
\* NULL arguments are dereferenced where their number is asked for.
visit_call(n) ==
    <<Open("call"), NL, Deeper, INDENT, Visit(n.expr)>>
    \o (IF n.args = Null THEN <<Visit(Null)>>
        ELSE IF n.args.vec = <<>> THEN <<>>
        ELSE <<NL, INDENT>>
             \o Each(n.args.vec, LAMBDA i, a : <<Visit(a)>>)
             \o Each(n.args.hash, LAMBDA i, h : <<Word(h.slot), Visit(h.val)>>))
    \o <<Back, Close>>

-----------------------------------------------------------------------------
(* The handlers of statements.                                             *)

visit_block(n) ==
    Each(n.stmts, LAMBDA i, s : (IF i > 1 THEN <<NL>> ELSE <<>>) \o <<INDENT, Visit(s), Gap>>)

\* A block below its statement.
Inner(b) == <<Deeper, NL, Visit(b), Back, Close>>

\* Mutant: the scope is visited again instead of its block.
visit_scopeAgain(n) == <<Visit(n)>>
visit_scope(n) == <<Open("scope ->")>> \o Inner(n.block)

visit_declare(n) ==
    <<Open("declare"), NL, Deeper, INDENT, Open("function"), Word(n.name)>>
    \o Optional(<<>>, n.of)
    \o Each(n.params, LAMBDA i, p : <<NL, Deeper, INDENT, Visit(p), Back>>)
    \o <<Back, Close, Close>>

visit_function(n) ==
    <<Open("function"), Word(n.name), Deeper>> \o Optional(<<>>, n.of) \o Lines(n.params)
    \o <<Back, NL, Deeper, Visit(n.block), Back, Close>>

visit_print(n) == <<Open("print"), Deeper>> \o Lines(n.params) \o <<Back, Close>>
visit_input(n) == <<Open("input"), Deeper, Visit(n.param), Back, Close>>
visit_type(n)  == <<Open("type"), Word(n.name), Deeper>> \o Lines(n.fields) \o <<Back, Close>>
visit_while(n) == <<Open("while"), Visit(n.expr)>> \o Inner(n.block)

\* Mutant: the indentation is not taken back.
visit_returnDeep(n) ==
    <<Open("return")>> \o (IF n.expr = Null THEN <<>> ELSE <<Deeper>> \o Line(n.expr)) \o <<Close>>
\* Mutant: the operand is not tested.
visit_returnUntested(n) == <<Open("return"), Deeper>> \o Line(n.expr) \o <<Back, Close>>
visit_return(n) ==
    <<Open("return")>>
    \o (IF n.expr = Null THEN <<>> ELSE <<Deeper>> \o Line(n.expr) \o <<Back>>) \o <<Close>>

\* Else ifs and else stand beside the if.
visit_if(n) ==
    <<Open("if"), Visit(n.expr)>> \o Inner(n.block)
    \o Each(n.else_ifs, LAMBDA i, e : <<NL, INDENT, Open("else if"), Visit(e.expr)>> \o Inner(e.block))
    \o (IF n.else_block = Null THEN <<>>
        ELSE <<NL, INDENT, Open("else"), NL, Deeper, Visit(n.else_block), Back, Close>>)

\* ifj17_visit: the handler of a node's type.  No other types are in the tree.
Handler(n) ==
    CASE n.type \in {"INT", "DOUBLE", "ID", "STRING"} -> visit_atom(n)
      [] n.type = "BLOCK"     -> visit_block(n)
      [] n.type = "DECL"      -> visit_decl(n)
      [] n.type = "DIM"       -> visit_dim(n)
      [] n.type = "SUBSCRIPT" -> visit_subscript(n)
      [] n.type = "SLOT"      -> visit_slot(n)
      [] n.type = "CALL"      -> visit_call(n)
      [] n.type = "IF"        -> visit_if(n)
      [] n.type = "WHILE"     -> visit_while(n)
      [] n.type = "UNARY_OP"  -> visit_unary_op(n)
      [] n.type = "BINARY_OP" -> visit_binary_op(n)
      [] n.type = "DECLARE"   -> visit_declare(n)
      [] n.type = "PRINT"     -> visit_print(n)
      [] n.type = "INPUT"     -> visit_input(n)
      [] n.type = "FUNCTION"  -> visit_function(n)
      [] n.type = "SCOPE"     -> visit_scope(n)
      [] n.type = "TYPE"      -> visit_type(n)
      [] n.type = "ARRAY"     -> visit_array(n)
      [] n.type = "HASH"      -> visit_hash(n)
      [] n.type = "RETURN"    -> visit_return(n)

-----------------------------------------------------------------------------
(* The steps.                                                              *)

Doing(kind) == pc = "printing" /\ todo # <<>> /\ Head(todo).k = kind
Do(items)   == todo' = items \o Tail(todo)

\* print_func: the pieces at the head of todo.
PrintPieces ==
    /\ pc = "printing"
    /\ \E n \in 1 .. Len(todo) :
        /\ \A i \in 1 .. n : todo[i].k \in Pieces
        /\ n < Len(todo) => todo[n + 1].k \notin Pieces
        /\ out' = out \o SubSeq(todo, 1, n)
        /\ todo' = SubSeq(todo, n + 1, Len(todo))
    /\ UNCHANGED <<root, indents, pc>>

PrintIndent ==
    /\ Doing("indent")
    /\ Do(<<>>)
    /\ out' = out \o Pads(indents)
    /\ UNCHANGED <<root, indents, pc>>

\* if (!indents) print_func("\n")
PrintGap ==
    /\ Doing("gap")
    /\ Do(<<>>)
    /\ out' = out \o IF indents = 0 THEN <<NL>> ELSE <<>>
    /\ UNCHANGED <<root, indents, pc>>

\* ++indents and --indents
Count ==
    /\ Doing("count")
    /\ Do(<<>>)
    /\ indents' = indents + Head(todo).n
    /\ UNCHANGED <<root, out, pc>>

VisitNode ==
    /\ Doing("visit") /\ Head(todo).node # Null
    /\ Do(Handler(Head(todo).node))
    /\ UNCHANGED <<root, indents, out, pc>>

VisitNull ==
    /\ Doing("visit") /\ Head(todo).node = Null
    /\ pc' = "dead"
    /\ UNCHANGED <<root, todo, indents, out>>

Init ==
    /\ root = Null
    /\ todo = <<>>
    /\ indents = 0
    /\ out = <<>>
    /\ pc = "idle"

Start(n) ==
    /\ pc = "idle"
    /\ pc' = "printing"
    /\ root' = n
    /\ todo' = <<Visit(n)>>
    /\ out' = <<>>
    /\ UNCHANGED indents

ifj17_prettyprint == \E n \in Trees : Start(n)

\* The last line end, and the call returns.
End ==
    /\ pc = "printing" /\ todo = <<>>
    /\ pc' = "idle"
    /\ out' = out \o <<NL>>
    /\ UNCHANGED <<root, todo, indents>>

Step == PrintPieces \/ PrintIndent \/ PrintGap \/ Count \/ VisitNode \/ VisitNull \/ End

Next == ifj17_prettyprint \/ Step

Spec == Init /\ [][Next]_vars

\* The printer is a plain C program: a step it can take is taken.  Nobody needs
\* to call it.
FairSpec == Spec /\ WF_vars(Step)

-----------------------------------------------------------------------------
(* Properties.                                                             *)

\* What the handlers on the stack have still to add to and to take from indents
\* brings it back to 0, whatever is nested in what: no call of the printer, in a
\* REPL or a test that calls it again and again, begins with an indentation.
IndentsOwed ==
    pc # "dead" =>
        indents + Cardinality({i \in DOMAIN todo : todo[i] = Deeper})
            = Cardinality({i \in DOMAIN todo : todo[i] = Back})

Pages == [t \in Trees |-> FullText(t)]
Texts == [t \in Trees |-> Text(t)]

Promise == INSTANCE Writer WITH tree <- root, page <- out, state <- pc

\* Each call of the printer writes the page of its tree, from the first piece to
\* the last, whatever the calls before it printed; only a missing node stops it,
\* and then right where that node would stand.
KeepsPromise == Promise!Spec

\* And it ends: no call of the printer goes on for ever.
Returns == (pc = "printing") ~> (pc # "printing")
=============================================================================
