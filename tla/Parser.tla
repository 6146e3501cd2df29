------------------------------ MODULE Parser -------------------------------
(***************************************************************************)
(* The recursive-descent parser of src/src/parser.c.                       *)
(*                                                                         *)
(* Each C function is an operator on a position in the text, [at, err,     *)
(* node]: `at' is the index of the current token, `err' the first error    *)
(* recorded, `node' what the function returned.  The parser asks for a     *)
(* token only when it has used the one before, so the tokens are a         *)
(* sequence that ends in EOS or ILLEGAL.  A step is one turn of the loop   *)
(* of program().  Values of tokens, line numbers and the error context are *)
(* left out: a leaf of the tree is the index of its token.                 *)
(***************************************************************************)
EXTENDS Integers, FiniteSets, SequencesExt

CONSTANTS Texts     \* the sequences of token types to parse, without EOS

VARIABLES
    toks,       \* the tokens
    p,          \* where the parser is
    stmts,      \* the statements of program()'s block so far
    pc          \* "parse", then "root" or "null": what ifj17_parse returned

vars == <<toks, p, stmts, pc>>

-----------------------------------------------------------------------------
(* The tree.  `at' and `sym' are the token a node stands for, if there is   *)
(* one.                                                                    *)

Tree(kind, kids)    == [kind |-> kind, at |-> 0, sym |-> "", kids |-> kids]
Node(kind, q, kids) == [kind |-> kind, at |-> q.at, sym |-> toks[q.at], kids |-> kids]
Leaf(q)             == Node(toks[q.at], q, <<>>)
Null                == Tree("null", <<>>)
List(kids)          == Tree("list", kids)

Literals == {"ID", "INT", "DOUBLE", "STRING"}

\* The loops of multiplicative_expr up to logical_or_expr, loosest first.
Levels ==
    <<{"OP_OR"}, {"OP_AND"}, {"OP_BIT_OR"}, {"OP_BIT_XOR"}, {"OP_BIT_AND"},
      {"OP_EQ", "OP_NEQ"}, {"OP_LT", "OP_LTE", "OP_GT", "OP_GTE"},
      {"OP_BIT_SHL", "OP_BIT_SHR"}, {"OP_PLUS", "OP_MINUS"},
      {"OP_MUL", "OP_DIV", "OP_MOD"}>>
Postfix == {"OP_INCR", "OP_DECR"}
Prefix  == Postfix \cup {"OP_BIT_NOT", "OP_PLUS", "OP_MINUS", "OP_NOT"}
Assign  == {"OP_ASSIGN", "OP_PLUS_ASSIGN", "OP_MINUS_ASSIGN", "OP_DIV_ASSIGN",
            "OP_MUL_ASSIGN", "OP_OR_ASSIGN", "OP_AND_ASSIGN"}
Operators == UNION ToSet(Levels) \cup Prefix \cup Assign \cup {"OP_POW", "OP_LNOT", "OP_FORK"}

-----------------------------------------------------------------------------
(* The macros.                                                             *)

Is(q, t)      == toks[q.at] = t
In(q, ts)     == toks[q.at] \in ts
Advance(q)    == [q EXCEPT !.at = @ + 1]
Accept(q, t)  == IF Is(q, t) THEN Advance(q) ELSE q
Give(q, n)    == [q EXCEPT !.node = n]
Error(q, msg) == [q EXCEPT !.node = Null, !.err = IF @ = "" THEN msg ELSE @]
Fail(q)       == Give(q, Null)
Failed(q)     == q.node = Null

\* Go on with F, or return NULL at once.
Then(q, F(_)) == IF Failed(q) THEN q ELSE F(q)

\* Take token t, or else record an error.
Expect(q, t, msg) == IF Is(q, t) THEN Advance(q) ELSE Error(q, msg)

\* The functions that call one another in a circle do so through rule, which is
\* defined below them all.
RECURSIVE rule(_, _)
expr(q) == rule("expr", q)
body(q) == rule("block", q)

RECURSIVE not_expr(_), unary_expr(_), call_expr(_), binary_expr(_, _),
          binary_rest(_, _), arg_list(_, _, _), hash_pairs(_, _, _), call_args(_, _, _),
          ids(_, _), function_params(_, _), declarations(_, _), fields(_, _),
          block(_, _), branches(_, _), print_params(_, _)

-----------------------------------------------------------------------------
(* Expressions.                                                            *)

paren_expr(q) ==
    IF Is(q, "LPAREN")
      THEN Then(expr(Advance(q)), LAMBDA e : Expect(e, "RPAREN", "expression missing closing ')'"))
      ELSE Fail(q)

arg_list(q, delim, vals) ==
    IF Is(q, delim) THEN Give(q, List(vals))
    ELSE Then(expr(q), LAMBDA e :
           IF Is(e, "COMMA") THEN arg_list(Advance(e), delim, Append(vals, e.node))
                             ELSE Give(e, List(Append(vals, e.node))))

array_expr(q) ==
    Then(arg_list(Advance(q), "RBRACK", <<>>), LAMBDA a :
      Give(Expect(a, "RBRACK", "array missing closing ']'"),
           IF Is(a, "RBRACK") THEN Tree("array", a.node.kids) ELSE Null))

hash_pairs(q, delim, pairs) ==
    IF Is(q, delim) THEN Give(q, List(pairs))
    ELSE Then(expr(q), LAMBDA k :
         Then(Expect(k, "AS", "hash pair ':' missing"), LAMBDA c :
         Then(expr(c), LAMBDA v :
           LET all == Append(pairs, Tree("pair", <<k.node, v.node>>))
           IN  IF Is(v, "COMMA") THEN hash_pairs(Advance(v), delim, all)
                                 ELSE Give(v, List(all)))))

hash_expr(q) ==
    Then(hash_pairs(Advance(q), "RBRACE", <<>>), LAMBDA h :
      Give(Expect(h, "RBRACE", "hash missing closing '}'"),
           IF Is(h, "RBRACE") THEN Tree("hash", h.node.kids) ELSE Null))

type_expr(q) == IF Is(q, "ID") THEN Give(Advance(q), Node("type", q, <<>>)) ELSE Fail(q)

\* id (',' id)* ','?
ids(q, sofar) ==
    IF Is(q, "ID")
      THEN LET all == Append(sofar, Leaf(q))
           IN  IF toks[q.at + 1] = "COMMA" THEN ids(Advance(Advance(q)), all)
                                           ELSE Give(Advance(q), List(all))
      ELSE Give(q, List(sofar))

decl_expr(q) ==
    IF ~Is(q, "ID") THEN Fail(q)
    ELSE LET vec == ids(q, <<>>)
         IN  Then(Expect(vec, "AS", "expecting type"), LAMBDA a :
               LET type == type_expr(a)
               IN  IF Failed(type) THEN Error(type, "expecting type")
                   ELSE Give(type, Tree("decl", vec.node.kids \o <<type.node>>)))

primary_expr(q) ==
    CASE In(q, Literals)  -> Give(Advance(q), Leaf(q))
      [] Is(q, "LBRACK")  -> array_expr(q)
      [] Is(q, "LBRACE")  -> hash_expr(q)
      [] OTHER            -> paren_expr(q)

\* The arguments from here on.  The value of a keyword argument is not tested.
\* Keywords are taken to be different: of two equal ones the code keeps the last.
call_args(q, vec, hash) ==
    Then(expr(q), LAMBDA e :
      LET More(r, v, h) == IF Is(r, "COMMA") THEN call_args(Advance(r), v, h)
                                             ELSE Give(r, Tree("args", v \o h))
          val == expr(Advance(e))
      IN  IF ~Is(e, "AS") THEN More(e, Append(vec, e.node), hash)
          ELSE IF e.node.kind \notin {"STRING", "ID"}
            THEN Error(Advance(e), "expecting string or identifier as key")
            ELSE More(val, vec, Append(hash, Tree("keyword", <<e.node, val.node>>))))

\* Calls of what q.node is, one after the other.
call_expr(q) ==
    IF ~Is(q, "LPAREN") THEN q
    ELSE LET open == Advance(q)
             args == IF Is(open, "RPAREN") THEN Give(open, Tree("args", <<>>))
                                           ELSE call_args(open, <<>>, <<>>)
         IN  IF Is(args, "RPAREN")
               THEN call_expr(Give(Advance(args), Tree("call", <<q.node, args.node>>)))
               ELSE Error(args, "missing closing ')'")
callee(q) == Then(primary_expr(q), call_expr)

Missing(q) == Error(q, "missing right-hand expression")

\* Mutant: the operands are swapped.
pow_exprSwapped(q) ==
    Then(callee(q), LAMBDA l :
      IF ~Is(l, "OP_POW") THEN l
      ELSE LET r == callee(Advance(l))
           IN  IF Failed(r) THEN Missing(r) ELSE Give(r, Node("pow", l, <<r.node, l.node>>)))

pow_expr(q) ==
    Then(callee(q), LAMBDA l :
      IF ~Is(l, "OP_POW") THEN l
      ELSE LET r == callee(Advance(l))
           IN  IF Failed(r) THEN Missing(r) ELSE Give(r, Node("pow", l, <<l.node, r.node>>)))

postfix_expr(q) ==
    Then(pow_expr(q), LAMBDA e :
      IF In(e, Postfix) THEN Give(Advance(e), Node("postfix", e, <<e.node>>)) ELSE e)

\* Mutant: one prefix operator only.
unary_exprOnce(q) ==
    IF In(q, Prefix) THEN LET e == postfix_expr(Advance(q))
                          IN  Give(e, Node("prefix", q, <<e.node>>))
                     ELSE postfix_expr(q)

\* The operand is not tested.
unary_expr(q) ==
    IF In(q, Prefix) THEN LET e == unary_expr(Advance(q))
                          IN  Give(e, Node("prefix", q, <<e.node>>))
                     ELSE postfix_expr(q)

\* Mutant: the operators of a level associate to the right.
binary_restRight(k, l) ==
    IF ~In(l, Levels[k]) THEN l
    ELSE LET r == binary_expr(k, Advance(l))
         IN  IF Failed(r) THEN Missing(r)
             ELSE binary_rest(k, Give(r, Node("binary", l, <<l.node, r.node>>)))

\* The loop of a level: the tree grows to the left.
binary_rest(k, l) ==
    IF ~In(l, Levels[k]) THEN l
    ELSE LET r == binary_expr(k + 1, Advance(l))
         IN  IF Failed(r) THEN Missing(r)
             ELSE binary_rest(k, Give(r, Node("binary", l, <<l.node, r.node>>)))

\* One level of operators and those that bind tighter.
binary_expr(k, q) ==
    IF k > Len(Levels) THEN unary_expr(q)
    ELSE Then(binary_expr(k + 1, q), LAMBDA l : binary_rest(k, l))

logical_or_expr(q) ==
    Then(binary_expr(1, q), LAMBDA e :
      IF Is(e, "OP_FORK") THEN Give(Advance(e), Node("fork", e, <<e.node>>)) ELSE e)

\* decl_expr ('=' expr)? (',' decl_expr ('=' expr)?)*, after `dim'.
declarations(q, sofar) ==
    LET decl == decl_expr(q)
        val  == expr(Advance(decl))
        More(r, init) ==
            IF Is(r, "COMMA") THEN declarations(Advance(r), Append(sofar, init))
                              ELSE Give(r, Tree("dim", Append(sofar, init)))
    IN  IF Failed(decl) THEN Error(decl, "expecting declaration")
        ELSE IF ~Is(decl, "OP_ASSIGN") THEN More(decl, Tree("init", <<decl.node, Null>>))
        ELSE IF Failed(val) THEN Error(val, "expecting declaration initializer")
        ELSE More(val, Node("init", decl, <<decl.node, val.node>>))
dim_expr(q) == declarations(q, <<>>)

assignment_expr(q) ==
    IF Is(q, "DIM") THEN dim_expr(Advance(q))
    ELSE Then(logical_or_expr(q), LAMBDA l :
           IF ~In(l, Assign) THEN l
           ELSE Then(not_expr(Advance(l)), LAMBDA r :
                  Give(r, Node("assign", l, <<l.node, r.node>>))))

not_expr(q) ==
    IF Is(q, "OP_LNOT")
      THEN Then(not_expr(Advance(q)), LAMBDA e : Give(e, Node("not", q, <<e.node>>)))
      ELSE assignment_expr(q)

-----------------------------------------------------------------------------
(* Statements.                                                             *)

\* (decl_expr ('=' expr)? (',' decl_expr ('=' expr)?)*)?
function_params(q, sofar) ==
    LET More(r, param) == IF Is(r, "COMMA")
                            THEN Then(decl_expr(Advance(r)), LAMBDA d : function_params(d, Append(sofar, param)))
                            ELSE Give(r, Tree("params", Append(sofar, param)))
    IN  IF Is(q, "OP_ASSIGN")
          THEN Then(expr(Advance(q)), LAMBDA v : More(v, Node("init", q, <<q.node, v.node>>)))
          ELSE More(q, q.node)

params(q) == IF Is(q, "ID") THEN Then(decl_expr(q), LAMBDA d : function_params(d, <<>>))
                            ELSE Give(q, Tree("params", <<>>))

\* id ('(' params? ')')? ('as' type)? ';'?, of a function and of its declaration.
signature(q) ==
    IF ~Is(q, "ID") THEN Error(q, "missing function name")
    ELSE LET name == Advance(q)
             ps   == IF Is(name, "LPAREN")
                       THEN Then(params(Advance(name)), LAMBDA r : Expect(r, "RPAREN", "missing closing ')'"))
                       ELSE Give(name, Tree("params", <<>>))
             Sig(r, type) == Give(Accept(r, "SEMICOLON"),
                                  List(<<Leaf(q), ps.node, type>>))
         IN  IF Failed(ps) THEN ps
             ELSE IF ~Is(ps, "AS") THEN Sig(ps, Null)
             ELSE LET type == type_expr(Advance(ps))
                  IN  IF Failed(type) THEN Error(type, "missing type after ':'")
                                      ELSE Sig(type, type.node)

func_declare(q) ==
    LET f == Expect(Give(Advance(q), List(<<>>)), "FUNCTION", "expecting 'function'")
    IN  Then(f, LAMBDA g : Then(signature(g), LAMBDA s : Give(s, Tree("declare", s.node.kids))))

function_stmt(q) ==
    Then(signature(Advance(q)), LAMBDA s :
    Then(body(s), LAMBDA b : Give(b, Tree("function", Append(s.node.kids, b.node)))))

\* The fields of a type, up to its `end'.
fields(q, sofar) ==
    LET f   == decl_expr(q)
        sep == Accept(f, "SEMICOLON")
        all == Append(sofar, f.node)
    IN  IF Failed(f) THEN Error(f, "expecting field")
        ELSE IF Is(sep, "END") THEN Give(Advance(sep), Tree("typedef", all))
        ELSE fields(sep, all)

type_stmt(q) ==
    LET name == Advance(q)
    IN  IF Is(name, "ID")
          THEN fields(Accept(Advance(name), "SEMICOLON"), <<Leaf(name)>>)
          ELSE Error(name, "missing type name")

scope_stmt(q) == Then(body(Advance(q)), LAMBDA b : Give(b, Tree("scope", <<b.node>>)))

\* expr 'then' block, of an `if' and of an `elseif'.
condition(q, kind) ==
    Then(expr(q), LAMBDA c :
    Then(Expect(c, "THEN", "missing 'then'"), LAMBDA t :
    Then(body(t), LAMBDA b : Give(b, Tree(kind, <<c.node, b.node>>)))))

\* Mutant: nothing follows an `elseif'.
branchesOnce(q, kids) ==
    CASE Is(q, "ELSE") ->
           Then(body(Advance(q)), LAMBDA b :
             Give(b, Tree("if", Append(kids, Tree("else", <<b.node>>)))))
      [] Is(q, "ELSEIF") ->
           Then(condition(Advance(q), "elseif"), LAMBDA e : Give(e, Tree("if", Append(kids, e.node))))
      [] OTHER -> Give(q, Tree("if", kids))
\* What follows the first block of an `if', whichever way that block ended.
branches(q, kids) ==
    CASE Is(q, "ELSE") ->
           Then(body(Advance(q)), LAMBDA b :
             Give(b, Tree("if", Append(kids, Tree("else", <<b.node>>)))))
      [] Is(q, "ELSEIF") ->
           Then(condition(Advance(q), "elseif"), LAMBDA e : branches(e, Append(kids, e.node)))
      [] OTHER -> Give(q, Tree("if", kids))
if_stmt(q) == Then(condition(Advance(q), "if"), LAMBDA c : branches(c, c.node.kids))

while_stmt(q) ==
    LET w == Expect(Give(Advance(q), List(<<>>)), "WHILE", "missing 'while'")
    IN  Then(w, LAMBDA x : Then(expr(x), LAMBDA c :
          Then(body(Accept(c, "SEMICOLON")), LAMBDA b :
            Give(b, Tree("while", <<c.node, b.node>>)))))

return_stmt(q) ==
    LET r == Advance(q)
    IN  IF Is(r, "SEMICOLON") THEN Give(Advance(r), Tree("return", <<Null>>))
        ELSE Then(expr(r), LAMBDA e : Give(e, Tree("return", <<e.node>>)))

\* The list ends at what is no expression, whatever went wrong there.
print_params(q, sofar) ==
    LET e   == expr(q)
        all == Append(sofar, e.node)
    IN  IF Failed(e) THEN Give(e, Tree("print", sofar))
        ELSE IF Is(e, "SEMICOLON") THEN print_params(Advance(e), all)
        ELSE Give(e, Tree("print", all))

print_stmt(q) == print_params(Advance(q), <<>>)

\* A missing operand is recorded as an error, and a node is returned.
input_stmt(q) ==
    LET e == expr(Advance(q))
        r == IF Failed(e) THEN Error(e, "Expected variable") ELSE e
    IN  Give(Accept(r, "SEMICOLON"), Tree("input", <<e.node>>))

stmt(q) ==
    CASE Is(q, "PRINT")    -> print_stmt(q)
      [] Is(q, "INPUT")    -> input_stmt(q)
      [] Is(q, "IF")       -> if_stmt(q)
      [] Is(q, "DO")       -> while_stmt(q)
      [] Is(q, "RETURN")   -> return_stmt(q)
      [] Is(q, "SCOPE")    -> scope_stmt(q)
      [] Is(q, "DECLARE")  -> func_declare(q)
      [] Is(q, "FUNCTION") -> function_stmt(q)
      [] Is(q, "TYPE")     -> type_stmt(q)
      [] OTHER             -> expr(q)

\* Mutant: the end of the text ends a block as well.
UnconsumedEOS == {"ELSE", "ELSEIF", "EOS"}
\* What ends a block and is left for the caller.
Unconsumed == {"ELSE", "ELSEIF"}

\* Statements up to something that ends a block, be it this one's end or not.
block(q, sofar) ==
    IF In(q, Unconsumed) THEN Give(q, Tree("block", sofar))
    ELSE IF Is(q, "LOOP") THEN Give(Advance(q), Tree("block", sofar))
    ELSE IF Is(q, "END")
      THEN IF toks[q.at + 1] \in {"FUNCTION", "SCOPE", "IF"}
             THEN Give(Advance(Advance(q)), Tree("block", sofar))
             ELSE Error(Advance(q), "expecting closing statement")
    ELSE Then(stmt(q), LAMBDA s : block(Accept(s, "SEMICOLON"), Append(sofar, s.node)))

rule(name, q) == CASE name = "expr"  -> not_expr(q)
                   [] name = "block" -> block(q, <<>>)
                   [] name = "stmt"  -> stmt(q)

-----------------------------------------------------------------------------
(* program.                                                                *)

Init ==
    /\ \E t \in Texts, end \in {"EOS", "ILLEGAL"} : toks = Append(t, end)
    /\ p = [at |-> 1, err |-> "", node |-> Null]
    /\ stmts = <<>>
    /\ pc = "parse"

\* Mutant: what is no statement is kept like one.
StatementUntested ==
    /\ pc = "parse" /\ ~Is(p, "EOS")
    /\ LET s == rule("stmt", p)
       IN  p' = Accept(s, "SEMICOLON") /\ stmts' = Append(stmts, s.node)
    /\ UNCHANGED <<toks, pc>>

\* One statement, with a semicolon if there is one.
Statement ==
    /\ pc = "parse" /\ ~Is(p, "EOS")
    /\ LET s == rule("stmt", p)
       IN  /\ ~Failed(s)
           /\ p' = Accept(s, "SEMICOLON")
           /\ stmts' = Append(stmts, s.node)
    /\ UNCHANGED <<toks, pc>>

\* Mutant: the token that begins no statement is skipped.
SyntaxErrorSkips ==
    /\ pc = "parse" /\ ~Is(p, "EOS")
    /\ LET s == rule("stmt", p)
       IN  Failed(s) /\ p' = Advance(s)
    /\ pc' = "null"
    /\ UNCHANGED <<toks, stmts>>

\* The first that is none ends the parse with NULL.
SyntaxError ==
    /\ pc = "parse" /\ ~Is(p, "EOS")
    /\ LET s == rule("stmt", p)
       IN  Failed(s) /\ p' = s
    /\ pc' = "null"
    /\ UNCHANGED <<toks, stmts>>

EndOfText == pc = "parse" /\ Is(p, "EOS") /\ pc' = "root" /\ UNCHANGED <<toks, p, stmts>>

Next == Statement \/ SyntaxError \/ EndOfText

Spec == Init /\ [][Next]_vars

-----------------------------------------------------------------------------
(* What a text means, told without the parser.                             *)

Root == Tree("block", stmts)
RECURSIVE Nodes(_), Yield(_), Text(_)

Nodes(t) == {t} \cup UNION {Nodes(t.kids[i]) : i \in DOMAIN t.kids}
AllNodes == Nodes(Root)

\* The tokens a tree stands for, from left to right.  Keyword arguments are kept
\* apart from the others, so among arguments the order is lost.
Yield(t) ==
    LET here == IF t.at = 0 THEN <<>> ELSE <<t.at>>
        kids == [i \in DOMAIN t.kids |-> Yield(t.kids[i])]
    IN  CASE t.kind \in {"binary", "pow", "assign", "init"} -> kids[1] \o here \o kids[2]
          [] t.kind \in {"postfix", "fork"}                -> kids[1] \o here
          [] t.kind = "args"                               -> SortSeq(FlattenSeq(kids), <)
          [] OTHER                                         -> here \o FlattenSeq(kids)

\* How tightly a node binds, from 0.
Loose == {"not", "assign", "dim"}
Rank(t) ==
    CASE t.kind \in Loose    -> 0
      [] t.kind = "fork"     -> 1
      [] t.kind = "binary"   -> 1 + CHOOSE k \in DOMAIN Levels : t.sym \in Levels[k]
      [] t.kind = "prefix"   -> 12
      [] t.kind = "postfix"  -> 13
      [] t.kind = "pow"      -> 14
      [] OTHER               -> 15

\* The rank each kid of a node needs to stand there without parentheses.
Needs(t) ==
    CASE t.kind = "binary"  -> <<Rank(t), Rank(t) + 1>>
      [] t.kind = "pow"     -> <<15, 15>>
      [] t.kind = "prefix"  -> <<12>>
      [] t.kind = "postfix" -> <<14>>
      [] t.kind = "fork"    -> <<2>>
      [] t.kind = "assign"  -> <<1, 0>>
      [] t.kind = "call"    -> <<15, 0>>
      [] OTHER              -> [i \in DOMAIN t.kids |-> 0]

\* The lexer puts a semicolon at the end of a line that ends in one of these.
Line(text) == IF Last(text) \in Literals \cup {"RETURN"} THEN Append(text, "SEMICOLON") ELSE text

\* The usual way of writing a tree: no parenthesis that is not needed, each
\* statement on a line of its own and each opener with its closer.
Text(t) ==
    LET kid == [i \in DOMAIN t.kids |->
                  LET k == Text(t.kids[i])
                  IN  IF Rank(t.kids[i]) < Needs(t)[i] THEN <<"LPAREN">> \o k \o <<"RPAREN">> ELSE k]
        Join(ks) == FoldLeft(LAMBDA all, k : IF all = <<>> THEN k ELSE all \o <<"COMMA">> \o k, <<>>, ks)
        Optional(word, k) == IF k = Null THEN <<>> ELSE <<word>> \o Text(k)
        Sig == <<"FUNCTION", "ID", "LPAREN">> \o kid[2] \o <<"RPAREN">> \o Optional("AS", t.kids[3])
        Cond(word) == <<word>> \o kid[1] \o <<"THEN">> \o kid[2]
    IN  CASE t.kind \in Literals               -> <<t.kind>>
          [] t.kind = "type"                   -> <<"ID">>
          [] t.kind = "null"                   -> <<>>
          [] t.kind \in {"binary", "pow", "assign"} -> kid[1] \o <<t.sym>> \o kid[2]
          [] t.kind \in {"prefix", "not"}      -> <<t.sym>> \o kid[1]
          [] t.kind \in {"postfix", "fork"}    -> kid[1] \o <<t.sym>>
          [] t.kind = "init"                   -> kid[1] \o Optional("OP_ASSIGN", t.kids[2])
          [] t.kind \in {"args", "params"}     -> Join(kid)
          [] t.kind = "call"                   -> kid[1] \o <<"LPAREN">> \o kid[2] \o <<"RPAREN">>
          [] t.kind \in {"pair", "keyword"}    -> kid[1] \o <<"AS">> \o kid[2]
          [] t.kind = "array"                  -> <<"LBRACK">> \o Join(kid) \o <<"RBRACK">>
          [] t.kind = "hash"                   -> <<"LBRACE">> \o Join(kid) \o <<"RBRACE">>
          [] t.kind = "decl"                   -> Join(Front(kid)) \o <<"AS", "ID">>
          [] t.kind = "dim"                    -> <<"DIM">> \o Join(kid)
          [] t.kind = "print"                  ->
               <<"PRINT">> \o FlattenSeq([i \in DOMAIN kid |-> Append(kid[i], "SEMICOLON")])
          [] t.kind = "input"                  -> <<"INPUT">> \o kid[1]
          [] t.kind = "return"                 -> <<"RETURN">> \o kid[1]
          [] t.kind = "block"                  -> FlattenSeq([i \in DOMAIN kid |-> Line(kid[i])])
          [] t.kind = "scope"                  -> <<"SCOPE">> \o kid[1] \o <<"END", "SCOPE">>
          [] t.kind = "if"                     ->
               Cond("IF") \o FlattenSeq(SubSeq(kid, 3, Len(kid))) \o <<"END", "IF">>
          [] t.kind = "elseif"                 -> Cond("ELSEIF")
          [] t.kind = "else"                   -> <<"ELSE">> \o kid[1]
          [] t.kind = "while"                  -> Line(<<"DO", "WHILE">> \o kid[1]) \o kid[2] \o <<"LOOP">>
          [] t.kind = "declare"                -> <<"DECLARE">> \o Sig
          [] t.kind = "function"               -> Line(Sig) \o kid[4] \o <<"END", "FUNCTION">>
          [] t.kind = "typedef"                ->
               <<"TYPE">> \o FlattenSeq([i \in DOMAIN kid |-> Line(kid[i])]) \o <<"END">>

-----------------------------------------------------------------------------
(* Properties.                                                             *)

Accepted == pc = "root"

\* The parser never asks for a token after the last one.
TypeOK ==
    /\ p.at \in DOMAIN toks
    /\ pc \in {"parse", "root", "null"}

\* A text written the usual way is accepted, and its tree says the same text:
\* every branch, body, argument and operand is where it was written.
PrintsBack == /\ pc # "null" \/ Last(toks) = "ILLEGAL"
              /\ Accepted => toks = Append(Text(Root), "EOS")

\* The parts of a node that the printer visits without a test, and the parser may
\* have left NULL: the printer dies there (of a keyword only in a call that has plain
\* arguments as well; behind no others it is not printed).
Untested == [prefix |-> 1, call |-> 2, keyword |-> 2, input |-> 1]
Lacks(n) == n.kind \in DOMAIN Untested /\ n.kids[Untested[n.kind]] = Null

\* The parts it tests for: an initialiser, what is returned, the type of a function.
Optional(n, i) ==
    \/ n.kind = "init" /\ n.at = 0 /\ i = 2
    \/ n.kind = "return"
    \/ n.kind \in {"function", "declare"} /\ i = 3

OperandStarts == Literals \cup Prefix \cup {"LPAREN", "LBRACK", "LBRACE"}
ExprStarts    == OperandStarts \cup {"DIM", "OP_LNOT"}

\* Token j calls for an expression, and the next begins none.  Brackets may be
\* empty, parentheses behind something that can be called.
Unanswered(j) ==
    /\ toks[j] \in Assign \cup {"OP_LNOT", "COMMA", "AS", "LPAREN", "LBRACK", "LBRACE"}
    /\ toks[j + 1] \notin ExprStarts
    /\ <<toks[j], toks[j + 1]>> \notin {<<"LBRACK", "RBRACK">>, <<"LBRACE", "RBRACE">>}
    /\ toks[j] = "LPAREN" /\ toks[j + 1] = "RPAREN" =>
         j = 1 \/ toks[j - 1] \notin Literals \cup {"RPAREN", "RBRACK", "RBRACE"}

\* The tokens of the statement that a step reads are broken: an error was recorded,
\* or something is missing between them.
Taken  == p.at .. p'.at - 1
Broken == p'.err # "" \/ \E j \in Taken : Unanswered(j)

\* The tree of a statement holds its literals, names and operators in the order of
\* the text and none twice, whatever failed on the way; and all of them, unless a
\* part that was called for is missing, or a print list ends in a broken expression.
TokensKept ==
    [][stmts' # stmts =>
         \A s \in {Last(stmts')} : \A yield \in {Yield(s)} :     \* LET, evaluated once
             /\ yield = SortSeq(yield, <) /\ IsInjective(yield) /\ ToSet(yield) \subseteq Taken
             /\ (\A n \in Nodes(s) : ~Lacks(n) /\ (n.kind = "print" => ~Broken)) =>
                  ToSet(yield) = {j \in Taken : toks[j] \in Literals \cup Operators}]_vars

\* Without parentheses a tree is as the precedence and associativity of its
\* operators demand.
PrecedenceKept ==
    "LPAREN" \notin ToSet(toks) =>
        \A n \in AllNodes : \A i \in DOMAIN n.kids : Rank(n.kids[i]) >= Needs(n)[i]

\* What is missing in the tree is missing in the text.  A part of a node is NULL
\* only where the printer tests for it, or else in the four places where the printer
\* dies; and there only when the statement is broken, or nothing that could be the
\* operand follows the prefix operator.
MissingInText ==
    [][stmts' # stmts =>
         \A n \in Nodes(Last(stmts')) : \A i \in DOMAIN n.kids : n.kids[i] = Null =>
             \/ Optional(n, i)
             \/ /\ Lacks(n) /\ i = Untested[n.kind]
                /\ Broken \/ (n.kind = "prefix" /\ toks[n.at + 1] \notin OperandStarts)]_vars

Opens(i)  == /\ toks[i] \in {"IF", "SCOPE", "FUNCTION", "DO"}
             /\ i = 1 \/ toks[i - 1] \notin {"END", "DECLARE"}
Closes(i) == toks[i] \in {"END", "LOOP"}

\* An accepted text without `else' closes as many blocks as it opens, and none
\* before it is open.  (The `end' of a type stands alone, so what is behind it
\* may open a block.)
BlocksBalanced ==
    Accepted /\ {"ELSE", "ELSEIF", "TYPE"} \cap ToSet(toks) = {} =>
        LET depth(n) == Cardinality({i \in 1 .. n : Opens(i)}) - Cardinality({i \in 1 .. n : Closes(i)})
        IN  depth(Len(toks)) = 0 /\ \A n \in DOMAIN toks : depth(n) >= 0

\* Each statement consumes a token, even the ones whose parts are missing: the
\* loop of program() ends on every text.
Progress == [][stmts' # stmts => p'.at > p.at]_vars
=============================================================================
