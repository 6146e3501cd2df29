------------------------------ MODULE MCParser -----------------------------
(***************************************************************************)
(* Small texts for Parser.  A cfg picks one family for Texts.              *)
(***************************************************************************)
EXTENDS Parser

AnyText(alphabet, n) == UNION {[1 .. k -> alphabet] : k \in 0 .. n}

\* Anything that looks like an expression, or nearly so
ExprTexts ==
    AnyText({"ID", "LPAREN", "RPAREN", "OP_PLUS", "OP_MUL", "OP_POW", "OP_INCR", "OP_ASSIGN"}, 4)
    \cup AnyText({"ID", "OP_MINUS", "OP_MUL", "OP_EQ", "OP_LNOT", "OP_FORK"}, 5)
    \cup AnyText({"ID", "LPAREN", "RPAREN", "COMMA", "AS"}, 5)
    \cup {<<"ID", "LPAREN">> \o t \o <<"RPAREN">> : t \in AnyText({"ID", "INT", "COMMA", "AS"}, 6)}

\* Anything that looks like statements, or nearly so
Pieces == {<<"IF", "ID", "THEN">>, <<"ELSEIF", "ID", "THEN">>, <<"ELSE">>, <<"END", "IF">>,
           <<"SCOPE">>, <<"END", "SCOPE">>, <<"DO", "WHILE", "ID", "SEMICOLON">>, <<"LOOP">>,
           <<"FUNCTION", "ID">>, <<"END", "FUNCTION">>, <<"ID", "OP_ASSIGN", "ID", "SEMICOLON">>,
           <<"PRINT">>, <<"INPUT">>, <<"END">>}
\* Expressions that fail half way, where the parser goes on without them
HalfTexts ==
    {<<"ID", "LPAREN">> \o t \o <<"RPAREN">> :
        t \in AnyText({"ID", "COMMA", "AS", "LBRACK", "LPAREN", "OP_ASSIGN", "OP_MINUS"}, 4)
              \cup AnyText({"ID", "COMMA", "AS", "LBRACE", "RBRACE"}, 5)}
    \cup AnyText({"PRINT", "INPUT", "ID", "OP_ASSIGN", "LBRACK", "RBRACK", "SEMICOLON", "OP_MINUS"}, 4)
    \cup {<<"PRINT", "ID", "SEMICOLON">> \o t :
            t \in AnyText({"ID", "LPAREN", "RPAREN", "COMMA", "OP_LNOT", "OP_ASSIGN"}, 5)}
BlockTexts ==
    {FlattenSeq(ps) : ps \in AnyText(Pieces, 4)}
    \cup AnyText({"ID", "PRINT", "INPUT", "RETURN", "SEMICOLON", "DO", "WHILE", "LOOP"}, 4)
    \cup AnyText({"ID", "TYPE", "DECLARE", "DIM", "AS", "FUNCTION", "END", "OP_ASSIGN"}, 4)

AnyTexts == ExprTexts \cup HalfTexts \cup BlockTexts

-----------------------------------------------------------------------------
\* Trees, to write and to parse back
Sym(kind, sym, kids) == [kind |-> kind, at |-> 0, sym |-> sym, kids |-> kids]
Id  == Tree("ID", <<>>)
Int1 == Tree("INT", <<>>)
Str == Tree("STRING", <<>>)
T   == Tree("type", <<>>)

Over(l, r, ops) ==
    {Sym("binary", o, <<a, b>>) : o \in ops, a \in l, b \in r}
    \cup {Sym("pow", "OP_POW", <<a, b>>) : a \in l, b \in r}
    \cup {Sym("assign", "OP_ASSIGN", <<a, b>>) : a \in l, b \in r}
Around(l) ==
    UNION {{Sym("prefix", "OP_MINUS", <<a>>), Sym("postfix", "OP_INCR", <<a>>), Sym("not", "OP_LNOT", <<a>>),
            Sym("fork", "OP_FORK", <<a>>), Tree("array", <<a, Id>>), Tree("hash", <<Tree("pair", <<Id, a>>)>>),
            Tree("call", <<a, Tree("args", <<>>)>>), Tree("call", <<Id, Tree("args", <<Int1, a>>)>>),
            Tree("call", <<Id, Tree("args", <<Tree("keyword", <<Str, a>>)>>)>>)} : a \in l}

Shallow == {Id} \cup Over({Id}, {Int1}, {(CHOOSE o \in l : TRUE) : l \in ToSet(Levels)}) \cup Around({Id})
Exprs   == Over(Shallow, Shallow, {"OP_PLUS", "OP_MINUS", "OP_MUL", "OP_LT", "OP_BIT_AND", "OP_OR"}) \cup Around(Shallow)

Blk(ss) == Tree("block", ss)
Decl(ids1) == Tree("decl", ids1 \o <<T>>)
Move   == Sym("assign", "OP_ASSIGN", <<Id, Int1>>)
Gt     == Sym("binary", "OP_GT", <<Id, Int1>>)
Simple ==
    {Move, Tree("return", <<Id>>), Tree("return", <<Null>>),
     Tree("dim", <<Tree("init", <<Decl(<<Id>>), Null>>)>>),
     Tree("dim", <<Tree("init", <<Decl(<<Id, Id>>), Null>>), Sym("init", "OP_ASSIGN", <<Decl(<<Id>>), Gt>>)>>),
     Tree("declare", <<Id, Tree("params", <<Decl(<<Id>>), Decl(<<Id>>)>>), T>>),
     Tree("typedef", <<Id, Decl(<<Id>>), Decl(<<Id>>)>>)}
Bodies == {Blk(<<>>), Blk(<<Move>>), Blk(<<Move, Move>>)}
\* An `if' takes the `else' behind its end: no branch that another one follows
\* ends in an `if' (nested_else shows why)
Before(bodies) == {b \in bodies : b.kids = <<>> \/ Last(b.kids).kind # "if"}
Nesting(bodies) ==
    UNION {{Tree("scope", <<b>>), Tree("while", <<Gt, b>>), Tree("if", <<Id, b>>),
            Tree("function", <<Id, Tree("params", <<>>), Null, b>>),
            Tree("function", <<Id, Tree("params", <<Decl(<<Id>>), Sym("init", "OP_ASSIGN", <<Decl(<<Id>>), Int1>>)>>), T, b>>)}
           : b \in bodies}
    \cup {Tree("if", <<Gt, b, Tree("elseif", <<Id, c>>)>>) : b \in Before(bodies), c \in bodies}
    \cup {Tree("if", <<Gt, b, Tree("else", <<c>>)>>) : b \in Before(bodies), c \in bodies}
    \cup {Tree("if", <<Gt, c, Tree("elseif", <<Id, Blk(<<Move>>)>>), Tree("elseif", <<Id, b>>), Tree("else", <<c>>)>>)
           : b \in Before(bodies), c \in Before(bodies)}
Inner == Simple \cup Nesting(Bodies)
\* `print' and `input' take a semicolon with them, and `print' what is behind it:
\* they stand last
Printing == {Tree("print", <<Id>>), Tree("print", <<Gt, Str, Id>>), Tree("print", <<>>), Tree("input", <<Id>>)}
Written ==
    {Blk(<<Move, e, Move>>) : e \in Exprs}
    \cup {Blk(<<s, t>>) : s \in Inner, t \in Inner \cup Printing}
    \cup {Blk(<<s>>) : s \in Nesting({Blk(<<i>>) : i \in Nesting({Blk(<<Move>>)}) \cup Printing})}
WrittenTexts == {Text(b) : b \in Written}

AllTexts == AnyTexts \cup WrittenTexts

\* A program written the usual way is accepted, and its tree says the same
\* program: every branch, body, argument and operand is where it was written.
WrittenBack == Front(toks) \in WrittenTexts => PrintsBack

\* An `if' in the branch of an `if'
NestedIfs == {Text(Blk(<<Tree("if", <<Gt, b, Tree("else", <<c>>)>>)>>)) :
                b \in {Blk(<<s>>) : s \in Nesting(Bodies)}, c \in Bodies}
=============================================================================
