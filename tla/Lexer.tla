------------------------------- MODULE Lexer -------------------------------
(***************************************************************************)
(* The scanner of src/src/lexer.c: ifj17_scan, called by the parser until  *)
(* it returns 0.                                                           *)
(*                                                                         *)
(* A source is a sequence of items.  An item is one character, except that *)
(* a keyword stands for its letters, in lower case or not; "a" is a letter *)
(* that is no keyword's, "e" and "x" are themselves, "@" is a character    *)
(* that begins no token, and " " a blank or a tab.  "NUL" is the end.  The *)
(* letters of a keyword that belong to something longer are items of their *)
(* own (WordsApart): of `elseif' the item is neither "else" nor "if".  A   *)
(* step is one turn of the `goto scan' loop, or one character of a number. *)
(* `undo' writes back the character just read, so the source never changes. *)
(***************************************************************************)
EXTENDS Integers, Sequences, FiniteSets, SequencesExt

CONSTANTS Sources       \* the texts handed to ifj17_lexer_init, without NUL

Digit    == [c \in {"0", "1", "2"} |-> CASE c = "0" -> 0 [] c = "1" -> 1 [] c = "2" -> 2]
Digits   == DOMAIN Digit
Hex      == Digits \cup {"a", "e"}
HexDigit == [c \in Hex |-> CASE c = "a" -> 10 [] c = "e" -> 14 [] OTHER -> Digit[c]]
Keywords ==
    [if |-> "IF", or |-> "OP_BIT_OR", as |-> "AS", do |-> "DO", for |-> "FOR", end |-> "END",
     dim |-> "DIM", and |-> "OP_BIT_AND", not |-> "OP_LNOT", else |-> "ELSE", type |-> "TYPE",
     then |-> "THEN", loop |-> "LOOP", while |-> "WHILE", scope |-> "SCOPE", print |-> "PRINT",
     input |-> "INPUT", elseif |-> "ELSEIF", return |-> "RETURN", declare |-> "DECLARE",
     function |-> "FUNCTION"]
Alpha    == {"a", "e", "x", "_"} \cup DOMAIN Keywords
LineEnds == {"LF", "CR"}
Items    == Alpha \cup Digits \cup LineEnds
              \cup {" ", "(", ")", "{", "}", "[", "]", ",", ".", "%", "^", "~", "?", ":", ";",
                    "+", "-", "*", "=", "&", "|", "<", ">", "/", "BSL", "'", "!", "QUOT", "@"}

\* Before a keyword stands nothing that would take its letters, or the first of
\* them, for a part of itself: a name, a number (`1else' begins with 1e) or the
\* digits of an escape.
WordsApart(s) == \A i \in 2 .. Len(s) :
    s[i] \in DOMAIN Keywords => s[i - 1] \notin Alpha \cup Digits \cup {"."}

ASSUME SourcesOK    == \A s \in Sources : s \in Seq(Items)
ASSUME SourcesApart == \A s \in Sources : WordsApart(s)

VARIABLES
    source,     \* the text and its NUL
    offset,     \* how many items are read
    lineno,
    tok,        \* the type of the last token
    pc,         \* which loop of the scanner runs; "end" and "over" are final
    start,      \* where the token being scanned began
    num,        \* scan_number's locals
    toks        \* the tokens returned so far

vars == <<source, offset, lineno, tok, pc, start, num, toks>>

\* The k-th item from here; "PAST" is memory behind the terminator.
Peek(k) == IF offset + k <= Len(source) THEN source[offset + k] ELSE "PAST"

\* n items from the k-th on belong to S, and the one after them does not.
Run(k, S, n) == /\ \A i \in 0 .. n - 1 : Peek(k + i) \in S
                /\ Peek(k + n) \notin S
Lengths == 0 .. Len(source)

-----------------------------------------------------------------------------
(* What a scan does.                                                       *)

\* The tokens spelled by punctuation and operator characters.
Spelling ==
    [LPAREN |-> <<"(">>, RPAREN |-> <<")">>, LBRACE |-> <<"{">>, RBRACE |-> <<"}">>,
     LBRACK |-> <<"[">>, RBRACK |-> <<"]">>, COMMA |-> <<",">>, OP_DOT |-> <<".">>,
     OP_MOD |-> <<"%">>, OP_BIT_XOR |-> <<"^">>, OP_BIT_NOT |-> <<"~">>, QMARK |-> <<"?">>,
     COLON |-> <<":">>, SEMICOLON |-> <<";">>, OP_DIV_ASSIGN |-> <<"BSL">>,
     OP_PLUS |-> <<"+">>, OP_INCR |-> <<"+", "+">>, OP_PLUS_ASSIGN |-> <<"+", "=">>,
     OP_MINUS |-> <<"-">>, OP_DECR |-> <<"-", "-">>, OP_MINUS_ASSIGN |-> <<"-", "=">>,
     OP_MUL |-> <<"*">>, OP_POW |-> <<"*", "*">>, OP_MUL_ASSIGN |-> <<"*", "=">>,
     OP_ASSIGN |-> <<"=">>, OP_EQ |-> <<"=", "=">>,
     OP_FORK |-> <<"&">>, OP_AND |-> <<"&", "&">>, OP_AND_ASSIGN |-> <<"&", "&", "=">>,
     OP_BIT_OR |-> <<"|">>, OP_OR |-> <<"|", "|">>, OP_OR_ASSIGN |-> <<"|", "|", "=">>,
     OP_LT |-> <<"<">>, OP_NEQ |-> <<"<", ">">>, OP_LTE |-> <<"<", "=">>, OP_BIT_SHL |-> <<"<", "<">>,
     OP_GT |-> <<">">>, OP_GTE |-> <<">", "=">>, OP_BIT_SHR |-> <<">", ">">>]

Marks == DOMAIN Spelling

Spelled(t) == \A i \in DOMAIN Spelling[t] : Peek(i) = Spelling[t][i]

\* Mutant: `return' is left out.
need_semiShort(t) == t \in {"ID", "DOUBLE", "INT", "STRING"}
need_semi(t) == t \in {"ID", "DOUBLE", "INT", "STRING", "RETURN"}

\* ifj17_scan returns token t, having read k more items.
Return(t, k, val) ==
    /\ toks' = toks \o <<[type |-> t, from |-> start, to |-> offset + k,
                          line |-> lineno', val |-> val]>>
    /\ tok' = t
    /\ offset' = offset + k
    /\ start' = offset + k
    /\ pc' = IF t \in {"EOS", "ILLEGAL"} THEN "end" ELSE "scan"
    /\ UNCHANGED <<source, num>>
Token(t, k) == UNCHANGED lineno /\ Return(t, k, 0)

\* The scanner goes on in loop p, having read k more items.
GoOn(p, k) ==
    /\ offset' = offset + k
    /\ pc' = p
    /\ UNCHANGED <<source, tok, start, toks>>
\* goto scan
Skip(k) == /\ offset' = offset + k
           /\ start' = offset + k
           /\ pc' = "scan"
           /\ UNCHANGED <<source, tok, num, toks>>

\* The scanner reads behind the terminator: nothing is known any more.
Overrun == pc' = "over" /\ UNCHANGED <<source, offset, lineno, tok, start, num, toks>>

-----------------------------------------------------------------------------
(* The cases of ifj17_scan.                                                *)

At(c) == pc = "scan" /\ Peek(1) = c

Blank == At(" ") /\ Skip(1) /\ UNCHANGED lineno

\* Mutant: the newline is not given back.
NewlineTaken ==
    /\ pc = "scan" /\ Peek(1) \in LineEnds
    /\ IF need_semi(tok) THEN Token("SEMICOLON", 1)
                         ELSE Skip(1) /\ lineno' = lineno + 1
Newline ==
    /\ pc = "scan" /\ Peek(1) \in LineEnds
    /\ IF need_semi(tok) THEN Token("SEMICOLON", 0)
                         ELSE Skip(1) /\ lineno' = lineno + 1

\* The switches inside the cases, with undo where they fail, find the longest.
Operator ==
    /\ pc = "scan"
    /\ \E t \in Marks :
        /\ Spelled(t)
        /\ \A u \in Marks : Spelled(u) => Len(Spelling[u]) <= Len(Spelling[t])
        /\ Token(t, Len(Spelling[t]))

\* A block comment, or a division; testing for the comment reads one item and
\* testing for `=' another.
Slash ==
    /\ At("/")
    /\ \/ /\ Peek(2) = "'"
          /\ \E n \in Lengths : Run(3, Items \ {"'"}, n) /\ Skip(2 + n)
          /\ UNCHANGED lineno
       \/ Peek(2) = "NUL" /\ Overrun
       \/ Peek(2) \notin {"'", "NUL"} /\ Peek(3) = "=" /\ Token("OP_DIV_ASSIGN", 3)
       \/ Peek(2) \notin {"'", "NUL"} /\ Peek(3) # "=" /\ Token("OP_DIV", 2)

\* Mutant: the search for the newline gives back each item it reads.
ApostropheStuck ==
    /\ At("'")
    /\ \/ Peek(2) = "/" /\ Skip(2)
       \/ Peek(2) # "/" /\ Skip(0)
    /\ UNCHANGED lineno

\* The end of a block comment, or a line comment, whose first item is read
\* before the search for its end.
Apostrophe ==
    /\ At("'")
    /\ \/ Peek(2) = "/" /\ Skip(2) /\ UNCHANGED lineno
       \/ Peek(2) = "NUL" /\ Overrun
       \/ /\ Peek(2) \notin {"/", "NUL"}
          /\ \E n \in Lengths : Run(3, Items \ {"LF"}, n) /\ Skip(2 + n)
          /\ UNCHANGED lineno

\* Mutant: whatever follows the `!' begins a string.
BangString == At("!") /\ GoOn("string", 2) /\ UNCHANGED <<num, lineno>>
Bang ==
    /\ At("!")
    /\ IF Peek(2) = "QUOT" THEN GoOn("string", 2) /\ UNCHANGED <<num, lineno>>
                            ELSE Token("OP_NOT", 1)

Escape == pc = "string" /\ Peek(1) = "BSL"

\* One turn of the loop of scan_string, and the `x' of hex_literal.
scan_string ==
    \/ pc = "string" /\ Peek(1) = "QUOT" /\ Token("STRING", 1)
    \/ pc = "string" /\ Peek(1) = "PAST" /\ Overrun
    \/ /\ pc = "string" /\ Peek(1) \notin {"QUOT", "BSL", "PAST"}
       /\ GoOn("string", 1)
       /\ lineno' = IF Peek(1) = "LF" THEN lineno + 1 ELSE lineno
       /\ UNCHANGED num
    \/ Escape /\ Peek(2) # "x" /\ GoOn("string", 2) /\ UNCHANGED <<num, lineno>>
    \/ Escape /\ Peek(2) = "x" /\ "PAST" \in {Peek(3), Peek(4)} /\ Overrun
    \/ /\ Escape /\ Peek(2) = "x" /\ "PAST" \notin {Peek(3), Peek(4)}
       /\ IF {Peek(3), Peek(4)} \subseteq Hex
            THEN GoOn("string", 4) /\ UNCHANGED <<num, lineno>>
            ELSE Token("ILLEGAL", 4)

\* Mutant: the item after the name is not given back.
scan_identGreedy ==
    /\ pc = "scan" /\ Peek(1) \in Alpha
    /\ \E n \in Lengths : Run(1, Alpha \cup Digits, n) /\ Token("ID", n + 1)
\* A name, or a keyword when nothing follows it.
scan_ident ==
    /\ pc = "scan" /\ Peek(1) \in Alpha
    /\ \E n \in Lengths :
        /\ Run(1, Alpha \cup Digits, n)
        /\ Token(IF n = 1 /\ Peek(1) \in DOMAIN Keywords THEN Keywords[Peek(1)] ELSE "ID", n)

Illegal == At("@") \/ At("QUOT")
Unknown == Illegal /\ Token("ILLEGAL", 1)

\* Mutant: the end of the source is a token like any other.
EndOfSourceAgain == (At("NUL") \/ At("PAST")) /\ Token("SEMICOLON", 1)
EndOfSource == At("NUL") /\ Token("EOS", 1)

-----------------------------------------------------------------------------
(* scan_number.                                                            *)

Zero == [n |-> 0, e |-> 1, expo |-> 0, neg |-> FALSE, type |-> "INT"]

\* What the token is worth: n / e * 10^expo, truncated for an INT.
Worth == [n |-> num.n, e |-> num.e, expo |-> IF num.neg THEN 0 - num.expo ELSE num.expo]

Number(p, k, locals) == GoOn(p, k) /\ num' = locals /\ UNCHANGED lineno
NumberToken == UNCHANGED lineno /\ Return(num.type, 0, Worth)

scan_number ==
    /\ pc = "scan" /\ Peek(1) \in DOMAIN Digit
    /\ IF Peek(1) = "0" /\ Peek(2) = "x"
         THEN IF Peek(3) \in Hex THEN Number("hex", 2, Zero) ELSE Token("ILLEGAL", 3)
         ELSE Number("int", 1, [Zero EXCEPT !.n = Digit[Peek(1)]])

scan_hex ==
    /\ pc = "hex"
    /\ IF Peek(1) \in Hex
         THEN Number("hex", 1, [num EXCEPT !.n = @ * 16 + HexDigit[Peek(1)]])
         ELSE NumberToken

scan_int ==
    /\ pc = "int"
    /\ CASE Peek(1) \in Digits -> Number("int", 1, [num EXCEPT !.n = @ * 10 + Digit[Peek(1)]])
         [] Peek(1) = "_" -> Number("int", 1, num)
         [] Peek(1) = "." -> Number("double", 1, [num EXCEPT !.type = "DOUBLE"])
         [] Peek(1) = "e" -> Number("expo", 1, num)
         [] OTHER -> NumberToken

\* Mutant: the digits behind the point are counted as if before it.
scan_doubleWhole ==
    /\ pc = "double"
    /\ CASE Peek(1) \in Digits -> Number("double", 1, [num EXCEPT !.n = @ * 10 + Digit[Peek(1)]])
         [] Peek(1) = "_" -> Number("double", 1, num)
         [] Peek(1) = "e" -> Number("expo", 1, num)
         [] OTHER -> NumberToken
scan_double ==
    /\ pc = "double"
    /\ CASE Peek(1) \in Digits ->
              Number("double", 1, [num EXCEPT !.n = @ * 10 + Digit[Peek(1)], !.e = @ * 10])
         [] Peek(1) = "_" -> Number("double", 1, num)
         [] Peek(1) = "e" -> Number("expo", 1, num)
         [] OTHER -> NumberToken

\* A `+' is taken for the digit '+' - '0'.
scan_expo ==
    /\ pc = "expo"
    /\ CASE Peek(1) \in Digits -> Number("expo", 1, [num EXCEPT !.expo = @ * 10 + Digit[Peek(1)]])
         [] Peek(1) = "+" -> Number("expo", 1, [num EXCEPT !.expo = @ * 10 - 5])
         [] Peek(1) = "-" -> Number("expo", 1, [num EXCEPT !.neg = TRUE])
         [] OTHER -> NumberToken

-----------------------------------------------------------------------------
\* ifj17_lexer_init leaves tok as it finds it.
Init ==
    /\ \E s \in Sources : source = s \o <<"NUL">>
    /\ offset = 0
    /\ lineno = 1
    /\ tok \in {"ILLEGAL", "ID"}
    /\ pc = "scan"
    /\ start = 0
    /\ num = Zero
    /\ toks = <<>>

Next == \/ Blank \/ Newline \/ Operator \/ Slash \/ Apostrophe \/ Bang \/ scan_string
        \/ scan_ident \/ Unknown \/ EndOfSource
        \/ scan_number \/ scan_hex \/ scan_int \/ scan_double \/ scan_expo

Spec == Init /\ [][Next]_vars

\* The parser calls ifj17_scan until it returns 0, and a loop that can turn does.
FairSpec == Spec /\ WF_vars(Next)

-----------------------------------------------------------------------------
(* Properties.                                                             *)

TypeOK ==
    /\ source \in Seq(Items \cup {"NUL"})
    /\ offset \in 0 .. Len(source)
    /\ start \in 0 .. offset
    /\ lineno \in Nat
    /\ pc \in {"scan", "string", "hex", "int", "double", "expo", "end", "over"}

Final == pc \in {"end", "over"}

\* As long as the scanner has not returned 0 there is something left to read:
\* the terminator is read last, by whichever case reads it.  Only a string that
\* is not closed reads it and goes on.
WithinSource == /\ pc \notin {"string", "end", "over"} => offset < Len(source)
                /\ pc = "string" => start + 2 <= offset

\* What a source is made of, told without the scanner: a line comment runs to
\* the end of the line, a block comment from /' to '/, a string from !" to the
\* next " that is not escaped.
Mode(m, c) ==
    CASE c = "NUL"                              -> "code"
      [] m = "slash" /\ c = "'"                 -> "block"
      [] m = "bang" /\ c = "QUOT"               -> "string"
      [] m = "line" /\ c \notin {"LF", "NUL"}   -> "line"
      [] m \in {"block", "apos"} /\ c = "'"     -> "apos"
      [] m = "apos" /\ c = "/"                  -> "closed"
      [] m = "block" /\ c \notin {"'", "NUL"}   -> "block"
      [] m = "apos" /\ c \notin {"'", "/", "NUL"} -> "block"
      [] m = "string" /\ c = "BSL"              -> "escape"
      [] m = "string" /\ c = "QUOT"             -> "quote"
      [] m = "string" /\ c \notin {"BSL", "QUOT", "NUL"} -> "string"
      [] m = "escape" /\ c # "NUL"              -> "string"
      [] OTHER -> CASE c = "/" -> "slash"
                    [] c = "!" -> "bang"
                    [] c = "'" -> "line"
                    [] OTHER   -> "code"

\* The mode before the first item of a text and after each one.
Modes(s) ==
    LET mode[i \in 0 .. Len(s)] == IF i = 0 THEN "code" ELSE Mode(mode[i - 1], s[i])
    IN  mode

\* A text without divisions, in which an apostrophe inside a block comment ends
\* it, and a line comment holds something and begins with no `/'.
Neat(s) ==
    LET m == Modes(s)
    IN  \A i \in 1 .. Len(s) :
          /\ m[i] = "slash" => s[i + 1] = "'"
          /\ m[i] = "apos" => s[i + 1] = "/"
          /\ m[i] = "line" /\ m[i - 1] # "line" => s[i + 1] \notin {"/", "LF", "NUL"}

\* Comments, blanks and newlines, and nothing else, are left out of the tokens: no
\* code is lost and nothing in a comment is taken for code (what an illegal token
\* took is not judged).
NothingLost ==
    LET after == Modes(source)
        Comment(i) == \/ after[i] \in {"line", "block", "apos", "closed"}
                      \/ after[i] = "slash" /\ after[i + 1] = "block"
        Gap(i)     == source[i] \in LineEnds \cup {" "} /\ after[i] = "code"
        Holds(t, i) == t.from < i /\ i <= t.to
        InToken(i) == \E t \in ToSet(toks) : Holds(t, i)
        Rejected(i) == \E t \in ToSet(toks) : t.type = "ILLEGAL" /\ Holds(t, i)
    IN  pc # "over" => \A i \in 1 .. start :
            Rejected(i) \/ (InToken(i) <=> ~Comment(i) /\ ~Gap(i))

Inserted(t) == t.type = "SEMICOLON" /\ t.from = t.to

\* Where a line ends, in mode m: not in a block comment, and a CR not in a line
\* comment either.
EndsLine(c, m) == \/ c = "LF" /\ m \notin {"block", "apos"}
                  \/ c = "CR" /\ m \notin {"block", "apos", "line"}

\* A line that ends in a name, a literal or `return' gets exactly one
\* semicolon, whatever comments and blanks stand before its end; no other line
\* does.
AutoSemicolon ==
    LET mode == Modes(source)
        Ends == {"ID", "DOUBLE", "INT", "STRING", "RETURN"}
    IN  \A i \in 2 .. Len(toks) :
          LET t == toks[i - 1]
              u == toks[i]
          IN  /\ Inserted(u) => t.type \in Ends /\ source[u.from + 1] \in LineEnds
              /\ t.type \in Ends =>
                   \A p \in t.to + 1 .. u.from : ~EndsLine(source[p], mode[p - 1])

\* lineno counts the ends of lines outside block comments and line continuations;
\* a CR LF is two of them.
LineNumbers ==
    LET before(p) == Modes(source)[p - 1]
        Counted(p) == /\ EndsLine(source[p], before(p)) /\ before(p) # "escape"
                      /\ source[p] = "CR" => before(p) # "string"
    IN  \A i \in DOMAIN toks : toks[i].type # "ILLEGAL" =>
            toks[i].line = 1 + Cardinality({p \in 1 .. toks[i].to : Counted(p)})

\* The scanner leaves the source only inside a string that is never closed, and
\* after a `/' or an apostrophe that is the last character of the text.
OverrunShapes ==
    pc = "over" =>
        \/ start + 2 = Len(source) /\ source[start + 1] \in {"/", "'"}
        \/ /\ start + 2 <= Len(source)
           /\ <<source[start + 1], source[start + 2]>> = <<"!", "QUOT">>
           /\ \A p \in start + 3 .. Len(source) : source[p] = "QUOT" => source[p - 1] = "BSL"

Decimal(s) ==
    LET upTo[i \in 0 .. Len(s)] ==
          IF i = 0 THEN 0
          ELSE IF s[i] \in Digits THEN upTo[i - 1] * 10 + Digit[s[i]] ELSE upTo[i - 1]
    IN  upTo[Len(s)]
Before(s, c) ==     \* the part of s before the first c
    LET n == CHOOSE n \in 0 .. Len(s) :
               (\A i \in 1 .. n : s[i] # c) /\ (n < Len(s) => s[n + 1] = c)
    IN  SubSeq(s, 1, n)
After(s, c) == SubSeq(s, Len(Before(s, c)) + 2, Len(s))
DigitsIn(s) == Cardinality({i \in DOMAIN s : s[i] \in Digits})

Hexadecimal(s) ==   \* behind the prefix
    LET upTo[i \in 0 .. Len(s)] ==
          IF i <= 2 THEN 0 ELSE upTo[i - 1] * 16 + HexDigit[s[i]]
    IN  upTo[Len(s)]
TenTo(n) ==
    LET upTo[i \in 0 .. n] == IF i = 0 THEN 1 ELSE 10 * upTo[i - 1]
    IN  upTo[n]

Text(t) == SubSeq(source, t.from + 1, t.to)
Numbers == {i \in DOMAIN toks : toks[i].type \in {"INT", "DOUBLE"}}

\* What a text says: a hexadecimal number, or a decimal one with an optional
\* fraction and exponent.
Value(text) ==
    LET front == Before(text, "e")
        expo  == After(text, "e")
        sign  == IF expo # <<>> /\ expo[1] = "-" THEN -1 ELSE 1
    IN  IF Contains(text, "x")
          THEN [n |-> Hexadecimal(text), e |-> 1, expo |-> 0]
          ELSE [n |-> Decimal(front), e |-> TenTo(DigitsIn(After(front, "."))),
                expo |-> sign * Decimal(expo)]

\* In an exponent a sign comes first.  (After a `+' the code counts on from
\* '+' - '0', so NumberValue does not hold of 1e+1; no text of a run has one.)
WellSigned(text) ==
    LET expo == After(text, "e") IN \A p \in DOMAIN expo : expo[p] \in {"+", "-"} => p = 1

\* A number is worth what its text says, in numbers without a bound and with its
\* power of ten unevaluated: neither an int that overflows nor what the code
\* truncates is judged.
NumberValue ==
    \A i \in Numbers :
        LET text == Text(toks[i])
        IN  Contains(text, "x") \/ WellSigned(text) => toks[i].val = Value(text)

\* Every text is scanned to its end.
Terminates == <>Final
=============================================================================
