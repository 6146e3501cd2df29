---------------------------- MODULE LexerProofs ----------------------------
(***************************************************************************)
(* Whatever the text, the scanner stays inside it except in a string, and  *)
(* as long as it has not returned 0 the terminator is still ahead of it.   *)
(* In a neat text its tokens hold the code, the whole code and nothing but *)
(* the code, on the lines it stands on and with the semicolons it implies. *)
(*                                                                         *)
(* The argument: a case that goes on has looked at the last item it took,  *)
(* or at the one behind it, and found an item of the language, so it took  *)
(* neither the terminator nor memory behind it.  A string does not look:   *)
(* all that is known of it is that no quote it has read closes it, and it  *)
(* leaves the text where nothing else does but a `/' or an apostrophe that *)
(* is the last character.                                                  *)
(*                                                                         *)
(* For neat texts the scanner's loops are compared with the modes of the   *)
(* text: where it looks for a token the text is in code, or a comment ends *)
(* here; inside a name, an operator or a number every item is in mode      *)
(* "code", inside a string in one of the modes of strings, and what a case *)
(* skips is one comment, one blank or one newline.  So lineno is the       *)
(* number of line ends behind the scanner, and none of them is behind the  *)
(* last token if that token ends a line.                                   *)
(*                                                                         *)
(* A number is followed item by item: each loop of scan_number knows what  *)
(* its locals are worth in terms of the text it has read, and the value of *)
(* a text with one more item is made of the value of the text.             *)
(***************************************************************************)
EXTENDS Lexer, Induction

\* The terminator is the last item and no other.
Terminated ==
    /\ Len(source) > 0
    /\ \A i \in 1 .. Len(source) : source[i] = "NUL" <=> i = Len(source)

IInv == TypeOK /\ WithinSource /\ Terminated

-----------------------------------------------------------------------------
(* Items.                                                                  *)

\* The terminator and what is behind it are no items; digits, hexadecimal digits
\* and the letters of names are.
LEMMA ItemFacts ==
    /\ "NUL" \notin Items /\ "PAST" \notin Items
    /\ Digits \subseteq Items /\ Hex \subseteq Items /\ Alpha \subseteq Items
    /\ Alpha \cup Digits \subseteq Items
<1>1. "NUL" \notin DOMAIN Keywords /\ "PAST" \notin DOMAIN Keywords
  BY DEF Keywords
<1>2. "NUL" \notin Alpha \cup Digits /\ "PAST" \notin Alpha \cup Digits
  BY <1>1 DEF Alpha, Digits, Digit
<1>3. "NUL" \notin Items /\ "PAST" \notin Items
  BY <1>2 DEF Items, LineEnds
<1>4. Alpha \cup Digits \subseteq Items /\ Hex \subseteq Items
  BY DEF Items, Alpha, Hex
<1> QED
  BY <1>3, <1>4

\* What Peek finds in the text is the item that far ahead.
LEMMA PeekInside ==
    ASSUME TypeOK, NEW k \in Nat \ {0}, Peek(k) # "PAST"
    PROVE  offset + k <= Len(source)
BY DEF Peek, TypeOK

\* An item of the language is never the last one of the text.
LEMMA PeekItem ==
    ASSUME IInv, NEW k \in Nat \ {0}, Peek(k) \in Items
    PROVE  offset + k < Len(source)
<1>1. Peek(k) # "PAST" /\ Peek(k) # "NUL"
  BY ItemFacts
<1>2. offset + k <= Len(source)
  BY <1>1, PeekInside DEF IInv
<1>3. offset \in Nat /\ Len(source) \in Nat
  BY DEF IInv, TypeOK
<1>4. source[offset + k] # "NUL"
  BY <1>1, <1>2 DEF Peek
<1> QED
  BY <1>2, <1>3, <1>4 DEF IInv, Terminated

\* The end of a run of items of the language is inside the text.
LEMMA RunInside ==
    ASSUME IInv, NEW k \in Nat \ {0}, NEW S \in SUBSET Items, NEW n \in Nat, Run(k, S, n),
           offset + k - 1 < Len(source)
    PROVE  offset + (k - 1 + n) < Len(source)
<1>1. CASE n = 0
  BY <1>1 DEF IInv, TypeOK
<1>2. CASE n # 0
  <2> DEFINE m == n - 1
  <2>a. m \in 0 .. n - 1
    BY <1>2
  <2>b. \A i \in 0 .. n - 1 : Peek(k + i) \in S
    BY DEF Run
  <2> HIDE DEF m
  <2>c. Peek(k + m) \in S
    BY <2>a, <2>b, Zenon
  <2>1. Peek(k + (n - 1)) \in S
    BY <2>c, Zenon DEF m
  <2>2. k + (n - 1) \in Nat \ {0} /\ k + (n - 1) = k - 1 + n
    BY <1>2
  <2>3. Peek(k + (n - 1)) \in Items
    BY <2>1
  <2> QED
    BY <2>2, <2>3, PeekItem
<1> QED
  BY <1>1, <1>2

-----------------------------------------------------------------------------
(* Steps.                                                                  *)

Loops == {"scan", "hex", "int", "double", "expo"}

\* Where a step that reads k items may leave the scanner.
Lands(k) ==
    /\ source' = source
    /\ offset' = offset + k
    /\ start' \in {start, offset + k}
    /\ lineno' \in Nat
    /\ \/ pc' \in Loops /\ offset + k < Len(source)
       \/ pc' = "end" /\ offset + k <= Len(source)
       \/ pc' = "string" /\ offset + k <= Len(source) /\ start' + 2 <= offset + k

\* Such a step keeps the invariant.
LEMMA LandsKeeps ==
    ASSUME IInv, NEW k \in Nat
    PROVE  Lands(k) => IInv'
<1> SUFFICES ASSUME Lands(k) PROVE IInv'
  OBVIOUS
<1>1. source' = source /\ Terminated'
  BY DEF Lands, IInv, Terminated
<1>2. /\ offset \in Nat /\ Len(source) \in Nat /\ start \in 0 .. offset
      /\ source \in Seq(Items \cup {"NUL"})
  BY DEF IInv, TypeOK
<1>3. /\ offset' = offset + k /\ start' \in {start, offset + k} /\ lineno' \in Nat
      /\ \/ pc' \in Loops /\ offset + k < Len(source)
         \/ pc' = "end" /\ offset + k <= Len(source)
         \/ pc' = "string" /\ offset + k <= Len(source) /\ start' + 2 <= offset + k
  BY DEF Lands
<1>4. offset' \in 0 .. Len(source') /\ start' \in 0 .. offset'
  <2>a. offset + k \in Nat
    BY <1>2
  <2>b. offset + k < Len(source) => offset + k <= Len(source)
    BY <1>2, <2>a
  <2>1. offset + k <= Len(source) /\ offset + k \in Nat
    BY <1>3, <2>a, <2>b, Zenon
  <2>2. offset + k \in 0 .. Len(source)
    BY <1>2, <2>1
  <2>3. CASE start' = start
    BY <1>1, <1>2, <1>3, <2>2, <2>3
  <2>4. CASE start' = offset + k
    BY <1>1, <1>2, <1>3, <2>1, <2>2, <2>4
  <2> QED
    BY <1>3, <2>3, <2>4
<1>5. TypeOK'
  BY <1>1, <1>2, <1>3, <1>4 DEF TypeOK, Loops
<1>6. pc' \notin {"string", "end", "over"} => offset' < Len(source')
  BY <1>1, <1>3 DEF Loops
<1>7. pc' = "string" => start' + 2 <= offset'
  BY <1>3 DEF Loops
<1>8. WithinSource'
  BY <1>6, <1>7 DEF WithinSource
<1> QED
  BY <1>1, <1>5, <1>8 DEF IInv

\* A token that ends before the terminator, or the last token, lands well.
LEMMA TokenLands ==
    ASSUME IInv, NEW k \in Nat, NEW t, NEW val, UNCHANGED lineno, Return(t, k, val),
           \/ offset + k < Len(source)
           \/ t \in {"EOS", "ILLEGAL"} /\ offset + k <= Len(source)
    PROVE  Lands(k)
BY DEF Return, Lands, IInv, TypeOK, Loops

\* So does what is skipped before the terminator.
LEMMA SkipLands ==
    ASSUME IInv, NEW k \in Nat, Skip(k), lineno' \in Nat, offset + k < Len(source)
    PROVE  Lands(k)
BY DEF Skip, Lands, IInv, TypeOK, Loops

\* So does a number that goes on.
LEMMA NumberLands ==
    ASSUME IInv, NEW k \in Nat, NEW q \in Loops, GoOn(q, k), lineno' \in Nat,
           offset + k < Len(source)
    PROVE  Lands(k)
BY DEF GoOn, Lands, IInv, TypeOK, Loops

\* Leaving the text keeps the invariant: nothing is claimed of it.
LEMMA OverrunKeeps ==
    ASSUME IInv, Overrun
    PROVE  IInv'
BY DEF IInv, Overrun, TypeOK, WithinSource, Terminated

-----------------------------------------------------------------------------
(* The cases of ifj17_scan.                                                *)

\* An item the switch of ifj17_scan has a case for is not the terminator.
LEMMA AtInside ==
    ASSUME IInv, NEW c \in Items, At(c)
    PROVE  offset + 1 < Len(source)
BY PeekItem DEF At

\* Blanks.
LEMMA BlankKeeps == ASSUME IInv, Blank PROVE IInv'
<1>1. At(" ") /\ " " \in Items
  BY DEF Blank, Items
<1>2. offset + 1 < Len(source)
  BY <1>1, AtInside
<1>3. Lands(1)
  BY <1>2, SkipLands DEF Blank, IInv, TypeOK
<1> QED
  BY <1>3, LandsKeeps

\* Newlines, skipped or given back for a semicolon.
LEMMA NewlineKeeps == ASSUME IInv, Newline PROVE IInv'
<1>1. PICK c \in LineEnds : At(c) /\ c \in Items
  BY DEF Newline, At, LineEnds, Items
<1>2. offset + 1 < Len(source) /\ offset \in Nat /\ Len(source) \in Nat /\ lineno \in Nat
  BY <1>1, AtInside DEF IInv, TypeOK
<1>3. CASE need_semi(tok)
  <2>1. Token("SEMICOLON", 0)
    BY <1>3 DEF Newline
  <2>2. Lands(0)
    BY <1>2, <2>1, TokenLands DEF Token
  <2> QED
    BY <2>2, LandsKeeps
<1>4. CASE ~need_semi(tok)
  <2>1. Skip(1) /\ lineno' \in Nat
    BY <1>2, <1>4 DEF Newline
  <2>2. Lands(1)
    BY <1>2, <2>1, SkipLands
  <2> QED
    BY <2>2, LandsKeeps
<1> QED
  BY <1>3, <1>4

OperatorItems == {"(", ")", "{", "}", "[", "]", ",", ".", "%", "^", "~", "?", ":", ";", "+", "-",
                  "*", "=", "&", "|", "<", ">", "BSL"}

\* Each operator is spelled by such items, and by one at least.
LEMMA OperatorText ==
    ASSUME NEW t \in Marks
    PROVE  /\ Len(Spelling[t]) \in {1, 2, 3}
           /\ DOMAIN Spelling[t] = 1 .. Len(Spelling[t])
           /\ \A i \in 1 .. Len(Spelling[t]) : Spelling[t][i] \in OperatorItems
           /\ t \notin {"EOS", "ILLEGAL"}
<1> DEFINE Ops == OperatorItems
           Good(text) == /\ Len(text) \in {1, 2, 3}
                         /\ DOMAIN text = 1 .. Len(text)
                         /\ \A i \in 1 .. Len(text) : text[i] \in Ops
<1>4. {"(", ")", "{", "}", "[", "]", ",", ".", "%", "^", "~", "?", ":", ";", "+", "-", "*", "=",
       "&", "|", "<", ">", "BSL"} \subseteq Ops
  BY DEF OperatorItems
<1> HIDE DEF Ops
<1>1. \A a \in Ops : Good(<<a>>)
  OBVIOUS
<1>2. \A a, b \in Ops : Good(<<a, b>>)
  OBVIOUS
<1>3. \A a, b, c \in Ops : Good(<<a, b, c>>)
  OBVIOUS
<1> HIDE DEF Good
<1>a1. Good(Spelling.LPAREN) /\ Good(Spelling.RPAREN) /\ Good(Spelling.LBRACE)
       /\ Good(Spelling.RBRACE) /\ Good(Spelling.LBRACK) /\ Good(Spelling.RBRACK)
       /\ Good(Spelling.COMMA) /\ Good(Spelling.OP_DOT)
  <2>1. Spelling.LPAREN = <<"(">> /\ Spelling.RPAREN = <<")">> /\ Spelling.LBRACE = <<"{">>
        /\ Spelling.RBRACE = <<"}">> /\ Spelling.LBRACK = <<"[">> /\ Spelling.RBRACK = <<"]">>
        /\ Spelling.COMMA = <<",">> /\ Spelling.OP_DOT = <<".">>
    BY DEF Spelling
  <2> QED
    BY <2>1, <1>1, <1>4
<1>a2. Good(Spelling.OP_MOD) /\ Good(Spelling.OP_BIT_XOR) /\ Good(Spelling.OP_BIT_NOT)
       /\ Good(Spelling.QMARK) /\ Good(Spelling.COLON) /\ Good(Spelling.SEMICOLON)
       /\ Good(Spelling.OP_DIV_ASSIGN) /\ Good(Spelling.OP_PLUS)
  <2>1. Spelling.OP_MOD = <<"%">> /\ Spelling.OP_BIT_XOR = <<"^">> /\ Spelling.OP_BIT_NOT = <<"~">>
        /\ Spelling.QMARK = <<"?">> /\ Spelling.COLON = <<":">> /\ Spelling.SEMICOLON = <<";">>
        /\ Spelling.OP_DIV_ASSIGN = <<"BSL">> /\ Spelling.OP_PLUS = <<"+">>
    BY DEF Spelling
  <2> QED
    BY <2>1, <1>1, <1>4
<1>a3. Good(Spelling.OP_MINUS) /\ Good(Spelling.OP_MUL) /\ Good(Spelling.OP_ASSIGN)
       /\ Good(Spelling.OP_FORK) /\ Good(Spelling.OP_BIT_OR) /\ Good(Spelling.OP_LT)
       /\ Good(Spelling.OP_GT)
  <2>1. Spelling.OP_MINUS = <<"-">> /\ Spelling.OP_MUL = <<"*">> /\ Spelling.OP_ASSIGN = <<"=">>
        /\ Spelling.OP_FORK = <<"&">> /\ Spelling.OP_BIT_OR = <<"|">> /\ Spelling.OP_LT = <<"<">>
        /\ Spelling.OP_GT = <<">">>
    BY DEF Spelling
  <2> QED
    BY <2>1, <1>1, <1>4
<1>b1. Good(Spelling.OP_INCR) /\ Good(Spelling.OP_PLUS_ASSIGN) /\ Good(Spelling.OP_DECR)
       /\ Good(Spelling.OP_MINUS_ASSIGN) /\ Good(Spelling.OP_POW) /\ Good(Spelling.OP_MUL_ASSIGN)
       /\ Good(Spelling.OP_EQ)
  <2>1. Spelling.OP_INCR = <<"+", "+">> /\ Spelling.OP_PLUS_ASSIGN = <<"+", "=">>
        /\ Spelling.OP_DECR = <<"-", "-">> /\ Spelling.OP_MINUS_ASSIGN = <<"-", "=">>
        /\ Spelling.OP_POW = <<"*", "*">> /\ Spelling.OP_MUL_ASSIGN = <<"*", "=">>
        /\ Spelling.OP_EQ = <<"=", "=">>
    BY DEF Spelling
  <2> QED
    BY <2>1, <1>2, <1>4
<1>b2. Good(Spelling.OP_AND) /\ Good(Spelling.OP_OR) /\ Good(Spelling.OP_NEQ)
       /\ Good(Spelling.OP_LTE) /\ Good(Spelling.OP_BIT_SHL) /\ Good(Spelling.OP_GTE)
       /\ Good(Spelling.OP_BIT_SHR)
  <2>1. Spelling.OP_AND = <<"&", "&">> /\ Spelling.OP_OR = <<"|", "|">>
        /\ Spelling.OP_NEQ = <<"<", ">">> /\ Spelling.OP_LTE = <<"<", "=">>
        /\ Spelling.OP_BIT_SHL = <<"<", "<">> /\ Spelling.OP_GTE = <<">", "=">>
        /\ Spelling.OP_BIT_SHR = <<">", ">">>
    BY DEF Spelling
  <2> QED
    BY <2>1, <1>2, <1>4
<1>c1. Good(Spelling.OP_AND_ASSIGN) /\ Good(Spelling.OP_OR_ASSIGN)
  <2>1. Spelling.OP_AND_ASSIGN = <<"&", "&", "=">> /\ Spelling.OP_OR_ASSIGN = <<"|", "|", "=">>
    BY DEF Spelling
  <2> QED
    BY <2>1, <1>3, <1>4, ZenonT(30)
<1>5. t \in {"LPAREN", "RPAREN", "LBRACE", "RBRACE", "LBRACK", "RBRACK", "COMMA", "OP_DOT", "OP_MOD"
           , "OP_BIT_XOR", "OP_BIT_NOT", "QMARK", "COLON", "SEMICOLON", "OP_DIV_ASSIGN", "OP_PLUS"
           , "OP_INCR", "OP_PLUS_ASSIGN", "OP_MINUS", "OP_DECR", "OP_MINUS_ASSIGN", "OP_MUL"
           , "OP_POW", "OP_MUL_ASSIGN", "OP_ASSIGN", "OP_EQ", "OP_FORK", "OP_AND", "OP_AND_ASSIGN"
           , "OP_BIT_OR", "OP_OR", "OP_OR_ASSIGN", "OP_LT", "OP_NEQ", "OP_LTE", "OP_BIT_SHL"
           , "OP_GT", "OP_GTE", "OP_BIT_SHR"}
  BY DEF Marks, Spelling
<1>6. Good(Spelling[t])
  BY <1>5, <1>a1, <1>a2, <1>a3, <1>b1, <1>b2, <1>c1
<1>7. t \notin {"EOS", "ILLEGAL"}
  BY <1>5
<1> QED
  BY <1>6, <1>7 DEF Good, Ops

\* Operators.
LEMMA OperatorKeeps == ASSUME IInv, Operator PROVE IInv'
<1>1. PICK t \in Marks : Spelled(t) /\ Token(t, Len(Spelling[t]))
  BY DEF Operator
<1> DEFINE n == Len(Spelling[t])
<1> DEFINE text == Spelling[t]
<1>a. n \in {1, 2, 3} /\ DOMAIN text = 1 .. n /\ \A i \in 1 .. n : text[i] \in OperatorItems
  BY OperatorText
<1>b. t \notin {"EOS", "ILLEGAL"}
  BY OperatorText
<1>c. \A j \in DOMAIN text : Peek(j) = text[j]
  BY <1>1 DEF Spelled
<1> HIDE DEF n, text
<1>2. n \in Nat \ {0} /\ n \in DOMAIN text
  BY <1>a
<1>3. Peek(n) \in Items
  <2>1. Peek(n) = text[n] /\ text[n] \in OperatorItems
    BY <1>a, <1>c, <1>2
  <2> QED
    BY <2>1 DEF OperatorItems, Items
<1>4. offset + n < Len(source)
  BY <1>2, <1>3, PeekItem
<1>5. Token(t, n)
  BY <1>1 DEF n
<1>6. Lands(n)
  BY <1>2, <1>4, <1>5, TokenLands DEF Token
<1> QED
  BY <1>2, <1>6, LandsKeeps

\* A block comment or a division.
LEMMA SlashKeeps == ASSUME IInv, Slash PROVE IInv'
<1>1. At("/") /\ "/" \in Items /\ "'" \in Items /\ "=" \in Items
  BY DEF Slash, Items
<1>2. offset + 1 < Len(source) /\ offset \in Nat /\ Len(source) \in Nat /\ lineno \in Nat
  BY <1>1, AtInside DEF IInv, TypeOK
<1>3. ASSUME Peek(2) = "'", NEW n \in Lengths, Run(3, Items \ {"'"}, n), Skip(2 + n), UNCHANGED lineno
      PROVE  IInv'
  <2>1. 2 + n \in Nat /\ n \in Nat
    BY <1>2, <1>3 DEF Lengths
  <2>2. offset + 2 < Len(source)
    BY <1>1, <1>3, PeekItem
  <2>3. offset + (3 - 1 + n) < Len(source)
    BY <1>3, <2>1, <2>2, RunInside
  <2>4. Lands(2 + n)
    BY <1>2, <1>3, <2>1, <2>3, SkipLands
  <2> QED
    BY <2>1, <2>4, LandsKeeps
<1>4. CASE Overrun
  BY <1>4, OverrunKeeps
<1>5. ASSUME Peek(3) = "=", Token("OP_DIV_ASSIGN", 3) PROVE IInv'
  <2>1. offset + 3 < Len(source)
    BY <1>1, <1>5, PeekItem
  <2>2. Lands(3)
    BY <1>5, <2>1, TokenLands DEF Token
  <2> QED
    BY <2>2, LandsKeeps
<1>6. ASSUME Peek(2) # "NUL", Token("OP_DIV", 2) PROVE IInv'
  <2>1. offset + 2 < Len(source)
    BY <1>2, <1>6 DEF Peek, IInv, Terminated
  <2>2. Lands(2)
    BY <1>6, <2>1, TokenLands DEF Token
  <2> QED
    BY <2>2, LandsKeeps
<1> QED
  BY <1>3, <1>4, <1>5, <1>6 DEF Slash

\* The end of a block comment or a line comment.
LEMMA ApostropheKeeps == ASSUME IInv, Apostrophe PROVE IInv'
<1>1. At("'") /\ "/" \in Items /\ "'" \in Items
  BY DEF Apostrophe, Items
<1>2. offset + 1 < Len(source) /\ offset \in Nat /\ Len(source) \in Nat /\ lineno \in Nat
  BY <1>1, AtInside DEF IInv, TypeOK
<1>3. ASSUME Peek(2) = "/", Skip(2), UNCHANGED lineno PROVE IInv'
  <2>1. offset + 2 < Len(source)
    BY <1>1, <1>3, PeekItem
  <2>2. Lands(2)
    BY <1>2, <1>3, <2>1, SkipLands
  <2> QED
    BY <2>2, LandsKeeps
<1>4. CASE Overrun
  BY <1>4, OverrunKeeps
<1>5. ASSUME Peek(2) # "NUL", NEW n \in Lengths, Run(3, Items \ {"LF"}, n), Skip(2 + n),
             UNCHANGED lineno
      PROVE  IInv'
  <2>1. 2 + n \in Nat /\ n \in Nat
    BY <1>2 DEF Lengths
  <2>2. offset + 2 < Len(source)
    BY <1>2, <1>5 DEF Peek, IInv, Terminated
  <2>3. offset + (3 - 1 + n) < Len(source)
    BY <1>5, <2>1, <2>2, RunInside
  <2>4. Lands(2 + n)
    BY <1>2, <1>5, <2>1, <2>3, SkipLands
  <2> QED
    BY <2>1, <2>4, LandsKeeps
<1> QED
  BY <1>3, <1>4, <1>5 DEF Apostrophe

\* A negation, or the opening of a string.
LEMMA BangKeeps == ASSUME IInv, Bang PROVE IInv'
<1>1. At("!") /\ "!" \in Items /\ "QUOT" \in Items
  BY DEF Bang, Items
<1>2. offset + 1 < Len(source)
  BY <1>1, AtInside
<1>3. CASE Peek(2) = "QUOT"
  <2>1. offset + 2 < Len(source)
    BY <1>1, <1>3, PeekItem
  <2>2. GoOn("string", 2) /\ UNCHANGED lineno
    BY <1>3 DEF Bang
  <2>3. Lands(2)
    BY <2>1, <2>2 DEF GoOn, Lands, IInv, TypeOK
  <2> QED
    BY <2>3, LandsKeeps
<1>4. CASE Peek(2) # "QUOT"
  <2>1. Lands(1)
    BY <1>2, <1>4, TokenLands DEF Bang, Token
  <2> QED
    BY <2>1, LandsKeeps
<1> QED
  BY <1>3, <1>4

\* An unknown character, and the terminator.
LEMMA EndKeeps == ASSUME IInv, Unknown \/ EndOfSource PROVE IInv'
<1>1. Peek(1) # "PAST" /\ 1 \in Nat \ {0}
  BY DEF Unknown, Illegal, EndOfSource, At
<1>2. offset + 1 <= Len(source)
  BY <1>1, PeekInside DEF IInv
<1>3. Lands(1)
  BY <1>2, TokenLands DEF Unknown, EndOfSource, Token
<1> QED
  BY <1>3, LandsKeeps

\* A name or a keyword.
LEMMA IdentKeeps == ASSUME IInv, scan_ident PROVE IInv'
<1>1. Peek(1) \in Items /\ Alpha \cup Digits \in SUBSET Items
  BY ItemFacts DEF scan_ident
<1>2. offset + 1 < Len(source) /\ offset \in Nat /\ Len(source) \in Nat
  BY <1>1, PeekItem DEF IInv, TypeOK
<1>3. PICK n \in Lengths : Run(1, Alpha \cup Digits, n)
        /\ Token(IF n = 1 /\ Peek(1) \in DOMAIN Keywords THEN Keywords[Peek(1)] ELSE "ID", n)
  BY DEF scan_ident
<1>4. n \in Nat /\ offset + 1 - 1 < Len(source)
  BY <1>2 DEF Lengths
<1> DEFINE t == IF n = 1 /\ Peek(1) \in DOMAIN Keywords THEN Keywords[Peek(1)] ELSE "ID"
<1>5. Token(t, n)
  BY <1>3
<1> HIDE DEF t
<1>6. offset + (1 - 1 + n) < Len(source)
  BY <1>1, <1>3, <1>4, RunInside
<1>7. offset + n < Len(source)
  BY <1>4, <1>6
<1>8. Lands(n)
  BY <1>4, <1>5, <1>7, TokenLands DEF Token
<1> QED
  BY <1>4, <1>8, LandsKeeps

\* A turn of the loop of a string.
LEMMA StringKeeps == ASSUME IInv, scan_string PROVE IInv'
<1>1. /\ pc = "string" /\ start + 2 <= offset /\ lineno \in Nat
      /\ offset \in Nat /\ Len(source) \in Nat /\ start \in Nat
  BY DEF scan_string, Escape, IInv, TypeOK, WithinSource
<1>2. CASE Overrun
  BY <1>2, OverrunKeeps
<1>3. ASSUME NEW k \in Nat \ {0}, Peek(k) # "PAST", GoOn("string", k), lineno' \in Nat
      PROVE  IInv'
  <2>1. offset + k <= Len(source)
    BY <1>3, PeekInside DEF IInv
  <2>2. start + 2 <= offset + k
    BY <1>1
  <2>3. Lands(k)
    BY <1>3, <2>1, <2>2 DEF GoOn, Lands
  <2> QED
    BY <2>3, LandsKeeps
<1>4. ASSUME Peek(1) = "QUOT", Token("STRING", 1) PROVE IInv'
  <2>a. "QUOT" \in Items
    BY DEF Items
  <2>1. offset + 1 < Len(source)
    BY <1>4, <2>a, PeekItem
  <2>2. Lands(1)
    BY <1>4, <2>1, TokenLands DEF Token
  <2> QED
    BY <2>2, LandsKeeps
<1>5. ASSUME Peek(4) # "PAST", Token("ILLEGAL", 4) PROVE IInv'
  <2>1. offset + 4 <= Len(source)
    BY <1>5, PeekInside DEF IInv
  <2>2. Lands(4)
    BY <1>5, <2>1, TokenLands DEF Token
  <2> QED
    BY <2>2, LandsKeeps
<1>6. CASE /\ pc = "string" /\ Peek(1) \notin {"QUOT", "BSL", "PAST"}
           /\ GoOn("string", 1)
           /\ lineno' = IF Peek(1) = "LF" THEN lineno + 1 ELSE lineno
  BY <1>1, <1>3, <1>6
<1>7. CASE Escape /\ GoOn("string", 2) /\ UNCHANGED lineno
  <2>1. Peek(1) \in Items
    BY <1>7 DEF Escape, Items
  <2>2. offset + 2 <= Len(source)
    BY <1>1, <2>1, PeekItem
  <2>3. Peek(2) = source[offset + 2] /\ source[offset + 2] \in Items \cup {"NUL"}
    BY <1>1, <2>2 DEF Peek, IInv, TypeOK
  <2>4. Peek(2) # "PAST"
    BY <2>3, ItemFacts
  <2> QED
    BY <1>1, <1>3, <1>7, <2>4
<1>8. CASE /\ "PAST" \notin {Peek(3), Peek(4)}
           /\ IF {Peek(3), Peek(4)} \subseteq Hex
                THEN GoOn("string", 4) /\ UNCHANGED <<num, lineno>>
                ELSE Token("ILLEGAL", 4)
  BY <1>1, <1>3, <1>5, <1>8
<1> QED
  BY <1>2, <1>4, <1>6, <1>7, <1>8 DEF scan_string

-----------------------------------------------------------------------------
(* Numbers.                                                                *)

\* A character of a number that is taken keeps the invariant.
LEMMA NumberKeeps ==
    ASSUME IInv, NEW q \in Loops, NEW k \in Nat \ {0}, NEW locals,
           Peek(k) \in Items, Number(q, k, locals)
    PROVE  IInv'
<1>1. offset + k < Len(source)
  BY PeekItem
<1>2. Lands(k)
  BY <1>1, NumberLands DEF Number, IInv, TypeOK
<1> QED
  BY <1>2, LandsKeeps

\* So does the end of a number, whose next character was given back.
LEMMA NumberTokenKeeps == ASSUME IInv, pc \in Loops, NumberToken PROVE IInv'
<1>1. offset + 0 < Len(source)
  BY DEF IInv, TypeOK, WithinSource, Loops
<1>2. Lands(0)
  BY <1>1, TokenLands DEF NumberToken
<1> QED
  BY <1>2, LandsKeeps

\* The first character of a number, with the prefix of a hexadecimal one.
LEMMA StartKeeps == ASSUME IInv, scan_number PROVE IInv'
<1>1. Peek(1) \in Items /\ "x" \in Items /\ {"hex", "int"} \subseteq Loops
  BY ItemFacts DEF scan_number, Digits, Items, Alpha, Loops
<1>2. CASE Peek(1) = "0" /\ Peek(2) = "x" /\ Peek(3) \in Hex
  <2>1. Number("hex", 2, Zero)
    BY <1>2 DEF scan_number
  <2> QED
    BY <1>1, <1>2, <2>1, NumberKeeps
<1>3. CASE Peek(1) = "0" /\ Peek(2) = "x" /\ Peek(3) \notin Hex
  <2>1. Token("ILLEGAL", 3)
    BY <1>3 DEF scan_number
  <2>2. offset + 2 < Len(source)
    BY <1>1, <1>3, PeekItem
  <2>3. offset + 3 <= Len(source)
    BY <2>2 DEF IInv, TypeOK
  <2>4. Lands(3)
    BY <2>1, <2>3, TokenLands DEF Token
  <2> QED
    BY <2>4, LandsKeeps
<1>4. CASE ~(Peek(1) = "0" /\ Peek(2) = "x")
  <2>1. Number("int", 1, [Zero EXCEPT !.n = Digit[Peek(1)]])
    BY <1>4 DEF scan_number
  <2> QED
    BY <1>1, <2>1, NumberKeeps
<1> QED
  BY <1>2, <1>3, <1>4

\* The loops of a number.
LEMMA LoopKeeps ==
    ASSUME IInv, scan_hex \/ scan_int \/ scan_double \/ scan_expo PROVE IInv'
<1>1. Digits \subseteq Items /\ Hex \subseteq Items /\ {"_", ".", "e", "+", "-"} \subseteq Items
  BY ItemFacts DEF Items, Alpha
<1>2. pc \in Loops /\ {"hex", "int", "double", "expo"} \subseteq Loops
  BY DEF scan_hex, scan_int, scan_double, scan_expo, Loops
<1>3. CASE NumberToken
  BY <1>2, <1>3, NumberTokenKeeps
<1>4. ASSUME NEW q \in Loops, NEW locals, Peek(1) \in Items, Number(q, 1, locals) PROVE IInv'
  BY <1>4, NumberKeeps
<1>5. CASE scan_hex
  BY <1>1, <1>2, <1>3, <1>4, <1>5 DEF scan_hex
<1>6. CASE scan_int
  BY <1>1, <1>2, <1>3, <1>4, <1>6 DEF scan_int
<1>7. CASE scan_double
  BY <1>1, <1>2, <1>3, <1>4, <1>7 DEF scan_double
<1>8. CASE scan_expo
  BY <1>1, <1>2, <1>3, <1>4, <1>8 DEF scan_expo
<1> QED
  BY <1>5, <1>6, <1>7, <1>8

-----------------------------------------------------------------------------
(* The theorems.                                                           *)

\* ifj17_lexer_init puts the scanner before the first item; the NUL that ends
\* the text is the only one.
LEMMA InitInv == Init => IInv
<1> SUFFICES ASSUME Init PROVE IInv
  OBVIOUS
<1>1. PICK s \in Sources : source = s \o <<"NUL">>
  BY DEF Init
<1>2. s \in Seq(Items) /\ "NUL" \notin Items
  BY SourcesOK, ItemFacts
<1>3. /\ source \in Seq(Items \cup {"NUL"}) /\ Len(source) = Len(s) + 1
      /\ source[Len(s) + 1] = "NUL" /\ \A i \in 1 .. Len(s) : source[i] = s[i] /\ s[i] \in Items
  BY <1>1, <1>2
<1>4. Len(s) \in Nat
  BY <1>2
<1>5. Terminated
  BY <1>2, <1>3, <1>4 DEF Terminated
<1>6. TypeOK
  BY <1>3, <1>4 DEF Init, TypeOK
<1>7. WithinSource
  BY <1>3, <1>4 DEF Init, WithinSource
<1> QED
  BY <1>5, <1>6, <1>7 DEF IInv

\* Every step keeps the invariant.
LEMMA NextInv == IInv /\ [Next]_vars => IInv'
<1> SUFFICES ASSUME IInv, [Next]_vars PROVE IInv'
  OBVIOUS
<1>1. CASE UNCHANGED vars
  BY <1>1 DEF vars, IInv, TypeOK, WithinSource, Terminated
<1> QED
  BY <1>1, BlankKeeps, NewlineKeeps, OperatorKeeps, SlashKeeps, ApostropheKeeps, BangKeeps,
     StringKeeps, IdentKeeps, EndKeeps, StartKeeps, LoopKeeps DEF Next

\* The scanner's state is well formed: it never stands outside the text.
THEOREM LexerTypes == Spec => []TypeOK
<1>1. IInv => TypeOK
  BY DEF IInv
<1> QED
  BY InitInv, NextInv, <1>1, PTL DEF Spec

\* As long as ifj17_scan has not returned 0, and no string is open, the NUL that
\* ends the text is ahead of the scanner.
THEOREM TerminatorAhead == Spec => []WithinSource
<1>1. IInv => WithinSource
  BY DEF IInv
<1> QED
  BY InitInv, NextInv, <1>1, PTL DEF Spec

-----------------------------------------------------------------------------
(* Where the scanner leaves the text.                                      *)

\* What has been read of an open string: its opening, and no quote that closes it.
StringSoFar ==
    pc = "string" =>
        /\ source[start + 1] = "!" /\ source[start + 2] = "QUOT"
        /\ \A p \in start + 3 .. offset : source[p] = "QUOT" => source[p - 1] = "BSL"

\* Between tokens the token being scanned has not begun.
AtStart == pc = "scan" => start = offset

SInv == IInv /\ AtStart /\ StringSoFar /\ OverrunShapes

\* A step to the next token, to a number or to the end claims nothing of strings.
LEMMA ElsewhereKeeps ==
    ASSUME pc' \in Loops \cup {"end"}, pc' = "scan" => start' = offset'
    PROVE  AtStart' /\ StringSoFar' /\ OverrunShapes'
BY DEF AtStart, StringSoFar, OverrunShapes, Loops

\* Such are all returns, skips and numbers.
LEMMA Elsewhere ==
    /\ \A t, k : Token(t, k) => pc' \in Loops \cup {"end"} /\ (pc' = "scan" => start' = offset')
    /\ \A k : Skip(k) => pc' \in Loops \cup {"end"} /\ (pc' = "scan" => start' = offset')
    /\ \A k, locals : \A q \in Loops \ {"scan"} :
            Number(q, k, locals) => pc' \in Loops \cup {"end"} /\ (pc' = "scan" => start' = offset')
    /\ NumberToken => pc' \in Loops \cup {"end"} /\ (pc' = "scan" => start' = offset')
BY DEF Token, Return, Skip, Number, NumberToken, GoOn, Loops

\* The items ahead close no string either.
LEMMA NoQuoteAhead ==
    ASSUME IInv, StringSoFar, pc = "string", NEW k \in Nat, offset + k <= Len(source),
           \A j \in 1 .. k : source[offset + j] = "QUOT" => source[(offset + j) - 1] = "BSL"
    PROVE  \A p \in start + 3 .. offset + k : source[p] = "QUOT" => source[p - 1] = "BSL"
<1> SUFFICES ASSUME NEW p \in start + 3 .. offset + k, source[p] = "QUOT"
             PROVE  source[p - 1] = "BSL"
  OBVIOUS
<1>1. offset \in Nat /\ start \in Nat
  BY DEF IInv, TypeOK
<1>2. CASE p <= offset
  <2>1. p \in start + 3 .. offset
    BY <1>1, <1>2
  <2> QED
    BY <2>1 DEF StringSoFar
<1>3. CASE p > offset
  <2> DEFINE j == p - offset
  <2>1. j \in 1 .. k /\ offset + j = p
    BY <1>1, <1>3
  <2> HIDE DEF j
  <2> QED
    BY <2>1
<1> QED
  BY <1>1, <1>2, <1>3

\* An opened string has begun.
LEMMA BangOpens == ASSUME SInv, Bang PROVE AtStart' /\ StringSoFar' /\ OverrunShapes'
<1>1. CASE Peek(2) = "QUOT"
  <2>1. offset \in Nat /\ Len(source) \in Nat /\ start = offset
    BY DEF SInv, IInv, TypeOK, AtStart, Bang, At
  <2>2. Peek(1) = "!" /\ GoOn("string", 2)
    BY <1>1 DEF Bang, At
  <2>3. source[offset + 1] = "!" /\ source[offset + 2] = "QUOT"
    BY <1>1, <2>1, <2>2 DEF Peek
  <2>4. source' = source /\ start' = start /\ offset' = offset + 2 /\ pc' = "string"
    BY <2>2 DEF GoOn
  <2>5. StringSoFar'
    BY <2>1, <2>3, <2>4 DEF StringSoFar
  <2> QED
    BY <2>4, <2>5 DEF AtStart, OverrunShapes
<1>2. CASE Peek(2) # "QUOT"
  <2>1. Token("OP_NOT", 1)
    BY <1>2 DEF Bang
  <2> QED
    BY <2>1, Elsewhere, ElsewhereKeeps
<1> QED
  BY <1>1, <1>2

\* A `/' or an apostrophe is the last character when the scanner leaves the text there.
LEMMA LastLeaves ==
    ASSUME SInv, At("/") \/ At("'"), Peek(2) = "NUL", Overrun
    PROVE  AtStart' /\ StringSoFar' /\ OverrunShapes'
<1>1. offset \in Nat /\ Len(source) \in Nat /\ start = offset /\ offset < Len(source)
  BY DEF SInv, IInv, TypeOK, WithinSource, AtStart, At
<1>2. Peek(1) \in {"/", "'"}
  BY DEF At
<1>3. source[offset + 1] \in {"/", "'"}
  BY <1>1, <1>2 DEF Peek
<1>4. offset + 2 <= Len(source) /\ source[offset + 2] = "NUL"
  BY <1>1 DEF Peek
<1>5. start + 2 = Len(source)
  BY <1>1, <1>4 DEF SInv, IInv, Terminated
<1>6. source' = source /\ start' = start /\ pc' = "over"
  BY DEF Overrun
<1> QED
  BY <1>1, <1>3, <1>5, <1>6 DEF AtStart, StringSoFar, OverrunShapes

\* A comment or a division.
LEMMA SlashLeaves == ASSUME SInv, Slash PROVE AtStart' /\ StringSoFar' /\ OverrunShapes'
<1>1. CASE Peek(2) = "NUL" /\ Overrun
  BY <1>1, LastLeaves DEF Slash
<1>2. ASSUME NEW k, Skip(k) PROVE AtStart' /\ StringSoFar' /\ OverrunShapes'
  BY <1>2, Elsewhere, ElsewhereKeeps
<1>3. ASSUME NEW t, NEW k, Token(t, k) PROVE AtStart' /\ StringSoFar' /\ OverrunShapes'
  BY <1>3, Elsewhere, ElsewhereKeeps
<1> QED
  BY <1>1, <1>2, <1>3 DEF Slash

\* A line comment, or the end of a block comment.
LEMMA ApostropheLeaves ==
    ASSUME SInv, Apostrophe PROVE AtStart' /\ StringSoFar' /\ OverrunShapes'
<1>1. CASE Peek(2) = "NUL" /\ Overrun
  BY <1>1, LastLeaves DEF Apostrophe
<1>2. ASSUME NEW k, Skip(k) PROVE AtStart' /\ StringSoFar' /\ OverrunShapes'
  BY <1>2, Elsewhere, ElsewhereKeeps
<1> QED
  BY <1>1, <1>2 DEF Apostrophe

\* A turn of the loop of a string.
LEMMA StringLeaves ==
    ASSUME SInv, scan_string PROVE AtStart' /\ StringSoFar' /\ OverrunShapes'
<1>1. /\ pc = "string" /\ start + 2 <= offset /\ offset <= Len(source)
      /\ offset \in Nat /\ Len(source) \in Nat /\ start \in Nat
      /\ IInv /\ StringSoFar /\ source[Len(source)] = "NUL"
  BY DEF SInv, scan_string, Escape, IInv, TypeOK, WithinSource, Terminated
<1> DEFINE Closes(j) == source[offset + j] = "QUOT" /\ source[(offset + j) - 1] # "BSL"
<1>2. ASSUME NEW k \in Nat, offset + k <= Len(source), \A j \in 1 .. k : ~Closes(j), GoOn("string", k)
      PROVE  AtStart' /\ StringSoFar' /\ OverrunShapes'
  <2>1. \A p \in start + 3 .. offset + k : source[p] = "QUOT" => source[p - 1] = "BSL"
    BY <1>1, <1>2, NoQuoteAhead
  <2>2. source' = source /\ start' = start /\ offset' = offset + k /\ pc' = "string"
    BY <1>2 DEF GoOn
  <2>3. StringSoFar'
    BY <1>1, <2>1, <2>2 DEF StringSoFar
  <2> QED
    BY <2>2, <2>3 DEF AtStart, OverrunShapes
<1>3. ASSUME NEW k \in Nat, offset + k = Len(source), \A j \in 1 .. k : ~Closes(j), Overrun
      PROVE  AtStart' /\ StringSoFar' /\ OverrunShapes'
  <2>1. \A p \in start + 3 .. offset + k : source[p] = "QUOT" => source[p - 1] = "BSL"
    <3>1. offset + k <= Len(source)
      BY <1>1, <1>3
    <3>2. \A j \in 1 .. k : source[offset + j] = "QUOT" => source[(offset + j) - 1] = "BSL"
      BY <1>3
    <3> QED
      BY <1>1, <1>3, <3>1, <3>2, NoQuoteAhead
  <2>2. source' = source /\ start' = start /\ pc' = "over"
    BY <1>3 DEF Overrun
  <2>3. start + 2 <= Len(source) /\ source[start + 1] = "!" /\ source[start + 2] = "QUOT"
    BY <1>1 DEF StringSoFar
  <2>4. OverrunShapes'
    BY <1>3, <2>1, <2>2, <2>3 DEF OverrunShapes
  <2> QED
    BY <2>2, <2>4 DEF AtStart, StringSoFar
<1>4. ASSUME NEW j \in Nat \ {0}, offset + j <= Len(source) PROVE Peek(j) = source[offset + j]
  BY <1>4 DEF Peek
<1>5. ASSUME NEW j \in Nat \ {0}, Peek(j) = "PAST" PROVE offset + j > Len(source)
  <2> SUFFICES ASSUME offset + j <= Len(source) PROVE FALSE
    BY <1>1
  <2>1. source[offset + j] \in Items \cup {"NUL"} /\ source[offset + j] = "PAST"
    BY <1>1, <1>5 DEF Peek, IInv, TypeOK
  <2> QED
    BY <2>1, ItemFacts
<1>6. CASE Token("STRING", 1) \/ Token("ILLEGAL", 4)
  BY <1>6, Elsewhere, ElsewhereKeeps
<1>7. CASE Peek(1) = "PAST" /\ Overrun
  <2>1. offset + 0 = Len(source)
    BY <1>1, <1>5, <1>7
  <2> QED
    BY <1>3, <1>7, <2>1
<1>8. CASE Peek(1) \notin {"QUOT", "BSL", "PAST"} /\ GoOn("string", 1)
  <2>1. offset + 1 <= Len(source) /\ source[offset + 1] # "QUOT"
    BY <1>1, <1>8 DEF Peek
  <2>2. \A j \in 1 .. 1 : ~Closes(j)
    BY <2>1
  <2> QED
    BY <1>2, <1>8, <2>1, <2>2
<1>9. CASE Escape
  <2>1. offset + 1 <= Len(source) /\ source[offset + 1] = "BSL"
    BY <1>1, <1>9 DEF Escape, Peek
  <2>2. ~Closes(1) /\ ~Closes(2) /\ offset + 1 < Len(source)
    BY <1>1, <2>1
  <2>3. CASE GoOn("string", 2)
    <3>1. \A j \in 1 .. 2 : ~Closes(j)
      BY <2>2
    <3> QED
      BY <1>1, <1>2, <2>2, <2>3, <3>1
  <2>4. CASE Peek(2) = "x" /\ Overrun /\ "PAST" \in {Peek(3), Peek(4)}
    <3>1. source[offset + 2] = "x" /\ offset + 2 < Len(source)
      BY <1>1, <2>2, <2>4 DEF Peek
    <3>2. Len(source) = offset + 3
      BY <1>1, <1>5, <2>4, <3>1
    <3>3. \A j \in 1 .. 3 : ~Closes(j)
      BY <1>1, <2>2, <3>2
    <3> QED
      BY <1>3, <2>4, <3>2, <3>3
  <2>5. CASE {Peek(3), Peek(4)} \subseteq Hex /\ GoOn("string", 4)
    <3>1. Peek(3) \notin {"QUOT", "PAST"} /\ Peek(4) \notin {"QUOT", "PAST"}
      BY <2>5 DEF Hex, Digits, Digit
    <3>2. offset + 4 <= Len(source)
      BY <1>1, <3>1 DEF Peek
    <3>3. source[offset + 3] # "QUOT" /\ source[offset + 4] # "QUOT"
      BY <1>1, <3>1, <3>2 DEF Peek
    <3>4. \A j \in 1 .. 4 : ~Closes(j)
      BY <2>2, <3>3
    <3> QED
      BY <1>2, <2>5, <3>2, <3>4
  <2> QED
    BY <1>6, <1>9, <2>3, <2>4, <2>5 DEF scan_string, Escape
<1> QED
  BY <1>6, <1>7, <1>8, <1>9 DEF scan_string

\* Before the first item no token and no string has begun.
LEMMA InitSInv == Init => SInv
<1>1. Init => AtStart /\ StringSoFar /\ OverrunShapes
  BY DEF Init, AtStart, StringSoFar, OverrunShapes
<1> QED
  BY <1>1, InitInv DEF SInv

\* Every step keeps what is known of strings: only a turn of scan_string, `/', an
\* apostrophe and the opening of a string have anything to show.
LEMMA NextSInv == SInv /\ [Next]_vars => SInv'
<1> SUFFICES ASSUME SInv, [Next]_vars PROVE SInv'
  OBVIOUS
<1>1. IInv'
  BY NextInv DEF SInv
<1>2. CASE UNCHANGED vars
  BY <1>1, <1>2 DEF vars, SInv, AtStart, StringSoFar, OverrunShapes
<1>3. ASSUME pc' \in Loops \cup {"end"} /\ (pc' = "scan" => start' = offset') PROVE SInv'
  BY <1>1, <1>3, ElsewhereKeeps DEF SInv
<1>4. CASE Blank
  BY <1>3, <1>4, Elsewhere DEF Blank
<1>5. CASE Newline
  BY <1>3, <1>5, Elsewhere DEF Newline
<1>6. CASE Operator
  BY <1>3, <1>6, Elsewhere DEF Operator
<1>7. CASE Slash \/ Apostrophe \/ Bang \/ scan_string
  BY <1>1, <1>7, SlashLeaves, ApostropheLeaves, BangOpens, StringLeaves DEF SInv
<1>8. CASE scan_ident
  BY <1>3, <1>8, Elsewhere DEF scan_ident
<1>9. CASE Unknown \/ EndOfSource
  BY <1>3, <1>9, Elsewhere DEF Unknown, EndOfSource
<1>10. {"hex", "int", "double", "expo"} \subseteq Loops \ {"scan"}
  BY DEF Loops
<1>11. CASE scan_number
  BY <1>3, <1>10, <1>11, Elsewhere DEF scan_number
<1>12. CASE scan_hex \/ scan_int \/ scan_double \/ scan_expo
  BY <1>3, <1>10, <1>12, Elsewhere DEF scan_hex, scan_int, scan_double, scan_expo
<1> QED
  BY <1>2, <1>4, <1>5, <1>6, <1>7, <1>8, <1>9, <1>11, <1>12 DEF Next

\* The scanner leaves the text only in a string that is not closed, and after a
\* `/' or an apostrophe that is the last character.
THEOREM OverrunsAreKnown == Spec => []OverrunShapes
<1>1. SInv => OverrunShapes
  BY DEF SInv
<1> QED
  BY InitSInv, NextSInv, <1>1, PTL DEF Spec

-----------------------------------------------------------------------------
(* The modes of a text.                                                     *)

\* The modes of a text follow from each other: the function in Modes exists.
LEMMA ModesSteps ==
    ASSUME NEW s, NEW n \in Nat, Len(s) = n
    PROVE  /\ Modes(s)[0] = "code"
           /\ \A i \in 1 .. n : Modes(s)[i] = Mode(Modes(s)[i - 1], s[i])
<1> DEFINE Def(f, k) == f = [i \in 0 .. k |-> IF i = 0 THEN "code" ELSE Mode(f[i - 1], s[i])]
           S == {k \in Nat : \E f : Def(f, k)}
<1>1. 0 \in S
  <2>1. Def([i \in 0 .. 0 |-> "code"], 0)
    OBVIOUS
  <2> QED
    BY <2>1
<1>2. ASSUME NEW k \in 1 .. n, k - 1 \in S PROVE k \in S
  <2>1. PICK f : Def(f, k - 1)
    BY <1>2
  <2> DEFINE g == [i \in 0 .. k |-> IF i = 0 THEN "code" ELSE Mode(f[i - 1], s[i])]
  <2>2. \A i \in 0 .. k - 1 : f[i] = IF i = 0 THEN "code" ELSE Mode(f[i - 1], s[i])
    BY <2>1
  <2>3. \A i \in 0 .. k : i # 0 => i - 1 \in 0 .. k - 1 /\ g[i - 1] = f[i - 1]
    BY <2>2
  <2>4. g = [i \in 0 .. k |-> IF i = 0 THEN "code" ELSE Mode(g[i - 1], s[i])]
    BY <2>3
  <2>5. \E h : Def(h, k)
    <3> HIDE DEF g
    <3> QED
      BY <2>4
  <2> QED
    BY <2>5
<1>3. n \in S
  <2> HIDE DEF S
  <2>1. 0 .. n \subseteq S
    BY <1>1, <1>2, UpTo
  <2> QED
    BY <2>1
<1> DEFINE F == CHOOSE f : Def(f, n)
<1>4. Def(F, n)
  BY <1>3
<1>5. Modes(s) = F
  BY DEF Modes
<1> HIDE DEF F
<1>6. F = [i \in 0 .. n |-> IF i = 0 THEN "code" ELSE Mode(F[i - 1], s[i])]
  BY <1>4
<1>7. F[0] = "code"
  BY <1>6
<1>8. ASSUME NEW i \in 1 .. n PROVE F[i] = Mode(F[i - 1], s[i])
  BY <1>6
<1> QED
  BY <1>5, <1>7, <1>8

\* The items behind the a-th, up to the b-th, do not change mode m.
Still(s, a, b, m) == \A i \in a + 1 .. b : Mode(m, s[i]) = m

\* A mode that the next items do not change is the mode after each of them.
LEMMA ModeRun ==
    ASSUME NEW s, NEW n \in Nat, Len(s) = n, NEW m, NEW a \in Nat, NEW b \in Nat, b <= n,
           Modes(s)[a] = m, Still(s, a, b, m), NEW i \in a .. b
    PROVE  Modes(s)[i] = m
<1> DEFINE S == {j \in Nat : a + j <= b => Modes(s)[a + j] = m}
<1>1. 0 \in S
  BY a + 0 = a
<1>2. ASSUME NEW j \in 1 .. b, j - 1 \in S PROVE j \in S
  <2> SUFFICES ASSUME a + j <= b PROVE Modes(s)[a + j] = m
    OBVIOUS
  <2>1. a + j \in 1 .. n /\ (a + j) - 1 = a + (j - 1) /\ a + j \in a + 1 .. b
    OBVIOUS
  <2>2. Modes(s)[a + j] = Mode(Modes(s)[(a + j) - 1], s[a + j])
    BY <2>1, ModesSteps
  <2>3. Modes(s)[(a + j) - 1] = m
    BY <1>2, <2>1
  <2>4. Mode(m, s[a + j]) = m
    BY <2>1 DEF Still
  <2> QED
    BY <2>2, <2>3, <2>4
<1>3. 0 .. b \subseteq S
  <2> HIDE DEF S
  <2> QED
    BY <1>1, <1>2, UpTo
<1>4. i - a \in 0 .. b /\ a + (i - a) = i /\ i <= b
  OBVIOUS
<1> QED
  BY <1>3, <1>4

-----------------------------------------------------------------------------
(* Texts.                                                                  *)

\* The words of NothingLost, AutoSemicolon and LineNumbers, about any text.
CommentIn(s, i) == \/ Modes(s)[i] \in {"line", "block", "apos", "closed"}
                   \/ Modes(s)[i] = "slash" /\ Modes(s)[i + 1] = "block"
GapIn(s, i)     == s[i] \in LineEnds \cup {" "} /\ Modes(s)[i] = "code"
CodeIn(s, i)    == /\ Modes(s)[i] \in {"code", "bang", "quote", "string", "escape"}
                   /\ Modes(s)[i] = "code" => s[i] \notin LineEnds \cup {" "}
EndsIn(s, p)    == EndsLine(s[p], Modes(s)[p - 1])
CountedIn(s, p) == /\ EndsIn(s, p) /\ Modes(s)[p - 1] # "escape"
                   /\ s[p] = "CR" => Modes(s)[p - 1] # "string"
LineAt(s, n)    == 1 + Cardinality({p \in 1 .. n : CountedIn(s, p)})

\* Code is neither a comment nor a gap.
LEMMA CodeIsNoGap ==
    ASSUME NEW s, NEW i
    PROVE  CodeIn(s, i) => ~CommentIn(s, i) /\ ~GapIn(s, i)
BY DEF CodeIn, CommentIn, GapIn

\* No line ends where none is counted.
LEMMA LineStays ==
    ASSUME NEW s, NEW a \in Nat, NEW k \in Nat, \A p \in a + 1 .. a + k : ~CountedIn(s, p)
    PROVE  LineAt(s, a + k) = LineAt(s, a)
<1>1. {p \in 1 .. a + k : CountedIn(s, p)} = {p \in 1 .. a : CountedIn(s, p)}
  <2>1. \A p \in 1 .. a + k : p \in 1 .. a \/ p \in a + 1 .. a + k
    OBVIOUS
  <2> QED
    BY <2>1
<1> QED
  BY <1>1 DEF LineAt

\* An end of a line is the end of one line.
LEMMA LineGrows ==
    ASSUME NEW s, NEW a \in Nat, CountedIn(s, a + 1)
    PROVE  LineAt(s, a + 1) = LineAt(s, a) + 1
<1> DEFINE A == {p \in 1 .. a : CountedIn(s, p)}
<1>1. {p \in 1 .. a + 1 : CountedIn(s, p)} = A \cup {a + 1}
  <2>1. \A p \in 1 .. a + 1 : p \in 1 .. a \/ p = a + 1
    OBVIOUS
  <2> QED
    BY <2>1
<1>2. IsFiniteSet(1 .. a) /\ A \subseteq 1 .. a
  BY FS_Interval
<1>3. IsFiniteSet(A) /\ a + 1 \notin A
  BY <1>2, FS_Subset
<1>4. Cardinality(A \cup {a + 1}) = Cardinality(A) + 1 /\ Cardinality(A) \in Nat
  BY <1>3, FS_AddElement, FS_CardinalityType
<1> QED
  BY <1>1, <1>4 DEF LineAt

\* The first line is line 1.
LEMMA LineOne == ASSUME NEW s PROVE LineAt(s, 0) = 1
<1>1. {p \in 1 .. 0 : CountedIn(s, p)} = {}
  OBVIOUS
<1> QED
  BY <1>1, FS_EmptySet DEF LineAt

-----------------------------------------------------------------------------
(* What the tokens say of the text.                                        *)

EndTypes == {"ID", "DOUBLE", "INT", "STRING", "RETURN"}

\* Before a token the scanner is in code, or a comment ends here.
Ready(s, n) ==
    \/ Modes(s)[n] \in {"code", "quote", "closed"}
    \/ Modes(s)[n] = "bang" /\ s[n + 1] # "QUOT"
    \/ Modes(s)[n] = "line" /\ s[n + 1] \in {"LF", "NUL"}
    \/ Modes(s)[n] = "block" /\ s[n + 1] \in {"'", "NUL"}

\* Inside a token everything is code, unless a string has swallowed the NUL.
Inside == /\ \A i \in start + 1 .. offset : CodeIn(source, i)
          /\ Modes(source)[offset] = IF pc = "string" THEN "string" ELSE "code"
Between ==
    /\ pc = "scan" => Ready(source, offset)
    /\ pc \in {"hex", "int", "double", "expo"} => Inside /\ start < offset
    /\ pc = "string" => offset = Len(source) \/ Inside

\* lineno is the line the scanner stands on.
OnLine == pc \notin {"end", "over"} => lineno = LineAt(source, offset)

\* The tokens are a sequence, they end before the one being scanned, and tok is
\* the type of the last.
TokensBehind ==
    /\ toks \in Seq(ToSet(toks))
    /\ \A t \in ToSet(toks) : t.to \in 0 .. start
    /\ toks # <<>> => tok = toks[Len(toks)].type

\* Since a token that ends a line, no line has ended.
LineOpen == toks # <<>> /\ tok \in EndTypes =>
                \A p \in toks[Len(toks)].to + 1 .. start : ~EndsIn(source, p)

Kept(s, ts, i) ==
    \/ \E t \in ToSet(ts) : t.type = "ILLEGAL" /\ t.from < i /\ i <= t.to
    \/ (\E t \in ToSet(ts) : t.from < i /\ i <= t.to) <=> ~CommentIn(s, i) /\ ~GapIn(s, i)
AllKept == \A i \in 1 .. start : Kept(source, toks, i)

Closed(s, t, u) ==
    /\ Inserted(u) => t.type \in EndTypes /\ s[u.from + 1] \in LineEnds
    /\ t.type \in EndTypes => \A p \in t.to + 1 .. u.from : ~EndsIn(s, p)
AllClosed == \A i \in 2 .. Len(toks) : Closed(source, toks[i - 1], toks[i])

AllOnLine == \A i \in DOMAIN toks :
    toks[i].type # "ILLEGAL" => toks[i].line = LineAt(source, toks[i].to)

TextInv == TokensBehind /\ Between /\ OnLine /\ LineOpen /\ AllKept /\ AllClosed /\ AllOnLine

\* These are the properties of Lexer.
LEMMA TextProperties ==
    /\ AllKept => NothingLost
    /\ AllClosed => AutoSemicolon
    /\ AllOnLine => LineNumbers
<1>1. AllKept => NothingLost
  BY DEF AllKept, Kept, NothingLost, CommentIn, GapIn
<1>2. AllClosed => AutoSemicolon
  BY DEF AllClosed, Closed, AutoSemicolon, EndTypes, EndsIn
<1>3. AllOnLine => LineNumbers
  BY DEF AllOnLine, LineNumbers, LineAt, CountedIn, EndsIn
<1> QED
  BY <1>1, <1>2, <1>3

TInv == SInv /\ (Neat(source) => TextInv)

-----------------------------------------------------------------------------
(* Steps.                                                                  *)

\* A token that is returned becomes the last one.
LEMMA TokensGrow ==
    ASSUME IInv, TokensBehind, NEW k \in Nat, NEW t, NEW val, Return(t, k, val)
    PROVE  /\ TokensBehind'
           /\ \E r : /\ r.type = t /\ r.from = start /\ r.to = offset + k /\ r.line = lineno'
                     /\ r.val = val /\ Len(toks) \in Nat /\ DOMAIN toks = 1 .. Len(toks)
                     /\ ToSet(toks') = ToSet(toks) \cup {r}
                     /\ Len(toks') = Len(toks) + 1 /\ DOMAIN toks' = 1 .. Len(toks) + 1
                     /\ toks'[Len(toks) + 1] = r
                     /\ \A i \in 1 .. Len(toks) : toks'[i] = toks[i]
<1> DEFINE r == [type |-> t, from |-> start, to |-> offset + k, line |-> lineno', val |-> val]
<1>1. r.type = t /\ r.from = start /\ r.to = offset + k /\ r.line = lineno' /\ r.val = val
  OBVIOUS
<1>2. toks' = toks \o <<r>> /\ tok' = t /\ start' = offset + k
  BY DEF Return
<1>3. start \in Nat /\ offset \in Nat /\ start <= offset /\ start <= offset + k
  BY DEF IInv, TypeOK
<1> HIDE DEF r
<1> DEFINE S == ToSet(toks)
<1>4. toks \in Seq(S)
  BY DEF TokensBehind
<1> HIDE DEF S
<1>5. toks \in Seq(S \cup {r}) /\ <<r>> \in Seq(S \cup {r}) /\ Len(<<r>>) = 1 /\ <<r>>[1] = r
  BY <1>4
<1>6. /\ Len(toks) \in Nat /\ DOMAIN toks = 1 .. Len(toks)
      /\ toks' \in Seq(S \cup {r}) /\ Len(toks') = Len(toks) + 1
      /\ DOMAIN toks' = 1 .. Len(toks) + 1
      /\ toks'[Len(toks) + 1] = r
      /\ \A i \in 1 .. Len(toks) : toks'[i] = toks[i]
  BY <1>2, <1>4, <1>5
<1>7. S = {toks[i] : i \in 1 .. Len(toks)}
  BY <1>6 DEF S, ToSet
<1>8. ToSet(toks') = S \cup {r}
  <2>1. ToSet(toks') = {toks'[i] : i \in 1 .. Len(toks) + 1}
    BY <1>6 DEF ToSet
  <2>2. \A i \in 1 .. Len(toks) + 1 : i \in 1 .. Len(toks) \/ i = Len(toks) + 1
    BY <1>6
  <2>3. 1 .. Len(toks) \subseteq 1 .. Len(toks) + 1 /\ Len(toks) + 1 \in 1 .. Len(toks) + 1
    BY <1>6
  <2> QED
    BY <1>6, <1>7, <2>1, <2>2, <2>3
<1>9. \A u \in S \cup {r} : u.to \in 0 .. offset + k
  BY <1>1, <1>3 DEF TokensBehind, S
<1>10. TokensBehind'
  BY <1>1, <1>2, <1>3, <1>6, <1>8, <1>9 DEF TokensBehind
<1> QED
  BY <1>1, <1>6, <1>8, <1>10 DEF S

\* A token made of code, and an inserted semicolon, keep what is known.
LEMMA TokenKeeps ==
    ASSUME TInv, Neat(source), IInv', NEW k \in Nat, NEW t, NEW val,
           UNCHANGED lineno, Return(t, k, val), offset + k <= Len(source),
           t = "ILLEGAL" \/ \A i \in start + 1 .. offset + k : CodeIn(source, i),
           t = "ILLEGAL" \/ \A p \in offset + 1 .. offset + k : ~CountedIn(source, p),
           t \in {"EOS", "ILLEGAL"} \/ Ready(source, offset + k),
           start = offset + k /\ t = "SEMICOLON" =>
               tok \in EndTypes /\ source[start + 1] \in LineEnds,
           pc \notin {"end", "over"}
    PROVE  TextInv'
<1>1. /\ offset \in Nat /\ start \in Nat /\ Len(source) \in Nat /\ start <= offset
      /\ TextInv /\ IInv /\ TokensBehind
  BY DEF TInv, SInv, IInv, TypeOK, TextInv
<1>2. /\ source' = source /\ offset' = offset + k /\ start' = offset + k /\ lineno' = lineno
      /\ tok' = t /\ pc' = IF t \in {"EOS", "ILLEGAL"} THEN "end" ELSE "scan"
  BY DEF Return
<1>3. PICK r : /\ r.type = t /\ r.from = start /\ r.to = offset + k /\ r.line = lineno'
               /\ Len(toks) \in Nat /\ DOMAIN toks = 1 .. Len(toks)
               /\ ToSet(toks') = ToSet(toks) \cup {r}
               /\ Len(toks') = Len(toks) + 1 /\ DOMAIN toks' = 1 .. Len(toks) + 1
               /\ toks'[Len(toks) + 1] = r
               /\ \A i \in 1 .. Len(toks) : toks'[i] = toks[i]
  BY <1>1, TokensGrow
<1> DEFINE n == Len(toks)
<1> HIDE DEF n
<1>4. /\ n \in Nat /\ DOMAIN toks = 1 .. n /\ Len(toks') = n + 1 /\ DOMAIN toks' = 1 .. n + 1
      /\ toks'[n + 1] = r /\ \A i \in 1 .. n : toks'[i] = toks[i]
  BY <1>3 DEF n
<1>5. Between'
  BY <1>2 DEF Between
<1>6. t = "ILLEGAL" \/ lineno = LineAt(source, offset + k)
  <2>1. lineno = LineAt(source, offset)
    BY <1>1 DEF TextInv, OnLine
  <2> QED
    BY <1>1, <2>1, LineStays
<1>7. OnLine'
  BY <1>2, <1>6 DEF OnLine
<1>8. LineOpen'
  <2>1. toks'[Len(toks')].to + 1 .. start' = {}
    BY <1>1, <1>2, <1>3, <1>4
  <2> QED
    BY <2>1 DEF LineOpen
<1>9. AllOnLine'
  <2> SUFFICES ASSUME NEW i \in 1 .. n + 1, toks'[i].type # "ILLEGAL"
               PROVE  toks'[i].line = LineAt(source, toks'[i].to)
    BY <1>2, <1>4 DEF AllOnLine
  <2>1. CASE i \in 1 .. n
    BY <1>1, <1>4, <2>1 DEF TextInv, AllOnLine
  <2>2. CASE i = n + 1
    BY <1>2, <1>3, <1>4, <1>6, <2>2
  <2> QED
    BY <1>4, <2>1, <2>2
<1>10. AllClosed'
  <2> SUFFICES ASSUME NEW i \in 2 .. n + 1
               PROVE  Closed(source, toks'[i - 1], toks'[i])
    BY <1>2, <1>4 DEF AllClosed
  <2>1. CASE i \in 2 .. n
    <3>1. toks'[i - 1] = toks[i - 1] /\ toks'[i] = toks[i]
      BY <1>4, <2>1
    <3>2. Closed(source, toks[i - 1], toks[i])
      BY <1>1, <2>1 DEF TextInv, AllClosed, n
    <3> QED
      BY <3>1, <3>2
  <2>2. CASE i = n + 1
    <3>1. i - 1 = n /\ n \in 1 .. n /\ toks # <<>>
      BY <1>4, <2>2
    <3>2. toks'[i - 1] = toks[n] /\ toks'[i] = r
      BY <1>4, <2>2, <3>1
    <3>3. tok = toks[n].type
      BY <1>1, <3>1 DEF TokensBehind, n
    <3>4. tok \in EndTypes => \A p \in toks[n].to + 1 .. start : ~EndsIn(source, p)
      BY <1>1, <3>1 DEF TextInv, LineOpen, n
    <3>5. Inserted(r) => start = offset + k /\ t = "SEMICOLON"
      BY <1>3 DEF Inserted
    <3>6. Closed(source, toks[n], r)
      BY <1>3, <3>3, <3>4, <3>5 DEF Closed
    <3> QED
      BY <3>2, <3>6
  <2> QED
    BY <1>4, <2>1, <2>2
<1>11. AllKept'
  <2> SUFFICES ASSUME NEW i \in 1 .. offset + k PROVE Kept(source, toks', i)
    BY <1>2 DEF AllKept
  <2>1. CASE i <= start
    <3>1. ~(start < i) /\ i \in 1 .. start
      BY <1>1, <2>1
    <3>2. Kept(source, toks, i)
      BY <1>1, <3>1 DEF TextInv, AllKept
    <3>3. ~(r.from < i)
      BY <1>3, <3>1
    <3> QED
      BY <1>3, <3>2, <3>3 DEF Kept
  <2>2. CASE start < i
    <3>1. i \in start + 1 .. offset + k
      BY <1>1, <2>2
    <3>2. r \in ToSet(toks') /\ r.from < i /\ i <= r.to /\ r.type = t
      BY <1>3, <2>2
    <3>3. CASE t = "ILLEGAL"
      BY <3>2, <3>3 DEF Kept
    <3>4. CASE CodeIn(source, i)
      BY <3>2, <3>4, CodeIsNoGap DEF Kept
    <3> QED
      BY <3>1, <3>3, <3>4
  <2> QED
    BY <1>1, <2>1, <2>2
<1>12. TokensBehind'
  BY <1>1, TokensGrow
<1> QED
  BY <1>5, <1>7, <1>8, <1>9, <1>10, <1>11, <1>12 DEF TextInv

\* What is skipped is a comment or a gap, and no line ends in it except the one
\* that is counted.
LEMMA SkipKeeps ==
    ASSUME TInv, Neat(source), IInv', NEW k \in Nat, Skip(k), pc = "scan",
           offset + k < Len(source),
           \A i \in offset + 1 .. offset + k : CommentIn(source, i) \/ GapIn(source, i),
           \/ /\ lineno' = lineno
              /\ \A p \in offset + 1 .. offset + k :
                    ~EndsIn(source, p) /\ ~CountedIn(source, p)
           \/ /\ lineno' = lineno + 1 /\ k = 1 /\ CountedIn(source, offset + 1)
              /\ tok \notin EndTypes,
           Ready(source, offset + k)
    PROVE  TextInv'
<1>1. /\ offset \in Nat /\ start = offset /\ Len(source) \in Nat
      /\ TextInv /\ IInv /\ TokensBehind
  BY DEF TInv, SInv, IInv, TypeOK, AtStart, TextInv
<1>2. /\ source' = source /\ offset' = offset + k /\ start' = offset + k
      /\ tok' = tok /\ toks' = toks /\ pc' = "scan"
  BY DEF Skip
<1>3. Between'
  BY <1>2 DEF Between
<1>4. OnLine'
  <2>1. lineno = LineAt(source, offset)
    BY <1>1 DEF TextInv, OnLine
  <2>2. lineno' = LineAt(source, offset + k)
    BY <1>1, <2>1, LineStays, LineGrows
  <2> QED
    BY <1>2, <2>2 DEF OnLine
<1>5. LineOpen'
  <2> SUFFICES ASSUME toks # <<>>, tok \in EndTypes,
                      NEW p \in toks[Len(toks)].to + 1 .. offset + k
               PROVE  ~EndsIn(source, p)
    BY <1>2 DEF LineOpen
  <2>1. CASE p <= offset
    <3>1. toks[Len(toks)].to \in Nat
      <4> DEFINE S == ToSet(toks)
      <4>1. toks \in Seq(S) /\ \A u \in S : u.to \in 0 .. start
        BY <1>1 DEF TokensBehind
      <4> HIDE DEF S
      <4>2. toks[Len(toks)] \in S
        BY <4>1
      <4> QED
        BY <1>1, <4>1, <4>2
    <3>2. p \in toks[Len(toks)].to + 1 .. start
      BY <1>1, <2>1, <3>1
    <3> QED
      BY <1>1, <3>2 DEF TextInv, LineOpen
  <2>2. CASE p > offset
    <3>1. toks[Len(toks)].to \in Nat
      <4> DEFINE S == ToSet(toks)
      <4>1. toks \in Seq(S) /\ \A u \in S : u.to \in 0 .. start
        BY <1>1 DEF TokensBehind
      <4> HIDE DEF S
      <4>2. toks[Len(toks)] \in S
        BY <4>1
      <4> QED
        BY <1>1, <4>1, <4>2
    <3>2. p \in offset + 1 .. offset + k
      BY <1>1, <2>2, <3>1
    <3> QED
      BY <3>2
  <2> QED
    BY <1>1, <2>1, <2>2
<1>6. AllKept'
  <2> SUFFICES ASSUME NEW i \in 1 .. offset + k PROVE Kept(source, toks, i)
    BY <1>2 DEF AllKept
  <2>1. CASE i <= offset
    BY <1>1, <2>1 DEF TextInv, AllKept
  <2>2. CASE offset < i
    <3>1. i \in offset + 1 .. offset + k
      BY <1>1, <2>2
    <3>2. \A t \in ToSet(toks) : ~(i <= t.to)
      BY <1>1, <2>2 DEF TokensBehind
    <3> QED
      BY <3>1, <3>2 DEF Kept
  <2> QED
    BY <1>1, <2>1, <2>2
<1>7. AllClosed' /\ AllOnLine'
  BY <1>1, <1>2 DEF TextInv, AllClosed, AllOnLine
<1>8. TokensBehind'
  BY <1>1, <1>2 DEF TokensBehind
<1> QED
  BY <1>3, <1>4, <1>5, <1>6, <1>7, <1>8 DEF TextInv

\* A string or a number that goes on takes code.
LEMMA GoOnKeeps ==
    ASSUME TInv, Neat(source), IInv', NEW k \in Nat \ {0}, NEW q \in {"string", "hex", "int", "double", "expo"},
           GoOn(q, k), pc \notin {"end", "over"},
           lineno' = LineAt(source, offset + k),
           \/ q = "string" /\ offset + k = Len(source)
           \/ /\ \A i \in start + 1 .. offset + k : CodeIn(source, i)
              /\ Modes(source)[offset + k] = IF q = "string" THEN "string" ELSE "code"
    PROVE  TextInv'
<1>1. /\ offset \in Nat /\ Len(source) \in Nat /\ TextInv /\ IInv /\ TokensBehind
      /\ start \in Nat /\ start < offset + k
  BY DEF TInv, SInv, IInv, TypeOK, TextInv
<1>2. /\ source' = source /\ offset' = offset + k /\ start' = start
      /\ tok' = tok /\ toks' = toks /\ pc' = q
  BY DEF GoOn
<1>3. Between'
  BY <1>1, <1>2 DEF Between, Inside
<1>4. OnLine'
  BY <1>2 DEF OnLine
<1>5. LineOpen' /\ AllKept' /\ AllClosed' /\ AllOnLine' /\ TokensBehind'
  BY <1>1, <1>2 DEF TextInv, LineOpen, AllKept, AllClosed, AllOnLine, TokensBehind
<1> QED
  BY <1>3, <1>4, <1>5 DEF TextInv

\* Leaving the text changes nothing that is said of the tokens.
LEMMA OverrunKeepsText ==
    ASSUME TInv, Neat(source), Overrun
    PROVE  TextInv'
<1>1. /\ source' = source /\ offset' = offset /\ start' = start
      /\ tok' = tok /\ toks' = toks /\ pc' = "over"
  BY DEF Overrun
<1> QED
  BY <1>1 DEF TInv, TextInv, TokensBehind, Between, OnLine, LineOpen, AllKept, AllClosed, AllOnLine

-----------------------------------------------------------------------------
(* The cases of ifj17_scan, in the text.                                   *)

\* The items of names, numbers and operators.
CodeItems == Items \ ({"/", "'", "!", " "} \cup LineEnds)

\* The mode of the item that a case of ifj17_scan looks at.
LEMMA FreshMode ==
    ASSUME TInv, Neat(source), pc = "scan"
    PROVE  /\ offset + 1 <= Len(source) /\ source[offset + 1] = Peek(1)
           /\ Modes(source)[offset] \in {"code", "quote", "closed", "bang", "line", "block"}
           /\ Modes(source)[offset + 1] = Mode(Modes(source)[offset], Peek(1))
           /\ Peek(1) \notin {"/", "'", "!"} => Modes(source)[offset + 1] = "code"
           /\ Peek(1) = "/" => Modes(source)[offset + 1] = "slash"
           /\ Peek(1) = "!" => Modes(source)[offset + 1] = "bang"
           /\ Peek(1) = "'" => Modes(source)[offset + 1] = IF Modes(source)[offset] = "block"
                                                              THEN "apos" ELSE "line"
           /\ Modes(source)[offset] = "line" => Peek(1) \in {"LF", "NUL"}
           /\ Modes(source)[offset] = "block" => Peek(1) \in {"'", "NUL"}
           /\ Modes(source)[offset] = "bang" => Peek(1) # "QUOT"
<1>1. offset \in Nat /\ Len(source) \in Nat /\ offset < Len(source) /\ TextInv
  BY DEF TInv, SInv, IInv, TypeOK, WithinSource
<1>2. offset + 1 <= Len(source) /\ source[offset + 1] = Peek(1)
  BY <1>1 DEF Peek
<1>3. offset + 1 \in 1 .. Len(source) /\ (offset + 1) - 1 = offset
  BY <1>1
<1>4. Modes(source)[offset + 1] = Mode(Modes(source)[offset], Peek(1))
  BY <1>1, <1>2, <1>3, ModesSteps
<1> DEFINE m == Modes(source)[offset]
           c == Peek(1)
<1>5. Ready(source, offset)
  BY <1>1 DEF TextInv, Between
<1>6. \/ m \in {"code", "quote", "closed"}
      \/ m = "bang" /\ c # "QUOT"
      \/ m = "line" /\ c \in {"LF", "NUL"}
      \/ m = "block" /\ c \in {"'", "NUL"}
  BY <1>2, <1>5 DEF Ready
<1> HIDE DEF m, c
<1>7. /\ c \notin {"/", "'", "!"} => Mode(m, c) = "code"
      /\ c = "/" => Mode(m, c) = "slash"
      /\ c = "!" => Mode(m, c) = "bang"
      /\ c = "'" => Mode(m, c) = IF m = "block" THEN "apos" ELSE "line"
  BY <1>6 DEF Mode
<1>8. Modes(source)[offset + 1] = Mode(m, c)
  BY <1>4 DEF m, c
<1> QED
  BY <1>2, <1>4, <1>6, <1>7, <1>8 DEF m, c

\* Items of code ahead of the scanner are in mode "code".
LEMMA CodeAhead ==
    ASSUME TInv, Neat(source), pc \in Loops, NEW k \in Nat \ {0},
           \A j \in 1 .. k : Peek(j) \in CodeItems
    PROVE  /\ offset + k < Len(source)
           /\ \A i \in offset + 1 .. offset + k : ~CountedIn(source, i)
           /\ \A i \in start + 1 .. offset + k : CodeIn(source, i)
           /\ Modes(source)[offset + k] = "code"
<1>1. offset \in Nat /\ start \in Nat /\ Len(source) \in Nat /\ IInv /\ TextInv
  BY DEF TInv, SInv, IInv, TypeOK
<1>2. offset + k < Len(source)
  <2>1. k \in 1 .. k
    OBVIOUS
  <2>2. Peek(k) \in CodeItems
    BY <2>1
  <2>3. Peek(k) \in Items
    BY <2>2 DEF CodeItems
  <2> QED
    BY <1>1, <2>3, PeekItem
<1>3. \A j \in 1 .. k : source[offset + j] \in CodeItems
  <2> SUFFICES ASSUME NEW j \in 1 .. k PROVE source[offset + j] \in CodeItems
    OBVIOUS
  <2>1. Peek(j) \in CodeItems /\ offset + j <= Len(source)
    BY <1>1, <1>2
  <2> QED
    BY <2>1 DEF Peek
<1>4. Modes(source)[offset + 1] = "code"
  <2>1. Peek(1) \in CodeItems /\ Peek(1) = source[offset + 1]
    BY <1>1, <1>2 DEF Peek
  <2>2. CASE pc = "scan"
    BY <2>1, <2>2, FreshMode DEF CodeItems
  <2>3. CASE pc # "scan"
    <3>1. Modes(source)[offset] = "code"
      BY <1>1, <2>3 DEF TextInv, Between, Inside, Loops
    <3>2. Modes(source)[offset + 1] = Mode("code", source[offset + 1])
      <4>1. offset + 1 \in 1 .. Len(source) /\ (offset + 1) - 1 = offset
        BY <1>1, <1>2
      <4> QED
        BY <1>1, <3>1, <4>1, ModesSteps
    <3> QED
      BY <2>1, <3>2 DEF Mode, CodeItems
  <2> QED
    BY <2>2, <2>3
<1>5. \A i \in offset + 1 .. offset + k : source[i] \in CodeItems
  <2> SUFFICES ASSUME NEW i \in offset + 1 .. offset + k PROVE source[i] \in CodeItems
    OBVIOUS
  <2>1. i - offset \in 1 .. k /\ offset + (i - offset) = i
    BY <1>1
  <2> QED
    BY <1>3, <2>1
<1>6. ASSUME NEW i \in offset + 1 .. offset + k
      PROVE  Modes(source)[i] = "code"
  <2> DEFINE a == offset + 1
             b == offset + k
  <2>1. a \in Nat /\ b \in Nat /\ b <= Len(source) /\ i \in a .. b
    BY <1>1, <1>2
  <2>2. \A p \in a + 1 .. b : source[p] \in CodeItems
    <3>1. a + 1 .. b \subseteq offset + 1 .. b
      BY <1>1
    <3> QED
      BY <1>5, <3>1
  <2> HIDE DEF a, b
  <2>3. Still(source, a, b, "code")
    BY <2>2 DEF Mode, CodeItems, Still
  <2>4. Modes(source)[a] = "code"
    BY <1>4 DEF a
  <2> QED
    BY <1>1, <2>1, <2>3, <2>4, ModeRun
<1>7. \A i \in offset + 1 .. offset + k : CodeIn(source, i) /\ ~CountedIn(source, i)
  BY <1>5, <1>6 DEF CodeIn, CountedIn, EndsIn, EndsLine, CodeItems, LineEnds
<1>8. \A i \in start + 1 .. offset : CodeIn(source, i)
  <2>1. CASE pc = "scan"
    <3>1. start = offset
      BY <2>1 DEF TInv, SInv, AtStart
    <3> QED
      BY <1>1, <3>1
  <2>2. CASE pc # "scan"
    BY <1>1, <2>2 DEF TextInv, Between, Inside, Loops
  <2> QED
    BY <2>1, <2>2
<1>9. \A i \in start + 1 .. offset + k : CodeIn(source, i)
  <2>1. \A i \in start + 1 .. offset + k : i \in start + 1 .. offset \/ i \in offset + 1 .. offset + k
    BY <1>1
  <2> QED
    BY <1>7, <1>8, <2>1
<1>10. Modes(source)[offset + k] = "code"
  <2>1. offset + k \in offset + 1 .. offset + k
    BY <1>1
  <2> QED
    BY <1>6, <2>1
<1> QED
  BY <1>2, <1>7, <1>9, <1>10

\* A token of such items.
LEMMA CodeToken ==
    ASSUME TInv, Neat(source), IInv', pc = "scan", NEW k \in Nat \ {0}, NEW t, Token(t, k),
           \A j \in 1 .. k : Peek(j) \in CodeItems
    PROVE  TextInv'
<1>1. /\ offset \in Nat /\ Len(source) \in Nat /\ start = offset /\ start # offset + k
      /\ IInv
  BY DEF TInv, SInv, IInv, TypeOK, AtStart
<1>2. /\ offset + k < Len(source)
      /\ \A i \in offset + 1 .. offset + k : ~CountedIn(source, i)
      /\ \A i \in start + 1 .. offset + k : CodeIn(source, i)
      /\ Modes(source)[offset + k] = "code"
  BY CodeAhead DEF Loops
<1>3. Ready(source, offset + k)
  BY <1>2 DEF Ready
<1>4. Return(t, k, 0) /\ UNCHANGED lineno /\ offset + k <= Len(source)
  BY <1>1, <1>2 DEF Token
<1> QED
  BY <1>1, <1>2, <1>3, <1>4, TokenKeeps

\* Such items in a number.
LEMMA CodeNumber ==
    ASSUME TInv, Neat(source), IInv', pc \in Loops, NEW k \in Nat \ {0}, NEW locals,
           NEW q \in {"hex", "int", "double", "expo"}, Number(q, k, locals),
           \A j \in 1 .. k : Peek(j) \in CodeItems
    PROVE  TextInv'
<1>1. /\ offset \in Nat /\ Len(source) \in Nat /\ TextInv
      /\ GoOn(q, k) /\ lineno' = lineno
  BY DEF TInv, SInv, IInv, TypeOK, Number
<1>2. /\ offset + k < Len(source)
      /\ \A i \in offset + 1 .. offset + k : ~CountedIn(source, i)
      /\ \A i \in start + 1 .. offset + k : CodeIn(source, i)
      /\ Modes(source)[offset + k] = "code"
  BY CodeAhead
<1>3. lineno' = LineAt(source, offset + k)
  <2>1. lineno = LineAt(source, offset)
    BY <1>1 DEF TextInv, OnLine, Loops
  <2> QED
    BY <1>1, <1>2, <2>1, LineStays
<1> QED
  BY <1>1, <1>2, <1>3, GoOnKeeps DEF Loops

\* Blanks are gaps.
LEMMA BlankText == ASSUME TInv, Neat(source), IInv', Blank PROVE TextInv'
<1>1. At(" ") /\ pc = "scan" /\ Peek(1) = " " /\ Skip(1) /\ lineno' = lineno
  BY DEF Blank, At
<1>2. offset + 1 < Len(source)
  <2>1. " " \in Items /\ IInv
    BY DEF Items, TInv, SInv
  <2> QED
    BY <1>1, <2>1, AtInside
<1>3. source[offset + 1] = " " /\ Modes(source)[offset + 1] = "code"
  BY <1>1, FreshMode
<1>4. GapIn(source, offset + 1) /\ ~EndsIn(source, offset + 1) /\ ~CountedIn(source, offset + 1)
  BY <1>3 DEF GapIn, EndsIn, CountedIn, EndsLine
<1>5. offset \in Nat /\ \A i \in offset + 1 .. offset + 1 : i = offset + 1
  BY DEF TInv, SInv, IInv, TypeOK
<1>6. Ready(source, offset + 1)
  BY <1>3 DEF Ready
<1> QED
  BY <1>1, <1>2, <1>4, <1>5, <1>6, SkipKeeps

\* A newline is a gap and ends a line, or is given back for a semicolon.
LEMMA NewlineText == ASSUME TInv, Neat(source), IInv', Newline PROVE TextInv'
<1>1. pc = "scan" /\ Peek(1) \in LineEnds
  BY DEF Newline
<1>2. offset \in Nat /\ Len(source) \in Nat /\ offset + 1 < Len(source) /\ start = offset /\ TextInv
  <2>1. LineEnds \subseteq Items /\ At(Peek(1))
    BY <1>1 DEF LineEnds, Items, At
  <2> QED
    BY <1>1, <2>1, AtInside DEF TInv, SInv, IInv, TypeOK, AtStart
<1>3. source[offset + 1] \in LineEnds /\ Modes(source)[offset + 1] = "code"
      /\ Modes(source)[offset] \in {"code", "quote", "closed", "bang", "line"}
      /\ (Modes(source)[offset] = "line" => source[offset + 1] = "LF")
  BY <1>1, FreshMode DEF LineEnds
<1>4. CASE need_semi(tok)
  <2>1. Return("SEMICOLON", 0, 0) /\ UNCHANGED lineno
    BY <1>4 DEF Newline, Token
  <2>2. Ready(source, offset + 0)
    BY <1>1, <1>2 DEF TextInv, Between
  <2>3. tok \in EndTypes
    BY <1>4 DEF need_semi, EndTypes
  <2>4. offset + 1 .. offset + 0 = {} /\ start + 1 .. offset + 0 = {} /\ offset + 0 <= Len(source)
    BY <1>2
  <2> QED
    BY <1>1, <1>2, <1>3, <2>1, <2>2, <2>3, <2>4, TokenKeeps
<1>5. CASE ~need_semi(tok)
  <2>1. Skip(1) /\ lineno' = lineno + 1
    BY <1>5 DEF Newline
  <2>2. tok \notin EndTypes
    BY <1>5 DEF need_semi, EndTypes
  <2>3. CountedIn(source, offset + 1)
    <3>1. (offset + 1) - 1 = offset
      BY <1>2
    <3> QED
      BY <1>3, <3>1 DEF CountedIn, EndsIn, EndsLine, LineEnds
  <2>4. \A i \in offset + 1 .. offset + 1 : GapIn(source, i)
    <3>1. \A i \in offset + 1 .. offset + 1 : i = offset + 1
      BY <1>2
    <3>2. GapIn(source, offset + 1)
      BY <1>3 DEF GapIn
    <3> QED
      BY <3>1, <3>2
  <2>5. Ready(source, offset + 1)
    BY <1>3 DEF Ready
  <2> QED
    BY <1>1, <1>2, <2>1, <2>2, <2>3, <2>4, <2>5, SkipKeeps
<1> QED
  BY <1>4, <1>5

\* Operators are code.
LEMMA OperatorIsCode == ASSUME TInv, Neat(source), IInv', Operator PROVE TextInv'
<1>1. PICK t \in Marks : Spelled(t) /\ Token(t, Len(Spelling[t])) /\ pc = "scan"
  BY DEF Operator
<1> DEFINE n == Len(Spelling[t])
           text == Spelling[t]
<1>2. n \in Nat \ {0} /\ DOMAIN text = 1 .. n /\ \A i \in 1 .. n : text[i] \in OperatorItems
  <2>1. n \in {1, 2, 3} /\ DOMAIN text = 1 .. n /\ \A i \in 1 .. n : text[i] \in OperatorItems
    BY OperatorText
  <2> QED
    BY <2>1
<1>3. \A j \in DOMAIN text : Peek(j) = text[j]
  BY <1>1 DEF Spelled
<1>4. Token(t, n)
  BY <1>1
<1> HIDE DEF n, text
<1>5. OperatorItems \subseteq CodeItems
  BY DEF OperatorItems, CodeItems, Items, LineEnds
<1>6. \A j \in 1 .. n : Peek(j) \in CodeItems
  BY <1>2, <1>3, <1>5
<1> QED
  BY <1>1, <1>2, <1>4, <1>6, CodeToken

\* So are names and keywords.
LEMMA IdentText == ASSUME TInv, Neat(source), IInv', scan_ident PROVE TextInv'
<1>1. PICK n \in Lengths : /\ Run(1, Alpha \cup Digits, n)
                           /\ \E t : Token(t, n)
  BY DEF scan_ident
<1>2. PICK t : Token(t, n)
  BY <1>1
<1>3. pc = "scan" /\ Peek(1) \in Alpha /\ Len(source) \in Nat
  BY DEF scan_ident, TInv, SInv, IInv, TypeOK
<1>4. n \in Nat \ {0}
  BY <1>1, <1>3 DEF Run, Lengths
<1>5. Alpha \cup Digits \subseteq CodeItems
  <2>1. (Alpha \cup Digits) \cap ({"/", "'", "!", " "} \cup LineEnds) = {}
    BY DEF Alpha, Keywords, Digits, Digit, LineEnds
  <2> QED
    BY <2>1, ItemFacts DEF CodeItems
<1>6. \A j \in 1 .. n : Peek(j) \in CodeItems
  <2> SUFFICES ASSUME NEW j \in 1 .. n PROVE Peek(j) \in CodeItems
    OBVIOUS
  <2>1. j - 1 \in 0 .. n - 1 /\ 1 + (j - 1) = j
    BY <1>4
  <2>2. Peek(1 + (j - 1)) \in Alpha \cup Digits
    BY <1>1, <2>1 DEF Run
  <2> QED
    BY <1>5, <2>1, <2>2
<1> QED
  BY <1>2, <1>3, <1>4, <1>6, CodeToken

\* What an illegal token holds is not judged; the NUL is the last token.
LEMMA EndText ==
    ASSUME TInv, Neat(source), IInv', Unknown \/ EndOfSource PROVE TextInv'
<1>1. pc = "scan" /\ offset \in Nat /\ Len(source) \in Nat /\ start = offset /\ offset + 1 <= Len(source)
  BY DEF Unknown, Illegal, EndOfSource, At, TInv, SInv, IInv, TypeOK, WithinSource, AtStart
<1>2. start # offset + 1
  BY <1>1
<1>3. CASE Unknown
  BY <1>1, <1>2, <1>3, TokenKeeps DEF Unknown, Token
<1>4. CASE EndOfSource
  <2>1. Return("EOS", 1, 0) /\ lineno' = lineno /\ Peek(1) = "NUL"
    BY <1>4 DEF EndOfSource, Token, At
  <2>2. source[offset + 1] = "NUL" /\ Modes(source)[offset + 1] = "code"
    BY <1>1, <2>1, FreshMode
  <2>3. CodeIn(source, offset + 1) /\ ~CountedIn(source, offset + 1)
    BY <2>2 DEF CodeIn, CountedIn, EndsIn, EndsLine, LineEnds
  <2>4. \A i \in offset + 1 .. offset + 1 : i = offset + 1
    BY <1>1
  <2> QED
    BY <1>1, <1>2, <2>1, <2>3, <2>4, TokenKeeps
<1> QED
  BY <1>3, <1>4

\* The mode of the item behind the one a case looks at.
LEMMA SecondMode ==
    ASSUME TInv, Neat(source), pc = "scan", offset + 1 < Len(source)
    PROVE  /\ offset + 1 \in 1 .. Len(source) /\ offset + 2 \in 1 .. Len(source)
           /\ source[offset + 2] = Peek(2) /\ (offset + 2) - 1 = offset + 1
           /\ (offset + 1) + 1 = offset + 2 /\ (offset + 1) - 1 = offset
           /\ Modes(source)[offset + 2] = Mode(Modes(source)[offset + 1], Peek(2))
<1>1. offset \in Nat /\ Len(source) \in Nat
  BY DEF TInv, SInv, IInv, TypeOK
<1>2. /\ offset + 1 \in 1 .. Len(source) /\ offset + 2 \in 1 .. Len(source)
      /\ (offset + 2) - 1 = offset + 1 /\ (offset + 1) + 1 = offset + 2
      /\ (offset + 1) - 1 = offset /\ offset + 2 <= Len(source)
  BY <1>1
<1>3. source[offset + 2] = Peek(2)
  BY <1>2 DEF Peek
<1> QED
  BY <1>1, <1>2, <1>3, ModesSteps

\* From the second item ahead to the (2 + n)-th the mode is m and the items belong
\* to S; the item behind them does not.
Body(S, n, m) ==
    /\ offset + (2 + n) < Len(source)
    /\ \A i \in offset + 3 .. offset + (2 + n) :
          source[i] \in S /\ Modes(source)[i] = m /\ Modes(source)[i - 1] = m
    /\ Modes(source)[offset + (2 + n)] = m
    /\ source[(offset + (2 + n)) + 1] \in (Items \cup {"NUL"}) \ S

\* A run of items behind the second one, none of which changes its mode, is a
\* comment in that mode up to the item that ends it.
LEMMA CommentRun ==
    ASSUME TInv, Neat(source), pc = "scan", offset + 2 < Len(source),
           NEW S \in SUBSET Items, NEW n \in Nat, Run(3, S, n),
           NEW m, Modes(source)[offset + 2] = m, \A c \in S : Mode(m, c) = m
    PROVE  Body(S, n, m)
<1>1. offset \in Nat /\ Len(source) \in Nat /\ IInv /\ source \in Seq(Items \cup {"NUL"})
  BY DEF TInv, SInv, IInv, TypeOK
<1>2. offset + (2 + n) < Len(source)
  <2>1. offset + 3 - 1 < Len(source)
    BY <1>1
  <2>2. offset + (3 - 1 + n) < Len(source)
    BY <1>1, <2>1, RunInside
  <2> QED
    BY <1>1, <2>2
<1> DEFINE a == offset + 2
           b == offset + (2 + n)
<1>3. a \in Nat /\ b \in Nat /\ b <= Len(source) /\ a <= b /\ a + 1 = offset + 3
  BY <1>1, <1>2
<1>4. ASSUME NEW i \in offset + 3 .. b PROVE source[i] \in S
  <2>1. i - (offset + 3) \in 0 .. n - 1 /\ offset + (3 + (i - (offset + 3))) = i
    BY <1>1
  <2>2. Peek(3 + (i - (offset + 3))) \in S
    BY <2>1 DEF Run
  <2>3. Peek(3 + (i - (offset + 3))) = source[i]
    BY <1>1, <1>2, <2>1 DEF Peek
  <2> QED
    BY <2>2, <2>3
<1>5. Still(source, a, b, m)
  BY <1>3, <1>4 DEF Still
<1>6. Modes(source)[a] = m
  OBVIOUS
<1>7. ASSUME NEW i \in a .. b PROVE Modes(source)[i] = m
  <2> HIDE DEF a, b
  <2> QED
    BY <1>1, <1>3, <1>5, <1>6, <1>7, ModeRun
<1>8. \A i \in offset + 3 .. b : i \in a .. b /\ i - 1 \in a .. b
  BY <1>1, <1>3
<1>9. b \in a .. b
  BY <1>3
<1>10. source[b + 1] \in (Items \cup {"NUL"}) \ S
  <2>1. b + 1 \in 1 .. Len(source) /\ offset + (3 + n) = b + 1
    BY <1>1, <1>2
  <2>2. Peek(3 + n) = source[b + 1]
    BY <2>1 DEF Peek
  <2>3. Peek(3 + n) \notin S
    BY DEF Run
  <2> QED
    BY <1>1, <2>1, <2>2, <2>3
<1> QED
  BY <1>2, <1>4, <1>7, <1>8, <1>9, <1>10 DEF Body

\* In a neat text a `/' begins a block comment.
LEMMA SlashText == ASSUME TInv, Neat(source), IInv', Slash PROVE TextInv'
<1>1. At("/") /\ pc = "scan" /\ Peek(1) = "/" /\ IInv /\ "/" \in Items /\ "'" \in Items
  BY DEF Slash, At, TInv, SInv, Items
<1>2. offset \in Nat /\ Len(source) \in Nat /\ offset + 1 < Len(source)
  BY <1>1, AtInside DEF IInv, TypeOK
<1>3. source[offset + 1] = "/" /\ Modes(source)[offset + 1] = "slash"
  BY <1>1, FreshMode
<1>4. Peek(2) = "'" /\ source[offset + 2] = "'" /\ Modes(source)[offset + 2] = "block"
  <2>1. source[offset + 2] = "'"
    BY <1>1, <1>2, <1>3, SecondMode DEF Neat
  <2> QED
    BY <1>1, <1>2, <1>3, <2>1, SecondMode DEF Mode
<1>5. PICK n \in Lengths : Run(3, Items \ {"'"}, n) /\ Skip(2 + n) /\ lineno' = lineno
  BY <1>4 DEF Slash
<1>6. n \in Nat /\ 2 + n \in Nat /\ offset + 2 < Len(source)
  BY <1>1, <1>2, <1>4, <1>5, PeekItem DEF Lengths
<1> DEFINE b == offset + (2 + n)
<1>7. \A c \in Items \ {"'"} : Mode("block", c) = "block"
  BY ItemFacts DEF Mode
<1>8. /\ b < Len(source)
      /\ \A i \in offset + 3 .. b : /\ source[i] \in Items \ {"'"}
                                    /\ Modes(source)[i] = "block" /\ Modes(source)[i - 1] = "block"
      /\ Modes(source)[b] = "block"
      /\ source[b + 1] \in (Items \cup {"NUL"}) \ (Items \ {"'"})
  <2>1. Items \ {"'"} \in SUBSET Items
    OBVIOUS
  <2>2. Body(Items \ {"'"}, n, "block")
    BY <1>1, <1>4, <1>5, <1>6, <1>7, <2>1, CommentRun
  <2> QED
    BY <2>2 DEF Body
<1>9. Ready(source, b)
  BY <1>8 DEF Ready
<1>10. CommentIn(source, offset + 1) /\ ~EndsIn(source, offset + 1) /\ ~CountedIn(source, offset + 1)
  <2>1. Modes(source)[(offset + 1) + 1] = "block"
    BY <1>1, <1>2, <1>4, SecondMode
  <2> QED
    BY <1>3, <2>1 DEF CommentIn, EndsIn, CountedIn, EndsLine
<1>11. CommentIn(source, offset + 2) /\ ~EndsIn(source, offset + 2) /\ ~CountedIn(source, offset + 2)
  BY <1>4 DEF CommentIn, EndsIn, CountedIn, EndsLine
<1>12. \A i \in offset + 3 .. b : CommentIn(source, i) /\ ~EndsIn(source, i) /\ ~CountedIn(source, i)
  BY <1>8 DEF CommentIn, EndsIn, CountedIn, EndsLine
<1>13. \A i \in offset + 1 .. b : i \in {offset + 1, offset + 2} \/ i \in offset + 3 .. b
  BY <1>2, <1>6
<1>14. \A i \in offset + 1 .. b : CommentIn(source, i) /\ ~EndsIn(source, i) /\ ~CountedIn(source, i)
  BY <1>10, <1>11, <1>12, <1>13
<1> QED
  BY <1>1, <1>5, <1>6, <1>8, <1>9, <1>14, SkipKeeps

\* An apostrophe ends the block comment it stands in, or begins a line comment.
LEMMA ApostropheText == ASSUME TInv, Neat(source), IInv', Apostrophe PROVE TextInv'
<1>1. At("'") /\ pc = "scan" /\ Peek(1) = "'" /\ IInv /\ "/" \in Items /\ "'" \in Items
  BY DEF Apostrophe, At, TInv, SInv, Items
<1>2. offset \in Nat /\ Len(source) \in Nat /\ offset + 1 < Len(source)
  BY <1>1, AtInside DEF IInv, TypeOK
<1>3. source[offset + 1] = "'" /\ Modes(source)[offset] # "line"
      /\ Modes(source)[offset + 1] = IF Modes(source)[offset] = "block" THEN "apos" ELSE "line"
  BY <1>1, FreshMode
<1>4. /\ offset + 1 \in 1 .. Len(source) /\ (offset + 1) - 1 = offset
      /\ (offset + 1) + 1 = offset + 2 /\ source[offset + 2] = Peek(2)
      /\ Modes(source)[offset + 2] = Mode(Modes(source)[offset + 1], Peek(2))
  BY <1>1, <1>2, SecondMode
<1>5. CommentIn(source, offset + 1) /\ ~EndsIn(source, offset + 1) /\ ~CountedIn(source, offset + 1)
  BY <1>3 DEF CommentIn, EndsIn, CountedIn, EndsLine
<1>6. CASE Modes(source)[offset + 1] = "apos"
  <2>1. Peek(2) = "/" /\ source[offset + 2] = "/"
    BY <1>4, <1>6 DEF Neat
  <2>2. Modes(source)[offset + 2] = "closed"
    BY <1>4, <1>6, <2>1 DEF Mode
  <2>3. Skip(2) /\ lineno' = lineno /\ offset + 2 < Len(source)
    BY <1>1, <2>1, PeekItem DEF Apostrophe
  <2>4. CommentIn(source, offset + 2) /\ ~EndsIn(source, offset + 2) /\ ~CountedIn(source, offset + 2)
    BY <2>1, <2>2 DEF CommentIn, EndsIn, CountedIn, EndsLine
  <2>5. \A i \in offset + 1 .. offset + 2 : i \in {offset + 1, offset + 2}
    BY <1>2
  <2>6. \A i \in offset + 1 .. offset + 2 :
            CommentIn(source, i) /\ ~EndsIn(source, i) /\ ~CountedIn(source, i)
    BY <1>5, <2>4, <2>5
  <2>7. Ready(source, offset + 2)
    BY <2>2 DEF Ready
  <2> QED
    BY <1>1, <2>3, <2>6, <2>7, SkipKeeps
<1>7. CASE Modes(source)[offset + 1] = "line"
  <2>1. Peek(2) \notin {"/", "LF", "NUL"}
    BY <1>3, <1>4, <1>7 DEF Neat
  <2>2. Modes(source)[offset + 2] = "line"
    BY <1>4, <1>7, <2>1 DEF Mode
  <2>3. PICK n \in Lengths : Run(3, Items \ {"LF"}, n) /\ Skip(2 + n) /\ lineno' = lineno
    BY <2>1 DEF Apostrophe
  <2>4. n \in Nat /\ 2 + n \in Nat /\ offset + 2 < Len(source)
    <3>1. n \in Nat /\ 2 + n \in Nat
      BY <1>2, <2>3 DEF Lengths
    <3> QED
      BY <1>1, <1>2, <1>4, <2>1, <3>1 DEF IInv, Terminated
  <2> DEFINE b == offset + (2 + n)
  <2>5. \A c \in Items \ {"LF"} : Mode("line", c) = "line"
    BY ItemFacts DEF Mode
  <2>6. /\ b < Len(source)
        /\ \A i \in offset + 3 .. b : /\ source[i] \in Items \ {"LF"}
                                      /\ Modes(source)[i] = "line" /\ Modes(source)[i - 1] = "line"
        /\ Modes(source)[b] = "line"
        /\ source[b + 1] \in (Items \cup {"NUL"}) \ (Items \ {"LF"})
    <3>1. Items \ {"LF"} \in SUBSET Items
      OBVIOUS
    <3>2. Body(Items \ {"LF"}, n, "line")
      BY <1>1, <2>2, <2>3, <2>4, <2>5, <3>1, CommentRun
    <3> QED
      BY <3>2 DEF Body
  <2>7. Ready(source, b)
    BY <2>6 DEF Ready
  <2>8. CommentIn(source, offset + 2) /\ ~EndsIn(source, offset + 2) /\ ~CountedIn(source, offset + 2)
    <3>1. Modes(source)[(offset + 2) - 1] = "line"
      BY <1>1, <1>2, <1>7, SecondMode
    <3> QED
      BY <1>4, <2>1, <2>2, <3>1 DEF CommentIn, EndsIn, CountedIn, EndsLine
  <2>9. \A i \in offset + 3 .. b : CommentIn(source, i) /\ ~EndsIn(source, i) /\ ~CountedIn(source, i)
    BY <2>6 DEF CommentIn, EndsIn, CountedIn, EndsLine
  <2>10. \A i \in offset + 1 .. b : i \in {offset + 1, offset + 2} \/ i \in offset + 3 .. b
    BY <1>2, <2>4
  <2>11. \A i \in offset + 1 .. b : CommentIn(source, i) /\ ~EndsIn(source, i) /\ ~CountedIn(source, i)
    BY <1>5, <2>8, <2>9, <2>10
  <2> QED
    BY <1>1, <2>3, <2>4, <2>6, <2>7, <2>11, SkipKeeps
<1> QED
  BY <1>3, <1>6, <1>7

-----------------------------------------------------------------------------
(* Strings and numbers, in the text.                                       *)

\* An exclamation mark is an operator, or begins a string.
LEMMA BangText == ASSUME TInv, Neat(source), IInv', Bang PROVE TextInv'
<1>1. At("!") /\ pc = "scan" /\ Peek(1) = "!" /\ IInv /\ "!" \in Items /\ "QUOT" \in Items
  BY DEF Bang, At, TInv, SInv, Items
<1>2. offset \in Nat /\ Len(source) \in Nat /\ offset + 1 < Len(source) /\ start = offset
      /\ TextInv
  BY <1>1, AtInside DEF TInv, SInv, IInv, TypeOK, AtStart
<1>3. source[offset + 1] = "!" /\ Modes(source)[offset + 1] = "bang"
  BY <1>1, FreshMode
<1>4. /\ source[offset + 2] = Peek(2) /\ (offset + 1) + 1 = offset + 2 /\ (offset + 2) - 1 = offset + 1
      /\ Modes(source)[offset + 2] = Mode("bang", Peek(2))
  BY <1>1, <1>2, <1>3, SecondMode
<1>5. CodeIn(source, offset + 1) /\ ~CountedIn(source, offset + 1)
  BY <1>3 DEF CodeIn, CountedIn, EndsIn, EndsLine
<1>6. CASE Peek(2) = "QUOT"
  <2>1. GoOn("string", 2) /\ lineno' = lineno
    BY <1>6 DEF Bang
  <2>2. Modes(source)[offset + 2] = "string" /\ source[offset + 2] = "QUOT"
    BY <1>4, <1>6 DEF Mode
  <2>3. CodeIn(source, offset + 2) /\ ~CountedIn(source, offset + 2)
    BY <2>2 DEF CodeIn, CountedIn, EndsIn, EndsLine
  <2>4. \A i \in offset + 1 .. offset + 2 : i \in {offset + 1, offset + 2}
    BY <1>2
  <2>5. lineno' = LineAt(source, offset + 2)
    <3>1. lineno = LineAt(source, offset)
      BY <1>1, <1>2 DEF TextInv, OnLine
    <3>2. \A i \in offset + 1 .. offset + 2 : ~CountedIn(source, i)
      BY <1>5, <2>3, <2>4
    <3> QED
      BY <1>2, <2>1, <3>1, <3>2, LineStays
  <2>6. \A i \in start + 1 .. offset + 2 : CodeIn(source, i)
    BY <1>2, <1>5, <2>3, <2>4
  <2> QED
    BY <1>1, <2>1, <2>2, <2>5, <2>6, GoOnKeeps
<1>7. CASE Peek(2) # "QUOT"
  <2>1. Return("OP_NOT", 1, 0) /\ lineno' = lineno
    BY <1>7 DEF Bang, Token
  <2>2. Ready(source, offset + 1)
    BY <1>3, <1>4, <1>7 DEF Ready
  <2>3. \A i \in offset + 1 .. offset + 1 : i = offset + 1
    BY <1>2
  <2>4. start # offset + 1 /\ offset + 1 <= Len(source)
    BY <1>2
  <2> QED
    BY <1>1, <1>2, <1>5, <2>1, <2>2, <2>3, <2>4, TokenKeeps
<1> QED
  BY <1>6, <1>7

\* A string that goes on by k items, none of which is the NUL.
LEMMA StringAhead ==
    ASSUME TInv, Neat(source), IInv', pc = "string", NEW k \in Nat \ {0},
           offset + k <= Len(source), Inside, GoOn("string", k),
           \A i \in offset + 1 .. offset + k : Modes(source)[i] \in {"string", "escape"},
           Modes(source)[offset + k] = "string",
           lineno' = LineAt(source, offset + k)
    PROVE  TextInv'
<1>1. offset \in Nat /\ start \in Nat
  BY DEF TInv, SInv, IInv, TypeOK
<1>2. \A i \in offset + 1 .. offset + k : CodeIn(source, i)
  BY DEF CodeIn
<1>3. \A i \in start + 1 .. offset : CodeIn(source, i)
  BY DEF Inside
<1>4. \A i \in start + 1 .. offset + k : i \in start + 1 .. offset \/ i \in offset + 1 .. offset + k
  BY <1>1
<1>5. \A i \in start + 1 .. offset + k : CodeIn(source, i)
  BY <1>2, <1>3, <1>4
<1> QED
  BY <1>5, GoOnKeeps

\* A turn of the loop of scan_string.
LEMMA StringText == ASSUME TInv, Neat(source), IInv', scan_string PROVE TextInv'
<1>1. /\ pc = "string" /\ offset \in Nat /\ start \in Nat /\ Len(source) \in Nat
      /\ start <= offset /\ offset <= Len(source) /\ IInv /\ TextInv
      /\ lineno = LineAt(source, offset)
  <2>1. pc = "string"
    BY DEF scan_string, Escape
  <2> QED
    BY <2>1 DEF TInv, SInv, IInv, TypeOK, TextInv, OnLine
<1>2. CASE Overrun
  BY <1>2, OverrunKeepsText
<1>3. CASE Token("ILLEGAL", 4) /\ Escape /\ "PAST" \notin {Peek(3), Peek(4)}
  <2>1. Return("ILLEGAL", 4, 0) /\ UNCHANGED lineno
    BY <1>3 DEF Token
  <2>2. offset + 4 <= Len(source)
    BY <1>3 DEF Peek
  <2>3. start # offset + 4
    BY <1>1
  <2> QED
    BY <1>1, <2>1, <2>2, <2>3, TokenKeeps
<1>4. ASSUME NEW j \in Nat \ {0}, offset + j <= Len(source)
      PROVE  /\ Peek(j) = source[offset + j] /\ offset + j \in 1 .. Len(source)
             /\ Modes(source)[offset + j] = Mode(Modes(source)[(offset + j) - 1], source[offset + j])
  <2>1. offset + j \in 1 .. Len(source)
    BY <1>1, <1>4
  <2> QED
    BY <1>1, <1>4, <2>1, ModesSteps DEF Peek
<1>5. ASSUME NEW c, Peek(1) = c, c # "PAST"
      PROVE  /\ offset + 1 <= Len(source) /\ source[offset + 1] = c /\ Inside
             /\ Modes(source)[offset + 1] = Mode("string", c)
             /\ (offset + 1) - 1 = offset /\ Modes(source)[offset] = "string"
  <2>1. offset + 1 <= Len(source)
    BY <1>1, <1>5, PeekInside DEF IInv
  <2>2. (offset + 1) - 1 = offset /\ offset # Len(source)
    BY <1>1, <2>1
  <2>3. Inside
    BY <1>1, <2>2 DEF TextInv, Between
  <2>4. Modes(source)[offset] = "string"
    BY <1>1, <2>3 DEF Inside
  <2> QED
    BY <1>4, <1>5, <2>1, <2>2, <2>3, <2>4
<1>6. \A i \in offset + 1 .. offset + 1 : i = offset + 1
  BY <1>1
<1>7. CASE Peek(1) = "QUOT" /\ Token("STRING", 1)
  <2>1. Return("STRING", 1, 0) /\ lineno' = lineno
    BY <1>7 DEF Token
  <2>2. /\ offset + 1 <= Len(source) /\ source[offset + 1] = "QUOT" /\ Inside
        /\ Modes(source)[offset + 1] = "quote"
    BY <1>5, <1>7 DEF Mode
  <2>3. CodeIn(source, offset + 1) /\ ~CountedIn(source, offset + 1)
    BY <2>2 DEF CodeIn, CountedIn, EndsIn, EndsLine
  <2>4. Ready(source, offset + 1)
    BY <2>2 DEF Ready
  <2>5. \A i \in start + 1 .. offset + 1 : CodeIn(source, i)
    <3>1. \A i \in start + 1 .. offset + 1 : i \in start + 1 .. offset \/ i = offset + 1
      BY <1>1
    <3> QED
      BY <2>2, <2>3, <3>1 DEF Inside
  <2>6. start # offset + 1
    BY <1>1
  <2> QED
    BY <1>1, <1>6, <2>1, <2>2, <2>3, <2>4, <2>5, <2>6, TokenKeeps
<1>8. CASE /\ Peek(1) \notin {"QUOT", "BSL", "PAST"} /\ GoOn("string", 1)
           /\ lineno' = IF Peek(1) = "LF" THEN lineno + 1 ELSE lineno
  <2>1. /\ offset + 1 <= Len(source) /\ source[offset + 1] = Peek(1) /\ Inside
        /\ Modes(source)[offset + 1] = Mode("string", Peek(1))
        /\ Modes(source)[(offset + 1) - 1] = "string"
    BY <1>5, <1>8
  <2>2. CountedIn(source, offset + 1) <=> Peek(1) = "LF"
    BY <2>1 DEF CountedIn, EndsIn, EndsLine
  <2>3. lineno' = LineAt(source, offset + 1)
    <3>1. CASE Peek(1) = "LF"
      BY <1>1, <1>8, <2>2, <3>1, LineGrows
    <3>2. CASE Peek(1) # "LF"
      BY <1>1, <1>6, <1>8, <2>2, <3>2, LineStays
    <3> QED
      BY <3>1, <3>2
  <2>4. CASE Peek(1) = "NUL"
    <3>1. offset + 1 = Len(source)
      <4>1. offset + 1 \in 1 .. Len(source) /\ source[offset + 1] = "NUL"
        BY <1>1, <2>1, <2>4
      <4> QED
        BY <1>1, <4>1 DEF IInv, Terminated
    <3> QED
      BY <1>1, <1>8, <2>3, <3>1, GoOnKeeps
  <2>5. CASE Peek(1) # "NUL"
    <3>1. Modes(source)[offset + 1] = "string"
      BY <1>8, <2>1, <2>5 DEF Mode
    <3> QED
      BY <1>1, <1>6, <1>8, <2>1, <2>3, <3>1, StringAhead
  <2> QED
    BY <2>4, <2>5
<1>9. ASSUME Escape, NEW k \in {2, 4}, GoOn("string", k), lineno' = lineno,
             k = 4 => Peek(2) = "x" /\ {Peek(3), Peek(4)} \subseteq Hex
      PROVE  TextInv'
  <2>1. /\ offset + 1 <= Len(source) /\ source[offset + 1] = "BSL" /\ Inside
        /\ Modes(source)[offset + 1] = "escape"
    BY <1>5, <1>9 DEF Escape, Mode
  <2>2. offset + 2 <= Len(source)
    <3>1. source[Len(source)] = "NUL"
      BY <1>1 DEF IInv, Terminated
    <3> QED
      BY <1>1, <2>1, <3>1
  <2>3. /\ Peek(2) = source[offset + 2] /\ (offset + 2) - 1 = offset + 1
        /\ Modes(source)[offset + 2] = Mode("escape", Peek(2))
    <3>1. (offset + 2) - 1 = offset + 1
      BY <1>1
    <3> QED
      BY <1>4, <2>1, <2>2, <3>1
  <2>4. ~CountedIn(source, offset + 1) /\ ~CountedIn(source, offset + 2)
    BY <2>1, <2>3 DEF CountedIn, EndsIn, EndsLine
  <2>5. CASE k = 2
    <3>1. \A i \in offset + 1 .. offset + 2 : i \in {offset + 1, offset + 2}
      BY <1>1
    <3>2. lineno' = LineAt(source, offset + 2)
      <4>1. \A i \in offset + 1 .. offset + 2 : ~CountedIn(source, i)
        BY <2>4, <3>1
      <4> QED
        BY <1>1, <1>9, <4>1, LineStays
    <3>3. CASE Peek(2) = "NUL"
      <4>1. offset + 2 = Len(source)
        <5>1. offset + 2 \in 1 .. Len(source) /\ source[offset + 2] = "NUL"
          BY <1>1, <2>2, <2>3, <3>3
        <5> QED
          BY <1>1, <5>1 DEF IInv, Terminated
      <4> QED
        BY <1>1, <1>9, <2>5, <3>2, <4>1, GoOnKeeps
    <3>4. CASE Peek(2) # "NUL"
      <4>1. Modes(source)[offset + 2] = "string"
        BY <2>3, <3>4 DEF Mode
      <4>2. \A i \in offset + 1 .. offset + 2 : Modes(source)[i] \in {"string", "escape"}
        BY <2>1, <3>1, <4>1
      <4> QED
        BY <1>1, <1>9, <2>1, <2>2, <2>5, <3>2, <4>1, <4>2, StringAhead
    <3> QED
      BY <3>3, <3>4
  <2>6. CASE k = 4
    <3>1. /\ Peek(2) = "x" /\ Peek(3) \in Hex /\ Peek(4) \in Hex /\ offset + 4 <= Len(source)
          /\ Hex \subseteq Items /\ "NUL" \notin Items /\ "PAST" \notin Items
          /\ Hex \cap {"BSL", "QUOT", "NUL", "LF", "CR"} = {}
      <4>1. Peek(2) = "x" /\ Peek(3) \in Hex /\ Peek(4) \in Hex
        BY <1>9, <2>6
      <4>2. Hex \cap {"BSL", "QUOT", "NUL", "LF", "CR"} = {}
        BY DEF Hex, Digits, Digit
      <4>3. offset + 4 <= Len(source)
        BY <4>1, ItemFacts, PeekInside DEF IInv, TInv, SInv
      <4> QED
        BY <4>1, <4>2, <4>3, ItemFacts
    <3>2. Modes(source)[offset + 2] = "string"
      BY <2>3, <3>1 DEF Mode
    <3>3. (offset + 3) - 1 = offset + 2 /\ (offset + 4) - 1 = offset + 3 /\ offset + 3 <= Len(source)
      BY <1>1, <3>1
    <3>4. source[offset + 3] = Peek(3) /\ Modes(source)[offset + 3] = "string"
      <4>1. source[offset + 3] = Peek(3) /\ Modes(source)[offset + 3] = Mode("string", Peek(3))
        BY <1>4, <3>2, <3>3
      <4> QED
        BY <3>1, <4>1 DEF Mode
    <3>5. source[offset + 4] = Peek(4) /\ Modes(source)[offset + 4] = "string"
      <4>1. source[offset + 4] = Peek(4) /\ Modes(source)[offset + 4] = Mode("string", Peek(4))
        BY <1>4, <3>1, <3>3, <3>4
      <4> QED
        BY <3>1, <4>1 DEF Mode
    <3>6. \A i \in offset + 1 .. offset + 4 : i \in {offset + 1, offset + 2, offset + 3, offset + 4}
      BY <1>1
    <3>7. ~CountedIn(source, offset + 3) /\ ~CountedIn(source, offset + 4)
      BY <3>1, <3>4, <3>5 DEF CountedIn, EndsIn, EndsLine
    <3>8. lineno' = LineAt(source, offset + 4)
      <4>1. \A i \in offset + 1 .. offset + 4 : ~CountedIn(source, i)
        BY <2>4, <3>6, <3>7
      <4> QED
        BY <1>1, <1>9, <4>1, LineStays
    <3>9. \A i \in offset + 1 .. offset + 4 : Modes(source)[i] \in {"string", "escape"}
      BY <2>1, <3>2, <3>4, <3>5, <3>6
    <3> QED
      BY <1>1, <1>9, <2>1, <2>6, <3>1, <3>5, <3>8, <3>9, StringAhead
  <2> QED
    BY <2>5, <2>6
<1> QED
  BY <1>2, <1>3, <1>7, <1>8, <1>9 DEF scan_string, Escape

\* The end of a number, whose next item was given back.
LEMMA NumberTokenText ==
    ASSUME TInv, Neat(source), IInv', pc \in {"hex", "int", "double", "expo"}, NumberToken
    PROVE  TextInv'
<1>1. /\ offset \in Nat /\ Len(source) \in Nat /\ start \in Nat /\ offset <= Len(source)
      /\ Inside /\ start # offset
  BY DEF TInv, SInv, IInv, TypeOK, TextInv, Between
<1>2. offset + 0 = offset /\ offset + 1 .. offset + 0 = {}
  BY <1>1
<1>3. \A i \in start + 1 .. offset : CodeIn(source, i)
  BY <1>1 DEF Inside
<1>4. Ready(source, offset)
  BY <1>1 DEF Inside, Ready
<1>5. UNCHANGED lineno /\ Return(num.type, 0, Worth)
  BY DEF NumberToken
<1> QED
  BY <1>1, <1>2, <1>3, <1>4, <1>5, TokenKeeps

\* The first item of a number, with the prefix of a hexadecimal one.
LEMMA StartText == ASSUME TInv, Neat(source), IInv', scan_number PROVE TextInv'
<1>1. pc = "scan" /\ Peek(1) \in Digits
  BY DEF scan_number, Digits
<1>2. Digits \subseteq CodeItems /\ "x" \in CodeItems /\ "x" \in Items
  BY DEF CodeItems, Items, Digits, Digit, Alpha, LineEnds
<1>3. /\ offset \in Nat /\ Len(source) \in Nat /\ start = offset /\ IInv
  BY <1>1 DEF TInv, SInv, IInv, TypeOK, AtStart
<1>4. pc \in Loops
  BY <1>1 DEF Loops
<1>5. CASE Peek(1) = "0" /\ Peek(2) = "x" /\ Peek(3) \in Hex
  <2>1. Number("hex", 2, Zero)
    BY <1>5 DEF scan_number
  <2>2. \A j \in 1 .. 2 : j \in {1, 2}
    OBVIOUS
  <2>3. \A j \in 1 .. 2 : Peek(j) \in CodeItems
    BY <1>1, <1>2, <1>5, <2>2
  <2> QED
    BY <1>4, <2>1, <2>3, CodeNumber
<1>6. CASE Peek(1) = "0" /\ Peek(2) = "x" /\ Peek(3) \notin Hex
  <2>1. Return("ILLEGAL", 3, 0) /\ UNCHANGED lineno
    BY <1>6 DEF scan_number, Token
  <2>2. offset + 2 < Len(source)
    BY <1>2, <1>3, <1>6, PeekItem
  <2>3. start # offset + 3 /\ offset + 3 <= Len(source)
    BY <1>3, <2>2
  <2> QED
    BY <1>1, <2>1, <2>3, TokenKeeps
<1>7. CASE ~(Peek(1) = "0" /\ Peek(2) = "x")
  <2>1. Number("int", 1, [Zero EXCEPT !.n = Digit[Peek(1)]])
    BY <1>7 DEF scan_number
  <2>2. \A j \in 1 .. 1 : Peek(j) \in CodeItems
    BY <1>1, <1>2
  <2> QED
    BY <1>4, <2>1, <2>2, CodeNumber
<1> QED
  BY <1>5, <1>6, <1>7

\* The loops of a number.
LEMMA LoopText ==
    ASSUME TInv, Neat(source), IInv', scan_hex \/ scan_int \/ scan_double \/ scan_expo
    PROVE  TextInv'
<1>1. Digits \subseteq CodeItems /\ Hex \subseteq CodeItems /\ {"_", ".", "e", "+", "-"} \subseteq CodeItems
  BY DEF CodeItems, Items, Hex, Digits, Digit, Alpha, LineEnds
<1>2. pc \in {"hex", "int", "double", "expo"} /\ pc \in Loops
  BY DEF scan_hex, scan_int, scan_double, scan_expo, Loops
<1>3. CASE NumberToken
  BY <1>2, <1>3, NumberTokenText
<1>4. ASSUME NEW q \in {"hex", "int", "double", "expo"}, NEW locals, Peek(1) \in CodeItems,
             Number(q, 1, locals)
      PROVE  TextInv'
  <2>1. \A j \in 1 .. 1 : Peek(j) \in CodeItems
    BY <1>4
  <2> QED
    BY <1>2, <1>4, <2>1, CodeNumber
<1>5. CASE scan_hex
  BY <1>1, <1>2, <1>3, <1>4, <1>5 DEF scan_hex
<1>6. CASE scan_int
  BY <1>1, <1>2, <1>3, <1>4, <1>6 DEF scan_int
<1>7. CASE scan_double
  BY <1>1, <1>2, <1>3, <1>4, <1>7 DEF scan_double
<1>8. CASE scan_expo
  BY <1>1, <1>2, <1>3, <1>4, <1>8 DEF scan_expo
<1> QED
  BY <1>5, <1>6, <1>7, <1>8

-----------------------------------------------------------------------------
(* The theorems about neat texts.                                          *)

\* Before the first item there is nothing to judge.
LEMMA InitTInv == Init => TInv
<1> SUFFICES ASSUME Init PROVE TInv
  OBVIOUS
<1>1. SInv
  BY InitSInv
<1>2. offset = 0 /\ start = 0 /\ pc = "scan" /\ lineno = 1 /\ toks = <<>>
  BY DEF Init
<1>3. TokensBehind /\ LineOpen /\ AllClosed /\ AllOnLine
  <2>1. toks \in Seq(ToSet(toks)) /\ ToSet(toks) = {} /\ Len(toks) = 0 /\ DOMAIN toks = {}
    BY <1>2 DEF ToSet
  <2> QED
    BY <1>2, <2>1 DEF TokensBehind, LineOpen, AllClosed, AllOnLine
<1>4. AllKept
  BY <1>2 DEF AllKept
<1>5. Between /\ OnLine
  <2>1. Len(source) \in Nat
    BY <1>1 DEF SInv, IInv, TypeOK
  <2>2. Modes(source)[0] = "code"
    BY <2>1, ModesSteps
  <2> QED
    BY <1>2, <2>2, LineOne DEF Between, Ready, OnLine
<1> QED
  BY <1>1, <1>3, <1>4, <1>5 DEF TInv, TextInv

\* Every step keeps what is known of the text.
LEMMA NextTInv == TInv /\ [Next]_vars => TInv'
<1> SUFFICES ASSUME TInv, [Next]_vars PROVE TInv'
  OBVIOUS
<1>1. SInv' /\ IInv'
  BY NextSInv DEF TInv, SInv
<1>2. CASE UNCHANGED vars
  BY <1>1, <1>2 DEF vars, TInv, TextInv, TokensBehind, Between, Inside, OnLine, LineOpen, AllKept,
                    AllClosed, AllOnLine
<1>3. source' = source
  BY DEF Next, vars, Blank, Newline, Operator, Slash, Apostrophe, Bang, scan_string, scan_ident, Unknown,
         EndOfSource, scan_number, scan_hex, scan_int, scan_double, scan_expo, Token, NumberToken,
         Number, Return, Skip, GoOn, Overrun
<1>4. CASE Next
  <2> SUFFICES ASSUME Neat(source) PROVE TextInv'
    BY <1>1, <1>3 DEF TInv
  <2> QED
    BY <1>1, <1>4, BlankText, NewlineText, OperatorIsCode, SlashText, ApostropheText, BangText,
       StringText, IdentText, EndText, StartText, LoopText DEF Next
<1> QED
  BY <1>2, <1>4

\* In a neat text no code is lost, and nothing in a comment is taken for code.
THEOREM NoCodeIsLost == Spec => [](Neat(source) => NothingLost)
<1>1. TInv => (Neat(source) => NothingLost)
  BY TextProperties DEF TInv, TextInv
<1> QED
  BY InitTInv, NextTInv, <1>1, PTL DEF Spec

\* In a neat text a line that ends in a name, a literal or `return' gets exactly
\* one semicolon, and no other line does.
THEOREM SemicolonsInserted == Spec => [](Neat(source) => AutoSemicolon)
<1>1. TInv => (Neat(source) => AutoSemicolon)
  BY TextProperties DEF TInv, TextInv
<1> QED
  BY InitTInv, NextTInv, <1>1, PTL DEF Spec

\* In a neat text each token carries the number of the line it ends on.
THEOREM LinesCounted == Spec => [](Neat(source) => LineNumbers)
<1>1. TInv => (Neat(source) => LineNumbers)
  BY TextProperties DEF TInv, TextInv
<1> QED
  BY InitTInv, NextTInv, <1>1, PTL DEF Spec

-----------------------------------------------------------------------------
(* What a text of digits is worth.                                         *)

\* Two functions that go up the same way agree.
Along(f, g, n) == f[0] = g[0] /\ \A i \in 1 .. n : f[i - 1] = g[i - 1] => f[i] = g[i]
Agree(f, g, n) == \A i \in 0 .. n : f[i] = g[i]

LEMMA SameSteps ==
    ASSUME NEW n \in Nat, NEW f, NEW g, Along(f, g, n)
    PROVE  Agree(f, g, n)
<1> DEFINE S == {i \in 0 .. n : f[i] = g[i]}
<1>1. 0 \in S
  BY DEF Along
<1>2. \A i \in 1 .. n : i - 1 \in S => i \in S
  BY DEF Along
<1>3. 0 .. n \subseteq S
  <2> HIDE DEF S
  <2> QED
    BY <1>1, <1>2, UpTo
<1> QED
  BY <1>3 DEF Agree

\* A digit is worth a natural number, hexadecimal or not.
LEMMA DigitFacts == /\ \A c \in Digits : Digit[c] \in Nat
                    /\ \A c \in Hex : HexDigit[c] \in Nat
                    /\ Digits = {"0", "1", "2"} /\ Hex = {"0", "1", "2", "a", "e"}
<1>1. Digits = {"0", "1", "2"}
  BY DEF Digits, Digit
<1>2. \A c \in Digits : Digit[c] \in Nat
  BY <1>1 DEF Digit
<1>3. Hex = {"0", "1", "2", "a", "e"}
  BY <1>1 DEF Hex
<1>4. ASSUME NEW c \in Hex PROVE HexDigit[c] \in Nat
  <2>1. CASE c = "a"
    BY <2>1, <1>3 DEF HexDigit
  <2>2. CASE c = "e"
    BY <2>2, <1>3 DEF HexDigit
  <2>3. CASE c \in Digits
    <3>1. c # "a" /\ c # "e"
      BY <1>1, <2>3
    <3>2. HexDigit[c] = Digit[c]
      BY <3>1 DEF HexDigit
    <3> QED
      BY <1>2, <2>3, <3>2
  <2> QED
    BY <1>1, <1>3, <2>1, <2>2, <2>3
<1> QED
  BY <1>1, <1>2, <1>3, <1>4

\* f goes up like the number s says, as far as its n-th item.
DecimalUpTo(s, n, f) ==
    /\ f \in [0 .. n -> Nat] /\ f[0] = 0
    /\ \A i \in 1 .. n :
         f[i] = IF s[i] \in Digits THEN f[i - 1] * 10 + Digit[s[i]] ELSE f[i - 1]
HexadecimalUpTo(s, n, f) ==
    /\ f \in [0 .. n -> Nat] /\ f[0] = 0
    /\ \A i \in 1 .. n : f[i] = IF i <= 2 THEN 0 ELSE f[i - 1] * 16 + HexDigit[s[i]]

\* The function in Decimal exists.
LEMMA DecimalSteps ==
    ASSUME NEW s, NEW n \in Nat
    PROVE  \E f :
             /\ DecimalUpTo(s, n, f)
             /\ Len(s) = n => Decimal(s) = f[n]
<1> DEFINE G == [i \in 1 .. n |-> [v \in Nat |->
                   IF s[i] \in Digits THEN v * 10 + Digit[s[i]] ELSE v]]
           Def(f) == f = [i \in 0 .. n |->
                            IF i = 0 THEN 0
                            ELSE IF s[i] \in Digits THEN f[i - 1] * 10 + Digit[s[i]] ELSE f[i - 1]]
           F == CHOOSE f : Def(f)
<1>1. \A i \in 1 .. n : \A v \in Nat : G[i][v] \in Nat
  BY DigitFacts
<1>2. \A i \in 1 .. n : \A v \in Nat :
        G[i][v] = IF s[i] \in Digits THEN v * 10 + Digit[s[i]] ELSE v
  OBVIOUS
<1>3. PICK g : g \in [0 .. n -> Nat] /\ g[0] = 0 /\ \A i \in 1 .. n : g[i] = G[i][g[i - 1]]
  <2> HIDE DEF G
  <2> DEFINE N == Nat
             z == 0
  <2>1. z \in N /\ \A i \in 1 .. n : \A v \in N : G[i][v] \in N
    BY <1>1
  <2> HIDE DEF N, z
  <2>2. \E f : Rises(f, n, N, z, G)
    BY <2>1, Recursion, Zenon
  <2> QED
    BY <2>2 DEF N, z, Rises
<1>4. \A i \in 1 .. n : i - 1 \in 0 .. n /\ g[i - 1] \in Nat
  BY <1>3
<1>5. \A i \in 1 .. n : g[i] = IF s[i] \in Digits THEN g[i - 1] * 10 + Digit[s[i]] ELSE g[i - 1]
  <2> HIDE DEF G
  <2> QED
    BY <1>2, <1>3, <1>4
<1>6. Def(g)
  <2>1. \A i \in 0 .. n : i = 0 \/ i \in 1 .. n
    OBVIOUS
  <2>2. \A i \in 1 .. n : i # 0
    OBVIOUS
  <2> QED
    BY <1>3, <1>5, <2>1, <2>2
<1>7. Def(F)
  <2> HIDE DEF G
  <2> QED
    BY <1>6
<1>8. Len(s) = n => Decimal(s) = F[n]
  BY DEF Decimal
<1> HIDE DEF F, G
<1>9. /\ F[0] = 0
      /\ \A i \in 1 .. n : F[i] = IF s[i] \in Digits THEN F[i - 1] * 10 + Digit[s[i]] ELSE F[i - 1]
  BY <1>7
<1>10. \A i \in 0 .. n : F[i] = g[i]
  <2>1. F[0] = g[0] /\ \A i \in 1 .. n : F[i - 1] = g[i - 1] => F[i] = g[i]
    BY <1>3, <1>5, <1>9
  <2>2. Along(F, g, n)
    BY <2>1 DEF Along
  <2>3. Agree(F, g, n)
    BY <2>2, SameSteps, Zenon
  <2> QED
    BY <2>3 DEF Agree
<1>11. n \in 0 .. n
  OBVIOUS
<1> QED
  BY <1>3, <1>5, <1>8, <1>10, <1>11 DEF DecimalUpTo

\* One more digit shifts a number, any other item leaves it.
LEMMA DecimalAppend ==
    ASSUME NEW S, NEW s \in Seq(S), NEW c \in S
    PROVE  /\ Decimal(s) \in Nat
           /\ Decimal(Append(s, c)) = IF c \in Digits THEN Decimal(s) * 10 + Digit[c] ELSE Decimal(s)
<1> DEFINE n == Len(s)
           t == Append(s, c)
<1>1. n \in Nat /\ n + 1 \in Nat /\ Len(t) = n + 1 /\ t[n + 1] = c /\ \A i \in 1 .. n : t[i] = s[i]
  OBVIOUS
<1>0. n \in Nat /\ n + 1 \in Nat
  OBVIOUS
<1> HIDE DEF n, t
<1>2. PICK f :
             /\ DecimalUpTo(s, n, f)
             /\ Len(s) = n => Decimal(s) = f[n]
  BY <1>0, DecimalSteps, Zenon
<1>3. PICK g :
             /\ DecimalUpTo(t, n + 1, g)
             /\ Len(t) = n + 1 => Decimal(t) = g[n + 1]
  BY <1>0, DecimalSteps, Zenon
<1>4. \A i \in 1 .. n : i \in 1 .. n + 1
  BY <1>1
<1>5. \A i \in 0 .. n : f[i] = g[i]
  <2>1. f[0] = g[0] /\ \A i \in 1 .. n : f[i - 1] = g[i - 1] => f[i] = g[i]
    BY <1>1, <1>2, <1>3, <1>4 DEF DecimalUpTo
  <2>2. n \in Nat
    BY <1>0
  <2>3. Along(f, g, n)
    BY <2>1 DEF Along
  <2>4. Agree(f, g, n)
    BY <2>2, <2>3, SameSteps, Zenon
  <2> QED
    BY <2>4 DEF Agree
<1>6. g[n] = f[n] /\ n + 1 \in 1 .. n + 1 /\ (n + 1) - 1 = n /\ f[n] \in Nat
  BY <1>1, <1>2, <1>5 DEF DecimalUpTo
<1> QED
  BY <1>1, <1>2, <1>3, <1>6 DEF n, t, DecimalUpTo

\* Nothing is worth nothing.
LEMMA DecimalEmpty == Decimal(<<>>) = 0
<1>1. Len(<<>>) = 0 /\ 0 \in Nat
  OBVIOUS
<1>2. PICK f : DecimalUpTo(<<>>, 0, f) /\ (Len(<<>>) = 0 => Decimal(<<>>) = f[0])
  BY <1>1, DecimalSteps, Zenon
<1> QED
  BY <1>1, <1>2 DEF DecimalUpTo

\* The function in Hexadecimal exists.
LEMMA HexadecimalSteps ==
    ASSUME NEW s, NEW n \in Nat, \A i \in 3 .. n : s[i] \in Hex
    PROVE  \E f :
             /\ HexadecimalUpTo(s, n, f)
             /\ Len(s) = n => Hexadecimal(s) = f[n]
<1> DEFINE G == [i \in 1 .. n |-> [v \in Nat |-> IF i <= 2 THEN 0 ELSE v * 16 + HexDigit[s[i]]]]
           Def(f) == f = [i \in 0 .. n |-> IF i <= 2 THEN 0 ELSE f[i - 1] * 16 + HexDigit[s[i]]]
           F == CHOOSE f : Def(f)
<1>1. \A i \in 1 .. n : \A v \in Nat : G[i][v] \in Nat
  <2>1. \A i \in 1 .. n : i <= 2 \/ i \in 3 .. n
    OBVIOUS
  <2>2. \A i \in 1 .. n : i <= 2 \/ HexDigit[s[i]] \in Nat
    BY <2>1, DigitFacts
  <2>3. ASSUME NEW i \in 1 .. n, NEW v \in Nat
        PROVE  (IF i <= 2 THEN 0 ELSE v * 16 + HexDigit[s[i]]) \in Nat
    BY <2>2
  <2> QED
    BY <2>3
<1>2. \A i \in 1 .. n : \A v \in Nat : G[i][v] = IF i <= 2 THEN 0 ELSE v * 16 + HexDigit[s[i]]
  OBVIOUS
<1>3. PICK g : g \in [0 .. n -> Nat] /\ g[0] = 0 /\ \A i \in 1 .. n : g[i] = G[i][g[i - 1]]
  <2> HIDE DEF G
  <2> DEFINE N == Nat
             z == 0
  <2>1. z \in N /\ \A i \in 1 .. n : \A v \in N : G[i][v] \in N
    BY <1>1
  <2> HIDE DEF N, z
  <2>2. \E f : Rises(f, n, N, z, G)
    BY <2>1, Recursion, Zenon
  <2> QED
    BY <2>2 DEF N, z, Rises
<1>4. \A i \in 1 .. n : i - 1 \in 0 .. n /\ g[i - 1] \in Nat
  BY <1>3
<1>5. \A i \in 1 .. n : g[i] = IF i <= 2 THEN 0 ELSE g[i - 1] * 16 + HexDigit[s[i]]
  <2> HIDE DEF G
  <2> QED
    BY <1>2, <1>3, <1>4
<1>6. Def(g)
  <2>1. \A i \in 0 .. n : i = 0 \/ i \in 1 .. n
    OBVIOUS
  <2>2. g = [i \in 0 .. n |-> g[i]]
    BY <1>3
  <2>3. \A i \in 0 .. n : g[i] = IF i <= 2 THEN 0 ELSE g[i - 1] * 16 + HexDigit[s[i]]
    BY <1>3, <1>5, <2>1
  <2> QED
    BY <2>2, <2>3
<1>7. Def(F)
  <2> HIDE DEF G
  <2> QED
    BY <1>6
<1>8. Len(s) = n => Hexadecimal(s) = F[n]
  BY DEF Hexadecimal
<1> HIDE DEF F, G
<1>9. F[0] = 0 /\ \A i \in 1 .. n : F[i] = IF i <= 2 THEN 0 ELSE F[i - 1] * 16 + HexDigit[s[i]]
  BY <1>7
<1>10. \A i \in 0 .. n : F[i] = g[i]
  <2>1. F[0] = g[0] /\ \A i \in 1 .. n : F[i - 1] = g[i - 1] => F[i] = g[i]
    BY <1>3, <1>5, <1>9
  <2>2. Along(F, g, n)
    BY <2>1 DEF Along
  <2>3. Agree(F, g, n)
    BY <2>2, SameSteps, Zenon
  <2> QED
    BY <2>3 DEF Agree
<1>11. n \in 0 .. n
  OBVIOUS
<1> QED
  BY <1>3, <1>5, <1>8, <1>10, <1>11 DEF HexadecimalUpTo

\* One more hexadecimal digit behind the prefix; the prefix is worth nothing.
LEMMA HexadecimalNext ==
    ASSUME NEW s, NEW t, NEW n \in Nat
    PROVE  Len(s) = n /\ Len(t) = n + 1 /\ n >= 2 /\ (\A i \in 3 .. n + 1 : t[i] \in Hex)
              /\ (\A i \in 1 .. n : t[i] = s[i])
           => Hexadecimal(s) \in Nat /\ Hexadecimal(t) = Hexadecimal(s) * 16 + HexDigit[t[n + 1]]
<1>1. ASSUME /\ Len(s) = n /\ Len(t) = n + 1 /\ n >= 2 /\ \A i \in 3 .. n + 1 : t[i] \in Hex
             /\ \A i \in 1 .. n : t[i] = s[i]
      PROVE  Hexadecimal(s) \in Nat /\ Hexadecimal(t) = Hexadecimal(s) * 16 + HexDigit[t[n + 1]]
  <2>1. n + 1 \in Nat /\ \A i \in 3 .. n : i \in 3 .. n + 1 /\ i \in 1 .. n
    OBVIOUS
  <2>2. \A i \in 3 .. n : s[i] \in Hex
    BY <1>1, <2>1
  <2>3. \A i \in 3 .. n + 1 : t[i] \in Hex
    BY <1>1
  <2>4. PICK f : HexadecimalUpTo(s, n, f) /\ (Len(s) = n => Hexadecimal(s) = f[n])
    BY <2>2, HexadecimalSteps, Zenon
  <2>5. PICK g : HexadecimalUpTo(t, n + 1, g) /\ (Len(t) = n + 1 => Hexadecimal(t) = g[n + 1])
    BY <2>1, <2>3, HexadecimalSteps, Zenon
  <2>6. f[0] = g[0]
    BY <2>4, <2>5 DEF HexadecimalUpTo
  <2>7. \A i \in 1 .. n : i \in 1 .. n + 1
    OBVIOUS
  <2>8. \A i \in 1 .. n : f[i - 1] = g[i - 1] => f[i] = g[i]
    BY <1>1, <2>4, <2>5, <2>7 DEF HexadecimalUpTo
  <2>9. \A i \in 0 .. n : f[i] = g[i]
    <3>1. Along(f, g, n)
      BY <2>6, <2>8 DEF Along
    <3>2. Agree(f, g, n)
      BY <3>1, SameSteps, Zenon
    <3> QED
      BY <3>2 DEF Agree
  <2>10. g[n] = f[n] /\ n + 1 \in 1 .. n + 1 /\ (n + 1) - 1 = n /\ f[n] \in Nat /\ ~(n + 1 <= 2)
    BY <1>1, <2>4, <2>9 DEF HexadecimalUpTo
  <2> QED
    BY <1>1, <2>4, <2>5, <2>10 DEF HexadecimalUpTo
<1> QED
  BY <1>1

\* The prefix is worth nothing.
LEMMA HexadecimalPrefix == ASSUME NEW s, Len(s) = 2 PROVE Hexadecimal(s) = 0
<1>1. 3 .. 2 = {} /\ 2 \in 1 .. 2 /\ 2 \in Nat /\ 2 <= 2
  OBVIOUS
<1>2. \A i \in 3 .. 2 : s[i] \in Hex
  BY <1>1
<1>3. PICK f : HexadecimalUpTo(s, 2, f) /\ (Len(s) = 2 => Hexadecimal(s) = f[2])
  BY <1>1, <1>2, HexadecimalSteps, Zenon
<1> QED
  BY <1>1, <1>3 DEF HexadecimalUpTo

\* The function in TenTo exists, and a power is ten times the one before.
LEMMA TenToSteps ==
    ASSUME NEW n \in Nat
    PROVE  \E f :
             f \in [0 .. n -> Nat] /\ TenTo(n) = f[n] /\ f[0] = 1 /\ \A i \in 1 .. n : f[i] = 10 * f[i - 1]
<1> DEFINE G == [i \in 1 .. n |-> [v \in Nat |-> 10 * v]]
           Def(f) == f = [i \in 0 .. n |-> IF i = 0 THEN 1 ELSE 10 * f[i - 1]]
           F == CHOOSE f : Def(f)
<1>1. \A i \in 1 .. n : \A v \in Nat : G[i][v] \in Nat
  OBVIOUS
<1>2. \A i \in 1 .. n : \A v \in Nat : G[i][v] = 10 * v
  OBVIOUS
<1>3. PICK g : g \in [0 .. n -> Nat] /\ g[0] = 1 /\ \A i \in 1 .. n : g[i] = G[i][g[i - 1]]
  <2> HIDE DEF G
  <2> DEFINE N == Nat
             z == 1
  <2>1. z \in N /\ \A i \in 1 .. n : \A v \in N : G[i][v] \in N
    BY <1>1
  <2> HIDE DEF N, z
  <2>2. \E f : Rises(f, n, N, z, G)
    BY <2>1, Recursion, Zenon
  <2> QED
    BY <2>2 DEF N, z, Rises
<1>4. \A i \in 1 .. n : i - 1 \in 0 .. n /\ g[i - 1] \in Nat
  BY <1>3
<1>5. \A i \in 1 .. n : g[i] = 10 * g[i - 1]
  <2> HIDE DEF G
  <2> QED
    BY <1>2, <1>3, <1>4
<1>6. Def(g)
  <2>1. \A i \in 0 .. n : i = 0 \/ i \in 1 .. n
    OBVIOUS
  <2>2. \A i \in 1 .. n : i # 0
    OBVIOUS
  <2> QED
    BY <1>3, <1>5, <2>1, <2>2
<1>7. Def(F)
  <2> HIDE DEF G
  <2> QED
    BY <1>6
<1>8. TenTo(n) = F[n]
  BY DEF TenTo
<1> HIDE DEF F, G
<1>9. F[0] = 1 /\ \A i \in 1 .. n : F[i] = 10 * F[i - 1]
  BY <1>7
<1>10. \A i \in 0 .. n : F[i] = g[i]
  <2>1. F[0] = g[0] /\ \A i \in 1 .. n : F[i - 1] = g[i - 1] => F[i] = g[i]
    BY <1>3, <1>5, <1>9
  <2>2. Along(F, g, n)
    BY <2>1 DEF Along
  <2>3. Agree(F, g, n)
    BY <2>2, SameSteps, Zenon
  <2> QED
    BY <2>3 DEF Agree
<1>11. n \in 0 .. n
  OBVIOUS
<1> QED
  BY <1>3, <1>5, <1>8, <1>10, <1>11

\* A power of ten is ten times the one before.
LEMMA TenToGrows == /\ TenTo(0) = 1
                    /\ \A n \in Nat : TenTo(n) \in Nat /\ TenTo(n + 1) = TenTo(n) * 10
<1>1. TenTo(0) = 1
  BY TenToSteps
<1>2. ASSUME NEW n \in Nat PROVE TenTo(n) \in Nat /\ TenTo(n + 1) = TenTo(n) * 10
  <2>1. PICK f :
             f \in [0 .. n -> Nat] /\ TenTo(n) = f[n] /\ f[0] = 1 /\ \A i \in 1 .. n : f[i] = 10 * f[i - 1]
    BY TenToSteps
  <2>a. n + 1 \in Nat
    OBVIOUS
  <2>2. PICK g :
             /\ g \in [0 .. n + 1 -> Nat] /\ TenTo(n + 1) = g[n + 1] /\ g[0] = 1
             /\ \A i \in 1 .. n + 1 : g[i] = 10 * g[i - 1]
    BY <2>a, TenToSteps, Zenon
  <2>3. \A i \in 1 .. n : i \in 1 .. n + 1
    OBVIOUS
  <2>4. \A i \in 0 .. n : f[i] = g[i]
    <3>1. f[0] = g[0] /\ \A i \in 1 .. n : f[i - 1] = g[i - 1] => f[i] = g[i]
      BY <2>1, <2>2, <2>3
    <3>2. Along(f, g, n)
      BY <3>1 DEF Along
    <3>3. Agree(f, g, n)
      BY <3>2, SameSteps, Zenon
    <3> QED
      BY <3>3 DEF Agree
  <2>5. f[n] = g[n] /\ f[n] \in Nat /\ (n + 1) - 1 = n /\ n + 1 \in 1 .. n + 1
    BY <2>1, <2>4
  <2> QED
    BY <2>1, <2>2, <2>5
<1> QED
  BY <1>1, <1>2

\* One more digit is one digit more.
LEMMA DigitsAppend ==
    ASSUME NEW S, NEW s \in Seq(S), NEW c \in S
    PROVE  /\ DigitsIn(s) \in Nat
           /\ DigitsIn(Append(s, c)) = IF c \in Digits THEN DigitsIn(s) + 1 ELSE DigitsIn(s)
<1> DEFINE n == Len(s)
           t == Append(s, c)
           A == {i \in DOMAIN s : s[i] \in Digits}
           B == {i \in DOMAIN t : t[i] \in Digits}
<1>1. /\ n \in Nat /\ DOMAIN s = 1 .. n /\ DOMAIN t = 1 .. n + 1
      /\ t[n + 1] = c /\ \A i \in 1 .. n : t[i] = s[i]
  OBVIOUS
<1>2. \A i \in 1 .. n + 1 : i = n + 1 \/ i \in 1 .. n
  BY <1>1
<1>3. \A i \in 1 .. n : i \in 1 .. n + 1 /\ i # n + 1
  BY <1>1
<1>4. n + 1 \in 1 .. n + 1
  BY <1>1
<1>5. A \subseteq 1 .. n /\ n + 1 \notin A
  BY <1>1
<1>6. B = IF c \in Digits THEN A \cup {n + 1} ELSE A
  <2> HIDE DEF n, t
  <2> QED
    BY <1>1, <1>2, <1>3, <1>4
<1>7. DigitsIn(s) = Cardinality(A) /\ DigitsIn(t) = Cardinality(B)
  BY DEF DigitsIn
<1> HIDE DEF A, B, n, t
<1>8. IsFiniteSet(A) /\ Cardinality(A) \in Nat
  <2>1. IsFiniteSet(1 .. n)
    BY <1>1, FS_Interval
  <2>2. IsFiniteSet(A)
    BY <1>5, <2>1, FS_Subset, Zenon
  <2> QED
    BY <2>2, FS_CardinalityType
<1>9. Cardinality(A \cup {n + 1}) = Cardinality(A) + 1
  BY <1>5, <1>8, FS_AddElement
<1> QED
  BY <1>6, <1>7, <1>8, <1>9 DEF t

\* Nothing holds no digit.
LEMMA DigitsEmpty == DigitsIn(<<>>) = 0
<1>1. {i \in DOMAIN <<>> : <<>>[i] \in Digits} = {}
  OBVIOUS
<1> QED
  BY <1>1, FS_EmptySet DEF DigitsIn

-----------------------------------------------------------------------------
(* The parts of a text.                                                    *)

\* The part before c is as long as c allows.
LEMMA BeforeIs ==
    ASSUME NEW w, NEW c, NEW n \in Nat, Len(w) \in Nat, n <= Len(w),
           \A i \in 1 .. n : w[i] # c, n < Len(w) => w[n + 1] = c
    PROVE  Before(w, c) = SubSeq(w, 1, n)
<1> DEFINE P(m) == (\A i \in 1 .. m : w[i] # c) /\ (m < Len(w) => w[m + 1] = c)
<1>1. n \in 0 .. Len(w) /\ P(n)
  OBVIOUS
<1>2. ASSUME NEW m \in 0 .. Len(w), P(m) PROVE m = n
  <2>1. CASE m < n
    <3>1. m + 1 \in 1 .. n /\ m < Len(w)
      BY <2>1
    <3> QED
      BY <1>2, <3>1
  <2>2. CASE n < m
    <3>1. n + 1 \in 1 .. m /\ n < Len(w)
      BY <2>2
    <3> QED
      BY <1>2, <3>1
  <2> QED
    BY <2>1, <2>2
<1>3. (CHOOSE m \in 0 .. Len(w) : P(m)) = n
  <2> HIDE DEF P
  <2> QED
    BY <1>1, <1>2
<1> QED
  BY <1>3 DEF Before

\* A text without c is all before it.
LEMMA BeforeNone ==
    ASSUME NEW S, NEW c, c \notin S, NEW s \in Seq(S)
    PROVE  Before(s, c) = s /\ After(s, c) = <<>>
<1>1. Len(s) \in Nat /\ Len(s) <= Len(s) /\ \A i \in 1 .. Len(s) : s[i] # c
  OBVIOUS
<1>2. Before(s, c) = SubSeq(s, 1, Len(s))
  <2>1. Len(s) < Len(s) => s[Len(s) + 1] = c
    BY <1>1
  <2> QED
    BY <1>1, <2>1, BeforeIs
<1>3. SubSeq(s, 1, Len(s)) = s
  OBVIOUS
<1>4. SubSeq(s, Len(s) + 2, Len(s)) = <<>>
  OBVIOUS
<1> QED
  BY <1>2, <1>3, <1>4 DEF After

\* A text with c is what is before its first c, c, and what is after it.
LEMMA BeforeFirst ==
    ASSUME NEW S, NEW T, NEW c, c \notin S, NEW s \in Seq(S), NEW t \in Seq(T)
    PROVE  Before(s \o <<c>> \o t, c) = s /\ After(s \o <<c>> \o t, c) = t
<1> DEFINE w == s \o <<c>> \o t
           U == S \cup T \cup {c}
<1>1. s \in Seq(U) /\ t \in Seq(U) /\ <<c>> \in Seq(U) /\ Len(s) \in Nat /\ Len(t) \in Nat
  OBVIOUS
<1>2. /\ w \in Seq(U) /\ Len(w) = Len(s) + 1 + Len(t) /\ w[Len(s) + 1] = c
      /\ \A i \in 1 .. Len(s) : w[i] = s[i]
      /\ \A i \in 1 .. Len(t) : w[Len(s) + 1 + i] = t[i]
  <2> HIDE DEF U
  <2> QED
    BY <1>1
<1> HIDE DEF w, U
<1>3. \A i \in 1 .. Len(s) : s[i] # c
  OBVIOUS
<1>4. Before(w, c) = SubSeq(w, 1, Len(s))
  <2>1. Len(w) \in Nat /\ Len(s) <= Len(w) /\ \A i \in 1 .. Len(s) : w[i] # c
    BY <1>1, <1>2, <1>3
  <2> QED
    BY <1>1, <1>2, <2>1, BeforeIs
<1>5. SubSeq(w, 1, Len(s)) = s
  <2>1. s \in Seq(U) /\ Len(s) <= Len(w) /\ \A i \in 1 .. Len(s) : w[i] = s[i]
    BY <1>1, <1>2
  <2> QED
    BY <1>1, <1>2, <2>1
<1>6. SubSeq(w, Len(s) + 2, Len(w)) = t
  <2>1. /\ SubSeq(w, Len(s) + 2, Len(w)) \in Seq(U) /\ Len(SubSeq(w, Len(s) + 2, Len(w))) = Len(t)
        /\ \A i \in 1 .. Len(t) : SubSeq(w, Len(s) + 2, Len(w))[i] = w[Len(s) + 1 + i]
    BY <1>1, <1>2
  <2> QED
    BY <1>1, <1>2, <2>1, SMTT(30)
<1>7. After(w, c) = t
  BY <1>4, <1>5, <1>6 DEF After
<1> QED
  BY <1>4, <1>5, <1>7 DEF w

-----------------------------------------------------------------------------
(* What scan_number knows of the text it has read.                         *)

\* The items of a number before a point, before an exponent and in one.
Whole == Digits \cup {"_"}
Mantissa == Digits \cup {"_", "."}
Expo  == Digits \cup {"+", "-"}

Locals == [n : Int, e : Int, expo : Int, neg : BOOLEAN, type : {"INT", "DOUBLE"}]
Plain(m, n, e) == m \in Locals /\ m.n = n /\ m.e = e /\ m.expo = 0 /\ m.neg = FALSE

\* What m holds behind the text w, in each of the loops.
HexSoFar(w, m) ==
    /\ w \in Seq(Hex \cup {"x"}) /\ Len(w) >= 2 /\ w[2] = "x"
    /\ \A i \in 3 .. Len(w) : w[i] \in Hex
    /\ Plain(m, Hexadecimal(w), 1)
IntSoFar(w, m) == w \in Seq(Whole) /\ Plain(m, Decimal(w), 1)
DoubleSoFar(w, m) ==
    \E whole \in Seq(Whole) : \E frac \in Seq(Whole) :
        w = whole \o <<".">> \o frac /\ Plain(m, Decimal(w), TenTo(DigitsIn(frac)))
Signed(ex) == \A p \in DOMAIN ex : ex[p] # "+" /\ (ex[p] = "-" => p = 1)
ExpoSoFar(w, m) ==
    \E front \in Seq(Mantissa) : \E ex \in Seq(Expo) :
        /\ w = front \o <<"e">> \o ex
        /\ m \in Locals /\ m.n = Decimal(front) /\ m.e = TenTo(DigitsIn(After(front, ".")))
        /\ Signed(ex) => m.expo = Decimal(ex) /\ (m.neg <=> ex # <<>> /\ ex[1] = "-")

\* A sequence over a set is one over each larger set.
LEMMA SeqWidens == ASSUME NEW S, NEW T, S \subseteq T, NEW s \in Seq(S) PROVE s \in Seq(T)
OBVIOUS

\* An item behind three sequences is behind the last of them.
Behind(S, a, b, d, c) ==
    a \o b \o d \in Seq(S) /\ Append(a \o b \o d, c) = a \o b \o Append(d, c)
LEMMA AppendBehind ==
    ASSUME NEW S, NEW a \in Seq(S), NEW b \in Seq(S), NEW d \in Seq(S), NEW c \in S
    PROVE  Behind(S, a, b, d, c)
<1>1. a \o b \in Seq(S) /\ <<c>> \in Seq(S) /\ a \o b \o d \in Seq(S)
  OBVIOUS
<1>2. PICK p \in Seq(S) : p = a \o b
  BY <1>1
<1>3. PICK q \in Seq(S) : q = <<c>>
  BY <1>1
<1>4. (p \o d) \o q = p \o (d \o q)
  BY ConcatAssociative, SMTT(30)
<1>5. Append(d, c) = d \o q /\ Append(p \o d, c) = (p \o d) \o q
  BY <1>3
<1> QED
  BY <1>1, <1>2, <1>4, <1>5 DEF Behind

\* The locals of scan_number after an assignment to one or two of them.
LEMMA SetN == ASSUME NEW m, NEW n, NEW e, Plain(m, n, e), NEW x \in Int
              PROVE  Plain([m EXCEPT !.n = x], x, e)
BY DEF Plain, Locals
\* Two of them.
LEMMA SetNE == ASSUME NEW m, NEW n, NEW e, Plain(m, n, e), NEW x \in Int, NEW y \in Int
               PROVE  Plain([m EXCEPT !.n = x, !.e = y], x, y)
<1>1. [m EXCEPT !.n = x, !.e = y] \in Locals
  BY DEF Plain, Locals
<1> QED
  BY <1>1 DEF Plain, Locals
\* The type, which worth does not show.
LEMMA SetType == ASSUME NEW m, NEW n, NEW e, Plain(m, n, e)
                 PROVE  Plain([m EXCEPT !.type = "DOUBLE"], n, e)
BY DEF Plain, Locals
\* The exponent.
LEMMA SetExpo ==
    ASSUME NEW m \in Locals, NEW x \in Int
    PROVE  /\ [m EXCEPT !.expo = x] \in Locals /\ [m EXCEPT !.expo = x].expo = x
           /\ [m EXCEPT !.expo = x].n = m.n /\ [m EXCEPT !.expo = x].e = m.e
           /\ [m EXCEPT !.expo = x].neg = m.neg
BY DEF Locals
\* The sign of the exponent.
LEMMA SetNeg ==
    ASSUME NEW m \in Locals
    PROVE  /\ [m EXCEPT !.neg = TRUE] \in Locals /\ [m EXCEPT !.neg = TRUE].neg = TRUE
           /\ [m EXCEPT !.neg = TRUE].n = m.n /\ [m EXCEPT !.neg = TRUE].e = m.e
           /\ [m EXCEPT !.neg = TRUE].expo = m.expo
BY DEF Locals
\* What scan_number starts with.
LEMMA ZeroFacts == Plain(Zero, 0, 1)
BY DEF Zero, Plain, Locals

\* What the parts of a number hold.
LEMMA FigureFacts ==
    /\ "." \notin Whole /\ "e" \notin Mantissa /\ "e" \notin Whole
    /\ "x" \notin Mantissa /\ "x" \notin Expo /\ "x" \notin Whole
    /\ Whole \subseteq Mantissa /\ Digits \subseteq Whole /\ Digits \subseteq Expo
    /\ "_" \in Whole /\ "." \in Mantissa /\ "+" \in Expo /\ "-" \in Expo
    /\ "." \notin Digits /\ "_" \notin Digits /\ "+" \notin Digits /\ "-" \notin Digits
    /\ "e" \notin Digits
BY DigitFacts DEF Whole, Mantissa, Expo

\* A digit, or a `_', in scan_int.
LEMMA IntGoesOn ==
    ASSUME NEW w, NEW m, IntSoFar(w, m), NEW c \in Whole
    PROVE  IntSoFar(Append(w, c), IF c \in Digits THEN [m EXCEPT !.n = @ * 10 + Digit[c]] ELSE m)
<1>1. w \in Seq(Whole) /\ m \in Locals /\ Plain(m, Decimal(w), 1)
  BY DEF IntSoFar, Plain
<1>2. Append(w, c) \in Seq(Whole)
  BY <1>1
<1>3. Decimal(w) \in Nat
      /\ Decimal(Append(w, c)) = IF c \in Digits THEN Decimal(w) * 10 + Digit[c] ELSE Decimal(w)
  BY <1>1, DecimalAppend, Zenon
<1>4. CASE c \in Digits
  <2>1. m.n * 10 + Digit[c] \in Int
    BY <1>1, <1>3, <1>4, DigitFacts DEF Plain
  <2>2. Plain([m EXCEPT !.n = m.n * 10 + Digit[c]], Decimal(Append(w, c)), 1)
    <3>1. Decimal(Append(w, c)) = m.n * 10 + Digit[c]
      BY <1>1, <1>3, <1>4 DEF Plain
    <3>2. PICK x \in Int : x = m.n * 10 + Digit[c]
      BY <2>1
    <3>3. Plain([m EXCEPT !.n = x], x, 1)
      BY <1>1, SetN, Zenon
    <3> QED
      BY <3>1, <3>2, <3>3
  <2> QED
    BY <1>2, <1>4, <2>2 DEF IntSoFar
<1> QED
  BY <1>1, <1>2, <1>3, <1>4 DEF IntSoFar

\* The first digit of a decimal number.
LEMMA IntStarts ==
    ASSUME NEW c \in Digits PROVE IntSoFar(<<c>>, [Zero EXCEPT !.n = Digit[c]])
<1>1. c \in Whole /\ <<>> \in Seq(Whole) /\ Append(<<>>, c) = <<c>>
  <2>1. c \in Whole
    BY FigureFacts
  <2> QED
    BY <2>1
<1>2. Decimal(Append(<<>>, c)) = Decimal(<<>>) * 10 + Digit[c]
  BY <1>1, DecimalAppend, Zenon
<1>3. Decimal(<<c>>) = Digit[c] /\ Digit[c] \in Int
  BY <1>1, <1>2, DecimalEmpty, DigitFacts
<1>4. <<c>> \in Seq(Whole)
  BY <1>1
<1>5. Plain([Zero EXCEPT !.n = Digit[c]], Digit[c], 1)
  BY <1>3, ZeroFacts, SetN, Zenon
<1> QED
  BY <1>3, <1>4, <1>5 DEF IntSoFar

\* The point behind the digits.
LEMMA PointFollows ==
    ASSUME NEW w, NEW m, IntSoFar(w, m)
    PROVE  DoubleSoFar(Append(w, "."), [m EXCEPT !.type = "DOUBLE"])
<1>1. w \in Seq(Whole) /\ Plain(m, Decimal(w), 1)
  BY DEF IntSoFar
<1>2. Append(w, ".") = w \o <<".">> \o <<>> /\ <<>> \in Seq(Whole)
  BY <1>1
<1>3. w \in Seq(Mantissa) /\ "." \in Mantissa
  BY <1>1, FigureFacts, SeqWidens, Zenon
<1>4. Decimal(Append(w, ".")) = Decimal(w)
  BY <1>3, DecimalAppend, FigureFacts, Zenon
<1>5. TenTo(DigitsIn(<<>>)) = 1
  BY TenToGrows, DigitsEmpty
<1>6. Plain([m EXCEPT !.type = "DOUBLE"], Decimal(w), 1)
  BY <1>1, SetType, Zenon
<1>7. Plain([m EXCEPT !.type = "DOUBLE"], Decimal(Append(w, ".")), TenTo(DigitsIn(<<>>)))
  BY <1>4, <1>5, <1>6
<1> QED
  BY <1>1, <1>2, <1>7 DEF DoubleSoFar

\* A digit, or a `_', in scan_double.
LEMMA DoubleGoesOn ==
    ASSUME NEW w, NEW m, DoubleSoFar(w, m), NEW c \in Whole
    PROVE  DoubleSoFar(Append(w, c), IF c \in Digits
                                       THEN [m EXCEPT !.n = @ * 10 + Digit[c], !.e = @ * 10] ELSE m)
<1>1. PICK whole \in Seq(Whole) : \E frac \in Seq(Whole) :
        w = whole \o <<".">> \o frac /\ Plain(m, Decimal(w), TenTo(DigitsIn(frac)))
  BY DEF DoubleSoFar
<1>2. PICK frac \in Seq(Whole) :
        w = whole \o <<".">> \o frac /\ Plain(m, Decimal(w), TenTo(DigitsIn(frac)))
  BY <1>1
<1>3. whole \in Seq(Mantissa) /\ frac \in Seq(Mantissa) /\ c \in Mantissa /\ "." \in Mantissa
  BY FigureFacts, SeqWidens, Zenon
<1>4. w \in Seq(Mantissa) /\ Append(w, c) = whole \o <<".">> \o Append(frac, c)
  <2>1. <<".">> \in Seq(Mantissa)
    BY <1>3
  <2> QED
    <3>1. Behind(Mantissa, whole, <<".">>, frac, c)
      BY <1>3, <2>1, AppendBehind, Zenon
    <3> QED
      BY <1>2, <3>1 DEF Behind
<1>5. Append(frac, c) \in Seq(Whole)
  OBVIOUS
<1>6. Decimal(w) \in Nat
      /\ Decimal(Append(w, c)) = IF c \in Digits THEN Decimal(w) * 10 + Digit[c] ELSE Decimal(w)
  BY <1>3, <1>4, DecimalAppend, Zenon
<1>7. /\ DigitsIn(frac) \in Nat
      /\ DigitsIn(Append(frac, c)) = IF c \in Digits THEN DigitsIn(frac) + 1 ELSE DigitsIn(frac)
  BY DigitsAppend, Zenon
<1>8. TenTo(DigitsIn(frac)) \in Nat
      /\ TenTo(DigitsIn(Append(frac, c)))
          = IF c \in Digits THEN TenTo(DigitsIn(frac)) * 10 ELSE TenTo(DigitsIn(frac))
  BY <1>7, TenToGrows
<1>9. CASE c \in Digits
  <2>1. m.n * 10 + Digit[c] \in Int /\ m.e * 10 \in Int /\ m \in Locals
    <3>1. Digit[c] \in Nat /\ m.n \in Nat /\ m.e \in Nat /\ m \in Locals
      BY <1>2, <1>6, <1>8, <1>9, DigitFacts DEF Plain
    <3> QED
      BY <3>1
  <2>2. Plain([m EXCEPT !.n = m.n * 10 + Digit[c], !.e = m.e * 10],
              Decimal(Append(w, c)), TenTo(DigitsIn(Append(frac, c))))
    <3>1. /\ Decimal(Append(w, c)) = m.n * 10 + Digit[c]
          /\ TenTo(DigitsIn(Append(frac, c))) = m.e * 10
      BY <1>2, <1>6, <1>8, <1>9 DEF Plain
    <3>2. PICK x \in Int : x = m.n * 10 + Digit[c]
      BY <2>1
    <3>3. PICK y \in Int : y = m.e * 10
      BY <2>1
    <3>4. Plain([m EXCEPT !.n = x, !.e = y], x, y)
      BY <1>2, SetNE, Zenon
    <3> QED
      BY <3>1, <3>2, <3>3, <3>4
  <2>3. DoubleSoFar(Append(w, c), [m EXCEPT !.n = m.n * 10 + Digit[c], !.e = m.e * 10])
    BY <1>4, <1>5, <2>2 DEF DoubleSoFar
  <2> QED
    BY <1>9, <2>3
<1>10. CASE c \notin Digits
  <2>1. Plain(m, Decimal(Append(w, c)), TenTo(DigitsIn(Append(frac, c))))
    BY <1>2, <1>6, <1>8, <1>10
  <2> QED
    BY <1>4, <1>5, <1>10, <2>1 DEF DoubleSoFar
<1> QED
  BY <1>9, <1>10

\* A number without exponent, with or without a point.
LEMMA FrontKnown ==
    ASSUME NEW w, NEW m, IntSoFar(w, m) \/ DoubleSoFar(w, m)
    PROVE  w \in Seq(Mantissa) /\ Plain(m, Decimal(w), TenTo(DigitsIn(After(w, "."))))
<1>1. CASE IntSoFar(w, m)
  <2>1. w \in Seq(Whole) /\ Plain(m, Decimal(w), 1)
    BY <1>1 DEF IntSoFar
  <2>2. After(w, ".") = <<>> /\ w \in Seq(Mantissa)
    BY <2>1, FigureFacts, BeforeNone, SeqWidens, Zenon
  <2>3. TenTo(DigitsIn(After(w, "."))) = 1
    BY <2>2, TenToGrows, DigitsEmpty
  <2> QED
    BY <2>1, <2>2, <2>3
<1>2. CASE DoubleSoFar(w, m)
  <2>1. PICK whole \in Seq(Whole) : \E frac \in Seq(Whole) :
          w = whole \o <<".">> \o frac /\ Plain(m, Decimal(w), TenTo(DigitsIn(frac)))
    BY <1>2 DEF DoubleSoFar
  <2>2. PICK frac \in Seq(Whole) :
          w = whole \o <<".">> \o frac /\ Plain(m, Decimal(w), TenTo(DigitsIn(frac)))
    BY <2>1
  <2>3. After(w, ".") = frac
    BY <2>2, FigureFacts, BeforeFirst, Zenon
  <2>4. whole \in Seq(Mantissa) /\ frac \in Seq(Mantissa) /\ "." \in Mantissa
    BY FigureFacts, SeqWidens, Zenon
  <2>5. <<".">> \in Seq(Mantissa)
    BY <2>4
  <2>6. w \in Seq(Mantissa)
    BY <2>2, <2>4, <2>5
  <2> QED
    BY <2>2, <2>3, <2>6
<1> QED
  BY <1>1, <1>2

\* The `e' behind a number with or without a point.
LEMMA ExpoFollows ==
    ASSUME NEW w, NEW m, IntSoFar(w, m) \/ DoubleSoFar(w, m)
    PROVE  ExpoSoFar(Append(w, "e"), m)
<1>1. w \in Seq(Mantissa) /\ Plain(m, Decimal(w), TenTo(DigitsIn(After(w, "."))))
  BY FrontKnown, Zenon
<1>2. Append(w, "e") = w \o <<"e">> \o <<>> /\ <<>> \in Seq(Expo)
  <2>1. PICK S : S = Mantissa \cup {"e"}
    OBVIOUS
  <2>2. w \in Seq(S) /\ "e" \in S
    BY <1>1, <2>1
  <2> QED
    BY <2>2
<1>3. Decimal(<<>>) = 0 /\ m.expo = 0 /\ m.neg = FALSE /\ ~(<<>> # <<>>)
  BY <1>1, DecimalEmpty DEF Plain
<1> QED
  BY <1>1, <1>2, <1>3 DEF ExpoSoFar, Plain

\* What scan_expo does with an item.
ExpoStep(m, c) == IF c \in Digits THEN [m EXCEPT !.expo = @ * 10 + Digit[c]]
                  ELSE IF c = "+" THEN [m EXCEPT !.expo = @ * 10 - 5]
                  ELSE [m EXCEPT !.neg = TRUE]

\* It takes the sign of the exponent, and its digits.
LEMMA ExpoGoesOn ==
    ASSUME NEW w, NEW m, ExpoSoFar(w, m), NEW c \in Expo
    PROVE  ExpoSoFar(Append(w, c), ExpoStep(m, c))
<1> DEFINE Good(front, ex) ==
        /\ w = front \o <<"e">> \o ex
        /\ m \in Locals /\ m.n = Decimal(front) /\ m.e = TenTo(DigitsIn(After(front, ".")))
        /\ Signed(ex) => m.expo = Decimal(ex) /\ (m.neg <=> ex # <<>> /\ ex[1] = "-")
<1>1. PICK front \in Seq(Mantissa) : \E ex \in Seq(Expo) : Good(front, ex)
  BY DEF ExpoSoFar
<1>2. PICK ex \in Seq(Expo) : Good(front, ex)
  BY <1>1
<1>3. PICK exc \in Seq(Expo) : exc = Append(ex, c)
  <2>1. Append(ex, c) \in Seq(Expo)
    OBVIOUS
  <2> QED
    BY <2>1
<1>4. Append(w, c) = front \o <<"e">> \o exc
  <2>1. PICK S : S = Mantissa \cup Expo \cup {"e"}
    OBVIOUS
  <2>2. front \in Seq(S) /\ ex \in Seq(S) /\ c \in S /\ "e" \in S
    BY <2>1
  <2>3. <<"e">> \in Seq(S)
    BY <2>2
  <2>4. w = front \o <<"e">> \o ex
    BY <1>2
  <2>5. Behind(S, front, <<"e">>, ex, c)
    BY <2>2, <2>3, AppendBehind, Zenon
  <2> QED
    BY <1>3, <2>4, <2>5 DEF Behind
<1>5. Decimal(ex) \in Nat
      /\ Decimal(exc) = IF c \in Digits THEN Decimal(ex) * 10 + Digit[c] ELSE Decimal(ex)
  BY <1>3, DecimalAppend, Zenon
<1>6. /\ Len(ex) \in Nat /\ DOMAIN ex = 1 .. Len(ex) /\ DOMAIN exc = 1 .. Len(ex) + 1
      /\ exc # <<>> /\ exc[Len(ex) + 1] = c /\ \A p \in 1 .. Len(ex) : exc[p] = ex[p]
  BY <1>3
<1>7. ex # <<>> <=> 1 <= Len(ex)
  OBVIOUS
<1>8. Signed(exc) => Signed(ex) /\ c # "+" /\ (c = "-" => ex = <<>>)
  <2>1. \A p \in 1 .. Len(ex) : p \in 1 .. Len(ex) + 1
    BY <1>6
  <2>2. Len(ex) + 1 \in 1 .. Len(ex) + 1
    BY <1>6
  <2> QED
    BY <1>6, <1>7, <2>1, <2>2 DEF Signed
<1>9. IF ex = <<>> THEN exc[1] = c ELSE exc[1] = ex[1]
  BY <1>6, <1>7
<1>10. SUFFICES ExpoStep(m, c) \in Locals /\ ExpoStep(m, c).n = m.n /\ ExpoStep(m, c).e = m.e
                /\ (Signed(exc) => ExpoStep(m, c).expo = Decimal(exc)
                                   /\ (ExpoStep(m, c).neg <=> exc[1] = "-"))
  <2>1. exc # <<>>
    BY <1>6
  <2> QED
    BY <1>2, <1>4, <2>1 DEF ExpoSoFar
<1> HIDE DEF Good
<1>11. m \in Locals /\ m.expo \in Int
       /\ (Signed(ex) => m.expo = Decimal(ex) /\ (m.neg <=> ex # <<>> /\ ex[1] = "-"))
  <2>1. m \in Locals
    BY <1>2 DEF Good
  <2>2. m.expo \in Int
    BY <2>1 DEF Locals
  <2> QED
    BY <1>2, <2>1, <2>2 DEF Good
<1>12. CASE c \in Digits
  <2>0. m.expo * 10 + Digit[c] \in Int
    <3>1. Digit[c] \in Int /\ m.expo \in Int
      BY <1>11, <1>12, DigitFacts
    <3> QED
      BY <3>1
  <2>1. PICK x \in Int : x = m.expo * 10 + Digit[c]
    BY <2>0
  <2>2. ExpoStep(m, c) = [m EXCEPT !.expo = x]
    BY <1>12, <2>1 DEF ExpoStep
  <2>3. ExpoStep(m, c) \in Locals /\ ExpoStep(m, c).n = m.n /\ ExpoStep(m, c).e = m.e
        /\ ExpoStep(m, c).expo = x /\ ExpoStep(m, c).neg = m.neg
    BY <1>11, <2>2, SetExpo
  <2>4. c # "-"
    BY <1>12, FigureFacts
  <2>5. Signed(exc) => x = Decimal(exc)
    BY <1>5, <1>8, <1>11, <1>12, <2>1
  <2>6. Signed(exc) => (m.neg <=> exc[1] = "-")
    BY <1>8, <1>9, <1>11, <2>4
  <2> QED
    BY <2>3, <2>5, <2>6
<1>13. CASE c = "+"
  <2>1. PICK x \in Int : x = m.expo * 10 - 5
    BY <1>11
  <2>2. ExpoStep(m, c) = [m EXCEPT !.expo = x]
    BY <1>13, <2>1, FigureFacts DEF ExpoStep
  <2>3. ExpoStep(m, c) \in Locals /\ ExpoStep(m, c).n = m.n /\ ExpoStep(m, c).e = m.e
    BY <1>11, <2>2, SetExpo
  <2> QED
    BY <1>8, <1>13, <2>3
<1>14. CASE c = "-"
  <2>1. ExpoStep(m, c) = [m EXCEPT !.neg = TRUE] /\ c \notin Digits
    BY <1>14, FigureFacts DEF ExpoStep
  <2>2. ExpoStep(m, c) \in Locals /\ ExpoStep(m, c).n = m.n /\ ExpoStep(m, c).e = m.e
        /\ ExpoStep(m, c).expo = m.expo /\ ExpoStep(m, c).neg = TRUE
    BY <1>11, <2>1, SetNeg
  <2>3. Signed(exc) => m.expo = Decimal(exc) /\ exc[1] = "-"
    BY <1>5, <1>8, <1>9, <1>11, <1>14, <2>1
  <2> QED
    BY <2>2, <2>3
<1> QED
  BY <1>12, <1>13, <1>14 DEF Expo

\* The prefix of a hexadecimal number.
LEMMA HexStarts == HexSoFar(<<"0", "x">>, Zero)
<1>1. PICK w : w = <<"0", "x">>
  OBVIOUS
<1>2. "0" \in Hex
  BY DigitFacts
<1>3. w \in Seq(Hex \cup {"x"}) /\ Len(w) = 2 /\ w[2] = "x"
  BY <1>1, <1>2
<1>4. Hexadecimal(w) = 0
  BY <1>3, HexadecimalPrefix
<1>5. \A i \in 3 .. Len(w) : w[i] \in Hex
  BY <1>3
<1> QED
  BY <1>1, <1>3, <1>4, <1>5, ZeroFacts DEF HexSoFar

\* One more digit of it.
LEMMA HexGoesOn ==
    ASSUME NEW w, NEW m, HexSoFar(w, m), NEW c \in Hex
    PROVE  HexSoFar(Append(w, c), [m EXCEPT !.n = @ * 16 + HexDigit[c]])
<1>1. /\ w \in Seq(Hex \cup {"x"}) /\ Len(w) >= 2 /\ w[2] = "x"
      /\ \A i \in 3 .. Len(w) : w[i] \in Hex
      /\ Plain(m, Hexadecimal(w), 1)
  BY DEF HexSoFar
<1>2. PICK wc : wc = Append(w, c)
  OBVIOUS
<1>3. /\ wc \in Seq(Hex \cup {"x"}) /\ Len(w) \in Nat /\ Len(wc) = Len(w) + 1
      /\ wc[Len(w) + 1] = c /\ \A i \in 1 .. Len(w) : wc[i] = w[i]
  BY <1>1, <1>2
<1>4. \A i \in 3 .. Len(w) + 1 : wc[i] \in Hex
  <2>1. \A i \in 3 .. Len(w) + 1 : i = Len(w) + 1 \/ (i \in 3 .. Len(w) /\ i \in 1 .. Len(w))
    BY <1>3
  <2> QED
    BY <1>1, <1>3, <2>1
<1>5. Hexadecimal(w) \in Nat /\ Hexadecimal(wc) = Hexadecimal(w) * 16 + HexDigit[c]
  BY <1>1, <1>3, <1>4, HexadecimalNext
<1>6. m.n = Hexadecimal(w)
  BY <1>1 DEF Plain
<1>7. PICK x \in Int : x = m.n * 16 + HexDigit[c]
  BY <1>5, <1>6, DigitFacts
<1>8. Plain([m EXCEPT !.n = x], x, 1)
  BY <1>1, SetN, Zenon
<1>9. wc[2] = "x" /\ Len(wc) >= 2
  BY <1>1, <1>3
<1>10. HexSoFar(wc, [m EXCEPT !.n = x])
  BY <1>3, <1>4, <1>5, <1>6, <1>7, <1>8, <1>9 DEF HexSoFar
<1> QED
  BY <1>2, <1>7, <1>10

-----------------------------------------------------------------------------
(* What the text of a number says.                                         *)

WorthOf(m) == [n |-> m.n, e |-> m.e, expo |-> IF m.neg THEN 0 - m.expo ELSE m.expo]

\* A number without a plus is worth v if its text can be read.
Valued(w, v) == ~Contains(w, "+") /\ (Contains(w, "x") \/ WellSigned(w)) => v = Value(w)

\* What is to be shown for a text with a front and an exponent.
LEMMA ValueParts ==
    ASSUME NEW w, NEW front, NEW ex, NEW m, ~Contains(w, "x"),
           Before(w, "e") = front, After(w, "e") = ex,
           m.n = Decimal(front), m.e = TenTo(DigitsIn(After(front, "."))),
           Decimal(ex) \in Nat, m.expo = Decimal(ex), m.neg <=> ex # <<>> /\ ex[1] = "-"
    PROVE  WorthOf(m) = Value(w)
<1>1. PICK sign : sign = IF ex # <<>> /\ ex[1] = "-" THEN -1 ELSE 1
  OBVIOUS
<1>2. (IF m.neg THEN 0 - m.expo ELSE m.expo) = sign * Decimal(ex)
  <2>1. CASE ex # <<>> /\ ex[1] = "-"
    BY <1>1, <2>1
  <2>2. CASE ~(ex # <<>> /\ ex[1] = "-")
    BY <1>1, <2>2
  <2> QED
    BY <2>1, <2>2
<1>3. Value(w) = [n |-> Decimal(front), e |-> TenTo(DigitsIn(After(front, "."))),
                  expo |-> sign * Decimal(ex)]
  BY <1>1 DEF Value
<1> QED
  BY <1>2, <1>3 DEF WorthOf

\* An item that is not in the set is not in the sequence.
LEMMA NotThere == ASSUME NEW S, NEW s \in Seq(S), NEW c, c \notin S
                  PROVE  \A i \in 1 .. Len(s) : s[i] # c
OBVIOUS

\* A hexadecimal number.
LEMMA HexValued == ASSUME NEW w, NEW m, HexSoFar(w, m) PROVE Valued(w, WorthOf(m))
<1>1. Len(w) >= 2 /\ w[2] = "x" /\ Plain(m, Hexadecimal(w), 1) /\ Len(w) \in Nat
  BY DEF HexSoFar
<1>2. Contains(w, "x")
  BY <1>1 DEF Contains
<1>3. Value(w) = [n |-> Hexadecimal(w), e |-> 1, expo |-> 0]
  BY <1>2 DEF Value
<1>4. WorthOf(m) = [n |-> Hexadecimal(w), e |-> 1, expo |-> 0]
  BY <1>1 DEF WorthOf, Plain
<1> QED
  BY <1>3, <1>4 DEF Valued

\* A decimal number without exponent.
LEMMA FrontValued ==
    ASSUME NEW w, NEW m, w \in Seq(Mantissa), Plain(m, Decimal(w), TenTo(DigitsIn(After(w, "."))))
    PROVE  Valued(w, WorthOf(m))
<1>1. ~Contains(w, "x")
  <2>1. \A i \in 1 .. Len(w) : w[i] # "x"
    BY FigureFacts, NotThere, Zenon
  <2> QED
    BY <2>1 DEF Contains
<1>2. Before(w, "e") = w /\ After(w, "e") = <<>>
  BY FigureFacts, BeforeNone, Zenon
<1>3. m.n = Decimal(w) /\ m.e = TenTo(DigitsIn(After(w, "."))) /\ m.expo = 0 /\ m.neg = FALSE
  BY DEF Plain
<1>4. PICK ex : ex = <<>>
  OBVIOUS
<1>5. Decimal(ex) \in Nat /\ m.expo = Decimal(ex) /\ (m.neg <=> ex # <<>> /\ ex[1] = "-")
  BY <1>3, <1>4, DecimalEmpty
<1>6. After(w, "e") = ex
  BY <1>2, <1>4
<1>7. WorthOf(m) = Value(w)
  BY <1>1, <1>2, <1>3, <1>5, <1>6, ValueParts
<1> QED
  BY <1>7 DEF Valued

\* One with an exponent.
LEMMA ExpoValued == ASSUME NEW w, NEW m, ExpoSoFar(w, m) PROVE Valued(w, WorthOf(m))
<1> DEFINE Good(front, ex) ==
        /\ w = front \o <<"e">> \o ex
        /\ m \in Locals /\ m.n = Decimal(front) /\ m.e = TenTo(DigitsIn(After(front, ".")))
        /\ Signed(ex) => m.expo = Decimal(ex) /\ (m.neg <=> ex # <<>> /\ ex[1] = "-")
<1>1. PICK front \in Seq(Mantissa) : \E ex \in Seq(Expo) : Good(front, ex)
  BY DEF ExpoSoFar
<1>2. PICK ex \in Seq(Expo) : Good(front, ex)
  BY <1>1
<1> SUFFICES ASSUME ~Contains(w, "+"), Contains(w, "x") \/ WellSigned(w)
             PROVE  WorthOf(m) = Value(w)
  BY DEF Valued
<1>3. w = front \o <<"e">> \o ex
  BY <1>2
<1>4. Before(w, "e") = front /\ After(w, "e") = ex
  <2>1. Before(front \o <<"e">> \o ex, "e") = front /\ After(front \o <<"e">> \o ex, "e") = ex
    BY FigureFacts, BeforeFirst, Zenon
  <2> QED
    BY <1>3, <2>1
<1>5. /\ Len(front) \in Nat /\ Len(ex) \in Nat /\ Len(w) = Len(front) + 1 + Len(ex)
      /\ \A i \in 1 .. Len(front) : w[i] = front[i]
      /\ w[Len(front) + 1] = "e"
      /\ \A p \in 1 .. Len(ex) : w[Len(front) + 1 + p] = ex[p]
  <2>1. PICK S : S = Mantissa \cup Expo \cup {"e"}
    OBVIOUS
  <2>2. front \in Seq(S) /\ ex \in Seq(S) /\ "e" \in S
    BY <2>1
  <2>3. <<"e">> \in Seq(S) /\ Len(<<"e">>) = 1 /\ <<"e">>[1] = "e"
    BY <2>2
  <2> QED
    BY <1>3, <2>2, <2>3
<1>6. ~Contains(w, "x")
  <2>1. \A i \in 1 .. Len(front) : front[i] # "x"
    BY FigureFacts, NotThere, Zenon
  <2>2. \A i \in 1 .. Len(ex) : ex[i] # "x"
    BY FigureFacts, NotThere, Zenon
  <2>3. ASSUME NEW i \in 1 .. Len(w) PROVE w[i] # "x"
    <3>1. CASE i \in 1 .. Len(front)
      BY <1>5, <2>1, <3>1
    <3>2. CASE i = Len(front) + 1
      BY <1>5, <3>2
    <3>3. CASE i > Len(front) + 1
      <4>a. i - (Len(front) + 1) \in 1 .. Len(ex)
            /\ i = Len(front) + 1 + (i - (Len(front) + 1))
        BY <1>5, <3>3
      <4>1. PICK q \in 1 .. Len(ex) : i = Len(front) + 1 + q
        BY <4>a
      <4> QED
        BY <1>5, <2>2, <4>1
    <3> QED
      BY <1>5, <3>1, <3>2, <3>3
  <2> QED
    BY <2>3 DEF Contains
<1>7. \A p \in 1 .. Len(ex) : ex[p] # "+"
  <2>1. \A p \in 1 .. Len(ex) : Len(front) + 1 + p \in 1 .. Len(w)
    BY <1>5
  <2> QED
    BY <1>5, <2>1 DEF Contains
<1>8. \A p \in DOMAIN ex : ex[p] \in {"+", "-"} => p = 1
  BY <1>4, <1>6 DEF WellSigned
<1>9. Signed(ex)
  BY <1>7, <1>8 DEF Signed
<1>10. Decimal(ex) \in Nat
  BY FigureFacts, DecimalAppend, Zenon
<1>11. m.n = Decimal(front) /\ m.e = TenTo(DigitsIn(After(front, ".")))
       /\ m.expo = Decimal(ex) /\ (m.neg <=> ex # <<>> /\ ex[1] = "-")
  BY <1>2, <1>9
<1> HIDE DEF Good
<1> QED
  BY <1>4, <1>6, <1>10, <1>11, ValueParts, Zenon

\* What scan_number knows in each of its loops.
SoFar(p, w, m) ==
    /\ p = "hex" => HexSoFar(w, m)
    /\ p = "int" => IntSoFar(w, m)
    /\ p = "double" => DoubleSoFar(w, m)
    /\ p = "expo" => ExpoSoFar(w, m)
NumberLoops == {"hex", "int", "double", "expo"}

\* So behind each loop the locals are worth what the text says.
LEMMA NumberValued ==
    ASSUME NEW p \in NumberLoops, NEW w, NEW m, SoFar(p, w, m)
    PROVE  Valued(w, WorthOf(m)) /\ m.type \in {"INT", "DOUBLE"}
<1>1. CASE p = "hex"
  <2>1. HexSoFar(w, m)
    BY <1>1 DEF SoFar
  <2> QED
    BY <2>1, HexValued DEF HexSoFar, Plain, Locals
<1>2. CASE p = "int" \/ p = "double"
  <2>1. IntSoFar(w, m) \/ DoubleSoFar(w, m)
    BY <1>2 DEF SoFar
  <2>2. w \in Seq(Mantissa) /\ Plain(m, Decimal(w), TenTo(DigitsIn(After(w, "."))))
    BY <2>1, FrontKnown, Zenon
  <2> QED
    BY <2>2, FrontValued DEF Plain, Locals
<1>3. CASE p = "expo"
  <2>1. ExpoSoFar(w, m)
    BY <1>3 DEF SoFar
  <2>2. m \in Locals
    BY <2>1 DEF ExpoSoFar
  <2> QED
    BY <2>1, <2>2, ExpoValued DEF Locals
<1> QED
  BY <1>1, <1>2, <1>3 DEF NumberLoops

-----------------------------------------------------------------------------
(* The invariant of numbers.                                               *)

\* The text of the token being scanned, as far as it is read.
Read == SubSeq(source, start + 1, offset)
Said(t) == Valued(SubSeq(source, t.from + 1, t.to), t.val)
AllSaid == \A i \in DOMAIN toks : toks[i].type \in {"INT", "DOUBLE"} => Said(toks[i])
InNumber == pc \in NumberLoops => SoFar(pc, Read, num)

NumInv == SInv /\ TokensBehind /\ AllSaid /\ InNumber

\* The next item is read behind the others.
LEMMA ReadGrows ==
    ASSUME TypeOK, offset + 1 <= Len(source)
    PROVE  /\ SubSeq(source, start + 1, offset + 1) = Append(Read, Peek(1))
           /\ start = offset => Read = <<>>
<1>1. /\ offset \in Nat /\ start \in Nat /\ start <= offset /\ Len(source) \in Nat
      /\ source \in Seq(Items \cup {"NUL"}) /\ Peek(1) = source[offset + 1]
  BY DEF TypeOK, Peek
<1>2. PICK S : S = Items \cup {"NUL"}
  OBVIOUS
<1>3. PICK s \in Seq(S) : s = source
  BY <1>1, <1>2
<1>4. PICK a \in Nat : a = start
  BY <1>1
<1>5. PICK b \in Nat : b = offset
  BY <1>1
<1>6. /\ SubSeq(s, a + 1, b) \in Seq(S) /\ Len(SubSeq(s, a + 1, b)) = b - a
      /\ \A i \in 1 .. b - a : SubSeq(s, a + 1, b)[i] = s[a + i]
      /\ SubSeq(s, a + 1, b + 1) \in Seq(S) /\ Len(SubSeq(s, a + 1, b + 1)) = b - a + 1
      /\ \A i \in 1 .. b - a + 1 : SubSeq(s, a + 1, b + 1)[i] = s[a + i]
  BY <1>1, <1>3, <1>4, <1>5
<1>7. s[b + 1] \in S /\ a + (b - a + 1) = b + 1 /\ b - a \in Nat
  BY <1>1, <1>3, <1>4, <1>5
<1>8. SubSeq(s, a + 1, b + 1) = Append(SubSeq(s, a + 1, b), s[b + 1])
  <2>1. PICK u \in Seq(S) : u = SubSeq(s, a + 1, b)
    BY <1>6
  <2>2. PICK v \in Seq(S) : v = SubSeq(s, a + 1, b + 1)
    BY <1>6
  <2>3. PICK n \in Nat : n = b - a
    BY <1>7
  <2>4. PICK c \in S : c = s[b + 1]
    BY <1>7
  <2>5. Len(u) = n /\ Len(v) = n + 1 /\ \A i \in 1 .. n : v[i] = u[i]
    <3>1. \A i \in 1 .. n : i \in 1 .. n + 1
      OBVIOUS
    <3> QED
      BY <1>6, <2>1, <2>2, <2>3, <3>1
  <2>6. v[n + 1] = c
    <3>1. n + 1 \in 1 .. n + 1
      OBVIOUS
    <3> QED
      BY <1>6, <1>7, <2>2, <2>3, <2>4, <3>1
  <2>7. v = Append(u, c)
    BY <2>5, <2>6
  <2> QED
    BY <2>1, <2>2, <2>4, <2>7
<1>9. start = offset => Read = <<>>
  BY <1>1 DEF Read
<1> QED
  BY <1>1, <1>3, <1>4, <1>5, <1>8, <1>9 DEF Read

\* A step that returns no token and is not in a number.
LEMMA QuietMove ==
    ASSUME NumInv, SInv', source' = source, toks' = toks, tok' = tok,
           start' >= start, pc' \notin NumberLoops
    PROVE  NumInv'
<1>1. start \in Nat /\ start' \in Nat
  BY DEF NumInv, SInv, IInv, TypeOK
<1>2. AllSaid' /\ InNumber'
  BY DEF NumInv, AllSaid, Said, InNumber
<1>3. TokensBehind'
  BY <1>1 DEF NumInv, TokensBehind
<1> QED
  BY <1>2, <1>3 DEF NumInv

\* A token that is returned, unless it is a number of another worth.
LEMMA TokenSaid ==
    ASSUME NumInv, SInv', NEW k \in Nat, NEW t, NEW val, Return(t, k, val),
           t \in {"INT", "DOUBLE"} => Valued(SubSeq(source, start + 1, offset + k), val)
    PROVE  NumInv'
<1>1. source' = source /\ pc' \notin NumberLoops
  BY DEF Return, NumberLoops
<1>2. PICK r : /\ r.type = t /\ r.from = start /\ r.to = offset + k
               /\ Len(toks) \in Nat /\ DOMAIN toks = 1 .. Len(toks)
               /\ DOMAIN toks' = 1 .. Len(toks) + 1
               /\ toks'[Len(toks) + 1] = r /\ r.val = val
               /\ \A i \in 1 .. Len(toks) : toks'[i] = toks[i]
  BY TokensGrow DEF NumInv, SInv
<1>3. TokensBehind'
  BY TokensGrow DEF NumInv, SInv
<1>4. t \in {"INT", "DOUBLE"} => Said(r)
  BY <1>2 DEF Said
<1>5. ASSUME NEW i \in DOMAIN toks', toks'[i].type \in {"INT", "DOUBLE"} PROVE Said(toks'[i])
  <2>1. CASE i \in 1 .. Len(toks)
    BY <1>2, <1>5, <2>1 DEF NumInv, AllSaid
  <2>2. CASE i = Len(toks) + 1
    BY <1>2, <1>4, <1>5, <2>2
  <2> QED
    BY <1>2, <2>1, <2>2
<1>6. AllSaid'
  BY <1>1, <1>5 DEF AllSaid, Said
<1> QED
  BY <1>1, <1>3, <1>6 DEF NumInv, InNumber

\* Such are the tokens that are no numbers.
LEMMA OtherToken ==
    ASSUME NumInv, SInv', NEW k \in Nat, NEW t, t \notin {"INT", "DOUBLE"}, Token(t, k)
    PROVE  NumInv'
<1>1. Return(t, k, 0)
  BY DEF Token
<1> QED
  BY <1>1, TokenSaid, Zenon

\* Neither do blanks and comments, strings and what is behind the text say anything.
LEMMA SkipSaid ==
    ASSUME NumInv, SInv', NEW k \in Nat, Skip(k) \/ GoOn("string", k) \/ Overrun PROVE NumInv'
<1>1. offset \in Nat /\ start \in Nat /\ start <= offset
  BY DEF NumInv, SInv, IInv, TypeOK
<1>2. source' = source /\ toks' = toks /\ tok' = tok /\ start' >= start
  BY <1>1 DEF Skip, GoOn, Overrun
<1>3. pc' \notin NumberLoops
  BY DEF Skip, GoOn, Overrun, NumberLoops
<1> QED
  BY <1>2, <1>3, QuietMove

\* A number that goes on.
LEMMA NumberSaid ==
    ASSUME NumInv, SInv', NEW k \in Nat, NEW p \in NumberLoops, NEW m, Number(p, k, m),
           SoFar(p, SubSeq(source, start + 1, offset + k), m)
    PROVE  NumInv'
<1>1. /\ source' = source /\ toks' = toks /\ tok' = tok /\ start' = start /\ offset' = offset + k
      /\ pc' = p /\ num' = m
  BY DEF Number, GoOn
<1>2. AllSaid' /\ TokensBehind'
  BY <1>1 DEF NumInv, AllSaid, Said, TokensBehind
<1>3. InNumber'
  BY <1>1 DEF InNumber, Read
<1> QED
  BY <1>2, <1>3 DEF NumInv

\* A number that ends.
LEMMA NumberEndsSaid == ASSUME NumInv, SInv', pc \in NumberLoops, NumberToken PROVE NumInv'
<1>1. SoFar(pc, Read, num)
  BY DEF NumInv, InNumber
<1>2. Valued(Read, WorthOf(num))
  BY <1>1, NumberValued, Zenon
<1>3. Return(num.type, 0, Worth) /\ Worth = WorthOf(num)
  BY DEF NumberToken, Worth, WorthOf
<1>4. Read = SubSeq(source, start + 1, offset + 0)
  <2>1. offset + 0 = offset
    BY DEF NumInv, SInv, IInv, TypeOK
  <2> QED
    BY <2>1 DEF Read
<1> QED
  BY <1>2, <1>3, <1>4, TokenSaid

-----------------------------------------------------------------------------
(* Steps.                                                                  *)

\* The item read by a loop of a number is in the text.
LEMMA LoopReads ==
    ASSUME NumInv, Peek(1) \in Items
    PROVE  SubSeq(source, start + 1, offset + 1) = Append(Read, Peek(1))
<1>1. IInv /\ TypeOK
  BY DEF NumInv, SInv, IInv
<1>2. offset + 1 < Len(source)
  BY <1>1, PeekItem
<1>3. offset \in Nat /\ Len(source) \in Nat
  BY <1>1 DEF TypeOK
<1>4. offset + 1 <= Len(source)
  BY <1>2, <1>3
<1> QED
  BY <1>1, <1>4, ReadGrows

\* The items of numbers are items.
LEMMA FigureItems == /\ Whole \subseteq Items /\ Expo \subseteq Items /\ Hex \subseteq Items
                     /\ "." \in Items /\ "e" \in Items /\ "x" \in Items
<1>1. {"_", ".", "e", "x", "+", "-"} \subseteq Items
  BY DEF Items, Alpha
<1> QED
  BY <1>1, ItemFacts DEF Whole, Expo

\* A text of two items.
LEMMA TwoItems == ASSUME NEW S, NEW s \in Seq(S), NEW a \in Nat, a + 2 <= Len(s)
                  PROVE  SubSeq(s, a + 1, a + 2) = <<s[a + 1], s[a + 2]>>
<1>1. /\ SubSeq(s, a + 1, a + 2) \in Seq(S) /\ Len(SubSeq(s, a + 1, a + 2)) = 2
      /\ SubSeq(s, a + 1, a + 2)[1] = s[a + 1] /\ SubSeq(s, a + 1, a + 2)[2] = s[a + 2]
  OBVIOUS
<1>2. PICK u \in Seq(S) : u = SubSeq(s, a + 1, a + 2)
  BY <1>1
<1>3. Len(u) = 2 /\ u[1] = s[a + 1] /\ u[2] = s[a + 2]
  BY <1>1, <1>2
<1>4. u = <<s[a + 1], s[a + 2]>>
  BY <1>3
<1> QED
  BY <1>2, <1>4

\* The first digit, or the prefix of a hexadecimal number.
LEMMA StartSaid == ASSUME NumInv, SInv', scan_number PROVE NumInv'
<1>1. pc = "scan" /\ Peek(1) \in Digits
  BY DEF scan_number, Digits
<1>2. /\ start = offset /\ offset \in Nat /\ Len(source) \in Nat /\ TypeOK /\ IInv
      /\ source \in Seq(Items \cup {"NUL"})
  BY <1>1 DEF NumInv, SInv, AtStart, IInv, TypeOK
<1>3. Peek(1) \in Items
  BY <1>1, ItemFacts
<1>4. SubSeq(source, start + 1, offset + 1) = <<Peek(1)>>
  <2>1. Read = <<>> /\ SubSeq(source, start + 1, offset + 1) = Append(Read, Peek(1))
    <3>1. offset + 1 < Len(source)
      BY <1>2, <1>3, PeekItem
    <3> QED
      BY <1>2, <3>1, ReadGrows
  <2> QED
    BY <2>1
<1>5. CASE Peek(1) = "0" /\ Peek(2) = "x" /\ Peek(3) \in Hex
  <2>1. Number("hex", 2, Zero)
    BY <1>5 DEF scan_number
  <2>2. offset + 2 < Len(source)
    BY <1>2, <1>5, FigureItems, PeekItem
  <2>3. SubSeq(source, start + 1, offset + 2) = <<"0", "x">>
    <3>1. source[offset + 1] = "0" /\ source[offset + 2] = "x"
      BY <1>2, <1>5, <2>2 DEF Peek
    <3>2. offset + 2 <= Len(source)
      BY <1>2, <2>2
    <3>3. SubSeq(source, offset + 1, offset + 2) = <<source[offset + 1], source[offset + 2]>>
      BY <1>2, <3>2, TwoItems
    <3> QED
      BY <1>2, <3>1, <3>3
  <2>4. SoFar("hex", <<"0", "x">>, Zero) /\ "hex" \in NumberLoops
    BY HexStarts DEF SoFar, NumberLoops
  <2> QED
    BY <2>1, <2>3, <2>4, NumberSaid
<1>6. CASE Peek(1) = "0" /\ Peek(2) = "x" /\ Peek(3) \notin Hex
  <2>1. Token("ILLEGAL", 3)
    BY <1>6 DEF scan_number
  <2> QED
    BY <2>1, OtherToken
<1>7. CASE ~(Peek(1) = "0" /\ Peek(2) = "x")
  <2>1. Number("int", 1, [Zero EXCEPT !.n = Digit[Peek(1)]])
    BY <1>7 DEF scan_number
  <2>2. IntSoFar(<<Peek(1)>>, [Zero EXCEPT !.n = Digit[Peek(1)]])
    BY <1>1, IntStarts
  <2>3. SoFar("int", <<Peek(1)>>, [Zero EXCEPT !.n = Digit[Peek(1)]]) /\ "int" \in NumberLoops
    BY <2>2 DEF SoFar, NumberLoops
  <2> QED
    BY <1>4, <2>1, <2>3, NumberSaid
<1> QED
  BY <1>5, <1>6, <1>7

\* A turn of one of the loops.
LEMMA LoopSaid ==
    ASSUME NumInv, SInv', scan_hex \/ scan_int \/ scan_double \/ scan_expo PROVE NumInv'
<1>1. pc \in NumberLoops /\ SoFar(pc, Read, num)
  <2>1. pc \in NumberLoops
    BY DEF scan_hex, scan_int, scan_double, scan_expo, NumberLoops
  <2> QED
    BY <2>1 DEF NumInv, InNumber
<1>2. CASE NumberToken
  BY <1>1, <1>2, NumberEndsSaid
<1>3. ASSUME NEW p \in NumberLoops, NEW m, Number(p, 1, m), Peek(1) \in Items,
             SoFar(p, Append(Read, Peek(1)), m)
      PROVE  NumInv'
  BY <1>3, LoopReads, NumberSaid
<1>4. CASE scan_hex
  <2>1. HexSoFar(Read, num)
    BY <1>1, <1>4 DEF scan_hex, SoFar
  <2>2. CASE Peek(1) \in Hex
    <3>1. Number("hex", 1, [num EXCEPT !.n = @ * 16 + HexDigit[Peek(1)]])
      BY <1>4, <2>2 DEF scan_hex
    <3>2. HexSoFar(Append(Read, Peek(1)), [num EXCEPT !.n = @ * 16 + HexDigit[Peek(1)]])
      BY <2>1, <2>2, HexGoesOn
    <3>3. SoFar("hex", Append(Read, Peek(1)), [num EXCEPT !.n = @ * 16 + HexDigit[Peek(1)]])
          /\ "hex" \in NumberLoops
      BY <3>2 DEF SoFar, NumberLoops
    <3> QED
      BY <1>3, <2>2, <3>1, <3>3, FigureItems
  <2> QED
    BY <1>2, <1>4, <2>2 DEF scan_hex
<1>5. CASE scan_int
  <2>1. IntSoFar(Read, num)
    BY <1>1, <1>5 DEF scan_int, SoFar
  <2>2. CASE Peek(1) \in Whole
    <3>1. Number("int", 1, IF Peek(1) \in Digits THEN [num EXCEPT !.n = @ * 10 + Digit[Peek(1)]]
                                                  ELSE num)
      <4>1. CASE Peek(1) \in Digits
        BY <1>5, <4>1, FigureFacts DEF scan_int
      <4>2. CASE Peek(1) = "_"
        BY <1>5, <4>2, FigureFacts DEF scan_int
      <4> QED
        BY <2>2, <4>1, <4>2 DEF Whole
    <3>2. IntSoFar(Append(Read, Peek(1)),
                   IF Peek(1) \in Digits THEN [num EXCEPT !.n = @ * 10 + Digit[Peek(1)]] ELSE num)
      BY <2>1, <2>2, IntGoesOn
    <3>3. SoFar("int", Append(Read, Peek(1)),
                IF Peek(1) \in Digits THEN [num EXCEPT !.n = @ * 10 + Digit[Peek(1)]] ELSE num)
          /\ "int" \in NumberLoops
      BY <3>2 DEF SoFar, NumberLoops
    <3> QED
      BY <1>3, <2>2, <3>1, <3>3, FigureItems
  <2>3. CASE Peek(1) = "."
    <3>1. Number("double", 1, [num EXCEPT !.type = "DOUBLE"])
      BY <1>5, <2>3, FigureFacts DEF scan_int
    <3>2. SoFar("double", Append(Read, Peek(1)), [num EXCEPT !.type = "DOUBLE"])
          /\ "double" \in NumberLoops
      BY <2>1, <2>3, PointFollows DEF SoFar, NumberLoops
    <3> QED
      BY <1>3, <2>3, <3>1, <3>2, FigureItems
  <2>4. CASE Peek(1) = "e"
    <3>1. Number("expo", 1, num)
      BY <1>5, <2>4, FigureFacts DEF scan_int
    <3>2. SoFar("expo", Append(Read, Peek(1)), num) /\ "expo" \in NumberLoops
      BY <2>1, <2>4, ExpoFollows DEF SoFar, NumberLoops
    <3> QED
      BY <1>3, <2>4, <3>1, <3>2, FigureItems
  <2>5. CASE Peek(1) \notin Whole /\ Peek(1) # "." /\ Peek(1) # "e"
    BY <1>2, <1>5, <2>5 DEF scan_int, Whole
  <2> QED
    BY <2>2, <2>3, <2>4, <2>5
<1>6. CASE scan_double
  <2>1. DoubleSoFar(Read, num)
    BY <1>1, <1>6 DEF scan_double, SoFar
  <2> DEFINE m == IF Peek(1) \in Digits
                    THEN [num EXCEPT !.n = @ * 10 + Digit[Peek(1)], !.e = @ * 10] ELSE num
  <2>2. CASE Peek(1) \in Whole
    <3>1. Number("double", 1, m)
      <4>1. CASE Peek(1) \in Digits
        BY <1>6, <4>1, FigureFacts DEF scan_double
      <4>2. CASE Peek(1) = "_"
        BY <1>6, <4>2, FigureFacts DEF scan_double
      <4> QED
        BY <2>2, <4>1, <4>2 DEF Whole
    <3>2. DoubleSoFar(Append(Read, Peek(1)), m)
      BY <2>1, <2>2, DoubleGoesOn
    <3> HIDE DEF m
    <3>3. SoFar("double", Append(Read, Peek(1)), m) /\ "double" \in NumberLoops
      BY <3>2 DEF SoFar, NumberLoops
    <3> QED
      BY <1>3, <2>2, <3>1, <3>3, FigureItems
  <2>3. CASE Peek(1) = "e"
    <3>1. Number("expo", 1, num)
      BY <1>6, <2>3, FigureFacts DEF scan_double
    <3>2. SoFar("expo", Append(Read, Peek(1)), num) /\ "expo" \in NumberLoops
      BY <2>1, <2>3, ExpoFollows DEF SoFar, NumberLoops
    <3> QED
      BY <1>3, <2>3, <3>1, <3>2, FigureItems
  <2>4. CASE Peek(1) \notin Whole /\ Peek(1) # "e"
    BY <1>2, <1>6, <2>4 DEF scan_double, Whole
  <2> QED
    BY <2>2, <2>3, <2>4
<1>7. CASE scan_expo
  <2>1. ExpoSoFar(Read, num)
    BY <1>1, <1>7 DEF scan_expo, SoFar
  <2>2. CASE Peek(1) \in Expo
    <3>1. Number("expo", 1, ExpoStep(num, Peek(1)))
      BY <1>7, <2>2, FigureFacts DEF scan_expo, Expo, ExpoStep
    <3>2. ExpoSoFar(Append(Read, Peek(1)), ExpoStep(num, Peek(1)))
      BY <2>1, <2>2, ExpoGoesOn
    <3>3. SoFar("expo", Append(Read, Peek(1)), ExpoStep(num, Peek(1))) /\ "expo" \in NumberLoops
      BY <3>2 DEF SoFar, NumberLoops
    <3> QED
      BY <1>3, <2>2, <3>1, <3>3, FigureItems
  <2>3. CASE Peek(1) \notin Expo
    BY <1>2, <1>7, <2>3 DEF scan_expo, Expo
  <2> QED
    BY <2>2, <2>3
<1> QED
  BY <1>4, <1>5, <1>6, <1>7

\* Every other step.
LEMMA OthersSaid ==
    ASSUME NumInv, SInv', Next, ~scan_number,
           ~(scan_hex \/ scan_int \/ scan_double \/ scan_expo)
    PROVE  NumInv'
<1>1. ASSUME NEW k \in Nat, NEW t, t \notin {"INT", "DOUBLE"}, Token(t, k) PROVE NumInv'
  BY <1>1, OtherToken, Zenon
<1>2. ASSUME NEW k \in Nat, Skip(k) \/ GoOn("string", k) \/ Overrun PROVE NumInv'
  BY <1>2, SkipSaid, Zenon
<1>3. Lengths \subseteq Nat /\ \A n \in Lengths : 2 + n \in Nat
  BY DEF NumInv, SInv, IInv, TypeOK, Lengths
<1>4. {0, 1, 2, 3, 4} \subseteq Nat
  OBVIOUS
<1>5. CASE Blank
  BY <1>2, <1>4, <1>5 DEF Blank
<1>6. CASE Newline
  BY <1>1, <1>2, <1>4, <1>6 DEF Newline
<1>7. CASE Operator
  <2>1. PICK t \in Marks : Token(t, Len(Spelling[t]))
    BY <1>7 DEF Operator
  <2>2. Len(Spelling[t]) \in {1, 2, 3}
    BY OperatorText
  <2>3. t \notin {"INT", "DOUBLE"}
    BY DEF Marks, Spelling
  <2> QED
    BY <1>1, <1>4, <2>1, <2>2, <2>3
<1>8. CASE Slash
  BY <1>1, <1>2, <1>3, <1>4, <1>8 DEF Slash
<1>9. CASE Apostrophe
  BY <1>2, <1>3, <1>4, <1>9 DEF Apostrophe
<1>10. CASE Bang
  BY <1>1, <1>2, <1>4, <1>10 DEF Bang
<1>11. CASE scan_string
  BY <1>1, <1>2, <1>4, <1>11 DEF scan_string
<1>12. CASE scan_ident
  <2>1. PICK n \in Lengths : \E t \in {"ID"} \cup {Keywords[c] : c \in DOMAIN Keywords} : Token(t, n)
    BY <1>12 DEF scan_ident
  <2>2. PICK t \in {"ID"} \cup {Keywords[c] : c \in DOMAIN Keywords} : Token(t, n)
    BY <2>1
  <2>3. \A c \in DOMAIN Keywords : Keywords[c] \notin {"INT", "DOUBLE"}
    BY DEF Keywords
  <2>4. t \notin {"INT", "DOUBLE"}
    BY <2>3
  <2> QED
    BY <1>1, <1>3, <2>2, <2>4
<1>13. CASE Unknown \/ EndOfSource
  BY <1>1, <1>4, <1>13 DEF Unknown, EndOfSource
<1> QED
  BY <1>5, <1>6, <1>7, <1>8, <1>9, <1>10, <1>11, <1>12, <1>13 DEF Next

\* Before the first item no number is read.
LEMMA InitNumInv == Init => NumInv
<1> SUFFICES ASSUME Init PROVE NumInv
  OBVIOUS
<1>1. SInv
  BY InitSInv
<1>2. start = 0 /\ pc = "scan" /\ toks = <<>>
  BY DEF Init
<1>3. toks \in Seq(ToSet(toks)) /\ ToSet(toks) = {} /\ Len(toks) = 0 /\ DOMAIN toks = {}
  BY <1>2 DEF ToSet
<1> QED
  BY <1>1, <1>2, <1>3 DEF NumInv, TokensBehind, AllSaid, InNumber, NumberLoops

\* Every step keeps what is known of numbers.
LEMMA NextNumInv == NumInv /\ [Next]_vars => NumInv'
<1> SUFFICES ASSUME NumInv, [Next]_vars PROVE NumInv'
  OBVIOUS
<1>1. SInv'
  BY NextSInv DEF NumInv
<1>2. CASE UNCHANGED vars
  BY <1>1, <1>2 DEF vars, NumInv, TokensBehind, AllSaid, Said, InNumber, Read
<1> QED
  BY <1>1, <1>2, StartSaid, LoopSaid, OthersSaid

\* None of the numbers so far has a plus in its text.
NoPlus == \A i \in Numbers : ~Contains(Text(toks[i]), "+")

\* A number is worth what its text says, with its prefix, its point and its
\* exponent, unless scan_expo has taken a plus for a digit.
THEOREM NumbersAreRead == Spec => [](NoPlus => NumberValue)
<1>1. NumInv => (NoPlus => NumberValue)
  <2> SUFFICES ASSUME NumInv, NoPlus, NEW i \in Numbers,
                      Contains(Text(toks[i]), "x") \/ WellSigned(Text(toks[i]))
               PROVE  toks[i].val = Value(Text(toks[i]))
    BY DEF NumberValue
  <2>1. Said(toks[i]) /\ ~Contains(Text(toks[i]), "+")
    BY DEF NumInv, AllSaid, Numbers, NoPlus
  <2> QED
    BY <2>1 DEF Said, Text, Valued
<1> QED
  BY InitNumInv, NextNumInv, <1>1, PTL DEF Spec
=============================================================================
