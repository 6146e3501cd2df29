------------------------- MODULE CodegenTidyProofs --------------------------
(***************************************************************************)
(* What the generator prints of a tidy set of programs: lines, each of one *)
(* instruction with its operands, and no flag left behind.                 *)
(*                                                                         *)
(* The argument: an item of `todo' takes the tracked flags and what the    *)
(* current line still lacks to other flags and another lack, whatever the  *)
(* handlers do in between; the items that a handler puts in the place of a *)
(* visit do together what the visit does.  So what is printed has led from *)
(* a line's start to where the generator stands, and `todo' leads on to a  *)
(* line's start with all context flags taken back.                         *)
(***************************************************************************)
EXTENDS CodegenProofs, Induction

Tracked == FlagNames \ {"label_cont", "int2float"}
Flags   == [Tracked -> Int]
Track(f) == [v \in Tracked |-> f[v]]

\* Flags with one of them changed.
With(f, v, x) == [f EXCEPT ![v] = x]

\* Where the generator stands: its flags, the kinds of token the current line
\* still lacks, and whether a POPS may be printed next (or after this line).
At(f, r, p) == [flag |-> f, rest |-> r, pops |-> p]
Start(f)    == At(f, <<>>, FALSE)

\* No context is being passed.
Calm == {f \in Flags : \A v \in ContextFlags : f[v] = 0}

\* No context a leaf looks at.
Bare == {f \in Flags : f.from_return = 0 /\ f.from_call = 0 /\ f.from_minus = 0 /\ f.args = 0}

Nl == {"nl"}
Instructions == {".IFJcode17", "CREATEFRAME", "PUSHFRAME", "POPFRAME", "RETURN", "DEFVAR", "POPS",
                 "PUSHS", "LABEL", "JUMP", "CALL", "MOVE", "TYPE", "NOT", "INT2FLOAT", "JUMPIFEQ",
                 "JUMPIFNEQ", "ADD", "SUB", "MUL", "DIV", "AND", "OR", "GT"}

\* A token is a line end where nothing is lacking, the instruction of a new line,
\* or the next operand (the line end is the last of them).
Word(x, r, p, r2, p2) ==
    /\ p2 \in BOOLEAN
    /\ \/ r = <<>> /\ x = NL /\ r2 = <<>> /\ p2 = FALSE
       \/ /\ r = <<>> /\ x = Op(x.s) /\ x.s \in Instructions /\ (x.s = "POPS" => p)
          /\ r2 = Operands(x.s) \o <<Nl>> /\ (p2 => x.s \in {"DEFVAR", "CALL"})
       \/ /\ r # <<>> /\ x.k \in Head(r) /\ (x.k = "nl" => x = NL)
          /\ r2 = Tail(r) /\ (p2 => p)

Tokens == Plain \cup {"def", "ref"}

\* A label is the next operand.
Labels(f, g, a, b) ==
    \E r, p : /\ a = At(f, r, p) /\ r # <<>> /\ {"def", "ref"} \subseteq Head(r)
              /\ b = At(g, Tail(r), FALSE)

-----------------------------------------------------------------------------
(* What a visit does.                                                      *)

Kinds(n) ==
    CASE n.type = "INT"    -> {"int"}
      [] n.type = "DOUBLE" -> {"float"}
      [] n.type = "STRING" -> {"string"}
      [] n.type = "ID"     -> Var

\* A leaf is the next operand,
LeafOperand(n, a, b) ==
    \E r, p : \E f \in Bare :
        /\ n.type \in Leaf /\ r # <<>> /\ Kinds(n) \subseteq Head(r)
        /\ a = At(f, r, p) /\ b = At(f, Tail(r), p)

\* one with a sign,
LeafMinus(n, a, b) ==
    \E f \in Calm : \E x \in Int :
        /\ n.type \in {"INT", "DOUBLE"}
        /\ a = At(With(With(f, "not", x), "from_minus", 1), <<Sym, Nl>>, FALSE)
        /\ b = At(With(f, "not", x), <<Nl>>, FALSE)

\* what is returned,
LeafReturned(n, a, b) ==
    \E f \in Calm :
        /\ n.type \in {"INT", "ID"}
        /\ a = At(With(f, "from_return", 1), <<>>, FALSE) /\ b = At(f, <<Nl>>, FALSE)

\* what is called,
LeafCalled(n, a, b) ==
    \E f \in Calm :
        /\ n.type = "ID"
        /\ a = At(With(f, "from_call", 1), <<Label, Nl>>, TRUE) /\ b = At(f, <<Nl>>, TRUE)

\* or an argument, which ends its line.
LeafPassed(n, a, b) ==
    \E f \in Calm :
        /\ n.type = "ID"
        /\ a = At(With(f, "args", 1), <<Sym, Nl>>, FALSE) /\ b = Start(With(f, "args", 1))

\* A unary node prints its mnemonic, later its operand.
UnaryFirst(n, a, b) ==
    \E f \in Calm : /\ TidyUnary(n) /\ a = Start(f)
                    /\ b = At(With(f, "not", 1), <<Var, Sym, Nl>>, FALSE)
UnaryThen(n, a, b) ==
    \E f \in Calm : /\ TidyUnary(n) /\ a = At(With(f, "not", 2), <<Sym, Nl>>, FALSE)
                    /\ b = At(f, <<Nl>>, FALSE)

\* So does an arithmetic one.
BinaryFirst(n, a, b) ==
    \E f \in Calm : /\ TidyArithmetic(n) /\ a = Start(With(f, "bin_op", 1))
                    /\ b = At(With(f, "bin_op", 1), <<Var, Sym, Sym, Nl>>, FALSE)
BinaryThen(n, a, b) ==
    \E f \in Calm : /\ TidyArithmetic(n)
                    /\ a = At(With(f, "bin_op", 2), <<Sym, Sym, Nl>>, FALSE) /\ b = Start(f)

\* A call lacks its line end only.
CallLine(n, a, b) ==
    \E f \in Calm : /\ n \in Nodes /\ TidyCall(n) /\ f.scope = 1
                    /\ a = Start(f) /\ b = At(f, <<Nl>>, TRUE)

\* A condition takes back the flag it was announced by.
IfCondition(n, a, b) ==
    \E f \in Calm : /\ Flat(n, {"OP_EQ", "OP_NEQ", "OP_ASSIGN"})
                    /\ a = Start(With(f, "from_if", 1)) /\ b = Start(f)
LoopCondition(n, a, b) ==
    \E f \in Calm : /\ Flat(n, {"OP_EQ"}) /\ a = Start(With(f, "from_loop", 1))
                    /\ b = Start(With(f, "loop_num", f.loop_num - 1))

Ids  == OfType(Nodes, "ID")
Dims == {n \in Nodes : /\ n.left.type = "DECL" /\ n.left.vec \in Seq(Ids) /\ n.right = Null
                       /\ {"type", "vec"} \subseteq DOMAIN n.left}
Decl(n) == n.type = "DECL" /\ n.vec \in Seq(Ids) /\ {"type", "vec"} \subseteq DOMAIN n

\* Declarations and statements leave everything as it was.
DeclLines(n, a, b) ==
    \E f \in Calm : Decl(n) /\ (a = Start(f) \/ a = Start(With(f, "params", 1))) /\ b = a
DimLines(n, a, b) ==
    \E f \in Calm : /\ n.type = "DIM" /\ n.vec \in Seq(Dims) /\ {"type", "vec"} \subseteq DOMAIN n
                    /\ a = Start(f) /\ b = a
StatementLines(n, a, b) ==
    \E f \in Calm : /\ n \in Nodes /\ n.type # "DIM" /\ TidySimple(n, f.scope = 1)
                    /\ a = Start(f) /\ b = a

Visits(n, a, b) ==
    \/ LeafOperand(n, a, b) \/ LeafMinus(n, a, b) \/ LeafReturned(n, a, b)
    \/ LeafCalled(n, a, b) \/ LeafPassed(n, a, b)
    \/ UnaryFirst(n, a, b) \/ UnaryThen(n, a, b) \/ BinaryFirst(n, a, b) \/ BinaryThen(n, a, b)
    \/ CallLine(n, a, b) \/ IfCondition(n, a, b) \/ LoopCondition(n, a, b)
    \/ DeclLines(n, a, b) \/ DimLines(n, a, b) \/ StatementLines(n, a, b)

\* Parameters are declared and taken from the stack.
ParamLines(vec, a, b) ==
    \E f \in Calm : vec \in Seq({n \in Nodes : Decl(n)}) /\ a = Start(f) /\ b = a

\* What an item of `todo' does.
Effect(x, a, b) ==
    \/ /\ x.k \in Tokens
       /\ \E f, r, p, r2, p2 : a = At(f, r, p) /\ b = At(f, r2, p2) /\ Word(x, r, p, r2, p2)
    \/ /\ x.k = "add"
       /\ \E f, r, p : /\ a = At(f, r, p)
                       /\ b = At(IF x.s \in Tracked THEN With(f, x.s, f[x.s] + x.n) ELSE f, r, p)
    \/ /\ x.k = "set"
       /\ \E f, r, p : /\ a = At(f, r, p)
                       /\ b = At(IF x.s \in Tracked THEN With(f, x.s, x.n) ELSE f, r, p)
    \/ x.k = "typeguard" /\ \E f : a = Start(f) /\ b = a
    \/ x.k = "iftarget" /\ IF a.flag.from_if = 1 THEN Labels(a.flag, With(a.flag, "from_if", 0), a, b)
                                                ELSE b = a
    \/ /\ x.k = "looptarget"
       /\ IF a.flag.from_loop = 1
            THEN Labels(a.flag, With(With(a.flag, "loop_num", a.flag.loop_num - 1), "from_loop", 0), a, b)
            ELSE b = a
    \/ x.k \in {"resifref", "divref", "divdef"} /\ Labels(a.flag, a.flag, a, b)
    \/ x.k = "visit" /\ Visits(x.node, a, b)
    \/ x.k = "params" /\ ParamLines(x.vec, a, b)

-----------------------------------------------------------------------------
(* Lists of items.                                                         *)

\* The items of s, one after the other, lead from a to b.
Leads(s, a, b) ==
    /\ s \in Seq(Elements(s))
    /\ \E st : /\ st[1] = a /\ st[Len(s) + 1] = b
               /\ \A i \in 1 .. Len(s) : Effect(s[i], st[i], st[i + 1])

\* No item leads nowhere else.
LEMMA LeadsNone ==
    ASSUME NEW a
    PROVE  Leads(<<>>, a, a)
<1> DEFINE st == [i \in {1} |-> a]
<1>1. st[1] = a /\ Len(<<>>) = 0 /\ Len(<<>>) + 1 = 1
  OBVIOUS
<1>2. \A i \in 1 .. 0 : Effect(<<>>[i], st[i], st[i + 1])
  OBVIOUS
<1>3. <<>> \in Seq(Elements(<<>>))
  OBVIOUS
<1> HIDE DEF st
<1>4. QED
  BY <1>1, <1>2, <1>3 DEF Leads

\* One list behind another leads on from where the first one leads.
LEMMA LeadsCat ==
    ASSUME NEW s, NEW t, NEW a, NEW b, NEW c, Leads(s, a, b), Leads(t, b, c)
    PROVE  Leads(s \o t, a, c)
<1> DEFINE n == Len(s)
           m == Len(t)
           u == s \o t
<1>1. /\ s \in Seq(Elements(s)) /\ t \in Seq(Elements(t))
  BY DEF Leads
<1>2. PICK sA : /\ sA[1] = a /\ sA[n + 1] = b
                /\ \A i \in 1 .. n : Effect(s[i], sA[i], sA[i + 1])
  BY DEF Leads
<1>3. PICK sB : /\ sB[1] = b /\ sB[m + 1] = c
                /\ \A i \in 1 .. m : Effect(t[i], sB[i], sB[i + 1])
  BY DEF Leads
<1>4. /\ n \in Nat /\ m \in Nat /\ Len(u) = n + m
      /\ \A i \in 1 .. n : u[i] = s[i]
      /\ \A i \in 1 .. m : u[n + i] = t[i]
      /\ u \in Seq(Elements(s) \cup Elements(t))
  <2> DEFINE S == Elements(s)
             T == Elements(t)
  <2>1. s \in Seq(S) /\ t \in Seq(T)
    BY <1>1
  <2> HIDE DEF S, T
  <2>2. /\ u \in Seq(S \cup T) /\ n \in Nat /\ m \in Nat /\ DOMAIN s = 1 .. n /\ DOMAIN t = 1 .. m
        /\ Len(u) = n + m
        /\ \A i \in DOMAIN s : u[i] = s[i]
        /\ \A i \in DOMAIN t : u[n + i] = t[i]
    BY <2>1, CatFacts
  <2>3. QED
    BY <2>2 DEF S, T
<1>5. u \in Seq(Elements(u))
  BY <1>4, OwnElements
<1> DEFINE st == [i \in 1 .. n + m + 1 |-> IF i <= n THEN sA[i] ELSE sB[i - n]]
<1> HIDE DEF n, m, u
<1>6. (\A i \in 1 .. n + 1 : st[i] = sA[i]) /\ (\A i \in 1 .. m + 1 : st[n + i] = sB[i])
  <2>1. \A i \in 1 .. n : st[i] = sA[i]
    BY <1>4
  <2>2. \A i \in 1 .. m + 1 : st[n + i] = sB[i]
    <3>1. TAKE i \in 1 .. m + 1
    <3>2. n + i \in 1 .. n + m + 1 /\ ~(n + i <= n) /\ (n + i) - n = i
      BY <1>4
    <3>3. QED
      BY <3>2
  <2>3. st[n + 1] = sB[1]
    BY <1>4, <2>2
  <2> HIDE DEF st
  <2>4. \A i \in 1 .. n + 1 : i \in 1 .. n \/ i = n + 1
    BY <1>4
  <2>5. QED
    BY <1>2, <1>3, <2>1, <2>2, <2>3, <2>4
<1> HIDE DEF st
<1>7. ASSUME NEW i \in 1 .. n + m PROVE Effect(u[i], st[i], st[i + 1])
  <2>1. CASE i <= n
    <3>1. i \in 1 .. n /\ i \in 1 .. n + 1 /\ i + 1 \in 1 .. n + 1
      BY <1>4, <2>1
    <3>2. QED
      BY <1>2, <1>4, <1>6, <3>1
  <2>2. CASE i > n
    <3> DEFINE j == i - n
    <3>1. j \in 1 .. m /\ j \in 1 .. m + 1 /\ j + 1 \in 1 .. m + 1 /\ n + j = i /\ n + (j + 1) = i + 1
      BY <1>4, <2>2
    <3> HIDE DEF j
    <3>2. u[n + j] = t[j] /\ st[n + j] = sB[j] /\ st[n + (j + 1)] = sB[j + 1]
      BY <1>4, <1>6, <3>1
    <3>3. Effect(t[j], sB[j], sB[j + 1])
      BY <1>3, <3>1
    <3>4. QED
      BY <3>1, <3>2, <3>3
  <2>3. QED
    BY <1>4, <2>1, <2>2
<1>8. st[1] = a /\ st[n + m + 1] = c
  <2>1. 1 \in 1 .. n + 1 /\ m + 1 \in 1 .. m + 1 /\ n + (m + 1) = n + m + 1
    BY <1>4
  <2>2. st[n + (m + 1)] = sB[m + 1]
    BY <1>6, <2>1
  <2>3. QED
    BY <1>2, <1>3, <1>6, <2>1, <2>2
<1>9. Leads(u, a, c)
  BY <1>4, <1>5, <1>7, <1>8 DEF Leads
<1>10. QED
  BY <1>9 DEF u

\* The items behind the first k.
LEMMA BehindFirst ==
    ASSUME NEW S, NEW s \in Seq(S), NEW k \in 0 .. Len(s), NEW m \in Nat, m = Len(s) - k
    PROVE  /\ SubSeq(s, k + 1, Len(s)) \in Seq(S) /\ Len(SubSeq(s, k + 1, Len(s))) = m
           /\ \A i \in 1 .. m : SubSeq(s, k + 1, Len(s))[i] = s[k + i]
<1>1. SubSeq(s, k + 1, Len(s)) \in Seq(S)
  BY SMTT(30)
<1>2. Len(SubSeq(s, k + 1, Len(s))) = m
  BY SMTT(30)
<1>3. \A i \in 1 .. m : SubSeq(s, k + 1, Len(s))[i] = s[k + i]
  BY SMTT(30)
<1>4. QED
  BY <1>1, <1>2, <1>3

\* The first n items of a list lead to where the others go on.
LEMMA LeadsSplit ==
    ASSUME NEW s, NEW a, NEW c, Leads(s, a, c), NEW n \in 0 .. Len(s)
    PROVE  \E b : Leads(SubSeq(s, 1, n), a, b) /\ Leads(SubSeq(s, n + 1, Len(s)), b, c)
<1> DEFINE S == Elements(s)
           m == Len(s) - n
           p == SubSeq(s, 1, n)
           q == SubSeq(s, n + 1, Len(s))
<1>1. s \in Seq(S) /\ Len(s) \in Nat /\ n \in Nat /\ m \in Nat /\ n + m = Len(s)
  BY LenProperties DEF Leads
<1>2. PICK st : /\ st[1] = a /\ st[Len(s) + 1] = c
                /\ \A i \in 1 .. Len(s) : Effect(s[i], st[i], st[i + 1])
  BY DEF Leads
<1>3. /\ p \in Seq(S) /\ Len(p) = n /\ \A i \in 1 .. n : p[i] = s[i]
      /\ q \in Seq(S) /\ Len(q) = m /\ \A i \in 1 .. m : q[i] = s[n + i]
  <2> HIDE DEF S
  <2>1. p \in Seq(S) /\ Len(p) = n /\ \A i \in 1 .. n : p[i] = s[i]
    BY <1>1
  <2>2. q \in Seq(S) /\ Len(q) = m /\ \A i \in 1 .. m : q[i] = s[n + i]
    BY <1>1, BehindFirst, ZenonT(30)
  <2>3. QED
    BY <2>1, <2>2
<1>4. p \in Seq(Elements(p)) /\ q \in Seq(Elements(q))
  <2> HIDE DEF S
  <2>1. QED
    BY <1>3, OwnElements
<1> HIDE DEF S, m, p, q
<1>5. Leads(p, a, st[n + 1])
  <2>1. \A i \in 1 .. Len(p) : Effect(p[i], st[i], st[i + 1])
    <3>1. \A i \in 1 .. n : i \in 1 .. Len(s)
      BY <1>1
    <3>2. QED
      BY <1>2, <1>3, <3>1
  <2>2. QED
    BY <1>2, <1>3, <1>4, <2>1 DEF Leads
<1>6. Leads(q, st[n + 1], c)
  <2> DEFINE next == [i \in 1 .. m + 1 |-> st[n + i]]
  <2>1. \A i \in 1 .. m + 1 : next[i] = st[n + i]
    OBVIOUS
  <2> HIDE DEF next
  <2>2. next[1] = st[n + 1] /\ next[m + 1] = c
    <3>1. 1 \in 1 .. m + 1 /\ m + 1 \in 1 .. m + 1 /\ n + (m + 1) = Len(s) + 1
      BY <1>1
    <3>2. QED
      BY <1>2, <2>1, <3>1
  <2>3. ASSUME NEW i \in 1 .. m PROVE Effect(q[i], next[i], next[i + 1])
    <3>1. i \in 1 .. m + 1 /\ i + 1 \in 1 .. m + 1 /\ n + i \in 1 .. Len(s) /\ n + (i + 1) = n + i + 1
      BY <1>1
    <3>2. next[i] = st[n + i] /\ next[i + 1] = st[n + (i + 1)] /\ q[i] = s[n + i]
      BY <1>3, <2>1, <3>1
    <3>3. Effect(s[n + i], st[n + i], st[n + i + 1])
      BY <1>2, <3>1
    <3>4. QED
      BY <3>1, <3>2, <3>3
  <2>4. QED
    BY <1>3, <1>4, <2>2, <2>3 DEF Leads
<1>7. QED
  BY <1>5, <1>6 DEF p, q

\* One item does what it does.
LEMMA LeadsOne ==
    ASSUME NEW x, NEW a, NEW b, Effect(x, a, b)
    PROVE  Leads(<<x>>, a, b)
<1> DEFINE st == [i \in 1 .. 2 |-> IF i = 1 THEN a ELSE b]
           s == <<x>>
<1>1. st[1] = a /\ st[1 + 1] = b
  OBVIOUS
<1>2. s \in Seq({x}) /\ Len(s) = 1 /\ s[1] = x
  OBVIOUS
<1> HIDE DEF st, s
<1>3. s \in Seq(Elements(s))
  BY <1>2, OwnElements
<1>4. \A i \in 1 .. Len(s) : Effect(s[i], st[i], st[i + 1])
  <2>1. \A i \in 1 .. Len(s) : i = 1
    BY <1>2
  <2>2. QED
    BY <1>1, <1>2, <2>1
<1>5. st[Len(s) + 1] = b
  BY <1>1, <1>2
<1>6. Leads(s, a, b)
  BY <1>1, <1>3, <1>4, <1>5 DEF Leads
<1>7. QED
  BY <1>6 DEF s

\* The first item does its part, then the others theirs.
LEMMA LeadsHead ==
    ASSUME NEW s, NEW a, NEW c, Leads(s, a, c), s # <<>>
    PROVE  \E b : Effect(Head(s), a, b) /\ Leads(Tail(s), b, c)
<1>1. s \in Seq(Elements(s)) /\ Len(s) \in Nat /\ Len(s) # 0
  BY LenProperties, EmptySeq DEF Leads
<1>2. Head(s) = s[1] /\ Tail(s) = SubSeq(s, 1 + 1, Len(s)) /\ 1 \in 0 .. Len(s) /\ 1 \in 1 .. Len(s)
  BY <1>1
<1>3. PICK b : Leads(SubSeq(s, 1, 1), a, b) /\ Leads(SubSeq(s, 1 + 1, Len(s)), b, c)
  BY <1>2, LeadsSplit
<1> DEFINE p == SubSeq(s, 1, 1)
<1>4. Len(p) = 1 /\ p[1] = s[1]
  BY <1>1, <1>2
<1>5. Leads(p, a, b)
  BY <1>3
<1> HIDE DEF p
<1>6. Effect(s[1], a, b)
  BY <1>4, <1>5 DEF Leads
<1>7. QED
  BY <1>2, <1>3, <1>6


\* The first item, then what the others lead to.
LEMMA LeadsCons ==
    ASSUME NEW s, NEW a, NEW b, NEW c, s \in Seq(Elements(s)), s # <<>>,
           Effect(Head(s), a, b), Leads(Tail(s), b, c)
    PROVE  Leads(s, a, c)
<1> DEFINE S == Elements(s)
           x == Head(s)
           t == Tail(s)
<1>1. s \in Seq(S)
  OBVIOUS
<1> HIDE DEF S
<1>2. x \in S /\ t \in Seq(S) /\ Len(t) = Len(s) - 1 /\ \A i \in 1 .. Len(t) : t[i] = s[i + 1]
  BY <1>1, HeadTailProperties
<1>3. Len(s) \in Nat /\ Len(s) # 0 /\ x = s[1]
  BY <1>1, EmptySeq
<1> DEFINE u == <<x>>
<1>4. u \in Seq(S) /\ Len(u) = 1 /\ u[1] = x
  BY <1>2
<1>5. Leads(u, a, b) /\ Leads(t, b, c)
  BY LeadsOne
<1> HIDE DEF u, x, t
<1>6. Len(s) = Len(u) + Len(t) /\ \A i \in 1 .. Len(u) : s[i] = u[i]
  BY <1>2, <1>3, <1>4
<1>7. \A i \in 1 .. Len(t) : s[Len(u) + i] = t[i]
  BY <1>2, <1>3, <1>4
<1>8. s = u \o t
  BY <1>1, <1>2, <1>4, <1>6, <1>7, Joined, Zenon
<1>9. QED
  BY <1>5, <1>8, LeadsCat

\* Lists of a few items, written out.
LEMMA LeadsTwo ==
    ASSUME NEW x1, NEW x2,
           NEW s0, NEW s1, NEW s2,
           Effect(x1, s0, s1), Effect(x2, s1, s2)
    PROVE  Leads(<<x1, x2>>, s0, s2)
<1> DEFINE s == <<x1, x2>>
           t == <<x2>>
<1>1. s \in Seq({x1, x2}) /\ s # <<>> /\ Head(s) = x1 /\ Tail(s) = t
  OBVIOUS
<1>2. Leads(t, s1, s2)
  BY LeadsOne
<1> HIDE DEF s, t
<1>3. s \in Seq(Elements(s))
  BY <1>1, OwnElements
<1>4. Leads(s, s0, s2)
  BY <1>1, <1>2, <1>3, LeadsCons
<1>5. QED
  BY <1>4 DEF s

LEMMA LeadsThree ==
    ASSUME NEW x1, NEW x2, NEW x3,
           NEW s0, NEW s1, NEW s2, NEW s3,
           Effect(x1, s0, s1), Effect(x2, s1, s2), Effect(x3, s2, s3)
    PROVE  Leads(<<x1, x2, x3>>, s0, s3)
<1> DEFINE s == <<x1, x2, x3>>
           t == <<x2, x3>>
<1>1. s \in Seq({x1, x2, x3}) /\ s # <<>> /\ Head(s) = x1 /\ Tail(s) = t
  OBVIOUS
<1>2. Leads(t, s1, s3)
  BY LeadsTwo
<1> HIDE DEF s, t
<1>3. s \in Seq(Elements(s))
  BY <1>1, OwnElements
<1>4. Leads(s, s0, s3)
  BY <1>1, <1>2, <1>3, LeadsCons
<1>5. QED
  BY <1>4 DEF s

LEMMA LeadsFour ==
    ASSUME NEW x1, NEW x2, NEW x3, NEW x4,
           NEW s0, NEW s1, NEW s2, NEW s3, NEW s4,
           Effect(x1, s0, s1), Effect(x2, s1, s2), Effect(x3, s2, s3), Effect(x4, s3, s4)
    PROVE  Leads(<<x1, x2, x3, x4>>, s0, s4)
<1> DEFINE s == <<x1, x2, x3, x4>>
           t == <<x2, x3, x4>>
<1>1. s \in Seq({x1, x2, x3, x4}) /\ s # <<>> /\ Head(s) = x1 /\ Tail(s) = t
  OBVIOUS
<1>2. Leads(t, s1, s4)
  BY LeadsThree
<1> HIDE DEF s, t
<1>3. s \in Seq(Elements(s))
  BY <1>1, OwnElements
<1>4. Leads(s, s0, s4)
  BY <1>1, <1>2, <1>3, LeadsCons
<1>5. QED
  BY <1>4 DEF s

LEMMA LeadsFive ==
    ASSUME NEW x1, NEW x2, NEW x3, NEW x4, NEW x5,
           NEW s0, NEW s1, NEW s2, NEW s3, NEW s4, NEW s5,
           Effect(x1, s0, s1), Effect(x2, s1, s2), Effect(x3, s2, s3), Effect(x4, s3, s4),
           Effect(x5, s4, s5)
    PROVE  Leads(<<x1, x2, x3, x4, x5>>, s0, s5)
<1> DEFINE s == <<x1, x2, x3, x4, x5>>
           t == <<x2, x3, x4, x5>>
<1>1. s \in Seq({x1, x2, x3, x4, x5}) /\ s # <<>> /\ Head(s) = x1 /\ Tail(s) = t
  OBVIOUS
<1>2. Leads(t, s1, s5)
  BY LeadsFour
<1> HIDE DEF s, t
<1>3. s \in Seq(Elements(s))
  BY <1>1, OwnElements
<1>4. Leads(s, s0, s5)
  BY <1>1, <1>2, <1>3, LeadsCons
<1>5. QED
  BY <1>4 DEF s

LEMMA LeadsSix ==
    ASSUME NEW x1, NEW x2, NEW x3, NEW x4, NEW x5, NEW x6,
           NEW s0, NEW s1, NEW s2, NEW s3, NEW s4, NEW s5, NEW s6,
           Effect(x1, s0, s1), Effect(x2, s1, s2), Effect(x3, s2, s3), Effect(x4, s3, s4),
           Effect(x5, s4, s5), Effect(x6, s5, s6)
    PROVE  Leads(<<x1, x2, x3, x4, x5, x6>>, s0, s6)
<1> DEFINE s == <<x1, x2, x3, x4, x5, x6>>
           t == <<x2, x3, x4, x5, x6>>
<1>1. s \in Seq({x1, x2, x3, x4, x5, x6}) /\ s # <<>> /\ Head(s) = x1 /\ Tail(s) = t
  OBVIOUS
<1>2. Leads(t, s1, s6)
  BY LeadsFive
<1> HIDE DEF s, t
<1>3. s \in Seq(Elements(s))
  BY <1>1, OwnElements
<1>4. Leads(s, s0, s6)
  BY <1>1, <1>2, <1>3, LeadsCons
<1>5. QED
  BY <1>4 DEF s

LEMMA LeadsSeven ==
    ASSUME NEW x1, NEW x2, NEW x3, NEW x4, NEW x5, NEW x6, NEW x7,
           NEW s0, NEW s1, NEW s2, NEW s3, NEW s4, NEW s5, NEW s6, NEW s7,
           Effect(x1, s0, s1), Effect(x2, s1, s2), Effect(x3, s2, s3), Effect(x4, s3, s4),
           Effect(x5, s4, s5), Effect(x6, s5, s6), Effect(x7, s6, s7)
    PROVE  Leads(<<x1, x2, x3, x4, x5, x6, x7>>, s0, s7)
<1> DEFINE s == <<x1, x2, x3, x4, x5, x6, x7>>
           t == <<x2, x3, x4, x5, x6, x7>>
<1>1. s \in Seq({x1, x2, x3, x4, x5, x6, x7}) /\ s # <<>> /\ Head(s) = x1 /\ Tail(s) = t
  OBVIOUS
<1>2. Leads(t, s1, s7)
  BY LeadsSix
<1> HIDE DEF s, t
<1>3. s \in Seq(Elements(s))
  BY <1>1, OwnElements
<1>4. Leads(s, s0, s7)
  BY <1>1, <1>2, <1>3, LeadsCons
<1>5. QED
  BY <1>4 DEF s

LEMMA LeadsEight ==
    ASSUME NEW x1, NEW x2, NEW x3, NEW x4, NEW x5, NEW x6, NEW x7, NEW x8,
           NEW s0, NEW s1, NEW s2, NEW s3, NEW s4, NEW s5, NEW s6, NEW s7, NEW s8,
           Effect(x1, s0, s1), Effect(x2, s1, s2), Effect(x3, s2, s3), Effect(x4, s3, s4),
           Effect(x5, s4, s5), Effect(x6, s5, s6), Effect(x7, s6, s7), Effect(x8, s7, s8)
    PROVE  Leads(<<x1, x2, x3, x4, x5, x6, x7, x8>>, s0, s8)
<1> DEFINE s == <<x1, x2, x3, x4, x5, x6, x7, x8>>
           t == <<x2, x3, x4, x5, x6, x7, x8>>
<1>1. s \in Seq({x1, x2, x3, x4, x5, x6, x7, x8}) /\ s # <<>> /\ Head(s) = x1 /\ Tail(s) = t
  OBVIOUS
<1>2. Leads(t, s1, s8)
  BY LeadsSeven
<1> HIDE DEF s, t
<1>3. s \in Seq(Elements(s))
  BY <1>1, OwnElements
<1>4. Leads(s, s0, s8)
  BY <1>1, <1>2, <1>3, LeadsCons
<1>5. QED
  BY <1>4 DEF s

LEMMA LeadsNine ==
    ASSUME NEW x1, NEW x2, NEW x3, NEW x4, NEW x5, NEW x6, NEW x7, NEW x8, NEW x9,
           NEW s0, NEW s1, NEW s2, NEW s3, NEW s4, NEW s5, NEW s6, NEW s7, NEW s8, NEW s9,
           Effect(x1, s0, s1), Effect(x2, s1, s2), Effect(x3, s2, s3), Effect(x4, s3, s4),
           Effect(x5, s4, s5), Effect(x6, s5, s6), Effect(x7, s6, s7), Effect(x8, s7, s8),
           Effect(x9, s8, s9)
    PROVE  Leads(<<x1, x2, x3, x4, x5, x6, x7, x8, x9>>, s0, s9)
<1> DEFINE s == <<x1, x2, x3, x4, x5, x6, x7, x8, x9>>
           t == <<x2, x3, x4, x5, x6, x7, x8, x9>>
<1>1. s \in Seq({x1, x2, x3, x4, x5, x6, x7, x8, x9}) /\ s # <<>> /\ Head(s) = x1 /\ Tail(s) = t
  OBVIOUS
<1>2. Leads(t, s1, s9)
  BY LeadsEight
<1> HIDE DEF s, t
<1>3. s \in Seq(Elements(s))
  BY <1>1, OwnElements
<1>4. Leads(s, s0, s9)
  BY <1>1, <1>2, <1>3, LeadsCons
<1>5. QED
  BY <1>4 DEF s

-----------------------------------------------------------------------------
(* Lines.                                                                  *)

LEMMA LongerOne ==
    ASSUME NEW a, NEW b
    PROVE  <<a, b>> = <<a>> \o <<b>>
<1> DEFINE S == {a, b}
           u == <<a, b>>
           s == <<a>>
           t == <<b>>
<1>1. u \in Seq(S) /\ s \in Seq(S) /\ t \in Seq(S)
  OBVIOUS
<1>2. /\ Len(u) = 2 /\ Len(s) = 1 /\ Len(t) = 1 /\ Len(u) = Len(s) + Len(t)
      /\ u[1] = a /\ u[2] = b /\ s[1] = a /\ t[1] = b
  OBVIOUS
<1> HIDE DEF u, s, t, S
<1>3. (\A k \in 1 .. Len(s) : u[k] = s[k]) /\ \A k \in 1 .. Len(t) : u[Len(s) + k] = t[k]
  BY <1>2
<1>4. u = s \o t
  BY <1>1, <1>2, <1>3, Joined, Zenon
<1>5. QED
  BY <1>4 DEF u, s, t

LEMMA LongerTwo ==
    ASSUME NEW a, NEW b, NEW c
    PROVE  <<a, b, c>> = <<a, b>> \o <<c>>
<1>1. <<a, b, c>> \in Seq({a, b, c}) /\ <<a, b>> \in Seq({a, b, c}) /\ <<c>> \in Seq({a, b, c})
  OBVIOUS
<1>2. QED
  BY <1>1, Joined

LEMMA LongerThree ==
    ASSUME NEW a, NEW b, NEW c, NEW d
    PROVE  <<a, b, c, d>> = <<a, b, c>> \o <<d>>
<1>1. /\ <<a, b, c, d>> \in Seq({a, b, c, d}) /\ <<a, b, c>> \in Seq({a, b, c, d})
      /\ <<d>> \in Seq({a, b, c, d})
  OBVIOUS
<1>2. QED
  BY <1>1, Joined

\* What a line lacks after its instruction.
Lacks(s) == Operands(s) \o <<Nl>>

LEMMA LacksOf ==
    /\ \A s \in {".IFJcode17", "CREATEFRAME", "PUSHFRAME", "POPFRAME", "RETURN"} : Lacks(s) = <<Nl>>
    /\ \A s \in {"DEFVAR", "POPS"} : Lacks(s) = <<Var, Nl>>
    /\ Lacks("PUSHS") = <<Sym, Nl>>
    /\ \A s \in {"LABEL", "JUMP", "CALL"} : Lacks(s) = <<Label, Nl>>
    /\ \A s \in {"MOVE", "TYPE", "NOT", "INT2FLOAT"} : Lacks(s) = <<Var, Sym, Nl>>
    /\ \A s \in {"JUMPIFEQ", "JUMPIFNEQ"} : Lacks(s) = <<Label, Sym, Sym, Nl>>
    /\ \A s \in {"ADD", "SUB", "MUL", "DIV", "AND", "OR", "GT"} : Lacks(s) = <<Var, Sym, Sym, Nl>>
<1>1. \A s \in {".IFJcode17", "CREATEFRAME", "PUSHFRAME", "POPFRAME", "RETURN"} : Operands(s) = <<>>
  BY DEF Operands
<1>2. \A s \in {"DEFVAR", "POPS"} : Operands(s) = <<Var>>
  BY DEF Operands
<1>3. Operands("PUSHS") = <<Sym>>
  BY DEF Operands
<1>4. \A s \in {"LABEL", "JUMP", "CALL"} : Operands(s) = <<Label>>
  BY DEF Operands
<1>5. \A s \in {"MOVE", "TYPE", "NOT", "INT2FLOAT"} : Operands(s) = <<Var, Sym>>
  BY DEF Operands
<1>6. \A s \in {"JUMPIFEQ", "JUMPIFNEQ"} : Operands(s) = <<Label, Sym, Sym>>
  BY DEF Operands
<1>7. \A s \in {"ADD", "SUB", "MUL", "DIV", "AND", "OR", "GT"} : Operands(s) = <<Var, Sym, Sym>>
  BY DEF Operands
<1>8. <<>> \o <<Nl>> = <<Nl>>
  OBVIOUS
<1>9. \A s \in {".IFJcode17", "CREATEFRAME", "PUSHFRAME", "POPFRAME", "RETURN"} : Lacks(s) = <<Nl>>
  BY <1>1, <1>8 DEF Lacks
<1>10. \A s : Operands(s) = <<Var>> => Lacks(s) = <<Var, Nl>>
  BY LongerOne, Zenon DEF Lacks
<1>11. \A s : Operands(s) = <<Sym>> => Lacks(s) = <<Sym, Nl>>
  BY LongerOne, Zenon DEF Lacks
<1>12. \A s : Operands(s) = <<Label>> => Lacks(s) = <<Label, Nl>>
  BY LongerOne, Zenon DEF Lacks
<1>13. \A s : Operands(s) = <<Var, Sym>> => Lacks(s) = <<Var, Sym, Nl>>
  BY LongerTwo, Zenon DEF Lacks
<1>14. \A s : Operands(s) = <<Label, Sym, Sym>> => Lacks(s) = <<Label, Sym, Sym, Nl>>
  BY LongerThree, Zenon DEF Lacks
<1>15. \A s : Operands(s) = <<Var, Sym, Sym>> => Lacks(s) = <<Var, Sym, Sym, Nl>>
  BY LongerThree, Zenon DEF Lacks
<1>16. QED
  BY <1>2, <1>3, <1>4, <1>5, <1>6, <1>7, <1>9, <1>10, <1>11, <1>12, <1>13, <1>14, <1>15, Zenon

\* An instruction begins a line.
LEMMA Begins ==
    ASSUME NEW s \in Instructions, NEW f, NEW p, s = "POPS" => p,
           NEW q \in BOOLEAN, q => s \in {"DEFVAR", "CALL"}
    PROVE  Effect(Op(s), At(f, <<>>, p), At(f, Lacks(s), q))
<1>1. Op(s).k = "op" /\ Op(s).s = s
  BY DEF Op, Tok
<1>2. "op" \in Tokens
  BY DEF Tokens, Plain
<1>3. Word(Op(s), <<>>, p, Lacks(s), q)
  BY <1>1, Zenon DEF Word, Lacks
<1>4. QED
  BY <1>1, <1>2, <1>3, Zenon DEF Effect

\* A token is the next operand.
LEMMA Operand ==
    ASSUME NEW x, x.k \in Tokens \ {"nl"}, NEW A, x.k \in A, NEW f, NEW p \in BOOLEAN
    PROVE  /\ \A B : Effect(x, At(f, <<A, B>>, p), At(f, <<B>>, p))
           /\ \A B, C : Effect(x, At(f, <<A, B, C>>, p), At(f, <<B, C>>, p))
           /\ \A B, C, D : Effect(x, At(f, <<A, B, C, D>>, p), At(f, <<B, C, D>>, p))
<1>1. ASSUME NEW r, NEW t, r # <<>>, Head(r) = A, Tail(r) = t
      PROVE  Effect(x, At(f, r, p), At(f, t, p))
  <2>1. Word(x, r, p, t, p)
    BY <1>1 DEF Word
  <2>2. QED
    BY <2>1, Zenon DEF Effect
<1>2. \A B : <<A, B>> # <<>> /\ Head(<<A, B>>) = A /\ Tail(<<A, B>>) = <<B>>
  OBVIOUS
<1>3. \A B, C : <<A, B, C>> # <<>> /\ Head(<<A, B, C>>) = A /\ Tail(<<A, B, C>>) = <<B, C>>
  OBVIOUS
<1>4. \A B, C, D : /\ <<A, B, C, D>> # <<>> /\ Head(<<A, B, C, D>>) = A
                   /\ Tail(<<A, B, C, D>>) = <<B, C, D>>
  OBVIOUS
<1>5. \A B : Effect(x, At(f, <<A, B>>, p), At(f, <<B>>, p))
  BY <1>1, <1>2
<1>6. \A B, C : Effect(x, At(f, <<A, B, C>>, p), At(f, <<B, C>>, p))
  BY <1>1, <1>3
<1>7. \A B, C, D : Effect(x, At(f, <<A, B, C, D>>, p), At(f, <<B, C, D>>, p))
  BY <1>1, <1>4
<1>8. QED
  BY <1>5, <1>6, <1>7

\* So is a leaf.
LEMMA Leaves ==
    ASSUME NEW n, n.type \in Leaf, NEW A, Kinds(n) \subseteq A, NEW f \in Bare, NEW p
    PROVE  /\ \A B : Effect(Visit(n), At(f, <<A, B>>, p), At(f, <<B>>, p))
           /\ \A B, C : Effect(Visit(n), At(f, <<A, B, C>>, p), At(f, <<B, C>>, p))
           /\ \A B, C, D : Effect(Visit(n), At(f, <<A, B, C, D>>, p), At(f, <<B, C, D>>, p))
<1>1. ASSUME NEW r, NEW t, r # <<>>, Head(r) = A, Tail(r) = t
      PROVE  Effect(Visit(n), At(f, r, p), At(f, t, p))
  <2>1. LeafOperand(n, At(f, r, p), At(f, t, p))
    BY <1>1, Zenon DEF LeafOperand
  <2>2. Visit(n).k = "visit" /\ Visit(n).node = n
    BY DEF Visit
  <2>3. QED
    BY <2>1, <2>2, Zenon DEF Effect, Visits
<1>2. \A B : <<A, B>> # <<>> /\ Head(<<A, B>>) = A /\ Tail(<<A, B>>) = <<B>>
  OBVIOUS
<1>3. \A B, C : <<A, B, C>> # <<>> /\ Head(<<A, B, C>>) = A /\ Tail(<<A, B, C>>) = <<B, C>>
  OBVIOUS
<1>4. \A B, C, D : /\ <<A, B, C, D>> # <<>> /\ Head(<<A, B, C, D>>) = A
                   /\ Tail(<<A, B, C, D>>) = <<B, C, D>>
  OBVIOUS
<1>5. \A B : Effect(Visit(n), At(f, <<A, B>>, p), At(f, <<B>>, p))
  BY <1>1, <1>2
<1>6. \A B, C : Effect(Visit(n), At(f, <<A, B, C>>, p), At(f, <<B, C>>, p))
  BY <1>1, <1>3
<1>7. \A B, C, D : Effect(Visit(n), At(f, <<A, B, C, D>>, p), At(f, <<B, C, D>>, p))
  BY <1>1, <1>4
<1>8. QED
  BY <1>5, <1>6, <1>7

LEMMA KindsAre ==
    ASSUME NEW n
    PROVE  /\ n.type \in Leaf => Kinds(n) \subseteq Sym
           /\ n.type = "ID" => Kinds(n) \subseteq Var /\ n.type \in Leaf
BY DEF Kinds, Sym, Var, Leaf

\* A line end ends a line, or is an empty one.
LEMMA Ends ==
    ASSUME NEW f, NEW p
    PROVE  /\ \A q \in BOOLEAN : (q => p) => Effect(NL, At(f, <<Nl>>, p), At(f, <<>>, q))
           /\ Effect(NL, At(f, <<>>, p), Start(f))
<1>1. NL.k = "nl" /\ NL.k \in Tokens /\ NL.k \in Nl
  BY DEF NL, Tok, Tokens, Plain, Nl
<1>2. <<Nl>> # <<>> /\ Head(<<Nl>>) = Nl /\ Tail(<<Nl>>) = <<>>
  OBVIOUS
<1>3. ASSUME NEW q \in BOOLEAN, q => p PROVE Word(NL, <<Nl>>, p, <<>>, q)
  BY <1>1, <1>2, <1>3, Zenon DEF Word
<1>4. Word(NL, <<>>, p, <<>>, FALSE)
  BY Zenon DEF Word
<1>5. QED
  BY <1>1, <1>3, <1>4, Zenon DEF Effect, Start

\* Lines of an instruction and its operands.
LEMMA LineNone ==
    ASSUME NEW s \in Instructions, s # "POPS", Lacks(s) = <<Nl>>, NEW f, NEW p
    PROVE  Leads(<<Op(s), NL>>, At(f, <<>>, p), Start(f))
<1>1. Effect(Op(s), At(f, <<>>, p), At(f, <<Nl>>, FALSE)) 
  BY Begins
<1>2. Effect(NL, At(f, <<Nl>>, FALSE), Start(f))
  BY Ends DEF Start
<1>3. QED
  BY <1>1, <1>2, LeadsTwo

LEMMA LineOne ==
    ASSUME NEW s \in Instructions, NEW A, Lacks(s) = <<A, Nl>>, NEW f, NEW p, s = "POPS" => p,
           NEW q \in BOOLEAN, q => s \in {"DEFVAR", "CALL"},
           NEW x, Effect(x, At(f, <<A, Nl>>, q), At(f, <<Nl>>, q))
    PROVE  Leads(<<Op(s), x, NL>>, At(f, <<>>, p), At(f, <<>>, q))
<1>1. Effect(Op(s), At(f, <<>>, p), At(f, <<A, Nl>>, q))
  BY Begins
<1>2. Effect(NL, At(f, <<Nl>>, q), At(f, <<>>, q))
  BY Ends
<1>3. QED
  BY <1>1, <1>2, LeadsThree

LEMMA LineTwo ==
    ASSUME NEW s \in Instructions, s # "POPS", NEW A, NEW B, Lacks(s) = <<A, B, Nl>>, NEW f, NEW p,
           NEW x, Effect(x, At(f, <<A, B, Nl>>, FALSE), At(f, <<B, Nl>>, FALSE)),
           NEW y, Effect(y, At(f, <<B, Nl>>, FALSE), At(f, <<Nl>>, FALSE))
    PROVE  Leads(<<Op(s), x, y, NL>>, At(f, <<>>, p), Start(f))
<1>1. Effect(Op(s), At(f, <<>>, p), At(f, <<A, B, Nl>>, FALSE))
  BY Begins
<1>2. Effect(NL, At(f, <<Nl>>, FALSE), Start(f))
  BY Ends DEF Start
<1>3. QED
  BY <1>1, <1>2, LeadsFour

LEMMA LineThree ==
    ASSUME NEW s \in Instructions, s # "POPS", NEW A, NEW B, NEW C, Lacks(s) = <<A, B, C, Nl>>,
           NEW f, NEW p,
           NEW x, Effect(x, At(f, <<A, B, C, Nl>>, FALSE), At(f, <<B, C, Nl>>, FALSE)),
           NEW y, Effect(y, At(f, <<B, C, Nl>>, FALSE), At(f, <<C, Nl>>, FALSE)),
           NEW z, Effect(z, At(f, <<C, Nl>>, FALSE), At(f, <<Nl>>, FALSE))
    PROVE  Leads(<<Op(s), x, y, z, NL>>, At(f, <<>>, p), Start(f))
<1>1. Effect(Op(s), At(f, <<>>, p), At(f, <<A, B, C, Nl>>, FALSE))
  BY Begins
<1>2. Effect(NL, At(f, <<Nl>>, FALSE), Start(f))
  BY Ends DEF Start
<1>3. QED
  BY <1>1, <1>2, LeadsFive

-----------------------------------------------------------------------------
(* Flags.                                                                  *)

\* A flag of a tracked function is changed.
LEMMA WithFacts ==
    ASSUME NEW f \in Flags, NEW v \in Tracked, NEW x \in Int
    PROVE  /\ With(f, v, x) \in Flags /\ With(f, v, x)[v] = x
           /\ \A w \in Tracked : w # v => With(f, v, x)[w] = f[w]
           /\ \A y \in Int : With(With(f, v, x), v, y) = With(f, v, y)
           /\ With(With(f, v, x), v, f[v]) = f /\ With(f, v, f[v]) = f
           /\ f[v] \in Int
BY DEF With, Flags

\* A tracked flag is counted or set.
LEMMA Counts ==
    ASSUME NEW f \in Flags, NEW v \in Tracked, NEW d \in Int, NEW r, NEW p
    PROVE  /\ Effect(Add(v, d), At(f, r, p), At(With(f, v, f[v] + d), r, p))
           /\ Effect(Set(v, d), At(f, r, p), At(With(f, v, d), r, p))
<1>1. /\ Add(v, d).k = "add" /\ Add(v, d).s = v /\ Add(v, d).n = d
      /\ Set(v, d).k = "set" /\ Set(v, d).s = v /\ Set(v, d).n = d
  BY DEF Add, Set
<1>2. QED
  BY <1>1, Zenon DEF Effect

\* The others are not looked at.
LEMMA Untracked ==
    ASSUME NEW f, NEW v, v \notin Tracked, NEW d, NEW r, NEW p
    PROVE  /\ Effect(Add(v, d), At(f, r, p), At(f, r, p))
           /\ Effect(Set(v, d), At(f, r, p), At(f, r, p))
<1>1. /\ Add(v, d).k = "add" /\ Add(v, d).s = v
      /\ Set(v, d).k = "set" /\ Set(v, d).s = v
  BY DEF Add, Set
<1>2. QED
  BY <1>1, Zenon DEF Effect

LEMMA ContextTracked ==
    /\ ContextFlags \subseteq Tracked
    /\ {"scope", "loop_num", "from_func"} \subseteq Tracked
    /\ "int2float" \notin Tracked /\ "label_cont" \notin Tracked
    /\ {"bin_op", "from_if", "args", "params", "from_call", "from_return", "from_loop", "not",
        "from_minus", "from_dim"} = ContextFlags
BY DEF ContextFlags, Tracked, FlagNames

\* A flag of the context is raised and taken back.
LEMMA Context ==
    ASSUME NEW f \in Calm, NEW v \in ContextFlags, NEW r, NEW p
    PROVE  /\ Effect(Add(v, 1), At(f, r, p), At(With(f, v, 1), r, p))
           /\ Effect(Add(v, 1), At(With(f, v, 1), r, p), At(With(f, v, 2), r, p))
           /\ Effect(Add(v, -1), At(With(f, v, 1), r, p), At(f, r, p))
           /\ Effect(Add(v, -2), At(With(f, v, 2), r, p), At(f, r, p))
           /\ \A x \in Int : Effect(Set(v, x), At(f, r, p), At(With(f, v, x), r, p))
           /\ \A x \in Int : Effect(Set(v, 0), At(With(f, v, x), r, p), At(f, r, p))
           /\ Effect(Set(v, 0), At(f, r, p), At(f, r, p))
<1>1. f \in Flags /\ v \in Tracked /\ f[v] = 0
  BY ContextTracked DEF Calm
<1>2. /\ \A x \in Int : With(f, v, x) \in Flags /\ With(f, v, x)[v] = x
      /\ \A x, y \in Int : With(With(f, v, x), v, y) = With(f, v, y)
      /\ With(f, v, 0) = f
  BY <1>1, WithFacts
<1>3. /\ 1 \in Int /\ 2 \in Int /\ -1 \in Int /\ -2 \in Int /\ 0 \in Int
      /\ 0 + 1 = 1 /\ 1 + 1 = 2 /\ 1 + -1 = 0 /\ 2 + -2 = 0
  OBVIOUS
<1>4. \A g \in Flags : \A d \in Int :
        /\ Effect(Add(v, d), At(g, r, p), At(With(g, v, g[v] + d), r, p))
        /\ Effect(Set(v, d), At(g, r, p), At(With(g, v, d), r, p))
  BY <1>1, Counts
<1>5. Effect(Add(v, 1), At(f, r, p), At(With(f, v, 1), r, p))
  BY <1>1, <1>3, <1>4
<1>6. Effect(Add(v, 1), At(With(f, v, 1), r, p), At(With(f, v, 2), r, p))
  BY <1>2, <1>3, <1>4
<1>7. Effect(Add(v, -1), At(With(f, v, 1), r, p), At(f, r, p))
  BY <1>2, <1>3, <1>4
<1>8. Effect(Add(v, -2), At(With(f, v, 2), r, p), At(f, r, p))
  BY <1>2, <1>3, <1>4
<1>9. \A x \in Int : Effect(Set(v, 0), At(With(f, v, x), r, p), At(f, r, p))
  BY <1>2, <1>3, <1>4
<1>10. Effect(Set(v, 0), At(f, r, p), At(f, r, p))
  BY <1>1, <1>2, <1>3, <1>4
<1>11. \A x \in Int : Effect(Set(v, x), At(f, r, p), At(With(f, v, x), r, p))
  BY <1>1, <1>4
<1>12. QED
  BY <1>5, <1>6, <1>7, <1>8, <1>9, <1>10, <1>11, Zenon

\* What leaves do not look at.
LEMMA BareFlags ==
    ASSUME NEW f \in Calm
    PROVE  /\ f \in Bare
           /\ \A v \in {"not", "bin_op", "from_if", "from_loop", "params"} : \A x \in Int :
                With(f, v, x) \in Bare
<1>1. f \in Flags /\ \A v \in ContextFlags : v \in Tracked /\ f[v] = 0
  BY ContextTracked DEF Calm
<1>2. /\ {"from_return", "from_call", "from_minus", "args"} \subseteq ContextFlags
      /\ {"not", "bin_op", "from_if", "from_loop", "params"} \subseteq ContextFlags
  BY ContextTracked
<1>3. f \in Bare
  BY <1>1, <1>2 DEF Bare
<1>4. ASSUME NEW v \in {"not", "bin_op", "from_if", "from_loop", "params"}, NEW x \in Int
      PROVE  With(f, v, x) \in Bare
  <2>1. v \in Tracked /\ v \notin {"from_return", "from_call", "from_minus", "args"}
    BY <1>1, <1>2
  <2>2. With(f, v, x) \in Flags /\ \A w \in Tracked : w # v => With(f, v, x)[w] = f[w]
    BY <1>1, <2>1, WithFacts
  <2>3. QED
    BY <1>1, <1>2, <2>1, <2>2 DEF Bare
<1>5. QED
  BY <1>3, <1>4

-----------------------------------------------------------------------------
(* The handlers do what a visit does.                                      *)

LEMMA AtIs ==
    \A f, r, p : At(f, r, p).flag = f /\ At(f, r, p).rest = r /\ At(f, r, p).pops = p
BY DEF At

\* The tracked flags are the generator's.
LEMMA TrackIs == \A v \in Tracked : Track(flag)[v] = flag[v]
BY DEF Track

LEMMA TrackType ==
    ASSUME flag \in [FlagNames -> Int]
    PROVE  Track(flag) \in Flags
<1>1. \A v \in Tracked : flag[v] \in Int
  BY DEF Tracked
<1>2. QED
  BY <1>1 DEF Track, Flags

\* Which kind of visit a node is up to.
LEMMA VisitsBy ==
    ASSUME NEW n, NEW a, NEW b, Visits(n, a, b)
    PROVE  /\ n.type \in {"INT", "DOUBLE"} =>
                LeafOperand(n, a, b) \/ LeafMinus(n, a, b) \/ (n.type = "INT" /\ LeafReturned(n, a, b))
           /\ n.type = "STRING" => LeafOperand(n, a, b)
           /\ n.type = "ID" => \/ LeafOperand(n, a, b) \/ LeafReturned(n, a, b)
                               \/ LeafCalled(n, a, b) \/ LeafPassed(n, a, b)
           /\ n.type = "DECL" => DeclLines(n, a, b)
           /\ n.type = "DIM" => DimLines(n, a, b)
           /\ n.type = "UNARY_OP" => UnaryFirst(n, a, b) \/ UnaryThen(n, a, b)
           /\ n.type = "BINARY_OP" =>
                \/ BinaryFirst(n, a, b) \/ BinaryThen(n, a, b) \/ IfCondition(n, a, b)
                \/ LoopCondition(n, a, b) \/ StatementLines(n, a, b)
           /\ n.type = "CALL" => CallLine(n, a, b)
           /\ n.type \in {"RETURN"} \cup Silent => StatementLines(n, a, b)
<1>1. LeafOperand(n, a, b) => n.type \in {"INT", "DOUBLE", "STRING", "ID"}
  BY DEF LeafOperand, Leaf
<1>2. LeafMinus(n, a, b) => n.type \in {"INT", "DOUBLE"}
  BY DEF LeafMinus
<1>3. LeafReturned(n, a, b) => n.type \in {"INT", "ID"}
  BY DEF LeafReturned
<1>4. (LeafCalled(n, a, b) => n.type = "ID") /\ (LeafPassed(n, a, b) => n.type = "ID")
  BY DEF LeafCalled, LeafPassed
<1>5. UnaryFirst(n, a, b) \/ UnaryThen(n, a, b) => n.type = "UNARY_OP"
  BY DEF UnaryFirst, UnaryThen, TidyUnary
<1>6. BinaryFirst(n, a, b) \/ BinaryThen(n, a, b) => n.type = "BINARY_OP"
  BY DEF BinaryFirst, BinaryThen, TidyArithmetic, Flat
<1>7. CallLine(n, a, b) => n.type = "CALL"
  BY DEF CallLine, TidyCall
<1>8. IfCondition(n, a, b) \/ LoopCondition(n, a, b) => n.type = "BINARY_OP"
  BY DEF IfCondition, LoopCondition, Flat
<1>9. (DeclLines(n, a, b) => n.type = "DECL") /\ (DimLines(n, a, b) => n.type = "DIM")
  BY DEF DeclLines, DimLines, Decl
<1>10. StatementLines(n, a, b) => n.type \in {"RETURN", "BINARY_OP"} \cup Silent
  BY DEF StatementLines, TidySimple
<1>11. QED
  BY <1>1, <1>2, <1>3, <1>4, <1>5, <1>6, <1>7, <1>8, <1>9, <1>10 DEF Visits, Silent

\* The next item is replaced by ones that lead where it leads.
Does(a, b) == /\ UNCHANGED <<flag, out>>
              /\ \E s : todo' = s \o Tail(todo) /\ Leads(s, a, b)

\* A token is the next operand, whatever is lacking behind it.
LEMMA NextOperand ==
    ASSUME NEW x, x.k \in Tokens \ {"nl"}, NEW f, NEW r, r # <<>>, x.k \in Head(r), NEW p \in BOOLEAN
    PROVE  Effect(x, At(f, r, p), At(f, Tail(r), p))
<1>1. Word(x, r, p, Tail(r), p)
  BY DEF Word
<1>2. QED
  BY <1>1, Zenon DEF Effect

\* A flag goes back to what it was.
LEMMA BackTo ==
    ASSUME NEW g \in Flags, NEW v \in Tracked, g[v] = 0, NEW r, NEW p
    PROVE  Effect(Add(v, -1), At(With(g, v, 1), r, p), At(g, r, p))
<1>1. /\ With(g, v, 1) \in Flags /\ With(g, v, 1)[v] = 1 /\ 1 + -1 = 0
      /\ With(With(g, v, 1), v, 0) = g
  BY WithFacts
<1>2. Effect(Add(v, -1), At(With(g, v, 1), r, p), At(With(With(g, v, 1), v, 1 + -1), r, p))
  BY <1>1, Counts
<1>3. QED
  BY <1>1, <1>2

\* A leaf that is just an operand.
LEMMA LeafHere ==
    ASSUME NEW n, NEW f, NEW r, NEW p, NEW b, LeafOperand(n, At(f, r, p), b)
    PROVE  /\ f \in Bare /\ r # <<>> /\ Kinds(n) \subseteq Head(r)
           /\ b = At(f, Tail(r), p)
<1>1. PICK s, q : \E g \in Bare : /\ s # <<>> /\ Kinds(n) \subseteq Head(s)
                                 /\ At(f, r, p) = At(g, s, q) /\ b = At(g, Tail(s), q)
  BY DEF LeafOperand
<1>2. PICK g \in Bare : /\ s # <<>> /\ Kinds(n) \subseteq Head(s)
                        /\ At(f, r, p) = At(g, s, q) /\ b = At(g, Tail(s), q)
  BY <1>1
<1>3. f = g /\ r = s /\ p = q
  BY <1>2, AtIs
<1>4. QED
  BY <1>2, <1>3

LEMMA visit_numberDoes ==
    ASSUME visit_number, NEW r, NEW p \in BOOLEAN, NEW b, Visits(node, At(Track(flag), r, p), b)
    PROVE  Does(At(Track(flag), r, p), b)
<1> DEFINE n == node
           a == At(Track(flag), r, p)
           kind == IF n.type = "INT" THEN "int" ELSE "float"
           x == Tok(kind, "num", n.num)
           y == Tok(kind, "num", 0 - n.num)
<1>1. n.type \in {"INT", "DOUBLE"} /\ UNCHANGED <<flag, out>>
  BY DEF visit_number, Visiting, node
<1>2. /\ n.type = "INT" /\ flag.from_return = 1 =>
            todo' = <<Op("PUSHS"), x, Add("from_return", -1)>> \o Tail(todo)
      /\ flag.from_minus = 1 /\ ~(n.type = "INT" /\ flag.from_return = 1) =>
            todo' = <<y, Add("from_minus", -1)>> \o Tail(todo)
      /\ flag.from_minus # 1 /\ flag.from_return # 1 => todo' = <<x>> \o Tail(todo)
  BY DEF visit_number, Do
<1>3. /\ x.k = kind /\ y.k = kind /\ kind \in Tokens \ {"nl"} /\ kind \in Sym /\ kind \in Kinds(n)
  BY <1>1 DEF Tok, Tokens, Plain, Sym, Kinds
<1>4. LeafOperand(n, a, b) \/ LeafMinus(n, a, b) \/ (n.type = "INT" /\ LeafReturned(n, a, b))
  BY <1>1, VisitsBy
<1> HIDE DEF x, y, kind, n
<1>5. CASE LeafOperand(n, a, b)
  <2>1. /\ Track(flag) \in Bare /\ r # <<>> /\ Kinds(n) \subseteq Head(r)
        /\ b = At(Track(flag), Tail(r), p)
    BY <1>5, LeafHere
  <2>3. flag.from_return = 0 /\ flag.from_minus = 0
    BY <2>1, TrackIs DEF Bare, Tracked, FlagNames
  <2>4. Effect(x, a, b)
    BY <1>3, <2>1, NextOperand
  <2>5. Leads(<<x>>, a, b)
    BY <2>4, LeadsOne
  <2>6. todo' = <<x>> \o Tail(todo)
    BY <1>2, <2>3
  <2>7. QED
    BY <1>1, <2>5, <2>6 DEF Does
<1>6. CASE LeafMinus(n, a, b)
  <2>1. PICK f \in Calm, z \in Int :
            /\ a = At(With(With(f, "not", z), "from_minus", 1), <<Sym, Nl>>, FALSE)
            /\ b = At(With(f, "not", z), <<Nl>>, FALSE)
    BY <1>6 DEF LeafMinus
  <2> DEFINE g == With(f, "not", z)
  <2>2. /\ g \in Flags /\ g["from_minus"] = 0 /\ g["from_return"] = 0 /\ "from_minus" \in Tracked
        /\ "from_return" \in Tracked
    <3>1. /\ f \in Flags /\ {"from_minus", "from_return", "not"} \subseteq Tracked
          /\ f["from_minus"] = 0 /\ f["from_return"] = 0
      BY ContextTracked DEF Calm
    <3>2. QED
      BY <3>1, WithFacts
  <2> HIDE DEF g
  <2>3. Track(flag) = With(g, "from_minus", 1)
    BY <2>1 DEF g, At
  <2>4. flag.from_minus = 1 /\ flag.from_return = 0
    BY <2>2, <2>3, TrackIs, WithFacts
  <2>5. Effect(y, a, At(With(g, "from_minus", 1), <<Nl>>, FALSE))
    BY <1>3, <2>1, Operand DEF g
  <2>6. Effect(Add("from_minus", -1), At(With(g, "from_minus", 1), <<Nl>>, FALSE), b)
    BY <2>1, <2>2, BackTo DEF g
  <2>7. Leads(<<y, Add("from_minus", -1)>>, a, b)
    BY <2>5, <2>6, LeadsTwo
  <2>8. todo' = <<y, Add("from_minus", -1)>> \o Tail(todo)
    BY <1>2, <2>4
  <2>9. QED
    BY <1>1, <2>7, <2>8 DEF Does
<1>7. CASE n.type = "INT" /\ LeafReturned(n, a, b)
  <2>1. PICK f \in Calm : a = At(With(f, "from_return", 1), <<>>, FALSE) /\ b = At(f, <<Nl>>, FALSE)
    BY <1>7 DEF LeafReturned
  <2> DEFINE g == With(f, "from_return", 1)
  <2>2. f \in Flags /\ "from_return" \in Tracked /\ f["from_return"] = 0
    BY ContextTracked DEF Calm
  <2>3. flag.from_return = 1
    <3>1. Track(flag) = With(f, "from_return", 1)
      BY <2>1 DEF At
    <3>2. QED
      BY <2>2, <3>1, TrackIs, WithFacts
  <2>4. Effect(Op("PUSHS"), a, At(g, <<Sym, Nl>>, FALSE))
    BY <2>1, LacksOf, Begins DEF Instructions
  <2>5. Effect(x, At(g, <<Sym, Nl>>, FALSE), At(g, <<Nl>>, FALSE))
    BY <1>3, Operand
  <2>6. Effect(Add("from_return", -1), At(g, <<Nl>>, FALSE), b)
    BY <2>1, <2>2, BackTo
  <2> HIDE DEF g
  <2>7. Leads(<<Op("PUSHS"), x, Add("from_return", -1)>>, a, b)
    BY <2>4, <2>5, <2>6, LeadsThree
  <2>8. todo' = <<Op("PUSHS"), x, Add("from_return", -1)>> \o Tail(todo)
    BY <1>2, <1>7, <2>3
  <2>9. QED
    BY <1>1, <2>7, <2>8 DEF Does
<1>8. QED
  BY <1>4, <1>5, <1>6, <1>7

LEMMA visit_stringDoes ==
    ASSUME visit_string, NEW r, NEW p \in BOOLEAN, NEW b, Visits(node, At(Track(flag), r, p), b)
    PROVE  Does(At(Track(flag), r, p), b)
<1> DEFINE n == node
           a == At(Track(flag), r, p)
           x == Tok("string", n.val, 0)
<1>1. n.type = "STRING" /\ UNCHANGED <<flag, out>> /\ todo' = <<x>> \o Tail(todo)
  BY DEF visit_string, Visiting, node, Do
<1>2. x.k = "string" /\ "string" \in Tokens \ {"nl"} /\ "string" \in Kinds(n)
  BY <1>1 DEF Tok, Tokens, Plain, Kinds
<1>3. LeafOperand(n, a, b)
  BY <1>1, VisitsBy
<1> HIDE DEF x, n
<1>4. r # <<>> /\ Kinds(n) \subseteq Head(r) /\ b = At(Track(flag), Tail(r), p)
  BY <1>3, LeafHere
<1>6. Effect(x, a, b)
  BY <1>2, <1>4, NextOperand
<1>7. QED
  BY <1>1, <1>6, LeadsOne DEF Does

\* The flags a leaf looks at, by what is tracked of them.
LEMMA FlagsHere ==
    ASSUME NEW f, Track(flag) = f
    PROVE  /\ flag.from_return = f["from_return"] /\ flag.from_call = f["from_call"]
           /\ flag.from_minus = f["from_minus"] /\ flag.args = f["args"] /\ flag.not = f["not"]
           /\ flag.bin_op = f["bin_op"] /\ flag.from_if = f["from_if"] /\ flag.scope = f["scope"]
           /\ flag.params = f["params"] /\ flag.from_dim = f["from_dim"]
           /\ flag.from_loop = f["from_loop"] /\ flag.loop_num = f["loop_num"]
BY TrackIs DEF Tracked, FlagNames

LEMMA visit_idDoes ==
    ASSUME visit_id, NEW r, NEW p \in BOOLEAN, NEW b, Visits(node, At(Track(flag), r, p), b)
    PROVE  Does(At(Track(flag), r, p), b)
<1> DEFINE n == node
           a == At(Track(flag), r, p)
           end == IF flag.args # 0 THEN <<NL>> ELSE <<>>
           w == <<Tok("word", n.val, 0), Add("from_call", -1)>>
           t == TF(n.val)
           g == GF(n.val)
           s == <<Op("PUSHS"), t, Add("from_return", -1)>>
           te == <<t>> \o end
           ge == <<g>> \o end
<1>1. n.type = "ID" /\ UNCHANGED <<flag, out>>
  BY DEF visit_id, Visiting, node
<1>2. /\ flag.from_call = 1 => todo' = w \o Tail(todo)
      /\ flag.from_call # 1 /\ flag.from_return = 1 => todo' = s \o Tail(todo)
      /\ flag.from_call # 1 /\ flag.from_return # 1 =>
            todo' = te \o Tail(todo) \/ todo' = ge \o Tail(todo)
  <2>1. CASE flag.from_call = 1
    BY <2>1 DEF visit_id, Do
  <2>2. CASE flag.from_call # 1 /\ flag.from_return = 1
    BY <2>2 DEF visit_id, Do
  <2>3. CASE flag.from_call # 1 /\ flag.from_return # 1
    <3> DEFINE local == flag.from_func = 1 /\ flag.from_return = 0
    <3>1. CASE local
      BY <2>3, <3>1 DEF visit_id, Do
    <3>2. CASE ~local
      BY <2>3, <3>2 DEF visit_id, Do
    <3>3. QED
      BY <3>1, <3>2
  <2> HIDE DEF te, ge, w, s
  <2>4. QED
    BY <2>1, <2>2, <2>3
<1>3. /\ t.k = "TF" /\ g.k = "GF" /\ {"TF", "GF"} \subseteq Sym /\ {"TF", "GF"} = Kinds(n)
      /\ {"TF", "GF"} \subseteq Tokens \ {"nl"}
  BY <1>1 DEF TF, GF, Tok, Tokens, Plain, Sym, Var, Kinds
<1>4. LeafOperand(n, a, b) \/ LeafReturned(n, a, b) \/ LeafCalled(n, a, b) \/ LeafPassed(n, a, b)
  BY <1>1, VisitsBy
<1>5. /\ flag.args = 0 => te = <<t>> /\ ge = <<g>>
      /\ flag.args # 0 => te = <<t, NL>> /\ ge = <<g, NL>>
  <2> HIDE DEF t, g
  <2>1. flag.args = 0 => te = <<t>> /\ ge = <<g>>
    <3>1. <<t>> \o <<>> = <<t>> /\ <<g>> \o <<>> = <<g>>
      <4>1. <<t>> \in Seq({t}) /\ <<g>> \in Seq({g})
        OBVIOUS
      <4>2. QED
        BY <4>1, ConcatEmptySeq
    <3>2. QED
      BY <3>1
  <2>2. flag.args # 0 => te = <<t, NL>> /\ ge = <<g, NL>>
    <3>1. <<t, NL>> = <<t>> \o <<NL>> /\ <<g, NL>> = <<g>> \o <<NL>>
      BY LongerOne, Zenon
    <3>2. QED
      BY <3>1, Zenon
  <2>3. QED
    BY <2>1, <2>2
<1> HIDE DEF n, t, g, end, te, ge
<1>6. CASE LeafOperand(n, a, b)
  <2>1. /\ Track(flag) \in Bare /\ r # <<>> /\ Kinds(n) \subseteq Head(r)
        /\ b = At(Track(flag), Tail(r), p)
    BY <1>6, LeafHere
  <2>2. flag.from_return = 0 /\ flag.from_call = 0 /\ flag.args = 0
    BY <2>1, FlagsHere DEF Bare
  <2>3. Effect(t, a, b) /\ Effect(g, a, b)
    BY <1>3, <2>1, NextOperand
  <2>4. Leads(te, a, b) /\ Leads(ge, a, b)
    BY <1>5, <2>2, <2>3, LeadsOne
  <2>5. todo' = te \o Tail(todo) \/ todo' = ge \o Tail(todo)
    BY <1>2, <2>2
  <2>6. QED
    BY <1>1, <2>4, <2>5 DEF Does
<1>7. CASE LeafReturned(n, a, b)
  <2>1. PICK f \in Calm : a = At(With(f, "from_return", 1), <<>>, FALSE) /\ b = At(f, <<Nl>>, FALSE)
    BY <1>7 DEF LeafReturned
  <2> DEFINE h == With(f, "from_return", 1)
  <2>2. /\ f \in Flags /\ {"from_return", "from_call"} \subseteq Tracked
        /\ f["from_return"] = 0 /\ f["from_call"] = 0
    BY ContextTracked DEF Calm
  <2>3. flag.from_return = 1 /\ flag.from_call = 0
    <3>1. Track(flag) = h
      BY <2>1 DEF At
    <3>2. h["from_return"] = 1 /\ h["from_call"] = 0
      BY <2>2, WithFacts
    <3> HIDE DEF h
    <3>3. QED
      BY <3>1, <3>2, FlagsHere
  <2>4. Effect(Op("PUSHS"), a, At(h, <<Sym, Nl>>, FALSE))
    BY <2>1, LacksOf, Begins DEF Instructions
  <2>5. Effect(t, At(h, <<Sym, Nl>>, FALSE), At(h, <<Nl>>, FALSE))
    BY <1>3, Operand
  <2>6. Effect(Add("from_return", -1), At(h, <<Nl>>, FALSE), b)
    BY <2>1, <2>2, BackTo
  <2> HIDE DEF h
  <2>7. Leads(s, a, b)
    BY <2>4, <2>5, <2>6, LeadsThree
  <2>8. todo' = s \o Tail(todo)
    BY <1>2, <2>3
  <2> HIDE DEF s
  <2>9. QED
    BY <1>1, <2>7, <2>8 DEF Does
<1>8. CASE LeafCalled(n, a, b)
  <2>1. PICK f \in Calm : /\ a = At(With(f, "from_call", 1), <<Label, Nl>>, TRUE)
                          /\ b = At(f, <<Nl>>, TRUE)
    BY <1>8 DEF LeafCalled
  <2> DEFINE h == With(f, "from_call", 1)
             x == Tok("word", n.val, 0)
  <2>2. f \in Flags /\ "from_call" \in Tracked /\ f["from_call"] = 0
    BY ContextTracked DEF Calm
  <2>3. flag.from_call = 1
    <3>1. Track(flag) = h
      BY <2>1 DEF At
    <3>2. h["from_call"] = 1
      BY <2>2, WithFacts
    <3> HIDE DEF h
    <3>3. QED
      BY <3>1, <3>2, FlagsHere
  <2>4. x.k = "word" /\ "word" \in Tokens \ {"nl"} /\ "word" \in Label
    BY DEF Tok, Tokens, Plain, Label
  <2>5. Effect(x, a, At(h, <<Nl>>, TRUE))
    <3> HIDE DEF x, h
    <3>1. TRUE \in BOOLEAN
      OBVIOUS
    <3>2. Effect(x, At(h, <<Label, Nl>>, TRUE), At(h, <<Nl>>, TRUE))
      BY <2>4, <3>1, Operand
    <3>3. QED
      BY <2>1, <3>2 DEF h
  <2>6. Effect(Add("from_call", -1), At(h, <<Nl>>, TRUE), b)
    BY <2>1, <2>2, BackTo
  <2> HIDE DEF h, x
  <2>7. Leads(<<x, Add("from_call", -1)>>, a, b)
    BY <2>5, <2>6, LeadsTwo
  <2>8. todo' = <<x, Add("from_call", -1)>> \o Tail(todo)
    BY <1>2, <2>3 DEF x
  <2>9. QED
    BY <1>1, <2>7, <2>8 DEF Does
<1>9. CASE LeafPassed(n, a, b)
  <2>1. PICK f \in Calm : /\ a = At(With(f, "args", 1), <<Sym, Nl>>, FALSE)
                          /\ b = Start(With(f, "args", 1))
    BY <1>9 DEF LeafPassed
  <2> DEFINE h == With(f, "args", 1)
  <2>2. /\ f \in Flags /\ {"args", "from_return", "from_call"} \subseteq Tracked
        /\ f["from_return"] = 0 /\ f["from_call"] = 0
    BY ContextTracked DEF Calm
  <2>3. flag.args = 1 /\ flag.from_return = 0 /\ flag.from_call = 0
    <3>1. Track(flag) = h
      BY <2>1 DEF At
    <3>2. h["args"] = 1 /\ \A v \in Tracked : v # "args" => h[v] = f[v]
      BY <2>2, WithFacts
    <3> HIDE DEF h
    <3>3. QED
      BY <2>2, <3>1, <3>2, FlagsHere
  <2>4. /\ Effect(t, a, At(h, <<Nl>>, FALSE)) /\ Effect(g, a, At(h, <<Nl>>, FALSE))
    BY <1>3, <2>1, Operand
  <2>5. Effect(NL, At(h, <<Nl>>, FALSE), b)
    BY <2>1, Ends DEF Start
  <2> HIDE DEF h
  <2>6. Leads(te, a, b) /\ Leads(ge, a, b)
    <3>1. Leads(<<t, NL>>, a, b) /\ Leads(<<g, NL>>, a, b)
      BY <2>4, <2>5, LeadsTwo
    <3>2. te = <<t, NL>> /\ ge = <<g, NL>>
      BY <1>5, <2>3
    <3>3. QED
      BY <3>1, <3>2, Zenon
  <2>7. todo' = te \o Tail(todo) \/ todo' = ge \o Tail(todo)
    BY <1>2, <2>3
  <2>8. QED
    BY <1>1, <2>6, <2>7 DEF Does
<1>10. QED
  BY <1>4, <1>6, <1>7, <1>8, <1>9

\* A visit does what the node is up to.
LEMMA VisitIs ==
    ASSUME NEW n, NEW a, NEW b, Visits(n, a, b)
    PROVE  Effect(Visit(n), a, b)
<1>1. Visit(n).k = "visit" /\ Visit(n).node = n
  BY DEF Visit
<1>2. QED
  BY <1>1, Zenon DEF Effect

\* Calm flags, and what leaves do not look at among them.
LEMMA CalmFacts ==
    ASSUME NEW f \in Calm
    PROVE  /\ f \in Flags /\ f \in Bare
           /\ \A v \in ContextFlags : /\ v \in Tracked /\ f[v] = 0
                                      /\ \A x \in Int : /\ With(f, v, x)[v] = x
                                                        /\ \A w \in Tracked : w # v => With(f, v, x)[w] = f[w]
<1>1. f \in Flags /\ \A v \in ContextFlags : v \in Tracked /\ f[v] = 0
  BY ContextTracked DEF Calm
<1>2. QED
  BY <1>1, WithFacts, BareFlags

LEMMA visit_silentDoes ==
    ASSUME visit_silent, NEW r, NEW p \in BOOLEAN, NEW b, Visits(node, At(Track(flag), r, p), b)
    PROVE  Does(At(Track(flag), r, p), b)
<1> DEFINE n == node
           a == At(Track(flag), r, p)
<1>1. n.type \in Silent /\ UNCHANGED <<flag, out>> /\ todo' = <<>> \o Tail(todo)
  BY DEF visit_silent, node, Do
<1>2. StatementLines(n, a, b)
  BY <1>1, VisitsBy
<1>3. b = a
  BY <1>2 DEF StatementLines
<1>4. QED
  BY <1>1, <1>3, LeadsNone DEF Does

\* A variable is declared, and another one; a parameter is taken from the stack.
LEMMA Declares ==
    ASSUME NEW i, i.type = "ID", NEW f \in Bare
    PROVE  /\ Leads(<<Op("DEFVAR"), Visit(i), NL>>, Start(f), Start(f))
           /\ Leads(<<Op("DEFVAR"), Visit(i), NL, Op("POPS"), Visit(i), NL>>, Start(f), Start(f))
<1> DEFINE x == Visit(i)
<1>1. \A q \in BOOLEAN : Effect(x, At(f, <<Var, Nl>>, q), At(f, <<Nl>>, q))
  <2>1. i.type \in Leaf /\ Kinds(i) \subseteq Var
    BY KindsAre
  <2>2. QED
    BY <2>1, Leaves
<1> HIDE DEF x
<1>2. Lacks("DEFVAR") = <<Var, Nl>> /\ Lacks("POPS") = <<Var, Nl>>
  BY LacksOf
<1>3. \A q \in BOOLEAN : Effect(Op("DEFVAR"), Start(f), At(f, <<Var, Nl>>, q))
  BY <1>2, Begins DEF Start, Instructions
<1>4. Effect(Op("POPS"), At(f, <<>>, TRUE), At(f, <<Var, Nl>>, FALSE))
  BY <1>2, Begins DEF Instructions
<1>5. Effect(NL, At(f, <<Nl>>, TRUE), At(f, <<>>, TRUE)) /\ Effect(NL, At(f, <<Nl>>, FALSE), Start(f))
  BY Ends DEF Start
<1>6. Leads(<<Op("DEFVAR"), x, NL>>, Start(f), Start(f))
  BY <1>1, <1>3, <1>5, LeadsThree
<1>7. Leads(<<Op("DEFVAR"), x, NL, Op("POPS"), x, NL>>, Start(f), Start(f))
  BY <1>1, <1>3, <1>4, <1>5, LeadsSix
<1>8. QED
  BY <1>6, <1>7 DEF x

\* What is left of a declaration is one.
LEMMA DeclRest ==
    ASSUME NEW n, Decl(n), n.vec # <<>>
    PROVE  Head(n.vec) \in Ids /\ Decl([n EXCEPT !.vec = Tail(@)])
<1>1. Head(n.vec) \in Ids /\ Tail(n.vec) \in Seq(Ids)
  BY VecTail DEF Decl
<1>2. QED
  BY <1>1 DEF Decl

LEMMA visit_declDoes ==
    ASSUME visit_decl, NEW r, NEW p \in BOOLEAN, NEW b, Visits(node, At(Track(flag), r, p), b)
    PROVE  Does(At(Track(flag), r, p), b)
<1> DEFINE n == node
           a == At(Track(flag), r, p)
<1>1. n.type = "DECL" /\ UNCHANGED <<flag, out>>
  BY DEF visit_decl, Visiting, node
<1>2. DeclLines(n, a, b)
  BY <1>1, VisitsBy
<1>3. PICK f \in Calm : Decl(n) /\ (a = Start(f) \/ a = Start(With(f, "params", 1))) /\ b = a
  BY <1>2 DEF DeclLines
<1>4. CASE n.vec = <<>>
  <2>1. todo' = <<>> \o Tail(todo)
    BY <1>4 DEF visit_decl, Do
  <2>2. QED
    BY <1>1, <1>3, <2>1, LeadsNone DEF Does
<1>5. CASE n.vec # <<>>
  <2> DEFINE i == Head(n.vec)
             left == [n EXCEPT !.vec = Tail(@)]
             rest == <<Visit(left)>>
             x == <<Op("DEFVAR"), Visit(i), NL, Op("POPS"), Visit(i), NL>>
             y == <<Op("DEFVAR"), Visit(i), NL>>
  <2>1. i.type = "ID" /\ Decl(left)
    BY <1>3, <1>5, DeclRest DEF Ids, OfType
  <2>2. Track(flag) \in Bare /\ a = Start(Track(flag))
    <3>1. a = Start(f) => Track(flag) = f /\ a = Start(Track(flag))
      BY DEF At, Start
    <3>2. a = Start(With(f, "params", 1)) => Track(flag) = With(f, "params", 1) /\ a = Start(Track(flag))
      BY DEF At, Start
    <3>3. QED
      BY <1>3, <3>1, <3>2, BareFlags
  <2>3. flag.from_dim # 1
    <3>1. a = Start(f) => Track(flag) = f
      BY DEF At, Start
    <3>2. a = Start(With(f, "params", 1)) => Track(flag) = With(f, "params", 1)
      BY DEF At, Start
    <3>3. f["from_dim"] = 0 /\ With(f, "params", 1)["from_dim"] = 0
      <4>1. "params" \in ContextFlags /\ "from_dim" \in ContextFlags /\ "params" # "from_dim"
        BY ContextTracked
      <4>2. QED
        BY <4>1, CalmFacts
    <3>4. QED
      BY <1>3, <3>1, <3>2, <3>3, FlagsHere
  <2>4. todo' = (x \o rest) \o Tail(todo) \/ todo' = (y \o rest) \o Tail(todo)
    BY <1>5, <2>3 DEF visit_decl, Do
  <2>5. Leads(x, a, a) /\ Leads(y, a, a)
    BY <2>1, <2>2, Declares
  <2>6. Leads(rest, a, a)
    <3>1. DeclLines(left, a, a)
      BY <1>3, <2>1, Zenon DEF DeclLines
    <3>2. Visits(left, a, a)
      BY <3>1, Zenon DEF Visits
    <3> HIDE DEF left
    <3>3. QED
      BY <3>2, VisitIs, LeadsOne
  <2> HIDE DEF x, y, rest
  <2>7. Leads(x \o rest, a, a) /\ Leads(y \o rest, a, a)
    BY <2>5, <2>6, LeadsCat
  <2>8. QED
    BY <1>1, <1>3, <2>4, <2>7 DEF Does
<1>6. QED
  BY <1>4, <1>5

LEMMA visit_dimDoes ==
    ASSUME visit_dim, NEW r, NEW p \in BOOLEAN, NEW b, Visits(node, At(Track(flag), r, p), b)
    PROVE  Does(At(Track(flag), r, p), b)
<1> DEFINE n == node
           a == At(Track(flag), r, p)
<1>1. n.type = "DIM" /\ UNCHANGED <<flag, out>>
  BY DEF visit_dim, Visiting, node
<1>2. DimLines(n, a, b)
  BY <1>1, VisitsBy
<1>3. PICK f \in Calm : /\ n.vec \in Seq(Dims) /\ {"type", "vec"} \subseteq DOMAIN n
                        /\ a = Start(f) /\ b = a
  BY <1>2 DEF DimLines
<1>4. CASE n.vec = <<>>
  <2>1. todo' = <<>> \o Tail(todo)
    BY <1>4 DEF visit_dim, Do
  <2>2. QED
    BY <1>1, <1>3, <2>1, LeadsNone DEF Does
<1>5. CASE n.vec # <<>>
  <2> DEFINE bin == Head(n.vec)
             x == Visit(bin.left)
             left == [n EXCEPT !.vec = Tail(@)]
             rest == <<Visit(left)>>
  <2>1. bin \in Dims /\ Tail(n.vec) \in Seq(Dims)
    BY <1>3, <1>5, VecTail
  <2>2. bin.right = Null /\ Decl(bin.left)
    BY <2>1 DEF Dims, Decl
  <2>3. todo' = (<<x>> \o <<>> \o rest) \o Tail(todo)
    BY <1>5, <2>2 DEF visit_dim, Do
  <2>4. Leads(<<x>>, a, a)
    <3>1. DeclLines(bin.left, a, a)
      BY <1>3, <2>2, Zenon DEF DeclLines
    <3>2. Visits(bin.left, a, a)
      BY <3>1, Zenon DEF Visits
    <3>3. QED
      BY <3>2, VisitIs, LeadsOne
  <2>5. Leads(rest, a, a)
    <3>1. left.type = "DIM" /\ left.vec = Tail(n.vec) /\ {"type", "vec"} \subseteq DOMAIN left
      BY <1>1, <1>3
    <3> HIDE DEF left
    <3>2. DimLines(left, a, a)
      BY <1>3, <2>1, <3>1 DEF DimLines
    <3>3. Visits(left, a, a)
      BY <3>2, Zenon DEF Visits
    <3>4. QED
      BY <3>3, VisitIs, LeadsOne
  <2> HIDE DEF x, rest
  <2>6. Leads(<<x>> \o <<>> \o rest, a, a)
    BY <2>4, <2>5, LeadsNone, LeadsCat
  <2>7. QED
    BY <1>1, <1>3, <2>3, <2>6 DEF Does
<1>6. QED
  BY <1>4, <1>5

LEMMA visit_paramsDoes ==
    ASSUME visit_params, NEW a, NEW b, ParamLines(Head(todo).vec, a, b)
    PROVE  Does(a, b)
<1> DEFINE vec == Head(todo).vec
           S == {n \in Nodes : Decl(n)}
<1>1. PICK f \in Calm : vec \in Seq(S) /\ a = Start(f) /\ b = a
  BY DEF ParamLines
<1>2. UNCHANGED <<flag, out>>
  BY DEF visit_params
<1>3. CASE vec = <<>>
  <2>1. todo' = <<>> \o Tail(todo)
    BY <1>3 DEF visit_params, Do
  <2>2. QED
    BY <1>1, <1>2, <2>1, LeadsNone DEF Does
<1>4. CASE vec # <<>>
  <2> DEFINE n == Head(vec)
             g == With(f, "params", 1)
             x == Visit(n)
             y == Params(Tail(vec))
             s == <<Add("params", 1), x, Add("params", -1), y>>
  <2>1. todo' = s \o Tail(todo)
    BY <1>4 DEF visit_params, Do
  <2>2. n \in S /\ Tail(vec) \in Seq(S)
    <3> HIDE DEF S, vec
    <3>1. QED
      BY <1>1, <1>4, VecTail
  <2>3. "params" \in ContextFlags
    BY ContextTracked
  <2>4. Effect(Add("params", 1), Start(f), Start(g)) /\ Effect(Add("params", -1), Start(g), Start(f))
    BY <2>3, Context DEF Start
  <2>5. Effect(x, Start(g), Start(g))
    <3>1. Decl(n)
      BY <2>2
    <3>2. DeclLines(n, Start(g), Start(g))
      BY <3>1, Zenon DEF DeclLines
    <3>3. Visits(n, Start(g), Start(g))
      BY <3>2, Zenon DEF Visits
    <3>4. QED
      BY <3>3, VisitIs
  <2>6. Effect(y, Start(f), Start(f))
    <3>1. y.k = "params" /\ y.vec = Tail(vec)
      BY DEF Params
    <3>2. ParamLines(Tail(vec), Start(f), Start(f))
      BY <2>2, Zenon DEF ParamLines
    <3> HIDE DEF y
    <3>3. QED
      BY <3>1, <3>2, Zenon DEF Effect
  <2> HIDE DEF x, y, g
  <2>7. Leads(s, Start(f), Start(f))
    BY <2>4, <2>5, <2>6, LeadsFour
  <2> HIDE DEF s
  <2>8. QED
    BY <1>1, <1>2, <2>1, <2>7 DEF Does
<1>5. QED
  BY <1>3, <1>4

LEMMA visit_returnDoes ==
    ASSUME visit_return, NEW r, NEW p \in BOOLEAN, NEW b, Visits(node, At(Track(flag), r, p), b)
    PROVE  Does(At(Track(flag), r, p), b)
<1> DEFINE n == node
           a == At(Track(flag), r, p)
           x == Visit(n.expr)
           s == <<Add("from_return", 1), x, NL>>
           t == <<Op("RETURN"), NL>>
           some == IF n.expr = Null THEN <<>> ELSE s
<1>1. n.type = "RETURN" /\ UNCHANGED <<flag, out>> /\ todo' = (some \o t) \o Tail(todo)
  BY DEF visit_return, Visiting, node, Do
<1>2. StatementLines(n, a, b)
  BY <1>1, VisitsBy
<1>3. PICK f \in Calm : TidySimple(n, f.scope = 1) /\ a = Start(f) /\ b = a
  BY <1>2 DEF StatementLines
<1>4. n.expr = Null \/ n.expr.type \in {"INT", "ID"}
  BY <1>1, <1>3 DEF TidySimple, Silent
<1>5. Leads(t, a, a)
  BY <1>3, LacksOf, LineNone DEF Instructions, Start
<1>6. n.expr.type \in {"INT", "ID"} => Leads(s, a, a)
  <2> DEFINE g == With(f, "from_return", 1)
  <2>1. SUFFICES ASSUME n.expr.type \in {"INT", "ID"} PROVE Leads(s, a, a)
    OBVIOUS
  <2>2. Effect(Add("from_return", 1), a, At(g, <<>>, FALSE))
    <3>1. "from_return" \in ContextFlags
      BY ContextTracked
    <3>2. QED
      BY <1>3, <3>1, Context DEF Start
  <2>3. LeafReturned(n.expr, At(g, <<>>, FALSE), At(f, <<Nl>>, FALSE))
    BY <2>1, Zenon DEF LeafReturned
  <2>4. Effect(x, At(g, <<>>, FALSE), At(f, <<Nl>>, FALSE))
    <3>1. Visits(n.expr, At(g, <<>>, FALSE), At(f, <<Nl>>, FALSE))
      BY <2>3, Zenon DEF Visits
    <3>2. QED
      BY <3>1, VisitIs
  <2>5. Effect(NL, At(f, <<Nl>>, FALSE), a)
    BY <1>3, Ends DEF Start
  <2> HIDE DEF x, g, n
  <2>6. QED
    BY <2>2, <2>4, <2>5, LeadsThree
<1> HIDE DEF s, t, n
<1>7. Leads(some, a, a)
  BY <1>4, <1>6, LeadsNone
<1> HIDE DEF some
<1>8. Leads(some \o t, a, a)
  BY <1>5, <1>7, LeadsCat
<1>9. QED
  BY <1>1, <1>3, <1>8 DEF Does

LEMMA visit_unary_opDoes ==
    ASSUME visit_unary_op, NEW r, NEW p \in BOOLEAN, NEW b, Visits(node, At(Track(flag), r, p), b)
    PROVE  Does(At(Track(flag), r, p), b)
<1> DEFINE n == node
           a == At(Track(flag), r, p)
           x == Visit(n.expr)
           up == Add("not", 1)
           clear == Set("not", 0)
           move == IF flag.from_dim # 1 THEN <<Op("MOVE")>> ELSE <<>>
           not == <<up>> \o emit_op(n)
           neg == <<up>> \o move
           notted == <<x, clear>>
           negated == <<Add("from_minus", 1), x, clear>>
<1>1. n.type = "UNARY_OP" /\ UNCHANGED <<flag, out>>
  BY DEF visit_unary_op, Visiting, node
<1>2. UnaryFirst(n, a, b) \/ UnaryThen(n, a, b)
  BY <1>1, VisitsBy
<1>3. /\ n.op = "OP_LNOT" /\ flag.not = 0 => todo' = not \o Tail(todo)
      /\ n.op = "OP_LNOT" /\ flag.not = 2 => todo' = notted \o Tail(todo)
      /\ n.op = "OP_MINUS" /\ flag.not = 0 => todo' = neg \o Tail(todo)
      /\ n.op = "OP_MINUS" /\ flag.not = 2 => todo' = negated \o Tail(todo)
  <2>1. \/ n.op = "OP_LNOT" /\ flag.not = 0 /\ todo' = not \o Tail(todo)
        \/ n.op = "OP_LNOT" /\ flag.not = 2 /\ todo' = notted \o Tail(todo)
        \/ n.op = "OP_MINUS" /\ flag.not = 0 /\ todo' = neg \o Tail(todo)
        \/ n.op = "OP_MINUS" /\ flag.not = 2 /\ todo' = negated \o Tail(todo)
        \/ ~(n.op \in {"OP_LNOT", "OP_MINUS"} /\ flag.not \in {0, 2})
    BY DEF visit_unary_op, Do
  <2> HIDE DEF not, neg, notted, negated
  <2>2. QED
    BY <2>1
<1>4. n.op = "OP_LNOT" => emit_op(n) = <<Op("NOT")>>
  BY DEF emit_op, Mnemonic
<1>5. /\ "not" \in ContextFlags /\ "from_dim" \in ContextFlags /\ "from_minus" \in ContextFlags
  BY ContextTracked
<1> HIDE DEF n, x, up, clear, not, neg, notted, negated
<1>6. CASE UnaryFirst(n, a, b)
  <2>1. PICK f \in Calm : /\ TidyUnary(n) /\ a = Start(f)
                          /\ b = At(With(f, "not", 1), <<Var, Sym, Nl>>, FALSE)
    BY <1>6 DEF UnaryFirst
  <2> DEFINE g == With(f, "not", 1)
  <2>2. flag.not = 0 /\ flag.from_dim = 0
    <3>1. Track(flag) = f
      BY <2>1 DEF At, Start
    <3>2. QED
      BY <1>5, <3>1, CalmFacts, FlagsHere
  <2>3. Effect(up, a, Start(g))
    BY <1>5, <2>1, Context DEF up, Start
  <2>4. Effect(Op("NOT"), Start(g), b) /\ Effect(Op("MOVE"), Start(g), b)
    BY <2>1, LacksOf, Begins DEF Instructions, Start
  <2> HIDE DEF g
  <2>5. Leads(<<up>>, a, Start(g)) /\ Leads(<<Op("NOT")>>, Start(g), b)
        /\ Leads(<<Op("MOVE")>>, Start(g), b)
    BY <2>3, <2>4, LeadsOne
  <2>6. n.op \in {"OP_LNOT", "OP_MINUS"}
    BY <2>1 DEF TidyUnary
  <2>7. n.op = "OP_LNOT" => Leads(not, a, b)
    BY <1>4, <2>5, LeadsCat DEF not
  <2>8. Leads(neg, a, b)
    <3>1. move = <<Op("MOVE")>>
      BY <2>2
    <3> HIDE DEF move
    <3>2. QED
      BY <2>5, <3>1, LeadsCat DEF neg
  <2> HIDE DEF move
  <2>9. QED
    BY <1>1, <1>3, <2>2, <2>6, <2>7, <2>8 DEF Does
<1>7. CASE UnaryThen(n, a, b)
  <2>1. PICK f \in Calm : /\ TidyUnary(n) /\ a = At(With(f, "not", 2), <<Sym, Nl>>, FALSE)
                          /\ b = At(f, <<Nl>>, FALSE)
    BY <1>7 DEF UnaryThen
  <2> DEFINE g == With(f, "not", 2)
             h == With(g, "from_minus", 1)
  <2>2. flag.not = 2
    <3>1. Track(flag) = g
      BY <2>1 DEF At
    <3>2. g["not"] = 2
      BY <1>5, CalmFacts
    <3> HIDE DEF g
    <3>3. QED
      BY <3>1, <3>2, FlagsHere
  <2>3. g \in Bare /\ g \in Flags /\ "from_minus" \in Tracked /\ g["from_minus"] = 0
    <3>1. f \in Flags /\ "not" \in Tracked /\ 2 \in Int /\ "from_minus" # "not"
      BY <1>5, CalmFacts
    <3>2. g \in Flags
      BY <3>1, WithFacts
    <3>3. g \in Bare
      BY BareFlags
    <3>4. "from_minus" \in Tracked /\ g["from_minus"] = 0
      BY <1>5, CalmFacts
    <3>5. QED
      BY <3>2, <3>3, <3>4
  <2>4. Effect(clear, At(g, <<Nl>>, FALSE), b)
    <3>1. \A s, q : Effect(Set("not", 0), At(g, s, q), At(f, s, q))
      BY <1>5, Context
    <3>2. QED
      BY <2>1, <3>1, Zenon DEF clear
  <2>5. CASE n.op = "OP_LNOT"
    <3>1. n.expr.type \in Leaf /\ Kinds(n.expr) \subseteq Sym
      BY <2>1, <2>5, KindsAre DEF TidyUnary
    <3>2. Effect(x, a, At(g, <<Nl>>, FALSE))
      BY <2>1, <2>3, <3>1, Leaves DEF x
    <3> HIDE DEF g, h
    <3>3. Leads(notted, a, b)
      BY <2>4, <3>2, LeadsTwo DEF notted
    <3>4. todo' = notted \o Tail(todo)
      BY <1>3, <2>2, <2>5
    <3>5. QED
      BY <1>1, <3>3, <3>4 DEF Does
  <2>6. CASE n.op = "OP_MINUS"
    <3>1. n.expr.type \in {"INT", "DOUBLE"}
      BY <2>1, <2>6 DEF TidyUnary
    <3>2. Effect(Add("from_minus", 1), a, At(h, <<Sym, Nl>>, FALSE))
      <4> HIDE DEF g
      <4>1. \A s, q : Effect(Add("from_minus", 1), At(g, s, q), At(h, s, q))
        BY <2>3, Counts
      <4> HIDE DEF h
      <4>2. a = At(g, <<Sym, Nl>>, FALSE)
        BY <2>1 DEF g
      <4> HIDE DEF a
      <4>3. QED
        BY <4>1, <4>2, Zenon
    <3>3. LeafMinus(n.expr, At(h, <<Sym, Nl>>, FALSE), At(g, <<Nl>>, FALSE))
      <4>1. 2 \in Int
        OBVIOUS
      <4>2. QED
        BY <3>1, <4>1, Zenon DEF LeafMinus
    <3>4. Effect(x, At(h, <<Sym, Nl>>, FALSE), At(g, <<Nl>>, FALSE))
      <4>1. Visits(n.expr, At(h, <<Sym, Nl>>, FALSE), At(g, <<Nl>>, FALSE))
        BY <3>3, Zenon DEF Visits
      <4>2. QED
        BY <4>1, VisitIs DEF x
    <3> HIDE DEF g, h
    <3>5. Leads(negated, a, b)
      BY <2>4, <3>2, <3>4, LeadsThree DEF negated
    <3>6. todo' = negated \o Tail(todo)
      BY <1>3, <2>2, <2>6
    <3>7. QED
      BY <1>1, <3>5, <3>6 DEF Does
  <2>7. QED
    BY <2>1, <2>5, <2>6 DEF TidyUnary
<1>8. QED
  BY <1>2, <1>6, <1>7

LEMMA visit_callDoes ==
    ASSUME visit_call, NEW r, NEW p \in BOOLEAN, NEW b, Visits(node, At(Track(flag), r, p), b)
    PROVE  Does(At(Track(flag), r, p), b)
<1> DEFINE n == node
           vec == n.args.vec
           len == Len(vec)
           a == At(Track(flag), r, p)
           each == [i \in 1 .. len |-> Visit(vec[i])]
           set == Set("args", len)
           push == IF len = 0 THEN <<>> ELSE <<Op("PUSHS")>> \o each \o <<Set("args", 0)>>
           call == <<Op("CALL"), Add("from_call", 1), Visit(n.expr)>>
<1>1. n.type = "CALL" /\ UNCHANGED <<flag, out>>
  BY DEF visit_call, Visiting, node
<1>2. CallLine(n, a, b)
  BY <1>1, VisitsBy
<1>3. PICK f \in Calm : /\ n \in Nodes /\ TidyCall(n) /\ f["scope"] = 1
                        /\ a = Start(f) /\ b = At(f, <<Nl>>, TRUE)
  BY <1>2 DEF CallLine
<1>4. Track(flag) = f /\ flag.scope = 1
  <2>1. Track(flag) = f
    BY <1>3 DEF At, Start
  <2>2. QED
    BY <1>3, <2>1, FlagsHere
<1>5. todo' = (<<set>> \o push \o call) \o Tail(todo)
  BY <1>4 DEF visit_call, Do
<1>6. /\ n.expr.type = "ID" /\ vec \in Seq(Node) /\ len \in {0, 1}
      /\ len = 1 => vec[1].type = "ID"
  <2>1. vec \in Seq(Node)
    BY <1>1, <1>3, MembersOfNode
  <2>2. len \in Nat /\ len <= 1 /\ n.expr.type = "ID" /\ \A i \in DOMAIN vec : vec[i].type = "ID"
    <3> HIDE DEF n
    <3>1. n.expr.type = "ID" /\ len <= 1 /\ AllIds(vec)
      BY <1>3 DEF TidyCall
    <3> HIDE DEF vec
    <3>2. QED
      BY <2>1, <3>1 DEF AllIds
  <2>3. len \in {0, 1}
    <3> HIDE DEF len
    <3>1. QED
      BY <2>2
  <2>4. len = 1 => 1 \in DOMAIN vec
    <3> HIDE DEF vec
    <3>1. QED
      BY <2>1
  <2>5. QED
    BY <2>1, <2>2, <2>3, <2>4, Zenon
<1>7. {"args", "from_call"} \subseteq ContextFlags
  BY ContextTracked
<1> DEFINE g == With(f, "args", 1)
<1>8. Leads(<<set>> \o push, a, a)
  <2>1. CASE len = 0
    <3>1. set = Set("args", 0) /\ push = <<>>
      BY <2>1
    <3>2. \A s, q : Effect(Set("args", 0), At(f, s, q), At(f, s, q))
      BY <1>7, Context
    <3> HIDE DEF set, push
    <3>3. Leads(<<set>>, a, a)
      BY <1>3, <3>1, <3>2, LeadsOne DEF Start
    <3>4. Leads(<<set>> \o <<>>, a, a)
      BY <3>3, LeadsNone, LeadsCat
    <3>5. QED
      BY <3>1, <3>4, Zenon
  <2>2. CASE len = 1
    <3> DEFINE x == Visit(vec[1])
    <3>1. set = Set("args", 1) /\ push = <<Op("PUSHS")>> \o each \o <<Set("args", 0)>>
      BY <2>2
    <3>2. each = <<x>>
      <4> HIDE DEF vec
      <4>1. QED
        BY <2>2
    <3>3. \A s, q : /\ Effect(Set("args", 1), At(f, s, q), At(g, s, q))
                    /\ Effect(Set("args", 0), At(g, s, q), At(f, s, q))
      BY <1>7, Context
    <3>4. Effect(Op("PUSHS"), Start(g), At(g, <<Sym, Nl>>, FALSE))
      BY LacksOf, Begins DEF Instructions, Start
    <3>5. Effect(x, At(g, <<Sym, Nl>>, FALSE), Start(g))
      <4>1. LeafPassed(vec[1], At(g, <<Sym, Nl>>, FALSE), Start(g))
        BY <1>6, <2>2, Zenon DEF LeafPassed
      <4>2. Visits(vec[1], At(g, <<Sym, Nl>>, FALSE), Start(g))
        BY <4>1, Zenon DEF Visits
      <4>3. QED
        BY <4>2, VisitIs
    <3> HIDE DEF set, push, each, x, g
    <3>6. Leads(<<set>>, a, Start(g)) /\ Leads(<<Set("args", 0)>>, Start(g), a)
      BY <1>3, <3>1, <3>3, LeadsOne DEF Start
    <3>7. Leads(<<Op("PUSHS")>>, Start(g), At(g, <<Sym, Nl>>, FALSE))
          /\ Leads(each, At(g, <<Sym, Nl>>, FALSE), Start(g))
      BY <3>2, <3>4, <3>5, LeadsOne
    <3>8. Leads(<<Op("PUSHS")>> \o each, Start(g), Start(g))
      BY <3>7, LeadsCat
    <3>9. Leads(push, Start(g), a)
      BY <3>1, <3>6, <3>8, LeadsCat
    <3>10. QED
      BY <3>6, <3>9, LeadsCat
  <2>3. QED
    BY <1>6, <2>1, <2>2
<1>9. Leads(call, a, b)
  <2> DEFINE h == With(f, "from_call", 1)
             x == Visit(n.expr)
  <2>1. Effect(Op("CALL"), a, At(f, <<Label, Nl>>, TRUE))
    BY <1>3, LacksOf, Begins DEF Instructions, Start
  <2>2. Effect(Add("from_call", 1), At(f, <<Label, Nl>>, TRUE), At(h, <<Label, Nl>>, TRUE))
    <3>1. \A s, q : Effect(Add("from_call", 1), At(f, s, q), At(h, s, q))
      BY <1>7, Context
    <3>2. QED
      BY <3>1, Zenon
  <2>3. Effect(x, At(h, <<Label, Nl>>, TRUE), b)
    <3>1. LeafCalled(n.expr, At(h, <<Label, Nl>>, TRUE), b)
      BY <1>3, <1>6, Zenon DEF LeafCalled
    <3>2. Visits(n.expr, At(h, <<Label, Nl>>, TRUE), b)
      BY <3>1, Zenon DEF Visits
    <3>3. QED
      BY <3>2, VisitIs
  <2> HIDE DEF h, x
  <2>4. QED
    BY <2>1, <2>2, <2>3, LeadsThree DEF x
<1> HIDE DEF set, push, call
<1>10. Leads(<<set>> \o push \o call, a, b)
  BY <1>8, <1>9, LeadsCat
<1>11. QED
  BY <1>1, <1>5, <1>10 DEF Does

-----------------------------------------------------------------------------
(* Binary operations.                                                      *)

\* The run-time type check is whole lines.
LEMMA Checks ==
    ASSUME NEW n, n.left.type \in Leaf, n.right.type \in Leaf, NEW f \in Bare
    PROVE  Leads(TypeCheck(n), Start(f), Start(f))
<1> DEFINE x == Visit(n.left)
           y == Visit(n.right)
<1>1. /\ Effect(x, At(f, <<Sym, Nl>>, FALSE), At(f, <<Nl>>, FALSE))
      /\ Effect(y, At(f, <<Sym, Nl>>, FALSE), At(f, <<Nl>>, FALSE))
  BY KindsAre, Leaves
<1>2. Effect(Op("TYPE"), Start(f), At(f, <<Var, Sym, Nl>>, FALSE))
  BY LacksOf, Begins DEF Instructions, Start
<1>3. /\ Effect(TB1, At(f, <<Var, Sym, Nl>>, FALSE), At(f, <<Sym, Nl>>, FALSE))
      /\ Effect(TB2, At(f, <<Var, Sym, Nl>>, FALSE), At(f, <<Sym, Nl>>, FALSE))
  <2>1. TB1.k = "TF" /\ TB2.k = "TF" /\ "TF" \in Tokens \ {"nl"} /\ "TF" \in Var
    BY DEF TB1, TB2, TF, Tok, Tokens, Plain, Var
  <2>2. QED
    BY <2>1, Operand
<1>4. Effect(NL, At(f, <<Nl>>, FALSE), Start(f))
  BY Ends DEF Start
<1>5. Effect(TypeGuard, Start(f), Start(f))
  <2>1. TypeGuard.k = "typeguard"
    BY DEF TypeGuard
  <2>2. QED
    BY <2>1, Zenon DEF Effect
<1> HIDE DEF x, y
<1>6. Leads(<<Op("TYPE"), TB1, x, NL, Op("TYPE"), TB2, y, NL, TypeGuard>>, Start(f), Start(f))
  BY <1>1, <1>2, <1>3, <1>4, <1>5, LeadsNine
<1>7. QED
  BY <1>6 DEF TypeCheck, x, y

\* Two leaves and the line's end.
LEMMA OperandsEnd ==
    ASSUME NEW n, n.left.type \in Leaf, n.right.type \in Leaf, NEW f \in Bare
    PROVE  Leads(<<Visit(n.left), Visit(n.right), NL>>, At(f, <<Sym, Sym, Nl>>, FALSE), Start(f))
<1> DEFINE x == Visit(n.left)
           y == Visit(n.right)
<1>1. /\ Effect(x, At(f, <<Sym, Sym, Nl>>, FALSE), At(f, <<Sym, Nl>>, FALSE))
      /\ Effect(y, At(f, <<Sym, Nl>>, FALSE), At(f, <<Nl>>, FALSE))
  BY KindsAre, Leaves
<1>2. Effect(NL, At(f, <<Nl>>, FALSE), Start(f))
  BY Ends DEF Start
<1> HIDE DEF x, y
<1>3. QED
  BY <1>1, <1>2, LeadsThree DEF x, y

\* A label is printed where a jump lacks one.
LabelItems == {"resifref", "divref", "divdef"}

LEMMA LabelHere ==
    ASSUME NEW x, x.k \in LabelItems, NEW f
    PROVE  /\ \A B : Effect(x, At(f, <<Label, B>>, FALSE), At(f, <<B>>, FALSE))
           /\ \A B, C, D : Effect(x, At(f, <<Label, B, C, D>>, FALSE), At(f, <<B, C, D>>, FALSE))
<1>1. ASSUME NEW r, NEW t, r # <<>>, Head(r) = Label, Tail(r) = t
      PROVE  Effect(x, At(f, r, FALSE), At(f, t, FALSE))
  <2>1. At(f, r, FALSE).flag = f /\ {"def", "ref"} \subseteq Label
    BY DEF At, Label
  <2>2. Labels(f, f, At(f, r, FALSE), At(f, t, FALSE))
    BY <1>1, <2>1, Zenon DEF Labels
  <2>3. Labels(At(f, r, FALSE).flag, At(f, r, FALSE).flag, At(f, r, FALSE), At(f, t, FALSE))
    BY <2>1, <2>2, Zenon
  <2>4. QED
    BY <2>3, Zenon DEF Effect, LabelItems
<1>2. \A B : <<Label, B>> # <<>> /\ Head(<<Label, B>>) = Label /\ Tail(<<Label, B>>) = <<B>>
  OBVIOUS
<1>3. \A B, C, D : /\ <<Label, B, C, D>> # <<>> /\ Head(<<Label, B, C, D>>) = Label
                   /\ Tail(<<Label, B, C, D>>) = <<B, C, D>>
  OBVIOUS
<1>4. \A B : Effect(x, At(f, <<Label, B>>, FALSE), At(f, <<B>>, FALSE))
  BY <1>1, <1>2
<1>5. \A B, C, D : Effect(x, At(f, <<Label, B, C, D>>, FALSE), At(f, <<B, C, D>>, FALSE))
  BY <1>1, <1>3
<1>6. QED
  BY <1>4, <1>5

\* So are the lines that make an operand of a division a float.
LEMMA Floats ==
    ASSUME NEW e, e.type = "ID", NEW v, NEW f \in Bare
    PROVE  Leads(ToFloat(e, v), Start(f), Start(f))
<1> DEFINE x == Visit(e)
           c == DivRef(FALSE, "int2float")
           d == DivRef(TRUE, "label_cont")
           i == DivDef(FALSE, v)
           j == DivDef(TRUE, "label_cont")
           one == Tok("float", "1.5", 0)
           l1 == <<Op("TYPE"), TB1, x, NL>>
           l2 == <<Op("TYPE"), TB2, one, NL>>
           l3 == <<Add("int2float", 1), Op("JUMPIFNEQ"), c, TB1, TB2, NL>>
           l4 == <<Add("label_cont", 1), Op("JUMP"), d, NL>>
           l5 == <<Op("LABEL"), i, NL>>
           l6 == <<Op("INT2FLOAT"), x, x, NL>>
           l7 == <<Op("LABEL"), j, NL>>
<1>1. /\ Effect(x, At(f, <<Sym, Nl>>, FALSE), At(f, <<Nl>>, FALSE))
      /\ Effect(x, At(f, <<Var, Sym, Nl>>, FALSE), At(f, <<Sym, Nl>>, FALSE))
  <2>1. e.type \in Leaf /\ Kinds(e) \subseteq Sym /\ Kinds(e) \subseteq Var
    BY KindsAre DEF Leaf
  <2>2. QED
    BY <2>1, Leaves
<1>2. c.k \in LabelItems /\ d.k \in LabelItems /\ i.k \in LabelItems /\ j.k \in LabelItems
  BY DEF DivRef, DivDef, LabelItems
<1>3. /\ TB1.k \in Tokens \ {"nl"} /\ TB1.k \in Var /\ TB1.k \in Sym
      /\ TB2.k \in Tokens \ {"nl"} /\ TB2.k \in Var /\ TB2.k \in Sym
      /\ one.k \in Tokens \ {"nl"} /\ one.k \in Sym
  BY DEF TB1, TB2, TF, Tok, Tokens, Plain, Var, Sym
<1>4. \A s, q : /\ Effect(Add("int2float", 1), At(f, s, q), At(f, s, q))
                /\ Effect(Add("label_cont", 1), At(f, s, q), At(f, s, q))
  BY Untracked, ContextTracked
<1>5. Effect(NL, At(f, <<Nl>>, FALSE), Start(f))
  BY Ends DEF Start
<1> HIDE DEF x, c, d, i, j, one
<1>6. Leads(l1, Start(f), Start(f)) /\ Leads(l2, Start(f), Start(f))
  <2>1. /\ Effect(TB1, At(f, <<Var, Sym, Nl>>, FALSE), At(f, <<Sym, Nl>>, FALSE))
        /\ Effect(TB2, At(f, <<Var, Sym, Nl>>, FALSE), At(f, <<Sym, Nl>>, FALSE))
        /\ Effect(one, At(f, <<Sym, Nl>>, FALSE), At(f, <<Nl>>, FALSE))
    BY <1>3, Operand
  <2>2. "TYPE" \in Instructions /\ Lacks("TYPE") = <<Var, Sym, Nl>>
    BY LacksOf DEF Instructions
  <2>3. QED
    BY <1>1, <2>1, <2>2, LineTwo DEF Start
<1>7. Leads(l3, Start(f), Start(f))
  <2>1. Effect(Op("JUMPIFNEQ"), Start(f), At(f, <<Label, Sym, Sym, Nl>>, FALSE))
    BY LacksOf, Begins DEF Instructions, Start
  <2>2. Effect(c, At(f, <<Label, Sym, Sym, Nl>>, FALSE), At(f, <<Sym, Sym, Nl>>, FALSE))
    BY <1>2, LabelHere
  <2>3. /\ Effect(TB1, At(f, <<Sym, Sym, Nl>>, FALSE), At(f, <<Sym, Nl>>, FALSE))
        /\ Effect(TB2, At(f, <<Sym, Nl>>, FALSE), At(f, <<Nl>>, FALSE))
    BY <1>3, Operand
  <2>4. Effect(Add("int2float", 1), Start(f), Start(f))
    BY <1>4 DEF Start
  <2>5. QED
    BY <1>5, <2>1, <2>2, <2>3, <2>4, LeadsSix
<1>8. Leads(l4, Start(f), Start(f))
  <2>1. Effect(Op("JUMP"), Start(f), At(f, <<Label, Nl>>, FALSE))
    BY LacksOf, Begins DEF Instructions, Start
  <2>2. Effect(d, At(f, <<Label, Nl>>, FALSE), At(f, <<Nl>>, FALSE))
    BY <1>2, LabelHere
  <2>3. Effect(Add("label_cont", 1), Start(f), Start(f))
    BY <1>4 DEF Start
  <2>4. QED
    BY <1>5, <2>1, <2>2, <2>3, LeadsFour
<1>9. Leads(l5, Start(f), Start(f)) /\ Leads(l7, Start(f), Start(f))
  <2>1. Effect(Op("LABEL"), Start(f), At(f, <<Label, Nl>>, FALSE))
    BY LacksOf, Begins DEF Instructions, Start
  <2>2. /\ Effect(i, At(f, <<Label, Nl>>, FALSE), At(f, <<Nl>>, FALSE))
        /\ Effect(j, At(f, <<Label, Nl>>, FALSE), At(f, <<Nl>>, FALSE))
    BY <1>2, LabelHere
  <2>3. QED
    BY <1>5, <2>1, <2>2, LeadsThree
<1>10. Leads(l6, Start(f), Start(f))
  <2>1. Effect(Op("INT2FLOAT"), Start(f), At(f, <<Var, Sym, Nl>>, FALSE))
    BY LacksOf, Begins DEF Instructions, Start
  <2>2. QED
    BY <1>1, <1>5, <2>1, LeadsFour
<1>11. ToFloat(e, v) = l1 \o l2 \o l3 \o l4 \o l5 \o l6 \o l7
  BY DEF ToFloat, x, c, d, i, j, one
<1> HIDE DEF l1, l2, l3, l4, l5, l6, l7
<1>12. Leads(l1 \o l2 \o l3 \o l4 \o l5 \o l6 \o l7, Start(f), Start(f))
  <2>1. Leads(l1 \o l2 \o l3, Start(f), Start(f))
    BY <1>6, <1>7, LeadsCat
  <2>2. Leads(l1 \o l2 \o l3 \o l4 \o l5, Start(f), Start(f))
    BY <1>8, <1>9, <2>1, LeadsCat
  <2>3. QED
    BY <1>9, <1>10, <2>2, LeadsCat
<1>13. QED
  BY <1>11, <1>12

\* An arithmetic node prints all but its operands first,
LEMMA ArithmeticFirst ==
    ASSUME NEW n, TidyArithmetic(n), NEW f \in Bare
    PROVE  Leads(emit_op(n), Start(f), At(f, <<Var, Sym, Sym, Nl>>, FALSE))
<1> DEFINE e == At(f, <<Var, Sym, Sym, Nl>>, FALSE)
<1>1. /\ n.op \in Arithmetic /\ n.left.type \in Leaf /\ n.right.type \in Leaf
      /\ n.op = "OP_DIV" => n.left.type = "ID" /\ n.right.type = "ID"
  BY DEF TidyArithmetic, Flat
<1>2. ASSUME NEW s \in {"ADD", "SUB", "MUL", "DIV", "AND", "OR"}
      PROVE  Leads(<<Op(s)>>, Start(f), e)
  <2>1. s \in Instructions /\ s # "POPS" /\ Lacks(s) = <<Var, Sym, Sym, Nl>>
    BY LacksOf DEF Instructions
  <2>2. Effect(Op(s), Start(f), e)
    BY <2>1, Begins DEF Start
  <2>3. QED
    BY <2>2, LeadsOne
<1> HIDE DEF e
<1>3. CASE n.op \in {"OP_PLUS", "OP_MINUS", "OP_MUL"}
  <2> DEFINE s == Mnemonic[n.op]
             o == <<Op(s)>>
  <2>1. s \in {"ADD", "SUB", "MUL"} /\ emit_op(n) = TypeCheck(n) \o o
    BY <1>3 DEF emit_op, Mnemonic
  <2>2. Leads(TypeCheck(n), Start(f), Start(f))
    BY <1>1, Checks
  <2> HIDE DEF s
  <2>3. Leads(o, Start(f), e)
    BY <1>2, <2>1
  <2> HIDE DEF o
  <2>4. Leads(TypeCheck(n) \o o, Start(f), e)
    BY <2>2, <2>3, LeadsCat
  <2>5. QED
    BY <2>1, <2>4 DEF e
<1>4. CASE n.op \in {"OP_BIT_AND", "OP_BIT_OR"}
  <2> DEFINE s == Mnemonic[n.op]
             o == <<Op(s)>>
  <2>1. s \in {"AND", "OR"} /\ emit_op(n) = o
    BY <1>4 DEF emit_op, Mnemonic
  <2> HIDE DEF s
  <2>2. Leads(o, Start(f), e)
    BY <1>2, <2>1
  <2> HIDE DEF o
  <2>3. QED
    BY <2>1, <2>2 DEF e
<1>5. CASE n.op = "OP_DIV"
  <2> DEFINE set == <<Set("int2float", 0), Set("label_cont", 0)>>
             l == ToFloat(n.left, "int2float")
             r == ToFloat(n.right, "label_cont")
             div == <<Op("DIV")>>
  <2>1. emit_op(n) = set \o l \o r \o div
    BY <1>5 DEF emit_op
  <2>2. \A s, q : /\ Effect(Set("int2float", 0), At(f, s, q), At(f, s, q))
                  /\ Effect(Set("label_cont", 0), At(f, s, q), At(f, s, q))
    BY Untracked, ContextTracked
  <2>3. Leads(set, Start(f), Start(f))
    BY <2>2, LeadsTwo DEF Start
  <2>4. Leads(l, Start(f), Start(f)) /\ Leads(r, Start(f), Start(f))
    BY <1>1, <1>5, Floats
  <2>5. Leads(div, Start(f), e)
    BY <1>2
  <2> HIDE DEF set, l, r, div
  <2>6. Leads(set \o l \o r, Start(f), Start(f))
    BY <2>3, <2>4, LeadsCat
  <2>7. Leads(set \o l \o r \o div, Start(f), e)
    BY <2>5, <2>6, LeadsCat
  <2>8. QED
    BY <2>1, <2>7 DEF e
<1>6. QED
  BY <1>1, <1>3, <1>4, <1>5 DEF Arithmetic

\* then its operands.
LEMMA BinarySecond ==
    ASSUME NEW n, TidyArithmetic(n), NEW f \in Calm
    PROVE  Leads(<<Visit(n.left), Visit(n.right), NL>> \o <<Add("bin_op", -2)>>,
                 At(With(f, "bin_op", 2), <<Sym, Sym, Nl>>, FALSE), Start(f))
<1> DEFINE g == With(f, "bin_op", 2)
           s == <<Visit(n.left), Visit(n.right), NL>>
           t == <<Add("bin_op", -2)>>
<1>1. n.left.type \in Leaf /\ n.right.type \in Leaf
  BY DEF TidyArithmetic, Flat
<1>2. g \in Bare
  BY BareFlags
<1>3. Effect(Add("bin_op", -2), Start(g), Start(f))
  <2>1. "bin_op" \in ContextFlags
    BY ContextTracked
  <2>2. QED
    BY <2>1, Context DEF Start
<1> HIDE DEF g
<1>5. Leads(s, At(g, <<Sym, Sym, Nl>>, FALSE), Start(g)) /\ Leads(t, Start(g), Start(f))
  BY <1>1, <1>2, <1>3, OperandsEnd, LeadsOne
<1> HIDE DEF s, t
<1>6. Leads(s \o t, At(g, <<Sym, Sym, Nl>>, FALSE), Start(f))
  BY <1>5, LeadsCat
<1>7. QED
  BY <1>6 DEF s, t, g

\* The comparison of a condition jumps to the branch,
LEMMA ComparesIf ==
    ASSUME NEW n, Flat(n, {"OP_EQ", "OP_NEQ"}), NEW f \in Calm
    PROVE  Leads(emit_op(n) \o <<Visit(n.left), Visit(n.right), NL>>,
                 Start(With(f, "from_if", 1)), Start(f))
<1> DEFINE g == With(f, "from_if", 1)
           s == TypeCheck(n)
           eq == <<Op("JUMPIFEQ"), IfTarget, LoopTarget>>
           neq == <<Op("JUMPIFNEQ"), IfTarget>>
           t == <<Visit(n.left), Visit(n.right), NL>>
           a == At(g, <<Label, Sym, Sym, Nl>>, FALSE)
           b == At(f, <<Sym, Sym, Nl>>, FALSE)
<1>1. n.left.type \in Leaf /\ n.right.type \in Leaf /\ n.op \in {"OP_EQ", "OP_NEQ"}
  BY DEF Flat
<1>2. g \in Bare /\ f \in Bare
  BY BareFlags
<1>3. /\ f \in Flags /\ "from_if" \in Tracked /\ f["from_if"] = 0 /\ f["from_loop"] = 0
      /\ g["from_if"] = 1 /\ With(g, "from_if", 0) = f
  <2>1. {"from_if", "from_loop"} \subseteq ContextFlags
    BY ContextTracked
  <2>2. f \in Flags /\ "from_if" \in Tracked /\ f["from_if"] = 0 /\ f["from_loop"] = 0
    BY <2>1, CalmFacts
  <2>3. QED
    BY <2>2, WithFacts
<1>4. Effect(Op("JUMPIFEQ"), Start(g), a) /\ Effect(Op("JUMPIFNEQ"), Start(g), a)
  BY LacksOf, Begins DEF Instructions, Start
<1>5. Effect(IfTarget, a, b)
  <2>1. IfTarget.k = "iftarget" /\ a.flag = g /\ {"def", "ref"} \subseteq Label
    BY DEF IfTarget, At, Label
  <2> DEFINE r == <<Label, Sym, Sym, Nl>>
             u == <<Sym, Sym, Nl>>
  <2>2. r # <<>> /\ Head(r) = Label /\ Tail(r) = u
    OBVIOUS
  <2> HIDE DEF g, r, u
  <2>3. Labels(g, f, At(g, r, FALSE), At(f, u, FALSE))
    BY <2>1, <2>2, Zenon DEF Labels
  <2>4. Labels(a.flag, With(a.flag, "from_if", 0), a, b) /\ a.flag["from_if"] = 1
    BY <1>3, <2>1, <2>3 DEF r, u
  <2> HIDE DEF a, b
  <2>5. QED
    BY <2>1, <2>4, Zenon DEF Effect
<1>6. Effect(LoopTarget, b, b)
  <2>1. LoopTarget.k = "looptarget" /\ b.flag = f
    BY DEF LoopTarget, At
  <2> HIDE DEF b
  <2>2. b.flag["from_loop"] = 0
    BY <1>3, <2>1
  <2>3. b.flag.from_loop # 1
    BY <2>2
  <2>4. QED
    BY <2>1, <2>3, Zenon DEF Effect
<1> HIDE DEF g, b, a
<1>7. Leads(eq, Start(g), b) /\ Leads(neq, Start(g), b)
  BY <1>4, <1>5, <1>6, LeadsTwo, LeadsThree
<1>8. Leads(s, Start(g), Start(g)) /\ Leads(t, b, Start(f))
  BY <1>1, <1>2, Checks, OperandsEnd DEF b
<1>9. emit_op(n) = s \o eq \/ emit_op(n) = s \o neq
  BY <1>1 DEF emit_op
<1> HIDE DEF s, eq, neq, t
<1>10. Leads((s \o eq) \o t, Start(g), Start(f)) /\ Leads((s \o neq) \o t, Start(g), Start(f))
  BY <1>7, <1>8, LeadsCat
<1>11. QED
  BY <1>9, <1>10 DEF g, t

\* so does an assignment there, which only compares.
LEMMA AssignsIf ==
    ASSUME NEW n, Flat(n, {"OP_ASSIGN"}), NEW f \in Calm
    PROVE  Leads(AssignInIf(n), Start(With(f, "from_if", 1)), Start(f))
<1> DEFINE g == With(f, "from_if", 1)
           s == TypeCheck(n)
           x == Visit(n.left)
           y == Visit(n.right)
           t == <<Op("JUMPIFEQ"), ResIfRef, y, x, NL>>
           u == <<Add("from_if", -1)>>
<1>1. n.left.type \in Leaf /\ n.right.type \in Leaf
  BY DEF Flat
<1>2. g \in Bare
  BY BareFlags
<1>3. Effect(Add("from_if", -1), Start(g), Start(f))
  <2>1. "from_if" \in ContextFlags
    BY ContextTracked
  <2>2. QED
    BY <2>1, Context DEF Start
<1> HIDE DEF g
<1>4. Effect(Op("JUMPIFEQ"), Start(g), At(g, <<Label, Sym, Sym, Nl>>, FALSE))
  BY LacksOf, Begins DEF Instructions, Start
<1>5. Effect(ResIfRef, At(g, <<Label, Sym, Sym, Nl>>, FALSE), At(g, <<Sym, Sym, Nl>>, FALSE))
  <2>1. ResIfRef.k \in LabelItems
    BY DEF ResIfRef, LabelItems
  <2>2. QED
    BY <2>1, LabelHere
<1>6. /\ Effect(y, At(g, <<Sym, Sym, Nl>>, FALSE), At(g, <<Sym, Nl>>, FALSE))
      /\ Effect(x, At(g, <<Sym, Nl>>, FALSE), At(g, <<Nl>>, FALSE))
  BY <1>1, <1>2, KindsAre, Leaves
<1>7. Effect(NL, At(g, <<Nl>>, FALSE), Start(g))
  BY Ends DEF Start
<1> HIDE DEF x, y
<1>8. Leads(s, Start(g), Start(g)) /\ Leads(t, Start(g), Start(g)) /\ Leads(u, Start(g), Start(f))
  BY <1>1, <1>2, <1>3, <1>4, <1>5, <1>6, <1>7, Checks, LeadsFive, LeadsOne
<1> HIDE DEF s, t, u
<1>9. Leads((s \o t) \o u, Start(g), Start(f))
  BY <1>8, LeadsCat
<1>10. QED
  BY <1>9 DEF AssignInIf, CompareItems, s, t, u, x, y, g

\* The condition of a loop jumps back and takes the loop's number down.
LEMMA ComparesLoop ==
    ASSUME NEW n, Flat(n, {"OP_EQ"}), NEW f \in Calm
    PROVE  Leads(emit_op(n) \o <<Visit(n.left), Visit(n.right), NL>>,
                 Start(With(f, "from_loop", 1)), Start(With(f, "loop_num", f.loop_num - 1)))
<1> DEFINE g == With(f, "from_loop", 1)
           h == With(f, "loop_num", f.loop_num - 1)
           s == TypeCheck(n)
           eq == <<Op("JUMPIFEQ"), IfTarget, LoopTarget>>
           t == <<Visit(n.left), Visit(n.right), NL>>
           a == At(g, <<Label, Sym, Sym, Nl>>, FALSE)
           b == At(h, <<Sym, Sym, Nl>>, FALSE)
<1>1. n.left.type \in Leaf /\ n.right.type \in Leaf /\ n.op = "OP_EQ"
  BY DEF Flat
<1>2. /\ f \in Flags /\ {"loop_num", "from_loop", "from_if"} \subseteq Tracked /\ f["from_if"] = 0
      /\ f["from_loop"] = 0 /\ f["loop_num"] \in Int /\ f["loop_num"] - 1 \in Int
      /\ \A v \in ContextFlags : v # "loop_num"
  <2>1. {"from_if", "from_loop"} \subseteq ContextFlags /\ "loop_num" \in Tracked
        /\ \A v \in ContextFlags : v # "loop_num"
    BY ContextTracked
  <2>2. f \in Flags /\ f["from_if"] = 0 /\ f["from_loop"] = 0
    BY <2>1, CalmFacts
  <2>3. f["loop_num"] \in Int
    BY <2>1, <2>2, WithFacts
  <2>4. QED
    BY <2>1, <2>2, <2>3, ContextTracked
<1>3. g \in Bare /\ h \in Calm
  <2> DEFINE x == f["loop_num"] - 1
  <2>1. x \in Int /\ h = With(f, "loop_num", x)
    BY <1>2
  <2> HIDE DEF x, h
  <2>2. h \in Flags /\ \A v \in Tracked : v # "loop_num" => h[v] = f[v]
    <3>1. f \in Flags /\ "loop_num" \in Tracked
      BY <1>2
    <3>2. /\ With(f, "loop_num", x) \in Flags
          /\ \A v \in Tracked : v # "loop_num" => With(f, "loop_num", x)[v] = f[v]
      BY <2>1, <3>1, WithFacts, SMTT(60)
    <3>3. QED
      BY <2>1, <3>2, Zenon
  <2>3. \A v \in ContextFlags : v \in Tracked /\ h[v] = 0
    BY <1>2, <2>2, ContextTracked DEF Calm
  <2>4. QED
    BY <2>2, <2>3, BareFlags DEF Calm
<1>4. h \in Bare
  BY <1>3, BareFlags
<1>5. /\ g["from_if"] = 0 /\ g["from_loop"] = 1 /\ g["loop_num"] = f["loop_num"]
      /\ With(With(g, "loop_num", f["loop_num"] - 1), "from_loop", 0) = h
  <2>1. g["from_if"] = 0 /\ g["from_loop"] = 1 /\ g["loop_num"] = f["loop_num"]
    BY <1>2, WithFacts
  <2>2. With(With(g, "loop_num", f["loop_num"] - 1), "from_loop", 0) = h
    BY <1>2 DEF With, Flags
  <2>3. QED
    BY <2>1, <2>2
<1>6. Effect(Op("JUMPIFEQ"), Start(g), a)
  BY LacksOf, Begins DEF Instructions, Start
<1>7. Effect(IfTarget, a, a)
  <2>1. IfTarget.k = "iftarget" /\ a.flag = g
    BY DEF IfTarget, At
  <2> HIDE DEF a, g
  <2>2. a.flag["from_if"] = 0
    BY <1>5, <2>1
  <2>3. a.flag.from_if # 1
    BY <2>2
  <2>4. QED
    BY <2>1, <2>3, Zenon DEF Effect
<1>8. Effect(LoopTarget, a, b)
  <2> DEFINE r == <<Label, Sym, Sym, Nl>>
             u == <<Sym, Sym, Nl>>
  <2>1. LoopTarget.k = "looptarget" /\ a.flag = g /\ {"def", "ref"} \subseteq Label
    BY DEF LoopTarget, At, Label
  <2>2. r # <<>> /\ Head(r) = Label /\ Tail(r) = u
    OBVIOUS
  <2> HIDE DEF g, h, r, u
  <2>3. Labels(g, h, At(g, r, FALSE), At(h, u, FALSE))
    BY <2>1, <2>2, Zenon DEF Labels
  <2>4. Labels(g, h, a, b)
    BY <2>3 DEF r, u
  <2> HIDE DEF a, b
  <2>5. /\ a.flag["from_loop"] = 1 /\ a.flag["loop_num"] = f["loop_num"]
        /\ With(With(a.flag, "loop_num", f["loop_num"] - 1), "from_loop", 0) = h
    BY <1>5, <2>1
  <2>6. Labels(a.flag, With(With(a.flag, "loop_num", a.flag["loop_num"] - 1), "from_loop", 0), a, b)
    BY <2>1, <2>4, <2>5
  <2>7. QED
    BY <2>1, <2>5, <2>6, Zenon DEF Effect
<1> HIDE DEF g, h, a, b
<1>9. Leads(eq, Start(g), b)
  BY <1>6, <1>7, <1>8, LeadsThree
<1>10. Leads(s, Start(g), Start(g)) /\ Leads(t, b, Start(h))
  BY <1>1, <1>3, <1>4, Checks, OperandsEnd DEF b
<1>11. emit_op(n) = s \o eq
  BY <1>1 DEF emit_op
<1> HIDE DEF s, eq, t
<1>12. Leads((s \o eq) \o t, Start(g), Start(h))
  BY <1>9, <1>10, LeadsCat
<1>13. QED
  BY <1>11, <1>12 DEF g, h, t

\* What an assignment prints of its value.
LEMMA AssignsLeaf ==
    ASSUME NEW l, l.type = "ID", NEW r, r.type \in Leaf, NEW f \in Calm
    PROVE  Leads(<<Op("MOVE"), Visit(l), Visit(r), NL>>, Start(f), Start(f))
<1> DEFINE x == Visit(l)
           y == Visit(r)
<1>1. "MOVE" \in Instructions /\ "MOVE" # "POPS" /\ Lacks("MOVE") = <<Var, Sym, Nl>> /\ f \in Bare
  BY LacksOf, CalmFacts DEF Instructions
<1>2. /\ Effect(x, At(f, <<Var, Sym, Nl>>, FALSE), At(f, <<Sym, Nl>>, FALSE))
      /\ Effect(y, At(f, <<Sym, Nl>>, FALSE), At(f, <<Nl>>, FALSE))
  BY <1>1, KindsAre, Leaves
<1> HIDE DEF x, y
<1>3. Leads(<<Op("MOVE"), x, y, NL>>, At(f, <<>>, FALSE), Start(f))
  BY <1>1, <1>2, LineTwo
<1>4. QED
  BY <1>3 DEF x, y, Start

LEMMA AssignsUnary ==
    ASSUME NEW l, l.type = "ID", NEW r, TidyUnary(r), NEW f \in Calm
    PROVE  Leads(<<Visit(r), Add("not", 1), Visit(l), Visit(r), NL>>, Start(f), Start(f))
<1> DEFINE x == Visit(l)
           y == Visit(r)
           g == With(f, "not", 1)
           h == With(f, "not", 2)
<1>1. h \in Bare /\ "not" \in ContextFlags
  BY BareFlags, ContextTracked
<1>2. Effect(y, Start(f), At(g, <<Var, Sym, Nl>>, FALSE))
  <2>1. UnaryFirst(r, Start(f), At(g, <<Var, Sym, Nl>>, FALSE))
    BY Zenon DEF UnaryFirst
  <2>2. Visits(r, Start(f), At(g, <<Var, Sym, Nl>>, FALSE))
    BY <2>1, Zenon DEF Visits
  <2>3. QED
    BY <2>2, VisitIs
<1>3. Effect(Add("not", 1), At(g, <<Var, Sym, Nl>>, FALSE), At(h, <<Var, Sym, Nl>>, FALSE))
  <2>1. \A s, q : Effect(Add("not", 1), At(g, s, q), At(h, s, q))
    BY <1>1, Context
  <2>2. QED
    BY <2>1, Zenon
<1>4. Effect(x, At(h, <<Var, Sym, Nl>>, FALSE), At(h, <<Sym, Nl>>, FALSE))
  BY <1>1, KindsAre, Leaves
<1>5. Effect(y, At(h, <<Sym, Nl>>, FALSE), At(f, <<Nl>>, FALSE))
  <2>1. UnaryThen(r, At(h, <<Sym, Nl>>, FALSE), At(f, <<Nl>>, FALSE))
    BY Zenon DEF UnaryThen
  <2>2. Visits(r, At(h, <<Sym, Nl>>, FALSE), At(f, <<Nl>>, FALSE))
    BY <2>1, Zenon DEF Visits
  <2>3. QED
    BY <2>2, VisitIs
<1>6. Effect(NL, At(f, <<Nl>>, FALSE), Start(f))
  BY Ends DEF Start
<1> HIDE DEF x, y, g, h
<1>7. Leads(<<y, Add("not", 1), x, y, NL>>, Start(f), Start(f))
  BY <1>2, <1>3, <1>4, <1>5, <1>6, LeadsFive
<1>8. QED
  BY <1>7 DEF x, y

LEMMA AssignsArithmetic ==
    ASSUME NEW l, l.type = "ID", NEW r, TidyArithmetic(r), NEW f \in Calm
    PROVE  Leads(<<Add("bin_op", 1), Visit(r), Visit(l), Add("bin_op", 1), Visit(r)>>,
                 Start(f), Start(f))
<1> DEFINE x == Visit(l)
           y == Visit(r)
           g == With(f, "bin_op", 1)
           h == With(f, "bin_op", 2)
           up == Add("bin_op", 1)
           a == At(g, <<Var, Sym, Sym, Nl>>, FALSE)
<1>1. g \in Bare /\ "bin_op" \in ContextFlags
  BY BareFlags, ContextTracked
<1>2. \A s, q : /\ Effect(up, At(f, s, q), At(g, s, q))
                /\ Effect(up, At(g, s, q), At(h, s, q))
  BY <1>1, Context
<1>3. /\ Effect(up, Start(f), Start(g))
      /\ Effect(up, At(g, <<Sym, Sym, Nl>>, FALSE), At(h, <<Sym, Sym, Nl>>, FALSE))
  BY <1>2, Zenon DEF Start
<1>4. Effect(y, Start(g), a)
  <2>1. BinaryFirst(r, Start(g), a)
    BY Zenon DEF BinaryFirst
  <2>2. Visits(r, Start(g), a)
    BY <2>1, Zenon DEF Visits
  <2>3. QED
    BY <2>2, VisitIs
<1>5. Effect(x, a, At(g, <<Sym, Sym, Nl>>, FALSE))
  BY <1>1, KindsAre, Leaves
<1>6. Effect(y, At(h, <<Sym, Sym, Nl>>, FALSE), Start(f))
  <2>1. BinaryThen(r, At(h, <<Sym, Sym, Nl>>, FALSE), Start(f))
    BY Zenon DEF BinaryThen
  <2>2. Visits(r, At(h, <<Sym, Sym, Nl>>, FALSE), Start(f))
    BY <2>1, Zenon DEF Visits
  <2>3. QED
    BY <2>2, VisitIs
<1> HIDE DEF x, y, g, h, up, a
<1>7. Leads(<<up, y, x, up, y>>, Start(f), Start(f))
  BY <1>3, <1>4, <1>5, <1>6, LeadsFive
<1>8. QED
  BY <1>7 DEF x, y, up

LEMMA AssignsCall ==
    ASSUME NEW l, l.type = "ID", NEW r \in Nodes, TidyCall(r), NEW f \in Calm, f.scope = 1
    PROVE  Leads(<<Visit(r), NL, Op("POPS"), Visit(l), NL>>, Start(f), Start(f))
<1> DEFINE x == Visit(l)
           y == Visit(r)
<1>1. Effect(y, Start(f), At(f, <<Nl>>, TRUE))
  <2>1. CallLine(r, Start(f), At(f, <<Nl>>, TRUE))
    BY Zenon DEF CallLine
  <2>2. Visits(r, Start(f), At(f, <<Nl>>, TRUE))
    BY <2>1, Zenon DEF Visits
  <2>3. QED
    BY <2>2, VisitIs
<1>2. Effect(NL, At(f, <<Nl>>, TRUE), At(f, <<>>, TRUE)) /\ Effect(NL, At(f, <<Nl>>, FALSE), Start(f))
  BY Ends DEF Start
<1>3. Effect(Op("POPS"), At(f, <<>>, TRUE), At(f, <<Var, Nl>>, FALSE))
  BY LacksOf, Begins DEF Instructions
<1>4. Effect(x, At(f, <<Var, Nl>>, FALSE), At(f, <<Nl>>, FALSE))
  BY CalmFacts, KindsAre, Leaves
<1> HIDE DEF x, y
<1>5. Leads(<<y, NL, Op("POPS"), x, NL>>, Start(f), Start(f))
  BY <1>1, <1>2, <1>3, <1>4, LeadsFive
<1>6. QED
  BY <1>5 DEF x, y

LEMMA visit_binary_opDoes ==
    ASSUME visit_binary_op, NEW r, NEW p \in BOOLEAN, NEW b, Visits(node, At(Track(flag), r, p), b)
    PROVE  Does(At(Track(flag), r, p), b)
<1> DEFINE n == node
           a == At(Track(flag), r, p)
           x == Visit(n.left)
           y == Visit(n.right)
           emit == emit_op(n)
           ops == <<x, y, NL>>
           second == ops \o <<Add("bin_op", -2)>>
           cmp == emit \o ops
           outer == <<Add("bin_op", 1), y, x, Add("bin_op", 1), y>>
           call == <<y, NL, Op("POPS"), x, NL>>
           unary == <<y, Add("not", 1), x, y, NL>>
           move == <<Op("MOVE"), x, y, NL>>
           asg == AssignItems(n)
<1>1. n.type = "BINARY_OP" /\ UNCHANGED <<flag, out>>
  BY DEF visit_binary_op, Visiting, node
<1>2. \/ n.op = "OP_ASSIGN" /\ n.right.type # "BINARY_OP" /\ todo' = asg \o Tail(todo)
      \/ n.op \in Arithmetic /\ flag.bin_op = 1 /\ todo' = emit \o Tail(todo)
      \/ n.op \in Arithmetic /\ flag.bin_op = 2 /\ todo' = second \o Tail(todo)
      \/ n.op \in {"OP_EQ", "OP_NEQ"} /\ todo' = cmp \o Tail(todo)
      \/ n.op \in {"OP_GT", "OP_LT"}
      \/ /\ ~(n.op = "OP_ASSIGN" /\ n.right.type # "BINARY_OP")
         /\ ~(n.op \in Arithmetic /\ flag.bin_op \in {1, 2})
         /\ n.op \notin {"OP_EQ", "OP_NEQ"}
         /\ todo' = outer \o Tail(todo)
  BY DEF visit_binary_op, Do
<1>3. /\ n.right.type = "CALL" => asg = call
      /\ n.right.type = "UNARY_OP" => asg = unary
      /\ n.right.type \notin {"CALL", "UNARY_OP"} /\ flag.from_if = 1 => asg = AssignInIf(n)
      /\ n.right.type \notin {"CALL", "UNARY_OP"} /\ flag.from_if # 1 => asg = move
  BY DEF AssignItems
<1>4. \/ BinaryFirst(n, a, b) \/ BinaryThen(n, a, b) \/ IfCondition(n, a, b)
      \/ LoopCondition(n, a, b) \/ StatementLines(n, a, b)
  BY <1>1, VisitsBy
<1> HIDE DEF n, x, y, emit, ops, second, cmp, outer, call, unary, move, asg
<1>5. /\ n.op = "OP_ASSIGN" /\ n.right.type # "BINARY_OP" => todo' = asg \o Tail(todo)
      /\ n.op \in Arithmetic /\ flag.bin_op = 1 => todo' = emit \o Tail(todo)
      /\ n.op \in Arithmetic /\ flag.bin_op = 2 => todo' = second \o Tail(todo)
      /\ n.op \in {"OP_EQ", "OP_NEQ"} => todo' = cmp \o Tail(todo)
      /\ n.op = "OP_ASSIGN" /\ n.right.type = "BINARY_OP" => todo' = outer \o Tail(todo)
  BY <1>2 DEF Arithmetic
<1>6. {"bin_op", "from_if"} \subseteq ContextFlags
  BY ContextTracked
<1>7. CASE BinaryFirst(n, a, b)
  <2>1. PICK f \in Calm : /\ TidyArithmetic(n) /\ a = Start(With(f, "bin_op", 1))
                          /\ b = At(With(f, "bin_op", 1), <<Var, Sym, Sym, Nl>>, FALSE)
    BY <1>7 DEF BinaryFirst
  <2> DEFINE g == With(f, "bin_op", 1)
  <2>2. g["bin_op"] = 1 /\ g \in Bare
    BY <1>6, CalmFacts, BareFlags
  <2>3. Track(flag) = g
    BY <2>1 DEF At, Start
  <2> HIDE DEF g
  <2>4. flag.bin_op = 1
    BY <2>2, <2>3, FlagsHere
  <2>5. Leads(emit, Start(g), At(g, <<Var, Sym, Sym, Nl>>, FALSE))
    BY <2>1, <2>2, ArithmeticFirst DEF emit
  <2>6. Leads(emit, a, b)
    BY <2>1, <2>5 DEF g
  <2>7. n.op \in Arithmetic
    BY <2>1 DEF TidyArithmetic, Flat
  <2>8. QED
    BY <1>1, <1>5, <2>4, <2>6, <2>7 DEF Does
<1>8. CASE BinaryThen(n, a, b)
  <2>1. PICK f \in Calm : /\ TidyArithmetic(n)
                          /\ a = At(With(f, "bin_op", 2), <<Sym, Sym, Nl>>, FALSE) /\ b = Start(f)
    BY <1>8 DEF BinaryThen
  <2> DEFINE g == With(f, "bin_op", 2)
  <2>2. g["bin_op"] = 2
    BY <1>6, CalmFacts
  <2>3. Track(flag) = g
    BY <2>1 DEF At
  <2> HIDE DEF g
  <2>4. flag.bin_op = 2
    BY <2>2, <2>3, FlagsHere
  <2>5. Leads(second, a, b)
    BY <2>1, BinarySecond DEF second, ops, x, y
  <2>6. n.op \in Arithmetic
    BY <2>1 DEF TidyArithmetic, Flat
  <2>7. QED
    BY <1>1, <1>5, <2>4, <2>5, <2>6 DEF Does
<1>9. CASE IfCondition(n, a, b)
  <2>1. PICK f \in Calm : /\ Flat(n, {"OP_EQ", "OP_NEQ", "OP_ASSIGN"})
                          /\ a = Start(With(f, "from_if", 1)) /\ b = Start(f)
    BY <1>9 DEF IfCondition
  <2> DEFINE g == With(f, "from_if", 1)
  <2>2. g["from_if"] = 1
    BY <1>6, CalmFacts
  <2>3. Track(flag) = g
    BY <2>1 DEF At, Start
  <2> HIDE DEF g
  <2>4. flag.from_if = 1
    BY <2>2, <2>3, FlagsHere
  <2>5. CASE n.op \in {"OP_EQ", "OP_NEQ"}
    <3>1. Flat(n, {"OP_EQ", "OP_NEQ"})
      BY <2>1, <2>5 DEF Flat
    <3>2. Leads(cmp, a, b)
      BY <2>1, <3>1, ComparesIf DEF cmp, emit, ops, x, y
    <3>3. QED
      BY <1>1, <1>5, <2>5, <3>2 DEF Does
  <2>6. CASE n.op = "OP_ASSIGN"
    <3>1. Flat(n, {"OP_ASSIGN"}) /\ n.right.type \notin {"CALL", "UNARY_OP", "BINARY_OP"}
      BY <2>1, <2>6 DEF Flat, Leaf
    <3>2. asg = AssignInIf(n)
      BY <1>3, <2>4, <3>1
    <3>3. Leads(asg, a, b)
      BY <2>1, <3>1, <3>2, AssignsIf
    <3>4. QED
      BY <1>1, <1>5, <2>6, <3>1, <3>3 DEF Does
  <2>7. QED
    BY <2>1, <2>5, <2>6 DEF Flat
<1>10. CASE LoopCondition(n, a, b)
  <2>1. PICK f \in Calm : /\ Flat(n, {"OP_EQ"}) /\ a = Start(With(f, "from_loop", 1))
                          /\ b = Start(With(f, "loop_num", f.loop_num - 1))
    BY <1>10 DEF LoopCondition
  <2>2. Leads(cmp, a, b)
    BY <2>1, ComparesLoop DEF cmp, emit, ops, x, y
  <2>3. n.op = "OP_EQ"
    BY <2>1 DEF Flat
  <2>4. QED
    BY <1>1, <1>5, <2>2, <2>3 DEF Does
<1>11. CASE StatementLines(n, a, b)
  <2>1. PICK f \in Calm : /\ n \in Nodes /\ TidySimple(n, f.scope = 1)
                          /\ a = Start(f) /\ b = a
    BY <1>11 DEF StatementLines
  <2>2. n.op = "OP_ASSIGN" /\ n.left.type = "ID" /\ TidyValue(n.right, f.scope = 1)
    BY <1>1, <2>1 DEF TidySimple, Silent
  <2>3. flag.from_if = 0
    <3>1. Track(flag) = f /\ f["from_if"] = 0
      BY <1>6, <2>1, CalmFacts DEF At, Start
    <3>2. QED
      BY <3>1, FlagsHere
  <2>4. CASE n.right.type \in Leaf
    <3>1. n.right.type \notin {"CALL", "UNARY_OP", "BINARY_OP"}
      BY <2>4 DEF Leaf
    <3>2. Leads(move, a, a)
      BY <2>1, <2>2, <2>4, AssignsLeaf DEF move, x, y
    <3>3. todo' = move \o Tail(todo)
      <4>1. asg = move
        BY <1>3, <2>3, <3>1
      <4>2. todo' = asg \o Tail(todo)
        BY <1>5, <2>2, <3>1
      <4>3. QED
        BY <4>1, <4>2
    <3>4. QED
      BY <1>1, <2>1, <3>2, <3>3 DEF Does
  <2>5. CASE TidyUnary(n.right)
    <3>1. n.right.type = "UNARY_OP"
      BY <2>5 DEF TidyUnary
    <3>2. Leads(unary, a, a)
      BY <2>1, <2>2, <2>5, AssignsUnary DEF unary, x, y
    <3>3. todo' = unary \o Tail(todo)
      BY <1>3, <1>5, <2>2, <3>1
    <3>4. QED
      BY <1>1, <2>1, <3>2, <3>3 DEF Does
  <2>6. CASE TidyArithmetic(n.right)
    <3>1. n.right.type = "BINARY_OP"
      BY <2>6 DEF TidyArithmetic, Flat
    <3>2. Leads(outer, a, a)
      BY <2>1, <2>2, <2>6, AssignsArithmetic DEF outer, x, y
    <3>3. todo' = outer \o Tail(todo)
      BY <1>5, <2>2, <3>1
    <3>4. QED
      BY <1>1, <2>1, <3>2, <3>3 DEF Does
  <2>7. CASE f.scope = 1 /\ TidyCall(n.right)
    <3>1. n.right.type = "CALL" /\ n.right \in Node
      BY <1>1, <2>1, <2>7, MembersOfNode DEF TidyCall
    <3>2. n.right \in Nodes
      BY <3>1 DEF Node, Null
    <3>3. Leads(call, a, a)
      BY <2>1, <2>2, <2>7, <3>2, AssignsCall DEF call, x, y
    <3>4. todo' = call \o Tail(todo)
      BY <1>3, <1>5, <2>2, <3>1
    <3>5. QED
      BY <1>1, <2>1, <3>3, <3>4 DEF Does
  <2>8. QED
    BY <2>2, <2>4, <2>5, <2>6, <2>7 DEF TidyValue
<1>12. QED
  BY <1>4, <1>7, <1>8, <1>9, <1>10, <1>11

-----------------------------------------------------------------------------
(* What is printed.                                                        *)

\* The flags the trace of the printed tokens carries: tokens do not touch them.
Zero == [v \in Tracked |-> 0]
From == Start(Zero)

\* A token goes on with the line and keeps the flags.
LEMMA TokenEffect ==
    ASSUME NEW x, x.k \in Tokens, NEW f, NEW r, NEW p, NEW b, Effect(x, At(f, r, p), b)
    PROVE  \E s : \E q \in BOOLEAN : b = At(f, s, q) /\ Word(x, r, p, s, q)
<1>1. PICK g, t, o, s, q : At(f, r, p) = At(g, t, o) /\ b = At(g, s, q) /\ Word(x, t, o, s, q)
  <2>1. x.k \notin {"add", "set", "typeguard", "iftarget", "looptarget", "visit", "params"} \cup LabelItems
    BY DEF Tokens, Plain, LabelItems
  <2>2. QED
    BY <2>1, Zenon DEF Effect, LabelItems
<1>2. g = f /\ t = r /\ o = p
  BY <1>1, AtIs
<1>3. q \in BOOLEAN
  BY <1>1 DEF Word
<1>4. QED
  BY <1>1, <1>2, <1>3

\* So do many, whatever the flags are.
LEMMA TokensLead ==
    ASSUME NEW s, \A i \in 1 .. Len(s) : s[i].k \in Tokens, NEW f, NEW g,
           NEW r, NEW p \in BOOLEAN, NEW c, Leads(s, At(f, r, p), c)
    PROVE  \E t : \E q \in BOOLEAN : c = At(f, t, q) /\ Leads(s, At(g, r, p), At(g, t, q))
<1> DEFINE n == Len(s)
<1>1. s \in Seq(Elements(s)) /\ n \in Nat
  BY LenProperties DEF Leads
<1>2. PICK st : /\ st[1] = At(f, r, p) /\ st[n + 1] = c
                /\ \A i \in 1 .. n : Effect(s[i], st[i], st[i + 1])
  BY DEF Leads
<1> HIDE DEF n
<1> DEFINE Good(x) == x = At(f, x.rest, x.pops) /\ x.pops \in BOOLEAN
           S == {i \in 0 .. n : Good(st[i + 1])}
<1>3. Good(At(f, r, p))
  BY AtIs
<1>4. \A x, i : Good(x) /\ i \in 1 .. n /\ x = st[i] =>
            Good(st[i + 1]) /\ Word(s[i], x.rest, x.pops, st[i + 1].rest, st[i + 1].pops)
  <2> SUFFICES ASSUME NEW x, NEW i \in 1 .. n, Good(x), x = st[i]
               PROVE  Good(st[i + 1]) /\ Word(s[i], x.rest, x.pops, st[i + 1].rest, st[i + 1].pops)
    OBVIOUS
  <2>1. Effect(s[i], At(f, x.rest, x.pops), st[i + 1]) /\ s[i].k \in Tokens
    BY <1>2, n = Len(s) DEF n
  <2>2. PICK t : \E q \in BOOLEAN : st[i + 1] = At(f, t, q) /\ Word(s[i], x.rest, x.pops, t, q)
    BY <2>1, TokenEffect
  <2>3. PICK q \in BOOLEAN : st[i + 1] = At(f, t, q) /\ Word(s[i], x.rest, x.pops, t, q)
    BY <2>2
  <2>4. st[i + 1].rest = t /\ st[i + 1].pops = q
    BY <2>3, AtIs
  <2>5. QED
    BY <2>3, <2>4
<1> HIDE DEF Good
<1>5. 0 \in S
  BY <1>1, <1>2, <1>3
<1>6. \A i \in 1 .. n : i - 1 \in S => i \in S
  BY <1>1, <1>4, SMTT(30)
<1>7. 0 .. n \subseteq S
  BY <1>1, <1>5, <1>6, UpTo
<1>8. \A i \in 1 .. n + 1 : Good(st[i])
  <2>1. TAKE i \in 1 .. n + 1
  <2>2. i - 1 \in 0 .. n /\ (i - 1) + 1 = i
    BY <1>1
  <2>3. QED
    BY <1>7, <2>2
<1> DEFINE nx == [i \in 1 .. n + 1 |-> At(g, st[i].rest, st[i].pops)]
<1>9. \A i \in 1 .. n + 1 : nx[i] = At(g, st[i].rest, st[i].pops)
  OBVIOUS
<1> HIDE DEF nx, S
<1>10. ASSUME NEW i \in 1 .. n PROVE Effect(s[i], nx[i], nx[i + 1])
  <2>1. i \in 1 .. n + 1 /\ i + 1 \in 1 .. n + 1
    BY <1>1
  <2>2. Word(s[i], st[i].rest, st[i].pops, st[i + 1].rest, st[i + 1].pops)
    BY <1>4, <1>8, <2>1
  <2>3. s[i].k \in Tokens
    BY DEF n
  <2>4. Effect(s[i], At(g, st[i].rest, st[i].pops), At(g, st[i + 1].rest, st[i + 1].pops))
    BY <2>2, <2>3, Zenon DEF Effect
  <2>5. QED
    BY <1>9, <2>1, <2>4
<1>11. nx[1] = At(g, r, p) /\ nx[n + 1] = At(g, c.rest, c.pops)
  <2>1. 1 \in 1 .. n + 1 /\ n + 1 \in 1 .. n + 1
    BY <1>1
  <2>2. QED
    BY <1>2, <1>9, <2>1, AtIs
<1>12. Leads(s, At(g, r, p), At(g, c.rest, c.pops))
  BY <1>1, <1>10, <1>11 DEF Leads, n
<1>13. Good(c)
  <2>1. n + 1 \in 1 .. n + 1
    BY <1>1
  <2>2. QED
    BY <1>2, <1>8, <2>1
<1>14. QED
  BY <1>12, <1>13 DEF Good

\* The generator stands where the printed tokens lead, and what is left to do
\* leads on to the start of a line with calm flags f.
Core(f) ==
    /\ f \in Calm
    /\ \E r : \E p \in BOOLEAN : /\ Leads(out, From, At(Zero, r, p))
                                 /\ Leads(todo, At(Track(flag), r, p), Start(f))

\* An item and the rest of what is to do.
LEMMA CoreHead ==
    ASSUME NEW f, Core(f), todo # <<>>
    PROVE  \E r, b : \E p \in BOOLEAN :
             /\ Leads(out, From, At(Zero, r, p))
             /\ Effect(Head(todo), At(Track(flag), r, p), b)
             /\ Leads(Tail(todo), b, Start(f))
<1>1. PICK r : \E p \in BOOLEAN : /\ Leads(out, From, At(Zero, r, p))
                                  /\ Leads(todo, At(Track(flag), r, p), Start(f))
  BY DEF Core
<1>2. PICK p \in BOOLEAN : /\ Leads(out, From, At(Zero, r, p))
                           /\ Leads(todo, At(Track(flag), r, p), Start(f))
  BY <1>1
<1>3. PICK b : Effect(Head(todo), At(Track(flag), r, p), b) /\ Leads(Tail(todo), b, Start(f))
  BY <1>2, LeadsHead
<1>4. QED
  BY <1>2, <1>3

\* What was printed goes on, and so does the rest.
LEMMA CoreNext ==
    ASSUME NEW f, Core(f), NEW r, NEW p \in BOOLEAN,
           Leads(out', From, At(Zero, r, p)), Leads(todo', At(Track(flag'), r, p), Start(f))
    PROVE  Core(f)'
BY DEF Core, Track

\* A handler that does what the visit does keeps it so.
LEMMA DoesCore ==
    ASSUME NEW f, Core(f), NEW r, NEW p \in BOOLEAN, NEW b,
           Leads(out, From, At(Zero, r, p)), Leads(Tail(todo), b, Start(f)),
           Does(At(Track(flag), r, p), b)
    PROVE  Core(f)'
<1>1. PICK s : todo' = s \o Tail(todo) /\ Leads(s, At(Track(flag), r, p), b)
  BY DEF Does
<1>2. Leads(s \o Tail(todo), At(Track(flag), r, p), Start(f))
  BY <1>1, LeadsCat
<1>3. flag' = flag /\ out' = out
  BY DEF Does
<1>4. Leads(todo', At(Track(flag'), r, p), Start(f)) /\ Leads(out', From, At(Zero, r, p))
  BY <1>1, <1>2, <1>3
<1>5. QED
  BY <1>4, CoreNext

LEMMA VisitCore ==
    ASSUME NEW f, Core(f), Doing("visit"),
           \/ visit_number \/ visit_string \/ visit_id \/ visit_decl \/ visit_unary_op
           \/ visit_binary_op \/ visit_call \/ visit_dim \/ visit_return \/ visit_silent
    PROVE  Core(f)'
<1>1. todo # <<>> /\ Head(todo).k = "visit"
  BY DEF Doing
<1>2. PICK r, b : \E p \in BOOLEAN :
             /\ Leads(out, From, At(Zero, r, p))
             /\ Effect(Head(todo), At(Track(flag), r, p), b)
             /\ Leads(Tail(todo), b, Start(f))
  BY <1>1, CoreHead
<1>3. PICK p \in BOOLEAN : /\ Leads(out, From, At(Zero, r, p))
                           /\ Effect(Head(todo), At(Track(flag), r, p), b)
                           /\ Leads(Tail(todo), b, Start(f))
  BY <1>2
<1>4. Visits(node, At(Track(flag), r, p), b)
  <2>1. Head(todo).k \notin Tokens
    BY <1>1 DEF Tokens, Plain
  <2>2. QED
    BY <1>1, <1>3, <2>1, Zenon DEF Effect, node
<1>5. Does(At(Track(flag), r, p), b)
  BY <1>4, visit_numberDoes, visit_stringDoes, visit_idDoes, visit_declDoes, visit_unary_opDoes,
     visit_binary_opDoes, visit_callDoes, visit_dimDoes, visit_returnDoes, visit_silentDoes
<1>6. QED
  BY <1>3, <1>5, DoesCore

LEMMA visit_paramsCore ==
    ASSUME NEW f, Core(f), visit_params
    PROVE  Core(f)'
<1>1. todo # <<>> /\ Head(todo).k = "params"
  BY DEF visit_params, Doing
<1>2. PICK r, b : \E p \in BOOLEAN :
             /\ Leads(out, From, At(Zero, r, p))
             /\ Effect(Head(todo), At(Track(flag), r, p), b)
             /\ Leads(Tail(todo), b, Start(f))
  BY <1>1, CoreHead
<1>3. PICK p \in BOOLEAN : /\ Leads(out, From, At(Zero, r, p))
                           /\ Effect(Head(todo), At(Track(flag), r, p), b)
                           /\ Leads(Tail(todo), b, Start(f))
  BY <1>2
<1>4. ParamLines(Head(todo).vec, At(Track(flag), r, p), b)
  <2>1. Head(todo).k \notin Tokens
    BY <1>1 DEF Tokens, Plain
  <2>2. QED
    BY <1>1, <1>3, <2>1, Zenon DEF Effect
<1>5. Does(At(Track(flag), r, p), b)
  BY <1>4, visit_paramsDoes
<1>6. QED
  BY <1>3, <1>5, DoesCore

\* The printed tokens leave todo for out.
LEMMA PrintTokensCore ==
    ASSUME NEW f, Core(f), PrintTokens
    PROVE  Core(f)'
<1>1. PICK n \in 1 .. Len(todo) :
        /\ \A i \in 1 .. n : todo[i].k \in Plain
        /\ out' = out \o SubSeq(todo, 1, n)
        /\ todo' = SubSeq(todo, n + 1, Len(todo))
        /\ UNCHANGED flag
  BY DEF PrintTokens
<1> DEFINE s == SubSeq(todo, 1, n)
<1>2. PICK r : \E p \in BOOLEAN : /\ Leads(out, From, At(Zero, r, p))
                                  /\ Leads(todo, At(Track(flag), r, p), Start(f))
  BY DEF Core
<1>3. PICK p \in BOOLEAN : /\ Leads(out, From, At(Zero, r, p))
                           /\ Leads(todo, At(Track(flag), r, p), Start(f))
  BY <1>2
<1>4. todo \in Seq(Elements(todo)) /\ Len(todo) \in Nat
  BY <1>3, LenProperties DEF Leads
<1>5. PICK c : Leads(s, At(Track(flag), r, p), c) /\ Leads(todo', c, Start(f))
  <2>1. n \in 0 .. Len(todo)
    BY <1>4
  <2>2. QED
    BY <1>1, <1>3, <2>1, LeadsSplit
<1>6. \A i \in 1 .. Len(s) : s[i].k \in Tokens
  <2>1. Len(s) = n /\ \A i \in 1 .. n : s[i] = todo[i]
    BY <1>4
  <2> HIDE DEF s
  <2>2. QED
    BY <1>1, <2>1 DEF Tokens
<1> HIDE DEF s
<1>7. PICK t : \E q \in BOOLEAN : c = At(Track(flag), t, q) /\ Leads(s, At(Zero, r, p), At(Zero, t, q))
  BY <1>5, <1>6, TokensLead
<1>8. PICK q \in BOOLEAN : c = At(Track(flag), t, q) /\ Leads(s, At(Zero, r, p), At(Zero, t, q))
  BY <1>7
<1>9. Leads(out \o s, From, At(Zero, t, q))
  BY <1>3, <1>8, LeadsCat
<1>10. Leads(out', From, At(Zero, t, q)) /\ Leads(todo', At(Track(flag'), t, q), Start(f))
  BY <1>1, <1>5, <1>8, <1>9 DEF s
<1>11. QED
  BY <1>10, CoreNext

\* The tracked flags after a flag is changed.
LEMMA TrackWith ==
    ASSUME DOMAIN flag = FlagNames, NEW v, NEW x
    PROVE  /\ v \in Tracked => Track([flag EXCEPT ![v] = x]) = With(Track(flag), v, x)
           /\ v \notin Tracked => Track([flag EXCEPT ![v] = x]) = Track(flag)
<1>1. Tracked \subseteq FlagNames
  BY DEF Tracked
<1>2. \A w \in Tracked : [flag EXCEPT ![v] = x][w] = IF w = v THEN x ELSE flag[w]
  BY <1>1
<1>3. QED
  BY <1>2 DEF Track, With

LEMMA AssignCore ==
    ASSUME NEW f, Core(f), TypeInv, Assign
    PROVE  Core(f)'
<1> DEFINE x == Head(todo)
           g == Track(flag)
<1>1. /\ todo # <<>> /\ x.k \in {"add", "set"} /\ out' = out /\ todo' = <<>> \o Tail(todo)
      /\ x.k = "add" => flag' = [flag EXCEPT ![x.s] = flag[x.s] + x.n]
      /\ x.k = "set" => flag' = [flag EXCEPT ![x.s] = x.n]
  BY DEF Assign, Doing, Do
<1>2. PICK r, b : \E p \in BOOLEAN :
             /\ Leads(out, From, At(Zero, r, p))
             /\ Effect(x, At(g, r, p), b)
             /\ Leads(Tail(todo), b, Start(f))
  BY <1>1, CoreHead
<1>3. PICK p \in BOOLEAN : /\ Leads(out, From, At(Zero, r, p))
                           /\ Effect(x, At(g, r, p), b)
                           /\ Leads(Tail(todo), b, Start(f))
  BY <1>2
<1>4. DOMAIN flag = FlagNames
  BY DEF TypeInv
<1> HIDE DEF x
<1>5. x.k \notin Tokens
  BY <1>1 DEF Tokens, Plain
<1>6. b = At(Track(flag'), r, p)
  <2>1. CASE x.k = "add"
    <3>1. PICK h, s, q : /\ At(g, r, p) = At(h, s, q)
                         /\ b = At(IF x.s \in Tracked THEN With(h, x.s, h[x.s] + x.n) ELSE h, s, q)
      BY <1>3, <1>5, <2>1, Zenon DEF Effect
    <3>2. h = g /\ s = r /\ q = p
      BY <3>1, AtIs
    <3>3. x.s \in Tracked => g[x.s] = flag[x.s]
      BY TrackIs
    <3> DEFINE e == flag[x.s] + x.n
    <3>4. /\ x.s \in Tracked => Track(flag') = With(g, x.s, e)
          /\ x.s \notin Tracked => Track(flag') = g
      <4>1. flag' = [flag EXCEPT ![x.s] = e]
        BY <1>1, <2>1
      <4> HIDE DEF e
      <4>2. /\ x.s \in Tracked => Track([flag EXCEPT ![x.s] = e]) = With(g, x.s, e)
            /\ x.s \notin Tracked => Track([flag EXCEPT ![x.s] = e]) = g
        BY <1>4, TrackWith, Zenon
      <4>3. QED
        BY <4>1, <4>2, Zenon
    <3>5. CASE x.s \in Tracked
      BY <3>1, <3>2, <3>3, <3>4, <3>5
    <3>6. CASE x.s \notin Tracked
      BY <3>1, <3>2, <3>4, <3>6
    <3>7. QED
      BY <3>5, <3>6
  <2>2. CASE x.k = "set"
    <3>1. PICK h, s, q : /\ At(g, r, p) = At(h, s, q)
                         /\ b = At(IF x.s \in Tracked THEN With(h, x.s, x.n) ELSE h, s, q)
      BY <1>3, <1>5, <2>2, Zenon DEF Effect
    <3>2. h = g /\ s = r /\ q = p
      BY <3>1, AtIs
    <3>3. /\ x.s \in Tracked => Track(flag') = With(g, x.s, x.n)
          /\ x.s \notin Tracked => Track(flag') = g
      <4>1. flag' = [flag EXCEPT ![x.s] = x.n]
        BY <1>1, <2>2
      <4>2. /\ x.s \in Tracked => Track([flag EXCEPT ![x.s] = x.n]) = With(g, x.s, x.n)
            /\ x.s \notin Tracked => Track([flag EXCEPT ![x.s] = x.n]) = g
        BY <1>4, TrackWith, Zenon
      <4>3. QED
        BY <4>1, <4>2, Zenon
    <3>4. QED
      BY <3>1, <3>2, <3>3
  <2>3. QED
    BY <1>1, <2>1, <2>2
<1>7. Leads(<<>> \o Tail(todo), At(Track(flag'), r, p), Start(f))
  BY <1>3, <1>6, LeadsNone, LeadsCat
<1>8. QED
  BY <1>1, <1>3, <1>7, CoreNext

\* A label goes to the place of an operand.
One(x)    == <<x>>
IsName(x) == x.k \in {"def", "ref"}

LEMMA LabelPrinted ==
    ASSUME NEW x, IsName(x), NEW f, NEW g, NEW r, NEW p, NEW b,
           Labels(f, g, At(f, r, p), b), Leads(out, From, At(Zero, r, p)),
           NEW s, NEW e, Leads(s, b, e)
    PROVE  /\ Leads(out \o One(x), From, At(Zero, Tail(r), FALSE))
           /\ Leads(s, At(g, Tail(r), FALSE), e)
<1>1. PICK t, q : /\ At(f, r, p) = At(f, t, q) /\ t # <<>> /\ {"def", "ref"} \subseteq Head(t)
                  /\ b = At(g, Tail(t), FALSE)
  BY DEF Labels
<1>2. t = r /\ q = p
  BY <1>1, AtIs
<1>3. Word(x, r, p, Tail(r), FALSE) /\ x.k \in Tokens
  BY <1>1, <1>2 DEF Word, Tokens, IsName
<1>4. Effect(x, At(Zero, r, p), At(Zero, Tail(r), FALSE))
  BY <1>3, Zenon DEF Effect
<1>5. Leads(One(x), At(Zero, r, p), At(Zero, Tail(r), FALSE))
  BY <1>4, LeadsOne DEF One
<1>6. Leads(out \o One(x), From, At(Zero, Tail(r), FALSE))
  BY <1>5, LeadsCat
<1>7. QED
  BY <1>1, <1>2, <1>6

LEMMA PrintLabelCore ==
    ASSUME NEW f, Core(f), PrintResIfRef \/ PrintDivLabel
    PROVE  Core(f)'
<1>1. /\ todo # <<>> /\ Head(todo).k \in LabelItems /\ todo' = <<>> \o Tail(todo) /\ flag' = flag
      /\ \E x : IsName(x) /\ out' = out \o One(x)
  <2>1. CASE PrintResIfRef
    <3> DEFINE x == Ref("RES_IF", lbl.else_if_num)
    <3>1. IsName(x) /\ out' = out \o One(x)
      BY <2>1 DEF PrintResIfRef, Ref, Tok, One, IsName
    <3> HIDE DEF x
    <3>2. /\ todo # <<>> /\ Head(todo).k \in LabelItems
          /\ todo' = <<>> \o Tail(todo) /\ flag' = flag
      BY <2>1 DEF PrintResIfRef, Doing, Do, LabelItems
    <3>3. \E z : IsName(z) /\ out' = out \o One(z)
      BY <3>1
    <3>4. QED
      BY <3>2, <3>3
  <2>2. CASE PrintDivLabel
    <3> DEFINE name == IF Head(todo).cont THEN "CONT" ELSE "RES_IF_int2float"
               num  == flag[Head(todo).var]
               x == IF Head(todo).k = "divref" THEN Ref(name, num) ELSE Def(name, num)
    <3>1. out' = out \o One(x)
      BY <2>2 DEF PrintDivLabel, One
    <3>2. IsName(x)
      BY DEF Ref, Def, Tok, IsName
    <3> HIDE DEF x
    <3>3. /\ todo # <<>> /\ Head(todo).k \in LabelItems
          /\ todo' = <<>> \o Tail(todo) /\ flag' = flag
      BY <2>2 DEF PrintDivLabel, Doing, Do, LabelItems
    <3>4. \E z : IsName(z) /\ out' = out \o One(z)
      BY <3>1, <3>2
    <3>5. QED
      BY <3>3, <3>4
  <2>3. QED
    BY <2>1, <2>2
<1>2. PICK x : IsName(x) /\ out' = out \o One(x)
  BY <1>1
<1>3. PICK r, b : \E p \in BOOLEAN :
             /\ Leads(out, From, At(Zero, r, p))
             /\ Effect(Head(todo), At(Track(flag), r, p), b)
             /\ Leads(Tail(todo), b, Start(f))
  BY <1>1, CoreHead
<1>4. PICK p \in BOOLEAN : /\ Leads(out, From, At(Zero, r, p))
                           /\ Effect(Head(todo), At(Track(flag), r, p), b)
                           /\ Leads(Tail(todo), b, Start(f))
  BY <1>3
<1>5. Labels(Track(flag), Track(flag), At(Track(flag), r, p), b)
  <2>1. Head(todo).k \notin Tokens
    BY <1>1 DEF Tokens, Plain, LabelItems
  <2> DEFINE a == At(Track(flag), r, p)
  <2>2. a.flag = Track(flag)
    BY AtIs
  <2>3. Effect(Head(todo), a, b)
    BY <1>4
  <2> HIDE DEF a
  <2>4. Labels(a.flag, a.flag, a, b)
    BY <1>1, <2>1, <2>3, Zenon DEF Effect, LabelItems
  <2>5. QED
    BY <2>2, <2>4 DEF a
<1>6. /\ Leads(out \o One(x), From, At(Zero, Tail(r), FALSE))
      /\ Leads(Tail(todo), At(Track(flag), Tail(r), FALSE), Start(f))
  BY <1>2, <1>4, <1>5, LabelPrinted
<1>7. Leads(<<>> \o Tail(todo), At(Track(flag'), Tail(r), FALSE), Start(f))
  BY <1>1, <1>6, LeadsNone, LeadsCat
<1>8. QED
  BY <1>1, <1>2, <1>6, <1>7, CoreNext

LEMMA PrintTypeGuardCore ==
    ASSUME NEW f, Core(f), PrintTypeGuard
    PROVE  Core(f)'
<1> DEFINE x == Ref("END_IF", 0)
           s == <<Op("JUMPIFNEQ"), x, TB1, TB2, NL>>
<1>1. /\ todo # <<>> /\ Head(todo).k = "typeguard" /\ todo' = <<>> \o Tail(todo) /\ flag' = flag
      /\ out' = out \o s
  BY DEF PrintTypeGuard, Doing, Do
<1>2. PICK r, b : \E p \in BOOLEAN :
             /\ Leads(out, From, At(Zero, r, p))
             /\ Effect(Head(todo), At(Track(flag), r, p), b)
             /\ Leads(Tail(todo), b, Start(f))
  BY <1>1, CoreHead
<1>3. PICK p \in BOOLEAN : /\ Leads(out, From, At(Zero, r, p))
                           /\ Effect(Head(todo), At(Track(flag), r, p), b)
                           /\ Leads(Tail(todo), b, Start(f))
  BY <1>2
<1>4. \E g : At(Track(flag), r, p) = Start(g) /\ b = At(Track(flag), r, p)
  <2>1. Head(todo).k \notin Tokens
    BY <1>1 DEF Tokens, Plain
  <2>2. QED
    BY <1>1, <1>3, <2>1, Zenon DEF Effect
<1>5. r = <<>> /\ p = FALSE /\ b = At(Track(flag), r, p)
  <2>1. PICK g : At(Track(flag), r, p) = Start(g)
    BY <1>4
  <2>2. r = <<>> /\ p = FALSE
    BY <2>1 DEF At, Start
  <2>3. QED
    BY <1>4, <2>2
<1>6. Leads(s, From, From)
  <2>1. "JUMPIFNEQ" \in Instructions /\ "JUMPIFNEQ" # "POPS" /\ Lacks("JUMPIFNEQ") = <<Label, Sym, Sym, Nl>>
    BY LacksOf DEF Instructions
  <2>2. /\ x.k \in Tokens \ {"nl"} /\ x.k \in Label
        /\ TB1.k \in Tokens \ {"nl"} /\ TB1.k \in Sym /\ TB2.k \in Tokens \ {"nl"} /\ TB2.k \in Sym
    BY DEF Ref, TB1, TB2, TF, Tok, Tokens, Plain, Label, Sym, Var
  <2> HIDE DEF x
  <2>3. /\ Effect(x, At(Zero, <<Label, Sym, Sym, Nl>>, FALSE), At(Zero, <<Sym, Sym, Nl>>, FALSE))
        /\ Effect(TB1, At(Zero, <<Sym, Sym, Nl>>, FALSE), At(Zero, <<Sym, Nl>>, FALSE))
        /\ Effect(TB2, At(Zero, <<Sym, Nl>>, FALSE), At(Zero, <<Nl>>, FALSE))
    BY <2>2, Operand
  <2>4. QED
    BY <2>1, <2>3, LineThree DEF From, Start
<1> HIDE DEF s
<1>7. Leads(out, From, From)
  BY <1>3, <1>5 DEF From, Start
<1>8. Leads(out \o s, From, At(Zero, r, p))
  BY <1>5, <1>6, <1>7, LeadsCat DEF From, Start
<1>9. Leads(<<>> \o Tail(todo), At(Track(flag'), r, p), Start(f))
  BY <1>1, <1>3, <1>5, LeadsNone, LeadsCat
<1>10. QED
  BY <1>1, <1>8, <1>9, CoreNext

LEMMA PrintIfTargetCore ==
    ASSUME NEW f, Core(f), TypeInv, PrintIfTarget
    PROVE  Core(f)'
<1> DEFINE x == Ref("RES_IF", lbl.else_if_num)
           g == Track(flag)
           h == With(g, "from_if", 0)
<1>1. /\ todo # <<>> /\ Head(todo).k = "iftarget" /\ todo' = <<>> \o Tail(todo)
      /\ flag.from_if = 1 => /\ out' = out \o One(x)
                             /\ flag' = [flag EXCEPT !.from_if = flag.from_if - 1]
      /\ flag.from_if # 1 => out' = out /\ flag' = flag
  BY DEF PrintIfTarget, Doing, Do, One
<1>2. PICK r, b : \E p \in BOOLEAN :
             /\ Leads(out, From, At(Zero, r, p))
             /\ Effect(Head(todo), At(g, r, p), b)
             /\ Leads(Tail(todo), b, Start(f))
  BY <1>1, CoreHead
<1>3. PICK p \in BOOLEAN : /\ Leads(out, From, At(Zero, r, p))
                           /\ Effect(Head(todo), At(g, r, p), b)
                           /\ Leads(Tail(todo), b, Start(f))
  BY <1>2
<1>4. IsName(x) /\ g.from_if = flag.from_if
  BY FlagsHere DEF Ref, Tok, IsName
<1> HIDE DEF x, g, h
<1> DEFINE a == At(g, r, p)
<1>5. a.flag = g
  BY DEF At
<1>6. Effect(Head(todo), a, b)
  BY <1>3
<1>7. Head(todo).k \notin Tokens
  BY <1>1 DEF Tokens, Plain
<1> HIDE DEF a
<1>8. CASE flag.from_if = 1
  <2>1. a.flag.from_if = 1
    BY <1>4, <1>5, <1>8
  <2>2. Labels(a.flag, With(a.flag, "from_if", 0), a, b)
    BY <1>1, <1>6, <1>7, <2>1, Zenon DEF Effect
  <2>3. Labels(g, h, At(g, r, p), b)
    BY <1>5, <2>2 DEF a, h
  <2>4. /\ Leads(out \o One(x), From, At(Zero, Tail(r), FALSE))
        /\ Leads(Tail(todo), At(h, Tail(r), FALSE), Start(f))
    BY <1>3, <1>4, <2>3, LabelPrinted
  <2>5. Track(flag') = h
    <3>1. flag' = [flag EXCEPT !["from_if"] = 0]
      BY <1>1, <1>8
    <3>2. DOMAIN flag = FlagNames /\ "from_if" \in Tracked
      BY ContextTracked DEF TypeInv
    <3>3. Track([flag EXCEPT !["from_if"] = 0]) = h
      BY <3>2, TrackWith, Zenon DEF h, g
    <3>4. QED
      BY <3>1, <3>3, Zenon
  <2>6. Leads(<<>> \o Tail(todo), At(Track(flag'), Tail(r), FALSE), Start(f))
    BY <2>4, <2>5, LeadsNone, LeadsCat
  <2>7. QED
    BY <1>1, <1>8, <2>4, <2>6, CoreNext
<1>9. CASE flag.from_if # 1
  <2>1. a.flag.from_if # 1
    BY <1>4, <1>5, <1>9
  <2>2. b = a
    BY <1>1, <1>6, <1>7, <2>1, Zenon DEF Effect
  <2>3. Leads(<<>> \o Tail(todo), At(Track(flag'), r, p), Start(f))
    BY <1>1, <1>3, <1>9, <2>2, LeadsNone, LeadsCat DEF a, g
  <2>4. QED
    BY <1>1, <1>3, <1>9, <2>3, CoreNext
<1>10. QED
  BY <1>8, <1>9

LEMMA PrintLoopTargetCore ==
    ASSUME NEW f, Core(f), TypeInv, PrintLoopTarget
    PROVE  Core(f)'
<1> DEFINE x == Ref("LOOP", flag.loop_num)
           g == Track(flag)
           less == flag.loop_num - 1
           h == With(With(g, "loop_num", less), "from_loop", 0)
           mid == [flag EXCEPT !["loop_num"] = less]
<1>1. /\ todo # <<>> /\ Head(todo).k = "looptarget" /\ todo' = <<>> \o Tail(todo)
      /\ flag.from_loop = 1 =>
            /\ out' = out \o One(x)
            /\ flag' = [flag EXCEPT !.loop_num = @ - 1, !.from_loop = @ - 1]
      /\ flag.from_loop # 1 => out' = out /\ flag' = flag
  BY DEF PrintLoopTarget, Doing, Do, One
<1>2. PICK r, b : \E p \in BOOLEAN :
             /\ Leads(out, From, At(Zero, r, p))
             /\ Effect(Head(todo), At(g, r, p), b)
             /\ Leads(Tail(todo), b, Start(f))
  BY <1>1, CoreHead
<1>3. PICK p \in BOOLEAN : /\ Leads(out, From, At(Zero, r, p))
                           /\ Effect(Head(todo), At(g, r, p), b)
                           /\ Leads(Tail(todo), b, Start(f))
  BY <1>2
<1>4. IsName(x) /\ g.from_loop = flag.from_loop /\ g.loop_num = flag.loop_num
  BY FlagsHere DEF Ref, Tok, IsName
<1>5. DOMAIN flag = FlagNames /\ "from_loop" \in Tracked /\ "loop_num" \in Tracked
  BY ContextTracked DEF TypeInv
<1>6. flag.from_loop = 1 => flag' = [mid EXCEPT !["from_loop"] = 0]
  <2>1. Tracked \subseteq FlagNames
    BY DEF Tracked
  <2>2. flag.from_loop = 1 => flag' = [mid EXCEPT !["from_loop"] = mid["from_loop"] - 1]
    BY <1>1
  <2>3. mid["from_loop"] = flag["from_loop"]
    BY <1>5, <2>1
  <2>4. QED
    BY <2>2, <2>3
<1>7. Track([mid EXCEPT !["from_loop"] = 0]) = h
  <2>1. Tracked \subseteq FlagNames /\ DOMAIN mid = FlagNames
    BY <1>5 DEF Tracked
  <2>2. \A w \in Tracked : [mid EXCEPT !["from_loop"] = 0][w] =
            IF w = "from_loop" THEN 0 ELSE IF w = "loop_num" THEN less ELSE flag[w]
    BY <1>5, <2>1
  <2>3. \A w \in Tracked : With(With(g, "loop_num", less), "from_loop", 0)[w] =
            IF w = "from_loop" THEN 0 ELSE IF w = "loop_num" THEN less ELSE flag[w]
    BY <2>1 DEF With, Track
  <2>4. DOMAIN h = Tracked /\ h = [w \in Tracked |-> h[w]]
    BY DEF With, Track
  <2> HIDE DEF mid, h
  <2>5. \A w \in Tracked : [mid EXCEPT !["from_loop"] = 0][w] = h[w]
    BY <2>2, <2>3 DEF h
  <2>6. QED
    BY <2>4, <2>5 DEF Track
<1> HIDE DEF x, g, h, mid
<1> DEFINE a == At(g, r, p)
<1>8. a.flag = g
  BY DEF At
<1>9. Effect(Head(todo), a, b)
  BY <1>3
<1>10. Head(todo).k \notin Tokens
  BY <1>1 DEF Tokens, Plain
<1> HIDE DEF a
<1>11. CASE flag.from_loop = 1
  <2>1. a.flag.from_loop = 1 /\ a.flag.loop_num - 1 = less
    BY <1>4, <1>8, <1>11
  <2>2. Labels(a.flag, With(With(a.flag, "loop_num", a.flag.loop_num - 1), "from_loop", 0), a, b)
    BY <1>1, <1>9, <1>10, <2>1, Zenon DEF Effect
  <2>3. Labels(g, h, At(g, r, p), b)
    BY <1>8, <2>1, <2>2 DEF a, h
  <2>4. /\ Leads(out \o One(x), From, At(Zero, Tail(r), FALSE))
        /\ Leads(Tail(todo), At(h, Tail(r), FALSE), Start(f))
    BY <1>3, <1>4, <2>3, LabelPrinted
  <2>5. Track(flag') = h
    BY <1>6, <1>7, <1>11, Zenon
  <2>6. Leads(<<>> \o Tail(todo), At(Track(flag'), Tail(r), FALSE), Start(f))
    BY <2>4, <2>5, LeadsNone, LeadsCat
  <2>7. QED
    BY <1>1, <1>11, <2>4, <2>6, CoreNext
<1>12. CASE flag.from_loop # 1
  <2>1. a.flag.from_loop # 1
    BY <1>4, <1>8, <1>12
  <2>2. b = a
    BY <1>1, <1>9, <1>10, <2>1, Zenon DEF Effect
  <2>3. Leads(<<>> \o Tail(todo), At(Track(flag'), r, p), Start(f))
    BY <1>1, <1>3, <1>12, <2>2, LeadsNone, LeadsCat DEF a, g
  <2>4. QED
    BY <1>1, <1>3, <1>12, <2>3, CoreNext
<1>13. QED
  BY <1>11, <1>12

LEMMA ExpressionCore ==
    ASSUME NEW f, Core(f), TypeInv, ExpressionStep
    PROVE  Core(f)'
<1>1. CASE PrintTokens
  BY <1>1, PrintTokensCore
<1>2. CASE Assign
  BY <1>2, AssignCore
<1>3. CASE PrintTypeGuard
  BY <1>3, PrintTypeGuardCore
<1>4. CASE PrintIfTarget
  BY <1>4, PrintIfTargetCore
<1>5. CASE PrintLoopTarget
  BY <1>5, PrintLoopTargetCore
<1>6. CASE PrintResIfRef \/ PrintDivLabel
  BY <1>6, PrintLabelCore
<1>7. CASE visit_params
  BY <1>7, visit_paramsCore
<1>8. CASE \/ visit_number \/ visit_string \/ visit_id \/ visit_decl \/ visit_unary_op
           \/ visit_binary_op \/ visit_call \/ visit_dim \/ visit_return \/ visit_silent
  <2>1. Doing("visit")
    BY <1>8 DEF visit_number, visit_string, visit_id, visit_decl, visit_unary_op, visit_binary_op,
                visit_call, visit_dim, visit_return, visit_silent, Visiting
  <2>2. QED
    BY <1>8, <2>1, VisitCore
<1>9. QED
  BY <1>1, <1>2, <1>3, <1>4, <1>5, <1>6, <1>7, <1>8 DEF ExpressionStep

-----------------------------------------------------------------------------
(* Where the activations stand.                                            *)

\* What an activation among the blocks B holds.
Fitting(f, B) ==
    /\ f.h = "block" => f.node \in B
    /\ f.h = "if"    => TidyIf(f.node, B)
    /\ f.h = "while" => TidyWhile(f.node, B)

\* Activation k is visit_scope's (0: there is none); those behind it are among
\* the blocks of the scope.
Standing(s, k, Out, In) ==
    /\ k \in 0 .. Len(s)
    /\ k # 0 => s[k].h = "scope"
    /\ \A p \in 1 .. Len(s) : p # k =>
         s[p].h # "scope" /\ Fitting(s[p], IF k # 0 /\ p > k THEN In ELSE Out)

Around(k, Out, In) == IF k = 0 THEN Out ELSE In

\* The innermost activation fits.
LEMMA TopStands ==
    ASSUME TypeInv, frames # <<>>, NEW k, NEW Out, NEW In, Standing(frames, k, Out, In)
    PROVE  /\ k \in Nat /\ Len(frames) \in Nat \ {0}
           /\ Top.h # "scope" => k # Len(frames) /\ Fitting(Top, Around(k, Out, In))
           /\ Top.h = "scope" => k = Len(frames)
<1>1. Len(frames) \in Nat \ {0}
  BY EmptySeq, LenProperties DEF TypeInv
<1>2. k \in 0 .. Len(frames) /\ (k # 0 => frames[k].h = "scope")
  BY DEF Standing
<1>3. k # Len(frames) => /\ Top.h # "scope"
                         /\ Fitting(Top, IF k # 0 /\ Len(frames) > k THEN In ELSE Out)
  <2>1. Len(frames) \in 1 .. Len(frames)
    BY <1>1
  <2>2. QED
    BY <2>1 DEF Standing, Top
<1>4. k = Len(frames) => Top.h = "scope"
  BY <1>1, <1>2 DEF Top
<1>5. k # Len(frames) => Around(k, Out, In) = IF k # 0 /\ Len(frames) > k THEN In ELSE Out
  BY <1>1, <1>2 DEF Around
<1>6. QED
  BY <1>1, <1>2, <1>3, <1>4, <1>5

\* A step that leaves the scope where it is.
LEMMA StayStanding ==
    ASSUME TypeInv, frames # <<>>, NEW k, NEW Out, NEW In, Standing(frames, k, Out, In),
           Top.h # "scope", NEW T, NEW t \in Seq(T), frames' = Callers \o t,
           \A j \in 1 .. Len(t) : t[j].h # "scope" /\ Fitting(t[j], Around(k, Out, In))
    PROVE  Standing(frames', k, Out, In)
<1> DEFINE n == Len(frames)
<1>1. /\ n \in Nat \ {0} /\ Len(t) \in Nat
      /\ Len(frames') = n - 1 + Len(t)
      /\ \A p \in 1 .. n - 1 : frames'[p] = frames[p]
      /\ \A j \in 1 .. Len(t) : frames'[n - 1 + j] = t[j]
  BY Stacked
<1>2. k \in 0 .. n - 1 /\ (k # 0 => frames[k].h = "scope")
      /\ \A p \in 1 .. n : p # k =>
           frames[p].h # "scope" /\ Fitting(frames[p], IF k # 0 /\ p > k THEN In ELSE Out)
  <2>1. k \in Nat /\ k # n
    BY TopStands
  <2>2. k \in 0 .. n
    BY DEF Standing
  <2>3. k \in 0 .. n - 1
    BY <1>1, <2>1, <2>2
  <2>4. QED
    BY <2>3 DEF Standing
<1> HIDE DEF n
<1>3. k # 0 => frames'[k].h = "scope"
  BY <1>1, <1>2
<1>4. ASSUME NEW p \in 1 .. n - 1 + Len(t), p # k
      PROVE  frames'[p].h # "scope" /\ Fitting(frames'[p], IF k # 0 /\ p > k THEN In ELSE Out)
  <2>1. CASE p <= n - 1
    <3>1. p \in 1 .. n - 1 /\ p \in 1 .. n
      BY <1>1, <2>1
    <3>2. QED
      BY <1>1, <1>2, <1>4, <3>1
  <2>2. CASE ~(p <= n - 1)
    <3> DEFINE j == p - (n - 1)
    <3>1. j \in 1 .. Len(t) /\ p = n - 1 + j /\ p > k
      BY <1>1, <1>2, <2>2
    <3> HIDE DEF j
    <3>2. frames'[p] = t[j]
      BY <1>1, <3>1
    <3>3. Around(k, Out, In) = IF k # 0 /\ p > k THEN In ELSE Out
      BY <3>1 DEF Around
    <3>4. QED
      BY <3>1, <3>2, <3>3
  <2>3. QED
    BY <2>1, <2>2
<1>5. k \in 0 .. n - 1 + Len(t)
  BY <1>1, <1>2
<1>6. QED
  BY <1>1, <1>3, <1>4, <1>5 DEF Standing

\* The scope is entered,
LEMMA EnterStanding ==
    ASSUME TypeInv, frames # <<>>, NEW Out, NEW In, Standing(frames, 0, Out, In),
           NEW a, NEW b, NEW c, frames' = Callers \o <<a, b, c>>,
           a.h # "scope", Fitting(a, Out), b.h = "scope", c.h # "scope", Fitting(c, In)
    PROVE  Standing(frames', Len(frames) + 1, Out, In)
<1> DEFINE n == Len(frames)
           t == <<a, b, c>>
<1>1. t \in Seq({a, b, c}) /\ Len(t) = 3 /\ t[1] = a /\ t[2] = b /\ t[3] = c /\ frames' = Callers \o t
  OBVIOUS
<1> HIDE DEF t
<1>2. /\ n \in Nat \ {0}
      /\ Len(frames') = n - 1 + 3
      /\ \A p \in 1 .. n - 1 : frames'[p] = frames[p]
      /\ \A j \in 1 .. 3 : frames'[n - 1 + j] = t[j]
  BY <1>1, Stacked
<1>3. \A p \in 1 .. n : frames[p].h # "scope" /\ Fitting(frames[p], Out)
  BY <1>2 DEF Standing
<1> HIDE DEF n
<1>4. frames'[n] = a /\ frames'[n + 1] = b /\ frames'[n + 2] = c
  <2>1. n - 1 + 1 = n /\ n - 1 + 2 = n + 1 /\ n - 1 + 3 = n + 2
    BY <1>2
  <2>2. frames'[n - 1 + 1] = t[1] /\ frames'[n - 1 + 2] = t[2] /\ frames'[n - 1 + 3] = t[3]
    BY <1>2
  <2>3. QED
    BY <1>1, <2>1, <2>2
<1>5. Len(frames') = n + 2 /\ n + 1 # 0 /\ n + 1 \in 0 .. n + 2
  BY <1>2
<1>6. ASSUME NEW p \in 1 .. n + 2, p # n + 1
      PROVE  frames'[p].h # "scope" /\ Fitting(frames'[p], IF n + 1 # 0 /\ p > n + 1 THEN In ELSE Out)
  <2>1. p \in 1 .. n - 1 \/ p = n \/ p = n + 2
    BY <1>2, <1>6, SMTT(30)
  <2>2. CASE p \in 1 .. n - 1
    <3>1. p \in 1 .. n /\ ~(p > n + 1)
      BY <1>2, <2>2
    <3>2. QED
      BY <1>2, <1>3, <2>2, <3>1
  <2>3. CASE p = n
    <3>1. ~(p > n + 1)
      BY <1>2, <2>3
    <3>2. QED
      BY <1>4, <2>3, <3>1
  <2>4. CASE p = n + 2
    <3>1. p > n + 1
      BY <1>2, <2>4
    <3>2. QED
      BY <1>4, <1>5, <2>4, <3>1
  <2>5. QED
    BY <2>1, <2>2, <2>3, <2>4
<1>7. Standing(frames', n + 1, Out, In)
  BY <1>4, <1>5, <1>6 DEF Standing
<1>8. QED
  BY <1>7 DEF n

\* and left.
LEMMA LeaveStanding ==
    ASSUME TypeInv, frames # <<>>, NEW k, NEW Out, NEW In, Standing(frames, k, Out, In),
           Top.h = "scope", frames' = Callers
    PROVE  Standing(frames', 0, Out, In)
<1> DEFINE n == Len(frames)
<1>1. frames \in Seq(Activations) /\ n \in Nat \ {0} /\ k = n
  BY TopStands, LenProperties DEF TypeInv
<1>2. Len(frames') = n - 1 /\ \A p \in 1 .. n - 1 : frames'[p] = frames[p]
  BY <1>1 DEF Callers
<1> HIDE DEF n
<1>3. ASSUME NEW p \in 1 .. n - 1 PROVE frames'[p].h # "scope" /\ Fitting(frames'[p], Out)
  <2>1. p \in 1 .. n /\ p # k /\ ~(p > k)
    BY <1>1
  <2>2. frames[p].h # "scope" /\ Fitting(frames[p], Out)
    BY <2>1 DEF Standing, n
  <2>3. QED
    BY <1>2, <2>2
<1>4. 0 \in 0 .. n - 1
  BY <1>1
<1>5. QED
  BY <1>2, <1>3, <1>4 DEF Standing

-----------------------------------------------------------------------------
(* The handlers that visit blocks.                                         *)

\* Nothing left to do leads nowhere.
LEMMA NoneLeads ==
    ASSUME NEW a, NEW b, Leads(<<>>, a, b)
    PROVE  a = b
<1>1. Len(<<>>) + 1 = 1
  OBVIOUS
<1>2. QED
  BY <1>1 DEF Leads

\* Between two statements the flags are calm and a line begins.
LEMMA CoreHere ==
    ASSUME NEW f, Core(f), todo = <<>>
    PROVE  Track(flag) = f /\ f \in Calm /\ Leads(out, From, From)
<1>1. PICK r : \E p \in BOOLEAN : /\ Leads(out, From, At(Zero, r, p))
                                  /\ Leads(todo, At(Track(flag), r, p), Start(f))
  BY DEF Core
<1>2. PICK p \in BOOLEAN : /\ Leads(out, From, At(Zero, r, p))
                           /\ Leads(todo, At(Track(flag), r, p), Start(f))
  BY <1>1
<1>3. At(Track(flag), r, p) = At(f, <<>>, FALSE)
  BY <1>2, NoneLeads DEF Start
<1>4. Track(flag) = f /\ r = <<>> /\ p = FALSE
  BY <1>3 DEF At
<1>5. QED
  BY <1>2, <1>4 DEF Core, From, Start

\* A handler that prints whole lines and leaves what leads to calm flags.
LEMMA CoreThere ==
    ASSUME NEW g \in Calm, Leads(out', From, From), Leads(todo', Start(Track(flag')), Start(g))
    PROVE  Core(g)'
<1>1. /\ Leads(out', From, At(Zero, <<>>, FALSE))
      /\ Leads(todo', At(Track(flag'), <<>>, FALSE), Start(g))
  BY DEF From, Start
<1>2. FALSE \in BOOLEAN
  OBVIOUS
<1>3. QED
  BY <1>1, <1>2 DEF Core, Track

\* One with nothing left.
LEMMA CoreStill ==
    ASSUME NEW g \in Calm, Leads(out', From, From), todo' = <<>>, Track(flag') = g
    PROVE  Core(g)'
<1>1. Leads(todo', Start(Track(flag')), Start(g))
  BY LeadsNone
<1>2. QED
  BY <1>1, CoreThere

\* Calm flags whose place is another.
LEMMA CalmWith ==
    ASSUME NEW f \in Calm, NEW v \in {"scope", "loop_num", "from_func"}, NEW x \in Int
    PROVE  /\ With(f, v, x) \in Calm
           /\ With(f, v, x)[v] = x
           /\ v # "scope" => With(f, v, x).scope = f.scope
<1>1. f \in Flags /\ v \in Tracked /\ v \notin ContextFlags /\ "scope" \in Tracked
  BY CalmFacts, ContextTracked DEF ContextFlags
<1>2. With(f, v, x) \in Flags /\ With(f, v, x)[v] = x /\ \A w \in Tracked : w # v => With(f, v, x)[w] = f[w]
  BY <1>1, WithFacts
<1>3. \A w \in ContextFlags : With(f, v, x)[w] = 0
  <2>1. \A w \in ContextFlags : w \in Tracked /\ f[w] = 0
    BY CalmFacts
  <2>2. QED
    BY <1>1, <1>2, <2>1
<1>4. QED
  BY <1>1, <1>2, <1>3 DEF Calm

\* A flag is counted up or down.
LEMMA Counting ==
    ASSUME TypeInv, NEW v \in Tracked, NEW d \in Int, flag' = [flag EXCEPT ![v] = @ + d]
    PROVE  Track(flag') = With(Track(flag), v, Track(flag)[v] + d)
<1> DEFINE e == flag[v] + d
<1>1. DOMAIN flag = FlagNames
  BY DEF TypeInv
<1>2. flag' = [flag EXCEPT ![v] = e]
  OBVIOUS
<1>3. e = Track(flag)[v] + d
  BY TrackIs
<1> HIDE DEF e
<1>4. Track([flag EXCEPT ![v] = e]) = With(Track(flag), v, e)
  BY <1>1, TrackWith
<1>5. QED
  BY <1>2, <1>3, <1>4

\* The lines a handler prints whole.
LEMMA LineLeads ==
    ASSUME NEW s, NEW n
    PROVE  Leads(LabelLine(s, n), From, From) /\ Leads(JumpLine(s, n), From, From)
<1>1. /\ Lacks("LABEL") = <<Label, Nl>> /\ Lacks("JUMP") = <<Label, Nl>>
      /\ "LABEL" \in Instructions /\ "JUMP" \in Instructions /\ "LABEL" # "POPS" /\ "JUMP" # "POPS"
  BY LacksOf DEF Instructions
<1> DEFINE x == Def(s, n)
           y == Ref(s, n)
<1>2. x.k \in Tokens \ {"nl"} /\ x.k \in Label /\ y.k \in Tokens \ {"nl"} /\ y.k \in Label
  BY DEF Def, Ref, Tok, Tokens, Plain, Label
<1> HIDE DEF x, y
<1>3. /\ Effect(x, At(Zero, <<Label, Nl>>, FALSE), At(Zero, <<Nl>>, FALSE))
      /\ Effect(y, At(Zero, <<Label, Nl>>, FALSE), At(Zero, <<Nl>>, FALSE))
  BY <1>2, Operand
<1>4. Leads(<<Op("LABEL"), x, NL>>, At(Zero, <<>>, FALSE), At(Zero, <<>>, FALSE))
  BY <1>1, <1>3, LineOne
<1>5. Leads(<<Op("JUMP"), y, NL>>, At(Zero, <<>>, FALSE), At(Zero, <<>>, FALSE))
  BY <1>1, <1>3, LineOne
<1>6. QED
  BY <1>4, <1>5 DEF LabelLine, JumpLine, From, Start, x, y

\* More lines behind those printed.
LEMMA MoreLines ==
    ASSUME Leads(out, From, From), NEW s, Leads(s, From, From)
    PROVE  Leads(out \o s, From, From)
BY LeadsCat

\* The generator stands in tidy code: outside the scope or inside it.
Placed(Out, In) ==
    \E f, k : /\ Core(f)
              /\ Standing(frames, k, Out, In)
              /\ f.scope = IF k = 0 THEN 0 ELSE 1

\* With nothing left to do the flags are the generator's.
LEMMA PlacedHere ==
    ASSUME NEW Out, NEW In, Placed(Out, In), todo = <<>>
    PROVE  \E f \in Calm : \E k : /\ Track(flag) = f /\ Leads(out, From, From)
                                 /\ Standing(frames, k, Out, In)
                                 /\ f.scope = IF k = 0 THEN 0 ELSE 1
<1>1. PICK f, k : /\ Core(f)
                  /\ Standing(frames, k, Out, In)
                  /\ f.scope = IF k = 0 THEN 0 ELSE 1
  BY DEF Placed
<1>2. Track(flag) = f /\ f \in Calm /\ Leads(out, From, From)
  BY <1>1, CoreHere
<1>3. QED
  BY <1>1, <1>2

LEMMA PlacedThere ==
    ASSUME NEW Out, NEW In, NEW g, NEW k, Core(g)', Standing(frames', k, Out, In),
           g.scope = IF k = 0 THEN 0 ELSE 1
    PROVE  Placed(Out, In)'
BY DEF Placed

\* The statement a block visits is tidy where it stands.
LEMMA StatementStands ==
    ASSUME TypeInv, NEW Out, NEW In, Tidy(Out, In), NEW k, Standing(frames, k, Out, In),
           NEW T, AtStmt(T)
    PROVE  /\ frames # <<>> /\ Top.h = "block" /\ Fitting(Top, Around(k, Out, In))
           /\ NextStmt \in Node /\ NextStmt.type \in T
           /\ TidyStatement(NextStmt, Around(k, Out, In), k # 0, In)
<1>1. frames # <<>> /\ Top.h = "block" /\ Top.i <= Len(Top.node.stmts)
  BY DEF AtStmt, Running
<1>2. NextStmt \in Node /\ NextStmt.type \in T
  BY CallTypes
<1>3. Top \in Activations
  BY <1>1, TopFacts
<1>4. Top.node \in Nodes /\ Top.node.type = "BLOCK" /\ Top.i \in Nat \ {0}
  BY <1>1, <1>3 DEF Activations, Takes
<1>5. Top.i \in DOMAIN Top.node.stmts
  BY <1>1, <1>4, MembersOfNode, LenProperties
<1>6. Fitting(Top, Around(k, Out, In))
  BY <1>1, TopStands
<1>7. Top.node \in Around(k, Out, In)
  BY <1>1, <1>6 DEF Fitting
<1>8. CASE k = 0
  <2>1. Around(k, Out, In) = Out /\ Top.node \in Out /\ (k # 0) = FALSE
    BY <1>7, <1>8 DEF Around
  <2>2. TidyStatement(NextStmt, Out, FALSE, In)
    BY <1>5, <2>1 DEF Tidy, NextStmt
  <2>3. QED
    BY <1>1, <1>2, <1>6, <2>1, <2>2
<1>9. CASE k # 0
  <2>1. Around(k, Out, In) = In /\ Top.node \in In /\ (k # 0) = TRUE
    BY <1>7, <1>9 DEF Around
  <2>2. TidyStatement(NextStmt, In, TRUE, In)
    BY <1>5, <2>1 DEF Tidy, NextStmt
  <2>3. QED
    BY <1>1, <1>2, <1>6, <2>1, <2>2
<1>10. QED
  BY <1>8, <1>9

\* The innermost activation goes on to another place in its handler.
LEMMA MovedFits ==
    ASSUME TypeInv, frames # <<>>, NEW B, Fitting(Top, B), NEW m, m.h = Top.h, m.node = Top.node
    PROVE  Fitting(m, B)
BY DEF Fitting

LEMMA CallStands ==
    ASSUME TypeInv, NEW Out, NEW In, Tidy(Out, In), NEW k, Standing(frames, k, Out, In),
           NEW T, AtStmt(T), NEW S, NEW c \in Seq(S), CallFromBlock(c),
           \A j \in 1 .. Len(c) : c[j].h # "scope" /\ Fitting(c[j], Around(k, Out, In))
    PROVE  Standing(frames', k, Out, In)
<1> DEFINE m == [Top EXCEPT !.i = @ + 1]
           B == Around(k, Out, In)
           t == <<m>> \o c
<1>1. frames # <<>> /\ Top.h = "block" /\ Fitting(Top, B)
  BY StatementStands
<1>2. Top \in Activations
  BY <1>1, TopFacts
<1>3. m.h = Top.h /\ m.node = Top.node
  BY <1>2, ActivationShape
<1>4. frames' = Callers \o t
  BY DEF CallFromBlock
<1> HIDE DEF m
<1>5. m.h # "scope" /\ Fitting(m, B)
  BY <1>1, <1>3, MovedFits
<1> DEFINE one == <<m>>
<1>6. one \in Seq({m}) /\ Len(one) = 1 /\ one[1] = m
  OBVIOUS
<1> HIDE DEF one
<1>7. /\ one \o c \in Seq({m} \cup S) /\ Len(c) \in Nat /\ Len(one \o c) = 1 + Len(c)
      /\ (one \o c)[1] = m
      /\ \A j \in 1 .. Len(c) : (one \o c)[1 + j] = c[j]
  BY <1>6, CatFacts, SMTT(30)
<1>8. t = one \o c
  BY DEF one
<1> HIDE DEF t, B
<1>9. ASSUME NEW j \in 1 .. Len(t) PROVE t[j].h # "scope" /\ Fitting(t[j], B)
  <2>1. CASE j = 1
    BY <1>5, <1>7, <1>8, <2>1
  <2>2. CASE j # 1
    <3> DEFINE i == j - 1
    <3>1. i \in 1 .. Len(c) /\ j = 1 + i
      BY <1>7, <1>8, <2>2
    <3> HIDE DEF i
    <3>2. t[j] = c[i]
      BY <1>7, <1>8, <3>1
    <3>3. QED
      BY <3>1, <3>2 DEF B
  <2>3. QED
    BY <2>1, <2>2
<1>10. Top.h # "scope" /\ t \in Seq({m} \cup S)
  BY <1>1, <1>7, <1>8
<1>11. QED
  BY <1>1, <1>4, <1>9, <1>10, StayStanding DEF B

\* One activation, or one and its block's, in place of the innermost.
LEMMA MoveStands ==
    ASSUME TypeInv, frames # <<>>, NEW Out, NEW In, NEW k, Standing(frames, k, Out, In),
           Top.h # "scope", NEW m, m.h = Top.h, m.node = Top.node
    PROVE  /\ frames' = Callers => Standing(frames', k, Out, In)
           /\ frames' = Callers \o <<m>> => Standing(frames', k, Out, In)
           /\ \A b \in Around(k, Out, In) :
                frames' = Callers \o <<m, BlockFrame(b)>> => Standing(frames', k, Out, In)
<1> DEFINE B == Around(k, Out, In)
<1>1. Fitting(m, B) /\ m.h # "scope"
  BY TopStands, MovedFits
<1> HIDE DEF B
<1>2. ASSUME frames' = Callers PROVE Standing(frames', k, Out, In)
  <2> DEFINE t == <<>>
  <2>1. frames' = Callers \o t /\ t \in Seq({}) /\ Len(t) = 0
    BY <1>2, TopFacts, ConcatEmptySeq
  <2> HIDE DEF t
  <2>2. \A j \in 1 .. Len(t) : t[j].h # "scope" /\ Fitting(t[j], B)
    BY <2>1
  <2>3. QED
    BY <2>1, <2>2, StayStanding DEF B
<1>3. ASSUME frames' = Callers \o <<m>> PROVE Standing(frames', k, Out, In)
  <2> DEFINE t == <<m>>
  <2>1. frames' = Callers \o t /\ t \in Seq({m}) /\ \A j \in 1 .. Len(t) : t[j] = m
    BY <1>3
  <2> HIDE DEF t
  <2>2. \A j \in 1 .. Len(t) : t[j].h # "scope" /\ Fitting(t[j], B)
    BY <1>1, <2>1
  <2>3. QED
    BY <2>1, <2>2, StayStanding DEF B
<1>4. ASSUME NEW b \in B, frames' = Callers \o <<m, BlockFrame(b)>> PROVE Standing(frames', k, Out, In)
  <2> DEFINE c == BlockFrame(b)
             t == <<m, c>>
  <2>1. c.h # "scope" /\ Fitting(c, B)
    BY DEF BlockFrame, Frame, Fitting
  <2> HIDE DEF c
  <2>2. t \in Seq({m, c}) /\ \A j \in 1 .. Len(t) : t[j] = m \/ t[j] = c
    OBVIOUS
  <2>3. frames' = Callers \o t
    BY <1>4 DEF c
  <2> HIDE DEF t
  <2>4. \A j \in 1 .. Len(t) : t[j].h # "scope" /\ Fitting(t[j], B)
    BY <1>1, <2>1, <2>2
  <2>5. QED
    BY <2>2, <2>3, <2>4, StayStanding DEF B
<1>5. QED
  BY <1>2, <1>3, <1>4 DEF B

-----------------------------------------------------------------------------
(* The steps of these handlers.                                            *)

LEMMA IdVector ==
    ASSUME NEW v \in Seq(Node), AllIds(v)
    PROVE  v \in Seq(Ids)
<1>1. DOMAIN v = 1 .. Len(v) /\ Len(v) \in Nat /\ \A i \in 1 .. Len(v) : v[i] \in Node
  BY LenProperties, ElementOfSeq
<1>2. \A i \in 1 .. Len(v) : v[i] \in Ids
  BY <1>1 DEF AllIds, Ids, OfType, Node, Null
<1>3. QED
  BY <1>1, <1>2

LEMMA TidyDecl ==
    ASSUME NEW n \in Node, n.type = "DECL", AllIds(n.vec)
    PROVE  n \in Nodes /\ Decl(n)
<1>1. n \in Nodes
  BY DEF Node, Null
<1>2. n.vec \in Seq(Node) /\ {"type", "vec"} \subseteq DOMAIN n
  BY <1>1, MembersOfNode
<1>3. QED
  BY <1>1, <1>2, IdVector DEF Decl

\* A simple statement that is tidy leaves everything as it was.
LEMMA SimpleVisits ==
    ASSUME NEW n \in Node, NEW f \in Calm, TidySimple(n, f.scope = 1)
    PROVE  Visits(n, Start(f), Start(f))
<1>1. n \in Nodes
  <2>1. n.type # "NULL"
    BY DEF TidySimple, Silent
  <2>2. QED
    BY <2>1 DEF Node, Null
<1>2. CASE n.type = "DIM"
  <2>1. n.vec \in Seq(OfType(Nodes, "BINARY_OP")) /\ {"type", "vec"} \subseteq DOMAIN n
    BY <1>1, <1>2, MembersOfNode
  <2>2. /\ Len(n.vec) \in Nat /\ DOMAIN n.vec = 1 .. Len(n.vec)
        /\ \A i \in 1 .. Len(n.vec) : n.vec[i] \in OfType(Nodes, "BINARY_OP")
    BY <2>1, LenProperties, ElementOfSeq
  <2>3. \A i \in DOMAIN n.vec :
           n.vec[i].left.type = "DECL" /\ AllIds(n.vec[i].left.vec) /\ n.vec[i].right = Null
    BY <1>2 DEF TidySimple, Silent
  <2>4. ASSUME NEW i \in 1 .. Len(n.vec) PROVE n.vec[i] \in Dims
    <3> DEFINE d == n.vec[i]
    <3>1. d \in Nodes /\ d.type = "BINARY_OP" /\ d.left.type = "DECL" /\ AllIds(d.left.vec) /\ d.right = Null
      BY <2>2, <2>3 DEF OfType
    <3> HIDE DEF d
    <3>2. Decl(d.left)
      BY <3>1, MembersOfNode, TidyDecl
    <3>3. d \in Dims
      BY <3>1, <3>2 DEF Decl, Dims
    <3>4. QED
      BY <3>3 DEF d
  <2>5. n.vec \in Seq(Dims)
    BY <2>2, <2>1, <2>4
  <2>6. DimLines(n, Start(f), Start(f))
    BY <1>2, <2>1, <2>5, Zenon DEF DimLines
  <2>7. QED
    BY <2>6 DEF Visits
<1>3. CASE n.type # "DIM"
  <2>1. StatementLines(n, Start(f), Start(f))
    BY <1>1, <1>3, Zenon DEF StatementLines
  <2>2. QED
    BY <2>1 DEF Visits
<1>4. QED
  BY <1>2, <1>3

\* One visit is left to do.
LEMMA OneLeads ==
    ASSUME NEW n, NEW a, NEW b, Visits(n, a, b), todo' = <<Visit(n)>>
    PROVE  Leads(todo', a, b)
<1>1. Leads(<<Visit(n)>>, a, b)
  BY VisitIs, LeadsOne
<1>2. QED
  BY <1>1

LEMMA visit_blockPlaced ==
    ASSUME TypeInv, NEW Out, NEW In, Tidy(Out, In), Placed(Out, In), visit_block
    PROVE  Placed(Out, In)'
<1>1. Running("block") /\ todo = <<>> /\ frames # <<>> /\ Top.h = "block" /\ flag' = flag /\ out' = out
  BY DEF visit_block, Running
<1>2. PICK f \in Calm : \E k : /\ Track(flag) = f /\ Leads(out, From, From)
                              /\ Standing(frames, k, Out, In)
                              /\ f.scope = IF k = 0 THEN 0 ELSE 1
  BY <1>1, PlacedHere
<1>3. PICK k : /\ Track(flag) = f /\ Leads(out, From, From)
               /\ Standing(frames, k, Out, In)
               /\ f.scope = IF k = 0 THEN 0 ELSE 1
  BY <1>2
<1>4. Track(flag') = f
  BY <1>1, <1>3
<1>5. CASE /\ Top.i <= Len(Top.node.stmts) /\ NextStmt.type \notin Composite
           /\ todo' = <<Visit(NextStmt)>> /\ CallFromBlock(<<>>)
  <2>1. AtStmt({NextStmt.type})
    BY <1>1, <1>5 DEF AtStmt
  <2>2. NextStmt \in Node /\ TidyStatement(NextStmt, Around(k, Out, In), k # 0, In)
    BY <1>3, <2>1, StatementStands
  <2>3. TidySimple(NextStmt, k # 0)
    BY <1>5, <2>2 DEF TidyStatement, Composite
  <2>4. (f.scope = 1) = (k # 0)
    BY <1>3
  <2>5. Visits(NextStmt, Start(f), Start(f))
    BY <2>2, <2>3, <2>4, SimpleVisits
  <2>6. Leads(todo', Start(Track(flag')), Start(f))
    BY <1>4, <1>5, <2>5, OneLeads
  <2>7. Core(f)'
    <3>1. Leads(out', From, From)
      BY <1>1, <1>3
    <3>2. QED
      BY <2>6, <3>1, CoreThere
  <2>8. Standing(frames', k, Out, In)
    <3> DEFINE none == <<>>
    <3>1. none \in Seq({}) /\ Len(none) = 0 /\ CallFromBlock(none)
      BY <1>5
    <3> HIDE DEF none
    <3>2. \A j \in 1 .. Len(none) : none[j].h # "scope" /\ Fitting(none[j], Around(k, Out, In))
      BY <3>1
    <3>3. QED
      BY <1>3, <2>1, <3>1, <3>2, CallStands
  <2>9. QED
    BY <1>3, <2>7, <2>8, PlacedThere
<1>6. CASE frames' = Callers /\ todo' = todo
  <2>1. Standing(frames', k, Out, In)
    <3>1. Top.h # "scope"
      BY <1>1
    <3>2. QED
      BY <1>1, <1>3, <1>6, <3>1, MoveStands
  <2>2. Core(f)'
    BY <1>1, <1>3, <1>4, <1>6, CoreStill
  <2>3. QED
    BY <1>3, <2>1, <2>2, PlacedThere
<1>7. QED
  BY <1>5, <1>6 DEF visit_block

\* A condition is left to do.
LEMMA ConditionPlaced ==
    ASSUME TypeInv, NEW f \in Calm, Track(flag) = f, Leads(out, From, From), out' = out,
           NEW e, Flat(e, {"OP_EQ", "OP_NEQ", "OP_ASSIGN"}), todo' = <<Visit(e)>>,
           flag' = [flag EXCEPT !.from_if = @ + 1]
    PROVE  Core(f)'
<1>1. "from_if" \in Tracked /\ f["from_if"] = 0
  BY CalmFacts, ContextTracked
<1>2. Track(flag') = With(f, "from_if", 1)
  <2>1. 1 \in Int /\ f["from_if"] + 1 = 1
    BY <1>1
  <2>2. QED
    BY <1>1, <2>1, Counting
<1> DEFINE g == With(f, "from_if", 1)
<1>3. Visits(e, Start(g), Start(f))
  <2>1. IfCondition(e, Start(g), Start(f))
    BY Zenon DEF IfCondition
  <2>2. QED
    BY <2>1 DEF Visits
<1> HIDE DEF g
<1>4. Leads(todo', Start(Track(flag')), Start(f))
  BY <1>2, <1>3, OneLeads DEF g
<1>5. QED
  BY <1>4, CoreThere

LEMMA visit_ifPlaced ==
    ASSUME TypeInv, NEW Out, NEW In, Tidy(Out, In), Placed(Out, In), visit_if
    PROVE  Placed(Out, In)'
<1> DEFINE n == NextStmt
           a == Frame("if", NextStmt, "conds", lbl.else_if_num)
<1>1. /\ AtStmt({"IF"}) /\ todo = <<>> /\ out' = out /\ CallFromBlock(<<a>>)
      /\ flag' = [flag EXCEPT !.from_if = @ + 1] /\ todo' = <<Visit(n.expr)>>
  BY DEF visit_if, AtStmt, Running
<1>2. PICK f \in Calm : \E k : /\ Track(flag) = f /\ Leads(out, From, From)
                              /\ Standing(frames, k, Out, In)
                              /\ f.scope = IF k = 0 THEN 0 ELSE 1
  BY <1>1, PlacedHere
<1>3. PICK k : /\ Track(flag) = f /\ Leads(out, From, From)
               /\ Standing(frames, k, Out, In)
               /\ f.scope = IF k = 0 THEN 0 ELSE 1
  BY <1>2
<1> DEFINE B == Around(k, Out, In)
<1>4. n.type = "IF" /\ TidyStatement(n, B, k # 0, In)
  BY <1>1, <1>3, StatementStands
<1>5. TidyIf(n, B)
  BY <1>4 DEF TidyStatement, TidySimple, Silent
<1>6. Flat(n.expr, {"OP_EQ", "OP_NEQ", "OP_ASSIGN"})
  BY <1>5 DEF TidyIf
<1>7. a.h = "if" /\ a.node = n
  BY DEF Frame
<1> HIDE DEF n, a, B
<1>8. Core(f)'
  BY <1>1, <1>3, <1>6, ConditionPlaced
<1>9. Standing(frames', k, Out, In)
  <2> DEFINE t == <<a>>
  <2>1. t \in Seq({a}) /\ \A j \in 1 .. Len(t) : t[j] = a
    OBVIOUS
  <2>2. CallFromBlock(t)
    BY <1>1
  <2> HIDE DEF t
  <2>3. \A j \in 1 .. Len(t) : t[j].h # "scope" /\ Fitting(t[j], B)
    BY <1>5, <1>7, <2>1 DEF Fitting
  <2>4. QED
    BY <1>1, <1>3, <2>1, <2>2, <2>3, CallStands DEF B
<1>10. QED
  BY <1>3, <1>8, <1>9, PlacedThere

\* An activation of visit_if that is tidy.
LEMMA IfStands ==
    ASSUME TypeInv, NEW Out, NEW In, NEW k, Standing(frames, k, Out, In), NEW pc, InIf(pc)
    PROVE  /\ frames # <<>> /\ Top.h = "if" /\ Top \in Activations /\ todo = <<>>
           /\ TidyIf(Top.node, Around(k, Out, In))
           /\ \A i \in DOMAIN ElseIfs :
                /\ Flat(ElseIfs[i].expr, {"OP_EQ", "OP_NEQ", "OP_ASSIGN"})
                /\ ElseIfs[i].block \in Around(k, Out, In)
           /\ Top.i <= Len(ElseIfs) => Top.i \in DOMAIN ElseIfs
<1>1. frames # <<>> /\ Top.h = "if" /\ todo = <<>>
  BY DEF InIf, Running
<1>2. Top \in Activations /\ Top.i \in Nat \ {0} /\ ElseIfs \in Seq(OfType(Nodes, "IF"))
  BY IfFacts
<1>3. TidyIf(Top.node, Around(k, Out, In))
  BY <1>1, TopStands DEF Fitting
<1>4. \A i \in DOMAIN ElseIfs :
        /\ Flat(ElseIfs[i].expr, {"OP_EQ", "OP_NEQ", "OP_ASSIGN"})
        /\ ElseIfs[i].block \in Around(k, Out, In)
  BY <1>3 DEF TidyIf, ElseIfs
<1>5. Top.i <= Len(ElseIfs) => Top.i \in DOMAIN ElseIfs
  BY <1>2, LenProperties
<1>6. QED
  BY <1>1, <1>2, <1>3, <1>4, <1>5

LEMMA IfElseIfCondPlaced ==
    ASSUME TypeInv, NEW Out, NEW In, Tidy(Out, In), Placed(Out, In), IfElseIfCond
    PROVE  Placed(Out, In)'
<1> DEFINE m == [Top EXCEPT !.i = @ + 1]
<1>1. /\ InIf("conds") /\ Top.i <= Len(ElseIfs) /\ out' = out
      /\ flag' = [flag EXCEPT !.from_if = @ + 1] /\ todo' = <<Visit(ElseIfs[Top.i].expr)>>
      /\ frames' = Callers \o <<m>> /\ todo = <<>>
  BY DEF IfElseIfCond, InIf, Running
<1>2. PICK f \in Calm : \E k : /\ Track(flag) = f /\ Leads(out, From, From)
                              /\ Standing(frames, k, Out, In)
                              /\ f.scope = IF k = 0 THEN 0 ELSE 1
  BY <1>1, PlacedHere
<1>3. PICK k : /\ Track(flag) = f /\ Leads(out, From, From)
               /\ Standing(frames, k, Out, In)
               /\ f.scope = IF k = 0 THEN 0 ELSE 1
  BY <1>2
<1>4. /\ frames # <<>> /\ Top.h = "if" /\ Top \in Activations
      /\ Flat(ElseIfs[Top.i].expr, {"OP_EQ", "OP_NEQ", "OP_ASSIGN"})
  BY <1>1, <1>3, IfStands
<1>5. Core(f)'
  BY <1>1, <1>3, <1>4, ConditionPlaced
<1>6. m.h = Top.h /\ m.node = Top.node
  BY <1>4, ActivationShape
<1> HIDE DEF m
<1>7. Top.h # "scope"
  BY <1>4
<1>8. Standing(frames', k, Out, In)
  BY <1>1, <1>3, <1>4, <1>6, <1>7, MoveStands
<1>9. QED
  BY <1>3, <1>5, <1>8, PlacedThere

\* visit_if prints whole lines and goes into a block, or is done.
LEMMA BranchPlaced ==
    ASSUME TypeInv, NEW Out, NEW In, Placed(Out, In), NEW pc, InIf(pc),
           Leads(out, From, From) => Leads(out', From, From), UNCHANGED <<todo, flag>>,
           NEW m, m.h = Top.h, m.node = Top.node, NEW b,
           TidyIf(Top.node, Out) => b \in Out, TidyIf(Top.node, In) => b \in In,
           \/ frames' = Callers
           \/ frames' = Callers \o <<m, BlockFrame(b)>>
    PROVE  Placed(Out, In)'
<1>1. todo = <<>> /\ frames # <<>> /\ Top.h = "if"
  BY DEF InIf, Running
<1>2. PICK f \in Calm : \E k : /\ Track(flag) = f /\ Leads(out, From, From)
                              /\ Standing(frames, k, Out, In)
                              /\ f.scope = IF k = 0 THEN 0 ELSE 1
  BY <1>1, PlacedHere
<1>3. PICK k : /\ Track(flag) = f /\ Leads(out, From, From)
               /\ Standing(frames, k, Out, In)
               /\ f.scope = IF k = 0 THEN 0 ELSE 1
  BY <1>2
<1>4. b \in Around(k, Out, In)
  <2>1. TidyIf(Top.node, Around(k, Out, In))
    BY <1>3, IfStands
  <2>2. QED
    BY <2>1 DEF Around
<1>5. Standing(frames', k, Out, In)
  <2>1. Top.h # "scope"
    BY <1>1
  <2>2. CASE frames' = Callers
    BY <1>1, <1>3, <2>1, <2>2, MoveStands
  <2>3. CASE frames' = Callers \o <<m, BlockFrame(b)>>
    BY <1>1, <1>3, <1>4, <2>1, <2>3, MoveStands
  <2>4. QED
    BY <2>2, <2>3
<1>6. Core(f)'
  <2>1. Leads(out', From, From)
    BY <1>3
  <2>2. todo' = <<>> /\ Track(flag') = f
    BY <1>1, <1>3
  <2>3. QED
    BY <2>1, <2>2, CoreStill
<1>7. QED
  BY <1>3, <1>5, <1>6, PlacedThere

LEMMA IfBlockPlaced ==
    ASSUME TypeInv, NEW Out, NEW In, Tidy(Out, In), Placed(Out, In), IfBlock
    PROVE  Placed(Out, In)'
<1> DEFINE has == Top.node.else_block # Null
           num == IF has THEN lbl.else_num + 1 ELSE lbl.else_num
           m   == [Top EXCEPT !.pc = "blocks", !.i = 1, !.mem = @ + 1, !.len = Top.i - 1]
           b   == Top.node.block
           s   == NoMatch(has, num)
           t   == BranchLabel
<1>1. /\ InIf("conds") /\ UNCHANGED <<todo, flag>>
      /\ out' = (out \o s) \o t
      /\ frames' = Callers \o <<m, BlockFrame(b)>>
  BY DEF IfBlock
<1>2. Leads(s, From, From) /\ Leads(t, From, From)
  <2>1. s = JumpLine("RES_ELSE", num) \/ s = JumpLine("END_IF", lbl.end_if_num) \/ s = <<>>
    BY DEF NoMatch, Missed
  <2>2. QED
    BY <2>1, LineLeads, LeadsNone DEF BranchLabel
<1>3. Top \in Activations
  BY <1>1, IfFacts
<1>4. m.h = Top.h /\ m.node = Top.node
  BY <1>3, ActivationShape
<1>5. \A B : TidyIf(Top.node, B) => b \in B
  BY DEF TidyIf
<1> HIDE DEF m, b, s, t, has, num
<1>6. Leads(out, From, From) => Leads(out', From, From)
  BY <1>1, <1>2, LeadsCat
<1>7. QED
  BY <1>1, <1>4, <1>5, <1>6, BranchPlaced

LEMMA IfElseIfBlockPlaced ==
    ASSUME TypeInv, NEW Out, NEW In, Tidy(Out, In), Placed(Out, In), IfElseIfBlock
    PROVE  Placed(Out, In)'
<1> DEFINE m == [Top EXCEPT !.i = @ + 1, !.mem = @ + 1]
           b == ElseIfs[Top.i].block
           s == JumpLine("END_IF", lbl.end_if_num)
           t == BranchLabel
<1>1. /\ InIf("blocks") /\ Top.i <= Top.len /\ UNCHANGED <<todo, flag>>
      /\ out' = (out \o s) \o t
      /\ frames' = Callers \o <<m, BlockFrame(b)>>
  BY DEF IfElseIfBlock
<1>2. Leads(s, From, From) /\ Leads(t, From, From)
  BY LineLeads DEF BranchLabel
<1>3. /\ Top \in Activations /\ Top.h = "if" /\ ElseIfs \in Seq(OfType(Nodes, "IF"))
  BY <1>1, IfFacts DEF InIf, Running
<1>4. m.h = Top.h /\ m.node = Top.node
  BY <1>3, ActivationShape
<1>5. \A B : TidyIf(Top.node, B) => b \in B
  <2>1. Len(ElseIfs) \in Nat /\ Top.len <= Len(ElseIfs) /\ Top.len \in Nat /\ Top.i \in Nat \ {0}
    BY <1>3, ActivationShape, LenProperties DEF Fits, ElseIfs
  <2>2. Top.i \in DOMAIN ElseIfs
    BY <1>1, <1>3, <2>1, LenProperties
  <2>3. QED
    BY <2>2 DEF TidyIf, ElseIfs
<1> HIDE DEF m, b, s, t
<1>6. Leads(out, From, From) => Leads(out', From, From)
  BY <1>1, <1>2, LeadsCat
<1>7. QED
  BY <1>1, <1>4, <1>5, <1>6, BranchPlaced

LEMMA IfElseBlockPlaced ==
    ASSUME TypeInv, NEW Out, NEW In, Tidy(Out, In), Placed(Out, In), IfElseBlock
    PROVE  Placed(Out, In)'
<1> DEFINE m == [Top EXCEPT !.pc = "else"]
           b == Top.node.else_block
           s == JumpLine("END_IF", lbl.end_if_num)
           t == LabelLine("RES_ELSE", lbl.else_num)
<1>1. /\ InIf("blocks") /\ b # Null /\ UNCHANGED <<todo, flag>>
      /\ out' = (out \o s) \o t
      /\ frames' = Callers \o <<m, BlockFrame(b)>>
  BY DEF IfElseBlock
<1>2. Leads(s, From, From) /\ Leads(t, From, From)
  BY LineLeads
<1>3. Top \in Activations
  BY <1>1, IfFacts
<1>4. m.h = Top.h /\ m.node = Top.node
  BY <1>3, ActivationShape
<1>5. \A B : TidyIf(Top.node, B) => b \in B
  BY <1>1 DEF TidyIf
<1> HIDE DEF m, b, s, t
<1>6. Leads(out, From, From) => Leads(out', From, From)
  BY <1>1, <1>2, LeadsCat
<1>7. QED
  BY <1>1, <1>4, <1>5, <1>6, BranchPlaced

LEMMA IfEndPlaced ==
    ASSUME TypeInv, NEW Out, NEW In, Tidy(Out, In), Placed(Out, In), IfEnd
    PROVE  Placed(Out, In)'
<1> DEFINE s == JumpLine("END_IF", lbl.end_if_num)
           t == LabelLine("END_IF", lbl.end_if_num)
<1>1. /\ \E pc : InIf(pc)
      /\ UNCHANGED <<todo, flag>> /\ out' = (out \o s) \o t /\ frames' = Callers
  BY DEF IfEnd
<1>2. PICK pc : InIf(pc)
  BY <1>1
<1>3. Leads(s, From, From) /\ Leads(t, From, From)
  BY LineLeads
<1> HIDE DEF s, t
<1>4. Leads(out, From, From) => Leads(out', From, From)
  BY <1>1, <1>3, LeadsCat
<1>5. \A B : TidyIf(Top.node, B) => Top.node.block \in B
  BY DEF TidyIf
<1>6. QED
  BY <1>1, <1>2, <1>4, <1>5, BranchPlaced

LEMMA visit_whilePlaced ==
    ASSUME TypeInv, NEW Out, NEW In, Tidy(Out, In), Placed(Out, In), visit_while
    PROVE  Placed(Out, In)'
<1> DEFINE n == NextStmt
           x == NextLoop
           a == Frame("while", n, "body", x)
           b == BlockFrame(n.block)
           s == LabelLine("LOOP", x)
<1>1. /\ AtStmt({"WHILE"}) /\ todo = <<>> /\ todo' = todo
      /\ flag' = [flag EXCEPT !.loop_num = x] /\ out' = out \o s /\ CallFromBlock(<<a, b>>)
  BY DEF visit_while, AtStmt, Running
<1>2. PICK f \in Calm : \E k : /\ Track(flag) = f /\ Leads(out, From, From)
                              /\ Standing(frames, k, Out, In)
                              /\ f.scope = IF k = 0 THEN 0 ELSE 1
  BY <1>1, PlacedHere
<1>3. PICK k : /\ Track(flag) = f /\ Leads(out, From, From)
               /\ Standing(frames, k, Out, In)
               /\ f.scope = IF k = 0 THEN 0 ELSE 1
  BY <1>2
<1> DEFINE B == Around(k, Out, In)
<1>4. n.type = "WHILE" /\ TidyStatement(n, B, k # 0, In)
  BY <1>1, <1>3, StatementStands
<1>5. TidyWhile(n, B)
  BY <1>4 DEF TidyStatement, TidySimple, Silent
<1>6. x \in Int
  BY Counted DEF NextLoop, LblNames
<1>7. PICK y : y = x
  OBVIOUS
<1>8. /\ a.h = "while" /\ a.node = n /\ b.h = "block" /\ b.node = n.block /\ n.block \in B
      /\ Leads(s, From, From)
  BY <1>5, LineLeads DEF Frame, BlockFrame, TidyWhile
<1> HIDE DEF n, x, a, b, s, B
<1> DEFINE g == With(f, "loop_num", y)
<1>9. Track(flag') = g
  <2>1. "loop_num" \in Tracked /\ DOMAIN flag = FlagNames
    BY ContextTracked DEF TypeInv
  <2>2. Track([flag EXCEPT !["loop_num"] = y]) = With(Track(flag), "loop_num", y)
    BY <2>1, TrackWith
  <2>3. QED
    BY <1>1, <1>3, <1>7, <2>2
<1>10. g \in Calm /\ g.scope = f.scope
  BY <1>6, <1>7, CalmWith
<1> HIDE DEF g
<1>11. Leads(out', From, From)
  BY <1>1, <1>3, <1>8, MoreLines
<1>12. PICK h \in Calm : h = g
  BY <1>10
<1>13. Core(h)'
  <2>1. todo' = <<>> /\ Track(flag') = h
    BY <1>1, <1>9, <1>12
  <2>2. QED
    BY <1>11, <2>1, CoreStill
<1>14. Standing(frames', k, Out, In)
  <2> DEFINE t == <<a, b>>
  <2>1. t \in Seq({a, b}) /\ \A j \in 1 .. Len(t) : t[j] = a \/ t[j] = b
    OBVIOUS
  <2>2. CallFromBlock(t)
    BY <1>1
  <2> HIDE DEF t
  <2>3. \A j \in 1 .. Len(t) : t[j].h # "scope" /\ Fitting(t[j], B)
    BY <1>5, <1>8, <2>1 DEF Fitting
  <2>4. QED
    BY <1>1, <1>3, <2>1, <2>2, <2>3, CallStands DEF B
<1>15. QED
  BY <1>3, <1>10, <1>12, <1>13, <1>14, PlacedThere

LEMMA WhileCondPlaced ==
    ASSUME TypeInv, NEW Out, NEW In, Tidy(Out, In), Placed(Out, In), WhileCond
    PROVE  Placed(Out, In)'
<1> DEFINE e == Top.node.expr
<1>1. /\ frames # <<>> /\ Top.h = "while" /\ todo = <<>> /\ frames' = Callers /\ out' = out
      /\ flag' = [flag EXCEPT !.from_loop = @ + 1] /\ todo' = <<Visit(e)>>
  BY DEF WhileCond, Running
<1>2. PICK f \in Calm : \E k : /\ Track(flag) = f /\ Leads(out, From, From)
                              /\ Standing(frames, k, Out, In)
                              /\ f.scope = IF k = 0 THEN 0 ELSE 1
  BY <1>1, PlacedHere
<1>3. PICK k : /\ Track(flag) = f /\ Leads(out, From, From)
               /\ Standing(frames, k, Out, In)
               /\ f.scope = IF k = 0 THEN 0 ELSE 1
  BY <1>2
<1>4. Top.h # "scope"
  BY <1>1
<1>5. Flat(e, {"OP_EQ"})
  <2>1. Fitting(Top, Around(k, Out, In))
    BY <1>1, <1>3, <1>4, TopStands
  <2>2. QED
    BY <1>1, <2>1 DEF Fitting, TidyWhile
<1>6. Standing(frames', k, Out, In)
  BY <1>1, <1>3, <1>4, MoveStands
<1> HIDE DEF e
<1>7. "from_loop" \in Tracked /\ f["from_loop"] = 0 /\ "loop_num" \in Tracked /\ f \in Flags
  BY CalmFacts, ContextTracked
<1>8. Track(flag') = With(f, "from_loop", 1)
  <2>1. 1 \in Int /\ f["from_loop"] + 1 = 1
    BY <1>7
  <2>2. QED
    BY <1>1, <1>3, <1>7, <2>1, Counting
<1> DEFINE h == With(f, "from_loop", 1)
           g == With(f, "loop_num", f.loop_num - 1)
<1>9. g \in Calm /\ g.scope = f.scope
  <2>1. f["loop_num"] - 1 \in Int
    BY <1>7, WithFacts
  <2>2. QED
    BY <2>1, CalmWith
<1>10. Visits(e, Start(h), Start(g))
  <2>1. LoopCondition(e, Start(h), Start(g))
    BY <1>5, Zenon DEF LoopCondition
  <2>2. QED
    BY <2>1 DEF Visits
<1> HIDE DEF h, g
<1>11. Leads(todo', Start(Track(flag')), Start(g))
  BY <1>1, <1>8, <1>10, OneLeads DEF h
<1>12. PICK c \in Calm : c = g
  BY <1>9
<1>13. Core(c)'
  <2>1. Leads(out', From, From)
    BY <1>1, <1>3
  <2>2. QED
    BY <1>11, <1>12, <2>1, CoreThere
<1>14. QED
  BY <1>3, <1>6, <1>9, <1>12, <1>13, PlacedThere

\* The first lines of visit_scope.
LEMMA ScopeLines ==
    Leads(<<Op("CREATEFRAME"), NL, Op("DEFVAR"), TB1, NL, Op("DEFVAR"), TB2, NL>>, From, From)
<1>1. /\ Lacks("CREATEFRAME") = <<Nl>> /\ "CREATEFRAME" \in Instructions /\ "CREATEFRAME" # "POPS"
      /\ Lacks("DEFVAR") = <<Var, Nl>> /\ "DEFVAR" \in Instructions /\ "DEFVAR" # "POPS"
  BY LacksOf DEF Instructions
<1>2. TB1.k \in Tokens \ {"nl"} /\ TB1.k \in Var /\ TB2.k \in Tokens \ {"nl"} /\ TB2.k \in Var
  BY DEF TB1, TB2, TF, Tok, Tokens, Plain, Var
<1> DEFINE z == At(Zero, <<>>, FALSE)
           v == At(Zero, <<Var, Nl>>, FALSE)
           w == At(Zero, <<Nl>>, FALSE)
<1>3. /\ Effect(TB1, v, w) /\ Effect(TB2, v, w)
  BY <1>2, Operand
<1>4. Effect(Op("CREATEFRAME"), z, w) /\ Effect(Op("DEFVAR"), z, v)
  BY <1>1, Begins
<1>5. Effect(NL, w, z)
  BY Ends
<1> HIDE DEF z, v, w
<1>6. Leads(<<Op("CREATEFRAME"), NL, Op("DEFVAR"), TB1, NL, Op("DEFVAR"), TB2, NL>>, z, z)
  BY <1>3, <1>4, <1>5, LeadsEight
<1>7. QED
  BY <1>6 DEF z, From, Start

LEMMA LongerFront ==
    ASSUME NEW a, NEW b, NEW c
    PROVE  <<a>> \o <<b, c>> = <<a, b, c>>
<1> DEFINE s == <<a>>
           t == <<b, c>>
           u == <<a, b, c>>
<1>1. u \in Seq({a, b, c}) /\ s \in Seq({a, b, c}) /\ t \in Seq({a, b, c})
  OBVIOUS
<1>2. /\ Len(s) = 1 /\ Len(t) = 2 /\ Len(u) = 3 /\ s[1] = u[1]
      /\ t[1] = u[2] /\ t[2] = u[3]
  OBVIOUS
<1> HIDE DEF s, t, u
<1>3. /\ Len(u) = Len(s) + Len(t)
      /\ \A i \in 1 .. Len(s) : u[i] = s[i]
      /\ \A i \in 1 .. Len(t) : u[Len(s) + i] = t[i]
  BY <1>2
<1>4. u = s \o t
  BY <1>1, <1>3, Joined, Zenon
<1>5. QED
  BY <1>4 DEF s, t, u

LEMMA visit_scopePlaced ==
    ASSUME TypeInv, NEW Out, NEW In, Tidy(Out, In), Placed(Out, In), visit_scope
    PROVE  Placed(Out, In)'
<1> DEFINE n == NextStmt
           m == [Top EXCEPT !.i = @ + 1]
           a == Frame("scope", n, "body", 0)
           b == BlockFrame(n.block)
           s == LabelLine("Scope", 0)
           t == <<Op("CREATEFRAME"), NL, Op("DEFVAR"), TB1, NL, Op("DEFVAR"), TB2, NL>>
<1>1. /\ AtStmt({"SCOPE"}) /\ todo = <<>> /\ todo' = todo
      /\ flag' = [flag EXCEPT !.scope = @ + 1] /\ out' = (out \o s) \o t
      /\ frames' = Callers \o (<<m>> \o <<a, b>>)
  BY DEF visit_scope, AtStmt, Running, CallFromBlock
<1>2. PICK f \in Calm : \E k : /\ Track(flag) = f /\ Leads(out, From, From)
                              /\ Standing(frames, k, Out, In)
                              /\ f.scope = IF k = 0 THEN 0 ELSE 1
  BY <1>1, PlacedHere
<1>3. PICK k : /\ Track(flag) = f /\ Leads(out, From, From)
               /\ Standing(frames, k, Out, In)
               /\ f.scope = IF k = 0 THEN 0 ELSE 1
  BY <1>2
<1> DEFINE B == Around(k, Out, In)
<1>4. /\ n.type = "SCOPE" /\ TidyStatement(n, B, k # 0, In) /\ frames # <<>> /\ Top.h = "block"
      /\ Fitting(Top, B)
  BY <1>1, <1>3, StatementStands, SMTT(30)
<1>5. k = 0 /\ n.block \in In
  <2>1. ~(k # 0) /\ n.block \in In
    BY <1>4 DEF TidyStatement, TidySimple, Silent
  <2>2. QED
    BY <2>1
<1>6. Top \in Activations
  BY <1>4, TopFacts
<1>7. /\ a.h = "scope" /\ b.h = "block" /\ b.node = n.block /\ m.h = "block" /\ m.node = Top.node
  BY <1>4, <1>6, ActivationShape DEF Frame, BlockFrame
<1>8. Leads(s, From, From) /\ Leads(t, From, From)
  BY LineLeads, ScopeLines
<1> HIDE DEF s, t, n, m, a, b
<1>9. m.h # "scope" /\ Fitting(m, Out) /\ b.h # "scope" /\ Fitting(b, In)
  BY <1>4, <1>5, <1>7 DEF Fitting, Around
<1>10. frames' = Callers \o <<m, a, b>>
  <2>1. <<m>> \o <<a, b>> = <<m, a, b>>
    BY LongerFront
  <2>2. QED
    BY <1>1, <2>1
<1>11. Standing(frames', Len(frames) + 1, Out, In)
  BY <1>3, <1>4, <1>5, <1>7, <1>9, <1>10, EnterStanding
<1>12. PICK j : j = Len(frames) + 1
  OBVIOUS
<1>13. j # 0
  BY <1>12, LenProperties DEF TypeInv
<1>14. "scope" \in Tracked /\ f["scope"] = 0
  BY <1>3, <1>5, ContextTracked
<1>15. Track(flag') = With(f, "scope", 1)
  <2>1. 1 \in Int /\ f["scope"] + 1 = 1
    BY <1>14
  <2>2. QED
    BY <1>1, <1>3, <1>14, <2>1, Counting
<1> DEFINE g == With(f, "scope", 1)
<1>16. g \in Calm /\ g.scope = 1
  BY CalmWith
<1> HIDE DEF g
<1>17. Leads(out', From, From)
  BY <1>1, <1>3, <1>8, LeadsCat
<1>18. Core(g)'
  <2>1. todo' = <<>> /\ Track(flag') = g
    BY <1>1, <1>15 DEF g
  <2>2. QED
    BY <1>16, <1>17, <2>1, CoreStill DEF g
<1>19. Standing(frames', j, Out, In)
  BY <1>11, <1>12
<1>20. QED
  BY <1>13, <1>16, <1>18, <1>19, PlacedThere DEF g

LEMMA ScopeEndPlaced ==
    ASSUME TypeInv, NEW Out, NEW In, Tidy(Out, In), Placed(Out, In), ScopeEnd
    PROVE  Placed(Out, In)'
<1> DEFINE s == LabelLine("END_IF", 0)
<1>1. /\ frames # <<>> /\ Top.h = "scope" /\ todo = <<>> /\ todo' = todo /\ frames' = Callers
      /\ flag' = [flag EXCEPT !.scope = @ - 1] /\ out' = out \o s
  BY DEF ScopeEnd, Running
<1>2. PICK f \in Calm : \E k : /\ Track(flag) = f /\ Leads(out, From, From)
                              /\ Standing(frames, k, Out, In)
                              /\ f.scope = IF k = 0 THEN 0 ELSE 1
  BY <1>1, PlacedHere
<1>3. PICK k : /\ Track(flag) = f /\ Leads(out, From, From)
               /\ Standing(frames, k, Out, In)
               /\ f.scope = IF k = 0 THEN 0 ELSE 1
  BY <1>2
<1>4. k # 0
  BY <1>1, <1>3, TopStands
<1>5. Standing(frames', 0, Out, In)
  BY <1>1, <1>3, LeaveStanding
<1>6. "scope" \in Tracked /\ f["scope"] = 1
  BY <1>3, <1>4, ContextTracked
<1> DEFINE g == With(f, "scope", 0)
<1>7. Track(flag') = g
  <2>1. -1 \in Int /\ f["scope"] + -1 = 0
    BY <1>6
  <2>2. flag' = [flag EXCEPT !["scope"] = @ + -1]
    <3>1. flag.scope = 1
      BY <1>3, <1>6, FlagsHere
    <3>2. flag.scope - 1 = flag.scope + -1
      BY <3>1
    <3>3. QED
      BY <1>1, <3>2
  <2>3. QED
    BY <1>3, <1>6, <2>1, <2>2, Counting
<1>8. g \in Calm /\ g.scope = 0
  BY CalmWith
<1> HIDE DEF g, s
<1>9. Leads(out', From, From)
  BY <1>1, <1>3, LineLeads, LeadsCat DEF s
<1>10. Core(g)'
  <2>1. todo' = <<>>
    BY <1>1
  <2>2. QED
    BY <1>7, <1>8, <1>9, <2>1, CoreStill DEF g
<1>11. QED
  BY <1>5, <1>8, <1>10, PlacedThere DEF g

\* The lines that open a function.
LEMMA FunctionLines ==
    ASSUME NEW name
    PROVE  Leads(<<Op("LABEL"), Tok("word", name, 0), NL, Op("CREATEFRAME"), NL>>, From, From)
<1> DEFINE x == Tok("word", name, 0)
<1>1. /\ Lacks("CREATEFRAME") = <<Nl>> /\ "CREATEFRAME" \in Instructions /\ "CREATEFRAME" # "POPS"
      /\ Lacks("LABEL") = <<Label, Nl>> /\ "LABEL" \in Instructions /\ "LABEL" # "POPS"
  BY LacksOf DEF Instructions
<1>2. x.k \in Tokens \ {"nl"} /\ x.k \in Label
  BY DEF Tok, Tokens, Plain, Label
<1> DEFINE z == At(Zero, <<>>, FALSE)
           v == At(Zero, <<Label, Nl>>, FALSE)
           w == At(Zero, <<Nl>>, FALSE)
<1> HIDE DEF x
<1>3. Effect(x, v, w)
  BY <1>2, Operand
<1>4. Effect(Op("CREATEFRAME"), z, w) /\ Effect(Op("LABEL"), z, v)
  BY <1>1, Begins
<1>5. Effect(NL, w, z)
  BY Ends
<1> HIDE DEF z, v, w
<1>6. Leads(<<Op("LABEL"), x, NL, Op("CREATEFRAME"), NL>>, z, z)
  BY <1>3, <1>4, <1>5, LeadsFive
<1>7. QED
  BY <1>6 DEF x, z, From, Start

LEMMA visit_functionPlaced ==
    ASSUME TypeInv, NEW Out, NEW In, Tidy(Out, In), Placed(Out, In), visit_function
    PROVE  Placed(Out, In)'
<1> DEFINE n == NextStmt
           a == Frame("function", n, "body", 0)
           b == BlockFrame(n.block)
           s == <<Op("LABEL"), Tok("word", n.name, 0), NL, Op("CREATEFRAME"), NL>>
<1>1. /\ AtStmt({"FUNCTION"}) /\ todo = <<>> /\ todo' = <<Params(n.params)>>
      /\ flag' = [flag EXCEPT !.from_func = @ + 1] /\ out' = out \o s /\ CallFromBlock(<<a, b>>)
  BY DEF visit_function, AtStmt, Running
<1>2. PICK f \in Calm : \E k : /\ Track(flag) = f /\ Leads(out, From, From)
                              /\ Standing(frames, k, Out, In)
                              /\ f.scope = IF k = 0 THEN 0 ELSE 1
  BY <1>1, PlacedHere
<1>3. PICK k : /\ Track(flag) = f /\ Leads(out, From, From)
               /\ Standing(frames, k, Out, In)
               /\ f.scope = IF k = 0 THEN 0 ELSE 1
  BY <1>2
<1> DEFINE B == Around(k, Out, In)
<1>4. n.type = "FUNCTION" /\ n \in Node /\ TidyStatement(n, B, k # 0, In)
  BY <1>1, <1>3, StatementStands
<1>5. TidyFunction(n, B)
  BY <1>4 DEF TidyStatement, TidySimple, Silent
<1>6. n.params \in Seq({d \in Nodes : Decl(d)})
  <2> DEFINE ps == n.params
             D == {d \in Nodes : Decl(d)}
  <2>1. ps \in Seq(Node)
    <3>1. n \in Nodes
      BY <1>4 DEF Node, Null
    <3>2. QED
      BY <1>4, <3>1, MembersOfNode
  <2>2. \A i \in DOMAIN ps : ps[i].type = "DECL" /\ AllIds(ps[i].vec)
    BY <1>5 DEF TidyFunction
  <2> HIDE DEF ps
  <2>3. Len(ps) \in Nat /\ DOMAIN ps = 1 .. Len(ps) /\ \A i \in 1 .. Len(ps) : ps[i] \in Node
    BY <2>1, LenProperties, ElementOfSeq
  <2>4. \A i \in 1 .. Len(ps) : ps[i] \in D
    BY <2>2, <2>3, TidyDecl
  <2> HIDE DEF D
  <2>5. ps \in Seq(D)
    BY <2>1, <2>3, <2>4
  <2>6. QED
    BY <2>5 DEF ps, D
<1>7. /\ a.h = "function" /\ b.h = "block" /\ b.node = n.block /\ n.block \in B
      /\ Leads(s, From, From)
  BY <1>5, FunctionLines DEF Frame, BlockFrame, TidyFunction
<1> DEFINE x == Params(n.params)
<1> HIDE DEF a, b, s, B
<1>8. "from_func" \in Tracked /\ f \in Flags /\ f["from_func"] + 1 \in Int
  BY CalmFacts, ContextTracked, WithFacts
<1> DEFINE g == With(f, "from_func", f["from_func"] + 1)
<1>9. Track(flag') = g
  <2>1. 1 \in Int
    OBVIOUS
  <2>2. QED
    BY <1>1, <1>3, <1>8, <2>1, Counting
<1>10. g \in Calm /\ g.scope = f.scope
  BY <1>8, CalmWith
<1> HIDE DEF g
<1>11. Leads(out', From, From)
  BY <1>1, <1>3, <1>7, LeadsCat
<1>12. Effect(x, Start(g), Start(g))
  <2>1. ParamLines(n.params, Start(g), Start(g))
    BY <1>6, <1>10 DEF ParamLines
  <2>2. x.k = "params" /\ x.vec = n.params
    BY DEF Params
  <2> HIDE DEF x, n
  <2>3. QED
    BY <2>1, <2>2, Zenon DEF Effect
<1> HIDE DEF x
<1>13. Leads(todo', Start(Track(flag')), Start(g))
  <2>1. Leads(<<x>>, Start(g), Start(g))
    BY <1>12, LeadsOne
  <2>2. todo' = <<x>>
    BY <1>1 DEF x
  <2>3. QED
    BY <1>9, <2>1, <2>2
<1>14. Core(g)'
  BY <1>10, <1>11, <1>13, CoreThere DEF g
<1>15. Standing(frames', k, Out, In)
  <2> DEFINE t == <<a, b>>
  <2>1. t \in Seq({a, b}) /\ \A j \in 1 .. Len(t) : t[j] = a \/ t[j] = b
    OBVIOUS
  <2>2. CallFromBlock(t)
    BY <1>1
  <2> HIDE DEF t, n
  <2>3. \A j \in 1 .. Len(t) : t[j].h # "scope" /\ Fitting(t[j], B)
    BY <1>7, <2>1 DEF Fitting
  <2>4. QED
    BY <1>1, <1>3, <2>1, <2>2, <2>3, CallStands DEF B
<1>16. QED
  BY <1>3, <1>10, <1>14, <1>15, PlacedThere DEF g

LEMMA FunctionEndPlaced ==
    ASSUME TypeInv, NEW Out, NEW In, Tidy(Out, In), Placed(Out, In), FunctionEnd
    PROVE  Placed(Out, In)'
<1>1. /\ frames # <<>> /\ Top.h = "function" /\ todo = <<>> /\ todo' = todo /\ frames' = Callers
      /\ flag' = [flag EXCEPT !.from_func = @ - 1] /\ out' = out
  BY DEF FunctionEnd, Running
<1>2. PICK f \in Calm : \E k : /\ Track(flag) = f /\ Leads(out, From, From)
                              /\ Standing(frames, k, Out, In)
                              /\ f.scope = IF k = 0 THEN 0 ELSE 1
  BY <1>1, PlacedHere
<1>3. PICK k : /\ Track(flag) = f /\ Leads(out, From, From)
               /\ Standing(frames, k, Out, In)
               /\ f.scope = IF k = 0 THEN 0 ELSE 1
  BY <1>2
<1>4. Standing(frames', k, Out, In)
  <2>1. Top.h # "scope"
    BY <1>1
  <2>2. QED
    BY <1>1, <1>3, <2>1, MoveStands
<1>5. "from_func" \in Tracked /\ f \in Flags /\ f["from_func"] \in Int
  BY CalmFacts, ContextTracked, WithFacts
<1> DEFINE g == With(f, "from_func", f["from_func"] + -1)
<1>6. Track(flag') = g
  <2>1. -1 \in Int
    OBVIOUS
  <2>2. flag' = [flag EXCEPT !["from_func"] = @ + -1]
    <3>1. flag["from_func"] \in Int
      BY <1>3, <1>5, TrackIs
    <3>2. flag["from_func"] - 1 = flag["from_func"] + -1
      BY <3>1
    <3>3. QED
      BY <1>1, <3>2
  <2>3. QED
    BY <1>3, <1>5, <2>1, <2>2, Counting
<1>7. g \in Calm /\ g.scope = f.scope
  <2>1. f["from_func"] + -1 \in Int
    BY <1>5
  <2>2. QED
    BY <2>1, CalmWith
<1> HIDE DEF g
<1>8. Core(g)'
  <2>1. todo' = <<>> /\ Leads(out', From, From)
    BY <1>1, <1>3
  <2>2. QED
    BY <1>6, <1>7, <2>1, CoreStill DEF g
<1>9. QED
  BY <1>3, <1>4, <1>7, <1>8, PlacedThere DEF g

LEMMA GenEndPlaced ==
    ASSUME TypeInv, NEW Out, NEW In, Tidy(Out, In), Placed(Out, In), GenEnd
    PROVE  Placed(Out, In)'
<1>1. /\ frames # <<>> /\ Top.h = "gen" /\ todo = <<>> /\ todo' = todo /\ frames' = Callers
      /\ flag' = flag /\ out' = out \o <<NL>>
  BY DEF GenEnd, Running
<1>2. PICK f \in Calm : \E k : /\ Track(flag) = f /\ Leads(out, From, From)
                              /\ Standing(frames, k, Out, In)
                              /\ f.scope = IF k = 0 THEN 0 ELSE 1
  BY <1>1, PlacedHere
<1>3. PICK k : /\ Track(flag) = f /\ Leads(out, From, From)
               /\ Standing(frames, k, Out, In)
               /\ f.scope = IF k = 0 THEN 0 ELSE 1
  BY <1>2
<1>4. Standing(frames', k, Out, In)
  <2>1. Top.h # "scope"
    BY <1>1
  <2>2. QED
    BY <1>1, <1>3, <2>1, MoveStands
<1>5. Leads(out', From, From)
  <2>1. Effect(NL, From, From)
    BY Ends DEF From, Start
  <2>2. Leads(<<NL>>, From, From)
    BY <2>1, LeadsOne
  <2>3. QED
    BY <1>1, <1>3, <2>2, LeadsCat
<1>6. Core(f)'
  <2>1. todo' = <<>> /\ Track(flag') = f
    BY <1>1, <1>3
  <2>2. QED
    BY <1>5, <2>1, CoreStill
<1>7. QED
  BY <1>3, <1>4, <1>6, PlacedThere

LEMMA ifj17_genPlaced ==
    ASSUME TypeInv, NEW Out, NEW In, Tidy(Out, In), Placed(Out, In), ifj17_gen
    PROVE  Placed(Out, In)'
<1>1. PICK q \in Programs : GenBegin(q)
  BY DEF ifj17_gen
<1> DEFINE a == Frame("gen", q, "body", 0)
           b == BlockFrame(q)
           s == <<Op(".IFJcode17"), NL>>
           t == JumpLine("Scope", 0)
           fr == <<a, b>>
<1>2. /\ frames = <<>> /\ todo = <<>> /\ todo' = todo /\ flag' = flag
      /\ frames' = fr /\ out' = s \o t
  BY <1>1 DEF GenBegin, Idle
<1>3. PICK f \in Calm : \E k : /\ Track(flag) = f /\ Leads(out, From, From)
                              /\ Standing(frames, k, Out, In)
                              /\ f.scope = IF k = 0 THEN 0 ELSE 1
  BY <1>2, PlacedHere
<1>4. PICK k : /\ Track(flag) = f /\ Leads(out, From, From)
               /\ Standing(frames, k, Out, In)
               /\ f.scope = IF k = 0 THEN 0 ELSE 1
  BY <1>3
<1>5. f.scope = 0
  <2>1. Len(frames) = 0 /\ k \in 0 .. Len(frames)
    BY <1>2, <1>4 DEF Standing
  <2>2. QED
    BY <1>4, <2>1
<1>6. a.h = "gen" /\ b.h = "block" /\ b.node = q /\ q \in Out
  BY DEF Frame, BlockFrame, Tidy
<1>7. Leads(s, From, From) /\ Leads(t, From, From)
  <2>1. /\ Lacks(".IFJcode17") = <<Nl>> /\ ".IFJcode17" \in Instructions /\ ".IFJcode17" # "POPS"
    BY LacksOf DEF Instructions
  <2>2. QED
    BY <2>1, LineNone, LineLeads DEF From, Start
<1> HIDE DEF a, b, s, t
<1>8. Len(fr) = 2 /\ fr[1] = a /\ fr[2] = b
  OBVIOUS
<1> HIDE DEF fr
<1>9. Standing(frames', 0, Out, In)
  <2>1. \A p \in 1 .. 2 : fr[p].h # "scope" /\ Fitting(fr[p], Out)
    <3>1. a.h # "scope" /\ Fitting(a, Out) /\ b.h # "scope" /\ Fitting(b, Out)
      BY <1>6 DEF Fitting
    <3>2. \A p \in 1 .. 2 : p = 1 \/ p = 2
      OBVIOUS
    <3>3. QED
      BY <1>8, <3>1, <3>2
  <2>2. QED
    BY <1>2, <1>8, <2>1 DEF Standing
<1>10. Core(f)'
  <2>1. Leads(out', From, From)
    BY <1>2, <1>7, LeadsCat
  <2>2. todo' = <<>> /\ Track(flag') = f
    BY <1>2, <1>4
  <2>3. QED
    BY <2>1, <2>2, CoreStill
<1>11. QED
  BY <1>5, <1>9, <1>10, PlacedThere

-----------------------------------------------------------------------------
(* The invariant.                                                          *)

\* A list of tokens.
Printed(t) == t \in Seq(Elements(t)) /\ \A i \in DOMAIN t : t[i].k \in Tokens

LEMMA PrintedList ==
    ASSUME NEW T, NEW t \in Seq(T), \A x \in T : x.k \in Tokens
    PROVE  Printed(t)
<1>1. t \in Seq(Elements(t))
  BY OwnElements
<1>2. \A i \in DOMAIN t : t[i] \in T
  BY ElementOfSeq, LenProperties
<1>3. QED
  BY <1>1, <1>2 DEF Printed

LEMMA PrintedCat ==
    ASSUME NEW s, NEW t, Printed(s), Printed(t)
    PROVE  Printed(s \o t) /\ Len(s \o t) = Len(s) + Len(t) /\ Len(s) \in Nat /\ Len(t) \in Nat
<1> DEFINE S == Elements(s)
           T == Elements(t)
           c == s \o t
<1>1. s \in Seq(S) /\ t \in Seq(T) /\ (\A x \in S \cup T : x.k \in Tokens)
  BY DEF Printed, Elements
<1> HIDE DEF S, T
<1>2. c \in Seq(S \cup T) /\ Len(c) = Len(s) + Len(t) /\ Len(s) \in Nat /\ Len(t) \in Nat
  BY <1>1, CatFacts
<1> HIDE DEF c
<1>3. Printed(c)
  BY <1>1, <1>2, PrintedList
<1>4. QED
  BY <1>2, <1>3 DEF c

\* Labels and jumps are tokens, and so is what has been printed of any list.
LEMMA PrintedLines ==
    /\ Printed(<<>>)
    /\ \A x, n : Printed(LabelLine(x, n)) /\ Printed(JumpLine(x, n))
<1>1. Printed(<<>>)
  <2>1. <<>> \in Seq({})
    OBVIOUS
  <2>2. QED
    <3> DEFINE T == {}
    <3>1. <<>> \in Seq(T) /\ \A x \in T : x.k \in Tokens
      OBVIOUS
    <3> HIDE DEF T
    <3>2. QED
      BY <3>1, PrintedList, Zenon
<1>2. ASSUME NEW x, NEW n PROVE Printed(LabelLine(x, n)) /\ Printed(JumpLine(x, n))
  <2> DEFINE a == Op("LABEL")
             b == Op("JUMP")
             d == Def(x, n)
             r == Ref(x, n)
  <2>1. LabelLine(x, n) = <<a, d, NL>> /\ JumpLine(x, n) = <<b, r, NL>>
    BY DEF LabelLine, JumpLine
  <2>2. a.k \in Tokens /\ b.k \in Tokens /\ d.k \in Tokens /\ r.k \in Tokens /\ NL.k \in Tokens
    BY DEF Op, Def, Ref, NL, Tok, Tokens, Plain
  <2> HIDE DEF a, b, d, r
  <2> DEFINE A == {a, d, NL}
             B == {b, r, NL}
  <2>3. <<a, d, NL>> \in Seq(A) /\ <<b, r, NL>> \in Seq(B)
    OBVIOUS
  <2>4. (\A y \in A : y.k \in Tokens) /\ (\A y \in B : y.k \in Tokens)
    BY <2>2
  <2> HIDE DEF A, B
  <2>5. Printed(<<a, d, NL>>) /\ Printed(<<b, r, NL>>)
    BY <2>3, <2>4, PrintedList, Zenon
  <2>6. QED
    BY <2>1, <2>5
<1>3. QED
  BY <1>1, <1>2

\* The expression handlers print tokens.
LEMMA ExpressionPrints ==
    ASSUME LabelTypeOK, ExpressionStep
    PROVE  runs' = runs /\ \E t : Printed(t) /\ out' = out \o t
<1> DEFINE Goal == \E t : Printed(t) /\ out' = out \o t
<1>1. runs' = runs
  BY ExpressionOutput
<1>2. ASSUME UNCHANGED out PROVE Goal
  <2>1. out' = out \o <<>>
    BY <1>2, ConcatEmptySeq DEF LabelTypeOK
  <2>2. QED
    BY <2>1, PrintedLines
<1>3. ASSUME NEW x, x.k \in Tokens, out' = out \o <<x>> PROVE Goal
  <2> DEFINE T == {x}
  <2>1. <<x>> \in Seq(T) /\ \A y \in T : y.k \in Tokens
    BY <1>3
  <2> HIDE DEF T
  <2>2. Printed(<<x>>)
    BY <2>1, PrintedList, Zenon
  <2>3. QED
    BY <1>3, <2>2
<1>4. \A x, n : Ref(x, n).k \in Tokens /\ Def(x, n).k \in Tokens
  BY DEF Ref, Def, Tok, Tokens
<1>5. ASSUME PrintTokens PROVE Goal
  <2>1. PICK n \in 1 .. Len(todo) :
          /\ \A i \in 1 .. n : todo[i].k \in Plain
          /\ out' = out \o SubSeq(todo, 1, n)
    BY <1>5 DEF PrintTokens
  <2> DEFINE T == {todo[i] : i \in 1 .. n}
  <2>2. SubSeq(todo, 1, n) \in Seq(T)
    BY SubSeqProperties
  <2>3. \A x \in T : x.k \in Tokens
    BY <2>1 DEF Tokens
  <2> DEFINE t == SubSeq(todo, 1, n)
  <2> HIDE DEF T, t
  <2>4. t \in Seq(T)
    BY <2>2 DEF t
  <2>5. Printed(t)
    BY <2>3, <2>4, PrintedList, Zenon
  <2>6. QED
    BY <2>1, <2>5 DEF t
<1>6. ASSUME PrintTypeGuard PROVE Goal
  <2> DEFINE t == <<Op("JUMPIFNEQ"), Ref("END_IF", 0), TB1, TB2, NL>>
             T == {Op("JUMPIFNEQ"), Ref("END_IF", 0), TB1, TB2, NL}
  <2>1. t \in Seq(T)
    OBVIOUS
  <2>2. \A x \in T : x.k \in Tokens
    BY DEF Op, Ref, TB1, TB2, TF, NL, Tok, Tokens, Plain
  <2>3. out' = out \o t
    BY <1>6 DEF PrintTypeGuard
  <2> HIDE DEF t, T
  <2>4. Printed(t)
    BY <2>1, <2>2, PrintedList, Zenon
  <2>5. QED
    BY <2>3, <2>4
<1> HIDE DEF Goal
<1>7. ASSUME PrintIfTarget PROVE Goal
  BY <1>2, <1>3, <1>4, <1>7 DEF PrintIfTarget
<1>8. ASSUME PrintLoopTarget PROVE Goal
  BY <1>2, <1>3, <1>4, <1>8 DEF PrintLoopTarget
<1>9. ASSUME PrintResIfRef PROVE Goal
  BY <1>3, <1>4, <1>9 DEF PrintResIfRef
<1>10. ASSUME PrintDivLabel PROVE Goal
  BY <1>3, <1>4, <1>10 DEF PrintDivLabel
<1>11. ASSUME UNCHANGED out PROVE Goal
  BY <1>2, <1>11
<1>12. Goal
  BY <1>5, <1>6, <1>7, <1>8, <1>9, <1>10, <1>11
  DEF ExpressionStep, Assign, visit_number, visit_string, visit_id, visit_decl, visit_unary_op,
      visit_binary_op, visit_call, visit_dim, visit_return, visit_silent, visit_params
<1>13. QED
  BY <1>1, <1>12 DEF Goal

\* Tokens are printed and nothing else, and something as soon as a program is compiled.
Begun == Printed(out) /\ (runs > 0 => out # <<>>)

LEMMA BegunKept ==
    ASSUME LabelTypeOK, TypeInv, Begun, [Next]_vars
    PROVE  Begun'
<1>1. ASSUME NEW t, Printed(t), runs' = runs, out' = out \o t PROVE Begun'
  <2> DEFINE c == out \o t
  <2>1. Printed(out) /\ (runs > 0 => out # <<>>)
    BY DEF Begun
  <2>2. Printed(c) /\ Len(c) = Len(out) + Len(t) /\ Len(out) \in Nat /\ Len(t) \in Nat
    BY <1>1, <2>1, PrintedCat
  <2>3. out # <<>> => Len(out) # 0
    BY <2>1, EmptySeq DEF Printed
  <2> HIDE DEF c
  <2>4. out # <<>> => c # <<>>
    BY <2>2, <2>3
  <2>5. out' = c
    BY <1>1 DEF c
  <2>6. (Printed(out))'
    BY <2>2, <2>5 DEF Printed
  <2>7. QED
    BY <1>1, <2>1, <2>4, <2>5, <2>6 DEF Begun
<1>2. CASE UNCHANGED <<out, runs>>
  BY <1>2 DEF Begun, Printed
<1>3. CASE ifj17_gen
  <2>1. PICK q \in Programs : out' = <<Op(".IFJcode17"), NL>> \o JumpLine("Scope", 0)
    BY <1>3 DEF ifj17_gen, GenBegin
  <2> DEFINE s == <<Op(".IFJcode17"), NL>>
             t == JumpLine("Scope", 0)
             c == s \o t
  <2>2. Printed(s) /\ Len(s) = 2
    <3>1. s \in Seq({Op(".IFJcode17"), NL}) /\ Len(s) = 2
      OBVIOUS
    <3>2. \A x \in {Op(".IFJcode17"), NL} : x.k \in Tokens
      BY DEF Op, NL, Tok, Tokens, Plain
    <3> HIDE DEF s
    <3>3. QED
      BY <3>1, <3>2, PrintedList
  <2>3. Printed(t)
    BY PrintedLines
  <2> HIDE DEF s, t
  <2>4. Printed(c) /\ Len(c) # 0
    BY <2>2, <2>3, PrintedCat
  <2>5. out' = c
    BY <2>1 DEF s, t
  <2> HIDE DEF c
  <2>6. (Printed(out))' /\ out' # <<>>
    BY <2>4, <2>5 DEF Printed
  <2>7. QED
    BY <2>6 DEF Begun
<1>4. CASE ExpressionStep
  BY <1>1, <1>4, ExpressionPrints
<1>5. CASE StatementStep
  <2>1. /\ \A x, n : Printed(LabelLine(x, n)) /\ Printed(JumpLine(x, n))
        /\ Printed(BranchLabel) /\ \A h, n : Printed(NoMatch(h, n))
    BY PrintedLines DEF BranchLabel, NoMatch, Missed
  <2>2. runs' = runs
    BY <1>5 DEF StatementStep, visit_block, visit_if, IfElseIfCond, IfBlock, IfElseIfBlock, IfElseBlock,
         IfEnd, visit_while, WhileCond, visit_scope, ScopeEnd, visit_function, FunctionEnd, GenEnd
  <2>3. ASSUME NEW s, NEW t, Printed(s), Printed(t), out' = (out \o s) \o t PROVE Begun'
    <3>1. s \in Seq(Elements(s)) /\ t \in Seq(Elements(t)) /\ out \in Seq(Elements(out))
      BY <2>3 DEF Printed, LabelTypeOK
    <3> DEFINE S == Elements(s) \cup Elements(t) \cup Elements(out)
    <3>2. s \in Seq(S) /\ t \in Seq(S) /\ out \in Seq(S)
      BY <3>1
    <3> HIDE DEF S
    <3>3. out' = out \o (s \o t)
      BY <2>3, <3>2, ConcatAssociative
    <3>4. Printed(s \o t)
      BY <2>3, PrintedCat
    <3>5. QED
      BY <1>1, <2>2, <3>3, <3>4
  <2>4. CASE visit_block \/ visit_if \/ IfElseIfCond \/ WhileCond \/ FunctionEnd
    <3>1. out' = out
      BY <2>4 DEF visit_block, visit_if, IfElseIfCond, WhileCond, FunctionEnd
    <3>2. QED
      BY <1>2, <2>2, <3>1
  <2>5. CASE IfBlock
    <3>1. \E h, n : out' = (out \o NoMatch(h, n)) \o BranchLabel
      BY <2>5, Zenon DEF IfBlock
    <3>2. QED
      BY <2>1, <2>3, <3>1
  <2>6. CASE IfElseIfBlock
    <3>1. \E x, n : out' = (out \o JumpLine(x, n)) \o BranchLabel
      BY <2>6, Zenon DEF IfElseIfBlock
    <3>2. QED
      BY <2>1, <2>3, <3>1
  <2>7. CASE IfElseBlock \/ IfEnd
    <3>1. \E x, n, y, m : out' = (out \o JumpLine(x, n)) \o LabelLine(y, m)
      BY <2>7, Zenon DEF IfElseBlock, IfEnd
    <3>2. QED
      BY <2>1, <2>3, <3>1
  <2>8. CASE visit_while \/ ScopeEnd
    <3>1. \E x, n : out' = out \o LabelLine(x, n)
      BY <2>8, Zenon DEF visit_while, ScopeEnd
    <3>2. QED
      BY <1>1, <2>1, <2>2, <3>1
  <2>9. CASE visit_scope
    <3> DEFINE t == <<Op("CREATEFRAME"), NL, Op("DEFVAR"), TB1, NL, Op("DEFVAR"), TB2, NL>>
               T == {Op("CREATEFRAME"), NL, Op("DEFVAR"), TB1, TB2}
    <3>1. out' = (out \o LabelLine("Scope", 0)) \o t
      BY <2>9 DEF visit_scope
    <3>2. t \in Seq(T)
      OBVIOUS
    <3>3. \A x \in T : x.k \in Tokens
      BY DEF Op, NL, TB1, TB2, TF, Tok, Tokens, Plain
    <3> HIDE DEF t, T
    <3>4. QED
      BY <2>1, <2>3, <3>1, <3>2, <3>3, PrintedList
  <2>10. CASE visit_function
    <3> DEFINE x == Tok("word", NextStmt.name, 0)
               t == <<Op("LABEL"), x, NL, Op("CREATEFRAME"), NL>>
               T == {Op("LABEL"), x, NL, Op("CREATEFRAME")}
    <3>1. out' = out \o t
      BY <2>10 DEF visit_function
    <3>2. \A y \in T : y.k \in Tokens
      BY DEF Op, NL, Tok, Tokens, Plain
    <3> HIDE DEF x
    <3>3. t \in Seq(T)
      OBVIOUS
    <3> HIDE DEF t, T
    <3>4. QED
      BY <1>1, <2>2, <3>1, <3>2, <3>3, PrintedList
  <2>11. CASE GenEnd
    <3> DEFINE T == {NL}
    <3>1. out' = out \o <<NL>> /\ <<NL>> \in Seq(T)
      BY <2>11 DEF GenEnd
    <3>2. \A y \in T : y.k \in Tokens
      BY DEF NL, Tok, Tokens, Plain
    <3> HIDE DEF T
    <3>3. Printed(<<NL>>)
      BY <3>1, <3>2, PrintedList, Zenon
    <3>4. QED
      BY <1>1, <2>2, <3>1, <3>3
  <2>12. QED
    BY <1>5, <2>4, <2>5, <2>6, <2>7, <2>8, <2>9, <2>10, <2>11 DEF StatementStep
<1>6. CASE UNCHANGED vars
  BY <1>2, <1>6 DEF vars
<1>7. QED
  BY <1>3, <1>4, <1>5, <1>6 DEF Next

\* An activation of a statement's handler is replaced.
LEMMA StatementPlaced ==
    ASSUME TypeInv, NEW Out, NEW In, Tidy(Out, In), Placed(Out, In), StatementStep
    PROVE  Placed(Out, In)'
BY visit_blockPlaced, visit_ifPlaced, IfElseIfCondPlaced, IfBlockPlaced, IfElseIfBlockPlaced,
   IfElseBlockPlaced, IfEndPlaced, visit_whilePlaced, WhileCondPlaced, visit_scopePlaced,
   ScopeEndPlaced, visit_functionPlaced, FunctionEndPlaced, GenEndPlaced DEF StatementStep

LEMMA ExpressionPlaced ==
    ASSUME LabelTypeOK, TypeInv, NEW Out, NEW In, Placed(Out, In), ExpressionStep
    PROVE  Placed(Out, In)'
<1>1. PICK f, k : /\ Core(f)
                  /\ Standing(frames, k, Out, In)
                  /\ f.scope = IF k = 0 THEN 0 ELSE 1
  BY DEF Placed
<1>2. Core(f)'
  BY <1>1, ExpressionCore
<1>3. frames' = frames
  BY ExpressionOutput
<1>4. Standing(frames', k, Out, In)
  BY <1>1, <1>3
<1>5. QED
  BY <1>1, <1>2, <1>4, PlacedThere

LEMMA TidyInit ==
    ASSUME NEW Out, NEW In, Init
    PROVE  Placed(Out, In) /\ Begun
<1>1. frames = <<>> /\ todo = <<>> /\ out = <<>> /\ flag = [v \in FlagNames |-> 0] /\ runs = 0
  BY DEF Init
<1>2. Track(flag) = Zero /\ Zero \in Calm /\ Zero.scope = 0
  <2>1. Tracked \subseteq FlagNames /\ ContextFlags \subseteq Tracked /\ "scope" \in Tracked
    BY ContextTracked DEF Tracked
  <2>2. QED
    BY <1>1, <2>1 DEF Track, Zero, Calm, Flags
<1>3. Core(Zero)
  <2> DEFINE none == <<>>
  <2>1. \A a : Leads(none, a, a)
    BY LeadsNone
  <2>2. /\ Leads(out, From, At(Zero, none, FALSE))
        /\ Leads(todo, At(Track(flag), none, FALSE), Start(Zero))
    BY <1>1, <1>2, <2>1 DEF From, Start
  <2> HIDE DEF none
  <2>3. FALSE \in BOOLEAN
    OBVIOUS
  <2>4. QED
    BY <1>2, <2>2, <2>3 DEF Core
<1>4. Standing(frames, 0, Out, In)
  BY <1>1 DEF Standing
<1>5. Begun
  BY <1>1, PrintedLines DEF Begun
<1>6. QED
  BY <1>1, <1>2, <1>3, <1>4, <1>5 DEF Placed

LEMMA TidyNext ==
    ASSUME NEW Out, NEW In, Tidy(Out, In), IInv, TypeInv, Begun, Placed(Out, In), [Next]_vars
    PROVE  Begun' /\ Placed(Out, In)'
<1>1. LabelTypeOK
  BY DEF IInv
<1>2. Begun'
  BY <1>1, BegunKept
<1>3. Placed(Out, In)'
  <2>1. CASE UNCHANGED vars
    BY <2>1 DEF vars, Placed, Standing, Core, Track
  <2>2. QED
    BY <1>1, <2>1, ifj17_genPlaced, ExpressionPlaced, StatementPlaced DEF Next
<1>4. QED
  BY <1>2, <1>3

TidyInv(Out, In) == IInv /\ TypeInv /\ Begun /\ Placed(Out, In)

\* The generator stays in tidy code.
THEOREM StaysTidy ==
    ASSUME NEW Out, NEW In, Tidy(Out, In)
    PROVE  Spec => []TidyInv(Out, In)
<1>1. Init => TidyInv(Out, In)
  BY InitInv, InitTypes, TidyInit DEF TidyInv
<1>2. TidyInv(Out, In) /\ [Next]_vars => TidyInv(Out, In)'
  BY NextInv, TypesKept, TidyNext DEF TidyInv
<1>3. QED
  BY <1>1, <1>2, PTL DEF Spec

\* Whatever a tidy set of programs is made of: when a handler visits the next
\* statement, every flag by which handlers pass context to what they visit has
\* been taken back (`from_if', `not', `from_return' and the others).
THEOREM ContextTakenBack ==
    ASSUME NEW Out, NEW In, Tidy(Out, In)
    PROVE  Spec => []FlagsClean
<1>1. TidyInv(Out, In) => FlagsClean
  <2>1. SUFFICES ASSUME Placed(Out, In), Running("block"), NEW v \in ContextFlags PROVE flag[v] = 0
    BY DEF FlagsClean, TidyInv
  <2>2. PICK f \in Calm : \E k : /\ Track(flag) = f /\ Leads(out, From, From)
                                /\ Standing(frames, k, Out, In)
                                /\ f.scope = IF k = 0 THEN 0 ELSE 1
    BY <2>1, PlacedHere DEF Running
  <2>3. v \in Tracked /\ f[v] = 0
    BY CalmFacts
  <2>4. QED
    BY <2>2, <2>3, TrackIs
<1>2. QED
  BY <1>1, StaysTidy, PTL

-----------------------------------------------------------------------------
(* The lines of a finished program.                                        *)

Rest(st, i) == st[i].rest
Pops(st, i) == st[i].pops

\* The states the printed tokens lead through.
Trace(st) ==
    /\ Printed(out) /\ Len(out) \in Nat /\ Len(out) > 0
    /\ Rest(st, 1) = <<>> /\ Pops(st, 1) = FALSE /\ Rest(st, Len(out) + 1) = <<>>
    /\ \A i \in 1 .. Len(out) :
          Word(out[i], Rest(st, i), Pops(st, i), Rest(st, i + 1), Pops(st, i + 1))

LEMMA HasTrace ==
    ASSUME NEW Out, NEW In, TidyInv(Out, In), Finished
    PROVE  \E st : Trace(st)
<1>1. Leads(out, From, From)
  <2>1. todo = <<>> /\ Placed(Out, In)
    BY DEF Finished, Idle, TidyInv
  <2>2. QED
    BY <2>1, PlacedHere
<1>2. PICK st : /\ st[1] = From /\ st[Len(out) + 1] = From
                /\ \A i \in 1 .. Len(out) : Effect(out[i], st[i], st[i + 1])
  BY <1>1 DEF Leads
<1>3. Printed(out) /\ out # <<>>
  BY DEF TidyInv, Begun, Finished
<1>4. Len(out) \in Nat /\ Len(out) > 0 /\ DOMAIN out = 1 .. Len(out)
  <2> DEFINE S == Elements(out)
  <2>1. out \in Seq(S)
    BY <1>3 DEF Printed
  <2> HIDE DEF S
  <2>2. QED
    BY <1>3, <2>1, EmptySeq, LenProperties
<1>5. ASSUME NEW i \in 1 .. Len(out)
      PROVE  Word(out[i], Rest(st, i), Pops(st, i), Rest(st, i + 1), Pops(st, i + 1))
  <2>1. out[i].k \in Tokens /\ Effect(out[i], st[i], st[i + 1])
    BY <1>2, <1>3, <1>4 DEF Printed
  <2>2. \E f, r, p, r2, p2 : /\ st[i] = At(f, r, p) /\ st[i + 1] = At(f, r2, p2)
                             /\ Word(out[i], r, p, r2, p2)
    <3>1. out[i].k \notin {"add", "set", "typeguard", "iftarget", "looptarget", "resifref", "divref",
                           "divdef", "visit", "params"}
      BY <2>1 DEF Tokens, Plain
    <3>2. QED
      BY <2>1, <3>1, Zenon DEF Effect
  <2>3. QED
    BY <2>2 DEF At, Rest, Pops
<1>6. Rest(st, 1) = <<>> /\ Pops(st, 1) = FALSE /\ Rest(st, Len(out) + 1) = <<>>
  BY <1>2 DEF From, Start, At, Rest, Pops
<1>7. Trace(st)
  BY <1>3, <1>4, <1>5, <1>6 DEF Trace
<1>8. QED
  BY <1>7

\* What a line can lack: operands, then its end.
Kinded == {Var, Sym, Label}
Shapes == {<<>>, <<Nl>>} \cup {<<x, Nl>> : x \in Kinded} \cup {<<x, y, Nl>> : x, y \in Kinded}
          \cup {<<x, y, z, Nl>> : x, y, z \in Kinded}

LEMMA KindedFacts ==
    \A x \in Kinded : "nl" \notin x
BY DEF Kinded, Var, Sym, Label

LEMMA ShapesHave ==
    /\ <<Nl>> \in Shapes \ {<<>>} /\ \A x \in Kinded : <<x, Nl>> \in Shapes \ {<<>>}
    /\ \A x, y \in Kinded : <<x, y, Nl>> \in Shapes \ {<<>>}
    /\ \A x, y, z \in Kinded : <<x, y, z, Nl>> \in Shapes \ {<<>>}
BY DEF Shapes

LEMMA ShapesBy ==
    ASSUME NEW r \in Shapes, r # <<>>
    PROVE  /\ Tail(r) \in Shapes
           /\ Tail(r) = <<>> <=> r = <<Nl>>
           /\ "nl" \in Head(r) <=> r = <<Nl>>
           /\ r = <<Nl>> => Head(r) = Nl
<1>1. CASE r = <<Nl>>
  BY <1>1 DEF Shapes, Nl
<1>2. CASE \E x \in Kinded : r = <<x, Nl>>
  <2>1. PICK x \in Kinded : r = <<x, Nl>>
    BY <1>2
  <2>2. Tail(r) = <<Nl>> /\ Head(r) = x /\ <<Nl>> # <<>> /\ r # <<Nl>>
    BY <2>1
  <2>3. Tail(r) \in Shapes /\ Tail(r) # <<>> /\ "nl" \notin Head(r)
    BY <2>1, <2>2, ShapesHave, KindedFacts
  <2>4. QED
    BY <2>2, <2>3
<1>3. CASE \E x, y \in Kinded : r = <<x, y, Nl>>
  <2>1. PICK x \in Kinded, y \in Kinded : r = <<x, y, Nl>>
    BY <1>3
  <2>2. Tail(r) = <<y, Nl>> /\ Head(r) = x /\ <<y, Nl>> # <<>> /\ r # <<Nl>>
    BY <2>1
  <2>3. Tail(r) \in Shapes /\ Tail(r) # <<>> /\ "nl" \notin Head(r)
    BY <2>1, <2>2, ShapesHave, KindedFacts
  <2>4. QED
    BY <2>2, <2>3
<1>4. CASE \E x, y, z \in Kinded : r = <<x, y, z, Nl>>
  <2>1. PICK x \in Kinded, y \in Kinded, z \in Kinded : r = <<x, y, z, Nl>>
    BY <1>4
  <2>2. Tail(r) = <<y, z, Nl>> /\ Head(r) = x /\ <<y, z, Nl>> # <<>> /\ r # <<Nl>>
    BY <2>1
  <2>3. Tail(r) \in Shapes /\ Tail(r) # <<>> /\ "nl" \notin Head(r)
    BY <2>1, <2>2, ShapesHave, KindedFacts
  <2>4. QED
    BY <2>2, <2>3
<1>5. QED
  BY <1>1, <1>2, <1>3, <1>4 DEF Shapes

\* Each instruction begins with a shape that is not empty.
LEMMA LacksShape ==
    ASSUME NEW s \in Instructions
    PROVE  Operands(s) \o <<Nl>> \in Shapes /\ Operands(s) \o <<Nl>> # <<>>
<1>1. Lacks(s) \in Shapes \ {<<>>}
  <2>1. Var \in Kinded /\ Sym \in Kinded /\ Label \in Kinded
    BY DEF Kinded
  <2> DEFINE S == Shapes \ {<<>>}
  <2>2. /\ <<Nl>> \in S /\ <<Var, Nl>> \in S /\ <<Sym, Nl>> \in S /\ <<Label, Nl>> \in S
        /\ <<Var, Sym, Nl>> \in S /\ <<Label, Sym, Sym, Nl>> \in S /\ <<Var, Sym, Sym, Nl>> \in S
    BY <2>1, ShapesHave, Zenon
  <2> HIDE DEF S
  <2>3. /\ \A t \in {".IFJcode17", "CREATEFRAME", "PUSHFRAME", "POPFRAME", "RETURN"} : Lacks(t) \in S
        /\ \A t \in {"DEFVAR", "POPS"} : Lacks(t) \in S
    BY <2>2, LacksOf, Zenon
  <2>4. /\ Lacks("PUSHS") \in S
        /\ \A t \in {"LABEL", "JUMP", "CALL"} : Lacks(t) \in S
        /\ \A t \in {"MOVE", "TYPE", "NOT", "INT2FLOAT"} : Lacks(t) \in S
    BY <2>2, LacksOf, Zenon
  <2>5. /\ \A t \in {"JUMPIFEQ", "JUMPIFNEQ"} : Lacks(t) \in S
        /\ \A t \in {"ADD", "SUB", "MUL", "DIV", "AND", "OR", "GT"} : Lacks(t) \in S
    BY <2>2, LacksOf, Zenon
  <2>6. QED
    BY <2>3, <2>4, <2>5, Zenon DEF Instructions, S
<1>2. QED
  BY <1>1 DEF Lacks

\* What the current line lacks is always a shape,
LEMMA TraceShapes ==
    ASSUME NEW st, Trace(st)
    PROVE  \A i \in 1 .. Len(out) + 1 : Rest(st, i) \in Shapes
<1> DEFINE N == Len(out)
           S == {i \in Nat : Rest(st, i + 1) \in Shapes}
<1>1. N \in Nat /\ 0 \in S
  BY DEF Trace, Shapes
<1>2. ASSUME NEW i \in 1 .. N, i - 1 \in S PROVE i \in S
  <2>1. Rest(st, i) \in Shapes /\ i \in Nat
    BY <1>2
  <2>2. Word(out[i], Rest(st, i), Pops(st, i), Rest(st, i + 1), Pops(st, i + 1))
    BY DEF Trace
  <2>3. CASE Rest(st, i + 1) = <<>>
    BY <2>1, <2>3 DEF Shapes
  <2>4. CASE out[i].s \in Instructions /\ Rest(st, i + 1) = Operands(out[i].s) \o <<Nl>>
    BY <2>1, <2>4, LacksShape
  <2>5. CASE Rest(st, i) # <<>> /\ Rest(st, i + 1) = Tail(Rest(st, i))
    BY <2>1, <2>5, ShapesBy
  <2>6. QED
    BY <2>2, <2>3, <2>4, <2>5, Zenon DEF Word
<1>3. 0 .. N \subseteq S
  <2> HIDE DEF S
  <2>1. QED
    BY <1>1, <1>2, UpTo
<1>4. QED
  <2>1. TAKE i \in 1 .. N + 1
  <2>2. i - 1 \in 0 .. N /\ (i - 1) + 1 = i
    BY <1>1
  <2>3. QED
    BY <1>3, <2>2

\* and it is nothing exactly where a line begins.
LEMMA TraceStarts ==
    ASSUME NEW st, Trace(st), NEW i \in 1 .. Len(out)
    PROVE  Rest(st, i + 1) = <<>> <=> out[i] = NL
<1>1. Word(out[i], Rest(st, i), Pops(st, i), Rest(st, i + 1), Pops(st, i + 1))
  BY DEF Trace
<1>2. Rest(st, i) \in Shapes
  <2>1. i \in 1 .. Len(out) + 1
    BY DEF Trace
  <2>2. QED
    BY <2>1, TraceShapes
<1>3. NL.k = "nl" /\ \A s : NL # Op(s)
  BY DEF NL, Op, Tok
<1>4. CASE out[i] = NL /\ Rest(st, i + 1) = <<>>
  BY <1>4
<1>5. CASE /\ out[i] = Op(out[i].s) /\ out[i].s \in Instructions
           /\ Rest(st, i + 1) = Operands(out[i].s) \o <<Nl>>
  BY <1>3, <1>5, LacksShape
<1>6. CASE /\ Rest(st, i) # <<>> /\ out[i].k \in Head(Rest(st, i)) /\ (out[i].k = "nl" => out[i] = NL)
           /\ Rest(st, i + 1) = Tail(Rest(st, i))
  <2> DEFINE r == Rest(st, i)
  <2>1. /\ Tail(r) = <<>> <=> r = <<Nl>>
        /\ "nl" \in Head(r) <=> r = <<Nl>>
        /\ r = <<Nl>> => Head(r) = Nl
    BY <1>2, <1>6, ShapesBy
  <2>2. Nl = {"nl"}
    BY DEF Nl
  <2> HIDE DEF r
  <2>3. out[i].k \in Head(r) /\ Rest(st, i + 1) = Tail(r)
    BY <1>6 DEF r
  <2>4. QED
    BY <1>3, <1>6, <2>1, <2>2, <2>3
<1>7. QED
  BY <1>1, <1>4, <1>5, <1>6, Zenon DEF Word

\* The next operand.
LEMMA TraceOperand ==
    ASSUME NEW st, Trace(st), NEW i \in 1 .. Len(out) + 1, Rest(st, i) # <<>>
    PROVE  /\ i <= Len(out)
           /\ out[i].k \in Head(Rest(st, i))
           /\ Rest(st, i + 1) = Tail(Rest(st, i))
           /\ Pops(st, i + 1) => Pops(st, i)
<1>1. i <= Len(out)
  BY DEF Trace
<1>2. Word(out[i], Rest(st, i), Pops(st, i), Rest(st, i + 1), Pops(st, i + 1))
  BY <1>1 DEF Trace
<1>3. QED
  BY <1>1, <1>2, Zenon DEF Word

\* The first token of a line.
LEMMA TraceFirst ==
    ASSUME NEW st, Trace(st), NEW i \in LineStarts
    PROVE  /\ i \in 1 .. Len(out)
           /\ Rest(st, i) = <<>>
           /\ \/ out[i] = NL
              \/ /\ out[i] = Op(out[i].s) /\ out[i].s \in Instructions
                 /\ Rest(st, i + 1) = Operands(out[i].s) \o <<Nl>>
                 /\ out[i].s = "POPS" => Pops(st, i)
<1>1. i \in 1 .. Len(out) /\ (i = 1 \/ out[i - 1] = NL)
  <2> DEFINE S == Elements(out)
  <2>1. out \in Seq(S)
    BY DEF Trace, Printed
  <2> HIDE DEF S
  <2>2. DOMAIN out = 1 .. Len(out)
    BY <2>1, LenProperties
  <2>3. QED
    BY <2>2 DEF LineStarts
<1>2. Rest(st, i) = <<>>
  <2>1. CASE i = 1
    BY <2>1 DEF Trace
  <2>2. CASE i # 1
    <3>1. i - 1 \in 1 .. Len(out) /\ (i - 1) + 1 = i
      BY <1>1, <2>2
    <3>2. QED
      BY <1>1, <2>2, <3>1, TraceStarts
  <2>3. QED
    BY <2>1, <2>2
<1>3. Word(out[i], Rest(st, i), Pops(st, i), Rest(st, i + 1), Pops(st, i + 1))
  BY <1>1 DEF Trace
<1>4. QED
  BY <1>1, <1>2, <1>3, Zenon DEF Word

\* A line ends at its only line end.
LEMMA EndsAt ==
    ASSUME NEW i \in Nat, NEW j \in i .. Len(out), Len(out) \in Nat, out[j] = NL,
           \A m \in i .. j - 1 : out[m] # NL
    PROVE  LineEnd(i) = j
<1> DEFINE P(n) == n \in i .. Len(out) /\ out[n] = NL /\ \A m \in i .. n - 1 : out[m] # NL
<1>1. P(j)
  OBVIOUS
<1>2. ASSUME NEW n, P(n) PROVE n = j
  <2>1. CASE n < j
    <3>1. n \in i .. j - 1
      BY <1>2, <2>1
    <3>2. QED
      BY <1>2, <3>1
  <2>2. CASE n > j
    <3>1. j \in i .. n - 1
      BY <1>2, <2>2
    <3>2. QED
      BY <1>2, <3>1
  <2>3. QED
    BY <1>2, <2>1, <2>2
<1>3. LineEnd(i) = CHOOSE n \in i .. Len(out) : out[n] = NL /\ \A m \in i .. n - 1 : out[m] # NL
  BY DEF LineEnd
<1>4. QED
  BY <1>1, <1>2, <1>3

\* The signatures of instructions.
LEMMA Signatures ==
    ASSUME NEW s \in Instructions
    PROVE  \/ Operands(s) = <<>> /\ Lacks(s) = <<Nl>>
           \/ \E x \in Kinded : Operands(s) = <<x>> /\ Lacks(s) = <<x, Nl>>
           \/ \E x, y \in Kinded : Operands(s) = <<x, y>> /\ Lacks(s) = <<x, y, Nl>>
           \/ \E x, y, z \in Kinded : Operands(s) = <<x, y, z>> /\ Lacks(s) = <<x, y, z, Nl>>
<1>1. Var \in Kinded /\ Sym \in Kinded /\ Label \in Kinded
  BY DEF Kinded
<1>2. CASE s \in {".IFJcode17", "CREATEFRAME", "PUSHFRAME", "POPFRAME", "RETURN"}
  <2>1. Operands(s) = <<>>
    BY <1>2 DEF Operands
  <2>2. QED
    BY <1>2, <2>1, LacksOf
<1>3. CASE s \in {"DEFVAR", "POPS"}
  <2>1. Operands(s) = <<Var>>
    BY <1>3 DEF Operands
  <2>2. QED
    BY <1>1, <1>3, <2>1, LacksOf, Zenon
<1>4. CASE s = "PUSHS"
  <2>1. Operands(s) = <<Sym>>
    BY <1>4 DEF Operands
  <2>2. QED
    BY <1>1, <1>4, <2>1, LacksOf, Zenon
<1>5. CASE s \in {"LABEL", "JUMP", "CALL"}
  <2>1. Operands(s) = <<Label>>
    BY <1>5 DEF Operands
  <2>2. QED
    BY <1>1, <1>5, <2>1, LacksOf, Zenon
<1>6. CASE s \in {"MOVE", "TYPE", "NOT", "INT2FLOAT"}
  <2>1. Operands(s) = <<Var, Sym>>
    BY <1>6 DEF Operands
  <2>2. QED
    BY <1>1, <1>6, <2>1, LacksOf, Zenon
<1>7. CASE s \in {"JUMPIFEQ", "JUMPIFNEQ"}
  <2>1. Operands(s) = <<Label, Sym, Sym>>
    BY <1>7 DEF Operands
  <2>2. QED
    BY <1>1, <1>7, <2>1, LacksOf, Zenon
<1>8. CASE s \in {"ADD", "SUB", "MUL", "DIV", "AND", "OR", "GT"}
  <2>1. Operands(s) = <<Var, Sym, Sym>>
    BY <1>8 DEF Operands
  <2>2. QED
    BY <1>1, <1>8, <2>1, LacksOf, Zenon
<1>9. QED
  BY <1>2, <1>3, <1>4, <1>5, <1>6, <1>7, <1>8, Zenon DEF Instructions

\* An operand of a kind is no line end, and what is lacked behind it comes next.
LEMMA WalkOn ==
    ASSUME NEW st, Trace(st), NEW i \in 1 .. Len(out) + 1, NEW r, Rest(st, i) = r, r # <<>>
    PROVE  /\ i \in 1 .. Len(out) /\ i + 1 \in 1 .. Len(out) + 1
           /\ out[i].k \in Head(r)
           /\ Rest(st, i + 1) = Tail(r)
           /\ Head(r) \in Kinded => out[i] # NL
           /\ Tail(r) = <<>> => out[i] = NL
<1>1. Len(out) \in Nat
  BY DEF Trace
<1>2. i <= Len(out) /\ out[i].k \in Head(r) /\ Rest(st, i + 1) = Tail(r)
  BY TraceOperand
<1>3. NL.k = "nl"
  BY DEF NL, Tok
<1>4. i \in 1 .. Len(out)
  BY <1>1, <1>2
<1>5. Rest(st, i + 1) = <<>> <=> out[i] = NL
  BY <1>4, TraceStarts
<1>6. QED
  BY <1>1, <1>2, <1>3, <1>4, <1>5, KindedFacts, SMTT(30)

\* The same for each of the shapes.
LEMMA Walk ==
    ASSUME NEW st, Trace(st), NEW i \in 1 .. Len(out) + 1
    PROVE  /\ Rest(st, i) = <<Nl>> => i \in 1 .. Len(out) /\ out[i] = NL
           /\ \A x \in Kinded : Rest(st, i) = <<x, Nl>> =>
                /\ i \in 1 .. Len(out) /\ i + 1 \in 1 .. Len(out) + 1
                /\ out[i].k \in x /\ out[i] # NL /\ Rest(st, i + 1) = <<Nl>>
           /\ \A x, y \in Kinded : Rest(st, i) = <<x, y, Nl>> =>
                /\ i \in 1 .. Len(out) /\ i + 1 \in 1 .. Len(out) + 1
                /\ out[i].k \in x /\ out[i] # NL /\ Rest(st, i + 1) = <<y, Nl>>
           /\ \A x, y, z \in Kinded : Rest(st, i) = <<x, y, z, Nl>> =>
                /\ i \in 1 .. Len(out) /\ i + 1 \in 1 .. Len(out) + 1
                /\ out[i].k \in x /\ out[i] # NL /\ Rest(st, i + 1) = <<y, z, Nl>>
<1>1. ASSUME NEW r, Rest(st, i) = r, r # <<>>
      PROVE  /\ i \in 1 .. Len(out) /\ i + 1 \in 1 .. Len(out) + 1
             /\ out[i].k \in Head(r)
             /\ Rest(st, i + 1) = Tail(r)
             /\ Head(r) \in Kinded => out[i] # NL
             /\ Tail(r) = <<>> => out[i] = NL
  BY <1>1, WalkOn
<1>2. ASSUME Rest(st, i) = <<Nl>> PROVE i \in 1 .. Len(out) /\ out[i] = NL
  <2> DEFINE r == <<Nl>>
  <2>1. r # <<>> /\ Tail(r) = <<>>
    OBVIOUS
  <2>2. Rest(st, i) = r
    BY <1>2
  <2> HIDE DEF r
  <2>3. QED
    BY <1>1, <2>1, <2>2
<1>3. ASSUME NEW x \in Kinded, NEW t, NEW r, Rest(st, i) = r, r # <<>>, Head(r) = x, Tail(r) = t
      PROVE  /\ i \in 1 .. Len(out) /\ i + 1 \in 1 .. Len(out) + 1
             /\ out[i].k \in x /\ out[i] # NL /\ Rest(st, i + 1) = t
  <2>1. /\ i \in 1 .. Len(out) /\ i + 1 \in 1 .. Len(out) + 1
        /\ out[i].k \in Head(r)
        /\ Rest(st, i + 1) = Tail(r)
        /\ Head(r) \in Kinded => out[i] # NL
    BY <1>3, WalkOn
  <2>2. QED
    BY <1>3, <2>1
<1>4. ASSUME NEW x \in Kinded, Rest(st, i) = <<x, Nl>>
      PROVE  /\ i \in 1 .. Len(out) /\ i + 1 \in 1 .. Len(out) + 1
             /\ out[i].k \in x /\ out[i] # NL /\ Rest(st, i + 1) = <<Nl>>
  <2> DEFINE r == <<x, Nl>>
             t == <<Nl>>
  <2>1. r # <<>> /\ Head(r) = x /\ Tail(r) = t
    OBVIOUS
  <2>2. Rest(st, i) = r
    BY <1>4
  <2> HIDE DEF r, t
  <2>3. /\ i \in 1 .. Len(out) /\ i + 1 \in 1 .. Len(out) + 1
        /\ out[i].k \in x /\ out[i] # NL /\ Rest(st, i + 1) = t
    BY <1>3, <2>1, <2>2
  <2>4. QED
    BY <2>3 DEF t
<1>5. ASSUME NEW x \in Kinded, NEW y \in Kinded, Rest(st, i) = <<x, y, Nl>>
      PROVE  /\ i \in 1 .. Len(out) /\ i + 1 \in 1 .. Len(out) + 1
             /\ out[i].k \in x /\ out[i] # NL /\ Rest(st, i + 1) = <<y, Nl>>
  <2> DEFINE r == <<x, y, Nl>>
             t == <<y, Nl>>
  <2>1. r # <<>> /\ Head(r) = x /\ Tail(r) = t
    OBVIOUS
  <2>2. Rest(st, i) = r
    BY <1>5
  <2> HIDE DEF r, t
  <2>3. /\ i \in 1 .. Len(out) /\ i + 1 \in 1 .. Len(out) + 1
        /\ out[i].k \in x /\ out[i] # NL /\ Rest(st, i + 1) = t
    BY <1>3, <2>1, <2>2
  <2>4. QED
    BY <2>3 DEF t
<1>6. ASSUME NEW x \in Kinded, NEW y \in Kinded, NEW z \in Kinded, Rest(st, i) = <<x, y, z, Nl>>
      PROVE  /\ i \in 1 .. Len(out) /\ i + 1 \in 1 .. Len(out) + 1
             /\ out[i].k \in x /\ out[i] # NL /\ Rest(st, i + 1) = <<y, z, Nl>>
  <2> DEFINE r == <<x, y, z, Nl>>
             t == <<y, z, Nl>>
  <2>1. r # <<>> /\ Head(r) = x /\ Tail(r) = t
    OBVIOUS
  <2>2. Rest(st, i) = r
    BY <1>6
  <2> HIDE DEF r, t
  <2>3. /\ i \in 1 .. Len(out) /\ i + 1 \in 1 .. Len(out) + 1
        /\ out[i].k \in x /\ out[i] # NL /\ Rest(st, i + 1) = t
    BY <1>3, <2>1, <2>2
  <2>4. QED
    BY <2>3 DEF t
<1>7. QED
  BY <1>2, <1>4, <1>5, <1>6

\* Every line is empty or an instruction with its operands.
LEMMA LineForm ==
    ASSUME NEW st, Trace(st), NEW i \in LineStarts, out[i] # NL
    PROVE  \E n \in 0 .. 3 :
             /\ LineEnd(i) = i + n + 1 /\ LineEnd(i) \in 1 .. Len(out)
             /\ out[LineEnd(i)] = NL
             /\ out[i] = Op(out[i].s)
             /\ Len(Operands(out[i].s)) = n /\ DOMAIN Operands(out[i].s) = 1 .. n
             /\ \A m \in 1 .. n : out[i + m].k \in Operands(out[i].s)[m]
<1> DEFINE s == out[i].s
           N == Len(out)
<1>1. /\ N \in Nat /\ i \in 1 .. N
      /\ out[i] = Op(s) /\ s \in Instructions /\ Rest(st, i + 1) = Lacks(s)
  <2>1. N \in Nat
    BY DEF Trace
  <2>2. QED
    BY <2>1, TraceFirst DEF Lacks
<1> DEFINE Goal(n) ==
             /\ LineEnd(i) = i + n + 1 /\ LineEnd(i) \in 1 .. N
             /\ out[LineEnd(i)] = NL
             /\ Len(Operands(s)) = n /\ DOMAIN Operands(s) = 1 .. n
             /\ \A m \in 1 .. n : out[i + m].k \in Operands(s)[m]
<1> HIDE DEF s
<1>2. i + 1 \in 1 .. N + 1
  BY <1>1
<1>3. ASSUME NEW n \in 0 .. 3, i + n + 1 \in 1 .. N, out[i + n + 1] = NL,
             \A m \in 1 .. n : out[i + m] # NL
      PROVE  LineEnd(i) = i + n + 1 /\ LineEnd(i) \in 1 .. N /\ out[LineEnd(i)] = NL
  <2> DEFINE j == i + n + 1
  <2>1. i \in Nat /\ j \in i .. Len(out) /\ Len(out) \in Nat /\ out[j] = NL
    BY <1>1, <1>3
  <2>2. ASSUME NEW m \in i .. j - 1 PROVE out[m] # NL
    <3>1. CASE m = i
      BY <3>1
    <3>2. CASE m # i
      <4>1. m - i \in 1 .. n /\ i + (m - i) = m
        BY <1>1, <3>2
      <4>2. QED
        BY <1>3, <4>1
    <3>3. QED
      BY <3>1, <3>2
  <2>3. LineEnd(i) = j
    <3> HIDE DEF j
    <3>1. QED
      BY <2>1, <2>2, EndsAt
  <2>4. QED
    BY <1>3, <2>3
<1>4. ASSUME Operands(s) = <<>>, Lacks(s) = <<Nl>>
      PROVE  Goal(0)
  <2>1. Rest(st, i + 1) = <<Nl>>
    BY <1>1, <1>4
  <2>2. i + 1 \in 1 .. N /\ out[i + 1] = NL
    BY <1>2, <2>1, Walk
  <2>3. LineEnd(i) = i + 0 + 1 /\ LineEnd(i) \in 1 .. N /\ out[LineEnd(i)] = NL
    <3>1. i + 0 + 1 = i + 1
      BY <1>1
    <3>2. QED
      BY <1>3, <2>2, <3>1
  <2>4. Len(<<>>) = 0 /\ DOMAIN <<>> = 1 .. 0
    OBVIOUS
  <2>5. QED
    BY <1>4, <2>3, <2>4
<1>5. ASSUME NEW x \in Kinded, Operands(s) = <<x>>, Lacks(s) = <<x, Nl>>
      PROVE  Goal(1)
  <2>1. Rest(st, i + 1) = <<x, Nl>>
    BY <1>1, <1>5
  <2>2. /\ i + 1 \in 1 .. N /\ (i + 1) + 1 \in 1 .. N + 1
        /\ out[i + 1].k \in x /\ out[i + 1] # NL /\ Rest(st, (i + 1) + 1) = <<Nl>>
    BY <1>2, <2>1, Walk
  <2>3. (i + 1) + 1 \in 1 .. N /\ out[(i + 1) + 1] = NL
    BY <2>2, Walk
  <2>4. \A m \in 1 .. 1 : m = 1
    OBVIOUS
  <2>5. LineEnd(i) = i + 1 + 1 /\ LineEnd(i) \in 1 .. N /\ out[LineEnd(i)] = NL
    BY <1>3, <2>2, <2>3, <2>4
  <2>6. Len(<<x>>) = 1 /\ DOMAIN <<x>> = 1 .. 1 /\ <<x>>[1] = x
    OBVIOUS
  <2>7. QED
    BY <1>5, <2>2, <2>4, <2>5, <2>6
<1>6. ASSUME NEW x \in Kinded, NEW y \in Kinded, Operands(s) = <<x, y>>, Lacks(s) = <<x, y, Nl>>
      PROVE  Goal(2)
  <2>1. Rest(st, i + 1) = <<x, y, Nl>>
    BY <1>1, <1>6
  <2>2. /\ i + 1 \in 1 .. N /\ (i + 1) + 1 \in 1 .. N + 1
        /\ out[i + 1].k \in x /\ out[i + 1] # NL /\ Rest(st, (i + 1) + 1) = <<y, Nl>>
    BY <1>2, <2>1, Walk
  <2>3. (i + 1) + 1 = i + 2 /\ (i + 2) + 1 = i + 3
    BY <1>1
  <2>4. /\ i + 2 \in 1 .. N /\ i + 3 \in 1 .. N + 1
        /\ out[i + 2].k \in y /\ out[i + 2] # NL /\ Rest(st, i + 3) = <<Nl>>
    BY <2>2, <2>3, Walk
  <2>5. i + 3 \in 1 .. N /\ out[i + 3] = NL
    BY <2>4, Walk
  <2>6. \A m \in 1 .. 2 : m = 1 \/ m = 2
    OBVIOUS
  <2>7. i + 2 + 1 = i + 3
    BY <1>1
  <2>8. \A m \in 1 .. 2 : out[i + m] # NL
    BY <2>2, <2>4, <2>6
  <2>9. LineEnd(i) = i + 2 + 1 /\ LineEnd(i) \in 1 .. N /\ out[LineEnd(i)] = NL
    BY <1>3, <2>5, <2>7, <2>8
  <2>10. Len(<<x, y>>) = 2 /\ DOMAIN <<x, y>> = 1 .. 2 /\ <<x, y>>[1] = x /\ <<x, y>>[2] = y
    OBVIOUS
  <2>11. \A m \in 1 .. 2 : out[i + m].k \in <<x, y>>[m]
    BY <2>2, <2>4, <2>6, <2>10
  <2>12. QED
    BY <1>6, <2>9, <2>10, <2>11
<1>7. ASSUME NEW x \in Kinded, NEW y \in Kinded, NEW z \in Kinded,
             Operands(s) = <<x, y, z>>, Lacks(s) = <<x, y, z, Nl>>
      PROVE  Goal(3)
  <2>1. Rest(st, i + 1) = <<x, y, z, Nl>>
    BY <1>1, <1>7
  <2>2. /\ i + 1 \in 1 .. N /\ (i + 1) + 1 \in 1 .. N + 1
        /\ out[i + 1].k \in x /\ out[i + 1] # NL /\ Rest(st, (i + 1) + 1) = <<y, z, Nl>>
    BY <1>2, <2>1, Walk
  <2>3. (i + 1) + 1 = i + 2 /\ (i + 2) + 1 = i + 3 /\ (i + 3) + 1 = i + 4
    BY <1>1
  <2>4. /\ i + 2 \in 1 .. N /\ i + 3 \in 1 .. N + 1
        /\ out[i + 2].k \in y /\ out[i + 2] # NL /\ Rest(st, i + 3) = <<z, Nl>>
    BY <2>2, <2>3, Walk
  <2>5. /\ i + 3 \in 1 .. N /\ i + 4 \in 1 .. N + 1
        /\ out[i + 3].k \in z /\ out[i + 3] # NL /\ Rest(st, i + 4) = <<Nl>>
    BY <2>3, <2>4, Walk
  <2>6. i + 4 \in 1 .. N /\ out[i + 4] = NL
    BY <2>5, Walk
  <2>7. \A m \in 1 .. 3 : m = 1 \/ m = 2 \/ m = 3
    OBVIOUS
  <2>8. i + 3 + 1 = i + 4
    BY <1>1
  <2>9. \A m \in 1 .. 3 : out[i + m] # NL
    BY <2>2, <2>4, <2>5, <2>7
  <2>10. LineEnd(i) = i + 3 + 1 /\ LineEnd(i) \in 1 .. N /\ out[LineEnd(i)] = NL
    BY <1>3, <2>6, <2>8, <2>9
  <2>11. /\ Len(<<x, y, z>>) = 3 /\ DOMAIN <<x, y, z>> = 1 .. 3
         /\ <<x, y, z>>[1] = x /\ <<x, y, z>>[2] = y /\ <<x, y, z>>[3] = z
    OBVIOUS
  <2>12. \A m \in 1 .. 3 : out[i + m].k \in <<x, y, z>>[m]
    BY <2>2, <2>4, <2>5, <2>7, <2>11
  <2>13. QED
    BY <1>7, <2>10, <2>11, <2>12
<1>8. \E n \in 0 .. 3 : Goal(n)
  <2> HIDE DEF Goal
  <2>0. 0 \in 0 .. 3 /\ 1 \in 0 .. 3 /\ 2 \in 0 .. 3 /\ 3 \in 0 .. 3
    OBVIOUS
  <2>1. CASE Operands(s) = <<>> /\ Lacks(s) = <<Nl>>
    BY <1>4, <2>0, <2>1
  <2>2. CASE \E x \in Kinded : Operands(s) = <<x>> /\ Lacks(s) = <<x, Nl>>
    BY <1>5, <2>0, <2>2
  <2>3. CASE \E x, y \in Kinded : Operands(s) = <<x, y>> /\ Lacks(s) = <<x, y, Nl>>
    BY <1>6, <2>0, <2>3
  <2>4. CASE \E x, y, z \in Kinded : Operands(s) = <<x, y, z>> /\ Lacks(s) = <<x, y, z, Nl>>
    BY <1>7, <2>0, <2>4
  <2>5. QED
    BY <1>1, <2>1, <2>2, <2>3, <2>4, Signatures
<1>9. QED
  BY <1>1, <1>8 DEF s

\* For each tidy set of programs: every line of a finished program is empty or
\* one instruction of IFJcode17 with operands of the right number and kind.
THEOREM LinesFitTogether ==
    ASSUME NEW Out, NEW In, Tidy(Out, In)
    PROVE  Spec => []CodeWellFormed
<1>1. TidyInv(Out, In) => CodeWellFormed
  <2>1. SUFFICES ASSUME TidyInv(Out, In), Finished
                 PROVE  /\ out[Len(out)] = NL
                        /\ \A i \in LineStarts :
                             LET j == LineEnd(i)
                             IN  i = j \/ /\ out[i].k = "op"
                                          /\ LET sig == Operands(out[i].s)
                                             IN  /\ j - i - 1 = Len(sig)
                                                 /\ \A m \in DOMAIN sig : out[i + m].k \in sig[m]
    BY DEF CodeWellFormed
  <2>2. PICK st : Trace(st)
    BY <2>1, HasTrace
  <2>3. Len(out) \in Nat /\ Len(out) > 0
    BY <2>2 DEF Trace
  <2>4. out[Len(out)] = NL
    <3>1. Len(out) \in 1 .. Len(out) /\ Rest(st, Len(out) + 1) = <<>>
      BY <2>2, <2>3 DEF Trace
    <3>2. QED
      BY <2>2, <3>1, TraceStarts
  <2>5. ASSUME NEW i \in LineStarts
        PROVE  LET j == LineEnd(i)
               IN  i = j \/ /\ out[i].k = "op"
                            /\ LET sig == Operands(out[i].s)
                               IN  /\ j - i - 1 = Len(sig)
                                   /\ \A m \in DOMAIN sig : out[i + m].k \in sig[m]
    <3>1. i \in 1 .. Len(out)
      BY <2>2, TraceFirst
    <3>2. CASE out[i] = NL
      <4>1. i \in Nat /\ i \in i .. Len(out) /\ \A m \in i .. i - 1 : out[m] # NL
        BY <2>3, <3>1
      <4>2. LineEnd(i) = i
        BY <2>3, <3>2, <4>1, EndsAt
      <4>3. QED
        BY <4>2
    <3>3. CASE out[i] # NL
      <4>1. PICK n \in 0 .. 3 :
              /\ LineEnd(i) = i + n + 1
              /\ out[i] = Op(out[i].s)
              /\ Len(Operands(out[i].s)) = n /\ DOMAIN Operands(out[i].s) = 1 .. n
              /\ \A m \in 1 .. n : out[i + m].k \in Operands(out[i].s)[m]
        BY <2>2, <3>3, LineForm
      <4>2. out[i].k = "op"
        BY <4>1 DEF Op, Tok
      <4>3. LineEnd(i) - i - 1 = n
        BY <3>1, <4>1
      <4>4. QED
        BY <4>1, <4>2, <4>3, Zenon
    <3>4. QED
      BY <3>2, <3>3
  <2>6. QED
    BY <2>4, <2>5
<1>2. QED
  BY <1>1, StaysTidy, PTL

\* Where a POPS may follow: the line before is a DEFVAR or a CALL.
LEMMA PopsAfter ==
    ASSUME NEW st, Trace(st)
    PROVE  \A i \in 1 .. Len(out) + 1 : Pops(st, i) =>
             \E j \in LineStarts : /\ j < i /\ out[j] \in {Op("DEFVAR"), Op("CALL")}
                                   /\ \A m \in j .. i - 2 : out[m] # NL
<1> DEFINE N == Len(out)
           After(i) == \E j \in LineStarts : /\ j < i /\ out[j] \in {Op("DEFVAR"), Op("CALL")}
                                             /\ \A m \in j .. i - 2 : out[m] # NL
           S == {i \in Nat : Pops(st, i + 1) => After(i + 1)}
<1>1. N \in Nat /\ DOMAIN out = 1 .. N
  <2> DEFINE T == Elements(out)
  <2>1. out \in Seq(T)
    BY DEF Trace, Printed
  <2> HIDE DEF T
  <2>2. QED
    BY <2>1, LenProperties
<1>2. 0 \in S
  BY DEF Trace
<1>3. ASSUME NEW i \in 1 .. N, i - 1 \in S PROVE i \in S
  <2>1. SUFFICES ASSUME Pops(st, i + 1) PROVE After(i + 1)
    OBVIOUS
  <2>2. Word(out[i], Rest(st, i), Pops(st, i), Rest(st, i + 1), Pops(st, i + 1))
    BY DEF Trace
  <2>3. (i + 1) - 2 = i - 1 /\ (i - 1) + 1 = i /\ i \in Nat /\ i < i + 1
    OBVIOUS
  <2>4. Rest(st, i) = <<>> => i \in LineStarts
    <3>1. CASE i = 1
      BY <1>1, <3>1 DEF LineStarts
    <3>2. CASE i # 1
      <4>1. i - 1 \in 1 .. N
        BY <3>2
      <4>2. Rest(st, i) = <<>> => out[i - 1] = NL
        BY <2>3, <4>1, TraceStarts
      <4>3. QED
        BY <1>1, <4>2 DEF LineStarts
    <3>3. QED
      BY <3>1, <3>2
  <2>5. CASE Rest(st, i) = <<>>
    <3>1. out[i] \in {Op("DEFVAR"), Op("CALL")}
      BY <2>1, <2>2, <2>5, Zenon DEF Word
    <3>2. \A m \in i .. i - 1 : out[m] # NL
      BY <2>3
    <3>3. QED
      BY <2>3, <2>4, <2>5, <3>1, <3>2
  <2>6. CASE Rest(st, i) # <<>>
    <3>1. i # 1
      BY <2>6 DEF Trace
    <3>2. i - 1 \in 1 .. N
      BY <3>1
    <3>3. out[i - 1] # NL
      BY <2>3, <2>6, <3>2, TraceStarts
    <3>4. i \in 1 .. N + 1 /\ Pops(st, i)
      <4>1. i \in 1 .. N + 1
        BY <1>1
      <4>2. QED
        BY <2>1, <2>6, <4>1, TraceOperand
    <3>5. PICK j \in LineStarts : /\ j < i /\ out[j] \in {Op("DEFVAR"), Op("CALL")}
                                  /\ \A m \in j .. i - 2 : out[m] # NL
      BY <1>3, <2>3, <3>4
    <3>6. j \in Nat
      BY <1>1 DEF LineStarts
    <3>7. ASSUME NEW m \in j .. i - 1 PROVE out[m] # NL
      <4>1. m = i - 1 \/ m \in j .. i - 2
        BY <3>6
      <4>2. QED
        BY <3>3, <3>5, <4>1
    <3>8. j < i + 1
      BY <3>5, <3>6
    <3>9. QED
      BY <2>3, <3>5, <3>7, <3>8
  <2>7. QED
    BY <2>5, <2>6
<1>4. 0 .. N \subseteq S
  <2> HIDE DEF S
  <2>1. QED
    BY <1>1, <1>2, <1>3, UpTo
<1>5. ASSUME NEW i \in 1 .. N + 1, Pops(st, i) PROVE After(i)
  <2>1. i - 1 \in 0 .. N /\ (i - 1) + 1 = i
    BY <1>1
  <2>2. QED
    BY <1>4, <1>5, <2>1
<1>6. QED
  BY <1>5

\* For each tidy set of programs: a POPS takes a parameter declared on the line
\* before, or the result of the CALL on it.
THEOREM ResultsFollowCalls ==
    ASSUME NEW Out, NEW In, Tidy(Out, In)
    PROVE  Spec => []ResultsReturned
<1>1. TidyInv(Out, In) => ResultsReturned
  <2>1. SUFFICES ASSUME TidyInv(Out, In), Finished, NEW i \in LineStarts, out[i] = Op("POPS")
                 PROVE  \E j \in LineStarts : LineEnd(j) = i - 1 /\ out[j] \in {Op("DEFVAR"), Op("CALL")}
    BY DEF ResultsReturned
  <2>2. PICK st : Trace(st)
    BY <2>1, HasTrace
  <2>3. Len(out) \in Nat /\ i \in 1 .. Len(out)
    BY <2>2, TraceFirst DEF Trace
  <2>4. Pops(st, i)
    <3>1. out[i] # NL /\ out[i].s = "POPS"
      BY <2>1 DEF Op, NL, Tok
    <3>2. QED
      BY <2>2, <3>1, TraceFirst
  <2>5. i # 1
    BY <2>2, <2>4 DEF Trace
  <2>6. out[i - 1] = NL /\ i - 1 \in 1 .. Len(out)
    BY <2>3, <2>5 DEF LineStarts
  <2>7. PICK j \in LineStarts : /\ j < i /\ out[j] \in {Op("DEFVAR"), Op("CALL")}
                                /\ \A m \in j .. i - 2 : out[m] # NL
    <3>1. i \in 1 .. Len(out) + 1
      BY <2>3
    <3>2. QED
      BY <2>2, <2>4, <3>1, PopsAfter
  <2>8. j \in 1 .. Len(out)
    BY <2>2, TraceFirst
  <2>9. LineEnd(j) = i - 1
    <3> DEFINE e == i - 1
    <3>1. j \in Nat /\ e \in j .. Len(out) /\ out[e] = NL /\ e - 1 = i - 2
      BY <2>3, <2>6, <2>7, <2>8
    <3> HIDE DEF e
    <3>2. LineEnd(j) = e
      BY <2>3, <2>7, <3>1, EndsAt
    <3>3. QED
      BY <3>2 DEF e
  <2>10. QED
    BY <2>7, <2>9
<1>2. QED
  BY <1>1, StaysTidy, PTL
=============================================================================
