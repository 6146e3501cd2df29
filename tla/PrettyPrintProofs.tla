-------------------------- MODULE PrettyPrintProofs --------------------------
(***************************************************************************)
(* Proofs about PrettyPrint, for every set of trees.                       *)
(*                                                                         *)
(* The argument: each handler steps `indents' up as often as down, so the  *)
(* items it puts on `todo' weigh nothing, and what is left of them weighs  *)
(* what is still owed.  Vectors are of any length: what the elements of    *)
(* one make weighs nothing by induction.                                   *)
(***************************************************************************)
EXTENDS PrettyPrint, Induction

Occurs(s, x) == Cardinality({i \in DOMAIN s : s[i] = x})

\* What an item may be, whose node is one of Nodes.
Item(x) ==
    /\ x.k = "count" => x \in {Deeper, Back}
    /\ x.k = "visit" => x.node \in Nodes \cup {Null}

\* What an item does to the depth.
Weight(x) == IF x = Deeper THEN 1 ELSE IF x = Back THEN -1 ELSE 0

\* The items of s step `indents' by w in all.
Weighs(s, w) ==
    /\ s \in Seq(ToSet(s))
    /\ \A i \in DOMAIN s : Item(s[i])
    /\ Occurs(s, Deeper) - Occurs(s, Back) = w

-----------------------------------------------------------------------------
(* Sequences and what they weigh.                                          *)

LEMMA OwnElements ==
    ASSUME NEW S, NEW s \in Seq(S)
    PROVE  s \in Seq(ToSet(s))
<1>1. Len(s) \in Nat /\ DOMAIN s = 1 .. Len(s)
  BY LenProperties
<1>2. QED
  BY <1>1 DEF ToSet

LEMMA CountType ==
    ASSUME NEW S, NEW s \in Seq(S), NEW x
    PROVE  IsFiniteSet({i \in DOMAIN s : s[i] = x}) /\ Occurs(s, x) \in Nat
<1>1. Len(s) \in Nat /\ DOMAIN s = 1 .. Len(s)
  BY LenProperties
<1>2. IsFiniteSet(DOMAIN s)
  BY <1>1, FS_Interval
<1>3. {i \in DOMAIN s : s[i] = x} \in SUBSET DOMAIN s
  OBVIOUS
<1>4. IsFiniteSet({i \in DOMAIN s : s[i] = x})
  BY <1>2, <1>3, FS_Subset
<1>5. QED
  BY <1>4, FS_CardinalityType DEF Occurs

\* Both parts of a sequence are counted.
LEMMA CountCat ==
    ASSUME NEW S, NEW s \in Seq(S), NEW t \in Seq(S), NEW x
    PROVE  Occurs(s \o t, x) = Occurs(s, x) + Occurs(t, x)
<1> DEFINE A == {i \in DOMAIN s : s[i] = x}
           B == {i \in DOMAIN t : t[i] = x}
           C == {Len(s) + i : i \in B}
           D == {i \in DOMAIN (s \o t) : (s \o t)[i] = x}
           f == [i \in B |-> Len(s) + i]
<1>1. /\ Len(s) \in Nat /\ DOMAIN s = 1 .. Len(s)
      /\ Len(t) \in Nat /\ DOMAIN t = 1 .. Len(t)
      /\ DOMAIN (s \o t) = 1 .. (Len(s) + Len(t))
      /\ \A i \in 1 .. (Len(s) + Len(t)) :
            (s \o t)[i] = IF i <= Len(s) THEN s[i] ELSE t[i - Len(s)]
  <2>1. /\ s \o t \in Seq(S)
        /\ Len(s \o t) = Len(s) + Len(t)
        /\ \A i \in 1 .. Len(s) + Len(t) : (s \o t)[i] = IF i <= Len(s) THEN s[i] ELSE t[i - Len(s)]
    BY ConcatProperties, Zenon
  <2>2. QED
    BY <2>1, LenProperties
<1>2. D = A \cup C
  <2>1. D \subseteq A \cup C
    <3>1. SUFFICES ASSUME NEW i \in D, i \notin A PROVE i \in C
      OBVIOUS
    <3>2. i \in Int /\ i > Len(s) /\ i - Len(s) \in DOMAIN t /\ t[i - Len(s)] = x
      BY <1>1, <3>1
    <3>3. i - Len(s) \in B /\ i = Len(s) + (i - Len(s))
      BY <1>1, <3>2
    <3>4. QED
      BY <3>3
  <2>2. A \subseteq D
    BY <1>1
  <2>3. C \subseteq D
    <3>1. SUFFICES ASSUME NEW i \in B PROVE Len(s) + i \in D
      OBVIOUS
    <3>2. i \in 1 .. Len(t) /\ t[i] = x
      BY <1>1
    <3>3. QED
      BY <1>1, <3>2
  <2>4. QED
    BY <2>1, <2>2, <2>3
<1>3. A \cap C = {}
  BY <1>1
<1>4. IsFiniteSet(A) /\ IsFiniteSet(B) /\ Cardinality(A) \in Nat
  BY CountType DEF Occurs
<1>5. IsFiniteSet(C) /\ Cardinality(C) = Cardinality(B)
  <2>1. \A i, j \in B : f[i] = f[j] => i = j
    BY <1>1
  <2>2. f \in Bijection(B, C)
    BY <2>1, Fun_IsBij
  <2>3. ExistsBijection(B, C)
    BY <2>2, Fun_ExistsBij
  <2>4. QED
    BY <1>4, <2>3, FS_Bijection
<1>6. Cardinality(A \cup C) = Cardinality(A) + Cardinality(C)
  <2>1. Cardinality(A \cap C) = 0
    BY <1>3, FS_EmptySet
  <2>2. Cardinality(A \cup C) = Cardinality(A) + Cardinality(C) - Cardinality(A \cap C)
    BY <1>4, <1>5, FS_Union
  <2>3. Cardinality(C) \in Nat
    BY <1>5, FS_CardinalityType
  <2>4. QED
    BY <1>4, <2>1, <2>2, <2>3
<1>7. QED
  BY <1>2, <1>5, <1>6 DEF Occurs

LEMMA WeighsCat ==
    ASSUME NEW s, NEW t, NEW v \in Int, NEW w \in Int, Weighs(s, v), Weighs(t, w)
    PROVE  Weighs(s \o t, v + w)
<1> DEFINE S == ToSet(s) \cup ToSet(t)
<1>1. s \in Seq(S) /\ t \in Seq(S)
  BY SeqMonotonic DEF Weighs
<1>2. s \o t \in Seq(ToSet(s \o t))
  <2>1. s \o t \in Seq(S)
    BY <1>1, ConcatProperties
  <2>2. QED
    BY <2>1, OwnElements
<1>3. \A i \in DOMAIN (s \o t) : Item((s \o t)[i])
  <2>1. \A i \in DOMAIN (s \o t) : \/ \E j \in DOMAIN s : (s \o t)[i] = s[j]
                                   \/ \E j \in DOMAIN t : (s \o t)[i] = t[j]
    <3> HIDE DEF S
    <3>1. /\ Len(s \o t) = Len(s) + Len(t) /\ s \o t \in Seq(S)
          /\ \A i \in 1 .. Len(s) + Len(t) : (s \o t)[i] = IF i <= Len(s) THEN s[i] ELSE t[i - Len(s)]
      BY <1>1, ConcatProperties, Zenon
    <3>2. /\ Len(s) \in Nat /\ DOMAIN s = 1 .. Len(s) /\ Len(t) \in Nat /\ DOMAIN t = 1 .. Len(t)
          /\ DOMAIN (s \o t) = 1 .. Len(s \o t)
      BY <1>1, <3>1, LenProperties
    <3>3. QED
      BY <3>1, <3>2
  <2>2. QED
    BY <2>1 DEF Weighs
<1>4. /\ Occurs(s \o t, Deeper) = Occurs(s, Deeper) + Occurs(t, Deeper)
      /\ Occurs(s \o t, Back) = Occurs(s, Back) + Occurs(t, Back)
  <2> HIDE DEF S
  <2>1. QED
    BY <1>1, CountCat
<1>5. /\ Occurs(s, Deeper) \in Nat /\ Occurs(t, Deeper) \in Nat
      /\ Occurs(s, Back) \in Nat /\ Occurs(t, Back) \in Nat
  <2> HIDE DEF S
  <2>1. QED
    BY <1>1, CountType
<1>6. Occurs(s, Deeper) - Occurs(s, Back) = v /\ Occurs(t, Deeper) - Occurs(t, Back) = w
  BY DEF Weighs
<1>7. Occurs(s \o t, Deeper) - Occurs(s \o t, Back) = v + w
  BY <1>4, <1>5, <1>6
<1>8. QED
  <2> HIDE DEF S
  <2>1. QED
    BY <1>2, <1>3, <1>7, Zenon DEF Weighs

LEMMA WeighsNothing ==
    Weighs(<<>>, 0)
<1>1. \A x : {i \in DOMAIN <<>> : <<>>[i] = x} = {}
  OBVIOUS
<1>2. QED
  BY <1>1, FS_EmptySet DEF Weighs, Occurs, ToSet

LEMMA WeighsOne ==
    ASSUME NEW x, Item(x)
    PROVE  Weighs(<<x>>, Weight(x))
<1>1. \A y : {i \in DOMAIN <<x>> : <<x>>[i] = y} = IF x = y THEN {1} ELSE {}
  OBVIOUS
<1>2. \A y : Occurs(<<x>>, y) = IF x = y THEN 1 ELSE 0
  <2>1. Cardinality({}) = 0 /\ Cardinality({1}) = 1
    BY FS_EmptySet, FS_Singleton
  <2>2. TAKE y
  <2>3. CASE x = y
    BY <1>1, <2>1, <2>3 DEF Occurs
  <2>4. CASE x # y
    BY <1>1, <2>1, <2>4 DEF Occurs
  <2>5. QED
    BY <2>3, <2>4
<1>3. <<x>> \in Seq(ToSet(<<x>>)) /\ \A i \in DOMAIN <<x>> : Item(<<x>>[i])
  <2> DEFINE t == <<x>>
  <2>1. t \in Seq({x}) /\ DOMAIN t = {1} /\ t[1] = x
    OBVIOUS
  <2> HIDE DEF t
  <2>2. t \in Seq(ToSet(t))
    BY <2>1, OwnElements
  <2>3. t \in Seq(ToSet(t)) /\ \A i \in DOMAIN t : Item(t[i])
    BY <2>1, <2>2
  <2>4. QED
    BY <2>3 DEF t
<1>4. Deeper # Back
  BY DEF Deeper, Back
<1>5. QED
  BY <1>2, <1>3, <1>4 DEF Weighs, Weight

\* What each of many parts weighs nothing, they weigh nothing together.
LEMMA WeighsEach ==
    ASSUME NEW k \in Nat, NEW seqs, seqs = [i \in 1 .. k |-> seqs[i]],
           \A i \in 1 .. k : Weighs(seqs[i], 0)
    PROVE  Weighs(FlattenSeq(seqs), 0)
<1> DEFINE U == UNION {ToSet(seqs[i]) : i \in 1 .. k}
           P == {s \in Seq(U) : Weighs(s, 0)}
<1>1. <<>> \in P
  BY WeighsNothing
<1>2. ASSUME NEW s \in P, NEW t \in P PROVE s \o t \in P
  <2>1. Weighs(s \o t, 0 + 0)
    BY WeighsCat, SMTT(30)
  <2>2. s \o t \in Seq(U)
    <3> HIDE DEF U
    <3>1. s \in Seq(U) /\ t \in Seq(U)
      OBVIOUS
    <3>2. QED
      BY <3>1, ConcatProperties
  <2>3. QED
    BY <2>1, <2>2
<1>3. \A i \in 1 .. k : seqs[i] \in P
  <2>1. TAKE i \in 1 .. k
  <2>2. ToSet(seqs[i]) \subseteq U /\ seqs[i] \in Seq(ToSet(seqs[i])) /\ Weighs(seqs[i], 0)
    BY DEF Weighs
  <2>3. seqs[i] \in Seq(U)
    <3> HIDE DEF U
    <3>1. QED
      BY <2>2, SeqMonotonic
  <2>4. QED
    BY <2>2, <2>3
<1>4. seqs \in Seq(P)
  <2> HIDE DEF P
  <2>1. [i \in 1 .. k |-> seqs[i]] \in Seq(P)
    BY <1>3, IsASeq
  <2>2. QED
    BY <2>1
<1>5. FlattenSeq(seqs) \in P
  <2> HIDE DEF P
  <2>1. QED
    BY <1>1, <1>2, <1>4, FlattenClosed
<1>6. QED
  BY <1>5

-----------------------------------------------------------------------------
(* Lists of items.                                                         *)

\* An item that leaves the depth alone.
Flat(x) == Item(x) /\ Weight(x) = 0

LEMMA Items ==
    /\ \A s : Flat(Open(s)) /\ Flat(Word(s)) /\ Flat(Num(s))
    /\ Flat(Close) /\ Flat(NL) /\ Flat(INDENT) /\ Flat(Gap)
    /\ \A n \in Nodes \cup {Null} : Flat(Visit(n))
    /\ Item(Deeper) /\ Weight(Deeper) = 1
    /\ Item(Back) /\ Weight(Back) = -1
BY DEF Flat, Item, Weight, Open, Word, Num, Close, NL, INDENT, Gap, Visit, Deeper, Back


LEMMA WeighsTwo ==
    ASSUME NEW a, NEW b,
           Item(a), Item(b)
    PROVE  Weighs(<<a, b>>, Weight(a) + Weight(b))
<1>1. \A x : Weight(x) \in Int
  BY DEF Weight
<1>2. <<a, b>> = <<a>> \o <<b>>
  <2> DEFINE S == {a, b}
             u == <<a, b>>
             s == <<a>>
             t == <<b>>
  <2>1. u \in Seq(S) /\ s \in Seq(S) /\ t \in Seq(S)
    OBVIOUS
  <2>2. /\ Len(u) = 2 /\ Len(s) = 1 /\ Len(t) = 1 /\ Len(u) = Len(s) + Len(t)
        /\ u[1] = a /\ u[2] = b /\ s[1] = a /\ t[1] = b
    OBVIOUS
  <2> HIDE DEF u, s, t, S
  <2>3. (\A k \in 1 .. Len(s) : u[k] = s[k]) /\ \A k \in 1 .. Len(t) : u[Len(s) + k] = t[k]
    BY <2>2
  <2>4. u = s \o t
    BY <2>1, <2>2, <2>3, Joined, Zenon
  <2>5. QED
    BY <2>4 DEF u, s, t
<1>3. Weighs(<<a>> \o <<b>>, Weight(a) + Weight(b))
  BY <1>1, WeighsOne, WeighsCat
<1>4. Weight(a) + Weight(b) = Weight(a) + Weight(b)
  BY <1>1
<1>5. QED
  BY <1>2, <1>3, <1>4, Zenon

LEMMA WeighsThree ==
    ASSUME NEW a, NEW b, NEW c,
           Item(a), Item(b), Item(c)
    PROVE  Weighs(<<a, b, c>>, Weight(a) + Weight(b) + Weight(c))
<1>1. \A x : Weight(x) \in Int
  BY DEF Weight
<1>2. <<a, b, c>> = <<a, b>> \o <<c>>
  <2> DEFINE S == {a, b, c}
  <2>1. <<a, b, c>> \in Seq(S) /\ <<a, b>> \in Seq(S) /\ <<c>> \in Seq(S)
    OBVIOUS
  <2>2. QED
    BY <2>1, Joined
<1>3. Weighs(<<a, b>> \o <<c>>, (Weight(a) + Weight(b)) + Weight(c))
  BY <1>1, WeighsOne, WeighsTwo, WeighsCat
<1>4. (Weight(a) + Weight(b)) + Weight(c) = Weight(a) + Weight(b) + Weight(c)
  BY <1>1
<1>5. QED
  BY <1>2, <1>3, <1>4, Zenon

LEMMA WeighsFour ==
    ASSUME NEW a, NEW b, NEW c, NEW d,
           Item(a), Item(b), Item(c), Item(d)
    PROVE  Weighs(<<a, b, c, d>>, Weight(a) + Weight(b) + Weight(c) + Weight(d))
<1>1. \A x : Weight(x) \in Int
  BY DEF Weight
<1>2. <<a, b, c, d>> = <<a, b, c>> \o <<d>>
  <2> DEFINE S == {a, b, c, d}
  <2>1. <<a, b, c, d>> \in Seq(S) /\ <<a, b, c>> \in Seq(S) /\ <<d>> \in Seq(S)
    OBVIOUS
  <2>2. QED
    BY <2>1, Joined
<1>3. Weighs(<<a, b, c>> \o <<d>>, (Weight(a) + Weight(b) + Weight(c)) + Weight(d))
  BY <1>1, WeighsOne, WeighsThree, WeighsCat
<1>4. (Weight(a) + Weight(b) + Weight(c)) + Weight(d) = Weight(a) + Weight(b) + Weight(c) + Weight(d)
  BY <1>1
<1>5. QED
  BY <1>2, <1>3, <1>4, Zenon

LEMMA WeighsFive ==
    ASSUME NEW a, NEW b, NEW c, NEW d, NEW e,
           Item(a), Item(b), Item(c), Item(d), Item(e)
    PROVE  Weighs(<<a, b, c, d, e>>, Weight(a) + Weight(b) + Weight(c) + Weight(d) + Weight(e))
<1>1. \A x : Weight(x) \in Int
  BY DEF Weight
<1>2. <<a, b, c, d, e>> = <<a, b, c, d>> \o <<e>>
  <2> DEFINE S == {a, b, c, d, e}
  <2>1. <<a, b, c, d, e>> \in Seq(S) /\ <<a, b, c, d>> \in Seq(S) /\ <<e>> \in Seq(S)
    OBVIOUS
  <2>2. QED
    BY <2>1, Joined
<1>3. Weighs(<<a, b, c, d>> \o <<e>>, (Weight(a) + Weight(b) + Weight(c) + Weight(d)) + Weight(e))
  BY <1>1, WeighsOne, WeighsFour, WeighsCat
<1>4. (Weight(a) + Weight(b) + Weight(c) + Weight(d)) + Weight(e) = Weight(a) + Weight(b) + Weight(c) + Weight(d) + Weight(e)
  BY <1>1
<1>5. QED
  BY <1>2, <1>3, <1>4, Zenon

LEMMA WeighsSix ==
    ASSUME NEW a, NEW b, NEW c, NEW d, NEW e, NEW f,
           Item(a), Item(b), Item(c), Item(d), Item(e), Item(f)
    PROVE  Weighs(<<a, b, c, d, e, f>>, Weight(a) + Weight(b) + Weight(c) + Weight(d) + Weight(e) + Weight(f))
<1>1. \A x : Weight(x) \in Int
  BY DEF Weight
<1>2. <<a, b, c, d, e, f>> = <<a, b, c>> \o <<d, e, f>>
  <2> DEFINE S == {a, b, c, d, e, f}
  <2>1. <<a, b, c, d, e, f>> \in Seq(S) /\ <<a, b, c>> \in Seq(S) /\ <<d, e, f>> \in Seq(S)
    OBVIOUS
  <2>2. QED
    BY <2>1, Joined
<1>3. Weighs(<<a, b, c>> \o <<d, e, f>>, (Weight(a) + Weight(b) + Weight(c)) + (Weight(d) + Weight(e) + Weight(f)))
  BY <1>1, WeighsThree, WeighsCat
<1>4. (Weight(a) + Weight(b) + Weight(c)) + (Weight(d) + Weight(e) + Weight(f)) = Weight(a) + Weight(b) + Weight(c) + Weight(d) + Weight(e) + Weight(f)
  BY <1>1
<1>5. QED
  BY <1>2, <1>3, <1>4, Zenon

LEMMA WeighsEight ==
    ASSUME NEW a, NEW b, NEW c, NEW d, NEW e, NEW f, NEW g, NEW h,
           Item(a), Item(b), Item(c), Item(d), Item(e), Item(f), Item(g), Item(h)
    PROVE  Weighs(<<a, b, c, d, e, f, g, h>>, Weight(a) + Weight(b) + Weight(c) + Weight(d) + Weight(e) + Weight(f) + Weight(g) + Weight(h))
<1>1. \A x : Weight(x) \in Int
  BY DEF Weight
<1>2. <<a, b, c, d, e, f, g, h>> = <<a, b, c, d>> \o <<e, f, g, h>>
  <2> DEFINE S == {a, b, c, d, e, f, g, h}
  <2>1. <<a, b, c, d, e, f, g, h>> \in Seq(S) /\ <<a, b, c, d>> \in Seq(S) /\ <<e, f, g, h>> \in Seq(S)
    OBVIOUS
  <2>2. QED
    BY <2>1, Joined
<1>3. Weighs(<<a, b, c, d>> \o <<e, f, g, h>>, (Weight(a) + Weight(b) + Weight(c) + Weight(d)) + (Weight(e) + Weight(f) + Weight(g) + Weight(h)))
  BY <1>1, WeighsFour, WeighsCat
<1>4. (Weight(a) + Weight(b) + Weight(c) + Weight(d)) + (Weight(e) + Weight(f) + Weight(g) + Weight(h)) = Weight(a) + Weight(b) + Weight(c) + Weight(d) + Weight(e) + Weight(f) + Weight(g) + Weight(h)
  BY <1>1
<1>5. QED
  BY <1>2, <1>3, <1>4, Zenon

LEMMA WeighsTen ==
    ASSUME NEW a, NEW b, NEW c, NEW d, NEW e, NEW f, NEW g, NEW h, NEW i, NEW j,
           Item(a), Item(b), Item(c), Item(d), Item(e), Item(f), Item(g), Item(h), Item(i), Item(j)
    PROVE  Weighs(<<a, b, c, d, e, f, g, h, i, j>>, Weight(a) + Weight(b) + Weight(c) + Weight(d) + Weight(e) + Weight(f) + Weight(g) + Weight(h) + Weight(i) + Weight(j))
<1>1. \A x : Weight(x) \in Int
  BY DEF Weight
<1>2. <<a, b, c, d, e, f, g, h, i, j>> = <<a, b, c, d, e>> \o <<f, g, h, i, j>>
  <2> DEFINE S == {a, b, c, d, e, f, g, h, i, j}
  <2>1. <<a, b, c, d, e, f, g, h, i, j>> \in Seq(S) /\ <<a, b, c, d, e>> \in Seq(S) /\ <<f, g, h, i, j>> \in Seq(S)
    OBVIOUS
  <2>2. QED
    BY <2>1, Joined
<1>3. Weighs(<<a, b, c, d, e>> \o <<f, g, h, i, j>>, (Weight(a) + Weight(b) + Weight(c) + Weight(d) + Weight(e)) + (Weight(f) + Weight(g) + Weight(h) + Weight(i) + Weight(j)))
  BY <1>1, WeighsFive, WeighsCat
<1>4. (Weight(a) + Weight(b) + Weight(c) + Weight(d) + Weight(e)) + (Weight(f) + Weight(g) + Weight(h) + Weight(i) + Weight(j)) = Weight(a) + Weight(b) + Weight(c) + Weight(d) + Weight(e) + Weight(f) + Weight(g) + Weight(h) + Weight(i) + Weight(j)
  BY <1>1
<1>5. QED
  BY <1>2, <1>3, <1>4, Zenon

LEMMA WeighsThreeParts ==
    ASSUME NEW a, NEW b, NEW c, NEW u \in Int, NEW v \in Int, NEW w \in Int,
           Weighs(a, u), Weighs(b, v), Weighs(c, w), u + v + w = 0
    PROVE  Weighs(a \o b \o c, 0)
<1>1. Weighs(a \o b, u + v) /\ u + v \in Int
  BY WeighsCat
<1>2. QED
  BY <1>1, WeighsCat

LEMMA WeighsFourParts ==
    ASSUME NEW a, NEW b, NEW c, NEW d,
           NEW u \in Int, NEW v \in Int, NEW w \in Int, NEW x \in Int,
           Weighs(a, u), Weighs(b, v), Weighs(c, w), Weighs(d, x), u + v + w + x = 0
    PROVE  Weighs(a \o b \o c \o d, 0)
<1>1. Weighs(a \o b, u + v) /\ u + v \in Int
  BY WeighsCat
<1>2. Weighs(a \o b \o c, u + v + w) /\ u + v + w \in Int
  BY <1>1, WeighsCat
<1>3. QED
  BY <1>2, WeighsCat

-----------------------------------------------------------------------------
(* The handlers.                                                           *)

\* The members of a node, type by type.
LEMMA Members ==
    ASSUME NEW n \in Nodes
    PROVE  LET Node == Nodes \cup {Null} IN
           /\ n.type \in Visited
           /\ n.type \in {"DECL", "DECLARE", "FUNCTION"} => n.of \in Node
           /\ n.type \in {"CALL", "UNARY_OP", "WHILE", "RETURN", "IF"} => n.expr \in Node
           /\ n.type \in {"BINARY_OP", "SUBSCRIPT", "SLOT"} => n.left \in Node /\ n.right \in Node
           /\ n.type = "INPUT" => n.param \in Node
           /\ n.type = "DECL" => n.vec \in Seq(Node)
           /\ n.type = "ARRAY" => n.vals \in Seq(Node)
           /\ n.type = "BLOCK" => n.stmts \in Seq(Node)
           /\ n.type \in {"DECLARE", "FUNCTION", "PRINT"} => n.params \in Seq(Node)
           /\ n.type = "TYPE" => n.fields \in Seq(Node)
<1>1. Grown(Nodes, n)
  BY NodesAssumption DEF Forest
<1>2. DOMAIN n = {"type"} \cup ExprMembers(n.type) \cup StmtMembers(n.type)
  BY <1>1 DEF Grown, IsNode
<1>3. /\ n.type \in Visited
      /\ \A m \in Pointers \cap DOMAIN n : n[m] \in Nodes \cup {Null}
      /\ \A m \in Vectors \cap DOMAIN n : n[m] \in Seq(Nodes \cup {Null})
  BY <1>1, Zenon DEF Grown
<1>4. /\ n.type \in {"DECL", "DECLARE", "FUNCTION"} => "of" \in DOMAIN n
      /\ n.type \in {"CALL", "UNARY_OP", "WHILE", "RETURN", "IF"} => "expr" \in DOMAIN n
      /\ n.type \in {"BINARY_OP", "SUBSCRIPT", "SLOT"} => "left" \in DOMAIN n /\ "right" \in DOMAIN n
      /\ n.type = "INPUT" => "param" \in DOMAIN n
      /\ n.type = "DECL" => "vec" \in DOMAIN n
      /\ n.type = "ARRAY" => "vals" \in DOMAIN n
      /\ n.type = "BLOCK" => "stmts" \in DOMAIN n
      /\ n.type \in {"DECLARE", "FUNCTION", "PRINT"} => "params" \in DOMAIN n
      /\ n.type = "TYPE" => "fields" \in DOMAIN n
  BY <1>2 DEF ExprMembers, StmtMembers
<1>5. QED
  <2> DEFINE Node == Nodes \cup {Null}
             Vecs == Seq(Node)
  <2>1. \A m \in {"of", "expr", "left", "right", "param"} : m \in DOMAIN n => n[m] \in Node
    BY <1>3 DEF Pointers
  <2>2. \A m \in {"vec", "vals", "stmts", "params", "fields"} : m \in DOMAIN n => n[m] \in Vecs
    BY <1>3 DEF Vectors
  <2> HIDE DEF Node, Vecs
  <2>3. QED
    BY <1>3, <1>4, <2>1, <2>2 DEF Node, Vecs

\* What is written for each element of a vector.
LEMMA EachWeighs ==
    ASSUME NEW vec, NEW V, vec \in Seq(V), NEW items,
           \A i \in DOMAIN vec : Weighs(items[i], 0)
    PROVE  Weighs(FlattenSeq([i \in DOMAIN vec |-> items[i]]), 0)
<1> DEFINE seqs == [i \in DOMAIN vec |-> items[i]]
<1>1. Len(vec) \in Nat /\ DOMAIN vec = 1 .. Len(vec)
  BY LenProperties
<1>2. \A i \in 1 .. Len(vec) : Weighs(seqs[i], 0)
  BY <1>1
<1>3. seqs = [i \in 1 .. Len(vec) |-> seqs[i]]
  BY <1>1
<1> HIDE DEF seqs
<1>4. Weighs(FlattenSeq(seqs), 0)
  BY <1>1, <1>2, <1>3, WeighsEach
<1>5. QED
  BY <1>4 DEF seqs

LEMMA LineWeighs ==
    ASSUME NEW n \in Nodes \cup {Null}
    PROVE  Weighs(Line(n), 0)
BY Items, WeighsThree DEF Line, Flat

LEMMA LinesWeigh ==
    ASSUME NEW vec \in Seq(Nodes \cup {Null})
    PROVE  Weighs(Lines(vec), 0)
<1> DEFINE items == [i \in DOMAIN vec |-> Line(vec[i])]
<1>1. \A i \in DOMAIN vec : Weighs(items[i], 0)
  BY ElementOfSeq, LineWeighs
<1> HIDE DEF items
<1>2. Weighs(FlattenSeq([i \in DOMAIN vec |-> items[i]]), 0)
  BY <1>1, EachWeighs
<1>3. QED
  BY <1>2 DEF Lines, Each, items

LEMMA OptionalWeighs ==
    ASSUME NEW items, Weighs(items, 0), NEW n \in Nodes \cup {Null}
    PROVE  Weighs(Optional(items, n), 0)
<1>1. Weighs(<<Visit(n)>>, 0)
  BY WeighsOne, Items DEF Flat
<1>2. Weighs(items \o <<Visit(n)>>, 0 + 0)
  BY <1>1, WeighsCat
<1>3. QED
  BY <1>2, WeighsNothing DEF Optional

LEMMA InnerWeighs ==
    ASSUME NEW b \in Nodes \cup {Null}
    PROVE  Weighs(Inner(b), 0)
BY Items, WeighsFive DEF Inner, Flat

\* The handlers of expressions.
LEMMA AtomWeighs ==
    ASSUME NEW n, n.type \in {"INT", "DOUBLE", "ID", "STRING"}
    PROVE  Weighs(visit_atom(n), 0)
BY Items, WeighsThree DEF visit_atom, Flat

LEMMA DeclWeighs ==
    ASSUME NEW n \in Nodes, n.type = "DECL"
    PROVE  Weighs(visit_decl(n), 0)
<1>1. n.vec \in Seq(Nodes \cup {Null}) /\ n.of \in Nodes \cup {Null}
  BY Members
<1>2. Weighs(<<Open("decl"), Deeper>>, 1) /\ Weighs(<<Close, Back>>, -1)
  BY Items, WeighsTwo DEF Flat
<1>3. Weighs(Lines(n.vec), 0)
  BY <1>1, LinesWeigh
<1>4. Weighs(Optional(<<NL, INDENT, Word(":")>>, n.of), 0)
  <2>1. Weighs(<<NL, INDENT, Word(":")>>, 0)
    BY Items, WeighsThree DEF Flat
  <2>2. QED
    BY <1>1, <2>1, OptionalWeighs
<1>5. QED
  BY <1>2, <1>3, <1>4, WeighsFourParts DEF visit_decl

LEMMA DimWeighs ==
    ASSUME NEW n \in Nodes, n.type = "DIM"
    PROVE  Weighs(visit_dim(n), 0)
<1> DEFINE items == [i \in DOMAIN n.vec |-> Line(n.vec[i].left)
                                            \o Optional(<<NL, INDENT, Word("=")>>, n.vec[i].right)]
<1>1. n.vec \in Seq(OfType(Nodes, "BINARY_OP"))
  BY NodesAssumption, Zenon DEF Forest, Grown
<1>2. \A i \in DOMAIN n.vec : Weighs(items[i], 0)
  <2>1. TAKE i \in DOMAIN n.vec
  <2>2. n.vec[i] \in Nodes /\ n.vec[i].type = "BINARY_OP"
    BY <1>1, ElementOfSeq DEF OfType
  <2>3. n.vec[i].left \in Nodes \cup {Null} /\ n.vec[i].right \in Nodes \cup {Null}
    BY <2>2, Members
  <2>4. Weighs(Line(n.vec[i].left), 0)
    BY <2>3, LineWeighs
  <2>5. Weighs(Optional(<<NL, INDENT, Word("=")>>, n.vec[i].right), 0)
    <3>1. Weighs(<<NL, INDENT, Word("=")>>, 0)
      BY Items, WeighsThree DEF Flat
    <3>2. QED
      BY <2>3, <3>1, OptionalWeighs
  <2>6. QED
    BY <2>4, <2>5, WeighsCat
<1> HIDE DEF items
<1>3. Weighs(FlattenSeq([i \in DOMAIN n.vec |-> items[i]]), 0)
  BY <1>1, <1>2, EachWeighs
<1>4. Weighs(<<Open("dim"), Deeper>>, 1) /\ Weighs(<<Close, Back>>, -1)
  BY Items, WeighsTwo DEF Flat
<1>5. Weighs(<<Open("dim"), Deeper>> \o FlattenSeq([i \in DOMAIN n.vec |-> items[i]]) \o <<Close, Back>>, 0)
  BY <1>3, <1>4, WeighsThreeParts
<1>6. QED
  BY <1>5 DEF visit_dim, Each, items

LEMMA OpWeighs ==
    ASSUME NEW n \in Nodes
    PROVE  /\ n.type = "UNARY_OP" => Weighs(visit_unary_op(n), 0)
           /\ n.type = "BINARY_OP" => Weighs(visit_binary_op(n), 0)
<1>1. ASSUME n.type = "UNARY_OP" PROVE Weighs(visit_unary_op(n), 0)
  <2>1. n.expr \in Nodes \cup {Null}
    BY <1>1, Members
  <2>2. Weighs(<<Open(""), Visit(n.expr), Word(n.op), Close>>, 0)
    <3> DEFINE open == Open("")
    <3>1. Flat(open) /\ Flat(Visit(n.expr)) /\ Flat(Word(n.op)) /\ Flat(Close)
      BY <2>1, Items
    <3> HIDE DEF open
    <3>2. Weighs(<<open, Visit(n.expr), Word(n.op), Close>>, 0)
      BY <3>1, WeighsFour DEF Flat
    <3>3. QED
      BY <3>2 DEF open
  <2>3. Weighs(<<Open(n.op), Visit(n.expr), Close>>, 0)
    BY <2>1, Items, WeighsThree DEF Flat
  <2>4. QED
    BY <2>2, <2>3 DEF visit_unary_op
<1>2. ASSUME n.type = "BINARY_OP" PROVE Weighs(visit_binary_op(n), 0)
  <2>1. n.left \in Nodes \cup {Null} /\ n.right \in Nodes \cup {Null}
    BY <1>2, Members
  <2>2. QED
    BY <2>1, Items, WeighsFour DEF visit_binary_op, Flat
<1>3. QED
  BY <1>1, <1>2

LEMMA ArrayWeighs ==
    ASSUME NEW n \in Nodes, n.type = "ARRAY"
    PROVE  Weighs(visit_array(n), 0)
<1> DEFINE items == [i \in DOMAIN n.vals |-> <<INDENT, Visit(n.vals[i])>>
                                             \o IF i # Len(n.vals) THEN <<NL>> ELSE <<>>]
<1>1. n.vals \in Seq(Nodes \cup {Null})
  BY Members
<1>2. \A i \in DOMAIN n.vals : Weighs(items[i], 0)
  <2>1. TAKE i \in DOMAIN n.vals
  <2>2. n.vals[i] \in Nodes \cup {Null}
    BY <1>1, ElementOfSeq
  <2>3. Weighs(<<INDENT, Visit(n.vals[i])>>, 0)
    BY <2>2, Items, WeighsTwo DEF Flat
  <2>4. Weighs(IF i # Len(n.vals) THEN <<NL>> ELSE <<>>, 0)
    BY Items, WeighsOne, WeighsNothing DEF Flat
  <2>5. QED
    BY <2>3, <2>4, WeighsCat
<1> HIDE DEF items
<1>3. Weighs(FlattenSeq([i \in DOMAIN n.vals |-> items[i]]), 0)
  BY <1>1, <1>2, EachWeighs
<1>4. Weighs(<<Open("array"), NL, Deeper>>, 1) /\ Weighs(<<Back, Close>>, -1)
  BY Items, WeighsTwo, WeighsThree DEF Flat
<1>5. Weighs(<<Open("array"), NL, Deeper>> \o FlattenSeq([i \in DOMAIN n.vals |-> items[i]]) \o <<Back, Close>>, 0)
  BY <1>3, <1>4, WeighsThreeParts
<1>6. QED
  BY <1>5 DEF visit_array, Each, items

LEMMA HashWeighs ==
    ASSUME NEW n \in Nodes, n.type = "HASH"
    PROVE  Weighs(visit_hash(n), 0)
<1> DEFINE V == [type : {"HASH_PAIR"}, key : Nodes \cup {Null}, val : Nodes \cup {Null}]
           items == [i \in DOMAIN n.pairs |-> <<INDENT, Visit(n.pairs[i].key), Word(":"), Visit(n.pairs[i].val), NL>>]
<1>1. n.pairs \in Seq(V)
  BY NodesAssumption, Zenon DEF Forest, Grown
<1>2. \A i \in DOMAIN n.pairs : Weighs(items[i], 0)
  <2>1. TAKE i \in DOMAIN n.pairs
  <2>2. n.pairs[i] \in V
    <3> HIDE DEF V
    <3>1. QED
      BY <1>1, ElementOfSeq
  <2>3. n.pairs[i].key \in Nodes \cup {Null} /\ n.pairs[i].val \in Nodes \cup {Null}
    BY <2>2
  <2>4. Weighs(<<INDENT, Visit(n.pairs[i].key), Word(":"), Visit(n.pairs[i].val), NL>>, 0)
    BY <2>3, Items, WeighsFive DEF Flat
  <2>5. QED
    BY <2>4
<1> HIDE DEF items, V
<1>3. Weighs(FlattenSeq([i \in DOMAIN n.pairs |-> items[i]]), 0)
  BY <1>1, <1>2, EachWeighs
<1>4. Weighs(<<Open("hash"), NL, Deeper>>, 1) /\ Weighs(<<Back, Close>>, -1)
  BY Items, WeighsTwo, WeighsThree DEF Flat
<1>5. Weighs(<<Open("hash"), NL, Deeper>> \o FlattenSeq([i \in DOMAIN n.pairs |-> items[i]]) \o <<Back, Close>>, 0)
  BY <1>3, <1>4, WeighsThreeParts
<1>6. QED
  BY <1>5 DEF visit_hash, Each, items

LEMMA MemberWeighs ==
    ASSUME NEW n \in Nodes
    PROVE  /\ n.type = "SUBSCRIPT" => Weighs(visit_subscript(n), 0)
           /\ n.type = "SLOT" => Weighs(visit_slot(n), 0)
<1>1. SUFFICES ASSUME n.type \in {"SUBSCRIPT", "SLOT"}
               PROVE  Weighs(visit_subscript(n), 0) /\ Weighs(visit_slot(n), 0)
  OBVIOUS
<1>2. n.left \in Nodes \cup {Null} /\ n.right \in Nodes \cup {Null}
  BY <1>1, Members
<1>3. QED
  BY <1>2, Items, WeighsTen DEF visit_subscript, visit_slot, Flat

LEMMA CallWeighs ==
    ASSUME NEW n \in Nodes, n.type = "CALL"
    PROVE  Weighs(visit_call(n), 0)
<1> DEFINE V == [slot : STRING, val : Nodes \cup {Null}]
           plain == [i \in DOMAIN n.args.vec |-> <<Visit(n.args.vec[i])>>]
           named == [i \in DOMAIN n.args.hash |-> <<Word(n.args.hash[i].slot), Visit(n.args.hash[i].val)>>]
           middle == IF n.args = Null THEN <<Visit(Null)>>
                     ELSE IF n.args.vec = <<>> THEN <<>>
                     ELSE <<NL, INDENT>> \o FlattenSeq([i \in DOMAIN n.args.vec |-> plain[i]])
                          \o FlattenSeq([i \in DOMAIN n.args.hash |-> named[i]])
<1>1. n.expr \in Nodes \cup {Null}
  BY Members
<1>2. ASSUME n.args # Null PROVE n.args.vec \in Seq(Nodes \cup {Null}) /\ n.args.hash \in Seq(V)
  BY NodesAssumption, <1>2, Zenon DEF Forest, Grown
<1>3. Weighs(middle, 0)
  <2>1. CASE n.args = Null
    BY <2>1, WeighsOne, Items DEF Flat
  <2>2. CASE n.args # Null
    <3>1. \A i \in DOMAIN n.args.vec : Weighs(plain[i], 0)
      <4>1. TAKE i \in DOMAIN n.args.vec
      <4>2. n.args.vec[i] \in Nodes \cup {Null}
        BY <1>2, <2>2, ElementOfSeq
      <4>3. QED
        BY <4>2, Items, WeighsOne DEF Flat
    <3>2. \A i \in DOMAIN n.args.hash : Weighs(named[i], 0)
      <4>1. TAKE i \in DOMAIN n.args.hash
      <4>2. n.args.hash[i] \in V
        <5> HIDE DEF V
        <5>1. QED
          BY <1>2, <2>2, ElementOfSeq
      <4>3. n.args.hash[i].val \in Nodes \cup {Null}
        BY <4>2
      <4>4. Weighs(<<Word(n.args.hash[i].slot), Visit(n.args.hash[i].val)>>, 0)
        BY <4>3, Items, WeighsTwo DEF Flat
      <4>5. QED
        BY <4>4
    <3>3. Weighs(<<NL, INDENT>>, 0)
      BY Items, WeighsTwo DEF Flat
    <3> HIDE DEF plain, named, V
    <3>4. /\ Weighs(FlattenSeq([i \in DOMAIN n.args.vec |-> plain[i]]), 0)
          /\ Weighs(FlattenSeq([i \in DOMAIN n.args.hash |-> named[i]]), 0)
      BY <1>2, <2>2, <3>1, <3>2, EachWeighs
    <3>5. Weighs(<<NL, INDENT>> \o FlattenSeq([i \in DOMAIN n.args.vec |-> plain[i]])
                    \o FlattenSeq([i \in DOMAIN n.args.hash |-> named[i]]), 0)
      BY <3>3, <3>4, WeighsThreeParts
    <3>6. QED
      BY <2>2, <3>5, WeighsNothing
  <2>3. QED
    BY <2>1, <2>2
<1>4. Weighs(<<Open("call"), NL, Deeper, INDENT, Visit(n.expr)>>, 1) /\ Weighs(<<Back, Close>>, -1)
  BY <1>1, Items, WeighsTwo, WeighsFive DEF Flat
<1>5. visit_call(n) = <<Open("call"), NL, Deeper, INDENT, Visit(n.expr)>> \o middle \o <<Back, Close>>
  BY DEF visit_call, Each
<1> HIDE DEF middle
<1>6. QED
  BY <1>3, <1>4, <1>5, WeighsThreeParts

\* The handlers of statements.
LEMMA BlockWeighs ==
    ASSUME NEW n \in Nodes, n.type = "BLOCK"
    PROVE  Weighs(visit_block(n), 0)
<1> DEFINE items == [i \in DOMAIN n.stmts |-> (IF i > 1 THEN <<NL>> ELSE <<>>) \o <<INDENT, Visit(n.stmts[i]), Gap>>]
<1>1. n.stmts \in Seq(Nodes \cup {Null})
  BY Members
<1>2. \A i \in DOMAIN n.stmts : Weighs(items[i], 0)
  <2>1. TAKE i \in DOMAIN n.stmts
  <2>2. n.stmts[i] \in Nodes \cup {Null}
    BY <1>1, ElementOfSeq
  <2>3. Weighs(<<INDENT, Visit(n.stmts[i]), Gap>>, 0)
    BY <2>2, Items, WeighsThree DEF Flat
  <2>4. Weighs(IF i > 1 THEN <<NL>> ELSE <<>>, 0)
    BY Items, WeighsOne, WeighsNothing DEF Flat
  <2>5. QED
    BY <2>3, <2>4, WeighsCat
<1> HIDE DEF items
<1>3. Weighs(FlattenSeq([i \in DOMAIN n.stmts |-> items[i]]), 0)
  BY <1>1, <1>2, EachWeighs
<1>4. QED
  BY <1>3 DEF visit_block, Each, items

LEMMA ScopeWeighs ==
    ASSUME NEW n \in Nodes, n.type = "SCOPE"
    PROVE  Weighs(visit_scope(n), 0)
<1>1. n.block \in Nodes \cup {Null}
  BY NodesAssumption, Zenon DEF Forest, Grown, OfType
<1> DEFINE open == Open("scope ->")
<1>2. Flat(open)
  BY Items
<1>3. visit_scope(n) = <<open>> \o Inner(n.block)
  BY DEF visit_scope
<1> HIDE DEF open
<1>4. Weighs(<<open>>, 0)
  BY <1>2, WeighsOne DEF Flat
<1>5. QED
  BY <1>1, <1>3, <1>4, InnerWeighs, WeighsCat

LEMMA DeclareWeighs ==
    ASSUME NEW n \in Nodes, n.type = "DECLARE"
    PROVE  Weighs(visit_declare(n), 0)
<1> DEFINE items == [i \in DOMAIN n.params |-> <<NL, Deeper, INDENT, Visit(n.params[i]), Back>>]
<1>1. n.params \in Seq(Nodes \cup {Null}) /\ n.of \in Nodes \cup {Null}
  BY Members
<1>2. \A i \in DOMAIN n.params : Weighs(items[i], 0)
  <2>1. TAKE i \in DOMAIN n.params
  <2>2. n.params[i] \in Nodes \cup {Null}
    BY <1>1, ElementOfSeq
  <2>3. Weighs(<<NL, Deeper, INDENT, Visit(n.params[i]), Back>>, 0)
    BY <2>2, Items, WeighsFive DEF Flat
  <2>4. QED
    BY <2>3
<1> HIDE DEF items
<1>3. Weighs(FlattenSeq([i \in DOMAIN n.params |-> items[i]]), 0)
  BY <1>1, <1>2, EachWeighs
<1>4. Weighs(Optional(<<>>, n.of), 0)
  BY <1>1, WeighsNothing, OptionalWeighs
<1>5. Weighs(<<Open("declare"), NL, Deeper, INDENT, Open("function"), Word(n.name)>>, 1)
  BY Items, WeighsSix DEF Flat
<1>6. Weighs(<<Back, Close, Close>>, -1)
  BY Items, WeighsThree DEF Flat
<1>7. Weighs(<<Open("declare"), NL, Deeper, INDENT, Open("function"), Word(n.name)>> \o Optional(<<>>, n.of)
                \o FlattenSeq([i \in DOMAIN n.params |-> items[i]]) \o <<Back, Close, Close>>, 0)
  BY <1>3, <1>4, <1>5, <1>6, WeighsFourParts
<1>8. QED
  BY <1>7 DEF visit_declare, Each, items

LEMMA FunctionWeighs ==
    ASSUME NEW n \in Nodes, n.type = "FUNCTION"
    PROVE  Weighs(visit_function(n), 0)
<1>1. n.params \in Seq(Nodes \cup {Null}) /\ n.of \in Nodes \cup {Null}
  BY Members
<1>2. n.block \in Nodes \cup {Null}
  BY NodesAssumption, Zenon DEF Forest, Grown, OfType
<1>3. Weighs(<<Open("function"), Word(n.name), Deeper>>, 1)
  BY Items, WeighsThree DEF Flat
<1>4. Weighs(Optional(<<>>, n.of), 0)
  BY <1>1, WeighsNothing, OptionalWeighs
<1>5. Weighs(Lines(n.params), 0)
  BY <1>1, LinesWeigh
<1>6. Weighs(<<Back, NL, Deeper, Visit(n.block), Back, Close>>, -1)
  BY <1>2, Items, WeighsSix DEF Flat
<1>7. QED
  BY <1>3, <1>4, <1>5, <1>6, WeighsFourParts DEF visit_function

LEMMA PrintWeighs ==
    ASSUME NEW n \in Nodes, n.type = "PRINT"
    PROVE  Weighs(visit_print(n), 0)
<1>1. n.params \in Seq(Nodes \cup {Null})
  BY Members
<1>2. Weighs(<<Open("print"), Deeper>>, 1) /\ Weighs(<<Back, Close>>, -1)
  BY Items, WeighsTwo DEF Flat
<1>3. Weighs(Lines(n.params), 0)
  BY <1>1, LinesWeigh
<1>4. QED
  BY <1>2, <1>3, WeighsThreeParts DEF visit_print

LEMMA InputWeighs ==
    ASSUME NEW n \in Nodes, n.type = "INPUT"
    PROVE  Weighs(visit_input(n), 0)
<1>1. n.param \in Nodes \cup {Null}
  BY Members
<1>2. QED
  BY <1>1, Items, WeighsFive DEF visit_input, Flat

LEMMA TypeWeighs ==
    ASSUME NEW n \in Nodes, n.type = "TYPE"
    PROVE  Weighs(visit_type(n), 0)
<1>1. n.fields \in Seq(Nodes \cup {Null})
  BY Members
<1>2. Weighs(<<Open("type"), Word(n.name), Deeper>>, 1) /\ Weighs(<<Back, Close>>, -1)
  BY Items, WeighsTwo, WeighsThree DEF Flat
<1>3. Weighs(Lines(n.fields), 0)
  BY <1>1, LinesWeigh
<1>4. QED
  BY <1>2, <1>3, WeighsThreeParts DEF visit_type

LEMMA WhileWeighs ==
    ASSUME NEW n \in Nodes, n.type = "WHILE"
    PROVE  Weighs(visit_while(n), 0)
<1>1. n.expr \in Nodes \cup {Null}
  BY Members
<1>2. n.block \in Nodes \cup {Null}
  BY NodesAssumption, Zenon DEF Forest, Grown, OfType
<1>3. Weighs(<<Open("while"), Visit(n.expr)>>, 0)
  BY <1>1, Items, WeighsTwo DEF Flat
<1>4. QED
  BY <1>2, <1>3, InnerWeighs, WeighsCat DEF visit_while

LEMMA ReturnWeighs ==
    ASSUME NEW n \in Nodes, n.type = "RETURN"
    PROVE  Weighs(visit_return(n), 0)
<1> DEFINE operand == IF n.expr = Null THEN <<>> ELSE <<Deeper>> \o Line(n.expr) \o <<Back>>
<1>1. n.expr \in Nodes \cup {Null}
  BY Members
<1>2. Weighs(<<Open("return")>>, 0) /\ Weighs(<<Close>>, 0)
  BY Items, WeighsOne DEF Flat
<1>3. Weighs(<<Deeper>>, 1) /\ Weighs(<<Back>>, -1) /\ Weighs(Line(n.expr), 0)
  BY <1>1, Items, WeighsOne, LineWeighs
<1>4. Weighs(<<Deeper>> \o Line(n.expr) \o <<Back>>, 0)
  BY <1>3, WeighsThreeParts
<1>5. Weighs(operand, 0)
  BY <1>4, WeighsNothing
<1>6. visit_return(n) = <<Open("return")>> \o operand \o <<Close>>
  BY DEF visit_return
<1> HIDE DEF operand
<1>7. QED
  BY <1>2, <1>5, <1>6, WeighsThreeParts

LEMMA IfWeighs ==
    ASSUME NEW n \in Nodes, n.type = "IF"
    PROVE  Weighs(visit_if(n), 0)
<1> DEFINE elseif == Open("else if")
           items == [i \in DOMAIN n.else_ifs |-> <<NL, INDENT, elseif, Visit(n.else_ifs[i].expr)>>
                                                 \o Inner(n.else_ifs[i].block)]
           last == IF n.else_block = Null THEN <<>>
                   ELSE <<NL, INDENT, Open("else"), NL, Deeper, Visit(n.else_block), Back, Close>>
<1>1. /\ n.expr \in Nodes \cup {Null} /\ n.block \in Nodes
      /\ n.else_ifs \in Seq(OfType(Nodes, "IF")) /\ n.else_block \in Nodes \cup {Null}
  <2>1. n.expr \in Nodes \cup {Null}
    BY Members
  <2>2. Grown(Nodes, n)
    BY NodesAssumption DEF Forest
  <2>3. /\ n.block \in OfType(Nodes, "BLOCK") /\ n.else_ifs \in Seq(OfType(Nodes, "IF"))
        /\ n.else_block \in OfType(Nodes, "BLOCK") \cup {Null}
    BY <2>2, Zenon DEF Grown
  <2>4. OfType(Nodes, "BLOCK") \subseteq Nodes
    BY DEF OfType
  <2>5. QED
    BY <2>1, <2>3, <2>4
<1>2. Flat(elseif)
  BY Items
<1>3. visit_if(n) = <<Open("if"), Visit(n.expr)>> \o Inner(n.block)
                    \o FlattenSeq([i \in DOMAIN n.else_ifs |-> items[i]]) \o last
  BY DEF visit_if, Each
<1> HIDE DEF elseif
<1>4. \A i \in DOMAIN n.else_ifs : Weighs(items[i], 0)
  <2>1. TAKE i \in DOMAIN n.else_ifs
  <2>2. n.else_ifs[i] \in Nodes /\ n.else_ifs[i].type = "IF"
    BY <1>1, ElementOfSeq DEF OfType
  <2>3. n.else_ifs[i].expr \in Nodes \cup {Null} /\ n.else_ifs[i].block \in Nodes \cup {Null}
    <3>1. n.else_ifs[i].expr \in Nodes \cup {Null}
      BY <2>2, Members
    <3>2. n.else_ifs[i].block \in Nodes
      BY NodesAssumption, <2>2, Zenon DEF Forest, Grown, OfType
    <3>3. QED
      BY <3>1, <3>2
  <2>4. Weighs(<<NL, INDENT, elseif, Visit(n.else_ifs[i].expr)>>, 0)
    BY <1>2, <2>3, Items, WeighsFour DEF Flat
  <2>5. Weighs(Inner(n.else_ifs[i].block), 0)
    BY <2>3, InnerWeighs
  <2>6. QED
    BY <2>4, <2>5, WeighsCat
<1>5. Weighs(last, 0)
  <2>1. ASSUME n.else_block # Null
        PROVE  Weighs(<<NL, INDENT, Open("else"), NL, Deeper, Visit(n.else_block), Back, Close>>, 0)
    <3>1. n.else_block \in Nodes \cup {Null}
      BY <1>1
    <3>2. QED
      BY <3>1, Items, WeighsEight DEF Flat
  <2>2. QED
    BY <2>1, WeighsNothing
<1> HIDE DEF items, last
<1>6. Weighs(<<Open("if"), Visit(n.expr)>> \o Inner(n.block), 0 + 0)
  <2>1. Weighs(<<Open("if"), Visit(n.expr)>>, 0)
    <3>1. n.expr \in Nodes \cup {Null}
      BY <1>1
    <3>2. QED
      BY <3>1, Items, WeighsTwo DEF Flat
  <2>2. Weighs(Inner(n.block), 0)
    BY <1>1, InnerWeighs
  <2>3. QED
    BY <2>1, <2>2, WeighsCat
<1>7. Weighs(FlattenSeq([i \in DOMAIN n.else_ifs |-> items[i]]), 0)
  BY <1>1, <1>4, EachWeighs
<1>8. QED
  BY <1>3, <1>5, <1>6, <1>7, WeighsThreeParts

\* Every handler takes back what it adds.
LEMMA HandlerWeighs ==
    ASSUME NEW n \in Nodes
    PROVE  Weighs(Handler(n), 0)
<1>1. n.type \in Visited
  BY Members
<1>2. CASE n.type \in {"INT", "DOUBLE", "ID", "STRING", "DECL", "DIM", "UNARY_OP", "BINARY_OP"}
  BY <1>2, AtomWeighs, DeclWeighs, DimWeighs, OpWeighs DEF Handler
<1>3. CASE n.type \in {"ARRAY", "HASH", "SUBSCRIPT", "SLOT", "CALL"}
  BY <1>3, ArrayWeighs, HashWeighs, MemberWeighs, CallWeighs DEF Handler
<1>4. CASE n.type \in {"BLOCK", "SCOPE", "DECLARE", "FUNCTION", "PRINT"}
  BY <1>4, BlockWeighs, ScopeWeighs, DeclareWeighs, FunctionWeighs, PrintWeighs DEF Handler
<1>5. CASE n.type \in {"INPUT", "TYPE", "WHILE", "RETURN", "IF"}
  BY <1>5, InputWeighs, TypeWeighs, WhileWeighs, ReturnWeighs, IfWeighs DEF Handler
<1>6. QED
  BY <1>1, <1>2, <1>3, <1>4, <1>5 DEF Visited

-----------------------------------------------------------------------------
(* The invariant.                                                          *)

\* What is left to do weighs what is owed.
Owed ==
    /\ indents \in Int
    /\ pc = "idle" => todo = <<>>
    /\ pc # "dead" => Weighs(todo, 0 - indents)

\* An item done is a part of the list done.
LEMMA WeighsRest ==
    ASSUME NEW s, NEW w \in Int, Weighs(s, w), NEW n \in 1 .. Len(s)
    PROVE  \E v \in Int : /\ Weighs(SubSeq(s, 1, n), v)
                          /\ Weighs(SubSeq(s, n + 1, Len(s)), w - v)
<1> DEFINE S == ToSet(s)
           a == SubSeq(s, 1, n)
           b == SubSeq(s, n + 1, Len(s))
<1>1. s \in Seq(S) /\ Len(s) \in Nat /\ DOMAIN s = 1 .. Len(s)
  BY LenProperties DEF Weighs
<1>2. /\ a \in Seq(S) /\ Len(a) = n /\ \A i \in 1 .. n : a[i] = s[i]
      /\ b \in Seq(S) /\ Len(b) = Len(s) - n /\ \A i \in 1 .. Len(s) - n : b[i] = s[n + i]
  <2> HIDE DEF S
  <2>1. \A i \in 1 .. Len(s) : s[i] \in S
    BY <1>1, ElementOfSeq
  <2>2. a \in Seq(S) /\ Len(a) = n /\ \A i \in 1 .. n : a[i] = s[i]
    <3>1. 1 \in Int /\ n \in Int /\ \A i \in 1 .. n : s[i] \in S
      BY <1>1, <2>1
    <3>2. /\ a \in Seq(S) /\ Len(a) = IF 1 <= n THEN n - 1 + 1 ELSE 0
          /\ \A i \in 1 .. n - 1 + 1 : a[i] = s[1 + i - 1]
      BY <3>1, SubSeqProperties
    <3> HIDE DEF a
    <3>3. QED
      BY <3>2
  <2>3. b \in Seq(S) /\ Len(b) = Len(s) - n /\ \A i \in 1 .. Len(s) - n : b[i] = s[n + i]
    <3>1. n + 1 \in Int /\ Len(s) \in Int /\ \A i \in n + 1 .. Len(s) : s[i] \in S
      BY <1>1, <2>1
    <3>2. /\ b \in Seq(S) /\ Len(b) = IF n + 1 <= Len(s) THEN Len(s) - (n + 1) + 1 ELSE 0
          /\ \A i \in 1 .. Len(s) - (n + 1) + 1 : b[i] = s[n + 1 + i - 1]
      BY <3>1, SubSeqProperties
    <3> HIDE DEF b
    <3>3. n + 1 <= Len(s) \/ Len(s) = n
      <4> DEFINE k == Len(s)
      <4>1. n \in Nat /\ k \in Nat /\ n <= k
        BY <1>1
      <4> HIDE DEF k
      <4>2. n + 1 <= k \/ k = n
        BY <4>1
      <4>3. QED
        BY <4>2 DEF k
    <3>4. Len(b) = Len(s) - n
      <4>1. Len(b) = IF n + 1 <= Len(s) THEN Len(s) - (n + 1) + 1 ELSE 0
        BY <3>2
      <4>2. Len(s) \in Nat /\ n \in Nat
        BY <1>1
      <4>3. QED
        BY <3>3, <4>1, <4>2
    <3>5. \A i \in 1 .. Len(s) - n : i \in 1 .. Len(s) - (n + 1) + 1 /\ n + 1 + i - 1 = n + i
      BY <1>1
    <3>6. QED
      BY <3>2, <3>4, <3>5
  <2>4. QED
    BY <2>2, <2>3
<1>3. s = a \o b
  <2> HIDE DEF S, a, b
  <2>1. Len(s) = Len(a) + Len(b)
    BY <1>1, <1>2
  <2>2. (\A i \in 1 .. Len(a) : s[i] = a[i]) /\ \A i \in 1 .. Len(b) : s[Len(a) + i] = b[i]
    BY <1>2
  <2>3. QED
    BY <1>1, <1>2, <2>1, <2>2, Joined, Zenon
<1>4. \A x : /\ Occurs(s, x) = Occurs(a, x) + Occurs(b, x)
             /\ Occurs(a, x) \in Nat /\ Occurs(b, x) \in Nat
  <2> HIDE DEF S, a, b
  <2>1. \A x : Occurs(a \o b, x) = Occurs(a, x) + Occurs(b, x)
    BY <1>2, CountCat
  <2>2. \A x : Occurs(a, x) \in Nat /\ Occurs(b, x) \in Nat
    BY <1>2, CountType
  <2>3. QED
    BY <1>3, <2>1, <2>2
<1>5. (\A i \in DOMAIN a : Item(a[i])) /\ \A i \in DOMAIN b : Item(b[i])
  <2>1. DOMAIN a = 1 .. n /\ DOMAIN b = 1 .. Len(s) - n
    <3> HIDE DEF S, a, b
    <3>1. QED
      BY <1>2, LenProperties
  <2>2. \A i \in DOMAIN s : Item(s[i])
    BY DEF Weighs
  <2> HIDE DEF S, a, b
  <2>3. \A i \in DOMAIN a : i \in DOMAIN s /\ a[i] = s[i]
    BY <1>1, <1>2, <2>1
  <2>4. \A i \in DOMAIN b : n + i \in DOMAIN s /\ b[i] = s[n + i]
    <3>1. \A i \in 1 .. Len(s) - n : n + i \in 1 .. Len(s)
      BY <1>1
    <3>2. QED
      BY <1>1, <1>2, <2>1, <3>1
  <2>5. QED
    BY <2>2, <2>3, <2>4
<1> DEFINE v == Occurs(a, Deeper) - Occurs(a, Back)
<1>6. Occurs(s, Deeper) - Occurs(s, Back) = w
  BY DEF Weighs
<1>7. v \in Int /\ Occurs(b, Deeper) - Occurs(b, Back) = w - v
  BY <1>4, <1>6
<1> HIDE DEF S, a, b
<1>8. Weighs(a, v) /\ Weighs(b, w - v)
  BY <1>2, <1>5, <1>7, OwnElements DEF Weighs
<1>9. QED
  BY <1>7, <1>8 DEF a, b

\* The first item, and what comes behind it.
LEMMA WeighsTail ==
    ASSUME NEW s, NEW w \in Int, Weighs(s, w), s # <<>>
    PROVE  Item(Head(s)) /\ Weighs(<<>> \o Tail(s), w - Weight(Head(s)))
<1> DEFINE S == ToSet(s)
<1>1. s \in Seq(S) /\ Len(s) \in Nat /\ DOMAIN s = 1 .. Len(s) /\ Len(s) # 0 /\ 1 \in 1 .. Len(s)
  <2> HIDE DEF S
  <2>1. s \in Seq(S)
    BY DEF Weighs, S
  <2>2. QED
    BY <2>1, LenProperties, EmptySeq
<1>2. PICK v \in Int : /\ Weighs(SubSeq(s, 1, 1), v)
                       /\ Weighs(SubSeq(s, 1 + 1, Len(s)), w - v)
  BY <1>1, WeighsRest
<1>3. Item(Head(s)) /\ SubSeq(s, 1, 1) = <<Head(s)>> /\ SubSeq(s, 2, Len(s)) = Tail(s)
  <2> HIDE DEF S
  <2>1. Item(Head(s))
    BY <1>1 DEF Weighs
  <2>2. SubSeq(s, 1, 1) = <<Head(s)>>
    <3>1. SubSeq(s, 1, 1) = <<s[1]>> \o SubSeq(s, 1 + 1, 1)
      BY <1>1, SubSeqRecursiveFirst
    <3>2. SubSeq(s, 1 + 1, 1) = <<>>
      BY SubSeqEmpty
    <3>3. <<s[1]>> \o <<>> = <<s[1]>>
      OBVIOUS
    <3>4. Head(s) = s[1]
      BY <1>1
    <3>5. QED
      BY <3>1, <3>2, <3>3, <3>4
  <2>3. SubSeq(s, 2, Len(s)) = Tail(s)
    BY <1>1, TailIsSubSeq, EmptySeq
  <2>4. QED
    BY <2>1, <2>2, <2>3
<1>4. Weighs(<<Head(s)>>, Weight(Head(s)))
  BY <1>3, WeighsOne
<1>5. v = Weight(Head(s))
  BY <1>2, <1>3, <1>4 DEF Weighs
<1>6. <<>> \o Tail(s) = Tail(s)
  <2> HIDE DEF S
  <2>1. Tail(s) \in Seq(S)
    BY <1>1, EmptySeq, HeadTailProperties
  <2>2. QED
    BY <2>1
<1>7. 1 + 1 = 2
  OBVIOUS
<1>8. Weighs(Tail(s), w - v)
  BY <1>2, <1>3, <1>7
<1>9. QED
  BY <1>3, <1>5, <1>6, <1>8

LEMMA StepOwed ==
    ASSUME Owed, Next
    PROVE  Owed'
<1>1. /\ Weighs(todo, 0 - indents) /\ indents \in Int /\ 0 - indents \in Int
      /\ pc \in {"idle", "printing"}
  BY DEF Owed, Next, Step, ifj17_prettyprint, Start, PrintPieces, PrintIndent, PrintGap, Count,
         VisitNode, VisitNull, End, Doing
<1>2. ASSUME NEW n \in Trees, Start(n) PROVE Owed'
  <2>1. todo = <<>> /\ todo' = <<Visit(n)>> /\ indents' = indents /\ pc' = "printing"
    BY <1>2 DEF Start, Owed
  <2>2. 0 - indents = 0
    BY <1>1, <2>1, WeighsNothing DEF Weighs
  <2>3. Weighs(<<Visit(n)>>, 0)
    BY TreesAssumption, Items, WeighsOne DEF Flat
  <2>4. QED
    BY <1>1, <2>1, <2>2, <2>3 DEF Owed
<1>3. CASE PrintPieces
  <2>1. PICK n \in 1 .. Len(todo) : /\ \A i \in 1 .. n : todo[i].k \in Pieces
                                    /\ todo' = SubSeq(todo, n + 1, Len(todo))
    BY <1>3 DEF PrintPieces
  <2> DEFINE a == SubSeq(todo, 1, n)
  <2>2. PICK v \in Int : Weighs(a, v) /\ Weighs(todo', 0 - indents - v)
    BY <1>1, <2>1, WeighsRest
  <2>3. \A i \in DOMAIN a : a[i] # Deeper /\ a[i] # Back
    <3>1. /\ todo \in Seq(ToSet(todo)) /\ Len(todo) \in Nat /\ n \in Nat /\ n <= Len(todo)
      BY <1>1, LenProperties DEF Weighs
    <3>2. DOMAIN a = 1 .. n /\ \A i \in 1 .. n : a[i] = todo[i]
      BY <3>1
    <3>3. QED
      BY <2>1, <3>2 DEF Deeper, Back, Pieces
  <2>4. {i \in DOMAIN a : a[i] = Deeper} = {} /\ {i \in DOMAIN a : a[i] = Back} = {}
    BY <2>3
  <2>5. Occurs(a, Deeper) = 0 /\ Occurs(a, Back) = 0
    BY <2>4, FS_EmptySet, Zenon DEF Occurs
  <2>6. v = 0
    BY <2>2, <2>5 DEF Weighs
  <2>7. QED
    BY <1>1, <1>3, <2>2, <2>6 DEF Owed, PrintPieces
<1>4. CASE PrintIndent \/ PrintGap \/ Count \/ VisitNode
  <2>1. pc = "printing" /\ pc' = pc /\ todo # <<>>
    BY <1>4 DEF PrintIndent, PrintGap, Count, VisitNode, Doing
  <2>2. Item(Head(todo)) /\ Weighs(<<>> \o Tail(todo), 0 - indents - Weight(Head(todo)))
    BY <1>1, <2>1, WeighsTail
  <2>3. CASE PrintIndent \/ PrintGap
    <3>1. Weight(Head(todo)) = 0 /\ todo' = <<>> \o Tail(todo) /\ indents' = indents
      BY <2>3 DEF PrintIndent, PrintGap, Doing, Do, Weight, Deeper, Back
    <3>2. QED
      BY <1>1, <2>1, <2>2, <3>1 DEF Owed
  <2>4. CASE Count
    <3>1. Head(todo) \in {Deeper, Back} /\ todo' = <<>> \o Tail(todo)
      BY <2>2, <2>4 DEF Count, Doing, Do, Item
    <3>2. Head(todo).n = Weight(Head(todo)) /\ Weight(Head(todo)) \in Int
      BY <3>1 DEF Weight, Deeper, Back
    <3>3. indents' \in Int /\ 0 - indents' = 0 - indents - Weight(Head(todo))
      BY <1>1, <2>4, <3>2 DEF Count
    <3>4. QED
      BY <2>1, <2>2, <3>1, <3>3 DEF Owed
  <2>5. CASE VisitNode
    <3>1. Head(todo).k = "visit" /\ Head(todo).node \in Nodes /\ indents' = indents
          /\ todo' = Handler(Head(todo).node) \o Tail(todo)
      BY <2>2, <2>5 DEF VisitNode, Doing, Do, Item
    <3>2. Weight(Head(todo)) = 0
      BY <3>1 DEF Weight, Deeper, Back
    <3>3. Weighs(Handler(Head(todo).node), 0)
      BY <3>1, HandlerWeighs
    <3>4. <<>> \o Tail(todo) = Tail(todo)
      <4>1. todo \in Seq(ToSet(todo))
        BY <1>1 DEF Weighs
      <4>2. Tail(todo) \in Seq(ToSet(todo))
        BY <2>1, <4>1, HeadTailProperties
      <4>3. QED
        BY <4>2
    <3>5. Weighs(todo', 0 + (0 - indents))
      <4>1. Weighs(Tail(todo), 0 - indents)
        BY <1>1, <2>2, <3>2, <3>4
      <4>2. QED
        BY <1>1, <3>1, <3>3, <4>1, WeighsCat
    <3>6. QED
      BY <1>1, <2>1, <3>1, <3>5 DEF Owed
  <2>6. QED
    BY <1>4, <2>3, <2>4, <2>5
<1>5. CASE VisitNull
  BY <1>1, <1>5 DEF Owed, VisitNull
<1>6. CASE End
  BY <1>1, <1>6 DEF Owed, End
<1>7. QED
  BY <1>2, <1>3, <1>4, <1>5, <1>6 DEF Next, Step, ifj17_prettyprint

\* In every state of every behaviour.
LEMMA OwedAlways == Spec => []Owed
<1>1. Init => Owed
  <2>1. SUFFICES ASSUME Init PROVE Owed
    OBVIOUS
  <2>2. todo = <<>> /\ indents = 0 /\ 0 - indents = 0
    BY <2>1 DEF Init
  <2>3. Weighs(<<>>, 0)
    BY WeighsNothing
  <2>4. QED
    BY <2>2, <2>3 DEF Owed
<1>2. Owed /\ [Next]_vars => Owed'
  <2>1. SUFFICES ASSUME Owed, [Next]_vars PROVE Owed'
    OBVIOUS
  <2>2. CASE Next
    BY <2>1, <2>2, StepOwed
  <2>3. CASE UNCHANGED vars
    BY <2>1, <2>3 DEF Owed, vars
  <2>4. QED
    BY <2>1, <2>2, <2>3
<1>3. QED
  BY <1>1, <1>2, PTL DEF Spec

\* Whatever trees it is given, however deep and however long their lists: what
\* the handlers on the stack have still to add to `indents' and to take from it
\* brings it back to 0.
THEOREM DepthIsOwed == Spec => []IndentsOwed
<1>1. Owed => IndentsOwed
  <2>1. SUFFICES ASSUME Owed, pc # "dead"
                 PROVE  indents + Occurs(todo, Deeper) = Occurs(todo, Back)
    BY DEF IndentsOwed, Occurs
  <2>2. /\ indents \in Int /\ todo \in Seq(ToSet(todo))
        /\ Occurs(todo, Deeper) - Occurs(todo, Back) = 0 - indents
    BY <2>1 DEF Owed, Weighs
  <2>3. Occurs(todo, Deeper) \in Nat /\ Occurs(todo, Back) \in Nat
    BY <2>2, CountType
  <2>4. QED
    BY <2>2, <2>3
<1>2. QED
  BY <1>1, OwedAlways, PTL
=============================================================================
