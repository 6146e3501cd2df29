----------------------------- MODULE Induction ------------------------------
(***************************************************************************)
(* Induction without operator parameters.  The induction theorems of the   *)
(* library are about a predicate P(_), which the provers cannot            *)
(* instantiate; here the predicate is a set.  That finite sets are well    *)
(* founded under inclusion is a theorem of the library about sets, and the *)
(* intervals 1 .. n bring it to the naturals.                              *)
(***************************************************************************)
EXTENDS Integers, SequencesExt, FiniteSetTheorems, FunctionTheorems, SequenceTheorems,
        WellFoundedInduction, TLAPS

\* A set of naturals that is not empty has a least element.
LEMMA Least ==
    ASSUME NEW T, T \subseteq Nat, T # {}
    PROVE  \E n \in T : \A m \in T : n <= m
<1> DEFINE U == {1 .. n : n \in T}
<1>1. U \subseteq FiniteSubsetsOf(Nat) /\ U # {}
  <2>1. \A n \in T : IsFiniteSet(1 .. n) /\ 1 .. n \in SUBSET Nat
    BY FS_Interval
  <2>2. QED
    BY <2>1 DEF FiniteSubsetsOf
<1>2. PICK X \in U : \A Y \in U : ~(<<Y, X>> \in StrictSubsetOrdering(Nat))
  <2> HIDE DEF U
  <2>1. QED
    BY <1>1, WFMin, FS_StrictSubsetOrderingWellFounded, Zenon
<1>3. PICK n \in T : X = 1 .. n
  BY <1>2
<1>4. ASSUME NEW m \in T, m < n PROVE FALSE
  <2>1. 1 .. m \in U /\ 1 .. m \in SUBSET Nat /\ 1 .. n \in SUBSET Nat
    OBVIOUS
  <2>2. 1 .. m \subseteq 1 .. n /\ n \in 1 .. n /\ n \notin 1 .. m
    BY <1>4
  <2>3. <<1 .. m, 1 .. n>> \in StrictSubsetOrdering(Nat)
    BY <2>1, <2>2 DEF StrictSubsetOrdering
  <2>4. QED
    BY <1>2, <1>3, <2>1, <2>3
<1>5. QED
  BY <1>3, <1>4

\* Induction on the numbers from 0 to n: S holds them if it holds 0 and goes up.
LEMMA UpTo ==
    ASSUME NEW n \in Nat, NEW S, 0 \in S, \A i \in 1 .. n : i - 1 \in S => i \in S
    PROVE  0 .. n \subseteq S
<1> DEFINE T == (0 .. n) \ S
<1>1. SUFFICES ASSUME T # {} PROVE FALSE
  OBVIOUS
<1>2. PICK i \in T : \A j \in T : i <= j
  <2>1. T \subseteq Nat
    OBVIOUS
  <2> HIDE DEF T
  <2>2. QED
    BY <1>1, <2>1, Least
<1>3. i \in 1 .. n /\ i - 1 \in 0 .. n /\ i - 1 \notin T
  BY <1>2
<1>4. QED
  BY <1>2, <1>3

\* The value of f at 0 is z, and at each number i what G makes of the one before.
Rises(f, n, V, z, G) ==
    f \in [0 .. n -> V] /\ f[0] = z /\ \A i \in 1 .. n : f[i] = G[i][f[i - 1]]

\* A function whose value at each number is made of the one before exists.
LEMMA Recursion ==
    ASSUME NEW n \in Nat, NEW V, NEW z \in V, NEW G,
           \A i \in 1 .. n : \A v \in V : G[i][v] \in V
    PROVE  \E f : Rises(f, n, V, z, G)
<1> DEFINE Rec(f, k) == f \in [0 .. k -> V] /\ f[0] = z /\ \A i \in 1 .. k : f[i] = G[i][f[i - 1]]
           S == {k \in Nat : \E f : Rec(f, k)}
<1>1. 0 \in S
  <2>1. Rec([i \in 0 .. 0 |-> z], 0)
    OBVIOUS
  <2>2. QED
    BY <2>1
<1>2. ASSUME NEW k \in 1 .. n, k - 1 \in S PROVE k \in S
  <2>1. PICK f : Rec(f, k - 1)
    BY <1>2
  <2>2. k - 1 \in 0 .. k - 1 /\ k \in 1 .. n
    OBVIOUS
  <2>3. f[k - 1] \in V
    BY <2>1, <2>2
  <2>4. G[k][f[k - 1]] \in V
    BY <2>2, <2>3
  <2> DEFINE g == [i \in 0 .. k |-> IF i = k THEN G[k][f[k - 1]] ELSE f[i]]
  <2>5. g \in [0 .. k -> V]
    <3>1. \A i \in 0 .. k : i = k \/ i \in 0 .. k - 1
      OBVIOUS
    <3>2. \A i \in 0 .. k - 1 : f[i] \in V
      BY <2>1
    <3>3. QED
      BY <2>4, <3>1, <3>2
  <2>6. g[0] = z
    BY <2>1
  <2>7. ASSUME NEW i \in 1 .. k PROVE g[i] = G[i][g[i - 1]]
    <3>1. i - 1 \in 0 .. k /\ i - 1 # k /\ i \in 0 .. k
      OBVIOUS
    <3>2. g[i - 1] = f[i - 1]
      BY <3>1
    <3>3. CASE i = k
      BY <3>1, <3>2, <3>3
    <3>4. CASE i # k
      <4>1. i \in 1 .. k - 1
        BY <3>4
      <4>2. g[i] = f[i] /\ f[i] = G[i][f[i - 1]]
        BY <2>1, <3>1, <3>4, <4>1
      <4>3. QED
        BY <3>2, <4>2
    <3>5. QED
      BY <3>3, <3>4
  <2>8. Rec(g, k)
    BY <2>5, <2>6, <2>7
  <2> HIDE DEF g
  <2>9. QED
    BY <2>8
<1>3. n \in S
  <2> HIDE DEF S
  <2>1. 0 .. n \subseteq S
    BY <1>1, <1>2, UpTo
  <2>2. QED
    BY <2>1
<1>4. QED
  BY <1>3 DEF Rises

-----------------------------------------------------------------------------
(* Sequences.                                                              *)

\* A sequence that is one sequence and then another.
LEMMA Joined ==
    ASSUME NEW S, NEW s \in Seq(S), NEW t \in Seq(S), NEW u \in Seq(S), Len(u) = Len(s) + Len(t),
           \A i \in 1 .. Len(s) : u[i] = s[i], \A i \in 1 .. Len(t) : u[Len(s) + i] = t[i]
    PROVE  u = s \o t
<1> DEFINE c == s \o t
<1>1. /\ c \in Seq(S) /\ Len(c) = Len(s) + Len(t) /\ Len(s) \in Nat /\ Len(t) \in Nat
      /\ \A i \in 1 .. Len(s) + Len(t) : c[i] = IF i <= Len(s) THEN s[i] ELSE t[i - Len(s)]
  BY ConcatProperties, LenProperties, Zenon
<1> HIDE DEF c
<1>2. \A i \in 1 .. Len(u) : u[i] = c[i]
  <2>1. TAKE i \in 1 .. Len(u)
  <2>2. CASE i <= Len(s)
    BY <1>1, <2>2
  <2>3. CASE i > Len(s)
    <3>1. i - Len(s) \in 1 .. Len(t) /\ i = Len(s) + (i - Len(s))
      BY <1>1, <2>3
    <3>2. u[i] = t[i - Len(s)]
      BY <3>1
    <3>3. QED
      BY <1>1, <2>3, <3>2
  <2>4. QED
    BY <1>1, <2>2, <2>3
<1>3. u = c
  BY <1>1, <1>2, SeqEqual, Zenon
<1>4. QED
  BY <1>3 DEF c

-----------------------------------------------------------------------------
(* FlattenSeq.                                                             *)

\* The recursive function in FlattenSeq exists.
LEMMA FlattenSteps ==
    ASSUME NEW seqs, NEW n \in Nat, n > 0, Len(seqs) = n
    PROVE  \E f : /\ FlattenSeq(seqs) = f[n]
                  /\ \A i \in 1 .. n : f[i] = IF i = 1 THEN seqs[i] ELSE f[i - 1] \o seqs[i]
<1> DEFINE Def(f, k) == f = [i \in 1 .. k |-> IF i = 1 THEN seqs[i] ELSE f[i - 1] \o seqs[i]]
           S == {k \in Nat : \E f : Def(f, k)}
<1>1. 0 \in S
  <2>1. Def(<<>>, 0)
    OBVIOUS
  <2>2. QED
    BY <2>1
<1>2. ASSUME NEW k \in 1 .. n, k - 1 \in S PROVE k \in S
  <2>1. PICK f : Def(f, k - 1)
    BY <1>2
  <2> DEFINE g == [i \in 1 .. k |-> IF i = 1 THEN seqs[i] ELSE f[i - 1] \o seqs[i]]
  <2>2. \A i \in 1 .. k - 1 : f[i] = IF i = 1 THEN seqs[i] ELSE f[i - 1] \o seqs[i]
    BY <2>1
  <2>3. \A i \in 1 .. k : i # 1 => i - 1 \in 1 .. k - 1 /\ g[i - 1] = f[i - 1]
    BY <2>2
  <2>4. g = [i \in 1 .. k |-> IF i = 1 THEN seqs[i] ELSE g[i - 1] \o seqs[i]]
    BY <2>3
  <2>5. \E h : Def(h, k)
    <3> HIDE DEF g
    <3>1. QED
      BY <2>4
  <2>6. k \in Nat
    OBVIOUS
  <2>7. QED
    BY <2>5, <2>6
<1>3. n \in S
  <2> HIDE DEF S
  <2>1. 0 .. n \subseteq S
    BY <1>1, <1>2, UpTo
  <2>2. QED
    BY <2>1
<1>4. Def(CHOOSE f : Def(f, n), n)
  BY <1>3
<1> DEFINE F == CHOOSE f : Def(f, n)
<1>5. FlattenSeq(seqs) = F[n]
  BY DEF FlattenSeq
<1>6. \A i \in 1 .. n : F[i] = IF i = 1 THEN seqs[i] ELSE F[i - 1] \o seqs[i]
  <2> HIDE DEF F
  <2>1. F = [i \in 1 .. n |-> IF i = 1 THEN seqs[i] ELSE F[i - 1] \o seqs[i]]
    BY <1>4 DEF F
  <2>2. QED
    BY <2>1
<1>7. QED
  BY <1>5, <1>6

\* A set of sequences that is closed under concatenation holds what its members
\* make when they are put one after the other.
LEMMA FlattenClosed ==
    ASSUME NEW P, <<>> \in P, \A s, t \in P : s \o t \in P, NEW seqs \in Seq(P)
    PROVE  FlattenSeq(seqs) \in P
<1>1. Len(seqs) \in Nat /\ \A i \in 1 .. Len(seqs) : seqs[i] \in P
  OBVIOUS
<1>2. CASE Len(seqs) = 0
  <2>1. FlattenSeq(seqs) = seqs
    BY <1>2 DEF FlattenSeq
  <2>2. QED
    BY <1>2, <2>1
<1>3. CASE Len(seqs) # 0
  <2> DEFINE n == Len(seqs)
  <2>1. n \in Nat /\ n > 0
    BY <1>1, <1>3
  <2>2. PICK f : /\ FlattenSeq(seqs) = f[n]
                 /\ \A i \in 1 .. n : f[i] = IF i = 1 THEN seqs[i] ELSE f[i - 1] \o seqs[i]
    <3> HIDE DEF n
    <3>1. Len(seqs) = n
      BY DEF n
    <3>2. QED
      BY <2>1, <3>1, FlattenSteps
  <2> DEFINE S == {i \in Nat : i = 0 \/ f[i] \in P}
  <2> HIDE DEF n
  <2>3. 0 \in S
    OBVIOUS
  <2>4. ASSUME NEW i \in 1 .. n, i - 1 \in S PROVE i \in S
    <3>1. seqs[i] \in P /\ i \in Nat
      BY <1>1, <2>1 DEF n
    <3>2. CASE i = 1
      BY <2>2, <3>1, <3>2
    <3>3. CASE i # 1
      <4>1. i - 1 # 0 /\ f[i - 1] \in P
        BY <2>4, <3>1, <3>3
      <4>2. f[i] = f[i - 1] \o seqs[i]
        BY <2>2, <3>3
      <4>3. f[i] \in P
        BY <3>1, <4>1, <4>2
      <4>4. QED
        BY <3>1, <4>3
    <3>4. QED
      BY <3>2, <3>3
  <2>5. 0 .. n \subseteq S
    <3> HIDE DEF S
    <3>1. QED
      BY <2>1, <2>3, <2>4, UpTo
  <2>6. QED
    BY <2>1, <2>2, <2>5
<1>4. QED
  BY <1>2, <1>3
=============================================================================
