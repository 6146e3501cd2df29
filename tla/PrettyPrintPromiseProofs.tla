---------------------- MODULE PrettyPrintPromiseProofs ----------------------
(***************************************************************************)
(* The printer implements Writer, for every forest the parser can build:   *)
(* what the handlers leave on `todo' prints, at the depth they leave in    *)
(* `indents', exactly what is missing of the page that SExpr gives the     *)
(* tree as a function of the tree alone.                                   *)
(***************************************************************************)
EXTENDS PrettyPrintProofs

IsSeq(s) == s \in Seq(ToSet(s))

\* Two sequences, one behind the other, are a sequence.
LEMMA CatIsSeq ==
    ASSUME NEW s, NEW t, IsSeq(s), IsSeq(t)
    PROVE  IsSeq(s \o t)
<1> DEFINE S == ToSet(s) \cup ToSet(t)
<1>1. s \in Seq(S) /\ t \in Seq(S)
  BY SeqMonotonic DEF IsSeq
<1> HIDE DEF S
<1>2. s \o t \in Seq(S)
  BY <1>1, ConcatProperties
<1>3. QED
  BY <1>2, OwnElements DEF IsSeq

\* Sequences may be joined in any order of joining.
LEMMA CatAgain ==
    ASSUME NEW s, NEW t, NEW u, IsSeq(s), IsSeq(t), IsSeq(u)
    PROVE  (s \o t) \o u = s \o (t \o u)
<1> DEFINE S == ToSet(s) \cup ToSet(t) \cup ToSet(u)
<1>1. s \in Seq(S) /\ t \in Seq(S) /\ u \in Seq(S)
  BY SeqMonotonic DEF IsSeq
<1> HIDE DEF S
<1>2. QED
  BY <1>1, ConcatAssociative

\* Nothing is added by an empty sequence.
LEMMA CatNothing ==
    ASSUME NEW s, IsSeq(s)
    PROVE  s \o <<>> = s /\ <<>> \o s = s
BY ConcatEmptySeq DEF IsSeq

\* Lists of a few elements are sequences.
LEMMA ShortSeqs ==
    ASSUME NEW a, NEW b, NEW c
    PROVE  IsSeq(<<>>) /\ IsSeq(<<a>>) /\ IsSeq(<<a, b>>) /\ IsSeq(<<a, b, c>>)
<1>1. /\ <<>> \in Seq({a}) /\ <<a>> \in Seq({a}) /\ <<a, b>> \in Seq({a, b})
      /\ <<a, b, c>> \in Seq({a, b, c})
  OBVIOUS
<1>2. \A S : \A s \in Seq(S) : IsSeq(s)
  BY OwnElements DEF IsSeq
<1>3. QED
  BY <1>1, <1>2, Zenon

\* A list that is longer by one.
LEMMA LongerTwo ==
    ASSUME NEW a, NEW b
    PROVE  <<a, b>> = <<a>> \o <<b>>
<1> DEFINE S == {a, b}
           u == <<a, b>>
           s == <<a>>
           t == <<b>>
<1>1. u \in Seq(S) /\ s \in Seq(S) /\ t \in Seq(S)
  OBVIOUS
<1>2. /\ Len(u) = 2 /\ Len(s) = 1 /\ Len(t) = 1 /\ Len(u) = Len(s) + Len(t)
      /\ u[1] = a /\ u[2] = b /\ s[1] = a /\ t[1] = b
  OBVIOUS
<1> HIDE DEF u, s, t, S
<1>3. (\A k \in 1 .. Len(s) : u[k] = s[k]) /\ \A k \in 1 .. Len(t) : u[Len(s) + k] = t[k]
  BY <1>2
<1>4. u = s \o t
  BY <1>1, <1>2, <1>3, Joined, Zenon
<1>5. QED
  BY <1>4 DEF u, s, t

\* The same with three elements,
LEMMA LongerThree ==
    ASSUME NEW a, NEW b, NEW c
    PROVE  <<a, b, c>> = <<a, b>> \o <<c>>
<1>1. <<a, b, c>> \in Seq({a, b, c}) /\ <<a, b>> \in Seq({a, b, c}) /\ <<c>> \in Seq({a, b, c})
  OBVIOUS
<1>2. QED
  BY <1>1, Joined

\* with four,
LEMMA LongerFour ==
    ASSUME NEW a, NEW b, NEW c, NEW d
    PROVE  <<a, b, c, d>> = <<a, b, c>> \o <<d>>
<1>1. <<a, b, c, d>> \in Seq({a, b, c, d}) /\ <<a, b, c>> \in Seq({a, b, c, d}) /\ <<d>> \in Seq({a, b, c, d})
  OBVIOUS
<1>2. QED
  BY <1>1, Joined

\* and with five.
LEMMA LongerFive ==
    ASSUME NEW a, NEW b, NEW c, NEW d, NEW e
    PROVE  <<a, b, c, d, e>> = <<a, b, c, d>> \o <<e>>
<1>1. /\ <<a, b, c, d, e>> \in Seq({a, b, c, d, e}) /\ <<a, b, c, d>> \in Seq({a, b, c, d, e})
      /\ <<e>> \in Seq({a, b, c, d, e})
  OBVIOUS
<1>2. QED
  BY <1>1, Joined

\* What an item prints at depth d.
Said(x, d) ==
    IF x.k \in Pieces THEN <<x>>
    ELSE IF x.k = "indent" THEN Pads(d)
    ELSE IF x.k = "gap" THEN (IF d = 0 THEN <<NL>> ELSE <<>>)
    ELSE IF x.k = "visit" THEN At(pageOf, x.node, d)
    ELSE <<>>

\* rest[i] is what the items of s from the i-th on print, and depth[i] is where.
Told(s, depth, rest) ==
    \A i \in 1 .. Len(s) :
        /\ IsSeq(Said(s[i], depth[i]))
        /\ rest[i] = Said(s[i], depth[i]) \o rest[i + 1]
        /\ depth[i + 1] = depth[i] + Weight(s[i])

\* The items of s, begun at depth d, print t and end at depth e.
Says(s, d, t, e) ==
    /\ IsSeq(s)
    /\ \E depth, rest :
         /\ Told(s, depth, rest)
         /\ \A i \in 1 .. Len(s) + 1 : depth[i] \in Int /\ IsSeq(rest[i])
         /\ depth[1] = d /\ rest[1] = t
         /\ depth[Len(s) + 1] = e /\ rest[Len(s) + 1] = <<>>

\* What is said of a list of items is said of sequences and depths.
LEMMA SaysTypes ==
    ASSUME NEW s, NEW d, NEW t, NEW e, Says(s, d, t, e)
    PROVE  d \in Int /\ e \in Int /\ IsSeq(s) /\ IsSeq(t)
<1>1. Len(s) \in Nat
  BY DEF Says, IsSeq
<1>2. 1 \in 1 .. Len(s) + 1 /\ Len(s) + 1 \in 1 .. Len(s) + 1
  BY <1>1
<1>3. QED
  BY <1>2 DEF Says

\* No item prints nothing.
LEMMA SaysNothing ==
    ASSUME NEW d \in Int
    PROVE  Says(<<>>, d, <<>>, d)
<1> DEFINE depth == [i \in {1} |-> d]
           rest  == [i \in {1} |-> <<>>]
<1>1. Told(<<>>, depth, rest)
  BY DEF Told
<1>2. \A i \in 1 .. 1 : depth[i] \in Int /\ IsSeq(rest[i])
  <2>1. IsSeq(<<>>)
    BY ShortSeqs, Zenon
  <2>2. \A i \in 1 .. 1 : i = 1
    OBVIOUS
  <2>3. QED
    BY <2>1, <2>2
<1>3. depth[1] = d /\ rest[1] = <<>>
  OBVIOUS
<1>4. IsSeq(<<>>) /\ Len(<<>>) = 0
  BY ShortSeqs
<1>5. Len(<<>>) + 1 = 1
  BY <1>4
<1> HIDE DEF depth, rest
<1>6. QED
  BY <1>1, <1>2, <1>3, <1>4, <1>5, Zenon DEF Says

\* One item prints what is Said of it.
LEMMA SaysOne ==
    ASSUME NEW x, NEW d \in Int, IsSeq(Said(x, d))
    PROVE  Says(<<x>>, d, Said(x, d), d + Weight(x))
<1> DEFINE u     == Said(x, d)
           v     == Weight(x)
           s     == <<x>>
           depth == [i \in 1 .. 2 |-> IF i = 1 THEN d ELSE d + v]
           rest  == [i \in 1 .. 2 |-> IF i = 1 THEN u ELSE <<>>]
<1>1. v \in Int
  BY DEF Weight
<1>2. /\ depth[1] = d /\ rest[1] = u /\ depth[1 + 1] = d + v /\ rest[1 + 1] = <<>>
  OBVIOUS
<1>3. Len(s) = 1 /\ s[1] = x /\ Len(s) + 1 = 1 + 1
  OBVIOUS
<1>4. u = u \o <<>> /\ IsSeq(u) /\ IsSeq(s) /\ IsSeq(<<>>)
  BY CatNothing, ShortSeqs
<1> HIDE DEF s, depth, rest
<1>5. Told(s, depth, rest)
  <2>1. \A i \in 1 .. Len(s) : i = 1
    BY <1>3
  <2>2. QED
    BY <1>2, <1>3, <1>4, <2>1 DEF Told
<1>6. \A i \in 1 .. Len(s) + 1 : depth[i] \in Int /\ IsSeq(rest[i])
  <2>1. \A i \in 1 .. Len(s) + 1 : i = 1 \/ i = 1 + 1
    BY <1>3
  <2>2. d + v \in Int
    BY <1>1
  <2>3. QED
    BY <1>2, <1>4, <2>1, <2>2, Zenon
<1>7. Says(s, d, u, d + v)
  BY <1>2, <1>3, <1>4, <1>5, <1>6, Zenon DEF Says
<1>8. QED
  BY <1>7 DEF s

\* A list behind another prints its part behind that of the other.
LEMMA SaysCat ==
    ASSUME NEW s, NEW t, NEW u, NEW v, NEW d, NEW e, NEW f, Says(s, d, u, e), Says(t, e, v, f)
    PROVE  Says(s \o t, d, u \o v, f)
<1> DEFINE n == Len(s)
           m == Len(t)
           c == s \o t
<1>1. IsSeq(s) /\ IsSeq(t) /\ IsSeq(u) /\ IsSeq(v) /\ IsSeq(c) /\ n \in Nat /\ m \in Nat
  <2>1. IsSeq(s) /\ IsSeq(t) /\ IsSeq(u) /\ IsSeq(v) 
    BY SaysTypes
  <2>2. QED
    BY <2>1, CatIsSeq DEF IsSeq
<1>2. /\ Len(c) = n + m /\ \A i \in 1 .. n : c[i] = s[i]
      /\ \A i \in n + 1 .. n + m : c[i] = t[i - n]
  <2> DEFINE S == ToSet(s) \cup ToSet(t)
  <2>1. s \in Seq(S) /\ t \in Seq(S)
    BY <1>1, SeqMonotonic DEF IsSeq
  <2> HIDE DEF S
  <2>2. /\ Len(c) = n + m
        /\ \A i \in 1 .. n + m : c[i] = IF i <= n THEN s[i] ELSE t[i - n]
    BY <2>1, ConcatProperties
  <2>3. QED
    BY <1>1, <2>2
<1>3. PICK dA, rA : /\ Told(s, dA, rA)
                    /\ \A i \in 1 .. n + 1 : dA[i] \in Int /\ IsSeq(rA[i])
                    /\ dA[1] = d /\ rA[1] = u /\ dA[n + 1] = e /\ rA[n + 1] = <<>>
  BY DEF Says
<1>4. PICK dB, rB : /\ Told(t, dB, rB)
                    /\ \A i \in 1 .. m + 1 : dB[i] \in Int /\ IsSeq(rB[i])
                    /\ dB[1] = e /\ rB[1] = v /\ dB[m + 1] = f /\ rB[m + 1] = <<>>
  BY DEF Says
<1> DEFINE depth == [i \in 1 .. n + m + 1 |-> IF i <= n THEN dA[i] ELSE dB[i - n]]
           rest  == [i \in 1 .. n + m + 1 |-> IF i <= n THEN rA[i] \o v ELSE rB[i - n]]
<1> HIDE DEF c, n, m
<1>5. /\ \A i \in 1 .. n + 1 : depth[i] = dA[i] /\ rest[i] = rA[i] \o v
      /\ \A i \in n + 1 .. n + m + 1 : depth[i] = dB[i - n] /\ rest[i] = rB[i - n]
  <2>1. \A i \in 1 .. n : depth[i] = dA[i] /\ rest[i] = rA[i] \o v
    BY <1>1
  <2>2. \A i \in n + 1 .. n + m + 1 : depth[i] = dB[i - n] /\ rest[i] = rB[i - n]
    BY <1>1
  <2>3. depth[n + 1] = dB[1] /\ rest[n + 1] = rB[1]
    <3>1. n + 1 \in 1 .. n + m + 1 /\ ~(n + 1 <= n) /\ (n + 1) - n = 1
      BY <1>1
    <3>2. depth[n + 1] = dB[(n + 1) - n] /\ rest[n + 1] = rB[(n + 1) - n]
      BY <3>1
    <3> HIDE DEF depth, rest
    <3>3. QED
      BY <3>1, <3>2, Zenon
  <2>4. <<>> \o v = v
    BY <1>1, CatNothing
  <2> HIDE DEF depth, rest
  <2>5. \A i \in 1 .. n + 1 : i \in 1 .. n \/ i = n + 1
    BY <1>1
  <2>6. QED
    BY <1>3, <1>4, <2>1, <2>2, <2>3, <2>4, <2>5
<1> HIDE DEF depth, rest
<1>6. Told(c, depth, rest)
  <2>1. SUFFICES ASSUME NEW i \in 1 .. n + m
                 PROVE  /\ IsSeq(Said(c[i], depth[i]))
                        /\ rest[i] = Said(c[i], depth[i]) \o rest[i + 1]
                        /\ depth[i + 1] = depth[i] + Weight(c[i])
    BY <1>2 DEF Told
  <2>2. CASE i <= n
    <3>1. i \in 1 .. n /\ i \in 1 .. n + 1 /\ i + 1 \in 1 .. n + 1
      BY <1>1, <2>2
    <3>2. /\ IsSeq(Said(s[i], dA[i]))
          /\ rA[i] = Said(s[i], dA[i]) \o rA[i + 1]
          /\ dA[i + 1] = dA[i] + Weight(s[i])
      BY <1>3, <3>1 DEF Told, n
    <3>3. (Said(s[i], dA[i]) \o rA[i + 1]) \o v = Said(s[i], dA[i]) \o (rA[i + 1] \o v)
      <4>1. IsSeq(rA[i + 1])
        BY <1>3, <3>1, Zenon
      <4> DEFINE p == Said(s[i], dA[i])
                 q == rA[i + 1]
      <4>2. IsSeq(p) /\ IsSeq(q) /\ IsSeq(v)
        BY <1>1, <3>2, <4>1
      <4> HIDE DEF p, q
      <4>3. (p \o q) \o v = p \o (q \o v)
        BY <4>2, CatAgain
      <4>4. QED
        BY <4>3 DEF p, q
    <3>4. /\ c[i] = s[i] /\ depth[i] = dA[i] /\ depth[i + 1] = dA[i + 1]
          /\ rest[i] = rA[i] \o v /\ rest[i + 1] = rA[i + 1] \o v
      BY <1>2, <1>5, <3>1, Zenon
    <3>5. QED
      BY <3>2, <3>3, <3>4, Zenon
  <2>3. CASE i > n
    <3>1. i \in n + 1 .. n + m /\ i \in n + 1 .. n + m + 1 /\ i + 1 \in n + 1 .. n + m + 1
          /\ i - n \in 1 .. m /\ (i + 1) - n = i - n + 1
      BY <1>1, <2>3
    <3>2. /\ IsSeq(Said(t[i - n], dB[i - n]))
          /\ rB[i - n] = Said(t[i - n], dB[i - n]) \o rB[i - n + 1]
          /\ dB[i - n + 1] = dB[i - n] + Weight(t[i - n])
      BY <1>4, <3>1 DEF Told, m
    <3>3. /\ c[i] = t[i - n] /\ depth[i] = dB[i - n] /\ depth[i + 1] = dB[i - n + 1]
          /\ rest[i] = rB[i - n] /\ rest[i + 1] = rB[i - n + 1]
      <4>1. c[i] = t[i - n] /\ depth[i] = dB[i - n] /\ rest[i] = rB[i - n]
        BY <1>2, <1>5, <3>1, Zenon
      <4>2. depth[i + 1] = dB[(i + 1) - n] /\ rest[i + 1] = rB[(i + 1) - n]
        BY <1>5, <3>1, Zenon
      <4>3. QED
        BY <3>1, <4>1, <4>2, Zenon
    <3>4. QED
      BY <3>2, <3>3, Zenon
  <2>4. i <= n \/ i > n
    BY <1>1
  <2>5. QED
    BY <2>2, <2>3, <2>4
<1>7. \A i \in 1 .. n + m + 1 : depth[i] \in Int /\ IsSeq(rest[i])
  <2>1. TAKE i \in 1 .. n + m + 1
  <2>2. CASE i <= n
    <3>1. i \in 1 .. n + 1
      BY <1>1, <2>2
    <3>2. depth[i] = dA[i] /\ rest[i] = rA[i] \o v /\ dA[i] \in Int /\ IsSeq(rA[i])
      BY <1>3, <1>5, <3>1, Zenon
    <3>3. QED
      BY <1>1, <3>2, CatIsSeq
  <2>3. CASE i > n
    <3>1. i \in n + 1 .. n + m + 1 /\ i - n \in 1 .. m + 1
      BY <1>1, <2>3
    <3>2. QED
      BY <1>4, <1>5, <3>1
  <2>4. QED
    BY <1>1, <2>2, <2>3
<1>8. depth[1] = d /\ rest[1] = u \o v /\ depth[n + m + 1] = f /\ rest[n + m + 1] = <<>>
  <2>1. 1 \in 1 .. n + 1 /\ n + m + 1 \in n + 1 .. n + m + 1 /\ (n + m + 1) - n = m + 1
    BY <1>1
  <2>2. depth[1] = dA[1] /\ rest[1] = rA[1] \o v
    BY <1>5, <2>1, Zenon
  <2>3. depth[n + m + 1] = dB[(n + m + 1) - n] /\ rest[n + m + 1] = rB[(n + m + 1) - n]
    BY <1>5, <2>1, Zenon
  <2>4. QED
    BY <1>3, <1>4, <2>1, <2>2, <2>3, Zenon
<1>9. Says(c, d, u \o v, f)
  BY <1>1, <1>2, <1>6, <1>7, <1>8 DEF Says
<1>10. QED
  BY <1>9 DEF c

\* What the items behind the first n say.
LEMMA SaysFrom ==
    ASSUME NEW s, IsSeq(s), NEW depth, NEW rest, NEW e, Told(s, depth, rest),
           \A i \in 1 .. Len(s) + 1 : depth[i] \in Int /\ IsSeq(rest[i]),
           depth[Len(s) + 1] = e, rest[Len(s) + 1] = <<>>, NEW n \in 0 .. Len(s)
    PROVE  Says(SubSeq(s, n + 1, Len(s)), depth[n + 1], rest[n + 1], e)
<1> DEFINE S == ToSet(s)
           m == Len(s) - n
           b == SubSeq(s, n + 1, Len(s))
<1>1. s \in Seq(S) /\ Len(s) \in Nat /\ n \in Nat /\ m \in Nat /\ n <= Len(s)
  BY DEF IsSeq
<1>3. b \in Seq(S) /\ Len(b) = m /\ \A i \in 1 .. m : b[i] = s[n + i]
  <2> HIDE DEF S
  <2>1. b \in Seq(S) /\ Len(b) = m
    BY <1>1
  <2>2. \A i \in 1 .. m : b[i] = s[n + i]
    BY <1>1
  <2>3. QED
    BY <2>1, <2>2
<1> HIDE DEF S
<1>8. IsSeq(b)
  BY <1>3, OwnElements DEF IsSeq
<1> DEFINE nextDepth == [i \in 1 .. m + 1 |-> depth[n + i]]
           nextRest  == [i \in 1 .. m + 1 |-> rest[n + i]]
<1>10. \A i \in 1 .. m + 1 : nextDepth[i] = depth[n + i] /\ nextRest[i] = rest[n + i]
  OBVIOUS
<1>11. m = Len(s) - n
  OBVIOUS
<1> HIDE DEF nextDepth, nextRest, b, m
<1>12. Told(b, nextDepth, nextRest)
  <2>1. SUFFICES ASSUME NEW i \in 1 .. m
                 PROVE  /\ IsSeq(Said(b[i], nextDepth[i]))
                        /\ nextRest[i] = Said(b[i], nextDepth[i]) \o nextRest[i + 1]
                        /\ nextDepth[i + 1] = nextDepth[i] + Weight(b[i])
    BY <1>3 DEF Told
  <2>2. n + i \in 1 .. Len(s) /\ i \in 1 .. m + 1 /\ i + 1 \in 1 .. m + 1 /\ n + (i + 1) = (n + i) + 1
    BY <1>1, <1>11
  <2> DEFINE j == n + i
  <2>3. /\ IsSeq(Said(s[j], depth[j]))
        /\ rest[j] = Said(s[j], depth[j]) \o rest[j + 1]
        /\ depth[j + 1] = depth[j] + Weight(s[j])
    BY <2>2 DEF Told
  <2>4. b[i] = s[j] /\ nextDepth[i] = depth[j] /\ nextRest[i] = rest[j]
    BY <1>3, <1>10, <2>2, Zenon
  <2>5. nextDepth[i + 1] = depth[j + 1] /\ nextRest[i + 1] = rest[j + 1]
    <3>1. nextDepth[i + 1] = depth[n + (i + 1)] /\ nextRest[i + 1] = rest[n + (i + 1)]
      BY <1>10, <2>2, Zenon
    <3>2. QED
      BY <2>2, <3>1, Zenon
  <2>6. QED
    BY <2>3, <2>4, <2>5, Zenon
<1>13. \A i \in 1 .. m + 1 : nextDepth[i] \in Int /\ IsSeq(nextRest[i])
  <2>1. TAKE i \in 1 .. m + 1
  <2>2. n + i \in 1 .. Len(s) + 1
    BY <1>1, <1>11
  <2>3. QED
    BY <1>10, <2>2, Zenon
<1>14. /\ nextDepth[1] = depth[n + 1] /\ nextRest[1] = rest[n + 1]
       /\ nextDepth[m + 1] = e /\ nextRest[m + 1] = <<>>
  <2>1. 1 \in 1 .. m + 1 /\ m + 1 \in 1 .. m + 1 /\ n + (m + 1) = Len(s) + 1
    BY <1>1, <1>11
  <2>2. /\ nextDepth[1] = depth[n + 1] /\ nextRest[1] = rest[n + 1]
        /\ nextDepth[m + 1] = depth[n + (m + 1)] /\ nextRest[m + 1] = rest[n + (m + 1)]
    BY <1>10, <2>1, Zenon
  <2>3. QED
    BY <2>1, <2>2, Zenon
<1>15. Says(b, depth[n + 1], rest[n + 1], e)
  BY <1>3, <1>8, <1>12, <1>13, <1>14, Zenon DEF Says
<1>16. QED
  BY <1>15 DEF b

\* Pieces are printed as they stand; the first n items are.
LEMMA SaysPieces ==
    ASSUME NEW s, NEW d, NEW t, NEW e, Says(s, d, t, e), NEW n \in 1 .. Len(s),
           \A i \in 1 .. n : s[i].k \in Pieces
    PROVE  \E v : /\ Says(SubSeq(s, n + 1, Len(s)), d, v, e)
                  /\ t = SubSeq(s, 1, n) \o v
                  /\ IsSeq(SubSeq(s, 1, n)) /\ IsSeq(v)
<1> DEFINE S == ToSet(s)
<1>1. s \in Seq(S) /\ Len(s) \in Nat /\ n \in Nat /\ n <= Len(s)
  BY SaysTypes DEF IsSeq
<1>2. \A i \in 1 .. Len(s) : s[i] \in S
  BY <1>1, ElementOfSeq
<1> HIDE DEF S
<1>4. PICK depth, rest : /\ Told(s, depth, rest)
                         /\ \A i \in 1 .. Len(s) + 1 : depth[i] \in Int /\ IsSeq(rest[i])
                         /\ depth[1] = d /\ rest[1] = t
                         /\ depth[Len(s) + 1] = e /\ rest[Len(s) + 1] = <<>>
  BY DEF Says
<1> DEFINE U == {j \in Nat : j <= n => /\ depth[j + 1] = d
                                      /\ t = SubSeq(s, 1, j) \o rest[j + 1]}
<1>5. 0 \in U
  <2>1. SubSeq(s, 1, 0) = <<>> /\ 0 + 1 = 1
    BY SubSeqEmpty
  <2>2. <<>> \o rest[1] = rest[1]
    <3>1. IsSeq(rest[1])
      BY <1>4, SaysTypes
    <3>2. QED
      BY <3>1, CatNothing
  <2>3. QED
    BY <1>4, <2>1, <2>2
<1>6. ASSUME NEW k \in 1 .. n, k - 1 \in U PROVE k \in U
  <2>1. k \in Nat /\ k - 1 \in Nat /\ k - 1 <= n /\ (k - 1) + 1 = k /\ k \in 1 .. Len(s)
    BY <1>1
  <2>2. depth[k] = d /\ t = SubSeq(s, 1, k - 1) \o rest[k]
    BY <1>6, <2>1
  <2>3. rest[k] = Said(s[k], depth[k]) \o rest[k + 1] /\ depth[k + 1] = depth[k] + Weight(s[k])
    BY <1>4, <2>1 DEF Told
  <2>4. s[k].k \in Pieces
    OBVIOUS
  <2>5. Said(s[k], depth[k]) = <<s[k]>> /\ Weight(s[k]) = 0
    BY <2>4 DEF Said, Weight, Deeper, Back, Pieces
  <2>6. SubSeq(s, 1, k) = SubSeq(s, 1, k - 1) \o <<s[k]>>
    <3> DEFINE p == SubSeq(s, 1, k)
               q == SubSeq(s, 1, k - 1)
               x == <<s[k]>>
    <3>1. p \in Seq(S) /\ Len(p) = k /\ \A i \in 1 .. k : p[i] = s[i]
      BY <1>1, <2>1
    <3>2. q \in Seq(S) /\ Len(q) = k - 1 /\ \A i \in 1 .. k - 1 : q[i] = s[i]
      BY <1>1, <2>1
    <3>3. x \in Seq(S) /\ Len(x) = 1 /\ x[1] = s[k]
      BY <1>2, <2>1
    <3> HIDE DEF p, q, x
    <3>4. Len(p) = Len(q) + Len(x) /\ \A i \in 1 .. Len(q) : p[i] = q[i]
      BY <2>1, <3>1, <3>2, <3>3
    <3>5. \A i \in 1 .. Len(x) : p[Len(q) + i] = x[i]
      <4>1. \A i \in 1 .. Len(x) : i = 1
        BY <3>3
      <4>2. p[Len(q) + 1] = s[k]
        BY <2>1, <3>1, <3>2
      <4>3. QED
        BY <3>3, <4>1, <4>2
    <3>6. p = q \o x
      BY <3>1, <3>2, <3>3, <3>4, <3>5, Joined, Zenon
    <3>7. QED
      BY <3>6 DEF p, q, x
  <2>7. IsSeq(SubSeq(s, 1, k - 1)) /\ IsSeq(<<s[k]>>) /\ IsSeq(rest[k + 1])
    <3>1. SubSeq(s, 1, k - 1) \in Seq(S)
      BY <1>1, <2>1
    <3>2. IsSeq(SubSeq(s, 1, k - 1))
      BY <3>1, OwnElements DEF IsSeq
    <3>3. IsSeq(<<s[k]>>)
      BY ShortSeqs
    <3>4. k + 1 \in 1 .. Len(s) + 1
      BY <1>1, <2>1
    <3>5. QED
      BY <1>4, <3>2, <3>3, <3>4, Zenon
  <2>8. t = SubSeq(s, 1, k) \o rest[k + 1]
    <3> HIDE DEF U
    <3>1. t = SubSeq(s, 1, k - 1) \o (<<s[k]>> \o rest[k + 1])
      BY <2>2, <2>3, <2>5, Zenon
    <3>2. PICK p, x, r : /\ IsSeq(p) /\ IsSeq(x) /\ IsSeq(r)
                         /\ p = SubSeq(s, 1, k - 1) /\ x = <<s[k]>> /\ r = rest[k + 1]
      BY <2>7
    <3>3. IsSeq(p) /\ IsSeq(x) /\ IsSeq(r)
      BY <3>2
    <3>4. (p \o x) \o r = p \o (x \o r)
      BY ONLY <3>3, CatAgain
    <3>5. QED
      BY <2>6, <3>1, <3>2, <3>4, Zenon
  <2>9. depth[k + 1] = d
    BY <1>4, <2>2, <2>3, <2>5, SaysTypes
  <2>10. QED
    BY <2>1, <2>8, <2>9
<1>7. depth[n + 1] = d /\ t = SubSeq(s, 1, n) \o rest[n + 1]
  <2>1. n \in U
    <3> HIDE DEF U
    <3>1. 0 .. n \subseteq U
      BY <1>1, <1>5, <1>6, UpTo
    <3>2. QED
      BY <1>1, <3>1
  <2>2. QED
    BY <1>1, <2>1
<1>8. IsSeq(SubSeq(s, 1, n))
  <2>1. SubSeq(s, 1, n) \in Seq(S)
    BY <1>1
  <2>2. QED
    BY <2>1, OwnElements, Zenon DEF IsSeq
<1>9. IsSeq(rest[n + 1])
  <2>1. n + 1 \in 1 .. Len(s) + 1
    BY <1>1
  <2>2. QED
    BY <1>4, <2>1, Zenon
<1> HIDE DEF U
<1>10. Says(SubSeq(s, n + 1, Len(s)), depth[n + 1], rest[n + 1], e)
  <2>1. n \in 0 .. Len(s) /\ IsSeq(s)
    BY <1>1 DEF Says
  <2>2. QED
    BY <1>4, <2>1, SaysFrom
<1>11. QED
  BY <1>7, <1>8, <1>9, <1>10, Zenon

\* The first item is done, then the others.
LEMMA SaysHead ==
    ASSUME NEW s, NEW d, NEW t, NEW e, Says(s, d, t, e), s # <<>>
    PROVE  \E v : /\ Says(Tail(s), d + Weight(Head(s)), v, e)
                  /\ IsSeq(Said(Head(s), d)) /\ t = Said(Head(s), d) \o v
<1>1. PICK depth, rest : /\ Told(s, depth, rest)
                         /\ \A i \in 1 .. Len(s) + 1 : depth[i] \in Int /\ IsSeq(rest[i])
                         /\ depth[1] = d /\ rest[1] = t
                         /\ depth[Len(s) + 1] = e /\ rest[Len(s) + 1] = <<>>
  BY DEF Says
<1>2. IsSeq(s)
  BY SaysTypes
<1>3. Len(s) \in Nat /\ Len(s) # 0 /\ Head(s) = s[1] /\ Tail(s) = SubSeq(s, 2, Len(s))
  BY <1>2 DEF IsSeq
<1>4. 1 \in 0 .. Len(s) /\ 1 \in 1 .. Len(s) /\ 1 + 1 = 2
  BY <1>3
<1>5. /\ IsSeq(Said(s[1], depth[1])) /\ rest[1] = Said(s[1], depth[1]) \o rest[1 + 1]
      /\ depth[1 + 1] = depth[1] + Weight(s[1])
  BY <1>1, <1>4, Zenon DEF Told
<1>6. Says(SubSeq(s, 1 + 1, Len(s)), depth[1 + 1], rest[1 + 1], e)
  BY <1>1, <1>2, <1>4, SaysFrom
<1>7. QED
  BY <1>1, <1>3, <1>4, <1>5, <1>6, Zenon

\* Lists behind each other are done one behind the other.
LEMMA SaysEach ==
    ASSUME NEW n \in Nat, NEW ss, NEW ts, NEW d \in Int, Len(ss) = n, Len(ts) = n,
           n = 0 => ss = <<>> /\ ts = <<>>,
           \A i \in 1 .. n : Says(ss[i], d, ts[i], d)
    PROVE  Says(FlattenSeq(ss), d, FlattenSeq(ts), d)
<1>1. CASE n = 0
  <2>1. Len(<<>>) = 0
    OBVIOUS
  <2>2. FlattenSeq(<<>>) = <<>>
    BY <2>1 DEF FlattenSeq
  <2>3. QED
    BY <1>1, <2>2, SaysNothing
<1>2. CASE n # 0
  <2>1. n > 0 /\ n \in 1 .. n /\ n \in 0 .. n
    BY <1>2
  <2>2. PICK f : /\ FlattenSeq(ss) = f[n]
                 /\ \A i \in 1 .. n : f[i] = IF i = 1 THEN ss[i] ELSE f[i - 1] \o ss[i]
    BY <2>1, FlattenSteps
  <2>3. PICK g : /\ FlattenSeq(ts) = g[n]
                 /\ \A i \in 1 .. n : g[i] = IF i = 1 THEN ts[i] ELSE g[i - 1] \o ts[i]
    BY <2>1, FlattenSteps
  <2> DEFINE U == {i \in Nat : i = 0 \/ Says(f[i], d, g[i], d)}
  <2>4. 0 \in U
    OBVIOUS
  <2>5. ASSUME NEW i \in 1 .. n, i - 1 \in U PROVE i \in U
    <3>1. i \in Nat /\ Says(ss[i], d, ts[i], d)
      OBVIOUS
    <3>2. CASE i = 1
      BY <2>2, <2>3, <3>1, <3>2
    <3>3. CASE i # 1
      <4>1. i - 1 # 0 /\ Says(f[i - 1], d, g[i - 1], d)
        BY <2>5, <3>1, <3>3
      <4>2. f[i] = f[i - 1] \o ss[i] /\ g[i] = g[i - 1] \o ts[i]
        BY <2>2, <2>3, <3>3
      <4>3. Says(f[i - 1] \o ss[i], d, g[i - 1] \o ts[i], d)
        BY <3>1, <4>1, SaysCat
      <4>4. QED
        BY <3>1, <4>2, <4>3
    <3>4. QED
      BY <3>2, <3>3
  <2>6. n \in U
    <3> HIDE DEF U
    <3>1. 0 .. n \subseteq U
      BY <2>4, <2>5, UpTo
    <3>2. QED
      BY <2>1, <3>1
  <2>7. QED
    BY <1>2, <2>2, <2>3, <2>6
<1>3. QED
  BY <1>1, <1>2

-----------------------------------------------------------------------------
(* Lists of items, written out.                                            *)

\* One list behind another, one of which may print nothing.
LEMMA SaysBoth ==
    ASSUME NEW s, NEW t, NEW u, NEW v, NEW d, NEW e, NEW f, Says(s, d, u, e), Says(t, e, v, f)
    PROVE  /\ Says(s \o t, d, u \o v, f)
           /\ v = <<>> => Says(s \o t, d, u, f)
           /\ u = <<>> => Says(s \o t, d, v, f)
<1>1. Says(s \o t, d, u \o v, f)
  BY SaysCat
<1>2. IsSeq(u) /\ IsSeq(v)
  BY SaysTypes
<1>3. u \o <<>> = u /\ <<>> \o v = v
  BY <1>2, CatNothing
<1>4. QED
  BY <1>1, <1>3, Zenon

\* Two items are one and another,
LEMMA SaysTwo ==
    ASSUME NEW a, NEW b, NEW d, NEW e, NEW f, NEW u, NEW v,
           Says(<<a>>, d, u, e), Says(<<b>>, e, v, f)
    PROVE  /\ Says(<<a, b>>, d, u \o v, f)
           /\ v = <<>> => Says(<<a, b>>, d, u, f)
           /\ u = <<>> => Says(<<a, b>>, d, v, f)
<1>1. <<a, b>> = <<a>> \o <<b>>
  BY LongerTwo, Zenon
<1> DEFINE s == <<a>>
           t == <<b>>
<1>2. Says(s, d, u, e) /\ Says(t, e, v, f)
  OBVIOUS
<1> HIDE DEF s, t
<1>3. /\ Says(s \o t, d, u \o v, f)
      /\ v = <<>> => Says(s \o t, d, u, f)
      /\ u = <<>> => Says(s \o t, d, v, f)
  BY <1>2, SaysBoth, Zenon
<1>4. QED
  BY <1>1, <1>3 DEF s, t

\* three are two and another,
LEMMA SaysThree ==
    ASSUME NEW a, NEW b, NEW c, NEW d, NEW e, NEW f, NEW u, NEW v,
           Says(<<a, b>>, d, u, e), Says(<<c>>, e, v, f)
    PROVE  /\ Says(<<a, b, c>>, d, u \o v, f)
           /\ v = <<>> => Says(<<a, b, c>>, d, u, f)
           /\ u = <<>> => Says(<<a, b, c>>, d, v, f)
<1>1. <<a, b, c>> = <<a, b>> \o <<c>>
  BY LongerThree, Zenon
<1> DEFINE s == <<a, b>>
           t == <<c>>
<1>2. Says(s, d, u, e) /\ Says(t, e, v, f)
  OBVIOUS
<1> HIDE DEF s, t
<1>3. /\ Says(s \o t, d, u \o v, f)
      /\ v = <<>> => Says(s \o t, d, u, f)
      /\ u = <<>> => Says(s \o t, d, v, f)
  BY <1>2, SaysBoth, Zenon
<1>4. QED
  BY <1>1, <1>3 DEF s, t

\* four are three and another,
LEMMA SaysFour ==
    ASSUME NEW a, NEW b, NEW c, NEW x, NEW d, NEW e, NEW f, NEW u, NEW v,
           Says(<<a, b, c>>, d, u, e), Says(<<x>>, e, v, f)
    PROVE  /\ Says(<<a, b, c, x>>, d, u \o v, f)
           /\ v = <<>> => Says(<<a, b, c, x>>, d, u, f)
           /\ u = <<>> => Says(<<a, b, c, x>>, d, v, f)
<1>1. <<a, b, c, x>> = <<a, b, c>> \o <<x>>
  BY LongerFour, Zenon
<1> DEFINE s == <<a, b, c>>
           t == <<x>>
<1>2. Says(s, d, u, e) /\ Says(t, e, v, f)
  OBVIOUS
<1> HIDE DEF s, t
<1>3. /\ Says(s \o t, d, u \o v, f)
      /\ v = <<>> => Says(s \o t, d, u, f)
      /\ u = <<>> => Says(s \o t, d, v, f)
  BY <1>2, SaysBoth, Zenon
<1>4. QED
  BY <1>1, <1>3 DEF s, t

\* and five are four and another.
LEMMA SaysFive ==
    ASSUME NEW a, NEW b, NEW c, NEW x, NEW y, NEW d, NEW e, NEW f, NEW u, NEW v,
           Says(<<a, b, c, x>>, d, u, e), Says(<<y>>, e, v, f)
    PROVE  /\ Says(<<a, b, c, x, y>>, d, u \o v, f)
           /\ v = <<>> => Says(<<a, b, c, x, y>>, d, u, f)
           /\ u = <<>> => Says(<<a, b, c, x, y>>, d, v, f)
<1>1. <<a, b, c, x, y>> = <<a, b, c, x>> \o <<y>>
  BY LongerFive, SMTT(30)
<1> DEFINE s == <<a, b, c, x>>
           t == <<y>>
<1>2. Says(s, d, u, e) /\ Says(t, e, v, f)
  OBVIOUS
<1> HIDE DEF s, t
<1>3. /\ Says(s \o t, d, u \o v, f)
      /\ v = <<>> => Says(s \o t, d, u, f)
      /\ u = <<>> => Says(s \o t, d, v, f)
  BY <1>2, SaysBoth, Zenon
<1>4. QED
  BY <1>1, <1>3 DEF s, t

\* What each kind of item does.
LEMMA SaysItem ==
    ASSUME NEW d \in Int
    PROVE  /\ \A s : Says(<<Open(s)>>, d, <<Open(s)>>, d) /\ Says(<<Word(s)>>, d, <<Word(s)>>, d)
                     /\ Says(<<Num(s)>>, d, <<Num(s)>>, d)
           /\ Says(<<Close>>, d, <<Close>>, d) /\ Says(<<NL>>, d, <<NL>>, d)
           /\ Says(<<INDENT>>, d, Pads(d), d) /\ Says(<<Gap>>, d, If(d = 0, NL), d)
           /\ Says(<<Deeper>>, d, <<>>, d + 1) /\ Says(<<Back>>, d, <<>>, d - 1)
<1>1. /\ \A x : IsSeq(<<x>>) 
      /\ IsSeq(<<>>)
  BY ShortSeqs
<1>2. ASSUME NEW x, x.k \in Pieces, Weight(x) = 0 PROVE Says(<<x>>, d, <<x>>, d)
  <2>1. Said(x, d) = <<x>> /\ d + Weight(x) = d
    BY <1>2 DEF Said
  <2>2. IsSeq(Said(x, d))
    BY <1>1, <2>1
  <2>3. Says(<<x>>, d, Said(x, d), d + Weight(x))
    BY <2>2, SaysOne
  <2>4. QED
    BY <2>1, <2>3
<1>3. \A s : Says(<<Open(s)>>, d, <<Open(s)>>, d) /\ Says(<<Word(s)>>, d, <<Word(s)>>, d)
             /\ Says(<<Num(s)>>, d, <<Num(s)>>, d)
  <2>1. TAKE s
  <2>2. /\ Open(s).k \in Pieces /\ Word(s).k \in Pieces /\ Num(s).k \in Pieces
        /\ Weight(Open(s)) = 0 /\ Weight(Word(s)) = 0 /\ Weight(Num(s)) = 0
    BY DEF Open, Word, Num, Pieces, Weight, Deeper, Back
  <2>3. QED
    BY <1>2, <2>2
<1>4. Says(<<Close>>, d, <<Close>>, d) /\ Says(<<NL>>, d, <<NL>>, d)
  <2>1. Close.k \in Pieces /\ NL.k \in Pieces /\ Weight(Close) = 0 /\ Weight(NL) = 0
    BY DEF Close, NL, Pieces, Weight, Deeper, Back
  <2>2. QED
    BY <1>2, <2>1
<1>5. Says(<<INDENT>>, d, Pads(d), d)
  <2>1. Said(INDENT, d) = Pads(d) /\ Weight(INDENT) = 0
    BY DEF Said, INDENT, Pieces, Weight, Deeper, Back
  <2>2. IsSeq(Pads(d))
    <3>1. Pads(d) \in Seq({Pad})
      BY DEF Pads
    <3>2. QED
      BY <3>1, OwnElements DEF IsSeq
  <2>3. d + 0 = d
    OBVIOUS
  <2>4. Says(<<INDENT>>, d, Said(INDENT, d), d + Weight(INDENT))
    BY <2>1, <2>2, SaysOne
  <2>5. QED
    BY <2>1, <2>3, <2>4
<1>6. Says(<<Gap>>, d, If(d = 0, NL), d)
  <2>1. Said(Gap, d) = If(d = 0, NL) /\ Weight(Gap) = 0
    BY DEF Said, Gap, Pieces, Weight, Deeper, Back, If
  <2>2. IsSeq(If(d = 0, NL))
    BY <1>1 DEF If
  <2>3. d + 0 = d
    OBVIOUS
  <2>4. Says(<<Gap>>, d, Said(Gap, d), d + Weight(Gap))
    BY <2>1, <2>2, SaysOne
  <2>5. QED
    BY <2>1, <2>3, <2>4
<1>7. Says(<<Deeper>>, d, <<>>, d + 1) /\ Says(<<Back>>, d, <<>>, d - 1)
  <2>1. Said(Deeper, d) = <<>> /\ Said(Back, d) = <<>> /\ Weight(Deeper) = 1 /\ Weight(Back) = -1
    BY DEF Said, Pieces, Weight, Deeper, Back
  <2>2. d + 1 = d + Weight(Deeper) /\ d - 1 = d + Weight(Back)
    BY <2>1
  <2>3. Says(<<Deeper>>, d, Said(Deeper, d), d + Weight(Deeper))
        /\ Says(<<Back>>, d, Said(Back, d), d + Weight(Back))
    BY <1>1, <2>1, SaysOne
  <2>4. QED
    BY <2>1, <2>2, <2>3
<1>8. QED
  BY <1>3, <1>4, <1>5, <1>6, <1>7

\* A node that is printed, at any depth, as `pages' has it; a missing one makes a hole.
Ready(pages, m) == \A d \in Int : IsSeq(At(pageOf, m, d)) /\ At(pages, m, d) = At(pageOf, m, d)

\* A visit prints the page of its node, at the depth at hand.
LEMMA SaysVisit ==
    ASSUME NEW pages, NEW m, Ready(pages, m), NEW d \in Int
    PROVE  Says(<<Visit(m)>>, d, At(pages, m, d), d)
<1>1. Said(Visit(m), d) = At(pageOf, m, d) /\ Weight(Visit(m)) = 0
  BY DEF Said, Visit, Pieces, Weight, Deeper, Back
<1>2. IsSeq(Said(Visit(m), d)) /\ At(pages, m, d) = At(pageOf, m, d) /\ d + 0 = d
  BY <1>1 DEF Ready
<1>3. Says(<<Visit(m)>>, d, Said(Visit(m), d), d + Weight(Visit(m)))
  BY <1>2, SaysOne
<1>4. QED
  BY <1>1, <1>2, <1>3

\* And one level back.
LEMMA SaysBack ==
    ASSUME NEW d \in Int
    PROVE  Says(<<Back>>, d + 1, <<>>, d)
<1>1. d + 1 \in Int /\ (d + 1) - 1 = d
  OBVIOUS
<1>2. Says(<<Back>>, d + 1, <<>>, (d + 1) - 1)
  BY <1>1, SaysItem
<1>3. QED
  BY <1>1, <1>2

\* A list that is one list and then another.
LEMMA SplitTwoTwo ==
    ASSUME NEW a, NEW b, NEW c, NEW p
    PROVE  <<a, b, c, p>> = <<a, b>> \o <<c, p>>
<1>1. /\ <<a, b, c, p>> \in Seq({a, b, c, p})
      /\ <<a, b>> \in Seq({a, b, c, p}) /\ <<c, p>> \in Seq({a, b, c, p})
  OBVIOUS
<1>2. QED
  BY <1>1, Joined

\* Five items as one and four,
LEMMA SplitOneFour ==
    ASSUME NEW a, NEW b, NEW c, NEW p, NEW q
    PROVE  <<a, b, c, p, q>> = <<a>> \o <<b, c, p, q>>
<1>1. /\ <<a, b, c, p, q>> \in Seq({a, b, c, p, q})
      /\ <<a>> \in Seq({a, b, c, p, q}) /\ <<b, c, p, q>> \in Seq({a, b, c, p, q})
  OBVIOUS
<1>2. QED
  BY <1>1, Joined

\* six as four and two,
LEMMA SplitFourTwo ==
    ASSUME NEW a, NEW b, NEW c, NEW p, NEW q, NEW r
    PROVE  <<a, b, c, p, q, r>> = <<a, b, c, p>> \o <<q, r>>
<1>1. /\ <<a, b, c, p, q, r>> \in Seq({a, b, c, p, q, r})
      /\ <<a, b, c, p>> \in Seq({a, b, c, p, q, r}) /\ <<q, r>> \in Seq({a, b, c, p, q, r})
  OBVIOUS
<1>2. QED
  BY <1>1, Joined

\* six as one and five,
LEMMA SplitOneFive ==
    ASSUME NEW a, NEW b, NEW c, NEW p, NEW q, NEW r
    PROVE  <<a, b, c, p, q, r>> = <<a>> \o <<b, c, p, q, r>>
<1>1. /\ <<a, b, c, p, q, r>> \in Seq({a, b, c, p, q, r})
      /\ <<a>> \in Seq({a, b, c, p, q, r}) /\ <<b, c, p, q, r>> \in Seq({a, b, c, p, q, r})
  OBVIOUS
<1>2. QED
  BY <1>1, Joined

\* five as three and two,
LEMMA SplitThreeTwo ==
    ASSUME NEW a, NEW b, NEW c, NEW p, NEW q
    PROVE  <<a, b, c, p, q>> = <<a, b, c>> \o <<p, q>>
<1>1. /\ <<a, b, c, p, q>> \in Seq({a, b, c, p, q})
      /\ <<a, b, c>> \in Seq({a, b, c, p, q}) /\ <<p, q>> \in Seq({a, b, c, p, q})
  OBVIOUS
<1>2. QED
  BY <1>1, Joined

\* eight as three and five,
LEMMA SplitThreeFive ==
    ASSUME NEW a, NEW b, NEW c, NEW p, NEW q, NEW r, NEW w, NEW x
    PROVE  <<a, b, c, p, q, r, w, x>> = <<a, b, c>> \o <<p, q, r, w, x>>
<1>1. /\ <<a, b, c, p, q, r, w, x>> \in Seq({a, b, c, p, q, r, w, x})
      /\ <<a, b, c>> \in Seq({a, b, c, p, q, r, w, x}) /\ <<p, q, r, w, x>> \in Seq({a, b, c, p, q, r, w, x})
  OBVIOUS
<1>2. QED
  BY <1>1, Joined

\* eight as five and three,
LEMMA SplitFiveThree ==
    ASSUME NEW a, NEW b, NEW c, NEW p, NEW q, NEW r, NEW w, NEW x
    PROVE  <<a, b, c, p, q, r, w, x>> = <<a, b, c, p, q>> \o <<r, w, x>>
<1>1. /\ <<a, b, c, p, q, r, w, x>> \in Seq({a, b, c, p, q, r, w, x})
      /\ <<a, b, c, p, q>> \in Seq({a, b, c, p, q, r, w, x}) /\ <<r, w, x>> \in Seq({a, b, c, p, q, r, w, x})
  OBVIOUS
<1>2. QED
  BY <1>1, Joined

\* and ten as eight and two.
LEMMA SplitEightTwo ==
    ASSUME NEW a, NEW b, NEW c, NEW p, NEW q, NEW r, NEW w, NEW x, NEW y, NEW z
    PROVE  <<a, b, c, p, q, r, w, x, y, z>> = <<a, b, c, p, q, r, w, x>> \o <<y, z>>
<1>1. /\ <<a, b, c, p, q, r, w, x, y, z>> \in Seq({a, b, c, p, q, r, w, x, y, z})
      /\ <<a, b, c, p, q, r, w, x>> \in Seq({a, b, c, p, q, r, w, x, y, z}) /\ <<y, z>> \in Seq({a, b, c, p, q, r, w, x, y, z})
  OBVIOUS
<1>2. QED
  BY <1>1, Joined

-----------------------------------------------------------------------------
(* What the parts of the handlers print.                                   *)

\* What is written for each element of a vector.
LEMMA SaysVector ==
    ASSUME NEW vec, NEW V, vec \in Seq(V), NEW items, NEW texts, NEW d \in Int,
           \A i \in DOMAIN vec : Says(items[i], d, texts[i], d)
    PROVE  Says(FlattenSeq([i \in DOMAIN vec |-> items[i]]), d, FlattenSeq([i \in DOMAIN vec |-> texts[i]]), d)
<1> DEFINE ss == [i \in DOMAIN vec |-> items[i]]
           ts == [i \in DOMAIN vec |-> texts[i]]
<1>1. Len(vec) \in Nat /\ DOMAIN vec = 1 .. Len(vec)
  BY LenProperties
<1>2. Len(ss) = Len(vec) /\ Len(ts) = Len(vec)
  BY <1>1
<1>3. Len(vec) = 0 => ss = <<>> /\ ts = <<>>
  BY <1>1
<1>4. \A i \in 1 .. Len(vec) : Says(ss[i], d, ts[i], d)
  BY <1>1
<1> HIDE DEF ss, ts
<1>5. Says(FlattenSeq(ss), d, FlattenSeq(ts), d)
  BY <1>1, <1>2, <1>3, <1>4, SaysEach
<1>6. QED
  BY <1>5 DEF ss, ts

\* The line of a node is its row.
LEMMA LineSays ==
    ASSUME NEW pages, NEW m, Ready(pages, m), NEW d \in Int
    PROVE  Says(Line(m), d, Row(At(pages, m, d), d), d)
<1>1. /\ Says(<<NL>>, d, <<NL>>, d) /\ Says(<<INDENT>>, d, Pads(d), d)
      /\ Says(<<Visit(m)>>, d, At(pages, m, d), d)
  BY SaysItem, SaysVisit
<1>2. Says(<<NL, INDENT>>, d, <<NL>> \o Pads(d), d)
  BY <1>1, SaysTwo
<1>3. Says(<<NL, INDENT, Visit(m)>>, d, <<NL>> \o Pads(d) \o At(pages, m, d), d)
  BY <1>1, <1>2, SaysThree
<1>4. QED
  BY <1>3 DEF Line, Row

\* A line that is one level deeper.
LEMMA DeeperLineSays ==
    ASSUME NEW pages, NEW m, Ready(pages, m), NEW d \in Int
    PROVE  Says(<<NL, Deeper, INDENT, Visit(m)>>, d, Row(At(pages, m, d + 1), d + 1), d + 1)
<1>1. d + 1 \in Int
  OBVIOUS
<1>2. /\ Says(<<NL>>, d, <<NL>>, d) /\ Says(<<Deeper>>, d, <<>>, d + 1)
      /\ Says(<<INDENT>>, d + 1, Pads(d + 1), d + 1)
      /\ Says(<<Visit(m)>>, d + 1, At(pages, m, d + 1), d + 1)
  BY <1>1, SaysItem, SaysVisit
<1>3. Says(<<NL, Deeper>>, d, <<NL>>, d + 1)
  BY <1>2, SaysTwo
<1>4. Says(<<NL, Deeper, INDENT>>, d, <<NL>> \o Pads(d + 1), d + 1)
  BY <1>2, <1>3, SaysThree
<1>5. Says(<<NL, Deeper, INDENT, Visit(m)>>, d, <<NL>> \o Pads(d + 1) \o At(pages, m, d + 1), d + 1)
  BY <1>2, <1>4, SaysFour
<1>6. QED
  BY <1>5 DEF Row

\* The lines of a vector are its rows.
LEMMA LinesSay ==
    ASSUME NEW pages, NEW vec, NEW V, vec \in Seq(V), \A i \in DOMAIN vec : Ready(pages, vec[i]), NEW d \in Int
    PROVE  Says(Lines(vec), d, Rows(pages, vec, d), d)
<1> DEFINE items == [i \in DOMAIN vec |-> Line(vec[i])]
           texts == [i \in DOMAIN vec |-> Row(At(pages, vec[i], d), d)]
<1>1. \A i \in DOMAIN vec : Says(items[i], d, texts[i], d)
  BY LineSays
<1> HIDE DEF items, texts
<1>2. Says(FlattenSeq([i \in DOMAIN vec |-> items[i]]), d, FlattenSeq([i \in DOMAIN vec |-> texts[i]]), d)
  BY <1>1, SaysVector
<1>3. QED
  BY <1>2 DEF Lines, Rows, Each, items, texts

\* What is printed beside its node, if there is anything.
LEMMA BesideSays ==
    ASSUME NEW pages, NEW m, Ready(pages, m), NEW d \in Int
    PROVE  Says(Optional(<<>>, m), d, Beside(pages, m, d), d)
<1>1. Says(<<>>, d, <<>>, d) /\ Says(<<Visit(m)>>, d, At(pages, m, d), d)
  BY SaysNothing, SaysVisit
<1>2. Says(<<>> \o <<Visit(m)>>, d, At(pages, m, d), d)
  BY <1>1, SaysBoth
<1>3. QED
  BY <1>1, <1>2 DEF Optional, Beside

\* What is printed behind a word of its own line, if there is anything.
LEMMA MarkedSays ==
    ASSUME NEW pages, NEW m, Ready(pages, m), NEW word, NEW d \in Int
    PROVE  Says(Optional(<<NL, INDENT, Word(word)>>, m), d, Marked(pages, word, m, d), d)
<1>1. /\ Says(<<>>, d, <<>>, d) /\ Says(<<NL>>, d, <<NL>>, d) /\ Says(<<INDENT>>, d, Pads(d), d)
      /\ Says(<<Word(word)>>, d, <<Word(word)>>, d) /\ Says(<<Visit(m)>>, d, At(pages, m, d), d)
  BY SaysNothing, SaysItem, SaysVisit
<1>2. Says(<<NL, INDENT>>, d, <<NL>> \o Pads(d), d)
  BY <1>1, SaysTwo
<1>3. Says(<<NL, INDENT, Word(word)>>, d, <<NL>> \o Pads(d) \o <<Word(word)>>, d)
  BY <1>1, <1>2, SaysThree
<1>4. Says(<<NL, INDENT, Word(word)>> \o <<Visit(m)>>, d, <<NL>> \o Pads(d) \o <<Word(word)>> \o At(pages, m, d), d)
  BY <1>1, <1>3, SaysBoth
<1>5. QED
  BY <1>1, <1>4 DEF Optional, Marked, Row

\* A block below its statement.
LEMMA InnerSays ==
    ASSUME NEW pages, NEW b, Ready(pages, b), NEW d \in Int
    PROVE  /\ Says(Inner(b), d, Body(pages, b, d), d)
           /\ Says(<<NL, Deeper, Visit(b), Back, Close>>, d, Body(pages, b, d), d)
<1>1. d + 1 \in Int
  OBVIOUS
<1>2. /\ Says(<<Deeper>>, d, <<>>, d + 1) /\ Says(<<NL>>, d + 1, <<NL>>, d + 1) /\ Says(<<NL>>, d, <<NL>>, d)
      /\ Says(<<Visit(b)>>, d + 1, At(pages, b, d + 1), d + 1)
      /\ Says(<<Back>>, d + 1, <<>>, d) /\ Says(<<Close>>, d, <<Close>>, d)
  BY <1>1, SaysItem, SaysVisit, SaysBack
<1>3. Says(<<Deeper, NL>>, d, <<NL>>, d + 1) /\ Says(<<NL, Deeper>>, d, <<NL>>, d + 1)
  BY <1>2, SaysTwo
<1>4. /\ Says(<<Deeper, NL, Visit(b)>>, d, <<NL>> \o At(pages, b, d + 1), d + 1)
      /\ Says(<<NL, Deeper, Visit(b)>>, d, <<NL>> \o At(pages, b, d + 1), d + 1)
  BY <1>2, <1>3, SaysThree
<1>5. /\ Says(<<Deeper, NL, Visit(b), Back>>, d, <<NL>> \o At(pages, b, d + 1), d)
      /\ Says(<<NL, Deeper, Visit(b), Back>>, d, <<NL>> \o At(pages, b, d + 1), d)
  BY <1>2, <1>4, SaysFour
<1>6. /\ Says(<<Deeper, NL, Visit(b), Back, Close>>, d, <<NL>> \o At(pages, b, d + 1) \o <<Close>>, d)
      /\ Says(<<NL, Deeper, Visit(b), Back, Close>>, d, <<NL>> \o At(pages, b, d + 1) \o <<Close>>, d)
  BY <1>2, <1>5, SaysFive
<1>7. QED
  BY <1>6 DEF Inner, Body

\* The first and the last items of many handlers.
LEMMA EndsSay ==
    ASSUME NEW d \in Int
    PROVE  /\ \A s : Says(<<Open(s), Deeper>>, d, <<Open(s)>>, d + 1)
           /\ \A s : Says(<<Open(s), NL, Deeper>>, d, <<Open(s), NL>>, d + 1)
           /\ \A s, t : Says(<<Open(s), Word(t), Deeper>>, d, <<Open(s), Word(t)>>, d + 1)
           /\ \A s, t : Says(<<Open(s), Word(t)>>, d, <<Open(s), Word(t)>>, d)
           /\ Says(<<Close, Back>>, d + 1, <<Close>>, d)
           /\ Says(<<Back, Close>>, d + 1, <<Close>>, d)
           /\ Says(<<Back, Close, Close>>, d + 1, <<Close, Close>>, d)
<1>1. d + 1 \in Int
  OBVIOUS
<1>2. /\ \A s : Says(<<Open(s)>>, d, <<Open(s)>>, d) /\ Says(<<Word(s)>>, d, <<Word(s)>>, d)
      /\ Says(<<NL>>, d, <<NL>>, d) /\ Says(<<Deeper>>, d, <<>>, d + 1)
      /\ Says(<<Close>>, d, <<Close>>, d) /\ Says(<<Close>>, d + 1, <<Close>>, d + 1)
      /\ Says(<<Back>>, d + 1, <<>>, d)
  BY <1>1, SaysItem, SaysBack
<1>3. \A s : Says(<<Open(s), Deeper>>, d, <<Open(s)>>, d + 1)
  BY <1>2, SaysTwo
<1>4. \A s : Says(<<Open(s), NL>>, d, <<Open(s), NL>>, d)
  <2>1. TAKE s
  <2>2. <<Open(s), NL>> = <<Open(s)>> \o <<NL>>
    BY LongerTwo, Zenon
  <2>3. Says(<<Open(s), NL>>, d, <<Open(s)>> \o <<NL>>, d)
    BY <1>2, SaysTwo
  <2>4. QED
    BY <2>2, <2>3
<1>5. \A s, t : Says(<<Open(s), Word(t)>>, d, <<Open(s), Word(t)>>, d)
  <2>1. TAKE s, t
  <2>2. <<Open(s), Word(t)>> = <<Open(s)>> \o <<Word(t)>>
    BY LongerTwo, Zenon
  <2>3. Says(<<Open(s), Word(t)>>, d, <<Open(s)>> \o <<Word(t)>>, d)
    BY <1>2, SaysTwo
  <2>4. QED
    BY <2>2, <2>3
<1>6. \A s : Says(<<Open(s), NL, Deeper>>, d, <<Open(s), NL>>, d + 1)
  BY <1>2, <1>4, SaysThree
<1>7. \A s, t : Says(<<Open(s), Word(t), Deeper>>, d, <<Open(s), Word(t)>>, d + 1)
  BY <1>2, <1>5, SaysThree
<1>8. Says(<<Close, Back>>, d + 1, <<Close>>, d) /\ Says(<<Back, Close>>, d + 1, <<Close>>, d)
  BY <1>2, SaysTwo
<1>9. Says(<<Back, Close, Close>>, d + 1, <<Close, Close>>, d)
  <2>1. <<Close, Close>> = <<Close>> \o <<Close>>
    BY LongerTwo, Zenon
  <2>2. Says(<<Back, Close, Close>>, d + 1, <<Close>> \o <<Close>>, d)
    BY <1>2, <1>8, SaysThree
  <2>3. QED
    BY <2>1, <2>2
<1>10. QED
  BY <1>3, <1>5, <1>6, <1>7, <1>8, <1>9

-----------------------------------------------------------------------------
(* The nodes near a node.                                                  *)

\* The members of a node that may be nodes are its children or NULL.
LEMMA PartsOf ==
    ASSUME NEW n
    PROVE  LET P == Children(n) \cup {Null} IN
           /\ \A m \in DOMAIN n : m \in Pointers \cup {"block"} => n[m] \in P
           /\ \A m \in DOMAIN n : m \in Vectors \cup {"else_ifs"} => \A i \in DOMAIN n[m] : n[m][i] \in P
           /\ n.type = "HASH" => \A i \in DOMAIN n.pairs : n.pairs[i].key \in P /\ n.pairs[i].val \in P
           /\ n.type = "CALL" /\ n.args # Null =>
                 /\ \A i \in DOMAIN n.args.vec : n.args.vec[i] \in P
                 /\ \A i \in DOMAIN n.args.hash : n.args.hash[i].val \in P
<1> DEFINE P  == Children(n) \cup {Null}
           P1 == {n[m] : m \in (Pointers \cup {"block"}) \cap DOMAIN n}
           P2 == UNION {Elems(n[m]) : m \in (Vectors \cup {"else_ifs"}) \cap DOMAIN n}
           P3 == IF n.type # "HASH" THEN {}
                 ELSE UNION {{n.pairs[i].key, n.pairs[i].val} : i \in DOMAIN n.pairs}
           P4 == IF n.type # "CALL" \/ n.args = Null THEN {}
                 ELSE Elems(n.args.vec) \cup {n.args.hash[i].val : i \in DOMAIN n.args.hash}
<1>1. P1 \subseteq P /\ P2 \subseteq P /\ P3 \subseteq P /\ P4 \subseteq P
  <2> DEFINE C == (P1 \cup P2 \cup P3 \cup P4) \ {Null}
  <2>1. Children(n) = C
    BY DEF Children
  <2> HIDE DEF P1, P2, P3, P4
  <2>2. QED
    BY <2>1
<1>2. \A m \in DOMAIN n : m \in Pointers \cup {"block"} => n[m] \in P1
  OBVIOUS
<1>3. \A m \in DOMAIN n : m \in Vectors \cup {"else_ifs"} => \A i \in DOMAIN n[m] : n[m][i] \in P2
  BY DEF Elems
<1>4. n.type = "HASH" => \A i \in DOMAIN n.pairs : n.pairs[i].key \in P3 /\ n.pairs[i].val \in P3
  OBVIOUS
<1>5. n.type = "CALL" /\ n.args # Null =>
         /\ \A i \in DOMAIN n.args.vec : n.args.vec[i] \in P4
         /\ \A i \in DOMAIN n.args.hash : n.args.hash[i].val \in P4
  BY DEF Elems
<1> HIDE DEF P, P1, P2, P3, P4
<1>6. /\ \A m \in DOMAIN n : m \in Pointers \cup {"block"} => n[m] \in P
      /\ \A m \in DOMAIN n : m \in Vectors \cup {"else_ifs"} => \A i \in DOMAIN n[m] : n[m][i] \in P
  BY <1>1, <1>2, <1>3
<1>7. /\ n.type = "HASH" => \A i \in DOMAIN n.pairs : n.pairs[i].key \in P /\ n.pairs[i].val \in P
      /\ n.type = "CALL" /\ n.args # Null =>
            /\ \A i \in DOMAIN n.args.vec : n.args.vec[i] \in P
            /\ \A i \in DOMAIN n.args.hash : n.args.hash[i].val \in P
  BY <1>1, <1>4, <1>5
<1>8. QED
  BY <1>6, <1>7 DEF P

\* Which members a node has.
LEMMA DomainOf ==
    ASSUME NEW n \in Nodes
    PROVE  /\ n.type \in {"DECL", "DECLARE", "FUNCTION"} => "of" \in DOMAIN n
           /\ n.type \in {"CALL", "UNARY_OP", "WHILE", "RETURN", "IF"} => "expr" \in DOMAIN n
           /\ n.type \in {"BINARY_OP", "SUBSCRIPT", "SLOT"} => "left" \in DOMAIN n /\ "right" \in DOMAIN n
           /\ n.type = "INPUT" => "param" \in DOMAIN n
           /\ n.type \in {"DECL", "DIM"} => "vec" \in DOMAIN n
           /\ n.type = "ARRAY" => "vals" \in DOMAIN n
           /\ n.type = "BLOCK" => "stmts" \in DOMAIN n
           /\ n.type \in {"DECLARE", "FUNCTION", "PRINT"} => "params" \in DOMAIN n
           /\ n.type = "TYPE" => "fields" \in DOMAIN n
           /\ n.type \in {"SCOPE", "FUNCTION", "IF", "WHILE"} => "block" \in DOMAIN n
           /\ n.type = "IF" => "else_ifs" \in DOMAIN n /\ "else_block" \in DOMAIN n
<1>1. DOMAIN n = {"type"} \cup ExprMembers(n.type) \cup StmtMembers(n.type)
  BY NodesAssumption DEF Forest, Grown, IsNode
<1>2. QED
  BY <1>1 DEF ExprMembers, StmtMembers

\* The members of a node are parts of it.
LEMMA PartMembers ==
    ASSUME NEW n \in Nodes
    PROVE  LET P == Children(n) \cup {Null} IN
           /\ n.type \in {"DECL", "DECLARE", "FUNCTION"} => n.of \in P
           /\ n.type \in {"CALL", "UNARY_OP", "WHILE", "RETURN", "IF"} => n.expr \in P
           /\ n.type \in {"BINARY_OP", "SUBSCRIPT", "SLOT"} => n.left \in P /\ n.right \in P
           /\ n.type = "INPUT" => n.param \in P
           /\ n.type \in {"DECL", "DIM"} => \A i \in DOMAIN n.vec : n.vec[i] \in P
           /\ n.type = "ARRAY" => \A i \in DOMAIN n.vals : n.vals[i] \in P
           /\ n.type = "BLOCK" => \A i \in DOMAIN n.stmts : n.stmts[i] \in P
           /\ n.type \in {"DECLARE", "FUNCTION", "PRINT"} => \A i \in DOMAIN n.params : n.params[i] \in P
           /\ n.type = "TYPE" => \A i \in DOMAIN n.fields : n.fields[i] \in P
           /\ n.type \in {"SCOPE", "FUNCTION", "IF", "WHILE"} => n.block \in P
           /\ n.type = "IF" => n.else_block \in P /\ \A i \in DOMAIN n.else_ifs : n.else_ifs[i] \in P
<1> DEFINE P == Children(n) \cup {Null}
<1>1. /\ \A m \in DOMAIN n : m \in Pointers \cup {"block"} => n[m] \in P
      /\ \A m \in DOMAIN n : m \in Vectors \cup {"else_ifs"} => \A i \in DOMAIN n[m] : n[m][i] \in P
  BY PartsOf
<1> HIDE DEF P
<1>2. /\ \A m \in {"of", "expr", "left", "right", "param", "else_block", "block"} : m \in DOMAIN n => n[m] \in P
      /\ \A m \in {"vec", "vals", "stmts", "params", "fields", "else_ifs"} :
            m \in DOMAIN n => \A i \in DOMAIN n[m] : n[m][i] \in P
  BY <1>1 DEF Pointers, Vectors
<1>3. /\ n.type \in {"DECL", "DECLARE", "FUNCTION"} => n.of \in P
      /\ n.type \in {"CALL", "UNARY_OP", "WHILE", "RETURN", "IF"} => n.expr \in P
      /\ n.type \in {"BINARY_OP", "SUBSCRIPT", "SLOT"} => n.left \in P /\ n.right \in P
      /\ n.type = "INPUT" => n.param \in P
      /\ n.type \in {"SCOPE", "FUNCTION", "IF", "WHILE"} => n.block \in P
      /\ n.type = "IF" => n.else_block \in P
  BY <1>2, DomainOf
<1>4. /\ n.type \in {"DECL", "DIM"} => \A i \in DOMAIN n.vec : n.vec[i] \in P
      /\ n.type = "ARRAY" => \A i \in DOMAIN n.vals : n.vals[i] \in P
      /\ n.type = "BLOCK" => \A i \in DOMAIN n.stmts : n.stmts[i] \in P
      /\ n.type \in {"DECLARE", "FUNCTION", "PRINT"} => \A i \in DOMAIN n.params : n.params[i] \in P
      /\ n.type = "TYPE" => \A i \in DOMAIN n.fields : n.fields[i] \in P
      /\ n.type = "IF" => \A i \in DOMAIN n.else_ifs : n.else_ifs[i] \in P
  BY <1>2, DomainOf
<1>5. QED
  BY <1>3, <1>4 DEF P

\* What is called a part of a node here is one of Nodes.
LEMMA ChildrenAreNodes ==
    ASSUME NEW n \in Nodes
    PROVE  Children(n) \subseteq Nodes
<1> DEFINE Node == Nodes \cup {Null}
           P1 == {n[m] : m \in (Pointers \cup {"block"}) \cap DOMAIN n}
           P2 == UNION {Elems(n[m]) : m \in (Vectors \cup {"else_ifs"}) \cap DOMAIN n}
           P3 == IF n.type # "HASH" THEN {}
                 ELSE UNION {{n.pairs[i].key, n.pairs[i].val} : i \in DOMAIN n.pairs}
           P4 == IF n.type # "CALL" \/ n.args = Null THEN {}
                 ELSE Elems(n.args.vec) \cup {n.args.hash[i].val : i \in DOMAIN n.args.hash}
<1>1. Grown(Nodes, n)
  BY NodesAssumption DEF Forest
<1>2. DOMAIN n = {"type"} \cup ExprMembers(n.type) \cup StmtMembers(n.type)
  BY <1>1 DEF Grown, IsNode
<1>3. OfType(Nodes, "BLOCK") \subseteq Nodes /\ OfType(Nodes, "IF") \subseteq Nodes
  BY DEF OfType
<1>4. P1 \subseteq Node
  <2>1. \A m \in Pointers \cap DOMAIN n : n[m] \in Node
    BY <1>1, Zenon DEF Grown
  <2>2. "block" \in DOMAIN n => n.type \in {"SCOPE", "FUNCTION", "IF", "WHILE"}
    BY <1>2 DEF ExprMembers, StmtMembers
  <2>3. "block" \in DOMAIN n => n.block \in Nodes
    BY <1>1, <1>3, <2>2, Zenon DEF Grown
  <2>4. QED
    BY <2>1, <2>3
<1>5. P2 \subseteq Node
  <2>1. \A m \in Vectors \cap DOMAIN n : n[m] \in Seq(Node)
    BY <1>1, Zenon DEF Grown
  <2>2. "else_ifs" \in DOMAIN n => n.type = "IF"
    BY <1>2 DEF ExprMembers, StmtMembers
  <2>3. "else_ifs" \in DOMAIN n => n.else_ifs \in Seq(OfType(Nodes, "IF"))
    BY <1>1, <2>2, Zenon DEF Grown
  <2>4. "else_ifs" \in DOMAIN n => n.else_ifs \in Seq(Node)
    BY <1>3, <2>3, SeqMonotonic
  <2> HIDE DEF Node
  <2>5. \A m \in (Vectors \cup {"else_ifs"}) \cap DOMAIN n : n[m] \in Seq(Node)
    BY <2>1, <2>4
  <2>6. \A m \in (Vectors \cup {"else_ifs"}) \cap DOMAIN n : \A i \in DOMAIN n[m] : n[m][i] \in Node
    BY <2>5, ElementOfSeq
  <2>7. QED
    BY <2>6 DEF Elems
<1>6. P3 \subseteq Node
  <2>1. SUFFICES ASSUME n.type = "HASH", NEW i \in DOMAIN n.pairs
                 PROVE  n.pairs[i].key \in Node /\ n.pairs[i].val \in Node
    OBVIOUS
  <2> DEFINE V == [type : {"HASH_PAIR"}, key : Node, val : Node]
  <2>2. n.pairs \in Seq(V)
    BY <1>1, <2>1, Zenon DEF Grown
  <2>3. n.pairs[i] \in V
    <3> HIDE DEF V
    <3>1. QED
      BY <2>1, <2>2, ElementOfSeq
  <2>4. QED
    BY <2>3
<1>7. P4 \subseteq Node
  <2>1. SUFFICES ASSUME n.type = "CALL", n.args # Null
                 PROVE  /\ \A i \in DOMAIN n.args.vec : n.args.vec[i] \in Node
                        /\ \A i \in DOMAIN n.args.hash : n.args.hash[i].val \in Node
    BY DEF Elems
  <2> DEFINE V == [slot : STRING, val : Node]
  <2>2. n.args.vec \in Seq(Node) /\ n.args.hash \in Seq(V)
    BY <1>1, <2>1, Zenon DEF Grown
  <2>3. \A i \in DOMAIN n.args.vec : n.args.vec[i] \in Node
    <3> HIDE DEF Node
    <3>1. QED
      BY <2>2, ElementOfSeq
  <2>4. \A i \in DOMAIN n.args.hash : n.args.hash[i] \in V
    <3> HIDE DEF V
    <3>1. QED
      BY <2>2, ElementOfSeq
  <2>5. \A i \in DOMAIN n.args.hash : n.args.hash[i].val \in Node
    BY <2>4
  <2>6. QED
    BY <2>3, <2>5
<1>8. Children(n) = (P1 \cup P2 \cup P3 \cup P4) \ {Null}
  BY DEF Children
<1> HIDE DEF P1, P2, P3, P4
<1>9. QED
  BY <1>4, <1>5, <1>6, <1>7, <1>8

\* The nodes near a node are nodes, lower ones.
LEMMA NearIsLower ==
    ASSUME NEW n \in Nodes, NEW m \in Near(n)
    PROVE  m \in Nodes /\ Height[m] \in Nat /\ Height[n] \in Nat /\ Height[m] < Height[n]
<1>1. \A p \in Nodes : Height[p] \in Nat /\ \A q \in Children(p) : q \in Nodes /\ Height[q] < Height[p]
  BY HeightAssumption, ChildrenAreNodes
<1>2. QED
  BY <1>1 DEF Near

\* Missing parts, and the parts of parts.
LEMMA NearParts ==
    ASSUME NEW n
    PROVE  /\ Children(n) \cup {Null} \subseteq Near(n) \cup {Null}
           /\ \A m \in Children(n) : Children(m) \cup {Null} \subseteq Near(n) \cup {Null}
BY DEF Near

-----------------------------------------------------------------------------
(* The handlers print the forms of their nodes.                            *)

\* The pages of all that stands in the page of a node.
AllReady(pages, n) == \A m \in Near(n) \cup {Null} : Ready(pages, m)

\* The parts of a node, and the parts of its parts, have pages.
LEMMA PartsReady ==
    ASSUME NEW pages, NEW n \in Nodes, AllReady(pages, n)
    PROVE  /\ \A m \in Children(n) \cup {Null} : Ready(pages, m)
           /\ \A m \in Children(n) \cup {Null} : \A k \in Children(m) \cup {Null} : Ready(pages, k)
<1>1. \A m \in Near(n) \cup {Null} : Ready(pages, m)
  BY DEF AllReady
<1>2. Children(n) \cup {Null} \subseteq Near(n) \cup {Null}
  BY NearParts
<1>3. \A m \in Children(n) : Children(m) \cup {Null} \subseteq Near(n) \cup {Null}
  BY NearParts
<1>4. Children(Null) = {}
  <2>1. DOMAIN Null = {"type"} /\ Null.type = "NULL"
    BY DEF Null
  <2>2. /\ (Pointers \cup {"block"}) \cap DOMAIN Null = {}
        /\ (Vectors \cup {"else_ifs"}) \cap DOMAIN Null = {}
    BY <2>1 DEF Pointers, Vectors
  <2> DEFINE P1 == {Null[m] : m \in (Pointers \cup {"block"}) \cap DOMAIN Null}
             P2 == UNION {Elems(Null[m]) : m \in (Vectors \cup {"else_ifs"}) \cap DOMAIN Null}
             P3 == IF Null.type # "HASH" THEN {}
                   ELSE UNION {{Null.pairs[i].key, Null.pairs[i].val} : i \in DOMAIN Null.pairs}
             P4 == IF Null.type # "CALL" \/ Null.args = Null THEN {}
                   ELSE Elems(Null.args.vec) \cup {Null.args.hash[i].val : i \in DOMAIN Null.args.hash}
  <2>3. P1 = {} /\ P2 = {}
    BY <2>2
  <2>4. P3 = {} /\ P4 = {}
    BY <2>1
  <2>5. Children(Null) = (P1 \cup P2 \cup P3 \cup P4) \ {Null}
    BY DEF Children
  <2> HIDE DEF P1, P2, P3, P4
  <2>6. QED
    BY <2>3, <2>4, <2>5
<1>5. \A m \in Children(n) \cup {Null} : Children(m) \cup {Null} \subseteq Near(n) \cup {Null}
  BY <1>3, <1>4
<1>6. QED
  BY <1>1, <1>2, <1>5

\* Handlers and forms, type by type: numbers, names and strings,
LEMMA AtomSays ==
    ASSUME NEW n, n.type \in {"INT", "DOUBLE", "ID", "STRING"}, NEW pages, NEW d \in Int
    PROVE  Says(visit_atom(n), d, Form(n, d, pages), d)
<1>1. ASSUME NEW s, NEW x, Says(<<x>>, d, <<x>>, d)
      PROVE  Says(<<Open(s), x, Close>>, d, <<Open(s), x, Close>>, d)
  <2>1. Says(<<Open(s)>>, d, <<Open(s)>>, d) /\ Says(<<Close>>, d, <<Close>>, d)
    BY SaysItem
  <2>2. Says(<<Open(s), x>>, d, <<Open(s)>> \o <<x>>, d)
    BY <1>1, <2>1, SaysTwo
  <2>3. Says(<<Open(s), x, Close>>, d, <<Open(s)>> \o <<x>> \o <<Close>>, d)
    BY <2>1, <2>2, SaysThree
  <2>4. <<Open(s), x>> = <<Open(s)>> \o <<x>>
    BY LongerTwo, Zenon
  <2>5. <<Open(s), x, Close>> = <<Open(s), x>> \o <<Close>>
    BY LongerThree, Zenon
  <2>6. QED
    BY <2>3, <2>4, <2>5, Zenon
<1>2. \A s : Says(<<Word(s)>>, d, <<Word(s)>>, d) /\ Says(<<Num(s)>>, d, <<Num(s)>>, d)
  BY SaysItem
<1>3. CASE n.type = "INT"
  BY <1>1, <1>2, <1>3 DEF visit_atom, Form
<1>4. CASE n.type = "DOUBLE"
  BY <1>1, <1>2, <1>4 DEF visit_atom, Form
<1>5. CASE n.type = "ID"
  BY <1>1, <1>2, <1>5 DEF visit_atom, Form
<1>6. CASE n.type = "STRING"
  BY <1>1, <1>2, <1>6 DEF visit_atom, Form
<1>7. QED
  BY <1>3, <1>4, <1>5, <1>6

\* declarations,
LEMMA DeclSays ==
    ASSUME NEW n \in Nodes, n.type = "DECL", NEW pages, AllReady(pages, n), NEW d \in Int
    PROVE  Says(visit_decl(n), d, Form(n, d, pages), d)
<1>1. d + 1 \in Int
  OBVIOUS
<1>2. n.vec \in Seq(Nodes \cup {Null})
  BY Members
<1>3. Ready(pages, n.of) /\ \A i \in DOMAIN n.vec : Ready(pages, n.vec[i])
  BY PartMembers, PartsReady
<1>4. Says(<<Open("decl"), Deeper>>, d, <<Open("decl")>>, d + 1) /\ Says(<<Close, Back>>, d + 1, <<Close>>, d)
  BY EndsSay
<1>5. Says(Lines(n.vec), d + 1, Rows(pages, n.vec, d + 1), d + 1)
  BY <1>1, <1>2, <1>3, LinesSay
<1>6. Says(Optional(<<NL, INDENT, Word(":")>>, n.of), d + 1, Marked(pages, ":", n.of, d + 1), d + 1)
  BY <1>1, <1>3, MarkedSays
<1>7. Says(visit_decl(n), d,
           <<Open("decl")>> \o Rows(pages, n.vec, d + 1) \o Marked(pages, ":", n.of, d + 1) \o <<Close>>, d)
  BY <1>4, <1>5, <1>6, SaysCat DEF visit_decl
<1>8. QED
  BY <1>7 DEF Form

\* dims,
LEMMA DimSays ==
    ASSUME NEW n \in Nodes, n.type = "DIM", NEW pages, AllReady(pages, n), NEW d \in Int
    PROVE  Says(visit_dim(n), d, Form(n, d, pages), d)
<1> DEFINE items == [i \in DOMAIN n.vec |-> Line(n.vec[i].left)
                                            \o Optional(<<NL, INDENT, Word("=")>>, n.vec[i].right)]
           texts == [i \in DOMAIN n.vec |-> Row(At(pages, n.vec[i].left, d + 1), d + 1)
                                            \o Marked(pages, "=", n.vec[i].right, d + 1)]
<1>1. d + 1 \in Int
  OBVIOUS
<1>2. n.vec \in Seq(OfType(Nodes, "BINARY_OP"))
  BY NodesAssumption, Zenon DEF Forest, Grown
<1>3. \A i \in DOMAIN n.vec : Says(items[i], d + 1, texts[i], d + 1)
  <2>1. TAKE i \in DOMAIN n.vec
  <2>2. n.vec[i] \in Nodes /\ n.vec[i].type = "BINARY_OP"
    BY <1>2, ElementOfSeq DEF OfType
  <2>3. n.vec[i] \in Children(n) \cup {Null}
    BY PartMembers
  <2>4. n.vec[i].left \in Children(n.vec[i]) \cup {Null} /\ n.vec[i].right \in Children(n.vec[i]) \cup {Null}
    BY <2>2, PartMembers
  <2>5. Ready(pages, n.vec[i].left) /\ Ready(pages, n.vec[i].right)
    BY <2>3, <2>4, PartsReady
  <2>6. Says(Line(n.vec[i].left), d + 1, Row(At(pages, n.vec[i].left, d + 1), d + 1), d + 1)
    BY <1>1, <2>5, LineSays
  <2>7. Says(Optional(<<NL, INDENT, Word("=")>>, n.vec[i].right), d + 1,
             Marked(pages, "=", n.vec[i].right, d + 1), d + 1)
    BY <1>1, <2>5, MarkedSays
  <2>8. QED
    BY <2>6, <2>7, SaysCat
<1> HIDE DEF items, texts
<1>4. Says(FlattenSeq([i \in DOMAIN n.vec |-> items[i]]), d + 1, FlattenSeq([i \in DOMAIN n.vec |-> texts[i]]), d + 1)
  BY <1>1, <1>2, <1>3, SaysVector
<1>5. Says(<<Open("dim"), Deeper>>, d, <<Open("dim")>>, d + 1) /\ Says(<<Close, Back>>, d + 1, <<Close>>, d)
  BY EndsSay
<1>6. Says(<<Open("dim"), Deeper>> \o FlattenSeq([i \in DOMAIN n.vec |-> items[i]]) \o <<Close, Back>>, d,
           <<Open("dim")>> \o FlattenSeq([i \in DOMAIN n.vec |-> texts[i]]) \o <<Close>>, d)
  BY <1>4, <1>5, SaysCat
<1>7. QED
  BY <1>6 DEF visit_dim, Form, Each, items, texts

\* operators,
LEMMA OpSays ==
    ASSUME NEW n \in Nodes, NEW pages, AllReady(pages, n), NEW d \in Int
    PROVE  /\ n.type = "UNARY_OP" => Says(visit_unary_op(n), d, Form(n, d, pages), d)
           /\ n.type = "BINARY_OP" => Says(visit_binary_op(n), d, Form(n, d, pages), d)
<1>1. /\ \A s : Says(<<Open(s)>>, d, <<Open(s)>>, d) /\ Says(<<Word(s)>>, d, <<Word(s)>>, d)
      /\ Says(<<Close>>, d, <<Close>>, d)
  BY SaysItem
<1>2. ASSUME NEW s, NEW m, Ready(pages, m)
      PROVE  Says(<<Open(s), Visit(m)>>, d, <<Open(s)>> \o At(pages, m, d), d)
  <2>1. Says(<<Visit(m)>>, d, At(pages, m, d), d)
    BY <1>2, SaysVisit
  <2>2. QED
    BY <1>1, <2>1, SaysTwo
<1>3. ASSUME n.type = "UNARY_OP" PROVE Says(visit_unary_op(n), d, Form(n, d, pages), d)
  <2> DEFINE m == n.expr
  <2>1. Ready(pages, m)
    BY <1>3, PartMembers, PartsReady
  <2>2. CASE n.postfix
    <3> DEFINE open == Open("")
    <3>1. visit_unary_op(n) = <<open, Visit(m), Word(n.op), Close>>
          /\ Form(n, d, pages) = <<open>> \o At(pages, m, d) \o <<Word(n.op), Close>>
      BY <1>3, <2>2 DEF visit_unary_op, Form
    <3>2. Says(<<open, Visit(m)>>, d, <<open>> \o At(pages, m, d), d)
      BY <1>2, <2>1
    <3> HIDE DEF open, m
    <3>3. <<Word(n.op), Close>> = <<Word(n.op)>> \o <<Close>>
      BY LongerTwo, Zenon
    <3>4. Says(<<Word(n.op), Close>>, d, <<Word(n.op)>> \o <<Close>>, d)
      BY <1>1, SaysTwo
    <3>5. <<open, Visit(m), Word(n.op), Close>> = <<open, Visit(m)>> \o <<Word(n.op), Close>>
      BY SplitTwoTwo
    <3>6. Says(<<open, Visit(m)>> \o <<Word(n.op), Close>>, d,
               <<open>> \o At(pages, m, d) \o (<<Word(n.op)>> \o <<Close>>), d)
      BY <3>2, <3>4, SaysCat
    <3>7. QED
      BY <3>1, <3>3, <3>5, <3>6, Zenon
  <2>3. CASE ~n.postfix
    <3>1. visit_unary_op(n) = <<Open(n.op), Visit(m), Close>>
          /\ Form(n, d, pages) = <<Open(n.op)>> \o At(pages, m, d) \o <<Close>>
      BY <1>3, <2>3 DEF visit_unary_op, Form
    <3>2. Says(<<Open(n.op), Visit(m)>>, d, <<Open(n.op)>> \o At(pages, m, d), d)
      BY <1>2, <2>1
    <3> HIDE DEF m
    <3>3. Says(<<Open(n.op), Visit(m), Close>>, d, <<Open(n.op)>> \o At(pages, m, d) \o <<Close>>, d)
      BY <1>1, <3>2, SaysThree
    <3>4. QED
      BY <3>1, <3>3
  <2>4. QED
    BY <2>2, <2>3
<1>4. ASSUME n.type = "BINARY_OP" PROVE Says(visit_binary_op(n), d, Form(n, d, pages), d)
  <2>1. Ready(pages, n.left) /\ Ready(pages, n.right)
    BY <1>4, PartMembers, PartsReady
  <2>2. Says(<<Open(n.op), Visit(n.left)>>, d, <<Open(n.op)>> \o At(pages, n.left, d), d)
    BY <1>2, <2>1
  <2>3. Says(<<Visit(n.right)>>, d, At(pages, n.right, d), d)
    BY <2>1, SaysVisit
  <2>4. Says(<<Open(n.op), Visit(n.left), Visit(n.right)>>, d,
             <<Open(n.op)>> \o At(pages, n.left, d) \o At(pages, n.right, d), d)
    BY <2>2, <2>3, SaysThree
  <2>5. Says(<<Open(n.op), Visit(n.left), Visit(n.right), Close>>, d,
             <<Open(n.op)>> \o At(pages, n.left, d) \o At(pages, n.right, d) \o <<Close>>, d)
    BY <1>1, <2>4, SaysFour
  <2>6. QED
    BY <1>4, <2>5 DEF visit_binary_op, Form
<1>5. QED
  BY <1>3, <1>4

\* arrays,
LEMMA ArraySays ==
    ASSUME NEW n \in Nodes, n.type = "ARRAY", NEW pages, AllReady(pages, n), NEW d \in Int
    PROVE  Says(visit_array(n), d, Form(n, d, pages), d)
<1> DEFINE items == [i \in DOMAIN n.vals |-> <<INDENT, Visit(n.vals[i])>>
                                             \o IF i # Len(n.vals) THEN <<NL>> ELSE <<>>]
           texts == [i \in DOMAIN n.vals |-> Pads(d + 1) \o At(pages, n.vals[i], d + 1) \o If(i # Len(n.vals), NL)]
<1>1. d + 1 \in Int
  OBVIOUS
<1>2. n.vals \in Seq(Nodes \cup {Null})
  BY Members
<1>3. \A i \in DOMAIN n.vals : Says(items[i], d + 1, texts[i], d + 1)
  <2>1. TAKE i \in DOMAIN n.vals
  <2> DEFINE m == n.vals[i]
             c == i # Len(n.vals)
             last == IF c THEN <<NL>> ELSE <<>>
  <2>2. Ready(pages, m)
    BY PartMembers, PartsReady
  <2>3. items[i] = <<INDENT, Visit(m)>> \o last
        /\ texts[i] = Pads(d + 1) \o At(pages, m, d + 1) \o If(c, NL)
    OBVIOUS
  <2> HIDE DEF m, items, texts
  <2>4. Says(<<INDENT>>, d + 1, Pads(d + 1), d + 1) /\ Says(<<Visit(m)>>, d + 1, At(pages, m, d + 1), d + 1)
    BY <1>1, <2>2, SaysItem, SaysVisit
  <2>5. Says(<<INDENT, Visit(m)>>, d + 1, Pads(d + 1) \o At(pages, m, d + 1), d + 1)
    BY <2>4, SaysTwo
  <2>6. Says(last, d + 1, If(c, NL), d + 1)
    BY <1>1, SaysItem, SaysNothing DEF If
  <2> HIDE DEF c, last
  <2>7. QED
    BY <2>3, <2>5, <2>6, SaysCat
<1> HIDE DEF items, texts
<1>4. Says(FlattenSeq([i \in DOMAIN n.vals |-> items[i]]), d + 1, FlattenSeq([i \in DOMAIN n.vals |-> texts[i]]), d + 1)
  BY <1>1, <1>2, <1>3, SaysVector
<1>5. Says(<<Open("array"), NL, Deeper>>, d, <<Open("array"), NL>>, d + 1) /\ Says(<<Back, Close>>, d + 1, <<Close>>, d)
  BY EndsSay
<1>6. Says(<<Open("array"), NL, Deeper>> \o FlattenSeq([i \in DOMAIN n.vals |-> items[i]]) \o <<Back, Close>>, d,
           <<Open("array"), NL>> \o FlattenSeq([i \in DOMAIN n.vals |-> texts[i]]) \o <<Close>>, d)
  BY <1>4, <1>5, SaysCat
<1>7. QED
  BY <1>6 DEF visit_array, Form, Each, items, texts

\* hashes,
LEMMA HashSays ==
    ASSUME NEW n \in Nodes, n.type = "HASH", NEW pages, AllReady(pages, n), NEW d \in Int
    PROVE  Says(visit_hash(n), d, Form(n, d, pages), d)
<1> DEFINE V == [type : {"HASH_PAIR"}, key : Nodes \cup {Null}, val : Nodes \cup {Null}]
           colon == Word(":")
           items == [i \in DOMAIN n.pairs |-> <<INDENT, Visit(n.pairs[i].key), colon, Visit(n.pairs[i].val), NL>>]
           texts == [i \in DOMAIN n.pairs |-> Pads(d + 1) \o At(pages, n.pairs[i].key, d + 1) \o <<colon>>
                                              \o At(pages, n.pairs[i].val, d + 1) \o <<NL>>]
<1>1. d + 1 \in Int
  OBVIOUS
<1>2. n.pairs \in Seq(V)
  BY NodesAssumption, Zenon DEF Forest, Grown
<1>3. \A i \in DOMAIN n.pairs : Says(items[i], d + 1, texts[i], d + 1)
  <2>1. TAKE i \in DOMAIN n.pairs
  <2> DEFINE k == n.pairs[i].key
             v == n.pairs[i].val
  <2>2. k \in Children(n) \cup {Null} /\ v \in Children(n) \cup {Null}
    BY PartsOf
  <2>3. Ready(pages, k) /\ Ready(pages, v)
    BY <2>2, PartsReady
  <2>4. items[i] = <<INDENT, Visit(k), colon, Visit(v), NL>>
        /\ texts[i] = Pads(d + 1) \o At(pages, k, d + 1) \o <<colon>> \o At(pages, v, d + 1) \o <<NL>>
    OBVIOUS
  <2>5. /\ Says(<<INDENT>>, d + 1, Pads(d + 1), d + 1) /\ Says(<<Visit(k)>>, d + 1, At(pages, k, d + 1), d + 1)
        /\ Says(<<Visit(v)>>, d + 1, At(pages, v, d + 1), d + 1)
        /\ Says(<<colon>>, d + 1, <<colon>>, d + 1) /\ Says(<<NL>>, d + 1, <<NL>>, d + 1)
    BY <1>1, <2>3, SaysItem, SaysVisit
  <2> HIDE DEF k, v, items, texts, colon, V
  <2>6. Says(<<INDENT, Visit(k)>>, d + 1, Pads(d + 1) \o At(pages, k, d + 1), d + 1)
    BY <2>5, SaysTwo
  <2>7. Says(<<INDENT, Visit(k), colon>>, d + 1, Pads(d + 1) \o At(pages, k, d + 1) \o <<colon>>, d + 1)
    BY <2>5, <2>6, SaysThree
  <2>8. Says(<<INDENT, Visit(k), colon, Visit(v)>>, d + 1,
             Pads(d + 1) \o At(pages, k, d + 1) \o <<colon>> \o At(pages, v, d + 1), d + 1)
    BY <2>5, <2>7, SaysFour
  <2>9. Says(<<INDENT, Visit(k), colon, Visit(v), NL>>, d + 1,
             Pads(d + 1) \o At(pages, k, d + 1) \o <<colon>> \o At(pages, v, d + 1) \o <<NL>>, d + 1)
    BY <2>5, <2>8, SaysFive
  <2>10. QED
    BY <2>4, <2>9
<1> HIDE DEF items, texts, V
<1>4. Says(FlattenSeq([i \in DOMAIN n.pairs |-> items[i]]), d + 1, FlattenSeq([i \in DOMAIN n.pairs |-> texts[i]]), d + 1)
  BY <1>1, <1>2, <1>3, SaysVector
<1>5. Says(<<Open("hash"), NL, Deeper>>, d, <<Open("hash"), NL>>, d + 1) /\ Says(<<Back, Close>>, d + 1, <<Close>>, d)
  BY EndsSay
<1>6. Says(<<Open("hash"), NL, Deeper>> \o FlattenSeq([i \in DOMAIN n.pairs |-> items[i]]) \o <<Back, Close>>, d,
           <<Open("hash"), NL>> \o FlattenSeq([i \in DOMAIN n.pairs |-> texts[i]]) \o <<Close>>, d)
  BY <1>4, <1>5, SaysCat
<1>7. QED
  BY <1>6 DEF visit_hash, Form, Each, items, texts, colon

\* subscripts and slots,
LEMMA MemberSays ==
    ASSUME NEW n \in Nodes, NEW pages, AllReady(pages, n), NEW d \in Int
    PROVE  /\ n.type = "SUBSCRIPT" => Says(visit_subscript(n), d, Form(n, d, pages), d)
           /\ n.type = "SLOT" => Says(visit_slot(n), d, Form(n, d, pages), d)
<1>1. d + 1 \in Int
  OBVIOUS
<1>2. SUFFICES ASSUME n.type \in {"SUBSCRIPT", "SLOT"}
               PROVE  /\ n.type = "SUBSCRIPT" => Says(visit_subscript(n), d, Form(n, d, pages), d)
                      /\ n.type = "SLOT" => Says(visit_slot(n), d, Form(n, d, pages), d)
  OBVIOUS
<1> DEFINE l == n.left
           r == n.right
<1>3. Ready(pages, l) /\ Ready(pages, r)
  BY <1>2, PartMembers, PartsReady
<1>4. ASSUME NEW s
      PROVE  Says(<<Open(s), NL, Deeper, INDENT, Visit(l), NL, INDENT, Visit(r), Back, Close>>, d,
                  <<Open(s)>> \o Row(At(pages, l, d + 1), d + 1) \o Row(At(pages, r, d + 1), d + 1) \o <<Close>>, d)
  <2> HIDE DEF l, r
  <2> DEFINE open == Open(s)
  <2>1. Says(<<open>>, d, <<open>>, d) /\ Says(<<Back, Close>>, d + 1, <<Close>>, d)
    BY SaysItem, EndsSay
  <2>2. Says(<<NL, Deeper, INDENT, Visit(l)>>, d, Row(At(pages, l, d + 1), d + 1), d + 1)
    BY <1>3, DeeperLineSays
  <2>3. Says(<<NL, INDENT, Visit(r)>>, d + 1, Row(At(pages, r, d + 1), d + 1), d + 1)
    BY <1>1, <1>3, LineSays DEF Line
  <2> HIDE DEF open
  <2>4. <<open, NL, Deeper, INDENT, Visit(l)>> = <<open>> \o <<NL, Deeper, INDENT, Visit(l)>>
    BY SplitOneFour, Zenon
  <2>5. <<open, NL, Deeper, INDENT, Visit(l), NL, INDENT, Visit(r)>>
            = <<open, NL, Deeper, INDENT, Visit(l)>> \o <<NL, INDENT, Visit(r)>>
    BY SplitFiveThree
  <2>6. <<open, NL, Deeper, INDENT, Visit(l), NL, INDENT, Visit(r), Back, Close>>
            = <<open, NL, Deeper, INDENT, Visit(l), NL, INDENT, Visit(r)>> \o <<Back, Close>>
    BY SplitEightTwo
  <2>7. Says(<<open>> \o <<NL, Deeper, INDENT, Visit(l)>> \o <<NL, INDENT, Visit(r)>> \o <<Back, Close>>, d,
             <<open>> \o Row(At(pages, l, d + 1), d + 1) \o Row(At(pages, r, d + 1), d + 1) \o <<Close>>, d)
    BY <2>1, <2>2, <2>3, SaysCat
  <2>8. QED
    BY <2>4, <2>5, <2>6, <2>7, Zenon DEF open
<1>5. CASE n.type = "SUBSCRIPT"
  BY <1>4, <1>5 DEF visit_subscript, Form
<1>6. CASE n.type = "SLOT"
  BY <1>4, <1>6 DEF visit_slot, Form
<1>7. QED
  BY <1>2, <1>5, <1>6

\* the arguments of a call,
LEMMA ArgumentsSay ==
    ASSUME NEW n \in Nodes, n.type = "CALL", NEW pages, AllReady(pages, n), NEW d \in Int
    PROVE  Says(IF n.args = Null THEN <<Visit(Null)>>
                ELSE IF n.args.vec = <<>> THEN <<>>
                ELSE <<NL, INDENT>>
                     \o Each(n.args.vec, LAMBDA i, a : <<Visit(a)>>)
                     \o Each(n.args.hash, LAMBDA i, h : <<Word(h.slot), Visit(h.val)>>),
                d, Arguments(pages, n.args, d), d)
<1> DEFINE plain      == [i \in DOMAIN n.args.vec |-> <<Visit(n.args.vec[i])>>]
           named      == [i \in DOMAIN n.args.hash |-> <<Word(n.args.hash[i].slot), Visit(n.args.hash[i].val)>>]
           plainTexts == [i \in DOMAIN n.args.vec |-> At(pages, n.args.vec[i], d)]
           namedTexts == [i \in DOMAIN n.args.hash |-> <<Word(n.args.hash[i].slot)>> \o At(pages, n.args.hash[i].val, d)]
<1>1. CASE n.args = Null
  <2>1. Ready(pages, Null)
    BY DEF AllReady
  <2>2. Says(<<Visit(Null)>>, d, At(pages, Null, d), d)
    BY <2>1, SaysVisit
  <2>3. Arguments(pages, n.args, d) = At(pages, Null, d)
    BY <1>1 DEF Arguments, At
  <2>4. QED
    BY <1>1, <2>2, <2>3
<1>2. CASE n.args # Null /\ n.args.vec = <<>>
  <2>1. Says(<<>>, d, <<>>, d)
    BY SaysNothing
  <2>2. QED
    BY <1>2, <2>1 DEF Arguments
<1>3. CASE n.args # Null /\ n.args.vec # <<>>
  <2> DEFINE V == [slot : STRING, val : Nodes \cup {Null}]
  <2>1. n.args.vec \in Seq(Nodes \cup {Null}) /\ n.args.hash \in Seq(V)
    BY NodesAssumption, <1>3, Zenon DEF Forest, Grown
  <2>2. \A i \in DOMAIN n.args.vec : Ready(pages, n.args.vec[i])
    BY <1>3, PartsOf, PartsReady
  <2>3. \A i \in DOMAIN n.args.hash : Ready(pages, n.args.hash[i].val)
    BY <1>3, PartsOf, PartsReady
  <2>4. \A i \in DOMAIN n.args.vec : Says(plain[i], d, plainTexts[i], d)
    BY <2>2, SaysVisit
  <2>5. \A i \in DOMAIN n.args.hash : Says(named[i], d, namedTexts[i], d)
    <3>1. TAKE i \in DOMAIN n.args.hash
    <3> DEFINE v == n.args.hash[i].val
               w == Word(n.args.hash[i].slot)
    <3>2. Says(<<Visit(v)>>, d, At(pages, v, d), d) /\ Says(<<w>>, d, <<w>>, d)
      BY <2>3, SaysVisit, SaysItem
    <3>3. named[i] = <<w, Visit(v)>> /\ namedTexts[i] = <<w>> \o At(pages, v, d)
      OBVIOUS
    <3> HIDE DEF v, w, named, namedTexts
    <3>4. Says(<<w, Visit(v)>>, d, <<w>> \o At(pages, v, d), d)
      BY <3>2, SaysTwo
    <3>5. QED
      BY <3>3, <3>4
  <2>6. Says(<<NL, INDENT>>, d, <<NL>> \o Pads(d), d)
    <3>1. Says(<<NL>>, d, <<NL>>, d) /\ Says(<<INDENT>>, d, Pads(d), d)
      BY SaysItem
    <3>2. QED
      BY <3>1, SaysTwo
  <2> HIDE DEF plain, named, plainTexts, namedTexts, V
  <2>7. /\ Says(FlattenSeq([i \in DOMAIN n.args.vec |-> plain[i]]), d,
                FlattenSeq([i \in DOMAIN n.args.vec |-> plainTexts[i]]), d)
        /\ Says(FlattenSeq([i \in DOMAIN n.args.hash |-> named[i]]), d,
                FlattenSeq([i \in DOMAIN n.args.hash |-> namedTexts[i]]), d)
    BY <2>1, <2>4, <2>5, SaysVector
  <2>8. Says(<<NL, INDENT>> \o FlattenSeq([i \in DOMAIN n.args.vec |-> plain[i]])
                \o FlattenSeq([i \in DOMAIN n.args.hash |-> named[i]]), d,
             <<NL>> \o Pads(d) \o FlattenSeq([i \in DOMAIN n.args.vec |-> plainTexts[i]])
                \o FlattenSeq([i \in DOMAIN n.args.hash |-> namedTexts[i]]), d)
    BY <2>6, <2>7, SaysCat
  <2>9. QED
    BY <1>3, <2>8 DEF Arguments, Each, plain, named, plainTexts, namedTexts
<1>4. QED
  BY <1>1, <1>2, <1>3

\* calls,
LEMMA CallSays ==
    ASSUME NEW n \in Nodes, n.type = "CALL", NEW pages, AllReady(pages, n), NEW d \in Int
    PROVE  Says(visit_call(n), d, Form(n, d, pages), d)
<1> DEFINE open == Open("call")
           args == IF n.args = Null THEN <<Visit(Null)>>
                   ELSE IF n.args.vec = <<>> THEN <<>>
                   ELSE <<NL, INDENT>>
                        \o Each(n.args.vec, LAMBDA i, a : <<Visit(a)>>)
                        \o Each(n.args.hash, LAMBDA i, h : <<Word(h.slot), Visit(h.val)>>)
<1>1. d + 1 \in Int
  OBVIOUS
<1>2. Ready(pages, n.expr)
  BY PartMembers, PartsReady
<1>3. Says(args, d + 1, Arguments(pages, n.args, d + 1), d + 1)
  BY <1>1, ArgumentsSay
<1>4. visit_call(n) = <<open, NL, Deeper, INDENT, Visit(n.expr)>> \o args \o <<Back, Close>>
  BY DEF visit_call
<1>5. Form(n, d, pages) = <<open>> \o Row(At(pages, n.expr, d + 1), d + 1) \o Arguments(pages, n.args, d + 1)
                          \o <<Close>>
  BY DEF Form
<1>6. Says(<<open>>, d, <<open>>, d) /\ Says(<<Back, Close>>, d + 1, <<Close>>, d)
  BY SaysItem, EndsSay
<1>7. Says(<<NL, Deeper, INDENT, Visit(n.expr)>>, d, Row(At(pages, n.expr, d + 1), d + 1), d + 1)
  BY <1>2, DeeperLineSays
<1> HIDE DEF open, args
<1>8. <<open, NL, Deeper, INDENT, Visit(n.expr)>> = <<open>> \o <<NL, Deeper, INDENT, Visit(n.expr)>>
  BY SplitOneFour
<1>9. Says(<<open>> \o <<NL, Deeper, INDENT, Visit(n.expr)>> \o args \o <<Back, Close>>, d,
           <<open>> \o Row(At(pages, n.expr, d + 1), d + 1) \o Arguments(pages, n.args, d + 1) \o <<Close>>, d)
  BY <1>3, <1>6, <1>7, SaysCat
<1>10. QED
  BY <1>4, <1>5, <1>8, <1>9, Zenon

\* blocks: INDENT, the empty lines and the line ends between statements,
LEMMA BlockSays ==
    ASSUME NEW n \in Nodes, n.type = "BLOCK", NEW pages, AllReady(pages, n), NEW d \in Int
    PROVE  Says(visit_block(n), d, Form(n, d, pages), d)
<1> DEFINE items == [i \in DOMAIN n.stmts |-> (IF i > 1 THEN <<NL>> ELSE <<>>) \o <<INDENT, Visit(n.stmts[i]), Gap>>]
           texts == [i \in DOMAIN n.stmts |-> If(i > 1, NL) \o (Pads(d) \o At(pages, n.stmts[i], d) \o If(d = 0, NL))]
<1>1. n.stmts \in Seq(Nodes \cup {Null})
  BY Members
<1>2. \A i \in DOMAIN n.stmts : Says(items[i], d, texts[i], d)
  <2>1. TAKE i \in DOMAIN n.stmts
  <2> DEFINE m == n.stmts[i]
             c == i > 1
             first == IF c THEN <<NL>> ELSE <<>>
  <2>2. Ready(pages, m)
    BY PartMembers, PartsReady
  <2>3. items[i] = first \o <<INDENT, Visit(m), Gap>>
        /\ texts[i] = If(c, NL) \o (Pads(d) \o At(pages, m, d) \o If(d = 0, NL))
    OBVIOUS
  <2>4. Says(first, d, If(c, NL), d)
    BY SaysItem, SaysNothing DEF If
  <2> HIDE DEF m, items, texts, c, first
  <2>5. /\ Says(<<INDENT>>, d, Pads(d), d) /\ Says(<<Visit(m)>>, d, At(pages, m, d), d)
        /\ Says(<<Gap>>, d, If(d = 0, NL), d)
    BY <2>2, SaysItem, SaysVisit
  <2>6. Says(<<INDENT, Visit(m)>>, d, Pads(d) \o At(pages, m, d), d)
    BY <2>5, SaysTwo
  <2>7. Says(<<INDENT, Visit(m), Gap>>, d, Pads(d) \o At(pages, m, d) \o If(d = 0, NL), d)
    BY <2>5, <2>6, SaysThree
  <2>8. QED
    BY <2>3, <2>4, <2>7, SaysCat
<1> HIDE DEF items, texts
<1>3. Says(FlattenSeq([i \in DOMAIN n.stmts |-> items[i]]), d, FlattenSeq([i \in DOMAIN n.stmts |-> texts[i]]), d)
  BY <1>1, <1>2, SaysVector
<1>4. QED
  BY <1>3 DEF visit_block, Form, Each, items, texts

\* scopes,
LEMMA ScopeSays ==
    ASSUME NEW n \in Nodes, n.type = "SCOPE", NEW pages, AllReady(pages, n), NEW d \in Int
    PROVE  Says(visit_scope(n), d, Form(n, d, pages), d)
<1> DEFINE open == Open("scope ->")
<1>1. Ready(pages, n.block)
  BY PartMembers, PartsReady
<1>2. Says(<<open>>, d, <<open>>, d)
  BY SaysItem
<1>3. visit_scope(n) = <<open>> \o Inner(n.block) /\ Form(n, d, pages) = <<open>> \o Body(pages, n.block, d)
  BY DEF visit_scope, Form
<1>4. Says(Inner(n.block), d, Body(pages, n.block, d), d)
  BY <1>1, InnerSays
<1> HIDE DEF open
<1>5. QED
  BY <1>2, <1>3, <1>4, SaysCat

\* declares,
LEMMA DeclareSays ==
    ASSUME NEW n \in Nodes, n.type = "DECLARE", NEW pages, AllReady(pages, n), NEW d \in Int
    PROVE  Says(visit_declare(n), d, Form(n, d, pages), d)
<1> DEFINE open  == Open("declare")
           begin == Open("function")
           name  == Word(n.name)
           items == [i \in DOMAIN n.params |-> <<NL, Deeper, INDENT, Visit(n.params[i]), Back>>]
           texts == [i \in DOMAIN n.params |-> Row(At(pages, n.params[i], d + 2), d + 2)]
<1>1. d + 1 \in Int /\ (d + 1) + 1 = d + 2
  OBVIOUS
<1>2. n.params \in Seq(Nodes \cup {Null})
  BY Members
<1>3. Ready(pages, n.of) /\ \A i \in DOMAIN n.params : Ready(pages, n.params[i])
  BY PartMembers, PartsReady
<1>4. \A i \in DOMAIN n.params : Says(items[i], d + 1, texts[i], d + 1)
  <2>1. TAKE i \in DOMAIN n.params
  <2> DEFINE m == n.params[i]
  <2>2. Says(<<NL, Deeper, INDENT, Visit(m)>>, d + 1, Row(At(pages, m, (d + 1) + 1), (d + 1) + 1), (d + 1) + 1)
    BY <1>1, <1>3, DeeperLineSays
  <2>3. Says(<<Back>>, (d + 1) + 1, <<>>, d + 1)
    BY <1>1, SaysBack
  <2>4. Says(<<NL, Deeper, INDENT, Visit(m), Back>>, d + 1, Row(At(pages, m, (d + 1) + 1), (d + 1) + 1), d + 1)
    BY <2>2, <2>3, SaysFive
  <2>5. QED
    BY <1>1, <2>4
<1>5. visit_declare(n) = <<open, NL, Deeper, INDENT, begin, name>> \o Optional(<<>>, n.of)
                         \o FlattenSeq([i \in DOMAIN n.params |-> items[i]]) \o <<Back, Close, Close>>
  BY DEF visit_declare, Each
<1>6. Form(n, d, pages) = <<open>> \o Row(<<begin, name>>, d + 1) \o Beside(pages, n.of, d + 1)
                          \o FlattenSeq([i \in DOMAIN n.params |-> texts[i]]) \o <<Close, Close>>
  BY DEF Form, Rows, Each
<1>7. /\ Says(<<open>>, d, <<open>>, d)
      /\ Says(<<begin, name>>, d + 1, <<begin, name>>, d + 1)
      /\ Says(<<Back, Close, Close>>, d + 1, <<Close, Close>>, d)
  BY <1>1, SaysItem, EndsSay
<1> HIDE DEF open, begin, name, items, texts
<1>8. Says(<<NL, Deeper, INDENT, begin, name>>, d, Row(<<begin, name>>, d + 1), d + 1)
  <2>1. /\ Says(<<NL>>, d, <<NL>>, d) /\ Says(<<Deeper>>, d, <<>>, d + 1)
        /\ Says(<<INDENT>>, d + 1, Pads(d + 1), d + 1)
    BY <1>1, SaysItem
  <2>2. Says(<<NL, Deeper>>, d, <<NL>>, d + 1)
    BY <2>1, SaysTwo
  <2>3. Says(<<NL, Deeper, INDENT>>, d, <<NL>> \o Pads(d + 1), d + 1)
    BY <2>1, <2>2, SaysThree
  <2>4. <<NL, Deeper, INDENT, begin, name>> = <<NL, Deeper, INDENT>> \o <<begin, name>>
    BY SplitThreeTwo
  <2>5. Says(<<NL, Deeper, INDENT>> \o <<begin, name>>, d, <<NL>> \o Pads(d + 1) \o <<begin, name>>, d + 1)
    BY <1>7, <2>3, SaysCat
  <2>6. QED
    BY <2>4, <2>5, Zenon DEF Row
<1>9. <<open, NL, Deeper, INDENT, begin, name>> = <<open>> \o <<NL, Deeper, INDENT, begin, name>>
  BY SplitOneFive
<1>10. Says(Optional(<<>>, n.of), d + 1, Beside(pages, n.of, d + 1), d + 1)
  BY <1>1, <1>3, BesideSays
<1>11. Says(FlattenSeq([i \in DOMAIN n.params |-> items[i]]), d + 1, FlattenSeq([i \in DOMAIN n.params |-> texts[i]]), d + 1)
  BY <1>1, <1>2, <1>4, SaysVector
<1> DEFINE its == FlattenSeq([i \in DOMAIN n.params |-> items[i]])
           txs == FlattenSeq([i \in DOMAIN n.params |-> texts[i]])
<1> HIDE DEF its, txs
<1>12. Says(its, d + 1, txs, d + 1)
  BY <1>11 DEF its, txs
<1>13. Says(<<open>> \o <<NL, Deeper, INDENT, begin, name>>, d, <<open>> \o Row(<<begin, name>>, d + 1), d + 1)
  BY <1>7, <1>8, SaysCat
<1>14. Says(<<open>> \o <<NL, Deeper, INDENT, begin, name>> \o Optional(<<>>, n.of) \o its \o <<Back, Close, Close>>, d,
            <<open>> \o Row(<<begin, name>>, d + 1) \o Beside(pages, n.of, d + 1) \o txs \o <<Close, Close>>, d)
  BY <1>7, <1>10, <1>12, <1>13, SaysCat
<1>15. QED
  BY <1>5, <1>6, <1>9, <1>14, Zenon DEF its, txs

\* functions,
LEMMA FunctionSays ==
    ASSUME NEW n \in Nodes, n.type = "FUNCTION", NEW pages, AllReady(pages, n), NEW d \in Int
    PROVE  Says(visit_function(n), d, Form(n, d, pages), d)
<1> DEFINE b == n.block
           tail == <<Back, NL, Deeper, Visit(b), Back, Close>>
<1>1. d + 1 \in Int
  OBVIOUS
<1>2. n.params \in Seq(Nodes \cup {Null})
  BY Members
<1>3. Ready(pages, n.of) /\ Ready(pages, b) /\ \A i \in DOMAIN n.params : Ready(pages, n.params[i])
  BY PartMembers, PartsReady
<1>4. Says(<<Open("function"), Word(n.name), Deeper>>, d, <<Open("function"), Word(n.name)>>, d + 1)
  BY EndsSay
<1>5. Says(Optional(<<>>, n.of), d + 1, Beside(pages, n.of, d + 1), d + 1)
  BY <1>1, <1>3, BesideSays
<1>6. Says(Lines(n.params), d + 1, Rows(pages, n.params, d + 1), d + 1)
  BY <1>1, <1>2, <1>3, LinesSay
<1>7. Says(tail, d + 1, Body(pages, b, d), d)
  <2> HIDE DEF b
  <2>1. /\ Says(<<Back>>, d + 1, <<>>, d) /\ Says(<<NL>>, d, <<NL>>, d) /\ Says(<<Deeper>>, d, <<>>, d + 1)
        /\ Says(<<Visit(b)>>, d + 1, At(pages, b, d + 1), d + 1) /\ Says(<<Back, Close>>, d + 1, <<Close>>, d)
    BY <1>1, <1>3, SaysItem, SaysBack, SaysVisit, EndsSay
  <2>2. Says(<<Back, NL>>, d + 1, <<NL>>, d)
    BY <2>1, SaysTwo
  <2>3. Says(<<Back, NL, Deeper>>, d + 1, <<NL>>, d + 1)
    BY <2>1, <2>2, SaysThree
  <2>4. Says(<<Back, NL, Deeper, Visit(b)>>, d + 1, <<NL>> \o At(pages, b, d + 1), d + 1)
    BY <2>1, <2>3, SaysFour
  <2>5. Says(<<Back, NL, Deeper, Visit(b)>> \o <<Back, Close>>, d + 1, <<NL>> \o At(pages, b, d + 1) \o <<Close>>, d)
    BY <2>1, <2>4, SaysCat
  <2>6. tail = <<Back, NL, Deeper, Visit(b)>> \o <<Back, Close>>
    BY SplitFourTwo
  <2> HIDE DEF tail
  <2>7. QED
    BY <2>5, <2>6, Zenon DEF Body
<1>8. visit_function(n) = <<Open("function"), Word(n.name), Deeper>> \o Optional(<<>>, n.of) \o Lines(n.params) \o tail
  BY DEF visit_function
<1>9. Form(n, d, pages) = <<Open("function"), Word(n.name)>> \o Beside(pages, n.of, d + 1)
                          \o Rows(pages, n.params, d + 1) \o Body(pages, b, d)
  BY DEF Form
<1> HIDE DEF b, tail
<1>10. Says(<<Open("function"), Word(n.name), Deeper>> \o Optional(<<>>, n.of) \o Lines(n.params) \o tail, d,
           <<Open("function"), Word(n.name)>> \o Beside(pages, n.of, d + 1)
               \o Rows(pages, n.params, d + 1) \o Body(pages, b, d), d)
  BY <1>4, <1>5, <1>6, <1>7, SaysCat
<1>11. QED
  BY <1>8, <1>9, <1>10, Zenon

\* prints,
LEMMA PrintSays ==
    ASSUME NEW n \in Nodes, n.type = "PRINT", NEW pages, AllReady(pages, n), NEW d \in Int
    PROVE  Says(visit_print(n), d, Form(n, d, pages), d)
<1>1. d + 1 \in Int
  OBVIOUS
<1>2. n.params \in Seq(Nodes \cup {Null})
  BY Members
<1>3. \A i \in DOMAIN n.params : Ready(pages, n.params[i])
  BY PartMembers, PartsReady
<1>4. Says(<<Open("print"), Deeper>>, d, <<Open("print")>>, d + 1) /\ Says(<<Back, Close>>, d + 1, <<Close>>, d)
  BY EndsSay
<1>5. Says(Lines(n.params), d + 1, Rows(pages, n.params, d + 1), d + 1)
  BY <1>1, <1>2, <1>3, LinesSay
<1>6. Says(visit_print(n), d, <<Open("print")>> \o Rows(pages, n.params, d + 1) \o <<Close>>, d)
  BY <1>4, <1>5, SaysCat DEF visit_print
<1>7. QED
  BY <1>6 DEF Form

\* inputs,
LEMMA InputSays ==
    ASSUME NEW n \in Nodes, n.type = "INPUT", NEW pages, AllReady(pages, n), NEW d \in Int
    PROVE  Says(visit_input(n), d, Form(n, d, pages), d)
<1> DEFINE open == Open("input")
           m == n.param
<1>1. d + 1 \in Int
  OBVIOUS
<1>2. Ready(pages, m)
  BY PartMembers, PartsReady
<1>3. visit_input(n) = <<open, Deeper, Visit(m), Back, Close>>
      /\ Form(n, d, pages) = <<open>> \o At(pages, m, d + 1) \o <<Close>>
  BY DEF visit_input, Form
<1>4. /\ Says(<<open, Deeper>>, d, <<open>>, d + 1) /\ Says(<<Back, Close>>, d + 1, <<Close>>, d)
      /\ Says(<<Visit(m)>>, d + 1, At(pages, m, d + 1), d + 1)
  BY <1>1, <1>2, EndsSay, SaysVisit
<1> HIDE DEF open, m
<1>5. Says(<<open, Deeper, Visit(m)>>, d, <<open>> \o At(pages, m, d + 1), d + 1)
  BY <1>4, SaysThree
<1>6. Says(<<open, Deeper, Visit(m)>> \o <<Back, Close>>, d, <<open>> \o At(pages, m, d + 1) \o <<Close>>, d)
  BY <1>4, <1>5, SaysCat
<1>7. <<open, Deeper, Visit(m), Back, Close>> = <<open, Deeper, Visit(m)>> \o <<Back, Close>>
  BY SplitThreeTwo
<1>8. QED
  BY <1>3, <1>6, <1>7, Zenon

\* types,
LEMMA TypeSays ==
    ASSUME NEW n \in Nodes, n.type = "TYPE", NEW pages, AllReady(pages, n), NEW d \in Int
    PROVE  Says(visit_type(n), d, Form(n, d, pages), d)
<1>1. d + 1 \in Int
  OBVIOUS
<1>2. n.fields \in Seq(Nodes \cup {Null})
  BY Members
<1>3. \A i \in DOMAIN n.fields : Ready(pages, n.fields[i])
  BY PartMembers, PartsReady
<1>4. /\ Says(<<Open("type"), Word(n.name), Deeper>>, d, <<Open("type"), Word(n.name)>>, d + 1)
      /\ Says(<<Back, Close>>, d + 1, <<Close>>, d)
  BY EndsSay
<1>5. Says(Lines(n.fields), d + 1, Rows(pages, n.fields, d + 1), d + 1)
  BY <1>1, <1>2, <1>3, LinesSay
<1>6. Says(visit_type(n), d, <<Open("type"), Word(n.name)>> \o Rows(pages, n.fields, d + 1) \o <<Close>>, d)
  BY <1>4, <1>5, SaysCat DEF visit_type
<1>7. QED
  BY <1>6 DEF Form

\* whiles,
LEMMA WhileSays ==
    ASSUME NEW n \in Nodes, n.type = "WHILE", NEW pages, AllReady(pages, n), NEW d \in Int
    PROVE  Says(visit_while(n), d, Form(n, d, pages), d)
<1>1. Ready(pages, n.expr) /\ Ready(pages, n.block)
  BY PartMembers, PartsReady
<1>2. Says(<<Open("while")>>, d, <<Open("while")>>, d) /\ Says(<<Visit(n.expr)>>, d, At(pages, n.expr, d), d)
  BY <1>1, SaysItem, SaysVisit
<1>3. Says(<<Open("while"), Visit(n.expr)>>, d, <<Open("while")>> \o At(pages, n.expr, d), d)
  BY <1>2, SaysTwo
<1>4. Says(Inner(n.block), d, Body(pages, n.block, d), d)
  BY <1>1, InnerSays
<1>5. Says(visit_while(n), d, <<Open("while")>> \o At(pages, n.expr, d) \o Body(pages, n.block, d), d)
  BY <1>3, <1>4, SaysCat DEF visit_while
<1>6. QED
  BY <1>5 DEF Form

\* returns,
LEMMA ReturnSays ==
    ASSUME NEW n \in Nodes, n.type = "RETURN", NEW pages, AllReady(pages, n), NEW d \in Int
    PROVE  Says(visit_return(n), d, Form(n, d, pages), d)
<1> DEFINE m == n.expr
           operand == IF m = Null THEN <<>> ELSE <<Deeper>> \o Line(m) \o <<Back>>
           row == IF m = Null THEN <<>> ELSE Row(At(pages, m, d + 1), d + 1)
<1>1. d + 1 \in Int
  OBVIOUS
<1>2. Ready(pages, m)
  BY PartMembers, PartsReady
<1>3. /\ visit_return(n) = <<Open("return")>> \o operand \o <<Close>>
      /\ Form(n, d, pages) = <<Open("return")>> \o row \o <<Close>>
  BY DEF visit_return, Form
<1> HIDE DEF m
<1>4. Says(<<Deeper>>, d, <<>>, d + 1) /\ Says(<<Back>>, d + 1, <<>>, d)
  BY SaysItem, SaysBack
<1>5. Says(Line(m), d + 1, Row(At(pages, m, d + 1), d + 1), d + 1)
  BY <1>1, <1>2, LineSays
<1>6. Says(<<Deeper>> \o Line(m), d, Row(At(pages, m, d + 1), d + 1), d + 1)
  BY <1>4, <1>5, SaysBoth
<1>7. Says(<<Deeper>> \o Line(m) \o <<Back>>, d, Row(At(pages, m, d + 1), d + 1), d)
  BY <1>4, <1>6, SaysBoth
<1>8. Says(operand, d, row, d)
  BY <1>7, SaysNothing
<1>9. Says(<<Open("return")>>, d, <<Open("return")>>, d) /\ Says(<<Close>>, d, <<Close>>, d)
  BY SaysItem
<1> HIDE DEF operand, row
<1>10. Says(<<Open("return")>> \o operand \o <<Close>>, d, <<Open("return")>> \o row \o <<Close>>, d)
  BY <1>8, <1>9, SaysCat
<1>11. QED
  BY <1>3, <1>10

\* and ifs with all that stands beside them.
LEMMA IfSays ==
    ASSUME NEW n \in Nodes, n.type = "IF", NEW pages, AllReady(pages, n), NEW d \in Int
    PROVE  Says(visit_if(n), d, Form(n, d, pages), d)
<1> DEFINE elseif == Open("else if")
           els    == Open("else")
           b      == n.else_block
           items  == [i \in DOMAIN n.else_ifs |-> <<NL, INDENT, elseif, Visit(n.else_ifs[i].expr)>>
                                                  \o Inner(n.else_ifs[i].block)]
           texts  == [i \in DOMAIN n.else_ifs |-> Row(<<elseif>>, d) \o At(pages, n.else_ifs[i].expr, d)
                                                  \o Body(pages, n.else_ifs[i].block, d)]
           last   == IF b = Null THEN <<>> ELSE <<NL, INDENT, els, NL, Deeper, Visit(b), Back, Close>>
           ending == IF b = Null THEN <<>> ELSE Row(<<els>>, d) \o Body(pages, b, d)
<1>1. n.else_ifs \in Seq(OfType(Nodes, "IF"))
  BY NodesAssumption, Zenon DEF Forest, Grown
<1>2. Ready(pages, n.expr) /\ Ready(pages, n.block) /\ Ready(pages, b)
  BY PartMembers, PartsReady
<1>3. visit_if(n) = <<Open("if"), Visit(n.expr)>> \o Inner(n.block)
                    \o FlattenSeq([i \in DOMAIN n.else_ifs |-> items[i]]) \o last
  BY DEF visit_if, Each
<1>4. Form(n, d, pages) = <<Open("if")>> \o At(pages, n.expr, d) \o Body(pages, n.block, d)
                          \o FlattenSeq([i \in DOMAIN n.else_ifs |-> texts[i]]) \o ending
  BY DEF Form, Each
<1>5. /\ Says(<<elseif>>, d, <<elseif>>, d) /\ Says(<<els>>, d, <<els>>, d)
      /\ Says(<<NL>>, d, <<NL>>, d) /\ Says(<<INDENT>>, d, Pads(d), d)
  BY SaysItem
<1> HIDE DEF elseif, els
<1>6. Says(<<NL, INDENT>>, d, <<NL>> \o Pads(d), d)
  BY <1>5, SaysTwo
<1>7. \A i \in DOMAIN n.else_ifs : Says(items[i], d, texts[i], d)
  <2>1. TAKE i \in DOMAIN n.else_ifs
  <2> DEFINE x == n.else_ifs[i].expr
             y == n.else_ifs[i].block
  <2>2. n.else_ifs[i] \in Nodes /\ n.else_ifs[i].type = "IF"
    BY <1>1, ElementOfSeq DEF OfType
  <2>3. n.else_ifs[i] \in Children(n) \cup {Null}
    BY PartMembers
  <2>4. x \in Children(n.else_ifs[i]) \cup {Null} /\ y \in Children(n.else_ifs[i]) \cup {Null}
    BY <2>2, PartMembers
  <2>5. Ready(pages, x) /\ Ready(pages, y)
    BY <2>3, <2>4, PartsReady
  <2>6. items[i] = <<NL, INDENT, elseif, Visit(x)>> \o Inner(y)
        /\ texts[i] = Row(<<elseif>>, d) \o At(pages, x, d) \o Body(pages, y, d)
    OBVIOUS
  <2> HIDE DEF x, y, items, texts
  <2>7. Says(<<NL, INDENT, elseif>>, d, <<NL>> \o Pads(d) \o <<elseif>>, d)
    BY <1>5, <1>6, SaysThree
  <2>8. Says(<<Visit(x)>>, d, At(pages, x, d), d)
    BY <2>5, SaysVisit
  <2>9. Says(<<NL, INDENT, elseif, Visit(x)>>, d, <<NL>> \o Pads(d) \o <<elseif>> \o At(pages, x, d), d)
    BY <2>7, <2>8, SaysFour
  <2>10. Says(Inner(y), d, Body(pages, y, d), d)
    BY <2>5, InnerSays
  <2>11. Says(<<NL, INDENT, elseif, Visit(x)>> \o Inner(y), d,
              <<NL>> \o Pads(d) \o <<elseif>> \o At(pages, x, d) \o Body(pages, y, d), d)
    BY <2>9, <2>10, SaysCat
  <2>12. QED
    BY <2>6, <2>11 DEF Row
<1>8. Says(last, d, ending, d)
  <2> HIDE DEF b
  <2>1. Says(<<NL, INDENT, els>>, d, <<NL>> \o Pads(d) \o <<els>>, d)
    BY <1>5, <1>6, SaysThree
  <2>2. Says(<<NL, Deeper, Visit(b), Back, Close>>, d, Body(pages, b, d), d)
    BY <1>2, InnerSays
  <2>3. Says(<<NL, INDENT, els>> \o <<NL, Deeper, Visit(b), Back, Close>>, d,
             Row(<<els>>, d) \o Body(pages, b, d), d)
    BY <2>1, <2>2, SaysCat DEF Row
  <2>4. <<NL, INDENT, els, NL, Deeper, Visit(b), Back, Close>>
            = <<NL, INDENT, els>> \o <<NL, Deeper, Visit(b), Back, Close>>
    BY SplitThreeFive
  <2>5. Says(<<>>, d, <<>>, d)
    BY SaysNothing
  <2>6. CASE b = Null
    <3>1. last = <<>> /\ ending = <<>>
      BY <2>6
    <3>2. QED
      BY <2>5, <3>1
  <2>7. CASE b # Null
    <3>1. last = <<NL, INDENT, els, NL, Deeper, Visit(b), Back, Close>>
          /\ ending = Row(<<els>>, d) \o Body(pages, b, d)
      BY <2>7
    <3> HIDE DEF last, ending
    <3>2. QED
      BY <2>3, <2>4, <3>1, Zenon
  <2>8. QED
    BY <2>6, <2>7
<1> HIDE DEF items, texts, last, ending
<1>9. Says(FlattenSeq([i \in DOMAIN n.else_ifs |-> items[i]]), d, FlattenSeq([i \in DOMAIN n.else_ifs |-> texts[i]]), d)
  BY <1>1, <1>7, SaysVector
<1>10. Says(<<Open("if"), Visit(n.expr)>>, d, <<Open("if")>> \o At(pages, n.expr, d), d)
  <2>1. Says(<<Open("if")>>, d, <<Open("if")>>, d) /\ Says(<<Visit(n.expr)>>, d, At(pages, n.expr, d), d)
    BY <1>2, SaysItem, SaysVisit
  <2>2. QED
    BY <2>1, SaysTwo
<1>11. Says(Inner(n.block), d, Body(pages, n.block, d), d)
  BY <1>2, InnerSays
<1>12. Says(<<Open("if"), Visit(n.expr)>> \o Inner(n.block)
                \o FlattenSeq([i \in DOMAIN n.else_ifs |-> items[i]]) \o last, d,
            <<Open("if")>> \o At(pages, n.expr, d) \o Body(pages, n.block, d)
                \o FlattenSeq([i \in DOMAIN n.else_ifs |-> texts[i]]) \o ending, d)
  BY <1>8, <1>9, <1>10, <1>11, SaysCat
<1>13. QED
  BY <1>3, <1>4, <1>12

\* Every handler prints the form of its node, and ends at the depth where it began.
LEMMA HandlerSays ==
    ASSUME NEW n \in Nodes, NEW pages, AllReady(pages, n), NEW d \in Int
    PROVE  Says(Handler(n), d, Form(n, d, pages), d)
<1>1. n.type \in Visited
  BY Members
<1>2. CASE n.type \in {"INT", "DOUBLE", "ID", "STRING", "DECL", "DIM", "UNARY_OP", "BINARY_OP"}
  BY <1>2, AtomSays, DeclSays, DimSays, OpSays DEF Handler
<1>3. CASE n.type \in {"ARRAY", "HASH", "SUBSCRIPT", "SLOT", "CALL"}
  BY <1>3, ArraySays, HashSays, MemberSays, CallSays DEF Handler
<1>4. CASE n.type \in {"BLOCK", "SCOPE", "DECLARE", "FUNCTION", "PRINT"}
  BY <1>4, BlockSays, ScopeSays, DeclareSays, FunctionSays, PrintSays DEF Handler
<1>5. CASE n.type \in {"INPUT", "TYPE", "WHILE", "RETURN", "IF"}
  BY <1>5, InputSays, TypeSays, WhileSays, ReturnSays, IfSays DEF Handler
<1>6. QED
  BY <1>1, <1>2, <1>3, <1>4, <1>5 DEF Visited

-----------------------------------------------------------------------------
(* The function pageOf exists: a page is made of the pages of lower nodes. *)

Upto(h)        == {n \in Nodes : Height[n] <= h}
PageFrom(f, n) == [d \in Int |-> Form(n, d, [m \in Near(n) |-> f[m]])]
Paged(f, h)    == f = [n \in Upto(h) |-> PageFrom(f, n)]

\* A page depends on the pages of what is near, and on nothing else.
LEMMA SameParts ==
    ASSUME NEW f, NEW g, NEW n, \A m \in Near(n) : f[m] = g[m]
    PROVE  PageFrom(f, n) = PageFrom(g, n)
<1>1. [m \in Near(n) |-> f[m]] = [m \in Near(n) |-> g[m]]
  OBVIOUS
<1>2. QED
  BY <1>1 DEF PageFrom

\* What a function that makes pages up to a height is made of.
LEMMA PagedValue ==
    ASSUME NEW f, NEW h, Paged(f, h), NEW n \in Upto(h)
    PROVE  f[n] = PageFrom(f, n)
<1> DEFINE P(m) == PageFrom(f, m)
<1>1. f = [m \in Upto(h) |-> P(m)]
  BY DEF Paged
<1> HIDE DEF P
<1>2. f[n] = P(n)
  BY <1>1
<1>3. QED
  BY <1>2 DEF P

\* There is only one.
LEMMA PagedOnce ==
    ASSUME NEW f, NEW g, NEW h \in Nat, NEW k \in Nat, Paged(f, h), Paged(g, k)
    PROVE  \A n \in Upto(h) \cap Upto(k) : f[n] = g[n]
<1> DEFINE B == {n \in Upto(h) \cap Upto(k) : f[n] # g[n]}
           T == {Height[n] : n \in B}
<1>1. SUFFICES ASSUME B # {} PROVE FALSE
  OBVIOUS
<1>2. T \subseteq Nat /\ T # {}
  BY <1>1, HeightAssumption DEF Upto
<1>3. PICK t \in T : \A s \in T : t <= s
  <2> HIDE DEF T
  <2>1. QED
    BY <1>2, Least
<1>4. PICK n \in B : Height[n] = t
  OBVIOUS
<1>5. n \in Nodes /\ n \in Upto(h) /\ n \in Upto(k) /\ f[n] # g[n]
  BY DEF Upto
<1>6. \A m \in Near(n) : f[m] = g[m]
  <2>1. TAKE m \in Near(n)
  <2>2. m \in Nodes /\ Height[m] \in Nat /\ Height[n] \in Nat /\ Height[m] < Height[n]
    BY <1>5, NearIsLower
  <2>3. m \in Upto(h) /\ m \in Upto(k)
    BY <1>5, <2>2 DEF Upto
  <2>4. m \in B => Height[m] \in T
    OBVIOUS
  <2>5. m \notin B
    <3> HIDE DEF B, T
    <3>1. Height[m] \in T => t <= Height[m]
      BY <1>3
    <3>2. QED
      BY <1>4, <2>2, <2>4, <3>1
  <2>6. QED
    BY <2>3, <2>5
<1>7. f[n] = PageFrom(f, n) /\ g[n] = PageFrom(g, n)
  BY <1>5, PagedValue
<1>8. PageFrom(f, n) = PageFrom(g, n)
  BY <1>6, SameParts
<1>9. QED
  BY <1>5, <1>7, <1>8

\* There is one for every height.
LEMMA PagedExists ==
    ASSUME NEW h \in Nat
    PROVE  \E f : Paged(f, h)
<1> DEFINE S == {k \in Nat : \E f : Paged(f, k)}
<1>1. ASSUME NEW k \in Nat, NEW f, NEW U, U \subseteq Nodes,
             \A n \in Upto(k) : Near(n) \subseteq U,
             \A m \in Upto(k) \cap U : f[m] = PageFrom(f, m),
             U \subseteq Upto(k)
      PROVE  \E g : Paged(g, k)
  <2> DEFINE g == [n \in Upto(k) |-> PageFrom(f, n)]
  <2>1. \A n \in Upto(k) : g[n] = PageFrom(f, n)
    OBVIOUS
  <2> HIDE DEF g
  <2>2. \A n \in Upto(k) : PageFrom(f, n) = PageFrom(g, n)
    <3>1. TAKE n \in Upto(k)
    <3>2. \A m \in Near(n) : f[m] = g[m]
      BY <1>1, <2>1
    <3>3. QED
      BY <3>2, SameParts
  <2>3. g = [n \in Upto(k) |-> PageFrom(g, n)]
    BY <2>2 DEF g
  <2>4. QED
    BY <2>3 DEF Paged
<1>2. 0 \in S
  <2>1. \A n \in Upto(0) : Near(n) = {}
    <3>1. SUFFICES ASSUME NEW n \in Upto(0), NEW m \in Near(n) PROVE FALSE
      OBVIOUS
    <3>2. n \in Nodes /\ Height[n] <= 0
      BY DEF Upto
    <3>3. Height[m] \in Nat /\ Height[n] \in Nat /\ Height[m] < Height[n]
      BY <3>2, NearIsLower
    <3>4. QED
      BY <3>2, <3>3
  <2>2. \E f : Paged(f, 0)
    BY <1>1, <2>1
  <2>3. QED
    BY <2>2
<1>3. ASSUME NEW k \in 1 .. h, k - 1 \in S PROVE k \in S
  <2>1. PICK f : Paged(f, k - 1)
    BY <1>3
  <2>2. Upto(k - 1) \subseteq Nodes /\ Upto(k - 1) \subseteq Upto(k)
    BY HeightAssumption DEF Upto
  <2>3. \A n \in Upto(k) : Near(n) \subseteq Upto(k - 1)
    <3>1. SUFFICES ASSUME NEW n \in Upto(k), NEW m \in Near(n) PROVE m \in Upto(k - 1)
      OBVIOUS
    <3>2. n \in Nodes /\ Height[n] <= k
      BY DEF Upto
    <3>3. m \in Nodes /\ Height[m] \in Nat /\ Height[n] \in Nat /\ Height[m] < Height[n]
      BY <3>2, NearIsLower
    <3>4. QED
      BY <3>2, <3>3 DEF Upto
  <2>4. \A m \in Upto(k - 1) : f[m] = PageFrom(f, m)
    BY <2>1, PagedValue
  <2>5. k \in Nat
    OBVIOUS
  <2>6. \E g : Paged(g, k)
    <3> DEFINE U == Upto(k - 1)
    <3>1. /\ U \subseteq Nodes /\ U \subseteq Upto(k) /\ \A n \in Upto(k) : Near(n) \subseteq U
          /\ \A m \in Upto(k) \cap U : f[m] = PageFrom(f, m)
      BY <2>2, <2>3, <2>4
    <3> HIDE DEF U, S
    <3>2. QED
      BY <1>1, <2>5, <3>1
  <2>7. QED
    BY <2>5, <2>6
<1>4. h \in S
  <2> HIDE DEF S
  <2>1. 0 .. h \subseteq S
    BY <1>2, <1>3, UpTo
  <2>2. QED
    BY <2>1
<1>5. QED
  BY <1>4

\* pageOf is what its definition says, since every node is higher than its parts.
LEMMA PageOf ==
    \A n \in Nodes : \A d \in Int : pageOf[n][d] = Form(n, d, [m \in Near(n) |-> pageOf[m]])
<1> DEFINE C(h) == CHOOSE f : Paged(f, h)
           G == [n \in Nodes |-> C(Height[n])[n]]
<1>1. \A h \in Nat : Paged(C(h), h)
  BY PagedExists
<1> HIDE DEF C
<1>2. \A n \in Nodes : Height[n] \in Nat
  BY HeightAssumption
<1>3. ASSUME NEW n \in Nodes PROVE G[n] = PageFrom(G, n)
  <2> DEFINE h == Height[n]
  <2>1. h \in Nat /\ n \in Upto(h)
    BY <1>2 DEF Upto
  <2>2. C(h)[n] = PageFrom(C(h), n)
    BY <1>1, <2>1, PagedValue
  <2>3. \A m \in Near(n) : C(h)[m] = G[m]
    <3>1. TAKE m \in Near(n)
    <3>2. m \in Nodes /\ Height[m] \in Nat /\ Height[m] < Height[n]
      BY NearIsLower
    <3>3. m \in Upto(h) \cap Upto(Height[m])
      BY <2>1, <3>2 DEF Upto
    <3>4. Paged(C(h), h) /\ Paged(C(Height[m]), Height[m])
      BY <1>1, <2>1, <3>2
    <3>5. C(h)[m] = C(Height[m])[m]
      BY <2>1, <3>2, <3>3, <3>4, PagedOnce
    <3>6. QED
      BY <3>2, <3>5
  <2>4. PageFrom(C(h), n) = PageFrom(G, n)
    BY <2>3, SameParts
  <2>5. QED
    BY <2>2, <2>4
<1>4. G = [n \in Nodes |-> PageFrom(G, n)]
  <2>1. G = [n \in Nodes |-> G[n]]
    OBVIOUS
  <2> HIDE DEF G
  <2>2. [n \in Nodes |-> G[n]] = [n \in Nodes |-> PageFrom(G, n)]
    BY <1>3
  <2>3. QED
    BY <2>1, <2>2
<1>5. \E f : f = [n \in Nodes |-> PageFrom(f, n)]
  <2> HIDE DEF G
  <2>1. QED
    BY <1>4
<1> DEFINE F == CHOOSE f : f = [n \in Nodes |-> PageFrom(f, n)]
<1>6. F = [n \in Nodes |-> PageFrom(F, n)]
  BY <1>5
<1>7. pageOf = F
  BY DEF pageOf, PageFrom
<1>8. pageOf = [n \in Nodes |-> PageFrom(pageOf, n)]
  BY <1>6, <1>7
<1>9. \A n \in Nodes : pageOf[n] = PageFrom(pageOf, n)
  <2> DEFINE P(m) == PageFrom(pageOf, m)
  <2>1. pageOf = [n \in Nodes |-> P(n)]
    BY <1>8
  <2> HIDE DEF P
  <2>2. \A n \in Nodes : pageOf[n] = P(n)
    BY <2>1
  <2>3. QED
    BY <2>2 DEF P
<1>10. QED
  BY <1>9 DEF PageFrom

\* Every page is a sequence, and the handler of its node prints it.
LEMMA HandlerPrintsPage ==
    ASSUME NEW n \in Nodes, NEW d \in Int
    PROVE  Says(Handler(n), d, pageOf[n][d], d) /\ IsSeq(pageOf[n][d])
<1> DEFINE Good(m) == \A e \in Int : Says(Handler(m), e, pageOf[m][e], e) /\ IsSeq(pageOf[m][e])
           B == {m \in Nodes : ~Good(m)}
           T == {Height[m] : m \in B}
<1>1. SUFFICES ASSUME B # {} PROVE FALSE
  OBVIOUS
<1>2. T \subseteq Nat /\ T # {}
  <2> HIDE DEF Good
  <2>1. QED
    BY <1>1, HeightAssumption
<1>3. PICK t \in T : \A s \in T : t <= s
  <2> HIDE DEF T
  <2>1. QED
    BY <1>2, Least
<1>4. PICK b \in B : Height[b] = t
  <2> HIDE DEF B
  <2>1. QED
    OBVIOUS
<1> HIDE DEF Good
<1>5. b \in Nodes /\ ~Good(b)
  OBVIOUS
<1>6. \A m \in Near(b) : m \in Nodes /\ Good(m)
  <2>1. TAKE m \in Near(b)
  <2>2. m \in Nodes /\ Height[m] \in Nat /\ Height[b] \in Nat /\ Height[m] < Height[b]
    BY <1>5, NearIsLower
  <2>3. m \in B => Height[m] \in T
    OBVIOUS
  <2>4. m \notin B
    <3> HIDE DEF B, T
    <3>1. QED
      BY <1>3, <1>4, <2>2, <2>3
  <2>5. QED
    BY <2>2, <2>4
<1> DEFINE pages == [m \in Near(b) |-> pageOf[m]]
<1>7. AllReady(pages, b)
  <2>1. SUFFICES ASSUME NEW m \in Near(b) \cup {Null}, NEW e \in Int
                 PROVE  IsSeq(At(pageOf, m, e)) /\ At(pages, m, e) = At(pageOf, m, e)
    BY DEF AllReady, Ready
  <2>2. CASE m = Null
    <3>1. IsSeq(<<Hole>>)
      BY ShortSeqs
    <3>2. QED
      BY <2>2, <3>1 DEF At
  <2>3. CASE m # Null
    <3>1. m \in Near(b) /\ pages[m] = pageOf[m]
      BY <2>3
    <3>2. IsSeq(pageOf[m][e])
      BY <1>6, <3>1 DEF Good
    <3>3. QED
      BY <2>3, <3>1, <3>2 DEF At
  <2>4. QED
    BY <2>2, <2>3
<1>8. \A e \in Int : pageOf[b][e] = Form(b, e, pages)
  BY <1>5, PageOf
<1> HIDE DEF pages
<1>9. \A e \in Int : Says(Handler(b), e, pageOf[b][e], e)
  BY <1>5, <1>7, <1>8, HandlerSays
<1>10. \A e \in Int : IsSeq(pageOf[b][e])
  BY <1>9, SaysTypes
<1>11. QED
  BY <1>5, <1>9, <1>10 DEF Good

-----------------------------------------------------------------------------
(* Texts and holes.                                                        *)

NoHole(s) == \A i \in 1 .. Len(s) : s[i] # Hole

\* There is a first hole, or none.
LEMMA FirstHoleIs ==
    ASSUME NEW s, IsSeq(s)
    PROVE  /\ FirstHole(s) \in 0 .. Len(s) /\ Len(s) \in Nat
           /\ \A i \in 1 .. FirstHole(s) : s[i] # Hole
           /\ FirstHole(s) < Len(s) => s[FirstHole(s) + 1] = Hole
<1> DEFINE P(n) == (\A i \in 1 .. n : s[i] # Hole) /\ (n < Len(s) => s[n + 1] = Hole)
           T == {i \in 1 .. Len(s) : s[i] = Hole}
<1>1. Len(s) \in Nat
  BY DEF IsSeq
<1>2. \E n \in 0 .. Len(s) : P(n)
  <2>1. CASE T = {}
    <3>1. P(Len(s)) /\ Len(s) \in 0 .. Len(s)
      BY <1>1, <2>1
    <3>2. QED
      BY <3>1
  <2>2. CASE T # {}
    <3>1. PICK t \in T : \A u \in T : t <= u
      <4>1. T \subseteq Nat
        BY <1>1
      <4> HIDE DEF T
      <4>2. QED
        BY <2>2, <4>1, Least
    <3>2. t - 1 \in 0 .. Len(s) /\ (t - 1) + 1 = t /\ s[t] = Hole
      BY <1>1
    <3>3. \A i \in 1 .. t - 1 : s[i] # Hole
      <4>1. SUFFICES ASSUME NEW i \in 1 .. t - 1, s[i] = Hole PROVE FALSE
        OBVIOUS
      <4>2. i \in T /\ i < t
        BY <1>1, <3>2, <4>1
      <4>3. QED
        BY <1>1, <3>1, <4>2
    <3>4. P(t - 1)
      BY <3>2, <3>3
    <3> HIDE DEF P, T
    <3>5. QED
      BY <3>2, <3>4
  <2>3. QED
    BY <2>1, <2>2
<1>3. FirstHole(s) = CHOOSE n \in 0 .. Len(s) : P(n)
  BY DEF FirstHole
<1>4. FirstHole(s) \in 0 .. Len(s) /\ P(FirstHole(s))
  <2> HIDE DEF P
  <2>1. QED
    BY <1>2, <1>3
<1>5. QED
  BY <1>1, <1>4

\* What is printed without a hole is a beginning of the text.
LEMMA Begins ==
    ASSUME NEW t, NEW p, NEW q, IsSeq(p), IsSeq(q), NoHole(p), FullText(t) = p \o q
    PROVE  /\ Len(p) \in Nat /\ Len(Text(t)) \in Nat /\ Len(p) <= Len(Text(t))
           /\ p = SubSeq(Text(t), 1, Len(p))
           /\ Len(Text(t)) = FirstHole(FullText(t)) /\ Len(FullText(t)) = Len(p) + Len(q)
           /\ IsSeq(FullText(t)) /\ Len(q) \in Nat
           /\ \A i \in 1 .. Len(q) : FullText(t)[Len(p) + i] = q[i]
<1> DEFINE W == FullText(t)
           h == FirstHole(W)
           X == SubSeq(W, 1, h)
           S == ToSet(p) \cup ToSet(q)
<1>1. IsSeq(W)
  BY CatIsSeq
<1>2. p \in Seq(S) /\ q \in Seq(S)
  BY SeqMonotonic DEF IsSeq
<1> HIDE DEF S
<1>3. /\ W \in Seq(S) /\ Len(p) \in Nat /\ Len(q) \in Nat /\ Len(W) = Len(p) + Len(q)
      /\ \A i \in 1 .. Len(p) + Len(q) : W[i] = IF i <= Len(p) THEN p[i] ELSE q[i - Len(p)]
  BY <1>2, ConcatProperties, LenProperties
<1>4. h \in 0 .. Len(W) /\ \A i \in 1 .. h : W[i] # Hole
  BY <1>1, FirstHoleIs
<1>5. h < Len(W) => W[h + 1] = Hole
  BY <1>1, FirstHoleIs
<1> HIDE DEF h, W
<1>6. Len(p) <= h
  <2>1. SUFFICES ASSUME h < Len(p) PROVE FALSE
    BY <1>3, <1>4
  <2>2. h + 1 \in 1 .. Len(p) /\ W[h + 1] = Hole
    BY <1>3, <1>4, <1>5, <2>1
  <2>3. W[h + 1] = p[h + 1]
    BY <1>3, <2>2
  <2>4. QED
    BY <2>2, <2>3 DEF NoHole
<1>7. X \in Seq(S) /\ Len(X) = h /\ \A i \in 1 .. h : X[i] = W[i]
  BY <1>3, <1>4
<1>8. p = SubSeq(X, 1, Len(p))
  <2> DEFINE c == SubSeq(X, 1, Len(p))
  <2> HIDE DEF X
  <2>1. c \in Seq(S) /\ Len(c) = Len(p) /\ \A i \in 1 .. Len(p) : c[i] = X[i]
    BY <1>3, <1>4, <1>6, <1>7
  <2>2. \A i \in 1 .. Len(p) : p[i] = c[i]
    <3>1. TAKE i \in 1 .. Len(p)
    <3>2. i \in 1 .. h /\ i \in 1 .. Len(p) + Len(q) /\ i <= Len(p)
      BY <1>3, <1>4, <1>6
    <3>3. QED
      BY <1>3, <1>7, <2>1, <3>2
  <2> HIDE DEF c
  <2>3. p = c
    BY <1>2, <2>1, <2>2, SeqEqual
  <2>4. QED
    BY <2>3 DEF c
<1>9. \A i \in 1 .. Len(q) : W[Len(p) + i] = q[i]
  BY <1>3
<1>10. Text(t) = X
  BY DEF Text, X, h, W
<1> HIDE DEF X
<1>11. QED
  BY <1>1, <1>3, <1>4, <1>6, <1>7, <1>8, <1>9, <1>10 DEF h, W

-----------------------------------------------------------------------------
(* The printer keeps Writer's promise.                                     *)

\* What is still to do prints the rest of the page, and then the last line end.
Telling ==
    /\ pc = "idle" => indents = 0
    /\ pc = "printing" =>
          /\ root \in Trees /\ IsSeq(out) /\ NoHole(out)
          /\ \E t : Says(todo, indents, t, 0) /\ FullText(root) = out \o (t \o <<NL>>)

\* Two texts without a hole are one.
LEMMA NoHoleCat ==
    ASSUME NEW s, NEW t, IsSeq(s), IsSeq(t), NoHole(s), NoHole(t)
    PROVE  NoHole(s \o t)
<1> DEFINE S == ToSet(s) \cup ToSet(t)
           c == s \o t
<1>1. s \in Seq(S) /\ t \in Seq(S)
  BY SeqMonotonic DEF IsSeq
<1> HIDE DEF S
<1>2. /\ Len(s) \in Nat /\ Len(t) \in Nat /\ Len(c) = Len(s) + Len(t)
      /\ \A i \in 1 .. Len(s) + Len(t) : c[i] = IF i <= Len(s) THEN s[i] ELSE t[i - Len(s)]
  BY <1>1, ConcatProperties, LenProperties
<1> HIDE DEF c
<1>3. \A i \in 1 .. Len(c) : c[i] # Hole
  <2>1. TAKE i \in 1 .. Len(c)
  <2>2. CASE i <= Len(s)
    BY <1>2, <2>2 DEF NoHole
  <2>3. CASE i > Len(s)
    <3>1. i - Len(s) \in 1 .. Len(t) /\ c[i] = t[i - Len(s)]
      BY <1>2, <2>3
    <3>2. QED
      BY <3>1 DEF NoHole
  <2>4. QED
    BY <1>2, <2>2, <2>3
<1>4. QED
  BY <1>3 DEF NoHole, c

\* A step that prints x, the beginning of what was left.
LEMMA Prints ==
    ASSUME Telling, pc = "printing", NEW x, NEW v, IsSeq(x), NoHole(x), IsSeq(v),
           FullText(root) = out \o ((x \o v) \o <<NL>>), Says(todo', indents', v, 0),
           out' = out \o x, root' = root, pc' = pc
    PROVE  Telling' /\ [Promise!Next]_(Promise!vars)
<1> DEFINE w == v \o <<NL>>
<1>1. IsSeq(out) /\ NoHole(out) /\ root \in Trees
  BY DEF Telling
<1>2. IsSeq(<<NL>>)
  BY ShortSeqs
<1>3. IsSeq(w) /\ IsSeq(out') /\ NoHole(out')
  BY <1>1, <1>2, CatIsSeq, NoHoleCat
<1>4. FullText(root) = out' \o w
  <2>1. (x \o v) \o <<NL>> = x \o w
    BY <1>2, CatAgain, SMTT(30)
  <2> HIDE DEF w
  <2>2. (out \o x) \o w = out \o (x \o w)
    <3>1. IsSeq(out) /\ IsSeq(x) /\ IsSeq(w)
      BY <1>1, <1>3
    <3>2. QED
      BY <3>1, CatAgain
  <2>3. QED
    BY <2>1, <2>2, Zenon
<1>5. Telling'
  <2>1. FullText(root') = out' \o (v \o <<NL>>)
    BY <1>4
  <2>2. root' \in Trees /\ pc' # "idle"
    BY <1>1
  <2> HIDE DEF w
  <2>3. IsSeq(out)' /\ NoHole(out)'
    BY <1>3 DEF NoHole, IsSeq
  <2>4. \E t : Says(todo', indents', t, 0) /\ FullText(root') = out' \o (t \o <<NL>>)
    BY <2>1
  <2>5. QED
    BY <2>2, <2>3, <2>4 DEF Telling
<1>6. CASE out' = out
  BY <1>5, <1>6 DEF Promise!vars
<1>7. CASE out' # out
  <2> DEFINE T == Text(root)
  <2>1. /\ Len(out') \in Nat /\ Len(T) \in Nat /\ Len(out') <= Len(T)
        /\ out' = SubSeq(T, 1, Len(out'))
    <3> HIDE DEF w
    <3>1. QED
      BY <1>3, <1>4, Begins
  <2>2. Len(out) \in Nat /\ Len(out) <= Len(T) /\ out = SubSeq(T, 1, Len(out))
    <3>1. FullText(root) = out \o (x \o w) /\ IsSeq(x \o w)
      <4>1. (x \o v) \o <<NL>> = x \o w
        BY <1>2, CatAgain, SMTT(30)
      <4> HIDE DEF w
      <4>2. QED
        BY <1>3, <4>1, CatIsSeq
    <3> HIDE DEF w
    <3>2. QED
      BY <1>1, <3>1, Begins
  <2>3. Len(out') > Len(out)
    <3> DEFINE S == ToSet(out) \cup ToSet(x)
    <3>1. out \in Seq(S) /\ x \in Seq(S)
      BY <1>1, SeqMonotonic DEF IsSeq
    <3> HIDE DEF S
    <3>2. Len(out') = Len(out) + Len(x) /\ Len(x) \in Nat
      BY <3>1, ConcatProperties, LenProperties
    <3>3. CASE Len(x) = 0
      <4>1. x = <<>>
        BY <3>1, <3>3
      <4>2. out \o <<>> = out
        BY <1>1, CatNothing
      <4>3. QED
        BY <1>7, <4>1, <4>2
    <3>4. QED
      BY <2>2, <3>2, <3>3
  <2>4. Texts[root] = T
    BY <1>1 DEF Texts
  <2> HIDE DEF T
  <2>5. Promise!IsPrefix(out, T)
    BY <2>1, <2>2 DEF Promise!IsPrefix
  <2>6. \E n \in Len(out) + 1 .. Len(T) : out' = SubSeq(T, 1, n)
    <3>1. Len(out') \in Len(out) + 1 .. Len(T)
      BY <2>1, <2>2, <2>3
    <3>2. QED
      BY <2>1, <3>1
  <2>7. Promise!Write
    BY <2>4, <2>5, <2>6 DEF Promise!Write
  <2>8. QED
    BY <1>5, <2>7 DEF Promise!Next
<1>8. QED
  BY <1>5, <1>6, <1>7

\* Nothing left to do prints nothing more.
LEMMA SaysAtEnd ==
    ASSUME NEW d, NEW t, NEW e, Says(<<>>, d, t, e)
    PROVE  d = e /\ t = <<>>
<1>1. Len(<<>>) + 1 = 1
  OBVIOUS
<1>2. PICK depth, rest : /\ depth[1] = d /\ rest[1] = t
                         /\ depth[Len(<<>>) + 1] = e /\ rest[Len(<<>>) + 1] = <<>>
  BY Zenon DEF Says
<1>3. depth[1] = e /\ rest[1] = <<>>
  BY <1>1, <1>2, Zenon
<1>4. QED
  BY <1>2, <1>3

\* The steps of the printer: a call begins,
LEMMA BeginTells ==
    ASSUME Telling, NEW n \in Trees, Start(n)
    PROVE  Telling' /\ Promise!Begin
<1>1. pc = "idle" /\ pc' = "printing" /\ root' = n /\ todo' = <<Visit(n)>> /\ out' = <<>> /\ indents' = indents
  BY DEF Start
<1>2. indents = 0 /\ 0 \in Int
  BY <1>1 DEF Telling
<1>3. n \in Nodes /\ n # Null
  <2>1. n \in Nodes
    BY TreesAssumption
  <2>2. n.type \in Visited
    BY <2>1, Members
  <2>3. QED
    BY <2>1, <2>2 DEF Null, Visited
<1>4. Says(<<Visit(n)>>, 0, pageOf[n][0], 0) /\ IsSeq(pageOf[n][0])
  <2>1. \A d \in Int : IsSeq(pageOf[n][d])
    BY <1>3, HandlerPrintsPage
  <2>2. Ready(pageOf, n)
    BY <1>3, <2>1 DEF Ready, At
  <2>3. Says(<<Visit(n)>>, 0, At(pageOf, n, 0), 0)
    BY <1>2, <2>2, SaysVisit
  <2>4. QED
    BY <1>2, <1>3, <2>1, <2>3 DEF At
<1>5. FullText(n) = <<>> \o (pageOf[n][0] \o <<NL>>)
  <2>1. IsSeq(<<NL>>)
    BY ShortSeqs
  <2>2. IsSeq(pageOf[n][0] \o <<NL>>)
    BY <1>4, <2>1, CatIsSeq
  <2>3. QED
    BY <2>2, CatNothing DEF FullText
<1>6. IsSeq(<<>>) /\ NoHole(<<>>)
  <2>1. IsSeq(<<>>)
    BY ShortSeqs
  <2>2. Len(<<>>) = 0
    OBVIOUS
  <2>3. NoHole(<<>>)
    BY <2>2 DEF NoHole
  <2>4. QED
    BY <2>1, <2>3
<1>7. Telling'
  <2>1. IsSeq(out)' /\ NoHole(out)'
    BY <1>1, <1>6 DEF IsSeq, NoHole
  <2>2. Says(todo', indents', pageOf[n][0], 0) /\ FullText(root') = out' \o (pageOf[n][0] \o <<NL>>)
    BY <1>1, <1>2, <1>4, <1>5
  <2>3. QED
    BY <1>1, <2>1, <2>2 DEF Telling
<1>8. QED
  BY <1>1, <1>7 DEF Promise!Begin

\* pieces are printed,
LEMMA PiecesTell ==
    ASSUME Telling, PrintPieces
    PROVE  Telling' /\ [Promise!Next]_(Promise!vars)
<1>1. pc = "printing" /\ pc' = pc /\ root' = root /\ indents' = indents
  BY DEF PrintPieces
<1>2. PICK n \in 1 .. Len(todo) : /\ \A i \in 1 .. n : todo[i].k \in Pieces
                                  /\ out' = out \o SubSeq(todo, 1, n)
                                  /\ todo' = SubSeq(todo, n + 1, Len(todo))
  BY DEF PrintPieces
<1>3. PICK t : Says(todo, indents, t, 0) /\ FullText(root) = out \o (t \o <<NL>>)
  BY <1>1 DEF Telling
<1> DEFINE x == SubSeq(todo, 1, n)
<1>4. PICK v : Says(SubSeq(todo, n + 1, Len(todo)), indents, v, 0) /\ t = x \o v /\ IsSeq(x) /\ IsSeq(v)
  <2>1. n \in 1 .. Len(todo) /\ \A i \in 1 .. n : todo[i].k \in Pieces
    BY <1>2
  <2>2. PICK s, d : s = todo /\ d = indents
    OBVIOUS
  <2>3. Says(s, d, t, 0) /\ n \in 1 .. Len(s) /\ \A i \in 1 .. n : s[i].k \in Pieces
    BY <1>3, <2>1, <2>2, Zenon
  <2>4. \E v : /\ Says(SubSeq(s, n + 1, Len(s)), d, v, 0)
               /\ t = SubSeq(s, 1, n) \o v
               /\ IsSeq(SubSeq(s, 1, n)) /\ IsSeq(v)
    <3> HIDE DEF x
    <3>1. QED
      BY <2>3, SaysPieces
  <2>5. QED
    BY <2>2, <2>4, Zenon
<1>5. NoHole(x)
  <2>1. todo \in Seq(ToSet(todo)) /\ Len(todo) \in Nat
    BY <1>3, SaysTypes DEF IsSeq
  <2>2. Len(x) = n /\ \A i \in 1 .. n : x[i] = todo[i]
    BY <2>1
  <2>3. Hole.k \notin Pieces
    BY DEF Hole, Pieces
  <2> HIDE DEF x
  <2>4. QED
    BY <1>2, <2>2, <2>3 DEF NoHole
<1>6. Says(todo', indents', v, 0) /\ FullText(root) = out \o ((x \o v) \o <<NL>>) /\ out' = out \o x
  BY <1>1, <1>2, <1>3, <1>4
<1> HIDE DEF x
<1>7. QED
  BY <1>1, <1>4, <1>5, <1>6, Prints

\* The item at the head of todo, and what is left when it is done.
LEMMA HeadTells ==
    ASSUME Owed, Telling, pc = "printing", todo # <<>>
    PROVE  /\ Item(Head(todo)) /\ indents \in Int /\ IsSeq(<<>> \o Tail(todo)) /\ <<>> \o Tail(todo) = Tail(todo)
           /\ \E v : /\ Says(Tail(todo), indents + Weight(Head(todo)), v, 0) /\ IsSeq(v)
                     /\ IsSeq(Said(Head(todo), indents))
                     /\ FullText(root) = out \o ((Said(Head(todo), indents) \o v) \o <<NL>>)
<1>1. PICK t : Says(todo, indents, t, 0) /\ FullText(root) = out \o (t \o <<NL>>)
  BY DEF Telling
<1>2. PICK v : /\ Says(Tail(todo), indents + Weight(Head(todo)), v, 0)
               /\ IsSeq(Said(Head(todo), indents)) /\ t = Said(Head(todo), indents) \o v
  <2>1. PICK s, d : s = todo /\ d = indents
    OBVIOUS
  <2>2. Says(s, d, t, 0) /\ s # <<>>
    BY <1>1, <2>1
  <2>3. PICK v : /\ Says(Tail(s), d + Weight(Head(s)), v, 0)
                 /\ IsSeq(Said(Head(s), d)) /\ t = Said(Head(s), d) \o v
    BY <2>2, SaysHead
  <2>4. QED
    BY <2>1, <2>3, Zenon
<1>3. IsSeq(v) /\ IsSeq(Tail(todo)) /\ indents \in Int
  BY <1>1, <1>2, SaysTypes
<1>4. <<>> \o Tail(todo) = Tail(todo)
  BY <1>3, CatNothing
<1>5. Item(Head(todo))
  BY WeighsTail DEF Owed
<1>6. QED
  BY <1>1, <1>2, <1>3, <1>4, <1>5

\* an indentation or an empty line is,
LEMMA IndentTells ==
    ASSUME Owed, Telling, PrintIndent \/ PrintGap
    PROVE  Telling' /\ [Promise!Next]_(Promise!vars)
<1>1. pc = "printing" /\ todo # <<>> /\ pc' = pc /\ root' = root /\ indents' = indents /\ todo' = <<>> \o Tail(todo)
  BY DEF PrintIndent, PrintGap, Doing, Do
<1> DEFINE x == Said(Head(todo), indents)
<1>2. PICK v : /\ Says(Tail(todo), indents + Weight(Head(todo)), v, 0) /\ IsSeq(v) /\ IsSeq(x)
               /\ FullText(root) = out \o ((x \o v) \o <<NL>>)
  BY <1>1, HeadTells
<1>3. indents \in Int /\ <<>> \o Tail(todo) = Tail(todo)
  BY <1>1, HeadTells
<1>4. Weight(Head(todo)) = 0 /\ out' = out \o x /\ NoHole(x)
  <2>1. CASE PrintIndent
    <3>1. Head(todo).k = "indent" /\ out' = out \o Pads(indents)
      BY <2>1 DEF PrintIndent, Doing
    <3>2. Weight(Head(todo)) = 0 /\ x = Pads(indents)
      BY <3>1 DEF Weight, Deeper, Back, Said, Pieces
    <3>3. NoHole(Pads(indents))
      <4>1. Pad # Hole
        BY DEF Pad, Hole
      <4>2. PICK d : d = indents
        OBVIOUS
      <4>3. Pads(d) \in Seq({Pad}) /\ \A i \in 1 .. Len(Pads(d)) : Pads(d)[i] = Pad
        <5>1. d \in Int
          BY <1>3, <4>2
        <5>2. Pads(d) \in Seq({Pad})
          BY <5>1 DEF Pads
        <5>3. QED
          BY <5>2
      <4>4. NoHole(Pads(d))
        BY <4>1, <4>3 DEF NoHole
      <4>5. QED
        BY <4>2, <4>4
    <3>4. QED
      BY <3>1, <3>2, <3>3
  <2>2. CASE PrintGap
    <3>1. Head(todo).k = "gap" /\ out' = out \o IF indents = 0 THEN <<NL>> ELSE <<>>
      BY <2>2 DEF PrintGap, Doing
    <3>2. Weight(Head(todo)) = 0 /\ x = IF indents = 0 THEN <<NL>> ELSE <<>>
      BY <3>1 DEF Weight, Deeper, Back, Said, Pieces
    <3>3. NoHole(<<NL>>) /\ NoHole(<<>>)
      <4>1. NL # Hole /\ <<NL>> \in Seq({NL}) /\ <<>> \in Seq({NL})
        BY DEF NL, Hole
      <4>2. QED
        BY <4>1 DEF NoHole
    <3>4. QED
      BY <3>1, <3>2, <3>3
  <2>3. QED
    BY <2>1, <2>2
<1>5. Says(todo', indents', v, 0)
  <2>1. indents + Weight(Head(todo)) = indents
    BY <1>3, <1>4
  <2>2. QED
    BY <1>1, <1>2, <1>3, <2>1
<1> HIDE DEF x
<1>6. QED
  BY <1>1, <1>2, <1>4, <1>5, Prints

\* A step that prints nothing, and leaves the same to be printed.
LEMMA StutterTells ==
    ASSUME Telling, pc = "printing", pc' = pc, root' = root, out' = out,
           NEW t, Says(todo', indents', t, 0), FullText(root) = out \o (t \o <<NL>>)
    PROVE  Telling' /\ [Promise!Next]_(Promise!vars)
<1>1. IsSeq(out) /\ NoHole(out) /\ root \in Trees
  BY DEF Telling
<1>2. IsSeq(out)' /\ NoHole(out)'
  BY <1>1 DEF IsSeq, NoHole
<1>3. FullText(root') = out' \o (t \o <<NL>>) /\ root' \in Trees /\ pc' # "idle"
  BY <1>1
<1>4. Telling'
  BY <1>2, <1>3 DEF Telling
<1>5. QED
  BY <1>4 DEF Promise!vars

\* the depth is counted,
LEMMA CountTells ==
    ASSUME Owed, Telling, Count
    PROVE  Telling' /\ [Promise!Next]_(Promise!vars)
<1>1. pc = "printing" /\ todo # <<>> /\ pc' = pc /\ root' = root /\ out' = out /\ todo' = <<>> \o Tail(todo)
      /\ Head(todo).k = "count" /\ indents' = indents + Head(todo).n
  BY DEF Count, Doing, Do
<1>2. Item(Head(todo)) /\ indents \in Int /\ <<>> \o Tail(todo) = Tail(todo)
  BY <1>1, HeadTells
<1>3. PICK v : /\ Says(Tail(todo), indents + Weight(Head(todo)), v, 0) /\ IsSeq(v)
               /\ FullText(root) = out \o ((Said(Head(todo), indents) \o v) \o <<NL>>)
  BY <1>1, HeadTells
<1>4. Head(todo) \in {Deeper, Back}
  BY <1>1, <1>2 DEF Item
<1>5. Said(Head(todo), indents) = <<>> /\ Weight(Head(todo)) = Head(todo).n
  BY <1>4 DEF Said, Weight, Deeper, Back, Pieces
<1>6. <<>> \o v = v
  BY <1>3, CatNothing
<1>7. Says(todo', indents', v, 0) /\ FullText(root) = out \o (v \o <<NL>>)
  BY <1>1, <1>2, <1>3, <1>5, <1>6
<1>8. QED
  BY <1>1, <1>7, StutterTells

\* a node is visited,
LEMMA VisitTells ==
    ASSUME Owed, Telling, VisitNode
    PROVE  Telling' /\ [Promise!Next]_(Promise!vars)
<1> DEFINE n == Head(todo).node
<1>1. pc = "printing" /\ todo # <<>> /\ pc' = pc /\ root' = root /\ out' = out /\ todo' = Handler(n) \o Tail(todo)
      /\ Head(todo).k = "visit" /\ indents' = indents /\ n # Null
  BY DEF VisitNode, Doing, Do
<1>2. Item(Head(todo)) /\ indents \in Int
  BY <1>1, HeadTells
<1>3. PICK v : /\ Says(Tail(todo), indents + Weight(Head(todo)), v, 0) /\ IsSeq(v)
               /\ FullText(root) = out \o ((Said(Head(todo), indents) \o v) \o <<NL>>)
  BY <1>1, HeadTells
<1>4. n \in Nodes
  BY <1>1, <1>2 DEF Item
<1>5. Said(Head(todo), indents) = pageOf[n][indents] /\ Weight(Head(todo)) = 0
  BY <1>1 DEF Said, At, Weight, Deeper, Back, Pieces
<1>6. Says(Handler(n), indents, pageOf[n][indents], indents)
  BY <1>2, <1>4, HandlerPrintsPage
<1> DEFINE p == pageOf[n][indents]
<1>7. indents + Weight(Head(todo)) = indents
  BY <1>2, <1>5
<1> HIDE DEF n, p
<1>8. Says(Tail(todo), indents, v, 0)
  BY <1>3, <1>7
<1>9. Says(Handler(n) \o Tail(todo), indents, p \o v, 0)
  BY <1>6, <1>8, SaysCat DEF p
<1>10. Says(todo', indents', p \o v, 0) /\ FullText(root) = out \o ((p \o v) \o <<NL>>)
  BY <1>1, <1>3, <1>5, <1>9 DEF p
<1>11. QED
  BY <1>1, <1>10, StutterTells

\* The whole of a text that ends where p does.
LEMMA AllOfText ==
    ASSUME NEW t, NEW p, NEW q, IsSeq(p), IsSeq(q), NoHole(p), FullText(t) = p \o q,
           Len(Text(t)) = Len(p)
    PROVE  Text(t) = p
<1> DEFINE T == Text(t)
<1>1. p = SubSeq(T, 1, Len(p)) /\ Len(T) = Len(p)
  BY Begins
<1>2. PICK S : T \in Seq(S)
  <2>1. FirstHole(FullText(t)) \in 0 .. Len(FullText(t)) /\ Len(FullText(t)) \in Nat /\ IsSeq(FullText(t))
    BY FirstHoleIs, CatIsSeq
  <2> DEFINE W == FullText(t)
             h == FirstHole(FullText(t))
  <2>2. W \in Seq(ToSet(W))
    BY <2>1 DEF IsSeq
  <2>3. T = SubSeq(W, 1, h)
    BY DEF Text
  <2>4. Len(W) \in Nat /\ h \in Nat /\ h <= Len(W)
    BY <2>1
  <2> HIDE DEF T, W, h
  <2>5. PICK R : W \in Seq(R)
    BY <2>2
  <2>6. SubSeq(W, 1, h) \in Seq(R)
    BY <2>4, <2>5
  <2>7. QED
    BY <2>3, <2>6
<1> HIDE DEF T
<1>3. SubSeq(T, 1, Len(T)) = T
  BY <1>2
<1>4. QED
  BY <1>1, <1>3 DEF T

\* A node that is missing ends the text.
LEMMA NullTells ==
    ASSUME Owed, Telling, VisitNull
    PROVE  Telling' /\ Promise!Finish
<1>1. /\ pc = "printing" /\ todo # <<>> /\ Head(todo).k = "visit" /\ Head(todo).node = Null
      /\ pc' = "dead" /\ root' = root /\ out' = out
  BY DEF VisitNull, Doing
<1>2. PICK v : /\ IsSeq(v)
               /\ FullText(root) = out \o ((Said(Head(todo), indents) \o v) \o <<NL>>)
  BY <1>1, HeadTells
<1>3. Said(Head(todo), indents) = <<Hole>>
  BY <1>1 DEF Said, At, Pieces
<1>4. IsSeq(out) /\ NoHole(out) /\ root \in Trees
  BY <1>1 DEF Telling
<1> DEFINE q == (<<Hole>> \o v) \o <<NL>>
           T == Text(root)
           W == FullText(root)
<1>5. IsSeq(q) /\ Len(q) \in Nat /\ Len(q) > 0 /\ q[1] = Hole
  <2>1. PICK x, y : x = Hole /\ y = NL
    OBVIOUS
  <2>2. IsSeq(<<x>>) /\ IsSeq(<<y>>)
    BY ShortSeqs
  <2>3. IsSeq(<<x>> \o v)
    BY <1>2, <2>2, CatIsSeq
  <2>4. IsSeq((<<x>> \o v) \o <<y>>)
    BY <2>2, <2>3, CatIsSeq
  <2>5. (<<x>> \o v) \o <<y>> = <<x>> \o (v \o <<y>>)
    BY <1>2, <2>2, CatAgain
  <2>6. IsSeq(v \o <<y>>)
    BY <1>2, <2>2, CatIsSeq
  <2> DEFINE w == v \o <<y>>
             S == ToSet(w) \cup {x}
  <2>7. w \in Seq(S) /\ x \in S
    BY <2>6, SeqMonotonic DEF IsSeq
  <2> HIDE DEF w, S
  <2>8. Len(<<x>> \o w) = 1 + Len(w) /\ Len(w) \in Nat /\ (<<x>> \o w)[1] = x
    BY <2>7
  <2>9. (<<x>> \o v) \o <<y>> = <<x>> \o w
    BY <2>5 DEF w
  <2>10. q = <<x>> \o w
    BY <2>1, <2>9
  <2> HIDE DEF q
  <2>11. IsSeq(q)
    BY <2>4, <2>9, <2>10
  <2>12. QED
    BY <2>1, <2>8, <2>10, <2>11
<1>6. W = out \o q
  BY <1>2, <1>3
<1> HIDE DEF q
<1>7. /\ Len(out) \in Nat /\ Len(T) \in Nat /\ Len(out) <= Len(T)
      /\ Len(T) = FirstHole(W) /\ Len(W) = Len(out) + Len(q) /\ IsSeq(W)
      /\ \A i \in 1 .. Len(q) : W[Len(out) + i] = q[i]
  <2>1. PICK r, p, z : r = root /\ p = out /\ z = q
    OBVIOUS
  <2>2. IsSeq(p) /\ IsSeq(z) /\ NoHole(p) /\ FullText(r) = p \o z
    BY <1>4, <1>5, <1>6, <2>1
  <2> HIDE DEF T, W
  <2>3. /\ Len(p) \in Nat /\ Len(Text(r)) \in Nat /\ Len(p) <= Len(Text(r))
        /\ Len(Text(r)) = FirstHole(FullText(r)) /\ Len(FullText(r)) = Len(p) + Len(z)
        /\ IsSeq(FullText(r))
        /\ \A i \in 1 .. Len(z) : FullText(r)[Len(p) + i] = z[i]
    <3>1. Len(p) \in Nat /\ Len(Text(r)) \in Nat /\ Len(p) <= Len(Text(r))
      BY <2>2, Begins
    <3>2. Len(Text(r)) = FirstHole(FullText(r)) /\ Len(FullText(r)) = Len(p) + Len(z)
      BY <2>2, Begins
    <3>3. IsSeq(FullText(r))
      BY <2>2, CatIsSeq
    <3>4. \A i \in 1 .. Len(z) : FullText(r)[Len(p) + i] = z[i]
      BY <2>2, Begins
    <3>5. QED
      BY <3>1, <3>2, <3>3, <3>4
  <2>4. QED
    BY <2>1, <2>3, Zenon DEF T, W
<1>8. \A i \in 1 .. FirstHole(W) : W[i] # Hole
  BY <1>7, FirstHoleIs
<1> HIDE DEF W, T
<1>9. W[Len(out) + 1] = Hole
  BY <1>5, <1>7
<1>10. Len(T) = Len(out) /\ Len(T) # Len(W)
  <2>1. ~(Len(out) < Len(T))
    <3>1. SUFFICES ASSUME Len(out) < Len(T) PROVE FALSE
      OBVIOUS
    <3>2. Len(out) + 1 \in 1 .. FirstHole(W)
      BY <1>7, <3>1
    <3>3. QED
      BY <1>8, <1>9, <3>2
  <2>2. QED
    BY <1>5, <1>7, <2>1
<1>11. T = out
  BY <1>4, <1>5, <1>6, <1>10, AllOfText DEF T, W
<1>12. Texts[root] = T /\ Pages[root] = W /\ T # W
  BY <1>4, <1>10 DEF Texts, Pages, T, W
<1>13. Telling'
  BY <1>1 DEF Telling
<1>14. QED
  BY <1>1, <1>11, <1>12, <1>13 DEF Promise!Finish

\* The last line end completes the text.
LEMMA EndTells ==
    ASSUME Telling, End
    PROVE  Telling' /\ Promise!Finish
<1>1. /\ pc = "printing" /\ todo = <<>>
      /\ pc' = "idle" /\ root' = root /\ out' = out \o <<NL>> /\ indents' = indents
  BY DEF End
<1>2. PICK t : Says(todo, indents, t, 0) /\ FullText(root) = out \o (t \o <<NL>>)
  BY <1>1 DEF Telling
<1>3. indents = 0 /\ t = <<>>
  <2>1. PICK d : d = indents
    OBVIOUS
  <2>2. Says(<<>>, d, t, 0)
    BY <1>1, <1>2, <2>1
  <2>3. QED
    BY <2>1, <2>2, SaysAtEnd
<1>4. IsSeq(out) /\ NoHole(out) /\ root \in Trees
  BY <1>1 DEF Telling
<1> DEFINE p == out \o <<NL>>
           T == Text(root)
           W == FullText(root)
<1>5. IsSeq(<<NL>>) /\ NoHole(<<NL>>)
  <2>1. NL # Hole
    BY DEF NL, Hole
  <2>2. \A i \in 1 .. Len(<<NL>>) : <<NL>>[i] = NL
    OBVIOUS
  <2>3. IsSeq(<<NL>>)
    BY ShortSeqs
  <2>4. NoHole(<<NL>>)
    BY <2>1, <2>2 DEF NoHole
  <2>5. QED
    BY <2>3, <2>4
<1>6. W = p
  BY <1>2, <1>3, <1>5, CatNothing
<1>7. IsSeq(p) /\ NoHole(p)
  BY <1>4, <1>5, CatIsSeq, NoHoleCat
<1> HIDE DEF p
<1>8. p = p \o <<>> /\ Len(<<>>) = 0
  BY <1>7, CatNothing
<1>9. IsSeq(<<>>)
  BY ShortSeqs, Zenon
<1>10. /\ Len(T) = FirstHole(W) /\ Len(p) <= Len(T) /\ Len(W) = Len(p) + Len(<<>>) /\ IsSeq(W)
       /\ Len(p) \in Nat /\ Len(T) \in Nat
  BY <1>6, <1>7, <1>8, <1>9, Begins
<1>11. FirstHole(W) \in 0 .. Len(W)
  BY <1>10, FirstHoleIs
<1> HIDE DEF T, W
<1>12. Len(T) = Len(p)
  BY <1>8, <1>10, <1>11
<1>13. T = p
  <2>1. FullText(root) = p \o <<>> /\ Len(Text(root)) = Len(p)
    BY <1>6, <1>8, <1>12 DEF T, W
  <2>2. QED
    BY <1>7, <1>9, <2>1, AllOfText DEF T
<1>14. Texts[root] = out' /\ Pages[root] = out'
  <2>1. Texts[root] = T /\ Pages[root] = W
    BY <1>4 DEF Texts, Pages, T, W
  <2>2. QED
    BY <1>1, <1>6, <1>13, <2>1 DEF p
<1>15. Telling'
  BY <1>1, <1>3 DEF Telling
<1>16. QED
  BY <1>1, <1>14, <1>15 DEF Promise!Finish

\* Every step keeps what is told, and is a step of Writer or none.
LEMMA StepTells ==
    ASSUME Owed, Telling, [Next]_vars
    PROVE  Telling' /\ [Promise!Next]_(Promise!vars)
<1>1. CASE ifj17_prettyprint
  <2>1. PICK n \in Trees : Start(n)
    BY <1>1 DEF ifj17_prettyprint
  <2>2. QED
    BY <2>1, BeginTells DEF Promise!Next
<1>2. CASE PrintPieces
  BY <1>2, PiecesTell
<1>3. CASE PrintIndent \/ PrintGap
  BY <1>3, IndentTells
<1>4. CASE Count
  BY <1>4, CountTells
<1>5. CASE VisitNode
  BY <1>5, VisitTells
<1>6. CASE VisitNull
  BY <1>6, NullTells DEF Promise!Next
<1>7. CASE End
  BY <1>7, EndTells DEF Promise!Next
<1>8. CASE UNCHANGED vars
  <2>1. Telling'
    BY <1>8 DEF vars, Telling, IsSeq, NoHole
  <2>2. UNCHANGED Promise!vars
    BY <1>8 DEF vars, Promise!vars
  <2>3. QED
    BY <2>1, <2>2
<1>9. QED
  BY <1>1, <1>2, <1>3, <1>4, <1>5, <1>6, <1>7, <1>8 DEF Next, Step

\* Whatever program the parser built, however deep: each call prints the page
\* of its tree from the first piece to the last, or up to the first missing node.
THEOREM KeepsWritersPromise == Spec => KeepsPromise
<1>1. Init => Telling /\ Promise!Init
  BY DEF Init, Telling, Promise!Init, Null, Promise!Null
<1>2. Owed /\ Telling /\ [Next]_vars => Telling' /\ [Promise!Next]_(Promise!vars)
  BY StepTells
<1>3. QED
  BY <1>1, <1>2, OwedAlways, PTL DEF Spec, KeepsPromise, Promise!Spec
=============================================================================
