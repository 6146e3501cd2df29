-------------------------- MODULE HashPromiseProofs --------------------------
(***************************************************************************)
(* A table always has an empty bucket, and a path visits every bucket; so  *)
(* a search ends, and kh_put never takes the bucket of another key.        *)
(*                                                                         *)
(* From this: the tables implement Dictionary.  Each call is answered as   *)
(* it promises, for all keys, hashes, odd strides and calls.               *)
(***************************************************************************)
EXTENDS HashProofs, FiniteSetTheorems, FunctionTheorems

-----------------------------------------------------------------------------
(* An odd stride and a power of two.                                       *)

Divides(n, x) == \E y \in Nat : x = n * y

\* n divides only those multiples of an odd number whose factor it divides.
Passes(n) == \A s, x \in Nat : s % 2 = 1 /\ Divides(n, x * s) => Divides(n, x)

LEMMA OddFactor ==
    ASSUME NEW s \in Nat, s % 2 = 1, NEW x \in Nat, Divides(2, x * s)
    PROVE  Divides(2, x)
<1> DEFINE a == s \div 2
<1>1. a \in Nat /\ s = 2 * a + 1
  OBVIOUS
<1>2. PICK w \in Nat : x * s = 2 * w
  BY DEF Divides
<1>3. x * a \in Nat /\ x * s = 2 * (x * a) + x
  BY <1>1
<1>4. x = 2 * (w - x * a) /\ w - x * a \in Nat
  BY <1>2, <1>3
<1> QED BY <1>4 DEF Divides

LEMMA Cancel ==
    ASSUME NEW n \in Nat \ {0}, NEW p \in Nat, NEW q \in Nat, n * p = n * q
    PROVE  p = q
<1>1. \A a \in Int : a >= 1 => n * a >= n
  OBVIOUS
<1>2. n * (p - q) = 0 /\ n * (q - p) = 0
  OBVIOUS
<1>3. p - q < 1 /\ q - p < 1
  BY <1>1, <1>2
<1> QED BY <1>3

\* Rearranged products, with factors the provers can name.
LEMMA Rearranged ==
    ASSUME NEW a \in Int, NEW b \in Int, NEW c \in Int
    PROVE  /\ (a * b) * c = a * (b * c)
           /\ (a - b) * c = a * c - b * c /\ c * (a - b) = c * a - c * b
           /\ a * b \in Int /\ a - b \in Int
OBVIOUS

LEMMA Quotient ==
    ASSUME NEW n \in Nat \ {0}, NEW x \in Nat
    PROVE  x \div n \in Nat /\ x % n \in 0 .. n - 1 /\ x = n * (x \div n) + (x % n)
OBVIOUS

LEMMA TwiceOut ==
    ASSUME NEW n \in Int, NEW z \in Int
    PROVE  (2 * n) * z = n * (2 * z)
OBVIOUS

LEMMA PassesOne == Passes(1)
<1> SUFFICES ASSUME NEW x \in Nat PROVE Divides(1, x)
  BY DEF Passes
<1>1. x = 1 * x
  OBVIOUS
<1> QED BY <1>1 DEF Divides

LEMMA PassesTwice ==
    ASSUME NEW n \in Nat \ {0}, Passes(n), NEW m, m = 2 * n
    PROVE  Passes(m)
<1> SUFFICES ASSUME NEW s \in Nat, NEW x \in Nat, s % 2 = 1, Divides(m, x * s)
             PROVE  Divides(m, x)
  BY Zenon DEF Passes
<1>1. PICK z \in Nat : x * s = m * z
  BY DEF Divides
<1>2. 2 * z \in Nat /\ m * z = n * (2 * z)
  BY TwiceOut
<1>3. Divides(n, x * s)
  BY <1>1, <1>2, Zenon DEF Divides
<1>4. Divides(n, x)
  BY <1>3 DEF Passes
<1>5. PICK y \in Nat : x = n * y
  BY <1>4 DEF Divides
<1>6. n * (y * s) = n * (2 * z) /\ y * s \in Nat
  BY <1>1, <1>2, <1>5, Rearranged
<1>7. y * s = 2 * z
  BY <1>2, <1>6, Cancel
<1>8. PICK u \in Nat : y = 2 * u
  <2>1. Divides(2, y * s)
    BY <1>7, Zenon DEF Divides
  <2> QED BY <2>1, OddFactor DEF Divides
<1>9. x = m * u
  BY <1>5, <1>8
<1> QED BY <1>9 DEF Divides

LEMMA PassesFour == Passes(4)
<1>1. Passes(2)
  BY PassesOne, PassesTwice
<1>2. Passes(4)
  BY <1>1, PassesTwice
<1> QED BY <1>2

\* Two steps of a path meet only a whole round apart.
LEMMA RoundApart ==
    ASSUME NEW k \in Strings, NEW n \in Nat \ {0}, Passes(n), NEW d \in Nat, NEW e \in Nat, d < e,
           Walked(k, n, d) = Walked(k, n, e)
    PROVE  e - d >= n
<1> DEFINE c == Code[k]  s == Stride[k]
<1>1. c \in Nat /\ s \in Nat /\ s % 2 = 1
  BY CodeAssumption, StrideAssumption
<1>2. d * s \in Nat /\ e * s \in Nat /\ (e - d) * s = e * s - d * s /\ e - d \in Nat
  BY <1>1, Rearranged
<1>3. (c + d * s) % n = (c + e * s) % n
  BY DEF Walked
<1> DEFINE X == c + d * s  Y == c + e * s
<1>4. X \in Nat /\ Y \in Nat /\ X % n = Y % n /\ (e - d) * s = Y - X
  BY <1>1, <1>2, <1>3
<1> HIDE DEF c, s, X, Y
<1> DEFINE p == X \div n  q == Y \div n  r == X % n
<1>4a. Y \in Nat
  BY <1>1, <1>2 DEF Y
<1>5. p \in Nat /\ r \in Int /\ X = n * p + r
  <2>1. p \in Nat /\ r \in 0 .. n - 1 /\ X = n * p + r
    BY <1>4, Quotient
  <2> QED BY <2>1
<1>6. q \in Nat /\ Y = n * q + (Y % n)
  BY <1>4a, Quotient
<1>7. Y = n * q + r
  BY <1>4, <1>6, Zenon
<1> HIDE DEF p, q, r
<1>8. n * (q - p) = n * q - n * p /\ n * (p - q) = n * p - n * q
  BY <1>5, <1>6, Rearranged
<1>9. (e - d) * s = n * (q - p) /\ (e - d) * s \in Nat
  <2>1. n * p \in Int /\ n * q \in Int
    BY <1>5, <1>6
  <2>2. Y - X = n * q - n * p
    BY <1>5, <1>7, <2>1
  <2>3. (e - d) * s \in Nat
    BY <1>1, <1>2
  <2> QED BY <1>4, <1>8, <2>2, <2>3
<1>10. q - p \in Nat
  <2>1. \A a \in Int : a >= 1 => n * a >= n
    OBVIOUS
  <2>2. n * (p - q) = 0 - (n * (q - p)) /\ n * (p - q) \in Int
    BY <1>5, <1>6, <1>8, Rearranged
  <2>3. p - q < 1
    BY <2>1, <2>2, <1>5, <1>6, <1>9
  <2> QED BY <2>3, <1>5, <1>6
<1>11. PICK y \in Nat : e - d = n * y
  <2>1. Divides(n, (e - d) * s)
    BY <1>9, <1>10, Zenon DEF Divides
  <2>2. Divides(n, e - d)
    BY <1>1, <1>2, <2>1 DEF Passes
  <2> QED BY <2>2 DEF Divides
<1>12. y >= 1
  BY <1>11
<1> QED BY <1>11, <1>12

\* So n steps visit n buckets.
LEMMA EveryBucketWalked ==
    ASSUME NEW k \in Strings, NEW n \in Nat \ {0}, Passes(n), NEW b \in Buckets(n)
    PROVE  \E d \in Buckets(n) : Walked(k, n, d) = b
<1> DEFINE f == [d \in Buckets(n) |-> Walked(k, n, d)]
<1>1. Buckets(n) \subseteq Nat
  BY DEF Buckets
<1>2. f \in [Buckets(n) -> Buckets(n)]
  BY <1>1, WalkedTo
<1>3. ASSUME NEW d \in Buckets(n), NEW e \in Buckets(n), f[d] = f[e] PROVE d = e
  <2>1. d < n /\ e < n /\ d \in Nat /\ e \in Nat /\ Walked(k, n, d) = Walked(k, n, e)
    BY <1>3 DEF Buckets
  <2>2. ~ (d < e)
    BY <2>1, RoundApart
  <2>3. ~ (e < d)
    BY <2>1, RoundApart
  <2> QED BY <2>1, <2>2, <2>3
<1>4. f \in Injection(Buckets(n), Buckets(n))
  BY <1>2, <1>3, Fun_IsInj
<1>5. IsFiniteSet(Buckets(n))
  BY FS_Interval DEF Buckets
<1>6. f \in Surjection(Buckets(n), Buckets(n))
  BY <1>4, <1>5, FS_Injection
<1> QED BY <1>6, Fun_SurjectionProperties

\* A path that comes back to its beginning over occupied buckets leaves no other.
LEMMA ComesRound ==
    ASSUME NEW k \in Strings, NEW n \in Nat \ {0}, Passes(n), NEW flags, NEW d \in Nat,
           \A e \in 0 .. d : flags[Walked(k, n, e)] # "empty",
           Walked(k, n, d + 1) = Home(k, n), NEW b \in Buckets(n)
    PROVE  flags[b] # "empty"
<1>1. Walked(k, n, 0) = Walked(k, n, d + 1)
  BY WalkedTo
<1>2. d + 1 >= n
  BY <1>1, RoundApart
<1>3. PICK e \in Buckets(n) : Walked(k, n, e) = b
  BY EveryBucketWalked
<1>4. e \in 0 .. d
  BY <1>2, <1>3 DEF Buckets
<1> QED BY <1>3, <1>4

-----------------------------------------------------------------------------
(* Counting buckets.                                                       *)

Occupied(flags) == {b \in DOMAIN flags : flags[b] # "empty"}
In(b, S) == IF b \in S THEN 1 ELSE 0
Hand == IF pc = "kick" THEN 1 ELSE 0

LEMMA Finite ==
    ASSUME NEW n \in Nat, NEW flags \in FlagsOf(n)
    PROVE  /\ Live(flags) \subseteq Occupied(flags) /\ Occupied(flags) \subseteq Buckets(n)
           /\ IsFiniteSet(Live(flags)) /\ Cardinality(Live(flags)) \in Nat
           /\ IsFiniteSet(Occupied(flags)) /\ Cardinality(Occupied(flags)) \in Nat
           /\ Cardinality(Live(flags)) <= Cardinality(Occupied(flags))
           /\ Cardinality(Buckets(n)) = n
<1>1. Live(flags) \subseteq Occupied(flags) /\ Occupied(flags) \subseteq Buckets(n)
  BY DEF Live, Occupied, FlagsOf
<1>2. IsFiniteSet(Buckets(n)) /\ Cardinality(Buckets(n)) = n
  BY FS_Interval DEF Buckets
<1>3. IsFiniteSet(Occupied(flags))
  BY <1>1, <1>2, FS_Subset
<1>4. IsFiniteSet(Live(flags)) /\ Cardinality(Live(flags)) <= Cardinality(Occupied(flags))
  BY <1>1, <1>3, FS_Subset
<1> QED BY <1>1, <1>2, <1>3, <1>4, FS_CardinalityType

\* A bucket is marked anew.
LEMMA Marked ==
    ASSUME NEW n \in Nat, NEW flags \in FlagsOf(n), NEW b \in Buckets(n), NEW m \in Marks,
           NEW g, g = [flags EXCEPT ![b] = m]
    PROVE  /\ g \in FlagsOf(n)
           /\ Live(g) = IF m = "live" THEN Live(flags) \cup {b} ELSE Live(flags) \ {b}
           /\ Occupied(g) = IF m # "empty" THEN Occupied(flags) \cup {b} ELSE Occupied(flags) \ {b}
           /\ Cardinality(Live(g)) + In(b, Live(flags)) = Cardinality(Live(flags)) + In(b, Live(g))
           /\ Cardinality(Occupied(g)) + In(b, Occupied(flags))
                = Cardinality(Occupied(flags)) + In(b, Occupied(g))
<1>1. /\ g \in FlagsOf(n)
      /\ Live(g) = IF m = "live" THEN Live(flags) \cup {b} ELSE Live(flags) \ {b}
      /\ Occupied(g) = IF m # "empty" THEN Occupied(flags) \cup {b} ELSE Occupied(flags) \ {b}
  BY DEF Live, Occupied, FlagsOf
<1>2. ASSUME NEW S, IsFiniteSet(S), NEW T, T \in {S \cup {b}, S \ {b}}
      PROVE  Cardinality(T) + In(b, S) = Cardinality(S) + In(b, T)
  <2>1. Cardinality(S) \in Nat
    BY <1>2, FS_CardinalityType
  <2>2. CASE T = S \cup {b}
    <3>1. Cardinality(T) = IF b \in S THEN Cardinality(S) ELSE Cardinality(S) + 1
      BY <2>2, <1>2, FS_AddElement
    <3>2. b \in T
      BY <2>2
    <3> QED BY <2>1, <3>1, <3>2 DEF In
  <2>3. CASE T = S \ {b}
    <3>1. Cardinality(T) = IF b \in S THEN Cardinality(S) - 1 ELSE Cardinality(S)
      BY <2>3, <1>2, FS_RemoveElement
    <3>2. b \notin T
      BY <2>3
    <3> QED BY <2>1, <3>1, <3>2 DEF In
  <2> QED BY <1>2, <2>2, <2>3
<1>3. IsFiniteSet(Live(flags)) /\ IsFiniteSet(Occupied(flags))
  BY Finite
<1> QED BY <1>1, <1>2, <1>3

LEMMA NoFlags == Live(NoTable.flags) = {} /\ Cardinality(Live(NoTable.flags)) = 0
BY FS_EmptySet DEF Live, NoTable

\* Fewer occupied buckets than buckets leave an empty one.
LEMMA EmptyLeft ==
    ASSUME NEW n \in Nat, NEW flags \in FlagsOf(n), Cardinality(Occupied(flags)) < n
    PROVE  \E b \in Buckets(n) : flags[b] = "empty"
<1> SUFFICES ASSUME \A b \in Buckets(n) : flags[b] # "empty" PROVE FALSE
  OBVIOUS
<1>1. Occupied(flags) = Buckets(n)
  BY DEF Occupied, FlagsOf
<1> QED BY <1>1, Finite

\* A search that meets an empty bucket has passed the key, or it is not there.
LEMMA NotBehind ==
    ASSUME NEW k \in Strings, NEW n \in Nat \ {0}, NEW flags, NEW d \in Nat, NEW b,
           flags[Walked(k, n, d)] = "empty",
           \A e \in 0 .. d - 1 : Walked(k, n, e) # b,
           OnPath(k, n, flags, b), flags[b] # "empty"
    PROVE  FALSE
<1>1. PICK c \in Nat : /\ Walked(k, n, c) = b
                      /\ \A e \in 0 .. c - 1 : flags[Walked(k, n, e)] # "empty"
  BY DEF OnPath
<1>2. c # d
  BY <1>1
<1>3. ~ (c < d)
  BY <1>1
<1>4. ~ (d < c)
  BY <1>1
<1> QED BY <1>2, <1>3, <1>4

-----------------------------------------------------------------------------
(* The invariant.                                                          *)

\* The numbers of buckets that kh_resize makes.
IsMask(n) == n = 0 \/ (n \in Nat /\ n >= 4 /\ Passes(n))

Counted ==
    /\ h.size \in Nat
    /\ h.size = Cardinality(Live(h.flags)) + Cardinality(Live(new.flags)) + Hand
    /\ h.n_occupied = Cardinality(Occupied(h.flags))
    /\ h.upper_bound = UpperBound(h.n_buckets)
    /\ h.n_occupied <= h.upper_bound
    /\ IsMask(h.n_buckets)

\* The table that is filled has room for all, and the old one has no live bucket
\* behind the one rehashed next.
Filled ==
    /\ Resizing => /\ h.size < UpperBound(new.n) /\ IsMask(new.n)
                   /\ Occupied(new.flags) = Live(new.flags)
                   /\ \A b \in Live(h.flags) : b >= j
    /\ pc = "kick" => h.flags[j] # "live"
    /\ ~ Resizing => new = NoTable

Distinct ==
    /\ Live(h.flags) \cap Live(new.flags) = {}
    /\ \A a, b \in Homed : h.entries[a].key = h.entries[b].key => a = b
    /\ pc = "kick" => \A b \in Homed : h.entries[b].key # carry.key

Absent(k) == \A b \in Live(h.flags) : h.entries[b].key # k

Looking ==
    /\ pc = "found" /\ i # h.n_buckets => h.flags[i] = "live"
    /\ pc \in {"put_start", "put_loop", "put_end"} => h.n_occupied < h.upper_bound
    /\ pc = "put_loop" =>
          /\ \E d \in Nat : /\ Walked(call.key, h.n_buckets, d) = i
                            /\ \A e \in 0 .. d - 1 :
                                  GoesOn(Walked(call.key, h.n_buckets, e), call.key)
          /\ site # h.n_buckets => h.flags[site] = "deleted"
    /\ pc = "put_end" => IF h.flags[i] = "live" THEN h.entries[i].key = call.key
                         ELSE Absent(call.key)

JInv == Counted /\ Filled /\ Distinct /\ Looking

LEMMA BeginsCounted == Init => JInv
<1> SUFFICES ASSUME Init PROVE JInv
  OBVIOUS
<1>1. /\ h.n_buckets = 0 /\ h.size = 0 /\ h.n_occupied = 0 /\ h.upper_bound = 0
      /\ h.flags = NoTable.flags /\ new = NoTable /\ pc = "idle"
  BY DEF Init, kh_init
<1>2. Occupied(NoTable.flags) = {}
  BY DEF Occupied, NoTable
<1>3. Counted
  BY <1>1, <1>2, NoFlags, FS_EmptySet DEF Counted, UpperBound, IsMask, Hand
<1>4. Filled /\ Distinct /\ Looking
  BY <1>1, NoFlags DEF Filled, Distinct, Looking, Homed, Resizing
<1> QED BY <1>3, <1>4 DEF JInv

\* Steps that leave the table as it is.
LEMMA CountKept ==
    ASSUME JInv, ~ Resizing, ~ Resizing', UNCHANGED <<h, new>>
    PROVE  Counted' /\ Filled' /\ Distinct'
<1>1. pc # "kick" /\ pc' # "kick"
  BY DEF Resizing
<1>2. Counted'
  BY <1>1 DEF JInv, Counted, Hand
<1>3. Filled'
  BY <1>1 DEF JInv, Filled, Resizing
<1>4. Distinct'
  BY <1>1 DEF JInv, Distinct, Homed
<1> QED BY <1>2, <1>3, <1>4

\* What the numbers say of a table that is not being rehashed.
LEMMA Room ==
    ASSUME IInv, JInv
    PROVE  /\ h.n_buckets \in Nat /\ h.flags \in FlagsOf(h.n_buckets)
           /\ h.n_occupied \in Nat /\ h.size \in Nat
           /\ h.n_buckets # 0 => /\ h.n_occupied < h.n_buckets
                                 /\ Passes(h.n_buckets)
                                 /\ \E b \in Buckets(h.n_buckets) : h.flags[b] = "empty"
<1>1. h.n_buckets \in Nat /\ h.flags \in FlagsOf(h.n_buckets)
  BY DEF IInv, IsTable
<1>2. /\ h.n_occupied = Cardinality(Occupied(h.flags)) /\ h.n_occupied \in Nat /\ h.size \in Nat
      /\ h.n_occupied <= UpperBound(h.n_buckets) /\ IsMask(h.n_buckets)
  BY <1>1, Finite DEF JInv, Counted
<1>3. h.n_buckets # 0 => h.n_occupied < h.n_buckets
  BY <1>1, <1>2 DEF IsMask, UpperBound
<1>4. h.n_buckets # 0 => \E b \in Buckets(h.n_buckets) : h.flags[b] = "empty"
  BY <1>1, <1>2, <1>3, EmptyLeft
<1> QED BY <1>1, <1>2, <1>3, <1>4 DEF IsMask

LEMMA QuietCounts ==
    ASSUME JInv, Ask \/ GetStart \/ GetLoop \/ GetEnd
                 \/ hash_get \/ hash_has \/ hash_each \/ hash_size \/ string_exists \/ string_new
    PROVE  JInv'
<1>1. /\ pc \notin {"rehash", "kick"} /\ UNCHANGED <<h, new>>
      /\ pc' \in {"kh_put", "walk", "kh_get", "get_loop", "found", "idle", "dead"}
  BY DEF Ask, GetStart, GetLoop, GetEnd, hash_get, hash_has, hash_each, hash_size, string_exists,
         string_new, Return, Goto, table, probe
<1>2. Counted' /\ Filled' /\ Distinct'
  BY <1>1, CountKept DEF Resizing
<1>3. pc' = "found" => (GetStart /\ i' = h.n_buckets) \/ (GetLoop /\ i' = h.n_buckets) \/ GetEnd
  BY <1>1 DEF Ask, GetStart, GetLoop, GetEnd, hash_get, hash_has, hash_each, hash_size, string_exists,
         string_new, Return, Goto, table, probe
<1>4. pc' = "found" /\ i' # h.n_buckets => h.flags[i'] = "live"
  BY <1>3 DEF GetEnd
<1>5. Looking'
  BY <1>1, <1>4 DEF Looking
<1> QED BY <1>2, <1>5 DEF JInv

LEMMA PutLookCounts == IInv /\ JInv /\ PutLook => JInv'
<1> SUFFICES ASSUME IInv, JInv, PutLook PROVE JInv'
  OBVIOUS
<1> DEFINE n == h.n_buckets  k == call.key
<1>1. /\ pc = "put_start" /\ UNCHANGED <<h, new, call>>
      /\ i' = Home(k, n) /\ site' = n
      /\ pc' = IF h.flags[i'] = "empty" THEN "put_end" ELSE "put_loop"
  BY DEF PutLook, Goto, table
<1>2. Counted' /\ Filled' /\ Distinct'
  BY <1>1, CountKept DEF Resizing
<1>3. n \in Nat \ {0} /\ k \in Strings /\ Reached(n, h.flags)
  BY <1>1 DEF IInv, IsTable, Putting, Settled, Resizing
<1>4. i' = Walked(k, n, 0)
  BY <1>1, <1>3, WalkedTo
<1>5. h.flags[i'] = "empty" => Absent(k)
  <2> SUFFICES ASSUME h.flags[i'] = "empty", NEW b \in Live(h.flags), h.entries[b].key = k
               PROVE  FALSE
    BY DEF Absent
  <2>1. OnPath(k, n, h.flags, b) /\ h.flags[b] # "empty"
    BY <1>3 DEF Reached, Live
  <2>2. \A e \in 0 .. 0 - 1 : Walked(k, n, e) # b
    OBVIOUS
  <2> QED BY <2>1, <2>2, <1>3, <1>4, NotBehind
<1>6. h.n_occupied < h.upper_bound
  BY <1>1 DEF JInv, Looking
<1>7. pc' = "put_loop" => \E d \in Nat : /\ Walked(k, n, d) = i'
                                        /\ \A e \in 0 .. d - 1 : GoesOn(Walked(k, n, e), k)
  BY <1>4
<1>8. Looking'
  BY <1>1, <1>5, <1>6, <1>7 DEF Looking, Absent, GoesOn, Holds, Walked
<1> QED BY <1>2, <1>8 DEF JInv

LEMMA PutLoopCounts == IInv /\ JInv /\ (PutLoop \/ PutFound) => JInv'
<1> SUFFICES ASSUME IInv, JInv, PutLoop \/ PutFound PROVE JInv'
  OBVIOUS
<1> DEFINE n == h.n_buckets  k == call.key  next == After(k, i, n)
<1>1. /\ pc = "put_loop" /\ pc' \in {"put_loop", "put_end"} /\ UNCHANGED <<h, new, call>>
  BY DEF PutLoop, PutFound, Goto, table
<1>2. Counted' /\ Filled' /\ Distinct'
  BY <1>1, CountKept DEF Resizing
<1>3. n \in Nat \ {0} /\ k \in Strings /\ Reached(n, h.flags) /\ last = Home(k, n)
  BY <1>1 DEF IInv, IsTable, Putting, Settled, Resizing
<1>4. /\ h.n_occupied < h.upper_bound
      /\ site # n => h.flags[site] = "deleted"
  BY <1>1 DEF JInv, Looking
<1>5. PICK d \in Nat : Walked(k, n, d) = i /\ \A e \in 0 .. d - 1 : GoesOn(Walked(k, n, e), k)
  BY <1>1 DEF JInv, Looking
<1>6. Looking'
  <2>1. CASE PutLoop
    <3>1. GoesOn(i, k)
      BY <2>1 DEF PutLoop
    <3>2. Walked(k, n, d + 1) = next /\ \A e \in 0 .. (d + 1) - 1 : GoesOn(Walked(k, n, e), k)
      BY <1>3, <1>5, <3>1, WalkedTo
    <3>3. \A e \in 0 .. d : h.flags[Walked(k, n, e)] # "empty"
      BY <3>2 DEF GoesOn
    <3>4. next # last
      <4> SUFFICES ASSUME next = last PROVE FALSE
        OBVIOUS
      <4>1. Passes(n) /\ \E b \in Buckets(n) : h.flags[b] = "empty"
        BY <1>3, Room
      <4> QED BY <4>1, <1>3, <1>5, <3>2, <3>3, ComesRound
    <3>5. /\ pc' = "put_loop" /\ i' = next
          /\ site' = IF h.flags[i] = "deleted" THEN i ELSE site
      BY <2>1, <1>1, <3>4 DEF PutLoop
    <3>6. site' # n => h.flags[site'] = "deleted"
      BY <1>4, <3>5
    <3>7. \E c \in Nat : Walked(k, n, c) = i' /\ \A e \in 0 .. c - 1 : GoesOn(Walked(k, n, e), k)
      BY <3>2, <3>5
    <3> QED BY <1>1, <1>4, <3>5, <3>6, <3>7 DEF Looking, GoesOn, Holds, Walked
  <2>2. CASE PutFound
    <3>1. /\ h.flags[i] = "empty" \/ Holds(i, k)
          /\ i' = IF h.flags[i] = "empty" /\ site # n THEN site ELSE i
          /\ pc' = "put_end"
      BY <2>2 DEF PutFound, GoesOn, Goto
    <3>2. h.flags[i] = "empty" => Absent(k)
      <4> SUFFICES ASSUME h.flags[i] = "empty", NEW b \in Live(h.flags), h.entries[b].key = k
                   PROVE  FALSE
        BY DEF Absent
      <4>1. OnPath(k, n, h.flags, b) /\ h.flags[b] # "empty"
        BY <1>3 DEF Reached, Live
      <4>2. \A e \in 0 .. d - 1 : Walked(k, n, e) # b
        BY <1>5 DEF GoesOn, Holds, Live
      <4> QED BY <4>1, <4>2, <1>3, <1>5, NotBehind
    <3>3. IF h.flags[i'] = "live" THEN h.entries[i'].key = k ELSE Absent(k)
      BY <3>1, <3>2, <1>4 DEF Holds
    <3> QED BY <1>1, <1>4, <3>1, <3>3 DEF Looking, Absent
  <2> QED BY <2>1, <2>2
<1> QED BY <1>2, <1>6 DEF JInv

-----------------------------------------------------------------------------
(* Steps that change it.                                                   *)

\* Between two resizes the old table holds everything.
LEMMA Resting ==
    ASSUME IInv, JInv, ~ Resizing
    PROVE  /\ new = NoTable /\ Live(new.flags) = {} /\ Homed = Live(h.flags)
           /\ h.size = Cardinality(Live(h.flags))
           /\ Contents = {h.entries[b] : b \in Live(h.flags)}
<1>1. new = NoTable /\ Live(new.flags) = {} /\ Cardinality(Live(new.flags)) = 0
  BY NoFlags DEF JInv, Filled
<1>2. h.size = Cardinality(Live(h.flags))
  <2>1. Cardinality(Live(h.flags)) \in Nat
    BY Room, Finite
  <2> QED BY <1>1, <2>1 DEF JInv, Counted, Hand, Resizing
<1> QED BY <1>1, <1>2 DEF Homed, Contents, Carried, Resizing

LEMMA RemoveCounts ==
    IInv /\ JInv /\ hash_remove =>
        JInv' /\ Contents' = IF i = h.n_buckets THEN Contents ELSE Contents \ {h.entries[i]}
<1> DEFINE n == h.n_buckets
<1> SUFFICES ASSUME IInv, JInv, hash_remove
             PROVE  JInv' /\ Contents' = IF i = n THEN Contents ELSE Contents \ {h.entries[i]}
  OBVIOUS
<1>1. /\ pc = "found" /\ pc' = "idle" /\ new' = new
      /\ h' = IF i # n THEN kh_del(i) ELSE h
  BY DEF hash_remove, Return, Goto, Found
<1>2. Looking'
  BY <1>1 DEF Looking
<1>3. CASE i = n
  <2>1. JInv'
    BY <1>1, <1>2, <1>3, CountKept DEF JInv, Resizing
  <2>2. Contents' = Contents
    BY <1>1, <1>3 DEF Contents, Homed, Carried
  <2> QED BY <1>3, <2>1, <2>2
<1>4. CASE i # n
  <2>1. IsTable /\ i \in Buckets(n) /\ n \in Nat /\ h.flags \in FlagsOf(n) /\ h.flags[i] = "live"
    BY <1>1, <1>4 DEF IInv, IsTable, Getting, Buckets, JInv, Looking
  <2>2. /\ h'.n_buckets = n /\ h'.entries = h.entries /\ h'.size = h.size - 1
        /\ h'.n_occupied = h.n_occupied /\ h'.upper_bound = h.upper_bound
        /\ h'.flags = [h.flags EXCEPT ![i] = "deleted"]
    BY <1>1, <1>4, <2>1 DEF IsTable, kh_del
  <2>3. new = NoTable /\ Live(new.flags) = {} /\ h.size = Cardinality(Live(h.flags))
        /\ Homed = Live(h.flags) /\ Contents = {h.entries[b] : b \in Live(h.flags)}
    BY <1>1, Resting DEF Resizing
  <2>4. /\ h'.flags \in FlagsOf(n) /\ Live(h'.flags) = Live(h.flags) \ {i}
        /\ Occupied(h'.flags) = Occupied(h.flags) \cup {i}
        /\ Cardinality(Live(h'.flags)) + In(i, Live(h.flags))
              = Cardinality(Live(h.flags)) + In(i, Live(h'.flags))
    BY <2>1, <2>2, Marked DEF Marks
  <2>5. i \in Live(h.flags) /\ i \in Occupied(h.flags)
    BY <2>1 DEF Live, Occupied, FlagsOf
  <2>6. h'.size = Cardinality(Live(h'.flags)) /\ h'.size \in Nat
    <3>1. Cardinality(Live(h'.flags)) \in Nat /\ Cardinality(Live(h.flags)) \in Nat
      BY <2>1, <2>4, Finite
    <3>2. In(i, Live(h.flags)) = 1 /\ In(i, Live(h'.flags)) = 0
      BY <2>4, <2>5 DEF In
    <3> QED BY <3>1, <3>2, <2>2, <2>3, <2>4
  <2>7. Occupied(h'.flags) = Occupied(h.flags)
    BY <2>4, <2>5
  <2>8. Counted'
    <3>1. Cardinality(Live(new'.flags)) = 0
      BY <1>1, <2>3, NoFlags
    <3> QED BY <1>1, <2>2, <2>6, <2>7, <3>1 DEF JInv, Counted, Hand
  <2>9. Filled'
    BY <1>1, <2>3 DEF Filled, Resizing
  <2>10. Distinct'
    BY <1>1, <2>2, <2>3, <2>4 DEF JInv, Distinct, Homed
  <2>11. Contents' = Contents \ {h.entries[i]}
    <3>1. Contents' = {h.entries[b] : b \in Live(h'.flags)}
      BY <1>1, <2>2, <2>3 DEF Contents, Homed, Carried
    <3>2. \A b \in Live(h.flags) : h.entries[b] = h.entries[i] => b = i
      BY <2>3, <2>5 DEF JInv, Distinct
    <3> QED BY <2>3, <2>4, <3>1, <3>2
  <2> QED BY <1>2, <1>4, <2>8, <2>9, <2>10, <2>11 DEF JInv
<1> QED BY <1>3, <1>4

LEMMA OccupyCounts ==
    ASSUME IInv, JInv, NEW v, pc = "put_end", h' = Occupy(i, v), pc' = "idle", new' = new
    PROVE  /\ JInv'
           /\ Contents' = {e \in Contents : e.key # call.key} \cup {[key |-> call.key, val |-> v]}
<1> DEFINE n == h.n_buckets  k == call.key
<1>1. IsTable /\ Settled /\ n \in Nat \ {0} /\ h.flags \in FlagsOf(n) /\ i \in Buckets(n)
  BY PathInTable DEF IInv, Resizing, Putting, IsTable, OnWay
<1>2. /\ h'.n_buckets = n /\ h'.upper_bound = h.upper_bound
      /\ h'.flags = [h.flags EXCEPT ![i] = "live"]
      /\ h'.size = IF h.flags[i] = "live" THEN h.size ELSE h.size + 1
      /\ h'.n_occupied = IF h.flags[i] = "empty" THEN h.n_occupied + 1 ELSE h.n_occupied
      /\ h'.entries = [h.entries EXCEPT ![i] =
            [key |-> IF h.flags[i] = "live" THEN h.entries[i].key ELSE k, val |-> v]]
  BY <1>1 DEF IsTable, Occupy, Settled
<1>3. new = NoTable /\ Live(new.flags) = {} /\ h.size = Cardinality(Live(h.flags))
      /\ Homed = Live(h.flags) /\ Contents = {h.entries[b] : b \in Live(h.flags)}
  BY Resting DEF Resizing
<1>4. /\ h'.flags \in FlagsOf(n) /\ Live(h'.flags) = Live(h.flags) \cup {i}
      /\ Occupied(h'.flags) = Occupied(h.flags) \cup {i}
      /\ Cardinality(Live(h'.flags)) + In(i, Live(h.flags))
            = Cardinality(Live(h.flags)) + In(i, Live(h'.flags))
      /\ Cardinality(Occupied(h'.flags)) + In(i, Occupied(h.flags))
            = Cardinality(Occupied(h.flags)) + In(i, Occupied(h'.flags))
  BY <1>1, <1>2, Marked DEF Marks
<1>5. /\ In(i, Live(h.flags)) = (IF h.flags[i] = "live" THEN 1 ELSE 0)
      /\ In(i, Occupied(h.flags)) = (IF h.flags[i] = "empty" THEN 0 ELSE 1)
      /\ In(i, Live(h'.flags)) = 1 /\ In(i, Occupied(h'.flags)) = 1
  BY <1>1, <1>4 DEF In, Live, Occupied, FlagsOf
<1>6. /\ Cardinality(Live(h'.flags)) \in Nat /\ Cardinality(Live(h.flags)) \in Nat
      /\ Cardinality(Occupied(h'.flags)) \in Nat /\ Cardinality(Occupied(h.flags)) \in Nat
  BY <1>1, <1>4, Finite
<1>7. h'.size = Cardinality(Live(h'.flags))
  BY <1>2, <1>3, <1>4, <1>5, <1>6
<1>8. /\ h'.n_occupied = Cardinality(Occupied(h'.flags))
      /\ h'.n_occupied <= h'.upper_bound
  <2>1. h.n_occupied = Cardinality(Occupied(h.flags)) /\ h.n_occupied < h.upper_bound
        /\ h.upper_bound \in Nat
    BY <1>1 DEF JInv, Counted, Looking, UpperBound
  <2> QED BY <2>1, <1>2, <1>4, <1>5, <1>6
<1>9. Counted'
  <2>1. Cardinality(Live(new'.flags)) = 0
    BY <1>3, NoFlags
  <2> QED BY <1>2, <1>6, <1>7, <1>8, <2>1 DEF JInv, Counted, Hand
<1>10. Filled'
  BY <1>3 DEF Filled, Resizing
<1>11. Distinct'
  <2>1. Homed' = Live(h.flags) \cup {i}
    BY <1>3, <1>4 DEF Homed
  <2>2. \A b \in Live(h.flags) : b # i => h'.entries[b] = h.entries[b]
    BY <1>1, <1>2 DEF Settled, Live, FlagsOf
  <2>3. h'.entries[i].key = IF h.flags[i] = "live" THEN h.entries[i].key ELSE k
    BY <1>1, <1>2 DEF Settled
  <2>4. \A b \in Live(h.flags) : b # i => h'.entries[b].key # h'.entries[i].key
    <3>1. CASE h.flags[i] = "live"
      <4>1. i \in Live(h.flags)
        BY <3>1, <1>1 DEF Live, FlagsOf
      <4> QED BY <3>1, <4>1, <2>2, <2>3, <1>3 DEF JInv, Distinct
    <3>2. CASE h.flags[i] # "live"
      <4>1. Absent(k)
        BY <3>2 DEF JInv, Looking
      <4> QED BY <3>2, <4>1, <2>2, <2>3 DEF Absent
    <3> QED BY <3>1, <3>2
  <2>5. \A a, b \in Homed' : h'.entries[a].key = h'.entries[b].key => a = b
    <3> SUFFICES ASSUME NEW a \in Homed', NEW b \in Homed', h'.entries[a].key = h'.entries[b].key
                 PROVE  a = b
      OBVIOUS
    <3>1. CASE a = i \/ b = i
      BY <3>1, <2>1, <2>4
    <3>2. CASE a # i /\ b # i
      <4>1. a \in Homed /\ b \in Homed /\ h.entries[a].key = h.entries[b].key
        BY <3>2, <2>1, <2>2, <1>3
      <4> QED BY <4>1 DEF JInv, Distinct
    <3> QED BY <3>1, <3>2
  <2> QED BY <2>5, <1>3 DEF Distinct
<1>12. Looking'
  BY DEF Looking
<1>13. Contents' = {e \in Contents : e.key # k} \cup {[key |-> k, val |-> v]}
  <2>1. Contents' = {h'.entries[b] : b \in Live(h.flags) \cup {i}}
    BY <1>3, <1>4 DEF Contents, Homed, Carried
  <2>2. \A b \in Live(h.flags) : b # i => h'.entries[b] = h.entries[b]
    BY <1>1, <1>2 DEF Settled, Live, FlagsOf
  <2>3. h'.entries[i] = [key |-> k, val |-> v]
    BY <1>1, <1>2 DEF Settled, JInv, Looking
  <2>4. \A b \in Live(h.flags) : b # i <=> h.entries[b].key # k
    <3>1. CASE h.flags[i] = "live"
      <4>1. i \in Live(h.flags) /\ h.entries[i].key = k
        BY <3>1, <1>1 DEF Live, FlagsOf, JInv, Looking
      <4> QED BY <4>1, <1>3 DEF JInv, Distinct
    <3>2. CASE h.flags[i] # "live"
      <4>1. Absent(k) /\ i \notin Live(h.flags)
        BY <3>2 DEF JInv, Looking, Live
      <4> QED BY <4>1 DEF Absent
    <3> QED BY <3>1, <3>2
  <2> QED BY <1>3, <2>1, <2>2, <2>3, <2>4
<1> QED BY <1>9, <1>10, <1>11, <1>12, <1>13 DEF JInv

LEMMA StoreCounts == IInv /\ JInv /\ (hash_set \/ string_put) => JInv'
<1> SUFFICES ASSUME IInv, JInv, hash_set \/ string_put PROVE JInv'
  OBVIOUS
<1>1. PICK v : h' = Occupy(i, v)
  BY DEF hash_set, string_put
<1>2. pc = "put_end" /\ pc' = "idle" /\ new' = new
  BY DEF hash_set, string_put, Return, Goto
<1> QED BY <1>1, <1>2, OccupyCounts

\* A full table is always resized, to one with room for all.
LEMMA NeverRefused ==
    ASSUME IInv, JInv, ~ Resizing, h.n_occupied >= h.upper_bound
    PROVE  /\ NewSize \in Nat /\ IsMask(NewSize) /\ NewSize # 0
           /\ h.size < UpperBound(NewSize)
<1> DEFINE n == h.n_buckets
<1>1. /\ n \in Nat /\ h.size \in Nat /\ h.size <= h.n_occupied /\ IsMask(n)
      /\ h.n_occupied = UpperBound(n)
  BY Room, Finite, Resting DEF JInv, Counted, UpperBound
<1>2. CASE n = 0
  <2>1. NewSize = 4 /\ h.size = 0
    BY <1>2, <1>1 DEF NewSize, RoundUp, UpperBound
  <2>2. UpperBound(4) = 3
    BY DEF UpperBound
  <2> QED BY <2>1, <2>2, PassesFour DEF IsMask
<1>3. CASE n # 0 /\ n > 2 * h.size
  <2>1. n >= 4
    BY <1>1, <1>3 DEF IsMask
  <2>2. NewSize = n
    BY <1>1, <1>3, <2>1 DEF NewSize, RoundUp
  <2>3. h.size < UpperBound(n)
    BY <1>1, <1>3, <2>1 DEF UpperBound
  <2> QED BY <1>1, <1>3, <2>2, <2>3
<1>4. CASE n # 0 /\ ~ (n > 2 * h.size)
  <2>1. n >= 4 /\ Passes(n)
    BY <1>1, <1>4 DEF IsMask
  <2>2. NewSize = 2 * n
    BY <1>1, <1>4, <2>1 DEF NewSize, RoundUp
  <2>3. Passes(2 * n)
    BY <1>1, <2>1, PassesTwice
  <2>4. UpperBound(n) < UpperBound(2 * n)
    BY <1>1, <2>1 DEF UpperBound
  <2>5. h.size < UpperBound(2 * n)
    BY <1>1, <2>4 DEF UpperBound
  <2> QED BY <1>1, <2>1, <2>2, <2>3, <2>5 DEF IsMask
<1> QED BY <1>2, <1>3, <1>4

LEMMA PutStartCounts == IInv /\ JInv /\ PutStart => JInv' /\ Contents' = Contents
<1> SUFFICES ASSUME IInv, JInv, PutStart PROVE JInv' /\ Contents' = Contents
  OBVIOUS
<1> DEFINE n == h.n_buckets
<1>1. /\ pc = "kh_put" /\ UNCHANGED <<carry, j, i, call>> /\ IsTable /\ Settled /\ n \in Nat
      /\ h.flags \in FlagsOf(n)
  BY DEF PutStart, probe, IInv, Resizing, IsTable
<1>2. CASE h.n_occupied >= h.upper_bound
  <2> DEFINE m == NewSize
  <2>1. m \in Nat /\ IsMask(m) /\ m # 0 /\ h.size < UpperBound(m) /\ n <= m
    BY <1>1, <1>2, NeverRefused, NewSizeGrows DEF Resizing
  <2>2. /\ pc' = "rehash"
        /\ new' = [n |-> m, flags |-> [b \in Buckets(m) |-> "empty"]]
        /\ h' = [h EXCEPT !.entries = [b \in Buckets(m) |-> IF b < n THEN h.entries[b] ELSE NoEntry]]
    BY <1>2, <2>1 DEF PutStart, Goto
  <2> HIDE DEF m
  <2>3. /\ h'.n_buckets = n /\ h'.flags = h.flags /\ h'.size = h.size
        /\ h'.n_occupied = h.n_occupied /\ h'.upper_bound = h.upper_bound
        /\ h'.entries = [b \in Buckets(m) |-> IF b < n THEN h.entries[b] ELSE NoEntry]
    BY <2>2, <1>1 DEF IsTable
  <2>4. Live(new'.flags) = {} /\ Occupied(new'.flags) = {} /\ new'.n = m
    BY <2>2 DEF Live, Occupied
  <2>5. Homed = Live(h.flags) /\ h.size = Cardinality(Live(h.flags))
    BY <1>1, Resting DEF Resizing
  <2>6. \A b \in Live(h.flags) : h'.entries[b] = h.entries[b] /\ b >= 0
    BY <2>1, <2>3, <1>1 DEF Live, FlagsOf, Buckets
  <2>7. Counted'
    <3>1. Cardinality(Live(h.flags)) \in Nat /\ Cardinality(Live(new'.flags)) = 0
      BY <1>1, <2>4, Finite, FS_EmptySet
    <3> QED BY <2>2, <2>3, <2>5, <3>1 DEF JInv, Counted, Hand
  <2>8. Filled'
    BY <1>1, <2>1, <2>2, <2>3, <2>4, <2>6 DEF Filled, Resizing, Settled
  <2>9. Distinct'
    BY <2>2, <2>3, <2>4, <2>5, <2>6 DEF JInv, Distinct, Homed
  <2>10. Looking'
    BY <2>2 DEF Looking
  <2>11. Contents' = Contents
    <3>1. Homed' = Homed /\ Carried = {} /\ Carried' = {}
      BY <1>1, <2>2, <2>3, <2>4, <2>5 DEF Homed, Carried
    <3>2. \A b \in Homed : h'.entries[b] = h.entries[b]
      BY <2>5, <2>6
    <3> QED BY <3>1, <3>2 DEF Contents
  <2> QED BY <2>7, <2>8, <2>9, <2>10, <2>11 DEF JInv
<1>3. CASE ~ (h.n_occupied >= h.upper_bound)
  <2>1. pc' = "put_start" /\ UNCHANGED <<h, new>>
    BY <1>3 DEF PutStart, Goto
  <2>2. h.n_occupied < h.upper_bound
    BY <1>1, <1>3, Room DEF JInv, Counted, UpperBound
  <2>3. Looking'
    BY <2>1, <2>2 DEF Looking
  <2>4. Contents' = Contents
    BY <1>1, <2>1 DEF Contents, Homed, Carried
  <2> QED BY <1>1, <2>1, <2>3, <2>4, CountKept DEF JInv, Resizing
<1> QED BY <1>2, <1>3

-----------------------------------------------------------------------------
(* Entries on their way from bucket to bucket.                             *)

\* A bucket of the old table is marked deleted that was live.
LEMMA Unlived ==
    ASSUME IInv, Resizing, NEW b \in Live(h.flags), NEW g, g = [h.flags EXCEPT ![b] = "deleted"]
    PROVE  /\ Live(g) = Live(h.flags) \ {b} /\ Occupied(g) = Occupied(h.flags)
           /\ Cardinality(Live(g)) + 1 = Cardinality(Live(h.flags))
           /\ Cardinality(Live(g)) \in Nat
<1>1. h.n_buckets \in Nat /\ h.flags \in FlagsOf(h.n_buckets) /\ b \in Buckets(h.n_buckets)
  BY InMotion DEF IsTable
<1>2. /\ g \in FlagsOf(h.n_buckets) /\ Live(g) = Live(h.flags) \ {b}
      /\ Occupied(g) = Occupied(h.flags) \cup {b}
      /\ Cardinality(Live(g)) + In(b, Live(h.flags)) = Cardinality(Live(h.flags)) + In(b, Live(g))
  BY <1>1, Marked DEF Marks
<1>3. Occupied(g) = Occupied(h.flags)
  BY <1>1, <1>2 DEF Live, Occupied, FlagsOf
<1>4. In(b, Live(h.flags)) = 1 /\ In(b, Live(g)) = 0
  BY <1>2 DEF In
<1>5. Cardinality(Live(g)) \in Nat /\ Cardinality(Live(h.flags)) \in Nat
  BY <1>1, <1>2, Finite
<1> QED BY <1>2, <1>3, <1>4, <1>5

LEMMA RehashCounts == IInv /\ JInv /\ Rehash => JInv' /\ Contents' = Contents
<1> SUFFICES ASSUME IInv, JInv, Rehash PROVE JInv' /\ Contents' = Contents
  OBVIOUS
<1> DEFINE n == h.n_buckets
<1>1. pc = "rehash" /\ j # n /\ new' = new
  BY DEF Rehash
<1>2. /\ Resizing /\ IsTable /\ Moving /\ IsNew /\ n \in Nat /\ j \in 0 .. n
      /\ \A b \in Live(h.flags) : b \in Buckets(n)
      /\ Cardinality(Live(new.flags)) \in Nat
  BY <1>1, InMotion, Finite DEF Resizing, Moving, IsNew
<1>3. Looking'
  BY <1>1 DEF Rehash, Goto, Looking
<1>4. CASE h.flags[j] = "live"
  <2>1. /\ carry' = h.entries[j] /\ h' = [h EXCEPT !.flags[j] = "deleted"]
        /\ pc' = "kick" /\ j' = j
    BY <1>4 DEF Rehash, Goto
  <2>2. j \in Live(h.flags)
    BY <1>1, <1>2, <1>4 DEF Live, IsTable, FlagsOf, Buckets
  <2>3. /\ h'.n_buckets = n /\ h'.entries = h.entries /\ h'.size = h.size
        /\ h'.n_occupied = h.n_occupied /\ h'.upper_bound = h.upper_bound
        /\ h'.flags = [h.flags EXCEPT ![j] = "deleted"]
    BY <2>1, <1>2 DEF IsTable
  <2>4. /\ Live(h'.flags) = Live(h.flags) \ {j} /\ Occupied(h'.flags) = Occupied(h.flags)
        /\ Cardinality(Live(h'.flags)) + 1 = Cardinality(Live(h.flags))
        /\ Cardinality(Live(h'.flags)) \in Nat
    BY <1>2, <2>2, <2>3, Unlived
  <2>5. Counted'
    <3>1. Hand = 0 /\ Hand' = 1
      BY <1>1, <2>1 DEF Hand
    <3> QED BY <1>1, <1>2, <2>3, <2>4, <3>1 DEF JInv, Counted
  <2>6. h'.flags[j] = "deleted"
    BY <2>2, <2>3, <1>2 DEF IsTable, FlagsOf
  <2>7. Filled'
    BY <1>1, <1>2, <2>1, <2>3, <2>4, <2>6 DEF JInv, Filled, Resizing
  <2>8. Distinct'
    <3>1. j \in Homed /\ j \notin Homed' /\ \A b \in Homed' : b \in Homed
      BY <1>1, <2>2, <2>4 DEF JInv, Distinct, Homed
    <3>2. Live(h'.flags) \cap Live(new'.flags) = {}
      BY <1>1, <2>4 DEF JInv, Distinct
    <3>3. \A b \in Homed' : h'.entries[b].key # carry'.key
      BY <2>1, <2>3, <3>1 DEF JInv, Distinct
    <3> QED BY <2>3, <3>1, <3>2, <3>3 DEF JInv, Distinct
  <2>9. Contents' = Contents
    <3>1. Homed = Homed' \cup {j}
      BY <1>1, <2>2, <2>4 DEF Homed
    <3>2. Carried = {} /\ Carried' = {h.entries[j]}
      BY <1>1, <2>1 DEF Carried
    <3> QED BY <2>3, <3>1, <3>2 DEF Contents
  <2> QED BY <1>3, <2>5, <2>7, <2>8, <2>9 DEF JInv
<1>5. CASE h.flags[j] # "live"
  <2>1. pc' = pc /\ j' = j + 1 /\ UNCHANGED <<carry, h>>
    BY <1>5 DEF Rehash
  <2>2. \A b \in Live(h.flags) : b >= j + 1
    <3>1. \A b \in Live(h.flags) : b >= j /\ b # j /\ b \in Nat
      BY <1>2, <1>5 DEF JInv, Filled, Live, Buckets
    <3> QED BY <3>1, <1>2
  <2>3. Counted' /\ Distinct'
    BY <1>1, <2>1 DEF JInv, Counted, Hand, Distinct, Homed
  <2>4. Filled'
    BY <1>1, <2>1, <2>2 DEF JInv, Filled, Resizing
  <2>5. Contents' = Contents
    BY <1>1, <2>1 DEF Contents, Homed, Carried
  <2> QED BY <1>3, <2>3, <2>4, <2>5 DEF JInv
<1> QED BY <1>4, <1>5

LEMMA KickPastCounts == IInv /\ JInv /\ KickPast => JInv' /\ Contents' = Contents
<1> SUFFICES ASSUME IInv, JInv, KickPast PROVE JInv' /\ Contents' = Contents
  OBVIOUS
<1>1. pc = "kick" /\ pc' = "kick" /\ UNCHANGED <<h, new, carry, j>>
  BY DEF KickPast, table
<1> QED BY <1>1 DEF JInv, Counted, Hand, Filled, Resizing, Distinct, Homed, Looking, Contents, Carried

LEMMA KickIntoCounts == IInv /\ JInv /\ KickInto => JInv' /\ Contents' = Contents
<1> SUFFICES ASSUME IInv, JInv, KickInto PROVE JInv' /\ Contents' = Contents
  OBVIOUS
<1> DEFINE n == h.n_buckets
<1>1. /\ pc = "kick" /\ new.flags[i] = "empty"
      /\ new' = [new EXCEPT !.flags[i] = "live"]
  BY DEF KickInto
<1>2. /\ Resizing /\ IsTable /\ Moving /\ IsNew /\ n \in Nat /\ j \in 0 .. n /\ new.n \in Nat \ {0}
      /\ \A b \in Live(h.flags) : b \in Buckets(n) /\ b \in Buckets(new.n)
      /\ \A b \in Live(new.flags) : b \in Buckets(new.n)
      /\ DOMAIN h.entries = Buckets(new.n)
      /\ i \in Buckets(new.n)
  BY <1>1, InMotion, PathInTable DEF Resizing, Moving, Kicking, IInv
<1>3. Looking'
  BY <1>1 DEF KickInto, Goto, Looking
<1>4. new'.n = new.n /\ new'.flags = [new.flags EXCEPT ![i] = "live"]
  BY <1>1, <1>2 DEF IsNew
<1>5. /\ Live(new'.flags) = Live(new.flags) \cup {i}
      /\ Occupied(new'.flags) = Occupied(new.flags) \cup {i}
      /\ Cardinality(Live(new'.flags)) = Cardinality(Live(new.flags)) + 1
      /\ Cardinality(Live(new.flags)) \in Nat
  <2>1. /\ new'.flags \in FlagsOf(new.n)
        /\ Live(new'.flags) = Live(new.flags) \cup {i}
        /\ Occupied(new'.flags) = Occupied(new.flags) \cup {i}
        /\ Cardinality(Live(new'.flags)) + In(i, Live(new.flags))
              = Cardinality(Live(new.flags)) + In(i, Live(new'.flags))
    BY <1>2, <1>4, Marked DEF Marks, IsNew
  <2>2. In(i, Live(new.flags)) = 0 /\ In(i, Live(new'.flags)) = 1
    BY <1>1, <2>1 DEF In, Live
  <2>3. Cardinality(Live(new'.flags)) \in Nat /\ Cardinality(Live(new.flags)) \in Nat
    BY <1>2, <2>1, Finite DEF IsNew
  <2> QED BY <2>1, <2>2, <2>3
<1>6. /\ Occupied(new'.flags) = Live(new'.flags)
      /\ Hand = 1 /\ Cardinality(Live(h.flags)) \in Nat
  BY <1>1, <1>2, <1>5, Finite DEF JInv, Filled, Hand, IsTable
<1>7. ASSUME h'.entries = [h.entries EXCEPT ![i] = carry]
      PROVE  /\ h'.entries[i] = carry
             /\ \A b \in Homed : b # i => h'.entries[b] = h.entries[b]
  BY <1>2, <1>7 DEF Homed
<1>8. CASE i < n /\ h.flags[i] = "live"
  <2>1. /\ carry' = h.entries[i]
        /\ h' = [h EXCEPT !.entries[i] = carry, !.flags[i] = "deleted"]
        /\ pc' = "kick" /\ j' = j
    BY <1>1, <1>8 DEF KickInto
  <2>2. i \in Live(h.flags)
    BY <1>2, <1>8 DEF Live, IsTable, FlagsOf, Buckets
  <2>3. /\ h'.n_buckets = n /\ h'.size = h.size
        /\ h'.n_occupied = h.n_occupied /\ h'.upper_bound = h.upper_bound
        /\ h'.entries = [h.entries EXCEPT ![i] = carry]
        /\ h'.flags = [h.flags EXCEPT ![i] = "deleted"]
    BY <2>1, <1>2 DEF IsTable
  <2>4. /\ Live(h'.flags) = Live(h.flags) \ {i} /\ Occupied(h'.flags) = Occupied(h.flags)
        /\ Cardinality(Live(h'.flags)) + 1 = Cardinality(Live(h.flags))
        /\ Cardinality(Live(h'.flags)) \in Nat
    BY <1>2, <2>2, <2>3, Unlived
  <2>5. Counted'
    <3>1. Hand' = 1
      BY <2>1 DEF Hand
    <3> QED BY <1>5, <1>6, <2>3, <2>4, <3>1 DEF JInv, Counted
  <2>6. h'.flags[j] # "live"
    BY <1>1, <1>2, <2>3 DEF JInv, Filled, IsTable, FlagsOf
  <2>7. Filled'
    BY <1>2, <1>4, <1>6, <2>1, <2>3, <2>4, <2>6 DEF JInv, Filled, Resizing
  <2>8. Distinct'
    <3>1. Homed' = Homed /\ i \in Homed /\ Live(h'.flags) \cap Live(new'.flags) = {}
      BY <1>5, <2>2, <2>4 DEF JInv, Distinct, Homed
    <3>2. \A b \in Homed : h.entries[b].key # carry.key
      BY <1>1 DEF JInv, Distinct
    <3>3. h'.entries[i] = carry /\ \A b \in Homed : b # i => h'.entries[b] = h.entries[b]
      BY <1>7, <2>3
    <3>4. \A b \in Homed : h'.entries[b].key # carry'.key
      BY <2>1, <3>1, <3>2, <3>3 DEF JInv, Distinct
    <3>5. \A a, b \in Homed : h'.entries[a].key = h'.entries[b].key => a = b
      BY <3>2, <3>3 DEF JInv, Distinct
    <3> QED BY <3>1, <3>4, <3>5 DEF Distinct
  <2>9. Contents' = Contents
    <3>1. Homed' = Homed /\ i \in Homed
      BY <1>5, <2>2, <2>4 DEF Homed
    <3>2. Carried = {carry} /\ Carried' = {h.entries[i]}
      BY <1>1, <2>1 DEF Carried
    <3>3. h'.entries[i] = carry /\ \A b \in Homed : b # i => h'.entries[b] = h.entries[b]
      BY <1>7, <2>3
    <3> QED BY <3>1, <3>2, <3>3 DEF Contents
  <2> QED BY <1>3, <2>5, <2>7, <2>8, <2>9 DEF JInv
<1>9. CASE ~ (i < n /\ h.flags[i] = "live")
  <2>1. h' = [h EXCEPT !.entries[i] = carry] /\ j' = j + 1 /\ pc' = "rehash"
    BY <1>9 DEF KickInto, Goto
  <2>2. /\ h'.n_buckets = n /\ h'.size = h.size
        /\ h'.n_occupied = h.n_occupied /\ h'.upper_bound = h.upper_bound
        /\ h'.entries = [h.entries EXCEPT ![i] = carry] /\ h'.flags = h.flags
    BY <2>1, <1>2 DEF IsTable
  <2>3. Counted'
    <3>1. Hand' = 0
      BY <2>1 DEF Hand
    <3> QED BY <1>5, <1>6, <2>2, <3>1 DEF JInv, Counted
  <2>4. \A b \in Live(h.flags) : b >= j + 1
    <3>1. \A b \in Live(h.flags) : b >= j /\ b # j /\ b \in Nat
      BY <1>1, <1>2 DEF JInv, Filled, Live, Buckets
    <3> QED BY <3>1, <1>2
  <2>5. Filled'
    BY <1>2, <1>4, <1>6, <2>1, <2>2, <2>4 DEF JInv, Filled, Resizing
  <2>6. Distinct'
    <3>1. i \notin Live(h.flags) /\ i \notin Live(new.flags)
      BY <1>1, <1>2, <1>9 DEF Live, Buckets
    <3>2. /\ Homed' = Homed \cup {i} /\ i \notin Homed
          /\ Live(h'.flags) \cap Live(new'.flags) = {}
      BY <1>5, <2>2, <3>1 DEF JInv, Distinct, Homed
    <3>3. \A b \in Homed : h.entries[b].key # carry.key
      BY <1>1 DEF JInv, Distinct
    <3>4. h'.entries[i] = carry /\ \A b \in Homed : h'.entries[b] = h.entries[b]
      BY <1>7, <2>2, <3>2
    <3>5. \A a, b \in Homed' : h'.entries[a].key = h'.entries[b].key => a = b
      BY <3>2, <3>3, <3>4 DEF JInv, Distinct
    <3> QED BY <2>1, <3>2, <3>5 DEF Distinct
  <2>7. Contents' = Contents
    <3>1. Homed' = Homed \cup {i} /\ i \notin Homed
      BY <1>1, <1>2, <1>5, <1>9, <2>2 DEF Homed, Live, Buckets
    <3>2. Carried = {carry} /\ Carried' = {}
      BY <1>1, <2>1 DEF Carried
    <3>3. h'.entries[i] = carry /\ \A b \in Homed : h'.entries[b] = h.entries[b]
      BY <1>7, <2>2, <3>1
    <3> QED BY <3>1, <3>2, <3>3 DEF Contents
  <2> QED BY <1>3, <2>3, <2>5, <2>6, <2>7 DEF JInv
<1> QED BY <1>8, <1>9

LEMMA RehashedCounts == IInv /\ JInv /\ Rehashed => JInv' /\ Contents' = Contents
<1> SUFFICES ASSUME IInv, JInv, Rehashed PROVE JInv' /\ Contents' = Contents
  OBVIOUS
<1>1. /\ pc = "rehash" /\ pc' = "put_start" /\ j = h.n_buckets /\ new' = NoTable
      /\ h' = [h EXCEPT !.flags = new.flags, !.n_buckets = new.n, !.n_occupied = h.size,
                        !.upper_bound = UpperBound(new.n)]
  BY DEF Rehashed, Goto
<1>2. /\ IsTable /\ Moving /\ IsNew /\ h.n_buckets \in Nat /\ new.n \in Nat \ {0}
      /\ \A b \in Live(h.flags) : b \in Buckets(h.n_buckets)
      /\ Cardinality(Live(new.flags)) \in Nat
  BY <1>1, InMotion, Finite DEF Resizing, IsNew
<1>3. /\ h'.n_buckets = new.n /\ h'.flags = new.flags /\ h'.entries = h.entries
      /\ h'.size = h.size /\ h'.n_occupied = h.size /\ h'.upper_bound = UpperBound(new.n)
  BY <1>1, <1>2 DEF IsTable
<1>4. Live(h.flags) = {}
  BY <1>1, <1>2 DEF JInv, Filled, Resizing, Buckets
<1>5. /\ h.size < UpperBound(new.n) /\ IsMask(new.n) /\ UpperBound(new.n) \in Nat
      /\ Occupied(new.flags) = Live(new.flags)
  BY <1>1, <1>2 DEF JInv, Filled, Resizing, UpperBound
<1>6. h.size = Cardinality(Live(new.flags)) /\ h.size \in Nat
  BY <1>1, <1>2, <1>4, FS_EmptySet DEF JInv, Counted, Hand
<1>7. Counted'
  <2>1. Hand' = 0 /\ Cardinality(Live(new'.flags)) = 0
    BY <1>1, NoFlags DEF Hand
  <2> QED BY <1>3, <1>5, <1>6, <2>1 DEF Counted
<1>8. Filled' /\ Looking'
  BY <1>1, <1>3, <1>5 DEF Filled, Looking, Resizing
<1>9. Distinct'
  <2>1. Homed' = Live(new.flags) /\ Homed = Live(new.flags)
    BY <1>1, <1>3, <1>4, NoFlags DEF Homed
  <2> QED BY <1>1, <1>3, <2>1, NoFlags DEF JInv, Distinct
<1>10. Contents' = Contents
  BY <1>1, <1>3, <1>4, NoFlags DEF Contents, Homed, Carried
<1> QED BY <1>7, <1>8, <1>9, <1>10 DEF JInv

LEMMA StutterCounts == JInv /\ UNCHANGED vars => JInv'
<1> SUFFICES ASSUME JInv, UNCHANGED vars PROVE JInv'
  OBVIOUS
<1>1. UNCHANGED <<h, new, carry, i, site, j, pc, call>>
  BY DEF vars, table, probe
<1> QED BY <1>1 DEF JInv, Counted, Hand, Filled, Resizing, Distinct, Homed, Looking, Absent, GoesOn,
                   Holds, Walked

-----------------------------------------------------------------------------
(* The theorems.                                                           *)

LEMMA CountInvariance == Spec => [](IInv /\ JInv)
<1>1. IInv /\ JInv /\ [Next]_vars => JInv'
  <2> SUFFICES ASSUME IInv, JInv, [Next]_vars PROVE JInv'
    OBVIOUS
  <2>1. CASE Ask
    BY <2>1, QuietCounts
  <2>2. CASE Lookup
    BY <2>2, QuietCounts, RemoveCounts DEF Lookup
  <2>3. CASE Resize
    BY <2>3, RehashCounts, KickPastCounts, KickIntoCounts, RehashedCounts DEF Resize
  <2>4. CASE Store
    BY <2>4, PutStartCounts, PutLookCounts, PutLoopCounts, StoreCounts DEF Store
  <2>5. CASE UNCHANGED vars
    BY <2>5, StutterCounts
  <2> QED BY <2>1, <2>2, <2>3, <2>4, <2>5 DEF Next
<1>2. Spec => []IInv
  BY Invariance
<1> QED BY <1>1, <1>2, BeginsCounted, PTL DEF Spec

LEMMA InvariantLeavesRoom == IInv /\ JInv => RoomLeft
<1> SUFFICES ASSUME IInv, JInv PROVE RoomLeft
  OBVIOUS
<1>1. Old.n # 0 => \E b \in Buckets(Old.n) : Old.flags[b] = "empty"
  BY Room DEF Old
<1>2. CASE Resizing
  <2>1. /\ new.n \in Nat \ {0} /\ new.flags \in FlagsOf(new.n) /\ h.flags \in FlagsOf(h.n_buckets)
        /\ h.n_buckets \in Nat
    BY <1>2, InMotion DEF IsNew, IsTable
  <2>2. /\ Cardinality(Live(new.flags)) \in Nat /\ Cardinality(Live(h.flags)) \in Nat
        /\ Hand \in {0, 1}
    BY <2>1, Finite DEF Hand
  <2>3. Cardinality(Occupied(new.flags)) <= h.size
    BY <1>2, <2>2 DEF JInv, Counted, Filled
  <2>4. h.size < new.n /\ Cardinality(Occupied(new.flags)) \in Nat /\ h.size \in Nat
    BY <1>2, <2>1, Room, Finite DEF JInv, Filled, IsMask, UpperBound
  <2>5. \E b \in Buckets(new.n) : new.flags[b] = "empty"
    BY <2>1, <2>3, <2>4, EmptyLeft
  <2>6. Current = new
    BY <1>2 DEF Current
  <2> QED BY <1>1, <1>2, <2>5, <2>6 DEF RoomLeft, Resizing
<1>3. CASE ~ Resizing
  <2>1. Current = Old
    BY <1>3 DEF Current
  <2>2. pc = "put_end" /\ h.flags[i] = "live" => Holds(i, call.key)
    BY DEF JInv, Looking, Holds
  <2>3. pc = "put_start" => h.n_occupied < h.upper_bound
    BY DEF JInv, Looking
  <2> QED BY <1>1, <2>1, <2>2, <2>3 DEF RoomLeft
<1> QED BY <1>2, <1>3

\* As many keys as buckets, when no two hold the same.
LEMMA KeysOf ==
    ASSUME NEW S, IsFiniteSet(S), NEW e, \A a, b \in S : e[a].key = e[b].key => a = b
    PROVE  /\ IsFiniteSet({e[b].key : b \in S})
           /\ Cardinality({e[b].key : b \in S}) = Cardinality(S)
<1> DEFINE T == {e[b].key : b \in S}  f == [b \in S |-> e[b].key]
<1>1. f \in Bijection(S, T)
  BY Fun_IsBij
<1>2. ExistsBijection(S, T)
  BY <1>1, Fun_ExistsBij
<1> QED BY <1>2, FS_Bijection

LEMMA InvariantKeepsKeysOnce == IInv /\ JInv => KeysOnce
<1> SUFFICES ASSUME IInv, JInv PROVE KeysOnce
  OBVIOUS
<1> DEFINE K == {h.entries[b].key : b \in Homed}
<1>1. /\ IsFiniteSet(Live(h.flags)) /\ Cardinality(Live(h.flags)) \in Nat
      /\ h.n_buckets \in Nat /\ h.flags \in FlagsOf(h.n_buckets)
  BY Room, Finite
<1>2. IsFiniteSet(Live(new.flags)) /\ Cardinality(Live(new.flags)) \in Nat
  <2>1. CASE Resizing
    BY <2>1, InMotion, Finite DEF IsNew
  <2>2. CASE ~ Resizing
    BY <2>2, Resting, FS_EmptySet
  <2> QED BY <2>1, <2>2
<1>3. Live(h.flags) \cap Live(new.flags) = {}
  BY DEF JInv, Distinct
<1>4. /\ IsFiniteSet(Homed) /\ Cardinality(Homed) \in Nat
      /\ Cardinality(Homed) = Cardinality(Live(h.flags)) + Cardinality(Live(new.flags))
  BY <1>1, <1>2, <1>3, FS_Union, FS_EmptySet, FS_CardinalityType DEF Homed
<1>5. Cardinality(Carried) = Hand
  BY FS_EmptySet, FS_Singleton DEF Carried, Hand
<1>6. h.size = Cardinality(Homed) + Cardinality(Carried)
  BY <1>4, <1>5 DEF JInv, Counted
<1>7. IsFiniteSet(K) /\ Cardinality(K) = Cardinality(Homed)
  <2>1. \A a, b \in Homed : h.entries[a].key = h.entries[b].key => a = b
    BY DEF JInv, Distinct
  <2> QED BY <1>4, <2>1, KeysOf
<1>8. Cardinality({e.key : e \in Contents}) = Cardinality(Homed) + Cardinality(Carried)
  <2>1. CASE pc = "kick"
    <3>1. {e.key : e \in Contents} = K \cup {carry.key} /\ carry.key \notin K
      BY <2>1 DEF Contents, Carried, JInv, Distinct
    <3> QED BY <2>1, <3>1, <1>5, <1>7, FS_AddElement DEF Hand
  <2>2. CASE pc # "kick"
    <3>1. {e.key : e \in Contents} = K
      BY <2>2 DEF Contents, Carried
    <3> HIDE DEF K
    <3>2. Cardinality(K) = Cardinality(Homed) + Cardinality(Carried)
      BY <2>2, <1>4, <1>5, <1>7 DEF Hand
    <3> QED BY <3>1, <3>2
  <2> QED BY <2>1, <2>2
<1>9. h.n_occupied = Cardinality({b \in Buckets(h.n_buckets) : h.flags[b] # "empty"})
  <2>1. Occupied(h.flags) = {b \in Buckets(h.n_buckets) : h.flags[b] # "empty"}
    BY <1>1 DEF Occupied, FlagsOf
  <2> QED BY <2>1 DEF JInv, Counted
<1> QED BY <1>3, <1>6, <1>8, <1>9 DEF KeysOnce

\* Whatever the keys and their hashes are, a table and the one it is rehashed
\* into have an empty bucket; as an odd stride visits every bucket, each search
\* ends at one, and kh_put overwrites no other key.
THEOREM RoomIsLeft == Spec => []RoomLeft
BY CountInvariance, InvariantLeavesRoom, PTL

\* No key is ever in two buckets, nor in one and on its way to another, and the
\* size of a table is the number of its keys.
THEOREM EachKeyOnce == Spec => []KeysOnce
BY CountInvariance, InvariantKeepsKeysOnce, PTL

-----------------------------------------------------------------------------
(* Entries as a map.                                                       *)

KeysIn(c) == {e.key : e \in c}
OneEach(c) == \A d, e \in c : d.key = e.key => d = e

LEMMA MappedIs ==
    ASSUME NEW c, OneEach(c)
    PROVE  DOMAIN Mapped(c) = KeysIn(c) /\ \A e \in c : Mapped(c)[e.key] = e.val
<1>1. DOMAIN Mapped(c) = KeysIn(c)
  BY DEF Mapped, KeysIn
<1>2. ASSUME NEW e \in c PROVE Mapped(c)[e.key] = e.val
  <2>1. Mapped(c)[e.key] = (CHOOSE d \in c : d.key = e.key).val
    BY DEF Mapped
  <2>2. (CHOOSE d \in c : d.key = e.key) \in c /\ (CHOOSE d \in c : d.key = e.key).key = e.key
    OBVIOUS
  <2>3. (CHOOSE d \in c : d.key = e.key) = e
    BY <2>2 DEF OneEach
  <2> QED BY <2>1, <2>3
<1> QED BY <1>1, <1>2

\* The value of one key is set.
WithEntry(c, k, v) == {f \in c : f.key # k} \cup {[key |-> k, val |-> v]}
WithValue(m, k, v) == [s \in DOMAIN m \cup {k} |-> IF s = k THEN v ELSE m[s]]

LEMMA MappedPut ==
    ASSUME NEW c, OneEach(c), NEW k, NEW v
    PROVE  Mapped(WithEntry(c, k, v)) = WithValue(Mapped(c), k, v)
<1> DEFINE d == WithEntry(c, k, v)  e == [key |-> k, val |-> v]
<1>1. e.key = k /\ e.val = v /\ d = {f \in c : f.key # k} \cup {e}
  BY DEF WithEntry
<1> HIDE DEF d, e
<1>2. OneEach(d)
  BY <1>1 DEF OneEach
<1>3. KeysIn(d) = KeysIn(c) \cup {k}
  BY <1>1 DEF KeysIn
<1>4. ASSUME NEW s \in KeysIn(d)
      PROVE  Mapped(d)[s] = IF s = k THEN v ELSE Mapped(c)[s]
  <2>1. CASE s = k
    BY <2>1, <1>1, <1>2, MappedIs
  <2>2. CASE s # k
    <3>1. PICK f \in c : f.key = s
      BY <2>2, <1>1, <1>3 DEF KeysIn
    <3>2. f \in d
      BY <3>1, <2>2, <1>1
    <3> QED BY <3>1, <3>2, <2>2, <1>2, MappedIs
  <2> QED BY <2>1, <2>2
<1>5. Mapped(d) = [s \in KeysIn(d) |-> Mapped(d)[s]] /\ DOMAIN Mapped(c) = KeysIn(c)
  BY DEF Mapped, KeysIn
<1>6. Mapped(d) = WithValue(Mapped(c), k, v)
  BY <1>3, <1>4, <1>5 DEF WithValue
<1> QED BY <1>6 DEF d

\* A key is forgotten.
LEMMA MappedCut ==
    ASSUME NEW c, OneEach(c), NEW k, NEW d, d = {f \in c : f.key # k}
    PROVE  Mapped(d) = [s \in KeysIn(c) \ {k} |-> Mapped(c)[s]]
<1>1. OneEach(d)
  BY DEF OneEach
<1>2. KeysIn(d) = KeysIn(c) \ {k}
  BY DEF KeysIn
<1>3. ASSUME NEW s \in KeysIn(d) PROVE Mapped(d)[s] = Mapped(c)[s]
  <2>1. PICK f \in d : f.key = s
    BY DEF KeysIn
  <2> QED BY <2>1, <1>1, MappedIs
<1>4. Mapped(d) = [s \in KeysIn(d) |-> Mapped(d)[s]]
  BY DEF Mapped, KeysIn
<1> QED BY <1>2, <1>3, <1>4

-----------------------------------------------------------------------------
(* The n-th bucket there is.                                               *)

LEMMA Ranks ==
    ASSUME NEW S \in SUBSET Int, IsFiniteSet(S)
    PROVE  /\ Cardinality(S) \in Nat
           /\ \A b \in S : Nth(b, S) \in 1 .. Cardinality(S)
           /\ \A a, b \in S : Nth(a, S) = Nth(b, S) => a = b
           /\ \A n \in 1 .. Cardinality(S) : \E b \in S : Nth(b, S) = n
<1> DEFINE Upto(b) == {a \in S : a <= b}
<1>1. Cardinality(S) \in Nat
  BY FS_CardinalityType
<1>2. ASSUME NEW b \in S
      PROVE  /\ IsFiniteSet(Upto(b)) /\ Cardinality(Upto(b)) \in Nat
             /\ Cardinality(Upto(b)) <= Cardinality(S) /\ Cardinality(Upto(b)) # 0
  <2>1. Upto(b) \in SUBSET S /\ b \in Upto(b)
    OBVIOUS
  <2> HIDE DEF Upto
  <2>2. IsFiniteSet(Upto(b)) /\ Cardinality(Upto(b)) <= Cardinality(S)
    BY <2>1, FS_Subset
  <2>3. Cardinality(Upto(b)) \in Nat /\ Cardinality(Upto(b)) # 0
    BY <2>1, <2>2, FS_CardinalityType, FS_EmptySet
  <2> QED BY <2>2, <2>3
<1>3. \A b \in S : Nth(b, S) = Cardinality(Upto(b)) /\ Nth(b, S) \in 1 .. Cardinality(S)
  <2> SUFFICES ASSUME NEW b \in S
               PROVE  Nth(b, S) = Cardinality(Upto(b)) /\ Nth(b, S) \in 1 .. Cardinality(S)
    OBVIOUS
  <2>1. Nth(b, S) = Cardinality(Upto(b))
    BY DEF Nth
  <2> HIDE DEF Upto
  <2> QED BY <1>1, <1>2, <2>1
<1>4. ASSUME NEW a \in S, NEW b \in S, a < b PROVE Nth(a, S) # Nth(b, S)
  <2>0. S \subseteq Int /\ a \in Int /\ b \in Int /\ a < b
    BY <1>4
  <2>1. Upto(a) \in SUBSET Upto(b) /\ b \in Upto(b) /\ b \notin Upto(a)
    <3>1. \A x \in S : x <= a => x <= b
      BY <2>0
    <3>2. b <= b /\ ~ (b <= a)
      BY <2>0
    <3> QED BY <3>1, <3>2, Zenon
  <2>2. Upto(a) # Upto(b)
    BY <2>1
  <2> HIDE DEF Upto
  <2>3. Cardinality(Upto(a)) # Cardinality(Upto(b))
    BY <2>1, <2>2, <1>2, FS_Subset
  <2> QED BY <2>3, <1>3
<1>5. \A a, b \in S : Nth(a, S) = Nth(b, S) => a = b
  <2> SUFFICES ASSUME NEW a \in S, NEW b \in S, Nth(a, S) = Nth(b, S), a # b PROVE FALSE
    OBVIOUS
  <2>1. a < b \/ b < a
    OBVIOUS
  <2> QED BY <2>1, <1>4
<1> DEFINE N == 1 .. Cardinality(S)  f == [b \in S |-> Nth(b, S)]
<1>6. f \in [S -> N]
  BY <1>3
<1>7. f \in Injection(S, N)
  BY <1>5, <1>6, Fun_IsInj
<1>8. IsFiniteSet(N) /\ Cardinality(N) = Cardinality(S)
  BY <1>1, FS_Interval
<1>9. f \in Surjection(S, N)
  BY <1>7, <1>8, FS_Injection
<1>10. \A n \in N : \E b \in S : f[b] = n
  <2> HIDE DEF f, N
  <2> QED BY <1>9, Fun_SurjectionProperties
<1> QED BY <1>1, <1>3, <1>5, <1>10

-----------------------------------------------------------------------------
(* The invariant: what a call knows of its key.                            *)

Puts == {"kh_put", "rehash", "kick", "put_start", "put_loop", "put_end"}

Sought ==
    /\ pc = "get_loop" => /\ last = Home(call.key, h.n_buckets)
                          /\ \E d \in Nat : /\ Walked(call.key, h.n_buckets, d) = i
                                            /\ \A e \in 0 .. d - 1 :
                                                 GoesOn(Walked(call.key, h.n_buckets, e), call.key)
    /\ pc = "found" => IF i = h.n_buckets THEN Absent(call.key) ELSE Holds(i, call.key)
Serving ==
    /\ pc \in Puts => call.op \in {"set", "string"}
    /\ pc \in Puts /\ call.op = "string" => call.key \notin KeysIn(Contents)

KInv == Sought /\ Serving

\* Two entries are never alike.
LEMMA EntriesDiffer == IInv /\ JInv => OneEach(Contents)
BY DEF JInv, Distinct, OneEach, Contents, Carried

\* What a search finds is what the map says.
LEMMA FoundIsMapped ==
    ASSUME IInv, JInv, KInv, pc = "found"
    PROVE  /\ i = h.n_buckets => call.key \notin KeysIn(Contents)
           /\ i # h.n_buckets => /\ call.key \in KeysIn(Contents)
                                 /\ h.entries[i] \in Contents
                                 /\ h.entries[i].key = call.key
                                 /\ h.entries[i].val = AsMap[call.key]
           /\ DOMAIN AsMap = KeysIn(Contents)
           /\ h.size = 0 \/ h.n_buckets = 0 => i = h.n_buckets
<1>1. /\ Contents = {h.entries[b] : b \in Live(h.flags)}
      /\ h.size = Cardinality(Live(h.flags))
  BY Resting DEF Resizing
<1>2. /\ IF i = h.n_buckets THEN Absent(call.key) ELSE Holds(i, call.key)
      /\ h.n_buckets \in Nat /\ h.flags \in FlagsOf(h.n_buckets) /\ i \in 0 .. h.n_buckets
  BY DEF KInv, Sought, IInv, Getting, IsTable
<1>3. i = h.n_buckets => call.key \notin KeysIn(Contents)
  BY <1>1, <1>2 DEF Absent, KeysIn
<1>4. i # h.n_buckets => i \in Live(h.flags) /\ h.entries[i].key = call.key
  BY <1>2 DEF Holds, Live, FlagsOf, Buckets
<1>5. i # h.n_buckets => h.entries[i] \in Contents /\ call.key \in KeysIn(Contents)
  BY <1>1, <1>4 DEF KeysIn
<1>6. OneEach(Contents)
  BY EntriesDiffer
<1>7. i # h.n_buckets => h.entries[i].val = AsMap[call.key]
  BY <1>4, <1>5, <1>6, MappedIs DEF AsMap
<1>8. DOMAIN AsMap = KeysIn(Contents)
  BY <1>6, MappedIs DEF AsMap
<1>9. h.size = 0 => i = h.n_buckets
  <2>1. IsFiniteSet(Live(h.flags))
    BY <1>2, Finite
  <2> QED BY <2>1, <1>1, <1>4, FS_EmptySet
<1>10. h.n_buckets = 0 => i = h.n_buckets
  BY <1>2
<1> QED BY <1>3, <1>4, <1>5, <1>7, <1>8, <1>9, <1>10

LEMMA BeginsServing == Init => KInv
BY DEF Init, KInv, Sought, Serving, Puts

LEMMA AskServes == IInv /\ JInv /\ KInv /\ Ask => KInv'
<1> SUFFICES ASSUME IInv, JInv, KInv, Ask PROVE KInv'
  OBVIOUS
<1>1. /\ pc' \in {"kh_put", "walk", "kh_get"}
      /\ pc' = "kh_put" => call'.op = "set"
  BY DEF Ask, Goto
<1> QED BY <1>1 DEF KInv, Sought, Serving, Puts

LEMMA GetServes == IInv /\ JInv /\ KInv /\ (GetStart \/ GetLoop \/ GetEnd) => KInv'
<1> SUFFICES ASSUME IInv, JInv, KInv, GetStart \/ GetLoop \/ GetEnd PROVE KInv'
  OBVIOUS
<1> DEFINE n == h.n_buckets  k == call.key
<1>1. /\ pc \in {"kh_get", "get_loop"} /\ pc' \in {"get_loop", "found"}
      /\ UNCHANGED <<h, new, call>>
  BY DEF GetStart, GetLoop, GetEnd, Goto, table
<1>2. /\ n \in Nat /\ k \in Strings /\ h.flags \in FlagsOf(n) /\ Reached(n, h.flags)
      /\ pc = "get_loop" => n # 0
  BY <1>1 DEF IInv, IsTable, Getting, Settled, Resizing
<1>3. Sought'
  <2>1. CASE GetStart /\ n = 0
    <3>1. i' = n /\ pc' = "found"
      BY <2>1 DEF GetStart, Goto
    <3>2. Absent(k)
      BY <2>1, <1>2 DEF Absent, Live, FlagsOf, Buckets
    <3> QED BY <1>1, <3>1, <3>2 DEF Sought, Absent
  <2>2. CASE GetStart /\ n # 0
    <3>1. i' = Home(k, n) /\ last' = Home(k, n) /\ pc' = "get_loop"
      BY <2>2 DEF GetStart, Goto
    <3>2. i' = Walked(k, n, 0)
      BY <3>1, <2>2, <1>2, WalkedTo
    <3>3. \E d \in Nat : Walked(k, n, d) = i' /\ \A e \in 0 .. d - 1 : GoesOn(Walked(k, n, e), k)
      BY <3>2
    <3> QED BY <1>1, <3>1, <3>3 DEF Sought, GoesOn, Holds, Walked
  <2>3. CASE GetLoop \/ GetEnd
    <3>1. pc = "get_loop"
      BY <2>3 DEF GetLoop, GetEnd
    <3>2. last = Home(k, n)
      BY <3>1 DEF KInv, Sought
    <3>3. PICK d \in Nat : Walked(k, n, d) = i /\ \A e \in 0 .. d - 1 : GoesOn(Walked(k, n, e), k)
      BY <3>1 DEF KInv, Sought
    <3>4. n \in Nat \ {0}
      BY <1>2, <3>1
    <3>5. CASE GetLoop
      <4> DEFINE next == After(k, i, n)
      <4>1. GoesOn(i, k)
        BY <3>5 DEF GetLoop
      <4>2. Walked(k, n, d + 1) = next /\ \A e \in 0 .. (d + 1) - 1 : GoesOn(Walked(k, n, e), k)
        BY <1>2, <3>3, <3>4, <4>1, WalkedTo
      <4>3. \A e \in 0 .. d : h.flags[Walked(k, n, e)] # "empty"
        BY <4>2 DEF GoesOn
      <4>4. next # last
        <5> SUFFICES ASSUME next = last PROVE FALSE
          OBVIOUS
        <5>1. Passes(n) /\ \E b \in Buckets(n) : h.flags[b] = "empty"
          BY <3>4, Room
        <5> QED BY <5>1, <1>2, <3>2, <3>4, <4>2, <4>3, ComesRound
      <4>5. pc' = "get_loop" /\ i' = next /\ last' = last
        BY <3>5, <4>4 DEF GetLoop, Goto
      <4>6. \E c \in Nat : Walked(k, n, c) = i' /\ \A e \in 0 .. c - 1 : GoesOn(Walked(k, n, e), k)
        BY <4>2, <4>5
      <4> QED BY <1>1, <3>2, <4>5, <4>6 DEF Sought, GoesOn, Holds, Walked
    <3>6. CASE GetEnd
      <4>1. /\ h.flags[i] = "empty" \/ Holds(i, k)
            /\ i' = IF h.flags[i] = "live" THEN i ELSE n
        BY <3>6 DEF GetEnd, GoesOn, Goto
      <4>2. pc' = "found"
        BY <3>6 DEF GetEnd, Goto
      <4>3. h.flags[i] = "empty" => Absent(k)
        <5> SUFFICES ASSUME h.flags[i] = "empty", NEW b \in Live(h.flags), h.entries[b].key = k
                     PROVE  FALSE
          BY DEF Absent
        <5>1. OnPath(k, n, h.flags, b) /\ h.flags[b] # "empty"
          BY <1>2 DEF Reached, Live
        <5>2. \A e \in 0 .. d - 1 : Walked(k, n, e) # b
          BY <3>3 DEF GoesOn, Holds, Live
        <5> QED BY <5>1, <5>2, <1>2, <3>3, <3>4, NotBehind
      <4>4. i \in Buckets(n)
        BY <3>1 DEF IInv, Getting
      <4>5. IF i' = n THEN Absent(k) ELSE Holds(i', k)
        <5>1. CASE h.flags[i] = "live"
          BY <5>1, <4>1, <4>4, <1>2 DEF Buckets, Holds
        <5>2. CASE h.flags[i] # "live"
          BY <5>2, <4>1, <4>3 DEF Holds
        <5> QED BY <5>1, <5>2
      <4> QED BY <1>1, <4>2, <4>5 DEF Sought, Absent, Holds
    <3> QED BY <2>3, <3>5, <3>6
  <2> QED BY <2>1, <2>2, <2>3
<1> QED BY <1>1, <1>3 DEF KInv, Serving, Puts

LEMMA AnswerServes ==
    IInv /\ JInv /\ KInv /\ (hash_get \/ hash_has \/ hash_remove \/ hash_each \/ hash_size
                             \/ string_exists \/ string_new \/ hash_set \/ string_put) => KInv'
<1> SUFFICES ASSUME IInv, JInv, KInv, hash_get \/ hash_has \/ hash_remove \/ hash_each \/ hash_size
                                      \/ string_exists \/ string_new \/ hash_set \/ string_put
             PROVE  KInv'
  OBVIOUS
<1>1. pc' \in {"idle", "dead"} \/ (string_new /\ pc' = "kh_put")
  BY DEF hash_get, hash_has, hash_remove, hash_each, hash_size, string_exists, string_new, hash_set,
         string_put, Return, Goto
<1>2. CASE pc' \in {"idle", "dead"}
  BY <1>2 DEF KInv, Sought, Serving, Puts
<1>3. CASE string_new /\ pc' = "kh_put"
  <2>1. /\ pc = "found" /\ call.op = "string" /\ (h.size # 0 => MayExist(FALSE))
        /\ call' = call /\ UNCHANGED <<h, new>>
    BY <1>3 DEF string_new, table, Return, Goto
  <2>2. ~ Found
    BY <2>1, FoundIsMapped DEF MayExist, Found
  <2>3. call.key \notin KeysIn(Contents)
    BY <2>1, <2>2, FoundIsMapped DEF Found
  <2>4. Contents' = Contents
    BY <1>3, <2>1 DEF Contents, Homed, Carried
  <2> QED BY <1>3, <2>1, <2>3, <2>4 DEF KInv, Sought, Serving, Puts
<1> QED BY <1>1, <1>2, <1>3

\* No step between the question and the answer shows.
LEMMA PutHides ==
    ASSUME IInv, JInv, KInv, PutStart \/ PutLook \/ PutLoop \/ PutFound \/ Resize
    PROVE  /\ KInv' /\ Contents' = Contents
           /\ pc \in Puts /\ UNCHANGED <<api, call, answer, made>>
           /\ ~ Rehashed => h'.n_buckets = h.n_buckets
<1>1. pc \in Puts /\ pc' \in Puts /\ UNCHANGED <<api, call, answer, made>>
  BY DEF PutStart, PutLook, PutLoop, PutFound, Resize, Rehash, KickPast, KickInto, Rehashed, Goto,
         Puts, probe
<1>2. Contents' = Contents
  <2>1. CASE PutLook \/ PutLoop \/ PutFound
    <3>1. pc # "kick" /\ pc' # "kick" /\ UNCHANGED <<h, new>>
      BY <2>1 DEF PutLook, PutLoop, PutFound, Goto, table
    <3> QED BY <3>1 DEF Contents, Homed, Carried
  <2>2. CASE PutStart
    BY <2>2, PutStartCounts
  <2>3. CASE Resize
    BY <2>3, RehashCounts, KickPastCounts, KickIntoCounts, RehashedCounts DEF Resize
  <2> QED BY <2>1, <2>2, <2>3
<1>3. KInv'
  BY <1>1, <1>2 DEF KInv, Sought, Serving, Puts
<1>4. ~ Rehashed => h'.n_buckets = h.n_buckets
  BY DEF IInv, IsTable, PutStart, PutLook, PutLoop, PutFound, Resize, Rehash, KickPast, KickInto, table
<1> QED BY <1>1, <1>2, <1>3, <1>4

LEMMA StutterServes == KInv /\ UNCHANGED vars => KInv'
<1> SUFFICES ASSUME KInv, UNCHANGED vars PROVE KInv'
  OBVIOUS
<1>1. UNCHANGED <<h, new, carry, i, last, pc, call>>
  BY DEF vars, table, probe
<1> QED BY <1>1 DEF KInv, Sought, Serving, Contents, Homed, Carried, Absent, GoesOn, Holds, Walked, Home

LEMMA ServeInvariance == Spec => [](IInv /\ JInv /\ KInv)
<1>1. IInv /\ JInv /\ KInv /\ [Next]_vars => KInv'
  <2> SUFFICES ASSUME IInv, JInv, KInv, [Next]_vars PROVE KInv'
    OBVIOUS
  <2>1. CASE Ask
    BY <2>1, AskServes
  <2>2. CASE Lookup
    BY <2>2, GetServes, AnswerServes DEF Lookup
  <2>3. CASE Resize
    BY <2>3, PutHides
  <2>4. CASE Store
    BY <2>4, PutHides, AnswerServes DEF Store
  <2>5. CASE UNCHANGED vars
    BY <2>5, StutterServes
  <2> QED BY <2>1, <2>2, <2>3, <2>4, <2>5 DEF Next
<1>2. Spec => [](IInv /\ JInv)
  BY CountInvariance
<1> QED BY <1>1, <1>2, BeginsServing, PTL DEF Spec

-----------------------------------------------------------------------------
(* Each step is a step of Dictionary, or none.                             *)

LEMMA BeginsAsPromised == Init => Promise!Init
<1> SUFFICES ASSUME Init PROVE Promise!Init
  OBVIOUS
<1>1. Contents = {}
  BY NoFlags DEF Init, kh_init, Contents, Homed, Carried
<1>2. AsMap = <<>>
  BY <1>1 DEF AsMap, Mapped
<1>3. Edge = "unmapped"
  BY DEF Init, kh_init, Edge
<1> QED BY <1>2, <1>3 DEF Init, Promise!Init, Idle, Promise!Idle, NULL, Promise!NULL

LEMMA Hidden ==
    ASSUME Contents' = Contents, h'.n_buckets = h.n_buckets
    PROVE  AsMap' = AsMap /\ Edge' = Edge
BY DEF AsMap, Edge

LEMMA AskPromised == IInv /\ JInv /\ KInv /\ Ask => Promise!Next
<1> SUFFICES ASSUME IInv, JInv, KInv, Ask PROVE Promise!Next
  OBVIOUS
<1>1. /\ call = Idle /\ call' \in Calls(api) /\ answer' = NULL /\ made' = made /\ api' = api
      /\ h' = h /\ new' = new /\ pc # "kick" /\ pc' # "kick"
  BY DEF Ask, Goto, table
<1>2. Contents' = Contents
  BY <1>1 DEF Contents, Homed, Carried
<1>3. AsMap' = AsMap /\ Edge' = Edge
  BY <1>1, <1>2, Hidden
<1> QED BY <1>1, <1>3 DEF Promise!Next, Promise!Ask, Idle, Promise!Idle, NULL, Promise!NULL

LEMMA QuietPromised ==
    IInv /\ JInv /\ KInv /\ (GetStart \/ GetLoop \/ GetEnd \/ PutStart \/ PutLook \/ PutLoop
                             \/ PutFound \/ Resize)
        => [Promise!Next]_(Promise!vars)
<1> SUFFICES ASSUME IInv, JInv, KInv, GetStart \/ GetLoop \/ GetEnd \/ PutStart \/ PutLook \/ PutLoop
                                      \/ PutFound \/ Resize
             PROVE  [Promise!Next]_(Promise!vars)
  OBVIOUS
<1>1. CASE GetStart \/ GetLoop \/ GetEnd
  <2>1. /\ UNCHANGED <<api, h, new, call, answer, made>> /\ pc # "kick" /\ pc' # "kick"
    BY <1>1 DEF GetStart, GetLoop, GetEnd, Goto, table
  <2>2. Contents' = Contents
    BY <2>1 DEF Contents, Homed, Carried
  <2> QED BY <2>1, <2>2, Hidden DEF Promise!vars
<1>2. CASE PutStart \/ PutLook \/ PutLoop \/ PutFound \/ Resize
  <2>1. /\ Contents' = Contents /\ UNCHANGED <<api, call, answer, made>> /\ pc \in Puts
        /\ ~ Rehashed => h'.n_buckets = h.n_buckets
    BY <1>2, PutHides
  <2>2. CASE ~ Rehashed
    BY <2>1, <2>2, Hidden DEF Promise!vars
  <2>3. CASE Rehashed
    <3>1. AsMap' = AsMap
      BY <2>1 DEF AsMap
    <3>2. call.op \in {"set", "string"}
      BY <2>1 DEF KInv, Serving
    <3>3. CASE Edge' = Edge
      BY <2>1, <3>1, <3>3 DEF Promise!vars
    <3>4. CASE Edge' # Edge
      BY <2>1, <3>1, <3>2, <3>4 DEF Promise!Next, Promise!Grow
    <3> QED BY <3>3, <3>4
  <2> QED BY <2>2, <2>3
<1> QED BY <1>1, <1>2

LEMMA TableStays ==
    ASSUME UNCHANGED <<h, new>>, pc # "kick", pc' # "kick"
    PROVE  AsMap' = AsMap /\ Edge' = Edge
<1>1. Contents' = Contents
  BY DEF Contents, Homed, Carried
<1> QED BY <1>1, Hidden

LEMMA GetPromised == IInv /\ JInv /\ KInv /\ hash_get => Promise!Next
<1> SUFFICES ASSUME IInv, JInv, KInv, hash_get PROVE Promise!Next
  OBVIOUS
<1>1. /\ pc = "found" /\ call.op = "get" /\ call' = Idle /\ UNCHANGED <<api, made, h, new>>
      /\ pc' = "idle"
      /\ answer' = IF Found THEN Ptr(h.entries[i].val) ELSE NULL
  BY DEF hash_get, Return, Goto, table
<1>2. AsMap' = AsMap /\ Edge' = Edge
  BY <1>1, TableStays
<1>3. answer' = IF call.key \notin DOMAIN AsMap THEN NULL ELSE Ptr(AsMap[call.key])
  BY <1>1, FoundIsMapped DEF Found
<1>4. Promise!Get
  BY <1>1, <1>2, <1>3 DEF Promise!Get, Promise!Absent, Promise!Known, NULL, Promise!NULL, Ptr, Promise!Ptr
<1> QED BY <1>1, <1>2, <1>4 DEF Promise!Next, Promise!Reply, Idle, Promise!Idle

LEMMA HasPromised == IInv /\ JInv /\ KInv /\ hash_has => Promise!Next
<1> SUFFICES ASSUME IInv, JInv, KInv, hash_has PROVE Promise!Next
  OBVIOUS
<1>1. /\ pc = "found" /\ call.op = "has" /\ UNCHANGED <<api, made, h, new>>
      /\ pc' \in {"idle", "dead"}
  BY DEF hash_has, Return, Goto, table
<1>2. AsMap' = AsMap /\ Edge' = Edge
  BY <1>1, TableStays
<1>3. h.n_buckets \in Nat /\ (call.key \notin DOMAIN AsMap <=> ~ Found)
      /\ (h.n_buckets = 0 => ~ Found)
  BY <1>1, FoundIsMapped, Room DEF Found
<1>4. CASE h.n_buckets = 0
  <2>1. call' = Dead /\ UNCHANGED answer
    BY <1>4 DEF hash_has
  <2>2. Promise!Die
    BY <1>1, <1>2, <1>3, <1>4, <2>1 DEF Promise!Die, Promise!Absent, Promise!Known, Edge, Dead, Promise!Dead
  <2> QED BY <1>1, <1>2, <2>2 DEF Promise!Next
<1>5. CASE h.n_buckets # 0
  <2>1. PICK b \in BOOLEAN : MayExist(b) /\ call' = Idle /\ answer' = Bit(b)
    BY <1>5 DEF hash_has, Return
  <2>2. \/ call.key \notin DOMAIN AsMap /\ Edge = "unknown"
        \/ b = (call.key \in DOMAIN AsMap)
    <3>1. CASE Found \/ h.n_buckets < 16
      BY <3>1, <2>1, <1>3 DEF MayExist
    <3>2. CASE ~ (Found \/ h.n_buckets < 16)
      BY <3>2, <1>3, <1>5 DEF Edge
    <3> QED BY <3>1, <3>2
  <2>3. Edge # "unmapped"
    BY <1>5 DEF Edge
  <2>4. \/ b # Promise!Absent
        \/ Promise!Absent /\ Edge = "unknown"
    BY <2>2 DEF Promise!Absent, Promise!Known
  <2>5. Promise!Has
    BY <1>1, <1>2, <2>1, <2>3, <2>4 DEF Promise!Has, Bit, Promise!Bit
  <2> QED BY <1>1, <1>2, <2>1, <2>5 DEF Promise!Next, Promise!Reply, Idle, Promise!Idle
<1> QED BY <1>4, <1>5

LEMMA RemovePromised == IInv /\ JInv /\ KInv /\ hash_remove => Promise!Next
<1> SUFFICES ASSUME IInv, JInv, KInv, hash_remove PROVE Promise!Next
  OBVIOUS
<1> DEFINE k == call.key
<1>1. /\ pc = "found" /\ call.op = "remove" /\ call' = Idle /\ UNCHANGED <<api, made>>
      /\ answer' = Done /\ h'.n_buckets = h.n_buckets
  BY DEF hash_remove, Return, IInv, IsTable, kh_del
<1>2. Edge' = Edge
  BY <1>1 DEF Edge
<1>3. Contents' = {e \in Contents : e.key # k}
  <2>1. Contents' = IF i = h.n_buckets THEN Contents ELSE Contents \ {h.entries[i]}
    BY RemoveCounts
  <2>2. CASE i = h.n_buckets
    BY <2>1, <2>2, <1>1, FoundIsMapped DEF KeysIn
  <2>3. CASE i # h.n_buckets
    <3>1. h.entries[i] \in Contents /\ h.entries[i].key = k
      BY <2>3, <1>1, FoundIsMapped
    <3>2. \A e \in Contents : e.key = k <=> e = h.entries[i]
      BY <3>1, EntriesDiffer DEF OneEach
    <3> QED BY <2>1, <2>3, <3>2
  <2> QED BY <2>2, <2>3
<1>4. AsMap' = [s \in DOMAIN AsMap \ {k} |-> AsMap[s]]
  <2>1. OneEach(Contents) /\ DOMAIN AsMap = KeysIn(Contents)
    BY <1>1, EntriesDiffer, FoundIsMapped
  <2>2. Mapped(Contents') = [s \in KeysIn(Contents) \ {k} |-> Mapped(Contents)[s]]
    BY <1>3, <2>1, MappedCut, ZenonT(30)
  <2> QED BY <2>1, <2>2 DEF AsMap
<1>5. Promise!Forget
  BY <1>1, <1>4 DEF Promise!Forget, Promise!Known, Done, Promise!Done
<1> QED BY <1>1, <1>2, <1>5 DEF Promise!Next, Promise!Reply, Idle, Promise!Idle

\* FiniteSets counts as it does in Dictionary.
LEMMA CountsAlike == \A S : Promise!Cardinality(S) = Cardinality(S)
BY Zenon DEF Cardinality, Promise!Cardinality

LEMMA SizePromised == IInv /\ JInv /\ KInv /\ hash_size => Promise!Next
<1> SUFFICES ASSUME IInv, JInv, KInv, hash_size PROVE Promise!Next
  OBVIOUS
<1>1. /\ pc = "walk" /\ pc' = "idle" /\ call.op = "size" /\ call' = Idle
      /\ UNCHANGED <<api, made, h, new>> /\ answer' = [is |-> "count", n |-> h.size]
  BY DEF hash_size, Return, Goto, table
<1>2. AsMap' = AsMap /\ Edge' = Edge
  BY <1>1, TableStays
<1>3. h.size = Cardinality(DOMAIN AsMap)
  <2>1. Cardinality({e.key : e \in Contents}) = h.size
    BY InvariantKeepsKeysOnce DEF KeysOnce
  <2> QED BY <2>1, EntriesDiffer, MappedIs DEF AsMap, KeysIn
<1>4. Promise!Size
  BY <1>1, <1>2, <1>3, CountsAlike DEF Promise!Size, Promise!Known, Promise!Count
<1> QED BY <1>1, <1>2, <1>4 DEF Promise!Next, Promise!Reply, Idle, Promise!Idle

LEMMA StringPromised ==
    IInv /\ JInv /\ KInv /\ (string_exists \/ string_new) => [Promise!Next]_(Promise!vars)
<1> SUFFICES ASSUME IInv, JInv, KInv, string_exists \/ string_new
             PROVE  [Promise!Next]_(Promise!vars)
  OBVIOUS
<1>1. /\ pc = "found" /\ call.op = "string" /\ UNCHANGED <<api, made, h, new>> /\ pc' # "kick"
  BY DEF string_exists, string_new, Return, Goto, table
<1>2. AsMap' = AsMap /\ Edge' = Edge
  BY <1>1, TableStays
<1>3. h.n_buckets \in Nat /\ (call.key \notin DOMAIN AsMap <=> ~ Found)
      /\ (Found => AsMap[call.key] = h.entries[i].val)
      /\ (h.n_buckets = 0 \/ h.size = 0 => ~ Found)
  BY <1>1, FoundIsMapped, Room DEF Found
<1>4. CASE string_exists
  <2>1. /\ h.size # 0 /\ MayExist(TRUE) /\ call' = Idle
        /\ answer' = IF Found THEN Ptr(h.entries[i].val) ELSE Garbage
    BY <1>4 DEF string_exists, Return
  <2>2. CASE Found
    <3>1. Promise!String
      BY <1>1, <1>2, <1>3, <2>1, <2>2 DEF Promise!String, Promise!Absent, Promise!Known, Ptr, Promise!Ptr
    <3> QED BY <1>1, <1>2, <2>1, <3>1 DEF Promise!Next, Promise!Reply, Idle, Promise!Idle
  <2>3. CASE ~ Found
    <3>1. ~ (h.n_buckets < 16)
      BY <2>1, <2>3 DEF MayExist
    <3>2. Edge = "unknown"
      BY <3>1, <1>3 DEF Edge
    <3>3. Promise!String
      BY <1>1, <1>2, <1>3, <2>1, <2>3, <3>2
         DEF Promise!String, Promise!Absent, Promise!Known, Garbage, Promise!Garbage
    <3> QED BY <1>1, <1>2, <2>1, <3>3 DEF Promise!Next, Promise!Reply, Idle, Promise!Idle
  <2> QED BY <2>2, <2>3
<1>5. CASE string_new
  <2>1. ~ Found
    BY <1>3, <1>5 DEF string_new, MayExist
  <2>2. CASE UNCHANGED <<call, answer>>
    BY <1>1, <1>2, <2>2 DEF Promise!vars
  <2>3. CASE call' = Idle /\ answer' = NULL
    <3>1. Promise!String
      BY <1>1, <1>2, <1>3, <2>1, <2>3
         DEF Promise!String, Promise!Absent, Promise!Known, NULL, Promise!NULL
    <3> QED BY <1>1, <1>2, <2>3, <3>1 DEF Promise!Next, Promise!Reply, Idle, Promise!Idle
  <2> QED BY <1>5, <2>2, <2>3 DEF string_new, Return
<1> QED BY <1>4, <1>5

\* kh_put changes the value of one key.
LEMMA PutMapped ==
    ASSUME IInv, JInv, NEW v, pc = "put_end", h' = Occupy(i, v), pc' = "idle", new' = new
    PROVE  /\ AsMap' = Promise!Put(call.key, v)
           /\ DOMAIN AsMap = KeysIn(Contents)
           /\ Edge' = Edge
<1>1. Contents' = WithEntry(Contents, call.key, v)
  BY OccupyCounts DEF WithEntry
<1>2. OneEach(Contents) /\ DOMAIN AsMap = KeysIn(Contents)
  BY EntriesDiffer, MappedIs DEF AsMap
<1>3. Mapped(Contents') = WithValue(Mapped(Contents), call.key, v)
  BY <1>1, <1>2, MappedPut, Zenon
<1>4. WithValue(AsMap, call.key, v) = Promise!Put(call.key, v)
  BY DEF WithValue, Promise!Put, Promise!Known
<1>5. AsMap' = Promise!Put(call.key, v)
  BY <1>3, <1>4 DEF AsMap
<1>6. h'.n_buckets = h.n_buckets
  BY DEF IInv, IsTable, Occupy
<1> QED BY <1>2, <1>5, <1>6 DEF Edge

LEMMA StorePromised == IInv /\ JInv /\ KInv /\ (hash_set \/ string_put) => Promise!Next
<1> SUFFICES ASSUME IInv, JInv, KInv, hash_set \/ string_put PROVE Promise!Next
  OBVIOUS
<1>1. pc = "put_end" /\ pc' = "idle" /\ new' = new /\ call' = Idle /\ api' = api
  BY DEF hash_set, string_put, Return, Goto
<1>2. CASE hash_set
  <2>1. call.op = "set" /\ h' = Occupy(i, call.val) /\ answer' = Done /\ made' = made
    BY <1>2 DEF hash_set, Return
  <2>2. AsMap' = Promise!Put(call.key, call.val) /\ Edge' = Edge
    BY <1>1, <2>1, PutMapped
  <2>3. Promise!Set
    BY <2>1, <2>2 DEF Promise!Set, Done, Promise!Done
  <2> QED BY <1>1, <2>2, <2>3 DEF Promise!Next, Promise!Reply, Idle, Promise!Idle
<1>3. CASE string_put
  <2> DEFINE self == [of |-> call.key, no |-> made[call.key] + 1]
  <2>1. /\ call.op = "string" /\ h' = Occupy(i, self) /\ answer' = Ptr(self)
        /\ made' = [made EXCEPT ![call.key] = @ + 1]
    BY <1>3 DEF string_put, Return
  <2>2. AsMap' = Promise!Put(call.key, self) /\ Edge' = Edge /\ DOMAIN AsMap = KeysIn(Contents)
    BY <1>1, <2>1, PutMapped
  <2>3. call.key \notin DOMAIN AsMap
    BY <1>1, <2>1, <2>2 DEF KInv, Serving, Puts
  <2>4. Promise!String
    BY <2>1, <2>2, <2>3 DEF Promise!String, Promise!Absent, Promise!Known, Ptr, Promise!Ptr
  <2> QED BY <1>1, <2>2, <2>4 DEF Promise!Next, Promise!Reply, Idle, Promise!Idle
<1> QED BY <1>2, <1>3

\* hash.c walks over all pairs, each once.
LEMMA EachPromised == IInv /\ JInv /\ KInv /\ hash_each => Promise!Next
<1> SUFFICES ASSUME IInv, JInv, KInv, hash_each PROVE Promise!Next
  OBVIOUS
<1> DEFINE L == Live(h.flags)
           at(n) == CHOOSE b \in L : Nth(b, L) = n
           pairs == [n \in 1 .. Cardinality(L) |->
                        [slot |-> h.entries[at(n)].key, val |-> h.entries[at(n)].val]]
<1>1. /\ pc = "walk" /\ pc' = "idle" /\ call.op = "each" /\ call' = Idle
      /\ UNCHANGED <<api, made, h, new>> /\ answer' = [is |-> "walk", pairs |-> pairs]
  BY DEF hash_each, Return, Goto, table
<1>2. AsMap' = AsMap /\ Edge' = Edge
  BY <1>1, TableStays
<1>3. /\ IsFiniteSet(L) /\ L \in SUBSET Int
      /\ Contents = {h.entries[b] : b \in L}
      /\ \A a, b \in L : h.entries[a].key = h.entries[b].key => a = b
  <2>1. IsFiniteSet(L) /\ L \in SUBSET Int
    BY Room, Finite DEF Buckets
  <2> QED BY <1>1, <2>1, Resting DEF Resizing, JInv, Distinct
<1>4. /\ DOMAIN AsMap = KeysIn(Contents)
      /\ \A b \in L : AsMap[h.entries[b].key] = h.entries[b].val
  BY <1>3, EntriesDiffer, MappedIs DEF AsMap
<1>5. /\ Cardinality(L) \in Nat
      /\ \A n \in 1 .. Cardinality(L) : at(n) \in L /\ Nth(at(n), L) = n
  BY <1>3, Ranks
<1> HIDE DEF L, at
<1>6. Promise!Pairs = {[slot |-> h.entries[b].key, val |-> h.entries[b].val] : b \in L}
  BY <1>3, <1>4 DEF Promise!Pairs, Promise!Known, KeysIn
<1>7. Cardinality(Promise!Pairs) = Cardinality(L)
  <2> DEFINE f == [b \in L |-> [slot |-> h.entries[b].key, val |-> h.entries[b].val]]
  <2>1. f \in [L -> Promise!Pairs] /\ \A p \in Promise!Pairs : \E b \in L : f[b] = p
    BY <1>6
  <2>2. \A a, b \in L : f[a] = f[b] => a = b
    <3> SUFFICES ASSUME NEW a \in L, NEW b \in L, f[a] = f[b] PROVE a = b
      OBVIOUS
    <3>1. f[a].slot = f[b].slot
      OBVIOUS
    <3> QED BY <3>1, <1>3
  <2> HIDE DEF f
  <2>3. f \in Bijection(L, Promise!Pairs)
    BY <2>1, <2>2, Fun_IsBij
  <2> QED BY <2>3, <1>3, Fun_ExistsBij, FS_Bijection
<1>8. pairs \in Promise!SetToSeqs(Promise!Pairs)
  <2>1. pairs \in [1 .. Cardinality(L) -> Promise!Pairs]
    BY <1>5, <1>6
  <2>2. ASSUME NEW m \in 1 .. Cardinality(L), NEW n \in 1 .. Cardinality(L), pairs[m] = pairs[n]
        PROVE  m = n
    <3>1. pairs[m].slot = h.entries[at(m)].key /\ pairs[n].slot = h.entries[at(n)].key
      OBVIOUS
    <3>2. at(m) = at(n)
      BY <3>1, <2>2, <1>3, <1>5
    <3> QED BY <3>2, <1>5
  <2> HIDE DEF pairs
  <2>3. pairs \in {f \in [1 .. Cardinality(L) -> Promise!Pairs] :
                      \A m, n \in 1 .. Cardinality(L) : m # n => f[m] # f[n]}
    BY <2>1, <2>2
  <2> QED BY <2>3, <1>7, CountsAlike DEF Promise!SetToSeqs
<1>9. Promise!Each
  BY <1>1, <1>2, <1>8 DEF Promise!Each, Promise!Walk
<1> QED BY <1>1, <1>2, <1>9 DEF Promise!Next, Promise!Reply, Idle, Promise!Idle

-----------------------------------------------------------------------------
(* The theorem.                                                            *)

LEMMA StepsPromised == IInv /\ JInv /\ KInv /\ [Next]_vars => [Promise!Next]_(Promise!vars)
<1> SUFFICES ASSUME IInv, JInv, KInv, [Next]_vars PROVE [Promise!Next]_(Promise!vars)
  OBVIOUS
<1>1. CASE Ask
  BY <1>1, AskPromised
<1>2. CASE Lookup
  BY <1>2, QuietPromised, GetPromised, HasPromised, RemovePromised, EachPromised, SizePromised,
     StringPromised DEF Lookup
<1>3. CASE Resize
  BY <1>3, QuietPromised
<1>4. CASE Store
  BY <1>4, QuietPromised, StorePromised DEF Store
<1>5. CASE UNCHANGED vars
  <2>1. UNCHANGED <<api, h, new, carry, pc, call, answer, made>>
    BY <1>5 DEF vars, table, probe
  <2>2. Contents' = Contents
    BY <2>1 DEF Contents, Homed, Carried
  <2> QED BY <2>1, <2>2, Hidden DEF Promise!vars
<1> QED BY <1>1, <1>2, <1>3, <1>4, <1>5 DEF Next

\* Whatever is set, removed, looked up and interned in whatever order, and however
\* often a table is rehashed in between, each call of hash.c and string.c is
\* answered as a dictionary answers it, but for what lies behind the table.
THEOREM PromiseKept == Spec => KeepsPromise
<1>1. Spec => [](IInv /\ JInv /\ KInv)
  BY ServeInvariance
<1> QED BY <1>1, BeginsAsPromised, StepsPromised, PTL DEF Spec, KeepsPromise, Promise!Spec
=============================================================================
