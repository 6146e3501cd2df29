----------------------------- MODULE HashProofs -----------------------------
(***************************************************************************)
(* Every entry of a table can be found, for all keys, hashes, strides and  *)
(* calls.                                                                  *)
(***************************************************************************)
EXTENDS Hash, TLAPS

-----------------------------------------------------------------------------
(* Arithmetic of the mask.                                                 *)

\* A quotient and a remainder are the only ones.
LEMMA Division ==
    ASSUME NEW n \in Nat \ {0}, NEW q \in Int, NEW r \in 0 .. n - 1
    PROVE  (q * n + r) % n = r
<1> DEFINE x == q * n + r  p == x \div n  s == x % n
<1>1. x \in Int /\ p \in Int /\ s \in 0 .. n - 1 /\ x = n * p + s
  OBVIOUS
<1>2. \A a \in Int : a >= 1 => n * a >= n
  OBVIOUS
<1>3. n * (q - p) = s - r /\ n * (p - q) = r - s
  BY <1>1
<1>4. q - p < 1 /\ p - q < 1
  BY <1>1, <1>2, <1>3
<1>5. q = p
  BY <1>1, <1>4
<1> QED BY <1>1, <1>5

\* The mask may be taken before or after an addition.
LEMMA MaskTwice ==
    ASSUME NEW n \in Nat \ {0}, NEW x \in Nat, NEW y \in Nat
    PROVE  ((x % n) + y) % n = (x + y) % n
<1> DEFINE a == x \div n  r == x % n  b == (r + y) \div n  t == (r + y) % n
<1>1. a \in Int /\ r \in 0 .. n - 1 /\ x = n * a + r
  OBVIOUS
<1>2. b \in Int /\ t \in 0 .. n - 1 /\ r + y = n * b + t
  BY <1>1
<1>3. x + y = (a + b) * n + t /\ a + b \in Int
  BY <1>1, <1>2
<1> HIDE DEF a, b, t
<1>4. ((a + b) * n + t) % n = t
  BY <1>2, <1>3, Division
<1> QED BY <1>3, <1>4 DEF t

\* n times anything does not show behind the mask.
LEMMA MaskMultiple ==
    ASSUME NEW n \in Nat \ {0}, NEW x \in Nat, NEW z \in Nat
    PROVE  (x + z * n) % n = x % n
<1> DEFINE a == x \div n  r == x % n
<1>1. a \in Int /\ r \in 0 .. n - 1 /\ x = n * a + r
  OBVIOUS
<1>2. x + z * n = (a + z) * n + r /\ a + z \in Int
  BY <1>1
<1> HIDE DEF a, r
<1>3. ((a + z) * n + r) % n = r
  BY <1>1, <1>2, Division
<1> QED BY <1>2, <1>3 DEF r

\* Products, with factors the provers can name.
LEMMA Products ==
    ASSUME NEW d \in Nat, NEW s \in Nat
    PROVE  d * s \in Nat /\ 0 * s = 0 /\ (d + 1) * s = d * s + s
OBVIOUS

LEMMA Distribute ==
    ASSUME NEW n \in Nat, NEW q \in Nat, NEW r \in Nat, NEW s \in Nat
    PROVE  (n * q + r) * s = r * s + (q * s) * n
OBVIOUS

-----------------------------------------------------------------------------
(* Paths.                                                                  *)

Marks == {"empty", "deleted", "live"}
FlagsOf(n) == [Buckets(n) -> Marks]

\* Bucket b is reached from the first bucket of k over occupied ones.
OnPath(k, n, flags, b) ==
    \E d \in Nat : /\ Walked(k, n, d) = b
                   /\ \A e \in 0 .. d - 1 : flags[Walked(k, n, e)] # "empty"

LEMMA WalkedTo ==
    ASSUME NEW k \in Strings, NEW n \in Nat \ {0}, NEW d \in Nat
    PROVE  /\ Walked(k, n, d) \in Buckets(n)
           /\ Walked(k, n, 0) = Home(k, n)
           /\ After(k, Walked(k, n, d), n) = Walked(k, n, d + 1)
<1>1. Code[k] \in Nat /\ Stride[k] \in Nat
  BY CodeAssumption
<1>2. d * Stride[k] \in Nat /\ 0 * Stride[k] = 0 /\ (d + 1) * Stride[k] = d * Stride[k] + Stride[k]
  BY <1>1, Products
<1> DEFINE x == Code[k] + d * Stride[k]
<1>7. x \in Nat
  BY <1>1, <1>2
<1>8. ((x % n) + Stride[k]) % n = (x + Stride[k]) % n
  BY <1>1, <1>7, MaskTwice
<1>3. Walked(k, n, d) \in Buckets(n)
  BY <1>1, <1>2 DEF Walked, Buckets
<1>4. Walked(k, n, 0) = Home(k, n)
  BY <1>1, <1>2 DEF Walked, Home
<1>5. After(k, Walked(k, n, d), n) = (Code[k] + d * Stride[k] + Stride[k]) % n
  BY <1>8 DEF After, Walked
<1>6. Walked(k, n, d + 1) = (Code[k] + d * Stride[k] + Stride[k]) % n
  BY <1>1, <1>2 DEF Walked
<1> QED BY <1>3, <1>4, <1>5, <1>6

\* A path comes back to its beginning, so n steps are enough.
LEMMA WalkedRound ==
    ASSUME NEW k \in Strings, NEW n \in Nat \ {0}, NEW d \in Nat
    PROVE  d % n \in Buckets(n) /\ d % n <= d /\ Walked(k, n, d % n) = Walked(k, n, d)
<1> DEFINE q == d \div n  r == d % n  s == Stride[k]  c == Code[k]
<1>1. c \in Nat /\ s \in Nat
  BY CodeAssumption
<1>2. q \in Nat /\ r \in 0 .. n - 1 /\ d = n * q + r /\ r <= d
  OBVIOUS
<1>3. q * s \in Nat /\ r * s \in Nat
  BY <1>1, <1>2
<1> HIDE DEF q, r, s, c
<1>4. d * s = r * s + (q * s) * n
  BY <1>1, <1>2, Distribute
<1>5. c + d * s = (c + r * s) + (q * s) * n /\ c + r * s \in Nat
  BY <1>1, <1>2, <1>3, <1>4
<1>6. ((c + r * s) + (q * s) * n) % n = (c + r * s) % n
  BY <1>3, <1>5, MaskMultiple
<1>7. Walked(k, n, r) = Walked(k, n, d)
  BY <1>5, <1>6 DEF Walked, s, c
<1> QED BY <1>2, <1>7 DEF Buckets, r

LEMMA PathBegins ==
    ASSUME NEW k \in Strings, NEW n \in Nat \ {0}, NEW flags
    PROVE  OnPath(k, n, flags, Home(k, n))
BY WalkedTo DEF OnPath

LEMMA PathGoesOn ==
    ASSUME NEW k \in Strings, NEW n \in Nat \ {0}, NEW flags, NEW b,
           OnPath(k, n, flags, b), flags[b] # "empty"
    PROVE  OnPath(k, n, flags, After(k, b, n))
<1>1. PICK d \in Nat : /\ Walked(k, n, d) = b
                      /\ \A e \in 0 .. d - 1 : flags[Walked(k, n, e)] # "empty"
  BY DEF OnPath
<1>2. Walked(k, n, d + 1) = After(k, b, n)
  BY <1>1, WalkedTo
<1>3. \A e \in 0 .. (d + 1) - 1 : flags[Walked(k, n, e)] # "empty"
  BY <1>1
<1> QED BY <1>2, <1>3 DEF OnPath

\* A path stays open as long as no bucket is emptied.
LEMMA PathKept ==
    ASSUME NEW k \in Strings, NEW n \in Nat \ {0}, NEW f, NEW g, NEW b,
           OnPath(k, n, f, b), \A c \in Buckets(n) : f[c] # "empty" => g[c] # "empty"
    PROVE  OnPath(k, n, g, b)
<1>1. PICK d \in Nat : /\ Walked(k, n, d) = b
                      /\ \A e \in 0 .. d - 1 : f[Walked(k, n, e)] # "empty"
  BY DEF OnPath
<1>2. \A e \in 0 .. d - 1 : g[Walked(k, n, e)] # "empty"
  BY <1>1, WalkedTo
<1> QED BY <1>1, <1>2 DEF OnPath

LEMMA PathInTable ==
    ASSUME NEW k \in Strings, NEW n \in Nat \ {0}, NEW flags, NEW b, OnPath(k, n, flags, b)
    PROVE  /\ b \in Buckets(n)
           /\ \E d \in Buckets(n) :
                 /\ Walked(k, n, d) = b
                 /\ \A e \in 0 .. d - 1 : flags[Walked(k, n, e)] # "empty"
<1>1. PICK d \in Nat : /\ Walked(k, n, d) = b
                      /\ \A e \in 0 .. d - 1 : flags[Walked(k, n, e)] # "empty"
  BY DEF OnPath
<1>2. d % n \in Buckets(n) /\ d % n <= d /\ Walked(k, n, d % n) = b
  BY <1>1, WalkedRound
<1>3. \A e \in 0 .. (d % n) - 1 : flags[Walked(k, n, e)] # "empty"
  BY <1>1, <1>2 DEF Buckets
<1> QED BY <1>1, <1>2, <1>3, WalkedTo

-----------------------------------------------------------------------------
(* The invariant.                                                          *)

IsTable ==
    /\ h = [n_buckets |-> h.n_buckets, size |-> h.size, n_occupied |-> h.n_occupied,
            upper_bound |-> h.upper_bound, flags |-> h.flags, entries |-> h.entries]
    /\ h.n_buckets \in Nat
    /\ h.flags \in FlagsOf(h.n_buckets)
    /\ h.n_buckets = 0 => h.size = 0 /\ h.n_occupied = 0 /\ h.upper_bound = 0

IsNew ==
    /\ new = [n |-> new.n, flags |-> new.flags]
    /\ new.n \in Nat \ {0}
    /\ new.flags \in FlagsOf(new.n)
    /\ h.n_buckets <= new.n

\* The live entries are on their paths.
Reached(n, flags) ==
    \A b \in Live(flags) : /\ h.entries[b].key \in Strings
                           /\ OnPath(h.entries[b].key, n, flags, b)

\* Between two resizes, and while entries are moved.
Settled ==
    /\ j = 0
    /\ DOMAIN h.entries = Buckets(h.n_buckets)
    /\ Reached(h.n_buckets, h.flags)
Moving ==
    /\ IsNew
    /\ j \in 0 .. h.n_buckets
    /\ DOMAIN h.entries = Buckets(new.n)
    /\ \A b \in Live(h.flags) : h.entries[b].key \in Strings
    /\ Reached(new.n, new.flags)

OnWay(b) == OnPath(call.key, h.n_buckets, h.flags, b)

\* What each loop has done so far.
Getting == /\ pc = "get_loop" => h.n_buckets # 0 /\ i \in Buckets(h.n_buckets)
           /\ pc = "found" => i \in 0 .. h.n_buckets
Putting == /\ pc \in {"put_start", "put_loop", "put_end"} => h.n_buckets # 0
           /\ pc \in {"put_loop", "put_end"} => OnWay(i)
           /\ pc = "put_loop" => /\ last = Home(call.key, h.n_buckets)
                                 /\ site \in 0 .. h.n_buckets
                                 /\ site # h.n_buckets => OnWay(site)
Kicking == pc = "kick" => /\ j # h.n_buckets
                          /\ carry.key \in Strings
                          /\ OnPath(carry.key, new.n, new.flags, i)

Labels == {"idle", "dead", "walk", "kh_get", "get_loop", "found", "kh_put", "rehash", "kick",
           "put_start", "put_loop", "put_end"}

IInv ==
    /\ pc \in Labels
    /\ pc \notin {"idle", "dead", "walk"} => call.key \in Strings
    /\ api \in Apis
    /\ IsTable
    /\ Resizing => Moving
    /\ ~ Resizing => Settled
    /\ Getting /\ Putting /\ Kicking

LEMMA Begins == Init => IInv
<1> SUFFICES ASSUME Init PROVE IInv
  OBVIOUS
<1> USE DEF Init, kh_init, NoTable
<1>1. h.n_buckets = 0 /\ pc = "idle" /\ j = 0 /\ api \in Apis
  OBVIOUS
<1>2. Buckets(0) = {}
  BY DEF Buckets
<1>3. IsTable
  BY <1>2 DEF IsTable, FlagsOf
<1>4. Settled
  BY <1>2 DEF Settled, Reached, Live
<1> QED BY <1>1, <1>3, <1>4 DEF IInv, Labels, Resizing, Getting, Putting, Kicking

-----------------------------------------------------------------------------
(* Steps that leave the table as it is.                                    *)

LEMMA TableKept ==
    ASSUME IInv, ~ Resizing, ~ Resizing', UNCHANGED <<h, new, carry, j>>
    PROVE  IsTable' /\ Settled'
BY DEF IInv, IsTable, FlagsOf, Settled, Reached, OnPath, Walked, Live, Buckets

LEMMA AskKeeps == IInv /\ Ask => IInv'
<1> SUFFICES ASSUME IInv, Ask PROVE IInv'
  OBVIOUS
<1>1. /\ pc' \in {"kh_put", "walk", "kh_get"} /\ api' = api
      /\ pc' # "walk" => call'.key \in Strings
  <2>1. call' \in Calls(api) /\ api \in Apis
    BY DEF Ask, IInv
  <2>2. call'.op \in {"each", "size"} \/ call'.key \in Strings
    BY <2>1, CallsAssumption
  <2>3. /\ pc' \in {"kh_put", "walk", "kh_get"} /\ api' = api
        /\ pc' # "walk" => call'.op \notin {"each", "size"}
    BY DEF Ask, Goto
  <2> QED BY <2>2, <2>3
<1>2. IsTable' /\ Settled'
  BY <1>1, TableKept DEF Ask, Resizing, table
<1> QED BY <1>1, <1>2 DEF IInv, Labels, Resizing, Getting, Putting, Kicking

LEMMA LookupKeeps ==
    IInv /\ (GetStart \/ GetLoop \/ GetEnd) => IInv'
<1> SUFFICES ASSUME IInv, GetStart \/ GetLoop \/ GetEnd PROVE IInv'
  OBVIOUS
<1>1. /\ pc \in {"kh_get", "get_loop"} /\ pc' \in {"get_loop", "found"}
      /\ UNCHANGED <<h, new, carry, j, call, api>>
  BY DEF GetStart, GetLoop, GetEnd, Goto, table
<1>2. IsTable' /\ Settled'
  BY <1>1, TableKept DEF Resizing
<1>3. h.n_buckets \in Nat /\ call.key \in Strings
  BY <1>1 DEF IInv, IsTable
<1>4. Code[call.key] \in Nat /\ Stride[call.key] \in Nat
  BY <1>3, CodeAssumption
<1>5. Getting'
  <2>1. CASE GetStart
    BY <2>1, <1>1, <1>3, <1>4 DEF GetStart, Goto, Getting, Home, Buckets
  <2>2. CASE GetLoop
    BY <2>2, <1>1, <1>3, <1>4 DEF GetLoop, Goto, Getting, After, Buckets, IInv
  <2>3. CASE GetEnd
    BY <2>3, <1>1, <1>3 DEF GetEnd, Goto, Getting, Buckets, IInv
  <2> QED BY <2>1, <2>2, <2>3
<1> QED BY <1>1, <1>2, <1>3, <1>5 DEF IInv, Labels, Resizing, Putting, Kicking

LEMMA AnswerKeeps ==
    IInv /\ (hash_get \/ hash_has \/ hash_each \/ hash_size \/ string_exists \/ string_new) => IInv'
<1> SUFFICES ASSUME IInv, hash_get \/ hash_has \/ hash_each \/ hash_size \/ string_exists \/ string_new
             PROVE  IInv'
  OBVIOUS
<1>1. /\ pc \in {"found", "walk"} /\ pc' \in {"idle", "dead", "kh_put"}
      /\ UNCHANGED <<h, new, carry, j, api>>
      /\ pc' = "kh_put" => pc = "found" /\ call' = call
  BY DEF hash_get, hash_has, hash_each, hash_size, string_exists, string_new, Return, Goto, table, probe
<1>2. IsTable' /\ Settled'
  BY <1>1, TableKept DEF Resizing
<1> QED BY <1>1, <1>2 DEF IInv, Labels, Resizing, Getting, Putting, Kicking

LEMMA PutLookKeeps == IInv /\ PutLook => IInv'
<1> SUFFICES ASSUME IInv, PutLook PROVE IInv'
  OBVIOUS
<1> DEFINE n == h.n_buckets  k == call.key
<1>1. /\ pc = "put_start" /\ pc' \in {"put_loop", "put_end"}
      /\ UNCHANGED <<h, new, carry, j, call, api>>
      /\ i' = Home(k, n) /\ last' = Home(k, n) /\ site' = n
  BY DEF PutLook, Goto, table
<1>2. n \in Nat \ {0} /\ k \in Strings
  BY <1>1 DEF IInv, IsTable, Putting
<1>3. OnPath(k, n, h.flags, Home(k, n))
  BY <1>2, PathBegins
<1>4. Putting'
  BY <1>1, <1>2, <1>3 DEF Putting, OnWay
<1>5. IsTable' /\ Settled'
  BY <1>1, TableKept DEF Resizing
<1> QED BY <1>1, <1>2, <1>4, <1>5 DEF IInv, Labels, Resizing, Getting, Kicking

LEMMA PutLoopKeeps == IInv /\ (PutLoop \/ PutFound) => IInv'
<1> SUFFICES ASSUME IInv, PutLoop \/ PutFound PROVE IInv'
  OBVIOUS
<1> DEFINE n == h.n_buckets  k == call.key  next == After(k, i, n)
<1>1. /\ pc = "put_loop" /\ pc' \in {"put_loop", "put_end"}
      /\ UNCHANGED <<h, new, carry, j, call, api, last>>
  BY DEF PutLoop, PutFound, Goto, table
<1>2. /\ n \in Nat \ {0} /\ k \in Strings /\ last = Home(k, n)
      /\ OnPath(k, n, h.flags, i)
      /\ site \in 0 .. n /\ (site # n => OnPath(k, n, h.flags, site))
  BY <1>1 DEF IInv, IsTable, Putting, OnWay
<1>3. i \in Buckets(n)
  BY <1>2, PathInTable
<1>4. Putting'
  <2>1. CASE PutLoop
    <3>1. h.flags[i] # "empty"
      BY <2>1 DEF PutLoop, GoesOn
    <3>2. OnPath(k, n, h.flags, next)
      BY <1>2, <3>1, PathGoesOn
    <3>3. site' \in 0 .. n /\ (site' # n => OnPath(k, n, h.flags, site'))
      BY <2>1, <1>2, <1>3 DEF PutLoop, Buckets
    <3>4. i' = next \/ (site' # n /\ i' = site')
      BY <2>1 DEF PutLoop
    <3>5. OnPath(k, n, h.flags, i')
      BY <3>2, <3>3, <3>4
    <3> QED BY <1>1, <1>2, <3>3, <3>5 DEF Putting, OnWay
  <2>2. CASE PutFound
    BY <2>2, <1>1, <1>2 DEF PutFound, Putting, OnWay, Goto
  <2> QED BY <2>1, <2>2
<1>5. IsTable' /\ Settled'
  BY <1>1, TableKept DEF Resizing
<1> QED BY <1>1, <1>2, <1>4, <1>5 DEF IInv, Labels, Resizing, Getting, Kicking

-----------------------------------------------------------------------------
(* Steps that change it.                                                   *)

LEMMA RemoveKeeps == IInv /\ hash_remove => IInv'
<1> SUFFICES ASSUME IInv, hash_remove PROVE IInv'
  OBVIOUS
<1> DEFINE n == h.n_buckets
<1>1. /\ pc = "found" /\ pc' = "idle"
      /\ UNCHANGED <<new, carry, j, api>>
      /\ h' = IF i # n THEN kh_del(i) ELSE h
  BY DEF hash_remove, Return, Goto, Found
<1>2. IsTable /\ Settled /\ i \in 0 .. n /\ n \in Nat
  BY <1>1 DEF IInv, Resizing, Getting, IsTable
<1>3. CASE i = n
  BY <1>1, <1>3, TableKept DEF Resizing, IInv, Labels, Getting, Putting, Kicking
<1>4. CASE i # n
  <2>1. h' = [h EXCEPT !.flags[i] = "deleted", !.size = @ - 1]
    BY <1>1, <1>4 DEF kh_del
  <2>2. i \in Buckets(n) /\ n # 0
    BY <1>2, <1>4 DEF Buckets
  <2>3. /\ h'.n_buckets = n /\ h'.entries = h.entries
        /\ h'.flags = [h.flags EXCEPT ![i] = "deleted"]
    BY <2>1, <1>2 DEF IsTable
  <2>4. IsTable'
    BY <2>1, <2>2, <2>3, <1>2 DEF IsTable, FlagsOf, Marks
  <2>5. \A c \in Buckets(n) : h.flags[c] # "empty" => h'.flags[c] # "empty"
    BY <2>3, <1>2 DEF IsTable, FlagsOf
  <2>6. \A b \in Live(h'.flags) : b \in Live(h.flags)
    BY <2>2, <2>3, <1>2 DEF IsTable, FlagsOf, Live
  <2>7. Reached(n, h.flags)'
    <3> SUFFICES ASSUME NEW b \in Live(h'.flags)
                 PROVE  h.entries[b].key \in Strings /\ OnPath(h.entries[b].key, n, h'.flags, b)
      BY <2>3, SMTT(30) DEF Reached, OnPath, Walked
    <3> QED BY <2>2, <2>5, <2>6, <1>2, PathKept DEF Settled, Reached
  <2>8. Settled'
    BY <2>3, <2>7, <1>1, <1>2 DEF Settled
  <2> QED BY <2>4, <2>8, <1>1 DEF IInv, Labels, Resizing, Getting, Putting, Kicking
<1> QED BY <1>3, <1>4

\* The bucket that kh_put found is on the path of the key.
LEMMA OccupyKeeps ==
    ASSUME IInv, NEW v, pc = "put_end", h' = Occupy(i, v), pc' = "idle", UNCHANGED <<new, carry, j, api>>
    PROVE  IInv'
<1> DEFINE n == h.n_buckets  k == call.key
<1>1. IsTable /\ Settled /\ n \in Nat \ {0} /\ k \in Strings /\ OnPath(k, n, h.flags, i)
  BY DEF IInv, Resizing, Putting, IsTable, OnWay
<1>2. i \in Buckets(n)
  BY <1>1, PathInTable
<1>8. h'.n_buckets = n
  BY <1>1 DEF IsTable, Occupy
<1>3. /\ h'.n_buckets = n
      /\ h'.flags = [h.flags EXCEPT ![i] = "live"]
      /\ h'.entries = [h.entries EXCEPT ![i] =
            [key |-> IF h.flags[i] = "live" THEN h.entries[i].key ELSE k, val |-> v]]
  BY <1>1, <1>2 DEF IsTable, Occupy, Settled
<1>4. IsTable'
  BY <1>1, <1>2 DEF IsTable, Occupy, FlagsOf, Marks
<1>5. \A c \in Buckets(n) : h.flags[c] # "empty" => h'.flags[c] # "empty"
  BY <1>1, <1>3 DEF IsTable, FlagsOf
<1>6. Reached(n, h.flags)'
  <2>3. ASSUME \A b \in Live(h'.flags) : h'.entries[b].key \in Strings
                                        /\ OnPath(h'.entries[b].key, h'.n_buckets, h'.flags, b)
        PROVE  Reached(n, h.flags)'
    BY <2>3 DEF Reached, OnPath, Walked
  <2> SUFFICES ASSUME NEW b \in Live(h'.flags)
               PROVE  h'.entries[b].key \in Strings /\ OnPath(h'.entries[b].key, n, h'.flags, b)
    BY <1>8, <2>3
  <2>1. CASE b # i \/ h.flags[i] = "live"
    <3>1. b \in Live(h.flags) /\ h'.entries[b].key = h.entries[b].key
      BY <2>1, <1>1, <1>2, <1>3 DEF Live, IsTable, FlagsOf, Settled
    <3> QED BY <3>1, <1>1, <1>5, PathKept DEF Settled, Reached
  <2>2. CASE b = i /\ h.flags[i] # "live"
    <3>1. h'.entries[b].key = k
      BY <2>2, <1>1, <1>2, <1>3 DEF Settled
    <3> QED BY <3>1, <2>2, <1>1, <1>5, PathKept
  <2> QED BY <2>1, <2>2
<1>7. Settled'
  BY <1>1, <1>3, <1>6 DEF Settled
<1> QED BY <1>4, <1>7 DEF IInv, Labels, Resizing, Getting, Putting, Kicking

LEMMA StoreKeeps == IInv /\ (hash_set \/ string_put) => IInv'
<1> SUFFICES ASSUME IInv, hash_set \/ string_put PROVE IInv'
  OBVIOUS
<1>1. PICK v : h' = Occupy(i, v)
  BY DEF hash_set, string_put
<1>2. pc = "put_end" /\ pc' = "idle" /\ UNCHANGED <<new, carry, j, api>>
  BY DEF hash_set, string_put, Return, Goto
<1> QED BY <1>1, <1>2, OccupyKeeps

\* A table that is rehashed becomes no smaller.
LEMMA NewSizeGrows ==
    IsTable => NewSize \in Nat \ {0} /\ h.n_buckets <= NewSize
BY DEF IsTable, NewSize, RoundUp

\* Without buckets a table is always resized.
LEMMA FirstBuckets ==
    IsTable /\ h.n_buckets = 0 => h.n_occupied >= h.upper_bound /\ h.size < UpperBound(NewSize)
BY DEF IsTable, NewSize, RoundUp, UpperBound

LEMMA PutStartKeeps == IInv /\ PutStart => IInv'
<1> SUFFICES ASSUME IInv, PutStart PROVE IInv'
  OBVIOUS
<1> DEFINE n == h.n_buckets  full == h.n_occupied >= h.upper_bound /\ h.size < UpperBound(NewSize)
<1>1. /\ pc = "kh_put" /\ call.key \in Strings /\ IsTable /\ Settled /\ n \in Nat
      /\ UNCHANGED <<api, carry, j, i, last, site, call>>
  BY DEF PutStart, probe, IInv, Resizing, IsTable
<1>2. CASE full
  <2> DEFINE m == NewSize
  <2>1. m \in Nat \ {0} /\ n <= m
    BY <1>1, NewSizeGrows
  <2>2. /\ pc' = "rehash"
        /\ new' = [n |-> m, flags |-> [b \in Buckets(m) |-> "empty"]]
        /\ h' = [h EXCEPT !.entries = [b \in Buckets(m) |-> IF b < n THEN h.entries[b] ELSE NoEntry]]
    BY <1>2 DEF PutStart, Goto
  <2> HIDE DEF m
  <2>3. /\ h'.n_buckets = n /\ h'.flags = h.flags
        /\ h'.entries = [b \in Buckets(m) |-> IF b < n THEN h.entries[b] ELSE NoEntry]
    BY <2>2, <1>1 DEF IsTable
  <2>4. IsTable'
    BY <2>2, <2>3, <1>1 DEF IsTable
  <2>5. IsNew'
    BY <2>1, <2>2, <2>3 DEF IsNew, FlagsOf, Marks
  <2>6. \A b \in Live(h'.flags) : h'.entries[b].key \in Strings
    <3> SUFFICES ASSUME NEW b \in Live(h.flags) PROVE h'.entries[b].key \in Strings
      BY <2>3
    <3>1. b \in Buckets(n)
      BY <1>1 DEF Live, IsTable, FlagsOf
    <3>2. b \in Buckets(m) /\ b < n
      BY <3>1, <2>1, <1>1 DEF Buckets
    <3>3. h'.entries[b] = h.entries[b]
      BY <3>2, <2>3
    <3> QED BY <3>3, <1>1 DEF Settled, Reached
  <2>7. Reached(new.n, new.flags)'
    BY <2>2 DEF Reached, Live
  <2>8. j' \in 0 .. h'.n_buckets /\ DOMAIN h'.entries = Buckets(m) /\ new'.n = m
    BY <1>1, <2>2, <2>3 DEF Settled
  <2>9. Moving'
    BY <2>5, <2>6, <2>7, <2>8 DEF Moving
  <2> QED BY <1>1, <2>2, <2>4, <2>9 DEF IInv, Labels, Resizing, Getting, Putting, Kicking
<1>3. CASE ~ full
  <2>1. pc' = "put_start" /\ UNCHANGED <<h, new>>
    BY <1>3 DEF PutStart, Goto
  <2>2. n # 0
    BY <1>1, <1>3, FirstBuckets
  <2>3. IsTable' /\ Settled'
    BY <1>1, <2>1, TableKept DEF Resizing
  <2> QED BY <1>1, <2>1, <2>2, <2>3 DEF IInv, Labels, Resizing, Getting, Putting, Kicking
<1> QED BY <1>2, <1>3

-----------------------------------------------------------------------------
(* Entries on their way from bucket to bucket.                             *)

\* The flags and keys of the old table, the entries of the new one.
LEMMA InMotion ==
    ASSUME IInv, Resizing
    PROVE  /\ IsTable /\ Moving /\ IsNew /\ call.key \in Strings /\ api \in Apis
           /\ h.n_buckets \in Nat /\ new.n \in Nat \ {0}
           /\ \A b \in Live(h.flags) : b \in Buckets(h.n_buckets) /\ b \in Buckets(new.n)
           /\ \A b \in Live(new.flags) : b \in Buckets(new.n)
<1>1. /\ IsTable /\ Moving /\ IsNew /\ call.key \in Strings /\ api \in Apis
      /\ h.n_buckets \in Nat /\ new.n \in Nat \ {0} /\ h.n_buckets <= new.n
  BY DEF IInv, Resizing, Moving, IsTable, IsNew
<1>2. \A b \in Live(h.flags) : b \in Buckets(h.n_buckets)
  BY <1>1 DEF IsTable, FlagsOf, Live
<1>3. \A b \in Live(new.flags) : b \in Buckets(new.n)
  BY <1>1 DEF IsNew, FlagsOf, Live
<1> QED BY <1>1, <1>2, <1>3 DEF Buckets

\* The entry of bucket b is taken out of the old table.
LEMMA TakenOut ==
    ASSUME IInv, Resizing, NEW b \in Live(h.flags),
           h' = [h EXCEPT !.flags[b] = "deleted"]
    PROVE  /\ IsTable'
           /\ h'.n_buckets = h.n_buckets /\ h'.entries = h.entries
           /\ \A c \in Live(h'.flags) : c \in Live(h.flags) /\ c # b
<1>1. IsTable /\ b \in Buckets(h.n_buckets)
  BY InMotion
<1>2. /\ h'.n_buckets = h.n_buckets /\ h'.entries = h.entries
      /\ h'.flags = [h.flags EXCEPT ![b] = "deleted"]
  BY <1>1 DEF IsTable
<1>3. IsTable'
  BY <1>1, <1>2 DEF IsTable, FlagsOf, Marks, Buckets
<1>4. \A c \in Live(h'.flags) : c \in Live(h.flags) /\ c # b
  BY <1>1, <1>2 DEF IsTable, FlagsOf, Live
<1> QED BY <1>2, <1>3, <1>4

LEMMA RehashKeeps == IInv /\ Rehash => IInv'
<1> SUFFICES ASSUME IInv, Rehash PROVE IInv'
  OBVIOUS
<1>1. /\ pc = "rehash" /\ j # h.n_buckets
      /\ UNCHANGED <<api, new, call>>
  BY DEF Rehash
<1>2. /\ Resizing /\ IsTable /\ Moving /\ IsNew /\ call.key \in Strings /\ api \in Apis
      /\ h.n_buckets \in Nat /\ new.n \in Nat \ {0}
  BY <1>1, InMotion DEF Resizing
<1>3. j \in 0 .. h.n_buckets
  BY <1>2 DEF Moving
<1>4. CASE h.flags[j] = "live"
  <2>1. /\ carry' = h.entries[j] /\ h' = [h EXCEPT !.flags[j] = "deleted"]
        /\ i' = Home(carry'.key, new.n) /\ pc' = "kick" /\ j' = j
    BY <1>4 DEF Rehash, Goto
  <2>2. j \in Live(h.flags)
    BY <1>1, <1>2, <1>3, <1>4 DEF Live, IsTable, FlagsOf, Buckets
  <2>3. /\ IsTable' /\ h'.n_buckets = h.n_buckets /\ h'.entries = h.entries
        /\ \A c \in Live(h'.flags) : c \in Live(h.flags) /\ c # j
    BY <1>2, <2>1, <2>2, TakenOut
  <2>4. carry'.key \in Strings
    BY <1>2, <2>1, <2>2 DEF Moving
  <2>5. IsNew'
    BY <1>1, <1>2, <2>3 DEF IsNew
  <2>6. Reached(new.n, new.flags)'
    <3>1. ASSUME \A b \in Live(new.flags') : h'.entries[b].key \in Strings
                                          /\ OnPath(h'.entries[b].key, new'.n, new'.flags, b)
          PROVE  Reached(new.n, new.flags)'
      BY <3>1 DEF Reached, OnPath, Walked
    <3>2. new' = new /\ h'.entries = h.entries
      BY <1>1, <1>2, <2>3
    <3>3. Reached(new.n, new.flags)
      BY <1>2 DEF Moving
    <3> QED BY <3>1, <3>2, <3>3 DEF Reached
  <2>7. Moving'
    BY <1>1, <1>2, <2>1, <2>3, <2>5, <2>6 DEF Moving
  <2>8. OnPath(carry'.key, new.n, new.flags, i')
    BY <1>2, <2>1, <2>4, PathBegins
  <2>9. Kicking'
    BY <1>1, <2>1, <2>3, <2>4, <2>8 DEF Kicking, OnPath, Walked
  <2> QED BY <1>1, <1>2, <2>1, <2>3, <2>7, <2>9 DEF IInv, Labels, Resizing, Getting, Putting
<1>5. CASE h.flags[j] # "live"
  <2>1. pc' = pc /\ j' = j + 1 /\ UNCHANGED <<carry, h, i>>
    BY <1>5 DEF Rehash
  <2>2. j' \in 0 .. h.n_buckets
    BY <1>1, <1>2, <1>3, <2>1
  <2>3. IsTable' /\ IsNew'
    BY <1>1, <1>2, <2>1 DEF IsTable, IsNew
  <2>4. Reached(new.n, new.flags)'
    BY <1>1, <1>2, <2>1 DEF Moving, Reached, OnPath, Walked
  <2>5. Moving'
    BY <1>1, <1>2, <2>1, <2>2, <2>3, <2>4 DEF Moving
  <2> QED BY <1>1, <1>2, <2>1, <2>3, <2>5 DEF IInv, Labels, Resizing, Getting, Putting, Kicking
<1> QED BY <1>4, <1>5

LEMMA KickPastKeeps == IInv /\ KickPast => IInv'
<1> SUFFICES ASSUME IInv, KickPast PROVE IInv'
  OBVIOUS
<1> DEFINE k == carry.key
<1>1. /\ pc = "kick" /\ pc' = "kick" /\ new.flags[i] # "empty" /\ i' = After(k, i, new.n)
      /\ UNCHANGED <<api, h, new, carry, j, call>>
  BY DEF KickPast, table
<1>2. /\ Resizing /\ IsTable /\ Moving /\ IsNew /\ call.key \in Strings /\ api \in Apis
      /\ new.n \in Nat \ {0}
  BY <1>1, InMotion DEF Resizing
<1>3. j # h.n_buckets /\ k \in Strings /\ OnPath(k, new.n, new.flags, i)
  BY <1>1 DEF IInv, Kicking
<1>4. OnPath(k, new.n, new.flags, i')
  BY <1>1, <1>2, <1>3, PathGoesOn
<1>5. Kicking'
  BY <1>1, <1>3, <1>4 DEF Kicking, OnPath, Walked
<1>6. IsTable' /\ IsNew'
  BY <1>1, <1>2 DEF IsTable, IsNew
<1>7. Reached(new.n, new.flags)'
  BY <1>1, <1>2 DEF Moving, Reached, OnPath, Walked
<1>8. Moving'
  BY <1>1, <1>2, <1>6, <1>7 DEF Moving
<1> QED BY <1>1, <1>2, <1>5, <1>6, <1>8 DEF IInv, Labels, Resizing, Getting, Putting

\* The entry on its way settles in an empty bucket of the new table.
LEMMA Settles ==
    ASSUME IInv, pc = "kick", new.flags[i] = "empty",
           new' = [new EXCEPT !.flags[i] = "live"], h'.entries = [h.entries EXCEPT ![i] = carry],
           h'.n_buckets = h.n_buckets, \A c \in Live(h'.flags) : c \in Live(h.flags) /\ c # i
    PROVE  /\ IsNew' /\ new'.n = new.n /\ Reached(new.n, new.flags)'
           /\ DOMAIN h'.entries = Buckets(new.n)
           /\ \A c \in Live(h'.flags) : h'.entries[c].key \in Strings
<1> DEFINE n == new.n
<1>1. /\ Moving /\ IsNew /\ n \in Nat \ {0}
      /\ \A b \in Live(h.flags) : b \in Buckets(n)
  BY InMotion DEF Resizing
<1>2. carry.key \in Strings /\ OnPath(carry.key, n, new.flags, i)
  BY DEF IInv, Kicking
<1>3. i \in Buckets(n)
  BY <1>1, <1>2, PathInTable
<1>4. new'.n = n /\ new'.flags = [new.flags EXCEPT ![i] = "live"]
  BY <1>1 DEF IsNew
<1>5. IsNew'
  BY <1>1, <1>3, <1>4 DEF IsNew, FlagsOf, Marks
<1>6. \A c \in Buckets(n) : new.flags[c] # "empty" => new'.flags[c] # "empty"
  BY <1>1, <1>4 DEF IsNew, FlagsOf
<1>7. DOMAIN h.entries = Buckets(n)
  BY <1>1 DEF Moving
<1>8. Reached(new.n, new.flags)'
  <2>0. new'.n = n
    BY <1>4
  <2> DEFINE There(m) == \A b \in Live(new'.flags) :
                  h'.entries[b].key \in Strings /\ OnPath(h'.entries[b].key, m, new'.flags, b)
  <2>1. There(new'.n) => Reached(new.n, new.flags)'
    BY DEF Reached, OnPath, Walked
  <2>2. There(n) => There(new'.n)
    BY <2>0
  <2> SUFFICES ASSUME NEW b \in Live(new'.flags)
               PROVE  h'.entries[b].key \in Strings /\ OnPath(h'.entries[b].key, n, new'.flags, b)
    BY <2>1, <2>2
  <2>3. CASE b = i
    <3>1. h'.entries[b] = carry
      BY <2>3, <1>3, <1>7
    <3>2. OnPath(carry.key, n, new'.flags, i)
      BY <1>1, <1>2, <1>6, PathKept
    <3> QED BY <3>1, <3>2, <2>3, <1>2
  <2>4. CASE b # i
    <3>1. b \in Live(new.flags) /\ b \in Buckets(n)
      BY <2>4, <1>1, <1>3, <1>4 DEF Live, IsNew, FlagsOf
    <3>2. h'.entries[b] = h.entries[b]
      BY <2>4, <3>1, <1>7
    <3> QED BY <3>1, <3>2, <1>1, <1>6, PathKept DEF Moving, Reached
  <2> QED BY <2>3, <2>4
<1>9. \A c \in Live(h'.flags) : h'.entries[c].key \in Strings
  <2> SUFFICES ASSUME NEW c \in Live(h'.flags) PROVE h'.entries[c].key \in Strings
    OBVIOUS
  <2>1. c \in Live(h.flags) /\ c # i /\ c \in Buckets(n)
    BY <1>1
  <2>2. h'.entries[c] = h.entries[c]
    BY <2>1, <1>7
  <2> QED BY <2>1, <2>2, <1>1 DEF Moving
<1> QED BY <1>4, <1>5, <1>7, <1>8, <1>9

LEMMA KickIntoKeeps == IInv /\ KickInto => IInv'
<1> SUFFICES ASSUME IInv, KickInto PROVE IInv'
  OBVIOUS
<1> DEFINE n == h.n_buckets
<1>1. /\ pc = "kick" /\ new.flags[i] = "empty"
      /\ new' = [new EXCEPT !.flags[i] = "live"]
      /\ UNCHANGED <<api, call>>
  BY DEF KickInto
<1>2. /\ Resizing /\ IsTable /\ Moving /\ IsNew /\ call.key \in Strings /\ api \in Apis
      /\ n \in Nat /\ new.n \in Nat \ {0}
  BY <1>1, InMotion DEF Resizing
<1>3. j \in 0 .. n /\ j # n /\ carry.key \in Strings /\ i \in Buckets(new.n)
  BY <1>1, <1>2, PathInTable DEF Moving, Kicking, IInv
<1>4. CASE i < n /\ h.flags[i] = "live"
  <2>1. /\ carry' = h.entries[i]
        /\ h' = [h EXCEPT !.entries[i] = carry, !.flags[i] = "deleted"]
        /\ i' = Home(carry'.key, new.n) /\ pc' = "kick" /\ j' = j
    BY <1>1, <1>4 DEF KickInto
  <2>2. i \in Live(h.flags)
    BY <1>2, <1>3, <1>4 DEF Live, IsTable, FlagsOf, Buckets
  <2>3. /\ h'.n_buckets = n /\ h'.entries = [h.entries EXCEPT ![i] = carry]
        /\ h'.flags = [h.flags EXCEPT ![i] = "deleted"]
    BY <2>1, <1>2 DEF IsTable
  <2>4. IsTable'
    BY <2>1, <2>2, <2>3, <1>2 DEF IsTable, FlagsOf, Marks
  <2>5. \A c \in Live(h'.flags) : c \in Live(h.flags) /\ c # i
    BY <2>2, <2>3, <1>2 DEF IsTable, FlagsOf, Live
  <2>6. /\ IsNew' /\ new'.n = new.n /\ Reached(new.n, new.flags)'
        /\ DOMAIN h'.entries = Buckets(new.n)
        /\ \A c \in Live(h'.flags) : h'.entries[c].key \in Strings
    BY <1>1, <2>3, <2>5, Settles
  <2>7. Moving'
    BY <1>3, <2>1, <2>3, <2>6 DEF Moving
  <2>8. carry'.key \in Strings
    BY <1>2, <2>1, <2>2 DEF Moving
  <2>9. OnPath(carry'.key, new.n, new'.flags, i')
    BY <1>2, <2>1, <2>8, PathBegins
  <2>10. Kicking'
    <3>1. OnPath(carry'.key, new'.n, new'.flags, i')
      BY <2>6, <2>9
    <3>2. OnPath(carry.key, new.n, new.flags, i)'
      BY <3>1 DEF OnPath, Walked
    <3>3. j' # h'.n_buckets
      BY <1>3, <2>1, <2>3
    <3>4. QED
      BY <2>8, <3>2, <3>3 DEF Kicking
  <2> QED BY <1>1, <1>2, <2>1, <2>4, <2>7, <2>10 DEF IInv, Labels, Resizing, Getting, Putting
<1>5. CASE ~ (i < n /\ h.flags[i] = "live")
  <2>1. h' = [h EXCEPT !.entries[i] = carry] /\ j' = j + 1 /\ pc' = "rehash"
    BY <1>5 DEF KickInto, Goto
  <2>2. /\ h'.n_buckets = n /\ h'.entries = [h.entries EXCEPT ![i] = carry]
        /\ h'.flags = h.flags
    BY <2>1, <1>2 DEF IsTable
  <2>3. IsTable'
    BY <2>1, <2>2, <1>2 DEF IsTable
  <2>4. \A c \in Live(h'.flags) : c \in Live(h.flags) /\ c # i
    <3>1. i \notin Live(h.flags)
      BY <1>2, <1>5, InMotion DEF Live, Buckets
    <3> QED BY <2>2, <3>1
  <2>5. /\ IsNew' /\ new'.n = new.n /\ Reached(new.n, new.flags)'
        /\ DOMAIN h'.entries = Buckets(new.n)
        /\ \A c \in Live(h'.flags) : h'.entries[c].key \in Strings
    BY <1>1, <2>2, <2>4, Settles
  <2>6. j' \in 0 .. n
    BY <1>2, <1>3, <2>1
  <2>7. Moving'
    BY <2>2, <2>5, <2>6 DEF Moving
  <2> QED BY <1>1, <1>2, <2>1, <2>3, <2>7 DEF IInv, Labels, Resizing, Getting, Putting, Kicking
<1> QED BY <1>4, <1>5

LEMMA RehashedKeeps == IInv /\ Rehashed => IInv'
<1> SUFFICES ASSUME IInv, Rehashed PROVE IInv'
  OBVIOUS
<1>1. /\ pc = "rehash" /\ pc' = "put_start" /\ j' = 0
      /\ h' = [h EXCEPT !.flags = new.flags, !.n_buckets = new.n, !.n_occupied = h.size,
                        !.upper_bound = UpperBound(new.n)]
      /\ UNCHANGED <<api, call>>
  BY DEF Rehashed, Goto
<1>2. /\ IsTable /\ Moving /\ IsNew /\ call.key \in Strings /\ api \in Apis
      /\ new.n \in Nat \ {0}
  BY <1>1, InMotion DEF Resizing
<1>3. h'.n_buckets = new.n /\ h'.flags = new.flags /\ h'.entries = h.entries
  BY <1>1, <1>2 DEF IsTable
<1>4. IsTable'
  BY <1>1, <1>2, <1>3 DEF IsTable, IsNew
<1>5. Reached(h.n_buckets, h.flags)'
  BY <1>2, <1>3 DEF Moving, Reached, OnPath, Walked
<1>6. Settled'
  BY <1>1, <1>2, <1>3, <1>5 DEF Settled, Moving
<1> QED BY <1>1, <1>2, <1>3, <1>4, <1>6 DEF IInv, Labels, Resizing, Getting, Putting, Kicking

LEMMA StutterKeeps == IInv /\ UNCHANGED vars => IInv'
<1> SUFFICES ASSUME IInv, UNCHANGED vars PROVE IInv'
  OBVIOUS
<1>1. UNCHANGED <<api, h, new, carry, i, last, site, j, pc, call>>
  BY DEF vars, table, probe
<1>2. IsTable'
  BY <1>1 DEF IInv, IsTable
<1>3. Resizing' => Moving'
  BY <1>1 DEF IInv, Resizing, Moving, IsNew, Reached, OnPath, Walked
<1>4. ~ Resizing' => Settled'
  BY <1>1 DEF IInv, Resizing, Settled, Reached, OnPath, Walked
<1>5. Getting' /\ Putting' /\ Kicking'
  BY <1>1 DEF IInv, Getting, Putting, Kicking, OnWay, OnPath, Walked
<1> QED BY <1>1, <1>2, <1>3, <1>4, <1>5 DEF IInv

-----------------------------------------------------------------------------
(* The theorems.                                                           *)

LEMMA Invariance == Spec => []IInv
<1>1. IInv /\ [Next]_vars => IInv'
  <2> SUFFICES ASSUME IInv, [Next]_vars PROVE IInv'
    OBVIOUS
  <2>1. CASE Ask
    BY <2>1, AskKeeps
  <2>2. CASE Lookup
    BY <2>2, LookupKeeps, AnswerKeeps, RemoveKeeps DEF Lookup
  <2>3. CASE Resize
    BY <2>3, RehashKeeps, KickPastKeeps, KickIntoKeeps, RehashedKeeps DEF Resize
  <2>4. CASE Store
    BY <2>4, PutStartKeeps, PutLookKeeps, PutLoopKeeps, StoreKeeps DEF Store
  <2>5. CASE UNCHANGED vars
    BY <2>5, StutterKeeps
  <2> QED BY <2>1, <2>2, <2>3, <2>4, <2>5 DEF Next
<1> QED BY <1>1, Begins, PTL DEF Spec

LEMMA InvariantOpensPaths == IInv => PathsOpen
<1> SUFFICES ASSUME IInv, NEW b \in Live(Current.flags)
             PROVE  LET k == h.entries[b].key IN
                    \E d \in Buckets(Current.n) :
                        /\ Walked(k, Current.n, d) = b
                        /\ \A e \in 0 .. d - 1 : Current.flags[Walked(k, Current.n, e)] # "empty"
  BY DEF PathsOpen
<1> DEFINE k == h.entries[b].key
<1>1. CASE Resizing
  <2>1. Current = new /\ Reached(new.n, new.flags) /\ new.n \in Nat \ {0}
    BY <1>1, InMotion DEF Current, Moving
  <2> QED BY <2>1, PathInTable DEF Reached
<1>2. CASE ~ Resizing
  <2>1. /\ Current.n = h.n_buckets /\ Current.flags = h.flags
        /\ Reached(h.n_buckets, h.flags) /\ IsTable
    BY <1>2 DEF Current, Old, IInv, Settled
  <2>2. h.n_buckets \in Nat \ {0}
    BY <2>1 DEF IsTable, FlagsOf, Buckets, Live
  <2> QED BY <2>1, <2>2, PathInTable DEF Reached
<1> QED BY <1>1, <1>2

LEMMA InvariantTypes == IInv => TypeOK
<1> SUFFICES ASSUME IInv PROVE TypeOK
  OBVIOUS
<1>1. IsTable
  BY DEF IInv
<1>2. /\ DOMAIN Old.flags = Buckets(Old.n)
      /\ \A b \in Live(Old.flags) : h.entries[b].key \in Strings
  BY <1>1 DEF IInv, IsTable, FlagsOf, Old, Moving, Settled, Reached
<1>3. /\ DOMAIN Current.flags = Buckets(Current.n)
      /\ \A b \in Live(Current.flags) : h.entries[b].key \in Strings
  <2>1. CASE Resizing
    BY <2>1, InMotion DEF Current, Moving, Reached, IsNew, FlagsOf
  <2>2. CASE ~ Resizing
    BY <2>2, <1>2 DEF Current
  <2> QED BY <2>1, <2>2
<1>4. pc \in {"get_loop", "put_loop", "put_end"} => i \in Buckets(h.n_buckets)
  <2>1. pc \in {"put_loop", "put_end"} => i \in Buckets(h.n_buckets)
    BY <1>1, PathInTable DEF IInv, Putting, OnWay, IsTable
  <2> QED BY <2>1 DEF IInv, Getting
<1>5. pc = "kick" => i \in Buckets(new.n) /\ carry.key \in Strings
  BY InMotion, PathInTable DEF Resizing, IInv, Kicking
<1> QED BY <1>2, <1>3, <1>4, <1>5 DEF TypeOK

\* Whatever the keys, their hashes and their strides are, every entry of a table
\* is found where khash.h looks for it: no removal and no rehash, however many
\* entries it kicks out, leaves an empty bucket before it.
THEOREM EntriesFound == Spec => []PathsOpen
BY Invariance, InvariantOpensPaths, PTL

\* No call of hash.c or string.c looks at a bucket that does not exist, and every
\* live bucket holds a key.
THEOREM TablesTyped == Spec => []TypeOK
BY Invariance, InvariantTypes, PTL
=============================================================================
