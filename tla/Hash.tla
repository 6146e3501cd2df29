-------------------------------- MODULE Hash --------------------------------
(***************************************************************************)
(* The hash tables: src/deps/khash.h as src/src/hash.c and src/src/string.c *)
(* use it.  A table is an array of buckets that are empty, deleted or live; *)
(* a key is looked for along its own path from its own first bucket.        *)
(*                                                                         *)
(* One step is one turn of a loop of khash.h, so a table is also seen half  *)
(* rehashed, where entries kick one another out of their buckets.  The hash *)
(* of a string and the stride of its path are constants.  A table never     *)
(* shrinks, because kh_put alone resizes; kh_clear is never called.         *)
(***************************************************************************)
EXTENDS Integers, FiniteSets

CONSTANTS
    Strings,    \* the keys
    Code,       \* their hashes
    Stride,     \* the strides of their paths
    Apis,       \* the interfaces looked at: "value" is hash.c, "str" is string.c
    Calls(_)    \* the calls of an interface

ASSUME CodeAssumption == Code \in [Strings -> Nat] /\ Stride \in [Strings -> Nat]
\* __ac_inc sets the last bit.
ASSUME StrideAssumption == \A k \in Strings : Stride[k] % 2 = 1
ASSUME CallsAssumption ==
    \A a \in Apis : \A c \in Calls(a) : c.op \in {"each", "size"} \/ c.key \in Strings

VARIABLES
    api,
    h,          \* the table
    new,        \* the flags and the number of buckets of the table it becomes
    carry,      \* the entry on its way to a bucket of the new table
    i, last, site,  \* the bucket looked at, the first one, a deleted one passed
    j,          \* the old bucket rehashed next
    pc,
    call, answer,   \* the call being served, and what the last one returned
    made        \* how many objects ifj17_string made for each string

table    == <<h, new, carry, j>>
probe    == <<i, last, site>>
vars     == <<api, h, new, carry, i, last, site, j, pc, call, answer, made>>

-----------------------------------------------------------------------------
Idle    == [op |-> "idle"]
Dead    == [op |-> "dead"]
NULL    == [is |-> "NULL"]
Done    == [is |-> "done"]
Bit(b)  == [is |-> "bit", bit |-> b]
Ptr(v)  == [is |-> "ptr", ptr |-> v]
Garbage == [is |-> "garbage"]
NoTable == [n |-> 0, flags |-> [b \in {} |-> "empty"]]
NoEntry == [key |-> "none", val |-> "none"]

Buckets(n)  == 0 .. n - 1
Home(k, n)  == Code[k] % n
After(k, b, n) == (b + Stride[k]) % n

\* kh_init: no buckets at all
kh_init == [n_buckets |-> 0, size |-> 0, n_occupied |-> 0, upper_bound |-> 0,
            flags |-> NoTable.flags, entries |-> [b \in {} |-> NoEntry]]

\* __ac_HASH_UPPER: 0.77 of the buckets, rounded.
\* Mutant: all of them.
UpperBoundAll(n) == n
UpperBound(n) == (77 * n + 50) \div 100

\* kroundup32, and at least four.  It is only asked for n - 1 and n + 1, n a
\* power of two or 0.
RoundUp(n) == IF n < 4 THEN 4 ELSE IF n < h.n_buckets THEN h.n_buckets ELSE 2 * h.n_buckets

Live(flags)  == {b \in DOMAIN flags : flags[b] = "live"}
Holds(b, k)  == h.flags[b] = "live" /\ h.entries[b].key = k
\* The loop over a path goes on behind other keys and deleted entries.
GoesOn(b, k) == h.flags[b] # "empty" /\ ~ Holds(b, k)

Goto(l) == pc' = l
\* The call returns and its locals are gone.
Return(v) == Goto("idle") /\ call' = Idle /\ answer' = v /\ i' = 0 /\ last' = 0 /\ site' = 0

-----------------------------------------------------------------------------
(* A call begins: all of them look their key up first, except set.         *)

Ask ==
    /\ pc = "idle" /\ call = Idle
    /\ call' \in Calls(api)
    /\ Goto(CASE call'.op = "set" -> "kh_put" [] call'.op \in {"each", "size"} -> "walk"
              [] OTHER -> "kh_get")
    /\ answer' = NULL
    /\ UNCHANGED <<api, table, probe, made>>

\* kh_get
GetStart ==
    /\ pc = "kh_get"
    /\ IF h.n_buckets = 0 THEN i' = 0 /\ last' = 0 /\ Goto("found")
       ELSE i' = Home(call.key, h.n_buckets) /\ last' = i' /\ Goto("get_loop")
    /\ UNCHANGED <<api, table, site, call, answer, made>>

GetLoop ==
    /\ pc = "get_loop" /\ GoesOn(i, call.key)
    /\ LET next == After(call.key, i, h.n_buckets) IN
       IF next = last THEN i' = h.n_buckets /\ Goto("found") ELSE i' = next /\ Goto("get_loop")
    /\ UNCHANGED <<api, table, last, site, call, answer, made>>

GetEnd ==
    /\ pc = "get_loop" /\ ~ GoesOn(i, call.key)
    /\ i' = IF h.flags[i] = "live" THEN i ELSE h.n_buckets
    /\ Goto("found")
    /\ UNCHANGED <<api, table, last, site, call, answer, made>>

Found == i # h.n_buckets

\* kh_exist of the end of the table: up to eight buckets the word of flags has
\* room for one more, which is never filled; from sixteen on the word behind
\* the flags is read, and without buckets there are no flags.
MayExist(b) ==
    IF Found \/ h.n_buckets < 16 THEN b = Found ELSE b \in BOOLEAN

hash_get ==
    /\ pc = "found" /\ call.op = "get"
    /\ Return(IF Found THEN Ptr(h.entries[i].val) ELSE NULL)
    /\ UNCHANGED <<api, table, made>>

hash_has ==
    /\ pc = "found" /\ call.op = "has"
    /\ IF h.n_buckets = 0
       THEN Goto("dead") /\ call' = Dead /\ UNCHANGED <<answer, probe>>
       ELSE \E b \in BOOLEAN : MayExist(b) /\ Return(Bit(b))
    /\ UNCHANGED <<api, table, made>>

\* Mutant: the bucket is emptied.
kh_delEmpty(b) ==
    [h EXCEPT !.flags[b] = "empty", !.size = @ - 1, !.n_occupied = @ - 1]
kh_del(b) == [h EXCEPT !.flags[b] = "deleted", !.size = @ - 1]

hash_remove ==
    /\ pc = "found" /\ call.op = "remove"
    /\ h' = IF Found THEN kh_del(i) ELSE h
    /\ Return(Done)
    /\ UNCHANGED <<api, new, carry, j, made>>

\* ifj17_hash_each, _each_slot, _each_val: the live buckets from the first to
\* the last.
Nth(b, s) == Cardinality({a \in s : a <= b})
hash_each ==
    /\ pc = "walk" /\ call.op = "each"
    /\ Return([is |-> "walk",
               pairs |-> [n \in 1 .. Cardinality(Live(h.flags)) |->
                   LET b == CHOOSE b \in Live(h.flags) : Nth(b, Live(h.flags)) = n
                   IN  [slot |-> h.entries[b].key, val |-> h.entries[b].val]]])
    /\ UNCHANGED <<api, table, made>>

hash_size ==
    /\ pc = "walk" /\ call.op = "size"
    /\ Return([is |-> "count", n |-> h.size])
    /\ UNCHANGED <<api, table, made>>

\* ifj17_string: the object there is, or what is read behind the table ...
string_exists ==
    /\ pc = "found" /\ call.op = "string" /\ h.size # 0 /\ MayExist(TRUE)
    /\ Return(IF Found THEN Ptr(h.entries[i].val) ELSE Garbage)
    /\ UNCHANGED <<api, table, made>>

\* ... or a new one, if there is memory for its text.
string_new ==
    /\ pc = "found" /\ call.op = "string" /\ (h.size # 0 => MayExist(FALSE))
    /\ \/ Goto("kh_put") /\ UNCHANGED <<probe, call, answer>>
       \/ Return(NULL)
    /\ UNCHANGED <<api, table, made>>

-----------------------------------------------------------------------------
(* kh_put and kh_resize.                                                   *)

\* Half of the occupied buckets are deleted: the table is cleaned; otherwise it
\* is doubled.
NewSize == RoundUp(IF h.n_buckets > 2 * h.size THEN h.n_buckets - 1 ELSE h.n_buckets + 1)

PutStart ==
    /\ pc = "kh_put"
    /\ IF h.n_occupied >= h.upper_bound /\ h.size < UpperBound(NewSize)
       THEN /\ new' = [n |-> NewSize, flags |-> [b \in Buckets(NewSize) |-> "empty"]]
            /\ h' = [h EXCEPT !.entries =
                        [b \in Buckets(NewSize) |-> IF b < h.n_buckets THEN @[b] ELSE NoEntry]]
            /\ Goto("rehash")
       ELSE Goto("put_start") /\ UNCHANGED <<h, new>>
    /\ UNCHANGED <<api, carry, j, probe, call, answer, made>>

\* The next live entry of the old table is taken out.
Rehash ==
    /\ pc = "rehash" /\ j # h.n_buckets
    /\ IF h.flags[j] = "live"
       THEN /\ carry' = h.entries[j]
            /\ h' = [h EXCEPT !.flags[j] = "deleted"]
            /\ i' = Home(carry'.key, new.n)
            /\ Goto("kick") /\ UNCHANGED j
       ELSE j' = j + 1 /\ UNCHANGED <<carry, h, i, pc>>
    /\ UNCHANGED <<api, new, last, site, call, answer, made>>

\* Mutant: the path is begun again.
KickPastHome ==
    /\ pc = "kick" /\ new.flags[i] # "empty"
    /\ i' = Home(carry.key, new.n)
    /\ UNCHANGED <<api, table, last, site, pc, call, answer, made>>

KickPast ==
    /\ pc = "kick" /\ new.flags[i] # "empty"
    /\ i' = After(carry.key, i, new.n)
    /\ UNCHANGED <<api, table, last, site, pc, call, answer, made>>

\* Mutant: what is in the bucket is overwritten.
KickIntoOver ==
    /\ pc = "kick" /\ new.flags[i] = "empty"
    /\ new' = [new EXCEPT !.flags[i] = "live"]
    /\ h' = [h EXCEPT !.entries[i] = carry]
    /\ carry' = NoEntry /\ j' = j + 1 /\ Goto("rehash")
    /\ UNCHANGED <<api, i, last, site, call, answer, made>>

\* An entry not rehashed yet is kicked out of the bucket and goes on instead.
KickInto ==
    /\ pc = "kick" /\ new.flags[i] = "empty"
    /\ new' = [new EXCEPT !.flags[i] = "live"]
    /\ IF i < h.n_buckets /\ h.flags[i] = "live"
       THEN /\ carry' = h.entries[i]
            /\ h' = [h EXCEPT !.entries[i] = carry, !.flags[i] = "deleted"]
            /\ i' = Home(carry'.key, new.n)
            /\ UNCHANGED <<j, pc>>
       ELSE /\ h' = [h EXCEPT !.entries[i] = carry]
            /\ carry' = NoEntry /\ j' = j + 1 /\ Goto("rehash") /\ UNCHANGED i
    /\ UNCHANGED <<api, last, site, call, answer, made>>

Rehashed ==
    /\ pc = "rehash" /\ j = h.n_buckets
    /\ h' = [h EXCEPT !.flags = new.flags, !.n_buckets = new.n, !.n_occupied = h.size,
                      !.upper_bound = UpperBound(new.n)]
    /\ new' = NoTable /\ j' = 0 /\ Goto("put_start")
    /\ UNCHANGED <<api, carry, probe, call, answer, made>>

PutLook ==
    /\ pc = "put_start"
    /\ i' = Home(call.key, h.n_buckets) /\ last' = i' /\ site' = h.n_buckets
    /\ Goto(IF h.flags[i'] = "empty" THEN "put_end" ELSE "put_loop")
    /\ UNCHANGED <<api, table, call, answer, made>>

\* The last deleted bucket on the path is kept in mind.
PutLoop ==
    /\ pc = "put_loop" /\ GoesOn(i, call.key)
    /\ site' = IF h.flags[i] = "deleted" THEN i ELSE site
    /\ LET next == After(call.key, i, h.n_buckets) IN
       IF next = last THEN i' = (IF site' = h.n_buckets THEN next ELSE site') /\ Goto("put_end")
       ELSE i' = next /\ UNCHANGED pc
    /\ UNCHANGED <<api, table, last, call, answer, made>>

PutFound ==
    /\ pc = "put_loop" /\ ~ GoesOn(i, call.key)
    /\ i' = IF h.flags[i] = "empty" /\ site # h.n_buckets THEN site ELSE i
    /\ Goto("put_end")
    /\ UNCHANGED <<api, table, last, site, call, answer, made>>

\* Mutant: the value of a key that is there stays.
OccupyFirst(b, v) ==
    [h EXCEPT !.flags[b] = "live",
              !.entries[b] = IF h.flags[b] = "live" THEN @ ELSE [key |-> call.key, val |-> v],
              !.size = IF h.flags[b] = "live" THEN @ ELSE @ + 1,
              !.n_occupied = IF h.flags[b] = "empty" THEN @ + 1 ELSE @]
\* The bucket becomes live, and its key is written unless it was.
Occupy(b, v) ==
    [h EXCEPT !.flags[b] = "live",
              !.entries[b] = [key |-> IF h.flags[b] = "live" THEN @.key ELSE call.key, val |-> v],
              !.size = IF h.flags[b] = "live" THEN @ ELSE @ + 1,
              !.n_occupied = IF h.flags[b] = "empty" THEN @ + 1 ELSE @]

hash_set ==
    /\ pc = "put_end" /\ call.op = "set"
    /\ h' = Occupy(i, call.val)
    /\ Return(Done)
    /\ UNCHANGED <<api, new, carry, j, made>>

\* The key the code stores is the caller's pointer (string.c:36), not the copy it
\* has just made: it is a key only as long as the caller leaves its buffer alone.
\* Here a key is its letters, so a buffer that is changed or freed is left out.
string_put ==
    /\ pc = "put_end" /\ call.op = "string"
    /\ LET self == [of |-> call.key, no |-> made[call.key] + 1] IN
       /\ made' = [made EXCEPT ![call.key] = @ + 1]
       /\ h' = Occupy(i, self)
       /\ Return(Ptr(self))
    /\ UNCHANGED <<api, new, carry, j>>

-----------------------------------------------------------------------------
Init ==
    /\ api \in Apis
    /\ h = kh_init
    /\ new = NoTable /\ carry = NoEntry /\ j = 0
    /\ i = 0 /\ last = 0 /\ site = 0
    /\ pc = "idle" /\ call = Idle /\ answer = NULL
    /\ made = [s \in Strings |-> 0]

Lookup == GetStart \/ GetLoop \/ GetEnd \/ hash_get \/ hash_has \/ hash_remove
          \/ hash_each \/ hash_size \/ string_exists \/ string_new
Resize == Rehash \/ KickPast \/ KickInto \/ Rehashed
Store  == PutStart \/ PutLook \/ PutLoop \/ PutFound \/ hash_set \/ string_put

Next == Ask \/ Lookup \/ Resize \/ Store

Spec == Init /\ [][Next]_vars

\* A call that was made runs on, as C does; nobody needs to make one.
FairSpec == Spec /\ WF_vars(Lookup \/ Resize \/ Store)

-----------------------------------------------------------------------------
(* Properties.                                                             *)

Resizing == pc \in {"rehash", "kick"}
Old      == [n |-> h.n_buckets, flags |-> h.flags]
Current  == IF Resizing THEN new ELSE Old

\* A bucket that is looked at exists, and a live one holds a key.
TypeOK ==
    /\ \A t \in {Old, Current} : /\ DOMAIN t.flags = Buckets(t.n)
                        /\ \A b \in Live(t.flags) : h.entries[b].key \in Strings
    /\ pc \in {"get_loop", "put_loop", "put_end"} => i \in Buckets(h.n_buckets)
    /\ pc = "kick" => i \in Buckets(new.n) /\ carry.key \in Strings

\* The entries of the table, in whichever of the two sets of flags they are live,
\* and the one that is on its way.
Carried  == IF pc = "kick" THEN {carry} ELSE {}
Homed    == Live(h.flags) \cup Live(new.flags)
Contents == {h.entries[b] : b \in Homed} \cup Carried

\* No key is in two buckets, neither of the table nor half way from the old one
\* to the new one, whatever was removed, put back and kicked out before: the size
\* is the number of keys, and deleted buckets are not forgotten.
KeysOnce ==
    /\ Live(h.flags) \cap Live(new.flags) = {}
    /\ Cardinality({e.key : e \in Contents}) = Cardinality(Homed) + Cardinality(Carried)
    /\ h.size = Cardinality(Homed) + Cardinality(Carried)
    /\ ~ Resizing => h.n_occupied = Cardinality({b \in Buckets(h.n_buckets) : h.flags[b] # "empty"})

\* The bucket d steps down the path of k.
Walked(k, n, d) == (Code[k] + d * Stride[k]) % n

\* Every entry can be found: no bucket on the path before it is empty, so that a
\* removal in between, or a rehash, cuts no path.
PathsOpen ==
    \A b \in Live(Current.flags) :
        LET k == h.entries[b].key IN
        \E d \in Buckets(Current.n) :
            /\ Walked(k, Current.n, d) = b
            /\ \A e \in 0 .. d - 1 : Current.flags[Walked(k, Current.n, e)] # "empty"

\* A path always ends: a table has an empty bucket left, and so has the one it is
\* rehashed into; so kh_put never comes back to its first bucket and takes the
\* bucket of another key, and a resize is never too small to be done.
RoomLeft ==
    /\ \A t \in {Old, Current} : t.n # 0 => \E b \in Buckets(t.n) : t.flags[b] = "empty"
    /\ pc = "put_end" /\ h.flags[i] = "live" => Holds(i, call.key)
    /\ pc = "put_start" => h.n_occupied < h.upper_bound

-----------------------------------------------------------------------------
(* What a table promises.                                                  *)

\* The value of each key; and what lies behind the buckets.
Mapped(c) == [s \in {e.key : e \in c} |-> (CHOOSE e \in c : e.key = s).val]
AsMap     == Mapped(Contents)
Edge      == IF h.n_buckets = 0 THEN "unmapped" ELSE IF h.n_buckets < 16 THEN "empty" ELSE "unknown"

Promise == INSTANCE Dictionary WITH dict <- AsMap, edge <- Edge

\* Each call is answered, as a dictionary that remembers the last value of each
\* key and one object for each string answers it, and a resize changes nothing a
\* caller could see.
KeepsPromise == Promise!Spec

\* No path is walked for ever, and no entry kicked about for ever.
Answers == Promise!Answered
=============================================================================
