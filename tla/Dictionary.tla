----------------------------- MODULE Dictionary -----------------------------
(***************************************************************************)
(* What the tables of hash.c and string.c promise, without buckets: a      *)
(* dictionary that answers one call after another.  What is not promised   *)
(* is named by `edge': asked for an absent key, ifj17_hash_has and         *)
(* ifj17_string look behind the last bucket, and what they find there need *)
(* not be an empty bucket.                                                 *)
(***************************************************************************)
EXTENDS Naturals, FiniteSets, SequencesExt

CONSTANT Calls(_)   \* the calls of an interface

VARIABLES
    api,        \* "value", the hash of hash.c, or "str", the strings of string.c
    dict,       \* the value of each key that has one
    made,       \* how many objects were made for each string
    edge,       \* "empty", "unknown" or "unmapped"
    call,       \* the call being served
    answer      \* of the last call

vars == <<api, dict, made, edge, call, answer>>

Idle    == [op |-> "idle"]
Dead    == [op |-> "dead"]
NULL    == [is |-> "NULL"]
Done    == [is |-> "done"]
Bit(b)  == [is |-> "bit", bit |-> b]
Ptr(v)  == [is |-> "ptr", ptr |-> v]
Garbage == [is |-> "garbage"]
Walk(s) == [is |-> "walk", pairs |-> s]
Count(n) == [is |-> "count", n |-> n]

Known == DOMAIN dict
Absent == call.key \notin Known
Put(k, v) == [s \in Known \cup {k} |-> IF s = k THEN v ELSE dict[s]]
Pairs == {[slot |-> s, val |-> dict[s]] : s \in Known}

Init ==
    /\ dict = <<>>
    /\ \A s \in DOMAIN made : made[s] = 0
    /\ edge = "unmapped"
    /\ call = Idle
    /\ answer = NULL

Ask ==
    /\ call = Idle
    /\ call' \in Calls(api)
    /\ answer' = NULL
    /\ UNCHANGED <<dict, made>>

Set ==
    /\ call.op = "set"
    /\ dict' = Put(call.key, call.val)
    /\ answer' = Done
    /\ UNCHANGED made

Get ==
    /\ call.op = "get"
    /\ answer' = IF Absent THEN NULL ELSE Ptr(dict[call.key])
    /\ UNCHANGED <<dict, made>>

Has ==
    /\ call.op = "has"
    /\ Absent => edge # "unmapped"
    /\ \E b \in BOOLEAN :
        /\ b # Absent \/ (Absent /\ edge = "unknown")
        /\ answer' = Bit(b)
    /\ UNCHANGED <<dict, made>>

Forget ==
    /\ call.op = "remove"
    /\ dict' = [s \in Known \ {call.key} |-> dict[s]]
    /\ answer' = Done
    /\ UNCHANGED made

\* Each pair once, in any order.
Each ==
    /\ call.op = "each"
    /\ \E s \in SetToSeqs(Pairs) : answer' = Walk(s)
    /\ UNCHANGED <<dict, made>>

Size ==
    /\ call.op = "size"
    /\ answer' = Count(Cardinality(Known))
    /\ UNCHANGED <<dict, made>>

\* One object for a string, made when it is asked for first.
String ==
    /\ call.op = "string"
    /\ \/ ~ Absent /\ answer' = Ptr(dict[call.key]) /\ UNCHANGED <<dict, made>>
       \/ LET new == [of |-> call.key, no |-> made[call.key] + 1] IN
          /\ Absent
          /\ made' = [made EXCEPT ![call.key] = @ + 1]
          /\ dict' = Put(call.key, new)
          /\ answer' = Ptr(new)
       \/ Absent /\ answer' = NULL /\ UNCHANGED <<dict, made>>
       \/ Absent /\ edge = "unknown" /\ answer' = Garbage /\ UNCHANGED <<dict, made>>

Reply ==
    /\ call' = Idle
    /\ Set \/ Get \/ Has \/ Forget \/ Each \/ Size \/ String

\* What lies behind the buckets of a table without buckets cannot be read.
Die ==
    /\ call.op = "has" /\ Absent /\ edge = "unmapped"
    /\ call' = Dead
    /\ UNCHANGED <<dict, made, answer>>

\* The edge moves when the table grows, while a call is served.
Grow ==
    /\ call.op \in {"set", "string"} /\ call' = call
    /\ edge' # edge
    /\ UNCHANGED <<dict, made, answer>>

Next == /\ api' = api
        /\ \/ (Ask \/ Reply \/ Die) /\ edge' = edge
           \/ Grow

Spec == Init /\ [][Next]_vars

\* Each call comes back, or stops the process.
Answered == call # Idle ~> call \in {Idle, Dead}
=============================================================================
