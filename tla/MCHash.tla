-------------------------------- MODULE MCHash ------------------------------
(***************************************************************************)
(* Small tables for Hash: keys that meet in four, eight and sixteen        *)
(* buckets.                                                                *)
(***************************************************************************)
EXTENDS Hash, Bitwise

MCCode == [a |-> 1, b |-> 5, c |-> 9, d |-> 18, e |-> 3, f |-> 13, g |-> 20]
MCStrings == DOMAIN MCCode
Few == {"a", "b", "c", "d"}

\* __ac_inc, whose mask is the % of After
MCStride == [k \in MCStrings |-> ((MCCode[k] \div 8) ^^ (MCCode[k] * 8)) | 1]

MCCalls(interface) ==
    IF interface = "str" THEN {[op |-> "string", key |-> s] : s \in MCStrings}
    ELSE {[op |-> "set", key |-> s, val |-> v] : s \in Few, v \in {1}}
         \cup {[op |-> "set", key |-> "a", val |-> 2]}
         \cup {[op |-> "remove", key |-> s] : s \in {"a", "b", "c"}}
         \cup {[op |-> "get", key |-> "b"], [op |-> "has", key |-> "a"]}
         \cup {[op |-> "each"], [op |-> "size"]}
=============================================================================
