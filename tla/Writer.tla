------------------------------- MODULE Writer -------------------------------
(***************************************************************************)
(* What the pretty printer promises, without stack and counter: each call  *)
(* is given a tree and writes the text of that tree, from its first piece  *)
(* to its last.  If the tree lacks a part that has to be printed, the text *)
(* ends there and so does the process.                                     *)
(***************************************************************************)
EXTENDS Integers, SequencesExt, Ast

CONSTANTS
    Trees,
    Pages,      \* of each tree, all that has to be printed
    Texts       \* of each tree, what can be

VARIABLES
    tree,       \* the tree being printed
    page,       \* what is written of it
    state       \* "idle", "printing" or "dead"

vars == <<tree, page, state>>

Init == tree = Null /\ page = <<>> /\ state = "idle"

Begin ==
    /\ state = "idle" /\ state' = "printing"
    /\ tree' \in Trees
    /\ page' = <<>>

Write ==
    /\ state = "printing" /\ state' = "printing"
    /\ tree' = tree
    /\ IsPrefix(page, Texts[tree])
    /\ \E n \in Len(page) + 1 .. Len(Texts[tree]) : page' = SubSeq(Texts[tree], 1, n)

Finish ==
    /\ state = "printing"
    /\ tree' = tree
    /\ page' = Texts[tree]
    /\ IF Texts[tree] = Pages[tree] THEN state' = "idle" ELSE state' = "dead" /\ page' = page

Next == Begin \/ Write \/ Finish

Spec == Init /\ [][Next]_vars
=============================================================================
