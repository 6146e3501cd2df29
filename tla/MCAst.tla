-------------------------------- MODULE MCAst -------------------------------
(***************************************************************************)
(* All the nodes of a set of small trees, and their heights.               *)
(***************************************************************************)
EXTENDS Integers, FiniteSetsExt, Ast

\* The trees and the nodes below them, level by level, down to a depth that no
\* tree here reaches.
NodesOf(trees) ==
    LET down[d \in 0 .. 12] ==
            IF d = 0 THEN [all |-> trees, last |-> trees]
            ELSE LET up   == down[d - 1]
                     next == UNION {Children(n) : n \in up.last}
                 IN  [all |-> up.all \cup next, last |-> next]
    IN  down[12].all

\* How deep each of the nodes is.
HeightsOf(nodes) ==
    LET height[n \in nodes] == 1 + Max({0} \cup {height[m] : m \in Children(n)})
    IN  [n \in nodes |-> height[n]]
=============================================================================
