-------------------------------- MODULE Page -------------------------------
(***************************************************************************)
(* What the pretty printer prints, piece by piece: parentheses with the    *)
(* word behind them, words, line ends and indentation.  Spaces and quotes  *)
(* between words are left out.                                             *)
(***************************************************************************)
EXTENDS Naturals, SequencesExt

Open(s) == [k |-> "open", s |-> s]      \* "(s"
Close   == [k |-> "close", s |-> ")"]
Word(s) == [k |-> "word", s |-> s]
Num(n)  == [k |-> "num", n |-> n]
NL      == [k |-> "nl", s |-> "nl"]
Pad     == [k |-> "pad", s |-> "  "]    \* one level of indentation
Pads(d) == [j \in 1 .. d |-> Pad]

\* What F(index, element) makes of each element of a vector, one behind the other.
Each(vec, F(_, _)) == FlattenSeq([i \in DOMAIN vec |-> F(i, vec[i])])
=============================================================================
