------------------------------ MODULE LeftFold ------------------------------
(***************************************************************************)
(* A loop over a sequence: Fold(s, ms) is s after a Step with every element*)
(* of ms.  It is the FoldLeft of SequencesExt written as a recursive       *)
(* function, about which LeftFoldProofs can reason.                        *)
(***************************************************************************)
EXTENDS Integers, Sequences

CONSTANT Step(_, _)   (* the state after an element                          *)

Fold(s, ms) ==
  LET state[i \in 0..Len(ms)] == IF i = 0 THEN s ELSE Step(state[i - 1], ms[i])
  IN  state[Len(ms)]

=============================================================================
