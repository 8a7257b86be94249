-------------------------- MODULE MigrationHistory -------------------------
(***************************************************************************)
(* What `schemic migrate` and `schemic rollback` promise: the migrations   *)
(* form a list that only grows, and the database is at one position of it. *)
(* Applying moves the position forward by one and records that migration;  *)
(* reverting moves it back by one and erases that record.  A record is     *)
(* written iff the statements were applied (core driver.ts,                *)
(* MigrationStore.apply).                                                  *)
(***************************************************************************)
EXTENDS Naturals

CONSTANT MaxTag   (* how many migrations may ever be generated              *)

VARIABLES
  born,           (* how many migrations exist                              *)
  recorded,       (* the migrations recorded as applied                     *)
  head            (* the position the schema is at                          *)

Init ==
  /\ born = 0
  /\ recorded = {}
  /\ head = 0

Generate ==
  /\ born < MaxTag
  /\ born' = born + 1
  /\ UNCHANGED <<recorded, head>>

Apply ==
  /\ head < born
  /\ head' = head + 1
  /\ recorded' = recorded \cup {head + 1}
  /\ UNCHANGED born

Revert ==
  /\ head > 0
  /\ head' = head - 1
  /\ recorded' = recorded \ {head}
  /\ UNCHANGED born

Next == Generate \/ Apply \/ Revert

Spec == Init /\ [][Next]_<<born, recorded, head>>
=============================================================================
