------------------------------ MODULE TopoOrder -----------------------------
(***************************************************************************)
(* The order in which the migration planner emits objects (orderObjects of *)
(* packages/core/src/kind/plan.ts), as a function of the dependency graph: *)
(* what the loop of module KindOrder computes.                             *)
(*                                                                         *)
(* Objects are natural numbers, numbered by the tie-break of the code:     *)
(* kind ordinal first, then `kind:name`.                                   *)
(***************************************************************************)
EXTENDS Naturals, FiniteSets, Sequences, SequencesExt

CONSTANT NoOwner        (* an object that belongs to no other               *)

ASSUME NoOwnerAssumption == NoOwner \notin Nat

(* The open cluster: the last object without an owner that was emitted.     *)
Cluster(out, owner) ==
  LET i == SelectLastInSeq(out, LAMBDA n : owner[n] = NoOwner)
  IN  IF i = 0 THEN NoOwner ELSE out[i]

(* Among the ready objects a child of the open cluster goes first, then the *)
(* lowest number.                                                           *)
Before(m, n, owner, group) ==
  LET rank(x) == IF group # NoOwner /\ owner[x] = group THEN 0 ELSE 1
  IN  \/ rank(m) < rank(n)
      \/ rank(m) = rank(n) /\ m <= n

FirstOf(ready, owner, group) ==
  CHOOSE m \in ready : \A n \in ready : Before(m, n, owner, group)

(* The objects of S whose dependencies inside S were all emitted.           *)
ReadyIn(S, deps, out) ==
  {n \in S \ Range(out) : deps[n] \cap S \subseteq Range(out)}

(* S in emission order, for an acyclic graph.                               *)
OrderOf(S, deps, owner) ==
  LET prefix[k \in 0..Cardinality(S)] ==
        IF k = 0 THEN <<>>
        ELSE LET out == prefix[k - 1]
             IN  Append(out, FirstOf(ReadyIn(S, deps, out), owner, Cluster(out, owner)))
  IN  prefix[Cardinality(S)]

(* Some object of S reaches itself along dependencies inside S: a set that  *)
(* every member leaves only into the set.                                   *)
HasCycle(S, deps) ==
  \E C \in (SUBSET S) \ {{}} : \A n \in C : deps[n] \cap C # {}
=============================================================================
