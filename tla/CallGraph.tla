------------------------------ MODULE CallGraph ------------------------------
(* Which connections a resolver reaches through ctx.connections.              *)
EXTENDS FiniteSets

(* The connections reached from n, n included; uses[m] are those that the     *)
(* resolver of m queries.                                                     *)
Reachable(n, uses) ==
  {m \in DOMAIN uses : \A S \in SUBSET DOMAIN uses :
     n \in S /\ (\A k \in S : uses[k] \subseteq S) => m \in S}

(* Some resolver reached from n ends up in itself.                            *)
ReachesCycle(n, uses) ==
  \E m \in Reachable(n, uses), k \in DOMAIN uses :
    k \in uses[m] /\ m \in Reachable(k, uses)

(* n itself is on such a cycle.                                               *)
OnCycle(n, uses) == \E k \in uses[n] : n \in Reachable(k, uses)
=============================================================================
