------------------------------ MODULE KindOrder -----------------------------
(***************************************************************************)
(* The topological sort of the migration planner: orderObjects             *)
(* (packages/core/src/kind/plan.ts).  Each iteration of its loop is a step.*)
(*                                                                         *)
(* The code identifies a node by `kind:name` (refKey) only: two nodes of   *)
(* one kind and name, such as the equally named events of two tables, have *)
(* the same key.  Key gives each node its key; it is the identity when     *)
(* names are unique across owners.                                         *)
(***************************************************************************)
EXTENDS TopoOrder

CONSTANTS
  Nodes,        (* the objects to order, numbered by the tie-break          *)
  Key,          (* the key of each node: the lowest node of that key        *)
  External      (* keys that are not in the set: an object may depend on    *)
                (* something this diff does not touch                       *)

Keys == {Key[n] : n \in Nodes}

ASSUME NodesAssumption == IsFiniteSet(Nodes) /\ Nodes \subseteq Nat
ASSUME KeyAssumption == Key \in [Nodes -> Nodes] /\ External \cap Nodes = {}

VARIABLES
  deps,         (* the keys each node must come after                       *)
  owner,        (* the key of the object it is clustered next to, if any    *)
  indeg,        (* per key: how many of its dependencies are not done       *)
  done,         (* the keys that were emitted                               *)
  out,          (* the nodes in emission order                              *)
  group,        (* the open cluster                                         *)
  result        (* "running", "sorted" or "cycle" (the named error)         *)

input == <<deps, owner>>
sortVars == <<deps, owner, indeg, done, out, group, result>>

-----------------------------------------------------------------------------
(* The edges that constrain the set: dependencies on keys that are in it.   *)
Edges == {e \in Nodes \X Keys : e[2] \in deps[e[1]]}

(* Mutant of InDegree: a dependency outside the set is counted as well.     *)
InDegree_External(k) ==
  Cardinality({e \in Nodes \X (Keys \cup External) : e[2] \in deps[e[1]] /\ Key[e[1]] = k})

(* Each node counts one for each of its edges.                              *)
InDegree(k) == Cardinality({e \in Edges : Key[e[1]] = k})

(* Owners have no owner, and two nodes of one key have different owners.    *)
OwnersTellApart(f) ==
  /\ \A m, n \in Nodes : f[n] = Key[m] => f[m] = NoOwner
  /\ \A m, n \in Nodes :
       m # n /\ Key[m] = Key[n] => f[m] # f[n] /\ NoOwner \notin {f[m], f[n]}

SortInit ==
  /\ deps \in [Nodes -> SUBSET (Keys \cup External)]
  /\ owner \in {f \in [Nodes -> Keys \cup {NoOwner}] : OwnersTellApart(f)}
  /\ indeg = [k \in Keys |-> InDegree(k)]
  /\ done = {}
  /\ out = <<>>
  /\ group = NoOwner
  /\ result = "running"

(* Mutant of Ready: the counters are not looked at.                         *)
Ready_Counted == {n \in Nodes : Key[n] \notin done}

(* The nodes that were not emitted and wait for nothing.                    *)
Ready == {n \in Nodes : Key[n] \notin done /\ indeg[Key[n]] = 0}

(* The best ready node is emitted and its dependents wait for one less.     *)
Emit(n) ==
  /\ result = "running"
  /\ n \in Ready
  /\ \A m \in Ready : Before(n, m, owner, group)
  /\ out' = Append(out, n)
  /\ done' = done \cup {Key[n]}
  /\ group' = IF owner[n] = NoOwner THEN Key[n] ELSE group
  /\ indeg' = [k \in Keys |->
                 indeg[k] - Cardinality({e \in Edges : e[2] = Key[n] /\ Key[e[1]] = k})]
  /\ UNCHANGED <<input, result>>

(* Nothing is ready and nodes are left: "dependency cycle among: ...".      *)
Throw ==
  /\ result = "running"
  /\ Len(out) < Cardinality(Nodes)
  /\ Ready = {}
  /\ result' = "cycle"
  /\ UNCHANGED <<input, indeg, done, out, group>>

(* Every node was emitted.                                                  *)
Return ==
  /\ result = "running"
  /\ Len(out) = Cardinality(Nodes)
  /\ result' = "sorted"
  /\ UNCHANGED <<input, indeg, done, out, group>>

SortNext == (\E n \in Nodes : Emit(n)) \/ Throw \/ Return

-----------------------------------------------------------------------------
(* Every variable has its type.                                             *)
SortTypeOK ==
  /\ deps \in [Nodes -> SUBSET (Keys \cup External)]
  /\ owner \in [Nodes -> Keys \cup {NoOwner}]
  /\ indeg \in [Keys -> Nat]
  /\ done \subseteq Keys
  /\ out \in Seq(Nodes)
  /\ group \in Keys \cup {NoOwner}
  /\ result \in {"running", "sorted", "cycle"}

(* An object is emitted after everything in the set it depends on           *)
(* (plan.ts: correctness always wins over the presentation tweaks).         *)
DepsFirst ==
  \A i \in DOMAIN out : \A d \in deps[out[i]] \cap Keys :
    \E j \in 1..(i - 1) : Key[out[j]] = d

(* The nodes a node must come after.                                        *)
NodeDeps == [n \in Nodes |-> {m \in Nodes : Key[m] \in deps[n]}]

(* The sort ends: with the named error when the graph has a cycle, and else *)
(* with every object once, in the order of the reference definition the     *)
(* scripts of a migration are planned with (module KindPlan).               *)
SortEnds ==
  result = "running" ~>
    IF HasCycle(Nodes, NodeDeps) THEN result = "cycle"
    ELSE result = "sorted" /\ out = OrderOf(Nodes, NodeDeps, owner)
=============================================================================
