---------------------------- MODULE PlannerProofs ----------------------------
(***************************************************************************)
(* The planners: the sort, the migrations and the pushes, for every set of *)
(* objects and any schemas.                                                *)
(*                                                                         *)
(* The sort.  Its code looks at the counters only.  What makes them mean   *)
(* something is that each one is the number of edges to keys that are not  *)
(* done yet, which holds because a key is done only once: an object whose  *)
(* key is done already is not emitted at all.                              *)
(*                                                                         *)
(* Migrations arrive (MigrationsArriveAlways).  While a script runs, the   *)
(* database is the old state with some objects A as they are in the new    *)
(* one (Mix), and maybe one dropped to be created again (Gap).  The order  *)
(* makes A complete at every point: what is new has the new objects it     *)
(* needs, and what is old needs nothing that is gone.  In the planned      *)
(* cases everything then has what it needs, so that statements are         *)
(* accepted and a cascade takes nothing along.                             *)
(*                                                                         *)
(* Where a used column goes, a cascade may take an object along (Loose).   *)
(* Either all that is as it will be, or is to be changed in place, is      *)
(* still there (Kept), or an object that is to be changed in place is gone *)
(* (Doomed): its change is refused, so that `up` does not get to its end.  *)
(*                                                                         *)
(* A push does what it is asked to, whatever the database holds: the drops *)
(* of its script run in any order, the definitions of what is new with the *)
(* tables first, and then the changes, and the last state is the schema    *)
(* (UpArrives).  Without its drops a script defines what is new or changed *)
(* and touches nothing else (KeptArrives).                                 *)
(***************************************************************************)
EXTENDS Planner, FiniteSetTheorems, SequenceTheorems, TLAPS

Running   == INSTANCE LeftFoldProofs WITH Step <- After
Creating  == INSTANCE LeftFoldProofs WITH Step <- CreateOne
Undoing   == INSTANCE LeftFoldProofs WITH Step <- UndoOne
Choosing  == INSTANCE LeftFoldProofs WITH Step <- Extended
Pushing   == INSTANCE LeftFoldProofs WITH Step <- Push!After
Expanding == INSTANCE LeftFoldProofs WITH Step <- Push!ChangeUp
Keeping   == INSTANCE LeftFoldProofs WITH Step <- Push!NotRemoving

-----------------------------------------------------------------------------
(* The edges the objects of a key still wait for.                           *)
Waiting(k) == {e \in Edges : Key[e[1]] = k /\ e[2] \notin done}

CountersInv == \A k \in Keys : indeg[k] = Cardinality(Waiting(k))
DoneInv == \A d \in done : \E j \in DOMAIN out : Key[out[j]] = d

SortInv == SortTypeOK /\ CountersInv /\ DoneInv /\ DepsFirst

-----------------------------------------------------------------------------
(* There are finitely many keys.                                            *)
LEMMA KeysAreNodes == IsFiniteSet(Keys) /\ Keys \subseteq Nodes
<1>1. Keys \subseteq Nodes
  BY KeyAssumption DEF Keys
<1>2. QED
  BY <1>1, NodesAssumption, FS_Subset

(* There are finitely many edges, each from an object to a key.             *)
LEMMA EdgesAreFinite == IsFiniteSet(Edges) /\ Edges \subseteq Nodes \X Keys
<1>1. IsFiniteSet(Nodes \X Keys)
  BY KeysAreNodes, NodesAssumption, FS_Product
<1>2. Edges \subseteq Nodes \X Keys
  BY DEF Edges
<1>3. QED
  BY <1>1, <1>2, FS_Subset

(* When a key is done, its edges are taken off the edges waited for.        *)
CountedOff(k, d) == {e \in Edges : e[2] = d /\ Key[e[1]] = k}
StillWaiting(k, d) == {e \in Edges : Key[e[1]] = k /\ e[2] \notin done \cup {d}}

(* When a key is done, the edges to it are no longer waited for: the others *)
(* are left.                                                                *)
LEMMA OneKeyDone ==
  ASSUME NEW k, NEW d, d \notin done
  PROVE  /\ Cardinality(StillWaiting(k, d)) \in Nat
         /\ Cardinality(StillWaiting(k, d)) = Cardinality(Waiting(k)) - Cardinality(CountedOff(k, d))
<1> DEFINE gone == CountedOff(k, d)
           left == StillWaiting(k, d)
<1>1. IsFiniteSet(Waiting(k)) /\ IsFiniteSet(gone) /\ IsFiniteSet(left)
  <2>1. Waiting(k) \subseteq Edges /\ gone \subseteq Edges /\ left \subseteq Edges
    BY DEF Waiting, CountedOff, StillWaiting
  <2>2. QED
    BY <2>1, EdgesAreFinite, FS_Subset
<1>2. left = Waiting(k) \ gone /\ Waiting(k) \cap gone = gone
  BY DEF Waiting, CountedOff, StillWaiting
<1>3. Cardinality(left) = Cardinality(Waiting(k)) - Cardinality(Waiting(k) \cap gone)
  BY <1>1, <1>2, FS_Difference
<1>4. QED
  BY <1>1, <1>2, <1>3, FS_CardinalityType

-----------------------------------------------------------------------------
(* The counters are right when the loop starts.                             *)
LEMMA SortStarts == SortInit => SortInv
<1> SUFFICES ASSUME SortInit PROVE SortInv
  OBVIOUS
<1>1. \A k \in Keys : indeg[k] = Cardinality(Waiting(k)) /\ indeg[k] \in Nat
  <2> SUFFICES ASSUME NEW k \in Keys
               PROVE  indeg[k] = Cardinality(Waiting(k)) /\ indeg[k] \in Nat
    OBVIOUS
  <2>1. Waiting(k) = {e \in Edges : Key[e[1]] = k}
    BY DEF SortInit, Waiting
  <2>2. IsFiniteSet(Waiting(k))
    BY <2>1, EdgesAreFinite, FS_Subset
  <2>3. QED
    BY <2>1, <2>2, FS_CardinalityType DEF SortInit, InDegree
<1>2. SortTypeOK
  <2>1. indeg \in [Keys -> Nat]
    BY <1>1 DEF SortInit
  <2>2. owner \in [Nodes -> Keys \cup {NoOwner}]
    BY DEF SortInit
  <2>3. QED
    BY <2>1, <2>2 DEF SortInit, SortTypeOK
<1>3. DoneInv /\ DepsFirst
  BY DEF SortInit, DoneInv, DepsFirst
<1>4. QED
  BY <1>1, <1>2, <1>3 DEF SortInv, CountersInv

(* An iteration emits one object and counts down those that wait for its    *)
(* key.                                                                     *)
LEMMA SortEmits ==
  ASSUME SortInv, NEW n \in Nodes, Emit(n)
  PROVE  SortInv'
<1> USE DEF SortInv
<1>1. /\ n \in Nodes /\ Key[n] \in Keys /\ Key[n] \notin done
      /\ out' = Append(out, n) /\ done' = done \cup {Key[n]}
      /\ deps' = deps /\ owner' = owner /\ result' = result
      /\ out \in Seq(Nodes)
  BY KeyAssumption DEF Emit, Ready, input, SortTypeOK, Keys
<1>2. Edges' = Edges
  BY <1>1 DEF Edges
<1>3. \A k \in Keys : indeg'[k] = Cardinality(Waiting(k)') /\ indeg'[k] \in Nat
  <2> SUFFICES ASSUME NEW k \in Keys
               PROVE  indeg'[k] = Cardinality(Waiting(k)') /\ indeg'[k] \in Nat
    OBVIOUS
  <2>1. Waiting(k)' = StillWaiting(k, Key[n])
    BY <1>1, <1>2 DEF Waiting, StillWaiting
  <2>2. indeg'[k] = Cardinality(Waiting(k)) - Cardinality(CountedOff(k, Key[n]))
    BY DEF Emit, CountersInv, CountedOff
  <2>3. /\ Cardinality(StillWaiting(k, Key[n])) \in Nat
        /\ Cardinality(StillWaiting(k, Key[n])) = Cardinality(Waiting(k)) - Cardinality(CountedOff(k, Key[n]))
    BY <1>1, OneKeyDone
  <2>4. QED
    BY <2>1, <2>2, <2>3
<1>4. SortTypeOK'
  <2>1. indeg' \in [Keys -> Nat]
    BY <1>3 DEF Emit
  <2>2. out' \in Seq(Nodes)
    BY <1>1
  <2>3. done' \subseteq Keys /\ group' \in Keys \cup {NoOwner}
    BY <1>1 DEF Emit, SortTypeOK
  <2>4. QED
    BY <1>1, <2>1, <2>2, <2>3 DEF SortTypeOK
<1>5. /\ DOMAIN out' = 1..(Len(out) + 1) /\ DOMAIN out = 1..Len(out) /\ Len(out) \in Nat
      /\ out'[Len(out) + 1] = n /\ \A i \in DOMAIN out : out'[i] = out[i]
  BY <1>1
<1>6. DoneInv'
  <2> SUFFICES ASSUME NEW d \in done'
               PROVE  \E j \in DOMAIN out' : Key[out'[j]] = d
    BY DEF DoneInv
  <2>1. CASE d \in done
    BY <1>5, <2>1 DEF DoneInv
  <2>2. CASE d = Key[n]
    BY <1>5, <2>2
  <2>3. QED
    BY <1>1, <2>1, <2>2
(* The counter of n is zero, so all it depends on is done.                  *)
<1>7. deps[n] \cap Keys \subseteq done
  <2>1. Cardinality(Waiting(Key[n])) = 0
    BY <1>1 DEF Emit, Ready, CountersInv
  <2>2. IsFiniteSet(Waiting(Key[n]))
    BY EdgesAreFinite, FS_Subset DEF Waiting
  <2>3. Waiting(Key[n]) = {}
    BY <2>1, <2>2, FS_EmptySet
  <2>4. ASSUME NEW d \in deps[n] \cap Keys, d \notin done
        PROVE  <<n, d>> \in Waiting(Key[n])
    BY <1>1, <2>4 DEF Waiting, Edges
  <2>5. QED
    BY <2>3, <2>4
<1>8. DepsFirst'
  <2> SUFFICES ASSUME NEW i \in DOMAIN out', NEW d \in deps[out'[i]] \cap Keys
               PROVE  \E j \in 1..(i - 1) : Key[out'[j]] = d
    BY <1>1 DEF DepsFirst
  <2>1. CASE i \in DOMAIN out
    <3>1. PICK j \in 1..(i - 1) : Key[out[j]] = d
      BY <1>5, <2>1 DEF DepsFirst
    <3>2. j \in DOMAIN out
      BY <1>5, <2>1
    <3>3. QED
      BY <1>5, <3>1, <3>2
  <2>2. CASE i = Len(out) + 1
    <3>1. d \in done
      BY <1>5, <1>7, <2>2
    <3>2. PICK j \in DOMAIN out : Key[out[j]] = d
      BY <3>1 DEF DoneInv
    <3>3. j \in 1..(i - 1)
      BY <1>5, <2>2
    <3>4. QED
      BY <1>5, <3>2, <3>3
  <2>3. QED
    BY <1>5, <2>1, <2>2
<1>9. QED
  BY <1>3, <1>4, <1>6, <1>8 DEF CountersInv

(* Each step of the loop keeps the counters right.                          *)
LEMMA SortGoesOn == SortInv /\ [SortNext]_sortVars => SortInv'
<1> SUFFICES ASSUME SortInv, [SortNext]_sortVars PROVE SortInv'
  OBVIOUS
<1>1. ASSUME NEW n \in Nodes, Emit(n) PROVE SortInv'
  BY <1>1, SortEmits
<1>2. CASE Throw
  BY <1>2 DEF Throw, SortInv, SortTypeOK, CountersInv, DoneInv, DepsFirst, Waiting, Edges, input
<1>3. CASE Return
  BY <1>3 DEF Return, SortInv, SortTypeOK, CountersInv, DoneInv, DepsFirst, Waiting, Edges, input
<1>4. CASE UNCHANGED sortVars
  BY <1>4 DEF sortVars, SortInv, SortTypeOK, CountersInv, DoneInv, DepsFirst, Waiting, Edges
<1>5. QED
  BY <1>1, <1>2, <1>3, <1>4 DEF SortNext

-----------------------------------------------------------------------------
(* A behaviour without a sort has emitted nothing.                          *)
NothingSorted == result = "none" /\ out = <<>>

(* The counters of the loop in orderObjects are right at every iteration:   *)
(* each is the number of edges to keys that were not emitted.               *)
THEOREM CountersAreRight == Spec => [](NothingSorted \/ SortInv)
<1>1. ASSUME \/ SortInit /\ NoPlan /\ NoPush
             \/ PlanInit /\ NoSort /\ NoPush
             \/ Push!Init /\ NoSort /\ NoPlan
      PROVE  NothingSorted \/ SortInv
  BY <1>1, SortStarts DEF NoSort, NothingSorted
<1>2. ASSUME NothingSorted \/ SortInv, [SortStep \/ PlanStep \/ PushStep]_allVars
      PROVE  (NothingSorted \/ SortInv)'
  <2>1. CASE NothingSorted
    <3>1. ~SortNext
      BY <2>1 DEF NothingSorted, SortNext, Emit, Throw, Return
    <3>2. UNCHANGED sortVars
      BY <1>2, <3>1 DEF SortStep, PlanStep, PushStep, allVars
    <3> QED BY <2>1, <3>2 DEF NothingSorted, sortVars
  <2>2. CASE SortInv
    <3>1. [SortNext]_sortVars
      BY <1>2 DEF SortStep, PlanStep, PushStep, allVars
    <3> QED BY <2>2, <3>1, SortGoesOn
  <2> QED BY <1>2, <2>1, <2>2
<1> QED BY <1>1, <1>2, PTL DEF Spec

(* Whatever the graph, the owners and the tie-breaks are, no object is      *)
(* emitted before what it depends on (orderObjects, plan.ts).               *)
THEOREM DependenciesComeFirst == Spec => []DepsFirst
<1>1. NothingSorted \/ SortInv => DepsFirst
  BY DEF NothingSorted, SortInv, DepsFirst
<1> QED BY <1>1, CountersAreRight, PTL

-----------------------------------------------------------------------------
(* The order.  One that lists S has each element once.                      *)
Lists(order, S) ==
  /\ order \in Seq(S)
  /\ \A i, j \in DOMAIN order : i # j => order[i] # order[j]
  /\ \A x \in S : \E i \in DOMAIN order : order[i] = x

(* The first i elements of an order.                                        *)
First(order, i) == {order[j] : j \in 1..i}

(* What is emitted so far: each once, after what it depends on, and what    *)
(* depends on nothing before what has a higher number and no owner.         *)
Emitted(S, f, outs) ==
  /\ outs \in Seq(S)
  /\ \A i, j \in DOMAIN outs : i # j => outs[i] # outs[j]
  /\ \A i \in DOMAIN outs :
       /\ f[outs[i]] \cap S \subseteq First(outs, i - 1)
       /\ Owner[outs[i]] = NoOwner =>
            \A t \in S : f[t] \cap S = {} /\ t < outs[i] => t \in First(outs, i - 1)

(* Some ready object goes before the others.                                *)
LEMMA FirstIsReady ==
  ASSUME NEW R \in SUBSET Nat, R # {}, NEW g
  PROVE  LET m == FirstOf(R, Owner, g)
         IN  m \in R /\ \A n \in R : Before(m, n, Owner, g)
<1> DEFINE rank(x) == IF g # NoOwner /\ Owner[x] = g THEN 0 ELSE 1
           Top == {x \in R : rank(x) = 0}
<1>1. PICK m \in R : \A n \in R : rank(m) < rank(n) \/ (rank(m) = rank(n) /\ m <= n)
  <2>1. CASE Top # {}
    <3>1. PICK m \in Top : \A n \in Top : m <= n
      BY <2>1, Running!Least
    <3>2. \A n \in R : rank(m) < rank(n) \/ (rank(m) = rank(n) /\ m <= n)
      BY <3>1
    <3> QED BY <3>1, <3>2
  <2>2. CASE Top = {}
    <3>1. PICK m \in R : \A n \in R : m <= n
      BY Running!Least
    <3>2. \A n \in R : rank(n) = 1
      BY <2>2
    <3> QED BY <3>1, <3>2
  <2> QED BY <2>1, <2>2
<1>2. \A n \in R : Before(m, n, Owner, g)
  BY <1>1 DEF Before
<1> QED BY <1>2 DEF FirstOf

(* One more object can be emitted as long as some are left.                 *)
LEMMA EmitsOn ==
  ASSUME NEW S \in SUBSET Objects, NEW f, ~HasCycle(S, f),
         NEW outs, Emitted(S, f, outs), Len(outs) < Cardinality(S), NEW g
  PROVE  Emitted(S, f, Append(outs, FirstOf(ReadyIn(S, f, outs), Owner, g)))
<1> DEFINE R == ReadyIn(S, f, outs)
           m == FirstOf(R, Owner, g)
           more == Append(outs, m)
<1>1. IsFiniteSet(S) /\ S \subseteq Nat /\ Cardinality(S) \in Nat
  BY ObjectsAssumption, FS_Subset, FS_CardinalityType
<1>2. outs \in Seq(S) /\ Len(outs) \in Nat /\ DOMAIN outs = 1..Len(outs)
  BY DEF Emitted
<1>3. R = {n \in S \ Range(outs) : f[n] \cap S \subseteq Range(outs)}
  BY DEF ReadyIn
<1>4. Range(outs) = First(outs, Len(outs)) /\ Range(outs) \subseteq S
  BY <1>2 DEF Range, First
<1>5. S \ Range(outs) # {}
  <2>1. IsFiniteSet(1..Len(outs)) /\ Cardinality(1..Len(outs)) = Len(outs)
    BY <1>2, FS_Interval
  <2>2. outs \in Injection(1..Len(outs), S)
    BY <1>2 DEF Emitted, Injection, IsInjective
  <2>3. outs \notin Surjection(1..Len(outs), S)
    BY <1>1, <1>2, <2>1, <2>2, FS_Injection
  <2>4. S # Range(outs)
    BY <1>2, <1>4, <2>3 DEF Surjection, First
  <2> QED BY <1>4, <2>4
<1>6. R # {}
  <2> SUFFICES ASSUME R = {} PROVE HasCycle(S, f)
    OBVIOUS
  <2> DEFINE C == S \ Range(outs)
  <2>1. C \in (SUBSET S) \ {{}}
    BY <1>5
  <2>2. \A n \in C : f[n] \cap C # {}
    BY <1>3
  <2> HIDE DEF C
  <2> QED BY <2>1, <2>2 DEF HasCycle
<1>7. R \in SUBSET Nat
  BY <1>1, <1>3
<1>8. m \in R /\ \A n \in R : Before(m, n, Owner, g)
  BY <1>6, <1>7, FirstIsReady
<1> HIDE DEF R, m
<1>9. m \in S /\ m \notin Range(outs) /\ f[m] \cap S \subseteq Range(outs)
  BY <1>3, <1>8
<1>10. Owner[m] = NoOwner =>
         \A t \in S : f[t] \cap S = {} /\ t < m => t \in Range(outs)
  <2> SUFFICES ASSUME Owner[m] = NoOwner, NEW t \in S, f[t] \cap S = {}, t < m, t \notin Range(outs)
               PROVE  FALSE
    OBVIOUS
  <2>1. t \in R
    BY <1>3
  <2>2. Before(m, t, Owner, g)
    BY <1>8, <2>1
  <2>3. ~(t < m)
    BY <1>1, <1>9, <2>2 DEF Before
  <2> QED BY <2>3
<1>11. /\ more \in Seq(S) /\ DOMAIN more = 1..(Len(outs) + 1) /\ more[Len(outs) + 1] = m
       /\ \A i \in 1..Len(outs) : more[i] = outs[i]
  BY <1>2, <1>9
<1> HIDE DEF more
<1>12. \A i \in 1..(Len(outs) + 1) : First(more, i - 1) = First(outs, i - 1)
  <2> SUFFICES ASSUME NEW i \in 1..(Len(outs) + 1) PROVE First(more, i - 1) = First(outs, i - 1)
    OBVIOUS
  <2>1. \A j \in 1..(i - 1) : more[j] = outs[j]
    BY <1>2, <1>11
  <2> QED BY <2>1 DEF First
<1>13. \A i, j \in DOMAIN more : i # j => more[i] # more[j]
  <2>1. \A i \in 1..Len(outs) : outs[i] \in Range(outs)
    BY <1>2 DEF Range
  <2>2. \A i, j \in 1..Len(outs) : i # j => outs[i] # outs[j]
    BY <1>2 DEF Emitted
  <2> QED BY <1>2, <1>9, <1>11, <2>1, <2>2
<1>14. ASSUME NEW i \in DOMAIN more
       PROVE  /\ f[more[i]] \cap S \subseteq First(more, i - 1)
              /\ Owner[more[i]] = NoOwner =>
                   \A t \in S : f[t] \cap S = {} /\ t < more[i] => t \in First(more, i - 1)
  <2>1. CASE i = Len(outs) + 1
    <3>1. i - 1 = Len(outs)
      BY <1>2, <2>1
    <3>2. First(more, i - 1) = Range(outs)
      BY <1>4, <1>11, <1>12, <3>1
    <3> QED BY <1>9, <1>10, <1>11, <2>1, <3>2
  <2>2. CASE i \in 1..Len(outs)
    <3>1. more[i] = outs[i] /\ First(more, i - 1) = First(outs, i - 1) /\ i \in DOMAIN outs
      BY <1>2, <1>11, <1>12, <2>2
    <3> QED BY <3>1 DEF Emitted
  <2> QED BY <1>2, <1>11, <2>1, <2>2
<1> QED BY <1>11, <1>13, <1>14 DEF Emitted, more, m, R

(* The states of the loop of orderObjects up to the k-th object.            *)
Loop(h, S, f, k) ==
  h = [i \in 0..k |-> IF i = 0 THEN <<>>
                      ELSE Append(h[i - 1], FirstOf(ReadyIn(S, f, h[i - 1]), Owner, Cluster(h[i - 1], Owner)))]

(* There are such states, for every k ...                                   *)
LEMMA LoopExists ==
  ASSUME NEW S, NEW f
  PROVE  \A k \in Nat : \E h : Loop(h, S, f, k)
<1> DEFINE K == {k \in Nat : \E h : Loop(h, S, f, k)}
           More(outs) == Append(outs, FirstOf(ReadyIn(S, f, outs), Owner, Cluster(outs, Owner)))
<1>1. 0 \in K
  <2> DEFINE h == [i \in 0..0 |-> <<>>]
  <2>1. Loop(h, S, f, 0)
    BY DEF Loop
  <2> QED BY <2>1
<1>2. ASSUME NEW k \in Nat, k \in K PROVE k + 1 \in K
  <2>1. PICK h : Loop(h, S, f, k)
    BY <1>2
  <2>2. h = [i \in 0..k |-> IF i = 0 THEN <<>> ELSE More(h[i - 1])]
    BY <2>1, Zenon DEF Loop
  <2> HIDE DEF More
  <2> DEFINE e == [i \in 0..(k + 1) |-> IF i \in 0..k THEN h[i] ELSE More(h[k])]
  <2>3. \A i \in 0..(k + 1) : e[i] = IF i = 0 THEN <<>> ELSE More(e[i - 1])
    <3> TAKE i \in 0..(k + 1)
    <3>1. CASE i = 0
      BY <2>2, <3>1
    <3>2. CASE i \in 1..k
      BY <2>2, <3>2
    <3>3. CASE i = k + 1
      BY <3>3
    <3> QED BY <3>1, <3>2, <3>3
  <2>4. e = [i \in 0..(k + 1) |-> IF i = 0 THEN <<>> ELSE More(e[i - 1])]
    BY <2>3
  <2> HIDE DEF e
  <2>5. Loop(e, S, f, k + 1)
    BY <2>4, Zenon DEF Loop, More
  <2> QED BY <2>5
<1> HIDE DEF K
<1>3. Nat \subseteq K
  BY <1>1, <1>2, Running!Induct
<1> QED BY <1>3 DEF K

(* ... and the order is the last of them.                                   *)
LEMMA OrderIsLast ==
  ASSUME NEW S, Cardinality(S) \in Nat, NEW f
  PROVE  \E h : Loop(h, S, f, Cardinality(S)) /\ OrderOf(S, f, Owner) = h[Cardinality(S)]
<1> DEFINE Is(h) == h = [k \in 0..Cardinality(S) |->
                    IF k = 0 THEN <<>>
                    ELSE LET outs == h[k - 1]
                         IN  Append(outs, FirstOf(ReadyIn(S, f, outs), Owner, Cluster(outs, Owner)))]
           prefix == CHOOSE h : Is(h)
<1>1. \E h : Is(h)
  <2>1. PICK h : Loop(h, S, f, Cardinality(S))
    BY LoopExists
  <2> QED BY <2>1, Zenon DEF Loop
<1>2. Is(prefix)
  BY <1>1, Zenon
<1>3. OrderOf(S, f, Owner) = prefix[Cardinality(S)]
  BY Zenon DEF OrderOf
<1>4. Loop(prefix, S, f, Cardinality(S))
  BY <1>2, Zenon DEF Loop
<1> QED BY <1>3, <1>4

(* The order of an acyclic set lists it, dependencies first.                *)
LEMMA OrderIsRight ==
  ASSUME NEW S \in SUBSET Objects, NEW f, ~HasCycle(S, f)
  PROVE  Lists(OrderOf(S, f, Owner), S) /\ Emitted(S, f, OrderOf(S, f, Owner))
<1> DEFINE N == Cardinality(S)
           order == OrderOf(S, f, Owner)
<1>1. IsFiniteSet(S) /\ N \in Nat
  BY ObjectsAssumption, FS_Subset, FS_CardinalityType
<1>2. PICK h : Loop(h, S, f, N) /\ order = h[N]
  BY <1>1, OrderIsLast
<1> HIDE DEF N, order
<1> DEFINE K == {k \in Nat : k \in 0..N => Emitted(S, f, h[k]) /\ Len(h[k]) = k}
<1>3. 0 \in K
  <2>1. h[0] = <<>> /\ Len(h[0]) = 0
    BY <1>1, <1>2 DEF Loop
  <2>2. h[0] \in Seq(S) /\ DOMAIN h[0] = {}
    BY <2>1
  <2> QED BY <2>1, <2>2 DEF Emitted
<1>4. ASSUME NEW k \in Nat, k \in K PROVE k + 1 \in K
  <2> SUFFICES ASSUME k + 1 \in 0..N PROVE Emitted(S, f, h[k + 1]) /\ Len(h[k + 1]) = k + 1
    OBVIOUS
  <2>1. k \in 0..N /\ k < N /\ (k + 1) - 1 = k /\ k + 1 # 0
    BY <1>1
  <2>2. Emitted(S, f, h[k]) /\ Len(h[k]) = k
    BY <1>4, <2>1
  <2>3. h[k + 1] = Append(h[k], FirstOf(ReadyIn(S, f, h[k]), Owner, Cluster(h[k], Owner)))
    BY <1>2, <2>1 DEF Loop
  <2>4. Emitted(S, f, h[k + 1])
    BY <2>1, <2>2, <2>3, EmitsOn DEF N
  <2>5. Len(h[k + 1]) = k + 1
    BY <2>2, <2>3 DEF Emitted
  <2> QED BY <2>4, <2>5
<1> HIDE DEF K
<1>5. Nat \subseteq K
  BY <1>3, <1>4, Running!Induct
<1>6. Emitted(S, f, order) /\ Len(order) = N
  BY <1>1, <1>2, <1>5 DEF K
<1>7. /\ order \in [1..N -> S] /\ order \in Seq(S) /\ DOMAIN order = 1..N
      /\ \A i, j \in 1..N : i # j => order[i] # order[j]
  BY <1>6 DEF Emitted
<1>8. order \in Injection(1..N, S)
  BY <1>7 DEF Injection, IsInjective
<1>9. IsFiniteSet(1..N) /\ Cardinality(1..N) = N
  BY <1>1, FS_Interval
<1>10. order \in Surjection(1..N, S)
  BY <1>1, <1>8, <1>9, FS_Injection DEF N
<1>11. \A x \in S : \E i \in DOMAIN order : order[i] = x
  BY <1>7, <1>10 DEF Surjection
<1>12. Lists(order, S)
  BY <1>7, <1>11 DEF Lists
<1> QED BY <1>6, <1>12 DEF order

-----------------------------------------------------------------------------
(* Schema states.                                                           *)
Values == (UNION {Definitions[o] : o \in Objects}) \cup {Absent}
Typed == {s \in [Objects -> Values] : \A o \in Objects : s[o] \in Definitions[o] \cup {Absent}}

DepsIn(s) == [o \in Present(s) |-> s[o].deps]

(* What a program can be in: everything has what it needs, and there is an  *)
(* order.                                                                   *)
Schema(s) == s \in Typed /\ Sound(s) /\ ~HasCycle(Present(s), DepsIn(s))

(* The schemas of a driver are such states.                                 *)
LEMMA SchemasAreSound ==
  ASSUME NEW D \in Drivers, NEW s \in Schemas(D)
  PROVE  Schema(s)
<1>1. D \in Seq(Objects)
  BY SetsAssumption
<1>2. ASSUME NEW o \in Objects PROVE Definitions[o] \cup {Absent} \subseteq Values
  BY <1>2 DEF Values
<1> HIDE DEF Values
<1>3. ASSUME NEW some \in SUBSET Typed, NEW o \in Objects
      PROVE  Extended(some, o) \in SUBSET Typed
  <2>1. ASSUME NEW t \in some, NEW d \in Definitions[o] \cup {Absent}
        PROVE  [t EXCEPT ![o] = d] \in Typed
    <3>1. t \in Typed /\ d \in Values
      BY <1>2
    <3> QED BY <3>1 DEF Typed
  <2> QED BY <2>1 DEF Extended
<1>4. {[o \in Objects |-> Absent]} \in SUBSET Typed
  <2>1. \A o \in Objects : Absent \in Values
    BY <1>2
  <2>2. [o \in Objects |-> Absent] \in [Objects -> Values]
    BY <2>1
  <2> QED BY <2>2 DEF Typed
<1>5. Choosing!Fold({[o \in Objects |-> Absent]}, D) \in SUBSET Typed
  BY <1>1, <1>3, <1>4, Choosing!FoldType
<1>6. States!Fold({[o \in Objects |-> Absent]}, D) \in SUBSET Typed
  BY <1>5 DEF States!Fold, Choosing!Fold
<1> QED BY <1>6 DEF Schemas, Schema, DepsIn

(* The objects a definition needs.                                          *)
Needs(d) == d.deps \cup {u[1] : u \in d.uses}

(* The objects migrations manage.                                           *)
Ours == Objects \ Unmanaged

(* A managed object needs managed objects that are there, itself not.       *)
LEMMA NeedsAreThere ==
  ASSUME NEW s, Schema(s), NEW o \in Present(s) \cap Ours
  PROVE  Needs(s[o]) \subseteq Present(s) \cap Ours /\ o \notin Needs(s[o])
<1>1. s[o] \in Definitions[o] /\ o \in Objects \ Unmanaged /\ o \in Nat
  BY ObjectsAssumption DEF Schema, Typed, Present, Ours
<1>2. Holds(s, s[o])
  BY DEF Schema, Sound
<1>3. Needs(s[o]) \subseteq Present(s)
  BY <1>2 DEF Needs, Holds
<1>4. Needs(s[o]) \cap Unmanaged = {}
  BY <1>1, DefinitionsAssumption DEF Needs
<1>5. o \notin s[o].deps
  <2> SUFFICES ASSUME o \in s[o].deps PROVE FALSE
    OBVIOUS
  <2>1. {o} \in (SUBSET Present(s)) \ {{}} /\ \A n \in {o} : DepsIn(s)[n] \cap {o} # {}
    BY DEF DepsIn
  <2> QED BY <2>1, Zenon DEF HasCycle, Schema
<1>6. \A u \in s[o].uses : u[1] # o
  BY <1>1, <1>5, DefinitionsAssumption
<1>7. o \notin Needs(s[o])
  BY <1>5, <1>6 DEF Needs
<1> QED BY <1>3, <1>4, <1>7 DEF Present, Ours

(* An order of S with what each object needs before it.                     *)
NeedsFirst(order, S, s) ==
  /\ Lists(order, S)
  /\ \A i \in DOMAIN order : Needs(s[order[i]]) \cap S \subseteq First(order, i - 1)

(* That is the order of the planner: the engines report what an object      *)
(* depends on, and what a view uses besides has no dependencies and a lower *)
(* number.                                                                  *)
LEMMA OrderedByNeed ==
  ASSUME NEW s, Schema(s), NEW S \in SUBSET (Present(s) \cap Ours),
         NEW f, \A o \in S : f[o] = s[o].deps
  PROVE  NeedsFirst(OrderOf(S, f, Owner), S, s)
<1> DEFINE order == OrderOf(S, f, Owner)
<1>1. S \in SUBSET Objects /\ \A o \in S : s[o] \in Definitions[o] /\ o \in Objects \ Unmanaged
  BY DEF Schema, Typed, Present, Ours
<1>2. ~HasCycle(S, f)
  <2> SUFFICES ASSUME NEW C \in (SUBSET S) \ {{}}, \A n \in C : f[n] \cap C # {} PROVE FALSE
    BY DEF HasCycle
  <2>1. C \in (SUBSET Present(s)) \ {{}} /\ \A n \in C : DepsIn(s)[n] \cap C # {}
    BY DEF DepsIn
  <2> QED BY <2>1, Zenon DEF HasCycle, Schema
<1>3. Lists(order, S) /\ Emitted(S, f, order)
  BY <1>1, <1>2, OrderIsRight
<1> HIDE DEF order
<1>4. ASSUME NEW i \in DOMAIN order, NEW x \in Needs(s[order[i]]) \cap S
      PROVE  x \in First(order, i - 1)
  <2> DEFINE o == order[i]
  <2>1. o \in S
    BY <1>3 DEF Lists
  <2>2. CASE x \in s[o].deps
    BY <1>3, <2>1, <2>2 DEF Emitted
  <2>3. CASE x \notin s[o].deps
    <3>1. /\ x < o /\ Owner[o] = NoOwner
          /\ \A e \in Definitions[x] : e.deps = {}
      BY <1>1, <2>1, <2>3, DefinitionsAssumption DEF Needs
    <3>2. f[x] = {}
      BY <1>1, <3>1
    <3> QED BY <1>3, <3>1, <3>2 DEF Emitted
  <2> QED BY <2>2, <2>3
<1>5. NeedsFirst(order, S, s)
  BY <1>3, <1>4 DEF NeedsFirst
<1> QED BY <1>5 DEF order

-----------------------------------------------------------------------------
(* Between the two schemas.  The objects a script changes or creates, those *)
(* it drops, and the state in which some are as they will be.               *)
Changed == NonRemoved(prev, next)
Gone    == Removed(prev, next)
Mix(A)  == [o \in Objects |-> IF o \in A THEN next[o] ELSE prev[o]]

(* A state with another definition of one object.                           *)
With(s, o, d) == [s EXCEPT ![o] = d]

(* Everything migrations manage has what it needs.                          *)
Fine(s) == \A o \in Present(s) \ Unmanaged : Holds(s, s[o])

(* The planner changes managed objects; the others are as they were.        *)
LEMMA ChangesAreOurs ==
  ASSUME Schema(prev), Schema(next)
  PROVE  /\ Changed \subseteq Present(next) \cap Ours
         /\ Gone \subseteq Present(prev) \cap Ours /\ Gone \cap Present(next) = {}
         /\ \A x \in Ours \ (Changed \cup Gone) : prev[x] = next[x]
BY DEF Changed, Gone, NonRemoved, Removed, Present, Ours, Schema, Typed

(* What a definition needs of two states is the same where they are.        *)
LEMMA HoldsAlike ==
  ASSUME NEW s, NEW t, NEW d, Holds(s, d), \A x \in Needs(d) : t[x] = s[x]
  PROVE  Holds(t, d)
<1>1. \A x \in d.deps : x \in Present(s) /\ t[x] = s[x]
  BY DEF Holds, Needs
<1>2. \A u \in d.uses : u[1] \in Present(s) /\ t[u[1]] = s[u[1]] /\ u[2] \in s[u[1]].cols
  BY DEF Holds, Needs
<1> QED BY <1>1, <1>2 DEF Holds, Present

(* Such a state has definitions of the right objects.                       *)
LEMMA MixIsTyped ==
  ASSUME Schema(prev), Schema(next), NEW A, NEW o \in Objects
  PROVE  Mix(A) \in Typed /\ With(Mix(A), o, Absent) \in Typed
<1>1. prev \in Typed /\ next \in Typed
  BY DEF Schema
<1>2. Absent \in Values
  BY DEF Values
<1>3. Mix(A) \in Typed
  BY <1>1 DEF Mix, Typed
<1> QED BY <1>2, <1>3 DEF Typed, With

(* A is enough of the next state: what has changed has the changed objects  *)
(* it needs, and what has not needs nothing that is gone.                   *)
Complete(A) ==
  /\ A \subseteq Changed \cup Gone
  /\ \A x \in A \cap Present(next) : Needs(next[x]) \cap Changed \subseteq A
  /\ \A x \in (Present(prev) \cap Ours) \ A : Needs(prev[x]) \cap Gone \cap A = {}

(* Then everything has what it needs, unless a used column went.            *)
LEMMA MixIsFine ==
  ASSUME Schema(prev), Schema(next), NEW A, Complete(A), ~LosesUsedColumn
  PROVE  Fine(Mix(A))
<1> SUFFICES ASSUME NEW x \in Present(Mix(A)) \cap Ours
             PROVE  Holds(Mix(A), Mix(A)[x])
  BY DEF Fine, Ours, Present
<1>1. \A y \in Objects : Mix(A)[y] = IF y \in A THEN next[y] ELSE prev[y]
  BY DEF Mix
<1>2. x \in Objects /\ x \in Ours
  BY DEF Ours
<1>3. CASE x \in A
  <2>1. x \in Present(next) \cap Ours /\ Mix(A)[x] = next[x]
    BY <1>1, <1>2, <1>3 DEF Present
  <2>2. Needs(next[x]) \subseteq Present(next) \cap Ours
    BY <2>1, NeedsAreThere
  <2>3. Holds(next, next[x])
    BY <2>1 DEF Schema, Sound
  <2>4. \A y \in Needs(next[x]) : Mix(A)[y] = next[y]
    <3> SUFFICES ASSUME NEW y \in Needs(next[x]) PROVE Mix(A)[y] = next[y]
      OBVIOUS
    <3>1. y \in Present(next) \cap Ours /\ y \in Objects
      BY <2>2 DEF Ours
    <3>2. y \in Changed => y \in A
      BY <1>3, <2>1 DEF Complete
    <3>3. y \notin Gone
      BY <3>1, ChangesAreOurs
    <3> QED BY <1>1, <3>1, <3>2, <3>3, ChangesAreOurs
  <2> QED BY <2>1, <2>3, <2>4, HoldsAlike
<1>4. CASE x \notin A
  <2>1. x \in Present(prev) \cap Ours /\ Mix(A)[x] = prev[x]
    BY <1>1, <1>2, <1>4 DEF Present
  <2>2. Needs(prev[x]) \subseteq Present(prev) \cap Ours
    BY <2>1, NeedsAreThere
  <2>3. Holds(prev, prev[x])
    BY <2>1 DEF Schema, Sound
  <2>4. \A y \in Needs(prev[x]) : y \in A => next[y] # Absent
    BY <1>4, <2>1, ChangesAreOurs DEF Complete, Present
  <2>5. \A y \in Needs(prev[x]) : y \in Objects /\ Mix(A)[y] # Absent
    BY <1>1, <2>2, <2>4 DEF Present, Ours
  <2>6. \A u \in prev[x].uses : u[1] \in Needs(prev[x])
    BY DEF Needs
  <2>7. \A u \in prev[x].uses : u[2] \in Mix(A)[u[1]].cols
    <3> SUFFICES ASSUME NEW u \in prev[x].uses PROVE u[2] \in Mix(A)[u[1]].cols
      OBVIOUS
    <3>1. CASE u[1] \in A
      <4>1. next[u[1]] # Absent
        BY <2>4, <2>6, <3>1
      <4>2. u[2] \in next[u[1]].cols
        BY <2>1, <4>1 DEF LosesUsedColumn
      <4> QED BY <1>1, <2>5, <2>6, <3>1, <4>2
    <3>2. CASE u[1] \notin A
      BY <1>1, <2>3, <2>5, <2>6, <3>2 DEF Holds
    <3> QED BY <3>1, <3>2
  <2>8. Holds(Mix(A), prev[x])
    BY <2>5, <2>6, <2>7 DEF Holds, Present, Needs
  <2> QED BY <2>1, <2>8
<1> QED BY <1>3, <1>4

(* An object is dropped and created again.                                  *)
Recreated(o) == o \notin InPlace \/ prev[o].hard # next[o].hard

(* In between, nothing needs it: what has changed would come later, and of  *)
(* the old objects none does.                                               *)
Gap(A, o) == With(Mix(A), o, Absent)

(* Nothing misses an object while it is not there.                          *)
LEMMA GapIsFine ==
  ASSUME Schema(prev), Schema(next), Planned, NEW A, Complete(A),
         NEW o \in Changed \ A, prev[o] # Absent, Recreated(o)
  PROVE  Fine(Gap(A, o))
<1> SUFFICES ASSUME NEW x \in Present(Gap(A, o)) \cap Ours
             PROVE  Holds(Gap(A, o), Gap(A, o)[x])
  BY DEF Fine, Ours, Present
<1>1. o \in Present(next) \cap Ours /\ o \in Objects
  BY ChangesAreOurs DEF Ours
<1>2. /\ \A y \in Objects : Mix(A)[y] = IF y \in A THEN next[y] ELSE prev[y]
      /\ \A y \in Objects : Gap(A, o)[y] = IF y = o THEN Absent ELSE Mix(A)[y]
  BY DEF Mix, Gap, With
<1>3. x \in Objects /\ x \in Ours /\ x # o /\ Gap(A, o)[x] = Mix(A)[x] /\ Mix(A)[x] # Absent
  BY <1>2 DEF Ours, Present
<1>4. Holds(Mix(A), Mix(A)[x])
  BY <1>3, MixIsFine DEF Fine, Present, Ours, Planned
<1>5. o \notin Needs(Mix(A)[x])
  <2>1. CASE x \in A
    BY <1>2, <1>3, <2>1 DEF Complete, Present
  <2>2. CASE x \notin A
    <3>1. x \in Present(prev) /\ Mix(A)[x] = prev[x]
      BY <1>2, <1>3, <2>2 DEF Present
    <3>2. o \in Present(prev) \cap Present(next) /\ prev[o] # next[o]
      BY <1>1 DEF Present, Changed, NonRemoved
    <3> QED BY <3>1, <3>2 DEF Planned, RecreatesUnder, Recreated, Needs
  <2> QED BY <2>1, <2>2
<1>6. \A y \in Needs(Mix(A)[x]) : y \in Objects
  BY <1>4 DEF Holds, Needs, Present
<1>7. \A y \in Needs(Mix(A)[x]) : Gap(A, o)[y] = Mix(A)[y]
  BY <1>2, <1>5, <1>6
<1> QED BY <1>3, <1>4, <1>7, HoldsAlike

-----------------------------------------------------------------------------
(* What a drop takes along: the largest part that has all it needs is left. *)
Keep(t, S) == [o \in Objects |-> IF o \in S THEN t[o] ELSE Absent]

Left(t) == UNION {S \in SUBSET Present(t) : Sound(Keep(t, S))}

(* That part has all it needs itself.                                       *)
LEMMA WhatRemains ==
  ASSUME NEW t
  PROVE  /\ Remains(t) = Keep(t, Left(t)) /\ Left(t) \subseteq Present(t)
         /\ \A S \in SUBSET Present(t) : Sound(Keep(t, S)) => S \subseteq Left(t)
         /\ \A x \in Left(t) : \A y \in Needs(t[x]) : y \in Left(t)
         /\ \A x \in Left(t) : Holds(t, t[x])
<1>1. Remains(t) = Keep(t, Left(t))
  BY Zenon DEF Remains, Keep, Left
<1>2. /\ Left(t) \subseteq Present(t)
      /\ \A S \in SUBSET Present(t) : Sound(Keep(t, S)) => S \subseteq Left(t)
  BY DEF Left
<1>3. ASSUME NEW x \in Left(t)
      PROVE  Holds(t, t[x]) /\ \A y \in Needs(t[x]) : y \in Left(t)
  <2>1. PICK S \in SUBSET Present(t) : x \in S /\ Sound(Keep(t, S))
    BY DEF Left
  <2>2. \A y \in Objects : Keep(t, S)[y] = IF y \in S THEN t[y] ELSE Absent
    BY DEF Keep
  <2>3. x \in Present(Keep(t, S)) /\ Keep(t, S)[x] = t[x]
    BY <2>1, <2>2 DEF Present
  <2>4. Holds(Keep(t, S), t[x])
    BY <2>1, <2>3 DEF Sound
  <2>5. \A y \in Needs(t[x]) : y \in S
    BY <2>2, <2>4 DEF Holds, Needs, Present
  <2>6. \A y \in Needs(t[x]) : t[y] = Keep(t, S)[y]
    BY <2>1, <2>2, <2>5 DEF Present
  <2>7. Holds(t, t[x])
    BY <2>4, <2>6, HoldsAlike
  <2> QED BY <1>2, <2>1, <2>5, <2>7
<1> QED BY <1>1, <1>2, <1>3

(* The database is at u, but for what migrations do not manage: that is as  *)
(* it was, or gone with what it needed.                                     *)
At(s, u) ==
  /\ DOMAIN s = Objects
  /\ \A x \in Ours : s[x] = u[x]
  /\ \A x \in Unmanaged : s[x] \in {prev[x], Absent}

(* What is ours needs what is ours.                                         *)
LEMMA NeedsOfOurs ==
  ASSUME NEW u \in Typed, NEW x \in Present(u) \cap Ours, Holds(u, u[x])
  PROVE  Needs(u[x]) \subseteq Present(u) \cap Ours
<1>1. u[x] \in Definitions[x] /\ x \in Objects \ Unmanaged
  BY DEF Typed, Present, Ours
<1>2. Needs(u[x]) \cap Unmanaged = {}
  BY <1>1, DefinitionsAssumption DEF Needs
<1>3. Needs(u[x]) \subseteq Present(u)
  BY DEF Holds, Needs
<1> QED BY <1>2, <1>3 DEF Present, Ours

(* Then it is as fine as u.                                                 *)
LEMMA AsFine ==
  ASSUME NEW u \in Typed, Fine(u), NEW s, At(s, u)
  PROVE  Fine(s)
<1> SUFFICES ASSUME NEW x \in Present(s) \cap Ours PROVE Holds(s, s[x])
  BY DEF Fine, Present, Ours
<1>1. x \in Present(u) \cap Ours /\ s[x] = u[x]
  BY DEF Present, At, Ours
<1>2. Holds(u, u[x])
  BY <1>1 DEF Fine, Ours, Present
<1>3. Needs(u[x]) \subseteq Present(u) \cap Ours
  BY <1>1, <1>2, NeedsOfOurs
<1> QED BY <1>1, <1>2, <1>3, HoldsAlike DEF At

(* A cascade takes nothing of ours along where everything is fine.          *)
LEMMA NothingIsTaken ==
  ASSUME NEW u \in Typed, Fine(u), NEW t, At(t, u)
  PROVE  At(Remains(t), u)
<1> DEFINE S == Present(t) \cap Ours
<1>1. /\ DOMAIN Keep(t, S) = Objects
      /\ \A y \in Objects : Keep(t, S)[y] = IF y \in S THEN t[y] ELSE Absent
  BY DEF Keep
<1>2. Sound(Keep(t, S))
  <2> SUFFICES ASSUME NEW x \in Present(Keep(t, S))
               PROVE  Holds(Keep(t, S), Keep(t, S)[x])
    BY DEF Sound
  <2>1. x \in S /\ Keep(t, S)[x] = t[x]
    BY <1>1 DEF Present
  <2>2. x \in Present(u) \cap Ours /\ t[x] = u[x]
    BY <2>1 DEF At, Present
  <2>3. Holds(u, u[x])
    BY <2>2 DEF Fine, Ours, Present
  <2>4. Needs(u[x]) \subseteq Present(u) \cap Ours
    BY <2>2, <2>3, NeedsOfOurs
  <2>5. \A y \in Present(u) \cap Ours : y \in S /\ y \in Objects /\ t[y] = u[y]
    BY DEF At, Present, Ours
  <2>6. \A y \in Needs(u[x]) : Keep(t, S)[y] = u[y]
    BY <1>1, <2>4, <2>5
  <2> QED BY <2>1, <2>2, <2>3, <2>6, HoldsAlike
<1>3. S \subseteq Left(t) /\ Left(t) \subseteq Present(t)
  BY <1>2, WhatRemains
<1>4. DOMAIN Remains(t) = Objects /\ \A y \in Objects : Remains(t)[y] = IF y \in Left(t) THEN t[y] ELSE Absent
  BY WhatRemains DEF Keep
<1>5. \A x \in Ours : Remains(t)[x] = u[x]
  <2> SUFFICES ASSUME NEW x \in Ours PROVE Remains(t)[x] = u[x]
    OBVIOUS
  <2>1. x \in Objects /\ t[x] = u[x]
    BY DEF At, Ours
  <2> QED BY <1>3, <1>4, <2>1 DEF Present
<1>6. \A x \in Unmanaged : Remains(t)[x] \in {prev[x], Absent}
  BY <1>4, SetsAssumption DEF At
<1> QED BY <1>4, <1>5, <1>6 DEF At

-----------------------------------------------------------------------------
(* The statements of a script, where they leave everything fine.            *)
AlterOf(o, d) == [op |-> "alter", obj |-> o, def |-> d]

(* A statement gives its object its definition and leaves the rest.         *)
LEMMA EffectOf ==
  ASSUME NEW u \in Typed, NEW o \in Ours, NEW d \in Definitions[o] \cup {Absent},
         NEW s, At(s, u), Fine(With(u, o, d)),
         NEW st, st.obj = o, st.op = "remove" => d = Absent, st.op # "remove" => st.def = d
  PROVE  At(After(s, st), With(u, o, d))
<1> DEFINE t == With(s, o, d)
           v == With(u, o, d)
<1>1. After(s, st) = IF o \in Cascading THEN Remains(t) ELSE t
  BY Zenon DEF After, With
<1>2. o \in Objects /\ d \in Values
  BY DEF Values, Ours
<1>3. v \in Typed /\ \A x \in Objects : v[x] = IF x = o THEN d ELSE u[x]
  BY <1>2 DEF Typed, With
<1>4. At(t, v)
  BY <1>2, <1>3, SetsAssumption DEF At, Ours, With
<1> HIDE DEF t, v
<1>5. At(Remains(t), v)
  BY <1>3, <1>4, NothingIsTaken DEF v
<1> QED BY <1>1, <1>4, <1>5 DEF v

(* What migrations create or change has what it needs.                      *)
LEMMA HoldsBefore ==
  ASSUME NEW u \in Typed, NEW o \in Ours, NEW d \in Definitions[o], o \notin Needs(d),
         NEW s, At(s, u), Fine(With(u, o, d))
  PROVE  Holds(s, d)
<1> DEFINE v == With(u, o, d)
<1>1. o \in Objects /\ o \in Ours /\ d \in Values /\ d # Absent
  BY SetsAssumption DEF Values, Ours
<1>2. v \in Typed /\ \A x \in Objects : v[x] = IF x = o THEN d ELSE u[x]
  BY <1>1 DEF Typed, With
<1> HIDE DEF v
<1>3. o \in Present(v) \cap Ours /\ v[o] = d
  BY <1>1, <1>2 DEF Present
<1>4. Holds(v, d)
  BY <1>1, <1>3 DEF Fine, v, Ours
<1>5. Needs(d) \subseteq Present(v) \cap Ours
  BY <1>2, <1>3, <1>4, NeedsOfOurs
<1>6. \A y \in Needs(d) : s[y] = v[y]
  BY <1>2, <1>5 DEF At, Present
<1> QED BY <1>4, <1>6, HoldsAlike

(* CREATE or DEFINE of what is not there is accepted, ...                   *)
LEMMA EmitRuns ==
  ASSUME NEW u \in Typed, NEW o \in Ours, NEW d \in Definitions[o], o \notin Needs(d),
         u[o] = Absent, NEW s, At(s, u), Fine(With(u, o, d))
  PROVE  /\ Accepts(s, EmitOf(o, d))
         /\ At(After(s, EmitOf(o, d)), With(u, o, d))
<1>1. EmitOf(o, d).op = "emit" /\ EmitOf(o, d).obj = o /\ EmitOf(o, d).def = d
  BY DEF EmitOf
<1>2. Holds(s, d) /\ s[o] = Absent
  BY HoldsBefore DEF At
<1>3. Accepts(s, EmitOf(o, d))
  BY <1>1, <1>2 DEF Accepts
<1> QED BY <1>1, <1>3, EffectOf

(* a change in place as well, if no blocking object is in the way, ...      *)
LEMMA AlterRuns ==
  ASSUME NEW u \in Typed, NEW o \in Ours, NEW d \in Definitions[o], o \notin Needs(d),
         u[o] # Absent, NEW s, At(s, u), Fine(With(u, o, d)),
         \A b \in Blocking \cap Present(s), c \in u[o].cols \ d.cols : <<o, c>> \notin s[b].uses
  PROVE  /\ Accepts(s, AlterOf(o, d))
         /\ At(After(s, AlterOf(o, d)), With(u, o, d))
<1>1. AlterOf(o, d).op = "alter" /\ AlterOf(o, d).obj = o /\ AlterOf(o, d).def = d
  BY DEF AlterOf
<1>2. Holds(s, d) /\ s[o] = u[o]
  BY HoldsBefore DEF At
<1>3. Dropped(s, AlterOf(o, d)) = u[o].cols \ d.cols
  BY <1>1, <1>2 DEF Dropped
<1>4. Accepts(s, AlterOf(o, d))
  BY <1>1, <1>2, <1>3 DEF Accepts
<1> QED BY <1>1, <1>4, EffectOf

(* and a drop always.                                                       *)
LEMMA RemoveRuns ==
  ASSUME NEW u \in Typed, NEW o \in Ours, NEW d, NEW s, At(s, u), Fine(With(u, o, Absent))
  PROVE  /\ Accepts(s, RemoveOf(o, d))
         /\ At(After(s, RemoveOf(o, d)), With(u, o, Absent))
<1>1. RemoveOf(o, d).op = "remove" /\ RemoveOf(o, d).obj = o
  BY DEF RemoveOf
<1>2. Accepts(s, RemoveOf(o, d))
  BY <1>1 DEF Accepts
<1> QED BY <1>1, <1>2, EffectOf

-----------------------------------------------------------------------------
(* The steps of a script between complete parts of the next state.          *)

(* A complete part: what it lacks of o, it lacks of nothing else.           *)
LEMMA MixOneMore ==
  ASSUME Schema(prev), Schema(next), NEW A, NEW o \in Objects, o \notin A
  PROVE  /\ Mix(A \cup {o}) = With(Mix(A), o, next[o])
         /\ Mix(A) = With(Mix(A \cup {o}), o, prev[o])
         /\ Mix(A \cup {o}) = With(Gap(A, o), o, next[o])
         /\ Mix(A) = With(Gap(A, o), o, prev[o])
         /\ Gap(A, o) = With(Mix(A), o, Absent)
         /\ Gap(A, o) = With(Mix(A \cup {o}), o, Absent)
         /\ Mix(A)[o] = prev[o] /\ Mix(A \cup {o})[o] = next[o] /\ Gap(A, o)[o] = Absent
BY DEF Mix, Gap, With

(* Where the old state of an object that changes is as new as it gets, no   *)
(* object uses a column it loses; and on the way back none uses one that is *)
(* new, because what was made after the change is undone.                   *)
LEMMA NothingBlocks ==
  ASSUME Schema(prev), Schema(next), Planned, NEW A, Complete(A), NEW o \in Changed \ A,
         NEW s, NEW b \in Present(s), NEW c, <<o, c>> \in s[b].uses
  PROVE  /\ At(s, Mix(A)) => c \in next[o].cols
         /\ At(s, Mix(A \cup {o})) => c \in prev[o].cols
<1>1. o \in Present(next) \cap Ours /\ o \in Objects /\ b \in Objects /\ s[b] # Absent
  BY ChangesAreOurs DEF Ours, Present
<1>2. \A B : Mix(B)[b] = IF b \in B THEN next[b] ELSE prev[b]
  BY <1>1 DEF Mix
<1>3. s[b] = next[b] => b \in Present(next) /\ c \in next[o].cols /\ o \in Needs(next[b])
  BY <1>1 DEF Schema, Sound, Holds, Present, Needs
<1>4. s[b] = prev[b] => b \in Present(prev) /\ c \in prev[o].cols /\ c \in next[o].cols
  BY <1>1 DEF Schema, Sound, Holds, Present, Planned, LosesUsedColumn
<1>5. \A B : At(s, Mix(B)) => s[b] = prev[b] \/ (b \in B /\ b \in Ours /\ s[b] = next[b])
  BY <1>1, <1>2 DEF At, Ours
<1>6. ASSUME b \in A \cup {o}, b \in Ours, s[b] = next[b] PROVE FALSE
  <2>1. o \in Needs(next[b]) /\ b \in Present(next) \cap Ours
    BY <1>3, <1>6
  <2>2. CASE b = o
    BY <2>1, <2>2, NeedsAreThere
  <2>3. CASE b \in A
    BY <2>1, <2>3 DEF Complete
  <2> QED BY <1>6, <2>2, <2>3
<1> QED BY <1>3, <1>4, <1>5, <1>6

(* The definitions of what changes.                                         *)
LEMMA ChangedFacts ==
  ASSUME Schema(prev), Schema(next), NEW o \in Changed
  PROVE  /\ o \in Ours /\ o \in Objects /\ next[o] \in Definitions[o] /\ next[o] # Absent
         /\ o \notin Needs(next[o])
         /\ prev[o] # Absent => prev[o] \in Definitions[o] /\ o \notin Needs(prev[o])
<1>1. o \in Present(next) \cap Ours /\ o \in Ours /\ o \in Objects
  BY ChangesAreOurs DEF Ours
<1>2. prev[o] # Absent => o \in Present(prev) \cap Ours
  BY <1>1 DEF Present
<1> QED BY <1>1, <1>2, NeedsAreThere DEF Schema, Typed, Present

(* An object is created, ...                                                *)
LEMMA CreateStep ==
  ASSUME Schema(prev), Schema(next), Planned, NEW A, NEW o \in Changed \ A,
         Complete(A \cup {o}), NEW s,
         \/ At(s, Mix(A)) /\ prev[o] = Absent
         \/ At(s, Gap(A, o))
  PROVE  /\ Accepts(s, EmitOf(o, next[o]))
         /\ At(After(s, EmitOf(o, next[o])), Mix(A \cup {o}))
<1>1. o \in Ours /\ o \in Objects /\ next[o] \in Definitions[o] /\ o \notin Needs(next[o])
  BY ChangedFacts
<1>2. PICK u \in Typed : u[o] = Absent /\ At(s, u) /\ Mix(A \cup {o}) = With(u, o, next[o])
  BY <1>1, MixIsTyped, MixOneMore DEF Gap
<1>3. Fine(With(u, o, next[o]))
  BY <1>2, MixIsFine DEF Planned
<1> QED BY <1>1, <1>2, <1>3, EmitRuns

(* changed in place, ...                                                    *)
LEMMA AlterStep ==
  ASSUME Schema(prev), Schema(next), Planned, NEW A, Complete(A), NEW o \in Changed \ A,
         Complete(A \cup {o}), prev[o] # Absent, NEW s
  PROVE  /\ At(s, Mix(A)) =>
              /\ Accepts(s, AlterOf(o, next[o]))
              /\ At(After(s, AlterOf(o, next[o])), Mix(A \cup {o}))
         /\ At(s, Mix(A \cup {o})) =>
              /\ Accepts(s, AlterOf(o, prev[o]))
              /\ At(After(s, AlterOf(o, prev[o])), Mix(A))
<1>1. /\ o \in Ours /\ o \in Objects /\ next[o] \in Definitions[o] /\ o \notin Needs(next[o])
      /\ prev[o] \in Definitions[o] /\ o \notin Needs(prev[o]) /\ next[o] # Absent
  BY ChangedFacts
<1>2. Fine(Mix(A)) /\ Fine(Mix(A \cup {o})) /\ Mix(A) \in Typed /\ Mix(A \cup {o}) \in Typed
  BY <1>1, MixIsFine, MixIsTyped DEF Planned
<1>3. /\ Mix(A \cup {o}) = With(Mix(A), o, next[o])
      /\ Mix(A) = With(Mix(A \cup {o}), o, prev[o])
      /\ Mix(A)[o] = prev[o] /\ Mix(A \cup {o})[o] = next[o]
  BY <1>1, MixOneMore
<1>4. ASSUME At(s, Mix(A))
      PROVE  /\ Accepts(s, AlterOf(o, next[o]))
             /\ At(After(s, AlterOf(o, next[o])), Mix(A \cup {o}))
  <2>1. \A b \in Blocking \cap Present(s), c \in prev[o].cols \ next[o].cols : <<o, c>> \notin s[b].uses
    BY <1>4, NothingBlocks
  <2> QED BY <1>1, <1>2, <1>3, <1>4, <2>1, AlterRuns
<1>5. ASSUME At(s, Mix(A \cup {o}))
      PROVE  /\ Accepts(s, AlterOf(o, prev[o]))
             /\ At(After(s, AlterOf(o, prev[o])), Mix(A))
  <2>1. \A b \in Blocking \cap Present(s), c \in next[o].cols \ prev[o].cols : <<o, c>> \notin s[b].uses
    BY <1>5, NothingBlocks
  <2> QED BY <1>1, <1>2, <1>3, <1>5, <2>1, AlterRuns
<1> QED BY <1>4, <1>5

(* or dropped, to be created again in its other form.                       *)
LEMMA GapStep ==
  ASSUME Schema(prev), Schema(next), Planned, NEW A, Complete(A), NEW o \in Changed \ A,
         prev[o] # Absent, Recreated(o), NEW s, At(s, Mix(A)) \/ At(s, Mix(A \cup {o})), NEW d
  PROVE  /\ Accepts(s, RemoveOf(o, d)) /\ At(After(s, RemoveOf(o, d)), Gap(A, o))
<1>1. o \in Ours /\ o \in Objects
  BY ChangedFacts
<1>2. PICK u \in Typed : At(s, u) /\ Gap(A, o) = With(u, o, Absent)
  BY <1>1, MixIsTyped, MixOneMore
<1>3. Fine(With(u, o, Absent))
  BY <1>2, GapIsFine
<1> QED BY <1>1, <1>2, <1>3, RemoveRuns

(* Going back, an object is created as it was, ...                          *)
LEMMA RestoreStep ==
  ASSUME Schema(prev), Schema(next), Planned, NEW A, Complete(A), NEW o \in Ours, o \notin A,
         prev[o] # Absent, NEW s,
         \/ At(s, Mix(A \cup {o})) /\ next[o] = Absent
         \/ At(s, Gap(A, o))
  PROVE  /\ Accepts(s, EmitOf(o, prev[o]))
         /\ At(After(s, EmitOf(o, prev[o])), Mix(A))
<1>1. o \in Ours /\ o \in Objects /\ o \in Present(prev) \cap Ours
  BY DEF Ours, Present
<1>2. prev[o] \in Definitions[o] /\ o \notin Needs(prev[o])
  BY <1>1, NeedsAreThere DEF Schema, Typed, Present
<1>3. PICK u \in Typed : u[o] = Absent /\ At(s, u) /\ Mix(A) = With(u, o, prev[o])
  BY <1>1, MixIsTyped, MixOneMore DEF Gap
<1>4. Fine(With(u, o, prev[o]))
  BY <1>3, MixIsFine DEF Planned
<1> QED BY <1>1, <1>2, <1>3, <1>4, EmitRuns

(* and what is gone in the state to reach is dropped.                       *)
LEMMA DropStep ==
  ASSUME Schema(prev), Schema(next), Planned, NEW A, NEW o \in Ours, o \notin A, NEW s, NEW d
  PROVE  /\ At(s, Mix(A)) /\ next[o] = Absent /\ Complete(A \cup {o}) =>
              Accepts(s, RemoveOf(o, d)) /\ At(After(s, RemoveOf(o, d)), Mix(A \cup {o}))
         /\ At(s, Mix(A \cup {o})) /\ prev[o] = Absent /\ Complete(A) =>
              Accepts(s, RemoveOf(o, d)) /\ At(After(s, RemoveOf(o, d)), Mix(A))
<1>1. o \in Objects /\ Mix(A) \in Typed /\ Mix(A \cup {o}) \in Typed
  BY MixIsTyped DEF Ours
<1>2. /\ Mix(A \cup {o}) = With(Mix(A), o, next[o])
      /\ Mix(A) = With(Mix(A \cup {o}), o, prev[o])
  BY <1>1, MixOneMore
<1> QED BY <1>1, <1>2, MixIsFine, RemoveRuns DEF Planned

-----------------------------------------------------------------------------
(* Where a used column may go, a cascade can take along what used it.  What *)
(* is as it will be then goes only with an object that is to be changed in  *)
(* place, and the change of that is refused: `up` does not get to its end.  *)
Alters == {o \in Changed : prev[o] # Absent /\ ~Recreated(o)}

Within(s, A) == DOMAIN s = Objects /\ \A x \in Objects : s[x] \in {Mix(A)[x], Absent}

Kept(s, A) == \A x \in Ours : x \in A \cup Alters \/ prev[x] = next[x] => s[x] = Mix(A)[x]

Doomed(s, A) == \E x \in Alters \ A : s[x] = Absent

Loose(s, A) == Within(s, A) /\ (Kept(s, A) \/ Doomed(s, A))

(* A cascade keeps what is as it will be, or takes along what is to be changed*)
(* in place.                                                                *)
LEMMA TakenOrKept ==
  ASSUME Schema(prev), Schema(next), ~RecreatesUnder, NEW A, Complete(A),
         NEW t, Within(t, A), Kept(t, A)
  PROVE  Loose(Remains(t), A)
<1>1. /\ DOMAIN Remains(t) = Objects /\ Left(t) \subseteq Present(t)
      /\ \A x \in Objects : Remains(t)[x] = IF x \in Left(t) THEN t[x] ELSE Absent
  BY WhatRemains DEF Keep
<1>2. Within(Remains(t), A)
  BY <1>1 DEF Within
<1>3. \A x \in Objects : Mix(A)[x] = IF x \in A THEN next[x] ELSE prev[x]
  BY DEF Mix
<1>4. Alters \subseteq Objects /\ Alters \subseteq Ours
  BY ChangesAreOurs DEF Alters, Ours
<1>5. CASE \E d \in Alters \ A : d \notin Left(t)
  BY <1>1, <1>2, <1>4, <1>5 DEF Loose, Doomed
<1>6. CASE \A d \in Alters \ A : d \in Left(t)
  <2> DEFINE X == {x \in Present(t) \cap Ours : x \in A \/ prev[x] = next[x]}
             S == Left(t) \cup X
  <2>1. \A x \in X : /\ x \in Objects /\ x \in Ours /\ t[x] = next[x] /\ x \in Present(next) \cap Ours
                     /\ x \in A \/ prev[x] = next[x]
    BY <1>3 DEF Kept, Present, Ours
  <2>2. S \subseteq Present(t) /\ \A y \in Objects : Keep(t, S)[y] = IF y \in S THEN t[y] ELSE Absent
    BY <1>1 DEF Keep
  <2>3. ASSUME NEW x \in X PROVE Holds(Keep(t, S), t[x])
    <3>1. x \in Present(next) \cap Ours /\ t[x] = next[x]
      BY <2>1
    <3>2. Needs(next[x]) \subseteq Present(next) \cap Ours /\ Holds(next, next[x])
      BY <3>1, NeedsAreThere DEF Schema, Sound
    <3>3. ASSUME NEW y \in Needs(next[x])
          PROVE  /\ y \in S
                 /\ t[y] = next[y] \/ (t[y] = prev[y] /\ prev[x] = next[x] /\ x \in Present(prev))
      <4>1. y \in Present(next) /\ y \in Ours /\ y \in Objects /\ next[y] # Absent
        BY <3>2 DEF Present
      <4>2. CASE y \in A \/ prev[y] = next[y]
        <5>1. t[y] = next[y]
          BY <1>3, <4>1, <4>2 DEF Kept
        <5> QED BY <4>1, <4>2, <5>1 DEF Present
      <4>3. CASE y \notin A /\ prev[y] # next[y]
        <5>1. y \in Changed
          BY <4>1, <4>3, ChangesAreOurs
        <5>2. x \notin A
          BY <3>1, <4>3, <5>1 DEF Complete
        <5>3. prev[x] = next[x] /\ x \in Present(prev)
          BY <2>1, <3>1, <5>2 DEF Present
        <5>4. y \in Present(prev) \cap Present(next)
          BY <3>1, <4>1, <5>3, NeedsAreThere
        <5>5. ~Recreated(y)
          BY <4>3, <5>3, <5>4 DEF RecreatesUnder, Recreated, Needs
        <5>6. y \in Alters \ A
          BY <4>3, <5>1, <5>4, <5>5 DEF Alters, Present
        <5>7. y \in Left(t) /\ t[y] = prev[y]
          BY <1>3, <1>6, <4>1, <4>3, <5>6 DEF Kept
        <5> QED BY <5>3, <5>7
      <4> QED BY <4>2, <4>3
    <3>4. \A y \in Needs(next[x]) : y \in Objects /\ Keep(t, S)[y] = t[y] /\ t[y] # Absent
      BY <2>2, <3>3 DEF Present
    <3>5. \A u \in next[x].uses : u[1] \in Needs(next[x])
      BY DEF Needs
    <3>6. ASSUME NEW u \in next[x].uses PROVE u[2] \in t[u[1]].cols
      <4>1. CASE t[u[1]] = next[u[1]]
        BY <3>2, <4>1 DEF Holds
      <4>2. CASE t[u[1]] = prev[u[1]] /\ prev[x] = next[x] /\ x \in Present(prev)
        <5>1. Holds(prev, prev[x])
          BY <4>2 DEF Schema, Sound
        <5> QED BY <4>2, <5>1 DEF Holds
      <4> QED BY <3>3, <3>5, <4>1, <4>2
    <3>7. Holds(Keep(t, S), next[x])
      BY <3>4, <3>5, <3>6 DEF Holds, Present, Needs
    <3> QED BY <3>1, <3>7
  <2>4. ASSUME NEW x \in Left(t) PROVE Holds(Keep(t, S), t[x])
    <3>1. Holds(t, t[x]) /\ \A y \in Needs(t[x]) : y \in Left(t)
      BY WhatRemains
    <3>2. \A y \in Needs(t[x]) : Keep(t, S)[y] = t[y]
      BY <2>2, <3>1 DEF Present
    <3> QED BY <3>1, <3>2, HoldsAlike
  <2>5. Sound(Keep(t, S))
    <3> SUFFICES ASSUME NEW x \in Present(Keep(t, S))
                 PROVE  Holds(Keep(t, S), Keep(t, S)[x])
      BY DEF Sound
    <3>1. x \in S /\ Keep(t, S)[x] = t[x]
      BY <2>2 DEF Present
    <3> QED BY <2>3, <2>4, <3>1
  <2> HIDE DEF S
  <2>6. S \subseteq Left(t)
    BY <2>2, <2>5, WhatRemains
  <2>7. ASSUME NEW x \in Ours, x \in A \cup Alters \/ prev[x] = next[x]
        PROVE  Remains(t)[x] = Mix(A)[x]
    <3>1. x \in Objects /\ t[x] = Mix(A)[x]
      BY <2>7 DEF Kept, Ours
    <3>2. CASE t[x] = Absent
      BY <1>1, <3>1, <3>2
    <3>3. CASE t[x] # Absent /\ (x \in A \/ prev[x] = next[x])
      BY <1>1, <2>6, <3>1, <3>3 DEF S, Present
    <3>4. CASE x \in Alters \ A
      BY <1>1, <1>6, <3>1, <3>4
    <3> QED BY <2>7, <3>2, <3>3, <3>4
  <2>8. Kept(Remains(t), A)
    BY <2>7 DEF Kept
  <2> QED BY <1>2, <2>8 DEF Loose
<1> QED BY <1>5, <1>6

(* A statement brings an object to its next state, or makes room for it.    *)
LEMMA LooseStep ==
  ASSUME Schema(prev), Schema(next), ~RecreatesUnder, NEW A, NEW o \in (Changed \cup Gone) \ A,
         NEW s, Loose(s, A), NEW B, Complete(B), NEW d,
         \/ B = A \cup {o} /\ d = next[o] /\ (o \in Alters => s[o] # Absent)
         \/ B = A /\ d = Absent /\ o \notin Alters,
         NEW st, st.obj = o, st.op = "remove" => d = Absent, st.op # "remove" => st.def = d
  PROVE  Loose(After(s, st), B)
<1> DEFINE t == With(s, o, d)
<1>1. After(s, st) = IF o \in Cascading THEN Remains(t) ELSE t
  BY Zenon DEF After, With
<1>2. o \in Ours /\ o \in Objects /\ prev[o] # next[o]
  BY ChangesAreOurs DEF Ours, Changed, Gone, NonRemoved, Removed, Present
<1>3. DOMAIN t = Objects /\ \A x \in Objects : t[x] = IF x = o THEN d ELSE s[x]
  BY DEF With, Loose, Within
<1> HIDE DEF t
<1>4. /\ \A x \in Objects : Mix(A)[x] = IF x \in A THEN next[x] ELSE prev[x]
      /\ \A x \in Objects : Mix(B)[x] = IF x \in B THEN next[x] ELSE prev[x]
  BY DEF Mix
<1>5. Within(t, B)
  BY <1>2, <1>3, <1>4 DEF Loose, Within
<1>6. CASE Kept(s, A)
  <2>1. Kept(t, B)
    <3> SUFFICES ASSUME NEW x \in Ours, x \in B \cup Alters \/ prev[x] = next[x]
                 PROVE  t[x] = Mix(B)[x]
      BY DEF Kept
    <3>1. x \in Objects
      BY DEF Ours
    <3>2. CASE x = o
      BY <1>2, <1>3, <1>4, <3>1, <3>2
    <3>3. CASE x # o
      <4>1. s[x] = Mix(A)[x] /\ Mix(A)[x] = Mix(B)[x]
        BY <1>4, <1>6, <3>1, <3>3 DEF Kept
      <4> QED BY <1>3, <3>1, <3>3, <4>1
    <3> QED BY <3>2, <3>3
  <2>2. Loose(Remains(t), B)
    BY <1>5, <2>1, TakenOrKept
  <2> QED BY <1>1, <1>5, <2>1, <2>2 DEF Loose
<1>7. CASE Doomed(s, A)
  <2>1. PICK x \in Alters \ A : s[x] = Absent
    BY <1>7 DEF Doomed
  <2>2. x \in Objects /\ x # o /\ x \in Alters \ B
    BY <2>1, ChangesAreOurs DEF Alters, Ours
  <2>3. t[x] = Absent
    BY <1>3, <2>1, <2>2
  <2>4. /\ DOMAIN Remains(t) = Objects
        /\ \A y \in Objects : Remains(t)[y] \in {t[y], Absent}
    BY WhatRemains DEF Keep
  <2>5. Within(Remains(t), B) /\ Remains(t)[x] = Absent
    BY <1>5, <2>2, <2>3, <2>4 DEF Within
  <2> QED BY <1>1, <1>5, <2>2, <2>3, <2>5 DEF Loose, Doomed
<1> QED BY <1>6, <1>7 DEF Loose

(* At the end everything migrations manage is as it should be.              *)
LEMMA LooseEnd ==
  ASSUME Schema(prev), Schema(next), NEW s, Loose(s, Changed \cup Gone)
  PROVE  Managed(s) = Managed(next)
<1> DEFINE A == Changed \cup Gone
<1>1. Kept(s, A)
  BY DEF Loose, Doomed, Alters
<1>2. ASSUME NEW x \in Ours PROVE s[x] = next[x]
  <2>1. x \in Objects /\ Mix(A)[x] = IF x \in A THEN next[x] ELSE prev[x]
    BY DEF Mix, Ours
  <2>2. x \notin A => prev[x] = next[x]
    BY ChangesAreOurs
  <2> QED BY <1>1, <2>1, <2>2 DEF Kept
<1> QED BY <1>2 DEF Managed, Ours

-----------------------------------------------------------------------------
(* The scripts.  What is left of each part after i of its objects.          *)
Stmts == [op : {"emit", "alter", "remove"}, obj : Objects, def : Values]
Pairs == [obj : Objects, from : Values, to : Values]

ups    == Ordered(prev, next, Changed)
downs  == Ordered(prev, next, Gone)

LeftOf(a, i) == SubSeq(a, i + 1, Len(a))

CreatesLeft(i) == Creates!Fold(<<>>, LeftOf(Changes(ups, prev, next), i))
DropsLeft(i)   == LeftOf(Drops(Reverse(downs), prev), i)
EmitsLeft(i)   == LeftOf(Emits(downs, prev), i)
UndoesLeft(i)  == Undoes!Fold(<<>>, LeftOf(Changes(Reverse(ups), prev, next), i))

(* A sequence goes element by element.                                      *)
LEMMA LeftFacts ==
  ASSUME NEW T, NEW a \in Seq(T)
  PROVE  /\ LeftOf(a, 0) = a /\ LeftOf(a, Len(a)) = <<>> /\ Len(a) \in Nat
         /\ \A i \in 1..Len(a) : /\ a[i] \in T /\ LeftOf(a, i) \in Seq(T)
                                 /\ LeftOf(a, i - 1) = <<a[i]>> \o LeftOf(a, i)
<1>1. Len(a) \in Nat /\ \A i \in 1..Len(a) : a[i] \in T
  BY LenProperties
<1>2. LeftOf(a, 0) = a
  BY SubSeqFull DEF LeftOf
<1>3. LeftOf(a, Len(a)) = <<>>
  BY <1>1, SubSeqEmpty DEF LeftOf
<1>4. ASSUME NEW i \in 1..Len(a)
      PROVE  LeftOf(a, i) \in Seq(T) /\ LeftOf(a, i - 1) = <<a[i]>> \o LeftOf(a, i)
  <2>1. i \in 1..Len(a) /\ Len(a) \in i..Len(a) /\ (i - 1) + 1 = i
    BY <1>1
  <2>2. SubSeq(a, i, Len(a)) = <<a[i]>> \o SubSeq(a, i + 1, Len(a))
    BY <2>1, SubSeqRecursiveFirst
  <2>3. SubSeq(a, i + 1, Len(a)) \in Seq(T)
    BY <1>1, SubSeqProperties
  <2> QED BY <2>1, <2>2, <2>3 DEF LeftOf
<1> QED BY <1>1, <1>2, <1>3, <1>4

(* The first statement of a script that has one, and the rest.              *)
LEMMA FirstStatement ==
  ASSUME NEW x \in Stmts, NEW a \in Seq(Stmts)
  PROVE  <<x>> \o a # <<>> /\ Head(<<x>> \o a) = x /\ Tail(<<x>> \o a) = a
  OBVIOUS

(* An order of objects.                                                     *)
LEMMA ListFacts ==
  ASSUME NEW S \in SUBSET Objects, NEW order, Lists(order, S)
  PROVE  /\ order \in Seq(Objects) /\ Len(order) \in Nat /\ DOMAIN order = 1..Len(order)
         /\ First(order, 0) = {} /\ First(order, Len(order)) = S
         /\ \A i \in 1..Len(order) :
              /\ order[i] \in S /\ order[i] \in Objects
              /\ First(order, i - 1) \subseteq S /\ order[i] \notin First(order, i - 1)
              /\ First(order, i) = First(order, i - 1) \cup {order[i]}
<1>1. /\ Len(order) \in Nat /\ DOMAIN order = 1..Len(order) /\ order \in Seq(Objects)
      /\ \A i \in 1..Len(order) : order[i] \in S /\ order[i] \in Objects
  BY DEF Lists
<1>2. First(order, 0) = {}
  BY DEF First
<1>3. First(order, Len(order)) = S
  BY <1>1 DEF Lists, First
<1>4. ASSUME NEW i \in 1..Len(order)
      PROVE  /\ First(order, i - 1) \subseteq S /\ order[i] \notin First(order, i - 1)
             /\ First(order, i) = First(order, i - 1) \cup {order[i]}
  <2>1. \A j \in 1..(i - 1) : j \in 1..Len(order) /\ j # i
    BY <1>1
  <2>2. \A j \in 1..(i - 1) : order[j] # order[i] /\ order[j] \in S
    BY <1>1, <2>1 DEF Lists
  <2>3. 1..i = (1..(i - 1)) \cup {i}
    BY <1>1
  <2> QED BY <2>2, <2>3 DEF First
<1> QED BY <1>1, <1>2, <1>3, <1>4

(* Backwards, what needs an object comes before it.                         *)
UsersFirst(order, S, s) ==
  /\ Lists(order, S)
  /\ \A i \in DOMAIN order : \A y \in S : order[i] \in Needs(s[y]) => y \in First(order, i - 1)

(* The reverse of an order by need is such an order.                        *)
LEMMA ReversedByNeed ==
  ASSUME NEW S \in SUBSET Objects, NEW s, NEW order, NeedsFirst(order, S, s)
  PROVE  UsersFirst(Reverse(order), S, s) /\ Len(Reverse(order)) = Len(order)
<1> DEFINE rev == Reverse(order)
           n == Len(order)
<1>1. /\ n \in Nat /\ DOMAIN order = 1..n
      /\ \A i \in 1..n : order[i] \in S
      /\ \A i, j \in 1..n : i # j => order[i] # order[j]
      /\ \A x \in S : \E i \in 1..n : order[i] = x
  BY DEF NeedsFirst, Lists
<1>2. rev = [i \in 1..n |-> order[(n - i) + 1]]
  BY DEF Reverse
<1> HIDE DEF rev
<1>3. \A i \in 1..n : (n - i) + 1 \in 1..n /\ rev[i] = order[(n - i) + 1]
  BY <1>1, <1>2
<1>4. rev \in Seq(S) /\ DOMAIN rev = 1..n /\ Len(rev) = n
  <2>1. rev \in [1..n -> S]
    BY <1>1, <1>2, <1>3
  <2> QED BY <1>1, <2>1
<1>5. \A i, j \in 1..n : i # j => rev[i] # rev[j]
  BY <1>1, <1>3
<1>6. \A x \in S : \E i \in 1..n : rev[i] = x
  <2> SUFFICES ASSUME NEW x \in S PROVE \E i \in 1..n : rev[i] = x
    OBVIOUS
  <2>1. PICK k \in 1..n : order[k] = x
    BY <1>1
  <2>2. (n - k) + 1 \in 1..n /\ (n - ((n - k) + 1)) + 1 = k
    BY <1>1
  <2> QED BY <1>3, <2>1, <2>2
<1>7. ASSUME NEW i \in 1..n, NEW y \in S, rev[i] \in Needs(s[y])
      PROVE  y \in First(rev, i - 1)
  <2>1. PICK k \in 1..n : order[k] = y
    BY <1>1
  <2>2. rev[i] \in First(order, k - 1)
    BY <1>1, <1>3, <1>7, <2>1 DEF NeedsFirst
  <2>3. PICK j \in 1..(k - 1) : order[j] = rev[i]
    BY <2>2 DEF First
  <2>4. j = (n - i) + 1
    BY <1>1, <1>3, <2>3
  <2>5. (n - k) + 1 \in 1..(i - 1) /\ (n - ((n - k) + 1)) + 1 = k
    BY <1>1, <2>4
  <2>6. rev[(n - k) + 1] = y
    BY <1>1, <1>3, <2>1, <2>5
  <2> QED BY <2>5, <2>6 DEF First
<1>8. Lists(rev, S)
  BY <1>4, <1>5, <1>6 DEF Lists
<1> QED BY <1>4, <1>7, <1>8 DEF UsersFirst, rev

(* The orders of the planner.                                               *)
LEMMA OrdersOfPlan ==
  ASSUME Schema(prev), Schema(next)
  PROVE  /\ NeedsFirst(ups, Changed, next) /\ UsersFirst(Reverse(ups), Changed, next)
         /\ NeedsFirst(downs, Gone, prev) /\ UsersFirst(Reverse(downs), Gone, prev)
         /\ Len(Reverse(ups)) = Len(ups) /\ Len(Reverse(downs)) = Len(downs)
<1> DEFINE f(S) == [o \in S |-> IF next[o] # Absent THEN next[o].deps ELSE prev[o].deps]
<1>1. \A S : Ordered(prev, next, S) = OrderOf(S, f(S), Owner)
  BY DEF Ordered
<1>2. /\ Changed \in SUBSET (Present(next) \cap Ours) /\ Gone \in SUBSET (Present(prev) \cap Ours)
      /\ Gone \cap Present(next) = {} /\ Changed \in SUBSET Objects /\ Gone \in SUBSET Objects
  BY ChangesAreOurs DEF Ours
<1>3. \A o \in Changed : f(Changed)[o] = next[o].deps
  BY <1>2 DEF Present
<1>4. \A o \in Gone : f(Gone)[o] = prev[o].deps
  BY <1>2 DEF Present
<1> HIDE DEF f
<1>5. NeedsFirst(ups, Changed, next)
  BY <1>1, <1>2, <1>3, OrderedByNeed DEF ups
<1>6. NeedsFirst(downs, Gone, prev)
  BY <1>1, <1>2, <1>4, OrderedByNeed DEF downs
<1> QED BY <1>2, <1>5, <1>6, ReversedByNeed

(* Each part goes from one complete part of the next state to another.      *)
LEMMA CompleteParts ==
  ASSUME Schema(prev), Schema(next)
  PROVE  /\ \A i \in 0..Len(ups) : Complete(First(ups, i))
         /\ \A i \in 0..Len(downs) : Complete(Changed \cup First(Reverse(downs), i))
         /\ \A i \in 0..Len(downs) : Complete(Changed \cup (Gone \ First(downs, i)))
         /\ \A i \in 0..Len(ups) : Complete(Changed \ First(Reverse(ups), i))
<1>1. /\ Changed \subseteq Objects /\ Gone \subseteq Objects /\ Changed \cap Gone = {}
      /\ Gone \cap Present(next) = {} /\ Changed \subseteq Present(next)
  BY ChangesAreOurs DEF Ours
(* A part that is left with all its predecessors.                           *)
<1>2. ASSUME NEW S \in SUBSET Objects, NEW order, Lists(order, S), NEW i \in 0..Len(order)
      PROVE  /\ First(order, i) \subseteq S
             /\ \A x \in First(order, i) : \E j \in 1..Len(order) :
                  order[j] = x /\ First(order, j - 1) \subseteq First(order, i)
  <2>1. Len(order) \in Nat /\ \A j \in 1..Len(order) : order[j] \in S
    BY <1>2, ListFacts
  <2>2. \A j \in 1..i : j \in 1..Len(order) /\ \A k \in 1..(j - 1) : k \in 1..i
    BY <2>1
  <2> QED BY <2>1, <2>2 DEF First
<1>3. ASSUME NEW i \in 0..Len(ups) PROVE Complete(First(ups, i))
  <2>1. /\ First(ups, i) \subseteq Changed
        /\ \A x \in First(ups, i) : \E j \in 1..Len(ups) :
             ups[j] = x /\ First(ups, j - 1) \subseteq First(ups, i)
    BY <1>1, <1>2, OrdersOfPlan DEF NeedsFirst
  <2>2. \A x \in First(ups, i) : Needs(next[x]) \cap Changed \subseteq First(ups, i)
    <3> SUFFICES ASSUME NEW x \in First(ups, i) PROVE Needs(next[x]) \cap Changed \subseteq First(ups, i)
      OBVIOUS
    <3>1. PICK j \in 1..Len(ups) : ups[j] = x /\ First(ups, j - 1) \subseteq First(ups, i)
      BY <2>1
    <3>2. j \in DOMAIN ups
      BY <1>1, <3>1, OrdersOfPlan, ListFacts DEF NeedsFirst
    <3> QED BY <3>1, <3>2, OrdersOfPlan DEF NeedsFirst
  <2> QED BY <1>1, <2>1, <2>2 DEF Complete
(* An old object that needs one that is gone is gone as well.               *)
<1>4. ASSUME NEW x \in Present(prev) \cap Ours, x \notin Changed, NEW y \in Needs(prev[x]) \cap Gone
      PROVE  x \in Gone
  <2> SUFFICES ASSUME x \notin Gone PROVE FALSE
    OBVIOUS
  <2>1. prev[x] = next[x] /\ x \in Present(next) \cap Ours
    BY <1>4, ChangesAreOurs DEF Present
  <2>2. y \in Present(next)
    BY <2>1, NeedsAreThere
  <2> QED BY <1>1, <2>2
<1>5. ASSUME NEW i \in 0..Len(downs) PROVE Complete(Changed \cup First(Reverse(downs), i))
  <2> DEFINE rev == Reverse(downs)
             A == Changed \cup First(rev, i)
  <2>1. UsersFirst(rev, Gone, prev) /\ Lists(rev, Gone) /\ i \in 0..Len(rev) /\ DOMAIN rev = 1..Len(rev)
    BY <1>1, OrdersOfPlan, ListFacts DEF UsersFirst
  <2> HIDE DEF rev
  <2>2. /\ First(rev, i) \subseteq Gone
        /\ \A x \in First(rev, i) : \E j \in 1..Len(rev) :
             rev[j] = x /\ First(rev, j - 1) \subseteq First(rev, i)
    BY <1>1, <1>2, <2>1
  <2>3. ASSUME NEW x \in (Present(prev) \cap Ours) \ A, NEW y \in Needs(prev[x]) \cap Gone \cap A
        PROVE  FALSE
    <3>1. x \in Gone /\ y \in First(rev, i)
      BY <1>1, <1>4, <2>3
    <3>2. PICK j \in 1..Len(rev) : rev[j] = y /\ First(rev, j - 1) \subseteq First(rev, i)
      BY <2>2, <3>1
    <3>3. x \in First(rev, j - 1)
      BY <2>1, <3>1, <3>2 DEF UsersFirst
    <3> QED BY <2>3, <3>2, <3>3
  <2>4. Complete(A)
    BY <2>2, <2>3 DEF Complete
  <2> QED BY <2>4 DEF rev
<1>6. ASSUME NEW i \in 0..Len(downs) PROVE Complete(Changed \cup (Gone \ First(downs, i)))
  <2> DEFINE A == Changed \cup (Gone \ First(downs, i))
  <2>1. NeedsFirst(downs, Gone, prev) /\ Lists(downs, Gone) /\ DOMAIN downs = 1..Len(downs)
    BY <1>1, OrdersOfPlan, ListFacts DEF NeedsFirst
  <2>2. /\ First(downs, i) \subseteq Gone
        /\ \A x \in First(downs, i) : \E j \in 1..Len(downs) :
             downs[j] = x /\ First(downs, j - 1) \subseteq First(downs, i)
    BY <1>1, <1>2, <2>1
  <2>3. ASSUME NEW x \in (Present(prev) \cap Ours) \ A, NEW y \in Needs(prev[x]) \cap Gone \cap A
        PROVE  FALSE
    <3>1. x \in First(downs, i) /\ y \notin First(downs, i)
      BY <1>1, <1>4, <2>3
    <3>2. PICK j \in 1..Len(downs) : downs[j] = x /\ First(downs, j - 1) \subseteq First(downs, i)
      BY <2>2, <3>1
    <3>3. y \in First(downs, j - 1)
      BY <2>1, <3>1, <3>2 DEF NeedsFirst
    <3> QED BY <3>1, <3>2, <3>3
  <2>4. Complete(A)
    BY <2>2, <2>3 DEF Complete
  <2> QED BY <2>4
<1>7. ASSUME NEW i \in 0..Len(ups) PROVE Complete(Changed \ First(Reverse(ups), i))
  <2> DEFINE rev == Reverse(ups)
             A == Changed \ First(rev, i)
  <2>1. UsersFirst(rev, Changed, next) /\ Lists(rev, Changed) /\ i \in 0..Len(rev) /\ DOMAIN rev = 1..Len(rev)
    BY <1>1, OrdersOfPlan, ListFacts DEF UsersFirst
  <2> HIDE DEF rev
  <2>2. /\ First(rev, i) \subseteq Changed
        /\ \A x \in First(rev, i) : \E j \in 1..Len(rev) :
             rev[j] = x /\ First(rev, j - 1) \subseteq First(rev, i)
    BY <1>1, <1>2, <2>1
  <2>3. ASSUME NEW x \in A, NEW y \in Needs(next[x]) \cap Changed, y \notin A
        PROVE  FALSE
    <3>1. x \in Changed /\ x \notin First(rev, i) /\ y \in First(rev, i)
      BY <2>3
    <3>2. PICK j \in 1..Len(rev) : rev[j] = y /\ First(rev, j - 1) \subseteq First(rev, i)
      BY <2>2, <3>1
    <3>3. x \in First(rev, j - 1)
      BY <2>1, <3>1, <3>2 DEF UsersFirst
    <3> QED BY <3>1, <3>2, <3>3
  <2>4. Complete(A)
    BY <1>1, <2>2, <2>3 DEF Complete
  <2> QED BY <2>4 DEF rev
<1> QED BY <1>3, <1>5, <1>6, <1>7

(* The statements of a change.                                              *)
LEMMA StatementsOfChange ==
  ASSUME NEW o \in Objects, NEW a \in Values, NEW b \in Values
  PROVE  /\ Create(o, a, b) \in Seq(Stmts) /\ Undo(o, a, b) \in Seq(Stmts)
         /\ EmitOf(o, b) \in Stmts /\ RemoveOf(o, b) \in Stmts /\ AlterOf(o, b) \in Stmts
<1>1. \A d \in Values : EmitOf(o, d) \in Stmts /\ RemoveOf(o, d) \in Stmts /\ AlterOf(o, d) \in Stmts
  BY DEF EmitOf, RemoveOf, AlterOf, Stmts
<1>2. ASSUME NEW c \in Values, NEW d \in Values PROVE Overwrite(o, c, d) \in Seq(Stmts)
  <2>1. \/ Overwrite(o, c, d) = <<AlterOf(o, d)>>
        \/ Overwrite(o, c, d) = <<RemoveOf(o, c), EmitOf(o, d)>>
    BY Zenon DEF Overwrite, AlterOf
  <2>2. \A x, y \in Stmts : <<x>> \in Seq(Stmts) /\ <<x, y>> \in Seq(Stmts)
    OBVIOUS
  <2> QED BY <1>1, <2>1, <2>2
<1>3. Create(o, a, b) = <<EmitOf(o, b)>> \/ Create(o, a, b) = Overwrite(o, a, b)
  BY Zenon DEF Create
<1>4. Undo(o, a, b) = <<RemoveOf(o, b)>> \/ Undo(o, a, b) = Overwrite(o, b, a)
  BY Zenon DEF Undo
<1>5. \A x \in Stmts : <<x>> \in Seq(Stmts)
  OBVIOUS
<1>6. Create(o, a, b) \in Seq(Stmts)
  BY <1>1, <1>2, <1>3, <1>5
<1>7. Undo(o, a, b) \in Seq(Stmts)
  BY <1>1, <1>2, <1>4, <1>5
<1> QED BY <1>1, <1>6, <1>7

(* Both scripts add statements to what there is.                            *)
LEMMA CreatingAdds == Creating!Adding(Pairs, Stmts) /\ Undoing!Adding(Pairs, Stmts)
<1>1. ASSUME NEW c \in Pairs
      PROVE  /\ c.obj \in Objects /\ Create(c.obj, c.from, c.to) \in Seq(Stmts)
             /\ Undo(c.obj, c.from, c.to) \in Seq(Stmts)
  BY StatementsOfChange DEF Pairs
<1>2. ASSUME NEW a \in Seq(Stmts) PROVE <<>> \o a = a
  BY ConcatEmptySeq
<1>3. \A c \in Pairs : /\ Creating!Piece(c) = Create(c.obj, c.from, c.to)
                       /\ Undoing!Piece(c) = Undo(c.obj, c.from, c.to)
  BY <1>1, <1>2 DEF Creating!Piece, Undoing!Piece, CreateOne, UndoOne
<1>4. Creating!Adding(Pairs, Stmts)
  BY <1>1, <1>3 DEF Creating!Adding, CreateOne
<1>5. Undoing!Adding(Pairs, Stmts)
  BY <1>1, <1>3 DEF Undoing!Adding, UndoOne
<1> QED BY <1>4, <1>5

(* A part of a script that goes over the changes in an order.               *)
LEMMA ChangesUnroll ==
  ASSUME Schema(prev), Schema(next), NEW S \in SUBSET Objects, NEW order, Lists(order, S)
  PROVE  LET a == Changes(order, prev, next)
             creates(i) == Creates!Fold(<<>>, LeftOf(a, i))
             undoes(i) == Undoes!Fold(<<>>, LeftOf(a, i))
         IN  /\ creates(0) = Creates!Fold(<<>>, a) /\ creates(Len(order)) = <<>>
             /\ undoes(0) = Undoes!Fold(<<>>, a) /\ undoes(Len(order)) = <<>>
             /\ \A i \in 1..Len(order) :
                  /\ creates(i) \in Seq(Stmts)
                  /\ creates(i - 1) = Create(order[i], prev[order[i]], next[order[i]]) \o creates(i)
                  /\ undoes(i) \in Seq(Stmts)
                  /\ undoes(i - 1) = Undo(order[i], prev[order[i]], next[order[i]]) \o undoes(i)
<1> DEFINE a == Changes(order, prev, next)
           creates(i) == Creates!Fold(<<>>, LeftOf(a, i))
           undoes(i) == Undoes!Fold(<<>>, LeftOf(a, i))
<1>1. /\ Len(order) \in Nat /\ DOMAIN order = 1..Len(order)
      /\ \A i \in 1..Len(order) : order[i] \in Objects
  BY ListFacts
<1>2. prev \in [Objects -> Values] /\ next \in [Objects -> Values]
  BY DEF Schema, Typed
<1>3. a = [i \in 1..Len(order) |-> [obj |-> order[i], from |-> prev[order[i]], to |-> next[order[i]]]]
  BY <1>1 DEF Changes
<1> HIDE DEF a
<1>4. \A i \in 1..Len(order) :
        /\ a[i] \in Pairs /\ a[i].obj = order[i]
        /\ a[i].from = prev[order[i]] /\ a[i].to = next[order[i]]
  BY <1>1, <1>2, <1>3 DEF Pairs
<1>5. a \in Seq(Pairs) /\ Len(a) = Len(order)
  <2>1. a \in [1..Len(order) -> Pairs]
    BY <1>3, <1>4
  <2> QED BY <1>1, <2>1
<1>6. \A ms : Creates!Fold(<<>>, ms) = Creating!Fold(<<>>, ms) /\ Undoes!Fold(<<>>, ms) = Undoing!Fold(<<>>, ms)
  BY DEF Creates!Fold, Creating!Fold, Undoes!Fold, Undoing!Fold
<1>7. /\ LeftOf(a, 0) = a /\ LeftOf(a, Len(order)) = <<>>
      /\ \A i \in 1..Len(order) : LeftOf(a, i) \in Seq(Pairs) /\ LeftOf(a, i - 1) = <<a[i]>> \o LeftOf(a, i)
  BY <1>5, LeftFacts
<1>8. Creating!Fold(<<>>, <<>>) = <<>> /\ Undoing!Fold(<<>>, <<>>) = <<>>
  BY Creating!FoldEmpty, Undoing!FoldEmpty
<1>9. ASSUME NEW i \in 1..Len(order)
      PROVE  /\ creates(i) \in Seq(Stmts)
             /\ creates(i - 1) = Create(order[i], prev[order[i]], next[order[i]]) \o creates(i)
             /\ undoes(i) \in Seq(Stmts)
             /\ undoes(i - 1) = Undo(order[i], prev[order[i]], next[order[i]]) \o undoes(i)
  <2> DEFINE rest == LeftOf(a, i)
  <2>1. a[i] \in Pairs /\ rest \in Seq(Pairs) /\ LeftOf(a, i - 1) = <<a[i]>> \o rest
    BY <1>4, <1>7
  <2> HIDE DEF rest
  <2>2. /\ Creating!Fold(<<>>, rest) \in Seq(Stmts)
        /\ Creating!Fold(<<>>, <<a[i]>> \o rest) = Creating!Piece(a[i]) \o Creating!Fold(<<>>, rest)
    BY <2>1, CreatingAdds, Creating!FoldOfAdding
  <2>3. /\ Undoing!Fold(<<>>, rest) \in Seq(Stmts)
        /\ Undoing!Fold(<<>>, <<a[i]>> \o rest) = Undoing!Piece(a[i]) \o Undoing!Fold(<<>>, rest)
    BY <2>1, CreatingAdds, Undoing!FoldOfAdding
  <2>4. /\ Creating!Piece(a[i]) = Create(order[i], prev[order[i]], next[order[i]])
        /\ Undoing!Piece(a[i]) = Undo(order[i], prev[order[i]], next[order[i]])
    <3>1. /\ Create(order[i], prev[order[i]], next[order[i]]) \in Seq(Stmts)
          /\ Undo(order[i], prev[order[i]], next[order[i]]) \in Seq(Stmts)
      BY <1>1, <1>2, StatementsOfChange
    <3> QED BY <1>4, <3>1, ConcatEmptySeq DEF Creating!Piece, Undoing!Piece, CreateOne, UndoOne
  <2> QED BY <1>6, <2>1, <2>2, <2>3, <2>4 DEF rest
<1>10. /\ creates(0) = Creates!Fold(<<>>, a) /\ creates(Len(order)) = <<>>
       /\ undoes(0) = Undoes!Fold(<<>>, a) /\ undoes(Len(order)) = <<>>
  BY <1>6, <1>7, <1>8
<1> HIDE DEF creates, undoes
<1>11. /\ creates(0) = Creates!Fold(<<>>, a) /\ creates(Len(order)) = <<>>
       /\ undoes(0) = Undoes!Fold(<<>>, a) /\ undoes(Len(order)) = <<>>
       /\ \A i \in 1..Len(order) :
            /\ creates(i) \in Seq(Stmts)
            /\ creates(i - 1) = Create(order[i], prev[order[i]], next[order[i]]) \o creates(i)
            /\ undoes(i) \in Seq(Stmts)
            /\ undoes(i - 1) = Undo(order[i], prev[order[i]], next[order[i]]) \o undoes(i)
  BY <1>9, <1>10
<1> QED BY <1>11, Zenon DEF creates, undoes, a

(* And one that drops or creates again what is gone.                        *)
LEMMA GoneUnrolls ==
  ASSUME Schema(prev), NEW order, Lists(order, Gone)
  PROVE  LET drops == Drops(order, prev)
             emits == Emits(order, prev)
         IN  /\ LeftOf(drops, 0) = drops /\ LeftOf(drops, Len(order)) = <<>>
             /\ LeftOf(emits, 0) = emits /\ LeftOf(emits, Len(order)) = <<>>
             /\ \A i \in 1..Len(order) :
                  /\ LeftOf(drops, i) \in Seq(Stmts)
                  /\ LeftOf(drops, i - 1) = <<RemoveOf(order[i], prev[order[i]])>> \o LeftOf(drops, i)
                  /\ LeftOf(emits, i) \in Seq(Stmts)
                  /\ LeftOf(emits, i - 1) = <<EmitOf(order[i], prev[order[i]])>> \o LeftOf(emits, i)
<1> DEFINE drops == Drops(order, prev)
           emits == Emits(order, prev)
<1>1. Gone \in SUBSET Objects /\ prev \in [Objects -> Values]
  BY DEF Gone, Removed, Present, Schema, Typed
<1>2. /\ Len(order) \in Nat /\ DOMAIN order = 1..Len(order)
      /\ \A i \in 1..Len(order) : order[i] \in Objects
  BY <1>1, ListFacts
<1>3. \A i \in 1..Len(order) : /\ RemoveOf(order[i], prev[order[i]]) \in Stmts
                               /\ EmitOf(order[i], prev[order[i]]) \in Stmts
  BY <1>1, <1>2, StatementsOfChange
<1>4. /\ drops = [i \in 1..Len(order) |-> RemoveOf(order[i], prev[order[i]])]
      /\ emits = [i \in 1..Len(order) |-> EmitOf(order[i], prev[order[i]])]
  BY <1>2 DEF Drops, Emits
<1> HIDE DEF drops, emits
<1>5. /\ \A i \in 1..Len(order) : drops[i] = RemoveOf(order[i], prev[order[i]])
      /\ \A i \in 1..Len(order) : emits[i] = EmitOf(order[i], prev[order[i]])
      /\ drops \in [1..Len(order) -> Stmts] /\ emits \in [1..Len(order) -> Stmts]
  BY <1>3, <1>4
<1>6. drops \in Seq(Stmts) /\ emits \in Seq(Stmts) /\ Len(drops) = Len(order) /\ Len(emits) = Len(order)
  BY <1>2, <1>5
<1> QED BY <1>5, <1>6, LeftFacts DEF drops, emits

-----------------------------------------------------------------------------
(* Where a script is: what is left of it, and how far the database is.      *)
Reached(s, A, u) == (~RecreatesUnder => Loose(s, A)) /\ (Planned => At(s, u))

(* `up` is about to create or change the i-th object, has dropped it to     *)
(* create it again, or has dropped i of those that go.                      *)
CreatingAt(i, s, t) ==
  LET A == First(ups, i - 1)
  IN  t = CreatesLeft(i - 1) \o DropsLeft(0) /\ Reached(s, A, Mix(A))

InGapAt(i, s, t) ==
  LET A == First(ups, i - 1)
      o == ups[i]
  IN  /\ prev[o] # Absent /\ Recreated(o)
      /\ t = <<EmitOf(o, next[o])>> \o (CreatesLeft(i) \o DropsLeft(0))
      /\ Reached(s, A, Gap(A, o))

DroppingAt(i, s, t) ==
  LET A == Changed \cup First(Reverse(downs), i)
  IN  t = DropsLeft(i) /\ Reached(s, A, Mix(A))

UpAt(s, t) ==
  \/ \E i \in 1..Len(ups) : CreatingAt(i, s, t) \/ InGapAt(i, s, t)
  \/ \E i \in 0..Len(downs) : DroppingAt(i, s, t)

(* `down` is about to create the i-th object again, has undone i of the     *)
(* changes, or has dropped one more to create it as it was.                 *)
RestoringAt(i, s, t) ==
  t = EmitsLeft(i - 1) \o UndoesLeft(0) /\ At(s, Mix(Changed \cup (Gone \ First(downs, i - 1))))

UndoingAt(i, s, t) ==
  t = UndoesLeft(i) /\ At(s, Mix(Changed \ First(Reverse(ups), i)))

InUndoGapAt(i, s, t) ==
  LET A == Changed \ First(Reverse(ups), i)
      o == Reverse(ups)[i]
  IN  /\ prev[o] # Absent /\ Recreated(o)
      /\ t = <<EmitOf(o, prev[o])>> \o UndoesLeft(i)
      /\ At(s, Gap(A, o))

DownAt(s, t) ==
  \/ \E i \in 1..Len(downs) : RestoringAt(i, s, t)
  \/ \E i \in 0..Len(ups) : UndoingAt(i, s, t)
  \/ \E i \in 1..Len(ups) : InUndoGapAt(i, s, t)

(* The statements that are left, one by one.                                *)
LEMMA UpUnrolls ==
  ASSUME Schema(prev), Schema(next)
  PROVE  /\ Up(prev, next) = CreatesLeft(0) \o DropsLeft(0)
         /\ CreatesLeft(Len(ups)) = <<>> /\ DropsLeft(Len(downs)) = <<>>
         /\ DropsLeft(0) \in Seq(Stmts)
         /\ \A i \in 1..Len(ups) :
              /\ CreatesLeft(i) \in Seq(Stmts)
              /\ CreatesLeft(i - 1) = Create(ups[i], prev[ups[i]], next[ups[i]]) \o CreatesLeft(i)
         /\ \A i \in 1..Len(downs) : LET o == Reverse(downs)[i] IN
              /\ DropsLeft(i) \in Seq(Stmts)
              /\ DropsLeft(i - 1) = <<RemoveOf(o, prev[o])>> \o DropsLeft(i)
<1>1. Changed \in SUBSET Objects /\ Gone \in SUBSET Objects
  BY ChangesAreOurs DEF Ours
<1>2. /\ Lists(ups, Changed) /\ Lists(Reverse(downs), Gone) /\ Len(Reverse(downs)) = Len(downs)
      /\ Len(downs) \in Nat
  BY <1>1, OrdersOfPlan, ListFacts DEF NeedsFirst, UsersFirst
<1>3. /\ CreatesLeft(0) = Creates!Fold(<<>>, Changes(ups, prev, next)) /\ CreatesLeft(Len(ups)) = <<>>
      /\ \A i \in 1..Len(ups) :
              /\ CreatesLeft(i) \in Seq(Stmts)
              /\ CreatesLeft(i - 1) = Create(ups[i], prev[ups[i]], next[ups[i]]) \o CreatesLeft(i)
  BY <1>1, <1>2, ChangesUnroll DEF CreatesLeft
<1>4. /\ DropsLeft(0) = Drops(Reverse(downs), prev) /\ DropsLeft(Len(downs)) = <<>>
      /\ \A i \in 1..Len(downs) : LET o == Reverse(downs)[i] IN
              /\ DropsLeft(i) \in Seq(Stmts)
              /\ DropsLeft(i - 1) = <<RemoveOf(o, prev[o])>> \o DropsLeft(i)
  BY <1>1, <1>2, GoneUnrolls DEF DropsLeft
<1>5. DropsLeft(0) \in Seq(Stmts)
  <2>1. CASE Len(downs) = 0
    BY <1>4, <2>1, EmptySeq
  <2>2. CASE Len(downs) # 0
    <3> DEFINE o == Reverse(downs)[1]
    <3>1. 1 \in 1..Len(downs) /\ 1 - 1 = 0
      BY <1>2, <2>2
    <3>2. DropsLeft(0) = <<RemoveOf(o, prev[o])>> \o DropsLeft(1) /\ DropsLeft(1) \in Seq(Stmts)
      BY <1>4, <3>1
    <3>3. o \in Objects
      BY <1>1, <1>2, <3>1, ListFacts
    <3>4. RemoveOf(o, prev[o]) \in Stmts
      BY <3>3, StatementsOfChange DEF Schema, Typed
    <3>5. \A x \in Stmts : <<x>> \in Seq(Stmts)
      OBVIOUS
    <3> HIDE DEF o
    <3> QED BY <3>2, <3>4, <3>5, ConcatProperties
  <2> QED BY <2>1, <2>2
<1>6. Up(prev, next) = CreatesLeft(0) \o DropsLeft(0)
  BY <1>3, <1>4, Zenon DEF Up, ups, downs, Changed, Gone
<1> QED BY <1>3, <1>4, <1>5, <1>6

(* And those of `down`.                                                     *)
LEMMA DownUnrolls ==
  ASSUME Schema(prev), Schema(next)
  PROVE  /\ Down(prev, next) = EmitsLeft(0) \o UndoesLeft(0)
         /\ EmitsLeft(Len(downs)) = <<>> /\ UndoesLeft(Len(ups)) = <<>>
         /\ UndoesLeft(0) \in Seq(Stmts)
         /\ \A i \in 1..Len(downs) :
              /\ EmitsLeft(i) \in Seq(Stmts)
              /\ EmitsLeft(i - 1) = <<EmitOf(downs[i], prev[downs[i]])>> \o EmitsLeft(i)
         /\ \A i \in 1..Len(ups) : LET o == Reverse(ups)[i] IN
              /\ UndoesLeft(i) \in Seq(Stmts)
              /\ UndoesLeft(i - 1) = Undo(o, prev[o], next[o]) \o UndoesLeft(i)
<1>1. Changed \in SUBSET Objects /\ Gone \in SUBSET Objects
  BY ChangesAreOurs DEF Ours
<1>2. /\ Lists(Reverse(ups), Changed) /\ Lists(downs, Gone) /\ Len(Reverse(ups)) = Len(ups)
      /\ Len(ups) \in Nat
  BY <1>1, OrdersOfPlan, ListFacts DEF NeedsFirst, UsersFirst
<1>3. /\ UndoesLeft(0) = Undoes!Fold(<<>>, Changes(Reverse(ups), prev, next))
      /\ UndoesLeft(Len(ups)) = <<>>
      /\ \A i \in 1..Len(ups) : LET o == Reverse(ups)[i] IN
              /\ UndoesLeft(i) \in Seq(Stmts)
              /\ UndoesLeft(i - 1) = Undo(o, prev[o], next[o]) \o UndoesLeft(i)
  BY <1>1, <1>2, ChangesUnroll DEF UndoesLeft
<1>4. /\ EmitsLeft(0) = Emits(downs, prev) /\ EmitsLeft(Len(downs)) = <<>>
      /\ \A i \in 1..Len(downs) :
              /\ EmitsLeft(i) \in Seq(Stmts)
              /\ EmitsLeft(i - 1) = <<EmitOf(downs[i], prev[downs[i]])>> \o EmitsLeft(i)
  BY <1>1, <1>2, GoneUnrolls DEF EmitsLeft
<1>5. UndoesLeft(0) \in Seq(Stmts)
  <2>1. CASE Len(ups) = 0
    BY <1>3, <2>1, EmptySeq
  <2>2. CASE Len(ups) # 0
    <3> DEFINE o == Reverse(ups)[1]
    <3>1. 1 \in 1..Len(ups) /\ 1 - 1 = 0
      BY <1>2, <2>2
    <3>2. UndoesLeft(0) = Undo(o, prev[o], next[o]) \o UndoesLeft(1) /\ UndoesLeft(1) \in Seq(Stmts)
      BY <1>3, <3>1
    <3>3. o \in Objects
      BY <1>1, <1>2, <3>1, ListFacts
    <3>4. Undo(o, prev[o], next[o]) \in Seq(Stmts)
      BY <3>3, StatementsOfChange DEF Schema, Typed
    <3> HIDE DEF o
    <3> QED BY <3>2, <3>4, ConcatProperties
  <2> QED BY <2>1, <2>2
<1>6. Down(prev, next) = EmitsLeft(0) \o UndoesLeft(0)
  BY <1>3, <1>4, Zenon DEF Down, ups, downs, Changed, Gone
<1> QED BY <1>3, <1>4, <1>5, <1>6

(* Two statements.                                                          *)
LEMMA TwoInOrder ==
  ASSUME NEW S, NEW x \in S, NEW y \in S
  PROVE  <<x, y>> = <<x>> \o <<y>>
<1>1. <<x>> \in Seq(S) /\ <<y>> \in Seq(S) /\ <<x, y>> \in Seq(S)
  OBVIOUS
<1>2. PICK a : a = <<x>> \o <<y>>
  OBVIOUS
<1>3. a \in Seq(S) /\ Len(a) = 2
  <2>1. Len(<<x>>) = 1 /\ Len(<<y>>) = 1
   OBVIOUS
  <2> QED BY <1>1, <1>2, <2>1, ConcatProperties
<1>4. a[1] = x /\ a[2] = y
  BY <1>1, <1>2
<1>5. PICK b \in Seq(S) : b = <<x, y>>
  BY <1>1
<1>6. Len(b) = 2 /\ b[1] = x /\ b[2] = y
  BY <1>5
<1>7. \A i \in 1..Len(a) : a[i] = b[i]
  BY <1>3, <1>4, <1>6
<1>8. a = b
  BY <1>3, <1>6, <1>7, SeqEqual
<1> QED BY <1>2, <1>5, <1>8

(* The next object is to be created or changed, or the drops are next.      *)
LEMMA NextCreate ==
  ASSUME Schema(prev), Schema(next), NEW i \in 0..Len(ups), NEW s,
         Reached(s, First(ups, i), Mix(First(ups, i)))
  PROVE  UpAt(s, CreatesLeft(i) \o DropsLeft(0))
<1>1. Changed \in SUBSET Objects /\ Gone \in SUBSET Objects
  BY ChangesAreOurs DEF Ours
<1>2. /\ Len(ups) \in Nat /\ First(ups, Len(ups)) = Changed /\ First(Reverse(downs), 0) = {}
      /\ Len(downs) \in Nat
  BY <1>1, OrdersOfPlan, ListFacts DEF NeedsFirst, UsersFirst
<1>3. CASE i # Len(ups)
  <2>1. i + 1 \in 1..Len(ups) /\ (i + 1) - 1 = i
    BY <1>2, <1>3
  <2>2. CreatingAt(i + 1, s, CreatesLeft(i) \o DropsLeft(0))
    BY <2>1 DEF CreatingAt
  <2> QED BY <2>1, <2>2 DEF UpAt
<1>4. CASE i = Len(ups)
  <2>1. CreatesLeft(i) \o DropsLeft(0) = DropsLeft(0)
    BY <1>4, UpUnrolls, ConcatEmptySeq
  <2>2. Changed \cup First(Reverse(downs), 0) = First(ups, i)
    BY <1>2, <1>4
  <2>3. DroppingAt(0, s, CreatesLeft(i) \o DropsLeft(0))
    BY <2>1, <2>2 DEF DroppingAt
  <2>4. 0 \in 0..Len(downs)
    BY <1>2
  <2> QED BY <2>3, <2>4 DEF UpAt
<1> QED BY <1>3, <1>4

(* The object a statement of the first part is about.                       *)
LEMMA UpFacts ==
  ASSUME Schema(prev), Schema(next), NEW i \in 1..Len(ups)
  PROVE  LET o == ups[i]
             A == First(ups, i - 1)
         IN  /\ o \in Changed \ A /\ o \in (Changed \cup Gone) \ A /\ First(ups, i) = A \cup {o}
             /\ Complete(A) /\ Complete(A \cup {o})
             /\ o \in Objects /\ next[o] \in Values /\ prev[o] \in Values
             /\ i \in 0..Len(ups) /\ CreatesLeft(i) \in Seq(Stmts) /\ DropsLeft(0) \in Seq(Stmts)
             /\ CreatesLeft(i) \o DropsLeft(0) \in Seq(Stmts)
             /\ EmitOf(o, next[o]) \in Stmts /\ RemoveOf(o, prev[o]) \in Stmts
             /\ AlterOf(o, next[o]) \in Stmts
<1>1. Changed \in SUBSET Objects
  BY ChangesAreOurs DEF Ours
<1>2. Lists(ups, Changed) /\ Len(ups) \in Nat
  BY <1>1, OrdersOfPlan, ListFacts DEF NeedsFirst
<1>3. /\ ups[i] \in Changed \ First(ups, i - 1) /\ ups[i] \in Objects
      /\ First(ups, i) = First(ups, i - 1) \cup {ups[i]}
  BY <1>1, <1>2, ListFacts
<1>4. i \in 0..Len(ups) /\ i - 1 \in 0..Len(ups)
  BY <1>2
<1>5. Complete(First(ups, i - 1)) /\ Complete(First(ups, i))
  BY <1>4, CompleteParts
<1>6. prev \in [Objects -> Values] /\ next \in [Objects -> Values]
  BY DEF Schema, Typed
<1>7. /\ EmitOf(ups[i], next[ups[i]]) \in Stmts /\ RemoveOf(ups[i], prev[ups[i]]) \in Stmts
      /\ AlterOf(ups[i], next[ups[i]]) \in Stmts
  BY <1>3, <1>6, StatementsOfChange
<1>8. /\ CreatesLeft(i) \in Seq(Stmts) /\ DropsLeft(0) \in Seq(Stmts)
      /\ CreatesLeft(i) \o DropsLeft(0) \in Seq(Stmts)
  BY UpUnrolls, ConcatProperties
<1> QED BY <1>3, <1>4, <1>5, <1>6, <1>7, <1>8

(* Statement by statement.                                                  *)
LEMMA UpInOrder ==
  ASSUME Schema(prev), Schema(next), NEW i \in 1..Len(ups), NEW x \in Stmts, NEW y \in Stmts
  PROVE  LET rest == CreatesLeft(i) \o DropsLeft(0)
         IN  /\ (<<x>> \o CreatesLeft(i)) \o DropsLeft(0) = <<x>> \o rest
             /\ (<<x, y>> \o CreatesLeft(i)) \o DropsLeft(0) = <<x>> \o (<<y>> \o rest)
             /\ <<y>> \o rest \in Seq(Stmts)
<1>1. PICK a \in Seq(Stmts) : a = CreatesLeft(i)
  BY UpFacts
<1>2. PICK b \in Seq(Stmts) : b = DropsLeft(0)
  BY UpFacts
<1>3. <<x>> \in Seq(Stmts) /\ <<y>> \in Seq(Stmts) /\ <<x, y>> = <<x>> \o <<y>>
  BY TwoInOrder
<1>4. /\ (<<x>> \o a) \o b = <<x>> \o (a \o b) /\ (<<x>> \o <<y>>) \o a = <<x>> \o (<<y>> \o a)
      /\ a \o b \in Seq(Stmts) /\ <<y>> \o a \in Seq(Stmts)
  BY <1>3, ConcatAssociative, ConcatProperties
<1>5. (<<x>> \o (<<y>> \o a)) \o b = <<x>> \o ((<<y>> \o a) \o b)
  BY <1>3, <1>4, ConcatAssociative
<1>6. (<<y>> \o a) \o b = <<y>> \o (a \o b) /\ <<y>> \o (a \o b) \in Seq(Stmts)
  BY <1>3, <1>4, ConcatAssociative, ConcatProperties
<1>7. (<<x, y>> \o a) \o b = <<x>> \o (<<y>> \o (a \o b))
  BY <1>3, <1>4, <1>5, <1>6
<1> QED BY <1>1, <1>2, <1>4, <1>6, <1>7, Zenon

(* The next statement of `up` is accepted in the planned cases; if it is    *)
(* accepted, the rest goes on from where it leads.                          *)
UpStep(s, t) ==
  /\ t # <<>>
  /\ Planned => Accepts(s, Head(t))
  /\ Accepts(s, Head(t)) => UpAt(After(s, Head(t)), Tail(t))

(* So it does when the first statement does.                                *)
LEMMA UpStepOf ==
  ASSUME NEW s, NEW x \in Stmts, NEW rest \in Seq(Stmts),
         Planned => Accepts(s, x), Accepts(s, x) => UpAt(After(s, x), rest)
  PROVE  UpStep(s, <<x>> \o rest)
BY FirstStatement, Zenon DEF UpStep

(* The first part: an object is created, ...                                *)
LEMMA CreatingRuns ==
  ASSUME Schema(prev), Schema(next), NEW s, NEW t, NEW i \in 1..Len(ups), CreatingAt(i, s, t)
  PROVE  UpStep(s, t)
<1> DEFINE o == ups[i]
           A == First(ups, i - 1)
           rest == CreatesLeft(i) \o DropsLeft(0)
           emit == EmitOf(o, next[o])
           drop == RemoveOf(o, prev[o])
           alter == AlterOf(o, next[o])
<1>1. /\ o \in Changed \ A /\ o \in (Changed \cup Gone) \ A /\ First(ups, i) = A \cup {o}
      /\ Complete(A) /\ Complete(A \cup {o})
      /\ o \in Objects /\ next[o] \in Values /\ prev[o] \in Values
      /\ i \in 0..Len(ups) /\ CreatesLeft(i) \in Seq(Stmts) /\ DropsLeft(0) \in Seq(Stmts)
      /\ rest \in Seq(Stmts) /\ emit \in Stmts /\ drop \in Stmts /\ alter \in Stmts
  BY UpFacts
<1>2. /\ t = (Create(o, prev[o], next[o]) \o CreatesLeft(i)) \o DropsLeft(0)
      /\ Reached(s, A, Mix(A))
  BY UpUnrolls DEF CreatingAt
<1>3. ASSUME NEW u, Reached(u, A \cup {o}, Mix(A \cup {o})) PROVE UpAt(u, rest)
  BY <1>1, <1>3, NextCreate
<1>4. /\ emit.obj = o /\ emit.op = "emit" /\ emit.def = next[o]
      /\ alter.obj = o /\ alter.op = "alter" /\ alter.def = next[o]
      /\ drop.obj = o /\ drop.op = "remove"
  BY DEF EmitOf, AlterOf, RemoveOf
<1> HIDE DEF A, rest, emit, drop, alter
<1>5. CASE prev[o] = Absent
  <2>1. t = <<emit>> \o rest
    <3>1. Create(o, prev[o], next[o]) = <<emit>>
      BY <1>5, Zenon DEF Create, emit
    <3>2. (<<emit>> \o CreatesLeft(i)) \o DropsLeft(0) = <<emit>> \o rest
      BY <1>1, UpInOrder DEF rest
    <3> QED BY <1>2, <3>1, <3>2, Zenon
  <2>2. Planned => Accepts(s, emit) /\ At(After(s, emit), Mix(A \cup {o}))
    BY <1>1, <1>2, <1>5, CreateStep DEF Reached, emit
  <2>3. ~RecreatesUnder => Loose(After(s, emit), A \cup {o})
    <3>1. o \notin Alters
      BY <1>5 DEF Alters
    <3> QED BY <1>1, <1>2, <1>4, <3>1, LooseStep DEF Reached
  <2>4. Reached(After(s, emit), A \cup {o}, Mix(A \cup {o}))
    BY <2>2, <2>3 DEF Reached
  <2> QED BY <1>1, <1>3, <2>1, <2>2, <2>4, UpStepOf
<1>6. CASE prev[o] # Absent /\ ~Recreated(o)
  <2>1. t = <<alter>> \o rest
    <3>1. Create(o, prev[o], next[o]) = <<alter>>
      BY <1>6, Zenon DEF Create, Overwrite, Recreated, AlterOf, alter
    <3>2. (<<alter>> \o CreatesLeft(i)) \o DropsLeft(0) = <<alter>> \o rest
      BY <1>1, UpInOrder DEF rest
    <3> QED BY <1>2, <3>1, <3>2, Zenon
  <2>2. Planned => Accepts(s, alter) /\ At(After(s, alter), Mix(A \cup {o}))
    BY <1>1, <1>2, <1>6, AlterStep DEF Reached, alter
  <2>3. ~RecreatesUnder /\ Accepts(s, alter) => Loose(After(s, alter), A \cup {o})
    <3>1. Accepts(s, alter) => s[o] # Absent
      BY <1>4 DEF Accepts
    <3> QED BY <1>1, <1>2, <1>4, <3>1, LooseStep DEF Reached
  <2>4. Accepts(s, alter) => Reached(After(s, alter), A \cup {o}, Mix(A \cup {o}))
    BY <2>2, <2>3 DEF Reached
  <2> QED BY <1>1, <1>3, <2>1, <2>2, <2>4, UpStepOf
<1>7. CASE prev[o] # Absent /\ Recreated(o)
  <2>1. t = <<drop>> \o (<<emit>> \o rest)
    <3>1. Create(o, prev[o], next[o]) = <<drop, emit>>
      BY <1>7, Zenon DEF Create, Overwrite, Recreated, drop, emit
    <3>2. (<<drop, emit>> \o CreatesLeft(i)) \o DropsLeft(0) = <<drop>> \o (<<emit>> \o rest)
      BY <1>1, UpInOrder DEF rest
    <3> QED BY <1>2, <3>1, <3>2, Zenon
  <2>2. Planned => Accepts(s, drop) /\ At(After(s, drop), Gap(A, o))
    BY <1>1, <1>2, <1>7, GapStep DEF Reached, drop
  <2>3. ~RecreatesUnder => Loose(After(s, drop), A)
    <3>1. o \notin Alters
      BY <1>7 DEF Alters
    <3> QED BY <1>1, <1>2, <1>4, <3>1, LooseStep DEF Reached
  <2>4. Reached(After(s, drop), A, Gap(A, o))
    BY <2>2, <2>3 DEF Reached
  <2>5. InGapAt(i, After(s, drop), <<emit>> \o rest)
    BY <1>7, <2>4, Zenon DEF InGapAt, A, emit, rest
  <2>6. UpAt(After(s, drop), <<emit>> \o rest) /\ <<emit>> \o rest \in Seq(Stmts)
    BY <1>1, <2>5, UpInOrder DEF UpAt, rest
  <2> QED BY <1>1, <2>1, <2>2, <2>6, UpStepOf
<1> QED BY <1>5, <1>6, <1>7

(* or created again, ...                                                    *)
LEMMA InGapRuns ==
  ASSUME Schema(prev), Schema(next), NEW s, NEW t, NEW i \in 1..Len(ups), InGapAt(i, s, t)
  PROVE  UpStep(s, t)
<1> DEFINE o == ups[i]
           A == First(ups, i - 1)
           rest == CreatesLeft(i) \o DropsLeft(0)
           emit == EmitOf(o, next[o])
<1>1. /\ o \in Changed \ A /\ o \in (Changed \cup Gone) \ A /\ First(ups, i) = A \cup {o}
      /\ Complete(A) /\ Complete(A \cup {o}) /\ i \in 0..Len(ups)
      /\ rest \in Seq(Stmts) /\ emit \in Stmts
  BY UpFacts
<1>2. /\ prev[o] # Absent /\ Recreated(o) /\ t = <<emit>> \o rest
      /\ Reached(s, A, Gap(A, o))
  BY Zenon DEF InGapAt
<1>3. emit.obj = o /\ emit.op = "emit" /\ emit.def = next[o]
  BY DEF EmitOf
<1> HIDE DEF A, rest, emit
<1>4. Planned => Accepts(s, emit) /\ At(After(s, emit), Mix(A \cup {o}))
  BY <1>1, <1>2, CreateStep DEF Reached, emit
<1>5. ~RecreatesUnder => Loose(After(s, emit), A \cup {o})
  <2>1. o \notin Alters
    BY <1>2 DEF Alters
  <2> QED BY <1>1, <1>2, <1>3, <2>1, LooseStep DEF Reached
<1>6. Reached(After(s, emit), A \cup {o}, Mix(A \cup {o}))
  BY <1>4, <1>5 DEF Reached
<1>7. UpAt(After(s, emit), rest)
  BY <1>1, <1>6, NextCreate DEF rest
<1> QED BY <1>1, <1>2, <1>4, <1>7, UpStepOf

(* and the second: one that is gone is dropped.                             *)
LEMMA DroppingRuns ==
  ASSUME Schema(prev), Schema(next), NEW s, NEW t, NEW i \in 0..Len(downs), i # Len(downs),
         DroppingAt(i, s, t)
  PROVE  UpStep(s, t)
<1> DEFINE rev == Reverse(downs)
           o == rev[i + 1]
           A == Changed \cup First(rev, i)
           rest == DropsLeft(i + 1)
           drop == RemoveOf(o, prev[o])
<1>1. Changed \in SUBSET Objects /\ Gone \in SUBSET Objects /\ Changed \cap Gone = {}
      /\ Gone \cap Present(next) = {}
  BY ChangesAreOurs DEF Ours
<1>2. Lists(rev, Gone) /\ Len(rev) = Len(downs) /\ Len(downs) \in Nat
  BY <1>1, OrdersOfPlan, ListFacts DEF NeedsFirst, UsersFirst
<1>3. i + 1 \in 1..Len(downs) /\ (i + 1) - 1 = i /\ i + 1 \in 0..Len(downs)
  BY <1>2
<1>4. o \in Gone /\ o \notin First(rev, i) /\ First(rev, i + 1) = First(rev, i) \cup {o}
  <2> HIDE DEF rev
  <2>1. PICK k : k = i + 1
    OBVIOUS
  <2>2. k \in 1..Len(rev) /\ k - 1 = i
    BY <1>2, <1>3, <2>1
  <2>3. rev[k] \in Gone /\ rev[k] \notin First(rev, k - 1) /\ First(rev, k) = First(rev, k - 1) \cup {rev[k]}
    BY <1>1, <1>2, <2>2, ListFacts
  <2> QED BY <2>1, <2>2, <2>3
<1>5. /\ o \in (Changed \cup Gone) \ A /\ Changed \cup First(rev, i + 1) = A \cup {o}
      /\ o \in Ours /\ o \notin A /\ next[o] = Absent /\ o \in Objects /\ o \notin Changed
  BY <1>1, <1>4, ChangesAreOurs DEF Ours, Present
<1>6. Complete(A \cup {o})
  BY <1>3, <1>5, CompleteParts
<1>7. t = <<drop>> \o rest /\ rest \in Seq(Stmts) /\ Reached(s, A, Mix(A))
  <2>1. t = DropsLeft(i) /\ Reached(s, A, Mix(A))
    BY Zenon DEF DroppingAt
  <2> QED BY <1>3, <2>1, UpUnrolls
<1>8. drop \in Stmts /\ drop.obj = o /\ drop.op = "remove"
  <2>1. prev[o] \in Values
    BY <1>5 DEF Schema, Typed
  <2> QED BY <1>5, <2>1, StatementsOfChange DEF RemoveOf
<1> HIDE DEF A, rest, drop, rev, o
<1>9. Planned => Accepts(s, drop) /\ At(After(s, drop), Mix(A \cup {o}))
  BY <1>5, <1>6, <1>7, DropStep DEF Reached, drop
<1>10. ~RecreatesUnder => Loose(After(s, drop), A \cup {o})
  <2>1. o \notin Alters
    BY <1>5 DEF Alters
  <2> QED BY <1>5, <1>6, <1>7, <1>8, <2>1, LooseStep DEF Reached
<1>11. Reached(After(s, drop), A \cup {o}, Mix(A \cup {o}))
  BY <1>9, <1>10 DEF Reached
<1>12. DroppingAt(i + 1, After(s, drop), rest)
  BY <1>5, <1>11 DEF DroppingAt, rest, rev
<1>13. UpAt(After(s, drop), rest)
  BY <1>3, <1>12 DEF UpAt
<1> QED BY <1>7, <1>8, <1>9, <1>13, UpStepOf

(* `up` starts in the old state, ...                                        *)
LEMMA UpStarts ==
  ASSUME Schema(prev), Schema(next)
  PROVE  UpAt(prev, Up(prev, next))
<1>1. Changed \in SUBSET Objects /\ DOMAIN prev = Objects /\ prev = Mix({})
  BY ChangesAreOurs DEF Ours, Schema, Typed, Mix
<1>2. First(ups, 0) = {} /\ 0 \in 0..Len(ups)
  <2>1. Lists(ups, Changed)
    BY OrdersOfPlan DEF NeedsFirst
  <2>2. First(ups, 0) = {} /\ Len(ups) \in Nat
    BY <1>1, <2>1, ListFacts
  <2> QED BY <2>2
<1>3. Within(prev, {}) /\ Kept(prev, {})
  BY <1>1, Zenon DEF Within, Kept
<1>4. At(prev, Mix({}))
  BY <1>1, Zenon DEF At
<1>5. Reached(prev, First(ups, 0), Mix(First(ups, 0)))
  BY <1>2, <1>3, <1>4 DEF Reached, Loose
<1> QED BY <1>2, <1>5, NextCreate, UpUnrolls

(* goes statement by statement ...                                          *)
LEMMA UpRuns ==
  ASSUME Schema(prev), Schema(next), NEW s, NEW t, UpAt(s, t), t # <<>>
  PROVE  UpStep(s, t)
<1>1. DropsLeft(Len(downs)) = <<>>
  BY UpUnrolls
<1>2. \A i \in 0..Len(downs) : DroppingAt(i, s, t) => i # Len(downs)
  BY <1>1 DEF DroppingAt
<1> QED BY <1>2, CreatingRuns, InGapRuns, DroppingRuns DEF UpAt

(* to the new one.                                                          *)
LEMMA UpEnds ==
  ASSUME Schema(prev), Schema(next), NEW s, UpAt(s, <<>>)
  PROVE  Reached(s, Changed \cup Gone, Mix(Changed \cup Gone))
<1>1. ASSUME NEW i \in 1..Len(ups), CreatingAt(i, s, <<>>) \/ InGapAt(i, s, <<>>) PROVE FALSE
  BY <1>1, CreatingRuns, InGapRuns DEF UpStep
<1>2. PICK i \in 0..Len(downs) : DroppingAt(i, s, <<>>)
  BY <1>1 DEF UpAt
<1>3. i = Len(downs)
  BY <1>2, DroppingRuns DEF UpStep
<1>4. Gone \in SUBSET Objects
  BY ChangesAreOurs DEF Ours
<1>5. First(Reverse(downs), Len(downs)) = Gone
  BY <1>4, OrdersOfPlan, ListFacts DEF UsersFirst
<1> QED BY <1>2, <1>3, <1>5 DEF DroppingAt

(* In between nothing misses what it needs.                                 *)
LEMMA FineAt ==
  ASSUME Schema(prev), Schema(next), Planned, NEW A, Complete(A), NEW s, At(s, Mix(A))
  PROVE  Fine(s)
<1> SUFFICES ASSUME NEW x \in Present(s) \ Unmanaged PROVE Holds(s, s[x])
  BY DEF Fine
<1>1. Mix(A) \in Typed
  BY MixIsTyped DEF Present
<1>2. Fine(Mix(A))
  BY MixIsFine DEF Planned
<1>3. Fine(s)
  BY <1>1, <1>2, AsFine
<1> QED BY <1>3 DEF Fine

(* Nor while an object is dropped to be created again.                      *)
LEMMA FineInGap ==
  ASSUME Schema(prev), Schema(next), Planned, NEW A, Complete(A), NEW o \in Changed \ A,
         prev[o] # Absent, Recreated(o), NEW s, At(s, Gap(A, o))
  PROVE  Fine(s)
<1>1. o \in Objects
  BY ChangedFacts
<1>2. Gap(A, o) \in Typed /\ Fine(Gap(A, o))
  BY <1>1, MixIsTyped, GapIsFine DEF Gap
<1> QED BY <1>2, AsFine

(* So `up` leaves everything with what it needs.                            *)
LEMMA UpIsFine ==
  ASSUME Schema(prev), Schema(next), Planned, NEW s, NEW t, UpAt(s, t)
  PROVE  Fine(s)
<1>1. ASSUME NEW i \in 1..Len(ups), CreatingAt(i, s, t) PROVE Fine(s)
  <2>1. Complete(First(ups, i - 1)) /\ At(s, Mix(First(ups, i - 1)))
    BY <1>1, UpFacts DEF CreatingAt, Reached
  <2> QED BY <2>1, FineAt
<1>2. ASSUME NEW i \in 1..Len(ups), InGapAt(i, s, t) PROVE Fine(s)
  <2> DEFINE o == ups[i]
             A == First(ups, i - 1)
  <2>1. Complete(A) /\ o \in Changed \ A
    BY <1>2, UpFacts
  <2>2. prev[o] # Absent /\ Recreated(o) /\ Reached(s, A, Gap(A, o))
    BY <1>2, Zenon DEF InGapAt
  <2> HIDE DEF o, A
  <2>3. At(s, Gap(A, o))
    BY <2>2 DEF Reached
  <2> QED BY <2>1, <2>2, <2>3, FineInGap
<1>3. ASSUME NEW i \in 0..Len(downs), DroppingAt(i, s, t) PROVE Fine(s)
  <2> DEFINE A == Changed \cup First(Reverse(downs), i)
  <2>1. Complete(A)
    BY CompleteParts
  <2>2. Reached(s, A, Mix(A))
    BY <1>3, Zenon DEF DroppingAt
  <2> HIDE DEF A
  <2> QED BY <2>1, <2>2, FineAt DEF Reached
<1> QED BY <1>1, <1>2, <1>3 DEF UpAt

(* The way back.  The next statement of `down` is accepted and the rest     *)
(* goes on from where it leads.                                             *)
DownStep(s, t) ==
  /\ t # <<>>
  /\ Accepts(s, Head(t))
  /\ DownAt(After(s, Head(t)), Tail(t))

(* So it does when the first statement does.                                *)
LEMMA DownStepOf ==
  ASSUME NEW s, NEW x \in Stmts, NEW rest \in Seq(Stmts),
         Accepts(s, x), DownAt(After(s, x), rest)
  PROVE  DownStep(s, <<x>> \o rest)
BY FirstStatement, Zenon DEF DownStep

(* Statement by statement.                                                  *)
LEMMA DownInOrder ==
  ASSUME NEW a \in Seq(Stmts), NEW b \in Seq(Stmts), NEW x \in Stmts, NEW y \in Stmts
  PROVE  /\ (<<x>> \o a) \o b = <<x>> \o (a \o b) /\ a \o b \in Seq(Stmts)
         /\ <<x, y>> \o a = <<x>> \o (<<y>> \o a) /\ <<y>> \o a \in Seq(Stmts)
<1>1. <<x>> \in Seq(Stmts) /\ <<y>> \in Seq(Stmts) /\ <<x, y>> = <<x>> \o <<y>>
  BY TwoInOrder
<1>2. /\ (<<x>> \o a) \o b = <<x>> \o (a \o b) /\ (<<x>> \o <<y>>) \o a = <<x>> \o (<<y>> \o a)
      /\ a \o b \in Seq(Stmts) /\ <<y>> \o a \in Seq(Stmts)
  BY <1>1, ConcatAssociative, ConcatProperties
<1> QED BY <1>1, <1>2

(* The next object is to be created again, or the changes are next.         *)
LEMMA NextRestore ==
  ASSUME Schema(prev), Schema(next), NEW i \in 0..Len(downs), NEW s,
         At(s, Mix(Changed \cup (Gone \ First(downs, i))))
  PROVE  DownAt(s, EmitsLeft(i) \o UndoesLeft(0))
<1>1. Changed \in SUBSET Objects /\ Gone \in SUBSET Objects
  BY ChangesAreOurs DEF Ours
<1>2. Lists(downs, Gone) /\ Lists(Reverse(ups), Changed) /\ Len(Reverse(ups)) = Len(ups)
  BY OrdersOfPlan DEF NeedsFirst, UsersFirst
<1>3. /\ Len(downs) \in Nat /\ First(downs, Len(downs)) = Gone /\ First(Reverse(ups), 0) = {}
      /\ Len(ups) \in Nat
  BY <1>1, <1>2, ListFacts
<1>4. CASE i # Len(downs)
  <2>1. i + 1 \in 1..Len(downs) /\ (i + 1) - 1 = i
    BY <1>3, <1>4
  <2>2. RestoringAt(i + 1, s, EmitsLeft(i) \o UndoesLeft(0))
    BY <2>1 DEF RestoringAt
  <2> QED BY <2>1, <2>2 DEF DownAt
<1>5. CASE i = Len(downs)
  <2>1. EmitsLeft(i) \o UndoesLeft(0) = UndoesLeft(0)
    BY <1>5, DownUnrolls, ConcatEmptySeq
  <2>2. Changed \ First(Reverse(ups), 0) = Changed \cup (Gone \ First(downs, i))
    BY <1>3, <1>5
  <2>3. UndoingAt(0, s, EmitsLeft(i) \o UndoesLeft(0))
    BY <2>1, <2>2 DEF UndoingAt
  <2>4. 0 \in 0..Len(ups)
    BY <1>3
  <2> QED BY <2>3, <2>4 DEF DownAt
<1> QED BY <1>4, <1>5

(* The first part: an object that is gone is created as it was.             *)
LEMMA RestoringRuns ==
  ASSUME Schema(prev), Schema(next), Planned, NEW s, NEW t, NEW i \in 1..Len(downs),
         RestoringAt(i, s, t)
  PROVE  DownStep(s, t)
<1> DEFINE o == downs[i]
           A == Changed \cup (Gone \ First(downs, i))
           rest == EmitsLeft(i) \o UndoesLeft(0)
           emit == EmitOf(o, prev[o])
<1>1. Changed \in SUBSET Objects /\ Gone \in SUBSET Objects
  BY ChangesAreOurs DEF Ours
<1>2. Lists(downs, Gone)
  BY OrdersOfPlan DEF NeedsFirst
<1>3. /\ o \in Gone \ First(downs, i - 1) /\ First(downs, i) = First(downs, i - 1) \cup {o}
      /\ Len(downs) \in Nat /\ i \in 0..Len(downs)
  <2>1. /\ o \in Gone \ First(downs, i - 1) /\ First(downs, i) = First(downs, i - 1) \cup {o}
        /\ Len(downs) \in Nat
    BY <1>1, <1>2, ListFacts
  <2> QED BY <2>1
<1>4. /\ o \in Ours /\ o \in Objects /\ o \notin Changed /\ prev[o] # Absent /\ next[o] = Absent
  BY <1>1, <1>3, ChangesAreOurs DEF Ours, Present
<1>5. /\ o \notin A /\ Changed \cup (Gone \ First(downs, i - 1)) = A \cup {o} /\ Complete(A)
  BY <1>3, <1>4, CompleteParts
<1>6. prev[o] \in Values
  BY <1>4 DEF Schema, Typed
<1>7. emit \in Stmts
  BY <1>4, <1>6, StatementsOfChange
<1>8. t = <<emit>> \o rest /\ rest \in Seq(Stmts) /\ At(s, Mix(A \cup {o}))
  <2>1. PICK a \in Seq(Stmts) : a = EmitsLeft(i) /\ EmitsLeft(i - 1) = <<emit>> \o a
    BY DownUnrolls
  <2>2. PICK b \in Seq(Stmts) : b = UndoesLeft(0)
    BY DownUnrolls
  <2>3. t = EmitsLeft(i - 1) \o UndoesLeft(0) /\ At(s, Mix(A \cup {o}))
    BY <1>5 DEF RestoringAt
  <2>4. (<<emit>> \o a) \o b = <<emit>> \o (a \o b) /\ a \o b \in Seq(Stmts)
    BY <1>7, DownInOrder
  <2> QED BY <2>1, <2>2, <2>3, <2>4, Zenon
<1> HIDE DEF o, A, rest, emit
<1>9. Accepts(s, emit) /\ At(After(s, emit), Mix(A))
  BY <1>4, <1>5, <1>8, RestoreStep DEF emit
<1>10. DownAt(After(s, emit), rest)
  BY <1>3, <1>9, NextRestore DEF A, rest
<1> QED BY <1>7, <1>8, <1>9, <1>10, DownStepOf

(* The second: a change is undone, ...                                      *)
LEMMA DownFacts ==
  ASSUME Schema(prev), Schema(next), NEW i \in 1..Len(ups)
  PROVE  LET o == Reverse(ups)[i]
             A == Changed \ First(Reverse(ups), i)
         IN  /\ o \in Changed \ A /\ Changed \ First(Reverse(ups), i - 1) = A \cup {o}
             /\ Complete(A) /\ Complete(A \cup {o}) /\ o \in Ours /\ o \in Objects
             /\ i \in 0..Len(ups) /\ UndoesLeft(i) \in Seq(Stmts)
             /\ RemoveOf(o, next[o]) \in Stmts /\ EmitOf(o, prev[o]) \in Stmts
             /\ AlterOf(o, prev[o]) \in Stmts
<1> DEFINE rev == Reverse(ups)
<1>1. Changed \in SUBSET Objects /\ Changed \subseteq Ours
  BY ChangesAreOurs DEF Ours
<1>2. Lists(rev, Changed) /\ Len(rev) = Len(ups) /\ UndoesLeft(i) \in Seq(Stmts)
  BY OrdersOfPlan, DownUnrolls DEF UsersFirst
<1>3. /\ \A k \in 0..Len(ups) : Complete(Changed \ First(rev, k))
  BY CompleteParts
<1> HIDE DEF rev
<1>4. /\ rev[i] \in Changed \ First(rev, i - 1) /\ First(rev, i) = First(rev, i - 1) \cup {rev[i]}
      /\ Len(ups) \in Nat
  BY <1>1, <1>2, ListFacts
<1>5. i \in 0..Len(ups) /\ i - 1 \in 0..Len(ups)
  BY <1>4
<1>6. /\ rev[i] \in Changed \ (Changed \ First(rev, i))
      /\ Changed \ First(rev, i - 1) = (Changed \ First(rev, i)) \cup {rev[i]}
  BY <1>4
<1>7. Complete(Changed \ First(rev, i)) /\ Complete((Changed \ First(rev, i)) \cup {rev[i]})
  BY <1>3, <1>5, <1>6
<1>8. rev[i] \in Objects /\ next[rev[i]] \in Values /\ prev[rev[i]] \in Values
  BY <1>1, <1>4 DEF Schema, Typed
<1>9. /\ RemoveOf(rev[i], next[rev[i]]) \in Stmts /\ EmitOf(rev[i], prev[rev[i]]) \in Stmts
      /\ AlterOf(rev[i], prev[rev[i]]) \in Stmts
  BY <1>8, StatementsOfChange
<1> QED BY <1>1, <1>2, <1>5, <1>6, <1>7, <1>8, <1>9 DEF rev

(* in place, by a drop, or by a drop and a new start, ...                   *)
LEMMA UndoingRuns ==
  ASSUME Schema(prev), Schema(next), Planned, NEW s, NEW t, NEW j \in 0..Len(ups), j # Len(ups),
         UndoingAt(j, s, t)
  PROVE  DownStep(s, t)
<1> PICK i : i = j + 1
  OBVIOUS
<1>1. i \in 1..Len(ups) /\ i - 1 = j
  <2>1. Len(ups) \in Nat
    BY ChangesAreOurs, OrdersOfPlan, ListFacts DEF NeedsFirst, Ours
  <2> QED BY <2>1
<1> DEFINE o == Reverse(ups)[i]
           A == Changed \ First(Reverse(ups), i)
           rest == UndoesLeft(i)
           emit == EmitOf(o, prev[o])
           drop == RemoveOf(o, next[o])
           alter == AlterOf(o, prev[o])
<1>2. /\ o \in Changed \ A /\ Changed \ First(Reverse(ups), i - 1) = A \cup {o}
      /\ Complete(A) /\ Complete(A \cup {o}) /\ o \in Ours /\ o \in Objects
      /\ i \in 0..Len(ups) /\ rest \in Seq(Stmts) /\ drop \in Stmts /\ emit \in Stmts
      /\ alter \in Stmts
  BY <1>1, DownFacts
<1>3. t = Undo(o, prev[o], next[o]) \o rest /\ At(s, Mix(A \cup {o}))
  BY <1>1, <1>2, DownUnrolls DEF UndoingAt
<1>4. ASSUME NEW u, At(u, Mix(A)) PROVE DownAt(u, rest)
  <2>1. UndoingAt(i, u, rest)
    BY <1>4 DEF UndoingAt
  <2> QED BY <1>2, <2>1 DEF DownAt
<1> HIDE DEF o, A, rest, emit, drop, alter
<1>5. CASE prev[o] = Absent
  <2>1. Undo(o, prev[o], next[o]) = <<drop>>
    BY <1>5, Zenon DEF Undo, drop
  <2>2. Accepts(s, drop) /\ At(After(s, drop), Mix(A))
    BY <1>2, <1>3, <1>5, DropStep DEF drop
  <2> QED BY <1>2, <1>3, <1>4, <2>1, <2>2, DownStepOf
<1>6. CASE prev[o] # Absent /\ ~Recreated(o)
  <2>1. Undo(o, prev[o], next[o]) = <<alter>>
    BY <1>6, Zenon DEF Undo, Overwrite, Recreated, AlterOf, alter
  <2>2. Accepts(s, alter) /\ At(After(s, alter), Mix(A))
    BY <1>2, <1>3, <1>6, AlterStep DEF alter
  <2> QED BY <1>2, <1>3, <1>4, <2>1, <2>2, DownStepOf
<1>7. CASE prev[o] # Absent /\ Recreated(o)
  <2>1. Undo(o, prev[o], next[o]) = <<drop, emit>>
    BY <1>7, Zenon DEF Undo, Overwrite, Recreated, drop, emit
  <2>2. t = <<drop>> \o (<<emit>> \o rest) /\ <<emit>> \o rest \in Seq(Stmts)
    <3>1. <<drop, emit>> \o rest = <<drop>> \o (<<emit>> \o rest) /\ <<emit>> \o rest \in Seq(Stmts)
      BY <1>2, DownInOrder
    <3> QED BY <1>3, <2>1, <3>1, Zenon
  <2>3. Accepts(s, drop) /\ At(After(s, drop), Gap(A, o))
    BY <1>2, <1>3, <1>7, GapStep DEF drop
  <2>4. InUndoGapAt(i, After(s, drop), <<emit>> \o rest)
    BY <1>7, <2>3, Zenon DEF InUndoGapAt, o, A, rest, emit
  <2>5. DownAt(After(s, drop), <<emit>> \o rest)
    BY <1>1, <2>4 DEF DownAt
  <2> QED BY <1>2, <2>2, <2>3, <2>5, DownStepOf
<1> QED BY <1>5, <1>6, <1>7

(* or an object is created again as it was.                                 *)
LEMMA InUndoGapRuns ==
  ASSUME Schema(prev), Schema(next), Planned, NEW s, NEW t, NEW i \in 1..Len(ups),
         InUndoGapAt(i, s, t)
  PROVE  DownStep(s, t)
<1> DEFINE o == Reverse(ups)[i]
           A == Changed \ First(Reverse(ups), i)
           rest == UndoesLeft(i)
           emit == EmitOf(o, prev[o])
<1>1. /\ o \in Changed \ A /\ Complete(A) /\ o \in Ours /\ o \notin A
      /\ i \in 0..Len(ups) /\ rest \in Seq(Stmts) /\ emit \in Stmts
  BY DownFacts
<1>2. prev[o] # Absent /\ t = <<emit>> \o rest /\ At(s, Gap(A, o))
  BY Zenon DEF InUndoGapAt
<1> HIDE DEF o, A, rest, emit
<1>3. Accepts(s, emit) /\ At(After(s, emit), Mix(A))
  BY <1>1, <1>2, RestoreStep DEF emit
<1>4. UndoingAt(i, After(s, emit), rest)
  BY <1>3 DEF UndoingAt, A, rest
<1>5. DownAt(After(s, emit), rest)
  BY <1>1, <1>4 DEF DownAt
<1> QED BY <1>1, <1>2, <1>3, <1>5, DownStepOf

(* `down` starts where `up` ended, ...                                      *)
LEMMA DownStarts ==
  ASSUME Schema(prev), Schema(next), NEW s, At(s, Mix(Changed \cup Gone))
  PROVE  DownAt(s, Down(prev, next))
<1>1. Gone \in SUBSET Objects
  BY ChangesAreOurs DEF Ours
<1>2. Lists(downs, Gone)
  BY OrdersOfPlan DEF NeedsFirst
<1>3. First(downs, 0) = {} /\ Len(downs) \in Nat
  BY <1>1, <1>2, ListFacts
<1>4. 0 \in 0..Len(downs) /\ Changed \cup (Gone \ First(downs, 0)) = Changed \cup Gone
  BY <1>3
<1> QED BY <1>4, NextRestore, DownUnrolls

(* goes statement by statement ...                                          *)
LEMMA DownRuns ==
  ASSUME Schema(prev), Schema(next), Planned, NEW s, NEW t, DownAt(s, t), t # <<>>
  PROVE  DownStep(s, t)
<1>1. UndoesLeft(Len(ups)) = <<>>
  BY DownUnrolls
<1>2. \A i \in 0..Len(ups) : UndoingAt(i, s, t) => i # Len(ups)
  BY <1>1 DEF UndoingAt
<1> QED BY <1>2, RestoringRuns, UndoingRuns, InUndoGapRuns DEF DownAt

(* back to the old state.                                                   *)
LEMMA DownEnds ==
  ASSUME Schema(prev), Schema(next), Planned, NEW s, DownAt(s, <<>>)
  PROVE  At(s, Mix({}))
<1>1. ASSUME NEW i \in 1..Len(downs), RestoringAt(i, s, <<>>) PROVE FALSE
  BY <1>1, RestoringRuns DEF DownStep
<1>2. ASSUME NEW i \in 1..Len(ups), InUndoGapAt(i, s, <<>>) PROVE FALSE
  BY <1>2, InUndoGapRuns DEF DownStep
<1>3. PICK i \in 0..Len(ups) : UndoingAt(i, s, <<>>)
  BY <1>1, <1>2 DEF DownAt
<1>4. i = Len(ups)
  BY <1>3, UndoingRuns DEF DownStep
<1>5. Changed \in SUBSET Objects
  BY ChangesAreOurs DEF Ours
<1>6. Lists(Reverse(ups), Changed) /\ Len(Reverse(ups)) = Len(ups)
  BY OrdersOfPlan DEF UsersFirst
<1>7. First(Reverse(ups), Len(ups)) = Changed
  <2>1. First(Reverse(ups), Len(Reverse(ups))) = Changed
    BY <1>5, <1>6, ListFacts
  <2> QED BY <1>6, <2>1
<1>8. Changed \ First(Reverse(ups), i) = {}
  BY <1>4, <1>7
<1>9. At(s, Mix(Changed \ First(Reverse(ups), i)))
  BY <1>3 DEF UndoingAt
<1> QED BY <1>8, <1>9, Zenon

(* And `down` leaves everything with what it needs as well.                 *)
LEMMA DownIsFine ==
  ASSUME Schema(prev), Schema(next), Planned, NEW s, NEW t, DownAt(s, t)
  PROVE  Fine(s)
<1>1. ASSUME NEW i \in 1..Len(downs), RestoringAt(i, s, t) PROVE Fine(s)
  <2>1. Len(downs) \in Nat
    BY ChangesAreOurs, OrdersOfPlan, ListFacts DEF NeedsFirst, Ours
  <2>2. i - 1 \in 0..Len(downs)
    BY <2>1
  <2>3. Complete(Changed \cup (Gone \ First(downs, i - 1)))
    BY <2>2, CompleteParts
  <2> QED BY <1>1, <2>3, FineAt DEF RestoringAt
<1>2. ASSUME NEW i \in 0..Len(ups), UndoingAt(i, s, t) PROVE Fine(s)
  <2>1. Complete(Changed \ First(Reverse(ups), i))
    BY CompleteParts
  <2> QED BY <1>2, <2>1, FineAt DEF UndoingAt
<1>3. ASSUME NEW i \in 1..Len(ups), InUndoGapAt(i, s, t) PROVE Fine(s)
  <2> DEFINE o == Reverse(ups)[i]
             A == Changed \ First(Reverse(ups), i)
  <2>1. Complete(A) /\ o \in Changed \ A
    BY DownFacts
  <2>2. prev[o] # Absent /\ Recreated(o) /\ At(s, Gap(A, o))
    BY <1>3, Zenon DEF InUndoGapAt
  <2> HIDE DEF o, A
  <2> QED BY <2>1, <2>2, FineInGap
<1> QED BY <1>1, <1>2, <1>3 DEF DownAt

-----------------------------------------------------------------------------
(* Where a migration is: its scripts run, ...                               *)
UnderWay(s, t) ==
  /\ Schema(prev) /\ Schema(next)
  /\ phase \in {"up", "applied", "down", "reverted", "failed"}
  /\ phase = "up" => UpAt(s, t)
  /\ phase = "applied" => Reached(s, Changed \cup Gone, Mix(Changed \cup Gone))
  /\ phase = "down" /\ Planned => DownAt(s, t)
  /\ phase = "reverted" /\ Planned => At(s, Mix({}))
  /\ phase = "failed" => ~Planned

(* or no migration runs.                                                    *)
NoMigration(s) == phase = "none" /\ Present(s) = {}

PlanInv == NoMigration(db) \/ UnderWay(db, todo)

(* What is known of a migration holds of the old and the new state.         *)
LEMMA SameSchemas ==
  ASSUME prev' = prev, next' = next
  PROVE  /\ Schema(prev)' = Schema(prev) /\ Schema(next)' = Schema(next)
         /\ Planned' = Planned /\ Changed' = Changed /\ Gone' = Gone
         /\ \A s, t : UpAt(s, t)' = UpAt(s, t) /\ DownAt(s, t)' = DownAt(s, t)
         /\ \A s, A, u : Reached(s, A, u)' = Reached(s, A, u) /\ At(s, u)' = At(s, u)
         /\ \A A : Mix(A)' = Mix(A)
<1>1. Schema(prev)' = Schema(prev) /\ Schema(next)' = Schema(next) /\ Changed' = Changed /\ Gone' = Gone
  BY DEF Changed, Gone, Schema
<1>2. ups' = ups /\ downs' = downs /\ Planned' = Planned /\ RecreatesUnder' = RecreatesUnder
  BY <1>1 DEF ups, downs, Planned, RecreatesUnder, LosesUsedColumn
<1>3. \A o : Recreated(o)' = Recreated(o)
  BY DEF Recreated
<1>4. Alters' = Alters
  BY <1>1, <1>3 DEF Alters
<1>5. \A A : Mix(A)' = Mix(A) /\ \A o : Gap(A, o)' = Gap(A, o)
  BY DEF Mix, Gap
<1>6. \A s, u : At(s, u)' = At(s, u)
  BY DEF At
<1>7. \A s, A : Loose(s, A)' = Loose(s, A)
  BY <1>4, <1>5 DEF Loose, Within, Kept, Doomed
<1>8. \A s, A, u : Reached(s, A, u)' = Reached(s, A, u)
  BY <1>2, <1>6, <1>7 DEF Reached
<1>9. \A i : /\ CreatesLeft(i)' = CreatesLeft(i) /\ DropsLeft(i)' = DropsLeft(i)
             /\ EmitsLeft(i)' = EmitsLeft(i) /\ UndoesLeft(i)' = UndoesLeft(i)
  BY <1>2 DEF CreatesLeft, DropsLeft, EmitsLeft, UndoesLeft
<1>10. \A i, s, t : /\ CreatingAt(i, s, t)' = CreatingAt(i, s, t) /\ InGapAt(i, s, t)' = InGapAt(i, s, t)
                    /\ DroppingAt(i, s, t)' = DroppingAt(i, s, t)
  BY <1>1, <1>2, <1>3, <1>5, <1>8, <1>9 DEF CreatingAt, InGapAt, DroppingAt
<1>11. \A i, s, t : /\ RestoringAt(i, s, t)' = RestoringAt(i, s, t) /\ UndoingAt(i, s, t)' = UndoingAt(i, s, t)
                    /\ InUndoGapAt(i, s, t)' = InUndoGapAt(i, s, t)
  BY <1>1, <1>2, <1>3, <1>5, <1>6, <1>9 DEF RestoringAt, UndoingAt, InUndoGapAt
<1>12. \A s, t : UpAt(s, t)' = UpAt(s, t) /\ DownAt(s, t)' = DownAt(s, t)
  BY <1>2, <1>10, <1>11 DEF UpAt, DownAt
<1> QED BY <1>1, <1>2, <1>5, <1>6, <1>8, <1>12

(* A migration starts.                                                      *)
LEMMA InitUnderWay == PlanInit => UnderWay(db, todo)
<1> SUFFICES ASSUME PlanInit PROVE UnderWay(db, todo)
  OBVIOUS
<1>1. PICK D \in Drivers : prev \in Schemas(D) /\ next \in Schemas(D)
  BY DEF PlanInit
<1>2. Schema(prev) /\ Schema(next)
  BY <1>1, SchemasAreSound
<1>3. phase = "up" /\ db = prev /\ todo = Up(prev, next)
  BY DEF PlanInit
<1> QED BY <1>2, <1>3, UpStarts DEF UnderWay

(* A step of it.                                                            *)
LEMMA StepUnderWay ==
  ASSUME UnderWay(db, todo), PlanNext
  PROVE  UnderWay(db, todo)'
<1>1. Schema(prev) /\ Schema(next) /\ prev' = prev /\ next' = next
  BY DEF UnderWay, PlanNext, Run, Refuse, Applied, RollBack, Reverted
<1>2. /\ Schema(prev)' /\ Schema(next)' /\ Planned' = Planned
      /\ UpAt(db', todo') => UpAt(db, todo)'
      /\ DownAt(db', todo') => DownAt(db, todo)'
      /\ Reached(db', Changed \cup Gone, Mix(Changed \cup Gone))
           => Reached(db, Changed \cup Gone, Mix(Changed \cup Gone))'
      /\ At(db', Mix({})) => At(db, Mix({}))'
  BY <1>1, SameSchemas
<1>3. ASSUME /\ phase' \in {"up", "applied", "down", "reverted", "failed"}
             /\ phase' = "up" => UpAt(db', todo')
             /\ phase' = "applied" => Reached(db', Changed \cup Gone, Mix(Changed \cup Gone))
             /\ phase' = "down" /\ Planned => DownAt(db', todo')
             /\ phase' = "reverted" /\ Planned => At(db', Mix({}))
             /\ phase' = "failed" => ~Planned
      PROVE  UnderWay(db, todo)'
  BY <1>2, <1>3 DEF UnderWay
<1>4. CASE Run
  <2>1. todo # <<>> /\ Accepts(db, Head(todo)) /\ db' = After(db, Head(todo)) /\ todo' = Tail(todo)
        /\ phase' = phase /\ phase \in {"up", "down"}
    BY <1>4 DEF Run
  <2>2. phase = "up" => UpAt(db', todo')
    BY <1>1, <2>1, UpRuns DEF UnderWay, UpStep
  <2>3. phase = "down" /\ Planned => DownAt(db', todo')
    BY <1>1, <2>1, DownRuns DEF UnderWay, DownStep
  <2> QED BY <1>3, <2>1, <2>2, <2>3
<1>5. CASE Refuse
  <2>1. todo # <<>> /\ ~Accepts(db, Head(todo)) /\ phase \in {"up", "down"} /\ phase' = "failed"
    BY <1>5 DEF Refuse
  <2>2. phase = "up" => ~Planned
    BY <1>1, <2>1, UpRuns DEF UnderWay, UpStep
  <2>3. phase = "down" => ~Planned
    BY <1>1, <2>1, DownRuns DEF UnderWay, DownStep
  <2> QED BY <1>3, <2>1, <2>2, <2>3
<1>6. CASE Applied
  <2>1. todo = <<>> /\ phase = "up" /\ phase' = "applied" /\ db' = db
    BY <1>6 DEF Applied
  <2> QED BY <1>1, <1>3, <2>1, UpEnds DEF UnderWay
<1>7. CASE RollBack
  <2>1. phase = "applied" /\ phase' = "down" /\ todo' = Down(prev, next) /\ db' = db
    BY <1>7 DEF RollBack
  <2> QED BY <1>1, <1>3, <2>1, DownStarts DEF UnderWay, Reached
<1>8. CASE Reverted
  <2>1. todo = <<>> /\ phase = "down" /\ phase' = "reverted" /\ db' = db
    BY <1>8 DEF Reverted
  <2> QED BY <1>1, <1>3, <2>1, DownEnds DEF UnderWay
<1> QED BY <1>4, <1>5, <1>6, <1>7, <1>8 DEF PlanNext

(* No behaviour of the planners leaves the invariant.                       *)
THEOREM PlanInvariance == Spec => []PlanInv
<1>1. ASSUME \/ SortInit /\ NoPlan /\ NoPush
             \/ PlanInit /\ NoSort /\ NoPush
             \/ Push!Init /\ NoSort /\ NoPlan
      PROVE  PlanInv
  <2>1. CASE NoPlan
    BY <2>1 DEF NoPlan, PlanInv, NoMigration, Present
  <2> QED BY <1>1, <2>1, InitUnderWay DEF PlanInv
<1>2. ASSUME PlanInv, [SortStep \/ PlanStep \/ PushStep]_allVars
      PROVE  PlanInv'
  <2>1. CASE UNCHANGED planVars
    <3>1. prev' = prev /\ next' = next /\ db' = db /\ todo' = todo /\ phase' = phase
      BY <2>1 DEF planVars
    <3>2. CASE NoMigration(db)
      BY <3>1, <3>2 DEF PlanInv, NoMigration, Present
    <3>3. CASE UnderWay(db, todo)
      <4>1. UnderWay(db, todo)'
        BY <3>1, <3>3, SameSchemas DEF UnderWay
      <4> QED BY <4>1 DEF PlanInv
    <3> QED BY <1>2, <3>2, <3>3 DEF PlanInv
  <2>2. CASE PlanNext
    <3>1. phase # "none"
      BY <2>2 DEF PlanNext, Run, Refuse, Applied, RollBack, Reverted
    <3>2. UnderWay(db, todo)
      BY <1>2, <3>1 DEF PlanInv, NoMigration
    <3> QED BY <2>2, <3>2, StepUnderWay DEF PlanInv
  <2> QED BY <1>2, <2>1, <2>2 DEF SortStep, PlanStep, PushStep, allVars
<1> QED BY <1>1, <1>2, PTL DEF Spec

(* What the planner promises (plan.ts: "an executable up/down program")     *)
(* holds for every set of objects, every dependency between their           *)
(* definitions, every two schemas and every ownership: outside the two      *)
(* cases it does not order every statement of a migration and of its        *)
(* rollback runs, nothing misses what it needs in between, and both arrive. *)
THEOREM MigrationsArriveAlways == Spec => []MigrationsArrive
<1>1. ASSUME PlanInv PROVE MigrationsArrive
  <2>1. CASE NoMigration(db)
    BY <2>1 DEF NoMigration, MigrationsArrive, StatementsRun, BothWays
  <2>2. CASE UnderWay(db, todo)
    <3>1. Schema(prev) /\ Schema(next) /\ phase \in {"up", "applied", "down", "reverted", "failed"}
      BY <2>2 DEF UnderWay
    <3>2. ASSUME Planned PROVE phase # "failed" /\ Fine(db)
      <4>1. CASE phase = "up"
        BY <2>2, <3>1, <3>2, <4>1, UpIsFine DEF UnderWay
      <4>2. CASE phase = "applied"
        <5>1. DownAt(db, Down(prev, next))
          BY <2>2, <3>1, <3>2, <4>2, DownStarts DEF UnderWay, Reached
        <5> QED BY <3>1, <3>2, <4>2, <5>1, DownIsFine
      <4>3. CASE phase = "down"
        BY <2>2, <3>1, <3>2, <4>3, DownIsFine DEF UnderWay
      <4>4. CASE phase = "reverted"
        <5>1. Complete({})
          BY DEF Complete
        <5> QED BY <2>2, <3>1, <3>2, <4>4, <5>1, FineAt DEF UnderWay
      <4>5. phase # "failed"
        BY <2>2, <3>2 DEF UnderWay
      <4> QED BY <3>1, <4>1, <4>2, <4>3, <4>4, <4>5
    <3>3. ASSUME ~RecreatesUnder, phase = "applied" PROVE Managed(db) = Managed(next)
      BY <2>2, <3>1, <3>3, LooseEnd DEF UnderWay, Reached
    <3>4. ASSUME Planned, phase = "reverted" PROVE Managed(db) = Managed(prev)
      <4>1. At(db, Mix({}))
        BY <2>2, <3>4 DEF UnderWay
      <4>2. \A x \in Objects \ Unmanaged : db[x] = prev[x]
        BY <4>1 DEF At, Mix, Ours
      <4> QED BY <4>2 DEF Managed
    <3> QED BY <3>2, <3>3, <3>4, Zenon DEF MigrationsArrive, StatementsRun, BothWays, Fine
  <2> QED BY <1>1, <2>1, <2>2 DEF PlanInv
<1> QED BY <1>1, PlanInvariance, PTL

-----------------------------------------------------------------------------
(* R orders S.                                                              *)
Orders(R, S) ==
  /\ \A x \in S : <<x, x>> \notin R
  /\ \A x, y \in S : x # y => <<x, y>> \in R \/ <<y, x>> \in R
  /\ \A x, y, z \in S : <<x, y>> \in R /\ <<y, z>> \in R => <<x, z>> \in R

(* The instance brings the operators on finite sets once more.              *)
LEMMA SameCardinality ==
  \A S : Push!Cardinality(S) = Cardinality(S) /\ (Push!IsFiniteSet(S) <=> IsFiniteSet(S))
BY DEF Push!Cardinality, Cardinality, Push!IsFiniteSet, IsFiniteSet

(* A sorted set: each element once, in order.                               *)
LEMMA SortedFacts ==
  ASSUME NEW S, IsFiniteSet(S), NEW R, Orders(R, S)
  PROVE  LET n == Cardinality(S)
             s == Push!Sorted(S, R)
         IN  /\ n \in Nat /\ s \in [1..n -> S]
             /\ \A i, j \in 1..n : i < j => <<s[i], s[j]>> \in R
             /\ \A x \in S : \E i \in 1..n : s[i] = x
<1> DEFINE n == Cardinality(S)
           Below(x) == {y \in S : <<y, x>> \in R}
           rank == [x \in S |-> Cardinality(Below(x)) + 1]
           s == Push!Sorted(S, R)
<1>1. n \in Nat
  BY FS_CardinalityType
<1>2. \A x \in S : IsFiniteSet(Below(x)) /\ Cardinality(Below(x)) \in Nat
  <2> SUFFICES ASSUME NEW x \in S PROVE IsFiniteSet(Below(x)) /\ Cardinality(Below(x)) \in Nat
    OBVIOUS
  <2>1. Below(x) \subseteq S
    OBVIOUS
  <2> QED BY <2>1, FS_Subset, FS_CardinalityType
<1>3. \A x \in S : rank[x] \in 1..n
  <2> SUFFICES ASSUME NEW x \in S PROVE rank[x] \in 1..n
    OBVIOUS
  <2>1. Below(x) \subseteq S /\ Below(x) # S
    BY DEF Orders
  <2>2. Cardinality(Below(x)) <= n /\ Cardinality(Below(x)) # n
    BY <2>1, FS_Subset
  <2> QED BY <1>1, <1>2, <2>2
<1>4. \A x, y \in S : <<x, y>> \in R => rank[x] < rank[y]
  <2> SUFFICES ASSUME NEW x \in S, NEW y \in S, <<x, y>> \in R PROVE rank[x] < rank[y]
    OBVIOUS
  <2>1. Below(x) \subseteq Below(y) /\ Below(x) # Below(y)
    BY DEF Orders
  <2> HIDE DEF Below
  <2>2. Cardinality(Below(x)) <= Cardinality(Below(y)) /\ Cardinality(Below(x)) # Cardinality(Below(y))
    BY <1>2, <2>1, FS_Subset
  <2> QED BY <1>2, <2>2
<1> HIDE DEF rank
<1>5. rank \in [S -> 1..n]
  BY <1>3 DEF rank
<1>6. \A x, y \in S : rank[x] = rank[y] => x = y
  <2> SUFFICES ASSUME NEW x \in S, NEW y \in S, rank[x] = rank[y], x # y PROVE FALSE
    OBVIOUS
  <2>1. <<x, y>> \in R \/ <<y, x>> \in R
    BY DEF Orders
  <2>2. rank[x] < rank[x]
    BY <1>4, <2>1
  <2> QED BY <1>5, <2>2
<1>7. rank \in Injection(S, 1..n)
  BY <1>5, <1>6 DEF Injection, IsInjective
<1>8. IsFiniteSet(1..n) /\ Cardinality(1..n) = n
  BY <1>1, FS_Interval
<1>9. rank \in Surjection(S, 1..n)
  BY <1>7, <1>8, FS_Injection
<1>10. \A i \in 1..n : \E x \in S : Cardinality(Below(x)) = i - 1
  <2> SUFFICES ASSUME NEW i \in 1..n PROVE \E x \in S : Cardinality(Below(x)) = i - 1
    OBVIOUS
  <2>1. PICK x \in S : rank[x] = i
    BY <1>9 DEF Surjection
  <2>2. Cardinality(Below(x)) + 1 = i
    BY <2>1 DEF rank
  <2>3. Cardinality(Below(x)) \in Nat /\ i \in Int
    BY <1>2
  <2>4. Cardinality(Below(x)) = i - 1
    BY <2>2, <2>3
  <2> QED BY <2>4
<1>11. s = [i \in 1..Push!Cardinality(S) |->
               CHOOSE x \in S : Push!Cardinality({y \in S : <<y, x>> \in R}) = i - 1]
  BY Zenon DEF Push!Sorted
<1> HIDE DEF s
<1>12. /\ s = [i \in 1..n |-> s[i]]
       /\ \A i \in 1..n : s[i] \in S /\ Cardinality(Below(s[i])) = i - 1
  <2>1. Push!Cardinality(S) = n
    BY SameCardinality
  <2>2. s = [i \in 1..n |-> s[i]]
    <3> DEFINE Ith(i) == CHOOSE x \in S : Push!Cardinality({y \in S : <<y, x>> \in R}) = i - 1
    <3>1. s = [i \in 1..n |-> Ith(i)]
      BY <1>11, <2>1, Zenon
    <3> HIDE DEF Ith
    <3> QED BY <3>1
  <2>3. ASSUME NEW i \in 1..n PROVE s[i] \in S /\ Cardinality(Below(s[i])) = i - 1
    <3>1. PICK x \in S : Cardinality(Below(x)) = i - 1
      BY <1>10
    <3>2. Push!Cardinality({y \in S : <<y, x>> \in R}) = i - 1
      BY <3>1, SameCardinality
    <3>3. s[i] = CHOOSE z \in S : Push!Cardinality({y \in S : <<y, z>> \in R}) = i - 1
      BY <1>11, <2>1
    <3>4. s[i] \in S /\ Push!Cardinality({y \in S : <<y, s[i]>> \in R}) = i - 1
      BY <3>2, <3>3
    <3> QED BY <3>4, SameCardinality
  <2> QED BY <2>2, <2>3
<1>13. \A i \in 1..n : s[i] \in S /\ rank[s[i]] = i
  BY <1>1, <1>12 DEF rank
<1>14. s \in [1..n -> S]
  BY <1>12
<1>15. \A i, j \in 1..n : i < j => <<s[i], s[j]>> \in R
  <2> SUFFICES ASSUME NEW i \in 1..n, NEW j \in 1..n, i < j, <<s[i], s[j]>> \notin R PROVE FALSE
    OBVIOUS
  <2>1. s[i] # s[j]
    BY <1>13
  <2>2. <<s[j], s[i]>> \in R
    BY <1>13, <2>1 DEF Orders
  <2>3. rank[s[j]] < rank[s[i]]
    BY <1>4, <1>13, <2>2
  <2> QED BY <1>13, <2>3
<1>16. \A x \in S : \E i \in 1..n : s[i] = x
  <2> SUFFICES ASSUME NEW x \in S PROVE \E i \in 1..n : s[i] = x
    OBVIOUS
  <2>1. rank[x] \in 1..n
    BY <1>5
  <2>2. s[rank[x]] = x
    BY <1>6, <1>13, <2>1
  <2> QED BY <2>1, <2>2
<1> QED BY <1>1, <1>14, <1>15, <1>16 DEF s

-----------------------------------------------------------------------------
(* The orders of diffSnapshots order any set of statements.                 *)
LEMMA StatementsAreWell ==
  /\ IsFiniteSet(Statements) /\ Statements \subseteq Nat
  /\ \A o \in Statements :
       /\ Kind[o] \in {"table", "field", "index", "event", "analyzer"}
       /\ Table[o] \in Statements /\ Table[Table[o]] = Table[o]
       /\ Kind[o] = "table" => Table[o] = o
       /\ Kind[o] = "analyzer" => Table[o] = o
       /\ Table[o] # o => Kind[Table[o]] = "table"
       /\ Kind[o] \notin {"table", "analyzer"} => Table[o] # o /\ Kind[Table[o]] = "table"
  /\ NoDef \notin Versions
<1>1. IsFiniteSet(Statements) /\ Statements \subseteq Nat /\ NoDef \notin Versions
  BY StatementsAssumption, SameCardinality DEF Push!WellFormed
<1>2. /\ Kind \in [Statements -> {"table", "field", "index", "event", "analyzer"}]
      /\ Table \in [Statements -> Statements]
      /\ \A o \in Statements :
           IF Kind[o] \in {"table", "analyzer"} THEN Table[o] = o ELSE Kind[Table[o]] = "table"
  BY StatementsAssumption DEF Push!WellFormed
<1> QED BY <1>1, <1>2

(* The group and the rank of a statement are numbers.                       *)
LEMMA GroupsAndRanks ==
  ASSUME NEW o \in Statements, NEW new
  PROVE  /\ Push!Rank[Kind[o]] \in Nat
         /\ Push!Group(o, new) = <<Push!Group(o, new)[1], Push!Group(o, new)[2]>>
         /\ Push!Group(o, new)[1] \in Nat /\ Push!Group(o, new)[2] \in Nat
<1>1. Push!Rank[Kind[o]] \in Nat
  BY StatementsAreWell DEF Push!Rank
<1>2. Table[o] \in Nat
  BY StatementsAreWell
<1> QED BY <1>1, <1>2 DEF Push!Group

(* So does the order of creations ...                                       *)
LEMMA CreatedBeforeOrders ==
  ASSUME NEW S \in SUBSET Statements, NEW new
  PROVE  Orders(Push!CreatedBefore(new), S)
<1> DEFINE g(x) == Push!Group(x, new)
           r(x) == Push!Rank[Kind[x]]
           R == Push!CreatedBefore(new)
<1>1. \A x \in S : /\ x \in Statements /\ x \in Nat /\ r(x) \in Nat
                   /\ g(x) = <<g(x)[1], g(x)[2]>> /\ g(x)[1] \in Nat /\ g(x)[2] \in Nat
  BY GroupsAndRanks, StatementsAreWell
<1>2. \A x, y \in S : <<x, y>> \in R <=>
         \/ g(x)[1] < g(y)[1]
         \/ g(x)[1] = g(y)[1] /\ g(x)[2] < g(y)[2]
         \/ g(x)[1] = g(y)[1] /\ g(x)[2] = g(y)[2] /\ r(x) < r(y)
         \/ g(x)[1] = g(y)[1] /\ g(x)[2] = g(y)[2] /\ r(x) = r(y) /\ x < y
  <2> SUFFICES ASSUME NEW x \in S, NEW y \in S
               PROVE  <<x, y>> \in R <=>
         \/ g(x)[1] < g(y)[1]
         \/ g(x)[1] = g(y)[1] /\ g(x)[2] < g(y)[2]
         \/ g(x)[1] = g(y)[1] /\ g(x)[2] = g(y)[2] /\ r(x) < r(y)
         \/ g(x)[1] = g(y)[1] /\ g(x)[2] = g(y)[2] /\ r(x) = r(y) /\ x < y
    OBVIOUS
  <2>1. <<x, y>> \in R <=> \/ Push!Lower(g(x), g(y))
                           \/ g(x) = g(y) /\ Push!Lower(<<r(x), x>>, <<r(y), y>>)
    BY <1>1 DEF Push!CreatedBefore
  <2>2. g(x) = g(y) <=> g(x)[1] = g(y)[1] /\ g(x)[2] = g(y)[2]
    BY <1>1
  <2> HIDE DEF g, r, R
  <2> QED BY <2>1, <2>2 DEF Push!Lower
<1> HIDE DEF g, r, R
<1>3. \A x \in S : <<x, x>> \notin R
  BY <1>1, <1>2
<1>4. \A x, y \in S : x # y => <<x, y>> \in R \/ <<y, x>> \in R
  BY <1>1, <1>2
<1>5. \A x, y, z \in S : <<x, y>> \in R /\ <<y, z>> \in R => <<x, z>> \in R
  BY <1>1, <1>2
<1> QED BY <1>3, <1>4, <1>5, Zenon DEF Orders, R

(* ... and that of drops, any set of statements.                            *)
LEMMA DroppedBeforeOrders ==
  ASSUME NEW S \in SUBSET Statements, NEW new
  PROVE  Orders(Push!DroppedBefore(new), S)
<1> DEFINE g(x) == Push!Group(x, new)
           r(x) == Push!Rank[Kind[x]]
           R == Push!DroppedBefore(new)
           Precedes(x, y) ==
             \/ g(y)[1] < g(x)[1]
             \/ g(y)[1] = g(x)[1] /\ g(y)[2] < g(x)[2]
             \/ g(x)[1] = g(y)[1] /\ g(x)[2] = g(y)[2] /\ r(y) < r(x)
             \/ g(x)[1] = g(y)[1] /\ g(x)[2] = g(y)[2] /\ r(x) = r(y) /\ x < y
<1>1. \A x \in S : /\ x \in Statements /\ x \in Nat /\ r(x) \in Nat
                   /\ g(x) = <<g(x)[1], g(x)[2]>> /\ g(x)[1] \in Nat /\ g(x)[2] \in Nat
  BY GroupsAndRanks, StatementsAreWell
<1>2. \A x, y \in S : <<x, y>> \in R <=> Precedes(x, y)
  <2> SUFFICES ASSUME NEW x \in S, NEW y \in S
               PROVE  <<x, y>> \in R <=> Precedes(x, y)
    OBVIOUS
  <2>1. <<x, y>> \in R <=> \/ Push!Lower(g(y), g(x))
                           \/ g(x) = g(y) /\ Push!Lower(<<r(y), x>>, <<r(x), y>>)
    BY <1>1 DEF Push!DroppedBefore
  <2>2. g(x) = g(y) <=> g(x)[1] = g(y)[1] /\ g(x)[2] = g(y)[2]
    BY <1>1
  <2> HIDE DEF g, r, R
  <2> QED BY <2>1, <2>2 DEF Push!Lower
<1> HIDE DEF g, r, R
<1>3. \A x \in S : <<x, x>> \notin R
  BY <1>1, <1>2
<1>4. \A x, y \in S : x # y => <<x, y>> \in R \/ <<y, x>> \in R
  BY <1>1, <1>2
<1>5. \A x, y, z \in S : <<x, y>> \in R /\ <<y, z>> \in R => <<x, z>> \in R
  BY <1>1, <1>2
<1> QED BY <1>3, <1>4, <1>5, Zenon DEF Orders, R

(* A table is created before its parts.                                     *)
LEMMA TablesComeFirst ==
  ASSUME NEW o \in Statements, Table[o] # o, NEW new
  PROVE  <<Table[o], o>> \in Push!CreatedBefore(new)
<1>1. /\ Table[o] \in Statements /\ Table[Table[o]] = Table[o]
      /\ Kind[Table[o]] = "table" /\ Kind[o] \in {"field", "index", "event"}
  BY StatementsAreWell
<1>2. Push!Group(Table[o], new) = Push!Group(o, new)
  BY <1>1 DEF Push!Group
<1>3. Push!Rank[Kind[Table[o]]] < Push!Rank[Kind[o]]
  BY <1>1 DEF Push!Rank
<1> QED BY <1>1, <1>2, <1>3 DEF Push!CreatedBefore, Push!Lower

-----------------------------------------------------------------------------
(* Statements and the databases they run on.                                *)
Operations == {"remove", "define", "overwrite"}
PushStmts == [op : Operations, obj : Statements, def : Versions \cup {NoDef}]
Databases == [Statements -> Versions \cup {NoDef}]

(* A statement makes of a database a database.                              *)
LEMMA AfterDatabase ==
  ASSUME NEW s \in Databases, NEW st \in PushStmts
  PROVE  Push!After(s, st) \in Databases
  BY DEF Push!After, Databases, PushStmts

(* No statement, no effect ...                                              *)
LEMMA ResultEmpty ==
  ASSUME NEW s
  PROVE  Push!Result(s, <<>>) = s
BY Pushing!FoldEmpty DEF Push!Result, Push!Applied!Fold, Pushing!Fold

(* ... and one more statement, one more effect.                             *)
LEMMA ResultAppend ==
  ASSUME NEW s, NEW a \in Seq(PushStmts), NEW st \in PushStmts
  PROVE  Push!Result(s, Append(a, st)) = Push!After(Push!Result(s, a), st)
<1>1. Pushing!Fold(s, Append(a, st)) = Push!After(Pushing!Fold(s, a), st)
  BY Pushing!FoldAppend
<1> QED BY <1>1 DEF Push!Result, Push!Applied!Fold, Pushing!Fold

(* The database accepts the statements, and is t after them.                *)
Leads(s, a, t) == a \in Seq(PushStmts) /\ t \in Databases /\ Push!Runs(s, a) /\ Push!Result(s, a) = t

(* Where nothing is to do, nothing changes.                                 *)
LEMMA LeadsNowhere ==
  ASSUME NEW s \in Databases
  PROVE  Leads(s, <<>>, s)
BY ResultEmpty DEF Leads, Push!Runs

(* A script can be extended by a statement that is accepted after it ...    *)
LEMMA LeadsOn ==
  ASSUME NEW s, NEW a, NEW t, Leads(s, a, t), NEW st \in PushStmts, Push!Accepts(t, st)
  PROVE  Leads(s, Append(a, st), Push!After(t, st))
<1>1. a \in Seq(PushStmts) /\ t \in Databases /\ Push!Result(s, a) = t /\ Push!Runs(s, a)
  BY DEF Leads
<1>2. /\ Append(a, st) \in Seq(PushStmts) /\ DOMAIN Append(a, st) = 1..(Len(a) + 1) /\ Len(a) \in Nat
      /\ DOMAIN a = 1..Len(a)
      /\ Append(a, st)[Len(a) + 1] = st /\ \A i \in 1..Len(a) : Append(a, st)[i] = a[i]
      /\ \A i \in 1..(Len(a) + 1) : SubSeq(Append(a, st), 1, i - 1) = SubSeq(a, 1, i - 1)
      /\ SubSeq(a, 1, Len(a)) = a
  BY <1>1
<1>3. ASSUME NEW i \in 1..(Len(a) + 1)
      PROVE  Push!Accepts(Push!Result(s, SubSeq(Append(a, st), 1, i - 1)), Append(a, st)[i])
  <2>1. CASE i = Len(a) + 1
    <3>1. i - 1 = Len(a)
      BY <1>2, <2>1
    <3>2. SubSeq(Append(a, st), 1, i - 1) = a
      BY <1>2, <3>1
    <3> QED BY <1>1, <1>2, <2>1, <3>2
  <2>2. CASE i \in 1..Len(a)
    BY <1>1, <1>2, <2>2 DEF Push!Runs
  <2> QED BY <1>2, <2>1, <2>2
<1>4. Push!Runs(s, Append(a, st))
  BY <1>2, <1>3 DEF Push!Runs
<1> QED BY <1>1, <1>2, <1>4, ResultAppend, AfterDatabase DEF Leads

(* ... and by a script that runs from where it leads.                       *)
LEMMA LeadsThrough ==
  ASSUME NEW s, NEW a, NEW t, Leads(s, a, t), NEW b, NEW u, Leads(t, b, u)
  PROVE  Leads(s, a \o b, u)
<1>1. a \in Seq(PushStmts) /\ b \in Seq(PushStmts) /\ t \in Databases
  BY DEF Leads
<1> DEFINE S == {i \in Nat : i \in 0..Len(b) =>
                   Leads(s, a \o SubSeq(b, 1, i), Push!Result(t, SubSeq(b, 1, i)))}
<1>2. 0 \in S
  <2>1. a \o SubSeq(b, 1, 0) = a /\ SubSeq(b, 1, 0) = <<>>
    BY <1>1
  <2> QED BY <2>1, ResultEmpty
<1>3. ASSUME NEW i \in Nat, i \in S PROVE i + 1 \in S
  <2> SUFFICES ASSUME i + 1 \in 0..Len(b)
               PROVE  Leads(s, a \o SubSeq(b, 1, i + 1), Push!Result(t, SubSeq(b, 1, i + 1)))
    OBVIOUS
  <2> DEFINE before == SubSeq(b, 1, i)
  <2>1. i + 1 \in 1..Len(b) /\ i \in 0..Len(b) /\ DOMAIN b = 1..Len(b)
    BY <1>1
  <2>2. /\ before \in Seq(PushStmts) /\ b[i + 1] \in PushStmts
        /\ SubSeq(b, 1, i + 1) = Append(before, b[i + 1])
    BY <1>1, <2>1
  <2>3. a \o Append(before, b[i + 1]) = Append(a \o before, b[i + 1])
    BY <1>1, <2>2
  <2>4. Push!Accepts(Push!Result(t, before), b[i + 1])
    <3>1. (i + 1) - 1 = i
      OBVIOUS
    <3> QED BY <2>1, <3>1 DEF Leads, Push!Runs
  <2>5. Leads(s, a \o before, Push!Result(t, before))
    BY <1>3, <2>1
  <2> HIDE DEF before
  <2>6. Leads(s, Append(a \o before, b[i + 1]), Push!After(Push!Result(t, before), b[i + 1]))
    BY <2>2, <2>4, <2>5, LeadsOn
  <2>7. Push!Result(t, Append(before, b[i + 1])) = Push!After(Push!Result(t, before), b[i + 1])
    BY <2>2, ResultAppend
  <2> QED BY <2>2, <2>3, <2>6, <2>7
<1> HIDE DEF S
<1>4. Nat \subseteq S
  BY <1>2, <1>3, Pushing!Induct
<1>5. Len(b) \in Nat /\ Len(b) \in 0..Len(b) /\ SubSeq(b, 1, Len(b)) = b
  BY <1>1
<1>6. Leads(s, a \o SubSeq(b, 1, Len(b)), Push!Result(t, SubSeq(b, 1, Len(b))))
  BY <1>4, <1>5 DEF S
<1> QED BY <1>5, <1>6 DEF Leads

-----------------------------------------------------------------------------
(* The three parts of a script.                                             *)

(* Creations and drops come each once, creations in their order.            *)
LEMMA OrderLists ==
  ASSUME NEW S \in SUBSET Statements, NEW new
  PROVE  /\ Lists(Push!CreateOrder(S, new), S) /\ Lists(Push!DropOrder(S, new), S)
         /\ \A i, j \in DOMAIN Push!CreateOrder(S, new) :
              <<Push!CreateOrder(S, new)[i], Push!CreateOrder(S, new)[j]>> \in Push!CreatedBefore(new)
                => i < j
<1>1. IsFiniteSet(S)
  BY StatementsAreWell, FS_Subset
<1>2. ASSUME NEW R, Orders(R, S)
      PROVE  /\ Lists(Push!Sorted(S, R), S)
             /\ \A i, j \in DOMAIN Push!Sorted(S, R) :
                  <<Push!Sorted(S, R)[i], Push!Sorted(S, R)[j]>> \in R => i < j
  <2> DEFINE n == Cardinality(S)
             s == Push!Sorted(S, R)
  <2>1. /\ n \in Nat /\ s \in [1..n -> S]
        /\ \A i, j \in 1..n : i < j => <<s[i], s[j]>> \in R
        /\ \A x \in S : \E i \in 1..n : s[i] = x
    BY <1>1, <1>2, SortedFacts
  <2> HIDE DEF n, s
  <2>2. s \in Seq(S) /\ DOMAIN s = 1..n
    BY <2>1
  <2>3. \A i, j \in 1..n : i # j => s[i] # s[j]
    <3> SUFFICES ASSUME NEW i \in 1..n, NEW j \in 1..n, i # j, s[i] = s[j] PROVE FALSE
      OBVIOUS
    <3>1. s[i] \in S /\ <<s[i], s[i]>> \notin R
      BY <2>1, <1>2 DEF Orders
    <3>2. i < j \/ j < i
      BY <2>1
    <3> QED BY <2>1, <3>1, <3>2
  <2>4. \A i, j \in 1..n : <<s[i], s[j]>> \in R => i < j
    <3> SUFFICES ASSUME NEW i \in 1..n, NEW j \in 1..n, <<s[i], s[j]>> \in R, ~(i < j) PROVE FALSE
      OBVIOUS
    <3>1. s[i] \in S /\ s[j] \in S
      BY <2>1
    <3>2. i # j
      BY <3>1, <1>2 DEF Orders
    <3>3. <<s[j], s[i]>> \in R
      BY <2>1, <3>2
    <3>4. <<s[i], s[i]>> \in R
      BY <3>1, <3>3, <1>2 DEF Orders
    <3> QED BY <3>1, <3>4, <1>2 DEF Orders
  <2>5. Lists(s, S)
    BY <2>1, <2>2, <2>3 DEF Lists
  <2> QED BY <2>2, <2>4, <2>5 DEF s
<1> QED BY <1>2, CreatedBeforeOrders, DroppedBeforeOrders DEF Push!CreateOrder, Push!DropOrder

(* A sequence is built from its prefixes.                                   *)
LEMMA ByPrefix ==
  ASSUME NEW a \in Seq(PushStmts)
  PROVE  /\ Len(a) \in Nat /\ DOMAIN a = 1..Len(a)
         /\ SubSeq(a, 1, 0) = <<>> /\ SubSeq(a, 1, Len(a)) = a
         /\ \A i \in Nat : i + 1 \in 0..Len(a) =>
              /\ i \in 0..Len(a) /\ i + 1 \in 1..Len(a)
              /\ SubSeq(a, 1, i) \in Seq(PushStmts) /\ a[i + 1] \in PushStmts
              /\ SubSeq(a, 1, i + 1) = Append(SubSeq(a, 1, i), a[i + 1])
  OBVIOUS

(* They grow by one, from none to all.                                      *)
LEMMA FirstOfOrder ==
  ASSUME NEW S \in SUBSET Statements, NEW order, Lists(order, S)
  PROVE  /\ Len(order) \in Nat /\ DOMAIN order = 1..Len(order)
         /\ \A i \in 1..Len(order) : order[i] \in S /\ order[i] \in Statements
         /\ First(order, 0) = {} /\ First(order, Len(order)) = S
         /\ \A i \in Nat : i + 1 \in 0..Len(order) =>
              /\ order[i + 1] \in S /\ order[i + 1] \in Statements
              /\ First(order, i) \subseteq S /\ order[i + 1] \notin First(order, i)
              /\ First(order, i + 1) = First(order, i) \cup {order[i + 1]}
<1>1. /\ Len(order) \in Nat /\ DOMAIN order = 1..Len(order)
      /\ \A i \in 1..Len(order) : order[i] \in S /\ order[i] \in Statements
  BY DEF Lists
<1>2. First(order, 0) = {}
  BY DEF First
<1>3. First(order, Len(order)) = S
  BY <1>1 DEF Lists, First
<1>4. ASSUME NEW i \in Nat, i + 1 \in 0..Len(order)
      PROVE  /\ order[i + 1] \in S /\ order[i + 1] \in Statements
             /\ First(order, i) \subseteq S /\ order[i + 1] \notin First(order, i)
             /\ First(order, i + 1) = First(order, i) \cup {order[i + 1]}
  <2>1. i + 1 \in 1..Len(order)
    BY <1>1, <1>4
  <2>2. \A j \in 1..i : j \in 1..Len(order) /\ j # i + 1
    BY <1>1, <2>1
  <2>3. \A j \in 1..i : order[j] # order[i + 1] /\ order[j] \in S
    BY <1>1, <2>1, <2>2 DEF Lists
  <2>4. 1..(i + 1) = (1..i) \cup {i + 1}
    BY <1>4
  <2>5. order[i + 1] \in S /\ order[i + 1] \in Statements
    BY <1>1, <2>1
  <2>6. First(order, i) \subseteq S /\ order[i + 1] \notin First(order, i)
    BY <2>3 DEF First
  <2>7. First(order, i + 1) = First(order, i) \cup {order[i + 1]}
    BY <2>4 DEF First
  <2> QED BY <2>5, <2>6, <2>7
<1> QED BY <1>1, <1>2, <1>3, <1>4

-----------------------------------------------------------------------------
(* What drops leave.                                                        *)
Without(s, D) == [o \in Statements |-> IF o \in D \/ Table[o] \in D THEN NoDef ELSE s[o]]

(* What definitions leave.                                                  *)
WithAll(s, A, new) == [o \in Statements |-> IF o \in A THEN new[o] ELSE s[o]]

(* The effect of a statement.                                               *)
LEMMA AfterDrop ==
  ASSUME NEW s, NEW D, NEW o \in Statements
  PROVE  /\ Push!After(Without(s, D), Push!Drop(o)) = Without(s, D \cup {o})
         /\ Push!Accepts(s, Push!Drop(o))
         /\ Push!Drop(o) \in PushStmts
<1>1. Push!Drop(o).op = "remove" /\ Push!Drop(o).obj = o /\ Push!Drop(o) \in PushStmts
  BY DEF Push!Drop, PushStmts, Operations
<1> DEFINE t == Without(s, D)
<1>2. Push!After(t, Push!Drop(o)) =
        [x \in Statements |-> IF x = o \/ Table[x] = o THEN NoDef ELSE t[x]]
  BY <1>1, Zenon DEF Push!After
<1>3. \A x \in Statements : t[x] = IF x \in D \/ Table[x] \in D THEN NoDef ELSE s[x]
  BY DEF Without
<1> HIDE DEF t
<1>4. \A x \in Statements : (IF x = o \/ Table[x] = o THEN NoDef ELSE t[x]) =
        IF x \in D \cup {o} \/ Table[x] \in D \cup {o} THEN NoDef ELSE s[x]
  BY <1>3
<1>5. Push!After(t, Push!Drop(o)) = Without(s, D \cup {o})
  BY <1>2, <1>4 DEF Without
<1>6. Push!Accepts(s, Push!Drop(o))
  BY <1>1, Zenon DEF Push!Accepts
<1> QED BY <1>1, <1>5, <1>6 DEF t

(* A definition adds its object to those that are as new has them.          *)
LEMMA AfterDefinition ==
  ASSUME NEW s, NEW A, NEW new, NEW o \in Statements,
         NEW st, st.op # "remove", st.obj = o, st.def = new[o]
  PROVE  Push!After(WithAll(s, A, new), st) = WithAll(s, A \cup {o}, new)
<1> DEFINE t == WithAll(s, A, new)
<1>1. Push!After(t, st) = [t EXCEPT ![o] = new[o]]
  BY Zenon DEF Push!After
<1>2. t = [x \in Statements |-> t[x]] /\ \A x \in Statements : t[x] = IF x \in A THEN new[x] ELSE s[x]
  BY DEF WithAll
<1> HIDE DEF t
<1>3. [t EXCEPT ![o] = new[o]] = [x \in Statements |-> IF x = o THEN new[o] ELSE t[x]]
  BY <1>2
<1>4. \A x \in Statements : (IF x = o THEN new[o] ELSE t[x]) = IF x \in A \cup {o} THEN new[x] ELSE s[x]
  BY <1>2
<1> QED BY <1>1, <1>3, <1>4 DEF WithAll, t

(* The parts of a definition.                                               *)
LEMMA DefinitionFacts ==
  ASSUME NEW o \in Statements, NEW d \in Versions \cup {NoDef}
  PROVE  /\ Push!Define(o, d) \in PushStmts /\ Push!Overwrite(o, d) \in PushStmts
         /\ Push!Define(o, d).op = "define" /\ Push!Overwrite(o, d).op = "overwrite"
         /\ Push!Define(o, d).obj = o /\ Push!Overwrite(o, d).obj = o
         /\ Push!Define(o, d).def = d /\ Push!Overwrite(o, d).def = d
BY DEF Push!Define, Push!Overwrite, PushStmts, Operations

-----------------------------------------------------------------------------
(* The drops of a script run, in any order.                                 *)
LEMMA DropsRun ==
  ASSUME NEW s \in Databases, NEW D \in SUBSET Statements, NEW order, Lists(order, D)
  PROVE  Leads(s, [i \in DOMAIN order |-> Push!Drop(order[i])], Without(s, D))
<1> DEFINE drops == [i \in DOMAIN order |-> Push!Drop(order[i])]
<1>1. /\ Len(order) \in Nat /\ DOMAIN order = 1..Len(order)
      /\ \A i \in 1..Len(order) : Push!Drop(order[i]) \in PushStmts
  BY FirstOfOrder, AfterDrop
<1>2. /\ drops \in Seq(PushStmts) /\ Len(drops) = Len(order)
      /\ \A i \in 1..Len(order) : drops[i] = Push!Drop(order[i])
  BY <1>1
<1> HIDE DEF drops
<1> DEFINE S == {i \in Nat : i \in 0..Len(order) =>
                   Leads(s, SubSeq(drops, 1, i), Without(s, First(order, i)))}
<1>4. 0 \in S
  <2>1. SubSeq(drops, 1, 0) = <<>> /\ First(order, 0) = {}
    BY <1>2, ByPrefix, FirstOfOrder
  <2>2. Without(s, {}) = s
    BY DEF Without, Databases
  <2> QED BY <2>1, <2>2, LeadsNowhere
<1>5. ASSUME NEW i \in Nat, i \in S PROVE i + 1 \in S
  <2> SUFFICES ASSUME i + 1 \in 0..Len(order)
               PROVE  Leads(s, SubSeq(drops, 1, i + 1), Without(s, First(order, i + 1)))
    OBVIOUS
  <2> DEFINE o == order[i + 1]
             t == Without(s, First(order, i))
  <2>1. /\ i \in 0..Len(order) /\ i + 1 \in 1..Len(order)
        /\ SubSeq(drops, 1, i + 1) = Append(SubSeq(drops, 1, i), drops[i + 1])
    BY <1>2, ByPrefix
  <2>2. o \in Statements /\ First(order, i + 1) = First(order, i) \cup {o}
    BY FirstOfOrder
  <2>3. drops[i + 1] = Push!Drop(o)
    BY <1>2, <2>1
  <2>4. Leads(s, SubSeq(drops, 1, i), t)
    BY <1>5, <2>1
  <2>5. Push!After(t, Push!Drop(o)) = Without(s, First(order, i + 1))
    BY <2>2, AfterDrop
  <2>6. Push!Accepts(t, Push!Drop(o)) /\ Push!Drop(o) \in PushStmts
    BY <2>2, AfterDrop
  <2> HIDE DEF o, t
  <2>7. Leads(s, Append(SubSeq(drops, 1, i), Push!Drop(o)), Push!After(t, Push!Drop(o)))
    BY <2>4, <2>6, LeadsOn
  <2> QED BY <2>1, <2>3, <2>5, <2>7
<1> HIDE DEF S
<1>6. Nat \subseteq S
  BY <1>4, <1>5, Pushing!Induct
<1>7. Len(order) \in 0..Len(order) /\ SubSeq(drops, 1, Len(order)) = drops
  BY <1>1, <1>2, ByPrefix
<1>8. Leads(s, drops, Without(s, First(order, Len(order))))
  BY <1>1, <1>6, <1>7 DEF S
<1> QED BY <1>8, FirstOfOrder DEF drops

(* So do the definitions of what is new, a table before its parts.          *)
LEMMA AddsRun ==
  ASSUME NEW s \in Databases, NEW new \in Databases, NEW A \in SUBSET Statements,
         NEW order, Lists(order, A),
         \A i, j \in DOMAIN order : <<order[i], order[j]>> \in Push!CreatedBefore(new) => i < j,
         \A o \in A : s[o] = NoDef /\ new[o] # NoDef,
         \A o \in A : Table[o] \in A \/ s[Table[o]] # NoDef
  PROVE  Leads(s, [i \in DOMAIN order |-> Push!Define(order[i], new[order[i]])], WithAll(s, A, new))
<1> DEFINE adds == [i \in DOMAIN order |-> Push!Define(order[i], new[order[i]])]
<1>1. /\ Len(order) \in Nat /\ DOMAIN order = 1..Len(order)
      /\ \A i \in 1..Len(order) : order[i] \in A /\ order[i] \in Statements
  BY FirstOfOrder
<1>2. \A o \in Statements : new[o] \in Versions \cup {NoDef}
  BY DEF Databases
<1>3. \A i \in 1..Len(order) : Push!Define(order[i], new[order[i]]) \in PushStmts
  BY <1>1, <1>2, DefinitionFacts
<1>4. /\ adds \in Seq(PushStmts) /\ Len(adds) = Len(order)
      /\ \A i \in 1..Len(order) : adds[i] = Push!Define(order[i], new[order[i]])
  BY <1>1, <1>3
<1> HIDE DEF adds
<1> DEFINE S == {i \in Nat : i \in 0..Len(order) =>
                   Leads(s, SubSeq(adds, 1, i), WithAll(s, First(order, i), new))}
<1>5. 0 \in S
  <2>1. SubSeq(adds, 1, 0) = <<>> /\ First(order, 0) = {}
    BY <1>4, ByPrefix, FirstOfOrder
  <2>2. WithAll(s, {}, new) = s
    BY DEF WithAll, Databases
  <2> QED BY <2>1, <2>2, LeadsNowhere
<1>6. ASSUME NEW i \in Nat, i \in S PROVE i + 1 \in S
  <2> SUFFICES ASSUME i + 1 \in 0..Len(order)
               PROVE  Leads(s, SubSeq(adds, 1, i + 1), WithAll(s, First(order, i + 1), new))
    OBVIOUS
  <2> DEFINE o == order[i + 1]
             st == Push!Define(o, new[o])
             before == First(order, i)
             t == WithAll(s, before, new)
  <2>1. /\ i \in 0..Len(order) /\ i + 1 \in 1..Len(order)
        /\ SubSeq(adds, 1, i + 1) = Append(SubSeq(adds, 1, i), adds[i + 1])
    BY <1>4, ByPrefix
  <2>2. /\ o \in A /\ o \in Statements /\ o \notin before /\ before \subseteq A
        /\ First(order, i + 1) = before \cup {o}
    BY FirstOfOrder
  <2>3. adds[i + 1] = st /\ st \in PushStmts /\ st.op = "define" /\ st.obj = o /\ st.def = new[o]
    BY <1>2, <1>4, <2>1, <2>2, DefinitionFacts
  <2>4. Leads(s, SubSeq(adds, 1, i), t)
    BY <1>6, <2>1
  <2>5. ASSUME Table[o] # o, Table[o] \in A PROVE Table[o] \in before
    <3>1. PICK j \in 1..Len(order) : order[j] = Table[o]
      BY <1>1, <2>5 DEF Lists
    <3>2. <<order[j], order[i + 1]>> \in Push!CreatedBefore(new)
      BY <2>2, <2>5, <3>1, TablesComeFirst
    <3>3. j < i + 1
      BY <1>1, <2>1, <3>2
    <3>4. j \in 1..i
      BY <3>3
    <3> QED BY <3>1, <3>4 DEF First
  <2> HIDE DEF o, before
  <2>6. Push!Accepts(t, st)
    <3>1. \A x \in Statements : t[x] = IF x \in before THEN new[x] ELSE s[x]
      BY DEF WithAll
    <3>2. Table[o] \in Statements
      BY <2>2, StatementsAreWell
    <3>3. t[o] = NoDef
      BY <2>2, <3>1
    <3>4. Table[o] # o => t[Table[o]] # NoDef
      BY <2>2, <2>5, <3>1, <3>2
    <3> HIDE DEF t, st
    <3> QED BY <2>3, <3>3, <3>4 DEF Push!Accepts
  <2>7. Push!After(t, st) = WithAll(s, before \cup {o}, new)
    <3>1. o \in Statements /\ st.op # "remove" /\ st.obj = o /\ st.def = new[o]
      BY <2>2, <2>3
    <3> HIDE DEF st
    <3>2. Push!After(WithAll(s, before, new), st) = WithAll(s, before \cup {o}, new)
      BY <3>1, AfterDefinition
    <3> QED BY <3>2 DEF t
  <2> HIDE DEF t, st
  <2>8. Leads(s, Append(SubSeq(adds, 1, i), st), Push!After(t, st))
    BY <2>3, <2>4, <2>6, LeadsOn
  <2> QED BY <2>1, <2>2, <2>3, <2>7, <2>8
<1> HIDE DEF S
<1>7. Nat \subseteq S
  BY <1>5, <1>6, Pushing!Induct
<1>8. Len(order) \in 0..Len(order) /\ SubSeq(adds, 1, Len(order)) = adds
  BY <1>1, <1>4, ByPrefix
<1>9. Leads(s, adds, WithAll(s, First(order, Len(order)), new))
  BY <1>1, <1>7, <1>8 DEF S
<1> QED BY <1>9, FirstOfOrder DEF adds

(* A change runs where the table is: dropping an index takes nothing along. *)
LEMMA ChangeRuns ==
  ASSUME NEW t \in Databases, NEW o \in Statements, NEW d \in Versions, t[Table[o]] # NoDef
  PROVE  Leads(t, Push!Change(o, d), [t EXCEPT ![o] = d])
<1>1. /\ Push!Define(o, d) \in PushStmts /\ Push!Overwrite(o, d) \in PushStmts
      /\ Push!Define(o, d).op = "define" /\ Push!Overwrite(o, d).op = "overwrite"
      /\ Push!Define(o, d).obj = o /\ Push!Overwrite(o, d).obj = o
      /\ Push!Define(o, d).def = d /\ Push!Overwrite(o, d).def = d
  BY DefinitionFacts
<1>2. Leads(t, <<>>, t)
  BY LeadsNowhere
<1>3. CASE Kind[o] # "index"
  <2>1. Push!Change(o, d) = Append(<<>>, Push!Overwrite(o, d))
    BY <1>3 DEF Push!Change
  <2>2. Push!Accepts(t, Push!Overwrite(o, d))
    BY <1>1 DEF Push!Accepts
  <2>3. Push!After(t, Push!Overwrite(o, d)) = [t EXCEPT ![o] = d]
    BY <1>1, Zenon DEF Push!After
  <2>4. Leads(t, Append(<<>>, Push!Overwrite(o, d)), Push!After(t, Push!Overwrite(o, d)))
    BY <1>1, <1>2, <2>2, LeadsOn
  <2> QED BY <2>1, <2>3, <2>4
<1>4. CASE Kind[o] = "index"
  <2> DEFINE u == Push!After(t, Push!Drop(o))
  <2>1. Push!Change(o, d) = Append(Append(<<>>, Push!Drop(o)), Push!Define(o, d))
    BY <1>4 DEF Push!Change
  <2>2. Push!Accepts(t, Push!Drop(o)) /\ Push!Drop(o) \in PushStmts
    BY AfterDrop
  <2>3. Leads(t, Append(<<>>, Push!Drop(o)), u)
    BY <1>2, <2>2, LeadsOn
  <2>4. Table[o] # o /\ \A x \in Statements : Table[x] # o
    BY <1>4, StatementsAreWell
  <2>5. u = [x \in Statements |-> IF x = o THEN NoDef ELSE t[x]]
    <3>1. Push!Drop(o).op = "remove" /\ Push!Drop(o).obj = o
      BY DEF Push!Drop
    <3>2. u = [x \in Statements |-> IF x = o \/ Table[x] = o THEN NoDef ELSE t[x]]
      BY <3>1, Zenon DEF Push!After
    <3> QED BY <2>4, <3>2
  <2> HIDE DEF u
  <2>6. u[o] = NoDef /\ u[Table[o]] # NoDef
    BY <2>4, <2>5, StatementsAreWell
  <2>7. Push!Accepts(u, Push!Define(o, d))
    BY <1>1, <2>6 DEF Push!Accepts
  <2>8. Push!After(u, Push!Define(o, d)) = [u EXCEPT ![o] = d]
    BY <1>1, Zenon DEF Push!After
  <2>9. [u EXCEPT ![o] = d] = [t EXCEPT ![o] = d]
    BY <2>5 DEF Databases
  <2>10. Leads(t, Append(Append(<<>>, Push!Drop(o)), Push!Define(o, d)),
                  Push!After(u, Push!Define(o, d)))
    BY <1>1, <2>3, <2>7, LeadsOn
  <2> QED BY <2>1, <2>8, <2>9, <2>10
<1> QED BY <1>3, <1>4

(* How changeUp goes along the changes: none yields no statement ...        *)
LEMMA ExpandingEmpty ==
  ASSUME NEW s
  PROVE  Push!Changes!Fold(s, <<>>) = s
BY Expanding!FoldEmpty DEF Push!Changes!Fold, Expanding!Fold

(* ... and each adds its own after those before it.                         *)
LEMMA ExpandingAppend ==
  ASSUME NEW s, NEW a \in Seq(PushStmts), NEW st \in PushStmts
  PROVE  Push!Changes!Fold(s, Append(a, st)) = Push!ChangeUp(Push!Changes!Fold(s, a), st)
<1>1. Expanding!Fold(s, Append(a, st)) = Push!ChangeUp(Expanding!Fold(s, a), st)
  BY Expanding!FoldAppend
<1> QED BY <1>1 DEF Push!Changes!Fold, Expanding!Fold

(* The changes of a script, statement by statement.                         *)
Change(order, new) ==
  Push!Changes!Fold(<<>>, [i \in DOMAIN order |-> Push!Overwrite(order[i], new[order[i]])])

(* A change more is its statements more.                                    *)
LEMMA PushChangesUnroll ==
  ASSUME NEW new \in Databases, NEW C \in SUBSET Statements, NEW order, Lists(order, C)
  PROVE  LET asked == [i \in DOMAIN order |-> Push!Overwrite(order[i], new[order[i]])]
             soFar(i) == Push!Changes!Fold(<<>>, SubSeq(asked, 1, i))
         IN  /\ soFar(0) = <<>> /\ soFar(Len(order)) = Change(order, new)
             /\ \A i \in Nat : i + 1 \in 0..Len(order) =>
                  soFar(i + 1) = soFar(i) \o Push!Change(order[i + 1], new[order[i + 1]])
<1> DEFINE asked == [i \in DOMAIN order |-> Push!Overwrite(order[i], new[order[i]])]
           soFar(i) == Push!Changes!Fold(<<>>, SubSeq(asked, 1, i))
<1>1. /\ Len(order) \in Nat /\ DOMAIN order = 1..Len(order)
      /\ \A i \in 1..Len(order) : order[i] \in Statements
  BY FirstOfOrder
<1>2. \A o \in Statements : new[o] \in Versions \cup {NoDef}
  BY DEF Databases
<1>3. \A i \in 1..Len(order) : Push!Overwrite(order[i], new[order[i]]) \in PushStmts
  BY <1>1, <1>2, DefinitionFacts
<1>4. /\ asked \in Seq(PushStmts) /\ Len(asked) = Len(order)
      /\ \A i \in 1..Len(order) : asked[i] = Push!Overwrite(order[i], new[order[i]])
  BY <1>1, <1>3
<1>5. Change(order, new) = Push!Changes!Fold(<<>>, asked)
  BY Zenon DEF Change
<1> HIDE DEF asked
<1>6. SubSeq(asked, 1, 0) = <<>> /\ SubSeq(asked, 1, Len(order)) = asked
  BY <1>4, ByPrefix
<1>7. soFar(0) = <<>>
  BY <1>6, ExpandingEmpty, Zenon
<1>8. soFar(Len(order)) = Change(order, new)
  BY <1>5, <1>6
<1>9. ASSUME NEW i \in Nat, i + 1 \in 0..Len(order)
      PROVE  soFar(i + 1) = soFar(i) \o Push!Change(order[i + 1], new[order[i + 1]])
  <2>1. /\ i + 1 \in 1..Len(order) /\ SubSeq(asked, 1, i) \in Seq(PushStmts) /\ asked[i + 1] \in PushStmts
        /\ SubSeq(asked, 1, i + 1) = Append(SubSeq(asked, 1, i), asked[i + 1])
    BY <1>4, <1>9, ByPrefix
  <2>2. Push!Changes!Fold(<<>>, Append(SubSeq(asked, 1, i), asked[i + 1])) =
          Push!ChangeUp(Push!Changes!Fold(<<>>, SubSeq(asked, 1, i)), asked[i + 1])
    BY <2>1, ExpandingAppend, Zenon
  <2>3. soFar(i + 1) = Push!ChangeUp(soFar(i), asked[i + 1])
    BY <2>1, <2>2
  <2>4. asked[i + 1].obj = order[i + 1] /\ asked[i + 1].def = new[order[i + 1]]
    BY <1>1, <1>2, <1>4, <2>1, DefinitionFacts
  <2> HIDE DEF soFar
  <2> QED BY <2>3, <2>4 DEF Push!ChangeUp
<1> QED BY <1>7, <1>8, <1>9 DEF asked

(* So do the changes, once the tables are there.                            *)
LEMMA ChangesRun ==
  ASSUME NEW s \in Databases, NEW new \in Databases, NEW C \in SUBSET Statements,
         NEW order, Lists(order, C),
         \A o \in C : new[o] # NoDef /\ s[Table[o]] # NoDef
  PROVE  Leads(s, Change(order, new), WithAll(s, C, new))
<1> DEFINE asked == [i \in DOMAIN order |-> Push!Overwrite(order[i], new[order[i]])]
           soFar(i) == Push!Changes!Fold(<<>>, SubSeq(asked, 1, i))
<1>1. /\ soFar(0) = <<>> /\ soFar(Len(order)) = Change(order, new)
      /\ \A i \in Nat : i + 1 \in 0..Len(order) =>
           soFar(i + 1) = soFar(i) \o Push!Change(order[i + 1], new[order[i + 1]])
  BY PushChangesUnroll
<1> HIDE DEF soFar, asked
<1> DEFINE S == {i \in Nat : i \in 0..Len(order) => Leads(s, soFar(i), WithAll(s, First(order, i), new))}
<1>2. 0 \in S
  <2>1. First(order, 0) = {}
    BY FirstOfOrder
  <2>2. WithAll(s, {}, new) = s
    BY DEF WithAll, Databases
  <2> QED BY <1>1, <2>1, <2>2, LeadsNowhere
<1>3. ASSUME NEW i \in Nat, i \in S PROVE i + 1 \in S
  <2> SUFFICES ASSUME i + 1 \in 0..Len(order)
               PROVE  Leads(s, soFar(i + 1), WithAll(s, First(order, i + 1), new))
    OBVIOUS
  <2> DEFINE o == order[i + 1]
             before == First(order, i)
             t == WithAll(s, before, new)
  <2>1. Len(order) \in Nat /\ i \in 0..Len(order)
    BY FirstOfOrder
  <2>2. /\ o \in C /\ o \in Statements /\ before \subseteq C
        /\ First(order, i + 1) = before \cup {o}
    BY FirstOfOrder
  <2>3. Leads(s, soFar(i), t)
    BY <1>3, <2>1
  <2>4. soFar(i + 1) = soFar(i) \o Push!Change(o, new[o])
    BY <1>1
  <2> HIDE DEF o, before
  <2>5. t \in Databases /\ \A x \in Statements : t[x] = IF x \in before THEN new[x] ELSE s[x]
    BY DEF WithAll, Databases
  <2>6. new[o] \in Versions /\ t[Table[o]] # NoDef
    BY <2>2, <2>5, StatementsAreWell DEF Databases
  <2>7. [t EXCEPT ![o] = new[o]] = WithAll(s, before \cup {o}, new)
    <3>1. [t EXCEPT ![o] = new[o]] = [x \in Statements |-> IF x = o THEN new[o] ELSE t[x]]
      BY <2>5 DEF Databases
    <3>2. \A x \in Statements :
            (IF x = o THEN new[o] ELSE t[x]) = IF x \in before \cup {o} THEN new[x] ELSE s[x]
      BY <2>5
    <3> QED BY <3>1, <3>2 DEF WithAll
  <2> HIDE DEF t
  <2>8. Leads(t, Push!Change(o, new[o]), [t EXCEPT ![o] = new[o]])
    BY <2>2, <2>5, <2>6, ChangeRuns
  <2>9. Leads(t, Push!Change(o, new[o]), WithAll(s, before \cup {o}, new))
    BY <2>7, <2>8, Zenon
  <2>10. Leads(s, soFar(i) \o Push!Change(o, new[o]), WithAll(s, before \cup {o}, new))
    BY <2>3, <2>9, LeadsThrough
  <2> QED BY <2>2, <2>4, <2>10
<1> HIDE DEF S
<1>4. Nat \subseteq S
  BY <1>2, <1>3, Pushing!Induct
<1>5. Len(order) \in 0..Len(order) /\ Len(order) \in Nat /\ First(order, Len(order)) = C
  BY FirstOfOrder
<1> QED BY <1>1, <1>4, <1>5 DEF S

-----------------------------------------------------------------------------
(* The script runs from the old schema to the new one.                      *)
LEMMA UpArrives ==
  ASSUME NEW old \in Push!Schemas, NEW new \in Push!Schemas
  PROVE  Leads(old, Push!Up(old, new), new)
<1> DEFINE D == Push!Removed(old, new)
           A == Push!Added(old, new)
           C == Push!Changed(old, new)
           removed == Push!DropOrder(D, new)
           added == Push!CreateOrder(A, new)
           changed == Push!CreateOrder(C, new)
           s1 == Without(old, D)
           s2 == WithAll(s1, A, new)
<1>1. /\ old \in Databases /\ new \in Databases
      /\ \A o \in Statements : /\ old[o] # NoDef => old[Table[o]] # NoDef
                               /\ new[o] # NoDef => new[Table[o]] # NoDef
  BY StatementsAreWell DEF Push!Schemas, Push!Present, Databases
<1>2. /\ A \in SUBSET Statements /\ C \in SUBSET Statements /\ D \in SUBSET Statements
      /\ \A o \in Statements :
           /\ o \in A <=> new[o] # NoDef /\ old[o] = NoDef
           /\ o \in C <=> new[o] # NoDef /\ old[o] # NoDef /\ old[o] # new[o]
           /\ o \in D <=> /\ new[o] = NoDef /\ old[o] # NoDef
                          /\ Table[o] = o \/ ~(old[Table[o]] # NoDef /\ new[Table[o]] = NoDef)
  BY StatementsAreWell DEF Push!Added, Push!Changed, Push!Removed, Push!Present
<1>3. Push!Up(old, new) =
        [i \in DOMAIN removed |-> Push!Drop(removed[i])]
        \o [i \in DOMAIN added |-> Push!Define(added[i], new[added[i]])]
        \o Change(changed, new)
  BY Zenon DEF Push!Up, Change
<1> HIDE DEF A, C, D
<1>4. Lists(removed, D) /\ Lists(added, A) /\ Lists(changed, C)
  BY <1>2, OrderLists
<1>5. \A i, j \in DOMAIN added : <<added[i], added[j]>> \in Push!CreatedBefore(new) => i < j
  BY <1>2, OrderLists
<1> HIDE DEF removed, added, changed
<1>6. s1 \in Databases /\ \A o \in Statements : s1[o] = IF new[o] = NoDef THEN NoDef ELSE old[o]
  <2>1. s1 \in Databases
    BY <1>1 DEF Without, Databases
  <2>2. \A o \in Statements : s1[o] = IF o \in D \/ Table[o] \in D THEN NoDef ELSE old[o]
    BY DEF Without
  <2> HIDE DEF s1
  <2> QED BY <1>1, <1>2, <2>1, <2>2, StatementsAreWell
<1>7. s2 \in Databases /\ \A o \in Statements : s2[o] = IF o \in A THEN new[o] ELSE s1[o]
  BY <1>1, <1>6 DEF WithAll, Databases
<1>8. Leads(old, [i \in DOMAIN removed |-> Push!Drop(removed[i])], s1)
  BY <1>1, <1>2, <1>4, DropsRun
<1> HIDE DEF s1
<1>9. Leads(s1, [i \in DOMAIN added |-> Push!Define(added[i], new[added[i]])], s2)
  <2>1. \A o \in A : s1[o] = NoDef /\ new[o] # NoDef
    BY <1>2, <1>6
  <2>2. \A o \in A : Table[o] \in A \/ s1[Table[o]] # NoDef
    BY <1>1, <1>2, <1>6, StatementsAreWell
  <2> QED BY <1>1, <1>2, <1>4, <1>5, <1>6, <2>1, <2>2, AddsRun
<1> HIDE DEF s2
<1>10. Leads(s2, Change(changed, new), new)
  <2>1. \A o \in C : new[o] # NoDef /\ s2[Table[o]] # NoDef
    BY <1>1, <1>2, <1>6, <1>7, StatementsAreWell
  <2>2. Leads(s2, Change(changed, new), WithAll(s2, C, new))
    BY <1>1, <1>2, <1>4, <1>7, <2>1, ChangesRun
  <2>3. \A o \in Statements : (IF o \in C THEN new[o] ELSE s2[o]) = new[o]
    BY <1>2, <1>6, <1>7
  <2>4. WithAll(s2, C, new) = new
    BY <1>1, <2>3 DEF WithAll, Databases
  <2> QED BY <2>2, <2>4
<1>11. Leads(old, [i \in DOMAIN removed |-> Push!Drop(removed[i])]
                  \o [i \in DOMAIN added |-> Push!Define(added[i], new[added[i]])], s2)
  BY <1>8, <1>9, LeadsThrough
<1> QED BY <1>3, <1>10, <1>11, LeadsThrough

-----------------------------------------------------------------------------
(* What is left of a script without its drops.  A script settles O when its *)
(* definitions are those of new, for the objects of O and no other.         *)
Settles(a, O, new) ==
  /\ a \in Seq(PushStmts)
  /\ \A i \in DOMAIN a : a[i].op # "remove" => a[i].obj \in O /\ a[i].def = new[a[i].obj]
  /\ \A o \in O : \E i \in DOMAIN a : a[i].op # "remove" /\ a[i].obj = o

(* Two scripts settle what each of them does.                               *)
LEMMA SettlesBoth ==
  ASSUME NEW new, NEW a, NEW O, Settles(a, O, new), NEW b, NEW P, Settles(b, P, new)
  PROVE  Settles(a \o b, O \cup P, new)
<1>1. a \in Seq(PushStmts) /\ b \in Seq(PushStmts) /\ DOMAIN a = 1..Len(a) /\ DOMAIN b = 1..Len(b)
  BY DEF Settles
<1> DEFINE c == a \o b
<1>2. /\ c \in Seq(PushStmts) /\ DOMAIN c = 1..(Len(a) + Len(b))
      /\ \A i \in DOMAIN a : i \in DOMAIN c /\ c[i] = a[i]
      /\ \A i \in DOMAIN b : Len(a) + i \in DOMAIN c /\ c[Len(a) + i] = b[i]
      /\ \A i \in DOMAIN c : i \in DOMAIN a \/ (i - Len(a) \in DOMAIN b /\ c[i] = b[i - Len(a)])
  BY <1>1
<1> HIDE DEF c
<1>3. \A i \in DOMAIN c : c[i].op # "remove" => c[i].obj \in O \cup P /\ c[i].def = new[c[i].obj]
  BY <1>2 DEF Settles
<1>4. \A o \in O \cup P : \E i \in DOMAIN c : c[i].op # "remove" /\ c[i].obj = o
  <2>1. ASSUME NEW o \in O PROVE \E i \in DOMAIN c : c[i].op # "remove" /\ c[i].obj = o
    BY <1>2 DEF Settles
  <2>2. ASSUME NEW o \in P PROVE \E i \in DOMAIN c : c[i].op # "remove" /\ c[i].obj = o
    <3>1. PICK i \in DOMAIN b : b[i].op # "remove" /\ b[i].obj = o
      BY DEF Settles
    <3> QED BY <1>2, <3>1
  <2> QED BY <2>1, <2>2
<1> QED BY <1>2, <1>3, <1>4 DEF Settles, c

(* No statement settles nothing ...                                         *)
LEMMA SettlesNothing ==
  ASSUME NEW new
  PROVE  Settles(<<>>, {}, new)
BY DEF Settles

(* ... and one definition its object.                                       *)
LEMMA SettlesOne ==
  ASSUME NEW new, NEW st \in PushStmts, st.op # "remove", st.def = new[st.obj]
  PROVE  Settles(<<st>>, {st.obj}, new)
<1>1. /\ <<st>> \in Seq(PushStmts) /\ DOMAIN <<st>> = {1} /\ <<st>>[1] = st
  OBVIOUS
<1> QED BY <1>1 DEF Settles

(* The changes of a script settle what changed.                             *)
LEMMA ChangesSettle ==
  ASSUME NEW new \in Databases, NEW C \in SUBSET Statements, NEW order, Lists(order, C)
  PROVE  Settles(Change(order, new), C, new)
<1> DEFINE asked == [i \in DOMAIN order |-> Push!Overwrite(order[i], new[order[i]])]
           soFar(i) == Push!Changes!Fold(<<>>, SubSeq(asked, 1, i))
<1>1. /\ soFar(0) = <<>> /\ soFar(Len(order)) = Change(order, new)
      /\ \A i \in Nat : i + 1 \in 0..Len(order) =>
           soFar(i + 1) = soFar(i) \o Push!Change(order[i + 1], new[order[i + 1]])
  BY PushChangesUnroll
<1> HIDE DEF soFar, asked
<1>2. ASSUME NEW o \in Statements PROVE Settles(Push!Change(o, new[o]), {o}, new)
  <2> DEFINE define == Push!Define(o, new[o])
             overwrite == Push!Overwrite(o, new[o])
             drop == Push!Drop(o)
  <2>1. /\ new[o] \in Versions \cup {NoDef}
        /\ define \in PushStmts /\ define.op = "define" /\ define.obj = o /\ define.def = new[o]
        /\ overwrite \in PushStmts /\ overwrite.op = "overwrite"
        /\ overwrite.obj = o /\ overwrite.def = new[o]
    BY DefinitionFacts DEF Databases
  <2>2. drop \in PushStmts /\ drop.op = "remove"
    BY DEF Push!Drop, PushStmts, Operations
  <2>3. Push!Change(o, new[o]) \in {<<drop>> \o <<define>>, <<overwrite>>}
    BY DEF Push!Change
  <2> HIDE DEF define, overwrite, drop
  <2>4. Settles(<<define>>, {o}, new) /\ Settles(<<overwrite>>, {o}, new)
    <3>1. define.op # "remove" /\ overwrite.op # "remove"
      BY <2>1
    <3> QED BY <2>1, <3>1, SettlesOne
  <2>5. Settles(<<drop>>, {}, new)
    <3>1. /\ <<drop>> \in Seq(PushStmts) /\ DOMAIN <<drop>> = {1} /\ <<drop>>[1] = drop
      BY <2>2
    <3> QED BY <2>2, <3>1 DEF Settles
  <2>6. Settles(<<drop>> \o <<define>>, {} \cup {o}, new)
    BY <2>4, <2>5, SettlesBoth
  <2>7. {} \cup {o} = {o}
    OBVIOUS
  <2>8. Settles(<<drop>> \o <<define>>, {o}, new)
    BY <2>6, <2>7, Zenon
  <2> QED BY <2>3, <2>4, <2>8, Zenon
<1> DEFINE S == {i \in Nat : i \in 0..Len(order) => Settles(soFar(i), First(order, i), new)}
<1>3. 0 \in S
  <2>1. First(order, 0) = {}
    BY FirstOfOrder
  <2> QED BY <1>1, <2>1, SettlesNothing
<1>4. ASSUME NEW i \in Nat, i \in S PROVE i + 1 \in S
  <2> SUFFICES ASSUME i + 1 \in 0..Len(order) PROVE Settles(soFar(i + 1), First(order, i + 1), new)
    OBVIOUS
  <2> DEFINE o == order[i + 1]
  <2>1. Len(order) \in Nat /\ i \in 0..Len(order)
    BY FirstOfOrder
  <2>2. o \in Statements /\ First(order, i + 1) = First(order, i) \cup {o}
    BY FirstOfOrder
  <2>3. Settles(soFar(i), First(order, i), new) /\ Settles(Push!Change(o, new[o]), {o}, new)
    BY <1>2, <1>4, <2>1, <2>2
  <2>4. Settles(soFar(i) \o Push!Change(o, new[o]), First(order, i) \cup {o}, new)
    BY <2>3, SettlesBoth
  <2> QED BY <1>1, <2>2, <2>4
<1> HIDE DEF S
<1>5. Nat \subseteq S
  BY <1>3, <1>4, Pushing!Induct
<1>6. Len(order) \in 0..Len(order) /\ Len(order) \in Nat /\ First(order, Len(order)) = C
  BY FirstOfOrder
<1> QED BY <1>1, <1>5, <1>6 DEF S

(* A script settles what is new and what changed.                           *)
LEMMA UpSettles ==
  ASSUME NEW old \in Push!Schemas, NEW new \in Push!Schemas
  PROVE  Settles(Push!Up(old, new), Push!Added(old, new) \cup Push!Changed(old, new), new)
<1> DEFINE D == Push!Removed(old, new)
           A == Push!Added(old, new)
           C == Push!Changed(old, new)
           removed == Push!DropOrder(D, new)
           added == Push!CreateOrder(A, new)
           changed == Push!CreateOrder(C, new)
           drops == [i \in DOMAIN removed |-> Push!Drop(removed[i])]
           adds == [i \in DOMAIN added |-> Push!Define(added[i], new[added[i]])]
<1>1. new \in Databases /\ \A o \in Statements : new[o] \in Versions \cup {NoDef}
  BY DEF Push!Schemas, Databases
<1>2. A \in SUBSET Statements /\ C \in SUBSET Statements /\ D \in SUBSET Statements
  BY DEF Push!Added, Push!Changed, Push!Removed, Push!Present
<1>3. Push!Up(old, new) = drops \o adds \o Change(changed, new)
  BY Zenon DEF Push!Up, Change
<1> HIDE DEF A, C, D
<1>4. Lists(removed, D) /\ Lists(added, A) /\ Lists(changed, C)
  BY <1>2, OrderLists
<1> HIDE DEF removed, added, changed
<1>5. Settles(drops, {}, new)
  <2>1. /\ Len(removed) \in Nat /\ DOMAIN removed = 1..Len(removed)
        /\ \A i \in 1..Len(removed) :
             Push!Drop(removed[i]) \in PushStmts /\ Push!Drop(removed[i]).op = "remove"
    BY <1>2, <1>4, FirstOfOrder, AfterDrop DEF Push!Drop
  <2> QED BY <2>1 DEF Settles
<1>6. Settles(adds, A, new)
  <2>1. /\ Len(added) \in Nat /\ DOMAIN added = 1..Len(added)
        /\ \A i \in 1..Len(added) : added[i] \in A /\ added[i] \in Statements
    BY <1>2, <1>4, FirstOfOrder
  <2>2. ASSUME NEW i \in 1..Len(added)
        PROVE  LET st == Push!Define(added[i], new[added[i]])
               IN  st \in PushStmts /\ st.op # "remove" /\ st.obj = added[i] /\ st.def = new[added[i]]
    BY <1>1, <2>1, DefinitionFacts
  <2>3. /\ adds \in Seq(PushStmts) /\ DOMAIN adds = 1..Len(added)
        /\ \A i \in 1..Len(added) : /\ adds[i].op # "remove" /\ adds[i].obj = added[i]
                                    /\ adds[i].def = new[added[i]]
    BY <2>1, <2>2
  <2> HIDE DEF adds
  <2>4. ASSUME NEW o \in A PROVE \E i \in DOMAIN adds : adds[i].op # "remove" /\ adds[i].obj = o
    <3>1. PICK i \in 1..Len(added) : added[i] = o
      BY <1>4, <2>1 DEF Lists
    <3> QED BY <2>3, <3>1
  <2> QED BY <2>1, <2>3, <2>4 DEF Settles
<1>7. Settles(Change(changed, new), C, new)
  BY <1>1, <1>2, <1>4, ChangesSettle
<1> HIDE DEF drops, adds
<1>8. Settles(drops \o adds, {} \cup A, new)
  BY <1>5, <1>6, SettlesBoth
<1>9. {} \cup A = A
  OBVIOUS
<1>10. Settles(drops \o adds, A, new)
  BY <1>8, <1>9, Zenon
<1>11. Settles(drops \o adds \o Change(changed, new), A \cup C, new)
  BY <1>7, <1>10, SettlesBoth
<1> QED BY <1>3, <1>11 DEF A, C

(* How --no-prune goes along a script: from nothing ...                     *)
LEMMA KeepingEmpty ==
  ASSUME NEW s
  PROVE  Push!Kept!Fold(s, <<>>) = s
BY Keeping!FoldEmpty DEF Push!Kept!Fold, Keeping!Fold

(* ... statement by statement.                                              *)
LEMMA KeepingAppend ==
  ASSUME NEW s, NEW a \in Seq(PushStmts), NEW st \in PushStmts
  PROVE  Push!Kept!Fold(s, Append(a, st)) = Push!NotRemoving(Push!Kept!Fold(s, a), st)
<1>1. Keeping!Fold(s, Append(a, st)) = Push!NotRemoving(Keeping!Fold(s, a), st)
  BY Keeping!FoldAppend
<1> QED BY <1>1 DEF Push!Kept!Fold, Keeping!Fold

(* What --no-prune keeps of a script settles the same, without a drop.      *)
LEMMA KeptSettles ==
  ASSUME NEW new, NEW a, NEW O, Settles(a, O, new)
  PROVE  LET kept == Push!Kept!Fold(<<>>, a)
         IN  Settles(kept, O, new) /\ \A i \in DOMAIN kept : kept[i].op # "remove"
<1> DEFINE kept(i) == Push!Kept!Fold(<<>>, SubSeq(a, 1, i))
           Objs(i) == {a[j].obj : j \in {k \in 1..i : a[k].op # "remove"}}
           S == {i \in Nat : i \in 0..Len(a) =>
                   Settles(kept(i), Objs(i), new) /\ \A j \in DOMAIN kept(i) : kept(i)[j].op # "remove"}
<1>1. /\ a \in Seq(PushStmts) /\ Len(a) \in Nat /\ DOMAIN a = 1..Len(a)
      /\ SubSeq(a, 1, Len(a)) = a /\ SubSeq(a, 1, 0) = <<>>
  BY ByPrefix DEF Settles
<1>2. 0 \in S
  <2>1. kept(0) = <<>> /\ Objs(0) = {}
    <3>1. kept(0) = <<>>
      BY <1>1, KeepingEmpty, Zenon
    <3>2. Objs(0) = {}
      OBVIOUS
    <3> QED BY <3>1, <3>2
  <2> HIDE DEF kept, Objs
  <2> QED BY <2>1, SettlesNothing
<1>3. ASSUME NEW i \in Nat, i \in S PROVE i + 1 \in S
  <2> SUFFICES ASSUME i + 1 \in 0..Len(a)
               PROVE  /\ Settles(kept(i + 1), Objs(i + 1), new)
                      /\ \A j \in DOMAIN kept(i + 1) : kept(i + 1)[j].op # "remove"
    OBVIOUS
  <2> DEFINE st == a[i + 1]
  <2>1. /\ i \in 0..Len(a) /\ i + 1 \in 1..Len(a) /\ st \in PushStmts /\ SubSeq(a, 1, i) \in Seq(PushStmts)
        /\ SubSeq(a, 1, i + 1) = Append(SubSeq(a, 1, i), st)
    BY <1>1, ByPrefix
  <2>2. Settles(kept(i), Objs(i), new) /\ \A j \in DOMAIN kept(i) : kept(i)[j].op # "remove"
    BY <1>3, <2>1
  <2>3. kept(i + 1) = Push!NotRemoving(kept(i), st)
    BY <2>1, KeepingAppend
  <2>4. 1..(i + 1) = (1..i) \cup {i + 1}
    BY <1>3
  <2>5. Objs(i + 1) = IF st.op = "remove" THEN Objs(i) ELSE Objs(i) \cup {st.obj}
    BY <2>4
  <2>6. st.op # "remove" => st.def = new[st.obj]
    BY <1>1, <2>1 DEF Settles
  <2> HIDE DEF kept, Objs, st
  <2>7. CASE st.op = "remove"
    BY <2>2, <2>3, <2>5, <2>7 DEF Push!NotRemoving
  <2>8. CASE st.op # "remove"
    <3>1. kept(i) \in Seq(PushStmts)
      BY <2>2 DEF Settles
    <3>2. kept(i + 1) = kept(i) \o <<st>> /\ kept(i + 1) = Append(kept(i), st)
      BY <2>1, <2>3, <2>8, <3>1 DEF Push!NotRemoving
    <3>3. Settles(<<st>>, {st.obj}, new)
      BY <2>1, <2>6, <2>8, SettlesOne
    <3>4. Settles(kept(i) \o <<st>>, Objs(i) \cup {st.obj}, new)
      BY <2>2, <3>3, SettlesBoth
    <3>5. \A j \in DOMAIN Append(kept(i), st) : Append(kept(i), st)[j].op # "remove"
      BY <2>1, <2>2, <2>8, <3>1
    <3> QED BY <2>5, <2>8, <3>2, <3>4, <3>5
  <2> QED BY <2>7, <2>8
<1> HIDE DEF S
<1>4. Nat \subseteq S
  BY <1>2, <1>3, Pushing!Induct
<1>5. Len(a) \in 0..Len(a)
  BY <1>1
<1>6. /\ Settles(kept(Len(a)), Objs(Len(a)), new)
      /\ \A j \in DOMAIN kept(Len(a)) : kept(Len(a))[j].op # "remove"
  BY <1>1, <1>4, <1>5 DEF S
<1>7. Objs(Len(a)) = O
  BY <1>1 DEF Settles
<1>8. kept(Len(a)) = Push!Kept!Fold(<<>>, a)
  BY <1>1
<1> QED BY <1>6, <1>7, <1>8

(* A script without drops defines what it settles and leaves the rest.      *)
LEMMA SettledResult ==
  ASSUME NEW s \in Databases, NEW new, NEW a, NEW O, Settles(a, O, new),
         \A i \in DOMAIN a : a[i].op # "remove"
  PROVE  Push!Result(s, a) = WithAll(s, O, new)
<1> DEFINE Objs(i) == {a[j].obj : j \in 1..i}
           S == {i \in Nat : i \in 0..Len(a) => Push!Result(s, SubSeq(a, 1, i)) = WithAll(s, Objs(i), new)}
<1>1. /\ a \in Seq(PushStmts) /\ Len(a) \in Nat /\ DOMAIN a = 1..Len(a)
      /\ SubSeq(a, 1, Len(a)) = a /\ SubSeq(a, 1, 0) = <<>>
  BY ByPrefix DEF Settles
<1>2. 0 \in S
  <2>1. Objs(0) = {}
    OBVIOUS
  <2>2. WithAll(s, {}, new) = s
    BY DEF WithAll, Databases
  <2> HIDE DEF Objs
  <2> QED BY <1>1, <2>1, <2>2, ResultEmpty
<1>3. ASSUME NEW i \in Nat, i \in S PROVE i + 1 \in S
  <2> SUFFICES ASSUME i + 1 \in 0..Len(a)
               PROVE  Push!Result(s, SubSeq(a, 1, i + 1)) = WithAll(s, Objs(i + 1), new)
    OBVIOUS
  <2> DEFINE st == a[i + 1]
  <2>1. /\ i \in 0..Len(a) /\ i + 1 \in 1..Len(a) /\ st \in PushStmts /\ SubSeq(a, 1, i) \in Seq(PushStmts)
        /\ SubSeq(a, 1, i + 1) = Append(SubSeq(a, 1, i), st)
    BY <1>1, ByPrefix
  <2>2. Push!Result(s, SubSeq(a, 1, i)) = WithAll(s, Objs(i), new)
    BY <1>3, <2>1
  <2>3. 1..(i + 1) = (1..i) \cup {i + 1}
    BY <1>3
  <2>4. Objs(i + 1) = Objs(i) \cup {st.obj}
    BY <2>3
  <2>5. st.obj \in Statements /\ st.op # "remove" /\ st.def = new[st.obj]
    BY <1>1, <2>1 DEF Settles, PushStmts
  <2> HIDE DEF Objs, st
  <2>6. Push!After(WithAll(s, Objs(i), new), st) = WithAll(s, Objs(i) \cup {st.obj}, new)
    <3>1. PICK o : o = st.obj
      OBVIOUS
    <3>2. o \in Statements /\ st.op # "remove" /\ st.obj = o /\ st.def = new[o]
      BY <2>5, <3>1
    <3>3. Push!After(WithAll(s, Objs(i), new), st) = WithAll(s, Objs(i) \cup {o}, new)
      BY <3>2, AfterDefinition
    <3> QED BY <3>1, <3>3
  <2> QED BY <2>1, <2>2, <2>4, <2>6, ResultAppend
<1> HIDE DEF S
<1>4. Nat \subseteq S
  BY <1>2, <1>3, Pushing!Induct
<1>5. Len(a) \in 0..Len(a)
  BY <1>1
<1>6. Push!Result(s, SubSeq(a, 1, Len(a))) = WithAll(s, Objs(Len(a)), new)
  BY <1>1, <1>4, <1>5 DEF S
<1>7. Objs(Len(a)) = O
  BY <1>1 DEF Settles
<1> QED BY <1>1, <1>6, <1>7

(* Without its drops, a script leaves what the schema lacks.                *)
LEMMA KeptArrives ==
  ASSUME NEW old \in Push!Schemas, NEW new \in Push!Schemas
  PROVE  \A o \in Statements :
           Push!Result(old, Push!Kept!Fold(<<>>, Push!Up(old, new)))[o] =
             IF new[o] # NoDef THEN new[o] ELSE old[o]
<1> DEFINE O == Push!Added(old, new) \cup Push!Changed(old, new)
           kept == Push!Kept!Fold(<<>>, Push!Up(old, new))
<1>1. Settles(kept, O, new) /\ \A i \in DOMAIN kept : kept[i].op # "remove"
  BY UpSettles, KeptSettles
<1>2. old \in Databases
  BY DEF Push!Schemas, Databases
<1>3. Push!Result(old, kept) = WithAll(old, O, new)
  BY <1>1, <1>2, SettledResult
<1>4. \A o \in Statements : o \in O <=> new[o] # NoDef /\ old[o] # new[o]
  BY DEF Push!Added, Push!Changed, Push!Present
<1> HIDE DEF O, kept
<1>5. \A o \in Statements : WithAll(old, O, new)[o] = IF new[o] # NoDef THEN new[o] ELSE old[o]
  BY <1>4 DEF WithAll
<1> QED BY <1>3, <1>5 DEF kept

-----------------------------------------------------------------------------
(* What a push keeps: what is asked is a schema, and so is the database; a  *)
(* plan is the script between them, without its drops if not pruning.       *)
PushInv ==
  /\ pushed \in {"none", "idle", "planned", "applied", "failed"}
  /\ pushed \in {"idle", "planned"} => schema \in Push!Schemas /\ live \in Push!Schemas
  /\ pushed = "planned" => plan = Push!SyncPlan(Push!Up(live, schema), prune)
  /\ pushed = "applied" /\ prune => live = schema
  /\ pushed = "failed" => ~prune

(* No behaviour of the planners leaves it.                                  *)
LEMMA PushInvariance == Spec => []PushInv
<1>1. ASSUME \/ SortInit /\ NoPlan /\ NoPush
             \/ PlanInit /\ NoSort /\ NoPush
             \/ Push!Init /\ NoSort /\ NoPlan
      PROVE  PushInv
  <2>1. CASE NoPush
    BY <2>1 DEF NoPush, PushInv
  <2>2. CASE Push!Init
    BY <2>2 DEF Push!Init, PushInv
  <2> QED BY <1>1, <2>1, <2>2
<1>2. ASSUME PushInv, [SortStep \/ PlanStep \/ PushStep]_allVars
      PROVE  PushInv'
  <2>1. CASE UNCHANGED pushVars
    BY <1>2, <2>1 DEF PushInv, pushVars
  <2>2. CASE Push!Plan
    <3>1. /\ pushed = "idle" /\ pushed' = "planned" /\ schema' = schema /\ live' = live
          /\ plan' = Push!SyncPlan(Push!Up(live, schema), prune')
      BY <2>2 DEF Push!Plan
    <3> QED BY <1>2, <3>1 DEF PushInv
  <2>3. CASE Push!Apply
    <3>1. /\ pushed = "planned" /\ schema' = schema /\ plan' = plan /\ prune' = prune
          /\ \/ Push!Runs(live, plan) /\ live' = Push!Result(live, plan) /\ pushed' = "applied"
             \/ ~Push!Runs(live, plan) /\ live' = live /\ pushed' = "failed"
      BY <2>3, Zenon DEF Push!Apply
    <3>2. CASE prune
      <4>1. schema \in Push!Schemas /\ live \in Push!Schemas /\ plan = Push!Up(live, schema)
        BY <1>2, <3>1, <3>2 DEF PushInv, Push!SyncPlan
      <4>2. Push!Runs(live, plan) /\ Push!Result(live, plan) = schema
        BY <4>1, UpArrives DEF Leads
      <4> QED BY <3>1, <4>2 DEF PushInv
    <3>3. CASE ~prune
      BY <3>1, <3>3 DEF PushInv
    <3> QED BY <3>2, <3>3
  <2> QED BY <1>2, <2>1, <2>2, <2>3 DEF SortStep, PlanStep, PushStep, Push!Next, allVars
<1> QED BY <1>1, <1>2, PTL DEF Spec

(* A push with pruning is accepted, whatever the database holds, and makes  *)
(* it the schema; one without, if accepted, creates and changes all there   *)
(* is to and keeps what the schema lacks.                                   *)
THEOREM PushReaches == Spec => []PushDoesAsAsked
<1>1. ASSUME PushInv PROVE PushDoesAsAsked
  <2>1. Push!PushReachesSchema
    BY <1>1 DEF PushInv, Push!PushReachesSchema
  <2>2. Push!NoPruneKeepsExtras
    <3> SUFFICES ASSUME pushed = "planned", ~prune
                 PROVE  \A o \in Statements :
                          Push!Result(live, plan)[o] = IF schema[o] # NoDef THEN schema[o] ELSE live[o]
      BY DEF Push!NoPruneKeepsExtras
    <3>1. /\ schema \in Push!Schemas /\ live \in Push!Schemas
          /\ plan = Push!Kept!Fold(<<>>, Push!Up(live, schema))
      BY <1>1 DEF PushInv, Push!SyncPlan
    <3> QED BY <3>1, KeptArrives
  <2> QED BY <2>1, <2>2 DEF PushDoesAsAsked
<1> QED BY <1>1, PushInvariance, PTL
=============================================================================
