----------------------- MODULE MigrationRunnerProofs -----------------------
(***************************************************************************)
(* Proofs about MigrationRunner for every set of processes and every       *)
(* number of migrations: its type invariant, mutual exclusion, the order   *)
(* of the migration history and the step simulation of MigrationHistory.   *)
(*                                                                         *)
(* The inductive invariant says of every process whose plan no other run   *)
(* has outdated that what it listed is an initial segment of the           *)
(* migrations and that what it has left to do is the segment right after   *)
(* (migrate) or right before (rollback) the current position.  Without     *)
(* that the order of the history is not inductive: a plan is executed long *)
(* after it was computed.                                                  *)
(***************************************************************************)
EXTENDS MigrationRunner, FiniteSetTheorems, TLAPS

(* The holder of the lock row is the run that is in its critical section.   *)
LockInv == ~misused => \A r \in Runners : InRun(r) => lock = r

(* What a process knows that no other run has outdated.                     *)
ListingOK(r) == \E k \in schema..born : listing[r] = 1..k

TodoOK(r) ==
  IF direction[r] = "up"
  THEN \E k \in schema..born : todo[r] = (schema + 1)..k
  ELSE \E k \in 0..schema : todo[r] = (k + 1)..schema

HistoryInv ==
  ~disturbed =>
    /\ files = 1..born
    /\ rec = 1..schema
    /\ schema <= born
    /\ \A r \in fresh :
         /\ pc[r] = "listed" => ListingOK(r)
         /\ pc[r] \in {"planned", "holding"} => TodoOK(r)

IInv == TypeOK /\ LockInv /\ HistoryInv

-----------------------------------------------------------------------------
(* The plans of `migrate` and `rollback` are segments of the migrations.     *)

(* S is a segment that starts right after s, and one that ends at s.        *)
SegmentAfter(s, k, S) == \E m \in s..k : S = (s + 1)..m
SegmentBefore(s, S) == \E m \in 0..s : S = (m + 1)..s

(* How many migrations a segment has.                                       *)
LEMMA IntervalCardinality ==
  ASSUME NEW a \in Nat, NEW b \in Nat, a <= b
  PROVE  Cardinality((a + 1)..b) = b - a
<1>1. a + 1 \in Int /\ b \in Int
  OBVIOUS
<1>2. Cardinality((a + 1)..b) = IF a + 1 > b THEN 0 ELSE b - (a + 1) + 1
  BY <1>1, FS_Interval
<1>3. QED
  BY <1>2

(* The first n migrations of a segment are a segment with the same start.   *)
LEMMA FirstNOfInterval ==
  ASSUME NEW a \in Nat, NEW b \in Nat, a <= b, NEW n \in Nat
  PROVE  \E k \in a..b : FirstN((a + 1)..b, n) = (a + 1)..k
<1>1. ASSUME NEW t \in (a + 1)..b
      PROVE  t \in FirstN((a + 1)..b, n) <=> t <= a + n
  <2> DEFINE below == {u \in (a + 1)..b : u < t}
  <2>1. below = (a + 1)..(t - 1)
    OBVIOUS
  <2>2. t - 1 \in Nat /\ a <= t - 1
    OBVIOUS
  <2>3. Cardinality((a + 1)..(t - 1)) = (t - 1) - a
    BY <2>2, IntervalCardinality
  <2>4. t \in FirstN((a + 1)..b, n) <=> Cardinality(below) < n
    BY DEF FirstN
  <2> HIDE DEF below
  <2>5. QED
    BY <2>1, <2>2, <2>3, <2>4
<1>2. FirstN((a + 1)..b, n) \subseteq (a + 1)..b
  BY DEF FirstN
<1>3. CASE a + n <= b
  <2>1. \A t : t \in FirstN((a + 1)..b, n) <=> t \in (a + 1)..(a + n)
    BY <1>1, <1>2, <1>3
  <2>2. FirstN((a + 1)..b, n) = (a + 1)..(a + n)
    BY <2>1
  <2>3. a + n \in a..b
    BY <1>3
  <2>4. QED
    BY <2>2, <2>3
<1>4. CASE ~(a + n <= b)
  <2>1. \A t : t \in FirstN((a + 1)..b, n) <=> t \in (a + 1)..b
    BY <1>1, <1>2, <1>4
  <2>2. FirstN((a + 1)..b, n) = (a + 1)..b
    BY <2>1
  <2>3. QED
    BY <2>2
<1>5. QED
  BY <1>3, <1>4

(* The last n migrations of a segment are a segment with the same end.      *)
LEMMA LastNOfInterval ==
  ASSUME NEW b \in Nat, NEW n \in Nat
  PROVE  \E k \in 0..b : LastN(1..b, n) = (k + 1)..b
<1>1. ASSUME NEW t \in 1..b
      PROVE  t \in LastN(1..b, n) <=> b < t + n
  <2> DEFINE above == {u \in 1..b : u > t}
  <2>1. above = (t + 1)..b
    OBVIOUS
  <2>2. t \in Nat /\ t <= b
    OBVIOUS
  <2>3. Cardinality((t + 1)..b) = b - t
    BY <2>2, IntervalCardinality
  <2>4. t \in LastN(1..b, n) <=> Cardinality(above) < n
    BY DEF LastN
  <2> HIDE DEF above
  <2>5. QED
    BY <2>1, <2>2, <2>3, <2>4
<1>2. LastN(1..b, n) \subseteq 1..b
  BY DEF LastN
<1>3. CASE n <= b
  <2>1. \A t : t \in LastN(1..b, n) <=> t \in ((b - n) + 1)..b
    BY <1>1, <1>2, <1>3
  <2>2. LastN(1..b, n) = ((b - n) + 1)..b
    BY <2>1
  <2>3. b - n \in 0..b
    BY <1>3
  <2>4. QED
    BY <2>2, <2>3
<1>4. CASE ~(n <= b)
  <2>1. \A t : t \in LastN(1..b, n) <=> t \in (0 + 1)..b
    BY <1>1, <1>2, <1>4
  <2>2. LastN(1..b, n) = (0 + 1)..b
    BY <2>1
  <2>3. QED
    BY <2>2
<1>5. QED
  BY <1>3, <1>4

(* A run of `migrate` that listed the first k migrations while the first s  *)
(* were recorded plans a segment that starts right after s.                 *)
LEMMA UpPlanOK ==
  ASSUME NEW s \in Nat, NEW k \in Nat, s <= k, NEW to \in Nat, NEW count \in Nat,
         to # NotGiven => to \in 1..k
  PROVE  SegmentAfter(s, k, UpPlan(1..k, 1..s, to, count))
<1> DEFINE pending == {t \in (1..k) \ (1..s) : to # NotGiven => t <= to}
<1>1. \E b \in s..k : pending = (s + 1)..b
  <2>1. CASE to = NotGiven
    <3>1. pending = (s + 1)..k
      BY <2>1
    <3>2. QED
      BY <3>1
  <2>2. CASE to # NotGiven /\ to <= s
    <3>1. pending = (s + 1)..s
      BY <2>2
    <3>2. QED
      BY <3>1
  <2>3. CASE to # NotGiven /\ ~(to <= s)
    <3>1. pending = (s + 1)..to /\ to \in s..k
      BY <2>3
    <3>2. QED
      BY <3>1
  <2>4. QED
    BY <2>1, <2>2, <2>3
<1>2. PICK b \in s..k : pending = (s + 1)..b
  BY <1>1
<1> USE DEF SegmentAfter
<1>3. CASE count = NotGiven
  BY <1>2, <1>3 DEF UpPlan
<1>4. CASE count # NotGiven
  <2>1. UpPlan(1..k, 1..s, to, count) = FirstN((s + 1)..b, count)
    BY <1>2, <1>4 DEF UpPlan
  <2>2. b \in Nat /\ s <= b
    OBVIOUS
  <2>3. PICK m \in s..b : FirstN((s + 1)..b, count) = (s + 1)..m
    BY <2>2, FirstNOfInterval
  <2>4. QED
    BY <2>1, <2>3
<1>5. QED
  BY <1>3, <1>4

(* A run of `rollback` plans a segment that ends at s.                      *)
LEMMA DownPlanOK ==
  ASSUME NEW s \in Nat, NEW k \in Nat, s <= k, NEW to \in Nat, NEW count \in Nat,
         to # NotGiven => to \in 1..k
  PROVE  SegmentBefore(s, DownPlan(1..k, 1..s, to, count))
<1> USE DEF SegmentBefore
<1>1. (1..k) \cap (1..s) = 1..s
  OBVIOUS
<1>2. CASE to # NotGiven /\ to <= s
  <2>1. DownPlan(1..k, 1..s, to, count) = (to + 1)..s
    BY <1>1, <1>2 DEF DownPlan
  <2>2. QED
    BY <2>1, <1>2
<1>3. CASE to # NotGiven /\ ~(to <= s)
  <2>1. DownPlan(1..k, 1..s, to, count) = (s + 1)..s
    BY <1>1, <1>3 DEF DownPlan
  <2>2. QED
    BY <2>1
<1>4. CASE to = NotGiven
  <2> DEFINE n == IF count = NotGiven THEN 1 ELSE count
  <2>1. DownPlan(1..k, 1..s, to, count) = LastN(1..s, n)
    BY <1>1, <1>4 DEF DownPlan
  <2>2. n \in Nat
    OBVIOUS
  <2> HIDE DEF n
  <2>3. QED
    BY <2>1, <2>2, LastNOfInterval
<1>5. QED
  BY <1>2, <1>3, <1>4
-----------------------------------------------------------------------------
(* The invariant holds initially.                                           *)
LEMMA InitIInv == Init => IInv
<1> SUFFICES ASSUME Init PROVE IInv
  OBVIOUS
<1> USE DEF Init
<1>1. TypeOK
  <2>1. born \in 0..MaxTag /\ schema \in 0..MaxTag
    BY BoundAssumption
  <2>2. files \subseteq Tags /\ rec \subseteq Tags /\ lock \in Runners \cup {NoOne}
    OBVIOUS
  <2>3. /\ pc \in [Runners -> {"idle", "listed", "planned", "holding", "failed"}]
        /\ direction \in [Runners -> {"up", "down"}]
        /\ aborted \in [Runners -> BOOLEAN]
    OBVIOUS
  <2>4. listing \in [Runners -> SUBSET Tags] /\ todo \in [Runners -> SUBSET Tags]
    OBVIOUS
  <2>5. fresh \subseteq Runners /\ disturbed \in BOOLEAN /\ misused \in BOOLEAN /\ crashed \in BOOLEAN
    OBVIOUS
  <2>6. QED
    BY <2>1, <2>2, <2>3, <2>4, <2>5 DEF TypeOK
<1>2. LockInv
  BY DEF LockInv, InRun
<1>3. HistoryInv
  BY DEF HistoryInv
<1>4. QED
  BY <1>1, <1>2, <1>3 DEF IInv

(* Every step keeps the types.                                              *)
LEMMA TypeStep == TypeOK /\ [Next]_vars => TypeOK'
<1> SUFFICES ASSUME TypeOK, [Next]_vars PROVE TypeOK'
  OBVIOUS
<1> USE BoundAssumption DEF TypeOK, Tags
<1>1. CASE Generate
  BY <1>1 DEF Generate, ghosts
<1>2. ASSUME NEW t \in Tags, Delete(t) PROVE TypeOK'
  BY <1>2 DEF Delete
<1>3. ASSUME NEW r \in Runners, NEW d \in {"up", "down"}, List(r, d) PROVE TypeOK'
  BY <1>3 DEF List, store
<1>4. ASSUME NEW r \in Runners, NEW to \in 0..MaxTag, NEW count \in 0..MaxTag,
             Plan(r, to, count)
      PROVE  TypeOK'
  BY <1>4 DEF Plan, store, ghosts, UpPlan, DownPlan, FirstN, LastN
<1>5. ASSUME NEW r \in Runners, NEW to \in Tags, UnknownTag(r, to) PROVE TypeOK'
  BY <1>5 DEF UnknownTag, Exit, store, ghosts
<1>6. ASSUME NEW r \in Runners, Acquire(r) PROVE TypeOK'
  BY <1>6 DEF Acquire, store, ghosts
<1>7. ASSUME NEW r \in Runners, Refused(r) PROVE TypeOK'
  BY <1>7 DEF Refused, Exit, store, ghosts
<1>8. ASSUME NEW r \in Runners, NEW t \in Tags, ApplyUp(r, t) PROVE TypeOK'
  BY <1>8 DEF ApplyUp, Outdates
<1>9. ASSUME NEW r \in Runners, NEW t \in Tags, ApplyDown(r, t) PROVE TypeOK'
  BY <1>9 DEF ApplyDown, Outdates
<1>10. ASSUME NEW r \in Runners, NEW t \in Tags, Fail(r, t) PROVE TypeOK'
  BY <1>10 DEF Fail, store, ghosts
<1>11. ASSUME NEW r \in Runners, Release(r) PROVE TypeOK'
  BY <1>11 DEF Release, Exit, store, ghosts
<1>12. ASSUME NEW r \in Runners, Crash(r) PROVE TypeOK'
  BY <1>12 DEF Crash, Exit, store, InRun
<1>13. CASE Unlock
  BY <1>13 DEF Unlock, store, InRun
<1>14. CASE UNCHANGED vars
  BY <1>14 DEF vars
<1>15. QED
  BY <1>1, <1>2, <1>3, <1>4, <1>5, <1>6, <1>7, <1>8, <1>9, <1>10, <1>11, <1>12,
     <1>13, <1>14 DEF Next, Step

(* Every step keeps the lock with the run in its critical section.          *)
LEMMA LockStep == TypeOK /\ LockInv /\ [Next]_vars => LockInv'
<1> SUFFICES ASSUME TypeOK, LockInv, [Next]_vars PROVE LockInv'
  OBVIOUS
<1> USE DEF TypeOK, LockInv, InRun
<1>1. CASE Generate
  BY <1>1 DEF Generate, ghosts
<1>2. ASSUME NEW t \in Tags, Delete(t) PROVE LockInv'
  BY <1>2 DEF Delete
<1>3. ASSUME NEW r \in Runners, NEW d \in {"up", "down"}, List(r, d) PROVE LockInv'
  BY <1>3 DEF List, store
<1>4. ASSUME NEW r \in Runners, NEW to \in 0..MaxTag, NEW count \in 0..MaxTag,
             Plan(r, to, count)
      PROVE  LockInv'
  BY <1>4 DEF Plan, store, ghosts
<1>5. ASSUME NEW r \in Runners, NEW to \in Tags, UnknownTag(r, to) PROVE LockInv'
  BY <1>5 DEF UnknownTag, Exit, store, ghosts
<1>6. ASSUME NEW r \in Runners, Acquire(r) PROVE LockInv'
  BY <1>6, RunnersAssumption DEF Acquire, store, ghosts
<1>7. ASSUME NEW r \in Runners, Refused(r) PROVE LockInv'
  BY <1>7 DEF Refused, Exit, store, ghosts
<1>8. ASSUME NEW r \in Runners, NEW t \in Tags, ApplyUp(r, t) PROVE LockInv'
  BY <1>8 DEF ApplyUp, Outdates
<1>9. ASSUME NEW r \in Runners, NEW t \in Tags, ApplyDown(r, t) PROVE LockInv'
  BY <1>9 DEF ApplyDown, Outdates
<1>10. ASSUME NEW r \in Runners, NEW t \in Tags, Fail(r, t) PROVE LockInv'
  BY <1>10 DEF Fail, store, ghosts
<1>11. ASSUME NEW r \in Runners, Release(r) PROVE LockInv'
  <2>1. SUFFICES ASSUME ~misused', NEW s \in Runners, InRun(s)' PROVE lock' = s
    BY DEF LockInv
  <2>2. s # r /\ pc[s] \in {"holding", "failed"} /\ ~misused
    BY <1>11, <2>1 DEF Release, Exit, ghosts
  <2>3. pc[r] \in {"holding", "failed"}
    BY <1>11 DEF Release
  <2>4. lock = s /\ lock = r
    BY <2>2, <2>3
  <2>5. QED
    BY <2>2, <2>4
<1>12. ASSUME NEW r \in Runners, Crash(r) PROVE LockInv'
  BY <1>12 DEF Crash, Exit, store
<1>13. CASE Unlock
  BY <1>13 DEF Unlock, store
<1>14. CASE UNCHANGED vars
  BY <1>14 DEF vars
<1>15. QED
  BY <1>1, <1>2, <1>3, <1>4, <1>5, <1>6, <1>7, <1>8, <1>9, <1>10, <1>11, <1>12,
     <1>13, <1>14 DEF Next, Step

(* What an undisturbed plan makes of a run's next migration.                *)
LEMMA NextUp ==
  ASSUME TypeOK, NEW r \in Runners, direction[r] = "up", TodoOK(r),
         NEW t, IsNext(r, t)
  PROVE  /\ t = schema + 1 /\ t <= born
         /\ \E k \in t..born : todo[r] \ {t} = (t + 1)..k
<1>1. PICK k \in schema..born : todo[r] = (schema + 1)..k
  BY DEF TodoOK
<1>2. schema \in Nat /\ born \in Nat
  BY BoundAssumption DEF TypeOK
<1>3. t \in (schema + 1)..k /\ \A u \in (schema + 1)..k : t <= u
  BY <1>1 DEF IsNext
<1>4. t = schema + 1 /\ t <= k
  BY <1>2, <1>3
<1>5. todo[r] \ {t} = (t + 1)..k
  BY <1>1, <1>2, <1>4
<1>6. QED
  BY <1>2, <1>4, <1>5

(* The same for a run of `rollback`.                                        *)
LEMMA NextDown ==
  ASSUME TypeOK, NEW r \in Runners, direction[r] = "down", TodoOK(r),
         NEW t, IsNext(r, t)
  PROVE  /\ t = schema /\ t >= 1
         /\ \E k \in 0..(t - 1) : todo[r] \ {t} = (k + 1)..(t - 1)
<1>1. PICK k \in 0..schema : todo[r] = (k + 1)..schema
  BY DEF TodoOK
<1>2. schema \in Nat
  BY BoundAssumption DEF TypeOK
<1>3. t \in (k + 1)..schema /\ \A u \in (k + 1)..schema : u <= t
  BY <1>1 DEF IsNext
<1>4. t = schema /\ t >= k + 1
  BY <1>2, <1>3
<1>5. todo[r] \ {t} = (k + 1)..(t - 1)
  BY <1>1, <1>2, <1>4
<1>6. QED
  BY <1>2, <1>4, <1>5

(* A step that leaves the history, the directory and the plan of a process  *)
(* alone leaves what the process knows valid.                               *)
LEMMA KnowledgeKept ==
  ASSUME UNCHANGED <<born, schema>>, NEW r,
         UNCHANGED <<direction[r], listing[r], todo[r]>>
  PROVE  (ListingOK(r) => ListingOK(r)') /\ (TodoOK(r) => TodoOK(r)')
BY DEF ListingOK, TodoOK

(* Every step keeps the history in order.                                   *)
LEMMA HistoryStep == TypeOK /\ HistoryInv /\ [Next]_vars => HistoryInv'
<1> SUFFICES ASSUME TypeOK, HistoryInv, [Next]_vars, ~disturbed'
             PROVE  /\ files' = 1..born'
                    /\ rec' = 1..schema'
                    /\ schema' <= born'
                    /\ \A s \in fresh' :
                         /\ pc'[s] = "listed" => ListingOK(s)'
                         /\ pc'[s] \in {"planned", "holding"} => TodoOK(s)'
  BY DEF HistoryInv
<1> DEFINE Goal ==
      /\ files' = 1..born'
      /\ rec' = 1..schema'
      /\ schema' <= born'
      /\ \A s \in fresh' :
           /\ pc'[s] = "listed" => ListingOK(s)'
           /\ pc'[s] \in {"planned", "holding"} => TodoOK(s)'
<1>t. schema \in Nat /\ born \in Nat /\ fresh \subseteq Runners
  BY BoundAssumption DEF TypeOK
<1>h. ASSUME ~disturbed
      PROVE  /\ files = 1..born /\ rec = 1..schema /\ schema <= born
             /\ \A s \in fresh :
                  /\ pc[s] = "listed" => ListingOK(s)
                  /\ pc[s] \in {"planned", "holding"} => TodoOK(s)
  BY <1>h DEF HistoryInv
<1>k. ASSUME UNCHANGED <<files, born, rec, schema, disturbed>>,
             \A s \in fresh' :
               \/ pc'[s] \in {"idle", "failed"}
               \/ /\ s \in fresh
                  /\ UNCHANGED <<direction[s], listing[s], todo[s]>>
                  /\ \/ pc'[s] = pc[s]
                     \/ pc[s] = "planned" /\ pc'[s] = "holding"
      PROVE  Goal
  <2>1. ~disturbed
    BY <1>k
  <2>2. ASSUME NEW s \in fresh'
        PROVE  /\ pc'[s] = "listed" => ListingOK(s)'
               /\ pc'[s] \in {"planned", "holding"} => TodoOK(s)'
    <3>1. CASE pc'[s] \in {"idle", "failed"}
      BY <3>1
    <3>2. CASE ~(pc'[s] \in {"idle", "failed"})
      <4>1. /\ s \in fresh
            /\ UNCHANGED <<direction[s], listing[s], todo[s]>>
            /\ \/ pc'[s] = pc[s]
               \/ pc[s] = "planned" /\ pc'[s] = "holding"
        BY <1>k, <3>2
      <4>2. (ListingOK(s) => ListingOK(s)') /\ (TodoOK(s) => TodoOK(s)')
        BY <1>k, <4>1, KnowledgeKept
      <4>3. QED
        BY <1>h, <2>1, <4>1, <4>2
    <3>3. QED
      BY <3>1, <3>2
  <2>3. QED
    BY <1>k, <1>h, <2>1, <2>2
<1>1. CASE Generate
  <2>1. ~disturbed /\ UNCHANGED <<rec, schema, pc, direction, listing, todo, fresh>>
    BY <1>1 DEF Generate, ghosts
  <2>2. files' = 1..born' /\ born' = born + 1
    BY <1>1, <1>h, <2>1, <1>t DEF Generate
  <2>3. ASSUME NEW s \in fresh
        PROVE  (ListingOK(s) => ListingOK(s)') /\ (TodoOK(s) => TodoOK(s)')
    BY <2>1, <2>2, <1>t DEF ListingOK, TodoOK
  <2>4. QED
    BY <1>h, <2>1, <2>2, <2>3, <1>t
<1>2. ASSUME NEW t \in Tags, Delete(t) PROVE Goal
  BY <1>2 DEF Delete
<1>3. ASSUME NEW r \in Runners, NEW d \in {"up", "down"}, List(r, d) PROVE Goal
  <2>1. ~disturbed /\ UNCHANGED <<files, born, rec, schema, todo>>
    BY <1>3 DEF List, store
  <2>2. ASSUME NEW s \in fresh', s # r
        PROVE  /\ pc'[s] = "listed" => ListingOK(s)'
               /\ pc'[s] \in {"planned", "holding"} => TodoOK(s)'
    <3>1. s \in fresh /\ s \in Runners
      BY <1>3, <2>2, <1>t DEF List
    <3>2. UNCHANGED <<pc[s], direction[s], listing[s], todo[s]>>
      BY <1>3, <2>2, <3>1 DEF List, TypeOK
    <3>3. (ListingOK(s) => ListingOK(s)') /\ (TodoOK(s) => TodoOK(s)')
      BY <2>1, <3>2, KnowledgeKept
    <3>4. QED
      BY <1>h, <2>1, <3>1, <3>2, <3>3
  <2>3. pc'[r] = "listed" /\ listing'[r] = files
    BY <1>3 DEF List, TypeOK
  <2>4. ListingOK(r)'
    <3>1. born \in schema..born /\ listing'[r] = 1..born
      BY <1>h, <2>1, <2>3, <1>t
    <3>2. QED
      BY <3>1, <2>1 DEF ListingOK
  <2>5. QED
    BY <1>h, <2>1, <2>2, <2>3, <2>4
<1>4. ASSUME NEW r \in Runners, NEW to \in 0..MaxTag, NEW count \in 0..MaxTag,
             Plan(r, to, count)
      PROVE  Goal
  <2>1. ~disturbed /\ UNCHANGED <<files, born, rec, schema, direction, listing, fresh>>
    BY <1>4 DEF Plan, store, ghosts
  <2>2. ASSUME NEW s \in fresh', s # r
        PROVE  /\ pc'[s] = "listed" => ListingOK(s)'
               /\ pc'[s] \in {"planned", "holding"} => TodoOK(s)'
    <3>1. s \in fresh /\ s \in Runners
      BY <2>1, <2>2, <1>t
    <3>2. UNCHANGED <<pc[s], direction[s], listing[s], todo[s]>>
      BY <1>4, <2>1, <2>2, <3>1 DEF Plan, TypeOK
    <3>3. (ListingOK(s) => ListingOK(s)') /\ (TodoOK(s) => TodoOK(s)')
      BY <2>1, <3>2, KnowledgeKept
    <3>4. QED
      BY <1>h, <2>1, <3>1, <3>2, <3>3
  <2>3. pc[r] = "listed" /\ pc'[r] = "planned"
    BY <1>4 DEF Plan, TypeOK
  <2>4. ASSUME r \in fresh PROVE TodoOK(r)'
    <3>1. PICK k \in schema..born : listing[r] = 1..k
      BY <1>h, <2>1, <2>3, <2>4 DEF ListingOK
    <3>2. k \in Nat /\ schema <= k /\ to \in Nat /\ count \in Nat
      BY <3>1, <1>t, BoundAssumption
    <3>3. to # NotGiven => to \in 1..k
      BY <1>4, <3>1 DEF Plan
    <3>4. rec = 1..schema
      BY <1>h, <2>1
    <3>5. CASE direction[r] = "up"
      <4>1. todo'[r] = UpPlan(1..k, 1..schema, to, count)
        BY <1>4, <3>1, <3>4, <3>5 DEF Plan, TypeOK
      <4>2. PICK m \in schema..k : UpPlan(1..k, 1..schema, to, count) = (schema + 1)..m
        <5>1. SegmentAfter(schema, k, UpPlan(1..k, 1..schema, to, count))
          BY <3>2, <3>3, <1>t, UpPlanOK
        <5>2. QED
          BY <5>1 DEF SegmentAfter
      <4>3. m \in schema..born
        BY <3>1, <3>2, <1>t
      <4>4. QED
        BY <4>1, <4>2, <4>3, <3>5, <2>1 DEF TodoOK
    <3>6. CASE direction[r] = "down"
      <4>1. todo'[r] = DownPlan(1..k, 1..schema, to, count)
        BY <1>4, <3>1, <3>4, <3>6 DEF Plan, TypeOK
      <4>2. PICK m \in 0..schema : DownPlan(1..k, 1..schema, to, count) = (m + 1)..schema
        <5>1. SegmentBefore(schema, DownPlan(1..k, 1..schema, to, count))
          BY <3>2, <3>3, <1>t, DownPlanOK
        <5>2. QED
          BY <5>1 DEF SegmentBefore
      <4>3. QED
        BY <4>1, <4>2, <3>6, <2>1 DEF TodoOK
    <3>7. QED
      BY <3>5, <3>6 DEF TypeOK
  <2>5. QED
    BY <1>h, <2>1, <2>2, <2>3, <2>4
<1>5. ASSUME NEW r \in Runners, NEW to \in Tags, UnknownTag(r, to) PROVE Goal
  BY <1>5, <1>k, <1>t DEF UnknownTag, Exit, store, ghosts, TypeOK
<1>6. ASSUME NEW r \in Runners, Acquire(r) PROVE Goal
  BY <1>6, <1>k, <1>t DEF Acquire, store, ghosts, TypeOK
<1>7. ASSUME NEW r \in Runners, Refused(r) PROVE Goal
  BY <1>7, <1>k, <1>t DEF Refused, Exit, store, ghosts, TypeOK
<1>8. ASSUME NEW r \in Runners, NEW t \in Tags, ApplyUp(r, t) PROVE Goal
  <2>1. ~disturbed /\ r \in fresh /\ fresh' = {r}
    BY <1>8, <1>t DEF ApplyUp, Outdates
  <2>2. /\ pc[r] = "holding" /\ direction[r] = "up" /\ IsNext(r, t)
        /\ rec' = rec \cup {t} /\ schema' = t
        /\ UNCHANGED <<files, born, pc, direction, listing>>
        /\ todo'[r] = todo[r] \ {t}
    BY <1>8 DEF ApplyUp, TypeOK
  <2>3. /\ t = schema + 1 /\ t <= born
        /\ \E k \in t..born : todo[r] \ {t} = (t + 1)..k
    BY <1>h, <2>1, <2>2, NextUp
  <2>4. TodoOK(r)'
    BY <2>2, <2>3 DEF TodoOK
  <2>5. rec' = 1..schema'
    BY <1>h, <2>1, <2>2, <2>3, <1>t
  <2>6. QED
    BY <1>h, <2>1, <2>2, <2>3, <2>4, <2>5
<1>9. ASSUME NEW r \in Runners, NEW t \in Tags, ApplyDown(r, t) PROVE Goal
  <2>1. ~disturbed /\ r \in fresh /\ fresh' = {r}
    BY <1>9, <1>t DEF ApplyDown, Outdates
  <2>2. /\ pc[r] = "holding" /\ direction[r] = "down" /\ IsNext(r, t)
        /\ rec' = rec \ {t} /\ schema' = t - 1
        /\ UNCHANGED <<files, born, pc, direction, listing>>
        /\ todo'[r] = todo[r] \ {t}
    BY <1>9 DEF ApplyDown, TypeOK
  <2>3. /\ t = schema /\ t >= 1
        /\ \E k \in 0..(t - 1) : todo[r] \ {t} = (k + 1)..(t - 1)
    BY <1>h, <2>1, <2>2, NextDown
  <2>4. TodoOK(r)'
    BY <2>2, <2>3 DEF TodoOK
  <2>5. rec' = 1..schema' /\ schema' <= born'
    BY <1>h, <2>1, <2>2, <2>3, <1>t
  <2>6. QED
    BY <1>h, <2>1, <2>2, <2>4, <2>5
<1>10. ASSUME NEW r \in Runners, NEW t \in Tags, Fail(r, t) PROVE Goal
  BY <1>10, <1>k, <1>t DEF Fail, store, ghosts, TypeOK
<1>11. ASSUME NEW r \in Runners, Release(r) PROVE Goal
  BY <1>11, <1>k, <1>t DEF Release, Exit, store, ghosts, TypeOK
<1>12. ASSUME NEW r \in Runners, Crash(r) PROVE Goal
  BY <1>12, <1>k, <1>t DEF Crash, Exit, store, TypeOK
<1>13. CASE Unlock
  BY <1>13, <1>k, <1>t DEF Unlock, store, TypeOK
<1>14. CASE UNCHANGED vars
  BY <1>14, <1>k, <1>t DEF vars, TypeOK
<1>15. QED
  BY <1>1, <1>2, <1>3, <1>4, <1>5, <1>6, <1>7, <1>8, <1>9, <1>10, <1>11, <1>12,
     <1>13, <1>14 DEF Next, Step

-----------------------------------------------------------------------------
(* The inductive invariant holds in every behaviour.                        *)
THEOREM Invariance == Spec => []IInv
<1>1. Init => IInv
  BY InitIInv
<1>2. IInv /\ [Next]_vars => IInv'
  BY TypeStep, LockStep, HistoryStep DEF IInv
<1>3. QED
  BY <1>1, <1>2, PTL DEF Spec

(* Every variable of the runner keeps its type.                             *)
THEOREM TypeCorrect == Spec => []TypeOK
<1>1. IInv => TypeOK
  BY DEF IInv
<1>2. QED
  BY <1>1, Invariance, PTL

(* Unless an operator cleared the row of a live run, no two runs are        *)
(* between their lock and their unlock together (migrate.ts, lock/unlock).  *)
THEOREM RunnerMutualExclusion == Spec => []MutualExclusion
<1>1. IInv => MutualExclusion
  BY DEF IInv, LockInv, MutualExclusion
<1>2. QED
  BY <1>1, Invariance, PTL

(* A lock row that no run is about to delete is accounted for: a process    *)
(* died, or its session did, and nobody has run unlock since.               *)
LEMMA StaleLockStep ==
  TypeOK /\ StaleLockMeansCrash /\ [Next]_vars => StaleLockMeansCrash'
<1> SUFFICES ASSUME TypeOK, StaleLockMeansCrash, [Next]_vars, lock' # NoOne
             PROVE  InRun(lock)' \/ crashed'
  BY DEF StaleLockMeansCrash
<1> USE RunnersAssumption DEF TypeOK, StaleLockMeansCrash, InRun
<1>1. ASSUME NEW r \in Runners, Acquire(r)
      PROVE  InRun(lock)' \/ crashed'
  BY <1>1 DEF Acquire
<1>2. ASSUME NEW r \in Runners, Release(r)
      PROVE  InRun(lock)' \/ crashed'
  BY <1>2 DEF Release
<1>3. ASSUME NEW r \in Runners, Crash(r)
      PROVE  InRun(lock)' \/ crashed'
  BY <1>3 DEF Crash, Exit
<1>4. ASSUME NEW r \in Runners,
             \/ \E to, count \in 0..MaxTag : Plan(r, to, count)
             \/ \E to \in Tags : UnknownTag(r, to)
             \/ Refused(r)
             \/ \E d \in {"up", "down"} : List(r, d)
      PROVE  InRun(lock)' \/ crashed'
  BY <1>4 DEF Plan, UnknownTag, Refused, List, Exit, ghosts
<1>5. ASSUME NEW r \in Runners, NEW t \in Tags, ApplyUp(r, t) \/ ApplyDown(r, t) \/ Fail(r, t)
      PROVE  InRun(lock)' \/ crashed'
  BY <1>5 DEF ApplyUp, ApplyDown, Fail, Outdates, ghosts
<1>6. CASE Generate \/ \E t \in Tags : Delete(t)
  BY <1>6 DEF Generate, Delete, ghosts
<1>7. CASE Unlock
  BY <1>7 DEF Unlock
<1>8. CASE UNCHANGED vars
  BY <1>8 DEF vars
<1>9. QED
  BY <1>1, <1>2, <1>3, <1>4, <1>5, <1>6, <1>7, <1>8 DEF Next, Step

(* A run that ends in an orderly way, also by a failing migration, leaves   *)
(* no lock row behind (migrate.ts, the unlock in `finally`).                *)
THEOREM LockIsReleased == Spec => []StaleLockMeansCrash
<1>1. Init => StaleLockMeansCrash
  BY DEF Init, StaleLockMeansCrash
<1>2. TypeOK /\ StaleLockMeansCrash /\ [Next]_vars => StaleLockMeansCrash'
  BY StaleLockStep
<1>3. QED
  BY <1>1, <1>2, TypeCorrect, PTL DEF Spec

(* While no outdated plan was executed and no file vanished, the records    *)
(* are the migrations 1..k and the schema is in the state k left it in.     *)
THEOREM HistoryStaysInOrder == Spec => []OrderlyHistory
<1>1. IInv => OrderlyHistory
  BY DEF IInv, HistoryInv, OrderlyHistory, HistoryInOrder
<1>2. QED
  BY <1>1, Invariance, PTL

(* Each step that leaves the history undisturbed is a step of the abstract  *)
(* history or changes nothing it sees.                                      *)
LEMMA StepSimulation ==
  TypeOK /\ HistoryInv /\ [Next]_vars /\ ~disturbed'
    => History!Next \/ UNCHANGED <<born, rec, schema>>
<1> SUFFICES ASSUME TypeOK, HistoryInv, [Next]_vars, ~disturbed'
             PROVE  History!Next \/ UNCHANGED <<born, rec, schema>>
  OBVIOUS
<1> USE DEF History!Next
<1>t. schema \in Nat /\ born \in Nat
  BY BoundAssumption DEF TypeOK
<1>1. CASE Generate
  BY <1>1 DEF Generate, History!Generate
<1>2. ASSUME NEW r \in Runners, NEW t \in Tags, ApplyUp(r, t)
      PROVE  History!Next
  <2>1. ~disturbed /\ r \in fresh
    BY <1>2 DEF ApplyUp, Outdates
  <2>2. /\ pc[r] = "holding" /\ direction[r] = "up" /\ IsNext(r, t)
        /\ rec' = rec \cup {t} /\ schema' = t /\ born' = born
    BY <1>2 DEF ApplyUp
  <2>3. TodoOK(r)
    BY <2>1, <2>2 DEF HistoryInv
  <2>4. t = schema + 1 /\ t <= born
    BY <2>2, <2>3, NextUp
  <2>5. QED
    BY <2>2, <2>4, <1>t DEF History!Apply
<1>3. ASSUME NEW r \in Runners, NEW t \in Tags, ApplyDown(r, t)
      PROVE  History!Next
  <2>1. ~disturbed /\ r \in fresh
    BY <1>3 DEF ApplyDown, Outdates
  <2>2. /\ pc[r] = "holding" /\ direction[r] = "down" /\ IsNext(r, t)
        /\ rec' = rec \ {t} /\ schema' = t - 1 /\ born' = born
    BY <1>3 DEF ApplyDown
  <2>3. TodoOK(r)
    BY <2>1, <2>2 DEF HistoryInv
  <2>4. t = schema /\ t >= 1
    BY <2>2, <2>3, NextDown
  <2>5. QED
    BY <2>2, <2>4, <1>t DEF History!Revert
<1>4. CASE UNCHANGED <<born, rec, schema>>
  BY <1>4
<1>5. QED
  BY <1>1, <1>2, <1>3, <1>4
     DEF Next, Step, Delete, List, Plan, UnknownTag, Acquire, Refused, Fail, Release,
         Crash, Unlock, store, vars

(* The runner implements the abstract history step by step, for any number  *)
(* of processes, until a plan that was outdated is executed.                *)
THEOREM StepsAreOrderly == Spec => OrderlySteps
<1>1. IInv /\ [Next]_vars => [~disturbed' => History!Next]_<<born, rec, schema>>
  BY StepSimulation DEF IInv
<1>2. QED
  BY <1>1, Invariance, PTL DEF Spec, OrderlySteps
=============================================================================
