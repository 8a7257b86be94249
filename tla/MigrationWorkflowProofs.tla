----------------------- MODULE MigrationWorkflowProofs -----------------------
(***************************************************************************)
(* The commands of the CLI, for any schema and any number of migration     *)
(* files.                                                                  *)
(*                                                                         *)
(* The bookkeeping of the commands (FlowInv) holds whatever happens. The   *)
(* files form a chain: each starts from the stage the ones before it lead  *)
(* to (ChainInv), because a command writes the delta of the snapshot, and  *)
(* the snapshot is where the files end. The recorded files are the first k *)
(* of them (PrefixInv), because `migrate` and `rollback` work at the end   *)
(* of the records and a baseline is recorded over files that are all       *)
(* recorded. The properties alone are not inductive: between two writes of *)
(* a command the snapshot is behind the files, or the files behind the     *)
(* records, and what makes up for it is what the job carries (JobInv,      *)
(* PullInv).                                                               *)
(*                                                                         *)
(* Where the database is (DatabaseInv) follows only for commands on whole  *)
(* schemas (WholeSchema): a filtered squash or pull writes a baseline that *)
(* leaves out objects the database has, and a merging pull records objects *)
(* it does not have.                                                       *)
(***************************************************************************)
EXTENDS MigrationWorkflow, TLAPS

Loop == INSTANCE LeftFoldProofs WITH Step <- After
Done == INSTANCE LeftFoldProofs WITH Step <- KeepApplied
Todo == INSTANCE LeftFoldProofs WITH Step <- KeepPending

-----------------------------------------------------------------------------
AnyDefinition == UNION {Definitions(o) : o \in Objects}

States == {s \in [Objects -> AnyDefinition] : \A o \in Objects : s[o] \in Definitions(o)}

Migrations == [id : Nat, from : States, to : States]

Writes == {"idle", "snapshot", "plan", "reconcile", "record", "baseline"}

TypeInv ==
  /\ {schema, snap, db} \subseteq States
  /\ files \in Seq(Migrations)
  /\ made \in Nat
  /\ pc \in Writes
  /\ job \in [snap : States, then : {"idle", "reconcile", "record"},
              filter : SUBSET Objects, mode : PullModes \cup {"none"}]

-----------------------------------------------------------------------------
(* The database after the first i migration files of ms.                    *)
Stage(ms, i) == Replay(Empty, SubSeq(ms, 1, i))

(* m starts from s.                                                         *)
Follows(s, m) == \A o \in Touches(m) : m.from[o] = s[o]

(* Every file starts where the ones before it end.                          *)
Chain(ms) == \A i \in DOMAIN ms : Follows(Stage(ms, i - 1), ms[i])

(* Exactly the first k files are recorded as applied.                       *)
Upto(k) == \A i \in DOMAIN files : IsApplied(files[i]) <=> i <= k

(* A baseline of `pull` is being written, or of `gen --baseline`.           *)
Pulling   == pc = "baseline" \/ (pc \in {"snapshot", "record"} /\ job.then = "record")
Squashing == pc = "reconcile" \/ (pc \in {"snapshot", "record"} /\ job.then = "reconcile")

(* What a command carries.                                                  *)
JobInv ==
  /\ pc = "idle" => job = NoJob
  /\ pc = "plan" => files = <<>> /\ job.then # "record"
  /\ pc = "plan" \/ Squashing => job.filter \in SquashFilters
  /\ pc = "baseline" => job.then = "idle"
  /\ pc = "reconcile" => job.then = "reconcile"
  /\ Pulling => job.mode \in PullModes /\ job.filter \in PullFilters
  /\ job.mode # "none" => Pulling
  /\ pc = "record" => Pulling \/ Squashing
  /\ Squashing => Len(files) = 1

(* Files are numbered in their order, and only what was made is recorded;   *)
(* what a command has just written is the last, and is not.                 *)
OrderInv ==
  /\ \A i, j \in DOMAIN files : i < j => files[i].id < files[j].id
  /\ \A i \in DOMAIN files : files[i].id \in 1..made
  /\ applied \subseteq 1..made
  /\ pc \in {"snapshot", "reconcile", "record"} =>
       files # <<>> /\ files[Len(files)].id = made /\ made \notin applied

(* The files are a chain, and it ends at the snapshot.                      *)
ChainInv ==
  incidents \cap {"torn", "reset", "cleared"} = {} =>
    /\ Chain(files)
    /\ pc \in {"idle", "reconcile", "record", "baseline"} => Replay(Empty, files) = snap
    /\ pc = "snapshot" => Replay(Empty, files) = job.snap

(* The files that are recorded come first; a baseline is written when all   *)
(* the others are.                                                          *)
PrefixInv ==
  incidents \subseteq {"drift", "pushed", "raced", "squashed"} =>
    /\ \E k \in 0..Len(files) : Upto(k)
    /\ pc = "baseline" => Upto(Len(files))
    /\ pc = "snapshot" /\ job.then = "record" => Upto(Len(files) - 1)
    /\ pc = "record" => Upto(Len(files) - 1)

(* A pull of everything that keeps nothing local, and is alone.             *)
PullInv ==
  job.mode \in {"mirror", "discard"} /\ job.filter = Objects /\ "raced" \notin incidents =>
    /\ schema = db
    /\ pc = "snapshot" => job.snap = db
    /\ pc = "record" => snap = db

FlowInv == TypeInv /\ JobInv /\ OrderInv /\ ChainInv /\ PrefixInv /\ PullInv

(* Objects that t has are in s.                                             *)
Covers(s, t) == \A o \in Objects : t[o] # NoDef => s[o] # NoDef

(* The database is at the stage of the files that are recorded, or has its  *)
(* objects at least when a squash left the baseline pending.                *)
DatabaseInv ==
  incidents \subseteq {"squashed"} =>
    /\ pc = "snapshot" /\ Squashing => job.snap = schema
    /\ pc = "reconcile" => snap = schema
    /\ pc = "record" => snap = db
    /\ pc \in {"idle", "baseline"} \/ (pc \in {"plan", "snapshot"} /\ job.then = "idle") =>
         \A k \in 0..Len(files) : Upto(k) =>
           /\ incidents = {} => db = Stage(files, k)
           /\ Covers(db, Stage(files, k))

-----------------------------------------------------------------------------
(* A function that gives every object one of its definitions is a schema    *)
(* state.                                                                   *)
LEMMA MakeState ==
  ASSUME NEW f, f = [o \in Objects |-> f[o]], \A o \in Objects : f[o] \in Definitions(o)
  PROVE  f \in States
<1>1. \A o \in Objects : f[o] \in AnyDefinition
  BY DEF AnyDefinition
<1> QED BY <1>1, Zenon DEF States

(* A schema state is a function that gives every object one of its          *)
(* definitions.                                                             *)
LEMMA StateDefs ==
  ASSUME NEW s \in States
  PROVE  s = [o \in Objects |-> s[o]] /\ \A o \in Objects : s[o] \in Definitions(o)
BY DEF States

(* No schema at all is a schema state.                                      *)
LEMMA EmptyState == Empty \in States
<1>1. Empty = [o \in Objects |-> Empty[o]] /\ \A o \in Objects : Empty[o] \in Definitions(o)
  BY DEF Empty, Definitions
<1> QED BY <1>1, MakeState

(* A state restricted to a filter is one (filterKinds).                     *)
LEMMA OnlyState ==
  ASSUME NEW F, NEW s \in States
  PROVE  Only(F, s) \in States
<1>1. Only(F, s) = [o \in Objects |-> Only(F, s)[o]]
  BY DEF Only
<1>2. \A o \in Objects : Only(F, s)[o] \in Definitions(o)
  BY StateDefs DEF Only, Definitions
<1> QED BY <1>1, <1>2, MakeState

(* The snapshot after a filtered command is one (mergeStored).              *)
LEMMA MergedState ==
  ASSUME NEW F, NEW p \in States, NEW n \in States
  PROVE  Merged(F, p, n) \in States
<1>1. Merged(F, p, n) = [o \in Objects |-> Merged(F, p, n)[o]]
  BY DEF Merged
<1>2. \A o \in Objects : Merged(F, p, n)[o] \in Definitions(o)
  BY StateDefs DEF Merged
<1> QED BY <1>1, <1>2, MakeState

(* The delta of two states is a migration.                                  *)
LEMMA MigrationType ==
  ASSUME NEW a \in States, NEW b \in States, NEW n \in Nat
  PROVE  Migration(a, b, n) \in Migrations
BY OnlyState DEF Migration, Migrations

(* An object has only fields it may have.                                   *)
LEMMA FieldSets ==
  ASSUME NEW o \in Objects, NEW d \in Definitions(o)
  PROVE  FieldsOf(d) \subseteq Fields[o]
BY DEF Definitions, FieldsOf

(* A migration leads from a schema state to a schema state.                 *)
LEMMA AfterState ==
  ASSUME NEW s \in States, NEW m \in Migrations
  PROVE  After(s, m) \in States
<1>1. After(s, m) = [o \in Objects |-> After(s, m)[o]]
  BY DEF After
<1>2. ASSUME NEW o \in Objects
      PROVE  After(s, m)[o] \in Definitions(o)
  <2>1. s[o] \in Definitions(o) /\ m.from[o] \in Definitions(o) /\ m.to[o] \in Definitions(o)
    BY StateDefs DEF Migrations
  <2>2. CASE o \notin Touches(m)
    BY <2>1, <2>2 DEF After
  <2>3. CASE o \in Touches(m) /\ m.to[o] = NoDef
    BY <2>1, <2>3 DEF After
  <2>4. CASE o \in Touches(m) /\ m.to[o] # NoDef
    <3>1. m.to[o] \subseteq Fields[o] /\ FieldsOf(s[o]) \subseteq Fields[o]
      BY <2>1, <2>4, FieldSets DEF Definitions
    <3> DEFINE now == (FieldsOf(s[o]) \ (FieldsOf(m.from[o]) \ m.to[o]))
                      \cup (m.to[o] \ FieldsOf(m.from[o]))
    <3>2. now \in SUBSET Fields[o]
      BY <3>1
    <3>3. After(s, m)[o] = now
      BY <2>4 DEF After
    <3> QED BY <3>2, <3>3 DEF Definitions
  <2> QED BY <2>2, <2>3, <2>4
<1> QED BY <1>1, <1>2, MakeState

(* No file changes nothing.                                                 *)
LEMMA ReplayEmpty ==
  ASSUME NEW s
  PROVE  Replay(s, <<>>) = s
BY Loop!FoldEmpty DEF Replay, Replayed!Fold, Loop!Fold

(* One more file is run after the others.                                   *)
LEMMA ReplayAppend ==
  ASSUME NEW s, NEW ms \in Seq(Migrations), NEW m \in Migrations
  PROVE  Replay(s, Append(ms, m)) = After(Replay(s, ms), m)
<1>1. Loop!Fold(s, Append(ms, m)) = After(Loop!Fold(s, ms), m)
  BY Loop!FoldAppend
<1>2. \A ns : Replay(s, ns) = Loop!Fold(s, ns)
  BY DEF Replay, Replayed!Fold, Loop!Fold
<1> QED BY <1>1, <1>2

(* A migration touches what differs between the states it was made from.    *)
LEMMA MigrationTouches ==
  ASSUME NEW a, NEW b, NEW n
  PROVE  Touches(Migration(a, b, n)) = Changed(a, b)
BY DEF Touches, Migration, Changed, Only

(* The delta of a and b leads to t, from a state that is a where a and b    *)
(* differ.                                                                  *)
LEMMA Arrives ==
  ASSUME NEW s \in States, NEW a \in States, NEW b \in States, NEW t \in States, NEW n,
         \A o \in Objects : IF a[o] = b[o] THEN t[o] = s[o] ELSE s[o] = a[o] /\ t[o] = b[o]
  PROVE  After(s, Migration(a, b, n)) = t
<1> DEFINE m == Migration(a, b, n)
<1>1. \A o \in Changed(a, b) : m.from[o] = a[o] /\ m.to[o] = b[o]
  BY DEF Migration, Only, Changed
<1>2. Touches(m) = Changed(a, b)
  BY MigrationTouches
<1> HIDE DEF m
<1>3. ASSUME NEW o \in Objects
      PROVE  After(s, m)[o] = t[o]
  <2>1. CASE a[o] = b[o]
    BY <1>2, <2>1 DEF After, Changed
  <2>2. CASE a[o] # b[o]
    <3>1. o \in Touches(m) /\ s[o] = a[o] /\ t[o] = b[o] /\ m.from[o] = a[o] /\ m.to[o] = b[o]
      BY <1>1, <1>2, <2>2 DEF Changed
    <3>2. CASE b[o] = NoDef
      BY <3>1, <3>2 DEF After
    <3>3. CASE b[o] # NoDef
      <4>1. After(s, m)[o] = (FieldsOf(a[o]) \ (FieldsOf(a[o]) \ b[o])) \cup (b[o] \ FieldsOf(a[o]))
        BY <3>1, <3>3 DEF After
      <4> QED BY <3>1, <4>1
    <3> QED BY <3>2, <3>3
  <2> QED BY <2>1, <2>2
<1>4. After(s, m) = [o \in Objects |-> After(s, m)[o]]
  BY DEF After
<1>5. t = [o \in Objects |-> t[o]]
  BY StateDefs
<1> QED BY <1>3, <1>4, <1>5 DEF m

(* Files lead from a schema state to a schema state.                        *)
LEMMA ReplayState ==
  ASSUME NEW s \in States, NEW ms \in Seq(Migrations)
  PROVE  Replay(s, ms) \in States
<1>1. \A t \in States : \A m \in Migrations : After(t, m) \in States
  BY AfterState
<1>2. Loop!Fold(s, ms) \in States
  BY <1>1, Loop!FoldType
<1> QED BY <1>2 DEF Replay, Replayed!Fold, Loop!Fold

(* What `rollback` and `migrate` see of the files are files.                *)
LEMMA KeptTypes ==
  ASSUME NEW T, files \in Seq(T)
  PROVE  Applied \in Seq(T) /\ Pending \in Seq(T)
<1>1. \A ms \in Seq(T) : \A m \in T :
        KeepApplied(ms, m) \in Seq(T) /\ KeepPending(ms, m) \in Seq(T)
  BY DEF KeepApplied, KeepPending
<1>2. <<>> \in Seq(T)
  OBVIOUS
<1>3. Done!Fold(<<>>, files) \in Seq(T)
  BY <1>1, <1>2, Done!FoldType
<1>4. Todo!Fold(<<>>, files) \in Seq(T)
  BY <1>1, <1>2, Todo!FoldType
<1> QED BY <1>3, <1>4 DEF Applied, Pending, Recorded!Fold, Waiting!Fold, Done!Fold, Todo!Fold

(* The schema as far as the database has it is a state (intersectKinds).    *)
LEMMA InDatabaseState ==
  ASSUME schema \in States
  PROVE  InDatabase \in States
<1>1. InDatabase = [o \in Objects |-> InDatabase[o]]
  BY DEF InDatabase
<1>2. \A o \in Objects : InDatabase[o] \in Definitions(o)
  BY StateDefs DEF InDatabase, Definitions
<1> QED BY <1>1, <1>2, MakeState

(* What `pull` leaves in the schema files is a state (planPull).            *)
LEMMA PulledState ==
  ASSUME schema \in States, db \in States, NEW F, NEW mode
  PROVE  Pulled(F, mode) \in States
<1>1. Pulled(F, mode) = [o \in Objects |-> Pulled(F, mode)[o]]
  BY DEF Pulled
<1>2. ASSUME NEW o \in Objects
      PROVE  Pulled(F, mode)[o] \in Definitions(o)
  <2>1. schema[o] \in Definitions(o) /\ db[o] \in Definitions(o) /\ NoDef \in Definitions(o)
    BY StateDefs DEF Definitions
  <2>2. CASE mode = "merge" /\ o \in Found(F)
    <3>1. db[o] \cup FieldsOf(schema[o]) \in SUBSET Fields[o]
      BY <2>1, <2>2, FieldSets DEF Found, Definitions
    <3> QED BY <2>2, <3>1 DEF Pulled, Definitions
  <2>3. CASE ~(mode = "merge" /\ o \in Found(F))
    BY <2>1, <2>3 DEF Pulled
  <2> QED BY <2>2, <2>3
<1> QED BY <1>1, <1>2, MakeState

(* What `push` leaves in the database is a state.                           *)
LEMMA PushedState ==
  ASSUME schema \in States, db \in States, NEW prune, Push(prune)
  PROVE  db' \in States
<1>1. db' = [o \in Objects |-> db'[o]]
  BY DEF Push
<1>2. ASSUME NEW o \in Objects
      PROVE  db'[o] \in Definitions(o)
  <2>1. schema[o] \in Definitions(o) /\ db[o] \in Definitions(o)
    BY StateDefs
  <2>2. CASE schema[o] # NoDef
    <3>1. schema[o] \cup FieldsOf(db[o]) \in SUBSET Fields[o]
      BY <2>1, <2>2, FieldSets DEF Definitions
    <3> QED BY <2>1, <3>1 DEF Push, Definitions
  <2>3. CASE schema[o] = NoDef
    BY <2>1, <2>3 DEF Push
  <2> QED BY <2>2, <2>3
<1> QED BY <1>1, <1>2, MakeState

(* One object of a state may be redefined: an edit, or a change by someone  *)
(* else.                                                                    *)
LEMMA SetState ==
  ASSUME NEW s \in States, NEW o \in Objects, NEW d \in Definitions(o)
  PROVE  [s EXCEPT ![o] = d] \in States
<1> DEFINE t == [s EXCEPT ![o] = d]
<1>1. t = [p \in Objects |-> t[p]]
  BY StateDefs
<1>2. \A p \in Objects : t[p] \in Definitions(p)
  BY StateDefs
<1> HIDE DEF t
<1>3. t \in States
  BY <1>1, <1>2, MakeState
<1> QED BY <1>3 DEF t

(* The way back of a migration is a migration.                              *)
LEMMA InvertedType ==
  ASSUME NEW m \in Migrations
  PROVE  Inverted(m) \in Migrations
BY DEF Inverted, Migrations

(* There is nothing at first.                                               *)
LEMMA InitTypeInv == Init => TypeInv
BY EmptyState DEF Init, TypeInv, NoJob, Writes

(* Every command writes what has its type.                                  *)
LEMMA StepTypeInv == TypeInv /\ [Next]_vars => TypeInv'
<1> SUFFICES ASSUME TypeInv, [Next]_vars
             PROVE  TypeInv'
  OBVIOUS
<1> USE OptionsAssumption DEF TypeInv, Writes
<1>0. /\ NoJob \in [snap : States, then : {"idle", "reconcile", "record"},
                    filter : SUBSET Objects, mode : PullModes \cup {"none"}]
  BY EmptyState DEF NoJob
<1>1. ASSUME NEW a \in States, NEW b \in States, WriteFile(a, b)
      PROVE  files' \in Seq(Migrations) /\ made' \in Nat
  BY <1>1, MigrationType DEF WriteFile
<1>2. CASE Edit
  <2>0. PICK o \in Objects : \E d \in Definitions(o) : schema' = [schema EXCEPT ![o] = d]
    BY <1>2 DEF Edit
  <2>1. PICK d \in Definitions(o) : schema' = [schema EXCEPT ![o] = d]
    BY <2>0
  <2>2. schema \in States
    OBVIOUS
  <2>3. [schema EXCEPT ![o] = d] \in States
    BY <2>2, SetState
  <2> QED BY <1>2, <2>1, <2>3 DEF Edit
<1>3. ASSUME NEW F \in GenFilters, Gen(F)
      PROVE  TypeInv'
  <2>1. Only(F, snap) \in States /\ Only(F, schema) \in States /\ Merged(F, snap, schema) \in States
    BY OnlyState, MergedState
  <2>2. files' \in Seq(Migrations) /\ made' \in Nat
    BY <1>1, <1>3, <2>1 DEF Gen
  <2> QED BY <1>0, <1>3, <2>1, <2>2 DEF Gen
<1>4. CASE WriteSnapshot
  BY <1>0, <1>4 DEF WriteSnapshot
<1>5. CASE Reset
  BY <1>5, EmptyState DEF Reset
<1>6. ASSUME NEW F \in SquashFilters, Squash(F)
      PROVE  TypeInv'
  <2>1. F \subseteq Objects
    OBVIOUS
  <2>2. job' = [NoJob EXCEPT !.filter = F, !.then = IF files = <<>> THEN "idle" ELSE "reconcile"]
    BY <1>6 DEF Squash
  <2>3. files' \in Seq(Migrations) /\ pc' = "plan"
    BY <1>6 DEF Squash
  <2>4. UNCHANGED <<schema, snap, made, db>>
    BY <1>6 DEF Squash
  <2> QED BY <1>0, <2>1, <2>2, <2>3, <2>4
<1>7. CASE WriteBaseline
  <2>1. Only(job.filter, schema) \in States /\ Merged(job.filter, Empty, schema) \in States
    BY OnlyState, MergedState, EmptyState
  <2>2. files' \in Seq(Migrations) /\ made' \in Nat
    BY <1>1, <1>7, <2>1, EmptyState DEF WriteBaseline
  <2> QED BY <1>7, <2>1, <2>2 DEF WriteBaseline
<1>8. CASE NoBaseline
  BY <1>0, <1>8 DEF NoBaseline, Finished
<1>9. CASE LeavePending
  BY <1>0, <1>9 DEF LeavePending, Finished
<1>10. CASE ClearRecords
  BY <1>10 DEF ClearRecords
<1>11. CASE Record
  BY <1>0, <1>11 DEF Record, Finished
<1>12. CASE Migrate
  <2>1. Pending \in Seq(Migrations) /\ Pending # <<>>
    BY <1>12, KeptTypes DEF Migrate
  <2>2. Head(Pending) \in Migrations
    BY <2>1
  <2>3. db' \in States
    BY <1>12, <2>2, AfterState DEF Migrate
  <2> QED BY <1>12, <2>3 DEF Migrate
<1>13. CASE Rollback
  <2>1. Applied \in Seq(Migrations) /\ Applied # <<>>
    BY <1>13, KeptTypes DEF Rollback
  <2>2. Last(Applied) \in Migrations
    BY <2>1 DEF Last
  <2>3. db' \in States
    BY <1>13, <2>2, AfterState, InvertedType DEF Rollback
  <2> QED BY <1>13, <2>3 DEF Rollback
<1>14. ASSUME NEW F \in PullFilters, NEW mode \in PullModes, Pull(F, mode)
       PROVE  TypeInv'
  <2>1. F \subseteq Objects /\ Pulled(F, mode) \in States
    BY PulledState
  <2>2. job' = [NoJob EXCEPT !.mode = mode, !.filter = F] /\ schema' = Pulled(F, mode) /\ pc' = "baseline"
    BY <1>14 DEF Pull
  <2>3. UNCHANGED <<snap, files, made, db>>
    BY <1>14 DEF Pull
  <2> QED BY <1>0, <2>1, <2>2, <2>3
<1>15. CASE Baseline
  <2>1. files' \in Seq(Migrations) /\ made' \in Nat
    BY <1>1, <1>15, InDatabaseState DEF Baseline
  <2> QED BY <1>15, <2>1, InDatabaseState DEF Baseline
<1>16. CASE BaselineUnchanged
  BY <1>0, <1>16 DEF BaselineUnchanged, Finished
<1>17. ASSUME NEW prune \in Prunes, Push(prune)
       PROVE  TypeInv'
  BY <1>17, PushedState DEF Push
<1>18. CASE Drift
  <2>0. PICK o \in Objects : \E d \in Definitions(o) : db' = [db EXCEPT ![o] = d]
    BY <1>18 DEF Drift
  <2>1. PICK d \in Definitions(o) : db' = [db EXCEPT ![o] = d]
    BY <2>0
  <2>2. db \in States
    OBVIOUS
  <2>3. [db EXCEPT ![o] = d] \in States
    BY <2>2, SetState
  <2> QED BY <1>18, <2>1, <2>3 DEF Drift
<1>19. CASE Crash
  BY <1>0, <1>19 DEF Crash, Finished
<1>20. CASE UNCHANGED vars
  BY <1>20 DEF vars
<1> QED
  BY <1>2, <1>3, <1>4, <1>5, <1>6, <1>7, <1>8, <1>9, <1>10, <1>11, <1>12, <1>13, <1>14,
     <1>15, <1>16, <1>17, <1>18, <1>19, <1>20 DEF Next, Command

-----------------------------------------------------------------------------
(* The stages of a sequence of files.                                       *)
LEMMA PrefixFacts ==
  ASSUME NEW T, NEW ms \in Seq(T)
  PROVE  /\ SubSeq(ms, 1, 0) = <<>>
         /\ SubSeq(ms, 1, Len(ms)) = ms
         /\ \A i \in 0..Len(ms) : SubSeq(ms, 1, i) \in Seq(T)
         /\ \A i \in 0..Len(ms) : i + 1 \in DOMAIN ms =>
              SubSeq(ms, 1, i + 1) = Append(SubSeq(ms, 1, i), ms[i + 1])
         /\ \A m \in T : \A i \in 0..Len(ms) : SubSeq(Append(ms, m), 1, i) = SubSeq(ms, 1, i)
OBVIOUS

(* The stages start from nothing, end at the replay of all files, are one   *)
(* file apart, and do not change when a file is added.                      *)
LEMMA StageFacts ==
  ASSUME NEW ms \in Seq(Migrations)
  PROVE  /\ Stage(ms, 0) = Empty
         /\ Stage(ms, Len(ms)) = Replay(Empty, ms)
         /\ \A i \in 0..Len(ms) : Stage(ms, i) \in States
         /\ \A i \in 0..Len(ms) : i + 1 \in DOMAIN ms => Stage(ms, i + 1) = After(Stage(ms, i), ms[i + 1])
         /\ \A m \in Migrations : \A i \in 0..Len(ms) : Stage(Append(ms, m), i) = Stage(ms, i)
<1>1. Stage(ms, 0) = Empty
  BY PrefixFacts, ReplayEmpty DEF Stage
<1>2. Stage(ms, Len(ms)) = Replay(Empty, ms)
  BY PrefixFacts DEF Stage
<1>3. \A i \in 0..Len(ms) : Stage(ms, i) \in States
  BY PrefixFacts, ReplayState, EmptyState DEF Stage
<1>4. \A i \in 0..Len(ms) : i + 1 \in DOMAIN ms => Stage(ms, i + 1) = After(Stage(ms, i), ms[i + 1])
  <2> SUFFICES ASSUME NEW i \in 0..Len(ms), i + 1 \in DOMAIN ms
               PROVE  Stage(ms, i + 1) = After(Stage(ms, i), ms[i + 1])
    OBVIOUS
  <2>1. SubSeq(ms, 1, i) \in Seq(Migrations) /\ ms[i + 1] \in Migrations
    BY PrefixFacts
  <2>2. SubSeq(ms, 1, i + 1) = Append(SubSeq(ms, 1, i), ms[i + 1])
    BY PrefixFacts
  <2> QED BY <2>1, <2>2, ReplayAppend DEF Stage
<1>5. \A m \in Migrations : \A i \in 0..Len(ms) : Stage(Append(ms, m), i) = Stage(ms, i)
  BY PrefixFacts DEF Stage
<1> QED BY <1>1, <1>2, <1>3, <1>4, <1>5

(* A migration that starts from s leads to what it says, and back.          *)
LEMMA AfterFollows ==
  ASSUME NEW s \in States, NEW m \in Migrations, Follows(s, m)
  PROVE  \A o \in Objects : After(s, m)[o] = IF o \in Touches(m) THEN m.to[o] ELSE s[o]
<1> SUFFICES ASSUME NEW o \in Objects, o \in Touches(m), m.to[o] # NoDef
             PROVE  After(s, m)[o] = m.to[o]
  BY DEF After
<1>1. s[o] = m.from[o]
  BY DEF Follows
<1>2. After(s, m)[o] = (FieldsOf(s[o]) \ (FieldsOf(s[o]) \ m.to[o])) \cup (m.to[o] \ FieldsOf(s[o]))
  BY <1>1 DEF After
<1>3. \A d \in SUBSET Fields[o] : (FieldsOf(s[o]) \ (FieldsOf(s[o]) \ d)) \cup (d \ FieldsOf(s[o])) = d
  OBVIOUS
<1>4. m.to[o] \in SUBSET Fields[o]
  BY StateDefs DEF Migrations, Definitions
<1> QED BY <1>2, <1>3, <1>4

(* The way back touches the same objects, the other way round.              *)
LEMMA InvertedTouches ==
  ASSUME NEW m \in Migrations
  PROVE  /\ Touches(Inverted(m)) = Touches(m)
         /\ Inverted(m).from = m.to /\ Inverted(m).to = m.from
BY DEF Inverted, Migrations, Touches, Changed

(* A migration and its way back cancel out.                                 *)
LEMMA ThereAndBack ==
  ASSUME NEW s \in States, NEW m \in Migrations, Follows(s, m)
  PROVE  Follows(After(s, m), Inverted(m)) /\ After(After(s, m), Inverted(m)) = s
<1> DEFINE t == After(s, m)
<1> DEFINE v == Inverted(m)
<1>1. t \in States /\ v \in Migrations
  BY AfterState, InvertedType
<1>2. Touches(v) = Touches(m) /\ v.from = m.to /\ v.to = m.from
  BY InvertedTouches
<1>3. \A o \in Objects : t[o] = IF o \in Touches(m) THEN m.to[o] ELSE s[o]
  BY AfterFollows
<1> HIDE DEF t, v
<1>4. Follows(t, v)
  BY <1>2, <1>3 DEF Follows, Touches, Changed
<1>5. \A o \in Objects : After(t, v)[o] = IF o \in Touches(m) THEN m.from[o] ELSE t[o]
  BY <1>1, <1>2, <1>4, AfterFollows
<1>6. \A o \in Objects : After(t, v)[o] = s[o]
  BY <1>3, <1>5 DEF Follows
<1>7. After(t, v) \in States
  BY <1>1, AfterState
<1>8. After(t, v) = s
  BY <1>6, <1>7, StateDefs
<1> QED BY <1>4, <1>8 DEF t, v

(* The delta of a and b starts from a state that is a where a and b differ. *)
LEMMA MigrationFollows ==
  ASSUME NEW s, NEW a, NEW b, NEW n, \A o \in Objects : a[o] # b[o] => s[o] = a[o]
  PROVE  Follows(s, Migration(a, b, n))
<1>1. Touches(Migration(a, b, n)) = Changed(a, b)
  BY MigrationTouches
<1>2. \A o \in Changed(a, b) : Migration(a, b, n).from[o] = a[o]
  BY DEF Migration, Only, Changed
<1> QED BY <1>1, <1>2 DEF Follows, Changed

(* What is there after a migration, whatever was there before it.           *)
LEMMA AfterCovers ==
  ASSUME NEW s \in States, NEW t \in States, NEW m \in Migrations, Covers(s, t)
  PROVE  Covers(After(s, m), After(t, m))
<1> SUFFICES ASSUME NEW o \in Objects, After(t, m)[o] # NoDef
             PROVE  After(s, m)[o] # NoDef
  BY DEF Covers
<1>1. CASE o \notin Touches(m)
  BY <1>1 DEF After, Covers
<1>2. CASE o \in Touches(m)
  <2> DEFINE now == (FieldsOf(s[o]) \ (FieldsOf(m.from[o]) \ m.to[o]))
                    \cup (m.to[o] \ FieldsOf(m.from[o]))
  <2>1. m.to[o] # NoDef
    BY <1>2 DEF After
  <2>2. After(s, m)[o] = now
    BY <1>2, <2>1 DEF After
  <2>3. m.to[o] \in SUBSET Fields[o] /\ FieldsOf(s[o]) \in SUBSET Fields[o]
    BY <2>1, StateDefs, FieldSets DEF Migrations, Definitions
  <2>4. now \in SUBSET Fields[o]
    BY <2>3
  <2> QED BY <2>2, <2>4, ObjectsAssumption
<1> QED BY <1>1, <1>2

(* A file that is written for the way from a to b, where the files before   *)
(* it agree with a, takes them to t.                                        *)
LEMMA WriteChain ==
  ASSUME TypeInv, Chain(files), NEW a \in States, NEW b \in States, NEW t \in States, WriteFile(a, b),
         \A o \in Objects : IF a[o] = b[o] THEN t[o] = Replay(Empty, files)[o]
                            ELSE Replay(Empty, files)[o] = a[o] /\ t[o] = b[o]
  PROVE  Chain(files') /\ Replay(Empty, files') = t
<1> DEFINE m == Migration(a, b, made + 1)
<1> DEFINE s == Replay(Empty, files)
<1>1. m \in Migrations /\ files' = Append(files, m) /\ files \in Seq(Migrations)
  BY MigrationType DEF WriteFile, TypeInv
<1>2. s \in States
  BY <1>1, ReplayState, EmptyState
<1>3. Follows(s, m)
  BY MigrationFollows
<1>4. After(s, m) = t
  BY <1>2, Arrives
<1> HIDE DEF m
<1>5. Replay(Empty, files') = t
  BY <1>1, <1>4, ReplayAppend
<1>6. ASSUME NEW i \in DOMAIN files'
      PROVE  Follows(Stage(files', i - 1), files'[i])
  <2>1. CASE i = Len(files) + 1
    <3>1. i - 1 = Len(files) /\ Len(files) \in 0..Len(files)
      BY <1>1, <2>1
    <3>2. Stage(files', Len(files)) = Stage(files, Len(files))
      BY <1>1, <3>1, StageFacts
    <3>3. Stage(files', i - 1) = s
      BY <1>1, <3>1, <3>2, StageFacts
    <3>4. files'[i] = m
      BY <1>1, <2>1
    <3> QED BY <1>3, <3>3, <3>4
  <2>2. CASE i \in DOMAIN files
    <3>1. i - 1 \in 0..Len(files) /\ files'[i] = files[i]
      BY <1>1, <2>2
    <3>2. Stage(files', i - 1) = Stage(files, i - 1)
      BY <1>1, <3>1, StageFacts
    <3> QED BY <2>2, <3>1, <3>2 DEF Chain
  <2> QED BY <1>1, <2>1, <2>2
<1> QED BY <1>5, <1>6 DEF Chain

-----------------------------------------------------------------------------
(* Each write of a command finds what the write before it left in the job.  *)
LEMMA StepJobInv == TypeInv /\ OrderInv /\ JobInv /\ [Next]_vars => JobInv'
<1> SUFFICES ASSUME TypeInv, OrderInv, JobInv, [Next]_vars
             PROVE  JobInv'
  OBVIOUS
<1> USE DEF JobInv, Pulling, Squashing
<1>a. NoJob.then = "idle" /\ NoJob.mode = "none" /\ files \in Seq(Migrations)
  BY DEF NoJob, TypeInv
<1>1. CASE Edit
  BY <1>1, <1>a DEF Edit, Finished
<1>2. ASSUME NEW F \in GenFilters, Gen(F)
      PROVE  JobInv'
  BY <1>2, <1>a DEF Gen, Finished
<1>3. CASE WriteSnapshot
  <2>1. job.then \in {"idle", "reconcile", "record"}
    BY DEF TypeInv
  <2>2. CASE job.then = "idle"
    BY <1>3, <1>a, <2>2 DEF WriteSnapshot
  <2>3. CASE job.then # "idle"
    <3>1. pc = "snapshot" /\ pc' = job.then /\ job' = job /\ files' = files
      BY <1>3, <2>3 DEF WriteSnapshot
    <3>2. CASE job.then = "record"
      BY <3>1, <3>2
    <3>3. CASE job.then = "reconcile"
      BY <3>1, <3>3
    <3> QED BY <2>1, <2>3, <3>2, <3>3
  <2> QED BY <2>2, <2>3
<1>4. CASE Reset
  BY <1>4, <1>a DEF Reset, Finished
<1>5. ASSUME NEW F \in SquashFilters, Squash(F)
      PROVE  JobInv'
  BY <1>5, <1>a DEF Squash, Finished
<1>6. CASE WriteBaseline
  <2>1. files = <<>> /\ \E m : files' = Append(files, m)
    BY <1>6 DEF WriteBaseline, WriteFile
  <2>2. Len(files') = 1
    BY <2>1
  <2>3. /\ pc = "plan" /\ pc' = "snapshot" /\ job'.then = job.then
        /\ job'.filter = job.filter /\ job'.mode = job.mode
    BY <1>6 DEF WriteBaseline, TypeInv
  <2> QED BY <2>2, <2>3
<1>7. CASE NoBaseline
  BY <1>7, <1>a DEF NoBaseline, Finished
<1>8. CASE LeavePending
  BY <1>8, <1>a DEF LeavePending, Finished
<1>9. CASE ClearRecords
  BY <1>9, <1>a DEF ClearRecords, Finished
<1>10. CASE Record
  BY <1>10, <1>a DEF Record, Finished
<1>11. CASE Migrate
  BY <1>11, <1>a DEF Migrate, Finished
<1>12. CASE Rollback
  BY <1>12, <1>a DEF Rollback, Finished
<1>13. ASSUME NEW F \in PullFilters, NEW mode \in PullModes, Pull(F, mode)
       PROVE  JobInv'
  BY <1>13, <1>a DEF Pull, Finished
<1>14. CASE Baseline
  BY <1>14, <1>a DEF Baseline, Finished
<1>15. CASE BaselineUnchanged
  BY <1>15, <1>a DEF BaselineUnchanged, Finished
<1>16. ASSUME NEW prune \in Prunes, Push(prune)
       PROVE  JobInv'
  BY <1>16, <1>a DEF Push, Finished
<1>17. CASE Drift
  BY <1>17, <1>a DEF Drift, Finished
<1>18. CASE Crash
  BY <1>18, <1>a DEF Crash, Finished
<1>19. CASE UNCHANGED vars
  BY <1>19, <1>a DEF vars, Finished
<1> QED
  BY <1>1, <1>2, <1>3, <1>4, <1>5, <1>6, <1>7, <1>8, <1>9, <1>10, <1>11,
     <1>12, <1>13, <1>14, <1>15, <1>16, <1>17, <1>18, <1>19 DEF Next, Command

(* The pending and the applied files are files.                             *)
LEMMA KeptFrom ==
  ASSUME TypeInv
  PROVE  /\ Pending # <<>> => Head(Pending) \in Migrations /\ \E i \in DOMAIN files : Head(Pending) = files[i]
         /\ Applied # <<>> => Last(Applied) \in Migrations /\ \E i \in DOMAIN files : Last(Applied) = files[i]
<1> DEFINE T == {m \in Migrations : \E i \in DOMAIN files : m = files[i]}
<1>1. files \in Seq(T)
  BY DEF TypeInv
<1> HIDE DEF T
<1>2. Pending \in Seq(T) /\ Applied \in Seq(T)
  BY <1>1, KeptTypes
<1>3. Pending # <<>> => Head(Pending) \in T
  BY <1>2
<1>4. Applied # <<>> => Last(Applied) \in T
  BY <1>2 DEF Last
<1> QED BY <1>3, <1>4 DEF T

(* A new file keeps the order, and is the last.                             *)
LEMMA WriteOrder ==
  ASSUME TypeInv, OrderInv, NEW a \in States, NEW b \in States, WriteFile(a, b), applied' = applied
  PROVE  /\ \A i, j \in DOMAIN files' : i < j => files'[i].id < files'[j].id
         /\ \A i \in DOMAIN files' : files'[i].id \in 1..made'
         /\ applied' \subseteq 1..made'
         /\ files' # <<>> /\ files'[Len(files')].id = made' /\ made' \notin applied'
<1> DEFINE m == Migration(a, b, made + 1)
<1>1. /\ m \in Migrations /\ m.id = made + 1 /\ files' = Append(files, m) /\ files \in Seq(Migrations)
      /\ made \in Nat /\ made' = made + 1
  BY MigrationType DEF WriteFile, TypeInv, Migration
<1> HIDE DEF m
<1>2. \A i \in DOMAIN files' : IF i \in DOMAIN files THEN files'[i] = files[i] ELSE i = Len(files) + 1 /\ files'[i] = m
  BY <1>1
<1>3. \A i \in DOMAIN files : files[i].id \in 1..made
  BY DEF OrderInv
<1>4. \A i, j \in DOMAIN files' : i < j => i \in DOMAIN files
  BY <1>1
<1>5. \A i, j \in DOMAIN files' : i < j => files'[i].id < files'[j].id
  BY <1>1, <1>2, <1>3, <1>4 DEF OrderInv
<1>6. \A i \in DOMAIN files' : files'[i].id \in 1..made'
  BY <1>1, <1>2, <1>3
<1>7. applied' \subseteq 1..made' /\ made' \notin applied'
  BY <1>1 DEF OrderInv
<1>8. files' # <<>> /\ files'[Len(files')].id = made'
  BY <1>1
<1> QED BY <1>5, <1>6, <1>7, <1>8

(* No command breaks the order of the files, or records what was never      *)
(* made.                                                                    *)
LEMMA StepOrderInv == TypeInv /\ JobInv /\ OrderInv /\ [Next]_vars => OrderInv'
<1> SUFFICES ASSUME TypeInv, JobInv, OrderInv, [Next]_vars
             PROVE  OrderInv'
  OBVIOUS
<1>a. files \in Seq(Migrations) /\ made \in Nat
  BY DEF TypeInv
<1>1. CASE Edit
  BY <1>1, <1>a DEF Edit, Finished, OrderInv
<1>2. ASSUME NEW F \in GenFilters, Gen(F)
      PROVE  OrderInv'
  <2>1. applied' = applied /\ WriteFile(Only(F, snap), Only(F, schema))
    BY <1>2 DEF Gen
  <2>2. Only(F, snap) \in States /\ Only(F, schema) \in States
    BY EmptyState, OnlyState, InDatabaseState DEF TypeInv
  <2> QED BY <2>1, <2>2, WriteOrder DEF OrderInv
<1>3. CASE WriteSnapshot
  BY <1>3, <1>a DEF WriteSnapshot, OrderInv, TypeInv
<1>4. CASE Reset
  BY <1>4, <1>a DEF Reset, Finished, OrderInv
<1>5. ASSUME NEW F \in SquashFilters, Squash(F)
      PROVE  OrderInv'
  BY <1>5, <1>a DEF Squash, Finished, OrderInv
<1>6. CASE WriteBaseline
  <2>1. applied' = applied /\ WriteFile(Empty, Only(job.filter, schema))
    BY <1>6 DEF WriteBaseline
  <2>2. Empty \in States /\ Only(job.filter, schema) \in States
    BY EmptyState, OnlyState, InDatabaseState DEF TypeInv
  <2> QED BY <2>1, <2>2, WriteOrder DEF OrderInv
<1>7. CASE NoBaseline
  BY <1>7, <1>a DEF NoBaseline, Finished, OrderInv
<1>8. CASE LeavePending
  BY <1>8, <1>a DEF LeavePending, Finished, OrderInv
<1>9. CASE ClearRecords
  BY <1>9, <1>a DEF ClearRecords, Finished, OrderInv
<1>10. CASE Record
  <2>1. files # <<>> /\ files[Len(files)].id = made /\ Len(files) \in DOMAIN files
    BY <1>10, <1>a DEF Record, OrderInv
  <2>2. made \in 1..made
    BY <1>a, <2>1 DEF OrderInv
  <2> QED BY <1>10, <2>2 DEF Record, Finished, OrderInv
<1>11. CASE Migrate
  <2>1. Head(Pending).id \in 1..made
    BY <1>11, KeptFrom DEF Migrate, OrderInv
  <2> QED BY <1>11, <2>1 DEF Migrate, OrderInv
<1>12. CASE Rollback
  BY <1>12, <1>a DEF Rollback, Finished, OrderInv
<1>13. ASSUME NEW F \in PullFilters, NEW mode \in PullModes, Pull(F, mode)
       PROVE  OrderInv'
  BY <1>13, <1>a DEF Pull, Finished, OrderInv
<1>14. CASE Baseline
  <2>1. applied' = applied /\ WriteFile(snap, InDatabase)
    BY <1>14 DEF Baseline
  <2>2. snap \in States /\ InDatabase \in States
    BY EmptyState, OnlyState, InDatabaseState DEF TypeInv
  <2> QED BY <2>1, <2>2, WriteOrder DEF OrderInv
<1>15. CASE BaselineUnchanged
  BY <1>15, <1>a DEF BaselineUnchanged, Finished, OrderInv
<1>16. ASSUME NEW prune \in Prunes, Push(prune)
       PROVE  OrderInv'
  BY <1>16, <1>a DEF Push, Finished, OrderInv
<1>17. CASE Drift
  BY <1>17, <1>a DEF Drift, Finished, OrderInv
<1>18. CASE Crash
  BY <1>18, <1>a DEF Crash, Finished, OrderInv
<1>19. CASE UNCHANGED vars
  BY <1>19, <1>a DEF vars, Finished, OrderInv
<1> QED
  BY <1>1, <1>2, <1>3, <1>4, <1>5, <1>6, <1>7, <1>8, <1>9, <1>10, <1>11,
     <1>12, <1>13, <1>14, <1>15, <1>16, <1>17, <1>18, <1>19 DEF Next, Command

(* What happened, happened.                                                 *)
LEMMA IncidentsStay == [Next]_vars => incidents \subseteq incidents'
BY DEF Next, Command, vars, Edit, Gen, WriteSnapshot, Reset, Squash, WriteBaseline, NoBaseline,
     LeavePending, ClearRecords, Record, Migrate, Rollback, Pull, Baseline, BaselineUnchanged, Push,
     Drift, Crash

(* Only `snapshot reset`, a crash and a squash that writes nothing part the *)
(* snapshot from the files.                                                 *)
LEMMA StepChainInv ==
  TypeInv /\ JobInv /\ OrderInv /\ ChainInv /\ [Next]_vars => ChainInv'
<1> SUFFICES ASSUME TypeInv, JobInv, OrderInv, ChainInv, [Next]_vars,
                    incidents' \cap {"torn", "reset", "cleared"} = {}
             PROVE  /\ Chain(files')
                    /\ pc' \in {"idle", "reconcile", "record", "baseline"} => Replay(Empty, files') = snap'
                    /\ pc' = "snapshot" => Replay(Empty, files') = job'.snap
  BY DEF ChainInv
<1> DEFINE Goal == /\ Chain(files')
                   /\ pc' \in {"idle", "reconcile", "record", "baseline"} => Replay(Empty, files') = snap'
                   /\ pc' = "snapshot" => Replay(Empty, files') = job'.snap
<1>a. incidents \subseteq incidents'
  BY IncidentsStay
<1>b. /\ Chain(files)
      /\ pc \in {"idle", "reconcile", "record", "baseline"} => Replay(Empty, files) = snap
      /\ pc = "snapshot" => Replay(Empty, files) = job.snap
  BY <1>a DEF ChainInv
<1>c. files \in Seq(Migrations) /\ {schema, snap, db} \subseteq States
  BY DEF TypeInv
<1>1. CASE Edit
  BY <1>1, <1>b DEF Edit, Finished
<1>2. ASSUME NEW F \in GenFilters, Gen(F)
      PROVE  Goal
  <2>1. /\ WriteFile(Only(F, snap), Only(F, schema))
        /\ pc' = "snapshot" /\ job'.snap = Merged(F, snap, schema)
    BY <1>2 DEF Gen, NoJob, TypeInv
  <2>2. Only(F, snap) \in States /\ Only(F, schema) \in States /\ Merged(F, snap, schema) \in States
    BY <1>c, EmptyState, OnlyState, MergedState, InDatabaseState
  <2>3. Replay(Empty, files) = snap
    BY <1>2, <1>b, ReplayEmpty DEF Gen, JobInv
  <2>4. \A o \in Objects : IF Only(F, snap)[o] = Only(F, schema)[o] THEN Merged(F, snap, schema)[o] = snap[o]
                            ELSE snap[o] = Only(F, snap)[o] /\ Merged(F, snap, schema)[o] = Only(F, schema)[o]
    BY DEF Only, Merged, Empty
  <2>5. Chain(files') /\ Replay(Empty, files') = Merged(F, snap, schema)
    BY <1>b, <2>1, <2>2, <2>3, <2>4, WriteChain
  <2> QED BY <2>1, <2>5
<1>3. CASE WriteSnapshot
  BY <1>3, <1>b DEF WriteSnapshot
<1>4. CASE Reset
  BY <1>4 DEF Reset
<1>5. ASSUME NEW F \in SquashFilters, Squash(F)
      PROVE  Goal
  <2>1. files' = <<>> /\ pc' = "plan"
    BY <1>5 DEF Squash
  <2> QED BY <2>1 DEF Chain
<1>6. CASE WriteBaseline
  <2>1. /\ WriteFile(Empty, Only(job.filter, schema))
        /\ pc' = "snapshot" /\ job'.snap = Merged(job.filter, Empty, schema)
    BY <1>6 DEF WriteBaseline, NoJob, TypeInv
  <2>2. Empty \in States /\ Only(job.filter, schema) \in States /\ Merged(job.filter, Empty, schema) \in States
    BY <1>c, EmptyState, OnlyState, MergedState, InDatabaseState
  <2>3. Replay(Empty, files) = Empty
    BY <1>6, <1>b, ReplayEmpty DEF WriteBaseline, JobInv
  <2>4. \A o \in Objects : IF Empty[o] = Only(job.filter, schema)[o] THEN Merged(job.filter, Empty, schema)[o] = Empty[o]
                            ELSE Empty[o] = Empty[o] /\ Merged(job.filter, Empty, schema)[o] = Only(job.filter, schema)[o]
    BY DEF Only, Merged, Empty
  <2>5. Chain(files') /\ Replay(Empty, files') = Merged(job.filter, Empty, schema)
    BY <1>b, <2>1, <2>2, <2>3, <2>4, WriteChain
  <2> QED BY <2>1, <2>5
<1>7. CASE NoBaseline
  BY <1>7 DEF NoBaseline
<1>8. CASE LeavePending
  BY <1>8, <1>b DEF LeavePending, Finished
<1>9. CASE ClearRecords
  BY <1>9, <1>b DEF ClearRecords, Finished
<1>10. CASE Record
  BY <1>10, <1>b DEF Record, Finished
<1>11. CASE Migrate
  BY <1>11, <1>b DEF Migrate, Finished
<1>12. CASE Rollback
  BY <1>12, <1>b DEF Rollback, Finished
<1>13. ASSUME NEW F \in PullFilters, NEW mode \in PullModes, Pull(F, mode)
       PROVE  Goal
  BY <1>13, <1>b DEF Pull, Finished
<1>14. CASE Baseline
  <2>1. /\ WriteFile(snap, InDatabase)
        /\ pc' = "snapshot" /\ job'.snap = InDatabase
    BY <1>14 DEF Baseline, NoJob, TypeInv
  <2>2. snap \in States /\ InDatabase \in States /\ InDatabase \in States
    BY <1>c, EmptyState, OnlyState, MergedState, InDatabaseState
  <2>3. Replay(Empty, files) = snap
    BY <1>14, <1>b, ReplayEmpty DEF Baseline, JobInv
  <2>4. \A o \in Objects : IF snap[o] = InDatabase[o] THEN InDatabase[o] = snap[o]
                            ELSE snap[o] = snap[o] /\ InDatabase[o] = InDatabase[o]
    BY DEF Only, Merged, Empty
  <2>5. Chain(files') /\ Replay(Empty, files') = InDatabase
    BY <1>b, <2>1, <2>2, <2>3, <2>4, WriteChain
  <2> QED BY <2>1, <2>5
<1>15. CASE BaselineUnchanged
  BY <1>15, <1>b DEF BaselineUnchanged, Finished
<1>16. ASSUME NEW prune \in Prunes, Push(prune)
       PROVE  Goal
  BY <1>16, <1>b DEF Push, Finished
<1>17. CASE Drift
  BY <1>17, <1>b DEF Drift, Finished
<1>18. CASE Crash
  BY <1>18 DEF Crash
<1>19. CASE UNCHANGED vars
  BY <1>19, <1>b DEF vars, Finished
<1> QED
  BY <1>1, <1>2, <1>3, <1>4, <1>5, <1>6, <1>7, <1>8, <1>9, <1>10, <1>11,
     <1>12, <1>13, <1>14, <1>15, <1>16, <1>17, <1>18, <1>19 DEF Next, Command

-----------------------------------------------------------------------------
(* One more file, in the two loops over the files.                          *)
LEMMA KeptAppend ==
  ASSUME NEW ms \in Seq(Migrations), NEW m \in Migrations
  PROVE  /\ Done!Fold(<<>>, Append(ms, m)) = KeepApplied(Done!Fold(<<>>, ms), m)
         /\ Todo!Fold(<<>>, Append(ms, m)) = KeepPending(Todo!Fold(<<>>, ms), m)
<1>1. Done!Fold(<<>>, Append(ms, m)) = KeepApplied(Done!Fold(<<>>, ms), m)
  BY Done!FoldAppend
<1>2. Todo!Fold(<<>>, Append(ms, m)) = KeepPending(Todo!Fold(<<>>, ms), m)
  BY Todo!FoldAppend
<1> QED BY <1>1, <1>2

(* When the first k files are the ones recorded, they are what `rollback`   *)
(* sees, and the others what `migrate` sees.                                *)
LEMMA KeptPrefix ==
  ASSUME TypeInv, NEW k \in 0..Len(files), Upto(k)
  PROVE  Applied = SubSeq(files, 1, k) /\ Pending = SubSeq(files, k + 1, Len(files))
<1> DEFINE S == {i \in Nat : i \in 0..Len(files) =>
                   /\ Done!Fold(<<>>, SubSeq(files, 1, i)) = SubSeq(files, 1, IF i <= k THEN i ELSE k)
                   /\ Todo!Fold(<<>>, SubSeq(files, 1, i)) = SubSeq(files, k + 1, i)}
<1>1. files \in Seq(Migrations)
  BY DEF TypeInv
<1>2. 0 \in S
  <2>1. SubSeq(files, 1, 0) = <<>> /\ SubSeq(files, k + 1, 0) = <<>>
    BY <1>1
  <2>2. Done!Fold(<<>>, <<>>) = <<>> /\ Todo!Fold(<<>>, <<>>) = <<>>
    BY Done!FoldEmpty, Todo!FoldEmpty
  <2>3. 0 <= k
    OBVIOUS
  <2> QED BY <2>1, <2>2, <2>3
<1>3. ASSUME NEW i \in Nat, i \in S PROVE i + 1 \in S
  <2> SUFFICES ASSUME i + 1 \in 0..Len(files)
               PROVE  /\ Done!Fold(<<>>, SubSeq(files, 1, i + 1)) = SubSeq(files, 1, IF i + 1 <= k THEN i + 1 ELSE k)
                      /\ Todo!Fold(<<>>, SubSeq(files, 1, i + 1)) = SubSeq(files, k + 1, i + 1)
    OBVIOUS
  <2> DEFINE ms == SubSeq(files, 1, i)
  <2> DEFINE m == files[i + 1]
  <2>1. i \in 0..Len(files) /\ i + 1 \in DOMAIN files
    BY <1>1
  <2>2. ms \in Seq(Migrations) /\ m \in Migrations /\ SubSeq(files, 1, i + 1) = Append(ms, m)
    BY <1>1, <2>1, PrefixFacts
  <2>3. Done!Fold(<<>>, ms) = SubSeq(files, 1, IF i <= k THEN i ELSE k) /\ Todo!Fold(<<>>, ms) = SubSeq(files, k + 1, i)
    BY <1>3, <2>1
  <2>4. IsApplied(m) <=> i + 1 <= k
    BY <2>1 DEF Upto
  <2> HIDE DEF ms, m
  <2>5. /\ Done!Fold(<<>>, Append(ms, m)) = KeepApplied(Done!Fold(<<>>, ms), m)
        /\ Todo!Fold(<<>>, Append(ms, m)) = KeepPending(Todo!Fold(<<>>, ms), m)
    BY <2>2, KeptAppend
  <2>6. CASE i + 1 <= k
    <3>1. i <= k
      BY <2>6
    <3>2. SubSeq(files, k + 1, i + 1) = <<>> /\ SubSeq(files, k + 1, i) = <<>>
      BY <1>1, <2>1, <2>6
    <3> QED BY <2>2, <2>3, <2>4, <2>5, <2>6, <3>1, <3>2 DEF KeepApplied, KeepPending, ms, m
  <2>7. CASE ~(i + 1 <= k)
    <3>1. (IF i <= k THEN i ELSE k) = k
      BY <2>7
    <3>2. SubSeq(files, k + 1, i + 1) = Append(SubSeq(files, k + 1, i), m)
      <4>1. k + 1 <= i + 1 /\ k \in Nat
        BY <2>7
      <4> QED BY <1>1, <2>1, <4>1 DEF m
    <3> QED BY <2>2, <2>3, <2>4, <2>5, <2>7, <3>1, <3>2 DEF KeepApplied, KeepPending
  <2> QED BY <2>6, <2>7
<1> HIDE DEF S
<1>4. Nat \subseteq S
  BY <1>2, <1>3, Loop!Induct
<1> DEFINE n == Len(files)
<1>5. n \in Nat /\ n \in 0..n /\ (IF n <= k THEN n ELSE k) = k /\ SubSeq(files, 1, n) = files
  BY <1>1
<1>6. Done!Fold(<<>>, files) = SubSeq(files, 1, k) /\ Todo!Fold(<<>>, files) = SubSeq(files, k + 1, n)
  BY <1>4, <1>5 DEF S
<1> QED BY <1>6 DEF Applied, Pending, Recorded!Fold, Waiting!Fold, Done!Fold, Todo!Fold


(* What is recorded changes with the records only.                          *)
LEMMA SameUpto ==
  ASSUME files' = files, applied' = applied
  PROVE  \A k : Upto(k)' <=> Upto(k)
BY DEF Upto, IsApplied

(* A new file comes after the recorded ones.                                *)
LEMMA WriteUpto ==
  ASSUME TypeInv, OrderInv, NEW a \in States, NEW b \in States, WriteFile(a, b), applied' = applied
  PROVE  Len(files') = Len(files) + 1 /\ \A k \in 0..Len(files) : Upto(k) => Upto(k)'
<1> DEFINE m == Migration(a, b, made + 1)
<1>1. m \in Migrations /\ m.id = made + 1 /\ files' = Append(files, m) /\ files \in Seq(Migrations) /\ made \in Nat
  BY MigrationType DEF WriteFile, TypeInv, Migration
<1>2. m.id \notin applied
  BY <1>1 DEF OrderInv
<1> HIDE DEF m
<1>3. Len(files') = Len(files) + 1
  BY <1>1
<1>4. ASSUME NEW k \in 0..Len(files), Upto(k)
      PROVE  Upto(k)'
  <2> SUFFICES ASSUME NEW i \in DOMAIN files'
               PROVE  files'[i].id \in applied <=> i <= k
    BY DEF WriteFile, Upto, IsApplied
  <2>1. CASE i \in DOMAIN files
    <3>1. files'[i] = files[i]
      BY <1>1, <2>1
    <3> QED BY <1>4, <2>1, <3>1 DEF Upto, IsApplied
  <2>2. CASE i = Len(files) + 1
    <3>1. files'[i] = m /\ ~(i <= k)
      BY <1>1, <2>2
    <3> QED BY <1>2, <3>1
  <2> QED BY <1>1, <2>1, <2>2
<1> QED BY <1>3, <1>4

(* `migrate` records the next file, and `rollback` forgets the last.        *)
LEMMA NextUpto ==
  ASSUME TypeInv, NEW k \in 0..Len(files), Upto(k)
  PROVE  /\ Pending # <<>> => k + 1 \in DOMAIN files /\ Head(Pending) = files[k + 1]
         /\ Applied # <<>> => k \in DOMAIN files /\ Last(Applied) = files[k]
         /\ Pending = <<>> => k = Len(files)
         /\ Applied = <<>> => k = 0
<1>1. Applied = SubSeq(files, 1, k) /\ Pending = SubSeq(files, k + 1, Len(files)) /\ files \in Seq(Migrations)
  BY KeptPrefix DEF TypeInv
<1>2. Pending # <<>> => k + 1 \in DOMAIN files /\ Head(Pending) = files[k + 1]
  BY <1>1
<1>3. Applied # <<>> => k \in DOMAIN files /\ Last(Applied) = files[k]
  BY <1>1 DEF Last
<1>4. Pending = <<>> => k = Len(files)
  <2>1. Len(Pending) = Len(files) - k
    BY <1>1
  <2>2. Len(files) \in Nat /\ k \in Nat
    BY <1>1
  <2>3. Pending = <<>> => Len(Pending) = 0
    OBVIOUS
  <2> QED BY <2>1, <2>2, <2>3
<1>5. Applied = <<>> => k = 0
  BY <1>1
<1> QED BY <1>2, <1>3, <1>4, <1>5

(* No two files have one number.                                            *)
LEMMA DistinctIds ==
  ASSUME TypeInv, OrderInv, NEW i \in DOMAIN files, NEW j \in DOMAIN files, i # j
  PROVE  files[i].id # files[j].id
<1>1. files \in Seq(Migrations) /\ files[i] \in Migrations /\ files[j] \in Migrations
  BY DEF TypeInv
<1>2. files[i].id \in Nat /\ files[j].id \in Nat
  BY <1>1 DEF Migrations
<1>3. i < j \/ j < i
  BY <1>1
<1> QED BY <1>2, <1>3 DEF OrderInv

(* Recording the next file.                                                 *)
LEMMA RecordUpto ==
  ASSUME TypeInv, OrderInv, NEW k \in 0..Len(files), Upto(k), k + 1 \in DOMAIN files,
         files' = files, applied' = applied \cup {files[k + 1].id}
  PROVE  Upto(k + 1)'
<1> SUFFICES ASSUME NEW i \in DOMAIN files
             PROVE  files[i].id \in applied \cup {files[k + 1].id} <=> i <= k + 1
  BY DEF Upto, IsApplied
<1>1. files \in Seq(Migrations)
  BY DEF TypeInv
<1>2. \A j \in DOMAIN files : j # i => files[j].id # files[i].id
  BY DistinctIds
<1>3. files[i].id \in applied <=> i <= k
  BY DEF Upto, IsApplied
<1> QED BY <1>1, <1>2, <1>3

(* Taking back the record of the last recorded file.                        *)
LEMMA ForgetUpto ==
  ASSUME TypeInv, OrderInv, NEW k \in 0..Len(files), Upto(k), k \in DOMAIN files,
         files' = files, applied' = applied \ {files[k].id}
  PROVE  Upto(k - 1)'
<1> SUFFICES ASSUME NEW i \in DOMAIN files
             PROVE  files[i].id \in applied \ {files[k].id} <=> i <= k - 1
  BY DEF Upto, IsApplied
<1>1. files \in Seq(Migrations)
  BY DEF TypeInv
<1>2. \A j \in DOMAIN files : j # i => files[j].id # files[i].id
  BY DistinctIds
<1>3. files[i].id \in applied <=> i <= k
  BY DEF Upto, IsApplied
<1> QED BY <1>1, <1>2, <1>3

(* The recorded files stay the first ones: `migrate` and `rollback` work at *)
(* their end, and a baseline is only recorded over files that are all       *)
(* recorded.                                                                *)
LEMMA StepPrefixInv ==
  TypeInv /\ JobInv /\ OrderInv /\ PrefixInv /\ [Next]_vars => PrefixInv'
<1> SUFFICES ASSUME TypeInv, JobInv, OrderInv, PrefixInv, [Next]_vars,
                    incidents' \subseteq {"drift", "pushed", "raced", "squashed"}
             PROVE  /\ \E k \in 0..Len(files') : Upto(k)'
                    /\ pc' = "baseline" => Upto(Len(files))'
                    /\ pc' = "snapshot" /\ job'.then = "record" => Upto(Len(files) - 1)'
                    /\ pc' = "record" => Upto(Len(files) - 1)'
  BY DEF PrefixInv
<1> DEFINE Goal == /\ \E k \in 0..Len(files') : Upto(k)'
                   /\ pc' = "baseline" => Upto(Len(files))'
                   /\ pc' = "snapshot" /\ job'.then = "record" => Upto(Len(files) - 1)'
                   /\ pc' = "record" => Upto(Len(files) - 1)'
<1>a. /\ \E k \in 0..Len(files) : Upto(k)
      /\ pc = "baseline" => Upto(Len(files))
      /\ pc = "snapshot" /\ job.then = "record" => Upto(Len(files) - 1)
      /\ pc = "record" => Upto(Len(files) - 1)
  BY IncidentsStay DEF PrefixInv
<1>b. files \in Seq(Migrations) /\ {schema, snap, db} \subseteq States /\ Len(files) \in Nat
  BY DEF TypeInv
<1>c. PICK k \in 0..Len(files) : Upto(k)
  BY <1>a
<1>1. CASE Edit
  <2>1. files' = files /\ applied' = applied /\ pc' = pc /\ job' = job
    BY <1>1 DEF Edit
  <2>2. \A l : Upto(l)' <=> Upto(l)
    BY <2>1, SameUpto
  <2>3. /\ Upto(Len(files))' <=> Upto(Len(files))
        /\ Upto(Len(files) - 1)' <=> Upto(Len(files) - 1)
    BY <2>1 DEF Upto, IsApplied
  <2> QED BY <1>a, <2>1, <2>2, <2>3
<1>2. ASSUME NEW F \in GenFilters, Gen(F)
      PROVE  Goal
  <2>1. applied' = applied /\ WriteFile(Only(F, snap), Only(F, schema)) /\ pc' = "snapshot"
    BY <1>2 DEF Gen
  <2>2. Only(F, snap) \in States /\ Only(F, schema) \in States
    BY <1>b, EmptyState, OnlyState, InDatabaseState
  <2>3. Len(files') = Len(files) + 1 /\ \A l \in 0..Len(files) : Upto(l) => Upto(l)'
    BY <2>1, <2>2, WriteUpto
  <2>4. job'.then = "idle"
    BY <1>2 DEF Gen, NoJob
  <2> QED BY <1>b, <1>c, <2>1, <2>3, <2>4
<1>3. CASE WriteSnapshot
  <2>1. files' = files /\ applied' = applied /\ pc = "snapshot" /\ pc' = job.then
    BY <1>3 DEF WriteSnapshot
  <2>2. \A l : Upto(l)' <=> Upto(l)
    BY <2>1, SameUpto
  <2>3. Upto(Len(files) - 1)' <=> Upto(Len(files) - 1)
    BY <2>1 DEF Upto, IsApplied
  <2>4. pc' \in {"idle", "reconcile", "record"}
    BY <2>1 DEF TypeInv
  <2> QED BY <1>a, <1>c, <2>1, <2>2, <2>3, <2>4
<1>4. CASE Reset
  BY <1>4 DEF Reset
<1>5. ASSUME NEW F \in SquashFilters, Squash(F)
      PROVE  Goal
  <2>1. files' = <<>> /\ pc' = "plan"
    BY <1>5 DEF Squash
  <2>2. Upto(0)'
    BY <2>1 DEF Upto
  <2> QED BY <2>1, <2>2
<1>6. CASE WriteBaseline
  <2>1. applied' = applied /\ WriteFile(Empty, Only(job.filter, schema)) /\ pc' = "snapshot"
    BY <1>6 DEF WriteBaseline
  <2>2. Empty \in States /\ Only(job.filter, schema) \in States
    BY <1>b, EmptyState, OnlyState, InDatabaseState
  <2>3. Len(files') = Len(files) + 1 /\ \A l \in 0..Len(files) : Upto(l) => Upto(l)'
    BY <2>1, <2>2, WriteUpto
  <2>4. job'.then # "record"
    BY <1>6 DEF WriteBaseline, JobInv, TypeInv
  <2> QED BY <1>b, <1>c, <2>1, <2>3, <2>4
<1>7. CASE NoBaseline
  BY <1>7 DEF NoBaseline
<1>8. CASE LeavePending
  <2>1. files' = files /\ applied' = applied /\ pc' = "idle"
    BY <1>8 DEF LeavePending, Finished
  <2> QED BY <1>c, <2>1, SameUpto
<1>9. CASE ClearRecords
  <2>1. files' = files /\ applied' = {} /\ pc' = "record" /\ Len(files) = 1
    BY <1>9 DEF ClearRecords, JobInv, Squashing
  <2>2. Upto(0)' /\ Upto(Len(files) - 1)'
    BY <1>b, <2>1 DEF Upto, IsApplied
  <2> QED BY <2>1, <2>2
<1>10. CASE Record
  <2>1. files' = files /\ pc' = "idle" /\ applied' = applied \cup {made} /\ pc = "record"
    BY <1>10 DEF Record, Finished
  <2>2. Len(files) \in DOMAIN files /\ files[Len(files)].id = made
    BY <1>b, <2>1 DEF OrderInv
  <2>3. PICK l \in 0..Len(files) : l = Len(files) - 1
    BY <1>b, <2>2
  <2>4. Upto(l) /\ l + 1 = Len(files)
    BY <1>a, <1>b, <2>1, <2>3
  <2>5. Upto(l + 1)'
    BY <2>1, <2>2, <2>4, RecordUpto
  <2> QED BY <1>b, <2>1, <2>4, <2>5
<1>11. CASE Migrate
  <2>1. k + 1 \in DOMAIN files /\ Head(Pending) = files[k + 1]
    BY <1>11, <1>c, NextUpto DEF Migrate
  <2>2. files' = files /\ pc' = "idle" /\ applied' = applied \cup {files[k + 1].id}
    BY <1>11, <2>1 DEF Migrate
  <2>3. Upto(k + 1)'
    BY <1>c, <2>1, <2>2, RecordUpto
  <2> QED BY <1>b, <2>1, <2>2, <2>3
<1>12. CASE Rollback
  <2>1. k \in DOMAIN files /\ Last(Applied) = files[k]
    BY <1>12, <1>c, NextUpto DEF Rollback
  <2>2. files' = files /\ pc' = "idle" /\ applied' = applied \ {files[k].id}
    BY <1>12, <2>1 DEF Rollback
  <2>3. Upto(k - 1)'
    BY <1>c, <2>1, <2>2, ForgetUpto
  <2> QED BY <1>b, <2>1, <2>2, <2>3
<1>13. ASSUME NEW F \in PullFilters, NEW mode \in PullModes, Pull(F, mode)
       PROVE  Goal
  <2>1. files' = files /\ applied' = applied /\ pc' = "baseline"
    BY <1>13 DEF Pull
  <2>2. Pending = <<>>
    BY <1>13 DEF Pull
  <2>3. k = Len(files)
    BY <1>c, <2>2, NextUpto
  <2>4. Upto(Len(files))'
    BY <1>c, <2>1, <2>3 DEF Upto, IsApplied
  <2>5. Upto(k)'
    BY <1>c, <2>1, SameUpto
  <2> QED BY <2>1, <2>4, <2>5
<1>14. CASE Baseline
  <2>1. applied' = applied /\ WriteFile(snap, InDatabase) /\ pc' = "snapshot"
    BY <1>14 DEF Baseline
  <2>2. snap \in States /\ InDatabase \in States
    BY <1>b, EmptyState, OnlyState, InDatabaseState
  <2>3. Len(files') = Len(files) + 1 /\ \A l \in 0..Len(files) : Upto(l) => Upto(l)'
    BY <2>1, <2>2, WriteUpto
  <2>4. Upto(Len(files)) /\ Len(files) \in 0..Len(files)
    BY <1>14, <1>a, <1>b DEF Baseline
  <2>5. Upto(Len(files))' <=> \A i \in DOMAIN files' : files'[i].id \in applied' <=> i <= Len(files')
    BY DEF Upto, IsApplied
  <2>6. \A l : Upto(l)' <=> \A i \in DOMAIN files' : files'[i].id \in applied' <=> i <= l
    BY DEF Upto, IsApplied
  <2>7. Upto(Len(files) - 1)' <=> \A i \in DOMAIN files' : files'[i].id \in applied' <=> i <= Len(files') - 1
    BY DEF Upto, IsApplied
  <2>8. \A i \in DOMAIN files' : files'[i].id \in applied' <=> i <= Len(files)
    BY <2>3, <2>4, <2>6
  <2>9. Upto(Len(files) - 1)'
    BY <1>b, <2>3, <2>7, <2>8
  <2> QED BY <1>b, <1>c, <2>1, <2>3, <2>9
<1>15. CASE BaselineUnchanged
  <2>1. files' = files /\ applied' = applied /\ pc' = "idle"
    BY <1>15 DEF BaselineUnchanged, Finished
  <2> QED BY <1>c, <2>1, SameUpto
<1>16. ASSUME NEW prune \in Prunes, Push(prune)
       PROVE  Goal
  <2>1. files' = files /\ applied' = applied /\ pc' = pc /\ job' = job
    BY <1>16 DEF Push
  <2>2. \A l : Upto(l)' <=> Upto(l)
    BY <2>1, SameUpto
  <2>3. /\ Upto(Len(files))' <=> Upto(Len(files))
        /\ Upto(Len(files) - 1)' <=> Upto(Len(files) - 1)
    BY <2>1 DEF Upto, IsApplied
  <2> QED BY <1>a, <2>1, <2>2, <2>3
<1>17. CASE Drift
  <2>1. files' = files /\ applied' = applied /\ pc' = pc /\ job' = job
    BY <1>17 DEF Drift
  <2>2. \A l : Upto(l)' <=> Upto(l)
    BY <2>1, SameUpto
  <2>3. /\ Upto(Len(files))' <=> Upto(Len(files))
        /\ Upto(Len(files) - 1)' <=> Upto(Len(files) - 1)
    BY <2>1 DEF Upto, IsApplied
  <2> QED BY <1>a, <2>1, <2>2, <2>3
<1>18. CASE Crash
  BY <1>18 DEF Crash
<1>19. CASE UNCHANGED vars
  <2>1. files' = files /\ applied' = applied /\ pc' = pc /\ job' = job
    BY <1>19 DEF vars
  <2>2. \A l : Upto(l)' <=> Upto(l)
    BY <2>1, SameUpto
  <2>3. /\ Upto(Len(files))' <=> Upto(Len(files))
        /\ Upto(Len(files) - 1)' <=> Upto(Len(files) - 1)
    BY <2>1 DEF Upto, IsApplied
  <2> QED BY <1>a, <2>1, <2>2, <2>3
<1> QED
  BY <1>1, <1>2, <1>3, <1>4, <1>5, <1>6, <1>7, <1>8, <1>9, <1>10, <1>11,
     <1>12, <1>13, <1>14, <1>15, <1>16, <1>17, <1>18, <1>19 DEF Next, Command

(* From its first write to its last, a pull of everything holds one state.  *)
LEMMA StepPullInv == TypeInv /\ JobInv /\ PullInv /\ [Next]_vars => PullInv'
<1> SUFFICES ASSUME TypeInv, JobInv, PullInv, [Next]_vars,
                    job'.mode \in {"mirror", "discard"}, job'.filter = Objects, "raced" \notin incidents'
             PROVE  /\ schema' = db'
                    /\ pc' = "snapshot" => job'.snap = db'
                    /\ pc' = "record" => snap' = db'
  BY DEF PullInv
<1> DEFINE Goal == /\ schema' = db'
                   /\ pc' = "snapshot" => job'.snap = db'
                   /\ pc' = "record" => snap' = db'
<1>a. NoJob.mode = "none" /\ {schema, snap, db} \subseteq States
  BY DEF NoJob, TypeInv
<1>b. pc = "idle" => job.mode = "none"
  BY <1>a DEF JobInv
<1>c. job' = job =>
        /\ schema = db
        /\ pc = "snapshot" => job.snap = db
        /\ pc = "record" => snap = db
  BY IncidentsStay DEF PullInv
<1>1. CASE Edit
  BY <1>1, <1>a, <1>b DEF Edit
<1>2. ASSUME NEW F \in GenFilters, Gen(F)
      PROVE  Goal
  <2>1. job'.mode = "none"
    BY <1>2, <1>a DEF Gen, NoJob
  <2> QED BY <2>1
<1>3. CASE WriteSnapshot
  BY <1>3, <1>a, <1>c DEF WriteSnapshot, JobInv, Pulling
<1>4. CASE Reset
  BY <1>4, <1>a, <1>b DEF Reset
<1>5. ASSUME NEW F \in SquashFilters, Squash(F)
      PROVE  Goal
  <2>1. job'.mode = "none"
    BY <1>5, <1>a DEF Squash, NoJob
  <2> QED BY <2>1
<1>6. CASE WriteBaseline
  <2>1. job'.mode = job.mode /\ job.mode = "none"
    BY <1>6 DEF WriteBaseline, JobInv, Pulling, TypeInv
  <2> QED BY <2>1
<1>7. CASE NoBaseline
  BY <1>7, <1>a DEF NoBaseline, Finished
<1>8. CASE LeavePending
  BY <1>8, <1>a DEF LeavePending, Finished
<1>9. CASE ClearRecords
  <2>1. job' = job /\ job.mode = "none"
    BY <1>9 DEF ClearRecords, JobInv, Pulling
  <2> QED BY <2>1
<1>10. CASE Record
  BY <1>10, <1>a DEF Record, Finished
<1>11. CASE Migrate
  BY <1>11, <1>a, <1>b DEF Migrate
<1>12. CASE Rollback
  BY <1>12, <1>a, <1>b DEF Rollback
<1>13. ASSUME NEW F \in PullFilters, NEW mode \in PullModes, Pull(F, mode)
       PROVE  Goal
  <2>1. job'.mode = mode /\ job'.filter = F /\ pc' = "baseline" /\ schema' = Pulled(F, mode) /\ db' = db
    BY <1>13 DEF Pull, NoJob
  <2>2. F = Objects /\ mode # "merge"
    BY <2>1
  <2>3. \A o \in Objects : Pulled(F, mode)[o] = db[o]
    BY <2>2 DEF Pulled, Found
  <2>4. Pulled(F, mode) \in States
    BY <1>a, PulledState
  <2>5. Pulled(F, mode) = db
    BY <1>a, <2>3, <2>4, StateDefs
  <2> QED BY <2>1, <2>5
<1>14. CASE Baseline
  <2>1. /\ job'.mode = job.mode /\ job'.filter = job.filter /\ job'.snap = InDatabase
        /\ pc' = "snapshot" /\ schema' = schema /\ db' = db /\ incidents' = incidents
    BY <1>14 DEF Baseline, TypeInv
  <2>2. schema = db
    BY <2>1 DEF PullInv
  <2>3. \A o \in Objects : InDatabase[o] = db[o]
    BY <2>2 DEF InDatabase
  <2>4. InDatabase = db
    BY <1>a, <2>3, InDatabaseState, StateDefs
  <2> QED BY <2>1, <2>2, <2>4
<1>15. CASE BaselineUnchanged
  BY <1>15, <1>a DEF BaselineUnchanged, Finished
<1>16. ASSUME NEW prune \in Prunes, Push(prune)
       PROVE  Goal
  BY <1>16, <1>a, <1>b DEF Push
<1>17. CASE Drift
  <2>1. job' = job /\ pc = "idle"
    BY <1>17 DEF Drift
  <2> QED BY <1>b, <2>1
<1>18. CASE Crash
  BY <1>18, <1>a DEF Crash, Finished
<1>19. CASE UNCHANGED vars
  BY <1>19, <1>c DEF vars
<1> QED
  BY <1>1, <1>2, <1>3, <1>4, <1>5, <1>6, <1>7, <1>8, <1>9, <1>10, <1>11,
     <1>12, <1>13, <1>14, <1>15, <1>16, <1>17, <1>18, <1>19 DEF Next, Command

-----------------------------------------------------------------------------
(* Nothing is left out of a pull or a squash, and a pull merges nothing.    *)
WholeSchema ==
  /\ PullFilters \cup SquashFilters \subseteq {Objects}
  /\ "merge" \notin PullModes

(* There is one number of recorded files.                                   *)
LEMMA UniqueUpto ==
  TypeInv => \A k, l \in 0..Len(files) : Upto(k) /\ Upto(l) => k = l
<1> SUFFICES ASSUME TypeInv, NEW k \in 0..Len(files), NEW l \in 0..Len(files), Upto(k), Upto(l)
             PROVE  k = l
  OBVIOUS
<1>1. files \in Seq(Migrations) /\ Len(files) \in Nat
  BY DEF TypeInv
<1>2. \A i \in 1..Len(files) : i <= k <=> i <= l
  BY <1>1 DEF Upto
<1>3. k \in 1..Len(files) => k <= l
  BY <1>2
<1>4. l \in 1..Len(files) => l <= k
  BY <1>2
<1> QED BY <1>1, <1>3, <1>4

(* Also after a step.                                                       *)
LEMMA UniqueUptoNext ==
  TypeInv' => \A k, l \in 0..Len(files') : Upto(k)' /\ Upto(l)' => k = l
<1>1. (TypeInv => \A k, l \in 0..Len(files) : Upto(k) /\ Upto(l) => k = l)'
  BY UniqueUpto, PTL
<1> QED BY <1>1

(* A state has the objects of itself, and of the empty one.                 *)
LEMMA CoversItself == \A s : Covers(s, s) /\ Covers(s, Empty)
BY DEF Covers, Empty

(* No command parts the database from its records: what changes it writes   *)
(* the record in the same transaction, and a baseline that is recorded      *)
(* without being run changes nothing, since the database was compared       *)
(* first.                                                                   *)
LEMMA StepDatabaseInv ==
  ASSUME WholeSchema
  PROVE  FlowInv /\ DatabaseInv /\ [Next]_vars /\ FlowInv' => DatabaseInv'
<1> DEFINE At(k) == /\ incidents = {} => db = Stage(files, k)
                    /\ Covers(db, Stage(files, k))
<1> DEFINE Settled == pc \in {"idle", "baseline"} \/ (pc \in {"plan", "snapshot"} /\ job.then = "idle")
<1> DEFINE Goal == /\ pc' = "snapshot" /\ Squashing' => job'.snap = schema'
                   /\ pc' = "reconcile" => snap' = schema'
                   /\ pc' = "record" => snap' = db'
                   /\ Settled' => \A k \in 0..Len(files') : Upto(k)' => At(k)'
<1> SUFFICES ASSUME FlowInv, DatabaseInv, [Next]_vars, FlowInv', incidents' \subseteq {"squashed"}
             PROVE  Goal
  BY DEF DatabaseInv
<1>a. /\ TypeInv /\ JobInv /\ OrderInv /\ TypeInv'
      /\ incidents \subseteq incidents'
      /\ files \in Seq(Migrations) /\ Len(files) \in Nat /\ {schema, snap, db} \subseteq States
      /\ files' \in Seq(Migrations)
  BY IncidentsStay DEF FlowInv, TypeInv
<1>b. /\ pc = "snapshot" /\ Squashing => job.snap = schema
      /\ pc = "reconcile" => snap = schema
      /\ pc = "record" => snap = db
      /\ Settled => \A k \in 0..Len(files) : Upto(k) => At(k)
  BY <1>a DEF DatabaseInv
<1>c. /\ Chain(files)
      /\ pc \in {"idle", "reconcile", "record", "baseline"} => Replay(Empty, files) = snap
      /\ \E k \in 0..Len(files) : Upto(k)
      /\ pc = "record" => Upto(Len(files) - 1)
      /\ Pulling => job.mode \in {"mirror", "discard"} /\ job.filter = Objects
      /\ Squashing \/ pc = "plan" => job.filter = Objects
      /\ Pulling /\ pc = "snapshot" => job.snap = db
  BY <1>a, OptionsAssumption DEF FlowInv, ChainInv, PrefixInv, JobInv, PullInv, WholeSchema
<1>d. PICK k \in 0..Len(files) : Upto(k)
  BY <1>c
<1>e. ASSUME NEW l \in 0..Len(files'), Upto(l)', At(l)'
      PROVE  \A j \in 0..Len(files') : Upto(j)' => At(j)'
  BY <1>a, <1>e, UniqueUptoNext
<1>f. \A l \in 0..Len(files) : Stage(files, l) \in States
  BY <1>a, StageFacts
<1> HIDE DEF At, Settled
<1>1. CASE Edit
  <2>1. /\ files' = files /\ applied' = applied /\ db' = db /\ incidents' = incidents
        /\ Settled /\ Settled' /\ pc' \in {"idle", "baseline"}
    BY <1>1 DEF Edit, Settled, NoJob, Finished
  <2>2. Upto(k)' /\ At(k)'
    BY <1>b, <1>d, <2>1, SameUpto DEF At
  <2> QED BY <1>d, <1>e, <2>1, <2>2 DEF Squashing
<1>2. ASSUME NEW F \in GenFilters, Gen(F)
      PROVE  Goal
  <2>1. applied' = applied /\ WriteFile(Only(F, snap), Only(F, schema)) /\ db' = db /\ incidents' = incidents
    BY <1>2 DEF Gen
  <2>2. Only(F, snap) \in States /\ Only(F, schema) \in States
    BY <1>a, EmptyState, OnlyState, InDatabaseState
  <2>3. Len(files') = Len(files) + 1 /\ Upto(k)'
    BY <1>a, <1>d, <2>1, <2>2, WriteUpto
  <2>4. Stage(files', k) = Stage(files, k)
    BY <1>a, <2>1, <2>2, StageFacts, MigrationType DEF WriteFile, TypeInv
  <2>5. k \in 0..Len(files')
    BY <1>a, <2>3
  <2>6. pc = "idle" /\ pc' = "snapshot" /\ job'.then = "idle"
    BY <1>2 DEF Gen, NoJob
  <2>7. At(k)'
    BY <1>b, <1>d, <2>1, <2>4, <2>6 DEF At, Settled
  <2> QED BY <1>e, <2>3, <2>5, <2>6, <2>7 DEF Squashing
<1>3. CASE WriteSnapshot
  <2>1. /\ files' = files /\ applied' = applied /\ db' = db /\ incidents' = incidents /\ schema' = schema
        /\ pc = "snapshot" /\ pc' = job.then /\ snap' = job.snap
        /\ job.then \in {"idle", "reconcile", "record"}
    BY <1>3, <1>a DEF WriteSnapshot, TypeInv
  <2>2. CASE job.then = "idle"
    <3>1. Upto(k)' /\ At(k)'
      BY <1>b, <1>d, <2>1, <2>2, SameUpto DEF At, Settled
    <3> QED BY <1>d, <1>e, <2>1, <2>2, <3>1
  <2>3. CASE job.then = "reconcile"
    BY <1>b, <2>1, <2>3 DEF Squashing, Settled
  <2>4. CASE job.then = "record"
    BY <1>c, <2>1, <2>4 DEF Pulling, Settled
  <2> QED BY <2>1, <2>2, <2>3, <2>4
<1>4. CASE Reset
  BY <1>4 DEF Reset
<1>5. ASSUME NEW F \in SquashFilters, Squash(F)
      PROVE  Goal
  <2>1. /\ files' = <<>> /\ pc' = "plan" /\ pc = "idle" /\ db' = db /\ incidents' = incidents
        /\ applied' = applied /\ job'.then = (IF files = <<>> THEN "idle" ELSE "reconcile")
    BY <1>5 DEF Squash, NoJob
  <2>2. CASE files = <<>>
    <3>1. files' = files /\ k \in 0..Len(files')
      BY <1>d, <2>1, <2>2
    <3>2. Upto(k)' /\ At(k)'
      BY <1>b, <1>d, <2>1, <3>1, SameUpto DEF At, Settled
    <3> QED BY <1>e, <2>1, <3>1, <3>2
  <2>3. CASE files # <<>>
    BY <2>1, <2>3 DEF Settled
  <2> QED BY <2>2, <2>3
<1>6. CASE WriteBaseline
  <2>1. applied' = applied /\ WriteFile(Empty, Only(job.filter, schema)) /\ db' = db /\ incidents' = incidents
    BY <1>6 DEF WriteBaseline
  <2>2. Empty \in States /\ Only(job.filter, schema) \in States
    BY <1>a, EmptyState, OnlyState, InDatabaseState
  <2>3. Len(files') = Len(files) + 1 /\ Upto(k)'
    BY <1>a, <1>d, <2>1, <2>2, WriteUpto
  <2>4. Stage(files', k) = Stage(files, k)
    BY <1>a, <2>1, <2>2, StageFacts, MigrationType DEF WriteFile, TypeInv
  <2>5. k \in 0..Len(files')
    BY <1>a, <2>3
  <2>6. /\ pc = "plan" /\ pc' = "snapshot" /\ job'.then = job.then /\ schema' = schema
        /\ job'.snap = Merged(Objects, Empty, schema)
    BY <1>6, <1>a, <1>c DEF WriteBaseline, TypeInv
  <2>7. Merged(Objects, Empty, schema) = schema
    BY <1>a, StateDefs DEF Merged
  <2>8. CASE job.then = "idle"
    <3>1. At(k)'
      BY <1>b, <1>d, <2>1, <2>4, <2>6, <2>8 DEF At, Settled
    <3> QED BY <1>e, <2>3, <2>5, <2>6, <2>7, <2>8, <3>1
  <2>9. CASE job.then # "idle"
    BY <2>6, <2>7, <2>9 DEF Settled
  <2> QED BY <2>8, <2>9
<1>7. CASE NoBaseline
  BY <1>7 DEF NoBaseline
<1>8. CASE LeavePending
  <2>1. /\ files' = files /\ applied' = applied /\ db' = db /\ pc' = "idle" /\ Squashing
        /\ pc \in {"reconcile", "record"} /\ "squashed" \in incidents'
    BY <1>8 DEF LeavePending, Finished, Squashing
  <2>2. Len(files) = 1 /\ files[1].id \notin applied
    BY <1>a, <2>1 DEF JobInv, OrderInv, Squashing
  <2>3. k = 0
    BY <1>a, <1>d, <2>2 DEF Upto, IsApplied
  <2>4. Upto(0)'
    BY <1>d, <2>1, <2>3, SameUpto
  <2>5. Stage(files, 0) = Empty /\ 0 \in 0..Len(files')
    BY <1>a, <2>1, StageFacts
  <2>6. At(0)'
    BY <2>1, <2>5, CoversItself DEF At
  <2> QED BY <1>e, <2>1, <2>4, <2>5, <2>6
<1>9. CASE ClearRecords
  <2>1. pc = "reconcile" /\ pc' = "record" /\ UNCHANGED <<snap, db>> /\ ~Drifted(Objects)
    BY <1>9, <1>c DEF ClearRecords, Squashing
  <2>2. \A o \in Objects : schema[o] = Only(Objects, schema)[o] /\ db[o] = Only(Objects, db)[o]
    BY DEF Only
  <2>3. \A o \in Objects : schema[o] = db[o]
    BY <2>1, <2>2 DEF Drifted
  <2>4. schema = db
    BY <1>a, <2>3, StateDefs
  <2> QED BY <1>b, <2>1, <2>4 DEF Settled
<1>10. CASE Record
  <2>1. /\ files' = files /\ pc' = "idle" /\ applied' = applied \cup {made} /\ pc = "record"
        /\ db' = db /\ incidents' = incidents
    BY <1>10 DEF Record, Finished
  <2>2. Len(files) \in DOMAIN files /\ files[Len(files)].id = made
    BY <1>a, <2>1 DEF OrderInv
  <2>3. PICK l \in 0..Len(files) : l = Len(files) - 1
    <3>1. Len(files) - 1 \in 0..Len(files)
      BY <1>a, <2>2
    <3> QED BY <3>1
  <2>4. Upto(l) /\ l + 1 = Len(files)
    BY <1>a, <1>c, <2>1, <2>3
  <2>5. Upto(l + 1)'
    BY <1>a, <2>1, <2>2, <2>4, RecordUpto
  <2>6. Stage(files, l + 1) = db
    BY <1>a, <1>b, <1>c, <2>1, <2>4, StageFacts
  <2>7. At(l + 1)'
    BY <2>1, <2>6, CoversItself DEF At
  <2> QED BY <1>a, <1>e, <2>1, <2>4, <2>5, <2>7
<1>11. CASE Migrate
  <2>1. k + 1 \in DOMAIN files /\ Head(Pending) = files[k + 1]
    BY <1>11, <1>a, <1>d, NextUpto DEF Migrate
  <2>2. /\ files' = files /\ pc' = "idle" /\ pc = "idle" /\ applied' = applied \cup {files[k + 1].id}
        /\ db' = After(db, files[k + 1]) /\ incidents' = incidents
    BY <1>11, <2>1 DEF Migrate
  <2>3. Upto(k + 1)'
    BY <1>a, <1>d, <2>1, <2>2, RecordUpto
  <2>4. Stage(files, k + 1) = After(Stage(files, k), files[k + 1]) /\ files[k + 1] \in Migrations
    BY <1>a, <2>1, StageFacts
  <2>5. At(k)
    BY <1>b, <1>d, <2>2 DEF Settled
  <2>6. Covers(db', Stage(files, k + 1))
    BY <1>a, <1>f, <2>2, <2>4, <2>5, AfterCovers DEF At
  <2>7. At(k + 1)'
    BY <2>2, <2>4, <2>5, <2>6 DEF At
  <2> QED BY <1>a, <1>e, <2>1, <2>2, <2>3, <2>7
<1>12. CASE Rollback
  <2>1. k \in DOMAIN files /\ Last(Applied) = files[k]
    BY <1>12, <1>a, <1>d, NextUpto DEF Rollback
  <2>2. /\ files' = files /\ pc' = "idle" /\ pc = "idle" /\ applied' = applied \ {files[k].id}
        /\ db' = After(db, Inverted(files[k])) /\ incidents' = incidents
    BY <1>12, <2>1 DEF Rollback
  <2>3. Upto(k - 1)'
    BY <1>a, <1>d, <2>1, <2>2, ForgetUpto
  <2>4. PICK j \in 0..Len(files) : j = k - 1
    BY <1>a, <2>1
  <2>5. j + 1 = k
    BY <1>a, <2>1, <2>4
  <2>6. Stage(files, k) = After(Stage(files, j), files[k]) /\ files[k] \in Migrations
    BY <1>a, <2>1, <2>5, StageFacts
  <2>7. Follows(Stage(files, j), files[k])
    BY <1>c, <2>1, <2>4 DEF Chain
  <2>8. After(Stage(files, k), Inverted(files[k])) = Stage(files, j)
    BY <1>f, <2>6, <2>7, ThereAndBack
  <2>9. At(k)
    BY <1>b, <1>d, <2>2 DEF Settled
  <2>10. Covers(db', Stage(files, j))
    BY <1>a, <1>f, <2>2, <2>6, <2>8, <2>9, AfterCovers, InvertedType DEF At
  <2>11. At(j)'
    BY <2>2, <2>8, <2>9, <2>10 DEF At
  <2> QED BY <1>e, <2>2, <2>3, <2>4, <2>11
<1>13. ASSUME NEW F \in PullFilters, NEW mode \in PullModes, Pull(F, mode)
       PROVE  Goal
  <2>1. /\ files' = files /\ applied' = applied /\ db' = db /\ incidents' = incidents
        /\ Settled /\ Settled' /\ pc' \in {"idle", "baseline"}
    BY <1>13 DEF Pull, Settled, NoJob, Finished
  <2>2. Upto(k)' /\ At(k)'
    BY <1>b, <1>d, <2>1, SameUpto DEF At
  <2> QED BY <1>d, <1>e, <2>1, <2>2 DEF Squashing
<1>14. CASE Baseline
  <2>1. pc' = "snapshot" /\ job'.then = "record"
    BY <1>14, <1>a DEF Baseline, TypeInv
  <2> QED BY <2>1 DEF Squashing, Settled
<1>15. CASE BaselineUnchanged
  <2>1. /\ files' = files /\ applied' = applied /\ db' = db /\ incidents' = incidents
        /\ Settled /\ Settled' /\ pc' \in {"idle", "baseline"}
    BY <1>15 DEF BaselineUnchanged, Settled, NoJob, Finished
  <2>2. Upto(k)' /\ At(k)'
    BY <1>b, <1>d, <2>1, SameUpto DEF At
  <2> QED BY <1>d, <1>e, <2>1, <2>2 DEF Squashing
<1>16. ASSUME NEW prune \in Prunes, Push(prune)
       PROVE  Goal
  BY <1>16 DEF Push
<1>17. CASE Drift
  <2>1. "drift" \in incidents' \/ "raced" \in incidents'
    BY <1>17 DEF Drift
  <2> QED BY <2>1
<1>18. CASE Crash
  BY <1>18 DEF Crash
<1>19. CASE UNCHANGED vars
  <2>1. /\ files' = files /\ applied' = applied /\ db' = db /\ incidents' = incidents
        /\ pc' = pc /\ job' = job /\ schema' = schema /\ snap' = snap
    BY <1>19 DEF vars
  <2>2. (Settled' <=> Settled) /\ (Squashing' <=> Squashing)
    BY <2>1 DEF Settled, Squashing
  <2>3. Upto(k)'
    BY <1>d, <2>1, SameUpto
  <2>4. Settled => At(k)'
    BY <1>b, <1>d, <2>1 DEF At
  <2> QED BY <1>b, <1>d, <1>e, <2>1, <2>2, <2>3, <2>4
<1> QED
  BY <1>1, <1>2, <1>3, <1>4, <1>5, <1>6, <1>7, <1>8, <1>9, <1>10, <1>11,
     <1>12, <1>13, <1>14, <1>15, <1>16, <1>17, <1>18, <1>19 DEF Next, Command

-----------------------------------------------------------------------------
(* Nothing was made, recorded or started.                                   *)
LEMMA InitFlowInv == Init => FlowInv
<1> SUFFICES ASSUME Init
             PROVE  FlowInv
  OBVIOUS
<1>1. /\ files = <<>> /\ pc = "idle" /\ job = NoJob /\ applied = {} /\ made = 0 /\ incidents = {}
      /\ schema = Empty /\ snap = Empty /\ db = Empty
  BY DEF Init
<1>2. NoJob.mode = "none" /\ NoJob.then = "idle"
  BY DEF NoJob
<1>3. JobInv
  BY <1>1, <1>2 DEF JobInv, Pulling, Squashing
<1>4. OrderInv
  BY <1>1 DEF OrderInv
<1>5. ChainInv
  BY <1>1, ReplayEmpty DEF ChainInv, Chain
<1>6. PrefixInv
  <2>1. Upto(0)
    BY <1>1 DEF Upto
  <2> QED BY <1>1, <2>1 DEF PrefixInv
<1>7. PullInv
  BY <1>1, <1>2 DEF PullInv
<1> QED BY <1>3, <1>4, <1>5, <1>6, <1>7, InitTypeInv DEF FlowInv

(* The parts of the bookkeeping, together.                                  *)
LEMMA StepFlowInv == FlowInv /\ [Next]_vars => FlowInv'
BY StepTypeInv, StepJobInv, StepOrderInv, StepChainInv, StepPrefixInv, StepPullInv DEF FlowInv

(* The bookkeeping of the commands, whatever they are told to leave out,    *)
(* whoever else changes the database, and wherever a command dies: the      *)
(* files stay in the order they were made in and only they are recorded,    *)
(* and as long as no snapshot was lost they lead to it one after another.   *)
THEOREM FlowInvariance == Spec => []FlowInv
<1>1. Init => FlowInv
  BY InitFlowInv
<1>2. FlowInv /\ [Next]_vars => FlowInv'
  BY StepFlowInv
<1> QED BY <1>1, <1>2, PTL DEF Spec

(* The empty database is the stage of no file.                              *)
LEMMA InitDatabaseInv == Init => DatabaseInv
<1> SUFFICES ASSUME Init
             PROVE  DatabaseInv
  OBVIOUS
<1>1. files = <<>> /\ pc = "idle" /\ db = Empty
  BY DEF Init
<1>2. files \in Seq(Migrations) /\ \A k \in 0..Len(files) : k = 0
  BY <1>1
<1>3. \A k \in 0..Len(files) : Stage(files, k) = Empty
  BY <1>2, StageFacts
<1> QED BY <1>1, <1>3, CoversItself DEF DatabaseInv

(* As long as `migrate`, `rollback`, `gen`, `gen --baseline` and `pull` of  *)
(* whole schemas are all that happens, the database is at the stage of its  *)
(* records; after a squash that left its baseline pending it still has the  *)
(* objects of that stage (index.ts, migrate.ts).                            *)
THEOREM DatabaseInvariance ==
  ASSUME WholeSchema
  PROVE  Spec => [](FlowInv /\ DatabaseInv)
<1>1. Init => FlowInv /\ DatabaseInv
  BY InitFlowInv, InitDatabaseInv
<1>2. FlowInv /\ DatabaseInv /\ [Next]_vars => FlowInv' /\ DatabaseInv'
  BY StepFlowInv, StepDatabaseInv
<1> QED BY <1>1, <1>2, PTL DEF Spec

-----------------------------------------------------------------------------
(* Between two commands, the records are the first k files and the database *)
(* is where these end.                                                      *)
LEMMA AppliedStage ==
  ASSUME FlowInv, DatabaseInv, pc = "idle", incidents \subseteq {"squashed"}
  PROVE  \E k \in 0..Len(files) :
           /\ Upto(k)
           /\ Applied = SubSeq(files, 1, k) /\ Pending = SubSeq(files, k + 1, Len(files))
           /\ incidents = {} => db = Stage(files, k)
           /\ Covers(db, Stage(files, k))
<1>1. PICK k \in 0..Len(files) : Upto(k)
  BY DEF FlowInv, PrefixInv
<1>2. Applied = SubSeq(files, 1, k) /\ Pending = SubSeq(files, k + 1, Len(files))
  BY <1>1, KeptPrefix DEF FlowInv
<1> QED BY <1>1, <1>2 DEF DatabaseInv

(* The invariants say what ReplayIsSnapshot does.                           *)
LEMMA ReplayIsSnapshotHolds == FlowInv /\ DatabaseInv => ReplayIsSnapshot
<1> SUFFICES ASSUME FlowInv, DatabaseInv, pc = "idle"
             PROVE  /\ incidents \cap {"torn", "reset", "cleared"} = {} => Replay(Empty, files) = snap
                    /\ incidents = {} => db = Replay(Empty, Applied)
  BY DEF ReplayIsSnapshot
<1>1. incidents \cap {"torn", "reset", "cleared"} = {} => Replay(Empty, files) = snap
  BY DEF FlowInv, ChainInv
<1>2. ASSUME incidents = {}
      PROVE  db = Replay(Empty, Applied)
  BY <1>2, AppliedStage DEF Stage
<1> QED BY <1>1, <1>2

(* Replaying every file gives the snapshot, and the applied ones the        *)
(* database.                                                                *)
THEOREM FilesTellTheDatabase ==
  ASSUME WholeSchema
  PROVE  Spec => []ReplayIsSnapshot
<1>1. FlowInv /\ DatabaseInv => ReplayIsSnapshot
  BY ReplayIsSnapshotHolds
<1>2. Spec => [](FlowInv /\ DatabaseInv)
  BY DatabaseInvariance
<1> QED BY <1>1, <1>2, PTL

-----------------------------------------------------------------------------
(* What no file from the k-th on touches is as it was after the k-th.       *)
LEMMA Untouched ==
  ASSUME TypeInv, NEW k \in 0..Len(files), NEW o \in Objects,
         \A i \in DOMAIN files : i > k => o \notin Touches(files[i])
  PROVE  Stage(files, Len(files))[o] = Stage(files, k)[o]
<1> DEFINE S == {i \in Nat : i \in k..Len(files) => Stage(files, i)[o] = Stage(files, k)[o]}
<1>1. files \in Seq(Migrations) /\ k \in Nat /\ Len(files) \in Nat
  BY DEF TypeInv
<1>2. 0 \in S
  BY <1>1
<1>3. ASSUME NEW i \in Nat, i \in S PROVE i + 1 \in S
  <2> SUFFICES ASSUME i + 1 \in k..Len(files), i + 1 # k
               PROVE  Stage(files, i + 1)[o] = Stage(files, k)[o]
    OBVIOUS
  <2>1. i \in k..Len(files) /\ i \in 0..Len(files) /\ i + 1 \in DOMAIN files /\ i + 1 > k
    BY <1>1
  <2>2. Stage(files, i + 1) = After(Stage(files, i), files[i + 1])
    BY <1>1, <2>1, StageFacts
  <2>3. Stage(files, i + 1)[o] = Stage(files, i)[o]
    BY <2>1, <2>2 DEF After
  <2> QED BY <1>3, <2>1, <2>3
<1> HIDE DEF S
<1>4. Nat \subseteq S
  BY <1>2, <1>3, Loop!Induct
<1> QED BY <1>1, <1>4 DEF S

(* What schema and database differ in, and the snapshot does not tell, a    *)
(* file after the k-th touches: else the database had it.                   *)
LEMMA EditStaysPendingHolds == FlowInv /\ DatabaseInv => EditStaysPending
<1> SUFFICES ASSUME FlowInv, DatabaseInv, pc = "idle", incidents = {},
                    NEW o \in Changed(schema, db), schema[o] = snap[o]
             PROVE  \E i \in DOMAIN Pending : o \in Touches(Pending[i])
  BY DEF EditStaysPending
<1>1. files \in Seq(Migrations) /\ o \in Objects /\ TypeInv
  BY DEF FlowInv, TypeInv, Changed
<1>2. PICK k \in 0..Len(files) : Pending = SubSeq(files, k + 1, Len(files)) /\ db = Stage(files, k)
  BY AppliedStage
<1>3. snap = Stage(files, Len(files))
  BY <1>1, StageFacts DEF FlowInv, ChainInv
<1>4. snap[o] # db[o]
  BY DEF Changed
<1>5. PICK i \in DOMAIN files : i > k /\ o \in Touches(files[i])
  BY <1>1, <1>2, <1>3, <1>4, Untouched
<1>6. i - k \in DOMAIN Pending /\ Pending[i - k] = files[i]
  BY <1>1, <1>2, <1>5
<1> QED BY <1>5, <1>6

(* What the user wrote and the database lacks is still to be done.          *)
THEOREM EditsAreKept ==
  ASSUME WholeSchema
  PROVE  Spec => []EditStaysPending
<1>1. FlowInv /\ DatabaseInv => EditStaysPending
  BY EditStaysPendingHolds
<1>2. Spec => [](FlowInv /\ DatabaseInv)
  BY DatabaseInvariance
<1> QED BY <1>1, <1>2, PTL

(* `pull` without --discard takes no definition of the user, whatever it is *)
(* told to leave out.                                                       *)
LEMMA StepNothingIsLost ==
  TypeInv /\ [Next]_vars =>
    (pc' # pc => job'.mode = "discard" \/
       \A o \in Objects : FieldsOf(schema[o]) \subseteq FieldsOf(schema'[o]))
<1> SUFFICES ASSUME TypeInv, [Next]_vars, pc' # pc, job'.mode # "discard", NEW o \in Objects
             PROVE  FieldsOf(schema[o]) \subseteq FieldsOf(schema'[o])
  OBVIOUS
<1>1. ASSUME NEW F \in PullFilters, NEW mode \in PullModes, Pull(F, mode)
      PROVE  FieldsOf(schema[o]) \subseteq FieldsOf(schema'[o])
  <2>1. mode \in {"mirror", "merge"} /\ schema' = Pulled(F, mode) /\ (mode = "mirror" => AtRisk(F) = {})
    BY <1>1, OptionsAssumption DEF Pull, NoJob
  <2>2. /\ schema[o] \in Definitions(o) /\ db[o] \in Definitions(o)
        /\ \A d \in SUBSET Fields[o] : FieldsOf(d) = d
    BY StateDefs, ObjectsAssumption DEF TypeInv, FieldsOf
  <2>3. CASE mode = "merge"
    <3>1. CASE o \in Found(F)
      <4>1. schema'[o] = db[o] \cup FieldsOf(schema[o])
        BY <2>1, <2>3, <3>1 DEF Pulled
      <4>2. db[o] \cup FieldsOf(schema[o]) \in SUBSET Fields[o]
        BY <2>2, <3>1, FieldSets DEF Found, Definitions
      <4> QED BY <2>2, <4>1, <4>2
    <3>2. CASE o \notin Found(F)
      BY <2>1, <2>3, <3>2 DEF Pulled
    <3> QED BY <3>1, <3>2
  <2>4. CASE mode = "mirror"
    <3>1. o \notin AtRisk(F)
      BY <2>1, <2>4
    <3>2. CASE o \in Found(F)
      <4>1. schema'[o] = db[o] /\ FieldsOf(schema[o]) \ db[o] = {} /\ db[o] # NoDef
        BY <2>1, <2>4, <3>1, <3>2 DEF Pulled, AtRisk, Found
      <4>2. FieldsOf(db[o]) = db[o]
        BY <2>2, <4>1 DEF FieldsOf
      <4> QED BY <4>1, <4>2
    <3>3. CASE o \notin Found(F)
      BY <3>1, <3>3 DEF AtRisk, FieldsOf
    <3> QED BY <3>2, <3>3
  <2> QED BY <2>1, <2>3, <2>4
<1>2. CASE schema' = schema
  BY <1>2
<1>3. (\E F \in PullFilters, mode \in PullModes : Pull(F, mode)) \/ schema' = schema \/ pc' = pc
  BY DEF Next, Command, vars, Edit, Gen, WriteSnapshot, Reset, Squash, WriteBaseline, NoBaseline,
     LeavePending, ClearRecords, Record, Migrate, Rollback, Baseline, BaselineUnchanged, Push,
     Drift, Crash
<1> QED BY <1>1, <1>2, <1>3

(* No command takes a field out of the schema files, except `pull           *)
(* --discard`: the guard of pullPass on local-only schema, whatever filters *)
(* there are.                                                               *)
THEOREM PullTakesNothing == Spec => NothingIsLost
<1>1. FlowInv => TypeInv
  BY DEF FlowInv
<1>2. TypeInv /\ [Next]_vars =>
        [pc' # pc => job'.mode = "discard" \/
           \A o \in Objects : FieldsOf(schema[o]) \subseteq FieldsOf(schema'[o])]_vars
  BY StepNothingIsLost
<1> QED BY <1>1, <1>2, FlowInvariance, PTL DEF Spec, NothingIsLost

(* When every file is recorded, the applied ones are the files.             *)
LEMMA AllApplied == TypeInv /\ Upto(Len(files)) => Applied = files
<1> SUFFICES ASSUME TypeInv, Upto(Len(files))
             PROVE  Applied = files
  OBVIOUS
<1>1. files \in Seq(Migrations) /\ Len(files) \in 0..Len(files)
  BY DEF TypeInv
<1>2. Applied = SubSeq(files, 1, Len(files))
  BY <1>1, KeptPrefix
<1> QED BY <1>1, <1>2, PrefixFacts

(* Also after a step.                                                       *)
LEMMA AllAppliedNext == TypeInv' /\ Upto(Len(files))' => Applied' = files'
<1>1. (TypeInv /\ Upto(Len(files)) => Applied = files)'
  BY AllApplied, PTL
<1> QED BY <1>1

(* The record is the last write of a pull, and the others have been made.   *)
LEMMA StepPullResyncs ==
  ASSUME FlowInv, FlowInv', [Next]_vars, pc = "record", applied' # applied,
         job.mode \in {"mirror", "discard"}, job.filter = Objects, "raced" \notin incidents
  PROVE  /\ schema' = db' /\ snap' = db'
         /\ incidents \subseteq {"drift", "pushed"} => (Replay(Empty, Applied) = db)'
<1>1. Record
  BY DEF Next, Command, vars, Edit, Gen, WriteSnapshot, Reset, Squash, WriteBaseline, NoBaseline,
     LeavePending, ClearRecords, Migrate, Rollback, Pull, Baseline, BaselineUnchanged, Push,
     Drift, Crash
<1>2. /\ schema' = schema /\ snap' = snap /\ db' = db /\ files' = files /\ incidents' = incidents
      /\ applied' = applied \cup {made} /\ pc' = "idle"
  BY <1>1 DEF Record, Finished
<1>3. schema = db /\ snap = db
  BY DEF FlowInv, PullInv
<1>4. ASSUME incidents \subseteq {"drift", "pushed"}
      PROVE  (Replay(Empty, Applied) = db)'
  <2>1. Upto(Len(files) - 1) /\ TypeInv /\ OrderInv /\ TypeInv'
    BY <1>4 DEF FlowInv, PrefixInv
  <2>2. files \in Seq(Migrations) /\ Len(files) \in DOMAIN files /\ files[Len(files)].id = made
    BY <2>1 DEF OrderInv, TypeInv
  <2>3. PICK l \in 0..Len(files) : l = Len(files) - 1
    <3>1. Len(files) - 1 \in 0..Len(files)
      BY <2>2
    <3> QED BY <3>1
  <2>4. Upto(l) /\ l + 1 = Len(files)
    BY <2>1, <2>2, <2>3
  <2>5. Upto(l + 1)'
    BY <1>2, <2>1, <2>2, <2>4, RecordUpto
  <2>6. Upto(Len(files))'
    BY <1>2, <2>4, <2>5 DEF Upto, IsApplied
  <2>7. Applied' = files'
    BY <2>1, <2>6, AllAppliedNext
  <2>8. Replay(Empty, files') = snap'
    BY <1>2, <1>4 DEF FlowInv, ChainInv
  <2> QED BY <1>2, <1>3, <2>7, <2>8
<1> QED BY <1>2, <1>3, <1>4

(* A pull of everything ends with all four places equal.                    *)
THEOREM PullBringsTogether == Spec => PullResyncs
<1>1. FlowInv /\ FlowInv' /\ [Next]_vars =>
        [ /\ pc = "record" /\ applied' # applied
          /\ job.mode \in {"mirror", "discard"} /\ job.filter = Objects /\ "raced" \notin incidents
          => /\ schema' = db' /\ snap' = db'
             /\ incidents \subseteq {"drift", "pushed"} => (Replay(Empty, Applied) = db)'
        ]_vars
  BY StepPullResyncs
<1> QED BY <1>1, FlowInvariance, PTL DEF Spec, PullResyncs

-----------------------------------------------------------------------------
(* The database accepts the files that are not recorded, one after another: *)
(* each starts where it is, or, if files say OVERWRITE, it has at least the *)
(* objects that it changes.                                                 *)
LEMMA AcceptsExact ==
  ASSUME NEW s \in States, NEW m \in Migrations, Follows(s, m)
  PROVE  Accepts(s, m)
<1> SUFFICES ASSUME NEW o \in Touches(m), m.to[o] # NoDef, m.from[o] # NoDef
             PROVE  s[o] # NoDef /\ (m.to[o] \ m.from[o]) \cap s[o] = {}
  BY DEF Accepts, Follows
<1>1. s[o] = m.from[o]
  BY DEF Follows
<1> QED BY <1>1

(* A file that says OVERWRITE runs where all objects are that it was made   *)
(* over.                                                                    *)
LEMMA AcceptsCovered ==
  ASSUME Idempotent, NEW s \in States, NEW t \in States, NEW m \in Migrations, Follows(t, m), Covers(s, t)
  PROVE  Accepts(s, m)
<1> SUFFICES ASSUME NEW o \in Touches(m), m.from[o] # NoDef
             PROVE  s[o] # NoDef
  BY DEF Accepts
<1>1. t[o] = m.from[o] /\ o \in Objects
  BY DEF Follows, Touches, Changed
<1> QED BY <1>1 DEF Covers

(* A run of migrations is accepted when something that stays with the       *)
(* database is enough for each of them: `stages` are where the files say    *)
(* the database is.                                                         *)
LEMMA RunsAlong ==
  ASSUME NEW s \in States, NEW ms \in Seq(Migrations), NEW stages \in [0..Len(ms) -> States],
         \A i \in DOMAIN ms : Follows(stages[i - 1], ms[i]) /\ stages[i] = After(stages[i - 1], ms[i]),
         Covers(s, stages[0]), Idempotent \/ s = stages[0]
  PROVE  Runs(s, ms)
<1> DEFINE S == {i \in Nat : i \in 0..Len(ms) =>
                   /\ Replay(s, SubSeq(ms, 1, i)) \in States
                   /\ Covers(Replay(s, SubSeq(ms, 1, i)), stages[i])
                   /\ s = stages[0] => Replay(s, SubSeq(ms, 1, i)) = stages[i]}
<1>1. Len(ms) \in Nat /\ \A i \in DOMAIN ms : ms[i] \in Migrations
  OBVIOUS
<1>2. 0 \in S
  <2>1. Replay(s, SubSeq(ms, 1, 0)) = s
    BY PrefixFacts, ReplayEmpty
  <2> QED BY <2>1
<1>3. ASSUME NEW i \in Nat, i \in S PROVE i + 1 \in S
  <2> SUFFICES ASSUME i + 1 \in 0..Len(ms)
               PROVE  /\ Replay(s, SubSeq(ms, 1, i + 1)) \in States
                      /\ Covers(Replay(s, SubSeq(ms, 1, i + 1)), stages[i + 1])
                      /\ s = stages[0] => Replay(s, SubSeq(ms, 1, i + 1)) = stages[i + 1]
    OBVIOUS
  <2>1. i \in 0..Len(ms) /\ i + 1 \in DOMAIN ms /\ (i + 1) - 1 = i
    BY <1>1
  <2>2. SubSeq(ms, 1, i) \in Seq(Migrations) /\ ms[i + 1] \in Migrations
    BY <1>1, <2>1, PrefixFacts
  <2>3. SubSeq(ms, 1, i + 1) = Append(SubSeq(ms, 1, i), ms[i + 1])
    BY <2>1, PrefixFacts
  <2>4. Replay(s, SubSeq(ms, 1, i + 1)) = After(Replay(s, SubSeq(ms, 1, i)), ms[i + 1])
    BY <2>2, <2>3, ReplayAppend
  <2>5. stages[i + 1] = After(stages[i], ms[i + 1]) /\ stages[i] \in States
    BY <2>1
  <2> DEFINE r == Replay(s, SubSeq(ms, 1, i))
  <2>6. r \in States /\ Covers(r, stages[i]) /\ (s = stages[0] => r = stages[i])
    BY <1>3, <2>1
  <2> HIDE DEF r
  <2>7. Covers(After(r, ms[i + 1]), After(stages[i], ms[i + 1])) /\ After(r, ms[i + 1]) \in States
    BY <2>2, <2>5, <2>6, AfterCovers, AfterState
  <2> QED BY <2>4, <2>5, <2>6, <2>7 DEF r
<1> HIDE DEF S
<1>4. Nat \subseteq S
  BY <1>2, <1>3, Loop!Induct
<1>5. ASSUME NEW i \in DOMAIN ms
      PROVE  Accepts(Replay(s, SubSeq(ms, 1, i - 1)), ms[i])
  <2> DEFINE r == Replay(s, SubSeq(ms, 1, i - 1))
  <2>1. i - 1 \in 0..Len(ms) /\ i - 1 \in Nat
    BY <1>1
  <2>2. r \in States /\ Covers(r, stages[i - 1]) /\ (s = stages[0] => r = stages[i - 1])
    BY <1>4, <2>1 DEF S
  <2>3. stages[i - 1] \in States /\ ms[i] \in Migrations /\ Follows(stages[i - 1], ms[i])
    BY <1>1, <2>1
  <2> HIDE DEF r
  <2> DEFINE t == stages[i - 1]
  <2>4. r \in States /\ t \in States /\ ms[i] \in Migrations /\ Follows(t, ms[i]) /\ Covers(r, t)
    BY <2>2, <2>3
  <2>5. s = stages[0] => r = t
    BY <2>2
  <2> HIDE DEF t
  <2>6. Accepts(r, ms[i])
    <3>1. CASE Idempotent
      BY <2>4, <3>1, AcceptsCovered
    <3>2. CASE s = stages[0]
      BY <2>4, <2>5, <3>2, AcceptsExact
    <3> QED BY <3>1, <3>2
  <2> QED BY <2>6 DEF r
<1> QED BY <1>5 DEF Runs

(* `migrate` goes up the stages from the k-th to the last, `rollback` down  *)
(* from it to the first.                                                    *)
LEMMA MigrationsRunHolds == FlowInv /\ DatabaseInv => MigrationsRun
<1> SUFFICES ASSUME FlowInv, DatabaseInv, pc = "idle",
                    incidents \subseteq (IF Idempotent THEN {"squashed"} ELSE {})
             PROVE  Runs(db, Pending) /\ Runs(db, Reverts)
  BY DEF MigrationsRun
<1>1. files \in Seq(Migrations) /\ Len(files) \in Nat /\ TypeInv /\ db \in States /\ Chain(files)
  BY DEF FlowInv, TypeInv, ChainInv
<1>2. PICK k \in 0..Len(files) :
        /\ Applied = SubSeq(files, 1, k) /\ Pending = SubSeq(files, k + 1, Len(files))
        /\ Idempotent \/ db = Stage(files, k)
        /\ Covers(db, Stage(files, k))
  BY AppliedStage
<1>3. \A i \in 0..Len(files) : Stage(files, i) \in States
  BY <1>1, StageFacts
<1>4. \A i \in DOMAIN files :
        /\ i \in Nat /\ i - 1 \in 0..Len(files) /\ files[i] \in Migrations
        /\ Follows(Stage(files, i - 1), files[i])
        /\ Stage(files, i) = After(Stage(files, i - 1), files[i])
  <2> TAKE i \in DOMAIN files
  <2>1. PICK j \in 0..Len(files) : j = i - 1 /\ j + 1 = i
    <3>1. i - 1 \in 0..Len(files) /\ (i - 1) + 1 = i
      BY <1>1
    <3> QED BY <3>1
  <2>2. Stage(files, i) = After(Stage(files, j), files[i]) /\ files[i] \in Migrations
    BY <1>1, <2>1, StageFacts
  <2> QED BY <1>1, <2>1, <2>2 DEF Chain
<1>5. Runs(db, Pending)
  <2> DEFINE stages == [i \in 0..Len(Pending) |-> Stage(files, k + i)]
  <2>1. Pending \in Seq(Migrations) /\ Len(Pending) = Len(files) - k /\ k \in Nat
    BY <1>1, <1>2
  <2>2. \A i \in 0..Len(Pending) : k + i \in 0..Len(files)
    BY <1>1, <2>1
  <2>3. stages \in [0..Len(Pending) -> States]
    BY <1>3, <2>2
  <2>4. ASSUME NEW i \in DOMAIN Pending
        PROVE  Follows(stages[i - 1], Pending[i]) /\ stages[i] = After(stages[i - 1], Pending[i])
    <3>1. /\ k + i \in DOMAIN files /\ Pending[i] = files[k + i] /\ k + (i - 1) = (k + i) - 1
          /\ i \in 0..Len(Pending) /\ i - 1 \in 0..Len(Pending)
      BY <1>1, <1>2, <2>1
    <3>2. stages[i] = Stage(files, k + i) /\ stages[i - 1] = Stage(files, (k + i) - 1)
      BY <3>1
    <3> QED BY <1>4, <3>1, <3>2
  <2>5. stages[0] = Stage(files, k)
    BY <2>1
  <2> HIDE DEF stages
  <2> QED BY <1>1, <1>2, <2>1, <2>3, <2>4, <2>5, RunsAlong
<1>6. Runs(db, Reverts)
  <2> DEFINE stages == [i \in 0..Len(Reverts) |-> Stage(files, k - i)]
  <2>1. Len(Applied) = k /\ DOMAIN Applied = 1..k /\ k \in Nat /\ \A i \in 1..k : Applied[i] = files[i] /\ i \in DOMAIN files
    BY <1>1, <1>2
  <2>2. Reverts = [i \in 1..k |-> Inverted(files[k - i + 1])]
    <3> DEFINE fs == [i \in DOMAIN Applied |-> Inverted(Applied[i])]
    <3>1. fs = [i \in 1..k |-> Inverted(files[i])]
      BY <2>1
    <3>2. \A i \in 1..k : Inverted(files[i]) \in Migrations
      BY <1>4, <2>1, InvertedType
    <3>3. fs \in Seq(Migrations) /\ Len(fs) = k
      BY <2>1, <3>1, <3>2
    <3> HIDE DEF fs
    <3>4. Reverse(fs) = [i \in 1..k |-> fs[(k - i) + 1]]
      BY <3>3 DEF Reverse
    <3>5. \A i \in 1..k : (k - i) + 1 \in 1..k
      BY <2>1
    <3>6. Reverse(fs) = [i \in 1..k |-> Inverted(files[(k - i) + 1])]
      BY <3>1, <3>4, <3>5
    <3> QED BY <3>6 DEF Reverts, fs
  <2>3. Reverts \in Seq(Migrations) /\ Len(Reverts) = k
    <3>1. \A i \in 1..k : Inverted(files[k - i + 1]) \in Migrations
      BY <1>4, <2>1, InvertedType
    <3> QED BY <2>1, <2>2, <3>1
  <2>4. stages \in [0..Len(Reverts) -> States]
    <3>1. \A i \in 0..k : k - i \in 0..Len(files)
      BY <1>1, <2>1
    <3> QED BY <1>3, <2>3, <3>1
  <2>5. ASSUME NEW i \in DOMAIN Reverts
        PROVE  Follows(stages[i - 1], Reverts[i]) /\ stages[i] = After(stages[i - 1], Reverts[i])
    <3>1. PICK j \in DOMAIN files : j = (k - i) + 1 /\ j = k - (i - 1) /\ j - 1 = k - i
      <4>1. i \in 1..k
        BY <2>3
      <4>2. (k - i) + 1 \in DOMAIN files /\ (k - i) + 1 = k - (i - 1) /\ ((k - i) + 1) - 1 = k - i
        BY <1>1, <2>1, <4>1
      <4> QED BY <4>2
    <3>2. Reverts[i] = Inverted(files[j]) /\ i \in 0..k /\ i - 1 \in 0..k
      <4>1. i \in 1..k
        BY <2>3
      <4>2. Reverts[i] = Inverted(files[k - i + 1])
        BY <2>2, <4>1
      <4>3. k - i + 1 = j
        BY <3>1
      <4>4. Reverts[i] = Inverted(files[j])
        BY <4>2, <4>3, Zenon
      <4>5. i \in 0..k /\ i - 1 \in 0..k
        BY <2>1, <4>1
      <4> QED BY <4>4, <4>5
    <3>3. stages[i] = Stage(files, j - 1) /\ stages[i - 1] = Stage(files, j)
      BY <2>3, <3>1, <3>2
    <3>4. /\ files[j] \in Migrations /\ Stage(files, j - 1) \in States
          /\ Follows(Stage(files, j - 1), files[j])
          /\ Stage(files, j) = After(Stage(files, j - 1), files[j])
      BY <1>3, <1>4
    <3> QED BY <3>2, <3>3, <3>4, ThereAndBack
  <2>6. stages[0] = Stage(files, k)
    BY <2>1, <2>3
  <2> HIDE DEF stages
  <2> QED BY <1>1, <1>2, <2>3, <2>4, <2>5, <2>6, RunsAlong
<1> QED BY <1>5, <1>6

(* The migrations the database has to run, it accepts.                      *)
THEOREM MigrationsAreAccepted ==
  ASSUME WholeSchema
  PROVE  Spec => []MigrationsRun
<1>1. FlowInv /\ DatabaseInv => MigrationsRun
  BY MigrationsRunHolds
<1>2. Spec => [](FlowInv /\ DatabaseInv)
  BY DatabaseInvariance
<1> QED BY <1>1, <1>2, PTL

=============================================================================
