-------------------------- MODULE MigrationWorkflow --------------------------
(***************************************************************************)
(* What the commands of the CLI do to the four places a schema lives in:   *)
(* the schema files, the snapshot (meta/), the migration files, and the    *)
(* database with its table of applied migrations.  The commands are edit,  *)
(* `gen`, `gen --baseline`, `snapshot reset`, `migrate`, `rollback`, `pull *)
(* --write`, and `push` (packages/cli/src/cli/index.ts, migrate.ts); one   *)
(* runs at a time, and may die between two of its writes.                  *)
(*                                                                         *)
(* An object is a table (or an object without fields), and its definition  *)
(* is the set of its fields.  A migration is applied in one transaction    *)
(* with its record: MigrationRunner models how, and KindPlan why the       *)
(* statements of one migration take `from` to `to`.                        *)
(***************************************************************************)
EXTENDS Integers, FiniteSets, SequencesExt

CONSTANTS
  Objects,     (* top-level objects of the schema                           *)
  Fields,      (* per object: the fields it may have                        *)
  NoDef,       (* no definition                                             *)
  MaxFiles,    (* how many migration files may be generated                 *)
  GenFilters,  (* the sets of objects (--tables ...) that `gen` may be      *)
               (* restricted to,                                            *)
  SquashFilters, (* and `gen --baseline`,                                   *)
  PullFilters, (* and `pull`                                                *)
  PullModes,   (* "mirror" (no flag), "merge" or "discard"                  *)
  Prunes,      (* `push` with pruning, and with --no-prune                  *)
  Drivers,     (* what the driver of the project can do                     *)
  MayFail,     (* the schema files may fail to load, and what reconciles a  *)
               (* baseline with the database may fail                       *)
  MaxIncidents (* how many kinds of incident (a reset, a push, a change by  *)
               (* someone else, a crash) may happen                         *)

ASSUME ObjectsAssumption ==
  IsFiniteSet(Objects) /\ \A o \in Objects : \A d \in SUBSET Fields[o] : d # NoDef
ASSUME BoundAssumption == MaxFiles \in Nat /\ MaxIncidents \in Nat
ASSUME OptionsAssumption ==
  /\ GenFilters \cup SquashFilters \cup PullFilters \subseteq SUBSET Objects
  /\ PullModes \subseteq {"mirror", "merge", "discard"}
  /\ Drivers \subseteq [idempotent : BOOLEAN, live : BOOLEAN]
  /\ {MayFail} \cup Prunes \subseteq BOOLEAN

VARIABLES
  schema,     (* the schema files                                           *)
  snap,       (* the snapshot                                               *)
  files,      (* the migration files, in the order of their names           *)
  made,       (* how many were generated                                    *)
  db,         (* the database                                               *)
  applied,    (* the migrations recorded as applied                         *)
  pc,         (* the next write of the command that runs                    *)
  job,        (* what it carries from one write to the next                 *)
  driver,     (* the driver of the project                                  *)
  incidents   (* history variable, read by the properties only              *)

vars == <<driver, schema, snap, files, made, db, applied, pc, job, incidents>>

(* Migration files may define what exists already: DEFINE ... OVERWRITE of   *)
(* the SurrealDB driver.                                                     *)
Idempotent == driver.idempotent

(* The driver has diffLive, syncPlan and planPull.                           *)
Live == driver.live

Definitions(o) == (SUBSET Fields[o]) \cup {NoDef}

-----------------------------------------------------------------------------
(* Schema states.                                                            *)
Empty == [o \in Objects |-> NoDef]

(* The fields of an object that may not exist.                               *)
FieldsOf(d) == IF d = NoDef THEN {} ELSE d

Changed(a, b) == {o \in Objects : a[o] # b[o]}

(* s restricted to F (filterKinds).                                          *)
Only(F, s) == [o \in Objects |-> IF o \in F THEN s[o] ELSE NoDef]

(* Mutant of Merged: what the filter excludes is taken from the schema.      *)
Merged_All(F, p, n) == n

(* The snapshot after a filtered command: included objects are new, excluded *)
(* ones keep their state (mergeStored).                                      *)
Merged(F, p, n) == [o \in Objects |-> IF o \in F THEN n[o] ELSE p[o]]

-----------------------------------------------------------------------------
(* Migrations: the delta of the objects that change.                         *)
Migration(a, b, n) ==
  [id   |-> n,
   from |-> Only(Changed(a, b), a),
   to   |-> Only(Changed(a, b), b)]

Inverted(m) == [m EXCEPT !.from = m.to, !.to = m.from]

Touches(m) == Changed(m.from, m.to)

(* The database runs a migration: it may create what is there if the file    *)
(* says OVERWRITE, and drop what is not (IF EXISTS).                         *)
Accepts(s, m) == \A o \in Touches(m) :
  CASE m.to[o] = NoDef   -> TRUE
    [] m.from[o] = NoDef -> Idempotent \/ s[o] = NoDef
    [] OTHER             -> /\ s[o] # NoDef
                            /\ Idempotent \/ (m.to[o] \ m.from[o]) \cap s[o] = {}

After(s, m) == [o \in Objects |->
  IF o \notin Touches(m) THEN s[o]
  ELSE IF m.to[o] = NoDef THEN NoDef
  ELSE (FieldsOf(s[o]) \ (FieldsOf(m.from[o]) \ m.to[o])) \cup (m.to[o] \ FieldsOf(m.from[o]))]

Replayed == INSTANCE LeftFold WITH Step <- After

Replay(s, ms) == Replayed!Fold(s, ms)

IsApplied(m) == m.id \in applied

(* The migration files that are recorded as applied, and those that are not. *)
KeepApplied(kept, m) == IF IsApplied(m) THEN Append(kept, m) ELSE kept
KeepPending(kept, m) == IF IsApplied(m) THEN kept ELSE Append(kept, m)

Recorded == INSTANCE LeftFold WITH Step <- KeepApplied
Waiting  == INSTANCE LeftFold WITH Step <- KeepPending

Applied == Recorded!Fold(<<>>, files)

Pending == Waiting!Fold(<<>>, files)

-----------------------------------------------------------------------------
NoJob == [snap |-> Empty, then |-> "idle", filter |-> {}, mode |-> "none"]

Init ==
  /\ driver \in Drivers
  /\ schema = Empty
  /\ snap = Empty
  /\ files = <<>>
  /\ made = 0
  /\ db = Empty
  /\ applied = {}
  /\ pc = "idle"
  /\ job = NoJob
  /\ incidents = {}

(* There may be one more incident.                                           *)
MayHappen ==
  Cardinality(incidents \cap {"reset", "pushed", "drift", "raced", "torn"}) < MaxIncidents

Finished == pc' = "idle" /\ job' = NoJob

(* The user edits one object of the schema.                                  *)
Edit ==
  /\ pc = "idle"
  /\ \E o \in Objects : \E d \in Definitions(o) \ {schema[o]} :
       schema' = [schema EXCEPT ![o] = d]
  /\ UNCHANGED <<snap, files, made, db, applied, pc, job, incidents>>

(* Write the migration from a to b; its name sorts after every other.        *)
WriteFile(a, b) ==
  /\ Changed(a, b) # {}
  /\ made < MaxFiles
  /\ made' = made + 1
  /\ files' = Append(files, Migration(a, b, made + 1))

(* `gen`: the migration file, then the snapshot.                             *)
Gen(F) ==
  /\ pc = "idle"
  /\ WriteFile(Only(F, snap), Only(F, schema))
  /\ pc' = "snapshot"
  /\ job' = [NoJob EXCEPT !.snap = Merged(F, snap, schema)]
  /\ UNCHANGED <<schema, snap, db, applied, incidents>>

WriteSnapshot ==
  /\ pc = "snapshot"
  /\ snap' = job.snap
  /\ pc' = job.then
  /\ job' = IF job.then = "idle" THEN NoJob ELSE job
  /\ UNCHANGED <<schema, files, made, db, applied, incidents>>

(* `snapshot reset`.                                                         *)
Reset ==
  /\ MayHappen
  /\ pc = "idle"
  /\ snap' = Empty
  /\ incidents' = incidents \cup {"reset"}
  /\ UNCHANGED <<schema, files, made, db, applied, pc, job>>

-----------------------------------------------------------------------------
(* `gen --baseline`: delete the migration files, plan from nothing, write    *)
(* one migration and the snapshot, and record it when the database agrees.   *)
Squash(F) ==
  /\ pc = "idle"
  /\ files' = <<>>
  /\ pc' = "plan"
  /\ job' = [NoJob EXCEPT !.filter = F,
                          !.then = IF files = <<>> THEN "idle" ELSE "reconcile"]
  /\ UNCHANGED <<schema, snap, made, db, applied, incidents>>

WriteBaseline ==
  /\ pc = "plan"
  /\ WriteFile(Empty, Only(job.filter, schema))
  /\ pc' = "snapshot"
  /\ job' = [job EXCEPT !.snap = Merged(job.filter, Empty, schema)]
  /\ UNCHANGED <<schema, snap, db, applied, incidents>>

(* There is nothing to generate, or the schema does not load.                *)
NoBaseline ==
  /\ pc = "plan"
  /\ MayFail \/ Only(job.filter, schema) = Empty
  /\ Finished
  /\ incidents' = incidents \cup {"cleared"}
  /\ UNCHANGED <<schema, snap, files, made, db, applied>>

(* The database differs from the schema (diffLive).                          *)
Drifted(F) == Only(F, schema) # Only(F, db)

(* The baseline is left pending, also when the comparison or a call of the   *)
(* store fails, before or after the records are cleared.                     *)
LeavePending ==
  /\ \/ pc = "reconcile" /\ (~Live \/ Drifted(job.filter) \/ MayFail)
     \/ pc = "record" /\ job.then = "reconcile" /\ MayFail
  /\ Finished
  /\ incidents' = incidents \cup {"squashed"}
  /\ UNCHANGED <<schema, snap, files, made, db, applied>>

ClearRecords ==
  /\ pc = "reconcile"
  /\ Live /\ ~Drifted(job.filter)
  /\ applied' = {}
  /\ pc' = "record"
  /\ UNCHANGED <<schema, snap, files, made, db, job, incidents>>

(* Record the migration that was just written, without running it.           *)
Record ==
  /\ pc = "record"
  /\ applied' = applied \cup {made}
  /\ Finished
  /\ UNCHANGED <<schema, snap, files, made, db, incidents>>

-----------------------------------------------------------------------------
(* Mutants of Migrate and Rollback: the record is not written; the first     *)
(* applied migration is reverted.                                            *)
Migrate_NoRecord ==
  /\ pc = "idle"
  /\ Pending # <<>>
  /\ Accepts(db, Head(Pending))
  /\ db' = After(db, Head(Pending))
  /\ UNCHANGED <<schema, snap, files, made, applied, pc, job, incidents>>

Rollback_First ==
  /\ pc = "idle"
  /\ Applied # <<>>
  /\ Accepts(db, Inverted(Head(Applied)))
  /\ db' = After(db, Inverted(Head(Applied)))
  /\ applied' = applied \ {Head(Applied).id}
  /\ UNCHANGED <<schema, snap, files, made, pc, job, incidents>>

(* `migrate` applies the first pending migration, `rollback` reverts the     *)
(* last applied one.                                                         *)
Migrate ==
  /\ pc = "idle"
  /\ Pending # <<>>
  /\ Accepts(db, Head(Pending))
  /\ db' = After(db, Head(Pending))
  /\ applied' = applied \cup {Head(Pending).id}
  /\ UNCHANGED <<schema, snap, files, made, pc, job, incidents>>

Rollback ==
  /\ pc = "idle"
  /\ Applied # <<>>
  /\ Accepts(db, Inverted(Last(Applied)))
  /\ db' = After(db, Inverted(Last(Applied)))
  /\ applied' = applied \ {Last(Applied).id}
  /\ UNCHANGED <<schema, snap, files, made, pc, job, incidents>>

-----------------------------------------------------------------------------
(* What `pull` writes to the schema files.  An object the introspection      *)
(* returned is merged into its file; the file of any other object (missing   *)
(* from the database, or excluded by the filter) is local-only, and deleted  *)
(* unless it is kept (planPull).                                             *)
Found(F) == {o \in F : db[o] # NoDef}

Pulled(F, mode) == [o \in Objects |->
  IF mode = "merge"
  THEN IF o \in Found(F) THEN db[o] \cup FieldsOf(schema[o]) ELSE schema[o]
  ELSE IF o \in Found(F) THEN db[o] ELSE NoDef]

(* Local-only schema that the pull would drop.                               *)
AtRisk(F) == {o \in Objects :
  IF o \in Found(F) THEN FieldsOf(schema[o]) \ db[o] # {} ELSE schema[o] # NoDef}

(* Mutant of Pull: the guard on local-only schema is gone.                   *)
Pull_Unguarded(F, mode) ==
  /\ Live
  /\ pc = "idle"
  /\ Pulled(F, mode) # schema
  /\ schema' = Pulled(F, mode)
  /\ pc' = "baseline"
  /\ job' = [NoJob EXCEPT !.mode = mode, !.filter = F]
  /\ incidents' = incidents \cup (IF Pending # <<>> THEN {"mixed"} ELSE {})
  /\ UNCHANGED <<snap, files, made, db, applied>>

(* `pull --write` ends at once when there is nothing to change, and refuses  *)
(* to drop local-only schema without --discard.                              *)
Pull(F, mode) ==
  /\ Live
  /\ pc = "idle"
  /\ Pulled(F, mode) # schema
  /\ mode = "mirror" => AtRisk(F) = {}
  /\ schema' = Pulled(F, mode)
  /\ pc' = "baseline"
  /\ job' = [NoJob EXCEPT !.mode = mode, !.filter = F]
  /\ incidents' = incidents \cup (IF Pending # <<>> THEN {"mixed"} ELSE {})
  /\ UNCHANGED <<snap, files, made, db, applied>>

(* The objects of the schema that the database has (intersectKinds); `pull`  *)
(* does not pass its filter on.                                              *)
InDatabase == [o \in Objects |-> IF db[o] # NoDef THEN schema[o] ELSE NoDef]

(* Mutant of Baseline: the snapshot is not advanced.                         *)
Baseline_OldSnapshot ==
  /\ pc = "baseline"
  /\ WriteFile(snap, InDatabase)
  /\ pc' = "snapshot"
  /\ job' = [job EXCEPT !.snap = snap, !.then = "record"]
  /\ UNCHANGED <<schema, snap, db, applied, incidents>>

(* The baseline of a pull: the delta of the snapshot as a migration, then    *)
(* the snapshot, then the record.                                            *)
Baseline ==
  /\ pc = "baseline"
  /\ WriteFile(snap, InDatabase)
  /\ pc' = "snapshot"
  /\ job' = [job EXCEPT !.snap = InDatabase, !.then = "record"]
  /\ UNCHANGED <<schema, snap, db, applied, incidents>>

BaselineUnchanged ==
  /\ pc = "baseline"
  /\ snap = InDatabase
  /\ Finished
  /\ UNCHANGED <<schema, snap, files, made, db, applied, incidents>>

(* `push`: the database becomes the schema; --no-prune drops nothing.        *)
Push(prune) ==
  /\ Live
  /\ pc = "idle"
  /\ db # schema
  /\ MayHappen
  /\ db' = [o \in Objects |->
       IF prune THEN schema[o]
       ELSE IF schema[o] = NoDef THEN db[o]
       ELSE schema[o] \cup FieldsOf(db[o])]
  /\ incidents' = incidents \cup {"pushed"}
  /\ UNCHANGED <<schema, snap, files, made, applied, pc, job>>

-----------------------------------------------------------------------------
(* Someone else changes the database, perhaps while a command runs: `pull`   *)
(* reads it again for its baseline.                                          *)
Drift ==
  /\ MayHappen
  /\ \E o \in Objects : \E d \in Definitions(o) \ {db[o]} : db' = [db EXCEPT ![o] = d]
  /\ incidents' = incidents \cup {IF pc = "idle" THEN "drift" ELSE "raced"}
  /\ UNCHANGED <<schema, snap, files, made, applied, pc, job>>

(* The command dies between two writes.                                      *)
Crash ==
  /\ MayHappen
  /\ pc # "idle"
  /\ Finished
  /\ incidents' = incidents \cup {"torn"} \cup (IF pc = "plan" THEN {"cleared"} ELSE {})
  /\ UNCHANGED <<schema, snap, files, made, db, applied>>

Command ==
  \/ Edit
  \/ \E F \in GenFilters : Gen(F)
  \/ WriteSnapshot
  \/ Reset
  \/ \E F \in SquashFilters : Squash(F)
  \/ WriteBaseline
  \/ NoBaseline
  \/ LeavePending
  \/ ClearRecords
  \/ Record
  \/ Migrate
  \/ Rollback
  \/ \E F \in PullFilters, mode \in PullModes : Pull(F, mode)
  \/ Baseline
  \/ BaselineUnchanged
  \/ \E prune \in Prunes : Push(prune)
  \/ Drift
  \/ Crash

Next == Command /\ UNCHANGED driver

Spec == Init /\ [][Next]_vars

-----------------------------------------------------------------------------
(* Replaying every migration file on an empty database gives the snapshot,  *)
(* the state the next `gen` diffs against (migrate.ts planMigration); and a *)
(* history of nothing but commands that ran to their end keeps the database *)
(* at the replay of the applied ones: with nothing pending, the snapshot.   *)
ReplayIsSnapshot ==
  pc = "idle" =>
    /\ incidents \cap {"torn", "reset", "cleared"} = {} => Replay(Empty, files) = snap
    /\ incidents = {} => db = Replay(Empty, Applied)

Runs(s, ms) == \A i \in DOMAIN ms : Accepts(Replay(s, SubSeq(ms, 1, i - 1)), ms[i])

Reverts == Reverse([i \in DOMAIN Applied |-> Inverted(Applied[i])])

(* The database accepts the pending migrations in order, and takes the      *)
(* applied ones back in reverse; files that say OVERWRITE do so when a      *)
(* squash left its baseline pending, too (renderMigration).                 *)
MigrationsRun ==
  pc = "idle" /\ incidents \subseteq (IF Idempotent THEN {"squashed"} ELSE {}) =>
    Runs(db, Pending) /\ Runs(db, Reverts)

(* What the user wrote and the database lacks is never forgotten: `gen` or  *)
(* `migrate` still has it to do.                                            *)
EditStaysPending ==
  pc = "idle" /\ incidents = {} => \A o \in Changed(schema, db) :
    schema[o] # snap[o] \/ \E i \in DOMAIN Pending : o \in Touches(Pending[i])

(* A pull of everything that keeps nothing local ends with the schema files,*)
(* the snapshot and the replay of the recorded migrations all equal to the  *)
(* database, whatever had been done to it before and if all was applied,    *)
(* unless it changed meanwhile (index.ts pullPass: "so the schema matches   *)
(* the DB").                                                                *)
PullResyncs ==
  [][ /\ pc = "record" /\ applied' # applied
      /\ job.mode \in {"mirror", "discard"} /\ job.filter = Objects /\ "raced" \notin incidents
      => /\ schema' = db' /\ snap' = db'
         /\ incidents \subseteq {"drift", "pushed"} => (Replay(Empty, Applied) = db)'
    ]_vars

(* `pull` takes no definition of the user without --discard (the "commit or *)
(* stash" guard of pullPass), and no other command takes any.               *)
NothingIsLost ==
  [][ pc' # pc => job'.mode = "discard" \/
        \A o \in Objects : FieldsOf(schema[o]) \subseteq FieldsOf(schema'[o]) ]_vars

(* A pull deletes the definition of an object only if the database does not *)
(* have it ("whole file removed - ... not in the database").                *)
DiscardsOnlyLocal ==
  [][ pc = "idle" /\ pc' = "baseline" =>
        \A o \in Objects : schema[o] # NoDef /\ schema'[o] = NoDef => db[o] = NoDef ]_vars

=============================================================================
