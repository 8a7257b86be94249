-------------------------- MODULE MigrationRunner --------------------------
(***************************************************************************)
(* The migration runner of the CLI: `schemic migrate`, `schemic rollback`  *)
(* and `schemic unlock` (packages/cli/src/cli/migrate.ts) over the         *)
(* migration store of a driver (drivers/surrealdb/src/driver/surreal.ts,   *)
(* drivers/postgres/src/driver.ts).                                        *)
(*                                                                         *)
(* Several CLI processes work on one database and one migrations           *)
(* directory.  A run lists the directory, reads the applied records,       *)
(* computes what it will do, and only THEN inserts the lock row; it keeps  *)
(* the plan it computed before it had the lock.  A process may crash at    *)
(* any point, and an operator may delete the lock row at any time.         *)
(*                                                                         *)
(* Migrations are numbered by the order of their file names.  Each one     *)
(* redefines the same schema object: migration t takes it from state t-1   *)
(* to state t, and its down script takes it back to t-1.  That is the      *)
(* generator's output when every migration touches one table, the case in  *)
(* which an order mistake shows.                                           *)
(***************************************************************************)
EXTENDS Naturals, FiniteSets

CONSTANTS
  Runners,      (* CLI processes that may run against the database          *)
  NoOne,        (* no lock row                                              *)
  MaxTag,       (* how many migration files may ever be generated           *)
  MayDelete,    (* migration files may be deleted from the directory        *)
  AbortSticks   (* a failed transaction leaves the session unusable, so the *)
                (* unlock of that run fails too (the Postgres store)        *)

ASSUME RunnersAssumption == NoOne \notin Runners
ASSUME BoundAssumption == MaxTag \in Nat /\ MayDelete \in BOOLEAN /\ AbortSticks \in BOOLEAN

VARIABLES
  files,     (* the migrations directory: the tags that have a file         *)
  born,      (* how many migration files were ever generated                *)
  rec,       (* the tracking table: the tags recorded as applied            *)
  schema,    (* the state of the schema object in the database              *)
  lock,      (* who inserted the lock row; the code sees only that it exists*)
  pc,        (* where each process is                                       *)
  direction, (* what it runs: "up" (migrate) or "down" (rollback)           *)
  listing,   (* the directory as it listed it                               *)
  todo,      (* the migrations it still has to apply                        *)
  aborted,   (* its session is in an aborted transaction                    *)
  (* history variables, read by the properties only                         *)
  fresh,     (* processes whose listing and plan no other run has outdated  *)
  disturbed, (* an outdated plan was executed, or a file was deleted        *)
  misused,   (* the lock row of a live run was deleted by `unlock`          *)
  crashed    (* a run died between its lock and its unlock, or its session  *)
             (* did, and the row was not cleared since                      *)

store == <<files, born, rec, schema>>
ghosts == <<fresh, disturbed, misused, crashed>>
vars == <<files, born, rec, schema, lock, pc, direction, listing, todo, aborted,
          fresh, disturbed, misused, crashed>>

Tags == 1..MaxTag

-----------------------------------------------------------------------------
(* The plans of `migrate` and `rollback`.                                    *)

(* The first and the last n members of S in file-name order.                *)
FirstN(S, n) == {t \in S : Cardinality({u \in S : u < t}) < n}
LastN(S, n)  == {t \in S : Cardinality({u \in S : u > t}) < n}

(* `--to` and `count` as the CLI passes them: 0 stands for an option that   *)
(* was not given (a given count is clamped to at least 1).                  *)
NotGiven == 0

(* What `migrate` applies: the unrecorded files, cut at `--to` and `count`. *)
UpPlan(list, applied, to, count) ==
  LET pending == {t \in list \ applied : to # NotGiven => t <= to}
  IN  IF count = NotGiven THEN pending ELSE FirstN(pending, count)

(* Mutant of DownPlan: the slice is taken from the wrong end.               *)
DownPlan_OldestFirst(list, applied, to, count) ==
  IF to # NotGiven
  THEN {t \in list \cap applied : t > to}
  ELSE FirstN(list \cap applied, IF count = NotGiven THEN 1 ELSE count)

(* What `rollback` reverts: everything after `--to`, or the last `count`    *)
(* (one by default) of the recorded migrations that still have a file.      *)
DownPlan(list, applied, to, count) ==
  IF to # NotGiven
  THEN {t \in list \cap applied : t > to}
  ELSE LastN(list \cap applied, IF count = NotGiven THEN 1 ELSE count)

(* Mutant of IsNext: `rollback` forgets to reverse its list.                *)
IsNext_NotReversed(r, t) == t \in todo[r] /\ \A u \in todo[r] : t <= u

(* A run takes its migrations one by one: `up` ascending, `down` descending.*)
IsNext(r, t) ==
  /\ t \in todo[r]
  /\ \A u \in todo[r] : IF direction[r] = "up" THEN t <= u ELSE u <= t

-----------------------------------------------------------------------------
Init ==
  /\ files = {}
  /\ born = 0
  /\ rec = {}
  /\ schema = 0
  /\ lock = NoOne
  /\ pc = [r \in Runners |-> "idle"]
  /\ direction = [r \in Runners |-> "up"]
  /\ listing = [r \in Runners |-> {}]
  /\ todo = [r \in Runners |-> {}]
  /\ aborted = [r \in Runners |-> FALSE]
  /\ fresh = {}
  /\ disturbed = FALSE
  /\ misused = FALSE
  /\ crashed = FALSE

(* The process of r ends: its memory is gone.                               *)
Exit(r) ==
  /\ pc' = [pc EXCEPT ![r] = "idle"]
  /\ listing' = [listing EXCEPT ![r] = {}]
  /\ todo' = [todo EXCEPT ![r] = {}]
  /\ aborted' = [aborted EXCEPT ![r] = FALSE]
  /\ direction' = [direction EXCEPT ![r] = "up"]

(* `schemic gen` writes one more migration file, the newest by its          *)
(* timestamp.                                                               *)
Generate ==
  /\ born < MaxTag
  /\ born' = born + 1
  /\ files' = files \cup {born + 1}
  /\ UNCHANGED <<rec, schema, lock, pc, direction, listing, todo, aborted, ghosts>>

(* A migration file disappears: another checkout, `gen --baseline`.         *)
Delete(t) ==
  /\ MayDelete
  /\ t \in files
  /\ files' = files \ {t}
  /\ disturbed' = TRUE
  /\ UNCHANGED <<born, rec, schema, lock, pc, direction, listing, todo, aborted,
                 fresh, misused, crashed>>

(* The start of a run: the tracking table is ensured and the directory is   *)
(* listed.                                                                  *)
List(r, d) ==
  /\ pc[r] = "idle"
  /\ pc' = [pc EXCEPT ![r] = "listed"]
  /\ direction' = [direction EXCEPT ![r] = d]
  /\ listing' = [listing EXCEPT ![r] = files]
  /\ fresh' = fresh \cup {r}
  /\ UNCHANGED <<store, lock, todo, aborted, disturbed, misused, crashed>>

(* The applied records are read and the plan is computed from them.         *)
Plan(r, to, count) ==
  /\ pc[r] = "listed"
  /\ to # NotGiven => to \in listing[r]
  /\ pc' = [pc EXCEPT ![r] = "planned"]
  /\ todo' = [todo EXCEPT ![r] =
       IF direction[r] = "up"
       THEN UpPlan(listing[r], rec, to, count)
       ELSE DownPlan(listing[r], rec, to, count)]
  /\ UNCHANGED <<store, lock, direction, listing, aborted, ghosts>>

(* `--to` names no listed migration: the run ends with "Unknown migration". *)
UnknownTag(r, to) ==
  /\ pc[r] = "listed"
  /\ to # NotGiven
  /\ to \notin listing[r]
  /\ Exit(r)
  /\ UNCHANGED <<store, lock, ghosts>>

(* Mutant of Acquire: the insert does not fail on an existing row.          *)
Acquire_Upsert(r) ==
  /\ pc[r] = "planned"
  /\ lock' = r
  /\ pc' = [pc EXCEPT ![r] = "holding"]
  /\ UNCHANGED <<store, direction, listing, todo, aborted, ghosts>>

(* The lock row is inserted...                                              *)
Acquire(r) ==
  /\ pc[r] = "planned"
  /\ lock = NoOne
  /\ lock' = r
  /\ pc' = [pc EXCEPT ![r] = "holding"]
  /\ UNCHANGED <<store, direction, listing, todo, aborted, ghosts>>

(* Mutant of Refused: a held lock is waited for instead.                    *)
Refused_Waits(r) == FALSE

(* ...or it exists already and the run ends with "Migrations are locked".   *)
Refused(r) ==
  /\ pc[r] = "planned"
  /\ lock # NoOne
  /\ Exit(r)
  /\ UNCHANGED <<store, lock, ghosts>>

(* What the history variables note when r changes the migration history:    *)
(* every other run's plan is outdated, and r's own may have been.           *)
Outdates(r) ==
  /\ fresh' = fresh \cap {r}
  /\ disturbed' = (disturbed \/ r \notin fresh)
  /\ UNCHANGED <<misused, crashed>>

(* The next migration's `up` script and its record, in one transaction.     *)
(* Inserting a record that exists aborts it (see Fail).                     *)
ApplyUp(r, t) ==
  /\ pc[r] = "holding"
  /\ direction[r] = "up"
  /\ IsNext(r, t)
  /\ t \in files
  /\ t \notin rec
  /\ rec' = rec \cup {t}
  /\ schema' = t
  /\ todo' = [todo EXCEPT ![r] = @ \ {t}]
  /\ Outdates(r)
  /\ UNCHANGED <<files, born, lock, pc, direction, listing, aborted>>

(* The next migration's `down` script and the deletion of its record, in    *)
(* one transaction.  Deleting a record that is not there does not fail.     *)
ApplyDown(r, t) ==
  /\ pc[r] = "holding"
  /\ direction[r] = "down"
  /\ IsNext(r, t)
  /\ t \in files
  /\ rec' = rec \ {t}
  /\ schema' = t - 1
  /\ todo' = [todo EXCEPT ![r] = @ \ {t}]
  /\ Outdates(r)
  /\ UNCHANGED <<files, born, lock, pc, direction, listing, aborted>>

(* The next migration fails and nothing of it is kept: its file is gone, or *)
(* the transaction aborts (a record that exists, a statement the data       *)
(* refuses).                                                                *)
Fail(r, t) ==
  /\ pc[r] = "holding"
  /\ IsNext(r, t)
  /\ pc' = [pc EXCEPT ![r] = "failed"]
  /\ aborted' = [aborted EXCEPT ![r] = AbortSticks /\ t \in files]
  /\ UNCHANGED <<store, lock, direction, listing, todo, ghosts>>

(* Mutant of Release: only a run that succeeded unlocks.                    *)
Release_OnSuccess(r) ==
  /\ \/ pc[r] = "holding" /\ todo[r] = {} /\ lock' = NoOne
     \/ pc[r] = "failed" /\ UNCHANGED lock
  /\ Exit(r)
  /\ UNCHANGED <<store, ghosts>>

(* The `finally` of a run: the lock row is deleted, whoever inserted it; on *)
(* an aborted session the deletion fails.                                   *)
Release(r) ==
  /\ \/ pc[r] = "holding" /\ todo[r] = {}
     \/ pc[r] = "failed"
  /\ lock' = IF aborted[r] THEN lock ELSE NoOne
  /\ crashed' = (crashed \/ aborted[r])
  /\ Exit(r)
  /\ UNCHANGED <<store, fresh, disturbed, misused>>

(* A run that has inserted the lock row and not yet deleted it.             *)
InRun(r) == pc[r] \in {"holding", "failed"}

(* The process dies: what it had committed stays, the lock row too.         *)
Crash(r) ==
  /\ pc[r] # "idle"
  /\ Exit(r)
  /\ crashed' = (crashed \/ InRun(r))
  /\ UNCHANGED <<store, lock, fresh, disturbed, misused>>

(* `schemic unlock`: the operator deletes the lock row.                     *)
Unlock ==
  /\ lock' = NoOne
  /\ misused' = (misused \/ \E r \in Runners : InRun(r))
  /\ crashed' = FALSE
  /\ UNCHANGED <<store, pc, direction, listing, todo, aborted, fresh, disturbed>>

-----------------------------------------------------------------------------
(* The steps a started run takes by itself.                                 *)
Step(r) ==
  \/ \E to, count \in 0..MaxTag : Plan(r, to, count)
  \/ \E to \in Tags : UnknownTag(r, to)
  \/ Acquire(r)
  \/ Refused(r)
  \/ \E t \in Tags : ApplyUp(r, t) \/ ApplyDown(r, t) \/ Fail(r, t)
  \/ Release(r)

Next ==
  \/ Generate
  \/ \E t \in Tags : Delete(t)
  \/ \E r \in Runners, d \in {"up", "down"} : List(r, d)
  \/ \E r \in Runners : Step(r) \/ Crash(r)
  \/ Unlock

Spec == Init /\ [][Next]_vars

(* The JavaScript runtime keeps running what it started: a started run takes*)
(* its next step unless its process dies.  Nothing makes a user start a run,*)
(* run `unlock` or generate a migration.                                    *)
FairSpec == Spec /\ \A r \in Runners : WF_vars(Step(r))

-----------------------------------------------------------------------------
(* Every variable has its type.                                             *)
TypeOK ==
  /\ files \subseteq Tags
  /\ born \in 0..MaxTag
  /\ rec \subseteq Tags
  /\ schema \in 0..MaxTag
  /\ lock \in Runners \cup {NoOne}
  /\ pc \in [Runners -> {"idle", "listed", "planned", "holding", "failed"}]
  /\ direction \in [Runners -> {"up", "down"}]
  /\ listing \in [Runners -> SUBSET Tags]
  /\ todo \in [Runners -> SUBSET Tags]
  /\ aborted \in [Runners -> BOOLEAN]
  /\ fresh \subseteq Runners
  /\ disturbed \in BOOLEAN
  /\ misused \in BOOLEAN
  /\ crashed \in BOOLEAN

(* The lock row keeps runs apart: unless an operator cleared the row of a   *)
(* live run, no two runs are between their lock and their unlock together,  *)
(* whatever crashes and whichever migration fails (migrate.ts, lock and     *)
(* the unlock in `finally`).                                                *)
MutualExclusion ==
  ~misused => \A r, s \in Runners : InRun(r) /\ InRun(s) => r = s

(* The records are the migrations 1..k in order with none skipped, and the  *)
(* schema object is in the state the last of them left it in.               *)
HistoryInOrder == rec = 1..schema

(* The history is in order as long as no run executed a plan that another   *)
(* run had outdated and no migration file vanished: computing the plan      *)
(* before the lock is the only way the runner itself can disorder it, and   *)
(* crashes, failed migrations and a misused unlock cannot.                  *)
OrderlyHistory == ~disturbed => HistoryInOrder

(* A lock row no live run inserted was left by a process that died, or by   *)
(* one whose session could not run the unlock: a run that ends, even by an  *)
(* error of its migration, has deleted its row (migrate.ts, `finally`).     *)
StaleLockMeansCrash == lock # NoOne => InRun(lock) \/ crashed

(* Every started run ends: it is never stuck waiting for the lock, nor on a *)
(* plan another run has outdated.                                           *)
EveryRunEnds == \A r \in Runners : pc[r] # "idle" ~> pc[r] = "idle"

(* The promise of the migration history the runner implements: with any     *)
(* number of processes, each step of the runner moves the head by one       *)
(* migration or leaves it, until a plan that was outdated is executed or a  *)
(* file vanishes.                                                           *)
History == INSTANCE MigrationHistory WITH recorded <- rec, head <- schema
OrderlySteps == [][~disturbed' => History!Next]_<<born, rec, schema>>
=============================================================================
