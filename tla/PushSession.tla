----------------------------- MODULE PushSession -----------------------------
(***************************************************************************)
(* `push --watch` next to a `check` on the same server: the task of        *)
(* watchLoop is a push (packages/cli/src/cli/index.ts), which reads the    *)
(* live database, loads the schema, takes it through the scratch database  *)
(* (diffAgainstDb and applyToShadow of drivers/surrealdb/src/cli/          *)
(* introspect.ts) and applies the difference.                              *)
(*                                                                         *)
(* Composes WatchLoop (when a task runs and what it loads) and CheckReplay *)
(* (the other user of the scratch database).                               *)
(***************************************************************************)
EXTENDS WatchLoop, CheckReplay

(* No file is called as the token for a database that is not there.          *)
ASSUME NamesAssumption == "no database" \notin Files

VARIABLES
  step,      (* how far the running task is                                  *)
  using,     (* the database the session has selected: "main" or "shadow"    *)
  live,      (* the objects of the live database                             *)
  target,    (* the live database as the task read it                        *)
  desired,   (* the schema as the task read it back from the scratch database*)
  pushMixed  (* `check` used the scratch database while the task did         *)

pushVars == <<step, using, live, target, desired, pushMixed>>
allVars == <<vars, checkVars, pushVars>>

-----------------------------------------------------------------------------
(* The objects of the schema files.                                          *)
Schema(version) == {<<f, version[f]>> : f \in Files}

PushInShadow == step \in {"define", "fill", "read", "drop", "unwind"}
CheckInShadow == engine = "remote" /\ cpc \in {"define", "fill", "read", "drop"}

SessionInit ==
  /\ Init /\ CheckInit
  /\ step = "look" /\ using = "main"
  /\ live = {} /\ target = {} /\ desired = {} /\ pushMixed = FALSE

(* The parts of WatchLoop.  A task that starts begins with the database.     *)
SFires ==
  /\ TimerFires
  /\ step' = IF tasks = 0 THEN "look" ELSE step
  /\ UNCHANGED <<checkVars, using, live, target, desired, pushMixed>>

SLoad ==
  /\ step = "load"
  /\ \E f \in Files : Load(f)
  /\ UNCHANGED <<checkVars, pushVars>>

(* A schema that does not load, and every error of a statement, end the task.*)
Ends(err) ==
  /\ Finish(err)
  /\ step' = IF queued THEN "look" ELSE "idle"
  /\ target' = {} /\ desired' = {}

(* Mutant of SFails: the scratch database stays when its definitions fail.   *)
SFails_NoFinally ==
  /\ \/ step \in {"look", "load", "apply"}
     \/ step = "define" /\ (shadow # NoDb \/ stopped)
     \/ step = "unwind"
  /\ Ends(TRUE)
  /\ using' = (IF step = "unwind" /\ ~stopped THEN "main" ELSE using)
  /\ UNCHANGED shadow
  /\ checkMixed' = (checkMixed \/ CheckInShadow)
  /\ UNCHANGED <<cpc, engine, replayed, scratch, seen, verdict, code, process,
                 live, pushMixed>>

(* An error of the load or of a statement; the `finally` runs.               *)
SFails ==
  /\ \/ step \in {"look", "load", "apply"}
     \/ step = "define" /\ (shadow # NoDb \/ stopped)
     \/ step = "unwind"
  /\ Ends(TRUE)
  /\ IF step = "unwind" /\ ~stopped THEN shadow' = NoDb /\ using' = "main"
                                     ELSE UNCHANGED <<shadow, using>>
  /\ checkMixed' = (checkMixed \/ CheckInShadow)
  /\ UNCHANGED <<cpc, engine, replayed, scratch, seen, verdict, code, process,
                 live, pushMixed>>

SWatch == (Notified \/ Stop \/ \E f \in Files : Edit(f)) /\ UNCHANGED <<checkVars, pushVars>>

-----------------------------------------------------------------------------
(* A statement of the task on the server; after SIGINT the connection is     *)
(* closed.                                                                   *)
OnServer(from, to) ==
  /\ step = from /\ ~stopped
  /\ step' = to
  /\ UNCHANGED vars
  /\ checkMixed' = (checkMixed \/ (CheckInShadow /\ from # "look"))
  /\ UNCHANGED <<cpc, engine, replayed, scratch, seen, verdict, code, process>>

(* introspect: INFO of the database the session has selected.                *)
Look ==
  /\ OnServer("look", "load")
  /\ target' = IF using = "main" THEN live ELSE Content(shadow)
  /\ UNCHANGED <<shadow, using, live, desired, pushMixed>>

Remove ==
  /\ unread = {}
  /\ OnServer("load", "define")
  /\ shadow' = NoDb
  /\ pushMixed' = FALSE
  /\ UNCHANGED <<using, live, target, desired>>

Define ==
  /\ shadow = NoDb
  /\ OnServer("define", "fill")
  /\ shadow' = {}
  /\ UNCHANGED <<using, live, target, desired, pushMixed>>

(* use(shadow), BEGIN, the definitions, COMMIT; or one of them is refused.   *)
Fill ==
  /\ \/ OnServer("fill", "read") /\ shadow' = Content(shadow) \cup Schema(read)
     \/ OnServer("fill", "unwind") /\ UNCHANGED shadow
  /\ using' = "shadow"
  /\ UNCHANGED <<live, target, desired, pushMixed>>

ReadBack ==
  /\ \/ OnServer("read", "drop") /\ desired' = Content(shadow)
     \/ OnServer("read", "unwind") /\ shadow = NoDb /\ UNCHANGED desired
  /\ UNCHANGED <<shadow, using, live, target, pushMixed>>

(* Mutant of Drop: the session stays in the scratch database.                *)
Drop_StaysThere ==
  /\ OnServer("drop", "apply")
  /\ shadow' = NoDb
  /\ UNCHANGED <<using, live, target, desired, pushMixed>>

(* The `finally`: use(main), REMOVE DATABASE.                                *)
Drop ==
  /\ OnServer("drop", "apply")
  /\ shadow' = NoDb
  /\ using' = "main"
  /\ UNCHANGED <<live, target, desired, pushMixed>>

(* The statements that turn `target` into `desired`, in one transaction.     *)
Apply ==
  /\ OnServer("apply", "end")
  /\ live' = IF using = "main" THEN (live \ (target \ desired)) \cup (desired \ target) ELSE live
  /\ UNCHANGED <<shadow, using, target, desired, pushMixed>>

SEnd ==
  /\ step = "end"
  /\ Ends(FALSE)
  /\ UNCHANGED <<checkVars, using, live, pushMixed>>

(* With the connection closed the statement fails, those of the `finally`    *)
(* too.                                                                      *)
SClosed ==
  /\ stopped /\ step \in {"fill", "read", "drop"}
  /\ Ends(TRUE)
  /\ UNCHANGED <<checkVars, using, live, pushMixed>>

(* The other command.                                                        *)
Other(A) ==
  /\ A
  /\ pushMixed' = (pushMixed \/ (PushInShadow /\ shadow' # shadow))
  /\ UNCHANGED <<vars, step, using, live, target, desired>>

Task == Look \/ Remove \/ Define \/ Fill \/ ReadBack \/ Drop \/ Apply

SessionLoop ==
  \/ Notified /\ UNCHANGED <<checkVars, pushVars>>
  \/ SFires \/ SLoad \/ SFails \/ SEnd \/ SClosed \/ Task

SessionNext ==
  \/ SWatch \/ SFires \/ SLoad \/ SFails \/ SEnd \/ SClosed \/ Task
  \/ Other(CheckNext)

(* Callbacks that are due are called, statements are answered, and a process *)
(* told to end does.                                                         *)
SessionSpec ==
  /\ SessionInit /\ [][SessionNext]_allVars
  /\ WF_allVars(SessionLoop) /\ WF_allVars(Other(CheckStep))

-----------------------------------------------------------------------------
(* When the loop is quiet and its last task went well, the live database is  *)
(* the schema as it is on disk: no edit is lost, the scratch database does   *)
(* not leak into the live one nor the other way round, and what an earlier   *)
(* command left there does no harm.  Unless the task shared the scratch      *)
(* database with another command.                                            *)
LiveIsSchema ==
  Quiet /\ ~failed /\ ~stopped /\ ~pushMixed => live = Schema(disk)

(* When nobody is using it, the scratch database is gone, apart from what    *)
(* was there at the start, and so is the server a `check` has spawned;       *)
(* unless a command was ended in the middle.                                 *)
ScratchIsGone ==
  Quiet /\ ~stopped /\ ~interrupted /\ ~CheckInShadow /\ ~pushMixed /\ ~checkMixed =>
    shadow = NoDb \/ shadow = Leftover
NothingIsLeft == ScratchIsGone /\ ServerIsGone

(* Neither runs for ever: the watch loop comes to rest after the last edit,  *)
(* whatever the push it runs does, and every check ends.                     *)
BothEnd == ComesToRest /\ CheckEnds
=============================================================================
