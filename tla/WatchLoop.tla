----------------------------- MODULE WatchLoop -----------------------------
(***************************************************************************)
(* `diff --watch` and `push --watch`: watchLoop of                         *)
(* packages/cli/src/cli/index.ts.                                          *)
(*                                                                         *)
(* A watcher on the schema directory re-arms a debounce timer on each      *)
(* event; when the timer fires a task loads the schema, file by file, and  *)
(* acts on it.  Tasks do not overlap: a timer that fires during a task     *)
(* leaves a note, and the task's end starts the next one.  The files are   *)
(* edited while all of this goes on, also between two reads of one load.   *)
(***************************************************************************)
EXTENDS Naturals

CONSTANTS
  Files,     (* the schema files                                            *)
  MaxEdits   (* how often each file may be edited                           *)

ASSUME EditsAssumption == MaxEdits \in Nat

VARIABLES
  disk,      (* the version of each file on disk                            *)
  event,     (* an event of the watcher waits for its callback              *)
  timer,     (* the debounce timer is armed                                 *)
  tasks,     (* how many tasks run; the code's `running` is tasks > 0       *)
  queued,    (* another task is wanted after this one                       *)
  unread,    (* the files the running task has yet to load                  *)
  read,      (* the version of each file the last load saw                  *)
  failed,    (* the last task threw                                         *)
  stopped    (* SIGINT arrived: the watcher is closed, the timer cleared    *)

vars == <<disk, event, timer, tasks, queued, unread, read, failed, stopped>>

-----------------------------------------------------------------------------
(* Mutant of Fire: a wish for a task is dropped while one runs.             *)
Fire_Drops ==
  \/ tasks > 0 /\ UNCHANGED <<tasks, queued, unread, failed>>
  \/ tasks = 0 /\ tasks' = 1 /\ unread' = Files /\ failed' = FALSE /\ UNCHANGED queued

(* `fire`: start a task, or note that one is wanted.                        *)
Fire ==
  \/ tasks > 0 /\ queued' = TRUE /\ UNCHANGED <<tasks, unread, failed>>
  \/ tasks = 0 /\ tasks' = 1 /\ unread' = Files /\ failed' = FALSE /\ UNCHANGED queued

(* The loop runs a task once at its start.                                  *)
Init ==
  /\ disk = [f \in Files |-> 0]
  /\ event = FALSE
  /\ timer = FALSE
  /\ tasks = 1
  /\ queued = FALSE
  /\ unread = Files
  /\ read = [f \in Files |-> 0]
  /\ failed = FALSE
  /\ stopped = FALSE

(* A file is saved; a closed watcher reports nothing.                       *)
Edit(f) ==
  /\ disk[f] < MaxEdits
  /\ disk' = [disk EXCEPT ![f] = @ + 1]
  /\ event' = ~stopped
  /\ UNCHANGED <<timer, tasks, queued, unread, read, failed, stopped>>

(* The watcher's callback: the timer starts over.                           *)
Notified ==
  /\ event
  /\ event' = FALSE
  /\ timer' = TRUE
  /\ UNCHANGED <<disk, tasks, queued, unread, read, failed, stopped>>

TimerFires ==
  /\ timer
  /\ timer' = FALSE
  /\ Fire
  /\ UNCHANGED <<disk, event, read, stopped>>

(* The task loads one more file (modules are never cached).                 *)
Load(f) ==
  /\ f \in unread
  /\ unread' = unread \ {f}
  /\ read' = [read EXCEPT ![f] = disk[f]]
  /\ UNCHANGED <<disk, event, timer, tasks, queued, failed, stopped>>

(* Mutant of Finish: the note is not taken down.                            *)
Finish_KeepsNote(err) ==
  /\ tasks > 0
  /\ err \/ unread = {}
  /\ IF queued THEN tasks' = 1 /\ unread' = Files /\ failed' = FALSE
               ELSE tasks' = 0 /\ unread' = {} /\ failed' = err
  /\ UNCHANGED <<disk, event, timer, queued, read, stopped>>

(* The task ends, by an error at any point of it or well; a noted wish      *)
(* starts the next one at once.                                             *)
Finish(err) ==
  /\ tasks > 0
  /\ err \/ unread = {}
  /\ queued' = FALSE
  /\ IF queued THEN tasks' = 1 /\ unread' = Files /\ failed' = FALSE
               ELSE tasks' = 0 /\ unread' = {} /\ failed' = err
  /\ UNCHANGED <<disk, event, timer, read, stopped>>

(* SIGINT.  A running task goes on, and a noted one starts after it, until  *)
(* the process has closed its connection and exits.                         *)
Stop ==
  /\ ~stopped
  /\ stopped' = TRUE
  /\ event' = FALSE
  /\ timer' = FALSE
  /\ UNCHANGED <<disk, tasks, queued, unread, read, failed>>

Loop ==
  \/ Notified
  \/ TimerFires
  \/ \E f \in Files : Load(f)
  \/ \E err \in BOOLEAN : Finish(err)

Next == Loop \/ Stop \/ \E f \in Files : Edit(f)

(* Callbacks that are due are called and a task's awaits come back.         *)
Spec == Init /\ [][Next]_vars /\ WF_vars(Loop)

-----------------------------------------------------------------------------
(* Every variable has its type, and tasks do not overlap.                   *)
TypeOK ==
  /\ disk \in [Files -> 0..MaxEdits]
  /\ read \in [Files -> 0..MaxEdits]
  /\ tasks \in 0..1
  /\ unread \subseteq Files
  /\ {event, timer, queued, failed, stopped} \subseteq BOOLEAN

(* Nothing is under way and nothing is going to happen by itself.           *)
Quiet == ~event /\ ~timer /\ tasks = 0 /\ ~queued

(* No edit is lost, however it interleaves with timers and loads: when the  *)
(* loop is quiet and its last task did not fail, that task has read the     *)
(* current version of every file (watchLoop: `queued`, and the watcher is   *)
(* opened before the first task).                                           *)
NoEditLost == Quiet /\ ~failed /\ ~stopped => read = disk

(* The loop comes to rest after the last edit, and never re-runs itself     *)
(* for ever.                                                                *)
ComesToRest == []<>(Quiet \/ stopped)
=============================================================================
