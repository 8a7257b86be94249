-------------------------- MODULE PushSessionProofs --------------------------
(***************************************************************************)
(* `push --watch` for any set of schema files and any number of edits,     *)
(* next to a `check` that does what it likes: the loop inside it is the    *)
(* watch loop of WatchLoop, and when it is quiet the live database is the  *)
(* schema on disk.                                                         *)
(*                                                                         *)
(* First the loop alone: no edit is lost by it.  Then the task in it: the  *)
(* invariant follows the schema through the task, what was loaded is       *)
(* what the scratch database is filled with, what is read back from it,    *)
(* and what the difference with the live database makes of it, because     *)
(* nobody else changes the live database in between and the session is in  *)
(* the scratch database only while it has to be.                           *)
(***************************************************************************)
EXTENDS PushSession, TLAPS

-----------------------------------------------------------------------------
(* The watch loop alone, whatever its task does (Spec of WatchLoop).        *)

(* What the proof needs of the types.                                       *)
Types ==
  /\ disk \in [Files -> Nat]
  /\ read \in [Files -> Nat]
  /\ tasks \in 0..1
  /\ unread \subseteq Files

(* Why a stale reading of f is not the last word: an event, a timer, a noted*)
(* task or the running one will read f again, or the last task failed.      *)
Excused(f) ==
  \/ event
  \/ timer
  \/ queued
  \/ tasks > 0 /\ f \in unread
  \/ tasks = 0 /\ failed

(* The inductive invariant: every stale reading is excused.                 *)
LoopInv == Types /\ (~stopped => \A f \in Files : read[f] = disk[f] \/ Excused(f))

(* The loop starts with nothing read and nothing edited.                    *)
LEMMA InitLoopInv == Init => LoopInv
<1> SUFFICES ASSUME Init PROVE LoopInv
  OBVIOUS
<1>1. Types
  BY DEF Init, Types
<1>2. ASSUME NEW f \in Files PROVE read[f] = disk[f]
  BY DEF Init
<1> QED BY <1>1, <1>2 DEF LoopInv

(* Every step of the loop, and every edit, keeps the invariant.             *)
LEMMA StepLoopInv == LoopInv /\ [Next]_vars => LoopInv'
<1> SUFFICES ASSUME LoopInv, [Next]_vars PROVE LoopInv'
  OBVIOUS
<1> USE DEF LoopInv, Types
<1>1. ASSUME NEW f \in Files, Edit(f) PROVE LoopInv'
  <2>1. Types'
    BY <1>1 DEF Edit
  <2>2. ASSUME ~stopped' PROVE event'
    BY <1>1, <2>2, Zenon DEF Edit
  <2> QED BY <2>1, <2>2 DEF Excused
<1>2. CASE Notified
  BY <1>2 DEF Notified, Excused
<1>3. CASE TimerFires
  <2>1. Types'
    BY <1>3 DEF TimerFires, Fire
  <2>2. ASSUME ~stopped', NEW f \in Files PROVE Excused(f)'
    BY <1>3 DEF TimerFires, Fire, Excused
  <2> QED BY <2>1, <2>2
<1>4. ASSUME NEW g \in Files, Load(g) PROVE LoopInv'
  <2>1. Types'
    BY <1>4 DEF Load
  <2>2. ASSUME ~stopped', NEW f \in Files PROVE read'[f] = disk'[f] \/ Excused(f)'
    <3>1. CASE f = g
      BY <1>4, <3>1 DEF Load
    <3>2. CASE f # g
      BY <1>4, <2>2, <3>2 DEF Load, Excused
    <3> QED BY <3>1, <3>2
  <2> QED BY <2>1, <2>2
<1>5. ASSUME NEW err \in BOOLEAN, Finish(err) PROVE LoopInv'
  <2>1. Types'
    BY <1>5 DEF Finish
  <2>2. ASSUME ~stopped', NEW f \in Files PROVE read'[f] = disk'[f] \/ Excused(f)'
    <3>1. CASE queued
      BY <1>5, <3>1 DEF Finish, Excused
    <3>2. CASE ~queued /\ err
      BY <1>5, <3>2 DEF Finish, Excused
    <3>3. CASE ~queued /\ ~err
      BY <1>5, <2>2, <3>3 DEF Finish, Excused
    <3> QED BY <3>1, <3>2, <3>3
  <2> QED BY <2>1, <2>2
<1>6. CASE Stop
  BY <1>6 DEF Stop
<1>7. CASE UNCHANGED vars
  BY <1>7 DEF vars, Excused
<1> QED BY <1>1, <1>2, <1>3, <1>4, <1>5, <1>6, <1>7 DEF Next, Loop

(* The invariant holds of the loop as it starts, and every step keeps it.   *)
THEOREM LoopInvariance == Spec => []LoopInv
  BY InitLoopInv, StepLoopInv, PTL DEF Spec

(* In a quiet loop nothing is left that could excuse a stale reading.       *)
LEMMA QuietIsRead == LoopInv => NoEditLost
<1> SUFFICES ASSUME LoopInv, Quiet, ~failed, ~stopped PROVE read = disk
  BY DEF NoEditLost
<1>1. ASSUME NEW f \in Files PROVE read[f] = disk[f]
  BY DEF LoopInv, Types, Excused, Quiet
<1> QED BY <1>1 DEF LoopInv, Types

(* When the loop is quiet and its last task did not fail, that task has read*)
(* every file as it is on disk.                                             *)
THEOREM NothingIsLost == Spec => []NoEditLost
  BY QuietIsRead, LoopInvariance, PTL

-----------------------------------------------------------------------------
(* `push` and `check` (SessionSpec of PushSession).                         *)

Steps == {"look", "load", "define", "fill", "read", "drop", "unwind", "apply", "end", "idle"}

(* A task runs as long as it has a step.                                    *)
StepInv == step \in Steps /\ (tasks = 0 <=> step = "idle")

(* The session is in the scratch database from `use` to the `finally`.      *)
UsingInv == using = IF step \in {"read", "drop", "unwind"} THEN "shadow" ELSE "main"

(* The live database is as the task has read it until it is changed.        *)
TargetInv ==
  step \in {"load", "define", "fill", "read", "drop", "unwind", "apply"} => target = live

(* The way of the schema, as long as nobody else is in the scratch database.*)
SchemaInv ==
  ~pushMixed =>
    /\ step = "define" => shadow = NoDb
    /\ step = "fill" => shadow = {}
    /\ step = "read" => shadow = Schema(read)
    /\ step \in {"drop", "apply"} => desired = Schema(read)
    /\ step = "end" \/ (step = "idle" /\ ~failed) => live = Schema(read)

SessionInv == StepInv /\ (~stopped => UsingInv /\ TargetInv /\ SchemaInv)

-----------------------------------------------------------------------------
(* The composition is a watch loop: whatever the task does, the loop around *)
(* it takes a step of WatchLoop or none.                                    *)
LEMMA TaskIsTask == [SessionNext]_allVars => [Next]_vars
<1> SUFFICES ASSUME [SessionNext]_allVars PROVE [Next]_vars
  OBVIOUS
<1>1. CASE SWatch
  BY <1>1 DEF SWatch, Next, Loop
<1>2. CASE SFires
  BY <1>2 DEF SFires, Next, Loop
<1>3. CASE SLoad
  BY <1>3 DEF SLoad, Next, Loop
<1>4. CASE SFails \/ SClosed
  BY <1>4 DEF SFails, SClosed, Ends, Next, Loop
<1>5. CASE SEnd
  BY <1>5 DEF SEnd, Ends, Next, Loop
<1>6. CASE Task
  BY <1>6 DEF Task, Look, Remove, Define, Fill, ReadBack, Drop, Apply, OnServer
<1>7. CASE Other(CheckNext)
  BY <1>7 DEF Other
<1>8. CASE UNCHANGED allVars
  BY <1>8 DEF allVars
<1> QED BY <1>1, <1>2, <1>3, <1>4, <1>5, <1>6, <1>7, <1>8 DEF SessionNext

(* The schema is not what stands for a database that is not there.          *)
LEMMA SchemaIsThere == Schema(read) # NoDb
<1> SUFFICES ASSUME Schema(read) = NoDb PROVE FALSE
  OBVIOUS
<1>1. <<"no database", 0>> \in Schema(read)
  BY DEF NoDb
<1>2. PICK f \in Files : <<"no database", 0>> = <<f, read[f]>>
  BY <1>1 DEF Schema
<1>3. f = "no database"
  BY <1>2
<1> QED BY <1>3, NamesAssumption

-----------------------------------------------------------------------------
(* No task runs at first.                                                   *)
LEMMA InitSessionInv == SessionInit => LoopInv /\ SessionInv
<1> SUFFICES ASSUME SessionInit PROVE LoopInv /\ SessionInv
  OBVIOUS
<1>1. LoopInv
  BY InitLoopInv DEF SessionInit
<1>2. SessionInv
  BY DEF SessionInit, Init, SessionInv, StepInv, Steps, UsingInv, TargetInv, SchemaInv
<1> QED BY <1>1, <1>2

(* A task that ends, well or with an error.                                 *)
LEMMA EndKeepsInv ==
  ASSUME LoopInv, SessionInv, NEW err \in BOOLEAN, Ends(err), step # "idle",
         ~stopped => using' = "main",
         err \/ (step = "end" /\ UNCHANGED <<live, pushMixed>>)
  PROVE  SessionInv'
<1>1. StepInv'
  BY DEF Ends, Finish, SessionInv, StepInv, Steps, LoopInv, Types
<1>2. ASSUME ~stopped' PROVE UsingInv' /\ TargetInv' /\ SchemaInv'
  <2>1. ~stopped /\ using' = "main" /\ step' \in {"look", "idle"} /\ read' = read
    BY <1>2 DEF Ends, Finish
  <2>2. UsingInv' /\ TargetInv'
    BY <2>1 DEF UsingInv, TargetInv
  <2>3. ASSUME step' = "idle", ~failed', ~pushMixed' PROVE live' = Schema(read)'
    <3>1. ~err
      BY <2>3 DEF Ends, Finish
    <3>2. live = Schema(read)
      BY <2>1, <2>3, <3>1 DEF SessionInv, SchemaInv
    <3> QED BY <2>1, <3>1, <3>2 DEF Schema
  <2>4. SchemaInv'
    BY <2>1, <2>3 DEF SchemaInv
  <2> QED BY <2>2, <2>4
<1> QED BY <1>1, <1>2 DEF SessionInv

(* A statement of the task, on the way from the reading to the difference.  *)
LEMMA StatementKeepsInv ==
  ASSUME LoopInv, SessionInv, Task
  PROVE  SessionInv'
<1> USE DEF SessionInv, OnServer
<1>1. StepInv'
  BY DEF Task, Look, Remove, Define, Fill, ReadBack, Drop, Apply, StepInv, Steps, vars
<1>2. ~stopped /\ read' = read /\ failed' = failed /\ stopped' = stopped /\ Schema(read)' = Schema(read)
  BY DEF Task, Look, Remove, Define, Fill, ReadBack, Drop, Apply, vars, Schema
<1> USE <1>2 DEF UsingInv, TargetInv, SchemaInv
<1>3. CASE Look
  BY <1>1, <1>3 DEF Look
<1>4. CASE Remove
  BY <1>1, <1>4 DEF Remove
<1>5. CASE Define
  BY <1>1, <1>5 DEF Define
<1>6. CASE Fill
  <2>1. Content({}) = {}
    BY DEF Content
  <2> QED BY <1>1, <1>6, <2>1 DEF Fill
<1>7. CASE ReadBack
  <2>1. Content(Schema(read)) = Schema(read)
    BY SchemaIsThere DEF Content
  <2> QED BY <1>1, <1>7, <2>1 DEF ReadBack
<1>8. CASE Drop
  BY <1>1, <1>8 DEF Drop
<1>9. CASE Apply
  <2>1. live' = desired
    BY <1>9 DEF Apply
  <2> QED BY <1>1, <1>9, <2>1 DEF Apply
<1> QED BY <1>3, <1>4, <1>5, <1>6, <1>7, <1>8, <1>9 DEF Task

(* Each step of the session, and of a check next to it, keeps the way of    *)
(* the schema.                                                              *)
LEMMA StepSessionInv == LoopInv /\ SessionInv /\ [SessionNext]_allVars => SessionInv'
<1> SUFFICES ASSUME LoopInv, SessionInv, [SessionNext]_allVars PROVE SessionInv'
  OBVIOUS
<1> USE DEF SessionInv, StepInv, Steps, UsingInv, TargetInv, SchemaInv, Schema, pushVars
<1>1. CASE SWatch
  BY <1>1 DEF SWatch, Notified, Stop, Edit, checkVars
<1>2. CASE SFires
  BY <1>2 DEF SFires, TimerFires, Fire, LoopInv, Types, checkVars
<1>3. CASE SLoad
  BY <1>3 DEF SLoad, Load, checkVars
<1>4. CASE SFails
  <2>1. Ends(TRUE) /\ step # "idle"
    BY <1>4 DEF SFails
  <2>2. ~stopped => using' = "main"
    BY <1>4 DEF SFails
  <2> QED BY <2>1, <2>2, EndKeepsInv
<1>5. CASE SEnd
  <2>1. Ends(FALSE) /\ step = "end" /\ UNCHANGED <<using, live, pushMixed>>
    BY <1>5 DEF SEnd
  <2> QED BY <2>1, EndKeepsInv
<1>6. CASE SClosed
  <2>1. Ends(TRUE) /\ step # "idle" /\ stopped
    BY <1>6 DEF SClosed
  <2> QED BY <2>1, EndKeepsInv
<1>7. CASE Task
  BY <1>7, StatementKeepsInv
<1>8. CASE Other(CheckNext)
  BY <1>8 DEF Other, PushInShadow, vars
<1>9. CASE UNCHANGED allVars
  BY <1>9 DEF allVars, vars, checkVars
<1> QED BY <1>1, <1>2, <1>3, <1>4, <1>5, <1>6, <1>7, <1>8, <1>9 DEF SessionNext

-----------------------------------------------------------------------------
(* The loop inside the session never loses an edit either: the invariant of *)
(* the watch loop holds of the composition.                                 *)
THEOREM SessionInvariance == SessionSpec => [](LoopInv /\ SessionInv)
<1>1. LoopInv /\ SessionInv /\ [SessionNext]_allVars => (LoopInv /\ SessionInv)'
  BY StepLoopInv, TaskIsTask, StepSessionInv
<1> QED BY <1>1, InitSessionInv, PTL DEF SessionSpec

(* When the loop is quiet and its last task went well, the live database is *)
(* the schema on disk: no edit is lost on its way through the scratch       *)
(* database, however many files and edits there are and whatever failed     *)
(* before (watchLoop, diffAgainstDb).                                       *)
THEOREM LiveFollowsSchema == SessionSpec => []LiveIsSchema
<1>1. LoopInv /\ SessionInv => LiveIsSchema
  <2> SUFFICES ASSUME LoopInv, SessionInv, Quiet, ~failed, ~stopped, ~pushMixed
               PROVE  live = Schema(disk)
    BY DEF LiveIsSchema
  <2>1. read = disk
    BY QuietIsRead DEF NoEditLost
  <2>2. step = "idle"
    BY DEF SessionInv, StepInv, Quiet
  <2> QED BY <2>1, <2>2 DEF SessionInv, SchemaInv
<1> QED BY <1>1, SessionInvariance, PTL

-----------------------------------------------------------------------------
(* The check.  Its labels while the scratch database is its business.       *)
InScratch == {"define", "fill", "read", "drop"}

CheckTypes ==
  /\ cpc \in {"off", "waiting", "connecting", "replay", "remove", "stop", "stopping",
              "exiting", "ended"} \cup InScratch
  /\ server \in {"none", "starting", "up", "dying", "exited", "killed", "gone"}

(* A server that was told to end is waited for, and one that still runs has *)
(* a command that will end it, unless that was interrupted; a server that is*)
(* killed while the command runs was killed from outside.                   *)
ServerInv ==
  /\ cpc = "off" => server = "none"
  /\ server = "dying" => cpc = "stopping" \/ (cpc = "ended" /\ interrupted)
  /\ cpc = "stopping" => server \notin {"starting", "up"}
  /\ cpc = "ended" /\ ~interrupted => server \notin {"starting", "up"}
  /\ server = "killed" /\ cpc # "ended" => struck

(* The way of the schema in the check, as long as nobody else is in its     *)
(* scratch database.                                                        *)
VerdictInv ==
  /\ cpc \in {"off", "waiting", "connecting", "replay", "remove", "define", "fill", "read"} =>
       verdict = "none"
  /\ cpc \in InScratch \cup {"remove"} => replayed \in {Checked, {}}
  /\ ~checkMixed =>
       /\ cpc = "define" => Scratch = NoDb
       /\ cpc = "fill" => Scratch = {}
       /\ cpc = "read" => Scratch = Checked
       /\ cpc = "drop" /\ verdict # "error" => seen = Checked
       /\ verdict = "same" => replayed = Checked
  /\ cpc = "drop" => verdict # "same"
  /\ cpc = "ended" => verdict = "none"
  /\ checkMixed => cpc = "ended" \/ (engine = "remote" /\ cpc # "off")

(* Outside of both commands the scratch database is not there.              *)
ScratchInv ==
  /\ ~stopped /\ ~interrupted /\ ~PushInShadow /\ ~CheckInShadow
  /\ ~pushMixed /\ ~checkMixed
  => shadow \in {NoDb, Leftover}

CheckInv == CheckTypes /\ ServerInv /\ VerdictInv /\ ZeroMeansSame /\ ScratchInv

(* No check runs at first.                                                  *)
LEMMA InitCheckInv == SessionInit => CheckInv
  BY DEF SessionInit, CheckInit, CheckInv, CheckTypes, ServerInv, VerdictInv, ZeroMeansSame,
         ScratchInv, InScratch

(* The steps of the check itself.                                           *)
LEMMA CheckKeepsTypes == CheckTypes /\ CheckNext => CheckTypes'
  BY DEF CheckTypes, InScratch, CheckNext, CheckStep, Start, Engines, Wait, Connect, Replay,
         CheckRemove, CheckDefine, CheckFill, CheckRead, CheckDrop, StopServer, StopDone, Drain,
         Exit, Interrupt, ServerUp, ServerEnds, ServerFails, ServerMoves, End, Killed, Goto,
         Cleanup, process

(* The server that was spawned is stopped before the check ends by itself.  *)
LEMMA CheckKeepsServer == CheckTypes /\ ServerInv /\ CheckNext => ServerInv'
<1> SUFFICES ASSUME CheckTypes, ServerInv, CheckNext PROVE ServerInv'
  OBVIOUS
<1> USE DEF CheckTypes, InScratch, ServerInv
<1>1. CASE \E e \in Engines : Start(e)
  BY <1>1 DEF Start, Goto
<1>2. CASE Wait \/ Connect \/ Replay
  BY <1>2 DEF Wait, Connect, Replay, Goto, Cleanup, process
<1>3. CASE CheckRemove \/ CheckDefine \/ CheckFill \/ CheckRead \/ CheckDrop
  BY <1>3 DEF CheckRemove, CheckDefine, CheckFill, CheckRead, CheckDrop, Goto, Cleanup, process
<1>4. CASE StopServer \/ StopDone
  BY <1>4 DEF StopServer, StopDone, Goto, process
<1>5. CASE Drain \/ Exit \/ Interrupt
  BY <1>5 DEF Drain, Exit, Interrupt, End, Killed
<1>6. CASE ServerUp \/ ServerEnds \/ ServerFails
  BY <1>6 DEF ServerUp, ServerEnds, ServerFails, ServerMoves
<1> QED BY <1>1, <1>2, <1>3, <1>4, <1>5, <1>6 DEF CheckNext, CheckStep

(* The databases differ from the token for none.                            *)
LEMMA Databases ==
  Checked # NoDb /\ {} # NoDb /\ Checked # {} /\ Content({}) = {} /\ Content(Checked) = Checked
<1>1. <<"checked", 0>> \in Checked /\ <<"checked", 0>> \notin NoDb
  BY DEF Checked, NoDb
<1>2. <<"no database", 0>> \in NoDb
  BY DEF NoDb
<1> QED BY <1>1, <1>2 DEF Content

(* What the check reads back is the schema, if its scratch database was its *)
(* own, and the verdict says whether the migrations replayed to it.         *)
LEMMA CheckKeepsVerdict == CheckTypes /\ VerdictInv /\ CheckNext => VerdictInv'
<1> SUFFICES ASSUME CheckTypes, VerdictInv, CheckNext PROVE VerdictInv'
  OBVIOUS
<1> USE DEF CheckTypes, InScratch, VerdictInv, Scratch, SetScratch, Goto, Because, Cleanup, process
<1>1. CASE \E e \in Engines : Start(e)
  BY <1>1 DEF Start
<1>2. CASE Wait \/ Connect \/ Replay
  BY <1>2, Databases DEF Wait, Connect, Replay
<1>3. CASE CheckRemove
  <2>1. CASE Reachable
    <3>1. cpc' = "define" /\ verdict' = "none" /\ Scratch' = NoDb /\ engine' = engine
      BY <1>3, <2>1 DEF CheckRemove, Reachable
    <3>2. checkMixed' = FALSE /\ replayed' = replayed /\ cpc = "remove"
      BY <1>3 DEF CheckRemove
    <3> QED BY <3>1, <3>2
  <2>2. CASE ~Reachable
    BY <1>3, <2>2, Databases DEF CheckRemove
  <2> QED BY <2>1, <2>2
<1>4. CASE CheckDefine
  BY <1>4 DEF CheckDefine
<1>5. CASE CheckFill
  BY <1>5, Databases DEF CheckFill
<1>6. CASE CheckRead
  BY <1>6, Databases DEF CheckRead
<1>7. CASE CheckDrop
  <2>1. ASSUME verdict' = "same", ~checkMixed' PROVE replayed' = Checked
    <3>1. verdict # "error" /\ seen = replayed
      BY <1>7, <2>1 DEF CheckDrop, Reachable
    <3> QED BY <1>7, <2>1, <3>1 DEF CheckDrop
  <2>2. cpc' \in {"stop", "exiting"} /\ cpc = "drop" /\ UNCHANGED <<engine, checkMixed>>
    BY <1>7 DEF CheckDrop
  <2> QED BY <2>1, <2>2
<1>8. CASE StopServer \/ StopDone
  BY <1>8 DEF StopServer, StopDone
<1>9. CASE Drain \/ Exit \/ Interrupt
  BY <1>9 DEF Drain, Exit, Interrupt, End
<1>10. CASE ServerUp \/ ServerEnds \/ ServerFails
  BY <1>10 DEF ServerUp, ServerEnds, ServerFails, ServerMoves
<1> QED BY <1>1, <1>2, <1>3, <1>4, <1>5, <1>6, <1>7, <1>8, <1>9, <1>10 DEF CheckNext, CheckStep

(* The exit code is set once, from the verdict.                             *)
LEMMA CheckKeepsCode ==
  CheckTypes /\ ServerInv /\ VerdictInv /\ ZeroMeansSame /\ CheckNext => ZeroMeansSame'
<1> SUFFICES ASSUME CheckTypes, ServerInv, VerdictInv, ZeroMeansSame, CheckNext, cpc' = "ended"
             PROVE  code' = 0 /\ ~struck' /\ ~checkMixed' => replayed' = Checked
  BY DEF ZeroMeansSame
<1> USE DEF InScratch
<1>1. CASE Drain
  BY <1>1 DEF Drain, End, ServerInv
<1>2. CASE Exit
  BY <1>2 DEF Exit, End, VerdictInv
<1>3. CASE Interrupt
  BY <1>3 DEF Interrupt, End
<1>4. CASE ServerUp \/ ServerEnds \/ ServerFails
  BY <1>4 DEF ServerUp, ServerEnds, ServerFails, ServerMoves, ZeroMeansSame
<1>5. CASE \E e \in Engines : Start(e)
  BY <1>5 DEF Start, Goto
<1>6. CASE Wait \/ Connect \/ Replay \/ StopServer \/ StopDone
  BY <1>6 DEF Wait, Connect, Replay, StopServer, StopDone, Goto, Cleanup
<1>7. CASE CheckRemove \/ CheckDefine \/ CheckFill \/ CheckRead \/ CheckDrop
  BY <1>7 DEF CheckRemove, CheckDefine, CheckFill, CheckRead, CheckDrop, Goto, Cleanup
<1> QED BY <1>1, <1>2, <1>3, <1>4, <1>5, <1>6, <1>7 DEF CheckNext, CheckStep

(* The check drops the scratch database on every way out of it.             *)
LEMMA CheckKeepsScratch ==
  CheckTypes /\ VerdictInv /\ ScratchInv /\ Other(CheckNext) => ScratchInv'
<1> SUFFICES ASSUME CheckTypes, VerdictInv, ScratchInv, Other(CheckNext),
                    ~stopped', ~interrupted', ~PushInShadow', ~CheckInShadow',
                    ~pushMixed', ~checkMixed'
             PROVE  shadow' \in {NoDb, Leftover}
  BY DEF ScratchInv
<1>1. ~stopped /\ ~PushInShadow /\ ~pushMixed
  BY DEF Other, PushInShadow, vars
<1> USE <1>1 DEF Other, CheckTypes, InScratch, CheckInShadow, ScratchInv, SetScratch, Goto, Because,
                 Cleanup, process
<1>2. CASE \E e \in Engines : Start(e)
  BY <1>2 DEF Start
<1>3. CASE Wait \/ Connect \/ Replay \/ StopServer \/ StopDone
  BY <1>3 DEF Wait, Connect, Replay, StopServer, StopDone
<1>4. CASE CheckRemove
  BY <1>4 DEF CheckRemove, Reachable, VerdictInv
<1>5. CASE CheckDefine
  BY <1>5 DEF CheckDefine, VerdictInv, Scratch, Reachable
<1>6. CASE CheckFill \/ CheckRead
  BY <1>6 DEF CheckFill, CheckRead
<1>7. CASE CheckDrop
  BY <1>7 DEF CheckDrop, Reachable
<1>8. CASE Drain \/ Exit
  BY <1>8 DEF Drain, Exit, End
<1>9. CASE Interrupt
  BY <1>9 DEF Interrupt
<1>10. CASE ServerUp \/ ServerEnds \/ ServerFails
  BY <1>10 DEF ServerUp, ServerEnds, ServerFails, ServerMoves
<1> QED BY <1>2, <1>3, <1>4, <1>5, <1>6, <1>7, <1>8, <1>9, <1>10 DEF CheckNext, CheckStep

-----------------------------------------------------------------------------
(* The steps of the session: they touch the scratch database and the note   *)
(* that they did, and nothing else of the check.                            *)
LEMMA SessionSpares ==
  ASSUME SWatch \/ SFires \/ SLoad \/ SFails \/ SEnd \/ SClosed \/ Task
  PROVE  /\ UNCHANGED <<cpc, engine, replayed, scratch, seen, verdict, code, process>>
         /\ checkMixed => checkMixed'
         /\ checkMixed' /\ ~checkMixed => CheckInShadow
         /\ shadow' # shadow /\ CheckInShadow => checkMixed'
<1>1. CASE SWatch \/ SFires \/ SLoad \/ SEnd \/ SClosed
  <2>1. UNCHANGED checkVars
    BY <1>1 DEF SWatch, SFires, SLoad, SEnd, SClosed
  <2> QED BY <2>1, Zenon DEF checkVars, process
<1>2. CASE SFails
  BY <1>2 DEF SFails, process
<1>3. CASE Task
  BY <1>3 DEF Task, Look, Remove, Define, Fill, ReadBack, Drop, Apply, OnServer, process
<1> QED BY <1>1, <1>2, <1>3

(* A session touches nothing of a check but the scratch database.           *)
LEMMA SessionKeepsCheck ==
  ASSUME CheckTypes, ServerInv, VerdictInv, ZeroMeansSame,
         SWatch \/ SFires \/ SLoad \/ SFails \/ SEnd \/ SClosed \/ Task
  PROVE  CheckTypes' /\ ServerInv' /\ VerdictInv' /\ ZeroMeansSame'
<1>1. CheckTypes' /\ ServerInv'
  BY SessionSpares DEF CheckTypes, ServerInv, process, InScratch
<1>2. VerdictInv'
  BY SessionSpares DEF VerdictInv, process, Scratch, CheckInShadow, InScratch
<1>3. ZeroMeansSame'
  BY SessionSpares DEF ZeroMeansSame, process
<1> QED BY <1>1, <1>2, <1>3

(* The scratch database is gone when the task leaves it.                    *)
LEMMA SessionKeepsScratch ==
  ASSUME SessionInv, CheckTypes, ScratchInv,
         SWatch \/ SFires \/ SLoad \/ SFails \/ SEnd \/ SClosed \/ Task
  PROVE  ScratchInv'
<1> SUFFICES ASSUME ~stopped', ~interrupted', ~PushInShadow', ~CheckInShadow',
                    ~pushMixed', ~checkMixed'
             PROVE  shadow' \in {NoDb, Leftover}
  BY DEF ScratchInv
<1>1. ~interrupted /\ ~CheckInShadow /\ ~checkMixed
  BY SessionSpares DEF process, CheckInShadow
<1> USE <1>1 DEF ScratchInv, PushInShadow
<1>2. CASE SWatch
  BY <1>2 DEF SWatch, Notified, Stop, Edit, checkVars, pushVars
<1>3. CASE SFires \/ SLoad
  BY <1>3 DEF SFires, TimerFires, Fire, SLoad, Load, checkVars, pushVars, SessionInv, StepInv
<1>4. CASE SFails
  BY <1>4 DEF SFails, Ends, Finish, SessionInv, SchemaInv
<1>5. CASE SEnd \/ SClosed
  BY <1>5 DEF SEnd, SClosed, Ends, Finish, checkVars
<1>6. CASE Task
  BY <1>6 DEF Task, Look, Remove, Define, Fill, ReadBack, Drop, Apply, OnServer, vars
<1> QED BY <1>2, <1>3, <1>4, <1>5, <1>6

(* Each step of a check, and of the session next to it.                     *)
LEMMA StepCheckInv == SessionInv /\ CheckInv /\ [SessionNext]_allVars => CheckInv'
<1> SUFFICES ASSUME SessionInv, CheckInv, [SessionNext]_allVars PROVE CheckInv'
  OBVIOUS
<1> USE DEF CheckInv
<1>1. CASE SWatch \/ SFires \/ SLoad \/ SFails \/ SEnd \/ SClosed \/ Task
  BY <1>1, SessionKeepsCheck, SessionKeepsScratch
<1>2. CASE Other(CheckNext)
  <2>1. CheckNext
    BY <1>2 DEF Other
  <2> QED BY <1>2, <2>1, CheckKeepsTypes, CheckKeepsServer, CheckKeepsVerdict, CheckKeepsCode,
             CheckKeepsScratch
<1>3. CASE UNCHANGED allVars
  BY <1>3 DEF allVars, vars, checkVars, pushVars, process, CheckTypes, ServerInv, VerdictInv,
              ZeroMeansSame, ScratchInv, Scratch, InScratch, PushInShadow, CheckInShadow
<1> QED BY <1>1, <1>2, <1>3 DEF SessionNext

(* The invariant of the check holds next to a session that runs all the     *)
(* time.                                                                    *)
THEOREM CheckInvariance == SessionSpec => []CheckInv
<1>1. SessionInit => CheckInv
  BY InitCheckInv
<1>2. SessionInv /\ CheckInv /\ [SessionNext]_allVars => CheckInv'
  BY StepCheckInv
<1>3. SessionSpec => []SessionInv
  BY SessionInvariance, PTL
<1> QED BY <1>1, <1>2, <1>3, PTL DEF SessionSpec

(* Exit code 0 of a check means that the migrations reproduce the schema,   *)
(* whatever fails on the way (checkReplay, runAction), unless its server was*)
(* killed from outside or its scratch database was not its own.             *)
THEOREM ExitCodeIsRight == SessionSpec => []ZeroMeansSame
<1>1. CheckInv => ZeroMeansSame
  BY DEF CheckInv
<1> QED BY <1>1, CheckInvariance, PTL

(* When the loop is quiet and no check runs, the scratch database is gone,  *)
(* apart from what was there at the start, and no server of a check that    *)
(* ended by itself is left (applyToShadow, spawnEphemeralServer).           *)
THEOREM CommandsCleanUp == SessionSpec => []NothingIsLeft
<1>1. SessionInv /\ CheckInv => NothingIsLeft
  <2> SUFFICES ASSUME SessionInv, CheckInv PROVE ScratchIsGone /\ ServerIsGone
    BY DEF NothingIsLeft
  <2>1. ScratchIsGone
    BY DEF SessionInv, StepInv, CheckInv, ScratchInv, ScratchIsGone, Quiet, PushInShadow
  <2>2. ServerIsGone
    BY DEF CheckInv, ServerInv, CheckTypes, ServerIsGone
  <2> QED BY <2>1, <2>2
<1>2. SessionSpec => []SessionInv
  BY SessionInvariance, PTL
<1> QED BY <1>1, <1>2, CheckInvariance, PTL
=============================================================================
