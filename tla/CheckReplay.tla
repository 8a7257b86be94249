----------------------------- MODULE CheckReplay -----------------------------
(***************************************************************************)
(* `check`: the migrations are replayed into one scratch database, the     *)
(* schema is applied to another, and the two are compared.  checkReplay of *)
(* drivers/surrealdb/src/driver/surreal.ts, verifyMigrations and           *)
(* applyToShadow of cli/introspect.ts, spawnEphemeralServer of             *)
(* cli/engine.ts.                                                          *)
(*                                                                         *)
(* The engine is a process of its own (embedded), a server the command     *)
(* spawns and must not leave behind (binary), or a server it shares with   *)
(* others (remote), where the scratch databases have fixed names.          *)
(***************************************************************************)
EXTENDS Naturals

VARIABLES
  cpc,          (* where the command is                                      *)
  engine,       (* the engine it chose                                       *)
  replayed,     (* what the migrations give in a database of their own       *)
  shadow,       (* the scratch database SHADOW_DB of the shared server: NoDb *)
                (* or the set of objects in it                               *)
  scratch,      (* the same on an engine of the command's own                *)
  seen,         (* what it read back from its scratch database               *)
  server,       (* the spawned server process                                *)
  verdict,      (* what the command found, or "error"                        *)
  code,         (* its exit code once it has ended                           *)
  (* history variables, read by the properties only                         *)
  checkMixed,   (* someone else used SHADOW_DB while the command did         *)
  interrupted,  (* it was ended by a signal                                  *)
  struck        (* the spawned server was killed by a signal from outside    *)

process == <<server, interrupted, struck>>
checkVars == <<cpc, engine, replayed, shadow, scratch, seen, verdict, code, checkMixed, process>>

(* The objects of a database, by name and version.                           *)
NoDb == {<<"no database", 0>>}   (* not the content of any database          *)
Leftover == {<<"leftover", 0>>}  (* what a command that died left behind     *)
Checked == {<<"checked", 0>>}    (* the schema the command applies           *)
Engines == {"embedded", "binary", "remote"}

-----------------------------------------------------------------------------
(* INFO of a database that is gone: an error, or nothing is there.           *)
Content(db) == IF db = NoDb THEN {} ELSE db

-----------------------------------------------------------------------------
CheckInit ==
  /\ cpc = "off" /\ engine = "embedded" /\ replayed = {}
  /\ shadow \in {NoDb, Leftover} /\ scratch = NoDb /\ seen = {}
  /\ server = "none"
  /\ verdict = "none" /\ code = 0
  /\ checkMixed = FALSE /\ interrupted = FALSE /\ struck = FALSE

Goto(label) == cpc' = label
Because(why) == verdict' = why

(* The engine is chosen; a spawned server starts, connections may fail.      *)
Start(e) ==
  /\ cpc = "off"
  /\ engine' = e
  /\ \/ e = "binary" /\ server' = "starting" /\ Goto("waiting") /\ UNCHANGED verdict
     \/ e # "binary" /\ Goto("replay") /\ UNCHANGED <<server, verdict>>
     \/ e # "binary" /\ Goto("exiting") /\ Because("error") /\ UNCHANGED server
  /\ UNCHANGED <<replayed, shadow, scratch, seen, code, checkMixed, interrupted, struck>>

(* waitUntilReady: attempts until one succeeds, the process is seen to have  *)
(* exited, or 30 s are over.  A failure stops the server.                    *)
Wait ==
  /\ cpc = "waiting"
  /\ \/ server = "up" /\ Goto("connecting") /\ UNCHANGED verdict
     \/ Goto("stop") /\ Because("error")
  /\ UNCHANGED <<engine, replayed, shadow, scratch, seen, code, checkMixed, process>>

(* surrealConnect to the spawned server is outside the try.                  *)
Connect ==
  /\ cpc = "connecting"
  /\ \/ server = "up" /\ Goto("replay") /\ UNCHANGED verdict
     \/ Goto("exiting") /\ Because("error")
  /\ UNCHANGED <<engine, replayed, shadow, scratch, seen, code, checkMixed, process>>

(* cleanup: the connection is closed, a spawned server is stopped.           *)
Cleanup == IF engine = "binary" THEN "stop" ELSE "exiting"

Reachable == engine = "binary" => server = "up"

(* The migrations are replayed in a database nobody else uses; they may be   *)
(* up to date with the schema or not, or one of them fails.                  *)
Replay ==
  /\ cpc = "replay"
  /\ \/ Reachable /\ replayed' \in {Checked, {}} /\ Goto("remove") /\ UNCHANGED verdict
     \/ Goto(Cleanup) /\ Because("error") /\ UNCHANGED replayed
  /\ UNCHANGED <<engine, shadow, scratch, seen, code, checkMixed, process>>

(* The database the schema is applied to.                                    *)
Scratch == IF engine = "remote" THEN shadow ELSE scratch
SetScratch(new) ==
  IF engine = "remote" THEN shadow' = new /\ UNCHANGED scratch
                       ELSE scratch' = new /\ UNCHANGED shadow

CheckRemove ==
  /\ cpc = "remove"
  /\ \/ Reachable /\ SetScratch(NoDb) /\ Goto("define") /\ UNCHANGED verdict
     \/ ~Reachable /\ Goto(Cleanup) /\ Because("error") /\ UNCHANGED <<shadow, scratch>>
  /\ checkMixed' = FALSE
  /\ UNCHANGED <<engine, replayed, seen, code, process>>

(* A DEFINE DATABASE that fails is outside the try: nothing is removed.      *)
CheckDefine ==
  /\ cpc = "define"
  /\ \/ /\ Reachable /\ Scratch = NoDb
        /\ SetScratch({}) /\ Goto("fill") /\ UNCHANGED verdict
     \/ /\ ~Reachable \/ Scratch # NoDb
        /\ Goto(Cleanup) /\ Because("error") /\ UNCHANGED <<shadow, scratch>>
  /\ UNCHANGED <<engine, replayed, seen, code, checkMixed, process>>

(* The definitions end up next to what is there, in a database created on    *)
(* the fly if need be; or one of them is refused.                            *)
CheckFill ==
  /\ cpc = "fill"
  /\ \/ /\ Reachable /\ SetScratch(Content(Scratch) \cup Checked)
        /\ Goto("read") /\ UNCHANGED verdict
     \/ Goto("drop") /\ Because("error") /\ UNCHANGED <<shadow, scratch>>
  /\ UNCHANGED <<engine, replayed, seen, code, checkMixed, process>>

CheckRead ==
  /\ cpc = "read"
  /\ Goto("drop")
  /\ \/ Reachable /\ seen' = Content(Scratch) /\ UNCHANGED verdict
     \/ (~Reachable \/ Scratch = NoDb) /\ Because("error") /\ UNCHANGED seen
  /\ UNCHANGED <<engine, replayed, shadow, scratch, code, checkMixed, process>>

(* The `finally`, and the comparison if all went well.                       *)
CheckDrop ==
  /\ cpc = "drop"
  /\ Goto(Cleanup)
  /\ IF Reachable THEN SetScratch(NoDb) ELSE UNCHANGED <<shadow, scratch>>
  /\ seen' = {}
  /\ Because(IF verdict = "error" \/ ~Reachable THEN "error"
             ELSE IF seen = replayed THEN "same" ELSE "differs")
  /\ UNCHANGED <<engine, replayed, code, checkMixed, process>>

(* stop(): at once if the exit code is known, else SIGTERM and wait.  A      *)
(* process that a signal ended has no exit code.                             *)
StopServer ==
  /\ cpc = "stop"
  /\ Goto(IF server = "exited" THEN "exiting" ELSE "stopping")
  /\ server' = IF server \in {"starting", "up"} THEN "dying" ELSE server
  /\ UNCHANGED <<engine, replayed, shadow, scratch, seen, verdict, code, checkMixed,
                 interrupted, struck>>

(* The `exit` event arrives, after SIGTERM or after SIGKILL 2 s later.       *)
StopDone ==
  /\ cpc = "stopping" /\ server = "gone"
  /\ Goto("exiting")
  /\ UNCHANGED <<engine, replayed, shadow, scratch, seen, verdict, code, checkMixed, process>>

(* The process ends, its own engine and what it had read with it.            *)
End(status) ==
  /\ cpc' = "ended" /\ code' = status
  /\ engine' = "none" /\ scratch' = NoDb /\ seen' = {} /\ verdict' = "none"
  /\ UNCHANGED <<replayed, shadow, checkMixed, struck>>

(* Nothing is left to wait for but an event that came before anybody         *)
(* listened: the runtime ends the process, with exit code 0.                 *)
Drain ==
  /\ cpc = "stopping" /\ server = "killed"
  /\ End(0)
  /\ UNCHANGED <<server, interrupted>>

Killed == IF server \in {"starting", "up"} THEN "killed" ELSE server

(* Mutant of Exit: only an error sets the exit code.                        *)
Exit_Lenient ==
  /\ cpc = "exiting"
  /\ End(IF verdict = "error" THEN 1 ELSE 0)
  /\ server' = Killed
  /\ UNCHANGED interrupted

(* runAction: process.exit, whose hook kills a server nobody stopped.        *)
Exit ==
  /\ cpc = "exiting"
  /\ End(IF verdict = "same" THEN 0 ELSE 1)
  /\ server' = Killed
  /\ UNCHANGED interrupted

(* SIGINT: `check` has no handler, so no hook runs either.                   *)
Interrupt ==
  /\ cpc \notin {"off", "ended"}
  /\ End(130)
  /\ interrupted' = TRUE
  /\ UNCHANGED server

(* The server process: it comes up, exits (a port taken in between), is      *)
(* killed from outside, or ends as it was told.                              *)
ServerMoves(to) ==
  /\ server' = to
  /\ UNCHANGED <<cpc, engine, replayed, shadow, scratch, seen, verdict, code,
                 checkMixed, interrupted>>

ServerUp   == server = "starting" /\ ServerMoves("up") /\ UNCHANGED struck
ServerEnds == server = "dying" /\ ServerMoves("gone") /\ UNCHANGED struck
ServerFails ==
  \/ server \in {"starting", "up"} /\ ServerMoves("exited") /\ UNCHANGED struck
  \/ server \in {"starting", "up"} /\ ServerMoves("killed") /\ struck' = TRUE

CheckStep ==
  \/ Wait \/ Connect \/ Replay
  \/ CheckRemove \/ CheckDefine \/ CheckFill \/ CheckRead \/ CheckDrop
  \/ StopServer \/ StopDone \/ Drain \/ Exit
  \/ ServerUp \/ ServerEnds

CheckNext ==
  \/ \E e \in Engines : Start(e)
  \/ CheckStep \/ Interrupt \/ ServerFails

-----------------------------------------------------------------------------
(* A `check` that ends by itself, whatever failed in it, leaves no server:   *)
(* it was stopped, or the exit hook killed it (spawnEphemeralServer).        *)
ServerIsGone ==
  cpc = "ended" /\ ~interrupted => server \in {"none", "exited", "killed", "gone"}

(* Exit code 0 means that the migrations reproduce the schema, unless the    *)
(* spawned server was killed from outside (the wait in stop() then never     *)
(* ends) or someone else used the scratch database at the same time.         *)
ZeroMeansSame ==
  cpc = "ended" /\ code = 0 /\ ~struck /\ ~checkMixed => replayed = Checked

(* Every `check` ends.                                                       *)
CheckEnds == cpc # "off" ~> cpc = "ended"
=============================================================================
