----------------------------- MODULE Connections ----------------------------
(***************************************************************************)
(* Both resolvers of connections, over any graph of them.  A behaviour is  *)
(* one of the application's (ConnectionResolve) or one of the CLI's        *)
(* (TargetResolve): the two are never in one process.                      *)
(***************************************************************************)
EXTENDS ConnectionResolve

CONSTANTS
  Parallel,   (* connections whose resolver may query several siblings at   *)
              (* once, in the CLI                                           *)
  MaxFaults   (* how often a resolver or a connection attempt of the CLI    *)
              (* may fail by itself                                         *)

ASSUME CommandAssumption == Parallel \subseteq Names /\ MaxFaults \in Nat

VARIABLES graph, atOnce, todo, sibling, got, waits, broken, command, answer, breaks

cliVars == <<graph, atOnce, todo, sibling, got, waits, broken, command, answer, breaks>>

CLI == INSTANCE TargetResolve WITH
  uses <- graph, together <- atOnce, state <- sibling,
  phase <- command, outcome <- answer, faults <- breaks

(* The one, or the other, has nothing to do.                                *)
NoRuntime ==
  /\ target \in Targets /\ uses = [n \in Names |-> {}] /\ together = {} /\ eager = {}
  /\ state = [n \in Names |-> "unopened"] /\ opened = <<>> /\ stack = <<>> /\ refused = {}
  /\ asked = [a \in Activities |-> {}]
  /\ phase = "settled" /\ outcome = "none" /\ faults = 0
NoCommand ==
  /\ graph = [n \in Names |-> {}] /\ atOnce = {} /\ todo = <<>>
  /\ sibling = [n \in Names |-> "unopened"]
  /\ got = [a \in Activities |-> {}] /\ waits = [a \in Activities |-> {}]
  /\ broken = {} /\ command = "settled" /\ answer = "none" /\ breaks = 0

ResolveStep == Next /\ UNCHANGED cliVars
CommandStep == command # "settled" /\ CLI!Next /\ UNCHANGED vars

BothSpec ==
  /\ (Init /\ NoCommand) \/ (CLI!Init /\ NoRuntime)
  /\ [][ResolveStep \/ CommandStep]_<<vars, cliVars>>
  /\ Fairness /\ CLI!Fairness

(* What was opened is closed when the resolution settles, in both.          *)
OpenedAndClosed == OpenedOnceAndClosed /\ CLI!NothingStaysOpen

(* Both resolve only what reaches no cycle, and fail by themselves only if  *)
(* there is one.                                                            *)
OutcomesAreRight == []OutcomeIsRight /\ CLI!OutcomeIsRight

(* Both resolutions end, the application's unless siblings depend on each  *)
(* other in a cycle with a query that may come after an await.              *)
BothSettle == SettlesWithoutCycle /\ CLI!Settles
=============================================================================
