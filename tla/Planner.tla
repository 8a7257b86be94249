------------------------------- MODULE Planner -------------------------------
(***************************************************************************)
(* The planners: the sort (KindOrder), the scripts of a migration          *)
(* (KindPlan) and those of a push (LivePush).  A behaviour is one of the   *)
(* sort, of a migration or of a push.                                      *)
(***************************************************************************)
EXTENDS KindOrder, KindPlan

CONSTANTS
  Statements,  (* the DEFINE statements a push may see: the objects, their  *)
  Kind,        (* kinds, tables and uses of LivePush                        *)
  Table,
  Uses,
  Versions,
  NoDef

VARIABLES schema, live, plan, prune, pushed

pushVars == <<schema, live, plan, prune, pushed>>

Push == INSTANCE LivePush WITH Objects <- Statements, db <- live, phase <- pushed

ASSUME StatementsAssumption == Push!WellFormed

NoSort ==
  /\ deps = [n \in Nodes |-> {}] /\ owner = [n \in Nodes |-> NoOwner] /\ indeg = [k \in Keys |-> 0]
  /\ done = {} /\ out = <<>> /\ group = NoOwner /\ result = "none"
NoPlan ==
  /\ prev = [o \in Objects |-> Absent] /\ next = prev /\ db = prev
  /\ todo = <<>> /\ phase = "none"

NoPush ==
  /\ schema = <<>> /\ live = <<>> /\ plan = <<>> /\ prune = TRUE /\ pushed = "none"

SortStep == SortNext /\ UNCHANGED <<planVars, pushVars>>
PlanStep == PlanNext /\ UNCHANGED <<sortVars, pushVars>>
PushStep == pushed # "none" /\ Push!Next /\ UNCHANGED <<sortVars, planVars>>

allVars == <<sortVars, planVars, pushVars>>

(* The sort is synchronous code: it runs until it returns or throws.        *)
Spec ==
  /\ \/ SortInit /\ NoPlan /\ NoPush
     \/ PlanInit /\ NoSort /\ NoPush
     \/ Push!Init /\ NoSort /\ NoPlan
  /\ [][SortStep \/ PlanStep \/ PushStep]_allVars
  /\ WF_allVars(SortStep)

(* A push makes the database the schema, or with --no-prune keeps what the  *)
(* schema lacks.                                                            *)
PushDoesAsAsked == Push!PushReachesSchema /\ Push!NoPruneKeepsExtras
=============================================================================
