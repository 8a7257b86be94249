-------------------------- MODULE ConnectionResolve --------------------------
(***************************************************************************)
(* config.connect(name) of an application: resolveFromConfig and the       *)
(* runtime context of packages/core/src/client.ts.  The resolver of a      *)
(* connection may query sibling connections; a sibling is opened when it   *)
(* is first asked for, by running its own resolver, and the promise of its *)
(* client is kept, so that it is opened once.  What was opened is closed   *)
(* when the resolution settles.                                            *)
(*                                                                         *)
(* A running resolver is an activity; that of the target is Root.  The     *)
(* code runs to the next await without giving way, and opening a sibling   *)
(* runs its resolver up to its first await inside the query that asked:    *)
(* the activities that run so are a stack.  The promise is kept only when  *)
(* that call returns; who asks before is told that the sibling is already  *)
(* resolving.                                                              *)
(***************************************************************************)
EXTENDS CallGraph, Integers, Sequences, SequencesExt

CONSTANTS
  Names,     (* the connections of the config                           *)
  Root,      (* the activity of the target's resolver                   *)
  MayFail,   (* a resolver or a connection attempt may fail by itself   *)
  Targets,   (* the connections that may be the target                  *)
  Togethers, (* those whose resolver may query all siblings at once     *)
  Eagers     (* those whose resolver may query before its first await   *)

ASSUME NamesAssumption == IsFiniteSet(Names) /\ Names # {} /\ Root \notin Names
ASSUME FlagsAssumption == MayFail \in BOOLEAN
ASSUME KindsAssumption == Targets \subseteq Names /\ Togethers \subseteq Names /\ Eagers \subseteq Names

VARIABLES
  target,    (* the connection to resolve                                   *)
  uses,      (* per connection: the siblings its resolver queries           *)
  together,  (* the connections whose resolver queries them all at once     *)
             (* (Promise.all), the others query one after the other         *)
  eager,     (* the connections whose resolver starts with its queries; the *)
             (* others await something else first                           *)
  state,     (* the promise of each sibling: "unopened", "pending", "open", *)
             (* "failed" or, later, "closed"                                *)
  opened,    (* the siblings whose promise is kept                          *)
  stack,     (* the activities that run, each called by the next one        *)
  refused,   (* those that asked for a sibling that is being opened         *)
  asked,     (* per activity: the siblings it asked for                     *)
  phase,     (* "resolving", "closing" or "settled"                         *)
  outcome,   (* "none", "resolved" or "failed"                              *)
  faults     (* history variable: the failures that came from outside       *)

config == <<target, uses, together, eager>>
vars == <<config, state, opened, stack, refused, asked, phase, outcome, faults>>

Activities == Names \cup {Root}

NameOf(a) == IF a = Root THEN target ELSE a

Uses(a) == uses[NameOf(a)]

Together(a) == NameOf(a) \in together

Active(a) == IF a = Root THEN phase = "resolving" ELSE state[a] = "pending"

Init ==
  /\ target \in Targets
  /\ uses \in [Names -> SUBSET Names]
  /\ together \in SUBSET Togethers
  /\ eager \in SUBSET Eagers
  /\ state = [n \in Names |-> "unopened"]
  /\ opened = <<>>
  /\ stack = <<>>
  /\ refused = {}
  /\ asked = [a \in Activities |-> {}]
  /\ phase = "resolving"
  /\ outcome = "none"
  /\ faults = 0

(* Mutant of New: a promise that failed is replaced by a new one.           *)
New_Retried(m) == state[m] \in {"unopened", "failed"}

New(m) == state[m] = "unopened"

(* open(m) was called and did not return yet.                               *)
Opening(m) == state[m] = "pending" /\ m \notin Range(opened)

(* A target that is resolving is refused at once.                           *)
Opened(m) == IF m = target /\ phase = "resolving" THEN "failed" ELSE "pending"

(* The resolver of m queries its siblings within the call that opens m.     *)
Runs(m) == New(m) /\ Opened(m) = "pending" /\ m \in eager /\ uses[m] # {}

(* Mutant of KeptAtOnce: the promise is kept before the resolver of m runs. *)
KeptAtOnce_Before(m) == TRUE

(* The call that opens m returns its promise before anything else runs.     *)
KeptAtOnce(m) == ~Runs(m)

(* a may query: it runs, or nothing runs and what it waits for is there.    *)
(* One that queries in sequence has one query in a run, Promise.all all.    *)
Turn(a) ==
  IF stack # <<>>
  THEN a = Head(stack) /\ (Together(a) \/ asked[a] = {})
  ELSE a \notin refused /\ \A m \in asked[a] : state[m] = "open"

(* A resolver asks for one more sibling.                                    *)
Ask(a) ==
  /\ Active(a) /\ Turn(a)
  /\ \E m \in Uses(a) \ asked[a] :
       /\ state' = IF New(m) THEN [state EXCEPT ![m] = Opened(m)] ELSE state
       /\ opened' = IF New(m) /\ KeptAtOnce(m) THEN Append(opened, m) ELSE opened
       /\ stack' = (IF Runs(m) THEN <<m>> ELSE <<>>) \o
                   (IF stack = <<>> /\ Together(a) THEN <<a>> ELSE stack)
       /\ refused' = IF Opening(m) THEN refused \cup {a} ELSE refused
       /\ asked' = [asked EXCEPT ![a] = @ \cup {m}]
  /\ UNCHANGED <<config, phase, outcome, faults>>

(* It comes to an await, or threw: the call that ran it goes on, and keeps  *)
(* its promise.  (A refused query leaves its error in the map until then,   *)
(* for the others that ask: they are refused as well.)                      *)
Return(a) ==
  /\ stack # <<>> /\ a = Head(stack)
  /\ Active(a) => asked[a] # {} /\ (Together(a) => asked[a] = Uses(a))
  /\ stack' = Tail(stack)
  /\ opened' = IF a = Root \/ a \in Range(opened) THEN opened ELSE Append(opened, a)
  /\ UNCHANGED <<config, state, refused, asked, phase, outcome, faults>>

(* Its resolver returns, and the client of a sibling is open.               *)
Done(a) ==
  /\ Active(a) /\ stack = <<>>
  /\ asked[a] = Uses(a) /\ a \notin refused
  /\ \A m \in asked[a] : state[m] \in {"open", "closed"}
  /\ IF a = Root
     THEN phase' = "closing" /\ outcome' = "resolved" /\ UNCHANGED state
     ELSE state' = [state EXCEPT ![a] = "open"] /\ UNCHANGED <<phase, outcome>>
  /\ UNCHANGED <<config, opened, stack, refused, asked, faults>>

Throw(a) ==
  /\ IF a = Root
     THEN phase' = "closing" /\ outcome' = "failed" /\ UNCHANGED state
     ELSE state' = [state EXCEPT ![a] = "failed"] /\ UNCHANGED <<phase, outcome>>
  /\ UNCHANGED <<config, opened, stack, refused, asked>>

(* A sibling it asked for failed, or was closed under it, or a query was    *)
(* refused.                                                                 *)
Reject(a) ==
  /\ Active(a) /\ stack = <<>>
  /\ a \in refused \/ \E m \in asked[a] : state[m] \in {"failed", "closed"}
  /\ Throw(a)
  /\ UNCHANGED faults

(* The database cannot be reached, the resolver throws, or it returns       *)
(* several configs; one that queries in sequence does not while it waits.   *)
Fault(a) ==
  /\ MayFail
  /\ Active(a) /\ a \notin refused
  /\ stack # <<>> => a = Head(stack)
  /\ Together(a) \/ \A m \in asked[a] : state[m] = "open"
  /\ Throw(a)
  /\ faults' = faults + 1

(* closeOpened: each opened sibling is awaited and closed.                  *)
Close ==
  /\ phase = "closing" /\ stack = <<>>
  /\ opened # <<>>
  /\ state[Head(opened)] # "pending"
  /\ state' = [state EXCEPT ![Head(opened)] = IF @ = "open" THEN "closed" ELSE @]
  /\ opened' = Tail(opened)
  /\ UNCHANGED <<config, stack, refused, asked, phase, outcome, faults>>

Settle ==
  /\ phase = "closing" /\ stack = <<>>
  /\ opened = <<>>
  /\ phase' = "settled"
  /\ UNCHANGED <<config, state, opened, stack, refused, asked, outcome, faults>>

Step(a) == Ask(a) \/ Return(a) \/ Done(a) \/ Reject(a)

Next ==
  \/ \E a \in Activities : Step(a) \/ Fault(a)
  \/ Close
  \/ Settle

Spec == Init /\ [][Next]_vars

(* What runs goes on to its next await, and a promise that can make         *)
(* progress does: every query is answered or fails.                         *)
Fairness == (\A a \in Activities : WF_vars(Step(a))) /\ WF_vars(Close \/ Settle)

FairSpec == Spec /\ Fairness

-----------------------------------------------------------------------------
(* Every variable has its type.                                             *)
TypeOK ==
  /\ target \in Names
  /\ uses \in [Names -> SUBSET Names]
  /\ together \subseteq Togethers /\ eager \subseteq Eagers
  /\ state \in [Names -> {"unopened", "pending", "open", "failed", "closed"}]
  /\ Range(opened) \subseteq Names
  /\ Range(stack) \subseteq Activities /\ refused \subseteq Activities
  /\ asked \in [Activities -> SUBSET Names]
  /\ \A a \in Activities : asked[a] \subseteq Uses(a)
  /\ phase \in {"resolving", "closing", "settled"}
  /\ outcome \in {"none", "resolved", "failed"}
  /\ phase = "resolving" <=> outcome = "none"
  /\ faults \in Nat

(* A sibling is opened once however many resolvers ask for it, and is not   *)
(* forgotten: what was opened and not closed yet is in the list, or the     *)
(* call that puts it there still runs.  So all is closed when the           *)
(* resolution settles, also the siblings that were still opening when the   *)
(* resolver of the target failed (client.ts: "everything opened during      *)
(* resolution is closed when it settles").                                  *)
OpenedOnceAndClosed ==
  /\ IsInjective(opened)
  /\ \A n \in Names : state[n] \in {"pending", "open"} =>
       n \in Range(opened) \cup Range(stack) /\ phase # "settled"

(* A connection resolves only if nothing it reaches depends on itself, and  *)
(* fails by itself only if something does.                                  *)
OutcomeIsRight ==
  /\ outcome = "resolved" => ~ReachesCycle(target, uses)
  /\ outcome = "failed" /\ faults = 0 => ReachesCycle(target, uses)

(* The resolver of n asks for m, and for nothing else before it, within the *)
(* call that opens n.                                                       *)
Prompt(n, m) == n \in eager /\ (n \in together \/ uses[n] = {m})

(* Connections among those of S depend on each other in a cycle, and some   *)
(* query on it may come after an await.                                     *)
LateCycle(S) ==
  LET among == [n \in S |-> uses[n] \cap S]
  IN  \E n \in S \cap Reachable(target, uses) : \E m \in among[n] :
        ~Prompt(n, m) /\ n \in Reachable(m, among)

(* It settles, unless siblings wait for each other: for that they depend on *)
(* each other in a cycle, and not all of them ask in the call that opens    *)
(* them, since then the last is refused.  The target is one of them only    *)
(* where it was opened as a sibling, after its own resolution had failed.   *)
SettlesWithoutCycle ==
  <>(phase = "settled" \/
     LateCycle(IF state[target] = "pending" THEN Names ELSE Names \ {target}))
=============================================================================
