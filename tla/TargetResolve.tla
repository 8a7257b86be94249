---------------------------- MODULE TargetResolve ----------------------------
(***************************************************************************)
(* How a command of the CLI resolves the connections it is addressed to:   *)
(* resolveTargets of packages/cli/src/cli/resolve.ts.  The resolver of a   *)
(* connection may query siblings; a sibling is opened on demand by the one *)
(* that asks, and shared once it is open.  While it is opening it is in    *)
(* the set `resolving`, and whoever else asks for it gets an error.        *)
(*                                                                         *)
(* A running resolver is an activity; that of the current target is Root.  *)
(***************************************************************************)
EXTENDS CallGraph, Integers, Sequences, SequencesExt

CONSTANTS
  Names,       (* the connections of the config                             *)
  Root,        (* the activity of the target's resolver                     *)
  Parallel,    (* connections whose resolver may query several siblings at  *)
               (* once                                                      *)
  MaxFaults    (* how often a resolver or a connection attempt may fail by  *)
               (* itself                                                    *)

VARIABLES
  uses,      (* per connection: the siblings its resolver queries           *)
  together,  (* the connections whose resolver queries them all at once     *)
  todo,      (* the targets left to resolve, the current one first          *)
  state,     (* the connection of each sibling: "unopened", "resolving",    *)
             (* "open" or "closed"                                          *)
  got,       (* per activity: the siblings that answered                    *)
  waits,     (* per activity: the siblings it is opening                    *)
  broken,    (* the activities that got an error                            *)
  phase,     (* "resolving", "closing" or "settled"                         *)
  outcome,   (* "none", "resolved" or "failed"                              *)
  faults     (* history variable: the failures that came from outside       *)

config == <<uses, together>>
vars == <<uses, together, todo, state, got, waits, broken, phase, outcome, faults>>

Activities == Names \cup {Root}

NameOf(a) == IF a = Root THEN Head(todo) ELSE a

Uses(a) == uses[NameOf(a)]

Together(a) == NameOf(a) \in together

Active(a) == IF a = Root THEN phase = "resolving" ELSE state[a] = "resolving"

(* One connection, or `--all` of them.                                      *)
Init ==
  /\ uses \in [Names -> SUBSET Names]
  /\ together \in SUBSET Parallel
  /\ todo \in {<<n>> : n \in Names} \cup {SetToSeq(Names)}
  /\ state = [n \in Names |-> "unopened"]
  /\ got = [a \in Activities |-> {}]
  /\ waits = [a \in Activities |-> {}]
  /\ broken = {}
  /\ phase = "resolving"
  /\ outcome = "none"
  /\ faults = 0

(* Mutant of Refused: nothing is taken for a cycle.                         *)
Refused_Never(S) == {}

(* The siblings that are resolving when they are asked for: "Connection     *)
(* cycle detected".                                                         *)
Refused(S) == {m \in S : state[m] = "resolving"}

(* Those that have to be opened.                                            *)
New(S) == {m \in S : state[m] = "unopened"}

(* The siblings resolver a queries next: one more, or all of them.          *)
Queries(a) == IF Together(a) THEN {Uses(a) \ got[a]} ELSE {{m} : m \in Uses(a) \ got[a]}

(* What is open is used, what is not is opened.                             *)
Ask(a) ==
  /\ Active(a)
  /\ a \notin broken
  /\ waits[a] = {}
  /\ \E S \in Queries(a) \ {{}} :
       /\ state' = [m \in Names |-> IF m \in New(S) THEN "resolving" ELSE state[m]]
       /\ got' = [m \in Activities |->
            IF m = a THEN got[a] \cup (S \ (New(S) \cup Refused(S)))
            ELSE IF m \in New(S) THEN {}
            ELSE got[m]]
       /\ waits' = [waits EXCEPT ![a] = New(S)]
       /\ broken' = (broken \ New(S)) \cup (IF Refused(S) # {} THEN {a} ELSE {})
  /\ UNCHANGED <<config, todo, phase, outcome, faults>>

(* The client of sibling n is open: the activity that opened it goes on.    *)
Opened(n) ==
  /\ Active(n)
  /\ n \notin broken
  /\ got[n] = Uses(n)
  /\ state' = [state EXCEPT ![n] = "open"]
  /\ got' = [a \in Activities |-> IF n \in waits[a] THEN got[a] \cup {n} ELSE got[a]]
  /\ waits' = [a \in Activities |-> waits[a] \ {n}]
  /\ UNCHANGED <<config, todo, broken, phase, outcome, faults>>

(* Opening sibling n failed: it may be opened again, and the activity that  *)
(* opened it gets the error.                                                *)
Thrown(n) ==
  /\ state' = [state EXCEPT ![n] = "unopened"]
  /\ broken' = (broken \ {n}) \cup {a \in Activities : n \in waits[a]}
  /\ waits' = [a \in Activities |-> IF a = n THEN {} ELSE waits[a] \ {n}]
  /\ UNCHANGED <<config, todo, got, phase, outcome>>

(* The resolution of a target returns; the next one follows.                *)
Resolved ==
  /\ Active(Root)
  /\ Root \notin broken
  /\ got[Root] = Uses(Root)
  /\ todo' = Tail(todo)
  /\ got' = [got EXCEPT ![Root] = {}]
  /\ IF Tail(todo) # <<>>
     THEN UNCHANGED <<phase, outcome>>
     ELSE phase' = "closing" /\ outcome' = "resolved"
  /\ UNCHANGED <<config, state, waits, broken, faults>>

(* It throws.                                                               *)
GiveUp ==
  /\ phase' = "closing"
  /\ outcome' = "failed"
  /\ waits' = [waits EXCEPT ![Root] = {}]
  /\ UNCHANGED <<config, todo, state, got, broken>>

Reject(a) ==
  /\ Active(a)
  /\ a \in broken
  /\ IF a = Root THEN GiveUp ELSE Thrown(a)
  /\ UNCHANGED faults

(* A resolver or a connection attempt fails by itself.                      *)
Fault(a) ==
  /\ faults < MaxFaults
  /\ Active(a)
  /\ Together(a) \/ waits[a] = {}
  /\ IF a = Root THEN GiveUp ELSE Thrown(a)
  /\ faults' = faults + 1

(* The `finally`: what is open is closed, without a look at what is opening.*)
Close(n) ==
  /\ phase = "closing"
  /\ state[n] = "open"
  /\ state' = [state EXCEPT ![n] = "closed"]
  /\ UNCHANGED <<config, todo, got, waits, broken, phase, outcome, faults>>

Settle ==
  /\ phase = "closing"
  /\ \A n \in Names : state[n] # "open"
  /\ phase' = "settled"
  /\ UNCHANGED <<config, todo, state, got, waits, broken, outcome, faults>>

Next ==
  \/ \E a \in Activities : Ask(a) \/ Reject(a) \/ Fault(a)
  \/ \E n \in Names : Opened(n) \/ Close(n)
  \/ Resolved
  \/ Settle

Spec == Init /\ [][Next]_vars

(* Every query is answered or fails, and the CLI process goes on.           *)
Fairness ==
  /\ \A a \in Activities : WF_vars(Ask(a) \/ Reject(a))
  /\ \A n \in Names : WF_vars(Opened(n)) /\ WF_vars(Close(n))
  /\ WF_vars(Resolved \/ Settle)

FairSpec == Spec /\ Fairness

-----------------------------------------------------------------------------
(* Every variable has its type.                                             *)
TypeOK ==
  /\ uses \in [Names -> SUBSET Names]
  /\ together \subseteq Names
  /\ Range(todo) \subseteq Names
  /\ state \in [Names -> {"unopened", "resolving", "open", "closed"}]
  /\ \A a \in Activities : got[a] \cap waits[a] = {} /\ got[a] \cup waits[a] \subseteq Names
  /\ broken \subseteq Activities
  /\ phase \in {"resolving", "closing", "settled"}
  /\ phase = "resolving" <=> outcome = "none"
  /\ faults \in 0..MaxFaults

(* A target resolves only if nothing it reaches depends on itself, and a    *)
(* resolution that fails by itself had a cycle to find (resolve.ts:         *)
(* "Connection cycle detected"), if every resolver queries one sibling at a *)
(* time: two queries of a sibling that is still opening look like a cycle.  *)
OutcomeIsRight ==
  [][ /\ todo' # todo => ~ReachesCycle(Head(todo), uses)
      /\ outcome' # outcome /\ outcome' = "failed" /\ together = {} /\ faults' = 0
         => ReachesCycle(Head(todo), uses) ]_vars

(* What was opened to compute the connections is closed, also after an      *)
(* error in the middle of it.  A resolver with several queries under way is *)
(* excepted: a sibling that opens after the `finally` stays open.           *)
NothingStaysOpen ==
  together = {} /\ phase = "settled" =>
    \A n \in Names : state[n] \notin {"resolving", "open"}

(* The resolution ends, cycles or not (resolve.test.ts: "a resolution cycle *)
(* errors instead of looping").                                             *)
Settles == <>(phase = "settled")
=============================================================================
