------------------------------ MODULE KindPlan ------------------------------
(***************************************************************************)
(* The migration planner of the core: orderedChanges and planKinds         *)
(* (packages/core/src/kind/plan.ts), which turn two schema states into the *)
(* statements of a migration's `up` and `down` script, and the database    *)
(* that runs them: `up` from the old state, then `down` from the new one.  *)
(*                                                                         *)
(* A definition is what the order of statements depends on: the objects    *)
(* the engine reports as its dependencies (deps), the columns it has       *)
(* (cols), the columns of other objects it uses (uses), and the part of it *)
(* that no statement can change in place (hard).                           *)
(***************************************************************************)
EXTENDS TopoOrder

CONSTANTS
  Objects,      (* numbered by kind ordinal, then name                      *)
  Drivers,      (* the objects of each driver, listed: a schema belongs to  *)
                (* one                                                      *)
  Owner,        (* the object each one is clustered next to                 *)
  Definitions,  (* per object: the definitions it may have                  *)
  Absent,       (* no definition                                            *)
  InPlace,      (* objects whose kind has an `overwrite`                    *)
  Unmanaged,    (* objects of a kind that is excluded from migrations       *)
  Blocking,     (* objects that make the database refuse to drop a column   *)
                (* they use (a Postgres view)                               *)
  Cascading     (* objects whose drop takes what depends on them along      *)
                (* (DROP TABLE ... CASCADE of the Postgres driver)          *)

ASSUME ObjectsAssumption == IsFiniteSet(Objects) /\ Objects \subseteq Nat
ASSUME SetsAssumption ==
  /\ InPlace \subseteq Objects
  /\ Unmanaged \subseteq Objects
  /\ Blocking \subseteq Objects
  /\ Cascading \subseteq Objects
  /\ \A D \in Drivers : D \in Seq(Objects)
  /\ \A o \in Objects : Absent \notin Definitions[o]

(* What the engines report of a definition.  It uses columns of what it     *)
(* depends on or, like a view, whose query is text to the planner, of       *)
(* objects of a kind without dependencies that comes first; and nothing     *)
(* that migrations manage needs what they do not.                           *)
ASSUME DefinitionsAssumption ==
  \A o \in Objects \ Unmanaged : \A d \in Definitions[o] :
    /\ d.deps \cap Unmanaged = {}
    /\ \A u \in d.uses :
         /\ u[1] \notin Unmanaged
         /\ \/ u[1] \in d.deps
            \/ /\ u[1] < o /\ Owner[o] = NoOwner
               /\ \A e \in Definitions[u[1]] : e.deps = {}

VARIABLES
  prev,         (* the snapshot the migration was generated from            *)
  next,         (* the schema it was generated for                          *)
  db,           (* the database                                             *)
  todo,         (* the statements left to run                               *)
  phase         (* "up", "applied", "down", "reverted" or "failed"          *)

planVars == <<prev, next, db, todo, phase>>

-----------------------------------------------------------------------------
(* Schema states: a definition, or none, for every object.                  *)
Present(s) == {o \in Objects : s[o] # Absent}

(* What a definition needs is there.                                        *)
Holds(s, d) ==
  /\ d.deps \subseteq Present(s)
  /\ \A u \in d.uses : u[1] \in Present(s) /\ u[2] \in s[u[1]].cols

Sound(s) == \A o \in Present(s) : Holds(s, s[o])

(* The states a program can be in: everything has what it needs.            *)
Extended(some, o) == {[s EXCEPT ![o] = d] : s \in some, d \in Definitions[o] \cup {Absent}}

States == INSTANCE LeftFold WITH Step <- Extended

Schemas(D) ==
  {s \in States!Fold({[o \in Objects |-> Absent]}, D) :
     Sound(s) /\ ~HasCycle(Present(s), [o \in Present(s) |-> s[o].deps])}

-----------------------------------------------------------------------------
(* The planner.                                                             *)

(* Objects to create or overwrite, and objects to drop.                     *)
NonRemoved(p, n) == {o \in Present(n) \ Unmanaged : p[o] # n[o]}

Removed(p, n) == Present(p) \ (Present(n) \cup Unmanaged)

(* Both are ordered by what an object depends on: as it will be when it     *)
(* stays, as it was when it goes.                                           *)
Ordered(p, n, S) ==
  OrderOf(S, [o \in S |-> IF n[o] # Absent THEN n[o].deps ELSE p[o].deps], Owner)

EmitOf(o, d) == [op |-> "emit", obj |-> o, def |-> d]

RemoveOf(o, d) == [op |-> "remove", obj |-> o, def |-> d]

(* A change: in place where the kind can, else dropped and created again.   *)
Overwrite(o, a, b) ==
  IF o \in InPlace /\ a.hard = b.hard
  THEN <<[op |-> "alter", obj |-> o, def |-> b]>>
  ELSE <<RemoveOf(o, a), EmitOf(o, b)>>

(* From a to b for one object that is not dropped: its part of the script.  *)
Create(o, a, b) == IF a = Absent THEN <<EmitOf(o, b)>> ELSE Overwrite(o, a, b)

(* And back.                                                                *)
Undo(o, a, b) == IF a = Absent THEN <<RemoveOf(o, b)>> ELSE Overwrite(o, b, a)

(* The scripts go over the changes, in their order.                         *)
CreateOne(stmts, c) == stmts \o Create(c.obj, c.from, c.to)
UndoOne(stmts, c)   == stmts \o Undo(c.obj, c.from, c.to)

Creates == INSTANCE LeftFold WITH Step <- CreateOne
Undoes  == INSTANCE LeftFold WITH Step <- UndoOne

Changes(order, p, n) ==
  [i \in DOMAIN order |-> [obj |-> order[i], from |-> p[order[i]], to |-> n[order[i]]]]

Drops(order, p) == [i \in DOMAIN order |-> RemoveOf(order[i], p[order[i]])]

Emits(order, p) == [i \in DOMAIN order |-> EmitOf(order[i], p[order[i]])]

(* Mutant of Up: parents are dropped before their children.                 *)
Up_DropsInOrder(p, n) ==
  Creates!Fold(<<>>, Changes(Ordered(p, n, NonRemoved(p, n)), p, n))
  \o Drops(Ordered(p, n, Removed(p, n)), p)

(* `up`: creates and changes parent-first, then drops child-first.          *)
Up(p, n) ==
  Creates!Fold(<<>>, Changes(Ordered(p, n, NonRemoved(p, n)), p, n))
  \o Drops(Reverse(Ordered(p, n, Removed(p, n))), p)

(* `down`: recreates drops parent-first, then undoes creates and changes    *)
(* child-first.                                                             *)
Down(p, n) ==
  Emits(Ordered(p, n, Removed(p, n)), p)
  \o Undoes!Fold(<<>>, Changes(Reverse(Ordered(p, n, NonRemoved(p, n))), p, n))

-----------------------------------------------------------------------------
(* The database.                                                            *)

(* The columns a statement takes from its object.                           *)
Dropped(s, st) == s[st.obj].cols \ st.def.cols

(* A statement the database accepts: it creates what is not there, on what  *)
(* it needs, and drops no column that a blocking object uses.  Every drop   *)
(* says IF EXISTS.                                                          *)
Accepts(s, st) ==
  /\ st.op = "emit"  => s[st.obj] = Absent
  /\ st.op = "alter" => /\ s[st.obj] # Absent
                        /\ \A b \in Blocking \cap Present(s), c \in Dropped(s, st) :
                             <<st.obj, c>> \notin s[b].uses
  /\ st.op # "remove" => Holds(s, st.def)

(* What is left of s when everything goes that misses what it needs.        *)
Remains(s) ==
  LET keep(S) == [o \in Objects |-> IF o \in S THEN s[o] ELSE Absent]
      sound == {S \in SUBSET Present(s) : Sound(keep(S))}
  IN  keep(UNION sound)

After(s, st) ==
  LET t == [s EXCEPT ![st.obj] = IF st.op = "remove" THEN Absent ELSE st.def]
  IN  IF st.obj \in Cascading THEN Remains(t) ELSE t

-----------------------------------------------------------------------------
PlanInit ==
  /\ \E D \in Drivers : LET some == Schemas(D) IN prev \in some /\ next \in some
  /\ db = prev
  /\ todo = Up(prev, next)
  /\ phase = "up"

(* The next statement of the script.                                        *)
Run ==
  /\ todo # <<>>
  /\ phase \in {"up", "down"}
  /\ Accepts(db, Head(todo))
  /\ db' = After(db, Head(todo))
  /\ todo' = Tail(todo)
  /\ UNCHANGED <<prev, next, phase>>

(* The database refuses it: the transaction of the migration is aborted.    *)
Refuse ==
  /\ todo # <<>>
  /\ phase \in {"up", "down"}
  /\ ~Accepts(db, Head(todo))
  /\ phase' = "failed"
  /\ UNCHANGED <<prev, next, db, todo>>

Applied ==
  /\ phase = "up"
  /\ todo = <<>>
  /\ phase' = "applied"
  /\ UNCHANGED <<prev, next, db, todo>>

RollBack ==
  /\ phase = "applied"
  /\ phase' = "down"
  /\ todo' = Down(prev, next)
  /\ UNCHANGED <<prev, next, db>>

Reverted ==
  /\ phase = "down"
  /\ todo = <<>>
  /\ phase' = "reverted"
  /\ UNCHANGED <<prev, next, db, todo>>

PlanNext == Run \/ Refuse \/ Applied \/ RollBack \/ Reverted

-----------------------------------------------------------------------------
(* Two cases the planner does not order: an object of the old state used a  *)
(* column that its table loses, or depended on an object that is dropped    *)
(* and created again.                                                       *)
LosesUsedColumn ==
  \E r \in Present(prev) : \E u \in prev[r].uses :
    next[u[1]] # Absent /\ u[2] \notin next[u[1]].cols

RecreatesUnder ==
  \E o \in Present(prev) \cap Present(next), r \in Present(prev) :
    /\ prev[o] # next[o]
    /\ o \notin InPlace \/ prev[o].hard # next[o].hard
    /\ o \in prev[r].deps \cup {u[1] : u \in prev[r].uses}

Planned == ~LosesUsedColumn /\ ~RecreatesUnder

(* The objects migrations manage.                                           *)
Managed(s) == [o \in Objects \ Unmanaged |-> s[o]]

(* Every statement of a migration runs (plan.ts: "an executable up/down     *)
(* program"), outside the two cases the planner does not order, and at no   *)
(* point does an object miss what it depends on: a parent is created before *)
(* and dropped after its children, both ways.                               *)
StatementsRun ==
  Planned => phase # "failed" /\ \A o \in Present(db) \ Unmanaged : Holds(db, db[o])

(* `up` takes the managed objects from the snapshot to the schema and       *)
(* `down` takes them back, unless an object was created again under others  *)
(* that the cascade took along or, on the way back, a used column went.     *)
BothWays ==
  /\ ~RecreatesUnder /\ phase = "applied" => Managed(db) = Managed(next)
  /\ Planned /\ phase = "reverted" => Managed(db) = Managed(prev)

(* A migration runs to its end and makes of the snapshot the schema, its    *)
(* rollback makes of the schema the snapshot.                               *)
MigrationsArrive == StatementsRun /\ BothWays
=============================================================================
