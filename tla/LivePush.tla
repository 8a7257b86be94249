------------------------------- MODULE LivePush -------------------------------
(***************************************************************************)
(* `schemic push` on SurrealDB: the statements that take the live database *)
(* to the schema (diffSnapshots, drivers/surrealdb/src/cli/surreal-diff.ts;*)
(* diffAgainstDb and syncPlan, cli/introspect.ts), applied in one          *)
(* transaction.  Here an object is one DEFINE statement: a table, a field, *)
(* an index, an event, or a database-level object such as an analyzer.     *)
(***************************************************************************)
EXTENDS Integers, FiniteSets, Sequences

CONSTANTS
  Objects,      (* numbered in the order of a snapshot: each table with its *)
                (* fields, indexes and events, then the database-level ones *)
  Kind,         (* per object: "table", "field", "index", "event", or       *)
                (* "analyzer" for what is database-level                    *)
  Table,        (* per object: its table, or itself                         *)
  Uses,         (* per object: the database-level objects it references     *)
  Versions,     (* the definitions an object may have                       *)
  NoDef         (* no definition                                            *)

VARIABLES
  schema,   (* the schema files                                             *)
  db,       (* the database                                                 *)
  plan,     (* the statements to apply                                      *)
  prune,    (* not --no-prune                                               *)
  phase     (* "idle", "planned", "applied" or "failed"                     *)

vars == <<schema, db, plan, prune, phase>>

(* Fields, indexes and events belong to a table; what is database-level, and *)
(* a table, to itself.                                                       *)
WellFormed ==
  /\ IsFiniteSet(Objects) /\ Objects \subseteq Nat
  /\ Kind \in [Objects -> {"table", "field", "index", "event", "analyzer"}]
  /\ Table \in [Objects -> Objects] /\ Uses \in [Objects -> SUBSET Objects]
  /\ \A o \in Objects :
       IF Kind[o] \in {"table", "analyzer"} THEN Table[o] = o ELSE Kind[Table[o]] = "table"
  /\ NoDef \notin Versions

Present(s) == {o \in Objects : s[o] # NoDef}

(* Fields, indexes and events have their table, and what is used is there.  *)
Schemas == {s \in [Objects -> Versions \cup {NoDef}] :
  \A o \in Present(s) : {Table[o]} \cup Uses[o] \subseteq Present(s)}

-----------------------------------------------------------------------------
(* diffSnapshots.                                                           *)
Rank == [analyzer |-> 0, table |-> 1, field |-> 2, index |-> 3, event |-> 4]

(* Groups come in the order of the new snapshot, then of the old one.       *)
Group(o, new) ==
  IF \E k \in Present(new) : Table[k] = Table[o] THEN <<0, Table[o]>> ELSE <<1, Table[o]>>

Lower(x, y) == x[1] < y[1] \/ (x[1] = y[1] /\ x[2] < y[2])

(* A set in the order of the relation R: the i-th of it has i - 1 before it. *)
Sorted(S, R) ==
  [i \in 1..Cardinality(S) |-> CHOOSE x \in S : Cardinality({y \in S : <<y, x>> \in R}) = i - 1]

(* Statements are ordered by their group, then their rank; equal ones stay  *)
(* as they come.  Drops are in the opposite order.                          *)
CreatedBefore(new) == {p \in Objects \X Objects :
  LET g1 == Group(p[1], new) g2 == Group(p[2], new)
  IN  \/ Lower(g1, g2)
      \/ g1 = g2 /\ Lower(<<Rank[Kind[p[1]]], p[1]>>, <<Rank[Kind[p[2]]], p[2]>>)}

DroppedBefore(new) == {p \in Objects \X Objects :
  LET g1 == Group(p[1], new) g2 == Group(p[2], new)
  IN  \/ Lower(g2, g1)
      \/ g1 = g2 /\ Lower(<<Rank[Kind[p[2]]], p[1]>>, <<Rank[Kind[p[1]]], p[2]>>)}

CreateOrder(S, new) == Sorted(S, CreatedBefore(new))

DropOrder(S, new) == Sorted(S, DroppedBefore(new))

(* What is dropped; what belongs to a dropped table goes with it.           *)
Removed(old, new) ==
  LET gone == Present(old) \ Present(new)
  IN  {o \in gone : Table[o] = o \/ Table[o] \notin gone}

Added(old, new) == Present(new) \ Present(old)

Changed(old, new) == {o \in Present(old) \cap Present(new) : old[o] # new[o]}

Drop(o) == [op |-> "remove", obj |-> o, def |-> NoDef]

Define(o, d) == [op |-> "define", obj |-> o, def |-> d]

Overwrite(o, d) == [op |-> "overwrite", obj |-> o, def |-> d]

(* Mutant of Change: an index is defined without being dropped.             *)
Change_DefineOnly(o, d) ==
  IF Kind[o] = "index" THEN <<Define(o, d)>> ELSE <<Overwrite(o, d)>>

(* changeUp: an index is dropped and defined, the rest is changed in place. *)
Change(o, d) ==
  IF Kind[o] = "index" THEN <<Drop(o), Define(o, d)>> ELSE <<Overwrite(o, d)>>

ChangeUp(stmts, st) == stmts \o Change(st.obj, st.def)

Changes == INSTANCE LeftFold WITH Step <- ChangeUp

Up(old, new) ==
  LET removed == DropOrder(Removed(old, new), new)
      added   == CreateOrder(Added(old, new), new)
      changed == CreateOrder(Changed(old, new), new)
  IN  [i \in DOMAIN removed |-> Drop(removed[i])]
      \o [i \in DOMAIN added |-> Define(added[i], new[added[i]])]
      \o Changes!Fold(<<>>, [i \in DOMAIN changed |-> Overwrite(changed[i], new[changed[i]])])

(* syncPlan: --no-prune leaves every REMOVE out.                            *)
NotRemoving(kept, st) == IF st.op = "remove" THEN kept ELSE Append(kept, st)

Kept == INSTANCE LeftFold WITH Step <- NotRemoving

SyncPlan(up, pruning) == IF pruning THEN up ELSE Kept!Fold(<<>>, up)

-----------------------------------------------------------------------------
(* The database: a DEFINE without OVERWRITE is refused for what exists ("..*)
(* already exists" aborts the whole push), and REMOVE TABLE takes the parts *)
(* of the table along.                                                      *)
Accepts(s, st) ==
  /\ st.op = "define" => s[st.obj] = NoDef
  /\ st.op # "remove" /\ Table[st.obj] # st.obj => s[Table[st.obj]] # NoDef

After(s, st) ==
  IF st.op = "remove"
  THEN [o \in Objects |-> IF o = st.obj \/ Table[o] = st.obj THEN NoDef ELSE s[o]]
  ELSE [s EXCEPT ![st.obj] = st.def]

Applied == INSTANCE LeftFold WITH Step <- After

Result(s, stmts) == Applied!Fold(s, stmts)

Runs(s, stmts) ==
  \A i \in DOMAIN stmts : Accepts(Result(s, SubSeq(stmts, 1, i - 1)), stmts[i])

-----------------------------------------------------------------------------
Init ==
  /\ schema \in Schemas
  /\ db \in Schemas
  /\ plan = <<>>
  /\ prune = TRUE
  /\ phase = "idle"

(* diffLive reads the database and plans.                                   *)
Plan ==
  /\ phase = "idle"
  /\ prune' \in BOOLEAN
  /\ plan' = SyncPlan(Up(db, schema), prune')
  /\ phase' = "planned"
  /\ UNCHANGED <<schema, db>>

(* The statements are applied in one transaction.                           *)
Apply ==
  /\ phase = "planned"
  /\ IF Runs(db, plan)
     THEN db' = Result(db, plan) /\ phase' = "applied"
     ELSE UNCHANGED db /\ phase' = "failed"
  /\ UNCHANGED <<schema, plan, prune>>

Next == Plan \/ Apply

Spec == Init /\ [][Next]_vars

-----------------------------------------------------------------------------
(* A push with pruning is accepted, whatever the database holds, and makes  *)
(* it the schema.                                                           *)
PushReachesSchema ==
  prune => phase # "failed" /\ (phase = "applied" => db = schema)

(* With --no-prune, what is accepted creates and changes all there is to,   *)
(* and what the schema lacks stays ("keep objects that were removed from    *)
(* the schema").                                                            *)
NoPruneKeepsExtras ==
  phase = "planned" /\ ~prune /\ Runs(db, plan) =>
    \A o \in Objects : Result(db, plan)[o] = IF schema[o] # NoDef THEN schema[o] ELSE db[o]
=============================================================================
