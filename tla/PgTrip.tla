------------------------------- MODULE PgTrip --------------------------------
(***************************************************************************)
(* The Postgres driver: `gen` plans the statements from the snapshot to    *)
(* the schema (kinds.ts, the planner of core), `migrate` runs them,        *)
(* `rollback` runs the statements back, `diff` compares the schema with    *)
(* the catalog (driver.ts).                                                *)
(*                                                                         *)
(* A database is a function from the kind and name of an object to what    *)
(* its CREATE said; of the tables, columns are altered in place.  Tables   *)
(* are empty: no statement fails for the rows.                             *)
(***************************************************************************)
EXTENDS PgForms

CONSTANTS
  Corpus,    (* the schemas the files may hold                              *)
  UserTypes  (* the types schemas define: a name to the key that defines it *)

VARIABLES
  declared,  (* the schema files                                            *)
  stored,    (* the snapshot: key to object                                 *)
  db,        (* the database                                                *)
  from,      (* the snapshot the last migration starts from                 *)
  was,       (* the database it starts from                                 *)
  last,      (* the last command                                            *)
  failed     (* the database refused a statement                            *)

vars == <<declared, stored, db, from, was, last, failed>>

-----------------------------------------------------------------------------
(* The engines: what an object is created by, removed by, and altered by.   *)
Create(o) == [do |-> "create", key |-> Key(o), def |-> o]
Drop(o) == [do |-> "remove", key |-> Key(o)]
Alter(o, column, clause, to) ==
  [do |-> clause, key |-> Key(o), column |-> column, to |-> to]

Clause(f, c) == IF c \in DOMAIN f THEN f[c] ELSE <<>>

emit(o) ==
  CASE o.kind = "table" ->
         <<Create([kind |-> "table", name |-> o.name]
                  @@ createTableDdl(o.fields, o.primaryKey, o.checks))>>
         \o LET said == Sorted({f \in DOMAIN o.fields : "comment" \in DOMAIN o.fields[f]})
            IN [i \in DOMAIN said |-> Alter(o, said[i], "comment", o.fields[said[i]]["comment"])]
    [] o.kind = "policy" ->
         <<Create([kind |-> "rls", name |-> <<o.table>>, table |-> o.table]), Create(o)>>
    [] OTHER -> <<Create(o)>>

hasHardClause(f) == DOMAIN f \cap {"identity", "computed", "check"} # {}

(* A change of an existing field is all that counts.                        *)
changesHard_KeptOnly(prev, next) ==
  \/ prev.primaryKey # next.primaryKey
  \/ \E f \in DOMAIN prev.fields \cap DOMAIN next.fields :
       hasHardClause(next.fields[f]) /\ prev.fields[f] # next.fields[f]
changesHard(prev, next) ==
  LET old == prev.fields
      new == next.fields
  IN \/ prev.primaryKey # next.primaryKey
     \/ prev.checks # next.checks
     \/ \E f \in DOMAIN old \cap DOMAIN new :
          (hasHardClause(old[f]) \/ hasHardClause(new[f])) /\ old[f] # new[f]
     \/ \E f \in DOMAIN new \ DOMAIN old : hasHardClause(new[f])
     \/ \E f \in DOMAIN old \ DOMAIN new : hasHardClause(old[f])

alterColumn(o, f, old, new) ==
  LET c(clause, a, b) == IF a = b THEN <<>> ELSE <<Alter(o, f, clause, b)>>
  IN c("sql", pgColumn(old["type"]).sql, pgColumn(new["type"]).sql)
     \o c("nullable", pgColumn(old["type"]).nullable, pgColumn(new["type"]).nullable)
     \o c("default", Clause(old, "default"), Clause(new, "default"))
     \o c("comment", Clause(old, "comment"), Clause(new, "comment"))

isAppendOnly(prev, next) == IsPrefix(prev, next)

recreates(prev, next) ==
  CASE prev.kind = "table" -> changesHard(prev, next)
    [] prev.kind = "enum" -> ~isAppendOnly(prev.values, next.values)
    [] OTHER -> TRUE

overwrite(prev, next) ==
  IF recreates(prev, next) THEN <<Drop(prev)>> \o emit(next)
  ELSE IF prev.kind = "enum"
  THEN [i \in 1..(Len(next.values) - Len(prev.values)) |->
          Alter(next, "", "value", next.values[Len(prev.values) + i])]
  ELSE LET old   == prev.fields
           new   == next.fields
           added == Sorted(DOMAIN new \ DOMAIN old)
           both  == Sorted(DOMAIN new \cap DOMAIN old)
           gone  == Sorted(DOMAIN old \ DOMAIN new)
       IN [i \in DOMAIN added |-> Alter(next, added[i], "add", fieldColumnDdl(new[added[i]]))]
          \o FlattenSeq([i \in DOMAIN both |-> alterColumn(next, both[i], old[both[i]], new[both[i]])])
          \o [i \in DOMAIN gone |-> Alter(next, gone[i], "drop", <<>>)]

-----------------------------------------------------------------------------
(* The planner.  An object stands on objects of earlier kinds only: it is   *)
(* the order of the kinds, and of the names within a kind.                  *)
Ordinal(kind) == CHOOSE i \in DOMAIN Kinds : Kinds[i] = kind
Before(j, k) == \/ Ordinal(j[1]) < Ordinal(k[1])
                \/ j[1] = k[1] /\ Precedes(j[2], k[2])
Ordered(keys) == SortSeq(FoldSet(LAMBDA k, seq : Append(seq, k), <<>>, keys), Before)

Changed(prev, next) ==
  {k \in DOMAIN prev \cap DOMAIN next : canonicalOf(prev[k]) # canonicalOf(next[k])}

planUp_RemovesFirst(prev, next) ==
  LET writes  == Ordered((DOMAIN next \ DOMAIN prev) \cup Changed(prev, next))
      removes == Ordered(DOMAIN prev \ DOMAIN next)
  IN [i \in DOMAIN removes |-> Drop(prev[removes[i]])]
     \o FlattenSeq([i \in DOMAIN writes |->
          IF writes[i] \in DOMAIN prev THEN overwrite(prev[writes[i]], next[writes[i]])
          ELSE emit(next[writes[i]])])
planUp(prev, next) ==
  LET writes  == Ordered((DOMAIN next \ DOMAIN prev) \cup Changed(prev, next))
      removes == Reverse(Ordered(DOMAIN prev \ DOMAIN next))
  IN FlattenSeq([i \in DOMAIN writes |->
       IF writes[i] \in DOMAIN prev THEN overwrite(prev[writes[i]], next[writes[i]])
       ELSE emit(next[writes[i]])])
     \o [i \in DOMAIN removes |-> Drop(prev[removes[i]])]

(* A change is written again instead of being taken back.                   *)
planDown_Again(prev, next) ==
  LET emits   == Ordered(DOMAIN prev \ DOMAIN next)
      reverts == Reverse(Ordered((DOMAIN next \ DOMAIN prev) \cup Changed(prev, next)))
  IN FlattenSeq([i \in DOMAIN emits |-> emit(prev[emits[i]])])
     \o FlattenSeq([i \in DOMAIN reverts |->
          IF reverts[i] \in DOMAIN prev THEN overwrite(prev[reverts[i]], next[reverts[i]])
          ELSE <<Drop(next[reverts[i]])>>])
planDown(prev, next) ==
  LET emits   == Ordered(DOMAIN prev \ DOMAIN next)
      reverts == Reverse(Ordered((DOMAIN next \ DOMAIN prev) \cup Changed(prev, next)))
  IN FlattenSeq([i \in DOMAIN emits |-> emit(prev[emits[i]])])
     \o FlattenSeq([i \in DOMAIN reverts |->
          IF reverts[i] \in DOMAIN prev THEN overwrite(next[reverts[i]], prev[reverts[i]])
          ELSE <<Drop(next[reverts[i]])>>])

-----------------------------------------------------------------------------
(* The database: what an object uses, columns included.                     *)
TableKey(t) == <<"table", <<t>>>>
ColumnKey(t, c) == <<"column", <<t, c>>>>
ColumnKeys(t, cols) == {ColumnKey(t, c) : c \in cols}

ColumnUses(c) ==
  (IF c["sql"].base \in DOMAIN UserTypes THEN {UserTypes[c["sql"].base]} ELSE {})
  \cup (IF Len(Clause(c, "default")) = 2 THEN {<<"sequence", <<c["default"][2]>>>>} ELSE {})

Uses(o) ==
  CASE o.kind = "table" -> UNION {ColumnUses(o.cols[c]) : c \in DOMAIN o.cols}
    [] o.kind = "index" -> {TableKey(o.table)} \cup ColumnKeys(o.table, ToSet(o.cols))
    [] o.kind = "constraint" -> {TableKey(o.table), TableKey(o.refTable)}
         \cup ColumnKeys(o.table, ToSet(o.columns)) \cup ColumnKeys(o.refTable, ToSet(o.refColumns))
    [] o.kind = "trigger" -> {TableKey(o.table), <<"function", <<o.fn>>>>}
    [] o.kind \in {"policy", "rls"} -> {TableKey(o.table)}
    [] o.kind \in {"view", "matview"} -> o.reads
    [] OTHER -> {}

Present(d) ==
  DOMAIN d \cup UNION {ColumnKeys(k[2][1], DOMAIN d[k].cols) : k \in {k \in DOMAIN d : k[1] = "table"}}

(* A foreign key stands on a unique key of the columns it refers to.        *)
Keyed(d, fk) ==
  LET t == d[TableKey(fk.refTable)]
  IN \/ t.primaryKey = fk.refColumns
     \/ \E k \in DOMAIN d : /\ k[1] = "index" /\ d[k].unique /\ d[k].where = ""
                            /\ d[k].table = fk.refTable /\ d[k].cols = fk.refColumns
Backs(ix, o) == /\ ix.kind = "index" /\ o.kind = "constraint"
                /\ ix.table = o.refTable /\ ix.cols = o.refColumns
Users(d, k) ==
  {u \in DOMAIN d : k \in Uses(d[u]) \/ (k \in DOMAIN d /\ Backs(d[k], d[u]))}

Base(d, t, c) == d[TableKey(t)].cols[c]["sql"]
Fits(d, o) ==
  CASE o.kind = "constraint" ->
         /\ Keyed(d, o)
         /\ \A i \in DOMAIN o.columns :
              Base(d, o.table, o.columns[i]).base = Base(d, o.refTable, o.refColumns[i]).base
    [] o.kind = "index" ->
         o.method = "gin" => \A c \in ToSet(o.cols) : Base(d, o.table, c).base = "jsonb"
    [] OTHER -> TRUE

(* The casts ALTER COLUMN ... TYPE makes without a USING.                   *)
Alike == {{"integer", "bigint", "smallint", "real", "double precision", "numeric"},
          {"timestamp", "timestamp with time zone"}}
Castable(a, b) ==
  /\ a.dims = b.dims
  /\ \/ a.base = b.base
     \/ b.base \in {"text", "varchar", "char"}
     \/ \E family \in Alike : {a.base, b.base} \subseteq family

RECURSIVE Cascade(_, _)
Cascade(d, keys) ==
  LET more == keys \cup {u \in DOMAIN d : keys \cap Uses(d[u]) # {}}
  IN IF more = keys THEN keys ELSE Cascade(d, more)

(* What goes with a column: its table's own indexes and constraints.        *)
OnColumn(d, t, c) ==
  {u \in Users(d, ColumnKey(t, c)) : /\ u[1] \in {"index", "constraint"} /\ d[u].table = t
                                     /\ u[1] = "constraint" => c \in ToSet(d[u].columns)}
Retypable(d, t, c, old, new) ==
  /\ Castable(old, new)
  /\ \A u \in Users(d, ColumnKey(t, c)) : u[1] = "index" /\ d[u].method = "btree"
Droppable(d, t, c) == Users(d, ColumnKey(t, c)) \subseteq OnColumn(d, t, c)

Lax == {"extension", "rls"}
Refuses(d, s) ==
  LET k == s.key
      t == k[2][1]
  IN CASE s.do = "create" ->
            \/ k \in DOMAIN d /\ k[1] \notin Lax
            \/ ~(Uses(s.def) \subseteq Present(d))
            \/ ~Fits(d, s.def)
       [] s.do = "remove" -> k[1] # "table" /\ k \in DOMAIN d /\ Users(d, k) # {}
       [] k \notin DOMAIN d -> TRUE
       [] s.do = "value" -> s.to \in ToSet(d[k].values)
       [] s.do = "add" -> s.column \in DOMAIN d[k].cols \/ ~(ColumnUses(s.to) \subseteq DOMAIN d)
       [] s.do = "drop" -> ~Droppable(d, t, s.column)
       [] s.column \notin DOMAIN d[k].cols -> TRUE
       [] s.do = "sql" ->
            ~Retypable(d, t, s.column, d[k].cols[s.column]["sql"], s.to)
            \/ ~(ColumnUses("sql" :> s.to) \subseteq DOMAIN d)
       [] s.do = "default" -> ~(ColumnUses([sql |-> d[k].cols[s.column]["sql"], default |-> s.to])
                                \subseteq DOMAIN d)
       [] OTHER -> FALSE

Execute(d, s) ==
  LET k == s.key
      col == s.column
      set(cols) == [d EXCEPT ![k].cols = cols]
      cols == d[k].cols
  IN CASE s.do = "create" -> d @@ (k :> s.def)
       [] s.do = "remove" -> Without(d, IF k \in DOMAIN d THEN Cascade(d, {k}) ELSE {})
       [] s.do = "value" -> [d EXCEPT ![k].values = Append(@, s.to)]
       [] s.do = "add" -> set(cols @@ (col :> s.to))
       [] s.do = "drop" -> Without(set(Without(cols, {col})), OnColumn(d, k[2][1], col))
       [] s.do \in {"default", "comment"} /\ s.to = <<>> -> set([cols EXCEPT ![col] = Without(@, {s.do})])
       [] OTHER -> set([cols EXCEPT ![col] = (s.do :> s.to) @@ @])

(* A script runs in one transaction.                                        *)
Run(d, statements) ==
  LET step(r, s) == IF ~r.ok \/ Refuses(r.db, s) THEN [ok |-> FALSE, db |-> d]
                    ELSE [ok |-> TRUE, db |-> Execute(r.db, s)]
  IN FoldLeft(step, [ok |-> TRUE, db |-> d], statements)

Fresh(objects) == Run(<<>>, planUp(<<>>, objects)).db

-----------------------------------------------------------------------------
(* The catalog, read.  A foreign key of one column to `id` is the reference *)
(* of its field, any other is the table's.                                  *)
Kind(d, kind) == {d[k] : k \in {k \in DOMAIN d : k[1] = kind}}

singleId(fk) == Len(fk.columns) = 1 /\ fk.refColumns = <<"id">>

isImplicit(t) ==
  /\ t.primaryKey = <<"id">>
  /\ t.cols["id"]["sql"].base = "text" /\ "identity" \notin DOMAIN t.cols["id"]

introspectField(d, t, c) ==
  LET col == t.cols[c]
      fks == {fk \in Kind(d, "constraint") : fk.table = t.name[1] /\ singleId(fk) /\ fk.columns = <<c>>}
      type == IF fks # {} THEN Type(<<>>, <<"record", (CHOOSE fk \in fks : TRUE).refTable>>)
              ELSE introspectType(ColRow(col["sql"]))
  IN ("type" :> IF col["nullable"] THEN [type EXCEPT !.wraps = <<"nullable">> \o @] ELSE type)
     @@ Only(col, {"identity"})
     @@ When(fks # {}, "reference" :> (CHOOSE fk \in fks : TRUE).actions)

(* The database reports a predicate in words of its own.                    *)
pgIntrospect(d, t) ==
  [name |-> t.name[1],
   fields |-> [c \in DOMAIN t.cols \ (IF isImplicit(t) THEN {"id"} ELSE {}) |->
                 introspectField(d, t, c)],
   indexes |-> {Index(ix.name, ix.cols, ix.unique, ix.method,
                      IF ix.where = "" THEN "" ELSE "(reported)") :
                  ix \in {ix \in Kind(d, "index") : ix.table = t.name[1]}},
   primaryKey |-> IF isImplicit(t) THEN <<>> ELSE t.primaryKey,
   checks |-> <<>>,
   foreignKeys |-> {fk \in Kind(d, "constraint") : fk.table = t.name[1] /\ ~singleId(fk)}]

introspectOther(o) ==
  CASE o.kind = "sequence" -> [o EXCEPT !.attrs = @ @@ seqDefaults]
    [] o.kind = "domain" ->
         [o EXCEPT !.base = IF @[1] \in DOMAIN DataType THEN [@ EXCEPT ![1] = DataType[@]] ELSE @]
    [] OTHER -> o

introspectAll(d) ==
  FlattenSeq(SetToSeq({splitTable(pgIntrospect(d, t)) : t \in Kind(d, "table")}))
  \o SetToSeq({introspectOther(d[k]) :
                 k \in {k \in DOMAIN d : k[1] \notin {"table", "index", "constraint", "rls"}}})

-----------------------------------------------------------------------------
(* Commands.                                                                *)
Init ==
  /\ declared \in Corpus
  /\ stored = <<>> /\ db = <<>> /\ from = <<>> /\ was = <<>>
  /\ last = "edit"
  /\ failed = FALSE

Kept(prev, next) == (DOMAIN prev \cap DOMAIN next) \ Changed(prev, next)

(* The changes a script cannot make, or pays for with other objects: the    *)
(* objects in `settled` that its statements do not make again.              *)
Exceptional(d, prev, next, settled) ==
  \/ \E k \in Changed(prev, next) :
       \/ /\ recreates(prev[k], next[k])
          /\ \E u \in Users(d, k) : k[1] = "table" => u \in settled
       \/ /\ k[1] = "table" /\ ~recreates(prev[k], next[k])
          /\ \E c \in DOMAIN prev[k].fields :
               IF c \notin DOMAIN next[k].fields THEN ~Droppable(d, k[2][1], c)
               ELSE LET old == pgColumn(prev[k].fields[c]["type"]).sql
                        new == pgColumn(next[k].fields[c]["type"]).sql
                    IN old # new /\ ~Retypable(d, k[2][1], c, old, new)
  (* A use whose end did not count as a change: the database still has it.  *)
  \/ \E k \in DOMAIN prev \ DOMAIN next :
       \E u \in Users(d, k) \cap DOMAIN next :
         u \in Kept(prev, next) \/ k \notin Uses(Fresh(prev)[u])

ByHand == Exceptional(was, from, stored, Kept(from, stored))

(* `down` makes what was removed before it takes back what was changed.     *)
BackByHand ==
  LET removed == Only(Fresh(from), DOMAIN from \ DOMAIN stored)
  IN \/ Exceptional(was, stored, from, Kept(from, stored) \cup DOMAIN removed)
     \/ \E u \in DOMAIN removed :
          ~(Uses(removed[u]) \subseteq Present(db) \cup Present(removed))

Edit ==
  /\ last = "migrate" /\ ~failed /\ ~ByHand
  /\ declared' \in Corpus \ {declared}
  /\ last' = "edit"
  /\ from' = <<>> /\ was' = <<>>
  /\ UNCHANGED <<stored, db, failed>>

(* A script that fails changes nothing.                                     *)
Runs(statements, command) ==
  LET r == Run(db, statements)
  IN /\ db' = r.db
     /\ failed' = ~r.ok
     /\ last' = command

(* gen writes no migration, and no snapshot, when there is nothing to do.   *)
Migrate ==
  LET next == byKey(explode(declared))
      up == planUp(stored, next)
  IN /\ last = "edit"
     /\ Runs(up, "migrate")
     /\ stored' = IF up = <<>> THEN stored ELSE next
     /\ from' = stored
     /\ was' = db
     /\ UNCHANGED declared

Rollback ==
  /\ last = "migrate" /\ ~failed /\ ~ByHand /\ from # stored
  /\ Runs(planDown(from, stored), "rollback")
  /\ UNCHANGED <<declared, stored, from, was>>

(* The migration is pending again.                                          *)
Reapply ==
  /\ last = "rollback" /\ ~failed /\ ~BackByHand
  /\ Runs(planUp(from, stored), "migrate")
  /\ UNCHANGED <<declared, stored, from, was>>

Next == Edit \/ Migrate \/ Rollback \/ Reapply

Spec == Init /\ [][Next]_vars

-----------------------------------------------------------------------------
(* The database refuses no script: not that of a migration and not that of  *)
(* a rollback, except for the changes that have to be made by hand.         *)
ScriptsRun ==
  failed => IF last = "migrate" THEN ByHand ELSE BackByHand

(* After `migrate`, `diff` finds nothing: the catalog reads back as the     *)
(* objects the schema lowers to.                                            *)
NothingToDiff ==
  last = "migrate" /\ ~failed /\ ~ByHand =>
    planUp(byKey(introspectAll(db)), byKey(explode(declared))) = <<>>

(* What the two properties below leave out: the comment of a column that is *)
(* new, and an object the database has had in another form than the         *)
(* snapshot since a change that does not count as one (a body, a predicate, *)
(* a default by itself).                                                    *)
Uncommented(k, o) ==
  LET columns(objects) == IF k \in DOMAIN objects THEN DOMAIN objects[k].fields ELSE {}
  IN IF k[1] # "table" THEN o
     ELSE [o EXCEPT !.cols = [c \in DOMAIN @ |-> IF c \in columns(from) \cap columns(stored) THEN @[c]
                                                ELSE Without(@[c], {"comment"})]]
Behind(k, before) == Uncommented(k, was[k]) # Uncommented(k, before[k])
Same(k, d, e) == k \in DOMAIN d /\ Uncommented(k, d[k]) = Uncommented(k, e[k])

(* A migration leaves no object out and none over: what the steps make of   *)
(* the database, one migration after the other, is what the statements of   *)
(* the whole schema make of an empty one.  Row level security stays on.     *)
StepsArrive ==
  LET before == Fresh(from)
      after  == Fresh(stored)
  IN last = "migrate" /\ ~failed /\ ~ByHand =>
       /\ \A k \in DOMAIN db \ DOMAIN after : k[1] = "rls"
       /\ \A k \in DOMAIN after :
            \/ k \in DOMAIN from /\ Behind(k, before)
            \/ k \in Kept(from, stored) /\ from[k] # stored[k]
            \/ Same(k, db, after)

(* `rollback` takes the database back to where it was.                      *)
RollbackRestores ==
  LET before == Fresh(from)
  IN last = "rollback" /\ ~failed /\ ~BackByHand =>
    /\ \A k \in DOMAIN from : Behind(k, before) \/ Same(k, db, was)
    /\ \A k \in DOMAIN db \ DOMAIN was : k[1] = "rls"
=============================================================================
