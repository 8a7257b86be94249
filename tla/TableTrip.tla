----------------------------- MODULE TableTrip ------------------------------
(***************************************************************************)
(* One table of the SurrealDB driver on its way round: `gen` and `migrate` *)
(* (kinds/registry.ts, cli/surreal-diff.ts), which alter the database from *)
(* the snapshot to the schema, and `rollback`; `push`, which compares the  *)
(* database with a shadow of the schema (cli/introspect.ts); and `pull`,   *)
(* which writes the schema file from the database (cli/pull.ts).           *)
(*                                                                         *)
(* A statement has what it does, the key it is about, the clauses it sets  *)
(* and those it drops, and whether it may define what is there already.    *)
(***************************************************************************)
EXTENDS TableForms

CONSTANT Corpus    (* the definitions the schema file may have              *)

(* What it must be, assumed by the module that TLC checks.                  *)
CorpusAssumption == NoTable \notin Corpus

VARIABLES
  declared,  (* the schema file: a definition, or NoTable                   *)
  stored,    (* the snapshot                                                *)
  db,        (* the database                                                *)
  script,    (* the last migration: up, down, and the database before it    *)
  last,      (* the last command                                            *)
  failed     (* the database refused a statement                            *)

vars == <<declared, stored, db, script, last, failed>>

-----------------------------------------------------------------------------
(* The difference of two sets of canonical statements.                      *)
Define(k, clauses) ==
  [do |-> "define", key |-> k, set |-> clauses, drop |-> {}, overwrite |-> FALSE]
removeStatement(k) ==
  [do |-> "remove", key |-> k, set |-> <<>>, drop |-> {}, overwrite |-> FALSE]
Alter(k, clauses, drop) ==
  [do |-> "alter", key |-> k, set |-> clauses, drop |-> drop, overwrite |-> FALSE]
overwriteStatement_TableOnly(s) == [s EXCEPT !.overwrite = @ \/ (s.do = "define" /\ s.key = Table)]
overwriteStatement(s) ==
  [s EXCEPT !.overwrite = @ \/ s.do = "define"]

(* What ALTER can set and drop; the rest takes DEFINE ... OVERWRITE.        *)
Alterable(k) ==
  IF k = Table THEN {"SCHEMA", "CHANGEFEED", "COMMENT", "PERMISSIONS"}
  ELSE {"TYPE", "FLEXIBLE", "REFERENCE", "DEFAULT", "VALUE", "ASSERT", "READONLY",
        "COMMENT", "PERMISSIONS"}
Droppable(k) ==
  IF k = Table THEN {"CHANGEFEED", "COMMENT"}
  ELSE {"FLEXIBLE", "READONLY", "VALUE", "ASSERT", "DEFAULT", "COMMENT", "REFERENCE"}

(* PERMISSIONS cannot be dropped: the reset is forgotten.                   *)
alterField_NoReset(k, old, new) ==
  LET changed == {c \in DOMAIN old \cup DOMAIN new :
                    c \notin DOMAIN old \cap DOMAIN new \/ old[c] # new[c]}
      gone    == changed \ DOMAIN new
  IN IF changed \subseteq Alterable(k) /\ gone \subseteq Droppable(k) \cup {"PERMISSIONS"}
     THEN <<Alter(k, Only(new, changed), gone \ {"PERMISSIONS"})>>
     ELSE <<overwriteStatement(Define(k, new))>>
alterField(k, old, new) ==
  LET changed == {c \in DOMAIN old \cup DOMAIN new :
                    c \notin DOMAIN old \cap DOMAIN new \/ old[c] # new[c]}
      gone    == changed \ DOMAIN new
  IN IF changed \subseteq Alterable(k) /\ gone \subseteq Droppable(k) \cup {"PERMISSIONS"}
     THEN <<Alter(k, Only(new, changed)
                     @@ When("PERMISSIONS" \in gone, "PERMISSIONS" :> Each(k, Default(k))),
                  gone \ {"PERMISSIONS"})>>
     ELSE <<overwriteStatement(Define(k, new))>>

changeUp(k, old, new) ==
  CASE k = Table \/ IsField(k) -> alterField(k, old, new)
    [] k[1] = "index" -> <<removeStatement(k), Define(k, new)>>
    [] OTHER -> <<overwriteStatement(Define(k, new))>>

diffSnapshots(old, new) ==
  LET gone    == {k \in DOMAIN old \ DOMAIN new : k = Table \/ Table \in DOMAIN new}
      added   == Created(DOMAIN new \ DOMAIN old)
      changed == Created({k \in DOMAIN old \cap DOMAIN new : old[k] # new[k]})
      drops   == Reverse(Created(gone))
  IN [i \in DOMAIN drops |-> removeStatement(drops[i])]
     \o [i \in DOMAIN added |-> Define(added[i], new[added[i]])]
     \o FlattenSeq([i \in DOMAIN changed |-> changeUp(changed[i], old[changed[i]], new[changed[i]])])

(* The table with its fields is one object of the planner, every index and  *)
(* event is another: they go before it and come after it.  A migration may  *)
(* define what is there already.                                            *)
TablePart(s) == Only(s, {k \in DOMAIN s : k = Table \/ IsField(k)})
Around(s) == Without(s, DOMAIN TablePart(s))
planMigration(from, to) ==
  LET old == structuredSnapshot(from)
      new == structuredSnapshot(to)
      gone == Reverse(Created(DOMAIN Around(old) \ DOMAIN new))
      kept == Only(Around(old), DOMAIN new)
      plan == [i \in DOMAIN gone |-> removeStatement(gone[i])]
              \o diffSnapshots(TablePart(old), TablePart(new))
              \o diffSnapshots(kept, Around(new))
  IN [i \in DOMAIN plan |-> overwriteStatement(plan[i])]

-----------------------------------------------------------------------------
(* The database.  It reports a type in its own form, completes permissions, *)
(* and makes the elements of a list itself (AUTO), as long as they are      *)
(* listed; of an element that is there it changes the type only.            *)
RECURSIVE Elements(_, _)
Elements(path, kind) ==
  IF ElementOf(kind) = AnyType THEN <<>>
  ELSE (FieldAt(Append(path, "*")) :> ElementOf(kind)) @@ Elements(Append(path, "*"), ElementOf(kind))

Complete(k, clauses) ==
  LET said == IF "PERMISSIONS" \in DOMAIN clauses THEN clauses["PERMISSIONS"] ELSE <<>>
  IN When(k = Table \/ IsField(k), "PERMISSIONS" :> (said @@ Each(k, Default(k))))
     @@ When("TYPE" \in DOMAIN clauses /\ IsField(k), "TYPE" :> Reported(clauses["TYPE"]))
     @@ clauses

WithElements(d, k) ==
  LET made == IF k \in DOMAIN d THEN Elements(k[2], d[k]["TYPE"]) ELSE <<>>
      stale == {e \in DOMAIN d : /\ IsElement(e) /\ "AUTO" \in DOMAIN d[e]
                                 /\ IsStrictPrefix(k[2], e[2]) /\ e \notin DOMAIN made
                                 /\ Range(SubSeq(e[2], Len(k[2]) + 1, Len(e[2]))) = {"*"}}
  IN [e \in (DOMAIN d \ stale) \cup DOMAIN made |->
        IF e \notin DOMAIN made THEN d[e]
        ELSE ("TYPE" :> made[e])
             @@ IF e \in DOMAIN d THEN d[e] ELSE Complete(e, "AUTO" :> "yes")]

Refuses(d, s) ==
  \/ s.do = "define" /\ s.key \in DOMAIN d /\ ~s.overwrite
  \/ s.do = "define" /\ s.key # Table /\ Table \notin DOMAIN d
  \/ s.do = "alter" /\ s.key \notin DOMAIN d

Execute(d, s) ==
  LET k == s.key
      done ==
        CASE s.do = "define" -> (k :> Complete(k, s.set)) @@ d
          [] s.do = "alter" -> (k :> Without(Complete(k, s.set @@ d[k]), s.drop)) @@ d
          [] k = Table -> NoTable
          [] OTHER -> Without(d, {k})
  IN IF IsField(k) THEN WithElements(done, k) ELSE done

(* A script runs in one transaction: [ok, db].                              *)
Run(d, statements) ==
  LET step(r, s) == IF ~r.ok \/ Refuses(r.db, s) THEN [ok |-> FALSE, db |-> d]
                    ELSE [ok |-> TRUE, db |-> Execute(r.db, s)]
  IN FoldLeft(step, [ok |-> TRUE, db |-> d], statements)

Introspected(d) == [k \in DOMAIN d |-> Without(d[k], {"AUTO"})]

-----------------------------------------------------------------------------
(* What push compares: both sides as the database reports them.             *)
shadow(t) ==
  LET s == emitStatements(t)
      keys == Created(DOMAIN s)
  IN Run(NoTable, [i \in DOMAIN keys |-> Define(keys[i], s[keys[i]])])

diffAgainstDb(d, t) ==
  diffSnapshots(structuredSnapshot(Introspected(d)),
                structuredSnapshot(Introspected(shadow(t).db)))

(* The schema pull writes for a table.                                      *)
RECURSIVE renderField(_, _)
renderField(s, path) ==
  LET k     == FieldAt(path)
      below == {c[2][Len(path) + 1] : c \in {c \in DOMAIN s : IsField(c) /\ IsStrictPrefix(path, c[2])}}
      p     == s[k]
      wrap  == unwrapType(p["TYPE"])
      loose == "FLEXIBLE" \in DOMAIN p
      shape == [c \in below \ {"*"} |-> renderField(s, Append(path, c))]
      nullable(n) == IF wrap.nullable THEN <<"nullable", n>> ELSE n
      optional(n) == IF wrap.optional THEN <<"optional", n>> ELSE n
      loosened(n) == IF loose /\ n[1] = "object" THEN [n EXCEPT ![3] = TRUE] ELSE n
      element == renderField(s, Append(path, "*")).node
      node  ==
        CASE k \notin DOMAIN s -> AnyType
          [] wrap.base = Prim("object") -> optional(nullable(<<"object", shape, loose>>))
          [] "*" \in below /\ Listed(wrap.base) ->
               optional(nullable(<<wrap.base[1], loosened(element), NoMax>>))
          [] OTHER -> szType(p["TYPE"])
      perms == normalizePermissions(k, p)
  IN Field(node, IF k \notin DOMAIN s THEN NoMeta
                 ELSE Without(fieldClauses(p), {"TYPE", "FLEXIBLE", "PERMISSIONS"})
                      @@ When(perms # <<>>, "PERMISSIONS" :> p["PERMISSIONS"]))

renderTable(s) ==
  IF s = NoTable THEN NoTable
  ELSE [head   |-> Without(s[Table], {"PERMISSIONS"})
                   @@ When(normalizePermissions(Table, s[Table]) # <<>>,
                           Only(s[Table], {"PERMISSIONS"})),
        fields |-> [f \in {Head(k[2]) : k \in {k \in DOMAIN s : IsField(k)}} |->
                      renderField(s, <<f>>)],
        rest   |-> Without(s, {k \in DOMAIN s : k = Table \/ IsField(k)})]
-----------------------------------------------------------------------------
NoScript == [up |-> <<>>, down |-> <<>>, was |-> NoTable]

Init ==
  /\ declared \in Corpus
  /\ stored = NoTable
  /\ db = NoTable
  /\ script = NoScript
  /\ last = "edit"
  /\ failed = FALSE

Edit ==
  /\ last # "edit"
  /\ declared' \in (Corpus \cup {NoTable}) \ {declared}
  /\ last' = "edit"
  /\ script' = NoScript
  /\ UNCHANGED <<stored, db, failed>>

(* A script that fails changes nothing.                                     *)
Runs(statements, command) ==
  LET r == Run(db, statements)
  IN /\ db' = r.db
     /\ failed' = ~r.ok
     /\ last' = command

(* gen and migrate, on a database the migrations have brought to the        *)
(* snapshot.                                                                *)
UpToDate == structuredSnapshot(normalizeTable(Introspected(db))) = structuredSnapshot(stored)
Migrate ==
  LET next == Lowered(declared)
      up == planMigration(stored, next)
  IN /\ last = "edit"
     /\ UpToDate
     /\ Runs(up, "migrate")
     /\ stored' = next
     /\ script' = [up |-> up, down |-> planMigration(next, stored), was |-> db]
     /\ UNCHANGED declared

Rollback ==
  /\ last = "migrate"
  /\ Runs(script.down, "rollback")
  /\ UNCHANGED <<declared, stored, script>>

Reapply ==
  /\ last = "rollback"
  /\ Runs(script.up, "migrate")
  /\ UNCHANGED <<declared, stored, script>>

Push ==
  /\ last = "edit"
  /\ Runs(diffAgainstDb(db, declared), "push")
  /\ UNCHANGED <<declared, stored, script>>

Pull ==
  /\ last \in {"migrate", "push"}
  /\ declared' = renderTable(Introspected(db))
  /\ stored' = normalizeTable(Introspected(db))
  /\ last' = "pull"
  /\ UNCHANGED <<db, script, failed>>

Next == Edit \/ Migrate \/ Rollback \/ Reapply \/ Push \/ Pull

Spec == Init /\ [][Next]_vars

-----------------------------------------------------------------------------
(* The database refuses no script: what a script defines is not there yet   *)
(* or is defined with OVERWRITE, and what it alters is there.               *)
ScriptsRun == ~failed

(* After `migrate` and after `push` there is nothing left to do: `diff`      *)
(* (the schema, lowered, against the database) shows nothing, and `push`    *)
(* and `check` (the database against what the statements of the schema make *)
(* of an empty one) find nothing.                                           *)
NothingToDiff ==
  last \in {"migrate", "push"} =>
    /\ structuredSnapshot(normalizeTable(Introspected(db))) = structuredSnapshot(Lowered(declared))
    /\ diffAgainstDb(db, declared) = <<>>

(* `rollback` takes the database back to where it was.                      *)
RollbackRestores ==
  last = "rollback" =>
    structuredSnapshot(Introspected(db)) = structuredSnapshot(Introspected(script.was))

(* The schema that `pull` writes is the schema of the database: a `gen`     *)
(* after it finds nothing.  It holds of the types pull has a word for: no   *)
(* list of a given size, no union (null at its end and literals apart), and *)
(* no object of any keys.                                                   *)
RECURSIVE Writable(_)
Writable(kind) ==
  LET u == unwrapType(kind)
  IN \/ Listed(u.base) /\ u.base[3] = NoMax /\ Writable(u.base[2])
     \/ u.base[1] = "union" /\ szType(u.base) # AnyType
     \/ u.base[1] \in {"prim", "record"} /\ u.base # Null

PullSettles ==
  /\ last = "pull"
  /\ \A k \in DOMAIN db : IsField(k) => Writable(db[k]["TYPE"]) /\ (IsElement(k) => HasList(db, Parent(k)))
  => structuredSnapshot(Lowered(declared)) = structuredSnapshot(stored)

(* A field lets a record user do what its $permissions say, and what they   *)
(* leave out (pure.ts: "Omitted ops default to FULL").                      *)
PermissionsAsDeclared ==
  last \in {"migrate", "push"} /\ declared # NoTable =>
    \A f \in DOMAIN declared.fields :
      "PERMISSIONS" \in DOMAIN declared.fields[f].meta =>
        LET k == FieldAt(<<f>>)
        IN db[k]["PERMISSIONS"] = declared.fields[f].meta["PERMISSIONS"] @@ Each(k, "full")
=============================================================================
