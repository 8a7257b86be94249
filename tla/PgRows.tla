------------------------------- MODULE PgRows -------------------------------
(***************************************************************************)
(* A table of the Postgres driver as code uses it: its columns are fields  *)
(* of PgFields, and a row goes through the typed writes and reads          *)
(* (query/index.ts) to a table with the columns the DDL defines (lower.ts, *)
(* emit.ts) and back.  Values and schema nodes are those of Zod.           *)
(***************************************************************************)
EXTENDS Zod, PgFields

CONSTANTS
  Alphabet,  (* the names of the columns, in their order                    *)
  Begins,    (* the columns and the primary key of a table, and an object   *)
  Objects,   (* the objects that one may be merged with                     *)
  Presets,   (* the presets it may use: columns                             *)
  Chains,    (* the sequences of shape operations                           *)
  MaxWrites  (* the number of writes                                        *)

VARIABLES
  columns,     (* the fields of the table: a node, a type token and clauses *)
  typed,       (* the nodes their TypeScript types have                     *)
  primaryKey,  (* the primary key of the table's configuration              *)
  object,      (* an s.object(): its Zod shape and its field map            *)
  chained,     (* the operations so far                                     *)
  row,         (* the row in the database                                   *)
  meant,       (* the row the calls describe                                *)
  last,        (* the last write: the call, its input, the outcome          *)
  writes       (* the number of writes                                      *)

shapeVars == <<columns, typed, primaryKey, object, chained>>
rowVars == <<row, meant, last, writes>>
vars == <<shapeVars, rowVars>>

DDL == INSTANCE PgForms

-----------------------------------------------------------------------------
(* The columns in the database.                                             *)
RECURSIVE structure(_)
structure(node) ==
  LET word == IF node[1] = "optional" THEN "option" ELSE node[1]
  IN CASE node[1] \in {"optional", "nullable", "array"} -> <<word>> \o structure(node[2])
       [] node[1] = "default" -> structure(node[2])
       [] OTHER -> <<>>

lowered(f) ==
  [token |-> f.token, params |-> <<>>, wraps |-> structure(f.node), meta |-> f.meta]
table ==
  LET t == DDL!lowerTable("t", [fields |-> [c \in DOMAIN columns |-> lowered(columns[c])],
                                primaryKey |-> primaryKey, indexes |-> {}, checks |-> <<>>,
                                foreignKeys |-> <<>>])
  IN DDL!createTableDdl(t.fields, t.primaryKey, t.checks)

(* What Postgres stores of a parameter, and what it returns of a column:    *)
(* `numeric` as text, a `bigint` as a number if that is exact (1 stands for *)
(* one that is too large).                                                  *)
Numbers == {"smallint", "integer", "real", "double precision", "bigint"}
RECURSIVE Json(_)
Json(v) ==
  CASE v[1] = "Date" -> <<"string", v[2]>>
    [] v[1] = "bigint" -> Bad
    [] v[1] = "object" -> Sound([k \in DOMAIN v[2] |-> Json(v[2][k])])
    [] v[1] = "array" -> Each([i \in DOMAIN v[2] |-> Json(v[2][i])])
    [] OTHER -> v

TakeOne(base, v) ==
  CASE v = NullValue -> v
    [] v # NullValue /\ base = "jsonb" -> Json(v)
    [] v # NullValue /\ base \in Numbers -> IF v[1] \in {"number", "bigint"} THEN <<"number", v[2]>> ELSE Bad
    [] v # NullValue /\ base = "numeric" -> IF v[1] \in {"number", "string"} THEN <<"number", v[2]>> ELSE Bad
    [] v # NullValue /\ base = "boolean" -> IF v[1] = "boolean" THEN v ELSE Bad
    [] v # NullValue /\ base = "bytea" -> IF v[1] = "Uint8Array" THEN v ELSE Bad
    [] v # NullValue /\ base \in {"timestamp", "timestamp with time zone"} -> IF v[1] = "Date" THEN v ELSE Bad
    [] OTHER -> IF v[1] = "string" THEN v ELSE Bad
GiveOne(base, v) ==
  CASE v = NullValue -> v
    [] v # NullValue /\ base = "numeric" -> <<"string", v[2]>>
    [] v # NullValue /\ base = "bigint" -> <<IF v[2] = 1 THEN "bigint" ELSE "number", v[2]>>
    [] OTHER -> v
Listed(sql, v) == sql.dims > 0 /\ v # NullValue
Take(sql, v) ==
  IF ~Listed(sql, v) THEN TakeOne(sql.base, v)
  ELSE IF v[1] # "array" THEN Bad ELSE Each([i \in DOMAIN v[2] |-> TakeOne(sql.base, v[2][i])])
Give(sql, v) ==
  IF ~Listed(sql, v) THEN GiveOne(sql.base, v)
  ELSE Each([i \in DOMAIN v[2] |-> GiveOne(sql.base, v[2][i])])

(* The row after an INSERT (of the rest, the defaults) or an UPDATE.        *)
Fills(col) ==
  CASE "default" \in DOMAIN col -> col["default"]
    [] "identity" \in DOMAIN col -> <<"number", 0>>
    [] OTHER -> NullValue
Stored(rest, given) ==
  LET t == table
      cols == t.cols
      of(c) == IF "computed" \in DOMAIN cols[c] THEN cols[c]["computed"]
               ELSE IF c \in DOMAIN given THEN Take(cols[c]["sql"], given[c]) ELSE rest[c]
      key(c) == c \in ToSet(t.primaryKey)
      refused(c) == \/ of(c) = Bad
                    \/ of(c) = NullValue /\ (~cols[c]["nullable"] \/ key(c))
                    \/ c \in DOMAIN given /\ "computed" \in DOMAIN cols[c]
  IN IF DOMAIN given = {} \/ ~(DOMAIN given \subseteq DOMAIN cols) \/ \E c \in DOMAIN cols : refused(c)
     THEN Bad ELSE Obj([c \in DOMAIN cols |-> of(c)])
Defaults == LET cols == table.cols IN [c \in DOMAIN cols |-> Fills(cols[c])]
Returned(stored) ==
  LET cols == table.cols IN [c \in DOMAIN stored |-> Give(cols[c]["sql"], stored[c])]

-----------------------------------------------------------------------------
(* The table's schemas.                                                     *)
Shape(fields) == <<"object", fields, FALSE>>
Unless(fields, clauses) == Only(fields, {c \in DOMAIN fields : DOMAIN fields[c].meta \cap clauses = {}})

(* The types read the flags the clauses brand a field with, the schemas the *)
(* clauses themselves.                                                      *)
FlagsOf(f) ==
  LET has(clauses) == DOMAIN f.meta \cap clauses # {}
  IN {flag \in {"create", "readonly", "generated"} :
        \/ flag = "create" /\ has({"default", "identity"})
        \/ flag = "readonly" /\ has({"identity", "computed", "primaryKey"})
        \/ flag = "generated" /\ has({"computed"})}
CreateRawShape(fields) ==
  Shape([c \in {x \in DOMAIN fields : "generated" \notin FlagsOf(fields[x])} |->
           IF c = "id" \/ "create" \in FlagsOf(fields[c]) THEN optional(fields[c]) ELSE fields[c]])
UpdateRawShape(fields) ==
  Shape([c \in {x \in DOMAIN fields \ {"id"} : "readonly" \notin FlagsOf(fields[x])} |->
           optional(fields[c])])

(* Mutant of create: DEFAULT and identity columns have to be given.         *)
create_Whole(fields) == Shape(Unless(fields, {"computed"}))

create(fields) ==
  Shape([c \in DOMAIN Unless(fields, {"computed"}) |->
           IF c = "id" \/ DOMAIN fields[c].meta \cap {"default", "identity"} # {}
           THEN optional(fields[c]) ELSE fields[c]])
update(fields) ==
  LET patchable == Unless(fields, {"identity", "computed", "primaryKey"})
  IN Shape([c \in DOMAIN patchable \ {"id"} |-> optional(fields[c])])

(* Reads: the whole row with its `id`, or a projection of it.               *)
withImplicitId(decoded, raw) ==
  IF decoded = Bad \/ "id" \in DOMAIN decoded[2] \/ "id" \notin DOMAIN raw THEN decoded
  ELSE Obj(("id" :> raw["id"]) @@ decoded[2])
decode(raw) == withImplicitId(run(Shape(columns), Obj(raw), "decode"), raw)
decodeProjection(some, raw) == run(Shape(Only(columns, some)), Obj(Only(raw, some)), "decode")

(* By id: the column is that of the configuration, or `id`.                 *)
pkColumn == IF primaryKey = <<>> THEN "id" ELSE primaryKey[1]
(* Mutant of encodeField: the key goes to the database as the program has it. *)
encodeField_Raw(c, v) == v

encodeField(c, v) == IF c \in DOMAIN columns THEN run(columns[c].node, v, "encode") ELSE v
Finds(id) ==
  LET cols == table.cols
  IN /\ row # Absent /\ Len(primaryKey) < 2 /\ pkColumn \in DOMAIN cols
     /\ Take(cols[pkColumn]["sql"], encodeField(pkColumn, id)) = row[2][pkColumn]

-----------------------------------------------------------------------------
Init ==
  /\ \E begin \in Begins :
       /\ columns = begin.columns /\ typed = begin.columns /\ primaryKey = begin.primaryKey
       /\ object = [shape |-> begin.object, fields |-> begin.object]
  /\ chained = <<>>
  /\ row = Absent /\ meant = Absent /\ last = <<"none", Obj(<<>>), "none">> /\ writes = 0

Chain(op) ==
  /\ writes = 0 /\ chained' = Append(chained, op) /\ UNCHANGED <<rowVars, primaryKey>>
  /\ \E chain \in Chains : IsPrefix(Append(chained, op), chain)

Become(f, t) == columns' = f /\ typed' = t /\ UNCHANGED object
Extend(fields) == Become(fields @@ columns, fields @@ typed)
TableExtend == Chain("extend") /\ Extend(object.fields)
TableUse ==
  /\ Chain("use")
  /\ \E p \in Presets :
       IF DOMAIN p \cap DOMAIN columns # {} THEN UNCHANGED <<columns, typed, object>> ELSE Extend(p)
(* The object as a column of its own, or what a list or a record is of.     *)
As(wrap, o) ==
  CASE wrap = "object" -> objectOf(o)
    [] wrap = "nullable" -> nullable(objectOf(o))
    [] wrap = "array" -> array(objectOf(o))
    [] wrap = "record" -> record(objectOf(o))
TableNest ==
  /\ Chain("nest")
  /\ \E wrap \in {"object", "nullable", "array", "record"} :
       Become(("o" :> As(wrap, object.shape)) @@ columns, ("o" :> As(wrap, object.fields)) @@ typed)

Reshape(shape, fields) ==
  object' = [shape |-> shape, fields |-> fields] /\ UNCHANGED <<columns, typed>>
pick(f, keys) == Only(f, keys)
omit(f, keys) == Only(f, DOMAIN f \ keys)
ObjectPick ==
  Chain("pick") /\ \E k \in DOMAIN object.shape : Reshape(pick(object.shape, {k}), pick(object.fields, {k}))
ObjectOmit ==
  Chain("omit") /\ \E k \in DOMAIN object.shape : Reshape(omit(object.shape, {k}), omit(object.fields, {k}))
ObjectMerge ==
  Chain("merge") /\ \E o \in Objects : Reshape(o @@ object.shape, o @@ object.fields)
(* The field map, and with it the type, stays as it was.                    *)
ObjectPartial ==
  /\ Chain("partial")
  /\ Reshape([k \in DOMAIN object.shape |-> optional(object.shape[k])], object.fields)
ObjectRequired ==
  LET unwrap(f) == IF f.node[1] = "optional" THEN [f EXCEPT !.node = @[2]] ELSE f
  IN /\ Chain("required")
     /\ Reshape([k \in DOMAIN object.shape |-> unwrap(object.shape[k])], object.fields)

-----------------------------------------------------------------------------
(* The writes.                                                              *)
Write(call, input, stored, to) ==
  /\ writes' = writes + 1 /\ UNCHANGED shapeVars
  /\ last' = <<call, input, IF stored = Bad THEN "refused" ELSE "kept">>
  /\ row' = IF stored = Bad THEN row ELSE stored
  /\ meant' = IF stored = Bad THEN meant ELSE to

(* What the database fills in, as the program sees it.                      *)
Seen(v, node) == IF Peeled(node)[1] = "codec" THEN <<Peeled(node)[2], v[2]>> ELSE v
Filled(input) ==
  LET filled == {c \in DOMAIN typed \ DOMAIN input[2] :
                   DOMAIN typed[c].meta \cap {"default", "identity", "computed"} # {}}
      by(c) == IF "computed" \in DOMAIN typed[c].meta THEN typed[c].meta["computed"] ELSE Fills(typed[c].meta)
  IN Obj([c \in filled |-> Seen(by(c), typed[c].node)] @@ input[2])

Create ==
  /\ writes < MaxWrites /\ row = Absent
  /\ \E input \in Values(CreateRawShape(typed), writes) :
       LET values == run(create(columns), input, "encode")
       IN Write("create", input, IF values = Bad THEN Bad ELSE Stored(Defaults, values[2]), Filled(input))

(* A row inserted by hand, in the words of the database.                    *)
Seed ==
  /\ writes < MaxWrites /\ row = Absent /\ "id" \notin DOMAIN columns /\ primaryKey = <<>> /\ columns # <<>>
  /\ \E input \in Values(Shape(Unless(typed, {"default", "identity", "computed"})), writes) :
       LET given == run(Shape(columns), input, "encode")
           id    == "id" :> <<"string", "r">>
       IN /\ given # Bad
          /\ Write("seed", input, Stored(Defaults, id @@ given[2]), Obj(id @@ Filled(input)[2]))

(* update(T, id).merge(patch) and .set(patch): the columns that are given;  *)
(* .content(row): those of a row to be created.                             *)
Known ==
  /\ writes < MaxWrites /\ row # Absent
  /\ LET found == decode(Returned(row[2])) IN found # Bad /\ Finds(found[2][pkColumn])
Update(call, types, schema) ==
  /\ Known
  /\ \E input \in Values(types, writes) :
       LET values == run(schema, input, "encode")
       IN Write(call, input, IF values = Bad THEN Bad ELSE Stored(row[2], values[2]),
                Obj(input[2] @@ meant[2]))
Merge == Update("merge", UpdateRawShape(typed), update(columns))
Content == Update("content", CreateRawShape(typed), create(columns))

Delete ==
  /\ Known
  /\ row' = Absent /\ meant' = Absent /\ last' = <<"delete", Obj(<<>>), "kept">>
  /\ writes' = writes + 1 /\ UNCHANGED shapeVars

Next ==
  \/ TableExtend \/ TableUse \/ TableNest
  \/ ObjectPick \/ ObjectOmit \/ ObjectMerge \/ ObjectPartial \/ ObjectRequired
  \/ Create \/ Seed \/ Merge \/ Content \/ Delete

Spec == Init /\ [][Next]_vars

-----------------------------------------------------------------------------
(* A row in the database decodes, as a whole and column by column, to       *)
(* what the writes said, and it is found again by its key.                  *)
RowsComeBack ==
  row # Absent =>
    LET raw == Returned(row[2])
        found == decode(raw)
    IN /\ found = Obj(Shown(Shape(typed), meant)[2] @@ meant[2])
       /\ \A c \in DOMAIN columns :
            decodeProjection({c}, raw) = Shown(Shape(Only(typed, {c})), Obj(Only(meant[2], {c})))
       /\ Finds(found[2][pkColumn])

(* What the types of the inputs allow, the schemas and the database take,   *)
(* in a table that has a key to give.                                       *)
HasKey == "id" \in DOMAIN columns \/ primaryKey # <<>>
TypedIsAccepted ==
  [][/\ writes' # writes /\ DOMAIN last'[2][2] # {}
     /\ last'[1] \in {"merge", "content"} \/ (last'[1] = "create" /\ HasKey)
     => last'[3] = "kept"]_vars
=============================================================================
