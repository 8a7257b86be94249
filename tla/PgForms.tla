------------------------------- MODULE PgForms -------------------------------
(***************************************************************************)
(* What a Postgres schema is made of, on its way from the schema files to  *)
(* the statements (drivers/postgres/src/lower.ts, emit.ts, kinds.ts) and   *)
(* from the catalog of the database back (driver.ts).                      *)
(*                                                                         *)
(* A field has a type token with parameters, the wrappers around it, the   *)
(* outermost first, and its clauses.  Expressions, bodies and definitions  *)
(* are atoms.  Names are sequences of words, which the code joins by "_".  *)
(***************************************************************************)
EXTENDS Naturals, Sequences, FiniteSets, SequencesExt, TLC

CONSTANT Alphabet   (* the words of the names, in their order              *)

Only(f, keys) == [x \in DOMAIN f \cap keys |-> f[x]]
Without(f, keys) == [x \in DOMAIN f \ keys |-> f[x]]
When(condition, f) == IF condition THEN f ELSE <<>>

Place(word) == CHOOSE i \in DOMAIN Alphabet : Alphabet[i] = word
Sorted(words) == SelectSeq(Alphabet, LAMBDA w : w \in words)

(* Two names of one kind in their order (localeCompare).                    *)
Precedes(m, n) ==
  LET i == CHOOSE i \in 1..(Len(m) + 1) :
             /\ \A j \in 1..(i - 1) : j \in DOMAIN n /\ m[j] = n[j]
             /\ i \notin DOMAIN m \/ i \notin DOMAIN n \/ m[i] # n[i]
  IN i \in DOMAIN n /\ (i \in DOMAIN m => Place(m[i]) < Place(n[i]))

-----------------------------------------------------------------------------
(* Types.  Between the files and the statements a type is a leaf in its     *)
(* wrappers; in a statement it is a name, its parameters and the number of  *)
(* its array brackets.                                                      *)
Type(wraps, leaf) == [wraps |-> wraps, leaf |-> leaf]
Native(name, params) == <<"native", name, params>>
Scalar(name) == <<"scalar", name>>
Object == <<"object">>

CANON ==
  ("text" :> "string") @@ ("integer" :> "int") @@ ("double precision" :> "float")
  @@ ("numeric" :> "decimal") @@ ("boolean" :> "bool") @@ ("timestamptz" :> "datetime")
  @@ ("uuid" :> "uuid") @@ ("bytea" :> "bytes") @@ ("interval" :> "duration")

SCALAR_TO_PG ==
  ("string" :> "text") @@ ("int" :> "integer") @@ ("float" :> "double precision")
  @@ ("decimal" :> "numeric") @@ ("bool" :> "boolean")
  @@ ("datetime" :> "timestamp with time zone") @@ ("uuid" :> "uuid")
  @@ ("bytes" :> "bytea") @@ ("duration" :> "interval")

tokenToPortable(token, params) ==
  CASE token = "jsonb" -> Object
    [] params = <<>> /\ token \in DOMAIN CANON -> Scalar(CANON[token])
    [] OTHER -> Native(token, params)

leafPortable(f) ==
  IF "references" \in DOMAIN f.meta THEN <<"record", f.meta["references"].table>>
  ELSE tokenToPortable(f.token, f.params)

(* pgCanonType: an optional value is one that may be null.                  *)
pgCanonType(t) ==
  [t EXCEPT !.wraps = [i \in DOMAIN @ |-> IF @[i] = "option" THEN "nullable" ELSE @[i]]]

pgColumn(t) ==
  LET arrays == SelectSeq(t.wraps, LAMBDA w : w = "array")
      base == CASE t.leaf[1] = "scalar" -> SCALAR_TO_PG[t.leaf[2]]
                [] t.leaf[1] = "native" -> t.leaf[2]
                [] t.leaf = Object -> "jsonb"
                [] OTHER -> "text"
  IN [sql |-> [base |-> base, params |-> IF t.leaf[1] = "native" THEN t.leaf[3] ELSE <<>>,
               dims |-> Len(arrays)],
      nullable |-> t.wraps # <<>> /\ t.wraps[1] # "array",
      references |-> IF t.leaf[1] = "record" /\ arrays = <<>> THEN t.leaf[2] ELSE ""]

-----------------------------------------------------------------------------
(* The fields and the table, lowered.  References without an action, and    *)
(* the action Postgres takes by itself, are left out.                       *)
normAction(actions) == Without(actions, {a \in DOMAIN actions : actions[a] = "no action"})

lowerField(f) ==
  ("type" :> pgCanonType(Type(f.wraps, leafPortable(f))))
  @@ Only(f.meta, {"default", "check", "computed", "identity", "comment"})
  @@ When("references" \in DOMAIN f.meta, "reference" :> normAction(f.meta["references"].actions))

Index(name, cols, unique, method, where) ==
  [name |-> name, cols |-> cols, unique |-> unique, method |-> method, where |-> where]

lowerTable(t, def) ==
  LET has(c) == {f \in DOMAIN def.fields : c \in DOMAIN def.fields[f].meta}
  IN [name |-> t,
      fields |-> [f \in DOMAIN def.fields |-> lowerField(def.fields[f])],
      indexes |-> {Index(<<t, f, "key">>, <<f>>, TRUE, "btree", "") : f \in has("unique")}
                  \cup {Index(<<t>> \o ix.cols \o <<"idx">>, ix.cols, ix.unique, ix.method, ix.where) :
                          ix \in def.indexes},
      primaryKey |-> def.primaryKey \o Sorted(has("primaryKey") \ ToSet(def.primaryKey)),
      checks |-> def.checks,
      foreignKeys |-> def.foreignKeys]

-----------------------------------------------------------------------------
(* The objects a table splits into, and those of the other kinds.           *)
Kinds == <<"extension", "enum", "domain", "sequence", "table", "index", "constraint",
           "function", "view", "matview", "trigger", "policy">>

Key(o) == <<o.kind, o.name>>

Constraint(t, columns, refTable, refColumns, actions) ==
  [kind |-> "constraint", name |-> <<t>> \o columns \o <<"fkey">>, table |-> t, columns |-> columns,
   refTable |-> refTable, refColumns |-> refColumns, actions |-> actions]

splitTable(t) ==
  LET refs == {f \in DOMAIN t.fields : pgColumn(t.fields[f]["type"]).references # ""}
  IN <<[kind |-> "table", name |-> <<t.name>>, fields |-> t.fields,
        primaryKey |-> t.primaryKey, checks |-> t.checks]>>
     \o SetToSeq({[kind |-> "index", table |-> t.name, name |-> ix.name, cols |-> ix.cols,
                   unique |-> ix.unique, method |-> ix.method, where |-> ix.where] : ix \in t.indexes})
     \o SetToSeq({Constraint(t.name, <<f>>, pgColumn(t.fields[f]["type"]).references, <<"id">>,
                             t.fields[f]["reference"]) : f \in refs})
     \o SetToSeq({Constraint(t.name, fk.columns, fk.refTable, fk.refColumns, normAction(fk.actions)) :
                    fk \in t.foreignKeys})

(* The driver's explode: the tables, split, and the definitions of the      *)
(* other kinds as they are.                                                 *)
explode(schema) ==
  FlattenSeq([i \in 1..Cardinality(DOMAIN schema.tables) |->
                LET t == Sorted(DOMAIN schema.tables)[i] IN splitTable(lowerTable(t, schema.tables[t]))])
  \o schema.defs

(* Of several objects with one kind and name the last counts.               *)
byKey(objects) ==
  [k \in {Key(objects[i]) : i \in DOMAIN objects} |->
     objects[SelectLastInSeq(objects, LAMBDA o : Key(o) = k)]]

-----------------------------------------------------------------------------
(* CREATE TABLE: without a primary key of its own a table gets an `id`.     *)
fieldColumnDdl(f) ==
  LET c == pgColumn(f["type"])
  IN ("sql" :> c.sql) @@ ("nullable" :> c.nullable)
     @@ Only(f, {"identity", "default", "computed", "check"})

IdColumn == ("sql" :> [base |-> "text", params |-> <<>>, dims |-> 0]) @@ ("nullable" :> FALSE)

createTableDdl(fields, primaryKey, checks) ==
  [cols |-> [f \in DOMAIN fields |-> fieldColumnDdl(fields[f])]
            @@ When(primaryKey = <<>>, "id" :> IdColumn),
   primaryKey |-> IF primaryKey = <<>> THEN <<"id">> ELSE primaryKey,
   checks |-> checks]

(* A field as far as it counts as changed.                                  *)
canonField(f) == Only(f, {"type", "identity"})

seqDefaults ==
  ("start" :> "1") @@ ("increment" :> "1") @@ ("min" :> "1") @@ ("max" :> "max")
  @@ ("cache" :> "1") @@ ("cycle" :> "no")

canonDomainBase(base) ==
  CASE base[1] = "character varying" -> [base EXCEPT ![1] = "varchar"]
    [] base[1] = "character" -> [base EXCEPT ![1] = "char"]
    [] OTHER -> base

(* The canonical form of an object: two versions that share it are taken    *)
(* for the same.                                                            *)
canonicalOf(o) ==
  CASE o.kind = "table" ->
         <<createTableDdl([f \in DOMAIN o.fields |-> canonField(o.fields[f])], o.primaryKey, <<>>)>>
    [] o.kind = "index" -> <<o.table, o.name, o.cols, o.unique, o.method>>
    [] o.kind = "constraint" -> <<o.table, o.columns, o.refTable, o.refColumns, o.actions>>
    [] o.kind = "enum" -> <<o.values>>
    [] o.kind = "sequence" -> <<o.attrs @@ seqDefaults>>
    [] o.kind = "domain" -> <<canonDomainBase(o.base), o.notNull>>
    [] o.kind \in {"trigger", "policy"} -> <<o.table>>
    [] OTHER -> <<>>

-----------------------------------------------------------------------------
(* The catalog: how the database names the type of a column (data_type and  *)
(* udt_name), and how the driver reads it.                                  *)
DataType ==
  ("varchar" :> "character varying") @@ ("char" :> "character")
  @@ ("timestamp" :> "timestamp without time zone") @@ ("time" :> "time without time zone")
  @@ ("timetz" :> "time with time zone") @@ ("timestamptz" :> "timestamp with time zone")

Udt ==
  ("integer" :> "int4") @@ ("bigint" :> "int8") @@ ("smallint" :> "int2") @@ ("real" :> "float4")
  @@ ("double precision" :> "float8") @@ ("boolean" :> "bool") @@ ("char" :> "bpchar")
  @@ ("timestamp with time zone" :> "timestamptz")

ColRow(sql) ==
  [data_type |-> IF sql.dims > 0 THEN "ARRAY"
                 ELSE IF sql.base \in DOMAIN DataType THEN DataType[sql.base] ELSE sql.base,
   udt |-> IF sql.base \in DOMAIN Udt THEN Udt[sql.base] ELSE sql.base,
   length |-> IF sql.base = "char" /\ sql.params = <<>> THEN <<1>> ELSE sql.params]

DATATYPE_TO_SCALAR ==
  Only(CANON, {"text", "integer", "double precision", "boolean", "uuid", "bytea", "interval"})
  @@ ("timestamp with time zone" :> "datetime")

UDT_TO_SCALAR ==
  ("text" :> "string") @@ ("int4" :> "int") @@ ("float8" :> "float") @@ ("numeric" :> "decimal")
  @@ ("bool" :> "bool") @@ ("timestamptz" :> "datetime") @@ ("uuid" :> "uuid")
  @@ ("bytea" :> "bytes") @@ ("interval" :> "duration")

pgScalarFromUdt(udt) ==
  IF udt \in DOMAIN UDT_TO_SCALAR THEN Scalar(UDT_TO_SCALAR[udt]) ELSE Native(udt, <<>>)

DATATYPE_TO_NATIVE ==
  ("time without time zone" :> "time") @@ ("time with time zone" :> "timetz")
  @@ ("character varying" :> "varchar") @@ ("character" :> "char")
  @@ ("timestamp without time zone" :> "timestamp")

introspectType_LosesLength(row) ==
  CASE row.data_type = "ARRAY" -> Type(<<"array">>, pgScalarFromUdt(row.udt))
    [] row.data_type = "jsonb" -> Type(<<>>, Object)
    [] row.data_type \in DOMAIN DATATYPE_TO_SCALAR ->
         Type(<<>>, Scalar(DATATYPE_TO_SCALAR[row.data_type]))
    [] row.data_type \in DOMAIN DATATYPE_TO_NATIVE ->
         Type(<<>>, Native(DATATYPE_TO_NATIVE[row.data_type], <<>>))
    [] OTHER -> Type(<<>>, Native(row.data_type, row.length))
introspectType(row) ==
  CASE row.data_type = "ARRAY" -> Type(<<"array">>, pgScalarFromUdt(row.udt))
    [] row.data_type = "jsonb" -> Type(<<>>, Object)
    [] row.data_type = "numeric" /\ row.length = <<>> -> Type(<<>>, Scalar("decimal"))
    [] row.data_type \in DOMAIN DATATYPE_TO_SCALAR ->
         Type(<<>>, Scalar(DATATYPE_TO_SCALAR[row.data_type]))
    [] row.data_type \in DOMAIN DATATYPE_TO_NATIVE ->
         Type(<<>>, Native(DATATYPE_TO_NATIVE[row.data_type], row.length))
    [] OTHER -> Type(<<>>, Native(row.data_type, row.length))
=============================================================================
