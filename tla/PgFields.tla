------------------------------ MODULE PgFields ------------------------------
(***************************************************************************)
(* The `s` vocabulary of the Postgres driver (authoring.ts): a field is a  *)
(* schema node of Zod, the token of its column type and its clauses.       *)
(***************************************************************************)
EXTENDS TLC

mk(token, node) == [node |-> node, token |-> token, meta |-> <<>>]
Prim(type) == <<"prim", type>>
INT8_WIRE == {"bigint", "number"}

s ==
  [w \in {"text", "varchar", "citext", "email", "iso"} |->
     mk(IF w \in {"varchar", "citext"} THEN w ELSE "text", Prim("string"))]
  @@ ("stringbool" :> mk("text", <<"codec", "boolean", "string", {"string"}>>))
  @@ ("smallint" :> mk("smallint", Prim("number"))) @@ ("integer" :> mk("integer", Prim("number")))
  @@ ("real" :> mk("real", Prim("number"))) @@ ("float" :> mk("double precision", Prim("number")))
  @@ ("bigint" :> mk("bigint", <<"codec", "bigint", "bigint", INT8_WIRE>>))
  @@ ("uint32" :> mk("bigint", <<"codec", "number", "bigint", INT8_WIRE>>))
  @@ ("uint64" :> mk("numeric", <<"codec", "bigint", "string", {"string"}>>))
  @@ ("numeric" :> mk("numeric", Prim("number")))
  @@ ("boolean" :> mk("boolean", Prim("boolean"))) @@ ("uuid" :> mk("uuid", Prim("string")))
  @@ ("timestamptz" :> mk("timestamptz", Prim("Date"))) @@ ("timestamp" :> mk("timestamp", Prim("Date")))
  @@ ("bytea" :> mk("bytea", Prim("Uint8Array"))) @@ ("jsonb" :> mk("jsonb", Prim("any")))

with(field, meta) == [field EXCEPT !.meta = meta @@ @]
serial(word) == with(s[word], "identity" :> "by-default")
optional(field) == [field EXCEPT !.node = <<"optional", @>>]
nullable(field) == [field EXCEPT !.node = <<"nullable", @>>]
default(field, value) == [field EXCEPT !.node = <<"default", @, value>>]

(* A list has the type and the clauses of its elements.                     *)
array(field) == [field EXCEPT !.node = <<"array", @, 0>>]
objectOf(o) == mk("jsonb", <<"object", o, FALSE>>)
record(field) == mk("jsonb", <<"map", field.node>>)
=============================================================================
