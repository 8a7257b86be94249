--------------------------- MODULE SurrealFields ---------------------------
(***************************************************************************)
(* The `s` vocabulary of the SurrealDB driver (pure.ts): a field is a      *)
(* schema node of Zod and its clauses.  A codec also names the type of its *)
(* column.                                                                 *)
(***************************************************************************)
EXTENDS TLC

SField(node) == [node |-> node, meta |-> <<>>]
Prim(type) == <<"prim", type>>

datetimeCodec == <<"codec", "Date", "datetime", {"datetime"}, "datetime">>
uuidCodec == <<"codec", "string", "uuid", {"uuid"}, "uuid">>
bigintCodec == <<"codec", "bigint", "bigint", {"bigint", "number"}, "int">>
bytesCodec == <<"codec", "Uint8Array", "Uint8Array", {"Uint8Array", "ArrayBuffer"}, "bytes">>
stringbool == <<"codec", "boolean", "string", {"string"}, "string">>

(* The formats the database can check: their fields bring an ASSERT, whose  *)
(* function takes a text.                                                   *)
STRING_IS_FORMATS ==
  {"email", "url", "ulid", "ipv4", "ipv6", "alpha", "alphanum", "ascii", "numeric", "semver",
   "hexadecimal", "latitude", "longitude", "ip", "domain"}
formatAssert(format) == IF format \in STRING_IS_FORMATS THEN "ASSERT" :> "string" ELSE <<>>
formatField(format) == [node |-> Prim("string"), meta |-> formatAssert(format)]

Unchecked ==
  {"guid", "nanoid", "cuid", "xid", "ksuid", "cidrv4", "base64", "e164", "jwt", "emoji", "uuidv7",
   "httpUrl", "hostname", "hex", "mac", "hash", "iso"}
Natives == {"duration", "decimal", "file", "geometry"}

enum(words) == SField(<<"enum", words>>)
literal(word) == enum(<<word>>)
union(fields) == SField(<<"union", [i \in DOMAIN fields |-> fields[i].node]>>)
recordId(tables) == SField(<<"record", tables>>)

s ==
  [w \in {"string", "number", "bool", "any"} \cup Natives |-> SField(Prim(w))]
  @@ [w \in STRING_IS_FORMATS \cup Unchecked |-> formatField(w)]
  @@ [w \in {"int", "int32", "uint32"} |-> SField(Prim("int"))]
  @@ [w \in {"float", "float32", "float64"} |-> SField(Prim("float"))]
  @@ [w \in {"bigint", "int64", "uint64"} |-> SField(bigintCodec)]
  @@ [w \in {"datetime", "date", "coerce.date"} |-> SField(datetimeCodec)]
  @@ ("uuid" :> SField(uuidCodec)) @@ ("bytes" :> SField(bytesCodec))
  @@ ("stringbool" :> SField(stringbool))

(* The wrappers keep the clauses of the field, those of lists too.          *)
optional(field) == [field EXCEPT !.node = <<"optional", @>>]
nullable(field) == [field EXCEPT !.node = <<"nullable", @>>]
nullish(field) == nullable(optional(field))
default(field, value) == [field EXCEPT !.node = <<"default", @, value>>]
array(field, max) == [field EXCEPT !.node = <<"array", @, max>>]
record(field) == SField(<<"map", field.node>>)
looseObject(shape) == SField(<<"object", shape, TRUE>>)
=============================================================================
