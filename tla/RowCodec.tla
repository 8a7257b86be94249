------------------------------ MODULE RowCodec ------------------------------
(***************************************************************************)
(* A table of the SurrealDB driver as code uses it (pure.ts): its columns  *)
(* are put together with the shape operations, and rows go through its     *)
(* codec to a database that has its definitions (ddl.ts) and back.         *)
(*                                                                         *)
(* Schema nodes and values are those of Zod.                               *)
(***************************************************************************)
EXTENDS SurrealTypes, Zod

CONSTANTS
  Begins,    (* the columns of a table, an s.object() to compose with it,   *)
             (* and the sequences of shape operations that put it together  *)
  Objects,   (* the s.object() shapes that one may be merged with           *)
  Presets,   (* the presets it may use: columns and permissions             *)
  MaxWrites  (* the number of writes to the row                             *)

VARIABLES
  columns,   (* the fields of the TableDef: a node and its clauses          *)
  typed,     (* the fields its TypeScript type has                          *)
  object,    (* an s.object(): its Zod shape and its registered fields      *)
  perms,     (* the permissions of the TableDef                             *)
  rules,     (* the permissions it was given                                *)
  ahead,     (* the sequences of operations that may follow                 *)
  row,       (* the record in the database                                  *)
  meant,     (* the record the calls describe, in the program's values      *)
  last,      (* the last write: the call, its input, the outcome            *)
  writes     (* the number of writes                                        *)

shapeVars == <<columns, typed, object, perms, rules, ahead>>
rowVars == <<row, meant, last, writes>>
vars == <<shapeVars, rowVars>>

-----------------------------------------------------------------------------
(* The codec of a table: only the keys that are given are encoded, at every *)
(* level of s.object().                                                     *)
RECURSIVE unwrapCore_OptionalOnly(_)
unwrapCore_OptionalOnly(node) ==
  IF node[1] = "optional" THEN unwrapCore_OptionalOnly(node[2]) ELSE node

RECURSIVE unwrapCore(_)
unwrapCore(node) ==
  IF node[1] \in {"optional", "nullable", "default"} THEN unwrapCore(node[2]) ELSE node

RECURSIVE safeEncodeValue(_, _), safeEncodeInput(_, _)
safeEncodeInput_Fills(fields, input) ==
  LET out == [k \in DOMAIN input \cup DOMAIN fields |->
                CASE k \notin DOMAIN input -> NullValue
                  [] k \notin DOMAIN fields -> input[k]
                  [] OTHER -> safeEncodeValue(fields[k], input[k])]
  IN IF \E k \in DOMAIN out : out[k] = Bad THEN Bad ELSE Obj(out)
safeEncodeInput(fields, input) ==
  Sound([k \in DOMAIN input |->
           IF k \in DOMAIN fields THEN safeEncodeValue(fields[k], input[k]) ELSE input[k]])
safeEncodeValue(field, v) ==
  LET core == unwrapCore(field.node)
      elem == IF core[1] = "array" THEN unwrapCore(core[2]) ELSE core
  IN CASE core[1] = "object" -> safeEncodeInput(core[2], v[2])
       [] core[1] = "array" /\ elem[1] = "object" ->
            Each([i \in DOMAIN v[2] |-> safeEncodeInput(elem[2], v[2][i][2])])
       [] OTHER -> run(field.node, v, "encode")

(* The schemas of inputs that a table offers for checks of its clients.     *)
Public(fields) == Only(fields, {k \in DOMAIN fields : "INTERNAL" \notin DOMAIN fields[k].meta})
Optional(field) == [field EXCEPT !.node = <<"optional", @>>]
isOptional(field) == run(field.node, Absent, "decode") # Bad
Fills(k, field) == k = "id" \/ DOMAIN field.meta \cap {"DEFAULT", "VALUE", "COMPUTED"} # {}
create(fields) ==
  [k \in DOMAIN Public(fields) |->
     IF Fills(k, fields[k]) \/ isOptional(fields[k]) THEN Optional(fields[k]) ELSE fields[k]]
Fixed(k, field) == k = "id" \/ "READONLY" \in DOMAIN field.meta
update(fields) ==
  [k \in {k \in DOMAIN Public(fields) : ~Fixed(k, fields[k])} |-> Optional(fields[k])]

decode(fields, wire) == run(<<"object", fields, FALSE>>, wire, "decode")

-----------------------------------------------------------------------------
(* The database: a schemafull table with the fields the DDL defines.  The   *)
(* fields in an object that is not there are not checked; DEFAULT is for    *)
(* new records; the ASSERT of a format is for texts; a READONLY field keeps *)
(* its first value.  Types have several forms in the SDK: a small int comes *)
(* back as a number, bytes as a buffer.                                     *)
FormsOf(type) ==
  CASE type = "int" -> {"number", "bigint"}
    [] type = "bytes" -> {"Uint8Array", "ArrayBuffer"}
    [] OTHER -> {AppType(type)}
RECURSIVE Admits(_, _)
Admits(type, v) ==
  CASE type[1] = "option" -> v = Absent \/ Admits(type[2], v)
    [] type[1] = "union" -> \E i \in DOMAIN type[2] : Admits(type[2][i], v)
    [] type[1] = "array" ->
         /\ v[1] = "array" /\ (type[3] # NoMax => Len(v[2]) <= type[3])
         /\ \A i \in DOMAIN v[2] : Admits(type[2], v[2][i])
    [] type[1] = "record" -> v[1] = "RecordId" /\ Contains(type[2], v[2][1])
    [] OTHER -> type = AnyType \/ v[1] \in FormsOf(type[2]) \/ v = <<"string", type[2]>>

RECURSIVE Returned(_)
Returned(v) ==
  CASE v[1] = "array" -> <<"array", [i \in DOMAIN v[2] |-> Returned(v[2][i])]>>
    [] v[1] = "bigint" /\ v[2] = 0 -> <<"number", 0>>
    [] v[1] = "Uint8Array" /\ v[2] = 0 -> <<"ArrayBuffer", 0>>
    [] OTHER -> v

(* A literal in the DDL. *)
Literal(v) == IF v[1] = "Date" THEN <<"datetime", v[2]>> ELSE v

RECURSIVE Stored(_, _, _, _)
Stored(info, meta, given, new) ==
  LET fills == "DEFAULT" \in DOMAIN meta
      v     == IF fills /\ new /\ given = Absent THEN Literal(meta["DEFAULT"]) ELSE given
      type  == IF fills THEN stripOption(info.type) ELSE info.type
      kids  == info.children
      of(k) == IF k \in DOMAIN v[2] THEN v[2][k] ELSE Absent
      passes == "ASSERT" \notin DOMAIN meta \/ v[1] \in {"absent", meta["ASSERT"]}
  IN CASE ~Admits(type, v) \/ ~passes -> Bad
       [] v[1] = "object" /\ "*" \in DOMAIN kids ->
            Sound([k \in DOMAIN v[2] |-> Stored(kids["*"].info, NoMeta, v[2][k], new)])
       [] v[1] = "object" /\ "*" \notin DOMAIN kids ->
            IF ~info.flexible /\ ~(DOMAIN v[2] \subseteq DOMAIN kids) THEN Bad
            ELSE Sound([k \in DOMAIN kids \cup DOMAIN v[2] |->
                   IF k \in DOMAIN kids THEN Stored(kids[k].info, kids[k].meta, of(k), new) ELSE of(k)])
       [] v[1] = "array" /\ "*" \in DOMAIN kids ->
            Each([i \in DOMAIN v[2] |->
                    Stored([kids["*"].info EXCEPT !.flexible = info.flexible], NoMeta, v[2][i], new)])
       [] OTHER -> Returned(v)

At(v, k) == IF k \in DOMAIN v[2] THEN v[2][k] ELSE Absent
StoredRow(wire, new) ==
  LET stored == Stored(inferField(<<"object", columns, FALSE>>), NoMeta, wire, new)
      fixed  == {k \in DOMAIN columns : "READONLY" \in DOMAIN columns[k].meta}
  IN IF stored # Bad /\ ~new /\ \E k \in fixed : At(stored, k) # At(row, k) THEN Bad ELSE stored

(* MERGE, of the database and of the calls: objects key by key.             *)
RECURSIVE Merged(_, _)
Merged(old, new) ==
  IF old[1] = "object" /\ new[1] = "object"
  THEN Obj([k \in DOMAIN old[2] \cup DOMAIN new[2] |->
              IF k \in DOMAIN old[2] \cap DOMAIN new[2] THEN Merged(old[2][k], new[2][k])
              ELSE IF k \in DOMAIN new[2] THEN new[2][k] ELSE old[2][k]])
  ELSE new
Assigned(old, new) == Obj(new[2] @@ old[2])

-----------------------------------------------------------------------------
(* The TypeScript types of the inputs, with the values of the n-th write.   *)
RECURSIVE Inputs(_, _, _), InputOptional(_)
InputOptional(node) ==
  node[1] \in {"optional", "default"} \/ (node[1] = "nullable" /\ InputOptional(node[2]))
InputValues(node, how, n) ==
  LET core == Peeled(node)
      elem == IF core[1] = "array" THEN Peeled(core[2]) ELSE core
  IN CASE core[1] = "object" -> {Obj(more @@ o[2]) : more \in Extra(core, n), o \in Inputs(core[2], how, n)}
       [] core[1] = "array" /\ elem[1] = "object" ->
            {<<"array", <<v>>>> : v \in Inputs(elem[2], how, n)} \cup {<<"array", <<>>>>}
       [] OTHER -> Values(node, n)

(* How: a "create" input or an "update" patch; those of the system view     *)
(* have the internal fields.                                                *)
CreateOptional(k, field) ==
  k = "id" \/ DOMAIN field.meta \cap {"DEFAULT", "COMPUTED"} # {} \/ InputOptional(field.node)
MayOmit(k, field, how) == how = "update" \/ CreateOptional(k, field)
Inputs(shape, how, n) ==
  LET with(k, some) ==
        {Obj((k :> v) @@ o[2]) : v \in InputValues(shape[k].node, how, n), o \in some}
        \cup (IF MayOmit(k, shape[k], how) THEN some ELSE {})
  IN FoldSet(with, {Obj(<<>>)}, {k \in DOMAIN shape : how = "update" => ~Fixed(k, shape[k])})

-----------------------------------------------------------------------------
(* Permissions: <<"full">>, <<"none">>, <<"same", operation>> or <<"where", *)
(* words>>, the words being <<fact>>, <<"AND">>, <<"OR">>, <<"group",       *)
(* words>>.                                                                 *)
PermOps == {"select", "update"}
And == <<"AND">>
Or == <<"OR">>
Loops == <<"loops">>

RECURSIVE Follow(_, _, _)
Follow(spec, op, seen) ==
  CASE op \in seen \/ op \notin DOMAIN spec -> Loops
    [] spec[op][1] = "same" -> Follow(spec, spec[op][2], seen \cup {op})
    [] OTHER -> spec[op]
permOpMap(spec) == [op \in DOMAIN spec |-> Follow(spec, op, {})]

needsParens(words) == Contains(words, Or)
andPerm_Bare(a, b) ==
  CASE <<"none">> \in {a, b} -> <<"none">>
    [] a = <<"full">> -> b
    [] b = <<"full">> -> a
    [] OTHER -> <<"where", a[2] \o <<And>> \o b[2]>>
andPerm(a, b) ==
  LET wrap(words) == IF needsParens(words) THEN <<<<"group", words>>>> ELSE words
  IN CASE <<"none">> \in {a, b} -> <<"none">>
       [] a = <<"full">> -> b
       [] b = <<"full">> -> a
       [] OTHER -> <<"where", wrap(a[2]) \o <<And>> \o wrap(b[2])>>
combinePermissions(existing, add) ==
  LET a == permOpMap(existing)
      b == permOpMap(add)
  IN [op \in DOMAIN a \cup DOMAIN b |->
        IF op \in DOMAIN a \cap DOMAIN b THEN andPerm(a[op], b[op])
        ELSE IF op \in DOMAIN a THEN a[op] ELSE b[op]]

(* What the database makes of a rule: AND binds before OR.                  *)
RECURSIVE Holds(_, _)
Holds(words, facts) ==
  LET split(word) == CHOOSE i \in DOMAIN words : words[i] = word
      left(word)  == Holds(SubSeq(words, 1, split(word) - 1), facts)
      right(word) == Holds(SubSeq(words, split(word) + 1, Len(words)), facts)
  IN CASE Contains(words, Or) -> left(Or) \/ right(Or)
       [] Contains(words, And) /\ ~Contains(words, Or) -> left(And) /\ right(And)
       [] words[1][1] = "group" -> Holds(words[1][2], facts)
       [] OTHER -> words[1][1] \in facts
Allows(rule, facts) ==
  rule = <<"full">> \/ (rule[1] = "where" /\ Holds(rule[2], facts))

-----------------------------------------------------------------------------
(* The shape operations.  Those of an s.object() work on its Zod schema and *)
(* on the fields it registers for the DDL and the codec.                    *)
Unwrap(field) == IF field.node[1] = "optional" THEN [field EXCEPT !.node = @[2]] ELSE field
Without(f, keys) == Only(f, DOMAIN f \ keys)

(* .loose(): on the objects of a field, in lists too.                       *)
RECURSIVE applyObjectMode(_)
applyObjectMode(node) ==
  CASE node[1] = "object" -> [node EXCEPT ![3] = TRUE]
    [] node[1] \in {"array", "optional", "nullable", "default"} -> [node EXCEPT ![2] = applyObjectMode(@)]
    [] OTHER -> node
Loose(field) == [field EXCEPT !.node = applyObjectMode(@)]

Init ==
  /\ \E begin \in Begins :
       /\ columns = begin.columns /\ typed = begin.columns
       /\ object = [shape |-> begin.object, fields |-> begin.object]
       /\ ahead = begin.chains
  /\ perms = <<>> /\ rules = {}
  /\ row = Absent /\ meant = Absent /\ last = <<"none", Absent, "none">> /\ writes = 0

Chain(op) ==
  /\ writes = 0 /\ UNCHANGED rowVars
  /\ ahead' = {Tail(chain) : chain \in {c \in ahead : c # <<>> /\ c[1] = op}}
  /\ ahead' # {}

Become(f, t) == columns' = f /\ typed' = t /\ UNCHANGED <<object, perms, rules>>
TablePick == Chain("pick") /\ \E k \in DOMAIN columns : Become(Only(columns, {k}), Only(typed, {k}))
TableOmit == Chain("omit") /\ \E k \in DOMAIN columns : Become(Without(columns, {k}), Without(typed, {k}))
TablePartial ==
  /\ Chain("partial")
  /\ Become([k \in DOMAIN columns |-> Optional(columns[k])], [k \in DOMAIN typed |-> Optional(typed[k])])
TableRequired ==
  /\ Chain("required")
  /\ Become([k \in DOMAIN columns |-> Unwrap(columns[k])], [k \in DOMAIN typed |-> Unwrap(typed[k])])
(* The fields of the object become columns, or the object a column of its   *)
(* own, a default or a list of them.                                        *)
TableExtend == Chain("extend") /\ Become(object.fields @@ columns, object.shape @@ typed)
TableNest ==
  /\ Chain("nest")
  /\ LET o == <<"object", object.shape, FALSE>>
     IN \E node \in {o, <<"optional", o>>, <<"default", o, Obj(<<>>)>>, <<"array", o, NoMax>>,
                     <<"nullable", <<"default", <<"array", o, NoMax>>, <<"array", <<>>>>>>>>, <<"map", o>>} :
          Become(("o" :> Field(node, NoMeta)) @@ columns, ("o" :> Field(node, NoMeta)) @@ typed)
TableLoosen ==
  /\ Chain("loosen") /\ "o" \in DOMAIN columns
  /\ Become([columns EXCEPT !["o"] = Loose(@)], [typed EXCEPT !["o"] = Loose(@)])

Reshape(o) == object' = o /\ UNCHANGED <<columns, typed, perms, rules>>
ObjectPick ==
  /\ Chain("objectPick")
  /\ \E k \in DOMAIN object.shape :
       Reshape([shape |-> Only(object.shape, {k}), fields |-> Only(object.fields, {k})])
ObjectOmit ==
  /\ Chain("objectOmit")
  /\ \E k \in DOMAIN object.shape :
       Reshape([shape |-> Without(object.shape, {k}), fields |-> Without(object.fields, {k})])
ObjectMerge ==
  /\ Chain("objectMerge")
  /\ \E o \in Objects : Reshape([shape |-> o @@ object.shape, fields |-> o @@ object.fields])
ObjectPartial ==
  /\ Chain("objectPartial")
  /\ Reshape([object EXCEPT !.shape = [k \in DOMAIN @ |-> Optional(@[k])]])

(* A preset adds columns of its own and narrows the permissions; it throws  *)
(* if it has a column of the table, or if its rules refer in a circle.      *)
Use ==
  /\ Chain("use") /\ UNCHANGED object
  /\ \E p \in Presets :
       IF \/ DOMAIN p.columns \cap DOMAIN columns # {}
          \/ \E op \in DOMAIN p.permissions : Follow(p.permissions, op, {}) = Loops
       THEN UNCHANGED <<columns, typed, perms, rules>>
       ELSE /\ columns' = p.columns @@ columns /\ typed' = p.columns @@ typed
            /\ perms' = combinePermissions(perms, p.permissions)
            /\ rules' = rules \cup {p.permissions}

-----------------------------------------------------------------------------
(* The writes, of the table or of its system view, and what they mean.      *)
RECURSIVE Filled(_, _)
Filled(node, v) ==
  LET core == Peeled(node)
      full == {k \in DOMAIN core[2] : k \in DOMAIN v[2] \/ "DEFAULT" \in DOMAIN core[2][k].meta}
  IN CASE core[1] = "object" /\ v[1] = "object" ->
            Obj([k \in full |->
                   IF k \in DOMAIN v[2] THEN Filled(core[2][k].node, v[2][k])
                   ELSE core[2][k].meta["DEFAULT"]] @@ v[2])
       [] core[1] \in {"array", "map"} /\ v[1] \in {"array", "object"} ->
            <<v[1], [i \in DOMAIN v[2] |-> Filled(core[2], v[2][i])]>>
       [] OTHER -> v

Write(call, input, wire, to) ==
  /\ writes' = writes + 1 /\ UNCHANGED shapeVars
  /\ LET after == IF wire = Bad THEN Bad ELSE StoredRow(wire, call = "create")
     IN /\ last' = <<call, input, IF wire = Bad THEN "thrown" ELSE IF after = Bad THEN "refused" ELSE "kept">>
        /\ row' = IF after = Bad THEN row ELSE after
        /\ meant' = IF after = Bad THEN meant ELSE to

encode(input) == safeEncodeInput(columns, input[2])
TypedInputs(how) == Inputs(Public(typed), how, writes) \cup Inputs(typed, how, writes)

Create ==
  /\ writes < MaxWrites /\ row = Absent /\ DOMAIN typed # {}
  /\ \E input \in TypedInputs("create") :
       Write("create", input, encode(input), Filled(<<"object", typed, FALSE>>, input))
Patched(call, old, new) ==
  CASE call = "merge" -> Merged(old, new)
    [] call = "set" -> Assigned(old, new)
    [] call = "content" -> new
Update(call, how) ==
  /\ writes < MaxWrites /\ row # Absent
  /\ \E input \in TypedInputs(how) :
       LET wire == encode(input)
       IN Write(call, input, IF wire = Bad THEN Bad ELSE Patched(call, row, wire), Patched(call, meant, input))
Merge == Update("merge", "update")
Set == Update("set", "update")
Content == Update("content", "create")

Next ==
  \/ TablePick \/ TableOmit \/ TablePartial \/ TableRequired \/ TableExtend \/ TableNest \/ TableLoosen
  \/ ObjectPick \/ ObjectOmit \/ ObjectMerge \/ ObjectPartial \/ Use
  \/ Create \/ Merge \/ Set \/ Content

Spec == Init /\ [][Next]_vars

-----------------------------------------------------------------------------
(* A row reads back as the writes said, through the table (without its      *)
(* internal fields) and through its system view: no value loses its codec,  *)
(* no patch touches what it does not name, no stored row fails to decode.   *)
RowsComeBack ==
  row # Absent =>
    \A fields \in {Public(columns), columns} :
      decode(fields, row) = Shown(<<"object", Only(typed, DOMAIN fields), FALSE>>, meant)

(* A patch for the objects that are there, with no elements of lists.       *)
RECURSIVE Sits(_, _)
Sits(patch, on) ==
  \A k \in DOMAIN patch[2] :
    /\ patch[2][k][1] # "array"
    /\ patch[2][k][1] = "object" =>
         k \in DOMAIN on[2] /\ on[2][k][1] = "object" /\ Sits(patch[2][k], on[2][k])

(* An input without nested objects to fill.                                 *)
Whole(input) == \A k \in DOMAIN input[2] : input[2][k] \in Values(typed[k].node, writes)

(* What the types of the inputs allow, the codec and the database take: a   *)
(* new row, and a patch merged into one.  So do the schemas for clients,    *)
(* of an input that leaves nothing out in its nested objects.               *)
TypedIsAccepted ==
  [][/\ writes' # writes
     /\ last'[1] = "create" \/ (last'[1] = "merge" /\ Sits(last'[2], meant))
     => /\ last'[3] = "kept"
        /\ LET schema == IF last'[1] = "create" THEN create(columns) ELSE update(columns)
           IN Whole(last'[2]) => run(<<"object", schema, FALSE>>, last'[2], "encode") # Bad]_vars

(* A table that uses presets allows what every rule it was given allows:    *)
(* the rules are put together by their text.                                *)
UseNarrows ==
  \A op \in PermOps, facts \in SUBSET {"a", "b", "c"} :
    LET asked == {r \in rules : op \in DOMAIN r}
    IN asked # {} =>
         (Allows(perms[op], facts) <=> \A r \in asked : Allows(Follow(r, op, {}), facts))
=============================================================================
