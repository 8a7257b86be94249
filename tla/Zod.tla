-------------------------------- MODULE Zod --------------------------------
(***************************************************************************)
(* Zod as both drivers use it: a schema runs over a value, to decode what  *)
(* the database gives or to encode what the program gives.                 *)
(*                                                                         *)
(* A value is <<type, content>>, as <<"string", n>> or <<"Date", n>>,      *)
(* NullValue, <<"object", keys to values>> or <<"array", values>>; Absent  *)
(* stands for a key that is not there.  A schema node is <<"prim", type>>, *)
(* <<"enum", words>>, <<"union", nodes>>, <<"record", tables>>,            *)
(* <<"optional" or "nullable", node>>, <<"default", node, value>>,         *)
(* <<"object", shape, loose>>, <<"array", node, max>>, <<"map", node>> or  *)
(* <<"codec", type, wire, wires>>: encoded as one type, decoded from any   *)
(* of several.  A shape maps the keys to fields that have a node.          *)
(***************************************************************************)
EXTENDS SequencesExt

Absent == <<"absent">>
Bad == <<"bad">>
NullValue == <<"null">>
Obj(keys) == <<"object", keys>>
Only(f, keys) == [k \in DOMAIN f \cap keys |-> f[k]]
Sound(f) == IF \E k \in DOMAIN f : f[k] = Bad THEN Bad
            ELSE Obj(Only(f, {k \in DOMAIN f : f[k] # Absent}))
Each(seq) == IF Contains(seq, Bad) THEN Bad ELSE <<"array", seq>>

(* The JavaScript type of the values of a prim.                             *)
AppType(type) ==
  CASE type \in {"int", "float"} -> "number" [] type = "bool" -> "boolean" [] OTHER -> type

(* A default is for reading only.                                           *)
RECURSIVE run(_, _, _)
run(node, v, way) ==
  LET inner == node[2]
      ran == SelectSeq([i \in DOMAIN inner |-> run(inner[i], v, way)], LAMBDA out : out # Bad)
      code(from, to) == IF v[1] \in from THEN <<to, v[2]>> ELSE Bad
  IN CASE node[1] = "optional" ->
            IF v = Absent /\ run(inner, v, way) = Bad THEN Absent ELSE run(inner, v, way)
       [] node[1] = "nullable" -> IF v = NullValue THEN v ELSE run(inner, v, way)
       [] node[1] = "default" ->
            IF v = Absent /\ way = "decode" THEN node[3] ELSE run(inner, v, way)
       [] node[1] = "object" ->
            IF v[1] # "object" THEN Bad
            ELSE LET keys == v[2]
                     more == IF node[3] THEN DOMAIN keys \ DOMAIN inner ELSE {}
                 IN Sound([k \in DOMAIN inner \cup more |->
                      IF k \in more THEN keys[k]
                      ELSE run(inner[k].node, IF k \in DOMAIN keys THEN keys[k] ELSE Absent, way)])
       [] node[1] = "map" ->
            IF v[1] # "object" THEN Bad ELSE Sound([k \in DOMAIN v[2] |-> run(inner, v[2][k], way)])
       [] node[1] = "array" ->
            IF v[1] # "array" THEN Bad ELSE Each([i \in DOMAIN v[2] |-> run(inner, v[2][i], way)])
       [] node[1] = "union" -> IF ran = <<>> THEN Bad ELSE ran[1]
       [] node[1] = "enum" -> IF v[1] = "string" /\ Contains(inner, v[2]) THEN v ELSE Bad
       [] node[1] = "record" -> IF v[1] = "RecordId" /\ Contains(inner, v[2][1]) THEN v ELSE Bad
       [] node[1] = "codec" ->
            IF way = "encode" THEN code({inner}, node[3]) ELSE code(node[4], inner)
       [] OTHER -> IF inner = "any" \/ v[1] = AppType(inner) THEN v ELSE Bad

RECURSIVE Peeled(_)
Peeled(node) == IF node[1] \in {"optional", "nullable", "default"} THEN Peeled(node[2]) ELSE node

(* The values of the type of a node, with n in them, and what a loose       *)
(* object may have besides its keys.                                        *)
Extra(node, n) == IF node[3] THEN {<<>>, "u" :> <<"string", n>>} ELSE {<<>>}
RECURSIVE Values(_, _)
Values(node, n) ==
  LET shape == node[2]
      with(k, some) ==
        {Obj((k :> v) @@ o[2]) : v \in Values(shape[k].node, n), o \in some}
        \cup (IF shape[k].node[1] = "optional" THEN some ELSE {})
  IN CASE node[1] \in {"optional", "default"} -> Values(node[2], n)
       [] node[1] = "nullable" -> {NullValue} \cup Values(node[2], n)
       [] node[1] = "object" ->
            FoldSet(with, {Obj(more) : more \in Extra(node, n)}, DOMAIN shape)
       [] node[1] = "map" -> {Obj("m" :> v) : v \in Values(node[2], n)}
       [] node[1] = "array" -> {<<"array", <<v>>>> : v \in Values(node[2], n)}
       [] node[1] = "union" -> UNION {Values(option, n) : option \in ToSet(node[2])}
       [] node[1] = "enum" -> {<<"string", word>> : word \in ToSet(node[2])}
       [] node[1] = "record" -> {<<"RecordId", <<table, n>>>> : table \in ToSet(node[2])}
       [] OTHER -> {<<IF node[2] = "any" THEN "string" ELSE AppType(node[2]), n>>}

(* What a reader should see of a value that was written: the value, and the *)
(* defaults of the schema.                                                  *)
RECURSIVE Shown(_, _)
Shown(node, v) ==
  LET inner == node[2]
      of(k) == IF k \in DOMAIN v[2] THEN v[2][k] ELSE Absent
      seen  == [k \in DOMAIN inner |-> Shown(inner[k].node, of(k))]
      more  == IF node[3] THEN v[2] ELSE <<>>
  IN CASE v = Absent -> IF node[1] = "default" THEN node[3]
                      ELSE IF node[1] \in {"optional", "nullable"} THEN Shown(inner, v) ELSE Absent
       [] node[1] \in {"optional", "nullable", "default"} /\ v # Absent -> Shown(inner, v)
       [] node[1] = "object" /\ v[1] = "object" ->
            Obj(Only(seen, {k \in DOMAIN seen : seen[k] # Absent}) @@ more)
       [] node[1] \in {"array", "map"} /\ v[1] \in {"array", "object"} ->
            <<v[1], [i \in DOMAIN v[2] |-> Shown(inner, v[2][i])]>>
       [] OTHER -> v
=============================================================================
