---------------------------- MODULE MCTableTrip -----------------------------
(* Definitions of a table with one field, and the words of their types.     *)
EXTENDS TableTrip

CONSTANT Extra  (* "perms": fields with permissions that leave some         *)
                (* operations open; "maps": objects of any keys, and lists; *)
                (* "none": the other definitions                            *)

MCAlphabet == <<"'a'", "'b'", "any", "array", "int", "none", "null", "object", "option",
                "org", "record", "set", "string", "user">>
MCLiterals == {"'a'", "'b'"}

Str == Prim("string")
Int0 == Prim("int")
Ref == <<"record", <<"org">>>>
Obj(keys, loose) == <<"object", [k \in keys |-> Field(Str, NoMeta)], loose>>

Nodes ==
  {Str, Int0, AnyType, Ref, <<"record", <<"org", "user">>>>,
   <<"optional", Str>>, <<"nullable", Str>>, <<"nullable", Int0>>,
   <<"nullable", <<"optional", Int0>>>>, <<"optional", AnyType>>,
   <<"union", <<Prim("'b'"), Prim("'a'")>>>>,
   <<"nullable", <<"union", <<Prim("'b'"), Prim("'a'")>>>>>>,
   <<"array", Str, NoMax>>, <<"array", Ref, NoMax>>, <<"set", Int0, NoMax>>, <<"array", AnyType, NoMax>>,
   <<"optional", <<"array", Str, NoMax>>>>, <<"array", <<"array", Int0, NoMax>>, NoMax>>,
   <<"array", Str, 5>>, <<"union", <<Str, Int0>>>>, <<"union", <<Str, Obj({}, TRUE)>>>>,
   Obj({"a"}, FALSE), Obj({"a", "b"}, TRUE), <<"optional", Obj({"a"}, FALSE)>>,
   <<"array", Obj({"a"}, FALSE), NoMax>>, <<"array", Obj({"a", "b"}, TRUE), NoMax>>,
   <<"object", [k \in {"a"} |-> Field(<<"array", Obj({"b"}, FALSE), NoMax>>, NoMeta)], FALSE>>,
   <<"object", [k \in {"a"} |-> Field(<<"optional", Str>>, "DEFAULT" :> "d1")], FALSE>>}

Metas ==
  {"DEFAULT" :> "d1", "DEFAULT" :> "always d2", "VALUE" :> "v1", "COMPUTED" :> "c1",
   "ASSERT" :> "a1", "READONLY" :> "yes", "COMMENT" :> "m1", "INTERNAL" :> "yes",
   "PERMISSIONS" :> [op \in FieldOps |-> "where"],
   "PERMISSIONS" :> [op \in FieldOps |-> IF op = "select" THEN "where" ELSE "none"],
   "INDEX" :> {"UNIQUE"}, "INDEX" :> {"UNIQUE", "FULLTEXT"},
   ("DEFAULT" :> "d1") @@ ("READONLY" :> "yes"),
   ("VALUE" :> "v1") @@ ("ASSERT" :> "a1") @@ ("INDEX" :> {""})}
Parts ==
  {"PERMISSIONS" :> [op \in FieldOps |-> IF op = "select" THEN "full" ELSE "none"],
   "PERMISSIONS" :> [op \in {"update"} |-> "none"],
   "PERMISSIONS" :> [op \in {"select", "update"} |-> IF op = "update" THEN "none" ELSE "full"],
   "PERMISSIONS" :> [op \in {"update"} |-> "where"]}

Fields ==
  CASE Extra = "perms" -> {Field(Str, m) : m \in Parts \cup {NoMeta}}
    [] Extra = "maps" -> {Field(<<n, Int0, NoMax>>, NoMeta) : n \in {"array", "set"}} \cup {Field(<<"map", Int0>>, NoMeta)}
    [] OTHER ->
       {Field(n, NoMeta) : n \in Nodes}
       \cup {Field(Str, m) : m \in Metas}
       \cup {Field(<<"optional", Int0>>, m) : m \in {"DEFAULT" :> "d1", "VALUE" :> "v1", "ASSERT" :> "a1"}}
       \cup {Field(Ref, "REFERENCE" :> r) : r \in {"plain", "ignore", "cascade"}}

Plain == ("TYPE" :> "NORMAL") @@ ("SCHEMA" :> "SCHEMAFULL")
Heads ==
  {Plain, "TYPE" :> "ANY" @@ Plain, "SCHEMA" :> "SCHEMALESS" @@ Plain, "DROP" :> "yes" @@ Plain,
   ("COMMENT" :> "m1") @@ ("CHANGEFEED" :> "1d") @@ Plain,
   ("PERMISSIONS" :> [op \in TableOps |-> "full"]) @@ Plain,
   ("PERMISSIONS" :> [op \in {"select"} |-> "where"]) @@ Plain}
Rests ==
  {<<>>, <<"index", <<"ix">>>> :> ("SPEC" :> "UNIQUE"), <<"index", <<"ix">>>> :> ("SPEC" :> ""),
   <<"event", <<"ev">>>> :> ("THEN" :> "t1"),
   <<"event", <<"ev">>>> :> (("THEN" :> "t2") @@ ("WHEN" :> "w"))}

Def(head, fields, rest) == [head |-> head, fields |-> fields, rest |-> rest]
One(field) == [k \in {"f"} |-> field]
MCCorpus ==
  {Def(Plain, One(f), <<>>) : f \in Fields}
  \cup (IF Extra # "none" THEN {}
        ELSE {Def(h, One(Field(Str, NoMeta)), r) : h \in Heads, r \in {<<>>}}
             \cup {Def(Plain, One(Field(Str, NoMeta)), r) : r \in Rests}
             \cup {Def(Plain, [k \in {"f", "g"} |-> Field(Str, NoMeta)], <<>>),
                   Def(Plain, <<>>, <<>>)})
=============================================================================
