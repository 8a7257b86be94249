------------------------------ MODULE MCPgTrip -------------------------------
(* Two tables, `u` and `t`, and definitions of the other kinds.      *)
EXTENDS PgTrip

MCAlphabet == <<"a", "b", "citext", "e", "f", "fkey", "fn", "g", "id", "idx", "key", "p",
                "s", "status", "t", "tag", "tr", "u", "v", "w">>
MCUserTypes ==
  ("status" :> <<"enum", <<"status">>>>) @@ ("tag" :> <<"domain", <<"tag">>>>)
  @@ ("citext" :> <<"extension", <<"citext">>>>)

-----------------------------------------------------------------------------
(* Fields.                                                                  *)
F(token, params, wraps, meta) == [token |-> token, params |-> params, wraps |-> wraps, meta |-> meta]
Plain(token) == F(token, <<>>, <<>>, <<>>)
Text == Plain("text")
References(table, actions) == "references" :> [table |-> table, actions |-> actions]

Types ==
  {Plain(token) : token \in {"text", "integer", "bigint", "timestamptz", "jsonb"}}
  \cup {F("varchar", <<40>>, <<>>, <<>>), F("text", <<>>, <<"array">>, <<>>),
        F("text", <<>>, <<"nullable">>, <<>>), F("text", <<>>, <<"option", "array">>, <<>>)}
OtherTypes ==
  ("a" :> Plain("double precision")) @@ ("b" :> Plain("numeric")) @@ ("e" :> Plain("boolean"))
  @@ ("g" :> Plain("uuid")) @@ ("p" :> Plain("time")) @@ ("s" :> F("char", <<3>>, <<>>, <<>>))
  @@ ("t" :> F("numeric", <<10, 2>>, <<>>, <<>>)) @@ ("u" :> F("integer", <<>>, <<"array">>, <<>>))
  @@ ("v" :> Plain("bytea")) @@ ("w" :> Plain("interval")) @@ ("id" :> Plain("timestamp"))

Metas ==
  {"default" :> <<"d1">>, "default" :> <<"d2">>, "check" :> "c1", "check" :> "c2",
   "computed" :> "g1", "comment" :> <<"m1">>, "unique" :> TRUE, "primaryKey" :> TRUE}
Clauses ==
  {F("text", <<>>, <<>>, m) : m \in Metas}
  \cup {F("integer", <<>>, <<>>, "identity" :> "always")}
  \cup {F("text", <<>>, <<>>, References("u", a)) :
          a \in {<<>>, "on_delete" :> "CASCADE"}}
  \cup {F("text", <<>>, <<"nullable">>, References("u", "on_delete" :> "SET NULL"))}

-----------------------------------------------------------------------------
(* Tables and schemas.                                                      *)
Def(fields) ==
  [fields |-> fields, primaryKey |-> <<>>, indexes |-> {}, checks |-> <<>>, foreignKeys |-> {}]
Ix(cols, unique, method, where) == [cols |-> cols, unique |-> unique, method |-> method, where |-> where]

Two == ("a" :> Text) @@ ("b" :> Text)
U == Def(Two)
WithU(t) == ("u" :> U) @@ ("t" :> t)
Schema(tables, defs) == [tables |-> tables, defs |-> defs]

Varied == {Schema(WithU(Def("f" :> f)), <<>>) : f \in Types \cup Clauses}

Structured ==
  {Schema(WithU(t), <<>>) : t \in
     {Def(<<>>), Def(Two), [Def(OtherTypes) EXCEPT !.primaryKey = <<"g">>],
      [Def(Two) EXCEPT !.primaryKey = <<"a", "b">>],
      [Def(Two) EXCEPT !.checks = <<"a <> b">>],
      [Def(Two) EXCEPT !.indexes = {Ix(<<"a">>, FALSE, "btree", "")}],
      [Def(Two) EXCEPT !.indexes = {Ix(<<"a">>, TRUE, "btree", "")}],
      [Def(Two) EXCEPT !.indexes = {Ix(<<"a">>, FALSE, "btree", "a > 0"), Ix(<<"a", "b">>, TRUE, "btree", "")}],
      [Def(("a" :> Plain("jsonb")) @@ ("b" :> Text)) EXCEPT !.indexes = {Ix(<<"a">>, FALSE, "gin", "")}]}}
  \cup {Schema(("u" :> [U EXCEPT !.indexes = {Ix(<<"a", "b">>, TRUE, "btree", "")}])
               @@ ("t" :> [Def(Two) EXCEPT !.foreignKeys =
                             {[columns |-> <<"a", "b">>, refTable |-> "u", refColumns |-> <<"a", "b">>,
                               actions |-> acts]}]), <<>>) : acts \in {<<>>, "on_delete" :> "CASCADE"}}
  \cup {Schema(<<>>, <<>>), Schema("u" :> Def("a" :> Text), <<>>)}

(* The other kinds.                                                         *)
Named(kind, name) == [kind |-> kind, name |-> <<name>>]
Enum(values) == [values |-> values] @@ Named("enum", "status")
Domain(base, notNull, check) == [base |-> base, notNull |-> notNull, check |-> check] @@ Named("domain", "tag")
Sequence(attrs) == [attrs |-> attrs] @@ Named("sequence", "s")
Function(body) == [body |-> body] @@ Named("function", "fn")
View(name, reads, sql) == [reads |-> reads, sql |-> sql] @@ Named("view", name)
MatView(reads) == [reads |-> reads, sql |-> "q1"] @@ Named("matview", "w")
Trigger(def) == [table |-> "t", fn |-> "fn", def |-> def] @@ Named("trigger", "tr")
Policy(using) == [table |-> "t", using |-> using] @@ Named("policy", "p")

Of(token) == Schema(WithU(Def("f" :> token)), <<>>)
Column(c) == {TableKey("t"), ColumnKey("t", c)}
Others ==
  {[Of(Plain("status")) EXCEPT !.defs = <<Enum(v)>>] :
     v \in {<<"a", "b">>, <<"a", "b", "c">>, <<"b", "a">>}}
  \cup {[Of(Text) EXCEPT !.defs = <<Enum(<<"a", "b">>)>>],
        [Of(F("status", <<>>, <<"array">>, <<>>)) EXCEPT !.defs = <<Enum(<<"a", "b">>)>>],
        [Of(Plain("tag")) EXCEPT !.defs = <<Domain(<<"varchar", 40>>, FALSE, "")>>],
        [Of(Plain("tag")) EXCEPT !.defs = <<Domain(<<"varchar", 40>>, FALSE, "c1")>>],
        [Of(Text) EXCEPT !.defs = <<Domain(<<"text">>, TRUE, "")>>],
        [Of(F("integer", <<>>, <<>>, "default" :> <<"nextval", "s">>))
           EXCEPT !.defs = <<Sequence("increment" :> "1")>>],
        [Of(Plain("integer")) EXCEPT !.defs = <<Sequence(("start" :> "100") @@ ("cycle" :> "yes"))>>],
        [Of(Plain("citext")) EXCEPT !.defs = <<Named("extension", "citext")>>]}
  \cup {[Of(Text) EXCEPT !.defs = d] : d \in
          {<<Function("b1")>>, <<Function("b2"), Trigger("after")>>, <<Function("b1"), Trigger("before")>>,
           <<Policy("p1")>>, <<Policy("p2")>>,
           <<View("v", Column("f"), "q1")>>, <<View("v", Column("f"), "q2"), MatView(Column("f"))>>,
           <<View("v", Column("f"), "q1"), View("w", {<<"view", <<"v">>>>}, "q1")>>}}

MCCorpus == Varied \cup Structured \cup Others
=============================================================================
