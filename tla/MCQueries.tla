------------------------------ MODULE MCQueries ------------------------------
(* The query builders for TLC.  A behaviour is one of a SurrealDB query under  *)
(* construction (QueryCalls), of a chain of calls on one statement             *)
(* (QueryChain), of a Postgres query (PgQuery) or of a table and a row that    *)
(* goes through its codec (RowCodec, PgRows).                                  *)
EXTENDS QueryChain, TLC

CONSTANTS Kits, MaxCalls, MaxHeld, MaxWrites,
          Compositions, (* the chains of shape operations                      *)
          PgCorpus      (* the tables of Postgres, and what is done to them    *)

VARIABLES kit, open, closureDepth, calls, done,
          frags, preds, clauses, patch, given, sent,
          columns, typed, object, perms, rules, ahead, row, meant, last, writes,
          fields, types, key, json, shaped, tuple, wanted, called, sentRows

pgVars == <<frags, preds, clauses, patch, given, sent>>
callVars == <<kit, open, closureDepth, calls, done>>

Pg == INSTANCE PgQuery WITH calls <- given
Build == INSTANCE QueryCalls

-----------------------------------------------------------------------------
(* Tables, objects and presets: every word of the vocabulary, plain, optional, *)
(* in lists and in objects; three tables to be put together in every way.      *)
(* Lists of a format the database checks are left out (README, deviations).    *)
S == INSTANCE SurrealFields
Text == S!s["string"]
Date == S!s["datetime"]
Meta(field, meta) == [field EXCEPT !.meta = meta]

Dates == ("x" :> Date) @@ ("y" :> Meta(Date, "DEFAULT" :> <<"Date", "d">>))
Texts == ("x" :> Text) @@ ("z" :> S!default(Text, <<"string", "z">>))
Begin(cols, o, chains) == [columns |-> cols, object |-> o, chains |-> chains]
Both(a, b) == ("a" :> a) @@ ("b" :> b)
Default == "DEFAULT" :> <<"string", "d">>

(* The words, and the fields that are made of words.                           *)
Fields ==
  {S!s[w] : w \in DOMAIN S!s}
  \cup {S!enum(<<"on", "off">>), S!literal("on"), S!recordId(<<"user", "post">>),
        S!union(<<S!s["bool"], Date>>), S!record(S!s["bigint"]), S!looseObject(Texts)}
InLists(field) == IF field.meta = <<>> THEN S!array(S!nullable(field), 2) ELSE S!optional(field)
InObjects(field) == IF field.meta = <<>> THEN S!nullish(field) ELSE S!optional(field)

MCBegins ==
  {Begin(Both(field, InLists(field)), <<>>, {<<"partial">>}) : field \in Fields}
  \cup {Begin("a" :> Text, "x" :> InObjects(field), {<<"nest">>}) : field \in Fields}
  \cup { Begin(Both(Text, S!optional(Date)), Dates, Compositions),
         Begin(Both(S!nullable(Date), Meta(Text, Default)), Texts, Compositions),
         Begin(Both(Date, Meta(Text, ("INTERNAL" :> "yes") @@ Default)), Dates, Compositions),
         Begin(Both(Meta(Text, "READONLY" :> "yes"), Date), <<>>, {<<"partial">>, <<"omit">>}) }

Where(words) == <<"where", [i \in DOMAIN words |-> <<words[i]>>]>>
Preset(cols, permissions) == [columns |-> cols, permissions |-> permissions]
BothOps(select, update) == ("select" :> select) @@ ("update" :> update)
MCPresets ==
  { Preset(<<>>, BothOps(Where(<<"a", "OR", "b">>), Where(<<"a", "OR", "b">>))),
    Preset("p" :> Text, BothOps(Where(<<"c", "AND", "b">>), <<"same", "select">>)),
    Preset(<<>>, BothOps(<<"full">>, Where(<<"a">>))),
    Preset(<<>>, "update" :> <<"none">>),
    Preset(<<>>, BothOps(<<"same", "update">>, <<"same", "select">>)) }

TableOps == {"pick", "omit", "partial", "required"}
MCCompositions ==
  ({<<a, b>> : a \in {"objectPick", "objectOmit", "objectMerge", "objectPartial"}, b \in {"extend", "nest"}}
   \cup {<<a, b>> : a \in {"extend", "nest"}, b \in TableOps}
   \cup {<<"partial", "required">>, <<"use", "use">>, <<"nest", "loosen">>}) \ {<<"objectPartial", "extend">>}

Codec == INSTANCE RowCodec WITH
  Alphabet <- <<>>, Literals <- {}, Begins <- MCBegins, Objects <- {Dates, Texts},
  Presets <- MCPresets
rowsVars == <<columns, typed, object, perms, rules, ahead, row, meant, last, writes>>

-----------------------------------------------------------------------------
(* Tables of Postgres: every word of the vocabulary, plain and as a list;      *)
(* objects in jsonb; generated keys; a key of the configuration next to a      *)
(* generated and a nullable column; no key of its own.  `numeric` and `citext` *)
(* are left out (README, deviations).                                          *)
PgTable == INSTANCE PgRows WITH
  Alphabet <- <<"a", "b", "c", "code", "id", "k", "o", "p", "x", "y", "z">>,
  Begins <- PgCorpus.begins, Objects <- PgCorpus.objects, Presets <- PgCorpus.presets,
  Chains <- PgCorpus.chains, columns <- fields, typed <- types, primaryKey <- key,
  object <- json, chained <- shaped, row <- tuple, meant <- wanted, last <- called,
  writes <- sentRows
pgRowsVars == <<fields, types, key, json, shaped, tuple, wanted, called, sentRows>>

Field == INSTANCE PgFields
Word(w) == Field!s[w]
Clause(field, name, value) == Field!with(field, name :> value)
PgBegin(cols, pk) ==
  [columns |-> cols, primaryKey |-> pk,
   object |-> ("x" :> Clause(Word("text"), "default", <<"string", "e">>))
              @@ ("y" :> Field!nullable(Word("integer")))]
Keyed(a, b) ==
  PgBegin(("id" :> Clause(Word("text"), "default", <<"string", "d">>)) @@ ("a" :> a) @@ ("b" :> b), <<>>)
Plain(begin) == [begin EXCEPT !.object = <<>>]
Loosened == Field!objectOf(("x" :> Word("text")) @@ ("z" :> Field!optional(Word("boolean"))))

MCPgCorpus ==
  [ begins |->
      {Plain(Keyed(Word(w), Field!array(Word(w)))) : w \in DOMAIN Field!s \ {"numeric", "citext"}}
      \cup {PgBegin(("id" :> Field!serial(w)) @@ ("a" :> Field!nullable(Word("text")))
                    @@ ("b" :> Field!default(Word("text"), <<"string", "z">>)), <<>>) :
              w \in {"integer", "bigint"}}
      \cup {Keyed(Loosened, Field!array(Loosened)),
            PgBegin(("code" :> Word("uint64"))
                    @@ ("a" :> Clause(Word("text"), "computed", <<"string", "g">>))
                    @@ ("b" :> Clause(Field!nullable(Word("integer")), "default", <<"number", 0>>)),
                    <<"code">>),
            PgBegin(("a" :> Word("text")) @@ ("b" :> Clause(Word("text"), "default", <<"string", "d">>)),
                    <<>>)},
    objects |-> {("x" :> Word("text")) @@ ("y" :> Word("integer"))},
    presets |-> {"p" :> Word("timestamptz"), "a" :> Word("text")},
    chains |->
      {<<"extend">>, <<"use", "use">>}
      \cup {<<a, b>> : a \in {"pick", "omit", "merge", "partial", "required"}, b \in {"nest", "extend"}} ]

(* The table of the repository's README, with its `.optional()` column.        *)
ReadmeTable ==
  [MCPgCorpus EXCEPT !.begins = {Keyed(Word("text"), Field!optional(Word("smallint")))},
                     !.chains = {}]

-----------------------------------------------------------------------------
Kit(max, depth, uses) == [max |-> max, depth |-> depth, uses |-> uses]

MCKits ==
  { Kit(6, 3, {"select", "count", "UPDATE", "Compare", "Join", "Negate", "Project"}),
    Kit(5, 2, {"select", "DELETE", "Derive", "Compare"}),
    Kit(5, 4, {"select", "any", "map", "fold", "Measure", "Compare"}),
    Kit(5, 3, {"select", "count", "any", "Derive", "Compare"}),
    Kit(7, 3, {"UPDATE", "path", "WriteByHand", "CompareIn", "Compare", "Join"}),
    Kit(6, 3, {"select", "path", "WriteByHand", "CompareIn", "Compare", "Project"}),
    Kit(5, 3, {"block", "select", "count", "map", "any", "Let", "Collect", "Compare", "Derive"}) }

NoCalls ==
  /\ kit = Kit(0, 0, {}) /\ open = <<>> /\ closureDepth = 0 /\ calls = 1 /\ done = <<>>
NoPg ==
  /\ frags = <<>> /\ preds = <<>> /\ clauses = <<>> /\ patch = <<>> /\ given = 0 /\ sent = <<>>
NoChain == q = <<>> /\ log = <<>> /\ result = <<>>
NoRows ==
  /\ columns = <<>> /\ typed = <<>> /\ object = <<>> /\ perms = <<>> /\ rules = {} /\ ahead = {}
  /\ row = Codec!Absent /\ meant = Codec!Absent /\ last = <<"none", Codec!Absent, "none">> /\ writes = 0
NoPgRows ==
  /\ fields = <<>> /\ types = <<>> /\ key = <<>> /\ json = <<>> /\ shaped = <<>>
  /\ tuple = Codec!Absent /\ wanted = Codec!Absent /\ called = <<"none", Codec!Absent, "none">>
  /\ sentRows = 0

AllInit ==
  \/ Build!Init /\ NoPg /\ NoChain /\ NoRows /\ NoPgRows
  \/ Pg!Init /\ NoCalls /\ NoChain /\ NoRows /\ NoPgRows
  \/ Init /\ NoCalls /\ NoPg /\ NoRows /\ NoPgRows
  \/ Codec!Init /\ NoCalls /\ NoPg /\ NoChain /\ NoPgRows
  \/ PgTable!Init /\ NoCalls /\ NoPg /\ NoChain /\ NoRows

BuildStep == kit.max > 0 /\ Build!Next /\ UNCHANGED <<vars, pgVars, rowsVars, pgRowsVars>>
PgStep == clauses # <<>> /\ Pg!Next /\ UNCHANGED <<vars, callVars, rowsVars, pgRowsVars>>
ChainStep == log # <<>> /\ Next /\ UNCHANGED <<callVars, pgVars, rowsVars, pgRowsVars>>
RowStep == object # <<>> /\ Codec!Next /\ UNCHANGED <<vars, callVars, pgVars, pgRowsVars>>
PgRowStep == json # <<>> /\ PgTable!Next /\ UNCHANGED <<vars, callVars, pgVars, rowsVars>>

AllSpec ==
  AllInit
  /\ [][BuildStep \/ PgStep \/ ChainStep \/ RowStep \/ PgRowStep]_<<vars, callVars, pgVars, rowsVars, pgRowsVars>>

(* A Postgres query binds every value to its place: PgQuery.                   *)
PlaceholdersAgree == clauses # <<>> => Pg!PlaceholdersAgree

(* A query reads as its author wrote it: QueryCalls.                           *)
ReadsAsWritten == Build!ReadsAsWritten

(* Rows read back as they were written, typed inputs are taken, and presets    *)
(* narrow: RowCodec.                                                           *)
RowsComeBack == Codec!RowsComeBack
TypedIsAccepted == Codec!TypedIsAccepted
UseNarrows == Codec!UseNarrows

(* The same of the rows of Postgres: PgRows.                                   *)
PgRowsComeBack == PgTable!RowsComeBack
PgTypedIsAccepted == PgTable!TypedIsAccepted
=============================================================================
