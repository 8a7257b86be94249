------------------------------- MODULE PgQuery -------------------------------
(***************************************************************************)
(* The Postgres query builder (drivers/postgres/src/query, connection.ts): *)
(* values are sent apart from the text and found by position, `$1`, `$2`.. *)
(* A fragment written with the pgSql tag counts from `$1` itself; put in   *)
(* another text it is renumbered, its values follow those already there.   *)
(***************************************************************************)
EXTENDS QueryMeaning

CONSTANTS MaxCalls, MaxHeld   \* calls before a query is sent, and what is held meanwhile

VARIABLES
  frags,     \* fragments at hand
  preds,     \* predicates at hand
  clauses,   \* the builder's state: where, limit and start, each given or not
  patch,     \* the values of an update, none for a select
  calls,     \* calls so far; also tells values apart
  sent       \* the query sent, if it was

vars == <<frags, preds, clauses, patch, calls, sent>>

-----------------------------------------------------------------------------
(* The Binder: a text under construction is its tokens and its values.      *)

Placeholder(n) == Dollar(<<"$", n>>)
Empty == [x |-> <<>>, params |-> <<>>]
Text(b, x) == [b EXCEPT !.x = @ \o x]

bind(b, v) == [x |-> b.x \o Placeholder(Len(b.params) + 1), params |-> Append(b.params, v)]

RECURSIVE Shifted(_, _)
Shifted(x, by) ==
  [i \in DOMAIN x |->
     [x[i] EXCEPT !.n = IF x[i].t = "$" THEN <<"$", @[2] + by>> ELSE @,
                  !.in = [j \in DOMAIN @ |-> Shifted(@[j], by)]]]

(* Mutant: a fragment keeps its own numbers.                                *)
splice_Kept(f, b) == [x |-> f.x, params |-> b.params \o f.params]
splice(f, b) == [x |-> Shifted(f.x, Len(b.params)), params |-> b.params \o f.params]

renderOperand(b, v) ==
  IF v.k # "frag" THEN bind(b, v.v)
  ELSE LET f == splice(v, b) IN [f EXCEPT !.x = b.x \o Paren(@)]

(* Texts in a row, each rendered with the values of those before it.        *)
Each(b, items, Render(_, _)) ==
  FoldLeft(LAMBDA acc, i : LET r == Render([x |-> <<>>, params |-> acc.params], i)
                           IN [in |-> Append(acc.in, r.x), params |-> r.params],
           [in |-> <<>>, params |-> b.params], items)

(* pgSql`f(${v}, ${w})`: a call of its own values and fragments.            *)
pgSql(vs) ==
  LET Tagged(b, v) == IF v.k = "frag" THEN splice(v, b) ELSE bind(b, v.v)
      parts == Each(Empty, vs, Tagged)
  IN [k |-> "frag", x |-> <<Node("call", <<"f">>, parts.in)>>, params |-> parts.params, of |-> vs]

RECURSIVE renderPred(_, _)
renderPred(b, p) ==
  LET col == <<Node("id", <<"a">>, <<>>)>>
      values == Each(b, p.vs, renderOperand)
      parts == Each(b, p.of, renderPred)
      With(x, r) == [x |-> b.x \o x, params |-> r.params]
  IN
  CASE p.k = "cmp" -> renderOperand(Text(b, col \o Infix("=")), p.vs[1])
    [] p.k = "in" -> IF p.vs = <<>> THEN Text(b, <<Node("FALSE", <<>>, <<>>)>>)
                     ELSE With(<<Node("IN", <<>>, <<col>> \o values.in)>>, values)
    [] p.k = "ends" ->
         With(<<Node("right", <<>>, <<col, values.in[1]>>)>> \o Infix("=") \o values.in[1], values)
    [] p.k = "has" -> With(values.in[1] \o Infix("=") \o <<Node("ANY", <<>>, <<col>>)>>, values)
    [] p.k = "null" -> Text(b, <<Node("null", <<>>, <<col>>)>>)
    [] p.k = "raw" -> With(Paren(splice(p.vs[1], b).x), splice(p.vs[1], b))
    [] p.k = "not" -> With(<<Node("!", <<>>, parts.in)>>, parts)
    [] p.k \in {"AND", "OR"} -> With(Paren(Joined(parts.in, p.k)), parts)

(* toSQL of a select, a count or an update.  A clause is a list of texts.   *)
Part(name, texts) == Node(name, <<>>, texts)
Clause(acc, name, given, Render(_, _)) ==
  IF given = <<>> THEN acc
  ELSE LET b == Render([x |-> <<>>, params |-> acc.params], given[1])
       IN [x |-> Append(acc.x, Part(name, <<b.x>>)), params |-> b.params]

SelectSQL(s) ==
  LET where == Clause(Empty, "WHERE", s.where, renderPred)
      limit == Clause(where, "LIMIT", s.limit, bind)
  IN Clause(limit, "OFFSET", s.start, bind)
CountSQL(s) == Clause(Empty, "WHERE", s.where, renderPred)
UpdateSQL(values, id) ==
  LET sets == FoldLeft(LAMBDA b, v : Clause(b, "SET", <<v>>, bind), Empty, values)
  IN Clause(sets, "WHERE id", <<id>>, bind)

-----------------------------------------------------------------------------

Init ==
  /\ frags = <<>> /\ preds = <<>> /\ patch = <<>> /\ calls = 0 /\ sent = <<>>
  /\ clauses = [where |-> <<>>, limit |-> <<>>, start |-> <<>>]

Call == sent = <<>> /\ calls < MaxCalls /\ calls' = calls + 1
Lit(n) == [k |-> "lit", v |-> <<calls, n>>]
Operands == ToSet(frags) \union {Lit(1)}

Tag ==
  \E vs \in {<<v>> : v \in Operands} \union {<<Lit(2), v>> : v \in Operands} :
    /\ Call /\ Len(frags) < MaxHeld
    /\ frags' = Append(frags, pgSql(vs))
    /\ UNCHANGED <<preds, clauses, patch, sent>>

Pred(k, vs, of) == [k |-> k, vs |-> vs, of |-> of]
Compare ==
  \E p \in {Pred("cmp", <<v>>, <<>>) : v \in Operands}
           \union {Pred("in", vs, <<>>) : vs \in {<<>>} \union {<<v, Lit(2)>> : v \in Operands}}
           \union {Pred(k, <<Lit(1)>>, <<>>) : k \in {"ends", "has"}}
           \union {Pred("null", <<>>, <<>>)}
           \union {Pred("raw", <<f>>, <<>>) : f \in ToSet(frags)} :
    /\ Call /\ Len(preds) < MaxHeld
    /\ preds' = Append(preds, p)
    /\ UNCHANGED <<frags, clauses, patch, sent>>

Join ==
  \E op \in {"AND", "OR"} :
    /\ sent = <<>> /\ Len(preds) > 1
    /\ preds' = <<Pred(op, <<>>, preds)>>
    /\ UNCHANGED <<calls, frags, clauses, patch, sent>>

Negate ==
  /\ Call /\ preds # <<>>
  /\ preds' = Append(Front(preds), Pred("not", <<>>, <<Last(preds)>>))
  /\ UNCHANGED <<frags, clauses, patch, sent>>

(* A clause given again replaces the earlier one.                           *)
Where ==
  /\ sent = <<>> /\ preds # <<>>
  /\ clauses' = [clauses EXCEPT !.where = <<Last(preds)>>]
  /\ preds' = Front(preds)
  /\ UNCHANGED <<calls, frags, patch, sent>>

Page ==
  \E c \in {"limit", "start"} :
    /\ Call /\ preds = <<>>
    /\ clauses' = [clauses EXCEPT ![c] = <<calls>>]
    /\ UNCHANGED <<frags, preds, patch, sent>>

Patch ==
  /\ Call /\ Len(patch) < 2 /\ preds = <<>> /\ frags = <<>>
  /\ patch' = Append(patch, calls)
  /\ UNCHANGED <<frags, preds, clauses, sent>>

(* .run(): of a select, of its count, of an update by id.  Predicates are    *)
(* made for a where clause, and in one go.                                  *)
Send ==
  \E kind \in {"select", "count", "update"} :
    /\ sent = <<>> /\ calls > 0 /\ preds = <<>> /\ (kind = "update") = (patch # <<>>)
    /\ sent' = <<[kind |-> kind,
                  q |-> CASE kind = "select" -> SelectSQL(clauses)
                          [] kind = "count" -> CountSQL(clauses)
                          [] kind = "update" -> UpdateSQL(patch, calls)]>>
    /\ UNCHANGED <<frags, preds, clauses, patch, calls>>

Next == Tag \/ Compare \/ Join \/ Negate \/ Where \/ Page \/ Patch \/ Send

Spec == Init /\ [][Next]_vars

-----------------------------------------------------------------------------

(* What Postgres reads: each `$n` is the n-th value sent.                   *)
Received(q) ==
  LET values == [i \in DOMAIN q.params |-> [n |-> <<"$", i>>, v |-> q.params[i]]]
  IN [i \in DOMAIN q.x |-> ReadAtom(q.x[i], <<>>, values)]

RECURSIVE Intended(_)
Intended(p) ==
  LET col == <<"field", 1, "a">>
      All(ps) == [i \in DOMAIN ps |-> Intended(ps[i])]
  IN CASE p.k = "lit" -> <<"value", p.v>>
       [] p.k = "frag" -> <<"call", "f", All(p.of)>>
       [] p.k = "cmp" -> <<"=", col, Intended(p.vs[1])>>
       [] p.k = "in" -> IF p.vs = <<>> THEN <<"FALSE", <<>> >> ELSE <<"IN", <<col>> \o All(p.vs)>>
       [] p.k = "ends" -> <<"=", <<"right", <<col, Intended(p.vs[1])>> >>, Intended(p.vs[1])>>
       [] p.k = "has" -> <<"=", Intended(p.vs[1]), <<"ANY", <<col>> >> >>
       [] p.k = "null" -> <<"null", <<col>> >>
       [] p.k = "raw" -> Intended(p.vs[1])
       [] p.k = "not" -> <<"!", All(p.of)>>
       [] p.k \in {"AND", "OR"} ->
            FoldLeft(LAMBDA x, u : <<p.k, x, Intended(u)>>, Intended(Head(p.of)), Tail(p.of))

Given(name, clause, Of(_)) ==
  IF clause = <<>> THEN <<>> ELSE << <<name, <<Of(clause[1])>> >> >>
Value(v) == <<"value", v>>

(* Every placeholder of a query sent stands for the value given in its      *)
(* place, however fragments were nested, used again and spliced between     *)
(* predicates and clauses, and predicates group as they were joined.        *)
PlaceholdersAgree ==
  sent # <<>> =>
    Received(sent[1].q) =
      CASE sent[1].kind = "update" ->
             [i \in DOMAIN patch |-> <<"SET", <<Value(patch[i])>> >>]
               \o << <<"WHERE id", <<Value(calls)>> >> >>
        [] sent[1].kind = "count" -> Given("WHERE", clauses.where, Intended)
        [] sent[1].kind = "select" ->
             Given("WHERE", clauses.where, Intended) \o Given("LIMIT", clauses.limit, Value)
               \o Given("OFFSET", clauses.start, Value)
=============================================================================
