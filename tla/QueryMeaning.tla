---------------------------- MODULE QueryMeaning -----------------------------
(***************************************************************************)
(* The two ends of a query: what SurrealQL reads in its text, and what its *)
(* author meant by it.  Both are the same kind of tree, in which a field   *)
(* is known by how many rows out it belongs, a parameter by how many       *)
(* binders out it was bound, a placeholder by the value sent with it.      *)
(***************************************************************************)
EXTENDS QueryText

IndexIn(seq, x) == CHOOSE i \in DOMAIN seq : seq[i] = x /\ \A j \in 1..(i - 1) : seq[j] # x

-----------------------------------------------------------------------------
(* SurrealQL.  `names` are the parameters in scope, the innermost first.    *)

(* The infix operators, loosest first; all associate to the left.           *)
Levels == << {"OR"}, {"AND"}, {"=", "CONTAINS"}, {"+", "-"}, {"*"} >>
At(text, ops) == {i \in DOMAIN text : text[i].t = "op" /\ text[i].n[1] \in ops}

RECURSIVE Read(_, _, _), ReadAtom(_, _, _)

ReadAll(texts, names, vars) == [i \in DOMAIN texts |-> Read(texts[i], names, vars)]

Read(text, names, vars) ==
  LET levels == {n \in DOMAIN Levels : At(text, Levels[n]) # {}}
      loosest == CHOOSE n \in levels : \A m \in levels : n <= m
      last == CHOOSE i \in At(text, Levels[loosest]) :
                \A j \in At(text, Levels[loosest]) : j <= i
  IN IF levels # {}
     THEN <<text[last].n[1], Read(SubSeq(text, 1, last - 1), names, vars),
            Read(SubSeq(text, last + 1, Len(text)), names, vars)>>
     ELSE ReadAtom(text[1], names, vars)

ReadAtom(a, names, vars) ==
  LET in == ReadAll(a.in, names, vars)
      sent == {i \in DOMAIN vars : vars[i].n = a.n}
      params == [i \in 1..(Len(a.in) - 1) |-> a.in[i][1].n]
  IN
  CASE a.t = "$" ->
         IF \E i \in DOMAIN names : names[i] = a.n THEN <<"param", IndexIn(names, a.n)>>
         ELSE IF sent # {} THEN <<"value", vars[CHOOSE i \in sent : TRUE].v>>
         ELSE <<"unbound">>
    [] a.t = "id" -> <<"field", 1, a.n[1]>>
    [] a.t = "$parent" -> <<"field", 2, a.n[1]>>
    [] a.t = "(" -> IF a.in[1][1].t = "statement"
                    THEN LET s == a.in[1][1]
                         IN <<"statement", s.n[1], ReadAll(s.in, names, vars)>>
                    ELSE in[1]
    [] a.t = "statement" -> <<"not a value">>
    [] a.t = "call" -> <<"call", a.n[1], in>>
    [] a.t = "fun" -> <<"fun", Read(Last(a.in), Reverse(params) \o names, vars)>>
    [] a.t = "path" ->
         <<"path", IF a.in[1] = <<>> THEN <<"field", 1, "">> ELSE in[1],
           ReadAll(Tail(a.in), names, vars)>>
    [] a.t = "LET" -> <<"LET", in[2], Read(a.in[3], <<a.in[1][1].n>> \o names, vars)>>
    [] OTHER -> <<a.t, in>>

(* A query sent with its values: the statement, or the block.               *)
Sent(q) == ReadAtom(Paren(q.x)[1], <<>>, q.vars)

-----------------------------------------------------------------------------
(* The author.  `rows` and `vars` are the rows and variables in scope, the  *)
(* innermost first.                                                         *)

RECURSIVE Meaning(_, _, _)
Meaning(t, rows, vars) ==
  LET Of(u) == Meaning(u, rows, vars)
      All(ts) == [i \in DOMAIN ts |-> Of(ts[i])]
      Ids(bs) == Reverse([i \in DOMAIN bs |-> bs[i].id])
      Within(ts) == [i \in DOMAIN ts |-> Meaning(ts[i], <<t.row>> \o rows, vars)]
      Whole == <<"statement", t.k, [i \in DOMAIN t.patch |-> <<"value", t.patch[i]>>]
                                     \o Within(t.proj \o t.where)>>
  IN
  CASE t.k \in {"lit", "arg"} -> <<"value", t.v>>
    [] t.k = "raw" -> <<"value", t.vars[1].v>>
    [] t.k = "col" -> <<"field", IndexIn(rows, t.row), t.col>>
    [] t.k = "var" -> <<"param", IndexIn(vars, t.id)>>
    [] t.k = "op" -> <<t.op, Of(t.l), Of(t.r)>>
    [] t.k = "fn" -> <<"call", t.fn, <<Of(t.l)>> >>
    [] t.k = "closure" ->
         <<"call", t.fn, <<Of(t.l)>> \o All(t.seed)
             \o << <<"fun", Meaning(t.body, rows, Ids(t.params) \o vars)>> >> >>
    [] t.k = "cmp" -> <<"=", Of(t.l), Of(t.r)>>
    [] t.k = "contains" -> <<"CONTAINS", Of(t.l), Of(t.r)>>
    [] t.k \in {"AND", "OR"} ->
         FoldLeft(LAMBDA x, u : <<t.k, x, Of(u)>>, Of(Head(t.parts)), Tail(t.parts))
    [] t.k = "not" -> <<"!", <<Of(t.l)>> >>
    [] t.k = "data" -> <<"{}", All(t.parts)>>
    [] t.k \in {"path", "step"} ->
         <<"path", IF t.base = <<>> THEN <<"field", IndexIn(rows, t.from), "">> ELSE Of(t.base[1]),
           Within(t.where)>>
    [] t.k = "block" ->
         IF t.lets = <<>> THEN <<"RETURN", <<Of(t.ret)>> >>
         ELSE <<"LET", Of(t.lets[1].value),
                Meaning([t EXCEPT !.lets = Tail(@)], rows, <<t.lets[1].id>> \o vars)>>
    [] t.k = "count" -> <<"OR", <<"[0].count", <<Whole>> >>, <<"0", <<>> >> >>
    [] OTHER -> Whole

Meant(t) == Meaning(t, <<>>, <<>>)
=============================================================================
