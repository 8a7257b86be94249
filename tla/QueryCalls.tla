----------------------------- MODULE QueryCalls ------------------------------
(***************************************************************************)
(* The calls that build a SurrealDB query (drivers/surrealdb/src/query):   *)
(* a callback is open for every builder, traversal filter, closure and     *)
(* block under construction; inside it the author compares columns,        *)
(* derives values, opens further callbacks and uses what the outer ones    *)
(* gave.  When the last callback closes, the query is complete: it must    *)
(* read as it was written, whatever the calls were.                        *)
(*                                                                         *)
(* Left out because the code does not carry them: an outer row two queries *)
(* up or across a block (one level of `$parent` by design), and outer rows *)
(* in the places the README lists under deviations (a write, a traversal   *)
(* filter, a plain column of a projection).                                *)
(***************************************************************************)
EXTENDS QueryMeaning

CONSTANT
  Kits           \* the calls a query is made of, and bounds: how many of them
                 \* (`max`), how many callbacks open at once (`depth`)

VARIABLES
  kit,           \* the kit of this query
  open,          \* the callbacks under way, the innermost last
  closureDepth,  \* the module's counter of open closures
  calls,         \* calls so far; also numbers rows, variables and values
  done           \* the finished query, if there is one

vars == <<kit, open, closureDepth, calls, done>>

Here == Len(open)
Top == open[Here]

-----------------------------------------------------------------------------
(* What the author can name.                                                *)

Rows == {"select", "count", "path", "UPDATE", "DELETE"}
HasToken(k) == k \in {"select", "count"}

Col(f, col, kind) == [k |-> "col", row |-> f.id, tok |-> HasToken(f.k), col |-> col, kind |-> kind]
Var(p) == [k |-> "var", id |-> p.id, name |-> p.name, kind |-> p.kind]
Lit(n) == [k |-> "lit", v |-> n]

(* The rows in scope of the innermost callback, out to the nearest block.   *)
RowsInScope ==
  LET block == {i \in 1..Here : open[i].k = "block"}
      from == IF block = {} THEN 1 ELSE 1 + CHOOSE i \in block : \A j \in block : j <= i
  IN Reverse(SelectSeq(SubSeq(open, from, Here), LAMBDA f : f.k \in Rows))

Legible(row) ==
  LET scope == RowsInScope
  IN \/ scope # <<>> /\ scope[1].id = row
     \/ Len(scope) > 1 /\ scope[2].id = row /\ HasToken(scope[1].k) /\ HasToken(scope[2].k)

(* A value at hand: its term, and the rows it speaks of.                    *)
Value(t, rows) == [t |-> t, rows |-> rows]

IsRef(v) == v.t.k \in {"col", "var", "op", "fn", "closure"}
OfKind(v, kind) == IsRef(v) /\ v.t.kind = kind

(* Columns and variables of any open callback, and what was made of them.   *)
Refs ==
  UNION {LET f == open[i]
         IN (IF f.k \in Rows
             THEN {Value(Col(f, "n", "number"), {f.id}), Value(Col(f, "l", "list"), {f.id})}
             ELSE {})
            \union {Value(Var(f.params[j]), {}) : j \in DOMAIN f.params}
            \union {v \in ToSet(f.ready) : IsRef(v)} : i \in 1..Here}
LegibleRefs == {v \in Refs : \A row \in v.rows : Legible(row)}

(* Builders, traversals and fragments made in this callback.                *)
Builders == {v \in ToSet(Top.ready) : ~IsRef(v)}
Queries == {v \in Builders : v.t.k # "path"}
Paths == {v \in Builders : v.t.k = "path"}

-----------------------------------------------------------------------------

Frame(k, id, of, params) ==
  [k |-> k, id |-> id, of |-> of, params |-> params,
   ready |-> <<>>, preds |-> <<>>, proj |-> <<>>, lets |-> <<>>]

Init == kit \in Kits /\ open = <<>> /\ closureDepth = 0 /\ calls = 1 /\ done = <<>>

Call(name) ==
  /\ name \in kit.uses
  /\ calls <= kit.max
  /\ calls' = calls + 1
  /\ UNCHANGED kit
InCallback(name) == Here > 0 /\ Call(name)
Opening(name) == Here \in 1..(kit.depth - 1) /\ Call(name)

(* A value used up: a builder is used once, a reference as often as wanted. *)
Without(f, used) == [f EXCEPT !.ready = SelectSeq(@, LAMBDA v : v \notin used \/ IsRef(v))]
Gain(f, v) == [f EXCEPT !.ready = Append(@, v)]
Holds(f, p) == [f EXCEPT !.preds = Append(@, p)]
InTop(f) == open' = [open EXCEPT ![Here] = f]

(* select(T).where(cb), update(T).set(patch).where(cb), block().return(cb)  *)
Start ==
  /\ open = <<>> /\ done = <<>>
  /\ \E k \in {"select", "UPDATE", "DELETE", "block"} :
       /\ Call(k)
       /\ open' = <<Frame(k, calls, {}, <<>>)>>
       /\ UNCHANGED <<closureDepth, done>>

(* select(U).where(cb), .count() and block() inside a callback.             *)
OpenQuery ==
  \E k \in {"select", "count", "block"} :
    /\ Opening(k)
    /\ open' = Append(open, Frame(k, calls, {}, <<>>))
    /\ UNCHANGED <<closureDepth, done>>

(* row.out(E).where(cb), from this callback's row or from a path made here. *)
OpenPath ==
  /\ Opening("path")
  /\ \E base \in Paths \union {Value([k |-> "anchor"], {Top.id})} :
       /\ Top.k \in Rows \ {"path"}
       /\ open' = Append([open EXCEPT ![Here] = Without(@, {base})],
                         Frame("path", calls, {base}, <<>>))
       /\ UNCHANGED <<closureDepth, done>>

(* list.any(cb), list.map(cb), list.fold(init, cb): the parameters are      *)
(* named by how many closures are open, and the callback runs at once.      *)
ParamName(p) == IF closureDepth = 0 THEN <<p>> ELSE <<p, closureDepth + 1>>

OpenClosure ==
  /\ Here > 0
  /\ \E k \in {"any", "map", "fold"}, list \in LegibleRefs :
       /\ Opening(k)
       /\ OfKind(list, "list")
       /\ LET Param(p, n, kind) == [id |-> <<calls, n>>, name |-> ParamName(p), kind |-> kind]
              elem == IF list.t.k = "var" THEN "other" ELSE "list"
              params == IF k = "fold" THEN <<Param("acc", 1, "number"), Param("v", 2, elem)>>
                        ELSE <<Param("v", 1, elem)>>
          IN open' = Append(open, Frame(k, calls, {list}, params))
       /\ closureDepth' = closureDepth + 1
       /\ UNCHANGED done

(* ref.add(x), ref.sub(x), ref.mul(x): a literal argument is named for good.*)
Derive ==
  /\ InCallback("Derive")
  /\ \E op \in {"-", "*"}, l \in LegibleRefs,
       r \in LegibleRefs \union {Value([k |-> "arg", name |-> <<"r", calls>>, v |-> calls,
                                        kind |-> "number"], {})} :
       /\ OfKind(l, "number") /\ r.t.kind = "number"
       /\ InTop(Gain(Top, Value([k |-> "op", op |-> op, l |-> l.t, r |-> r.t, kind |-> "number"],
                                l.rows \union r.rows)))
       /\ UNCHANGED <<closureDepth, done>>

(* list.len()                                                               *)
Measure ==
  /\ InCallback("Measure")
  /\ \E l \in LegibleRefs :
       /\ OfKind(l, "list")
       /\ InTop(Gain(Top, Value([k |-> "fn", fn |-> "len", l |-> l.t, kind |-> "number"], l.rows)))
       /\ UNCHANGED <<closureDepth, done>>

(* A fragment written by hand, with a placeholder of the author's naming.   *)
WriteByHand ==
  /\ InCallback("WriteByHand")
  /\ InTop(Gain(Top, Value([k |-> "raw", x |-> Dollar(<<"p">>),
                            vars |-> <<[n |-> <<"p">>, v |-> calls]>>], {})))
  /\ UNCHANGED <<closureDepth, done>>

(* ref.eq(x): x a value, a reference, a query.                              *)
Compare ==
  /\ InCallback("Compare")
  /\ \E l \in LegibleRefs, r \in LegibleRefs \union Queries \union {Value(Lit(calls), {})} :
       /\ ~OfKind(l, "list") /\ ~OfKind(r, "list") /\ l # r
       /\ InTop(Holds(Without(Top, {r}), [k |-> "cmp", l |-> l.t, r |-> r.t]))
       /\ UNCHANGED <<closureDepth, done>>

(* path.contains(x)                                                         *)
CompareIn ==
  /\ InCallback("CompareIn")
  /\ \E p \in Paths, r \in LegibleRefs \union {Value(Lit(calls), {})} :
       /\ InTop(Holds(Without(Top, {p}), [k |-> "contains", l |-> p.t, r |-> r.t]))
       /\ UNCHANGED <<closureDepth, done>>

Join ==
  /\ InCallback("Join")
  /\ \E op \in {"AND", "OR"} :
       /\ Len(Top.preds) > 1
       /\ InTop([Top EXCEPT !.preds = << [k |-> op, parts |-> @] >>])
       /\ UNCHANGED <<closureDepth, done>>

Negate ==
  /\ InCallback("Negate")
  /\ Top.preds # <<>>
  /\ InTop([Top EXCEPT !.preds = Append(Front(@), [k |-> "not", l |-> Last(@)])])
  /\ UNCHANGED <<closureDepth, done>>

(* select(..).return(cb): a value in the projection.                        *)
Project ==
  /\ InCallback("Project")
  /\ \E v \in LegibleRefs \union Builders :
       /\ Top.k = "select"
       /\ v.t.k = "col" => v.t.row = Top.id
       /\ InTop([Without(Top, {v}) EXCEPT !.proj = Append(@, v.t)])
       /\ UNCHANGED <<closureDepth, done>>

(* block().let({ x: v }): the variable is a reference from here on.         *)
Let ==
  /\ InCallback("Let")
  /\ \E v \in LegibleRefs \union Queries \union {Value(Lit(calls), {})} :
       /\ Top.k = "block"
       /\ LET p == [id |-> <<calls, 1>>, name |-> <<"x", calls>>,
                    kind |-> IF v.t.k = "select" THEN "list"
                             ELSE IF v.t.k \in {"lit", "count"} THEN "number"
                             ELSE IF IsRef(v) THEN v.t.kind ELSE "other"]
          IN InTop([Without(Top, {v}) EXCEPT !.params = Append(@, p),
                                             !.lets = Append(@, [id |-> p.id, name |-> p.name,
                                                                 value |-> v.t])])
       /\ UNCHANGED <<closureDepth, done>>

(* An object of values, some of them references: { a: ref, b: 1 }.          *)
Collect ==
  /\ InCallback("Collect")
  /\ \E v \in LegibleRefs \union Queries :
       /\ Top.k = "block"
       /\ InTop(Gain(Without(Top, {v}), Value([k |-> "data", parts |-> <<v.t, Lit(calls)>>], v.rows)))
       /\ UNCHANGED <<closureDepth, done>>

(* The callback returns its predicate or, where that is asked for, a value; *)
(* the builder or the value made of it goes to the callback around it.      *)
Built(f) ==
  LET query == [k |-> f.k, row |-> f.id, tok |-> HasToken(f.k), proj |-> f.proj, where |-> f.preds,
                patch |-> IF f.k = "UPDATE" THEN <<f.id>> ELSE <<>>]
      of == CHOOSE v \in f.of : TRUE
      Fun(fn, seed, kind) ==
        {Value([k |-> "closure", fn |-> fn, l |-> of.t, seed |-> seed, params |-> f.params,
                body |-> body, kind |-> kind], of.rows) :
           body \in ToSet(f.preds) \union {v.t : v \in {w \in ToSet(f.ready) : IsRef(w)}}}
  IN CASE f.k \in Rows \ {"path"} -> {Value(query, {})}
       [] f.k = "path" ->
            {Value([k |-> "path", row |-> f.id, tok |-> FALSE, where |-> f.preds,
                    from |-> CHOOSE row \in of.rows : TRUE,
                    base |-> IF of.t.k = "anchor" THEN <<>> ELSE <<[of.t EXCEPT !.k = "step"]>>], of.rows)}
       [] f.k = "any" -> Fun("any", <<>>, "boolean")
       [] f.k = "map" -> Fun("map", <<>>, "list")
       [] f.k = "fold" -> Fun("fold", <<Lit(f.id)>>, "number")
       [] f.k = "block" ->
            {Value([k |-> "block", lets |-> f.lets, ret |-> ret], {}) :
               ret \in ToSet(f.preds) \union {v.t : v \in ToSet(f.ready)}
                         \union {Var(f.params[i]) : i \in DOMAIN f.params}}

Close ==
  /\ Here > 0 /\ Len(Top.preds) <= 1
  /\ Top.k # "block" => Builders = {}
  /\ \E v \in Built(Top) :
       /\ open' = IF Here = 1 THEN <<>>
                  ELSE LET out == open[Here - 1]
                       IN SubSeq(open, 1, Here - 2)
                            \o <<IF v.t.k = "closure" /\ v.t.fn = "any" THEN Holds(out, v.t)
                                 ELSE Gain(out, v)>>
       /\ done' = IF Here = 1 THEN <<v.t>> ELSE done
  /\ closureDepth' = IF Top.k \in {"any", "map", "fold"} THEN closureDepth - 1 ELSE closureDepth
  /\ UNCHANGED <<kit, calls>>

Next ==
  \/ Start \/ OpenQuery \/ OpenPath \/ OpenClosure
  \/ Derive \/ Measure \/ WriteByHand \/ Compare \/ CompareIn \/ Join \/ Negate
  \/ Project \/ Let \/ Collect \/ Close

Spec == Init /\ [][Next]_vars

-----------------------------------------------------------------------------

(* A query reads as its author wrote it: every column belongs to the row it *)
(* was taken from, every parameter to the closure or block that bound it,   *)
(* every placeholder has the value given in its place, and the operators    *)
(* group as they were called, however the builders were nested, spliced and *)
(* reused.                                                                  *)
ReadsAsWritten == done # <<>> => Sent(toSQL(done[1])) = Meant(done[1])
=============================================================================
