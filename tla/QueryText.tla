------------------------------ MODULE QueryText -------------------------------
(***************************************************************************)
(* The text of a SurrealDB query (drivers/surrealdb/src/query, pure.ts):   *)
(* what the builders render, what SurrealQL reads in it, and what its      *)
(* author meant by it.                                                     *)
(*                                                                         *)
(* A text is a sequence of tokens; a token is its type, its name and the   *)
(* texts inside it, so brackets always match.  A name is a sequence of its *)
(* parts: `sub__1_b0` is <<"sub", 1, "b", 0>>.  A term is what the author  *)
(* holds: a column or variable with the methods called on it, a predicate, *)
(* a builder.  `k` is its kind; a row and a variable are known by a number *)
(* (`row`, `id`) of their own, a row also by whether its builder gives it  *)
(* a token.                                                                *)
(***************************************************************************)
EXTENDS Naturals, Sequences, SequencesExt

Node(t, n, in) == [t |-> t, n |-> n, in |-> in]
Dollar(name) == <<Node("$", name, <<>>)>>
Infix(op) == <<Node("op", <<op>>, <<>>)>>
Paren(text) == <<Node("(", <<>>, <<text>>)>>
ParenIf(condition, text) == IF condition THEN Paren(text) ELSE text

(* What a pass over a query carries: the row it is in (0: none), the        *)
(* placeholders bound so far in their order, the number of sub-fragments.   *)
Ctx(row, subs) == [row |-> row, vars |-> <<>>, subs |-> subs]
Names(vars) == {vars[i].n : i \in DOMAIN vars}

(* ctx.vars[name] = value                                                   *)
Bind(c, name, value) ==
  [c EXCEPT !.vars =
     IF name \in Names(@)
     THEN [i \in DOMAIN @ |-> IF @[i].n = name THEN [@[i] EXCEPT !.v = value] ELSE @[i]]
     ELSE Append(@, [n |-> name, v |-> value])]

RECURSIVE Renamed(_, _, _)
Renamed(text, from, to) ==
  [i \in DOMAIN text |->
     [text[i] EXCEPT !.n = IF text[i].t = "$" /\ @ = from THEN to ELSE @,
                     !.in = [j \in DOMAIN @ |-> Renamed(@[j], from, to)]]]

-----------------------------------------------------------------------------
(* Splicing a fragment: its text, and the placeholders it brings.           *)

mergeRaw(q, c) ==
  LET Merge(acc, b) ==
        LET taken == Names(acc.c.vars)
            Other(n) == b.n \o <<"_", n>>
            use == IF b.n \notin taken THEN b.n
                   ELSE Other(CHOOSE n \in 2..(Len(acc.c.vars) + 2) :
                                /\ Other(n) \notin taken
                                /\ \A m \in 2..(n - 1) : Other(m) \in taken)
        IN [x |-> IF use = b.n THEN acc.x ELSE Renamed(acc.x, b.n, use),
            c |-> Bind(acc.c, use, b.v)]
  IN FoldLeft(Merge, [x |-> q.x, c |-> [c EXCEPT !.subs = q.subs]], q.vars)

(* A builder inside another one prefixes its placeholders.                  *)
toFragment(lowered) ==
  LET n == lowered.c.subs + 1
      Prefixed(name) == <<"sub", n>> \o name
  IN [x |-> FoldLeft(LAMBDA x, b : Renamed(x, b.n, Prefixed(b.n)), lowered.x, lowered.c.vars),
      vars |-> [i \in DOMAIN lowered.c.vars |->
                  [lowered.c.vars[i] EXCEPT !.n = Prefixed(@)]],
      subs |-> n]

RECURSIVE stripOuterParens(_)
stripOuterParens(text) ==
  IF Len(text) = 1 /\ text[1].t = "(" /\ text[1].in[1][1].t # "statement"
  THEN stripOuterParens(text[1].in[1])
  ELSE text

-----------------------------------------------------------------------------
(* Rendering.                                                               *)

OP_PREC == [o \in {"+", "-", "*"} |-> IF o = "*" THEN 7 ELSE 6]
Prec(t) == IF t.k = "op" THEN OP_PREC[t.op] ELSE 9

(* Mutant: a right operand of the same precedence stands bare.              *)
RhsParen_Loose(op, r) == Prec(r) < OP_PREC[op]
RhsParen(op, r) == Prec(r) <= OP_PREC[op]
LhsParen(op, l) == Prec(l) < OP_PREC[op]

renderCol(t, c) ==
  IF t.tok /\ c.row # 0 /\ t.row # c.row
  THEN <<Node("$parent", <<t.col>>, <<>>)>>
  ELSE <<Node("id", <<t.col>>, <<>>)>>

Joined(texts, op) == FoldLeft(LAMBDA x, y : x \o Infix(op) \o y, Head(texts), Tail(texts))

(* The texts of a term's parts, in the order in which they are rendered.    *)
Parts(t) ==
  CASE t.k \in {"op", "cmp", "contains"} -> <<t.l, t.r>>
    [] t.k \in {"fn", "not"} -> <<t.l>>
    [] t.k = "closure" -> <<t.l>> \o t.seed \o <<t.body>>
    [] t.k \in {"AND", "OR", "data"} -> t.parts
    [] t.k = "step" -> t.base \o t.where
    [] OTHER -> <<>>

(* operandText, argRenderer, renderData, renderRef and lowerExpr, and a     *)
(* step of a traversal: the path up to it and the filter of where it leads. *)
Rendered(t, in) ==
  LET x == in.x
      b == <<"b", Len(in.c.vars)>>
      fun == Node("fun", <<>>, [i \in DOMAIN t.params |-> Dollar(t.params[i].name)] \o <<Last(x)>>)
      hops == Len(t.base)
      Emit(text) == [x |-> text, c |-> in.c]
  IN
  CASE t.k = "lit" -> [x |-> Dollar(b), c |-> Bind(in.c, b, t.v)]
    [] t.k = "arg" -> [x |-> Dollar(t.name), c |-> Bind(in.c, t.name, t.v)]
    [] t.k = "col" -> Emit(renderCol(t, in.c))
    [] t.k = "var" -> Emit(Dollar(t.name))
    [] t.k = "op" -> Emit(ParenIf(LhsParen(t.op, t.l), x[1]) \o Infix(t.op)
                            \o ParenIf(RhsParen(t.op, t.r), x[2]))
    [] t.k = "fn" -> Emit(<<Node("call", <<t.fn>>, x)>>)
    [] t.k = "closure" -> Emit(<<Node("call", <<t.fn>>, Front(x) \o << <<fun>> >>)>>)
    [] t.k = "cmp" -> Emit(x[1] \o Infix("=") \o x[2])
    [] t.k = "contains" -> Emit(Paren(x[1]) \o Infix("CONTAINS") \o x[2])
    [] t.k \in {"AND", "OR"} -> Emit(Paren(Joined(x, t.k)))
    [] t.k = "not" -> Emit(<<Node("!", <<>>, x)>>)
    [] t.k = "data" -> Emit(<<Node("{}", <<>>, x)>>)
    [] t.k = "step" ->
         Emit(<<Node("path", <<>>, <<FlattenSeq(SubSeq(x, 1, hops))>> \o SubSeq(x, hops + 1, Len(x)))>>)

(* What is rendered inside a builder, and with what in hand.  A column of   *)
(* the projection that is no more than that stands bare, whatever row it is *)
(* of.                                                                      *)
Contents(t) ==
  LET Bare(u) == IF u.k = "col" THEN [u EXCEPT !.tok = FALSE] ELSE u
  IN IF t.k = "block" THEN [i \in DOMAIN t.lets |-> t.lets[i].value] \o <<t.ret>>
     ELSE [i \in DOMAIN t.proj |-> Bare(t.proj[i])] \o t.where
SetVars(t) == IF t.k = "block" THEN <<>>
            ELSE [i \in DOMAIN t.patch |-> [n |-> <<"__s", i - 1>>, v |-> t.patch[i]]]
Entered(t, subs) ==
  FoldLeft(LAMBDA c, b : Bind(c, b.n, b.v), Ctx(IF t.k # "block" /\ t.tok THEN t.row ELSE 0, subs),
           SetVars(t))

(* toSQL of a statement; the statements of a block, in their order.         *)
Body(t, in) ==
  LET cols == Len(t.proj)
      patch == [i \in DOMAIN SetVars(t) |-> Dollar(SetVars(t)[i].n)]
      Stripped(i) == stripOuterParens(in.x[i])
      Let(i, rest) == <<Node("LET", <<>>, <<Dollar(t.lets[i].name), Stripped(i), rest>>)>>
      texts == IF t.k = "block"
               THEN FoldRight(Let, [i \in DOMAIN t.lets |-> i], <<Node("RETURN", <<>>, <<Stripped(Len(in.x))>>)>>)
               ELSE <<Node("statement", <<t.k>>,
                        patch \o [i \in DOMAIN in.x |-> IF i <= cols THEN in.x[i] ELSE Stripped(i)])>>
  IN [x |-> texts, c |-> in.c]

(* A builder inside another one, as a value.                                *)
Operand(t, lowered) ==
  LET first == <<Node("[0].count", <<>>, <<Paren(lowered.x)>>)>>
  IN CASE t.k = "block" -> lowered
       [] t.k = "count" ->
            [lowered EXCEPT !.x = Paren(first \o Infix("OR") \o <<Node("0", <<>>, <<>>)>>)]
       [] OTHER -> [lowered EXCEPT !.x = Paren(@)]

AsQuery(lowered) == [x |-> lowered.x, vars |-> lowered.c.vars, subs |-> lowered.c.subs]
Spliced == {"raw", "path", "block", "select", "count", "UPDATE", "DELETE"}

RECURSIVE Lower(_, _), LowerAll(_, _)

LowerAll(ts, c) ==
  FoldLeft(LAMBDA acc, t : LET r == Lower(t, acc.c) IN [x |-> Append(acc.x, r.x), c |-> r.c],
           [x |-> <<>>, c |-> c], ts)

(* The [FRAGMENT] hook of what is spliced, and what is rendered in place.   *)
Fragment(t, subs) ==
  CASE t.k = "raw" -> [x |-> Paren(t.x), vars |-> t.vars, subs |-> subs]
    [] t.k = "path" -> AsQuery(Lower([t EXCEPT !.k = "step"], Ctx(0, subs)))
    [] OTHER -> toFragment(Operand(t, Body(t, LowerAll(Contents(t), Entered(t, subs)))))

Lower(t, c) ==
  IF t.k \in Spliced THEN mergeRaw(Fragment(t, c.subs), c)
  ELSE Rendered(t, LowerAll(Parts(t), c))

(* The query of a builder that is run by itself.                            *)
toSQL(t) ==
  LET lowered == Body(t, LowerAll(Contents(t), Entered(t, 0)))
  IN IF t.k = "block" THEN toFragment(lowered) ELSE AsQuery(lowered)
=============================================================================
