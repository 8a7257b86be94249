----------------------------- MODULE QueryChain ------------------------------
(***************************************************************************)
(* The chains of calls on the statement builders (query/write.ts,          *)
(* query/index.ts, client.ts): every call returns a copy of the builder    *)
(* with one clause changed, made by handing all of its clauses on; run()   *)
(* refuses, or sends the statement and decodes what comes back.            *)
(*                                                                         *)
(* A clause is known by the number of the call that gave it (Unset: none). *)
(***************************************************************************)
EXTENDS Naturals, Sequences

CONSTANTS MaxChain, MaxMatches   \* calls of a chain, and rows a statement meets

VARIABLES q, log, result   \* the builder, the calls so far, what run() gave

vars == <<q, log, result>>

Unset == 0
None == "none"

StatementKinds == {"select", "create", "update", "upsert", "delete", "relate"}
Alterations == {"update", "upsert"}

(* select(T), select(T, id), create(T), ..., bound to a client, to a        *)
(* session, or to nothing.                                                  *)
Builder(kind, target, conn) ==
  [kind |-> kind, target |-> target, conn |-> conn,
   where |-> Unset, order |-> Unset, limit |-> Unset, start |-> Unset, all |-> FALSE,
   mode |-> None, payload |-> Unset, exprs |-> Unset,
   ids |-> Unset, edgeId |-> Unset, timeout |-> Unset,
   proj |-> Unset, value |-> Unset, decode |-> TRUE, only |-> None,
   ret |-> IF kind = "delete" THEN "none" ELSE "after"]

-----------------------------------------------------------------------------
(* What each class returns from each of its methods; n numbers the call.    *)
(* The methods are <<name, argument>>; an argument matters where a later    *)
(* call or the statement looks at it.                                       *)

SelectMethods ==
  {<<m, None>> : m \in {"where", "orderBy", "start", "return", "value", "raw", "one", "only"}}
    \union {<<"limit", None>>}
SelectAfter(b, m, n) ==
  CASE m[1] = "where" -> [b EXCEPT !.where = n]
    [] m[1] = "orderBy" -> [b EXCEPT !.order = n]
    [] m[1] = "limit" -> [b EXCEPT !.limit = n]
    [] m[1] = "start" -> [b EXCEPT !.start = n]
    [] m[1] = "return" -> [b EXCEPT !.proj = n]
    [] m[1] = "value" -> [b EXCEPT !.value = n]
    [] m[1] = "raw" -> [b EXCEPT !.decode = FALSE]
    [] m[1] \in {"one", "only"} -> [b EXCEPT !.only = m[1]]

(* count() of a select keeps its tables, filter and connection.             *)
CountOf(b) == [Builder("count", FALSE, b.conn) EXCEPT !.where = b.where]

(* WriteQuery: what all writes have.                                        *)
WriteMethods == {<<"only", None>>, <<"raw", None>>}
                  \union {<<"return", r>> : r \in {"none", "after", "diff", "row"}}
WriteAfter(b, m, n) ==
  CASE m[1] = "only" -> [b EXCEPT !.only = "only"]
    [] m[1] = "raw" -> [b EXCEPT !.decode = FALSE]
    [] m[1] = "return" -> [b EXCEPT !.ret = m[2], !.proj = IF m[2] = "row" THEN n ELSE Unset]

CreateMethods == WriteMethods \union {<<"content", None>>, <<"ids", None>>}
CreateAfter(b, m, n) ==
  CASE m[1] = "content" -> [b EXCEPT !.mode = "content", !.payload = n]
    [] m[1] = "ids" -> [b EXCEPT !.ids = n]
    [] OTHER -> WriteAfter(b, m, n)

(* with(mode, payload, exprSet): a patch replaces the one before it, and    *)
(* the expressions of that.                                                 *)
Patches == {<<"merge", None>>, <<"content", None>>} \union {<<"set", a>> : a \in {"row", "fn", "empty"}}
(* Mutant: the expressions of an earlier set(fn) stay.                      *)
With_Adds(b, m, n) ==
  [b EXCEPT !.mode = m[1], !.payload = IF m[2] = "empty" THEN Unset ELSE n,
            !.exprs = IF m[2] = "fn" THEN n ELSE @]
With(b, m, n) ==
  [b EXCEPT !.mode = m[1], !.payload = IF m[2] = "empty" THEN Unset ELSE n,
            !.exprs = IF m[2] = "fn" THEN n ELSE Unset]

Scoping == {<<"where", None>>, <<"all", None>>}
ScopeAfter(b, m, n) == IF m[1] = "where" THEN [b EXCEPT !.where = n] ELSE [b EXCEPT !.all = TRUE]

UpdateMethods == WriteMethods \union Scoping \union Patches
UpdateAfter(b, m, n) ==
  IF m \in Patches THEN With(b, m, n)
  ELSE IF m \in Scoping THEN ScopeAfter(b, m, n)
  ELSE WriteAfter(b, m, n)

DeleteMethods == WriteMethods \union Scoping
DeleteAfter(b, m, n) == IF m \in Scoping THEN ScopeAfter(b, m, n) ELSE WriteAfter(b, m, n)

(* rel(base, patch): what the call does not give stays, the expressions of  *)
(* a set(fn) too.                                                           *)
RelateMethods == WriteMethods \union (Patches \ {<<"merge", None>>})
                   \union {<<"id", None>>, <<"timeout", None>>}
RelateAfter(b, m, n) ==
  CASE m[1] = "id" -> [b EXCEPT !.edgeId = n]
    [] m[1] = "timeout" -> [b EXCEPT !.timeout = n]
    [] m \in Patches -> [With(b, m, n) EXCEPT !.exprs = IF m[2] = "fn" THEN n ELSE b.exprs]
    [] OTHER -> WriteAfter(b, m, n)

-----------------------------------------------------------------------------
(* toSQL: the statement, or a refusal.                                      *)

Refusal(b) ==
  CASE b.kind \in Alterations ->
         \/ b.mode = None
         \/ ~b.target /\ b.where = Unset /\ ~b.all
         \/ b.mode = "set" /\ b.payload = Unset /\ b.exprs = Unset
    [] b.kind = "delete" -> ~b.target /\ b.where = Unset /\ ~b.all
    [] OTHER -> FALSE

Patch(b) ==
  IF b.mode = "set" THEN <<"set", b.payload, b.exprs>>
  ELSE IF b.mode = None THEN <<None>> ELSE <<b.mode, b.payload>>

SelectSQL(b) ==
  [kind |-> b.kind, target |-> b.target, where |-> b.where, order |-> b.order, start |-> b.start,
   proj |-> b.proj, value |-> b.value, single |-> b.only # None,
   limit |-> IF b.limit # Unset THEN <<"limit", b.limit>>
             ELSE IF b.only = "one" THEN <<"one">> ELSE <<>>]
CountSQL(b) ==
  [kind |-> b.kind, target |-> b.target, where |-> b.where, single |-> FALSE, limit |-> <<>>]
WriteSQL(b) ==
  [kind |-> b.kind, target |-> b.target, where |-> b.where, ids |-> b.ids, edgeId |-> b.edgeId,
   timeout |-> b.timeout, ret |-> b.ret, proj |-> b.proj,
   single |-> b.only # None, limit |-> <<>>, patch |-> Patch(b)]

toSQL(b) == CASE b.kind = "select" -> SelectSQL(b)
              [] b.kind = "count" -> CountSQL(b)
              [] OTHER -> WriteSQL(b)

(* RETURN NONE.                                                             *)
Silent(s) == s.kind \notin {"select", "count"} /\ s.ret = "none"

(* What the database answers when n rows match: ONLY wants exactly one row  *)
(* to return, or with LIMIT 1 the first if there is one.                    *)
Answer(s, n) ==
  LET rows == IF Silent(s) THEN 0 ELSE n
  IN IF ~s.single THEN <<"rows", rows>>
     ELSE IF rows = 0 /\ s.limit # <<>> THEN <<"rows", 0>>
     ELSE IF rows = 1 \/ s.limit = <<"one">> THEN <<"rows", 1>>
     ELSE <<"error">>

(* decodeRows: the form of each row.                                        *)
Form(b) ==
  IF b.kind = "select"
  THEN CASE ~b.decode -> "wire"
         [] b.decode /\ b.value # Unset -> "value"
         [] b.decode /\ b.value = Unset -> IF b.proj # Unset THEN "projected" ELSE "row"
  ELSE CASE b.ret = "row" -> "projected"
         [] b.ret = "diff" -> "wire"
         [] OTHER -> IF b.decode THEN "row" ELSE "wire"

Decoded(b, answer) ==
  IF answer = <<"error">> THEN answer
  ELSE IF b.kind = "count" THEN <<"count", answer[2]>>
  ELSE IF b.kind # "select" /\ b.ret = "none"
    THEN IF b.only # None THEN <<"undefined">> ELSE <<"rows", 0, "nothing">>
  ELSE IF b.only = None THEN <<"rows", answer[2], Form(b)>>
  ELSE IF answer[2] = 0 THEN <<"undefined">> ELSE <<"one", Form(b)>>

-----------------------------------------------------------------------------

Init ==
  \E kind \in StatementKinds, target \in BOOLEAN, conn \in {None, "bound"} :
    /\ kind = "relate" => ~target
    /\ q = Builder(kind, target, conn)
    /\ log = << <<kind, target, conn>> >>
    /\ result = <<>>

Building == result = <<>> /\ q.kind # "count" /\ Len(log) <= MaxChain
Returns(b, m) == q' = b /\ log' = Append(log, m) /\ UNCHANGED result

(* A projection of columns and one of a single value exclude each other:    *)
(* the second call throws, and leaves the builder as it was.                *)
CallSelect ==
  /\ Building /\ q.kind = "select"
  /\ \E m \in SelectMethods :
       /\ m[1] = "return" => q.value = Unset
       /\ m[1] = "value" => q.proj = Unset
       /\ Returns(SelectAfter(q, m, Len(log)), m)

CallCount ==
  /\ Building /\ q.kind = "select"
  /\ Returns(CountOf(q), <<"count", None>>)

(* ids() of a create with an id throws.                                     *)
CallCreate ==
  /\ Building /\ q.kind = "create"
  /\ \E m \in CreateMethods :
       /\ m[1] = "ids" => ~q.target
       /\ Returns(CreateAfter(q, m, Len(log)), m)

CallUpdate ==
  /\ Building /\ q.kind \in Alterations
  /\ \E m \in UpdateMethods : Returns(UpdateAfter(q, m, Len(log)), m)

CallDelete ==
  /\ Building /\ q.kind = "delete"
  /\ \E m \in DeleteMethods : Returns(DeleteAfter(q, m, Len(log)), m)

CallRelate ==
  /\ Building /\ q.kind = "relate"
  /\ \E m \in RelateMethods : Returns(RelateAfter(q, m, Len(log)), m)

(* run(conn), and `await`, which is run() with no argument: what it gives   *)
(* when n rows match.                                                       *)
Outcome(b, own, n) ==
  LET conn == IF own # None THEN own ELSE b.conn
  IN IF conn = None \/ Refusal(b) THEN [own |-> own, sent |-> FALSE]
     ELSE [own |-> own, sent |-> TRUE, statement |-> toSQL(b), conn |-> conn,
           matched |-> n, gives |-> Decoded(b, Answer(toSQL(b), n))]

Run ==
  /\ result = <<>>
  /\ \E own \in {None, "given"}, n \in 0..MaxMatches :
       /\ q.target => n <= 1
       /\ result' = <<Outcome(q, own, n)>>
  /\ UNCHANGED <<q, log>>

Next ==
  CallSelect \/ CallCount \/ CallCreate \/ CallUpdate \/ CallDelete \/ CallRelate \/ Run

Spec == Init /\ [][Next]_vars

-----------------------------------------------------------------------------
(* What the author asked for, read off the calls.                           *)

Kind == log[1][1]
Calls(names) == {i \in 2..Len(log) : log[i][1] \in names}
LastOf(names) == IF Calls(names) = {} THEN 0 ELSE CHOOSE i \in Calls(names) : \A j \in Calls(names) : j <= i
(* A clause holds the number of the call before which i calls were logged.  *)
Asked(name) == IF LastOf({name}) = 0 THEN Unset ELSE LastOf({name}) - 1
Returned == LastOf({"return"})
Patched == LastOf({"merge", "content", "set"})
Single == LastOf({"one", "only"})

AskedPatch ==
  LET m == log[Patched]
  IN IF Patched = 0 THEN <<None>>
     ELSE IF m[1] # "set" THEN <<m[1], Patched - 1>>
     ELSE <<"set", IF m[2] = "empty" THEN Unset ELSE Patched - 1, IF m[2] = "fn" THEN Patched - 1 ELSE Unset>>

AskedStatement ==
  CASE Calls({"count"}) # {} ->
         [kind |-> "count", target |-> log[1][2], where |-> Asked("where"), single |-> FALSE,
          limit |-> <<>>]
    [] Calls({"count"}) = {} /\ Kind = "select" ->
         [kind |-> Kind, target |-> log[1][2], where |-> Asked("where"), order |-> Asked("orderBy"),
          start |-> Asked("start"), proj |-> Asked("return"), value |-> Asked("value"),
          single |-> Single # 0,
          limit |-> IF LastOf({"limit"}) # 0 THEN <<"limit", Asked("limit")>>
                    ELSE IF Single # 0 /\ log[Single][1] = "one" THEN <<"one">> ELSE <<>>]
    [] Kind # "select" ->
         [kind |-> Kind, target |-> log[1][2], where |-> Asked("where"), ids |-> Asked("ids"),
          edgeId |-> Asked("id"), timeout |-> Asked("timeout"),
          ret |-> IF Returned # 0 THEN log[Returned][2] ELSE IF Kind = "delete" THEN "none" ELSE "after",
          proj |-> IF Returned # 0 /\ log[Returned][2] = "row" THEN Returned - 1 ELSE Unset,
          single |-> Single # 0, limit |-> <<>>, patch |-> AskedPatch]

Unscoped == Kind \in Alterations \union {"delete"} /\ ~log[1][2] /\ Calls({"where", "all"}) = {}
Unpatched == Kind \in Alterations /\ (Patched = 0 \/ AskedPatch = <<"set", Unset, Unset>>)

Raw == Calls({"raw"}) # {}
AskedRow ==
  IF Raw THEN "wire"
  ELSE IF Calls({"value"}) # {} THEN "value"
  ELSE IF Returned # 0 /\ (Kind = "select" \/ log[Returned][2] = "row") THEN "projected"
  ELSE IF Returned # 0 /\ log[Returned][2] = "diff" THEN "wire" ELSE "row"
AskedAnswer(n) ==
  LET nothing == Silent(AskedStatement)
      first == AskedStatement.limit = <<"one">>
  IN
  CASE Calls({"count"}) # {} -> <<"count", n>>
    [] Calls({"count"}) = {} /\ Single = 0 ->
         IF nothing THEN <<"rows", 0, "nothing">> ELSE <<"rows", n, AskedRow>>
    [] Calls({"count"}) = {} /\ Single # 0 ->
         IF n # 1 /\ ~first THEN <<"error">>
         ELSE IF nothing \/ n = 0 THEN <<"undefined">> ELSE <<"one", AskedRow>>

(* Chains whose calls get in each other's way: see the deviations in the    *)
(* README.                                                                  *)
Deviates ==
  \/ Kind = "relate" /\ \E i, j \in Calls({"set"}) : i < j /\ log[i][2] = "fn" /\ log[j][2] # "fn"
  \/ Single # 0 /\ (Calls({"limit"}) # {} \/ Silent(AskedStatement))
  \/ Calls({"count"}) # {} /\ log[1][2]
  \/ Raw /\ \E i \in Calls({"return"}) : log[i][2] = "row"

(* Whatever the order of the calls: the statement has of every clause the   *)
(* last that was given and nothing else, a write of no patch or of no       *)
(* scope is never sent, it goes to the connection given to run() or else    *)
(* to the one of the client, and the answer has the form asked for.         *)
ClausesStand ==
  \A i \in DOMAIN result :
    LET r == result[i]
        conn == IF r.own # None THEN r.own ELSE log[1][3]
    IN ~Deviates =>
         /\ r.sent <=> ~(conn = None \/ Unscoped \/ Unpatched)
         /\ r.sent => /\ r.statement = AskedStatement /\ r.conn = conn
                      /\ r.gives = AskedAnswer(r.matched)
=============================================================================
