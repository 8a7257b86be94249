-------------------------- MODULE QueryChainProofs ---------------------------
(***************************************************************************)
(* What run() sends is what the calls asked for, for chains of every       *)
(* length.                                                                 *)
(*                                                                         *)
(* The invariant reads the builder off the log: every clause holds what    *)
(* the last call of its method gave.  It is kept because a call changes    *)
(* the clauses of its own method only; it is of no use for chains whose    *)
(* calls share a clause, which are the deviations.                         *)
(***************************************************************************)
EXTENDS QueryChain, WellFoundedInduction, TLAPS

Methods ==
  SelectMethods \cup CreateMethods \cup UpdateMethods \cup DeleteMethods \cup RelateMethods
    \cup {<<"count", None>>}

Beginnings == StatementKinds \X BOOLEAN \X {None, "bound"}

Builders ==
  [kind : StatementKinds \cup {"count"}, target : BOOLEAN, conn : {None, "bound"},
   where : Nat, order : Nat, limit : Nat, start : Nat, all : BOOLEAN,
   mode : {None, "merge", "content", "set"}, payload : Nat, exprs : Nat,
   ids : Nat, edgeId : Nat, timeout : Nat,
   proj : Nat, value : Nat, decode : BOOLEAN, only : {None, "one", "only"},
   ret : {"none", "after", "diff", "row"}]

TypeOK ==
  /\ q \in Builders
  /\ log \in Seq(Beginnings \cup Methods) /\ Len(log) \in Nat \ {0}
  /\ log[1] \in Beginnings
  /\ \A i \in 2..Len(log) : log[i] \in Methods

(* Which methods take which arguments.                                      *)
LEMMA MethodWords ==
  ASSUME NEW m \in Methods
  PROVE  /\ m[2] \in {"none", "after", "diff", "row", "fn", "empty"} /\ m = <<m[1], m[2]>>
         /\ m[2] = "fn" => m[1] = "set" /\ m \notin CreateMethods
         /\ m[2] = "empty" => m[1] = "set"
<1> DEFINE Fine(w) == w[2] \in {"none", "after", "diff", "row", "fn", "empty"} /\ w = <<w[1], w[2]>>
                   /\ (w[2] \in {"fn", "empty"} => w[1] = "set")
<1>1. \A w \in WriteMethods : Fine(w)
  BY DEF WriteMethods, None
<1>2. \A w \in Patches : Fine(w)
  BY DEF Patches, None
<1>3. \A w \in SelectMethods \cup Scoping : Fine(w)
  BY DEF SelectMethods, Scoping, None
<1>4. \A w \in {<<"content", None>>, <<"ids", None>>, <<"id", None>>, <<"timeout", None>>, <<"count", None>>} : Fine(w)
  BY DEF None
<1> HIDE DEF Fine
<1>5. Fine(m)
  BY <1>1, <1>2, <1>3, <1>4 DEF Methods, CreateMethods, UpdateMethods, DeleteMethods, RelateMethods
<1>6. \A w \in CreateMethods : w[2] # "fn"
  BY DEF CreateMethods, WriteMethods, None
<1> QED BY <1>5, <1>6 DEF Fine

-----------------------------------------------------------------------------
(* The last call of some methods.                                           *)
IsLast(names, i) == i \in Calls(names) /\ \A j \in Calls(names) : j <= i

LEMMA LastExists ==
  ASSUME TypeOK, NEW names, Calls(names) # {}
  PROVE  \E i \in Calls(names) : \A j \in Calls(names) : j <= i
<1> DEFINE above == {n \in Nat : \A j \in Calls(names) : j <= n}
<1>1. Calls(names) \subseteq 2..Len(log) /\ Len(log) \in Nat
  BY DEF Calls, TypeOK
<1>2. above \subseteq Nat /\ Len(log) \in above
  BY <1>1
<1>3. PICK n \in above : \A m \in above : ~(<<m, n>> \in OpToRel(<, Nat))
  BY <1>2, NatLessThanWellFounded, WFMin
<1>4. \A m \in above : ~(m < n)
  BY <1>3 DEF OpToRel
<1>5. ASSUME n \notin Calls(names) PROVE FALSE
  <2>1. PICK c : c \in Calls(names)
    OBVIOUS
  <2>2. n >= 2 /\ n - 1 \in Nat
    BY <1>1, <2>1
  <2>3. \A j \in Calls(names) : j <= n - 1
    BY <1>1, <1>5, <2>2
  <2> QED BY <1>4, <2>2, <2>3
<1> QED BY <1>5

LEMMA LastOfIsLast ==
  ASSUME TypeOK, NEW names
  PROVE  IF Calls(names) = {} THEN LastOf(names) = 0
         ELSE IsLast(names, LastOf(names)) /\ LastOf(names) \in 2..Len(log)
<1>1. CASE Calls(names) = {}
  BY <1>1 DEF LastOf
<1>2. CASE Calls(names) # {}
  BY <1>2, LastExists DEF LastOf, IsLast, Calls
<1> QED BY <1>1, <1>2

(* One more call is the last of its methods, and of no others.              *)
LEMMA AfterCall ==
  ASSUME TypeOK, NEW m \in Methods, log' = Append(log, m), NEW names
  PROVE  /\ LastOf(names)' = IF m[1] \in names THEN Len(log) + 1 ELSE LastOf(names)
         /\ Calls(names)' = Calls(names) \cup IF m[1] \in names THEN {Len(log) + 1} ELSE {}
<1>1. /\ Len(log) \in Nat \ {0} /\ Len(log') = Len(log) + 1 /\ log'[Len(log) + 1] = m
      /\ \A i \in 1..Len(log) : log'[i] = log[i]
  BY DEF TypeOK
<1>2. Calls(names)' = Calls(names) \cup IF m[1] \in names THEN {Len(log) + 1} ELSE {}
  <2>1. \A i : i \in Calls(names)' <=> i \in 2..(Len(log) + 1) /\ log'[i][1] \in names
    BY <1>1 DEF Calls
  <2>2. \A i : i \in Calls(names) <=> i \in 2..Len(log) /\ log[i][1] \in names
    BY DEF Calls
  <2> QED BY <1>1, <2>1, <2>2
<1>3. CASE m[1] \in names
  <2>1. Len(log) + 1 \in Calls(names)' /\ \A j \in Calls(names)' : j <= Len(log) + 1
    BY <1>1, <1>2, <1>3 DEF Calls
  <2>2. \A j \in Calls(names)' : j \in Nat
    BY <1>1 DEF Calls
  <2>3. \A k \in Calls(names)' : (\A j \in Calls(names)' : j <= k) => k = Len(log) + 1
    BY <1>1, <2>1, <2>2
  <2>4. LastOf(names)' = Len(log) + 1
    BY <2>1, <2>3 DEF LastOf
  <2> QED BY <1>2, <1>3, <2>4
<1>4. CASE m[1] \notin names
  <2>1. Calls(names)' = Calls(names)
    BY <1>2, <1>4
  <2> QED BY <1>2, <1>4, <2>1 DEF LastOf
<1> QED BY <1>3, <1>4
-----------------------------------------------------------------------------
(* What the calls say of the clauses that more than one method changes.     *)
OfLast(names, field, none) == IF LastOf(names) = 0 THEN none ELSE log[LastOf(names)][field]

Patching == {"merge", "content", "set"}

AskedOnly == OfLast({"one", "only"}, 1, None)
AskedMode == OfLast(Patching, 1, None)
AskedPayload == IF OfLast(Patching, 2, "empty") = "empty" THEN Unset ELSE Patched - 1
AskedRet ==
  LET said == OfLast({"return"}, 2, "nothing")
  IN IF Kind # "select" /\ said # "nothing" THEN said ELSE IF Kind = "delete" THEN "none" ELSE "after"
AskedProj ==
  IF Kind = "select" \/ OfLast({"return"}, 2, None) = "row" THEN Asked("return") ELSE Unset

(* The expressions of a set(fn): those of the last patch, except that       *)
(* relate() keeps the last it has got.                                      *)
ExprsInv ==
  IF Kind = "relate"
  THEN /\ q.exprs # Unset => q.exprs + 1 \in Calls({"set"}) /\ log[q.exprs + 1][2] = "fn"
       /\ \A i \in Calls({"set"}) : log[i][2] = "fn" => q.exprs # Unset /\ i <= q.exprs + 1
  ELSE q.exprs = IF OfLast(Patching, 2, None) = "fn" THEN Patched - 1 ELSE Unset

ClausesInv ==
  /\ q.kind = Kind /\ q.target = log[1][2]
  /\ q.order = Asked("orderBy") /\ q.limit = Asked("limit") /\ q.start = Asked("start")
  /\ q.value = Asked("value") /\ q.ids = Asked("ids") /\ q.edgeId = Asked("id")
  /\ q.timeout = Asked("timeout")
  /\ q.all <=> Calls({"all"}) # {}
  /\ q.decode <=> Calls({"raw"}) = {}
  /\ q.only = AskedOnly /\ q.proj = AskedProj /\ q.ret = AskedRet
  /\ q.mode = AskedMode /\ q.payload = AskedPayload
  /\ ExprsInv
  /\ Kind = "create" => q.exprs = Unset
  /\ Kind # "select" => q.value = Unset

(* count() is the last call of a chain and keeps the filter.                *)
BuilderInv ==
  /\ q.conn = log[1][3] /\ q.where = Asked("where")
  /\ IF Calls({"count"}) # {} THEN Kind = "select" /\ q = CountOf(q) ELSE ClausesInv

ResultInv ==
  result # <<>> => \E own \in {None, "given"}, n \in 0..MaxMatches : result = <<Outcome(q, own, n)>>

IInv == TypeOK /\ BuilderInv /\ ResultInv
-----------------------------------------------------------------------------
(* An untouched builder, and what was asked for before the first call.      *)
LEMMA InitIInv == Init => IInv
<1> SUFFICES ASSUME Init PROVE IInv
  OBVIOUS
<1>1. PICK kind \in StatementKinds, target \in BOOLEAN, conn \in {None, "bound"} :
        q = Builder(kind, target, conn) /\ log = << <<kind, target, conn>> >> /\ result = <<>>
  BY DEF Init
<1>2. TypeOK
  BY <1>1 DEF TypeOK, Builders, Builder, Beginnings, Unset, None
<1>3. \A names : Calls(names) = {} /\ LastOf(names) = 0
  BY <1>1 DEF Calls, LastOf
<1>4. log[1] = <<kind, target, conn>> /\ Kind = kind
  BY <1>1 DEF Kind
<1>5. BuilderInv
  <2>1. /\ \A name : Asked(name) = 0 /\ \A names, field, none : OfLast(names, field, none) = none
        /\ Returned = 0 /\ Patched = 0
    BY <1>3 DEF Asked, OfLast, Returned, Patched, Unset
  <2>2. /\ q.kind = Kind /\ q.target = log[1][2] /\ q.conn = log[1][3] /\ q.where = 0
        /\ q.order = 0 /\ q.limit = 0 /\ q.start = 0 /\ q.value = 0 /\ q.ids = 0 /\ q.edgeId = 0
        /\ q.timeout = 0 /\ q.proj = 0 /\ q.payload = 0 /\ q.exprs = 0
        /\ q.only = None /\ q.mode = None
        /\ q.ret = IF kind = "delete" THEN "none" ELSE "after"
    BY <1>1, <1>4 DEF Builder, Unset
  <2>3. ~q.all /\ q.decode
    BY <1>1 DEF Builder
  <2>4. q.proj = AskedProj /\ q.payload = AskedPayload
    BY <2>1, <2>2 DEF AskedProj, AskedPayload, Unset
  <2>6. q.ret = AskedRet
    BY <1>4, <2>1, <2>2 DEF AskedRet
  <2>5. ExprsInv
    BY <1>3, <2>1, <2>2 DEF ExprsInv, Unset, None
  <2> QED BY <1>3, <2>1, <2>2, <2>3, <2>4, <2>5, <2>6 DEF BuilderInv, ClausesInv, AskedOnly, AskedMode, Unset
<1> QED BY <1>1, <1>2, <1>5 DEF IInv, ResultInv

(* What one more call asks for.                                             *)
LEMMA AskedAfter ==
  ASSUME TypeOK, NEW m \in Methods, log' = Append(log, m)
  PROVE  /\ log'[1] = log[1] /\ Kind' = Kind
         /\ \A name : Asked(name)' = IF m[1] = name THEN Len(log) ELSE Asked(name)
         /\ \A names, field, none :
              OfLast(names, field, none)' = IF m[1] \in names THEN m[field] ELSE OfLast(names, field, none)
<1>1. /\ Len(log) \in Nat \ {0} /\ Len(log') = Len(log) + 1 /\ log'[Len(log) + 1] = m
      /\ \A i \in 1..Len(log) : log'[i] = log[i]
  BY DEF TypeOK
<1>2. \A names : LastOf(names)' = IF m[1] \in names THEN Len(log) + 1 ELSE LastOf(names)
  BY AfterCall
<1>3. \A names : LastOf(names) = 0 \/ LastOf(names) \in 1..Len(log)
  BY <1>1, LastOfIsLast
<1>4. ASSUME NEW name PROVE Asked(name)' = IF m[1] = name THEN Len(log) ELSE Asked(name)
  BY <1>1, <1>2 DEF Asked
<1>5. ASSUME NEW names, NEW field, NEW none
      PROVE  OfLast(names, field, none)' = IF m[1] \in names THEN m[field] ELSE OfLast(names, field, none)
  <2>1. CASE m[1] \in names
    BY <1>1, <1>2, <2>1 DEF OfLast
  <2>2. CASE m[1] \notin names
    BY <1>1, <1>2, <1>3, <2>2 DEF OfLast
  <2> QED BY <2>1, <2>2
<1> QED BY <1>1, <1>4, <1>5 DEF Kind

LEMMA CallsAfter ==
  ASSUME TypeOK, NEW m \in Methods, log' = Append(log, m)
  PROVE  /\ \A names : Calls(names)' # {} <=> m[1] \in names \/ Calls(names) # {}
         /\ AskedOnly' = IF m[1] \in {"one", "only"} THEN m[1] ELSE AskedOnly
         /\ AskedMode' = IF m[1] \in Patching THEN m[1] ELSE AskedMode
         /\ AskedPayload' = IF m[1] \notin Patching THEN AskedPayload
                            ELSE IF m[2] = "empty" THEN Unset ELSE Len(log)
         /\ AskedRet' = IF m[1] = "return" /\ Kind # "select" THEN m[2] ELSE AskedRet
         /\ AskedProj' = IF m[1] # "return" THEN AskedProj
                         ELSE IF Kind = "select" \/ m[2] = "row" THEN Len(log) ELSE Unset
<1>1. \A names : Calls(names)' # {} <=> m[1] \in names \/ Calls(names) # {}
  BY AfterCall
<1>2. /\ AskedOnly' = IF m[1] \in {"one", "only"} THEN m[1] ELSE AskedOnly
      /\ AskedMode' = IF m[1] \in Patching THEN m[1] ELSE AskedMode
  BY AskedAfter DEF AskedOnly, AskedMode
<1>3. AskedPayload' = IF m[1] \notin Patching THEN AskedPayload
                     ELSE IF m[2] = "empty" THEN Unset ELSE Len(log)
  <2>1. Patched' = IF m[1] \in Patching THEN Len(log) + 1 ELSE Patched
    BY AfterCall DEF Patched, Patching
  <2>2. OfLast(Patching, 2, "empty")' = IF m[1] \in Patching THEN m[2] ELSE OfLast(Patching, 2, "empty")
    BY AskedAfter DEF Patching
  <2> QED BY <2>1, <2>2 DEF AskedPayload, Patching, TypeOK, Unset
<1>4. m[2] # "nothing"
  BY MethodWords
<1>5. AskedRet' = IF m[1] = "return" /\ Kind # "select" THEN m[2] ELSE AskedRet
  <2>1. OfLast({"return"}, 2, "nothing")' = IF m[1] = "return" THEN m[2] ELSE OfLast({"return"}, 2, "nothing")
    BY AskedAfter
  <2> QED BY <1>4, <2>1, AskedAfter DEF AskedRet
<1>6. AskedProj' = IF m[1] # "return" THEN AskedProj
                  ELSE IF Kind = "select" \/ m[2] = "row" THEN Len(log) ELSE Unset
  <2>1. OfLast({"return"}, 2, None)' = IF m[1] = "return" THEN m[2] ELSE OfLast({"return"}, 2, None)
    BY AskedAfter
  <2> QED BY <2>1, AskedAfter DEF AskedProj
<1> QED BY <1>1, <1>2, <1>3, <1>5, <1>6

-----------------------------------------------------------------------------
(* What the call m, the n-th, may change of a builder b: the clauses of m,  *)
(* and nothing else.                                                        *)
Effect(b, c, m, n) ==
  /\ c \in Builders
  /\ c.kind = b.kind /\ c.target = b.target /\ c.conn = b.conn
  /\ c.where = IF m[1] = "where" THEN n ELSE b.where
  /\ c.order = IF m[1] = "orderBy" THEN n ELSE b.order
  /\ c.limit = IF m[1] = "limit" THEN n ELSE b.limit
  /\ c.start = IF m[1] = "start" THEN n ELSE b.start
  /\ c.value = IF m[1] = "value" THEN n ELSE b.value
  /\ c.ids = IF m[1] = "ids" THEN n ELSE b.ids
  /\ c.edgeId = IF m[1] = "id" THEN n ELSE b.edgeId
  /\ c.timeout = IF m[1] = "timeout" THEN n ELSE b.timeout
  /\ c.all <=> m[1] = "all" \/ b.all
  /\ c.decode <=> m[1] # "raw" /\ b.decode
  /\ c.only = IF m[1] \in {"one", "only"} THEN m[1] ELSE b.only
  /\ c.mode = IF m[1] \in Patching THEN m[1] ELSE b.mode
  /\ c.payload = IF m[1] \notin Patching THEN b.payload ELSE IF m[2] = "empty" THEN Unset ELSE n
  /\ c.ret = IF m[1] = "return" /\ b.kind # "select" THEN m[2] ELSE b.ret
  /\ c.proj = IF m[1] # "return" THEN b.proj
              ELSE IF b.kind = "select" \/ m[2] = "row" THEN n ELSE Unset
  /\ c.exprs = IF m[1] \notin Patching THEN b.exprs
               ELSE IF m[2] = "fn" THEN n
               ELSE IF b.kind = "relate" THEN b.exprs ELSE Unset

LEMMA SelectEffect ==
  ASSUME NEW b \in Builders, b.kind = "select", NEW n \in Nat, NEW m \in SelectMethods
  PROVE  Effect(b, SelectAfter(b, m, n), m, n)
<1> USE DEF Builders, SelectMethods, SelectAfter, Effect, Patching, None, Unset, StatementKinds
<1>1. CASE m[1] = "where"
  BY <1>1
<1>2. CASE m[1] = "orderBy"
  BY <1>2
<1>3. CASE m[1] = "limit"
  BY <1>3
<1>4. CASE m[1] = "start"
  BY <1>4
<1>5. CASE m[1] = "return"
  BY <1>5
<1>6. CASE m[1] = "value"
  BY <1>6
<1>7. CASE m[1] = "raw"
  BY <1>7
<1>8. CASE m[1] \in {"one", "only"}
  BY <1>8
<1>9. m[1] \in {"where", "orderBy", "start", "return", "value", "raw", "one", "only", "limit"}
  OBVIOUS
<1> HIDE DEF Builders, SelectMethods, SelectAfter, Effect
<1> QED BY <1>1, <1>2, <1>3, <1>4, <1>5, <1>6, <1>7, <1>8, <1>9

LEMMA WriteEffect ==
  ASSUME NEW b \in Builders, b.kind # "select", NEW n \in Nat, NEW m \in WriteMethods
  PROVE  Effect(b, WriteAfter(b, m, n), m, n)
<1>1. CASE m[1] = "only"
  BY <1>1 DEF Builders, WriteAfter, Effect, Patching
<1>2. CASE m[1] = "raw"
  BY <1>2 DEF Builders, WriteAfter, Effect, Patching
<1>3. CASE m[1] = "return"
  <2>1. m[2] \in {"none", "after", "diff", "row"}
    BY <1>3 DEF WriteMethods
  <2>2. WriteAfter(b, m, n) = [b EXCEPT !.ret = m[2], !.proj = IF m[2] = "row" THEN n ELSE Unset]
    BY <1>3 DEF WriteAfter
  <2>3. /\ n \in Nat /\ 0 \in Nat /\ b.kind # "select"
        /\ m[1] \notin {"where", "orderBy", "limit", "start", "value", "ids", "id", "timeout", "all",
                       "raw", "one", "only", "merge", "content", "set"}
    BY <1>3
  <2>4. CASE m[2] = "row"
    BY <1>3, <2>1, <2>2, <2>3, <2>4 DEF Builders, Effect, Patching, Unset
  <2>5. CASE m[2] # "row"
    BY <1>3, <2>1, <2>2, <2>3, <2>5 DEF Builders, Effect, Patching, Unset
  <2> QED BY <2>4, <2>5
<1>4. m[1] \in {"only", "raw", "return"}
  BY DEF WriteMethods
<1> QED BY <1>1, <1>2, <1>3, <1>4

LEMMA ScopeEffect ==
  ASSUME NEW b \in Builders, NEW n \in Nat, NEW m \in Scoping
  PROVE  Effect(b, ScopeAfter(b, m, n), m, n)
<1>1. CASE m[1] = "where"
  BY <1>1 DEF Builders, ScopeAfter, Effect, Patching
<1>2. CASE m[1] = "all"
  BY <1>2 DEF Builders, ScopeAfter, Effect, Patching
<1> QED BY <1>1, <1>2 DEF Scoping

(* A patch replaces the patch before it; relate() alone keeps expressions.  *)
LEMMA PatchEffect ==
  ASSUME NEW b \in Builders, NEW n \in Nat, NEW m \in Patches
  PROVE  /\ b.kind # "relate" => Effect(b, With(b, m, n), m, n)
         /\ b.kind = "relate" =>
              Effect(b, [With(b, m, n) EXCEPT !.exprs = IF m[2] = "fn" THEN n ELSE b.exprs], m, n)
<1>1. m[1] \in Patching /\ m[1] \in {"merge", "content", "set"} /\ m[1] \notin {"where", "raw"}
  BY DEF Patches, Patching
<1>2. m[1] \notin {"orderBy", "limit", "start", "value", "ids", "id", "timeout", "all", "one", "only", "return"}
  BY DEF Patches
<1>3. CASE b.kind # "relate"
  BY <1>1, <1>2, <1>3 DEF With, Effect, Builders, Unset
<1>4. CASE b.kind = "relate"
  BY <1>1, <1>2, <1>4 DEF With, Effect, Builders, Unset
<1> QED BY <1>3, <1>4

LEMMA CreateEffect ==
  ASSUME NEW b \in Builders, b.kind = "create", b.exprs = Unset,
         NEW n \in Nat, NEW m \in CreateMethods
  PROVE  Effect(b, CreateAfter(b, m, n), m, n)
<1>1. CASE m = <<"content", None>>
  <2>1. m[1] = "content" /\ m[2] = "none" /\ CreateAfter(b, m, n) = [b EXCEPT !.mode = "content", !.payload = n]
    BY <1>1 DEF CreateAfter, None
  <2> QED BY <2>1 DEF Effect, Builders, Patching
<1>2. CASE m = <<"ids", None>>
  BY <1>2 DEF CreateAfter, Effect, Builders, Patching, None, Unset
<1>3. CASE m \in WriteMethods
  <2>1. m[1] \notin {"content", "ids"}
    BY <1>3 DEF WriteMethods
  <2>2. CreateAfter(b, m, n) = WriteAfter(b, m, n)
    BY <2>1 DEF CreateAfter
  <2> QED BY <1>3, <2>2, WriteEffect
<1> QED BY <1>1, <1>2, <1>3 DEF CreateMethods

LEMMA UpdateEffect ==
  ASSUME NEW b \in Builders, b.kind \in Alterations, NEW n \in Nat, NEW m \in UpdateMethods
  PROVE  Effect(b, UpdateAfter(b, m, n), m, n)
<1>1. b.kind \notin {"select", "relate"}
  BY DEF Alterations
<1>2. CASE m \in Patches
  BY <1>1, <1>2, PatchEffect DEF UpdateAfter
<1>3. CASE m \notin Patches /\ m \in Scoping
  BY <1>3, ScopeEffect DEF UpdateAfter
<1>4. CASE m \notin Patches /\ m \notin Scoping
  BY <1>1, <1>4, WriteEffect DEF UpdateAfter, UpdateMethods
<1> QED BY <1>2, <1>3, <1>4

LEMMA DeleteEffect ==
  ASSUME NEW b \in Builders, b.kind = "delete", NEW n \in Nat, NEW m \in DeleteMethods
  PROVE  Effect(b, DeleteAfter(b, m, n), m, n)
<1>1. CASE m \in Scoping
  BY <1>1, ScopeEffect DEF DeleteAfter
<1>2. CASE m \notin Scoping
  BY <1>2, WriteEffect DEF DeleteAfter, DeleteMethods
<1> QED BY <1>1, <1>2

LEMMA RelateEffect ==
  ASSUME NEW b \in Builders, b.kind = "relate", NEW n \in Nat, NEW m \in RelateMethods
  PROVE  Effect(b, RelateAfter(b, m, n), m, n)
<1>1. CASE m = <<"id", None>>
  <2>1. m[1] = "id" /\ m \notin Patches
    BY <1>1 DEF Patches
  <2>2. RelateAfter(b, m, n) = [b EXCEPT !.edgeId = n]
    BY <2>1 DEF RelateAfter
  <2> QED BY <2>1, <2>2 DEF Effect, Builders, Patching
<1>2. CASE m = <<"timeout", None>>
  <2>1. m[1] = "timeout" /\ m \notin Patches
    BY <1>2 DEF Patches
  <2>2. RelateAfter(b, m, n) = [b EXCEPT !.timeout = n]
    BY <2>1 DEF RelateAfter
  <2> QED BY <2>1, <2>2 DEF Effect, Builders, Patching
<1>3. CASE m \in Patches
  <2>1. m[1] \notin {"id", "timeout"}
    BY <1>3 DEF Patches
  <2>2. RelateAfter(b, m, n) = [With(b, m, n) EXCEPT !.exprs = IF m[2] = "fn" THEN n ELSE b.exprs]
    BY <1>3, <2>1 DEF RelateAfter
  <2> QED BY <1>3, <2>2, PatchEffect
<1>4. CASE m \in WriteMethods
  <2>1. m[1] \notin {"id", "timeout"} /\ m \notin Patches
    BY <1>4 DEF WriteMethods, Patches
  <2>2. RelateAfter(b, m, n) = WriteAfter(b, m, n)
    BY <2>1 DEF RelateAfter
  <2> QED BY <1>4, <2>2, WriteEffect
<1> QED BY <1>1, <1>2, <1>3, <1>4 DEF RelateMethods

-----------------------------------------------------------------------------
(* A builder that has its clauses from the calls has them after one more.   *)
LEMMA CallKeeps ==
  ASSUME TypeOK, BuilderInv, Calls({"count"}) = {}, NEW m \in Methods, m[1] # "count",
         Kind = "create" => m \in CreateMethods, Kind # "select" => m[1] # "value", log' = Append(log, m), Effect(q, q', m, Len(log))
  PROVE  TypeOK' /\ BuilderInv'
<1>1. /\ Len(log) \in Nat \ {0} /\ Len(log') = Len(log) + 1 /\ log'[Len(log) + 1] = m
      /\ \A i \in 1..Len(log) : log'[i] = log[i]
  BY DEF TypeOK
<1>2. TypeOK'
  <2>1. log' \in Seq(Beginnings \cup Methods) /\ log'[1] \in Beginnings
    BY <1>1 DEF TypeOK
  <2>2. \A i \in 2..Len(log') : log'[i] \in Methods
    BY <1>1 DEF TypeOK
  <2>3. q' \in Builders
    BY DEF Effect
  <2> QED BY <1>1, <2>1, <2>2, <2>3 DEF TypeOK
<1>3. ClausesInv
  BY DEF BuilderInv
<1>4. log'[1] = log[1] /\ Kind' = Kind /\ q.kind = Kind
  BY <1>3, AskedAfter DEF ClausesInv
<1>5. q'.conn = log'[1][3] /\ q'.where = Asked("where")'
  BY <1>4, AskedAfter DEF BuilderInv, Effect
<1>6. /\ q'.kind = Kind' /\ q'.target = log'[1][2]
      /\ q'.order = Asked("orderBy")' /\ q'.limit = Asked("limit")' /\ q'.start = Asked("start")'
      /\ q'.value = Asked("value")' /\ q'.ids = Asked("ids")' /\ q'.edgeId = Asked("id")'
      /\ q'.timeout = Asked("timeout")'
  BY <1>3, <1>4, AskedAfter DEF ClausesInv, Effect
<1>7. (q'.all <=> Calls({"all"})' # {}) /\ (q'.decode <=> Calls({"raw"})' = {})
  BY <1>3, CallsAfter DEF ClausesInv, Effect
<1>8. /\ q'.only = AskedOnly' /\ q'.proj = AskedProj' /\ q'.ret = AskedRet'
      /\ q'.mode = AskedMode' /\ q'.payload = AskedPayload'
  BY <1>3, <1>4, CallsAfter DEF ClausesInv, Effect
<1>9. ExprsInv'
  <2>1. CASE Kind = "relate"
    <3>1. Calls({"set"})' = Calls({"set"}) \cup IF m[1] = "set" THEN {Len(log) + 1} ELSE {}
      BY AfterCall
    <3>2. Calls({"set"}) \subseteq 2..Len(log)
      BY DEF Calls
    <3>3. q'.exprs = IF m[1] \in Patching /\ m[2] = "fn" THEN Len(log) ELSE q.exprs
      BY <1>4, <2>1 DEF Effect
    <3>4. m[1] \in Patching /\ m[2] = "fn" => m[1] = "set"
      BY MethodWords
    <3>5. /\ q.exprs # Unset => q.exprs + 1 \in Calls({"set"}) /\ log[q.exprs + 1][2] = "fn"
          /\ \A i \in Calls({"set"}) : log[i][2] = "fn" => q.exprs # Unset /\ i <= q.exprs + 1
      BY <1>3, <2>1 DEF ClausesInv, ExprsInv
    <3>6. CASE m[1] = "set" /\ m[2] = "fn"
      BY <1>1, <1>4, <2>1, <3>1, <3>2, <3>3, <3>6 DEF ExprsInv, Patching, Unset
    <3>7. CASE ~(m[1] = "set" /\ m[2] = "fn")
      BY <1>1, <1>4, <2>1, <3>1, <3>2, <3>3, <3>4, <3>5, <3>7 DEF ExprsInv, Patching, Unset
    <3> QED BY <3>6, <3>7
  <2>2. CASE Kind # "relate"
    <3>1. OfLast(Patching, 2, None)' = IF m[1] \in Patching THEN m[2] ELSE OfLast(Patching, 2, None)
      BY AskedAfter DEF Patching
    <3>2. Patched' = IF m[1] \in Patching THEN Len(log) + 1 ELSE Patched
      BY AfterCall DEF Patched, Patching
    <3>3. q.exprs = IF OfLast(Patching, 2, None) = "fn" THEN Patched - 1 ELSE Unset
      BY <1>3, <2>2 DEF ClausesInv, ExprsInv
    <3>4. q'.exprs = IF m[1] \notin Patching THEN q.exprs ELSE IF m[2] = "fn" THEN Len(log) ELSE Unset
      BY <1>4, <2>2 DEF Effect
    <3>5. q'.exprs = IF OfLast(Patching, 2, None)' = "fn" THEN Patched' - 1 ELSE Unset
      BY <1>1, <3>1, <3>2, <3>3, <3>4
    <3> QED BY <1>4, <2>2, <3>5 DEF ExprsInv, Unset, Patching
  <2> QED BY <2>1, <2>2
<1>10. Kind' = "create" => q'.exprs = Unset
  BY <1>3, <1>4, MethodWords DEF ClausesInv, Effect
<1>12. Kind' # "select" => q'.value = Unset
  BY <1>3, <1>4 DEF ClausesInv, Effect
<1>11. Calls({"count"})' = {}
  BY CallsAfter
<1> QED BY <1>2, <1>5, <1>6, <1>7, <1>8, <1>9, <1>10, <1>11, <1>12 DEF BuilderInv, ClausesInv

(* While calls are made the builder is not the one of a count.              *)
LEMMA StillBuilding ==
  ASSUME IInv, Building
  PROVE  /\ Calls({"count"}) = {} /\ ClausesInv /\ q.kind = Kind
         /\ q \in Builders /\ Len(log) \in Nat /\ result = <<>>
<1>1. q.kind # "count" /\ q \in Builders /\ Len(log) \in Nat /\ result = <<>>
  BY DEF Building, IInv, TypeOK
<1>2. CountOf(q).kind = "count"
  BY DEF CountOf, Builder
<1>3. Calls({"count"}) = {}
  BY <1>1, <1>2 DEF IInv, BuilderInv
<1> QED BY <1>1, <1>3 DEF IInv, BuilderInv, ClausesInv

(* run() leaves the builder as it is.                                       *)
LEMMA Untouched ==
  ASSUME TypeOK, BuilderInv, q' = q, log' = log
  PROVE  TypeOK' /\ BuilderInv'
<1>1. TypeOK'
  BY DEF TypeOK
<1>2. \A names : Calls(names)' = Calls(names)
  BY DEF Calls
<1>3. ASSUME NEW names PROVE LastOf(names)' = LastOf(names)
  <2>1. Calls(names)' = Calls(names)
    BY <1>2
  <2> QED BY <2>1 DEF LastOf
<1>4. /\ \A name : Asked(name)' = Asked(name)
      /\ \A names, field, none : OfLast(names, field, none)' = OfLast(names, field, none)
      /\ Patched' = Patched /\ Kind' = Kind
  BY <1>3 DEF Asked, OfLast, Patched, Kind
<1>5. /\ AskedOnly' = AskedOnly /\ AskedMode' = AskedMode /\ AskedPayload' = AskedPayload
      /\ AskedRet' = AskedRet /\ AskedProj' = AskedProj
  BY <1>4 DEF AskedOnly, AskedMode, AskedPayload, AskedRet, AskedProj, Patching
<1>6. ExprsInv' = ExprsInv
  BY <1>2, <1>4 DEF ExprsInv, Patching
<1>7. ClausesInv' = ClausesInv
  BY <1>2, <1>4, <1>5, <1>6 DEF ClausesInv
<1> QED BY <1>1, <1>2, <1>4, <1>7 DEF BuilderInv

(* Every step of a chain keeps the invariant.                               *)
LEMMA StepIInv == IInv /\ [Next]_vars => IInv'
<1> SUFFICES ASSUME IInv, [Next]_vars PROVE IInv'
  OBVIOUS
<1>1. CASE CallSelect
  <2>1. PICK m \in SelectMethods : q' = SelectAfter(q, m, Len(log)) /\ log' = Append(log, m)
    BY <1>1 DEF CallSelect, Returns
  <2>2. q.kind = "select" /\ Building /\ result' = result
    BY <1>1 DEF CallSelect, Returns
  <2>3. m \in Methods /\ m[1] # "count"
    BY DEF Methods, SelectMethods
  <2>4. Effect(q, q', m, Len(log))
    BY <2>1, <2>2, StillBuilding, SelectEffect
  <2> QED BY <2>1, <2>2, <2>3, <2>4, StillBuilding, CallKeeps DEF IInv, ResultInv
<1>2. CASE CallCount
  <2>1. log' = Append(log, <<"count", None>>) /\ q' = CountOf(q) /\ Building /\ result' = result
        /\ q.kind = "select"
    BY <1>2 DEF CallCount, Returns
  <2>2. <<"count", None>> \in Methods
    BY DEF Methods
  <2>3. TypeOK'
    <3>1. log' \in Seq(Beginnings \cup Methods) /\ log'[1] \in Beginnings /\ Len(log') \in Nat \ {0}
      BY <2>1, <2>2 DEF IInv, TypeOK
    <3>2. \A i \in 2..Len(log') : log'[i] \in Methods
      BY <2>1, <2>2 DEF IInv, TypeOK
    <3>3. q' \in Builders
      BY <2>1, StillBuilding DEF Builders, CountOf, Builder, Unset, None
    <3> QED BY <3>1, <3>2, <3>3 DEF TypeOK
  <2>4. log'[1] = log[1] /\ Kind' = Kind /\ Asked("where")' = Asked("where") /\ Calls({"count"})' # {}
    BY <2>1, <2>2, AskedAfter, CallsAfter DEF IInv
  <2>5. /\ q'.where = q.where /\ q'.conn = q.conn
        /\ q' = CountOf(q')
    BY <2>1, StillBuilding DEF CountOf, Builder
  <2> QED BY <2>1, <2>3, <2>4, <2>5, StillBuilding DEF IInv, BuilderInv, ResultInv
<1>3. CASE CallCreate
  <2>1. PICK m \in CreateMethods : q' = CreateAfter(q, m, Len(log)) /\ log' = Append(log, m)
    BY <1>3 DEF CallCreate, Returns
  <2>2. q.kind = "create" /\ Building /\ result' = result
    BY <1>3 DEF CallCreate, Returns
  <2>3. m \in Methods /\ m[1] # "count" /\ m[1] # "value"
    BY DEF Methods, CreateMethods, WriteMethods
  <2>4. Effect(q, q', m, Len(log))
    BY <2>1, <2>2, StillBuilding, CreateEffect DEF ClausesInv
  <2> QED BY <2>1, <2>2, <2>3, <2>4, StillBuilding, CallKeeps DEF IInv, ResultInv
<1>4. CASE CallUpdate
  <2>1. PICK m \in UpdateMethods : q' = UpdateAfter(q, m, Len(log)) /\ log' = Append(log, m)
    BY <1>4 DEF CallUpdate, Returns
  <2>2. q.kind \in Alterations /\ Building /\ result' = result
    BY <1>4 DEF CallUpdate, Returns
  <2>3. m \in Methods /\ m[1] # "count" /\ m[1] # "value"
    BY DEF Methods, UpdateMethods, WriteMethods, Scoping, Patches
  <2>4. Effect(q, q', m, Len(log)) /\ Kind # "create"
    BY <2>1, <2>2, StillBuilding, UpdateEffect DEF Alterations
  <2> QED BY <2>1, <2>2, <2>3, <2>4, StillBuilding, CallKeeps DEF IInv, ResultInv
<1>5. CASE CallDelete
  <2>1. PICK m \in DeleteMethods : q' = DeleteAfter(q, m, Len(log)) /\ log' = Append(log, m)
    BY <1>5 DEF CallDelete, Returns
  <2>2. q.kind = "delete" /\ Building /\ result' = result
    BY <1>5 DEF CallDelete, Returns
  <2>3. m \in Methods /\ m[1] # "count" /\ m[1] # "value"
    BY DEF Methods, DeleteMethods, WriteMethods, Scoping
  <2>4. Effect(q, q', m, Len(log))
    BY <2>1, <2>2, StillBuilding, DeleteEffect
  <2> QED BY <2>1, <2>2, <2>3, <2>4, StillBuilding, CallKeeps DEF IInv, ResultInv
<1>6. CASE CallRelate
  <2>1. PICK m \in RelateMethods : q' = RelateAfter(q, m, Len(log)) /\ log' = Append(log, m)
    BY <1>6 DEF CallRelate, Returns
  <2>2. q.kind = "relate" /\ Building /\ result' = result
    BY <1>6 DEF CallRelate, Returns
  <2>3. m \in Methods /\ m[1] # "count" /\ m[1] # "value"
    BY DEF Methods, RelateMethods, WriteMethods, Patches
  <2>4. Effect(q, q', m, Len(log))
    BY <2>1, <2>2, StillBuilding, RelateEffect
  <2> QED BY <2>1, <2>2, <2>3, <2>4, StillBuilding, CallKeeps DEF IInv, ResultInv
<1>7. CASE Run
  <2>1. q' = q /\ log' = log
        /\ \E own \in {None, "given"}, n \in 0..MaxMatches : result' = <<Outcome(q, own, n)>>
    BY <1>7 DEF Run
  <2>2. TypeOK' /\ BuilderInv'
    BY <2>1, Untouched DEF IInv
  <2> QED BY <2>1, <2>2 DEF IInv, ResultInv
<1>8. CASE UNCHANGED vars
  <2>1. q' = q /\ log' = log /\ result' = result
    BY <1>8 DEF vars
  <2>2. TypeOK' /\ BuilderInv'
    BY <2>1, Untouched DEF IInv
  <2> QED BY <2>1, <2>2 DEF IInv, ResultInv
<1> QED BY <1>1, <1>2, <1>3, <1>4, <1>5, <1>6, <1>7, <1>8 DEF Next

(* The invariant holds of every chain of calls.                             *)
THEOREM ChainInvariance == Spec => []IInv
  BY InitIInv, StepIInv, PTL DEF Spec

-----------------------------------------------------------------------------
(* From the clauses to the statement and the answer.                        *)

(* What LastOf and the clauses say of each other.                           *)
LEMMA AskedMeans ==
  ASSUME TypeOK
  PROVE  /\ \A name : Asked(name) = Unset <=> Calls({name}) = {}
         /\ \A names : LastOf(names) = 0 <=> Calls(names) = {}
         /\ \A names : LastOf(names) # 0 =>
              /\ LastOf(names) \in Calls(names) /\ LastOf(names) \in 2..Len(log)
              /\ log[LastOf(names)] \in Methods /\ log[LastOf(names)][1] \in names
              /\ \A j \in Calls(names) : j <= LastOf(names)
<1>1. \A names : IF Calls(names) = {} THEN LastOf(names) = 0
                 ELSE IsLast(names, LastOf(names)) /\ LastOf(names) \in 2..Len(log)
  BY LastOfIsLast
<1>2. \A i : i \in 2..Len(log) => i # 0 /\ i - 1 # 0 /\ i \in 2..Len(log)
  BY DEF TypeOK
<1>3. \A names : LastOf(names) = 0 <=> Calls(names) = {}
  BY <1>1, <1>2
<1>4. \A name : Asked(name) = Unset <=> Calls({name}) = {}
  BY <1>1, <1>2, <1>3 DEF Asked, Unset
<1>5. ASSUME NEW names, LastOf(names) # 0
      PROVE  /\ LastOf(names) \in Calls(names) /\ LastOf(names) \in 2..Len(log)
             /\ log[LastOf(names)] \in Methods /\ log[LastOf(names)][1] \in names
             /\ \A j \in Calls(names) : j <= LastOf(names)
  <2>1. IsLast(names, LastOf(names)) /\ LastOf(names) \in 2..Len(log)
    BY <1>1, <1>3, <1>5
  <2> QED BY <2>1 DEF IsLast, Calls, TypeOK
<1> QED BY <1>3, <1>4, <1>5

(* The patch is the last that was given, unless relate() has kept           *)
(* expressions of an earlier one.                                           *)
LEMMA PatchIsAsked ==
  ASSUME IInv, ~Deviates, ClausesInv
  PROVE  Patch(q) = AskedPatch
<1> DEFINE m == log[Patched]
<1>1. CASE Patched = 0
  <2>1. q.mode = None
    BY <1>1 DEF ClausesInv, AskedMode, OfLast, Patched, Patching
  <2> QED BY <1>1, <2>1 DEF Patch, AskedPatch, None
<1>2. CASE Patched # 0
  <2>1. /\ Patched \in Calls(Patching) /\ m \in Methods /\ m[1] \in Patching
        /\ \A j \in Calls(Patching) : j <= Patched
        /\ Patched \in 2..Len(log)
    BY <1>2, AskedMeans DEF IInv, Patched, Patching
  <2>2. q.mode = m[1] /\ q.payload = IF m[2] = "empty" THEN Unset ELSE Patched - 1
    BY <1>2 DEF ClausesInv, AskedMode, AskedPayload, OfLast, Patched, Patching
  <2>3. CASE m[1] # "set"
    <3>1. m[2] # "empty" /\ m[1] # None
      BY <2>1, <2>3, MethodWords DEF Patching, None
    <3> QED BY <1>2, <2>2, <2>3, <3>1 DEF Patch, AskedPatch
  <2>4. CASE m[1] = "set"
    <3>1. q.exprs = IF m[2] = "fn" THEN Patched - 1 ELSE Unset
      <4>1. CASE Kind # "relate"
        BY <1>2, <4>1 DEF ClausesInv, ExprsInv, OfLast, Patched, Patching
      <4>2. CASE Kind = "relate"
        <5>1. /\ q.exprs # Unset => q.exprs + 1 \in Calls({"set"}) /\ log[q.exprs + 1][2] = "fn"
              /\ \A i \in Calls({"set"}) : log[i][2] = "fn" => q.exprs # Unset /\ i <= q.exprs + 1
              /\ q.exprs \in Nat
          BY <4>2 DEF ClausesInv, ExprsInv, IInv, TypeOK, Builders
        <5>2. Patched \in Calls({"set"})
          BY <2>1, <2>4 DEF Calls
        <5>3. \A j \in Calls({"set"}) : j <= Patched
          BY <2>1 DEF Calls, Patching
        <5>4. CASE m[2] = "fn"
          BY <2>1, <5>1, <5>2, <5>3, <5>4
        <5>5. CASE m[2] # "fn"
          <6>1. SUFFICES ASSUME q.exprs # Unset PROVE FALSE
            BY <5>5
          <6>2. q.exprs + 1 < Patched
            BY <2>1, <5>1, <5>3, <5>5, <6>1
          <6> QED BY <4>2, <5>1, <5>2, <5>5, <6>1, <6>2 DEF Deviates
        <5> QED BY <5>4, <5>5
      <4> QED BY <4>1, <4>2
    <3> QED BY <1>2, <2>2, <2>4, <3>1 DEF Patch, AskedPatch
  <2> QED BY <2>3, <2>4
<1> QED BY <1>1, <1>2

(* The statement has the clauses that were asked for.                       *)
LEMMA StatementIsAsked ==
  ASSUME IInv, ~Deviates
  PROVE  toSQL(q) = AskedStatement
<1>1. CASE Calls({"count"}) # {}
  <2>1. q.kind = "count" /\ q.target = log[1][2] /\ q.where = Asked("where") /\ Kind = "select"
    <3>1. q = CountOf(q) /\ q.where = Asked("where") /\ Kind = "select"
      BY <1>1 DEF IInv, BuilderInv
    <3>2. CountOf(q).kind = "count" /\ CountOf(q).target = FALSE
      BY DEF CountOf, Builder
    <3>3. log[1][2] = FALSE
      <4>1. log[1] \in Beginnings
        BY DEF IInv, TypeOK
      <4>2. log[1][2] \in BOOLEAN
        BY <4>1 DEF Beginnings
      <4> QED BY <1>1, <4>2 DEF Deviates
    <3> QED BY <3>1, <3>2, <3>3
  <2>2. toSQL(q) = CountSQL(q)
    BY <2>1 DEF toSQL
  <2> QED BY <1>1, <2>1, <2>2 DEF CountSQL, AskedStatement
<1>2. CASE Calls({"count"}) = {}
  <2>1. ClausesInv /\ q.where = Asked("where") /\ q.kind = Kind /\ q.target = log[1][2]
        /\ Kind \in StatementKinds
    BY <1>2 DEF IInv, BuilderInv, ClausesInv, TypeOK, Beginnings, Kind
  <2>2. (q.only # None) <=> (Single # 0)
    BY <2>1, AskedMeans DEF ClausesInv, AskedOnly, OfLast, Single, None, IInv
  <2>3. CASE Kind = "select"
    <3>1. toSQL(q) = SelectSQL(q)
      BY <2>1, <2>3 DEF toSQL
    <3>2. /\ q.order = Asked("orderBy") /\ q.start = Asked("start") /\ q.proj = Asked("return")
          /\ q.value = Asked("value")
      BY <2>1, <2>3 DEF ClausesInv, AskedProj
    <3>3. /\ q.limit = Asked("limit") /\ (q.limit # Unset <=> LastOf({"limit"}) # 0)
      BY <2>1, AskedMeans DEF ClausesInv, IInv
    <3>4. (q.only = "one") <=> (Single # 0 /\ log[Single][1] = "one")
      BY <2>1 DEF ClausesInv, AskedOnly, OfLast, Single, None
    <3> QED BY <1>2, <2>1, <2>2, <2>3, <3>1, <3>2, <3>3, <3>4 DEF SelectSQL, AskedStatement
  <2>4. CASE Kind # "select"
    <3>1. toSQL(q) = WriteSQL(q)
      BY <2>1, <2>4 DEF toSQL, StatementKinds
    <3>2. /\ q.ids = Asked("ids") /\ q.edgeId = Asked("id") /\ q.timeout = Asked("timeout")
      BY <2>1 DEF ClausesInv
    <3>3. q.ret = IF Returned # 0 THEN log[Returned][2] ELSE IF Kind = "delete" THEN "none" ELSE "after"
      <4>1. Returned # 0 => log[Returned][2] # "nothing"
        BY AskedMeans, MethodWords DEF Returned, IInv
      <4> QED BY <2>1, <2>4, <4>1 DEF ClausesInv, AskedRet, OfLast, Returned
    <3>4. q.proj = IF Returned # 0 /\ log[Returned][2] = "row" THEN Returned - 1 ELSE Unset
      BY <2>1, <2>4 DEF ClausesInv, AskedProj, OfLast, Returned, Asked, None
    <3>5. Patch(q) = AskedPatch
      BY <2>1, PatchIsAsked
    <3> QED BY <1>2, <2>1, <2>2, <2>4, <3>1, <3>2, <3>3, <3>4, <3>5 DEF WriteSQL, AskedStatement
  <2> QED BY <2>3, <2>4
<1> QED BY <1>1, <1>2

(* A statement is refused exactly when it has no scope or no patch.         *)
LEMMA RefusalIsAsked ==
  ASSUME IInv, ~Deviates
  PROVE  Refusal(q) <=> Unscoped \/ Unpatched
<1>1. CASE Calls({"count"}) # {}
  <2>1. q.kind = "count" /\ Kind = "select"
    <3>1. q = CountOf(q) /\ Kind = "select"
      BY <1>1 DEF IInv, BuilderInv
    <3>2. CountOf(q).kind = "count"
      BY DEF CountOf, Builder
    <3> QED BY <3>1, <3>2
  <2> QED BY <2>1 DEF Refusal, Unscoped, Unpatched, Alterations
<1>2. CASE Calls({"count"}) = {}
  <2>1. ClausesInv /\ q.where = Asked("where") /\ q.kind = Kind /\ q.target = log[1][2]
    BY <1>2 DEF IInv, BuilderInv, ClausesInv
  <2>2. Calls({"where", "all"}) = Calls({"where"}) \cup Calls({"all"})
    BY DEF Calls
  <2>3. (~q.target /\ q.where = Unset /\ ~q.all) <=> (~log[1][2] /\ Calls({"where", "all"}) = {})
    BY <2>1, <2>2, AskedMeans DEF ClausesInv, IInv
  <2>4. q.mode = None <=> Patched = 0
    BY <2>1, AskedMeans DEF ClausesInv, AskedMode, OfLast, Patched, Patching, None, IInv
  <2>5. (q.mode = "set" /\ q.payload = Unset /\ q.exprs = Unset) <=> AskedPatch = <<"set", Unset, Unset>>
    <3>1. Patch(q) = AskedPatch
      BY <2>1, PatchIsAsked
    <3>2. CASE q.mode = "set"
      BY <3>1, <3>2 DEF Patch
    <3>3. CASE q.mode # "set"
      <4>1. Len(Patch(q)) < 3
        BY <3>3 DEF Patch
      <4>2. Len(<<"set", Unset, Unset>>) = 3
        OBVIOUS
      <4> QED BY <3>1, <3>3, <4>1, <4>2
    <3> QED BY <3>2, <3>3
  <2>6. CASE Kind \in Alterations
    BY <2>1, <2>3, <2>4, <2>5, <2>6 DEF Refusal, Unscoped, Unpatched, Alterations
  <2>7. CASE Kind \notin Alterations
    BY <2>1, <2>3, <2>7 DEF Refusal, Unscoped, Unpatched
  <2> QED BY <2>6, <2>7
<1> QED BY <1>1, <1>2

(* A row comes back in the form that was asked for.                         *)
LEMMA RowIsAsked ==
  ASSUME IInv, ~Deviates, ClausesInv
  PROVE  Form(q) = AskedRow
<1>1. q.kind = Kind /\ (q.decode <=> ~Raw) /\ q.decode \in BOOLEAN
  BY DEF ClausesInv, Raw, IInv, TypeOK, Builders
<1>2. (q.value # Unset <=> Calls({"value"}) # {}) /\ (Kind # "select" => q.value = Unset)
  BY AskedMeans DEF ClausesInv, IInv
<1>3. CASE Kind = "select"
  <2>1. q.proj # Unset <=> Returned # 0
    BY <1>3, AskedMeans DEF ClausesInv, AskedProj, Returned, IInv
  <2> QED BY <1>1, <1>2, <1>3, <2>1 DEF Form, AskedRow
<1>4. CASE Kind # "select"
  <2>1. Returned # 0 => log[Returned][2] # "nothing" /\ Returned \in Calls({"return"})
    BY AskedMeans, MethodWords DEF Returned, IInv
  <2>2. q.ret = IF Returned # 0 THEN log[Returned][2] ELSE IF Kind = "delete" THEN "none" ELSE "after"
    BY <1>4, <2>1 DEF ClausesInv, AskedRet, OfLast, Returned
  <2>3. Raw /\ Returned # 0 => log[Returned][2] # "row"
    BY <2>1 DEF Deviates
  <2> QED BY <1>1, <1>2, <1>4, <2>2, <2>3 DEF Form, AskedRow
<1> QED BY <1>3, <1>4

(* What comes back when n rows match.                                       *)
LEMMA AnswerIsAsked ==
  ASSUME IInv, ~Deviates, NEW n \in Nat
  PROVE  Decoded(q, Answer(toSQL(q), n)) = AskedAnswer(n)
<1>1. toSQL(q) = AskedStatement
  BY StatementIsAsked
<1>2. CASE Calls({"count"}) # {}
  <2>1. q.kind = "count"
    <3>1. q = CountOf(q)
      BY <1>2 DEF IInv, BuilderInv
    <3>2. CountOf(q).kind = "count"
      BY DEF CountOf, Builder
    <3> QED BY <3>1, <3>2
  <2>2. ~toSQL(q).single /\ ~Silent(toSQL(q))
    BY <2>1 DEF toSQL, CountSQL, Silent
  <2>3. Answer(toSQL(q), n) = <<"rows", n>>
    BY <2>2 DEF Answer
  <2> QED BY <1>2, <2>1, <2>3 DEF Decoded, AskedAnswer
<1>3. CASE Calls({"count"}) = {}
  <2>1. ClausesInv /\ q.kind = Kind /\ Kind \in StatementKinds
    BY <1>3 DEF IInv, BuilderInv, ClausesInv, TypeOK, Beginnings, Kind
  <2>2. Form(q) = AskedRow
    BY <2>1, RowIsAsked
  <2>3. (q.only # None) <=> (Single # 0)
    BY <2>1, AskedMeans DEF ClausesInv, AskedOnly, OfLast, Single, None, IInv
  <2>4. toSQL(q).single <=> Single # 0
    BY <2>1, <2>3 DEF toSQL, SelectSQL, WriteSQL, StatementKinds
  <2>5. Silent(AskedStatement) <=> Kind # "select" /\ q.ret = "none"
    BY <1>1, <2>1 DEF toSQL, SelectSQL, WriteSQL, StatementKinds, Silent
  <2>6. Single # 0 => toSQL(q).limit \in {<<>>, <<"one">>}
    <3>1. Single # 0 => q.limit = Unset
      BY <2>1, AskedMeans DEF Deviates, ClausesInv, IInv
    <3> QED BY <2>1, <3>1 DEF toSQL, SelectSQL, WriteSQL, StatementKinds
  <2> DEFINE nothing == Silent(AskedStatement)
             first == AskedStatement.limit = <<"one">>
  <2>7. nothing <=> q.kind # "select" /\ q.ret = "none"
    BY <2>1, <2>5
  <2>8. CASE Single = 0
    <3>1. Answer(toSQL(q), n) = <<"rows", IF nothing THEN 0 ELSE n>>
      BY <1>1, <2>4, <2>8 DEF Answer
    <3>2. AskedAnswer(n) = IF nothing THEN <<"rows", 0, "nothing">> ELSE <<"rows", n, AskedRow>>
      BY <1>3, <2>8 DEF AskedAnswer
    <3> HIDE DEF nothing
    <3> QED BY <1>3, <2>1, <2>2, <2>3, <2>7, <2>8, <3>1, <3>2 DEF Decoded, StatementKinds
  <2>9. CASE Single # 0
    <3>1. AskedAnswer(n) = IF n # 1 /\ ~first THEN <<"error">>
                           ELSE IF nothing \/ n = 0 THEN <<"undefined">> ELSE <<"one", AskedRow>>
      BY <1>3, <2>9 DEF AskedAnswer
    <3>2. Answer(toSQL(q), n) = IF n = 0 /\ first THEN <<"rows", 0>>
                                ELSE IF n = 1 \/ first THEN <<"rows", 1>> ELSE <<"error">>
      <4>1. ~Silent(AskedStatement)
        BY <2>9 DEF Deviates
      <4> QED BY <1>1, <2>4, <2>6, <2>9, <4>1 DEF Answer
    <3> HIDE DEF nothing, first
    <3>3. CASE n # 1 /\ ~first
      BY <3>1, <3>2, <3>3 DEF Decoded
    <3>4. CASE n = 0 /\ first
      <4>1. Answer(toSQL(q), n) = <<"rows", 0>>
        BY <3>2, <3>4
      <4> QED BY <2>1, <2>3, <2>9, <3>1, <3>4, <4>1 DEF Decoded, StatementKinds
    <3>5. CASE n = 1 \/ (first /\ n # 0)
      <4>1. Answer(toSQL(q), n) = <<"rows", 1>>
        BY <3>2, <3>5
      <4>2. n # 0
        BY <3>5
      <4> QED BY <2>1, <2>2, <2>3, <2>7, <2>9, <3>1, <3>5, <4>1, <4>2 DEF Decoded, StatementKinds
    <3> QED BY <3>3, <3>4, <3>5
  <2> QED BY <2>8, <2>9
<1> QED BY <1>2, <1>3

(* What run() gives is what the chain asked for.                            *)
LEMMA OutcomeStands == IInv => ClausesStand
<1> SUFFICES ASSUME IInv, NEW i \in DOMAIN result, ~Deviates
             PROVE  LET r == result[i]
                        conn == IF r.own # None THEN r.own ELSE log[1][3]
                    IN  /\ r.sent <=> ~(conn = None \/ Unscoped \/ Unpatched)
                        /\ r.sent => /\ r.statement = AskedStatement /\ r.conn = conn
                                     /\ r.gives = AskedAnswer(r.matched)
  BY DEF ClausesStand
<1>1. PICK own \in {None, "given"}, n \in 0..MaxMatches : result = <<Outcome(q, own, n)>>
  <2>1. result # <<>>
    OBVIOUS
  <2> QED BY <2>1 DEF IInv, ResultInv
<1>2. result[i] = Outcome(q, own, n) /\ n \in Nat
  BY <1>1
<1> DEFINE conn == IF own # None THEN own ELSE log[1][3]
<1>3. q.conn = log[1][3]
  BY DEF IInv, BuilderInv
<1>4. Refusal(q) <=> Unscoped \/ Unpatched
  BY RefusalIsAsked
<1>5. toSQL(q) = AskedStatement /\ Decoded(q, Answer(toSQL(q), n)) = AskedAnswer(n)
  BY <1>2, StatementIsAsked, AnswerIsAsked
<1>6. CASE conn = None \/ Refusal(q)
  <2>1. result[i] = [own |-> own, sent |-> FALSE]
    BY <1>2, <1>3, <1>6 DEF Outcome
  <2> QED BY <1>4, <1>6, <2>1
<1>7. CASE ~(conn = None \/ Refusal(q))
  <2>1. result[i] = [own |-> own, sent |-> TRUE, statement |-> toSQL(q), conn |-> conn,
                     matched |-> n, gives |-> Decoded(q, Answer(toSQL(q), n))]
    BY <1>2, <1>3, <1>7 DEF Outcome
  <2> QED BY <1>4, <1>5, <1>7, <2>1
<1> QED BY <1>6, <1>7

(* For chains of every length and every number of matches: whatever the     *)
(* order of the calls, the statement that is sent has of every clause the   *)
(* last that was given, a write of no scope or no patch is refused, and the *)
(* answer has the form asked for.                                           *)
THEOREM ClausesAlwaysStand == Spec => []ClausesStand
  BY ChainInvariance, OutcomeStands, PTL
=============================================================================
