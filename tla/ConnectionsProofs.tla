-------------------------- MODULE ConnectionsProofs --------------------------
(***************************************************************************)
(* Both resolvers of connections, for any number of connections, any graph *)
(* of queries between them and any number of failures: what was opened is  *)
(* closed, and what resolves reaches no cycle.                             *)
(*                                                                         *)
(* The application's resolver closes what it has a list of; the invariant  *)
(* says that the list holds every sibling that is open or opening.  The    *)
(* CLI's has no list: it closes what is open at the end, which is enough   *)
(* only because nothing is opening then.  That is so because the resolvers *)
(* that run form a stack, each opened by the one below it, with the        *)
(* target's at the bottom: the invariant is that some ranking of them is   *)
(* such a stack.                                                           *)
(***************************************************************************)
EXTENDS Connections, FiniteSetTheorems, TLAPS

Phases == {"resolving", "closing", "settled"}
Outcomes == {"none", "resolved", "failed"}

-----------------------------------------------------------------------------
(* The graph of queries.                                                    *)

(* A connection reaches itself.                                             *)
LEMMA ReachesItself ==
  ASSUME NEW S, NEW g \in [S -> SUBSET S], NEW n \in S
  PROVE  n \in Reachable(n, g)
BY DEF Reachable

(* It reaches what the connections it reaches query.                        *)
LEMMA ReachesNext ==
  ASSUME NEW S, NEW g \in [S -> SUBSET S], NEW n \in S,
         NEW k \in Reachable(n, g), NEW m \in g[k]
  PROVE  m \in Reachable(n, g)
<1>1. k \in S /\ m \in S /\ DOMAIN g = S
  BY DEF Reachable
<1>2. ASSUME NEW T \in SUBSET S, n \in T, \A j \in T : g[j] \subseteq T PROVE m \in T
  <2>1. k \in T
    BY <1>1, <1>2 DEF Reachable
  <2> QED BY <1>2, <2>1
<1> QED BY <1>1, <1>2 DEF Reachable

(* What is reached from a connection it reaches, it reaches.                *)
LEMMA ReachesFurther ==
  ASSUME NEW S, NEW g \in [S -> SUBSET S], NEW n \in S,
         NEW k \in Reachable(n, g), NEW m \in Reachable(k, g)
  PROVE  m \in Reachable(n, g)
<1>1. k \in S /\ m \in S /\ DOMAIN g = S
  BY DEF Reachable
<1>2. ASSUME NEW T \in SUBSET S, n \in T, \A j \in T : g[j] \subseteq T PROVE m \in T
  <2>1. k \in T
    BY <1>1, <1>2 DEF Reachable
  <2> QED BY <1>1, <1>2, <2>1 DEF Reachable
<1> QED BY <1>1, <1>2 DEF Reachable

(* A connection reaches itself, or what one of those it queries reaches.    *)
LEMMA ReachesThrough ==
  ASSUME NEW S, NEW g \in [S -> SUBSET S], NEW n \in S, NEW m \in Reachable(n, g)
  PROVE  m = n \/ \E k \in g[n] : m \in Reachable(k, g)
<1> DEFINE T == {n} \cup UNION {Reachable(k, g) : k \in g[n]}
<1>1. T \in SUBSET S /\ DOMAIN g = S
  BY DEF Reachable
<1>2. ASSUME NEW j \in T PROVE g[j] \subseteq T
  <2>1. CASE j = n
    BY <2>1, <1>1, ReachesItself
  <2>2. CASE j # n
    <3>1. PICK k \in g[n] : j \in Reachable(k, g)
      BY <2>2
    <3>2. g[j] \subseteq Reachable(k, g)
      BY <3>1, ReachesNext
    <3> QED BY <3>1, <3>2
  <2> QED BY <2>1, <2>2
<1>3. m \in T
  BY <1>1, <1>2 DEF Reachable
<1> QED BY <1>3

(* A connection that queries only such as reach no cycle reaches none.      *)
LEMMA NoCycleThrough ==
  ASSUME NEW S, NEW g \in [S -> SUBSET S], NEW n \in S,
         \A k \in g[n] : ~ReachesCycle(k, g)
  PROVE  ~ReachesCycle(n, g)
<1> SUFFICES ASSUME ReachesCycle(n, g) PROVE FALSE
  OBVIOUS
<1>1. PICK m \in Reachable(n, g), k \in S : k \in g[m] /\ m \in Reachable(k, g)
  BY DEF ReachesCycle
<1>2. CASE m = n
  <2>1. k \in Reachable(k, g)
    BY ReachesItself
  <2>2. ReachesCycle(k, g)
    BY <1>1, <1>2 DEF ReachesCycle
  <2> QED BY <1>1, <1>2, <2>2
<1>3. CASE m # n
  <2>1. PICK j \in g[n] : m \in Reachable(j, g)
    BY <1>3, ReachesThrough
  <2>2. ReachesCycle(j, g)
    BY <1>1, <2>1 DEF ReachesCycle
  <2> QED BY <2>1, <2>2
<1> QED BY <1>2, <1>3

(* A connection that is queried by one it reaches is on a cycle.            *)
LEMMA CycleClosed ==
  ASSUME NEW S, NEW g \in [S -> SUBSET S], NEW n \in S, NEW k \in Reachable(n, g),
         NEW m \in g[k], k \in Reachable(m, g)
  PROVE  ReachesCycle(n, g)
BY DEF ReachesCycle, Reachable

-----------------------------------------------------------------------------
(* The sequence of a finite set holds each of its elements once.            *)
LEMMA SetToSeqFacts ==
  ASSUME NEW S, IsFiniteSet(S)
  PROVE  /\ SetToSeq(S) \in Seq(S)
         /\ IsInjective(SetToSeq(S))
         /\ Range(SetToSeq(S)) = S
<1> DEFINE n == Cardinality(S)
           f == SetToSeq(S)
<1>1. n \in Nat /\ ExistsBijection(1..n, S)
  BY FS_CardinalityType
<1>2. \E h \in [1..n -> S] : IsInjective(h)
  BY <1>1 DEF ExistsBijection, Bijection, Injection
<1>3. f \in [1..n -> S] /\ IsInjective(f)
  BY <1>2 DEF SetToSeq
<1>4. f \in Injection(1..n, S)
  BY <1>3 DEF Injection
<1>5. IsFiniteSet(1..n) /\ Cardinality(1..n) = n
  BY <1>1, FS_Interval
<1>6. f \in Surjection(1..n, S)
  BY <1>1, <1>4, <1>5, FS_Injection
<1>7. Range(f) = S
  BY <1>3, <1>6 DEF Surjection, Range
<1>8. f \in Seq(S)
  BY <1>1, <1>3
<1> QED BY <1>3, <1>7, <1>8

(* Appending a new sibling to a list without it.                           *)
LEMMA AppendNew ==
  ASSUME NEW S, NEW s \in Seq(S), NEW x \in S, IsInjective(s), x \notin Range(s)
  PROVE  /\ Append(s, x) \in Seq(S)
         /\ IsInjective(Append(s, x))
         /\ Range(Append(s, x)) = Range(s) \cup {x}
<1> DEFINE t == Append(s, x)
<1>1. t \in Seq(S) /\ DOMAIN t = 1..(Len(s) + 1) /\ DOMAIN s = 1..Len(s) /\ Len(s) \in Nat
  OBVIOUS
<1>2. t[Len(s) + 1] = x /\ \A i \in 1..Len(s) : t[i] = s[i]
  OBVIOUS
<1>3. \A i \in 1..Len(s) : s[i] \in Range(s)
  BY DEF Range
<1> HIDE DEF t
<1>4. \A i \in 1..(Len(s) + 1) : i \in 1..Len(s) \/ i = Len(s) + 1
  BY <1>1
<1>5. IsInjective(t)
  <2> SUFFICES ASSUME NEW i \in DOMAIN t, NEW j \in DOMAIN t, t[i] = t[j] PROVE i = j
    BY DEF IsInjective
  <2>1. CASE i \in 1..Len(s) /\ j \in 1..Len(s)
    BY <2>1, <1>1, <1>2 DEF IsInjective
  <2>2. CASE ~(i \in 1..Len(s) /\ j \in 1..Len(s))
    BY <2>2, <1>1, <1>2, <1>3, <1>4
  <2> QED BY <2>1, <2>2
<1>6. Range(t) \subseteq Range(s) \cup {x}
  BY <1>1, <1>2, <1>3, <1>4 DEF Range
<1>7. Range(s) \subseteq Range(t)
  <2> SUFFICES ASSUME NEW i \in 1..Len(s) PROVE s[i] \in Range(t)
    BY <1>1 DEF Range
  <2>1. i \in DOMAIN t /\ t[i] = s[i]
    BY <1>1, <1>2
  <2> QED BY <2>1 DEF Range
<1>8. x \in Range(t)
  <2>1. Len(s) + 1 \in DOMAIN t
    BY <1>1
  <2> QED BY <2>1, <1>2 DEF Range
<1> QED BY <1>1, <1>5, <1>6, <1>7, <1>8 DEF t

(* Taking the first of a list of distinct siblings.                         *)
LEMMA TailOfDistinct ==
  ASSUME NEW S, NEW s \in Seq(S), s # <<>>, IsInjective(s)
  PROVE  /\ Tail(s) \in Seq(S)
         /\ IsInjective(Tail(s))
         /\ Range(Tail(s)) = Range(s) \ {Head(s)}
<1>1. Tail(s) \in Seq(S) /\ DOMAIN Tail(s) = 1..(Len(s) - 1) /\ Len(s) > 0
  BY Zenon, SMT
<1>2. \A i \in 1..(Len(s) - 1) : Tail(s)[i] = s[i + 1]
  OBVIOUS
<1>3. \A i, j \in 1..Len(s) : s[i] = s[j] => i = j
  BY DEF IsInjective
<1>4. IsInjective(Tail(s))
  BY <1>1, <1>2, <1>3 DEF IsInjective
<1>5. Head(s) = s[1]
  BY <1>1
<1>6. \A i \in 1..(Len(s) - 1) : s[i + 1] \in Range(s) /\ s[i + 1] # s[1]
  BY <1>3 DEF Range
<1>7. Range(Tail(s)) \subseteq Range(s) \ {Head(s)}
  BY <1>1, <1>2, <1>5, <1>6 DEF Range
<1>8. ASSUME NEW i \in 1..Len(s), s[i] # Head(s) PROVE s[i] \in Range(Tail(s))
  <2>1. i - 1 \in 1..(Len(s) - 1) /\ Tail(s)[i - 1] = s[i]
    BY <1>2, <1>5, <1>8
  <2> QED BY <2>1, <1>1 DEF Range
<1>9. Range(s) \ {Head(s)} \subseteq Range(Tail(s))
  BY <1>8 DEF Range
<1> QED BY <1>1, <1>4, <1>7, <1>9

-----------------------------------------------------------------------------
(* The application's resolver.                                              *)

ResolveTypeInv ==
  /\ target \in Names
  /\ uses \in [Names -> SUBSET Names]
  /\ state \in [Names -> {"unopened", "pending", "open", "failed", "closed"}]
  /\ opened \in Seq(Names)
  /\ stack \in Seq(Activities)
  /\ refused \subseteq Activities
  /\ asked \in [Activities -> SUBSET Names]
  /\ phase \in Phases
  /\ outcome \in Outcomes
  /\ faults \in Nat

(* A resolver asks only for what it queries.                                *)
AskedInv == \A a \in Activities : asked[a] \subseteq Uses(a)

(* A sibling is in the list once the call that opens it returns, and until  *)
(* it is closed.                                                            *)
OpenedInv ==
  /\ IsInjective(opened)
  /\ \A n \in Names : state[n] = "unopened" => n \notin Range(opened) \cup Range(stack)
  /\ \A n \in Names : state[n] \in {"pending", "open"} =>
       n \in Range(opened) \cup Range(stack) /\ phase # "settled"

(* The activities that run: each is reached from those that called it.      *)
Chain(s) ==
  \A i, j \in 1..Len(s) : i <= j => NameOf(s[i]) \in Reachable(NameOf(s[j]), uses)

(* So a query that is refused closes a cycle.                               *)
RunningInv == Chain(stack) /\ (refused # {} => ReachesCycle(target, uses))

(* What is opened is reached from the target; what is open reaches no       *)
(* cycle, and nothing is closed while the target resolves.                  *)
ReachedInv ==
  /\ \A n \in Names : state[n] # "unopened" => n \in Reachable(target, uses)
  /\ \A n \in Names : state[n] \in {"open", "closed"} => ~ReachesCycle(n, uses)
  /\ phase = "resolving" => \A n \in Names : state[n] # "closed"

(* The first failure that did not come from outside is a cycle.             *)
FailedInv ==
  /\ outcome = "resolved" => ~ReachesCycle(target, uses)
  /\ faults = 0 /\ (outcome = "failed" \/ (phase = "resolving" /\ \E n \in Names : state[n] = "failed"))
     => ReachesCycle(target, uses)

ResolveInv ==
  ResolveTypeInv /\ AskedInv /\ OpenedInv /\ RunningInv /\ ReachedInv /\ FailedInv

(* The resolver that runs is one of a connection the target reaches.        *)
LEMMA ActiveReached ==
  ASSUME ResolveInv, NEW a \in Activities, Active(a)
  PROVE  /\ NameOf(a) \in Reachable(target, uses) /\ NameOf(a) \in Names
         /\ Uses(a) = uses[NameOf(a)] /\ Uses(a) \subseteq Names
         /\ a # Root => a = NameOf(a) /\ state[a] = "pending"
<1> USE DEF ResolveInv, ResolveTypeInv
<1>1. CASE a = Root
  BY <1>1, ReachesItself DEF Uses, NameOf
<1>2. CASE a # Root
  BY <1>2 DEF Uses, NameOf, Active, Activities, ReachedInv
<1> QED BY <1>1, <1>2

(* A sibling that is opened by the activity that runs goes on top of it.    *)
LEMMA PushChain ==
  ASSUME uses \in [Names -> SUBSET Names], target \in Names, NEW s \in Seq(Activities), Chain(s),
         NEW m \in Names, s # <<>> => m \in Uses(Head(s))
  PROVE  /\ <<m>> \o s \in Seq(Activities) /\ Chain(<<m>> \o s)
         /\ Range(<<m>> \o s) = {m} \cup Range(s)
<1> DEFINE t == <<m>> \o s
<1> USE NamesAssumption
<1>1. m \in Activities /\ NameOf(m) = m
  BY DEF Activities, NameOf
<1>2. t \in Seq(Activities) /\ Len(t) = Len(s) + 1 /\ Len(s) \in Nat /\ t[1] = m
      /\ DOMAIN t = 1..(Len(s) + 1) /\ DOMAIN s = 1..Len(s)
  BY <1>1
<1>3. \A i \in 1..Len(s) : t[i + 1] = s[i] /\ i + 1 \in 1..(Len(s) + 1)
  BY <1>1
<1>4. \A i \in 1..(Len(s) + 1) : i = 1 \/ (i - 1 \in 1..Len(s) /\ t[i] = s[i - 1])
  BY <1>1
<1>5. \A a \in Activities : NameOf(a) \in Names
  BY DEF Activities, NameOf
<1>6. \A i \in 1..Len(s) : s[i] \in Activities /\ s[i] \in Range(s)
  BY DEF Range
<1>7. ASSUME NEW j \in 1..Len(s) PROVE m \in Reachable(NameOf(s[j]), uses)
  <2>1. s # <<>> /\ Head(s) = s[1] /\ 1 \in 1..Len(s) /\ 1 <= j
    BY <1>7
  <2>2. NameOf(s[1]) \in Reachable(NameOf(s[j]), uses)
    BY <2>1 DEF Chain
  <2>3. m \in uses[NameOf(s[1])]
    BY <2>1 DEF Uses
  <2>4. NameOf(s[j]) \in Names
    BY <1>5, <1>6
  <2> QED BY <2>2, <2>3, <2>4, ReachesNext
<1> HIDE DEF t
<1>8. Chain(t)
  <2> SUFFICES ASSUME NEW i \in 1..(Len(s) + 1), NEW j \in 1..(Len(s) + 1), i <= j
               PROVE  NameOf(t[i]) \in Reachable(NameOf(t[j]), uses)
    BY <1>2 DEF Chain
  <2>1. CASE j = 1
    <3>1. t[i] = m /\ t[j] = m
      BY <2>1, <1>2
    <3> QED BY <3>1, <1>1, ReachesItself
  <2>2. CASE j # 1 /\ i = 1
    <3>1. j - 1 \in 1..Len(s) /\ t[j] = s[j - 1] /\ t[i] = m
      BY <2>2, <1>2, <1>4
    <3> QED BY <3>1, <1>1, <1>7
  <2>3. CASE j # 1 /\ i # 1
    <3>1. /\ i - 1 \in 1..Len(s) /\ t[i] = s[i - 1]
          /\ j - 1 \in 1..Len(s) /\ t[j] = s[j - 1] /\ i - 1 <= j - 1
      BY <2>3, <1>4
    <3> QED BY <3>1 DEF Chain
  <2> QED BY <2>1, <2>2, <2>3
<1>9. Range(t) \subseteq {m} \cup Range(s)
  <2> SUFFICES ASSUME NEW i \in 1..(Len(s) + 1) PROVE t[i] \in {m} \cup Range(s)
    BY <1>2 DEF Range
  <2> QED BY <1>2, <1>4, <1>6
<1>10. {m} \cup Range(s) \subseteq Range(t)
  <2>1. 1 \in DOMAIN t
    BY <1>2
  <2>2. m \in Range(t)
    BY <2>1, <1>2 DEF Range
  <2>3. ASSUME NEW i \in 1..Len(s) PROVE s[i] \in Range(t)
    <3>1. i + 1 \in DOMAIN t /\ t[i + 1] = s[i]
      BY <1>2, <1>3
    <3> QED BY <3>1 DEF Range
  <2>4. Range(s) \subseteq Range(t)
    BY <1>2, <2>3 DEF Range
  <2> QED BY <2>2, <2>4
<1> QED BY <1>2, <1>8, <1>9, <1>10 DEF t

(* The activity on top leaves the others as they are.                       *)
LEMMA TailChain ==
  ASSUME NEW s \in Seq(Activities), s # <<>>, Chain(s)
  PROVE  /\ Tail(s) \in Seq(Activities) /\ Chain(Tail(s)) /\ Head(s) \in Activities
         /\ Range(Tail(s)) \subseteq Range(s) /\ Range(s) \subseteq {Head(s)} \cup Range(Tail(s))
<1>1. /\ Tail(s) \in Seq(Activities) /\ DOMAIN Tail(s) = 1..(Len(s) - 1) /\ Len(s) > 0
      /\ Len(Tail(s)) = Len(s) - 1 /\ Len(s) \in Nat /\ DOMAIN s = 1..Len(s)
  BY Zenon, SMT
<1>2. \A i \in 1..(Len(s) - 1) : Tail(s)[i] = s[i + 1] /\ i + 1 \in 1..Len(s)
  OBVIOUS
<1>3. Head(s) = s[1] /\ s[1] \in Activities
  BY <1>1
<1>4. Chain(Tail(s))
  <2> SUFFICES ASSUME NEW i \in 1..(Len(s) - 1), NEW j \in 1..(Len(s) - 1), i <= j
               PROVE  NameOf(Tail(s)[i]) \in Reachable(NameOf(Tail(s)[j]), uses)
    BY <1>1 DEF Chain
  <2>1. i + 1 \in 1..Len(s) /\ j + 1 \in 1..Len(s) /\ i + 1 <= j + 1
    BY <1>1
  <2> QED BY <2>1, <1>2 DEF Chain
<1>5. Range(Tail(s)) \subseteq Range(s)
  BY <1>1, <1>2 DEF Range
<1>6. ASSUME NEW i \in 1..Len(s), i # 1 PROVE s[i] \in Range(Tail(s))
  <2>1. i - 1 \in 1..(Len(s) - 1) /\ Tail(s)[i - 1] = s[i]
    BY <1>1, <1>2, <1>6
  <2> QED BY <2>1, <1>1 DEF Range
<1>7. Range(s) \subseteq {Head(s)} \cup Range(Tail(s))
  BY <1>1, <1>3, <1>6 DEF Range
<1> QED BY <1>1, <1>3, <1>4, <1>5, <1>7

(* A query opens a sibling at most: it is in the list, or runs.             *)
LEMMA AskKeeps ==
  ASSUME ResolveInv, NEW a \in Activities, Ask(a)
  PROVE  ResolveInv'
<1> USE NamesAssumption
<1>1. PICK m \in Uses(a) \ asked[a] :
        /\ state' = IF New(m) THEN [state EXCEPT ![m] = Opened(m)] ELSE state
        /\ opened' = IF New(m) /\ KeptAtOnce(m) THEN Append(opened, m) ELSE opened
        /\ stack' = (IF Runs(m) THEN <<m>> ELSE <<>>) \o
                    (IF stack = <<>> /\ Together(a) THEN <<a>> ELSE stack)
        /\ refused' = IF Opening(m) THEN refused \cup {a} ELSE refused
        /\ asked' = [asked EXCEPT ![a] = @ \cup {m}]
  BY DEF Ask
<1>2. Active(a) /\ Turn(a) /\ target' = target /\ uses' = uses /\ phase' = phase
      /\ outcome' = outcome /\ faults' = faults
  BY DEF Ask, config
<1>3. /\ target \in Names /\ uses \in [Names -> SUBSET Names] /\ opened \in Seq(Names)
      /\ stack \in Seq(Activities) /\ Chain(stack) /\ refused \subseteq Activities
      /\ state \in [Names -> {"unopened", "pending", "open", "failed", "closed"}]
      /\ asked \in [Activities -> SUBSET Names] /\ IsInjective(opened)
  BY DEF ResolveInv, ResolveTypeInv, RunningInv, OpenedInv
<1>4. /\ NameOf(a) \in Reachable(target, uses) /\ NameOf(a) \in Names /\ Uses(a) = uses[NameOf(a)]
      /\ Uses(a) \subseteq Names /\ (a # Root => a \in Names /\ state[a] = "pending")
  BY <1>2, ActiveReached
<1>5. m \in Names /\ m \in uses[NameOf(a)] /\ m \in Reachable(target, uses)
  BY <1>3, <1>4, ReachesNext
<1>6. phase # "settled"
  BY <1>2, <1>4 DEF Active, ResolveInv, OpenedInv
<1> DEFINE under == IF stack = <<>> /\ Together(a) THEN <<a>> ELSE stack
<1>7. /\ under \in Seq(Activities) /\ Chain(under) /\ (under # <<>> => m \in Uses(Head(under)))
      /\ Range(stack) \subseteq Range(under)
      /\ \A n \in Names : n \in Range(under) => n \in Range(stack) \/ n = a
  <2>1. CASE stack = <<>> /\ Together(a)
    <3>1. under = <<a>> /\ Len(<<a>>) = 1 /\ <<a>>[1] = a /\ Head(<<a>>) = a /\ <<a>> \in Seq(Activities)
      BY <2>1
    <3>2. Chain(<<a>>)
      BY <3>1, <1>3, <1>4, ReachesItself DEF Chain
    <3>3. Range(<<a>>) = {a} /\ Range(stack) = {}
      BY <2>1 DEF Range
    <3> QED BY <3>1, <3>2, <3>3
  <2>2. CASE ~(stack = <<>> /\ Together(a))
    <3>1. under = stack /\ (stack # <<>> => Head(stack) = a)
      BY <2>2, <1>2 DEF Turn
    <3> QED BY <3>1, <1>3
  <2> QED BY <2>1, <2>2
<1>8. /\ stack' \in Seq(Activities) /\ Chain(stack')
      /\ Range(stack') = IF Runs(m) THEN {m} \cup Range(under) ELSE Range(under)
  <2>0. stack' = (IF Runs(m) THEN <<m>> ELSE <<>>) \o under
    BY <1>1
  <2> HIDE DEF under
  <2>1. CASE Runs(m)
    <3>1. stack' = <<m>> \o under
      BY <2>0, <2>1
    <3> QED BY <3>1, <2>1, <1>3, <1>5, <1>7, PushChain
  <2>2. CASE ~Runs(m)
    <3>1. stack' = under
      BY <2>0, <2>2, <1>7
    <3> QED BY <3>1, <2>2, <1>7
  <2> QED BY <2>1, <2>2
<1>9. Chain(stack)'
  BY <1>2, <1>8 DEF Chain, NameOf
<1>10. /\ opened' \in Seq(Names) /\ IsInjective(opened')
       /\ Range(opened') = IF New(m) /\ ~Runs(m) THEN Range(opened) \cup {m} ELSE Range(opened)
  <2>1. CASE New(m) /\ ~Runs(m)
    <3>1. m \notin Range(opened)
      BY <2>1, <1>5 DEF New, ResolveInv, OpenedInv
    <3> QED BY <3>1, <2>1, <1>1, <1>3, <1>5, AppendNew DEF KeptAtOnce
  <2>2. CASE ~(New(m) /\ ~Runs(m))
    BY <2>2, <1>1, <1>3 DEF KeptAtOnce
  <2> QED BY <2>1, <2>2
<1>11. /\ \A n \in Names : n # m \/ ~New(m) => state'[n] = state[n]
       /\ New(m) => state'[m] = IF m = target /\ phase = "resolving" THEN "failed" ELSE "pending"
       /\ state' \in [Names -> {"unopened", "pending", "open", "failed", "closed"}]
  BY <1>1, <1>3, <1>5 DEF Opened, New
<1>12. Opening(m) => ReachesCycle(target, uses)
  <2> SUFFICES ASSUME Opening(m) PROVE ReachesCycle(target, uses)
    OBVIOUS
  <2>1. m \in Range(stack)
    BY <1>5 DEF Opening, ResolveInv, OpenedInv
  <2>2. PICK j \in 1..Len(stack) : stack[j] = m
    BY <2>1, <1>3 DEF Range
  <2>3. stack # <<>> /\ Head(stack) = a /\ Head(stack) = stack[1] /\ 1 \in 1..Len(stack) /\ 1 <= j
    BY <2>2, <1>2, <1>3 DEF Turn
  <2>4. NameOf(a) \in Reachable(m, uses)
    BY <2>2, <2>3, <1>3, <1>5 DEF Chain, NameOf
  <2> QED BY <2>4, <1>3, <1>4, <1>5, CycleClosed
<1>13. ResolveTypeInv'
  <2>1. asked' \in [Activities -> SUBSET Names] /\ refused' \subseteq Activities
    BY <1>1, <1>3, <1>5
  <2> QED BY <2>1, <1>2, <1>3, <1>8, <1>10, <1>11 DEF ResolveInv, ResolveTypeInv, Activities
<1>14. AskedInv'
  BY <1>1, <1>2, <1>3 DEF ResolveInv, AskedInv, Uses, NameOf
<1>15. OpenedInv'
  <2>1. \A n \in Names : state'[n] = "unopened" => n \notin Range(opened') \cup Range(stack')
    <3> SUFFICES ASSUME NEW n \in Names, state'[n] = "unopened"
                 PROVE  n \notin Range(opened') /\ n \notin Range(stack')
      OBVIOUS
    <3>1. state[n] = "unopened" /\ (n = m => ~New(m))
      BY <1>11
    <3>2. n # m /\ n # a
      BY <3>1, <1>4, <1>5 DEF New
    <3>3. n \notin Range(opened) /\ n \notin Range(stack)
      BY <3>1 DEF ResolveInv, OpenedInv
    <3>4. n \notin Range(under)
      BY <1>7, <3>2, <3>3
    <3> HIDE DEF under
    <3> QED BY <3>2, <3>3, <3>4, <1>8, <1>10
  <2>2. \A n \in Names : state'[n] \in {"pending", "open"} => n \in Range(opened') \cup Range(stack')
    <3> SUFFICES ASSUME NEW n \in Names, state'[n] \in {"pending", "open"}
                 PROVE  n \in Range(opened') \cup Range(stack')
      OBVIOUS
    <3> HIDE DEF under
    <3>1. CASE n = m /\ New(m)
      BY <3>1, <1>8, <1>10
    <3>2. CASE ~(n = m /\ New(m))
      <4>1. state[n] = state'[n]
        BY <3>2, <1>11
      <4>2. n \in Range(opened) \cup Range(stack)
        BY <4>1 DEF ResolveInv, OpenedInv
      <4> QED BY <4>2, <1>7, <1>8, <1>10
    <3> QED BY <3>1, <3>2
  <2> QED BY <2>1, <2>2, <1>2, <1>6, <1>10 DEF OpenedInv
<1>16. RunningInv'
  <2>1. refused' # {} => ReachesCycle(target, uses)
    BY <1>1, <1>12 DEF ResolveInv, RunningInv
  <2> QED BY <2>1, <1>2, <1>9 DEF RunningInv
<1>17. ReachedInv'
  BY <1>2, <1>5, <1>11 DEF ResolveInv, ReachedInv, New
<1>18. FailedInv'
  <2>1. ASSUME target = m PROVE ReachesCycle(target, uses)
    BY <2>1, <1>3, <1>4, <1>5, CycleClosed
  <2> QED BY <1>2, <1>5, <1>11, <2>1 DEF ResolveInv, FailedInv
<1> QED BY <1>13, <1>14, <1>15, <1>16, <1>17, <1>18 DEF ResolveInv

(* The call that opens a sibling puts it into the list as it returns.       *)
LEMMA ReturnKeeps ==
  ASSUME ResolveInv, NEW a \in Activities, Return(a)
  PROVE  ResolveInv'
<1> USE NamesAssumption
<1>1. /\ stack # <<>> /\ a = Head(stack) /\ stack' = Tail(stack)
      /\ opened' = IF a = Root \/ a \in Range(opened) THEN opened ELSE Append(opened, a)
      /\ target' = target /\ uses' = uses /\ state' = state /\ refused' = refused
      /\ asked' = asked /\ phase' = phase /\ outcome' = outcome /\ faults' = faults
  BY DEF Return, config
<1>2. /\ opened \in Seq(Names) /\ stack \in Seq(Activities) /\ Chain(stack) /\ IsInjective(opened)
  BY DEF ResolveInv, ResolveTypeInv, RunningInv, OpenedInv
<1>3. /\ stack' \in Seq(Activities) /\ Chain(stack')
      /\ Range(stack') \subseteq Range(stack) /\ Range(stack) \subseteq {a} \cup Range(stack')
      /\ a \in Range(stack)
  <2>1. 1 \in DOMAIN stack /\ Head(stack) = stack[1]
    BY <1>1, <1>2
  <2>2. a \in Range(stack)
    BY <2>1, <1>1 DEF Range
  <2> QED BY <2>2, <1>1, <1>2, TailChain
<1>4. Chain(stack)'
  BY <1>1, <1>3 DEF Chain, NameOf
<1>5. /\ opened' \in Seq(Names) /\ IsInjective(opened')
      /\ Range(opened') = Range(opened) \cup ({a} \cap Names)
  <2>1. CASE a = Root \/ a \in Range(opened)
    <3>1. Range(opened) \subseteq Names
      BY <1>2 DEF Range
    <3> QED BY <2>1, <3>1, <1>1, <1>2
  <2>2. CASE a # Root /\ a \notin Range(opened)
    <3>1. a \in Names
      BY <2>2 DEF Activities
    <3> QED BY <3>1, <2>2, <1>1, <1>2, AppendNew
  <2> QED BY <2>1, <2>2
<1>6. ResolveTypeInv' /\ AskedInv' /\ RunningInv' /\ ReachedInv' /\ FailedInv'
  BY <1>1, <1>3, <1>4, <1>5
     DEF ResolveInv, ResolveTypeInv, AskedInv, RunningInv, ReachedInv, FailedInv, Uses, NameOf, Activities
<1>7. OpenedInv'
  BY <1>1, <1>3, <1>5 DEF ResolveInv, OpenedInv
<1> QED BY <1>6, <1>7 DEF ResolveInv

(* What resolves has had all it queries resolved, none of which reaches a   *)
(* cycle.                                                                   *)
LEMMA DoneKeeps ==
  ASSUME ResolveInv, NEW a \in Activities, Done(a)
  PROVE  ResolveInv'
<1> USE NamesAssumption
<1>1. Active(a) /\ target' = target /\ uses' = uses /\ opened' = opened /\ asked' = asked
      /\ faults' = faults /\ stack' = stack /\ refused' = refused
  BY DEF Done, config
<1>2. PICK k \in Reachable(target, uses) :
        Uses(a) = uses[k] /\ k \in Names /\ (a # Root => k = a) /\ (a = Root => k = target)
  BY <1>1, ActiveReached DEF NameOf
<1>3. \A m \in uses[k] : ~ReachesCycle(m, uses)
  BY <1>2 DEF Done, ResolveInv, ResolveTypeInv, ReachedInv
<1>4. ~ReachesCycle(k, uses)
  BY <1>2, <1>3, NoCycleThrough DEF ResolveInv, ResolveTypeInv
<1>5. AskedInv' /\ RunningInv'
  BY <1>1 DEF ResolveInv, AskedInv, RunningInv, Chain, Uses, NameOf
<1>6. CASE a = Root
  <2>1. phase' = "closing" /\ outcome' = "resolved" /\ state' = state /\ phase = "resolving"
    BY <1>1, <1>6 DEF Done, Active
  <2>2. ~ReachesCycle(target, uses)
    BY <1>6, <1>2, <1>4
  <2> QED BY <1>1, <1>5, <2>1, <2>2
      DEF ResolveInv, ResolveTypeInv, OpenedInv, ReachedInv, FailedInv, Phases, Outcomes, Activities
<1>7. CASE a # Root
  <2>1. /\ a \in Names /\ state[a] = "pending" /\ state' = [state EXCEPT ![a] = "open"]
        /\ phase' = phase /\ outcome' = outcome
    BY <1>1, <1>7 DEF Done, Active, Activities
  <2>2. ~ReachesCycle(a, uses)
    BY <1>2, <1>4, <1>7
  <2> QED BY <1>1, <1>5, <2>1, <2>2
      DEF ResolveInv, ResolveTypeInv, OpenedInv, ReachedInv, FailedInv, Activities
<1> QED BY <1>6, <1>7

(* A resolver fails because something it asked for has failed, or from      *)
(* outside.                                                                 *)
LEMMA ThrowKeeps ==
  ASSUME ResolveInv, NEW a \in Activities, Active(a), Throw(a), faults' \in Nat,
         phase = "resolving" /\ faults' = 0 => ReachesCycle(target, uses),
         faults' = 0 => faults = 0
  PROVE  ResolveInv'
<1> USE NamesAssumption
<1>1. /\ target' = target /\ uses' = uses /\ opened' = opened /\ asked' = asked
      /\ stack' = stack /\ refused' = refused
  BY DEF Throw, config
<1>2. AskedInv' /\ RunningInv'
  BY <1>1 DEF ResolveInv, AskedInv, RunningInv, Chain, Uses, NameOf
<1>3. CASE a = Root
  <2>1. phase' = "closing" /\ outcome' = "failed" /\ state' = state /\ phase = "resolving"
    BY <1>3 DEF Throw, Active
  <2> QED BY <1>1, <1>2, <2>1
      DEF ResolveInv, ResolveTypeInv, OpenedInv, ReachedInv, FailedInv, Phases, Outcomes, Activities
<1>4. CASE a # Root
  <2>1. /\ a \in Names /\ state[a] = "pending" /\ state' = [state EXCEPT ![a] = "failed"]
        /\ phase' = phase /\ outcome' = outcome
    BY <1>4 DEF Throw, Active, Activities
  <2> QED BY <1>1, <1>2, <2>1
      DEF ResolveInv, ResolveTypeInv, OpenedInv, ReachedInv, FailedInv, Activities
<1> QED BY <1>3, <1>4

(* The first of the list is closed, and leaves it (closeOpened).            *)
LEMMA CloseKeeps ==
  ASSUME ResolveInv, Close
  PROVE  ResolveInv'
<1>1. /\ phase = "closing" /\ opened # <<>> /\ stack = <<>> /\ stack' = stack /\ refused' = refused
      /\ state[Head(opened)] # "pending"
      /\ state' = [state EXCEPT ![Head(opened)] = IF @ = "open" THEN "closed" ELSE @]
      /\ opened' = Tail(opened)
      /\ target' = target /\ uses' = uses /\ asked' = asked /\ phase' = phase
      /\ outcome' = outcome /\ faults' = faults
  BY DEF Close, config
<1>2. Head(opened) \in Names
  BY <1>1 DEF ResolveInv, ResolveTypeInv
<1>3. /\ opened' \in Seq(Names) /\ IsInjective(opened')
      /\ Range(opened') = Range(opened) \ {Head(opened)}
  BY <1>1, TailOfDistinct DEF ResolveInv, ResolveTypeInv, OpenedInv
<1>4. ResolveTypeInv'
  BY <1>1, <1>2, <1>3 DEF ResolveInv, ResolveTypeInv, Activities
<1>5. AskedInv' /\ RunningInv'
  BY <1>1 DEF ResolveInv, AskedInv, RunningInv, Chain, Uses, NameOf
<1>6. OpenedInv'
  <2>1. Range(stack) = {}
    BY <1>1 DEF Range
  <2> QED BY <2>1, <1>1, <1>2, <1>3 DEF ResolveInv, ResolveTypeInv, OpenedInv
<1>7. ReachedInv' /\ FailedInv'
  BY <1>1, <1>2 DEF ResolveInv, ResolveTypeInv, ReachedInv, FailedInv
<1> QED BY <1>4, <1>5, <1>6, <1>7 DEF ResolveInv

(* The resolution settles with an empty list, so that nothing is open or    *)
(* opening.                                                                 *)
LEMMA SettleKeeps ==
  ASSUME ResolveInv, Settle
  PROVE  ResolveInv'
<1>1. /\ phase = "closing" /\ opened = <<>> /\ stack = <<>> /\ phase' = "settled"
      /\ stack' = stack /\ refused' = refused
      /\ target' = target /\ uses' = uses /\ asked' = asked /\ state' = state
      /\ outcome' = outcome /\ faults' = faults /\ opened' = opened
  BY DEF Settle, config
<1>2. Range(opened) = {} /\ Range(stack) = {}
  BY <1>1 DEF Range
<1>3. AskedInv' /\ RunningInv'
  BY <1>1 DEF ResolveInv, AskedInv, RunningInv, Chain, Uses, NameOf
<1> QED BY <1>1, <1>2, <1>3
    DEF ResolveInv, ResolveTypeInv, OpenedInv, ReachedInv, FailedInv, Activities, Phases

(* Each step of the runtime resolver.                                       *)
LEMMA ResolveInvStep ==
  ASSUME ResolveInv, [Next]_vars
  PROVE  ResolveInv'
<1>1. ASSUME NEW a \in Activities, Ask(a) PROVE ResolveInv'
  BY <1>1, AskKeeps
<1>2. ASSUME NEW a \in Activities, Done(a) PROVE ResolveInv'
  BY <1>2, DoneKeeps
<1>3. ASSUME NEW a \in Activities, Reject(a) PROVE ResolveInv'
  <2>1. a \in refused => ReachesCycle(target, uses)
    BY DEF ResolveInv, RunningInv
  <2>2. ASSUME NEW m \in asked[a], state[m] \in {"failed", "closed"},
               phase = "resolving", faults = 0
        PROVE  ReachesCycle(target, uses)
    <3>1. m \in Names
      BY <2>2 DEF ResolveInv, ResolveTypeInv
    <3> QED BY <2>2, <3>1 DEF ResolveInv, ReachedInv, FailedInv
  <2>3. phase = "resolving" /\ faults = 0 => ReachesCycle(target, uses)
    BY <1>3, <2>1, <2>2 DEF Reject
  <2> QED BY <1>3, <2>3, ThrowKeeps DEF Reject, ResolveInv, ResolveTypeInv
<1>4. ASSUME NEW a \in Activities, Fault(a) PROVE ResolveInv'
  <2>1. Active(a) /\ Throw(a) /\ faults' = faults + 1 /\ faults' \in Nat /\ faults' # 0
    BY <1>4 DEF Fault, ResolveInv, ResolveTypeInv
  <2> QED BY <2>1, ThrowKeeps
<1>5. CASE UNCHANGED vars
  BY <1>5 DEF vars, config, ResolveInv, ResolveTypeInv, AskedInv, OpenedInv, RunningInv, Chain,
     ReachedInv, FailedInv, Uses, NameOf, Activities
<1> QED BY <1>1, <1>2, <1>3, <1>4, <1>5, ReturnKeeps, CloseKeeps, SettleKeeps DEF Next, Step

-----------------------------------------------------------------------------
(* The resolver of the CLI.                                                 *)

CommandTypeInv ==
  /\ graph \in [Names -> SUBSET Names]
  /\ todo \in Seq(Names)
  /\ sibling \in [Names -> {"unopened", "resolving", "open", "closed"}]
  /\ got \in [Activities -> SUBSET Names]
  /\ waits \in [Activities -> SUBSET Names]
  /\ broken \subseteq Activities
  /\ command \in Phases
  /\ answer \in Outcomes
  /\ breaks \in Nat
  /\ command = "resolving" => todo # <<>>

(* What answered is open, and what is open reaches no cycle.                *)
AnsweredInv ==
  /\ \A a \in Activities : \A n \in got[a] : sibling[n] \in {"open", "closed"}
  /\ \A n \in Names : sibling[n] \in {"open", "closed"} => ~ReachesCycle(n, graph)

(* The resolvers that run, by rank, are a stack: the target's is at the     *)
(* bottom, each reaches those above it, one that waits for nothing is at    *)
(* the top, and one that waits for a sibling is right below it.             *)
IsStack(rank) ==
  \A a, c \in Activities : CLI!Active(a) /\ CLI!Active(c) =>
    /\ rank[a] = rank[c] => a = c
    /\ rank[Root] <= rank[a]
    /\ rank[c] <= rank[a] => CLI!NameOf(a) \in Reachable(CLI!NameOf(c), graph)
    /\ waits[a] = {} => rank[c] <= rank[a]
    /\ \A n \in waits[a] :
         /\ sibling[n] = "resolving"
         /\ rank[a] < rank[n]
         /\ rank[c] <= rank[a] \/ rank[n] <= rank[c]

(* If every resolver asks for one sibling at a time, those that run are a   *)
(* stack, and there is none once the targets are resolved.                  *)
StackInv ==
  atOnce = {} =>
    /\ command # "resolving" => \A n \in Names : sibling[n] # "resolving"
    /\ command = "settled" => \A n \in Names : sibling[n] # "open"
    /\ \A a \in Activities : ~CLI!Active(a) => waits[a] = {} /\ (a \in broken => a = Root)
    /\ \A a \in broken : waits[a] = {}
    /\ \A a \in Activities : waits[a] \subseteq CLI!Uses(a) \ got[a]
    /\ \A a \in Activities : \A m, n \in waits[a] : m = n
    /\ \E rank \in [Activities -> Nat] : IsStack(rank)

(* The first error that did not come from outside is a cycle.               *)
BrokenInv ==
  atOnce = {} /\ breaks = 0 /\ broken # {} => ReachesCycle(Head(todo), graph)

CommandInv == CommandTypeInv /\ AnsweredInv /\ StackInv /\ BrokenInv

(* The resolver that runs is one of a connection.                           *)
LEMMA ActiveNamed ==
  ASSUME CommandInv, NEW a \in Activities, CLI!Active(a)
  PROVE  CLI!NameOf(a) \in Names /\ CLI!Uses(a) = graph[CLI!NameOf(a)]
<1>1. CASE a = Root
  BY <1>1 DEF CommandInv, CommandTypeInv, CLI!Active, CLI!NameOf, CLI!Uses
<1>2. CASE a # Root
  BY <1>2 DEF Activities, CLI!NameOf, CLI!Uses
<1> QED BY <1>1, <1>2

(* If the resolver at the top ends, the others are a stack.                 *)
LEMMA TopEnds ==
  ASSUME CommandInv, NEW rank \in [Activities -> Nat], IsStack(rank),
         NEW n \in Names, sibling[n] = "resolving", waits[n] = {},
         NEW v, v # "resolving", sibling' = [sibling EXCEPT ![n] = v],
         \A a \in Activities : waits'[a] = waits[a] \ {n},
         graph' = graph, todo' = todo, command' = command
  PROVE  IsStack(rank)'
<1> USE NamesAssumption
<1>1. n \in Activities /\ n # Root /\ CLI!Active(n)
  BY DEF Activities, CLI!Active
<1>2. \A a \in Activities : CLI!NameOf(a)' = CLI!NameOf(a)
  BY DEF CLI!NameOf
<1>3. \A a \in Activities : CLI!Active(a)' => CLI!Active(a) /\ a # n
  BY <1>1 DEF CLI!Active, Activities, CommandInv, CommandTypeInv
<1> SUFFICES ASSUME NEW a \in Activities, NEW c \in Activities,
                    CLI!Active(a)', CLI!Active(c)'
             PROVE  /\ rank[a] = rank[c] => a = c
                    /\ rank[Root] <= rank[a]
                    /\ rank[c] <= rank[a] => CLI!NameOf(a) \in Reachable(CLI!NameOf(c), graph)
                    /\ waits'[a] = {} => rank[c] <= rank[a]
                    /\ \A m \in waits'[a] :
                         /\ sibling'[m] = "resolving"
                         /\ rank[a] < rank[m]
                         /\ rank[c] <= rank[a] \/ rank[m] <= rank[c]
  BY <1>2 DEF IsStack
<1>4. /\ rank[a] = rank[c] => a = c
      /\ rank[Root] <= rank[a]
      /\ rank[c] <= rank[a] => CLI!NameOf(a) \in Reachable(CLI!NameOf(c), graph)
  BY <1>3 DEF IsStack
<1>5. ASSUME waits'[a] = {} PROVE rank[c] <= rank[a]
  <2>1. CASE waits[a] = {}
    BY <2>1, <1>3 DEF IsStack
  <2>2. CASE waits[a] # {}
    <3>1. n \in waits[a]
      BY <2>2, <1>5
    <3>2. rank[c] <= rank[a] \/ rank[n] <= rank[c]
      BY <3>1, <1>3 DEF IsStack
    <3>3. rank[c] <= rank[n] /\ (rank[c] = rank[n] => c = n)
      BY <1>1, <1>3 DEF IsStack
    <3> QED BY <3>2, <3>3, <1>1, <1>3
  <2> QED BY <2>1, <2>2
<1>6. ASSUME NEW m \in waits'[a]
      PROVE  /\ sibling'[m] = "resolving"
             /\ rank[a] < rank[m]
             /\ rank[c] <= rank[a] \/ rank[m] <= rank[c]
  <2>1. m \in waits[a] /\ m # n
    OBVIOUS
  <2>2. m \in Names
    BY <2>1 DEF CommandInv, CommandTypeInv
  <2> QED BY <2>1, <2>2, <1>3 DEF IsStack, CommandInv, CommandTypeInv
<1> QED BY <1>4, <1>5, <1>6

(* If the resolver at the top opens a sibling it queries, they are one.     *)
LEMMA TopOpens ==
  ASSUME CommandInv, NEW rank \in [Activities -> Nat], IsStack(rank),
         NEW a \in Activities, CLI!Active(a), waits[a] = {},
         CLI!NameOf(a) \in Names, NEW n \in graph[CLI!NameOf(a)],
         sibling[n] = "unopened", waits[n] = {},
         sibling' = [sibling EXCEPT ![n] = "resolving"],
         waits' = [waits EXCEPT ![a] = {n}],
         graph' = graph, todo' = todo, command' = command
  PROVE  IsStack([rank EXCEPT ![n] = rank[a] + 1])'
<1> USE NamesAssumption
<1> DEFINE above == [rank EXCEPT ![n] = rank[a] + 1]
<1>1. n \in Names /\ n \in Activities /\ n # Root /\ ~CLI!Active(n) /\ n # a
  BY DEF Activities, CLI!Active, CommandInv, CommandTypeInv
<1>2. \A b \in Activities : CLI!NameOf(b)' = CLI!NameOf(b)
  BY DEF CLI!NameOf
<1>3. CLI!NameOf(n) = n
  BY <1>1 DEF CLI!NameOf
<1>4. \A b \in Activities : CLI!Active(b)' => CLI!Active(b) \/ b = n
  BY <1>1 DEF CLI!Active, Activities, CommandInv, CommandTypeInv
<1>5. /\ above[n] = rank[a] + 1 /\ above[a] = rank[a]
      /\ \A b \in Activities : b # n => above[b] = rank[b]
      /\ \A b \in Activities : above[b] \in Nat /\ rank[b] \in Nat
      /\ above[Root] = rank[Root] /\ Root \in Activities
  BY <1>1 DEF Activities
<1>6. \A b \in Activities : CLI!Active(b) => rank[b] <= rank[a]
  BY DEF IsStack
<1>7. rank[Root] <= rank[a]
  BY DEF IsStack
<1>8. waits'[n] = {} /\ waits'[a] = {n} /\ \A b \in Activities : b # a => waits'[b] = waits[b]
  BY <1>1 DEF CommandInv, CommandTypeInv
<1>9. \A b \in Activities : CLI!Active(b) => n \in Reachable(CLI!NameOf(b), graph)
  <2> TAKE b \in Activities
  <2> HAVE CLI!Active(b)
  <2>1. CLI!NameOf(a) \in Reachable(CLI!NameOf(b), graph)
    BY <1>6 DEF IsStack
  <2>2. CLI!NameOf(b) \in Names
    BY DEF CLI!NameOf, CLI!Active, Activities, CommandInv, CommandTypeInv
  <2> QED BY <2>1, <2>2, ReachesNext DEF CommandInv, CommandTypeInv
<1> SUFFICES ASSUME NEW b \in Activities, NEW c \in Activities,
                    CLI!Active(b)', CLI!Active(c)'
             PROVE  /\ above[b] = above[c] => b = c
                    /\ above[Root] <= above[b]
                    /\ above[c] <= above[b] => CLI!NameOf(b) \in Reachable(CLI!NameOf(c), graph)
                    /\ waits'[b] = {} => above[c] <= above[b]
                    /\ \A m \in waits'[b] :
                         /\ sibling'[m] = "resolving"
                         /\ above[b] < above[m]
                         /\ above[c] <= above[b] \/ above[m] <= above[c]
  BY <1>2 DEF IsStack
<1> HIDE DEF above
<1>10. CASE b = n
  <2>1. above[c] <= above[n] /\ (above[c] = above[n] => c = n)
    BY <1>4, <1>5, <1>6
  <2>2. CLI!NameOf(c) \in Names
    BY <1>1, <1>3, <1>4 DEF CLI!NameOf, CLI!Active, Activities, CommandInv, CommandTypeInv
  <2>3. n \in Reachable(CLI!NameOf(c), graph)
    BY <1>3, <1>4, <1>9, <2>2, ReachesItself DEF CommandInv, CommandTypeInv
  <2> QED BY <1>3, <1>5, <1>7, <1>8, <1>10, <2>1, <2>3
<1>11. CASE b # n /\ c = n
  <2>1. CLI!Active(b)
    BY <1>4, <1>11
  <2>2. above[b] = rank[b] /\ above[n] = rank[a] + 1 /\ rank[b] <= rank[a] /\ rank[a] \in Nat
        /\ rank[b] \in Nat /\ rank[Root] <= rank[b]
    BY <1>5, <1>6, <1>11, <2>1 DEF IsStack
  <2>3. b = a \/ waits[b] # {}
    BY <1>5, <1>6, <2>1 DEF IsStack
  <2>4. \A m \in waits'[b] : /\ sibling'[m] = "resolving"
                             /\ above[b] < above[m]
                             /\ above[n] <= above[b] \/ above[m] <= above[n]
    <3>1. CASE b = a
      BY <3>1, <1>1, <1>5, <1>8, <2>2 DEF CommandInv, CommandTypeInv
    <3>2. CASE b # a
      <4> TAKE m \in waits'[b]
      <4>1. m \in waits[b] /\ m \in Names
        BY <3>2, <1>8 DEF CommandInv, CommandTypeInv
      <4>2. sibling[m] = "resolving" /\ rank[b] < rank[m]
        BY <4>1, <2>1 DEF IsStack
      <4>3. m # n /\ m \in Activities /\ CLI!Active(m)
        BY <4>1, <4>2 DEF CLI!Active, Activities
      <4> QED BY <4>1, <4>2, <4>3, <2>2, <1>5, <1>6 DEF CommandInv, CommandTypeInv
    <3> QED BY <3>1, <3>2
  <2> QED BY <2>2, <2>3, <2>4, <1>5, <1>8, <1>11
<1>12. CASE b # n /\ c # n
  <2>1. CLI!Active(b) /\ CLI!Active(c) /\ above[b] = rank[b] /\ above[c] = rank[c]
    BY <1>4, <1>5, <1>12
  <2>2. /\ rank[b] = rank[c] => b = c
        /\ rank[Root] <= rank[b]
        /\ rank[c] <= rank[b] => CLI!NameOf(b) \in Reachable(CLI!NameOf(c), graph)
        /\ waits[b] = {} => rank[c] <= rank[b]
    BY <2>1 DEF IsStack
  <2>3. \A m \in waits'[b] : /\ sibling'[m] = "resolving"
                             /\ above[b] < above[m]
                             /\ above[c] <= above[b] \/ above[m] <= above[c]
    <3>1. CASE b = a
      BY <3>1, <1>1, <1>5, <1>6, <1>8, <2>1 DEF CommandInv, CommandTypeInv
    <3>2. CASE b # a
      <4> TAKE m \in waits'[b]
      <4>1. m \in waits[b] /\ m \in Names
        BY <3>2, <1>8 DEF CommandInv, CommandTypeInv
      <4>2. sibling[m] = "resolving" /\ rank[b] < rank[m] /\ (rank[c] <= rank[b] \/ rank[m] <= rank[c])
        BY <4>1, <2>1 DEF IsStack
      <4>3. m # n /\ m \in Activities
        BY <4>1, <4>2 DEF Activities
      <4> QED BY <4>1, <4>2, <4>3, <2>1, <1>5 DEF CommandInv, CommandTypeInv
    <3> QED BY <3>1, <3>2
  <2>4. waits'[b] = {} => above[c] <= above[b]
    BY <1>8, <2>1, <2>2
  <2> QED BY <1>5, <2>1, <2>2, <2>3, <2>4
<1> QED BY <1>10, <1>11, <1>12

(* What resolver a asks for next, in both cases of Queries.                 *)
LEMMA AskKeepsAnswers ==
  ASSUME CommandInv, NEW a \in Activities, CLI!Ask(a)
  PROVE  CommandTypeInv' /\ AnsweredInv'
<1>1. PICK S \in CLI!Queries(a) \ {{}} :
        /\ sibling' = [m \in Names |-> IF m \in CLI!New(S) THEN "resolving" ELSE sibling[m]]
        /\ got' = [m \in CLI!Activities |->
             IF m = a THEN got[a] \cup (S \ (CLI!New(S) \cup CLI!Refused(S)))
             ELSE IF m \in CLI!New(S) THEN {}
             ELSE got[m]]
        /\ waits' = [waits EXCEPT ![a] = CLI!New(S)]
        /\ broken' = (broken \ CLI!New(S)) \cup (IF CLI!Refused(S) # {} THEN {a} ELSE {})
  BY DEF CLI!Ask
<1>2. CLI!Active(a) /\ graph' = graph /\ todo' = todo /\ command' = command /\ answer' = answer
      /\ breaks' = breaks
  BY DEF CLI!Ask, CLI!config
<1>3. S \subseteq Names
  <2>1. CLI!Uses(a) \subseteq Names
    BY <1>2, ActiveNamed DEF CommandInv, CommandTypeInv
  <2> QED BY <2>1, <1>1 DEF CLI!Queries
<1>4. CLI!Activities = Activities
  BY DEF CLI!Activities, Activities
<1>5. \A m \in S \ (CLI!New(S) \cup CLI!Refused(S)) : sibling[m] \in {"open", "closed"}
  BY <1>3 DEF CLI!New, CLI!Refused, CommandInv, CommandTypeInv
<1>6. CommandTypeInv'
  BY <1>1, <1>2, <1>3, <1>4 DEF CommandInv, CommandTypeInv, CLI!New
<1>7. AnsweredInv'
  BY <1>1, <1>2, <1>3, <1>4, <1>5 DEF CommandInv, CommandTypeInv, AnsweredInv, CLI!New
<1> QED BY <1>6, <1>7

(* Asking for one sibling puts its resolver on top of the stack, or fails   *)
(* because it is in the stack: then there is a cycle.                       *)
LEMMA AskKeepsStack ==
  ASSUME CommandInv, NEW a \in Activities, CLI!Ask(a), atOnce = {}
  PROVE  StackInv' /\ BrokenInv'
<1> USE NamesAssumption
<1>1. PICK S \in CLI!Queries(a) \ {{}} :
        /\ sibling' = [m \in Names |-> IF m \in CLI!New(S) THEN "resolving" ELSE sibling[m]]
        /\ got' = [m \in CLI!Activities |->
             IF m = a THEN got[a] \cup (S \ (CLI!New(S) \cup CLI!Refused(S)))
             ELSE IF m \in CLI!New(S) THEN {}
             ELSE got[m]]
        /\ waits' = [waits EXCEPT ![a] = CLI!New(S)]
        /\ broken' = (broken \ CLI!New(S)) \cup (IF CLI!Refused(S) # {} THEN {a} ELSE {})
  BY DEF CLI!Ask
<1>2. /\ CLI!Active(a) /\ a \notin broken /\ waits[a] = {}
      /\ graph' = graph /\ atOnce' = atOnce /\ todo' = todo /\ command' = command
      /\ answer' = answer /\ breaks' = breaks
  BY DEF CLI!Ask, CLI!config
<1>3. CLI!NameOf(a) \in Names /\ CLI!Uses(a) = graph[CLI!NameOf(a)]
  BY <1>2, ActiveNamed
<1>4. PICK m \in CLI!Uses(a) \ got[a] : S = {m}
  BY <1>1 DEF CLI!Queries, CLI!Together
<1>5. m \in Names /\ m \in graph[CLI!NameOf(a)]
  BY <1>3, <1>4 DEF CommandInv, CommandTypeInv
<1>6. CLI!Activities = Activities
  BY DEF CLI!Activities, Activities
<1>7. PICK rank \in [Activities -> Nat] : IsStack(rank)
  BY DEF CommandInv, StackInv
<1>8. \A b \in Activities : CLI!NameOf(b)' = CLI!NameOf(b) /\ CLI!Uses(b)' = CLI!Uses(b)
  BY <1>2 DEF CLI!NameOf, CLI!Uses
<1>9. command = "resolving"
  BY <1>2 DEF CLI!Active, Activities, CommandInv, StackInv
<1>10. CASE sibling[m] = "unopened"
  <2>1. CLI!New(S) = {m} /\ CLI!Refused(S) = {}
    BY <1>4, <1>10 DEF CLI!New, CLI!Refused
  <2>2. /\ sibling' = [sibling EXCEPT ![m] = "resolving"]
        /\ waits' = [waits EXCEPT ![a] = {m}]
        /\ broken' = broken \ {m}
        /\ m # a /\ m # Root /\ m \in Activities
    BY <1>1, <1>2, <1>5, <1>10, <2>1 DEF CommandInv, CommandTypeInv, Activities, CLI!Active
  <2>3. \A b \in Activities : got'[b] = IF b = m THEN {} ELSE got[b]
    BY <1>1, <1>4, <1>6, <2>1, <2>2 DEF CommandInv, CommandTypeInv
  <2>4. ~CLI!Active(m) /\ waits[m] = {}
    BY <1>10, <2>2 DEF CLI!Active, CommandInv, StackInv
  <2>5. IsStack([rank EXCEPT ![m] = rank[a] + 1])'
    BY <1>2, <1>3, <1>5, <1>7, <1>10, <2>2, <2>4, TopOpens
  <2>6. [rank EXCEPT ![m] = rank[a] + 1] \in [Activities -> Nat]
    <3>1. rank[a] + 1 \in Nat
      BY <1>7
    <3> QED BY <1>7, <3>1
  <2>7. \A b \in Activities : ~CLI!Active(b)' => ~CLI!Active(b)
    BY <1>2, <1>5, <2>2 DEF CLI!Active, Activities, CommandInv, CommandTypeInv
  <2>8. \A b \in Activities : waits'[b] = IF b = a THEN {m} ELSE waits[b]
    BY <2>2 DEF CommandInv, CommandTypeInv
  <2>9. a \notin broken'
    BY <1>2, <2>2
  <2>10. \A b \in Activities : ~CLI!Active(b)' => waits'[b] = {} /\ (b \in broken' => b = Root)
    BY <1>2, <2>2, <2>7, <2>8 DEF CommandInv, StackInv
  <2>11. \A b \in broken' : waits'[b] = {}
    BY <2>2, <2>8, <2>9 DEF CommandInv, CommandTypeInv, StackInv
  <2>12. \A b \in Activities : waits'[b] \subseteq CLI!Uses(b)' \ got'[b]
    BY <1>4, <1>8, <2>2, <2>3, <2>4, <2>8 DEF CommandInv, StackInv
  <2>13. \A b \in Activities : \A j, k \in waits'[b] : j = k
    BY <2>8 DEF CommandInv, StackInv
  <2>14. StackInv'
    BY <1>2, <1>9, <2>5, <2>6, <2>10, <2>11, <2>12, <2>13 DEF StackInv
  <2> QED BY <1>2, <2>2, <2>14 DEF CommandInv, BrokenInv
<1>11. CASE sibling[m] # "unopened"
  <2>1. CLI!New(S) = {}
    BY <1>4, <1>11 DEF CLI!New
  <2>2. sibling' = sibling /\ waits' = waits
    BY <1>1, <1>2, <2>1 DEF CommandInv, CommandTypeInv
  <2>3. \A b \in Activities : CLI!Active(b)' = CLI!Active(b)
    BY <1>2, <2>2 DEF CLI!Active
  <2>4. IsStack(rank)'
    BY <1>2, <1>7, <1>8, <2>2, <2>3 DEF IsStack
  <2>5. \A b \in Activities : got'[b] = IF b = a THEN got[a] \cup (S \ CLI!Refused(S)) ELSE got[b]
    BY <1>1, <1>6, <2>1
  <2>6. \A b \in Activities : waits[b] \subseteq CLI!Uses(b)' \ got'[b]
    BY <1>2, <1>8, <2>5 DEF CommandInv, StackInv
  <2>7. broken \subseteq broken' /\ broken' \subseteq broken \cup {a}
    BY <1>1, <2>1
  <2>8. StackInv'
    BY <1>2, <1>7, <1>9, <2>2, <2>3, <2>4, <2>6, <2>7 DEF CommandInv, StackInv
  <2>9. CASE CLI!Refused(S) = {}
    BY <1>1, <1>2, <2>1, <2>8, <2>9 DEF CommandInv, BrokenInv
  <2>10. CASE CLI!Refused(S) # {}
    <3>1. m \in Activities /\ m # Root /\ CLI!Active(m) /\ CLI!NameOf(m) = m
      BY <1>4, <1>5, <2>10 DEF CLI!Refused, Activities, CLI!Active, CLI!NameOf
    <3>2. CLI!NameOf(a) \in Reachable(m, graph)
      BY <1>2, <1>7, <3>1 DEF IsStack
    <3>3. CLI!Active(Root) /\ Root \in Activities /\ CLI!NameOf(Root) = Head(todo) /\ Head(todo) \in Names
      BY <1>9 DEF CLI!Active, CLI!NameOf, Activities, CommandInv, CommandTypeInv
    <3>4. CLI!NameOf(a) \in Reachable(Head(todo), graph)
      BY <1>2, <1>7, <3>3 DEF IsStack
    <3>5. ReachesCycle(Head(todo), graph)
      BY <1>5, <3>2, <3>3, <3>4, CycleClosed DEF CommandInv, CommandTypeInv
    <3> QED BY <1>2, <2>8, <3>5 DEF BrokenInv
  <2> QED BY <2>8, <2>9, <2>10
<1> QED BY <1>10, <1>11

(* A sibling has its client, or does without: its resolver was the top.     *)
LEMMA EndKeepsStack ==
  ASSUME CommandInv, atOnce = {}, NEW n \in Names, sibling[n] = "resolving", waits[n] = {},
         NEW v, v # "resolving", sibling' = [sibling EXCEPT ![n] = v],
         \A a \in Activities : waits'[a] = waits[a] \ {n},
         \A a \in Activities : got'[a] = got[a] \/ (got'[a] = got[a] \cup {n}),
         graph' = graph, atOnce' = atOnce, todo' = todo, command' = command,
         n \notin broken', \A a \in broken' : a \in broken \/ (a \in Activities /\ n \in waits[a])
  PROVE  StackInv'
<1> USE NamesAssumption
<1>1. n \in Activities /\ n # Root
  BY DEF Activities
<1>2. PICK rank \in [Activities -> Nat] : IsStack(rank)
  BY DEF CommandInv, StackInv
<1>3. IsStack(rank)'
  BY <1>2, TopEnds
<1>4. \A a \in Activities : CLI!Uses(a)' = CLI!Uses(a)
  BY DEF CLI!NameOf, CLI!Uses
<1>5. \A a \in Activities : CLI!Active(a) => CLI!Active(a)' \/ a = n
  BY DEF CLI!Active, Activities, CommandInv, CommandTypeInv
<1>6. command = "resolving"
  BY DEF CommandInv, StackInv
<1>7. \A a \in Activities : ~CLI!Active(a)' => waits'[a] = {} /\ (a \in broken' => a = Root)
  BY <1>5 DEF CommandInv, StackInv
<1>8. ASSUME NEW a \in broken' PROVE waits'[a] = {}
  <2>1. CASE a \in broken
    <3>1. a \in Activities /\ waits[a] = {}
      BY <2>1 DEF CommandInv, CommandTypeInv, StackInv
    <3> QED BY <3>1
  <2>2. CASE a \in Activities /\ n \in waits[a]
    <3>1. \A j \in waits[a] : j = n
      BY <2>2 DEF CommandInv, StackInv
    <3> QED BY <2>2, <3>1
  <2> QED BY <2>1, <2>2
<1>9. \A a \in Activities : waits'[a] \subseteq CLI!Uses(a)' \ got'[a]
  BY <1>4 DEF CommandInv, StackInv
<1>10. \A a \in Activities : \A j, k \in waits'[a] : j = k
  BY DEF CommandInv, StackInv
<1> QED BY <1>2, <1>3, <1>6, <1>7, <1>8, <1>9, <1>10 DEF StackInv

(* A sibling is open, and its client answers the resolver below.            *)
LEMMA OpenedKeeps ==
  ASSUME CommandInv, NEW n \in Names, CLI!Opened(n)
  PROVE  CommandInv'
<1> USE NamesAssumption
<1>1. /\ CLI!Active(n) /\ n \notin broken /\ got[n] = CLI!Uses(n)
      /\ sibling' = [sibling EXCEPT ![n] = "open"]
      /\ got' = [a \in Activities |-> IF n \in waits[a] THEN got[a] \cup {n} ELSE got[a]]
      /\ waits' = [a \in Activities |-> waits[a] \ {n}]
      /\ graph' = graph /\ atOnce' = atOnce /\ todo' = todo /\ command' = command
      /\ answer' = answer /\ breaks' = breaks /\ broken' = broken
  BY DEF CLI!Opened, CLI!config, CLI!Activities, Activities
<1>2. n \in Activities /\ n # Root /\ sibling[n] = "resolving" /\ CLI!Uses(n) = graph[n]
  BY <1>1 DEF Activities, CLI!Active, CLI!Uses, CLI!NameOf
<1>3. ~ReachesCycle(n, graph)
  <2>1. \A m \in graph[n] : m \in Names /\ ~ReachesCycle(m, graph)
    BY <1>1, <1>2 DEF CommandInv, CommandTypeInv, AnsweredInv
  <2> QED BY <2>1, NoCycleThrough DEF CommandInv, CommandTypeInv
<1>4. CommandTypeInv'
  BY <1>1 DEF CommandInv, CommandTypeInv
<1>5. AnsweredInv'
  BY <1>1, <1>3 DEF CommandInv, CommandTypeInv, AnsweredInv
<1>6. StackInv'
  <2> SUFFICES ASSUME atOnce = {} PROVE StackInv'
    BY <1>1 DEF StackInv
  <2>1. waits[n] = {}
    BY <1>1, <1>2 DEF CommandInv, StackInv
  <2> QED BY <1>1, <1>2, <2>1, EndKeepsStack
<1>7. BrokenInv'
  BY <1>1 DEF CommandInv, BrokenInv
<1> QED BY <1>4, <1>5, <1>6, <1>7 DEF CommandInv

(* A resolver that fails breaks the one below it.                           *)
LEMMA ThrownKeeps ==
  ASSUME CommandInv, NEW n \in Names, CLI!Active(n), CLI!Thrown(n), breaks' \in Nat,
         atOnce = {} => waits[n] = {},
         breaks' = 0 => breaks = 0 /\ broken # {}
  PROVE  CommandInv'
<1> USE NamesAssumption
<1>1. /\ sibling' = [sibling EXCEPT ![n] = "unopened"]
      /\ broken' = (broken \ {n}) \cup {a \in Activities : n \in waits[a]}
      /\ waits' = [a \in Activities |-> IF a = n THEN {} ELSE waits[a] \ {n}]
      /\ graph' = graph /\ atOnce' = atOnce /\ todo' = todo /\ command' = command
      /\ answer' = answer /\ got' = got
  BY DEF CLI!Thrown, CLI!config, CLI!Activities, Activities
<1>2. n \in Activities /\ n # Root /\ sibling[n] = "resolving"
  BY DEF Activities, CLI!Active
<1>3. CommandTypeInv'
  BY <1>1 DEF CommandInv, CommandTypeInv
<1>4. AnsweredInv'
  BY <1>1, <1>2 DEF CommandInv, CommandTypeInv, AnsweredInv
<1>5. StackInv'
  <2> SUFFICES ASSUME atOnce = {} PROVE StackInv'
    BY <1>1 DEF StackInv
  <2>1. waits[n] = {} /\ \A a \in Activities : waits'[a] = waits[a] \ {n}
    BY <1>1
  <2>2. n \notin broken' /\ \A a \in broken' : a \in broken \/ (a \in Activities /\ n \in waits[a])
    BY <1>1, <2>1
  <2> QED BY <1>1, <1>2, <2>1, <2>2, EndKeepsStack
<1>6. BrokenInv'
  BY <1>1 DEF CommandInv, BrokenInv
<1> QED BY <1>3, <1>4, <1>5, <1>6 DEF CommandInv

(* The target at the head of the list is resolved; the next one starts with *)
(* its resolver alone.                                                      *)
LEMMA ResolvedKeeps ==
  ASSUME CommandInv, CLI!Resolved
  PROVE  CommandInv'
<1> USE NamesAssumption
<1>1. /\ command = "resolving" /\ Root \notin broken /\ got[Root] = CLI!Uses(Root)
      /\ todo' = Tail(todo) /\ got' = [got EXCEPT ![Root] = {}]
      /\ graph' = graph /\ atOnce' = atOnce /\ sibling' = sibling /\ waits' = waits
      /\ broken' = broken /\ breaks' = breaks
  BY DEF CLI!Resolved, CLI!config, CLI!Active
<1>2. \/ todo' # <<>> /\ command' = command /\ answer' = answer
      \/ command' = "closing" /\ answer' = "resolved"
  BY <1>1 DEF CLI!Resolved
<1>3. CommandTypeInv'
  <2>1. Tail(todo) \in Seq(Names)
    BY <1>1 DEF CommandInv, CommandTypeInv
  <2> QED BY <1>1, <1>2, <2>1 DEF CommandInv, CommandTypeInv, Phases, Outcomes
<1>4. AnsweredInv'
  BY <1>1 DEF CommandInv, CommandTypeInv, AnsweredInv
<1> SUFFICES ASSUME atOnce = {} PROVE StackInv' /\ BrokenInv'
  BY <1>1, <1>3, <1>4 DEF CommandInv, StackInv, BrokenInv
<1>5. Root \in Activities /\ CLI!Active(Root) /\ waits[Root] = {}
  BY <1>1 DEF Activities, CLI!Active, CommandInv, StackInv
<1>6. PICK rank \in [Activities -> Nat] : IsStack(rank)
  BY DEF CommandInv, StackInv
<1>7. \A a \in Activities : CLI!Active(a) => a = Root
  <2> TAKE a \in Activities
  <2> HAVE CLI!Active(a)
  <2>1. rank[a] <= rank[Root] /\ rank[Root] <= rank[a] /\ (rank[a] = rank[Root] => a = Root)
    BY <1>5, <1>6 DEF IsStack
  <2> QED BY <2>1, <1>5
<1>8. \A n \in Names : sibling[n] # "resolving"
  BY <1>7 DEF CLI!Active, Activities
<1>9. broken = {} /\ \A a \in Activities : waits[a] = {}
  <2>1. \A a \in Activities : ~CLI!Active(a) => waits[a] = {} /\ (a \in broken => a = Root)
    BY DEF CommandInv, StackInv
  <2>2. broken \subseteq Activities
    BY DEF CommandInv, CommandTypeInv
  <2>3. \A a \in Activities : waits[a] = {} /\ a \notin broken
    BY <1>1, <1>5, <1>7, <2>1
  <2> QED BY <2>2, <2>3
<1>10. \A a \in Activities : CLI!Active(a)' => a = Root
  BY <1>1, <1>7 DEF CLI!Active
<1>11. IsStack(rank)'
  <2>1. rank[Root] <= rank[Root]
    BY <1>5
  <2>2. ASSUME CLI!Active(Root)'
        PROVE  CLI!NameOf(Root)' \in Reachable(CLI!NameOf(Root)', graph)
    <3>1. CLI!NameOf(Root)' \in Names
      BY <1>3, <2>2 DEF CLI!NameOf, CLI!Active, CommandTypeInv
    <3> QED BY <3>1, ReachesItself DEF CommandInv, CommandTypeInv
  <2> QED BY <1>1, <1>9, <1>10, <2>1, <2>2 DEF IsStack
<1>12. \A a \in Activities : waits'[a] \subseteq CLI!Uses(a)' \ got'[a]
  BY <1>1, <1>9
<1>13. StackInv'
  BY <1>1, <1>2, <1>6, <1>8, <1>9, <1>11, <1>12 DEF StackInv
<1> QED BY <1>1, <1>9, <1>13 DEF BrokenInv

(* The resolver of a target fails, and with it the command.                 *)
LEMMA GiveUpKeeps ==
  ASSUME CommandInv, CLI!Active(Root), CLI!GiveUp, breaks' \in Nat,
         atOnce = {} => waits[Root] = {},
         breaks' = 0 => breaks = 0
  PROVE  CommandInv'
<1> USE NamesAssumption
<1>1. /\ command = "resolving" /\ command' = "closing" /\ answer' = "failed"
      /\ waits' = [waits EXCEPT ![Root] = {}]
      /\ graph' = graph /\ atOnce' = atOnce /\ todo' = todo /\ sibling' = sibling
      /\ got' = got /\ broken' = broken
  BY DEF CLI!GiveUp, CLI!config, CLI!Active
<1>2. CommandTypeInv'
  BY <1>1 DEF CommandInv, CommandTypeInv, Phases, Outcomes
<1>3. AnsweredInv'
  BY <1>1 DEF CommandInv, CommandTypeInv, AnsweredInv
<1>4. BrokenInv'
  BY <1>1 DEF CommandInv, BrokenInv
<1> SUFFICES ASSUME atOnce = {} PROVE StackInv'
  BY <1>1, <1>2, <1>3, <1>4 DEF CommandInv, StackInv
<1>5. Root \in Activities /\ CLI!Active(Root) /\ waits[Root] = {}
  BY DEF Activities
<1>6. PICK rank \in [Activities -> Nat] : IsStack(rank)
  BY DEF CommandInv, StackInv
<1>7. \A a \in Activities : CLI!Active(a) => a = Root
  <2> TAKE a \in Activities
  <2> HAVE CLI!Active(a)
  <2>1. rank[a] <= rank[Root] /\ rank[Root] <= rank[a] /\ (rank[a] = rank[Root] => a = Root)
    BY <1>5, <1>6 DEF IsStack
  <2> QED BY <2>1, <1>5
<1>8. \A n \in Names : sibling[n] # "resolving"
  BY <1>7 DEF CLI!Active, Activities
<1>9. broken \subseteq {Root} /\ \A a \in Activities : waits[a] = {}
  BY <1>5, <1>7 DEF CommandInv, CommandTypeInv, StackInv
<1>10. \A a \in Activities : ~CLI!Active(a)'
  BY <1>1, <1>7 DEF CLI!Active
<1>11. \A a \in Activities : waits'[a] = {}
  BY <1>1, <1>9 DEF CommandInv, CommandTypeInv
<1>12. IsStack(rank)'
  BY <1>10 DEF IsStack
<1> QED BY <1>1, <1>2, <1>6, <1>8, <1>9, <1>11, <1>12 DEF StackInv, CommandTypeInv

(* The `finally` of resolveTargets closes one sibling.                      *)
LEMMA CloseOneKeeps ==
  ASSUME CommandInv, NEW n \in Names, CLI!Close(n)
  PROVE  CommandInv'
<1> USE NamesAssumption
<1>1. /\ command = "closing" /\ sibling[n] = "open" /\ sibling' = [sibling EXCEPT ![n] = "closed"]
      /\ graph' = graph /\ atOnce' = atOnce /\ todo' = todo /\ command' = command
      /\ answer' = answer /\ got' = got /\ waits' = waits /\ broken' = broken /\ breaks' = breaks
  BY DEF CLI!Close, CLI!config
<1>2. CommandTypeInv' /\ AnsweredInv' /\ BrokenInv'
  BY <1>1 DEF CommandInv, CommandTypeInv, AnsweredInv, BrokenInv
<1>3. \A a \in Activities : CLI!Active(a)' = CLI!Active(a)
  BY <1>1 DEF CLI!Active, Activities, CommandInv, CommandTypeInv
<1>4. \A a \in Activities : CLI!NameOf(a)' = CLI!NameOf(a) /\ CLI!Uses(a)' = CLI!Uses(a)
  BY <1>1 DEF CLI!NameOf, CLI!Uses
<1>5. ASSUME NEW rank, IsStack(rank) PROVE IsStack(rank)'
  BY <1>1, <1>3, <1>4, <1>5 DEF IsStack, CommandInv, CommandTypeInv
<1>6. StackInv'
  BY <1>1, <1>3, <1>4, <1>5 DEF CommandInv, CommandTypeInv, StackInv
<1> QED BY <1>2, <1>6 DEF CommandInv

(* Nothing is open any more, and nothing opens.                             *)
LEMMA CommandSettleKeeps ==
  ASSUME CommandInv, CLI!Settle
  PROVE  CommandInv'
<1> USE NamesAssumption
<1>1. /\ command = "closing" /\ command' = "settled" /\ \A n \in Names : sibling[n] # "open"
      /\ graph' = graph /\ atOnce' = atOnce /\ todo' = todo /\ sibling' = sibling
      /\ answer' = answer /\ got' = got /\ waits' = waits /\ broken' = broken /\ breaks' = breaks
  BY DEF CLI!Settle, CLI!config
<1>2. CommandTypeInv' /\ AnsweredInv' /\ BrokenInv'
  BY <1>1 DEF CommandInv, CommandTypeInv, AnsweredInv, BrokenInv, Phases
<1>3. \A a \in Activities : CLI!Active(a)' = CLI!Active(a)
  BY <1>1 DEF CLI!Active
<1>4. \A a \in Activities : CLI!NameOf(a)' = CLI!NameOf(a) /\ CLI!Uses(a)' = CLI!Uses(a)
  BY <1>1 DEF CLI!NameOf, CLI!Uses
<1>5. ASSUME NEW rank, IsStack(rank) PROVE IsStack(rank)'
  BY <1>1, <1>3, <1>4, <1>5 DEF IsStack
<1>6. StackInv'
  BY <1>1, <1>3, <1>4, <1>5 DEF CommandInv, StackInv
<1> QED BY <1>2, <1>6 DEF CommandInv

(* Each step of the CLI's resolver.                                         *)
LEMMA CommandInvStep ==
  ASSUME CommandInv, [CLI!Next]_cliVars
  PROVE  CommandInv'
<1> USE NamesAssumption
<1>1. ASSUME NEW a \in Activities, CLI!Ask(a) PROVE CommandInv'
  <2>1. CommandTypeInv' /\ AnsweredInv' /\ atOnce' = atOnce
    BY <1>1, AskKeepsAnswers DEF CLI!Ask, CLI!config
  <2>2. atOnce = {} => StackInv' /\ BrokenInv'
    BY <1>1, AskKeepsStack
  <2>3. atOnce # {} => StackInv' /\ BrokenInv'
    BY <2>1 DEF StackInv, BrokenInv
  <2> QED BY <2>1, <2>2, <2>3 DEF CommandInv
<1>2. ASSUME NEW a \in Activities, CLI!Reject(a) PROVE CommandInv'
  <2>1. /\ CLI!Active(a) /\ a \in broken /\ breaks' = breaks
        /\ IF a = Root THEN CLI!GiveUp ELSE CLI!Thrown(a)
    BY <1>2 DEF CLI!Reject
  <2>2. breaks' \in Nat /\ (atOnce = {} => waits[a] = {})
    BY <2>1 DEF CommandInv, CommandTypeInv, StackInv
  <2>3. CASE a = Root
    BY <2>1, <2>2, <2>3, GiveUpKeeps
  <2>4. CASE a # Root
    BY <2>1, <2>2, <2>4, ThrownKeeps DEF Activities
  <2> QED BY <2>3, <2>4
<1>3. ASSUME NEW a \in Activities, CLI!Fault(a) PROVE CommandInv'
  <2>1. /\ CLI!Active(a) /\ breaks' = breaks + 1
        /\ CLI!Together(a) \/ waits[a] = {}
        /\ IF a = Root THEN CLI!GiveUp ELSE CLI!Thrown(a)
    BY <1>3 DEF CLI!Fault
  <2>2. breaks' \in Nat /\ breaks' # 0 /\ (atOnce = {} => waits[a] = {})
    BY <2>1 DEF CommandInv, CommandTypeInv, CLI!Together
  <2>3. CASE a = Root
    BY <2>1, <2>2, <2>3, GiveUpKeeps
  <2>4. CASE a # Root
    BY <2>1, <2>2, <2>4, ThrownKeeps DEF Activities
  <2> QED BY <2>3, <2>4
<1>4. CASE UNCHANGED cliVars
  <2>1. /\ graph' = graph /\ atOnce' = atOnce /\ todo' = todo /\ sibling' = sibling /\ got' = got
        /\ waits' = waits /\ broken' = broken /\ command' = command /\ answer' = answer
        /\ breaks' = breaks
    BY <1>4 DEF cliVars
  <2>2. ASSUME NEW rank, IsStack(rank) PROVE IsStack(rank)'
    BY <2>1, <2>2 DEF IsStack, CLI!Active, CLI!NameOf
  <2> QED BY <2>1, <2>2
      DEF CommandInv, CommandTypeInv, AnsweredInv, StackInv, BrokenInv, CLI!Active, CLI!Uses, CLI!NameOf
<1>5. CLI!Activities = Activities
  BY DEF CLI!Activities, Activities
<1> QED BY <1>1, <1>2, <1>3, <1>4, <1>5, OpenedKeeps, ResolvedKeeps, CloseOneKeeps, CommandSettleKeeps
    DEF CLI!Next

-----------------------------------------------------------------------------
(* Both.                                                                    *)

(* The instance brings the operators on sets and graphs once more.          *)
LEMMA SameOperators ==
  /\ SetToSeq(Names) = CLI!SetToSeq(Names)
  /\ \A n, g : ReachesCycle(n, g) <=> CLI!ReachesCycle(n, g)
<1>1. \A f : IsInjective(f) <=> CLI!IsInjective(f)
  BY DEF IsInjective, CLI!IsInjective
<1>2. SetToSeq(Names) = CLI!SetToSeq(Names)
  BY DEF SetToSeq, CLI!SetToSeq, IsInjective, CLI!IsInjective, Cardinality, CLI!Cardinality
<1>3. \A n, g : Reachable(n, g) = CLI!Reachable(n, g)
  BY DEF Reachable, CLI!Reachable
<1>4. \A n, g : ReachesCycle(n, g) <=> CLI!ReachesCycle(n, g)
  BY <1>3 DEF ReachesCycle, CLI!ReachesCycle
<1> QED BY <1>2, <1>4

(* At first nothing is open, and one resolver is the whole stack.           *)
LEMMA InitHolds == (Init /\ NoCommand) \/ (CLI!Init /\ NoRuntime) => ResolveInv /\ CommandInv
<1> USE NamesAssumption, CommandAssumption
<1> SUFFICES ASSUME (Init /\ NoCommand) \/ (CLI!Init /\ NoRuntime)
             PROVE  ResolveInv /\ CommandInv
  OBVIOUS
<1>1. /\ target \in Names /\ uses \in [Names -> SUBSET Names]
      /\ state = [n \in Names |-> "unopened"] /\ opened = <<>> /\ stack = <<>> /\ refused = {}
      /\ asked = [a \in Activities |-> {}]
      /\ phase \in {"resolving", "settled"} /\ outcome = "none" /\ faults = 0
  BY KindsAssumption DEF Init, NoRuntime
<1>2. /\ opened \in Seq(Names) /\ Range(opened) = {} /\ IsInjective(opened)
      /\ stack \in Seq(Activities) /\ Range(stack) = {} /\ Chain(stack)
  BY <1>1 DEF Range, IsInjective, Chain
<1>3. ResolveInv
  BY <1>1, <1>2 DEF ResolveInv, ResolveTypeInv, AskedInv, OpenedInv, RunningInv, ReachedInv, FailedInv,
     Phases, Outcomes
<1>4. SetToSeq(Names) \in Seq(Names) /\ SetToSeq(Names) # <<>>
  <2>1. SetToSeq(Names) \in Seq(Names) /\ Range(SetToSeq(Names)) = Names
    BY SetToSeqFacts
  <2>2. Range(<<>>) = {}
    BY DEF Range
  <2> QED BY <2>1, <2>2
<1>5. /\ graph \in [Names -> SUBSET Names] /\ todo \in Seq(Names)
      /\ sibling = [n \in Names |-> "unopened"]
      /\ got = [a \in Activities |-> {}] /\ waits = [a \in Activities |-> {}]
      /\ broken = {} /\ command \in {"resolving", "settled"} /\ answer = "none" /\ breaks = 0
      /\ command = "resolving" => todo # <<>>
  <2>1. CASE NoCommand
    BY <2>1 DEF NoCommand
  <2>2. CASE CLI!Init
    <3>1. todo \in {<<n>> : n \in Names} \/ todo = SetToSeq(Names)
      BY <2>2, SameOperators DEF CLI!Init
    <3>2. ASSUME NEW n \in Names PROVE <<n>> \in Seq(Names) /\ <<n>> # <<>>
      OBVIOUS
    <3>3. todo \in Seq(Names) /\ todo # <<>>
      BY <3>1, <3>2, <1>4
    <3> QED BY <2>2, <3>3 DEF CLI!Init, CLI!Activities, Activities
  <2> QED BY <2>1, <2>2
<1>6. CommandTypeInv /\ AnsweredInv /\ BrokenInv
  BY <1>5 DEF CommandTypeInv, AnsweredInv, BrokenInv, Phases, Outcomes
<1>7. \A a \in Activities : CLI!Active(a) => a = Root /\ command = "resolving"
  BY <1>5 DEF CLI!Active, Activities
<1>8. [a \in Activities |-> 0] \in [Activities -> Nat] /\ IsStack([a \in Activities |-> 0])
  <2>1. ASSUME CLI!Active(Root) PROVE CLI!NameOf(Root) \in Reachable(CLI!NameOf(Root), graph)
    BY <1>5, <2>1, ReachesItself DEF CLI!Active, CLI!NameOf
  <2> QED BY <1>5, <1>7, <2>1 DEF IsStack, Activities
<1>9. StackInv
  BY <1>5, <1>8 DEF StackInv
<1> QED BY <1>3, <1>6, <1>9 DEF CommandInv

(* A step of one resolver leaves the other alone.                           *)
LEMMA BothStep == ResolveInv /\ CommandInv /\ [ResolveStep \/ CommandStep]_<<vars, cliVars>>
                  => ResolveInv' /\ CommandInv'
<1> SUFFICES ASSUME ResolveInv, CommandInv, [ResolveStep \/ CommandStep]_<<vars, cliVars>>
             PROVE  ResolveInv' /\ CommandInv'
  OBVIOUS
<1>1. [Next]_vars /\ [CLI!Next]_cliVars
  BY DEF ResolveStep, CommandStep
<1> QED BY <1>1, ResolveInvStep, CommandInvStep

(* The invariants hold of both resolvers.                                   *)
THEOREM ConnectionsInvariance == BothSpec => [](ResolveInv /\ CommandInv)
BY InitHolds, BothStep, PTL DEF BothSpec

(* Whatever a resolver opened is closed when the resolution settles, once,  *)
(* and in the CLI too if its resolvers ask for one sibling at a time:       *)
(* closeOpened of client.ts, the `finally` of resolveTargets.               *)
THEOREM ClosesWhatItOpens == BothSpec => []OpenedAndClosed
<1>1. ResolveInv /\ CommandInv => OpenedAndClosed
  BY DEF ResolveInv, CommandInv, OpenedInv, StackInv, OpenedAndClosed, OpenedOnceAndClosed,
     CLI!NothingStaysOpen
<1> QED BY <1>1, ConnectionsInvariance, PTL

(* What a step of the CLI's resolution may do.                              *)
AnswerStep ==
  /\ todo' # todo => ~CLI!ReachesCycle(Head(todo), graph)
  /\ answer' # answer /\ answer' = "failed" /\ atOnce = {} /\ breaks' = 0
     => CLI!ReachesCycle(Head(todo), graph)

(* A target is done with only when it is open, and given up only when       *)
(* something is broken.                                                     *)
LEMMA AnswersRight ==
  ASSUME CommandInv, [CLI!Next]_cliVars
  PROVE  [AnswerStep]_CLI!vars
<1> USE NamesAssumption
<1> SUFFICES ASSUME CLI!Next, todo' # todo \/ answer' # answer PROVE AnswerStep
  BY DEF cliVars, CLI!vars, AnswerStep
<1>1. CASE CLI!Resolved
  <2>1. /\ command = "resolving" /\ got[Root] = CLI!Uses(Root) /\ graph' = graph
        /\ answer' = answer \/ answer' = "resolved"
    BY <1>1 DEF CLI!Resolved, CLI!Active, CLI!config
  <2>2. Head(todo) \in Names /\ CLI!Uses(Root) = graph[Head(todo)] /\ Root \in Activities
    BY <2>1 DEF CommandInv, CommandTypeInv, CLI!Uses, CLI!NameOf, Activities
  <2>3. \A m \in graph[Head(todo)] : ~ReachesCycle(m, graph)
    BY <2>1, <2>2 DEF CommandInv, CommandTypeInv, AnsweredInv
  <2>4. ~ReachesCycle(Head(todo), graph)
    BY <2>2, <2>3, NoCycleThrough DEF CommandInv, CommandTypeInv
  <2> QED BY <2>1, <2>4, SameOperators DEF AnswerStep
<1>2. ASSUME NEW a \in CLI!Activities, CLI!Reject(a) PROVE AnswerStep
  <2>1. a \in broken /\ breaks' = breaks /\ todo' = todo
    BY <1>2 DEF CLI!Reject, CLI!GiveUp, CLI!Thrown
  <2> QED BY <2>1, SameOperators DEF AnswerStep, CommandInv, BrokenInv
<1>3. ASSUME NEW a \in CLI!Activities, CLI!Fault(a) PROVE AnswerStep
  <2>1. breaks' = breaks + 1 /\ todo' = todo
    BY <1>3 DEF CLI!Fault, CLI!GiveUp, CLI!Thrown
  <2> QED BY <2>1 DEF AnswerStep, CommandInv, CommandTypeInv
<1>4. ASSUME NEW a \in CLI!Activities, CLI!Ask(a) PROVE FALSE
  BY <1>4 DEF CLI!Ask
<1>5. ASSUME NEW n \in Names, CLI!Opened(n) \/ CLI!Close(n) PROVE FALSE
  BY <1>5 DEF CLI!Opened, CLI!Close
<1>6. CASE CLI!Settle
  BY <1>6 DEF CLI!Settle
<1> QED BY <1>1, <1>2, <1>3, <1>4, <1>5, <1>6 DEF CLI!Next

(* A connection resolves only if nothing it reaches depends on itself, and  *)
(* a resolution fails by itself only if something does: both resolvers.     *)
THEOREM ResolvesWithoutCycle == BothSpec => OutcomesAreRight
<1>1. ResolveInv /\ CommandInv => OutcomeIsRight
  BY DEF ResolveInv, FailedInv, OutcomeIsRight
<1>2. ResolveInv /\ CommandInv /\ [ResolveStep \/ CommandStep]_<<vars, cliVars>> => [AnswerStep]_CLI!vars
  <2> SUFFICES ASSUME CommandInv, [ResolveStep \/ CommandStep]_<<vars, cliVars>>
               PROVE  [AnswerStep]_CLI!vars
    OBVIOUS
  <2>1. [CLI!Next]_cliVars
    BY DEF ResolveStep, CommandStep
  <2> QED BY <2>1, AnswersRight
<1>3. BothSpec => [][AnswerStep]_CLI!vars
  BY <1>2, ConnectionsInvariance, PTL DEF BothSpec
<1>4. BothSpec => []OutcomeIsRight
  BY <1>1, ConnectionsInvariance, PTL
<1>5. CLI!OutcomeIsRight <=> [][AnswerStep]_CLI!vars
  BY DEF CLI!OutcomeIsRight, AnswerStep
<1> QED BY <1>3, <1>4, <1>5 DEF OutcomesAreRight

=============================================================================
