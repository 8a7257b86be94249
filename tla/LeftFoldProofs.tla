--------------------------- MODULE LeftFoldProofs ---------------------------
(***************************************************************************)
(* How a fold unrolls, for every step, state and sequence, and the         *)
(* induction on which that rests: a set of numbers without a least element *)
(* is empty, so a set with 0 that is closed under successor is all of Nat. *)
(* To prove P(k) for every k, apply Induct to {k \in Nat : P(k)}.           *)
(***************************************************************************)
EXTENDS LeftFold, WellFoundedInduction, SequenceTheorems, TLAPS

(* Numbers are well-founded.                                                *)
LEMMA Least ==
  ASSUME NEW T \in SUBSET Nat, T # {}
  PROVE  \E n \in T : \A m \in T : n <= m
<1>1. IsWellFoundedOn(OpToRel(<, Nat), Nat)
  BY NatLessThanWellFounded
<1>2. PICK n \in T : \A m \in T : ~(<<m, n>> \in OpToRel(<, Nat))
  BY <1>1, WFMin
<1>3. \A m \in T : ~(m < n)
  BY <1>2 DEF OpToRel
<1> QED BY <1>3

(* Induction over the numbers.                                             *)
LEMMA Induct ==
  ASSUME NEW S, 0 \in S, \A n \in Nat : n \in S => n + 1 \in S
  PROVE  Nat \subseteq S
<1> SUFFICES ASSUME NEW k \in Nat, k \notin S PROVE FALSE
  OBVIOUS
<1>1. PICK n \in Nat \ S : \A m \in Nat \ S : n <= m
  BY Least
<1> QED BY <1>1

-----------------------------------------------------------------------------
(* g holds the states of the loop up to the k-th element.                  *)
Run(g, s, ms, k) == g = [i \in 0..k |-> IF i = 0 THEN s ELSE Step(g[i - 1], ms[i])]

(* There are such states, for every k.                                     *)
LEMMA RunExists ==
  ASSUME NEW s, NEW ms
  PROVE  \A k \in Nat : \E g : Run(g, s, ms, k)
<1> DEFINE S == {k \in Nat : \E g : Run(g, s, ms, k)}
<1>1. 0 \in S
  <2> DEFINE g == [i \in 0..0 |-> s]
  <2>1. Run(g, s, ms, 0)
    BY DEF Run
  <2> QED BY <2>1
<1>2. ASSUME NEW k \in Nat, k \in S PROVE k + 1 \in S
  <2>1. PICK g : Run(g, s, ms, k)
    BY <1>2
  <2> DEFINE h == [i \in 0..(k + 1) |-> IF i \in 0..k THEN g[i] ELSE Step(g[k], ms[k + 1])]
  <2>2. \A i \in 0..(k + 1) : h[i] = IF i = 0 THEN s ELSE Step(h[i - 1], ms[i])
    <3> TAKE i \in 0..(k + 1)
    <3>1. CASE i = 0
      BY <2>1, <3>1 DEF Run
    <3>2. CASE i \in 1..k
      BY <2>1, <3>2 DEF Run
    <3>3. CASE i = k + 1
      BY <3>3
    <3> QED BY <3>1, <3>2, <3>3
  <2>3. Run(h, s, ms, k + 1)
    BY <2>2, Zenon DEF Run
  <2> QED BY <2>3
<1> HIDE DEF S
<1>3. Nat \subseteq S
  BY <1>1, <1>2, Induct
<1> QED BY <1>3 DEF S

(* The fold is the last of them.                                           *)
LEMMA FoldRun ==
  ASSUME NEW s, NEW ms, Len(ms) \in Nat
  PROVE  \E g : Run(g, s, ms, Len(ms)) /\ Fold(s, ms) = g[Len(ms)]
<1> DEFINE state == CHOOSE g : g = [i \in 0..Len(ms) |-> IF i = 0 THEN s ELSE Step(g[i - 1], ms[i])]
<1>0. \E g : g = [i \in 0..Len(ms) |-> IF i = 0 THEN s ELSE Step(g[i - 1], ms[i])]
  <2>1. PICK g : Run(g, s, ms, Len(ms))
    BY RunExists
  <2> QED BY <2>1, Zenon DEF Run
<1>1. state = [i \in 0..Len(ms) |-> IF i = 0 THEN s ELSE Step(state[i - 1], ms[i])]
  BY <1>0, Zenon
<1>2. Fold(s, ms) = state[Len(ms)]
  BY Zenon DEF Fold
<1> HIDE DEF state
<1> QED BY <1>1, <1>2, Zenon DEF Run

(* No element, no step.                                                    *)
THEOREM FoldEmpty ==
  ASSUME NEW s
  PROVE  Fold(s, <<>>) = s
<1>1. PICK g : Run(g, s, <<>>, 0) /\ Fold(s, <<>>) = g[0]
  BY FoldRun
<1> QED BY <1>1 DEF Run

(* What every step keeps, the loop keeps.                                   *)
THEOREM FoldType ==
  ASSUME NEW T, NEW U, NEW s \in U, NEW ms \in Seq(T),
         \A u \in U : \A m \in T : Step(u, m) \in U
  PROVE  Fold(s, ms) \in U
<1>1. Len(ms) \in Nat /\ \A i \in 1..Len(ms) : ms[i] \in T
  OBVIOUS
<1>2. PICK g : Run(g, s, ms, Len(ms)) /\ Fold(s, ms) = g[Len(ms)]
  BY <1>1, FoldRun
<1> DEFINE S == {i \in Nat : i \in 0..Len(ms) => g[i] \in U}
<1>3. 0 \in S
  BY <1>1, <1>2 DEF Run
<1>4. ASSUME NEW i \in Nat, i \in S PROVE i + 1 \in S
  <2> SUFFICES ASSUME i + 1 \in 0..Len(ms) PROVE g[i + 1] \in U
    OBVIOUS
  <2>1. /\ i \in 0..Len(ms) /\ i + 1 \in 1..Len(ms)
        /\ i + 1 # 0 /\ (i + 1) - 1 = i
    BY <1>1
  <2>2. g[i + 1] = Step(g[i], ms[i + 1])
    BY <1>2, <2>1 DEF Run
  <2> QED BY <1>1, <1>4, <2>1, <2>2
<1> HIDE DEF S
<1>5. Nat \subseteq S
  BY <1>3, <1>4, Induct
<1> QED BY <1>1, <1>2, <1>5 DEF S

(* If every step leads from P[i - 1] to P[i], the loop ends in the last.     *)
THEOREM FoldThrough ==
  ASSUME NEW T, NEW s, NEW ms \in Seq(T), NEW P, s \in P[0],
         \A i \in 1..Len(ms) : \A u \in P[i - 1] : Step(u, ms[i]) \in P[i]
  PROVE  Fold(s, ms) \in P[Len(ms)]
<1>1. Len(ms) \in Nat
  OBVIOUS
<1>2. PICK g : Run(g, s, ms, Len(ms)) /\ Fold(s, ms) = g[Len(ms)]
  BY <1>1, FoldRun
<1> DEFINE S == {i \in Nat : i \in 0..Len(ms) => g[i] \in P[i]}
<1>3. 0 \in S
  BY <1>1, <1>2 DEF Run
<1>4. ASSUME NEW i \in Nat, i \in S PROVE i + 1 \in S
  <2> SUFFICES ASSUME i + 1 \in 0..Len(ms) PROVE g[i + 1] \in P[i + 1]
    OBVIOUS
  <2>1. /\ i \in 0..Len(ms) /\ i + 1 \in 1..Len(ms)
        /\ i + 1 # 0 /\ (i + 1) - 1 = i
    BY <1>1
  <2>2. g[i + 1] = Step(g[i], ms[i + 1])
    BY <1>2, <2>1 DEF Run
  <2> QED BY <1>4, <2>1, <2>2
<1> HIDE DEF S
<1>5. Nat \subseteq S
  BY <1>3, <1>4, Induct
<1> QED BY <1>1, <1>2, <1>5 DEF S

(* One more element is one more step: the states of the longer loop begin   *)
(* with those of the shorter one.                                           *)
THEOREM FoldAppend ==
  ASSUME NEW T, NEW s, NEW ms \in Seq(T), NEW m \in T
  PROVE  Fold(s, Append(ms, m)) = Step(Fold(s, ms), m)
<1> DEFINE len == Len(ms)
<1> DEFINE more == Append(ms, m)
<1>1. len \in Nat /\ Len(more) = len + 1 /\ more[len + 1] = m /\ \A i \in 1..len : ms[i] = more[i]
  OBVIOUS
<1> HIDE DEF more, len
<1>2. PICK g : Run(g, s, ms, len) /\ Fold(s, ms) = g[len]
  BY <1>1, FoldRun DEF len
<1>3. PICK h : Run(h, s, more, len + 1) /\ Fold(s, more) = h[len + 1]
  BY <1>1, FoldRun
<1> DEFINE S == {i \in Nat : i \in 0..len => g[i] = h[i]}
<1>4. 0 \in S
  BY <1>1, <1>2, <1>3 DEF Run
<1>5. ASSUME NEW i \in Nat, i \in S PROVE i + 1 \in S
  <2> SUFFICES ASSUME i + 1 \in 0..len PROVE g[i + 1] = h[i + 1]
    OBVIOUS
  <2>1. /\ i \in 0..len /\ i + 1 \in 0..(len + 1) /\ i + 1 \in 1..len
        /\ i + 1 # 0 /\ (i + 1) - 1 = i
    BY <1>1
  <2>2. g[i + 1] = Step(g[i], ms[i + 1])
    BY <1>2, <2>1 DEF Run
  <2>3. h[i + 1] = Step(h[i], more[i + 1])
    BY <1>3, <2>1 DEF Run
  <2> QED BY <1>1, <1>5, <2>1, <2>2, <2>3
<1> HIDE DEF S
<1>6. Nat \subseteq S
  BY <1>4, <1>5, Induct
<1>7. g[len] = h[len]
  BY <1>1, <1>6 DEF S
<1>8. len + 1 \in 0..(len + 1) /\ len + 1 # 0 /\ (len + 1) - 1 = len
  BY <1>1
<1>9. h[len + 1] = Step(h[len], more[len + 1])
  BY <1>3, <1>8 DEF Run
<1> QED BY <1>1, <1>2, <1>3, <1>7, <1>9 DEF more

(* A sequence is built from its prefixes.                                  *)
LEMMA OneMore ==
  ASSUME NEW T, NEW m \in T, NEW ms \in Seq(T)
  PROVE  /\ SubSeq(ms, 1, 0) = <<>> /\ <<m>> \o <<>> = Append(<<>>, m) /\ SubSeq(ms, 1, Len(ms)) = ms
         /\ \A i \in Nat : i + 1 \in 0..Len(ms) =>
              /\ i \in 0..Len(ms) /\ ms[i + 1] \in T /\ SubSeq(ms, 1, i) \in Seq(T)
              /\ <<m>> \o SubSeq(ms, 1, i) \in Seq(T)
              /\ SubSeq(ms, 1, i + 1) = Append(SubSeq(ms, 1, i), ms[i + 1])
              /\ <<m>> \o SubSeq(ms, 1, i + 1) = Append(<<m>> \o SubSeq(ms, 1, i), ms[i + 1])
  OBVIOUS

(* A loop that adds elements of U to the end of a sequence ...              *)
Piece(e) == Step(<<>>, e)

Adding(T, U) ==
  /\ \A e \in T : Piece(e) \in Seq(U)
  /\ \A e \in T : \A s \in Seq(U) : Step(s, e) = s \o Piece(e)

(* ... adds first what it adds for the first element.                       *)
THEOREM FoldOfAdding ==
  ASSUME NEW T, NEW U,
         Adding(T, U), NEW m \in T, NEW ms \in Seq(T)
  PROVE  /\ Fold(<<>>, ms) \in Seq(U)
         /\ Fold(<<>>, <<m>> \o ms) = Piece(m) \o Fold(<<>>, ms)
<1> DEFINE part(i) == SubSeq(ms, 1, i)
           S == {i \in Nat : i \in 0..Len(ms) =>
                   /\ Fold(<<>>, part(i)) \in Seq(U)
                   /\ Fold(<<>>, <<m>> \o part(i)) = Piece(m) \o Fold(<<>>, part(i))}
<1>1. Piece(m) \in Seq(U)
  BY DEF Adding
<1>2. 0 \in S
  <2>1. part(0) = <<>> /\ <<m>> \o <<>> = Append(<<>>, m) /\ <<>> \in Seq(T) /\ <<>> \in Seq(U)
    BY OneMore, EmptySeq
  <2>2. Fold(<<>>, <<>>) = <<>>
    BY FoldEmpty
  <2>3. Fold(<<>>, Append(<<>>, m)) = Piece(m)
    <3>1. PICK none \in Seq(T) : none = <<>>
      BY <2>1, Zenon
    <3>2. Fold(<<>>, Append(none, m)) = Step(Fold(<<>>, none), m)
      BY FoldAppend
    <3> QED BY <2>2, <3>1, <3>2 DEF Piece
  <2>4. Piece(m) \o <<>> = Piece(m)
    BY <1>1, ConcatEmptySeq
  <2> HIDE DEF part
  <2> QED BY <2>1, <2>2, <2>3, <2>4
<1>3. ASSUME NEW i \in Nat, i \in S PROVE i + 1 \in S
  <2> SUFFICES ASSUME i + 1 \in 0..Len(ms)
               PROVE  /\ Fold(<<>>, part(i + 1)) \in Seq(U)
                      /\ Fold(<<>>, <<m>> \o part(i + 1)) = Piece(m) \o Fold(<<>>, part(i + 1))
    OBVIOUS
  <2> DEFINE e == ms[i + 1]
             sofar == Fold(<<>>, part(i))
  <2>1. /\ i \in 0..Len(ms) /\ e \in T /\ part(i) \in Seq(T) /\ <<m>> \o part(i) \in Seq(T)
        /\ part(i + 1) = Append(part(i), e)
        /\ <<m>> \o part(i + 1) = Append(<<m>> \o part(i), e)
    BY OneMore
  <2>2. sofar \in Seq(U) /\ Fold(<<>>, <<m>> \o part(i)) = Piece(m) \o sofar
    BY <1>3, <2>1
  <2> HIDE DEF part, e
  <2>3. /\ Piece(e) \in Seq(U)
        /\ \A s \in Seq(U) : Step(s, e) = s \o Piece(e)
    BY <2>1 DEF Adding
  <2>4. Fold(<<>>, part(i + 1)) = sofar \o Piece(e)
    <3>1. Fold(<<>>, Append(part(i), e)) = Step(sofar, e)
      BY <2>1, FoldAppend
    <3> QED BY <2>1, <2>2, <2>3, <3>1
  <2>5. Fold(<<>>, <<m>> \o part(i + 1)) = (Piece(m) \o sofar) \o Piece(e)
    <3>1. PICK longer \in Seq(T) : longer = <<m>> \o part(i)
      BY <2>1, Zenon
    <3>2. Fold(<<>>, Append(longer, e)) = Step(Fold(<<>>, longer), e)
      BY <2>1, FoldAppend
    <3>3. Fold(<<>>, longer) = Piece(m) \o sofar /\ Fold(<<>>, <<m>> \o part(i + 1)) = Step(Fold(<<>>, longer), e)
      BY <2>1, <2>2, <3>1, <3>2
    <3>4. Piece(m) \o sofar \in Seq(U)
      BY <1>1, <2>2, ConcatProperties
    <3> QED BY <2>3, <3>3, <3>4
  <2>6. (Piece(m) \o sofar) \o Piece(e) = Piece(m) \o (sofar \o Piece(e))
    BY <1>1, <2>2, <2>3, ConcatAssociative
  <2>7. sofar \o Piece(e) \in Seq(U)
    BY <2>2, <2>3, ConcatProperties
  <2> QED BY <2>4, <2>5, <2>6, <2>7
<1> HIDE DEF S
<1>4. Nat \subseteq S
  BY <1>2, <1>3, Induct
<1>5. Len(ms) \in 0..Len(ms) /\ Len(ms) \in Nat
  BY LenProperties
<1>6. part(Len(ms)) = ms
  BY OneMore
<1> QED BY <1>4, <1>5, <1>6 DEF S
=============================================================================
