--------------------------- MODULE PullFilesProofs ---------------------------
(***************************************************************************)
(* Proofs about `pull --write' (PullFiles), for any tables, functions,     *)
(* filters and directory order: a pull leaves a schema that loads, it does *)
(* what it was asked to, and a second one finds nothing to write.          *)
(*                                                                         *)
(* First the operators: what a merge leaves in a file (MergeFacts), that   *)
(* the sort is defined and lists each table after those it imports         *)
(* (SortedFacts), which file a unit goes to (PlaceFacts), and so what      *)
(* becomes of each file (AfterFacts).  Then the plan as a whole.  Each     *)
(* table has one home: one file alone defines it.  What is pulled refers   *)
(* by an import only to what is pulled and does not lead back; so, unless  *)
(* something is known against the plan (Unmarked), its imports are a part  *)
(* of the references that do not, and run in no circle (PlannedLoads).     *)
(*                                                                         *)
(* The invariant, PullInv, carries this over the writes: while a pull is   *)
(* under way there is a plan that loads, and each file is as it was, to be *)
(* written still, or as planned.  The user's edits keep a schema that      *)
(* loads, by the guard of Edit; a pull that dies half-way marks what it    *)
(* leaves, unless it had written nothing.                                  *)
(***************************************************************************)
EXTENDS PullFiles, FiniteSetTheorems, SequenceTheorems, TLAPS

Chosen == INSTANCE LeftFoldProofs WITH Step <- KeepIf
Merged == INSTANCE LeftFoldProofs WITH Step <- PlaceNext

-----------------------------------------------------------------------------
(* Sequences.                                                               *)

(* One more element.                                                        *)
LEMMA AppendHolds ==
  ASSUME NEW T, NEW s \in Seq(T), NEW x \in T
  PROVE  /\ Append(s, x) \in Seq(T) /\ Len(Append(s, x)) = Len(s) + 1
         /\ ToSet(Append(s, x)) = ToSet(s) \cup {x}
<1>1. ASSUME NEW y \in ToSet(Append(s, x)) PROVE y \in ToSet(s) \cup {x}
  BY DEF ToSet
<1>2. ASSUME NEW y \in ToSet(s) PROVE y \in ToSet(Append(s, x))
  BY DEF ToSet
<1>3. x \in ToSet(Append(s, x))
  BY DEF ToSet
<1> QED BY <1>1, <1>2, <1>3

(* The elements of s that are in S, and no more of them.                    *)
LEMMA AmongFacts ==
  ASSUME NEW T, NEW s \in Seq(T), NEW S
  PROVE  /\ Among(s, S) \in Seq(T)
         /\ ToSet(Among(s, S)) = ToSet(s) \cap S
         /\ Len(Among(s, S)) <= Len(s)
<1> DEFINE start == [of |-> S, kept |-> <<>>]
           P == [i \in 0..Len(s) |->
                   {u \in [of : {S}, kept : Seq(T)] :
                      ToSet(u.kept) = {s[j] : j \in 1..i} \cap S /\ Len(u.kept) <= i}]
<1>1. start \in P[0]
  <2>1. <<>> \in Seq(T) /\ ToSet(<<>>) = {} /\ Len(<<>>) = 0 /\ 0 \in 0..Len(s) /\ {s[j] : j \in 1..0} = {}
    BY DEF ToSet
  <2>2. start \in [of : {S}, kept : Seq(T)] /\ start.kept = <<>>
    BY <2>1
  <2> QED BY <2>1, <2>2
<1>2. ASSUME NEW i \in 1..Len(s), NEW u \in P[i - 1] PROVE KeepIf(u, s[i]) \in P[i]
  <2>1. i - 1 \in 0..Len(s) /\ i \in 0..Len(s) /\ s[i] \in T
    OBVIOUS
  <2>2. PICK kept \in Seq(T) :
          /\ u = [of |-> S, kept |-> kept]
          /\ ToSet(kept) = {s[j] : j \in 1..(i - 1)} \cap S /\ Len(kept) <= i - 1
    BY <2>1
  <2>3. {s[j] : j \in 1..i} = {s[j] : j \in 1..(i - 1)} \cup {s[i]}
    OBVIOUS
  <2>4. CASE s[i] \in S
    <3>1. KeepIf(u, s[i]) = [of |-> S, kept |-> Append(kept, s[i])]
      BY <2>2, <2>4 DEF KeepIf
    <3>2. /\ Append(kept, s[i]) \in Seq(T) /\ Len(Append(kept, s[i])) <= i
          /\ ToSet(Append(kept, s[i])) = {s[j] : j \in 1..i} \cap S
      <4>1. Len(kept) \in Nat /\ Len(Append(kept, s[i])) = Len(kept) + 1
        BY <2>1, AppendHolds, LenProperties
      <4> QED BY <2>1, <2>2, <2>3, <2>4, <4>1, AppendHolds
    <3>3. KeepIf(u, s[i]) \in [of : {S}, kept : Seq(T)] /\ KeepIf(u, s[i]).kept = Append(kept, s[i])
      BY <3>1, <3>2
    <3> QED BY <2>1, <3>2, <3>3
  <2>5. CASE s[i] \notin S
    <3>1. KeepIf(u, s[i]) = u
      BY <2>2, <2>5 DEF KeepIf
    <3>2. Len(kept) <= i /\ ToSet(kept) = {s[j] : j \in 1..i} \cap S
      <4>1. Len(kept) \in Nat
        BY LenProperties
      <4> QED BY <2>2, <2>3, <2>5, <4>1
    <3> QED BY <2>1, <2>2, <3>1, <3>2
  <2> QED BY <2>4, <2>5
<1> HIDE DEF P
<1>3. Chosen!Fold(start, s) \in P[Len(s)]
  BY <1>1, <1>2, Chosen!FoldThrough
<1>4. Among(s, S) = Chosen!Fold(start, s).kept
  BY DEF Among, Selecting!Fold, Chosen!Fold
<1>5. Len(s) \in 0..Len(s) /\ ToSet(s) = {s[j] : j \in 1..Len(s)}
  BY LenProperties DEF ToSet
<1> HIDE DEF start
<1> QED BY <1>3, <1>4, <1>5 DEF P

(* All of them, if S has all of them.                                       *)
LEMMA AmongAll ==
  ASSUME NEW T, NEW s \in Seq(T), NEW S, ToSet(s) \subseteq S
  PROVE  Among(s, S) = s
<1> DEFINE start == [of |-> S, kept |-> <<>>]
           P == [i \in 0..Len(s) |-> {[of |-> S, kept |-> SubSeq(s, 1, i)]}]
<1>1. Len(s) \in Nat /\ SubSeq(s, 1, 0) = <<>> /\ SubSeq(s, 1, Len(s)) = s
  OBVIOUS
<1>2. start \in P[0]
  BY <1>1
<1>3. ASSUME NEW i \in 1..Len(s), NEW u \in P[i - 1] PROVE KeepIf(u, s[i]) \in P[i]
  <2>1. i - 1 \in 0..Len(s) /\ i \in 0..Len(s) /\ s[i] \in S
    BY DEF ToSet
  <2>2. u = [of |-> S, kept |-> SubSeq(s, 1, i - 1)]
    BY <2>1
  <2>3. Append(SubSeq(s, 1, i - 1), s[i]) = SubSeq(s, 1, i)
    <3>1. \A j \in Nat : j + 1 \in 0..Len(s) => SubSeq(s, 1, j + 1) = Append(SubSeq(s, 1, j), s[j + 1])
      BY Chosen!OneMore
    <3>2. i - 1 \in Nat /\ (i - 1) + 1 = i
      OBVIOUS
    <3> QED BY <2>1, <3>1, <3>2
  <2>4. KeepIf(u, s[i]) = [of |-> S, kept |-> Append(SubSeq(s, 1, i - 1), s[i])]
    BY <2>1, <2>2 DEF KeepIf
  <2> QED BY <2>1, <2>3, <2>4
<1> HIDE DEF P
<1>4. Chosen!Fold(start, s) \in P[Len(s)]
  BY <1>2, <1>3, Chosen!FoldThrough
<1>5. Among(s, S) = Chosen!Fold(start, s).kept
  BY DEF Among, Selecting!Fold, Chosen!Fold
<1>6. Len(s) \in 0..Len(s)
  BY <1>1
<1> HIDE DEF start
<1> QED BY <1>1, <1>4, <1>5, <1>6 DEF P

(* What a sequence holds, and two of them.                                  *)
LEMMA ConcatHolds ==
  ASSUME NEW T, NEW s \in Seq(T), NEW t \in Seq(T)
  PROVE  s \o t \in Seq(T) /\ ToSet(s \o t) = ToSet(s) \cup ToSet(t)
<1>1. \A x : x \in ToSet(s \o t) <=> x \in ToSet(s) \/ x \in ToSet(t)
  <2> TAKE x
  <2>1. ASSUME x \in ToSet(s \o t) PROVE x \in ToSet(s) \/ x \in ToSet(t)
    <3>1. PICK i \in 1..(Len(s) + Len(t)) : (s \o t)[i] = x
      BY <2>1, ConcatProperties DEF ToSet
    <3>2. i \in 1..Len(s) \/ i - Len(s) \in 1..Len(t)
      OBVIOUS
    <3> QED BY <3>1, <3>2 DEF ToSet
  <2>2. ASSUME x \in ToSet(s) PROVE x \in ToSet(s \o t)
    BY <2>2 DEF ToSet
  <2>3. ASSUME x \in ToSet(t) PROVE x \in ToSet(s \o t)
    <3>1. PICK i \in 1..Len(t) : t[i] = x
      BY <2>3 DEF ToSet
    <3>2. i + Len(s) \in DOMAIN (s \o t) /\ (s \o t)[i + Len(s)] = x
      BY <3>1
    <3> QED BY <3>2 DEF ToSet
  <2> QED BY <2>1, <2>2, <2>3
<1> QED BY <1>1, ConcatProperties

(* Where the elements of two sequences are in one.                          *)
LEMMA ConcatAt ==
  ASSUME NEW T, NEW s \in Seq(T), NEW t \in Seq(T)
  PROVE  /\ DOMAIN (s \o t) = 1..(Len(s) + Len(t))
         /\ \A j \in 1..Len(s) : (s \o t)[j] = s[j]
         /\ \A j \in (Len(s) + 1)..(Len(s) + Len(t)) : (s \o t)[j] = t[j - Len(s)]
<1>1. Len(s) \in Nat /\ Len(t) \in Nat
  BY LenProperties
<1>2. DOMAIN (s \o t) = 1..(Len(s) + Len(t))
  BY <1>1
<1>3. ASSUME NEW j \in 1..Len(s) PROVE (s \o t)[j] = s[j]
  BY <1>1
<1>4. ASSUME NEW j \in (Len(s) + 1)..(Len(s) + Len(t)) PROVE (s \o t)[j] = t[j - Len(s)]
  BY <1>1
<1> QED BY <1>2, <1>3, <1>4

-----------------------------------------------------------------------------
(* What files hold.                                                         *)
Consts ==
  {c \in [of : Entities \cup {Helper}, own : BOOLEAN, keys : SUBSET (Keys \cup Tables), by : SUBSET Tables] :
     c.of \notin Tables => c.keys = {} /\ c.by = {}}
Imports == [of : Tables, path : {"exact", "sibling"}]
Contents == [consts : Seq(Consts), imports : SUBSET Imports, there : BOOLEAN]

(* A unit takes the place of the consts of its name.                        *)
LEMMA GraftedFacts ==
  ASSUME NEW c \in Consts, NEW u \in Consts, NEW keep \in BOOLEAN, Ident(c) = Ident(u)
  PROVE  /\ Grafted(c, u, keep) \in Consts /\ Ident(Grafted(c, u, keep)) = Ident(u)
         /\ Grafted(c, u, keep).keys = u.keys \cup (IF keep THEN LocalKeys(c, u) ELSE {})
         /\ Grafted(c, u, keep).by = u.by \cup (IF keep THEN c.by \cap LocalKeys(c, u) ELSE {})
         /\ ~keep => Grafted(c, u, keep) = u
         /\ keep => c.keys \subseteq Grafted(c, u, keep).keys
         /\ c = u => Grafted(c, u, keep) = u
<1>1. c.of = u.of /\ c.own = u.own
  BY DEF Ident
<1>2. LocalKeys(c, u) \subseteq Keys \cup Tables /\ (u.of \notin Tables => LocalKeys(c, u) = {})
  BY DEF LocalKeys, Consts
<1>3. CASE ~keep
  BY <1>3 DEF Grafted
<1>4. CASE keep
  <2> DEFINE d == [u EXCEPT !.keys = @ \cup LocalKeys(c, u), !.by = @ \cup (c.by \cap LocalKeys(c, u))]
  <2>1. Grafted(c, u, keep) = d
    BY <1>4 DEF Grafted
  <2>2. /\ d.of = u.of /\ d.own = u.own /\ d.keys = u.keys \cup LocalKeys(c, u)
        /\ d.by = u.by \cup (c.by \cap LocalKeys(c, u))
        /\ d \in [of : Entities \cup {Helper}, own : BOOLEAN, keys : SUBSET (Keys \cup Tables), by : SUBSET Tables]
    BY <1>2 DEF Consts
  <2>3. d \in Consts
    BY <1>1, <1>2, <2>2 DEF Consts
  <2>4. c.keys \subseteq d.keys
    BY <1>1, <2>2 DEF LocalKeys, Consts
  <2>5. c = u => d = u
    BY <2>2, ZenonT(40) DEF LocalKeys, Consts
  <2> HIDE DEF d
  <2> QED BY <1>4, <2>1, <2>2, <2>3, <2>4, <2>5 DEF Ident
<1> QED BY <1>3, <1>4

(* What was grafted once is grafted already.                                *)
LEMMA GraftedTwice ==
  ASSUME NEW c \in Consts, NEW u \in Consts, NEW keep \in BOOLEAN, Ident(c) = Ident(u)
  PROVE  Grafted(Grafted(c, u, keep), u, keep) = Grafted(c, u, keep)
<1>1. CASE ~keep
  BY <1>1, Zenon DEF Grafted
<1>2. CASE keep
  <2>1. PICK d : d = Grafted(c, u, TRUE)
    OBVIOUS
  <2>2. /\ d \in Consts /\ Ident(d) = Ident(u)
        /\ d.keys = u.keys \cup LocalKeys(c, u) /\ d.by = u.by \cup (c.by \cap LocalKeys(c, u))
    BY <2>1, GraftedFacts
  <2>3. PICK e : e = Grafted(d, u, TRUE)
    OBVIOUS
  <2>4. /\ e \in Consts /\ Ident(e) = Ident(u)
        /\ e.keys = u.keys \cup LocalKeys(d, u) /\ e.by = u.by \cup (d.by \cap LocalKeys(d, u))
    BY <2>2, <2>3, GraftedFacts
  <2>5. LocalKeys(d, u) = LocalKeys(c, u)
    <3>1. \A k : k \in d.keys <=> k \in u.keys \/ k \in LocalKeys(c, u)
      BY <2>2
    <3> QED BY <3>1 DEF LocalKeys
  <2>6. e.keys = d.keys /\ e.by = d.by
    BY <2>2, <2>4, <2>5
  <2>7. e.of = d.of /\ e.own = d.own
    BY <2>2, <2>4 DEF Ident
  <2>8. e = d
    BY <2>2, <2>4, <2>6, <2>7 DEF Consts
  <2>9. keep = TRUE
    BY <1>2
  <2> QED BY <2>1, <2>3, <2>8, <2>9
<1> QED BY <1>1, <1>2

(* What is in a file after a unit was put there, and that nothing of        *)
(* another name is lost.                                                    *)
LEMMA PlacedFacts ==
  ASSUME NEW cs \in Seq(Consts), NEW u \in Consts, NEW keep \in BOOLEAN
  PROVE  /\ Placed(cs, u, keep) \in Seq(Consts)
         /\ \E d \in ToSet(Placed(cs, u, keep)) : Ident(d) = Ident(u)
         /\ \A d \in ToSet(Placed(cs, u, keep)) :
              \/ d = u
              \/ d \in ToSet(cs) /\ Ident(d) # Ident(u)
              \/ \E c \in ToSet(cs) : Ident(c) = Ident(u) /\ d = Grafted(c, u, keep)
         /\ \A c \in ToSet(cs) :
              IF Ident(c) = Ident(u) THEN Grafted(c, u, keep) \in ToSet(Placed(cs, u, keep))
              ELSE c \in ToSet(Placed(cs, u, keep))
<1>1. CASE \E c \in ToSet(cs) : Ident(c) = Ident(u)
  <2> DEFINE at(i) == IF Ident(cs[i]) = Ident(u) THEN Grafted(cs[i], u, keep) ELSE cs[i]
             new == [i \in DOMAIN cs |-> at(i)]
  <2>1. Placed(cs, u, keep) = new
    BY <1>1 DEF Placed
  <2>2. DOMAIN cs = 1..Len(cs) /\ Len(cs) \in Nat /\ \A i \in DOMAIN cs : cs[i] \in Consts
    OBVIOUS
  <2>3. \A i \in DOMAIN cs : at(i) \in Consts
    BY <2>2, GraftedFacts
  <2> HIDE DEF at
  <2>4. new \in Seq(Consts) /\ ToSet(new) = {at(i) : i \in DOMAIN cs}
    BY <2>2, <2>3 DEF ToSet
  <2>5. PICK i \in DOMAIN cs : Ident(cs[i]) = Ident(u)
    BY <1>1 DEF ToSet
  <2>6. at(i) \in ToSet(new) /\ Ident(at(i)) = Ident(u)
    <3>1. at(i) \in ToSet(new) /\ at(i) = Grafted(cs[i], u, keep) /\ cs[i] \in Consts
      BY <2>2, <2>4, <2>5 DEF at
    <3> QED BY <2>5, <3>1, GraftedFacts
  <2>7. ASSUME NEW d \in ToSet(new)
        PROVE  \/ d \in ToSet(cs) /\ Ident(d) # Ident(u)
               \/ \E c \in ToSet(cs) : Ident(c) = Ident(u) /\ d = Grafted(c, u, keep)
    <3>1. PICK j \in DOMAIN cs : d = at(j)
      BY <2>4
    <3>2. cs[j] \in ToSet(cs)
      BY DEF ToSet
    <3> QED BY <3>1, <3>2 DEF at
  <2>8. ASSUME NEW c \in ToSet(cs)
        PROVE  IF Ident(c) = Ident(u) THEN Grafted(c, u, keep) \in ToSet(new) ELSE c \in ToSet(new)
    <3>1. PICK j \in DOMAIN cs : c = cs[j]
      BY DEF ToSet
    <3>2. at(j) \in ToSet(new)
      BY <2>4
    <3> QED BY <3>1, <3>2 DEF at
  <2> HIDE DEF new
  <2> QED BY <2>1, <2>4, <2>6, <2>7, <2>8
<1>2. CASE ~ \E c \in ToSet(cs) : Ident(c) = Ident(u)
  <2>1. Placed(cs, u, keep) = Append(cs, u)
    BY <1>2 DEF Placed
  <2>2. Append(cs, u) \in Seq(Consts) /\ ToSet(Append(cs, u)) = ToSet(cs) \cup {u}
    BY AppendHolds
  <2> QED BY <1>2, <2>1, <2>2
<1> QED BY <1>1, <1>2

(* What a merge has made of the consts of a file after the units us: those  *)
(* units, consts of other names, and units with what was grafted to them.   *)
Regrafted(d, file, us, keep) ==
  /\ keep
  /\ \E c \in ToSet(file.consts), u \in us :
       /\ Ident(c) = Ident(u) /\ Ident(d) = Ident(u)
       /\ u.by \subseteq d.by /\ d.by \ u.by \subseteq c.by \cap LocalKeys(c, u)
       /\ Grafted(d, u, keep) = d

(* Nothing of c gets lost when units are put in its place.                  *)
Covered(c, units, keep) ==
  keep \/ \A u \in ToSet(units) : Ident(u) = Ident(c) => c.keys \subseteq u.keys

MergedTo(file, us, units, keep, cs) ==
  /\ \A d \in ToSet(cs) :
       \/ d \in us
       \/ d \in ToSet(file.consts) /\ \A u \in us : Ident(u) # Ident(d)
       \/ Regrafted(d, file, us, keep)
  /\ \A u \in us : \E d \in ToSet(cs) : Ident(d) = Ident(u)
  /\ \A c \in ToSet(file.consts) :
       \E d \in ToSet(cs) : Ident(d) = Ident(c) /\ (Covered(c, units, keep) => c.keys \subseteq d.keys)

(* Units of one name are the same.                                          *)
Agree(units) == \A u, v \in ToSet(units) : Ident(u) = Ident(v) => u = v

(* One more unit is put in.                                                 *)
LEMMA MergeStep ==
  ASSUME NEW file \in Contents, NEW units \in Seq(Consts), Agree(units), NEW keep \in BOOLEAN,
         NEW us \in SUBSET ToSet(units), NEW cs \in Seq(Consts), MergedTo(file, us, units, keep, cs),
         NEW u \in ToSet(units)
  PROVE  MergedTo(file, us \cup {u}, units, keep, Placed(cs, u, keep))
<1> DEFINE new == Placed(cs, u, keep)
           more == us \cup {u}
<1>1. /\ u \in Consts /\ \A v \in us : v \in Consts
      /\ \A c \in ToSet(cs) : c \in Consts
      /\ \A c \in ToSet(file.consts) : c \in Consts
  BY DEF ToSet, Contents
<1>2. ASSUME NEW d \in ToSet(new)
      PROVE  \/ d \in more
             \/ d \in ToSet(file.consts) /\ \A v \in more : Ident(v) # Ident(d)
             \/ Regrafted(d, file, more, keep)
  <2>1. CASE d = u
    BY <2>1
  <2>2. CASE d \in ToSet(cs) /\ Ident(d) # Ident(u)
    <3>1. CASE Regrafted(d, file, us, keep)
      BY <3>1 DEF Regrafted
    <3> QED BY <2>2, <3>1 DEF MergedTo
  <2>3. ASSUME NEW c \in ToSet(cs), Ident(c) = Ident(u), d = Grafted(c, u, keep)
        PROVE  d = u \/ Regrafted(d, file, more, keep)
    <3>1. /\ Ident(d) = Ident(u) /\ (~keep => d = u) /\ (c = u => d = u)
          /\ keep => d.by = u.by \cup (c.by \cap LocalKeys(c, u))
          /\ Grafted(d, u, keep) = d
      <4>1. c \in Consts /\ u \in Consts
        BY <1>1
      <4>2. Grafted(d, u, keep) = d
        BY <2>3, <4>1, GraftedTwice
      <4>3. /\ Ident(d) = Ident(u) /\ (~keep => d = u) /\ (c = u => d = u)
            /\ keep => d.by = u.by \cup (c.by \cap LocalKeys(c, u))
        BY <2>3, <4>1, GraftedFacts
      <4> QED BY <4>2, <4>3
    <3>2. CASE c \in us
      <4>1. c = u
        BY <2>3, <3>2 DEF Agree
      <4> QED BY <3>1, <4>1
    <3>3. CASE c \in ToSet(file.consts)
      BY <2>3, <3>1, <3>3 DEF Regrafted
    <3>4. CASE Regrafted(c, file, us, keep)
      <4>1. PICK b \in ToSet(file.consts), v \in us :
              /\ Ident(b) = Ident(v) /\ Ident(c) = Ident(v)
              /\ v.by \subseteq c.by /\ c.by \ v.by \subseteq b.by \cap LocalKeys(b, v)
        BY <3>4 DEF Regrafted
      <4>2. keep /\ v = u
        BY <2>3, <3>4, <4>1 DEF Agree, Regrafted
      <4>3. d.by \ u.by \subseteq b.by \cap LocalKeys(b, u)
        BY <3>1, <4>1, <4>2
      <4> QED BY <3>1, <4>1, <4>2, <4>3 DEF Regrafted
    <3> QED BY <3>2, <3>3, <3>4 DEF MergedTo
  <2>4. \/ d = u
        \/ d \in ToSet(cs) /\ Ident(d) # Ident(u)
        \/ \E c \in ToSet(cs) : Ident(c) = Ident(u) /\ d = Grafted(c, u, keep)
    BY <1>1, PlacedFacts
  <2> QED BY <2>1, <2>2, <2>3, <2>4
<1>3. ASSUME NEW c \in ToSet(cs)
      PROVE  \E d \in ToSet(new) : /\ Ident(d) = Ident(c)
                                   /\ IF Ident(c) = Ident(u) THEN d = Grafted(c, u, keep) ELSE d = c
  <2>1. CASE Ident(c) = Ident(u)
    <3>1. Grafted(c, u, keep) \in ToSet(new) /\ Ident(Grafted(c, u, keep)) = Ident(u)
      BY <1>1, <2>1, GraftedFacts, PlacedFacts
    <3> QED BY <2>1, <3>1
  <2>2. CASE Ident(c) # Ident(u)
    BY <1>1, <2>2, PlacedFacts
  <2> QED BY <2>1, <2>2
<1>4. ASSUME NEW v \in more PROVE \E d \in ToSet(new) : Ident(d) = Ident(v)
  BY <1>1, <1>3, PlacedFacts DEF MergedTo
<1>5. ASSUME NEW c \in ToSet(file.consts)
      PROVE  \E d \in ToSet(new) : Ident(d) = Ident(c) /\ (Covered(c, units, keep) => c.keys \subseteq d.keys)
  <2>1. PICK b \in ToSet(cs) : Ident(b) = Ident(c) /\ (Covered(c, units, keep) => c.keys \subseteq b.keys)
    BY DEF MergedTo
  <2>2. PICK d \in ToSet(new) : /\ Ident(d) = Ident(b)
                                /\ IF Ident(b) = Ident(u) THEN d = Grafted(b, u, keep) ELSE d = b
    BY <1>3
  <2>3. CASE Ident(b) = Ident(u)
    <3>1. (keep => b.keys \subseteq d.keys) /\ (~keep => d = u)
      <4>1. b \in Consts /\ u \in Consts /\ d = Grafted(b, u, keep)
        BY <1>1, <2>2, <2>3
      <4> QED BY <2>3, <4>1, GraftedFacts
    <3>2. Covered(c, units, keep) => keep \/ c.keys \subseteq u.keys
      BY <2>1, <2>3 DEF Covered
    <3> QED BY <2>1, <2>2, <3>1, <3>2
  <2>4. CASE Ident(b) # Ident(u)
    BY <2>1, <2>2, <2>4
  <2> QED BY <2>3, <2>4
<1> QED BY <1>2, <1>4, <1>5 DEF MergedTo

(* What a merge makes of a file: m.                                         *)
Merges(m, file, units, keep) ==
  /\ m \in Contents /\ m.there
  /\ m.imports = AddImports(file.imports, UNION {UnitImports(u) : u \in ToSet(units)})
  /\ \A d \in ToSet(m.consts) :
       \/ d \in ToSet(units)
       \/ keep /\ d \in ToSet(file.consts) /\ \A u \in ToSet(units) : Ident(u) # Ident(d)
       \/ Regrafted(d, file, ToSet(units), keep)
  /\ \A u \in ToSet(units) : \E d \in ToSet(m.consts) : Ident(d) = Ident(u)
  /\ \A c \in ToSet(file.consts) :
       (keep \/ LocalObjects(file, units) = {}) /\ Covered(c, units, keep) =>
         \E d \in ToSet(m.consts) : Ident(d) = Ident(c) /\ c.keys \subseteq d.keys

(* The merge of all units, folded, comes to that.                           *)
LEMMA MergeFacts ==
  ASSUME NEW file \in Contents, NEW units \in Seq(Consts), Agree(units), NEW keep \in BOOLEAN
  PROVE  Merges(MergeUnits(file, units, keep), file, units, keep)
<1> DEFINE m == MergeUnits(file, units, keep)
           start == [consts |-> file.consts, keep |-> keep]
           first(i) == {units[j] : j \in 1..i}
           P == [i \in 0..Len(units) |->
                   {s \in [consts : Seq(Consts), keep : {keep}] :
                      MergedTo(file, first(i), units, keep, s.consts)}]
           placed == Merging!Fold(start, units).consts
           stays == {c \in ToSet(placed) : keep \/ Ident(c) \notin LocalObjects(file, units)}
<1>1. file.consts \in Seq(Consts) /\ file.imports \in SUBSET Imports
  BY DEF Contents
<1>2. /\ first(0) = {} /\ first(Len(units)) = ToSet(units) /\ 0 \in 0..Len(units) /\ Len(units) \in 0..Len(units)
      /\ \A i \in 1..Len(units) : /\ units[i] \in ToSet(units) /\ i \in 0..Len(units) /\ i - 1 \in 0..Len(units)
                                  /\ first(i) = first(i - 1) \cup {units[i]} /\ first(i - 1) \in SUBSET ToSet(units)
  BY DEF ToSet
<1>3. start \in P[0]
  <2>1. MergedTo(file, {}, units, keep, file.consts)
    BY DEF MergedTo
  <2>2. start \in [consts : Seq(Consts), keep : {keep}] /\ start.consts = file.consts
    BY <1>1
  <2> HIDE DEF first, start
  <2> QED BY <1>2, <2>1, <2>2
<1>4. ASSUME NEW i \in 1..Len(units), NEW s \in P[i - 1] PROVE PlaceNext(s, units[i]) \in P[i]
  <2> HIDE DEF first
  <2>1. PICK cs \in Seq(Consts) :
          s = [consts |-> cs, keep |-> keep] /\ MergedTo(file, first(i - 1), units, keep, cs)
    BY <1>2
  <2>2. PlaceNext(s, units[i]) = [consts |-> Placed(cs, units[i], keep), keep |-> keep]
    BY <2>1 DEF PlaceNext
  <2>3. MergedTo(file, first(i), units, keep, Placed(cs, units[i], keep))
    BY <1>2, <2>1, MergeStep
  <2>4. units[i] \in Consts
    OBVIOUS
  <2>5. Placed(cs, units[i], keep) \in Seq(Consts)
    BY <2>4, PlacedFacts
  <2>6. /\ PlaceNext(s, units[i]) \in [consts : Seq(Consts), keep : {keep}]
        /\ PlaceNext(s, units[i]).consts = Placed(cs, units[i], keep)
    BY <2>2, <2>5
  <2> QED BY <1>2, <2>3, <2>6
<1> HIDE DEF P
<1>5. Merged!Fold(start, units) \in P[Len(units)]
  BY <1>3, <1>4, Merged!FoldThrough
<1>6. Merging!Fold(start, units) = Merged!Fold(start, units)
  BY DEF Merging!Fold, Merged!Fold
<1> HIDE DEF start, first
<1>7. placed \in Seq(Consts) /\ MergedTo(file, ToSet(units), units, keep, placed)
  BY <1>2, <1>5, <1>6 DEF P
<1>8. /\ m.consts = Among(placed, stays) /\ m.there = TRUE
      /\ m.imports = AddImports(file.imports, UNION {UnitImports(u) : u \in ToSet(units)})
      /\ m = [consts |-> m.consts, there |-> m.there, imports |-> m.imports]
  BY DEF MergeUnits, start
<1> HIDE DEF placed, m
<1>9. m.consts \in Seq(Consts) /\ ToSet(m.consts) = stays
  BY <1>7, <1>8, AmongFacts
<1>10. m.imports \in SUBSET Imports
  <2>1. \A u \in ToSet(units) : u.by \subseteq Tables
    BY DEF ToSet, Consts
  <2>2. UNION {UnitImports(u) : u \in ToSet(units)} \subseteq Imports
    BY <2>1 DEF UnitImports, Imports
  <2> QED BY <1>1, <1>8, <2>2 DEF AddImports
<1>11. m \in Contents
  <2>1. [consts |-> m.consts, there |-> m.there, imports |-> m.imports] \in Contents
    BY <1>8, <1>9, <1>10 DEF Contents
  <2> QED BY <1>8, <2>1
<1>12. ASSUME NEW d \in ToSet(m.consts)
       PROVE  \/ d \in ToSet(units)
              \/ keep /\ d \in ToSet(file.consts) /\ \A u \in ToSet(units) : Ident(u) # Ident(d)
              \/ Regrafted(d, file, ToSet(units), keep)
  <2>1. d \in ToSet(placed) /\ (keep \/ Ident(d) \notin LocalObjects(file, units))
    BY <1>9
  <2>2. CASE d \in ToSet(file.consts) /\ \A u \in ToSet(units) : Ident(u) # Ident(d)
    BY <2>1, <2>2 DEF LocalObjects
  <2> QED BY <1>7, <2>1, <2>2 DEF MergedTo
<1>13. ASSUME NEW u \in ToSet(units) PROVE \E d \in ToSet(m.consts) : Ident(d) = Ident(u)
  <2>1. PICK d \in ToSet(placed) : Ident(d) = Ident(u)
    BY <1>7 DEF MergedTo
  <2>2. Ident(u) \notin LocalObjects(file, units)
    BY DEF LocalObjects
  <2> QED BY <1>9, <2>1, <2>2
<1>14. ASSUME NEW c \in ToSet(file.consts), keep \/ LocalObjects(file, units) = {}, Covered(c, units, keep)
       PROVE  \E d \in ToSet(m.consts) : Ident(d) = Ident(c) /\ c.keys \subseteq d.keys
  BY <1>7, <1>9, <1>14 DEF MergedTo
<1> QED BY <1>8, <1>11, <1>12, <1>13, <1>14 DEF m, Merges

(* A file that a merge leaves as it is: its units are there, it has nothing *)
(* they would replace, add or remove.                                       *)
Unmoved(file, us, keep) ==
  /\ file.there
  /\ \A u \in us : \E d \in ToSet(file.consts) : Ident(d) = Ident(u)
  /\ \A u \in us, d \in ToSet(file.consts) : Ident(d) = Ident(u) => Grafted(d, u, keep) = d
  /\ keep \/ \A d \in ToSet(file.consts) : \E u \in us : Ident(d) = Ident(u)

ImportsAll(file, us) ==
  \A u \in us : \A t \in u.by :
    /\ \E imp \in file.imports : imp.of = t
    /\ \A imp \in file.imports : imp.of = t => imp.path = "sibling"

LEMMA MergeUnmoved ==
  ASSUME NEW file \in Contents, NEW units \in Seq(Consts), NEW keep \in BOOLEAN,
         Unmoved(file, ToSet(units), keep), ImportsAll(file, ToSet(units))
  PROVE  MergeUnits(file, units, keep) = file
<1> DEFINE cs == file.consts
           start == [consts |-> cs, keep |-> keep]
           P == [i \in 0..Len(units) |-> {start}]
           new == UNION {UnitImports(u) : u \in ToSet(units)}
           m == MergeUnits(file, units, keep)
<1>1. cs \in Seq(Consts) /\ file.imports \in SUBSET Imports /\ file.there = TRUE
  BY DEF Contents, Unmoved
<1>2. Len(units) \in Nat /\ 0 \in 0..Len(units) /\ Len(units) \in 0..Len(units)
  BY LenProperties
<1>3. ASSUME NEW u \in ToSet(units) PROVE Placed(cs, u, keep) = cs
  <2>1. \E c \in ToSet(cs) : Ident(c) = Ident(u)
    BY DEF Unmoved
  <2>2. \A i \in DOMAIN cs : cs[i] \in ToSet(cs)
    BY DEF ToSet
  <2>3. \A i \in DOMAIN cs : Ident(cs[i]) = Ident(u) => Grafted(cs[i], u, keep) = cs[i]
    BY <2>2 DEF Unmoved
  <2>4. Placed(cs, u, keep) =
          [i \in DOMAIN cs |-> IF Ident(cs[i]) = Ident(u) THEN Grafted(cs[i], u, keep) ELSE cs[i]]
    BY <2>1 DEF Placed
  <2>5. Placed(cs, u, keep) = [i \in DOMAIN cs |-> cs[i]]
    BY <2>3, <2>4
  <2> QED BY <1>1, <2>5
<1>4. ASSUME NEW i \in 1..Len(units), NEW s \in P[i - 1] PROVE PlaceNext(s, units[i]) \in P[i]
  <2>1. i - 1 \in 0..Len(units) /\ i \in 0..Len(units) /\ units[i] \in ToSet(units)
    BY DEF ToSet
  <2>2. s = start
    BY <2>1
  <2>3. PlaceNext(s, units[i]) = [consts |-> Placed(cs, units[i], keep), keep |-> keep]
    BY <2>2 DEF PlaceNext
  <2> QED BY <1>3, <2>1, <2>3
<1>5. start \in P[0]
  BY <1>2
<1> HIDE DEF P
<1>6. Merged!Fold(start, units) \in P[Len(units)]
  BY <1>4, <1>5, Merged!FoldThrough
<1>7. Merging!Fold(start, units) = Merged!Fold(start, units)
  BY DEF Merging!Fold, Merged!Fold
<1>8. Merging!Fold(start, units).consts = cs
  BY <1>2, <1>6, <1>7 DEF P
<1> DEFINE stays == {c \in ToSet(cs) : keep \/ Ident(c) \notin LocalObjects(file, units)}
<1>9. m = [consts |-> Among(cs, stays), there |-> TRUE, imports |-> AddImports(file.imports, new)]
  BY <1>8 DEF MergeUnits
<1>10. Among(cs, stays) = cs
  <2>1. ToSet(cs) \subseteq stays
    BY DEF LocalObjects, Unmoved
  <2> HIDE DEF stays
  <2> QED BY <1>1, <2>1, AmongAll
<1>11. AddImports(file.imports, new) = file.imports
  <2>1. \A n : n \in new <=> \E u \in ToSet(units) : \E t \in u.by : n = [of |-> t, path |-> "sibling"]
    BY DEF UnitImports
  <2>2. ASSUME NEW imp \in file.imports, NEW t, imp.of = t, imp.path = "sibling"
        PROVE  imp = [of |-> t, path |-> "sibling"]
    BY <1>1, <2>2 DEF Imports
  <2>3. \A n \in new : n \in file.imports
    BY <2>1, <2>2 DEF ImportsAll
  <2>4. ASSUME NEW imp \in file.imports, NEW n \in new, n.of = imp.of PROVE imp \in new
    <3>1. PICK u \in ToSet(units) : \E t \in u.by : n = [of |-> t, path |-> "sibling"]
      BY <2>1
    <3>2. PICK t \in u.by : n = [of |-> t, path |-> "sibling"]
      BY <3>1
    <3>3. imp.of = t /\ imp.path = "sibling"
      BY <2>4, <3>2 DEF ImportsAll
    <3> QED BY <2>1, <2>2, <3>3
  <2> HIDE DEF new
  <2> QED BY <2>3, <2>4 DEF AddImports
<1>12. file = [consts |-> cs, there |-> TRUE, imports |-> file.imports]
  BY <1>1 DEF Contents
<1> HIDE DEF m, new
<1> QED BY <1>9, <1>10, <1>11, <1>12 DEF m

-----------------------------------------------------------------------------
(* Sorting.  The recursion of Sorted, and what it goes down by: the tables  *)
(* that are not being visited and, among as many of those, the tables to    *)
(* visit.                                                                   *)
Visits(pulled) == [out : Seq(pulled), stack : SUBSET pulled, us : Seq(pulled)]

DepsOf(v, ts, pulled) ==
  [out |-> v.out, stack |-> v.stack \cup {Head(v.us)}, us |-> Among(ts, Direct(Head(v.us), pulled))]

NextOut(g, v, ts, pulled) ==
  IF Head(v.us) \in v.stack \cup ToSet(v.out) THEN v.out
  ELSE Append(g[DepsOf(v, ts, pulled)], Head(v.us))

Visit(g, v, ts, pulled) ==
  IF v.us = <<>> THEN v.out
  ELSE g[[out |-> NextOut(g, v, ts, pulled), stack |-> v.stack, us |-> Tail(v.us)]]

Rank(v, ts, pulled) == Cardinality(pulled \ v.stack) * (Len(ts) + 1) + Len(v.us)

(* The rank of a visit is a number.                                         *)
LEMMA RankIsNat ==
  ASSUME NEW pulled, IsFiniteSet(pulled), NEW ts \in Seq(pulled), NEW v \in Visits(pulled)
  PROVE  Rank(v, ts, pulled) \in Nat
<1>1. Cardinality(pulled \ v.stack) \in Nat
  BY FS_Difference, FS_CardinalityType
<1>2. Len(v.us) \in Nat /\ Len(ts) \in Nat
  BY LenProperties DEF Visits
<1> DEFINE a == Cardinality(pulled \ v.stack)
           b == Len(ts) + 1
<1>3. a \in Nat /\ b \in Nat
  BY <1>1, <1>2
<1> HIDE DEF a, b
<1>4. a * b \in Nat
  BY <1>3
<1> QED BY <1>2, <1>4 DEF Rank, a, b

(* What follows a visit, after its first table, has a lower rank.           *)
LEMMA RankFalls ==
  ASSUME NEW pulled, IsFiniteSet(pulled), NEW ts \in Seq(pulled), NEW v \in Visits(pulled), v.us # <<>>
  PROVE  /\ Head(v.us) \in pulled /\ Tail(v.us) \in Seq(pulled)
         /\ ToSet(v.us) = {Head(v.us)} \cup ToSet(Tail(v.us))
         /\ \A o \in Seq(pulled) :
              LET w == [out |-> o, stack |-> v.stack, us |-> Tail(v.us)]
              IN  w \in Visits(pulled) /\ Rank(w, ts, pulled) < Rank(v, ts, pulled)
<1>1. v.us \in Seq(pulled) /\ v.out \in Seq(pulled) /\ v.stack \in SUBSET pulled
  BY DEF Visits
<1>2. /\ Head(v.us) \in pulled /\ Tail(v.us) \in Seq(pulled) /\ Len(Tail(v.us)) = Len(v.us) - 1
      /\ Len(v.us) \in Nat /\ Len(v.us) >= 1
  BY <1>1, EmptySeq, HeadTailProperties, LenProperties
<1>3. ToSet(v.us) = {Head(v.us)} \cup ToSet(Tail(v.us))
  <2>1. \A i \in 1..Len(v.us) : i = 1 \/ (i - 1 \in 1..Len(Tail(v.us)) /\ v.us[i] = Tail(v.us)[i - 1])
    BY <1>1, <1>2
  <2>2. \A i \in 1..Len(Tail(v.us)) : i + 1 \in 1..Len(v.us) /\ Tail(v.us)[i] = v.us[i + 1]
    BY <1>1, <1>2
  <2>3. v.us[1] = Head(v.us) /\ 1 \in 1..Len(v.us)
    BY <1>1, <1>2
  <2>4. DOMAIN v.us = 1..Len(v.us) /\ DOMAIN Tail(v.us) = 1..Len(Tail(v.us))
    BY <1>1, <1>2
  <2>5. ASSUME NEW x \in ToSet(v.us) PROVE x = Head(v.us) \/ x \in ToSet(Tail(v.us))
    BY <2>1, <2>3, <2>4 DEF ToSet
  <2>6. ASSUME NEW x \in ToSet(Tail(v.us)) PROVE x \in ToSet(v.us)
    BY <2>2, <2>4 DEF ToSet
  <2>7. Head(v.us) \in ToSet(v.us)
    BY <2>3, <2>4 DEF ToSet
  <2> QED BY <2>5, <2>6, <2>7
<1>4. ASSUME NEW o \in Seq(pulled)
      PROVE  LET w == [out |-> o, stack |-> v.stack, us |-> Tail(v.us)]
             IN  w \in Visits(pulled) /\ Rank(w, ts, pulled) < Rank(v, ts, pulled)
  <2> DEFINE w == [out |-> o, stack |-> v.stack, us |-> Tail(v.us)]
             a == Cardinality(pulled \ v.stack) * (Len(ts) + 1)
  <2>1. w \in Visits(pulled) /\ w.stack = v.stack /\ w.us = Tail(v.us)
    BY <1>1, <1>2 DEF Visits
  <2>2. Rank(w, ts, pulled) = a + (Len(v.us) - 1) /\ Rank(v, ts, pulled) = a + Len(v.us)
    BY <1>2, <2>1 DEF Rank
  <2>3. Rank(v, ts, pulled) \in Nat
    BY RankIsNat
  <2>4. a \in Nat
    <3>1. IsFiniteSet(pulled \ v.stack)
      BY FS_Difference
    <3>2. Cardinality(pulled \ v.stack) \in Nat
      BY <3>1, FS_CardinalityType
    <3>3. Len(ts) + 1 \in Nat
      BY LenProperties
    <3> DEFINE c == Cardinality(pulled \ v.stack)
               n == Len(ts) + 1
    <3> HIDE DEF c, n
    <3>4. c * n \in Nat
      BY <3>2, <3>3 DEF c, n
    <3> QED BY <3>4 DEF c, n
  <2> HIDE DEF a, w
  <2>5. Rank(w, ts, pulled) < Rank(v, ts, pulled)
    BY <1>2, <2>2, <2>4
  <2> QED BY <2>1, <2>5 DEF w
<1> QED BY <1>2, <1>3, <1>4

(* A table's references are visited at a lower rank.                        *)
LEMMA DepsFacts ==
  ASSUME NEW pulled, IsFiniteSet(pulled), NEW ts \in Seq(pulled), NEW v \in Visits(pulled), v.us # <<>>,
         Head(v.us) \notin v.stack
  PROVE  LET w == DepsOf(v, ts, pulled)
         IN  /\ w \in Visits(pulled) /\ Rank(w, ts, pulled) < Rank(v, ts, pulled)
             /\ w.out = v.out /\ w.stack = v.stack \cup {Head(v.us)}
             /\ ToSet(w.us) = ToSet(ts) \cap Direct(Head(v.us), pulled)
<1>1. v.us \in Seq(pulled) /\ v.out \in Seq(pulled) /\ v.stack \in SUBSET pulled
  BY DEF Visits
<1>2. Head(v.us) \in pulled /\ Len(v.us) \in Nat /\ Len(v.us) >= 1
  BY <1>1, RankFalls, EmptySeq, LenProperties
<1> DEFINE w == DepsOf(v, ts, pulled)
           t == Head(v.us)
           deps == Among(ts, Direct(t, pulled))
<1>3. deps \in Seq(pulled) /\ ToSet(deps) = ToSet(ts) \cap Direct(t, pulled) /\ Len(deps) <= Len(ts)
  BY AmongFacts
<1> HIDE DEF deps
<1>4. w \in Visits(pulled) /\ w.out = v.out /\ w.stack = v.stack \cup {t} /\ w.us = deps
  BY <1>1, <1>2, <1>3 DEF Visits, DepsOf, deps
<1>5. Cardinality(pulled \ v.stack) = Cardinality(pulled \ w.stack) + 1
  <2>1. pulled \ w.stack = (pulled \ v.stack) \ {t} /\ t \in pulled \ v.stack
    BY <1>2, <1>4
  <2>2. IsFiniteSet(pulled \ v.stack)
    BY FS_Difference
  <2> HIDE DEF w, t
  <2>3. Cardinality((pulled \ v.stack) \ {t}) = Cardinality(pulled \ v.stack) - 1
    BY <2>1, <2>2, FS_RemoveElement
  <2>4. Cardinality(pulled \ v.stack) \in Nat
    BY <2>2, FS_CardinalityType
  <2>5. Cardinality(pulled \ w.stack) = Cardinality(pulled \ v.stack) - 1
    BY <2>1, <2>3
  <2> QED BY <2>4, <2>5
<1> DEFINE a == Cardinality(pulled \ w.stack)
           b == Len(ts) + 1
<1>6. a \in Nat /\ b \in Nat /\ Len(deps) \in Nat /\ Len(deps) < b
  <2>1. a \in Nat
    BY FS_Difference, FS_CardinalityType
  <2> QED BY <1>3, <2>1, LenProperties
<1>7. Rank(w, ts, pulled) = a * b + Len(deps) /\ Rank(v, ts, pulled) = (a + 1) * b + Len(v.us)
  BY <1>4, <1>5 DEF Rank
<1> HIDE DEF a, b, w
<1>8. (a + 1) * b = a * b + b /\ a * b \in Nat
  BY <1>6
<1> DEFINE ab == a * b
<1>9. ab \in Nat /\ Rank(w, ts, pulled) = ab + Len(deps) /\ Rank(v, ts, pulled) = (ab + b) + Len(v.us)
  BY <1>7, <1>8
<1> HIDE DEF ab
<1>10. Rank(w, ts, pulled) < Rank(v, ts, pulled)
  <2>1. \A x, y, n, l \in Nat : l < y => x + l < (x + y) + n
    OBVIOUS
  <2> QED BY <1>2, <1>6, <1>9, <2>1
<1> QED BY <1>3, <1>4, <1>10 DEF w

(* A visit looks only at visits of lower rank.                              *)
LEMMA VisitIsLocal ==
  ASSUME NEW pulled, IsFiniteSet(pulled), NEW ts \in Seq(pulled), NEW v \in Visits(pulled),
         NEW g, NEW h \in [Visits(pulled) -> Seq(pulled)],
         \A w \in Visits(pulled) : Rank(w, ts, pulled) < Rank(v, ts, pulled) => g[w] = h[w]
  PROVE  /\ v.us # <<>> => NextOut(g, v, ts, pulled) \in Seq(pulled)
         /\ Visit(g, v, ts, pulled) = Visit(h, v, ts, pulled)
         /\ Visit(g, v, ts, pulled) \in Seq(pulled)
<1>0. v.out \in Seq(pulled)
  BY DEF Visits
<1>1. CASE v.us = <<>>
  BY <1>0, <1>1 DEF Visit
<1>2. CASE v.us # <<>>
  <2>1. /\ Head(v.us) \in pulled
        /\ \A o \in Seq(pulled) :
             LET w == [out |-> o, stack |-> v.stack, us |-> Tail(v.us)]
             IN  w \in Visits(pulled) /\ Rank(w, ts, pulled) < Rank(v, ts, pulled)
        /\ Head(v.us) \notin v.stack =>
             LET w == DepsOf(v, ts, pulled)
             IN  w \in Visits(pulled) /\ Rank(w, ts, pulled) < Rank(v, ts, pulled)
    BY <1>2, RankFalls, DepsFacts
  <2> DEFINE t == Head(v.us)
             deps == DepsOf(v, ts, pulled)
             o == NextOut(g, v, ts, pulled)
             w == [out |-> o, stack |-> v.stack, us |-> Tail(v.us)]
  <2>2. NextOut(h, v, ts, pulled) = o /\ o \in Seq(pulled)
    <3>1. CASE t \in v.stack \cup ToSet(v.out)
      BY <1>0, <3>1 DEF NextOut
    <3>2. CASE t \notin v.stack \cup ToSet(v.out)
      <4>1. deps \in Visits(pulled) /\ Rank(deps, ts, pulled) < Rank(v, ts, pulled)
        BY <2>1, <3>2
      <4> HIDE DEF deps
      <4>2. g[deps] = h[deps] /\ g[deps] \in Seq(pulled)
        BY <4>1
      <4>3. o = Append(g[deps], t) /\ NextOut(h, v, ts, pulled) = Append(h[deps], t)
        BY <3>2 DEF NextOut, deps
      <4> QED BY <2>1, <4>2, <4>3, AppendHolds
    <3> QED BY <3>1, <3>2
  <2> HIDE DEF o
  <2>3. w \in Visits(pulled) /\ Rank(w, ts, pulled) < Rank(v, ts, pulled)
    BY <2>1, <2>2
  <2>4. Visit(g, v, ts, pulled) = g[w] /\ Visit(h, v, ts, pulled) = h[w]
    BY <1>2, <2>2, Zenon DEF Visit, o
  <2> HIDE DEF w
  <2>5. g[w] = h[w] /\ g[w] \in Seq(pulled)
    BY <2>3
  <2> QED BY <1>2, <2>2, <2>4, <2>5 DEF o
<1> QED BY <1>1, <1>2

(* g is right up to rank n.                                                 *)
RightTo(g, n, ts, pulled) ==
  /\ g \in [Visits(pulled) -> Seq(pulled)]
  /\ \A v \in Visits(pulled) : Rank(v, ts, pulled) < n => g[v] = Visit(g, v, ts, pulled)

(* Two functions that are right up to a rank agree below it.                *)
LEMMA RightIsUnique ==
  ASSUME NEW pulled, IsFiniteSet(pulled), NEW ts \in Seq(pulled)
  PROVE  \A n \in Nat : \A g, h : RightTo(g, n, ts, pulled) /\ RightTo(h, n, ts, pulled) =>
           \A v \in Visits(pulled) : Rank(v, ts, pulled) < n => g[v] = h[v]
<1> DEFINE D == Visits(pulled)
           r(v) == Rank(v, ts, pulled)
           Same(n) == \A g, h : RightTo(g, n, ts, pulled) /\ RightTo(h, n, ts, pulled) =>
                        \A v \in D : r(v) < n => g[v] = h[v]
           N == {n \in Nat : Same(n)}
<1>0. \A v \in D : r(v) \in Nat
  BY RankIsNat
<1>1. 0 \in N
  BY <1>0
<1>2. ASSUME NEW n \in Nat, n \in N PROVE n + 1 \in N
  <2> SUFFICES ASSUME NEW g, NEW h, RightTo(g, n + 1, ts, pulled), RightTo(h, n + 1, ts, pulled),
                      NEW v \in D, r(v) < n + 1
               PROVE  g[v] = h[v]
    OBVIOUS
  <2>1. RightTo(g, n, ts, pulled) /\ RightTo(h, n, ts, pulled)
    BY <1>0 DEF RightTo
  <2>2. \A w \in D : r(w) < n => g[w] = h[w]
    BY <1>2, <2>1
  <2>3. \A w \in D : r(w) < r(v) => g[w] = h[w]
    BY <1>0, <2>2
  <2>4. g \in [D -> Seq(pulled)] /\ h \in [D -> Seq(pulled)]
    BY DEF RightTo
  <2>5. Visit(g, v, ts, pulled) = Visit(h, v, ts, pulled)
    BY <2>3, <2>4, VisitIsLocal
  <2> QED BY <2>5 DEF RightTo
<1> HIDE DEF N
<1>3. Nat \subseteq N
  BY <1>1, <1>2, Chosen!Induct
<1> QED BY <1>3 DEF N

(* For each rank there is one that is right up to it.                       *)
LEMMA RightExists ==
  ASSUME NEW pulled, IsFiniteSet(pulled), NEW ts \in Seq(pulled)
  PROVE  \A n \in Nat : \E g : RightTo(g, n, ts, pulled)
<1> DEFINE D == Visits(pulled)
           r(v) == Rank(v, ts, pulled)
           N == {n \in Nat : \E g : RightTo(g, n, ts, pulled)}
<1>0. \A v \in D : r(v) \in Nat
  BY RankIsNat
<1>1. 0 \in N
  <2> DEFINE g == [v \in D |-> v.out]
  <2>1. g \in [D -> Seq(pulled)]
    BY DEF Visits
  <2>2. RightTo(g, 0, ts, pulled)
    BY <1>0, <2>1 DEF RightTo
  <2> QED BY <2>2
<1>2. ASSUME NEW n \in Nat, n \in N PROVE n + 1 \in N
  <2>1. PICK g : RightTo(g, n, ts, pulled)
    BY <1>2
  <2> DEFINE h == [v \in D |-> IF r(v) < n THEN g[v] ELSE Visit(g, v, ts, pulled)]
  <2>2. g \in [D -> Seq(pulled)] /\ \A v \in D : r(v) < n => g[v] = Visit(g, v, ts, pulled)
    BY <2>1 DEF RightTo
  <2>3. \A v \in D : Visit(g, v, ts, pulled) \in Seq(pulled)
    BY <2>2, VisitIsLocal
  <2>4. h \in [D -> Seq(pulled)] /\ \A v \in D : r(v) < n => h[v] = g[v]
    BY <2>2, <2>3
  <2>5. \A v \in D : h[v] = Visit(g, v, ts, pulled)
    BY <2>2
  <2> HIDE DEF h
  <2>6. ASSUME NEW v \in D, r(v) < n + 1 PROVE h[v] = Visit(h, v, ts, pulled)
    <3>1. \A w \in D : r(w) < r(v) => g[w] = h[w]
      BY <1>0, <2>4, <2>6
    <3>2. Visit(g, v, ts, pulled) = Visit(h, v, ts, pulled)
      BY <2>2, <2>4, <3>1, VisitIsLocal
    <3> QED BY <2>5, <3>2
  <2>7. RightTo(h, n + 1, ts, pulled)
    BY <2>4, <2>6 DEF RightTo
  <2> QED BY <2>7
<1> HIDE DEF N
<1>3. Nat \subseteq N
  BY <1>1, <1>2, Chosen!Induct
<1> QED BY <1>3 DEF N

(* So there is the function that Sorted speaks of.                          *)
LEMMA SortedRuns ==
  ASSUME NEW pulled, IsFiniteSet(pulled), NEW ts \in Seq(pulled)
  PROVE  \E g \in [Visits(pulled) -> Seq(pulled)] :
           /\ \A v \in Visits(pulled) : g[v] = Visit(g, v, ts, pulled)
           /\ Sorted(ts, pulled) = g[[out |-> <<>>, stack |-> {}, us |-> ts]]
<1> DEFINE D == Visits(pulled)
           r(v) == Rank(v, ts, pulled)
           right(n) == CHOOSE g : RightTo(g, n, ts, pulled)
           f == [v \in D |-> right(r(v) + 1)[v]]
           Goes(g) == g = [v \in Visits(pulled) |-> Visit(g, v, ts, pulled)]
           visit == CHOOSE g : Goes(g)
<1>0. \A v \in D : r(v) \in Nat
  BY RankIsNat
<1>1. \A n \in Nat : RightTo(right(n), n, ts, pulled)
  BY RightExists, Zenon
<1> HIDE DEF right
<1>2. \A v \in D : \A n \in Nat : r(v) < n => f[v] = right(n)[v]
  <2> SUFFICES ASSUME NEW v \in D, NEW n \in Nat, r(v) < n PROVE f[v] = right(n)[v]
    OBVIOUS
  <2>1. f[v] = right(r(v) + 1)[v]
    OBVIOUS
  <2>2. RightTo(right(n), n, ts, pulled) /\ RightTo(right(r(v) + 1), r(v) + 1, ts, pulled)
    BY <1>0, <1>1
  <2>3. RightTo(right(n), r(v) + 1, ts, pulled)
    <3>1. \A w \in D : r(w) < r(v) + 1 => r(w) < n
      BY <1>0
    <3> QED BY <2>2, <3>1 DEF RightTo
  <2>4. r(v) + 1 \in Nat /\ r(v) < r(v) + 1
    BY <1>0
  <2> QED BY <2>1, <2>2, <2>3, <2>4, RightIsUnique
<1>3. f \in [D -> Seq(pulled)]
  <2>1. \A v \in D : right(r(v) + 1)[v] \in Seq(pulled)
    <3> TAKE v \in D
    <3>1. RightTo(right(r(v) + 1), r(v) + 1, ts, pulled)
      BY <1>0, <1>1
    <3> QED BY <3>1 DEF RightTo
  <2> QED BY <2>1
<1> HIDE DEF f
<1>4. ASSUME NEW v \in D PROVE f[v] = Visit(f, v, ts, pulled)
  <2> DEFINE g == right(r(v) + 1)
  <2>1. RightTo(g, r(v) + 1, ts, pulled) /\ r(v) < r(v) + 1 /\ r(v) + 1 \in Nat
    BY <1>0, <1>1
  <2>2. g \in [D -> Seq(pulled)] /\ g[v] = Visit(g, v, ts, pulled)
    BY <2>1 DEF RightTo
  <2>3. \A w \in D : r(w) < r(v) => g[w] = f[w]
    BY <1>0, <1>2, <2>1
  <2>4. g[v] = f[v]
    BY <1>2, <2>1
  <2> HIDE DEF g
  <2>5. Visit(g, v, ts, pulled) = Visit(f, v, ts, pulled)
    BY <1>3, <2>2, <2>3, VisitIsLocal
  <2> QED BY <2>2, <2>4, <2>5
<1>5. Goes(f)
  <2>1. f = [v \in D |-> f[v]] /\ \A v \in D : f[v] = Visit(f, v, ts, pulled)
    BY <1>3, <1>4
  <2> QED BY <2>1
<1>6. Goes(visit)
  BY <1>5, Zenon
<1>7. Sorted(ts, pulled) = visit[[out |-> <<>>, stack |-> {}, us |-> ts]]
  BY Zenon DEF Sorted, Visit, Visits, NextOut, DepsOf
<1> HIDE DEF visit
<1>8. DOMAIN visit = D /\ \A v \in D : visit[v] = Visit(visit, v, ts, pulled)
  BY <1>6
<1>9. \A v \in D : visit[v] = f[v]
  <2> DEFINE N == {n \in Nat : \A v \in D : r(v) < n => visit[v] = f[v]}
  <2>1. 0 \in N
    BY <1>0
  <2>2. ASSUME NEW n \in Nat, n \in N PROVE n + 1 \in N
    <3> SUFFICES ASSUME NEW v \in D, r(v) < n + 1 PROVE visit[v] = f[v]
      OBVIOUS
    <3>1. \A w \in D : r(w) < r(v) => visit[w] = f[w]
      BY <1>0, <2>2
    <3>2. Visit(visit, v, ts, pulled) = Visit(f, v, ts, pulled)
      BY <1>3, <3>1, VisitIsLocal
    <3> QED BY <1>4, <1>8, <3>2
  <2> HIDE DEF N
  <2>3. Nat \subseteq N
    BY <2>1, <2>2, Chosen!Induct
  <2>4. ASSUME NEW v \in D PROVE visit[v] = f[v]
    <3>1. r(v) + 1 \in N /\ r(v) < r(v) + 1
      BY <1>0, <2>3
    <3> QED BY <3>1 DEF N
  <2> QED BY <2>4
<1>10. [out |-> <<>>, stack |-> {}, us |-> ts] \in D
  BY EmptySeq DEF Visits
<1> QED BY <1>3, <1>4, <1>7, <1>9, <1>10

-----------------------------------------------------------------------------
(* What is reached from a node, itself included.                            *)
LEMMA ReachesItself ==
  ASSUME NEW S, NEW g \in [S -> SUBSET S], NEW n \in S
  PROVE  n \in Reachable(n, g)
BY DEF Reachable

(* A successor of what is reached is reached.                               *)
LEMMA ReachesNext ==
  ASSUME NEW S, NEW g \in [S -> SUBSET S], NEW n \in S, NEW k \in Reachable(n, g), NEW m \in g[k]
  PROVE  m \in Reachable(n, g)
<1>1. k \in S /\ m \in S /\ DOMAIN g = S
  BY DEF Reachable
<1>2. ASSUME NEW T \in SUBSET S, n \in T, \A j \in T : g[j] \subseteq T PROVE m \in T
  <2>1. k \in T
    BY <1>1, <1>2 DEF Reachable
  <2> QED BY <1>2, <2>1
<1> QED BY <1>1, <1>2 DEF Reachable

(* The references among what is pulled are a graph.                         *)
LEMMA RefGraphIsGraph ==
  ASSUME NEW pulled
  PROVE  RefGraph(pulled) \in [pulled -> SUBSET pulled]
BY DEF RefGraph

(* What a table refers to directly does not lead back to it.                *)
LEMMA DirectFacts ==
  ASSUME NEW pulled, NEW t \in pulled, NEW d \in Direct(t, pulled)
  PROVE  /\ d \in pulled /\ d # t /\ d \in RefGraph(pulled)[t]
         /\ t \notin Reachable(d, RefGraph(pulled))
BY DEF Direct, RefGraph

(* Each after what it refers to directly.                                   *)
InOrder(s, ts, pulled) ==
  \A i \in DOMAIN s : \A d \in Direct(s[i], pulled) \cap ToSet(ts) : \E j \in 1..(i - 1) : s[j] = d

(* One more table after those it refers to.                                 *)
LEMMA OneMoreInOrder ==
  ASSUME NEW pulled, NEW ts, NEW s \in Seq(pulled), NEW t \in pulled, InOrder(s, ts, pulled),
         Direct(t, pulled) \cap ToSet(ts) \subseteq ToSet(s)
  PROVE  InOrder(Append(s, t), ts, pulled)
<1> DEFINE a == Append(s, t)
<1>1. /\ Len(s) \in Nat /\ DOMAIN a = 1..(Len(s) + 1) /\ DOMAIN s = 1..Len(s)
      /\ a[Len(s) + 1] = t /\ \A i \in 1..Len(s) : a[i] = s[i]
  OBVIOUS
<1> HIDE DEF a
<1>2. ASSUME NEW i \in DOMAIN a, NEW d \in Direct(a[i], pulled) \cap ToSet(ts)
      PROVE  \E j \in 1..(i - 1) : a[j] = d
  <2>1. CASE i \in 1..Len(s)
    <3>1. PICK j \in 1..(i - 1) : s[j] = d
      BY <1>1, <2>1 DEF InOrder
    <3>2. j \in 1..Len(s)
      BY <2>1
    <3> QED BY <1>1, <3>1, <3>2
  <2>2. CASE i = Len(s) + 1
    <3>1. PICK j \in 1..Len(s) : s[j] = d
      BY <1>1, <2>2 DEF ToSet
    <3> QED BY <1>1, <2>2, <3>1
  <2> QED BY <1>1, <2>1, <2>2
<1> QED BY <1>2 DEF InOrder, a

(* What is to visit is reached from what is being visited.                  *)
Below(v, pulled) == \A n \in v.stack, u \in ToSet(v.us) : u \in Reachable(n, RefGraph(pulled))

(* A visit lists what is to visit, save what is being visited, and only     *)
(* from what the sort is given; and it keeps the order.                     *)
LEMMA VisitFacts ==
  ASSUME NEW pulled, IsFiniteSet(pulled), NEW ts \in Seq(pulled),
         NEW g \in [Visits(pulled) -> Seq(pulled)],
         \A v \in Visits(pulled) : g[v] = Visit(g, v, ts, pulled)
  PROVE  \A v \in Visits(pulled) :
           /\ ToSet(v.out) \subseteq ToSet(g[v])
           /\ ToSet(g[v]) \subseteq ToSet(v.out) \cup ToSet(v.us) \cup ToSet(ts)
           /\ ToSet(v.us) \subseteq ToSet(g[v]) \cup v.stack
           /\ InOrder(v.out, ts, pulled) /\ Below(v, pulled) => InOrder(g[v], ts, pulled)
<1> DEFINE D == Visits(pulled)
           r(v) == Rank(v, ts, pulled)
           Fine(v) == /\ ToSet(v.out) \subseteq ToSet(g[v])
                      /\ ToSet(g[v]) \subseteq ToSet(v.out) \cup ToSet(v.us) \cup ToSet(ts)
                      /\ ToSet(v.us) \subseteq ToSet(g[v]) \cup v.stack
                      /\ InOrder(v.out, ts, pulled) /\ Below(v, pulled) => InOrder(g[v], ts, pulled)
           N == {n \in Nat : \A v \in D : r(v) < n => Fine(v)}
<1>0. \A v \in D : r(v) \in Nat
  BY RankIsNat
<1>1. 0 \in N
  BY <1>0
<1>2. ASSUME NEW n \in Nat, n \in N PROVE n + 1 \in N
  <2> SUFFICES ASSUME NEW v \in D, r(v) < n + 1 PROVE Fine(v)
    OBVIOUS
  <2>0. \A w \in D : r(w) < r(v) => Fine(w)
    BY <1>0, <1>2
  <2> HIDE DEF N, Fine
  <2>1. v.out \in Seq(pulled) /\ v.us \in Seq(pulled) /\ v.stack \subseteq pulled /\ g[v] \in Seq(pulled)
    BY DEF Visits
  <2>2. CASE v.us = <<>>
    <3>1. g[v] = v.out
      BY <2>2 DEF Visit
    <3>2. ToSet(v.us) = {}
      BY <2>2 DEF ToSet
    <3> QED BY <3>1, <3>2 DEF Fine
  <2>3. CASE v.us # <<>>
    <3> DEFINE t == Head(v.us)
               o == NextOut(g, v, ts, pulled)
               w == [out |-> o, stack |-> v.stack, us |-> Tail(v.us)]
               deps == DepsOf(v, ts, pulled)
    <3>1. /\ t \in pulled /\ Tail(v.us) \in Seq(pulled) /\ ToSet(v.us) = {t} \cup ToSet(Tail(v.us))
          /\ \A x \in Seq(pulled) :
               LET y == [out |-> x, stack |-> v.stack, us |-> Tail(v.us)]
               IN  y \in Visits(pulled) /\ Rank(y, ts, pulled) < Rank(v, ts, pulled)
          /\ t \notin v.stack =>
               /\ deps \in D /\ r(deps) < r(v)
               /\ deps.out = v.out /\ deps.stack = v.stack \cup {t}
               /\ ToSet(deps.us) = ToSet(ts) \cap Direct(t, pulled)
      <4>1. t \in pulled /\ Tail(v.us) \in Seq(pulled) /\ ToSet(v.us) = {t} \cup ToSet(Tail(v.us))
        BY <2>3, RankFalls
      <4>2. \A x \in Seq(pulled) :
              LET y == [out |-> x, stack |-> v.stack, us |-> Tail(v.us)]
              IN  y \in Visits(pulled) /\ Rank(y, ts, pulled) < Rank(v, ts, pulled)
        BY <2>3, RankFalls
      <4>3. t \notin v.stack =>
              LET y == DepsOf(v, ts, pulled)
              IN  /\ y \in Visits(pulled) /\ Rank(y, ts, pulled) < Rank(v, ts, pulled)
                  /\ y.out = v.out /\ y.stack = v.stack \cup {t}
                  /\ ToSet(y.us) = ToSet(ts) \cap Direct(t, pulled)
        BY <2>3, DepsFacts
      <4> QED BY <4>1, <4>2, <4>3
    <3>2. o \in Seq(pulled)
      BY <2>3, VisitIsLocal
    <3>3. g[v] = g[w]
      BY <2>3, Zenon DEF Visit
    <3> HIDE DEF o, deps
    <3>4. w \in D /\ r(w) < r(v) /\ w.out = o /\ w.stack = v.stack /\ w.us = Tail(v.us)
      BY <3>1, <3>2
    <3> HIDE DEF w
    <3>5. Fine(w)
      BY <2>0, <3>4
    <3>6. /\ ToSet(v.out) \subseteq ToSet(o)
          /\ ToSet(o) \subseteq ToSet(v.out) \cup {t} \cup ToSet(ts)
          /\ t \in ToSet(o) \cup v.stack
          /\ InOrder(v.out, ts, pulled) /\ Below(v, pulled) => InOrder(o, ts, pulled)
      <4>1. CASE t \in v.stack \cup ToSet(v.out)
        BY <4>1 DEF NextOut, o
      <4>2. CASE t \notin v.stack \cup ToSet(v.out)
        <5>1. o = Append(g[deps], t)
          BY <4>2 DEF NextOut, o, deps
        <5>2. Fine(deps) /\ g[deps] \in Seq(pulled)
          BY <2>0, <3>1, <4>2
        <5>3. ToSet(o) = ToSet(g[deps]) \cup {t}
          BY <3>1, <5>1, <5>2, AppendHolds
        <5>4. ASSUME InOrder(v.out, ts, pulled), Below(v, pulled) PROVE InOrder(o, ts, pulled)
          <6>1. t \in ToSet(v.us)
            BY <3>1
          <6>2. RefGraph(pulled) \in [pulled -> SUBSET pulled]
            BY RefGraphIsGraph
          <6>3. \A d \in Direct(t, pulled) : d \in Reachable(t, RefGraph(pulled))
            BY <3>1, <6>2, DirectFacts, ReachesItself, ReachesNext
          <6>4. \A k \in v.stack : \A d \in Direct(t, pulled) : d \in Reachable(k, RefGraph(pulled))
            <7> TAKE k \in v.stack
            <7> TAKE d \in Direct(t, pulled)
            <7>1. t \in Reachable(k, RefGraph(pulled)) /\ k \in pulled /\ d \in RefGraph(pulled)[t]
              BY <2>1, <3>1, <5>4, <6>1, DirectFacts DEF Below
            <7> QED BY <6>2, <7>1, ReachesNext
          <6>5. Below(deps, pulled)
            BY <3>1, <4>2, <6>3, <6>4 DEF Below
          <6>6. InOrder(g[deps], ts, pulled)
            BY <3>1, <4>2, <5>2, <5>4, <6>5 DEF Fine
          <6>7. Direct(t, pulled) \cap ToSet(ts) \subseteq ToSet(g[deps])
            <7> SUFFICES ASSUME NEW d \in Direct(t, pulled) \cap ToSet(ts) PROVE d \in ToSet(g[deps])
              OBVIOUS
            <7>1. d \in ToSet(g[deps]) \cup deps.stack
              BY <3>1, <4>2, <5>2 DEF Fine
            <7>2. d \notin deps.stack
              <8>1. d # t /\ t \notin Reachable(d, RefGraph(pulled))
                BY <3>1, DirectFacts
              <8>2. d \notin v.stack
                BY <5>4, <6>1, <8>1 DEF Below
              <8> QED BY <3>1, <4>2, <8>1, <8>2
            <7> QED BY <7>1, <7>2
          <6> QED BY <3>1, <5>1, <5>2, <6>6, <6>7, OneMoreInOrder
        <5> QED BY <3>1, <4>2, <5>2, <5>3, <5>4 DEF Fine
      <4> QED BY <4>1, <4>2
    <3>7. Below(v, pulled) => Below(w, pulled)
      BY <3>1, <3>4 DEF Below
    <3> QED BY <3>1, <3>3, <3>4, <3>5, <3>6, <3>7 DEF Fine
  <2> QED BY <2>2, <2>3
<1> HIDE DEF N, Fine
<1>3. Nat \subseteq N
  BY <1>1, <1>2, Chosen!Induct
<1>4. ASSUME NEW v \in D PROVE Fine(v)
  <2>1. r(v) + 1 \in N /\ r(v) < r(v) + 1
    BY <1>0, <1>3
  <2> QED BY <2>1 DEF N
<1> QED BY <1>4 DEF Fine

(* A sort lists what it is given, each after what it refers to directly.    *)
LEMMA SortedFacts ==
  ASSUME NEW pulled, IsFiniteSet(pulled), NEW ts \in Seq(pulled)
  PROVE  /\ Sorted(ts, pulled) \in Seq(pulled) /\ ToSet(Sorted(ts, pulled)) = ToSet(ts)
         /\ InOrder(Sorted(ts, pulled), ts, pulled)
<1>1. PICK g \in [Visits(pulled) -> Seq(pulled)] :
        /\ \A v \in Visits(pulled) : g[v] = Visit(g, v, ts, pulled)
        /\ Sorted(ts, pulled) = g[[out |-> <<>>, stack |-> {}, us |-> ts]]
  BY SortedRuns
<1> DEFINE v == [out |-> <<>>, stack |-> {}, us |-> ts]
<1>2. v \in Visits(pulled) /\ v.out = <<>> /\ v.stack = {} /\ v.us = ts
  BY EmptySeq DEF Visits
<1> HIDE DEF v
<1>3. InOrder(v.out, ts, pulled) /\ Below(v, pulled) /\ ToSet(v.out) = {}
  BY <1>2 DEF InOrder, Below, ToSet
<1>4. /\ ToSet(g[v]) \subseteq ToSet(v.out) \cup ToSet(v.us) \cup ToSet(ts)
      /\ ToSet(v.us) \subseteq ToSet(g[v]) \cup v.stack
      /\ InOrder(g[v], ts, pulled)
  <2>1. \A w \in Visits(pulled) :
           /\ ToSet(w.out) \subseteq ToSet(g[w])
           /\ ToSet(g[w]) \subseteq ToSet(w.out) \cup ToSet(w.us) \cup ToSet(ts)
           /\ ToSet(w.us) \subseteq ToSet(g[w]) \cup w.stack
           /\ InOrder(w.out, ts, pulled) /\ Below(w, pulled) => InOrder(g[w], ts, pulled)
    BY <1>1, VisitFacts
  <2> QED BY <1>2, <1>3, <2>1
<1>5. Sorted(ts, pulled) = g[v] /\ g[v] \in Seq(pulled)
  BY <1>1, <1>2 DEF v
<1> QED BY <1>2, <1>3, <1>4, <1>5

-----------------------------------------------------------------------------
(* The units of a pull.                                                     *)
DatabaseOK ==
  /\ DOMAIN db \subseteq Entities
  /\ db \in [DOMAIN db -> [keys : SUBSET (Keys \cup Tables)]]
  /\ \A e \in DOMAIN db : e \notin Tables => db[e].keys = {}

Fits(f, content) ==
  /\ ~content.there => content.consts = <<>>
  /\ f # Misc => \A c \in ToSet(content.consts) : c.of \in {f, Helper}
  /\ single /\ f # Misc => content = Absent

(* Each table is at home in one file.                                       *)
Homes == [Tables -> Files]
Homed(fs, home) ==
  \A f \in Files : \A c \in ToSet(fs[f].consts) : c.of \in Tables => home[c.of] = f

FilesOK == files \in [Files -> Contents] /\ \A f \in Files : Fits(f, files[f])

PulledTables(scope) == Pulled(scope) \cap Tables
UnitSet(f, scope) == {Unit(e, PulledTables(scope)) : e \in {e \in Pulled(scope) : Place(e) = f}}

(* There are finitely many files.                                           *)
LEMMA FilesAreFinite ==
  ASSUME FilesAssumption
  PROVE  /\ LoadOrder \in Seq(Files) /\ ToSet(LoadOrder) = Files /\ IsFiniteSet(Files)
         /\ \A S \in SUBSET Files : IsFiniteSet(S)
<1>1. LoadOrder \in Seq(Files) /\ ToSet(LoadOrder) = Files
  BY DEF FilesAssumption
<1>2. Len(LoadOrder) \in Nat /\ Files = {LoadOrder[i] : i \in 1..Len(LoadOrder)}
  BY <1>1, LenProperties DEF ToSet
<1>3. IsFiniteSet(1..Len(LoadOrder))
  BY <1>2, FS_Interval
<1>4. LoadOrder \in Surjection(1..Len(LoadOrder), Files)
  BY <1>1, <1>2 DEF Surjection
<1>5. IsFiniteSet(Files)
  BY <1>3, <1>4, FS_Surjection
<1> QED BY <1>1, <1>5, FS_Subset

(* Where a table is, and where its unit goes.                               *)
LEMMA LastFacts ==
  ASSUME FilesAssumption, NEW S \in SUBSET Files, S # {}
  PROVE  LastOf(S) \in S
<1>1. LoadOrder \in Seq(Files) /\ ToSet(LoadOrder) = Files
  BY FilesAreFinite
<1> DEFINE I == {i \in DOMAIN LoadOrder : LoadOrder[i] \in S}
<1>2. I \in SUBSET (1..Len(LoadOrder)) /\ Len(LoadOrder) \in Nat
  BY <1>1
<1>3. I # {}
  BY <1>1 DEF ToSet
<1>4. \E i \in I : \A j \in I : j <= i
  <2> DEFINE T == {n \in Nat : \E i \in I : n = Len(LoadOrder) - i}
  <2>1. T \in SUBSET Nat /\ T # {}
    BY <1>2, <1>3
  <2>2. PICK n \in T : \A m \in T : n <= m
    BY <2>1, Chosen!Least
  <2>3. PICK i \in I : n = Len(LoadOrder) - i
    BY <2>2
  <2>4. ASSUME NEW j \in I PROVE j <= i
    <3>1. Len(LoadOrder) - j \in T
      BY <1>2
    <3> QED BY <1>2, <2>2, <2>3, <3>1, SMTT(20)
  <2> QED BY <2>4
<1>5. \E i \in DOMAIN LoadOrder : LoadOrder[i] \in S /\ \A j \in DOMAIN LoadOrder : LoadOrder[j] \in S => j <= i
  BY <1>4
<1> QED BY <1>5, Zenon DEF LastOf

(* A unit goes to the file of its name or to Misc; that of a table goes to  *)
(* the home of the table.                                                   *)
LEMMA PlaceFacts ==
  ASSUME FilesAssumption, FilesOK
  PROVE  /\ \A e \in Entities : /\ Place(e) \in Files /\ Place(e) \in {e, Misc}
                                /\ single => Place(e) = Misc
         /\ \A t \in Tables : /\ TableLoc(t) = Place(t)
                               /\ ~single /\ Defining(t) = {} => Place(t) = t
         /\ \A home \in Homes : Homed(files, home) =>
              \A f \in Files : \A c \in ConstsOf(f) : c.of \in Tables => Place(c.of) = f
<1>1. Entities \subseteq Files /\ Misc \in Files /\ Tables \subseteq Entities /\ Misc \notin Entities /\ Helper \notin Entities
  BY DEF FilesAssumption, Files, Entities
<1>2. ASSUME NEW t \in Tables
      PROVE  /\ TableLoc(t) = Place(t) /\ TableLoc(t) \in {t, Misc}
             /\ ~single /\ Defining(t) = {} => Place(t) = t
  <2>1. TableLoc(t) = Place(t) /\ (~single /\ Defining(t) = {} => Place(t) = t)
    BY DEF TableLoc, Place
  <2>2. CASE ~single /\ Defining(t) # {}
    <3>1. Defining(t) \in SUBSET Files
      BY DEF Defining
    <3>2. TableLoc(t) \in Defining(t)
      BY <2>2, <3>1, LastFacts DEF TableLoc
    <3>3. PICK c \in ConstsOf(TableLoc(t)) : c.of = t
      BY <3>2 DEF Defining
    <3> QED BY <1>1, <2>1, <3>1, <3>2, <3>3 DEF FilesOK, Fits, ConstsOf
  <2> QED BY <2>1, <2>2 DEF TableLoc
<1>3. ASSUME NEW e \in Entities
      PROVE  Place(e) \in Files /\ Place(e) \in {e, Misc} /\ (single => Place(e) = Misc)
  BY <1>1, <1>2 DEF Place
<1>4. ASSUME NEW home \in Homes, Homed(files, home), NEW f \in Files, NEW c \in ConstsOf(f), c.of \in Tables
      PROVE  Place(c.of) = f
  <2>1. CASE single
    <3>1. f = Misc
      <4>1. CASE f # Misc
        <5>1. files[f] = Absent
          BY <2>1, <4>1 DEF FilesOK, Fits
        <5>2. ConstsOf(f) = {}
          BY <5>1 DEF ConstsOf, ToSet, Absent
        <5> QED BY <5>2
      <4> QED BY <4>1
    <3> QED BY <1>4, <2>1, <3>1 DEF Place
  <2>2. CASE ~single
    <3>1. f \in Defining(c.of) /\ Defining(c.of) \in SUBSET Files
      BY DEF Defining
    <3>2. TableLoc(c.of) \in Defining(c.of)
      BY <2>2, <3>1, LastFacts DEF TableLoc
    <3>3. \A g \in Defining(c.of) : g = home[c.of]
      BY <1>4 DEF Defining, Homed, ConstsOf
    <3> QED BY <1>2, <1>4, <3>1, <3>2, <3>3
  <2> QED BY <2>1, <2>2
<1> QED BY <1>2, <1>3, <1>4

(* What a unit holds.                                                       *)
LEMMA UnitFacts ==
  ASSUME FilesAssumption, DatabaseOK, NEW scope \in SUBSET Entities, NEW e \in Pulled(scope)
  PROVE  LET u == Unit(e, PulledTables(scope))
         IN  /\ u \in Consts /\ u.of = e /\ u.own = FALSE /\ u.keys = db[e].keys
             /\ Ident(u) = PulledIdent(e)
             /\ u.by = IF e \in Tables THEN Direct(e, PulledTables(scope)) ELSE {}
             /\ u.by \subseteq PulledTables(scope)
<1>1. e \in Entities /\ e \in DOMAIN db /\ db[e] \in [keys : SUBSET (Keys \cup Tables)]
  BY DEF Pulled, DatabaseOK
<1>2. Direct(e, PulledTables(scope)) \subseteq PulledTables(scope) /\ PulledTables(scope) \subseteq Tables
  BY DEF Direct, PulledTables
<1> QED BY <1>1, <1>2 DEF Unit, Consts, Ident, PulledIdent, DatabaseOK

(* Which entities go to f.                                                  *)
LEMMA GoToFacts ==
  ASSUME FilesAssumption, NEW scope \in SUBSET Entities, NEW f \in Files, NEW kind \in SUBSET Entities
  PROVE  /\ GoTo(f, kind, scope) \in Seq(Pulled(scope) \cap kind)
         /\ ToSet(GoTo(f, kind, scope)) = {e \in Pulled(scope) \cap kind : Place(e) = f}
<1> DEFINE S == {e \in Pulled(scope) \cap kind : Place(e) = f}
           s == Among(LoadOrder, S)
<1>1. S \subseteq Files
  BY DEF Pulled, Files
<1>2. s \in Seq(Files) /\ ToSet(s) = ToSet(LoadOrder) \cap S
  BY FilesAreFinite, AmongFacts
<1>3. ToSet(s) = S
  BY <1>1, <1>2, FilesAreFinite
<1> HIDE DEF S, s
<1>4. \A i \in 1..Len(s) : s[i] \in S
  BY <1>2, <1>3 DEF ToSet
<1>5. s \in Seq(S)
  BY <1>2, <1>4
<1>6. GoTo(f, kind, scope) = s
  BY DEF GoTo, S, s
<1>7. S \subseteq Pulled(scope) \cap kind
  BY DEF S
<1>8. \A i \in 1..Len(s) : s[i] \in Pulled(scope) \cap kind
  BY <1>4, <1>7
<1> QED BY <1>2, <1>3, <1>6, <1>8 DEF S

(* The units of a sequence of entities, at their places.                    *)
LEMMA UnitsFacts ==
  ASSUME FilesAssumption, DatabaseOK, NEW scope \in SUBSET Entities, NEW es \in Seq(Pulled(scope))
  PROVE  /\ Units(es, scope) \in Seq(Consts) /\ Len(Units(es, scope)) = Len(es)
         /\ DOMAIN Units(es, scope) = 1..Len(es)
         /\ \A i \in 1..Len(es) : Units(es, scope)[i] = Unit(es[i], PulledTables(scope))
         /\ ToSet(Units(es, scope)) = {Unit(e, PulledTables(scope)) : e \in ToSet(es)}
<1> DEFINE at(i) == Unit(es[i], PulledTables(scope))
<1>1. Units(es, scope) = [i \in DOMAIN es |-> at(i)]
  BY DEF Units, PulledTables
<1>2. DOMAIN es = 1..Len(es) /\ Len(es) \in Nat /\ \A i \in DOMAIN es : es[i] \in Pulled(scope)
  OBVIOUS
<1>3. \A i \in DOMAIN es : at(i) \in Consts
  BY <1>2, UnitFacts
<1>4. ToSet(Units(es, scope)) = {at(i) : i \in DOMAIN es}
  BY <1>1 DEF ToSet
<1>5. {at(i) : i \in DOMAIN es} = {Unit(e, PulledTables(scope)) : e \in ToSet(es)}
  BY DEF ToSet
<1> HIDE DEF at
<1>6. Units(es, scope) \in Seq(Consts) /\ Len(Units(es, scope)) = Len(es)
  BY <1>1, <1>2, <1>3
<1> QED BY <1>1, <1>2, <1>4, <1>5, <1>6 DEF at

(* The units that go to f.                                                  *)
LEMMA UnitsForFacts ==
  ASSUME FilesAssumption, DatabaseOK, NEW scope \in SUBSET Entities, NEW f \in Files
  PROVE  /\ UnitsFor(f, scope) \in Seq(Consts) /\ ToSet(UnitsFor(f, scope)) = UnitSet(f, scope)
         /\ Agree(UnitsFor(f, scope))
         /\ UnitsFor(f, scope) = <<>> <=> UnitSet(f, scope) = {}
<1> DEFINE ts == GoTo(f, Tables, scope)
           fs == GoTo(f, Functions, scope)
<1>1. /\ ts \in Seq(Pulled(scope)) /\ fs \in Seq(Pulled(scope))
      /\ ToSet(ts) \cup ToSet(fs) = {e \in Pulled(scope) : Place(e) = f}
  <2>1. Tables \in SUBSET Entities /\ Functions \in SUBSET Entities /\ Pulled(scope) \subseteq Tables \cup Functions
    BY DEF Entities, Pulled
  <2>2. ts \in Seq(Pulled(scope) \cap Tables) /\ fs \in Seq(Pulled(scope) \cap Functions)
    BY <2>1, GoToFacts
  <2>3. /\ ToSet(ts) = {e \in Pulled(scope) \cap Tables : Place(e) = f}
        /\ ToSet(fs) = {e \in Pulled(scope) \cap Functions : Place(e) = f}
    BY <2>1, GoToFacts, ZenonT(40)
  <2> HIDE DEF ts, fs
  <2>4. ts \in Seq(Pulled(scope)) /\ fs \in Seq(Pulled(scope))
    BY <2>2
  <2> QED BY <2>1, <2>3, <2>4
<1> HIDE DEF ts, fs
<1>2. /\ Units(ts, scope) \in Seq(Consts) /\ ToSet(Units(ts, scope)) = {Unit(e, PulledTables(scope)) : e \in ToSet(ts)}
      /\ Units(fs, scope) \in Seq(Consts) /\ ToSet(Units(fs, scope)) = {Unit(e, PulledTables(scope)) : e \in ToSet(fs)}
  BY <1>1, UnitsFacts
<1>3. UnitsFor(f, scope) = Units(ts, scope) \o Units(fs, scope)
  BY DEF UnitsFor, ts, fs
<1>4. /\ UnitsFor(f, scope) \in Seq(Consts)
      /\ ToSet(UnitsFor(f, scope)) = ToSet(Units(ts, scope)) \cup ToSet(Units(fs, scope))
  BY <1>2, <1>3, ConcatHolds
<1>5. ToSet(UnitsFor(f, scope)) = UnitSet(f, scope)
  BY <1>1, <1>2, <1>4 DEF UnitSet
<1>6. Agree(UnitsFor(f, scope))
  <2> SUFFICES ASSUME NEW u \in UnitSet(f, scope), NEW v \in UnitSet(f, scope), Ident(u) = Ident(v) PROVE u = v
    BY <1>5 DEF Agree
  <2>1. PICK d, e \in Pulled(scope) : u = Unit(d, PulledTables(scope)) /\ v = Unit(e, PulledTables(scope))
    BY DEF UnitSet
  <2>2. u.of = d /\ v.of = e
    BY <2>1, UnitFacts
  <2> QED BY <2>1, <2>2 DEF Ident
<1>7. UnitsFor(f, scope) = <<>> <=> ToSet(UnitsFor(f, scope)) = {}
  <2>1. \A s \in Seq(Consts) : s # <<>> => s[1] \in ToSet(s)
    BY DEF ToSet
  <2>2. ToSet(<<>>) = {}
    BY DEF ToSet
  <2> QED BY <1>4, <2>1, <2>2
<1> QED BY <1>4, <1>5, <1>6, <1>7

-----------------------------------------------------------------------------
(* What a pull makes of a file.                                             *)
IsNew(f) == single /\ f = Misc /\ ~files[f].there
Keeps(f, mode) == mode = "merge" \/ ~files[f].there
IsMerged(f, scope) == ~IsNew(f) /\ (UnitSet(f, scope) # {} \/ (single /\ f = Misc))
IsDeleted(f, scope, mode) ==
  ~IsNew(f) /\ ~IsMerged(f, scope) /\ LocalOnlyFile(f, scope) /\ Deletable(f, scope, mode)

(* A file is assembled, merged, deleted or left alone.                      *)
LEMMA AfterCases ==
  ASSUME FilesAssumption, DatabaseOK, FilesOK, NEW scope \in SUBSET Entities, NEW mode \in Modes, NEW f \in Files
  PROVE  LET C == After(f, scope, mode)
         IN  /\ IsNew(f) => C = Assembled(f, scope)
             /\ IsMerged(f, scope) => C = MergeUnits(files[f], UnitsFor(f, scope), Keeps(f, mode))
             /\ IsDeleted(f, scope, mode) => C = Absent
             /\ ~IsNew(f) /\ ~IsMerged(f, scope) /\ ~IsDeleted(f, scope, mode) => C = files[f]
<1>1. UnitsFor(f, scope) = <<>> <=> UnitSet(f, scope) = {}
  BY UnitsForFacts
<1> QED BY <1>1, Zenon DEF After, IsNew, IsMerged, IsDeleted, Keeps

(* The combined module: the units of everything, tables in their order.     *)
LEMMA AssembledFacts ==
  ASSUME FilesAssumption, DatabaseOK, NEW scope \in SUBSET Entities, NEW f \in Files
  PROVE  LET C == Assembled(f, scope)
         IN  /\ C \in Contents /\ C.there /\ C.imports = {}
             /\ ToSet(C.consts) = UnitSet(f, scope)
             /\ \A i \in DOMAIN C.consts : \A t \in C.consts[i].by :
                  Place(t) = f => \E j \in DOMAIN C.consts : j < i /\ C.consts[j].of = t /\ ~C.consts[j].own
<1> DEFINE P == PulledTables(scope)
           ts == GoTo(f, Tables, scope)
           fs == GoTo(f, Functions, scope)
           sorted == Sorted(ts, P)
           a == Units(sorted, scope)
           b == Units(fs, scope)
           C == Assembled(f, scope)
<1>0. /\ Tables \in SUBSET Entities /\ Functions \in SUBSET Entities /\ Pulled(scope) \subseteq Tables \cup Functions
      /\ P \subseteq Pulled(scope) /\ Tables \cap Functions = {} /\ P \in SUBSET Files
  BY DEF Entities, Pulled, PulledTables, FilesAssumption, Files
<1>1. /\ ts \in Seq(P) /\ ToSet(ts) = {e \in P : Place(e) = f}
      /\ fs \in Seq(Pulled(scope) \cap Functions) /\ ToSet(fs) = {e \in Pulled(scope) \cap Functions : Place(e) = f}
  <2>1. /\ ts \in Seq(Pulled(scope) \cap Tables)
        /\ ToSet(ts) = {e \in Pulled(scope) \cap Tables : Place(e) = f}
    BY <1>0, GoToFacts, ZenonT(40)
  <2>2. /\ fs \in Seq(Pulled(scope) \cap Functions)
        /\ ToSet(fs) = {e \in Pulled(scope) \cap Functions : Place(e) = f}
    BY <1>0, GoToFacts, ZenonT(40)
  <2> HIDE DEF ts, fs
  <2> QED BY <2>1, <2>2 DEF PulledTables
<1>2. IsFiniteSet(P)
  BY <1>0, FilesAreFinite
<1> HIDE DEF P, ts, fs
<1>3. sorted \in Seq(P) /\ ToSet(sorted) = ToSet(ts) /\ InOrder(sorted, ts, P)
  BY <1>1, <1>2, SortedFacts
<1> HIDE DEF sorted
<1>4. sorted \in Seq(Pulled(scope)) /\ fs \in Seq(Pulled(scope))
  BY <1>0, <1>1, <1>3
<1>5. /\ a \in Seq(Consts) /\ DOMAIN a = 1..Len(sorted) /\ Len(a) = Len(sorted)
      /\ \A i \in 1..Len(sorted) : a[i] = Unit(sorted[i], P)
      /\ ToSet(a) = {Unit(e, P) : e \in ToSet(sorted)}
  BY <1>4, UnitsFacts DEF P
<1>6. /\ b \in Seq(Consts) /\ DOMAIN b = 1..Len(fs) /\ Len(b) = Len(fs)
      /\ \A i \in 1..Len(fs) : b[i] = Unit(fs[i], P)
      /\ ToSet(b) = {Unit(e, P) : e \in ToSet(fs)}
  BY <1>4, UnitsFacts DEF P
<1>7. C = [consts |-> a \o b, there |-> TRUE, imports |-> {}]
  BY DEF Assembled, a, b, sorted, ts, fs, P, PulledTables
<1> HIDE DEF C, a, b
<1>8. a \o b \in Seq(Consts) /\ ToSet(a \o b) = ToSet(a) \cup ToSet(b)
  BY <1>5, <1>6, ConcatHolds
<1>9. C.consts = a \o b /\ C.there = TRUE /\ C.imports = {} /\ C \in Contents
  BY <1>7, <1>8 DEF Contents
<1>10. ToSet(C.consts) = UnitSet(f, scope)
  <2>1. ToSet(a) \cup ToSet(b) = {Unit(e, P) : e \in ToSet(ts) \cup ToSet(fs)}
    BY <1>3, <1>5, <1>6
  <2>2. ToSet(ts) \cup ToSet(fs) = {e \in Pulled(scope) : Place(e) = f}
    BY <1>0, <1>1 DEF P, PulledTables
  <2> QED BY <1>8, <1>9, <2>1, <2>2 DEF UnitSet, P
<1>11. ASSUME NEW i \in DOMAIN C.consts, NEW t \in C.consts[i].by, Place(t) = f
       PROVE  \E j \in DOMAIN C.consts : j < i /\ C.consts[j].of = t /\ ~C.consts[j].own
  <2>1. /\ DOMAIN C.consts = 1..(Len(sorted) + Len(fs)) /\ Len(sorted) \in Nat /\ Len(fs) \in Nat
        /\ \A j \in 1..Len(sorted) : C.consts[j] = a[j]
        /\ \A j \in (Len(sorted) + 1)..(Len(sorted) + Len(fs)) : C.consts[j] = b[j - Len(sorted)]
    <3>1. Len(sorted) \in Nat /\ Len(fs) \in Nat
      BY <1>4, LenProperties
    <3>2. /\ DOMAIN (a \o b) = 1..(Len(a) + Len(b))
          /\ \A j \in 1..Len(a) : (a \o b)[j] = a[j]
          /\ \A j \in (Len(a) + 1)..(Len(a) + Len(b)) : (a \o b)[j] = b[j - Len(a)]
      BY <1>5, <1>6, ConcatAt
    <3> QED BY <1>5, <1>6, <1>9, <3>1, <3>2
  <2>2. CASE i \in 1..Len(sorted)
    <3>1. sorted[i] \in P /\ C.consts[i] = Unit(sorted[i], P)
      BY <1>3, <1>5, <2>1, <2>2
    <3>2. t \in Direct(sorted[i], P)
      BY <3>1, <1>0, UnitFacts DEF P, PulledTables
    <3>3. t \in P
      BY <3>2 DEF Direct
    <3>4. t \in ToSet(ts)
      BY <1>1, <1>11, <3>3
    <3>5. PICK j \in 1..(i - 1) : sorted[j] = t
      BY <1>3, <2>2, <3>2, <3>4 DEF InOrder
    <3>6. j \in 1..Len(sorted) /\ j < i
      BY <2>1, <2>2
    <3>7. C.consts[j] = Unit(t, P)
      BY <1>5, <2>1, <3>5, <3>6
    <3>8. C.consts[j].of = t /\ C.consts[j].own = FALSE
      <4>1. t \in Pulled(scope)
        BY <1>0, <3>3
      <4>2. Unit(t, P).of = t /\ Unit(t, P).own = FALSE
        BY <4>1, UnitFacts DEF P
      <4> QED BY <3>7, <4>2
    <3>9. j \in DOMAIN C.consts
      BY <2>1, <3>6
    <3>10. ~C.consts[j].own
      BY <3>8
    <3> QED BY <3>6, <3>8, <3>9, <3>10
  <2>3. CASE i \in (Len(sorted) + 1)..(Len(sorted) + Len(fs))
    <3>1. i - Len(sorted) \in 1..Len(fs)
      BY <2>1, <2>3
    <3>2. fs[i - Len(sorted)] \in Pulled(scope) /\ fs[i - Len(sorted)] \notin Tables
      BY <1>0, <1>1, <3>1
    <3>3. C.consts[i] = Unit(fs[i - Len(sorted)], P)
      BY <1>6, <2>1, <2>3, <3>1
    <3>4. C.consts[i].by = {}
      BY <3>2, <3>3, UnitFacts DEF P
    <3> QED BY <1>11, <3>4
  <2> QED BY <2>1, <2>2, <2>3
<1> QED BY <1>9, <1>10, <1>11 DEF C

-----------------------------------------------------------------------------
(* What PullFiles says of `files', of any files.                            *)
UsedIn(content) == UNION {c.by : c \in ToSet(content.consts)}
HasPulled(content, t) == \E c \in ToSet(content.consts) : Ident(c) = PulledIdent(t)
ResolvesIn(fs, f, imp) ==
  \/ imp.path = "exact" /\ \E g \in Files \ {f} : HasPulled(fs[g], imp.of)
  \/ imp.path = "sibling" /\ f \in Tables /\ HasPulled(fs[imp.of], imp.of)
NoClash(content) ==
  \A imp \in content.imports : \A i \in DOMAIN content.consts : ~content.consts[i].own => content.consts[i].of # imp.of
DefinedBefore(content, i, t) ==
  \E j \in DOMAIN content.consts : ~content.consts[j].own /\ j < i /\ content.consts[j].of = t
ModuleLoadsIn(fs, f) ==
  /\ NoClash(fs[f])
  /\ \A imp \in fs[f].imports : imp.of \in UsedIn(fs[f]) => ResolvesIn(fs, f, imp)
  /\ \A i \in DOMAIN fs[f].consts : \A t \in fs[f].consts[i].by :
       (\E imp \in fs[f].imports : imp.of = t) \/ DefinedBefore(fs[f], i, t)
ImportGraphIn(fs) ==
  [f \in Files |-> {g \in Files \ {f} : \E t \in UsedIn(fs[f]) :
     (\E imp \in fs[f].imports : imp.of = t) /\ HasPulled(fs[g], t)}]
LoadsIn(fs) ==
  /\ \A f \in Files : ModuleLoadsIn(fs, f)
  /\ \A f \in Files : ~OnCycle(f, ImportGraphIn(fs))

(* This is what PullFiles says of `files', ...                              *)
LEMMA LoadsAsFiles ==
  Loads <=> LoadsIn(files)
<1>1. \A f \in Files : \A imp : Resolves(f, imp) <=> ResolvesIn(files, f, imp)
  BY Zenon DEF Resolves, ResolvesIn, HasPulled, ConstsOf
<1>2. \A f \in Files : Used(f) = UsedIn(files[f])
  BY DEF Used, UsedIn, ConstsOf
<1>3. ImportGraph = ImportGraphIn(files)
  BY <1>2, Zenon DEF ImportGraph, ImportGraphIn, HasPulled, ConstsOf
<1>4. \A f \in Files : ModuleLoads(f) <=> ModuleLoadsIn(files, f)
  BY <1>1, <1>2 DEF ModuleLoads, ModuleLoadsIn, NoClash, DefinedBefore
<1> QED BY <1>3, <1>4, Zenon DEF Loads, LoadsIn

(* ... and of what they become.                                             *)
LEMMA LoadsAsFilesNext ==
  Loads' <=> LoadsIn(files')
<1>1. \A f \in Files : \A imp : Resolves(f, imp)' <=> ResolvesIn(files', f, imp)
  BY Zenon DEF Resolves, ResolvesIn, HasPulled, ConstsOf
<1>2. \A f \in Files : Used(f)' = UsedIn(files'[f])
  BY DEF Used, UsedIn, ConstsOf
<1>3. ImportGraph' = ImportGraphIn(files')
  BY <1>2, Zenon DEF ImportGraph, ImportGraphIn, HasPulled, ConstsOf
<1>4. \A f \in Files : ModuleLoads(f)' <=> ModuleLoadsIn(files', f)
  BY <1>1, <1>2 DEF ModuleLoads, ModuleLoadsIn, NoClash, DefinedBefore
<1> QED BY <1>3, <1>4, Zenon DEF Loads, LoadsIn

(* What a pull must do.                                                     *)
Kept(before, after) ==
  \A f \in Files : \A c \in ToSet(before[f].consts) :
    \E d \in ToSet(after[f].consts) : Ident(d) = Ident(c) /\ c.keys \subseteq d.keys

MixedIn(fs, f) ==
  \E c \in ToSet(fs[f].consts) : c.of = Helper \/ (c.of \in Functions /\ f # c.of /\ ~single)
Mirrors(fs) ==
  /\ \A f \in Files : ~MixedIn(fs, f) =>
       \A c \in ToSet(fs[f].consts) : c.of \in DOMAIN db /\ c.keys = db[c.of].keys
  /\ \A e \in DOMAIN db : \E f \in Files : \E c \in ToSet(fs[f].consts) : c.of = e

Todos == Seq([file : Files, after : Contents])
Jobs == [mode : Modes, scope : Scopes, db : {db}, before : [Files -> Contents], todo : Todos]

Good(fs, home) ==
  fs \in [Files -> Contents] /\ (\A f \in Files : Fits(f, fs[f])) /\ Homed(fs, home)

(* What a second pull would leave as it is, of a plan whose tables have     *)
(* those homes; the imports, if the first did not assemble a single file.   *)
PlaceAt(home, e) == IF single THEN Misc ELSE IF e \in Tables THEN home[e] ELSE e
UnitsAt(home, f, scope) ==
  {Unit(e, PulledTables(scope)) : e \in {e \in Pulled(scope) : PlaceAt(home, e) = f}}

LocalOnlyIn(content, scope) ==
  ~single /\ \E c \in ToSet(content.consts) : c.of \in Entities /\ c.of \notin Pulled(scope)
DeletableIn(content, scope, mode) ==
  mode # "merge" /\ \A c \in ToSet(content.consts) : c.of \in Entities \ Pulled(scope)

SettledIn(content, f, home, scope, mode) ==
  IF UnitsAt(home, f, scope) # {} \/ (single /\ f = Misc)
    THEN Unmoved(content, UnitsAt(home, f, scope), mode = "merge")
    ELSE ~(LocalOnlyIn(content, scope) /\ DeletableIn(content, scope, mode))

Settled(before, plan, home, scope, mode) ==
  \A f \in Files :
    /\ SettledIn(plan[f], f, home, scope, mode)
    /\ (single => before[Misc].there) => ImportsAll(plan[f], UnitsAt(home, f, scope))

(* A pull whose plan is `plan' is being written.                            *)
UnderWay(plan, home) ==
  /\ job \in Jobs
  /\ Good(job.before, home) /\ Good(plan, home)
  /\ \A f \in Files : files[f] \in {job.before[f], plan[f]}
  /\ \A f \in Files : files[f] = plan[f] \/ \E i \in DOMAIN job.todo : job.todo[i].file = f
  /\ \A i \in DOMAIN job.todo : job.todo[i].after = plan[job.todo[i].file]
  /\ pc = "done" => job.todo = <<>>
  /\ job.mode \in {"plain", "merge"} => Kept(job.before, plan)
  /\ job.mode = "discard" /\ job.scope = Entities => Mirrors(plan)
  /\ marks = {} => LoadsIn(job.before) /\ LoadsIn(plan)
  /\ Settled(job.before, plan, home, job.scope, job.mode)

(* The invariant.                                                           *)
PullInv ==
  /\ single \in BOOLEAN /\ DatabaseOK /\ files \in [Files -> Contents]
  /\ pc \in {"idle", "apply", "done"}
  /\ marks \subseteq {"strayed", "grafted", "reported", "torn"}
  /\ edits \in Nat /\ drifts \in Nat
  /\ \E home \in Homes : Good(files, home)
  /\ pc = "idle" /\ marks = {} => LoadsIn(files)
  /\ pc # "idle" => \E plan \in [Files -> Contents], home \in Homes : UnderWay(plan, home)

Untouched(f, scope, mode) == ~IsNew(f) /\ ~IsMerged(f, scope) /\ ~IsDeleted(f, scope, mode)

(* What becomes of f, whichever way: C.                                     *)
Becomes(C, f, scope, mode) ==
  /\ C \in Contents
  /\ ~C.there => C.consts = <<>>
  /\ \A d \in ToSet(C.consts) :
       \/ d \in UnitSet(f, scope)
       \/ /\ d \in ConstsOf(f) /\ \A u \in UnitSet(f, scope) : Ident(u) # Ident(d)
          /\ mode = "merge" \/ Untouched(f, scope, mode)
       \/ mode = "merge" /\ Regrafted(d, files[f], UnitSet(f, scope), TRUE)
  /\ \A u \in UnitSet(f, scope) : \E d \in ToSet(C.consts) : Ident(d) = Ident(u)
  /\ \A imp \in C.imports :
       imp \in files[f].imports \/ \E u \in UnitSet(f, scope) : imp.of \in u.by
  /\ ~IsNew(f) => \A u \in UnitSet(f, scope) : \A t \in u.by :
       /\ \E imp \in C.imports : imp.of = t
       /\ \A imp \in C.imports : imp.of = t => imp.path = "sibling"

(* That is what becomes of each file.                                       *)
LEMMA AfterFacts ==
  ASSUME FilesAssumption, DatabaseOK, FilesOK, NEW scope \in SUBSET Entities, NEW mode \in Modes, NEW f \in Files
  PROVE  Becomes(After(f, scope, mode), f, scope, mode)
<1> DEFINE C == After(f, scope, mode)
           U == UnitSet(f, scope)
           new == UNION {UnitImports(u) : u \in U}
<1>1. /\ IsNew(f) => C = Assembled(f, scope)
      /\ IsMerged(f, scope) => C = MergeUnits(files[f], UnitsFor(f, scope), Keeps(f, mode))
      /\ IsDeleted(f, scope, mode) => C = Absent
      /\ Untouched(f, scope, mode) => C = files[f]
  BY AfterCases DEF Untouched
<1>2. files[f] \in Contents /\ (~files[f].there => files[f].consts = <<>>) /\ files[f].imports \subseteq Imports
  BY DEF FilesOK, Fits, Contents
<1>3. ~IsNew(f) /\ ~IsMerged(f, scope) => U = {}
  BY DEF IsMerged
<1> HIDE DEF C, U, Becomes
<1>4. CASE IsNew(f)
  <2>1. /\ C \in Contents /\ C.there /\ C.imports = {} /\ ToSet(C.consts) = U
    BY <1>1, <1>4, AssembledFacts, ZenonT(40) DEF U
  <2> QED BY <1>4, <2>1 DEF C, U, Becomes
<1>5. CASE IsMerged(f, scope)
  <2> DEFINE keep == Keeps(f, mode)
             units == UnitsFor(f, scope)
  <2>1. units \in Seq(Consts) /\ ToSet(units) = U /\ Agree(units) /\ keep \in BOOLEAN
    BY UnitsForFacts DEF U, Keeps
  <2>2. keep /\ ToSet(files[f].consts) # {} => mode = "merge"
    BY <1>2 DEF Keeps, ToSet
  <2> HIDE DEF keep, units
  <2>3. /\ C \in Contents /\ C.there /\ C.imports = AddImports(files[f].imports, new)
        /\ \A d \in ToSet(C.consts) :
             \/ d \in U
             \/ keep /\ d \in ToSet(files[f].consts) /\ \A u \in U : Ident(u) # Ident(d)
             \/ Regrafted(d, files[f], U, keep)
        /\ \A u \in U : \E d \in ToSet(C.consts) : Ident(d) = Ident(u)
    <3>1. C = MergeUnits(files[f], units, keep)
      BY <1>1, <1>5 DEF units, keep
    <3>2. Merges(C, files[f], units, keep)
      BY <1>2, <2>1, <3>1, MergeFacts
    <3> QED BY <2>1, <3>2 DEF Merges
  <2>4. ASSUME NEW d \in ToSet(C.consts)
        PROVE  \/ d \in U
               \/ d \in ConstsOf(f) /\ (\A u \in U : Ident(u) # Ident(d)) /\ mode = "merge"
               \/ mode = "merge" /\ Regrafted(d, files[f], U, TRUE)
    <3>1. CASE keep /\ d \in ToSet(files[f].consts) /\ \A u \in U : Ident(u) # Ident(d)
      BY <2>2, <3>1 DEF ConstsOf
    <3>2. CASE Regrafted(d, files[f], U, keep)
      BY <2>2, <3>2 DEF Regrafted
    <3> QED BY <2>3, <3>1, <3>2
  <2>5. ASSUME NEW imp \in C.imports
        PROVE  imp \in files[f].imports \/ \E u \in U : imp.of \in u.by
    BY <2>3 DEF AddImports, UnitImports
  <2>6. ASSUME NEW u \in U, NEW t \in u.by
        PROVE  /\ \E imp \in C.imports : imp.of = t
               /\ \A imp \in C.imports : imp.of = t => imp.path = "sibling"
    <3>1. [of |-> t, path |-> "sibling"] \in new
      BY DEF UnitImports
    <3>2. \A imp \in new : imp.path = "sibling"
      BY DEF UnitImports
    <3> HIDE DEF new
    <3> QED BY <2>3, <3>1, <3>2 DEF AddImports
  <2> HIDE DEF new
  <2> QED BY <2>3, <2>4, <2>5, <2>6 DEF C, U, Becomes
<1>6. CASE IsDeleted(f, scope, mode)
  <2>1. C = Absent /\ U = {}
    BY <1>1, <1>3, <1>6 DEF IsDeleted
  <2>2. C \in Contents /\ C.consts = <<>> /\ C.imports = {} /\ ToSet(C.consts) = {}
    BY <2>1, EmptySeq DEF Absent, Contents, ToSet
  <2> QED BY <2>1, <2>2 DEF C, U, Becomes
<1>7. CASE Untouched(f, scope, mode)
  <2>1. C = files[f] /\ U = {}
    BY <1>1, <1>3, <1>7 DEF Untouched
  <2> QED BY <1>2, <1>7, <2>1 DEF C, U, ConstsOf, Becomes
<1> QED BY <1>4, <1>5, <1>6, <1>7 DEF Untouched

(* No unit goes to a file where only the files' own definitions are.        *)
LEMMA PlannedFits ==
  ASSUME FilesAssumption, DatabaseOK, FilesOK, NEW scope \in SUBSET Entities, NEW mode \in Modes,
         NEW home \in Homes, Homed(files, home), NEW f \in Files
  PROVE  LET C == After(f, scope, mode)
         IN  /\ C \in Contents /\ Fits(f, C)
             /\ \A d \in ToSet(C.consts) : d.of \in Tables => Place(d.of) = f
             /\ \A u \in UnitSet(f, scope) : Place(u.of) = f /\ (~single => f \in {u.of, Misc})
<1> DEFINE C == After(f, scope, mode)
<1>1. ASSUME NEW u \in UnitSet(f, scope)
      PROVE  u.of \in Entities /\ Place(u.of) = f /\ f \in {u.of, Misc} /\ (single => f = Misc)
  <2>1. PICK e \in Pulled(scope) : Place(e) = f /\ u = Unit(e, PulledTables(scope))
    BY DEF UnitSet
  <2>2. u.of = e /\ e \in Entities
    BY <2>1, UnitFacts DEF Pulled
  <2> QED BY <2>1, <2>2, PlaceFacts
<1>2. /\ C \in Contents /\ (~C.there => C.consts = <<>>)
      /\ \A d \in ToSet(C.consts) :
           \/ d \in UnitSet(f, scope)
           \/ d \in ConstsOf(f)
           \/ Regrafted(d, files[f], UnitSet(f, scope), TRUE)
  <2>1. Becomes(C, f, scope, mode)
    BY AfterFacts
  <2> QED BY <2>1 DEF Becomes
<1>3. ASSUME NEW d \in ToSet(C.consts)
      PROVE  d \in ConstsOf(f) \/ \E u \in UnitSet(f, scope) : Ident(d) = Ident(u) /\ d.of = u.of
  BY <1>2 DEF Regrafted, Ident
<1>4. ASSUME NEW d \in ToSet(C.consts), d.of \in Tables PROVE Place(d.of) = f
  BY <1>1, <1>3, <1>4, PlaceFacts
<1>5. ASSUME NEW d \in ToSet(C.consts), f # Misc PROVE d.of \in {f, Helper}
  BY <1>1, <1>3, <1>5 DEF FilesOK, Fits, ConstsOf
<1>6. ASSUME single, f # Misc PROVE C = Absent
  <2>1. files[f] = Absent
    BY <1>6 DEF FilesOK, Fits
  <2>2. UnitSet(f, scope) = {}
    BY <1>1, <1>6
  <2>3. Untouched(f, scope, mode)
    BY <1>6, <2>2 DEF Untouched, IsNew, IsMerged, IsDeleted, LocalOnlyFile
  <2> QED BY <2>1, <2>3, AfterCases DEF Untouched
<1> QED BY <1>1, <1>2, <1>4, <1>5, <1>6 DEF Fits

(* A plan that nothing is known against.                                    *)
Unmarked(scope, mode) ==
  /\ ~Strays(scope)
  /\ mode = "merge" => \A f \in Files : ~Grafts(f, scope)
  /\ mode = "discard" => \A f \in Files :
       LocalOnlyFile(f, scope) /\ After(f, scope, mode) = files[f] => Used(f) = {}
  /\ mode = "plain" => \A f \in Files : ~RisksLocal(f, scope)

(* A pull that marks nothing, and is let through, has such a plan.          *)
LEMMA UnmarkedFacts ==
  ASSUME NEW scope, NEW mode, Marks(scope, mode) = {},
         mode = "plain" => \A f \in Files : ~RisksLocal(f, scope)
  PROVE  Unmarked(scope, mode)
<1>1. ~Strays(scope)
  <2>1. "strayed" \notin Marks(scope, mode)
    OBVIOUS
  <2> QED BY <2>1 DEF Marks
<1>2. ~(mode = "merge" /\ \E f \in Files : Grafts(f, scope))
  <2>1. "grafted" \notin Marks(scope, mode)
    OBVIOUS
  <2> QED BY <2>1 DEF Marks
<1>3. ~(mode = "discard" /\ \E f \in Files :
          /\ LocalOnlyFile(f, scope) /\ After(f, scope, mode) = files[f]
          /\ Used(f) # {})
  <2>1. "reported" \notin Marks(scope, mode)
    OBVIOUS
  <2> QED BY <2>1 DEF Marks
<1> QED BY <1>1, <1>2, <1>3 DEF Unmarked

(* In a file that is left as it is, nothing is pulled.                      *)
LEMMA UntouchedFacts ==
  ASSUME FilesAssumption, DatabaseOK, FilesOK, NEW scope \in SUBSET Entities, NEW mode \in Modes,
         NEW home \in Homes, Homed(files, home), NEW f \in Files, Untouched(f, scope, mode)
  PROVE  /\ After(f, scope, mode) = files[f] /\ UnitSet(f, scope) = {}
         /\ \A c \in ConstsOf(f) : c.of \in Tables => c.of \notin Pulled(scope) /\ LocalOnlyFile(f, scope)
<1>1. After(f, scope, mode) = files[f] /\ UnitSet(f, scope) = {}
  BY AfterCases DEF Untouched, IsMerged
<1>2. ASSUME NEW c \in ConstsOf(f), c.of \in Tables
      PROVE  c.of \notin Pulled(scope) /\ LocalOnlyFile(f, scope)
  <2>1. Place(c.of) = f
    BY <1>2, PlaceFacts
  <2>2. c.of \notin Pulled(scope)
    BY <1>1, <2>1 DEF UnitSet
  <2>3. CASE single
    <3>1. f # Misc
      BY <2>3 DEF Untouched, IsNew, IsMerged
    <3>2. files[f] = Absent
      BY <2>3, <3>1 DEF FilesOK, Fits
    <3> QED BY <3>2 DEF ConstsOf, ToSet, Absent
  <2> QED BY <1>2, <2>2, <2>3 DEF LocalOnlyFile, Entities
<1> QED BY <1>1, <1>2

(* All that is used after such a plan is used by what was pulled.           *)
LEMMA UsedIsPulled ==
  ASSUME FilesAssumption, DatabaseOK, FilesOK, NEW scope \in SUBSET Entities, NEW mode \in Modes,
         NEW home \in Homes, Homed(files, home), Unmarked(scope, mode), NEW f \in Files,
         NEW t \in UsedIn(After(f, scope, mode))
  PROVE  \E u \in UnitSet(f, scope) : t \in u.by
<1> DEFINE U == UnitSet(f, scope)
<1>1. PICK d \in ToSet(After(f, scope, mode).consts) : t \in d.by
  BY DEF UsedIn
<1>2. \/ d \in U
      \/ /\ d \in ConstsOf(f) /\ \A u \in U : Ident(u) # Ident(d)
         /\ mode = "merge" \/ Untouched(f, scope, mode)
      \/ mode = "merge" /\ Regrafted(d, files[f], U, TRUE)
  BY <1>1, AfterFacts DEF Becomes
<1>3. ToSet(UnitsFor(f, scope)) = U /\ Agree(UnitsFor(f, scope))
  BY UnitsForFacts
<1>4. ASSUME mode = "merge", NEW c \in ConstsOf(f), t \in c.by,
             \A u \in U : Ident(u) = Ident(c) => t \in LocalKeys(c, u)
      PROVE  FALSE
  <2>1. Grafts(f, scope)
    BY <1>3, <1>4 DEF Grafts
  <2> QED BY <1>4, <2>1 DEF Unmarked
<1>5. CASE d \in ConstsOf(f) /\ (\A u \in U : Ident(u) # Ident(d)) /\ mode = "merge"
  BY <1>1, <1>4, <1>5
<1>6. CASE d \in ConstsOf(f) /\ Untouched(f, scope, mode) /\ mode # "merge"
  <2>1. d.of \in Tables
    <3>1. d \in Consts
      BY <1>6 DEF FilesOK, Contents, ConstsOf, ToSet
    <3> QED BY <1>1, <3>1 DEF Consts
  <2>2. LocalOnlyFile(f, scope) /\ After(f, scope, mode) = files[f] /\ U = {}
    BY <1>6, <2>1, UntouchedFacts
  <2>3. Used(f) # {}
    BY <1>1, <1>6 DEF Used
  <2>4. ~IsMerged(f, scope)
    BY <1>6 DEF Untouched
  <2>5. CASE mode = "plain"
    <3>1. UnitsFor(f, scope) = <<>>
      BY <2>2, UnitsForFacts
    <3>2. ~(single /\ f = Misc)
      BY <1>6 DEF Untouched, IsNew, IsMerged
    <3>3. RisksLocal(f, scope)
      BY <2>2, <3>1, <3>2 DEF RisksLocal
    <3> QED BY <2>5, <3>3 DEF Unmarked
  <2> QED BY <1>6, <2>2, <2>3, <2>5 DEF Unmarked, Modes
<1>7. CASE mode = "merge" /\ Regrafted(d, files[f], U, TRUE)
  <2>1. PICK c \in ToSet(files[f].consts), u \in U :
          /\ Ident(c) = Ident(u) /\ d.by \ u.by \subseteq c.by \cap LocalKeys(c, u)
    BY <1>7 DEF Regrafted
  <2>2. CASE t \notin u.by
    <3>1. t \in c.by /\ t \in LocalKeys(c, u)
      BY <1>1, <2>1, <2>2
    <3>2. \A v \in U : Ident(v) = Ident(c) => v = u
      BY <1>3, <2>1 DEF Agree
    <3> QED BY <1>4, <1>7, <2>1, <3>1, <3>2 DEF ConstsOf
  <2> QED BY <2>2
<1> QED BY <1>1, <1>2, <1>5, <1>6, <1>7

(* What such a pull imports lies in the file of its name, and the plan      *)
(* has it there.                                                            *)
LEMMA PulledUses ==
  ASSUME FilesAssumption, DatabaseOK, FilesOK, NEW scope \in SUBSET Entities, NEW mode \in Modes,
         NEW home \in Homes, Homed(files, home), ~Strays(scope), NEW f \in Files,
         NEW u \in UnitSet(f, scope), NEW t \in u.by
  PROVE  /\ t \in PulledTables(scope) /\ t # u.of /\ u.of \in PulledTables(scope)
         /\ t \in Direct(u.of, PulledTables(scope))
         /\ ~single => f = u.of /\ Place(t) = t /\ HasPulled(After(t, scope, mode), t)
         /\ single => ~files[f].there
<1>1. PICK e \in Pulled(scope) : u = Unit(e, PulledTables(scope)) /\ Place(e) = f
  BY DEF UnitSet
<1>2. /\ u.of = e /\ e \in Tables /\ t \in Direct(e, PulledTables(scope))
  BY <1>1, UnitFacts
<1>3. t \in PulledTables(scope) /\ t # e /\ e \in PulledTables(scope)
  BY <1>2 DEF Direct, PulledTables
<1>4. ~(IF single THEN files[f].there ELSE f # u.of \/ TableLoc(t) # t)
  <2>1. u \in ToSet(UnitsFor(f, scope))
    BY UnitsForFacts
  <2> QED BY <2>1 DEF Strays
<1>5. ASSUME ~single PROVE f = u.of /\ Place(t) = t /\ HasPulled(After(t, scope, mode), t)
  <2>1. f = u.of /\ Place(t) = t /\ t \in Files /\ t \in Pulled(scope)
    <3>1. f = u.of /\ TableLoc(t) = t
      BY <1>4, <1>5
    <3>2. t \in Tables /\ t \in Pulled(scope) /\ t \in Files
      BY <1>3 DEF PulledTables, Files, Entities
    <3>3. TableLoc(t) = Place(t)
      BY <3>2 DEF Place, TableLoc
    <3> QED BY <3>1, <3>2, <3>3
  <2>2. Unit(t, PulledTables(scope)) \in UnitSet(t, scope)
    BY <2>1 DEF UnitSet
  <2>3. \E d \in ToSet(After(t, scope, mode).consts) : Ident(d) = Ident(Unit(t, PulledTables(scope)))
    <3>1. Becomes(After(t, scope, mode), t, scope, mode)
      BY <2>1, AfterFacts
    <3> QED BY <2>2, <3>1 DEF Becomes
  <2>4. Ident(Unit(t, PulledTables(scope))) = PulledIdent(t)
    BY <2>1, UnitFacts
  <2> QED BY <2>1, <2>3, <2>4 DEF HasPulled
<1> QED BY <1>2, <1>3, <1>4, <1>5

(* Nothing pulled has the name of an import of the file it goes to.         *)
LEMMA PlannedNoClash ==
  ASSUME FilesAssumption, DatabaseOK, FilesOK, NEW scope \in SUBSET Entities, NEW mode \in Modes,
         NEW home \in Homes, Homed(files, home), Unmarked(scope, mode), LoadsIn(files), NEW f \in Files
  PROVE  NoClash(After(f, scope, mode))
<1> DEFINE C == After(f, scope, mode)
           U == UnitSet(f, scope)
<1>1. Becomes(C, f, scope, mode) /\ C.consts \in Seq(Consts)
  <2>1. Becomes(C, f, scope, mode)
    BY AfterFacts
  <2> QED BY <2>1 DEF Becomes, Contents
<1>2. ~Strays(scope) /\ ToSet(UnitsFor(f, scope)) = U
  BY UnitsForFacts DEF Unmarked
<1>3. \A imp \in files[f].imports, u \in U : imp.of # u.of
  BY <1>2 DEF Strays
<1>4. ASSUME NEW imp \in files[f].imports, NEW d \in ConstsOf(f), ~d.own PROVE d.of # imp.of
  <2>1. ModuleLoadsIn(files, f)
    BY DEF LoadsIn
  <2>2. PICK i \in DOMAIN files[f].consts : files[f].consts[i] = d
    BY DEF ConstsOf, ToSet
  <2> QED BY <1>4, <2>1, <2>2 DEF ModuleLoadsIn, NoClash
<1>5. ASSUME NEW u \in U, NEW t \in u.by, ~IsNew(f), NEW d \in ToSet(C.consts), d.of = t PROVE FALSE
  <2>1. t \in PulledTables(scope) /\ t # u.of /\ (~single => f = u.of /\ Place(t) = t) /\ (single => ~files[f].there)
    BY <1>2, PulledUses
  <2>2. Place(t) = f
    <3>1. t \in Tables
      BY <2>1 DEF PulledTables
    <3> QED BY <1>5, <3>1, PlannedFits
  <2>3. CASE single
    <3>1. f # Misc
      BY <1>5, <2>1, <2>3 DEF IsNew
    <3>2. t \in Entities
      BY <2>1 DEF PulledTables, Entities
    <3> QED BY <2>2, <2>3, <3>1, <3>2, PlaceFacts
  <2> QED BY <2>1, <2>2, <2>3
<1> HIDE DEF C, U
<1>6. ASSUME NEW imp \in C.imports, NEW i \in DOMAIN C.consts, ~C.consts[i].own PROVE C.consts[i].of # imp.of
  <2> DEFINE d == C.consts[i]
  <2>1. d \in ToSet(C.consts)
    BY DEF ToSet
  <2> HIDE DEF d
  <2>2. CASE IsNew(f)
    <3>1. C.imports = {}
      BY <2>2, AfterCases, AssembledFacts DEF C
    <3> QED BY <3>1
  <2>3. CASE ~IsNew(f)
    <3>1. CASE \E u \in U : imp.of \in u.by
      BY <1>5, <2>1, <2>3, <3>1 DEF d
    <3>2. CASE imp \in files[f].imports
      <4>1. \/ d \in U
            \/ d \in ConstsOf(f)
            \/ \E u \in U : Ident(d) = Ident(u)
        BY <1>1, <2>1 DEF Becomes, Regrafted, U
      <4> QED BY <1>3, <1>4, <1>6, <3>2, <4>1 DEF Ident, d
    <3>3. imp \in files[f].imports \/ \E u \in U : imp.of \in u.by
      BY <1>1 DEF Becomes, U
    <3> QED BY <3>1, <3>2, <3>3
  <2> QED BY <2>2, <2>3
<1> QED BY <1>6 DEF NoClash, C

(* Every module of such a plan loads, given those it imports.               *)
LEMMA PlannedModules ==
  ASSUME FilesAssumption, DatabaseOK, FilesOK, NEW scope \in SUBSET Entities, NEW mode \in Modes,
         NEW home \in Homes, Homed(files, home), Unmarked(scope, mode), LoadsIn(files), NEW f \in Files
  PROVE  ModuleLoadsIn(Planned(scope, mode), f)
<1> DEFINE plan == Planned(scope, mode)
           C == After(f, scope, mode)
<1>1. plan[f] = C /\ \A g \in Files : plan[g] = After(g, scope, mode)
  BY DEF Planned
<1> HIDE DEF plan
<1>2. NoClash(C)
  BY PlannedNoClash
<1>3. Becomes(C, f, scope, mode)
  BY AfterFacts
<1>4. \A t \in UsedIn(C) : \E u \in UnitSet(f, scope) : t \in u.by
  BY UsedIsPulled
<1>5. ~Strays(scope)
  BY DEF Unmarked
<1> HIDE DEF C
<1>6. ASSUME NEW imp \in C.imports, imp.of \in UsedIn(C) PROVE ResolvesIn(plan, f, imp)
  <2>1. PICK u \in UnitSet(f, scope) : imp.of \in u.by
    BY <1>4, <1>6
  <2>2. CASE IsNew(f)
    <3>1. C.imports = {}
      BY <2>2, AfterCases, AssembledFacts DEF C
    <3> QED BY <3>1
  <2>3. CASE ~IsNew(f)
    <3>1. imp.path = "sibling"
      BY <1>3, <2>1, <2>3 DEF Becomes
    <3>2. /\ imp.of \in PulledTables(scope) /\ u.of \in PulledTables(scope)
          /\ ~single => f = u.of /\ HasPulled(After(imp.of, scope, mode), imp.of)
          /\ single => ~files[f].there
      BY <1>5, <2>1, PulledUses
    <3>3. ~single
      <4>1. ASSUME single PROVE f = Misc
        <5>1. Place(u.of) = f
          BY <2>1, PlannedFits
        <5>2. u.of \in Entities
          BY <3>2 DEF PulledTables, Entities
        <5> QED BY <4>1, <5>1, <5>2, PlaceFacts
      <4> QED BY <2>3, <3>2, <4>1 DEF IsNew
    <3>4. f \in Tables /\ imp.of \in Files
      BY <3>2, <3>3 DEF PulledTables, Files, Entities
    <3> QED BY <1>1, <3>1, <3>2, <3>3, <3>4 DEF ResolvesIn
  <2> QED BY <2>2, <2>3
<1>7. ASSUME NEW i \in DOMAIN C.consts, NEW t \in C.consts[i].by
      PROVE  (\E imp \in C.imports : imp.of = t) \/ DefinedBefore(C, i, t)
  <2>1. t \in UsedIn(C)
    BY DEF UsedIn, ToSet
  <2>2. PICK u \in UnitSet(f, scope) : t \in u.by
    BY <1>4, <2>1
  <2>3. CASE ~IsNew(f)
    BY <1>3, <2>2, <2>3 DEF Becomes
  <2>4. CASE IsNew(f)
    <3>1. C = Assembled(f, scope)
      BY <2>4, AfterCases DEF C
    <3>2. t \in Entities
      BY <1>5, <2>2, PulledUses DEF PulledTables, Entities
    <3>3. Place(t) = f
      BY <2>4, <3>2, PlaceFacts DEF IsNew
    <3>4. \E j \in DOMAIN C.consts : j < i /\ C.consts[j].of = t /\ ~C.consts[j].own
      <4> DEFINE A == Assembled(f, scope)
      <4>1. \A n \in DOMAIN A.consts : \A r \in A.consts[n].by :
              Place(r) = f => \E j \in DOMAIN A.consts : j < n /\ A.consts[j].of = r /\ ~A.consts[j].own
        BY AssembledFacts
      <4> HIDE DEF A
      <4> QED BY <3>1, <3>3, <4>1 DEF A
    <3> QED BY <3>4 DEF DefinedBefore
  <2> QED BY <2>3, <2>4
<1> QED BY <1>1, <1>2, <1>6, <1>7 DEF ModuleLoadsIn, plan

(* No module of such a plan leads back to itself: imports are references    *)
(* that do not.                                                             *)
LEMMA PlannedNoCircle ==
  ASSUME FilesAssumption, DatabaseOK, FilesOK, NEW scope \in SUBSET Entities, NEW mode \in Modes,
         NEW home \in Homes, Homed(files, home), Unmarked(scope, mode), NEW f \in Files
  PROVE  ~OnCycle(f, ImportGraphIn(Planned(scope, mode)))
<1> DEFINE plan == Planned(scope, mode)
           G == ImportGraphIn(plan)
           P == PulledTables(scope)
           R == RefGraph(P)
<1>0. \A g \in Files : plan[g] = After(g, scope, mode)
  BY DEF Planned
<1>1. ASSUME NEW n \in Files, NEW m \in G[n]
      PROVE  n \in P /\ m \in Direct(n, P)
  <2>1. m \in Files \ {n} /\ \E t \in UsedIn(plan[n]) : HasPulled(plan[m], t)
    BY DEF ImportGraphIn
  <2>2. PICK t \in UsedIn(plan[n]) : HasPulled(plan[m], t)
    BY <2>1
  <2>3. PICK u \in UnitSet(n, scope) : t \in u.by
    BY <1>0, UsedIsPulled
  <2>4. /\ t \in P /\ u.of \in P /\ t \in Direct(u.of, P)
        /\ ~single => n = u.of /\ Place(t) = t
    BY <2>3, PulledUses DEF Unmarked
  <2>5. Place(t) = m
    <3>1. PICK d \in ToSet(After(m, scope, mode).consts) : Ident(d) = PulledIdent(t)
      BY <1>0, <2>1, <2>2 DEF HasPulled
    <3>2. d.of = t /\ t \in Tables
      BY <2>4, <3>1 DEF Ident, PulledIdent, PulledTables
    <3> QED BY <2>1, <3>1, <3>2, PlannedFits
  <2>6. CASE single
    <3>1. Place(u.of) = n
      BY <2>3, PlannedFits
    <3>2. u.of \in Entities /\ t \in Entities
      BY <2>4 DEF PulledTables, Entities
    <3>3. n = Misc /\ m = Misc
      BY <2>5, <2>6, <3>1, <3>2, PlaceFacts
    <3> QED BY <2>1, <3>3
  <2> QED BY <2>4, <2>5, <2>6
<1>2. DOMAIN G = Files
  BY DEF ImportGraphIn
<1> HIDE DEF G
<1>3. P \subseteq Files /\ R \in [P -> SUBSET P]
  BY RefGraphIsGraph DEF PulledTables, Files, Entities
<1> HIDE DEF P
<1>4. SUFFICES ASSUME NEW k \in G[f], f \in Reachable(k, G) PROVE FALSE
  BY DEF OnCycle, G
<1>5. f \in P /\ k \in Direct(f, P)
  BY <1>1
<1>6. k \in P /\ f \notin Reachable(k, R)
  BY <1>5, DirectFacts
<1> DEFINE S == Reachable(k, R)
<1>7. S \subseteq P /\ k \in S
  <2>1. S \subseteq P
    BY <1>3 DEF Reachable
  <2> QED BY <1>3, <1>6, <2>1, ReachesItself
<1>8. ASSUME NEW n \in S, NEW m \in G[n] PROVE m \in S
  <2>1. n \in P /\ m \in Direct(n, P)
    BY <1>1, <1>3, <1>7
  <2>2. m \in R[n]
    BY <2>1, DirectFacts
  <2> QED BY <1>3, <1>6, <2>2, ReachesNext
<1> HIDE DEF S
<1>9. S \in SUBSET DOMAIN G
  BY <1>2, <1>3, <1>7
<1>10. f \in S
  BY <1>4, <1>7, <1>8, <1>9 DEF Reachable
<1> QED BY <1>6, <1>10 DEF S

(* A plan that nothing is known against loads.                              *)
LEMMA PlannedLoads ==
  ASSUME FilesAssumption, DatabaseOK, FilesOK, NEW scope \in SUBSET Entities, NEW mode \in Modes,
         NEW home \in Homes, Homed(files, home), Unmarked(scope, mode), LoadsIn(files)
  PROVE  LoadsIn(Planned(scope, mode))
BY PlannedModules, PlannedNoCircle DEF LoadsIn

(* A pull with --merge keeps everything there is, and so does one without a *)
(* flag that is let through.                                                *)
LEMMA PlannedKeeps ==
  ASSUME FilesAssumption, DatabaseOK, FilesOK, NEW scope \in SUBSET Entities, NEW mode \in {"plain", "merge"},
         mode = "plain" => \A f \in Files : ~RisksLocal(f, scope)
  PROVE  Kept(files, Planned(scope, mode))
<1> SUFFICES ASSUME NEW f \in Files, NEW c \in ToSet(files[f].consts)
             PROVE  \E d \in ToSet(After(f, scope, mode).consts) : Ident(d) = Ident(c) /\ c.keys \subseteq d.keys
  BY DEF Kept, Planned
<1> DEFINE C == After(f, scope, mode)
           units == UnitsFor(f, scope)
           keep == Keeps(f, mode)
<1>0. mode \in Modes
  BY DEF Modes
<1>1. /\ units \in Seq(Consts) /\ ToSet(units) = UnitSet(f, scope) /\ Agree(units)
      /\ units = <<>> <=> UnitSet(f, scope) = {}
  BY UnitsForFacts
<1>2. files[f] \in Contents /\ files[f].there /\ c \in Consts
  BY DEF FilesOK, Fits, Contents, ToSet
<1>3. /\ IsMerged(f, scope) => C = MergeUnits(files[f], units, keep)
      /\ Untouched(f, scope, mode) => C = files[f]
  BY <1>0, AfterCases DEF Untouched
<1> HIDE DEF C, units
<1>4. ~IsNew(f)
  BY <1>2 DEF IsNew
<1>5. CASE IsMerged(f, scope)
  <2>1. Merges(C, files[f], units, keep)
    BY <1>1, <1>2, <1>3, <1>5, MergeFacts DEF Keeps
  <2>2. CASE mode = "merge"
    BY <2>1, <2>2 DEF Merges, Keeps, Covered, C
  <2>3. CASE mode = "plain"
    <3>1. ~AtRisk(files[f], units)
      BY <1>1, <1>5, <2>3 DEF IsMerged, RisksLocal, units
    <3>2. LocalObjects(files[f], units) = {}
      BY <3>1 DEF AtRisk
    <3>3. ASSUME NEW u \in ToSet(units), Ident(u) = Ident(c) PROVE c.keys \subseteq u.keys
      <4>1. LocalKeys(c, u) = {} /\ u.of = c.of
        BY <3>1, <3>3 DEF AtRisk, Ident
      <4> QED BY <1>2, <4>1 DEF LocalKeys, Consts
    <3> QED BY <2>1, <3>2, <3>3 DEF Merges, Covered, C
  <2> QED BY <2>2, <2>3
<1>6. CASE IsDeleted(f, scope, mode)
  <2>1. mode = "plain" /\ LocalOnlyFile(f, scope) /\ ~IsMerged(f, scope)
    BY <1>6 DEF IsDeleted, Deletable
  <2>2. RisksLocal(f, scope)
    BY <1>1, <1>4, <2>1 DEF RisksLocal, IsMerged, units
  <2> QED BY <2>1, <2>2
<1>7. CASE Untouched(f, scope, mode)
  BY <1>3, <1>7 DEF C
<1> QED BY <1>4, <1>5, <1>6, <1>7 DEF Untouched

(* A mirroring pull of everything leaves what the database says.            *)
LEMMA PlannedMirrors ==
  ASSUME FilesAssumption, DatabaseOK, FilesOK, NEW home \in Homes, Homed(files, home)
  PROVE  Mirrors(Planned(Entities, "discard"))
<1> DEFINE plan == Planned(Entities, "discard")
<1>0. "discard" \in Modes /\ Entities \in SUBSET Entities /\ "discard" # "merge"
  BY DEF Modes
<1>1. Pulled(Entities) = DOMAIN db /\ DOMAIN db \subseteq Entities
  BY DEF Pulled, DatabaseOK
<1>2. \A f \in Files : plan[f] = After(f, Entities, "discard")
  BY DEF Planned
<1> HIDE DEF plan
<1>3. ASSUME NEW f \in Files, ~MixedIn(plan, f), NEW c \in ToSet(plan[f].consts)
      PROVE  c.of \in DOMAIN db /\ c.keys = db[c.of].keys
  <2>1. \/ c \in UnitSet(f, Entities)
        \/ c \in ConstsOf(f) /\ Untouched(f, Entities, "discard")
    <3>1. Becomes(plan[f], f, Entities, "discard")
      BY <1>0, <1>2, AfterFacts
    <3> QED BY <1>0, <3>1 DEF Becomes
  <2>2. CASE c \in UnitSet(f, Entities)
    <3>1. PICK e \in Pulled(Entities) : c = Unit(e, PulledTables(Entities))
      BY <2>2 DEF UnitSet
    <3>2. c.of = e /\ c.keys = db[e].keys
      BY <1>0, <3>1, UnitFacts
    <3> QED BY <1>1, <3>1, <3>2
  <2>3. CASE c \in ConstsOf(f) /\ Untouched(f, Entities, "discard")
    <3>1. /\ After(f, Entities, "discard") = files[f] /\ UnitSet(f, Entities) = {}
          /\ \A b \in ConstsOf(f) : b.of \in Tables => b.of \notin Pulled(Entities) /\ LocalOnlyFile(f, Entities)
      BY <1>0, <2>3, UntouchedFacts
    <3>2. ~single
      <4>1. CASE single
        <5>1. f # Misc
          BY <2>3, <4>1 DEF Untouched, IsNew, IsMerged
        <5>2. files[f] = Absent
          BY <4>1, <5>1 DEF FilesOK, Fits
        <5> QED BY <2>3, <5>2 DEF ConstsOf, ToSet, Absent
      <4> QED BY <4>1
    <3>3. ASSUME NEW b \in ConstsOf(f) PROVE b.of \in Entities \ Pulled(Entities)
      <4>1. b.of \in Entities \cup {Helper}
        <5>1. files[f].consts \in Seq(Consts)
          BY DEF FilesOK, Contents
        <5>2. b \in Consts
          BY <5>1 DEF ConstsOf, ToSet
        <5> QED BY <5>2 DEF Consts
      <4>2. b.of # Helper /\ (b.of \in Functions => f = b.of)
        BY <1>2, <1>3, <3>1, <3>2 DEF MixedIn, ConstsOf
      <4>3. CASE b.of \in Functions /\ b.of \in Pulled(Entities)
        <5>1. Place(b.of) = f
          BY <3>2, <4>2, <4>3 DEF Place, FilesAssumption
        <5> QED BY <3>1, <4>3, <5>1 DEF UnitSet
      <4> QED BY <3>1, <4>1, <4>2, <4>3 DEF Entities
    <3>4. LocalOnlyFile(f, Entities) /\ Deletable(f, Entities, "discard")
      BY <2>3, <3>2, <3>3 DEF LocalOnlyFile, Deletable
    <3> QED BY <2>3, <3>4 DEF Untouched, IsDeleted
  <2> QED BY <2>1, <2>2, <2>3
<1>4. ASSUME NEW e \in DOMAIN db PROVE \E f \in Files : \E c \in ToSet(plan[f].consts) : c.of = e
  <2> DEFINE f == Place(e)
             u == Unit(e, PulledTables(Entities))
  <2>1. f \in Files
    BY <1>1, PlaceFacts
  <2>2. u \in UnitSet(f, Entities) /\ u.of = e
    <3>1. u.of = e
      BY <1>0, <1>1, UnitFacts
    <3> QED BY <1>1, <3>1 DEF UnitSet
  <2> HIDE DEF f, u
  <2>3. Becomes(plan[f], f, Entities, "discard")
    BY <1>0, <1>2, <2>1, AfterFacts
  <2>4. PICK c \in ToSet(plan[f].consts) : Ident(c) = Ident(u)
    BY <2>2, <2>3 DEF Becomes
  <2>5. c.of = e
    BY <2>2, <2>4 DEF Ident
  <2> QED BY <2>1, <2>4, <2>5
<1> QED BY <1>3, <1>4 DEF Mirrors, plan

(* What is changed.                                                         *)
LEMMA ChangedFacts ==
  ASSUME FilesAssumption, NEW plan
  PROVE  Changed(plan) \in Seq(Files) /\ ToSet(Changed(plan)) = {f \in Files : plan[f] # files[f]}
<1> DEFINE S == {f \in Files : plan[f] # files[f]}
<1>1. /\ Among(LoadOrder, S) \in Seq(Files)
      /\ ToSet(Among(LoadOrder, S)) = ToSet(LoadOrder) \cap S
  BY FilesAreFinite, AmongFacts
<1>2. ToSet(LoadOrder) = Files /\ S \subseteq Files
  BY FilesAreFinite
<1>3. Changed(plan) = Among(LoadOrder, S)
  BY DEF Changed
<1> HIDE DEF S
<1> QED BY <1>1, <1>2, <1>3 DEF S

(* Once more planned, what is planned stays as it is.                       *)
LEMMA PlannedSettles ==
  ASSUME FilesAssumption, DatabaseOK, FilesOK, NEW scope \in SUBSET Entities, NEW mode \in Modes,
         NEW home \in Homes, \A t \in Tables : home[t] = Place(t)
  PROVE  Settled(files, Planned(scope, mode), home, scope, mode)
<1> SUFFICES ASSUME NEW f \in Files
             PROVE  /\ SettledIn(After(f, scope, mode), f, home, scope, mode)
                    /\ (single => files[Misc].there) => ImportsAll(After(f, scope, mode), UnitsAt(home, f, scope))
  BY DEF Settled, Planned
<1> DEFINE C == After(f, scope, mode)
           U == UnitSet(f, scope)
           merge == mode = "merge"
<1>1. UnitsAt(home, f, scope) = U
  <2>1. \A e \in Pulled(scope) : PlaceAt(home, e) = Place(e)
    BY PlaceFacts DEF PlaceAt, Place
  <2> QED BY <2>1 DEF UnitsAt, UnitSet
<1>2. /\ IsNew(f) => C = Assembled(f, scope)
      /\ IsMerged(f, scope) => C = MergeUnits(files[f], UnitsFor(f, scope), Keeps(f, mode))
      /\ IsDeleted(f, scope, mode) => C = Absent
      /\ Untouched(f, scope, mode) => C = files[f]
  BY AfterCases DEF Untouched
<1>3. files[f] \in Contents /\ (~files[f].there => ToSet(files[f].consts) = {})
  <2>1. ToSet(<<>>) = {}
    BY DEF ToSet
  <2> QED BY <2>1 DEF FilesOK, Fits
<1>4. /\ UnitsFor(f, scope) \in Seq(Consts) /\ ToSet(UnitsFor(f, scope)) = U
      /\ \A u, v \in U : Ident(u) = Ident(v) => u = v
      /\ \A u \in U : u \in Consts
      /\ merge \in BOOLEAN
  <2>1. UnitsFor(f, scope) \in Seq(Consts) /\ ToSet(UnitsFor(f, scope)) = U /\ Agree(UnitsFor(f, scope))
    BY UnitsForFacts
  <2>2. \A u \in ToSet(UnitsFor(f, scope)) : u \in Consts
    BY <2>1 DEF ToSet
  <2> HIDE DEF U
  <2> QED BY <2>1, <2>2 DEF Agree
<1>5. ASSUME NEW u \in U, NEW keep \in BOOLEAN PROVE Grafted(u, u, keep) = u
  BY <1>4, GraftedFacts
<1>6. Becomes(C, f, scope, mode)
  BY AfterFacts
<1> HIDE DEF C, U, merge
<1>7. ASSUME single => files[Misc].there PROVE ImportsAll(C, U)
  <2>1. ~IsNew(f)
    BY <1>7 DEF IsNew
  <2> QED BY <1>6, <2>1 DEF Becomes, ImportsAll, U
<1>8. CASE IsNew(f)
  <2>1. C.there /\ ToSet(C.consts) = U
    BY <1>2, <1>8, AssembledFacts DEF U
  <2>2. Unmoved(C, U, merge)
    BY <1>4, <1>5, <2>1 DEF Unmoved
  <2> QED BY <1>1, <1>7, <1>8, <2>2 DEF IsNew, SettledIn, C, U, merge
<1>9. CASE IsMerged(f, scope)
  <2> DEFINE keep == Keeps(f, mode)
  <2>1. keep \in BOOLEAN /\ (keep /\ ToSet(files[f].consts) # {} => merge) /\ (merge => keep)
    BY <1>3 DEF Keeps, merge
  <2> HIDE DEF keep
  <2>2. Merges(C, files[f], UnitsFor(f, scope), keep)
    <3>1. Agree(UnitsFor(f, scope))
      BY UnitsForFacts
    <3> QED BY <1>2, <1>3, <1>4, <1>9, <2>1, <3>1, MergeFacts DEF keep
  <2>3. /\ C.there
        /\ \A d \in ToSet(C.consts) :
             \/ d \in U
             \/ keep /\ d \in ToSet(files[f].consts) /\ \A u \in U : Ident(u) # Ident(d)
             \/ Regrafted(d, files[f], U, keep)
        /\ \A u \in U : \E d \in ToSet(C.consts) : Ident(d) = Ident(u)
    BY <1>4, <2>2 DEF Merges
  <2>4. ASSUME NEW u \in U, NEW d \in ToSet(C.consts), Ident(d) = Ident(u)
        PROVE  Grafted(d, u, merge) = d
    <3>1. CASE d \in U
      BY <1>4, <1>5, <2>4, <3>1
    <3>2. CASE Regrafted(d, files[f], U, keep)
      <4>1. PICK c \in ToSet(files[f].consts), v \in U : keep /\ Ident(d) = Ident(v) /\ Grafted(d, v, keep) = d
        BY <3>2 DEF Regrafted
      <4>2. v = u /\ merge
        BY <1>4, <2>1, <2>4, <4>1
      <4> QED BY <1>4, <2>1, <4>1, <4>2
    <3> QED BY <2>3, <2>4, <3>1, <3>2
  <2>5. ASSUME ~merge, NEW d \in ToSet(C.consts) PROVE d \in U
    BY <2>1, <2>3, <2>5 DEF Regrafted
  <2>6. Unmoved(C, U, merge)
    BY <2>3, <2>4, <2>5 DEF Unmoved
  <2> QED BY <1>1, <1>7, <1>9, <2>6 DEF IsMerged, SettledIn, C, U, merge
<1>10. CASE IsDeleted(f, scope, mode)
  <2>1. U = {} /\ ~(single /\ f = Misc)
    BY <1>10 DEF IsDeleted, IsMerged, U
  <2>2. ToSet(C.consts) = {}
    BY <1>2, <1>10 DEF Absent, ToSet
  <2>3. ~LocalOnlyIn(C, scope)
    BY <2>2 DEF LocalOnlyIn
  <2> QED BY <1>1, <1>7, <2>1, <2>3 DEF SettledIn, C, U
<1>11. CASE Untouched(f, scope, mode)
  <2>1. U = {} /\ ~(single /\ f = Misc)
    BY <1>11 DEF Untouched, IsMerged, U
  <2>2. ~(LocalOnlyIn(C, scope) /\ DeletableIn(C, scope, mode))
    BY <1>2, <1>11 DEF Untouched, IsDeleted, LocalOnlyFile, Deletable, LocalOnlyIn, DeletableIn, ConstsOf
  <2> QED BY <1>1, <1>7, <2>1, <2>2 DEF SettledIn, C, U
<1> QED BY <1>8, <1>9, <1>10, <1>11 DEF Untouched, C

(* Where what is planned is what there is, a pull finds nothing to write.   *)
LEMMA SettledFacts ==
  ASSUME FilesAssumption, DatabaseOK, FilesOK, NEW scope \in SUBSET Entities, NEW mode \in Modes,
         NEW home \in Homes, Homed(files, home), NEW before, Settled(before, files, home, scope, mode),
         single /\ ~before[Misc].there => ~Strays(scope)
  PROVE  Changed(Planned(scope, mode)) = <<>>
<1>1. ASSUME NEW e \in Pulled(scope) PROVE Place(e) = PlaceAt(home, e)
  <2>1. CASE single \/ e \notin Tables
    BY <2>1 DEF Place, PlaceAt
  <2>2. CASE ~single /\ e \in Tables
    <3>1. home[e] \in Files /\ PlaceAt(home, e) = home[e]
      BY <2>2 DEF PlaceAt, Homes
    <3>2. PICK u \in UnitsAt(home, home[e], scope) : Ident(u) = PulledIdent(e)
      <4>1. Unit(e, PulledTables(scope)) \in UnitsAt(home, home[e], scope)
        BY <3>1 DEF UnitsAt
      <4>2. Ident(Unit(e, PulledTables(scope))) = PulledIdent(e)
        BY UnitFacts
      <4> QED BY <4>1, <4>2
    <3>3. Unmoved(files[home[e]], UnitsAt(home, home[e], scope), mode = "merge")
      BY <3>1, <3>2 DEF Settled, SettledIn
    <3>4. PICK d \in ConstsOf(home[e]) : Ident(d) = PulledIdent(e)
      BY <3>2, <3>3 DEF Unmoved, ConstsOf
    <3>5. d.of = e
      BY <3>4 DEF Ident, PulledIdent
    <3> QED BY <2>2, <3>1, <3>4, <3>5, PlaceFacts
  <2> QED BY <2>1, <2>2
<1>2. ASSUME NEW f \in Files PROVE After(f, scope, mode) = files[f]
  <2> DEFINE U == UnitSet(f, scope)
             merge == mode = "merge"
  <2>1. UnitsAt(home, f, scope) = U
    BY <1>1 DEF UnitsAt, UnitSet
  <2>2. /\ IsMerged(f, scope) => After(f, scope, mode) = MergeUnits(files[f], UnitsFor(f, scope), Keeps(f, mode))
        /\ Untouched(f, scope, mode) => After(f, scope, mode) = files[f]
    BY AfterCases DEF Untouched
  <2>3. UnitsFor(f, scope) \in Seq(Consts) /\ ToSet(UnitsFor(f, scope)) = U /\ files[f] \in Contents
    BY UnitsForFacts DEF FilesOK
  <2>4. IF U # {} \/ (single /\ f = Misc) THEN Unmoved(files[f], U, merge)
        ELSE ~(LocalOnlyIn(files[f], scope) /\ DeletableIn(files[f], scope, mode))
    BY <2>1 DEF Settled, SettledIn
  <2> HIDE DEF U, merge
  <2>5. CASE U # {} \/ (single /\ f = Misc)
    <3>1. Unmoved(files[f], U, merge) /\ files[f].there
      BY <2>4, <2>5 DEF Unmoved
    <3>2. IsMerged(f, scope) /\ Keeps(f, mode) = merge /\ merge \in BOOLEAN
      BY <2>5, <3>1 DEF IsMerged, IsNew, Keeps, U, merge
    <3>3. ImportsAll(files[f], U)
      <4>1. CASE single /\ ~before[Misc].there
        <5>1. \A u \in U : u.by = {}
          BY <2>3, <3>1, <4>1 DEF Strays
        <5> QED BY <5>1 DEF ImportsAll
      <4>2. CASE ~(single /\ ~before[Misc].there)
        BY <2>1, <4>2 DEF Settled, U
      <4> QED BY <4>1, <4>2
    <3>4. MergeUnits(files[f], UnitsFor(f, scope), merge) = files[f]
      BY <2>3, <3>1, <3>2, <3>3, MergeUnmoved
    <3> QED BY <2>2, <3>2, <3>4
  <2>6. CASE ~(U # {} \/ (single /\ f = Misc))
    <3>1. ~(LocalOnlyFile(f, scope) /\ Deletable(f, scope, mode))
      BY <2>4, <2>6 DEF LocalOnlyIn, DeletableIn, LocalOnlyFile, Deletable, ConstsOf
    <3>2. Untouched(f, scope, mode)
      BY <2>6, <3>1 DEF Untouched, IsNew, IsMerged, IsDeleted, U
    <3> QED BY <2>2, <3>2
  <2> QED BY <2>5, <2>6
<1>3. PICK todo \in Seq(Files) :
        todo = Changed(Planned(scope, mode)) /\ ToSet(todo) = {f \in Files : Planned(scope, mode)[f] # files[f]}
  BY ChangedFacts
<1>4. ToSet(todo) = {}
  BY <1>2, <1>3 DEF Planned
<1>5. todo = <<>>
  <2>1. todo # <<>> => todo[1] \in ToSet(todo)
    BY DEF ToSet
  <2> QED BY <1>4, <2>1
<1> QED BY <1>3, <1>5

-----------------------------------------------------------------------------
(* The steps.                                                               *)
LEMMA InitHolds ==
  ASSUME FilesAssumption, Init
  PROVE  PullInv
<1>1. DatabaseOK
  <2>1. PICK E \in SUBSET Tables : db \in [E -> [keys : SUBSET E]]
    BY DEF Init, Databases
  <2>2. DOMAIN db = E /\ \A e \in E : db[e] \in [keys : SUBSET (Keys \cup Tables)]
    BY <2>1
  <2> QED BY <2>1, <2>2 DEF DatabaseOK, Entities
<1>2. files \in [Files -> Contents] /\ \A f \in Files : files[f] = Absent /\ ToSet(files[f].consts) = {}
  <2>1. Absent \in Contents /\ ToSet(Absent.consts) = {}
    BY EmptySeq DEF Absent, Contents, ToSet
  <2> QED BY <2>1 DEF Init
<1>3. \A f \in Files : Fits(f, files[f])
  BY <1>2 DEF Fits, Absent
<1>4. \E home \in Homes : Good(files, home)
  <2> DEFINE home == [t \in Tables |-> t]
  <2>1. home \in Homes
    BY DEF Homes, Files, Entities
  <2>2. Good(files, home)
    BY <1>2, <1>3 DEF Good, Homed
  <2> QED BY <2>1, <2>2
<1>5. LoadsIn(files)
  <2>1. \A f \in Files : UsedIn(files[f]) = {} /\ files[f].imports = {} /\ DOMAIN files[f].consts = {}
    BY <1>2 DEF UsedIn, Absent
  <2>2. \A f \in Files : ModuleLoadsIn(files, f)
    BY <2>1 DEF ModuleLoadsIn, NoClash
  <2>3. \A f \in Files : ImportGraphIn(files)[f] = {}
    BY <2>1 DEF ImportGraphIn
  <2> QED BY <2>2, <2>3 DEF LoadsIn, OnCycle
<1> QED BY <1>1, <1>2, <1>4, <1>5 DEF Init, PullInv

(* What no step of a pull changes.                                          *)
LEMMA GoodFrame ==
  ASSUME NEW fs, NEW home, single' = single
  PROVE  Good(fs, home)' <=> Good(fs, home)
<1>1. \A f \in Files : Fits(f, fs[f])' <=> Fits(f, fs[f])
  BY DEF Fits
<1> QED BY <1>1 DEF Good

(* Nor does it change what mirrors the database, ...                        *)
LEMMA MirrorsFrame ==
  ASSUME NEW fs, single' = single, db' = db
  PROVE  Mirrors(fs)' <=> Mirrors(fs)
BY DEF Mirrors, MixedIn

(* ... or what a pull may hold.                                             *)
LEMMA JobsFrame ==
  ASSUME db' = db
  PROVE  Jobs' = Jobs /\ DatabaseOK' = DatabaseOK
BY DEF Jobs, DatabaseOK

(* Nor does it change what a second pull would do.                          *)
LEMMA SettledFrame ==
  ASSUME NEW before, NEW plan, NEW home, NEW scope, NEW mode, single' = single, db' = db
  PROVE  Settled(before, plan, home, scope, mode)' <=> Settled(before, plan, home, scope, mode)
<1>1. PulledTables(scope)' = PulledTables(scope) /\ Pulled(scope)' = Pulled(scope)
  BY DEF PulledTables, Pulled
<1>2. \A e : Unit(e, PulledTables(scope))' = Unit(e, PulledTables(scope))
  BY <1>1 DEF Unit, Direct, RefGraph
<1>3. \A f : UnitsAt(home, f, scope)' = UnitsAt(home, f, scope)
  BY <1>1, <1>2 DEF UnitsAt, PlaceAt
<1>4. \A f : /\ LocalOnlyIn(plan[f], scope)' <=> LocalOnlyIn(plan[f], scope)
             /\ DeletableIn(plan[f], scope, mode)' <=> DeletableIn(plan[f], scope, mode)
  BY <1>1 DEF LocalOnlyIn, DeletableIn
<1>5. \A f : SettledIn(plan[f], f, home, scope, mode)' <=> SettledIn(plan[f], f, home, scope, mode)
  BY <1>3, <1>4 DEF SettledIn
<1> QED BY <1>3, <1>5 DEF Settled

(* What is planned is under way.                                            *)
LEMMA PlanHolds ==
  ASSUME FilesAssumption, PullInv, Plan
  PROVE  PullInv'
<1>1. PICK mode \in Modes, scope \in Scopes :
        /\ Changed(Planned(scope, mode)) # <<>>
        /\ mode = "plain" => \A f \in Files : ~RisksLocal(f, scope)
        /\ job' = [mode |-> mode, scope |-> scope, db |-> db, before |-> files,
                   todo |-> [i \in DOMAIN Changed(Planned(scope, mode)) |->
                               [file |-> Changed(Planned(scope, mode))[i],
                                after |-> Planned(scope, mode)[Changed(Planned(scope, mode))[i]]]]]
        /\ marks' = marks \cup Marks(scope, mode)
  BY Zenon DEF Plan
<1>2. /\ pc = "idle" /\ pc' = "apply"
      /\ single' = single /\ db' = db /\ files' = files /\ edits' = edits /\ drifts' = drifts
  BY DEF Plan
<1>3. /\ scope \in SUBSET Entities /\ DatabaseOK /\ files \in [Files -> Contents]
      /\ single \in BOOLEAN /\ edits \in Nat /\ drifts \in Nat
      /\ marks \subseteq {"strayed", "grafted", "reported", "torn"}
      /\ marks = {} => LoadsIn(files)
  BY <1>2 DEF PullInv, FilesAssumption
<1>4. PICK old \in Homes : Good(files, old)
  BY DEF PullInv
<1>5. FilesOK /\ Homed(files, old)
  BY <1>4 DEF Good, FilesOK
<1>6. \E home \in Homes : home = [t \in Tables |-> Place(t)]
  BY <1>5, PlaceFacts DEF Homes, Entities
<1>7. PICK home \in Homes : home = [t \in Tables |-> Place(t)]
  BY <1>6
<1>8. Good(files, home)
  <2>1. \A f \in Files : \A c \in ConstsOf(f) : c.of \in Tables => Place(c.of) = f
    BY <1>5, PlaceFacts
  <2>2. Homed(files, home)
    BY <1>7, <2>1 DEF Homed, ConstsOf
  <2> QED BY <1>4, <2>2 DEF Good
<1>9. Planned(scope, mode) \in [Files -> Contents] /\ Good(Planned(scope, mode), home)
  <2>1. Planned(scope, mode) = [f \in Files |-> After(f, scope, mode)]
    BY DEF Planned
  <2>2. ASSUME NEW f \in Files
        PROVE  /\ After(f, scope, mode) \in Contents /\ Fits(f, After(f, scope, mode))
               /\ \A d \in ToSet(After(f, scope, mode).consts) : d.of \in Tables => Place(d.of) = f
    BY <1>3, <1>5, PlannedFits
  <2> QED BY <1>7, <2>1, <2>2 DEF Good, Homed
<1>10. PICK plan \in [Files -> Contents] : plan = Planned(scope, mode)
  BY <1>9
<1>11. PICK todo \in Seq(Files) :
         todo = Changed(plan) /\ ToSet(todo) = {f \in Files : plan[f] # files[f]}
  BY ChangedFacts
<1>12. mode \in {"plain", "merge"} => Kept(files, plan)
  BY <1>1, <1>3, <1>5, <1>10, PlannedKeeps
<1>13. mode = "discard" /\ scope = Entities => Mirrors(plan)
  BY <1>3, <1>5, <1>10, PlannedMirrors
<1>14. marks' = {} => LoadsIn(files) /\ LoadsIn(plan)
  <2> SUFFICES ASSUME marks' = {} PROVE LoadsIn(files) /\ LoadsIn(plan)
    OBVIOUS
  <2>1. LoadsIn(files) /\ Unmarked(scope, mode)
    BY <1>1, <1>3, UnmarkedFacts
  <2> QED BY <1>3, <1>5, <1>10, <2>1, PlannedLoads
<1> DEFINE jobs == [i \in DOMAIN todo |-> [file |-> todo[i], after |-> plan[todo[i]]]]
<1>15. /\ jobs \in Todos /\ DOMAIN jobs = DOMAIN todo
       /\ \A i \in DOMAIN todo : jobs[i].file = todo[i] /\ jobs[i].after = plan[todo[i]]
  <2>1. DOMAIN todo = 1..Len(todo) /\ Len(todo) \in Nat /\ \A i \in DOMAIN todo : todo[i] \in Files
    OBVIOUS
  <2>2. \A i \in DOMAIN todo : [file |-> todo[i], after |-> plan[todo[i]]] \in [file : Files, after : Contents]
    BY <2>1
  <2> QED BY <2>1, <2>2 DEF Todos
<1>16. job' = [mode |-> mode, scope |-> scope, db |-> db, before |-> files, todo |-> jobs]
  BY <1>1, <1>10, <1>11
<1> HIDE DEF jobs
<1>17. /\ job' \in Jobs
       /\ job'.mode = mode /\ job'.scope = scope /\ job'.before = files /\ job'.todo = jobs
  BY <1>3, <1>15, <1>16 DEF Jobs
<1>18. UnderWay(plan, home)'
  <2>1. job' \in Jobs' /\ Good(job.before, home)' /\ Good(plan, home)'
    <3>1. Good(plan, home)'
      BY <1>2, <1>9, <1>10, GoodFrame
    <3>2. \A f \in Files : Fits(f, files[f])' <=> Fits(f, files[f])
      BY <1>2 DEF Fits
    <3>3. Good(job.before, home)'
      BY <1>2, <1>8, <1>17 DEF Good, Fits
    <3> QED BY <1>2, <1>17, <3>1, <3>3, JobsFrame
  <2>2. \A f \in Files : files'[f] = plan[f] \/ \E i \in DOMAIN jobs : jobs[i].file = f
    <3> SUFFICES ASSUME NEW f \in Files, plan[f] # files[f] PROVE \E i \in DOMAIN jobs : jobs[i].file = f
      BY <1>2
    <3>1. PICK i \in DOMAIN todo : todo[i] = f
      BY <1>11 DEF ToSet
    <3> QED BY <1>15, <3>1
  <2>3. mode = "discard" /\ scope = Entities => Mirrors(plan)'
    BY <1>2, <1>13, MirrorsFrame
  <2>4. Settled(job.before, plan, home, job.scope, job.mode)'
    <3>1. \A t \in Tables : home[t] = Place(t)
      BY <1>7
    <3>2. Settled(files, plan, home, scope, mode)
      BY <1>3, <1>5, <1>10, <3>1, PlannedSettles
    <3>3. PICK before : before = files
      OBVIOUS
    <3>4. Settled(before, plan, home, scope, mode)'
      BY <1>2, <3>2, <3>3, SettledFrame
    <3> QED BY <1>2, <1>17, <3>3, <3>4
  <2> QED BY <1>2, <1>12, <1>14, <1>15, <1>17, <2>1, <2>2, <2>3, <2>4 DEF UnderWay
<1>19. marks' \subseteq {"strayed", "grafted", "reported", "torn"}
  BY <1>1, <1>3 DEF Marks
<1>20. DatabaseOK' /\ \E h \in Homes : Good(files, h)'
  BY <1>2, <1>3, <1>8, JobsFrame DEF Good, Fits
<1> QED BY <1>2, <1>3, <1>18, <1>19, <1>20 DEF PullInv

(* A sequence without its first element.                                    *)
LEMMA TailFacts ==
  ASSUME NEW T, NEW s \in Seq(T), s # <<>>
  PROVE  /\ Len(s) \in Nat \ {0} /\ DOMAIN s = 1..Len(s) /\ 1 \in DOMAIN s /\ Head(s) = s[1] /\ s[1] \in T
         /\ Tail(s) \in Seq(T) /\ DOMAIN Tail(s) = 1..(Len(s) - 1)
         /\ \A i \in 1..(Len(s) - 1) : Tail(s)[i] = s[i + 1] /\ i + 1 \in DOMAIN s
         /\ Len(s) = 1 => Tail(s) = <<>>
<1>1. Len(s) \in Nat \ {0}
  BY EmptySeq, LenProperties
<1>2. DOMAIN s = 1..Len(s) /\ 1 \in DOMAIN s /\ Head(s) = s[1] /\ s[1] \in T
  BY <1>1
<1>3. Tail(s) \in Seq(T) /\ Len(Tail(s)) = Len(s) - 1
  BY HeadTailProperties
<1>4. DOMAIN Tail(s) = 1..(Len(s) - 1)
  BY <1>3
<1>5. \A i \in 1..(Len(s) - 1) : Tail(s)[i] = s[i + 1] /\ i + 1 \in DOMAIN s
  BY <1>1, <1>2
<1>6. Len(s) = 1 => Tail(s) = <<>>
  <2>1. \A q \in Seq(T) : q # <<>> => Len(q) \in Nat \ {0}
    BY EmptySeq
  <2>2. PICK q \in Seq(T) : q = Tail(s)
    BY <1>3
  <2>3. Len(q) = Len(s) - 1
    BY <1>3, <2>2
  <2>4. Len(s) = 1 => q = <<>>
    BY <2>1, <2>3
  <2> QED BY <2>2, <2>4
<1> QED BY <1>1, <1>2, <1>3, <1>4, <1>5, <1>6

(* A file is written.                                                       *)
LEMMA WriteHolds ==
  ASSUME FilesAssumption, PullInv, Write
  PROVE  PullInv'
<1>1. /\ pc = "apply" /\ job.todo # <<>>
      /\ files' = [files EXCEPT ![Head(job.todo).file] = Head(job.todo).after]
      /\ job' = [job EXCEPT !.todo = Tail(@)]
      /\ pc' = IF Len(job.todo) = 1 THEN "done" ELSE "apply"
      /\ single' = single /\ db' = db /\ edits' = edits /\ drifts' = drifts /\ marks' = marks
  BY DEF Write
<1>2. PICK plan \in [Files -> Contents], home \in Homes : UnderWay(plan, home)
  BY <1>1 DEF PullInv
<1>3. job \in Jobs /\ job.todo \in Todos
  BY <1>2 DEF UnderWay, Jobs
<1> DEFINE todo == job.todo
           g == todo[1].file
<1>4. /\ Len(todo) \in Nat \ {0} /\ Head(todo) = todo[1] /\ 1 \in DOMAIN todo
      /\ Tail(todo) \in Todos /\ DOMAIN Tail(todo) = 1..(Len(todo) - 1)
      /\ \A i \in 1..(Len(todo) - 1) : Tail(todo)[i] = todo[i + 1] /\ i + 1 \in DOMAIN todo
      /\ DOMAIN todo = 1..Len(todo)
      /\ Len(todo) = 1 => Tail(todo) = <<>>
      /\ todo[1] \in [file : Files, after : Contents]
  BY <1>1, <1>3, TailFacts DEF Todos
<1>5. g \in Files /\ todo[1].after = plan[g]
  BY <1>2, <1>4 DEF UnderWay
<1>6. /\ job' \in Jobs /\ job'.mode = job.mode /\ job'.scope = job.scope /\ job'.before = job.before
      /\ job'.todo = Tail(todo)
  BY <1>1, <1>3, <1>4 DEF Jobs
<1>7. files \in [Files -> Contents] /\ files' = [files EXCEPT ![g] = plan[g]]
  BY <1>1, <1>4, <1>5 DEF PullInv
<1>8. files' \in [Files -> Contents] /\ \A f \in Files : files'[f] = IF f = g THEN plan[f] ELSE files[f]
  BY <1>5, <1>7
<1> HIDE DEF g
<1>9. UnderWay(plan, home)'
  <2>1. job' \in Jobs' /\ Good(job.before, home)' /\ Good(plan, home)'
    <3>1. Good(plan, home)'
      BY <1>1, <1>2, GoodFrame DEF UnderWay
    <3>2. Good(job.before, home)'
      BY <1>1, <1>2, <1>6 DEF UnderWay, Good, Fits
    <3> QED BY <1>1, <1>6, <3>1, <3>2, JobsFrame
  <2>2. \A f \in Files : files'[f] \in {job'.before[f], plan[f]}
    BY <1>2, <1>6, <1>8 DEF UnderWay
  <2>3. ASSUME NEW f \in Files PROVE files'[f] = plan[f] \/ \E i \in DOMAIN job'.todo : job'.todo[i].file = f
    <3>1. CASE files[f] = plan[f] \/ f = g
      BY <1>8, <3>1
    <3>2. CASE f # g /\ \E i \in DOMAIN todo : todo[i].file = f
      <4>1. PICK i \in DOMAIN todo : todo[i].file = f
        BY <3>2
      <4>2. i # 1
        BY <3>2, <4>1 DEF g
      <4>3. i - 1 \in 1..(Len(todo) - 1) /\ Tail(todo)[i - 1] = todo[i]
        BY <1>4, <4>1, <4>2
      <4> QED BY <1>4, <1>6, <4>1, <4>3
    <3> QED BY <1>2, <3>1, <3>2 DEF UnderWay
  <2>4. \A i \in DOMAIN job'.todo : job'.todo[i].after = plan[job'.todo[i].file]
    BY <1>2, <1>4, <1>6 DEF UnderWay
  <2>5. pc' = "done" => job'.todo = <<>>
    BY <1>1, <1>4, <1>6
  <2>6. job'.mode = "discard" /\ job'.scope = Entities => Mirrors(plan)'
    BY <1>1, <1>2, <1>6, MirrorsFrame DEF UnderWay
  <2>7. job'.mode \in {"plain", "merge"} => Kept(job'.before, plan)
    BY <1>2, <1>6 DEF UnderWay
  <2>8. marks' = {} => LoadsIn(job'.before) /\ LoadsIn(plan)
    BY <1>1, <1>2, <1>6 DEF UnderWay
  <2>9. Settled(job.before, plan, home, job.scope, job.mode)'
    <3>1. PICK before, scope, mode : before = job.before /\ scope = job.scope /\ mode = job.mode
      OBVIOUS
    <3>2. Settled(before, plan, home, scope, mode)
      BY <1>2, <3>1 DEF UnderWay
    <3>3. Settled(before, plan, home, scope, mode)'
      BY <1>1, <3>2, SettledFrame
    <3> QED BY <1>6, <3>1, <3>3
  <2> QED BY <2>1, <2>2, <2>3, <2>4, <2>5, <2>6, <2>7, <2>8, <2>9 DEF UnderWay
<1>10. Good(files, home)'
  <2>1. \A f \in Files : files'[f] \in {job'.before[f], plan[f]}
    BY <1>9 DEF UnderWay
  <2>2. Good(job.before, home)' /\ Good(plan, home)'
    BY <1>9 DEF UnderWay
  <2> QED BY <1>8, <2>1, <2>2 DEF Good, Homed
<1>11. DatabaseOK'
  BY <1>1, JobsFrame DEF PullInv
<1>12. pc' \in {"apply", "done"} /\ pc' # "idle"
  BY <1>1
<1>13. /\ single' \in BOOLEAN /\ edits' \in Nat /\ drifts' \in Nat
       /\ marks' \subseteq {"strayed", "grafted", "reported", "torn"}
  BY <1>1 DEF PullInv
<1> QED BY <1>8, <1>9, <1>10, <1>11, <1>12, <1>13 DEF PullInv

(* The pull is over, or it dies: what is written is what was planned, what  *)
(* was there before, or torn.                                               *)
LEMMA EndHolds ==
  ASSUME FilesAssumption, PullInv, Return \/ Crash
  PROVE  PullInv'
<1>1. /\ pc # "idle" /\ pc' = "idle" /\ files' = files
      /\ single' = single /\ db' = db /\ edits' = edits /\ drifts' = drifts
      /\ marks' = marks \/ marks' = marks \cup {"torn"}
      /\ marks' = {} => marks = {} /\ (pc = "done" \/ files = job.before)
  <2>1. CASE Return
    BY <2>1 DEF Return
  <2>2. CASE Crash
    BY <2>2 DEF Crash
  <2> QED BY <2>1, <2>2
<1>2. PICK plan \in [Files -> Contents], home \in Homes : UnderWay(plan, home)
  BY <1>1 DEF PullInv
<1>3. files \in [Files -> Contents] /\ \E h \in Homes : Good(files, h)
  BY DEF PullInv
<1>4. pc = "done" => files = plan
  <2>1. ASSUME pc = "done", NEW f \in Files PROVE files[f] = plan[f]
    BY <1>2, <2>1 DEF UnderWay
  <2> QED BY <1>3, <2>1
<1>5. marks' = {} => LoadsIn(files')
  BY <1>1, <1>2, <1>4 DEF UnderWay
<1>6. \E h \in Homes : Good(files, h)'
  BY <1>1, <1>3 DEF Good, Fits
<1>7. marks' \subseteq {"strayed", "grafted", "reported", "torn"}
  BY <1>1 DEF PullInv
<1>8. DatabaseOK'
  BY <1>1, JobsFrame DEF PullInv
<1> QED BY <1>1, <1>3, <1>5, <1>6, <1>7, <1>8 DEF PullInv

-----------------------------------------------------------------------------
(* The user, and others.                                                    *)

(* One file has a content that fits, of tables at home there.               *)
LEMMA EditHolds ==
  ASSUME FilesAssumption, PullInv, Editing, NEW f \in Files, NEW content \in Contents, Edit(f, content),
         Fits(f, content), NEW home \in Homes, Homed(files, home),
         \A c \in ToSet(content.consts) : c.of \in Tables => home[c.of] = f
  PROVE  PullInv'
<1>1. /\ edits' = edits + 1 /\ files' = [files EXCEPT ![f] = content] /\ (Loads => Loads')
      /\ single' = single /\ db' = db /\ pc' = pc /\ drifts' = drifts /\ marks' = marks
      /\ pc = "idle"
  BY DEF Edit, Editing
<1>2. PICK old \in Homes : Good(files, old)
  BY DEF PullInv
<1>3. /\ files' \in [Files -> Contents]
      /\ \A g \in Files : files'[g] = IF g = f THEN content ELSE files[g]
  BY <1>1 DEF PullInv
<1>4. Good(files, home)'
  <2>1. \A g \in Files : Fits(g, files[g])'
    BY <1>1, <1>2, <1>3 DEF Good, Fits
  <2> QED BY <1>3, <2>1 DEF Good, Homed
<1>5. marks' = {} => LoadsIn(files')
  BY <1>1, LoadsAsFiles, LoadsAsFilesNext DEF PullInv
<1>6. DatabaseOK'
  BY <1>1, JobsFrame DEF PullInv
<1> QED BY <1>1, <1>3, <1>4, <1>5, <1>6 DEF PullInv

(* What a file holds with one const more, and with one changed.             *)
LEMMA MoreConsts ==
  ASSUME NEW f \in Files, NEW file \in Contents, NEW c \in Consts
  PROVE  LET new == [file EXCEPT !.consts = Append(@, c)]
         IN  /\ new \in Contents /\ ToSet(new.consts) = ToSet(file.consts) \cup {c}
             /\ new.there = file.there
<1>1. Append(file.consts, c) \in Seq(Consts) /\ ToSet(Append(file.consts, c)) = ToSet(file.consts) \cup {c}
  BY AppendHolds DEF Contents
<1> QED BY <1>1 DEF Contents

(* Consts like those of f, at the same places.                              *)
LEMMA LikeConsts ==
  ASSUME FilesAssumption, PullInv, Editing, NEW f \in Files, NEW content \in Contents, Edit(f, content),
         files[f].consts # <<>>, content.there = files[f].there,
         DOMAIN content.consts = DOMAIN files[f].consts,
         \A j \in DOMAIN content.consts : content.consts[j].of = files[f].consts[j].of
  PROVE  PullInv'
<1>1. PICK home \in Homes : Good(files, home)
  BY DEF PullInv
<1>2. \A d \in ToSet(content.consts) : \E c \in ConstsOf(f) : c.of = d.of
  BY DEF ToSet, ConstsOf
<1>3. files[f] # Absent /\ files[f].there
  BY <1>1 DEF Absent, Good, Fits
<1>4. Fits(f, content)
  BY <1>1, <1>2, <1>3 DEF Good, Fits, ConstsOf
<1>5. \A c \in ToSet(content.consts) : c.of \in Tables => home[c.of] = f
  BY <1>1, <1>2 DEF Good, Homed, ConstsOf
<1>6. Homed(files, home)
  BY <1>1 DEF Good
<1> QED BY <1>4, <1>5, <1>6, EditHolds

(* A field is added.                                                        *)
LEMMA AddKeyHolds ==
  ASSUME FilesAssumption, PullInv, AddKey
  PROVE  PullInv'
<1>0. PICK f \in Files : \E i \in DOMAIN files[f].consts, k \in Keys :
        /\ files[f].consts[i].of \in Tables
        /\ Edit(f, [files[f] EXCEPT !.consts[i].keys = @ \cup {k}])
  BY DEF AddKey
<1>1. PICK i \in DOMAIN files[f].consts, k \in Keys :
        /\ files[f].consts[i].of \in Tables
        /\ Edit(f, [files[f] EXCEPT !.consts[i].keys = @ \cup {k}])
  BY <1>0
<1>2. files[f] \in Contents /\ files[f].consts \in Seq(Consts) /\ files[f].consts[i] \in Consts
  BY DEF PullInv, Contents
<1>3. PICK cs \in Seq(Consts) : cs = files[f].consts
  BY <1>2
<1> DEFINE c == [cs[i] EXCEPT !.keys = @ \cup {k}]
           content == [files[f] EXCEPT !.consts = [cs EXCEPT ![i] = c]]
<1>4. content = [files[f] EXCEPT !.consts[i].keys = @ \cup {k}]
  BY <1>3
<1>5. c \in Consts /\ c.of = cs[i].of
  <2>1. cs[i] \in Consts /\ cs[i].of \in Tables
    BY <1>1, <1>3
  <2> QED BY <2>1 DEF Consts
<1> HIDE DEF c
<1>6. /\ [cs EXCEPT ![i] = c] \in Seq(Consts) /\ DOMAIN [cs EXCEPT ![i] = c] = DOMAIN cs
      /\ \A j \in DOMAIN cs : [cs EXCEPT ![i] = c][j] = IF j = i THEN c ELSE cs[j]
  BY <1>3, <1>5
<1>7. content \in Contents /\ content.there = files[f].there /\ content.consts = [cs EXCEPT ![i] = c]
  BY <1>2, <1>6 DEF Contents
<1> HIDE DEF content
<1>8. cs # <<>>
  BY <1>1, <1>3
<1>9. Editing /\ Edit(f, content)
  BY <1>1, <1>4 DEF AddKey
<1>10. \A j \in DOMAIN content.consts : content.consts[j].of = files[f].consts[j].of
  BY <1>3, <1>5, <1>6, <1>7
<1>11. DOMAIN content.consts = DOMAIN files[f].consts
  BY <1>3, <1>6, <1>7
<1> QED BY <1>3, <1>7, <1>8, <1>9, <1>10, <1>11, LikeConsts

(* A field that refers to the table of another file is added.               *)
LEMMA AddReferenceHolds ==
  ASSUME FilesAssumption, PullInv, AddReference
  PROVE  PullInv'
<1>0. PICK f \in Files : \E i \in DOMAIN files[f].consts, t \in Tables :
        /\ files[f].consts[i].of \in Tables
        /\ Edit(f, [files[f] EXCEPT
                      !.consts[i] = Referring(@, t),
                      !.imports = AddImports(@, {[of |-> t, path |-> "exact"]})])
  BY DEF AddReference
<1>1. PICK i \in DOMAIN files[f].consts, t \in Tables :
        /\ files[f].consts[i].of \in Tables
        /\ Edit(f, [files[f] EXCEPT
                      !.consts[i] = Referring(@, t),
                      !.imports = AddImports(@, {[of |-> t, path |-> "exact"]})])
  BY <1>0
<1>2. files[f] \in Contents /\ files[f].consts \in Seq(Consts) /\ files[f].consts[i] \in Consts
  BY DEF PullInv, Contents
<1>3. PICK cs \in Seq(Consts) : cs = files[f].consts
  BY <1>2
<1> DEFINE changed == Referring(cs[i], t)
           imports == AddImports(files[f].imports, {[of |-> t, path |-> "exact"]})
<1>4. changed \in Consts /\ changed.of = cs[i].of
  <2>1. cs[i] \in Consts /\ cs[i].of \in Tables
    BY <1>1, <1>3
  <2>2. changed \in [of : Entities \cup {Helper}, own : BOOLEAN, keys : SUBSET (Keys \cup Tables), by : SUBSET Tables]
    BY <2>1 DEF Consts, Referring
  <2>3. changed.of = cs[i].of
    BY <2>1 DEF Consts, Referring
  <2> QED BY <2>1, <2>2, <2>3 DEF Consts
<1>5. PICK content : content = [files[f] EXCEPT !.consts = [@ EXCEPT ![i] = changed], !.imports = imports]
  OBVIOUS
<1>6. content = [files[f] EXCEPT
                   !.consts[i] = Referring(@, t),
                   !.imports = AddImports(@, {[of |-> t, path |-> "exact"]})]
  BY <1>3, <1>5
<1> HIDE DEF changed, imports
<1>7. /\ [cs EXCEPT ![i] = changed] \in Seq(Consts) /\ DOMAIN [cs EXCEPT ![i] = changed] = DOMAIN cs
      /\ \A j \in DOMAIN cs : [cs EXCEPT ![i] = changed][j] = IF j = i THEN changed ELSE cs[j]
  BY <1>3, <1>4
<1>8. imports \in SUBSET Imports
  <2>1. files[f].imports \subseteq Imports /\ [of |-> t, path |-> "exact"] \in Imports
    BY <1>2 DEF Contents, Imports
  <2> QED BY <2>1 DEF AddImports, imports
<1>9. /\ content \in Contents /\ content.there = files[f].there
      /\ content.consts = [cs EXCEPT ![i] = changed]
  BY <1>2, <1>3, <1>5, <1>7, <1>8 DEF Contents
<1>10. Editing /\ Edit(f, content)
  BY <1>1, <1>6 DEF AddReference
<1>11. \A j \in DOMAIN content.consts : content.consts[j].of = files[f].consts[j].of
  BY <1>3, <1>4, <1>7, <1>9
<1>12. cs # <<>> /\ DOMAIN content.consts = DOMAIN files[f].consts
  BY <1>1, <1>3, <1>7, <1>9
<1> QED BY <1>3, <1>9, <1>10, <1>11, <1>12, LikeConsts

(* An export that is not schema is added.                                   *)
LEMMA AddHelperHolds ==
  ASSUME FilesAssumption, PullInv, AddHelper
  PROVE  PullInv'
<1> DEFINE c == [of |-> Helper, own |-> TRUE, keys |-> {}, by |-> {}]
<1>1. PICK f \in Files : files[f].there /\ Edit(f, [files[f] EXCEPT !.consts = Append(@, c)])
  BY DEF AddHelper
<1>2. c \in Consts /\ c.of = Helper /\ Helper \notin Tables /\ files[f] \in Contents
  BY DEF Consts, FilesAssumption, PullInv, Entities
<1> HIDE DEF c
<1> DEFINE content == [files[f] EXCEPT !.consts = Append(@, c)]
<1>3. /\ content \in Contents /\ ToSet(content.consts) = ToSet(files[f].consts) \cup {c}
      /\ content.there = files[f].there
  BY <1>2, MoreConsts
<1>4. PICK home \in Homes : Good(files, home)
  BY DEF PullInv
<1>5. Editing /\ Edit(f, content)
  BY <1>1 DEF AddHelper
<1> HIDE DEF content
<1>6. files[f] # Absent
  BY <1>1 DEF Absent
<1>7. Fits(f, content)
  BY <1>1, <1>2, <1>3, <1>4, <1>6 DEF Good, Fits
<1>8. Homed(files, home) /\ \A d \in ToSet(content.consts) : d.of \in Tables => home[d.of] = f
  BY <1>2, <1>3, <1>4 DEF Good, Homed
<1> QED BY <1>3, <1>5, <1>7, <1>8, EditHolds

(* A definition is added.                                                   *)
LEMMA AddEntityHolds ==
  ASSUME FilesAssumption, PullInv, AddEntity
  PROVE  PullInv'
<1>0. PICK e \in Entities : \E f \in {e, Misc}, own \in BOOLEAN :
        /\ Writable(f) /\ Defining(e) = {}
        /\ Edit(f, [files[f] EXCEPT !.there = TRUE,
                      !.consts = Append(@, [of |-> e, own |-> own, keys |-> {}, by |-> {}])])
  BY DEF AddEntity
<1>1. PICK f \in {e, Misc}, own \in BOOLEAN :
        /\ Writable(f) /\ Defining(e) = {}
        /\ Edit(f, [files[f] EXCEPT !.there = TRUE,
                      !.consts = Append(@, [of |-> e, own |-> own, keys |-> {}, by |-> {}])])
  BY <1>0
<1> DEFINE c == [of |-> e, own |-> own, keys |-> {}, by |-> {}]
           content == [files[f] EXCEPT !.there = TRUE, !.consts = Append(@, c)]
<1>2. f \in Files /\ files[f] \in Contents /\ c \in Consts /\ c.of = e
  BY DEF Consts, PullInv, Files
<1>3. Editing /\ Edit(f, content)
  BY <1>1 DEF AddEntity
<1> HIDE DEF c
<1>4. /\ content \in Contents /\ ToSet(content.consts) = ToSet(files[f].consts) \cup {c}
      /\ content.there = TRUE
  <2>1. Append(files[f].consts, c) \in Seq(Consts) /\ ToSet(Append(files[f].consts, c)) = ToSet(files[f].consts) \cup {c}
    BY <1>2, AppendHolds DEF Contents
  <2> QED BY <1>2, <2>1 DEF Contents
<1> HIDE DEF content
<1>5. PICK old \in Homes : Good(files, old)
  BY DEF PullInv
<1>6. \A g \in Files : \A d \in ToSet(files[g].consts) : d.of # e
  BY <1>1 DEF Defining, ConstsOf
<1>7. PICK home \in Homes : home = [t \in Tables |-> IF t = e THEN f ELSE old[t]]
  BY <1>2 DEF Homes
<1>8. Homed(files, home) /\ \A d \in ToSet(content.consts) : d.of \in Tables => home[d.of] = f
  BY <1>2, <1>4, <1>5, <1>6, <1>7 DEF Good, Homed
<1>9. Fits(f, content)
  <2>1. single => f = Misc
    BY <1>1 DEF Writable
  <2>2. f # Misc => e = f
    BY <1>1
  <2> QED BY <1>2, <1>4, <1>5, <2>1, <2>2 DEF Good, Fits
<1> QED BY <1>2, <1>3, <1>4, <1>8, <1>9, EditHolds

(* The database changes, between pulls: no plan of an earlier one is left.  *)
LEMMA DriftHolds ==
  ASSUME FilesAssumption, PullInv, Drift
  PROVE  PullInv'
<1>1. /\ pc = "idle" /\ drifts' = drifts + 1
      /\ single' = single /\ files' = files /\ pc' = pc /\ edits' = edits /\ marks' = marks
  BY DEF Drift
<1>2. DatabaseOK /\ \A t \in Tables : t \in Entities
  BY DEF PullInv, Entities
<1>3. DatabaseOK'
  <2>1. ASSUME NEW e \in DOMAIN db, db' = Without(e) PROVE DatabaseOK'
    <3>1. /\ DOMAIN db' = DOMAIN db \ {e}
          /\ \A x \in DOMAIN db' : db'[x] = [keys |-> db[x].keys \ {e}]
          /\ db' = [x \in DOMAIN db' |-> db'[x]]
      BY <2>1 DEF Without
    <3>2. \A x \in DOMAIN db : db[x].keys \subseteq Keys \cup Tables
      BY <1>2 DEF DatabaseOK
    <3>3. \A x \in DOMAIN db' : db'[x] \in [keys : SUBSET (Keys \cup Tables)] /\ db'[x].keys \subseteq db[x].keys
      BY <3>1, <3>2
    <3> QED BY <1>2, <3>1, <3>3 DEF DatabaseOK
  <2>2. ASSUME NEW e \in Entities \ DOMAIN db,
               db' = [x \in DOMAIN db \cup {e} |-> IF x = e THEN [keys |-> {}] ELSE db[x]]
        PROVE  DatabaseOK'
    <3>1. /\ DOMAIN db' = DOMAIN db \cup {e}
          /\ \A x \in DOMAIN db' : db'[x] = IF x = e THEN [keys |-> {}] ELSE db[x]
          /\ db' = [x \in DOMAIN db' |-> db'[x]]
      BY <2>2
    <3>2. \A x \in DOMAIN db' : db'[x] \in [keys : SUBSET (Keys \cup Tables)]
      BY <1>2, <3>1 DEF DatabaseOK
    <3> QED BY <1>2, <3>1, <3>2 DEF DatabaseOK
  <2>3. ASSUME NEW t \in DOMAIN db \cap Tables, NEW k \in Keys \cup (DOMAIN db \cap Tables), db' = Toggled(t, k)
        PROVE  DatabaseOK'
    <3>1. PICK keys \in SUBSET (Keys \cup Tables) : keys = IF k \in db[t].keys THEN db[t].keys \ {k} ELSE db[t].keys \cup {k}
      BY <1>2 DEF DatabaseOK
    <3>2. /\ DOMAIN db' = DOMAIN db /\ db' = [x \in DOMAIN db' |-> db'[x]]
          /\ \A x \in DOMAIN db' : db'[x] = IF x = t THEN [db[t] EXCEPT !.keys = keys] ELSE db[x]
      BY <1>2, <2>3, <3>1 DEF Toggled, DatabaseOK
    <3>3. \A x \in DOMAIN db' : db'[x] \in [keys : SUBSET (Keys \cup Tables)]
      BY <1>2, <3>2 DEF DatabaseOK
    <3> QED BY <1>2, <3>2, <3>3 DEF DatabaseOK
  <2> QED BY <2>1, <2>2, <2>3 DEF Drift
<1>4. \E h \in Homes : Good(files, h)'
  BY <1>1 DEF PullInv, Good, Fits
<1> QED BY <1>1, <1>3, <1>4 DEF PullInv

(* Nothing changes.                                                         *)
LEMMA StutterHolds ==
  ASSUME PullInv, UNCHANGED vars
  PROVE  PullInv'
<1>1. /\ single' = single /\ db' = db /\ files' = files /\ pc' = pc /\ job' = job
      /\ edits' = edits /\ drifts' = drifts /\ marks' = marks
  BY DEF vars
<1>2. ASSUME NEW plan, NEW home, UnderWay(plan, home) PROVE UnderWay(plan, home)'
  <2>1. PICK before, scope, mode : before = job.before /\ scope = job.scope /\ mode = job.mode
    OBVIOUS
  <2>2. Settled(before, plan, home, scope, mode)'
    BY <1>1, <1>2, <2>1, SettledFrame DEF UnderWay
  <2>3. Settled(job.before, plan, home, job.scope, job.mode)'
    BY <1>1, <2>1, <2>2
  <2> QED BY <1>1, <1>2, <2>3 DEF UnderWay, Good, Fits, Jobs, Mirrors, MixedIn
<1>3. DatabaseOK' /\ \A home : Good(files, home) => Good(files, home)'
  BY <1>1 DEF PullInv, Good, Fits, DatabaseOK
<1> QED BY <1>1, <1>2, <1>3 DEF PullInv

(* The invariant holds, whatever the constants: the plan, its files while   *)
(* they are written, and what user and database do between pulls.           *)
THEOREM PullInvariance == FilesAssumption => (Spec => []PullInv)
<1> SUFFICES ASSUME FilesAssumption PROVE Spec => []PullInv
  OBVIOUS
<1>1. Init => PullInv
  BY InitHolds
<1>2. PullInv /\ [Next]_vars => PullInv'
  BY PlanHolds, WriteHolds, EndHolds, AddKeyHolds, AddReferenceHolds, AddEntityHolds, AddHelperHolds,
     DriftHolds, StutterHolds DEF Next
<1> QED BY <1>1, <1>2, PTL DEF Spec

(* A pull leaves a schema that loads, whatever files it found and however   *)
(* often files and database changed before (PulledFilesLoad).               *)
THEOREM PulledSchemaLoads == FilesAssumption => (Spec => []PulledFilesLoad)
<1>1. PullInv => PulledFilesLoad
  BY LoadsAsFiles DEF PullInv, PulledFilesLoad
<1> QED BY <1>1, PullInvariance, PTL

(* A mirroring pull of everything leaves what the database said, and one    *)
(* that is not to take anything away takes nothing away (PullDoesAsAsked).  *)
THEOREM PullsDoAsAsked == FilesAssumption => (Spec => []PullDoesAsAsked)
<1>1. PullInv => PullDoesAsAsked
  <2> SUFFICES ASSUME PullInv, pc = "done" PROVE PullDoesAsAsked
    BY DEF PullDoesAsAsked, DiscardMirrors, PullKeepsLocal
  <2>1. PICK plan \in [Files -> Contents], home \in Homes : UnderWay(plan, home)
    BY DEF PullInv
  <2>2. files \in [Files -> Contents] /\ \A f \in Files : files[f] = plan[f]
    BY <2>1 DEF PullInv, UnderWay
  <2>3. files = plan
    BY <2>2
  <2>4. job.db = db
    BY <2>1 DEF UnderWay, Jobs
  <2>5. DiscardMirrors
    <3> SUFFICES ASSUME job.mode = "discard", job.scope = Entities PROVE Mirrors(files)
      BY <2>4 DEF DiscardMirrors, Mirrors, Mixed, MixedIn, ConstsOf, Defining
    <3> QED BY <2>1, <2>3 DEF UnderWay
  <2>6. PullKeepsLocal
    BY <2>1, <2>3 DEF UnderWay, PullKeepsLocal, Kept, ConstsOf
  <2> QED BY <2>5, <2>6 DEF PullDoesAsAsked
<1> QED BY <1>1, PullInvariance, PTL

(* A second pull finds nothing to write, so that `pull --watch' comes to    *)
(* rest (PullSettles).                                                      *)
THEOREM PullsComeToRest == FilesAssumption => (Spec => []PullSettles)
<1> SUFFICES ASSUME FilesAssumption PROVE Spec => []PullSettles
  OBVIOUS
<1>1. PullInv => PullSettles
  <2> SUFFICES ASSUME PullInv, pc = "done", single /\ ~job.before[Misc].there => ~Strays(job.scope)
               PROVE  Changed(Planned(job.scope, job.mode)) = <<>>
    BY DEF PullSettles
  <2>1. PICK plan \in [Files -> Contents], home \in Homes : UnderWay(plan, home)
    BY DEF PullInv
  <2>2. files \in [Files -> Contents] /\ \A f \in Files : files[f] = plan[f]
    BY <2>1 DEF PullInv, UnderWay
  <2>3. files = plan
    BY <2>2
  <2>4. job.scope \in SUBSET Entities /\ job.mode \in Modes
    BY <2>1 DEF UnderWay, Jobs, FilesAssumption
  <2>5. FilesOK /\ Homed(files, home) /\ Settled(job.before, files, home, job.scope, job.mode)
    BY <2>1, <2>3 DEF UnderWay, Good, FilesOK
  <2> QED BY <2>4, <2>5, SettledFacts DEF PullInv
<1>2. Spec => []PullInv
  BY PullInvariance
<1> QED BY <1>1, <1>2, PTL
=============================================================================
