---------------------------- MODULE SurrealTypes ----------------------------
(***************************************************************************)
(* The types of the SurrealDB driver: the `s.*` schema of a field as it is *)
(* written (a node), the type the driver infers from it (ddl.ts), the form *)
(* the database reports it in, the normal form both are compared in        *)
(* (cli/struct.ts, cli/structure.ts), and the schema `pull` writes for it  *)
(* (cli/pull.ts).                                                          *)
(*                                                                         *)
(* A type is a tuple that begins with its constructor: <<"prim", name>>,   *)
(* <<"option", type>>, <<"union", members>>, <<"record", tables>>, and     *)
(* <<"array", type, max>> or <<"set", type, max>> with max = NoMax when    *)
(* any length will do.  Members and tables are in the order of the text;   *)
(* quotes and spaces are not modelled.                                     *)
(***************************************************************************)
EXTENDS Naturals, SequencesExt

CONSTANTS
  Alphabet,  (* the words of the types, in the order of sort()              *)
  Literals   (* the words that are literals                                 *)

(* What it must be, assumed by the module that TLC checks.                 *)
AlphabetAssumption == Alphabet \in Seq(STRING) /\ IsInjective(Alphabet)

NoMax == 0
Prim(p) == <<"prim", p>>
AnyType == Prim("any")
Null == Prim("null")
None == Prim("none")

(* The place of a word in a sorted list, and of a type: the word it begins  *)
(* with (the members of one union begin with different words).              *)
Place(word) == CHOOSE i \in DOMAIN Alphabet : Alphabet[i] = word
Head1(t) == IF t[1] = "prim" THEN t[2] ELSE t[1]
SortWords(words) == SortSeq(words, LAMBDA a, b : Place(a) < Place(b))
SortTypes(types) == SortSeq(types, LAMBDA a, b : Place(Head1(a)) < Place(Head1(b)))

Members(t) == IF t[1] = "union" THEN t[2] ELSE <<t>>
Union(members) == IF Len(members) = 1 THEN members[1] ELSE <<"union", members>>
Listed(t) == t[1] \in {"array", "set"}

-----------------------------------------------------------------------------
(* Schema nodes: <<"prim", name>>, <<"optional", node>>, <<"nullable",      *)
(* node>>, <<"array" or "set", node, max>>, <<"object", shape, loose>>,     *)
(* <<"map", node>>, <<"union", nodes>>, <<"record", tables>>, <<"enum",     *)
(* words>> and <<"codec", ..., type>>.  A shape maps the keys to fields: a  *)
(* node and its clauses (meta).                                             *)
Info(type, flexible, children) == [type |-> type, flexible |-> flexible, children |-> children]
Leaf(type) == Info(type, FALSE, <<>>)
Field(node, meta) == [node |-> node, meta |-> meta]
NoMeta == <<>>

RECURSIVE inferField(_)
inferField(node) ==
  LET inner == inferField(node[2])
      child(info) == [info |-> info, meta |-> NoMeta]
  IN CASE node[1] \in {"optional", "default"} ->
            IF inner.type = AnyType THEN inner
            ELSE [inner EXCEPT !.type = <<"option", @>>]
       [] node[1] = "nullable" ->
            IF inner.type = AnyType THEN inner
            ELSE [inner EXCEPT !.type =
                    IF @[1] = "option" THEN <<"option", Union(Append(Members(@[2]), Null))>>
                    ELSE Union(Append(Members(@), Null))]
       [] node[1] = "object" ->
            Info(Prim("object"), node[3],
                 [k \in DOMAIN node[2] |->
                    [info |-> inferField(node[2][k].node), meta |-> node[2][k].meta]])
       [] Listed(node) ->
            Info(<<node[1], inner.type, node[3]>>, inner.flexible,
                 IF inner.children # <<>> \/ inner.type = Prim("object")
                 THEN [k \in {"*"} |-> child([inner EXCEPT !.flexible = FALSE])]
                 ELSE <<>>)
       [] node[1] = "map" -> Info(Prim("object"), FALSE, [k \in {"*"} |-> child(inner)])
       [] node[1] = "union" ->
            LET of    == [i \in DOMAIN node[2] |-> inferField(node[2][i])]
                types == [i \in DOMAIN of |-> of[i].type]
            IN IF Contains(types, AnyType) THEN Leaf(AnyType)
               ELSE Info(Union(FlattenSeq([i \in DOMAIN types |-> Members(types[i])])),
                         \E i \in DOMAIN of : of[i].flexible, <<>>)
       [] node[1] = "enum" -> Leaf(Union([i \in DOMAIN node[2] |-> Prim(node[2][i])]))
       [] node[1] = "codec" -> Leaf(Prim(node[5]))
       [] OTHER -> Leaf(node)

-----------------------------------------------------------------------------
(* Normal forms.                                                            *)
RECURSIVE normalizeType(_)
normalizeType(t) ==
  LET rest  == SelectSeq(Members(t), LAMBDA m : m # None)
      inner == Union(SortTypes([i \in DOMAIN rest |-> normalizeType(rest[i])]))
  IN CASE t[1] = "option" -> <<"option", normalizeType(t[2])>>
       [] t[1] = "union" -> IF Contains(t[2], None) THEN <<"option", inner>> ELSE inner
       [] Listed(t) -> [t EXCEPT ![2] = normalizeType(@)]
       [] t[1] = "record" -> <<"record", SortWords(t[2])>>
       [] OTHER -> t

(* Only the members at the top are folded and sorted.                       *)
canonicalKind(t) ==
  LET rest == SelectSeq(Members(t), LAMBDA m : m # None)
  IN IF t[1] # "union" THEN t
     ELSE IF Contains(t[2], None) THEN <<"option", Union(SortTypes(rest))>>
     ELSE Union(SortTypes(t[2]))

stripOption(t) == IF t[1] = "option" THEN t[2] ELSE t

(* The kind INFO ... STRUCTURE reports: `option<T>` is the union of `none`  *)
(* and T, and the rest is as it was defined.                                *)
RECURSIVE Reported(_)
Reported(t) ==
  CASE t[1] = "option" -> Union(<<None>> \o Members(Reported(t[2])))
    [] t[1] = "union" -> Union([i \in DOMAIN t[2] |-> Reported(t[2][i])])
    [] Listed(t) -> [t EXCEPT ![2] = Reported(@)]
    [] OTHER -> t

(* The type of the elements of a reported kind, or AnyType if it lists nothing. *)
ElementOf(kind) ==
  LET lists == SelectSeq(Members(kind), Listed)
  IN IF lists = <<>> THEN AnyType ELSE lists[1][2]

-----------------------------------------------------------------------------
(* What pull writes.  It takes the type apart from the outside, and writes  *)
(* s.any() for what it does not know: a size, a union of types (other than  *)
(* one with null at its end, or of literals: an enum).                      *)
RECURSIVE szType(_)
szType(t) ==
  LET notNone == SelectSeq(Members(t), LAMBDA m : m # None)
  IN CASE t[1] = "option" -> <<"optional", szType(t[2])>>
       [] Contains(Members(t), None) -> <<"optional", szType(Union(notNone))>>
       [] t[1] = "union" /\ Last(t[2]) = Null -> <<"nullable", szType(Union(Front(t[2])))>>
       [] Listed(t) /\ t[3] = NoMax -> <<t[1], szType(t[2]), NoMax>>
       [] Listed(t) /\ t[3] # NoMax -> <<t[1], AnyType, NoMax>>
       [] t[1] = "union" /\ \A i \in DOMAIN t[2] : t[2][i][2] \in Literals -> t
       [] t[1] = "union" \/ t = Null -> AnyType
       [] t = Prim("object") -> <<"object", <<>>, FALSE>>
       [] OTHER -> t

unwrapType(t) ==
  LET some == SelectSeq(Members(stripOption(t)), LAMBDA m : m # None)
      null == Len(some) > 1 /\ Last(some) = Null
  IN [base     |-> Union(IF null THEN Front(some) ELSE some),
      optional |-> t[1] = "option" \/ Contains(Members(t), None),
      nullable |-> null]
=============================================================================
