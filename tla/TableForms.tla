----------------------------- MODULE TableForms -----------------------------
(***************************************************************************)
(* The forms a table definition of the SurrealDB driver takes: the         *)
(* statements emitted from the schema (ddl.ts), the structure it is        *)
(* lowered to (cli/lower.ts), its normal form (cli/struct.ts) and the      *)
(* canonical statements two definitions are compared by                    *)
(* (cli/structure.ts).                                                     *)
(*                                                                         *)
(* A definition in the schema is a record of the clauses of the table, its *)
(* fields, and its indexes and events.  A structure, a list of statements  *)
(* and the database are all functions: from the keys <<"table">>,          *)
(* <<"field", path>>, <<"index", path or name>> and <<"event", name>> to   *)
(* the clauses of the object, by the name of the clause.  A path is a      *)
(* sequence of keys, "*" for the elements of a list.                       *)
(***************************************************************************)
EXTENDS SurrealTypes, FiniteSetsExt

NoTable == <<>>

-----------------------------------------------------------------------------
(* Keys and clauses.                                                        *)
Table == <<"table">>
FieldAt(path) == <<"field", path>>
IsField(k) == k[1] = "field"
IsElement(k) == IsField(k) /\ Last(k[2]) = "*"
Parent(k) == FieldAt(Front(k[2]))
Only(f, keys) == [x \in DOMAIN f \cap keys |-> f[x]]
Without(f, keys) == [x \in DOMAIN f \ keys |-> f[x]]
When(condition, f) == IF condition THEN f ELSE <<>>

FieldOps == {"select", "create", "update"}
TableOps == FieldOps \cup {"delete"}
Ops(k) == IF k = Table THEN TableOps ELSE FieldOps
(* What an operation may do when nothing is said: a field is open, a table  *)
(* is closed.                                                               *)
Default(k) == IF k = Table THEN "none" ELSE "full"
Each(k, rule) == [op \in Ops(k) |-> rule]

(* In the order they are created; drops go the other way round.             *)
Rank(k) == CASE k = Table -> 0 [] IsField(k) -> Len(k[2])
             [] k[1] = "index" -> 8 [] OTHER -> 9
Created(keys) == SetToSortSeq(keys, LAMBDA a, b : Rank(a) < Rank(b))

-----------------------------------------------------------------------------
(* A field and what is below it: lowerField and emit walk the same tree.    *)
Settled(clauses) == DOMAIN clauses \cap {"DEFAULT", "VALUE", "COMPUTED"} # {}

Described(path, info, meta) ==
  ("TYPE" :> info.type)
  @@ When(info.flexible, "FLEXIBLE" :> "yes")
  @@ When("INTERNAL" \in DOMAIN meta, "PERMISSIONS" :> Each(FieldAt(path), "none"))
  @@ Without(meta, {"INTERNAL", "INDEX"})

(* The indexes of a field, by their specifications: with two, the UNIQUE    *)
(* one has a name of its own.                                               *)
FieldIndexes(path, specs) ==
  LET name(spec) == Append(path, IF spec = "UNIQUE" /\ specs # {spec} THEN "_uq" ELSE "_idx")
      one(spec, all) == (<<"index", name(spec)>> :> ("SPEC" :> spec)) @@ all
  IN FoldSet(one, <<>>, specs)

RECURSIVE lowerField(_, _, _)
lowerField(path, info, meta) ==
  LET below(k, all) == lowerField(Append(path, k), info.children[k].info, info.children[k].meta) @@ all
  IN (FieldAt(path) :> Described(path, info, meta))
     @@ When("INDEX" \in DOMAIN meta, FieldIndexes(path, meta["INDEX"]))
     @@ FoldSet(below, <<>>, DOMAIN info.children)

Structure(t) ==
  LET own(f, all) == lowerField(<<f>>, inferField(t.fields[f].node), t.fields[f].meta) @@ all
  IN IF t = NoTable THEN <<>>
     ELSE (Table :> t.head) @@ t.rest @@ FoldSet(own, <<>>, DOMAIN t.fields)

(* The database makes the elements of a list itself, and refuses to be told *)
(* again: emit skips them, but not the elements of what it skipped.         *)
RECURSIVE Skipped(_, _)
Skipped(s, k) == IsElement(k) /\ Listed(s[Parent(k)]["TYPE"]) /\ ~Skipped(s, Parent(k))

emitStatements(t) ==
  LET s == Structure(t)
  IN [k \in {k \in DOMAIN s : ~Skipped(s, k)} |->
        IF IsField(k) /\ Settled(s[k]) THEN [s[k] EXCEPT !["TYPE"] = stripOption(@)] ELSE s[k]]

-----------------------------------------------------------------------------
(* The normal form of a structure (cli/struct.ts).                          *)
HasList(s, k) == k \in DOMAIN s /\ \E i \in DOMAIN Members(s[k]["TYPE"]) :
                   Listed(stripOption(Members(s[k]["TYPE"])[i]))

isTrivialElement(clauses) ==
  /\ DOMAIN clauses \subseteq {"TYPE", "PERMISSIONS", "COMPUTED", "REFERENCE"}
  /\ "PERMISSIONS" \in DOMAIN clauses => Range(clauses["PERMISSIONS"]) \subseteq {"full"}

Folded(s) == Without(s, {k \in DOMAIN s : /\ IsElement(k)
                                          /\ HasList(s, Parent(k))
                                          /\ isTrivialElement(s[k])})

normalizePermissions(k, clauses) ==
  LET p == IF "PERMISSIONS" \in DOMAIN clauses THEN clauses["PERMISSIONS"] ELSE <<>>
      said == {op \in DOMAIN p : p[op] # Default(k)}
  IN When(said # {}, "PERMISSIONS" :> Only(p, said))

(* Keeps the option<...> that emit drops.                                   *)
normalizeField_KeepsOption(clauses) == [clauses EXCEPT !["TYPE"] = normalizeType(@)]
normalizeField(clauses) ==
  LET type == normalizeType(clauses["TYPE"])
  IN [clauses EXCEPT !["TYPE"] = IF Settled(clauses) THEN stripOption(type) ELSE type]

normalizeTable(s) ==
  LET t == Folded(s)
  IN [k \in DOMAIN t |->
        normalizePermissions(k, t[k])
        @@ Without(IF IsField(k) THEN normalizeField(t[k]) ELSE t[k], {"PERMISSIONS"})]

Lowered(t) == normalizeTable(Structure(t))

(* The canonical statements of a structure, normal or not                   *)
(* (cli/structure.ts): what two definitions are compared by.                *)
canonicalPerms(k, clauses) ==
  LET p       == clauses["PERMISSIONS"]
      val(op) == IF op \in DOMAIN p THEN p[op] ELSE "none"
      said    == {op \in Ops(k) : val(op) # Default(k)}
  IN When("PERMISSIONS" \in DOMAIN clauses /\ said # {},
          "PERMISSIONS" :> [op \in said |-> val(op)])

fieldClauses(clauses) ==
  [c \in DOMAIN clauses |->
     CASE c = "TYPE" -> canonicalKind(clauses[c])
       [] c = "REFERENCE" -> IF clauses[c] = "ignore" THEN "plain" ELSE clauses[c]
       [] OTHER -> clauses[c]]

structuredSnapshot(s) ==
  LET t == Folded(s)
  IN [k \in DOMAIN t |->
        canonicalPerms(k, t[k])
        @@ Without(IF IsField(k) THEN fieldClauses(t[k]) ELSE t[k], {"PERMISSIONS"})]
=============================================================================
