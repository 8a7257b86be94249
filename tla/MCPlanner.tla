------------------------------ MODULE MCPlanner ------------------------------
(* The planners for TLC: the sort over every graph of three objects, the    *)
(* scripts of migrations over the objects of two drivers, and pushes.       *)
EXTENDS Planner

MCNodes == 1..3
Unique == [n \in 1..3 |-> n]

Def(d, cols, uses, hard) == [deps |-> d, cols |-> cols, uses |-> uses, hard |-> hard]
Of(d) == Def(d, {}, {}, 0)

(* SurrealDB: table 1, its index 2 and its event 3, functions 4 and 5 (the  *)
(* table and the event may call 4, the functions may call each other) and   *)
(* an access method 6, which migrations do not manage.                      *)
Surreal == <<1, 2, 3, 4, 5, 6>>

(* Postgres: table 11 with a column that may go and a part that has no      *)
(* in-place form, table 12, an index 13 on the column or on the table, a    *)
(* foreign key 14 from table 12 to table 11, and a view 15 over the column. *)
Postgres == <<11, 12, 13, 14, 15>>

BothDrivers == {Surreal, Postgres}
TheirObjects == 1..6 \cup 11..15
TheirOwner == [o \in TheirObjects |-> IF o \in {2, 3} THEN 1 ELSE NoOwner]
TheirCascading == 11..15
TheirInPlace == {1, 3, 4, 5, 6, 11, 12}
TheirDefinitions ==
  [o \in TheirObjects |->
    CASE o = 1  -> {Of({}), Of({4})}
      [] o = 2  -> {Of({1}), Def({1}, {}, {}, 1)}
      [] o = 3  -> {Of({1}), Of({1, 4})}
      [] o = 4  -> {Of({}), Of({5})}
      [] o = 5  -> {Of({}), Of({4})}
      [] o = 6  -> {Of({})}
      [] o = 11 -> {Def({}, {}, {}, 0), Def({}, {"c"}, {}, 0), Def({}, {"c"}, {}, 1)}
      [] o = 12 -> {Of({})}
      [] o = 13 -> {Of({11}), Def({11}, {}, {<<11, "c">>}, 0)}
      [] o = 14 -> {Of({11, 12})}
      [] o = 15 -> {Def({}, {}, {<<11, "c">>}, 0)}]

(* A push: table 1 with field 2 and index 3, and analyzer 5, which the      *)
(* index uses; table 4 without parts.                                       *)
TheirStatements == 1..5
TheirKind == <<"table", "field", "index", "table", "analyzer">>
TheirTable == <<1, 1, 1, 4, 5>>
TheirUses == <<{}, {}, {5}, {}, {}>>
=============================================================================
