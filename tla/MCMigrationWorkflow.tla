------------------------- MODULE MCMigrationWorkflow -------------------------
(* Small instances of MigrationWorkflow for TLC: a table with one or two    *)
(* fields, and an object that has none.                                       *)
EXTENDS MigrationWorkflow

Surreal == [idempotent |-> TRUE, live |-> TRUE]
Postgres == [idempotent |-> FALSE, live |-> FALSE]
BothDrivers == {Surreal, Postgres}
SurrealOnly == {Surreal}
TwoObjects == {"t", "u"}
TheirFields == [o \in TwoObjects |-> IF o = "t" THEN {"f", "g"} ELSE {}]
TheirField == [o \in TwoObjects |-> IF o = "t" THEN {"f"} ELSE {}]
Everything == {TwoObjects}
AllOrTables == {TwoObjects, {"t"}}
Nothing == {}
Both == BOOLEAN
MirrorAndDiscard == {"mirror", "discard"}
DiscardOnly == {"discard"}
=============================================================================
