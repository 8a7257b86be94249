---------------------------- MODULE MCDefinitions ----------------------------
(* Definitions on their way round for TLC.  A behaviour is one of the files   *)
(* a pull writes (PullFiles) or of a table with its clauses (TableTrip).      *)
EXTENDS PullFiles

CONSTANTS Alphabet, Literals, Corpus, Extra

VARIABLES declared, stored, live, script, last, failed

tripVars == <<declared, stored, live, script, last, failed>>

Trips == INSTANCE MCTableTrip WITH db <- live

(* The definitions themselves, which need no constant but Extra.              *)
Made == INSTANCE MCTableTrip WITH db <- live, Alphabet <- <<>>, Literals <- {}, Corpus <- {}

ASSUME FilesAssumption
ASSUME Trips!AlphabetAssumption /\ Trips!CorpusAssumption

MCAlphabet == Made!MCAlphabet
MCLiterals == Made!MCLiterals
MCCorpus == Made!MCCorpus

(* Two tables that may refer to each other and to themselves, one function.   *)
MCScopes == {{"a", "b", "f"}, {"b"}}
MCLoadOrder == <<"f", "misc", "a", "b">>

NoTrip ==
  /\ declared = <<>> /\ stored = <<>> /\ live = <<>> /\ script = <<>>
  /\ last = "none" /\ failed = FALSE
NoPull ==
  /\ single = FALSE /\ db = <<>> /\ files = <<>> /\ pc = "none" /\ job = <<>>
  /\ edits = 0 /\ drifts = 0 /\ marks = {}

TripStep == last # "none" /\ Trips!Next /\ UNCHANGED vars
PullStep == pc # "none" /\ Next /\ UNCHANGED tripVars

BothSpec ==
  /\ (Init /\ NoTrip) \/ (Trips!Init /\ NoPull)
  /\ [][TripStep \/ PullStep]_<<vars, tripVars>>

(* The database refuses no script of a migration or a push: TableTrip.        *)
ScriptsRun == Trips!ScriptsRun

(* After `migrate`, after `push` and after `pull` nothing is left to diff:    *)
(* TableTrip.                                                                 *)
NothingToDiff == Trips!NothingToDiff /\ Trips!PullSettles

(* `rollback` takes the database back to where it was: TableTrip.             *)
RollbackRestores == Trips!RollbackRestores
=============================================================================
