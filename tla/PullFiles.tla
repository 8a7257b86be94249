------------------------------ MODULE PullFiles ------------------------------
(***************************************************************************)
(* `pull --write` on the level of schema files: planPull of                *)
(* drivers/surrealdb/src/cli/pull.ts, mergeUnits and applyPull of          *)
(* packages/core/src/cli-kit/merge.ts, pullPass of                         *)
(* packages/cli/src/cli/index.ts.                                          *)
(*                                                                         *)
(* A pull reads the database and the files, computes what each file would  *)
(* become, and writes the files one by one.  A schema file is a module:    *)
(* besides holding the right definitions it must load, that is, import     *)
(* what it uses from where it is, and define it before using it.           *)
(*                                                                         *)
(* Only the control of the merge is here.  What a definition says is its   *)
(* set of keys: plain fields and, for a table, the tables it refers to.    *)
(***************************************************************************)
EXTENDS Naturals, FiniteSets, Sequences, SequencesExt, CallGraph

CONSTANTS
  Tables,      (* the tables that may exist                                  *)
  Functions,   (* the functions and access methods that may exist            *)
  Keys,        (* field names                                                *)
  Scopes,      (* what the filters of the pulls let through: everything, or  *)
               (* what `--tables` and the like name                          *)
  Misc,        (* a file the user keeps definitions in; the schema file of   *)
               (* the single-file layout                                     *)
  LoadOrder,   (* all files, in the order of the directory listing           *)
  MaxEdits,    (* how often the user edits a file                            *)
  MaxDrifts    (* how often the database changes                             *)

Entities == Tables \cup Functions

(* The file a pull creates for e has the name of e.                          *)
Files == Entities \cup {Misc}

Helper == "helper"   (* an exported const that is not schema                 *)
Absent == [consts |-> <<>>, imports |-> {}, there |-> FALSE]

(* What the constants must be, assumed by the module that instantiates this  *)
(* one.                                                                      *)
FilesAssumption ==
  /\ Misc \notin Entities /\ Helper \notin Entities
  /\ Tables \cap Functions = {} /\ Keys \cap Tables = {}
  /\ LoadOrder \in Seq(Files) /\ ToSet(LoadOrder) = Files
  /\ Entities \in Scopes /\ Scopes \subseteq SUBSET Entities
  /\ MaxEdits \in Nat /\ MaxDrifts \in Nat

VARIABLES
  single,    (* the schema is one file (config.schemaIsFile)                 *)
  db,        (* the live database: entity -> its keys                        *)
  files,     (* the schema files                                             *)
  pc,        (* "idle", "apply" (a plan is being written) or "done"          *)
  job,       (* the running pull: its mode, its scope, what it read, what it *)
             (* has yet to write                                             *)
  edits,     (* how many edits and ...                                       *)
  drifts,    (* ... database changes there were                              *)
  marks      (* what happened that a pull is known not to cope with:         *)
             (*   "strayed"  a definition that imports another was pulled    *)
             (*              into, or imports from, a file not its own, or  *)
             (*              one was pulled into a file that imports its name*)
             (*   "grafted"  a local reference was kept next to pulled ones  *)
             (*   "reported" a file of local definitions and other exports   *)
             (*              was left as it is by a pull that mirrors        *)
             (*   "torn"     a pull died between two writes                  *)

vars == <<single, db, files, pc, job, edits, drifts, marks>>

-----------------------------------------------------------------------------
(* An `export const`: the entity it defines, whether the user gave it a      *)
(* name of his own (the pulled name is a function of the entity's), its      *)
(* keys, and which of the tables among them it refers to by importing them   *)
(* (the others by the table's name as a string).                             *)
Ident(c) == <<c.of, c.own>>
PulledIdent(e) == <<e, FALSE>>

ConstsOf(f) == ToSet(files[f].consts)

(* The files that define e, and the last of them in load order: where        *)
(* existingTables finds a table.                                             *)
Defining(e) == {f \in Files : \E c \in ConstsOf(f) : c.of = e}
LastOf(S) ==
  LoadOrder[CHOOSE i \in DOMAIN LoadOrder :
              LoadOrder[i] \in S /\ \A j \in DOMAIN LoadOrder : LoadOrder[j] \in S => j <= i]
TableLoc(t) ==
  IF single THEN Misc ELSE IF Defining(t) = {} THEN t ELSE LastOf(Defining(t))

(* The module f evaluates, given that those it imports do.  An import of a   *)
(* pulled unit is written "./t", which names the file of t from another      *)
(* table's file only; the user writes paths that are right.                  *)
Resolves(f, imp) ==
  \/ imp.path = "exact" /\ \E g \in Files \ {f} : \E c \in ConstsOf(g) : Ident(c) = PulledIdent(imp.of)
  \/ imp.path = "sibling" /\ f \in Tables /\ \E c \in ConstsOf(imp.of) : Ident(c) = PulledIdent(imp.of)

Used(f) == UNION {c.by : c \in ConstsOf(f)}

ModuleLoads(f) ==
  LET cs == files[f].consts
      declared == {i \in DOMAIN cs : ~cs[i].own}
  IN  /\ \A imp \in files[f].imports : \A i \in declared : cs[i].of # imp.of
      /\ \A imp \in files[f].imports : imp.of \in Used(f) => Resolves(f, imp)
      /\ \A i \in DOMAIN cs : \A t \in cs[i].by :
           \/ \E imp \in files[f].imports : imp.of = t
           \/ \E j \in declared : j < i /\ cs[j].of = t

(* Which files f evaluates first.                                            *)
ImportGraph ==
  [f \in Files |-> {g \in Files \ {f} : \E t \in Used(f) :
     /\ \E imp \in files[f].imports : imp.of = t
     /\ \E c \in ConstsOf(g) : Ident(c) = PulledIdent(t)}]

(* The schema loads: every module does, and no two import each other.        *)
Loads ==
  /\ \A f \in Files : ModuleLoads(f)
  /\ \A f \in Files : ~OnCycle(f, ImportGraph)

-----------------------------------------------------------------------------
(* Rendering.  A reference is an import if the target is pulled too and does *)
(* not lead back (makeResolver); to itself it uses the callback's parameter. *)
RefGraph(pulled) == [t \in pulled |-> db[t].keys \cap pulled]

(* Mutant of Direct: cycles are not looked for.                                        *)
Direct_NoCycleCheck(t, pulled) == (db[t].keys \cap pulled) \ {t}

Direct(t, pulled) ==
  {u \in (db[t].keys \cap pulled) \ {t} : t \notin Reachable(u, RefGraph(pulled))}

Unit(e, pulled) ==
  [of |-> e, own |-> FALSE, keys |-> db[e].keys,
   by |-> IF e \in Tables THEN Direct(e, pulled) ELSE {}]

UnitImports(u) == [of : u.by, path : {"sibling"}]

(* The elements of s that are in S.                                          *)
KeepIf(sel, x) == IF x \in sel.of THEN [sel EXCEPT !.kept = Append(@, x)] ELSE sel
Selecting == INSTANCE LeftFold WITH Step <- KeepIf
Among(s, S) == Selecting!Fold([of |-> S, kept |-> <<>>], s).kept

-----------------------------------------------------------------------------
(* Merging.  Units replace the consts of their name, a table's local keys    *)
(* are grafted back if they are kept, other units are appended.              *)
LocalKeys(prior, u) == IF u.of \in Tables THEN prior.keys \ u.keys ELSE {}

(* Mutant of Grafted: local keys are reported but not grafted.                          *)
Grafted_Never(prior, u, keep) == u

Grafted(prior, u, keep) ==
  IF keep
    THEN [u EXCEPT !.keys = @ \cup LocalKeys(prior, u),
                   !.by = @ \cup (prior.by \cap LocalKeys(prior, u))]
    ELSE u

(* An import takes the place of another of the same local name.              *)
AddImports(imports, new) ==
  new \cup {i \in imports : \A n \in new : n.of # i.of}

(* Mutant of Placed: a unit is always appended.                                        *)
Placed_Appends(consts, u, keep) == Append(consts, u)

Placed(consts, u, keep) ==
  IF \E c \in ToSet(consts) : Ident(c) = Ident(u)
    THEN [i \in DOMAIN consts |->
            IF Ident(consts[i]) = Ident(u) THEN Grafted(consts[i], u, keep) ELSE consts[i]]
    ELSE Append(consts, u)

PlaceNext(merge, u) == [merge EXCEPT !.consts = Placed(@, u, merge.keep)]
Merging == INSTANCE LeftFold WITH Step <- PlaceNext

LocalObjects(file, units) ==
  {Ident(c) : c \in ToSet(file.consts)} \ {Ident(u) : u \in ToSet(units)}

MergeUnits(file, units, keep) ==
  LET placed == Merging!Fold([consts |-> file.consts, keep |-> keep], units).consts
  IN  [consts |-> Among(placed, {c \in ToSet(placed) : keep \/ Ident(c) \notin LocalObjects(file, units)}),
       there |-> TRUE,
       imports |-> AddImports(file.imports, UNION {UnitImports(u) : u \in ToSet(units)})]

(* What a merge that mirrors the database would take away.                   *)
AtRisk(file, units) ==
  \/ LocalObjects(file, units) # {}
  \/ \E c \in ToSet(file.consts), u \in ToSet(units) :
       Ident(c) = Ident(u) /\ LocalKeys(c, u) # {}

(* topoSort: each of ts after what it refers to.  `stack` are the tables     *)
(* being visited, `us` are those to visit.                                   *)
Sorted(ts, pulled) ==
  LET visit[v \in [out : Seq(pulled), stack : SUBSET pulled, us : Seq(pulled)]] ==
        IF v.us = <<>> THEN v.out
        ELSE LET t == Head(v.us)
                 deps == [out |-> v.out, stack |-> v.stack \cup {t},
                          us |-> Among(ts, Direct(t, pulled))]
             IN  visit[[out |-> IF t \in v.stack \cup ToSet(v.out) THEN v.out
                                ELSE Append(visit[deps], t),
                        stack |-> v.stack, us |-> Tail(v.us)]]
  IN  visit[[out |-> <<>>, stack |-> {}, us |-> ts]]

-----------------------------------------------------------------------------
(* Planning.                                                                 *)

Modes == {"plain", "merge", "discard"}

Pulled(scope) == DOMAIN db \cap scope

(* Where the unit of e goes: into the file that has the table, or one of its *)
(* own.                                                                      *)
Place(e) == IF single THEN Misc ELSE IF e \in Tables THEN TableLoc(e) ELSE e

(* The units that go to file f, tables first, in the order of INFO.          *)
Units(es, scope) == [i \in DOMAIN es |-> Unit(es[i], Pulled(scope) \cap Tables)]
GoTo(f, kind, scope) == Among(LoadOrder, {e \in Pulled(scope) \cap kind : Place(e) = f})
UnitsFor(f, scope) ==
  Units(GoTo(f, Tables, scope), scope) \o Units(GoTo(f, Functions, scope), scope)

(* The combined module of a new single file: tables after the tables they    *)
(* refer to, and nothing imported.                                           *)
Assembled(f, scope) ==
  [consts |-> Units(Sorted(GoTo(f, Tables, scope), Pulled(scope) \cap Tables), scope)
                \o Units(GoTo(f, Functions, scope), scope),
   there |-> TRUE, imports |-> {}]

(* What becomes of f: a merge or a new file if units go there; else, in a    *)
(* directory, a file of nothing but local definitions is deleted when        *)
(* mirroring, and one that has other exports is left alone.                  *)
LocalOnlyFile(f, scope) ==
  /\ ~single
  /\ \E c \in ConstsOf(f) : c.of \in Entities /\ c.of \notin Pulled(scope)

Deletable(f, scope, mode) ==
  /\ mode # "merge"
  /\ \A c \in ConstsOf(f) : c.of \in Entities \ Pulled(scope)

After(f, scope, mode) ==
  LET units == UnitsFor(f, scope)
  IN  IF single /\ f = Misc /\ ~files[f].there THEN Assembled(f, scope)
      ELSE IF units # <<>> \/ (single /\ f = Misc)
        THEN MergeUnits(files[f], units, mode = "merge" \/ ~files[f].there)
      ELSE IF LocalOnlyFile(f, scope) /\ Deletable(f, scope, mode) THEN Absent
      ELSE files[f]

RisksLocal(f, scope) ==
  IF UnitsFor(f, scope) # <<>> \/ (single /\ f = Misc)
    THEN AtRisk(files[f], UnitsFor(f, scope))
    ELSE LocalOnlyFile(f, scope)

Planned(scope, mode) == [f \in Files |-> After(f, scope, mode)]
Changed(plan) == Among(LoadOrder, {f \in Files : plan[f] # files[f]})

(* What a plan does that the rendering does not provide for.  It takes a     *)
(* definition to be the only one of its file, and to be in the file of its   *)
(* name; and it looks for circles among pulled references only.              *)
Strays(scope) ==
  \E f \in Files : \E u \in ToSet(UnitsFor(f, scope)) :
    \/ \E imp \in files[f].imports : imp.of = u.of
    \/ \E t \in u.by : IF single THEN files[f].there ELSE f # u.of \/ TableLoc(t) # t

Grafts(f, scope) ==
  \E c \in ConstsOf(f) : \E t \in c.by :
    \A u \in ToSet(UnitsFor(f, scope)) : Ident(u) = Ident(c) => t \in LocalKeys(c, u)

Marks(scope, mode) ==
  {m \in {"strayed", "grafted", "reported"} :
     CASE m = "strayed"  -> Strays(scope)
       [] m = "grafted"  -> mode = "merge" /\ \E f \in Files : Grafts(f, scope)
       [] m = "reported" -> mode = "discard" /\ \E f \in Files :
            /\ LocalOnlyFile(f, scope) /\ After(f, scope, mode) = files[f]
            /\ Used(f) # {}}

NoJob == [mode |-> "plain", scope |-> {}, db |-> <<>>, before |-> <<>>, todo |-> <<>>]

(* planPull and the guard of pullPass.  In a directory the plan imports      *)
(* every file.  Nothing to write, or local definitions at risk and no flag   *)
(* given: the pull ends here.                                                *)
Plan ==
  /\ pc = "idle"
  /\ single \/ Loads
  /\ \E mode \in Modes, scope \in Scopes :
       LET plan == Planned(scope, mode)
           todo == Changed(plan)
       IN  /\ todo # <<>>
           /\ mode = "plain" => \A f \in Files : ~RisksLocal(f, scope)
           /\ job' = [mode |-> mode, scope |-> scope, db |-> db, before |-> files,
                      todo |-> [i \in DOMAIN todo |->
                                  [file |-> todo[i], after |-> plan[todo[i]]]]]
           /\ marks' = marks \cup Marks(scope, mode)
  /\ pc' = "apply"
  /\ UNCHANGED <<single, db, files, edits, drifts>>

(* applyPull, one file.                                                      *)
Write ==
  /\ pc = "apply" /\ job.todo # <<>>
  /\ files' = [files EXCEPT ![Head(job.todo).file] = Head(job.todo).after]
  /\ job' = [job EXCEPT !.todo = Tail(@)]
  /\ pc' = IF Len(job.todo) = 1 THEN "done" ELSE "apply"
  /\ UNCHANGED <<single, db, edits, drifts, marks>>

Return ==
  /\ pc = "done"
  /\ pc' = "idle" /\ job' = NoJob
  /\ UNCHANGED <<single, db, files, edits, drifts, marks>>

(* The process dies between two writes.                                      *)
Crash ==
  /\ pc = "apply"
  /\ pc' = "idle" /\ job' = NoJob
  /\ marks' = IF files = job.before THEN marks ELSE marks \cup {"torn"}
  /\ UNCHANGED <<single, db, files, edits, drifts>>

-----------------------------------------------------------------------------
(* The user edits one file, and leaves a schema that loads if it did.        *)
Editing == pc = "idle" /\ edits < MaxEdits
Edit(f, content) ==
  /\ edits' = edits + 1
  /\ files' = [files EXCEPT ![f] = content]
  /\ Loads => Loads'
  /\ UNCHANGED <<single, db, pc, job, drifts, marks>>

Writable(f) == single => f = Misc

(* A field is added to a definition.                                         *)
AddKey ==
  /\ Editing
  /\ \E f \in Files : \E i \in DOMAIN files[f].consts, k \in Keys :
       /\ files[f].consts[i].of \in Tables
       /\ Edit(f, [files[f] EXCEPT !.consts[i].keys = @ \cup {k}])

(* One that refers to the table of another file.                             *)
Referring(c, t) == [c EXCEPT !.keys = @ \cup {t}, !.by = @ \cup {t}]
AddReference ==
  /\ Editing
  /\ \E f \in Files : \E i \in DOMAIN files[f].consts, t \in Tables :
       LET imp == [of |-> t, path |-> "exact"]
       IN  /\ files[f].consts[i].of \in Tables
           /\ t \notin Used(f) /\ Resolves(f, imp)
           /\ Edit(f, [files[f] EXCEPT
                         !.consts[i] = Referring(@, t), !.imports = AddImports(@, {imp})])

(* A new definition, in its own file or in Misc.                             *)
AddEntity ==
  /\ Editing
  /\ \E e \in Entities : \E f \in {e, Misc}, own \in BOOLEAN :
       /\ Writable(f)
       /\ Defining(e) = {}
       /\ Edit(f, [files[f] EXCEPT !.there = TRUE,
                     !.consts = Append(@, [of |-> e, own |-> own, keys |-> {}, by |-> {}])])

(* An export that is not schema, next to definitions.                        *)
AddHelper ==
  /\ Editing
  /\ \E f \in Files :
       /\ files[f].there /\ \A c \in ConstsOf(f) : c.of # Helper
       /\ Edit(f, [files[f] EXCEPT
                     !.consts = Append(@, [of |-> Helper, own |-> TRUE, keys |-> {}, by |-> {}])])

(* Somebody else changes the database: defines or removes an entity, or a    *)
(* field of a table.                                                         *)
Without(e) ==
  [x \in DOMAIN db \ {e} |-> [keys |-> db[x].keys \ {e}]]
Toggled(t, k) ==
  [db EXCEPT ![t].keys = IF k \in @ THEN @ \ {k} ELSE @ \cup {k}]

Drift ==
  /\ pc = "idle" /\ drifts < MaxDrifts
  /\ drifts' = drifts + 1
  /\ \/ \E e \in DOMAIN db : db' = Without(e)
     \/ \E e \in Entities \ DOMAIN db :
          db' = [x \in DOMAIN db \cup {e} |-> IF x = e THEN [keys |-> {}] ELSE db[x]]
     \/ \E t \in DOMAIN db \cap Tables, k \in Keys \cup (DOMAIN db \cap Tables) :
          db' = Toggled(t, k)
  /\ UNCHANGED <<single, files, pc, job, edits, marks>>

(* The databases a project is started from: references are what matters.     *)
Databases == UNION {[E -> [keys : SUBSET E]] : E \in SUBSET Tables}

Init ==
  /\ single \in BOOLEAN
  /\ db \in Databases
  /\ files = [f \in Files |-> Absent]
  /\ pc = "idle" /\ job = NoJob
  /\ edits = 0 /\ drifts = 0
  /\ marks = {}

Next ==
  \/ Plan
  \/ Write \/ Return \/ Crash
  \/ AddKey \/ AddReference \/ AddEntity \/ AddHelper
  \/ Drift

Spec == Init /\ [][Next]_vars

-----------------------------------------------------------------------------
(* A pull leaves a schema that loads, whatever files it found and however    *)
(* often files and database changed before: imports lead somewhere, never in *)
(* circles, and nothing is used before it is defined (makeResolver,          *)
(* mergeUnits).  What it is known not to cope with is excluded, see `marks`. *)
PulledFilesLoad == pc = "idle" /\ marks = {} => Loads

(* After a mirroring pull of everything the files say what the database      *)
(* said, even if an earlier pull died half-way; apart from definitions in a  *)
(* file with other exports, which the command only reports (applyPull).      *)
Mixed(f) ==
  \E c \in ConstsOf(f) : c.of = Helper \/ (c.of \in Functions /\ f # c.of /\ ~single)
DiscardMirrors ==
  pc = "done" /\ job.mode = "discard" /\ job.scope = Entities =>
    /\ \A f \in Files : ~Mixed(f) =>
         \A c \in ConstsOf(f) : c.of \in DOMAIN job.db /\ c.keys = job.db[c.of].keys
    /\ \A e \in DOMAIN job.db : Defining(e) # {}

(* `--merge` takes nothing away: every definition and other export that was  *)
(* in a file is there still, with all its keys.  Nor does a pull without a   *)
(* flag: what only the files have stops it before it writes anything         *)
(* (mergeUnits, the guard of pullPass).                                      *)
PullKeepsLocal ==
  pc = "done" /\ job.mode \in {"plain", "merge"} =>
    \A f \in Files : \A c \in ToSet(job.before[f].consts) :
      \E d \in ConstsOf(f) : Ident(d) = Ident(c) /\ c.keys \subseteq d.keys

(* Either way a pull does what it was asked for.                             *)
PullDoesAsAsked == DiscardMirrors /\ PullKeepsLocal

(* A pull is done: a second one finds nothing to write, so that `--watch`    *)
(* does not rewrite the files for ever (planFile: `unchanged`).  After a     *)
(* pull that made the single file that holds only if no table refers to      *)
(* another: the next one adds imports.                                       *)
PullSettles ==
  pc = "done" /\ (single /\ ~job.before[Misc].there => ~Strays(job.scope)) =>
    Changed(Planned(job.scope, job.mode)) = <<>>
=============================================================================
