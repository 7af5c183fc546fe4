---------------------------- MODULE LibraryMigration ----------------------------
(***************************************************************************)
(* Export and import of the library: core/src/manager/migration.rs and     *)
(* migration_io.rs.                                                        *)
(*                                                                         *)
(* The manager's mutex is held for a whole export or import, each step of  *)
(* which may fail, and the program may end between two of them.  A copy of *)
(* a library is its content and its schema; whole says that all of it is   *)
(* there.  A restore into the open database is one transaction of SQLite.  *)
(* The folder is not the one the library itself lies in.                   *)
(***************************************************************************)
EXTENDS UiBase

CONSTANTS
  LibraryContents,  \* what a library may hold
  Foreign    \* the copies a chosen folder may hold, broken ones among them

VARIABLES
  live,       \* the open library
  target,     \* samples.db of the folder exports go to, or None
  temp,       \* the copy an export makes beside it, or None
  staged,     \* the copy an import makes beside the live library, or None
  rollback,   \* the copy an import makes of the live library, or None
  job,        \* the step that an export or import has come to, or "idle"
  outcome,    \* how the last export or import ended, if nothing was changed since, or "open"
  before,     \* history: the live library when the last import began
  given,      \* history: what the folder held then
  undoFailed, \* history: its rollback failed
  tidyFailed  \* history: it could not remove its copies

migrationVars ==
  <<live, target, temp, staged, rollback, job, outcome, before, given, undoFailed, tidyFailed>>
fileVars == <<live, target, temp, staged, rollback>>
pastVars == <<before, given, undoFailed, tidyFailed>>

Copies == [lib : LibraryContents, schema : {"legacy", "current"}, whole : BOOLEAN]

ASSUME MigrationAssumption == Foreign \subseteq Copies /\ None \notin Copies

Library(lib) == [lib |-> lib, schema |-> "current", whole |-> TRUE]
Current(copy) == [copy EXCEPT !.schema = "current"]

NextStep(step) == job' = step /\ UNCHANGED outcome
JobEnds(how) == job' = "idle" /\ outcome' = how

-----------------------------------------------------------------------------
\* Anything else the manager does.
ChangeLibrary(lib) ==
  /\ job = "idle"
  /\ live' = [live EXCEPT !.lib = lib] /\ outcome' = "open"
  /\ UNCHANGED <<target, temp, staged, rollback, job, pastVars>>

StartExport ==
  /\ job = "idle"
  /\ job' = "backup" /\ outcome' = "open"
  /\ UNCHANGED <<fileVars, pastVars>>

\* A backup that stops in the middle leaves what it has written.
BackUp ==
  /\ job = "backup"
  /\ \/ temp' = live /\ NextStep("replace")
     \/ temp' = [live EXCEPT !.whole = FALSE] /\ JobEnds("notExported")
  /\ UNCHANGED <<live, target, staged, rollback, pastVars>>

\* Validated and renamed; rename replaces a file as a whole.
ReplaceTarget ==
  /\ job = "replace"
  /\ \/ temp.schema = "current" /\ target' = temp /\ temp' = None /\ JobEnds("exported")
     \/ UNCHANGED <<target, temp>> /\ JobEnds("notExported")
  /\ UNCHANGED <<live, staged, rollback, pastVars>>

-----------------------------------------------------------------------------
\* The file of the folder is copied beside the library.
StartImport(copy) ==
  /\ job = "idle"
  /\ before' = live /\ given' = copy
  /\ undoFailed' = FALSE /\ tidyFailed' = FALSE
  /\ \/ /\ staged' = copy
        /\ job' = "validate" /\ outcome' = "open"
     \/ /\ staged' \in {[copy EXCEPT !.whole = FALSE], None}
        /\ JobEnds("notImported")
  /\ UNCHANGED <<live, target, temp, rollback>>

\* Integrity and tables are checked and missing tables made; on an error it stays.
ValidateStaged ==
  /\ job = "validate"
  /\ \/ staged.whole /\ staged' = Current(staged) /\ NextStep("save")
     \/ UNCHANGED staged /\ JobEnds("notImported")
  /\ UNCHANGED <<live, target, temp, rollback, pastVars>>

SaveRollback ==
  /\ job = "save"
  /\ \/ rollback' = live /\ NextStep("restore")
     \/ rollback' \in {[live EXCEPT !.whole = FALSE], None} /\ NextStep("tidyFailure")
  /\ UNCHANGED <<live, target, temp, staged, pastVars>>

\* Restored, its schema made current, validated, and written out; or an error of these.
RestoreStaged ==
  /\ job = "restore"
  /\ \/ live' = staged /\ NextStep("tidySuccess")
     \/ live' \in {live, staged} /\ NextStep("undo")
  /\ UNCHANGED <<target, temp, staged, rollback, pastVars>>

\* The rollback copy is restored, or that fails as well.
Undo ==
  /\ job = "undo"
  /\ \/ live' = Current(rollback) /\ UNCHANGED undoFailed
     \/ live' \in {live, rollback} /\ undoFailed' = TRUE
  /\ NextStep("tidyFailure")
  /\ UNCHANGED <<target, temp, staged, rollback, before, given, tidyFailed>>

\* Both copies are removed, then the result is given; an error of that comes first.
Tidy(step, how) ==
  /\ job = step
  /\ \/ staged' = None /\ rollback' = None /\ JobEnds(how) /\ UNCHANGED tidyFailed
     \/ /\ staged' \in {None, staged} /\ rollback' \in {None, rollback}
        /\ staged' # None => rollback' = rollback
        /\ JobEnds("notImported") /\ tidyFailed' = TRUE
  /\ UNCHANGED <<live, target, temp, before, given, undoFailed>>

TidyUp == Tidy("tidySuccess", "imported") \/ Tidy("tidyFailure", "notImported")

\* The program ends and starts again: init_database makes the schema current.
RestartMigration ==
  /\ live' = Current(live)
  /\ job' = "idle" /\ outcome' = "open"
  /\ UNCHANGED <<target, temp, staged, rollback, pastVars>>

-----------------------------------------------------------------------------
MigrationInit ==
  /\ \E lib \in LibraryContents : live = Library(lib)
  /\ target = None /\ temp = None /\ staged = None /\ rollback = None
  /\ job = "idle" /\ outcome = "open" /\ before = live /\ given = None
  /\ undoFailed = FALSE /\ tidyFailed = FALSE

MigrationNext ==
  \/ \E lib \in LibraryContents : ChangeLibrary(lib)
  \/ StartExport \/ BackUp \/ ReplaceTarget
  \/ \E copy \in Foreign \cup ({target} \ {None}) : StartImport(copy)
  \/ ValidateStaged \/ SaveRollback \/ RestoreStaged \/ Undo \/ TidyUp
  \/ RestartMigration

MigrationSpec == MigrationInit /\ [][MigrationNext]_migrationVars

-----------------------------------------------------------------------------
\* Each variable of the migration has its type.
MigrationTypeOK ==
  /\ live \in Copies
  /\ \A file \in {target, temp, staged, rollback} : file \in Copies \cup {None}
  /\ job \in {"idle", "backup", "replace", "validate", "save", "restore", "undo",
              "tidySuccess", "tidyFailure"}
  /\ outcome \in {"open", "exported", "notExported", "imported", "notImported"}
  /\ before \in Copies /\ given \in Copies \cup {None}
  /\ {undoFailed, tidyFailed} \subseteq BOOLEAN

\* What lies in the folder of exports is a library as a whole, though an export
\* stopped in the middle, and after one that succeeded it is this library.
ExportWhole ==
  /\ target # None => target.whole /\ target.schema = "current"
  /\ outcome = "exported" => target = live

\* The open library is whole and has the tables the program reads, in every state:
\* the library of an older program is brought up to date before it is restored,
\* and so is the one that comes back when the restore fails.
LiveWhole == live.whole /\ live.schema = "current"

\* An import that is reported as done gave the library of the folder, and one that
\* is reported as failed left the library as it was - or, when it could not be
\* undone or failed at removing its copies, the library of the folder as a whole:
\* never a third one, and never a mixture of the two.
ImportTellsTruth ==
  /\ outcome = "imported" => live = Current(given) /\ given.whole
  /\ outcome = "notImported" =>
       live.lib = before.lib \/ ((undoFailed \/ tidyFailed) /\ live = Current(given))

\* Until an import is through, the library it replaces is in its place or in the
\* rollback copy, so a program that ends in it, or an error of it, loses nothing.
OldLibraryKept ==
  job \in {"validate", "save", "restore", "undo"} =>
    live = before \/ rollback = before
===============================================================================
