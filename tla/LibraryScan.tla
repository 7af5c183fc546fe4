------------------------------ MODULE LibraryScan ------------------------------
(***************************************************************************)
(* Scans, imports and migrations as the renderer runs them:                *)
(* hooks/scanState/useScanOperations.ts and useScanImports.ts,             *)
(* utils/handleImportPaths.ts, hooks/useLibraryMigration.ts, RescanPrompt  *)
(* and ScannerOverlay.                                                     *)
(*                                                                         *)
(* A job is one run of a handler: it waits for one call after another and  *)
(* ends in its finally block.  All jobs share one flag, one progress and   *)
(* one prompt, and nothing refuses a second job: the overlay covers the    *)
(* buttons for the mouse, but drops, the keyboard and finished downloads   *)
(* start jobs below it.  A scan holds the lock of the manager, so a call   *)
(* is served as one step.  Directories are counted; what the lists show    *)
(* after a reload is the business of the modules about them, here only     *)
(* whether there are any samples counts.  The system shows one dialog at a *)
(* time, and its answer is the step.                                       *)
(***************************************************************************)
EXTENDS UiBase

CONSTANTS
  MaxDirectories,    \* bound of the model: directories of one import
  MaxFailedRescans   \* bound of the model: re-scans that fail

ASSUME ScanAssumption == {MaxDirectories, MaxFailedRescans} \subseteq Nat \ {0}

VARIABLES
  jobs,              \* the handlers under way
  scanning, migrationBusy,
  progress,          \* scanProgress # null
  promptOpen,        \* rescanPromptOpen
  pendingPath,       \* rescanPendingPath # null
  allPathsKnown,     \* allSamplePaths.length > 0
  listeners,         \* handlers registered for "scan-progress"
  jobsOverlapped,    \* history: a job began while another with its flag ran, and there was
                     \* always some job since
  reopened,          \* history: the prompt opened while the scan it had started ran
  failedRescans      \* history: re-scans that failed

flagVars == <<scanning, migrationBusy, progress>>
promptVars == <<promptOpen, pendingPath, reopened>>
scanVars == <<jobs, flagVars, promptVars, allPathsKnown, listeners, jobsOverlapped, failedRescans>>

Slots == 1..MaxCalls

\* What a handler awaits, one after the other; for a handler with several
\* directories, for each of them.
Course(kind, midiView) ==
  LET midis == IF midiView THEN <<"midis">> ELSE << >> IN
  CASE kind \in {"prompted", "import"} -> <<"listen", "work", "rows", "paths", "midiScan">> \o midis
    [] kind = "rescan" -> <<"listen", "work", "rows", "paths">>
    [] kind = "file" -> <<"work", "rows", "paths">> \o (IF midiView THEN <<"midiScan", "midis">> ELSE << >>)
    [] kind = "sidebar" -> <<"listen", "work", "rows">>
    [] kind = "afterSidebar" -> <<"paths">> \o midis
    [] kind = "dbExport" -> <<"work">>
    [] kind = "dbImport" -> <<"work", "rows", "paths", "midis">>

Migrations == {"dbExport", "dbImport"}
Scans == {"prompted", "rescan", "import", "file", "sidebar"}
ScanJob == [kind : Scans \cup Migrations \cup {"afterSidebar"}, dirs : 1..MaxDirectories, midi : BOOLEAN,
            left : Seq({"listen", "work", "rows", "paths", "midiScan", "midis"})]

ASSUME ScanJobAssumption == None \notin ScanJob

SameFlag(kind, other) == {kind, other} \subseteq Scans \/ {kind, other} \subseteq Migrations

Running(kinds) == {i \in Slots : jobs[i] # None /\ jobs[i].kind \in kinds}
Awaits(i, step) == jobs[i] # None /\ Head(jobs[i].left) = step
Awaiting(step) == {i \in Slots : Awaits(i, step)}

\* Those that registered for the progress, and did not unlisten yet.
Listening == {i \in Running(Scans \ {"file"}) : ~Awaits(i, "listen")}

-----------------------------------------------------------------------------
\* Jobs begin: set the flag, forget the progress.

StartJob(kind, directories, midiView) ==
  \E i \in Slots :
    /\ jobs[i] = None /\ \A k \in 1..i - 1 : jobs[k] # None
    /\ jobs' = [jobs EXCEPT ![i] = [kind |-> kind, dirs |-> directories, midi |-> midiView,
                                    left |-> Course(kind, midiView)]]
    /\ jobsOverlapped' = (jobsOverlapped \/
         \E k \in Slots : jobs[k] # None /\ SameFlag(kind, jobs[k].kind))
    /\ IF kind \in Scans THEN scanning' = TRUE /\ progress' = FALSE /\ UNCHANGED migrationBusy
       ELSE migrationBusy' = TRUE /\ UNCHANGED <<scanning, progress>>
    /\ UNCHANGED <<allPathsKnown, listeners, failedRescans>>

\* Files or directories dropped on the window or on a list; a finished download.
HandleImportPaths(directories, midiView) ==
  /\ \/ directories = 1 /\ StartJob("file", 1, midiView)
     \/ StartJob("import", directories, midiView)
  /\ UNCHANGED promptVars

HandleSidebarImport(directories, midiView) ==
  StartJob("sidebar", directories, midiView) /\ UNCHANGED promptVars

HandleReScanClick ==
  /\ failedRescans < MaxFailedRescans
  /\ StartJob("rescan", 1, FALSE)
  /\ UNCHANGED promptVars

\* A folder to scan is asked about when there is a library already.
HandleScanClick(midiView) ==
  IF allPathsKnown
    THEN /\ promptOpen' = TRUE /\ pendingPath' = TRUE
         /\ reopened' = (reopened \/ Running({"prompted"}) # {})
         /\ UNCHANGED <<jobs, flagVars, allPathsKnown, listeners, jobsOverlapped, failedRescans>>
    ELSE StartJob("import", 1, midiView) /\ UNCHANGED promptVars

HandleMigration(purpose) ==
  ~migrationBusy /\ StartJob(purpose, 1, FALSE) /\ UNCHANGED promptVars

\* The prompt: its buttons are disabled while the scan it started runs.
OnRescan(midiView) ==
  /\ promptOpen /\ pendingPath /\ Running({"prompted"}) = {}
  /\ promptOpen' = FALSE
  /\ StartJob("prompted", 1, midiView)
  /\ UNCHANGED <<pendingPath, reopened>>

OnSkip ==
  /\ promptOpen /\ Running({"prompted"}) = {}
  /\ promptOpen' = FALSE /\ pendingPath' = FALSE /\ reopened' = FALSE
  /\ UNCHANGED <<jobs, flagVars, allPathsKnown, listeners, jobsOverlapped, failedRescans>>

-----------------------------------------------------------------------------
\* Jobs go on, and end.

\* Bug: the flag is cleared only when all went well.
FinishLoudly(i, failed) ==
  /\ scanning' = (scanning /\ (failed \/ jobs[i].kind \notin Scans))
  /\ progress' = (progress /\ jobs[i].kind \notin Scans)
  /\ migrationBusy' = (migrationBusy /\ jobs[i].kind \notin Migrations)

\* finally: the overlay closes, whoever else is at work.
ClearFlags(i, failed) ==
  /\ scanning' = (scanning /\ jobs[i].kind \notin Scans)
  /\ progress' = (progress /\ jobs[i].kind \notin Scans)
  /\ migrationBusy' = (migrationBusy /\ jobs[i].kind \notin Migrations)

\* Bug: every import unlistens at its end, the one of files that never listened too.
UnlistenedAll(i, failed) == i \in Running(Scans)

\* A handler that listened stops, except a re-scan that failed.
Unlistened(i, failed) == i \in Listening /\ ~(failed /\ jobs[i].kind = "rescan")

\* The next directory sets the flag again at once; after its last directory the
\* import of the sidebar still loads the paths, with the flag cleared.
EndOrNext(i, failed) ==
  LET j == jobs[i] IN
  /\ IF j.dirs > 1
       THEN /\ jobs' = [jobs EXCEPT ![i].dirs = @ - 1, ![i].left = Course(j.kind, j.midi)]
            /\ scanning' = TRUE /\ progress' = FALSE /\ UNCHANGED migrationBusy
       ELSE /\ jobs' = [jobs EXCEPT ![i] = IF j.kind # "sidebar" THEN None
                          ELSE [@ EXCEPT !.kind = "afterSidebar", !.left = Course("afterSidebar", j.midi)]]
            /\ ClearFlags(i, failed)
  /\ listeners' = IF Unlistened(i, failed) THEN listeners - 1 ELSE listeners
  /\ failedRescans' = IF failed /\ j.kind = "rescan" THEN failedRescans + 1 ELSE failedRescans
  /\ pendingPath' = (pendingPath /\ j.kind # "prompted")
  /\ jobsOverlapped' = (jobsOverlapped /\ \E k \in Slots : jobs'[k] # None)
  /\ UNCHANGED <<promptOpen, reopened>>

Advance(i) ==
  IF Len(jobs[i].left) = 1 THEN EndOrNext(i, FALSE)
  ELSE /\ jobs' = [jobs EXCEPT ![i].left = Tail(@)]
       /\ UNCHANGED <<flagVars, promptVars, listeners, jobsOverlapped, failedRescans>>

Registered(i) ==
  /\ Awaits(i, "listen")
  /\ jobs' = [jobs EXCEPT ![i].left = Tail(@)]
  /\ listeners' = listeners + 1
  /\ UNCHANGED <<flagVars, promptVars, allPathsKnown, jobsOverlapped, failedRescans>>

\* A scan or re-scan at work reports; every registered handler hears it.
ProgressReported ==
  /\ \E i \in Awaiting("work") : jobs[i].kind \in Scans \ {"file"}
  /\ listeners > 0
  /\ progress' = TRUE
  /\ UNCHANGED <<jobs, scanning, migrationBusy, promptVars, allPathsKnown, listeners,
                 jobsOverlapped, failedRescans>>

\* A scan, an import, a search or a list is answered; all paths are known anew.
StepDone(i) ==
  /\ jobs[i] # None /\ ~Awaits(i, "listen")
  /\ IF Awaits(i, "paths") THEN allPathsKnown' \in BOOLEAN ELSE UNCHANGED allPathsKnown
  /\ Advance(i)

\* A call fails: the rest of the directory is given up.  The loads of all paths catch
\* that themselves, handleSearch does for the import of a database, and a failed MIDI
\* scan is only logged.
StepFails(i) ==
  /\ jobs[i] # None
  /\ LET step == Head(jobs[i].left) IN
       /\ step # "listen"
       /\ IF step = "paths" \/ (jobs[i].kind = "dbImport" /\ step # "work") THEN Advance(i)
          ELSE EndOrNext(i, step \notin {"midiScan", "midis"})
  /\ UNCHANGED allPathsKnown

-----------------------------------------------------------------------------
ScanInit ==
  /\ jobs = [i \in Slots |-> None]
  /\ scanning = FALSE /\ migrationBusy = FALSE /\ progress = FALSE
  /\ promptOpen = FALSE /\ pendingPath = FALSE
  /\ allPathsKnown \in BOOLEAN
  /\ listeners = 0
  /\ jobsOverlapped = FALSE /\ reopened = FALSE /\ failedRescans = 0

ScanUser ==
  \/ \E n \in 1..MaxDirectories, midiView \in BOOLEAN :
       HandleImportPaths(n, midiView) \/ HandleSidebarImport(n, midiView)
  \/ \E midiView \in BOOLEAN : HandleScanClick(midiView) \/ OnRescan(midiView)
  \/ \E purpose \in Migrations : HandleMigration(purpose)
  \/ HandleReScanClick \/ OnSkip

JobStep(i) == Registered(i) \/ StepDone(i) \/ StepFails(i)

ScanNext == ScanUser \/ ProgressReported \/ \E i \in Slots : JobStep(i)

ScanSpec == ScanInit /\ [][ScanNext]_scanVars

-----------------------------------------------------------------------------
\* Each variable of the scan has its type.
ScanTypeOK ==
  /\ jobs \in [Slots -> ScanJob \cup {None}]
  /\ \A i \in Slots : jobs[i] # None => jobs[i].left # << >>
  /\ {scanning, migrationBusy, progress, promptOpen, pendingPath, allPathsKnown,
      jobsOverlapped, reopened} \subseteq BOOLEAN
  /\ listeners \in Nat /\ failedRescans \in 0..MaxFailedRescans + MaxCalls

\* However jobs overlap: an overlay, a progress and the disabled buttons of a
\* migration are those of a job under way, never left behind by one that ended.
\* And until two jobs overlapped - the first to end clears what the other set -
\* a job has its overlay, and no progress shows without one.
OverlayIsWork ==
  /\ scanning \/ progress => Running(Scans) # {}
  /\ migrationBusy => Running(Migrations) # {}
  /\ ~jobsOverlapped =>
       /\ Running(Scans) # {} => scanning
       /\ Running(Migrations) # {} => migrationBusy
       /\ progress => scanning

\* Every handler registered for the progress belongs to a job under way, or to a
\* re-scan that failed.
ListenersReleased == listeners = Cardinality(Listening) + failedRescans

\* The prompt names a folder, unless it was opened again during its own scan.
PromptHasPath == promptOpen /\ ~reopened => pendingPath
===============================================================================
