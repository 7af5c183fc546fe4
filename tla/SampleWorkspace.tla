---------------------------- MODULE SampleWorkspace ----------------------------
(***************************************************************************)
(* The sample list together with what changes the library behind it:       *)
(* useSampleTrash with its confirmation dialog, the two edit modals        *)
(* (useSampleClassificationState, useSampleMetadataState) and the results  *)
(* shown for the local API (useExternalResultState), over SampleSearch.    *)
(*                                                                         *)
(* Trashing and editing are jobs: they write first, then search again with *)
(* the text and the facets of the moment of the click, then fetch the      *)
(* paths of the sidebar, and only then deselect and close their dialog.    *)
(***************************************************************************)
EXTENDS SampleSearch

CONSTANTS
  ClearAll,        \* the pending id -1: clear the library
  ExternalLists,   \* sequences of ids a client asks to show
  MaxJobs,         \* bound of the model: jobs at the same time
  MaxActs          \* bound of the model: what the user, a client or a scan starts

ASSUME WorkspaceAssumption ==
  /\ ClearAll \notin Ids \cup {None} /\ MaxJobs \in Nat /\ MaxActs \in Nat
  /\ ExternalLists \subseteq Seq(Ids)

VARIABLES
  confirming,   \* pendingTrashSampleId; None when the dialog is closed
  working,      \* the dialog awaits its onConfirm
  editing,      \* the open edit modal: its sample and targets, or None
  jobs,         \* handlers that wait for the backend
  external,     \* results shown for a client, with the snapshot under them
  acts          \* counts towards MaxActs

viewVars == <<confirming, working, editing, jobs, external>>
workspaceVars == <<viewVars, acts>>
allVars == <<searchVars, workspaceVars>>

\* The rows on the screen.
Shown == IF external = None THEN samples ELSE external.results

JobKinds == {"trash", "clear", "metadata", "classification"}

Job == [kind : JobKinds, id : Ids \cup {ClearAll}, todo : SUBSET Ids,
        query : Queries, facet : Facets, instrument : Instruments \cup {None},
        deselect : BOOLEAN, updated : BOOLEAN, found : BOOLEAN, n : Int,
        state : {"writing", "written", "searching", "paths", "failed"}]

NewJob(kind, id, todo, instrument) ==
  [kind |-> kind, id |-> id, todo |-> todo, query |-> search, facet |-> facet,
   instrument |-> instrument, deselect |-> (selected = id), updated |-> FALSE,
   found |-> FALSE, n |-> -1, state |-> "writing"]

\* Counted, so that the state space is finite and small.
Act ==
  /\ acts < MaxActs
  /\ acts' = acts + 1

AddJob(j) ==
  /\ Act
  /\ Cardinality(jobs) < MaxJobs /\ j \notin jobs
  /\ jobs' = jobs \cup {j}

Replace(j, k) == jobs' = (jobs \ {j}) \cup {k}

-----------------------------------------------------------------------------
\* Dialogs.

RequestTrash(id) ==
  /\ Act
  /\ confirming = None /\ id \in RowsOf(Shown)
  /\ confirming' = id
  /\ UNCHANGED <<searchVars, working, editing, jobs, external>>

\* A keyboard shortcut, heard while a dialog is open as well.
RequestClearAll ==
  /\ Act
  /\ confirming' = ClearAll
  /\ UNCHANGED <<searchVars, working, editing, jobs, external>>

CancelTrash ==
  /\ confirming # None /\ ~working
  /\ confirming' = None
  /\ UNCHANGED <<searchVars, working, editing, jobs, external, acts>>

\* A row without a path is not trashed, and its dialog stays.
ConfirmTrash ==
  /\ confirming # None /\ ~working
  /\ IF confirming = ClearAll THEN AddJob(NewJob("clear", ClearAll, Ids, None))
     ELSE confirming \in paths /\ AddJob(NewJob("trash", confirming, {confirming}, None))
  /\ working' = TRUE
  /\ UNCHANGED <<searchVars, confirming, editing, external>>

\* The row, or the selected rows when it is one of them.
EditTargets(id) == IF id \in selectedIds THEN selectedIds ELSE {id}

OpenEdit(id) ==
  /\ Act
  /\ editing = None /\ id \in RowsOf(Shown)
  /\ editing' = [id |-> id, targets |-> EditTargets(id)]
  /\ UNCHANGED <<searchVars, confirming, working, jobs, external>>

CloseEdit ==
  /\ editing # None
  /\ editing' = None
  /\ UNCHANGED <<searchVars, confirming, working, jobs, external, acts>>

\* Save stays clickable while it runs; rows without a path are skipped.
SaveClassification(i) ==
  /\ editing # None
  /\ AddJob(NewJob("classification", editing.id, editing.targets \cap paths, i))
  /\ UNCHANGED <<searchVars, confirming, working, editing, external>>

SaveMetadata ==
  /\ editing # None
  /\ AddJob(NewJob("metadata", editing.id, editing.targets \cap paths, None))
  /\ UNCHANGED <<searchVars, confirming, working, editing, external>>

-----------------------------------------------------------------------------
\* Jobs.

IsEdit(j) == j.kind \in {"metadata", "classification"}

\* The backend trashes one row, or refuses.
TrashRow(j) ==
  /\ j \in jobs /\ j.kind = "trash" /\ j.state = "writing"
  /\ \/ /\ j.id \in Present
        /\ library' = [library EXCEPT ![j.id] = None]
        /\ Replace(j, [j EXCEPT !.state = "written"])
     \/ /\ UNCHANGED library
        /\ Replace(j, [j EXCEPT !.state = "failed"])
  /\ disturbed' = TRUE
  /\ UNCHANGED <<filterVars, listVars, loadVars, searching, newest, selectionVars,
                 calls, sent, confirming, working, editing, external, acts>>

\* One target of an edit; a failed one, or one without a row, does not count.
EditRow(j, id) ==
  /\ j \in jobs /\ IsEdit(j) /\ j.state = "writing" /\ id \in j.todo
  /\ \A x \in j.todo : id <= x
  /\ \/ /\ id \in Present
        /\ library' = IF j.kind = "metadata" THEN library
                      ELSE [library EXCEPT ![id] = j.instrument]
        /\ Replace(j, [j EXCEPT !.todo = @ \ {id}, !.updated = TRUE])
     \/ /\ UNCHANGED library
        /\ Replace(j, [j EXCEPT !.todo = @ \ {id}])
  /\ disturbed' = TRUE
  /\ UNCHANGED <<filterVars, listVars, loadVars, searching, newest, selectionVars,
                 calls, sent, confirming, working, editing, external, acts>>

\* The search after the writes, with the text and the facets of the click.
FollowUp(j) ==
  /\ j \in jobs
  /\ \/ j.kind = "trash" /\ j.state = "written"
     \/ IsEdit(j) /\ j.state = "writing" /\ j.todo = {} /\ j.updated
  /\ StartSearch(j.query, j.facet)
  /\ Replace(j, [j EXCEPT !.state = "searching", !.n = sent])
  /\ disturbed' = (PageLoads # {} \/ j.query # search \/ j.facet # facet)
  /\ UNCHANGED <<library, filterVars, listVars, loadVars, selectionVars, confirming,
                 working, editing, external, acts>>

\* runSearch returns the rows to its caller even when a newer search exists.
Informed(j, c) ==
  IF j.n # c.n THEN j
  ELSE [j EXCEPT !.state = IF c.state = "read" THEN "paths" ELSE "failed",
                 !.found = (j.id \in c.page)]

SearchReturns(c) ==
  /\ SearchStep(c)
  /\ jobs' = {Informed(j, c) : j \in jobs}
  /\ UNCHANGED <<confirming, working, editing, external, acts>>

\* Bug: the dialog is closed on the successful path only.
KeepDialog(j) == UNCHANGED <<confirming, working>>

\* The finally block of the handler, and the one of the dialog.
CloseDialog(j) == confirming' = None /\ working' = FALSE

TrashEnds(j) ==
  /\ j \in jobs /\ j.kind = "trash" /\ j.state = "paths"
  /\ jobs' = jobs \ {j}
  /\ CloseDialog(j)
  /\ IF j.deselect THEN SetSelected(None) ELSE UNCHANGED selectionVars
  /\ UNCHANGED <<library, filterVars, listVars, loadVars, searching, newest, calls,
                 sent, disturbed, editing, external, acts>>

TrashFails(j) ==
  /\ j \in jobs /\ j.kind = "trash" /\ j.state = "failed"
  /\ jobs' = jobs \ {j}
  /\ CloseDialog(j)
  /\ UNCHANGED <<searchVars, editing, external, acts>>

\* Without an updated target, or after a failed search, the modal stays.
EditFails(j) ==
  /\ j \in jobs /\ IsEdit(j)
  /\ \/ j.state = "failed"
     \/ j.state = "writing" /\ j.todo = {} /\ ~j.updated
  /\ jobs' = jobs \ {j}
  /\ UNCHANGED <<searchVars, confirming, working, editing, external, acts>>

\* setSelected narrows the selection to one row in every case.
EditEnds(j) ==
  /\ j \in jobs /\ IsEdit(j) /\ j.state = "paths"
  /\ jobs' = jobs \ {j}
  /\ editing' = None
  /\ SetSelected(IF selected = j.id /\ ~j.found THEN None ELSE selected)
  /\ UNCHANGED <<library, filterVars, listVars, loadVars, searching, newest, calls,
                 sent, disturbed, confirming, working, external, acts>>

\* clear_all_samples and clear_all_midis, in the backend.
ClearLibrary(j) ==
  /\ j \in jobs /\ j.kind = "clear" /\ j.state = "writing"
  /\ \/ /\ library' = [id \in Ids |-> None]
        /\ Replace(j, [j EXCEPT !.state = "written"])
     \/ /\ library' \in {library, [id \in Ids |-> None]}
        /\ Replace(j, [j EXCEPT !.state = "failed"])
  /\ disturbed' = TRUE
  /\ UNCHANGED <<filterVars, listVars, loadVars, searching, newest, selectionVars,
                 calls, sent, confirming, working, editing, external, acts>>

ClearEnds(j) ==
  /\ j \in jobs /\ j.kind = "clear" /\ j.state \in {"written", "failed"}
  /\ jobs' = jobs \ {j}
  /\ CloseDialog(j)
  /\ IF j.state = "failed" THEN UNCHANGED <<samples, paths, selectionVars>>
     ELSE samples' = << >> /\ paths' = {} /\ SetSelected(None)
  /\ disturbed' = TRUE
  /\ UNCHANGED <<library, filterVars, offset, canMore, canPrevious, lastFull, loadVars,
                 searching, newest, calls, sent, editing, external, acts>>

-----------------------------------------------------------------------------
\* Results shown for a client of the local API.

Snapshot == [samples |-> samples, paths |-> paths, search |-> search, facet |-> facet,
             selected |-> selected]

FirstSnapshot == IF external = None THEN Snapshot ELSE external.under

ShowExternal(results, choice) ==
  /\ Act
  /\ choice \in RowsOf(results) \cup {None}
  /\ external' = [results |-> results, under |-> FirstSnapshot]
  /\ SetSelected(choice)
  /\ UNCHANGED <<library, filterVars, listVars, loadVars, searching, newest, calls,
                 sent, disturbed, confirming, working, editing, jobs>>

\* The list comes back, but not its offset; another facet searches again.
RestoreSearchResults ==
  /\ external # None
  /\ samples' = external.under.samples /\ paths' = external.under.paths
  /\ search' = external.under.search /\ facet' = external.under.facet
  /\ SetSelected(external.under.selected)
  /\ external' = None
  /\ IF facet' # facet THEN StartSearch(search', facet')
     ELSE UNCHANGED <<calls, sent, newest, searching>>
  /\ disturbed' = (PageLoads # {} \/ facet' = facet)
  /\ UNCHANGED <<library, offset, canMore, canPrevious, lastFull, loadVars,
                 confirming, working, editing, jobs, acts>>

-----------------------------------------------------------------------------
Init ==
  /\ SearchInit
  /\ confirming = None /\ working = FALSE /\ editing = None
  /\ jobs = {} /\ external = None /\ acts = 0

DialogStep ==
  \/ \E id \in Ids : RequestTrash(id) \/ OpenEdit(id)
  \/ RequestClearAll \/ CancelTrash \/ ConfirmTrash
  \/ CloseEdit \/ SaveMetadata
  \/ \E i \in Instruments : SaveClassification(i)

JobStep(j) ==
  \/ TrashRow(j) \/ TrashEnds(j) \/ TrashFails(j)
  \/ \E id \in Ids : EditRow(j, id)
  \/ EditEnds(j) \/ EditFails(j)
  \/ FollowUp(j)
  \/ ClearLibrary(j) \/ ClearEnds(j)

BackendStep == \E c \in calls : CallStep(c) /\ UNCHANGED workspaceVars

ReturnStep == \E c \in calls : SearchReturns(c)

Next ==
  \/ PageStep(Shown) /\ UNCHANGED workspaceVars
  \/ UserStep(Shown) /\ Act /\ UNCHANGED viewVars
  \/ DialogStep
  \/ BackendStep
  \/ ReturnStep
  \/ \E j \in jobs : JobStep(j)
  \/ \E results \in ExternalLists, choice \in Ids \cup {None} :
       ShowExternal(results, choice)
  \/ RestoreSearchResults

\* The backend answers every call and the event loop resumes every handler.
Fairness ==
  /\ WF_allVars(BackendStep)
  /\ WF_allVars(ReturnStep)
  /\ WF_allVars(\E j \in jobs : JobStep(j))

Spec == Init /\ [][Next]_allVars /\ Fairness

-----------------------------------------------------------------------------
(* Type correctness of the dialogs and jobs. *)
WorkspaceTypeOK ==
  /\ SearchTypeOK
  /\ confirming \in Ids \cup {None, ClearAll} /\ working \in BOOLEAN
  /\ editing \in {None} \cup [id : Ids, targets : SUBSET Ids]
  /\ jobs \subseteq Job /\ acts \in 0..MaxActs

=============================================================================
