-------------------------- MODULE FreesoundWorkspace --------------------------
(***************************************************************************)
(* The Freesound screen: hooks/useFreesoundWorkspace.ts with its error     *)
(* state, the workspace component and the credential form, which settings  *)
(* show as well.  The hook is enabled while either is on screen.           *)
(*                                                                         *)
(* One request runs at a time, but leaving the screen gives it up without  *)
(* ending it: its answer comes back to whoever looks then.  The key file   *)
(* is read and written at a moment of its own (Serve), before the answer.  *)
(***************************************************************************)
EXTENDS UiBase

CONSTANTS Queries, Sounds

ASSUME SoundsAssumption == None \notin Sounds \cup {"unset", "configured"}

VARIABLES
  workspaceActive,       \* freesoundWorkspaceActive, in the web view
  settings,     \* settingsOpen
  keyStored,    \* the backend: a key is in its file
  credential,
  results,      \* the query whose results are shown
  busy,         \* requestBusyRef and isBusy
  preview,      \* the sound previewUrl was created for
  previewing,   \* previewingSoundId of the workspace component
  liveUrls,     \* object URLs that are created and not revoked
  errorOwner,
  requests,     \* requests under way, given up ones included
  statusCalls,  \* get_freesound_credential_status
  astray        \* history: the credential is not known to be the stored one

screen == <<workspaceActive, settings>>
key == <<keyStored, credential, astray>>
previewVars == <<preview, previewing, liveUrls>>
freesoundVars == <<screen, key, results, busy, previewVars, errorOwner, requests, statusCalls>>

Kinds == {"save", "delete", "search", "preview", "download"}
Owners == {"credential", "search", "preview", "download"}
Owner(kind) == IF kind \in {"save", "delete"} THEN "credential" ELSE kind

\* newest: operationGenerationRef.  speaks: its error revision is the newest.
\* here: started by the workspace component that is on screen.
Request == [kind : Kinds, arg : Queries \cup Sounds \cup {None}, newest : BOOLEAN,
            speaks : BOOLEAN, here : BOOLEAN, step : {"asked", "served", "importing"}]
StatusCall == [newest : BOOLEAN, speaks : BOOLEAN, answer : {None, "unset", "configured"}]

Enabled(a, s) == a \/ s
On == Enabled(workspaceActive, settings)

-----------------------------------------------------------------------------
\* Operators over the sets of calls.

Silenced(calls) == {[c EXCEPT !.speaks = FALSE] : c \in calls}

\* beginErrorOperation clears the owner's error and silences what is older.
ClearedBy(owner) == IF errorOwner = owner THEN None ELSE errorOwner

\* setOwnedError
Blame(c, owner) == errorOwner' = IF c.newest /\ c.speaks THEN owner ELSE errorOwner

NewRequest(kind, arg) ==
  [kind |-> kind, arg |-> arg, newest |-> TRUE, speaks |-> TRUE, here |-> workspaceActive,
   step |-> "asked"]

\* Bug: the URL of an answer that comes too late is kept.
KeepUrl(c) == preview' = preview /\ liveUrls' = liveUrls + 1

\* stopPreview
StopPreview == preview' = None /\ liveUrls' = liveUrls - (IF preview = None THEN 0 ELSE 1)

\* The component forgets the row once the URL is gone.
KeepPreview == UNCHANGED previewVars
DropPreview == StopPreview /\ previewing' = None

\* The common start of the five operations.
Start(kind, arg) ==
  /\ On /\ ~busy /\ Room(requests \cup statusCalls)
  /\ busy' = TRUE
  /\ requests' = Overtaken(Silenced(requests)) \cup {NewRequest(kind, arg)}
  /\ errorOwner' = ClearedBy(Owner(kind))

\* Their common end: finally.
Finish(r) ==
  /\ requests' = requests \ {r}
  /\ busy' = IF r.newest THEN FALSE ELSE busy

-----------------------------------------------------------------------------
\* Coming and going.

\* The effect of enabled, with loadCredential up to its await.
EnabledEffect(a, s) ==
  CASE Enabled(a, s) = On ->
         /\ requests' = IF a THEN requests ELSE {[r EXCEPT !.here = FALSE] : r \in requests}
         /\ previewing' = IF a THEN previewing ELSE None
         /\ UNCHANGED <<statusCalls, busy, preview, liveUrls, errorOwner, astray>>
    [] Enabled(a, s) /\ ~On ->
         /\ statusCalls' = Overtaken(Silenced(statusCalls)) \cup
              {[newest |-> TRUE, speaks |-> TRUE, answer |-> None]}
         /\ requests' = Silenced(requests)
         /\ errorOwner' = ClearedBy("credential")
         /\ UNCHANGED <<busy, previewVars, astray>>
    [] ~Enabled(a, s) /\ On ->
         /\ statusCalls' = Overtaken(statusCalls)
         /\ requests' = {[r EXCEPT !.newest = FALSE, !.here = FALSE] : r \in requests}
         /\ busy' = FALSE
         /\ DropPreview
         /\ UNCHANGED <<errorOwner, astray>>

ShowWorkspace ==
  /\ ~workspaceActive /\ ~settings /\ Room(requests \cup statusCalls)
  /\ workspaceActive' = TRUE
  /\ EnabledEffect(TRUE, settings)
  /\ UNCHANGED <<settings, keyStored, credential, results>>

LeaveWorkspace ==
  /\ workspaceActive /\ ~settings
  /\ workspaceActive' = FALSE
  /\ EnabledEffect(FALSE, settings)
  /\ UNCHANGED <<settings, keyStored, credential, results>>

ToggleFreesoundSettings ==
  /\ settings \/ Room(requests \cup statusCalls)
  /\ settings' = ~settings
  /\ EnabledEffect(workspaceActive, ~settings)
  /\ UNCHANGED <<workspaceActive, keyStored, credential, results>>

-----------------------------------------------------------------------------
\* The credential.

StatusServed(c) ==
  /\ c.answer = None
  /\ statusCalls' = (statusCalls \ {c}) \cup
       {[c EXCEPT !.answer = IF keyStored THEN "configured" ELSE "unset"]}
  /\ astray' = (astray /\ ~c.newest)
  /\ UNCHANGED <<screen, keyStored, credential, results, busy, previewVars, errorOwner, requests>>

StatusReturns(c) ==
  /\ c.answer # None
  /\ statusCalls' = statusCalls \ {c}
  /\ credential' = IF c.newest /\ On THEN c.answer ELSE credential
  /\ UNCHANGED <<screen, keyStored, results, busy, previewVars, errorOwner, requests, astray>>

StatusFails(c) ==
  /\ statusCalls' = statusCalls \ {c}
  /\ IF c.newest /\ On
       THEN credential' = "unset" /\ astray' = TRUE /\ Blame(c, "credential")
       ELSE UNCHANGED <<credential, astray, errorOwner>>
  /\ UNCHANGED <<screen, keyStored, results, busy, previewVars, requests>>

SaveApiKey ==
  /\ Start("save", None)
  /\ statusCalls' = Overtaken(Silenced(statusCalls))
  /\ KeepPreview
  /\ UNCHANGED <<screen, key, results>>

DeleteApiKey ==
  /\ credential = "configured"
  /\ Start("delete", None)
  /\ statusCalls' = Overtaken(Silenced(statusCalls))
  /\ DropPreview
  /\ UNCHANGED <<screen, key, results>>

\* The key file is written, or removed: unseen, if the screen was left meanwhile.
KeyServed(r) ==
  /\ r.kind \in {"save", "delete"} /\ r.step = "asked"
  /\ keyStored' = (r.kind = "save")
  /\ requests' = (requests \ {r}) \cup {[r EXCEPT !.step = "served"]}
  /\ astray' = ~r.newest
  /\ UNCHANGED <<screen, credential, results, busy, previewVars, errorOwner, statusCalls>>

KeyReturns(r) ==
  /\ r.kind \in {"save", "delete"} /\ r.step = "served"
  /\ Finish(r)
  /\ credential' = IF r.newest THEN (IF r.kind = "save" THEN "configured" ELSE "unset")
                   ELSE credential
  /\ results' = IF r.newest /\ r.kind = "delete" THEN None ELSE results
  /\ KeepPreview
  /\ UNCHANGED <<screen, keyStored, errorOwner, statusCalls, astray>>

-----------------------------------------------------------------------------
\* Searching, listening and downloading.

Search(q) ==
  /\ workspaceActive /\ credential = "configured"
  /\ Start("search", q)
  /\ DropPreview
  /\ statusCalls' = Silenced(statusCalls)
  /\ UNCHANGED <<screen, key, results>>

SearchReturns(r) ==
  /\ r.kind = "search"
  /\ Finish(r)
  /\ results' = IF r.newest THEN r.arg ELSE results
  /\ KeepPreview
  /\ UNCHANGED <<screen, key, errorOwner, statusCalls>>

\* A row starts its preview only when none is playing.
FetchPreview(s) ==
  /\ workspaceActive /\ credential = "configured" /\ results # None /\ preview = None
  /\ Start("preview", s)
  /\ DropPreview
  /\ statusCalls' = Silenced(statusCalls)
  /\ UNCHANGED <<screen, key, results>>

\* The URL of an answer that comes too late is revoked at once.
DropUrl(c) == preview' = preview /\ liveUrls' = liveUrls

PreviewReturns(r) ==
  /\ r.kind = "preview"
  /\ Finish(r)
  /\ IF r.newest THEN preview' = r.arg /\ liveUrls' = liveUrls + 1 ELSE DropUrl(r)
  /\ previewing' = IF r.here THEN r.arg ELSE previewing
  /\ UNCHANGED <<screen, key, results, errorOwner, statusCalls>>

\* The stop button, or the end of the sound.
PreviewStops ==
  /\ workspaceActive /\ preview # None
  /\ DropPreview
  /\ UNCHANGED <<screen, key, results, busy, errorOwner, requests, statusCalls>>

FailPreview ==
  /\ workspaceActive /\ preview # None
  /\ DropPreview
  /\ errorOwner' = "preview"
  /\ requests' = Silenced(requests) /\ statusCalls' = Silenced(statusCalls)
  /\ UNCHANGED <<screen, key, results, busy>>

\* The button needs a download folder: one is chosen.
DownloadPreview(s) ==
  /\ workspaceActive /\ credential = "configured" /\ results # None
  /\ Start("download", s)
  /\ KeepPreview
  /\ statusCalls' = Silenced(statusCalls)
  /\ UNCHANGED <<screen, key, results>>

\* The file is saved: it is imported, unless the screen was left.
DownloadReturns(r) ==
  /\ r.kind = "download" /\ r.step = "asked"
  /\ IF r.newest
       THEN requests' = (requests \ {r}) \cup {[r EXCEPT !.step = "importing"]} /\ UNCHANGED busy
       ELSE Finish(r)
  /\ UNCHANGED <<screen, key, results, previewVars, errorOwner, statusCalls>>

ImportReturns(r) ==
  /\ r.kind = "download" /\ r.step = "importing"
  /\ Finish(r)
  /\ UNCHANGED <<screen, key, results, previewVars, errorOwner, statusCalls>>

\* A key that is not saved leaves what the status call would have told unsaid.
RequestFails(r) ==
  /\ r.step # "served"
  /\ Finish(r)
  /\ Blame(r, Owner(r.kind))
  /\ previewing' = IF r.here /\ r.kind = "preview" THEN r.arg ELSE previewing
  /\ astray' = (astray \/ (r.newest /\ r.kind \in {"save", "delete"}))
  /\ UNCHANGED <<screen, keyStored, credential, results, preview, liveUrls, statusCalls>>

-----------------------------------------------------------------------------
FreesoundInit ==
  /\ workspaceActive = FALSE /\ settings = FALSE
  /\ keyStored \in BOOLEAN
  /\ credential = "loading" /\ results = None
  /\ busy = FALSE /\ preview = None /\ previewing = None /\ liveUrls = 0
  /\ errorOwner = None /\ requests = {} /\ statusCalls = {} /\ astray = FALSE

FreesoundUser ==
  \/ ShowWorkspace \/ LeaveWorkspace \/ ToggleFreesoundSettings
  \/ SaveApiKey \/ DeleteApiKey
  \/ \E q \in Queries : Search(q)
  \/ \E s \in Sounds : FetchPreview(s) \/ DownloadPreview(s)
  \/ PreviewStops \/ FailPreview

RequestStep(r) ==
  \/ KeyServed(r) \/ KeyReturns(r) \/ SearchReturns(r) \/ PreviewReturns(r)
  \/ DownloadReturns(r) \/ ImportReturns(r) \/ RequestFails(r)

FreesoundNext ==
  \/ FreesoundUser
  \/ \E c \in statusCalls : StatusServed(c) \/ StatusReturns(c) \/ StatusFails(c)
  \/ \E r \in requests : RequestStep(r)

FreesoundSpec == FreesoundInit /\ [][FreesoundNext]_freesoundVars

-----------------------------------------------------------------------------
\* Each variable of the screen has its type.
FreesoundTypeOK ==
  /\ {workspaceActive, settings, keyStored, busy, astray} \subseteq BOOLEAN
  /\ credential \in {"loading", "unset", "configured"}
  /\ results \in Queries \cup {None}
  /\ preview \in Sounds \cup {None} /\ previewing \in Sounds \cup {None}
  /\ liveUrls \in Nat
  /\ errorOwner \in Owners \cup {None}
  /\ requests \subseteq Request /\ statusCalls \subseteq StatusCall

\* The screen is busy exactly while the newest request is under way, whatever happened
\* to the ones it left behind: no button stays disabled.
BusyIsRequest == busy <=> \E r \in requests : r.newest

\* There is one object URL per preview on screen, also if its bytes arrived after the
\* screen was left or the preview replaced.
NoLeakedPreview == liveUrls = IF preview = None THEN 0 ELSE 1

\* The row that is marked as previewing is the one that is heard.
PreviewRow == workspaceActive /\ preview # None /\ previewing # None => preview = previewing

\* The form tells whether a key is stored, once no call is under way that changes or
\* reads it, though the answers of status calls come in any order.
CredentialCurrent ==
  On /\ ~astray /\ statusCalls = {} /\ ~(\E r \in requests : r.kind \in {"save", "delete"})
    => credential = IF keyStored THEN "configured" ELSE "unset"
===============================================================================
