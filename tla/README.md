# Open Sample Manager: TLA+ models, model checks and proofs

Open Sample Manager is a desktop application (Rust core, Tauri host, React
renderer) with a localhost HTTP API and an MCP server that lets tools drive it.
This directory holds TLA+ specifications of the parts of it whose correctness
depends on the order in which threads, IPC calls, failures, restarts and the user's
actions happen, the TLC configurations that check them on small instances, and proofs
for every value of the constants. Paths below are relative to the repository root,
without the `src/` of the packages where that is clear.

## 1. Inventory

| Component | State | Operations | What makes it correct |
|---|---|---|---|
| UI command queue (`src-tauri/src/external_commands.rs`) | `pending` deque, `in_flight` leases, `reserved`, `next_id`, behind one mutex | reserve / commit / cancel (`enqueue`, `enqueue_after`), `claim`, `acknowledge`, `nack` | bounded, leaks no slot, each command in one place, settled only by an acknowledgement or an exhausted retry budget |
| Local HTTP API actions (`http_api/router/action_handlers.rs`) | one blocking task per request; the manager mutex; the queue | show samples, preview, add to collection; update MIDI tags, create a tag, update instruments; reads | a change that was made is announced, a refused request changes nothing, locks and slots are given back, the answer is true |
| Delivery in the renderer (`useExternalCommandQueue.ts`, `useExternalApiCommands.ts`) | refs of a mounted hook: drain chain, processed lease ids, pending preview | drain, process, acknowledge, nack, listen, unmount, start a preview | each command executed once and in order, lost only when given up; a preview starts once |
| Local API runtime (`local_api_runtime/`, `main.rs`) | listener, connection manifest on disk, instance id | start, serve, shutdown, crash | the manifest describes the server that listens |
| MCP server (`mcp-server/src/`) | none between calls | load manifest, check process, POST, retry once after 401 | no request repeated that may have been admitted |
| Library database, samples and shelves (`core/src/db`, `core/src/manager`) | SQLite tables with an open transaction during a scan | insert, scan, re-scan, classify, license, move, delete, clear, collect | a scan is all or nothing, an id means the sample it was given for, typed data survives re-scans |
| Library database, MIDI (`db/operations/midi.rs`) | files, tags, one link per file | insert, delete, clear, tags, assignments | a file has one tag at most, and the one that was given |
| Migration (`core/src/manager/migration*.rs`) | live database, staged copy, rollback copy, target | export, import, tidy up | a failed import leaves the old library, an export is whole |
| Analysis pool (`core/src/threading/mod.rs`) | queue, workers, one writer thread | queue, work, write, drop | every result is written, reported, or dropped for a known reason |
| Provider import (`src-tauri/src/providers`) | one permit, private staging directory, download folder | stream, unpack, preflight, promote, roll back | nothing overwritten, nothing left behind |
| Provider browser (`ui/src/hooks/providerBrowserLifecycle*.ts`) | intent number, operation queue, owned surfaces | select, leave, return, settings, mode, folder | the surface on screen is the one last asked for, and no other floats |
| Freesound screen (`useFreesoundWorkspace.ts`) | request number, credential status, preview URL | search, preview, download, key | busy exactly during its request, no URL leaked |
| Sample list (`ui/src/hooks/sampleState`, `components/SampleList`) | rows, offsets, filters, selection, dialogs, snapshot of results | search, page, jump, trash, edit, select, drag out | the list belongs to the current query, each row once, the selection has its row |
| Search text (`search_dsl.rs`, `searchDsl.ts`) | none | parse and match, twice | what the core finds for a text the list shows |
| Other screens (`discovery`, collections, labels, MIDI, similar, edit forms, scan) | rows, calls under way, flags | queries, mutations, dialogs | late answers do not show, flags end, the newest save holds |
| Sound (`PlayerBar`, `PitchShiftControl`, `useDiscoveryAudio`, `midi_playback.rs`) | shared audio element, object URLs, audio graph, player process | play, stop, load, change, compare | what sounds is what the screen says, and it can be stopped |
| Audio analysis, C interface, presentation | | | left out, see section 7 |

How they interact. The MCP server finds the API through the manifest file and
sends HTTP requests. A handler takes the manager mutex (shared with all Tauri
commands of the UI), then the queue, then emits the wake event. The renderer's
listener drains the queue by IPC calls; a drained command changes the sample list,
the collections or the player. The screens call the host by IPC; each call is
answered in a later step, and synchronous Tauri commands are answered in the order
they were sent. The host keeps the library in one SQLite database behind the
manager's mutex, except for the analysis pool, which writes by a connection of its own, and
provider imports, which only touch files.

The hard behaviours are of five kinds: producers and consumers that share the queue
(sections *queue*, *API*, *delivery*); processes that start and end beside each
other (*runtime*); answers that arrive after the state they were asked for is gone
(every screen); operations of several statements or files of which one fails, or
between which the program ends (*library*, *migration*, *import*); and resources
that outlive the component that made them (object URLs, listeners, native surfaces,
player processes). `PROJECT.json` lists them one by one as hazards, at their lines.

## 2. Modules

| Module | Models | Composition |
|---|---|---|
| `CommandMailbox` | what the queue promises: a bounded mailbox of accepted commands | abstract specification |
| `UiCommandQueue` | `external_commands.rs`, one action per method | extended by the next two |
| `LocalApiActions` | the handlers that queue a command, step by step, with the library rows they use | queue + handlers + UI edits |
| `CommandDelivery` | `useExternalCommandQueue.ts` as the consumer of the queue | queue + renderer instances |
| `LocalApiRuntime` | `local_api_runtime/`, `main.rs`, `httpClient.ts`: how a client finds and reaches the API | processes + file + client |
| `ExternalPreview` | the preview half of `useExternalApiCommands.ts` with the key, the ref and the props of the bar in `AppView` | extends `PlayerBar` |
| `UiBase` | the absent value and the bound on calls under way | extended by the screens |
| `SampleSearch` | the list: searches, pages, jumps, selection | extended by the next |
| `SampleWorkspace` | trashing, edits, clears, imports, results of a client, over the list | extends `SampleSearch` |
| `ProviderBrowser` | intents, operation queue, native surfaces | hook + backend |
| `Collections`, `Labels`, `LibraryScan` | the sidebar, the two label managers, the jobs that change the library | screens |
| `Discovery`, `DiscoveryAudio` | the discovery screen: rows, projects, rules; previews and comparisons | screens |
| `FreesoundWorkspace` | the Freesound screen with its credential form | screen + key file |
| `MidiLibrary`, `TagEdit`, `MidiPlayer` | the MIDI list, the tag dialog, the player process | screens + host |
| `PlayerBar`, `PitchShift` | the bar of the selected sample with the shared audio element; the pitch control's audio graph | screens |
| `SimilarSearch`, `EditForms` | the details panel; the two edit forms | screens |
| `ListSelection`, `DragOut` | moving through the list; dragging rows with their edits | screens |
| `SearchLanguage` | both readings of the search text, with the mapper in between | pure, over states of a row |
| `SampleStore`, `MidiStore` | the tables of samples, shelves, MIDI files and tags | backend |
| `LibraryMigration`, `ProviderImport`, `AnalysisPool` | export and import; a provider's archive; the pool | backend |
| `UiCommandQueueProofs`, `CommandProofs`, `LocalApiProofs`, `SampleWorkspaceProofs`, `ProviderBrowserProofs`, `ScreenProofs`, `LibraryProofs`, `ComponentsProofs` | section 5 | extend what they prove about |
| `MCLocalApi`, `MCLocalApiActions`, `MCCommandDelivery`, `MCLocalApiRuntime`, `MCSampleWorkspace`, `MCProviderBrowser`, `MCComponents` | constants for TLC | section 3 |

Conventions. A handler runs to its first `await` in one action, which keeps what the
handler has read in a record of the call; the rest runs in the action that takes the
answer, so everything else may happen in between. Effects that a state change
schedules are part of the step of the change. Where a request carries a number that
is compared with the newest one, its record keeps whether it still is the newest.
Calls of asynchronous commands are a set and are answered in any order; calls of
synchronous commands are a sequence, because the host runs them one after the other
on its main thread. A definition whose comment begins with *Bug* is not part of the
specification: it is a plausible mistake in the code, to which a property must be
sensitive.

### UiCommandQueue

The variables are the fields of `UiCommandQueueState`, plus `reservations`, the
threads that own an active `UiCommandReservation` (its `active` flag). No method
holds the mutex across a call, so each is one action: `Reserve`, `Commit`,
`CancelReservation` (the drop of an active reservation), `Claim`, `Acknowledge`,
and `Nack`, which is `Discard` or `Requeue`. A method that changes nothing (queue
full, unknown id) is the guard of the action that does. `enqueue` and
`enqueue_after` are sequences of `Reserve` and `Commit` and the composing
modules put their steps together. `next_id` wraps at 2^64 in the code; the model
has no wrap, because `MaxCommands` bounds it far below.

### LocalApiActions

A thread stands for the blocking task of one request. Its steps are the points at
which another thread may run: lock to validate, validate and unlock, take a slot,
lock to write, write and unlock, commit, respond. `show_samples_in_app_handler`
and `preview_sample_handler` go from the slot to the commit;
`add_to_collection_handler` writes in between (`enqueue_after`). The outcomes are
those of `action_error_response` and of the error arms, including a poisoned
manager and a panic inside the write. Of the database the model keeps what the
handlers depend on: the ids that exist and the members of the collection with their
positions, changed by the UI (`DeleteSample`, with the cascade, and `InsertSample`, which may reuse
an id). Two decisions of the model: the unlock of a failed write and the drop of
the reservation that follows it are one step (no handler observes the
difference: between them the slot is merely taken a little longer), and one
collection stands for all. `selected_id` of `ShowSamples` is left out: nothing
depends on it before the renderer. All requests start from ids that passed
parsing (1..100 distinct positive ids).

The handlers that write without a command are in the model of the tables they write:
`update_midi_tags` and `create_midi_tag` in `MidiStore` (`BeginSetTags` to
`AnswerTags`, `InsertMidiTag`), `update_sample_instruments` in `SampleStore` (`UpdateInstruments`).
`create_instrument_type` inserts one name and is left out. No screen is told of these
writes: the labels and tags of a screen stay as they were until it asks again, and the
models of the screens that show labels assume that only the screens change them.

### CommandDelivery

A renderer is one mounted instance of the hook. `step` says which await its
running drain is at, so that wakes, commits, unmounts and reloads come between
any two: `StartDrain`, `ClaimServed` or `ClaimFails`, `InspectClaim` (the mounted
check after the await), then for each lease `StartLease`, the handler
(`HandlerCompletes`, `HandlerReturnsLease`), and the settling call (`AckServed`,
`NackServed`, `SettlementLost`). `drainDue` is one flag: drains that are chained
behind the running one all do the same from the same state, so more than one
pending drain adds nothing. An `Unmount` keeps the promises running (as React
does when an uncaught render error removes the tree; there is no error boundary),
a `Reload` kills them; calls that were sent before it may be served after it
(`orphans`). `WakeLost` is a client that disconnects before the handler reaches
its wake, or an emit that fails, which the handler ignores.

The handlers of `useExternalApiCommands.ts` are abstracted to what the queue
protocol sees of them: they throw, ask for a requeue, or dispose of the lease
with `ack`. Left out of the model: leases of an unknown type (the host sends none), the double
mount of React's StrictMode in development builds (one instance whose effect runs
twice; its cleanup sets the mounted flag to false and the second effect sets it
back), and the moment between the registration of a listener and the answer that
lets an unmounted instance dispose of it.

### LocalApiRuntime

An instance is one process of the app. `life` follows `start_local_api_with_router`
(bind, clean up, publish and serve, each of which may fail and leave the app without
a local API) and `shutdown` (signal, stop listening, read the manifest, remove it);
`Crash` may come at any point and frees the port but not the file. The manifest is
replaced by a rename, so writing it is one step. Token, pid and instance id are new
with each start, so the model writes the instance itself into the file; that a pid
can be reused shows in `CheckProcess`, which may let a dead instance's manifest pass.
A call follows `postJsonWithRetry`: load, check the process, send, and after a 401
reload once. A request that is admitted here is a `Receive` of `LocalApiActions`. A
connection made between the bind and the start of the server waits; a timeout or a
lost connection is `Fails`, also after the admission. `Drop` of the runtime repeats
`shutdown`, which then finds nothing to do.

### ExternalPreview

The refs of `useExternalApiCommands.ts` (`pendingPreview`, `stoppedPreview`,
`awaitingPlayer`), its state `previewSampleId`, the selection and the bar that is
mounted for it. `WakePreview` freezes what the closures of a drain see: `playerBarRef`
is a new object with each handle (`useAppRefs.ts`), so a drain knows the bar of the
render in which it was woken. `BeginPreview` goes up to the await of
`get_samples_by_ids`, `PreviewFound` from there to the end, with `handleSampleSelect`.
Rendering is `UnmountBar`, `MountBar` and `RenderAutoPlay`; each calls the ref, and so
does each change of `playing`, which makes a new handle (`BarMoves`).
`PreviewEffect` runs when the bar on screen is that of the selection.
A new bar empties the source of the shared element, and the failure of the empty source
is an event of its own (`EmptySourceFails` of `PlayerBar`): a `play()` before it waits
and is refused by it, a later one is refused at once. Left out: `rejectedPreviewSampleIdRef`, since this bar
always has `playFromStart`, and the Discovery screen, which hides the bar.

### SampleSearch and SampleWorkspace

`SampleSearch` is the list with its offsets, filters, `searching`, the selection and
the calls of `useSampleSearchPagination` and `useSamplePathLoading`. A call is sent, is
read by the backend in a step of its own (`ReadPage`), and is answered later, in any
order; the branches of the `Answered` actions are those of the handlers' request
numbers. `SampleWorkspace` adds jobs (trash, clear, edit) that write first, then search
again with the text and facets of the click, then fetch the paths of the sidebar, and
only then deselect and close; and the results of a client, with the snapshot that the
back button restores. Here the writes of one job are one step: which value reaches which
target, with its failures, is `EditForms`. An import (`Import`) puts in a row behind
the back of the list.

### ProviderBrowser

The refs of `providerBrowserLifecycle.ts` (owned surface, pending reconcile, mode
switch, `leavingWebRef`), the state of the screen, and the native surfaces that exist.
The queue of promises runs one operation at a time; `OpStep` is the operation at its
head, from one await to the next, and users go on between. Native calls may fail.
`Frame` is the animation frame after which the viewport is measured. Left out: history
navigation and addresses, downloads and their status, the unmount of the whole hook
(the application never does), and hidden surfaces as opposed to closed ones.

### The other screens

* `Collections`: list and member calls answered in any order, with the commands of the
  local API handled in between, and an import that replaces the library.
* `Discovery`: queries with pages, the load of projects and rules, one mutation at a
  time. Left out: drafts of a rule, dragging. `DiscoveryAudio`: the version number of
  `useDiscoveryAudio` and the slots of the comparison. Left out: offsets and the display
  of levels.
* `FreesoundWorkspace`: `Serve` steps read and write the key file before the answer;
  the workspace and the settings share one hook. Left out: opening the website, the
  refusal of a download without a folder, the service itself.
* `Labels`: two dialogs over two tables; `LabelsNext` takes their calls in order.
* `MidiLibrary`: searches, pages, jumps and deletions without request numbers, over a
  sequence of calls. Left out: `loadAroundMidi`, which nothing calls, and the filters
  by tempo and key, which only hide rows. `TagEdit`: rows carry names of tags, the
  dialog numbers. `MidiPlayer`: `play_midi` runs beside the other commands and kills
  and starts in two steps (`PlayKills`, `PlayStarts`).
* `PlayerBar`: the two effects of `usePlayerBarAudio` with their cleanups (`PathEffect`,
  `LoadAudio`, `CleanUpLoad`), the element with the events that are queued and
  not yet dispatched, and the waveform. Taking the source away (`audio.src = ""`) queues an
  `error`; on each mount it reaches the `onerror` of the load that has begun meanwhile,
  which ends `loading` while the file is still being read, and starts the timer of the
  error message, until the metadata of the file take both away. The element and WaveSurfer are external:
  modelled from how the hooks use them and, for `play`, `pause`, the load of a source and
  the order of events, as the HTML standard describes. Left out: positions, volume, trim
  start, the region that loops. `PitchShift`: setups that overlap, and caches that
  outlive the panel. Left out: the processing of the sound.
* `SimilarSearch`: the synchronous search and the two uses of its answer.
  `EditForms`: overlapping saves that write target by target. The playback type is one
  of two texts there.
* `ListSelection`: effects run with the change that caused them; the keyboard's delay is
  a timer. Left out: scrolling and focus. `DragOut`: settings kept by id and path, files
  by id and settings, a cache that outlives a row; ids that SQLite gives anew. Left out:
  what is recorded of a drop; fades and gain are one level.
* `LibraryScan`: jobs of one call after another that share flag, progress and prompt.
  Left out: what the lists show after a reload, `scanned`, a `listen` that fails.
* `SearchLanguage`: a text is a sequence of clauses as `tokenize` cuts it; `CoreFinds`
  and `ListKeeps` are the two readings of it, `MapRowToSample` the conversion
  in between. Left out: characters, normalisation and the fuzzy ranking, names that
  contain a clause literally, the other filters of the list.

### The backend

* `SampleStore`: what is on disk, and what the connection sees while a transaction is
  open. `ScanFile` is one insert or update inside a scan's transaction, `FinishScan` its
  commit, `CommitFails` a commit that fails and leaves the transaction open, `RestartStore`
  the end of the program. `IsNextRowId` is SQLite's choice of an id (no
  AUTOINCREMENT). Left out: the full-text table, which no search reads; embeddings;
  positions, notes and status of members; the file that a move renames first.
* `MidiStore`: rows, tags, links, and `update_midi_tags` with the two statements of an
  assignment, each committed by itself. The answer says whether it succeeded and nothing
  else: on a failure `action_error_response` has no count. Left out: what the analysis
  finds in a file.
* `LibraryMigration`: each step of an export and an import may fail, and the program
  may end between two; a copy is its content, its schema, and whether all of it is
  there. Left out: the two renames where a file cannot be replaced by one, the sidecar
  files of the log, an export into the library's own folder.
* `ProviderImport`: permit, stream, unpacking, preflight over portable names, copy
  and rollback of files, one by one, while other programs create and remove files.
  Left out: sizes, signatures and addresses (an archive may always fail); other
  programs leave alone what is being copied.
* `AnalysisPool`: where each task is, and whether the writer lives.

## 3. Runs

| Run | Instance | Question | Result |
|---|---|---|---|
| `local_api` | queue: 2 threads, 2 commands, capacity 3, 3 retries, 5 commands; runtime: 3 starts, 2 calls; preview: 2 samples, 2 commands | `CapacityBound`, `ReservationsAccounted`, `OneHome`, `ImplementsMailbox`; `ManifestNamesListener`, `DiscoverableUnlessOvertaken`, `AdmittedOnce`; `PreviewKept` | holds, 2 969 318 states |
| `api_actions` | 2 threads, capacity 1, 1 retry, 3 requests, 2 samples | `WriteKeepsItsSlot`, `RefusedLeavesNoTrace`, `MembersSound`, `NothingHeldWhenAnswered`, `EveryRequestAnswered` | holds, 510 790 states |
| `delivery` | 1 thread, 2 commands, capacity 2, 1 retry, 2 renderers, all faults | `OncePerRenderer`, `AdmissionOrder`, `NoSilentLoss` | holds, 2 054 336 states |
| `delivery_liveness` | 1 command, 1 retry, 2 renderers, all faults, fairness | `SettledIfDrainsRecur` | holds |
| `sample_list` | 3 rows, pages of 2, 2 texts, 3 calls, 1 job, 3 acts of the user behind the list, fairness | `NoDuplicateRows`, `ActionableRows`, `FlagsMatchCalls`, `SelectionConsistent`, `QuietListComplete`, `WorkspaceSettles` | holds, 290 402 states |
| `provider_browser` | 2 providers, 2 folders, 2 queued operations, fairness | `NoFloatingSurface`, `OwnedIsOpen`, `RootCurrent`, `WantedOpens` | holds, 177 424 states |
| `components` | 21 screens and backend parts, one at a time | `FlagsMatchWork`, `NothingLeaks`, `ShownIsAsked`, `EditsHold`, `SoundIsOwned`, `LibraryKept`, `WorkAccounted` | holds, 1 767 970 states |
| `nack_without_wake` | 1 command, 1 renderer, failing handlers, fairness | `SettledWhileListening` | violated: finding 1 |
| `reload_repeats` | 1 command, 2 renderers | `CompletedOnce` | violated: finding 2 |
| `removal_race` | 3 starts, 2 calls | `CleanupLeavesForeignManifest` | violated: finding 3 |
| `provider_departure` | as `provider_browser` | `RestoredAfterSettings` | violated: finding 4 |
| `preview_unheard` | 2 samples, 2 commands | `PreviewHeard` | violated: finding 5 |

Each run that checks safety invariants also checks one type invariant.

Runs with a focus. `local_api` and `components` put together specifications that share
no state in the models: a variable `focus`, chosen at the start, names the one that
moves. Each is explored in full, exactly as it would be by itself, and
a property of the run says of each specification what must hold of it
(`focus = "store" => SavedUnlessScanning /\ ...`). The names at the right of those
implications are defined, with their comments, in the modules. While the project was
built, each of these parts was seen to fail under a mistake of its own in its module;
`PROJECT.json` keeps one such mistake per property of the run.

Bounds. `MaxCommands` ends the supply of ids, `MaxRequests` that of requests,
`MaxRenderers` that of mounts; all three are guards of the action that would go
beyond. Capacities are below the number of commands, so that the queue is full in
many states and a slot is contended for. Two threads are enough for a race for the
last slot; two commands are the least that can be reordered, and the 1-retry
budget of `delivery` lets a command be requeued once and then discarded. The run
of the queue alone has the real retry budget of 3. Two renderers are the least
that let a reload or a remount happen. Three starts let one process end while a
second starts and a third crashes; two calls see different manifests at one time.

`MaxCalls` is the number of calls a screen may have under way: 2 in `components` (the
least that overtake each other; `PitchShift` was also checked with 3, and `DragOut` also
with two rows), 3 in `sample_list`, where a search, a page and a path load meet, and 1 in
`ExternalPreview`, where the bar is keyed by the sample and an older read has no one to
answer. Pages have half the rows and more, so that there is always a second page, and
libraries have three rows, so that a deletion between two pages shifts one.
`MaxActs` bounds the acts of the user that go on beside the list, `MaxJobs` the dialogs that were
confirmed, `MaxOps` the queued operations of the provider browser (two wait while a
third runs), `MaxPreviews` the commands of a client, `MaxTakes` and `MaxAnnounced` the
analyses of a file and the announced changes. `Tabs`, `Entries`, `Midis`, `Paths`,
`Names` and the like are sets of two or three values, which are only compared, except
that names of files collide when their case is the only difference, and rows of
`SearchLanguage` are chosen to differ in each field the clauses can ask for.

Deadlock is checked in `api_actions`, in the runs of `CommandDelivery` and in those of
`ProviderBrowser`. The other runs may stop: once every process has ended and every
call is over, a finite supply of commands is used up, or a pool was shut down.

### Properties worth reading

* `WriteKeepsItsSlot`: a collection change that is durable has its notice queued or
  its slot reserved. Fails if the handler only looks for room before it writes.
* `RefusedLeavesNoTrace`: whatever refuses a request, at any step, nothing was
  written or queued.
* `NoSilentLoss`: an action property; a command leaves the queue because a renderer
  completed it or its retry budget was used up, across reloads, lost calls and late
  calls of a dead page.
* `AdmissionOrder`: nacks reverse the deque, yet commands start in the order they
  were accepted, because `claim` answers in the order of the ids.
* `SettledIfDrainsRecur`: with recurring drains every accepted command is settled.
  The premise is needed, as finding 1 shows.
* `DiscoverableUnlessOvertaken`: an instance that serves can be found through the
  manifest, except after one named race; failed starts, crashes and late shutdowns of
  other instances do not hide it.
* `AdmittedOnce`: the client's own retry never repeats a request that a server let in,
  because only a 401 is retried.
* `QuietListComplete`: once all answers are in, the list is the beginning of what the
  text and the facets ask for, in order, and what it lacks can still be loaded, although
  searches and pages overtook each other. The search that ends a trashing or an edit, and
  that of a restored list with another facet, count like the user's. Its premise
  (`disturbed`, a history variable) leaves out what the code does not do, see *Faults*.
* `NoDuplicateRows` has no such premise: no row is shown twice, ever.
* `NoFloatingSurface`: once the queue is empty, the surface that is open is the one the
  interface shows, in its mode, whatever was clicked while it opened; `OwnedIsOpen`
  holds at every moment: what the references call open has a surface.
* `ScanAllOrNothing`, `SavedUnlessScanning` (part of `LibraryKept`): a scan that ends,
  fails or is cut off by the end of the program leaves all of its rows or none; without an
  open transaction what the connection sees is on disk, and a transaction is open during
  a scan only, or after a commit that failed.
* `TagAnswerTrue` (part of `LibraryKept`): success means that every file of the request
  has its tag; after a failure, whose answer tells nothing, a proper beginning of the
  request is done. In both cases no other file was touched.
* `ImportTellsTruth` (part of `LibraryKept`): an import that is answered as done gave the
  folder's library, one answered as failed left the old one, or, if its undoing or its
  tidying up failed, the folder's as a whole; never a mixture.
* `OverlayIsWork`, `LoadingEnds` (parts of `FlagsMatchWork`): a flag that blocks the
  window or a button never outlives the work it stands for, however jobs overlap and
  whatever events reach the handlers of a newer load.
* `OldLibraryKept` (part of `LibraryKept`): until an import is through, the library it
  replaces is in its place or in the rollback copy, at each step, so neither an error nor
  the end of the program loses it.
* `NothingOverwritten`, `FailedLeavesNothing` (parts of `WorkAccounted`): a provider's
  import, with other programs in the same folder.
* `FoundIsShown` (part of `ShownIsAsked`): the list hides no row that the core found for
  the same text. The exceptions are in its premise, because the code has them: the
  favourites, which only the list knows, numbers that only the core can read (`140x`),
  and instruments that the mapper renames.

### Faults that properties leave out

Some properties hold only up to a fault that the code has. Each is in the model, so
each property has the exception that the run forces upon it and no other; a history
variable records the fault, and the property speaks of all behaviours without it.

| Fault, in the code | Property | Exception |
|---|---|---|
| a `COMMIT` that fails is not rolled back (`scan.rs:153`) | `SavedUnlessScanning` | an open transaction without a scan after it (`commitFailed`) |
| the rollback copy is deleted also after an undo that failed; an import whose copies cannot be removed is reported as failed (`migration.rs:128-155`) | `ImportTellsTruth` | the folder's library instead of the old one (`undoFailed`, `tidyFailed`) |
| the writer of the pool may be dead while `queue()` answers `Ok` (`threading/mod.rs:138`) | `PoolDrained` | pools whose writer lives |
| a page that a search overtakes is appended to the newer list (`useSampleSearchPagination.ts:131`), a jump leaves a gap, a follow-up search overrules a text typed after the click | `QuietListComplete` | until the next search (`disturbed`) |
| the first of two overlapping jobs to end clears the overlay of the other (`useScanOperations.ts:59`) | `OverlayIsWork` | that a job has its overlay, after an overlap; not that an overlay has a job |
| a re-scan unlistens only if everything succeeded (`useScanOperations.ts:81`) | `ListenersReleased` | one listener for each re-scan that failed |
| a save of the key that was given up may write after the status was read (`useFreesoundWorkspace.ts:136`) | `CredentialCurrent` | until the next answer (`astray`) |
| the file of a drag is cached under an id that SQLite may give anew (`SampleRow.tsx:56`) | `DraggedIsWanted` | ids that had another file (`reusedIds`) |
| two `play_midi` that overlap start two processes and know one (`midi_playback.rs:117`) | `MidiSoundOwned` | after such an overlap (`playsOverlapped`) |
| a path that returns before the timer is not loaded again (`usePlayerBarAudio.ts:47`) | `LoadingEnds` | such a bar (`returned`), until the path changes |


### Findings

1. *`nack_without_wake`.* A lease that is nacked (its handler threw) is pending again,
   but no drain is scheduled for it. The wake event is emitted only by handlers of later
   requests and the UI never calls `emit_ui_command_wake`. The documentation says the
   renderer executes accepted actions asynchronously.
2. *`reload_repeats`.* The set of processed leases is lost on reload while the queue
   keeps the lease; a command whose acknowledgement did not arrive is executed again,
   where the queue's tests speak of acknowledging it idempotently.
3. *`removal_race`.* `remove_manifest_if_owned` checks and removes in two system calls
   after the port was released. A new instance that publishes in between loses its
   manifest and is not found until it is restarted, although a test of that function is
   named for the opposite. The window is short; the effect lasts.
4. *`provider_departure`.* When a newer intent overtakes the close of a surface,
   `leavingWebRef` stays set (`providerBrowserLifecycle.ts:178`), although nothing is
   being left any more. In the run a provider is open, the user starts to leave, opens the
   settings before the surface is closed, and closes them again: the provider is still the
   active one and the web view is still on screen, but its surface is not opened again,
   where a test of the hook says that closing the settings restores it.
5. *`preview_unheard`.* The preview of a client starts when the bar's handle appears,
   which may be before the file is read. The element refuses to play and the call is
   not repeated; when the file has loaded it stays silent, because the bar's own
   automatic start is off for the sample of a preview. The test of this hook counts the
   calls of `play` only, and `mcp-server/README.md:101` says the preview is started.

A further remark has no run: the documentation says that commands remain pending
while the renderer is unavailable (`docs/integrations/mcp.md:69`), but a renderer
that unmounts again and again during claims uses up the retry budget, and the
fourth nack discards the command (`NoSilentLoss` allows exactly this).

## 4. Fairness

* `LocalApiActions!ActionsFairness`: weak fairness of each request's steps. A blocking task
  is an operating-system thread of its own; it waits only for the manager mutex,
  whose other holders do finish. Requests are finite in number, so the mutex is
  eventually free for good and weak fairness is enough. Clients, the UI and the
  renderer are not assumed to do anything.
* `CommandDelivery!Fairness`: weak fairness of a handler's wake and of each living
  page's drains (the browser runs the continuation of a settled promise), strong
  fairness of the service of claim, acknowledge and nack calls: an IPC call that is
  made again and again is not lost each time. No fairness for handlers succeeding,
  for mounting, or for anything that would wake the renderer; the liveness property
  takes recurring drains as its premise instead.
* `SampleWorkspace!Fairness`: weak fairness of the backend's reads and writes, of the
  answers' arrival and of the steps of a job. The host answers every call, with an
  error if need be, and the event loop resumes every handler. Nothing is assumed of the
  user. `WorkspaceSettles` says that the flags then end.
* `ProviderBrowser!Fairness`: weak fairness of the animation frame and of the
  operation at the head of the queue: frames fire while the window exists, and the
  backend answers the native call that an operation waits for. `WantedOpens` follows.
* `MidiSpec` and the other screens are checked for safety.

## 5. Proofs

`UiCommandQueueProofs` proves `QueueSpec => []QueueInv`, and from it the four
parts (`QueueTypeCorrect`, `CapacityRespected`, `NoLeakedReservation`,
`EveryCommandHasOneHome`), for all `Threads`, `Commands`, `Capacity`,
`MaxRetries` and `MaxCommands` that satisfy `QueueAssumption` (the threads are a
finite set, the numbers are natural).

None of the parts is inductive alone, and together they are: `Commit` and
`CancelReservation` decrement `reserved`, which stays natural only because it
counts the reservations; a claim keeps the size of the queue only because the
pending ids are distinct, disjoint from the leased ones and filed under
themselves (`OneHome`); and `OneHome` survives a commit only because every id that
is out is below `next_id`. The proof has one lemma per method (`ReserveInv` to
`RequeueInv`) on top of lemmas about sizes (`OutstandingSize`, `SettledInv`) and
about what a claim does to the map (`ClaimedProperties`).

The same module proves `QueueSpec => ImplementsMailbox`: a commit is
`Accept`, a claim is `Present`, an acknowledgement or a nack is `Settle`, and
reservations and cancellations are stutters. The guard of `Accept` (there is
room) holds although a commit tests nothing: the reservation counted for it, by
`CapacityBound` and `ReservationsAccounted`.

`LocalApiProofs` proves `Spec => []RuntimeInv` for any number of starts and
calls, and from it the properties of `local_api` about the runtime.
`ManifestNamesListener` needs that only
the holder of the port publishes, and that a cleaned instance finds no file until it
does. `DiscoverableUnlessOvertaken` needs that an instance which is about to remove
its manifest and one that serves can coexist only if the latter was overtaken: an
instance that reads its own name in the file proves that nobody else is serving.
`AdmittedOnce` needs that a call which may still send has not been admitted.

It also proves `PreviewSpec => []PreviewInv` for the preview of a client, over the
invariant of the bar (`BarInv`, below): a sample that waits for its start has not been
started (`StartsOnce`). `LocalApiEnds` then takes the composed specification of
`local_api` apart. A step of it is a step of the end in focus and leaves the variables of
the others alone, so each behaviour of it is one of the queue, of the runtime and of the
preview at once, and what is proved of one end holds of the three together
(`LocalApiTypeCorrect`, `PreviewsAreKept`, `LocalApiImplementsMailbox`).

`CommandProofs` carries the queue's invariant through the handlers
(`HandlersImplementQueue`: each step of a handler is a step of the queue or none, hence
`QueueSoundUnderHandlers`) and proves `HandlerInv`. Its parts tie the step a
request is at to what it holds: the slot (`SlotWherePromised`), the mutex
(`LockWhereTaken`), the answer (`UndecidedUntilAnswered`), the write
(`WriteBeforeNotice`) and the queue (`QueuedIsAccepted`). `WriteKeepsItsSlot`,
`RefusedLeavesNoTrace` and `NothingHeldWhenAnswered` follow from them, under
`QueueAssumption`, `RequestAssumption` and `CommandAssumption`. `MembersSound` has an
invariant of its own (`LibraryInv`): the members are finitely many, at places that are
natural numbers, so the largest place exists and what is added behind it takes none that is
in use. `LastPositionIsLargest` is the lemma about the `MAX(position)` of the statement.

The second half of `CommandProofs` does the same for the consumer (`QueueSoundUnderDelivery`) and
proves `DeliveryInv`, from which `OncePerRenderer` and the action property `NoSilentLoss`
follow. The lease that a drain is at is not processed yet (`HandlesTheNew`), what is being
acknowledged was completed (`AcksTheCompleted`), and what a renderer remembers as
processed it did complete (`ProcessedWasCompleted`), also in the calls that outlive a page.

`AdmissionOrder` takes a second invariant over the first, `OrderInv`. A claim answers in
the order of the ids; that such an order exists and what it presents is `InOrderProperties`,
about the ranks of finitely many numbers. The batch of a mounted renderer is ascending and
complete: an id below one of its leases was started before, or stands earlier in the batch
(`BatchesInOrder`). Completeness is what a nack needs, since it puts a command that was
started behind others in the deque; and it is claimed of mounted renderers only, because a
page that is gone may hold an older batch whose commands the next page has started again.
`StartedIsOld` and `ProcessedWasStarted` tie the batches to what other renderers did.

`SampleWorkspaceProofs` proves `Spec => []WorkspaceInv` for any library, page size and
number of jobs, and from it `NoDuplicateRows`, `ActionableRows`, `FlagsMatchCalls` and
`SelectionConsistent`. `NoDuplicateRows` alone is not inductive: a late page is merged into
a list that jumps, trashings and searches changed meanwhile, and going back restores an
older list. So the invariant also says that the snapshot was a good list (`UnderInv`), that
calls are told apart by their numbers and that there is at most one load per direction
(`CallsInv`), and that every row has its path (`ListInv`). That the database's order of the
ids is a sequence at all is a lemma about ranks (`SortedRows`). Besides the finite,
natural ids of `SearchAssumption` it needs that a client sends lists of ids
(`WorkspaceAssumption`). The types of the workspace follow from it (`WorkspaceTypes`).

`QuietListComplete` is the invariant `QuietInv` over that one. `Searched` says of a search
under way that the newest one asks for what the field and the facets hold; `Listing`, that
without a search and as long as nothing disturbed the list it is the beginning of what is
asked for, in order, and that a page under way asks for what comes next. A page may have
been asked for before the newest search; the proof shows that its number is then old and
its answer is dropped. Lemmas about beginnings of ordered sets say that a page after
the first `n` rows makes the first `n + PageSize`.

`ProviderBrowserProofs` proves `Spec => []ProviderInv` and from it `OwnedIsOpen`, for any
providers, folders and length of the queue. A window that opens closes the embedded
surfaces, also one that a reference still calls open. The invariant excludes it: no
operation that opens a window is queued in the embedded mode (`QueueOK`: a mode
switch that is queued before such an operation lost its intent when the provider was
chosen, and the list of sources to choose from is only shown without a viewport), and while
a surface opens in the embedded mode nothing else is recorded as open (`OwnActive`).

`NoFloatingSurface` and `RootCurrent` follow from `BrowserInv`, which accounts for each
surface at every moment. A native surface is the one the interface shows or an operation
that closes it is queued (`Accounted`, `WillClose`), and it has the current folder, or the
operation that follows a change of the folder is queued. That operations behind an intent
do not undo it, that at most one reconcile is pending, and that the operation at the head
knows which surfaces it may find (`HeadOpens`, `StaleOnly`), are the parts that make this
inductive. Only the last operation of the queue may be the one the user has just asked
for; the invariant says of each queued one what it will do when it is stale by then.

`ScreenProofs` has an inductive invariant for each of nine parts of the screens.

* Player bar (`BarInv`, `HeardInv`): an object URL belongs to the load that made it, a load
  that was overtaken gives its own back, and what the element plays was made of the path
  that is shown.
* Pitch shifter (`PitchInv`): of the setups that overlap, at most one is current and the
  others have let go of the element; the cached graph is the one the element is heard
  through.
* Audition (`AuditionInv`): what is awaited or compared was asked for with the matching
  that is set.
* MIDI player (`PlayerInv`): as long as no two `play_midi` overlapped, at most one
  process, and the one that is known, also between the kill and the start (`OnePlayer`).
* Freesound (`FreesoundInv`): at most one request, preview and status call is the newest.
  `CredentialFits` is the part to find: the form shows what is stored, or the newest call
  will tell it.
* Edit forms (`EditInv`): two saves under way are compared by the targets they have left.
  The later one has more left, or as many and a place behind in the host's sequence
  (`SavesInOrder`), so each target is last written by the newest save. The targets that are
  left are compared through their least elements (`LeastElement`).
* Tag dialog (`TagEditInv`): a row that is not stale tells the tag of its file, because
  file and row are written in one step; what other calls may leave behind is named.
* Label managers (`LabelsInv`): a list that is not the table's will be replaced by the answer
  of a call that is still under way, unless the last such call failed (`RefreshComes`).
* Search text (`LanguageInvariant`). Both readers go through the text clause by clause, so
  `ReadText` is a recursive function over its length. What it computes for a text of any
  length is an induction over data. It is done without an induction theorem: if a prefix
  were read wrongly there would be a shortest such prefix, and it is neither the empty one
  (`NothingTold`) nor one clause longer than a prefix that is read rightly (`OneMoreTold`).
  `Tells` is what the reading of a prefix has to say, in terms of its clauses;
  `CoreReadsText` and `ListShowsFound` compare it with the meaning of the text.

`LibraryProofs` has those of the backend and of the screens that list.

* `MigrationInv` (which copy is what at each step of an import), `PoolInv` (where a task
  is and who holds it), `ImportInv` (the rollback knows every file that was made),
  `StoreInv` (what is saved, what the connection sees and when a transaction is open) and
  `MidiStoreInv` (links, and how much of a request is done).
* Scans (`ScanInv`): that a job has its overlay holds only until two jobs overlap, so this
  half ties the flags to the jobs by kind and before that only (`AloneFits`); the listeners are as
  many as the jobs between their `listen` and their end, plus those that failed rescans left
  (`CountersFit`, over the cardinality of the slots).
* Discovery (`DiscoveryInv`): the newest query asks for the page behind those shown, of the
  tab, project and rule that are chosen; older ones are told by their mark.
* MIDI list (`MidiInv`): of each kind of call with a flag at most one is under way
  (`MidiFlagsInv`); the rows and every page under way list no file twice (`MidiTyped`); and
  as long as no call that replaces the rows is under way and no page went astray, the rows
  are the first of what the filter matches and a page under way follows them
  (`MidiCurrentInv`).
* Sample list (`ListInv`): `Before` orders any finite list of rows, ties included
  (`BeforeIsOrder`), so the neighbour that an arrow key goes to exists and is unique.
* Collections (`CollectionsInv`): every difference between the sidebar and the database is
  explained by the newest read (`ListComes`, `MembersCome`), by a change that was announced
  and not yet handled, or by a read that failed.
* Similar samples (`SimilarInv`): the last search under way is for what the panel wants.
  The recent samples are each there once after one is put in front (`RecentProperties`).
* Drag-out (`DragInv`): each file that is prepared or being prepared is the one its key
  stands for, as long as the id was not given to another file.

`ComponentsProofs` makes the eight properties of the run `components` theorems about
`ComponentsSpec` (`ComponentsTyped`, `ShownIsWhatWasAsked`, `LibraryIsKept`,
`WorkIsAccounted`, `SoundsAreOwned`, `FlagsAreTrue`, `NothingIsLeaked`, `EditsAreKept`):
`ComponentsMoveAlone` says that a step of it is a step of the component in
focus and leaves the others' variables alone, so each invariant is kept by its own steps
and by all others. That a focus leaves out interleavings between components costs nothing
here: the invariants of different components have no variable in common.

Assumptions. Each constant is of its kind, and numbers are natural, as in
`MigrationAssumption`, `ScanAssumption` and their like. The value `None`, which stands for
null or undefined, is none of the values a variable can hold otherwise (`TagAssumption`,
`EntriesAssumption`, `PreviewsAssumption`, `SoundsAssumption`, `ScanJobAssumption` and
others). Some say more:

* `PitchAssumption`: no shift is one of the shifts (`0`), which is why a bypassed graph has
  a pitch.
* `LabelsAssumption`: the table of labels begins with the built-in ones, so it is not empty.
* `ShelfAssumption`: a collection's id is a number, never `null`.
* `ListAssumption`: a list has finitely many rows, with numbers to sort them by.
* `SimilarAssumption`: the search answers with a list, not with `null`, for every sample
  whose embedding exists.
* `LanguageAssumption`: a row whose playback is a loop is of the kind loop, as `analyze_file`
  and `update_sample_classification` write both columns; an instrument is never `null`.

TLC evaluates each of them in a run.

Every safety invariant that a run checks is proved, and so are the action property
`NoSilentLoss` and the refinement `ImplementsMailbox`. Only model-checked:

* all liveness (`SettledIfDrainsRecur`, `EveryRequestAnswered`, `WorkspaceSettles`,
  `WantedOpens`): liveness under fairness and `ENABLED` are beyond the prover;
* the five runs that end in a violation, which are counterexamples.

The induction theorems of the library take an operator as a parameter and cannot be used
here. Where a fact about every length is needed (the ranks of a finite set of numbers, the
reading of a text, the order of a filtered list), the model defines the list by what is at
each place (`InOrder`, `Picked` in `UiBase`) or by a recursive function, and the proof takes
the least counterexample. No module declares a RECURSIVE operator, so each can be proved
about.

## 6. Plan

Done, in this order: the queue with its mailbox, handlers and renderer; the runtime; the
tables; migration, import and pool; the sample list; the provider browser; the other
screens and the sound; the proofs of the handlers, of delivery, of the library, of the
sample list and of the provider browser; those of the screens, and the composition of the
proofs along the runs with a focus; the sidebar, the label managers, the MIDI rows, similar
samples and the search text, and with them every safety invariant of the runs.

What could come next:

1. The file that `move_sample` renames, next to its row in `SampleStore`.
2. The sidecar files of SQLite's log in `LibraryMigration`.
3. An abstract specification of a paged list that `SampleSearch` and `MidiLibrary` both
   implement.

## 7. Not modelled

* *Audio analysis* (`core/src/analysis`, `core/src/embedding` and their like):
  floating-point signal processing without state or concurrency of its own.
* *C interface of the core* (`core/src/ffi`): wraps calls of the manager, has no state
  beyond the handle, and the application does not use it.
* *Presentation*: layout, styles, translations, icons, the display of waveforms, the
  onboarding and help texts.
* Authentication, parsing and schema validation of requests are pure checks before the
  first step of `LocalApiActions`; the schemas of the MCP tools are pure checks before a
  call of `LocalApiRuntime`.

What a modelled part leaves out is said in section 2.

## 8. Running

    tlc -workers 2 -config MCLocalApi.cfg MCLocalApi.tla
    tlc -workers 2 -config MCLocalApiActions.cfg MCLocalApiActions.tla
    tlc -workers 2 -config MCCommandDelivery.cfg MCCommandDelivery.tla
    tlc -workers 2 -config MCDeliveryLiveness.cfg MCCommandDelivery.tla
    tlc -workers 2 -config MCSampleWorkspace.cfg MCSampleWorkspace.tla
    tlc -workers 2 -config MCProviderBrowser.cfg MCProviderBrowser.tla
    tlc -workers 2 -config MCComponents.cfg MCComponents.tla

The runs that end in a violation:

    tlc -workers 2 -config MCDeliveryNoWake.cfg MCCommandDelivery.tla
    tlc -workers 2 -config MCDeliveryReload.cfg MCCommandDelivery.tla
    tlc -workers 2 -config MCRuntimeRemoval.cfg MCLocalApiRuntime.tla
    tlc -workers 2 -config MCProviderDeparture.cfg MCProviderBrowser.tla
    tlc -workers 2 -config MCPreviewUnheard.cfg ExternalPreview.tla

The proofs:

    tlapm UiCommandQueueProofs.tla
    tlapm LocalApiProofs.tla
    tlapm CommandProofs.tla
    tlapm SampleWorkspaceProofs.tla
    tlapm ProviderBrowserProofs.tla
    tlapm ScreenProofs.tla
    tlapm LibraryProofs.tla
    tlapm ComponentsProofs.tla
