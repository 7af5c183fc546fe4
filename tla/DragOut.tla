-------------------------------- MODULE DragOut --------------------------------
(***************************************************************************)
(* Dragging a row to another program with its edits: the settings of the   *)
(* selected sample (useSampleProcessingState.ts, sampleProcessing.ts), the *)
(* files that are rendered with them (prepare_processed_drag_file), and    *)
(* the list's cache of these files (fileDragOut.ts, SampleRow.tsx).        *)
(*                                                                         *)
(* The settings are kept by id and path, the files by id and settings.     *)
(* Times are whole seconds; the fades and the gain are one level.  Rows    *)
(* without a path cannot be dragged, and are not edited here.  What is     *)
(* recorded of a drop is left out.                                         *)
(***************************************************************************)
EXTENDS UiBase, Integers

CONSTANTS
  RowNumbers,   \* ids of the rows
  AudioFiles,   \* paths in the library
  Seconds,      \* how long each of them is
  TypedTimes,   \* what is typed as a time
  Levels        \* what is typed as a level; 0 leaves the sound as it is

ASSUME DragAssumption ==
  /\ None \notin RowNumbers \cup AudioFiles
  /\ Seconds \in Nat /\ TypedTimes \subseteq Int /\ Levels \subseteq Int /\ 0 \in Levels

VARIABLES
  pathOf,          \* pathOf[id]: the path of the row, None if it is unknown
  editedRow,       \* the selected row
  settingsByKey,   \* settingsByKey[<<id, path>>]
  preparedPaths,   \* files that the list keeps, each with its key
  preparing,       \* calls of prepare_processed_drag_file
  dragged,         \* what the last step handed over, and what it stood for
  reusedIds        \* ids that have had the audio of two files

settingsVars == <<editedRow, settingsByKey>>
dragVars == <<pathOf, settingsVars, preparedPaths, preparing, dragged, reusedIds>>

Settings == [start : 0..Seconds, end : 0..Seconds, level : Levels]

\* createDefaultSampleProcessingSettings.
Raw == [start |-> 0, end |-> 0, level |-> 0]

Clamp(t) == IF t < 0 THEN 0 ELSE IF t > Seconds THEN Seconds ELSE t

\* An end that is not after the start means the end of the file.
Params(settings) ==
  [settings EXCEPT !.end = IF settings.end > settings.start THEN settings.end ELSE None]

\* render_processed_wav refuses an end before the start; both are within the file.
Valid(params) == params.end # None => params.end >= params.start

SettingsOf(id) == settingsByKey[<<id, pathOf[id]>>]

\* The key of a row's file, and what its file should be.
DragKey(id) == <<id, SettingsOf(id)>>

Wanted(id) == [path |-> pathOf[id], params |-> Params(SettingsOf(id))]

FileFor(key) == {p \in preparedPaths : p.key = key}

-----------------------------------------------------------------------------
\* Editing the selected row.

EditRow(id) ==
  /\ pathOf[id] # None /\ id # editedRow
  /\ editedRow' = id
  /\ dragged' = None
  /\ UNCHANGED <<pathOf, settingsByKey, preparedPaths, preparing, reusedIds>>

Store(settings) ==
  /\ editedRow # None /\ pathOf[editedRow] # None
  /\ settingsByKey' = [settingsByKey EXCEPT ![<<editedRow, pathOf[editedRow]>>] = settings]
  /\ dragged' = None
  /\ UNCHANGED <<pathOf, editedRow, preparedPaths, preparing, reusedIds>>

\* One field at a time.
UpdateSettings(field, typed) ==
  /\ editedRow # None /\ pathOf[editedRow] # None
  /\ Store([SettingsOf(editedRow) EXCEPT ![field] = IF field = "level" THEN typed ELSE Clamp(typed)])

\* The buttons reset and clear: the defaults, or no entry, which reads as them.
ResetSettings == Store(Raw)

-----------------------------------------------------------------------------
\* Dragging.

Calls(id, drag) == [key : {DragKey(id)}, file : {Wanted(id)}, drag : {drag}]

Render(call) ==
  /\ call \notin preparing /\ Cardinality(preparing) < MaxCalls
  /\ preparing' = preparing \cup {call}

\* Pressing the button on a row renders its file ahead of the drag.
PrepareDragFile(id) ==
  /\ pathOf[id] # None /\ FileFor(DragKey(id)) = {} /\ SettingsOf(id) # Raw
  /\ \E call \in Calls(id, FALSE) : Render(call)
  /\ dragged' = None
  /\ UNCHANGED <<pathOf, settingsVars, preparedPaths, reusedIds>>

HandOver(id, file, wanted) == dragged' = [id |-> id, file |-> file, wanted |-> wanted]

StartFileDrag(id) ==
  /\ pathOf[id] # None
  /\ \/ /\ SettingsOf(id) = Raw
        /\ HandOver(id, Wanted(id), Wanted(id))
        /\ UNCHANGED preparing
     \/ /\ SettingsOf(id) # Raw
        /\ \E p \in FileFor(DragKey(id)) : HandOver(id, p.file, Wanted(id))
        /\ UNCHANGED preparing
     \/ /\ SettingsOf(id) # Raw /\ FileFor(DragKey(id)) = {}
        /\ \E call \in Calls(id, TRUE) : Render(call)
        /\ dragged' = None
  /\ UNCHANGED <<pathOf, settingsVars, preparedPaths, reusedIds>>

\* The file replaces one that another call has made for the key.
Prepared(call) ==
  /\ call \in preparing /\ Valid(call.file.params)
  /\ preparing' = preparing \ {call}
  /\ preparedPaths' = (preparedPaths \ FileFor(call.key)) \cup {[key |-> call.key, file |-> call.file]}
  /\ IF call.drag THEN HandOver(call.key[1], call.file, call.file) ELSE dragged' = None
  /\ UNCHANGED <<pathOf, settingsVars, reusedIds>>

\* The source is gone or cannot be decoded.
PrepareFails(call) ==
  /\ call \in preparing
  /\ preparing' = preparing \ {call}
  /\ dragged' = None
  /\ UNCHANGED <<pathOf, settingsVars, preparedPaths, reusedIds>>

\* The library is cleared and scanned again, or another is imported: SQLite gives
\* the ids anew, while the list keeps its files.
IdsGivenAnew(paths) ==
  /\ paths # pathOf
  /\ pathOf' = paths
  /\ reusedIds' = reusedIds \cup {id \in RowNumbers : pathOf[id] # None /\ paths[id] # pathOf[id]}
  /\ editedRow' = None
  /\ dragged' = None
  /\ UNCHANGED <<settingsByKey, preparedPaths, preparing>>

-----------------------------------------------------------------------------
DragInit ==
  /\ pathOf \in [RowNumbers -> AudioFiles]
  /\ \A a, b \in RowNumbers : a # b => pathOf[a] # pathOf[b]
  /\ editedRow = None
  /\ settingsByKey = [key \in RowNumbers \X AudioFiles |-> Raw]
  /\ preparedPaths = {} /\ preparing = {}
  /\ dragged = None /\ reusedIds = {}

DragNext ==
  \/ \E id \in RowNumbers : EditRow(id) \/ PrepareDragFile(id) \/ StartFileDrag(id)
  \/ \E field \in {"start", "end"}, typed \in TypedTimes : UpdateSettings(field, typed)
  \/ \E level \in Levels : UpdateSettings("level", level)
  \/ ResetSettings
  \/ \E call \in preparing : Prepared(call) \/ PrepareFails(call)
  \/ \E paths \in [RowNumbers -> AudioFiles \cup {None}] :
       /\ \A a, b \in RowNumbers : a # b /\ paths[a] # None => paths[a] # paths[b]
       /\ IdsGivenAnew(paths)

DragSpec == DragInit /\ [][DragNext]_dragVars

-----------------------------------------------------------------------------
File == [path : AudioFiles, params : {Params(s) : s \in Settings}]

\* Each variable of the list has its type.
DragTypeOK ==
  /\ pathOf \in [RowNumbers -> AudioFiles \cup {None}]
  /\ editedRow \in RowNumbers \cup {None}
  /\ settingsByKey \in [RowNumbers \X AudioFiles -> Settings]
  /\ \A p \in preparedPaths : p.key \in RowNumbers \X Settings /\ p.file \in File
  /\ \A c \in preparing : c.key \in RowNumbers \X Settings /\ c.file \in File /\ c.drag \in BOOLEAN
  /\ dragged = None \/ (dragged.id \in RowNumbers /\ {dragged.file, dragged.wanted} \subseteq File)
  /\ reusedIds \subseteq RowNumbers

\* What is handed over is the row's own file with the row's settings, however many
\* files were rendered meanwhile and in whatever order; the ids that had another
\* file's audio are left out, for their cached files are those of the other file.
DraggedIsWanted ==
  dragged # None /\ dragged.id \notin reusedIds => dragged.file = dragged.wanted

\* A key has one file, and no settings that can be made are refused.
FilesByKey ==
  /\ \A p, q \in preparedPaths : p.key = q.key => p = q
  /\ \A call \in preparing : Valid(call.file.params)
================================================================================
