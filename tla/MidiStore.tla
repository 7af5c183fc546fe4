------------------------------- MODULE MidiStore -------------------------------
(***************************************************************************)
(* The MIDI files and their tags in the library: midi.rs of                *)
(* core/src/db/operations and of core/src/manager, and the request         *)
(* update_midi_tags of the Local API.                                      *)
(*                                                                         *)
(* The manager's mutex is held for a whole request, but set_midi_tag is    *)
(* two statements, each committed by itself: the program may end in        *)
(* between, and the second may fail.  What the analysis finds in a file,   *)
(* and the full-text table, which no search reads, are left out.           *)
(***************************************************************************)
EXTENDS UiBase, Integers

CONSTANTS
  MidiIds, MidiTagIds,   \* row numbers
  MidiPaths,
  SeededTags, TypedTags, \* names of tags: those of seed_midi_tags, and those of users
  MaxAssignments,        \* how many files one request may name
  MaxInserts             \* bound of the model: rows ever inserted

VARIABLES
  midiRows,    \* midiRows[i]: the row, or None
  midiTagRows, \* midiTagRows[t]: the tag, or None
  links,       \* midi_file_tags
  unseeded,    \* names that the start of the program still has to insert
  tagRequest,  \* the request under way, or None
  lastRequest, \* history: the request that was answered last, if nothing changed since
  inserts      \* history: how many rows were inserted

midiTableVars == <<midiRows, midiTagRows, links, inserts>>
midiStoreVars == <<midiTableVars, unseeded, tagRequest, lastRequest>>

\* born, file and tagBorn are history: the insertion that made the row, and the rows
\* that a link was made between.
MidiRows == [path : MidiPaths, born : Nat]
MidiTagRows == [name : SeededTags \cup TypedTags, born : Nat]
Links == [midi : MidiIds, tag : MidiTagIds, file : Nat, tagBorn : Nat]

\* The API refuses a file that is named twice, and removes no tags; the dialog sets
\* or removes the tag of one file.  Either may name rows that are gone.
Assignments == [midi : MidiIds, tag : MidiTagIds \cup {None}]
TagRequests ==
  {r \in UNION {[1..n -> Assignments] : n \in 1..MaxAssignments} :
    Len(r) > 1 => /\ \A j, k \in DOMAIN r : r[j].midi = r[k].midi => j = k
                  /\ \A j \in DOMAIN r : r[j].tag # None}

Answers == [asked : TagRequests, before : SUBSET Links, success : BOOLEAN]
Underway == [asked : TagRequests, at : Nat, step : {"delete", "insert"}, before : SUBSET Links]

ASSUME MidiStoreAssumption ==
  /\ MidiIds \subseteq Nat /\ MidiTagIds \subseteq Nat
  /\ {MaxAssignments, MaxInserts} \subseteq Nat
  /\ None \notin MidiTagIds \cup MidiRows \cup MidiTagRows \cup Underway

Present(rows) == {i \in DOMAIN rows : rows[i] # None}

\* INTEGER PRIMARY KEY without AUTOINCREMENT: the number after the largest.
IsNextNumber(rows, i) ==
  (\A j \in Present(rows) : j < i) /\ (i = 1 \/ i - 1 \in Present(rows))

TagNames == {midiTagRows[t].name : t \in Present(midiTagRows)}

MayInsertMidi == inserts < MaxInserts /\ inserts' = inserts + 1

\* The manager is free; lastRequest tells only of the latest change.
FreeForMidi ==
  /\ tagRequest = None /\ unseeded = {}
  /\ lastRequest' = None /\ UNCHANGED <<tagRequest, unseeded>>

-----------------------------------------------------------------------------
\* The row of a path that is known keeps its number and its tag.
InsertMidi(path, i) ==
  /\ FreeForMidi
  /\ \A j \in Present(midiRows) : midiRows[j].path # path
  /\ IsNextNumber(midiRows, i) /\ MayInsertMidi
  /\ midiRows' = [midiRows EXCEPT ![i] = [path |-> path, born |-> inserts + 1]]
  /\ UNCHANGED <<midiTagRows, links>>

\* Bug: the foreign keys are not enforced.
LinksLeft(midis, tags) == links

\* ON DELETE CASCADE, for both ends of a link.
LinksWithout(midis, tags) == {l \in links : l.midi \notin midis /\ l.tag \notin tags}

DeleteRows(midis) ==
  /\ FreeForMidi
  /\ midiRows' = [i \in MidiIds |-> IF i \in midis THEN None ELSE midiRows[i]]
  /\ links' = LinksWithout(midis, {})
  /\ UNCHANGED <<midiTagRows, inserts>>

DeleteMidiRow(path) == DeleteRows({i \in Present(midiRows) : midiRows[i].path = path})

ClearMidiRows == DeleteRows(MidiIds)

InsertTagRow(name, t) ==
  /\ IsNextNumber(midiTagRows, t) /\ MayInsertMidi
  /\ midiTagRows' = [midiTagRows EXCEPT ![t] = [name |-> name, born |-> inserts + 1]]
  /\ UNCHANGED <<midiRows, links>>

\* Names are unique.
InsertMidiTag(name, t) == FreeForMidi /\ name \notin TagNames /\ InsertTagRow(name, t)

UpdateMidiTag(t, name) ==
  /\ FreeForMidi
  /\ t \in Present(midiTagRows) /\ name \notin TagNames
  /\ midiTagRows' = [midiTagRows EXCEPT ![t].name = name]
  /\ UNCHANGED <<midiRows, links, inserts>>

DeleteMidiTag(t) ==
  /\ FreeForMidi
  /\ t \in Present(midiTagRows)
  /\ midiTagRows' = [midiTagRows EXCEPT ![t] = None]
  /\ links' = LinksWithout({}, {t})
  /\ UNCHANGED <<midiRows, inserts>>

-----------------------------------------------------------------------------
\* set_midi_tag, once for each assignment of a request.

BeginSetTags(request) ==
  /\ tagRequest = None /\ unseeded = {}
  /\ tagRequest' = [asked |-> request, at |-> 1, step |-> "delete", before |-> links]
  /\ lastRequest' = None
  /\ UNCHANGED <<midiTableVars, unseeded>>

Assignment == tagRequest.asked[tagRequest.at]

\* The sender is told that all assignments are done, or only that the request failed:
\* how far it came is dropped.
AnswerTags(success) ==
  /\ tagRequest' = None
  /\ lastRequest' =
       [asked |-> tagRequest.asked, before |-> tagRequest.before, success |-> success]

NextAssignment ==
  IF tagRequest.at = Len(tagRequest.asked) THEN AnswerTags(TRUE)
  ELSE /\ tagRequest' = [tagRequest EXCEPT !.at = @ + 1, !.step = "delete"]
       /\ UNCHANGED lastRequest

RemoveOldTag ==
  /\ tagRequest # None /\ tagRequest.step = "delete"
  /\ links' = LinksWithout({Assignment.midi}, {})
  /\ IF Assignment.tag = None THEN NextAssignment
     ELSE tagRequest' = [tagRequest EXCEPT !.step = "insert"] /\ UNCHANGED lastRequest
  /\ UNCHANGED <<midiRows, midiTagRows, inserts, unseeded>>

\* The foreign keys are checked also by INSERT OR IGNORE.
InsertNewTag ==
  /\ tagRequest # None /\ tagRequest.step = "insert"
  /\ Assignment.midi \in Present(midiRows) /\ Assignment.tag \in Present(midiTagRows)
  /\ links' = links \cup {[midi |-> Assignment.midi, tag |-> Assignment.tag,
                           file |-> midiRows[Assignment.midi].born,
                           tagBorn |-> midiTagRows[Assignment.tag].born]}
  /\ NextAssignment
  /\ UNCHANGED <<midiRows, midiTagRows, inserts, unseeded>>

\* A row is gone, or the statement fails: the rest is given up, nothing is undone.
SetTagFails ==
  /\ tagRequest # None
  /\ AnswerTags(FALSE)
  /\ UNCHANGED <<midiTableVars, unseeded>>

\* The program ends and starts again.
RestartMidiStore ==
  /\ tagRequest' = None /\ lastRequest' = None
  /\ unseeded' = SeededTags
  /\ UNCHANGED midiTableVars

\* INSERT OR IGNORE.
SeedTag(name, t) ==
  /\ name \in unseeded /\ unseeded' = unseeded \ {name}
  /\ \/ name \in TagNames /\ UNCHANGED midiTableVars
     \/ name \notin TagNames /\ InsertTagRow(name, t)
  /\ UNCHANGED <<tagRequest, lastRequest>>

-----------------------------------------------------------------------------
MidiStoreInit ==
  /\ midiRows = [i \in MidiIds |-> None] /\ midiTagRows = [t \in MidiTagIds |-> None]
  /\ links = {} /\ unseeded = SeededTags /\ inserts = 0
  /\ tagRequest = None /\ lastRequest = None

MidiStoreNext ==
  \/ \E path \in MidiPaths : DeleteMidiRow(path) \/ \E i \in MidiIds : InsertMidi(path, i)
  \/ \E name \in SeededTags \cup TypedTags, t \in MidiTagIds :
       InsertMidiTag(name, t) \/ UpdateMidiTag(t, name) \/ SeedTag(name, t)
  \/ \E t \in MidiTagIds : DeleteMidiTag(t)
  \/ \E request \in TagRequests : BeginSetTags(request)
  \/ ClearMidiRows \/ RemoveOldTag \/ InsertNewTag \/ SetTagFails \/ RestartMidiStore

MidiStoreSpec == MidiStoreInit /\ [][MidiStoreNext]_midiStoreVars

-----------------------------------------------------------------------------
\* Each variable of the tables has its type.
MidiStoreTypeOK ==
  /\ midiRows \in [MidiIds -> MidiRows \cup {None}]
  /\ midiTagRows \in [MidiTagIds -> MidiTagRows \cup {None}]
  /\ links \subseteq Links /\ unseeded \subseteq SeededTags /\ inserts \in Nat
  /\ tagRequest = None \/ (tagRequest \in Underway /\ tagRequest.at \in DOMAIN tagRequest.asked)
  /\ lastRequest = None \/ lastRequest \in Answers

\* The tag of a file is one that was given to this file, though SQLite gives the
\* numbers of deleted files and of deleted tags to the next ones.
LinksMeant ==
  \A l \in links :
    /\ midiRows[l.midi] # None /\ midiRows[l.midi].born = l.file
    /\ midiTagRows[l.tag] # None /\ midiTagRows[l.tag].born = l.tagBorn

\* A file has one tag at most, wherever a request stopped or the program ended: the
\* lists would show the names of two as one.
OneTagEach == \A k, l \in links : k.midi = l.midi => k = l

HasTag(a) ==
  IF a.tag = None THEN \A l \in links : l.midi # a.midi
  ELSE \E l \in links : l.midi = a.midi /\ l.tag = a.tag

\* The first assignments of a request are done; of the other files only the next one,
\* at which it may have stopped, may have lost its tag.
DoneUpTo(request, done) ==
  LET asked == request.asked
      reached == {asked[j].midi : j \in DOMAIN asked \cap 1..done + 1}
  IN  /\ \A j \in 1..done : HasTag(asked[j])
      /\ {l \in links : l.midi \notin reached} = {l \in request.before : l.midi \notin reached}

\* A request that is answered with success has given every file its tag and has changed
\* no other file.  One that fails has done a proper part of it, in the order it was
\* asked, though its sender is not told which.
TagAnswerTrue ==
  lastRequest # None =>
    LET all == Len(lastRequest.asked)
    IN  IF lastRequest.success THEN DoneUpTo(lastRequest, all)
        ELSE \E done \in 0..all - 1 : DoneUpTo(lastRequest, done)
===============================================================================
