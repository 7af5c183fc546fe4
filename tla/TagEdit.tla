-------------------------------- MODULE TagEdit --------------------------------
(***************************************************************************)
(* The tag of MIDI files: MidiTagEditModal, handleMidiTagChange of         *)
(* hooks/midiState/useMidiTags.ts, and set_midi_tag.  The rows carry the   *)
(* name of their tag, the dialog looks it up among the tags it was given,  *)
(* and what it saves is a number.                                          *)
(*                                                                         *)
(* The commands are synchronous: served and answered in the order of the   *)
(* sends.  The writes of one save are sent together and awaited together.  *)
(***************************************************************************)
EXTENDS UiBase

CONSTANTS MidiFiles, TagIds, TagTexts

ASSUME TagAssumption == None \notin TagIds /\ None \notin TagTexts

VARIABLES
  dbTags,        \* midi_tags: from ids to names
  midiTags,      \* the same, as the renderer has it
  fileTags,      \* midi_file_tags: for each file a tag, or None
  rowTags,       \* tag_name of the rows on screen
  tagEdit,       \* None, or the open dialog: its row and targets, and the tag selected in
                 \* it; as history, whether it opened on a current row with nothing under
                 \* way (quiet), and whether nothing was chosen in it since (untouched)
  tagCalls,      \* calls under way, oldest first
  staleRows      \* history: rows loaded before a change of the tags, or whose save failed

tableVars == <<dbTags, midiTags>>
tagRowVars == <<fileTags, rowTags, staleRows>>
tagEditVars == <<tableVars, tagRowVars, tagEdit, tagCalls>>

Named(table, name) == {t \in DOMAIN table : table[t] = name}

\* midiTags.find(...)?.id ?? null, and back.
IdOf(name) == IF Named(midiTags, name) = {} THEN None ELSE CHOOSE t \in Named(midiTags, name) : TRUE
NameIn(table, t) == IF t \in DOMAIN table THEN table[t] ELSE None

SendTagCall(c) ==
  /\ Len(tagCalls) < MaxCalls
  /\ tagCalls' = Append(tagCalls, c)

\* The renderer has the tags of the database, and no call changes them.
TagsCurrent == midiTags = dbTags /\ \A k \in DOMAIN tagCalls : tagCalls[k].op = "set"

-----------------------------------------------------------------------------
\* The dialog.

\* A click on the badge of a row, for it or for the selected rows.
OpenTagEdit(m, targets) ==
  /\ tagEdit = None /\ m \in targets /\ Len(tagCalls) < MaxCalls
  /\ tagEdit' = [midi |-> m, targets |-> targets, selected |-> IdOf(rowTags[m]),
                 quiet |-> TagsCurrent /\ tagCalls = << >> /\ m \notin staleRows,
                 untouched |-> TRUE]
  /\ UNCHANGED <<tableVars, tagRowVars, tagCalls>>

\* Cancel, a click outside, or the button that opens the manager instead.
CloseTagEdit ==
  /\ tagEdit # None
  /\ tagEdit' = None
  /\ UNCHANGED <<tableVars, tagRowVars, tagCalls>>

\* Clicking the selected tag deselects it.
HandleTagClick(t) ==
  /\ tagEdit # None /\ t \in DOMAIN midiTags
  /\ tagEdit' = [tagEdit EXCEPT !.selected = IF @ = t THEN None ELSE t, !.untouched = FALSE]
  /\ UNCHANGED <<tableVars, tagRowVars, tagCalls>>

\* A name that is typed selects its tag, if there is one.
ApplyCustom(name) ==
  /\ tagEdit # None /\ IdOf(name) # None
  /\ tagEdit' = [tagEdit EXCEPT !.selected = IdOf(name), !.untouched = FALSE]
  /\ UNCHANGED <<tableVars, tagRowVars, tagCalls>>

\* The dialog closes at once; the rows are told when all is written, and then the
\* name the tag had now.
SaveTagEdit ==
  /\ tagEdit # None
  /\ SendTagCall([op |-> "set", targets |-> tagEdit.targets, tag |-> tagEdit.selected,
                  name |-> NameIn(midiTags, tagEdit.selected), current |-> TagsCurrent])
  /\ tagEdit' = None
  /\ UNCHANGED <<tableVars, tagRowVars>>

-----------------------------------------------------------------------------
\* What else is sent: the manager of tags, and the search for the rows.

RenameTag(t, name) ==
  /\ tagEdit = None /\ t \in DOMAIN midiTags /\ Named(midiTags, name) = {}
  /\ SendTagCall([op |-> "rename", tag |-> t, name |-> name])
  /\ UNCHANGED <<tableVars, tagRowVars, tagEdit>>

DeleteTag(t) ==
  /\ tagEdit = None /\ t \in DOMAIN midiTags
  /\ SendTagCall([op |-> "delete", tag |-> t])
  /\ UNCHANGED <<tableVars, tagRowVars, tagEdit>>

SearchRows ==
  /\ SendTagCall([op |-> "list"])
  /\ UNCHANGED <<tableVars, tagRowVars, tagEdit>>

-----------------------------------------------------------------------------
\* The backend serves the oldest call, and the renderer goes on with it.

UpdateRows(c) ==
  rowTags' = [m \in MidiFiles |-> IF m \in c.targets THEN c.name ELSE rowTags[m]]

\* set_midi_tag deletes the tag of the file, then inserts the new one, which is
\* refused when that tag is gone: then the file has none.  Promise.all: the rows are
\* told when every write succeeded.  The writes of one save are next to each other
\* in the queue, so nothing else is served between them.  Under another tag filter
\* (an input here) the rows are searched again.
SetMidiTags(refused, filtered) ==
  /\ tagCalls # << >>
  /\ LET c == Head(tagCalls)
         gone == c.tag # None /\ c.tag \notin DOMAIN dbTags
         failed == refused # {} \/ gone IN
       /\ c.op = "set" /\ refused \subseteq c.targets
       /\ fileTags' = [m \in MidiFiles |->
                         IF m \in c.targets \ refused THEN IF gone THEN None ELSE c.tag ELSE fileTags[m]]
       /\ IF failed THEN UNCHANGED rowTags ELSE UpdateRows(c)
       /\ staleRows' = IF failed \/ ~c.current THEN staleRows \cup c.targets ELSE staleRows
       /\ tagCalls' = IF filtered /\ ~failed THEN Append(Tail(tagCalls), [op |-> "list"]) ELSE Tail(tagCalls)
  /\ UNCHANGED <<tableVars, tagEdit>>

ChangeTags ==
  /\ tagCalls # << >>
  /\ LET c == Head(tagCalls) IN
       /\ c.op \in {"rename", "delete"}
       /\ c.op = "rename" => Named(dbTags, c.name) = {}
       /\ dbTags' = IF c.op = "delete" THEN [t \in DOMAIN dbTags \ {c.tag} |-> dbTags[t]]
                    ELSE [t \in DOMAIN dbTags |-> IF t = c.tag THEN c.name ELSE dbTags[t]]
       /\ fileTags' = [m \in MidiFiles |->
                         IF c.op = "delete" /\ fileTags[m] = c.tag THEN None ELSE fileTags[m]]
  /\ staleRows' = MidiFiles
  /\ tagCalls' = Append(Tail(tagCalls), [op |-> "tags"])
  /\ UNCHANGED <<midiTags, rowTags, tagEdit>>

TagsReturned ==
  /\ tagCalls # << >> /\ Head(tagCalls).op = "tags"
  /\ midiTags' = dbTags
  /\ tagCalls' = Tail(tagCalls)
  /\ UNCHANGED <<dbTags, tagRowVars, tagEdit>>

RowsReturned ==
  /\ tagCalls # << >> /\ Head(tagCalls).op = "list"
  /\ rowTags' = [m \in MidiFiles |-> NameIn(dbTags, fileTags[m])]
  /\ staleRows' = {}
  /\ tagCalls' = Tail(tagCalls)
  /\ UNCHANGED <<tableVars, fileTags, tagEdit>>

TagCallFails ==
  /\ tagCalls # << >> /\ Head(tagCalls).op # "set"
  /\ tagCalls' = Tail(tagCalls)
  /\ UNCHANGED <<tableVars, tagRowVars, tagEdit>>

-----------------------------------------------------------------------------
TagEditInit ==
  /\ dbTags \in [TagIds -> TagTexts] /\ \A t, u \in TagIds : dbTags[t] = dbTags[u] => t = u
  /\ midiTags = dbTags
  /\ fileTags = [m \in MidiFiles |-> None] /\ rowTags = [m \in MidiFiles |-> None]
  /\ tagEdit = None /\ tagCalls = << >> /\ staleRows = {}

TagEditUser ==
  \/ \E m \in MidiFiles, targets \in SUBSET MidiFiles : OpenTagEdit(m, targets)
  \/ CloseTagEdit \/ SaveTagEdit \/ SearchRows
  \/ \E t \in TagIds : HandleTagClick(t) \/ DeleteTag(t)
  \/ \E name \in TagTexts : ApplyCustom(name) \/ \E t \in TagIds : RenameTag(t, name)

TagEditReturn ==
  \/ \E refused \in SUBSET MidiFiles, filtered \in BOOLEAN : SetMidiTags(refused, filtered)
  \/ ChangeTags \/ TagsReturned \/ RowsReturned \/ TagCallFails

TagEditNext == TagEditUser \/ TagEditReturn

TagEditSpec == TagEditInit /\ [][TagEditNext]_tagEditVars

-----------------------------------------------------------------------------
Partial == UNION {[ids -> TagTexts] : ids \in SUBSET TagIds}

\* Each variable of the dialog has its type.
TagEditTypeOK ==
  /\ {dbTags, midiTags} \subseteq Partial
  /\ fileTags \in [MidiFiles -> TagIds \cup {None}] /\ rowTags \in [MidiFiles -> TagTexts \cup {None}]
  /\ tagEdit = None \/ tagEdit \in [midi : MidiFiles, targets : SUBSET MidiFiles,
                                      selected : TagIds \cup {None}, quiet : BOOLEAN, untouched : BOOLEAN]
  /\ Len(tagCalls) <= MaxCalls + 1
  /\ staleRows \subseteq MidiFiles

\* Once the calls are answered, each row tells the tag the database has for its
\* file: unless the tags were changed after it was loaded, or its save failed.
RowsTellTags ==
  tagCalls = << >> => \A m \in MidiFiles \ staleRows : rowTags[m] = NameIn(dbTags, fileTags[m])

\* A dialog that opened on a row that was not stale while nothing was under way,
\* and in which nothing was chosen, would save the tag that the file has.
DialogKeepsTag ==
  tagEdit # None /\ tagEdit.quiet /\ tagEdit.untouched => tagEdit.selected = fileTags[tagEdit.midi]
===============================================================================
