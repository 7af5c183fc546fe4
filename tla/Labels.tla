-------------------------------- MODULE Labels --------------------------------
(***************************************************************************)
(* The two managers of labels, InstrumentTypeManagementModal with          *)
(* hooks/sampleState/useInstrumentTypes.ts and MidiTagManagementModal with *)
(* hooks/midiState/useMidiTags.ts: the same dialog over two tables.        *)
(*                                                                         *)
(* Their commands are synchronous: the backend serves them one after the   *)
(* other, in the order the renderer sent them, and answers in that order.  *)
(***************************************************************************)
EXTENDS UiBase

CONSTANTS
  LabelNames, DefaultNames,
  MaxLabelId      \* bound of the model: rows are numbered up to it

ASSUME LabelsAssumption ==
  /\ DefaultNames \subseteq LabelNames /\ DefaultNames # {}
  /\ MaxLabelId \in Nat \ {0}

VARIABLES
  manager,        \* which of the two it is
  labels,         \* its table
  offeredLabels,  \* instrumentTypes or midiTags
  managerOpen,
  refused,        \* error, of the dialog
  editing,        \* editingId
  labelCalls,     \* commands under way
  unheard         \* history: the last refresh failed

dialog == <<managerOpen, refused, editing>>
labelVars == <<manager, labels, offeredLabels, dialog, labelCalls, unheard>>

LabelIds == 1..MaxLabelId
Tables == UNION {[ids -> LabelNames] : ids \in SUBSET LabelIds}
LabelCall == [op : {"add", "delete", "update", "get"}, id : LabelIds \cup {None},
              name : LabelNames \cup {None}]

IsDefault(name) == name \in DefaultNames
NamesIn(table) == {table[id] : id \in DOMAIN table}

\* The number SQLite gives a new row: one more than the largest.
NextId(table) == CHOOSE n \in 1..(MaxLabelId + 1) :
  (\A id \in DOMAIN table : id < n) /\ (n = 1 \/ n - 1 \in DOMAIN table)

-----------------------------------------------------------------------------
\* The calls.

Call(op, id, name) == [op |-> op, id |-> id, name |-> name]

\* Each handler sends its command; what follows it is up to the answer.
Send(op, id, name) ==
  /\ Len(labelCalls) < MaxCalls
  /\ labelCalls' = Append(labelCalls, Call(op, id, name))

\* A handler that succeeded asks for the list again.
ThenRefresh(calls) == Append(calls, Call("get", None, None))

-----------------------------------------------------------------------------
\* The dialog.

\* A blank name (None), or one that another row has, is refused.
Refuses(name, id) ==
  name = None \/ \E other \in DOMAIN offeredLabels \ {id} : offeredLabels[other] = name

ToggleManager ==
  /\ managerOpen' = ~managerOpen
  /\ UNCHANGED <<manager, labels, offeredLabels, refused, editing, labelCalls, unheard>>

AddLabel(name) ==
  /\ managerOpen
  /\ refused' = Refuses(name, None)
  /\ IF Refuses(name, None) THEN UNCHANGED labelCalls ELSE Send("add", None, name)
  /\ UNCHANGED <<manager, labels, offeredLabels, managerOpen, editing, unheard>>

\* Typing a name takes the error away.
TypeName ==
  /\ managerOpen /\ refused
  /\ refused' = FALSE
  /\ UNCHANGED <<manager, labels, offeredLabels, managerOpen, editing, labelCalls, unheard>>

StartEditing(id) ==
  /\ managerOpen /\ id \in DOMAIN offeredLabels /\ id # editing
  /\ editing' = id
  /\ UNCHANGED <<manager, labels, offeredLabels, managerOpen, refused, labelCalls, unheard>>

\* The row that is edited must still be in the list to be saved.
SaveEdit(name) ==
  /\ managerOpen /\ editing \in DOMAIN offeredLabels
  /\ refused' = Refuses(name, editing)
  /\ IF Refuses(name, editing)
       THEN UNCHANGED <<editing, labelCalls>>
       ELSE Send("update", editing, name) /\ editing' = None
  /\ UNCHANGED <<manager, labels, offeredLabels, managerOpen, unheard>>

CancelEdit ==
  /\ managerOpen /\ editing \in DOMAIN offeredLabels
  /\ editing' = None /\ refused' = FALSE
  /\ UNCHANGED <<manager, labels, offeredLabels, managerOpen, labelCalls, unheard>>

\* The row has a button to delete it, unless it is edited or has a default name.
DeleteLabel(id) ==
  /\ managerOpen /\ id \in DOMAIN offeredLabels \ {editing}
  /\ ~IsDefault(offeredLabels[id])
  /\ Send("delete", id, None)
  /\ UNCHANGED <<manager, labels, offeredLabels, dialog, unheard>>

\* The MIDI view asks for the tags each time it is shown.
ShowMidiView ==
  /\ manager = "tags" /\ ~managerOpen
  /\ Send("get", None, None)
  /\ UNCHANGED <<manager, labels, offeredLabels, dialog, unheard>>

-----------------------------------------------------------------------------
\* The backend answers the call at the head.

\* Names are unique; a row that is gone is not changed, and that is no error.
Accepts(c) ==
  CASE c.op = "add" -> c.name \notin NamesIn(labels)
    [] c.op = "update" -> \A id \in DOMAIN labels \ {c.id} :
                            c.id \in DOMAIN labels => labels[id] # c.name
    [] c.op \in {"delete", "get"} -> TRUE

After(c) ==
  CASE c.op = "add" -> [id \in DOMAIN labels \cup {NextId(labels)} |->
                          IF id \in DOMAIN labels THEN labels[id] ELSE c.name]
    [] c.op = "update" -> [id \in DOMAIN labels |-> IF id = c.id THEN c.name ELSE labels[id]]
    [] c.op = "delete" -> [id \in DOMAIN labels \ {c.id} |-> labels[id]]

ChangeReturns ==
  /\ labelCalls # << >>
  /\ LET c == Head(labelCalls) IN
       /\ c.op # "get" /\ Accepts(c)
       /\ c.op = "add" => NextId(labels) \in LabelIds
       /\ labels' = After(c)
  /\ labelCalls' = ThenRefresh(Tail(labelCalls))
  /\ UNCHANGED <<manager, offeredLabels, dialog, unheard>>

ListReturned ==
  /\ labelCalls # << >> /\ Head(labelCalls).op = "get"
  /\ offeredLabels' = labels
  /\ labelCalls' = Tail(labelCalls)
  /\ unheard' = FALSE
  /\ UNCHANGED <<manager, labels, dialog>>

\* Any call can fail; a failed change is told in the error banner.
LabelCallFails ==
  /\ labelCalls # << >>
  /\ labelCalls' = Tail(labelCalls)
  /\ unheard' = (unheard \/ Head(labelCalls).op = "get")
  /\ UNCHANGED <<manager, labels, offeredLabels, dialog>>

-----------------------------------------------------------------------------
\* The two dialogs.

TypeManagerStep ==
  /\ manager = "types"
  /\ \/ ToggleManager \/ TypeName \/ CancelEdit
     \/ \E name \in LabelNames \cup {None} : AddLabel(name) \/ SaveEdit(name)
     \/ \E id \in LabelIds : StartEditing(id) \/ DeleteLabel(id)

AddTag(name) == manager = "tags" /\ AddLabel(name)

SaveTag(name) == SaveEdit(name)

EditTag ==
  /\ manager = "tags"
  /\ CancelEdit \/ \E name \in LabelNames \cup {None} : SaveTag(name)

TagRowStep ==
  /\ manager = "tags"
  /\ \E id \in LabelIds : StartEditing(id) \/ DeleteLabel(id)

CloseTags == manager = "tags" /\ ToggleManager

LabelsInit ==
  /\ manager \in {"types", "tags"}
  /\ labels = [id \in 1..1 |-> CHOOSE name \in DefaultNames : TRUE]
  /\ offeredLabels = << >>
  /\ managerOpen = FALSE /\ refused = FALSE /\ editing = None
  /\ labelCalls = IF manager = "types" THEN <<Call("get", None, None)>> ELSE << >>
  /\ unheard = (manager = "tags")

LabelsNext ==
  \/ TypeManagerStep
  \/ EditTag \/ TagRowStep \/ CloseTags \/ ShowMidiView
  \/ \E name \in LabelNames \cup {None} : AddTag(name)
  \/ manager = "tags" /\ TypeName
  \/ ChangeReturns \/ ListReturned \/ LabelCallFails

LabelsSpec == LabelsInit /\ [][LabelsNext]_labelVars

-----------------------------------------------------------------------------
\* Each variable of the managers has its type.
LabelsTypeOK ==
  /\ manager \in {"types", "tags"}
  /\ labels \in Tables /\ offeredLabels \in Tables
  /\ managerOpen \in BOOLEAN /\ refused \in BOOLEAN /\ unheard \in BOOLEAN
  /\ editing \in LabelIds \cup {None}
  /\ labelCalls \in Seq(LabelCall)

\* Once every call has been answered the dialog lists the table, whatever the
\* order in which the changes were made; unless the last refresh failed.
LabelsCurrent == labelCalls = << >> /\ ~unheard => offeredLabels = labels
===============================================================================
