----------------------------- MODULE ListSelection -----------------------------
(***************************************************************************)
(* Moving through the sample list (SampleList.tsx): a click, a range with  *)
(* shift, the arrow keys with their delay (useKeyboardNavigation.ts), and  *)
(* the random button with its way back (randomSelection.ts).  The rows may *)
(* be sorted, filtered or replaced between any two of them.                *)
(*                                                                         *)
(* Row ids stand for samples.  Effects run with the change that caused     *)
(* them.                                                                   *)
(***************************************************************************)
EXTENDS UiBase

CONSTANTS
  RowIds,       \* ids of samples
  Tempo,        \* Tempo[id]: the tempo, 0 if it is unknown
  Flagged,      \* the ids of samples with quality flags
  Given,        \* Given[id]: place in the order of a client or a collection
  MaxHistory    \* bound of the model: random rows to go back to

ASSUME ListAssumption ==
  /\ RowIds \subseteq Nat /\ IsFiniteSet(RowIds) /\ None \notin RowIds /\ Flagged \subseteq RowIds
  /\ Tempo \in [RowIds -> Nat] /\ Given \in [RowIds -> Nat]
  /\ MaxHistory \in Nat

VARIABLES
  loadedRows, qualityOnly, sortField, ascending, inGrid,
  preserveOrder,     \* results of a client or a collection
  selectedRow, selectedRowIds,
  pendingSelect,     \* pendingSelectRef, with the state of its timer
  randomHistory, lastRandom

sortVars == <<sortField, ascending>>
listedVars == <<loadedRows, qualityOnly, sortVars, inGrid, preserveOrder>>
chosenVars == <<selectedRow, selectedRowIds>>
randomVars == <<randomHistory, lastRandom>>
listVars == <<listedVars, chosenVars, pendingSelect, randomVars>>

-----------------------------------------------------------------------------
\* The list on the screen.  Rows in a given order are neither filtered nor sorted.

Visible == {id \in loadedRows : qualityOnly /\ ~preserveOrder => id \in Flagged}

SortKey(id) ==
  CASE preserveOrder -> Given[id]
    [] ~preserveOrder /\ sortField = "id" -> id
    [] ~preserveOrder /\ sortField = "bpm" -> Tempo[id]

\* The sort is stable, and rows are loaded in the order of their ids.
Before(a, b) ==
  IF SortKey(a) = SortKey(b) THEN a < b
  ELSE (SortKey(a) < SortKey(b)) = (ascending \/ preserveOrder)

Below(id) == {other \in Visible : Before(id, other)}
Above(id) == {other \in Visible : Before(other, id)}
Topmost(rows) == CHOOSE id \in rows : \A other \in rows \ {id} : Before(id, other)
Lowest(rows) == CHOOSE id \in rows : \A other \in rows \ {id} : Before(other, id)

\* A change of the rows or of the selection runs the cleanup of the key handler,
\* which clears its timer; the pending row stays in its ref.
Idle == [row |-> pendingSelect.row, armed |-> FALSE]
ClearTimer == pendingSelect' = Idle

-----------------------------------------------------------------------------
\* What changes the rows.

RowsChange(rows) ==
  /\ rows # loadedRows
  /\ loadedRows' = rows
  /\ ClearTimer
  /\ UNCHANGED <<qualityOnly, sortVars, inGrid, preserveOrder, chosenVars, randomVars>>

ShowGivenOrder ==
  /\ preserveOrder' = ~preserveOrder
  /\ ClearTimer
  /\ UNCHANGED <<loadedRows, qualityOnly, sortVars, inGrid, chosenVars, randomVars>>

\* The list is memoized: a filter or an order that does not apply leaves it as it
\* is, and the timer with it.
FilterQuality ==
  /\ qualityOnly' = ~qualityOnly
  /\ IF preserveOrder THEN UNCHANGED pendingSelect ELSE ClearTimer
  /\ UNCHANGED <<loadedRows, sortVars, inGrid, preserveOrder, chosenVars, randomVars>>

\* A click on a column sorts by it, and the next one turns the order around.
SortBy(field) ==
  /\ sortField' = field /\ ascending' = ~(field = sortField /\ ascending)
  /\ IF preserveOrder THEN UNCHANGED pendingSelect ELSE ClearTimer
  /\ UNCHANGED <<loadedRows, qualityOnly, inGrid, preserveOrder, chosenVars, randomVars>>

\* The timer does not depend on the view.
SwitchView ==
  /\ inGrid' = ~inGrid
  /\ UNCHANGED <<loadedRows, qualityOnly, sortVars, preserveOrder, chosenVars, pendingSelect, randomVars>>

-----------------------------------------------------------------------------
\* What selects.

\* handleSampleSelect; selecting the selected row again changes its ids only.
SelectSample(id, ids) ==
  /\ selectedRow' = id /\ selectedRowIds' = ids
  /\ pendingSelect' = IF id = selectedRow THEN pendingSelect ELSE Idle

ClickSample(id) ==
  /\ id \in Visible
  /\ SelectSample(id, {id})
  /\ UNCHANGED <<listedVars, randomVars>>

\* The rows from the selected one to the clicked one; the clicked one alone if the
\* selected one is not on the list.
ShiftClickSample(id) ==
  /\ id \in Visible /\ ~inGrid
  /\ SelectSample(id, IF selectedRow \notin Visible THEN {id}
                ELSE {id, selectedRow} \cup (Below(id) \cap Above(selectedRow))
                                       \cup (Above(id) \cap Below(selectedRow)))
  /\ UNCHANGED <<listedVars, randomVars>>

ArrowTo(id) ==
  /\ pendingSelect' = [row |-> id, armed |-> TRUE]
  /\ UNCHANGED <<listedVars, chosenVars, randomVars>>

ArrowDown ==
  /\ ~inGrid /\ Visible # {}
  /\ IF selectedRow \in Visible
     THEN Below(selectedRow) # {} /\ ArrowTo(Topmost(Below(selectedRow)))
     ELSE ArrowTo(Topmost(Visible))

ArrowUp ==
  /\ ~inGrid /\ Visible # {}
  /\ IF selectedRow \in Visible
     THEN Above(selectedRow) # {} /\ ArrowTo(Lowest(Above(selectedRow)))
     ELSE ArrowTo(Lowest(Visible))

\* The row of the ref is selected and forgotten, if there is one.
ArrowFires ==
  /\ pendingSelect.armed
  /\ pendingSelect' = [row |-> None, armed |-> FALSE]
  /\ IF pendingSelect.row = None THEN UNCHANGED chosenVars
     ELSE selectedRow' = pendingSelect.row /\ selectedRowIds' = {pendingSelect.row}
  /\ UNCHANGED <<listedVars, randomVars>>

\* Any row but the selected one, unless it is the only one.
RandomRow(id) ==
  /\ id \in Visible /\ (id = selectedRow => Visible = {id})
  /\ lastRandom # None => Len(randomHistory) < MaxHistory
  /\ randomHistory' = IF lastRandom = None THEN randomHistory ELSE Append(randomHistory, lastRandom)
  /\ lastRandom' = id
  /\ SelectSample(id, {id})
  /\ UNCHANGED listedVars

RandomBack ==
  /\ randomHistory # << >>
  /\ LET previous == randomHistory[Len(randomHistory)] IN
       /\ lastRandom' = previous
       /\ SelectSample(previous, {previous})
  /\ randomHistory' = SubSeq(randomHistory, 1, Len(randomHistory) - 1)
  /\ UNCHANGED listedVars

\* The player bar is closed, or the sample trashed.
Deselect ==
  /\ selectedRow # None
  /\ selectedRow' = None /\ selectedRowIds' = {}
  /\ ClearTimer
  /\ UNCHANGED <<listedVars, randomVars>>

-----------------------------------------------------------------------------
ListInit ==
  /\ loadedRows = RowIds /\ qualityOnly = FALSE
  /\ sortField = "id" /\ ascending = TRUE /\ inGrid = FALSE /\ preserveOrder = FALSE
  /\ selectedRow = None /\ selectedRowIds = {}
  /\ pendingSelect = [row |-> None, armed |-> FALSE]
  /\ randomHistory = << >> /\ lastRandom = None

ListNext ==
  \/ \E rows \in SUBSET RowIds : RowsChange(rows)
  \/ ShowGivenOrder \/ FilterQuality \/ SwitchView
  \/ \E field \in {"id", "bpm"} : SortBy(field)
  \/ \E id \in RowIds : ClickSample(id) \/ ShiftClickSample(id) \/ RandomRow(id)
  \/ ArrowDown \/ ArrowUp \/ ArrowFires \/ RandomBack \/ Deselect

ListSpec == ListInit /\ [][ListNext]_listVars

-----------------------------------------------------------------------------
\* Each variable of the list has its type.
ListTypeOK ==
  /\ loadedRows \subseteq RowIds /\ qualityOnly \in BOOLEAN
  /\ sortField \in {"id", "bpm"} /\ {ascending, inGrid, preserveOrder} \subseteq BOOLEAN
  /\ selectedRow \in RowIds \cup {None} /\ selectedRowIds \subseteq RowIds
  /\ pendingSelect \in [row : RowIds \cup {None}, armed : BOOLEAN]
  /\ randomHistory \in Seq(RowIds) /\ lastRandom \in RowIds \cup {None}

\* While the delay of an arrow key runs, the row that it will select is on the list
\* and no other row lies between it and the selected one, whatever was sorted,
\* filtered, loaded or selected since the key.
ArrowIsNeighbour ==
  pendingSelect.armed =>
    /\ pendingSelect.row \in Visible \ {selectedRow}
    /\ selectedRow \in Visible =>
         ~\E id \in Visible : \/ Before(selectedRow, id) /\ Before(id, pendingSelect.row)
                              \/ Before(pendingSelect.row, id) /\ Before(id, selectedRow)

\* The selected row is one of the selected ids, and nothing else is left selected
\* when there is none.
SelectionHasRow ==
  IF selectedRow = None THEN selectedRowIds = {} ELSE selectedRow \in selectedRowIds
================================================================================
