------------------------------- MODULE EditForms -------------------------------
(***************************************************************************)
(* What the two edit forms of samples write: ClassificationEditModal with  *)
(* useSampleClassificationState, and SampleMetadataEditModal with          *)
(* useSampleMetadataState.  SampleWorkspace models what a save does to the *)
(* list; here it is which value reaches which target.                      *)
(*                                                                         *)
(* A save writes its targets one after the other, awaiting each, while the *)
(* form stays open and Save stays clickable.  The commands that write are  *)
(* synchronous: they are served and answered in the order of the sends.    *)
(* The forms have separate states; a behaviour is about one of them.       *)
(***************************************************************************)
EXTENDS UiBase

CONSTANTS
  Forms,          \* samples, numbered in the order of the selection
  Kick, Other,    \* instruments
  Texts           \* what a metadata form may hold

ASSUME FormsAssumption == Forms \subseteq Nat /\ Kick # Other

VARIABLES
  formKind,     \* "classification" or "metadata"
  form,         \* None, or [targets, original]: the form is open
  edit,         \* what its fields hold
  saves,        \* running saves, the next write of each in the order of the sends
  refreshing,   \* a save has written and waits for the list
  storedValues, \* what the database holds
  meant,        \* history: for each sample, the value of the newest save
  unwritten,    \* history: the samples whose newest write failed
  crossed       \* history: a save ran beside one of other targets

writeVars == <<saves, storedValues, unwritten>>
editVars == <<formKind, form, edit, saves, refreshing, storedValues, meant, unwritten, crossed>>

Contents(kind) == IF kind = "classification" THEN {Kick, Other} ELSE Texts

Saving == [targets : SUBSET Forms, todo : SUBSET Forms, value : {Kick, Other} \cup Texts,
           some : BOOLEAN]

FirstOfTargets(ids) == CHOOSE t \in ids : \A u \in ids : t <= u

-----------------------------------------------------------------------------
\* The form.

\* handleTypeClick and handleMetadataClick: the selected samples, or the one that
\* was clicked; those without a path are not written.  The fields show the row, which
\* may be older than the database.
OpenForm(targets, shown) ==
  /\ form = None
  /\ form' = [targets |-> targets, original |-> shown]
  /\ edit' = shown
  /\ UNCHANGED <<formKind, writeVars, refreshing, meant, crossed>>

CloseForm ==
  /\ form # None
  /\ form' = None
  /\ UNCHANGED <<formKind, edit, writeVars, refreshing, meant, crossed>>

EditField(v) ==
  /\ form # None
  /\ edit' = v
  /\ UNCHANGED <<formKind, form, writeVars, refreshing, meant, crossed>>

\* Either type takes the kick away.
HandleSampleTypeSelect ==
  /\ form # None /\ formKind = "classification"
  /\ edit' = IF edit = Kick THEN Other ELSE edit
  /\ UNCHANGED <<formKind, form, writeVars, refreshing, meant, crossed>>

-----------------------------------------------------------------------------
\* Saving.

\* An instrument type deleted while the form was open is not written: the one
\* the row had is.
Written(known) == IF known \/ formKind = "metadata" THEN edit ELSE form.original

HandleSave(known) ==
  /\ form # None /\ Len(saves) < MaxCalls
  /\ saves' = Append(saves, [targets |-> form.targets, todo |-> form.targets,
                             value |-> Written(known), some |-> FALSE])
  /\ meant' = [t \in Forms |-> IF t \in form.targets THEN Written(known) ELSE meant[t]]
  /\ crossed' = (crossed \/ \E k \in DOMAIN saves : saves[k].targets # form.targets)
  /\ UNCHANGED <<formKind, form, edit, refreshing, storedValues, unwritten>>

\* Bug: a write takes what the form holds when it is sent, not when Save was clicked.
LatestEdit(s) == edit

ValueOf(s) == s.value

\* The write is answered, and the next target is sent.
Goes(s, t, ok) ==
  LET after == [s EXCEPT !.todo = @ \ {t}, !.some = @ \/ ok] IN
    IF after.todo # {}
      THEN saves' = Append(Tail(saves), after) /\ UNCHANGED refreshing
      ELSE /\ saves' = Tail(saves)
           /\ refreshing' = (refreshing \/ after.some)

WriteTarget ==
  /\ saves # << >>
  /\ LET s == Head(saves)  t == FirstOfTargets(s.todo) IN
       /\ storedValues' = [storedValues EXCEPT ![t] = ValueOf(s)]
       /\ unwritten' = unwritten \ {t}
       /\ Goes(s, t, TRUE)
  /\ UNCHANGED <<formKind, form, edit, meant, crossed>>

\* The sample is gone, or the database refuses.
WriteTargetFails ==
  /\ saves # << >>
  /\ LET s == Head(saves)  t == FirstOfTargets(s.todo) IN
       unwritten' = unwritten \cup {t} /\ Goes(s, t, FALSE)
  /\ UNCHANGED <<formKind, form, edit, storedValues, meant, crossed>>

\* The list is back: whatever the form holds by now, it closes.
ListRefreshed ==
  /\ refreshing
  /\ refreshing' = FALSE /\ form' = None
  /\ UNCHANGED <<formKind, edit, writeVars, meant, crossed>>

RefreshFails ==
  /\ refreshing
  /\ refreshing' = FALSE
  /\ UNCHANGED <<formKind, form, edit, writeVars, meant, crossed>>

-----------------------------------------------------------------------------
EditInit ==
  /\ formKind \in {"classification", "metadata"}
  /\ form = None /\ edit \in Contents(formKind)
  /\ saves = << >> /\ refreshing = FALSE
  /\ \E v \in Contents(formKind) : storedValues = [t \in Forms |-> v]
  /\ meant = storedValues /\ unwritten = {} /\ crossed = FALSE

EditUser ==
  \/ \E targets \in (SUBSET Forms) \ {{}}, v \in Contents(formKind) : OpenForm(targets, v)
  \/ CloseForm
  \/ \E v \in Contents(formKind) : EditField(v)
  \/ HandleSampleTypeSelect
  \/ \E known \in BOOLEAN : HandleSave(known)

EditReturn == WriteTarget \/ WriteTargetFails \/ ListRefreshed \/ RefreshFails

EditNext == EditUser \/ EditReturn

EditSpec == EditInit /\ [][EditNext]_editVars

-----------------------------------------------------------------------------
\* Each variable of the form has its type.
EditTypeOK ==
  /\ formKind \in {"classification", "metadata"}
  /\ form = None \/ form \in [targets : SUBSET Forms, original : Contents(formKind)]
  /\ edit \in Contents(formKind)
  /\ saves \in Seq(Saving) /\ Len(saves) <= MaxCalls
  /\ {refreshing, crossed} \subseteq BOOLEAN
  /\ {storedValues, meant} \subseteq [Forms -> Contents(formKind)]
  /\ unwritten \subseteq Forms

\* Once the saves are through, each sample holds what the newest save that was
\* clicked for it meant, though the form was edited meanwhile and saves of the
\* same targets overlap: unless its write failed, or saves of different targets
\* overlapped.
NewestSaveHolds ==
  saves = << >> /\ ~crossed => \A t \in Forms \ unwritten : storedValues[t] = meant[t]
===============================================================================
