----------------------------- MODULE Collections ------------------------------
(***************************************************************************)
(* The collections of the sidebar: hooks/useCollections.ts with            *)
(* CollectionSelector, and the CollectionsChanged commands by which the    *)
(* Local API tells the renderer that it changed one.                       *)
(*                                                                         *)
(* The backend reads the database at one moment and its answer is applied  *)
(* at a later one, in any order: Read and the Return actions.              *)
(***************************************************************************)
EXTENDS UiBase

CONSTANTS
  CollectionIds, MemberRows,
  FirstShelf, ImportedShelf,   \* the database at first and in an imported library
  MaxAnnounced   \* bound of the model: CollectionsChanged commands waiting

VARIABLES
  shelf,         \* the database: existing collections and their members
  announced,     \* CollectionsChanged commands that are not acknowledged
  listed,        \* collections
  active,        \* activeCollectionId and its ref
  shown,         \* activeMembers, and the collection they were read from
  view,          \* isCollectionView
  listCalls, memberCalls,
  unread         \* history: what could not be read, or was replaced unannounced

collectionUi == <<listed, active, shown, view>>
collectionVars == <<shelf, announced, collectionUi, listCalls, memberCalls, unread>>

NoMembers == [of |-> None, rows |-> {}]

Shelves == UNION {[s -> SUBSET MemberRows] : s \in SUBSET CollectionIds}

ASSUME ShelfAssumption ==
  /\ FirstShelf \in Shelves /\ ImportedShelf \in Shelves
  /\ None \notin CollectionIds /\ MaxAnnounced \in Nat

ListCall == [newest : BOOLEAN, refresh : BOOLEAN, command : BOOLEAN,
             answer : {None} \cup SUBSET CollectionIds]
MemberCall == [of : CollectionIds, newest : BOOLEAN, command : BOOLEAN,
               answer : {None} \cup SUBSET MemberRows]

\* The commands are handled one after the other.
Handling == \E c \in listCalls \cup memberCalls : c.command

-----------------------------------------------------------------------------
\* The database.

\* It creates collections and adds members.
ApiChanges(s) ==
  /\ announced < MaxAnnounced
  /\ s # shelf
  /\ \A c \in DOMAIN shelf : c \in DOMAIN s /\ shelf[c] \subseteq s[c]
  /\ shelf' = s
  /\ announced' = announced + 1
  /\ UNCHANGED <<collectionUi, listCalls, memberCalls, unread>>

\* An imported library replaces the database; nothing tells the sidebar.
LibraryReplaced ==
  /\ "replaced" \notin unread
  /\ shelf' = ImportedShelf
  /\ unread' = unread \cup {"replaced"}
  /\ UNCHANGED <<announced, collectionUi, listCalls, memberCalls>>

ReadList(c) ==
  /\ c.answer = None
  /\ listCalls' = (listCalls \ {c}) \cup {[c EXCEPT !.answer = DOMAIN shelf]}
  /\ UNCHANGED <<shelf, announced, collectionUi, memberCalls, unread>>

\* A collection that does not exist has no members.
ReadMembers(c) ==
  /\ c.answer = None
  /\ memberCalls' = (memberCalls \ {c}) \cup
       {[c EXCEPT !.answer = IF c.of \in DOMAIN shelf THEN shelf[c.of] ELSE {}]}
  /\ UNCHANGED <<shelf, announced, collectionUi, listCalls, unread>>

-----------------------------------------------------------------------------
\* The sidebar.

\* loadMembers up to its await, over the calls left of an earlier one.
LoadMembers(id, command, calls) ==
  memberCalls' = Overtaken(calls) \cup
    {[of |-> id, newest |-> TRUE, command |-> command, answer |-> None]}

\* The sidebar has a button for each collection, and one to clear.
Selectable(id) == id \in listed

Clearable == view

SelectCollection(id) ==
  /\ Selectable(id) /\ Room(listCalls \cup memberCalls)
  /\ view' = TRUE
  /\ active' = id
  /\ LoadMembers(id, FALSE, memberCalls)
  /\ UNCHANGED <<shelf, announced, listed, shown, listCalls, unread>>

ClearCollection ==
  /\ Clearable
  /\ view' = FALSE
  /\ active' = None
  /\ shown' = NoMembers
  /\ UNCHANGED <<shelf, announced, listed, listCalls, memberCalls, unread>>

\* Bug: the newest number is not compared.
OfActive(c) == c.of = active

Accepted(c) == c.newest /\ c.of = active

\* A refresh that resolves acknowledges its command, if it has one.
Acknowledge(c) == announced' = IF c.command THEN announced - 1 ELSE announced

MembersReturn(c) ==
  /\ c.answer # None
  /\ memberCalls' = memberCalls \ {c}
  /\ IF Accepted(c)
       THEN shown' = [of |-> c.of, rows |-> c.answer] /\ unread' = unread \ {"members"}
       ELSE UNCHANGED <<shown, unread>>
  /\ Acknowledge(c)
  /\ UNCHANGED <<shelf, listed, active, view, listCalls>>

\* Nobody catches it; within a refresh the command is nacked and comes back.
MembersFail(c) ==
  /\ c.answer = None
  /\ memberCalls' = memberCalls \ {c}
  /\ unread' = IF Accepted(c) THEN unread \cup {"members"} ELSE unread
  /\ UNCHANGED <<shelf, announced, collectionUi, listCalls>>

-----------------------------------------------------------------------------
\* refresh, and the first list.

\* refresh up to its first await.
AskList(command) ==
  listCalls' = Overtaken(listCalls) \cup
    {[newest |-> TRUE, refresh |-> TRUE, command |-> command, answer |-> None]}

RefreshOnCommand ==
  /\ announced > 0 /\ ~Handling /\ Room(listCalls \cup memberCalls)
  /\ AskList(TRUE)
  /\ UNCHANGED <<shelf, announced, collectionUi, memberCalls, unread>>

\* The discovery screen hides the sidebar; a project is a collection, and
\* closing the screen refreshes.
VisitDiscovery(s) ==
  /\ Room(listCalls \cup memberCalls)
  /\ DOMAIN shelf \subseteq DOMAIN s
  /\ shelf' = s
  /\ AskList(FALSE)
  /\ UNCHANGED <<announced, collectionUi, memberCalls, unread>>

\* What a refresh does with the list it got.
AfterList(c) ==
  CASE active = None ->
         /\ Acknowledge(c)
         /\ UNCHANGED <<active, shown, memberCalls>>
    [] active \notin c.answer \cup {None} ->
         /\ active' = None
         /\ shown' = NoMembers
         /\ Acknowledge(c)
         /\ UNCHANGED memberCalls
    [] active \in c.answer ->
         /\ LoadMembers(active, c.command, memberCalls)
         /\ UNCHANGED <<announced, active, shown>>

ListReturns(c) ==
  /\ c.answer # None
  /\ listCalls' = listCalls \ {c}
  /\ IF c.newest
       THEN /\ listed' = c.answer
            /\ unread' = unread \ {"list"}
       ELSE UNCHANGED <<listed, unread>>
  /\ IF c.newest /\ c.refresh
       THEN AfterList(c)
       ELSE Acknowledge(c) /\ UNCHANGED <<active, shown, memberCalls>>
  /\ UNCHANGED <<shelf, view>>

ListFails(c) ==
  /\ c.answer = None
  /\ listCalls' = listCalls \ {c}
  /\ unread' = IF c.newest THEN unread \cup {"list"} ELSE unread
  /\ UNCHANGED <<shelf, announced, collectionUi, memberCalls>>

-----------------------------------------------------------------------------
CollectionsInit ==
  /\ shelf = FirstShelf
  /\ announced = 0
  /\ listed = {} /\ active = None /\ shown = NoMembers /\ view = FALSE
  /\ listCalls = {[newest |-> TRUE, refresh |-> FALSE, command |-> FALSE, answer |-> None]}
  /\ memberCalls = {}
  /\ unread = {}

CollectionsNext ==
  \/ \E s \in Shelves : ApiChanges(s) \/ VisitDiscovery(s)
  \/ LibraryReplaced
  \/ \E id \in CollectionIds : SelectCollection(id)
  \/ ClearCollection
  \/ RefreshOnCommand
  \/ \E c \in memberCalls : ReadMembers(c) \/ MembersReturn(c) \/ MembersFail(c)
  \/ \E c \in listCalls : ReadList(c) \/ ListReturns(c) \/ ListFails(c)

CollectionsSpec == CollectionsInit /\ [][CollectionsNext]_collectionVars

-----------------------------------------------------------------------------
\* Each variable of the shelf has its type.
CollectionsTypeOK ==
  /\ shelf \in Shelves
  /\ announced \in 0..MaxAnnounced
  /\ listed \subseteq CollectionIds
  /\ active \in CollectionIds \cup {None}
  /\ shown \in [of : CollectionIds \cup {None}, rows : SUBSET MemberRows]
  /\ view \in BOOLEAN
  /\ listCalls \subseteq ListCall /\ memberCalls \subseteq MemberCall
  /\ unread \subseteq {"list", "members", "replaced"}

\* Once every change that was announced has been handled and every answer is
\* there, the sidebar shows the shelf, and the list the members of the active
\* collection, whatever answers arrived late; except what could not be read.
CollectionsCurrent ==
  announced = 0 /\ listCalls = {} /\ memberCalls = {} /\ unread = {} =>
    /\ listed = DOMAIN shelf
    /\ active = None => shown.rows = {}
    /\ active # None => shown = [of |-> active, rows |-> shelf[active]]
===============================================================================
