------------------------- MODULE SampleWorkspaceProofs -------------------------
(***************************************************************************)
(* The list of the sample workspace, for every library, page size and      *)
(* number of jobs: no row appears twice, every row has its path, the       *)
(* loading flags say whether calls run, the selection has its row, and a   *)
(* list that nothing disturbs is the beginning of what was asked for.      *)
(*                                                                         *)
(* Pages and appended rows overlap, so that no row appears twice rests on  *)
(* what may run with what: the invariant counts the loads by kind          *)
(* (CallsInv), bounds what a snapshot holds (UnderInv) and keeps the       *)
(* selection inside the list.  That a quiet list is complete rests on an   *)
(* invariant of its own (QuietInv): the page under way always continues    *)
(* the rows shown.                                                         *)
(***************************************************************************)
EXTENDS SampleWorkspace, FiniteSetTheorems, FunctionTheorems, TLAPS

-----------------------------------------------------------------------------
(* Lists.                                                                  *)

\* Rows can be put in the order of their ids: each goes to its rank.
LEMMA SortedRows ==
  ASSUME NEW rows \in SUBSET Ids
  PROVE  /\ InIdOrder(rows) \in [1..Cardinality(rows) -> rows]
         /\ Cardinality(rows) \in Nat
         /\ \A a, b \in 1..Cardinality(rows) :
              a < b => InIdOrder(rows)[a] < InIdOrder(rows)[b]
  <1> DEFINE n == Cardinality(rows)
             upTo(x) == {y \in rows : y <= x}
             rank == [x \in rows |-> Cardinality(upTo(x))]
             s == [k \in 1..n |-> CHOOSE x \in rows : rank[x] = k]
  <1>1. rows \subseteq Nat /\ IsFiniteSet(rows) /\ n \in Nat
    BY SearchAssumption, FS_Subset, FS_CardinalityType
  <1>0. \A z \in rows : z \in Nat
    BY <1>1
  <1>2. ASSUME NEW x \in rows PROVE IsFiniteSet(upTo(x)) /\ rank[x] \in 1..n
    <2>1. upTo(x) \in SUBSET rows /\ x \in upTo(x)
      BY <1>1
    <2>2. IsFiniteSet(upTo(x)) /\ Cardinality(upTo(x)) \in Nat /\ Cardinality(upTo(x)) <= n
      BY <1>1, <2>1, FS_Subset, FS_CardinalityType
    <2>3. Cardinality(upTo(x)) # 0
      BY <2>1, <2>2, FS_EmptySet
    <2> QED
      BY <1>1, <2>2, <2>3
  <1>3. ASSUME NEW x \in rows, NEW y \in rows, x < y PROVE rank[x] < rank[y]
    <2>1. \A z \in rows : (z <= x => z <= y) /\ y <= y /\ ~(y <= x)
      BY <1>0, <1>3
    <2>3. upTo(x) \in SUBSET upTo(y) /\ y \in upTo(y) /\ y \notin upTo(x)
      BY <2>1
    <2>2. Cardinality(upTo(x)) <= Cardinality(upTo(y))
          /\ Cardinality(upTo(x)) # Cardinality(upTo(y))
      BY <1>2, <2>3, FS_Subset
    <2> QED
      BY <1>2, <2>2
  <1>4. rank \in Injection(rows, 1..n)
    <2>1. \A x, y \in rows : rank[x] = rank[y] => x = y
      BY <1>1, <1>2, <1>3
    <2> QED
      BY <1>2, <2>1, Fun_IsInj
  <1>5. rank \in Surjection(rows, 1..n)
    BY <1>1, <1>4, FS_Injection, FS_Interval
  <1>6. \A k \in 1..n : s[k] \in rows /\ rank[s[k]] = k
    <2> HIDE DEF rank
    <2>1. \A k \in 1..n : \E x \in rows : rank[x] = k
      BY <1>5, Fun_SurjectionProperties
    <2> SUFFICES ASSUME NEW k \in 1..n PROVE s[k] \in rows /\ rank[s[k]] = k
      OBVIOUS
    <2>2. s[k] = CHOOSE x \in rows : rank[x] = k
      OBVIOUS
    <2> HIDE DEF s
    <2> QED
      BY <2>1, <2>2
  <1>7. \A a, b \in 1..n : a < b => s[a] < s[b]
    <2> SUFFICES ASSUME NEW a \in 1..n, NEW b \in 1..n, a < b PROVE s[a] < s[b]
      OBVIOUS
    <2>1. s[a] \in Nat /\ s[b] \in Nat /\ rank[s[a]] = a /\ rank[s[b]] = b
      BY <1>0, <1>6
    <2> HIDE DEF s, rank
    <2>2. s[b] < s[a] => b < a
      BY <1>3, <1>6, <2>1
    <2>3. s[a] # s[b]
      BY <2>1
    <2> QED
      BY <1>1, <2>1, <2>2, <2>3
  <1>8. s \in [1..n -> rows]
    BY <1>6
  <1> QED
    BY <1>1, <1>7, <1>8 DEF InIdOrder

-----------------------------------------------------------------------------
(* The inductive invariant.                                                *)

\* What a window can show: each row once, each with its path.
GoodList(rows, known) ==
  /\ rows \in Seq(Ids) /\ known \subseteq Ids
  /\ \A a, b \in DOMAIN rows : rows[a] = rows[b] => a = b
  /\ RowsOf(rows) \subseteq known

ListInv == GoodList(samples, paths)

\* The snapshot under the results of a client was on the screen.
Under == [samples : Seq(Ids), paths : SUBSET Ids, search : Queries, facet : Facets,
          selected : Ids \cup {None}]

UnderInv ==
  external # None =>
    /\ external \in [results : Seq(Ids), under : Under]
    /\ GoodList(external.under.samples, external.under.paths)

\* Numbers tell calls apart, and a flag stands for one page load.
CallsInv ==
  /\ \A c \in calls : c.n < sent /\ (c.kind = "path" => c.at \in Ids)
  /\ \A c, d \in calls : c.n = d.n => c = d
  /\ \A c, d \in calls : c.kind = d.kind /\ c.kind \in {"more", "previous"} => c = d
  /\ FlagsMatchCalls

WorkspaceInv ==
  WorkspaceTypeOK /\ ListInv /\ UnderInv /\ CallsInv /\ SelectionConsistent

-----------------------------------------------------------------------------
(* The list after an answer.                                               *)

LEMMA RowsInOrder ==
  ASSUME NEW rows \in SUBSET Ids
  PROVE  /\ InIdOrder(rows) \in Seq(rows)
         /\ \A a, b \in DOMAIN InIdOrder(rows) : InIdOrder(rows)[a] = InIdOrder(rows)[b] => a = b
  <1> DEFINE s == InIdOrder(rows)
             n == Cardinality(rows)
  <1>1. /\ s \in [1..n -> rows] /\ n \in Nat
        /\ \A a, b \in 1..n : a < b => s[a] < s[b]
    BY SortedRows
  <1>2. \A x \in rows : x \in Nat
    BY SearchAssumption
  <1> HIDE DEF s, n
  <1>3. \A a, b \in 1..n : s[a] = s[b] => a = b
    <2> SUFFICES ASSUME NEW a \in 1..n, NEW b \in 1..n, a # b PROVE s[a] # s[b]
      OBVIOUS
    <2>1. s[a] \in Nat /\ s[b] \in Nat
      BY <1>1, <1>2
    <2>2. a < b \/ b < a
      BY <1>1
    <2> QED
      BY <1>1, <2>1, <2>2
  <1>4. s \in Seq(rows) /\ DOMAIN s = 1..n
    BY <1>1
  <1> QED
    BY <1>3, <1>4 DEF s

LEMMA PageShown ==
  ASSUME NEW rows \in SUBSET Ids
  PROVE  GoodList(InIdOrder(rows), rows)
  BY RowsInOrder DEF GoodList, RowsOf

\* Two lists without a common row, one after the other.
LEMMA ListsJoined ==
  ASSUME NEW s \in Seq(Ids), NEW t \in Seq(Ids),
         \A a, b \in DOMAIN s : s[a] = s[b] => a = b,
         \A a, b \in DOMAIN t : t[a] = t[b] => a = b,
         RowsOf(s) \cap RowsOf(t) = {}
  PROVE  /\ s \o t \in Seq(Ids)
         /\ \A a, b \in DOMAIN (s \o t) : (s \o t)[a] = (s \o t)[b] => a = b
         /\ RowsOf(s \o t) \subseteq RowsOf(s) \cup RowsOf(t)
  <1>1. /\ s \o t \in Seq(Ids) /\ DOMAIN (s \o t) = 1..(Len(s) + Len(t))
        /\ DOMAIN s = 1..Len(s) /\ DOMAIN t = 1..Len(t) /\ Len(s) \in Nat /\ Len(t) \in Nat
    OBVIOUS
  <1>2. \A k \in DOMAIN (s \o t) :
          \/ k \in DOMAIN s /\ (s \o t)[k] = s[k]
          \/ k > Len(s) /\ k - Len(s) \in DOMAIN t /\ (s \o t)[k] = t[k - Len(s)]
    BY <1>1
  <1>3. \A a \in DOMAIN s, b \in DOMAIN t : s[a] # t[b]
    BY DEF RowsOf
  <1>4. \A a, b \in DOMAIN (s \o t) : (s \o t)[a] = (s \o t)[b] => a = b
    <2> SUFFICES ASSUME NEW a \in DOMAIN (s \o t), NEW b \in DOMAIN (s \o t),
                        (s \o t)[a] = (s \o t)[b]
                 PROVE  a = b
      OBVIOUS
    <2>1. a \in Nat /\ b \in Nat
      BY <1>1
    <2>2. CASE a \in DOMAIN s /\ (s \o t)[a] = s[a]
      BY <1>2, <1>3, <2>2
    <2>3. CASE a > Len(s) /\ a - Len(s) \in DOMAIN t /\ (s \o t)[a] = t[a - Len(s)]
      <3>1. b > Len(s) /\ b - Len(s) \in DOMAIN t /\ (s \o t)[b] = t[b - Len(s)]
        BY <1>2, <1>3, <2>3
      <3>2. a - Len(s) = b - Len(s)
        BY <2>3, <3>1
      <3> QED
        BY <1>1, <2>1, <3>2
    <2> QED
      BY <1>2, <2>2, <2>3
  <1> QED
    BY <1>1, <1>2, <1>4 DEF RowsOf

LEMMA PageJoined ==
  ASSUME ListInv, NEW rows \in SUBSET Ids
  PROVE  /\ GoodList(AppendFresh(rows), PathsWith(rows))
         /\ GoodList(PrependFresh(rows), PathsWith(rows))
  <1> DEFINE fresh == InIdOrder(rows \ Listed)
  <1>1. /\ fresh \in Seq(rows \ Listed) /\ fresh \in Seq(Ids)
        /\ \A a, b \in DOMAIN fresh : fresh[a] = fresh[b] => a = b
    <2>1. rows \ Listed \in SUBSET Ids
      OBVIOUS
    <2>2. /\ fresh \in Seq(rows \ Listed)
          /\ \A a, b \in DOMAIN fresh : fresh[a] = fresh[b] => a = b
      BY <2>1, RowsInOrder
    <2> HIDE DEF fresh
    <2>3. Seq(rows \ Listed) \subseteq Seq(Ids)
      BY <2>1
    <2> QED
      BY <2>2, <2>3
  <1> HIDE DEF fresh
  <1>2. RowsOf(fresh) \subseteq rows \ Listed
    BY <1>1 DEF RowsOf
  <1>3. RowsOf(fresh) \cap RowsOf(samples) = {} /\ RowsOf(samples) \cap RowsOf(fresh) = {}
    BY <1>2 DEF Listed
  <1>4. GoodList(samples \o fresh, PathsWith(rows))
    BY <1>1, <1>2, <1>3, ListsJoined DEF GoodList, ListInv, PathsWith
  <1>5. GoodList(fresh \o samples, PathsWith(rows))
    BY <1>1, <1>2, <1>3, ListsJoined DEF GoodList, ListInv, PathsWith
  <1> QED
    BY <1>4, <1>5 DEF AppendFresh, PrependFresh, fresh

-----------------------------------------------------------------------------
(* Each step keeps the lists good: the one on the screen and the snapshot. *)

LEMMA AnswersInIds ==
  ASSUME WorkspaceTypeOK
  PROVE  \A c \in calls : c \in Call /\ c.page \in SUBSET Ids
  BY DEF WorkspaceTypeOK, SearchTypeOK, Call

LEMMA ListKept ==
  ASSUME WorkspaceTypeOK, ListInv, UnderInv, UNCHANGED <<samples, paths>>
  PROVE  ListInv'
  BY DEF ListInv, GoodList, RowsOf

LEMMA UserKeepsList ==
  ASSUME (PageStep(Shown) /\ UNCHANGED workspaceVars) \/ (UserStep(Shown) /\ UNCHANGED viewVars)
  PROVE  UNCHANGED <<samples, paths, external>>
  BY DEF PageStep, LoadMore, LoadPrevious, UserStep, SubmitSearch, ClearFilters,
         ChooseInstrument, ChooseDirectory, SearchWithFacet, ClickFile, SelectSample, CloseDetails, Import, listVars, viewVars, workspaceVars

LEMMA DialogKeepsList ==
  ASSUME DialogStep
  PROVE  UNCHANGED <<samples, paths, external>>
  BY DEF DialogStep, RequestTrash, OpenEdit, RequestClearAll, CancelTrash, ConfirmTrash, CloseEdit,
         SaveMetadata, SaveClassification, searchVars

LEMMA CallStepList ==
  ASSUME WorkspaceTypeOK, ListInv, NEW c \in calls, CallStep(c)
  PROVE  ListInv'
  <1> c.page \in SUBSET Ids
    BY AnswersInIds
  <1>1. CASE ReadPage(c) \/ FailCall(c)
    BY <1>1 DEF ReadPage, FailCall, listVars, ListInv, GoodList, RowsOf
  <1>2. CASE MoreAnswered(c)
    <2>1. GoodList(samples, paths)' \/ (samples' = AppendFresh(c.page) /\ paths' = PathsWith(c.page))
      BY <1>2 DEF MoreAnswered, listVars, ListInv, GoodList, RowsOf
    <2> QED
      BY <2>1, PageJoined DEF ListInv, GoodList, RowsOf
  <1>3. CASE PreviousAnswered(c)
    <2>1. GoodList(samples, paths)' \/ (samples' = PrependFresh(c.page) /\ paths' = PathsWith(c.page))
      BY <1>3 DEF PreviousAnswered, listVars, ListInv, GoodList, RowsOf
    <2> QED
      BY <2>1, PageJoined DEF ListInv, GoodList, RowsOf
  <1>4. CASE PathAnswered(c)
    <2>1. GoodList(samples, paths)' \/ (samples' = InIdOrder(c.page) /\ paths' = c.page)
      BY <1>4 DEF PathAnswered, ShowPage, listVars, ListInv, GoodList, RowsOf
    <2> QED
      BY <2>1, PageShown DEF ListInv, GoodList, RowsOf
  <1> QED
    BY <1>1, <1>2, <1>3, <1>4 DEF CallStep

LEMMA ReturnList ==
  ASSUME WorkspaceTypeOK, ListInv, NEW c \in calls, SearchReturns(c)
  PROVE  ListInv'
  <1> c.page \in SUBSET Ids
    BY AnswersInIds
  <1>1. UNCHANGED <<samples, paths>> \/ (samples' = InIdOrder(c.page) /\ paths' = c.page)
    BY DEF SearchReturns, SearchStep, SearchAnswered, SearchSuperseded, SearchFailed, ShowPage,
           listVars
  <1> QED
    BY <1>1, PageShown DEF ListInv, GoodList, RowsOf

LEMMA JobList ==
  ASSUME ListInv, NEW j \in jobs, JobStep(j)
  PROVE  ListInv' /\ UNCHANGED external
  <1>1. CASE ClearEnds(j)
    <2>1. UNCHANGED <<samples, paths>> \/ (samples' = << >> /\ paths' = {})
      BY <1>1 DEF ClearEnds
    <2>2. GoodList(<< >>, {})
      BY DEF GoodList, RowsOf
    <2>3. ListInv'
      BY <2>1, <2>2 DEF ListInv, GoodList, RowsOf
    <2> QED
      BY <1>1, <2>3 DEF ClearEnds
  <1>2. CASE ~ClearEnds(j)
    <2>1. UNCHANGED <<samples, paths, external>>
      BY <1>2 DEF JobStep, TrashRow, TrashEnds, TrashFails, EditRow, EditEnds, EditFails, FollowUp,
                  ClearLibrary, listVars, searchVars
    <2> QED
      BY <2>1 DEF ListInv, GoodList, RowsOf
  <1> QED
    BY <1>1, <1>2

LEMMA ExternalList ==
  ASSUME WorkspaceTypeOK, ListInv, UnderInv,
         NEW results \in ExternalLists, NEW choice \in Ids \cup {None},
         ShowExternal(results, choice)
  PROVE  ListInv' /\ UnderInv'
  <1>1. ListInv'
    BY DEF ShowExternal, listVars, ListInv, GoodList, RowsOf
  <1>2. FirstSnapshot \in Under /\ GoodList(FirstSnapshot.samples, FirstSnapshot.paths)
    <2>1. CASE external = None
      BY <2>1 DEF FirstSnapshot, Snapshot, Under, WorkspaceTypeOK, SearchTypeOK, ListInv, GoodList
    <2>2. CASE external # None
      BY <2>2 DEF FirstSnapshot, UnderInv
    <2> QED
      BY <2>1, <2>2
  <1>3. external' = [results |-> results, under |-> FirstSnapshot] /\ results \in Seq(Ids)
    BY WorkspaceAssumption DEF ShowExternal
  <1>4. external'.under = FirstSnapshot /\ external' \in [results : Seq(Ids), under : Under]
    BY <1>2, <1>3
  <1> QED
    BY <1>1, <1>2, <1>4 DEF UnderInv, GoodList, RowsOf

LEMMA RestoredList ==
  ASSUME UnderInv, RestoreSearchResults
  PROVE  ListInv' /\ UnderInv'
  BY DEF RestoreSearchResults, UnderInv, ListInv, GoodList, RowsOf

LEMMA ListStep ==
  ASSUME WorkspaceInv, [Next]_allVars
  PROVE  ListInv' /\ UnderInv'
  <1> WorkspaceTypeOK /\ ListInv /\ UnderInv
    BY DEF WorkspaceInv
  <1>0. UNCHANGED <<samples, paths>> => ListInv'
    BY DEF ListInv, GoodList, RowsOf
  <1>1. UNCHANGED external => UnderInv'
    BY DEF UnderInv, GoodList, RowsOf
  <1>2. CASE PageStep(Shown) /\ UNCHANGED workspaceVars
    BY <1>0, <1>1, <1>2, UserKeepsList
  <1>3. CASE UserStep(Shown) /\ UNCHANGED viewVars
    BY <1>0, <1>1, <1>3, UserKeepsList
  <1>4. CASE DialogStep
    BY <1>0, <1>1, <1>4, DialogKeepsList
  <1>5. CASE BackendStep
    BY <1>1, <1>5, CallStepList DEF BackendStep, workspaceVars, viewVars
  <1>6. CASE ReturnStep
    BY <1>1, <1>6, ReturnList DEF ReturnStep, SearchReturns
  <1>7. CASE \E j \in jobs : JobStep(j)
    BY <1>1, <1>7, JobList
  <1>8. CASE \E results \in ExternalLists, choice \in Ids \cup {None} :
               ShowExternal(results, choice)
    BY <1>8, ExternalList
  <1>9. CASE RestoreSearchResults
    BY <1>9, RestoredList
  <1>10. CASE UNCHANGED allVars
    BY <1>0, <1>1, <1>10 DEF allVars, searchVars, workspaceVars, viewVars
  <1> QED
    BY <1>2, <1>3, <1>4, <1>5, <1>6, <1>7, <1>8, <1>9, <1>10 DEF Next

-----------------------------------------------------------------------------
(* Each step keeps the selection consistent.                               *)

LEMMA SetSelectedConsistent ==
  ASSUME NEW id \in Ids \cup {None}, SetSelected(id)
  PROVE  SelectionConsistent' /\ selected' \in Ids \cup {None} /\ selectedIds' \subseteq Ids
  BY SearchAssumption DEF SetSelected, SelectionConsistent

\* The end of a range is in it.
LEMMA RangeHolds ==
  ASSUME NEW shown \in Seq(Ids), NEW id \in RowsOf(shown), selected \in RowsOf(shown)
  PROVE  id \in RangeTo(shown, id) /\ RangeTo(shown, id) \subseteq Ids
  <1> DEFINE a == PositionIn(shown, selected)
             b == PositionIn(shown, id)
  <1>1. a \in DOMAIN shown /\ b \in DOMAIN shown /\ shown[b] = id
    BY DEF RowsOf, PositionIn
  <1>2. DOMAIN shown = 1..Len(shown) /\ Len(shown) \in Nat
    OBVIOUS
  <1> HIDE DEF a, b
  <1>3. b \in (a..b) \cup (b..a) /\ (a..b) \cup (b..a) \subseteq DOMAIN shown
    BY <1>1, <1>2
  <1> QED
    BY <1>1, <1>3 DEF RangeTo, a, b

LEMMA UserSelection ==
  ASSUME WorkspaceTypeOK, ListInv, UnderInv, SelectionConsistent,
         (PageStep(Shown) /\ UNCHANGED workspaceVars) \/ UserStep(Shown)
  PROVE  SelectionConsistent' /\ selected' \in Ids \cup {None} /\ selectedIds' \subseteq Ids
  <1>0. selected \in Ids \cup {None} /\ selectedIds \subseteq Ids
    BY DEF WorkspaceTypeOK, SearchTypeOK
  <1>1. Shown \in Seq(Ids)
    BY DEF Shown, ListInv, GoodList, UnderInv
  <1>2. ASSUME NEW id \in Ids, NEW shift \in BOOLEAN, SelectSample(Shown, id, shift)
        PROVE  SelectionConsistent' /\ selected' \in Ids \cup {None} /\ selectedIds' \subseteq Ids
    <2>1. id \in RowsOf(Shown) /\ selected' = id
      BY <1>2 DEF SelectSample
    <2>2. selectedIds' = {id} \/ (selected \in RowsOf(Shown) /\ selectedIds' = RangeTo(Shown, id))
      BY <1>2 DEF SelectSample
    <2>3. id \in selectedIds' /\ selectedIds' \subseteq Ids
      BY <1>1, <2>1, <2>2, RangeHolds
    <2> QED
      BY <2>1, <2>3, SearchAssumption DEF SelectionConsistent
  <1>3. CASE UNCHANGED selectionVars
    BY <1>0, <1>3 DEF selectionVars, SelectionConsistent
  <1>4. CASE selected' = None /\ selectedIds' = {}
    BY <1>4 DEF SelectionConsistent
  <1>5. \/ UNCHANGED selectionVars
        \/ selected' = None /\ selectedIds' = {}
        \/ \E id \in Ids, shift \in BOOLEAN : SelectSample(Shown, id, shift)
    BY DEF PageStep, LoadMore, LoadPrevious, UserStep, SubmitSearch, ClearFilters,
           ChooseInstrument, ChooseDirectory, ClickFile, CloseDetails, SetSelected, Import
  <1> QED
    BY <1>2, <1>3, <1>4, <1>5

LEMMA AnswerSelection ==
  ASSUME WorkspaceTypeOK, CallsInv, SelectionConsistent, NEW c \in calls,
         CallStep(c) \/ SearchReturns(c)
  PROVE  SelectionConsistent' /\ selected' \in Ids \cup {None} /\ selectedIds' \subseteq Ids
  <1>0. selected \in Ids \cup {None} /\ selectedIds \subseteq Ids
    BY DEF WorkspaceTypeOK, SearchTypeOK
  <1>1. \/ UNCHANGED selectionVars
        \/ SetSelected(selected)
        \/ SetSelected(None)
        \/ c.kind = "path" /\ SetSelected(c.at)
    BY DEF CallStep, ReadPage, FailCall, MoreAnswered, PreviousAnswered, PathAnswered,
           SearchReturns, SearchStep, SearchAnswered, SearchSuperseded, SearchFailed
  <1>2. c.kind = "path" => c.at \in Ids
    BY DEF CallsInv
  <1>3. CASE UNCHANGED selectionVars
    BY <1>0, <1>3 DEF selectionVars, SelectionConsistent
  <1> QED
    BY <1>0, <1>1, <1>2, <1>3, SetSelectedConsistent

LEMMA JobSelection ==
  ASSUME WorkspaceTypeOK, SelectionConsistent, NEW j \in jobs, JobStep(j)
  PROVE  SelectionConsistent' /\ selected' \in Ids \cup {None} /\ selectedIds' \subseteq Ids
  <1>0. selected \in Ids \cup {None} /\ selectedIds \subseteq Ids
    BY DEF WorkspaceTypeOK, SearchTypeOK
  <1>1. \/ UNCHANGED selectionVars
        \/ SetSelected(selected)
        \/ SetSelected(None)
    BY DEF JobStep, TrashRow, TrashEnds, TrashFails, EditRow, EditEnds, EditFails, FollowUp,
           ClearLibrary, ClearEnds, searchVars, selectionVars
  <1>2. CASE UNCHANGED selectionVars
    BY <1>0, <1>2 DEF selectionVars, SelectionConsistent
  <1> QED
    BY <1>0, <1>1, <1>2, SetSelectedConsistent

LEMMA SelectionStep ==
  ASSUME WorkspaceInv, [Next]_allVars
  PROVE  SelectionConsistent' /\ selected' \in Ids \cup {None} /\ selectedIds' \subseteq Ids
  <1> WorkspaceTypeOK /\ ListInv /\ UnderInv /\ CallsInv /\ SelectionConsistent
    BY DEF WorkspaceInv
  <1>0. selected \in Ids \cup {None} /\ selectedIds \subseteq Ids
    BY DEF WorkspaceTypeOK, SearchTypeOK
  <1>1. CASE UNCHANGED selectionVars
    BY <1>0, <1>1 DEF selectionVars, SelectionConsistent
  <1>2. CASE PageStep(Shown) /\ UNCHANGED workspaceVars
    BY <1>2, UserSelection
  <1>3. CASE UserStep(Shown)
    BY <1>3, UserSelection
  <1>4. CASE DialogStep
    BY <1>1, <1>4 DEF DialogStep, RequestTrash, OpenEdit, RequestClearAll, CancelTrash,
                      ConfirmTrash, CloseEdit, SaveMetadata, SaveClassification, searchVars,
                      selectionVars
  <1>5. CASE BackendStep
    BY <1>5, AnswerSelection DEF BackendStep
  <1>6. CASE ReturnStep
    BY <1>6, AnswerSelection DEF ReturnStep
  <1>7. CASE \E j \in jobs : JobStep(j)
    BY <1>7, JobSelection
  <1>8. CASE \E results \in ExternalLists, choice \in Ids \cup {None} :
               ShowExternal(results, choice)
    BY <1>8, SetSelectedConsistent DEF ShowExternal
  <1>9. CASE RestoreSearchResults
    <2>1. external.under.selected \in Ids \cup {None}
      BY <1>9 DEF RestoreSearchResults, UnderInv, Under
    <2> QED
      BY <1>9, <2>1, SetSelectedConsistent DEF RestoreSearchResults
  <1>10. CASE UNCHANGED allVars
    BY <1>1, <1>10 DEF allVars, searchVars, selectionVars
  <1> QED
    BY <1>2, <1>3, <1>4, <1>5, <1>6, <1>7, <1>8, <1>9, <1>10 DEF Next

-----------------------------------------------------------------------------
(* Each step keeps the calls numbered, and the flags in agreement.         *)

\* A call with the next number, of a kind that is not under way unless it is a
\* search, which becomes the newest, or a jump.
LEMMA CallSent ==
  ASSUME WorkspaceTypeOK, CallsInv, NEW kind \in {"search", "more", "previous", "path"},
         NEW q, NEW f, NEW at, Send(kind, q, f, at),
         kind = "path" => at \in Ids,
         IF kind = "search" THEN newest' = sent /\ searching' = TRUE
         ELSE UNCHANGED <<newest, searching>>,
         loadingMore' = (loadingMore \/ kind = "more"), kind = "more" => ~loadingMore,
         loadingPrev' = (loadingPrev \/ kind = "previous"), kind = "previous" => ~loadingPrev
  PROVE  CallsInv'
  <1> DEFINE new == [n |-> sent, kind |-> kind, query |-> q, facet |-> f,
                     at |-> at, base |-> offset, state |-> "sent", page |-> {}]
  <1>1. calls' = calls \cup {new} /\ sent' = sent + 1
    BY DEF Send
  <1>2. new.n = sent /\ new.kind = kind /\ new.at = at
    OBVIOUS
  <1>3. /\ sent \in Nat /\ newest \in Nat
        /\ loadingMore \in BOOLEAN /\ loadingPrev \in BOOLEAN /\ searching \in BOOLEAN
        /\ \A c \in calls : c.n \in Nat /\ c.n < sent
    BY DEF WorkspaceTypeOK, SearchTypeOK, Call, CallsInv
  <1> HIDE DEF new
  <1>4. \A c \in calls' : c.n < sent' /\ (c.kind = "path" => c.at \in Ids)
    BY <1>1, <1>2, <1>3 DEF CallsInv
  <1>5. \A c, d \in calls' : c.n = d.n => c = d
    BY <1>1, <1>2, <1>3 DEF CallsInv
  <1>6. \A c, d \in calls' : c.kind = d.kind /\ c.kind \in {"more", "previous"} => c = d
    BY <1>1, <1>2 DEF CallsInv, FlagsMatchCalls
  <1>7. searching' <=> \E c \in calls' : c.kind = "search" /\ c.n = newest'
    BY <1>1, <1>2, <1>3 DEF CallsInv, FlagsMatchCalls
  <1>8. /\ loadingMore' <=> \E c \in calls' : c.kind = "more"
        /\ loadingPrev' <=> \E c \in calls' : c.kind = "previous"
    BY <1>1, <1>2, <1>3 DEF CallsInv, FlagsMatchCalls
  <1> QED
    BY <1>4, <1>5, <1>6, <1>7, <1>8 DEF CallsInv, FlagsMatchCalls

\* What the backend does to a call changes neither its number nor its kind.
LEMMA CallRead ==
  ASSUME WorkspaceTypeOK, CallsInv, NEW c \in calls, ReadPage(c) \/ FailCall(c)
  PROVE  CallsInv'
  <1>1. PICK d : /\ calls' = (calls \ {c}) \cup {d}
                 /\ d.n = c.n /\ d.kind = c.kind /\ d.at = c.at
    <2>1. c \in Call
      BY DEF WorkspaceTypeOK, SearchTypeOK
    <2>2. CASE ReadPage(c)
      <3> DEFINE d == [c EXCEPT !.state = "read", !.page = Answer(c)]
      <3>1. calls' = (calls \ {c}) \cup {d}
        BY <2>2 DEF ReadPage
      <3>2. d.n = c.n /\ d.kind = c.kind /\ d.at = c.at
        BY <2>1 DEF Call
      <3> HIDE DEF d
      <3> QED
        BY <3>1, <3>2
    <2>3. CASE FailCall(c)
      <3> DEFINE d == [c EXCEPT !.state = "failed"]
      <3>1. calls' = (calls \ {c}) \cup {d}
        BY <2>3 DEF FailCall
      <3>2. d.n = c.n /\ d.kind = c.kind /\ d.at = c.at
        BY <2>1 DEF Call
      <3> HIDE DEF d
      <3> QED
        BY <3>1, <3>2
    <2> QED
      BY <2>2, <2>3
  <1>2. UNCHANGED <<sent, newest, searching, loadingMore, loadingPrev>>
    BY DEF ReadPage, FailCall, loadVars
  <1>3. /\ \A x \in calls' : x.n < sent' /\ (x.kind = "path" => x.at \in Ids)
        /\ \A x, y \in calls' : x.n = y.n => x = y
    BY <1>1, <1>2 DEF CallsInv
  <1>4. \A x, y \in calls' : x.kind = y.kind /\ x.kind \in {"more", "previous"} => x = y
    BY <1>1 DEF CallsInv
  <1>5. FlagsMatchCalls'
    <2>1. /\ (\E x \in calls' : x.kind = "search" /\ x.n = newest)
               <=> \E x \in calls : x.kind = "search" /\ x.n = newest
          /\ (\E x \in calls' : x.kind = "more") <=> \E x \in calls : x.kind = "more"
          /\ (\E x \in calls' : x.kind = "previous") <=> \E x \in calls : x.kind = "previous"
      BY <1>1
    <2> QED
      BY <1>2, <2>1 DEF CallsInv, FlagsMatchCalls
  <1> QED
    BY <1>3, <1>4, <1>5 DEF CallsInv

\* An answer ends the flag of its call: no other call has its number, and no
\* other page load its kind.
LEMMA CallEnded ==
  ASSUME CallsInv, NEW c \in calls, calls' = calls \ {c}, UNCHANGED <<sent, newest>>,
         searching' = IF c.kind = "search" /\ c.n = newest THEN FALSE ELSE searching,
         loadingMore' = IF c.kind = "more" THEN FALSE ELSE loadingMore,
         loadingPrev' = IF c.kind = "previous" THEN FALSE ELSE loadingPrev
  PROVE  CallsInv'
  <1>1. /\ \A x \in calls' : x.n < sent' /\ (x.kind = "path" => x.at \in Ids)
        /\ \A x, y \in calls' : x.n = y.n => x = y
        /\ \A x, y \in calls' : x.kind = y.kind /\ x.kind \in {"more", "previous"} => x = y
    BY DEF CallsInv
  <1>2. searching' <=> \E x \in calls' : x.kind = "search" /\ x.n = newest'
    BY DEF CallsInv, FlagsMatchCalls
  <1>3. loadingMore' <=> \E x \in calls' : x.kind = "more"
    BY DEF CallsInv, FlagsMatchCalls
  <1>4. loadingPrev' <=> \E x \in calls' : x.kind = "previous"
    BY DEF CallsInv, FlagsMatchCalls
  <1> QED
    BY <1>1, <1>2, <1>3, <1>4 DEF CallsInv, FlagsMatchCalls

callVars == <<calls, sent, newest, searching, loadVars>>

LEMMA CallsKept ==
  ASSUME CallsInv, UNCHANGED callVars
  PROVE  CallsInv'
  BY DEF CallsInv, FlagsMatchCalls, callVars, loadVars

\* Clearing the filters sends two searches; the second one is the newest.
LEMMA TwoSent ==
  ASSUME WorkspaceTypeOK, CallsInv, ClearFilters
  PROVE  CallsInv'
  <1> DEFINE new(k) == [n |-> sent + k, kind |-> "search", query |-> EmptyQuery, at |-> 0,
                        base |-> offset, state |-> "sent",
                        facet |-> IF k = 0 THEN facet ELSE NoFacet, page |-> {}]
  <1>1. /\ calls' = calls \cup {new(0), new(1)} /\ sent' = sent + 2
        /\ newest' = sent + 1 /\ searching' = TRUE
        /\ UNCHANGED loadVars
    BY DEF ClearFilters
  <1>2. /\ new(0).n = sent + 0 /\ new(0).kind = "search"
        /\ new(1).n = sent + 1 /\ new(1).kind = "search"
    OBVIOUS
  <1>3. /\ sent \in Nat /\ \A c \in calls : c.n \in Nat /\ c.n < sent
    BY DEF WorkspaceTypeOK, SearchTypeOK, Call, CallsInv
  <1> HIDE DEF new
  <1>4. \A c \in calls' : c.n < sent' /\ (c.kind = "path" => c.at \in Ids)
    BY <1>1, <1>2, <1>3 DEF CallsInv
  <1>5. \A c, d \in calls' : c.n = d.n => c = d
    BY <1>1, <1>2, <1>3 DEF CallsInv
  <1>6. \A c, d \in calls' : c.kind = d.kind /\ c.kind \in {"more", "previous"} => c = d
    BY <1>1, <1>2 DEF CallsInv
  <1>7. FlagsMatchCalls'
    BY <1>1, <1>2 DEF CallsInv, FlagsMatchCalls, loadVars
  <1> QED
    BY <1>4, <1>5, <1>6, <1>7 DEF CallsInv

LEMMA SearchSent ==
  ASSUME WorkspaceTypeOK, CallsInv, NEW q, NEW f, StartSearch(q, f), UNCHANGED loadVars
  PROVE  CallsInv'
  <1>1. Send("search", q, f, 0) /\ newest' = sent /\ searching' = TRUE
    BY DEF StartSearch
  <1>2. UNCHANGED <<loadingMore, loadingPrev>> /\ loadingMore \in BOOLEAN /\ loadingPrev \in BOOLEAN
    BY DEF loadVars, WorkspaceTypeOK, SearchTypeOK
  <1> QED
    BY <1>1, <1>2, CallSent

LEMMA UserCalls ==
  ASSUME WorkspaceTypeOK, CallsInv, UserStep(Shown)
  PROVE  CallsInv'
  <1>1. ASSUME NEW q \in Queries, SubmitSearch(q) PROVE CallsInv'
    BY <1>1, SearchSent DEF SubmitSearch
  <1>2. CASE ClearFilters
    BY <1>2, TwoSent
  <1>3. ASSUME NEW f, SearchWithFacet(f), UNCHANGED loadVars PROVE CallsInv'
    BY <1>3, SearchSent DEF SearchWithFacet
  <1>4. ASSUME NEW i \in Instruments \cup {Any}, ChooseInstrument(i) PROVE CallsInv'
    BY <1>3, <1>4 DEF ChooseInstrument
  <1>5. ASSUME NEW d \in Directories \cup {Any}, ChooseDirectory(d) PROVE CallsInv'
    BY <1>3, <1>5 DEF ChooseDirectory
  <1>6. ASSUME NEW id \in Ids, ClickFile(id) PROVE CallsInv'
    <2>1. /\ Send("path", search, facet, id) /\ UNCHANGED <<loadingMore, loadingPrev>>
          /\ UNCHANGED <<newest, searching>>
      BY <1>6 DEF ClickFile, loadVars
    <2>2. loadingMore \in BOOLEAN /\ loadingPrev \in BOOLEAN
      BY DEF WorkspaceTypeOK, SearchTypeOK
    <2> QED
      BY <2>1, <2>2, CallSent
  <1>7. CASE CloseDetails \/ \E id \in Ids, shift \in BOOLEAN : SelectSample(Shown, id, shift)
    BY <1>7, CallsKept DEF CloseDetails, SelectSample, callVars, loadVars
  <1>8. CASE \E id \in Ids, i \in Instruments : Import(id, i)
    BY <1>8, CallsKept DEF Import, callVars, loadVars
  <1> QED
    BY <1>1, <1>2, <1>4, <1>5, <1>6, <1>7, <1>8 DEF UserStep

LEMMA PageCalls ==
  ASSUME WorkspaceTypeOK, CallsInv, PageStep(Shown)
  PROVE  CallsInv'
  <1>0. loadingMore \in BOOLEAN /\ loadingPrev \in BOOLEAN
    BY DEF WorkspaceTypeOK, SearchTypeOK
  <1>1. CASE LoadMore(Shown)
    <2>1. /\ Send("more", search, facet, offset + Len(samples)) /\ ~loadingMore
          /\ loadingMore' = TRUE /\ UNCHANGED <<loadingPrev, newest, searching>>
      BY <1>1 DEF LoadMore
    <2> QED
      BY <1>0, <2>1, CallSent
  <1>2. CASE LoadPrevious
    <2>1. /\ Send("previous", search, facet, PreviousOffset) /\ ~loadingPrev
          /\ loadingPrev' = TRUE /\ UNCHANGED <<loadingMore, newest, searching>>
      BY <1>2 DEF LoadPrevious
    <2> QED
      BY <1>0, <2>1, CallSent
  <1> QED
    BY <1>1, <1>2 DEF PageStep

LEMMA AnswerCalls ==
  ASSUME WorkspaceTypeOK, CallsInv, NEW c \in calls, CallStep(c) \/ SearchReturns(c)
  PROVE  CallsInv'
  <1>1. CASE ReadPage(c) \/ FailCall(c)
    BY <1>1, CallRead
  <1>2. CASE MoreAnswered(c)
    <2>1. /\ calls' = calls \ {c} /\ c.kind = "more" /\ loadingMore' = FALSE
          /\ UNCHANGED <<loadingPrev, searching, newest, sent>>
      BY <1>2 DEF MoreAnswered, MoreEnds
    <2> QED
      BY <2>1, CallEnded
  <1>3. CASE PreviousAnswered(c)
    <2>1. /\ calls' = calls \ {c} /\ c.kind = "previous" /\ loadingPrev' = FALSE
          /\ UNCHANGED <<loadingMore, searching, newest, sent>>
      BY <1>3 DEF PreviousAnswered
    <2> QED
      BY <2>1, CallEnded
  <1>4. CASE PathAnswered(c)
    <2>1. /\ calls' = calls \ {c} /\ c.kind = "path"
          /\ UNCHANGED <<loadingMore, loadingPrev, searching, newest, sent>>
      BY <1>4 DEF PathAnswered, loadVars
    <2> QED
      BY <2>1, CallEnded
  <1>5. CASE SearchAnswered(c) \/ SearchFailed(c)
    <2>1. /\ calls' = calls \ {c} /\ c.kind = "search" /\ c.n = newest /\ searching' = FALSE
          /\ UNCHANGED <<loadingMore, loadingPrev, newest, sent>>
      BY <1>5 DEF SearchAnswered, SearchFailed, StopSearching, IsNewest, loadVars
    <2> QED
      BY <2>1, CallEnded
  <1>6. CASE SearchSuperseded(c)
    <2>1. /\ calls' = calls \ {c} /\ c.kind = "search" /\ c.n # newest
          /\ UNCHANGED <<loadingMore, loadingPrev, searching, newest, sent>>
      BY <1>6 DEF SearchSuperseded, IsNewest, loadVars
    <2> QED
      BY <2>1, CallEnded
  <1> QED
    BY <1>1, <1>2, <1>3, <1>4, <1>5, <1>6 DEF CallStep, SearchReturns, SearchStep

LEMMA CallsStep ==
  ASSUME WorkspaceInv, [Next]_allVars
  PROVE  CallsInv'
  <1> WorkspaceTypeOK /\ CallsInv
    BY DEF WorkspaceInv
  <1>1. CASE PageStep(Shown) /\ UNCHANGED workspaceVars
    BY <1>1, PageCalls
  <1>2. CASE UserStep(Shown)
    BY <1>2, UserCalls
  <1>3. CASE DialogStep
    BY <1>3, CallsKept DEF DialogStep, RequestTrash, OpenEdit, RequestClearAll, CancelTrash,
                           ConfirmTrash, CloseEdit, SaveMetadata, SaveClassification, searchVars,
                           callVars, loadVars
  <1>4. CASE BackendStep
    BY <1>4, AnswerCalls DEF BackendStep
  <1>5. CASE ReturnStep
    BY <1>5, AnswerCalls DEF ReturnStep
  <1>6. ASSUME NEW j \in jobs, JobStep(j) PROVE CallsInv'
    <2>1. CASE FollowUp(j)
      BY <2>1, SearchSent DEF FollowUp
    <2>2. CASE ~FollowUp(j)
      BY <1>6, <2>2, CallsKept DEF JobStep, TrashRow, TrashEnds, TrashFails, EditRow, EditEnds,
                                   EditFails, ClearLibrary, ClearEnds, searchVars, callVars,
                                   loadVars
    <2> QED
      BY <2>1, <2>2
  <1>7. CASE \E results \in ExternalLists, choice \in Ids \cup {None} :
               ShowExternal(results, choice)
    BY <1>7, CallsKept DEF ShowExternal, callVars, loadVars
  <1>8. CASE RestoreSearchResults
    <2>1. UNCHANGED loadVars
      BY <1>8 DEF RestoreSearchResults
    <2>2. StartSearch(search', facet') \/ UNCHANGED callVars
      BY <1>8 DEF RestoreSearchResults, callVars, loadVars
    <2> QED
      BY <2>1, <2>2, SearchSent, CallsKept
  <1>9. CASE UNCHANGED allVars
    BY <1>9, CallsKept DEF allVars, searchVars, callVars, loadVars
  <1> QED
    BY <1>1, <1>2, <1>3, <1>4, <1>5, <1>6, <1>7, <1>8, <1>9 DEF Next

-----------------------------------------------------------------------------
(* Types.                                                                  *)

\* The filters, the offset and the flags.
FormTypeOK ==
  /\ search \in Queries /\ facet \in Facets /\ offset \in Nat
  /\ newest \in Nat /\ sent \in Nat
FlagTypeOK ==
  /\ canMore \in BOOLEAN /\ canPrevious \in BOOLEAN /\ lastFull \in BOOLEAN
  /\ loadingMore \in BOOLEAN /\ loadingPrev \in BOOLEAN /\ searching \in BOOLEAN
  /\ disturbed \in BOOLEAN

LEMMA CallFields ==
  ASSUME WorkspaceTypeOK, NEW c \in calls
  PROVE  c \in Call /\ c.at \in Nat /\ c.n \in Nat /\ c.page \in SUBSET Ids
  BY DEF WorkspaceTypeOK, SearchTypeOK, Call

LEMMA JobFields ==
  ASSUME WorkspaceTypeOK, NEW j \in jobs
  PROVE  /\ j \in Job /\ j.id \in Ids \cup {ClearAll} /\ j.query \in Queries /\ j.facet \in Facets
         /\ j.instrument \in Instruments \cup {None} /\ j.todo \subseteq Ids
  BY DEF WorkspaceTypeOK, Job

LEMMA FacetTypes ==
  ASSUME facet \in Facets
  PROVE  /\ NoFacet \in Facets
         /\ \A i \in Instruments \cup {Any} : [facet EXCEPT !.instrument = i] \in Facets
         /\ \A d \in Directories \cup {Any} : [facet EXCEPT !.directory = d] \in Facets
  BY DEF Facets, NoFacet

LEMMA UserForm ==
  ASSUME WorkspaceTypeOK, UserStep(Shown) \/ PageStep(Shown)
  PROVE  FormTypeOK' /\ FlagTypeOK'
  <1>0. FormTypeOK /\ FlagTypeOK
    BY DEF WorkspaceTypeOK, SearchTypeOK, FormTypeOK, FlagTypeOK
  <1>1. /\ NoFacet \in Facets
        /\ \A i \in Instruments \cup {Any} : [facet EXCEPT !.instrument = i] \in Facets
        /\ \A d \in Directories \cup {Any} : [facet EXCEPT !.directory = d] \in Facets
    BY <1>0, FacetTypes DEF FormTypeOK
  <1>2. FormTypeOK'
    BY <1>0, <1>1, SearchAssumption
       DEF FormTypeOK, PageStep, LoadMore, LoadPrevious, UserStep, SubmitSearch, ClearFilters,
           ChooseInstrument, ChooseDirectory, SearchWithFacet, StartSearch, Send, ClickFile,
           SelectSample, CloseDetails, Import, listVars, filterVars
  <1>3. FlagTypeOK'
    BY <1>0, ZenonT(40)
       DEF FlagTypeOK, PageStep, LoadMore, LoadPrevious, UserStep, SubmitSearch, ClearFilters,
           ChooseInstrument, ChooseDirectory, SearchWithFacet, StartSearch, ClickFile,
           SelectSample, CloseDetails, Import, listVars, loadVars
  <1> QED
    BY <1>2, <1>3

LEMMA AnswerForm ==
  ASSUME WorkspaceTypeOK, NEW c \in calls, CallStep(c) \/ SearchReturns(c)
  PROVE  FormTypeOK' /\ FlagTypeOK'
  <1>0. FormTypeOK /\ FlagTypeOK /\ c.at \in Nat
    BY CallFields DEF WorkspaceTypeOK, SearchTypeOK, FormTypeOK, FlagTypeOK
  <1>1. AroundOffset(c.at) \in Nat
    <2>1. Half \in Nat
      BY SearchAssumption DEF Half
    <2> QED
      BY <1>0, <2>1 DEF AroundOffset
  <1>2. FormTypeOK'
    BY <1>0, <1>1
       DEF FormTypeOK, CallStep, ReadPage, FailCall, MoreAnswered, PreviousAnswered, PathAnswered,
           SearchReturns, SearchStep, SearchAnswered, SearchSuperseded, SearchFailed, ShowPage,
           listVars, filterVars
  <1>3. FlagTypeOK'
    <2>0. IsFull(c.page) \in BOOLEAN /\ (c.at > 0) \in BOOLEAN /\ (c.base > 0) \in BOOLEAN
          /\ (AroundOffset(c.at) > 0) \in BOOLEAN /\ (0 > 0) \in BOOLEAN
      BY DEF IsFull
    <2>1. CASE ReadPage(c) \/ FailCall(c)
      BY <1>0, <2>1 DEF FlagTypeOK, ReadPage, FailCall, listVars, loadVars
    <2>2. CASE MoreAnswered(c)
      BY <1>0, <2>0, <2>2, Zenon DEF FlagTypeOK, MoreAnswered, MoreEnds, listVars
    <2>3. CASE PreviousAnswered(c)
      BY <1>0, <2>0, <2>3, Zenon DEF FlagTypeOK, PreviousAnswered, listVars
    <2>4. CASE PathAnswered(c)
      BY <1>0, <2>0, <2>4, Zenon DEF FlagTypeOK, PathAnswered, ShowPage, listVars, loadVars
    <2>5. CASE SearchReturns(c)
      BY <1>0, <2>0, <2>5, Zenon
         DEF FlagTypeOK, SearchReturns, SearchStep, SearchAnswered, SearchSuperseded,
             SearchFailed, ShowPage, StopSearching, listVars, loadVars
    <2> QED
      BY <2>1, <2>2, <2>3, <2>4, <2>5 DEF CallStep
  <1> QED
    BY <1>2, <1>3

LEMMA FormStep ==
  ASSUME WorkspaceInv, [Next]_allVars
  PROVE  FormTypeOK' /\ FlagTypeOK'
  <1> WorkspaceTypeOK /\ UnderInv
    BY DEF WorkspaceInv
  <1>0. FormTypeOK /\ FlagTypeOK
    BY DEF WorkspaceTypeOK, SearchTypeOK, FormTypeOK, FlagTypeOK
  <1>1. CASE PageStep(Shown) \/ UserStep(Shown)
    BY <1>1, UserForm
  <1>2. CASE DialogStep
    BY <1>0, <1>2 DEF DialogStep, RequestTrash, OpenEdit, RequestClearAll, CancelTrash,
                      ConfirmTrash, CloseEdit, SaveMetadata, SaveClassification, searchVars,
                      FormTypeOK, FlagTypeOK
  <1>3. CASE BackendStep
    BY <1>3, AnswerForm DEF BackendStep
  <1>4. CASE ReturnStep
    BY <1>4, AnswerForm DEF ReturnStep
  <1>5. ASSUME NEW j \in jobs, JobStep(j) PROVE FormTypeOK' /\ FlagTypeOK'
    <2>1. FormTypeOK'
      <3>1. CASE FollowUp(j)
        BY <1>0, <3>1 DEF FollowUp, StartSearch, Send, filterVars, listVars, FormTypeOK
      <3>2. CASE ~FollowUp(j)
        BY <1>0, <1>5, <3>2
           DEF JobStep, TrashRow, TrashEnds, TrashFails, EditRow, EditEnds, EditFails,
               ClearLibrary, ClearEnds, searchVars, filterVars, listVars, FormTypeOK
      <3> QED
        BY <3>1, <3>2
    <2>2. FlagTypeOK'
      BY <1>0, <1>5, ZenonT(40)
         DEF JobStep, TrashRow, TrashEnds, TrashFails, EditRow, EditEnds, EditFails, ClearLibrary,
             ClearEnds, FollowUp, StartSearch, searchVars, loadVars, listVars, FlagTypeOK
    <2> QED
      BY <2>1, <2>2
  <1>6. CASE \E results \in ExternalLists, choice \in Ids \cup {None} :
               ShowExternal(results, choice)
    BY <1>0, <1>6 DEF ShowExternal, filterVars, listVars, loadVars, FormTypeOK, FlagTypeOK
  <1>7. CASE RestoreSearchResults
    <2>1. external.under.search \in Queries /\ external.under.facet \in Facets
      BY <1>7 DEF RestoreSearchResults, UnderInv, Under
    <2>2. FormTypeOK'
      BY <1>0, <1>7, <2>1 DEF RestoreSearchResults, StartSearch, Send, FormTypeOK
    <2>3. FlagTypeOK'
      BY <1>0, <1>7 DEF RestoreSearchResults, StartSearch, loadVars, FlagTypeOK
    <2> QED
      BY <2>2, <2>3
  <1>8. CASE UNCHANGED allVars
    BY <1>0, <1>8 DEF allVars, searchVars, FormTypeOK, FlagTypeOK
  <1> QED
    BY <1>1, <1>2, <1>3, <1>4, <1>5, <1>6, <1>7, <1>8 DEF Next

LEMMA AnswerTypes ==
  ASSUME WorkspaceTypeOK, NEW c \in calls
  PROVE  Answer(c) \in SUBSET Ids
  <1>1. Page(Matching(c.query, c.facet), c.at) \subseteq Ids
    BY DEF Page, Matching, Present
  <1>2. Around(c.at) \subseteq Ids
    BY DEF Around, Present
  <1>3. c.kind \in {"search", "more", "previous", "path"}
    BY CallFields DEF Call
  <1> QED
    BY <1>1, <1>2, <1>3 DEF Answer

\* A call that is sent names what the window asks for.
LEMMA SendTypes ==
  ASSUME WorkspaceTypeOK, NEW kind \in {"search", "more", "previous", "path"},
         NEW q \in Queries, NEW f \in Facets, NEW at \in Nat, Send(kind, q, f, at)
  PROVE  (calls \subseteq Call)'
  BY DEF Send, WorkspaceTypeOK, SearchTypeOK, Call

LEMMA UserCallTypes ==
  ASSUME WorkspaceTypeOK, UserStep(Shown) \/ PageStep(Shown)
  PROVE  (calls \subseteq Call)'
  <1>0. /\ calls \subseteq Call /\ search \in Queries /\ facet \in Facets /\ offset \in Nat
        /\ sent \in Nat /\ Len(samples) \in Nat /\ 0 \in Nat /\ Ids \subseteq Nat
        /\ EmptyQuery \in Queries
    BY SearchAssumption DEF WorkspaceTypeOK, SearchTypeOK
  <1>1. /\ NoFacet \in Facets
        /\ \A i \in Instruments \cup {Any} : [facet EXCEPT !.instrument = i] \in Facets
        /\ \A d \in Directories \cup {Any} : [facet EXCEPT !.directory = d] \in Facets
    BY <1>0, FacetTypes
  <1>2. ASSUME NEW q \in Queries, SubmitSearch(q) PROVE (calls \subseteq Call)'
    BY <1>0, <1>2, SendTypes DEF SubmitSearch, StartSearch
  <1>3. CASE ClearFilters
    <2>1. ASSUME NEW k \in {0, 1}
          PROVE  [n |-> sent + k, kind |-> "search", query |-> EmptyQuery, at |-> 0,
                  base |-> offset, state |-> "sent",
                  facet |-> IF k = 0 THEN facet ELSE NoFacet, page |-> {}] \in Call
      BY <1>0, <1>1 DEF Call
    <2> QED
      BY <1>0, <1>3, <2>1 DEF ClearFilters
  <1>4. ASSUME NEW f \in Facets, SearchWithFacet(f) PROVE (calls \subseteq Call)'
    BY <1>0, <1>4, SendTypes DEF SearchWithFacet, StartSearch
  <1>5. ASSUME NEW i \in Instruments \cup {Any}, ChooseInstrument(i) PROVE (calls \subseteq Call)'
    BY <1>1, <1>4, <1>5 DEF ChooseInstrument
  <1>6. ASSUME NEW d \in Directories \cup {Any}, ChooseDirectory(d) PROVE (calls \subseteq Call)'
    BY <1>1, <1>4, <1>6 DEF ChooseDirectory
  <1>7. ASSUME NEW id \in Ids, ClickFile(id) PROVE (calls \subseteq Call)'
    BY <1>0, <1>7, SendTypes DEF ClickFile
  <1>8. CASE LoadMore(Shown)
    BY <1>0, <1>8, SendTypes DEF LoadMore
  <1>9. CASE LoadPrevious
    <2>1. PreviousOffset \in Nat
      BY <1>0, SearchAssumption DEF PreviousOffset
    <2> QED
      BY <1>0, <1>9, <2>1, SendTypes DEF LoadPrevious
  <1>10. CASE UNCHANGED calls
    BY <1>0, <1>10
  <1> QED
    BY <1>2, <1>3, <1>5, <1>6, <1>7, <1>8, <1>9, <1>10
       DEF UserStep, PageStep, CloseDetails, SelectSample, Import

LEMMA AnswerCallTypes ==
  ASSUME WorkspaceTypeOK, NEW c \in calls, CallStep(c) \/ SearchReturns(c)
  PROVE  (calls \subseteq Call)'
  <1>0. calls \subseteq Call /\ c \in Call /\ Answer(c) \in SUBSET Ids
    BY AnswerTypes DEF WorkspaceTypeOK, SearchTypeOK
  <1>1. CASE ReadPage(c)
    <2>1. [c EXCEPT !.state = "read", !.page = Answer(c)] \in Call
      BY <1>0 DEF Call
    <2> QED
      BY <1>0, <1>1, <2>1 DEF ReadPage
  <1>2. CASE FailCall(c)
    <2>1. [c EXCEPT !.state = "failed"] \in Call
      BY <1>0 DEF Call
    <2> QED
      BY <1>0, <1>2, <2>1 DEF FailCall
  <1>3. CASE calls' = calls \ {c} \/ UNCHANGED calls
    BY <1>0, <1>3
  <1> QED
    BY <1>1, <1>2, <1>3 DEF CallStep, MoreAnswered, PreviousAnswered, PathAnswered,
       SearchReturns, SearchStep, SearchAnswered, SearchSuperseded, SearchFailed

LEMMA CallTypesStep ==
  ASSUME WorkspaceInv, [Next]_allVars
  PROVE  (calls \subseteq Call)'
  <1> WorkspaceTypeOK /\ UnderInv
    BY DEF WorkspaceInv
  <1>0. calls \subseteq Call /\ 0 \in Nat
    BY DEF WorkspaceTypeOK, SearchTypeOK
  <1>1. CASE PageStep(Shown) \/ UserStep(Shown)
    BY <1>1, UserCallTypes
  <1>2. CASE BackendStep \/ ReturnStep
    BY <1>2, AnswerCallTypes DEF BackendStep, ReturnStep
  <1>3. ASSUME NEW j \in jobs, JobStep(j) PROVE (calls \subseteq Call)'
    <2>1. CASE FollowUp(j)
      BY <1>0, <2>1, JobFields, SendTypes DEF FollowUp, StartSearch
    <2>2. CASE ~FollowUp(j)
      BY <1>0, <1>3, <2>2 DEF JobStep, TrashRow, TrashEnds, TrashFails, EditRow, EditEnds,
                              EditFails, ClearLibrary, ClearEnds, searchVars
    <2> QED
      BY <2>1, <2>2
  <1>4. CASE RestoreSearchResults
    <2>1. search' \in Queries /\ facet' \in Facets
      BY <1>4 DEF RestoreSearchResults, UnderInv, Under
    <2>2. Send("search", search', facet', 0) \/ UNCHANGED calls
      BY <1>4 DEF RestoreSearchResults, StartSearch
    <2> QED
      BY <1>0, <2>1, <2>2, SendTypes
  <1>5. CASE UNCHANGED calls
    BY <1>0, <1>5
  <1> QED
    BY <1>1, <1>2, <1>3, <1>4, <1>5
       DEF Next, DialogStep, RequestTrash, OpenEdit, RequestClearAll, CancelTrash, ConfirmTrash,
           CloseEdit, SaveMetadata, SaveClassification, ShowExternal, allVars, searchVars

\* The table, the dialogs and the jobs.
LibraryTypeOK == library \in [Ids -> Instruments \cup {None}]

DialogTypeOK ==
  /\ confirming \in Ids \cup {None, ClearAll} /\ working \in BOOLEAN
  /\ editing \in {None} \cup [id : Ids, targets : SUBSET Ids]
  /\ acts \in 0..MaxActs

JobTypeOK == jobs \subseteq Job

LEMMA LibraryStep ==
  ASSUME WorkspaceInv, [Next]_allVars
  PROVE  LibraryTypeOK'
  <1> WorkspaceTypeOK
    BY DEF WorkspaceInv
  <1>0. LibraryTypeOK
    BY DEF WorkspaceTypeOK, SearchTypeOK, LibraryTypeOK
  <1>1. CASE UNCHANGED library
    BY <1>0, <1>1 DEF LibraryTypeOK
  <1>2. ASSUME NEW id \in Ids, NEW i \in Instruments, Import(id, i) PROVE LibraryTypeOK'
    BY <1>0, <1>2 DEF Import, LibraryTypeOK
  <1>3. ASSUME NEW j \in jobs, JobStep(j) PROVE LibraryTypeOK'
    <2>1. j.instrument \in Instruments \cup {None}
      BY JobFields
    <2>2. CASE TrashRow(j)
      BY <1>0, <2>2 DEF TrashRow, LibraryTypeOK, Present
    <2>3. CASE \E id \in Ids : EditRow(j, id)
      BY <1>0, <2>1, <2>3 DEF EditRow, LibraryTypeOK
    <2>4. CASE ClearLibrary(j)
      BY <1>0, <2>4 DEF ClearLibrary, LibraryTypeOK
    <2>5. CASE UNCHANGED library
      BY <1>0, <2>5 DEF LibraryTypeOK
    <2> QED
      BY <1>3, <2>2, <2>3, <2>4, <2>5
         DEF JobStep, TrashEnds, TrashFails, EditEnds, EditFails, FollowUp, ClearEnds, searchVars
  <1>4. CASE PageStep(Shown) \/ UserStep(Shown)
    BY <1>1, <1>2, <1>4
       DEF PageStep, LoadMore, LoadPrevious, UserStep, SubmitSearch, ClearFilters,
           ChooseInstrument, ChooseDirectory, ClickFile, SelectSample, CloseDetails
  <1>5. CASE DialogStep
    BY <1>1, <1>5
       DEF DialogStep, RequestTrash, OpenEdit, RequestClearAll, CancelTrash, ConfirmTrash,
           CloseEdit, SaveMetadata, SaveClassification, searchVars
  <1>6. CASE BackendStep \/ ReturnStep
    BY <1>1, <1>6
       DEF BackendStep, CallStep, ReadPage, FailCall, MoreAnswered, PreviousAnswered,
           PathAnswered, ReturnStep, SearchReturns, SearchStep, SearchAnswered,
           SearchSuperseded, SearchFailed
  <1> QED
    BY <1>1, <1>3, <1>4, <1>5, <1>6
       DEF Next, ShowExternal, RestoreSearchResults, allVars, searchVars

LEMMA DialogStepTypes ==
  ASSUME WorkspaceInv, [Next]_allVars
  PROVE  DialogTypeOK'
  <1> WorkspaceTypeOK
    BY DEF WorkspaceInv
  <1>0. /\ DialogTypeOK /\ selectedIds \subseteq Ids /\ MaxActs \in Nat
        /\ ListInv /\ UnderInv
    BY WorkspaceAssumption DEF WorkspaceInv, WorkspaceTypeOK, SearchTypeOK, DialogTypeOK
  <1>1. CASE UNCHANGED <<confirming, working, editing, acts>>
    BY <1>0, <1>1 DEF DialogTypeOK
  <1>2. ASSUME Act PROVE acts' \in 0..MaxActs
    BY <1>0, <1>2 DEF Act, DialogTypeOK
  <1>3. CASE Act /\ UNCHANGED <<confirming, working, editing>>
    BY <1>0, <1>2, <1>3 DEF DialogTypeOK
  <1>4. ASSUME NEW id \in Ids, RequestTrash(id) PROVE DialogTypeOK'
    BY <1>0, <1>2, <1>4 DEF RequestTrash, DialogTypeOK
  <1>5. ASSUME NEW id \in Ids, OpenEdit(id) PROVE DialogTypeOK'
    <2>1. EditTargets(id) \subseteq Ids
      BY <1>0 DEF EditTargets
    <2> QED
      BY <1>0, <1>2, <1>5, <2>1 DEF OpenEdit, DialogTypeOK
  <1>6. CASE RequestClearAll
    BY <1>0, <1>2, <1>6 DEF RequestClearAll, DialogTypeOK
  <1>7. CASE CancelTrash \/ CloseEdit
    BY <1>0, <1>7 DEF CancelTrash, CloseEdit, DialogTypeOK
  <1>8. CASE ConfirmTrash
    BY <1>0, <1>2, <1>8 DEF ConfirmTrash, AddJob, DialogTypeOK
  <1>9. CASE SaveMetadata \/ \E i \in Instruments : SaveClassification(i)
    BY <1>3, <1>9 DEF SaveMetadata, SaveClassification, AddJob
  <1>10. ASSUME NEW j \in jobs, JobStep(j) PROVE DialogTypeOK'
    <2>1. CASE TrashEnds(j) \/ TrashFails(j) \/ ClearEnds(j)
      BY <1>0, <2>1 DEF TrashEnds, TrashFails, ClearEnds, CloseDialog, DialogTypeOK
    <2>2. CASE EditEnds(j)
      BY <1>0, <2>2 DEF EditEnds, DialogTypeOK
    <2>3. CASE UNCHANGED <<confirming, working, editing, acts>>
      BY <1>1, <2>3
    <2> QED
      BY <1>10, <2>1, <2>2, <2>3
         DEF JobStep, TrashRow, EditRow, EditFails, FollowUp, ClearLibrary
  <1>11. CASE DialogStep
    BY <1>4, <1>5, <1>6, <1>7, <1>8, <1>9, <1>11 DEF DialogStep
  <1> QED
    BY <1>1, <1>3, <1>10, <1>11
       DEF Next, BackendStep, ReturnStep, SearchReturns, ShowExternal, RestoreSearchResults,
           allVars, workspaceVars, viewVars

LEMMA JobTypesStep ==
  ASSUME WorkspaceInv, [Next]_allVars
  PROVE  JobTypeOK'
  <1> WorkspaceTypeOK
    BY DEF WorkspaceInv
  <1>0. /\ jobs \subseteq Job /\ search \in Queries /\ facet \in Facets /\ paths \subseteq Ids
        /\ sent \in Nat /\ confirming \in Ids \cup {None, ClearAll}
        /\ editing \in {None} \cup [id : Ids, targets : SUBSET Ids]
    BY DEF WorkspaceTypeOK, SearchTypeOK
  <1>1. CASE UNCHANGED jobs
    BY <1>0, <1>1 DEF JobTypeOK
  <1>2. ASSUME NEW kind \in JobKinds, NEW id \in Ids \cup {ClearAll}, NEW todo \in SUBSET Ids,
               NEW i \in Instruments \cup {None}
        PROVE  NewJob(kind, id, todo, i) \in Job
    BY <1>0 DEF NewJob, Job
  <1>3. CASE ConfirmTrash
    <2>1. CASE confirming = ClearAll
      <3>1. AddJob(NewJob("clear", ClearAll, Ids, None))
        BY <1>3, <2>1 DEF ConfirmTrash
      <3>2. NewJob("clear", ClearAll, Ids, None) \in Job
        BY <1>2 DEF JobKinds
      <3> QED
        BY <1>0, <3>1, <3>2 DEF AddJob, JobTypeOK
    <2>2. CASE confirming \in Ids
      <3>1. AddJob(NewJob("trash", confirming, {confirming}, None)) \/ UNCHANGED jobs
        BY <1>3, <2>2, WorkspaceAssumption DEF ConfirmTrash
      <3>2. NewJob("trash", confirming, {confirming}, None) \in Job
        BY <1>2, <2>2 DEF JobKinds
      <3> QED
        BY <1>0, <3>1, <3>2 DEF AddJob, JobTypeOK
    <2> QED
      BY <1>0, <1>3, <2>1, <2>2 DEF ConfirmTrash
  <1>4. ASSUME NEW i \in Instruments, SaveClassification(i) PROVE JobTypeOK'
    <2>1. editing.id \in Ids /\ editing.targets \cap paths \in SUBSET Ids
      BY <1>0, <1>4 DEF SaveClassification
    <2>2. NewJob("classification", editing.id, editing.targets \cap paths, i) \in Job
      BY <1>2, <2>1 DEF JobKinds
    <2> QED
      BY <1>0, <1>4, <2>2 DEF SaveClassification, AddJob, JobTypeOK
  <1>5. ASSUME SaveMetadata PROVE JobTypeOK'
    <2>1. editing.id \in Ids /\ editing.targets \cap paths \in SUBSET Ids
      BY <1>0, <1>5 DEF SaveMetadata
    <2>2. NewJob("metadata", editing.id, editing.targets \cap paths, None) \in Job
      BY <1>2, <2>1 DEF JobKinds
    <2> QED
      BY <1>0, <1>5, <2>2 DEF SaveMetadata, AddJob, JobTypeOK
  <1>6. ASSUME NEW j \in jobs, JobStep(j) PROVE JobTypeOK'
    <2>0. j \in Job
      BY <1>0
    <2>1. CASE jobs' = jobs \ {j}
      BY <1>0, <2>1 DEF JobTypeOK
    <2>2. ASSUME NEW k \in Job, Replace(j, k) PROVE JobTypeOK'
      BY <1>0, <2>2 DEF Replace, JobTypeOK
    <2>3. /\ [j EXCEPT !.state = "written"] \in Job /\ [j EXCEPT !.state = "failed"] \in Job
          /\ [j EXCEPT !.state = "searching", !.n = sent] \in Job
      <3>1. [j EXCEPT !.state = "written"] \in Job
        BY <2>0 DEF Job
      <3>2. [j EXCEPT !.state = "failed"] \in Job
        BY <2>0 DEF Job
      <3>3. [j EXCEPT !.state = "searching", !.n = sent] \in Job
        <4>1. sent \in Int
          BY <1>0
        <4> QED
          BY <2>0, <4>1 DEF Job
      <3> QED
        BY <3>1, <3>2, <3>3
    <2>4. \A id : /\ [j EXCEPT !.todo = @ \ {id}, !.updated = TRUE] \in Job
                  /\ [j EXCEPT !.todo = @ \ {id}] \in Job
      BY <2>0 DEF Job
    <2>5. CASE TrashRow(j) \/ ClearLibrary(j) \/ FollowUp(j)
      BY <2>2, <2>3, <2>5 DEF TrashRow, ClearLibrary, FollowUp
    <2>6. CASE \E id \in Ids : EditRow(j, id)
      BY <2>2, <2>4, <2>6 DEF EditRow
    <2> QED
      BY <1>6, <2>1, <2>5, <2>6
         DEF JobStep, TrashEnds, TrashFails, EditEnds, EditFails, ClearEnds
  <1>7. ASSUME NEW c \in calls, SearchReturns(c) PROVE JobTypeOK'
    <2>1. ASSUME NEW j \in jobs, NEW st \in {"paths", "failed"}, NEW found \in BOOLEAN
          PROVE  [j EXCEPT !.state = st, !.found = found] \in Job
      <3>1. j \in Job
        BY <1>0
      <3> QED
        BY <3>1 DEF Job
    <2>2. ASSUME NEW j \in jobs PROVE Informed(j, c) \in Job
      <3>1. (IF c.state = "read" THEN "paths" ELSE "failed") \in {"paths", "failed"}
            /\ (j.id \in c.page) \in BOOLEAN
        OBVIOUS
      <3> QED
        BY <1>0, <2>1, <3>1, Zenon DEF Informed
    <2> QED
      BY <1>7, <2>2 DEF SearchReturns, JobTypeOK
  <1>8. CASE DialogStep
    BY <1>1, <1>3, <1>4, <1>5, <1>8
       DEF DialogStep, RequestTrash, OpenEdit, RequestClearAll, CancelTrash, CloseEdit
  <1> QED
    BY <1>1, <1>6, <1>7, <1>8
       DEF Next, BackendStep, ReturnStep, ShowExternal, RestoreSearchResults,
           allVars, workspaceVars, viewVars

-----------------------------------------------------------------------------
(* The order of the rows: the rank of a row, and the page that continues   *)
(* the first rows.                                                         *)

\* How many of the rows come before x.
Rank(rows, x) == Cardinality({y \in rows : y < x})

\* The n first rows.
Beginning(rows, n) == {x \in rows : Rank(rows, x) < n}

\* The ranks of n rows are 0..n-1, in the order of the ids.
LEMMA Ranks ==
  ASSUME NEW rows \in SUBSET Ids
  PROVE  /\ Cardinality(rows) \in Nat
         /\ \A x \in rows : Rank(rows, x) \in Nat /\ Rank(rows, x) < Cardinality(rows)
         /\ \A x, y \in rows : x < y => Rank(rows, x) < Rank(rows, y)
         /\ \A k \in Nat : k < Cardinality(rows) => \E x \in rows : Rank(rows, x) = k
  <1> DEFINE n == Cardinality(rows)
             below(x) == {y \in rows : y < x}
             place == [x \in rows |-> Rank(rows, x) + 1]
  <1>1. rows \subseteq Nat /\ IsFiniteSet(rows) /\ n \in Nat
    BY SearchAssumption, FS_Subset, FS_CardinalityType
  <1>0. \A z \in rows : z \in Nat
    BY <1>1
  <1>2. ASSUME NEW x \in rows PROVE IsFiniteSet(below(x)) /\ Rank(rows, x) \in Nat /\ Rank(rows, x) < n
    <2>1. below(x) \in SUBSET rows /\ x \notin below(x)
      BY <1>0
    <2>2. IsFiniteSet(below(x)) /\ Cardinality(below(x)) \in Nat /\ Cardinality(below(x)) <= n
          /\ Cardinality(below(x)) # n
      BY <1>1, <2>1, FS_Subset, FS_CardinalityType
    <2> QED
      BY <1>1, <2>2 DEF Rank
  <1>3. ASSUME NEW x \in rows, NEW y \in rows, x < y PROVE Rank(rows, x) < Rank(rows, y)
    <2>1. \A z \in rows : (z < x => z < y) /\ ~(x < x)
      BY <1>0, <1>3
    <2>3. below(x) \in SUBSET below(y) /\ x \in below(y) /\ x \notin below(x)
      BY <1>3, <2>1
    <2>2. Cardinality(below(x)) <= Cardinality(below(y))
          /\ Cardinality(below(x)) # Cardinality(below(y))
      BY <1>2, <2>3, FS_Subset
    <2> QED
      BY <1>2, <2>2 DEF Rank
  <1>7. /\ \A x \in rows : Rank(rows, x) \in Nat /\ Rank(rows, x) < n
        /\ \A x, y \in rows : x < y => Rank(rows, x) < Rank(rows, y)
    BY <1>2, <1>3
  <1>4. place \in Injection(rows, 1..n)
    <2>0. \A x, y \in rows : Rank(rows, x) = Rank(rows, y) => x = y
      BY <1>0, <1>7
    <2>1. \A x, y \in rows : place[x] = place[y] => x = y
      BY <1>7, <2>0
    <2>2. \A x \in rows : place[x] \in 1..n
      BY <1>1, <1>7
    <2> QED
      BY <2>1, <2>2, Fun_IsInj
  <1>5. place \in Surjection(rows, 1..n)
    BY <1>1, <1>4, FS_Injection, FS_Interval
  <1>6. ASSUME NEW k \in Nat, k < n PROVE \E x \in rows : Rank(rows, x) = k
    <2>1. k + 1 \in 1..n
      BY <1>1, <1>6
    <2>3. \A l \in 1..n : \E x \in rows : place[x] = l
      <3> HIDE DEF place
      <3> QED
        BY <1>5, Fun_SurjectionProperties
    <2>2. PICK x \in rows : Rank(rows, x) + 1 = k + 1
      BY <2>1, <2>3
    <2> QED
      BY <1>7, <2>2
  <1> QED
    BY <1>1, <1>6, <1>7

\* As many rows have their rank between two bounds as the bounds are apart.
LEMMA Slice ==
  ASSUME NEW rows \in SUBSET Ids, NEW a \in Nat, NEW b \in Nat, a <= b, b <= Cardinality(rows)
  PROVE  Cardinality({x \in rows : a <= Rank(rows, x) /\ Rank(rows, x) < b}) = b - a
  <1> DEFINE S == {x \in rows : a <= Rank(rows, x) /\ Rank(rows, x) < b}
             place == [x \in S |-> Rank(rows, x) - a + 1]
  <1>1. /\ \A x \in rows : Rank(rows, x) \in Nat /\ x \in Nat
        /\ \A x, y \in rows : x < y => Rank(rows, x) < Rank(rows, y)
        /\ \A k \in Nat : k < Cardinality(rows) => \E x \in rows : Rank(rows, x) = k
        /\ Cardinality(rows) \in Nat
    BY Ranks, SearchAssumption
  <1>0. \A x, y \in rows : Rank(rows, x) = Rank(rows, y) => x = y
    BY <1>1
  <1>2. \A x \in S : place[x] \in 1..(b - a)
    BY <1>1
  <1>3. \A x, y \in S : place[x] = place[y] => x = y
    BY <1>0, <1>1
  <1>4. ASSUME NEW k \in 1..(b - a) PROVE \E x \in S : place[x] = k
    <2>1. a + k - 1 \in Nat /\ a + k - 1 < Cardinality(rows) /\ a <= a + k - 1 /\ a + k - 1 < b
      BY <1>1
    <2>2. PICK x \in rows : Rank(rows, x) = a + k - 1
      BY <1>1, <2>1
    <2>3. x \in S
      BY <2>1, <2>2
    <2>4. place[x] = k
      BY <2>2, <2>3
    <2> QED
      BY <2>3, <2>4
  <1>5. place \in [S -> 1..(b - a)]
    BY <1>2
  <1>6. place \in Bijection(S, 1..(b - a))
    <2> HIDE DEF place, S
    <2> QED
      BY <1>3, <1>4, <1>5 DEF Bijection, Injection, Surjection, IsInjective
  <1>7. IsFiniteSet(S)
    <2>1. IsFiniteSet(rows) /\ S \in SUBSET rows
      BY SearchAssumption, FS_Subset
    <2> QED
      BY <2>1, FS_Subset
  <1>8. Cardinality(S) = Cardinality(1..(b - a))
    <2> HIDE DEF place, S
    <2> QED
      BY <1>6, <1>7, FS_Bijection DEF ExistsBijection
  <1>9. Cardinality(1..(b - a)) = b - a
    BY FS_Interval
  <1> QED
    BY <1>8, <1>9

\* A page from n on continues the n first rows: it is full, or it ends them.
LEMMA NextPage ==
  ASSUME NEW rows \in SUBSET Ids, NEW n \in Nat, n <= Cardinality(rows)
  PROVE  /\ Cardinality(Page(rows, n)) \in Nat
         /\ n + Cardinality(Page(rows, n)) <= Cardinality(rows)
         /\ Beginning(rows, n) \cup Page(rows, n) = Beginning(rows, n + Cardinality(Page(rows, n)))
         /\ \A x \in Beginning(rows, n), y \in Page(rows, n) : x < y
         /\ IsFull(Page(rows, n)) \/ Beginning(rows, n) \cup Page(rows, n) = rows
  <1> DEFINE p == Page(rows, n)
             m == Cardinality(rows)
             end == IF n + PageLimit <= m THEN n + PageLimit ELSE m
  <1>1. /\ \A x \in rows : Rank(rows, x) \in Nat /\ x \in Nat /\ Rank(rows, x) < m
        /\ \A x, y \in rows : x < y => Rank(rows, x) < Rank(rows, y)
        /\ m \in Nat /\ PageLimit \in Nat
    BY Ranks, SearchAssumption
  <1>2. end \in Nat /\ n <= end /\ end <= m
    BY <1>1
  <1>3. p = {x \in rows : n <= Rank(rows, x) /\ Rank(rows, x) < end}
    BY <1>1 DEF Page, Rank
  <1>4. Cardinality(p) = end - n
    BY <1>2, <1>3, Slice
  <1>5. n + Cardinality(p) = end /\ Cardinality(p) \in Nat
    BY <1>2, <1>4
  <1>6. Beginning(rows, n) \cup p = Beginning(rows, end)
    BY <1>1, <1>2, <1>3 DEF Beginning
  <1>7. \A x \in Beginning(rows, n), y \in p : x < y
    <2> SUFFICES ASSUME NEW x \in rows, NEW y \in rows, Rank(rows, x) < n, n <= Rank(rows, y)
                 PROVE  x < y
      BY <1>3 DEF Beginning
    <2>1. x # y /\ ~(y < x)
      BY <1>1
    <2> QED
      BY <1>1, <2>1
  <1>8. IsFull(p) \/ Beginning(rows, end) = rows
    <2>1. CASE n + PageLimit <= m
      BY <1>1, <1>4, <2>1 DEF IsFull
    <2>2. CASE ~(n + PageLimit <= m)
      BY <1>1, <2>2 DEF Beginning
    <2> QED
      BY <2>1, <2>2
  <1> QED
    BY <1>2, <1>5, <1>6, <1>7, <1>8

\* Every row of a set has its place in the order, and nothing else has one.
LEMMA OrderHoldsRows ==
  ASSUME NEW rows \in SUBSET Ids
  PROVE  /\ InIdOrder(rows) \in Seq(Ids) /\ Len(InIdOrder(rows)) = Cardinality(rows)
         /\ RowsOf(InIdOrder(rows)) = rows
         /\ \A a, b \in DOMAIN InIdOrder(rows) : a < b => InIdOrder(rows)[a] < InIdOrder(rows)[b]
  <1> DEFINE s == InIdOrder(rows)
             n == Cardinality(rows)
  <1>1. /\ s \in [1..n -> rows] /\ n \in Nat
        /\ \A a, b \in 1..n : a < b => s[a] < s[b]
    BY SortedRows
  <1>2. IsFiniteSet(rows) /\ \A x \in rows : x \in Nat
    BY SearchAssumption, FS_Subset
  <1>3. s \in Injection(1..n, rows)
    <2>1. \A a, b \in 1..n : s[a] = s[b] => a = b
      <3> HIDE DEF s, n
      <3> SUFFICES ASSUME NEW a \in 1..n, NEW b \in 1..n, a # b PROVE s[a] # s[b]
        OBVIOUS
      <3>1. s[a] \in Nat /\ s[b] \in Nat /\ (a < b \/ b < a)
        BY <1>1, <1>2
      <3> QED
        BY <1>1, <3>1
    <2> HIDE DEF s, n
    <2> QED
      BY <1>1, <2>1, Fun_IsInj
  <1>4. s \in Surjection(1..n, rows)
    <2>1. Cardinality(1..n) = n
      BY <1>1, FS_Interval
    <2> HIDE DEF s
    <2> QED
      BY <1>2, <1>3, <2>1, FS_Injection
  <1>5. \A x \in rows : \E k \in 1..n : s[k] = x
    <2> HIDE DEF s
    <2> QED
      BY <1>4 DEF Surjection
  <1> HIDE DEF s, n
  <1>6. s \in Seq(Ids) /\ Len(s) = n /\ DOMAIN s = 1..n
    <2>1. s \in [1..n -> Ids]
      BY <1>1
    <2> QED
      BY <1>1, <2>1
  <1>7. RowsOf(s) = rows
    BY <1>1, <1>5, <1>6 DEF RowsOf
  <1> QED
    BY <1>1, <1>6, <1>7 DEF s, n

\* Later rows behind an ordered list.
LEMMA PageFollows ==
  ASSUME NEW s \in Seq(Ids), NEW rows \in SUBSET Ids,
         \A a, b \in DOMAIN s : a < b => s[a] < s[b],
         \A x \in RowsOf(s), y \in rows : x < y
  PROVE  /\ Len(s \o InIdOrder(rows)) = Len(s) + Cardinality(rows)
         /\ RowsOf(s \o InIdOrder(rows)) = RowsOf(s) \cup rows
         /\ \A a, b \in DOMAIN (s \o InIdOrder(rows)) :
              a < b => (s \o InIdOrder(rows))[a] < (s \o InIdOrder(rows))[b]
  <1> DEFINE t == InIdOrder(rows)
  <1>1. /\ t \in Seq(Ids) /\ Len(t) = Cardinality(rows) /\ RowsOf(t) = rows
        /\ \A a, b \in DOMAIN t : a < b => t[a] < t[b]
    BY OrderHoldsRows
  <1> HIDE DEF t
  <1>2. /\ DOMAIN (s \o t) = 1..(Len(s) + Len(t)) /\ Len(s \o t) = Len(s) + Len(t)
        /\ DOMAIN s = 1..Len(s) /\ DOMAIN t = 1..Len(t) /\ Len(s) \in Nat /\ Len(t) \in Nat
    BY <1>1
  <1>3. /\ \A k \in DOMAIN s : k \in DOMAIN (s \o t) /\ (s \o t)[k] = s[k]
        /\ \A k \in DOMAIN t : k + Len(s) \in DOMAIN (s \o t) /\ (s \o t)[k + Len(s)] = t[k]
    BY <1>1, <1>2
  <1>4. \A k \in DOMAIN (s \o t) :
          \/ k \in DOMAIN s /\ (s \o t)[k] = s[k]
          \/ k > Len(s) /\ k - Len(s) \in DOMAIN t /\ (s \o t)[k] = t[k - Len(s)]
    BY <1>1, <1>2
  <1>5. RowsOf(s \o t) = RowsOf(s) \cup RowsOf(t)
    <2>1. RowsOf(s \o t) \subseteq RowsOf(s) \cup RowsOf(t)
      BY <1>4 DEF RowsOf
    <2>2. RowsOf(s) \subseteq RowsOf(s \o t)
      BY <1>3 DEF RowsOf
    <2>3. RowsOf(t) \subseteq RowsOf(s \o t)
      BY <1>3 DEF RowsOf
    <2> QED
      BY <2>1, <2>2, <2>3
  <1>6. \A a \in DOMAIN s, b \in DOMAIN t : s[a] < t[b]
    BY <1>1 DEF RowsOf
  <1>7. ASSUME NEW a \in DOMAIN (s \o t), NEW b \in DOMAIN (s \o t), a < b
        PROVE  (s \o t)[a] < (s \o t)[b]
    <2>1. a \in Nat /\ b \in Nat
      BY <1>2
    <2>2. CASE b \in DOMAIN s
      <3>1. a \in DOMAIN s
        BY <1>2, <1>7, <2>1, <2>2
      <3> QED
        BY <1>3, <1>7, <2>2, <3>1
    <2>3. CASE a \in DOMAIN s /\ b \notin DOMAIN s
      BY <1>4, <1>6, <2>3
    <2>4. CASE a \notin DOMAIN s
      <3>1. b \notin DOMAIN s
        BY <1>2, <1>7, <2>1, <2>4
      <3>2. /\ a - Len(s) \in DOMAIN t /\ (s \o t)[a] = t[a - Len(s)]
            /\ b - Len(s) \in DOMAIN t /\ (s \o t)[b] = t[b - Len(s)]
        BY <1>4, <2>4, <3>1
      <3>3. a - Len(s) < b - Len(s)
        BY <1>2, <1>7, <2>1
      <3> QED
        BY <1>1, <3>2, <3>3
    <2> QED
      BY <2>2, <2>3, <2>4
  <1> QED
    BY <1>1, <1>2, <1>5, <1>7 DEF t

-----------------------------------------------------------------------------
(* The quiet list: what the window shows and what its calls will bring,    *)
(* while only the user's searches and page loads happen.                   *)

\* What the field and the facets ask for.
Wanted == Matching(search, facet)

\* The call asks for it, from row n on, and has read it as it still is.
AskedNow(c, n) ==
  /\ c.query = search /\ c.facet = facet /\ c.at = n
  /\ c.state = "read" => c.page = Page(Wanted, n)

HasMore == canMore /\ lastFull

Ascending(s) == \A a, b \in DOMAIN s : a < b => s[a] < s[b]

\* Until the newest search is answered, nothing else will be listed.
Searched ==
  ~disturbed /\ searching =>
    \A c \in calls : c.kind = "search" /\ (c.n = newest => AskedNow(c, 0))

\* After it, the list is the beginning of what is asked for, and the page
\* under way continues it.
Listing ==
  ~disturbed /\ ~searching =>
    /\ offset = 0 /\ Listed = Beginning(Wanted, Len(samples))
    /\ Len(samples) <= Cardinality(Wanted) /\ Ascending(samples)
    /\ Listed = Wanted \/ HasMore
    /\ \A c \in calls : /\ c.kind \in {"search", "more"}
                        /\ c.kind = "more" => HasMore /\ AskedNow(c, Len(samples))

QuietInv == Searched /\ Listing

quietVars == <<library, samples, search, facet, offset, canMore, lastFull, searching,
               newest, calls, disturbed>>

LEMMA QuietKept ==
  ASSUME QuietInv, UNCHANGED quietVars
  PROVE  QuietInv'
  BY DEF QuietInv, Searched, Listing, AskedNow, Wanted, HasMore, Ascending, Listed, RowsOf,
         Matching, Present, quietVars

LEMMA Disturbing ==
  ASSUME disturbed' = TRUE
  PROVE  QuietInv'
  BY DEF QuietInv, Searched, Listing

\* A search of the user without a page load under way.
LEMMA SearchQuiets ==
  ASSUME NEW new, calls' = calls \cup new, searching' = TRUE, disturbed' = (PageLoads # {}),
         \A c \in calls : c.n # newest',
         \A c \in new : /\ c.kind = "search" /\ c.state = "sent"
                        /\ c.n = newest' => c.query = search' /\ c.facet = facet' /\ c.at = 0
  PROVE  QuietInv'
  <1>1. ~disturbed' => \A c \in calls : c.kind = "search"
    BY DEF PageLoads
  <1>2. \A c \in new : c.n = newest' => AskedNow(c, 0)'
    BY DEF AskedNow
  <1>3. Searched'
    BY <1>1, <1>2 DEF Searched
  <1> QED
    BY <1>3 DEF QuietInv, Listing

\* A search with what the field and the facets say from then on.
LEMMA StartQuiets ==
  ASSUME WorkspaceInv, NEW q, NEW f, StartSearch(q, f), disturbed' = (PageLoads # {}),
         search' = q, facet' = f
  PROVE  QuietInv'
  <1>0. sent \in Nat /\ \A c \in calls : c.n \in Nat /\ c.n < sent
    BY CallFields DEF WorkspaceInv, CallsInv, WorkspaceTypeOK, SearchTypeOK
  <1> DEFINE new == [n |-> sent, kind |-> "search", query |-> q, facet |-> f,
                     at |-> 0, base |-> offset, state |-> "sent", page |-> {}]
  <1>1. calls' = calls \cup {new} /\ newest' = sent /\ searching' = TRUE
    BY DEF StartSearch, Send
  <1>2. new.kind = "search" /\ new.state = "sent" /\ new.query = q /\ new.facet = f /\ new.at = 0
    OBVIOUS
  <1> HIDE DEF new
  <1>3. \A c \in calls : c.n # newest'
    BY <1>0, <1>1
  <1>4. \A c \in {new} :
           /\ c.kind = "search" /\ c.state = "sent"
           /\ c.n = newest' => c.query = search' /\ c.facet = facet' /\ c.at = 0
    BY <1>2
  <1> DEFINE sends == {new}
  <1>5. calls' = calls \cup sends /\ searching' = TRUE /\ disturbed' = (PageLoads # {})
    BY <1>1
  <1>6. \A c \in sends :
           /\ c.kind = "search" /\ c.state = "sent"
           /\ c.n = newest' => c.query = search' /\ c.facet = facet' /\ c.at = 0
    BY <1>4
  <1> HIDE DEF sends
  <1> QED
    BY <1>3, <1>5, <1>6, SearchQuiets, Zenon

LEMMA UserQuiet ==
  ASSUME WorkspaceInv, QuietInv, UserStep(Shown)
  PROVE  QuietInv'
  <1>0. sent \in Nat /\ \A c \in calls : c.n \in Nat /\ c.n < sent
    BY CallFields DEF WorkspaceInv, CallsInv, WorkspaceTypeOK, SearchTypeOK
  <1>2. ASSUME NEW q \in Queries, SubmitSearch(q) PROVE QuietInv'
    BY <1>2, StartQuiets DEF SubmitSearch
  <1>3. ASSUME NEW f, SearchWithFacet(f), UNCHANGED search PROVE QuietInv'
    BY <1>3, StartQuiets DEF SearchWithFacet
  <1>4. CASE ClearFilters
    <2> DEFINE new(k) == [n |-> sent + k, kind |-> "search", query |-> EmptyQuery, at |-> 0,
                          base |-> offset, state |-> "sent",
                          facet |-> IF k = 0 THEN facet ELSE NoFacet, page |-> {}]
    <2>1. /\ calls' = calls \cup {new(0), new(1)} /\ newest' = sent + 1 /\ searching' = TRUE
          /\ disturbed' = (PageLoads # {}) /\ search' = EmptyQuery /\ facet' = NoFacet
      BY <1>4 DEF ClearFilters
    <2>2. /\ new(0).kind = "search" /\ new(0).state = "sent" /\ new(0).n = sent + 0
          /\ new(1).kind = "search" /\ new(1).state = "sent"
          /\ new(1).query = EmptyQuery /\ new(1).facet = NoFacet /\ new(1).at = 0
      OBVIOUS
    <2> HIDE DEF new
    <2>3. /\ \A c \in calls : c.n # newest'
          /\ new(0).n # newest'
      BY <1>0, <2>1, <2>2
    <2>4. \A c \in {new(0), new(1)} :
             /\ c.kind = "search" /\ c.state = "sent"
             /\ c.n = newest' => c.query = search' /\ c.facet = facet' /\ c.at = 0
      BY <2>1, <2>2, <2>3
    <2>5. /\ calls' = calls \cup {new(0), new(1)}
          /\ searching' = TRUE /\ disturbed' = (PageLoads # {})
      BY <2>1
    <2>6. \A c \in calls : c.n # newest'
      BY <2>3
    <2> QED
      BY <2>4, <2>5, <2>6, SearchQuiets, ZenonT(40)
  <1>5. CASE \/ \E i \in Instruments \cup {Any} : ChooseInstrument(i)
             \/ \E d \in Directories \cup {Any} : ChooseDirectory(d)
    BY <1>3, <1>5 DEF ChooseInstrument, ChooseDirectory
  <1>6. CASE (\E id \in Ids : ClickFile(id)) \/ (\E id \in Ids, i \in Instruments : Import(id, i))
    BY <1>6, Disturbing DEF ClickFile, Import
  <1>7. CASE CloseDetails \/ \E id \in Ids, shift \in BOOLEAN : SelectSample(Shown, id, shift)
    BY <1>7, QuietKept DEF CloseDetails, SelectSample, quietVars, filterVars, listVars
  <1> QED
    BY <1>2, <1>4, <1>5, <1>6, <1>7 DEF UserStep

\* The next page is asked for from the end of the list; there is nothing
\* before a list that starts at the first row.
LEMMA PageQuiet ==
  ASSUME WorkspaceInv, QuietInv, PageStep(Shown)
  PROVE  QuietInv'
  <1>0. disturbed \in BOOLEAN /\ searching \in BOOLEAN /\ Len(samples) \in Nat
    BY DEF WorkspaceInv, WorkspaceTypeOK, SearchTypeOK
  <1>1. CASE LoadMore(Shown)
    <2>1. SUFFICES ASSUME ~disturbed' PROVE QuietInv'
      BY DEF QuietInv, Searched, Listing
    <2>2. ~disturbed /\ ~searching
      BY <1>0, <1>1, <2>1 DEF LoadMore
    <2>3. canMore /\ lastFull
      BY <1>1 DEF LoadMore
    <2>4. PICK new : /\ calls' = calls \cup {new}
                     /\ new.kind = "more" /\ new.state = "sent"
                     /\ new.query = search /\ new.facet = facet
                     /\ new.at = offset + Len(samples)
      <3> DEFINE new == [n |-> sent, kind |-> "more", query |-> search, facet |-> facet,
                         at |-> offset + Len(samples), base |-> offset, state |-> "sent",
                         page |-> {}]
      <3>1. calls' = calls \cup {new}
        BY <1>1 DEF LoadMore, Send
      <3>2. /\ new.kind = "more" /\ new.state = "sent"
            /\ new.query = search /\ new.facet = facet
            /\ new.at = offset + Len(samples)
        OBVIOUS
      <3> QED
        BY <3>1, <3>2
    <2>5. UNCHANGED <<library, samples, search, facet, offset, canMore, lastFull, searching>>
      BY <1>1 DEF LoadMore, filterVars, listVars
    <2>6. Listing /\ offset = 0 /\ new.at = Len(samples)
      BY <1>0, <2>2, <2>4 DEF QuietInv, Listing
    <2>7. (/\ offset = 0 /\ Listed = Beginning(Wanted, Len(samples))
           /\ Len(samples) <= Cardinality(Wanted) /\ Ascending(samples)
           /\ Listed = Wanted \/ HasMore)'
      BY <2>2, <2>5, <2>6 DEF Listing, HasMore, Wanted, Listed, RowsOf, Matching, Present, Ascending
    <2>8. \A c \in calls' : c.kind \in {"search", "more"}
      BY <2>2, <2>4, <2>6 DEF Listing
    <2>9. \A c \in calls' : c.kind = "more" => (HasMore /\ AskedNow(c, Len(samples)))'
      <3>1. \A c \in calls : c.kind = "more" => (HasMore /\ AskedNow(c, Len(samples)))'
        BY <2>2, <2>5, <2>6 DEF Listing, HasMore, AskedNow, Wanted, Matching, Present
      <3>2. (HasMore /\ AskedNow(new, Len(samples)))'
        BY <2>3, <2>4, <2>5, <2>6 DEF HasMore, AskedNow
      <3> QED
        BY <2>4, <3>1, <3>2
    <2>10. Listing'
      BY <2>7, <2>8, <2>9 DEF Listing
    <2> QED
      BY <2>2, <2>5, <2>10 DEF QuietInv, Searched
  <1>2. CASE LoadPrevious
    <2>1. disturbed' = (disturbed \/ searching) /\ offset # 0
      BY <1>2 DEF LoadPrevious
    <2>2. disturbed' = TRUE
      BY <1>0, <2>1 DEF QuietInv, Listing
    <2> QED
      BY <2>2, Disturbing
  <1> QED
    BY <1>1, <1>2 DEF PageStep

LEMMA WantedRows ==
  ASSUME NEW q, NEW f
  PROVE  Matching(q, f) \in SUBSET Ids
  BY DEF Matching, Present

\* A page read for the newest search, or for the end of the list, is the one
\* that the window asks for now.
LEMMA PageRead ==
  ASSUME NEW c \in calls, NEW d, NEW n,
         c.kind \in {"search", "more"}, AskedNow(c, n), c.state = "sent",
         d.kind = c.kind, d.query = c.query, d.facet = c.facet, d.at = c.at,
         d.state = "read" => d.page = Answer(c)
  PROVE  AskedNow(d, n)
  BY DEF AskedNow, Answer, Wanted

LEMMA ReadQuiet ==
  ASSUME WorkspaceInv, QuietInv, NEW c \in calls, ReadPage(c) \/ FailCall(c)
  PROVE  QuietInv'
  <1>0. c \in Call
    BY CallFields DEF WorkspaceInv
  <1>1. PICK d : /\ calls' = (calls \ {c}) \cup {d}
                 /\ d.n = c.n /\ d.kind = c.kind /\ d.query = c.query /\ d.facet = c.facet
                 /\ d.at = c.at
                 /\ d.state = "read" => d.page = Answer(c)
    <2>1. CASE ReadPage(c)
      <3> DEFINE d == [c EXCEPT !.state = "read", !.page = Answer(c)]
      <3>1. calls' = (calls \ {c}) \cup {d}
        BY <2>1 DEF ReadPage
      <3>2. /\ d.n = c.n /\ d.kind = c.kind /\ d.query = c.query /\ d.facet = c.facet
            /\ d.at = c.at /\ d.page = Answer(c)
        BY <1>0 DEF Call
      <3> HIDE DEF d
      <3> QED
        BY <3>1, <3>2
    <2>2. CASE FailCall(c)
      <3> DEFINE d == [c EXCEPT !.state = "failed"]
      <3>1. calls' = (calls \ {c}) \cup {d}
        BY <2>2 DEF FailCall
      <3>2. /\ d.n = c.n /\ d.kind = c.kind /\ d.query = c.query /\ d.facet = c.facet
            /\ d.at = c.at /\ d.state = "failed"
        BY <1>0 DEF Call
      <3> HIDE DEF d
      <3> QED
        BY <3>1, <3>2
    <2> QED
      BY <2>1, <2>2
  <1>2. /\ c.state = "sent"
        /\ UNCHANGED <<library, samples, search, facet, offset, canMore, lastFull, searching,
                       newest, disturbed>>
    BY DEF ReadPage, FailCall, listVars, filterVars
  <1>3. Searched'
    <2> SUFFICES ASSUME ~disturbed, searching, NEW x \in calls'
                 PROVE  x.kind = "search" /\ (x.n = newest => AskedNow(x, 0)')
      BY <1>2 DEF Searched
    <2>1. \A y \in calls : y.kind = "search" /\ (y.n = newest => AskedNow(y, 0))
      BY DEF QuietInv, Searched
    <2>2. x.kind = "search" /\ (x.n = newest => AskedNow(x, 0))
      BY <1>1, <1>2, <2>1, PageRead
    <2> QED
      BY <1>2, <2>2 DEF AskedNow, Wanted, Matching, Present
  <1>4. Listing'
    <2> SUFFICES ASSUME ~disturbed, ~searching PROVE Listing'
      BY <1>2 DEF Listing
    <2>1. /\ offset = 0 /\ Listed = Beginning(Wanted, Len(samples))
          /\ Len(samples) <= Cardinality(Wanted) /\ Ascending(samples)
          /\ Listed = Wanted \/ HasMore
      BY DEF QuietInv, Listing
    <2>2. \A y \in calls : y.kind \in {"search", "more"}
                           /\ (y.kind = "more" => HasMore /\ AskedNow(y, Len(samples)))
      BY DEF QuietInv, Listing
    <2>3. \A x \in calls' : x.kind \in {"search", "more"}
                            /\ (x.kind = "more" => HasMore /\ AskedNow(x, Len(samples)))
      BY <1>1, <1>2, <2>2, PageRead
    <2>4. (/\ offset = 0 /\ Listed = Beginning(Wanted, Len(samples))
           /\ Len(samples) <= Cardinality(Wanted) /\ Ascending(samples)
           /\ Listed = Wanted \/ HasMore)'
      BY <1>2, <2>1 DEF HasMore, Wanted, Listed, RowsOf, Matching, Present, Ascending
    <2>5. \A x \in calls' : x.kind = "more" => (HasMore /\ AskedNow(x, Len(samples)))'
      BY <1>2, <2>3 DEF HasMore, AskedNow, Wanted, Matching, Present
    <2> QED
      BY <2>3, <2>4, <2>5 DEF Listing
  <1> QED
    BY <1>3, <1>4 DEF QuietInv

\* The next page continues the list, up to the last row when it is not full.
LEMMA MoreQuiet ==
  ASSUME WorkspaceInv, QuietInv, NEW c \in calls, MoreAnswered(c)
  PROVE  QuietInv'
  <1> SUFFICES ASSUME ~disturbed' PROVE QuietInv'
    BY DEF QuietInv, Searched, Listing
  <1>0. /\ c.kind = "more" /\ calls' = calls \ {c}
        /\ UNCHANGED <<library, search, facet, searching, newest, disturbed>>
    BY DEF MoreAnswered, filterVars
  <1>1. ~disturbed /\ ~searching
    BY <1>0 DEF QuietInv, Searched
  <1>2. /\ offset = 0 /\ Listed = Beginning(Wanted, Len(samples))
        /\ Len(samples) <= Cardinality(Wanted) /\ Ascending(samples)
        /\ HasMore /\ AskedNow(c, Len(samples))
        /\ \A x \in calls : x.kind \in {"search", "more"}
    BY <1>0, <1>1 DEF QuietInv, Listing
  <1>3. \A x \in calls' : x.kind = "search"
    <2>1. \A x \in calls : x.kind = "more" => x = c
      BY <1>0 DEF WorkspaceInv, CallsInv
    <2> QED
      BY <1>0, <1>2, <2>1
  <1>4. CASE UNCHANGED listVars
    <2>1. Listing'
      BY <1>0, <1>1, <1>2, <1>3, <1>4
         DEF Listing, HasMore, Wanted, Listed, RowsOf, Matching, Present, Ascending, listVars
    <2> QED
      BY <1>0, <1>1, <2>1 DEF QuietInv, Searched
  <1>5. CASE c.state = "read"
    <2> DEFINE n == Len(samples)
               W == Wanted
               p == Page(W, n)
    <2>1. /\ samples \in Seq(Ids) /\ n \in Nat /\ W \in SUBSET Ids /\ p \in SUBSET Ids
      <3>1. samples \in Seq(Ids)
        BY DEF WorkspaceInv, ListInv, GoodList
      <3>2. W \in SUBSET Ids
        BY WantedRows DEF Wanted
      <3>3. p \in SUBSET Ids
        BY <3>2 DEF Page
      <3> QED
        BY <3>1, <3>2, <3>3
    <2>2. c.page = p
      BY <1>2, <1>5 DEF AskedNow
    <2>3. /\ Cardinality(p) \in Nat /\ n + Cardinality(p) <= Cardinality(W)
          /\ Listed \cup p = Beginning(W, n + Cardinality(p))
          /\ \A x \in Listed, y \in p : x < y
          /\ IsFull(p) \/ Listed \cup p = W
      <3> HIDE DEF W, p, n
      <3>1. Listed = Beginning(W, n) /\ n <= Cardinality(W)
        BY <1>2 DEF W, n
      <3> QED
        BY <2>1, <3>1, NextPage DEF p
    <2>4. p \ Listed = p
      <3> HIDE DEF p
      <3>1. \A y \in p : y \in Nat /\ y \notin Listed
        BY <2>1, <2>3, SearchAssumption
      <3> QED
        BY <3>1
    <2>5. /\ samples' = samples \o InIdOrder(p)
          /\ canMore' = IsFull(p) /\ lastFull' = IsFull(p) /\ offset' = 0
      BY <1>2, <1>5, <2>2, <2>4 DEF MoreAnswered, AppendFresh
    <2>6. /\ Len(samples') = n + Cardinality(p)
          /\ RowsOf(samples') = Listed \cup p
          /\ Ascending(samples')
      <3> HIDE DEF p
      <3>1. \A x \in RowsOf(samples), y \in p : x < y
        BY <2>3 DEF Listed
      <3> QED
        BY <1>2, <2>1, <2>5, <3>1, PageFollows DEF Ascending, Listed
    <2>7. Wanted' = W /\ Listed' = RowsOf(samples') /\ Ascending(samples)' = Ascending(samples')
      BY <1>0 DEF Wanted, Matching, Present, Listed, RowsOf, Ascending
    <2>8. HasMore' <=> IsFull(p)
      BY <2>5 DEF HasMore
    <2> HIDE DEF W, p, n
    <2>9. Listing'
      BY <1>3, <2>3, <2>5, <2>6, <2>7, <2>8 DEF Listing, Ascending
    <2> QED
      BY <1>0, <1>1, <2>9 DEF QuietInv, Searched
  <1> QED
    <2>1. c.state \in {"read", "failed"}
      BY CallFields DEF WorkspaceInv, Call, MoreAnswered
    <2> QED
      BY <1>4, <1>5, <2>1 DEF MoreAnswered

\* The answer to the newest search is the first page of what is asked for.
LEMMA AnswerQuiet ==
  ASSUME WorkspaceInv, QuietInv, NEW c \in calls, SearchAnswered(c)
  PROVE  QuietInv'
  <1> SUFFICES ASSUME ~disturbed' PROVE QuietInv'
    BY DEF QuietInv, Searched, Listing
  <1>0. /\ c.kind = "search" /\ c.n = newest /\ c.state = "read" /\ calls' = calls \ {c}
        /\ samples' = InIdOrder(c.page) /\ offset' = 0
        /\ canMore' = IsFull(c.page) /\ lastFull' = IsFull(c.page)
        /\ searching' = FALSE
        /\ UNCHANGED <<library, search, facet, newest, disturbed>>
    BY DEF SearchAnswered, ShowPage, IsNewest, filterVars
  <1>1. ~disturbed /\ searching
    BY <1>0 DEF WorkspaceInv, CallsInv, FlagsMatchCalls
  <1>2. AskedNow(c, 0) /\ \A x \in calls : x.kind = "search"
    BY <1>0, <1>1 DEF QuietInv, Searched
  <1> DEFINE W == Wanted
             p == Page(W, 0)
  <1>3. W \in SUBSET Ids /\ p \in SUBSET Ids /\ c.page = p
    <2>1. W \in SUBSET Ids
      BY WantedRows DEF Wanted
    <2> QED
      BY <1>0, <1>2, <2>1 DEF AskedNow, Page
  <1>4. /\ Cardinality(p) \in Nat /\ Cardinality(p) <= Cardinality(W)
        /\ p = Beginning(W, Cardinality(p))
        /\ IsFull(p) \/ p = W
    <2> HIDE DEF W, p
    <2>1. Cardinality(W) \in Nat /\ \A x \in W : ~(Rank(W, x) < 0)
      BY <1>3, Ranks
    <2>2. Beginning(W, 0) = {}
      BY <2>1 DEF Beginning
    <2>3. /\ Cardinality(p) \in Nat /\ 0 + Cardinality(p) <= Cardinality(W)
          /\ Beginning(W, 0) \cup p = Beginning(W, 0 + Cardinality(p))
          /\ IsFull(p) \/ Beginning(W, 0) \cup p = W
      BY <1>3, <2>1, NextPage DEF p
    <2>4. 0 + Cardinality(p) = Cardinality(p)
      BY <2>3
    <2> QED
      BY <2>2, <2>3, <2>4
  <1>5. Len(samples') = Cardinality(p) /\ RowsOf(samples') = p /\ Ascending(samples')
    <2> HIDE DEF p
    <2> QED
      BY <1>0, <1>3, OrderHoldsRows DEF Ascending
  <1>6. Wanted' = W /\ Listed' = RowsOf(samples') /\ Ascending(samples)' = Ascending(samples')
    BY <1>0 DEF Wanted, Matching, Present, Listed, RowsOf, Ascending
  <1>7. HasMore' <=> IsFull(p)
    BY <1>0, <1>3 DEF HasMore
  <1>8. \A x \in calls' : x.kind = "search"
    BY <1>0, <1>2
  <1> HIDE DEF W, p
  <1>9. Listing'
    BY <1>0, <1>4, <1>5, <1>6, <1>7, <1>8 DEF Listing, Ascending
  <1> QED
    BY <1>0, <1>9 DEF QuietInv, Searched

\* An overtaken search leaves nothing but its call.
LEMMA SupersededQuiet ==
  ASSUME QuietInv, NEW c \in calls, SearchSuperseded(c)
  PROVE  QuietInv'
  BY DEF QuietInv, Searched, Listing, AskedNow, Wanted, HasMore, Ascending, Listed, RowsOf,
         Matching, Present, SearchSuperseded, filterVars, listVars

LEMMA CallQuiet ==
  ASSUME WorkspaceInv, QuietInv, NEW c \in calls, CallStep(c) \/ SearchReturns(c)
  PROVE  QuietInv'
  <1>1. CASE PreviousAnswered(c)
    <2>1. /\ c.kind = "previous" /\ UNCHANGED <<searching, disturbed>>
      BY <1>1 DEF PreviousAnswered
    <2>2. c.kind # "search" /\ c.kind # "more"
      BY <2>1
    <2>3. disturbed
      BY <2>2 DEF QuietInv, Searched, Listing
    <2> QED
      BY <2>1, <2>3 DEF QuietInv, Searched, Listing
  <1>2. CASE PathAnswered(c) \/ SearchFailed(c)
    BY <1>2, Disturbing DEF PathAnswered, SearchFailed
  <1> QED
    BY <1>1, <1>2, ReadQuiet, MoreQuiet, AnswerQuiet, SupersededQuiet
       DEF CallStep, SearchReturns, SearchStep

LEMMA QuietStep == WorkspaceInv /\ QuietInv /\ [Next]_allVars => QuietInv'
  <1> SUFFICES ASSUME WorkspaceInv, QuietInv, [Next]_allVars PROVE QuietInv'
    OBVIOUS
  <1>1. CASE PageStep(Shown) \/ UserStep(Shown)
    BY <1>1, PageQuiet, UserQuiet
  <1>2. CASE DialogStep
    BY <1>2, QuietKept
       DEF DialogStep, RequestTrash, OpenEdit, RequestClearAll, CancelTrash, ConfirmTrash,
           CloseEdit, SaveMetadata, SaveClassification, searchVars, quietVars
  <1>3. CASE BackendStep \/ ReturnStep
    BY <1>3, CallQuiet DEF BackendStep, ReturnStep
  <1>4. ASSUME NEW j \in jobs, JobStep(j) PROVE QuietInv'
    <2>1. CASE TrashEnds(j) \/ TrashFails(j) \/ EditEnds(j) \/ EditFails(j)
      BY <2>1, QuietKept
         DEF TrashEnds, TrashFails, EditEnds, EditFails, searchVars, quietVars, filterVars, listVars
    <2>2. CASE FollowUp(j)
      <3>1. CASE PageLoads # {} \/ j.query # search \/ j.facet # facet
        BY <2>2, <3>1, Disturbing DEF FollowUp
      <3>2. CASE PageLoads = {} /\ j.query = search /\ j.facet = facet
        <4>1. /\ StartSearch(search, facet) /\ search' = search /\ facet' = facet
              /\ disturbed' = (PageLoads # {})
          BY <2>2, <3>2 DEF FollowUp, filterVars
        <4> QED
          BY <4>1, StartQuiets
      <3> QED
        BY <3>1, <3>2
    <2>3. CASE TrashRow(j) \/ ClearLibrary(j) \/ ClearEnds(j) \/ \E id \in Ids : EditRow(j, id)
      BY <2>3, Disturbing DEF TrashRow, EditRow, ClearLibrary, ClearEnds
    <2> QED
      BY <1>4, <2>1, <2>2, <2>3 DEF JobStep
  <1>5. CASE \E results \in ExternalLists, choice \in Ids \cup {None} :
               ShowExternal(results, choice)
    BY <1>5, QuietKept DEF ShowExternal, quietVars, filterVars, listVars
  <1>6. CASE RestoreSearchResults
    <2>1. CASE facet' = facet \/ PageLoads # {}
      BY <1>6, <2>1, Disturbing DEF RestoreSearchResults
    <2>2. CASE facet' # facet /\ PageLoads = {}
      <3>1. StartSearch(external.under.search, external.under.facet)
        BY <1>6, <2>2 DEF RestoreSearchResults
      <3> QED
        BY <1>6, <2>2, <3>1, StartQuiets DEF RestoreSearchResults
    <2> QED
      BY <2>1, <2>2
  <1>7. CASE UNCHANGED allVars
    BY <1>7, QuietKept DEF allVars, searchVars, quietVars
  <1> QED
    BY <1>1, <1>2, <1>3, <1>4, <1>5, <1>6, <1>7 DEF Next

LEMMA QuietInit == Init => QuietInv
  BY DEF Init, SearchInit, QuietInv, Searched, Listing, AskedNow

LEMMA QuietIsComplete == WorkspaceInv /\ QuietInv => QuietListComplete
  <1> SUFFICES ASSUME WorkspaceInv, QuietInv, ~disturbed, calls = {}
               PROVE  /\ Listed \subseteq Wanted
                      /\ \A a, b \in DOMAIN samples : a < b => samples[a] < samples[b]
                      /\ \A x \in Wanted \ Listed, y \in Listed : y < x
                      /\ Listed = Wanted \/ (canMore /\ lastFull)
    BY DEF QuietListComplete, Wanted
  <1>1. ~searching
    BY DEF WorkspaceInv, CallsInv, FlagsMatchCalls
  <1>2. /\ Listed = Beginning(Wanted, Len(samples)) /\ Ascending(samples)
        /\ Listed = Wanted \/ HasMore
    BY <1>1 DEF QuietInv, Listing
  <1>3. Wanted \in SUBSET Ids /\ Len(samples) \in Nat
    BY WantedRows DEF Wanted, WorkspaceInv, ListInv, GoodList
  <1>4. /\ \A x \in Wanted : Rank(Wanted, x) \in Nat /\ x \in Nat
        /\ \A x, y \in Wanted : x < y => Rank(Wanted, x) < Rank(Wanted, y)
    BY <1>3, Ranks, SearchAssumption
  <1>5. ASSUME NEW x \in Wanted \ Listed, NEW y \in Listed PROVE y < x
    <2>1. /\ x \in Wanted /\ y \in Wanted
          /\ Rank(Wanted, y) < Len(samples) /\ ~(Rank(Wanted, x) < Len(samples))
      BY <1>2, <1>5 DEF Beginning
    <2>2. ~(x < y) /\ x # y
      BY <1>3, <1>4, <2>1
    <2> QED
      BY <1>4, <2>1, <2>2
  <1> QED
    BY <1>2, <1>5 DEF Beginning, Ascending, HasMore

-----------------------------------------------------------------------------
(* The theorems.                                                           *)

LEMMA WorkspaceInit == Init => WorkspaceInv
  <1> SUFFICES ASSUME Init PROVE WorkspaceInv
    OBVIOUS
  <1>1. calls \subseteq Call
    BY SearchAssumption DEF Init, SearchInit, Call, Facets, NoFacet
  <1>2. facet \in Facets
    BY DEF Init, SearchInit, Facets, NoFacet
  <1>6. SearchTypeOK
    <2>1. LibraryTypeOK
      BY SearchAssumption DEF Init, SearchInit, LibraryTypeOK
    <2>2. FormTypeOK
      BY <1>2, SearchAssumption DEF Init, SearchInit, FormTypeOK
    <2>3. FlagTypeOK
      BY DEF Init, SearchInit, FlagTypeOK
    <2>4. samples \in Seq(Ids) /\ paths \subseteq Ids /\ selected \in Ids \cup {None}
          /\ selectedIds \subseteq Ids
      BY DEF Init, SearchInit
    <2> QED
      BY <1>1, <2>1, <2>2, <2>3, <2>4 DEF LibraryTypeOK, FormTypeOK, FlagTypeOK, SearchTypeOK
  <1>7. WorkspaceTypeOK
    <2>1. MaxActs \in Nat /\ acts = 0 /\ confirming = None /\ working = FALSE
          /\ editing = None /\ jobs = {}
      BY WorkspaceAssumption DEF Init
    <2>2. acts \in 0..MaxActs
      BY <2>1
    <2>3. jobs \subseteq Job
      BY <2>1
    <2> QED
      BY <1>6, <2>1, <2>2, <2>3, Zenon DEF WorkspaceTypeOK
  <1>3. ListInv /\ UnderInv
    BY DEF Init, SearchInit, ListInv, UnderInv, GoodList, RowsOf
  <1>4. CallsInv
    BY DEF Init, SearchInit, CallsInv, FlagsMatchCalls
  <1>5. SelectionConsistent
    BY DEF Init, SearchInit, SelectionConsistent
  <1> QED
    BY <1>3, <1>4, <1>5, <1>7 DEF WorkspaceInv

LEMMA WorkspaceStep == WorkspaceInv /\ [Next]_allVars => WorkspaceInv'
  <1> SUFFICES ASSUME WorkspaceInv, [Next]_allVars PROVE WorkspaceInv'
    OBVIOUS
  <1>1. ListInv' /\ UnderInv'
    BY ListStep
  <1>2. SelectionConsistent' /\ selected' \in Ids \cup {None} /\ selectedIds' \subseteq Ids
    BY SelectionStep
  <1>3. CallsInv'
    BY CallsStep
  <1>4. SearchTypeOK'
    <2>1. FormTypeOK' /\ FlagTypeOK' /\ LibraryTypeOK' /\ (calls \subseteq Call)'
      BY FormStep, LibraryStep, CallTypesStep
    <2> QED
      BY <1>1, <1>2, <2>1 DEF SearchTypeOK, FormTypeOK, FlagTypeOK, LibraryTypeOK, ListInv, GoodList
  <1>5. WorkspaceTypeOK'
    BY <1>4, DialogStepTypes, JobTypesStep DEF WorkspaceTypeOK, DialogTypeOK, JobTypeOK
  <1> QED
    BY <1>1, <1>2, <1>3, <1>5 DEF WorkspaceInv

(* The invariant holds in every state of the sample list.                  *)
THEOREM WorkspaceInvariant == Spec => []WorkspaceInv
  BY WorkspaceInit, WorkspaceStep, PTL DEF Spec

(* Every state of the workspace, its calls and its jobs has its types.     *)
THEOREM WorkspaceTypes == Spec => []WorkspaceTypeOK
  <1>1. WorkspaceInv => WorkspaceTypeOK
    BY DEF WorkspaceInv
  <1> QED
    BY <1>1, WorkspaceInvariant, PTL

(* No row is listed twice, however many pages, jumps, searches, trashings  *)
(* and results of a client overlap.                                        *)
THEOREM RowsListedOnce == Spec => []NoDuplicateRows
  <1>1. WorkspaceInv => NoDuplicateRows
    BY DEF WorkspaceInv, ListInv, GoodList, NoDuplicateRows
  <1> QED
    BY <1>1, WorkspaceInvariant, PTL

(* Every listed row has its path, in the list and in the snapshot that the *)
(* back button restores.                                                   *)
THEOREM RowsHavePaths == Spec => []ActionableRows
  <1>1. WorkspaceInv => ActionableRows
    BY DEF WorkspaceInv, ListInv, GoodList, ActionableRows, Listed
  <1> QED
    BY <1>1, WorkspaceInvariant, PTL

(* The spinner and the loading flags agree with the calls under way, for   *)
(* any number of calls.                                                    *)
THEOREM FlagsAreTrue == Spec => []FlagsMatchCalls
  <1>1. WorkspaceInv => FlagsMatchCalls
    BY DEF WorkspaceInv, CallsInv
  <1> QED
    BY <1>1, WorkspaceInvariant, PTL

(* The selected row belongs to the selection that edits take their targets *)
(* from, through every deselection and every late answer.                  *)
THEOREM SelectionHasItsRow == Spec => []SelectionConsistent
  <1>1. WorkspaceInv => SelectionConsistent
    BY DEF WorkspaceInv
  <1> QED
    BY <1>1, WorkspaceInvariant, PTL

(* Once the answers are in, the list is the beginning of what the field and *)
(* the facets ask for, in order, whatever searches overtook one another:    *)
(* the page under way always continues the list it was asked for.           *)
THEOREM QuietListIsComplete == Spec => []QuietListComplete
  <1>1. Init => WorkspaceInv /\ QuietInv
    BY WorkspaceInit, QuietInit
  <1>2. WorkspaceInv /\ QuietInv /\ [Next]_allVars => (WorkspaceInv /\ QuietInv)'
    BY WorkspaceStep, QuietStep
  <1> QED
    BY <1>1, <1>2, QuietIsComplete, PTL DEF Spec

=============================================================================
