----------------------------- MODULE SampleSearch -----------------------------
(***************************************************************************)
(* The list of samples in the desktop window: useSampleSearchPagination,   *)
(* useSamplePathLoading and useSampleSelectionState of ui/src/hooks.       *)
(*                                                                         *)
(* Every handler runs to its first await in one step of the renderer, and  *)
(* what it read by then is kept in the record of the call.  The backend    *)
(* reads the table in a step of its own (ReadPage), and the rest of the    *)
(* handler runs when the answer arrives, in any order among the calls.     *)
(* An effect that a state change schedules runs in the step of the change. *)
(***************************************************************************)
EXTENDS Integers, Sequences, FiniteSets

CONSTANTS
  Ids,             \* row ids of table samples, an interval from 1
  Queries,         \* texts of the search field
  EmptyQuery,
  Instruments,     \* values of instrument_type
  Directories,     \* directories of the sidebar
  Any,             \* the empty directory or instrument filter
  Found,           \* Found[q]: the ids whose text matches q
  Inside,          \* Inside[d]: the ids whose path is below d
  PageLimit,       \* uiState.pageLimit
  InitialLibrary,  \* the rows at start, with their instrument
  None,            \* null
  MaxCalls         \* bound of the model: searches and page loads of the user

ASSUME SearchAssumption ==
  /\ IsFiniteSet(Ids) /\ Ids \subseteq Nat \ {0}
  /\ EmptyQuery \in Queries
  /\ PageLimit \in Nat \ {0}
  /\ MaxCalls \in Nat
  /\ None \notin Ids \cup Instruments
  /\ Any \notin Directories \cup Instruments
  /\ InitialLibrary \in [Ids -> Instruments \cup {None}]
  /\ Found \in [Queries -> SUBSET Ids]
  /\ Inside \in [Directories -> SUBSET Ids]

VARIABLES
  library,      \* id -> instrument, None when there is no such row
  samples,      \* the listed ids, in order
  paths,        \* the ids of samplePaths
  search,       \* filters.search
  facet,        \* [directory, instrument]: the filters that search by themselves
  offset,       \* currentOffset
  canMore,      \* canLoadMore
  canPrevious,  \* canLoadPrevious
  lastFull,     \* lastFetchCount === pageLimit
  loadingMore,  \* isLoadingMore
  loadingPrev,  \* isLoadingPrevious
  searching,    \* isSearching
  newest,       \* searchRequestRef: the call of the newest search
  selected,     \* selected?.id
  selectedIds,
  calls,        \* calls whose handler has not resumed
  sent,         \* number of calls sent
  disturbed     \* history: more than page loads since the last search with what the
                \* field and the facets say

filterVars == <<search, facet>>
listVars == <<samples, paths, offset, canMore, canPrevious, lastFull>>
loadVars == <<loadingMore, loadingPrev>>
selectionVars == <<selected, selectedIds>>
searchVars == <<library, samples, paths, search, facet, offset, canMore, canPrevious,
                lastFull, loadingMore, loadingPrev, searching, newest, selected,
                selectedIds, calls, sent, disturbed>>

Facets == [directory : Directories \cup {Any}, instrument : Instruments \cup {Any}]

NoFacet == [directory |-> Any, instrument |-> Any]

Call == [n : Nat, kind : {"search", "more", "previous", "path"},
         query : Queries, facet : Facets, at : Nat, base : Nat,
         state : {"sent", "read", "failed"}, page : SUBSET Ids]

RowsOf(shown) == {shown[k] : k \in DOMAIN shown}

Listed == RowsOf(samples)

PageLoads == {c \in calls : c.kind # "search"}

-----------------------------------------------------------------------------
\* What the backend answers.  A page is a set of ids: rows come in id order.

Present == {id \in Ids : library[id] # None}

Matching(q, f) ==
  {id \in Present \cap Found[q] :
     /\ f.directory = Any \/ id \in Inside[f.directory]
     /\ f.instrument = Any \/ library[id] = f.instrument}

\* LIMIT PageLimit OFFSET at of a set of rows ordered by id.
Page(rows, at) ==
  {id \in rows : Cardinality({x \in rows : x < id}) \in at..(at + PageLimit - 1)}

Half == PageLimit \div 2

\* The window of list_samples_around_id.
Around(target) ==
  LET before == IF target - Half < 1 THEN target - 1 ELSE Half
      above == {id \in Present : target - before <= id /\ id < target}
  IN above \cup {id \in Present : target <= id
                                  /\ id < target + PageLimit - Cardinality(above)}

Answer(c) ==
  CASE c.kind \in {"search", "more", "previous"} -> Page(Matching(c.query, c.facet), c.at)
    [] c.kind = "path" -> IF c.at \in Present THEN Around(c.at) ELSE {}

ReadPage(c) ==
  /\ c \in calls /\ c.state = "sent"
  /\ calls' = (calls \ {c}) \cup {[c EXCEPT !.state = "read", !.page = Answer(c)]}
  /\ UNCHANGED <<library, filterVars, listVars, loadVars, searching, newest,
                 selectionVars, sent, disturbed>>

FailCall(c) ==
  /\ c \in calls /\ c.state = "sent"
  /\ calls' = (calls \ {c}) \cup {[c EXCEPT !.state = "failed"]}
  /\ UNCHANGED <<library, filterVars, listVars, loadVars, searching, newest,
                 selectionVars, sent, disturbed>>

\* A scan adds a row: its id follows the largest one in the table.
Import(id, instrument) ==
  /\ \A x \in Present : x < id
  /\ id = 1 \/ id - 1 \in Present
  /\ library' = [library EXCEPT ![id] = instrument]
  /\ disturbed' = TRUE
  /\ UNCHANGED <<filterVars, listVars, loadVars, searching, newest, selectionVars,
                 calls, sent>>

-----------------------------------------------------------------------------
\* Requests.

\* The bound of the model.
Room == sent < MaxCalls

\* at: the offset or id asked for; base: the offset of the list at that time.
Send(kind, q, f, at) ==
  /\ sent' = sent + 1
  /\ calls' = calls \cup {[n |-> sent, kind |-> kind, query |-> q, facet |-> f,
                           at |-> at, base |-> offset, state |-> "sent", page |-> {}]}

StartSearch(q, f) ==
  /\ Send("search", q, f, 0)
  /\ newest' = sent
  /\ searching' = TRUE

\* The form sets the field and searches with the facet of this render.
SubmitSearch(q) ==
  /\ Room
  /\ search' = q
  /\ StartSearch(q, facet)
  /\ disturbed' = (PageLoads # {})
  /\ UNCHANGED <<library, facet, listVars, loadVars, selectionVars>>

\* The effect of useSampleSearchPagination searches when a facet changes.
SearchWithFacet(f) ==
  /\ Room /\ f # facet
  /\ facet' = f
  /\ StartSearch(search, f)
  /\ disturbed' = (PageLoads # {})

ChooseInstrument(i) ==
  /\ SearchWithFacet([facet EXCEPT !.instrument = i])
  /\ UNCHANGED <<library, search, listVars, loadVars, selectionVars>>

\* A directory of the sidebar, chosen or given up.
ChooseDirectory(d) ==
  /\ SearchWithFacet([facet EXCEPT !.directory = d])
  /\ selected' = None /\ selectedIds' = {}
  /\ UNCHANGED <<library, search, listVars, loadVars>>

\* Clearing every filter searches with the old facet first, and then again.
ClearFilters ==
  /\ Room /\ facet # NoFacet
  /\ search' = EmptyQuery /\ facet' = NoFacet
  /\ calls' = calls \cup
       {[n |-> sent + k, kind |-> "search", query |-> EmptyQuery, at |-> 0, base |-> offset,
         state |-> "sent", facet |-> IF k = 0 THEN facet ELSE NoFacet, page |-> {}] : k \in {0, 1}}
  /\ sent' = sent + 2
  /\ newest' = sent + 1
  /\ searching' = TRUE
  /\ disturbed' = (PageLoads # {})
  /\ UNCHANGED <<library, listVars, loadVars, selectionVars>>

\* The bottom sentinel came into view, below the rows shown.
LoadMore(shown) ==
  /\ Room /\ ~loadingMore /\ canMore /\ lastFull /\ shown # << >>
  /\ Send("more", search, facet, offset + Len(samples))
  /\ loadingMore' = TRUE
  /\ disturbed' = (disturbed \/ searching)
  /\ UNCHANGED <<library, filterVars, listVars, loadingPrev, searching, newest,
                 selectionVars>>

\* Bug: the offset is not clamped.
BelowOffset == offset - PageLimit

PreviousOffset == IF offset > PageLimit THEN offset - PageLimit ELSE 0

LoadPrevious ==
  /\ Room /\ ~loadingPrev /\ canPrevious /\ offset # 0
  /\ Send("previous", search, facet, PreviousOffset)
  /\ loadingPrev' = TRUE
  /\ disturbed' = (disturbed \/ searching)
  /\ UNCHANGED <<library, filterVars, listVars, loadingMore, searching, newest,
                 selectionVars>>

\* A file of the sidebar: its directory filter is dropped without a search.
\* get_sample and the read around its id are one call: nothing is read between.
ClickFile(id) ==
  /\ Room
  /\ Send("path", search, facet, id)
  /\ facet' = [facet EXCEPT !.directory = Any]
  /\ disturbed' = TRUE
  /\ UNCHANGED <<library, search, listVars, loadVars, searching, newest, selectionVars>>

-----------------------------------------------------------------------------
\* Answers.

InIdOrder(rows) ==
  CHOOSE s \in [1..Cardinality(rows) -> rows] :
    \A a, b \in 1..Cardinality(rows) : a < b => s[a] < s[b]

\* Bug: a page is appended without looking for rows listed already.
AppendRows(rows) == samples \o InIdOrder(rows)

AppendFresh(rows) == samples \o InIdOrder(rows \ Listed)

PrependFresh(rows) == InIdOrder(rows \ Listed) \o samples

AroundOffset(target) == IF target > Half THEN target - Half ELSE 0

IsFull(rows) == Cardinality(rows) >= PageLimit

\* Bug: the ids of a range stay selected.
SelectOnly(id) == selected' = id /\ UNCHANGED selectedIds

\* setSelected of useSampleSelectionState.
SetSelected(id) ==
  /\ selected' = id
  /\ selectedIds' = IF id = None THEN {} ELSE {id}

ShowPage(rows, at) ==
  /\ samples' = InIdOrder(rows)
  /\ paths' = rows
  /\ offset' = at
  /\ canMore' = IsFull(rows) /\ lastFull' = IsFull(rows)
  /\ canPrevious' = (at > 0)

\* Bug: every answer is shown.
AnyAnswer(c) == TRUE

IsNewest(c) == c.n = newest

SearchAnswered(c) ==
  /\ c \in calls /\ c.kind = "search" /\ c.state = "read"
  /\ IsNewest(c)
  /\ calls' = calls \ {c}
  /\ searching' = FALSE
  /\ ShowPage(c.page, 0)
  /\ SetSelected(IF selected \in c.page THEN selected ELSE None)
  /\ UNCHANGED <<library, filterVars, loadVars, newest, sent, disturbed>>

\* A newer search was started: rows and error are dropped.
SearchSuperseded(c) ==
  /\ c \in calls /\ c.kind = "search" /\ c.state # "sent"
  /\ ~IsNewest(c)
  /\ calls' = calls \ {c}
  /\ UNCHANGED <<library, filterVars, listVars, loadVars, searching, newest,
                 selectionVars, sent, disturbed>>

StopSearching == searching' = FALSE

SearchFailed(c) ==
  /\ c \in calls /\ c.kind = "search" /\ c.state = "failed"
  /\ IsNewest(c)
  /\ calls' = calls \ {c}
  /\ StopSearching
  /\ disturbed' = TRUE
  /\ UNCHANGED <<library, filterVars, listVars, loadVars, newest, selectionVars, sent>>

\* Bug: the path map is replaced, as a search does.
OnlyPathsOf(rows) == rows

PathsWith(rows) == paths \cup rows

\* Bug: a failed page load leaves its flag.
MoreEndsOnSuccess(c) == loadingMore' = (c.state = "failed")

MoreEnds(c) == loadingMore' = FALSE

MoreAnswered(c) ==
  /\ c \in calls /\ c.kind = "more" /\ c.state # "sent"
  /\ calls' = calls \ {c}
  /\ MoreEnds(c)
  /\ IF c.state = "failed" THEN UNCHANGED listVars
     ELSE /\ samples' = AppendFresh(c.page)
          /\ paths' = PathsWith(c.page)
          /\ canMore' = IsFull(c.page) /\ lastFull' = IsFull(c.page)
          /\ canPrevious' = (c.base > 0)
          /\ UNCHANGED offset
  /\ UNCHANGED <<library, filterVars, loadingPrev, searching, newest, selectionVars,
                 sent, disturbed>>

PreviousAnswered(c) ==
  /\ c \in calls /\ c.kind = "previous" /\ c.state # "sent"
  /\ calls' = calls \ {c}
  /\ loadingPrev' = FALSE
  /\ IF c.state = "failed" THEN UNCHANGED listVars
     ELSE /\ samples' = PrependFresh(c.page)
          /\ paths' = PathsWith(c.page)
          /\ offset' = c.at
          /\ canMore' = TRUE /\ lastFull' = IsFull(c.page)
          /\ canPrevious' = (c.at > 0)
  /\ UNCHANGED <<library, filterVars, loadingMore, searching, newest, selectionVars,
                 sent, disturbed>>

\* The row is gone (the page is empty) or the call failed: nothing changes.
PathAnswered(c) ==
  /\ c \in calls /\ c.kind = "path" /\ c.state # "sent"
  /\ calls' = calls \ {c}
  /\ IF c.page = {} THEN UNCHANGED <<listVars, selectionVars>>
     ELSE ShowPage(c.page, AroundOffset(c.at)) /\ SetSelected(c.at)
  /\ disturbed' = TRUE
  /\ UNCHANGED <<library, filterVars, loadVars, searching, newest, sent>>

-----------------------------------------------------------------------------
\* Selection.

PositionIn(shown, id) == CHOOSE k \in DOMAIN shown : shown[k] = id

\* With shift, the rows from the selected one to this one.
RangeTo(shown, id) ==
  LET a == PositionIn(shown, selected)  b == PositionIn(shown, id)
  IN {shown[k] : k \in (a..b) \cup (b..a)}

SelectSample(shown, id, shift) ==
  /\ id \in RowsOf(shown)
  /\ selected' = id
  /\ selectedIds' =
       IF shift /\ selected \in RowsOf(shown) THEN RangeTo(shown, id) ELSE {id}
  /\ UNCHANGED <<library, filterVars, listVars, loadVars, searching, newest, calls,
                 sent, disturbed>>

CloseDetails ==
  /\ selected # None
  /\ SetSelected(None)
  /\ UNCHANGED <<library, filterVars, listVars, loadVars, searching, newest, calls,
                 sent, disturbed>>

-----------------------------------------------------------------------------
\* The mount effect has searched for the empty text.
SearchInit ==
  /\ library = InitialLibrary
  /\ samples = << >> /\ paths = {}
  /\ search = EmptyQuery /\ facet = NoFacet
  /\ offset = 0 /\ canMore = TRUE /\ canPrevious = FALSE /\ lastFull = TRUE
  /\ loadingMore = FALSE /\ loadingPrev = FALSE
  /\ searching = TRUE /\ newest = 0 /\ sent = 1
  /\ selected = None /\ selectedIds = {}
  /\ calls = {[n |-> 0, kind |-> "search", query |-> EmptyQuery, facet |-> NoFacet,
               at |-> 0, base |-> 0, state |-> "sent", page |-> {}]}
  /\ disturbed = FALSE

\* The sentinels of the list, while the rows shown are on the screen.
PageStep(shown) == LoadMore(shown) \/ LoadPrevious

\* What the user does to the list, and rows that a scan adds.
UserStep(shown) ==
  \/ \E q \in Queries : SubmitSearch(q)
  \/ ClearFilters
  \/ \E i \in Instruments \cup {Any} : ChooseInstrument(i)
  \/ \E d \in Directories \cup {Any} : ChooseDirectory(d)
  \/ \E id \in Ids : ClickFile(id)
  \/ \E id \in Ids, shift \in BOOLEAN : SelectSample(shown, id, shift)
  \/ CloseDetails
  \/ \E id \in Ids, i \in Instruments : Import(id, i)

\* Steps of one call of the renderer, but for the end of a search.
CallStep(c) ==
  ReadPage(c) \/ FailCall(c) \/ MoreAnswered(c) \/ PreviousAnswered(c) \/ PathAnswered(c)

SearchStep(c) == SearchAnswered(c) \/ SearchSuperseded(c) \/ SearchFailed(c)

-----------------------------------------------------------------------------
(* Type correctness of the search, list and selection state. *)
SearchTypeOK ==
  /\ library \in [Ids -> Instruments \cup {None}]
  /\ samples \in Seq(Ids) /\ paths \subseteq Ids
  /\ search \in Queries /\ facet \in Facets
  /\ offset \in Nat /\ canMore \in BOOLEAN /\ canPrevious \in BOOLEAN
  /\ lastFull \in BOOLEAN
  /\ loadingMore \in BOOLEAN /\ loadingPrev \in BOOLEAN
  /\ searching \in BOOLEAN /\ newest \in Nat /\ sent \in Nat
  /\ selected \in Ids \cup {None} /\ selectedIds \subseteq Ids
  /\ calls \subseteq Call /\ disturbed \in BOOLEAN

(* No row is listed twice, whatever pages arrive, in whatever order, after  *)
(* the list they were asked for was replaced: React keys and ranges of rows *)
(* depend on it (appendFreshSamples, prependFreshSamples).                  *)
NoDuplicateRows ==
  \A a, b \in DOMAIN samples : samples[a] = samples[b] => a = b

(* Every listed row has its path, so that each row can be played, trashed   *)
(* or edited: the list and the path map are set by the same answers.        *)
ActionableRows == Listed \subseteq paths

(* The spinner and the two loading flags say exactly which answers are      *)
(* outstanding, whether calls fail, are overtaken or never mattered: no     *)
(* flag sticks, and no page is requested while the same page is under way.  *)
FlagsMatchCalls ==
  /\ searching <=> \E c \in calls : c.kind = "search" /\ c.n = newest
  /\ loadingMore <=> \E c \in calls : c.kind = "more"
  /\ loadingPrev <=> \E c \in calls : c.kind = "previous"

(* The multi-selection always holds the selected row, and is empty without *)
(* one: edits take their targets from it.                                  *)
SelectionConsistent ==
  /\ selected = None <=> selectedIds = {}
  /\ selected # None => selected \in selectedIds

(* After a search with what the field and the facets say, by the user or at *)
(* the end of a trashing, an edit or a restored list, and after page loads  *)
(* that followed its answer (one that overlaps a search may append a page   *)
(* of another text), once all answers are in: the list is the beginning of  *)
(* what is asked for, in order, and each row left out can still be loaded.  *)
QuietListComplete ==
  ~disturbed /\ calls = {} =>
    LET wanted == Matching(search, facet)
    IN /\ Listed \subseteq wanted
       /\ \A a, b \in DOMAIN samples : a < b => samples[a] < samples[b]
       /\ \A x \in wanted \ Listed, y \in Listed : y < x
       /\ Listed = wanted \/ (canMore /\ lastFull)

=============================================================================
