----------------------------- MODULE SimilarSearch -----------------------------
(***************************************************************************)
(* The details of the selected sample (components/DetailPanel): the search *)
(* for similar samples with its list of results, the random choice among   *)
(* them, and the instrument filter, whose buttons are the instrument types *)
(* of the database.  search_by_embedding is a synchronous command: it is   *)
(* answered in the order in which it is asked.                             *)
(***************************************************************************)
EXTENDS UiBase

CONSTANTS
  LibrarySounds,       \* samples
  Similar,      \* [LibrarySounds -> SUBSET LibrarySounds]: the nearest ones, itself as well
  Embedded,     \* the samples that have an embedding
  TypeNames,    \* instrument types
  RecentLimit   \* addRecent keeps as many

ASSUME SimilarAssumption ==
  /\ Similar \in [LibrarySounds -> SUBSET LibrarySounds] /\ Embedded \subseteq LibrarySounds
  /\ RecentLimit \in Nat \ {0} /\ None \notin LibrarySounds
  /\ \A s \in Embedded : Similar[s] # None

VARIABLES
  pathed,        \* the samples whose path is known: those of the list
  selectedSound, recentIds,
  resultsOpen, embeddingResults,
  asks,          \* search_by_embedding calls, oldest first
  selectError,
  typeFilter,    \* filterInstrumentType
  offeredTypes,  \* allInstrumentTypeNames
  wanted,        \* history: the sample whose similar ones this panel asked for last
  retyped        \* history: the type that filters was deleted

resultVars == <<resultsOpen, embeddingResults, wanted>>
soundVars == <<selectedSound, recentIds>>
filterSimilarVars == <<typeFilter, offeredTypes, retyped>>
similarVars == <<pathed, soundVars, resultVars, asks, selectError, filterSimilarVars>>

\* alive: the panel that asked is still on screen.
Ask == [of : LibrarySounds, random : BOOLEAN, alive : BOOLEAN]

Orphaned(calls) == [k \in DOMAIN calls |-> [calls[k] EXCEPT !.alive = FALSE]]

-----------------------------------------------------------------------------
\* The selection.

FirstRecent(ids) == SubSeq(ids, 1, IF Len(ids) < RecentLimit THEN Len(ids) ELSE RecentLimit)

Without(s) == Picked(recentIds, {k \in DOMAIN recentIds : recentIds[k] # s})

AddRecent(s) == recentIds' = FirstRecent(<<s>> \o Without(s))

SelectSound(s) == selectedSound' = s /\ AddRecent(s)

\* A row of the list, or of the recent samples.
ClickSound(s) ==
  /\ s \in pathed
  /\ SelectSound(s)
  /\ UNCHANGED <<pathed, resultVars, asks, selectError, filterSimilarVars>>

\* A search or a page: what was selected stays selected.
ListChanges(rows) ==
  /\ pathed' = rows
  /\ UNCHANGED <<soundVars, resultVars, asks, selectError, filterSimilarVars>>

\* The panel is closed, or the sample is deselected elsewhere.
ClosePanel ==
  /\ selectedSound # None
  /\ selectedSound' = None /\ resultsOpen' = FALSE /\ embeddingResults' = {} /\ wanted' = None
  /\ asks' = Orphaned(asks)
  /\ UNCHANGED <<pathed, recentIds, selectError, filterSimilarVars>>

-----------------------------------------------------------------------------
\* Similar samples.

AskSimilar(random) ==
  /\ Len(asks) < MaxCalls
  /\ asks' = Append(asks, [of |-> selectedSound, random |-> random, alive |-> TRUE])
  /\ wanted' = IF random THEN wanted ELSE selectedSound

HandleRunEmbeddingSearch ==
  /\ selectedSound # None
  /\ IF selectedSound \in pathed
       THEN AskSimilar(FALSE) /\ UNCHANGED <<soundVars, selectError>>
       ELSE SelectSound(selectedSound) /\ selectError' = TRUE /\ UNCHANGED <<asks, wanted>>
  /\ UNCHANGED <<pathed, resultsOpen, embeddingResults, filterSimilarVars>>

HandleRunRandomSimilar ==
  /\ selectedSound # None
  /\ IF selectedSound \in pathed
       THEN AskSimilar(TRUE) /\ UNCHANGED selectError
       ELSE selectError' = TRUE /\ UNCHANGED <<asks, wanted>>
  /\ UNCHANGED <<pathed, soundVars, resultsOpen, embeddingResults, filterSimilarVars>>

SetResults(found) == embeddingResults' = IF found = None THEN {} ELSE found

Found(a) == IF a.of \in Embedded THEN Similar[a.of] ELSE None

SearchAnswers ==
  /\ asks # << >>
  /\ LET a == Head(asks) IN
       /\ ~a.random
       /\ asks' = Tail(asks)
       /\ selectError' = (selectError \/ Found(a) = None)
       /\ IF a.alive
            THEN SetResults(Found(a)) /\ resultsOpen' = TRUE
            ELSE UNCHANGED <<resultsOpen, embeddingResults>>
  /\ UNCHANGED <<pathed, soundVars, wanted, filterSimilarVars>>

Candidates(a) == IF Found(a) \ {a.of} # {} THEN Found(a) \ {a.of} ELSE Found(a)

\* The choice is handed on even when its panel is gone.
RandomAnswers ==
  /\ asks # << >>
  /\ LET a == Head(asks) IN
       /\ a.random
       /\ asks' = Tail(asks)
       /\ IF Found(a) \in {None, {}}
            THEN selectError' = TRUE /\ UNCHANGED soundVars
            ELSE \E s \in Candidates(a) : SelectSound(s) /\ UNCHANGED selectError
  /\ UNCHANGED <<pathed, resultVars, filterSimilarVars>>

HandleSelectResult(s) ==
  /\ resultsOpen /\ s \in embeddingResults
  /\ SelectSound(s)
  /\ resultsOpen' = FALSE
  /\ UNCHANGED <<pathed, embeddingResults, wanted, asks, selectError, filterSimilarVars>>

CloseResults ==
  /\ resultsOpen
  /\ resultsOpen' = FALSE
  /\ UNCHANGED <<pathed, soundVars, embeddingResults, wanted, asks, selectError, filterSimilarVars>>

-----------------------------------------------------------------------------
\* The filter.

\* The button of the type that filters takes the filter away.
ToggleTypeFilter(t) ==
  /\ selectedSound # None /\ t \in offeredTypes
  /\ typeFilter' = IF typeFilter = t THEN None ELSE t
  /\ retyped' = FALSE
  /\ UNCHANGED <<pathed, soundVars, resultVars, asks, selectError, offeredTypes>>

ResetSampleFilters ==
  /\ selectedSound # None
  /\ typeFilter' = None /\ retyped' = FALSE
  /\ UNCHANGED <<pathed, soundVars, resultVars, asks, selectError, offeredTypes>>

\* The instrument types are edited: the filter is not.
TypesChange(types) ==
  /\ types # {}
  /\ offeredTypes' = types
  /\ retyped' = (typeFilter # None /\ typeFilter \notin types)
  /\ UNCHANGED <<pathed, soundVars, resultVars, asks, selectError, typeFilter>>

-----------------------------------------------------------------------------
SimilarInit ==
  /\ pathed = LibrarySounds /\ selectedSound = None /\ recentIds = << >>
  /\ resultsOpen = FALSE /\ embeddingResults = {} /\ wanted = None /\ asks = << >>
  /\ selectError = FALSE
  /\ typeFilter = None /\ offeredTypes = TypeNames /\ retyped = FALSE

SimilarUser ==
  \/ \E s \in LibrarySounds : ClickSound(s) \/ HandleSelectResult(s)
  \/ \E rows \in SUBSET LibrarySounds : ListChanges(rows)
  \/ ClosePanel \/ HandleRunEmbeddingSearch \/ HandleRunRandomSimilar \/ CloseResults
  \/ \E t \in TypeNames : ToggleTypeFilter(t)
  \/ ResetSampleFilters
  \/ \E types \in SUBSET TypeNames : TypesChange(types)

SimilarReturn == SearchAnswers \/ RandomAnswers

SimilarNext == SimilarUser \/ SimilarReturn

SimilarSpec == SimilarInit /\ [][SimilarNext]_similarVars

-----------------------------------------------------------------------------
\* Each variable of the search has its type.
SimilarTypeOK ==
  /\ pathed \subseteq LibrarySounds /\ selectedSound \in LibrarySounds \cup {None}
  /\ recentIds \in Seq(LibrarySounds) /\ Len(recentIds) <= RecentLimit
  /\ {resultsOpen, selectError, retyped} \subseteq BOOLEAN
  /\ embeddingResults \subseteq LibrarySounds
  /\ asks \in Seq(Ask) /\ Len(asks) <= MaxCalls
  /\ wanted \in LibrarySounds \cup {None}
  /\ typeFilter \in TypeNames \cup {None} /\ offeredTypes \subseteq TypeNames

\* Once answered, the list shows what is similar to the sample for which this
\* panel asked last, nothing when that failed; it never survives its panel.
SimilarShown ==
  resultsOpen =>
    /\ selectedSound # None
    /\ (\A k \in DOMAIN asks : asks[k].random \/ ~asks[k].alive) =>
         embeddingResults = IF wanted \in Embedded THEN Similar[wanted] ELSE {}

\* The recent samples: each once, newest first.
RecentOnce == \A j, k \in DOMAIN recentIds : recentIds[j] = recentIds[k] => j = k

\* What filters can be seen and taken away, unless it was deleted meanwhile.
FilterOffered == typeFilter = None \/ typeFilter \in offeredTypes \/ retyped
===============================================================================
