------------------------------ MODULE MidiLibrary ------------------------------
(***************************************************************************)
(* The rows of the MIDI view: hooks/midiState/useMidiLibrary.ts, the       *)
(* effects of useMidiState that search, and the controls of MidiList, its  *)
(* sidebar and the dialog that moves a file to the trash.                  *)
(*                                                                         *)
(* No request carries a number here.  The commands are synchronous: they   *)
(* are served and answered in the order they were sent.                    *)
(*                                                                         *)
(* A filter stands for the search text, the tag and the directory, of      *)
(* which one is in use at a time; None is none of them.                    *)
(***************************************************************************)
EXTENDS UiBase

CONSTANTS
  Midis,         \* ids of the files in the library at first
  MidiMatches,   \* for each filter, the files it matches
  Directories,   \* the filters that are directories
  MidiLimit      \* pageLimit

MidiFilters == DOMAIN MidiMatches

ASSUME MidiAssumption ==
  /\ Midis \subseteq Nat \ {0} /\ IsFiniteSet(Midis)
  /\ MidiLimit \in Nat \ {0}
  /\ None \in MidiFilters /\ MidiMatches[None] = Midis
  /\ Directories \subseteq MidiFilters \ {None}

VARIABLES
  midiDb,          \* the files the database holds
  midiFilter,
  midis,           \* the rows, by id
  midiOffset,      \* currentMidiOffset
  lastCount,       \* lastFetchCountMidi
  canMoreMidi, canPreviousMidi,
  loadingMore, loadingPrevious,
  midiCalls,       \* in the order in which they were sent
  selectedMidi,
  doomed,          \* pendingTrashMidiId, with confirmOpen
  trashing,        \* what confirmTrashMidi saw selected, while it runs
  astrayMidi       \* history: the rows are not pages one after the other

pageVars == <<midis, midiOffset, lastCount, canMoreMidi, canPreviousMidi, astrayMidi>>
midiVars == <<midiDb, midiFilter, pageVars, loadingMore, loadingPrevious, midiCalls,
              selectedMidi, doomed, trashing>>

MidiCall == [kind : {"search", "more", "previous", "row", "around", "rowPage", "trash",
                     "trashSearch"},
             filter : MidiFilters, at : Nat]

-----------------------------------------------------------------------------
\* The database.

\* The files that match, in the order of their ids.
MatchingMidis(f) == InOrder(midiDb \cap MidiMatches[f])

FirstOf(seq, n) == SubSeq(seq, 1, IF n < Len(seq) THEN n ELSE Len(seq))

MidiPage(f, at) ==
  LET all == MatchingMidis(f) IN FirstOf(SubSeq(all, at + 1, Len(all)), MidiLimit)

HalfPage == MidiLimit \div 2

\* list_midis_around_id starts half a page before the file.
AroundMidi(id) == FirstOf(InOrder({m \in midiDb : m + HalfPage >= id}), MidiLimit)

-----------------------------------------------------------------------------
\* Sending.

MidiCallOf(kind, f, at) == [kind |-> kind, filter |-> f, at |-> at]

AskMidi(kind, f, at) ==
  /\ Len(midiCalls) < MaxCalls
  /\ midiCalls' = Append(midiCalls, MidiCallOf(kind, f, at))

Replaces(c) == c.kind \in {"search", "row", "around", "rowPage", "trash", "trashSearch"}
Replacing == \E k \in DOMAIN midiCalls : Replaces(midiCalls[k])

\* runMidiSearch; the effect that follows a new search text asks for the same.
SearchMidis(f) ==
  /\ f # midiFilter \/ f \notin Directories
  /\ midiFilter' = f
  /\ AskMidi("search", f, 0)
  /\ UNCHANGED <<midiDb, pageVars, loadingMore, loadingPrevious, selectedMidi, doomed, trashing>>

\* A directory of the sidebar, which also takes the selection back.
ChooseMidiDirectory(f) ==
  /\ f \in Directories
  /\ midiFilter' = IF midiFilter = f THEN None ELSE f
  /\ AskMidi("search", midiFilter', 0)
  /\ selectedMidi' = None
  /\ UNCHANGED <<midiDb, pageVars, loadingMore, loadingPrevious, doomed, trashing>>

\* The MIDI view is shown again: its effect searches.
ShowMidis ==
  /\ AskMidi("search", midiFilter, 0)
  /\ UNCHANGED <<midiDb, midiFilter, pageVars, loadingMore, loadingPrevious, selectedMidi,
                 doomed, trashing>>

MoreOffered == midis # << >> /\ (lastCount = None \/ lastCount = MidiLimit)

LoadMoreMidi ==
  /\ MoreOffered /\ canMoreMidi /\ ~loadingMore
  /\ loadingMore' = TRUE
  /\ AskMidi("more", midiFilter, midiOffset + Len(midis))
  /\ astrayMidi' = (astrayMidi \/ Replacing)
  /\ UNCHANGED <<midiDb, midiFilter, midis, midiOffset, lastCount, canMoreMidi,
                 canPreviousMidi, loadingPrevious, selectedMidi, doomed, trashing>>

OffsetBefore(at) == IF at > MidiLimit THEN at - MidiLimit ELSE 0

PreviousOffered == midis # << >> /\ canPreviousMidi /\ ~loadingPrevious

LoadPreviousMidi ==
  /\ PreviousOffered /\ midiOffset > 0
  /\ loadingPrevious' = TRUE
  /\ AskMidi("previous", midiFilter, OffsetBefore(midiOffset))
  /\ astrayMidi' = (astrayMidi \/ Replacing)
  /\ UNCHANGED <<midiDb, midiFilter, midis, midiOffset, lastCount, canMoreMidi,
                 canPreviousMidi, loadingMore, selectedMidi, doomed, trashing>>

\* A file of the sidebar: no directory filters what shows it, and the search
\* for the change of filter is suppressed.
ClickMidiFile(id) ==
  /\ id \in Midis
  /\ midiFilter' = IF midiFilter \in Directories THEN None ELSE midiFilter
  /\ AskMidi("row", midiFilter', id)
  /\ astrayMidi' = (astrayMidi \/ midiFilter \in Directories)
  /\ UNCHANGED <<midiDb, midis, midiOffset, lastCount, canMoreMidi, canPreviousMidi,
                 loadingMore, loadingPrevious, selectedMidi, doomed, trashing>>

SelectMidi(id) ==
  /\ \E k \in DOMAIN midis : midis[k] = id
  /\ selectedMidi' = id
  /\ UNCHANGED <<midiDb, midiFilter, pageVars, loadingMore, loadingPrevious, midiCalls,
                 doomed, trashing>>

RequestTrashMidi(id) ==
  /\ doomed = None /\ \E k \in DOMAIN midis : midis[k] = id
  /\ doomed' = id
  /\ UNCHANGED <<midiDb, midiFilter, pageVars, loadingMore, loadingPrevious, midiCalls,
                 selectedMidi, trashing>>

CancelTrashMidi ==
  /\ doomed # None /\ trashing = "no"
  /\ doomed' = None
  /\ UNCHANGED <<midiDb, midiFilter, pageVars, loadingMore, loadingPrevious, midiCalls,
                 selectedMidi, trashing>>

\* A row that left the list meanwhile only closes the dialog.
ConfirmTrashMidi ==
  /\ doomed # None /\ trashing = "no"
  /\ IF \E k \in DOMAIN midis : midis[k] = doomed
       THEN /\ AskMidi("trash", midiFilter, doomed)
            /\ trashing' = (IF selectedMidi = doomed THEN "selected" ELSE "other")
            /\ UNCHANGED doomed
       ELSE /\ doomed' = None
            /\ UNCHANGED <<midiCalls, trashing>>
  /\ UNCHANGED <<midiDb, midiFilter, pageVars, loadingMore, loadingPrevious, selectedMidi>>

-----------------------------------------------------------------------------
\* The answers: the call at the head.

Next1 == Head(midiCalls)
Answered(kinds) == midiCalls # << >> /\ Next1.kind \in kinds

\* replacePage; rows that were sent for over the older ones come later.
ReplacePage(rows, at) ==
  /\ midis' = rows
  /\ midiOffset' = at
  /\ lastCount' = Len(rows)
  /\ canMoreMidi' = (Len(rows) >= MidiLimit)
  /\ canPreviousMidi' = (at > 0)

PagesPending == \E k \in 2..Len(midiCalls) : midiCalls[k].kind \in {"more", "previous"}

\* What the head brings is not what is asked for by now.
Odd == PagesPending \/ Next1.filter # midiFilter

Fresh(rows, old) ==
  Picked(rows, {j \in DOMAIN rows : \A k \in DOMAIN old : old[k] # rows[j]})

SearchMidiReturns ==
  /\ Answered({"search"})
  /\ ReplacePage(MidiPage(Next1.filter, 0), 0)
  /\ astrayMidi' = Odd
  /\ midiCalls' = Tail(midiCalls)
  /\ UNCHANGED <<midiDb, midiFilter, loadingMore, loadingPrevious, selectedMidi, doomed, trashing>>

AppendMidis(rows, old) == old \o Fresh(rows, old)

MoreMidiReturns ==
  /\ Answered({"more"})
  /\ LET rows == MidiPage(Next1.filter, Next1.at) IN
       /\ midis' = AppendMidis(rows, midis)
       /\ lastCount' = Len(rows)
       /\ canMoreMidi' = (Len(rows) >= MidiLimit)
  /\ canPreviousMidi' = (midiOffset > 0)
  /\ loadingMore' = FALSE
  /\ midiCalls' = Tail(midiCalls)
  /\ UNCHANGED <<midiDb, midiFilter, midiOffset, astrayMidi, loadingPrevious, selectedMidi,
                 doomed, trashing>>

PreviousMidiReturns ==
  /\ Answered({"previous"})
  /\ LET rows == MidiPage(Next1.filter, Next1.at) IN
       /\ midis' = Fresh(rows, midis) \o midis
       /\ lastCount' = Len(rows)
  /\ midiOffset' = Next1.at
  /\ canPreviousMidi' = (Next1.at > 0)
  /\ canMoreMidi' = TRUE
  /\ loadingPrevious' = FALSE
  /\ midiCalls' = Tail(midiCalls)
  /\ UNCHANGED <<midiDb, midiFilter, astrayMidi, loadingMore, selectedMidi, doomed, trashing>>

\* loadMidiByPath: a file that is not there ends it.
RowReturns ==
  /\ Answered({"row"})
  /\ IF Next1.at \notin midiDb
       THEN midiCalls' = Tail(midiCalls)
       ELSE midiCalls' = Append(Tail(midiCalls),
              MidiCallOf(IF Next1.filter = None THEN "around" ELSE "rowPage",
                         Next1.filter, Next1.at))
  /\ UNCHANGED <<midiDb, midiFilter, pageVars, loadingMore, loadingPrevious, selectedMidi,
                 doomed, trashing>>

RowPageReturns ==
  /\ Answered({"around", "rowPage"})
  /\ IF Next1.kind = "around"
       THEN ReplacePage(AroundMidi(Next1.at), IF Next1.at > HalfPage THEN Next1.at - HalfPage ELSE 0)
       ELSE ReplacePage(MidiPage(Next1.filter, 0), 0)
  /\ astrayMidi' = (Next1.kind = "around" \/ Odd)
  /\ selectedMidi' = Next1.at
  /\ midiCalls' = Tail(midiCalls)
  /\ UNCHANGED <<midiDb, midiFilter, loadingMore, loadingPrevious, doomed, trashing>>

\* The file is gone; the search that follows is that of the click.
TrashMidiReturns ==
  /\ Answered({"trash"})
  /\ midiDb' = midiDb \ {Next1.at}
  /\ astrayMidi' = TRUE
  /\ midiCalls' = Append(Tail(midiCalls), MidiCallOf("trashSearch", Next1.filter, Next1.at))
  /\ UNCHANGED <<midiFilter, midis, midiOffset, lastCount, canMoreMidi, canPreviousMidi,
                 loadingMore, loadingPrevious, selectedMidi, doomed, trashing>>

EndTrash == doomed' = None /\ trashing' = "no"

\* What was selected at the click loses its selection.
TrashSearchReturns ==
  /\ Answered({"trashSearch"})
  /\ ReplacePage(MidiPage(Next1.filter, 0), 0)
  /\ astrayMidi' = Odd
  /\ selectedMidi' = IF trashing = "selected" THEN None ELSE selectedMidi
  /\ EndTrash
  /\ midiCalls' = Tail(midiCalls)
  /\ UNCHANGED <<midiDb, midiFilter, loadingMore, loadingPrevious>>

\* A page that is not there leaves the rows, and the search text, as they are.
MidiCallFails ==
  /\ midiCalls # << >>
  /\ midiCalls' = Tail(midiCalls)
  /\ loadingMore' = IF Next1.kind = "more" THEN FALSE ELSE loadingMore
  /\ loadingPrevious' = IF Next1.kind = "previous" THEN FALSE ELSE loadingPrevious
  /\ IF Next1.kind \in {"trash", "trashSearch"} THEN EndTrash ELSE UNCHANGED <<doomed, trashing>>
  /\ selectedMidi' = IF Next1.kind = "trashSearch" /\ trashing = "selected" THEN None
                     ELSE selectedMidi
  /\ astrayMidi' = (astrayMidi \/ Replaces(Next1))
  /\ UNCHANGED <<midiDb, midiFilter, midis, midiOffset, lastCount, canMoreMidi, canPreviousMidi>>

-----------------------------------------------------------------------------
MidiInit ==
  /\ midiDb = Midis /\ midiFilter = None
  /\ midis = << >> /\ midiOffset = 0 /\ lastCount = None
  /\ canMoreMidi = TRUE /\ canPreviousMidi = FALSE
  /\ loadingMore = FALSE /\ loadingPrevious = FALSE
  /\ midiCalls = <<MidiCallOf("search", None, 0)>>
  /\ selectedMidi = None /\ doomed = None /\ trashing = "no" /\ astrayMidi = FALSE

MidiUser ==
  \/ \E f \in MidiFilters : SearchMidis(f) \/ ChooseMidiDirectory(f)
  \/ ShowMidis \/ LoadMoreMidi \/ LoadPreviousMidi
  \/ \E id \in Midis : ClickMidiFile(id) \/ SelectMidi(id) \/ RequestTrashMidi(id)
  \/ CancelTrashMidi \/ ConfirmTrashMidi

MidiReturn ==
  \/ SearchMidiReturns \/ MoreMidiReturns \/ PreviousMidiReturns
  \/ RowReturns \/ RowPageReturns \/ TrashMidiReturns \/ TrashSearchReturns

MidiNext == MidiUser \/ MidiReturn \/ MidiCallFails

MidiSpec == MidiInit /\ [][MidiNext]_midiVars /\ WF_midiVars(MidiReturn)

-----------------------------------------------------------------------------
\* Each variable of the list has its type.
MidiTypeOK ==
  /\ midiDb \subseteq Midis /\ midiFilter \in MidiFilters
  /\ midis \in Seq(Midis) /\ midiOffset \in Nat /\ lastCount \in Nat \cup {None}
  /\ {canMoreMidi, canPreviousMidi, loadingMore, loadingPrevious, astrayMidi} \subseteq BOOLEAN
  /\ midiCalls \in Seq(MidiCall)
  /\ selectedMidi \in Midis \cup {None} /\ doomed \in Midis \cup {None}
  /\ trashing \in {"no", "selected", "other"}

\* Each flag of the list is on exactly while a call of its kind is under way.
MidiFlags ==
  /\ loadingMore <=> \E k \in DOMAIN midiCalls : midiCalls[k].kind = "more"
  /\ loadingPrevious <=> \E k \in DOMAIN midiCalls : midiCalls[k].kind = "previous"
  /\ trashing # "no" <=> \E k \in DOMAIN midiCalls : midiCalls[k].kind \in {"trash", "trashSearch"}

\* No file is shown twice, whatever pages were fetched over one another.
MidisOnce == \A i, j \in DOMAIN midis : midis[i] = midis[j] => i = j

\* Unless pages were fetched across a replacement, the rows are what matches,
\* from the first on, and more are offered if there are more.
MidisCurrent ==
  midiCalls = << >> /\ ~astrayMidi =>
    /\ midis = FirstOf(MatchingMidis(midiFilter), Len(midis))
    /\ Len(midis) < Len(MatchingMidis(midiFilter)) => MoreOffered /\ canMoreMidi
===============================================================================
