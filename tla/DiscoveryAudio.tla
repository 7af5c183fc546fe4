----------------------------- MODULE DiscoveryAudio -----------------------------
(***************************************************************************)
(* Listening and comparing in DiscoveryWorkspace:                          *)
(* hooks/discovery/useDiscoveryAudio.ts and ComparisonPanel.               *)
(*                                                                         *)
(* A preview awaits the audio context, the bytes and the decoding; a later *)
(* stop or preview makes its version stale.  Two samples are compared by   *)
(* ear, so they are to be heard at the chosen level.  Where in the sound a *)
(* preview starts, and what the level is in dB, are left out.              *)
(***************************************************************************)
EXTENDS UiBase

CONSTANT Entries

ASSUME EntriesAssumption == None \notin Entries \cup [of : Entries, matched : BOOLEAN]

VARIABLES
  workspaceOpen, compareTab, matchLoudness,
  compared,      \* the entry of each slot, or None
  source,        \* what sounds: its entry, and whether its level is matched
  playingId, loadingId,
  previews       \* previews under way; newest: version = generation

choiceVars == <<workspaceOpen, compareTab, matchLoudness, compared>>
auditionSound == <<source, playingId, loadingId, previews>>
auditionVars == <<choiceVars, auditionSound>>

Preview == [of : Entries, matched : BOOLEAN, newest : BOOLEAN]

\* Bug: what is on its way starts to sound later.
StopSource ==
  /\ source' = None /\ playingId' = None /\ loadingId' = None
  /\ UNCHANGED previews

StopAudition ==
  /\ source' = None /\ playingId' = None /\ loadingId' = None
  /\ previews' = Overtaken(previews)

PlayEntry(e, matched) ==
  /\ Room(previews)
  /\ source' = None /\ playingId' = None /\ loadingId' = e
  /\ previews' = Overtaken(previews) \cup {[of |-> e, matched |-> matched, newest |-> TRUE]}

-----------------------------------------------------------------------------
\* The lists: a row plays or stops, and is chosen for a slot.

PlayRow(e) ==
  /\ workspaceOpen /\ ~compareTab /\ loadingId # e
  /\ IF playingId = e THEN StopAudition ELSE PlayEntry(e, FALSE)
  /\ UNCHANGED choiceVars

ChooseSlot(slot, e) ==
  /\ workspaceOpen /\ ~compareTab
  /\ compared' = [compared EXCEPT ![slot] = e]
  /\ StopAudition
  /\ UNCHANGED <<workspaceOpen, compareTab, matchLoudness>>

\* A tab, the button that opens the comparison, or "similar" of a row.
ShowTab(compare) ==
  /\ workspaceOpen
  /\ compareTab' = compare
  /\ StopAudition
  /\ UNCHANGED <<workspaceOpen, matchLoudness, compared>>

-----------------------------------------------------------------------------
\* The comparison.

PlaySlot(slot) ==
  /\ workspaceOpen /\ compareTab /\ compared[slot] # None /\ loadingId = None
  /\ PlayEntry(compared[slot], matchLoudness)
  /\ UNCHANGED choiceVars

ClearSlot(slot) ==
  /\ workspaceOpen /\ compareTab /\ compared[slot] # None
  /\ compared' = [compared EXCEPT ![slot] = None]
  /\ StopAudition
  /\ UNCHANGED <<workspaceOpen, compareTab, matchLoudness>>

ToggleMatch ==
  /\ workspaceOpen /\ compareTab
  /\ matchLoudness' = ~matchLoudness
  /\ StopAudition
  /\ UNCHANGED <<workspaceOpen, compareTab, compared>>

StopButton ==
  /\ workspaceOpen /\ compareTab /\ (playingId # None \/ loadingId # None)
  /\ StopAudition
  /\ UNCHANGED choiceVars

\* The workspace closes, and opens as new.
CloseWorkspace ==
  /\ workspaceOpen' = ~workspaceOpen
  /\ compareTab' = FALSE /\ matchLoudness' = TRUE /\ compared' = [s \in {"a", "b"} |-> None]
  /\ StopAudition

-----------------------------------------------------------------------------
\* The bytes arrived and are decoded; at the level of the call.
PreviewLoaded(c) ==
  /\ c \in previews
  /\ previews' = previews \ {c}
  /\ IF c.newest
       THEN source' = [of |-> c.of, matched |-> c.matched] /\ playingId' = c.of /\ loadingId' = None
       ELSE UNCHANGED <<source, playingId, loadingId>>
  /\ UNCHANGED choiceVars

PreviewFails(c) ==
  /\ c \in previews
  /\ previews' = previews \ {c}
  /\ loadingId' = IF c.newest THEN None ELSE loadingId
  /\ UNCHANGED <<choiceVars, source, playingId>>

\* onended: its version is the newest, or the handler was taken off it.
SoundEnded ==
  /\ source # None
  /\ source' = None /\ playingId' = None
  /\ UNCHANGED <<choiceVars, loadingId, previews>>

-----------------------------------------------------------------------------
AuditionInit ==
  /\ workspaceOpen = TRUE /\ compareTab = FALSE /\ matchLoudness = TRUE
  /\ compared = [s \in {"a", "b"} |-> None]
  /\ source = None /\ playingId = None /\ loadingId = None /\ previews = {}

AuditionNext ==
  \/ \E e \in Entries : PlayRow(e) \/ \E s \in {"a", "b"} : ChooseSlot(s, e)
  \/ \E s \in {"a", "b"} : PlaySlot(s) \/ ClearSlot(s)
  \/ \E compare \in BOOLEAN : ShowTab(compare)
  \/ ToggleMatch \/ StopButton \/ CloseWorkspace \/ SoundEnded
  \/ \E c \in previews : PreviewLoaded(c) \/ PreviewFails(c)

AuditionSpec == AuditionInit /\ [][AuditionNext]_auditionVars

-----------------------------------------------------------------------------
\* Each variable of the screen has its type.
AuditionTypeOK ==
  /\ {workspaceOpen, compareTab, matchLoudness} \subseteq BOOLEAN
  /\ compared \in [{"a", "b"} -> Entries \cup {None}]
  /\ source = None \/ source \in [of : Entries, matched : BOOLEAN]
  /\ {playingId, loadingId} \subseteq Entries \cup {None}
  /\ previews \subseteq Preview

\* One preview at a time is awaited, and it is the one shown as loading.
LoadingIsNewest ==
  {c.of : c \in {p \in previews : p.newest}} = IF loadingId = None THEN {} ELSE {loadingId}

\* What sounds is what is shown as playing, in an open workspace; while the
\* comparison is shown, it is a sample of the comparison at the level that is
\* chosen there.
ComparedFairly ==
  /\ playingId = IF source = None THEN None ELSE source.of
  /\ source # None => workspaceOpen
  /\ source # None /\ compareTab =>
       source.of \in {compared["a"], compared["b"]} /\ source.matched = matchLoudness
===============================================================================
