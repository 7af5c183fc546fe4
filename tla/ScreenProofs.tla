----------------------------- MODULE ScreenProofs -----------------------------
(***************************************************************************)
(* What is proved of the screens that play sound, of the dialogs that edit,*)
(* and of the panels beside the lists: the player bar, its pitch control,  *)
(* the comparison of the discovery screen, the MIDI player, the Freesound  *)
(* screen, the edit forms and the tag dialog, the label managers, and the  *)
(* search text.  Each part states an inductive invariant, shows that every *)
(* action preserves it, and derives from it what the component promises.   *)
(* The lemmas about single actions of the bar are cited by the composition *)
(* with the previews of the local API as well.                             *)
(***************************************************************************)
EXTENDS PlayerBar, PitchShift, DiscoveryAudio, MidiPlayer, FreesoundWorkspace, EditForms, TagEdit,
        Labels, SearchLanguage,
        FiniteSetTheorems, WellFoundedInduction, TLAPS

-----------------------------------------------------------------------------
(* The player bar: what it loads, and the URL of it. *)

LEMMA OvertakenReads ==
  ASSUME reads \subseteq Read
  PROVE  Overtaken(reads) \subseteq Read /\ \A r \in Overtaken(reads) : ~r.newest
  BY DEF Overtaken, Read

\* A load overtakes the reads under way, and reads the file of a path.
LEMMA NewRead ==
  ASSUME reads \subseteq Read, NEW p \in Paths \cup {None}, NEW R,
         R = Overtaken(reads) \cup (IF p = None THEN {} ELSE {[of |-> p, newest |-> TRUE]})
  PROVE  /\ R \subseteq Read
         /\ \A r \in R : r.newest => p # None /\ r.of = p
         /\ \A r, q \in R : r.newest /\ q.newest => r = q
         /\ p # None => \E r \in R : r.newest
  <1>0. Overtaken(reads) \subseteq Read /\ \A r \in Overtaken(reads) : ~r.newest
    BY OvertakenReads
  <1>1. CASE p = None
    BY <1>0, <1>1
  <1>2. CASE p # None
    <2> DEFINE new == [of |-> p, newest |-> TRUE]
    <2>1. new \in Read /\ new.newest /\ new.of = p
      BY <1>2 DEF Read
    <2>2. R = Overtaken(reads) \cup {new}
      BY <1>2
    <2> HIDE DEF new
    <2> QED
      BY <1>0, <1>2, <2>1, <2>2
  <1> QED
    BY <1>1, <1>2

\* The bar but for what it sounds: what is read and loaded is for the path that
\* it has, and there is nothing of an earlier one.
BarLoads ==
  /\ ~mounted => path = None /\ stablePath = None /\ objectUrl = None /\ ~listening /\ paused
  /\ \A r \in reads :
       r.newest => /\ mounted
                   /\ r.of = path /\ path = stablePath /\ src = None /\ objectUrl = None
  /\ \A r, q \in reads : r.newest /\ q.newest => r = q
  /\ path # stablePath => pathTimer /\ src = None /\ objectUrl = None
  /\ src = None <=> media = "none"
  /\ mounted /\ src # None => src = path
  /\ mounted /\ ~returned /\ path = stablePath =>
       /\ listening <=> path # None
       /\ barLoading => media = "fetching" \/ \E r \in reads : r.newest
  /\ errorTimer => listening /\ media # "ready"
  /\ src # None => notices \in Seq({"play", "pause"})

BarInv == BarTypeOK /\ BarLoads /\ NoLeakedUrl

LEMMA BarInitInv == BarInit => BarInv
  <1> SUFFICES ASSUME BarInit PROVE BarInv
    OBVIOUS
  <1>1. << >> \in Seq({"play", "pause", "error"})
    OBVIOUS
  <1>2. BarTypeOK
    BY <1>1, Zenon DEF BarInit, BarTypeOK
  <1>3. BarLoads /\ NoLeakedUrl
    BY DEF BarInit, BarLoads, NoLeakedUrl
  <1> QED
    BY <1>2, <1>3 DEF BarInv

\* What only sounds, or says so, loads nothing.
LEMMA SoundChanges ==
  ASSUME BarInv, BarTypeOK', ~paused' => mounted, errorTimer' => errorTimer,
         src # None => notices' \in Seq({"play", "pause"}),
         UNCHANGED <<propVars, stablePath, pathTimer, reads, listening, returned, barLoading, urlVars,
                     src, media, wave>>
  PROVE  BarInv'
  BY DEF BarInv, BarLoads, NoLeakedUrl, propVars, urlVars

LEMMA ShowBarInv ==
  ASSUME BarInv, NEW p \in Paths \cup {None}, ShowBar(p)
  PROVE  BarInv'
  <1>0. /\ reads' \subseteq Read
        /\ \A r \in reads' : r.newest => p # None /\ r.of = p
        /\ \A r, q \in reads' : r.newest /\ q.newest => r = q
        /\ p # None => \E r \in reads' : r.newest
    <2>1. reads \subseteq Read
      BY DEF BarInv, BarTypeOK
    <2>2. reads' = Overtaken(reads) \cup (IF p = None THEN {} ELSE {[of |-> p, newest |-> TRUE]})
      BY DEF ShowBar
    <2> QED
      BY <2>1, <2>2, NewRead
  <1>1. BarTypeOK'
    <2>1. (p # None) \in BOOLEAN
      OBVIOUS
    <2>3. <<"error">> \in Seq({"play", "pause", "error"})
      OBVIOUS
    <2>4. notices' = <<"error">>
      BY Zenon DEF ShowBar, SetSource
    <2> QED
      BY <1>0, <2>1, <2>3, <2>4, Zenon DEF ShowBar, BarInv, BarTypeOK, SetSource
  <1>2. BarLoads'
    <2>1. (barLoading' <=> p # None) /\ (listening' <=> p # None)
      BY Zenon DEF ShowBar
    <2>2. /\ mounted' = TRUE /\ path' = p /\ stablePath' = p /\ src' = None /\ media' = "none"
          /\ objectUrl' = objectUrl /\ errorTimer' = FALSE
      BY DEF ShowBar, SetSource
    <2>3. objectUrl = None
      BY DEF ShowBar, BarInv, BarLoads
    <2> QED
      BY <1>0, <2>1, <2>2, <2>3 DEF BarLoads
  <1>3. NoLeakedUrl'
    BY DEF ShowBar, BarInv, BarLoads, NoLeakedUrl
  <1> QED
    BY <1>1, <1>2, <1>3 DEF BarInv

LEMMA LeaveBarInv ==
  ASSUME BarInv, LeaveBar
  PROVE  BarInv'
  <1>0. Overtaken(reads) \subseteq Read /\ \A r \in Overtaken(reads) : ~r.newest
    BY OvertakenReads DEF BarInv, BarTypeOK
  <1>1. BarTypeOK'
    <2>1. /\ {mounted', barAutoPlay', pathTimer', barLoading', loadError', errorTimer', playing',
              listening', paused', returned'} \subseteq BOOLEAN
          /\ {path', stablePath', objectUrl', audioUrl', src'} \subseteq Paths \cup {None}
      BY DEF LeaveBar, CleanUpLoad, RevokeUrl, Overtake, BarInv, BarTypeOK
    <2>2. urls' \in Nat
      BY DEF LeaveBar, CleanUpLoad, RevokeUrl, BarInv, BarTypeOK, NoLeakedUrl
    <2>3. << >> \in Seq({"play", "pause", "error"})
      OBVIOUS
    <2> QED
      BY <1>0, <2>1, <2>2, <2>3, Zenon DEF LeaveBar, Overtake, BarInv, BarTypeOK
  <1>2. BarLoads'
    <2>1. << >> \in Seq({"play", "pause"})
      OBVIOUS
    <2> QED
      BY <1>0, <2>1 DEF LeaveBar, Overtake, CleanUpLoad, RevokeUrl, BarInv, BarTypeOK, BarLoads
  <1>3. NoLeakedUrl'
    BY DEF LeaveBar, CleanUpLoad, RevokeUrl, BarInv, BarTypeOK, NoLeakedUrl
  <1> QED
    BY <1>1, <1>2, <1>3 DEF BarInv

LEMMA ChangePathInv ==
  ASSUME BarInv, NEW p \in Paths \cup {None}, ChangePath(p)
  PROVE  BarInv'
  <1>0. Overtaken(reads) \subseteq Read /\ \A r \in Overtaken(reads) : ~r.newest
    BY OvertakenReads DEF BarInv, BarTypeOK
  <1>1. BarTypeOK'
    <2>0. (p = stablePath) \in BOOLEAN
      OBVIOUS
    <2>4. returned' \in BOOLEAN
      BY <2>0, Zenon DEF ChangePath
    <2>5. loadError' \in BOOLEAN
      BY Zenon DEF ChangePath
    <2>1. /\ {mounted', barAutoPlay', pathTimer', barLoading', errorTimer', playing',
              listening', paused'} \subseteq BOOLEAN
          /\ {path', stablePath', objectUrl', audioUrl', src'} \subseteq Paths \cup {None}
          /\ wave' \in {"none", "empty", "loading", "ready", "failed"}
          /\ held' \in {"none", "live", "gone"}
          /\ media' \in {"none", "fetching", "ready", "bad"}
          /\ reads' \subseteq Read
      BY <1>0 DEF ChangePath, PathEffect, SetSource, RevokeUrl, Overtake, BarInv, BarTypeOK
    <2>2. urls' \in Nat
      BY DEF ChangePath, PathEffect, RevokeUrl, BarInv, BarTypeOK, NoLeakedUrl
    <2>3. notices' \in Seq({"play", "pause", "error"})
      BY DEF ChangePath, PathEffect, SetSource
    <2> QED
      BY <2>1, <2>2, <2>3, <2>4, <2>5 DEF BarTypeOK
  <1>2. BarLoads'
    <2>1. returned' <=> p = stablePath
      BY Zenon DEF ChangePath
    <2> QED
      BY <1>0, <2>1 DEF ChangePath, PathEffect, SetSource, Overtake, RevokeUrl, BarInv, BarTypeOK, BarLoads
  <1>3. NoLeakedUrl'
    BY DEF ChangePath, PathEffect, RevokeUrl, BarInv, BarTypeOK, NoLeakedUrl
  <1> QED
    BY <1>1, <1>2, <1>3 DEF BarInv

LEMMA PathTimerInv ==
  ASSUME BarInv, PathTimerFires
  PROVE  BarInv'
  <1>1. CASE path = stablePath
    <2>1. BarTypeOK'
      BY <1>1 DEF PathTimerFires, BarInv, BarTypeOK, propVars, shownVars, element, waveVars
    <2>2. BarLoads'
      BY <1>1 DEF PathTimerFires, BarInv, BarLoads, propVars, shownVars, element, waveVars
    <2>3. NoLeakedUrl'
      BY <1>1 DEF PathTimerFires, BarInv, NoLeakedUrl, waveVars
    <2> QED
      BY <2>1, <2>2, <2>3 DEF BarInv
  <1>2. CASE path # stablePath
    <2>0. /\ path \in Paths \cup {None} /\ stablePath' = path /\ pathTimer' = FALSE
          /\ src = None /\ media = "none" /\ objectUrl = None /\ mounted
          /\ UNCHANGED <<propVars, audioUrl, waveVars, returned>>
      BY <1>2 DEF PathTimerFires, BarInv, BarTypeOK, BarLoads
    <2>1. /\ reads' \subseteq Read
          /\ \A r \in reads' : r.newest => path # None /\ r.of = path
          /\ \A r, q \in reads' : r.newest /\ q.newest => r = q
          /\ path # None => \E r \in reads' : r.newest
      <3>1. reads \subseteq Read
        BY DEF BarInv, BarTypeOK
      <3>2. reads' = Overtaken(reads)
                       \cup (IF path = None THEN {} ELSE {[of |-> path, newest |-> TRUE]})
        BY <1>2 DEF PathTimerFires, LoadAudio
      <3>3. path \in Paths \cup {None}
        BY <2>0
      <3> QED
        BY <3>1, <3>2, <3>3, NewRead
    <2>2. /\ barLoading' <=> path # None
          /\ listening' <=> path # None
          /\ barLoading' \in BOOLEAN /\ listening' \in BOOLEAN
      BY <1>2, Zenon DEF PathTimerFires, LoadAudio
    <2>3. /\ loadError' \in BOOLEAN /\ playing' = FALSE /\ errorTimer' = FALSE
          /\ objectUrl' = None /\ urls' = urls
      <3>1. loadError \in BOOLEAN /\ urls = 0
        BY <2>0 DEF BarInv, BarTypeOK, NoLeakedUrl
      <3>2. LoadAudio(path) /\ CleanUpLoad
        BY <1>2 DEF PathTimerFires
      <3>3. loadError' \in BOOLEAN /\ playing' = FALSE
        BY <3>2, Zenon DEF LoadAudio
      <3>4. errorTimer' = FALSE /\ objectUrl' = None /\ urls' = urls - 0
        BY <2>0, <3>2 DEF CleanUpLoad, RevokeUrl
      <3> QED
        BY <3>1, <3>3, <3>4
    <2>4. /\ src' = None /\ media' = "none" /\ paused' = TRUE
          /\ notices' \in Seq({"play", "pause", "error"})
      <3>1. IF path = None THEN SetSource(None) ELSE CutSound
        BY <1>2 DEF PathTimerFires
      <3>2. notices \in Seq({"play", "pause", "error"})
        BY DEF BarInv, BarTypeOK
      <3>3. <<"error">> \in Seq({"play", "pause", "error"}) /\ Append(notices, "pause") \in Seq({"play", "pause", "error"})
        BY <3>2
      <3> QED
        BY <2>0, <3>1, <3>2, <3>3 DEF SetSource, CutSound
    <2>5. BarTypeOK'
      BY <2>0, <2>1, <2>2, <2>3, <2>4 DEF BarInv, BarTypeOK, propVars, waveVars
    <2>6. BarLoads'
      BY <2>0, <2>1, <2>2, <2>3, <2>4 DEF BarLoads, propVars
    <2>7. NoLeakedUrl'
      BY <2>0, <2>3 DEF BarInv, NoLeakedUrl, waveVars
    <2> QED
      BY <2>5, <2>6, <2>7 DEF BarInv
  <1> QED
    BY <1>1, <1>2

LEMMA AutoPlayInv ==
  ASSUME BarInv, SetAutoPlay
  PROVE  BarInv'
  <1>0. barAutoPlay' \in BOOLEAN
    BY Zenon DEF SetAutoPlay
  <1>1. BarTypeOK'
    BY <1>0 DEF SetAutoPlay, BarInv, BarTypeOK, shownVars, urlVars, element, loadVars
  <1>2. BarLoads'
    BY DEF SetAutoPlay, BarInv, BarLoads, shownVars, urlVars, element, loadVars
  <1>3. NoLeakedUrl'
    BY DEF SetAutoPlay, BarInv, NoLeakedUrl, urlVars
  <1> QED
    BY <1>1, <1>2, <1>3 DEF BarInv

LEMMA ReadReturnsInv ==
  ASSUME BarInv, NEW r \in reads, ReadReturns(r)
  PROVE  BarInv'
  <1>0. r \in Read /\ r.of \in Paths /\ r.of # None
    BY PathsAssumption DEF BarInv, BarTypeOK, Read
  <1>1. BarTypeOK'
    <2>1. << >> \in Seq({"play", "pause", "error"})
      OBVIOUS
    <2>2. /\ UNCHANGED <<mounted, path, barAutoPlay, barLoading, errorTimer, playing,
                         held, stablePath, pathTimer, listening, returned>>
          /\ reads' \subseteq Read
      BY DEF ReadReturns, BarInv, BarTypeOK, propVars
    <2>5. loadError' \in BOOLEAN
      <3>1. (loadError \/ PlayWaits) \in BOOLEAN /\ loadError \in BOOLEAN
        BY DEF BarInv, BarTypeOK
      <3> QED
        BY <3>1, Zenon DEF ReadReturns
    <2>3. CASE r.newest
      <3>1. /\ objectUrl' = r.of /\ audioUrl' = r.of /\ urls' = urls + 1 /\ src' = r.of
            /\ media' = "fetching" /\ paused' = TRUE /\ notices' = << >>
            /\ wave' = IF barAutoPlay THEN "none" ELSE "loading"
        BY <1>0, <2>3 DEF ReadReturns, SetSource
      <3> QED
        BY <1>0, <2>1, <2>2, <2>5, <3>1 DEF BarInv, BarTypeOK
    <2>4. CASE ~r.newest
      BY <2>2, <2>4, <2>5 DEF ReadReturns, BarInv, BarTypeOK, urlVars, element
    <2> QED
      BY <2>3, <2>4
  <1>2. BarLoads'
    <2>1. << >> \in Seq({"play", "pause"})
      OBVIOUS
    <2>2. /\ UNCHANGED <<mounted, path, stablePath, pathTimer, listening, errorTimer, barLoading, returned>>
          /\ reads' = reads \ {r}
      BY DEF ReadReturns, propVars
    <2>3. CASE r.newest
      <3>1. /\ objectUrl' = r.of /\ src' = r.of /\ media' = "fetching" /\ paused' = TRUE
            /\ notices' = << >>
        BY <1>0, <2>3 DEF ReadReturns, SetSource
      <3> QED
        BY <1>0, <2>1, <2>2, <2>3, <3>1 DEF BarInv, BarTypeOK, BarLoads
    <2>4. CASE ~r.newest
      <3>1. UNCHANGED <<objectUrl, src, media, paused, notices>>
        BY <2>4 DEF ReadReturns, urlVars, element
      <3> QED
        BY <2>2, <2>4, <3>1 DEF BarInv, BarTypeOK, BarLoads
    <2> QED
      BY <2>3, <2>4
  <1>3. NoLeakedUrl'
    BY <1>0 DEF ReadReturns, BarInv, BarTypeOK, BarLoads, NoLeakedUrl, propVars, urlVars, element
  <1> QED
    BY <1>1, <1>2, <1>3 DEF BarInv

LEMMA ReadFailsInv ==
  ASSUME BarInv, NEW r \in reads, ReadFails(r)
  PROVE  BarInv'
  <1>0. /\ loadError' \in BOOLEAN /\ barLoading' \in BOOLEAN
        /\ barLoading' <=> barLoading /\ ~r.newest
    BY Zenon DEF ReadFails
  <1>1. BarTypeOK'
    BY <1>0 DEF ReadFails, BarInv, BarTypeOK, propVars, urlVars, element, waveVars
  <1>2. BarLoads'
    BY <1>0 DEF ReadFails, BarInv, BarTypeOK, BarLoads, propVars, urlVars, element, waveVars
  <1>3. NoLeakedUrl'
    BY DEF ReadFails, BarInv, NoLeakedUrl, urlVars, waveVars
  <1> QED
    BY <1>1, <1>2, <1>3 DEF BarInv

LEMMA MetadataInv ==
  ASSUME BarInv, MetadataLoaded
  PROVE  BarInv'
  <1>0. /\ UNCHANGED <<propVars, playing, urlVars, src, waveVars, loadVars>>
        /\ media \in {"fetching", "bad"} /\ media' = "ready"
    BY DEF MetadataLoaded
  <1>1. barLoading' \in BOOLEAN /\ (barLoading' <=> barLoading /\ ~listening)
    BY DEF MetadataLoaded, BarInv, BarTypeOK
  <1>2. /\ paused' \in BOOLEAN /\ loadError' \in BOOLEAN /\ errorTimer' \in BOOLEAN
        /\ ~listening => paused' = paused
        /\ ~errorTimer'
    <2>1. (paused /\ ~barAutoPlay) \in BOOLEAN
      OBVIOUS
    <2> QED
      BY <2>1, Zenon DEF MetadataLoaded, BarInv, BarTypeOK, BarLoads
  <1>3. notices' \in Seq({"play", "pause", "error"}) /\ notices' \in Seq({"play", "pause"})
    <2>1. /\ notices \in Seq({"play", "pause", "error"}) /\ notices \in Seq({"play", "pause"})
          /\ Append(notices, "play") \in Seq({"play", "pause", "error"})
          /\ Append(notices, "play") \in Seq({"play", "pause"})
      BY <1>0 DEF BarInv, BarTypeOK, BarLoads
    <2> QED
      BY <2>1 DEF MetadataLoaded
  <1>4. BarTypeOK'
    BY <1>0, <1>1, <1>2, <1>3 DEF BarInv, BarTypeOK, propVars, urlVars, waveVars, loadVars
  <1>5. BarLoads'
    BY <1>0, <1>1, <1>2, <1>3 DEF BarInv, BarTypeOK, BarLoads, propVars, urlVars, loadVars
  <1>6. NoLeakedUrl'
    BY <1>0 DEF BarInv, NoLeakedUrl, urlVars, waveVars
  <1> QED
    BY <1>4, <1>5, <1>6 DEF BarInv

\* An error of the element, of its file or of its empty source.
LEMMA MediaFailsInv ==
  ASSUME BarInv, MediaFails \/ EmptySourceFails
  PROVE  BarInv'
  <1>0. /\ UNCHANGED <<propVars, playing, urlVars, src, paused, waveVars, loadVars>>
        /\ (media = "fetching" /\ media' = "bad") \/ (NewlyEmpty /\ media' = media)
    BY DEF MediaFails, EmptySourceFails, OnError
  <1>1. /\ barLoading' \in BOOLEAN /\ (barLoading' <=> barLoading /\ ~listening)
        /\ errorTimer' \in BOOLEAN /\ (errorTimer' <=> errorTimer \/ listening)
        /\ loadError' \in BOOLEAN
    BY Zenon DEF MediaFails, EmptySourceFails, OnError
  <1>2. notices' \in Seq({"play", "pause", "error"})
    BY DEF MediaFails, EmptySourceFails, NewlyEmpty, BarInv, BarTypeOK
  <1>3. /\ src # None => media = "fetching" /\ notices' \in Seq({"play", "pause"})
        /\ media' # "ready"
    BY <1>0 DEF MediaFails, EmptySourceFails, NewlyEmpty, BarInv, BarLoads
  <1>4. BarTypeOK'
    BY <1>0, <1>1, <1>2 DEF BarInv, BarTypeOK, propVars, urlVars, waveVars, loadVars
  <1>5. BarLoads'
    BY <1>0, <1>1, <1>3 DEF BarInv, BarTypeOK, BarLoads, propVars, urlVars, loadVars
  <1>6. NoLeakedUrl'
    BY <1>0 DEF BarInv, NoLeakedUrl, urlVars, waveVars
  <1> QED
    BY <1>4, <1>5, <1>6 DEF BarInv

LEMMA WaveInv ==
  ASSUME BarInv, WaveReady \/ WaveFails \/ Recolour
  PROVE  BarInv'
  <1>1. BarTypeOK'
    BY DEF WaveReady, WaveFails, Recolour, BarInv, BarTypeOK, propVars, shownVars, urlVars,
           element, loadVars
  <1>2. BarLoads'
    BY DEF WaveReady, WaveFails, Recolour, BarInv, BarLoads, propVars, shownVars, urlVars,
           element, loadVars
  <1>3. NoLeakedUrl'
    BY DEF WaveReady, WaveFails, Recolour, BarInv, NoLeakedUrl, urlVars
  <1> QED
    BY <1>1, <1>2, <1>3 DEF BarInv

\* What the element, its events and the buttons change.
LEMMA ElementEvents ==
  ASSUME NEW S, {"play", "pause"} \subseteq S, notices \in Seq(S),
         PauseElement \/ RestartElement \/ PlayElement
  PROVE  notices' \in Seq(S)
  <1>1. /\ Append(notices, "pause") \in Seq(S) /\ Append(notices, "play") \in Seq(S)
        /\ (IF paused THEN notices ELSE Append(notices, "pause")) \o <<"play">> \in Seq(S)
    OBVIOUS
  <1> QED
    BY <1>1 DEF PauseElement, RestartElement, PlayElement, CutSound, element

LEMMA ElementTypes ==
  ASSUME BarInv, PauseElement \/ RestartElement \/ PlayElement
  PROVE  /\ paused' \in BOOLEAN /\ notices' \in Seq({"play", "pause", "error"})
         /\ loadError' \in BOOLEAN /\ UNCHANGED <<src, media>>
         /\ src # None => notices' \in Seq({"play", "pause"})
  <1>0. /\ notices \in Seq({"play", "pause", "error"}) /\ paused \in BOOLEAN /\ loadError \in BOOLEAN
        /\ (loadError \/ PlayWaits) \in BOOLEAN
    BY DEF BarInv, BarTypeOK
  <1>1. /\ notices' \in Seq({"play", "pause", "error"})
        /\ src # None => notices' \in Seq({"play", "pause"})
    BY <1>0, ElementEvents DEF BarInv, BarLoads
  <1>2. paused' \in BOOLEAN /\ UNCHANGED <<src, media>>
    BY <1>0 DEF PauseElement, RestartElement, PlayElement, CutSound, element
  <1>3. loadError' \in BOOLEAN
    BY <1>0, Zenon DEF PauseElement, RestartElement, PlayElement
  <1> QED
    BY <1>1, <1>2, <1>3

LEMMA PressInv ==
  ASSUME BarInv,
         \/ Press(HandlePlayButtonClick) \/ Press(TogglePlayback) \/ Press(PlayFromStart)
         \/ Press(StopSound)
  PROVE  BarInv'
  <1>1. mounted /\ UNCHANGED <<propVars, barLoading, errorTimer, urlVars, waveVars, loadVars>>
    BY DEF Press, Attend
  <1>2. /\ paused' \in BOOLEAN /\ notices' \in Seq({"play", "pause", "error"})
        /\ loadError' \in BOOLEAN /\ playing' \in BOOLEAN
        /\ UNCHANGED <<src, media>> /\ (src # None => notices' \in Seq({"play", "pause"}))
    <2>1. /\ src # None => notices \in Seq({"play", "pause"})
          /\ loadError \in BOOLEAN /\ playing \in BOOLEAN
          /\ paused \in BOOLEAN /\ notices \in Seq({"play", "pause", "error"})
      BY DEF BarInv, BarTypeOK, BarLoads
    <2>2. CASE Press(HandlePlayButtonClick)
      BY <2>1, <2>2, ElementTypes DEF Press, HandlePlayButtonClick, PlaySound, element
    <2>3. CASE Press(TogglePlayback)
      BY <2>1, <2>3, ElementTypes DEF Press, TogglePlayback, StopSound, PlaySound, element
    <2>4. CASE Press(PlayFromStart) \/ Press(StopSound)
      BY <2>1, <2>4, ElementTypes DEF Press, PlayFromStart, StopSound
    <2> QED
      BY <2>2, <2>3, <2>4
  <1>3. BarTypeOK'
    BY <1>1, <1>2 DEF BarInv, BarTypeOK, propVars, urlVars, waveVars, loadVars
  <1> QED
    BY <1>1, <1>2, <1>3, SoundChanges DEF propVars, waveVars, loadVars

LEMMA SoundInv ==
  ASSUME BarInv, SoundEnds \/ TrimEnds \/ Hear \/ ErrorTimerFires
  PROVE  BarInv'
  <1>1. /\ UNCHANGED <<propVars, barLoading, urlVars, src, media, waveVars, loadVars>>
        /\ errorTimer' => errorTimer
    BY DEF SoundEnds, TrimEnds, Hear, ErrorTimerFires, PauseElement, CutSound, shownVars, element
  <1>2. /\ BarTypeOK' /\ (paused' = TRUE \/ paused' = paused)
        /\ src # None => notices' \in Seq({"play", "pause"})
    <2>1. CASE SoundEnds \/ TrimEnds
      <3>1. PauseElement /\ UNCHANGED shownVars
        BY <2>1 DEF SoundEnds, TrimEnds
      <3>2. paused' = TRUE
        BY <3>1 DEF PauseElement, CutSound
      <3>3. BarTypeOK'
        BY <1>1, <3>1, <3>2, ElementTypes
           DEF BarInv, BarTypeOK, propVars, shownVars, urlVars, waveVars, loadVars
      <3> QED
        BY <3>1, <3>2, <3>3, ElementTypes
    <2>2. CASE Hear
      <3>1. (Head(notices) = "play") \in BOOLEAN
        OBVIOUS
      <3>2. playing' \in BOOLEAN
        BY <2>2, <3>1, Zenon DEF Hear, BarInv, BarTypeOK
      <3>3. /\ notices' \in Seq({"play", "pause", "error"})
            /\ src # None => notices' \in Seq({"play", "pause"})
        BY <2>2 DEF Hear, BarInv, BarTypeOK, BarLoads
      <3> QED
        BY <1>1, <2>2, <3>2, <3>3 DEF Hear, BarInv, BarTypeOK, propVars, urlVars, waveVars, loadVars
    <2>3. CASE ErrorTimerFires
      BY <1>1, <2>3
         DEF ErrorTimerFires, BarInv, BarTypeOK, BarLoads, propVars, urlVars, waveVars, loadVars, element
    <2> QED
      BY <2>1, <2>2, <2>3
  <1> QED
    BY <1>1, <1>2, SoundChanges DEF propVars, waveVars, loadVars, BarInv, BarLoads

-----------------------------------------------------------------------------
(* The player bar: what is heard of it. *)

LEMMA BarStutterInv == ASSUME BarInv, UNCHANGED barVars PROVE BarInv'
  BY DEF barVars, propVars, shownVars, urlVars, element, waveVars, loadVars, BarInv, BarTypeOK,
         BarLoads, NoLeakedUrl

LEMMA BarNextInv == BarInv /\ [BarNext]_barVars => BarInv'
  <1> SUFFICES ASSUME BarInv, [BarNext]_barVars PROVE BarInv'
    OBVIOUS
  <1>1. ASSUME NEW p \in Paths \cup {None}, ShowBar(p) PROVE BarInv'
    BY <1>1, ShowBarInv
  <1>2. ASSUME NEW p \in Paths \cup {None}, ChangePath(p) PROVE BarInv'
    BY <1>2, ChangePathInv
  <1>3. CASE HideBar \/ CloseBar
    BY <1>3, LeaveBarInv DEF HideBar, CloseBar
  <1>4. CASE SetAutoPlay
    BY <1>4, AutoPlayInv
  <1>5. CASE WaveReady \/ WaveFails \/ Recolour
    BY <1>5, WaveInv
  <1>6. CASE Press(HandlePlayButtonClick) \/ Press(TogglePlayback) \/ Press(PlayFromStart)
    BY <1>6, PressInv
  <1>7. CASE PathTimerFires
    BY <1>7, PathTimerInv
  <1>8. CASE SoundEnds \/ TrimEnds \/ Hear \/ ErrorTimerFires
    BY <1>8, SoundInv
  <1>9. CASE MetadataLoaded
    BY <1>9, MetadataInv
  <1>10. CASE MediaFails \/ EmptySourceFails
    BY <1>10, MediaFailsInv
  <1>11. ASSUME NEW r \in reads, ReadReturns(r) PROVE BarInv'
    BY <1>11, ReadReturnsInv
  <1>12. ASSUME NEW r \in reads, ReadFails(r) PROVE BarInv'
    BY <1>12, ReadFailsInv
  <1>13. CASE UNCHANGED barVars
    BY <1>13, BarStutterInv
  <1> QED
    BY <1>1, <1>2, <1>3, <1>4, <1>5, <1>6, <1>7, <1>8, <1>9, <1>10, <1>11, <1>12, <1>13
       DEF BarNext, BarUser, BarReturn

\* What the newest of the element's events, dispatched or not, told.
Told == IF notices = << >> THEN playing ELSE notices[Len(notices)] = "play"

\* The element sounds only with a source, and its events tell what it does.
BarSounds ==
  /\ src = None => paused /\ notices \in {<< >>, <<"error">>} /\ (listening => ~playing)
  /\ listening => (Told <=> ~paused)

HeardInv == BarInv /\ BarSounds

\* The events that are not dispatched, after one more or one less.
LEMMA LastNotice ==
  ASSUME NEW n \in Seq({"play", "pause"})
  PROVE  /\ \A e \in {"play", "pause"} :
              /\ Append(n, e) # << >> /\ Append(n, e)[Len(Append(n, e))] = e
              /\ (n \o <<e>>) # << >> /\ (n \o <<e>>)[Len(n \o <<e>>)] = e
         /\ n # << >> => /\ Tail(n) = << >> => n[Len(n)] = Head(n)
                         /\ Tail(n) # << >> => Tail(n)[Len(Tail(n))] = n[Len(n)]
  <1>1. \A e \in {"play", "pause"} :
              /\ Append(n, e) # << >> /\ Append(n, e)[Len(Append(n, e))] = e
              /\ (n \o <<e>>) # << >> /\ (n \o <<e>>)[Len(n \o <<e>>)] = e
    OBVIOUS
  <1>2. ASSUME n # << >> PROVE /\ Tail(n) = << >> => n[Len(n)] = Head(n)
                               /\ Tail(n) # << >> => Tail(n)[Len(Tail(n))] = n[Len(n)]
    <2>1. Len(n) \in Nat \ {0} /\ Len(Tail(n)) = Len(n) - 1
      BY <1>2
    <2>2. CASE Tail(n) = << >>
      <3>0. Len(<< >>) = 0
        OBVIOUS
      <3>1. Len(n) - 1 = 0
        BY <2>1, <2>2, <3>0, Zenon
      <3>2. Len(n) = 1
        <4>1. Len(n) \in Nat
          OBVIOUS
        <4> QED
          BY <3>1, <4>1
      <3> QED
        BY <3>2, <2>2, <1>2
    <2>3. CASE Tail(n) # << >>
      <3>1. Len(Tail(n)) \in Nat \ {0}
        BY <2>1, <2>3
      <3>2. \A k \in 1..Len(Tail(n)) : Tail(n)[k] = n[k + 1]
        BY <1>2, <2>1
      <3>3. Len(Tail(n)) \in 1..Len(Tail(n)) /\ Len(Tail(n)) + 1 = Len(n)
        BY <2>1, <3>1
      <3> QED
        BY <2>3, <3>2, <3>3
    <2> QED
      BY <2>2, <2>3
  <1> QED
    BY <1>1, <1>2

\* Pausing and playing, by a button or by the end of the sound.
LEMMA ElementSounds ==
  ASSUME HeardInv, UNCHANGED listening,
         \/ PauseElement /\ (playing' = playing \/ playing' = FALSE)
         \/ PlayElement /\ ~NewlyEmpty /\ playing' = playing
         \/ RestartElement /\ ~NewlyEmpty /\ playing' = playing
         \/ UNCHANGED <<element, playing>>
  PROVE  BarSounds'
  <1>0. /\ (src = None <=> media = "none") /\ paused \in BOOLEAN /\ playing \in BOOLEAN
        /\ src = None => paused /\ notices \in {<< >>, <<"error">>} /\ (listening => ~playing)
        /\ src # None => notices \in Seq({"play", "pause"})
        /\ listening => (Told <=> ~paused)
    BY DEF HeardInv, BarInv, BarTypeOK, BarLoads, BarSounds
  <1>1. ASSUME CutSound, playing' = playing \/ playing' = FALSE PROVE BarSounds'
    <2>1. CASE paused
      <3>1. UNCHANGED <<src, notices, listening>> /\ paused' = TRUE
        BY <1>1, <2>1 DEF CutSound
      <3>2. notices = << >> => (listening => ~playing)
        BY <1>0, <2>1 DEF Told
      <3> QED
        BY <1>0, <1>1, <2>1, <3>1, <3>2 DEF BarSounds, Told
    <2>2. CASE ~paused
      <3>1. /\ src # None /\ notices \in Seq({"play", "pause"}) /\ UNCHANGED src /\ paused' = TRUE
            /\ notices' = Append(notices, "pause")
        BY <1>0, <1>1, <2>2 DEF CutSound
      <3>2. notices' # << >> /\ notices'[Len(notices')] = "pause"
        BY <3>1, LastNotice
      <3> QED
        BY <3>1, <3>2 DEF BarSounds, Told
    <2> QED
      BY <1>0, <2>1, <2>2
  <1>2. CASE PauseElement /\ (playing' = playing \/ playing' = FALSE)
    BY <1>1, <1>2 DEF PauseElement
  <1>3. CASE PlayElement /\ ~NewlyEmpty /\ playing' = playing
    <2>1. CASE SourceFailed \/ ~paused
      <3>1. UNCHANGED <<src, notices, paused, playing, listening>>
        BY <1>0, <1>3, <2>1 DEF PlayElement, element
      <3> QED
        BY <1>0, <3>1 DEF BarSounds, Told
    <2>2. CASE ~SourceFailed /\ paused
      <3>1. src # None /\ paused' = FALSE /\ notices' = Append(notices, "play") /\ UNCHANGED src
        BY <1>0, <1>3, <2>2 DEF PlayElement, SourceFailed
      <3>2. notices' # << >> /\ notices'[Len(notices')] = "play"
        BY <1>0, <3>1, LastNotice
      <3> QED
        BY <3>1, <3>2 DEF BarSounds, Told
    <2> QED
      BY <1>0, <2>1, <2>2
  <1>4. CASE RestartElement /\ ~NewlyEmpty /\ playing' = playing
    <2>1. CASE SourceFailed
      BY <1>1, <1>4, <2>1 DEF RestartElement
    <2>2. CASE ~SourceFailed
      <3> DEFINE cut == IF paused THEN notices ELSE Append(notices, "pause")
      <3>1. src # None /\ paused' = FALSE /\ notices' = cut \o <<"play">> /\ UNCHANGED src
        BY <1>0, <1>4, <2>2 DEF RestartElement, SourceFailed
      <3>2. cut \in Seq({"play", "pause"})
        BY <1>0, <3>1
      <3> HIDE DEF cut
      <3>3. notices' # << >> /\ notices'[Len(notices')] = "play"
        BY <3>1, <3>2, LastNotice
      <3> QED
        BY <3>1, <3>3 DEF BarSounds, Told
    <2> QED
      BY <2>1, <2>2
  <1>5. CASE UNCHANGED <<element, playing>>
    BY <1>5 DEF element, HeardInv, BarSounds, Told
  <1> QED
    BY <1>2, <1>3, <1>4, <1>5

LEMMA BarSoundsInit == BarInit => BarSounds
  BY DEF BarInit, BarSounds, Told

LEMMA BarSoundsNext == HeardInv /\ [BarNext]_barVars => BarSounds'
  <1> SUFFICES ASSUME HeardInv, [BarNext]_barVars PROVE BarSounds'
    OBVIOUS
  <1>0. /\ src # None => notices \in Seq({"play", "pause"})
        /\ src = None <=> media = "none"
        /\ paused \in BOOLEAN /\ playing \in BOOLEAN /\ listening \in BOOLEAN
    BY DEF HeardInv, BarInv, BarTypeOK, BarLoads, BarSounds
  <1>1. ASSUME NEW p \in Paths \cup {None}, ShowBar(p) PROVE BarSounds'
    BY <1>1 DEF ShowBar, SetSource, BarSounds, Told
  <1>2. ASSUME NEW p \in Paths \cup {None}, ChangePath(p) PROVE BarSounds'
    BY <1>2 DEF ChangePath, PathEffect, Overtake, SetSource, BarSounds, Told
  <1>3. CASE HideBar \/ CloseBar
    BY <1>3 DEF HideBar, CloseBar, LeaveBar, Overtake, BarSounds, Told
  <1>4. CASE SetAutoPlay \/ WaveReady \/ WaveFails \/ Recolour \/ ErrorTimerFires \/ UNCHANGED barVars
    BY <1>4 DEF SetAutoPlay, WaveReady, WaveFails, Recolour, ErrorTimerFires, barVars, shownVars,
                element, loadVars, HeardInv, BarSounds, Told
  <1>5. CASE Press(HandlePlayButtonClick)
    BY <1>5, ElementSounds DEF Press, Attend, HandlePlayButtonClick, PlaySound, loadVars, element
  <1>6. CASE Press(TogglePlayback) \/ Press(PlayFromStart)
    BY <1>6, ElementSounds DEF Press, Attend, TogglePlayback, StopSound, PlaySound, PlayFromStart,
                               loadVars, element
  <1>7. CASE PathTimerFires
    <2>1. CASE path = stablePath
      BY <1>7, <2>1 DEF PathTimerFires, shownVars, element, HeardInv, BarSounds, Told
    <2>2. CASE path # stablePath
      <3>1. src = None
        BY <2>2 DEF HeardInv, BarInv, BarLoads
      <3>2. src' = None /\ paused' = TRUE /\ notices' \in {<< >>, <<"error">>}
        BY <1>0, <1>7, <2>2, <3>1 DEF PathTimerFires, SetSource, CutSound, HeardInv, BarSounds
      <3>3. playing' = FALSE
        BY <1>7, <2>2 DEF PathTimerFires, LoadAudio
      <3> QED
        BY <3>2, <3>3 DEF BarSounds, Told
    <2> QED
      BY <2>1, <2>2
  <1>8. CASE SoundEnds \/ TrimEnds
    BY <1>8, ElementSounds DEF SoundEnds, TrimEnds, loadVars, shownVars
  <1>9. CASE Hear
    <2>1. playing' = IF listening THEN Head(notices) = "play" ELSE playing
      BY <1>9 DEF Hear
    <2>2. notices # << >> /\ notices' = Tail(notices) /\ UNCHANGED <<src, paused, listening>>
      BY <1>9 DEF Hear, loadVars
    <2>3. src # None /\ notices \in Seq({"play", "pause"})
      BY <1>0, <1>9, <2>2 DEF Hear, NewlyEmpty, HeardInv, BarSounds
    <2>4. ASSUME listening PROVE Told' <=> ~paused
      <3>1. playing' <=> Head(notices) = "play"
        BY <2>1, <2>4
      <3>2. notices[Len(notices)] = "play" <=> ~paused
        BY <2>2, <2>4 DEF HeardInv, BarSounds, Told
      <3>3. /\ Tail(notices) = << >> => notices[Len(notices)] = Head(notices)
            /\ Tail(notices) # << >> => Tail(notices)[Len(Tail(notices))] = notices[Len(notices)]
        BY <2>2, <2>3, LastNotice
      <3> QED
        BY <2>2, <3>1, <3>2, <3>3 DEF Told
    <2> QED
      BY <2>2, <2>3, <2>4 DEF BarSounds
  <1>10. CASE MetadataLoaded
    <2>1. /\ UNCHANGED <<playing, src, listening>> /\ src # None
          /\ ~listening => UNCHANGED <<paused, notices>>
          /\ listening => /\ paused' = (paused /\ ~barAutoPlay)
                          /\ notices' = IF paused /\ barAutoPlay THEN Append(notices, "play") ELSE notices
      BY <1>0, <1>10 DEF MetadataLoaded, loadVars
    <2>2. ASSUME listening PROVE Told' <=> ~paused'
      <3>1. CASE paused /\ barAutoPlay
        <4>1. ~paused' /\ notices' = Append(notices, "play")
          BY <2>1, <2>2, <3>1
        <4>2. notices' # << >> /\ notices'[Len(notices')] = "play"
          BY <1>0, <2>1, <4>1, LastNotice
        <4> QED
          BY <4>1, <4>2 DEF Told
      <3>2. CASE ~(paused /\ barAutoPlay)
        <4>1. (paused' <=> paused) /\ notices' = notices
          BY <2>1, <2>2, <3>2
        <4> QED
          BY <2>1, <2>2, <4>1 DEF HeardInv, BarSounds, Told
      <3> QED
        BY <3>1, <3>2
    <2> QED
      BY <2>1, <2>2 DEF BarSounds
  <1>11. CASE MediaFails
    BY <1>11 DEF MediaFails, OnError, loadVars, HeardInv, BarSounds, Told
  <1>14. CASE EmptySourceFails
    <2>1. NewlyEmpty /\ notices' = Tail(notices) /\ UNCHANGED <<src, paused, playing, listening>>
      BY <1>14 DEF EmptySourceFails, OnError, loadVars
    <2>2. src = None
      <3>1. ASSUME NEW n \in Seq({"play", "pause"}), n # << >> PROVE Head(n) # "error"
        BY <3>1
      <3> QED
        BY <1>0, <2>1, <3>1 DEF NewlyEmpty
    <2>3. notices' = << >>
      <3>1. notices = <<"error">>
        BY <2>1, <2>2 DEF NewlyEmpty, HeardInv, BarSounds
      <3>2. Tail(<<"error">>) = << >>
        OBVIOUS
      <3> QED
        BY <2>1, <3>1, <3>2, Zenon
    <2> QED
      BY <2>1, <2>2, <2>3 DEF HeardInv, BarSounds, Told
  <1>12. ASSUME NEW r \in reads, ReadReturns(r) PROVE BarSounds'
    <2>1. UNCHANGED <<playing, listening>> /\ r \in Read
      BY <1>12 DEF ReadReturns, HeardInv, BarInv, BarTypeOK
    <2>2. CASE r.newest
      <3>1. src = None /\ src' # None /\ paused' = TRUE /\ notices' = << >>
        BY <1>12, <2>1, <2>2, PathsAssumption DEF ReadReturns, SetSource, HeardInv, BarInv, BarLoads, Read
      <3> QED
        BY <2>1, <3>1 DEF HeardInv, BarSounds, Told
    <2>3. CASE ~r.newest
      BY <1>12, <2>1, <2>3 DEF ReadReturns, element, HeardInv, BarSounds, Told
    <2> QED
      BY <2>2, <2>3
  <1>13. ASSUME NEW r \in reads, ReadFails(r) PROVE BarSounds'
    BY <1>13 DEF ReadFails, element, HeardInv, BarSounds, Told
  <1> QED
    BY <1>1, <1>2, <1>3, <1>4, <1>5, <1>6, <1>7, <1>8, <1>9, <1>10, <1>11, <1>12, <1>13,
     <1>14 DEF BarNext, BarUser, BarReturn

LEMMA HeardInitInv == BarInit => HeardInv
  BY BarInitInv, BarSoundsInit DEF HeardInv

LEMMA HeardNextInv == HeardInv /\ [BarNext]_barVars => HeardInv'
  BY BarNextInv, BarSoundsNext DEF HeardInv

LEMMA BarSafe ==
  HeardInv => BarTypeOK /\ NoLeakedUrl /\ SoundOfPath /\ PlayingIsHeard /\ LoadingEnds
  <1> SUFFICES ASSUME HeardInv
               PROVE  BarTypeOK /\ NoLeakedUrl /\ SoundOfPath /\ PlayingIsHeard /\ LoadingEnds
    OBVIOUS
  <1>1. BarTypeOK /\ NoLeakedUrl
    BY DEF HeardInv, BarInv
  <1>2. SoundOfPath
    BY <1>1 DEF HeardInv, BarInv, BarLoads, BarSounds, SoundOfPath
  <1>3. PlayingIsHeard
    BY DEF HeardInv, BarSounds, Told, PlayingIsHeard
  <1>4. LoadingEnds
    BY <1>1 DEF HeardInv, BarInv, BarTypeOK, BarLoads, LoadingEnds
  <1> QED
    BY <1>1, <1>2, <1>3, <1>4

\* What the bar loads is for the path it has, its URL is given back, and what it
\* sounds is what it shows as playing, for every set of paths and in whatever order
\* reads, timers and the element's notices come.
THEOREM BarInvariant == BarSpec => []HeardInv
  BY HeardInitInv, HeardNextInv, PTL DEF BarSpec

-----------------------------------------------------------------------------
(* The pitch control. *)

\* At most one setup is the newest, it is of the panel and the waveform on screen,
\* and without it the control is ready or its element has no worklet for good.
SetupsInv ==
  /\ \A s, t \in setups : s.newest /\ t.newest => s = t
  /\ \A s \in setups :
       s.newest => /\ panel /\ ready = None /\ s.with = surfer
                   /\ s.step = "resume" /\ ~s.had => entry = "none"
  /\ panel /\ ready = None => route = "output" \/ \E s \in setups : s.newest

\* The pipeline of the element is made once; what makes it waits for the module.
ElementInv ==
  /\ route \in {"direct", "output"} <=> entry = "none"
  /\ route = "muted" <=> entry = "loading"
  /\ route = "direct" <=> worklet = "unasked"
  /\ worklet = "pending" => route = "muted"
  /\ worklet = "failed" => route \in {"muted", "output"}
  /\ route = "muted" <=> \E s \in setups : s.step = "create"
  /\ \A s, t \in setups : s.step = "create" /\ t.step = "create" => s = t
  /\ \A s \in setups : s.had \/ s.step # "resume" => route # "direct"

\* A waveform's pipeline is asked for only when the element has none.
SurferInv ==
  /\ \A s \in setups :
       /\ s.step \in {"surfer", "surferCreate", "surferWait"} => s.with # None /\ route = "output"
       /\ s.step = "surferCreate" => surferPipes[s.with] = "loading"
  /\ \A s, t \in setups :
       s.step = "surferCreate" /\ t.step = "surferCreate" /\ s.with = t.with => s = t

PitchInv == PitchTypeOK /\ SetupsInv /\ ElementInv /\ SurferInv /\ PitchApplied

LEMMA OvertakenSetups ==
  ASSUME setups \subseteq Setup
  PROVE  /\ \A c \in Overtaken(setups) :
              /\ c \in Setup /\ ~c.newest
              /\ \E s \in setups : s.step = c.step /\ s.had = c.had /\ s.with = c.with
         /\ \A s \in setups : \E c \in Overtaken(setups) : c.step = s.step
         /\ \A c, d \in Overtaken(setups) : c.step = d.step /\ c.had = d.had /\ c.with = d.with => c = d
  <1> DEFINE Old(s) == [s EXCEPT !.newest = FALSE]
  <1>1. Overtaken(setups) = {Old(s) : s \in setups}
    BY DEF Overtaken
  <1>2. \A s \in setups : /\ Old(s) \in Setup /\ ~Old(s).newest
                          /\ Old(s).step = s.step /\ Old(s).had = s.had /\ Old(s).with = s.with
    BY DEF Setup
  <1>3. \A s, t \in setups : s.step = t.step /\ s.had = t.had /\ s.with = t.with => Old(s) = Old(t)
    BY DEF Setup
  <1> HIDE DEF Old
  <1> QED
    BY <1>1, <1>2, <1>3

LEMMA PitchInitInv == PitchInit => PitchInv
  <1> SUFFICES ASSUME PitchInit PROVE PitchInv
    OBVIOUS
  <1> USE PitchAssumption DEF PitchInit
  <1>1. PitchTypeOK
    BY DEF PitchTypeOK
  <1>2. SetupsInv /\ ElementInv /\ SurferInv /\ PitchApplied
    BY DEF SetupsInv, ElementInv, SurferInv, PitchApplied
  <1> QED
    BY <1>1, <1>2 DEF PitchInv

\* A new setup overtakes the others.
LEMMA BeginInv ==
  ASSUME PitchInv, NEW w \in Surfers \cup {None}, Begin(w), panel', surfer' = w,
         panel' \in BOOLEAN, semitones' \in Semitones, UNCHANGED pipeVars
  PROVE  PitchInv'
  <1> DEFINE new == [step |-> "resume", had |-> entry # "none", with |-> w, newest |-> TRUE]
  <1>0. PitchTypeOK /\ setups \subseteq Setup
    BY DEF PitchInv, PitchTypeOK
  <1>1. /\ new \in Setup /\ new.newest /\ new.with = w /\ new.step = "resume"
        /\ new.had <=> entry # "none"
    <2>1. (entry # "none") \in BOOLEAN
      OBVIOUS
    <2>2. new \in Setup
      BY <2>1, Zenon DEF Setup
    <2> QED
      BY <2>2
  <1>2. setups' = Overtaken(setups) \cup {new} /\ ready' = None
    BY DEF Begin
  <1>3. /\ \A c \in Overtaken(setups) :
              /\ c \in Setup /\ ~c.newest
              /\ \E s \in setups : s.step = c.step /\ s.had = c.had /\ s.with = c.with
        /\ \A s \in setups : \E c \in Overtaken(setups) : c.step = s.step
        /\ \A c, d \in Overtaken(setups) : c.step = d.step /\ c.had = d.had /\ c.with = d.with => c = d
    BY <1>0, OvertakenSetups
  <1> HIDE DEF new
  <1>4. PitchTypeOK'
    <2>1. setups' \subseteq Setup
      BY <1>1, <1>2, <1>3
    <2> QED
      BY <1>0, <1>2, <2>1 DEF PitchTypeOK, pipeVars
  <1>5. SetupsInv'
    BY <1>1, <1>2, <1>3 DEF SetupsInv, pipeVars
  <1>6. ElementInv'
    <2>1. ElementInv
      BY DEF PitchInv
    <2>2. \A s, t \in setups' : s.step = "create" /\ t.step = "create" => s = t
      BY <1>1, <1>2, <1>3, <2>1 DEF ElementInv
    <2>3. route = "muted" <=> \E s \in setups' : s.step = "create"
      BY <1>1, <1>2, <1>3, <2>1 DEF ElementInv
    <2>4. \A s \in setups' : s.had \/ s.step # "resume" => route # "direct"
      BY <1>1, <1>2, <1>3, <2>1 DEF ElementInv
    <2> QED
      BY <2>1, <2>2, <2>3, <2>4 DEF ElementInv, pipeVars
  <1>7. SurferInv'
    BY <1>1, <1>2, <1>3 DEF PitchInv, SurferInv, pipeVars
  <1>8. PitchApplied'
    BY <1>2, PitchAssumption DEF PitchApplied
  <1> QED
    BY <1>4, <1>5, <1>6, <1>7, <1>8 DEF PitchInv

LEMMA CloseAdvancedInv == ASSUME PitchInv, CloseAdvanced PROVE PitchInv'
  <1>0. PitchTypeOK /\ setups \subseteq Setup
    BY DEF PitchInv, PitchTypeOK
  <1>2. setups' = Overtaken(setups) /\ ready' = None /\ ~panel' /\ panel' \in BOOLEAN /\ semitones' = 0
        /\ UNCHANGED <<surfer, pipeVars>>
    BY DEF CloseAdvanced
  <1>3. /\ \A c \in Overtaken(setups) :
              /\ c \in Setup /\ ~c.newest
              /\ \E s \in setups : s.step = c.step /\ s.had = c.had /\ s.with = c.with
        /\ \A s \in setups : \E c \in Overtaken(setups) : c.step = s.step
        /\ \A c, d \in Overtaken(setups) : c.step = d.step /\ c.had = d.had /\ c.with = d.with => c = d
    BY <1>0, OvertakenSetups
  <1>4. PitchTypeOK'
    BY <1>0, <1>2, <1>3, PitchAssumption DEF PitchTypeOK, pipeVars
  <1>5. SetupsInv'
    BY <1>2, <1>3 DEF SetupsInv
  <1>6. ElementInv'
    <2>1. ElementInv
      BY DEF PitchInv
    <2>2. \A s, t \in setups' : s.step = "create" /\ t.step = "create" => s = t
      BY <1>2, <1>3, <2>1 DEF ElementInv
    <2>3. route = "muted" <=> \E s \in setups' : s.step = "create"
      BY <1>2, <1>3, <2>1 DEF ElementInv
    <2>4. \A s \in setups' : s.had \/ s.step # "resume" => route # "direct"
      BY <1>2, <1>3, <2>1 DEF ElementInv
    <2> QED
      BY <1>2, <2>1, <2>2, <2>3, <2>4 DEF ElementInv, pipeVars
  <1>7. SurferInv'
    BY <1>2, <1>3 DEF PitchInv, SurferInv, pipeVars
  <1>8. PitchApplied'
    BY <1>2, PitchAssumption DEF PitchApplied
  <1> QED
    BY <1>4, <1>5, <1>6, <1>7, <1>8 DEF PitchInv

\* The control is not on screen, or only the slider and the module have moved.
LEMMA QuietPitchInv ==
  ASSUME PitchInv, \/ SurferChanges(surfer') /\ ~panel
                   \/ \E n \in Semitones : SetSemitones(n)
                   \/ ModuleSettles
                   \/ UNCHANGED pitchVars,
         surfer' \in Surfers \cup {None}
  PROVE  PitchInv'
  <1>1. CASE SurferChanges(surfer') /\ ~panel
    <2>1. UNCHANGED <<panel, setups, ready, semitones, pipeVars>> /\ ~panel
      BY <1>1 DEF SurferChanges
    <2>2. PitchTypeOK' /\ PitchApplied'
      BY <2>1, PitchAssumption DEF PitchInv, PitchTypeOK, PitchApplied, pipeVars
    <2>3. SetupsInv' /\ ElementInv' /\ SurferInv'
      BY <2>1 DEF PitchInv, SetupsInv, ElementInv, SurferInv, pipeVars
    <2> QED
      BY <2>2, <2>3 DEF PitchInv
  <1>2. ASSUME NEW n \in Semitones, SetSemitones(n) PROVE PitchInv'
    <2>1. /\ semitones' = n /\ shifted' = IF ready = "element" THEN n ELSE shifted
          /\ UNCHANGED <<panel, surfer, ready, setups, entry, worklet, route, surferPipes>>
      BY <1>2 DEF SetSemitones
    <2>2. PitchTypeOK' /\ PitchApplied'
      BY <2>1 DEF PitchInv, PitchTypeOK, PitchApplied
    <2>3. SetupsInv' /\ ElementInv' /\ SurferInv'
      BY <2>1 DEF PitchInv, SetupsInv, ElementInv, SurferInv
    <2> QED
      BY <2>2, <2>3 DEF PitchInv
  <1>3. CASE ModuleSettles
    BY <1>3 DEF ModuleSettles, PitchInv, PitchTypeOK, SetupsInv, ElementInv, SurferInv, PitchApplied
  <1>4. CASE UNCHANGED pitchVars
    BY <1>4 DEF pitchVars, pipeVars, PitchInv, PitchTypeOK, SetupsInv, ElementInv, SurferInv,
                PitchApplied
  <1> QED
    BY <1>1, <1>2, <1>3, <1>4

\* A setup goes on to its next step.
LEMMA MovedSetup ==
  ASSUME setups \subseteq Setup, NEW s \in setups,
         NEW step \in {"resume", "create", "wait", "surfer", "surferCreate", "surferWait"},
         Move(s, step)
  PROVE  \E m \in Setup :
           /\ setups' = (setups \ {s}) \cup {m}
           /\ m.step = step /\ m.had = s.had /\ m.with = s.with /\ m.newest = s.newest
  <1> DEFINE m == [s EXCEPT !.step = step]
  <1>1. m \in Setup /\ m.step = step /\ m.had = s.had /\ m.with = s.with /\ m.newest = s.newest
    BY DEF Setup
  <1>2. setups' = (setups \ {s}) \cup {m}
    BY DEF Move
  <1> HIDE DEF m
  <1> QED
    BY <1>1, <1>2

LEMMA ResumedInv == ASSUME PitchInv, NEW s \in setups, Resumed(s) PROVE PitchInv'
  <1>0. PitchTypeOK /\ setups \subseteq Setup /\ s \in Setup
    BY DEF PitchInv, PitchTypeOK
  <1>1. CASE s.newest /\ s.had
    <2>1. Move(s, "wait") /\ UNCHANGED <<panel, surfer, ready, semitones, pipeVars>> /\ s.step = "resume"
      BY <1>1 DEF Resumed, pipeVars
    <2>2. PICK m \in Setup : /\ setups' = (setups \ {s}) \cup {m}
                             /\ m.step = "wait" /\ m.had = s.had /\ m.with = s.with /\ m.newest = s.newest
      BY <1>0, <2>1, MovedSetup
    <2>3. PitchTypeOK' /\ SetupsInv'
      BY <1>0, <1>1, <2>1, <2>2 DEF PitchInv, PitchTypeOK, SetupsInv, pipeVars
    <2>4. ElementInv' /\ SurferInv' /\ PitchApplied'
      BY <1>0, <1>1, <2>1, <2>2 DEF PitchInv, ElementInv, SurferInv, PitchApplied, pipeVars
    <2> QED
      BY <2>3, <2>4 DEF PitchInv
  <1>2. CASE s.newest /\ ~s.had /\ route = "direct"
    <2>1. Move(s, "create") /\ UNCHANGED <<panel, surfer, ready, semitones, shifted, surferPipes>>
          /\ s.step = "resume" /\ entry' = "loading" /\ worklet' = "pending" /\ route' = "muted"
      BY <1>2 DEF Resumed
    <2>2. PICK m \in Setup : /\ setups' = (setups \ {s}) \cup {m}
                             /\ m.step = "create" /\ m.had = s.had /\ m.with = s.with /\ m.newest = s.newest
      BY <1>0, <2>1, MovedSetup
    <2>3. PitchTypeOK' /\ SetupsInv'
      BY <1>0, <1>2, <2>1, <2>2 DEF PitchInv, PitchTypeOK, SetupsInv
    <2>4. ElementInv' /\ SurferInv'
      BY <1>0, <1>2, <2>1, <2>2 DEF PitchInv, ElementInv, SurferInv
    <2>5. PitchApplied'
      BY <1>2, <2>1, PitchAssumption DEF PitchInv, SetupsInv, PitchApplied
    <2> QED
      BY <2>3, <2>4, <2>5 DEF PitchInv
  <1>3. CASE ~s.newest \/ (~s.had /\ route # "direct")
    <2>1. Leave(s) /\ UNCHANGED <<panel, surfer, ready, semitones, pipeVars>> /\ s.step = "resume"
      BY <1>3 DEF Resumed, pipeVars
    <2>3. PitchTypeOK' /\ SetupsInv'
      BY <1>0, <1>3, <2>1 DEF Leave, PitchInv, PitchTypeOK, SetupsInv, ElementInv, pipeVars
    <2>4. ElementInv' /\ SurferInv' /\ PitchApplied'
      BY <1>0, <1>3, <2>1 DEF Leave, PitchInv, ElementInv, SurferInv, PitchApplied, pipeVars
    <2> QED
      BY <2>3, <2>4 DEF PitchInv
  <1> QED
    BY <1>0, <1>1, <1>2, <1>3 DEF Setup

LEMMA CreatedInv == ASSUME PitchInv, NEW s \in setups, Created(s) PROVE PitchInv'
  <1>0. /\ PitchTypeOK /\ setups \subseteq Setup /\ s \in Setup
        /\ s.step = "create" /\ worklet # "pending" /\ route = "muted" /\ entry = "loading"
        /\ setups' = setups \ {s} /\ UNCHANGED <<panel, surfer, semitones, worklet, surferPipes>>
    BY DEF Created, Leave, PitchInv, PitchTypeOK, ElementInv
  <1>1. CASE worklet = "failed" \/ ~s.newest
    <2>1. entry' = "none" /\ route' = "output" /\ UNCHANGED <<ready, shifted>>
      BY <1>1 DEF Created, DropEntry
    <2> QED
      BY <1>0, <2>1 DEF PitchInv, PitchTypeOK, SetupsInv, ElementInv, SurferInv, PitchApplied
  <1>2. CASE worklet # "failed" /\ s.newest
    <2>1. entry' = "wired" /\ route' = "worklet" /\ ready' = "element" /\ shifted' = semitones
      BY <1>2 DEF Created, BecomeReady
    <2> QED
      BY <1>0, <1>2, <2>1, PitchAssumption
         DEF PitchInv, PitchTypeOK, SetupsInv, ElementInv, SurferInv, PitchApplied
  <1> QED
    BY <1>1, <1>2

LEMMA WaitedInv == ASSUME PitchInv, NEW s \in setups, Waited(s) PROVE PitchInv'
  <1>0. /\ PitchTypeOK /\ setups \subseteq Setup /\ s \in Setup
        /\ s.step = "wait" /\ worklet # "pending" /\ ~\E t \in setups : t.step = "create"
        /\ UNCHANGED <<panel, surfer, semitones, entry, worklet, route, surferPipes>>
    BY DEF Waited, PitchInv, PitchTypeOK
  <1>1. route # "muted" /\ route # "direct"
    BY <1>0 DEF PitchInv, ElementInv
  <1>2. CASE worklet = "failed" \/ ~s.newest \/ (entry # "wired" /\ s.with = None)
    <2>1. setups' = setups \ {s} /\ UNCHANGED <<ready, shifted>>
      BY <1>2, <1>0 DEF Waited, Leave, PitchInv, PitchTypeOK, SetupsInv, ElementInv
    <2> QED
      BY <1>0, <1>1, <1>2, <2>1 DEF PitchInv, PitchTypeOK, SetupsInv, ElementInv, SurferInv, PitchApplied
  <1>3. CASE worklet # "failed" /\ s.newest /\ entry = "wired"
    <2>1. setups' = setups \ {s} /\ ready' = "element" /\ shifted' = semitones
      BY <1>3 DEF Waited, Leave, BecomeReady
    <2> QED
      BY <1>0, <1>1, <1>3, <2>1, PitchAssumption
         DEF PitchInv, PitchTypeOK, SetupsInv, ElementInv, SurferInv, PitchApplied
  <1>4. CASE worklet # "failed" /\ s.newest /\ entry # "wired" /\ s.with # None
    <2>1. Move(s, "surfer") /\ UNCHANGED <<ready, shifted>>
      BY <1>4 DEF Waited
    <2>2. PICK m \in Setup : /\ setups' = (setups \ {s}) \cup {m}
                             /\ m.step = "surfer" /\ m.had = s.had /\ m.with = s.with /\ m.newest = s.newest
      BY <1>0, <2>1, MovedSetup
    <2>3. PitchTypeOK' /\ SetupsInv'
      BY <1>0, <1>4, <2>1, <2>2 DEF PitchInv, PitchTypeOK, SetupsInv
    <2>4. ElementInv' /\ SurferInv' /\ PitchApplied'
      BY <1>0, <1>1, <1>4, <2>1, <2>2 DEF PitchInv, PitchTypeOK, ElementInv, SurferInv, PitchApplied
    <2> QED
      BY <2>3, <2>4 DEF PitchInv
  <1> QED
    BY <1>2, <1>3, <1>4

LEMMA SurferResumedInv == ASSUME PitchInv, NEW s \in setups, SurferResumed(s) PROVE PitchInv'
  <1>0. /\ PitchTypeOK /\ setups \subseteq Setup /\ s \in Setup
        /\ s.step = "surfer" /\ s.with # None /\ s.with \in Surfers /\ route = "output"
        /\ UNCHANGED <<panel, surfer, ready, semitones, entry, worklet, route, shifted>>
    BY DEF SurferResumed, PitchInv, PitchTypeOK, SurferInv, Setup
  <1>1. CASE ~s.newest
    <2>1. setups' = setups \ {s} /\ UNCHANGED surferPipes
      BY <1>1 DEF SurferResumed, Leave
    <2> QED
      BY <1>0, <1>1, <2>1 DEF PitchInv, PitchTypeOK, SetupsInv, ElementInv, SurferInv, PitchApplied
  <1>2. CASE s.newest /\ surferPipes[s.with] = "none"
    <2>1. Move(s, "surferCreate") /\ surferPipes' = [surferPipes EXCEPT ![s.with] = "loading"]
      BY <1>2 DEF SurferResumed
    <2>2. PICK m \in Setup : /\ setups' = (setups \ {s}) \cup {m}
                             /\ m.step = "surferCreate" /\ m.had = s.had /\ m.with = s.with
                             /\ m.newest = s.newest
      BY <1>0, <2>1, MovedSetup
    <2>3. PitchTypeOK' /\ SetupsInv'
      BY <1>0, <1>2, <2>1, <2>2 DEF PitchInv, PitchTypeOK, SetupsInv
    <2>4. ElementInv'
      BY <1>0, <1>2, <2>1, <2>2 DEF PitchInv, ElementInv
    <2>5. SurferInv'
      BY <1>0, <1>2, <2>1, <2>2 DEF PitchInv, PitchTypeOK, SurferInv, Setup
    <2>6. PitchApplied'
      BY <1>0, <1>2, PitchAssumption DEF PitchInv, SetupsInv, PitchApplied
    <2> QED
      BY <2>3, <2>4, <2>5, <2>6 DEF PitchInv
  <1>3. CASE s.newest /\ surferPipes[s.with] # "none"
    <2>1. Move(s, "surferWait") /\ UNCHANGED surferPipes
      BY <1>3 DEF SurferResumed
    <2>2. PICK m \in Setup : /\ setups' = (setups \ {s}) \cup {m}
                             /\ m.step = "surferWait" /\ m.had = s.had /\ m.with = s.with
                             /\ m.newest = s.newest
      BY <1>0, <2>1, MovedSetup
    <2>3. PitchTypeOK' /\ SetupsInv'
      BY <1>0, <1>3, <2>1, <2>2 DEF PitchInv, PitchTypeOK, SetupsInv
    <2>4. ElementInv' /\ SurferInv' /\ PitchApplied'
      BY <1>0, <1>3, <2>1, <2>2 DEF PitchInv, PitchTypeOK, ElementInv, SurferInv, PitchApplied
    <2> QED
      BY <2>3, <2>4 DEF PitchInv
  <1> QED
    BY <1>1, <1>2, <1>3

LEMMA SurferEndsInv ==
  ASSUME PitchInv, NEW s \in setups, SurferWaited(s) \/ \E ok \in BOOLEAN : SurferCreated(s, ok)
  PROVE  PitchInv'
  <1>0. /\ PitchTypeOK /\ setups \subseteq Setup /\ s \in Setup
        /\ s.with # None /\ s.with \in Surfers /\ route = "output" /\ setups' = setups \ {s}
        /\ s.step \in {"surferWait", "surferCreate"}
        /\ UNCHANGED <<panel, surfer, semitones, entry, worklet, route>>
    BY DEF SurferWaited, SurferCreated, Leave, PitchInv, PitchTypeOK, SurferInv, Setup
  <1>1. CASE SurferWaited(s)
    <2>1. /\ \/ UNCHANGED <<ready, shifted>>
             \/ s.newest /\ surferPipes[s.with] = "wired" /\ ready' = "surfer" /\ shifted' = shifted
          /\ UNCHANGED surferPipes
      BY <1>1, PitchAssumption DEF SurferWaited, BecomeReady
    <2> QED
      BY <1>0, <2>1, PitchAssumption
         DEF PitchInv, PitchTypeOK, SetupsInv, ElementInv, SurferInv, PitchApplied
  <1>2. ASSUME NEW ok \in BOOLEAN, SurferCreated(s, ok) PROVE PitchInv'
    <2>1. CASE ok /\ s.newest
      <3>1. /\ surferPipes' = [surferPipes EXCEPT ![s.with] = "wired"] /\ ready' = "surfer"
            /\ shifted' = shifted /\ s.step = "surferCreate"
        BY <1>2, <2>1 DEF SurferCreated, BecomeReady
      <3> QED
        BY <1>0, <2>1, <3>1, PitchAssumption
           DEF PitchInv, PitchTypeOK, SetupsInv, ElementInv, SurferInv, PitchApplied, Setup
    <2>2. CASE ~(ok /\ s.newest)
      <3>1. /\ surferPipes' = [surferPipes EXCEPT ![s.with] = "none"] /\ UNCHANGED <<ready, shifted>>
            /\ s.step = "surferCreate" /\ surferPipes[s.with] = "loading"
        BY <1>2, <2>2 DEF SurferCreated, PitchInv, SurferInv
      <3> QED
        BY <1>0, <3>1, PitchAssumption
           DEF PitchInv, PitchTypeOK, SetupsInv, ElementInv, SurferInv, PitchApplied, Setup
    <2> QED
      BY <2>1, <2>2
  <1> QED
    BY <1>1, <1>2

LEMMA PitchNextInv == PitchInv /\ [PitchNext]_pitchVars => PitchInv'
  <1> SUFFICES ASSUME PitchInv, [PitchNext]_pitchVars PROVE PitchInv'
    OBVIOUS
  <1>0. surfer \in Surfers \cup {None}
    BY DEF PitchInv, PitchTypeOK
  <1>1. CASE OpenAdvanced
    <2>1. Begin(surfer) /\ panel' = TRUE /\ surfer' = surfer /\ semitones' = 0 /\ UNCHANGED pipeVars
      BY <1>1 DEF OpenAdvanced
    <2> QED
      BY <1>0, <2>1, BeginInv, PitchAssumption
  <1>2. CASE CloseAdvanced
    BY <1>2, CloseAdvancedInv
  <1>3. ASSUME NEW w \in Surfers \cup {None}, SurferChanges(w) PROVE PitchInv'
    <2>1. surfer' = w /\ UNCHANGED <<panel, semitones, pipeVars>>
      BY <1>3 DEF SurferChanges
    <2>2. CASE panel
      <3>1. Begin(w) /\ panel' /\ panel' \in BOOLEAN /\ semitones' \in Semitones
        BY <1>3, <2>1, <2>2 DEF SurferChanges, PitchInv, PitchTypeOK
      <3> QED
        BY <2>1, <3>1, BeginInv
    <2>3. CASE ~panel
      BY <1>3, <2>1, <2>3, QuietPitchInv
    <2> QED
      BY <2>2, <2>3
  <1>4. CASE ModuleSettles \/ UNCHANGED pitchVars \/ \E n \in Semitones : SetSemitones(n)
    <2>1. surfer' = surfer
      BY <1>4 DEF ModuleSettles, pitchVars, SetSemitones
    <2> QED
      BY <1>0, <1>4, <2>1, QuietPitchInv
  <1>5. ASSUME NEW s \in setups,
               \/ Resumed(s) \/ Created(s) \/ Waited(s) \/ SurferResumed(s) \/ SurferWaited(s)
               \/ \E ok \in BOOLEAN : SurferCreated(s, ok)
        PROVE  PitchInv'
    BY <1>5, ResumedInv, CreatedInv, WaitedInv, SurferResumedInv, SurferEndsInv
  <1> QED
    BY <1>1, <1>2, <1>3, <1>4, <1>5 DEF PitchNext, PitchUser, PitchReturn

LEMMA PitchSafe == PitchInv => PitchTypeOK /\ ElementHeard /\ PitchApplied /\ PitchSettles
  BY DEF PitchInv, PitchTypeOK, SetupsInv, ElementInv, ElementHeard, PitchSettles

\* One setup of the pitch nodes is the newest, and the element is heard directly or
\* through the nodes of that setup, wherever an older one is interrupted.
THEOREM PitchInvariant == PitchSpec => []PitchInv
  BY PitchInitInv, PitchNextInv, PTL DEF PitchSpec

-----------------------------------------------------------------------------
(* Listening and comparing. *)

\* What is awaited is for the workspace as it is now: of the comparison, if that is
\* shown, and at its level.
AwaitedFairly ==
  /\ \A p, q \in previews : p.newest /\ q.newest => p = q
  /\ \A p \in previews :
       p.newest => /\ loadingId = p.of /\ workspaceOpen
                   /\ compareTab => /\ p.of \in {compared["a"], compared["b"]}
                                    /\ p.matched = matchLoudness
  /\ loadingId # None => \E p \in previews : p.newest

AuditionInv == AuditionTypeOK /\ AwaitedFairly /\ ComparedFairly

LEMMA OvertakenPreviews ==
  ASSUME previews \subseteq Preview
  PROVE  Overtaken(previews) \subseteq Preview /\ \A p \in Overtaken(previews) : ~p.newest
  BY DEF Overtaken, Preview

LEMMA AuditionInitInv == AuditionInit => AuditionInv
  <1> SUFFICES ASSUME AuditionInit PROVE AuditionInv
    OBVIOUS
  <1>1. AuditionTypeOK
    BY DEF AuditionInit, AuditionTypeOK
  <1>2. AwaitedFairly /\ ComparedFairly
    BY DEF AuditionInit, AwaitedFairly, ComparedFairly
  <1> QED
    BY <1>1, <1>2 DEF AuditionInv

\* Once all is stopped, anything may be chosen.
LEMMA StoppedInv ==
  ASSUME AuditionInv, StopAudition,
         {workspaceOpen', compareTab', matchLoudness'} \subseteq BOOLEAN,
         compared' \in [{"a", "b"} -> Entries \cup {None}]
  PROVE  AuditionInv'
  <1>1. Overtaken(previews) \subseteq Preview /\ \A p \in Overtaken(previews) : ~p.newest
    BY OvertakenPreviews DEF AuditionInv, AuditionTypeOK
  <1>2. AuditionTypeOK'
    BY <1>1 DEF StopAudition, AuditionTypeOK
  <1>3. AwaitedFairly' /\ ComparedFairly'
    BY <1>1 DEF StopAudition, AwaitedFairly, ComparedFairly
  <1> QED
    BY <1>2, <1>3 DEF AuditionInv

\* A preview begins, of a row or of a slot.
LEMMA PlayEntryInv ==
  ASSUME AuditionInv, NEW e \in Entries, NEW matched \in BOOLEAN, PlayEntry(e, matched),
         workspaceOpen, UNCHANGED choiceVars,
         compareTab => e \in {compared["a"], compared["b"]} /\ matched = matchLoudness
  PROVE  AuditionInv'
  <1> DEFINE new == [of |-> e, matched |-> matched, newest |-> TRUE]
  <1>1. Overtaken(previews) \subseteq Preview /\ \A p \in Overtaken(previews) : ~p.newest
    BY OvertakenPreviews DEF AuditionInv, AuditionTypeOK
  <1>2. new \in Preview /\ new.newest /\ new.of = e /\ new.matched = matched
    BY DEF Preview
  <1>3. source' = None /\ playingId' = None /\ loadingId' = e /\ previews' = Overtaken(previews) \cup {new}
    BY DEF PlayEntry
  <1> HIDE DEF new
  <1>4. AuditionTypeOK'
    BY <1>1, <1>2, <1>3 DEF AuditionInv, AuditionTypeOK, choiceVars
  <1>5. AwaitedFairly'
    BY <1>1, <1>2, <1>3 DEF AwaitedFairly, choiceVars
  <1>6. ComparedFairly'
    BY <1>3 DEF ComparedFairly
  <1> QED
    BY <1>4, <1>5, <1>6 DEF AuditionInv

LEMMA AuditionNextInv == AuditionInv /\ [AuditionNext]_auditionVars => AuditionInv'
  <1> SUFFICES ASSUME AuditionInv, [AuditionNext]_auditionVars PROVE AuditionInv'
    OBVIOUS
  <1>0. /\ {workspaceOpen, compareTab, matchLoudness} \subseteq BOOLEAN
        /\ compared \in [{"a", "b"} -> Entries \cup {None}]
        /\ previews \subseteq Preview
    BY DEF AuditionInv, AuditionTypeOK
  <1>1. ASSUME NEW e \in Entries, PlayRow(e) PROVE AuditionInv'
    BY <1>0, <1>1, StoppedInv, PlayEntryInv DEF PlayRow, choiceVars
  <1>2. ASSUME NEW e \in Entries, NEW s \in {"a", "b"}, ChooseSlot(s, e) PROVE AuditionInv'
    <2>1. compared' \in [{"a", "b"} -> Entries \cup {None}]
      BY <1>0, <1>2 DEF ChooseSlot
    <2> QED
      BY <1>0, <1>2, <2>1, StoppedInv DEF ChooseSlot
  <1>3. ASSUME NEW s \in {"a", "b"}, PlaySlot(s) PROVE AuditionInv'
    <2>1. /\ compared[s] \in Entries /\ compared[s] \in {compared["a"], compared["b"]}
          /\ matchLoudness \in BOOLEAN /\ workspaceOpen
          /\ PlayEntry(compared[s], matchLoudness) /\ UNCHANGED choiceVars
      BY <1>0, <1>3 DEF PlaySlot
    <2> QED
      BY <2>1, PlayEntryInv
  <1>4. ASSUME NEW s \in {"a", "b"}, ClearSlot(s) PROVE AuditionInv'
    <2>1. compared' \in [{"a", "b"} -> Entries \cup {None}]
      BY <1>0, <1>4 DEF ClearSlot
    <2> QED
      BY <1>0, <1>4, <2>1, StoppedInv DEF ClearSlot
  <1>5. ASSUME NEW compare \in BOOLEAN, ShowTab(compare) PROVE AuditionInv'
    BY <1>0, <1>5, StoppedInv DEF ShowTab
  <1>6. CASE ToggleMatch
    <2>1. matchLoudness' \in BOOLEAN
      BY <1>6, Zenon DEF ToggleMatch
    <2> QED
      BY <1>0, <1>6, <2>1, StoppedInv DEF ToggleMatch
  <1>7. CASE StopButton
    BY <1>0, <1>7, StoppedInv DEF StopButton, choiceVars
  <1>8. CASE CloseWorkspace
    <2>1. workspaceOpen' \in BOOLEAN
      BY <1>8, Zenon DEF CloseWorkspace
    <2>2. compared' \in [{"a", "b"} -> Entries \cup {None}]
      BY <1>8 DEF CloseWorkspace
    <2> QED
      BY <1>8, <2>1, <2>2, StoppedInv DEF CloseWorkspace
  <1>9. CASE SoundEnded
    BY <1>9 DEF SoundEnded, choiceVars, AuditionInv, AuditionTypeOK, AwaitedFairly, ComparedFairly
  <1>10. ASSUME NEW c \in previews, PreviewLoaded(c) PROVE AuditionInv'
    <2>0. c \in Preview /\ c.of \in Entries /\ c.matched \in BOOLEAN
      BY <1>0 DEF Preview
    <2>1. CASE c.newest
      <3> DEFINE new == [of |-> c.of, matched |-> c.matched]
      <3>1. new \in [of : Entries, matched : BOOLEAN] /\ new.of = c.of /\ new.matched = c.matched
        BY <2>0
      <3>2. /\ source' = new /\ playingId' = c.of /\ loadingId' = None
            /\ previews' = previews \ {c} /\ UNCHANGED choiceVars
        BY <1>10, <2>1 DEF PreviewLoaded
      <3>3. new # None
        BY <3>1, EntriesAssumption
      <3> HIDE DEF new
      <3>4. AuditionTypeOK'
        BY <2>0, <3>1, <3>2 DEF AuditionInv, AuditionTypeOK, choiceVars
      <3>5. AwaitedFairly' /\ ComparedFairly'
        BY <2>1, <3>1, <3>2, <3>3 DEF AuditionInv, AwaitedFairly, ComparedFairly, choiceVars
      <3> QED
        BY <3>4, <3>5 DEF AuditionInv
    <2>2. CASE ~c.newest
      BY <1>10, <2>2 DEF PreviewLoaded, choiceVars, AuditionInv, AuditionTypeOK, AwaitedFairly,
                         ComparedFairly
    <2> QED
      BY <2>1, <2>2
  <1>11. ASSUME NEW c \in previews, PreviewFails(c) PROVE AuditionInv'
    BY <1>11 DEF PreviewFails, choiceVars, AuditionInv, AuditionTypeOK, AwaitedFairly, ComparedFairly
  <1>12. CASE UNCHANGED auditionVars
    BY <1>12 DEF auditionVars, choiceVars, auditionSound, AuditionInv, AuditionTypeOK, AwaitedFairly,
                 ComparedFairly
  <1> QED
    BY <1>1, <1>2, <1>3, <1>4, <1>5, <1>6, <1>7, <1>8, <1>9, <1>10, <1>11, <1>12 DEF AuditionNext

LEMMA AuditionSafe == AuditionInv => AuditionTypeOK /\ ComparedFairly /\ LoadingIsNewest
  <1> SUFFICES ASSUME AuditionInv PROVE LoadingIsNewest
    BY DEF AuditionInv
  <1>1. \A p \in previews : p.of # None
    BY EntriesAssumption DEF AuditionInv, AuditionTypeOK, Preview
  <1> QED
    BY <1>1 DEF AuditionInv, AwaitedFairly, LoadingIsNewest

\* What is compared plays at the level chosen for it, and the newest preview alone
\* loads, for every list of entries and in whatever order their files arrive.
THEOREM AuditionInvariant == AuditionSpec => []AuditionInv
  BY AuditionInitInv, AuditionNextInv, PTL DEF AuditionSpec

-----------------------------------------------------------------------------
(* The MIDI player. *)

\* A call that plays, or that will, has its song.
SongsKnown ==
  \A c \in playerCalls : c.op = "play" \/ c.then \in {"select", "play"} => c.song \in Songs

\* While commands do not overlap there is one of them at a time: once the player is
\* killed nothing sounds, until the command starts the next.
OneAtATime ==
  ~overlapped =>
    /\ running \subseteq {tracked}
    /\ \A c, d \in playerCalls : c = d
    /\ \A c \in playerCalls :
         c.step \in {"killed", "failed"} \/ (c.op = "stop" /\ c.step = "done") => running = {}
    /\ playerCalls = {} /\ running # {} => isMidiPlaying

\* While no two play_midi overlap, one of them at most is about to start a player, and
\* from its kill on none runs: the one it starts is the one that is tracked.
OnePlayer ==
  ~playsOverlapped =>
    /\ running \subseteq {tracked}
    /\ \A c, d \in playerCalls : Starting(c) /\ Starting(d) => c = d
    /\ \A c \in playerCalls : c.op = "play" /\ c.step = "killed" => running = {}

PlayerInv == PlayerTypeOK /\ SongsKnown /\ OneAtATime /\ OnePlayer

LEMMA PlayerInitInv == PlayerInit => PlayerInv
  <1> SUFFICES ASSUME PlayerInit PROVE PlayerInv
    OBVIOUS
  <1>1. PlayerTypeOK
    BY DEF PlayerInit, PlayerTypeOK
  <1>2. SongsKnown /\ OneAtATime /\ OnePlayer
    BY DEF PlayerInit, SongsKnown, OneAtATime, OnePlayer
  <1> QED
    BY <1>1, <1>2 DEF PlayerInv

\* A command is sent, beside those in calls.
LEMMA SendInv ==
  ASSUME PlayerInv, NEW calls \in SUBSET playerCalls, NEW op \in {"play", "stop"},
         NEW s \in Songs \cup {None}, NEW then \in {"flag", "select", "play", "sample", "midi"},
         SendTo(calls, op, s, then), UNCHANGED <<running, tracked>>,
         op = "play" \/ then \in {"select", "play"} => s \in Songs,
         {midiView', autoPlay', isMidiPlaying'} \subseteq BOOLEAN, song' \in Songs \cup {None}
  PROVE  PlayerInv'
  <1> DEFINE new == [op |-> op, song |-> s, then |-> then, step |-> "asked"]
  <1>1. new \in PlayerCall /\ new.op = op /\ new.song = s /\ new.then = then /\ new.step = "asked"
    BY DEF PlayerCall
  <1>2. playerCalls' = calls \cup {new}
    BY DEF SendTo
  <1>3. overlapped' \in BOOLEAN /\ (overlapped' <=> overlapped \/ calls # {})
    BY Zenon DEF SendTo
  <1>7. /\ playsOverlapped' \in BOOLEAN
        /\ playsOverlapped' <=> playsOverlapped \/ (op = "play" /\ \E c \in calls : Starting(c))
    BY Zenon DEF SendTo
  <1> HIDE DEF new
  <1>4. PlayerTypeOK'
    BY <1>1, <1>2, <1>3, <1>7 DEF PlayerInv, PlayerTypeOK
  <1>5. SongsKnown'
    BY <1>1, <1>2 DEF PlayerInv, SongsKnown
  <1>6. OneAtATime'
    BY <1>1, <1>2, <1>3 DEF PlayerInv, OneAtATime
  <1>8. OnePlayer'
    BY <1>1, <1>2, <1>7 DEF PlayerInv, OnePlayer, Starting
  <1> QED
    BY <1>4, <1>5, <1>6, <1>8 DEF PlayerInv

\* No command is sent, and what sounds is as it was.
LEMMA SilentInv ==
  ASSUME PlayerInv, UNCHANGED <<running, tracked, playerCalls, overlapped, playsOverlapped, isMidiPlaying, autoPlay>>,
         midiView' \in BOOLEAN, song' \in Songs \cup {None}
  PROVE  PlayerInv'
  <1>1. PlayerTypeOK'
    BY DEF PlayerInv, PlayerTypeOK
  <1>2. SongsKnown' /\ OneAtATime' /\ OnePlayer'
    BY DEF PlayerInv, SongsKnown, OneAtATime, OnePlayer, Starting
  <1> QED
    BY <1>1, <1>2 DEF PlayerInv

LEMMA PlayerUserInv == ASSUME PlayerInv, PlayerUser PROVE PlayerInv'
  <1>0. /\ {midiView, autoPlay, isMidiPlaying} \subseteq BOOLEAN /\ song \in Songs \cup {None}
        /\ playerCalls \in SUBSET playerCalls
    BY DEF PlayerInv, PlayerTypeOK
  <1>1. ASSUME NEW s \in Songs, HandleMidiSelect(s) PROVE PlayerInv'
    <2>1. UNCHANGED <<midiView, autoPlay, isMidiPlaying, running, tracked>>
      BY <1>1 DEF HandleMidiSelect
    <2>2. CASE s # song /\ isMidiPlaying
      <3>1. SendTo(playerCalls, "stop", s, "select") /\ song' = song
        BY <1>1, <2>2 DEF HandleMidiSelect
      <3> QED
        BY <1>0, <2>1, <3>1, SendInv
    <2>3. CASE ~(s # song /\ isMidiPlaying) /\ autoPlay /\ s # song
      <3>1. SendTo(playerCalls, "play", s, "flag") /\ song' = s
        BY <1>1, <2>3 DEF HandleMidiSelect, Select
      <3> QED
        BY <1>0, <2>1, <3>1, SendInv
    <2>4. CASE ~(s # song /\ isMidiPlaying) /\ ~(autoPlay /\ s # song)
      <3>1. UNCHANGED <<playerCalls, overlapped, playsOverlapped>> /\ song' = s
        BY <1>1, <2>4 DEF HandleMidiSelect, Select
      <3> QED
        BY <1>0, <2>1, <3>1, SilentInv
    <2> QED
      BY <2>2, <2>3, <2>4
  <1>2. CASE TogglePlaySelectedMidi
    <2>1. song \in Songs /\ UNCHANGED <<midiView, autoPlay, song, isMidiPlaying, running, tracked>>
      BY <1>0, <1>2 DEF TogglePlaySelectedMidi
    <2>2. SendTo(playerCalls, IF isMidiPlaying THEN "stop" ELSE "play", song, "flag")
      BY <1>2 DEF TogglePlaySelectedMidi
    <2>3. SendTo(playerCalls, "stop", song, "flag") \/ SendTo(playerCalls, "play", song, "flag")
      BY <2>2
    <2> QED
      BY <1>0, <2>1, <2>3, SendInv
  <1>3. ASSUME NEW s \in Songs, NEW saw \in BOOLEAN, PlayMidi(s, saw) PROVE PlayerInv'
    <2>1. UNCHANGED <<midiView, autoPlay, isMidiPlaying, running, tracked>> /\ song' = s
      BY <1>3 DEF PlayMidi
    <2>2. \/ UNCHANGED <<playerCalls, overlapped, playsOverlapped>>
          \/ SendTo(playerCalls, "stop", s, "play")
          \/ SendTo(playerCalls, "play", s, "flag")
      BY <1>3 DEF PlayMidi, NoCall
    <2>3. CASE UNCHANGED <<playerCalls, overlapped, playsOverlapped>>
      BY <1>0, <2>1, <2>3, SilentInv
    <2>4. CASE SendTo(playerCalls, "stop", s, "play") \/ SendTo(playerCalls, "play", s, "flag")
      BY <1>0, <2>1, <2>4, SendInv
    <2> QED
      BY <2>2, <2>3, <2>4
  <1>4. CASE CloseMidiPanel
    <2>1. UNCHANGED <<midiView, autoPlay, isMidiPlaying, running, tracked>> /\ song' = None
      BY <1>4 DEF CloseMidiPanel
    <2>2. UNCHANGED <<playerCalls, overlapped, playsOverlapped>> \/ SendTo(playerCalls, "stop", song, "flag")
      BY <1>4 DEF CloseMidiPanel, NoCall
    <2>3. CASE UNCHANGED <<playerCalls, overlapped, playsOverlapped>>
      BY <1>0, <2>1, <2>3, SilentInv
    <2>4. CASE SendTo(playerCalls, "stop", song, "flag")
      BY <1>0, <2>1, <2>4, SendInv
    <2> QED
      BY <2>2, <2>3, <2>4
  <1>5. ASSUME NEW mode \in {"sample", "midi"}, ChangeView(mode) PROVE PlayerInv'
    <2>1. UNCHANGED <<autoPlay, song, running, tracked, isMidiPlaying>>
      BY <1>5 DEF ChangeView, StopAndChange
    <2>2. CASE isMidiPlaying
      <3>1. SendTo(playerCalls, "stop", None, mode) /\ midiView' = midiView
        BY <1>5, <2>2 DEF ChangeView, StopAndChange
      <3> QED
        BY <1>0, <2>1, <3>1, SendInv
    <2>3. CASE ~isMidiPlaying
      <3>1. UNCHANGED <<playerCalls, overlapped, playsOverlapped>>
        BY <1>5, <2>3 DEF ChangeView, StopAndChange, NoCall
      <3>2. midiView' \in BOOLEAN
        BY <1>5, <2>3, Zenon DEF ChangeView, StopAndChange
      <3> QED
        BY <1>0, <2>1, <3>1, <3>2, SilentInv
    <2> QED
      BY <2>2, <2>3
  <1> QED
    BY <1>1, <1>2, <1>3, <1>4, <1>5 DEF PlayerUser, ClickRow, ArrowKey, PlayButton, SpaceKey

\* The backend serves a call, and goes on to its next step.
LEMMA ReachInv ==
  ASSUME PlayerInv, NEW c \in playerCalls, NEW step \in {"killed", "done", "failed"},
         Reach(c, step), UNCHANGED <<midiView, autoPlay, song, isMidiPlaying, overlapped, playsOverlapped>>,
         running' \subseteq Songs, tracked' \in Songs \cup {None},
         ~overlapped => running' \subseteq {tracked'},
         ~overlapped /\ (step \in {"killed", "failed"} \/ c.op = "stop") => running' = {},
         step = "killed" => c.op = "play" /\ c.step = "asked" /\ (~playsOverlapped => running' = {}),
         ~playsOverlapped => running' \subseteq {tracked'},
         (c.op = "play" /\ c.step = "killed") \/ running' \subseteq running
  PROVE  PlayerInv'
  <1> DEFINE m == [c EXCEPT !.step = step]
  <1>0. c \in PlayerCall
    BY DEF PlayerInv, PlayerTypeOK
  <1>1. m \in PlayerCall /\ m.op = c.op /\ m.song = c.song /\ m.then = c.then /\ m.step = step
    BY <1>0 DEF PlayerCall
  <1>2. playerCalls' = (playerCalls \ {c}) \cup {m}
    BY DEF Reach
  <1> HIDE DEF m
  <1>4. PlayerTypeOK'
    BY <1>1, <1>2 DEF PlayerInv, PlayerTypeOK
  <1>5. SongsKnown'
    BY <1>1, <1>2 DEF PlayerInv, SongsKnown
  <1>6. OneAtATime'
    BY <1>1, <1>2 DEF PlayerInv, OneAtATime
  <1>7. OnePlayer'
    BY <1>1, <1>2 DEF PlayerInv, OnePlayer, Starting
  <1> QED
    BY <1>4, <1>5, <1>6, <1>7 DEF PlayerInv

LEMMA ServedInv ==
  ASSUME PlayerInv, NEW c \in playerCalls,
         StopServed(c) \/ PlayKills(c) \/ PlayStarts(c) \/ PlayCannotStart(c)
  PROVE  PlayerInv'
  <1>0. running \subseteq Songs /\ tracked \in Songs \cup {None} /\ (~overlapped => running \subseteq {tracked})
        /\ (~playsOverlapped => running \subseteq {tracked})
    BY DEF PlayerInv, PlayerTypeOK, OneAtATime, OnePlayer
  <1>1. CASE StopServed(c)
    <2>1. /\ Reach(c, "done") /\ UNCHANGED <<midiView, autoPlay, song, isMidiPlaying, overlapped, playsOverlapped>>
          /\ running' = running \ {tracked} /\ tracked' = None
      BY <1>1 DEF StopServed, Kill
    <2> QED
      BY <1>0, <2>1, ReachInv
  <1>2. CASE PlayKills(c)
    <2>1. /\ Reach(c, "killed") /\ UNCHANGED <<midiView, autoPlay, song, isMidiPlaying, overlapped, playsOverlapped>>
          /\ running' = running \ {tracked} /\ tracked' = None /\ c.op = "play" /\ c.step = "asked"
      BY <1>2 DEF PlayKills, Kill
    <2> QED
      BY <1>0, <2>1, ReachInv
  <1>3. CASE PlayStarts(c)
    <2>1. /\ Reach(c, "done") /\ UNCHANGED <<midiView, autoPlay, song, isMidiPlaying, overlapped, playsOverlapped>>
          /\ running' = running \cup {c.song} /\ tracked' = c.song /\ c.op = "play" /\ c.step = "killed"
      BY <1>3 DEF PlayStarts
    <2>2. c.song \in Songs
      BY <2>1 DEF PlayerInv, SongsKnown
    <2>3. (~overlapped => running = {}) /\ (~playsOverlapped => running = {})
      BY <2>1 DEF PlayerInv, OneAtATime, OnePlayer
    <2> QED
      BY <1>0, <2>1, <2>2, <2>3, ReachInv
  <1>4. CASE PlayCannotStart(c)
    <2>1. /\ Reach(c, "failed") /\ UNCHANGED <<midiView, autoPlay, song, isMidiPlaying, overlapped, playsOverlapped>>
          /\ UNCHANGED <<running, tracked>> /\ c.step = "killed"
      BY <1>4 DEF PlayCannotStart
    <2>2. ~overlapped => running = {}
      BY <2>1 DEF PlayerInv, OneAtATime
    <2> QED
      BY <1>0, <2>1, <2>2, ReachInv
  <1> QED
    BY <1>1, <1>2, <1>3, <1>4

\* The answer of c is heard, and no other command is sent.
LEMMA AnswerInv ==
  ASSUME PlayerInv, NEW c \in playerCalls, playerCalls' = playerCalls \ {c},
         UNCHANGED <<autoPlay, running, tracked, overlapped, playsOverlapped>>,
         midiView' \in BOOLEAN, isMidiPlaying' \in BOOLEAN, song' \in Songs \cup {None},
         ~overlapped /\ running # {} => isMidiPlaying'
  PROVE  PlayerInv'
  <1>1. PlayerTypeOK'
    BY DEF PlayerInv, PlayerTypeOK
  <1>2. SongsKnown' /\ OneAtATime' /\ OnePlayer'
    BY DEF PlayerInv, SongsKnown, OneAtATime, OnePlayer, Starting
  <1> QED
    BY <1>1, <1>2 DEF PlayerInv

LEMMA ReturnInv ==
  ASSUME PlayerInv, NEW c \in playerCalls, PlayReturns(c) \/ StopReturns(c)
  PROVE  PlayerInv'
  <1>0. /\ {midiView, autoPlay, isMidiPlaying} \subseteq BOOLEAN /\ song \in Songs \cup {None}
        /\ playerCalls \ {c} \in SUBSET playerCalls /\ c \in PlayerCall
        /\ c.then \in {"select", "play"} => c.song \in Songs
    BY DEF PlayerInv, PlayerTypeOK, SongsKnown
  <1>1. CASE PlayReturns(c)
    <2>1. /\ playerCalls' = playerCalls \ {c} /\ c.step \in {"done", "failed"}
          /\ UNCHANGED <<midiView, autoPlay, song, running, tracked, overlapped, playsOverlapped>>
      BY <1>1 DEF PlayReturns
    <2>2. isMidiPlaying' \in BOOLEAN /\ (isMidiPlaying' <=> c.step = "done")
      BY <1>1, Zenon DEF PlayReturns
    <2>3. ~overlapped /\ c.step = "failed" => running = {}
      BY DEF PlayerInv, OneAtATime
    <2> QED
      BY <1>0, <2>1, <2>2, <2>3, AnswerInv
  <1>2. CASE StopReturns(c)
    <2>1. /\ isMidiPlaying' = FALSE /\ UNCHANGED <<autoPlay, running, tracked>>
          /\ c.op = "stop" /\ c.step = "done"
      BY <1>2 DEF StopReturns
    <2>2. ~overlapped => running = {}
      BY <2>1 DEF PlayerInv, OneAtATime
    <2>3. CASE c.then = "flag"
      <3>1. playerCalls' = playerCalls \ {c} /\ UNCHANGED <<midiView, song, overlapped, playsOverlapped>>
        BY <1>2, <2>3 DEF StopReturns
      <3> QED
        BY <1>0, <2>1, <2>2, <3>1, AnswerInv
    <2>4. CASE c.then \in {"sample", "midi"}
      <3>1. /\ playerCalls' = playerCalls \ {c} /\ UNCHANGED <<song, overlapped, playsOverlapped>>
            /\ midiView' = (c.then = "midi")
        BY <1>2, <2>4 DEF StopReturns
      <3>2. midiView' \in BOOLEAN
        BY <3>1, Zenon
      <3> QED
        BY <1>0, <2>1, <2>2, <3>1, <3>2, AnswerInv
    <2>5. CASE c.then = "select"
      <3>1. Select(c.song, TRUE, playerCalls \ {c}) /\ midiView' = midiView
        BY <1>2, <2>5 DEF StopReturns
      <3>2. CASE autoPlay
        <4>1. song' = c.song /\ SendTo(playerCalls \ {c}, "play", c.song, "flag")
          BY <3>1, <3>2 DEF Select
        <4> QED
          BY <1>0, <2>1, <2>5, <3>1, <4>1, SendInv
      <3>3. CASE ~autoPlay
        <4>1. song' = c.song /\ playerCalls' = playerCalls \ {c} /\ UNCHANGED <<overlapped, playsOverlapped>>
          BY <3>1, <3>3 DEF Select
        <4> QED
          BY <1>0, <2>1, <2>2, <2>5, <3>1, <4>1, AnswerInv
      <3> QED
        BY <3>2, <3>3
    <2>6. CASE c.then = "play"
      <3>1. SendTo(playerCalls \ {c}, "play", c.song, "flag") /\ UNCHANGED <<midiView, song>>
        BY <1>2, <2>6 DEF StopReturns
      <3> QED
        BY <1>0, <2>1, <2>6, <3>1, SendInv
    <2>7. c.then \in {"flag", "select", "play", "sample", "midi"}
      BY <1>0 DEF PlayerCall
    <2> QED
      BY <2>3, <2>4, <2>5, <2>6, <2>7
  <1> QED
    BY <1>1, <1>2

LEMMA PlayerNextInv == PlayerInv /\ [PlayerNext]_playerVars => PlayerInv'
  <1> SUFFICES ASSUME PlayerInv, [PlayerNext]_playerVars PROVE PlayerInv'
    OBVIOUS
  <1>1. CASE PlayerUser
    BY <1>1, PlayerUserInv
  <1>2. ASSUME NEW c \in playerCalls,
               StopServed(c) \/ PlayKills(c) \/ PlayStarts(c) \/ PlayCannotStart(c)
        PROVE  PlayerInv'
    BY <1>2, ServedInv
  <1>3. ASSUME NEW c \in playerCalls, PlayReturns(c) \/ StopReturns(c) PROVE PlayerInv'
    BY <1>3, ReturnInv
  <1>4. CASE Silence
    BY <1>4 DEF Silence, PlayerInv, PlayerTypeOK, SongsKnown, OneAtATime, OnePlayer
  <1>5. ASSUME NEW s \in Songs, SongEnds(s) PROVE PlayerInv'
    BY <1>5 DEF SongEnds, PlayerInv, PlayerTypeOK, SongsKnown, OneAtATime, OnePlayer
  <1>6. CASE UNCHANGED playerVars
    BY <1>6 DEF playerVars, PlayerInv, PlayerTypeOK, SongsKnown, OneAtATime, OnePlayer, Starting
  <1> QED
    BY <1>1, <1>2, <1>3, <1>4, <1>5, <1>6 DEF PlayerNext, PlayerReturn

LEMMA PlayerSafe == PlayerInv => PlayerTypeOK /\ MidiSoundOwned
  BY DEF PlayerInv, OneAtATime, OnePlayer, MidiSoundOwned

\* However starts and stops overlap: while no two play_midi did, one player runs at
\* most and it is the one that stop_midi finds; and without an overlap the button
\* tells of what sounds.
THEOREM PlayerInvariant == PlayerSpec => []PlayerInv
  BY PlayerInitInv, PlayerNextInv, PTL DEF PlayerSpec

-----------------------------------------------------------------------------
(***************************************************************************)
(* The Freesound screen.  At most one request and one status call are the  *)
(* newest; the flags and the sound follow the newest request, and the      *)
(* form either shows what is stored or the newest call will tell it.       *)
(***************************************************************************)

OneNewest(calls) == \A c, d \in calls : c.newest /\ d.newest => c = d

KeyKinds == {"save", "delete"}

\* What the key file says.
Stored == IF keyStored THEN "configured" ELSE "unset"

\* At most one request is the newest; a preview's is of the component on screen, and
\* nothing is heard until it returns.
RequestsFit ==
  /\ OneNewest(requests)
  /\ busy <=> \E r \in requests : r.newest
  /\ \A r \in requests :
       /\ r.kind = "search" => r.arg \in Queries
       /\ r.kind = "preview" => r.arg \in Sounds
       /\ r.newest => On
       /\ r.kind = "preview" /\ r.newest => r.here /\ workspaceActive /\ preview = None
       /\ r.kind = "preview" /\ r.here => r.newest
       /\ r.newest /\ r.kind \in KeyKinds /\ r.step = "served" /\ ~astray =>
            (keyStored <=> r.kind = "save")

PreviewFits == NoLeakedPreview /\ PreviewRow /\ (preview # None => workspaceActive)

\* What the form shows, or what the newest call will tell it, is what is stored.
CredentialFits ==
  /\ OneNewest(statusCalls)
  /\ \A c \in statusCalls : c.newest =>
       /\ On
       /\ ~astray => c.answer \in {None, Stored}
       /\ \A r \in requests : r.newest => r.kind \notin KeyKinds
  /\ On /\ ~astray /\ ~(\E c \in statusCalls : c.newest)
        /\ ~(\E r \in requests : r.newest /\ r.kind \in KeyKinds)
     => credential = Stored

FreesoundInv == FreesoundTypeOK /\ RequestsFit /\ PreviewFits /\ CredentialFits

LEMMA FreesoundInitInv == FreesoundInit => FreesoundInv
  <1> SUFFICES ASSUME FreesoundInit PROVE FreesoundInv
    OBVIOUS
  <1>1. FreesoundTypeOK
    BY DEF FreesoundInit, FreesoundTypeOK
  <1>2. RequestsFit /\ PreviewFits /\ CredentialFits
    BY DEF FreesoundInit, RequestsFit, PreviewFits, CredentialFits, OneNewest, NoLeakedPreview,
           PreviewRow, On, Enabled
  <1> QED
    BY <1>1, <1>2 DEF FreesoundInv

\* Requests that another error silences are otherwise as they were.
LEMMA SilencedRequests ==
  ASSUME requests \subseteq Request
  PROVE  /\ \A c \in Silenced(requests) : c \in Request /\ \E r \in requests :
              /\ c.kind = r.kind /\ c.arg = r.arg /\ c.newest = r.newest /\ c.here = r.here
              /\ c.step = r.step
         /\ \A r \in requests : \E c \in Silenced(requests) : c.newest = r.newest /\ c.kind = r.kind
         /\ OneNewest(requests) => OneNewest(Silenced(requests))
  <1> DEFINE Mute(r) == [r EXCEPT !.speaks = FALSE]
  <1>1. Silenced(requests) = {Mute(r) : r \in requests}
    BY DEF Silenced
  <1>2. \A r \in requests : /\ Mute(r) \in Request
                            /\ Mute(r).kind = r.kind /\ Mute(r).arg = r.arg /\ Mute(r).newest = r.newest
                            /\ Mute(r).here = r.here /\ Mute(r).step = r.step
    BY DEF Request
  <1> HIDE DEF Mute
  <1> QED
    BY <1>1, <1>2 DEF OneNewest

LEMMA SilencedStatus ==
  ASSUME statusCalls \subseteq StatusCall
  PROVE  /\ \A d \in Silenced(statusCalls) : d \in StatusCall /\ \E c \in statusCalls :
              d.newest = c.newest /\ d.answer = c.answer
         /\ \A c \in statusCalls : \E d \in Silenced(statusCalls) : d.newest = c.newest
         /\ OneNewest(statusCalls) => OneNewest(Silenced(statusCalls))
  <1> DEFINE Mute(c) == [c EXCEPT !.speaks = FALSE]
  <1>1. Silenced(statusCalls) = {Mute(c) : c \in statusCalls}
    BY DEF Silenced
  <1>2. \A c \in statusCalls : /\ Mute(c) \in StatusCall
                               /\ Mute(c).newest = c.newest /\ Mute(c).answer = c.answer
    BY DEF StatusCall
  <1> HIDE DEF Mute
  <1> QED
    BY <1>1, <1>2 DEF OneNewest

\* Overtaken requests, here or not.
LEMMA OvertakenRequests ==
  ASSUME requests \subseteq Request
  PROVE  /\ \A c \in Overtaken(Silenced(requests)) : /\ c \in Request /\ ~c.newest
                                         /\ \E r \in requests : /\ c.kind = r.kind /\ c.arg = r.arg
                                                                /\ c.here = r.here
         /\ \A c \in {[r EXCEPT !.newest = FALSE, !.here = FALSE] : r \in requests} :
              /\ c \in Request /\ ~c.newest /\ ~c.here
              /\ \E r \in requests : c.kind = r.kind /\ c.arg = r.arg
  <1> DEFINE Gone(r) == [r EXCEPT !.newest = FALSE, !.here = FALSE]
             Old(r) == [r EXCEPT !.newest = FALSE]
  <1>1. \A c \in {[r EXCEPT !.newest = FALSE, !.here = FALSE] : r \in requests} :
              /\ c \in Request /\ ~c.newest /\ ~c.here
              /\ \E r \in requests : c.kind = r.kind /\ c.arg = r.arg
    <2>1. \A r \in requests : /\ Gone(r) \in Request /\ ~Gone(r).newest /\ ~Gone(r).here
                              /\ Gone(r).kind = r.kind /\ Gone(r).arg = r.arg
      BY DEF Request
    <2>2. \A c \in {Gone(r) : r \in requests} : \E r \in requests : c = Gone(r)
      OBVIOUS
    <2> HIDE DEF Gone
    <2>3. \A c \in {Gone(r) : r \in requests} :
              /\ c \in Request /\ ~c.newest /\ ~c.here
              /\ \E r \in requests : c.kind = r.kind /\ c.arg = r.arg
      BY <2>1, <2>2
    <2> QED
      BY <2>3 DEF Gone
  <1>2. \A c \in Overtaken(Silenced(requests)) : /\ c \in Request /\ ~c.newest
                        /\ \E r \in Silenced(requests) : c.kind = r.kind /\ c.arg = r.arg /\ c.here = r.here
    <2>1. Silenced(requests) \subseteq Request
      BY SilencedRequests
    <2>2. \A r \in Silenced(requests) :
            /\ Old(r) \in Request /\ ~Old(r).newest
            /\ Old(r).kind = r.kind /\ Old(r).arg = r.arg /\ Old(r).here = r.here
      BY <2>1 DEF Request
    <2>3. Overtaken(Silenced(requests)) = {Old(r) : r \in Silenced(requests)}
      BY DEF Overtaken
    <2> HIDE DEF Old
    <2> QED
      BY <2>2, <2>3
  <1>3. \A c \in Silenced(requests) : \E r \in requests :
          c.kind = r.kind /\ c.arg = r.arg /\ c.here = r.here
    BY SilencedRequests
  <1>4. \A c \in Overtaken(Silenced(requests)) : /\ c \in Request /\ ~c.newest
                        /\ \E r \in requests : c.kind = r.kind /\ c.arg = r.arg /\ c.here = r.here
    BY <1>2, <1>3
  <1> HIDE DEF Gone, Old
  <1> QED
    BY <1>1, <1>4, Zenon

LEMMA OvertakenStatus ==
  ASSUME statusCalls \subseteq StatusCall
  PROVE  /\ \A d \in Overtaken(Silenced(statusCalls)) : d \in StatusCall /\ ~d.newest
         /\ \A d \in Overtaken(statusCalls) : d \in StatusCall /\ ~d.newest
  <1>1. Silenced(statusCalls) \subseteq StatusCall
    BY SilencedStatus
  <1> QED
    BY <1>1 DEF Overtaken, StatusCall

\* Stopping the preview revokes its URL.
LEMMA Dropped ==
  ASSUME FreesoundInv, DropPreview
  PROVE  preview' = None /\ previewing' = None /\ liveUrls' = 0
  BY DEF FreesoundInv, FreesoundTypeOK, PreviewFits, NoLeakedPreview, DropPreview, StopPreview

LEMMA DroppedFits ==
  ASSUME FreesoundInv, DropPreview \/ (UNCHANGED <<workspaceActive, previewVars>>)
  PROVE  /\ PreviewFits'
         /\ preview' \in Sounds \cup {None} /\ previewing' \in Sounds \cup {None} /\ liveUrls' \in Nat
         /\ preview' \in {preview, None}
  <1>1. CASE DropPreview
    BY <1>1, Dropped DEF PreviewFits, NoLeakedPreview, PreviewRow
  <1>2. CASE UNCHANGED <<workspaceActive, previewVars>>
    BY <1>2 DEF previewVars, FreesoundInv, FreesoundTypeOK, PreviewFits, NoLeakedPreview, PreviewRow
  <1> QED
    BY <1>1, <1>2

LEMMA ErrorTypes ==
  ASSUME FreesoundInv
  PROVE  /\ \A owner : ClearedBy(owner) \in Owners \cup {None}
         /\ \A kind \in Kinds : Owner(kind) \in Owners
         /\ \A c, owner : owner \in Owners /\ Blame(c, owner) => errorOwner' \in Owners \cup {None}
  BY DEF FreesoundInv, FreesoundTypeOK, ClearedBy, Owner, Owners, Kinds, Blame

\* The screen comes up: a status call reads the key.
LEMMA TurnOnInv ==
  ASSUME FreesoundInv, ~On, On', {workspaceActive', settings'} \subseteq BOOLEAN,
         statusCalls' = Overtaken(Silenced(statusCalls))
                          \cup {[newest |-> TRUE, speaks |-> TRUE, answer |-> None]},
         requests' = Silenced(requests), errorOwner' \in Owners \cup {None},
         UNCHANGED <<key, results, busy, previewVars>>
  PROVE  FreesoundInv'
  <1> DEFINE new == [newest |-> TRUE, speaks |-> TRUE, answer |-> None]
  <1>0. requests \subseteq Request /\ statusCalls \subseteq StatusCall /\ RequestsFit /\ PreviewFits
        /\ CredentialFits /\ FreesoundTypeOK
    BY DEF FreesoundInv, FreesoundTypeOK
  <1>1. /\ \A c \in requests' : c \in Request /\ \E r \in requests :
              /\ c.kind = r.kind /\ c.arg = r.arg /\ c.newest = r.newest /\ c.here = r.here
              /\ c.step = r.step
        /\ \A r \in requests : \E c \in requests' : c.newest = r.newest
    BY <1>0, SilencedRequests
  <1>2. new \in StatusCall /\ new.newest /\ new.answer = None
    BY DEF StatusCall
  <1>3. \A d \in Overtaken(Silenced(statusCalls)) : d \in StatusCall /\ ~d.newest
    BY <1>0, OvertakenStatus
  <1>4. statusCalls' = Overtaken(Silenced(statusCalls)) \cup {new}
    OBVIOUS
  <1> HIDE DEF new
  <1>5. \A r \in requests : ~r.newest
    BY <1>0 DEF RequestsFit
  <1>6. \A c \in requests' : ~c.newest
    BY <1>1, <1>5
  <1>7. preview = None
    BY <1>0 DEF PreviewFits, On, Enabled
  <1>8. FreesoundTypeOK'
    <2>1. requests' \subseteq Request /\ statusCalls' \subseteq StatusCall
      BY <1>1, <1>2, <1>3, <1>4
    <2> QED
      BY <1>0, <2>1 DEF FreesoundTypeOK, key, previewVars
  <1>9. RequestsFit'
    <2>1. ~busy
      BY <1>0, <1>5 DEF RequestsFit
    <2>2. \A c \in requests' :
            /\ c.kind = "search" => c.arg \in Queries
            /\ c.kind = "preview" => c.arg \in Sounds
            /\ c.kind = "preview" /\ c.here => c.newest
      BY <1>0, <1>1 DEF RequestsFit
    <2> QED
      BY <1>6, <2>1, <2>2 DEF RequestsFit, OneNewest
  <1>10. PreviewFits'
    BY <1>0, <1>7 DEF PreviewFits, NoLeakedPreview, PreviewRow, previewVars
  <1>11. CredentialFits'
    BY <1>2, <1>3, <1>4, <1>6 DEF CredentialFits, OneNewest
  <1> QED
    BY <1>8, <1>9, <1>10, <1>11 DEF FreesoundInv

\* It goes: all that is under way is given up.
LEMMA TurnOffInv ==
  ASSUME FreesoundInv, ~On', {workspaceActive', settings'} \subseteq BOOLEAN,
         statusCalls' = Overtaken(statusCalls),
         requests' = {[r EXCEPT !.newest = FALSE, !.here = FALSE] : r \in requests},
         busy' = FALSE, DropPreview,
         UNCHANGED <<key, results, errorOwner>>
  PROVE  FreesoundInv'
  <1>0. requests \subseteq Request /\ statusCalls \subseteq StatusCall /\ RequestsFit /\ FreesoundTypeOK
    BY DEF FreesoundInv, FreesoundTypeOK
  <1>1. \A c \in requests' : /\ c \in Request /\ ~c.newest /\ ~c.here
                             /\ \E r \in requests : c.kind = r.kind /\ c.arg = r.arg
    BY <1>0, OvertakenRequests
  <1>2. \A d \in statusCalls' : d \in StatusCall /\ ~d.newest
    BY <1>0, OvertakenStatus
  <1>3. /\ PreviewFits'
        /\ preview' \in Sounds \cup {None} /\ previewing' \in Sounds \cup {None} /\ liveUrls' \in Nat
    BY DroppedFits
  <1>4. FreesoundTypeOK'
    <2>1. requests' \subseteq Request /\ statusCalls' \subseteq StatusCall
      BY <1>1, <1>2
    <2> QED
      BY <1>0, <1>3, <2>1 DEF FreesoundTypeOK, key
  <1>5. RequestsFit'
    <2>1. \A c \in requests' :
            /\ c.kind = "search" => c.arg \in Queries
            /\ c.kind = "preview" => c.arg \in Sounds
      BY <1>0, <1>1 DEF RequestsFit
    <2> QED
      BY <1>1, <2>1 DEF RequestsFit, OneNewest
  <1>6. CredentialFits'
    BY <1>2 DEF CredentialFits, OneNewest
  <1> QED
    BY <1>3, <1>4, <1>5, <1>6 DEF FreesoundInv

LEMMA ScreenInv ==
  ASSUME FreesoundInv, ShowWorkspace \/ LeaveWorkspace \/ ToggleFreesoundSettings
  PROVE  FreesoundInv'
  <1>0. {workspaceActive, settings} \subseteq BOOLEAN
    BY DEF FreesoundInv, FreesoundTypeOK
  <1>1. CASE ShowWorkspace
    <2>1. ~On /\ On' /\ workspaceActive' = TRUE /\ settings' = settings
      BY <1>1 DEF ShowWorkspace, On, Enabled
    <2>2. /\ statusCalls' = Overtaken(Silenced(statusCalls))
                              \cup {[newest |-> TRUE, speaks |-> TRUE, answer |-> None]}
          /\ requests' = Silenced(requests) /\ errorOwner' = ClearedBy("credential")
          /\ UNCHANGED <<key, results, busy, previewVars>>
      BY <1>1, <2>1 DEF ShowWorkspace, EnabledEffect, Enabled, key
    <2> QED
      BY <1>0, <2>1, <2>2, TurnOnInv, ErrorTypes
  <1>2. CASE LeaveWorkspace
    <2>1. On /\ ~On' /\ workspaceActive' = FALSE /\ settings' = settings /\ ~settings
      BY <1>2 DEF LeaveWorkspace, On, Enabled
    <2>2. /\ statusCalls' = Overtaken(statusCalls)
          /\ requests' = {[r EXCEPT !.newest = FALSE, !.here = FALSE] : r \in requests}
          /\ busy' = FALSE /\ DropPreview
          /\ UNCHANGED <<key, results, errorOwner>>
      BY <1>2, <2>1 DEF LeaveWorkspace, EnabledEffect, Enabled, key
    <2> QED
      BY <1>0, <2>1, <2>2, TurnOffInv
  <1>3. CASE ToggleFreesoundSettings
    <2>0. settings' \in BOOLEAN /\ (settings' <=> ~settings) /\ workspaceActive' = workspaceActive
      BY <1>3, Zenon DEF ToggleFreesoundSettings
    <2>1. CASE workspaceActive
      <3>1. /\ UNCHANGED <<key, results, requests, previewing, statusCalls, busy, preview, liveUrls,
                           errorOwner>>
            /\ On /\ On'
        BY <1>3, <2>0, <2>1 DEF ToggleFreesoundSettings, EnabledEffect, Enabled, On, key
      <3>2. FreesoundTypeOK'
        BY <1>0, <2>0, <3>1 DEF FreesoundInv, FreesoundTypeOK, key
      <3>3. RequestsFit' /\ PreviewFits'
        BY <2>0, <3>1 DEF FreesoundInv, RequestsFit, PreviewFits, NoLeakedPreview, PreviewRow, key
      <3>4. CredentialFits'
        BY <2>0, <3>1 DEF FreesoundInv, CredentialFits, Stored, key
      <3> QED
        BY <3>2, <3>3, <3>4 DEF FreesoundInv
    <2>2. CASE ~workspaceActive /\ ~settings
      <3>1. ~On /\ On'
        BY <2>0, <2>2 DEF On, Enabled
      <3>2. /\ statusCalls' = Overtaken(Silenced(statusCalls))
                              \cup {[newest |-> TRUE, speaks |-> TRUE, answer |-> None]}
            /\ requests' = Silenced(requests) /\ errorOwner' = ClearedBy("credential")
            /\ UNCHANGED <<key, results, busy, previewVars>>
        BY <1>3, <2>2, <3>1 DEF ToggleFreesoundSettings, EnabledEffect, Enabled, key
      <3> QED
        BY <1>0, <2>0, <3>1, <3>2, TurnOnInv, ErrorTypes
    <2>3. CASE ~workspaceActive /\ settings
      <3>1. On /\ ~On'
        BY <2>0, <2>3 DEF On, Enabled
      <3>2. /\ statusCalls' = Overtaken(statusCalls)
            /\ requests' = {[r EXCEPT !.newest = FALSE, !.here = FALSE] : r \in requests}
            /\ busy' = FALSE /\ DropPreview
            /\ UNCHANGED <<key, results, errorOwner>>
        BY <1>3, <2>3, <3>1 DEF ToggleFreesoundSettings, EnabledEffect, Enabled, key
      <3> QED
        BY <1>0, <2>0, <3>1, <3>2, TurnOffInv
    <2> QED
      BY <2>1, <2>2, <2>3
  <1> QED
    BY <1>1, <1>2, <1>3

\* The five operations begin alike: what is older is overtaken.
LEMMA StartInv ==
  ASSUME FreesoundInv, NEW kind \in Kinds, NEW arg \in Queries \cup Sounds \cup {None},
         Start(kind, arg), UNCHANGED <<screen, key, results>>,
         kind = "search" => arg \in Queries,
         kind = "preview" => arg \in Sounds /\ workspaceActive /\ DropPreview,
         DropPreview \/ UNCHANGED previewVars,
         IF kind \in KeyKinds THEN statusCalls' = Overtaken(Silenced(statusCalls))
                              ELSE statusCalls' = Silenced(statusCalls)
  PROVE  FreesoundInv'
  <1> DEFINE new == NewRequest(kind, arg)
  <1>0. requests \subseteq Request /\ statusCalls \subseteq StatusCall /\ RequestsFit /\ PreviewFits
        /\ CredentialFits /\ FreesoundTypeOK
    BY DEF FreesoundInv, FreesoundTypeOK
  <1>1. On /\ ~busy /\ busy' = TRUE /\ requests' = Overtaken(Silenced(requests)) \cup {new}
        /\ errorOwner' = ClearedBy(Owner(kind)) /\ On' = On
    BY DEF Start, screen, On, Enabled
  <1>2. /\ new \in Request /\ new.kind = kind /\ new.arg = arg /\ new.newest /\ new.here = workspaceActive
        /\ new.step = "asked"
    BY <1>0 DEF NewRequest, Request, FreesoundTypeOK
  <1>3. \A c \in Overtaken(Silenced(requests)) :
          /\ c \in Request /\ ~c.newest
          /\ \E r \in requests : c.kind = r.kind /\ c.arg = r.arg /\ c.here = r.here
    BY <1>0, OvertakenRequests
  <1> HIDE DEF new
  <1>4. \A d \in statusCalls' : d \in StatusCall /\ (d.newest => \E c \in statusCalls : c.newest /\ d.answer = c.answer)
    BY <1>0, SilencedStatus, OvertakenStatus
  <1>5. /\ kind \in KeyKinds => \A d \in statusCalls' : ~d.newest
        /\ kind \notin KeyKinds => \A c \in statusCalls : \E d \in statusCalls' : d.newest = c.newest
        /\ OneNewest(statusCalls')
    BY <1>0, SilencedStatus, OvertakenStatus DEF CredentialFits, OneNewest
  <1>6. /\ PreviewFits'
        /\ preview' \in Sounds \cup {None} /\ previewing' \in Sounds \cup {None} /\ liveUrls' \in Nat
    BY DroppedFits DEF screen
  <1>7. FreesoundTypeOK'
    <2>1. requests' \subseteq Request /\ statusCalls' \subseteq StatusCall
      BY <1>1, <1>2, <1>3, <1>4
    <2>2. errorOwner' \in Owners \cup {None}
      BY <1>1, ErrorTypes
    <2> QED
      BY <1>0, <1>1, <1>6, <2>1, <2>2 DEF FreesoundTypeOK, screen, key
  <1>8. RequestsFit'
    <2>1. \A r \in requests : ~r.newest
      BY <1>0, <1>1 DEF RequestsFit
    <2>2. \A c \in Overtaken(Silenced(requests)) :
            /\ c.kind = "search" => c.arg \in Queries
            /\ c.kind = "preview" => c.arg \in Sounds
            /\ c.kind = "preview" => ~c.here
      BY <1>0, <1>3, <2>1 DEF RequestsFit
    <2>3. kind = "preview" => preview' = None
      BY Dropped
    <2>4. \A r \in requests' :
       /\ r.kind = "search" => r.arg \in Queries
       /\ r.kind = "preview" => r.arg \in Sounds
       /\ r.newest => On
       /\ r.kind = "preview" /\ r.newest => r.here /\ workspaceActive /\ preview' = None
       /\ r.kind = "preview" /\ r.here => r.newest
       /\ r.newest => r.step = "asked"
      BY <1>1, <1>2, <1>3, <2>2, <2>3
    <2>5. OneNewest(requests') /\ \E r \in requests' : r.newest
      BY <1>1, <1>2, <1>3 DEF OneNewest
    <2> QED
      BY <1>1, <2>4, <2>5 DEF RequestsFit, screen
  <1>9. CredentialFits'
    <2>1. Stored' = Stored /\ UNCHANGED <<keyStored, credential, astray>>
      BY DEF Stored, key
    <2>2. \A r \in requests' : r.newest <=> r = new
      BY <1>1, <1>2, <1>3
    <2>3. new \in requests'
      BY <1>1
    <2>4. \A r \in requests : ~r.newest
      BY <1>0, <1>1 DEF RequestsFit
    <2>5. \A c \in statusCalls' : c.newest =>
            /\ On' /\ (~astray' => c.answer \in {None, Stored'})
            /\ \A r \in requests' : r.newest => r.kind \notin KeyKinds
      BY <1>0, <1>1, <1>2, <1>4, <1>5, <2>1, <2>2 DEF CredentialFits
    <2>6. On' /\ ~astray' /\ ~(\E c \in statusCalls' : c.newest)
            /\ ~(\E r \in requests' : r.newest /\ r.kind \in KeyKinds)
          => credential' = Stored'
      <3>1. SUFFICES ASSUME ~astray, ~(\E c \in statusCalls' : c.newest), kind \notin KeyKinds
                     PROVE  credential = Stored
        BY <1>2, <2>1, <2>2, <2>3
      <3>2. ~\E c \in statusCalls : c.newest
        BY <1>5, <3>1
      <3> QED
        BY <1>0, <1>1, <2>4, <3>1, <3>2 DEF CredentialFits
    <2> QED
      BY <1>5, <2>5, <2>6 DEF CredentialFits
  <1> QED
    BY <1>6, <1>7, <1>8, <1>9 DEF FreesoundInv

LEMMA OperationInv ==
  ASSUME FreesoundInv,
         \/ SaveApiKey \/ DeleteApiKey
         \/ \E q \in Queries : Search(q)
         \/ \E s \in Sounds : FetchPreview(s) \/ DownloadPreview(s)
  PROVE  FreesoundInv'
  <1> USE DEF Kinds, KeyKinds, KeepPreview
  <1>1. CASE SaveApiKey
    BY <1>1, StartInv DEF SaveApiKey
  <1>2. CASE DeleteApiKey
    BY <1>2, StartInv DEF DeleteApiKey
  <1>3. ASSUME NEW q \in Queries, Search(q) PROVE FreesoundInv'
    BY <1>3, StartInv DEF Search
  <1>4. ASSUME NEW s \in Sounds, FetchPreview(s) PROVE FreesoundInv'
    BY <1>4, StartInv DEF FetchPreview
  <1>5. ASSUME NEW s \in Sounds, DownloadPreview(s) PROVE FreesoundInv'
    BY <1>5, StartInv DEF DownloadPreview
  <1> QED
    BY <1>1, <1>2, <1>3, <1>4, <1>5

\* The sound ends, or cannot be played.
LEMMA PreviewEndsInv ==
  ASSUME FreesoundInv, PreviewStops \/ FailPreview
  PROVE  FreesoundInv'
  <1>0. requests \subseteq Request /\ statusCalls \subseteq StatusCall /\ RequestsFit
        /\ CredentialFits /\ FreesoundTypeOK
    BY DEF FreesoundInv, FreesoundTypeOK
  <1>1. /\ DropPreview /\ UNCHANGED <<screen, key, results, busy>>
        /\ errorOwner' \in {errorOwner, "preview"}
        /\ \/ UNCHANGED <<requests, statusCalls>>
           \/ requests' = Silenced(requests) /\ statusCalls' = Silenced(statusCalls)
    BY DEF PreviewStops, FailPreview
  <1>2. /\ PreviewFits' /\ preview' = None
        /\ preview' \in Sounds \cup {None} /\ previewing' \in Sounds \cup {None} /\ liveUrls' \in Nat
    BY <1>1, DroppedFits, Dropped
  <1>3. /\ \A c \in requests' : c \in Request /\ \E r \in requests :
              /\ c.kind = r.kind /\ c.arg = r.arg /\ c.newest = r.newest /\ c.here = r.here
              /\ c.step = r.step
        /\ \A r \in requests : \E c \in requests' : c.newest = r.newest /\ c.kind = r.kind
        /\ OneNewest(requests) => OneNewest(requests')
    BY <1>0, <1>1, SilencedRequests
  <1>4. /\ \A d \in statusCalls' : d \in StatusCall /\ \E c \in statusCalls :
              d.newest = c.newest /\ d.answer = c.answer
        /\ \A c \in statusCalls : \E d \in statusCalls' : d.newest = c.newest
        /\ OneNewest(statusCalls) => OneNewest(statusCalls')
    BY <1>0, <1>1, SilencedStatus
  <1>5. FreesoundTypeOK'
    <2>1. requests' \subseteq Request /\ statusCalls' \subseteq StatusCall
      BY <1>3, <1>4
    <2> QED
      BY <1>0, <1>1, <1>2, <2>1 DEF FreesoundTypeOK, screen, key, Owners
  <1>6. RequestsFit'
    <2>1. \A c \in requests' :
       /\ c.kind = "search" => c.arg \in Queries
       /\ c.kind = "preview" => c.arg \in Sounds
       /\ c.newest => On
       /\ c.kind = "preview" /\ c.newest => c.here /\ workspaceActive
       /\ c.kind = "preview" /\ c.here => c.newest
       /\ c.newest /\ c.kind \in KeyKinds /\ c.step = "served" /\ ~astray => (keyStored <=> c.kind = "save")
      BY <1>0, <1>3 DEF RequestsFit
    <2>2. (\E r \in requests : r.newest) <=> \E r \in requests' : r.newest
      BY <1>3
    <2> QED
      BY <1>0, <1>1, <1>2, <1>3, <2>1, <2>2 DEF RequestsFit, screen, key, On, Enabled
  <1>7. CredentialFits'
    <2>1. UNCHANGED <<keyStored, credential, astray>> /\ On' = On /\ Stored' = Stored
      BY <1>1 DEF Stored, key, screen, On, Enabled
    <2>2. \A c \in statusCalls' : c.newest =>
            /\ On /\ (~astray => c.answer \in {None, Stored})
            /\ \A r \in requests' : r.newest => r.kind \notin KeyKinds
      BY <1>0, <1>3, <1>4 DEF CredentialFits
    <2>3. /\ (\E c \in statusCalls : c.newest) => \E c \in statusCalls' : c.newest
          /\ (\E r \in requests : r.newest /\ r.kind \in KeyKinds)
               => \E r \in requests' : r.newest /\ r.kind \in KeyKinds
      BY <1>3, <1>4
    <2> QED
      BY <1>0, <1>4, <2>1, <2>2, <2>3 DEF CredentialFits
  <1> QED
    BY <1>2, <1>5, <1>6, <1>7 DEF FreesoundInv

\* A status call reads the key file.
LEMMA StatusServedInv ==
  ASSUME FreesoundInv, NEW c \in statusCalls, StatusServed(c)
  PROVE  FreesoundInv'
  <1> DEFINE told == [c EXCEPT !.answer = Stored]
  <1>0. RequestsFit /\ PreviewFits /\ CredentialFits /\ FreesoundTypeOK /\ c \in StatusCall
    BY DEF FreesoundInv, FreesoundTypeOK
  <1>1. /\ told \in StatusCall /\ told.newest = c.newest /\ told.answer = Stored
    BY <1>0 DEF StatusCall, Stored
  <1>2. statusCalls' = (statusCalls \ {c}) \cup {told}
    BY DEF StatusServed, Stored
  <1>3. UNCHANGED <<screen, keyStored, credential, results, busy, previewVars, errorOwner, requests>>
    BY DEF StatusServed
  <1>4. /\ astray' \in BOOLEAN
        /\ c.newest => ~astray'
        /\ ~c.newest => (astray' <=> astray)
        /\ astray' => astray
    <2>1. astray' = (astray /\ ~c.newest)
      BY DEF StatusServed
    <2> QED
      BY <2>1, Zenon
  <1>5. /\ On' = On /\ Stored' = Stored
    BY <1>3 DEF On, Enabled, Stored, screen
  <1> HIDE DEF told
  <1>6. FreesoundTypeOK'
    <2>1. statusCalls' \subseteq StatusCall
      BY <1>0, <1>1, <1>2 DEF FreesoundTypeOK
    <2> QED
      BY <1>0, <1>3, <1>4, <2>1 DEF FreesoundTypeOK, screen, previewVars
  <1>7. RequestsFit'
    <2>1. \A r \in requests : r.newest /\ r.kind \in KeyKinds => ~c.newest
      BY <1>0 DEF CredentialFits
    <2>2. \A r \in requests :
            r.newest /\ r.kind \in KeyKinds /\ r.step = "served" /\ ~astray' => (keyStored <=> r.kind = "save")
      BY <1>0, <1>4, <2>1 DEF RequestsFit
    <2> QED
      BY <1>0, <1>3, <1>5, <2>2 DEF RequestsFit, screen, previewVars
  <1>8. PreviewFits'
    BY <1>0, <1>3 DEF PreviewFits, NoLeakedPreview, PreviewRow, screen, previewVars
  <1>9. CredentialFits'
    <2>1. OneNewest(statusCalls')
      BY <1>0, <1>1, <1>2 DEF CredentialFits, OneNewest
    <2>2. \A d \in statusCalls' : d.newest =>
            /\ On /\ (~astray' => d.answer \in {None, Stored})
            /\ \A r \in requests : r.newest => r.kind \notin KeyKinds
      <3>1. \A d \in statusCalls' : d.newest => d = told \/ (d \in statusCalls /\ d.newest /\ d # c)
        BY <1>2
      <3>2. \A d \in statusCalls : d.newest /\ d # c => ~c.newest
        BY <1>0 DEF CredentialFits, OneNewest
      <3> QED
        BY <1>0, <1>1, <1>4, <3>1, <3>2 DEF CredentialFits
    <2>3. (\E d \in statusCalls : d.newest) => \E d \in statusCalls' : d.newest
      BY <1>1, <1>2
    <2>4. ~(\E d \in statusCalls' : d.newest) => ~c.newest
      BY <1>1, <1>2
    <2> QED
      BY <1>0, <1>3, <1>4, <1>5, <2>1, <2>2, <2>3, <2>4 DEF CredentialFits
  <1> QED
    BY <1>6, <1>7, <1>8, <1>9 DEF FreesoundInv

\* It answers, or fails.
LEMMA StatusEndsInv ==
  ASSUME FreesoundInv, NEW c \in statusCalls, StatusReturns(c) \/ StatusFails(c)
  PROVE  FreesoundInv'
  <1>0. RequestsFit /\ PreviewFits /\ CredentialFits /\ FreesoundTypeOK /\ c \in StatusCall
    BY DEF FreesoundInv, FreesoundTypeOK
  <1>1. /\ statusCalls' = statusCalls \ {c}
        /\ UNCHANGED <<screen, keyStored, results, busy, previewVars, requests>>
    BY DEF StatusReturns, StatusFails
  <1>2. /\ On' = On /\ Stored' = Stored
    BY <1>1 DEF On, Enabled, Stored, screen
  <1>3. /\ c.newest => On
        /\ ~c.newest => UNCHANGED <<credential, astray>>
        /\ c.newest /\ ~astray' => ~astray /\ credential' = Stored
    <2>1. c.newest => On /\ (~astray => c.answer \in {None, Stored})
      BY <1>0 DEF CredentialFits
    <2>2. CASE StatusReturns(c)
      BY <2>1, <2>2 DEF StatusReturns
    <2>3. CASE StatusFails(c)
      BY <2>1, <2>3 DEF StatusFails
    <2> QED
      BY <2>2, <2>3
  <1>4. /\ errorOwner' \in Owners \cup {None} /\ astray' \in BOOLEAN
        /\ credential' \in {"loading", "unset", "configured"}
        /\ ~astray' => ~astray
    <2>1. CASE StatusReturns(c)
      BY <1>0, <2>1 DEF StatusReturns, FreesoundTypeOK, StatusCall
    <2>2. CASE StatusFails(c)
      BY <1>0, <2>2, ErrorTypes DEF StatusFails, FreesoundTypeOK, Owners
    <2> QED
      BY <2>1, <2>2
  <1>5. FreesoundTypeOK'
    BY <1>0, <1>1, <1>4 DEF FreesoundTypeOK, screen, previewVars
  <1>6. RequestsFit'
    BY <1>0, <1>1, <1>2, <1>4 DEF RequestsFit, screen, previewVars
  <1>7. PreviewFits'
    BY <1>0, <1>1 DEF PreviewFits, NoLeakedPreview, PreviewRow, screen, previewVars
  <1>8. CredentialFits'
    <2>1. OneNewest(statusCalls') /\ \A d \in statusCalls' : d \in statusCalls /\ d # c
      BY <1>0, <1>1 DEF CredentialFits, OneNewest
    <2>2. CASE c.newest
      <3>1. \A d \in statusCalls' : ~d.newest
        BY <1>0, <2>1, <2>2 DEF CredentialFits, OneNewest
      <3> QED
        BY <1>2, <1>3, <2>1, <2>2, <3>1 DEF CredentialFits
    <2>3. CASE ~c.newest
      <3>1. (\E d \in statusCalls : d.newest) => \E d \in statusCalls' : d.newest
        BY <1>1, <2>3
      <3> QED
        BY <1>0, <1>1, <1>2, <1>3, <2>1, <2>3, <3>1 DEF CredentialFits
    <2> QED
      BY <2>2, <2>3
  <1> QED
    BY <1>5, <1>6, <1>7, <1>8 DEF FreesoundInv

\* What Finish leaves: no newest request if it was r, the same ones otherwise.
LEMMA Finished ==
  ASSUME RequestsFit, NEW r \in requests, Finish(r)
  PROVE  /\ \A q \in requests' : q \in requests /\ q # r
         /\ OneNewest(requests')
         /\ busy' <=> \E q \in requests' : q.newest
         /\ r.newest => (~busy' /\ \A q \in requests' : ~q.newest)
         /\ ~r.newest => \A q \in requests : q.newest => q \in requests'
         /\ busy \in BOOLEAN => busy' \in BOOLEAN
  <1>1. requests' = requests \ {r} /\ busy' = IF r.newest THEN FALSE ELSE busy
    BY DEF Finish
  <1>2. OneNewest(requests) /\ (busy <=> \E q \in requests : q.newest)
    BY DEF RequestsFit
  <1> QED
    BY <1>1, <1>2 DEF OneNewest

\* A request that ends leaves the rest in order.
LEMMA FinishInv ==
  ASSUME FreesoundInv, NEW r \in requests, Finish(r), UNCHANGED <<screen, keyStored, statusCalls>>,
         ~astray' => ~astray, astray' \in BOOLEAN,
         credential' \in {"loading", "unset", "configured"}, results' \in Queries \cup {None},
         errorOwner' \in Owners \cup {None},
         preview' \in Sounds \cup {None}, previewing' \in Sounds \cup {None}, liveUrls' \in Nat,
         PreviewFits', preview' = preview \/ r.newest,
         IF r.newest /\ r.kind \in KeyKinds THEN ~astray' => credential' = Stored
                                           ELSE credential' = credential
  PROVE  FreesoundInv'
  <1>0. RequestsFit /\ CredentialFits /\ FreesoundTypeOK
    BY DEF FreesoundInv, FreesoundTypeOK
  <1>1. /\ \A q \in requests' : q \in requests /\ q # r
        /\ OneNewest(requests')
        /\ busy' <=> \E q \in requests' : q.newest
        /\ r.newest => (~busy' /\ \A q \in requests' : ~q.newest)
        /\ ~r.newest => \A q \in requests : q.newest => q \in requests'
    BY <1>0, Finished
  <1>2. busy' \in BOOLEAN
    BY <1>0 DEF Finish, FreesoundTypeOK
  <1>3. On' = On /\ Stored' = Stored
    BY DEF On, Enabled, Stored, screen
  <1>4. FreesoundTypeOK'
    BY <1>0, <1>1, <1>2 DEF FreesoundTypeOK, screen
  <1>5. RequestsFit'
    <2>1. \A q \in requests' :
       /\ q.kind = "search" => q.arg \in Queries
       /\ q.kind = "preview" => q.arg \in Sounds
       /\ q.newest => On
       /\ q.kind = "preview" /\ q.newest => q.here /\ workspaceActive /\ preview' = None
       /\ q.kind = "preview" /\ q.here => q.newest
       /\ q.newest /\ q.kind \in KeyKinds /\ q.step = "served" /\ ~astray' => (keyStored <=> q.kind = "save")
      BY <1>0, <1>1 DEF RequestsFit
    <2> QED
      BY <1>1, <1>3, <2>1 DEF RequestsFit, screen
  <1>6. CredentialFits'
    <2>1. \A d \in statusCalls : d.newest =>
            /\ On /\ (~astray' => d.answer \in {None, Stored})
            /\ \A q \in requests' : q.newest => q.kind \notin KeyKinds
      BY <1>0, <1>1 DEF CredentialFits
    <2>2. ASSUME On, ~astray', ~(\E d \in statusCalls : d.newest),
                 ~(\E q \in requests' : q.newest /\ q.kind \in KeyKinds)
          PROVE  credential' = Stored
      <3>1. CASE r.newest /\ r.kind \in KeyKinds
        BY <2>2, <3>1
      <3>2. CASE ~(r.newest /\ r.kind \in KeyKinds)
        <4>1. ~\E q \in requests : q.newest /\ q.kind \in KeyKinds
          BY <1>0, <1>1, <2>2, <3>2 DEF RequestsFit, OneNewest
        <4> QED
          BY <1>0, <2>2, <3>2, <4>1 DEF CredentialFits
      <3> QED
        BY <3>1, <3>2
    <2> QED
      BY <1>0, <1>3, <2>1, <2>2 DEF CredentialFits
  <1> QED
    BY <1>4, <1>5, <1>6 DEF FreesoundInv

\* The key is written or removed.
LEMMA KeyServedInv ==
  ASSUME FreesoundInv, NEW r \in requests, KeyServed(r)
  PROVE  FreesoundInv'
  <1> DEFINE done == [r EXCEPT !.step = "served"]
  <1>0. RequestsFit /\ PreviewFits /\ CredentialFits /\ FreesoundTypeOK /\ r \in Request
    BY DEF FreesoundInv, FreesoundTypeOK
  <1>1. /\ done \in Request /\ done.kind = r.kind /\ done.arg = r.arg /\ done.newest = r.newest
        /\ done.here = r.here /\ done.step = "served"
    BY <1>0 DEF Request
  <1>2. requests' = (requests \ {r}) \cup {done} /\ r.kind \in KeyKinds
    BY DEF KeyServed, KeyKinds
  <1>3. UNCHANGED <<screen, credential, results, busy, previewVars, errorOwner, statusCalls>>
    BY DEF KeyServed
  <1>4. /\ astray' \in BOOLEAN /\ keyStored' \in BOOLEAN
        /\ astray' <=> ~r.newest
        /\ keyStored' <=> r.kind = "save"
    <2>1. astray' = ~r.newest /\ keyStored' = (r.kind = "save")
      BY DEF KeyServed
    <2> QED
      BY <2>1, Zenon
  <1>5. On' = On
    BY <1>3 DEF On, Enabled, screen
  <1> HIDE DEF done
  <1>6. FreesoundTypeOK'
    <2>1. requests' \subseteq Request
      BY <1>0, <1>1, <1>2 DEF FreesoundTypeOK
    <2> QED
      BY <1>0, <1>3, <1>4, <2>1 DEF FreesoundTypeOK, screen, previewVars
  <1>7. RequestsFit'
    <2>1. OneNewest(requests') /\ ((\E q \in requests : q.newest) <=> \E q \in requests' : q.newest)
      BY <1>0, <1>1, <1>2 DEF RequestsFit, OneNewest
    <2>2. \A q \in requests' :
       /\ q.kind = "search" => q.arg \in Queries
       /\ q.kind = "preview" => q.arg \in Sounds
       /\ q.newest => On
       /\ q.kind = "preview" /\ q.newest => q.here /\ workspaceActive /\ preview = None
       /\ q.kind = "preview" /\ q.here => q.newest
      BY <1>0, <1>1, <1>2 DEF RequestsFit
    <2>3. \A q \in requests' :
       q.newest /\ q.kind \in KeyKinds /\ q.step = "served" /\ ~astray' => (keyStored' <=> q.kind = "save")
      <3>1. SUFFICES ASSUME NEW q \in requests', q.newest, r.newest
                     PROVE  keyStored' <=> q.kind = "save"
        BY <1>4
      <3>2. q = done
        BY <1>0, <1>2, <3>1 DEF RequestsFit, OneNewest
      <3> QED
        BY <1>1, <1>4, <3>2
    <2> QED
      BY <1>0, <1>3, <1>5, <2>1, <2>2, <2>3 DEF RequestsFit, screen, previewVars
  <1>8. PreviewFits'
    BY <1>0, <1>3 DEF PreviewFits, NoLeakedPreview, PreviewRow, screen, previewVars
  <1>9. CredentialFits'
    <2>1. CASE r.newest
      <3>1. \A d \in statusCalls : ~d.newest
        BY <1>0, <1>2, <2>1 DEF CredentialFits
      <3>2. done \in requests' /\ done.newest /\ done.kind \in KeyKinds
        BY <1>1, <1>2, <2>1
      <3> QED
        BY <1>0, <1>3, <3>1, <3>2 DEF CredentialFits
    <2>2. CASE ~r.newest
      <3>1. \A q \in requests' : q.newest => q \in requests
        BY <1>1, <1>2, <2>2
      <3> QED
        BY <1>0, <1>3, <1>4, <1>5, <2>2, <3>1 DEF CredentialFits
    <2> QED
      BY <2>1, <2>2
  <1> QED
    BY <1>6, <1>7, <1>8, <1>9 DEF FreesoundInv

\* The file of a download is there, and is imported.
LEMMA DownloadedInv ==
  ASSUME FreesoundInv, NEW r \in requests, r.kind = "download", r.newest,
         requests' = (requests \ {r}) \cup {[r EXCEPT !.step = "importing"]},
         UNCHANGED <<screen, key, results, busy, previewVars, errorOwner, statusCalls>>
  PROVE  FreesoundInv'
  <1> DEFINE done == [r EXCEPT !.step = "importing"]
  <1>0. RequestsFit /\ PreviewFits /\ CredentialFits /\ FreesoundTypeOK /\ r \in Request
    BY DEF FreesoundInv, FreesoundTypeOK
  <1>1. /\ done \in Request /\ done.kind = "download" /\ done.arg = r.arg /\ done.newest = r.newest
        /\ done.here = r.here /\ done.step = "importing"
    BY <1>0 DEF Request
  <1>2. requests' = (requests \ {r}) \cup {done}
    OBVIOUS
  <1>3. On' = On /\ Stored' = Stored
    BY DEF On, Enabled, screen, Stored, key
  <1> HIDE DEF done
  <1>4. FreesoundTypeOK'
    <2>1. requests' \subseteq Request
      BY <1>0, <1>1, <1>2 DEF FreesoundTypeOK
    <2> QED
      BY <1>0, <2>1 DEF FreesoundTypeOK, screen, key, previewVars
  <1>5. RequestsFit'
    <2>1. OneNewest(requests') /\ ((\E q \in requests : q.newest) <=> \E q \in requests' : q.newest)
      BY <1>0, <1>1, <1>2 DEF RequestsFit, OneNewest
    <2>2. \A q \in requests' :
       /\ q.kind = "search" => q.arg \in Queries
       /\ q.kind = "preview" => q.arg \in Sounds
       /\ q.newest => On
       /\ q.kind = "preview" /\ q.newest => q.here /\ workspaceActive /\ preview = None
       /\ q.kind = "preview" /\ q.here => q.newest
       /\ q.newest /\ q.kind \in KeyKinds /\ q.step = "served" /\ ~astray => (keyStored <=> q.kind = "save")
      BY <1>0, <1>1, <1>2 DEF RequestsFit, KeyKinds
    <2> QED
      BY <1>0, <1>3, <2>1, <2>2 DEF RequestsFit, screen, key, previewVars
  <1>6. PreviewFits'
    BY <1>0 DEF PreviewFits, NoLeakedPreview, PreviewRow, screen, previewVars
  <1>7. CredentialFits'
    <2>1. \A q \in requests' : q.newest => q.kind = "download"
      BY <1>0, <1>1, <1>2 DEF RequestsFit, OneNewest
    <2>2. \A q \in requests : q.newest => q.kind = "download"
      BY <1>0 DEF RequestsFit, OneNewest
    <2>3. \A q \in requests' : q.newest => q.kind \notin KeyKinds
      BY <2>1 DEF KeyKinds
    <2>4. \A q \in requests : q.newest => q.kind \notin KeyKinds
      BY <2>2 DEF KeyKinds
    <2> QED
      BY <1>0, <1>3, <2>3, <2>4 DEF CredentialFits, key
  <1> QED
    BY <1>4, <1>5, <1>6, <1>7 DEF FreesoundInv

LEMMA FreesoundRequestInv ==
  ASSUME FreesoundInv, NEW r \in requests, RequestStep(r)
  PROVE  FreesoundInv'
  <1>0. RequestsFit /\ PreviewFits /\ CredentialFits /\ FreesoundTypeOK /\ r \in Request
    BY DEF FreesoundInv, FreesoundTypeOK
  <1>1. CASE KeyServed(r)
    BY <1>1, KeyServedInv
  <1>2. CASE KeyReturns(r)
    <2>1. UNCHANGED <<screen, keyStored, previewVars, errorOwner, statusCalls, astray>> /\ Finish(r)
      BY <1>2 DEF KeyReturns, KeepPreview
    <2>2. PreviewFits'
      BY <1>0, <2>1 DEF PreviewFits, NoLeakedPreview, PreviewRow, screen, previewVars
    <2>3. IF r.newest /\ r.kind \in KeyKinds THEN ~astray' => credential' = Stored
                                             ELSE credential' = credential
      BY <1>0, <1>2 DEF KeyReturns, RequestsFit, KeyKinds, Stored
    <2>4. credential' \in {"loading", "unset", "configured"} /\ results' \in Queries \cup {None}
      BY <1>0, <1>2 DEF KeyReturns, FreesoundTypeOK
    <2> QED
      BY <1>0, <2>1, <2>2, <2>3, <2>4, FinishInv DEF FreesoundTypeOK, previewVars
  <1>3. CASE SearchReturns(r)
    <2>1. UNCHANGED <<screen, key, previewVars, errorOwner, statusCalls>> /\ Finish(r)
      BY <1>3 DEF SearchReturns, KeepPreview
    <2>2. PreviewFits'
      BY <1>0, <2>1 DEF PreviewFits, NoLeakedPreview, PreviewRow, screen, previewVars
    <2>3. results' \in Queries \cup {None} /\ r.kind \notin KeyKinds
      BY <1>0, <1>3 DEF SearchReturns, RequestsFit, FreesoundTypeOK, KeyKinds
    <2> QED
      BY <1>0, <2>1, <2>2, <2>3, FinishInv DEF FreesoundTypeOK, previewVars, key
  <1>4. CASE PreviewReturns(r)
    <2>1. UNCHANGED <<screen, key, results, errorOwner, statusCalls>> /\ Finish(r) /\ r.kind = "preview"
      BY <1>4 DEF PreviewReturns
    <2>2. r.arg \in Sounds /\ (r.here <=> r.newest)
          /\ (r.newest => workspaceActive /\ preview = None)
      BY <1>0, <2>1 DEF RequestsFit
    <2>3. PreviewFits' /\ (preview' = preview \/ r.newest)
          /\ preview' \in Sounds \cup {None} /\ previewing' \in Sounds \cup {None} /\ liveUrls' \in Nat
      <3>1. CASE r.newest
        <4>1. preview' = r.arg /\ liveUrls' = 1 /\ previewing' = r.arg
          BY <1>0, <1>4, <2>2, <3>1 DEF PreviewReturns, PreviewFits, NoLeakedPreview
        <4>2. r.arg # None
          BY <2>2, SoundsAssumption
        <4> QED
          BY <2>1, <2>2, <3>1, <4>1, <4>2 DEF PreviewFits, NoLeakedPreview, PreviewRow, screen
      <3>2. CASE ~r.newest
        <4>1. preview' = preview /\ liveUrls' = liveUrls /\ previewing' = previewing
          BY <1>4, <2>2, <3>2 DEF PreviewReturns, DropUrl
        <4> QED
          BY <1>0, <2>1, <4>1 DEF PreviewFits, NoLeakedPreview, PreviewRow, screen, FreesoundTypeOK
      <3> QED
        BY <3>1, <3>2
    <2>4. r.kind \notin KeyKinds
      BY <2>1 DEF KeyKinds
    <2> QED
      BY <1>0, <2>1, <2>3, <2>4, FinishInv DEF FreesoundTypeOK, key
  <1>5. CASE DownloadReturns(r) \/ ImportReturns(r)
    <2>1. CASE Finish(r)
      <3>1. UNCHANGED <<screen, key, results, previewVars, errorOwner, statusCalls>> /\ r.kind = "download"
        BY <1>5 DEF DownloadReturns, ImportReturns
      <3>2. PreviewFits'
        BY <1>0, <3>1 DEF PreviewFits, NoLeakedPreview, PreviewRow, screen, previewVars
      <3>3. r.kind \notin KeyKinds
        BY <3>1 DEF KeyKinds
      <3> QED
        BY <1>0, <2>1, <3>1, <3>2, <3>3, FinishInv DEF FreesoundTypeOK, previewVars, key
    <2>2. CASE ~Finish(r)
      BY <1>5, <2>2, DownloadedInv DEF DownloadReturns, ImportReturns
    <2> QED
      BY <2>1, <2>2
  <1>6. CASE RequestFails(r)
    <2>1. /\ UNCHANGED <<screen, keyStored, credential, results, preview, liveUrls, statusCalls>>
          /\ Finish(r) /\ Blame(r, Owner(r.kind))
          /\ previewing' = IF r.here /\ r.kind = "preview" THEN r.arg ELSE previewing
      BY <1>6 DEF RequestFails
    <2>2. /\ astray' \in BOOLEAN
          /\ ~astray' => ~astray
          /\ ~astray' => ~(r.newest /\ r.kind \in KeyKinds)
      <3>1. astray' = (astray \/ (r.newest /\ r.kind \in KeyKinds))
        BY <1>6 DEF RequestFails, KeyKinds
      <3> QED
        BY <3>1, Zenon
    <2>3. errorOwner' \in Owners \cup {None}
      BY <1>0, <2>1, ErrorTypes DEF Request
    <2>4. PreviewFits' /\ previewing' \in Sounds \cup {None}
      BY <1>0, <2>1 DEF PreviewFits, NoLeakedPreview, PreviewRow, screen, RequestsFit, FreesoundTypeOK
    <2> QED
      BY <1>0, <2>1, <2>2, <2>3, <2>4, FinishInv DEF FreesoundTypeOK
  <1> QED
    BY <1>1, <1>2, <1>3, <1>4, <1>5, <1>6 DEF RequestStep

LEMMA FreesoundNextInv ==
  ASSUME FreesoundInv, [FreesoundNext]_freesoundVars
  PROVE  FreesoundInv'
  <1>1. CASE FreesoundUser
    BY <1>1, ScreenInv, OperationInv, PreviewEndsInv DEF FreesoundUser
  <1>2. ASSUME NEW c \in statusCalls, StatusServed(c) \/ StatusReturns(c) \/ StatusFails(c)
        PROVE  FreesoundInv'
    BY <1>2, StatusServedInv, StatusEndsInv
  <1>3. ASSUME NEW r \in requests, RequestStep(r) PROVE FreesoundInv'
    BY <1>3, FreesoundRequestInv
  <1>4. CASE UNCHANGED freesoundVars
    <2>1. UNCHANGED <<workspaceActive, settings, keyStored, credential, astray, results, busy, preview,
                      previewing, liveUrls, errorOwner, requests, statusCalls>>
      BY <1>4 DEF freesoundVars, screen, key, previewVars
    <2>2. FreesoundTypeOK'
      BY <2>1 DEF FreesoundInv, FreesoundTypeOK
    <2>3. RequestsFit' /\ PreviewFits'
      BY <2>1 DEF FreesoundInv, RequestsFit, PreviewFits, NoLeakedPreview, PreviewRow, On, Enabled
    <2>4. CredentialFits'
      BY <2>1 DEF FreesoundInv, CredentialFits, Stored, On, Enabled
    <2> QED
      BY <2>2, <2>3, <2>4 DEF FreesoundInv
  <1> QED
    BY <1>1, <1>2, <1>3, <1>4 DEF FreesoundNext

LEMMA FreesoundSafe ==
  FreesoundInv => /\ FreesoundTypeOK /\ BusyIsRequest /\ NoLeakedPreview /\ PreviewRow
                  /\ CredentialCurrent
  <1> SUFFICES ASSUME FreesoundInv
               PROVE  /\ FreesoundTypeOK /\ BusyIsRequest /\ NoLeakedPreview /\ PreviewRow
                      /\ CredentialCurrent
    OBVIOUS
  <1>1. BusyIsRequest
    BY DEF FreesoundInv, RequestsFit, BusyIsRequest
  <1>2. CredentialCurrent
    BY DEF FreesoundInv, CredentialFits, CredentialCurrent, Stored, KeyKinds
  <1> QED
    BY <1>1, <1>2 DEF FreesoundInv, PreviewFits

\* Whatever the user does and in whatever order the calls end, Freesound's screen is right.
THEOREM FreesoundInvariant == FreesoundSpec => []FreesoundInv
  BY FreesoundInitInv, FreesoundNextInv, PTL DEF FreesoundSpec

-----------------------------------------------------------------------------
(***************************************************************************)
(* The edit forms.  A save that was clicked later has more targets left    *)
(* than one clicked before it, or as many and a place behind it: so the    *)
(* last write of a target is that of the newest save.                      *)
(***************************************************************************)

\* A nonempty set of numbers has a least one.
LEMMA LeastElement ==
  ASSUME NEW S, S \subseteq Nat, S # {}
  PROVE  \E m \in S : \A n \in S : m <= n
  <1> DEFINE Less == {ss \in Nat \X Nat : ss[1] < ss[2]}
  <1>1. IsWellFoundedOn(Less, Nat)
    BY NatLessThanWellFounded DEF OpToRel
  <1> HIDE DEF Less
  <1>2. PICK m \in S : \A n \in S : ~ (<<n, m>> \in Less)
    BY <1>1, WFMin
  <1>3. \A n \in S : ~(n < m)
    BY <1>2 DEF Less
  <1> QED
    BY <1>3

\* The first of a queue leaves, or something takes its turn at the end.
LEMMA Requeued ==
  ASSUME NEW S, NEW n \in Nat, NEW q \in Seq(S), Len(q) = n, q # << >>, NEW x \in S
  PROVE  /\ n > 0 /\ Tail(q) \in Seq(S) /\ Len(Tail(q)) = n - 1
         /\ \A i \in 1..n - 1 : Tail(q)[i] = q[i + 1]
         /\ Append(Tail(q), x) \in Seq(S) /\ Len(Append(Tail(q), x)) = n
         /\ \A i \in 1..n - 1 : Append(Tail(q), x)[i] = q[i + 1]
         /\ Append(Tail(q), x)[n] = x
         /\ Head(q) = q[1]
  <1>1. /\ n > 0 /\ Tail(q) \in Seq(S) /\ Len(Tail(q)) = n - 1
        /\ \A i \in 1..n - 1 : Tail(q)[i] = q[i + 1]
        /\ Head(q) = q[1]
    OBVIOUS
  <1>2. PICK p \in Seq(S) : p = Tail(q)
    BY <1>1
  <1>3. /\ Append(p, x) \in Seq(S) /\ Len(Append(p, x)) = Len(p) + 1
        /\ \A i \in 1..Len(p) : Append(p, x)[i] = p[i]
        /\ Append(p, x)[Len(p) + 1] = x
    OBVIOUS
  <1> QED
    BY <1>1, <1>2, <1>3

\* What is left to write of a save: the targets after those it has sent.
SaveFits(s) ==
  /\ s.todo # {} /\ s.todo \subseteq s.targets /\ s.value \in Contents(formKind)
  /\ \A t \in s.todo, u \in s.targets : t <= u => u \in s.todo

\* The newest save: it has more to write than any other, or as much as one before it.
Last(k) ==
  /\ k \in 1..Len(saves)
  /\ \A j \in 1..Len(saves) : j # k =>
       saves[j].todo \subseteq saves[k].todo /\ (saves[j].todo = saves[k].todo => j < k)
  /\ \A t \in saves[k].targets : meant[t] = saves[k].value
  /\ \A t \in Forms \ unwritten : t \notin saves[k].todo => storedValues[t] = meant[t]

SavesInOrder ==
  ~crossed =>
    /\ \A j, k \in 1..Len(saves) : saves[j].targets = saves[k].targets
    /\ saves # << >> => \E k \in 1..Len(saves) : Last(k)
    /\ NewestSaveHolds

SavesFit == \A k \in 1..Len(saves) : SaveFits(saves[k])

EditInv ==
  /\ EditTypeOK
  /\ form # None => form.targets # {}
  /\ SavesFit
  /\ SavesInOrder

LEMMA FirstTarget ==
  ASSUME NEW ids \in SUBSET Forms, ids # {}
  PROVE  FirstOfTargets(ids) \in ids /\ \A u \in ids : FirstOfTargets(ids) <= u
  <1>1. \E t \in ids : \A u \in ids : t <= u
    BY LeastElement, FormsAssumption
  <1> QED
    BY <1>1 DEF FirstOfTargets

LEMMA EditInitInv == EditInit => EditInv
  <1> SUFFICES ASSUME EditInit PROVE EditInv
    OBVIOUS
  <1>1. PICK v \in Contents(formKind) : storedValues = [t \in Forms |-> v]
    BY DEF EditInit
  <1>2. Len(saves) = 0 /\ saves \in Seq(Saving) /\ MaxCalls \in Nat
    BY CallsAssumption DEF EditInit
  <1>3. EditTypeOK
    <2>1. /\ form = None /\ edit \in Contents(formKind) /\ unwritten \subseteq Forms
          /\ formKind \in {"classification", "metadata"}
      BY DEF EditInit
    <2>3. Len(saves) <= MaxCalls
      BY <1>2
    <2>4. refreshing \in BOOLEAN /\ crossed \in BOOLEAN
      BY Zenon DEF EditInit
    <2>2. storedValues \in [Forms -> Contents(formKind)] /\ meant = storedValues
      BY <1>1 DEF EditInit
    <2> QED
      BY <1>2, <2>1, <2>2, <2>3, <2>4 DEF EditTypeOK
  <1>4. SavesInOrder
    BY <1>1, <1>2 DEF EditInit, SavesInOrder, NewestSaveHolds
  <1> QED
    BY <1>2, <1>3, <1>4 DEF EditInit, EditInv, SavesFit

\* The form opens, closes and is edited; saves and database stay.
LEMMA FormInv ==
  ASSUME EditInv, UNCHANGED <<formKind, writeVars, meant, crossed>>,
         form' = None \/ form' = form
           \/ (form' \in [targets : SUBSET Forms, original : Contents(formKind)] /\ form'.targets # {}),
         edit' \in Contents(formKind), refreshing' \in BOOLEAN
  PROVE  EditInv'
  <1>1. Contents(formKind)' = Contents(formKind)
    BY DEF Contents
  <1>2. EditTypeOK'
    BY <1>1 DEF EditInv, EditTypeOK, writeVars
  <1>3. SavesInOrder'
    BY DEF EditInv, SavesInOrder, NewestSaveHolds, Last, writeVars
  <1>4. SavesFit'
    <2>1. \A k \in 1..Len(saves) : SaveFits(saves[k])
      BY DEF EditInv, SavesFit
    <2> QED
      BY <1>1, <2>1 DEF SavesFit, SaveFits, writeVars
  <1>5. form' # None => form'.targets # {}
    BY DEF EditInv
  <1> QED
    BY <1>2, <1>3, <1>4, <1>5 DEF EditInv

LEMMA SavedInv ==
  ASSUME EditInv, NEW known \in BOOLEAN, HandleSave(known)
  PROVE  EditInv'
  <1> DEFINE v == Written(known)
             new == [targets |-> form.targets, todo |-> form.targets, value |-> v, some |-> FALSE]
             n == Len(saves)
  <1>0. /\ form \in [targets : SUBSET Forms, original : Contents(formKind)] /\ form.targets # {}
        /\ saves \in Seq(Saving) /\ n \in Nat /\ edit \in Contents(formKind) /\ n < MaxCalls
        /\ MaxCalls \in Nat
    BY CallsAssumption DEF EditInv, EditTypeOK, HandleSave
  <1>1. v \in Contents(formKind) /\ Contents(formKind) \subseteq {Kick, Other} \cup Texts
    BY <1>0 DEF Written, Contents
  <1>2. /\ new \in Saving /\ new.targets = form.targets /\ new.todo = form.targets /\ new.value = v
    BY <1>0, <1>1 DEF Saving
  <1>3. /\ saves' = Append(saves, new)
        /\ meant' = [t \in Forms |-> IF t \in form.targets THEN v ELSE meant[t]]
        /\ UNCHANGED <<formKind, form, edit, refreshing, storedValues, unwritten>>
    BY DEF HandleSave
  <1>4. /\ crossed' \in BOOLEAN
        /\ crossed' <=> crossed \/ \E k \in DOMAIN saves : saves[k].targets # form.targets
    <2>1. crossed' = (crossed \/ \E k \in DOMAIN saves : saves[k].targets # form.targets)
      BY DEF HandleSave
    <2> QED
      BY <2>1, Zenon
  <1> HIDE DEF new, v
  <1>5. /\ saves' \in Seq(Saving) /\ Len(saves') = n + 1
        /\ \A i \in 1..n : saves'[i] = saves[i]
        /\ saves'[n + 1] = new
    BY <1>0, <1>2, <1>3
  <1>6. EditTypeOK'
    <2>1. Contents(formKind)' = Contents(formKind)
      BY <1>3 DEF Contents
    <2>2. meant' \in [Forms -> Contents(formKind)]
      BY <1>1, <1>3 DEF EditInv, EditTypeOK
    <2>3. Len(saves') <= MaxCalls
      BY <1>0, <1>5
    <2> QED
      BY <1>3, <1>4, <1>5, <2>1, <2>2, <2>3 DEF EditInv, EditTypeOK
  <1>7. SavesFit'
    <2>1. SaveFits(new)
      BY <1>0, <1>1, <1>2 DEF SaveFits
    <2>2. \A k \in 1..n + 1 : k \in 1..n \/ k = n + 1
      BY <1>0
    <2>3. \A k \in 1..n + 1 : SaveFits(saves'[k])
      BY <1>5, <2>1, <2>2 DEF EditInv, SavesFit
    <2>4. Len(saves') = n + 1 /\ Contents(formKind)' = Contents(formKind)
      BY <1>3, <1>5 DEF Contents
    <2> HIDE DEF n
    <2> QED
      BY <2>3, <2>4 DEF SavesFit, SaveFits
  <1>8. SavesInOrder'
    <2> SUFFICES ASSUME ~crossed' PROVE /\ \A j, k \in 1..Len(saves') : saves'[j].targets = saves'[k].targets
                                        /\ saves' # << >> /\ \E c \in 1..Len(saves') : Last(c)'
      BY DEF SavesInOrder, NewestSaveHolds
    <2>1. ~crossed /\ \A k \in 1..n : saves[k].targets = form.targets
      BY <1>0, <1>4
    <2>2. \A k \in 1..n + 1 : k \in 1..n \/ k = n + 1
      BY <1>0
    <2>3. \A k \in 1..n + 1 : saves'[k].targets = form.targets
      BY <1>2, <1>5, <2>1, <2>2
    <2>4. \A j \in 1..n : saves'[j].todo \subseteq saves'[n + 1].todo /\ j < n + 1
      BY <1>0, <1>2, <1>5, <2>1 DEF EditInv, SavesFit, SaveFits
    <2>5. \A t \in form.targets : meant'[t] = v
      BY <1>0, <1>3
    <2>6. \A t \in Forms \ unwritten : t \notin form.targets => storedValues[t] = meant'[t]
      <3> SUFFICES ASSUME NEW t \in Forms \ unwritten, t \notin form.targets PROVE storedValues[t] = meant[t]
        BY <1>3
      <3>1. CASE saves = << >>
        BY <2>1, <3>1 DEF EditInv, SavesInOrder, NewestSaveHolds
      <3>2. CASE saves # << >>
        <4>1. PICK k \in 1..n : Last(k)
          BY <2>1, <3>2 DEF EditInv, SavesInOrder
        <4>2. t \notin saves[k].todo
          BY <2>1 DEF EditInv, SavesFit, SaveFits
        <4> QED
          BY <4>1, <4>2 DEF Last
      <3> QED
        BY <3>1, <3>2
    <2>7. n + 1 \in 1..Len(saves') /\ saves' # << >> /\ Len(saves') = n + 1
      BY <1>0, <1>5
    <2>8. saves'[n + 1].targets = form.targets /\ saves'[n + 1].value = v /\ saves'[n + 1].todo = form.targets
      BY <1>2, <1>5
    <2>9. \E c \in 1..Len(saves') : Last(c)'
      <3> DEFINE m == n + 1
      <3>1. \A j \in 1..m : j # m => saves'[j].todo \subseteq saves'[m].todo /\ j < m
        BY <1>0, <2>2, <2>4
      <3>2. /\ \A t \in saves'[m].targets : meant'[t] = saves'[m].value
            /\ \A t \in Forms \ unwritten' : t \notin saves'[m].todo => storedValues'[t] = meant'[t]
        BY <1>3, <2>5, <2>6, <2>8
      <3>3. PICK c \in Nat : c = n + 1
        BY <1>0
      <3> HIDE DEF m, n
      <3>4. Last(c)'
        BY <2>7, <3>1, <3>2, <3>3 DEF Last, m
      <3> QED
        BY <3>4, <2>7, <3>3
    <2> QED
      BY <2>3, <2>7, <2>9
  <1> QED
    BY <1>0, <1>3, <1>6, <1>7, <1>8 DEF EditInv

\* What is still to write of another save starts after the first target of the newest.
LEMMA AfterFirst ==
  ASSUME NEW a, NEW b, SaveFits(a), SaveFits(b), a.targets = b.targets, a.targets \subseteq Forms,
         b.todo \subseteq a.todo, b.todo # a.todo
  PROVE  b.todo \subseteq a.todo \ {FirstOfTargets(a.todo)}
  <1>1. a.todo \in SUBSET Forms /\ a.todo # {}
    BY DEF SaveFits
  <1>2. PICK t : t = FirstOfTargets(a.todo)
    OBVIOUS
  <1>3. t \in a.todo /\ \A u \in a.todo : t <= u
    BY <1>1, <1>2, FirstTarget
  <1>4. t \notin b.todo
    <2> SUFFICES ASSUME t \in b.todo PROVE FALSE
      OBVIOUS
    <2>1. \A u \in a.todo : u \in b.todo
      BY <1>3 DEF SaveFits
    <2> QED
      BY <2>1
  <1> QED
    BY <1>2, <1>4

\* The first target of the first save is answered.
LEMMA AnsweredInv ==
  ASSUME EditInv, saves # << >>, NEW s, s = Head(saves), NEW t, t = FirstOfTargets(s.todo),
         NEW ok \in BOOLEAN, Goes(s, t, ok), UNCHANGED <<formKind, form, edit, meant, crossed>>,
         storedValues' \in [Forms -> Contents(formKind)], unwritten' \subseteq Forms,
         \A u \in Forms \ {t} : storedValues'[u] = storedValues[u] /\ (u \in unwritten' <=> u \in unwritten),
         t \notin unwritten' => storedValues'[t] = s.value
  PROVE  EditInv'
  <1> DEFINE after == [s EXCEPT !.todo = @ \ {t}, !.some = @ \/ ok]
  <1>0. saves \in Seq(Saving)
    BY DEF EditInv, EditTypeOK
  <1>1. PICK n \in Nat : n = Len(saves)
    BY <1>0
  <1>2. /\ saves \in Seq(Saving) /\ n > 0 /\ n <= MaxCalls /\ MaxCalls \in Nat
        /\ s = saves[1] /\ s \in Saving
    BY <1>1, CallsAssumption DEF EditInv, EditTypeOK
  <1>3. /\ SaveFits(s) /\ \A k \in 1..n : SaveFits(saves[k])
    BY <1>1, <1>2 DEF EditInv, SavesFit
  <1>4. t \in s.todo /\ t \in Forms /\ \A u \in s.todo : t <= u
    BY <1>2, <1>3, FirstTarget DEF Saving, SaveFits
  <1>5. /\ after \in Saving /\ after.targets = s.targets /\ after.value = s.value
        /\ after.todo = s.todo \ {t} /\ after.some \in BOOLEAN
    BY <1>2, <1>4 DEF Saving
  <1>6. /\ after.todo # {} => saves' = Append(Tail(saves), after) /\ refreshing' = refreshing
        /\ after.todo = {} => saves' = Tail(saves) /\ refreshing' = (refreshing \/ after.some)
    BY DEF Goes
  <1> HIDE DEF after
  <1>7. PICK a \in Saving : a = after
    BY <1>5
  <1>8. /\ Tail(saves) \in Seq(Saving) /\ Len(Tail(saves)) = n - 1
        /\ \A i \in 1..n - 1 : Tail(saves)[i] = saves[i + 1]
        /\ Append(Tail(saves), a) \in Seq(Saving) /\ Len(Append(Tail(saves), a)) = n
        /\ \A i \in 1..n - 1 : Append(Tail(saves), a)[i] = saves[i + 1]
        /\ Append(Tail(saves), a)[n] = a
    BY <1>1, <1>2, Requeued
  <1>9. PICK m \in Nat : m = Len(saves')
    BY <1>1, <1>2, <1>6, <1>7, <1>8
  <1>10. /\ saves' \in Seq(Saving) /\ m \in (n - 1)..n
         /\ \A i \in 1..n - 1 : saves'[i] = saves[i + 1]
         /\ a.todo # {} => m = n /\ saves'[n] = a
         /\ a.todo = {} => m = n - 1
    <2>1. CASE a.todo # {}
      <3>1. saves' = Append(Tail(saves), a)
        BY <1>6, <1>7, <2>1
      <3>2. m = n
        BY <1>8, <1>9, <3>1
      <3> QED
        BY <1>2, <1>8, <2>1, <3>1, <3>2
    <2>2. CASE a.todo = {}
      <3>1. saves' = Tail(saves)
        BY <1>6, <1>7, <2>2
      <3>2. m = n - 1
        BY <1>8, <1>9, <3>1
      <3> QED
        BY <1>2, <1>8, <2>2, <3>1, <3>2
    <2> QED
      BY <2>1, <2>2
  <1>11. Contents(formKind)' = Contents(formKind)
    BY DEF Contents
  <1>12. refreshing' \in BOOLEAN
    <2>1. CASE after.todo # {}
      BY <1>6, <2>1 DEF EditInv, EditTypeOK
    <2>2. CASE after.todo = {}
      BY <1>6, <2>2, Zenon
    <2> QED
      BY <2>1, <2>2
  <1>13. EditTypeOK'
    BY <1>2, <1>9, <1>10, <1>11, <1>12 DEF EditInv, EditTypeOK
  <1>14. a.todo # {} => SaveFits(a)
    <2> SUFFICES ASSUME a.todo # {} PROVE SaveFits(a)
      OBVIOUS
    <2>1. \A x \in a.todo, u \in a.targets : x <= u => u \in a.todo
      <3> SUFFICES ASSUME NEW x \in a.todo, NEW u \in a.targets, x <= u PROVE u \in a.todo
        OBVIOUS
      <3>1. u \in s.todo /\ x \in s.todo /\ x # t /\ t <= x
        BY <1>3, <1>4, <1>5, <1>7 DEF SaveFits
      <3>2. u # t
        <4>1. x \in Nat /\ t \in Nat
          BY <1>4, <3>1, <1>2, FormsAssumption DEF Saving
        <4> QED
          BY <3>1, <4>1
      <3> QED
        BY <1>5, <1>7, <3>1, <3>2
    <2> QED
      BY <1>3, <1>5, <1>7, <2>1 DEF SaveFits
  <1>15. SavesFit'
    <2>1. \A k \in 1..m : SaveFits(saves'[k])
      <3> SUFFICES ASSUME NEW k \in 1..m PROVE SaveFits(saves'[k])
        OBVIOUS
      <3>1. CASE k \in 1..n - 1
        BY <1>3, <1>10, <3>1
      <3>2. CASE k \notin 1..n - 1
        <4>1. k = n /\ m = n /\ a.todo # {}
          BY <1>10, <3>2
        <4> QED
          BY <1>10, <1>14, <4>1
      <3> QED
        BY <3>1, <3>2
    <2> QED
      BY <1>9, <1>11, <2>1 DEF SavesFit, SaveFits
  <1>16. SavesInOrder'
    <2> SUFFICES ASSUME ~crossed PROVE SavesInOrder'
      BY DEF SavesInOrder
    <2>1. /\ \A j, k \in 1..n : saves[j].targets = saves[k].targets
          /\ \E k \in 1..n : Last(k)
      BY <1>1 DEF EditInv, SavesInOrder
    <2>2. PICK l \in 1..n : Last(l)
      BY <2>1
    <2>3. /\ \A j \in 1..n : j # l => saves[j].todo \subseteq saves[l].todo /\ (saves[j].todo = saves[l].todo => j < l)
          /\ \A u \in saves[l].targets : meant[u] = saves[l].value
          /\ \A u \in Forms \ unwritten : u \notin saves[l].todo => storedValues[u] = meant[u]
      BY <1>1, <2>2 DEF Last
    <2>4. \A i \in 1..m : saves'[i].targets = s.targets
      <3> SUFFICES ASSUME NEW i \in 1..m PROVE saves'[i].targets = s.targets
        OBVIOUS
      <3>1. CASE i \in 1..n - 1
        BY <1>2, <1>10, <2>1, <3>1, SMTT(30)
      <3>2. CASE i \notin 1..n - 1
        BY <1>5, <1>7, <1>10, <3>2
      <3> QED
        BY <3>1, <3>2
    <2>5. CASE l = 1
      <3>1. \A u \in Forms \ unwritten' : u \notin a.todo => storedValues'[u] = meant[u]
        <4> SUFFICES ASSUME NEW u \in Forms \ unwritten', u \notin a.todo PROVE storedValues'[u] = meant[u]
          OBVIOUS
        <4>1. CASE u = t
          BY <1>2, <1>3, <1>4, <2>3, <2>5, <4>1 DEF SaveFits
        <4>2. CASE u # t
          BY <1>2, <1>5, <1>7, <2>3, <2>5, <4>2
        <4> QED
          BY <4>1, <4>2
      <3>2. \A j \in 2..n : saves[j].todo \subseteq a.todo
        <4> SUFFICES ASSUME NEW j \in 2..n PROVE saves[j].todo \subseteq a.todo
          OBVIOUS
        <4>1. j \in 1..n /\ saves[j].todo \subseteq s.todo /\ saves[j].todo # s.todo
          BY <1>2, <2>3, <2>5
        <4>2. SaveFits(saves[j]) /\ saves[j].targets = s.targets /\ s.targets \subseteq Forms
          BY <1>2, <1>3, <2>1, <4>1 DEF Saving
        <4> QED
          BY <1>3, <1>5, <1>7, <4>1, <4>2, AfterFirst
      <3>3. CASE a.todo # {}
        <4>1. m = n /\ saves'[n] = a
          BY <1>10, <3>3
        <4>2. \A j \in 1..m : j # n => saves'[j].todo \subseteq saves'[n].todo /\ j < n
          BY <1>10, <3>2, <4>1
        <4>3. \A u \in saves'[n].targets : meant[u] = saves'[n].value
          BY <1>2, <1>5, <1>7, <2>3, <2>5, <4>1
        <4>4. Last(n)'
          BY <1>2, <1>9, <3>1, <4>1, <4>2, <4>3 DEF Last
        <4>5. saves' # << >> /\ n \in 1..m
          <5>1. n > 0 /\ Len(saves') = n
            BY <1>2, <1>9, <4>1
          <5>2. Len(<< >>) = 0
            OBVIOUS
          <5>3. saves' # << >>
            BY <5>1, <5>2
          <5> QED
            BY <4>1, <5>1, <5>3
        <4> QED
          BY <1>9, <2>4, <4>4, <4>5 DEF SavesInOrder, NewestSaveHolds
      <3>4. CASE a.todo = {}
        <4>1. n = 1
          <5> SUFFICES ASSUME n # 1 PROVE FALSE
            OBVIOUS
          <5>1. 2 \in 2..n /\ 2 \in 1..n
            BY <1>2
          <5> QED
            BY <1>3, <3>2, <3>4, <5>1 DEF SaveFits
        <4>2. m = 0 /\ saves' = << >>
          BY <1>9, <1>10, <3>4, <4>1
        <4> QED
          BY <1>9, <3>1, <3>4, <4>2 DEF SavesInOrder, NewestSaveHolds
      <3> QED
        BY <3>3, <3>4
    <2>6. CASE l # 1
      <3>1. PICK p \in Nat : p = l - 1
        BY <2>6
      <3>2. p \in 1..n - 1 /\ l = p + 1 /\ p \in 1..m /\ saves'[p] = saves[l]
        BY <1>10, <2>6, <3>1
      <3>3. t \in saves[l].todo /\ a.todo \subseteq saves[l].todo /\ a.todo # saves[l].todo
        BY <1>2, <1>4, <1>5, <1>7, <2>3, <2>6
      <3>4. \A j \in 1..m : j # p => saves'[j].todo \subseteq saves'[p].todo /\ (saves'[j].todo = saves'[p].todo => j < p)
        <4> SUFFICES ASSUME NEW j \in 1..m, j # p
                     PROVE  saves'[j].todo \subseteq saves'[p].todo /\ (saves'[j].todo = saves'[p].todo => j < p)
          OBVIOUS
        <4>1. CASE j \in 1..n - 1
          <5>1. saves'[j] = saves[j + 1] /\ j + 1 \in 1..n /\ j + 1 # l
            BY <1>10, <3>2, <4>1
          <5>2. saves[j + 1].todo \subseteq saves[l].todo /\ (saves[j + 1].todo = saves[l].todo => j + 1 < l)
            BY <2>3, <5>1
          <5> QED
            BY <3>2, <4>1, <5>1, <5>2
        <4>2. CASE j \notin 1..n - 1
          <5>1. saves'[j] = a
            BY <1>10, <4>2
          <5> QED
            BY <3>2, <3>3, <5>1
        <4> QED
          BY <4>1, <4>2
      <3>5. \A u \in saves'[p].targets : meant[u] = saves'[p].value
        BY <2>3, <3>2
      <3>6. \A u \in Forms \ unwritten' : u \notin saves'[p].todo => storedValues'[u] = meant[u]
        BY <2>3, <3>2, <3>3
      <3>7. Last(p)'
        BY <1>9, <3>2, <3>4, <3>5, <3>6 DEF Last
      <3>8. saves' # << >> /\ p \in 1..Len(saves')
        BY <1>9, <1>10, <3>2
      <3> QED
        BY <1>9, <2>4, <3>7, <3>8 DEF SavesInOrder, NewestSaveHolds
    <2> QED
      BY <2>5, <2>6
  <1>17. form' # None => form'.targets # {}
    BY DEF EditInv
  <1> QED
    BY <1>13, <1>15, <1>16, <1>17 DEF EditInv

LEMMA WriteInv ==
  ASSUME EditInv, WriteTarget \/ WriteTargetFails
  PROVE  EditInv'
  <1>1. PICK s : s = Head(saves)
    OBVIOUS
  <1>2. PICK t : t = FirstOfTargets(s.todo)
    OBVIOUS
  <1>3. saves # << >> /\ saves \in Seq(Saving) /\ Len(saves) \in Nat
    <2>1. saves \in Seq(Saving)
      BY DEF EditInv, EditTypeOK
    <2>2. saves # << >>
      BY DEF WriteTarget, WriteTargetFails
    <2> QED
      BY <2>1, <2>2
  <1>4. s \in Saving /\ SaveFits(s)
    <2>1. s = saves[1] /\ 1 \in 1..Len(saves)
      BY <1>1, <1>3
    <2> QED
      BY <1>3, <2>1 DEF EditInv, SavesFit
  <1>5. t \in Forms
    BY <1>2, <1>4, FirstTarget DEF Saving, SaveFits
  <1>6. storedValues \in [Forms -> Contents(formKind)] /\ unwritten \subseteq Forms
        /\ s.value \in Contents(formKind)
    BY <1>4 DEF EditInv, EditTypeOK, SaveFits
  <1>7. CASE WriteTarget
    <2>1. /\ storedValues' = [storedValues EXCEPT ![t] = s.value] /\ unwritten' = unwritten \ {t}
          /\ Goes(s, t, TRUE) /\ UNCHANGED <<formKind, form, edit, meant, crossed>>
      BY <1>1, <1>2, <1>7 DEF WriteTarget, ValueOf
    <2>2. /\ storedValues' \in [Forms -> Contents(formKind)] /\ unwritten' \subseteq Forms
          /\ \A u \in Forms \ {t} : storedValues'[u] = storedValues[u] /\ (u \in unwritten' <=> u \in unwritten)
          /\ storedValues'[t] = s.value
      BY <1>5, <1>6, <2>1
    <2> QED
      BY <1>1, <1>2, <1>3, <2>1, <2>2, AnsweredInv
  <1>8. CASE WriteTargetFails
    <2>1. /\ storedValues' = storedValues /\ unwritten' = unwritten \cup {t}
          /\ Goes(s, t, FALSE) /\ UNCHANGED <<formKind, form, edit, meant, crossed>>
      BY <1>1, <1>2, <1>8 DEF WriteTargetFails
    <2>2. /\ storedValues' \in [Forms -> Contents(formKind)] /\ unwritten' \subseteq Forms
          /\ \A u \in Forms \ {t} : storedValues'[u] = storedValues[u] /\ (u \in unwritten' <=> u \in unwritten)
          /\ t \in unwritten'
      BY <1>5, <1>6, <2>1
    <2> QED
      BY <1>1, <1>2, <1>3, <2>1, <2>2, AnsweredInv
  <1> QED
    BY <1>7, <1>8

LEMMA EditNextInv == EditInv /\ [EditNext]_editVars => EditInv'
  <1> SUFFICES ASSUME EditInv, [EditNext]_editVars PROVE EditInv'
    OBVIOUS
  <1>0. edit \in Contents(formKind) /\ refreshing \in BOOLEAN
    BY DEF EditInv, EditTypeOK
  <1>1. CASE UNCHANGED editVars
    BY <1>0, <1>1, FormInv DEF editVars, writeVars
  <1>2. ASSUME NEW targets \in (SUBSET Forms) \ {{}}, NEW v \in Contents(formKind), OpenForm(targets, v)
        PROVE  EditInv'
    <2>1. form' \in [targets : SUBSET Forms, original : Contents(formKind)] /\ form'.targets # {}
      BY <1>2 DEF OpenForm
    <2>2. edit' \in Contents(formKind) /\ refreshing' \in BOOLEAN
          /\ UNCHANGED <<formKind, writeVars, meant, crossed>>
      BY <1>0, <1>2 DEF OpenForm
    <2> QED
      BY <2>1, <2>2, FormInv
  <1>3. CASE CloseForm
    BY <1>0, <1>3, FormInv DEF CloseForm
  <1>4. ASSUME NEW v \in Contents(formKind), EditField(v) PROVE EditInv'
    BY <1>0, <1>4, FormInv DEF EditField
  <1>5. CASE HandleSampleTypeSelect
    <2>1. edit' \in Contents(formKind)
      BY <1>0, <1>5 DEF HandleSampleTypeSelect, Contents
    <2> QED
      BY <1>0, <1>5, <2>1, FormInv DEF HandleSampleTypeSelect
  <1>6. CASE \E known \in BOOLEAN : HandleSave(known)
    BY <1>6, SavedInv
  <1>7. CASE WriteTarget \/ WriteTargetFails
    BY <1>7, WriteInv
  <1>8. CASE ListRefreshed
    BY <1>0, <1>8, FormInv DEF ListRefreshed
  <1>9. CASE RefreshFails
    BY <1>0, <1>9, FormInv DEF RefreshFails
  <1> QED
    BY <1>1, <1>2, <1>3, <1>4, <1>5, <1>6, <1>7, <1>8, <1>9 DEF EditNext, EditUser, EditReturn

LEMMA EditKept == EditInv => EditTypeOK /\ NewestSaveHolds
  BY DEF EditInv, SavesInOrder, NewestSaveHolds

\* Each sample holds what the newest save that was clicked for it meant, for every
\* selection, as far as its writes succeed and saves of other targets do not cross.
THEOREM EditInvariant == EditSpec => []EditInv
  BY EditInitInv, EditNextInv, PTL DEF EditSpec

-----------------------------------------------------------------------------
(***************************************************************************)
(* The tag dialog.  A row that is not stale tells the tag also while calls *)
(* are under way, since a save changes the file and the row in one step.   *)
(***************************************************************************)

TagCall ==
  [op : {"set"}, targets : SUBSET MidiFiles, tag : TagIds \cup {None},
   name : TagTexts \cup {None}, current : BOOLEAN]
    \cup [op : {"rename"}, tag : TagIds, name : TagTexts]
    \cup [op : {"delete"}, tag : TagIds]
    \cup [op : {"list", "tags"}]

\* The tags of the database have different names, and the files have tags of it.
TablesFit ==
  /\ \A t, u \in DOMAIN dbTags : dbTags[t] = dbTags[u] => t = u
  /\ \A m \in MidiFiles : fileTags[m] \in DOMAIN dbTags \cup {None}

\* A row that is not stale tells the tag, whatever is under way.
RowsTell == \A m \in MidiFiles \ staleRows : rowTags[m] = NameIn(dbTags, fileTags[m])

\* A save that was sent with the tags of the database is served with them.
CurrentSave(k) ==
  tagCalls[k].op = "set" /\ tagCalls[k].current =>
    /\ tagCalls[k].name = NameIn(dbTags, tagCalls[k].tag)
    /\ \A j \in 1..k : tagCalls[j].op = "set"

\* Beside a dialog that opened when nothing was under way, rows are searched, and
\* nothing is written.
DialogFits ==
  tagEdit # None /\ tagEdit.quiet =>
    /\ \A k \in 1..Len(tagCalls) : tagCalls[k].op = "list"
    /\ tagEdit.untouched => tagEdit.selected = fileTags[tagEdit.midi]

CallsFit ==
  /\ tagCalls \in Seq(TagCall) /\ Len(tagCalls) <= MaxCalls
  /\ \A k \in 1..Len(tagCalls) : CurrentSave(k)

TagEditInv ==
  /\ TagEditTypeOK
  /\ TablesFit
  /\ RowsTell
  /\ CallsFit
  /\ DialogFits

LEMMA InPartial ==
  \A f : f \in Partial <=> /\ DOMAIN f \subseteq TagIds /\ f = [t \in DOMAIN f |-> f[t]]
                           /\ \A t \in DOMAIN f : f[t] \in TagTexts
  <1> TAKE f
  <1>1. f \in Partial <=> \E ids \in SUBSET TagIds : f \in [ids -> TagTexts]
    BY DEF Partial
  <1>2. ASSUME NEW ids \in SUBSET TagIds, f \in [ids -> TagTexts]
        PROVE  /\ DOMAIN f \subseteq TagIds /\ f = [t \in DOMAIN f |-> f[t]]
               /\ \A t \in DOMAIN f : f[t] \in TagTexts
    BY <1>2
  <1>3. ASSUME DOMAIN f \subseteq TagIds, f = [t \in DOMAIN f |-> f[t]],
               \A t \in DOMAIN f : f[t] \in TagTexts
        PROVE  \E ids \in SUBSET TagIds : f \in [ids -> TagTexts]
    <2>1. f \in [DOMAIN f -> TagTexts]
      BY <1>3
    <2> QED
      BY <1>3, <2>1
  <1> QED
    BY <1>1, <1>2, <1>3

LEMMA NamedFacts ==
  ASSUME NEW table \in Partial
  PROVE  /\ \A t \in TagIds \cup {None} : NameIn(table, t) \in TagTexts \cup {None}
         /\ \A name : Named(table, name) \subseteq TagIds
  BY InPartial DEF NameIn, Named

LEMMA IdOfType ==
  ASSUME midiTags \in Partial, NEW name
  PROVE  IdOf(name) \in TagIds \cup {None}
  <1>1. Named(midiTags, name) \subseteq TagIds
    BY NamedFacts
  <1> QED
    BY <1>1 DEF IdOf

LEMMA TagEditInitInv == TagEditInit => TagEditInv
  <1> SUFFICES ASSUME TagEditInit PROVE TagEditInv
    OBVIOUS
  <1>1. dbTags \in Partial /\ DOMAIN dbTags = TagIds
    BY InPartial DEF TagEditInit
  <1>2. tagCalls \in Seq(TagCall) /\ Len(tagCalls) = 0 /\ MaxCalls \in Nat
    BY CallsAssumption DEF TagEditInit
  <1>3. TagEditTypeOK
    BY <1>1, <1>2 DEF TagEditInit, TagEditTypeOK
  <1>4. RowsTell
    BY <1>1, TagAssumption DEF TagEditInit, RowsTell, NameIn
  <1>5. CallsFit /\ DialogFits /\ TablesFit
    BY <1>1, <1>2 DEF TagEditInit, CallsFit, DialogFits, TablesFit
  <1> QED
    BY <1>3, <1>4, <1>5 DEF TagEditInv

\* The dialog opens, closes and is used.
LEMMA TagDialogInv ==
  ASSUME TagEditInv, UNCHANGED <<tableVars, tagRowVars, tagCalls>>,
         tagEdit' = None \/ tagEdit' \in [midi : MidiFiles, targets : SUBSET MidiFiles,
                              selected : TagIds \cup {None}, quiet : BOOLEAN, untouched : BOOLEAN],
         DialogFits'
  PROVE  TagEditInv'
  <1>1. TagEditTypeOK'
    BY DEF TagEditInv, TagEditTypeOK, tableVars, tagRowVars
  <1>2. TablesFit' /\ RowsTell' /\ CallsFit'
    BY DEF TagEditInv, TablesFit, RowsTell, CallsFit, CurrentSave, NameIn, tableVars, tagRowVars
  <1> QED
    BY <1>1, <1>2 DEF TagEditInv

LEMMA TagOpenedInv ==
  ASSUME TagEditInv, NEW m \in MidiFiles, NEW targets \in SUBSET MidiFiles, OpenTagEdit(m, targets)
  PROVE  TagEditInv'
  <1>1. /\ tagEdit' = [midi |-> m, targets |-> targets, selected |-> IdOf(rowTags[m]),
                       quiet |-> TagsCurrent /\ tagCalls = << >> /\ m \notin staleRows,
                       untouched |-> TRUE]
        /\ UNCHANGED <<tableVars, tagRowVars, tagCalls>>
    BY DEF OpenTagEdit
  <1>2. PICK quiet \in BOOLEAN : quiet = (TagsCurrent /\ tagCalls = << >> /\ m \notin staleRows)
    BY Zenon
  <1>3. IdOf(rowTags[m]) \in TagIds \cup {None}
    BY IdOfType DEF TagEditInv, TagEditTypeOK
  <1>4. tagEdit' = [midi |-> m, targets |-> targets, selected |-> IdOf(rowTags[m]),
                    quiet |-> quiet, untouched |-> TRUE]
    BY <1>1, <1>2, Zenon
  <1>5. ASSUME quiet PROVE tagCalls = << >> /\ IdOf(rowTags[m]) = fileTags[m]
    <2>1. midiTags = dbTags /\ tagCalls = << >> /\ m \notin staleRows
      BY <1>2, <1>5, Zenon DEF TagsCurrent
    <2>2. /\ dbTags \in Partial /\ rowTags[m] = NameIn(dbTags, fileTags[m])
          /\ fileTags[m] \in DOMAIN dbTags \cup {None}
          /\ \A t, u \in DOMAIN dbTags : dbTags[t] = dbTags[u] => t = u
      BY <2>1 DEF TagEditInv, TagEditTypeOK, RowsTell, TablesFit
    <2>3. CASE fileTags[m] \in DOMAIN dbTags
      <3>1. rowTags[m] = dbTags[fileTags[m]]
        BY <2>2, <2>3 DEF NameIn
      <3>2. Named(midiTags, rowTags[m]) = {fileTags[m]}
        BY <2>1, <2>2, <2>3, <3>1 DEF Named
      <3> QED
        BY <2>1, <3>2 DEF IdOf
    <2>4. CASE fileTags[m] \notin DOMAIN dbTags
      <3>1. rowTags[m] = None /\ fileTags[m] = None
        BY <2>2, <2>4 DEF NameIn
      <3>2. Named(midiTags, None) = {}
        BY <2>1, <2>2, InPartial, TagAssumption DEF Named
      <3> QED
        BY <2>1, <3>1, <3>2 DEF IdOf
    <2> QED
      BY <2>3, <2>4
  <1>6. DialogFits'
    <2> SUFFICES ASSUME quiet PROVE /\ \A k \in 1..Len(tagCalls) : tagCalls[k].op = "list"
                                    /\ tagEdit'.selected = fileTags[m]
      BY <1>1, <1>4 DEF DialogFits, tagRowVars
    <2> QED
      BY <1>4, <1>5
  <1>7. tagEdit' \in [midi : MidiFiles, targets : SUBSET MidiFiles,
                      selected : TagIds \cup {None}, quiet : BOOLEAN, untouched : BOOLEAN]
    BY <1>3, <1>4
  <1> QED
    BY <1>1, <1>6, <1>7, TagDialogInv

LEMMA TagChosenInv ==
  ASSUME TagEditInv, NEW t \in TagIds \cup {None}, tagEdit # None,
         tagEdit' = [tagEdit EXCEPT !.selected = t, !.untouched = FALSE],
         UNCHANGED <<tableVars, tagRowVars, tagCalls>>
  PROVE  TagEditInv'
  <1>1. tagEdit \in [midi : MidiFiles, targets : SUBSET MidiFiles,
                     selected : TagIds \cup {None}, quiet : BOOLEAN, untouched : BOOLEAN]
    BY DEF TagEditInv, TagEditTypeOK
  <1>2. tagEdit' \in [midi : MidiFiles, targets : SUBSET MidiFiles,
                      selected : TagIds \cup {None}, quiet : BOOLEAN, untouched : BOOLEAN]
        /\ tagEdit'.quiet = tagEdit.quiet /\ ~tagEdit'.untouched
    BY <1>1
  <1>3. DialogFits'
    BY <1>2 DEF TagEditInv, DialogFits
  <1> QED
    BY <1>2, <1>3, TagDialogInv

\* A call is sent: a save from the dialog, the others while it is closed, and a
\* search at any time.
LEMMA TagSentInv ==
  ASSUME TagEditInv, NEW c \in TagCall, SendTagCall(c), UNCHANGED <<tableVars, tagRowVars>>,
         tagEdit' = None \/ (tagEdit' = tagEdit /\ c.op = "list"),
         c.op = "set" /\ c.current => c.name = NameIn(dbTags, c.tag) /\ TagsCurrent
  PROVE  TagEditInv'
  <1>1. tagCalls \in Seq(TagCall)
    BY DEF TagEditInv, CallsFit
  <1>2. PICK n \in Nat : n = Len(tagCalls)
    BY <1>1
  <1>3. /\ tagCalls' \in Seq(TagCall) /\ Len(tagCalls') = n + 1 /\ n < MaxCalls /\ MaxCalls \in Nat
        /\ \A i \in 1..n : tagCalls'[i] = tagCalls[i]
        /\ tagCalls'[n + 1] = c
    BY <1>1, <1>2, CallsAssumption DEF SendTagCall
  <1>4. TagEditTypeOK'
    BY <1>3 DEF TagEditInv, TagEditTypeOK, tableVars, tagRowVars
  <1>5. TablesFit' /\ RowsTell'
    BY DEF TagEditInv, TablesFit, RowsTell, NameIn, tableVars, tagRowVars
  <1>6. ASSUME NEW k \in 1..n + 1 PROVE CurrentSave(k)'
    <2> SUFFICES ASSUME tagCalls'[k].op = "set", tagCalls'[k].current
                 PROVE  /\ tagCalls'[k].name = NameIn(dbTags, tagCalls'[k].tag)
                        /\ \A j \in 1..k : tagCalls'[j].op = "set"
      BY DEF CurrentSave, NameIn, tableVars
    <2>1. CASE k = n + 1
      <3>1. \A j \in 1..n : tagCalls[j].op = "set"
        BY <1>1, <1>2, <1>3, <2>1 DEF TagsCurrent
      <3>2. \A j \in 1..n + 1 : j \in 1..n \/ j = n + 1
        BY <1>3
      <3> QED
        BY <1>3, <2>1, <3>1, <3>2
    <2>2. CASE k # n + 1
      <3>1. k \in 1..n /\ CurrentSave(k) /\ \A j \in 1..k : j \in 1..n
        BY <1>2, <2>2 DEF TagEditInv, CallsFit
      <3> QED
        BY <1>3, <3>1 DEF CurrentSave
    <2> QED
      BY <2>1, <2>2
  <1>7. CallsFit'
    BY <1>3, <1>6 DEF CallsFit
  <1>8. DialogFits'
    <2>1. \A k \in 1..n + 1 : k \in 1..n \/ k = n + 1
      BY <1>3
    <2> QED
      BY <1>2, <1>3, <2>1 DEF TagEditInv, DialogFits, tagRowVars
  <1> QED
    BY <1>4, <1>5, <1>7, <1>8 DEF TagEditInv

\* The first call is answered: it leaves the queue, or a search takes a place at its end.
LEMMA TagCallsLeft ==
  ASSUME TagEditInv, tagCalls # << >>, NEW c, c = Head(tagCalls),
         tagCalls' = Tail(tagCalls)
           \/ \E o \in {"list", "tags"} : tagCalls' = Append(Tail(tagCalls), [op |-> o]),
         \A t \in TagIds \cup {None} : NameIn(dbTags, t)' = NameIn(dbTags, t)
           \/ c.op \in {"rename", "delete"}
  PROVE  CallsFit'
  <1>1. tagCalls \in Seq(TagCall)
    BY DEF TagEditInv, CallsFit
  <1>2. PICK n \in Nat : n = Len(tagCalls)
    BY <1>1
  <1>3. PICK o \in {"list", "tags"} : tagCalls' = Tail(tagCalls) \/ tagCalls' = Append(Tail(tagCalls), [op |-> o])
    OBVIOUS
  <1>4. PICK x \in TagCall : x = [op |-> o]
    BY DEF TagCall
  <1>5. x.op = o
    BY <1>4
  <1>6. /\ n > 0 /\ Tail(tagCalls) \in Seq(TagCall) /\ Len(Tail(tagCalls)) = n - 1
        /\ \A i \in 1..n - 1 : Tail(tagCalls)[i] = tagCalls[i + 1]
        /\ Append(Tail(tagCalls), x) \in Seq(TagCall) /\ Len(Append(Tail(tagCalls), x)) = n
        /\ \A i \in 1..n - 1 : Append(Tail(tagCalls), x)[i] = tagCalls[i + 1]
        /\ Append(Tail(tagCalls), x)[n] = x
        /\ c = tagCalls[1]
    BY <1>1, <1>2, Requeued
  <1>7. PICK p \in (n - 1)..n : p = Len(tagCalls')
    <2>1. Len(tagCalls') = n - 1 \/ Len(tagCalls') = n
      BY <1>3, <1>4, <1>6
    <2> QED
      BY <1>6, <2>1
  <1>8. /\ tagCalls' \in Seq(TagCall)
        /\ \A i \in 1..n - 1 : tagCalls'[i] = tagCalls[i + 1]
        /\ p = n => tagCalls'[n].op # "set"
    <2>1. CASE tagCalls' = Tail(tagCalls)
      BY <1>6, <1>7, <2>1
    <2>2. CASE tagCalls' = Append(Tail(tagCalls), x)
      BY <1>5, <1>6, <2>2
    <2> QED
      BY <1>3, <1>4, <2>1, <2>2
  <1>9. ASSUME NEW k \in 1..p PROVE CurrentSave(k)'
    <2> SUFFICES ASSUME tagCalls'[k].op = "set", tagCalls'[k].current
                 PROVE  CurrentSave(k)'
      BY DEF CurrentSave
    <2>1. k \in 1..n - 1 /\ k + 1 \in 1..n /\ 1 \in 1..k + 1
      BY <1>8
    <2>2. /\ tagCalls'[k].name = NameIn(dbTags, tagCalls'[k].tag)
          /\ \A j \in 1..k + 1 : tagCalls[j].op = "set"
      BY <1>2, <1>8, <2>1 DEF TagEditInv, CallsFit, CurrentSave
    <2>3. tagCalls'[k].tag \in TagIds \cup {None} /\ c.op = "set"
      <3>1. tagCalls'[k] \in TagCall
        BY <1>7, <1>8
      <3> QED
        BY <1>6, <2>1, <2>2, <3>1 DEF TagCall
    <2>4. \A j \in 1..k : tagCalls'[j].op = "set"
      <3>1. \A j \in 1..k : j + 1 \in 1..k + 1 /\ j \in 1..n - 1
        BY <2>1
      <3> QED
        BY <1>8, <2>2, <3>1
    <2>5. PICK t \in TagIds \cup {None} : t = tagCalls'[k].tag
      BY <2>3
    <2>6. NameIn(dbTags, t)' = NameIn(dbTags, t)
      BY <2>3
    <2> QED
      BY <2>2, <2>4, <2>5, <2>6 DEF CurrentSave
  <1>10. p <= MaxCalls
    BY <1>2, <1>6, <1>7, CallsAssumption DEF TagEditInv, CallsFit
  <1> QED
    BY <1>7, <1>8, <1>9, <1>10 DEF CallsFit

\* What is left beside a dialog is searches still.
LEMMA DialogStays ==
  ASSUME TagEditInv, tagCalls # << >>, NEW c, c = Head(tagCalls), UNCHANGED tagEdit,
         c.op = "list" => tagCalls' = Tail(tagCalls) /\ UNCHANGED fileTags
  PROVE  DialogFits'
  <1> SUFFICES ASSUME tagEdit # None, tagEdit.quiet
               PROVE  /\ \A k \in 1..Len(tagCalls') : tagCalls'[k].op = "list"
                      /\ UNCHANGED fileTags
    BY DEF TagEditInv, DialogFits
  <1>1. tagCalls \in Seq(TagCall) /\ \A k \in 1..Len(tagCalls) : tagCalls[k].op = "list"
    BY DEF TagEditInv, CallsFit, DialogFits
  <1>2. PICK n \in Nat : n = Len(tagCalls)
    BY <1>1
  <1>3. PICK x \in TagCall : x = c
    BY <1>1
  <1>4. /\ n > 0 /\ Tail(tagCalls) \in Seq(TagCall) /\ Len(Tail(tagCalls)) = n - 1
        /\ \A i \in 1..n - 1 : Tail(tagCalls)[i] = tagCalls[i + 1]
        /\ c = tagCalls[1]
    BY <1>1, <1>2, <1>3, Requeued
  <1>5. c.op = "list"
    BY <1>1, <1>2, <1>4
  <1>6. tagCalls' = Tail(tagCalls) /\ UNCHANGED fileTags
    BY <1>5
  <1>7. \A k \in 1..n - 1 : k + 1 \in 1..n
    BY <1>4
  <1> QED
    BY <1>1, <1>2, <1>4, <1>6, <1>7

\* The type of the queue follows from what is in it.
LEMMA TagTypes ==
  ASSUME TagEditInv, CallsFit', UNCHANGED tagEdit, dbTags' \in Partial, midiTags' \in Partial,
         fileTags' \in [MidiFiles -> TagIds \cup {None}], rowTags' \in [MidiFiles -> TagTexts \cup {None}],
         staleRows' \subseteq MidiFiles
  PROVE  TagEditTypeOK'
  <1>1. PICK n \in Nat : n = Len(tagCalls')
    BY DEF CallsFit
  <1>2. n <= MaxCalls + 1
    BY <1>1, CallsAssumption DEF CallsFit
  <1> QED
    BY <1>1, <1>2 DEF TagEditInv, TagEditTypeOK

\* The first call, and what it is.
LEMMA FirstCall ==
  ASSUME TagEditInv, tagCalls # << >>
  PROVE  /\ Head(tagCalls) \in TagCall
         /\ Head(tagCalls).op = "set" /\ Head(tagCalls).current =>
              Head(tagCalls).name = NameIn(dbTags, Head(tagCalls).tag)
  <1>1. tagCalls \in Seq(TagCall)
    BY DEF TagEditInv, CallsFit
  <1>2. Head(tagCalls) = tagCalls[1] /\ 1 \in 1..Len(tagCalls)
    BY <1>1
  <1> QED
    BY <1>1, <1>2 DEF TagEditInv, CallsFit, CurrentSave

LEMMA SetTagsInv ==
  ASSUME TagEditInv, NEW denied \in SUBSET MidiFiles, NEW filtered \in BOOLEAN,
         SetMidiTags(denied, filtered)
  PROVE  TagEditInv'
  <1>1. PICK c : c = Head(tagCalls)
    OBVIOUS
  <1> DEFINE gone == c.tag # None /\ c.tag \notin DOMAIN dbTags
             failed == denied # {} \/ gone
  <1>2. /\ tagCalls # << >> /\ c.op = "set" /\ denied \subseteq c.targets
        /\ fileTags' = [m \in MidiFiles |->
                          IF m \in c.targets \ denied THEN IF gone THEN None ELSE c.tag ELSE fileTags[m]]
        /\ IF failed THEN UNCHANGED rowTags ELSE UpdateRows(c)
        /\ staleRows' = IF failed \/ ~c.current THEN staleRows \cup c.targets ELSE staleRows
        /\ tagCalls' = IF filtered /\ ~failed THEN Append(Tail(tagCalls), [op |-> "list"]) ELSE Tail(tagCalls)
        /\ UNCHANGED <<tableVars, tagEdit>>
    BY <1>1 DEF SetMidiTags
  <1>3. c \in TagCall /\ (c.current => c.name = NameIn(dbTags, c.tag))
    BY <1>1, <1>2, FirstCall
  <1>4. c.targets \in SUBSET MidiFiles /\ c.tag \in TagIds \cup {None} /\ c.name \in TagTexts \cup {None}
    BY <1>2, <1>3 DEF TagCall
  <1>5. PICK lost \in BOOLEAN : lost <=> gone
    OBVIOUS
  <1>6. PICK bad \in BOOLEAN : bad <=> failed
    OBVIOUS
  <1>7. /\ fileTags' = [m \in MidiFiles |->
                          IF m \in c.targets \ denied THEN IF lost THEN None ELSE c.tag ELSE fileTags[m]]
        /\ bad => UNCHANGED rowTags
        /\ ~bad => rowTags' = [m \in MidiFiles |-> IF m \in c.targets THEN c.name ELSE rowTags[m]]
        /\ bad \/ ~c.current => staleRows' = staleRows \cup c.targets
        /\ ~bad /\ c.current => staleRows' = staleRows
        /\ ~lost => c.tag \in DOMAIN dbTags \cup {None}
        /\ ~bad => denied = {} /\ ~lost
        /\ tagCalls' = Tail(tagCalls) \/ tagCalls' = Append(Tail(tagCalls), [op |-> "list"])
        /\ UNCHANGED <<dbTags, midiTags, tagEdit>>
    BY <1>2, <1>5, <1>6 DEF UpdateRows, tableVars
  <1> HIDE DEF gone, failed
  <1>8. /\ fileTags \in [MidiFiles -> TagIds \cup {None}] /\ rowTags \in [MidiFiles -> TagTexts \cup {None}]
        /\ staleRows \subseteq MidiFiles /\ dbTags \in Partial /\ midiTags \in Partial
    BY DEF TagEditInv, TagEditTypeOK
  <1>9. CallsFit'
    BY <1>1, <1>2, <1>7, TagCallsLeft DEF NameIn
  <1>10. TagEditTypeOK'
    <2>1. fileTags' \in [MidiFiles -> TagIds \cup {None}]
      BY <1>4, <1>7, <1>8
    <2>2. rowTags' \in [MidiFiles -> TagTexts \cup {None}]
      BY <1>4, <1>7, <1>8
    <2>3. staleRows' \subseteq MidiFiles
      BY <1>4, <1>7, <1>8
    <2> QED
      BY <1>7, <1>8, <1>9, <2>1, <2>2, <2>3, TagTypes
  <1>11. TablesFit'
    BY <1>7 DEF TagEditInv, TablesFit
  <1>12. RowsTell'
    <2> SUFFICES ASSUME NEW m \in MidiFiles \ staleRows' PROVE rowTags'[m] = NameIn(dbTags, fileTags'[m])
      BY <1>7 DEF RowsTell, NameIn
    <2>1. m \notin staleRows
      BY <1>7
    <2>2. rowTags[m] = NameIn(dbTags, fileTags[m])
      BY <2>1 DEF TagEditInv, RowsTell
    <2>3. CASE m \in c.targets
      <3>1. ~bad /\ c.current
        BY <1>7, <2>3
      <3> QED
        BY <1>3, <1>7, <2>3, <3>1
    <2>4. CASE m \notin c.targets
      BY <1>7, <1>8, <2>2, <2>4
    <2> QED
      BY <2>3, <2>4
  <1>13. DialogFits'
    BY <1>1, <1>2, DialogStays
  <1> QED
    BY <1>9, <1>10, <1>11, <1>12, <1>13 DEF TagEditInv

LEMMA ChangeTagsInv ==
  ASSUME TagEditInv, ChangeTags
  PROVE  TagEditInv'
  <1>1. PICK c : c = Head(tagCalls)
    OBVIOUS
  <1>2. /\ tagCalls # << >> /\ c.op \in {"rename", "delete"}
        /\ c.op = "rename" => Named(dbTags, c.name) = {}
        /\ dbTags' = IF c.op = "delete" THEN [t \in DOMAIN dbTags \ {c.tag} |-> dbTags[t]]
                     ELSE [t \in DOMAIN dbTags |-> IF t = c.tag THEN c.name ELSE dbTags[t]]
        /\ fileTags' = [m \in MidiFiles |->
                          IF c.op = "delete" /\ fileTags[m] = c.tag THEN None ELSE fileTags[m]]
        /\ staleRows' = MidiFiles
        /\ tagCalls' = Append(Tail(tagCalls), [op |-> "tags"])
        /\ UNCHANGED <<midiTags, rowTags, tagEdit>>
    BY <1>1 DEF ChangeTags
  <1>3. c \in TagCall /\ (c.op = "rename" => c.name \in TagTexts)
    BY <1>1, <1>2, FirstCall DEF TagCall
  <1>4. /\ fileTags \in [MidiFiles -> TagIds \cup {None}] /\ rowTags \in [MidiFiles -> TagTexts \cup {None}]
        /\ dbTags \in Partial /\ midiTags \in Partial
    BY DEF TagEditInv, TagEditTypeOK
  <1>5. DOMAIN dbTags \subseteq TagIds /\ \A t \in DOMAIN dbTags : dbTags[t] \in TagTexts
    BY <1>4, InPartial
  <1>6. CallsFit'
    BY <1>1, <1>2, TagCallsLeft
  <1>7. dbTags' \in Partial
    <2>1. CASE c.op = "delete"
      BY <1>2, <1>5, <2>1, InPartial
    <2>2. CASE c.op = "rename"
      BY <1>2, <1>3, <1>5, <2>2, InPartial
    <2> QED
      BY <1>2, <2>1, <2>2
  <1>8. TagEditTypeOK'
    BY <1>2, <1>4, <1>6, <1>7, TagTypes
  <1>9. TablesFit'
    <2>1. CASE c.op = "delete"
      BY <1>2, <2>1 DEF TagEditInv, TablesFit
    <2>2. CASE c.op = "rename"
      <3>1. \A t \in DOMAIN dbTags : dbTags[t] # c.name
        BY <1>2, <2>2 DEF Named
      <3> QED
        BY <1>2, <2>2, <3>1 DEF TagEditInv, TablesFit
    <2> QED
      BY <1>2, <2>1, <2>2
  <1>10. RowsTell'
    BY <1>2 DEF RowsTell
  <1>11. DialogFits'
    BY <1>1, <1>2, DialogStays
  <1> QED
    BY <1>6, <1>8, <1>9, <1>10, <1>11 DEF TagEditInv

\* Tags and rows come back, or a call fails.
LEMMA TagReturnInv ==
  ASSUME TagEditInv, TagsReturned \/ RowsReturned \/ TagCallFails
  PROVE  TagEditInv'
  <1>1. /\ tagCalls # << >> /\ tagCalls' = Tail(tagCalls)
        /\ UNCHANGED <<dbTags, fileTags, tagEdit>>
        /\ midiTags' \in {midiTags, dbTags}
        /\ \/ UNCHANGED <<rowTags, staleRows>>
           \/ rowTags' = [m \in MidiFiles |-> NameIn(dbTags, fileTags[m])] /\ staleRows' = {}
    BY DEF TagsReturned, RowsReturned, TagCallFails, tableVars, tagRowVars
  <1>2. /\ fileTags \in [MidiFiles -> TagIds \cup {None}] /\ rowTags \in [MidiFiles -> TagTexts \cup {None}]
        /\ dbTags \in Partial /\ midiTags \in Partial /\ staleRows \subseteq MidiFiles
    BY DEF TagEditInv, TagEditTypeOK
  <1>3. CallsFit'
    BY <1>1, TagCallsLeft DEF NameIn
  <1>4. rowTags' \in [MidiFiles -> TagTexts \cup {None}]
    <2>1. \A m \in MidiFiles : NameIn(dbTags, fileTags[m]) \in TagTexts \cup {None}
      BY <1>2, NamedFacts
    <2> QED
      BY <1>1, <1>2, <2>1
  <1>5. TagEditTypeOK'
    BY <1>1, <1>2, <1>3, <1>4, TagTypes
  <1>6. TablesFit'
    BY <1>1 DEF TagEditInv, TablesFit
  <1>7. RowsTell'
    BY <1>1, <1>2 DEF TagEditInv, RowsTell, NameIn
  <1>8. DialogFits'
    BY <1>1, DialogStays
  <1> QED
    BY <1>3, <1>5, <1>6, <1>7, <1>8 DEF TagEditInv

LEMMA TagUserInv ==
  ASSUME TagEditInv, TagEditUser
  PROVE  TagEditInv'
  <1>1. ASSUME NEW m \in MidiFiles, NEW targets \in SUBSET MidiFiles, OpenTagEdit(m, targets)
        PROVE  TagEditInv'
    BY <1>1, TagOpenedInv
  <1>2. CASE CloseTagEdit
    <2>1. DialogFits'
      BY <1>2 DEF CloseTagEdit, DialogFits
    <2> QED
      BY <1>2, <2>1, TagDialogInv DEF CloseTagEdit
  <1>3. CASE SaveTagEdit
    <2>1. /\ tagEdit # None /\ tagEdit' = None /\ UNCHANGED <<tableVars, tagRowVars>>
          /\ SendTagCall([op |-> "set", targets |-> tagEdit.targets, tag |-> tagEdit.selected,
                          name |-> NameIn(midiTags, tagEdit.selected), current |-> TagsCurrent])
      BY <1>3 DEF SaveTagEdit
    <2>2. tagEdit.targets \in SUBSET MidiFiles /\ tagEdit.selected \in TagIds \cup {None}
          /\ midiTags \in Partial
      BY <2>1 DEF TagEditInv, TagEditTypeOK
    <2>3. NameIn(midiTags, tagEdit.selected) \in TagTexts \cup {None}
      BY <2>2, NamedFacts
    <2>4. PICK current \in BOOLEAN : current = TagsCurrent
      BY Zenon DEF TagsCurrent
    <2>5. PICK c : c = [op |-> "set", targets |-> tagEdit.targets, tag |-> tagEdit.selected,
                        name |-> NameIn(midiTags, tagEdit.selected), current |-> current]
      OBVIOUS
    <2>6. SendTagCall(c)
      BY <2>1, <2>4, <2>5, Zenon
    <2>7. c \in TagCall
      BY <2>2, <2>3, <2>5 DEF TagCall
    <2>8. c.op = "set" /\ c.current => c.name = NameIn(dbTags, c.tag) /\ TagsCurrent
      <3>1. c.current => TagsCurrent
        BY <2>4, <2>5
      <3>2. TagsCurrent => midiTags = dbTags
        BY DEF TagsCurrent
      <3>3. c.name = NameIn(midiTags, c.tag)
        BY <2>5
      <3> QED
        BY <3>1, <3>2, <3>3
    <2> QED
      BY <2>1, <2>6, <2>7, <2>8, TagSentInv
  <1>4. CASE SearchRows
    <2>1. PICK c \in TagCall : c = [op |-> "list"]
      BY DEF TagCall
    <2>2. SendTagCall(c) /\ c.op = "list" /\ UNCHANGED <<tableVars, tagRowVars, tagEdit>>
      BY <1>4, <2>1 DEF SearchRows
    <2> QED
      BY <2>2, TagSentInv
  <1>5. ASSUME NEW t \in TagIds, HandleTagClick(t) PROVE TagEditInv'
    <2>1. PICK u : u = IF tagEdit.selected = t THEN None ELSE t
      OBVIOUS
    <2>2. u \in TagIds \cup {None} /\ tagEdit # None
          /\ tagEdit' = [tagEdit EXCEPT !.selected = u, !.untouched = FALSE]
          /\ UNCHANGED <<tableVars, tagRowVars, tagCalls>>
      BY <1>5, <2>1 DEF HandleTagClick
    <2> QED
      BY <2>2, TagChosenInv
  <1>6. ASSUME NEW t \in TagIds, DeleteTag(t) PROVE TagEditInv'
    <2>1. PICK c : c = [op |-> "delete", tag |-> t]
      OBVIOUS
    <2>2. /\ c \in TagCall /\ c.op = "delete" /\ SendTagCall(c)
          /\ tagEdit = None /\ UNCHANGED <<tableVars, tagRowVars, tagEdit>>
      BY <1>6, <2>1 DEF DeleteTag, TagCall
    <2> QED
      BY <2>2, TagSentInv
  <1>7. ASSUME NEW name \in TagTexts, ApplyCustom(name) PROVE TagEditInv'
    <2>1. PICK u : u = IdOf(name)
      OBVIOUS
    <2>2. u \in TagIds \cup {None}
      BY <2>1, IdOfType DEF TagEditInv, TagEditTypeOK
    <2>3. tagEdit # None /\ tagEdit' = [tagEdit EXCEPT !.selected = u, !.untouched = FALSE]
          /\ UNCHANGED <<tableVars, tagRowVars, tagCalls>>
      BY <1>7, <2>1 DEF ApplyCustom
    <2> QED
      BY <2>2, <2>3, TagChosenInv
  <1>8. ASSUME NEW name \in TagTexts, NEW t \in TagIds, RenameTag(t, name) PROVE TagEditInv'
    <2>1. PICK c : c = [op |-> "rename", tag |-> t, name |-> name]
      OBVIOUS
    <2>2. /\ c \in TagCall /\ c.op = "rename" /\ SendTagCall(c)
          /\ tagEdit = None /\ UNCHANGED <<tableVars, tagRowVars, tagEdit>>
      BY <1>8, <2>1 DEF RenameTag, TagCall
    <2> QED
      BY <2>2, TagSentInv
  <1> QED
    BY <1>1, <1>2, <1>3, <1>4, <1>5, <1>6, <1>7, <1>8 DEF TagEditUser

LEMMA TagEditNextInv == TagEditInv /\ [TagEditNext]_tagEditVars => TagEditInv'
  <1> SUFFICES ASSUME TagEditInv, [TagEditNext]_tagEditVars PROVE TagEditInv'
    OBVIOUS
  <1>1. CASE TagEditUser
    BY <1>1, TagUserInv
  <1>2. ASSUME NEW denied \in SUBSET MidiFiles, NEW filtered \in BOOLEAN, SetMidiTags(denied, filtered)
        PROVE  TagEditInv'
    BY <1>2, SetTagsInv
  <1>3. CASE ChangeTags
    BY <1>3, ChangeTagsInv
  <1>4. CASE TagsReturned \/ RowsReturned \/ TagCallFails
    BY <1>4, TagReturnInv
  <1>5. CASE UNCHANGED tagEditVars
    <2>1. TagEditTypeOK'
      BY <1>5 DEF TagEditInv, TagEditTypeOK, tagEditVars, tableVars, tagRowVars
    <2>2. TablesFit' /\ RowsTell' /\ CallsFit' /\ DialogFits'
      BY <1>5 DEF TagEditInv, TablesFit, RowsTell, CallsFit, CurrentSave, DialogFits, NameIn,
                  tagEditVars, tableVars, tagRowVars
    <2> QED
      BY <2>1, <2>2 DEF TagEditInv
  <1> QED
    BY <1>1, <1>2, <1>3, <1>4, <1>5 DEF TagEditNext, TagEditReturn

LEMMA TagEditKept == TagEditInv => TagEditTypeOK /\ RowsTellTags /\ DialogKeepsTag
  BY DEF TagEditInv, RowsTell, RowsTellTags, DialogFits, DialogKeepsTag

\* Rows and files agree about their tags, also while saves, renames and searches are
\* under way, for every set of files and tags.
THEOREM TagEditInvariant == TagEditSpec => []TagEditInv
  BY TagEditInitInv, TagEditNextInv, PTL DEF TagEditSpec

-----------------------------------------------------------------------------
(***************************************************************************)
(* The label managers. A list that differs from the table will be asked for*)
(* again, unless the last refresh failed; so once all is answered it is the*)
(* table.                                                                  *)
(***************************************************************************)

\* A list that differs from the table will be asked for, unless the last refresh failed.
RefreshComes == unheard \/ offeredLabels = labels
                  \/ \E k \in DOMAIN labelCalls : labelCalls[k].op = "get"

\* What is sent has the name and the id that its command needs.
CallFits(c) == /\ c.op \in {"add", "update"} => c.name \in LabelNames
               /\ c.op \in {"update", "delete"} => c.id \in LabelIds

LabelsInv ==
  /\ LabelsTypeOK
  /\ \A k \in DOMAIN labelCalls : CallFits(labelCalls[k])
  /\ RefreshComes

LEMMA TableFacts ==
  ASSUME NEW t \in Tables
  PROVE  DOMAIN t \subseteq LabelIds /\ \A id \in DOMAIN t : t[id] \in LabelNames
  BY DEF Tables

LEMMA LabelsInitInv == LabelsInit => LabelsInv
  <1> SUFFICES ASSUME LabelsInit PROVE LabelsInv
    OBVIOUS
  <1>1. labels \in Tables /\ offeredLabels \in Tables
    <2>1. (CHOOSE name \in DefaultNames : TRUE) \in LabelNames
      BY LabelsAssumption
    <2>2. 1..1 \in SUBSET LabelIds /\ labels \in [1..1 -> LabelNames]
      BY <2>1, LabelsAssumption DEF LabelsInit, LabelIds
    <2>3. offeredLabels \in [{} -> LabelNames]
      BY DEF LabelsInit
    <2> QED
      BY <2>2, <2>3 DEF Tables
  <1>2. labelCalls \in Seq(LabelCall) /\ \A k \in DOMAIN labelCalls : CallFits(labelCalls[k])
    <2> DEFINE c == Call("get", None, None)
    <2>1. c \in LabelCall /\ CallFits(c)
      BY DEF Call, LabelCall, CallFits
    <2>2. labelCalls = << >> \/ labelCalls = <<c>>
      BY DEF LabelsInit
    <2> HIDE DEF c
    <2>3. CASE labelCalls = << >>
      BY <2>3
    <2>4. CASE labelCalls = <<c>>
      <3>1. <<c>> \in Seq(LabelCall) /\ \A k \in DOMAIN <<c>> : k = 1
        BY <2>1
      <3> QED
        BY <2>1, <2>4, <3>1
    <2> QED
      BY <2>2, <2>3, <2>4
  <1>3. RefreshComes
    <2>1. CASE manager = "types"
      <3>1. labelCalls = <<Call("get", None, None)>>
        BY <2>1 DEF LabelsInit
      <3>2. 1 \in DOMAIN labelCalls /\ labelCalls[1].op = "get"
        BY <3>1 DEF Call
      <3> QED
        BY <3>2 DEF RefreshComes
    <2>2. CASE manager = "tags"
      BY <2>2 DEF LabelsInit, RefreshComes
    <2> QED
      BY <2>1, <2>2 DEF LabelsInit
  <1>4. unheard \in BOOLEAN
    <2>1. unheard = (manager = "tags")
      BY DEF LabelsInit
    <2> QED
      BY <2>1, Zenon
  <1> QED
    BY <1>1, <1>2, <1>3, <1>4 DEF LabelsInit, LabelsInv, LabelsTypeOK

\* The table, the list and the calls stay; or one more command is sent.
LEMMA DialogInv ==
  ASSUME LabelsInv, UNCHANGED <<manager, labels, offeredLabels, unheard>>,
         managerOpen' \in BOOLEAN, refused' \in BOOLEAN, editing' \in LabelIds \cup {None},
         \/ UNCHANGED labelCalls
         \/ \E c \in LabelCall : CallFits(c) /\ labelCalls' = Append(labelCalls, c)
  PROVE  LabelsInv'
  <1>1. CASE UNCHANGED labelCalls
    BY <1>1 DEF LabelsInv, LabelsTypeOK, RefreshComes
  <1>2. ASSUME NEW c \in LabelCall, CallFits(c), labelCalls' = Append(labelCalls, c)
        PROVE  LabelsInv'
    <2>1. labelCalls \in Seq(LabelCall)
      BY DEF LabelsInv, LabelsTypeOK
    <2>2. labelCalls' \in Seq(LabelCall)
      BY <1>2, <2>1
    <2>3. \A k \in DOMAIN labelCalls : k \in DOMAIN labelCalls' /\ labelCalls'[k] = labelCalls[k]
      BY <1>2, <2>1
    <2>4. \A k \in DOMAIN labelCalls' : k \in DOMAIN labelCalls \/ labelCalls'[k] = c
      BY <1>2, <2>1
    <2>5. \A k \in DOMAIN labelCalls' : CallFits(labelCalls'[k])
      BY <1>2, <2>3, <2>4 DEF LabelsInv
    <2>6. RefreshComes'
      BY <2>3 DEF LabelsInv, RefreshComes
    <2> QED
      BY <2>2, <2>5, <2>6 DEF LabelsInv, LabelsTypeOK
  <1> QED
    BY <1>1, <1>2

LEMMA RefusalIsBoolean ==
  ASSUME NEW name, NEW id, refused' = Refuses(name, id)
  PROVE  refused' \in BOOLEAN
  BY Zenon DEF Refuses

LEMMA AddInv ==
  ASSUME LabelsInv, NEW name \in LabelNames \cup {None}, AddLabel(name)
  PROVE  LabelsInv'
  <1>1. UNCHANGED <<manager, labels, offeredLabels, managerOpen, editing, unheard>>
        /\ refused' = Refuses(name, None)
    BY DEF AddLabel
  <1>2. refused' \in BOOLEAN
    BY <1>1, RefusalIsBoolean
  <1>3. CASE Refuses(name, None)
    BY <1>1, <1>2, <1>3, DialogInv DEF AddLabel, LabelsInv, LabelsTypeOK
  <1>4. CASE ~Refuses(name, None)
    <2> DEFINE c == Call("add", None, name)
    <2>1. c \in LabelCall /\ CallFits(c)
      BY <1>4 DEF Call, LabelCall, CallFits, Refuses
    <2>2. labelCalls' = Append(labelCalls, c)
      BY <1>4 DEF AddLabel, Send
    <2> HIDE DEF c
    <2> QED
      BY <1>1, <1>2, <2>1, <2>2, DialogInv DEF LabelsInv, LabelsTypeOK
  <1> QED
    BY <1>3, <1>4

LEMMA SaveEditInv ==
  ASSUME LabelsInv, NEW name \in LabelNames \cup {None}, SaveEdit(name)
  PROVE  LabelsInv'
  <1>1. UNCHANGED <<manager, labels, offeredLabels, managerOpen, unheard>>
        /\ refused' = Refuses(name, editing) /\ editing \in LabelIds
    BY TableFacts DEF SaveEdit, LabelsInv, LabelsTypeOK
  <1>2. refused' \in BOOLEAN
    BY <1>1, RefusalIsBoolean
  <1>3. CASE Refuses(name, editing)
    BY <1>1, <1>2, <1>3, DialogInv DEF SaveEdit, LabelsInv, LabelsTypeOK
  <1>4. CASE ~Refuses(name, editing)
    <2> DEFINE c == Call("update", editing, name)
    <2>1. c \in LabelCall /\ CallFits(c)
      BY <1>1, <1>4 DEF Call, LabelCall, CallFits, Refuses
    <2>2. labelCalls' = Append(labelCalls, c) /\ editing' = None
      BY <1>4 DEF SaveEdit, Send
    <2> HIDE DEF c
    <2> QED
      BY <1>1, <1>2, <2>1, <2>2, DialogInv DEF LabelsInv, LabelsTypeOK
  <1> QED
    BY <1>3, <1>4

LEMMA DeleteLabelInv ==
  ASSUME LabelsInv, NEW id \in LabelIds, DeleteLabel(id)
  PROVE  LabelsInv'
  <1> DEFINE c == Call("delete", id, None)
  <1>1. c \in LabelCall /\ CallFits(c)
    BY DEF Call, LabelCall, CallFits
  <1>2. labelCalls' = Append(labelCalls, c)
        /\ UNCHANGED <<manager, labels, offeredLabels, dialog, unheard>>
    BY DEF DeleteLabel, Send
  <1> HIDE DEF c
  <1> QED
    BY <1>1, <1>2, DialogInv DEF LabelsInv, LabelsTypeOK, dialog

LEMMA ShowTagsInv ==
  ASSUME LabelsInv, ShowMidiView
  PROVE  LabelsInv'
  <1> DEFINE c == Call("get", None, None)
  <1>1. c \in LabelCall /\ CallFits(c)
    BY DEF Call, LabelCall, CallFits
  <1>2. labelCalls' = Append(labelCalls, c)
        /\ UNCHANGED <<manager, labels, offeredLabels, dialog, unheard>>
    BY DEF ShowMidiView, Send
  <1> HIDE DEF c
  <1> QED
    BY <1>1, <1>2, DialogInv DEF LabelsInv, LabelsTypeOK, dialog

LEMMA LabelTail ==
  ASSUME LabelsInv, labelCalls # << >>
  PROVE  /\ Tail(labelCalls) \in Seq(LabelCall)
         /\ \A k \in DOMAIN Tail(labelCalls) : CallFits(Tail(labelCalls)[k])
         /\ \A k \in DOMAIN labelCalls : labelCalls[k].op = "get" =>
              \/ Head(labelCalls).op = "get"
              \/ \E j \in DOMAIN Tail(labelCalls) : Tail(labelCalls)[j].op = "get"
         /\ Head(labelCalls) \in LabelCall /\ CallFits(Head(labelCalls))
  <1>1. labelCalls \in Seq(LabelCall) /\ Len(labelCalls) \in Nat /\ Len(labelCalls) > 0
        /\ Head(labelCalls) = labelCalls[1] /\ 1 \in DOMAIN labelCalls
    BY DEF LabelsInv, LabelsTypeOK
  <1>2. /\ Tail(labelCalls) \in Seq(LabelCall)
        /\ DOMAIN Tail(labelCalls) = 1..Len(labelCalls) - 1
        /\ \A k \in 1..Len(labelCalls) - 1 : Tail(labelCalls)[k] = labelCalls[k + 1]
        /\ DOMAIN labelCalls = 1..Len(labelCalls)
    BY <1>1
  <1>3. ASSUME NEW k \in DOMAIN Tail(labelCalls) PROVE CallFits(Tail(labelCalls)[k])
    <2>1. k + 1 \in DOMAIN labelCalls /\ Tail(labelCalls)[k] = labelCalls[k + 1]
      BY <1>1, <1>2
    <2> QED
      BY <2>1 DEF LabelsInv
  <1>4. ASSUME NEW k \in DOMAIN labelCalls, labelCalls[k].op = "get", k # 1
        PROVE  \E j \in DOMAIN Tail(labelCalls) : Tail(labelCalls)[j].op = "get"
    <2>1. k - 1 \in DOMAIN Tail(labelCalls) /\ Tail(labelCalls)[k - 1] = labelCalls[k]
      BY <1>1, <1>2, <1>4
    <2> QED
      BY <1>4, <2>1
  <1>5. Head(labelCalls) \in LabelCall /\ CallFits(Head(labelCalls))
    BY <1>1 DEF LabelsInv
  <1> QED
    BY <1>1, <1>2, <1>3, <1>4, <1>5

\* The change that succeeded leaves a table of names.
LEMMA AfterIsTable ==
  ASSUME LabelsInv, NEW c \in LabelCall, CallFits(c), c.op # "get",
         c.op = "add" => NextId(labels) \in LabelIds
  PROVE  After(c) \in Tables
  <1>1. DOMAIN labels \subseteq LabelIds /\ \A id \in DOMAIN labels : labels[id] \in LabelNames
    BY TableFacts DEF LabelsInv, LabelsTypeOK
  <1>2. CASE c.op = "add"
    <2> DEFINE n == NextId(labels)
               t == [id \in DOMAIN labels \cup {n} |->
                       IF id \in DOMAIN labels THEN labels[id] ELSE c.name]
    <2>1. After(c) = t
      BY <1>2 DEF After
    <2>2. c.name \in LabelNames /\ n \in LabelIds
      BY <1>2 DEF CallFits
    <2> HIDE DEF n
    <2>3. t \in [DOMAIN labels \cup {n} -> LabelNames]
      BY <1>1, <2>2
    <2>4. DOMAIN labels \cup {n} \in SUBSET LabelIds
      BY <1>1, <2>2
    <2> QED
      BY <2>1, <2>3, <2>4 DEF Tables
  <1>3. CASE c.op = "update"
    <2> DEFINE t == [id \in DOMAIN labels |-> IF id = c.id THEN c.name ELSE labels[id]]
    <2>1. After(c) = t
      BY <1>3 DEF After
    <2>2. c.name \in LabelNames
      BY <1>3 DEF CallFits
    <2>3. t \in [DOMAIN labels -> LabelNames]
      BY <1>1, <2>2
    <2> QED
      BY <1>1, <2>1, <2>3 DEF Tables
  <1>4. CASE c.op = "delete"
    <2> DEFINE t == [id \in DOMAIN labels \ {c.id} |-> labels[id]]
    <2>1. After(c) = t
      BY <1>4 DEF After
    <2>2. t \in [DOMAIN labels \ {c.id} -> LabelNames]
      BY <1>1
    <2>3. DOMAIN labels \ {c.id} \in SUBSET LabelIds
      BY <1>1
    <2> QED
      BY <2>1, <2>2, <2>3 DEF Tables
  <1> QED
    BY <1>2, <1>3, <1>4 DEF LabelCall

LEMMA ChangeReturnsInv ==
  ASSUME LabelsInv, ChangeReturns
  PROVE  LabelsInv'
  <1> DEFINE c == Head(labelCalls)
             g == Call("get", None, None)
             rest == Tail(labelCalls)
  <1>1. /\ labelCalls # << >> /\ c.op # "get" /\ labels' = After(c)
        /\ c.op = "add" => NextId(labels) \in LabelIds
        /\ labelCalls' = Append(rest, g)
        /\ UNCHANGED <<manager, offeredLabels, dialog, unheard>>
    BY DEF ChangeReturns, ThenRefresh
  <1>2. c \in LabelCall /\ CallFits(c) /\ rest \in Seq(LabelCall)
        /\ \A k \in DOMAIN rest : CallFits(rest[k])
    BY <1>1, LabelTail
  <1>3. g \in LabelCall /\ CallFits(g) /\ g.op = "get"
    BY DEF Call, LabelCall, CallFits
  <1> HIDE DEF c, g, rest
  <1>4. labels' \in Tables
    BY <1>1, <1>2, AfterIsTable
  <1>5. /\ labelCalls' \in Seq(LabelCall)
        /\ \A k \in DOMAIN labelCalls' : labelCalls'[k] = g \/ (k \in DOMAIN rest /\ labelCalls'[k] = rest[k])
        /\ Len(rest) + 1 \in DOMAIN labelCalls' /\ labelCalls'[Len(rest) + 1] = g
    BY <1>1, <1>2, <1>3
  <1>6. \A k \in DOMAIN labelCalls' : CallFits(labelCalls'[k])
    BY <1>2, <1>3, <1>5
  <1>7. RefreshComes'
    BY <1>3, <1>5 DEF RefreshComes
  <1> QED
    BY <1>1, <1>4, <1>5, <1>6, <1>7 DEF LabelsInv, LabelsTypeOK, dialog

LEMMA ListReturnedInv ==
  ASSUME LabelsInv, ListReturned
  PROVE  LabelsInv'
  <1>1. /\ labelCalls # << >> /\ offeredLabels' = labels /\ labelCalls' = Tail(labelCalls)
        /\ unheard' = FALSE /\ UNCHANGED <<manager, labels, dialog>>
    BY DEF ListReturned
  <1>2. labelCalls' \in Seq(LabelCall) /\ \A k \in DOMAIN labelCalls' : CallFits(labelCalls'[k])
    BY <1>1, LabelTail
  <1>3. RefreshComes'
    BY <1>1 DEF RefreshComes
  <1> QED
    BY <1>1, <1>2, <1>3 DEF LabelsInv, LabelsTypeOK, dialog

LEMMA LabelCallFailsInv ==
  ASSUME LabelsInv, LabelCallFails
  PROVE  LabelsInv'
  <1>1. /\ labelCalls # << >> /\ labelCalls' = Tail(labelCalls)
        /\ unheard' = (unheard \/ Head(labelCalls).op = "get")
        /\ UNCHANGED <<manager, labels, offeredLabels, dialog>>
    BY DEF LabelCallFails
  <1>2. labelCalls' \in Seq(LabelCall) /\ \A k \in DOMAIN labelCalls' : CallFits(labelCalls'[k])
    BY <1>1, LabelTail
  <1>3. unheard' \in BOOLEAN
    BY <1>1, Zenon
  <1>4. RefreshComes'
    <2>1. CASE unheard \/ Head(labelCalls).op = "get"
      BY <1>1, <2>1, Zenon DEF RefreshComes
    <2>2. CASE offeredLabels = labels
      BY <1>1, <2>2 DEF RefreshComes
    <2>3. ASSUME NEW k \in DOMAIN labelCalls, labelCalls[k].op = "get", Head(labelCalls).op # "get"
          PROVE  RefreshComes'
      <3>1. \E j \in DOMAIN Tail(labelCalls) : Tail(labelCalls)[j].op = "get"
        BY <1>1, <2>3, LabelTail
      <3> QED
        BY <1>1, <3>1 DEF RefreshComes
    <2> QED
      BY <2>1, <2>2, <2>3 DEF LabelsInv, RefreshComes
  <1> QED
    BY <1>1, <1>2, <1>3, <1>4 DEF LabelsInv, LabelsTypeOK, dialog

LEMMA LabelsNextInv == LabelsInv /\ [LabelsNext]_labelVars => LabelsInv'
  <1> SUFFICES ASSUME LabelsInv, [LabelsNext]_labelVars PROVE LabelsInv'
    OBVIOUS
  <1>1. ASSUME NEW name \in LabelNames \cup {None}, AddLabel(name) PROVE LabelsInv'
    BY <1>1, AddInv
  <1>2. ASSUME NEW name \in LabelNames \cup {None}, SaveEdit(name) PROVE LabelsInv'
    BY <1>2, SaveEditInv
  <1>3. ASSUME NEW id \in LabelIds, StartEditing(id) \/ DeleteLabel(id) PROVE LabelsInv'
    <2>1. CASE StartEditing(id)
      BY <2>1, DialogInv DEF StartEditing, LabelsInv, LabelsTypeOK
    <2>2. CASE DeleteLabel(id)
      BY <2>2, DeleteLabelInv
    <2> QED
      BY <1>3, <2>1, <2>2
  <1>4. CASE ToggleManager
    <2>1. managerOpen' \in BOOLEAN
      BY <1>4, Zenon DEF ToggleManager
    <2> QED
      BY <1>4, <2>1, DialogInv DEF ToggleManager, LabelsInv, LabelsTypeOK
  <1>5. CASE TypeName
    BY <1>5, DialogInv DEF TypeName, LabelsInv, LabelsTypeOK
  <1>6. CASE CancelEdit
    BY <1>6, DialogInv DEF CancelEdit, LabelsInv, LabelsTypeOK
  <1>7. CASE UNCHANGED labelVars
    BY <1>7, DialogInv DEF labelVars, dialog, LabelsInv, LabelsTypeOK
  <1> QED
    BY <1>1, <1>2, <1>3, <1>4, <1>5, <1>6, <1>7, ShowTagsInv, ChangeReturnsInv, ListReturnedInv,
       LabelCallFailsInv, Zenon
       DEF LabelsNext, TypeManagerStep, EditTag, TagRowStep, CloseTags, AddTag, SaveTag

\* The managers of labels: a list that is not the table's is asked for again
\* once the commands before it have been answered, unless that failed.
THEOREM LabelsInvariant == LabelsSpec => []LabelsInv
  BY LabelsInitInv, LabelsNextInv, PTL DEF LabelsSpec

LEMMA LabelsAreCurrent == LabelsInv => LabelsTypeOK /\ LabelsCurrent
  BY DEF LabelsInv, RefreshComes, LabelsCurrent

-----------------------------------------------------------------------------
(***************************************************************************)
(* The search text. Both readers go through the text clause by clause. What*)
(* they have read of the first clauses is stated for each length, and holds*)
(* for the whole text because there is no least length for which it fails. *)
(***************************************************************************)

\* The text is read clause by clause.
LEMMA TextIsRead ==
  ASSUME NEW core \in BOOLEAN, NEW text \in Seq(Clause)
  PROVE  \E reading :
           /\ reading[0] = NothingAsked
           /\ \A n \in 1..Len(text) : reading[n] = ReadClause(core, reading[n - 1], text[n])
           /\ ReadText(core, text) = reading[Len(text)]
  <1>1. PICK size \in Nat : size = Len(text)
    OBVIOUS
  <1> DEFINE step(g, n) == IF n = 0 THEN NothingAsked ELSE ReadClause(core, g[n - 1], text[n])
             Reads(m) == \E g : g = [n \in 0..m |-> step(g, n)]
             unreached == {m \in Nat : ~Reads(m)}
  <1>2. Reads(0)
    <2>1. PICK g : g = [n \in 0..0 |-> NothingAsked]
      OBVIOUS
    <2>2. g = [n \in 0..0 |-> step(g, n)]
      BY <2>1
    <2> QED
      BY <2>2
  <1>3. ASSUME NEW m \in Nat, Reads(m) PROVE Reads(m + 1)
    <2>1. PICK g : g = [n \in 0..m |-> step(g, n)]
      BY <1>3
    <2>2. PICK h : h = [n \in 0..m + 1 |-> IF n = m + 1 THEN ReadClause(core, g[m], text[m + 1]) ELSE g[n]]
      OBVIOUS
    <2>3. ASSUME NEW n \in 0..m + 1 PROVE h[n] = step(h, n)
      <3>1. CASE n = 0
        <4>1. h[n] = g[n] /\ n \in 0..m
          BY <2>2, <3>1
        <4>2. g[n] = step(g, n)
          BY <2>1, <4>1
        <4> QED
          BY <3>1, <4>1, <4>2
      <3>2. CASE n = m + 1
        <4>1. n # 0 /\ n - 1 = m /\ m \in 0..m + 1 /\ m # m + 1
          BY <3>2
        <4>2. h[n] = ReadClause(core, g[m], text[m + 1]) /\ h[m] = g[m]
          BY <2>2, <3>2, <4>1
        <4> QED
          BY <3>2, <4>1, <4>2
      <3>3. CASE n \in 1..m
        <4>1. n # 0 /\ n \in 0..m /\ n # m + 1 /\ n - 1 \in 0..m + 1 /\ n - 1 # m + 1
          BY <3>3
        <4>2. h[n] = g[n] /\ h[n - 1] = g[n - 1]
          BY <2>2, <4>1
        <4>3. g[n] = step(g, n)
          BY <2>1, <4>1
        <4> QED
          BY <4>1, <4>2, <4>3
      <3> QED
        BY <3>1, <3>2, <3>3
    <2>4. h = [n \in 0..m + 1 |-> step(h, n)]
      <3> HIDE DEF step
      <3> QED
        BY <2>2, <2>3
    <2> QED
      BY <2>4
  <1> HIDE DEF Reads
  <1>4. unreached = {}
    <2> SUFFICES ASSUME unreached # {} PROVE FALSE
      OBVIOUS
    <2>1. unreached \subseteq Nat
      OBVIOUS
    <2>2. PICK m \in unreached : \A k \in unreached : m <= k
      BY <2>1, LeastElement
    <2>3. m \in Nat /\ ~Reads(m) /\ m # 0
      BY <1>2, <2>2
    <2>4. m - 1 \in Nat /\ m - 1 \notin unreached /\ (m - 1) + 1 = m
      BY <2>2, <2>3
    <2>5. Reads((m - 1) + 1)
      BY <1>3, <2>4
    <2> QED
      BY <2>3, <2>4, <2>5
  <1>5. Reads(size)
    BY <1>4
  <1>6. PICK reading : reading = CHOOSE g : g = [n \in 0..size |-> step(g, n)]
    OBVIOUS
  <1>7. reading = [n \in 0..size |-> step(reading, n)]
    BY <1>5, <1>6, Zenon DEF Reads
  <1>8. ReadText(core, text) = reading[size]
    BY <1>1, <1>6, Zenon DEF ReadText
  <1>9. 0 \in 0..size /\ \A n \in 1..size : n \in 0..size /\ n # 0
    BY <1>1
  <1>10. reading[0] = NothingAsked /\ \A n \in 1..size : reading[n] = ReadClause(core, reading[n - 1], text[n])
    BY <1>7, <1>9
  <1> QED
    BY <1>1, <1>8, <1>10

SingleFields == {"bpm", "type", "instrument", "key", "favorite"}

\* What is asked, whole: a record of nine fields.
AskedFields == {"text", "noText", "tags", "noTags"} \cup SingleFields

IsAsked(asked) == DOMAIN asked = AskedFields /\ asked = [f \in AskedFields |-> asked[f]]

ValueRead(core, c) ==
  CASE c.field = "bpm" -> NumberRange(core, c.value)
    [] c.field = "type" -> PlaybackType(c.value)
    [] c.field = "instrument" -> c.value
    [] c.field = "key" -> NormalizeKey(c.value)
    [] c.field = "favorite" -> IF core THEN None ELSE ParseBoolean(c.value)


\* One clause: it adds to the words or tags, or gives its field another value.
LEMMA ClauseIsRead ==
  ASSUME NEW core \in BOOLEAN, NEW c \in Clause, NEW asked, IsAsked(asked)
  PROVE  /\ IsAsked(ReadClause(core, asked, c))
         /\ ReadClause(core, asked, c).text =
              IF c.field = "text" /\ ~c.negated THEN asked.text \cup {c.value} ELSE asked.text
         /\ ReadClause(core, asked, c).noText =
              IF c.field = "text" /\ c.negated THEN asked.noText \cup {c.value} ELSE asked.noText
         /\ ReadClause(core, asked, c).tags =
              IF c.field = "tag" /\ ~c.negated THEN asked.tags \cup {c.value} ELSE asked.tags
         /\ ReadClause(core, asked, c).noTags =
              IF c.field = "tag" /\ c.negated THEN asked.noTags \cup {c.value} ELSE asked.noTags
         /\ \A f \in SingleFields : ReadClause(core, asked, c)[f] =
              IF c.field = f /\ ~c.negated THEN ValueRead(core, c) ELSE asked[f]
  <1>1. PICK new : new = ReadClause(core, asked, c)
    OBVIOUS
  <1>2. c.field \in {"text", "tag"} \cup SingleFields
    BY DEF Clause, SingleFields
  <1>3. CASE c.field = "text" /\ ~c.negated
    BY <1>3 DEF ReadClause, IsAsked, AskedFields, SingleFields
  <1>4. CASE c.field = "text" /\ c.negated
    BY <1>4 DEF ReadClause, IsAsked, AskedFields, SingleFields
  <1>5. CASE c.field = "tag" /\ ~c.negated
    BY <1>5 DEF ReadClause, IsAsked, AskedFields, SingleFields
  <1>6. CASE c.field = "tag" /\ c.negated
    BY <1>6 DEF ReadClause, IsAsked, AskedFields, SingleFields
  <1>7. CASE c.field \in SingleFields /\ c.negated
    <2>1. new = asked
      BY <1>1, <1>7 DEF ReadClause, SingleFields
    <2> QED
      BY <1>1, <1>7, <2>1 DEF SingleFields
  <1>8. CASE c.field \in SingleFields /\ ~c.negated
    <2>1. new = [asked EXCEPT ![c.field] = ValueRead(core, c)]
      <3>1. CASE c.field = "bpm"
        BY <1>1, <1>8, <3>1 DEF ReadClause, ValueRead
      <3>2. CASE c.field = "type"
        BY <1>1, <1>8, <3>2 DEF ReadClause, ValueRead
      <3>3. CASE c.field = "instrument"
        BY <1>1, <1>8, <3>3 DEF ReadClause, ValueRead
      <3>4. CASE c.field = "key"
        BY <1>1, <1>8, <3>4 DEF ReadClause, ValueRead
      <3>5. CASE c.field = "favorite"
        BY <1>1, <1>8, <3>5 DEF ReadClause, ValueRead
      <3> QED
        BY <1>8, <3>1, <3>2, <3>3, <3>4, <3>5 DEF SingleFields
    <2>2. PICK v : v = ValueRead(core, c)
      OBVIOUS
    <2>3. new = [asked EXCEPT ![c.field] = v]
      BY <2>1, <2>2
    <2> QED
      BY <1>1, <1>8, <2>2, <2>3 DEF IsAsked, AskedFields, SingleFields
  <1> QED
    BY <1>2, <1>3, <1>4, <1>5, <1>6, <1>7, <1>8

For(c, field) == c.field = field /\ ~c.negated
Against(c, field) == c.field = field /\ c.negated

\* What the first n clauses of a text ask for.
Tells(core, text, n, asked) ==
  /\ IsAsked(asked)
  /\ \A w : w \in asked.text <=> \E k \in 1..n : For(text[k], "text") /\ text[k].value = w
  /\ \A w : w \in asked.noText <=> \E k \in 1..n : Against(text[k], "text") /\ text[k].value = w
  /\ \A w : w \in asked.tags <=> \E k \in 1..n : For(text[k], "tag") /\ text[k].value = w
  /\ \A w : w \in asked.noTags <=> \E k \in 1..n : Against(text[k], "tag") /\ text[k].value = w
  /\ \A f \in SingleFields :
       \/ (\A k \in 1..n : ~For(text[k], f)) /\ asked[f] = None
       \/ \E k \in 1..n : /\ For(text[k], f) /\ (\A j \in 1..n : For(text[j], f) => j <= k)
                          /\ asked[f] = ValueRead(core, text[k])

LEMMA NothingTold ==
  ASSUME NEW core, NEW text
  PROVE  Tells(core, text, 0, NothingAsked)
  <1>1. IsAsked(NothingAsked)
    BY DEF NothingAsked, IsAsked, AskedFields, SingleFields
  <1>2. /\ NothingAsked.text = {} /\ NothingAsked.noText = {} /\ NothingAsked.tags = {}
        /\ NothingAsked.noTags = {} /\ \A f \in SingleFields : NothingAsked[f] = None
    BY DEF NothingAsked, SingleFields
  <1>3. \A k \in 1..0 : FALSE
    OBVIOUS
  <1> QED
    BY <1>1, <1>2, <1>3 DEF Tells

LEMMA OneMoreTold ==
  ASSUME NEW core \in BOOLEAN, NEW text \in Seq(Clause), NEW n \in Nat, n + 1 \in 1..Len(text),
         NEW asked, Tells(core, text, n, asked)
  PROVE  Tells(core, text, n + 1, ReadClause(core, asked, text[n + 1]))
  <1>1. PICK c \in Clause : c = text[n + 1]
    OBVIOUS
  <1>2. PICK new : new = ReadClause(core, asked, c)
    OBVIOUS
  <1>3. /\ IsAsked(new)
        /\ new.text = IF For(c, "text") THEN asked.text \cup {c.value} ELSE asked.text
        /\ new.noText = IF Against(c, "text") THEN asked.noText \cup {c.value} ELSE asked.noText
        /\ new.tags = IF For(c, "tag") THEN asked.tags \cup {c.value} ELSE asked.tags
        /\ new.noTags = IF Against(c, "tag") THEN asked.noTags \cup {c.value} ELSE asked.noTags
        /\ \A f \in SingleFields : new[f] = IF For(c, f) THEN ValueRead(core, c) ELSE asked[f]
    <2>1. IsAsked(asked)
      BY DEF Tells
    <2>2. /\ IsAsked(ReadClause(core, asked, c))
          /\ ReadClause(core, asked, c).text =
               IF c.field = "text" /\ ~c.negated THEN asked.text \cup {c.value} ELSE asked.text
          /\ ReadClause(core, asked, c).noText =
               IF c.field = "text" /\ c.negated THEN asked.noText \cup {c.value} ELSE asked.noText
          /\ ReadClause(core, asked, c).tags =
               IF c.field = "tag" /\ ~c.negated THEN asked.tags \cup {c.value} ELSE asked.tags
          /\ ReadClause(core, asked, c).noTags =
               IF c.field = "tag" /\ c.negated THEN asked.noTags \cup {c.value} ELSE asked.noTags
          /\ \A f \in SingleFields : ReadClause(core, asked, c)[f] =
               IF c.field = f /\ ~c.negated THEN ValueRead(core, c) ELSE asked[f]
      BY <2>1, ClauseIsRead, ZenonT(40)
    <2> QED
      BY <1>2, <2>2, Zenon DEF For, Against
  <1>4. /\ \A k \in 1..n : k \in 1..n + 1 /\ k <= n + 1
        /\ n + 1 \in 1..n + 1 /\ n + 1 <= n + 1
        /\ \A k \in 1..n + 1 : k \in 1..n \/ k = n + 1
    OBVIOUS
  <1>5. \A w : w \in new.text <=> \E k \in 1..n + 1 : For(text[k], "text") /\ text[k].value = w
    <2>1. \A w : w \in asked.text <=> \E k \in 1..n : For(text[k], "text") /\ text[k].value = w
      BY DEF Tells
    <2> QED
      BY <1>1, <1>3, <1>4, <2>1
  <1>6. \A w : w \in new.noText <=> \E k \in 1..n + 1 : Against(text[k], "text") /\ text[k].value = w
    <2>1. \A w : w \in asked.noText <=> \E k \in 1..n : Against(text[k], "text") /\ text[k].value = w
      BY DEF Tells
    <2> QED
      BY <1>1, <1>3, <1>4, <2>1
  <1>7. \A w : w \in new.tags <=> \E k \in 1..n + 1 : For(text[k], "tag") /\ text[k].value = w
    <2>1. \A w : w \in asked.tags <=> \E k \in 1..n : For(text[k], "tag") /\ text[k].value = w
      BY DEF Tells
    <2> QED
      BY <1>1, <1>3, <1>4, <2>1
  <1>8. \A w : w \in new.noTags <=> \E k \in 1..n + 1 : Against(text[k], "tag") /\ text[k].value = w
    <2>1. \A w : w \in asked.noTags <=> \E k \in 1..n : Against(text[k], "tag") /\ text[k].value = w
      BY DEF Tells
    <2> QED
      BY <1>1, <1>3, <1>4, <2>1
  <1>9. ASSUME NEW f \in SingleFields
        PROVE  \/ (\A k \in 1..n + 1 : ~For(text[k], f)) /\ new[f] = None
               \/ \E k \in 1..n + 1 :
                    /\ For(text[k], f) /\ (\A j \in 1..n + 1 : For(text[j], f) => j <= k)
                    /\ new[f] = ValueRead(core, text[k])
    <2>1. CASE For(c, f)
      <3>1. For(text[n + 1], f) /\ new[f] = ValueRead(core, text[n + 1])
        BY <1>1, <1>3, <2>1
      <3> QED
        BY <1>4, <3>1
    <2>2. CASE ~For(c, f)
      <3>1. new[f] = asked[f] /\ ~For(text[n + 1], f)
        BY <1>1, <1>3, <2>2
      <3>2. \/ (\A k \in 1..n : ~For(text[k], f)) /\ asked[f] = None
            \/ \E k \in 1..n : /\ For(text[k], f) /\ (\A j \in 1..n : For(text[j], f) => j <= k)
                               /\ asked[f] = ValueRead(core, text[k])
        BY DEF Tells
      <3> QED
        BY <1>4, <3>1, <3>2
    <2> QED
      BY <2>1, <2>2
  <1> QED
    BY <1>1, <1>2, <1>3, <1>5, <1>6, <1>7, <1>8, <1>9 DEF Tells

\* What a text asks for, as either reader understands it.
LEMMA TextTells ==
  ASSUME NEW core \in BOOLEAN, NEW text \in Seq(Clause)
  PROVE  Tells(core, text, Len(text), ReadText(core, text))
  <1>1. PICK size \in Nat : size = Len(text)
    OBVIOUS
  <1>2. PICK reading :
          /\ reading[0] = NothingAsked
          /\ \A n \in 1..size : reading[n] = ReadClause(core, reading[n - 1], text[n])
          /\ ReadText(core, text) = reading[size]
    BY <1>1, TextIsRead
  <1> DEFINE untold == {n \in 0..size : ~Tells(core, text, n, reading[n])}
  <1>3. untold = {}
    <2> SUFFICES ASSUME untold # {} PROVE FALSE
      OBVIOUS
    <2>1. untold \subseteq Nat
      OBVIOUS
    <2>2. PICK m \in untold : \A k \in untold : m <= k
      BY <2>1, LeastElement
    <2>3. Tells(core, text, 0, reading[0])
      BY <1>2, NothingTold
    <2>4. m \in 1..size /\ ~Tells(core, text, m, reading[m])
      BY <2>2, <2>3
    <2>5. PICK n \in Nat : n = m - 1 /\ n + 1 = m /\ n \in 0..size
      BY <2>4
    <2>6. Tells(core, text, n, reading[n])
      BY <2>2, <2>4, <2>5
    <2>7. reading[n + 1] = ReadClause(core, reading[n], text[n + 1]) /\ n + 1 \in 1..Len(text)
      BY <1>1, <1>2, <2>4, <2>5
    <2>8. Tells(core, text, n + 1, reading[n + 1])
      BY <2>6, <2>7, OneMoreTold
    <2> QED
      BY <2>4, <2>5, <2>8
  <1>4. size \in 0..size
    OBVIOUS
  <1>5. Tells(core, text, size, reading[size])
    BY <1>3, <1>4
  <1> QED
    BY <1>1, <1>2, <1>5

\* A field has the value of the clause that decides, which there is one of at most.
LEMMA DecidingRead ==
  ASSUME NEW core \in BOOLEAN, NEW text \in Seq(Clause), NEW f \in SingleFields
  PROVE  \/ Deciding(text, f) = {} /\ ReadText(core, text)[f] = None
         \/ \E k \in 1..Len(text) : /\ Deciding(text, f) = {k} /\ text[k].field = f
                                    /\ ReadText(core, text)[f] = ValueRead(core, text[k])
  <1>1. PICK n \in Nat : n = Len(text) /\ DOMAIN text = 1..n
    OBVIOUS
  <1>2. PICK asked : asked = ReadText(core, text)
    OBVIOUS
  <1>3. \/ (\A k \in 1..n : ~For(text[k], f)) /\ asked[f] = None
        \/ \E k \in 1..n : /\ For(text[k], f) /\ (\A j \in 1..n : For(text[j], f) => j <= k)
                           /\ asked[f] = ValueRead(core, text[k])
    BY <1>1, <1>2, TextTells DEF Tells
  <1>4. \A k : k \in Deciding(text, f) <=>
                 k \in 1..n /\ For(text[k], f) /\ \A j \in 1..n : For(text[j], f) => j <= k
    BY <1>1 DEF Deciding, Clauses, For
  <1>5. CASE (\A k \in 1..n : ~For(text[k], f)) /\ asked[f] = None
    BY <1>2, <1>4, <1>5
  <1>6. ASSUME NEW k \in 1..n, For(text[k], f), \A j \in 1..n : For(text[j], f) => j <= k,
               asked[f] = ValueRead(core, text[k])
        PROVE  Deciding(text, f) = {k} /\ text[k].field = f
    <2>1. k \in Deciding(text, f)
      BY <1>4, <1>6
    <2>2. ASSUME NEW j \in Deciding(text, f) PROVE j = k
      <3>1. j \in 1..n /\ j <= k /\ k <= j
        BY <1>4, <1>6, <2>2
      <3> QED
        BY <3>1
    <2> QED
      BY <1>6, <2>1, <2>2 DEF For
  <1> QED
    BY <1>1, <1>2, <1>3, <1>5, <1>6

LanguageInv == LanguageTypeOK /\ (row.playback = "loop" => row.kind = "loop")

LEMMA CoreReadsText ==
  ASSUME LanguageInv
  PROVE  FoundIsMeant
  <1>1. PICK text \in Seq(Clause) : text = searchText
    BY DEF LanguageInv, LanguageTypeOK
  <1>2. PICK n \in Nat : n = Len(text) /\ DOMAIN text = 1..n
    OBVIOUS
  <1>3. PICK r : r = row
    OBVIOUS
  <1>4. PICK asked : asked = ReadText(TRUE, text)
    OBVIOUS
  <1>5. Tells(TRUE, text, n, asked)
    BY <1>2, <1>4, TextTells
  <1>6. \A k \in 1..n : text[k] \in Clause /\ text[k].negated \in BOOLEAN
    BY <1>2 DEF Clause
  <1>7. (\A words \in asked.text : HasWords(r, words)) /\ (\A words \in asked.noText : ~HasWords(r, words))
          <=> \A k \in Clauses(text, "text") : HasWords(r, text[k].value) # text[k].negated
    <2>1. (\A words \in asked.text : HasWords(r, words))
            <=> \A k \in 1..n : For(text[k], "text") => HasWords(r, text[k].value)
      BY <1>5 DEF Tells
    <2>2. (\A words \in asked.noText : ~HasWords(r, words))
            <=> \A k \in 1..n : Against(text[k], "text") => ~HasWords(r, text[k].value)
      BY <1>5 DEF Tells
    <2>3. ASSUME NEW k \in Clauses(text, "text")
          PROVE  (HasWords(r, text[k].value) # text[k].negated) <=>
                   /\ For(text[k], "text") => HasWords(r, text[k].value)
                   /\ Against(text[k], "text") => ~HasWords(r, text[k].value)
      <3>1. text[k].field = "text" /\ text[k].negated \in BOOLEAN
        BY <1>2, <1>6 DEF Clauses
      <3>2. HasWords(r, text[k].value) \in BOOLEAN
        BY DEF HasWords
      <3> QED
        BY <3>1, <3>2, Zenon DEF For, Against
    <2>4. \A k : k \in Clauses(text, "text") <=> k \in 1..n /\ text[k].field = "text"
      BY <1>2 DEF Clauses
    <2>5. \A k \in 1..n : For(text[k], "text") \/ Against(text[k], "text") => text[k].field = "text"
      BY DEF For, Against
    <2> QED
      BY <2>1, <2>2, <2>3, <2>4, <2>5
  <1>8. asked.tags \subseteq r.tags /\ asked.noTags \cap r.tags = {}
          <=> \A k \in Clauses(text, "tag") : (text[k].value \in r.tags) # text[k].negated
    <2>1. asked.tags \subseteq r.tags <=> \A k \in 1..n : For(text[k], "tag") => text[k].value \in r.tags
      BY <1>5 DEF Tells
    <2>2. asked.noTags \cap r.tags = {}
            <=> \A k \in 1..n : Against(text[k], "tag") => text[k].value \notin r.tags
      BY <1>5 DEF Tells
    <2>3. ASSUME NEW k \in Clauses(text, "tag")
          PROVE  ((text[k].value \in r.tags) # text[k].negated) <=>
                   /\ For(text[k], "tag") => text[k].value \in r.tags
                   /\ Against(text[k], "tag") => text[k].value \notin r.tags
      <3>1. text[k].field = "tag" /\ text[k].negated \in BOOLEAN
        BY <1>2, <1>6 DEF Clauses
      <3>2. (text[k].value \in r.tags) \in BOOLEAN
        OBVIOUS
      <3> QED
        BY <3>1, <3>2, Zenon DEF For, Against
    <2>4. \A k : k \in Clauses(text, "tag") <=> k \in 1..n /\ text[k].field = "tag"
      BY <1>2 DEF Clauses
    <2>5. \A k \in 1..n : For(text[k], "tag") \/ Against(text[k], "tag") => text[k].field = "tag"
      BY DEF For, Against
    <2> QED
      BY <2>1, <2>2, <2>3, <2>4, <2>5
  <1>9. \A f \in SingleFields :
          \/ Deciding(text, f) = {} /\ asked[f] = None
          \/ \E k \in 1..n : Deciding(text, f) = {k} /\ text[k].field = f /\ asked[f] = ValueRead(TRUE, text[k])
    BY <1>2, <1>4, DecidingRead
  <1>10. (asked.bpm # None => InRange(r.bpm, asked.bpm)) <=> \A k \in Deciding(text, "bpm") : Holds(text[k], r)
    <2>1. \/ Deciding(text, "bpm") = {} /\ asked.bpm = None
          \/ \E k \in 1..n : /\ Deciding(text, "bpm") = {k} /\ text[k].field = "bpm"
                             /\ asked.bpm = ValueRead(TRUE, text[k])
      BY <1>9 DEF SingleFields
    <2>2. \A k \in 1..n : text[k].field = "bpm" =>
            /\ ValueRead(TRUE, text[k]) = NumberRange(TRUE, text[k].value)
            /\ Holds(text[k], r) <=> (NumberRange(TRUE, text[k].value) # None
                                        => InRange(r.bpm, NumberRange(TRUE, text[k].value)))
      BY DEF ValueRead, Holds
    <2> QED
      BY <2>1, <2>2
  <1>11. (asked.type # None => asked.type \in {PlaybackLabel(r.playback), PlaybackLabel(r.kind)})
           <=> \A k \in Deciding(text, "type") : Holds(text[k], r)
    <2>1. \/ Deciding(text, "type") = {} /\ asked.type = None
          \/ \E k \in 1..n : /\ Deciding(text, "type") = {k} /\ text[k].field = "type"
                             /\ asked.type = ValueRead(TRUE, text[k])
      BY <1>9 DEF SingleFields
    <2>2. \A k \in 1..n : text[k].field = "type" =>
            /\ ValueRead(TRUE, text[k]) = PlaybackType(text[k].value)
            /\ Holds(text[k], r) <=>
                 PlaybackType(text[k].value) \in {None, PlaybackLabel(r.playback), PlaybackLabel(r.kind)}
      BY DEF ValueRead, Holds
    <2> QED
      BY <2>1, <2>2
  <1>12. (asked.instrument # None => r.instrument = asked.instrument)
           <=> \A k \in Deciding(text, "instrument") : Holds(text[k], r)
    <2>1. \/ Deciding(text, "instrument") = {} /\ asked.instrument = None
          \/ \E k \in 1..n : /\ Deciding(text, "instrument") = {k} /\ text[k].field = "instrument"
                             /\ asked.instrument = ValueRead(TRUE, text[k])
      BY <1>9 DEF SingleFields
    <2>2. \A k \in 1..n : text[k].field = "instrument" =>
            /\ ValueRead(TRUE, text[k]) = text[k].value
            /\ Holds(text[k], r) <=> text[k].value = r.instrument
      BY DEF ValueRead, Holds
    <2>3. \A k \in 1..n : text[k].field = "instrument" => text[k].value # None
      BY <1>6, LanguageAssumption DEF Clause
    <2> QED
      BY <2>1, <2>2, <2>3
  <1>13. (asked.key # None => NormalizeKey(r.key) = asked.key)
           <=> \A k \in Deciding(text, "key") : Holds(text[k], r)
    <2>1. \/ Deciding(text, "key") = {} /\ asked.key = None
          \/ \E k \in 1..n : /\ Deciding(text, "key") = {k} /\ text[k].field = "key"
                             /\ asked.key = ValueRead(TRUE, text[k])
      BY <1>9 DEF SingleFields
    <2>2. \A k \in 1..n : text[k].field = "key" =>
            /\ ValueRead(TRUE, text[k]) = NormalizeKey(text[k].value)
            /\ Holds(text[k], r) <=> NormalizeKey(text[k].value) \in {None, NormalizeKey(r.key)}
      BY DEF ValueRead, Holds
    <2> QED
      BY <2>1, <2>2
  <1>14. asked.favorite = None
    <2>1. \/ asked.favorite = None
          \/ \E k \in 1..n : text[k].field = "favorite" /\ asked.favorite = ValueRead(TRUE, text[k])
      BY <1>9 DEF SingleFields
    <2> QED
      BY <2>1 DEF ValueRead
  <1>15. CoreFinds(text, r) <=>
           /\ \A k \in Clauses(text, "text") : HasWords(r, text[k].value) # text[k].negated
           /\ \A k \in Clauses(text, "tag") : (text[k].value \in r.tags) # text[k].negated
           /\ \A field \in {"bpm", "type", "instrument", "key"} :
                \A k \in Deciding(text, field) : Holds(text[k], r)
    <2>1. CoreFinds(text, r) <=> Matches(asked, r, FALSE)
      BY <1>4 DEF CoreFinds
    <2>2. (\A field \in {"bpm", "type", "instrument", "key"} :
             \A k \in Deciding(text, field) : Holds(text[k], r))
            <=> /\ \A k \in Deciding(text, "bpm") : Holds(text[k], r)
                /\ \A k \in Deciding(text, "type") : Holds(text[k], r)
                /\ \A k \in Deciding(text, "instrument") : Holds(text[k], r)
                /\ \A k \in Deciding(text, "key") : Holds(text[k], r)
      OBVIOUS
    <2> QED
      BY <1>7, <1>8, <1>10, <1>11, <1>12, <1>13, <1>14, <2>1, <2>2 DEF Matches
  <1> QED
    BY <1>1, <1>3, <1>15 DEF FoundIsMeant

LEMMA ListShowsFound ==
  ASSUME LanguageInv
  PROVE  FoundIsShown
  <1> SUFFICES ASSUME CoreFinds(searchText, row), Clauses(searchText, "favorite") = {},
                      ~(\E k \in DOMAIN searchText : Loose(searchText[k])),
                      ~(Renamed(row) /\ Clauses(searchText, "instrument") # {})
               PROVE  Matches(ReadText(FALSE, searchText), MapRowToSample(row), isFavorite)
    BY DEF FoundIsShown, ListKeeps
  <1>1. PICK text \in Seq(Clause) : text = searchText
    BY DEF LanguageInv, LanguageTypeOK
  <1>2. PICK n \in Nat : n = Len(text) /\ DOMAIN text = 1..n
    OBVIOUS
  <1>3. PICK r \in Row : r = row
    BY DEF LanguageInv, LanguageTypeOK
  <1>4. PICK asked, sifted : asked = ReadText(TRUE, text) /\ sifted = ReadText(FALSE, text)
    OBVIOUS
  <1>5. Tells(TRUE, text, n, asked) /\ Tells(FALSE, text, n, sifted)
    BY <1>2, <1>4, TextTells
  <1>6. PICK s : s = MapRowToSample(r)
    OBVIOUS
  <1>7. /\ s.words = r.words /\ s.tags = r.tags /\ s.bpm = r.bpm /\ s.playback = r.playback /\ s.key = r.key
        /\ s.kind = ShownKind(r) /\ s.instrument = ShownInstrument(r)
    BY <1>6 DEF MapRowToSample, Row
  <1>8. Matches(asked, r, FALSE)
    BY <1>1, <1>3, <1>4 DEF CoreFinds
  <1>9. sifted.text = asked.text /\ sifted.noText = asked.noText
        /\ sifted.tags = asked.tags /\ sifted.noTags = asked.noTags
    BY <1>5 DEF Tells
  <1>10. \A core \in BOOLEAN, f \in SingleFields :
           \/ Deciding(text, f) = {} /\ ReadText(core, text)[f] = None
           \/ \E k \in 1..n : Deciding(text, f) = {k} /\ text[k].field = f
                              /\ ReadText(core, text)[f] = ValueRead(core, text[k])
    BY <1>2, DecidingRead
  <1>11. \A f \in SingleFields :
           \/ Deciding(text, f) = {} /\ asked[f] = None /\ sifted[f] = None
           \/ \E k \in 1..n : Deciding(text, f) = {k} /\ text[k].field = f
                              /\ asked[f] = ValueRead(TRUE, text[k]) /\ sifted[f] = ValueRead(FALSE, text[k])
    <2> SUFFICES ASSUME NEW f \in SingleFields
                 PROVE  \/ Deciding(text, f) = {} /\ asked[f] = None /\ sifted[f] = None
                        \/ \E k \in 1..n : Deciding(text, f) = {k} /\ text[k].field = f
                             /\ asked[f] = ValueRead(TRUE, text[k]) /\ sifted[f] = ValueRead(FALSE, text[k])
      OBVIOUS
    <2>1. \/ Deciding(text, f) = {} /\ asked[f] = None
          \/ \E k \in 1..n : Deciding(text, f) = {k} /\ text[k].field = f /\ asked[f] = ValueRead(TRUE, text[k])
      BY <1>4, <1>10
    <2>2. \/ Deciding(text, f) = {} /\ sifted[f] = None
          \/ \E k \in 1..n : Deciding(text, f) = {k} /\ text[k].field = f /\ sifted[f] = ValueRead(FALSE, text[k])
      BY <1>4, <1>10
    <2> QED
      BY <2>1, <2>2
  <1>12. sifted.bpm = asked.bpm
    <2>1. \A k \in 1..n : text[k].field = "bpm" => ValueRead(TRUE, text[k]) = ValueRead(FALSE, text[k])
      <3> SUFFICES ASSUME NEW k \in 1..n, text[k].field = "bpm"
                   PROVE  NumberRange(TRUE, text[k].value) = NumberRange(FALSE, text[k].value)
        BY DEF ValueRead
      <3>1. PICK v : v = text[k].value
        OBVIOUS
      <3>2. v \in {<<a>> : a \in NumberTexts} \cup (NumberTexts \X NumberTexts)
        BY <1>2, <3>1 DEF Clause
      <3>3. 1 \in DOMAIN v /\ Len(v) \in DOMAIN v /\ \A i \in DOMAIN v : v[i] \in NumberTexts
        BY <3>2
      <3>4. \A i \in DOMAIN v : v[i] # "140x"
        BY <1>1, <1>2, <3>1 DEF Loose
      <3>5. \A i \in DOMAIN v : ReadNumber(TRUE, v[i]) = ReadNumber(FALSE, v[i])
        BY <3>3, <3>4 DEF ReadNumber, NumberTexts
      <3> QED
        BY <3>1, <3>3, <3>5 DEF NumberRange
    <2> QED
      BY <1>11, <2>1 DEF SingleFields
  <1>13. sifted.type = asked.type /\ sifted.instrument = asked.instrument /\ sifted.key = asked.key
    <2>1. \A k \in 1..n : text[k].field \in {"type", "instrument", "key"} =>
                            ValueRead(TRUE, text[k]) = ValueRead(FALSE, text[k])
      BY DEF ValueRead
    <2> QED
      BY <1>11, <2>1 DEF SingleFields
  <1>14. sifted.favorite = None
    <2>1. Deciding(text, "favorite") = {}
      BY <1>1 DEF Deciding
    <2> QED
      BY <1>11, <2>1 DEF SingleFields
  <1>15. sifted.type # None => sifted.type \in {PlaybackLabel(s.playback), PlaybackLabel(s.kind)}
    <2>1. asked.type # None => asked.type \in {PlaybackLabel(r.playback), PlaybackLabel(r.kind)}
      BY <1>8 DEF Matches
    <2>2. asked.type \in {None, "loop", "oneshot"}
      <3>1. \/ asked.type = None
            \/ \E k \in 1..n : text[k].field = "type" /\ asked.type = ValueRead(TRUE, text[k])
        BY <1>11 DEF SingleFields
      <3> QED
        BY <3>1 DEF ValueRead, PlaybackType
    <2>3. r.playback \in {"loop", "oneshot"} /\ r.kind \in {"loop", "oneshot", "kick"}
      BY DEF Row
    <2>4. r.playback = "loop" => r.kind = "loop"
      BY <1>3 DEF LanguageInv
    <2> QED
      BY <1>7, <1>13, <2>1, <2>2, <2>3, <2>4 DEF PlaybackLabel, ShownKind
  <1>16. sifted.instrument # None => s.instrument = sifted.instrument
    <2>1. CASE Clauses(text, "instrument") = {}
      <3>1. Deciding(text, "instrument") = {}
        BY <2>1 DEF Deciding
      <3> QED
        BY <1>11, <3>1 DEF SingleFields
    <2>2. CASE Clauses(text, "instrument") # {}
      <3>1. ShownInstrument(r) = r.instrument
        BY <1>1, <1>3, <2>2 DEF Renamed
      <3> QED
        BY <1>7, <1>8, <1>13, <3>1 DEF Matches
    <2> QED
      BY <2>1, <2>2
  <1>17. \A words : HasWords(s, words) <=> HasWords(r, words)
    BY <1>7 DEF HasWords
  <1>18. Matches(sifted, s, isFavorite)
    BY <1>7, <1>8, <1>9, <1>12, <1>13, <1>14, <1>15, <1>16, <1>17 DEF Matches
  <1> QED
    BY <1>1, <1>3, <1>4, <1>6, <1>18

LEMMA LanguageInvInit == LanguageInit => LanguageInv
  <1> SUFFICES ASSUME LanguageInit PROVE LanguageInv
    OBVIOUS
  <1>1. row \in LibraryRows /\ searchText = << >> /\ isFavorite = FALSE
    BY DEF LanguageInit
  <1>2. row \in Row /\ (row.playback = "loop" => row.kind = "loop")
    BY <1>1, LanguageAssumption
  <1>3. searchText \in Seq(Clause)
    BY <1>1
  <1>4. isFavorite \in BOOLEAN
    BY <1>1
  <1> QED
    BY <1>2, <1>3, <1>4 DEF LanguageInv, LanguageTypeOK

LEMMA LanguageInvNext == LanguageInv /\ [LanguageNext]_languageVars => LanguageInv'
  <1> SUFFICES ASSUME LanguageInv, [LanguageNext]_languageVars PROVE LanguageInv'
    OBVIOUS
  <1> USE DEF LanguageInv, LanguageTypeOK
  <1>1. ASSUME NEW c \in Clause, TypeClause(c) PROVE LanguageInv'
    BY <1>1 DEF TypeClause
  <1>2. CASE ClearText
    BY <1>2 DEF ClearText
  <1>3. CASE ToggleFavorite
    <2>1. isFavorite' \in BOOLEAN
      BY <1>3, Zenon DEF ToggleFavorite
    <2> QED
      BY <1>3, <2>1 DEF ToggleFavorite
  <1>4. ASSUME NEW playback \in {"loop", "oneshot"}, NEW instrument \in Instruments,
               UpdateSampleClassification(playback, instrument)
        PROVE  LanguageInv'
    <2>1. row' = [row EXCEPT !.playback = playback, !.kind = playback, !.instrument = instrument]
      BY <1>4 DEF UpdateSampleClassification
    <2>2. row' \in Row /\ row'.playback = playback /\ row'.kind = playback
      BY <2>1 DEF Row
    <2> QED
      BY <1>4, <2>2 DEF UpdateSampleClassification
  <1>5. CASE UNCHANGED languageVars
    BY <1>5 DEF languageVars
  <1> QED
    BY <1>1, <1>2, <1>3, <1>4, <1>5 DEF LanguageNext

\* Whatever is typed, the core finds a row exactly when every clause that decides holds
\* of it, and the list hides a row that was found only where FoundIsShown says.
THEOREM LanguageInvariant == LanguageSpec => [](LanguageInv /\ FoundIsMeant /\ FoundIsShown)
  <1>1. LanguageInv => FoundIsMeant /\ FoundIsShown
    BY CoreReadsText, ListShowsFound
  <1> QED
    BY <1>1, LanguageInvInit, LanguageInvNext, PTL DEF LanguageSpec
===============================================================================
