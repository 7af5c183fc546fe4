------------------------------- MODULE PlayerBar -------------------------------
(***************************************************************************)
(* The player bar of the selected sample: components/PlayerBar with        *)
(* usePlayerBarAudio, and the waveform of WaveSurferPlayer.  Every bar     *)
(* drives the same audio element; the bytes of a file are read by the      *)
(* backend and given to the element as an object URL.                      *)
(*                                                                         *)
(* The path is looked up among the paths of the list on screen: it goes    *)
(* and comes back while the bar stays.  A timer waits until it is stable.  *)
(***************************************************************************)
EXTENDS UiBase

CONSTANTS Paths

ASSUME PathsAssumption == None \notin Paths

VARIABLES
  mounted, path, barAutoPlay,   \* the bar is on screen, and its properties
  stablePath, pathTimer,
  barLoading, loadError, errorTimer, playing,
  reads,        \* read_audio_file calls
  listening,    \* the handlers of the element are those of the newest load
  objectUrl, audioUrl,   \* objectUrlRef and the state: the file they hold
  urls,         \* object URLs that are created and not revoked
  src, media, paused,    \* the element: its source, how far it is, and paused
  notices,      \* its events that are not dispatched: play, pause, and error if it was emptied
  wave,         \* the WaveSurfer instance on screen
  held,         \* wavesurferInstance: the one on screen, a destroyed one, none
  returned      \* history: the path came back before the timer saw it leave

propVars == <<mounted, path, barAutoPlay>>
shownVars == <<barLoading, loadError, errorTimer, playing>>
urlVars == <<objectUrl, audioUrl, urls>>
element == <<src, media, paused, notices>>
waveVars == <<wave, held>>
loadVars == <<stablePath, pathTimer, reads, listening, returned>>
barVars == <<propVars, shownVars, urlVars, element, waveVars, loadVars>>

Read == [of : Paths, newest : BOOLEAN]

\* The empty source has not failed yet.
NewlyEmpty == notices # << >> /\ Head(notices) = "error"

\* A play() is neither done nor refused.
PlayWaits == ~paused /\ (media = "fetching" \/ NewlyEmpty)

\* The user's presses come after the event that the emptied source queued before them.
Attend == mounted /\ Len(notices) < 2 /\ ~NewlyEmpty

-----------------------------------------------------------------------------
\* The element.

CutSound ==
  /\ paused' = TRUE
  /\ notices' = IF paused THEN notices ELSE Append(notices, "pause")
  /\ UNCHANGED <<src, media>>

\* pause() refuses the play() that waits, and the bar shows it.
PauseElement == CutSound /\ loadError' = (loadError \/ PlayWaits)

\* A new source drops the events of the last one.  The empty one fails by itself.
SetSource(p) ==
  /\ src' = p /\ media' = IF p = None THEN "none" ELSE "fetching"
  /\ paused' = TRUE /\ notices' = IF p = None THEN <<"error">> ELSE << >>

\* What play() does with a source that has failed.
SourceFailed == media = "bad" \/ (media = "none" /\ ~NewlyEmpty)

PlayElement ==
  IF SourceFailed
    THEN loadError' = TRUE /\ UNCHANGED element
    ELSE /\ paused' = FALSE
         /\ notices' = IF paused THEN Append(notices, "play") ELSE notices
         /\ UNCHANGED <<loadError, src, media>>

-----------------------------------------------------------------------------
\* The two effects.

RevokeUrl ==
  /\ urls' = urls - (IF objectUrl = None THEN 0 ELSE 1)
  /\ objectUrl' = None

Overtake == reads' = Overtaken(reads) /\ listening' = FALSE

\* The effect of path.
PathEffect ==
  /\ Overtake
  /\ SetSource(None)
  /\ RevokeUrl
  /\ IF objectUrl = None THEN UNCHANGED <<audioUrl, wave>> ELSE audioUrl' = None /\ wave' = "none"
  /\ held' = "none"
  /\ errorTimer' = FALSE
  /\ pathTimer' = TRUE

\* The effect of stablePath, up to its await.
LoadAudio(p) ==
  /\ reads' = Overtaken(reads) \cup (IF p = None THEN {} ELSE {[of |-> p, newest |-> TRUE]})
  /\ listening' = (p # None)
  /\ barLoading' = (p # None)
  /\ loadError' = ((p = None /\ loadError) \/ PlayWaits)
  /\ playing' = FALSE

\* Its cleanup.
CleanUpLoad ==
  /\ RevokeUrl
  /\ errorTimer' = FALSE

-----------------------------------------------------------------------------
\* Coming, going and changing.

\* A sample is selected: both effects of a new bar.
ShowBar(p) ==
  /\ ~mounted /\ Room(reads)
  /\ mounted' = TRUE /\ path' = p /\ stablePath' = p /\ pathTimer' = TRUE
  /\ barLoading' = (p # None) /\ loadError' = FALSE /\ playing' = FALSE /\ errorTimer' = FALSE
  /\ reads' = Overtaken(reads) \cup (IF p = None THEN {} ELSE {[of |-> p, newest |-> TRUE]})
  /\ listening' = (p # None)
  /\ SetSource(None)
  /\ audioUrl' = None /\ wave' = "none" /\ held' = "none" /\ returned' = FALSE
  /\ UNCHANGED <<barAutoPlay, objectUrl, urls>>

\* Another sample, none, or another screen: both cleanups.
LeaveBar ==
  /\ mounted' = FALSE /\ path' = None /\ stablePath' = None /\ pathTimer' = FALSE
  /\ Overtake /\ CleanUpLoad
  /\ barLoading' = FALSE /\ loadError' = FALSE /\ playing' = FALSE
  /\ audioUrl' = None /\ wave' = "none" /\ held' = "none" /\ returned' = FALSE
  /\ paused' = TRUE /\ notices' = << >>
  /\ UNCHANGED <<barAutoPlay, src, media>>

HideBar == mounted /\ LeaveBar

\* The close button stops the sound and deselects.
CloseBar == mounted /\ LeaveBar

ChangePath(p) ==
  /\ mounted /\ p # path /\ Room(reads)
  /\ path' = p
  /\ PathEffect
  /\ loadError' = (loadError \/ PlayWaits)
  /\ returned' = (p = stablePath)
  /\ UNCHANGED <<mounted, barAutoPlay, stablePath, barLoading, playing>>

PathTimerFires ==
  /\ pathTimer
  /\ pathTimer' = FALSE /\ stablePath' = path
  /\ IF path = stablePath
       THEN UNCHANGED <<reads, listening, shownVars, objectUrl, urls, element>>
       ELSE /\ CleanUpLoad
            /\ LoadAudio(path)
            /\ IF path = None THEN SetSource(None) ELSE CutSound
  /\ UNCHANGED <<propVars, audioUrl, waveVars, returned>>

\* The setting, or a preview for a client, which does not play by itself.
SetAutoPlay ==
  /\ barAutoPlay' = ~barAutoPlay
  /\ wave' = IF ~barAutoPlay \/ audioUrl = None THEN "none" ELSE "loading"
  /\ held' = IF ~barAutoPlay /\ held = "live" THEN "gone" ELSE held
  /\ UNCHANGED <<mounted, path, shownVars, urlVars, element, loadVars>>

-----------------------------------------------------------------------------
\* Loading.

ReadReturns(r) ==
  /\ reads' = reads \ {r}
  /\ IF r.newest
       THEN /\ objectUrl' = r.of /\ audioUrl' = r.of /\ urls' = urls + 1
            /\ SetSource(r.of)
            /\ loadError' = (loadError \/ PlayWaits)
            /\ wave' = IF barAutoPlay THEN "none" ELSE "loading"
       ELSE UNCHANGED <<urlVars, element, wave, loadError>>
  /\ UNCHANGED <<propVars, barLoading, errorTimer, playing, held, stablePath, pathTimer, listening,
                 returned>>

ReadFails(r) ==
  /\ reads' = reads \ {r}
  /\ loadError' = (loadError \/ r.newest)
  /\ barLoading' = (barLoading /\ ~r.newest)
  /\ UNCHANGED <<propVars, errorTimer, playing, urlVars, element, waveVars, stablePath,
                 pathTimer, listening, returned>>

\* onloadedmetadata, which may follow an error.
MetadataLoaded ==
  /\ media \in {"fetching", "bad"}
  /\ media' = "ready"
  /\ IF listening
       THEN /\ barLoading' = FALSE /\ loadError' = FALSE /\ errorTimer' = FALSE
            /\ paused' = (paused /\ ~barAutoPlay)
            /\ notices' = IF paused /\ barAutoPlay THEN Append(notices, "play") ELSE notices
       ELSE UNCHANGED <<barLoading, loadError, errorTimer, paused, notices>>
  /\ UNCHANGED <<propVars, playing, urlVars, src, waveVars, loadVars>>

\* onerror: it is confirmed a little later.  The play() that waits is refused.
OnError ==
  /\ barLoading' = (barLoading /\ ~listening)
  /\ errorTimer' = (errorTimer \/ listening)
  /\ loadError' = (loadError \/ ~paused)
  /\ UNCHANGED <<propVars, playing, urlVars, src, paused, waveVars, loadVars>>

MediaFails ==
  /\ media = "fetching"
  /\ media' = "bad" /\ UNCHANGED notices
  /\ OnError

\* The empty source fails, which the handlers of the next load may hear.
EmptySourceFails ==
  /\ NewlyEmpty
  /\ notices' = Tail(notices) /\ UNCHANGED media
  /\ OnError

ErrorTimerFires ==
  /\ errorTimer
  /\ errorTimer' = FALSE /\ loadError' = TRUE
  /\ UNCHANGED <<propVars, barLoading, playing, urlVars, element, waveVars, loadVars>>

-----------------------------------------------------------------------------
\* Playing.

\* onplay, onpause and onended.
Hear ==
  /\ notices # << >> /\ ~NewlyEmpty
  /\ notices' = Tail(notices)
  /\ playing' = IF listening THEN Head(notices) = "play" ELSE playing
  /\ UNCHANGED <<propVars, barLoading, loadError, errorTimer, urlVars, src, media, paused,
                 waveVars, loadVars>>

SoundEnds ==
  /\ ~paused /\ media = "ready" /\ Len(notices) < 2
  /\ PauseElement
  /\ UNCHANGED <<propVars, shownVars, urlVars, waveVars, loadVars>>

\* ontimeupdate: the end of the trimmed part.
TrimEnds == listening /\ SoundEnds

\* stop()
StopSound == PauseElement /\ playing' = FALSE

PlaySound == (IF paused THEN PlayElement ELSE UNCHANGED <<element, loadError>>) /\ UNCHANGED playing

Press(step) ==
  /\ Attend /\ step
  /\ UNCHANGED <<propVars, barLoading, errorTimer, urlVars, waveVars, loadVars>>

\* The button: it takes an error away, and waits while the file loads.
HandlePlayButtonClick ==
  CASE loadError -> loadError' = FALSE /\ UNCHANGED <<element, playing>>
    [] ~loadError /\ barLoading -> UNCHANGED <<element, playing, loadError>>
    [] ~loadError /\ ~barLoading /\ playing -> PauseElement /\ UNCHANGED playing
    [] ~loadError /\ ~barLoading /\ ~playing -> PlaySound

\* The space bar.
TogglePlayback == IF playing THEN StopSound ELSE PlaySound

\* playFromStart, for a client that asks for a preview.
RestartElement ==
  IF SourceFailed
    THEN loadError' = TRUE /\ CutSound
    ELSE /\ paused' = FALSE
         /\ notices' = (IF paused THEN notices ELSE Append(notices, "pause")) \o <<"play">>
         /\ loadError' = (loadError \/ PlayWaits)
         /\ UNCHANGED <<src, media>>

PlayFromStart == RestartElement /\ UNCHANGED playing

-----------------------------------------------------------------------------
\* The waveform.

WaveReady ==
  /\ wave = "loading"
  /\ wave' = "ready" /\ held' = "live"
  /\ UNCHANGED <<propVars, shownVars, urlVars, element, loadVars>>

WaveFails ==
  /\ wave = "loading"
  /\ wave' = "failed"
  /\ UNCHANGED <<propVars, shownVars, urlVars, element, held, loadVars>>

\* Another type has other colours: a new instance, to which nothing is loaded.
Recolour ==
  /\ wave # "none"
  /\ wave' = "empty"
  /\ held' = IF held = "live" THEN "gone" ELSE held
  /\ UNCHANGED <<propVars, shownVars, urlVars, element, loadVars>>

-----------------------------------------------------------------------------
BarInit ==
  /\ mounted = FALSE /\ path = None /\ barAutoPlay \in BOOLEAN
  /\ stablePath = None /\ pathTimer = FALSE
  /\ barLoading = FALSE /\ loadError = FALSE /\ errorTimer = FALSE /\ playing = FALSE
  /\ reads = {} /\ listening = FALSE
  /\ objectUrl = None /\ audioUrl = None /\ urls = 0
  /\ src = None /\ media = "none" /\ paused = TRUE /\ notices = << >>
  /\ wave = "none" /\ held = "none" /\ returned = FALSE

BarUser ==
  \/ \E p \in Paths \cup {None} : ShowBar(p) \/ ChangePath(p)
  \/ HideBar \/ CloseBar \/ SetAutoPlay \/ Recolour
  \/ Press(HandlePlayButtonClick) \/ Press(TogglePlayback) \/ Press(PlayFromStart)

BarReturn ==
  \/ PathTimerFires \/ ErrorTimerFires \/ Hear \/ WaveReady \/ WaveFails
  \/ MetadataLoaded \/ MediaFails \/ EmptySourceFails \/ SoundEnds \/ TrimEnds
  \/ \E r \in reads : ReadReturns(r) \/ ReadFails(r)

BarNext == BarUser \/ BarReturn

BarSpec == BarInit /\ [][BarNext]_barVars

-----------------------------------------------------------------------------
\* Each variable of the bar has its type.
BarTypeOK ==
  /\ {mounted, barAutoPlay, pathTimer, barLoading, loadError, errorTimer, playing, listening,
      paused, returned} \subseteq BOOLEAN
  /\ {path, stablePath, objectUrl, audioUrl, src} \subseteq Paths \cup {None}
  /\ reads \subseteq Read /\ urls \in Nat
  /\ media \in {"none", "fetching", "ready", "bad"}
  /\ notices \in Seq({"play", "pause", "error"})
  /\ wave \in {"none", "empty", "loading", "ready", "failed"}
  /\ held \in {"none", "live", "gone"}

\* No object URL outlives its load, and the waveform is given a live one.
NoLeakedUrl ==
  /\ urls = (IF objectUrl = None THEN 0 ELSE 1)
  /\ audioUrl = objectUrl
  /\ wave # "none" => audioUrl # None

\* What is heard is the file of the selected sample; without a bar, nothing.
SoundOfPath == ~paused => mounted /\ src = path

\* The button tells what the element does once its events are dispatched.
PlayingIsHeard == mounted /\ listening /\ notices = << >> => (playing <=> ~paused)

\* What loads is ended by something that is under way, and a file has its handlers:
\* unless the path left and came back before the timer saw it.  The error of the
\* emptied source, which is heard by the load that comes after it, is the newest
\* load's to confirm, and is not confirmed once the file is there.
LoadingEnds ==
  mounted /\ ~returned =>
    /\ barLoading => pathTimer \/ media = "fetching" \/ (\E r \in reads : r.newest)
    /\ stablePath # None => pathTimer \/ listening
    /\ errorTimer => listening /\ media # "ready"
===============================================================================
