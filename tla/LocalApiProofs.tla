---------------------------- MODULE LocalApiProofs ----------------------------
(***************************************************************************)
(* Proofs about the local API: the life of the connection manifest and the *)
(* client's one retry, for any number of starts of the app and of calls;   *)
(* the previews that clients ask for, with the player bar they start; and  *)
(* the three ends of it together, with the queue of UiCommandQueueProofs.  *)
(***************************************************************************)
EXTENDS MCLocalApi, UiCommandQueueProofs, ScreenProofs

-----------------------------------------------------------------------------
(* The processes of the app, and the calls of a client. *)

HoldsPort(i) == life[i] \in {"bound", "cleaned", "serving", "stopping"}

\* Only the holder of the port writes the manifest, and an instance that is
\* about to remove its own has been succeeded, if at all, by overtaken ones.
ServerInv ==
  /\ \A i \in Instances : HoldsPort(i) => port = i
  /\ \A i \in Instances : life[i] = "cleaned" => manifest = Nobody
  /\ ManifestNamesListener
  /\ DiscoverableUnlessOvertaken
  /\ \A i, j \in Instances :
       life[i] = "serving" /\ life[j] = "removing" => i \in overtaken

\* A call that may still send its request has not been let in before.
ClientInv ==
  /\ AdmittedOnce
  /\ \A c \in Calls :
       call[c] \in {"idle", "check", "send", "unauthorized"} => admissions[c] = 0

RuntimeInv == RuntimeTypeOK /\ ServerInv /\ ClientInv

\* The types and the invariant hold initially.
LEMMA RuntimeInitInv == Init => RuntimeInv
BY RuntimeAssumption
   DEF Init, RuntimeInv, RuntimeTypeOK, ServerInv, ClientInv, HoldsPort, Serving,
       ManifestNamesListener, DiscoverableUnlessOvertaken, AdmittedOnce, Lives, CallSteps

\* No step leaves the types; the second attempt of a call is its last.
LEMMA RuntimeNextType == RuntimeTypeOK /\ [Next]_vars => RuntimeTypeOK'
<1> SUFFICES ASSUME RuntimeTypeOK, [Next]_vars
             PROVE  RuntimeTypeOK'
  OBVIOUS
<1> USE RuntimeAssumption DEF RuntimeTypeOK, Lives, CallSteps, Become, Step, serverVars, clientVars
<1>1. ASSUME NEW i \in Instances, Process(i)
      PROVE  RuntimeTypeOK'
  BY <1>1 DEF Process, Bind, BindFails, KeepManifest, CleanUp, StartFails, Publish, Exit,
              StopListening, ReadManifest, RemoveManifest, Crash
<1>2. ASSUME NEW c \in Calls, Client(c)
      PROVE  RuntimeTypeOK'
  BY <1>2 DEF Client, Load, CheckProcess, Admitted, Unauthorized, Answered, Fails,
              Retry, FirstAttempt, GiveUp
<1>3. CASE UNCHANGED vars
  BY <1>3 DEF vars
<1> QED BY <1>1, <1>2, <1>3 DEF Next

\* A step of a process keeps the manifest that of the listener.
LEMMA ProcessInv ==
  ASSUME RuntimeTypeOK, ServerInv, NEW i \in Instances, Process(i)
  PROVE  ServerInv'
<1> USE RuntimeAssumption
    DEF RuntimeTypeOK, Lives, ServerInv, ManifestNamesListener, DiscoverableUnlessOvertaken,
        HoldsPort, Serving, Become
<1>1. CASE Bind(i)           BY <1>1 DEF Bind
<1>2. CASE BindFails(i)      BY <1>2 DEF BindFails, KeepManifest
<1>3. CASE CleanUp(i)        BY <1>3 DEF CleanUp
<1>4. CASE StartFails(i)     BY <1>4 DEF StartFails
<1>5. CASE Publish(i)        BY <1>5 DEF Publish
<1>6. CASE Exit(i)           BY <1>6 DEF Exit
<1>7. CASE StopListening(i)  BY <1>7 DEF StopListening
<1>8. CASE ReadManifest(i)   BY <1>8 DEF ReadManifest, Owns
<1>9. CASE RemoveManifest(i) BY <1>9 DEF RemoveManifest
<1>10. CASE Crash(i)         BY <1>10 DEF Crash, Running
<1> QED BY <1>1, <1>2, <1>3, <1>4, <1>5, <1>6, <1>7, <1>8, <1>9, <1>10, Process(i)
        DEF Process

\* A step of a call keeps every call admitted at most once.
LEMMA CallInv ==
  ASSUME RuntimeTypeOK, ClientInv, NEW c \in Calls, Client(c)
  PROVE  ClientInv'
<1> USE DEF RuntimeTypeOK, ClientInv, AdmittedOnce, Step
<1>1. CASE Load(c)         BY <1>1 DEF Load
<1>2. CASE CheckProcess(c) BY <1>2 DEF CheckProcess
<1>3. CASE Admitted(c)     BY <1>3 DEF Admitted
<1>4. CASE Unauthorized(c) BY <1>4 DEF Unauthorized
<1>5. CASE Answered(c)     BY <1>5 DEF Answered
<1>6. CASE Fails(c)        BY <1>6 DEF Fails
<1>7. CASE Retry(c)        BY <1>7 DEF Retry, Retryable
<1>8. CASE GiveUp(c)       BY <1>8 DEF GiveUp
<1> QED BY <1>1, <1>2, <1>3, <1>4, <1>5, <1>6, <1>7, <1>8, Client(c) DEF Client

\* The invariant is inductive: servers and clients disturb it separately.
LEMMA RuntimeNextInv == RuntimeInv /\ [Next]_vars => RuntimeInv'
<1> SUFFICES ASSUME RuntimeInv, [Next]_vars
             PROVE  RuntimeInv'
  OBVIOUS
<1>1. RuntimeTypeOK'
  BY RuntimeNextType DEF RuntimeInv
<1>2. ASSUME UNCHANGED serverVars
      PROVE  ServerInv'
  BY <1>2 DEF RuntimeInv, serverVars, ServerInv, ManifestNamesListener,
              DiscoverableUnlessOvertaken, HoldsPort, Serving
<1>3. ASSUME UNCHANGED clientVars
      PROVE  ClientInv'
  BY <1>3 DEF RuntimeInv, clientVars, ClientInv, AdmittedOnce
<1>4. ASSUME NEW i \in Instances, Process(i)
      PROVE  RuntimeInv'
  <2>1. ServerInv'
    BY <1>4, ProcessInv DEF RuntimeInv
  <2>2. UNCHANGED clientVars
    BY <1>4 DEF Process, Bind, BindFails, CleanUp, StartFails, Publish, Exit,
                StopListening, ReadManifest, RemoveManifest, Crash
  <2> QED BY <1>1, <1>3, <2>1, <2>2 DEF RuntimeInv
<1>5. ASSUME NEW c \in Calls, Client(c)
      PROVE  RuntimeInv'
  <2>1. ClientInv'
    BY <1>5, CallInv DEF RuntimeInv
  <2>2. UNCHANGED serverVars
    BY <1>5 DEF Client, Load, CheckProcess, Admitted, Unauthorized, Answered, Fails,
                Retry, GiveUp
  <2> QED BY <1>1, <1>2, <2>1, <2>2 DEF RuntimeInv
<1>6. CASE UNCHANGED vars
  <2>1. UNCHANGED serverVars /\ UNCHANGED clientVars
    BY <1>6 DEF vars
  <2> QED BY <1>1, <1>2, <1>3, <2>1 DEF RuntimeInv
<1> QED BY <1>4, <1>5, <1>6 DEF Next

\* What holds of processes and calls throughout.
THEOREM RuntimeInvariant == Spec => []RuntimeInv
BY RuntimeInitInv, RuntimeNextInv, PTL DEF Spec

\* The states of processes, the manifest and the calls stay well typed.
THEOREM RuntimeTypeCorrect == Spec => []RuntimeTypeOK
<1>1. RuntimeInv => RuntimeTypeOK  BY DEF RuntimeInv
<1> QED BY <1>1, RuntimeInvariant, PTL

\* A serving instance is never described by another one's manifest.
THEOREM ManifestDescribesListener == Spec => []ManifestNamesListener
<1>1. RuntimeInv => ManifestNamesListener  BY DEF RuntimeInv, ServerInv
<1> QED BY <1>1, RuntimeInvariant, PTL

\* The one way for a serving instance to lose its manifest is the race of its
\* publication with an older instance's removal.
THEOREM ServersAreDiscoverable == Spec => []DiscoverableUnlessOvertaken
<1>1. RuntimeInv => DiscoverableUnlessOvertaken  BY DEF RuntimeInv, ServerInv
<1> QED BY <1>1, RuntimeInvariant, PTL

\* A call that retries is still let in at most once.
THEOREM NoRequestAdmittedTwice == Spec => []AdmittedOnce
<1>1. RuntimeInv => AdmittedOnce  BY DEF RuntimeInv, ClientInv
<1> QED BY <1>1, RuntimeInvariant, PTL

-----------------------------------------------------------------------------
(* A client's preview. *)

\* The refs, the command and the histories have their types.
RefTypes ==
  /\ command \in PreviewCommands \cup {None}
  /\ {chosen, barOf, pendingPreview, stoppedPreview, previewSample, asked} \subseteq Paths \cup {None}
  /\ {autoPlayOnSelect, awaitingPlayer, effectDue, heard} \subseteq BOOLEAN
  /\ previewCount \in 0..MaxPreviews /\ starts \in Nat

\* A preview that is pending has not been started.
StartsOnce == starts <= 1 /\ (pendingPreview # None => starts = 0)

PreviewInv == BarInv /\ RefTypes /\ StartsOnce

LEMMA PreviewInitInv == PreviewInit => PreviewInv
  <1> SUFFICES ASSUME PreviewInit PROVE PreviewInv
    OBVIOUS
  <1>1. BarInv
    BY BarInitInv DEF PreviewInit
  <1>2. RefTypes
    <2>1. autoPlayOnSelect \in BOOLEAN
      BY DEF PreviewInit, BarInit
    <2>2. 0 \in 0..MaxPreviews /\ 0 \in Nat
      BY PreviewsAssumption
    <2> QED
      BY <2>1, <2>2, Zenon DEF PreviewInit, RefTypes
  <1>3. StartsOnce
    BY DEF PreviewInit, StartsOnce
  <1> QED
    BY <1>1, <1>2, <1>3 DEF PreviewInv

LEMMA ReadyTypes ==
  ASSUME RefTypes, OnPlayerBarReady
  PROVE  awaitingPlayer' \in BOOLEAN /\ effectDue' \in BOOLEAN
  <1>1. (awaitingPlayer /\ pendingPreview = None) \in BOOLEAN
    OBVIOUS
  <1> QED
    BY <1>1, Zenon DEF OnPlayerBarReady

\* Only a found sample becomes pending, and a start takes it away.
LEMMA KeptTypes ==
  ASSUME RefTypes, UNCHANGED <<chosen, barOf, autoPlayOnSelect, command, refVars, effectDue,
                               previewHistory>>,
         heard' \in BOOLEAN
  PROVE  RefTypes'
  BY DEF RefTypes, refVars, previewHistory

LEMMA KnownBarInv ==
  ASSUME BarInv, StopKnownBar \/ UNCHANGED <<element, playing, loadError>>,
         UNCHANGED <<propVars, barLoading, errorTimer, urlVars, waveVars, loadVars>>
  PROVE  BarInv'
  <1>1. CASE UNCHANGED <<element, playing, loadError>>
    <2>1. UNCHANGED barVars
      BY <1>1 DEF barVars, shownVars
    <2> QED
      BY <2>1, BarStutterInv
  <1>2. CASE PauseElement /\ playing' = (playing /\ command.bar # barOf)
    <2>1. playing' \in BOOLEAN
      BY <1>2, Zenon
    <2>2. /\ paused' = TRUE /\ notices' \in Seq({"play", "pause", "error"}) /\ loadError' \in BOOLEAN
          /\ src # None => notices' \in Seq({"play", "pause"})
          /\ UNCHANGED <<src, media>>
      BY <1>2, ElementTypes DEF PauseElement, CutSound
    <2>3. BarTypeOK'
      BY <2>1, <2>2 DEF BarInv, BarTypeOK, propVars, urlVars, waveVars, loadVars
    <2> QED
      BY <2>2, <2>3, SoundChanges DEF propVars, waveVars, loadVars
  <1> QED
    BY <1>1, <1>2 DEF StopKnownBar

\* The effect starts the element, though its source may be gone.
LEMMA EffectBarInv == ASSUME BarInv, PreviewEffect PROVE BarInv'
  <1>1. CASE ReadyToStart
    <2>1. /\ RestartElement
          /\ playing' = (playing /\ stoppedPreview = previewSample) /\ mounted
          /\ UNCHANGED <<propVars, barLoading, errorTimer, urlVars, waveVars, loadVars>>
      BY <1>1 DEF PreviewEffect, ReadyToStart
    <2>2. playing' \in BOOLEAN
      BY <2>1, Zenon
    <2>3. /\ paused' \in BOOLEAN /\ notices' \in Seq({"play", "pause", "error"})
          /\ loadError' \in BOOLEAN /\ UNCHANGED <<src, media>>
          /\ src # None => notices' \in Seq({"play", "pause"})
      BY <2>1, ElementTypes
    <2>4. BarTypeOK'
      BY <2>1, <2>2, <2>3 DEF BarInv, BarTypeOK, propVars, urlVars, waveVars, loadVars
    <2> QED
      BY <2>1, <2>3, <2>4, SoundChanges DEF propVars, waveVars, loadVars
  <1>2. CASE ~ReadyToStart
    BY <1>2, BarStutterInv DEF PreviewEffect
  <1> QED
    BY <1>1, <1>2

LEMMA PreviewNextInv == PreviewInv /\ [PreviewNext]_previewScreenVars => PreviewInv'
  <1> SUFFICES ASSUME PreviewInv, [PreviewNext]_previewScreenVars PROVE PreviewInv'
    OBVIOUS
  <1>0. BarInv /\ RefTypes /\ StartsOnce
    BY DEF PreviewInv
  <1>1. CASE UNCHANGED previewScreenVars
    <2>1. BarInv'
      BY <1>0, <1>1, BarStutterInv DEF previewScreenVars
    <2>2. RefTypes' /\ StartsOnce'
      BY <1>0, <1>1
         DEF previewScreenVars, externalPreviewVars, chosenVars, refVars, previewHistory, RefTypes,
             StartsOnce
    <2> QED
      BY <2>1, <2>2 DEF PreviewInv
  <1>2. CASE PreviewNext
    <2>0. heard' \in BOOLEAN
      BY <1>2, Zenon DEF PreviewNext
    <2> USE <1>0, <2>0
    <2>1. ASSUME NEW s \in Paths, WakePreview(s) \/ NextPreview(s) PROVE PreviewInv'
      <3>1. /\ UNCHANGED <<barVars, chosenVars, refVars, effectDue, starts>>
            /\ previewCount < MaxPreviews /\ previewCount' = previewCount + 1 /\ asked' = None
        BY <2>1 DEF WakePreview, NextPreview
      <3>2. BarInv'
        BY <3>1, BarStutterInv
      <3>3. command' \in PreviewCommands
        <4>1. CASE WakePreview(s)
          BY <4>1 DEF WakePreview, PreviewCommands, RefTypes
        <4>2. CASE NextPreview(s)
          BY <4>2 DEF NextPreview, PreviewCommands, RefTypes
        <4> QED
          BY <2>1, <4>1, <4>2
      <3>4. previewCount' \in 0..MaxPreviews
        BY <3>1, PreviewsAssumption DEF RefTypes
      <3>5. RefTypes'
        BY <3>1, <3>3, <3>4 DEF RefTypes, chosenVars, refVars
      <3>6. StartsOnce'
        BY <3>1 DEF StartsOnce, refVars
      <3> QED
        BY <3>2, <3>5, <3>6 DEF PreviewInv
    <2>2. CASE BeginPreview
      <3>1. /\ UNCHANGED <<chosenVars, pendingPreview, previewSample, previewHistory>>
            /\ command \in PreviewCommands
            /\ \/ command' = [command EXCEPT !.step = "done"]
               \/ command' = [command EXCEPT !.step = "rows"]
        BY <2>2 DEF BeginPreview, RefTypes
      <3>2. command' \in PreviewCommands
        BY <3>1 DEF PreviewCommands
      <3>3. BarInv'
        <4>1. CASE pendingPreview = command.sample
          BY <2>2, <4>1, BarStutterInv DEF BeginPreview
        <4>2. CASE pendingPreview # command.sample
          BY <2>2, <4>2, KnownBarInv DEF BeginPreview
        <4> QED
          BY <4>1, <4>2
      <3>4. /\ stoppedPreview' \in Paths \cup {None} /\ awaitingPlayer' \in BOOLEAN
            /\ effectDue' \in BOOLEAN
        BY <2>2, <3>1, ReadyTypes DEF BeginPreview, RefTypes, PreviewCommands
      <3>5. RefTypes'
        BY <3>1, <3>2, <3>4 DEF RefTypes, chosenVars, previewHistory
      <3>6. StartsOnce'
        BY <3>1 DEF StartsOnce, previewHistory
      <3> QED
        BY <3>3, <3>5, <3>6 DEF PreviewInv
    <2>3. CASE PreviewFound
      <3>1. /\ UNCHANGED <<propVars, barLoading, errorTimer, urlVars, waveVars, loadVars,
                           barOf, autoPlayOnSelect, stoppedPreview, previewCount>>
            /\ command \in PreviewCommands /\ command' = [command EXCEPT !.step = "done"]
            /\ pendingPreview' = command.sample /\ awaitingPlayer' = TRUE
            /\ previewSample' = command.sample /\ chosen' = command.sample
            /\ starts' = 0 /\ asked' = command.sample
            /\ StopKnownBar \/ UNCHANGED <<element, playing, loadError>>
        BY <2>3 DEF PreviewFound, RefTypes
      <3>2. command' \in PreviewCommands /\ command.sample \in Paths
        BY <3>1 DEF PreviewCommands
      <3>3. effectDue' \in BOOLEAN
        BY <2>3, Zenon DEF PreviewFound
      <3>4. BarInv'
        BY <3>1, KnownBarInv
      <3>5. RefTypes'
        BY <3>1, <3>2, <3>3 DEF RefTypes
      <3>6. StartsOnce'
        BY <3>1 DEF StartsOnce
      <3> QED
        BY <3>4, <3>5, <3>6 DEF PreviewInv
    <2>4. CASE PreviewNotFound \/ EndDrain
      <3>1. UNCHANGED <<barVars, chosenVars, refVars, effectDue, previewHistory>>
        BY <2>4 DEF PreviewNotFound, EndDrain
      <3>2. command' \in PreviewCommands \cup {None}
        BY <2>4 DEF PreviewNotFound, EndDrain, RefTypes, PreviewCommands
      <3>3. BarInv'
        BY <3>1, BarStutterInv
      <3>4. RefTypes' /\ StartsOnce'
        BY <3>1, <3>2 DEF RefTypes, StartsOnce, chosenVars, refVars, previewHistory
      <3> QED
        BY <3>3, <3>4 DEF PreviewInv
    <2>5. CASE RenderAutoPlay
      <3>1. BarInv'
        BY <2>5, AutoPlayInv DEF RenderAutoPlay
      <3>2. RefTypes' /\ StartsOnce'
        BY <2>5 DEF RenderAutoPlay, RefTypes, StartsOnce, chosenVars, refVars, previewHistory
      <3> QED
        BY <3>1, <3>2 DEF PreviewInv
    <2>6. CASE UnmountBar
      <3>1. BarInv'
        BY <2>6, LeaveBarInv DEF UnmountBar
      <3>2. RefTypes' /\ StartsOnce'
        BY <2>6, ReadyTypes DEF UnmountBar, RefTypes, StartsOnce, previewHistory
      <3> QED
        BY <3>1, <3>2 DEF PreviewInv
    <2>7. ASSUME NEW p \in Paths \cup {None}, MountBar(p) PROVE PreviewInv'
      <3>1. BarInv'
        BY <2>7, ShowBarInv DEF MountBar
      <3>2. RefTypes' /\ StartsOnce'
        BY <2>7, ReadyTypes DEF MountBar, RefTypes, StartsOnce
      <3> QED
        BY <3>1, <3>2 DEF PreviewInv
    <2>8. CASE PreviewEffect
      <3>1. BarInv'
        BY <2>8, EffectBarInv
      <3>2. effectDue' \in BOOLEAN
        <4>1. (playing' # playing) \in BOOLEAN
          OBVIOUS
        <4> QED
          BY <2>8, <4>1, Zenon DEF PreviewEffect
      <3>3. UNCHANGED <<chosenVars, command, awaitingPlayer, previewSample, previewCount, asked>>
        BY <2>8 DEF PreviewEffect
      <3>4. \/ UNCHANGED <<stoppedPreview, pendingPreview, starts>>
            \/ /\ pendingPreview # None /\ pendingPreview' = None /\ stoppedPreview' = previewSample
               /\ starts' = starts + 1
        BY <2>8 DEF PreviewEffect, ReadyToStart, ForgetPending
      <3>5. RefTypes'
        BY <3>2, <3>3, <3>4 DEF RefTypes, chosenVars
      <3>6. StartsOnce'
        BY <3>4 DEF StartsOnce, RefTypes
      <3> QED
        BY <3>1, <3>5, <3>6 DEF PreviewInv
    <2>9. ASSUME UNCHANGED <<chosenVars, command, pendingPreview, stoppedPreview, previewSample,
                             previewCount, starts>>,
                 OnPlayerBarReady \/ UNCHANGED <<awaitingPlayer, effectDue>>,
                 asked' \in {asked, None}, BarInv'
          PROVE  PreviewInv'
      <3>1. RefTypes' /\ StartsOnce'
        BY <2>9, ReadyTypes DEF RefTypes, StartsOnce, chosenVars
      <3> QED
        BY <2>9, <3>1 DEF PreviewInv
    <2>10. CASE BarAlone
      <3>1. [BarNext]_barVars
        BY <2>10 DEF BarAlone, BarMoves, BarNext, BarReturn
      <3>2. BarInv'
        BY <3>1, BarNextInv
      <3> QED
        BY <2>9, <2>10, <3>2 DEF BarAlone, BarMoves
    <2>11. CASE PreviewUser
      <3>1. CASE BarMoves(Press(HandlePlayButtonClick) \/ Press(TogglePlayback))
        <4>1. BarInv'
          BY <3>1, PressInv DEF BarMoves
        <4> QED
          BY <2>9, <2>11, <3>1, <4>1 DEF BarMoves, PreviewUser
      <3>2. ASSUME NEW p \in {barOf, None}, BarMoves(ChangePath(p)) PROVE PreviewInv'
        <4>1. p \in Paths \cup {None}
          BY DEF RefTypes
        <4>2. BarInv'
          BY <3>2, <4>1, ChangePathInv DEF BarMoves
        <4> QED
          BY <2>9, <2>11, <3>2, <4>2 DEF BarMoves, PreviewUser
      <3>3. ASSUME NEW s \in (Paths \cup {None}) \ {chosen},
                   chosen' = s, IF mounted THEN Press(StopSound) ELSE UNCHANGED barVars,
                   IF playing' # playing THEN OnPlayerBarReady
                                         ELSE UNCHANGED <<awaitingPlayer, effectDue>>,
                   UNCHANGED <<barOf, autoPlayOnSelect, command, pendingPreview, stoppedPreview,
                               previewSample, previewCount, starts>>
            PROVE  PreviewInv'
        <4>1. BarInv'
          BY <3>3, PressInv, BarStutterInv
        <4>2. asked' = None
          BY <2>11 DEF PreviewUser
        <4>3. RefTypes' /\ StartsOnce'
          BY <3>3, <4>2, ReadyTypes DEF RefTypes, StartsOnce
        <4> QED
          BY <4>1, <4>3 DEF PreviewInv
      <3> QED
        BY <2>11, <3>1, <3>2, <3>3 DEF PreviewUser
    <2> QED
      BY <1>2, <2>1, <2>2, <2>3, <2>4, <2>5, <2>6, <2>7, <2>8, <2>10, <2>11 DEF PreviewNext
  <1> QED
    BY <1>1, <1>2

LEMMA PreviewSafe == PreviewInv => PreviewTypeOK /\ PreviewKept
  <1> SUFFICES ASSUME PreviewInv PROVE PreviewTypeOK /\ PreviewKept
    OBVIOUS
  <1>1. PreviewTypeOK
    BY DEF PreviewInv, RefTypes, BarInv, PreviewTypeOK
  <1>2. PreviewOnce /\ NoLeakedUrl
    BY DEF PreviewInv, StartsOnce, BarInv, PreviewOnce
  <1>3. src # None => SoundOfPath
    BY DEF PreviewInv, BarInv, BarLoads, SoundOfPath
  <1>4. LoadingEnds
    BY DEF PreviewInv, BarInv, BarTypeOK, BarLoads, LoadingEnds
  <1> QED
    BY <1>1, <1>2, <1>3, <1>4 DEF PreviewKept

\* However commands, renders, the element's events and the user interleave, what is
\* read, loaded and pending fits together.
THEOREM PreviewInvariant == PreviewSpec => []PreviewInv
  <1>1. PreviewInv /\ [PreviewNext]_<<barVars, externalPreviewVars>> => PreviewInv'
    BY PreviewNextInv DEF previewScreenVars
  <1> QED
    BY PreviewInitInv, <1>1, PTL DEF PreviewSpec

-----------------------------------------------------------------------------
(* The three ends together. *)

\* While one of the three ends moves, the others rest: each of them behaves as it
\* does alone.
LEMMA EndsMoveAlone ==
  [LocalApiNext]_localApiVars =>
    [QueueNext]_queueVars /\ [Next]_vars /\ [PreviewNext]_previewScreenVars
  BY DEF LocalApiNext, localApiVars

\* The composition is each of the three ends, so whatever is proved of one of them
\* holds of it in the app.
THEOREM LocalApiEnds == LocalApiSpec => QueueSpec /\ Spec /\ PreviewSpec
  <1>1. LocalApiInit => QueueInit /\ Init /\ PreviewInit
    BY DEF LocalApiInit
  <1>2. [LocalApiNext]_localApiVars =>
          [QueueNext]_queueVars /\ [Next]_vars /\ [PreviewNext]_<<barVars, externalPreviewVars>>
    BY EndsMoveAlone DEF previewScreenVars
  <1> QED
    BY <1>1, <1>2, PTL DEF LocalApiSpec, QueueSpec, Spec, PreviewSpec

\* Each variable of the queue, of the processes and calls, and of the preview with its
\* bar has its type.
THEOREM LocalApiTypeCorrect == LocalApiSpec => []LocalApiTypeOK
  <1>1. QueueTypeOK /\ RuntimeTypeOK /\ PreviewTypeOK => LocalApiTypeOK
    BY DEF LocalApiTypeOK
  <1> QED
    BY <1>1, PreviewSafe, PreviewInvariant, LocalApiEnds, QueueTypeCorrect, RuntimeTypeCorrect, PTL

\* A preview is started once at most, though the bar counts as ready again and again;
\* what has a source and sounds is the sample on screen, no object URL is left over,
\* and the bar loads exactly while something will end it.
THEOREM PreviewsAreKept == LocalApiSpec => []PreviewKept
  BY PreviewSafe, PreviewInvariant, LocalApiEnds, PTL

\* In the app too, the queue is a mailbox that loses no command while it is leased.
THEOREM LocalApiImplementsMailbox == LocalApiSpec => ImplementsMailbox
  BY LocalApiEnds, QueueImplementsMailbox, PTL
===============================================================================
