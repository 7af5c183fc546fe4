---------------------------- MODULE ExternalPreview ----------------------------
(***************************************************************************)
(* A client's preview of a sample, from the command to the player bar: the *)
(* preview half of useExternalApiCommands, with the selection and the key  *)
(* of the bar in AppView.                                                  *)
(*                                                                         *)
(* React calls the ref of the bar when it mounts or unmounts, and whenever *)
(* its handle changes because playing did.  Each such call counts as the   *)
(* bar being ready, and an effect then starts the pending preview.         *)
(*                                                                         *)
(* A sample is named by its path.  The bar of this code can always start   *)
(* from the beginning, so the branch that rejects a bar is left out.       *)
(***************************************************************************)
EXTENDS PlayerBar

CONSTANTS MaxPreviews  \* bound of the model: commands

ASSUME PreviewsAssumption == MaxPreviews \in Nat

VARIABLES
  chosen,            \* the selected sample, while the sample list is on screen
  barOf,             \* the sample that the mounted bar is for
  autoPlayOnSelect,
  command,           \* the preview that is handled, with what its closure saw
  pendingPreview, stoppedPreview, awaitingPlayer,   \* refs
  previewSample,     \* previewSampleId
  effectDue,         \* the effect has not run since one of its inputs changed
  previewCount,      \* history: how many commands there were
  starts,            \* history: how often the effect started the newest preview
  asked,             \* history: the newest preview, if nobody and nothing else interfered
  heard              \* history: it sounded since

chosenVars == <<chosen, barOf, autoPlayOnSelect>>
refVars == <<pendingPreview, stoppedPreview, awaitingPlayer, previewSample>>
previewHistory == <<previewCount, starts, asked>>
externalPreviewVars == <<chosenVars, command, refVars, effectDue, previewHistory, heard>>

PreviewCommands == [sample : Paths, bar : Paths \cup {None}, chosen : Paths \cup {None},
                    step : {"begin", "rows", "done"}]

AutoPlayWanted == autoPlayOnSelect /\ chosen # previewSample

Rendered == barOf = chosen /\ barAutoPlay = AutoPlayWanted

\* setPlayerBarRef
OnPlayerBarReady ==
  /\ awaitingPlayer' = (awaitingPlayer /\ pendingPreview = None)
  /\ effectDue' = TRUE

-----------------------------------------------------------------------------
\* The command.

\* A drain keeps the closures of the render in which it was woken.
WakePreview(s) ==
  /\ command = None /\ previewCount < MaxPreviews /\ Rendered
  /\ command' = [sample |-> s, bar |-> barOf, chosen |-> chosen, step |-> "begin"]
  /\ previewCount' = previewCount + 1 /\ asked' = None
  /\ UNCHANGED <<barVars, chosenVars, refVars, effectDue, starts>>

\* Another command of the same claim.
NextPreview(s) ==
  /\ command # None /\ command.step = "done"
  /\ previewCount < MaxPreviews
  /\ command' = [command EXCEPT !.sample = s, !.step = "begin"]
  /\ previewCount' = previewCount + 1 /\ asked' = None
  /\ UNCHANGED <<barVars, chosenVars, refVars, effectDue, starts>>

\* stop() of the bar that the closure knows, which shares its element with the bar
\* on screen.
StopKnownBar ==
  IF command.bar = None THEN UNCHANGED <<element, playing, loadError>>
  ELSE PauseElement /\ playing' = (playing /\ command.bar # barOf)

BeginPreview ==
  /\ command # None /\ command.step = "begin"
  /\ IF pendingPreview = command.sample
       THEN /\ command' = [command EXCEPT !.step = "done"]
            /\ UNCHANGED <<barVars, stoppedPreview, awaitingPlayer, effectDue>>
       ELSE /\ command' = [command EXCEPT !.step = "rows"]
            /\ StopKnownBar
            /\ stoppedPreview' = IF command.bar = None THEN None ELSE command.sample
            /\ IF playing' # playing THEN OnPlayerBarReady ELSE UNCHANGED <<awaitingPlayer, effectDue>>
            /\ UNCHANGED <<propVars, barLoading, errorTimer, urlVars, waveVars, loadVars>>
  /\ UNCHANGED <<chosenVars, pendingPreview, previewSample, previewHistory>>

\* get_samples_by_ids found it: handleSampleSelect of the closure stops the sound only
\* if another sample was selected then.
PreviewFound ==
  /\ command # None /\ command.step = "rows"
  /\ command' = [command EXCEPT !.step = "done"]
  /\ pendingPreview' = command.sample /\ awaitingPlayer' = TRUE
  /\ previewSample' = command.sample /\ chosen' = command.sample
  /\ effectDue' = (effectDue \/ previewSample # command.sample)
  /\ IF command.chosen # command.sample THEN StopKnownBar ELSE UNCHANGED <<element, playing, loadError>>
  /\ starts' = 0 /\ asked' = command.sample
  /\ UNCHANGED <<propVars, barLoading, errorTimer, urlVars, waveVars, loadVars,
                 barOf, autoPlayOnSelect, stoppedPreview, previewCount>>

\* The sample is gone, or the call failed and the command will come again.
PreviewNotFound ==
  /\ command # None /\ command.step = "rows"
  /\ command' = [command EXCEPT !.step = "done"]
  /\ UNCHANGED <<barVars, chosenVars, refVars, effectDue, previewHistory>>

EndDrain ==
  /\ command # None /\ command.step = "done"
  /\ command' = None
  /\ UNCHANGED <<barVars, chosenVars, refVars, effectDue, previewHistory>>

-----------------------------------------------------------------------------
\* Rendering.

RenderAutoPlay ==
  /\ barAutoPlay # AutoPlayWanted
  /\ SetAutoPlay
  /\ UNCHANGED <<chosenVars, command, refVars, effectDue, previewHistory>>

UnmountBar ==
  /\ mounted /\ barOf # chosen
  /\ LeaveBar /\ barOf' = None
  /\ OnPlayerBarReady
  /\ UNCHANGED <<chosen, autoPlayOnSelect, command, pendingPreview, stoppedPreview, previewSample,
                 previewHistory>>

\* The path is that of the row on screen, if there is one.
MountBar(p) ==
  /\ ~mounted /\ chosen # None /\ p \in {chosen, None} /\ barAutoPlay = AutoPlayWanted
  /\ ShowBar(p) /\ barOf' = chosen
  /\ OnPlayerBarReady
  /\ asked' = IF p = None THEN None ELSE asked
  /\ UNCHANGED <<chosen, autoPlayOnSelect, command, pendingPreview, stoppedPreview, previewSample,
                 previewCount, starts>>

\* Bug: the preview stays pending after it was started.
KeepPending == UNCHANGED pendingPreview

ForgetPending == pendingPreview' = None

ReadyToStart ==
  /\ previewSample # None /\ pendingPreview = previewSample
  /\ ~awaitingPlayer /\ mounted

\* The effect, which runs when the bar on screen is that of the selection: it starts
\* what is pending, once the bar counts as ready, and stops first what was not stopped.
\* The element of a new bar has just lost its source, and may not know yet.
PreviewEffect ==
  /\ effectDue /\ barOf = chosen
  /\ IF ReadyToStart
       THEN /\ RestartElement
            /\ playing' = (playing /\ stoppedPreview = previewSample)
            /\ stoppedPreview' = previewSample
            /\ ForgetPending
            /\ effectDue' = (playing' # playing)
            /\ starts' = starts + 1
            /\ UNCHANGED <<propVars, barLoading, errorTimer, urlVars, waveVars, loadVars>>
       ELSE effectDue' = FALSE /\ UNCHANGED <<barVars, stoppedPreview, pendingPreview, starts>>
  /\ UNCHANGED <<chosenVars, command, awaitingPlayer, previewSample, previewCount, asked>>

-----------------------------------------------------------------------------
\* The bar by itself: a new handle whenever playing changes.
BarMoves(step) ==
  /\ step
  /\ IF mounted /\ playing' # playing THEN OnPlayerBarReady ELSE UNCHANGED <<awaitingPlayer, effectDue>>
  /\ UNCHANGED <<chosenVars, command, pendingPreview, stoppedPreview, previewSample, previewCount, starts>>

BarAlone ==
  \/ BarMoves(PathTimerFires \/ ErrorTimerFires \/ Hear \/ MetadataLoaded \/ SoundEnds \/ EmptySourceFails)
     /\ UNCHANGED asked
  \/ BarMoves(MediaFails) /\ asked' = None
  \/ \E r \in reads : \/ BarMoves(ReadReturns(r)) /\ UNCHANGED asked
                      \/ BarMoves(ReadFails(r)) /\ asked' = None

PreviewUser ==
  /\ Rendered /\ asked' = None
  /\ \/ BarMoves(Press(HandlePlayButtonClick) \/ Press(TogglePlayback))
     \/ \E p \in {barOf, None} : BarMoves(ChangePath(p))
     \/ \E s \in (Paths \cup {None}) \ {chosen} :
          /\ chosen' = s
          /\ IF mounted THEN Press(StopSound) ELSE UNCHANGED barVars
          /\ IF playing' # playing THEN OnPlayerBarReady ELSE UNCHANGED <<awaitingPlayer, effectDue>>
          /\ UNCHANGED <<barOf, autoPlayOnSelect, command, pendingPreview, stoppedPreview,
                         previewSample, previewCount, starts>>

-----------------------------------------------------------------------------
PreviewInit ==
  /\ BarInit /\ autoPlayOnSelect = barAutoPlay
  /\ chosen = None /\ barOf = None /\ command = None
  /\ pendingPreview = None /\ stoppedPreview = None /\ awaitingPlayer = FALSE
  /\ previewSample = None /\ effectDue = FALSE
  /\ previewCount = 0 /\ starts = 0 /\ asked = None /\ heard = FALSE

PreviewNext ==
  /\ \/ \E s \in Paths : WakePreview(s) \/ NextPreview(s)
     \/ BeginPreview \/ PreviewFound \/ PreviewNotFound \/ EndDrain
     \/ RenderAutoPlay \/ UnmountBar \/ (\E p \in Paths \cup {None} : MountBar(p)) \/ PreviewEffect
     \/ BarAlone \/ PreviewUser
  /\ heard' = (asked' # None /\ asked' = asked /\ (heard \/ (~paused' /\ src' = asked')))

PreviewSpec == PreviewInit /\ [][PreviewNext]_<<barVars, externalPreviewVars>>

-----------------------------------------------------------------------------
\* Each variable of the preview and the bar has its type.
PreviewTypeOK ==
  /\ BarTypeOK
  /\ command \in PreviewCommands \cup {None}
  /\ {chosen, barOf, pendingPreview, stoppedPreview, previewSample, asked} \subseteq Paths \cup {None}
  /\ {autoPlayOnSelect, awaitingPlayer, effectDue, heard} \subseteq BOOLEAN
  /\ previewCount \in 0..MaxPreviews /\ starts \in Nat

\* A command starts its sample once at most, though the bar counts as ready again
\* with each change of its handle and the effect runs again with each.
PreviewOnce == starts <= 1

\* Nothing is left to do: no call, event, timer or render.
Quiet == Rendered /\ ~effectDue /\ command = None /\ notices = << >> /\ ~pathTimer /\ reads = {}

\* mcp-server/README.md:101: preview_sample "waits for the selected player to be ready,
\* then starts exactly one preview from the beginning".  With the file loaded, and with
\* no user, no other command and no error in between, the sample was heard.
PreviewHeard == asked # None /\ Quiet /\ media = "ready" => heard
===============================================================================
