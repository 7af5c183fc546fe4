------------------------------ MODULE PitchShift ------------------------------
(***************************************************************************)
(* The pitch control of the player bar's advanced panel                    *)
(* (components/PlayerBar/PitchShiftControl.tsx).  It puts a worklet        *)
(* between the shared audio element and the output, or, when that cannot   *)
(* be had, between the WaveSurfer instance and the output.  Its caches     *)
(* outlive the panel; an element gives its sound to one source node, once. *)
(***************************************************************************)
EXTENDS UiBase

CONSTANTS Surfers, Semitones

ASSUME PitchAssumption == 0 \in Semitones /\ None \notin {"element", "surfer"}

VARIABLES
  panel,      \* the control is on screen
  surfer,     \* its wavesurfer property
  ready,      \* None, or what the control is ready to shift
  semitones,
  setups,     \* runs of setup() that wait; newest: not cancelled
  entry,      \* htmlAudioPipelineCache: "none", "loading" or "wired"
  worklet,    \* the module: "unasked", "pending", "loaded" or "failed"
  route,      \* where the sound of the element goes
  shifted,    \* the semitones the worklet of the element was told
  surferPipes \* pipelineCache

pitchVars == <<panel, surfer, ready, semitones, setups, entry, worklet, route, shifted, surferPipes>>
pipeVars == <<entry, worklet, route, shifted, surferPipes>>

\* had: an entry was cached when it began.
Setup == [step : {"resume", "create", "wait", "surfer", "surferCreate", "surferWait"},
          had : BOOLEAN, with : Surfers \cup {None}, newest : BOOLEAN]

-----------------------------------------------------------------------------
\* The effect, and its cleanup.

Leave(s) == setups' = setups \ {s}
Move(s, step) == setups' = (setups \ {s}) \cup {[s EXCEPT !.step = step]}

Begin(w) ==
  /\ setups' = Overtaken(setups) \cup
       {[step |-> "resume", had |-> entry # "none", with |-> w, newest |-> TRUE]}
  /\ ready' = None

OpenAdvanced ==
  /\ ~panel /\ Room(setups)
  /\ panel' = TRUE /\ semitones' = 0
  /\ Begin(surfer)
  /\ UNCHANGED <<surfer, pipeVars>>

CloseAdvanced ==
  /\ panel
  /\ panel' = FALSE /\ ready' = None /\ semitones' = 0
  /\ setups' = Overtaken(setups)
  /\ UNCHANGED <<surfer, pipeVars>>

\* Another waveform is ready, or the last one is gone.
SurferChanges(w) ==
  /\ w # surfer
  /\ surfer' = w
  /\ IF panel THEN Room(setups) /\ Begin(w) ELSE UNCHANGED <<setups, ready>>
  /\ UNCHANGED <<panel, semitones, pipeVars>>

\* Ready: the worklet is told.
BecomeReady(what) ==
  /\ ready' = what
  /\ shifted' = IF what = "element" THEN semitones ELSE shifted

\* The slider, and the button for 0.
SetSemitones(n) ==
  /\ panel /\ (n = 0 \/ ready # None)
  /\ semitones' = n
  /\ shifted' = IF ready = "element" THEN n ELSE shifted
  /\ UNCHANGED <<panel, surfer, ready, setups, entry, worklet, route, surferPipes>>

-----------------------------------------------------------------------------
\* The pipeline of the element.

\* The context is resumed.  A second source node for the element is refused.
Resumed(s) ==
  /\ s.step = "resume"
  /\ CASE ~s.newest -> Leave(s) /\ UNCHANGED <<entry, worklet, route>>
       [] s.newest /\ s.had -> Move(s, "wait") /\ UNCHANGED <<entry, worklet, route>>
       [] s.newest /\ ~s.had /\ route # "direct" -> Leave(s) /\ UNCHANGED <<entry, worklet, route>>
       [] s.newest /\ ~s.had /\ route = "direct" ->
            /\ Move(s, "create")
            /\ entry' = "loading" /\ worklet' = "pending" /\ route' = "muted"
  /\ UNCHANGED <<panel, surfer, ready, semitones, shifted, surferPipes>>

ModuleSettles ==
  /\ worklet = "pending"
  /\ worklet' \in {"loaded", "failed"}
  /\ UNCHANGED <<panel, surfer, ready, semitones, setups, entry, route, shifted, surferPipes>>

\* The sound goes to the output without a worklet.
DropEntry == entry' = "none" /\ route' = "output"

Created(s) ==
  /\ s.step = "create" /\ worklet # "pending"
  /\ Leave(s)
  /\ IF worklet = "failed" \/ ~s.newest
       THEN DropEntry /\ UNCHANGED <<ready, shifted>>
       ELSE entry' = "wired" /\ route' = "worklet" /\ BecomeReady("element")
  /\ UNCHANGED <<panel, surfer, semitones, worklet, surferPipes>>

\* The one that created the entry goes on first.
Waited(s) ==
  /\ s.step = "wait" /\ worklet # "pending"
  /\ ~\E t \in setups : t.step = "create"
  /\ CASE worklet = "failed" \/ ~s.newest -> Leave(s) /\ UNCHANGED <<ready, shifted>>
       [] worklet # "failed" /\ s.newest /\ entry = "wired" -> Leave(s) /\ BecomeReady("element")
       [] worklet # "failed" /\ s.newest /\ entry # "wired" ->
            /\ IF s.with = None THEN Leave(s) ELSE Move(s, "surfer")
            /\ UNCHANGED <<ready, shifted>>
  /\ UNCHANGED <<panel, surfer, semitones, entry, worklet, route, surferPipes>>

-----------------------------------------------------------------------------
\* The pipeline of the WaveSurfer instance.

SurferResumed(s) ==
  /\ s.step = "surfer"
  /\ CASE ~s.newest -> Leave(s) /\ UNCHANGED surferPipes
       [] s.newest /\ surferPipes[s.with] = "none" ->
            /\ Move(s, "surferCreate")
            /\ surferPipes' = [surferPipes EXCEPT ![s.with] = "loading"]
       [] s.newest /\ surferPipes[s.with] # "none" -> Move(s, "surferWait") /\ UNCHANGED surferPipes
  /\ UNCHANGED <<panel, surfer, ready, semitones, entry, worklet, route, shifted>>

SurferCreated(s, ok) ==
  /\ s.step = "surferCreate"
  /\ Leave(s)
  /\ surferPipes' = [surferPipes EXCEPT ![s.with] = IF ok /\ s.newest THEN "wired" ELSE "none"]
  /\ IF ok /\ s.newest THEN BecomeReady("surfer") ELSE UNCHANGED <<ready, shifted>>
  /\ UNCHANGED <<panel, surfer, semitones, entry, worklet, route>>

\* Its entry may have been dropped meanwhile: then it ends without one.
SurferWaited(s) ==
  /\ s.step = "surferWait" /\ ~\E t \in setups : t.step = "surferCreate" /\ t.with = s.with
  /\ Leave(s)
  /\ IF s.newest /\ surferPipes[s.with] = "wired" THEN BecomeReady("surfer")
     ELSE UNCHANGED <<ready, shifted>>
  /\ UNCHANGED <<panel, surfer, semitones, entry, worklet, route, surferPipes>>

-----------------------------------------------------------------------------
PitchInit ==
  /\ panel = FALSE /\ surfer = None /\ ready = None /\ semitones = 0 /\ setups = {}
  /\ entry = "none" /\ worklet = "unasked" /\ route = "direct" /\ shifted = 0
  /\ surferPipes = [w \in Surfers |-> "none"]

PitchReturn ==
  \/ ModuleSettles
  \/ \E s \in setups :
       \/ Resumed(s) \/ Created(s) \/ Waited(s) \/ SurferResumed(s) \/ SurferWaited(s)
       \/ \E ok \in BOOLEAN : SurferCreated(s, ok)

PitchUser ==
  \/ OpenAdvanced \/ CloseAdvanced
  \/ \E w \in Surfers \cup {None} : SurferChanges(w)
  \/ \E n \in Semitones : SetSemitones(n)

PitchNext == PitchUser \/ PitchReturn

PitchSpec == PitchInit /\ [][PitchNext]_pitchVars

-----------------------------------------------------------------------------
\* Each variable of the control has its type.
PitchTypeOK ==
  /\ panel \in BOOLEAN /\ surfer \in Surfers \cup {None}
  /\ ready \in {None, "element", "surfer"}
  /\ semitones \in Semitones /\ shifted \in Semitones
  /\ setups \subseteq Setup
  /\ entry \in {"none", "loading", "wired"}
  /\ worklet \in {"unasked", "pending", "loaded", "failed"}
  /\ route \in {"direct", "muted", "output", "worklet"}
  /\ surferPipes \in [Surfers -> {"none", "loading", "wired"}]

\* The sound of the element is cut off only while the module is being loaded.
ElementHeard == route = "muted" => \E s \in setups : s.step = "create"

\* What the control shifts has its worklet, which was told what the slider says.
PitchApplied ==
  /\ ready # None => panel
  /\ ready = "element" => entry = "wired" /\ route = "worklet" /\ shifted = semitones
  /\ ready = "surfer" => surfer # None /\ surferPipes[surfer] = "wired"

\* The control becomes ready, unless the entry of the element was dropped.
PitchSettles == panel /\ setups = {} /\ ready = None => entry = "none" /\ route = "output"
===============================================================================
