---------------------------- MODULE ProviderBrowser ----------------------------
(***************************************************************************)
(* The web surface of a sample provider: providerBrowserLifecycle(.ts,     *)
(* Queue.ts, Surface.ts) and useProviderBrowser of ui/src/hooks, with the  *)
(* native surfaces that src-tauri/src/providers opens and closes.          *)
(*                                                                         *)
(* Operations run one at a time in a queue of promises; each awaits the    *)
(* backend, and the user goes on meanwhile.  A native call and the code    *)
(* that resumes with its result are one step: only other calls read the    *)
(* surfaces.  The code after `await enqueue(...)` runs with the end of its *)
(* operation, and an effect with the change that schedules it.             *)
(*                                                                         *)
(* An intent is a number that is only compared with the newest one, so an  *)
(* operation keeps whether its number still is the newest (fresh), and a   *)
(* reconcile whether its identity still is the pending one (live).         *)
(***************************************************************************)
EXTENDS Naturals, Sequences, FiniteSets

CONSTANTS
  Providers,
  Roots,     \* download folders, the default one among them
  None,      \* null or undefined
  MaxOps     \* bound of the model: the user waits while this many are queued

ASSUME ProviderAssumption == None \notin Providers \cup Roots /\ MaxOps \in Nat \ {0}

VARIABLES
  ui,        \* the React state: see UiState
  opening,   \* openingProviderRef
  opened,    \* openedProviderRef; visibleProviderRef is always equal to it
  surfaceRoot,
  leaving,   \* leavingWebRef
  pending,   \* pendingReconcileRef: "waiting" for its frame, or "queued"
  ops,       \* the queue of operations; the first one runs
  surfaces,  \* the native web views and windows
  leftover   \* history: a failed native call left a surface behind

refs == <<opening, opened, surfaceRoot>>
providerVars == <<ui, refs, leaving, pending, ops, surfaces, leftover>>

Modes == {"embedded", "window"}
Views == {"sample", "midi", "web"}

UiState == [active : Providers \cup {None}, mode : Modes, view : Views,
            settings : BOOLEAN, freesound : BOOLEAN, root : Roots]

Surface == [where : Modes, provider : Providers, root : Roots]

Op == [kind : {"closeOpened", "closeBoth", "closeAll", "open", "reconcile", "root"},
       provider : Providers \cup {None}, mode : Modes, fresh : BOOLEAN, live : BOOLEAN,
       after : {"nothing", "clear", "freesound", "leave", "mode"}, to : Modes \cup Views,
       step : {"queued", "closing", "closingAll", "opening", "closingStale"}]

NewOp(kind, p, after, to) ==
  [kind |-> kind, provider |-> p, mode |-> "window", live |-> (kind = "reconcile"),
   fresh |-> (kind \in {"open", "root"} \/ after # "nothing"), after |-> after, to |-> to,
   step |-> "queued"]

\* An operation nobody awaits.
Plain(kind, p) == NewOp(kind, p, "nothing", "web")

\* The list of sources is replaced by the viewport of an embedded provider.
ViewportIn(s) ==
  s.mode = "embedded" /\ s.active # None /\ s.view = "web" /\ ~s.freesound

ListShown ==
  ui.view = "web" /\ ~ui.settings /\ ~ui.freesound /\ ~ViewportIn(ui)

-----------------------------------------------------------------------------
\* Intents and effects.

\* Bug: a queued reconcile survives a newer intent.
AdvanceIntent(q) == [k \in DOMAIN q |-> [q[k] EXCEPT !.fresh = FALSE]]

\* advanceIntent: no older number is the newest, no reconcile is pending.
Advance(q) == [k \in DOMAIN q |-> [q[k] EXCEPT !.fresh = FALSE, !.live = FALSE]]

\* Bug: only a surface that is still opening is looked at.
OpeningRootChange(root) == opening # None /\ surfaceRoot # root

HasDownloadRootChange(root) ==
  (opened # None \/ opening # None) /\ surfaceRoot # root

\* Leaving the view drops the viewport, and that renders and closes again.
CloseOnLeaving(s) ==
  IF ViewportIn(ui) THEN <<Plain("closeBoth", s.active), Plain("closeBoth", s.active)>>
  ELSE <<Plain("closeBoth", s.active)>>

\* The effect of a render from ui to s, over the queue q, the pending
\* reconcile p and the state lv of leavingWebRef.
Effect(s, q, p, lv) ==
  LET changed(f) == s[f] # ui[f]
      leave(more, p2, lv2) == ops' = Advance(q) \o more /\ pending' = p2 /\ leaving' = lv2
  IN IF \/ ~\E f \in {"active", "mode", "view", "settings", "root"} : changed(f)
        \/ s.mode = "window" /\ ~changed("root")
     THEN ops' = q /\ pending' = p /\ leaving' = lv
     ELSE IF changed("root") /\ HasDownloadRootChange(s.root)
       THEN leave(<<NewOp("root", None, "nothing", "web")>>, "none", lv)
     ELSE IF s.mode = "window" THEN leave(<< >>, "none", lv)
     ELSE IF s.settings
       THEN leave(IF s.active = None THEN << >> ELSE <<Plain("closeOpened", s.active)>>,
                  "none", lv)
     ELSE IF s.view # "web"
       THEN leave(CloseOnLeaving(s), "none", IF lv = "leaving" THEN "left" ELSE lv)
     ELSE IF ~ViewportIn(s) THEN leave(<< >>, "none", lv)
     ELSE leave(<< >>, "waiting", IF lv = "left" THEN "idle" ELSE lv)

Render(s, q, p, lv) == ui' = s /\ Effect(s, q, p, lv)

-----------------------------------------------------------------------------
\* What the user does.

UserMay == Len(ops) < MaxOps

\* advanceIntent, then one operation to await.
Enqueue(s, op, lv) ==
  /\ ui' = s
  /\ ops' = Append(Advance(ops), op)
  /\ pending' = "none"
  /\ leaving' = lv

SelectProvider(p) ==
  /\ UserMay /\ ListShown
  /\ Render([ui EXCEPT !.active = p],
            Append(Advance(ops),
                   IF ui.mode = "window" THEN NewOp("open", p, "nothing", "web")
                   ELSE Plain("closeOpened", ui.active)),
            "none", leaving)
  /\ UNCHANGED <<refs, surfaces, leftover>>

\* The header's button, or its WEB tab while a provider is active.
BackToSources ==
  /\ UserMay /\ ui.view = "web" /\ ~ui.settings
  /\ ui.freesound \/ ui.active # None
  /\ Enqueue([ui EXCEPT !.freesound = FALSE],
             NewOp("closeBoth", ui.active, "clear", "web"), leaving)
  /\ UNCHANGED <<refs, surfaces, leftover>>

OpenFreesound ==
  /\ UserMay /\ ListShown
  /\ Enqueue(ui, NewOp("closeBoth", ui.active, "freesound", "web"), leaving)
  /\ UNCHANGED <<refs, surfaces, leftover>>

ReturnToWeb ==
  /\ UserMay /\ ui.view # "web" /\ ~ui.settings
  /\ Render([ui EXCEPT !.view = "web"], ops, pending, leaving)
  /\ UNCHANGED <<refs, surfaces, leftover>>

\* An embedded surface is closed before the view may change.
LeaveWeb(v) ==
  /\ UserMay /\ v # "web" /\ ui.view # v /\ ~ui.settings
  /\ LET s == [ui EXCEPT !.freesound = FALSE]
     IN IF ui.mode = "embedded" /\ ui.view = "web"
        THEN Enqueue(s, NewOp("closeBoth", ui.active, "leave", v), "leaving")
        ELSE Render([s EXCEPT !.view = v], ops, pending, leaving)
  /\ UNCHANGED <<refs, surfaces, leftover>>

\* A client of the local API shows samples: no close is awaited.
ShowSamplesView ==
  /\ UserMay /\ ui.view # "sample"
  /\ Render([ui EXCEPT !.view = "sample"], ops, pending, leaving)
  /\ UNCHANGED <<refs, surfaces, leftover>>

ToggleSettings ==
  /\ UserMay
  /\ Render([ui EXCEPT !.settings = ~@], ops, pending, leaving)
  /\ UNCHANGED <<refs, surfaces, leftover>>

ChangeMode(m) ==
  /\ UserMay /\ ui.settings
  /\ Enqueue(ui, NewOp("closeAll", None, "mode", m), leaving)
  /\ UNCHANGED <<refs, surfaces, leftover>>

ChangeRoot(r) ==
  /\ UserMay /\ ui.settings /\ r # ui.root
  /\ Render([ui EXCEPT !.root = r], ops, pending, leaving)
  /\ UNCHANGED <<refs, surfaces, leftover>>

\* The viewport is resized: enqueueReconcile, unless one is pending.
Resize ==
  /\ ViewportIn(ui) /\ pending = "none"
  /\ pending' = "waiting"
  /\ UNCHANGED <<ui, refs, leaving, ops, surfaces, leftover>>

Frame ==
  /\ pending = "waiting"
  /\ pending' = "queued"
  /\ ops' = Append(ops, Plain("reconcile", None))
  /\ UNCHANGED <<ui, refs, leaving, surfaces, leftover>>

\* The title bar of a provider's own window.
UserClosesWindow ==
  /\ \E s \in surfaces : s.where = "window" /\ surfaces' = surfaces \ {s}
  /\ UNCHANGED <<ui, refs, leaving, pending, ops, leftover>>

-----------------------------------------------------------------------------
\* The end of an operation.

Running(step) == ops # << >> /\ Head(ops).step = step

Settled == IF Head(ops).live THEN "none" ELSE pending

EndOp == ops' = Tail(ops) /\ pending' = Settled /\ UNCHANGED <<ui, leaving>>

EndWith(s) == Render(s, Tail(ops), Settled, leaving)

\* What the awaiting code goes on with: clearing does not look at the intent.
MayGoOn(o) == o.fresh \/ o.after \in {"nothing", "clear", "freesound"}

Succeed ==
  LET o == Head(ops)
  IN IF ~MayGoOn(o) \/ o.after = "nothing" THEN EndOp
     ELSE EndWith(CASE o.after = "clear" -> [ui EXCEPT !.active = None]
                    [] o.after = "freesound" -> [ui EXCEPT !.active = None, !.freesound = TRUE]
                    [] o.after = "leave" -> [ui EXCEPT !.view = o.to]
                    [] o.after = "mode" -> [ui EXCEPT !.active = None, !.mode = o.to])

\* A failed departure stays in the view and may open again.
Fail ==
  LET o == Head(ops)
  IN /\ ops' = Tail(ops) /\ pending' = Settled
     /\ leaving' = IF o.after = "leave" /\ o.fresh THEN "idle" ELSE leaving
     /\ UNCHANGED ui

Proceed(step, p) == 
  /\ ops' = [ops EXCEPT ![1].step = step, ![1].provider = p]
  /\ UNCHANGED <<ui, pending, leaving>>

-----------------------------------------------------------------------------
\* The operations.

CanReconcile(fresh, p) ==
  /\ fresh /\ ui.active = p /\ ViewportIn(ui) /\ ~ui.settings
  /\ leaving = "idle"

\* openProvider up to its call.
BeginOpen(p, mode, fresh) ==
  /\ opening' = p /\ surfaceRoot' = ui.root
  /\ ops' = [ops EXCEPT ![1].step = "opening", ![1].provider = p, ![1].mode = mode,
                        ![1].fresh = fresh]
  /\ UNCHANGED <<ui, pending, leaving>>

FirstOf(a, b) == IF a # None THEN a ELSE b

StartClose ==
  /\ Running("queued")
  /\ LET o == Head(ops)
         target == FirstOf(o.provider, FirstOf(opened, opening))
     IN \/ o.kind = "closeOpened" /\ IF target = None THEN Succeed ELSE Proceed("closing", target)
        \/ o.kind = "closeAll" /\ Proceed("closingAll", None)
        \/ /\ o.kind = "closeBoth"
           /\ IF ui.mode = "embedded" /\ target # None THEN Proceed("closing", target)
              ELSE Proceed("closingAll", None)
        \/ /\ o.kind = "root"
           /\ IF ui.active = None THEN Succeed
              ELSE Proceed(IF ui.mode = "embedded" THEN "closing" ELSE "closingAll", ui.active)
  /\ UNCHANGED <<refs, surfaces, leftover>>

StartOpen ==
  /\ Running("queued") /\ Head(ops).kind = "open"
  /\ BeginOpen(Head(ops).provider, "window", Head(ops).fresh)
  /\ UNCHANGED <<opened, surfaces, leftover>>

\* A reconcile uses the intent of the moment it runs.
StartReconcile ==
  /\ Running("queued") /\ Head(ops).kind = "reconcile"
  /\ IF /\ Head(ops).live /\ CanReconcile(TRUE, ui.active)
        /\ opened # ui.active /\ opening # ui.active
     THEN BeginOpen(ui.active, "embedded", TRUE) /\ UNCHANGED opened
     ELSE Succeed /\ UNCHANGED refs
  /\ UNCHANGED <<surfaces, leftover>>

\* Bug: closing does not reset the reference.
Kept(ref, p) == ref

Without(ref, p) == IF ref = p THEN None ELSE ref

EmbeddedOf(p) == {s \in surfaces : s.where = "embedded" /\ s.provider = p}

\* close_embedded_provider_browser, called by closeOpenedProvider.
CloseEmbedded ==
  /\ Running("closing")
  /\ LET o == Head(ops)
     IN \/ /\ surfaces' = surfaces \ EmbeddedOf(o.provider)
           /\ opened' = Without(opened, o.provider) /\ opening' = Without(opening, o.provider)
           /\ surfaceRoot' = None
           /\ UNCHANGED leftover
           /\ IF o.kind = "closeOpened" THEN Succeed ELSE Proceed("closingAll", o.provider)
        \/ /\ EmbeddedOf(o.provider) # {}
           /\ leftover' = TRUE
           /\ Fail
           /\ UNCHANGED <<surfaces, refs>>

\* Some surfaces refuse to close; the others are closed.
SomeRemain == leftover' = TRUE /\ \E rest \in SUBSET surfaces : rest # {} /\ surfaces' = rest

\* Bug: the references are not reset with the surfaces.
KeepOwnership == UNCHANGED refs

ClearOwnership == opening' = None /\ opened' = None /\ surfaceRoot' = None

\* After the close of a root transition: open again what is still wanted.
Reopens(o) ==
  /\ o.kind = "root" /\ o.fresh /\ ui.active = o.provider
  /\ ui.mode = "window" \/ CanReconcile(o.fresh, o.provider)

CloseAll ==
  /\ Running("closingAll")
  /\ LET o == Head(ops)
     IN \/ /\ surfaces' = {} /\ UNCHANGED leftover
           /\ IF Reopens(o) THEN opened' = None /\ BeginOpen(o.provider, ui.mode, o.fresh)
              ELSE ClearOwnership /\ Succeed
        \/ SomeRemain /\ Fail /\ UNCHANGED refs

\* Bug: a surface that opened late is kept.
NeverStale(o) == FALSE

Stale(o) ==
  IF o.mode = "embedded" THEN ~CanReconcile(o.fresh, o.provider)
  ELSE ~(o.fresh /\ ui.mode = o.mode /\ ui.active = o.provider)

\* The native side closes every surface first.
OpenSucceeds ==
  /\ Running("opening")
  /\ LET o == Head(ops)
     IN /\ surfaces' = {[where |-> o.mode, provider |-> o.provider, root |-> surfaceRoot]}
        /\ IF Stale(o) THEN Proceed("closingStale", o.provider) /\ UNCHANGED <<opening, opened>>
           ELSE opening' = None /\ opened' = o.provider /\ Succeed
  /\ UNCHANGED <<surfaceRoot, leftover>>

\* Nothing could be closed, nothing opened, or a window opened that will not show.
OpenFails ==
  /\ Running("opening")
  /\ LET o == Head(ops)
     IN /\ \/ SomeRemain
           \/ surfaces' = {} /\ UNCHANGED leftover
           \/ /\ o.mode = "window"
              /\ surfaces' = {[where |-> "window", provider |-> o.provider, root |-> surfaceRoot]}
              /\ leftover' = TRUE
        /\ opening' = Without(opening, o.provider) /\ surfaceRoot' = None
        /\ IF Stale(o) THEN Succeed ELSE EndWith([ui EXCEPT !.active = None])
  /\ UNCHANGED opened

CloseStale ==
  /\ Running("closingStale")
  /\ LET o == Head(ops)
         gone == IF o.mode = "embedded" THEN EmbeddedOf(o.provider) ELSE surfaces
     IN \/ /\ surfaces' = surfaces \ gone
           /\ opened' = Without(opened, o.provider) /\ opening' = Without(opening, o.provider)
           /\ surfaceRoot' = IF opened' = None /\ opening' = None THEN None ELSE surfaceRoot
           /\ UNCHANGED leftover
        \/ /\ gone # {} /\ leftover' = TRUE
           /\ UNCHANGED <<surfaces, refs>>
  /\ EndOp

-----------------------------------------------------------------------------
Init ==
  /\ ui \in {[active |-> None, mode |-> m, view |-> "sample", settings |-> FALSE,
              freesound |-> FALSE, root |-> r] : m \in Modes, r \in Roots}
  /\ opening = None /\ opened = None /\ surfaceRoot = None
  /\ leaving = "idle" /\ pending = "none"
  /\ ops = IF ui.mode = "embedded" THEN <<Plain("closeBoth", None)>> ELSE << >>
  /\ surfaces = {} /\ leftover = FALSE

UserStep ==
  \/ \E p \in Providers : SelectProvider(p)
  \/ BackToSources \/ OpenFreesound \/ ReturnToWeb \/ ShowSamplesView
  \/ \E v \in Views : LeaveWeb(v)
  \/ ToggleSettings
  \/ \E m \in Modes : ChangeMode(m)
  \/ \E r \in Roots : ChangeRoot(r)
  \/ Resize \/ UserClosesWindow

OpStep ==
  \/ StartClose \/ StartOpen \/ StartReconcile
  \/ CloseEmbedded \/ CloseAll \/ CloseStale
  \/ OpenSucceeds \/ OpenFails

Next == UserStep \/ Frame \/ OpStep

\* Frames fire, and the backend answers the operation that runs.
Fairness == WF_providerVars(Frame) /\ WF_providerVars(OpStep)

Spec == Init /\ [][Next]_providerVars /\ Fairness

-----------------------------------------------------------------------------
LiveOps == {k \in DOMAIN ops : ops[k].live}

(* Type correctness; at most one queued reconcile is the pending one, and   *)
(* pendingReconcileRef says so exactly while there is one.                  *)
ProviderTypeOK ==
  /\ ui \in UiState
  /\ {opening, opened} \subseteq Providers \cup {None}
  /\ surfaceRoot \in Roots \cup {None}
  /\ leaving \in {"idle", "leaving", "left"} /\ pending \in {"none", "waiting", "queued"}
  /\ ops \in Seq(Op) /\ surfaces \subseteq Surface /\ leftover \in BOOLEAN
  /\ Cardinality(LiveOps) <= 1 /\ (pending = "queued" <=> LiveOps # {})

\* The embedded surface that the interface asks for.
Wanted == ViewportIn(ui) /\ ~ui.settings

(* No surface floats: once the queue is empty, what is open is the one      *)
(* surface the interface shows, in the mode chosen, whatever was clicked    *)
(* while it opened or closed (unless a native close failed).                *)
NoFloatingSurface ==
  ops = << >> /\ ~leftover =>
    \A s \in surfaces : /\ s.where = ui.mode /\ s.provider = ui.active
                        /\ s.where = "embedded" => Wanted

(* At every moment an embedded provider that the references call open has   *)
(* its surface, so that closing and moving it reach something.              *)
OwnedIsOpen ==
  ui.mode = "embedded" /\ opened # None /\ ~leftover => EmbeddedOf(opened) # {}

(* Downloads go where the settings say: once the queue is empty, an open    *)
(* surface was created with the folder chosen last.                         *)
RootCurrent ==
  ops = << >> /\ ~leftover => \A s \in surfaces : s.root = ui.root

(* A wanted provider is opened in the end, unless the user stops asking for *)
(* it or leaves the view, or a native close failed.                         *)
WantedOpens ==
  \A p \in Providers :
    (Wanted /\ ui.active = p /\ leaving = "idle")
      ~> \/ EmbeddedOf(p) # {} \/ leftover
         \/ ~(Wanted /\ ui.active = p /\ leaving = "idle")

\* The interface asks for p, behind the settings or in front of them.
Asked(p) == ui.active = p /\ ViewportIn(ui)

Idle == ops = << >> /\ pending = "none"

(* useProviderBrowser.tabs.transitions.test.tsx:62 says the settings close  *)
(* and then restore an embedded provider: one that was open when they were, *)
(* and is asked for ever after, is open whenever they are closed and        *)
(* nothing is left to do (unless a native close failed).                    *)
RestoredAfterSettings ==
  \A p \in Providers :
    []((ui.settings /\ EmbeddedOf(p) # {} /\ []Asked(p)) =>
         [](Idle /\ ~ui.settings /\ ~leftover => EmbeddedOf(p) # {}))

=============================================================================
