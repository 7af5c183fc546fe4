------------------------- MODULE ProviderBrowserProofs -------------------------
(***************************************************************************)
(* The surfaces of useProviderBrowser, for every set of providers and      *)
(* folders and any length of the queue: the embedded surface that the      *)
(* references name is open, and once the queue is empty no other is.       *)
(*                                                                         *)
(* OwnedIsOpen alone is not inductive: a window that opens closes the      *)
(* embedded surfaces first, and an embedded surface that opens closes that *)
(* of another provider.  So the invariant also says that no window waits   *)
(* to open in the embedded mode (QueueOK), and that nothing is recorded as *)
(* open while a surface opens (OwnActive).                                 *)
(*                                                                         *)
(* That no surface floats, and that what is open has the folder of the     *)
(* settings, speaks of an empty queue only.  SurfaceInv says what holds    *)
(* before: a surface is shown, or an operation of the queue will close it. *)
(* It needs IntentInv: when a surface opens and counts as current, nothing *)
(* that could close it is queued behind it.                                *)
(***************************************************************************)
EXTENDS ProviderBrowser, SequenceTheorems, FiniteSetTheorems, TLAPS

\* What an operation goes on with fits its kind, and so does the step it is at.
Shape(o) ==
  /\ o.after # "nothing" => o.kind \in {"closeBoth", "closeAll"}
  /\ o.after = "mode" => o.kind = "closeAll" /\ o.to \in Modes
  /\ o.after = "leave" => o.to \in Views
  /\ o.step = "closing" => o.kind \in {"closeOpened", "closeBoth", "root"}
  /\ o.step = "closingAll" => o.kind \in {"closeBoth", "closeAll", "root"}
  /\ o.step \in {"opening", "closingStale"} => o.kind \in {"open", "reconcile", "root"}

SwitchesMode(o) == o.after = "mode" /\ o.fresh

\* A window is opened only in the window mode, because a switch that is queued
\* before it was given up when it was chosen.
QueueOK(q, m) ==
  /\ q \in Seq(Op)
  /\ \A k \in DOMAIN q : Shape(q[k]) /\ (k > 1 => q[k].step = "queued")
  /\ m = "embedded" => \A k \in DOMAIN q : q[k].kind # "open"
  /\ \A i, j \in DOMAIN q : i < j /\ q[j].kind = "open" => ~SwitchesMode(q[i])

InOpen == ops # << >> /\ Head(ops).step \in {"opening", "closingStale"}

\* The references hold no other provider than the active one, and none while a
\* surface opens.
OwnActive ==
  ui.mode = "embedded" => opened \in {None, ui.active} /\ (InOpen => opened = None)

FieldTypes ==
  /\ ui \in UiState
  /\ opening \in Providers \cup {None} /\ opened \in Providers \cup {None}
  /\ leftover \in BOOLEAN

ProviderInv == FieldTypes /\ QueueOK(ops, ui.mode) /\ OwnActive /\ OwnedIsOpen

-----------------------------------------------------------------------------
(* The queue.                                                              *)

LEMMA NewOpTyped ==
  ASSUME NEW kind \in {"closeOpened", "closeBoth", "closeAll", "open", "reconcile", "root"},
         NEW p \in Providers \cup {None},
         NEW after \in {"nothing", "clear", "freesound", "leave", "mode"},
         NEW to \in Modes \cup Views
  PROVE  /\ NewOp(kind, p, after, to) \in Op
         /\ NewOp(kind, p, after, to).kind = kind /\ NewOp(kind, p, after, to).after = after
         /\ NewOp(kind, p, after, to).to = to /\ NewOp(kind, p, after, to).step = "queued"
  BY DEF NewOp, Op, Modes, Views

LEMMA AdvanceOK ==
  ASSUME NEW q, NEW m, QueueOK(q, m)
  PROVE  /\ QueueOK(Advance(q), m)
         /\ DOMAIN Advance(q) = DOMAIN q /\ Len(Advance(q)) = Len(q)
         /\ \A k \in DOMAIN q : ~Advance(q)[k].fresh /\ Advance(q)[k].step = q[k].step
  <1>1. q \in Seq(Op) /\ DOMAIN q = 1..Len(q) /\ Len(q) \in Nat
    BY DEF QueueOK
  <1>2. ASSUME NEW k \in DOMAIN q
        PROVE  /\ Advance(q)[k] \in Op /\ ~Advance(q)[k].fresh
               /\ Advance(q)[k].step = q[k].step /\ Advance(q)[k].kind = q[k].kind
               /\ Advance(q)[k].after = q[k].after /\ Advance(q)[k].to = q[k].to
    <2>1. q[k] \in Op /\ Advance(q)[k] = [q[k] EXCEPT !.fresh = FALSE, !.live = FALSE]
      BY <1>1 DEF Advance
    <2> QED
      BY <2>1 DEF Op
  <1>3. DOMAIN Advance(q) = DOMAIN q
    BY DEF Advance
  <1>4. Advance(q) \in Seq(Op) /\ Len(Advance(q)) = Len(q)
    <2>1. Advance(q) \in [1..Len(q) -> Op]
      BY <1>1, <1>2 DEF Advance
    <2> QED
      BY <1>1, <2>1
  <1>5. \A k \in DOMAIN q : Shape(Advance(q)[k]) /\ (k > 1 => Advance(q)[k].step = "queued")
    BY <1>2 DEF QueueOK, Shape
  <1> QED
    BY <1>2, <1>3, <1>4, <1>5 DEF QueueOK, SwitchesMode

\* What an operation that is added may be.
Addable(o) == o \in Op /\ Shape(o) /\ o.step = "queued"

LEMMA AppendOK ==
  ASSUME NEW q, NEW m, QueueOK(q, m), NEW o, Addable(o),
         o.kind = "open" => m # "embedded" /\ \A k \in DOMAIN q : ~q[k].fresh
  PROVE  QueueOK(Append(q, o), m)
  <1>1. q \in Seq(Op) /\ o \in Op /\ DOMAIN q = 1..Len(q) /\ Len(q) \in Nat
    BY DEF QueueOK, Addable
  <1>2. /\ Append(q, o) \in Seq(Op) /\ DOMAIN Append(q, o) = 1..(Len(q) + 1)
        /\ Append(q, o)[Len(q) + 1] = o
        /\ \A k \in DOMAIN q : Append(q, o)[k] = q[k]
    BY <1>1
  <1>3. \A k \in DOMAIN Append(q, o) : k \in DOMAIN q \/ k = Len(q) + 1
    BY <1>1, <1>2
  <1>4. \A k \in DOMAIN Append(q, o) :
          Shape(Append(q, o)[k]) /\ (k > 1 => Append(q, o)[k].step = "queued")
    BY <1>2, <1>3 DEF QueueOK, Addable
  <1>5. m = "embedded" => \A k \in DOMAIN Append(q, o) : Append(q, o)[k].kind # "open"
    BY <1>2, <1>3 DEF QueueOK
  <1>6. \A i, j \in DOMAIN Append(q, o) :
          i < j /\ Append(q, o)[j].kind = "open" => ~SwitchesMode(Append(q, o)[i])
    <2> SUFFICES ASSUME NEW i \in DOMAIN Append(q, o), NEW j \in DOMAIN Append(q, o),
                        i < j, Append(q, o)[j].kind = "open"
                 PROVE  ~SwitchesMode(Append(q, o)[i])
      OBVIOUS
    <2>1. i \in DOMAIN q
      BY <1>1, <1>2
    <2> QED
      BY <1>2, <1>3, <2>1 DEF QueueOK, SwitchesMode
  <1> QED
    BY <1>2, <1>4, <1>5, <1>6 DEF QueueOK

LEMMA TailOK ==
  ASSUME NEW q, NEW m, QueueOK(q, m), q # << >>
  PROVE  /\ QueueOK(Tail(q), m)
         /\ SwitchesMode(Head(q)) => \A n : QueueOK(Tail(q), n)
         /\ \A k \in DOMAIN Tail(q) : Tail(q)[k].step = "queued"
  <1>1. q \in Seq(Op) /\ DOMAIN q = 1..Len(q) /\ Len(q) \in Nat \ {0} /\ Head(q) = q[1]
    BY DEF QueueOK
  <1>2. /\ Tail(q) \in Seq(Op) /\ DOMAIN Tail(q) = 1..(Len(q) - 1)
        /\ \A k \in DOMAIN Tail(q) : k + 1 \in DOMAIN q /\ k + 1 > 1 /\ Tail(q)[k] = q[k + 1]
    BY <1>1
  <1>3. \A k \in DOMAIN Tail(q) : Shape(Tail(q)[k]) /\ Tail(q)[k].step = "queued"
    BY <1>2 DEF QueueOK
  <1>4. m = "embedded" => \A k \in DOMAIN Tail(q) : Tail(q)[k].kind # "open"
    BY <1>2 DEF QueueOK
  <1>5. \A i, j \in DOMAIN Tail(q) :
          i < j /\ Tail(q)[j].kind = "open" => ~SwitchesMode(Tail(q)[i])
    <2> SUFFICES ASSUME NEW i \in DOMAIN Tail(q), NEW j \in DOMAIN Tail(q),
                        i < j, Tail(q)[j].kind = "open"
                 PROVE  ~SwitchesMode(Tail(q)[i])
      OBVIOUS
    <2>1. i + 1 < j + 1
      BY <1>2
    <2> QED
      BY <1>2, <2>1 DEF QueueOK
  <1>6. SwitchesMode(Head(q)) => \A k \in DOMAIN Tail(q) : Tail(q)[k].kind # "open"
    <2>1. 1 \in DOMAIN q
      BY <1>1
    <2> QED
      BY <1>1, <1>2, <2>1 DEF QueueOK
  <1> QED
    BY <1>2, <1>3, <1>4, <1>5, <1>6 DEF QueueOK

\* The head goes on: only its step and its provider, mode and freshness change.
LEMMA HeadOK ==
  ASSUME NEW q, NEW m, QueueOK(q, m), q # << >>, NEW o \in Op, Shape(o),
         o.kind = q[1].kind, SwitchesMode(o) => SwitchesMode(q[1])
  PROVE  QueueOK([q EXCEPT ![1] = o], m)
  <1>1. q \in Seq(Op) /\ DOMAIN q = 1..Len(q) /\ Len(q) \in Nat \ {0} /\ 1 \in DOMAIN q
    BY DEF QueueOK
  <1>2. /\ [q EXCEPT ![1] = o] \in Seq(Op) /\ DOMAIN [q EXCEPT ![1] = o] = DOMAIN q
        /\ \A k \in DOMAIN q : [q EXCEPT ![1] = o][k] = IF k = 1 THEN o ELSE q[k]
    BY <1>1
  <1>3. \A k \in DOMAIN q : k > 1 => k # 1
    BY <1>1
  <1> QED
    BY <1>1, <1>2, <1>3 DEF QueueOK

\* Nothing that is added runs already.
NoNewRunner(q, r) ==
  \A k \in DOMAIN r : r[k].step # "queued" => k \in DOMAIN q /\ q[k].step = r[k].step

LEMMA AppendRuns ==
  ASSUME NEW q, NEW m, QueueOK(q, m), NEW o, Addable(o)
  PROVE  NoNewRunner(q, Append(q, o))
  <1>1. q \in Seq(Op) /\ o \in Op /\ o.step = "queued"
    BY DEF QueueOK, Addable
  <1>2. \A k \in DOMAIN Append(q, o) :
          (k \in DOMAIN q /\ Append(q, o)[k] = q[k]) \/ Append(q, o)[k] = o
    BY <1>1
  <1> QED
    BY <1>1, <1>2 DEF NoNewRunner

\* Operations nobody awaits may follow any queue.
Unawaited(o) == Addable(o) /\ o.kind # "open"

LEMMA PlainUnawaited ==
  ASSUME NEW p \in Providers \cup {None}
  PROVE  /\ Unawaited(Plain("closeBoth", p)) /\ Unawaited(Plain("closeOpened", p))
         /\ Unawaited(Plain("reconcile", p)) /\ Unawaited(NewOp("root", p, "nothing", "web"))
  <1>1. "web" \in Modes \cup Views
    BY DEF Modes, Views
  <1> QED
    BY <1>1, NewOpTyped DEF Plain, Unawaited, Addable, Shape

LEMMA AddsUnawaited ==
  ASSUME NEW q, NEW m, QueueOK(q, m), NEW o, Unawaited(o)
  PROVE  QueueOK(Append(q, o), m) /\ NoNewRunner(q, Append(q, o))
  BY AppendOK, AppendRuns DEF Unawaited

LEMMA RunsTransitive ==
  ASSUME NEW q, NEW r, NEW t, NoNewRunner(q, r), NoNewRunner(r, t)
  PROVE  NoNewRunner(q, t)
  BY DEF NoNewRunner

\* What a render does to the queue.
LEMMA EffectOK ==
  ASSUME FieldTypes, NEW s \in UiState, NEW q, NEW m, NEW p, NEW lv, QueueOK(q, m),
         Effect(s, q, p, lv)
  PROVE  QueueOK(ops', m) /\ NoNewRunner(q, ops')
  <1> DEFINE a == Advance(q)
             one(o) == Append(a, o)
             two(o) == Append(Append(a, o), o)
             both == Plain("closeBoth", s.active)
             shut == Plain("closeOpened", s.active)
             root == NewOp("root", None, "nothing", "web")
  <1>1. QueueOK(a, m) /\ NoNewRunner(q, a) /\ a \in Seq(Op)
    BY AdvanceOK DEF NoNewRunner, QueueOK
  <1>2. Unawaited(both) /\ Unawaited(shut) /\ Unawaited(root) /\ None \in Providers \cup {None}
    BY PlainUnawaited DEF UiState
  <1>3. both \in Op /\ shut \in Op /\ root \in Op
    BY <1>2 DEF Unawaited, Addable
  <1> HIDE DEF a, both, shut, root
  <1>4. /\ a \o << >> = a
        /\ a \o <<both>> = one(both) /\ a \o <<shut>> = one(shut) /\ a \o <<root>> = one(root)
        /\ a \o <<both, both>> = two(both)
    BY <1>1, <1>3
  <1>5. ASSUME NEW o, Unawaited(o)
        PROVE  /\ QueueOK(one(o), m) /\ NoNewRunner(q, one(o))
               /\ QueueOK(two(o), m) /\ NoNewRunner(q, two(o))
    <2>1. QueueOK(one(o), m) /\ NoNewRunner(a, one(o))
      BY <1>1, <1>5, AddsUnawaited
    <2>2. QueueOK(two(o), m) /\ NoNewRunner(one(o), two(o))
      BY <2>1, <1>5, AddsUnawaited
    <2> QED
      BY <1>1, <2>1, <2>2, RunsTransitive
  <1>6. \/ ops' = q \/ ops' = a \o << >> \/ ops' = a \o <<root>> \/ ops' = a \o <<shut>>
        \/ ops' = a \o <<both>> \/ ops' = a \o <<both, both>>
    BY DEF Effect, CloseOnLeaving, a, both, shut, root
  <1>7. NoNewRunner(q, q)
    BY DEF NoNewRunner
  <1> QED
    BY <1>1, <1>2, <1>4, <1>5, <1>6, <1>7

\* What a step of the user does to the rest of the invariant: the references and
\* surfaces stay, and with them who owns what.
LEMMA RefsKept ==
  ASSUME ProviderInv, UNCHANGED <<refs, surfaces, leftover>>, ui' \in UiState,
         ui'.mode = ui.mode, ui.mode = "embedded" => (ui'.active = ui.active \/ opened = None),
         QueueOK(ops', ui.mode), NoNewRunner(ops, ops')
  PROVE  ProviderInv'
  <1>1. FieldTypes' /\ opened' = opened
    BY DEF ProviderInv, FieldTypes, refs
  <1>2. InOpen' => InOpen
    <2>1. ops \in Seq(Op) /\ ops' \in Seq(Op)
      BY DEF ProviderInv, QueueOK
    <2>2. ASSUME InOpen' PROVE InOpen
      <3>1. 1 \in DOMAIN ops' /\ Head(ops') = ops'[1]
        BY <2>1, <2>2 DEF InOpen
      <3>2. 1 \in DOMAIN ops /\ ops[1].step = ops'[1].step
        BY <2>2, <3>1 DEF InOpen, NoNewRunner
      <3> QED
        BY <2>1, <2>2, <3>1, <3>2 DEF InOpen
    <2> QED
      BY <2>2
  <1>3. OwnActive'
    BY <1>1, <1>2 DEF ProviderInv, OwnActive
  <1>4. OwnedIsOpen'
    BY <1>1 DEF ProviderInv, OwnedIsOpen, EmbeddedOf
  <1> QED
    BY <1>1, <1>3, <1>4 DEF ProviderInv

-----------------------------------------------------------------------------
(* The user.                                                               *)

LEMMA EnqueueOK ==
  ASSUME ProviderInv, NEW o, Addable(o), o.kind # "open"
  PROVE  QueueOK(Append(Advance(ops), o), ui.mode) /\ NoNewRunner(ops, Append(Advance(ops), o))
  <1>1. QueueOK(Advance(ops), ui.mode) /\ NoNewRunner(ops, Advance(ops))
    BY AdvanceOK DEF ProviderInv, NoNewRunner
  <1>2. QueueOK(Append(Advance(ops), o), ui.mode)
        /\ NoNewRunner(Advance(ops), Append(Advance(ops), o))
    BY <1>1, AddsUnawaited DEF Unawaited
  <1> QED
    BY <1>1, <1>2, RunsTransitive

LEMMA SelectInv ==
  ASSUME ProviderInv, NEW x \in Providers, SelectProvider(x)
  PROVE  ProviderInv'
  <1> DEFINE s == [ui EXCEPT !.active = x]
             o == IF ui.mode = "window" THEN NewOp("open", x, "nothing", "web")
                  ELSE Plain("closeOpened", ui.active)
             q == Append(Advance(ops), o)
  <1>1. /\ FieldTypes /\ QueueOK(ops, ui.mode)
        /\ ui \in UiState /\ ui.mode \in Modes /\ ui.active \in Providers \cup {None}
    BY DEF ProviderInv, FieldTypes, UiState
  <1>2. s \in UiState /\ s.mode = ui.mode /\ s.active = x
    BY <1>1 DEF UiState
  <1>3. QueueOK(Advance(ops), ui.mode) /\ NoNewRunner(ops, Advance(ops))
        /\ \A k \in DOMAIN Advance(ops) : ~Advance(ops)[k].fresh
    BY <1>1, AdvanceOK DEF NoNewRunner
  <1>4. Addable(o) /\ (o.kind = "open" => ui.mode # "embedded")
    <2>1. CASE ui.mode = "window"
      <3>1. "web" \in Modes \cup Views
        BY DEF Views
      <3>2. Addable(NewOp("open", x, "nothing", "web"))
        BY <3>1, NewOpTyped DEF Addable, Shape
      <3> QED
        BY <2>1, <3>2
    <2>2. CASE ui.mode # "window"
      <3>1. Unawaited(Plain("closeOpened", ui.active))
        BY <1>1, PlainUnawaited
      <3> QED
        BY <2>2, <3>1 DEF Unawaited
    <2> QED
      BY <2>1, <2>2
  <1>5. Effect(s, q, "none", leaving) /\ ui' = s /\ UNCHANGED <<refs, surfaces, leftover>>
    BY DEF SelectProvider, Render
  <1>6. ui.mode = "embedded" => ui.active = None
    BY <1>1 DEF SelectProvider, ListShown, ViewportIn
  <1> HIDE DEF o, s
  <1>7. QueueOK(q, ui.mode) /\ NoNewRunner(ops, q)
    <2>1. QueueOK(q, ui.mode) /\ NoNewRunner(Advance(ops), q)
      BY <1>3, <1>4, AppendOK, AppendRuns
    <2> QED
      BY <1>3, <2>1, RunsTransitive
  <1> HIDE DEF q
  <1>8. QueueOK(ops', ui.mode) /\ NoNewRunner(q, ops')
    BY <1>1, <1>2, <1>5, <1>7, EffectOK
  <1>9. NoNewRunner(ops, ops')
    BY <1>7, <1>8, RunsTransitive
  <1>10. ui.mode = "embedded" => opened = None
    BY <1>6 DEF ProviderInv, OwnActive
  <1> QED
    BY <1>2, <1>5, <1>8, <1>9, <1>10, RefsKept

\* A render that keeps the mode and the provider.
LEMMA RenderInv ==
  ASSUME ProviderInv, NEW s \in UiState, s.mode = ui.mode, s.active = ui.active,
         NEW p, NEW lv, Render(s, ops, p, lv), UNCHANGED <<refs, surfaces, leftover>>
  PROVE  ProviderInv'
  <1>1. FieldTypes /\ QueueOK(ops, ui.mode) /\ Effect(s, ops, p, lv) /\ ui' = s
    BY DEF ProviderInv, Render
  <1>2. QueueOK(ops', ui.mode) /\ NoNewRunner(ops, ops')
    BY <1>1, EffectOK
  <1> QED
    BY <1>1, <1>2, RefsKept

LEMMA EnqueueInv ==
  ASSUME ProviderInv, NEW s \in UiState, s.mode = ui.mode, s.active = ui.active,
         NEW o, Addable(o), o.kind # "open", NEW lv, Enqueue(s, o, lv),
         UNCHANGED <<refs, surfaces, leftover>>
  PROVE  ProviderInv'
  <1>1. ui' = s /\ ops' = Append(Advance(ops), o)
    BY DEF Enqueue
  <1>2. QueueOK(ops', ui.mode) /\ NoNewRunner(ops, ops')
    BY <1>1, EnqueueOK
  <1> QED
    BY <1>1, <1>2, RefsKept

\* What the closes that the user awaits go on with.
LEMMA AwaitedAddable ==
  ASSUME NEW p \in Providers \cup {None}
  PROVE  /\ \A after \in {"clear", "freesound"} : Addable(NewOp("closeBoth", p, after, "web"))
         /\ \A v \in Views : Addable(NewOp("closeBoth", p, "leave", v))
         /\ \A m \in Modes : Addable(NewOp("closeAll", None, "mode", m))
  <1>1. "web" \in Views /\ Views \subseteq Modes \cup Views /\ Modes \subseteq Modes \cup Views
        /\ None \in Providers \cup {None}
    BY DEF Views
  <1>2. \A after \in {"clear", "freesound"} : Addable(NewOp("closeBoth", p, after, "web"))
    BY <1>1, NewOpTyped DEF Addable, Shape
  <1>3. ASSUME NEW v \in Views PROVE Addable(NewOp("closeBoth", p, "leave", v))
    <2> DEFINE o == NewOp("closeBoth", p, "leave", v)
    <2>1. /\ o \in Op /\ o.kind = "closeBoth" /\ o.after = "leave" /\ o.to = v
          /\ o.step = "queued"
      BY <1>1, NewOpTyped
    <2> HIDE DEF o
    <2>2. Addable(o)
      BY <2>1 DEF Addable, Shape
    <2> QED
      BY <2>2 DEF o
  <1>4. ASSUME NEW m \in Modes PROVE Addable(NewOp("closeAll", None, "mode", m))
    <2> DEFINE o == NewOp("closeAll", None, "mode", m)
    <2>0. m \in Modes \cup Views /\ None \in Providers \cup {None}
      OBVIOUS
    <2>1. /\ o \in Op /\ o.kind = "closeAll" /\ o.after = "mode" /\ o.to = m
          /\ o.step = "queued"
      BY ONLY <2>0, NewOpTyped, SMTT(30) DEF o
    <2> HIDE DEF o
    <2>2. Addable(o)
      BY <2>1 DEF Addable, Shape
    <2> QED
      BY <2>2 DEF o
  <1> QED
    BY <1>2, <1>3, <1>4

LEMMA NewOpKind ==
  \A kind, p, after, to : NewOp(kind, p, after, to).kind = kind
  BY DEF NewOp

LEMMA UserInv ==
  ASSUME ProviderInv, UserStep
  PROVE  ProviderInv'
  <1>0. /\ ui \in UiState /\ ui.active \in Providers \cup {None} /\ ui.mode \in Modes
        /\ FieldTypes
    BY DEF ProviderInv, FieldTypes, UiState
  <1>1. ASSUME NEW x \in Providers, SelectProvider(x) PROVE ProviderInv'
    BY <1>1, SelectInv
  <1>2. CASE BackToSources
    <2>1. [ui EXCEPT !.freesound = FALSE] \in UiState
          /\ [ui EXCEPT !.freesound = FALSE].mode = ui.mode
          /\ [ui EXCEPT !.freesound = FALSE].active = ui.active
      BY <1>0 DEF UiState
    <2> QED
      BY <1>0, <1>2, <2>1, AwaitedAddable, NewOpKind, EnqueueInv, ZenonT(40) DEF BackToSources
  <1>3. CASE OpenFreesound
    BY <1>0, <1>3, AwaitedAddable, NewOpKind, EnqueueInv DEF OpenFreesound
  <1>4. CASE ReturnToWeb
    <2>1. [ui EXCEPT !.view = "web"] \in UiState
          /\ [ui EXCEPT !.view = "web"].mode = ui.mode
          /\ [ui EXCEPT !.view = "web"].active = ui.active
      BY <1>0 DEF UiState, Views
    <2> QED
      BY <1>4, <2>1, RenderInv DEF ReturnToWeb
  <1>5. ASSUME NEW v \in Views, LeaveWeb(v) PROVE ProviderInv'
    <2> DEFINE s == [ui EXCEPT !.freesound = FALSE]
               t == [s EXCEPT !.view = v]
    <2>1. /\ s \in UiState /\ s.mode = ui.mode /\ s.active = ui.active
          /\ t \in UiState /\ t.mode = ui.mode /\ t.active = ui.active
      BY <1>0 DEF UiState
    <2>2. \/ Enqueue(s, NewOp("closeBoth", ui.active, "leave", v), "leaving")
          \/ Render(t, ops, pending, leaving)
      BY <1>5 DEF LeaveWeb
    <2>3. UNCHANGED <<refs, surfaces, leftover>>
      BY <1>5 DEF LeaveWeb
    <2>4. /\ Addable(NewOp("closeBoth", ui.active, "leave", v))
          /\ NewOp("closeBoth", ui.active, "leave", v).kind # "open"
      BY <1>0, AwaitedAddable, NewOpKind
    <2> HIDE DEF s, t
    <2> QED
      BY <2>1, <2>2, <2>3, <2>4, EnqueueInv, RenderInv
  <1>6. CASE ShowSamplesView
    <2>1. [ui EXCEPT !.view = "sample"] \in UiState
          /\ [ui EXCEPT !.view = "sample"].mode = ui.mode
          /\ [ui EXCEPT !.view = "sample"].active = ui.active
      BY <1>0 DEF UiState, Views
    <2> QED
      BY <1>6, <2>1, RenderInv DEF ShowSamplesView
  <1>7. CASE ToggleSettings
    <2>1. [ui EXCEPT !.settings = ~@] \in UiState
          /\ [ui EXCEPT !.settings = ~@].mode = ui.mode
          /\ [ui EXCEPT !.settings = ~@].active = ui.active
      BY <1>0 DEF UiState
    <2> QED
      BY <1>7, <2>1, RenderInv DEF ToggleSettings
  <1>8. ASSUME NEW m \in Modes, ChangeMode(m) PROVE ProviderInv'
    BY <1>0, <1>8, AwaitedAddable, NewOpKind, EnqueueInv DEF ChangeMode
  <1>9. ASSUME NEW r \in Roots, ChangeRoot(r) PROVE ProviderInv'
    <2>1. [ui EXCEPT !.root = r] \in UiState
          /\ [ui EXCEPT !.root = r].mode = ui.mode
          /\ [ui EXCEPT !.root = r].active = ui.active
      BY <1>0 DEF UiState
    <2> QED
      BY <1>9, <2>1, RenderInv DEF ChangeRoot
  <1>10. CASE Resize
    <2>1. NoNewRunner(ops, ops)
      BY DEF NoNewRunner
    <2> QED
      BY <1>0, <1>10, <2>1, RefsKept DEF Resize, ProviderInv
  <1>11. CASE UserClosesWindow
    <2>1. UNCHANGED <<ui, opening, opened, ops, leftover>>
      BY <1>11 DEF UserClosesWindow, refs
    <2>2. EmbeddedOf(opened) \subseteq EmbeddedOf(opened)'
      BY <1>11, <2>1 DEF UserClosesWindow, EmbeddedOf
    <2>3. OwnedIsOpen' /\ OwnActive' /\ FieldTypes'
      BY <2>1, <2>2 DEF ProviderInv, OwnedIsOpen, OwnActive, FieldTypes, InOpen
    <2> QED
      BY <2>1, <2>3 DEF ProviderInv
  <1> QED
    BY <1>1, <1>2, <1>3, <1>4, <1>5, <1>6, <1>7, <1>8, <1>9, <1>10, <1>11 DEF UserStep

\* The frame appends its reconcile.
LEMMA FrameInv ==
  ASSUME ProviderInv, Frame
  PROVE  ProviderInv'
  <1>1. ops' = Append(ops, Plain("reconcile", None)) /\ UNCHANGED <<ui, refs, surfaces, leftover>>
    BY DEF Frame
  <1>2. QueueOK(ops', ui.mode) /\ NoNewRunner(ops, ops')
    BY <1>1, PlainUnawaited, AddsUnawaited DEF ProviderInv
  <1> QED
    BY <1>1, <1>2, RefsKept DEF ProviderInv, FieldTypes

-----------------------------------------------------------------------------
(* The end and the progress of an operation.                               *)

LEMMA HeadFacts ==
  ASSUME ProviderInv, ops # << >>
  PROVE  /\ ops \in Seq(Op) /\ 1 \in DOMAIN ops /\ Head(ops) = ops[1]
         /\ Head(ops) \in Op /\ Shape(Head(ops))
         /\ ui \in UiState /\ ui.mode \in Modes /\ ui.active \in Providers \cup {None}
         /\ ui.mode = "embedded" => Head(ops).kind # "open"
  <1>1. ops \in Seq(Op) /\ ui \in UiState
    BY DEF ProviderInv, QueueOK, FieldTypes
  <1>2. 1 \in DOMAIN ops /\ Head(ops) = ops[1] /\ Head(ops) \in Op
    BY <1>1
  <1>3. Shape(Head(ops)) /\ (ui.mode = "embedded" => Head(ops).kind # "open")
    BY <1>2 DEF ProviderInv, QueueOK
  <1> QED
    BY <1>1, <1>2, <1>3 DEF UiState

\* Once the running operation has gone, none runs: the references need only name
\* the active provider.
LEMMA EndsInv ==
  ASSUME ProviderInv, ops # << >>, FieldTypes', QueueOK(ops', ui'.mode),
         NoNewRunner(Tail(ops), ops'),
         ui'.mode = "embedded" => opened' \in {None, ui'.active},
         OwnedIsOpen'
  PROVE  ProviderInv'
  <1>1. \A k \in DOMAIN Tail(ops) : Tail(ops)[k].step = "queued"
    BY TailOK DEF ProviderInv
  <1>2. ~InOpen'
    <2> SUFFICES ASSUME InOpen' PROVE FALSE
      OBVIOUS
    <2>1. ops' \in Seq(Op) /\ ops' # << >>
      BY DEF QueueOK, InOpen
    <2>2. 1 \in DOMAIN ops' /\ Head(ops') = ops'[1]
      BY <2>1
    <2> QED
      BY <1>1, <2>2 DEF InOpen, NoNewRunner
  <1>3. OwnActive'
    BY <1>2 DEF OwnActive
  <1> QED
    BY <1>3 DEF ProviderInv

\* An operation that nobody awaits just goes.
LEMMA SucceedPlain ==
  ASSUME Head(ops).after = "nothing", Succeed
  PROVE  ops' = Tail(ops) /\ ui' = ui
  BY DEF Succeed, EndOp

LEMMA TailRuns ==
  ASSUME ProviderInv, ops # << >>, ops' = Tail(ops), ui' = ui
  PROVE  QueueOK(ops', ui'.mode) /\ NoNewRunner(Tail(ops), ops')
  BY TailOK DEF ProviderInv, NoNewRunner

\* A switch of the mode leaves no queued window behind in the embedded mode.
LEMMA SucceedOK ==
  ASSUME ProviderInv, ops # << >>, Succeed
  PROVE  ui' \in UiState /\ QueueOK(ops', ui'.mode) /\ NoNewRunner(Tail(ops), ops')
  <1> DEFINE o == Head(ops)
             s == CASE o.after = "clear" -> [ui EXCEPT !.active = None]
                    [] o.after = "freesound" -> [ui EXCEPT !.active = None, !.freesound = TRUE]
                    [] o.after = "leave" -> [ui EXCEPT !.view = o.to]
                    [] o.after = "mode" -> [ui EXCEPT !.active = None, !.mode = o.to]
  <1>1. /\ o \in Op /\ Shape(o) /\ ui \in UiState /\ FieldTypes
        /\ o.after \in {"nothing", "clear", "freesound", "leave", "mode"}
    BY HeadFacts DEF ProviderInv, Op
  <1>2. QueueOK(Tail(ops), ui.mode)
    BY TailOK DEF ProviderInv
  <1>3. CASE ~MayGoOn(o) \/ o.after = "nothing"
    <2>1. ops' = Tail(ops) /\ ui' = ui
      BY <1>3 DEF Succeed, EndOp
    <2> QED
      BY <1>1, <2>1, TailRuns
  <1>4. CASE MayGoOn(o) /\ o.after # "nothing"
    <2>1. ui' = s /\ Effect(s, Tail(ops), Settled, leaving)
      BY <1>4 DEF Succeed, EndWith, Render
    <2>2. s \in UiState /\ QueueOK(Tail(ops), s.mode)
      <3>1. CASE o.after = "clear"
        <4>1. s = [ui EXCEPT !.active = None]
          BY <3>1
        <4>2. s \in UiState /\ s.mode = ui.mode
          BY <1>1, <4>1, ZenonT(40) DEF UiState
        <4> QED
          BY <1>2, <4>2
      <3>2. CASE o.after = "freesound"
        <4>1. s = [ui EXCEPT !.active = None, !.freesound = TRUE]
          BY <3>2
        <4>2. /\ [ui EXCEPT !.active = None, !.freesound = TRUE] \in UiState
              /\ [ui EXCEPT !.active = None, !.freesound = TRUE].mode = ui.mode
          BY <1>1 DEF UiState
        <4> QED
          BY <1>2, <4>1, <4>2
      <3>3. CASE o.after = "leave"
        <4>1. s = [ui EXCEPT !.view = o.to] /\ o.to \in Views
          BY <1>1, <3>3 DEF Shape
        <4>2. ASSUME NEW v \in Views
              PROVE  [ui EXCEPT !.view = v] \in UiState /\ [ui EXCEPT !.view = v].mode = ui.mode
          BY <1>1 DEF UiState
        <4> QED
          BY <1>2, <4>1, <4>2
      <3>4. CASE o.after = "mode"
        <4>1. s = [ui EXCEPT !.active = None, !.mode = o.to] /\ o.to \in Modes
          BY <1>1, <3>4 DEF Shape
        <4>2. s \in UiState
          BY <1>1, <4>1, ZenonT(40) DEF UiState
        <4>3. SwitchesMode(o)
          BY <1>4, <3>4 DEF SwitchesMode, MayGoOn
        <4>4. \A n : QueueOK(Tail(ops), n)
          BY <4>3, TailOK DEF ProviderInv
        <4> QED
          BY <4>2, <4>4
      <3> QED
        BY <1>1, <1>4, <3>1, <3>2, <3>3, <3>4
    <2> HIDE DEF s
    <2>3. QueueOK(ops', s.mode) /\ NoNewRunner(Tail(ops), ops')
      BY <1>1, <2>1, <2>2, EffectOK
    <2> QED
      BY <2>1, <2>2, <2>3
  <1> QED
    BY <1>3, <1>4

\* An operation whose closes failed: what it left behind is remembered.
LEMMA FailInv ==
  ASSUME ProviderInv, ops # << >>, Fail, UNCHANGED refs, leftover' = TRUE
  PROVE  ProviderInv'
  <1>1. ops' = Tail(ops) /\ ui' = ui /\ opening' = opening /\ opened' = opened
    BY DEF Fail, refs
  <1>2. QueueOK(ops', ui'.mode) /\ NoNewRunner(Tail(ops), ops')
    BY <1>1, TailRuns
  <1>3. FieldTypes' /\ (ui'.mode = "embedded" => opened' \in {None, ui'.active})
    BY <1>1 DEF ProviderInv, FieldTypes, OwnActive
  <1>4. OwnedIsOpen'
    BY DEF OwnedIsOpen
  <1> QED
    BY <1>2, <1>3, <1>4, EndsInv

\* The running operation goes on to its next call.
LEMMA GoesOnInv ==
  ASSUME ProviderInv, ops # << >>, NEW o \in Op, Shape(o), o.kind = Head(ops).kind,
         SwitchesMode(o) => SwitchesMode(Head(ops)),
         ops' = [ops EXCEPT ![1] = o], ui' = ui, FieldTypes',
         ui.mode = "embedded" => opened' \in {None, ui.active},
         ui.mode = "embedded" /\ o.step \in {"opening", "closingStale"} => opened' = None,
         OwnedIsOpen'
  PROVE  ProviderInv'
  <1>1. ops \in Seq(Op) /\ 1 \in DOMAIN ops /\ Head(ops) = ops[1]
    BY HeadFacts
  <1>2. QueueOK(ops', ui'.mode)
    BY <1>1, HeadOK DEF ProviderInv
  <1>3. Head(ops') = o
    BY <1>1
  <1>4. OwnActive'
    BY <1>3 DEF OwnActive, InOpen
  <1> QED
    BY <1>2, <1>4 DEF ProviderInv

LEMMA ProceedInv ==
  ASSUME ProviderInv, ops # << >>,
         NEW step \in {"closing", "closingAll", "closingStale"}, NEW p \in Providers \cup {None},
         step = "closing" => Head(ops).kind \in {"closeOpened", "closeBoth", "root"},
         step = "closingAll" => Head(ops).kind \in {"closeBoth", "closeAll", "root"},
         step = "closingStale" => InOpen,
         Proceed(step, p), FieldTypes', OwnedIsOpen',
         opened' \in {None, opened}
  PROVE  ProviderInv'
  <1> DEFINE o == [Head(ops) EXCEPT !.step = step, !.provider = p]
  <1>1. /\ ops \in Seq(Op) /\ 1 \in DOMAIN ops /\ Head(ops) = ops[1]
        /\ Head(ops) \in Op /\ Shape(Head(ops))
    BY HeadFacts
  <1>2. /\ o \in Op /\ o.step = step /\ o.kind = Head(ops).kind /\ o.after = Head(ops).after
        /\ o.to = Head(ops).to /\ o.fresh = Head(ops).fresh
    BY <1>1 DEF Op
  <1>3. ops' = [ops EXCEPT ![1] = o] /\ ui' = ui
    BY <1>1 DEF Proceed
  <1> HIDE DEF o
  <1>4. Shape(o)
    BY <1>1, <1>2 DEF Shape, InOpen
  <1>5. SwitchesMode(o) => SwitchesMode(Head(ops))
    BY <1>2 DEF SwitchesMode
  <1>6. ui.mode = "embedded" => opened' \in {None, ui.active}
    BY DEF ProviderInv, OwnActive
  <1>7. ui.mode = "embedded" /\ o.step \in {"opening", "closingStale"} => opened' = None
    BY <1>2 DEF ProviderInv, OwnActive
  <1> QED
    BY <1>2, <1>3, <1>4, <1>5, <1>6, <1>7, GoesOnInv

LEMMA BeginOpenInv ==
  ASSUME ProviderInv, ops # << >>, NEW p \in Providers \cup {None}, NEW mode \in Modes,
         NEW fresh \in BOOLEAN, Head(ops).kind \in {"open", "reconcile", "root"},
         BeginOpen(p, mode, fresh), leftover' \in BOOLEAN, opened' \in Providers \cup {None},
         ui.mode = "embedded" => opened' = None
  PROVE  ProviderInv'
  <1> DEFINE o == [Head(ops) EXCEPT !.step = "opening", !.provider = p, !.mode = mode,
                                    !.fresh = fresh]
  <1>1. /\ ops \in Seq(Op) /\ 1 \in DOMAIN ops /\ Head(ops) = ops[1]
        /\ Head(ops) \in Op /\ Shape(Head(ops))
    BY HeadFacts
  <1>2. /\ o \in Op /\ o.step = "opening" /\ o.kind = Head(ops).kind
        /\ o.after = Head(ops).after
    BY <1>1 DEF Op
  <1>3. ops' = [ops EXCEPT ![1] = o] /\ ui' = ui /\ opening' = p
    BY <1>1 DEF BeginOpen
  <1> HIDE DEF o
  <1>4. o.after = "nothing"
    BY <1>1, <1>2 DEF Shape
  <1>5. Shape(o) /\ ~SwitchesMode(o)
    BY <1>2, <1>4 DEF Shape, SwitchesMode
  <1>6. FieldTypes'
    BY <1>3 DEF ProviderInv, FieldTypes
  <1>7. OwnedIsOpen'
    BY <1>3 DEF OwnedIsOpen
  <1> QED
    BY <1>2, <1>3, <1>5, <1>6, <1>7, GoesOnInv

-----------------------------------------------------------------------------
(* The operations.                                                         *)

LEMMA SurfacesKept ==
  ASSUME ProviderInv, UNCHANGED <<surfaces, opened, leftover>>, ui'.mode = ui.mode
  PROVE  OwnedIsOpen'
  <1>1. EmbeddedOf(opened)' = EmbeddedOf(opened)
    BY DEF EmbeddedOf
  <1> QED
    BY <1>1 DEF ProviderInv, OwnedIsOpen

LEMMA StartCloseInv ==
  ASSUME ProviderInv, StartClose
  PROVE  ProviderInv'
  <1> DEFINE o == Head(ops)
             target == FirstOf(o.provider, FirstOf(opened, opening))
  <1>1. /\ ops # << >> /\ UNCHANGED <<opening, opened, surfaces, leftover>>
        /\ FieldTypes
    BY DEF StartClose, Running, refs, ProviderInv
  <1>2. /\ o \in Op /\ Shape(o) /\ target \in Providers \cup {None}
        /\ ui \in UiState /\ ui.active \in Providers \cup {None}
        /\ None \in Providers \cup {None}
    BY <1>1, HeadFacts DEF Op, FirstOf, FieldTypes
  <1> HIDE DEF o, target
  <1>3. \/ o.kind = "closeOpened" /\ Succeed
        \/ /\ o.kind \in {"closeOpened", "closeBoth"}
           /\ Proceed("closing", target)
        \/ o.kind \in {"closeAll", "closeBoth"} /\ Proceed("closingAll", None)
        \/ o.kind = "root" /\ Succeed
        \/ o.kind = "root" /\ Proceed("closing", ui.active)
        \/ o.kind = "root" /\ Proceed("closingAll", ui.active)
        \/ o.kind = "closeBoth" /\ Proceed("closingAll", target)
    BY DEF StartClose, o, target
  <1>4. CASE o.kind \in {"closeOpened", "root"} /\ Succeed
    <2>1. ops' = Tail(ops) /\ ui' = ui
      BY <1>2, <1>4, SucceedPlain DEF Shape, o
    <2>2. OwnedIsOpen' /\ FieldTypes'
      BY <1>1, <2>1, SurfacesKept DEF FieldTypes
    <2>3. QueueOK(ops', ui'.mode) /\ NoNewRunner(Tail(ops), ops')
      BY <1>1, <2>1, TailRuns
    <2> QED
      BY <1>1, <2>1, <2>2, <2>3, EndsInv DEF ProviderInv, OwnActive
  <1>5. ASSUME NEW step \in {"closing", "closingAll"}, NEW p \in Providers \cup {None},
               Proceed(step, p),
               step = "closing" => o.kind \in {"closeOpened", "closeBoth", "root"},
               step = "closingAll" => o.kind \in {"closeBoth", "closeAll", "root"}
        PROVE  ProviderInv'
    <2>1. ui' = ui
      BY <1>5 DEF Proceed
    <2>2. OwnedIsOpen' /\ FieldTypes'
      BY <1>1, <2>1, SurfacesKept DEF FieldTypes
    <2> QED
      BY <1>1, <1>5, <2>2, ProceedInv DEF o
  <1> QED
    BY <1>2, <1>3, <1>4, <1>5

LEMMA StartOpenInv ==
  ASSUME ProviderInv, StartOpen
  PROVE  ProviderInv'
  <1>1. ops # << >> /\ Head(ops).kind = "open" /\ opened' = opened /\ leftover' = leftover
    BY DEF StartOpen, Running
  <1>2. Head(ops) \in Op /\ ui.mode # "embedded"
    BY <1>1, HeadFacts
  <1>3. Head(ops).provider \in Providers \cup {None} /\ Head(ops).fresh \in BOOLEAN
        /\ "window" \in Modes
    BY <1>2 DEF Op, Modes
  <1>4. BeginOpen(Head(ops).provider, "window", Head(ops).fresh)
    BY DEF StartOpen
  <1>5. leftover' \in BOOLEAN /\ opened' \in Providers \cup {None}
    BY <1>1 DEF ProviderInv, FieldTypes
  <1> QED
    BY <1>1, <1>2, <1>3, <1>4, <1>5, BeginOpenInv

\* A reconcile opens only what is not open, so nothing is.
LEMMA StartReconcileInv ==
  ASSUME ProviderInv, StartReconcile
  PROVE  ProviderInv'
  <1>1. /\ ops # << >> /\ Head(ops).kind = "reconcile"
        /\ opened' = opened /\ leftover' = leftover /\ surfaces' = surfaces
    BY DEF StartReconcile, Running, refs
  <1>2. /\ Head(ops) \in Op /\ Shape(Head(ops)) /\ ui.active \in Providers \cup {None}
        /\ FieldTypes
    BY <1>1, HeadFacts DEF ProviderInv
  <1>3. CASE BeginOpen(ui.active, "embedded", TRUE) /\ opened # ui.active
    <2>1. ui.mode = "embedded" => opened' = None
      BY <1>1, <1>3 DEF ProviderInv, OwnActive
    <2>2. leftover' \in BOOLEAN /\ opened' \in Providers \cup {None} /\ "embedded" \in Modes
      BY <1>1, <1>2 DEF FieldTypes, Modes
    <2> QED
      BY <1>1, <1>2, <1>3, <2>1, <2>2, BeginOpenInv
  <1>4. CASE Succeed /\ UNCHANGED refs
    <2>1. ops' = Tail(ops) /\ ui' = ui
      BY <1>1, <1>2, <1>4, SucceedPlain DEF Shape
    <2>2. OwnedIsOpen' /\ FieldTypes'
      BY <1>1, <1>2, <1>4, <2>1, SurfacesKept DEF FieldTypes, refs
    <2>3. QueueOK(ops', ui'.mode) /\ NoNewRunner(Tail(ops), ops')
      BY <1>1, <2>1, TailRuns
    <2> QED
      BY <1>1, <2>1, <2>2, <2>3, EndsInv DEF ProviderInv, OwnActive
  <1> QED
    BY <1>3, <1>4 DEF StartReconcile

\* The surfaces of one provider are closed: those of another stay, and a reference
\* to that one is dropped.
LEMMA ClosedOne ==
  ASSUME ProviderInv, NEW p, opened' = Without(opened, p), leftover' = leftover,
         ui'.mode = ui.mode, surfaces' = surfaces \ EmbeddedOf(p)
  PROVE  OwnedIsOpen'
  <1> SUFFICES ASSUME ui.mode = "embedded", opened' # None, ~leftover
               PROVE  EmbeddedOf(opened)' # {}
    BY DEF OwnedIsOpen
  <1>1. opened' = opened /\ opened # p /\ opened # None
    BY DEF Without
  <1>2. EmbeddedOf(opened) # {}
    BY <1>1 DEF ProviderInv, OwnedIsOpen
  <1>3. EmbeddedOf(opened) \subseteq EmbeddedOf(opened)'
    BY <1>1 DEF EmbeddedOf
  <1> QED
    BY <1>2, <1>3

LEMMA CloseEmbeddedInv ==
  ASSUME ProviderInv, CloseEmbedded
  PROVE  ProviderInv'
  <1> DEFINE o == Head(ops)
  <1>1. ops # << >> /\ o.step = "closing"
    BY DEF CloseEmbedded, Running
  <1>2. /\ o \in Op /\ Shape(o) /\ o.provider \in Providers \cup {None} /\ FieldTypes
        /\ o.kind \in {"closeOpened", "closeBoth", "root"}
    BY <1>1, HeadFacts DEF Op, ProviderInv, Shape
  <1>3. CASE Fail /\ leftover' = TRUE /\ UNCHANGED refs
    BY <1>1, <1>3, FailInv
  <1>4. CASE /\ surfaces' = surfaces \ EmbeddedOf(o.provider)
             /\ opened' = Without(opened, o.provider)
             /\ opening' = Without(opening, o.provider)
             /\ leftover' = leftover
             /\ IF o.kind = "closeOpened" THEN Succeed ELSE Proceed("closingAll", o.provider)
    <2>1. ui' = ui
      BY <1>2, <1>4, SucceedPlain DEF Shape, Proceed
    <2>2. OwnedIsOpen'
      BY <1>4, <2>1, ClosedOne
    <2>3. FieldTypes' /\ opened' \in {None, opened}
      BY <1>2, <1>4, <2>1 DEF FieldTypes, Without
    <2>4. CASE o.kind = "closeOpened"
      <3>1. ops' = Tail(ops)
        BY <1>2, <1>4, <2>4, SucceedPlain DEF Shape
      <3>2. QueueOK(ops', ui'.mode) /\ NoNewRunner(Tail(ops), ops')
        BY <1>1, <2>1, <3>1, TailRuns
      <3> QED
        BY <1>1, <2>1, <2>2, <2>3, <3>2, EndsInv DEF ProviderInv, OwnActive
    <2>5. CASE o.kind # "closeOpened"
      <3>1. Proceed("closingAll", o.provider) /\ o.kind \in {"closeBoth", "closeAll", "root"}
        BY <1>2, <1>4, <2>5
      <3> QED
        BY <1>1, <1>2, <2>2, <2>3, <3>1, ProceedInv
    <2> QED
      BY <2>4, <2>5
  <1> QED
    BY <1>3, <1>4 DEF CloseEmbedded

LEMMA CloseAllInv ==
  ASSUME ProviderInv, CloseAll
  PROVE  ProviderInv'
  <1> DEFINE o == Head(ops)
  <1>1. ops # << >>
    BY DEF CloseAll, Running
  <1>2. /\ o \in Op /\ Shape(o) /\ o.provider \in Providers \cup {None} /\ o.fresh \in BOOLEAN
        /\ ui.mode \in Modes /\ FieldTypes
    BY <1>1, HeadFacts DEF Op, ProviderInv
  <1>3. CASE Fail /\ leftover' = TRUE /\ UNCHANGED refs
    BY <1>1, <1>3, FailInv
  <1>4. CASE /\ Reopens(o) /\ opened' = None /\ leftover' = leftover
             /\ BeginOpen(o.provider, ui.mode, o.fresh)
    <2>1. o.kind = "root" /\ leftover' \in BOOLEAN /\ opened' \in Providers \cup {None}
      BY <1>2, <1>4 DEF Reopens, FieldTypes
    <2> QED
      BY <1>1, <1>2, <1>4, <2>1, BeginOpenInv
  <1>5. CASE ClearOwnership /\ Succeed /\ leftover' = leftover
    <2>1. ui' \in UiState /\ QueueOK(ops', ui'.mode) /\ NoNewRunner(Tail(ops), ops')
      BY <1>1, <1>5, SucceedOK
    <2>2. opened' = None /\ opening' = None
      BY <1>5 DEF ClearOwnership
    <2>3. FieldTypes' /\ OwnedIsOpen'
      BY <1>2, <1>5, <2>1, <2>2 DEF FieldTypes, OwnedIsOpen
    <2> QED
      BY <1>1, <2>1, <2>2, <2>3, EndsInv
  <1> QED
    BY <1>3, <1>4, <1>5 DEF CloseAll, SomeRemain

\* What opened last is active, and in the embedded mode it has its surface.
LEMMA OpenSucceedsInv ==
  ASSUME ProviderInv, OpenSucceeds
  PROVE  ProviderInv'
  <1> DEFINE o == Head(ops)
             new == [where |-> o.mode, provider |-> o.provider, root |-> surfaceRoot]
  <1>1. ops # << >> /\ o.step = "opening" /\ leftover' = leftover /\ surfaces' = {new}
    BY DEF OpenSucceeds, Running
  <1>2. /\ o \in Op /\ Shape(o) /\ o.provider \in Providers \cup {None} /\ FieldTypes
        /\ o.kind \in {"open", "reconcile", "root"} /\ o.after = "nothing"
    BY <1>1, HeadFacts DEF Op, ProviderInv, Shape
  <1>3. CASE Stale(o)
    <2>1. Proceed("closingStale", o.provider) /\ opening' = opening /\ opened' = opened
      BY <1>3 DEF OpenSucceeds
    <2>2. ui' = ui /\ InOpen
      BY <1>1, <2>1 DEF Proceed, InOpen
    <2>3. FieldTypes' /\ OwnedIsOpen'
      BY <1>1, <1>2, <2>1, <2>2 DEF FieldTypes, OwnedIsOpen, ProviderInv, OwnActive
    <2> QED
      BY <1>1, <1>2, <2>1, <2>2, <2>3, ProceedInv
  <1>4. CASE ~Stale(o)
    <2>1. opening' = None /\ opened' = o.provider /\ Succeed
      BY <1>4 DEF OpenSucceeds
    <2>2. ops' = Tail(ops) /\ ui' = ui
      BY <1>2, <2>1, SucceedPlain
    <2>3. ui.mode = "embedded" => o.provider = ui.active /\ o.mode = "embedded"
      BY <1>4 DEF Stale, CanReconcile
    <2>4. FieldTypes'
      BY <1>1, <1>2, <2>1, <2>2 DEF FieldTypes
    <2>5. OwnedIsOpen'
      <3> SUFFICES ASSUME ui.mode = "embedded" PROVE new \in EmbeddedOf(opened)'
        BY <2>2 DEF OwnedIsOpen
      <3> QED
        BY <1>1, <2>1, <2>3 DEF EmbeddedOf
    <2>6. QueueOK(ops', ui'.mode) /\ NoNewRunner(Tail(ops), ops')
      BY <1>1, <2>2, TailRuns
    <2> QED
      BY <1>1, <2>1, <2>2, <2>3, <2>4, <2>5, <2>6, EndsInv
  <1> QED
    BY <1>3, <1>4

LEMMA OpenFailsInv ==
  ASSUME ProviderInv, OpenFails
  PROVE  ProviderInv'
  <1> DEFINE o == Head(ops)
             s == [ui EXCEPT !.active = None]
  <1>1. /\ ops # << >> /\ o.step = "opening" /\ opened' = opened
        /\ opening' = Without(opening, o.provider)
        /\ leftover' = TRUE \/ leftover' = leftover
        /\ Succeed \/ EndWith(s)
    BY DEF OpenFails, Running, SomeRemain
  <1>2. /\ Shape(o) /\ FieldTypes /\ o.after = "nothing" /\ ui \in UiState
    BY <1>1, HeadFacts DEF ProviderInv, Shape
  <1>3. ui.mode = "embedded" => opened = None
    BY <1>1 DEF ProviderInv, OwnActive, InOpen
  <1>4. s \in UiState /\ s.mode = ui.mode
    BY <1>2 DEF UiState
  <1> HIDE DEF s
  <1>5. /\ ui' \in UiState /\ ui'.mode = ui.mode
        /\ QueueOK(ops', ui'.mode) /\ NoNewRunner(Tail(ops), ops')
    <2>1. CASE Succeed
      <3>1. ops' = Tail(ops) /\ ui' = ui
        BY <1>2, <2>1, SucceedPlain
      <3> QED
        BY <1>1, <1>2, <3>1, TailRuns
    <2>2. CASE EndWith(s)
      <3>1. ui' = s /\ Effect(s, Tail(ops), Settled, leaving)
        BY <2>2 DEF EndWith, Render
      <3>2. QueueOK(Tail(ops), ui.mode)
        BY <1>1, TailOK DEF ProviderInv
      <3>3. QueueOK(ops', ui.mode) /\ NoNewRunner(Tail(ops), ops')
        BY <1>2, <1>4, <3>1, <3>2, EffectOK
      <3> QED
        BY <1>4, <3>1, <3>3
    <2> QED
      BY <1>1, <2>1, <2>2
  <1>6. FieldTypes' /\ OwnedIsOpen'
    BY <1>1, <1>2, <1>3, <1>5 DEF FieldTypes, OwnedIsOpen, Without
  <1> QED
    BY <1>1, <1>3, <1>5, <1>6, EndsInv

LEMMA CloseStaleInv ==
  ASSUME ProviderInv, CloseStale
  PROVE  ProviderInv'
  <1> DEFINE o == Head(ops)
  <1>1. /\ ops # << >> /\ o.step = "closingStale" /\ ops' = Tail(ops) /\ ui' = ui
        /\ leftover' = TRUE \/ leftover' = leftover
        /\ \/ opened' = opened /\ opening' = opening
           \/ opened' = Without(opened, o.provider) /\ opening' = Without(opening, o.provider)
    BY DEF CloseStale, Running, EndOp, refs
  <1>2. FieldTypes /\ (ui.mode = "embedded" => opened = None)
    BY <1>1 DEF ProviderInv, OwnActive, InOpen
  <1>3. FieldTypes' /\ (ui.mode = "embedded" => opened' = None)
    BY <1>1, <1>2 DEF FieldTypes, Without
  <1>4. OwnedIsOpen'
    BY <1>1, <1>3 DEF OwnedIsOpen
  <1>5. QueueOK(ops', ui'.mode) /\ NoNewRunner(Tail(ops), ops')
    BY <1>1, TailRuns
  <1> QED
    BY <1>1, <1>3, <1>4, <1>5, EndsInv

-----------------------------------------------------------------------------
LEMMA ProviderInit == Init => ProviderInv
  <1> SUFFICES ASSUME Init PROVE ProviderInv
    OBVIOUS
  <1> DEFINE first == Plain("closeBoth", None)
  <1>1. PICK m \in Modes, r \in Roots :
          ui = [active |-> None, mode |-> m, view |-> "sample", settings |-> FALSE,
                freesound |-> FALSE, root |-> r]
    BY DEF Init
  <1>2. ui \in UiState
    BY <1>1 DEF UiState, Views
  <1>3. FieldTypes /\ opened = None
    BY <1>2 DEF Init, FieldTypes
  <1>4. Unawaited(first)
    BY PlainUnawaited
  <1>5. ops = << >> \/ ops = <<first>>
    BY DEF Init
  <1> HIDE DEF first
  <1>6. QueueOK(ops, ui.mode)
    <2>1. CASE ops = << >>
      BY <2>1 DEF QueueOK
    <2>2. CASE ops = <<first>>
      <3>1. first \in Op /\ Shape(first) /\ first.kind # "open"
        BY <1>4 DEF Unawaited, Addable
      <3>2. ops \in Seq(Op) /\ DOMAIN ops = {1} /\ ops[1] = first
        BY <2>2, <3>1
      <3> QED
        BY <3>1, <3>2 DEF QueueOK
    <2> QED
      BY <1>5, <2>1, <2>2
  <1>7. OwnActive /\ OwnedIsOpen
    BY <1>3 DEF OwnActive, OwnedIsOpen
  <1> QED
    BY <1>3, <1>6, <1>7 DEF ProviderInv

LEMMA ProviderStep == ProviderInv /\ [Next]_providerVars => ProviderInv'
  <1> SUFFICES ASSUME ProviderInv, [Next]_providerVars PROVE ProviderInv'
    OBVIOUS
  <1>1. CASE UserStep
    BY <1>1, UserInv
  <1>2. CASE Frame
    BY <1>2, FrameInv
  <1>3. CASE OpStep
    BY <1>3, StartCloseInv, StartOpenInv, StartReconcileInv, CloseEmbeddedInv, CloseAllInv,
       CloseStaleInv, OpenSucceedsInv, OpenFailsInv DEF OpStep
  <1>4. CASE UNCHANGED providerVars
    <2>1. UNCHANGED <<ui, opening, opened, ops, surfaces, leftover>>
      BY <1>4 DEF providerVars, refs
    <2> QED
      BY <2>1 DEF ProviderInv, FieldTypes, OwnActive, OwnedIsOpen, InOpen, EmbeddedOf
  <1> QED
    BY <1>1, <1>2, <1>3, <1>4 DEF Next

(* In every reachable state the queue holds operations at most the first of *)
(* which runs, no window is about to open in the embedded mode, and the     *)
(* reference to an opened provider names the active one.                    *)
THEOREM ProviderInvariant == Spec => []ProviderInv
  <1> QED
    BY ProviderInit, ProviderStep, PTL DEF Spec

(* At every moment an embedded provider that the references call open has   *)
(* its surface (closeOpenedProvider and the bounds updates reach it), in    *)
(* whatever order the user, the frames and the native calls went.           *)
THEOREM OwnedSurfaceExists == Spec => []OwnedIsOpen
  <1>1. ProviderInv => OwnedIsOpen
    BY DEF ProviderInv
  <1> QED
    BY <1>1, ProviderInvariant, PTL

-----------------------------------------------------------------------------
(* Intents: what is fresh, what is live, and what is pending.              *)

\* Only a reconcile is queued without giving up what is queued before it.
Ordered(q) ==
  \A i, j \in DOMAIN q : i < j /\ q[j].kind # "reconcile" => ~q[i].fresh /\ ~q[i].live

LiveOnce(q) ==
  /\ \A k \in DOMAIN q : q[k].live => q[k].kind = "reconcile"
  /\ \A i, j \in DOMAIN q : q[i].live /\ q[j].live => i = j

PendingStates == {"none", "waiting", "queued"}
LeavingStates == {"idle", "leaving", "left"}

\* What opens knows the provider it opens.
Named(o) ==
  o.kind = "open" \/ (o.kind = "root" /\ o.step # "queued") => o.provider \in Providers

IntentOK(q, p) ==
  /\ p \in PendingStates
  /\ Ordered(q) /\ LiveOnce(q)
  /\ p = "queued" <=> \E k \in DOMAIN q : q[k].live
  /\ \A k \in DOMAIN q : Named(q[k])

IntentInv == IntentOK(ops, pending) /\ leaving \in LeavingStates

\* What is left of a queue when its intents are given up.
GivenUp(q) == \A k \in DOMAIN q : ~q[k].fresh /\ ~q[k].live /\ Named(q[k])

\* The queue q goes on as r: no operation leaves, and what is added waits.
Grows(q, r) ==
  /\ \A k \in DOMAIN q :
       /\ k \in DOMAIN r /\ r[k].kind = q[k].kind /\ r[k].provider = q[k].provider
       /\ r[k].mode = q[k].mode /\ r[k].step = q[k].step /\ (r[k].fresh => q[k].fresh)
  /\ \A k \in DOMAIN r : k \in DOMAIN q \/ r[k].step = "queued"

LEMMA GrowsTransitive ==
  ASSUME NEW q, NEW r, NEW t, Grows(q, r), Grows(r, t)
  PROVE  Grows(q, t)
  BY DEF Grows

LEMMA AdvanceIntents ==
  ASSUME NEW q, NEW m, QueueOK(q, m), \A k \in DOMAIN q : Named(q[k])
  PROVE  GivenUp(Advance(q)) /\ Grows(q, Advance(q)) /\ Advance(q) \in Seq(Op)
  <1>0. QueueOK(Advance(q), m) /\ DOMAIN Advance(q) = DOMAIN q
    BY AdvanceOK
  <1>1. q \in Seq(Op) /\ Advance(q) \in Seq(Op)
    BY <1>0 DEF QueueOK
  <1>2. ASSUME NEW k \in DOMAIN q
        PROVE  /\ ~Advance(q)[k].fresh /\ ~Advance(q)[k].live
               /\ Advance(q)[k].step = q[k].step /\ Advance(q)[k].kind = q[k].kind
               /\ Advance(q)[k].provider = q[k].provider /\ Advance(q)[k].mode = q[k].mode
    <2>1. q[k] \in Op
      BY <1>1
    <2>2. Advance(q)[k] = [q[k] EXCEPT !.fresh = FALSE, !.live = FALSE]
      BY DEF Advance
    <2> QED
      BY <2>1, <2>2 DEF Op
  <1> QED
    BY <1>0, <1>1, <1>2 DEF GivenUp, Grows, Named

LEMMA AppendGrows ==
  ASSUME NEW q \in Seq(Op), NEW o \in Op, o.step = "queued"
  PROVE  /\ Grows(q, Append(q, o)) /\ Append(q, o) \in Seq(Op)
         /\ Len(q) + 1 \in DOMAIN Append(q, o) /\ Append(q, o)[Len(q) + 1] = o
         /\ \A k \in DOMAIN q : k \in DOMAIN Append(q, o) /\ Append(q, o)[k] = q[k]
         /\ \A k \in DOMAIN Append(q, o) : k \in DOMAIN q \/ k = Len(q) + 1
         /\ \A k \in DOMAIN q : k < Len(q) + 1
  <1>1. /\ DOMAIN q = 1..Len(q) /\ Len(q) \in Nat /\ Append(q, o) \in Seq(Op)
        /\ DOMAIN Append(q, o) = 1..(Len(q) + 1)
        /\ Append(q, o)[Len(q) + 1] = o
        /\ \A k \in DOMAIN q : Append(q, o)[k] = q[k]
    OBVIOUS
  <1> QED
    BY <1>1 DEF Grows

\* An operation with an intent is added to a queue without one.
LEMMA AppendIntents ==
  ASSUME NEW q \in Seq(Op), GivenUp(q), NEW o \in Op, o.step = "queued", ~o.live, Named(o),
         NEW p \in {"none", "waiting"}
  PROVE  /\ IntentOK(Append(q, o), p)
         /\ ~o.fresh => GivenUp(Append(q, o))
  <1> DEFINE r == Append(q, o)
  <1>1. /\ Len(q) + 1 \in DOMAIN r /\ r[Len(q) + 1] = o
        /\ \A k \in DOMAIN q : k \in DOMAIN r /\ r[k] = q[k]
        /\ \A k \in DOMAIN r : k \in DOMAIN q \/ k = Len(q) + 1
        /\ \A k \in DOMAIN q : k < Len(q) + 1
        /\ DOMAIN q = 1..Len(q) /\ Len(q) \in Nat
    BY AppendGrows
  <1> HIDE DEF r
  <1>2. \A k \in DOMAIN r : ~r[k].live /\ Named(r[k])
    BY <1>1 DEF GivenUp
  <1>3. Ordered(r)
    <2> SUFFICES ASSUME NEW i \in DOMAIN r, NEW j \in DOMAIN r, i < j PROVE ~r[i].fresh
      BY <1>2 DEF Ordered
    <2>1. i \in DOMAIN q
      BY <1>1
    <2> QED
      BY <1>1, <2>1 DEF GivenUp
  <1>4. IntentOK(r, p)
    BY <1>2, <1>3 DEF IntentOK, LiveOnce, PendingStates
  <1>5. ~o.fresh => GivenUp(r)
    BY <1>1, <1>2 DEF GivenUp
  <1> QED
    BY <1>4, <1>5 DEF r

LEMMA GivenUpIntents ==
  ASSUME NEW q, GivenUp(q), NEW p \in {"none", "waiting"}
  PROVE  IntentOK(q, p)
  BY DEF GivenUp, IntentOK, Ordered, LiveOnce, PendingStates

LEMMA TailIntents ==
  ASSUME NEW q \in Seq(Op), q # << >>, NEW p, IntentOK(q, p)
  PROVE  IntentOK(Tail(q), IF Head(q).live THEN "none" ELSE p)
  <1> DEFINE r == Tail(q)
             n == IF Head(q).live THEN "none" ELSE p
  <1>1. /\ DOMAIN q = 1..Len(q) /\ Len(q) \in Nat \ {0} /\ Head(q) = q[1] /\ 1 \in DOMAIN q
        /\ DOMAIN r = 1..(Len(q) - 1)
        /\ \A k \in DOMAIN r : k + 1 \in DOMAIN q /\ r[k] = q[k + 1]
        /\ \A k \in DOMAIN q : k = 1 \/ (k - 1 \in DOMAIN r /\ r[k - 1] = q[k])
    OBVIOUS
  <1> HIDE DEF r
  <1>2. Ordered(r)
    <2> SUFFICES ASSUME NEW i \in DOMAIN r, NEW j \in DOMAIN r, i < j, r[j].kind # "reconcile"
                 PROVE  ~r[i].fresh /\ ~r[i].live
      BY DEF Ordered
    <2>1. i + 1 < j + 1
      BY <1>1
    <2> QED
      BY <1>1, <2>1 DEF IntentOK, Ordered
  <1>3. LiveOnce(r)
    <2>1. ASSUME NEW i \in DOMAIN r, NEW j \in DOMAIN r, r[i].live, r[j].live PROVE i = j
      <3>1. i + 1 = j + 1
        BY <1>1, <2>1 DEF IntentOK, LiveOnce
      <3> QED
        BY <1>1, <3>1
    <2> QED
      BY <1>1, <2>1 DEF IntentOK, LiveOnce
  <1>4. \A k \in DOMAIN r : Named(r[k])
    BY <1>1 DEF IntentOK
  <1>5. n = "queued" <=> \E k \in DOMAIN r : r[k].live
    <2>1. CASE Head(q).live
      <3>1. ASSUME NEW k \in DOMAIN r, r[k].live PROVE FALSE
        <4>1. k + 1 = 1
          BY <1>1, <2>1, <3>1 DEF IntentOK, LiveOnce
        <4> QED
          BY <1>1, <4>1
      <3> QED
        BY <2>1, <3>1
    <2>2. CASE ~Head(q).live
      BY <1>1, <2>2 DEF IntentOK
    <2> QED
      BY <2>1, <2>2
  <1>6. n \in PendingStates
    BY DEF IntentOK, PendingStates
  <1> QED
    BY <1>2, <1>3, <1>4, <1>5, <1>6 DEF IntentOK, r

\* The head goes on with its intent, or with that of the moment when it is live.
LEMMA HeadIntents ==
  ASSUME NEW q \in Seq(Op), q # << >>, NEW p, IntentOK(q, p), NEW o \in Op, Named(o),
         o.live = q[1].live, o.kind = q[1].kind, o.fresh => q[1].fresh \/ q[1].live
  PROVE  IntentOK([q EXCEPT ![1] = o], p)
  <1> DEFINE r == [q EXCEPT ![1] = o]
  <1>1. /\ DOMAIN q = 1..Len(q) /\ Len(q) \in Nat \ {0} /\ 1 \in DOMAIN q
        /\ DOMAIN r = DOMAIN q
        /\ \A k \in DOMAIN q : r[k] = IF k = 1 THEN o ELSE q[k]
    OBVIOUS
  <1> HIDE DEF r
  <1>2. \A k \in DOMAIN q : /\ Named(r[k]) /\ r[k].live = q[k].live /\ r[k].kind = q[k].kind
                            /\ r[k].fresh => q[k].fresh \/ q[k].live
    BY <1>1 DEF IntentOK
  <1>3. Ordered(r)
    BY <1>1, <1>2 DEF IntentOK, Ordered
  <1>4. LiveOnce(r)
    BY <1>1, <1>2 DEF IntentOK, LiveOnce
  <1> QED
    BY <1>1, <1>2, <1>3, <1>4 DEF IntentOK, r

-----------------------------------------------------------------------------
(* What a render does to the queue and to the intents.                     *)

\* What a render may add.
Additions(p) ==
  {<< >>, <<NewOp("root", None, "nothing", "web")>>, <<Plain("closeOpened", p)>>,
   <<Plain("closeBoth", p)>>, <<Plain("closeBoth", p), Plain("closeBoth", p)>>}

LEMMA EffectCases ==
  ASSUME NEW s, NEW q, NEW p, NEW lv \in LeavingStates, Effect(s, q, p, lv)
  PROVE  /\ leaving' \in LeavingStates
         /\ \/ ops' = q /\ pending' = p /\ s.root = ui.root
            \/ /\ pending' \in {"none", "waiting"}
               /\ \E more \in Additions(s.active) : ops' = Advance(q) \o more
  <1>1. CASE ops' = q /\ pending' = p /\ leaving' = lv /\ s.root = ui.root
    BY <1>1
  <1>2. CASE /\ leaving' \in {lv, "left", "idle"} /\ pending' \in {"none", "waiting"}
             /\ \/ ops' = Advance(q) \o << >>
                \/ ops' = Advance(q) \o <<NewOp("root", None, "nothing", "web")>>
                \/ ops' = Advance(q) \o <<Plain("closeOpened", s.active)>>
                \/ ops' = Advance(q) \o <<Plain("closeBoth", s.active)>>
                \/ ops' = Advance(q) \o <<Plain("closeBoth", s.active),
                                          Plain("closeBoth", s.active)>>
    BY <1>2 DEF Additions, LeavingStates
  <1> QED
    BY <1>1, <1>2 DEF Effect, CloseOnLeaving

LEMMA NewOpFields ==
  ASSUME NEW kind, NEW p, NEW after, NEW to
  PROVE  /\ NewOp(kind, p, after, to).kind = kind
         /\ NewOp(kind, p, after, to).provider = p
         /\ NewOp(kind, p, after, to).step = "queued"
         /\ NewOp(kind, p, after, to).live <=> kind = "reconcile"
         /\ NewOp(kind, p, after, to).fresh
              => kind \in {"open", "root"} \/ after # "nothing"
  BY DEF NewOp

LEMMA AddedIntents ==
  ASSUME NEW p \in Providers \cup {None}
  PROVE  \A o \in {NewOp("root", None, "nothing", "web"), Plain("closeOpened", p),
                   Plain("closeBoth", p), Plain("reconcile", p)} :
           /\ o \in Op /\ o.step = "queued" /\ Named(o) /\ (o.live <=> o.kind = "reconcile")
           /\ o.fresh => o.kind = "root"
  <1>1. /\ NewOp("root", None, "nothing", "web") \in Op
        /\ Plain("closeOpened", p) \in Op /\ Plain("closeBoth", p) \in Op
        /\ Plain("reconcile", p) \in Op
    BY PlainUnawaited DEF Unawaited, Addable
  <1>2. ASSUME NEW kind \in {"root", "closeOpened", "closeBoth", "reconcile"}, NEW x
        PROVE  /\ NewOp(kind, x, "nothing", "web").step = "queued"
               /\ NewOp(kind, x, "nothing", "web").kind # "open"
               /\ NewOp(kind, x, "nothing", "web").live
                    <=> NewOp(kind, x, "nothing", "web").kind = "reconcile"
               /\ NewOp(kind, x, "nothing", "web").fresh
                    => NewOp(kind, x, "nothing", "web").kind = "root"
    BY NewOpFields
  <1> QED
    BY <1>1, <1>2 DEF Named, Plain

LEMMA AdditionsGrow ==
  ASSUME NEW q \in Seq(Op), GivenUp(q), NEW p \in Providers \cup {None},
         NEW more \in Additions(p), NEW n \in {"none", "waiting"}
  PROVE  Grows(q, q \o more) /\ IntentOK(q \o more, n)
  <1> DEFINE root == NewOp("root", None, "nothing", "web")
             shut == Plain("closeOpened", p)
             both == Plain("closeBoth", p)
  <1>1. \A o \in {root, shut, both} :
           /\ o \in Op /\ o.step = "queued" /\ Named(o) /\ ~o.live
           /\ o.fresh => o = root
    <2>1. root.kind = "root" /\ shut.kind = "closeOpened" /\ both.kind = "closeBoth"
      BY DEF Plain, NewOp
    <2>2. ~shut.fresh /\ ~both.fresh
      BY DEF Plain, NewOp
    <2> QED
      BY <2>1, <2>2, AddedIntents
  <1>2. ~both.fresh
    BY DEF Plain, NewOp
  <1> HIDE DEF root, shut, both
  <1>3. ASSUME NEW o \in {root, shut, both}
        PROVE  /\ q \o <<o>> = Append(q, o) /\ q \o <<o, o>> = Append(Append(q, o), o)
               /\ Append(q, o) \in Seq(Op) /\ Grows(q, Append(q, o))
               /\ IntentOK(Append(q, o), n)
    <2>1. o \in Op /\ o.step = "queued" /\ Named(o) /\ ~o.live
      BY <1>1
    <2>2. q \o <<o>> = Append(q, o) /\ q \o <<o, o>> = Append(Append(q, o), o)
      BY <2>1
    <2> QED
      BY <2>1, <2>2, AppendGrows, AppendIntents
  <1>4. CASE more = << >>
    <2>1. q \o << >> = q /\ Grows(q, q)
      BY DEF Grows
    <2> QED
      BY <1>4, <2>1, GivenUpIntents
  <1>5. CASE more \in {<<root>>, <<shut>>, <<both>>}
    BY <1>3, <1>5
  <1>6. CASE more = <<both, both>>
    <2> DEFINE r == Append(q, both)
    <2>1. both \in Op /\ both.step = "queued" /\ Named(both) /\ ~both.live
      BY <1>1
    <2>2. r \in Seq(Op) /\ GivenUp(r) /\ Grows(q, r) /\ q \o more = Append(r, both)
      BY <1>2, <1>3, <1>6, <2>1, AppendIntents
    <2> HIDE DEF r
    <2>3. Grows(r, Append(r, both)) /\ IntentOK(Append(r, both), n)
      BY <2>1, <2>2, AppendGrows, AppendIntents
    <2> QED
      BY <2>2, <2>3, GrowsTransitive
  <1> QED
    BY <1>4, <1>5, <1>6 DEF Additions, root, shut, both

LEMMA EffectIntents ==
  ASSUME NEW s, s.active \in Providers \cup {None}, NEW q, NEW m, QueueOK(q, m), NEW p,
         IntentOK(q, p), NEW lv \in LeavingStates, Effect(s, q, p, lv)
  PROVE  /\ IntentOK(ops', pending') /\ leaving' \in LeavingStates /\ Grows(q, ops')
         /\ s.root # ui.root => \A k \in DOMAIN q : ~ops'[k].fresh
  <1> DEFINE a == Advance(q)
  <1>1. CASE ops' = q /\ pending' = p /\ s.root = ui.root
    <2>1. Grows(q, q)
      BY DEF Grows
    <2> QED
      BY <1>1, <2>1, EffectCases
  <1>2. ASSUME pending' \in {"none", "waiting"},
               NEW more \in Additions(s.active), ops' = a \o more
        PROVE  /\ IntentOK(ops', pending') /\ Grows(q, ops')
               /\ \A k \in DOMAIN q : ~ops'[k].fresh
    <2>1. GivenUp(a) /\ Grows(q, a) /\ a \in Seq(Op)
      BY AdvanceIntents DEF IntentOK
    <2> HIDE DEF a
    <2>2. Grows(a, ops') /\ IntentOK(ops', pending')
      BY <1>2, <2>1, AdditionsGrow
    <2>3. \A k \in DOMAIN q : ~ops'[k].fresh
      BY <2>1, <2>2 DEF Grows, GivenUp
    <2> QED
      BY <2>1, <2>2, <2>3, GrowsTransitive
  <1> QED
    BY <1>1, <1>2, EffectCases

-----------------------------------------------------------------------------
(* Surfaces: who still closes them, and who owns them.                     *)

\* The operation o closes the surface s before it ends, or fails to.
ClosedBy(o, s) ==
  \/ o.kind \in {"closeBoth", "closeAll", "open"}
  \/ o.step \in {"closingAll", "opening", "closingStale"}
  \/ o.kind = "closeOpened" /\ s.where = "embedded" /\ o.provider = s.provider

WillClose(q, s) == \E k \in DOMAIN q : ClosedBy(q[k], s)

RootQueued(q) == \E k \in DOMAIN q : q[k].kind = "root"

\* The surface is the one that the interface shows.
Shown(s) == s.where = ui.mode /\ s.provider = ui.active /\ (s.where = "embedded" => Wanted)

\* It was created with the folder chosen last, and the references say so.
Current(s) == opened = s.provider /\ surfaceRoot = s.root /\ s.root = ui.root

\* A surface that nobody closes is shown, and a change of the folder reaches it.
Settles(q, s) ==
  /\ Shown(s) /\ (Current(s) \/ RootQueued(q))
  /\ \A k \in DOMAIN q : q[k].kind # "closeOpened"

Accounted == ~leftover => \A s \in surfaces : WillClose(ops, s) \/ Settles(ops, s)

\* A surface opens with the folder of its intent.
HeadOpens ==
  ops # << >> /\ Head(ops).step = "opening" =>
    /\ Head(ops).provider \in Providers /\ surfaceRoot \in Roots
    /\ Head(ops).fresh => surfaceRoot = ui.root

StaleOnly ==
  ops # << >> /\ Head(ops).step = "closingStale" =>
    \A s \in surfaces : s.where = Head(ops).mode /\ s.provider = Head(ops).provider

SurfaceTypes == surfaceRoot \in Roots \cup {None} /\ surfaces \subseteq Surface

SurfaceInv == SurfaceTypes /\ HeadOpens /\ StaleOnly /\ Accounted

BrowserInv == ProviderInv /\ IntentInv /\ SurfaceInv

LEMMA WillCloseGrows ==
  ASSUME NEW q, NEW r, Grows(q, r), NEW s
  PROVE  (WillClose(q, s) => WillClose(r, s)) /\ (RootQueued(q) => RootQueued(r))
  BY DEF Grows, WillClose, ClosedBy, RootQueued

LEMMA HeadOf ==
  ASSUME NEW q \in Seq(Op), q # << >>
  PROVE  1 \in DOMAIN q /\ Head(q) = q[1] /\ q[1] \in Op
  OBVIOUS

\* The user leaves the references and what runs alone.
LEMMA HeadStays ==
  ASSUME BrowserInv, ProviderInv', UNCHANGED refs, surfaces' \subseteq surfaces,
         Grows(ops, ops'), ui'.root # ui.root => \A k \in DOMAIN ops : ~ops'[k].fresh
  PROVE  SurfaceTypes' /\ HeadOpens' /\ StaleOnly'
  <1>1. /\ SurfaceTypes /\ HeadOpens /\ StaleOnly
        /\ ops \in Seq(Op) /\ ops' \in Seq(Op) /\ surfaceRoot' = surfaceRoot
    BY DEF BrowserInv, SurfaceInv, ProviderInv, QueueOK, refs
  <1>2. SurfaceTypes'
    BY <1>1 DEF SurfaceTypes
  <1>3. ASSUME ops' # << >>, Head(ops').step # "queued"
        PROVE  /\ ops # << >> /\ Head(ops).step = Head(ops').step
               /\ Head(ops).provider = Head(ops').provider /\ Head(ops).mode = Head(ops').mode
               /\ Head(ops').fresh => Head(ops).fresh /\ ui'.root = ui.root
    <2>1. 1 \in DOMAIN ops' /\ Head(ops') = ops'[1]
      BY <1>1, <1>3, HeadOf
    <2>2. 1 \in DOMAIN ops
      BY <1>3, <2>1 DEF Grows
    <2>3. ops # << >>
      BY <1>1, <2>2
    <2>4. Head(ops) = ops[1]
      BY <1>1, <2>3, HeadOf
    <2> QED
      BY <2>1, <2>2, <2>3, <2>4 DEF Grows
  <1>4. HeadOpens'
    BY <1>1, <1>3 DEF HeadOpens
  <1>5. StaleOnly'
    BY <1>1, <1>3 DEF StaleOnly
  <1> QED
    BY <1>2, <1>4, <1>5

\* What runs has ended: nothing is about to open.
LEMMA EndsSurface ==
  ASSUME ProviderInv, ProviderInv', ops # << >>, Grows(Tail(ops), ops'), SurfaceTypes', Accounted'
  PROVE  SurfaceInv'
  <1>1. ops' \in Seq(Op) /\ \A k \in DOMAIN Tail(ops) : Tail(ops)[k].step = "queued"
    BY TailOK DEF ProviderInv, QueueOK
  <1>2. ASSUME ops' # << >> PROVE Head(ops').step = "queued"
    <2>1. 1 \in DOMAIN ops' /\ Head(ops') = ops'[1]
      BY <1>1, <1>2, HeadOf
    <2> QED
      BY <1>1, <2>1 DEF Grows
  <1>3. HeadOpens' /\ StaleOnly'
    BY <1>2 DEF HeadOpens, StaleOnly
  <1> QED
    BY <1>3 DEF SurfaceInv

\* The end of an operation, whatever awaits it.
LEMMA EndsIntents ==
  ASSUME BrowserInv, ProviderInv', ops # << >>,
         EndOp \/ Fail \/ \E s : EndWith(s)
  PROVE  IntentInv' /\ Grows(Tail(ops), ops')
  <1>1. /\ ops \in Seq(Op) /\ QueueOK(Tail(ops), ui.mode) /\ IntentOK(ops, pending)
        /\ leaving \in LeavingStates /\ ui'.active \in Providers \cup {None}
    BY TailOK DEF BrowserInv, IntentInv, ProviderInv, QueueOK, FieldTypes, UiState
  <1>2. IntentOK(Tail(ops), Settled)
    BY <1>1, TailIntents DEF Settled
  <1>3. CASE EndOp \/ Fail
    <2>1. ops' = Tail(ops) /\ pending' = Settled /\ leaving' \in LeavingStates
      BY <1>1, <1>3 DEF EndOp, Fail, LeavingStates
    <2>2. Grows(Tail(ops), Tail(ops))
      BY DEF Grows
    <2> QED
      BY <1>2, <2>1, <2>2 DEF IntentInv
  <1>4. ASSUME NEW s, EndWith(s) PROVE IntentInv' /\ Grows(Tail(ops), ops')
    <2>1. ui' = s /\ Effect(s, Tail(ops), Settled, leaving)
      BY <1>4 DEF EndWith, Render
    <2> QED
      BY <1>1, <1>2, <2>1, EffectIntents DEF IntentInv
  <1> QED
    BY <1>3, <1>4

LEMMA SucceedEnds ==
  ASSUME Succeed
  PROVE  EndOp \/ \E s : EndWith(s)
  BY DEF Succeed

\* The running operation goes on.
LEMMA GoesOnIntents ==
  ASSUME BrowserInv, ops # << >>, NEW o \in Op, Named(o), o.live = Head(ops).live,
         o.kind = Head(ops).kind, o.fresh => Head(ops).fresh \/ Head(ops).live,
         ops' = [ops EXCEPT ![1] = o], UNCHANGED <<pending, leaving>>
  PROVE  /\ IntentInv' /\ ops' \in Seq(Op) /\ ops' # << >> /\ Head(ops') = o
         /\ \A k \in DOMAIN ops : k \in DOMAIN ops' /\ ops'[k] = IF k = 1 THEN o ELSE ops[k]
         /\ DOMAIN ops' = DOMAIN ops /\ 1 \in DOMAIN ops
  <1>1. ops \in Seq(Op) /\ IntentOK(ops, pending) /\ leaving \in LeavingStates
    BY DEF BrowserInv, IntentInv, ProviderInv, QueueOK
  <1>2. Head(ops) = ops[1] /\ 1 \in DOMAIN ops
    BY <1>1, HeadOf
  <1>3. IntentOK(ops', pending)
    BY <1>1, <1>2, HeadIntents
  <1>4. /\ ops' \in Seq(Op) /\ ops' # << >> /\ Head(ops') = o
        /\ \A k \in DOMAIN ops : k \in DOMAIN ops' /\ ops'[k] = IF k = 1 THEN o ELSE ops[k]
        /\ DOMAIN ops' = DOMAIN ops
    BY <1>1
  <1> QED
    BY <1>1, <1>2, <1>3, <1>4 DEF IntentInv

-----------------------------------------------------------------------------
(* The surfaces under the user's steps.                                    *)

\* What is shown before a render is shown after it, or is closed.
LEMMA EffectSettles ==
  ASSUME ui \in UiState, NEW s \in UiState, s.mode = ui.mode, s.active = ui.active,
         s.freesound => ui.freesound,
         s.root # ui.root => s.view = ui.view /\ s.settings = ui.settings,
         NEW p, NEW lv, QueueOK(ops, ui.mode) /\ \A k \in DOMAIN ops : Named(ops[k]),
         Render(s, ops, p, lv), UNCHANGED refs,
         NEW t \in Surface, Settles(ops, t), Grows(ops, ops')
  PROVE  WillClose(ops', t) \/ Settles(ops, t)'
  <1> DEFINE a == Advance(ops)
  <1>0. /\ ui' = s /\ Effect(s, ops, p, lv) /\ opened' = opened /\ surfaceRoot' = surfaceRoot
        /\ t.provider \in Providers /\ t.where \in Modes
    BY DEF Render, refs, Surface
  <1>1. Shown(t) /\ t.provider = ui.active /\ t.where = ui.mode /\ ui.active # None
        /\ ui.mode \in {"embedded", "window"}
    BY <1>0, ProviderAssumption DEF Settles, Shown, Modes
  <1>2. a \in Seq(Op) /\ Grows(ops, a) /\ DOMAIN a = DOMAIN ops
    BY AdvanceIntents, AdvanceOK
  <1>3. \A k \in DOMAIN a : a[k].kind # "closeOpened"
    BY <1>2 DEF Settles, Grows
  <1>4. ASSUME s.root # ui.root, Current(t) PROVE HasDownloadRootChange(s.root)
    BY <1>0, <1>1, <1>4 DEF Current, HasDownloadRootChange
  <1>5. CASE ops' = ops /\ s.root = ui.root
             /\ (s.mode = "window" \/ (s.view = ui.view /\ s.settings = ui.settings))
    <2>1. Shown(t)'
      BY <1>0, <1>1, <1>5 DEF Shown, Settles, Wanted, ViewportIn
    <2>2. (Current(t) => Current(t)') /\ (RootQueued(ops) => RootQueued(ops)')
      BY <1>0, <1>5 DEF Current, RootQueued
    <2> QED
      BY <1>5, <2>1, <2>2 DEF Settles
  <1>6. CASE ops' = a \o <<NewOp("root", None, "nothing", "web")>> /\ s.root # ui.root
    <2> DEFINE o == NewOp("root", None, "nothing", "web")
    <2>1. o \in Op /\ o.kind = "root" /\ o.step = "queued"
      BY AddedIntents, NewOpFields
    <2> HIDE DEF o
    <2>2. ops' = Append(a, o)
      BY <1>2, <1>6, <2>1 DEF o
    <2>3. /\ Len(a) + 1 \in DOMAIN ops' /\ ops'[Len(a) + 1] = o
          /\ \A k \in DOMAIN a : ops'[k] = a[k]
          /\ \A k \in DOMAIN ops' : k \in DOMAIN a \/ k = Len(a) + 1
      BY <1>2, <2>1, <2>2, AppendGrows
    <2>4. RootQueued(ops)' /\ \A k \in DOMAIN ops' : ops'[k].kind # "closeOpened"
      BY <1>3, <2>1, <2>3 DEF RootQueued
    <2>5. Shown(t)'
      BY <1>0, <1>1, <1>6 DEF Shown, Settles, Wanted, ViewportIn
    <2> QED
      BY <2>4, <2>5 DEF Settles
  <1>7. CASE /\ ops' = a \o << >>
             /\ \/ s.root = ui.root
                \/ ~HasDownloadRootChange(s.root)
             /\ s.mode = "window" \/ (~s.settings /\ s.view = "web")
    <2>1. ops' = a
      BY <1>2, <1>7
    <2>2. Shown(t)'
      BY <1>0, <1>1, <1>7 DEF Shown, Settles, Wanted, ViewportIn
    <2>3. Current(t) => Current(t)'
      BY <1>0, <1>4, <1>7 DEF Current
    <2>4. RootQueued(ops) => RootQueued(ops)'
      BY <1>2, <2>1, WillCloseGrows DEF RootQueued
    <2> QED
      BY <1>3, <2>1, <2>2, <2>3, <2>4 DEF Settles
  <1>8. CASE ops' = a \o <<Plain("closeOpened", s.active)>> /\ s.mode # "window"
    <2> DEFINE o == Plain("closeOpened", s.active)
    <2>1. o \in Op /\ o.kind = "closeOpened" /\ o.step = "queued" /\ o.provider = s.active
      <3>1. s.active \in Providers \cup {None}
        BY DEF UiState
      <3> QED
        BY <3>1, AddedIntents, NewOpFields DEF Plain
    <2> HIDE DEF o
    <2>2. ops' = Append(a, o)
      BY <1>2, <1>8, <2>1 DEF o
    <2>3. Len(a) + 1 \in DOMAIN ops' /\ ops'[Len(a) + 1] = o
      BY <1>2, <2>1, <2>2, AppendGrows
    <2>4. ClosedBy(o, t)
      BY <1>1, <1>8, <2>1 DEF ClosedBy
    <2> QED
      BY <2>3, <2>4 DEF WillClose
  <1>9. CASE \/ ops' = a \o <<Plain("closeBoth", s.active)>>
             \/ ops' = a \o <<Plain("closeBoth", s.active), Plain("closeBoth", s.active)>>
    <2> DEFINE o == Plain("closeBoth", s.active)
    <2>1. o \in Op /\ o.kind = "closeBoth" /\ o.step = "queued"
      <3>1. s.active \in Providers \cup {None}
        BY DEF UiState
      <3> QED
        BY <3>1, AddedIntents, NewOpFields DEF Plain
    <2> HIDE DEF o
    <2>2. ops' = Append(a, o) \/ ops' = Append(Append(a, o), o)
      BY <1>2, <1>9, <2>1 DEF o
    <2>3. Len(a) + 1 \in DOMAIN Append(a, o) /\ Append(a, o)[Len(a) + 1] = o
          /\ Append(a, o) \in Seq(Op)
      BY <1>2, <2>1, AppendGrows
    <2>4. WillClose(Append(a, o), t)
      BY <2>1, <2>3 DEF WillClose, ClosedBy
    <2>5. Grows(Append(a, o), Append(Append(a, o), o))
      BY <2>1, <2>3, AppendGrows
    <2> QED
      BY <2>2, <2>4, <2>5, WillCloseGrows
  <1>10. ViewportIn(s) \/ s.mode = "window" \/ s.settings \/ s.view # "web"
         \/ (s.mode = "embedded" /\ s.view = "web" /\ s.freesound)
    BY <1>0, <1>1 DEF ViewportIn
  <1> QED
    <2>1. CASE \/ ~\E f \in {"active", "mode", "view", "settings", "root"} : s[f] # ui[f]
               \/ s.mode = "window" /\ s.root = ui.root
      <3>1. ops' = ops
        BY <1>0, <2>1 DEF Effect
      <3>2. s.root = ui.root
        BY <2>1
      <3> QED
        BY <1>5, <2>1, <3>1, <3>2
    <2>2. CASE s.root # ui.root /\ HasDownloadRootChange(s.root)
      BY <1>0, <1>6, <2>2 DEF Effect
    <2>3. CASE /\ \E f \in {"active", "mode", "view", "settings", "root"} : s[f] # ui[f]
               /\ ~(s.mode = "window" /\ s.root = ui.root)
               /\ ~(s.root # ui.root /\ HasDownloadRootChange(s.root))
      <3>1. CASE s.mode = "window"
        BY <1>0, <1>7, <2>3, <3>1 DEF Effect
      <3>2. CASE s.mode # "window" /\ s.settings
        BY <1>0, <1>1, <1>8, <2>3, <3>2 DEF Effect
      <3>3. CASE s.mode # "window" /\ ~s.settings /\ s.view # "web"
        BY <1>0, <1>9, <2>3, <3>3 DEF Effect, CloseOnLeaving
      <3>4. CASE s.mode # "window" /\ ~s.settings /\ s.view = "web"
        <4>1. ops' = a \o << >>
          BY <1>0, <2>3, <3>4 DEF Effect
        <4> QED
          BY <1>7, <2>3, <3>4, <4>1
      <3> QED
        BY <3>1, <3>2, <3>3, <3>4
    <2> QED
      BY <2>1, <2>2, <2>3

LEMMA BrowserFacts ==
  ASSUME BrowserInv
  PROVE  /\ ui \in UiState /\ ui.active \in Providers \cup {None} /\ ui.mode \in Modes
         /\ ops \in Seq(Op) /\ QueueOK(ops, ui.mode) /\ IntentOK(ops, pending)
         /\ leaving \in LeavingStates /\ \A k \in DOMAIN ops : Named(ops[k])
         /\ surfaces \subseteq Surface
  BY DEF BrowserInv, ProviderInv, IntentInv, IntentOK, SurfaceInv, SurfaceTypes, QueueOK,
         FieldTypes, UiState

\* A surface that will be closed still will be when the queue grows.
LEMMA AllClosed ==
  ASSUME BrowserInv, ProviderInv', UNCHANGED <<refs, leftover>>, surfaces' \subseteq surfaces,
         Grows(ops, ops'), IntentInv',
         ui'.root # ui.root => \A k \in DOMAIN ops : ~ops'[k].fresh,
         ~leftover => \A t \in surfaces' :
                        Settles(ops, t) => WillClose(ops', t) \/ Settles(ops, t)'
  PROVE  BrowserInv'
  <1>1. SurfaceTypes' /\ HeadOpens' /\ StaleOnly'
    BY HeadStays
  <1>2. Accounted'
    <2> SUFFICES ASSUME ~leftover, NEW t \in surfaces'
                 PROVE  WillClose(ops', t) \/ Settles(ops, t)'
      BY DEF Accounted
    <2>1. WillClose(ops, t) \/ Settles(ops, t)
      BY DEF BrowserInv, SurfaceInv, Accounted
    <2> QED
      BY <2>1, WillCloseGrows
  <1> QED
    BY <1>1, <1>2 DEF BrowserInv, SurfaceInv

LEMMA RenderSurfaces ==
  ASSUME BrowserInv, ProviderInv', NEW s \in UiState, s.mode = ui.mode, s.active = ui.active,
         s.freesound => ui.freesound,
         s.root # ui.root => s.view = ui.view /\ s.settings = ui.settings,
         Render(s, ops, pending, leaving), UNCHANGED <<refs, surfaces, leftover>>
  PROVE  BrowserInv'
  <1>1. ui' = s /\ Effect(s, ops, pending, leaving)
    BY DEF Render
  <1>2. /\ IntentInv' /\ Grows(ops, ops')
        /\ s.root # ui.root => \A k \in DOMAIN ops : ~ops'[k].fresh
    BY <1>1, BrowserFacts, EffectIntents DEF IntentInv
  <1>3. \A t \in surfaces' : Settles(ops, t) => WillClose(ops', t) \/ Settles(ops, t)'
    BY <1>2, BrowserFacts, EffectSettles
  <1> QED
    BY <1>1, <1>2, <1>3, AllClosed

\* What is added to the queue without its intents closes every surface.
LEMMA EnqueueSurfaces ==
  ASSUME BrowserInv, ProviderInv', NEW s, s.root = ui.root, NEW lv \in LeavingStates,
         NEW o \in Op, o.step = "queued", o.kind \in {"closeBoth", "closeAll"},
         ~o.live, Enqueue(s, o, lv), UNCHANGED <<refs, surfaces, leftover>>
  PROVE  BrowserInv'
  <1> DEFINE a == Advance(ops)
  <1>1. ui' = s /\ ops' = Append(a, o) /\ pending' = "none" /\ leaving' = lv
    BY DEF Enqueue
  <1>2. GivenUp(a) /\ Grows(ops, a) /\ a \in Seq(Op)
    BY BrowserFacts, AdvanceIntents
  <1> HIDE DEF a
  <1>3. Named(o)
    BY DEF Named
  <1>4. Grows(ops, ops') /\ IntentInv'
    BY <1>1, <1>2, <1>3, AppendGrows, AppendIntents, GrowsTransitive DEF IntentInv
  <1>5. \A t : WillClose(ops', t)
    <2>1. Len(a) + 1 \in DOMAIN ops' /\ ops'[Len(a) + 1] = o
      BY <1>1, <1>2, AppendGrows
    <2> QED
      BY <2>1 DEF WillClose, ClosedBy
  <1> QED
    BY <1>1, <1>4, <1>5, AllClosed

LEMMA SelectSurfaces ==
  ASSUME BrowserInv, ProviderInv', NEW x \in Providers, SelectProvider(x)
  PROVE  BrowserInv'
  <1> DEFINE s == [ui EXCEPT !.active = x]
             a == Advance(ops)
             o == IF ui.mode = "window" THEN NewOp("open", x, "nothing", "web")
                  ELSE Plain("closeOpened", ui.active)
             q == Append(a, o)
  <1>1. ui' = s /\ Effect(s, q, "none", leaving) /\ UNCHANGED <<refs, surfaces, leftover>>
    BY DEF SelectProvider, Render
  <1>2. /\ ui \in UiState /\ ui.active \in Providers \cup {None} /\ ui.mode \in Modes
        /\ QueueOK(ops, ui.mode) /\ leaving \in LeavingStates /\ surfaces \subseteq Surface
    BY BrowserFacts
  <1>3. s.active \in Providers \cup {None} /\ s.root = ui.root
    BY <1>2 DEF UiState
  <1>4. GivenUp(a) /\ Grows(ops, a) /\ a \in Seq(Op) /\ QueueOK(a, ui.mode)
        /\ \A k \in DOMAIN a : ~a[k].fresh
    BY <1>2, BrowserFacts, AdvanceIntents, AdvanceOK DEF GivenUp
  <1>5. /\ Addable(o) /\ Named(o) /\ ~o.live
        /\ o.kind = "open" => ui.mode # "embedded"
        /\ ui.mode = "window" => o.kind = "open"
    <2>1. CASE ui.mode = "window"
      <3>1. "web" \in Modes \cup Views
        BY DEF Views
      <3>2. NewOp("open", x, "nothing", "web") \in Op
        BY <3>1, NewOpTyped
      <3>3. Addable(NewOp("open", x, "nothing", "web"))
        BY <3>1, NewOpTyped DEF Addable, Shape
      <3> QED
        BY <2>1, <3>3, NewOpFields DEF Named
    <2>2. CASE ui.mode # "window"
      <3>1. Addable(Plain("closeOpened", ui.active))
        BY <1>2, PlainUnawaited DEF Unawaited
      <3> QED
        BY <2>2, <3>1, NewOpFields DEF Named, Plain
    <2> QED
      BY <2>1, <2>2
  <1>6. ui.mode = "embedded" => ui.active = None
    BY <1>2 DEF SelectProvider, ListShown, ViewportIn
  <1> HIDE DEF s, a, o
  <1>7. QueueOK(q, ui.mode) /\ IntentOK(q, "none") /\ Grows(ops, q)
        /\ Len(a) + 1 \in DOMAIN q /\ q[Len(a) + 1] = o
    <2>1. o \in Op /\ o.step = "queued"
      BY <1>5 DEF Addable
    <2>2. QueueOK(q, ui.mode)
      BY <1>4, <1>5, AppendOK
    <2>3. IntentOK(q, "none") /\ Grows(a, q)
      BY <1>4, <1>5, <2>1, AppendGrows, AppendIntents
    <2> QED
      BY <1>4, <2>1, <2>2, <2>3, AppendGrows, GrowsTransitive
  <1> HIDE DEF q
  <1>8. IntentInv' /\ Grows(ops, ops') /\ Grows(q, ops')
    <2>1. IntentOK(ops', pending') /\ leaving' \in LeavingStates /\ Grows(q, ops')
      BY <1>1, <1>2, <1>3, <1>7, EffectIntents
    <2> QED
      BY <1>7, <2>1, GrowsTransitive DEF IntentInv
  <1>9. ASSUME NEW t \in surfaces, Settles(ops, t) PROVE WillClose(ops', t)
    <2>1. CASE ui.mode = "embedded"
      BY <1>2, <1>6, <1>9, <2>1, ProviderAssumption DEF Settles, Shown, Surface
    <2>2. CASE ui.mode = "window"
      <3>1. WillClose(q, t)
        BY <1>5, <1>7, <2>2 DEF WillClose, ClosedBy
      <3> QED
        BY <1>8, <3>1, WillCloseGrows
    <2> QED
      BY <1>2, <2>1, <2>2 DEF Modes
  <1> QED
    BY <1>1, <1>3, <1>8, <1>9, AllClosed

LEMMA AwaitedPlain ==
  ASSUME NEW kind \in {"closeBoth", "closeAll"}, NEW p, NEW after, NEW to
  PROVE  /\ NewOp(kind, p, after, to).kind = kind
         /\ NewOp(kind, p, after, to).step = "queued" /\ ~NewOp(kind, p, after, to).live
  BY NewOpFields

LEMMA UserSurfaces ==
  ASSUME BrowserInv, ProviderInv', UserStep
  PROVE  BrowserInv'
  <1>0. /\ ui \in UiState /\ ui.active \in Providers \cup {None} /\ leaving \in LeavingStates
        /\ None \in Providers \cup {None}
    BY BrowserFacts
  <1>1. ASSUME NEW x \in Providers, SelectProvider(x) PROVE BrowserInv'
    BY <1>1, SelectSurfaces
  <1>2. CASE BackToSources
    <2> DEFINE s == [ui EXCEPT !.freesound = FALSE]
               o == NewOp("closeBoth", ui.active, "clear", "web")
    <2>1. s.root = ui.root
      BY <1>0 DEF UiState
    <2>2. o \in Op /\ o.kind = "closeBoth" /\ o.step = "queued" /\ ~o.live
      BY <1>0, AwaitedAddable, AwaitedPlain DEF Addable
    <2>3. Enqueue(s, o, leaving) /\ UNCHANGED <<refs, surfaces, leftover>>
      BY <1>2 DEF BackToSources
    <2> HIDE DEF s, o
    <2> QED
      BY <1>0, <2>1, <2>2, <2>3, EnqueueSurfaces
  <1>3. CASE OpenFreesound
    <2> DEFINE o == NewOp("closeBoth", ui.active, "freesound", "web")
    <2>2. o \in Op /\ o.kind = "closeBoth" /\ o.step = "queued" /\ ~o.live
      BY <1>0, AwaitedAddable, AwaitedPlain DEF Addable
    <2>3. Enqueue(ui, o, leaving) /\ UNCHANGED <<refs, surfaces, leftover>>
      BY <1>3 DEF OpenFreesound
    <2> HIDE DEF o
    <2> QED
      BY <1>0, <2>2, <2>3, EnqueueSurfaces
  <1>4. CASE ReturnToWeb
    <2> DEFINE s == [ui EXCEPT !.view = "web"]
    <2>1. /\ s \in UiState /\ s.mode = ui.mode /\ s.active = ui.active
          /\ s.freesound = ui.freesound /\ s.root = ui.root
      BY <1>0 DEF UiState, Views
    <2>2. Render(s, ops, pending, leaving) /\ UNCHANGED <<refs, surfaces, leftover>>
      BY <1>4 DEF ReturnToWeb
    <2> HIDE DEF s
    <2> QED
      BY <2>1, <2>2, RenderSurfaces
  <1>5. ASSUME NEW v \in Views, LeaveWeb(v) PROVE BrowserInv'
    <2> DEFINE s == [ui EXCEPT !.freesound = FALSE]
               t == [s EXCEPT !.view = v]
               o == NewOp("closeBoth", ui.active, "leave", v)
    <2>1. /\ s.root = ui.root
          /\ t \in UiState /\ t.mode = ui.mode /\ t.active = ui.active
          /\ ~t.freesound /\ t.root = ui.root
      BY <1>0 DEF UiState
    <2>2. \/ Enqueue(s, o, "leaving") \/ Render(t, ops, pending, leaving)
      BY <1>5 DEF LeaveWeb
    <2>3. UNCHANGED <<refs, surfaces, leftover>>
      BY <1>5 DEF LeaveWeb
    <2>4. o \in Op /\ o.kind = "closeBoth" /\ o.step = "queued" /\ ~o.live
      BY <1>0, AwaitedAddable, AwaitedPlain DEF Addable
    <2>5. "leaving" \in LeavingStates
      BY DEF LeavingStates
    <2> HIDE DEF s, t, o
    <2>6. CASE Enqueue(s, o, "leaving")
      BY <2>1, <2>3, <2>4, <2>5, <2>6, EnqueueSurfaces
    <2>7. CASE Render(t, ops, pending, leaving)
      BY <2>1, <2>3, <2>7, RenderSurfaces
    <2> QED
      BY <2>2, <2>6, <2>7
  <1>6. CASE ShowSamplesView
    <2> DEFINE s == [ui EXCEPT !.view = "sample"]
    <2>1. /\ s \in UiState /\ s.mode = ui.mode /\ s.active = ui.active
          /\ s.freesound = ui.freesound /\ s.root = ui.root
      BY <1>0 DEF UiState, Views
    <2>2. Render(s, ops, pending, leaving) /\ UNCHANGED <<refs, surfaces, leftover>>
      BY <1>6 DEF ShowSamplesView
    <2> HIDE DEF s
    <2> QED
      BY <2>1, <2>2, RenderSurfaces
  <1>7. CASE ToggleSettings
    <2> DEFINE s == [ui EXCEPT !.settings = ~@]
    <2>1. /\ s \in UiState /\ s.mode = ui.mode /\ s.active = ui.active
          /\ s.freesound = ui.freesound /\ s.root = ui.root
      BY <1>0 DEF UiState
    <2>2. Render(s, ops, pending, leaving) /\ UNCHANGED <<refs, surfaces, leftover>>
      BY <1>7 DEF ToggleSettings
    <2> HIDE DEF s
    <2> QED
      BY <2>1, <2>2, RenderSurfaces
  <1>8. ASSUME NEW m \in Modes, ChangeMode(m) PROVE BrowserInv'
    <2> DEFINE o == NewOp("closeAll", None, "mode", m)
    <2>2. o \in Op /\ o.kind = "closeAll" /\ o.step = "queued" /\ ~o.live
      <3>1. Addable(o)
        BY <1>0, AwaitedAddable
      <3> QED
        BY <3>1, AwaitedPlain DEF Addable
    <2>3. Enqueue(ui, o, leaving) /\ UNCHANGED <<refs, surfaces, leftover>>
      BY <1>8 DEF ChangeMode
    <2> HIDE DEF o
    <2> QED
      BY <1>0, <2>2, <2>3, EnqueueSurfaces
  <1>9. ASSUME NEW r \in Roots, ChangeRoot(r) PROVE BrowserInv'
    <2> DEFINE s == [ui EXCEPT !.root = r]
    <2>1. /\ s \in UiState /\ s.mode = ui.mode /\ s.active = ui.active
          /\ s.freesound = ui.freesound /\ s.view = ui.view /\ s.settings = ui.settings
      BY <1>0 DEF UiState
    <2>2. Render(s, ops, pending, leaving) /\ UNCHANGED <<refs, surfaces, leftover>>
      BY <1>9 DEF ChangeRoot
    <2> HIDE DEF s
    <2> QED
      BY <2>1, <2>2, RenderSurfaces
  <1>10. CASE Resize
    <2>1. /\ pending = "none" /\ pending' = "waiting"
          /\ UNCHANGED <<ui, opening, opened, surfaceRoot, leaving, ops, surfaces, leftover>>
      BY <1>10 DEF Resize, refs
    <2>2. IntentInv'
      BY <2>1 DEF BrowserInv, IntentInv, IntentOK, PendingStates
    <2>3. Grows(ops, ops')
      BY <2>1 DEF Grows
    <2>4. \A t : Settles(ops, t) => Settles(ops, t)'
      BY <2>1 DEF Settles, Shown, Current, Wanted, ViewportIn, RootQueued
    <2> QED
      BY <2>1, <2>2, <2>3, <2>4, AllClosed DEF refs
  <1>11. CASE UserClosesWindow
    <2>1. /\ surfaces' \subseteq surfaces
          /\ UNCHANGED <<ui, opening, opened, surfaceRoot, leaving, pending, ops, leftover>>
      BY <1>11 DEF UserClosesWindow, refs
    <2>2. IntentInv'
      BY <2>1 DEF BrowserInv, IntentInv
    <2>3. Grows(ops, ops')
      BY <2>1 DEF Grows
    <2>4. \A t : Settles(ops, t) => Settles(ops, t)'
      BY <2>1 DEF Settles, Shown, Current, Wanted, ViewportIn, RootQueued
    <2> QED
      BY <2>1, <2>2, <2>3, <2>4, AllClosed DEF refs
  <1> QED
    BY <1>1, <1>2, <1>3, <1>4, <1>5, <1>6, <1>7, <1>8, <1>9, <1>10, <1>11 DEF UserStep

\* A reconcile that is queued closes nothing and gives up nothing.
LEMMA FrameSurfaces ==
  ASSUME BrowserInv, ProviderInv', Frame
  PROVE  BrowserInv'
  <1> DEFINE o == Plain("reconcile", None)
  <1>1. /\ pending = "waiting" /\ pending' = "queued" /\ ops' = Append(ops, o)
        /\ UNCHANGED <<ui, opening, opened, surfaceRoot, leaving, surfaces, leftover>>
    BY DEF Frame, refs
  <1>2. /\ ops \in Seq(Op) /\ IntentOK(ops, pending) /\ leaving \in LeavingStates
        /\ DOMAIN ops = 1..Len(ops) /\ Len(ops) \in Nat
    BY BrowserFacts
  <1>3. o \in Op /\ o.step = "queued" /\ o.kind = "reconcile" /\ o.live /\ Named(o)
    BY AddedIntents, NewOpFields DEF Plain
  <1> HIDE DEF o
  <1>4. /\ Grows(ops, ops') /\ Len(ops) + 1 \in DOMAIN ops' /\ ops'[Len(ops) + 1] = o
        /\ \A k \in DOMAIN ops : k \in DOMAIN ops' /\ ops'[k] = ops[k]
        /\ \A k \in DOMAIN ops' : k \in DOMAIN ops \/ k = Len(ops) + 1
        /\ \A k \in DOMAIN ops : k < Len(ops) + 1
    BY <1>1, <1>2, <1>3, AppendGrows
  <1>5. \A k \in DOMAIN ops : ~ops[k].live
    BY <1>1, <1>2 DEF IntentOK
  <1>6. Ordered(ops')
    <2> SUFFICES ASSUME NEW i \in DOMAIN ops', NEW j \in DOMAIN ops', i < j,
                        ops'[j].kind # "reconcile"
                 PROVE  ~ops'[i].fresh /\ ~ops'[i].live
      BY DEF Ordered
    <2>1. j \in DOMAIN ops /\ ops'[j] = ops[j]
      BY <1>3, <1>4
    <2>2. i \in DOMAIN ops /\ ops'[i] = ops[i]
      BY <1>2, <1>4, <2>1
    <2> QED
      BY <1>2, <2>1, <2>2 DEF IntentOK, Ordered
  <1>7. LiveOnce(ops') /\ \A k \in DOMAIN ops' : Named(ops'[k])
    BY <1>2, <1>3, <1>4, <1>5 DEF IntentOK, LiveOnce
  <1>8. \E k \in DOMAIN ops' : ops'[k].live
    BY <1>3, <1>4
  <1>9. IntentInv'
    BY <1>1, <1>2, <1>6, <1>7, <1>8 DEF IntentInv, IntentOK, PendingStates
  <1>10. \A t : Settles(ops, t) => Settles(ops, t)'
    <2> SUFFICES ASSUME NEW t, Settles(ops, t) PROVE Settles(ops, t)'
      OBVIOUS
    <2>1. Shown(t)' /\ (Current(t) => Current(t)')
      BY <1>1 DEF Settles, Shown, Current, Wanted, ViewportIn
    <2>2. RootQueued(ops) => RootQueued(ops)'
      BY <1>4 DEF RootQueued
    <2>3. \A k \in DOMAIN ops' : ops'[k].kind # "closeOpened"
      BY <1>3, <1>4 DEF Settles
    <2> QED
      BY <2>1, <2>2, <2>3 DEF Settles
  <1> QED
    BY <1>1, <1>4, <1>9, <1>10, AllClosed DEF refs

-----------------------------------------------------------------------------
(* The surfaces under the operations.                                      *)

LEMMA TailOf ==
  ASSUME NEW q \in Seq(Op), q # << >>
  PROVE  /\ \A k \in DOMAIN Tail(q) : k + 1 \in DOMAIN q /\ Tail(q)[k] = q[k + 1]
         /\ \A k \in DOMAIN q : k = 1 \/ \E j \in DOMAIN Tail(q) : Tail(q)[j] = q[k]
  <1>1. /\ DOMAIN q = 1..Len(q) /\ Len(q) \in Nat \ {0}
        /\ DOMAIN Tail(q) = 1..(Len(q) - 1)
        /\ \A k \in DOMAIN Tail(q) : Tail(q)[k] = q[k + 1]
    OBVIOUS
  <1>2. \A k \in DOMAIN Tail(q) : k + 1 \in DOMAIN q
    BY <1>1
  <1>3. ASSUME NEW k \in DOMAIN q, k # 1
        PROVE  \E j \in DOMAIN Tail(q) : Tail(q)[j] = q[k]
    <2>1. k - 1 \in DOMAIN Tail(q) /\ (k - 1) + 1 = k
      BY <1>1, <1>3
    <2>2. Tail(q)[k - 1] = q[k]
      BY <1>1, <2>1
    <2> QED
      BY <2>1, <2>2
  <1> QED
    BY <1>1, <1>2, <1>3

\* An operation that closes nothing leaves the queue.
LEMMA DropsHead ==
  ASSUME BrowserInv, ProviderInv', ops # << >>, EndOp, UNCHANGED refs, SurfaceTypes',
         surfaces' \subseteq surfaces, leftover' = leftover,
         ~leftover => \A t \in surfaces' :
           /\ ~ClosedBy(Head(ops), t)
           /\ Head(ops).kind = "root" => ~Settles(ops, t)
  PROVE  BrowserInv'
  <1>1. ops' = Tail(ops) /\ ui' = ui /\ opened' = opened /\ surfaceRoot' = surfaceRoot
        /\ ops \in Seq(Op) /\ Head(ops) = ops[1]
    BY BrowserFacts DEF EndOp, refs
  <1>2. IntentInv' /\ Grows(Tail(ops), ops')
    BY EndsIntents
  <1>3. Accounted'
    <2> SUFFICES ASSUME ~leftover, NEW t \in surfaces'
                 PROVE  WillClose(ops', t) \/ Settles(ops, t)'
      BY DEF Accounted
    <2>1. WillClose(ops, t) \/ Settles(ops, t)
      BY DEF BrowserInv, SurfaceInv, Accounted
    <2>2. ~ClosedBy(ops[1], t)
      BY <1>1
    <2>3. WillClose(ops, t) => WillClose(ops', t)
      BY <1>1, <2>2, TailOf DEF WillClose
    <2>4. ASSUME Settles(ops, t) PROVE Settles(ops, t)'
      <3>1. Shown(t)' /\ (Current(t) => Current(t)')
        BY <1>1, <2>4 DEF Settles, Shown, Current, Wanted, ViewportIn
      <3>2. ops[1].kind # "root"
        BY <1>1, <2>4
      <3>3. RootQueued(ops) => RootQueued(ops)'
        BY <1>1, <3>2, TailOf DEF RootQueued
      <3>4. \A k \in DOMAIN ops' : ops'[k].kind # "closeOpened"
        BY <1>1, <2>4, TailOf DEF Settles
      <3> QED
        BY <2>4, <3>1, <3>3, <3>4 DEF Settles
    <2> QED
      BY <2>1, <2>3, <2>4
  <1> QED
    BY <1>2, <1>3, EndsSurface DEF BrowserInv

\* An operation ends that leaves no surface, or one that would not close.
LEMMA EndsClean ==
  ASSUME BrowserInv, ProviderInv', ops # << >>, EndOp \/ Fail \/ \E s : EndWith(s),
         SurfaceTypes', leftover' = TRUE \/ surfaces' = {}
  PROVE  BrowserInv'
  <1>1. IntentInv' /\ Grows(Tail(ops), ops')
    BY EndsIntents
  <1>2. Accounted'
    BY DEF Accounted
  <1> QED
    BY <1>1, <1>2, EndsSurface DEF BrowserInv

\* The step that an operation proceeds to.
LEMMA ProceedsHead ==
  ASSUME BrowserInv, ops # << >>, NEW step, NEW p, Proceed(step, p), ops' \in Seq(Op),
         Head(ops).kind \in {"open", "root"} => p \in Providers
  PROVE  /\ IntentInv' /\ ops' # << >> /\ Head(ops').step = step /\ Head(ops').provider = p
         /\ Head(ops').kind = Head(ops).kind /\ Head(ops').mode = Head(ops).mode
         /\ 1 \in DOMAIN ops' /\ Head(ops') = ops'[1] /\ Head(ops) = ops[1]
         /\ \A k \in DOMAIN ops : k \in DOMAIN ops' /\ (k = 1 \/ ops'[k] = ops[k])
         /\ \A k \in DOMAIN ops : ops'[k].kind = ops[k].kind
         /\ DOMAIN ops' = DOMAIN ops
  <1> DEFINE o == [Head(ops) EXCEPT !.step = step, !.provider = p]
  <1>1. /\ ops \in Seq(Op) /\ 1 \in DOMAIN ops /\ Head(ops) = ops[1] /\ Head(ops) \in Op
    BY BrowserFacts, HeadOf
  <1>2. ops' = [ops EXCEPT ![1] = o] /\ UNCHANGED <<pending, leaving>>
    BY <1>1 DEF Proceed
  <1>3. /\ o.step = step /\ o.provider = p /\ o.kind = Head(ops).kind /\ o.mode = Head(ops).mode
        /\ o.live = Head(ops).live /\ o.fresh = Head(ops).fresh
    BY <1>1 DEF Op
  <1> HIDE DEF o
  <1>4. o \in Op
    <2>1. ops'[1] = o /\ 1 \in DOMAIN ops'
      BY <1>1, <1>2
    <2> QED
      BY <2>1
  <1>5. Named(o)
    BY <1>3 DEF Named
  <1>6. /\ IntentInv' /\ ops' # << >> /\ Head(ops') = o /\ DOMAIN ops' = DOMAIN ops
        /\ \A k \in DOMAIN ops : k \in DOMAIN ops' /\ ops'[k] = IF k = 1 THEN o ELSE ops[k]
    BY <1>2, <1>3, <1>4, <1>5, GoesOnIntents
  <1> QED
    BY <1>1, <1>3, <1>6

\* A surface that opens takes over what is open: all of it is closed first.
LEMMA BeginsOpen ==
  ASSUME BrowserInv, ProviderInv', ops # << >>, NEW p \in Providers, NEW mode \in Modes,
         NEW fresh \in BOOLEAN, fresh => Head(ops).fresh \/ Head(ops).live,
         BeginOpen(p, mode, fresh), surfaces' \subseteq surfaces
  PROVE  BrowserInv'
  <1> DEFINE o == [Head(ops) EXCEPT !.step = "opening", !.provider = p, !.mode = mode,
                                    !.fresh = fresh]
  <1>1. /\ ops \in Seq(Op) /\ 1 \in DOMAIN ops /\ Head(ops) = ops[1] /\ Head(ops) \in Op
        /\ ui \in UiState /\ ui.root \in Roots /\ surfaces \subseteq Surface
    BY BrowserFacts, HeadOf DEF UiState
  <1>2. /\ ops' = [ops EXCEPT ![1] = o] /\ UNCHANGED <<pending, leaving>>
        /\ ui' = ui /\ surfaceRoot' = ui.root
    BY <1>1 DEF BeginOpen
  <1>3. /\ o.step = "opening" /\ o.provider = p /\ o.kind = Head(ops).kind
        /\ o.live = Head(ops).live /\ o.fresh = fresh
    BY <1>1 DEF Op
  <1>4. o \in Op
    BY <1>1 DEF Op
  <1> HIDE DEF o
  <1>5. Named(o)
    BY <1>3 DEF Named
  <1>6. /\ IntentInv' /\ ops' # << >> /\ Head(ops') = o /\ DOMAIN ops' = DOMAIN ops
        /\ \A k \in DOMAIN ops : k \in DOMAIN ops' /\ ops'[k] = IF k = 1 THEN o ELSE ops[k]
    BY <1>2, <1>3, <1>4, <1>5, GoesOnIntents
  <1>7. HeadOpens' /\ StaleOnly' /\ SurfaceTypes'
    BY <1>1, <1>2, <1>3, <1>6 DEF HeadOpens, StaleOnly, SurfaceTypes
  <1>8. \A t : WillClose(ops', t)
    BY <1>1, <1>3, <1>6 DEF WillClose, ClosedBy
  <1> QED
    BY <1>6, <1>7, <1>8 DEF BrowserInv, SurfaceInv, Accounted

LEMMA HeadNames ==
  ASSUME BrowserInv, ops # << >>
  PROVE  /\ Head(ops) \in Op /\ Head(ops) = ops[1] /\ 1 \in DOMAIN ops
         /\ Shape(Head(ops)) /\ Named(Head(ops))
         /\ ops \in Seq(Op) /\ FieldTypes /\ SurfaceTypes /\ surfaces \subseteq Surface
         /\ ui.active \in Providers \cup {None} /\ ui.mode \in Modes
  BY HeadFacts, BrowserFacts DEF BrowserInv, ProviderInv, SurfaceInv

LEMMA StartCloseSurfaces ==
  ASSUME BrowserInv, ProviderInv', StartClose
  PROVE  BrowserInv'
  <1> DEFINE o == Head(ops)
             target == FirstOf(o.provider, FirstOf(opened, opening))
  <1>1. ops # << >> /\ o.step = "queued" /\ UNCHANGED <<refs, surfaces, leftover>>
    BY DEF StartClose, Running
  <1>2. /\ o \in Op /\ o = ops[1] /\ Shape(o) /\ ops' \in Seq(Op)
        /\ SurfaceTypes /\ surfaces \subseteq Surface /\ ui.active \in Providers \cup {None}
        /\ \A t \in surfaces : t.provider \in Providers
    <2>1. surfaces \subseteq Surface
      BY <1>1, HeadNames
    <2>2. \A t \in Surface : t.provider \in Providers
      BY DEF Surface
    <2>3. ops' \in Seq(Op)
      BY DEF ProviderInv, QueueOK
    <2> QED
      BY <1>1, <2>1, <2>2, <2>3, HeadNames
  <1>3. SurfaceTypes'
    BY <1>1, <1>2 DEF SurfaceTypes, refs
  <1> HIDE DEF o
  <1>4. \/ /\ o.kind \in {"closeOpened", "root"} /\ Succeed
           /\ o.kind = "closeOpened" => o.provider = None
           /\ o.kind = "root" => ui.active = None
        \/ /\ o.kind \in {"closeOpened", "closeBoth"} /\ target # None
           /\ Proceed("closing", target)
        \/ o.kind \in {"closeAll", "closeBoth"} /\ Proceed("closingAll", None)
        \/ /\ o.kind = "root" /\ ui.active # None
           /\ Proceed("closing", ui.active) \/ Proceed("closingAll", ui.active)
    <2>1. target = None => o.provider = None
      BY DEF FirstOf
    <2> QED
      BY <2>1 DEF StartClose, o
  <1>5. CASE o.kind \in {"closeOpened", "root"} /\ Succeed
             /\ (o.kind = "closeOpened" => o.provider = None)
             /\ (o.kind = "root" => ui.active = None)
    <2>1. EndOp
      BY <1>2, <1>5 DEF Succeed, Shape, o
    <2>2. ASSUME NEW t \in surfaces
          PROVE  ~ClosedBy(o, t) /\ (o.kind = "root" => ~Settles(ops, t))
      BY <1>1, <1>2, <1>5, <2>2, ProviderAssumption DEF ClosedBy, Settles, Shown, o
    <2> QED
      BY <1>1, <1>3, <2>1, <2>2, DropsHead DEF o
  <1>6. ASSUME NEW step, NEW p, Proceed(step, p),
               o.kind = "root" => p \in Providers,
               o.kind \in {"closeBoth", "closeAll", "root", "closeOpened"},
               o.kind = "closeOpened" => o.provider \in {None, p},
               step \in {"closing", "closingAll"}
        PROVE  BrowserInv'
    <2>1. /\ IntentInv' /\ ops' # << >> /\ Head(ops').step = step /\ Head(ops').provider = p
          /\ Head(ops').kind = o.kind /\ 1 \in DOMAIN ops' /\ Head(ops') = ops'[1]
          /\ \A k \in DOMAIN ops : k \in DOMAIN ops' /\ (k = 1 \/ ops'[k] = ops[k])
          /\ \A k \in DOMAIN ops : ops'[k].kind = ops[k].kind
          /\ DOMAIN ops' = DOMAIN ops
      BY <1>1, <1>2, <1>6, ProceedsHead DEF o
    <2>2. HeadOpens' /\ StaleOnly'
      BY <1>6, <2>1 DEF HeadOpens, StaleOnly
    <2>3. ui' = ui /\ opened' = opened /\ surfaceRoot' = surfaceRoot
      BY <1>1, <1>6 DEF Proceed, refs
    <2>4. Accounted'
      <3> SUFFICES ASSUME ~leftover, NEW t \in surfaces
                   PROVE  WillClose(ops', t) \/ Settles(ops, t)'
        BY <1>1 DEF Accounted
      <3>1. WillClose(ops, t) \/ Settles(ops, t)
        BY DEF BrowserInv, SurfaceInv, Accounted
      <3>2. ClosedBy(ops[1], t) => ClosedBy(ops'[1], t)
        BY <1>1, <1>2, <1>6, <2>1, ProviderAssumption DEF ClosedBy
      <3>3. WillClose(ops, t) => WillClose(ops', t)
        BY <2>1, <3>2 DEF WillClose
      <3>4. Settles(ops, t) => Settles(ops, t)'
        <4>1. Shown(t) => Shown(t)'
          BY <2>3 DEF Shown, Wanted, ViewportIn
        <4>2. Current(t) => Current(t)'
          BY <2>3 DEF Current
        <4>3. RootQueued(ops) => RootQueued(ops)'
          BY <2>1 DEF RootQueued
        <4> QED
          BY <2>1, <4>1, <4>2, <4>3 DEF Settles
      <3> QED
        BY <3>1, <3>3, <3>4
    <2> QED
      BY <1>3, <2>1, <2>2, <2>4 DEF BrowserInv, SurfaceInv
  <1>7. CASE o.kind \in {"closeOpened", "closeBoth"} /\ target # None
             /\ Proceed("closing", target)
    <2>1. o.provider \in {None, target}
      BY <1>7 DEF FirstOf
    <2> QED
      BY <1>6, <1>7, <2>1
  <1>8. CASE o.kind \in {"closeAll", "closeBoth"} /\ Proceed("closingAll", None)
    BY <1>6, <1>8
  <1>9. CASE o.kind = "root" /\ ui.active # None
             /\ (Proceed("closing", ui.active) \/ Proceed("closingAll", ui.active))
    BY <1>2, <1>6, <1>9
  <1> QED
    BY <1>4, <1>5, <1>7, <1>8, <1>9

LEMMA StartOpenSurfaces ==
  ASSUME BrowserInv, ProviderInv', StartOpen
  PROVE  BrowserInv'
  <1> DEFINE o == Head(ops)
  <1>1. /\ ops # << >> /\ o.kind = "open" /\ BeginOpen(o.provider, "window", o.fresh)
        /\ surfaces' = surfaces
    BY DEF StartOpen, Running
  <1>2. o.provider \in Providers /\ o.fresh \in BOOLEAN /\ "window" \in Modes
    BY <1>1, HeadNames DEF Named, Op, Modes
  <1> HIDE DEF o
  <1>3. o.fresh => Head(ops).fresh \/ Head(ops).live
    BY DEF o
  <1> QED
    BY <1>1, <1>2, <1>3, BeginsOpen

\* A live reconcile opens with the intent of the moment.
LEMMA StartReconcileSurfaces ==
  ASSUME BrowserInv, ProviderInv', StartReconcile
  PROVE  BrowserInv'
  <1>1. /\ ops # << >> /\ Head(ops).kind = "reconcile" /\ Head(ops).step = "queued"
        /\ leftover' = leftover /\ surfaces' = surfaces
    BY DEF StartReconcile, Running
  <1>2. Shape(Head(ops)) /\ ui.active \in Providers \cup {None} /\ SurfaceTypes
    BY <1>1, HeadNames
  <1>3. CASE BeginOpen(ui.active, "embedded", TRUE) /\ Head(ops).live
             /\ CanReconcile(TRUE, ui.active)
    <2>1. ui.active \in Providers
      BY <1>2, <1>3 DEF CanReconcile, ViewportIn
    <2>2. "embedded" \in Modes /\ TRUE \in BOOLEAN
      BY DEF Modes
    <2> QED
      BY <1>1, <1>3, <2>1, <2>2, BeginsOpen
  <1>4. CASE Succeed /\ UNCHANGED refs
    <2>1. EndOp
      BY <1>1, <1>2, <1>4 DEF Succeed, Shape
    <2>2. SurfaceTypes'
      BY <1>1, <1>2, <1>4 DEF SurfaceTypes, refs
    <2>3. \A t \in surfaces' : ~ClosedBy(Head(ops), t)
      BY <1>1 DEF ClosedBy
    <2> QED
      BY <1>1, <1>4, <2>1, <2>2, <2>3, DropsHead
  <1> QED
    BY <1>3, <1>4 DEF StartReconcile

LEMMA CloseEmbeddedSurfaces ==
  ASSUME BrowserInv, ProviderInv', CloseEmbedded
  PROVE  BrowserInv'
  <1> DEFINE o == Head(ops)
  <1>1. ops # << >> /\ o.step = "closing"
    BY DEF CloseEmbedded, Running
  <1>2. /\ o \in Op /\ o = ops[1] /\ 1 \in DOMAIN ops /\ Shape(o) /\ Named(o)
        /\ SurfaceTypes /\ ops \in Seq(Op) /\ ops' \in Seq(Op)
        /\ o.kind \in {"closeOpened", "closeBoth", "root"}
    <2>1. ops' \in Seq(Op)
      BY DEF ProviderInv, QueueOK
    <2> QED
      BY <1>1, <2>1, HeadNames DEF Shape
  <1>3. CASE Fail /\ leftover' = TRUE /\ UNCHANGED <<surfaces, refs>>
    <2>1. SurfaceTypes'
      BY <1>2, <1>3 DEF SurfaceTypes, refs
    <2> QED
      BY <1>1, <1>3, <2>1, EndsClean
  <1>4. CASE /\ surfaces' = surfaces \ EmbeddedOf(o.provider)
             /\ surfaceRoot' = None /\ leftover' = leftover
             /\ IF o.kind = "closeOpened" THEN Succeed ELSE Proceed("closingAll", o.provider)
    <2>1. SurfaceTypes'
      BY <1>2, <1>4 DEF SurfaceTypes
    <2>2. CASE o.kind = "closeOpened"
      <3>1. EndOp
        BY <1>2, <1>4, <2>2 DEF Succeed, Shape
      <3>2. ops' = Tail(ops)
        BY <3>1 DEF EndOp
      <3>3. ASSUME ~leftover, NEW t \in surfaces' PROVE WillClose(ops', t)
        <4>1. t \in surfaces /\ ~ClosedBy(o, t)
          BY <1>1, <1>4, <2>2, <3>3 DEF EmbeddedOf, ClosedBy
        <4>2. ~Settles(ops, t)
          BY <1>2, <2>2 DEF Settles
        <4>3. WillClose(ops, t)
          BY <3>3, <4>1, <4>2 DEF BrowserInv, SurfaceInv, Accounted
        <4> HIDE DEF o
        <4> QED
          BY <1>1, <1>2, <3>2, <4>1, <4>3, TailOf DEF WillClose
      <3>4. Accounted'
        BY <1>4, <3>3 DEF Accounted
      <3>5. IntentInv' /\ Grows(Tail(ops), ops')
        BY <1>1, <3>1, EndsIntents
      <3> QED
        BY <1>1, <2>1, <3>4, <3>5, EndsSurface DEF BrowserInv
    <2>3. CASE o.kind # "closeOpened"
      <3>1. Proceed("closingAll", o.provider)
        BY <1>4, <2>3
      <3>2. o.kind \in {"open", "root"} => o.provider \in Providers
        BY <1>1, <1>2 DEF Named
      <3> HIDE DEF o
      <3>3. /\ IntentInv' /\ ops' # << >> /\ Head(ops').step = "closingAll"
            /\ 1 \in DOMAIN ops' /\ Head(ops') = ops'[1]
        BY <1>1, <1>2, <3>1, <3>2, ProceedsHead DEF o
      <3>4. HeadOpens' /\ StaleOnly'
        BY <3>3 DEF HeadOpens, StaleOnly
      <3>5. Accounted'
        BY <3>3 DEF Accounted, WillClose, ClosedBy
      <3> QED
        BY <2>1, <3>3, <3>4, <3>5 DEF BrowserInv, SurfaceInv
    <2> QED
      BY <2>2, <2>3
  <1> QED
    BY <1>3, <1>4 DEF CloseEmbedded

LEMMA CloseAllSurfaces ==
  ASSUME BrowserInv, ProviderInv', CloseAll
  PROVE  BrowserInv'
  <1> DEFINE o == Head(ops)
  <1>1. ops # << >> /\ o.step = "closingAll"
    BY DEF CloseAll, Running
  <1>2. /\ o \in Op /\ o.fresh \in BOOLEAN /\ Named(o) /\ SurfaceTypes /\ ui.mode \in Modes
    BY <1>1, HeadNames DEF Op
  <1> HIDE DEF o
  <1>3. CASE SomeRemain /\ Fail /\ UNCHANGED refs
    <2>1. leftover' = TRUE /\ SurfaceTypes'
      BY <1>2, <1>3 DEF SomeRemain, SurfaceTypes, refs
    <2> QED
      BY <1>1, <1>3, <2>1, EndsClean
  <1>4. CASE surfaces' = {} /\ Reopens(o) /\ BeginOpen(o.provider, ui.mode, o.fresh)
    <2>1. o.provider \in Providers
      BY <1>1, <1>2, <1>4 DEF Named, Reopens
    <2>2. o.fresh => Head(ops).fresh \/ Head(ops).live
      BY DEF o
    <2> QED
      BY <1>1, <1>2, <1>4, <2>1, <2>2, BeginsOpen
  <1>5. CASE surfaces' = {} /\ ClearOwnership /\ Succeed
    <2>1. SurfaceTypes'
      BY <1>5 DEF SurfaceTypes, ClearOwnership
    <2> QED
      BY <1>1, <1>5, <2>1, EndsClean, SucceedEnds
  <1> QED
    BY <1>3, <1>4, <1>5 DEF CloseAll, o

\* What opened for a current intent is shown with the folder of the settings.
LEMMA OpenSucceedsSurfaces ==
  ASSUME BrowserInv, ProviderInv', OpenSucceeds
  PROVE  BrowserInv'
  <1> DEFINE o == Head(ops)
             new == [where |-> o.mode, provider |-> o.provider, root |-> surfaceRoot]
  <1>1. /\ ops # << >> /\ o.step = "opening" /\ leftover' = leftover /\ surfaces' = {new}
        /\ surfaceRoot' = surfaceRoot
    BY DEF OpenSucceeds, Running
  <1>2. /\ o \in Op /\ o.mode \in Modes /\ Shape(o) /\ SurfaceTypes /\ o = ops[1]
        /\ ops' \in Seq(Op) /\ o.after = "nothing" /\ 1 \in DOMAIN ops
        /\ ops \in Seq(Op) /\ o.kind # "closeOpened"
    <2>1. ops' \in Seq(Op)
      BY DEF ProviderInv, QueueOK
    <2> QED
      BY <1>1, <2>1, HeadNames DEF Op, Shape
  <1>3. /\ o.provider \in Providers /\ surfaceRoot \in Roots
        /\ o.fresh => surfaceRoot = ui.root
    BY <1>1 DEF BrowserInv, SurfaceInv, HeadOpens
  <1>4. new \in Surface /\ SurfaceTypes'
    BY <1>1, <1>2, <1>3 DEF Surface, SurfaceTypes
  <1>5. PICK t \in Surface : /\ surfaces' = {t} /\ t.where = o.mode
                             /\ t.provider = o.provider /\ t.root = surfaceRoot
    BY <1>1, <1>4
  <1> HIDE DEF o, new
  <1>6. CASE Stale(o)
    <2>1. Proceed("closingStale", o.provider)
      BY <1>6 DEF OpenSucceeds, o
    <2>2. /\ IntentInv' /\ ops' # << >> /\ Head(ops').step = "closingStale"
          /\ Head(ops').provider = o.provider /\ Head(ops').mode = o.mode
          /\ 1 \in DOMAIN ops' /\ Head(ops') = ops'[1]
      BY <1>1, <1>2, <1>3, <2>1, ProceedsHead DEF o
    <2>3. HeadOpens' /\ StaleOnly'
      BY <1>1, <1>5, <2>2 DEF HeadOpens, StaleOnly
    <2>4. Accounted'
      BY <2>2 DEF Accounted, WillClose, ClosedBy
    <2> QED
      BY <1>4, <2>2, <2>3, <2>4 DEF BrowserInv, SurfaceInv
  <1>7. CASE ~Stale(o)
    <2>1. opened' = o.provider /\ EndOp
      BY <1>2, <1>7 DEF OpenSucceeds, Succeed, o
    <2>2. ops' = Tail(ops) /\ ui' = ui
      BY <2>1 DEF EndOp
    <2>3. /\ o.fresh /\ o.provider = ui.active /\ o.mode = ui.mode
          /\ o.mode = "embedded" => Wanted
      BY <1>2, <1>7 DEF Stale, CanReconcile, Wanted, ViewportIn, Modes
    <2>4. Shown(t)'
      BY <1>5, <2>2, <2>3 DEF Shown, Wanted, ViewportIn
    <2>5. Current(t)'
      BY <1>1, <1>3, <1>5, <2>1, <2>2, <2>3 DEF Current
    <2>6. \A k \in DOMAIN ops' : ops'[k].kind # "closeOpened"
      <3> SUFFICES ASSUME NEW k \in DOMAIN ops', ops'[k].kind = "closeOpened" PROVE FALSE
        OBVIOUS
      <3>1. k + 1 \in DOMAIN ops /\ ops[k + 1].kind = "closeOpened"
        BY <1>1, <1>2, <2>2, TailOf
      <3>2. 1 < k + 1
        <4>1. k \in 1..Len(ops')
          BY <1>2
        <4> QED
          BY <4>1
      <3>3. IntentOK(ops, pending)
        BY BrowserFacts
      <3>4. ~ops[1].fresh
        BY <1>2, <3>1, <3>2, <3>3 DEF IntentOK, Ordered
      <3> QED
        BY <1>2, <2>3, <3>4
    <2>7. Settles(ops, t)'
      BY <2>4, <2>5, <2>6 DEF Settles
    <2>8. Accounted'
      BY <1>5, <2>7 DEF Accounted
    <2>9. IntentInv' /\ Grows(Tail(ops), ops')
      BY <1>1, <2>1, EndsIntents
    <2> QED
      BY <1>1, <1>4, <2>8, <2>9, EndsSurface DEF BrowserInv
  <1> QED
    BY <1>6, <1>7

LEMMA OpenFailsSurfaces ==
  ASSUME BrowserInv, ProviderInv', OpenFails
  PROVE  BrowserInv'
  <1> DEFINE o == Head(ops)
             new == [where |-> "window", provider |-> o.provider, root |-> surfaceRoot]
  <1>1. /\ ops # << >> /\ o.step = "opening" /\ surfaceRoot' = None
        /\ Succeed \/ \E s : EndWith(s)
        /\ \/ leftover' = TRUE /\ surfaces' \subseteq surfaces
           \/ surfaces' = {}
           \/ surfaces' = {new} /\ leftover' = TRUE
    BY DEF OpenFails, Running, SomeRemain
  <1>2. SurfaceTypes
    BY <1>1, HeadNames
  <1>3. o.provider \in Providers /\ surfaceRoot \in Roots
    BY <1>1 DEF BrowserInv, SurfaceInv, HeadOpens
  <1>4. new \in Surface
    BY <1>3 DEF Surface, Modes
  <1> HIDE DEF o, new
  <1>5. SurfaceTypes'
    BY <1>1, <1>2, <1>4 DEF SurfaceTypes
  <1>6. leftover' = TRUE \/ surfaces' = {}
    BY <1>1
  <1> QED
    BY <1>1, <1>5, <1>6, EndsClean, SucceedEnds

\* What opened late is all there is, and it is closed.
LEMMA CloseStaleSurfaces ==
  ASSUME BrowserInv, ProviderInv', CloseStale
  PROVE  BrowserInv'
  <1> DEFINE o == Head(ops)
             gone == IF o.mode = "embedded" THEN EmbeddedOf(o.provider) ELSE surfaces
  <1>1. /\ ops # << >> /\ o.step = "closingStale" /\ EndOp
        /\ \/ surfaces' = surfaces \ gone /\ surfaceRoot' \in {None, surfaceRoot}
           \/ leftover' = TRUE /\ surfaces' = surfaces /\ surfaceRoot' = surfaceRoot
    BY DEF CloseStale, Running, refs
  <1>2. SurfaceTypes
    BY <1>1, HeadNames
  <1>3. surfaces \ gone = {}
    BY <1>1 DEF BrowserInv, SurfaceInv, StaleOnly, EmbeddedOf
  <1> HIDE DEF gone
  <1>4. SurfaceTypes' /\ (leftover' = TRUE \/ surfaces' = {})
    BY <1>1, <1>2, <1>3 DEF SurfaceTypes
  <1> QED
    BY <1>1, <1>4, EndsClean

-----------------------------------------------------------------------------
LEMMA BrowserInit == Init => BrowserInv
  <1> SUFFICES ASSUME Init PROVE BrowserInv
    OBVIOUS
  <1> DEFINE first == Plain("closeBoth", None)
  <1>1. ProviderInv
    BY ProviderInit
  <1>2. /\ pending = "none" /\ leaving = "idle" /\ surfaces = {} /\ surfaceRoot = None
        /\ ops = << >> \/ ops = <<first>>
    BY DEF Init
  <1>3. first \in Op /\ first.step = "queued" /\ ~first.live /\ Named(first)
    BY AddedIntents, NewOpFields DEF Plain
  <1> HIDE DEF first
  <1>4. IntentOK(ops, pending) /\ (ops # << >> => Head(ops).step = "queued")
    <2>1. GivenUp(<< >>) /\ << >> \in Seq(Op) /\ Append(<< >>, first) = <<first>>
          /\ Head(<<first>>) = first
      BY <1>3 DEF GivenUp
    <2>2. IntentOK(<< >>, "none")
      BY <2>1, GivenUpIntents
    <2>3. IntentOK(Append(<< >>, first), "none")
      BY <1>3, <2>1, AppendIntents
    <2> QED
      BY <1>2, <1>3, <2>1, <2>2, <2>3
  <1>5. IntentInv
    BY <1>2, <1>4 DEF IntentInv, LeavingStates
  <1>6. SurfaceInv
    BY <1>2, <1>4 DEF SurfaceInv, SurfaceTypes, HeadOpens, StaleOnly, Accounted
  <1> QED
    BY <1>1, <1>5, <1>6 DEF BrowserInv

LEMMA BrowserStep == BrowserInv /\ [Next]_providerVars => BrowserInv'
  <1> SUFFICES ASSUME BrowserInv, [Next]_providerVars PROVE BrowserInv'
    OBVIOUS
  <1>0. ProviderInv'
    BY ProviderStep DEF BrowserInv
  <1>1. CASE UserStep
    BY <1>0, <1>1, UserSurfaces
  <1>2. CASE Frame
    BY <1>0, <1>2, FrameSurfaces
  <1>3. CASE OpStep
    BY <1>0, <1>3, StartCloseSurfaces, StartOpenSurfaces, StartReconcileSurfaces,
       CloseEmbeddedSurfaces, CloseAllSurfaces, CloseStaleSurfaces, OpenSucceedsSurfaces,
       OpenFailsSurfaces DEF OpStep
  <1>4. CASE UNCHANGED providerVars
    <2>1. /\ UNCHANGED <<ui, opening, opened, surfaceRoot, ops, surfaces, leftover>>
          /\ UNCHANGED <<leaving, pending>>
      BY <1>4 DEF providerVars, refs
    <2>2. IntentInv'
      BY <2>1 DEF BrowserInv, IntentInv
    <2>3. Grows(ops, ops')
      BY <2>1 DEF Grows
    <2>4. \A t : Settles(ops, t) => Settles(ops, t)'
      BY <2>1 DEF Settles, Shown, Current, Wanted, ViewportIn, RootQueued
    <2> QED
      BY <1>0, <2>1, <2>2, <2>3, <2>4, AllClosed DEF refs
  <1> QED
    BY <1>1, <1>2, <1>3, <1>4 DEF Next

(* In every reachable state a native surface that is not the one the        *)
(* interface shows, with the folder of the settings, is in the reach of a   *)
(* queued operation; and the intents of the queue are those of the          *)
(* lifecycle's counters.                                                    *)
THEOREM BrowserInvariant == Spec => []BrowserInv
  <1> QED
    BY BrowserInit, BrowserStep, PTL DEF Spec

(* No surface floats: once the queue is empty, what is open is the surface  *)
(* that the interface shows, in the mode chosen, in whatever order the user *)
(* clicked while the native side opened and closed.                         *)
THEOREM NoSurfaceFloats == Spec => []NoFloatingSurface
  <1>1. BrowserInv => NoFloatingSurface
    BY DEF BrowserInv, SurfaceInv, Accounted, WillClose, Settles, Shown, NoFloatingSurface
  <1> QED
    BY <1>1, BrowserInvariant, PTL

(* Downloads go where the settings say: once the queue is empty, an open    *)
(* surface was created with the folder chosen last.                         *)
THEOREM RootFollowsSettings == Spec => []RootCurrent
  <1>1. BrowserInv => RootCurrent
    BY DEF BrowserInv, SurfaceInv, Accounted, WillClose, Settles, Current, RootQueued,
           RootCurrent
  <1> QED
    BY <1>1, BrowserInvariant, PTL

(* Type correctness, and the pending reconcile: at most one is queued, and  *)
(* pendingReconcileRef says so exactly while it is.                         *)
THEOREM ProviderTypes == Spec => []ProviderTypeOK
  <1>1. ASSUME BrowserInv PROVE ProviderTypeOK
    <2>1. /\ ui \in UiState /\ {opening, opened} \subseteq Providers \cup {None}
          /\ surfaceRoot \in Roots \cup {None} /\ ops \in Seq(Op) /\ surfaces \subseteq Surface
          /\ leftover \in BOOLEAN /\ leaving \in {"idle", "leaving", "left"}
          /\ pending \in {"none", "waiting", "queued"}
      BY <1>1 DEF BrowserInv, ProviderInv, FieldTypes, QueueOK, IntentInv, IntentOK,
                  PendingStates, LeavingStates, SurfaceInv, SurfaceTypes
    <2>2. pending = "queued" <=> LiveOps # {}
      BY <1>1 DEF BrowserInv, IntentInv, IntentOK, LiveOps
    <2>3. Cardinality(LiveOps) <= 1
      <3>1. CASE LiveOps = {}
        BY <3>1, FS_EmptySet
      <3>2. ASSUME NEW k \in LiveOps PROVE Cardinality(LiveOps) <= 1
        <4>1. LiveOps = {k}
          BY <1>1, <3>2 DEF BrowserInv, IntentInv, IntentOK, LiveOnce, LiveOps
        <4> QED
          BY <4>1, FS_Singleton
      <3> QED
        BY <3>1, <3>2
    <2> QED
      BY <2>1, <2>2, <2>3 DEF ProviderTypeOK
  <1> QED
    BY <1>1, BrowserInvariant, PTL
=============================================================================
