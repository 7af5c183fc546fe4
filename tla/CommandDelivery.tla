--------------------------- MODULE CommandDelivery ---------------------------
(***************************************************************************)
(* How a command that the local API accepted reaches the renderer: the UI  *)
(* command queue together with its only consumer, the React hook           *)
(* ui/src/hooks/externalApi/useExternalCommandQueue.ts.                    *)
(*                                                                         *)
(* A renderer here is one mounted instance of that hook, with its refs.    *)
(* Its drains run one after the other; each is a chain of awaited IPC      *)
(* calls, and wakes, commits, an unmount (an uncaught render error removes *)
(* the tree while its promises go on) or a reload of the page (which kills *)
(* them) come between any two.  An IPC call may fail, and one that was     *)
(* sent before a reload may be served after it.                            *)
(***************************************************************************)
EXTENDS UiCommandQueue

CONSTANTS
  CollectionsChanged,  \* the command whose handler ignores an unmount
  Faults,              \* what may fail: "wake", "call", "handler"
  MaxRenderers         \* bound of the model: instances mounted in a behaviour

ASSUME DeliveryAssumption ==
  /\ CollectionsChanged \in Commands
  /\ Faults \subseteq {"wake", "call", "handler"}
  /\ MaxRenderers \in Nat \ {0}

VARIABLES
  waking,       \* producers that committed and have not yet woken the renderer
  phase,        \* life of an instance; isMountedRef holds when "mounted"
  listening,    \* its wake listener is registered
  drainDue,     \* drains are chained in drainingRef behind the running one
  step,         \* what the running drain awaits
  batch,        \* the claimed leases that the drain has still to process
  processed,    \* processedLeaseIdsRef
  orphans,      \* settling calls sent by an instance that was then reloaded
  started,      \* history: ids that some handler was started for
  completions   \* history: times an instance completed an id, counted to 2

rendererVars == <<phase, listening, drainDue, step, batch, processed>>

historyVars == <<started, completions>>

vars == <<queueVars, waking, rendererVars, orphans, historyVars>>

Renderers == 1..MaxRenderers

\* Reserve keeps every id that can still be given out below the bound.
Ids == 0..(MaxCommands - 1)

Lease == [id : Ids, command : Commands]

Settlement == [call : {"ack", "nack"}, id : Ids]

Phases == {"unborn", "mounted", "unmounted", "gone"}

\* "rejecting" nacks all that is left of a claim, "acking" and "nacking" settle
\* its first lease.
DrainSteps == {"none", "claiming", "claimed", "rejecting", "next", "handling",
               "acking", "nacking"}

Mounted(r) == phase[r] = "mounted"

Alive(r) == phase[r] \in {"mounted", "unmounted"}

HeadLease(r) == Head(batch[r])

Await(r, what) == step' = [step EXCEPT ![r] = what]

-----------------------------------------------------------------------------

Init ==
  /\ QueueInit
  /\ waking = {}
  /\ phase = [r \in Renderers |-> "unborn"]
  /\ listening = [r \in Renderers |-> FALSE]
  /\ drainDue = [r \in Renderers |-> FALSE]
  /\ step = [r \in Renderers |-> "none"]
  /\ batch = [r \in Renderers |-> << >>]
  /\ processed = [r \in Renderers |-> {}]
  /\ orphans = {}
  /\ started = {}
  /\ completions = [r \in Renderers |-> [i \in Ids |-> 0]]

(* Producers: a thread of an HTTP handler (LocalApiActions has its details). *)

TakeSlot(t) ==
  /\ t \notin waking
  /\ Reserve(t)
  /\ UNCHANGED <<waking, rendererVars, orphans, historyVars>>

GiveUpSlot(t) ==
  /\ CancelReservation(t)
  /\ UNCHANGED <<waking, rendererVars, orphans, historyVars>>

Accept(t, command) ==
  /\ Commit(t, command)
  /\ waking' = waking \cup {t}
  /\ UNCHANGED <<rendererVars, orphans, historyVars>>

\* The wake event reaches the listeners registered now, and chains a drain.
WakeListeners == drainDue' = [r \in Renderers |-> drainDue[r] \/ listening[r]]

WakeAfterAccept(t) ==
  /\ t \in waking
  /\ waking' = waking \ {t}
  /\ WakeListeners
  /\ UNCHANGED <<queueVars, phase, listening, step, batch, processed, orphans,
                 historyVars>>

\* The client disconnected, which drops the handler before its wake, or the
\* event could not be emitted, which the handler ignores.
WakeLost(t) ==
  /\ "wake" \in Faults
  /\ t \in waking
  /\ waking' = waking \ {t}
  /\ UNCHANGED <<queueVars, rendererVars, orphans, historyVars>>

\* The Tauri command emit_ui_command_wake.
EmitWake ==
  /\ WakeListeners
  /\ UNCHANGED <<queueVars, waking, phase, listening, step, batch, processed,
                 orphans, historyVars>>

-----------------------------------------------------------------------------
(* Life of an instance. *)

\* The effect drains at once and registers its listener asynchronously.
Mount(r) ==
  /\ phase[r] = "unborn"
  /\ \A q \in Renderers : q < r => phase[q] \in {"unmounted", "gone"}
  /\ phase' = [phase EXCEPT ![r] = "mounted"]
  /\ drainDue' = [drainDue EXCEPT ![r] = TRUE]
  /\ UNCHANGED <<queueVars, waking, listening, step, batch, processed, orphans,
                 historyVars>>

ListenerReady(r) ==
  /\ Mounted(r)
  /\ ~listening[r]
  /\ listening' = [listening EXCEPT ![r] = TRUE]
  /\ UNCHANGED <<queueVars, waking, phase, drainDue, step, batch, processed,
                 orphans, historyVars>>

\* The effect's cleanup; drains that are running or chained go on.
Unmount(r) ==
  /\ Mounted(r)
  /\ phase' = [phase EXCEPT ![r] = "unmounted"]
  /\ listening' = [listening EXCEPT ![r] = FALSE]
  /\ UNCHANGED <<queueVars, waking, drainDue, step, batch, processed, orphans,
                 historyVars>>

\* Settling calls that have been sent and not answered.
InTransit ==
  {[call |-> IF step[r] = "acking" THEN "ack" ELSE "nack", id |-> HeadLease(r).id] :
     r \in {q \in Renderers : step[q] \in {"acking", "nacking", "rejecting"}}}

\* The page is reloaded: every instance in it is gone, with all its refs.
Reload ==
  /\ \E r \in Renderers : Alive(r)
  /\ phase' = [r \in Renderers |-> IF Alive(r) THEN "gone" ELSE phase[r]]
  /\ listening' = [r \in Renderers |-> FALSE]
  /\ drainDue' = [r \in Renderers |-> FALSE]
  /\ step' = [r \in Renderers |-> "none"]
  /\ batch' = [r \in Renderers |-> << >>]
  /\ processed' = [r \in Renderers |-> {}]
  /\ orphans' = orphans \cup InTransit
  /\ UNCHANGED <<queueVars, waking, historyVars>>

-----------------------------------------------------------------------------
(* A drain.  The ids of one claim are distinct (OneHome), so the per-drain  *)
(* set attemptedLeaseIds never stops an acknowledgement.                    *)

StartDrain(r) ==
  /\ drainDue[r]
  /\ step[r] = "none"
  /\ drainDue' = [drainDue EXCEPT ![r] = FALSE]
  /\ Await(r, "claiming")
  /\ UNCHANGED <<queueVars, waking, phase, listening, batch, processed, orphans,
                 historyVars>>

\* A BTreeMap gives its values in the order of their keys.
InOrder(ids) ==
  CHOOSE s \in [1..Cardinality(ids) -> ids] :
    \A a, b \in 1..Cardinality(ids) : a < b => s[a] < s[b]

Leases(ids) ==
  [k \in DOMAIN ids |-> [id |-> ids[k], command |-> ClaimedInFlight[ids[k]].command]]

\* Bug: only what was pending is presented.
LeasesOfPending == Leases(InOrder(PendingIds))

\* Bug: the leases come in the order of the deque, after those of old claims.
LeasesAsQueued ==
  Leases(InOrder(InFlightIds) \o [k \in DOMAIN pending |-> pending[k].id])

\* claim() answers in_flight.values(): every lease, in the order of the ids.
ClaimedLeases == Leases(InOrder(OutstandingIds))

ClaimServed(r) ==
  /\ step[r] = "claiming"
  /\ Claim
  /\ batch' = [batch EXCEPT ![r] = ClaimedLeases]
  /\ Await(r, "claimed")
  /\ UNCHANGED <<waking, phase, listening, drainDue, processed, orphans, historyVars>>

\* The claim, or only its answer, is lost; the drain ends with an error message.
ClaimFails(r) ==
  /\ "call" \in Faults
  /\ step[r] = "claiming"
  /\ Claim \/ UNCHANGED queueVars
  /\ Await(r, "none")
  /\ UNCHANGED <<waking, phase, listening, drainDue, batch, processed, orphans,
                 historyVars>>

InspectClaim(r) ==
  /\ step[r] = "claimed"
  /\ Await(r, IF batch[r] = << >> THEN "none"
              ELSE IF Mounted(r) THEN "next" ELSE "rejecting")
  /\ UNCHANGED <<queueVars, waking, phase, listening, drainDue, batch, processed,
                 orphans, historyVars>>

\* Bug: an unmounted instance acknowledges what it does not run.
AfterUnmountAck(r) == "acking"

AfterUnmount(r) == "nacking"

\* processLease up to its first await.
StartLease(r) ==
  /\ step[r] = "next"
  /\ LET id == HeadLease(r).id
     IN \/ /\ ~Mounted(r)
           /\ Await(r, AfterUnmount(r))
           /\ UNCHANGED started
        \/ /\ Mounted(r)
           /\ id \in processed[r]
           /\ Await(r, "acking")
           /\ UNCHANGED started
        \/ /\ Mounted(r)
           /\ id \notin processed[r]
           /\ Await(r, "handling")
           /\ started' = started \cup {id}
  /\ UNCHANGED <<queueVars, waking, phase, listening, drainDue, batch, processed,
                 orphans, completions>>

\* The handler throws, or finds itself unmounted and asks for a requeue.
HandlerReturnsLease(r) ==
  /\ step[r] = "handling"
  /\ "handler" \in Faults \/ ~Mounted(r)
  /\ Await(r, "nacking")
  /\ UNCHANGED <<queueVars, waking, phase, listening, drainDue, batch, processed,
                 orphans, historyVars>>

\* Bug: the id is not remembered before its acknowledgement is sent.
RememberLater(r, lease) == UNCHANGED processed

Remember(r, lease) ==
  processed' = [processed EXCEPT ![r] = @ \cup {lease.id}]

\* The handler disposes of the lease with "ack": the command took effect, or its
\* sample is gone.  Only refreshCollections is not followed by a mounted check.
HandlerCompletes(r) ==
  /\ step[r] = "handling"
  /\ Mounted(r) \/ HeadLease(r).command = CollectionsChanged
  /\ Remember(r, HeadLease(r))
  /\ completions' = [completions EXCEPT ![r][HeadLease(r).id] = IF @ < 2 THEN @ + 1 ELSE @]
  /\ Await(r, "acking")
  /\ UNCHANGED <<queueVars, waking, phase, listening, drainDue, batch, orphans, started>>

\* What a settling call does when it is served; unknown ids change nothing.
ServeAck(id) ==
  IF id \in InFlightIds THEN Acknowledge(id) ELSE UNCHANGED queueVars

ServeNack(id) ==
  IF id \in InFlightIds THEN Nack(id) ELSE UNCHANGED queueVars

\* The awaited call has settled, well or not: on to the next lease of the claim.
NextLease(r) ==
  /\ batch' = [batch EXCEPT ![r] = Tail(@)]
  /\ Await(r, IF Len(batch[r]) = 1 THEN "none"
              ELSE IF step[r] = "rejecting" THEN "rejecting" ELSE "next")
  /\ UNCHANGED <<waking, phase, listening, drainDue, processed, orphans, historyVars>>

AckServed(r) ==
  /\ step[r] = "acking"
  /\ ServeAck(HeadLease(r).id)
  /\ NextLease(r)

NackServed(r) ==
  /\ step[r] \in {"nacking", "rejecting"}
  /\ ServeNack(HeadLease(r).id)
  /\ NextLease(r)

SettlementLost(r) ==
  /\ "call" \in Faults
  /\ step[r] \in {"acking", "nacking", "rejecting"}
  /\ UNCHANGED queueVars
  /\ NextLease(r)

\* A call that outlived its page is served late, or never.
OrphanServed(call) ==
  /\ orphans' = orphans \ {call}
  /\ IF call.call = "ack" THEN ServeAck(call.id) ELSE ServeNack(call.id)
  /\ UNCHANGED <<waking, rendererVars, historyVars>>

OrphanLost(call) ==
  /\ orphans' = orphans \ {call}
  /\ UNCHANGED <<queueVars, waking, rendererVars, historyVars>>

Drain(r) ==
  \/ StartDrain(r)
  \/ ClaimServed(r)
  \/ ClaimFails(r)
  \/ InspectClaim(r)
  \/ StartLease(r)
  \/ HandlerReturnsLease(r)
  \/ HandlerCompletes(r)
  \/ AckServed(r)
  \/ NackServed(r)
  \/ SettlementLost(r)

Next ==
  \/ \E t \in Threads : TakeSlot(t) \/ GiveUpSlot(t) \/ WakeAfterAccept(t) \/ WakeLost(t)
  \/ \E t \in Threads, c \in Commands : Accept(t, c)
  \/ EmitWake
  \/ \E r \in Renderers : Mount(r) \/ ListenerReady(r) \/ Unmount(r) \/ Drain(r)
  \/ Reload
  \/ \E call \in orphans : OrphanServed(call) \/ OrphanLost(call)

\* A handler that queued a command goes on to its wake; a living page keeps
\* running its promises, and an IPC call that is made again and again is not
\* lost every time.  Nothing is assumed of clients, of a renderer's handlers (each
\* attempt may fail) or of who mounts, reloads and wakes.
Fairness ==
  /\ \A t \in Threads : WF_vars(WakeAfterAccept(t) \/ WakeLost(t))
  /\ \A r \in Renderers :
       /\ WF_vars(Drain(r))
       /\ SF_vars(ClaimServed(r))
       /\ SF_vars(AckServed(r))
       /\ SF_vars(NackServed(r))

Spec == Init /\ [][Next]_vars

FairSpec == Spec /\ Fairness

-----------------------------------------------------------------------------

\* Each variable of the delivery has its type.
DeliveryTypeOK ==
  /\ QueueTypeOK
  /\ waking \subseteq Threads
  /\ phase \in [Renderers -> Phases]
  /\ listening \in [Renderers -> BOOLEAN]
  /\ drainDue \in [Renderers -> BOOLEAN]
  /\ step \in [Renderers -> DrainSteps]
  /\ batch \in [Renderers -> Seq(Lease)]
  /\ processed \in [Renderers -> SUBSET Ids]
  /\ orphans \subseteq Settlement
  /\ started \subseteq Ids
  /\ completions \in [Renderers -> [Ids -> 0..2]]

\* However often a lease is presented again, because its acknowledgement was
\* lost or another instance nacked it, an instance completes it once.
OncePerRenderer ==
  \A r \in Renderers, i \in Ids : completions[r][i] <= 1

CompletedIds == {i \in Ids : \E r \in Renderers : completions[r][i] > 0}

\* An accepted command leaves the queue only after a renderer completed it, or
\* when it is handed back once more than the retry budget allows; reloads, lost
\* calls and late calls of a dead page take nothing away.
NoSilentLoss ==
  [][\A i \in OutstandingIds \ OutstandingIds' :
       \/ i \in CompletedIds
       \/ i \in InFlightIds /\ in_flight[i].retries = MaxRetries]_vars

\* Commands are started in the order they were accepted: none is started before
\* an older one that is still to be done and was never started, although nacks
\* put leases back at the front of the deque one by one.
AdmissionOrder ==
  \A j \in started, i \in OutstandingIds : i < j => i \in started

-----------------------------------------------------------------------------

\* A mounted renderer starts drains again and again.
DrainsRecur == []<>(\E r \in Renderers : Mounted(r) /\ drainDue[r])

\* As long as drains recur, every accepted command is settled in the end:
\* completed and acknowledged, or discarded by the retry budget.
SettledIfDrainsRecur ==
  DrainsRecur => \A i \in Ids : i \in OutstandingIds ~> i \notin OutstandingIds

\* What the documentation says: the renderer executes accepted commands
\* ("The renderer executes accepted show and preview actions asynchronously",
\* mcp-server/README.md:103), here only while one stays mounted and listens.
SettledWhileListening ==
  <>[](\E r \in Renderers : Mounted(r) /\ listening[r])
    => \A i \in Ids : i \in OutstandingIds ~> i \notin OutstandingIds

\* What the queue's tests say of a renderer that reloads before it could retry a
\* lost acknowledgement: the lease is presented again "so the renderer can
\* idempotently acknowledge it" (external_commands/tests.rs:71).
CompletedOnce ==
  \A q, r \in Renderers, i \in Ids :
    q # r => completions[q][i] + completions[r][i] <= 1
=============================================================================
