-------------------------- MODULE LocalApiActions --------------------------
(***************************************************************************)
(* The handlers of the local HTTP API that queue a command for the         *)
(* renderer: show_samples_in_app, preview_sample and add_to_collection of  *)
(* src-tauri/src/http_api/router/action_handlers.rs.  Each request runs    *)
(* on its own blocking thread, so the handlers interleave at every lock:   *)
(* the manager mutex, held for a validation or a write, and the queue      *)
(* mutex, never held across a call (see UiCommandQueue).                   *)
(*                                                                         *)
(* The UI deletes and scans samples through the same manager mutex between *)
(* the steps of a request.  A panic under the mutex poisons it for good.   *)
(* Waking the renderer comes after these steps: see CommandDelivery.       *)
(***************************************************************************)
EXTENDS UiCommandQueue, Functions

CONSTANTS
  SampleIds,    \* ids a sample row can have
  IdLists,      \* the sample_ids lists that clients send
  Free,         \* the manager mutex is not held
  Poisoned,     \* a thread panicked while it held the manager mutex
  MaxRequests   \* bound of the model: requests issued in a behaviour

ASSUME RequestAssumption ==
  /\ IdLists # {}
  /\ \A ids \in IdLists : ids \in Seq(SampleIds) /\ ids # << >> /\ IsInjective(ids)
  /\ Free # Poisoned
  /\ Free \notin Threads
  /\ Poisoned \notin Threads
  /\ MaxRequests \in Nat

VARIABLES
  manager,      \* owner of Mutex<SampleManager>, Free or Poisoned
  samples,      \* ids of the rows of table samples
  members,      \* the collection: the position of each sample id in it
  pc,           \* where the thread of a request stands
  request,      \* the request a thread works on, or worked on last
  response,     \* its answer
  issued,       \* requests so far
  wrote,        \* history: the request's write to the collection was committed
  queued        \* history: the request's command was committed

libraryVars == <<manager, samples, members>>

handlerVars == <<pc, request, response, issued, wrote, queued>>

actionsVars == <<queueVars, libraryVars, handlerVars>>

Operations == {"ShowSamples", "PreviewSample", "CollectionsChanged"}

Request == [operation : Operations, ids : IdLists]

\* HTTP 202, 404, 503 (queue full, poisoned manager) and 500.
Refusals == {"NotFound", "QueueFull", "ManagerUnavailable", "OperationFailed"}

Responses == {"None", "Accepted"} \cup Refusals

Steps == {"idle", "validate", "validating", "admit", "write", "writing",
          "commit", "respond"}

Goto(t, step) == pc' = [pc EXCEPT ![t] = step]

Answer(t, answer) ==
  /\ response' = [response EXCEPT ![t] = answer]
  /\ Goto(t, "respond")
  /\ UNCHANGED <<request, issued, wrote, queued>>

-----------------------------------------------------------------------------

ActionsInit ==
  /\ QueueInit
  /\ manager = Free
  /\ samples = SampleIds
  /\ members = << >>
  /\ pc = [t \in Threads |-> "idle"]
  /\ request = [t \in Threads |-> CHOOSE r \in Request : TRUE]
  /\ response = [t \in Threads |-> "None"]
  /\ issued = 0
  /\ wrote = [t \in Threads |-> FALSE]
  /\ queued = [t \in Threads |-> FALSE]

\* The request has passed parsing; its blocking task starts.
Receive(t, r) ==
  /\ pc[t] = "idle"
  /\ issued < MaxRequests
  /\ r.operation = "PreviewSample" => Len(r.ids) = 1
  /\ Goto(t, "validate")
  /\ request' = [request EXCEPT ![t] = r]
  /\ response' = [response EXCEPT ![t] = "None"]
  /\ issued' = issued + 1
  /\ wrote' = [wrote EXCEPT ![t] = FALSE]
  /\ queued' = [queued EXCEPT ![t] = FALSE]
  /\ UNCHANGED <<queueVars, libraryVars>>

LockManager(t, from, to) ==
  /\ pc[t] = from
  /\ manager = Free
  /\ manager' = t
  /\ Goto(t, to)
  /\ UNCHANGED <<queueVars, samples, members, request, response, issued, wrote, queued>>

\* lock() returns an error once a holder has panicked.
ManagerUnavailable(t) ==
  /\ manager = Poisoned
  /\ \/ /\ pc[t] = "validate"
        /\ UNCHANGED queueVars
     \/ /\ pc[t] = "write"
        /\ CancelReservation(t)
  /\ Answer(t, "ManagerUnavailable")
  /\ UNCHANGED libraryVars

LockToValidate(t) == LockManager(t, "validate", "validating")

LockToWrite(t) == LockManager(t, "write", "writing")

Listed(ids) == {ids[k] : k \in DOMAIN ids}

AllExist(t) == Listed(request[t].ids) \subseteq samples

\* Bug: the guard of the validation lives on into the enqueue.
KeepLock(t) == UNCHANGED manager

Unlock(t) == manager' = Free

\* validate_sample_ids under the manager mutex, which is released before the
\* queue is touched.  A row may be missing or the read may fail.
ValidateSampleIds(t) ==
  /\ pc[t] = "validating"
  /\ Unlock(t)
  /\ \/ /\ AllExist(t)
        /\ Goto(t, "admit")
        /\ UNCHANGED <<request, response, issued, wrote, queued>>
     \/ /\ ~AllExist(t)
        /\ Answer(t, "NotFound")
     \/ Answer(t, "OperationFailed")
  /\ UNCHANGED <<queueVars, samples, members>>

IsAdd(t) == request[t].operation = "CollectionsChanged"

\* Bug: looks for room but does not reserve it.
CheckRoom(t) ==
  /\ ~QueueFull
  /\ UNCHANGED queueVars

ReserveSlot(t) == Reserve(t)

\* Bug: a full queue is waited for instead of refused.
AdmitWaiting(t) ==
  /\ pc[t] = "admit"
  /\ ReserveSlot(t)
  /\ Goto(t, IF IsAdd(t) THEN "write" ELSE "commit")
  /\ UNCHANGED <<libraryVars, request, response, issued, wrote, queued>>

\* enqueue (show, preview) commits next; enqueue_after (add) writes first.
Admit(t) ==
  /\ pc[t] = "admit"
  /\ \/ /\ ReserveSlot(t)
        /\ Goto(t, IF IsAdd(t) THEN "write" ELSE "commit")
        /\ UNCHANGED <<request, response, issued, wrote, queued>>
     \/ /\ QueueFull
        /\ Answer(t, "QueueFull")
        /\ UNCHANGED queueVars
  /\ UNCHANGED libraryVars

MemberIds == DOMAIN members

Positions == {0} \cup {members[i] : i \in MemberIds}

\* COALESCE(MAX(position), 0)
LastPosition == CHOOSE p \in Positions : \A q \in Positions : q <= p

IndexIn(ids, i) == CHOOSE k \in DOMAIN ids : ids[k] = i

\* How many of the ids are inserted up to i: each takes the next position.
InsertedUpTo(ids, i) ==
  Cardinality({k \in DOMAIN ids : ids[k] \notin MemberIds /\ k <= IndexIn(ids, i)})

AddedAfter(last, ids) ==
  [i \in MemberIds \cup Listed(ids) |->
     IF i \in MemberIds THEN members[i] ELSE last + InsertedUpTo(ids, i)]

\* Bug: the positions go on from the number of the members.
AppendByCount(ids) == AddedAfter(Cardinality(MemberIds), ids)

\* ON CONFLICT DO NOTHING, positions counted on from the largest.
AppendNew(ids) == AddedAfter(LastPosition, ids)

\* Bug: the membership rows are written before the ids are checked, and the
\* failure is returned without a rollback.
KeepPartial(t) ==
  LET present == SelectSeq(request[t].ids, LAMBDA i : i \in samples)
  IN /\ members' = AppendNew(present)
     /\ wrote' = [wrote EXCEPT ![t] = present # << >>]

RollBack(t) == UNCHANGED <<members, wrote>>

\* add_samples_to_collection is one transaction; it fails if an id is gone by
\* now, or if the database refuses.
AddSamples(t) ==
  /\ pc[t] = "writing"
  /\ Unlock(t)
  /\ \/ /\ AllExist(t)
        /\ members' = AppendNew(request[t].ids)
        /\ wrote' = [wrote EXCEPT ![t] = TRUE]
        /\ Goto(t, "commit")
        /\ UNCHANGED <<queueVars, request, response, issued, queued>>
     \/ /\ RollBack(t)
        /\ CancelReservation(t)
        /\ response' = [response EXCEPT ![t] = "OperationFailed"]
        /\ Goto(t, "respond")
        /\ UNCHANGED <<request, issued, queued>>
  /\ UNCHANGED samples

\* The write panics: unwinding poisons the mutex, rolls the transaction back
\* and drops the reservation; the join error is answered as a failure.
PanicInWrite(t) ==
  /\ pc[t] = "writing"
  /\ manager' = Poisoned
  /\ CancelReservation(t)
  /\ Answer(t, "OperationFailed")
  /\ UNCHANGED <<samples, members>>

UiCommandOf(r) ==
  CASE r.operation = "ShowSamples" ->
         [type |-> "ShowSamples", sample_ids |-> r.ids]
    [] r.operation = "PreviewSample" ->
         [type |-> "PreviewSample", sample_id |-> r.ids[1]]
    [] r.operation = "CollectionsChanged" ->
         [type |-> "CollectionsChanged"]

\* Whatever a client may ask for is a command the queue carries.
ASSUME CommandAssumption == \A r \in Request : UiCommandOf(r) \in Commands

Enqueue(t) ==
  /\ pc[t] = "commit"
  /\ Commit(t, UiCommandOf(request[t]))
  /\ response' = [response EXCEPT ![t] = "Accepted"]
  /\ queued' = [queued EXCEPT ![t] = TRUE]
  /\ Goto(t, "respond")
  /\ UNCHANGED <<libraryVars, request, issued, wrote>>

\* The client has its answer, or has gone away; the thread is free again.
Respond(t) ==
  /\ pc[t] = "respond"
  /\ Goto(t, "idle")
  /\ UNCHANGED <<queueVars, libraryVars, request, response, issued, wrote, queued>>

HandlerStep(t) ==
  \/ LockToValidate(t)
  \/ ManagerUnavailable(t)
  \/ ValidateSampleIds(t)
  \/ Admit(t)
  \/ LockToWrite(t)
  \/ AddSamples(t)
  \/ PanicInWrite(t)
  \/ Enqueue(t)
  \/ Respond(t)

-----------------------------------------------------------------------------

\* The UI deletes a sample: memberships go with the row (ON DELETE CASCADE).
DeleteSample(s) ==
  /\ manager = Free
  /\ s \in samples
  /\ samples' = samples \ {s}
  /\ members' = Restrict(members, MemberIds \ {s})
  /\ UNCHANGED <<queueVars, manager, handlerVars>>

\* A scan inserts a row; SQLite may give it the id of a deleted one.
InsertSample(s) ==
  /\ manager = Free
  /\ s \notin samples
  /\ samples' = samples \cup {s}
  /\ UNCHANGED <<queueVars, manager, members, handlerVars>>

\* What the renderer does to the queue, in any order.
Renderer ==
  /\ Claim \/ \E id \in InFlightIds : Acknowledge(id) \/ Nack(id)
  /\ UNCHANGED <<libraryVars, handlerVars>>

ActionsNext ==
  \/ \E t \in Threads, r \in Request : Receive(t, r)
  \/ \E t \in Threads : HandlerStep(t)
  \/ \E s \in SampleIds : DeleteSample(s) \/ InsertSample(s)
  \/ Renderer

\* A runnable thread runs; requests are finite in number, so the mutex is
\* eventually free whenever it is wanted.  Nothing is assumed of clients, of
\* the UI or of the renderer.
ActionsFairness == \A t \in Threads : WF_actionsVars(HandlerStep(t))

ActionsSpec == ActionsInit /\ [][ActionsNext]_actionsVars

ActionsFairSpec == ActionsSpec /\ ActionsFairness

-----------------------------------------------------------------------------

\* Each variable of the handlers has its type.
ActionsTypeOK ==
  /\ QueueTypeOK
  /\ manager \in Threads \cup {Free, Poisoned}
  /\ samples \subseteq SampleIds
  /\ MemberIds \subseteq SampleIds
  /\ members \in [MemberIds -> Nat \ {0}]
  /\ pc \in [Threads -> Steps]
  /\ request \in [Threads -> Request]
  /\ response \in [Threads -> Responses]
  /\ wrote \in [Threads -> BOOLEAN]
  /\ queued \in [Threads -> BOOLEAN]

\* Once a request has changed the collection, its CollectionsChanged notice is
\* queued or has its slot: no other producer can fill the queue in between and
\* leave a durable change unannounced (enqueue_after).
WriteKeepsItsSlot ==
  \A t \in Threads : wrote[t] => queued[t] \/ t \in reservations

\* A request that is refused, for whatever reason and at whatever step, has
\* changed no collection and has queued nothing.
RefusedLeavesNoTrace ==
  \A t \in Threads : response[t] \in Refusals => ~wrote[t] /\ ~queued[t]

\* The collection lists existing samples, each at a place of its own, although
\* they are deleted and re-created between the validation of a request and its
\* write: deletions leave gaps, no constraint keeps positions apart, and a list
\* is read in their order.
MembersSound == MemberIds \subseteq samples /\ IsInjective(members)

\* No thread leaves the handler with a slot reserved or the manager locked,
\* on any of the error paths.
NothingHeldWhenAnswered ==
  \A t \in Threads :
    pc[t] \in {"idle", "respond"} => t \notin reservations /\ manager # t

\* Every request is answered: no handler waits forever for the manager, which
\* others lock before or after they reserve a slot.
EveryRequestAnswered ==
  \A t \in Threads : pc[t] # "idle" ~> pc[t] = "idle"
=============================================================================
