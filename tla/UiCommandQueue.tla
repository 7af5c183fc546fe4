--------------------------- MODULE UiCommandQueue ---------------------------
(***************************************************************************)
(* The queue that carries commands from the local HTTP API to the desktop  *)
(* renderer: struct UiCommandQueue of src-tauri/src/external_commands.rs.  *)
(*                                                                         *)
(* The queue is an object behind one mutex that no method holds across a   *)
(* call, so every method is one atomic action.  A producer thread first    *)
(* reserves a slot, may then run an operation of its own (enqueue_after),  *)
(* and commits or cancels the reservation; those are separate critical     *)
(* sections and other threads run between them.  Who claims, acknowledges  *)
(* and nacks is left open here: any caller, with any id, at any time.      *)
(***************************************************************************)
EXTENDS Integers, Sequences, FiniteSets

CONSTANTS
  Threads,      \* threads that enqueue commands
  Commands,     \* the values of enum UiCommand that are sent
  Capacity,     \* UI_COMMAND_QUEUE_CAPACITY
  MaxRetries,   \* UI_COMMAND_MAX_RETRIES
  MaxCommands   \* bound of the model: no reservation is taken beyond this id

ASSUME QueueAssumption ==
  /\ IsFiniteSet(Threads)
  /\ Capacity \in Nat
  /\ MaxRetries \in Nat
  /\ MaxCommands \in Nat

VARIABLES
  pending,      \* VecDeque<QueuedUiCommand>, front first
  in_flight,    \* BTreeMap<UiCommandId, QueuedUiCommand>
  reserved,     \* count of slots promised to threads
  next_id,      \* id of the next committed command
  reservations  \* threads that own an active UiCommandReservation

queueVars == <<pending, in_flight, reserved, next_id, reservations>>

QueuedUiCommand == [id : Nat, command : Commands, retries : 0..MaxRetries]

PendingIds == {pending[k].id : k \in DOMAIN pending}

InFlightIds == DOMAIN in_flight

OutstandingIds == PendingIds \cup InFlightIds

\* The size that reserve() compares with the capacity.
QueueSize == Len(pending) + Cardinality(InFlightIds) + reserved

-----------------------------------------------------------------------------

QueueInit ==
  /\ pending = << >>
  /\ in_flight = << >>
  /\ reserved = 0
  /\ next_id = 0
  /\ reservations = {}

\* Bug: leased commands are not counted.
FullOfPending == Len(pending) + reserved >= Capacity

\* Bug: promised slots are not counted.
FullOfCommands == Len(pending) + Cardinality(InFlightIds) >= Capacity

\* reserve() fails with QueueFull exactly when this holds, and changes nothing.
QueueFull == QueueSize >= Capacity

Reserve(t) ==
  /\ t \notin reservations
  /\ ~QueueFull
  /\ next_id + reserved < MaxCommands
  /\ reserved' = reserved + 1
  /\ reservations' = reservations \cup {t}
  /\ UNCHANGED <<pending, in_flight, next_id>>

\* Bug: the reservation stays active, and its drop releases the slot again.
CommitTwice(t, command) ==
  /\ t \in reservations
  /\ reserved' = reserved - 1
  /\ pending' = Append(pending, [id |-> next_id, command |-> command, retries |-> 0])
  /\ next_id' = next_id + 1
  /\ UNCHANGED <<in_flight, reservations>>

Commit(t, command) ==
  /\ t \in reservations
  /\ reserved' = reserved - 1
  /\ reservations' = reservations \ {t}
  /\ pending' = Append(pending, [id |-> next_id, command |-> command, retries |-> 0])
  /\ next_id' = next_id + 1
  /\ UNCHANGED in_flight

\* Drop of an active reservation: the operation failed or panicked.
CancelReservation(t) ==
  /\ t \in reservations
  /\ reserved' = reserved - 1
  /\ reservations' = reservations \ {t}
  /\ UNCHANGED <<pending, in_flight, next_id>>

\* in_flight after every pending entry has been inserted.
ClaimedInFlight ==
  [i \in OutstandingIds |->
     IF i \in PendingIds
     THEN pending[CHOOSE k \in DOMAIN pending : pending[k].id = i]
     ELSE in_flight[i]]

\* Bug: the claim reads the deque without draining it.
ClaimByReading ==
  /\ in_flight' = ClaimedInFlight
  /\ UNCHANGED <<pending, reserved, next_id, reservations>>

\* Every unsettled lease is presented, also those of an earlier claim.
Claim ==
  /\ in_flight' = ClaimedInFlight
  /\ pending' = << >>
  /\ UNCHANGED <<reserved, next_id, reservations>>

WithoutLease(id) == [i \in InFlightIds \ {id} |-> in_flight[i]]

\* Unknown ids are ignored by acknowledge and nack.
Acknowledge(id) ==
  /\ id \in InFlightIds
  /\ in_flight' = WithoutLease(id)
  /\ UNCHANGED <<pending, reserved, next_id, reservations>>

Discard(id) ==
  /\ id \in InFlightIds
  /\ in_flight[id].retries >= MaxRetries
  /\ in_flight' = WithoutLease(id)
  /\ UNCHANGED <<pending, reserved, next_id, reservations>>

\* Bug: one retry too many.
RequeueOnceMore(id) ==
  /\ id \in InFlightIds
  /\ in_flight[id].retries <= MaxRetries
  /\ in_flight' = WithoutLease(id)
  /\ pending' = <<[in_flight[id] EXCEPT !.retries = @ + 1]>> \o pending
  /\ UNCHANGED <<reserved, next_id, reservations>>

Requeue(id) ==
  /\ id \in InFlightIds
  /\ in_flight[id].retries < MaxRetries
  /\ in_flight' = WithoutLease(id)
  /\ pending' = <<[in_flight[id] EXCEPT !.retries = @ + 1]>> \o pending
  /\ UNCHANGED <<reserved, next_id, reservations>>

Nack(id) == Discard(id) \/ Requeue(id)

QueueNext ==
  \/ \E t \in Threads : Reserve(t) \/ CancelReservation(t)
  \/ \E t \in Threads, c \in Commands : Commit(t, c)
  \/ Claim
  \/ \E id \in InFlightIds : Acknowledge(id) \/ Nack(id)

QueueSpec == QueueInit /\ [][QueueNext]_queueVars

-----------------------------------------------------------------------------

\* Each variable of the queue has its type.
QueueTypeOK ==
  /\ pending \in Seq(QueuedUiCommand)
  /\ InFlightIds \subseteq Nat
  /\ IsFiniteSet(InFlightIds)
  /\ in_flight \in [InFlightIds -> QueuedUiCommand]
  /\ reserved \in Nat
  /\ next_id \in Nat
  /\ reservations \subseteq Threads

\* Accepted commands and promised slots together never exceed the capacity,
\* whatever reservations, commits, claims and nacks interleave: a nacked
\* lease and a late commit always find the room they left or were promised.
CapacityBound == QueueSize <= Capacity

\* The counter agrees with the reservations that are still active, so the
\* `reserved -= 1` of a commit or a cancel never underflows (the code only
\* has a debug_assert) and no slot leaks when an operation fails.
ReservationsAccounted == reserved = Cardinality(reservations)

\* A command is in one place at a time: no id is queued twice, none is queued
\* and leased at once, each entry is filed under its own id, and no id that
\* is out is handed out again.
OneHome ==
  /\ \A j, k \in DOMAIN pending : pending[j].id = pending[k].id => j = k
  /\ PendingIds \cap InFlightIds = {}
  /\ \A i \in InFlightIds : in_flight[i].id = i
  /\ \A i \in OutstandingIds : i < next_id

QueueInv == QueueTypeOK /\ CapacityBound /\ ReservationsAccounted /\ OneHome

-----------------------------------------------------------------------------

(***************************************************************************)
(* What the queue promises, whatever the order of the deque: a bounded     *)
(* mailbox of accepted commands.                                           *)
(***************************************************************************)
PendingEntries == {pending[k] : k \in DOMAIN pending}

InFlightEntries == {in_flight[i] : i \in InFlightIds}

Mailbox == INSTANCE CommandMailbox WITH
  outstanding <- PendingEntries \cup InFlightEntries,
  leased <- InFlightIds,
  accepted <- next_id

\* The queue implements the mailbox: reservations are invisible, and a commit
\* finds a free slot without asking for one.
ImplementsMailbox == Mailbox!Spec
=============================================================================
