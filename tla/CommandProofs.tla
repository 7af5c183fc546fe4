---------------------------- MODULE CommandProofs ----------------------------
(***************************************************************************)
(* What is proved of both ends of a UI command: of the handlers of the     *)
(* local HTTP API, which put commands into the queue, and of the renderers *)
(* that fetch and complete them. Either uses the queue only through its    *)
(* operations, so that the queue's invariant holds in the program that has *)
(* them.                                                                   *)
(***************************************************************************)
EXTENDS LocalApiActions, CommandDelivery, UiCommandQueueProofs

-----------------------------------------------------------------------------
(***************************************************************************)
(* The handlers of the local HTTP API, for every number of threads, every  *)
(* library and every queue capacity: they use the UI command queue only    *)
(* through its operations, so that its invariant holds in the program that *)
(* has them; no change of a collection goes unannounced; a refusal leaves  *)
(* nothing behind; and nothing is held once an answer is out.              *)
(*                                                                         *)
(* HandlerInv ties what a thread holds to where it stands.  The run's      *)
(* invariants speak of the answer, the slot and the write; only the pc     *)
(* relates them, so none of them is inductive by itself.                   *)
(***************************************************************************)

\* Where a thread owns a slot of the queue, and where the manager mutex.
SlotSteps == {"write", "writing", "commit"}

LockSteps == {"validating", "writing"}

\* Each variable of the handlers has its type.
HandlerTypeOK ==
  /\ pc \in [Threads -> Steps]
  /\ request \in [Threads -> Request]
  /\ response \in [Threads -> Responses]
  /\ wrote \in [Threads -> BOOLEAN]
  /\ queued \in [Threads -> BOOLEAN]

SlotWherePromised == \A t \in Threads : t \in reservations <=> pc[t] \in SlotSteps

LockWhereTaken == \A t \in Threads : manager = t => pc[t] \in LockSteps

\* The answer and the notice are the last things a request produces.
UndecidedUntilAnswered ==
  \A t \in Threads :
    pc[t] \notin {"idle", "respond"} => response[t] = "None" /\ ~queued[t]

WriteBeforeNotice ==
  \A t \in Threads : wrote[t] => pc[t] = "commit" \/ queued[t]

QueuedIsAccepted == \A t \in Threads : queued[t] => response[t] = "Accepted"

HandlerInv ==
  /\ HandlerTypeOK
  /\ SlotWherePromised
  /\ LockWhereTaken
  /\ UndecidedUntilAnswered
  /\ WriteBeforeNotice
  /\ QueuedIsAccepted

LEMMA HandlerInitInv == ActionsInit => HandlerInv
  <1> SUFFICES ASSUME ActionsInit PROVE HandlerInv
    OBVIOUS
  <1>1. HandlerTypeOK
    <2>1. PICK ids \in IdLists : TRUE
      BY RequestAssumption
    <2>2. [operation |-> "ShowSamples", ids |-> ids] \in Request
      BY DEF Request, Operations
    <2>3. (CHOOSE r \in Request : TRUE) \in Request
      BY <2>2
    <2> QED
      BY <2>3 DEF ActionsInit, HandlerTypeOK, Steps, Responses
  <1>2. LockWhereTaken
    BY RequestAssumption DEF ActionsInit, LockWhereTaken
  <1>3. /\ SlotWherePromised
        /\ UndecidedUntilAnswered
        /\ WriteBeforeNotice
        /\ QueuedIsAccepted
    BY DEF ActionsInit, QueueInit, SlotWherePromised, SlotSteps, UndecidedUntilAnswered,
           WriteBeforeNotice, QueuedIsAccepted
  <1> QED
    BY <1>1, <1>2, <1>3 DEF HandlerInv

-----------------------------------------------------------------------------

\* What a step of one thread may do to the rest: nothing that another thread
\* holds, and nothing of where another thread stands.
LEMMA HandlerStepInv ==
  ASSUME HandlerInv, NEW t \in Threads, HandlerStep(t) PROVE HandlerInv'
  <1> USE DEF HandlerInv, HandlerTypeOK, Goto, Answer
  <1>1. CASE LockToValidate(t)
    <2>1. HandlerTypeOK'
      BY <1>1
      DEF LockToValidate, LockManager, queueVars, Steps, Responses, Refusals
    <2>2. SlotWherePromised'
      BY <1>1
      DEF LockToValidate, LockManager, queueVars, SlotWherePromised, SlotSteps
    <2>3. LockWhereTaken'
      BY <1>1, RequestAssumption
      DEF LockToValidate, LockManager, queueVars, LockWhereTaken, LockSteps
    <2>4. UndecidedUntilAnswered' /\ QueuedIsAccepted'
      BY <1>1
      DEF LockToValidate, LockManager, queueVars, UndecidedUntilAnswered, QueuedIsAccepted
    <2>5. WriteBeforeNotice'
      BY <1>1
      DEF LockToValidate, LockManager, queueVars, WriteBeforeNotice, UndecidedUntilAnswered
    <2> QED
      BY <2>1, <2>2, <2>3, <2>4, <2>5
  <1>2. CASE ManagerUnavailable(t)
    <2>1. HandlerTypeOK'
      BY <1>2
      DEF ManagerUnavailable, CancelReservation, queueVars, libraryVars, Steps, Responses, Refusals
    <2>2. SlotWherePromised'
      BY <1>2
      DEF ManagerUnavailable, CancelReservation, queueVars, libraryVars, SlotWherePromised, SlotSteps
    <2>3. LockWhereTaken'
      BY <1>2, RequestAssumption
      DEF ManagerUnavailable, CancelReservation, queueVars, libraryVars, LockWhereTaken, LockSteps
    <2>4. UndecidedUntilAnswered' /\ QueuedIsAccepted'
      BY <1>2
      DEF ManagerUnavailable, CancelReservation, queueVars, libraryVars, UndecidedUntilAnswered, QueuedIsAccepted
    <2>5. WriteBeforeNotice'
      BY <1>2
      DEF ManagerUnavailable, CancelReservation, queueVars, libraryVars, WriteBeforeNotice, UndecidedUntilAnswered
    <2> QED
      BY <2>1, <2>2, <2>3, <2>4, <2>5
  <1>3. CASE ValidateSampleIds(t)
    <2>1. HandlerTypeOK'
      BY <1>3
      DEF ValidateSampleIds, Unlock, queueVars, Steps, Responses, Refusals
    <2>2. SlotWherePromised'
      BY <1>3
      DEF ValidateSampleIds, Unlock, queueVars, SlotWherePromised, SlotSteps
    <2>3. LockWhereTaken'
      BY <1>3, RequestAssumption
      DEF ValidateSampleIds, Unlock, queueVars, LockWhereTaken, LockSteps
    <2>4. UndecidedUntilAnswered' /\ QueuedIsAccepted'
      BY <1>3
      DEF ValidateSampleIds, Unlock, queueVars, UndecidedUntilAnswered, QueuedIsAccepted
    <2>5. WriteBeforeNotice'
      BY <1>3
      DEF ValidateSampleIds, Unlock, queueVars, WriteBeforeNotice, UndecidedUntilAnswered
    <2> QED
      BY <2>1, <2>2, <2>3, <2>4, <2>5
  <1>4. CASE Admit(t)
    <2>1. HandlerTypeOK'
      BY <1>4
      DEF Admit, ReserveSlot, IsAdd, Reserve, queueVars, libraryVars, Steps, Responses, Refusals
    <2>2. SlotWherePromised'
      BY <1>4
      DEF Admit, ReserveSlot, IsAdd, Reserve, queueVars, libraryVars, SlotWherePromised, SlotSteps
    <2>3. LockWhereTaken'
      BY <1>4, RequestAssumption
      DEF Admit, ReserveSlot, IsAdd, Reserve, queueVars, libraryVars, LockWhereTaken, LockSteps
    <2>4. UndecidedUntilAnswered' /\ QueuedIsAccepted'
      BY <1>4
      DEF Admit, ReserveSlot, IsAdd, Reserve, queueVars, libraryVars, UndecidedUntilAnswered, QueuedIsAccepted
    <2>5. WriteBeforeNotice'
      BY <1>4
      DEF Admit, ReserveSlot, IsAdd, Reserve, queueVars, libraryVars, WriteBeforeNotice, UndecidedUntilAnswered
    <2> QED
      BY <2>1, <2>2, <2>3, <2>4, <2>5
  <1>5. CASE LockToWrite(t)
    <2>1. HandlerTypeOK'
      BY <1>5
      DEF LockToWrite, LockManager, queueVars, Steps, Responses, Refusals
    <2>2. SlotWherePromised'
      BY <1>5
      DEF LockToWrite, LockManager, queueVars, SlotWherePromised, SlotSteps
    <2>3. LockWhereTaken'
      BY <1>5, RequestAssumption
      DEF LockToWrite, LockManager, queueVars, LockWhereTaken, LockSteps
    <2>4. UndecidedUntilAnswered' /\ QueuedIsAccepted'
      BY <1>5
      DEF LockToWrite, LockManager, queueVars, UndecidedUntilAnswered, QueuedIsAccepted
    <2>5. WriteBeforeNotice'
      BY <1>5
      DEF LockToWrite, LockManager, queueVars, WriteBeforeNotice, UndecidedUntilAnswered
    <2> QED
      BY <2>1, <2>2, <2>3, <2>4, <2>5
  <1>6. CASE AddSamples(t)
    <2>1. HandlerTypeOK'
      BY <1>6
      DEF AddSamples, Unlock, RollBack, CancelReservation, queueVars, Steps, Responses, Refusals
    <2>2. SlotWherePromised'
      BY <1>6
      DEF AddSamples, Unlock, RollBack, CancelReservation, queueVars, SlotWherePromised, SlotSteps
    <2>3. LockWhereTaken'
      BY <1>6, RequestAssumption
      DEF AddSamples, Unlock, RollBack, CancelReservation, queueVars, LockWhereTaken, LockSteps
    <2>4. UndecidedUntilAnswered' /\ QueuedIsAccepted'
      BY <1>6
      DEF AddSamples, Unlock, RollBack, CancelReservation, queueVars, UndecidedUntilAnswered, QueuedIsAccepted
    <2>5. WriteBeforeNotice'
      BY <1>6
      DEF AddSamples, Unlock, RollBack, CancelReservation, queueVars, WriteBeforeNotice, UndecidedUntilAnswered
    <2> QED
      BY <2>1, <2>2, <2>3, <2>4, <2>5
  <1>7. CASE PanicInWrite(t)
    <2>1. HandlerTypeOK'
      BY <1>7
      DEF PanicInWrite, CancelReservation, queueVars, Steps, Responses, Refusals
    <2>2. SlotWherePromised'
      BY <1>7
      DEF PanicInWrite, CancelReservation, queueVars, SlotWherePromised, SlotSteps
    <2>3. LockWhereTaken'
      BY <1>7, RequestAssumption
      DEF PanicInWrite, CancelReservation, queueVars, LockWhereTaken, LockSteps
    <2>4. UndecidedUntilAnswered' /\ QueuedIsAccepted'
      BY <1>7
      DEF PanicInWrite, CancelReservation, queueVars, UndecidedUntilAnswered, QueuedIsAccepted
    <2>5. WriteBeforeNotice'
      BY <1>7
      DEF PanicInWrite, CancelReservation, queueVars, WriteBeforeNotice, UndecidedUntilAnswered
    <2> QED
      BY <2>1, <2>2, <2>3, <2>4, <2>5
  <1>8. CASE Enqueue(t)
    <2>1. HandlerTypeOK'
      BY <1>8 DEF Enqueue, Commit, libraryVars, Steps, Responses, Refusals
    <2>2. SlotWherePromised'
      BY <1>8 DEF Enqueue, Commit, libraryVars, SlotWherePromised, SlotSteps
    <2>3. LockWhereTaken'
      BY <1>8, RequestAssumption
      DEF Enqueue, Commit, libraryVars, LockWhereTaken, LockSteps
    <2>4. UndecidedUntilAnswered' /\ QueuedIsAccepted'
      BY <1>8
      DEF Enqueue, Commit, libraryVars, UndecidedUntilAnswered, QueuedIsAccepted
    <2>5. WriteBeforeNotice'
      BY <1>8
      DEF Enqueue, Commit, libraryVars, WriteBeforeNotice, UndecidedUntilAnswered
    <2> QED
      BY <2>1, <2>2, <2>3, <2>4, <2>5
  <1>9. CASE Respond(t)
    <2>1. HandlerTypeOK'
      BY <1>9 DEF Respond, queueVars, libraryVars, Steps, Responses, Refusals
    <2>2. SlotWherePromised'
      BY <1>9
      DEF Respond, queueVars, libraryVars, SlotWherePromised, SlotSteps
    <2>3. LockWhereTaken'
      BY <1>9, RequestAssumption
      DEF Respond, queueVars, libraryVars, LockWhereTaken, LockSteps
    <2>4. UndecidedUntilAnswered' /\ QueuedIsAccepted'
      BY <1>9
      DEF Respond, queueVars, libraryVars, UndecidedUntilAnswered, QueuedIsAccepted
    <2>5. WriteBeforeNotice'
      BY <1>9
      DEF Respond, queueVars, libraryVars, WriteBeforeNotice, UndecidedUntilAnswered
    <2> QED
      BY <2>1, <2>2, <2>3, <2>4, <2>5
  <1> QED
    BY <1>1, <1>2, <1>3, <1>4, <1>5, <1>6, <1>7, <1>8, <1>9 DEF HandlerStep

\* The UI and the renderer touch nothing that a handler holds.
LEMMA OthersInv ==
  ASSUME HandlerInv, UNCHANGED <<manager, reservations, pc, request, response, wrote, queued>>
  PROVE  HandlerInv'
  BY DEF HandlerInv, HandlerTypeOK, SlotWherePromised, SlotSteps, LockWhereTaken,
         LockSteps, UndecidedUntilAnswered, WriteBeforeNotice, QueuedIsAccepted

LEMMA ReceiveInv ==
  ASSUME HandlerInv, NEW t \in Threads, NEW r \in Request, Receive(t, r)
  PROVE  HandlerInv'
  <1> USE DEF HandlerInv, HandlerTypeOK, Receive, Goto, queueVars, libraryVars
  <1>1. HandlerTypeOK'
    BY DEF Steps, Responses
  <1>2. SlotWherePromised' /\ LockWhereTaken'
    BY DEF SlotWherePromised, SlotSteps, LockWhereTaken, LockSteps
  <1>3. UndecidedUntilAnswered' /\ QueuedIsAccepted'
    BY DEF UndecidedUntilAnswered, QueuedIsAccepted
  <1>4. WriteBeforeNotice'
    BY DEF WriteBeforeNotice
  <1> QED
    BY <1>1, <1>2, <1>3, <1>4

LEMMA HandlerNextInv == HandlerInv /\ [ActionsNext]_actionsVars => HandlerInv'
  <1> SUFFICES ASSUME HandlerInv, [ActionsNext]_actionsVars PROVE HandlerInv'
    OBVIOUS
  <1>1. ASSUME NEW t \in Threads, NEW r \in Request, Receive(t, r) PROVE HandlerInv'
    BY <1>1, ReceiveInv
  <1>2. ASSUME NEW t \in Threads, HandlerStep(t) PROVE HandlerInv'
    BY <1>2, HandlerStepInv
  <1>3. ASSUME NEW s \in SampleIds, DeleteSample(s) \/ InsertSample(s) PROVE HandlerInv'
    BY <1>3, OthersInv DEF DeleteSample, InsertSample, handlerVars, queueVars
  <1>4. CASE Renderer
    <2>1. UNCHANGED reservations
      BY <1>4 DEF Renderer, Claim, Acknowledge, Nack, Discard, Requeue
    <2> QED
      BY <1>4, <2>1, OthersInv DEF Renderer, libraryVars, handlerVars
  <1>5. CASE UNCHANGED actionsVars
    BY <1>5, OthersInv DEF actionsVars, queueVars, libraryVars, handlerVars
  <1> QED
    BY <1>1, <1>2, <1>3, <1>4, <1>5 DEF ActionsNext

\* Whatever clients, UI and renderer do, what a thread holds is told by where
\* it stands.
THEOREM HandlerInvariant == ActionsSpec => []HandlerInv
  BY HandlerInitInv, HandlerNextInv, PTL DEF ActionsSpec

\* A collection that was changed has its notice queued, or the slot for it:
\* no other producer can take the slot between the write and the commit
\* (enqueue_after).
THEOREM WritesAreAnnounced == ActionsSpec => []WriteKeepsItsSlot
  <1>1. HandlerInv => WriteKeepsItsSlot
    BY DEF HandlerInv, WriteKeepsItsSlot, WriteBeforeNotice, SlotWherePromised, SlotSteps
  <1> QED
    BY <1>1, HandlerInvariant, PTL

\* A refused request, on every error path of the three handlers, has changed
\* no collection and queued nothing.
THEOREM RefusalsAreClean == ActionsSpec => []RefusedLeavesNoTrace
  <1>1. HandlerInv => RefusedLeavesNoTrace
    <2> SUFFICES ASSUME HandlerInv, NEW t \in Threads, response[t] \in Refusals
                 PROVE  ~wrote[t] /\ ~queued[t]
      BY DEF RefusedLeavesNoTrace
    <2>1. response[t] # "None" /\ response[t] # "Accepted"
      BY DEF Refusals
    <2>2. ~queued[t]
      BY <2>1 DEF HandlerInv, QueuedIsAccepted
    <2>3. pc[t] # "commit"
      BY <2>1 DEF HandlerInv, UndecidedUntilAnswered
    <2> QED
      BY <2>2, <2>3 DEF HandlerInv, WriteBeforeNotice
  <1> QED
    BY <1>1, HandlerInvariant, PTL

\* No answered request keeps a slot or the manager, also when its write failed
\* or panicked.
THEOREM AnswersHoldNothing == ActionsSpec => []NothingHeldWhenAnswered
  <1>1. HandlerInv => NothingHeldWhenAnswered
    BY DEF HandlerInv, NothingHeldWhenAnswered, SlotWherePromised, SlotSteps,
           LockWhereTaken, LockSteps
  <1> QED
    BY <1>1, HandlerInvariant, PTL

-----------------------------------------------------------------------------

\* Every step of the handlers is a step of the queue, or none.
LEMMA HandlerStepIsQueueStep ==
  ASSUME HandlerInv, NEW t \in Threads, HandlerStep(t)
  PROVE  [QueueNext]_queueVars
  <1>1. CASE Enqueue(t)
    <2>1. UiCommandOf(request[t]) \in Commands
      BY CommandAssumption DEF HandlerInv, HandlerTypeOK
    <2> QED
      BY <1>1, <2>1 DEF Enqueue, QueueNext
  <1>2. CASE ManagerUnavailable(t) \/ Admit(t) \/ AddSamples(t) \/ PanicInWrite(t)
    BY <1>2 DEF ManagerUnavailable, Admit, ReserveSlot, AddSamples, PanicInWrite, QueueNext
  <1>3. CASE \/ LockToValidate(t) \/ ValidateSampleIds(t)
             \/ LockToWrite(t) \/ Respond(t)
    BY <1>3 DEF LockToValidate, LockToWrite, LockManager, ValidateSampleIds, Respond
  <1> QED
    BY <1>1, <1>2, <1>3 DEF HandlerStep

\* The handlers use the queue only as it is specified: reserve before a commit,
\* one commit or cancel for each reservation, and nothing from outside.
THEOREM HandlersImplementQueue == ActionsSpec => QueueSpec
  <1>1. ActionsInit => QueueInit
    BY DEF ActionsInit
  <1>2. HandlerInv /\ [ActionsNext]_actionsVars => [QueueNext]_queueVars
    <2> SUFFICES ASSUME HandlerInv, [ActionsNext]_actionsVars PROVE [QueueNext]_queueVars
      OBVIOUS
    <2>1. ASSUME NEW t \in Threads, HandlerStep(t) PROVE [QueueNext]_queueVars
      BY <2>1, HandlerStepIsQueueStep
    <2>2. CASE Renderer
      BY <2>2 DEF Renderer, QueueNext
    <2>3. CASE UNCHANGED queueVars
      BY <2>3
    <2> QED
      BY <2>1, <2>2, <2>3 DEF ActionsNext, Receive, DeleteSample, InsertSample, actionsVars
  <1> QED
    BY <1>1, <1>2, HandlerInvariant, PTL DEF ActionsSpec, QueueSpec

\* So the queue keeps its bound, its count of promises and one home for each
\* command under the real handlers, panics and lost renderers included.
THEOREM QueueSoundUnderHandlers == ActionsSpec => []QueueInv
  BY HandlersImplementQueue, QueueInvariant, PTL
-----------------------------------------------------------------------------

(***************************************************************************)
(* The collection.  Its rows are finite in number, so the largest position *)
(* exists; what a request inserts comes after it, in the order of its ids. *)
(***************************************************************************)

LibraryShape ==
  /\ manager \in Threads \cup {Free, Poisoned}
  /\ samples \subseteq SampleIds
  /\ IsFiniteSet(MemberIds)
  /\ members \in [MemberIds -> Nat \ {0}]

LibraryInv == LibraryShape /\ MembersSound

LEMMA LastPositionIsLargest ==
  ASSUME LibraryShape
  PROVE  LastPosition \in Nat /\ \A i \in MemberIds : members[i] <= LastPosition
  <1>1. {members[i] : i \in MemberIds} \subseteq Nat
    BY DEF LibraryShape
  <1>2. IsFiniteSet({members[i] : i \in MemberIds})
    <2> DEFINE image == {members[i] : i \in MemberIds}
    <2>1. members \in Surjection(MemberIds, image)
      BY Fun_IsSurj DEF LibraryShape
    <2> QED
      BY <2>1, FS_Surjection DEF LibraryShape
  <1>3. Positions \subseteq Nat /\ IsFiniteSet(Positions) /\ Positions # {}
    <2>1. IsFiniteSet({0} \cup {members[i] : i \in MemberIds})
      BY <1>2, FS_Singleton, FS_Union
    <2>2. IsFiniteSet(Positions)
      BY <2>1 DEF Positions
    <2> QED
      BY <1>1, <2>2 DEF Positions
  <1>4. \E p \in Positions : \A q \in Positions : q <= p
    BY <1>3, FiniteMaximum
  <1>5. LastPosition \in Positions /\ \A q \in Positions : q <= LastPosition
    BY <1>4 DEF LastPosition
  <1> QED
    BY <1>3, <1>5 DEF Positions

\* The ids of a request that are new get positions one after the other.
LEMMA InsertedInTurn ==
  ASSUME NEW ids \in Seq(SampleIds), IsInjective(ids)
  PROVE  /\ \A i \in Listed(ids) \ MemberIds : InsertedUpTo(ids, i) \in Nat \ {0}
         /\ \A i, j \in Listed(ids) \ MemberIds :
              InsertedUpTo(ids, i) = InsertedUpTo(ids, j) => i = j
  <1> DEFINE new(i) == {k \in DOMAIN ids : ids[k] \notin MemberIds /\ k <= IndexIn(ids, i)}
             fresh == Listed(ids) \ MemberIds
  <1>1. Len(ids) \in Nat /\ DOMAIN ids = 1..Len(ids) /\ IsFiniteSet(DOMAIN ids)
    BY LenProperties, FS_Interval
  <1>2. ASSUME NEW i \in Listed(ids) PROVE IndexIn(ids, i) \in DOMAIN ids /\ ids[IndexIn(ids, i)] = i
    BY DEF Listed, IndexIn
  <1>3. ASSUME NEW i \in fresh
        PROVE  /\ IndexIn(ids, i) \in new(i) /\ IsFiniteSet(new(i))
               /\ InsertedUpTo(ids, i) = Cardinality(new(i))
               /\ InsertedUpTo(ids, i) \in Nat \ {0}
    <2>1. IndexIn(ids, i) \in new(i)
      BY <1>1, <1>2
    <2>2. new(i) \in SUBSET (DOMAIN ids)
      OBVIOUS
    <2>3. IsFiniteSet(new(i))
      BY <1>1, <2>2, FS_Subset
    <2>4. InsertedUpTo(ids, i) = Cardinality(new(i))
      BY DEF InsertedUpTo
    <2> HIDE DEF new
    <2>5. Cardinality(new(i)) \in Nat /\ Cardinality(new(i)) # 0
      BY <2>1, <2>3, FS_CardinalityType, FS_EmptySet
    <2> QED
      BY <2>1, <2>3, <2>4, <2>5
  <1>4. ASSUME NEW i \in fresh, NEW j \in fresh, IndexIn(ids, i) < IndexIn(ids, j)
        PROVE  InsertedUpTo(ids, i) # InsertedUpTo(ids, j)
    <2>1. IndexIn(ids, j) \notin new(i)
      BY <1>1, <1>2, <1>4
    <2>2. new(i) \in SUBSET new(j)
      BY <1>1, <1>2, <1>4
    <2>3. new(i) # new(j) /\ IsFiniteSet(new(j))
      BY <1>3, <2>1
    <2> HIDE DEF new
    <2>4. Cardinality(new(i)) # Cardinality(new(j))
      BY <2>2, <2>3, FS_Subset
    <2> QED
      BY <1>3, <2>4
  <1>5. ASSUME NEW i \in fresh, NEW j \in fresh, InsertedUpTo(ids, i) = InsertedUpTo(ids, j)
        PROVE  i = j
    <2>1. IndexIn(ids, i) \in Nat /\ IndexIn(ids, j) \in Nat
      BY <1>1, <1>2
    <2>2. IndexIn(ids, i) = IndexIn(ids, j)
      BY <1>4, <1>5, <2>1
    <2> QED
      BY <1>2, <2>2
  <1> QED
    BY <1>3, <1>5

LEMMA AppendKeepsPlaces ==
  ASSUME LibraryShape, IsInjective(members), NEW ids \in Seq(SampleIds), IsInjective(ids)
  PROVE  /\ AppendNew(ids) \in [MemberIds \cup Listed(ids) -> Nat \ {0}]
         /\ IsFiniteSet(MemberIds \cup Listed(ids))
         /\ IsInjective(AppendNew(ids))
  <1> DEFINE after(i) == LastPosition + InsertedUpTo(ids, i)
             all == MemberIds \cup Listed(ids)
  <1>1. LastPosition \in Nat /\ \A i \in MemberIds : members[i] <= LastPosition
    BY LastPositionIsLargest
  <1>2. \A i \in MemberIds : members[i] \in Nat \ {0}
    BY DEF LibraryShape
  <1>3. \A i \in all \ MemberIds : after(i) \in Nat \ {0} /\ after(i) > LastPosition
    BY <1>1, InsertedInTurn
  <1>4. \A i, j \in all \ MemberIds : after(i) = after(j) => i = j
    BY <1>1, InsertedInTurn
  <1>5. AppendNew(ids) = [i \in all |-> IF i \in MemberIds THEN members[i] ELSE after(i)]
    BY DEF AppendNew, AddedAfter
  <1>6. \A i, j \in MemberIds : members[i] = members[j] => i = j
    BY DEF IsInjective, MemberIds
  <1> HIDE DEF after
  <1>7. AppendNew(ids) \in [all -> Nat \ {0}]
    BY <1>2, <1>3, <1>5
  <1>8. IsInjective(AppendNew(ids))
    <2>1. ASSUME NEW i \in all, NEW j \in all, AppendNew(ids)[i] = AppendNew(ids)[j]
          PROVE  i = j
      <3>1. CASE i \in MemberIds /\ j \in MemberIds
        BY <1>5, <1>6, <2>1, <3>1
      <3>2. CASE i \notin MemberIds /\ j \notin MemberIds
        BY <1>4, <1>5, <2>1, <3>2
      <3>3. CASE i \in MemberIds /\ j \notin MemberIds
        BY <1>1, <1>2, <1>3, <1>5, <2>1, <3>3
      <3>4. CASE i \notin MemberIds /\ j \in MemberIds
        BY <1>1, <1>2, <1>3, <1>5, <2>1, <3>4
      <3> QED
        BY <3>1, <3>2, <3>3, <3>4
    <2>2. DOMAIN AppendNew(ids) = all
      BY <1>5
    <2> QED
      BY <2>1, <2>2 DEF IsInjective
  <1>9. IsFiniteSet(Listed(ids))
    <2>1. Len(ids) \in Nat /\ DOMAIN ids = 1..Len(ids) /\ IsFiniteSet(DOMAIN ids)
      BY LenProperties, FS_Interval
    <2>2. ids \in [DOMAIN ids -> Listed(ids)] /\ \A i \in Listed(ids) : \E k \in DOMAIN ids : ids[k] = i
      BY <2>1 DEF Listed
    <2>3. ids \in Surjection(DOMAIN ids, Listed(ids))
      BY <2>2, Fun_IsSurj
    <2> QED
      BY <2>1, <2>3, FS_Surjection
  <1>10. IsFiniteSet(all)
    BY <1>9, FS_Union DEF LibraryShape
  <1> QED
    BY <1>7, <1>8, <1>10

LEMMA LibraryInit == ActionsInit => LibraryInv
  <1> SUFFICES ASSUME ActionsInit PROVE LibraryInv
    OBVIOUS
  <1>1. MemberIds = {} /\ members \in [MemberIds -> Nat \ {0}]
    BY DEF ActionsInit, MemberIds
  <1> QED
    BY <1>1, FS_EmptySet DEF ActionsInit, LibraryInv, LibraryShape, MembersSound, MemberIds, IsInjective

LEMMA WriteLibrary ==
  ASSUME LibraryInv, HandlerInv, NEW t \in Threads, AddSamples(t) PROVE LibraryInv'
  <1> DEFINE ids == request[t].ids
  <1> USE DEF LibraryInv
  <1>1. manager' \in Threads \cup {Free, Poisoned} /\ samples' = samples
    BY DEF AddSamples, Unlock
  <1>2. CASE UNCHANGED members
    BY <1>1, <1>2 DEF LibraryShape, MembersSound, MemberIds
  <1>3. CASE AllExist(t) /\ members' = AppendNew(ids)
    <2>1. ids \in IdLists
      BY DEF HandlerInv, HandlerTypeOK, Request
    <2>2. ids \in Seq(SampleIds) /\ IsInjective(ids)
      BY <2>1, RequestAssumption
    <2>3. /\ members' \in [MemberIds \cup Listed(ids) -> Nat \ {0}]
          /\ IsFiniteSet(MemberIds \cup Listed(ids))
          /\ IsInjective(members')
      BY <1>3, <2>2, AppendKeepsPlaces DEF MembersSound
    <2>4. MemberIds' = MemberIds \cup Listed(ids)
      BY <2>3 DEF MemberIds
    <2>5. MemberIds' \subseteq samples
      BY <1>3, <2>4 DEF AllExist, MembersSound
    <2> QED
      BY <1>1, <2>3, <2>4, <2>5 DEF LibraryShape, MembersSound
  <1> QED
    BY <1>2, <1>3 DEF AddSamples, RollBack

LEMMA LibraryStep == LibraryInv /\ HandlerInv /\ [ActionsNext]_actionsVars => LibraryInv'
  <1> SUFFICES ASSUME LibraryInv, HandlerInv, [ActionsNext]_actionsVars PROVE LibraryInv'
    OBVIOUS
  <1> USE DEF LibraryInv
  <1>1. ASSUME UNCHANGED <<samples, members>>, manager' \in Threads \cup {Free, Poisoned}
        PROVE  LibraryInv'
    BY <1>1 DEF LibraryShape, MembersSound, MemberIds
  <1>2. ASSUME NEW t \in Threads, AddSamples(t) PROVE LibraryInv'
    BY <1>2, WriteLibrary
  <1>3. ASSUME NEW t \in Threads, HandlerStep(t), ~AddSamples(t)
        PROVE  UNCHANGED <<samples, members>> /\ manager' \in Threads \cup {Free, Poisoned}
    BY <1>3 DEF HandlerStep, LockToValidate, LockToWrite, LockManager, ManagerUnavailable,
       ValidateSampleIds, Unlock, Admit, PanicInWrite, Enqueue, Respond, libraryVars, LibraryShape
  <1>4. ASSUME NEW s \in SampleIds, DeleteSample(s) PROVE LibraryInv'
    <2>1. /\ MemberIds' = MemberIds \ {s}
          /\ \A i \in MemberIds' : members'[i] = members[i]
          /\ members' = [i \in MemberIds \ {s} |-> members[i]]
      BY <1>4 DEF DeleteSample, Restrict, MemberIds
    <2>2. IsFiniteSet(MemberIds')
      BY <2>1, FS_Subset DEF LibraryShape
    <2>3. IsInjective(members')
      BY <2>1 DEF IsInjective, MembersSound, MemberIds
    <2>4. members' \in [MemberIds' -> Nat \ {0}]
      BY <2>1 DEF LibraryShape
    <2>5. samples' = samples \ {s} /\ manager' = manager
      BY <1>4 DEF DeleteSample
    <2> QED
      BY <2>1, <2>2, <2>3, <2>4, <2>5 DEF LibraryShape, MembersSound
  <1>5. ASSUME NEW s \in SampleIds, InsertSample(s) PROVE LibraryInv'
    BY <1>5 DEF InsertSample, LibraryShape, MembersSound, MemberIds
  <1>6. CASE Renderer \/ UNCHANGED actionsVars \/ \E t \in Threads, r \in Request : Receive(t, r)
    BY <1>1, <1>6 DEF Renderer, Receive, actionsVars, libraryVars, LibraryShape
  <1> QED
    BY <1>1, <1>2, <1>3, <1>4, <1>5, <1>6 DEF ActionsNext

\* The rows of a collection are finitely many, each of an existing sample and at a
\* place of its own that is a positive number, whatever requests and the interface do.
THEOREM LibraryInvariant == ActionsSpec => []LibraryInv
  BY LibraryInit, LibraryStep, HandlerInvariant, PTL DEF ActionsSpec

\* The collection lists existing samples, each at a place of its own, whatever
\* is deleted and scanned between the validation of a request and its write.
THEOREM MembersKeepPlaces == ActionsSpec => []MembersSound
  <1>1. LibraryInv => MembersSound
    BY DEF LibraryInv
  <1> QED
    BY <1>1, LibraryInvariant, PTL

\* Each variable of the handlers, the library and the queue has its type.
THEOREM ActionsTypes == ActionsSpec => []ActionsTypeOK
  <1>1. LibraryInv /\ HandlerInv /\ QueueInv => ActionsTypeOK
    BY DEF LibraryInv, LibraryShape, MembersSound, HandlerInv, HandlerTypeOK, QueueInv, ActionsTypeOK
  <1> QED
    BY <1>1, LibraryInvariant, HandlerInvariant, QueueSoundUnderHandlers, PTL

-----------------------------------------------------------------------------
(***************************************************************************)
(* The delivery of accepted commands, for every number of producers and    *)
(* renderer instances, every capacity and retry budget, and whichever      *)
(* calls, wakes and handlers fail: the queue is used only as specified, an *)
(* instance completes a command once, and no command is lost silently.     *)
(*                                                                         *)
(* DeliveryInv says what an instance remembers of what it did.  An         *)
(* acknowledgement, also one that outlived its page, is only sent for a    *)
(* command that was completed, and it is completed only when it is not     *)
(* remembered; the ids alone tell, so nothing is said of the batch beyond  *)
(* its head.                                                               *)
(***************************************************************************)

DeliveryShape ==
  /\ phase \in [Renderers -> Phases]
  /\ step \in [Renderers -> DrainSteps]
  /\ DOMAIN batch = Renderers
  /\ listening \in [Renderers -> BOOLEAN]
  /\ drainDue \in [Renderers -> BOOLEAN]
  /\ processed \in [Renderers -> SUBSET Ids]
  /\ completions \in [Renderers -> [Ids -> 0..2]]

\* A drain runs, and is due, in an instance whose page is still there.
DrainsAlive ==
  \A r \in Renderers : step[r] # "none" \/ drainDue[r] \/ listening[r] => Alive(r)

\* What an instance completed it remembers as long as its page lives.
Remembered ==
  \A r \in Renderers, i \in Ids :
    completions[r][i] > 0 => \/ Alive(r) /\ i \in processed[r]
                             \/ phase[r] = "gone"

ProcessedWasCompleted ==
  \A r \in Renderers, i \in Ids : i \in processed[r] => i \in CompletedIds

HandlesTheNew ==
  \A r \in Renderers : step[r] = "handling" => HeadLease(r).id \notin processed[r]

AcksTheCompleted ==
  /\ \A r \in Renderers :
       step[r] = "acking" /\ HeadLease(r).id \in Ids => HeadLease(r).id \in CompletedIds
  /\ \A call \in orphans :
       call.call = "ack" /\ call.id \in Ids => call.id \in CompletedIds

DeliveryInv ==
  /\ DeliveryShape /\ DrainsAlive /\ Remembered /\ ProcessedWasCompleted
  /\ HandlesTheNew /\ AcksTheCompleted /\ OncePerRenderer

LEMMA DeliveryInitInv == Init => DeliveryInv
  <1> SUFFICES ASSUME Init PROVE DeliveryInv
    OBVIOUS
  <1>1. DeliveryShape
    BY DEF Init, DeliveryShape, Phases, DrainSteps
  <1>2. DrainsAlive /\ HandlesTheNew /\ AcksTheCompleted /\ ProcessedWasCompleted
    BY DEF Init, DrainsAlive, HandlesTheNew, AcksTheCompleted, ProcessedWasCompleted
  <1>3. Remembered /\ OncePerRenderer
    BY DEF Init, Remembered, OncePerRenderer
  <1> QED
    BY <1>1, <1>2, <1>3 DEF DeliveryInv

\* Steps that leave memory, batches and settling calls alone.
LEMMA OtherStepInv ==
  ASSUME DeliveryInv, UNCHANGED <<batch, processed, orphans, completions>>,
         phase' \in [Renderers -> Phases], step' \in [Renderers -> DrainSteps],
         listening' \in [Renderers -> BOOLEAN], drainDue' \in [Renderers -> BOOLEAN],
         \A r \in Renderers : step'[r] # "none" \/ drainDue'[r] \/ listening'[r] =>
                                phase'[r] \in {"mounted", "unmounted"},
         \A r \in Renderers : /\ Alive(r) => phase'[r] \in {"mounted", "unmounted"}
                              /\ phase[r] = "gone" => phase'[r] = "gone",
         \A r \in Renderers : step'[r] \in {"handling", "acking"} => step'[r] = step[r]
  PROVE  DeliveryInv'
  <1> USE DEF DeliveryInv, DeliveryShape
  <1>1. DeliveryShape' /\ DrainsAlive'
    BY DEF DrainsAlive, Alive
  <1>2. Remembered' /\ OncePerRenderer' /\ ProcessedWasCompleted'
    BY DEF Remembered, OncePerRenderer, ProcessedWasCompleted, CompletedIds, Alive
  <1>3. HandlesTheNew' /\ AcksTheCompleted'
    BY DEF HandlesTheNew, AcksTheCompleted, CompletedIds, HeadLease
  <1> QED
    BY <1>1, <1>2, <1>3

\* The life of an instance and the producers.
LEMMA LifeInv ==
  ASSUME DeliveryInv,
         \/ \E t \in Threads : TakeSlot(t) \/ GiveUpSlot(t) \/ WakeAfterAccept(t) \/ WakeLost(t)
         \/ \E t \in Threads, c \in Commands : Accept(t, c)
         \/ EmitWake
         \/ \E r \in Renderers : Mount(r) \/ ListenerReady(r) \/ Unmount(r)
         \/ UNCHANGED vars
  PROVE  DeliveryInv'
  <1> USE DEF DeliveryInv, DeliveryShape, DrainsAlive, Alive
  <1>1. ASSUME UNCHANGED <<phase, step, batch, processed, orphans, completions>>,
               (WakeListeners /\ UNCHANGED listening) \/ UNCHANGED <<listening, drainDue>>
        PROVE  DeliveryInv'
    BY <1>1, OtherStepInv DEF WakeListeners
  <1>2. ASSUME NEW r \in Renderers, Mount(r) PROVE DeliveryInv'
    BY <1>2, OtherStepInv DEF Mount, Phases, historyVars
  <1>3. ASSUME NEW r \in Renderers, Unmount(r) PROVE DeliveryInv'
    BY <1>3, OtherStepInv DEF Unmount, Mounted, Phases, historyVars
  <1>4. ASSUME NEW r \in Renderers, ListenerReady(r) PROVE DeliveryInv'
    BY <1>4, OtherStepInv DEF ListenerReady, Mounted, historyVars
  <1> QED
    BY <1>1, <1>2, <1>3, <1>4 DEF TakeSlot, GiveUpSlot, WakeAfterAccept, WakeLost, Accept,
       EmitWake, rendererVars, historyVars, vars

\* A reload takes the memory with the page, and leaves its calls behind.
LEMMA ReloadInv ==
  ASSUME DeliveryInv, Reload PROVE DeliveryInv'
  <1> USE DEF DeliveryInv, DeliveryShape, DrainsAlive, Alive, Reload
  <1> DEFINE left(r) == IF Alive(r) THEN "gone" ELSE phase[r]
  <1>1. \A r \in Renderers : phase'[r] = left(r) /\ left(r) \in Phases
    BY DEF Phases
  <1>2. DeliveryShape' /\ DrainsAlive' /\ HandlesTheNew'
    BY <1>1 DEF DrainSteps, HandlesTheNew, historyVars
  <1>3. Remembered' /\ OncePerRenderer' /\ ProcessedWasCompleted'
    BY <1>1 DEF Remembered, OncePerRenderer, ProcessedWasCompleted, CompletedIds, historyVars
  <1>4. AcksTheCompleted'
    <2>1. ASSUME NEW call \in orphans', call.call = "ack", call.id \in Ids
          PROVE  call.id \in CompletedIds
      <3>1. CASE call \in orphans
        BY <2>1, <3>1 DEF AcksTheCompleted
      <3>2. CASE call \in InTransit
        <4>1. PICK r \in Renderers :
                call = [call |-> IF step[r] = "acking" THEN "ack" ELSE "nack",
                        id |-> HeadLease(r).id]
          BY <3>2 DEF InTransit
        <4>2. step[r] = "acking" /\ call.id = HeadLease(r).id
          BY <2>1, <4>1
        <4> QED
          BY <2>1, <4>2 DEF AcksTheCompleted
      <3> QED
        BY <3>1, <3>2
    <2>2. CompletedIds' = CompletedIds
      BY DEF CompletedIds, historyVars
    <2> QED
      BY <2>1, <2>2 DEF AcksTheCompleted
  <1> QED
    BY <1>2, <1>3, <1>4

\* A handler that completes a lease does so for the first time in its instance.
LEMMA CompleteInv ==
  ASSUME DeliveryInv, NEW r \in Renderers, HandlerCompletes(r) PROVE DeliveryInv'
  <1> DEFINE id == HeadLease(r).id
  <1> USE DEF DeliveryInv, DeliveryShape, DrainsAlive, HandlerCompletes, Remember, Await
  <1>1. \A q \in Renderers, i \in Ids :
          completions'[q][i] = IF q = r /\ i = id
                               THEN IF completions[q][i] < 2 THEN completions[q][i] + 1
                                    ELSE completions[q][i]
                               ELSE completions[q][i]
    OBVIOUS
  <1>2. id \in Ids => completions[r][id] = 0
    <2>1. step[r] = "handling" /\ id \notin processed[r] /\ phase[r] # "gone"
      BY DEF HandlesTheNew, Alive
    <2>2. id \in Ids => completions[r][id] \in 0..2
      OBVIOUS
    <2> QED
      BY <2>1, <2>2 DEF Remembered
  <1>3. DeliveryShape'
    <2>1. \A n \in 0..2 : (IF n < 2 THEN n + 1 ELSE n) \in 0..2
      OBVIOUS
    <2>2. [completions[r] EXCEPT ![id] = IF @ < 2 THEN @ + 1 ELSE @] \in [Ids -> 0..2]
      BY <2>1, ZenonT(40)
    <2>3. completions' \in [Renderers -> [Ids -> 0..2]]
      BY <2>2
    <2> QED
      BY <2>3 DEF DrainSteps
  <1>4. DrainsAlive'
    BY DEF Alive
  <1>5. \A i \in Ids : i \in CompletedIds' <=> i \in CompletedIds \/ i = id
    BY <1>1, <1>2 DEF CompletedIds
  <1>6. Remembered' /\ OncePerRenderer'
    BY <1>1, <1>2 DEF Remembered, OncePerRenderer, Alive
  <1>7. ProcessedWasCompleted'
    BY <1>5 DEF ProcessedWasCompleted
  <1>8. HandlesTheNew'
    BY DEF HandlesTheNew, HeadLease
  <1>9. AcksTheCompleted'
    BY <1>5 DEF AcksTheCompleted, HeadLease
  <1> QED
    BY <1>3, <1>4, <1>6, <1>7, <1>8, <1>9

\* A lease that is remembered is acknowledged, another one is handled.
LEMMA StartLeaseInv ==
  ASSUME DeliveryInv, NEW r \in Renderers, StartLease(r) PROVE DeliveryInv'
  <1> USE DEF DeliveryInv, DeliveryShape, DrainsAlive, StartLease, Await, AfterUnmount
  <1>1. DeliveryShape' /\ DrainsAlive'
    BY DEF DrainSteps, Alive
  <1>2. Remembered' /\ OncePerRenderer' /\ ProcessedWasCompleted'
    BY DEF Remembered, OncePerRenderer, ProcessedWasCompleted, CompletedIds, Alive
  <1>3. HandlesTheNew'
    BY DEF HandlesTheNew, HeadLease
  <1>4. AcksTheCompleted'
    BY DEF AcksTheCompleted, ProcessedWasCompleted, CompletedIds, HeadLease
  <1> QED
    BY <1>1, <1>2, <1>3, <1>4

\* A drain that has claimed, or settled a lease, handles and acknowledges nothing yet.
LEMMA NewBatchInv ==
  ASSUME DeliveryInv, NEW r \in Renderers, NEW what \in {"none", "claimed", "next", "rejecting"},
         step[r] # "none", step' = [step EXCEPT ![r] = what],
         NEW leases, batch' = [batch EXCEPT ![r] = leases],
         UNCHANGED <<phase, listening, drainDue, processed, orphans, completions>>
  PROVE  DeliveryInv'
  <1> USE DEF DeliveryInv, DeliveryShape, DrainsAlive
  <1>1. DeliveryShape' /\ DrainsAlive'
    BY DEF DrainSteps, Alive
  <1>2. Remembered' /\ OncePerRenderer' /\ ProcessedWasCompleted'
    BY DEF Remembered, OncePerRenderer, ProcessedWasCompleted, CompletedIds, Alive
  <1>3. HandlesTheNew'
    BY DEF HandlesTheNew, HeadLease
  <1>4. AcksTheCompleted'
    BY DEF AcksTheCompleted, CompletedIds, HeadLease
  <1> QED
    BY <1>1, <1>2, <1>3, <1>4

LEMMA DrainInv ==
  ASSUME DeliveryInv, NEW r \in Renderers, Drain(r) PROVE DeliveryInv'
  <1>1. CASE StartDrain(r)
    BY <1>1, OtherStepInv DEF StartDrain, Await, historyVars, DrainSteps,
       DeliveryInv, DeliveryShape, DrainsAlive, Alive
  <1>2. CASE ClaimServed(r)
    BY <1>2, NewBatchInv DEF ClaimServed, Await, historyVars
  <1>3. CASE ClaimFails(r) \/ InspectClaim(r) \/ HandlerReturnsLease(r)
    <2>1. PICK what \in {"none", "next", "rejecting", "nacking"} :
            step' = [step EXCEPT ![r] = what]
      BY <1>3 DEF ClaimFails, InspectClaim, HandlerReturnsLease, Await
    <2>2. step[r] # "none" /\ UNCHANGED <<phase, listening, drainDue, batch, processed, orphans, completions>>
      BY <1>3 DEF ClaimFails, InspectClaim, HandlerReturnsLease, historyVars
    <2> QED
      BY <2>1, <2>2, OtherStepInv
      DEF DeliveryInv, DeliveryShape, DrainsAlive, Alive, DrainSteps
  <1>4. CASE StartLease(r)
    BY <1>4, StartLeaseInv
  <1>5. CASE HandlerCompletes(r)
    BY <1>5, CompleteInv
  <1>6. CASE AckServed(r) \/ NackServed(r) \/ SettlementLost(r)
    <2>1. step[r] # "none" /\ NextLease(r)
      BY <1>6 DEF AckServed, NackServed, SettlementLost
    <2> QED
      BY <2>1, NewBatchInv DEF NextLease, Await, historyVars
  <1> QED
    BY <1>1, <1>2, <1>3, <1>4, <1>5, <1>6 DEF Drain

LEMMA DeliveryNextInv == DeliveryInv /\ [Next]_vars => DeliveryInv'
  <1> SUFFICES ASSUME DeliveryInv, [Next]_vars PROVE DeliveryInv'
    OBVIOUS
  <1>1. ASSUME NEW r \in Renderers, Drain(r) PROVE DeliveryInv'
    BY <1>1, DrainInv
  <1>2. ASSUME NEW call \in orphans, OrphanServed(call) \/ OrphanLost(call)
        PROVE  DeliveryInv'
    <2>1. /\ orphans' \subseteq orphans
          /\ UNCHANGED <<phase, listening, drainDue, step, batch, processed, completions>>
      BY <1>2 DEF OrphanServed, OrphanLost, rendererVars, historyVars
    <2> QED
      BY <2>1 DEF DeliveryInv, DeliveryShape, DrainsAlive, Alive, Remembered,
         ProcessedWasCompleted, HandlesTheNew, AcksTheCompleted, OncePerRenderer,
         CompletedIds, HeadLease
  <1>3. CASE Reload
    BY <1>3, ReloadInv
  <1>4. CASE \/ \E t \in Threads : TakeSlot(t) \/ GiveUpSlot(t) \/ WakeAfterAccept(t) \/ WakeLost(t)
             \/ \E t \in Threads, c \in Commands : Accept(t, c)
             \/ EmitWake
             \/ \E r \in Renderers : Mount(r) \/ ListenerReady(r) \/ Unmount(r)
             \/ UNCHANGED vars
    BY <1>4, LifeInv
  <1> QED
    BY <1>1, <1>2, <1>3, <1>4 DEF Next

\* What an instance of the renderer completed it remembers while its page lives, it
\* handles only what it does not remember, and acknowledges only what was completed.
THEOREM DeliveryInvariant == Spec => []DeliveryInv
  BY DeliveryInitInv, DeliveryNextInv, PTL DEF Spec

\* However often a lease is presented again, whatever calls are lost, and whoever
\* nacks it, an instance completes a command at most once.
THEOREM CompletesOnce == Spec => []OncePerRenderer
  <1>1. DeliveryInv => OncePerRenderer
    BY DEF DeliveryInv
  <1> QED
    BY <1>1, DeliveryInvariant, PTL

-----------------------------------------------------------------------------

\* Producers, renderers and calls of dead pages use the queue as it is specified.
LEMMA DrainIsQueueStep ==
  ASSUME NEW r \in Renderers, Drain(r) PROVE [QueueNext]_queueVars
  <1> USE DEF QueueNext
  <1>1. CASE ClaimServed(r) \/ ClaimFails(r)
    BY <1>1 DEF ClaimServed, ClaimFails
  <1>2. CASE AckServed(r) \/ NackServed(r) \/ SettlementLost(r)
    BY <1>2 DEF AckServed, NackServed, SettlementLost, ServeAck, ServeNack
  <1>3. CASE \/ StartDrain(r) \/ InspectClaim(r) \/ StartLease(r)
             \/ HandlerReturnsLease(r) \/ HandlerCompletes(r)
    BY <1>3 DEF StartDrain, InspectClaim, StartLease, HandlerReturnsLease, HandlerCompletes
  <1> QED
    BY <1>1, <1>2, <1>3 DEF Drain

LEMMA DeliveryStepIsQueueStep == [Next]_vars => [QueueNext]_queueVars
  <1> SUFFICES ASSUME [Next]_vars PROVE [QueueNext]_queueVars
    OBVIOUS
  <1>1. ASSUME NEW r \in Renderers, Drain(r) PROVE [QueueNext]_queueVars
    BY <1>1, DrainIsQueueStep
  <1>2. ASSUME NEW call \in orphans, OrphanServed(call) \/ OrphanLost(call)
        PROVE  [QueueNext]_queueVars
    BY <1>2 DEF OrphanServed, OrphanLost, ServeAck, ServeNack, QueueNext
  <1>3. ASSUME NEW t \in Threads, TakeSlot(t) \/ GiveUpSlot(t)
        PROVE  [QueueNext]_queueVars
    BY <1>3 DEF TakeSlot, GiveUpSlot, QueueNext
  <1>4. ASSUME NEW t \in Threads, NEW c \in Commands, Accept(t, c)
        PROVE  [QueueNext]_queueVars
    BY <1>4 DEF Accept, QueueNext
  <1>5. CASE UNCHANGED queueVars
    BY <1>5
  <1> QED
    BY <1>1, <1>2, <1>3, <1>4, <1>5
    DEF Next, WakeAfterAccept, WakeLost, EmitWake, Mount, ListenerReady, Unmount, Reload, vars

\* So the bound and the homes of the commands hold under reloads, lost calls and
\* late calls of dead pages.
THEOREM QueueSoundUnderDelivery == Spec => []QueueInv
  <1>1. Init => QueueInit
    BY DEF Init
  <1>2. Spec => QueueSpec
    BY <1>1, DeliveryStepIsQueueStep, PTL DEF Spec, QueueSpec
  <1> QED
    BY <1>2, QueueInvariant, PTL

-----------------------------------------------------------------------------

\* Of the queue's operations only a settlement takes a command out.
LEMMA OthersKeepCommands ==
  ASSUME QueueInv,
         \/ \E t \in Threads : Reserve(t) \/ CancelReservation(t)
         \/ \E t \in Threads, c \in Commands : Commit(t, c)
         \/ Claim
         \/ \E id \in InFlightIds : Requeue(id)
         \/ UNCHANGED queueVars
  PROVE  OutstandingIds \subseteq OutstandingIds'
  <1> USE DEF OutstandingIds, PendingIds, InFlightIds
  <1>1. CASE (\E t \in Threads : Reserve(t) \/ CancelReservation(t)) \/ UNCHANGED queueVars
    BY <1>1 DEF Reserve, CancelReservation, queueVars
  <1>2. ASSUME NEW t \in Threads, NEW c \in Commands, Commit(t, c)
        PROVE  OutstandingIds \subseteq OutstandingIds'
    <2>1. [id |-> next_id, command |-> c, retries |-> 0] \in QueuedUiCommand
      BY QueueAssumption DEF QueueInv, QueueTypeOK, QueuedUiCommand
    <2>2. \A k \in DOMAIN pending : k \in DOMAIN pending' /\ pending'[k] = pending[k]
      BY <1>2, <2>1, AppendProperties, LenProperties DEF Commit, QueueInv, QueueTypeOK
    <2> QED
      BY <1>2, <2>2 DEF Commit
  <1>3. CASE Claim
    BY <1>3, ClaimedProperties DEF Claim, QueueInv
  <1>4. ASSUME NEW id \in InFlightIds, Requeue(id)
        PROVE  OutstandingIds \subseteq OutstandingIds'
    <2> DEFINE entry == [in_flight[id] EXCEPT !.retries = @ + 1]
    <2>1. entry \in QueuedUiCommand /\ entry.id = id
      BY <1>4, ReturnedEntry DEF Requeue, QueueInv, QueueTypeOK, OneHome
    <2>2. /\ pending' \in Seq(QueuedUiCommand)
          /\ Len(pending') = Len(pending) + 1
          /\ pending'[1] = entry
          /\ \A k \in 1..Len(pending) : pending'[k + 1] = pending[k]
      BY <1>4, <2>1, PrependProperties DEF Requeue, QueueInv, QueueTypeOK
    <2>3. /\ Len(pending) \in Nat /\ DOMAIN pending = 1..Len(pending)
          /\ DOMAIN pending' = 1..(Len(pending) + 1)
      BY <2>2, LenProperties DEF QueueInv, QueueTypeOK
    <2> HIDE DEF entry
    <2>4. id \in PendingIds'
      BY <2>1, <2>2, <2>3
    <2>5. \A k \in DOMAIN pending : pending[k].id \in PendingIds'
      <3>1. \A k \in DOMAIN pending : k + 1 \in DOMAIN pending' /\ pending'[k + 1] = pending[k]
        BY <2>2, <2>3
      <3> QED
        BY <3>1
    <2>6. InFlightIds' = InFlightIds \ {id}
      BY <1>4 DEF Requeue, WithoutLease
    <2> QED
      BY <2>4, <2>5, <2>6
  <1> QED
    BY <1>1, <1>2, <1>3, <1>4

LEMMA AckTakesItsOwn ==
  ASSUME NEW id, ServeAck(id), NEW i \in OutstandingIds \ OutstandingIds'
  PROVE  i = id
  BY DEF ServeAck, Acknowledge, WithoutLease, OutstandingIds, PendingIds, InFlightIds, queueVars

LEMMA NackGivesUpAtTheLimit ==
  ASSUME QueueInv, NEW id, ServeNack(id), NEW i \in OutstandingIds \ OutstandingIds'
  PROVE  i \in InFlightIds /\ in_flight[i].retries = MaxRetries
  <1>1. id \in InFlightIds /\ Discard(id)
    BY OthersKeepCommands DEF ServeNack, Nack
  <1>2. i = id
    BY <1>1 DEF Discard, WithoutLease, OutstandingIds, PendingIds, InFlightIds
  <1>3. in_flight[id].retries \in 0..MaxRetries
    BY <1>1 DEF QueueInv, QueueTypeOK, QueuedUiCommand
  <1> QED
    BY <1>1, <1>2, <1>3, QueueAssumption DEF Discard

\* An id that can still be given out is below the bound.
IdsBounded == next_id + reserved <= MaxCommands

LEMMA IdsStayBounded ==
  ASSUME QueueInv, IdsBounded, [QueueNext]_queueVars PROVE IdsBounded'
  <1>1. next_id \in Nat /\ reserved \in Nat
    BY DEF QueueInv, QueueTypeOK
  <1>2. ASSUME NEW t \in Threads, Reserve(t) \/ CancelReservation(t) PROVE IdsBounded'
    BY <1>1, <1>2, QueueAssumption DEF IdsBounded, Reserve, CancelReservation
  <1>3. ASSUME NEW t \in Threads, NEW c \in Commands, Commit(t, c) PROVE IdsBounded'
    BY <1>1, <1>3, QueueAssumption DEF IdsBounded, Commit
  <1>4. CASE UNCHANGED <<next_id, reserved>>
    BY <1>4 DEF IdsBounded
  <1> QED
    BY <1>2, <1>3, <1>4 DEF QueueNext, Claim, Acknowledge, Nack, Discard, Requeue, queueVars

\* An id that can still be given out, promised slots counted, is below the bound.
THEOREM IdsInvariant == Spec => []IdsBounded
  <1>1. Init => IdsBounded
    BY QueueAssumption DEF Init, QueueInit, IdsBounded
  <1>2. QueueInv /\ IdsBounded /\ [Next]_vars => IdsBounded'
    BY DeliveryStepIsQueueStep, IdsStayBounded
  <1> QED
    BY <1>1, <1>2, QueueSoundUnderDelivery, PTL DEF Spec

LossAllowed ==
  \A i \in OutstandingIds \ OutstandingIds' :
    \/ i \in CompletedIds
    \/ i \in InFlightIds /\ in_flight[i].retries = MaxRetries

LEMMA LossStep ==
  ASSUME QueueInv, IdsBounded, DeliveryInv, [Next]_vars PROVE LossAllowed
  <1> SUFFICES ASSUME NEW i \in OutstandingIds \ OutstandingIds'
               PROVE  \/ i \in CompletedIds
                      \/ i \in InFlightIds /\ in_flight[i].retries = MaxRetries
    BY DEF LossAllowed
  <1>1. i \in Ids
    <2>1. i \in Nat /\ i < next_id
      BY IdsAreNumbers DEF QueueInv, OneHome
    <2> QED
      BY <2>1, QueueAssumption DEF IdsBounded, Ids, QueueInv, QueueTypeOK
  <1>2. ASSUME NEW r \in Renderers, AckServed(r) PROVE i \in CompletedIds
    BY <1>1, <1>2, AckTakesItsOwn DEF AckServed, DeliveryInv, AcksTheCompleted
  <1>3. ASSUME NEW call \in orphans, call.call = "ack", OrphanServed(call)
        PROVE  i \in CompletedIds
    BY <1>1, <1>3, AckTakesItsOwn DEF OrphanServed, DeliveryInv, AcksTheCompleted
  <1>4. ASSUME NEW id, ServeNack(id)
        PROVE  i \in InFlightIds /\ in_flight[i].retries = MaxRetries
    BY <1>4, NackGivesUpAtTheLimit
  <1>5. CASE \/ \E t \in Threads : Reserve(t) \/ CancelReservation(t)
             \/ \E t \in Threads, c \in Commands : Commit(t, c)
             \/ Claim
             \/ UNCHANGED queueVars
    BY <1>5, OthersKeepCommands
  <1>6. ASSUME NEW r \in Renderers, Drain(r)
        PROVE  \/ AckServed(r) \/ ServeNack(HeadLease(r).id)
               \/ Claim \/ UNCHANGED queueVars
    BY <1>6 DEF Drain, StartDrain, ClaimServed, ClaimFails, InspectClaim, StartLease,
       HandlerReturnsLease, HandlerCompletes, NackServed, SettlementLost
  <1>7. ASSUME NEW call \in orphans, OrphanServed(call) \/ OrphanLost(call)
        PROVE  \/ call.call = "ack" /\ OrphanServed(call)
               \/ ServeNack(call.id) \/ UNCHANGED queueVars
    BY <1>7 DEF OrphanServed, OrphanLost
  <1>8. ASSUME NEW t \in Threads, TakeSlot(t) \/ GiveUpSlot(t)
        PROVE  Reserve(t) \/ CancelReservation(t)
    BY <1>8 DEF TakeSlot, GiveUpSlot
  <1>9. ASSUME NEW t \in Threads, NEW c \in Commands, Accept(t, c) PROVE Commit(t, c)
    BY <1>9 DEF Accept
  <1>10. ASSUME NEW t \in Threads, WakeAfterAccept(t) \/ WakeLost(t)
         PROVE  UNCHANGED queueVars
    BY <1>10 DEF WakeAfterAccept, WakeLost
  <1>11. ASSUME NEW r \in Renderers, Mount(r) \/ ListenerReady(r) \/ Unmount(r)
         PROVE  UNCHANGED queueVars
    BY <1>11 DEF Mount, ListenerReady, Unmount
  <1>12. CASE EmitWake \/ Reload \/ UNCHANGED vars
    BY <1>5, <1>12 DEF EmitWake, Reload, vars
  <1>13. ASSUME NEW r \in Renderers, Drain(r)
         PROVE  \/ i \in CompletedIds
                \/ i \in InFlightIds /\ in_flight[i].retries = MaxRetries
    BY <1>2, <1>4, <1>5, <1>6, <1>13
  <1>14. ASSUME NEW call \in orphans, OrphanServed(call) \/ OrphanLost(call)
         PROVE  \/ i \in CompletedIds
                \/ i \in InFlightIds /\ in_flight[i].retries = MaxRetries
    BY <1>3, <1>4, <1>5, <1>7, <1>14
  <1> QED
    BY <1>5, <1>8, <1>9, <1>10, <1>11, <1>12, <1>13, <1>14 DEF Next

\* An accepted command leaves the queue only when an instance has completed it, or
\* when it was handed back once more than the retry budget allows.
THEOREM NothingLostSilently == Spec => NoSilentLoss
  BY LossStep, QueueSoundUnderDelivery, IdsInvariant, DeliveryInvariant, PTL
  DEF Spec, NoSilentLoss, LossAllowed
-----------------------------------------------------------------------------

(***************************************************************************)
(* The order of admission.  A claim presents every command that is out in  *)
(* the order of the ids, and a mounted instance settles its leases from    *)
(* the front: so what is older than a lease and still out was started, or  *)
(* is before it in the batch.  Other instances and calls of dead pages     *)
(* only take commands out meanwhile, and a new command has the newest id.  *)
(***************************************************************************)

AtHead == {"handling", "acking", "nacking"}

BatchShape ==
  /\ batch \in [Renderers -> Seq(Lease)]
  /\ \A r \in Renderers :
       /\ step[r] \in {"next", "rejecting"} \cup AtHead => batch[r] # << >>
       /\ phase[r] = "unborn" => batch[r] = << >>

SmallShape ==
  /\ waking \subseteq Threads
  /\ orphans \subseteq Settlement
  /\ started \subseteq Ids

StartedIsOld == \A j \in started : j < next_id

ProcessedWasStarted == \A r \in Renderers : processed[r] \subseteq started

HeadWasStarted ==
  \A r \in Renderers :
    /\ step[r] \in {"handling", "acking"} => HeadLease(r).id \in started
    /\ step[r] = "nacking" /\ Mounted(r) => HeadLease(r).id \in started
    /\ step[r] = "rejecting" => ~Mounted(r)

\* What is older than a lease of the batch is before it, or was started.
OlderFirst(r) ==
  \A k \in DOMAIN batch[r] :
    /\ batch[r][k].id < next_id
    /\ \A i \in OutstandingIds :
         i < batch[r][k].id =>
           \/ i \in started
           \/ \E m \in 1..(k - 1) : batch[r][m].id = i

BatchesInOrder == \A r \in Renderers : Mounted(r) => OlderFirst(r)

OrderInv ==
  /\ BatchShape /\ SmallShape /\ StartedIsOld /\ ProcessedWasStarted
  /\ HeadWasStarted /\ BatchesInOrder /\ AdmissionOrder

\* What a BTreeMap of finitely many ids presents: each goes to its rank.
LEMMA InOrderProperties ==
  ASSUME NEW ids \in SUBSET Nat, IsFiniteSet(ids)
  PROVE  /\ Cardinality(ids) \in Nat
         /\ InOrder(ids) \in [1..Cardinality(ids) -> ids]
         /\ \A a, b \in 1..Cardinality(ids) : a < b => InOrder(ids)[a] < InOrder(ids)[b]
         /\ \A x \in ids : \E k \in 1..Cardinality(ids) : InOrder(ids)[k] = x
  <1> DEFINE n == Cardinality(ids)
  <1>1. n \in Nat
    BY FS_CardinalityType
  <1>2. PICK rank \in [ids -> 1..n] :
          /\ \A x, y \in ids : x < y => rank[x] < rank[y]
          /\ \A k \in 1..n : \E x \in ids : rank[x] = k
    BY FiniteRanks
  <1> DEFINE s == [k \in 1..n |-> CHOOSE x \in ids : rank[x] = k]
  <1>3. ASSUME NEW k \in 1..n PROVE s[k] \in ids /\ rank[s[k]] = k
    <2>1. s[k] = CHOOSE x \in ids : rank[x] = k
      OBVIOUS
    <2> HIDE DEF s
    <2> QED
      BY <1>2, <2>1
  <1>4. ASSUME NEW a \in 1..n, NEW b \in 1..n, a < b PROVE s[a] < s[b]
    <2>1. s[a] \in Nat /\ s[b] \in Nat /\ rank[s[a]] = a /\ rank[s[b]] = b
      BY <1>3
    <2> HIDE DEF s
    <2>2. s[b] < s[a] => b < a
      BY <1>2, <1>3, <2>1
    <2>3. s[a] # s[b]
      BY <1>4, <2>1
    <2> QED
      BY <1>1, <1>4, <2>1, <2>2, <2>3
  <1>5. s \in [1..n -> ids]
    BY <1>3
  <1>6. /\ InOrder(ids) \in [1..n -> ids]
        /\ \A a, b \in 1..n : a < b => InOrder(ids)[a] < InOrder(ids)[b]
    <2> HIDE DEF s
    <2> QED
      BY <1>4, <1>5 DEF InOrder
  <1> DEFINE f == InOrder(ids)
  <1>7. f \in Surjection(1..n, ids)
    <2> HIDE DEF f
    <2>1. ASSUME NEW a \in 1..n, NEW b \in 1..n, f[a] = f[b] PROVE a = b
      <3>1. f \in [1..n -> ids] /\ a \in Nat /\ b \in Nat
        BY <1>1, <1>6, <2>1 DEF f
      <3>2. f[a] \in Nat
        BY <2>1, <3>1
      <3>3. ~(a < b) /\ ~(b < a)
        BY <1>6, <2>1, <3>1, <3>2 DEF f
      <3> QED
        BY <3>1, <3>3
    <2>2. f \in Injection(1..n, ids)
      BY <1>6, <2>1, Fun_IsInj DEF f
    <2>3. Cardinality(1..n) = n
      BY <1>1, FS_Interval
    <2> QED
      BY <2>2, <2>3, FS_Injection
  <1> QED
    BY <1>1, <1>6, <1>7, Fun_SurjectionProperties

LEMMA ClaimedLeasesProperties ==
  ASSUME QueueInv, IdsBounded
  PROVE  /\ ClaimedLeases \in Seq(Lease)
         /\ \A k \in DOMAIN ClaimedLeases :
              /\ ClaimedLeases[k].id \in OutstandingIds
              /\ \A i \in OutstandingIds :
                   i < ClaimedLeases[k].id => \E m \in 1..(k - 1) : ClaimedLeases[m].id = i
  <1> DEFINE n == Cardinality(OutstandingIds)
             ids == InOrder(OutstandingIds)
             lease(k) == [id |-> ids[k], command |-> ClaimedInFlight[ids[k]].command]
  <1>1. OutstandingIds \subseteq Nat /\ IsFiniteSet(OutstandingIds)
    BY IdsAreNumbers, OutstandingSize DEF QueueInv
  <1>2. /\ n \in Nat
        /\ ids \in [1..n -> OutstandingIds]
        /\ \A a, b \in 1..n : a < b => ids[a] < ids[b]
        /\ \A x \in OutstandingIds : \E k \in 1..n : ids[k] = x
    BY <1>1, InOrderProperties
  <1> HIDE DEF n, ids
  <1>3. ClaimedLeases = [k \in 1..n |-> lease(k)]
    BY <1>2 DEF ClaimedLeases, Leases, ids
  <1>4. ASSUME NEW k \in 1..n PROVE lease(k) \in Lease
    <2>1. ids[k] \in OutstandingIds
      BY <1>2
    <2>2. ClaimedInFlight[ids[k]].command \in Commands
      BY <2>1, ClaimedProperties DEF QueueInv, QueuedUiCommand
    <2>3. ids[k] \in Ids
      <3>1. ids[k] \in Nat /\ ids[k] < next_id
        BY <1>1, <2>1 DEF QueueInv, OneHome
      <3> QED
        BY <3>1, QueueAssumption DEF IdsBounded, Ids, QueueInv, QueueTypeOK
    <2> QED
      BY <2>2, <2>3 DEF Lease
  <1>5. ClaimedLeases \in Seq(Lease)
    BY <1>2, <1>3, <1>4, IsASeq
  <1>6. ASSUME NEW k \in 1..n, NEW i \in OutstandingIds, i < ids[k]
        PROVE  \E m \in 1..(k - 1) : ids[m] = i
    <2>1. PICK m \in 1..n : ids[m] = i
      BY <1>2
    <2>2. i \in Nat /\ ids[k] \in Nat
      BY <1>1, <1>2
    <2>3. ~(k < m) /\ k # m
      BY <1>2, <1>6, <2>1, <2>2
    <2>4. m \in 1..(k - 1)
      BY <1>2, <2>3
    <2> QED
      BY <2>1, <2>4
  <1>7. ASSUME NEW k \in DOMAIN ClaimedLeases
        PROVE  /\ ClaimedLeases[k].id \in OutstandingIds
               /\ \A i \in OutstandingIds :
                    i < ClaimedLeases[k].id => \E m \in 1..(k - 1) : ClaimedLeases[m].id = i
    <2>1. k \in 1..n /\ ClaimedLeases[k].id = ids[k]
      BY <1>3, <1>7
    <2>2. \A m \in 1..(k - 1) : ClaimedLeases[m].id = ids[m]
      BY <1>2, <1>3, <2>1
    <2>3. ASSUME NEW i \in OutstandingIds, i < ClaimedLeases[k].id
          PROVE  \E m \in 1..(k - 1) : ClaimedLeases[m].id = i
      <3>1. PICK m \in 1..(k - 1) : ids[m] = i
        BY <1>6, <2>1, <2>3
      <3> QED
        BY <2>2, <3>1
    <2> QED
      BY <1>2, <2>1, <2>3
  <1> QED
    BY <1>5, <1>7

\* Of the queue's operations only a commit brings a command in, under a new id.
LEMMA OnlyCommitsBringIn ==
  ASSUME QueueInv, [QueueNext]_queueVars
  PROVE  /\ next_id \in Nat /\ next_id' \in Nat /\ next_id <= next_id'
         /\ \A i \in OutstandingIds' : i \in OutstandingIds \/ i = next_id
  <1> USE DEF OutstandingIds, PendingIds, InFlightIds
  <1>0. next_id \in Nat
    BY DEF QueueInv, QueueTypeOK
  <1>1. CASE (\E t \in Threads : Reserve(t) \/ CancelReservation(t)) \/ UNCHANGED queueVars
    BY <1>0, <1>1 DEF Reserve, CancelReservation, queueVars
  <1>2. ASSUME NEW t \in Threads, NEW c \in Commands, Commit(t, c)
        PROVE  /\ next_id' = next_id + 1
               /\ \A i \in OutstandingIds' : i \in OutstandingIds \/ i = next_id
    <2>1. [id |-> next_id, command |-> c, retries |-> 0] \in QueuedUiCommand
      BY <1>0, QueueAssumption DEF QueuedUiCommand
    <2>2. \A k \in DOMAIN pending' :
            (k \in DOMAIN pending /\ pending'[k] = pending[k]) \/ pending'[k].id = next_id
      BY <1>2, <2>1, AppendProperties, LenProperties DEF Commit, QueueInv, QueueTypeOK
    <2> QED
      BY <1>2, <2>2 DEF Commit
  <1>3. CASE Claim
    BY <1>0, <1>3, ClaimedProperties DEF Claim, QueueInv
  <1>4. ASSUME NEW id \in InFlightIds, Acknowledge(id) \/ Discard(id)
        PROVE  next_id' = next_id /\ OutstandingIds' \subseteq OutstandingIds
    BY <1>4 DEF Acknowledge, Discard, WithoutLease
  <1>5. ASSUME NEW id \in InFlightIds, Requeue(id)
        PROVE  next_id' = next_id /\ OutstandingIds' \subseteq OutstandingIds
    <2> DEFINE entry == [in_flight[id] EXCEPT !.retries = @ + 1]
    <2>1. entry \in QueuedUiCommand /\ entry.id = id
      BY <1>5, ReturnedEntry DEF Requeue, QueueInv, QueueTypeOK, OneHome
    <2>2. /\ Len(pending') = Len(pending) + 1
          /\ pending' \in Seq(QueuedUiCommand)
          /\ pending'[1] = entry
          /\ \A k \in 1..Len(pending) : pending'[k + 1] = pending[k]
      BY <1>5, <2>1, PrependProperties DEF Requeue, QueueInv, QueueTypeOK
    <2> HIDE DEF entry
    <2>3. /\ Len(pending) \in Nat /\ DOMAIN pending = 1..Len(pending)
          /\ DOMAIN pending' = 1..(Len(pending) + 1)
      BY <2>2, LenProperties DEF QueueInv, QueueTypeOK
    <2>4. ASSUME NEW k \in DOMAIN pending'
          PROVE  pending'[k].id = id \/ pending'[k].id \in PendingIds
      <3>1. k = 1 \/ (k - 1 \in 1..Len(pending) /\ pending'[(k - 1) + 1] = pending[k - 1])
        BY <2>2, <2>3
      <3>2. k # 1 => pending'[k] = pending[k - 1] /\ k - 1 \in DOMAIN pending
        BY <2>3, <3>1
      <3> QED
        BY <2>1, <2>2, <3>2
    <2> QED
      BY <1>5, <2>4 DEF Requeue, WithoutLease
  <1> QED
    BY <1>0, <1>1, <1>2, <1>3, <1>4, <1>5 DEF QueueNext, Nack

\* Steps that leave the batches alone, and start no command.
LEMMA OrderFrame ==
  ASSUME OrderInv, QueueInv, [QueueNext]_queueVars, UNCHANGED <<batch, started>>,
         waking' \subseteq Threads, orphans' \subseteq Settlement,
         \A r \in Renderers : processed'[r] \subseteq started,
         \A r \in Renderers :
           /\ step'[r] \in {"next", "rejecting"} \cup AtHead => batch[r] # << >>
           /\ phase'[r] = "unborn" => phase[r] = "unborn"
           /\ step'[r] \in {"handling", "acking"} => HeadLease(r).id \in started
           /\ step'[r] = "nacking" /\ phase'[r] = "mounted" => HeadLease(r).id \in started
           /\ step'[r] = "rejecting" => phase'[r] # "mounted"
           /\ phase'[r] = "mounted" => Mounted(r) \/ phase[r] = "unborn"
  PROVE  OrderInv'
  <1> USE DEF OrderInv
  <1>1. BatchShape' /\ SmallShape'
    BY DEF BatchShape, SmallShape
  <1>2. /\ next_id \in Nat /\ next_id' \in Nat /\ next_id <= next_id'
        /\ \A i \in OutstandingIds' : i \in OutstandingIds \/ i = next_id
    BY OnlyCommitsBringIn
  <1>3. StartedIsOld' /\ AdmissionOrder'
    <2>1. \A j \in started : j \in Nat /\ j < next_id
      BY DEF StartedIsOld, SmallShape, Ids
    <2> QED
      BY <1>2, <2>1 DEF StartedIsOld, AdmissionOrder
  <1>4. ProcessedWasStarted' /\ HeadWasStarted'
    BY DEF ProcessedWasStarted, HeadWasStarted, Mounted, HeadLease
  <1>5. ASSUME NEW r \in Renderers, phase'[r] = "mounted" PROVE OlderFirst(r)'
    <2>1. CASE phase[r] = "unborn"
      BY <2>1 DEF OlderFirst, BatchShape
    <2>2. CASE Mounted(r)
      <3>1. OlderFirst(r)
        BY <2>2 DEF BatchesInOrder
      <3>2. \A k \in DOMAIN batch[r] : batch[r][k].id \in Nat
        <4>1. batch[r] \in Seq(Lease)
          BY DEF BatchShape
        <4>2. \A k \in DOMAIN batch[r] : batch[r][k] \in Lease
          BY <4>1, LenProperties, ElementOfSeq
        <4> QED
          BY <4>2 DEF Lease, Ids
      <3> QED
        BY <1>2, <3>1, <3>2 DEF OlderFirst
    <2> QED
      BY <1>5, <2>1, <2>2
  <1>6. BatchesInOrder'
    BY <1>5 DEF BatchesInOrder, Mounted
  <1> QED
    BY <1>1, <1>3, <1>4, <1>6

LEMMA OrderInit == Init => OrderInv
  <1> SUFFICES ASSUME Init PROVE OrderInv
    OBVIOUS
  <1>1. BatchShape /\ SmallShape
    BY EmptySeq DEF Init, BatchShape, SmallShape, AtHead
  <1>2. StartedIsOld /\ ProcessedWasStarted /\ HeadWasStarted /\ AdmissionOrder
    BY DEF Init, StartedIsOld, ProcessedWasStarted, HeadWasStarted, AdmissionOrder, Mounted
  <1>3. BatchesInOrder
    BY DEF Init, BatchesInOrder, Mounted
  <1> QED
    BY <1>1, <1>2, <1>3 DEF OrderInv

LEMMA OrderLife ==
  ASSUME OrderInv, DeliveryInv, QueueInv, [QueueNext]_queueVars,
         \/ \E t \in Threads : TakeSlot(t) \/ GiveUpSlot(t) \/ WakeAfterAccept(t) \/ WakeLost(t)
         \/ \E t \in Threads, c \in Commands : Accept(t, c)
         \/ EmitWake
         \/ \E r \in Renderers : Mount(r) \/ ListenerReady(r) \/ Unmount(r)
         \/ \E call \in orphans : OrphanServed(call) \/ OrphanLost(call)
         \/ UNCHANGED vars
  PROVE  OrderInv'
  <1> USE DEF OrderInv
  <1>1. UNCHANGED <<step, batch, processed, started>>
    BY DEF TakeSlot, GiveUpSlot, WakeAfterAccept, WakeLost, Accept, EmitWake, Mount,
       ListenerReady, Unmount, OrphanServed, OrphanLost, rendererVars, historyVars, vars
  <1>2. waking' \subseteq Threads /\ orphans' \subseteq Settlement
    BY DEF SmallShape, TakeSlot, GiveUpSlot, WakeAfterAccept, WakeLost, Accept, EmitWake,
       Mount, ListenerReady, Unmount, OrphanServed, OrphanLost, rendererVars, historyVars, vars
  <1>3. \A r \in Renderers :
          \/ phase'[r] = phase[r]
          \/ phase'[r] = "mounted" /\ phase[r] = "unborn"
          \/ phase'[r] = "unmounted" /\ phase[r] = "mounted"
    <2>1. ASSUME NEW q \in Renderers, Mount(q)
          PROVE  \A r \in Renderers : r # q => phase'[r] = phase[r]
      BY <2>1 DEF Mount, DeliveryInv, DeliveryShape
    <2>2. ASSUME NEW q \in Renderers, Mount(q)
          PROVE  phase'[q] = "mounted" /\ phase[q] = "unborn"
      BY <2>2 DEF Mount, DeliveryInv, DeliveryShape
    <2>3. ASSUME NEW q \in Renderers, Unmount(q)
          PROVE  \A r \in Renderers : r # q => phase'[r] = phase[r]
      BY <2>3 DEF Unmount, DeliveryInv, DeliveryShape
    <2>4. ASSUME NEW q \in Renderers, Unmount(q)
          PROVE  phase'[q] = "unmounted" /\ phase[q] = "mounted"
      BY <2>4 DEF Unmount, Mounted, DeliveryInv, DeliveryShape
    <2>5. \/ \E q \in Renderers : Mount(q) \/ Unmount(q)
          \/ UNCHANGED phase
      BY DEF TakeSlot, GiveUpSlot, WakeAfterAccept, WakeLost, Accept, EmitWake,
         ListenerReady, OrphanServed, OrphanLost, rendererVars, vars
    <2> QED
      BY <2>1, <2>2, <2>3, <2>4, <2>5
  <1>4. \A r \in Renderers : phase[r] = "unborn" => step[r] = "none"
    BY DEF DeliveryInv, DrainsAlive, Alive
  <1>5. \A r \in Renderers :
          /\ step'[r] \in {"next", "rejecting"} \cup AtHead => batch[r] # << >>
          /\ phase'[r] = "unborn" => phase[r] = "unborn"
          /\ step'[r] \in {"handling", "acking"} => HeadLease(r).id \in started
          /\ step'[r] = "nacking" /\ phase'[r] = "mounted" => HeadLease(r).id \in started
          /\ step'[r] = "rejecting" => phase'[r] # "mounted"
          /\ phase'[r] = "mounted" => Mounted(r) \/ phase[r] = "unborn"
    BY <1>1, <1>3, <1>4 DEF BatchShape, HeadWasStarted, Mounted
  <1>6. \A r \in Renderers : processed'[r] \subseteq started
    BY <1>1 DEF ProcessedWasStarted
  <1> QED
    BY <1>1, <1>2, <1>5, <1>6, OrderFrame

LEMMA OrderReload ==
  ASSUME OrderInv, DeliveryInv, Reload PROVE OrderInv'
  <1> USE DEF OrderInv, Reload
  <1>0. /\ UNCHANGED <<queueVars, waking, started>>
        /\ \A r \in Renderers : /\ batch'[r] = << >> /\ step'[r] = "none"
                               /\ processed'[r] = {} /\ phase'[r] # "mounted"
    BY DEF historyVars, Alive
  <1>1. BatchShape'
    BY <1>0, EmptySeq DEF BatchShape, AtHead
  <1>2. SmallShape'
    <2>1. ASSUME NEW r \in Renderers, step[r] \in {"acking", "nacking", "rejecting"}
          PROVE  HeadLease(r).id \in Ids
      <3>1. batch[r] \in Seq(Lease) /\ batch[r] # << >>
        BY <2>1 DEF BatchShape, AtHead
      <3>2. Head(batch[r]) \in Lease
        BY <3>1, HeadTailProperties
      <3> QED
        BY <3>2 DEF HeadLease, Lease
    <2>2. InTransit \subseteq Settlement
      BY <2>1 DEF InTransit, Settlement
    <2> QED
      BY <1>0, <2>2 DEF SmallShape
  <1>3. StartedIsOld' /\ ProcessedWasStarted' /\ AdmissionOrder' /\ OutstandingIds' = OutstandingIds
    BY <1>0 DEF StartedIsOld, ProcessedWasStarted, AdmissionOrder, queueVars,
       OutstandingIds, PendingIds, InFlightIds
  <1>4. HeadWasStarted' /\ BatchesInOrder'
    BY <1>0 DEF HeadWasStarted, BatchesInOrder, Mounted
  <1> QED
    BY <1>1, <1>2, <1>3, <1>4

\* Steps of a drain that keep its leases.
LEMMA OrderKeepsLeases ==
  ASSUME OrderInv, DeliveryInv, QueueInv, [QueueNext]_queueVars, NEW r \in Renderers,
         \/ StartDrain(r) \/ ClaimFails(r) \/ InspectClaim(r)
         \/ HandlerReturnsLease(r) \/ HandlerCompletes(r)
  PROVE  OrderInv'
  <1> USE DEF OrderInv
  <1>0. DOMAIN step = Renderers /\ DOMAIN processed = Renderers
    BY DEF DeliveryInv, DeliveryShape
  <1>1. UNCHANGED <<batch, started, waking, orphans, phase>>
    BY DEF StartDrain, ClaimFails, InspectClaim, HandlerReturnsLease, HandlerCompletes, historyVars
  <1>2. \A q \in Renderers : q # r => step'[q] = step[q]
    BY <1>0 DEF StartDrain, ClaimFails, InspectClaim, HandlerReturnsLease, HandlerCompletes, Await
  <1>3. \/ step'[r] \in {"claiming", "none"}
        \/ step'[r] = "next" /\ batch[r] # << >>
        \/ step'[r] = "rejecting" /\ batch[r] # << >> /\ ~Mounted(r)
        \/ step'[r] \in {"nacking", "acking"} /\ step[r] = "handling"
    BY <1>0 DEF StartDrain, ClaimFails, InspectClaim, HandlerReturnsLease, HandlerCompletes, Await
  <1>4. \A q \in Renderers :
          /\ step'[q] \in {"next", "rejecting"} \cup AtHead => batch[q] # << >>
          /\ step'[q] \in {"handling", "acking"} => HeadLease(q).id \in started
          /\ step'[q] = "nacking" /\ Mounted(q) => HeadLease(q).id \in started
          /\ step'[q] = "rejecting" => ~Mounted(q)
    <2>1. ASSUME NEW q \in Renderers, q # r
          PROVE  /\ step'[q] \in {"next", "rejecting"} \cup AtHead => batch[q] # << >>
                 /\ step'[q] \in {"handling", "acking"} => HeadLease(q).id \in started
                 /\ step'[q] = "nacking" /\ Mounted(q) => HeadLease(q).id \in started
                 /\ step'[q] = "rejecting" => ~Mounted(q)
      BY <1>2, <2>1 DEF BatchShape, HeadWasStarted
    <2>2. /\ step'[r] \in {"next", "rejecting"} \cup AtHead => batch[r] # << >>
          /\ step'[r] \in {"handling", "acking"} => HeadLease(r).id \in started
          /\ step'[r] = "nacking" /\ Mounted(r) => HeadLease(r).id \in started
          /\ step'[r] = "rejecting" => ~Mounted(r)
      BY <1>3 DEF BatchShape, HeadWasStarted, AtHead
    <2> QED
      BY <2>1, <2>2
  <1>5. \A q \in Renderers : processed'[q] \subseteq started
    <2>1. CASE HandlerCompletes(r)
      <3>1. HeadLease(r).id \in started
        BY <2>1 DEF HandlerCompletes, HeadWasStarted
      <3>2. \A q \in Renderers :
              processed'[q] = IF q = r THEN processed[q] \cup {HeadLease(r).id} ELSE processed[q]
        BY <1>0, <2>1 DEF HandlerCompletes, Remember
      <3> QED
        BY <3>1, <3>2 DEF ProcessedWasStarted
    <2>2. CASE UNCHANGED processed
      BY <2>2 DEF ProcessedWasStarted
    <2> QED
      BY <2>1, <2>2 DEF StartDrain, ClaimFails, InspectClaim, HandlerReturnsLease
  <1>6. waking' \subseteq Threads /\ orphans' \subseteq Settlement
    BY <1>1 DEF SmallShape
  <1>7. \A q \in Renderers : phase'[q] = phase[q]
    BY <1>1
  <1> QED
    BY <1>1, <1>4, <1>5, <1>6, <1>7, OrderFrame DEF Mounted

\* A claim is answered in the order of the ids, and complete.
LEMMA OrderClaim ==
  ASSUME OrderInv, DeliveryInv, QueueInv, IdsBounded, NEW r \in Renderers, ClaimServed(r)
  PROVE  OrderInv'
  <1> USE DEF OrderInv
  <1>0. DOMAIN step = Renderers /\ DOMAIN batch = Renderers
    BY DEF DeliveryInv, DeliveryShape
  <1>1. /\ batch' = [batch EXCEPT ![r] = ClaimedLeases]
        /\ step' = [step EXCEPT ![r] = "claimed"]
        /\ UNCHANGED <<waking, phase, processed, orphans, started, next_id>>
    BY DEF ClaimServed, Await, historyVars, Claim
  <1>2. OutstandingIds' = OutstandingIds
    BY ClaimedProperties
    DEF ClaimServed, Claim, OutstandingIds, PendingIds, InFlightIds, QueueInv
  <1>3. /\ ClaimedLeases \in Seq(Lease)
        /\ \A k \in DOMAIN ClaimedLeases :
              /\ ClaimedLeases[k].id \in OutstandingIds
              /\ \A i \in OutstandingIds :
                   i < ClaimedLeases[k].id => \E m \in 1..(k - 1) : ClaimedLeases[m].id = i
    BY ClaimedLeasesProperties
  <1>4. BatchShape'
    <2>1. batch' \in [Renderers -> Seq(Lease)]
      BY <1>0, <1>1, <1>3 DEF BatchShape
    <2>2. phase[r] # "unborn"
      BY DEF ClaimServed, DeliveryInv, DrainsAlive, Alive
    <2> QED
      BY <1>0, <1>1, <2>1, <2>2 DEF BatchShape, AtHead
  <1>5. SmallShape' /\ StartedIsOld' /\ ProcessedWasStarted' /\ AdmissionOrder'
    BY <1>1, <1>2 DEF SmallShape, StartedIsOld, ProcessedWasStarted, AdmissionOrder
  <1>6. HeadWasStarted'
    BY <1>0, <1>1 DEF HeadWasStarted, Mounted, HeadLease, AtHead
  <1>7. ASSUME NEW q \in Renderers, Mounted(q) PROVE OlderFirst(q)'
    <2>1. CASE q = r
      <3>1. batch'[q] = ClaimedLeases
        BY <1>0, <1>1, <2>1
      <3>2. \A i \in OutstandingIds : i < next_id
        BY DEF QueueInv, OneHome
      <3> HIDE DEF OrderInv
      <3> QED
        BY <1>1, <1>2, <1>3, <3>1, <3>2 DEF OlderFirst
    <2>2. CASE q # r
      BY <1>0, <1>1, <1>2, <1>7, <2>2 DEF BatchesInOrder, OlderFirst
    <2> QED
      BY <2>1, <2>2
  <1>8. BatchesInOrder'
    BY <1>1, <1>7 DEF BatchesInOrder, Mounted
  <1> QED
    BY <1>4, <1>5, <1>6, <1>8

\* What is older than the first lease of a batch was started.
LEMMA OrderStart ==
  ASSUME OrderInv, DeliveryInv, QueueInv, NEW r \in Renderers, StartLease(r)
  PROVE  OrderInv'
  <1> DEFINE id == HeadLease(r).id
  <1> USE DEF OrderInv
  <1>0. DOMAIN step = Renderers
    BY DEF DeliveryInv, DeliveryShape
  <1>1. /\ UNCHANGED <<waking, phase, batch, processed, orphans, next_id>>
        /\ OutstandingIds' = OutstandingIds
        /\ step[r] = "next" /\ batch[r] # << >> /\ batch[r] \in Seq(Lease)
    BY DEF StartLease, queueVars, OutstandingIds, PendingIds, InFlightIds, BatchShape
  <1>2. id = batch[r][1].id /\ id \in Ids /\ 1 \in DOMAIN batch[r]
    <2>1. Head(batch[r]) \in Lease
      BY <1>1, HeadTailProperties
    <2>2. Len(batch[r]) \in Nat /\ Len(batch[r]) # 0 /\ DOMAIN batch[r] = 1..Len(batch[r])
      BY <1>1, LenProperties, EmptySeq
    <2>3. Head(batch[r]) = batch[r][1]
      BY <1>1
    <2> QED
      BY <2>1, <2>2, <2>3 DEF HeadLease, Lease
  <1>3. /\ \A q \in Renderers : q # r => step'[q] = step[q]
        /\ \/ ~Mounted(r) /\ step'[r] = "nacking" /\ started' = started
           \/ id \in processed[r] /\ step'[r] = "acking" /\ started' = started
           \/ Mounted(r) /\ step'[r] = "handling" /\ started' = started \cup {id}
    BY <1>0 DEF StartLease, Await, AfterUnmount
  <1> HIDE DEF id
  <1>4. started \subseteq started' /\ started' \subseteq Ids
    BY <1>2, <1>3 DEF SmallShape
  <1>5. BatchShape' /\ SmallShape'
    BY <1>0, <1>1, <1>3, <1>4 DEF BatchShape, SmallShape
  <1>6. ProcessedWasStarted'
    BY <1>1, <1>4 DEF ProcessedWasStarted
  <1>7. HeadWasStarted'
    <2>1. ASSUME NEW q \in Renderers, q # r
          PROVE  /\ step'[q] \in {"handling", "acking"} => HeadLease(q).id \in started'
                 /\ step'[q] = "nacking" /\ Mounted(q) => HeadLease(q).id \in started'
                 /\ step'[q] = "rejecting" => ~Mounted(q)
      BY <1>3, <1>4, <2>1 DEF HeadWasStarted
    <2>2. /\ step'[r] \in {"handling", "acking"} => id \in started'
          /\ step'[r] = "nacking" => ~Mounted(r)
          /\ step'[r] # "rejecting"
      BY <1>3 DEF ProcessedWasStarted
    <2> QED
      BY <1>1, <2>1, <2>2 DEF HeadWasStarted, Mounted, HeadLease, id
  <1>8. id \in started' \ started =>
          id < next_id /\ \A i \in OutstandingIds : i < id => i \in started
    <2>1. ASSUME Mounted(r)
          PROVE  id < next_id /\ \A i \in OutstandingIds : i < id => i \in started
      <3>1. OlderFirst(r)
        BY <2>1 DEF BatchesInOrder
      <3>2. batch[r][1].id < next_id
        BY <1>2, <3>1 DEF OlderFirst
      <3>3. ASSUME NEW i \in OutstandingIds, i < batch[r][1].id PROVE i \in started
        BY <1>2, <3>1, <3>3 DEF OlderFirst
      <3> QED
        BY <1>2, <3>2, <3>3
    <2> QED
      BY <1>3, <2>1
  <1>9. StartedIsOld' /\ AdmissionOrder'
    BY <1>1, <1>3, <1>4, <1>8 DEF StartedIsOld, AdmissionOrder
  <1>10. BatchesInOrder'
    BY <1>1, <1>4 DEF BatchesInOrder, OlderFirst, Mounted
  <1> QED
    BY <1>5, <1>6, <1>7, <1>9, <1>10

\* A settled lease was started, or its instance is no longer mounted.
LEMMA OrderSettle ==
  ASSUME OrderInv, DeliveryInv, QueueInv, [QueueNext]_queueVars, NEW r \in Renderers,
         AckServed(r) \/ NackServed(r) \/ SettlementLost(r)
  PROVE  OrderInv'
  <1> USE DEF OrderInv
  <1>0. DOMAIN step = Renderers /\ DOMAIN batch = Renderers
    BY DEF DeliveryInv, DeliveryShape
  <1>1. /\ UNCHANGED <<waking, phase, processed, orphans, started>>
        /\ step[r] \in {"acking", "nacking", "rejecting"}
        /\ batch' = [batch EXCEPT ![r] = Tail(@)]
        /\ step' = [step EXCEPT ![r] = IF Len(batch[r]) = 1 THEN "none"
                                       ELSE IF step[r] = "rejecting" THEN "rejecting" ELSE "next"]
    BY DEF AckServed, NackServed, SettlementLost, NextLease, Await, historyVars
  <1>2. /\ batch[r] # << >> /\ batch[r] \in Seq(Lease) /\ phase[r] # "unborn"
    BY <1>1 DEF BatchShape, AtHead, DeliveryInv, DrainsAlive, Alive
  <1>3. /\ Tail(batch[r]) \in Seq(Lease)
        /\ Len(Tail(batch[r])) = Len(batch[r]) - 1
        /\ \A k \in 1..Len(Tail(batch[r])) : Tail(batch[r])[k] = batch[r][k + 1]
    BY <1>2, HeadTailProperties
  <1>4. Len(batch[r]) \in Nat /\ DOMAIN batch[r] = 1..Len(batch[r]) /\ Len(batch[r]) # 0
    BY <1>2, LenProperties, EmptySeq
  <1>5. DOMAIN Tail(batch[r]) = 1..(Len(batch[r]) - 1)
    BY <1>3, LenProperties
  <1>6. BatchShape'
    <2>1. batch' \in [Renderers -> Seq(Lease)]
      BY <1>0, <1>1, <1>3 DEF BatchShape
    <2>2. Len(batch[r]) # 1 => Tail(batch[r]) # << >>
      <3>1. Len(batch[r]) # 1 => Len(Tail(batch[r])) # 0
        BY <1>3, <1>4
      <3> QED
        BY <1>3, <3>1, EmptySeq
    <2> QED
      BY <1>0, <1>1, <1>2, <2>1, <2>2 DEF BatchShape, AtHead
  <1>7. SmallShape' /\ ProcessedWasStarted'
    BY <1>1 DEF SmallShape, ProcessedWasStarted
  <1>8. HeadWasStarted'
    BY <1>0, <1>1 DEF HeadWasStarted, Mounted, HeadLease
  <1>9. /\ next_id \in Nat /\ next_id' \in Nat /\ next_id <= next_id'
        /\ \A i \in OutstandingIds' : i \in OutstandingIds \/ i = next_id
    BY OnlyCommitsBringIn
  <1>10. StartedIsOld' /\ AdmissionOrder'
    <2>1. \A j \in started : j \in Nat /\ j < next_id
      BY DEF StartedIsOld, SmallShape, Ids
    <2> QED
      BY <1>1, <1>9, <2>1 DEF StartedIsOld, AdmissionOrder
  <1>11. ASSUME NEW q \in Renderers, Mounted(q) PROVE OlderFirst(q)'
    <2>0. OlderFirst(q)
      BY <1>11 DEF BatchesInOrder
    <2>1. \A k \in DOMAIN batch[q] : batch[q][k].id \in Nat
      <3>1. batch[q] \in Seq(Lease)
        BY DEF BatchShape
      <3>2. \A k \in DOMAIN batch[q] : batch[q][k] \in Lease
        BY <3>1, LenProperties, ElementOfSeq
      <3> QED
        BY <3>2 DEF Lease, Ids
    <2>2. CASE q # r
      <3>1. batch'[q] = batch[q]
        BY <1>0, <1>1, <2>2
      <3>2. ASSUME NEW k \in DOMAIN batch'[q]
            PROVE  /\ batch'[q][k].id < next_id'
                   /\ \A i \in OutstandingIds' :
                        i < batch'[q][k].id =>
                          \/ i \in started
                          \/ \E m \in 1..(k - 1) : batch'[q][m].id = i
        <4> HIDE DEF OrderInv
        <4> QED
          BY <1>9, <2>0, <2>1, <3>1, <3>2 DEF OlderFirst
      <3> QED
        BY <1>1, <3>2 DEF OlderFirst
    <2>3. CASE q = r
      <3>1. batch'[q] = Tail(batch[q]) /\ HeadLease(q).id \in started /\ HeadLease(q) = batch[q][1]
        BY <1>0, <1>1, <1>2, <1>11, <2>3 DEF HeadWasStarted, HeadLease
      <3>2. ASSUME NEW k \in DOMAIN batch'[q]
            PROVE  /\ batch'[q][k].id < next_id'
                   /\ \A i \in OutstandingIds' :
                        i < batch'[q][k].id =>
                          \/ i \in started'
                          \/ \E m \in 1..(k - 1) : batch'[q][m].id = i
        <4>1. /\ k \in 1..(Len(batch[q]) - 1) /\ k + 1 \in DOMAIN batch[q]
              /\ batch'[q][k] = batch[q][k + 1]
          BY <1>3, <1>4, <1>5, <2>3, <3>1, <3>2
        <4>2. batch[q][k + 1].id < next_id /\ batch[q][k + 1].id \in Nat
          BY <2>0, <2>1, <4>1 DEF OlderFirst
        <4>3. ASSUME NEW i \in OutstandingIds', i < batch'[q][k].id, i \notin started
              PROVE  \E m \in 1..(k - 1) : batch'[q][m].id = i
          <5>1. i \in OutstandingIds
            BY <1>9, <4>1, <4>2, <4>3
          <5>2. PICK m \in 1..k : batch[q][m].id = i
            BY <2>0, <4>1, <4>3, <5>1 DEF OlderFirst
          <5>3. m # 1
            BY <3>1, <4>3, <5>2
          <5>4. m - 1 \in 1..(k - 1) /\ m - 1 \in 1..(Len(batch[q]) - 1)
            BY <4>1, <5>3
          <5>5. batch'[q][m - 1] = batch[q][(m - 1) + 1] /\ (m - 1) + 1 = m
            BY <1>3, <2>3, <3>1, <5>4
          <5> QED
            BY <5>2, <5>4, <5>5
        <4>4. batch'[q][k].id < next_id'
          <5> HIDE DEF OrderInv
          <5> QED
            BY <1>9, <4>1, <4>2
        <4> QED
          BY <1>1, <4>3, <4>4
      <3> QED
        BY <3>2 DEF OlderFirst
    <2> QED
      BY <2>2, <2>3
  <1>12. BatchesInOrder'
    BY <1>1, <1>11 DEF BatchesInOrder, Mounted
  <1> QED
    BY <1>6, <1>7, <1>8, <1>10, <1>12

LEMMA OrderStep ==
  OrderInv /\ DeliveryInv /\ QueueInv /\ IdsBounded /\ [Next]_vars => OrderInv'
  <1> SUFFICES ASSUME OrderInv, DeliveryInv, QueueInv, IdsBounded, [Next]_vars
               PROVE  OrderInv'
    OBVIOUS
  <1>1. [QueueNext]_queueVars
    BY DeliveryStepIsQueueStep
  <1>2. ASSUME NEW r \in Renderers, Drain(r) PROVE OrderInv'
    BY <1>1, <1>2, OrderKeepsLeases, OrderClaim, OrderStart, OrderSettle DEF Drain
  <1>3. CASE Reload
    BY <1>3, OrderReload
  <1>4. CASE \/ \E t \in Threads : TakeSlot(t) \/ GiveUpSlot(t) \/ WakeAfterAccept(t) \/ WakeLost(t)
             \/ \E t \in Threads, c \in Commands : Accept(t, c)
             \/ EmitWake
             \/ \E r \in Renderers : Mount(r) \/ ListenerReady(r) \/ Unmount(r)
             \/ \E call \in orphans : OrphanServed(call) \/ OrphanLost(call)
             \/ UNCHANGED vars
    BY <1>1, <1>4, OrderLife
  <1> QED
    BY <1>2, <1>3, <1>4 DEF Next

\* Whatever is older than a lease in the batch of a mounted instance, and still out, was
\* started or is before it in the batch; so commands start in the order of their ids.
THEOREM OrderInvariant == Spec => []OrderInv
  BY OrderInit, OrderStep, DeliveryInvariant, QueueSoundUnderDelivery, IdsInvariant, PTL DEF Spec

\* Commands are started in the order they were accepted, through nacks that put
\* leases back one by one, lost calls and the changes of the instance that drains.
THEOREM StartedAsAccepted == Spec => []AdmissionOrder
  <1>1. OrderInv => AdmissionOrder
    BY DEF OrderInv
  <1> QED
    BY <1>1, OrderInvariant, PTL

\* Each variable of the delivery has its type; a batch holds only leases whose ids
\* are below the bound, also after calls of dead pages.
THEOREM DeliveryTypes == Spec => []DeliveryTypeOK
  <1>1. OrderInv /\ DeliveryInv /\ QueueInv => DeliveryTypeOK
    BY DEF OrderInv, BatchShape, SmallShape, DeliveryInv, DeliveryShape, QueueInv, DeliveryTypeOK
  <1> QED
    BY <1>1, OrderInvariant, DeliveryInvariant, QueueSoundUnderDelivery, PTL
===============================================================================
