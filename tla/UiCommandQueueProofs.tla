------------------------ MODULE UiCommandQueueProofs ------------------------
(***************************************************************************)
(* QueueInv is an inductive invariant of the UI command queue, for every   *)
(* set of threads and commands, every capacity and every retry budget.     *)
(*                                                                         *)
(* Its conjuncts need one another.  The capacity bound survives a claim    *)
(* because each id has one home, so that moving the deque into the lease   *)
(* map adds up; it survives a commit because the reservation that is given *)
(* up is one the counter knows.                                            *)
(***************************************************************************)
EXTENDS UiCommandQueue, FiniteSetTheorems, FunctionTheorems,
        SequenceTheorems, TLAPS

\* An entry put back at the front of the deque shifts the others by one.
LEMMA PrependProperties ==
  ASSUME NEW S, NEW s \in Seq(S), NEW e \in S
  PROVE  /\ <<e>> \o s \in Seq(S)
         /\ Len(<<e>> \o s) = Len(s) + 1
         /\ (<<e>> \o s)[1] = e
         /\ \A k \in 1..Len(s) : (<<e>> \o s)[k + 1] = s[k]
  <1>1. <<e>> \in Seq(S) /\ Len(<<e>>) = 1 /\ <<e>>[1] = e
    OBVIOUS
  <1>2. Len(s) \in Nat
    BY LenProperties
  <1> QED
    BY <1>1, <1>2, ConcatProperties

\* Finitely many numbers have ranks: how many of them are not larger.
LEMMA FiniteRanks ==
  ASSUME NEW ids \in SUBSET Nat, IsFiniteSet(ids)
  PROVE  \E rank \in [ids -> 1..Cardinality(ids)] :
           /\ \A x, y \in ids : x < y => rank[x] < rank[y]
           /\ \A k \in 1..Cardinality(ids) : \E x \in ids : rank[x] = k
  <1> DEFINE n == Cardinality(ids)
             upTo(x) == {y \in ids : y <= x}
             rank == [x \in ids |-> Cardinality(upTo(x))]
  <1>1. n \in Nat
    BY FS_CardinalityType
  <1>2. ASSUME NEW x \in ids PROVE IsFiniteSet(upTo(x)) /\ rank[x] \in 1..n
    <2>1. upTo(x) \in SUBSET ids /\ x \in upTo(x)
      OBVIOUS
    <2>2. IsFiniteSet(upTo(x)) /\ Cardinality(upTo(x)) \in Nat /\ Cardinality(upTo(x)) <= n
      BY <2>1, FS_Subset, FS_CardinalityType
    <2>3. Cardinality(upTo(x)) # 0
      BY <2>1, <2>2, FS_EmptySet
    <2> QED
      BY <1>1, <2>2, <2>3
  <1>3. ASSUME NEW x \in ids, NEW y \in ids, x < y PROVE rank[x] < rank[y]
    <2>1. \A z \in ids : (z <= x => z <= y) /\ y <= y /\ ~(y <= x)
      BY <1>3
    <2>2. upTo(x) \in SUBSET upTo(y) /\ y \in upTo(y) /\ y \notin upTo(x)
      BY <2>1
    <2>3. Cardinality(upTo(x)) <= Cardinality(upTo(y))
          /\ Cardinality(upTo(x)) # Cardinality(upTo(y))
      BY <1>2, <2>2, FS_Subset
    <2> QED
      BY <1>2, <2>3
  <1>4. rank \in Injection(ids, 1..n)
    <2>1. \A x, y \in ids : rank[x] = rank[y] => x = y
      BY <1>2, <1>3
    <2> QED
      BY <1>2, <2>1, Fun_IsInj
  <1>5. rank \in Surjection(ids, 1..n)
    BY <1>1, <1>4, FS_Injection, FS_Interval
  <1>6. rank \in [ids -> 1..n]
    BY <1>2
  <1> HIDE DEF rank
  <1>7. \A k \in 1..n : \E x \in ids : rank[x] = k
    BY <1>5, Fun_SurjectionProperties
  <1> QED
    BY <1>3, <1>6, <1>7

\* So they have a largest, if there are any.
LEMMA FiniteMaximum ==
  ASSUME NEW ids \in SUBSET Nat, IsFiniteSet(ids), ids # {}
  PROVE  \E p \in ids : \A q \in ids : q <= p
  <1> DEFINE n == Cardinality(ids)
  <1>1. n \in Nat /\ n # 0
    BY FS_CardinalityType, FS_EmptySet
  <1>2. PICK rank \in [ids -> 1..n] :
          /\ \A x, y \in ids : x < y => rank[x] < rank[y]
          /\ \A k \in 1..n : \E x \in ids : rank[x] = k
    BY FiniteRanks
  <1> HIDE DEF n
  <1>3. n \in 1..n
    BY <1>1
  <1>4. PICK p \in ids : rank[p] = n
    BY <1>2, <1>3
  <1>5. \A q \in ids : q <= p
    BY <1>1, <1>2, <1>4
  <1> QED
    BY <1>5

LEMMA IdsAreNumbers ==
  ASSUME QueueTypeOK
  PROVE  OutstandingIds \subseteq Nat
  <1>1. ASSUME NEW k \in DOMAIN pending PROVE pending[k].id \in Nat
    <2>1. pending[k] \in QueuedUiCommand
      BY ElementOfSeq, LenProperties DEF QueueTypeOK
    <2> QED
      BY <2>1 DEF QueuedUiCommand
  <1> QED
    BY <1>1 DEF OutstandingIds, PendingIds, QueueTypeOK

\* The ids in the deque are as many as its entries.
LEMMA PendingIdsSize ==
  ASSUME QueueTypeOK, OneHome
  PROVE  IsFiniteSet(PendingIds) /\ Cardinality(PendingIds) = Len(pending)
  <1> DEFINE idAt == [k \in 1..Len(pending) |-> pending[k].id]
  <1>1. /\ Len(pending) \in Nat
        /\ DOMAIN pending = 1..Len(pending)
    BY LenProperties DEF QueueTypeOK
  <1>2. idAt \in Bijection(1..Len(pending), PendingIds)
    <2>1. idAt \in [1..Len(pending) -> PendingIds]
      BY <1>1 DEF PendingIds
    <2>2. \A j, k \in 1..Len(pending) : idAt[j] = idAt[k] => j = k
      BY <1>1 DEF OneHome
    <2>3. \A i \in PendingIds : \E k \in 1..Len(pending) : idAt[k] = i
      BY <1>1 DEF PendingIds
    <2> QED
      BY <2>1, <2>2, <2>3, Fun_IsBij
  <1>3. ExistsBijection(1..Len(pending), PendingIds)
    BY <1>2 DEF ExistsBijection
  <1>4. Cardinality(PendingIds) = Len(pending)
    BY <1>1, <1>3, FS_CountingElements
  <1>5. IsFiniteSet(PendingIds)
    BY <1>1, <1>3, FS_NatBijection
  <1> QED
    BY <1>4, <1>5

\* Deque and lease map share no id, so their sizes add up.
LEMMA OutstandingSize ==
  ASSUME QueueTypeOK, OneHome
  PROVE  /\ IsFiniteSet(OutstandingIds)
         /\ Cardinality(OutstandingIds) = Len(pending) + Cardinality(InFlightIds)
  <1>1. IsFiniteSet(InFlightIds) /\ PendingIds \cap InFlightIds = {}
    BY DEF QueueTypeOK, OneHome
  <1>2. IsFiniteSet(PendingIds) /\ Cardinality(PendingIds) = Len(pending)
    BY PendingIdsSize
  <1>3. Cardinality(InFlightIds) \in Nat /\ Len(pending) \in Nat
    BY <1>1, FS_CardinalityType, LenProperties DEF QueueTypeOK
  <1>4. Cardinality(PendingIds \cap InFlightIds) = 0
    BY <1>1, FS_EmptySet
  <1>5. /\ IsFiniteSet(PendingIds \cup InFlightIds)
        /\ Cardinality(PendingIds \cup InFlightIds) =
             Cardinality(PendingIds) + Cardinality(InFlightIds)
               - Cardinality(PendingIds \cap InFlightIds)
    BY <1>1, <1>2, FS_Union
  <1> QED
    BY <1>2, <1>3, <1>4, <1>5 DEF OutstandingIds

-----------------------------------------------------------------------------

LEMMA QueueInitInv == QueueInit => QueueInv
  <1> SUFFICES ASSUME QueueInit PROVE QueueInv
    OBVIOUS
  <1>1. PendingIds = {} /\ InFlightIds = {} /\ Len(pending) = 0
    BY DEF QueueInit, PendingIds, InFlightIds
  <1>2. QueueTypeOK
    BY <1>1, FS_EmptySet DEF QueueInit, QueueTypeOK, InFlightIds
  <1>3. CapacityBound /\ ReservationsAccounted
    BY <1>1, FS_EmptySet, QueueAssumption
    DEF QueueInit, CapacityBound, QueueSize, ReservationsAccounted
  <1>4. OneHome
    BY <1>1 DEF QueueInit, OneHome, OutstandingIds
  <1> QED
    BY <1>2, <1>3, <1>4 DEF QueueInv

LEMMA ReserveInv ==
  ASSUME QueueInv, NEW t \in Threads, Reserve(t)
  PROVE  QueueInv'
  <1> USE DEF QueueInv
  <1>1. IsFiniteSet(reservations)
    BY QueueAssumption, FS_Subset DEF QueueTypeOK
  <1>2. QueueTypeOK'
    BY DEF Reserve, QueueTypeOK, InFlightIds
  <1>3. CapacityBound'
    <2>1. Len(pending) \in Nat /\ Cardinality(InFlightIds) \in Nat
      BY LenProperties, FS_CardinalityType DEF QueueTypeOK
    <2> QED
      BY <2>1, QueueAssumption
      DEF Reserve, QueueFull, CapacityBound, QueueSize, QueueTypeOK, InFlightIds
  <1>4. ReservationsAccounted'
    BY <1>1, FS_AddElement DEF Reserve, ReservationsAccounted
  <1>5. OneHome'
    BY DEF Reserve, OneHome, PendingIds, InFlightIds, OutstandingIds
  <1> QED
    BY <1>2, <1>3, <1>4, <1>5

LEMMA CancelInv ==
  ASSUME QueueInv, NEW t \in Threads, CancelReservation(t)
  PROVE  QueueInv'
  <1> USE DEF QueueInv
  <1>1. IsFiniteSet(reservations)
    BY QueueAssumption, FS_Subset DEF QueueTypeOK
  <1>2. ReservationsAccounted' /\ reserved' \in Nat
    <2>1. Cardinality(reservations \ {t}) = Cardinality(reservations) - 1
      BY <1>1, FS_RemoveElement DEF CancelReservation
    <2>2. Cardinality(reservations \ {t}) \in Nat
      BY <1>1, FS_RemoveElement, FS_CardinalityType
    <2> QED
      BY <2>1, <2>2 DEF CancelReservation, ReservationsAccounted
  <1>3. QueueTypeOK'
    BY <1>2 DEF CancelReservation, QueueTypeOK, InFlightIds
  <1>4. CapacityBound'
    <2>1. Len(pending) \in Nat /\ Cardinality(InFlightIds) \in Nat
      BY LenProperties, FS_CardinalityType DEF QueueTypeOK
    <2> QED
      BY <2>1, QueueAssumption
      DEF CancelReservation, CapacityBound, QueueSize, QueueTypeOK, InFlightIds
  <1>5. OneHome'
    BY DEF CancelReservation, OneHome, PendingIds, InFlightIds, OutstandingIds
  <1> QED
    BY <1>2, <1>3, <1>4, <1>5

\* The committed entry takes an id above every id that is out.
LEMMA CommitInv ==
  ASSUME QueueInv, NEW t \in Threads, NEW c \in Commands, Commit(t, c)
  PROVE  QueueInv'
  <1> USE DEF QueueInv
  <1> DEFINE entry == [id |-> next_id, command |-> c, retries |-> 0]
  <1>1. IsFiniteSet(reservations)
    BY QueueAssumption, FS_Subset DEF QueueTypeOK
  <1>2. entry \in QueuedUiCommand /\ entry.id = next_id
    BY QueueAssumption DEF QueueTypeOK, QueuedUiCommand
  <1>3. /\ pending' \in Seq(QueuedUiCommand)
        /\ Len(pending') = Len(pending) + 1
        /\ \A k \in 1..Len(pending) : pending'[k] = pending[k]
        /\ pending'[Len(pending) + 1] = entry
    BY <1>2, AppendProperties DEF Commit, QueueTypeOK
  <1>4. ReservationsAccounted' /\ reserved' \in Nat /\ reserved' = reserved - 1
    <2>1. Cardinality(reservations \ {t}) = Cardinality(reservations) - 1
      BY <1>1, FS_RemoveElement DEF Commit
    <2>2. Cardinality(reservations \ {t}) \in Nat
      BY <1>1, FS_RemoveElement, FS_CardinalityType
    <2> QED
      BY <2>1, <2>2 DEF Commit, ReservationsAccounted
  <1>5. QueueTypeOK'
    BY <1>3, <1>4 DEF Commit, QueueTypeOK, InFlightIds
  <1>6. CapacityBound'
    <2>1. Len(pending) \in Nat /\ Cardinality(InFlightIds) \in Nat
      BY LenProperties, FS_CardinalityType DEF QueueTypeOK
    <2> QED
      BY <2>1, <1>3, <1>4, QueueAssumption
      DEF Commit, CapacityBound, QueueSize, QueueTypeOK, InFlightIds
  <1>7. OneHome'
    <2>1. /\ Len(pending) \in Nat
          /\ DOMAIN pending = 1..Len(pending)
          /\ DOMAIN pending' = 1..(Len(pending) + 1)
      BY <1>3, LenProperties DEF QueueTypeOK
    <2>2. PendingIds' = PendingIds \cup {next_id}
      BY <1>2, <1>3, <2>1 DEF PendingIds
    <2>3. InFlightIds' = InFlightIds /\ in_flight' = in_flight
      BY DEF Commit, InFlightIds
    <2>4. next_id' = next_id + 1 /\ next_id \in Nat
      BY DEF Commit, QueueTypeOK
    <2>5. \A i \in OutstandingIds : i \in Nat /\ i < next_id
      BY IdsAreNumbers DEF OneHome
    <2>6. \A k \in 1..Len(pending) : pending[k].id \in OutstandingIds
      BY <2>1 DEF OutstandingIds, PendingIds
    <2>7. ASSUME NEW j \in DOMAIN pending', NEW k \in DOMAIN pending',
                 pending'[j].id = pending'[k].id
          PROVE  j = k
      <3>1. CASE j \in 1..Len(pending) /\ k \in 1..Len(pending)
        BY <3>1, <1>3, <2>1, <2>7 DEF OneHome
      <3>2. CASE j = Len(pending) + 1 \/ k = Len(pending) + 1
        BY <3>2, <1>2, <1>3, <2>1, <2>4, <2>5, <2>6, <2>7
      <3> QED
        BY <3>1, <3>2, <2>1
    <2>8. PendingIds' \cap InFlightIds' = {}
      BY <2>2, <2>3, <2>4, <2>5 DEF OneHome, OutstandingIds
    <2>9. \A i \in OutstandingIds' : i < next_id'
      BY <2>2, <2>3, <2>4, <2>5 DEF OutstandingIds
    <2> QED
      BY <2>3, <2>7, <2>8, <2>9 DEF OneHome
  <1> QED
    BY <1>4, <1>5, <1>6, <1>7

\* What the claimed lease map holds: each id with the entry it had.
LEMMA ClaimedProperties ==
  ASSUME QueueTypeOK, OneHome
  PROVE  /\ DOMAIN ClaimedInFlight = OutstandingIds
         /\ \A i \in OutstandingIds :
              ClaimedInFlight[i] \in QueuedUiCommand /\ ClaimedInFlight[i].id = i
  <1>1. DOMAIN ClaimedInFlight = OutstandingIds
    BY DEF ClaimedInFlight
  <1>2. ASSUME NEW i \in PendingIds
        PROVE  /\ ClaimedInFlight[i] \in QueuedUiCommand
               /\ ClaimedInFlight[i].id = i
    <2> DEFINE k == CHOOSE k \in DOMAIN pending : pending[k].id = i
    <2>1. k \in DOMAIN pending /\ pending[k].id = i
      BY DEF PendingIds
    <2>2. ClaimedInFlight[i] = pending[k]
      BY DEF ClaimedInFlight, OutstandingIds
    <2>3. pending[k] \in QueuedUiCommand
      BY <2>1, ElementOfSeq, LenProperties DEF QueueTypeOK
    <2> QED
      BY <2>1, <2>2, <2>3
  <1>3. ASSUME NEW i \in InFlightIds, i \notin PendingIds
        PROVE  /\ ClaimedInFlight[i] \in QueuedUiCommand
               /\ ClaimedInFlight[i].id = i
    <2>1. ClaimedInFlight[i] = in_flight[i]
      BY <1>3 DEF ClaimedInFlight, OutstandingIds
    <2> QED
      BY <2>1 DEF QueueTypeOK, OneHome
  <1> QED
    BY <1>1, <1>2, <1>3 DEF OutstandingIds

LEMMA ClaimInv ==
  ASSUME QueueInv, Claim
  PROVE  QueueInv'
  <1> USE DEF QueueInv
  <1>1. pending' = << >> /\ PendingIds' = {} /\ Len(pending') = 0
    BY DEF Claim, PendingIds
  <1>2. in_flight' = ClaimedInFlight /\ InFlightIds' = OutstandingIds
    BY ClaimedProperties DEF Claim, InFlightIds
  <1>3. in_flight' \in [InFlightIds' -> QueuedUiCommand]
    BY <1>2, ClaimedProperties DEF ClaimedInFlight
  <1>4. QueueTypeOK'
    BY <1>1, <1>2, <1>3, IdsAreNumbers, OutstandingSize, EmptySeq
    DEF Claim, QueueTypeOK
  <1>5. CapacityBound'
    <2>1. Cardinality(InFlightIds') = Len(pending) + Cardinality(InFlightIds)
      BY <1>2, OutstandingSize
    <2>2. Len(pending) \in Nat /\ Cardinality(InFlightIds) \in Nat
      BY LenProperties, FS_CardinalityType DEF QueueTypeOK
    <2> QED
      BY <1>1, <2>1, <2>2 DEF Claim, CapacityBound, QueueSize, QueueTypeOK
  <1>6. ReservationsAccounted'
    BY DEF Claim, ReservationsAccounted
  <1>7. OneHome'
    <2>1. \A i \in InFlightIds' : in_flight'[i].id = i
      BY <1>2, ClaimedProperties
    <2>2. OutstandingIds' = OutstandingIds /\ next_id' = next_id
      BY <1>1, <1>2 DEF OutstandingIds, Claim
    <2> QED
      BY <1>1, <2>1, <2>2 DEF OneHome
  <1> QED
    BY <1>4, <1>5, <1>6, <1>7

\* Taking a lease out of the map leaves the other leases as they are.
LEMMA WithoutLeaseProperties ==
  ASSUME QueueTypeOK, OneHome, NEW id \in InFlightIds, in_flight' = WithoutLease(id)
  PROVE  /\ InFlightIds' = InFlightIds \ {id}
         /\ IsFiniteSet(InFlightIds')
         /\ Cardinality(InFlightIds') = Cardinality(InFlightIds) - 1
         /\ in_flight' \in [InFlightIds' -> QueuedUiCommand]
         /\ \A i \in InFlightIds' : in_flight'[i].id = i
  <1>1. InFlightIds' = InFlightIds \ {id}
    BY DEF InFlightIds, WithoutLease
  <1>2. /\ IsFiniteSet(InFlightIds')
        /\ Cardinality(InFlightIds') = Cardinality(InFlightIds) - 1
    BY <1>1, FS_RemoveElement DEF QueueTypeOK
  <1>3. /\ in_flight' \in [InFlightIds' -> QueuedUiCommand]
        /\ \A i \in InFlightIds' : in_flight'[i].id = i
    BY <1>1 DEF WithoutLease, QueueTypeOK, OneHome
  <1> QED
    BY <1>1, <1>2, <1>3

\* An acknowledged or discarded lease only makes room.
LEMMA SettledInv ==
  ASSUME QueueInv, NEW id \in InFlightIds, in_flight' = WithoutLease(id),
         UNCHANGED <<pending, reserved, next_id, reservations>>
  PROVE  QueueInv'
  <1> USE DEF QueueInv
  <1>1. /\ InFlightIds' = InFlightIds \ {id}
        /\ IsFiniteSet(InFlightIds')
        /\ Cardinality(InFlightIds') = Cardinality(InFlightIds) - 1
        /\ in_flight' \in [InFlightIds' -> QueuedUiCommand]
        /\ \A i \in InFlightIds' : in_flight'[i].id = i
    BY WithoutLeaseProperties
  <1>2. QueueTypeOK'
    BY <1>1 DEF QueueTypeOK
  <1>3. CapacityBound'
    <2>1. Len(pending) \in Nat /\ Cardinality(InFlightIds) \in Nat
      BY LenProperties, FS_CardinalityType DEF QueueTypeOK
    <2> QED
      BY <1>1, <2>1, QueueAssumption DEF CapacityBound, QueueSize, QueueTypeOK
  <1>4. ReservationsAccounted'
    BY DEF ReservationsAccounted
  <1>5. OneHome'
    BY <1>1 DEF OneHome, PendingIds, OutstandingIds
  <1> QED
    BY <1>2, <1>3, <1>4, <1>5

\* A returned entry keeps its id and stays within the retry budget.
LEMMA ReturnedEntry ==
  ASSUME NEW lease \in QueuedUiCommand, lease.retries < MaxRetries
  PROVE  /\ [lease EXCEPT !.retries = @ + 1] \in QueuedUiCommand
         /\ [lease EXCEPT !.retries = @ + 1].id = lease.id
  <1> DEFINE returned == [lease EXCEPT !.retries = @ + 1]
  <1>1. lease.retries + 1 \in 0..MaxRetries
    BY QueueAssumption DEF QueuedUiCommand
  <1>2. returned = [id |-> lease.id, command |-> lease.command,
                    retries |-> lease.retries + 1]
    BY DEF QueuedUiCommand
  <1> HIDE DEF returned
  <1>3. returned \in QueuedUiCommand /\ returned.id = lease.id
    BY <1>1, <1>2 DEF QueuedUiCommand
  <1> QED
    BY <1>3 DEF returned

\* A nacked lease goes back to the deque: it changes its home and finds the
\* room it left.
LEMMA RequeueInv ==
  ASSUME QueueInv, NEW id \in InFlightIds, Requeue(id)
  PROVE  QueueInv'
  <1> USE DEF QueueInv
  <1> DEFINE entry == [in_flight[id] EXCEPT !.retries = @ + 1]
  <1>1. /\ InFlightIds' = InFlightIds \ {id}
        /\ IsFiniteSet(InFlightIds')
        /\ Cardinality(InFlightIds') = Cardinality(InFlightIds) - 1
        /\ in_flight' \in [InFlightIds' -> QueuedUiCommand]
        /\ \A i \in InFlightIds' : in_flight'[i].id = i
    BY WithoutLeaseProperties DEF Requeue
  <1>2. entry \in QueuedUiCommand /\ entry.id = id
    <2>1. in_flight[id] \in QueuedUiCommand /\ in_flight[id].id = id
      BY DEF QueueTypeOK, OneHome
    <2> QED
      BY <2>1, ReturnedEntry DEF Requeue
  <1>3. /\ pending' \in Seq(QueuedUiCommand)
        /\ Len(pending') = Len(pending) + 1
        /\ pending'[1] = entry
        /\ \A k \in 1..Len(pending) : pending'[k + 1] = pending[k]
    BY <1>2, PrependProperties DEF Requeue, QueueTypeOK
  <1> HIDE DEF entry
  <1>4. Len(pending) \in Nat /\ Cardinality(InFlightIds) \in Nat
    BY LenProperties, FS_CardinalityType DEF QueueTypeOK
  <1>5. QueueTypeOK'
    BY <1>1, <1>3 DEF Requeue, QueueTypeOK
  <1>6. CapacityBound'
    BY <1>1, <1>3, <1>4, QueueAssumption
    DEF Requeue, CapacityBound, QueueSize, QueueTypeOK
  <1>7. ReservationsAccounted'
    BY DEF Requeue, ReservationsAccounted
  <1>8. OneHome'
    <2>1. /\ DOMAIN pending = 1..Len(pending)
          /\ DOMAIN pending' = 1..(Len(pending) + 1)
      BY <1>3, LenProperties DEF QueueTypeOK
    <2>2. \A k \in DOMAIN pending' :
            \/ k = 1 /\ pending'[k].id = id
            \/ /\ k - 1 \in DOMAIN pending
               /\ pending'[k] = pending[k - 1]
               /\ pending'[k].id # id
      <3>1. \A k \in DOMAIN pending : pending[k].id # id
        BY DEF OneHome, PendingIds
      <3>2. pending'[1].id = id
        BY <1>2, <1>3
      <3>3. ASSUME NEW k \in DOMAIN pending', k # 1
            PROVE  /\ k - 1 \in DOMAIN pending
                   /\ pending'[k] = pending[k - 1]
        <4>1. k - 1 \in 1..Len(pending) /\ (k - 1) + 1 = k
          BY <2>1, <1>4, <3>3
        <4> QED
          BY <4>1, <1>3, <2>1
      <3> QED
        BY <3>1, <3>2, <3>3
    <2>3. PendingIds' = PendingIds \cup {id}
      <3>1. PendingIds' \subseteq PendingIds \cup {id}
        BY <2>2 DEF PendingIds
      <3>2. \A k \in DOMAIN pending : pending[k].id \in PendingIds'
        BY <1>3, <1>4, <2>1, SMTT(30) DEF PendingIds
      <3>3. id \in PendingIds'
        BY <1>2, <1>3, <1>4, <2>1 DEF PendingIds
      <3> QED
        BY <3>1, <3>2, <3>3 DEF PendingIds
    <2>4. ASSUME NEW j \in DOMAIN pending', NEW k \in DOMAIN pending',
                 pending'[j].id = pending'[k].id
          PROVE  j = k
      <3>1. CASE j = 1 \/ k = 1
        BY <3>1, <1>2, <1>3, <2>2, <2>4
      <3>2. CASE j # 1 /\ k # 1
        <4>1. j - 1 = k - 1
          BY <3>2, <2>2, <2>4 DEF OneHome
        <4> QED
          BY <4>1, <2>1, <1>4
      <3> QED
        BY <3>1, <3>2
    <2>5. PendingIds' \cap InFlightIds' = {}
      BY <1>1, <2>3 DEF OneHome
    <2>6. OutstandingIds' = OutstandingIds /\ next_id' = next_id
      BY <1>1, <2>3 DEF OutstandingIds, Requeue
    <2> QED
      BY <1>1, <2>4, <2>5, <2>6 DEF OneHome
  <1> QED
    BY <1>5, <1>6, <1>7, <1>8

-----------------------------------------------------------------------------

LEMMA QueueNextInv == QueueInv /\ [QueueNext]_queueVars => QueueInv'
  <1> SUFFICES ASSUME QueueInv, [QueueNext]_queueVars PROVE QueueInv'
    OBVIOUS
  <1>1. ASSUME NEW t \in Threads, Reserve(t) PROVE QueueInv'
    BY <1>1, ReserveInv
  <1>2. ASSUME NEW t \in Threads, CancelReservation(t) PROVE QueueInv'
    BY <1>2, CancelInv
  <1>3. ASSUME NEW t \in Threads, NEW c \in Commands, Commit(t, c) PROVE QueueInv'
    BY <1>3, CommitInv
  <1>4. CASE Claim
    BY <1>4, ClaimInv
  <1>5. ASSUME NEW id \in InFlightIds, Acknowledge(id) \/ Discard(id) PROVE QueueInv'
    BY <1>5, SettledInv DEF Acknowledge, Discard
  <1>6. ASSUME NEW id \in InFlightIds, Requeue(id) PROVE QueueInv'
    BY <1>6, RequeueInv
  <1>7. CASE UNCHANGED queueVars
    BY <1>7
    DEF queueVars, QueueInv, QueueTypeOK, CapacityBound, QueueSize,
        ReservationsAccounted, OneHome, PendingIds, InFlightIds, OutstandingIds
  <1> QED
    BY <1>1, <1>2, <1>3, <1>4, <1>5, <1>6, <1>7 DEF QueueNext, Nack

\* Nothing any caller does to the queue, in any order, breaks its invariant.
THEOREM QueueInvariant == QueueSpec => []QueueInv
  BY QueueInitInv, QueueNextInv, PTL DEF QueueSpec

\* Every state of the queue has the types that the code declares.
THEOREM QueueTypeCorrect == QueueSpec => []QueueTypeOK
  <1>1. QueueInv => QueueTypeOK
    BY DEF QueueInv
  <1> QED
    BY <1>1, QueueInvariant, PTL

\* Commands and promised slots never exceed the capacity: a commit after an
\* operation, and a nack, always find room.
THEOREM CapacityRespected == QueueSpec => []CapacityBound
  <1>1. QueueInv => CapacityBound
    BY DEF QueueInv
  <1> QED
    BY <1>1, QueueInvariant, PTL

\* The count of promised slots is the number of active reservations, so it
\* never underflows and never leaks.
THEOREM NoLeakedReservation == QueueSpec => []ReservationsAccounted
  <1>1. QueueInv => ReservationsAccounted
    BY DEF QueueInv
  <1> QED
    BY <1>1, QueueInvariant, PTL

\* No command is ever in two places, and no id is reused while it is out.
THEOREM EveryCommandHasOneHome == QueueSpec => []OneHome
  <1>1. QueueInv => OneHome
    BY DEF QueueInv
  <1> QED
    BY <1>1, QueueInvariant, PTL

-----------------------------------------------------------------------------
(***************************************************************************)
(* The UI command queue implements the bounded mailbox of CommandMailbox,  *)
(* for every set of threads and commands, every capacity and retry budget. *)
(*                                                                         *)
(* The argument: under the queue's invariant an id names one entry, so     *)
(* there are as many entries as ids.  Hence the slot that a reservation    *)
(* keeps is room for the committed entry, a claim moves entries without    *)
(* changing which there are, and a settled lease is the one that goes.     *)
(***************************************************************************)

QueueEntries == PendingEntries \cup InFlightEntries

\* An id names one entry, and the ids of the entries are the ids that are out.
LEMMA EntryOfId ==
  ASSUME QueueTypeOK, OneHome
  PROVE  /\ QueueEntries \subseteq QueuedUiCommand
         /\ \A e \in QueueEntries : e.id \in OutstandingIds
         /\ \A i \in OutstandingIds : \E e \in QueueEntries : e.id = i
         /\ \A e, f \in QueueEntries : e.id = f.id => e = f
  <1>1. \A k \in DOMAIN pending :
          /\ pending[k] \in QueuedUiCommand
          /\ pending[k] \in QueueEntries
          /\ pending[k].id \in PendingIds
    BY ElementOfSeq, LenProperties
    DEF QueueTypeOK, QueueEntries, PendingEntries, PendingIds
  <1>2. \A i \in InFlightIds :
          /\ in_flight[i] \in QueuedUiCommand
          /\ in_flight[i] \in QueueEntries
          /\ in_flight[i].id = i
    BY DEF QueueTypeOK, OneHome, QueueEntries, InFlightEntries
  <1>3. \A e \in QueueEntries :
          \/ \E k \in DOMAIN pending : e = pending[k]
          \/ \E i \in InFlightIds : e = in_flight[i]
    BY DEF QueueEntries, PendingEntries, InFlightEntries
  <1>4. \A i \in PendingIds : \E k \in DOMAIN pending : pending[k].id = i
    BY DEF PendingIds
  <1>5. \A e, f \in QueueEntries : e.id = f.id => e = f
    <2> SUFFICES ASSUME NEW e \in QueueEntries, NEW f \in QueueEntries, e.id = f.id
                 PROVE  e = f
      OBVIOUS
    <2>1. ASSUME NEW j \in DOMAIN pending, NEW k \in DOMAIN pending,
                 e = pending[j], f = pending[k]
          PROVE  e = f
      BY <2>1 DEF OneHome
    <2>2. ASSUME NEW j \in InFlightIds, NEW k \in InFlightIds,
                 e = in_flight[j], f = in_flight[k]
          PROVE  e = f
      BY <2>2, <1>2
    <2>3. ASSUME NEW k \in DOMAIN pending, NEW i \in InFlightIds,
                 pending[k].id = in_flight[i].id
          PROVE  FALSE
      BY <2>3, <1>1, <1>2 DEF OneHome
    <2> QED
      BY <1>3, <2>1, <2>2, <2>3
  <1> QED
    BY <1>1, <1>2, <1>3, <1>4, <1>5 DEF OutstandingIds

LEMMA EntriesSize ==
  ASSUME QueueTypeOK, OneHome
  PROVE  /\ IsFiniteSet(QueueEntries)
         /\ Cardinality(QueueEntries) = Len(pending) + Cardinality(InFlightIds)
  <1> DEFINE idOf == [e \in QueueEntries |-> e.id]
  <1>1. idOf \in [QueueEntries -> OutstandingIds]
    BY EntryOfId
  <1>2. \A e, f \in QueueEntries : idOf[e] = idOf[f] => e = f
    BY EntryOfId
  <1>3. \A i \in OutstandingIds : \E e \in QueueEntries : idOf[e] = i
    BY EntryOfId
  <1>4. idOf \in Injection(QueueEntries, OutstandingIds)
    BY <1>1, <1>2, Fun_IsInj
  <1>5. idOf \in Surjection(QueueEntries, OutstandingIds)
    BY <1>1, <1>3, Fun_IsSurj
  <1> HIDE DEF idOf
  <1>6. IsFiniteSet(OutstandingIds)
    BY OutstandingSize
  <1>7. /\ IsFiniteSet(QueueEntries)
        /\ Cardinality(QueueEntries) = Cardinality(OutstandingIds)
    BY <1>4, <1>5, <1>6, FS_Injection
  <1> QED
    BY <1>7, OutstandingSize

\* The entries of a lease map without one of its leases.
LEMMA EntriesWithoutLease ==
  ASSUME QueueTypeOK, OneHome, NEW id \in InFlightIds, in_flight' = WithoutLease(id)
  PROVE  InFlightEntries' \cup PendingEntries = QueueEntries \ {in_flight[id]}
  <1>1. InFlightIds' = InFlightIds \ {id} /\ \A i \in InFlightIds' : in_flight'[i] = in_flight[i]
    BY DEF InFlightIds, WithoutLease
  <1>2. InFlightEntries' = InFlightEntries \ {in_flight[id]}
    <2>1. \A i \in InFlightIds : in_flight[i].id = i
      BY DEF OneHome
    <2> QED
      BY <1>1, <2>1 DEF InFlightEntries
  <1>3. in_flight[id] \notin PendingEntries
    BY DEF OneHome, PendingEntries, PendingIds
  <1> QED
    BY <1>2, <1>3 DEF QueueEntries

-----------------------------------------------------------------------------

LEMMA AcceptStep ==
  ASSUME QueueInv, NEW t \in Threads, NEW c \in Commands, Commit(t, c)
  PROVE  Mailbox!Accept(c)
  <1> USE DEF QueueInv
  <1> DEFINE entry == [id |-> next_id, command |-> c, retries |-> 0]
  <1>1. Cardinality(QueueEntries) < Capacity
    <2>1. IsFiniteSet(reservations)
      BY QueueAssumption, FS_Subset DEF QueueTypeOK
    <2>2. reserved # 0
      BY <2>1, FS_EmptySet DEF Commit, ReservationsAccounted
    <2>3. Len(pending) \in Nat /\ Cardinality(InFlightIds) \in Nat
      BY LenProperties, FS_CardinalityType DEF QueueTypeOK
    <2>4. Cardinality(QueueEntries) = Len(pending) + Cardinality(InFlightIds)
      BY EntriesSize
    <2> QED
      BY <2>2, <2>3, <2>4, QueueAssumption DEF CapacityBound, QueueSize, QueueTypeOK
  <1>2. PendingEntries' = PendingEntries \cup {entry}
    <2>1. entry \in QueuedUiCommand
      BY QueueAssumption DEF QueueTypeOK, QueuedUiCommand
    <2> HIDE DEF entry
    <2>2. /\ pending' \in Seq(QueuedUiCommand)
          /\ Len(pending') = Len(pending) + 1
          /\ \A k \in 1..Len(pending) : pending'[k] = pending[k]
          /\ pending'[Len(pending) + 1] = entry
      BY <2>1, AppendProperties DEF Commit, QueueTypeOK, entry
    <2>3. /\ Len(pending) \in Nat
          /\ DOMAIN pending = 1..Len(pending)
          /\ DOMAIN pending' = 1..(Len(pending) + 1)
      BY <2>2, LenProperties DEF QueueTypeOK
    <2> QED
      BY <2>2, <2>3 DEF PendingEntries
  <1>3. InFlightEntries' = InFlightEntries /\ InFlightIds' = InFlightIds
    BY DEF Commit, InFlightEntries, InFlightIds
  <1>4. next_id' = next_id + 1
    BY DEF Commit
  <1>5. (PendingEntries \cup InFlightEntries)' =
          (PendingEntries \cup InFlightEntries) \cup {entry}
    BY <1>2, <1>3
  <1>6. Mailbox!Cardinality(PendingEntries \cup InFlightEntries) < Capacity
    BY <1>1 DEF QueueEntries, Mailbox!Cardinality, Cardinality
  <1> QED
    BY <1>3, <1>4, <1>5, <1>6, Zenon DEF Mailbox!Accept

LEMMA PresentStep ==
  ASSUME QueueInv, Claim
  PROVE  Mailbox!Present
  <1> USE DEF QueueInv
  <1>1. InFlightIds' = OutstandingIds /\ PendingEntries' = {}
    BY ClaimedProperties DEF Claim, InFlightIds, PendingEntries
  <1>2. {e.id : e \in QueueEntries} = OutstandingIds
    BY EntryOfId
  <1>3. \A i \in OutstandingIds : ClaimedInFlight[i] \in QueueEntries /\ ClaimedInFlight[i].id = i
    <2>1. ASSUME NEW i \in PendingIds PROVE ClaimedInFlight[i] \in QueueEntries
      <3> DEFINE k == CHOOSE k \in DOMAIN pending : pending[k].id = i
      <3>1. k \in DOMAIN pending
        BY DEF PendingIds
      <3>2. ClaimedInFlight[i] = pending[k]
        BY DEF ClaimedInFlight, OutstandingIds
      <3> QED
        BY <3>1, <3>2 DEF QueueEntries, PendingEntries
    <2>2. ASSUME NEW i \in InFlightIds, i \notin PendingIds
          PROVE  ClaimedInFlight[i] \in QueueEntries
      BY <2>2 DEF ClaimedInFlight, OutstandingIds, QueueEntries, InFlightEntries
    <2> QED
      BY <2>1, <2>2, ClaimedProperties DEF OutstandingIds
  <1>4. InFlightEntries' = {ClaimedInFlight[i] : i \in OutstandingIds}
    BY <1>1 DEF Claim, InFlightEntries
  <1>5. InFlightEntries' = QueueEntries
    <2>1. InFlightEntries' \subseteq QueueEntries
      BY <1>3, <1>4
    <2>2. ASSUME NEW e \in QueueEntries PROVE e \in InFlightEntries'
      <3>1. e.id \in OutstandingIds
        BY EntryOfId
      <3>2. ClaimedInFlight[e.id] = e
        BY <1>3, <3>1, EntryOfId
      <3> QED
        BY <1>4, <3>1, <3>2
    <2> QED
      BY <2>1, <2>2
  <1>6. next_id' = next_id
    BY DEF Claim
  <1> QED
    BY <1>1, <1>2, <1>5, <1>6 DEF Mailbox!Present, QueueEntries

\* Acknowledge, discard and requeue settle the entry of the lease they name.
LEMMA SettleStep ==
  ASSUME QueueInv, NEW id \in InFlightIds, Acknowledge(id) \/ Nack(id)
  PROVE  \E entry \in QueueEntries : Mailbox!Settle(entry)
  <1> USE DEF QueueInv
  <1> DEFINE entry == in_flight[id]
  <1>1. entry \in QueueEntries /\ entry.id = id /\ entry \in QueuedUiCommand
    BY DEF QueueEntries, InFlightEntries, OneHome, QueueTypeOK
  <1>2. in_flight' = WithoutLease(id) /\ next_id' = next_id
    BY DEF Acknowledge, Nack, Discard, Requeue
  <1>3. InFlightIds' = InFlightIds \ {id}
    BY <1>2, WithoutLeaseProperties
  <1>4. InFlightEntries' \cup PendingEntries = QueueEntries \ {entry}
    BY <1>2, EntriesWithoutLease
  <1>5. CASE Acknowledge(id)
    <2>1. Mailbox!Acknowledged(entry)
      BY <1>4, <1>5 DEF Acknowledge, Mailbox!Acknowledged, QueueEntries, PendingEntries
    <2> QED
      BY <1>1, <1>2, <1>3, <2>1 DEF Mailbox!Settle
  <1>6. CASE Discard(id)
    <2>1. entry.retries = MaxRetries
      BY <1>1, <1>6, QueueAssumption DEF Discard, QueuedUiCommand
    <2>2. Mailbox!GivenUp(entry)
      BY <1>4, <1>6, <2>1 DEF Discard, Mailbox!GivenUp, QueueEntries, PendingEntries
    <2> QED
      BY <1>1, <1>2, <1>3, <2>2 DEF Mailbox!Settle
  <1>7. CASE Requeue(id)
    <2> DEFINE returned == [entry EXCEPT !.retries = @ + 1]
    <2>1. returned \in QueuedUiCommand
      BY <1>1, <1>7, ReturnedEntry DEF Requeue
    <2>2. pending' = <<returned>> \o pending
      BY <1>7 DEF Requeue
    <2> HIDE DEF returned
    <2>3. /\ pending' \in Seq(QueuedUiCommand)
          /\ Len(pending') = Len(pending) + 1
          /\ pending'[1] = returned
          /\ \A k \in 1..Len(pending) : pending'[k + 1] = pending[k]
      BY <2>1, <2>2, PrependProperties DEF QueueTypeOK
    <2>4. PendingEntries' = PendingEntries \cup {returned}
      <3>1. /\ Len(pending) \in Nat
            /\ DOMAIN pending = 1..Len(pending)
            /\ DOMAIN pending' = 1..(Len(pending) + 1)
        BY <2>3, LenProperties DEF QueueTypeOK
      <3>2. \A k \in DOMAIN pending' : k = 1 \/ \E j \in 1..Len(pending) : k = j + 1
        <4>1. \A k \in DOMAIN pending' : k = 1 \/ (k - 1 \in 1..Len(pending) /\ k = (k - 1) + 1)
          BY <3>1
        <4> QED
          BY <4>1
      <3>3. \A j \in 1..Len(pending) : j + 1 \in DOMAIN pending'
        BY <3>1
      <3>4. 1 \in DOMAIN pending'
        BY <3>1
      <3> QED
        BY <2>3, <3>1, <3>2, <3>3, <3>4 DEF PendingEntries
    <2>5. entry.retries < MaxRetries
      BY <1>7 DEF Requeue
    <2>6. Mailbox!Returned(entry)
      BY <1>4, <2>4, <2>5 DEF Mailbox!Returned, QueueEntries, returned
    <2> QED
      BY <1>1, <1>2, <1>3, <2>6 DEF Mailbox!Settle
  <1> QED
    BY <1>5, <1>6, <1>7 DEF Nack

-----------------------------------------------------------------------------

\* Whatever producers and renderers do to the queue, it behaves as a mailbox
\* that accepts a command only into free room, keeps it until it is settled
\* while leased, and gives one up only after its last retry.
THEOREM QueueImplementsMailbox == QueueSpec => ImplementsMailbox
  <1>1. QueueInit => Mailbox!Init
    BY DEF QueueInit, Mailbox!Init, PendingEntries, InFlightEntries, InFlightIds
  <1>2. QueueInv /\ [QueueNext]_queueVars => [Mailbox!Next]_(Mailbox!vars)
    <2> SUFFICES ASSUME QueueInv, [QueueNext]_queueVars
                 PROVE  [Mailbox!Next]_(Mailbox!vars)
      OBVIOUS
    <2>1. ASSUME NEW t \in Threads, Reserve(t) \/ CancelReservation(t)
          PROVE  UNCHANGED Mailbox!vars
      BY <2>1
      DEF Reserve, CancelReservation, Mailbox!vars, PendingEntries, InFlightEntries,
          InFlightIds
    <2>2. ASSUME NEW t \in Threads, NEW c \in Commands, Commit(t, c)
          PROVE  Mailbox!Next
      BY <2>2, AcceptStep DEF Mailbox!Next
    <2>3. CASE Claim
      BY <2>3, PresentStep DEF Mailbox!Next
    <2>4. ASSUME NEW id \in InFlightIds, Acknowledge(id) \/ Nack(id)
          PROVE  Mailbox!Next
      BY <2>4, SettleStep DEF Mailbox!Next, QueueEntries
    <2>5. CASE UNCHANGED queueVars
      BY <2>5
      DEF queueVars, Mailbox!vars, PendingEntries, InFlightEntries, InFlightIds
    <2> QED
      BY <2>1, <2>2, <2>3, <2>4, <2>5 DEF QueueNext
  <1> QED
    BY <1>1, <1>2, QueueInvariant, PTL DEF QueueSpec, ImplementsMailbox, Mailbox!Spec
=============================================================================
