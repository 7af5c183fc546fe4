--------------------------- MODULE CommandMailbox ---------------------------
(***************************************************************************)
(* What the UI command queue promises to its users, stated without its     *)
(* deque, its lease map and its reservations: a mailbox that holds at most *)
(* Capacity accepted commands.  A command stays until it is acknowledged   *)
(* while leased, or returned more than MaxRetries times.                   *)
(***************************************************************************)
EXTENDS Integers, FiniteSets

CONSTANTS Commands, Capacity, MaxRetries

VARIABLES
  outstanding,  \* accepted commands that are not settled
  leased,       \* ids of those handed to a renderer
  accepted      \* number of commands accepted so far

vars == <<outstanding, leased, accepted>>

Init ==
  /\ outstanding = {}
  /\ leased = {}
  /\ accepted = 0

\* An accepted command takes the next id, and only while there is room.
Accept(command) ==
  /\ Cardinality(outstanding) < Capacity
  /\ outstanding' = outstanding \cup
       {[id |-> accepted, command |-> command, retries |-> 0]}
  /\ accepted' = accepted + 1
  /\ UNCHANGED leased

\* A renderer is handed everything that is outstanding.
Present ==
  /\ leased' = {entry.id : entry \in outstanding}
  /\ UNCHANGED <<outstanding, accepted>>

Acknowledged(entry) == outstanding' = outstanding \ {entry}

GivenUp(entry) ==
  /\ entry.retries = MaxRetries
  /\ outstanding' = outstanding \ {entry}

Returned(entry) ==
  /\ entry.retries < MaxRetries
  /\ outstanding' = (outstanding \ {entry})
       \cup {[entry EXCEPT !.retries = @ + 1]}

\* Only a leased command is settled or returned, one at a time.
Settle(entry) ==
  /\ entry.id \in leased
  /\ leased' = leased \ {entry.id}
  /\ UNCHANGED accepted
  /\ Acknowledged(entry) \/ GivenUp(entry) \/ Returned(entry)

Next ==
  \/ \E command \in Commands : Accept(command)
  \/ Present
  \/ \E entry \in outstanding : Settle(entry)

Spec == Init /\ [][Next]_vars
=============================================================================
