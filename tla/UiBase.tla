-------------------------------- MODULE UiBase --------------------------------
(* What the models of the screens of ui/src share: the absent value, and a    *)
(* bound on the calls of the backend that one screen has under way.           *)
EXTENDS Naturals, Sequences, FiniteSets

CONSTANTS
  None,      \* null or undefined
  MaxCalls   \* bound of the model: the user waits while this many are under way

ASSUME CallsAssumption == MaxCalls \in Nat \ {0}

(* Request numbers are only compared with the newest one, so a call keeps     *)
(* whether its number still is the newest; two calls that agree in everything *)
(* end alike, and are one.                                                    *)
Overtaken(calls) == {[c EXCEPT !.newest = FALSE] : c \in calls}

Room(calls) == Cardinality(calls) < MaxCalls

(* Numbers, the smallest first, and what is at these places of a list.        *)
InOrder(ids) ==
  CHOOSE s \in [1..Cardinality(ids) -> ids] :
    \A j, k \in 1..Cardinality(ids) : j < k => s[j] < s[k]

Picked(rows, places) ==
  LET order == InOrder(places) IN [k \in 1..Cardinality(places) |-> rows[order[k]]]
===============================================================================
