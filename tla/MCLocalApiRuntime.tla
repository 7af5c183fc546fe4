------------------------- MODULE MCLocalApiRuntime -------------------------
(* Three starts of the app and two calls of the client.                    *)
EXTENDS LocalApiRuntime, TLC

CONSTANTS i1, i2, i3, c1, c2

MCInstances == {i1, i2, i3}

MCCalls == {c1, c2}
=============================================================================
