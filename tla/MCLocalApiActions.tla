-------------------------- MODULE MCLocalApiActions --------------------------
(* Two requests at a time on a queue with one slot and a two-sample library. *)
EXTENDS LocalApiActions

CONSTANTS t1, t2

MCThreads == {t1, t2}

MCSampleIds == {1, 2}

MCIdLists == {<<1>>, <<2, 1>>}

MCCommands == {UiCommandOf(r) : r \in Request}
=============================================================================
