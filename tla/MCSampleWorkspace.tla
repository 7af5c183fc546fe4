-------------------------- MODULE MCSampleWorkspace --------------------------
(* Three rows, pages of two, two texts, one instrument to filter by. *)
EXTENDS SampleWorkspace

CONSTANTS kick, all, some, loops

MCIds == 1..3
MCInstruments == {kick}
MCDirectories == {loops}
MCQueries == {all, some}
MCFound == [q \in MCQueries |-> IF q = all THEN MCIds ELSE {1, 3}]
MCInside == [d \in MCDirectories |-> {2, 3}]
MCLibrary == [id \in MCIds |-> kick]
MCExternal == {<<3>>}

(* Each search ends, whichever calls fail or are overtaken, and each dialog   *)
(* that was confirmed closes by itself: neither isSearching nor the button of *)
(* a dialog stays as it is.                                                   *)
WorkspaceSettles == (searching ~> ~searching) /\ (working ~> ~working)
==============================================================================
