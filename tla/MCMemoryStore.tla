---------------------------- MODULE MCMemoryStore ----------------------------
(* Instance of MemoryStore for TLC: two rooms hold a resource of the same    *)
(* name, and a label of one room, cut, is the label of the other; notes with *)
(* a secret in a pair and in a header, the one as long as the store can hold *)
(* once it is scrubbed, the other longer, and an empty one.  The store hands *)
(* its records out newest first.                                             *)
EXTENDS MemoryStore

MCObjectsIn == [r \in {"rg", "rg-b"} |-> <<"disk">>]
MCLabels == {"rg", "rg-b", "disk", "note"}
MCCutsOf == [l \in MCLabels |-> IF l = "rg-b" THEN {"rg"} ELSE {}]
MCNotes == {<<"key", "eq", "value">>, <<"dash", "bearer", "space", "value">>, << >>}
MCRetrieved(records) == Reverse(records)
=============================================================================
