------------------------------ MODULE MCUpdate ------------------------------
(* Instance of Update for TLC: two processes, so that one overtakes the other *)
(* at every step, three versions, so that it can be overtaken by a newer one, *)
(* and two moments with the cooldown between them.                           *)
EXTENDS Update, TLC

CONSTANTS p, q

Symmetry == Permutations(Procs)
=============================================================================
