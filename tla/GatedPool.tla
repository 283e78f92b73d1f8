------------------------------ MODULE GatedPool ------------------------------
(***************************************************************************)
(* What the adaptive limiter of src/src/dungeon/concurrency.rs promises,   *)
(* without its mutex, condition variable, counters or success streak: a    *)
(* pool of permits whose limit moves, additively up and by halves down,    *)
(* and that admits a thread only below the limit of that moment.  Moving   *)
(* the limit never takes a permit away ("it never preempts permits already *)
(* held by in-flight work").                                               *)
(***************************************************************************)
EXTENDS Naturals, FiniteSets

CONSTANTS
  Threads,     (* the threads that may hold a permit *)
  MaxLimit     (* the highest limit                  *)

VARIABLES
  holders,     (* the threads that hold a permit *)
  limit        (* the limit of this moment       *)

vars == <<holders, limit>>

Init ==
  /\ holders = {}
  /\ limit = 1

Admit(t) ==
  /\ t \notin holders
  /\ Cardinality(holders) < limit
  /\ holders' = holders \cup {t}
  /\ UNCHANGED limit

Release(t) ==
  /\ t \in holders
  /\ holders' = holders \ {t}
  /\ UNCHANGED limit

Raise ==
  /\ limit < MaxLimit
  /\ limit' = limit + 1
  /\ UNCHANGED holders

Halve ==
  /\ limit' = IF limit \div 2 > 1 THEN limit \div 2 ELSE 1
  /\ UNCHANGED holders

Next ==
  \/ \E t \in Threads : Admit(t) \/ Release(t)
  \/ Raise
  \/ Halve

Spec == Init /\ [][Next]_vars
=============================================================================
