---------------------------- MODULE CrawlContract ----------------------------
(***************************************************************************)
(* What one enumeration of a subscription promises its caller              *)
(* (build_cancellable in src/src/dungeon/map.rs), without workers, cursor, *)
(* limiter or retries.  It answers once: an error before anything was      *)
(* observed; or a map, which is partial only if the caller asked to stop   *)
(* and otherwise holds a room for every well-formed resource group.        *)
(***************************************************************************)
EXTENDS Naturals

CONSTANTS
  WellFormed   (* the resource groups that can be rooms *)

VARIABLES
  asked,       (* the caller asked to stop                  *)
  observed,    (* the groups that have a room so far        *)
  answer       (* what the caller was given, "pending" before *)

vars == <<asked, observed, answer>>

Init ==
  /\ asked \in BOOLEAN
  /\ observed = {}
  /\ answer = [status |-> "pending"]

Ask ==
  /\ asked' = TRUE
  /\ UNCHANGED <<observed, answer>>

Observe(g) ==
  /\ answer.status = "pending"
  /\ g \notin observed
  /\ observed' = observed \cup {g}
  /\ UNCHANGED <<asked, answer>>

AnswerComplete ==
  /\ answer.status = "pending"
  /\ observed = WellFormed
  /\ answer' = [status |-> "map", rooms |-> observed, partial |-> FALSE]
  /\ UNCHANGED <<asked, observed>>

AnswerPartial ==
  /\ answer.status = "pending"
  /\ asked
  /\ answer' = [status |-> "map", rooms |-> observed, partial |-> TRUE]
  /\ UNCHANGED <<asked, observed>>

AnswerError ==
  /\ answer.status = "pending"
  /\ observed = {}
  /\ answer' = [status |-> "error"]
  /\ UNCHANGED <<asked, observed>>

Next ==
  \/ Ask
  \/ \E g \in WellFormed : Observe(g)
  \/ AnswerComplete
  \/ AnswerPartial
  \/ AnswerError

Spec == Init /\ [][Next]_vars
=============================================================================
