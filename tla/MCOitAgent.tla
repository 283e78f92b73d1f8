----------------------------- MODULE MCOitAgent -----------------------------
(* Instance of OitAgent for TLC: two runs at once; others own "prod" and a   *)
(* group that happens to carry the prefix.  az may be logged in to the       *)
(* expected subscription or to another one.                                  *)
EXTENDS OitAgent
=============================================================================
