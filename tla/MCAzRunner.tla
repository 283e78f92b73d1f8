----------------------------- MODULE MCAzRunner -----------------------------
(* Instance of AzRunner for TLC: the code's three attempts, and output of up *)
(* to twice what a pipe holds.                                               *)
EXTENDS AzRunner
=============================================================================
