---------------------------- MODULE MCAimdLimiter ----------------------------
(* Instance of AimdLimiter for TLC: five threads, one more than the ceiling  *)
(* lets in, so that some always wait.                                        *)
EXTENDS AimdLimiter
=============================================================================
