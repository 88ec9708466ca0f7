---------------------------- MODULE MCApiServer -----------------------------
(* ApiServer on a small instance. *)
EXTENDS ApiServer

\* In ticks of five seconds: the default, CONTEXT_TIMEOUT=5, and a negative one.
MCRequestTimeouts == {6, 1, -1}
=============================================================================
