------------------------------ MODULE MCWorker ------------------------------
(* A small worker for TLC: plain handlers with a timeout, one without, and a coroutine. *)
EXTENDS Worker

CONSTANTS a1, a2, a3, a4, a5
=============================================================================
