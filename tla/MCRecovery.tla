----------------------------- MODULE MCRecovery -----------------------------
(* One worker and the runs it loses and meets again, for TLC. *)
EXTENDS Recovery

Jittered == {[queue |-> "default", priority |-> 0, key |-> NoKey, max_attempts |-> 2,
              policy |-> "exponential_jitter", retry_delay |-> 1, max_retry_delay |-> 2]}
=============================================================================
