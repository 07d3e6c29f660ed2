----------------------------- MODULE MCSchedule -----------------------------
(* Two processes and one or two recurring tasks, for TLC. *)
EXTENDS Schedule, TLC

Alike == Permutations(Processes)

Every2 == <<2>>
Every2And3 == <<2, 3>>

SlotOrders == {Occurrence(t, slot) : t \in Tasks, slot \in 1 .. MaxNow + 3}
=============================================================================
