---------------------------- MODULE MCRedisStore ----------------------------
(* A small redis for TLC. *)
EXTENDS RedisStore

Order(queue, priority, key, max_attempts) ==
  [name |-> "mail", queue |-> queue, priority |-> priority, key |-> key, max_attempts |-> max_attempts]

(* An ordinary run with a key in one queue, and an urgent one next door. *)
KeyedAndUrgent == {Order("default", 0, "invoice", 2), Order("other", 1, NoKey, 1)}
Plain == {Order("default", 0, NoKey, 1)}

(* Eight runs were written and pruned before these, so that the second of them is the first    *)
(* with two digits.  Two texts padded to one width compare as numbers, and of two that are      *)
(* equal then the shorter is first.                                                             *)
Earlier == 8
Width(n) == CHOOSE k \in 1 .. n : 10 ^ (k - 1) <= n /\ n < 10 ^ k
Padded(n) == n * 10 ^ (Width(Earlier + MaxRuns) - Width(n))
Decimal(r) == 10 * Padded(Earlier + r) + Width(Earlier + r)
=============================================================================
