----------------------------- MODULE MCSqlStore -----------------------------
(* Two workers over one small table, for TLC. *)
EXTENDS SqlStore

Order(priority, max_attempts) ==
  [name |-> "mail", queue |-> "default", priority |-> priority, key |-> NoKey, max_attempts |-> max_attempts]

TwoTries == {Order(0, 2)}
OneAndTwo == {Order(1, 1), Order(0, 2)}
=============================================================================
