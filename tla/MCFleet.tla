------------------------------ MODULE MCFleet ------------------------------
(* Small fleets for TLC. *)
EXTENDS Fleet, TLC

CONSTANTS mail, report

Order(name, priority, key, max_attempts) ==
  [name |-> name, queue |-> "default", priority |-> priority, key |-> key, max_attempts |-> max_attempts]

EitherTask == {Order(mail, 0, NoKey, 2), Order(report, 0, NoKey, 2)}

ServesAll == [w \in Workers |-> {"default"}]

(* A rolling deploy: the code beside one worker, and beside no other, knows mail. *)
NewCode == CHOOSE w \in Workers : TRUE
DeclaresMore == [w \in Workers |-> IF w = NewCode THEN {mail, report} ELSE {report}]
DeclaresOne == [w \in Workers |-> {report}]

Alike == Permutations(Workers) \union Permutations(Slots)
=============================================================================
