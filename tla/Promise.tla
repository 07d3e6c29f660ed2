------------------------------ MODULE Promise ------------------------------
(***************************************************************************)
(* What the library promises about every run, with no store, no worker and *)
(* no lease in sight: a run is open until it is over, it is over once, it  *)
(* is done only if its handler was entered, and the handler is entered at  *)
(* most once under each of the attempts its policy allows.  A handler may  *)
(* still be entered after the run is over, by an attempt that lost it.     *)
(***************************************************************************)
EXTENDS Naturals

CONSTANTS
  Runs,             \* the ids of runs
  Policies          \* how many attempts a policy may allow

VARIABLES
  outcome,          \* run -> what became of it
  allowed,          \* run -> how many attempts its policy allows, 0 until it is written
  tried             \* run -> the attempts under which its handler was entered

promiseVars == <<outcome, allowed, tried>>

PromiseInit ==
  /\ outcome = [r \in Runs |-> "unwritten"]
  /\ allowed = [r \in Runs |-> 0]
  /\ tried = [r \in Runs |-> {}]

Accept(r) ==
  /\ outcome[r] = "unwritten"
  /\ outcome' = [outcome EXCEPT ![r] = "open"]
  /\ \E n \in Policies : allowed' = [allowed EXCEPT ![r] = n]
  /\ UNCHANGED tried

Try(r, n) ==
  /\ n \in (1 .. allowed[r]) \ tried[r]
  /\ tried' = [tried EXCEPT ![r] = @ \union {n}]
  /\ UNCHANGED <<outcome, allowed>>

(* What one call may decide for several runs at once: a reclaim fails a batch, a pruning drops one. *)
Decide(R, from, to) ==
  /\ \A r \in R : outcome[r] \in from
  /\ outcome' = [r \in Runs |-> IF r \in R THEN to ELSE outcome[r]]
  /\ UNCHANGED <<allowed, tried>>

Finish(r) ==
  /\ tried[r] # {}
  /\ Decide({r}, {"open"}, "done")

PromiseNext ==
  \/ \E r \in Runs : Accept(r) \/ Finish(r) \/ Decide({r}, {"open"}, "canceled")
  \/ \E r \in Runs : \E n \in 1 .. allowed[r] : Try(r, n)
  \/ \E R \in SUBSET Runs :
       \/ Decide(R, {"open"}, "failed")
       \/ Decide(R, {"done", "failed", "canceled"}, "dropped")

PromiseSpec == PromiseInit /\ [][PromiseNext]_promiseVars
=============================================================================
