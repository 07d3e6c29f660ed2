------------------------------ MODULE Contract ------------------------------
(***************************************************************************)
(* What any store may do to its rows, whatever it takes them with: the     *)
(* calls of Store, where a claim, a reclaim and a pruning may come in      *)
(* pieces and need not take the rows that stand first.  MemoryStore does   *)
(* each call in one step and in order (Fleet); a database takes a claim    *)
(* row by row and reads what a sweep is about to write before it writes it *)
(* (SqlStore).  Both implement this.                                       *)
(***************************************************************************)
EXTENDS Store

CONSTANT
  Delays          \* how far ahead of its instant a call may put a run

VARIABLE
  now             \* no call carries an instant still to come

contractVars == <<runs, asked, sequence, now>>

ContractInit == StoreInit /\ now = 0

Moments == 0 .. now
Dues == {moment + delay : moment \in Moments, delay \in Delays}

(* Rows waiting and due go to one worker, each counting one more attempt. *)
Take(R, worker, moment) ==
  /\ \A r \in R : Claimable(r, {asked[r].queue}, moment)
  /\ runs' = [r \in Ids |-> IF r \in R THEN ClaimedBy(runs[r], worker, moment) ELSE runs[r]]
  /\ UNCHANGED <<asked, sequence>>

(* Rows whose lease is over, a batch of them at most, go back or are over. *)
GiveBack(R, moment) ==
  /\ Cardinality(R) <= ReclaimBatch
  /\ \A r \in R : Expired(r, moment)
  /\ runs' = [r \in Ids |-> IF r \in R THEN TakenBack(r, moment) ELSE runs[r]]
  /\ UNCHANGED <<asked, sequence>>

Drop(R) ==
  /\ \A r \in R : Prunable(r, now)
  /\ runs' = [r \in Ids |-> IF r \in R THEN Absent ELSE runs[r]]
  /\ UNCHANGED <<asked, sequence>>

(* What the attempt that holds a row may write into it. *)
HolderWrites(r, worker, attempt) ==
  \/ \E moment \in Moments :
       \/ Heartbeat(r, worker, attempt, moment)
       \/ Complete(r, worker, attempt, moment)
       \/ Fail(r, worker, attempt, moment)
  \/ \E due_at \in Dues : RetryLater(r, worker, attempt, due_at) \/ Release(r, worker, attempt, due_at)

StoreCall ==
  \/ \E order \in Orders, due_at \in Dues : Add(order, due_at)
  \/ \E r \in Ids, moment \in Moments : Cancel(r, moment)
  \/ \E r \in Ids : HolderWrites(r, runs[r].worker, runs[r].attempts)
  \/ \E R \in SUBSET Ids :
       \/ \E worker \in Workers, moment \in Moments : Take(R, worker, moment)
       \/ \E moment \in Moments : GiveBack(R, moment)
       \/ Drop(R)

ContractNext ==
  \/ StoreCall /\ UNCHANGED now
  \/ now' = now + 1 /\ UNCHANGED storeVars

ContractSpec == ContractInit /\ [][ContractNext]_contractVars
=============================================================================
