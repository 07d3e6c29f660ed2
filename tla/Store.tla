------------------------------- MODULE Store -------------------------------
(***************************************************************************)
(* The contract of a store: the rows it keeps and what each of its calls   *)
(* does to them.  Translated from store/memory.py, where every call runs   *)
(* whole under one asyncio.Lock, so that one call is one step here.        *)
(*                                                                         *)
(* A run is known by its id.  What it was written with (its queue, its     *)
(* priority, its key, the attempts allowed to it) never changes and stays  *)
(* known to whoever holds a copy of the run after its row is gone, so it   *)
(* is kept apart from the row, in `asked'.  Payloads, results, messages    *)
(* and started_at decide nothing and are left out.                         *)
(***************************************************************************)
EXTENDS Integers, FiniteSets

CONSTANTS
  Workers,        \* names of workers
  Nobody,         \* the worker of a row nobody holds
  Orders,         \* what an enqueue may ask for: see OrderType
  NoOrder,        \* what an id nobody was given yet was written with
  NoKey,          \* the key of a run written without one
  Lease,          \* how long a claim and a beat are good for
  ReclaimBatch,   \* RECLAIM_BATCH: the expired leases one reclaim takes back
  MaxRuns         \* bound: how many runs are ever written

NoInstant == -1

OrderType(o) ==
  /\ o.max_attempts \in Nat \ {0}
  /\ o.priority \in Int

ASSUME StoreAssumption ==
  /\ Nobody \notin Workers
  /\ NoOrder \notin Orders
  /\ \A o \in Orders : OrderType(o)
  /\ Lease \in Nat \ {0}
  /\ ReclaimBatch \in Nat \ {0}
  /\ MaxRuns \in Nat \ {0}

VARIABLES
  runs,           \* id -> row, Absent before the run is written and after it is purged
  asked,          \* id -> what the run was written with
  sequence        \* the id the next run is given, never given twice

storeVars == <<runs, asked, sequence>>

Ids == 1 .. MaxRuns
Settled == {"done", "failed", "canceled"}
Statuses == {"pending", "running"} \union Settled

Absent == [status |-> "absent", due_at |-> NoInstant, attempts |-> 0, worker |-> Nobody,
           lease_until |-> NoInstant, finished_at |-> NoInstant]

RowType == [status : Statuses \union {"absent"}, due_at : Int, attempts : Int,
            worker : Workers \union {Nobody}, lease_until : Int, finished_at : Int]

StoreType ==
  /\ runs \in [Ids -> RowType]
  /\ asked \in [Ids -> Orders \union {NoOrder}]
  /\ sequence \in 1 .. MaxRuns + 1

StoreInit ==
  /\ runs = [r \in Ids |-> Absent]
  /\ asked = [r \in Ids |-> NoOrder]
  /\ sequence = 1

-----------------------------------------------------------------------------
(* What the calls ask of a row.                                            *)

Present(r) == runs[r].status # "absent"

Exhausted(r) == runs[r].attempts >= asked[r].max_attempts

Taken(key) == key # NoKey /\ \E r \in Ids : Present(r) /\ asked[r].key = key

Claimable(r, queues, moment) ==
  /\ runs[r].status = "pending"
  /\ asked[r].queue \in queues
  /\ runs[r].due_at <= moment

(* Mutant: the holder is whoever carries the name. *)
HeldByName(r, worker, attempt) ==
  runs[r].status = "running" /\ runs[r].worker = worker

Held(r, worker, attempt) ==
  /\ runs[r].status = "running"
  /\ runs[r].worker = worker
  /\ runs[r].attempts = attempt

(* Mutant: a lease is over at its last instant and not after it. *)
ExpiredEarly(r, moment) ==
  runs[r].status = "running" /\ runs[r].lease_until <= moment

Expired(r, moment) ==
  /\ runs[r].status = "running"
  /\ runs[r].lease_until # NoInstant
  /\ runs[r].lease_until < moment

Prunable(r, before) ==
  /\ runs[r].status \in Settled
  /\ runs[r].finished_at # NoInstant
  /\ runs[r].finished_at < before

(* The order of a claim: priority first, then the one that came due first, then the older id. *)
Ahead(q, r) ==
  \/ asked[q].priority > asked[r].priority
  \/ /\ asked[q].priority = asked[r].priority
     /\ \/ runs[q].due_at < runs[r].due_at
        \/ runs[q].due_at = runs[r].due_at /\ q < r

(* What one claim wins: the first `limit' of what it may take. *)
Won(queues, limit, moment) ==
  LET ready == {r \in Ids : Claimable(r, queues, moment)}
  IN  {r \in ready : Cardinality({q \in ready : Ahead(q, r)}) < limit}

(* The first `limit' of a set of ids, in the order the rows were written. *)
Oldest(S, limit) == {r \in S : Cardinality({q \in S : q < r}) < limit}

-----------------------------------------------------------------------------
(* What the calls write into a row.                                        *)

Written(due_at) ==
  [status |-> "pending", due_at |-> due_at, attempts |-> 0, worker |-> Nobody,
   lease_until |-> NoInstant, finished_at |-> NoInstant]

ClaimedBy(row, worker, moment) ==
  [row EXCEPT !.status = "running", !.worker = worker, !.attempts = @ + 1,
              !.lease_until = moment + Lease]

Closed(row, status, moment) ==
  [row EXCEPT !.status = status, !.finished_at = moment, !.worker = Nobody,
              !.lease_until = NoInstant]

Requeued(row, due_at, counted) ==
  [row EXCEPT !.status = "pending", !.due_at = due_at, !.attempts = @ + counted,
              !.worker = Nobody, !.lease_until = NoInstant]

(* Mutant: an expired lease always goes back to the queue. *)
TakenBackAlways(r, moment) == Requeued(runs[r], moment, 0)

(* Mutant: an expired lease gives the attempt back. *)
TakenBackUncounted(r, moment) ==
  IF Exhausted(r) THEN Closed(runs[r], "failed", moment) ELSE Requeued(runs[r], moment, -1)

TakenBack(r, moment) ==
  IF Exhausted(r) THEN Closed(runs[r], "failed", moment) ELSE Requeued(runs[r], moment, 0)

-----------------------------------------------------------------------------
(* The calls.  A call the store refuses changes nothing.                   *)

Add(order, due_at) ==
  /\ sequence <= MaxRuns
  /\ ~Taken(order.key)
  /\ runs' = [runs EXCEPT ![sequence] = Written(due_at)]
  /\ asked' = [asked EXCEPT ![sequence] = order]
  /\ sequence' = sequence + 1

Write(r, row) ==
  /\ runs' = [runs EXCEPT ![r] = row]
  /\ UNCHANGED <<asked, sequence>>

Claim(worker, queues, limit, moment) ==
  /\ runs' = [r \in Ids |-> IF r \in Won(queues, limit, moment)
                              THEN ClaimedBy(runs[r], worker, moment) ELSE runs[r]]
  /\ UNCHANGED <<asked, sequence>>

Heartbeat(r, worker, attempt, moment) ==
  /\ Held(r, worker, attempt)
  /\ Write(r, [runs[r] EXCEPT !.lease_until = moment + Lease])

Complete(r, worker, attempt, moment) ==
  Held(r, worker, attempt) /\ Write(r, Closed(runs[r], "done", moment))

Fail(r, worker, attempt, moment) ==
  Held(r, worker, attempt) /\ Write(r, Closed(runs[r], "failed", moment))

(* Mutant: a retry gives the attempt back. *)
RetryUncounted(r, worker, attempt, due_at) ==
  Held(r, worker, attempt) /\ Write(r, Requeued(runs[r], due_at, -1))

RetryLater(r, worker, attempt, due_at) ==
  Held(r, worker, attempt) /\ Write(r, Requeued(runs[r], due_at, 0))

(* Mutant: a release keeps the attempt. *)
ReleaseCounted(r, worker, attempt, due_at) ==
  Held(r, worker, attempt) /\ Write(r, Requeued(runs[r], due_at, 0))

Release(r, worker, attempt, due_at) ==
  Held(r, worker, attempt) /\ Write(r, Requeued(runs[r], due_at, -1))

Reclaim(moment) ==
  LET abandoned == Oldest({r \in Ids : Expired(r, moment)}, ReclaimBatch)
  IN  /\ runs' = [r \in Ids |-> IF r \in abandoned THEN TakenBack(r, moment) ELSE runs[r]]
      /\ UNCHANGED <<asked, sequence>>

(* Mutant: a run is called off whatever became of it. *)
CancelAnything(r, moment) == Present(r) /\ Write(r, Closed(runs[r], "canceled", moment))

Cancel(r, moment) ==
  /\ runs[r].status = "pending"
  /\ Write(r, Closed(runs[r], "canceled", moment))

Purge(before, limit) ==
  LET gone == Oldest({r \in Ids : Prunable(r, before)}, limit)
  IN  /\ runs' = [r \in Ids |-> IF r \in gone THEN Absent ELSE runs[r]]
      /\ UNCHANGED <<asked, sequence>>
=============================================================================
