------------------------------ MODULE RedisStore ------------------------------
(***************************************************************************)
(* The store in redis (store/redis.py).  Every call that changes something *)
(* is a script, and redis runs a script to its end before it answers       *)
(* anybody else: a step.  A run is a hash, and its id waits in the one     *)
(* sorted set its status names: the lane of its queue and priority, the    *)
(* leases, or what is settled.  A key is a reservation that names an id.   *)
(*                                                                         *)
(* `runs' is what the hashes hold.  A redis allowed to evict takes a hash  *)
(* and nothing else (docs/stores.md:362-375), and the id it leaves behind  *)
(* in a set is a ghost.                                                    *)
(*                                                                         *)
(* Beside the workers there are callers of Queuefy.store_once: it writes a *)
(* run or finds the one that holds its key, and here that is a write, a    *)
(* read of the reservation and a read of the hash, each a round trip.      *)
(***************************************************************************)
EXTENDS Store

CONSTANTS
  Limits,         \* how many runs a claim may ask for
  Spread,         \* CLAIM_SPREAD: the ids read from each lane for each run asked for
  PurgeLimit,     \* PURGE_LIMIT
  Delays,         \* how far ahead of its instant a call may put a run
  Callers,        \* who is inside store_once
  Rewrites,       \* REWRITES: how often store_once asks
  TextOf(_),      \* the text of an id, as the number that orders it among the texts of ids
  Evictions,      \* bound: how many hashes are ever evicted
  MaxNow          \* bound: the last instant of the clock

ASSUME RedisAssumption ==
  /\ Limits \subseteq Nat \ {0}
  /\ Spread \in Nat \ {0}
  /\ PurgeLimit \in Nat \ {0}
  /\ Delays \subseteq Nat
  /\ Rewrites \in Nat \ {0}
  /\ \A r \in Ids : TextOf(r) \in Nat
  /\ \A q, r \in Ids : TextOf(q) = TextOf(r) => q = r
  /\ Evictions \in Nat
  /\ MaxNow \in Nat

VARIABLES
  now,            \* the clock everybody reads
  lane,           \* id -> its score in the lane of its queue and its priority, or Out of it
  leased,         \* id -> its score among the leases
  settled,        \* id -> its score among what is settled
  listed,         \* the lanes a claim knows of: the priorities each queue has listed
  reserved,       \* key -> the id it names, or Free
  evicted,        \* the ids whose hash an eviction took
  call            \* caller -> where it is in store_once

setVars == <<lane, leased, settled>>
redisVars == <<storeVars, setVars, listed, reserved>>
vars == <<redisVars, now, evicted, call>>

Out == NoInstant
Free == 0
Keys == {o.key : o \in Orders} \ {NoKey}
Queues == {o.queue : o \in Orders}

NoCall == [pc |-> "idle", order |-> NoOrder, due_at |-> 0, left |-> 0, run |-> Free, from |-> 0]

Init ==
  /\ StoreInit
  /\ now = 0
  /\ lane = [r \in Ids |-> Out]
  /\ leased = [r \in Ids |-> Out]
  /\ settled = [r \in Ids |-> Out]
  /\ listed = {}
  /\ reserved = [k \in Keys |-> Free]
  /\ evicted = {}
  /\ call = [c \in Callers |-> NoCall]

-----------------------------------------------------------------------------
(* A sorted set: by score, and among equal scores by the text of the id. *)

SortedBefore(set, q, r) ==
  set[q] < set[r] \/ (set[q] = set[r] /\ TextOf(q) < TextOf(r))

(* ZRANGEBYSCORE with a LIMIT. *)
First(set, S, limit) ==
  {r \in S : Cardinality({q \in S : SortedBefore(set, q, r)}) < limit}

-----------------------------------------------------------------------------
(* ADD *)

AddRun(order, due_at) ==
  /\ sequence <= MaxRuns
  /\ runs' = [runs EXCEPT ![sequence] = Written(due_at)]
  /\ asked' = [asked EXCEPT ![sequence] = order]
  /\ sequence' = sequence + 1
  /\ listed' = listed \union {<<order.queue, order.priority>>}
  /\ lane' = [lane EXCEPT ![sequence] = due_at]
  /\ reserved' = [k \in Keys |-> IF k = order.key THEN sequence ELSE reserved[k]]
  /\ UNCHANGED <<leased, settled>>

(* SET ... NX *)
Reservable(key) == key # NoKey => reserved[key] = Free

-----------------------------------------------------------------------------
(* CLAIM *)

Due(queue, level, moment) ==
  {r \in Ids : /\ lane[r] # Out /\ lane[r] <= moment
               /\ asked[r].queue = queue /\ asked[r].priority = level}

(* What is read of the lanes of the served queues, each up to its limit. *)
Ready(queues, limit, moment) ==
  UNION {First(lane, Due(l[1], l[2], moment), limit * Spread) :
           l \in {m \in listed : m[1] \in queues}}

(* Mutant: a queue is served to its end before the next one is looked at. *)
WalkedQueueByQueue(q, r) ==
  \/ asked[q].queue # asked[r].queue /\ runs[q].due_at < runs[r].due_at
  \/ /\ asked[q].queue = asked[r].queue
     /\ \/ asked[q].priority > asked[r].priority
        \/ asked[q].priority = asked[r].priority /\ q < r

(* Level by level from the highest, and the lanes of a level merged. *)
WalkedBefore(q, r) ==
  \/ asked[q].priority > asked[r].priority
  \/ /\ asked[q].priority = asked[r].priority
     /\ lane[q] < lane[r] \/ (lane[q] = lane[r] /\ q < r)

(* Mutant: whatever was in a lane is taken, with a run behind it or without one. *)
TakenBlindly(walked) == walked

(* EXISTS: a ghost leaves its lane, and builds no run. *)
TakenOf(walked) == {r \in walked : Present(r)}

(* The walk ends at the run that fills the claim; the ghosts it met count for nothing. *)
Walked(queues, limit, moment) ==
  LET ready == Ready(queues, limit, moment)
  IN  {r \in ready : Cardinality({q \in ready : Present(q) /\ WalkedBefore(q, r)}) < limit}

ClaimRuns(worker, queues, limit, moment) ==
  LET walked == Walked(queues, limit, moment)
      taken == TakenOf(walked)
  IN  /\ runs' = [r \in Ids |-> IF r \in taken THEN ClaimedBy(runs[r], worker, moment) ELSE runs[r]]
      /\ lane' = [r \in Ids |-> IF r \in walked THEN Out ELSE lane[r]]
      /\ leased' = [r \in Ids |-> IF r \in taken THEN moment + Lease ELSE leased[r]]
      /\ UNCHANGED <<asked, sequence, settled, listed, reserved>>

-----------------------------------------------------------------------------
(* RECLAIM *)

ReclaimLeases(moment) ==
  LET batch == First(leased, {r \in Ids : leased[r] # Out /\ leased[r] < moment}, ReclaimBatch)
      found == {r \in batch : Present(r)}
  IN  /\ runs' = [r \in Ids |-> IF r \in found THEN TakenBack(r, moment) ELSE runs[r]]
      /\ leased' = [r \in Ids |-> IF r \in batch THEN Out ELSE leased[r]]
      /\ lane' = [r \in Ids |-> IF r \in found /\ ~Exhausted(r) THEN moment ELSE lane[r]]
      /\ settled' = [r \in Ids |-> IF r \in found /\ Exhausted(r) THEN moment ELSE settled[r]]
      /\ UNCHANGED <<asked, sequence, listed, reserved>>

-----------------------------------------------------------------------------
(* SETTLE: an ending goes to what is settled, and what is tried again to its lane. *)

Over(r, worker, attempt, status, moment) ==
  /\ Held(r, worker, attempt)
  /\ Write(r, Closed(runs[r], status, moment))
  /\ leased' = [leased EXCEPT ![r] = Out]
  /\ settled' = [settled EXCEPT ![r] = moment]
  /\ UNCHANGED <<lane, listed, reserved>>

Again(r, worker, attempt, due_at, counted) ==
  /\ Held(r, worker, attempt)
  /\ Write(r, Requeued(runs[r], due_at, counted))
  /\ leased' = [leased EXCEPT ![r] = Out]
  /\ lane' = [lane EXCEPT ![r] = due_at]
  /\ UNCHANGED <<settled, listed, reserved>>

(* HEARTBEAT *)
Beat(r, worker, attempt, moment) ==
  /\ Heartbeat(r, worker, attempt, moment)
  /\ leased' = [leased EXCEPT ![r] = moment + Lease]
  /\ UNCHANGED <<lane, settled, listed, reserved>>

(* CANCEL *)
CancelRun(r, moment) ==
  /\ Cancel(r, moment)
  /\ lane' = [lane EXCEPT ![r] = Out]
  /\ settled' = [settled EXCEPT ![r] = moment]
  /\ UNCHANGED <<leased, listed, reserved>>

(* Mutant: the reservation outlives the run it named. *)
UnreservedNever(gone) == reserved

(* The reservation goes with the run it named, and of a ghost nobody knows the key. *)
Unreserved(gone) ==
  [k \in Keys |-> IF \E r \in gone : Present(r) /\ asked[r].key = k THEN Free ELSE reserved[k]]

(* PURGE *)
PurgeSettled(before) ==
  LET gone == First(settled, {r \in Ids : settled[r] # Out /\ settled[r] < before}, PurgeLimit)
  IN  /\ runs' = [r \in Ids |-> IF r \in gone THEN Absent ELSE runs[r]]
      /\ settled' = [r \in Ids |-> IF r \in gone THEN Out ELSE settled[r]]
      /\ reserved' = Unreserved(gone)
      /\ UNCHANGED <<asked, sequence, lane, leased, listed>>

(* Redis: a hash goes, and what names it stays. *)
Evict(r) ==
  /\ Present(r)
  /\ Cardinality(evicted) < Evictions
  /\ Write(r, Absent)
  /\ evicted' = evicted \union {r}
  /\ UNCHANGED <<setVars, listed, reserved, now, call>>

-----------------------------------------------------------------------------
(* store_once *)

Goes(c, there) == call' = [call EXCEPT ![c] = there]

Holder(key) == IF key = NoKey THEN Free ELSE reserved[key]

(* `from' is the id of whatever held the key, or would be the first to: it is remembered *)
(* to say what the caller was owed, and decides nothing.                                 *)
Ask(c, order, delay) ==
  /\ call[c].pc = "idle"
  /\ Goes(c, [pc |-> "adding", order |-> order, due_at |-> now + delay, left |-> Rewrites, run |-> Free,
              from |-> IF Holder(order.key) = Free THEN sequence ELSE Holder(order.key)])
  /\ UNCHANGED <<redisVars, now, evicted>>

WriteRun(c) ==
  /\ call[c].pc = "adding"
  /\ Reservable(call[c].order.key)
  /\ AddRun(call[c].order, call[c].due_at)
  /\ Goes(c, [call[c] EXCEPT !.pc = "answered", !.left = 0, !.run = sequence])
  /\ UNCHANGED <<now, evicted>>

RunRefused(c) ==
  /\ call[c].pc = "adding"
  /\ ~Reservable(call[c].order.key)
  /\ Goes(c, [call[c] EXCEPT !.pc = "finding"])
  /\ UNCHANGED <<redisVars, now, evicted>>

(* What materialize does of a slot: it writes it, or somebody has. *)
WriteSlot(order, due_at) ==
  /\ Reservable(order.key)
  /\ AddRun(order, due_at)

(* Mutant: the last of the writes it is allowed is never asked. *)
MissedEarly(c) ==
  Goes(c, [call[c] EXCEPT !.pc = IF call[c].left <= 2 THEN "raised" ELSE "adding", !.left = @ - 1])

(* Found by nobody: it asks again, until it gives up. *)
Missed(c) ==
  Goes(c, [call[c] EXCEPT !.pc = IF call[c].left = 1 THEN "raised" ELSE "adding", !.left = @ - 1])

FindKey(c) ==
  /\ call[c].pc = "finding"
  /\ \/ Holder(call[c].order.key) = Free /\ Missed(c)
     \/ /\ Holder(call[c].order.key) # Free
        /\ Goes(c, [call[c] EXCEPT !.pc = "reading", !.run = Holder(call[c].order.key)])
  /\ UNCHANGED <<redisVars, now, evicted>>

ReadRun(c) ==
  /\ call[c].pc = "reading"
  /\ \/ Present(call[c].run) /\ Goes(c, [call[c] EXCEPT !.pc = "answered", !.left = 0])
     \/ ~Present(call[c].run) /\ Missed(c)
  /\ UNCHANGED <<redisVars, now, evicted>>

Return(c) ==
  /\ call[c].pc \in {"answered", "raised"}
  /\ Goes(c, NoCall)
  /\ UNCHANGED <<redisVars, now, evicted>>

-----------------------------------------------------------------------------
Tick ==
  /\ now < MaxNow
  /\ now' = now + 1
  /\ UNCHANGED <<redisVars, evicted, call>>

ClaimDue(worker, queues, limit) ==
  /\ ClaimRuns(worker, queues, limit, now)
  /\ UNCHANGED <<now, evicted, call>>

(* What the attempt that holds a run asks for: no other call of an attempt changes anything. *)
HolderCall(r, worker, attempt) ==
  \/ Beat(r, worker, attempt, now)
  \/ \E status \in {"done", "failed"} : Over(r, worker, attempt, status, now)
  \/ \E delay \in Delays :
       \/ Again(r, worker, attempt, now + delay, 0) /\ ~Exhausted(r)
       \/ Again(r, worker, attempt, now + delay, -1)

CallerStep(c) ==
  \/ \E order \in Orders, delay \in Delays : Ask(c, order, delay)
  \/ WriteRun(c) \/ RunRefused(c) \/ FindKey(c) \/ ReadRun(c) \/ Return(c)

Next ==
  \/ Tick
  \/ \E order \in Orders, delay \in Delays :
       WriteSlot(order, now + delay) /\ UNCHANGED <<now, evicted, call>>
  \/ \E c \in Callers : CallerStep(c)
  \/ \E w \in Workers, queues \in SUBSET Queues \ {{}}, limit \in Limits : ClaimDue(w, queues, limit)
  \/ ReclaimLeases(now) /\ UNCHANGED <<now, evicted, call>>
  \/ PurgeSettled(now) /\ UNCHANGED <<now, evicted, call>>
  \/ \E r \in Ids :
       \/ HolderCall(r, runs[r].worker, runs[r].attempts) /\ UNCHANGED <<now, evicted, call>>
       \/ CancelRun(r, now) /\ UNCHANGED <<now, evicted, call>>
       \/ Evict(r)

Spec == Init /\ [][Next]_vars

-----------------------------------------------------------------------------
(***************************************************************************)
(* Correctness.                                                            *)
(***************************************************************************)

(* store/redis.py:108-130,325 - a hash, the set its id waits in and the reservation of its key  *)
(* change together: a run waits in the one set its status names, under the instant its hash     *)
(* holds, in a lane a claim knows of, and its key names it.  Whatever else is in a set or names *)
(* an id was left there by an eviction.                                                         *)
WaitsWhere(set, r, waits, score) ==
  IF Present(r) /\ waits THEN set[r] = score /\ score # Out
  ELSE set[r] = Out \/ (~Present(r) /\ r \in evicted)

Waits(r) ==
  /\ WaitsWhere(lane, r, runs[r].status = "pending", runs[r].due_at)
  /\ WaitsWhere(leased, r, runs[r].status = "running", runs[r].lease_until)
  /\ WaitsWhere(settled, r, runs[r].status \in Settled, runs[r].finished_at)
  /\ Present(r) => <<asked[r].queue, asked[r].priority>> \in listed

Indexed ==
  /\ \A r \in Ids : Waits(r) /\ (Present(r) /\ asked[r].key # NoKey => reserved[asked[r].key] = r)
  /\ \A k \in Keys : reserved[k] # Free =>
       asked[reserved[k]].key = k /\ (Present(reserved[k]) \/ reserved[k] \in evicted)

(* docs/stores.md:362-375, store/base.py:40-97 - the hashes move as the contract of a store     *)
(* lets rows move, and an eviction costs the run it took and brings nothing back.               *)
Kept == INSTANCE Contract

Vanished ==
  /\ \E r \in Ids : Present(r) /\ Write(r, Absent)
  /\ evicted' # evicted /\ UNCHANGED now

LawfulOrEvicted == Kept!ContractInit /\ [][Kept!ContractNext \/ Vanished]_<<redisVars, now>>

(* store/redis.py:24,37,42 - a claim leaves nothing behind that should have gone before what it *)
(* took: a run of a higher priority in any queue it serves, or one of the same that came due    *)
(* first.  Ghosts take up the room of a lane's batch, so with one about nothing is promised.    *)
UrgentFirst ==
  [][\A w \in Workers, queues \in SUBSET Queues, limit \in Limits :
       ClaimDue(w, queues, limit) /\ evicted = {} =>
         \A r, q \in Ids :
           /\ runs[r].status = "pending" /\ runs'[r].status = "running"
           /\ Claimable(q, queues, now) /\ runs'[q].status = "pending"
           => \/ asked[q].priority < asked[r].priority
              \/ asked[q].priority = asked[r].priority /\ runs[q].due_at >= runs[r].due_at]_vars

(* store/redis.py:42 - "merged by when each run came due and then by which was written first,   *)
(* which is the order the other stores read straight out of one index": of two runs of one      *)
(* priority that came due together a claim takes the one written first.                         *)
OldestFirst ==
  [][\A w \in Workers, queues \in SUBSET Queues, limit \in Limits :
       ClaimDue(w, queues, limit) /\ evicted = {} =>
         \A r, q \in Ids :
           /\ runs[r].status = "pending" /\ runs'[r].status = "running"
           /\ Claimable(q, queues, now) /\ runs'[q].status = "pending"
           => Ahead(r, q)]_vars

(* app.py:229-242 - store_once answers with a run that carried the key while it was asking, and *)
(* gives up only when that many of its holders went away under it, or when an eviction left the *)
(* key with nobody.                                                                             *)
HeldMeanwhile(c) ==
  {r \in Ids : asked[r] # NoOrder /\ asked[r].key = call[c].order.key /\ r >= call[c].from}

OnceAnswers ==
  \A c \in Callers :
    /\ call[c].pc = "answered" => call[c].run \in HeldMeanwhile(c)
    /\ call[c].pc = "raised" =>
         \/ Cardinality({r \in HeldMeanwhile(c) : ~Present(r)}) >= Rewrites
         \/ HeldMeanwhile(c) \intersect evicted # {}

-----------------------------------------------------------------------------
(* What of all this makes it inductive. *)

Levels == {o.priority : o \in Orders}

Call == [pc : {"idle", "adding", "finding", "reading", "answered", "raised"},
         order : Orders \union {NoOrder}, due_at : Nat, left : 0 .. Rewrites,
         run : Ids \union {Free}, from : 0 .. MaxRuns + 1]

Scores == [Ids -> Nat \union {Out}]

TypeOK ==
  /\ StoreType
  /\ now \in 0 .. MaxNow
  /\ lane \in Scores /\ leased \in Scores /\ settled \in Scores
  /\ listed \subseteq Queues \X Levels
  /\ reserved \in [Keys -> Ids \union {Free}]
  /\ evicted \subseteq Ids
  /\ call \in [Callers -> Call]

(* An id is given once: what was never written is nowhere, and what is gone stays gone. *)
WrittenOnce ==
  \A r \in Ids :
    /\ r < sequence => asked[r] \in Orders
    /\ r >= sequence => asked[r] = NoOrder /\ ~Present(r)
    /\ r \in evicted => r < sequence
    /\ Present(r) => r \notin evicted
    /\ ~Present(r) => runs[r] = Absent

Vacated(c) == {r \in HeldMeanwhile(c) : ~Present(r)}

(* As many holders of the key went away under the caller as it asked for nothing, and once it   *)
(* was refused one more, unless the one it was refused for still stands.                        *)
Spent(c, standing) ==
  LET asks == Rewrites - call[c].left
  IN  \/ HeldMeanwhile(c) \intersect evicted # {}
      \/ Cardinality(Vacated(c)) > asks
      \/ Cardinality(Vacated(c)) = asks /\ standing

Owed(c) ==
  LET key == call[c].order.key
  IN  call[c].pc # "idle" =>
        /\ call[c].order \in Orders
        /\ call[c].from \in 1 .. sequence
        /\ key # NoKey /\ reserved[key] # Free => reserved[key] >= call[c].from
        /\ call[c].pc \in {"adding", "finding", "reading"} => call[c].left >= 1
        /\ call[c].pc \in {"finding", "reading"} => key # NoKey
        /\ call[c].pc = "adding" => Spent(c, TRUE)
        /\ call[c].pc = "finding" => Spent(c, reserved[key] # Free /\ Present(reserved[key]))
        /\ call[c].pc = "reading" => call[c].run \in HeldMeanwhile(c) /\ Spent(c, Present(call[c].run))
        /\ call[c].pc = "answered" => call[c].run \in HeldMeanwhile(c)
        /\ call[c].pc = "raised" => Spent(c, TRUE) /\ call[c].left = 0

(* store/redis.py:108-196, app.py:229-242 - beside what is indexed, an id that is gone, purged  *)
(* or evicted, is never written again, and a caller of store_once that was refused its key can   *)
(* account for every time it asks again: by a holder that went away since, or an eviction.       *)
RedisInv ==
  /\ TypeOK
  /\ WrittenOnce
  /\ Indexed
  /\ \A c \in Callers : Owed(c)
=============================================================================
