------------------------------- MODULE SqlStore -------------------------------
(***************************************************************************)
(* The store in a database (store/sqlalchemy.py), shared by workers.       *)
(*                                                                         *)
(* A claim reads its candidates without a lock and takes them one by one,  *)
(* each in a transaction of its own.  A sweep is one transaction of two    *)
(* reads and two updates; a pruning reads a batch and then deletes it.     *)
(* What the database refuses under contention is asked again, TRIES times. *)
(* A worker is in one of these at a time, since its passes await them in   *)
(* turn.  Every other call is one conditional statement on one row with a  *)
(* commit behind it: a step, that waits while a sweep has the row locked.  *)
(*                                                                         *)
(* `runs' is what is committed.  A row a sweep wrote and did not commit is *)
(* locked by it: nobody writes it, and everybody still reads the old one.  *)
(***************************************************************************)
EXTENDS Store, Sequences

CONSTANTS
  Limits,         \* how many runs a claim may ask for
  Spread,         \* CLAIM_SPREAD: the candidates read for each run asked for
  PurgeLimit,     \* PURGE_LIMIT
  Tries,          \* TRIES: how often a contended write is asked
  Delays,         \* the waits a call may ask for
  MaxNow          \* bound: the last instant of the clock

ASSUME SqlAssumption ==
  /\ Limits \subseteq Nat \ {0}
  /\ Spread \in Nat \ {0}
  /\ PurgeLimit \in Nat \ {0}
  /\ Tries \in Nat \ {0}
  /\ Delays \subseteq Nat
  /\ MaxNow \in Nat

VARIABLES
  now,            \* the clock every worker reads
  call,           \* worker -> the claim, the sweep or the pruning it is in
  handed,         \* the attempts a claim answered with, until their ending was sent
  lost            \* the ids whose last claim or ending went unheard, or whose worker died

sqlVars == <<now, call, handed, lost>>
vars == <<runs, asked, sequence, now, call, handed, lost>>

Attempt(w, r, n) == [worker |-> w, run |-> r, attempt |-> n]

NoCall == [pc |-> "idle", moment |-> 0, tries |-> 0, limit |-> 0, ready |-> <<>>, taken |-> {},
           batch |-> {}, seen |-> {}, failing |-> {}, queueing |-> {}]

Init ==
  /\ StoreInit
  /\ now = 0
  /\ call = [w \in Workers |-> NoCall]
  /\ handed = {}
  /\ lost = {}

-----------------------------------------------------------------------------
(* Locks, and the two ways a statement fails. *)

LockedBy(w) == call[w].failing \union call[w].queueing

Locked(r, w) == \E v \in Workers \ {w} : r \in LockedBy(v)

Goes(w, c) == call' = [call EXCEPT ![w] = c]

(* The pc a contended transaction begins again at. *)
Again(pc) ==
  CASE pc = "taking" -> "taking"
    [] pc \in {"giving_up", "rereading", "requeueing", "committing"} -> "sweeping"
    [] pc = "deleting" -> "purging"

(* Mutant: the schedule never runs out. *)
ContendedForEver(w) ==
  LET c == call[w]
  IN  /\ c.pc \in {"taking", "giving_up", "rereading", "requeueing", "committing", "deleting"}
      /\ Goes(w, [c EXCEPT !.pc = Again(c.pc), !.batch = {}, !.seen = {},
                           !.failing = {}, !.queueing = {}])
      /\ UNCHANGED <<storeVars, now, handed, lost>>

(* The database rolled the transaction back and asks for it again. *)
Contended(w) ==
  LET c == call[w]
  IN  /\ c.pc \in {"taking", "giving_up", "rereading", "requeueing", "committing", "deleting"}
      /\ c.tries < Tries - 1
      /\ Goes(w, [c EXCEPT !.pc = Again(c.pc), !.tries = @ + 1, !.batch = {}, !.seen = {},
                           !.failing = {}, !.queueing = {}])
      /\ UNCHANGED <<storeVars, now, handed, lost>>

(* Anything else it answers with, or a contention too many: a sweep and a pruning raise it. *)
Broken(w) ==
  /\ call[w].pc \in {"sweeping", "giving_up", "rereading", "requeueing", "committing", "purging", "deleting"}
  /\ Goes(w, NoCall)
  /\ UNCHANGED <<storeVars, now, handed, lost>>

-----------------------------------------------------------------------------
(* The claim. *)

(* What one read may answer with: the rows that stand first, in their order. *)
Candidates(queues, limit, moment) ==
  LET first == Won(queues, limit * Spread, moment)
  IN  {ready \in [1 .. Cardinality(first) -> first] :
         \A i, j \in 1 .. Cardinality(first) : i < j => Ahead(ready[i], ready[j])}

ReadCandidates(w, queues, limit) ==
  /\ call[w].pc = "idle"
  /\ \E ready \in Candidates(queues, limit, now) :
       Goes(w, [NoCall EXCEPT !.pc = "taking", !.moment = now, !.limit = limit, !.ready = ready])
  /\ UNCHANGED <<storeVars, now, handed, lost>>

Taking(w) ==
  /\ call[w].pc = "taking"
  /\ call[w].ready # <<>>
  /\ Cardinality(call[w].taken) < call[w].limit

(* The condition of the update of `take', asked of the row as it is when the lock is had. *)
StillMine(r, moment) == runs[r].status = "pending" /\ runs[r].due_at <= moment

TakeIt(w, r) ==
  /\ ~Locked(r, w)
  /\ StillMine(r, call[w].moment)
  /\ Write(r, ClaimedBy(runs[r], w, call[w].moment))

(* The candidate is taken, read back and committed; or somebody else has it, and the next is tried. *)
TakeNext(w) ==
  LET c == call[w]
      r == Head(c.ready)
      mine == Attempt(w, r, runs[r].attempts + 1)
  IN  /\ Taking(w)
      /\ \/ /\ TakeIt(w, r)
            /\ Goes(w, [c EXCEPT !.ready = Tail(@), !.tries = 0, !.taken = @ \union {mine}])
            /\ lost' = lost \ {r}
         \/ /\ ~Locked(r, w) /\ ~StillMine(r, c.moment)
            /\ Goes(w, [c EXCEPT !.ready = Tail(@), !.tries = 0])
            /\ UNCHANGED <<storeVars, lost>>
      /\ UNCHANGED <<now, handed>>

(* Mutant: a batch that broke takes what it had won with it. *)
TakeBrokenWhole(w) ==
  /\ Taking(w)
  /\ Goes(w, NoCall)
  /\ UNCHANGED <<storeVars, now, handed, lost>>

(* It broke: the claim answers with what it won so far, or raises with nothing won. *)
TakeBroken(w) ==
  /\ Taking(w)
  /\ Goes(w, NoCall)
  /\ handed' = handed \union call[w].taken
  /\ UNCHANGED <<storeVars, now, lost>>

(* It broke with the commit behind it: the row is taken, and nobody was told. *)
TakeUnheard(w) ==
  LET r == Head(call[w].ready)
  IN  /\ Taking(w)
      /\ TakeIt(w, r)
      /\ Goes(w, NoCall)
      /\ handed' = handed \union call[w].taken
      /\ lost' = lost \union {r}
      /\ UNCHANGED now

ClaimAnswered(w) ==
  /\ call[w].pc = "taking" /\ ~Taking(w)
  /\ Goes(w, NoCall)
  /\ handed' = handed \union call[w].taken
  /\ UNCHANGED <<storeVars, now, lost>>

-----------------------------------------------------------------------------
(* The sweep. *)

Over(moment) == {r \in Ids : Expired(r, moment) /\ Exhausted(r)}
Left(moment) == {r \in Ids : Expired(r, moment) /\ ~Exhausted(r)}

Sweep(w) ==
  /\ call[w].pc = "idle"
  /\ Goes(w, [NoCall EXCEPT !.pc = "sweeping", !.moment = now])
  /\ UNCHANGED <<storeVars, now, handed, lost>>

(* The first read, which is also the snapshot the second may be answered from. *)
ReadOver(w) ==
  LET c == call[w]
  IN  /\ c.pc = "sweeping"
      /\ Goes(w, [c EXCEPT !.pc = "giving_up", !.batch = Oldest(Over(c.moment), ReclaimBatch),
                           !.seen = Left(c.moment)])
      /\ UNCHANGED <<storeVars, now, handed, lost>>

(* The update asks again for the condition its rows were read under. *)
GiveUp(w) ==
  LET c == call[w]
  IN  /\ c.pc = "giving_up"
      /\ \A r \in c.batch : ~Locked(r, w)
      /\ Goes(w, [c EXCEPT !.pc = "rereading", !.failing = c.batch \intersect Over(c.moment),
                           !.batch = {}])
      /\ UNCHANGED <<storeVars, now, handed, lost>>

(* Mutant: each half of the sweep has a batch of its own. *)
ReadLeftWhole(w) ==
  LET c == call[w]
  IN  /\ c.pc = "rereading"
      /\ Goes(w, [c EXCEPT !.pc = "requeueing", !.batch = Oldest(Left(c.moment), ReclaimBatch)])
      /\ UNCHANGED <<storeVars, now, handed, lost>>

(* What is left of the batch after what was given up on.  What the read sees is the isolation   *)
(* of the database: what is committed by now, or what was when the transaction first read.      *)
ReadLeft(w) ==
  LET c == call[w]
      room == ReclaimBatch - Cardinality(c.failing)
  IN  /\ c.pc = "rereading"
      /\ \E visible \in {Left(c.moment), c.seen} :
           Goes(w, [c EXCEPT !.pc = "requeueing", !.batch = Oldest(visible, room),
                             !.seen = {}])
      /\ UNCHANGED <<storeVars, now, handed, lost>>

(* Mutant: the rows named by the read are written whatever they have since become. *)
RequeueNamed(w) ==
  LET c == call[w]
  IN  /\ c.pc = "requeueing"
      /\ \A r \in c.batch : ~Locked(r, w)
      /\ Goes(w, [c EXCEPT !.pc = "committing", !.queueing = c.batch, !.batch = {}])
      /\ UNCHANGED <<storeVars, now, handed, lost>>

Requeue(w) ==
  LET c == call[w]
  IN  /\ c.pc = "requeueing"
      /\ \A r \in c.batch : ~Locked(r, w)
      /\ Goes(w, [c EXCEPT !.pc = "committing", !.queueing = c.batch \intersect Left(c.moment),
                           !.batch = {}])
      /\ UNCHANGED <<storeVars, now, handed, lost>>

Commit(w) ==
  LET c == call[w]
  IN  /\ c.pc = "committing"
      /\ runs' = [r \in Ids |-> IF r \in c.failing THEN Closed(runs[r], "failed", c.moment)
                                ELSE IF r \in c.queueing THEN Requeued(runs[r], c.moment, 0)
                                ELSE runs[r]]
      /\ Goes(w, NoCall)
      /\ UNCHANGED <<asked, sequence, now, handed, lost>>

-----------------------------------------------------------------------------
(* The pruning. *)

Prune(w) ==
  /\ call[w].pc = "idle"
  /\ Goes(w, [NoCall EXCEPT !.pc = "purging", !.moment = now])
  /\ UNCHANGED <<storeVars, now, handed, lost>>

ReadSettled(w) ==
  LET c == call[w]
  IN  /\ c.pc = "purging"
      /\ Goes(w, [c EXCEPT !.pc = "deleting",
                           !.batch = Oldest({r \in Ids : Prunable(r, c.moment)}, PurgeLimit)])
      /\ UNCHANGED <<storeVars, now, handed, lost>>

Delete(w) ==
  LET c == call[w]
  IN  /\ c.pc = "deleting"
      /\ runs' = [r \in Ids |-> IF r \in c.batch /\ Prunable(r, c.moment) THEN Absent ELSE runs[r]]
      /\ Goes(w, NoCall)
      /\ UNCHANGED <<asked, sequence, now, handed, lost>>

-----------------------------------------------------------------------------
(* The calls of one statement. *)

Insert(order, delay) ==
  /\ Add(order, now + delay)
  /\ UNCHANGED sqlVars

CancelRun(r) ==
  /\ Cancel(r, now)
  /\ UNCHANGED sqlVars

Beat(a) ==
  /\ ~Locked(a.run, Nobody)
  /\ Heartbeat(a.run, a.worker, a.attempt, now)
  /\ UNCHANGED sqlVars

Holds(a) == Held(a.run, a.worker, a.attempt)

(* An ending is sent once, and a retry only while the policy allows one.  What no longer holds *)
(* the row is refused.                                                                          *)
End(a) ==
  /\ ~Locked(a.run, Nobody)
  /\ \/ Complete(a.run, a.worker, a.attempt, now)
     \/ Fail(a.run, a.worker, a.attempt, now)
     \/ \E delay \in Delays :
          \/ ~Exhausted(a.run) /\ RetryLater(a.run, a.worker, a.attempt, now + delay)
          \/ Release(a.run, a.worker, a.attempt, now + delay)
     \/ ~Holds(a) /\ UNCHANGED storeVars
  /\ handed' = handed \ {a}
  /\ UNCHANGED <<now, call, lost>>

(* It never landed, however often it was tried. *)
EndLost(a) ==
  /\ Holds(a)
  /\ handed' = handed \ {a}
  /\ lost' = lost \union {a.run}
  /\ UNCHANGED <<storeVars, now, call>>

-----------------------------------------------------------------------------
(* The worker is gone: its transaction is rolled back, and nobody answers for what it took. *)
Crash(w) ==
  LET mine == {a \in handed : a.worker = w} \union call[w].taken
  IN  /\ Goes(w, NoCall)
      /\ handed' = handed \ mine
      /\ lost' = lost \union {a.run : a \in {b \in mine : Holds(b)}}
      /\ UNCHANGED <<storeVars, now>>

Tick ==
  /\ now < MaxNow
  /\ now' = now + 1
  /\ UNCHANGED <<storeVars, call, handed, lost>>

(* What the database does of a call it was given. *)
CallStep(w) ==
  \/ Broken(w) \/ TakeBroken(w) \/ Contended(w)
  \/ TakeNext(w) \/ TakeUnheard(w) \/ ClaimAnswered(w)
  \/ ReadOver(w) \/ GiveUp(w) \/ ReadLeft(w) \/ Requeue(w) \/ Commit(w)
  \/ ReadSettled(w) \/ Delete(w)

Next ==
  \/ Tick
  \/ \E order \in Orders, delay \in Delays : Insert(order, delay)
  \/ \E r \in Ids : CancelRun(r)
  \/ \E a \in handed : Beat(a) \/ End(a) \/ EndLost(a)
  \/ \E w \in Workers :
       \/ \E limit \in Limits : ReadCandidates(w, {o.queue : o \in Orders}, limit)
       \/ Sweep(w) \/ Prune(w) \/ CallStep(w) \/ Crash(w)

(* A database answers every statement, at the latest with the lock it waited too long for. *)
Fairness == \A w \in Workers : WF_vars(CallStep(w))

Spec == Init /\ [][Next]_vars /\ Fairness

-----------------------------------------------------------------------------
(***************************************************************************)
(* Correctness.                                                            *)
(***************************************************************************)

Pcs == {"idle", "taking", "sweeping", "giving_up", "rereading", "requeueing", "committing",
        "purging", "deleting"}

Attempts == [worker : Workers, run : Ids, attempt : Int]

Call == [pc : Pcs, moment : 0 .. MaxNow, tries : Nat, limit : Nat, ready : Seq(Ids),
         taken : SUBSET Attempts,
         batch : SUBSET Ids, seen : SUBSET Ids, failing : SUBSET Ids, queueing : SUBSET Ids]

TypeOK ==
  /\ StoreType
  /\ now \in 0 .. MaxNow
  /\ call \in [Workers -> Call]
  /\ \A w \in Workers : call[w].moment <= now
  /\ handed \subseteq Attempts
  /\ lost \subseteq Ids

UnwrittenIsAbsent == \A r \in Ids : r >= sequence => ~Present(r)

(* Only a claim has something taken. *)
TakenByClaims == \A w \in Workers : call[w].pc # "taking" => call[w].taken = {}

(* What a sweep has locked is what it may write, until it commits. *)
LocksStand ==
  \A w \in Workers :
    /\ call[w].failing \subseteq Over(call[w].moment)
    /\ call[w].queueing \subseteq Left(call[w].moment)

(* No row is locked twice. *)
LocksApart == \A v, w \in Workers : v # w => LockedBy(v) \intersect LockedBy(w) = {}

(* What a sweep holds and what it is about to write are one batch, whichever read found them. *)
IsOneBatch(c) ==
  /\ c.pc \notin {"rereading", "requeueing", "committing"} => c.failing = {}
  /\ c.pc # "committing" => c.queueing = {}
  /\ c.pc \in {"giving_up", "requeueing"} => Cardinality(c.failing) + Cardinality(c.batch) <= ReclaimBatch
  /\ Cardinality(c.failing) + Cardinality(c.queueing) <= ReclaimBatch

OneBatch == \A w \in Workers : IsOneBatch(call[w])

(* store/sqlalchemy.py:290-318 - between its two reads and its two updates a sweep holds locks  *)
(* on rows that are still what it read them as, that no other sweep holds, and that are one     *)
(* batch together; nothing a claim, a beat, an ending, a cancel or a pruning does in the middle *)
(* of it changes that.                                                                           *)
SqlInv ==
  /\ TypeOK
  /\ UnwrittenIsAbsent
  /\ TakenByClaims
  /\ LocksStand
  /\ LocksApart
  /\ OneBatch

Kept == INSTANCE Contract

(* store/base.py:40-97 - whatever interleaves with the reads and the writes of a claim, of a    *)
(* sweep and of a pruning, what is committed is what a store may do: a row is taken by one      *)
(* claim, a lease renewed in time is never taken back, and one sweep writes one batch.          *)
Lawful == Kept!ContractSpec

Answering(a) == a \in handed \/ \E w \in Workers : a \in call[w].taken

(* store/sqlalchemy.py:222,237 - a run that is claimed is on its way to the worker it was       *)
(* claimed for, or with it, unless something was lost: a worker that died, a commit or an       *)
(* ending nobody heard of.  A claim that broke halfway loses nothing.                           *)
RunningIsAnswered ==
  \A r \in Ids : runs[r].status = "running" =>
    LET a == Attempt(runs[r].worker, r, runs[r].attempts)
    IN  Answering(a) \/ r \in lost

(* store/sqlalchemy.py:45-56 - a call ends, answered or raised, however the database is         *)
(* contended and whoever it waits for.                                                          *)
CallsEnd == \A w \in Workers : call[w].pc # "idle" ~> call[w].pc = "idle"
=============================================================================
