------------------------------- MODULE Worker -------------------------------
(***************************************************************************)
(* One worker from the inside: its polling loop (run, run_once, drain),    *)
(* the tasks it spawns, and the threads it keeps for plain handlers.  The  *)
(* store is only what a claim answers; what it does with the calls is      *)
(* Store's and Fleet's business.                                           *)
(*                                                                         *)
(* Every step is what the event loop, or one thread, does between two      *)
(* awaits.  An attempt is handed to a worker once, so a run that comes     *)
(* back is another member of Attempts.                                     *)
(***************************************************************************)
EXTENDS Integers, FiniteSets

CONSTANTS
  Attempts,       \* what the claims of this worker may ever be answered with
  Plain,          \* the ones whose handler is a plain function, and runs on a thread
  Timed,          \* the ones whose task has a timeout
  Declared,       \* the ones whose name this worker declares
  Concurrency     \* how many runs it holds at once, and how many threads it has

ASSUME WorkerAssumption ==
  /\ Plain \subseteq Attempts
  /\ Timed \subseteq Attempts
  /\ Declared \subseteq Attempts
  /\ IsFiniteSet(Attempts)
  /\ Concurrency \in Nat \ {0}

VARIABLES
  loop,           \* where `run' is
  asked,          \* the limit the claim in flight was made with
  stopping,       \* the event `stop' sets
  pool,           \* whether the pool takes work
  running,        \* the tasks this worker counts, until a callback drops each of them
  job,            \* attempt -> where its task is
  ending,         \* attempt -> what it asked the store to write
  work,           \* attempt -> what became of its handler on the pool
  entered,        \* the attempts whose handler ran its first line
  stranded        \* the threads still inside a handler this worker stopped waiting for

loopVars == <<loop, asked, stopping, pool>>
jobVars == <<running, job, ending, work, entered, stranded>>
vars == <<loop, asked, stopping, pool, running, job, ending, work, entered, stranded>>

Init ==
  /\ loop = "polling"
  /\ asked = 0
  /\ stopping = FALSE
  /\ pool = "open"
  /\ running = {}
  /\ job = [a \in Attempts |-> "none"]
  /\ ending = [a \in Attempts |-> "none"]
  /\ work = [a \in Attempts |-> "none"]
  /\ entered = {}
  /\ stranded = {}

-----------------------------------------------------------------------------
(* What the worker counts. *)

Fresh == {a \in Attempts : job[a] = "none"}

(* Mutant: a thread nobody waits for is counted free. *)
FreeOfThreads == Concurrency - Cardinality(running)

(* It falls below zero while a run and the thread it left behind are both counted. *)
Free == Concurrency - Cardinality(running) - Cardinality(stranded)

Inside == {a \in Attempts : work[a] = "inside"}
Queued == {a \in Attempts : work[a] = "queued"}

-----------------------------------------------------------------------------
(* The loop.  Each step ends at an await: the three calls of the           *)
(* housekeeping, the claim, the poll, the grace.  A housekeeping call the  *)
(* store refused is logged and the pass goes on.                           *)

(* Mutant: the loop goes on whatever it was asked. *)
PassOnward == loop = "polling" /\ loop' = "reclaiming" /\ UNCHANGED <<asked, stopping, pool, jobVars>>

Pass ==
  /\ loop = "polling"
  /\ ~stopping
  /\ loop' = "reclaiming"
  /\ UNCHANGED <<asked, stopping, pool, jobVars>>

Tidy ==
  /\ loop = "reclaiming"
  /\ loop' = "tidying"
  /\ UNCHANGED <<asked, stopping, pool, jobVars>>

Materialize ==
  /\ loop = "tidying"
  /\ loop' = "materializing"
  /\ UNCHANGED <<asked, stopping, pool, jobVars>>

SkipClaim ==
  /\ loop = "materializing"
  /\ Free <= 0
  /\ loop' = "waiting"
  /\ UNCHANGED <<asked, stopping, pool, jobVars>>

(* Mutant: the claim is made with whatever is left. *)
SendClaimAnyway ==
  /\ loop = "materializing"
  /\ asked' = Free
  /\ loop' = "claiming"
  /\ UNCHANGED <<stopping, pool, jobVars>>

SendClaim ==
  /\ loop = "materializing"
  /\ Free > 0
  /\ asked' = Free
  /\ loop' = "claiming"
  /\ UNCHANGED <<stopping, pool, jobVars>>

(* The claim is answered with what it won, and a task is spawned for each. *)
Spawn(won) ==
  /\ loop = "claiming"
  /\ won \subseteq Fresh /\ Cardinality(won) <= asked
  /\ running' = running \union won
  /\ job' = [a \in Attempts |-> IF a \in won THEN "starting" ELSE job[a]]
  /\ loop' = "waiting"
  /\ UNCHANGED <<asked, stopping, pool, ending, work, entered, stranded>>

(* The claim raised: the pass is over. *)
ClaimFailed ==
  /\ loop = "claiming"
  /\ loop' = "waiting"
  /\ UNCHANGED <<asked, stopping, pool, jobVars>>

(* The poll runs out, or `stop' ends it. *)
Poll ==
  /\ loop = "waiting"
  /\ loop' = "polling"
  /\ UNCHANGED <<asked, stopping, pool, jobVars>>

(* With nothing in flight the drain is over before it began, and the pool is closed. *)
Drain ==
  /\ loop = "polling"
  /\ stopping
  /\ IF running = {} THEN loop' = "closed" /\ pool' = "closed"
                     ELSE loop' = "draining" /\ UNCHANGED pool
  /\ UNCHANGED <<asked, stopping, jobVars>>

(* Everything landed, or the grace ran out: the pool is closed and never waited on. *)
Drained ==
  /\ loop = "draining"
  /\ loop' = "closed"
  /\ pool' = "closed"
  /\ UNCHANGED <<asked, stopping, jobVars>>

Stop ==
  /\ ~stopping
  /\ stopping' = TRUE
  /\ UNCHANGED <<loop, asked, pool, jobVars>>

(* The task `run' is in is cancelled, at whatever it was awaiting: a claim's answer is lost. *)
CancelLoop ==
  /\ loop # "closed"
  /\ loop' = "closed"
  /\ pool' = "closed"
  /\ UNCHANGED <<asked, stopping, jobVars>>

LoopStep ==
  \/ Pass \/ Tidy \/ Materialize \/ SkipClaim \/ SendClaim \/ ClaimFailed \/ Poll \/ Drain \/ Drained
  \/ \E won \in SUBSET Fresh : Spawn(won)

-----------------------------------------------------------------------------
(* The task of one attempt. *)

Ends(a, outcome) ==
  /\ job' = [job EXCEPT ![a] = "ending"]
  /\ ending' = [ending EXCEPT ![a] = outcome]

(* The lookup fails: the attempt is given back. *)
Unknown(a) ==
  /\ job[a] = "starting" /\ a \notin Declared
  /\ Ends(a, "release")
  /\ UNCHANGED <<loopVars, running, work, entered, stranded>>

(* A coroutine is entered on the loop. *)
Await(a) ==
  /\ job[a] = "starting" /\ a \in Declared \ Plain
  /\ job' = [job EXCEPT ![a] = "awaiting"]
  /\ entered' = entered \union {a}
  /\ UNCHANGED <<loopVars, running, ending, work, stranded>>

(* A plain handler is queued for a thread. *)
Submit(a) ==
  /\ job[a] = "starting" /\ a \in Declared \intersect Plain
  /\ pool = "open"
  /\ job' = [job EXCEPT ![a] = "handed"]
  /\ work' = [work EXCEPT ![a] = "queued"]
  /\ UNCHANGED <<loopVars, running, ending, entered, stranded>>

(* The pool is closed and refuses the work: what it raises is settled like a failure of the handler. *)
SubmitRefused(a) ==
  /\ job[a] = "starting" /\ a \in Declared \intersect Plain
  /\ pool = "closed"
  /\ Ends(a, "settle")
  /\ UNCHANGED <<loopVars, running, work, entered, stranded>>

(* The coroutine answers or raises. *)
Answered(a) ==
  /\ job[a] = "awaiting"
  /\ Ends(a, "settle")
  /\ UNCHANGED <<loopVars, running, work, entered, stranded>>

(* The loop hears from the thread that the handler returned or raised. *)
Heard(a) ==
  /\ job[a] = "handed" /\ work[a] = "done"
  /\ Ends(a, "settle")
  /\ UNCHANGED <<loopVars, running, work, entered, stranded>>

(* The timeout of a coroutine ends the work, the timeout of a plain handler only the waiting. *)
TimeoutAwait(a) ==
  /\ a \in Timed /\ job[a] = "awaiting"
  /\ Ends(a, "settle")
  /\ UNCHANGED <<loopVars, running, work, entered, stranded>>

(* Mutant: the look at the state decides it and the work is left in the queue. *)
TimeoutQueuedLeft(a) ==
  /\ a \in Timed /\ job[a] = "handed" /\ work[a] = "queued"
  /\ Ends(a, "release")
  /\ UNCHANGED <<loopVars, running, work, entered, stranded>>

(* The work is taken off the pool before any thread took it up, and never begins. *)
TimeoutQueued(a) ==
  /\ a \in Timed /\ job[a] = "handed" /\ work[a] = "queued"
  /\ Ends(a, "release")
  /\ work' = [work EXCEPT ![a] = "cancelled"]
  /\ UNCHANGED <<loopVars, running, entered, stranded>>

(* Mutant: the thread is given up and not counted. *)
TimeoutForgotten(a) ==
  /\ a \in Timed /\ job[a] = "handed" /\ work[a] \in {"inside", "done"}
  /\ Ends(a, "settle")
  /\ UNCHANGED <<loopVars, running, work, entered, stranded>>

(* Mutant: the timeout waits for the thread. *)
TimeoutWaiting(a) ==
  /\ a \in Timed /\ job[a] = "handed" /\ work[a] = "done"
  /\ Ends(a, "settle")
  /\ UNCHANGED <<loopVars, running, work, entered, stranded>>

(* A thread took it up, and may be through with it already: it is counted while it is not. *)
TimeoutInside(a) ==
  /\ a \in Timed /\ job[a] = "handed" /\ work[a] \in {"inside", "done"}
  /\ Ends(a, "settle")
  /\ stranded' = IF work[a] = "inside" THEN stranded \union {a} ELSE stranded
  /\ UNCHANGED <<loopVars, running, work, entered>>

(* The ending was answered, refused or lost; the listeners are through and the beat is over. *)
Over(a) ==
  /\ job[a] = "ending"
  /\ job' = [job EXCEPT ![a] = "over"]
  /\ UNCHANGED <<loopVars, running, ending, work, entered, stranded>>

(* The callback the loop runs later drops the task. *)
Discard(a) ==
  /\ job[a] = "over" /\ a \in running
  /\ running' = running \ {a}
  /\ UNCHANGED <<loopVars, job, ending, work, entered, stranded>>

(* With `run' over, the program around it ends and every task left is cancelled where it stands. *)
CancelJob(a) ==
  /\ loop = "closed"
  /\ job[a] \in {"starting", "awaiting", "handed", "ending"}
  /\ job' = [job EXCEPT ![a] = "over"]
  /\ work' = [work EXCEPT ![a] = IF job[a] = "handed" /\ @ = "queued" THEN "cancelled" ELSE @]
  /\ stranded' = IF job[a] = "handed" /\ work[a] = "inside" THEN stranded \union {a} ELSE stranded
  /\ UNCHANGED <<loopVars, running, ending, entered>>

JobStep(a) ==
  \/ Unknown(a) \/ Await(a) \/ Submit(a) \/ SubmitRefused(a)
  \/ TimeoutAwait(a) \/ TimeoutQueued(a) \/ TimeoutInside(a)
  \/ Heard(a) \/ Over(a) \/ Discard(a)

-----------------------------------------------------------------------------
(* The threads: a closed pool takes no more work and still runs what it was given. *)

Begin(a) ==
  /\ a \in Queued /\ Cardinality(Inside) < Concurrency
  /\ work' = [work EXCEPT ![a] = "inside"]
  /\ entered' = entered \union {a}
  /\ UNCHANGED <<loopVars, running, job, ending, stranded>>

Return(a) ==
  /\ a \in Inside
  /\ work' = [work EXCEPT ![a] = "done"]
  /\ stranded' = stranded \ {a}
  /\ UNCHANGED <<loopVars, running, job, ending, entered>>

Next ==
  \/ LoopStep \/ Stop \/ CancelLoop
  \/ \E a \in Attempts : JobStep(a) \/ Answered(a) \/ CancelJob(a) \/ Begin(a) \/ Return(a)

(* The loop is never kept from its next step: a store call answers or raises, and the poll and  *)
(* the grace run out.  A task is never kept from its own: a listener returns, an ending answers *)
(* or raises, a timeout fires.  Nothing makes a handler return, on the loop or on a thread.     *)
Fairness == WF_vars(LoopStep) /\ \A a \in Attempts : WF_vars(JobStep(a))

Spec == Init /\ [][Next]_vars /\ Fairness

-----------------------------------------------------------------------------
(***************************************************************************)
(* Correctness.                                                            *)
(***************************************************************************)

(* The shape of every variable (worker.py:102-191). *)
TypeOK ==
  /\ loop \in {"polling", "reclaiming", "tidying", "materializing", "claiming", "waiting",
               "draining", "closed"}
  /\ asked \in 0 .. Concurrency
  /\ stopping \in BOOLEAN
  /\ pool \in {"open", "closed"}
  /\ running \subseteq Attempts
  /\ job \in [Attempts -> {"none", "starting", "awaiting", "handed", "ending", "over"}]
  /\ ending \in [Attempts -> {"none", "settle", "release"}]
  /\ work \in [Attempts -> {"none", "queued", "inside", "done", "cancelled"}]
  /\ entered \subseteq Attempts
  /\ stranded \subseteq Attempts

(* worker.py:225-233 - no run is ever claimed onto a pool with no thread left for it: whatever  *)
(* handlers did past their timeouts, the work handed to the pool and not over never exceeds     *)
(* its threads, not even with every run the claim in flight may still bring.                    *)
ThreadForEveryRun ==
  /\ Cardinality(Inside \union Queued \union running) <= Concurrency
  /\ loop = "claiming" => Cardinality(Inside \union Queued \union running) + asked <= Concurrency

(* worker.py:422-428 - the threads counted out are exactly the ones inside a handler nobody     *)
(* waits for: one more would be a slot lost for good, one less a run with no thread.            *)
StrandedAreCounted == stranded = {a \in Inside : job[a] # "handed"}

(* worker.py:397-402 - an attempt given back is one whose handler is never entered, not even by *)
(* a thread that reaches its work after the decision.                                            *)
GivenBackUntried == \A a \in Attempts : ending[a] = "release" => a \notin entered

(* The invariant that steps keep.  A task that is not over is counted; the pool has work only    *)
(* of tasks it was submitted by, and nobody's once they gave it up unbegun; a handler that never *)
(* began has entered nothing; and an ending is asked for once. *)
Tracked(a) ==
  /\ job[a] \in {"starting", "awaiting", "handed", "ending"} => a \in running
  /\ job[a] \in {"none", "starting", "awaiting"} => work[a] = "none"
  /\ work[a] = "queued" => job[a] = "handed"
  /\ job[a] \in {"none", "starting"} \/ work[a] \in {"queued", "cancelled"} => a \notin entered
  /\ job[a] \in {"none", "starting", "awaiting", "handed"} => ending[a] = "none"

(* worker.py:225-233,397-428 - the counts, the threads and the attempts given back agree at once. *)
WorkerInv ==
  /\ TypeOK
  /\ \A a \in Attempts : Tracked(a)
  /\ ThreadForEveryRun /\ StrandedAreCounted /\ GivenBackUntried

(* docs/workers.md:161 - a worker asked to stop is over in the end, whatever its handlers do.   *)
StopEnds == stopping ~> loop = "closed"

(* docs/workers.md:180 - a timeout bounds the waiting even of a handler that never returns: its *)
(* slot comes free, whatever the loop and the threads do meanwhile.                              *)
TimeoutFreesSlot == \A a \in Timed : a \in running ~> a \notin running

(* docs/workers.md:163 - "Nothing new is claimed after `stop`": the claim is never sent by a    *)
(* worker already asked to stop.                                                                *)
NothingClaimedAfterStop ==
  [][loop # "claiming" /\ loop' = "claiming" => ~stopping]_vars

(* worker.py:398 - "an attempt that never happened is not one the run has spent". *)
SpentWasTried == \A a \in Attempts : ending[a] = "settle" => a \in entered
=============================================================================
