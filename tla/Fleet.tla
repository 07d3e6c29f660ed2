------------------------------- MODULE Fleet -------------------------------
(***************************************************************************)
(* Any number of workers against one store: what worker.py does to the     *)
(* rows of Store, call by call, with everything the workers do in between  *)
(* interleaved.  A worker is the calls of its passes (run_once) and the     *)
(* tasks it spawned (execute, attempt, beat), one per run it was handed.   *)
(*                                                                         *)
(* A store call is one step, taken when it lands.  A task can have two     *)
(* calls on their way at once, its ending and its beat, and they land in   *)
(* either order; both may be lost before they land, and the answer of an   *)
(* ending or of a claim may be lost after it.  Time passes between any two *)
(* steps, so nothing bounds how long a listener, a handler or a call takes.*)
(***************************************************************************)
EXTENDS Store

CONSTANTS
  Slots,          \* concurrency: a worker runs one task per slot
  Serves,         \* worker -> the queues it claims from
  Declares,       \* worker -> the names of tasks its code declares
  Keep,           \* how long a run that is over is kept before it is pruned
  PurgeLimit,     \* PURGE_LIMIT: how many rows one pruning drops
  Delays,         \* the waits an enqueue or a retry policy may ask for
  MaxNow          \* bound: the last instant of the clock

ASSUME FleetAssumption ==
  /\ IsFiniteSet(Slots)
  /\ DOMAIN Serves = Workers
  /\ DOMAIN Declares = Workers
  /\ Keep \in Nat
  /\ PurgeLimit \in Nat \ {0}
  /\ Delays \subseteq Nat
  /\ MaxNow \in Nat

VARIABLES
  now,            \* the clock every process reads
  task,           \* worker -> slot -> the task running there
  entered,        \* id -> the attempts under which a handler was entered
  closings        \* id -> how many times a worker announced that the run is over

fleetVars == <<now, task, entered, closings>>
vars == <<runs, asked, sequence, now, task, entered, closings>>

NoTask == [pc |-> "idle", run |-> 0, attempt |-> 0, ending |-> "none", beat |-> NoInstant]

Spawned(r) == [pc |-> "starting", run |-> r, attempt |-> runs[r].attempts + 1,
               ending |-> "none", beat |-> NoInstant]

Init ==
  /\ StoreInit
  /\ now = 0
  /\ task = [w \in Workers |-> [s \in Slots |-> NoTask]]
  /\ entered = [r \in Ids |-> {}]
  /\ closings = [r \in Ids |-> 0]

-----------------------------------------------------------------------------
(* What is asked of a task.                                                *)

Idle(w) == {s \in Slots : task[w][s].pc = "idle"}

(* The attempt is still answering for its run: no ending of it was answered. *)
Live(t) == t.pc \in {"starting", "handed", "working", "ending"}

Holds(w, t) == Held(t.run, w, t.attempt)

(* Mutant: one attempt more than the policy allows. *)
SpentLate(t) == t.attempt > asked[t.run].max_attempts

(* The copy of the run the worker was handed has no attempt left: Run.exhausted. *)
Spent(t) == t.attempt >= asked[t.run].max_attempts

Set(w, s, t) == task' = [task EXCEPT ![w][s] = t]

-----------------------------------------------------------------------------
(* The application: enqueue and cancel, from any process at any time.      *)

Enqueue(order, delay) ==
  /\ Add(order, now + delay)
  /\ UNCHANGED fleetVars

CancelRun(r) ==
  /\ Cancel(r, now)
  /\ UNCHANGED fleetVars

-----------------------------------------------------------------------------
(* The passes of the workers: each one reclaims, prunes and claims, over   *)
(* and over, so that the calls of the fleet reach the store in any order.  *)
(* A reclaim and a pruning carry the instant their pass began at, which is *)
(* any instant already past; a claim asks for the instant again.  A call   *)
(* that fails without landing is a pass that goes on, which is no step.    *)

ReclaimExpired(moment) ==
  /\ moment <= now
  /\ Reclaim(moment)
  /\ UNCHANGED fleetVars

(* Mutant: what was over by the instant is pruned, and not what was over before it. *)
PruneThrough(moment) ==
  /\ moment <= now
  /\ Purge(moment + 1 - Keep, PurgeLimit)
  /\ UNCHANGED fleetVars

Prune(moment) ==
  /\ moment <= now
  /\ Purge(moment - Keep, PurgeLimit)
  /\ UNCHANGED fleetVars

(* What the claim wins, each run on a slot of its own. *)
Handing(w, won) ==
  {place \in [Slots -> won \union {0}] :
     /\ \A s \in Slots : place[s] # 0 => s \in Idle(w)
     /\ \A r \in won : \E s \in Slots : place[s] = r
     /\ \A s, q \in Slots : place[s] = place[q] /\ place[s] # 0 => s = q}

(* Mutant: the claim goes by the instant its pass began, read before the housekeeping. *)
ClaimOfPass(w) ==
  \E moment \in 0 .. now, limit \in 1 .. Cardinality(Idle(w)) :
    /\ Claim(w, Serves[w], limit, moment)
    /\ \E place \in Handing(w, Won(Serves[w], limit, moment)) :
         task' = [task EXCEPT ![w] = [s \in Slots |->
                    IF place[s] # 0 THEN Spawned(place[s]) ELSE task[w][s]]]
    /\ UNCHANGED <<now, entered, closings>>

(* A claim asks for as many runs as were free when it was sent: slots may have come free since, *)
(* and a thread still inside a handler nobody waits for is not free (Worker.tla).               *)
ClaimDue(w) ==
  \E limit \in 1 .. Cardinality(Idle(w)) :
    /\ Claim(w, Serves[w], limit, now)
    /\ \E place \in Handing(w, Won(Serves[w], limit, now)) :
         task' = [task EXCEPT ![w] = [s \in Slots |->
                    IF place[s] # 0 THEN Spawned(place[s]) ELSE task[w][s]]]
    /\ UNCHANGED <<now, entered, closings>>

(* The claim landed and its answer did not come back: the runs are taken and nobody runs them. *)
ClaimUnheard(w) ==
  /\ \E limit \in 1 .. Cardinality(Idle(w)) : Claim(w, Serves[w], limit, now)
  /\ UNCHANGED fleetVars

-----------------------------------------------------------------------------
(* One task: the starting listeners, the lookup, the handler, the ending.  *)

(* The lookup finds the handler, and the work is handed to the loop or to a thread. *)
HandOver(w, s) ==
  LET t == task[w][s]
  IN  /\ t.pc = "starting"
      /\ asked[t.run].name \in Declares[w]
      /\ Set(w, s, [t EXCEPT !.pc = "handed"])
      /\ UNCHANGED <<storeVars, now, entered, closings>>

Ending(w, s, from, ending) ==
  /\ task[w][s].pc = from
  /\ Set(w, s, [task[w][s] EXCEPT !.pc = "ending", !.ending = ending])
  /\ UNCHANGED <<storeVars, now, entered, closings>>

(* UnknownTask: the name belongs to other code, and the attempt is given back. *)
Unknown(w, s) ==
  /\ Ending(w, s, "starting", "release")
  /\ asked[task[w][s].run].name \notin Declares[w]

(* The first line of the handler runs. *)
Enter(w, s) ==
  LET t == task[w][s]
  IN  /\ t.pc = "handed"
      /\ Set(w, s, [t EXCEPT !.pc = "working"])
      /\ entered' = [entered EXCEPT ![t.run] = @ \union {t.attempt}]
      /\ UNCHANGED <<storeVars, now, closings>>

(* Mutant: the timeout of a handler that began gives the attempt back. *)
NeverFinished(w, s) == Ending(w, s, "working", "release")

(* WorkNeverStarted: the timeout passed while the work was still queued for a thread. *)
NeverStarted(w, s) == Ending(w, s, "handed", "release")

Answer(w, s) == Ending(w, s, "working", "complete")

(* An exception, or the timeout: another attempt while the policy allows one.  A call refused   *)
(* before the first line (arguments the handler does not take, a pool already closed) is one.   *)
Raise(w, s) ==
  \E from \in {"handed", "working"} :
    Ending(w, s, from, IF Spent(task[w][s]) THEN "fail" ELSE "retry")

(* PermanentError, an exit, or an answer no store can write. *)
GiveUp(w, s) == Ending(w, s, "working", "fail")

(* The store's side of an ending. *)
Record(w, t, delay) ==
  \/ t.ending = "complete" /\ Complete(t.run, w, t.attempt, now)
  \/ t.ending = "fail" /\ Fail(t.run, w, t.attempt, now)
  \/ t.ending = "retry" /\ RetryLater(t.run, w, t.attempt, now + delay)
  \/ t.ending = "release" /\ Release(t.run, w, t.attempt, now + delay)

(* The ending is taken, and the finishing or failing listeners are told. *)
Land(w, s) ==
  LET t == task[w][s]
  IN  /\ t.pc = "ending"
      /\ \E delay \in Delays : Record(w, t, delay)
      /\ Set(w, s, [t EXCEPT !.pc = "telling"])
      /\ closings' = [closings EXCEPT ![t.run] =
                        IF t.ending \in {"complete", "fail"} THEN @ + 1 ELSE @]
      /\ UNCHANGED <<now, entered>>

(* Mutant: the outcome the store refused is announced. *)
RefusedAloud(w, s) ==
  LET t == task[w][s]
  IN  /\ t.pc = "ending"
      /\ ~Holds(w, t)
      /\ Set(w, s, [t EXCEPT !.pc = "resting"])
      /\ closings' = [closings EXCEPT ![t.run] = @ + 1]
      /\ UNCHANGED <<storeVars, now, entered>>

(* The store says this attempt no longer holds the run: the outcome is dropped and nobody is told. *)
Refused(w, s) ==
  LET t == task[w][s]
  IN  /\ t.pc = "ending"
      /\ ~Holds(w, t)
      /\ Set(w, s, [t EXCEPT !.pc = "resting"])
      /\ UNCHANGED <<storeVars, now, entered, closings>>

(* The call raised: it landed and the answer was lost, or it never landed. *)
Unheard(w, s) ==
  LET t == task[w][s]
  IN  /\ t.pc = "ending"
      /\ \/ \E delay \in Delays : Record(w, t, delay)
         \/ UNCHANGED storeVars
      /\ Set(w, s, [t EXCEPT !.pc = "resting"])
      /\ UNCHANGED <<now, entered, closings>>

(* The listeners are through: resting is set and the beat is asked to stop. *)
Told(w, s) ==
  LET t == task[w][s]
  IN  /\ t.pc = "telling"
      /\ Set(w, s, [t EXCEPT !.pc = "resting"])
      /\ UNCHANGED <<storeVars, now, entered, closings>>

(* The beat in flight is waited for and never cancelled; then the slot is free. *)
Leave(w, s) ==
  /\ task[w][s].pc = "resting"
  /\ task[w][s].beat = NoInstant
  /\ Set(w, s, NoTask)
  /\ UNCHANGED <<storeVars, now, entered, closings>>

-----------------------------------------------------------------------------
(* The beat of a task: one push in flight at most, with the instant it was sent at. *)

SendBeat(w, s) ==
  LET t == task[w][s]
  IN  /\ Live(t) \/ t.pc = "telling"
      /\ t.beat = NoInstant
      /\ Set(w, s, [t EXCEPT !.beat = now])
      /\ UNCHANGED <<storeVars, now, entered, closings>>

(* The store takes it from the holder and from nobody else; the answer is not looked at. *)
BeatLands(w, s) ==
  LET t == task[w][s]
  IN  /\ t.beat # NoInstant
      /\ \/ Heartbeat(t.run, w, t.attempt, t.beat)
         \/ ~Holds(w, t) /\ UNCHANGED storeVars
      /\ Set(w, s, [t EXCEPT !.beat = NoInstant])
      /\ UNCHANGED <<now, entered, closings>>

BeatLost(w, s) ==
  LET t == task[w][s]
  IN  /\ t.beat # NoInstant
      /\ Set(w, s, [t EXCEPT !.beat = NoInstant])
      /\ UNCHANGED <<storeVars, now, entered, closings>>

-----------------------------------------------------------------------------
(* The process dies with everything it was running, and comes back empty. *)
Crash(w) ==
  /\ task' = [task EXCEPT ![w] = [s \in Slots |-> NoTask]]
  /\ UNCHANGED <<storeVars, now, entered, closings>>

Tick ==
  /\ now < MaxNow
  /\ now' = now + 1
  /\ UNCHANGED <<storeVars, task, entered, closings>>

TaskStep(w, s) ==
  \/ HandOver(w, s) \/ Unknown(w, s) \/ Enter(w, s) \/ NeverStarted(w, s)
  \/ Answer(w, s) \/ Raise(w, s) \/ GiveUp(w, s)
  \/ Land(w, s) \/ Refused(w, s) \/ Unheard(w, s) \/ Told(w, s) \/ Leave(w, s)
  \/ SendBeat(w, s) \/ BeatLands(w, s) \/ BeatLost(w, s)

Next ==
  \/ Tick
  \/ \E order \in Orders, delay \in Delays : Enqueue(order, delay)
  \/ \E r \in Ids : CancelRun(r)
  \/ \E moment \in 0 .. MaxNow : ReclaimExpired(moment) \/ Prune(moment)
  \/ \E w \in Workers : ClaimDue(w) \/ ClaimUnheard(w) \/ Crash(w)
  \/ \E w \in Workers, s \in Slots : TaskStep(w, s)

Spec == Init /\ [][Next]_vars

-----------------------------------------------------------------------------
(***************************************************************************)
(* Correctness.                                                            *)
(***************************************************************************)

Row == [status : Statuses \union {"absent"}, due_at : Int, attempts : Nat,
        worker : Workers \union {Nobody}, lease_until : Int, finished_at : Int]

(* A row names a worker and a lease exactly while it is running, and an instant it finished at *)
(* exactly once it is over.                                                                     *)
WellFormed(row) ==
  /\ row.status = "running" <=> row.worker \in Workers
  /\ row.status = "running" <=> row.lease_until # NoInstant
  /\ row.status \in Settled <=> row.finished_at # NoInstant

Task == [pc : {"idle", "starting", "handed", "working", "ending", "telling", "resting"},
         run : Ids \union {0}, attempt : Nat,
         ending : {"none", "complete", "fail", "retry", "release"}, beat : Nat \union {NoInstant}]

(* The shape of every variable (run.py, store/memory.py, worker.py). *)
TypeOK ==
  /\ runs \in [Ids -> Row]
  /\ \A r \in Ids : WellFormed(runs[r])
  /\ asked \in [Ids -> Orders \union {NoOrder}]
  /\ sequence \in 1 .. MaxRuns + 1
  /\ now \in Nat
  /\ task \in [Workers -> [Slots -> Task]]
  /\ entered \in [Ids -> SUBSET Nat]
  /\ closings \in [Ids -> Nat]

(* store/base.py:41 - what holds a run is an attempt and never a name: of all the attempts of   *)
(* the fleet still answering for a run, the lost ones included and two of the same worker       *)
(* included, no two satisfy the condition every beat and every ending is written under.         *)
OneHolder ==
  \A w, v \in Workers, s, q \in Slots :
    /\ Live(task[w][s]) /\ Holds(w, task[w][s])
    /\ Live(task[v][q]) /\ Holds(v, task[v][q])
    /\ task[w][s].run = task[v][q].run
    => w = v /\ s = q

(* A run waits only while it has an attempt left, and its handler was never entered more often  *)
(* than its policy allows: lost leases, lost answers and attempts given back all counted.       *)
WithinPolicy ==
  \A r \in Ids : Present(r) =>
    /\ runs[r].status = "pending" => ~Exhausted(r)
    /\ runs[r].attempts <= asked[r].max_attempts
    /\ Cardinality(entered[r]) <= asked[r].max_attempts

(* docs/workers.md:140 - no attempt number a handler was once entered under is entered again,   *)
(* although a release gives numbers back: max_attempts of one means the handler starts once.    *)
EnteredOnce ==
  [][\A w \in Workers, s \in Slots :
       task[w][s].pc = "handed" /\ task'[w][s].pc = "working"
         => task[w][s].attempt \notin entered[task[w][s].run]]_vars

(* worker.py:389 - listeners are told that a run is over at most once, by whichever attempt,    *)
(* and what they were told stands: the row says so, or it was pruned.                           *)
ToldOnce ==
  \A r \in Ids :
    /\ closings[r] <= 1
    /\ closings[r] = 1 => runs[r].status \in {"done", "failed", "absent"}

(* store/base.py:77,88,93 - a run that is over is never touched again until it is pruned, and   *)
(* the id of a pruned run never names another one.                                              *)
SettledStands ==
  [][\A r \in Ids :
       /\ runs[r].status \in Settled => runs'[r] \in {runs[r], Absent}
       /\ ~Present(r) /\ Present(r)' => r = sequence]_vars

(* store/base.py:77, worker.py:246 - the lease a claim answers with is a whole one, counted from *)
(* when the run was taken and not from when the pass that took it began; and while its lease is  *)
(* good, a run leaves its holder only by an ending that holder sent: no reclaim, no claim and no *)
(* lost attempt takes it away.                                                                   *)
LeaseRespected ==
  [][\A r \in Ids :
       LET kept == Held(r, runs[r].worker, runs[r].attempts)
                     /\ runs'[r].status = "running" /\ runs'[r].worker = runs[r].worker
                     /\ runs'[r].attempts = runs[r].attempts
           taken == runs[r].status # "running" /\ runs'[r].status = "running"
       IN  /\ taken => runs'[r].lease_until >= now + Lease
           /\ runs[r].status = "running" /\ ~kept
                => \/ runs[r].lease_until < now
                   \/ \E s \in Slots : LET t == task[runs[r].worker][s]
                                       IN  t.run = r /\ t.pc = "ending" /\ t.attempt = runs[r].attempts]_vars

-----------------------------------------------------------------------------
(* The inductive part.  A number is never minted again while an attempt that carries it still   *)
(* answers for the run: the numbers such attempts carry are at most the one the row counts, and *)
(* all different, so that giving back the last one leaves the others where they were.           *)

(* An attempt still answering is at most the one the row counts, and is the holder when equal.  *)
Fenced(w, t) ==
  /\ t.run \in 1 .. sequence - 1
  /\ t.attempt \in 1 .. asked[t.run].max_attempts
  /\ runs[t.run].status = "pending" => t.attempt <= runs[t.run].attempts
  /\ runs[t.run].status = "running" =>
       \/ t.attempt < runs[t.run].attempts
       \/ t.attempt = runs[t.run].attempts /\ w = runs[t.run].worker

(* What an attempt is about to write is what it earned: a handler about to be entered, or an    *)
(* attempt about to be given back, is one nobody entered a handler under.                       *)
Earned(t) ==
  /\ t.pc \in {"starting", "handed"} => t.attempt \notin entered[t.run]
  /\ t.pc = "working" => t.attempt \in entered[t.run]
  /\ t.pc = "ending" =>
       \/ t.ending = "complete" /\ t.attempt \in entered[t.run]
       \/ t.ending = "release" /\ t.attempt \notin entered[t.run]
       \/ t.ending = "retry" /\ t.attempt < asked[t.run].max_attempts
       \/ t.ending = "fail"

Attempts ==
  \A w \in Workers, s \in Slots :
    Live(task[w][s]) => Fenced(w, task[w][s]) /\ Earned(task[w][s])

(* No two attempts still answering for one run carry the same number. *)
Distinct ==
  \A w, v \in Workers, s, q \in Slots :
    /\ Live(task[w][s]) /\ Live(task[v][q])
    /\ task[w][s].run = task[v][q].run
    /\ task[w][s].attempt = task[v][q].attempt
    => w = v /\ s = q

(* An id not given out names nothing yet. *)
Unwritten(r) ==
  ~Present(r) /\ asked[r] = NoOrder /\ entered[r] = {} /\ closings[r] = 0

(* A row counts every attempt a handler was entered under, within what the policy allows. *)
Counted(r) ==
  /\ asked[r] \in Orders
  /\ entered[r] \subseteq 1 .. asked[r].max_attempts
  /\ runs[r].attempts <= asked[r].max_attempts
  /\ runs[r].status = "pending" =>
       entered[r] \subseteq 1 .. runs[r].attempts /\ runs[r].attempts < asked[r].max_attempts
  /\ runs[r].status = "running" =>
       entered[r] \subseteq 1 .. runs[r].attempts /\ runs[r].attempts # 0

Rows == \A r \in Ids : IF r < sequence THEN Counted(r) ELSE Unwritten(r)

FleetInv == TypeOK /\ Attempts /\ Distinct /\ Rows

-----------------------------------------------------------------------------
(* The fleet implements the promise. *)

OutcomeOf(r) ==
  IF r >= sequence THEN "unwritten"
  ELSE IF ~Present(r) THEN "dropped"
  ELSE IF runs[r].status \in Settled THEN runs[r].status
  ELSE "open"

Promised == INSTANCE Promise WITH
  Runs <- Ids,
  Policies <- {o.max_attempts : o \in Orders},
  outcome <- [r \in Ids |-> OutcomeOf(r)],
  allowed <- [r \in Ids |-> IF r < sequence THEN asked[r].max_attempts ELSE 0],
  tried <- entered

(* docs/workers.md:127-143, docs/retries.md - every behaviour of the fleet, its crashes and its *)
(* lost answers included, is one the promise allows.                                            *)
PromiseKept == Promised!PromiseSpec

Kept == INSTANCE Contract

(* store/base.py:40-97 - what the workers make of the store in memory is what any store may do, *)
(* at no instant still to come: the contract SqlStore keeps is the one this fleet relies on.    *)
Lawful == Kept!ContractSpec
=============================================================================
