------------------------------- MODULE Recovery -------------------------------
(***************************************************************************)
(* What the passes of the workers bring about in the end (worker.py,       *)
(* 235-277 and 294-304): a run that is due is over, whoever died holding   *)
(* it and however often the store refuses, and what is over is pruned.     *)
(*                                                                         *)
(* Time never ends here, so instants are counted from one that moves: now  *)
(* is always Base, and a tick takes every other instant one further back,  *)
(* down to the oldest the model tells apart.  What lies that far back is   *)
(* due, expired and prunable alike, and is claimed in the order of the ids.*)
(*                                                                         *)
(* A worker is the pass it is in, the attempts it has in hand and the      *)
(* threads it lost to handlers that did not end in time.  A call of a pass *)
(* lands or is refused; the pass goes on either way.                       *)
(***************************************************************************)
EXTENDS Store, Retry

CONSTANTS
  Concurrency,    \* how many runs a worker holds at once
  PurgeLimit,     \* PURGE_LIMIT
  Keep,           \* how long a run that is over is kept
  Hour,           \* PURGE_EVERY
  Delays,         \* how far ahead of its instant an enqueue may put a run
  Jitter,         \* the jitter of a worker, in hundredths
  Draws,          \* what may be drawn of it
  MaxCrashes      \* bound: a worker that dies and comes back does so only so often

Base == Keep + 1

ASSUME RecoveryAssumption ==
  /\ {Concurrency, PurgeLimit, Hour} \subseteq Nat \ {0}
  /\ {Keep, Jitter, MaxDoublings, MaxCrashes} \subseteq Nat
  /\ Delays \subseteq Nat
  /\ Draws \subseteq 0 .. Jitter
  /\ \A o \in Orders : o.policy \in Policies /\ o.retry_delay \in Nat /\ o.max_retry_delay \in Nat \ {0}

(* The unit of time tells apart what two draws make of the shortest wait, as the code's float does: *)
(* of a wait there is.  A retry_delay of 0, which a task may ask for, is no wait however it is drawn. *)
ASSUME UnitAssumption ==
  \A o \in Orders : o.policy = "exponential_jitter" /\ o.retry_delay > 0 =>
    \A d, e \in Draws : d < e =>
      (e - d) * Smaller(o.retry_delay, (o.max_retry_delay * 100) \div (100 + Jitter)) >= 100

VARIABLES
  pc,             \* worker -> the call its pass makes next
  gate,           \* worker -> how long until its next pruning, 0 when it is due
  hand,           \* worker -> the attempts it is working on, and how far each one is
  stranded,       \* worker -> how many of its threads are still in a handler it stopped waiting for
  crashes         \* how many workers died so far

passVars == <<pc, gate, hand, stranded, crashes>>
vars == <<storeVars, passVars>>

Stages == {"reclaim", "tidy", "materialize", "claim"}

(* Handed over and not begun, in its handler, or left by a timeout with the handler still going. *)
Attempts == [run : Ids, attempt : Nat, at : {"handed", "working", "left"}]

(* The first pruning of a worker is drawn within its hour. *)
Init ==
  /\ StoreInit
  /\ pc = [w \in Workers |-> "reclaim"]
  /\ gate \in [Workers -> 0 .. Hour]
  /\ hand = [w \in Workers |-> {}]
  /\ stranded = [w \in Workers |-> 0]
  /\ crashes = 0

Goes(w, from, to) == pc[w] = from /\ pc' = [pc EXCEPT ![w] = to]

-----------------------------------------------------------------------------
(* The pass. *)

ReclaimLands(w) ==
  /\ Goes(w, "reclaim", "tidy")
  /\ Reclaim(Base)
  /\ UNCHANGED <<gate, hand, stranded, crashes>>

ReclaimRefused(w) ==
  /\ Goes(w, "reclaim", "tidy")
  /\ UNCHANGED <<storeVars, gate, hand, stranded, crashes>>

(* Mutant: asking whether the hour is over starts it again. *)
TidyPutOff(w) ==
  /\ Goes(w, "tidy", "materialize")
  /\ gate[w] > 0
  /\ gate' = [gate EXCEPT ![w] = Hour]
  /\ UNCHANGED <<storeVars, hand, stranded, crashes>>

TidyWaits(w) ==
  /\ Goes(w, "tidy", "materialize")
  /\ gate[w] > 0
  /\ UNCHANGED <<storeVars, gate, hand, stranded, crashes>>

(* Mutant: a batch that is full is taken for the last one. *)
HourAlways(gone) == Hour

(* A full batch means there is more of it, and the next pass takes the next one. *)
HourAfter(gone) == IF Cardinality(gone) = PurgeLimit THEN 0 ELSE Hour

TidyLands(w) ==
  /\ Goes(w, "tidy", "materialize")
  /\ gate[w] = 0
  /\ Purge(Base - Keep, PurgeLimit)
  /\ gate' = [gate EXCEPT ![w] = HourAfter({r \in Ids : runs[r] # runs'[r]})]
  /\ UNCHANGED <<hand, stranded, crashes>>

(* It raised: refused, or done with its answer lost.  The hour began before it was asked for. *)
TidyRefused(w) ==
  /\ Goes(w, "tidy", "materialize")
  /\ gate[w] = 0
  /\ gate' = [gate EXCEPT ![w] = Hour]
  /\ Purge(Base - Keep, PurgeLimit) \/ UNCHANGED storeVars
  /\ UNCHANGED <<hand, stranded, crashes>>

(* A slot it writes is an Enqueue like any other, a step of its own. *)
MaterializeLands(w) ==
  /\ Goes(w, "materialize", "claim")
  /\ UNCHANGED <<storeVars, gate, hand, stranded, crashes>>

(* Mutant: a slot the store refuses ends the pass. *)
MaterializeEndsPass(w) ==
  /\ Goes(w, "materialize", "reclaim")
  /\ UNCHANGED <<storeVars, gate, hand, stranded, crashes>>

(* It raised, after however many slots it wrote. *)
MaterializeRefused(w) ==
  /\ Goes(w, "materialize", "claim")
  /\ UNCHANGED <<storeVars, gate, hand, stranded, crashes>>

(* Mutant: a timeout that leaves a thread behind frees the slot whole. *)
FreeOfStranded(w) == Concurrency - Cardinality(hand[w])

Free(w) == Concurrency - Cardinality(hand[w]) - stranded[w]

Served == {o.queue : o \in Orders}

Handed(r) == [run |-> r, attempt |-> runs[r].attempts + 1, at |-> "handed"]

ClaimLands(w) ==
  /\ Goes(w, "claim", "reclaim")
  /\ Free(w) > 0
  /\ Claim(w, Served, Free(w), Base)
  /\ hand' = [hand EXCEPT ![w] = @ \union {Handed(r) : r \in Won(Served, Free(w), Base)}]
  /\ UNCHANGED <<gate, stranded, crashes>>

(* The answer is lost: the rows are taken, and nobody works them. *)
ClaimUnheard(w) ==
  /\ Goes(w, "claim", "reclaim")
  /\ Free(w) > 0
  /\ Claim(w, Served, Free(w), Base)
  /\ UNCHANGED <<gate, hand, stranded, crashes>>

(* Nothing is free, or the store refused. *)
ClaimNothing(w) ==
  /\ Goes(w, "claim", "reclaim")
  /\ UNCHANGED <<storeVars, gate, hand, stranded, crashes>>

PassStep(w) ==
  \/ ReclaimLands(w) \/ ReclaimRefused(w)
  \/ TidyWaits(w) \/ TidyLands(w) \/ TidyRefused(w)
  \/ MaterializeLands(w) \/ MaterializeRefused(w)
  \/ ClaimLands(w) \/ ClaimUnheard(w) \/ ClaimNothing(w)

-----------------------------------------------------------------------------
(* The attempts. *)

Wait(r, draw) ==
  DelayFor(asked[r].policy, asked[r].retry_delay, runs[r].attempts, Jitter, draw,
           asked[r].max_retry_delay)

Moves(w, a, to) ==
  hand' = [hand EXCEPT ![w] = (@ \ {a}) \union {[a EXCEPT !.at = to]}]

Dropped(w, a) ==
  /\ hand' = [hand EXCEPT ![w] = @ \ {a}]
  /\ UNCHANGED <<pc, gate, stranded, crashes>>

(* The handler begins: a coroutine at once, a plain one when a thread takes it up. *)
Enter(w, a) ==
  /\ a.at = "handed"
  /\ Moves(w, a, "working")
  /\ UNCHANGED <<storeVars, pc, gate, stranded, crashes>>

(* The timeout of a plain handler passes while it is on its thread, and it stays there. *)
Strand(w, a) ==
  /\ a.at = "working"
  /\ Moves(w, a, "left")
  /\ stranded' = [stranded EXCEPT ![w] = @ + 1]
  /\ UNCHANGED <<storeVars, pc, gate, crashes>>

(* One of those handlers comes to its end after all. *)
Return(w) ==
  /\ stranded[w] > 0
  /\ stranded' = [stranded EXCEPT ![w] = @ - 1]
  /\ UNCHANGED <<storeVars, pc, gate, hand, crashes>>

(* Mutant: a timeout gives the attempt back, whether or not its work began. *)
GiveBackAnyway(w, a) ==
  /\ \E draw \in Draws : Release(a.run, w, a.attempt, Base + Wait(a.run, draw))
  /\ Dropped(w, a)

(* The worker has no handler of that name, or no thread took it up before its timeout. *)
GiveBack(w, a) ==
  /\ a.at = "handed"
  /\ \E draw \in Draws : Release(a.run, w, a.attempt, Base + Wait(a.run, draw))
  /\ Dropped(w, a)

(* An attempt that began ends, and the store takes the ending.  What ran past its timeout did not *)
(* answer, and one it may try again is not failed for it.                                         *)
End(w, a) ==
  /\ \/ a.at = "working" /\ Complete(a.run, w, a.attempt, Base)
     \/ /\ a.at = "working" \/ (a.at = "left" /\ Exhausted(a.run))
        /\ Fail(a.run, w, a.attempt, Base)
     \/ /\ a.at \in {"working", "left"}
        /\ Held(a.run, w, a.attempt)
        /\ ~Exhausted(a.run)
        /\ \E draw \in Draws : RetryLater(a.run, w, a.attempt, Base + Wait(a.run, draw))
  /\ Dropped(w, a)

(* The store holds the run for it no more, or never hears of it. *)
EndLost(w, a) == Dropped(w, a) /\ UNCHANGED storeVars

Beat(w, a) ==
  /\ Heartbeat(a.run, w, a.attempt, Base)
  /\ UNCHANGED passVars

Crash(w) ==
  /\ crashes < MaxCrashes
  /\ crashes' = crashes + 1
  /\ pc' = [pc EXCEPT ![w] = "reclaim"]
  /\ \E drawn \in 0 .. Hour : gate' = [gate EXCEPT ![w] = drawn]
  /\ hand' = [hand EXCEPT ![w] = {}]
  /\ stranded' = [stranded EXCEPT ![w] = 0]
  /\ UNCHANGED storeVars

-----------------------------------------------------------------------------
Enqueue(order, delay) ==
  /\ Add(order, Base + delay)
  /\ UNCHANGED passVars

CancelRun(r) ==
  /\ Cancel(r, Base)
  /\ UNCHANGED passVars

(* One further back, and no further than the oldest instant there is. *)
Earlier(instant) == IF instant > 0 THEN instant - 1 ELSE instant

Tick ==
  /\ runs' = [r \in Ids |-> [runs[r] EXCEPT !.due_at = Earlier(@), !.lease_until = Earlier(@),
                                            !.finished_at = Earlier(@)]]
  /\ gate' = [w \in Workers |-> Earlier(gate[w])]
  /\ UNCHANGED <<asked, sequence, pc, hand, stranded, crashes>>

Next ==
  \/ Tick
  \/ \E order \in Orders, delay \in Delays : Enqueue(order, delay)
  \/ \E r \in Ids : CancelRun(r)
  \/ \E w \in Workers :
       \/ PassStep(w) \/ Return(w) \/ Crash(w)
       \/ \E a \in hand[w] :
            Enter(w, a) \/ Strand(w, a) \/ GiveBack(w, a) \/ End(w, a) \/ EndLost(w, a) \/ Beat(w, a)

(* An attempt of that run goes on: it begins, it is given back, left or over. *)
GoesOn(w, r) ==
  \E a \in hand[w] :
    /\ a.run = r
    /\ Enter(w, a) \/ Strand(w, a) \/ GiveBack(w, a) \/ End(w, a) \/ EndLost(w, a)

(* The clock goes on.  A worker that is up goes from pass to pass, and it does not wait for ever on *)
(* an attempt: the handler answers, raises or runs into its timeout.  A thread it left need never   *)
(* come back.  A store refuses now and then, and not for ever; materialize may fail every time.     *)
Fairness ==
  /\ WF_vars(Tick)
  /\ \A w \in Workers :
       /\ WF_vars(PassStep(w))
       /\ \A r \in Ids : WF_vars(GoesOn(w, r))
       /\ SF_vars(ReclaimLands(w)) /\ SF_vars(TidyLands(w)) /\ SF_vars(ClaimLands(w))

Spec == Init /\ [][Next]_vars /\ Fairness

-----------------------------------------------------------------------------
(***************************************************************************)
(* Correctness.                                                            *)
(***************************************************************************)

(* docs/workers.md:80,190-193, store/memory.py:135 - a run that was written is over in the end,  *)
(* whatever dies or is lost on the way and whatever the housekeeping of a pass meets: a lease     *)
(* nobody renews is met by a reclaim, and every time it is, an attempt was spent.  Two things keep *)
(* a run waiting for ever, and these alone: attempts given back over and over, which cost nothing, *)
(* and workers whose every thread is in a handler that never returns, which claim nothing.         *)
RunsEnd ==
  \/ \A r \in Ids : runs[r].status \in {"pending", "running"} ~> runs[r].status \in Settled
  \/ []<><<\E w \in Workers : \E a \in hand[w] : GiveBack(w, a)>>_vars
  \/ <>[](\A w \in Workers : stranded[w] = Concurrency)

(* worker.py:261-277 - nothing that is over is kept for ever: the hour between two prunings      *)
(* ends, and a pruning that was refused, or whose answer was lost, is asked for again.           *)
BacklogDrains == \A r \in Ids : runs[r].status \in Settled ~> ~Present(r)

(* worker.py:273-275 - a pruning that was answered begins the hour only when it left nothing     *)
(* behind that could have been pruned.  One that raised begins it whatever is left (269-270):    *)
(* that the backlog goes all the same is BacklogDrains.                                          *)
HourMeansDone ==
  [][\A w \in Workers :
       TidyLands(w) /\ gate'[w] # 0 => \A r \in Ids : ~Prunable(r, Base - Keep)']_vars

TypeOK ==
  /\ StoreType
  /\ pc \in [Workers -> Stages]
  /\ gate \in [Workers -> 0 .. Hour]
  /\ hand \in [Workers -> SUBSET Attempts]
  /\ stranded \in [Workers -> 0 .. Concurrency]
  /\ crashes \in 0 .. MaxCrashes

Waited(w) == {a \in hand[w] : a.at # "left"}

(* Every attempt it waits for has a thread to run on: one it left took its thread along. *)
WithinConcurrency ==
  \A w \in Workers :
    /\ IsFiniteSet(hand[w]) /\ Cardinality(hand[w]) <= Concurrency
    /\ Cardinality(Waited(w)) + stranded[w] <= Concurrency

(* What a row waits for is an instant, and not the absence of one. *)
Comes(row, order) ==
  /\ row.status = "pending" => row.due_at \in Nat /\ row.attempts \in 0 .. order.max_attempts - 1
  /\ row.status = "running" =>
       row.lease_until \in 0 .. Base + Lease /\ row.attempts \in 1 .. order.max_attempts
  /\ row.status \in Settled => row.finished_at \in 0 .. Base

NothingIsLost ==
  \A r \in Ids :
    /\ IF r < sequence THEN asked[r] \in Orders ELSE ~Present(r)
    /\ Comes(runs[r], asked[r])

(* store/memory.py:49-54,139-151, worker.py:227-247 - nothing is where no call would ever pick it up: *)
(* what waits is due at some instant and has an attempt left, what runs has a lease that ends and *)
(* no attempt too many, what is over has an end to be pruned by; and no worker claims more than   *)
(* the threads it has left can run, whatever was lost, taken back or never answered on the way.   *)
RecoveryInv ==
  /\ TypeOK
  /\ WithinConcurrency
  /\ NothingIsLost

(* How far a run has come: a claim is a step of its way, and so is every return to the queue. *)
Far(r) ==
  CASE runs[r].status = "pending" -> 2 * runs[r].attempts
    [] runs[r].status = "running" -> 2 * runs[r].attempts - 1
    [] OTHER -> 2 * asked[r].max_attempts

(* The step back to before the claim of an attempt in hand that was never begun. *)
Untried(r) ==
  /\ Far(r)' = Far(r) - 1
  /\ \E w \in Workers : \E a \in hand[w] :
       /\ a.run = r /\ a.at = "handed" /\ Held(r, w, a.attempt)
       /\ a \notin hand'[w]

(* docs/retries.md:63-84,93-108, worker.py:344-347,397-402, store/memory.py:135-152 - each change *)
(* of its status takes a run further, and never past 2 * max_attempts, whoever dies and whatever  *)
(* is lost; and the only way back is to just before the claim of an attempt whose handler was     *)
(* never entered.  What the handler was entered for is not given back.                            *)
BackOnlyUntried ==
  [][\A r \in Ids : Present(r) /\ Present(r)' =>
       /\ Far(r)' <= 2 * asked[r].max_attempts
       /\ \/ /\ Far(r) <= Far(r)'
             /\ runs[r].status # runs'[r].status => Far(r) < Far(r)'
          \/ Untried(r)]_vars

(* retry.py:19-20 - two runs of one policy that failed at the same attempt and drew differently *)
(* wait differently, however far past the ceiling they have doubled, and never longer than it.  *)
(* Of a retry_delay above 0: at 0, which app.py:187 accepts, every wait is 0 and all come back  *)
(* together.                                                                                    *)
HerdIsBroken ==
  \A r \in Ids : runs[r].status = "running" /\ asked[r].policy = "exponential_jitter" =>
    \A d, e \in Draws :
      /\ Wait(r, d) <= asked[r].max_retry_delay
      /\ d # e /\ asked[r].retry_delay > 0 => Wait(r, d) # Wait(r, e)
=============================================================================
