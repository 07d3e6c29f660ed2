------------------------------ MODULE Schedule ------------------------------
(***************************************************************************)
(* How recurring tasks become runs: every process writes the next slot of  *)
(* every task on every pass (app.py, materialize), under a key made of the *)
(* name and the slot, and the key leaves one.  Composed with Store, whose  *)
(* rows are the slots, their pruning and their calling off; what becomes   *)
(* of a slot once it is due is Fleet's business and one step here.         *)
(*                                                                         *)
(* The passes of the processes interleave call by call.  A pass reads the  *)
(* clock once, where it begins, and every slot it writes is worked out     *)
(* from that instant however long the calls before it took.                *)
(***************************************************************************)
EXTENDS Store, Sequences

CONSTANTS
  Processes,      \* the processes running a worker over the same application
  Span,           \* <<...>>: the interval of each recurring task, in the order they were declared
  Keep,           \* how long a run that is over is kept
  PurgeLimit,     \* PURGE_LIMIT
  PassLimit,      \* the longest a pass lasts, from reading the clock to its last call
  MaxNow          \* bound: the last instant of the clock

Tasks == DOMAIN Span

ASSUME ScheduleAssumption ==
  /\ Span \in Seq(Nat \ {0})
  /\ Keep \in Nat
  /\ PurgeLimit \in Nat \ {0}
  /\ PassLimit \in Nat
  /\ MaxNow \in Nat
  /\ NoKey \notin Tasks \X Nat

VARIABLES
  now,            \* the clock every process reads
  pass,           \* process -> the pass it is in
  written,        \* process -> task -> the slot it was last asked to write, NoInstant before the first
  calledOff       \* the ids of the runs somebody cancelled

scheduleVars == <<now, pass, written, calledOff>>
vars == <<runs, asked, sequence, now, pass, written, calledOff>>

NoPass == [pc |-> "idle", moment |-> 0, at |-> 1]

Init ==
  /\ StoreInit
  /\ now = 0
  /\ pass = [p \in Processes |-> NoPass]
  /\ written = [p \in Processes |-> [t \in Tasks |-> NoInstant]]
  /\ calledOff = {}

-----------------------------------------------------------------------------
(* The trigger and the key. *)

(* Interval.next_after: whole slots counted from the epoch, and never the instant asked about. *)
NextAfter(t, moment) == Span[t] * (moment \div Span[t] + 1)

(* The key is occurrence_key: the name and the instant. *)
Occurrence(t, slot) ==
  [name |-> t, queue |-> "default", priority |-> 0, key |-> <<t, slot>>, max_attempts |-> 1]

(* Mutant: a slot that has just come due is still the next one. *)
IsAheadOrDue(p, t) == written[p][t] # NoInstant /\ written[p][t] >= pass[p].moment

(* The slot this process wrote last has not come yet, so there is nothing to work out. *)
IsAhead(p, t) == written[p][t] # NoInstant /\ written[p][t] > pass[p].moment

-----------------------------------------------------------------------------
(* A pass: the clock is read, the housekeeping before the slots takes its time, *)
(* what is old is pruned on the hour, and the tasks are walked in their order.   *)

BeginPass(p) ==
  /\ pass[p].pc = "idle"
  /\ pass' = [pass EXCEPT ![p] = [pc |-> "tidying", moment |-> now, at |-> 1]]
  /\ UNCHANGED <<storeVars, now, written, calledOff>>

(* Mutant: the pruning forgets how long to keep. *)
TidyUnkept(p) ==
  /\ pass[p].pc = "tidying"
  /\ Purge(pass[p].moment, PurgeLimit) \/ UNCHANGED storeVars
  /\ pass' = [pass EXCEPT ![p].pc = "writing"]
  /\ UNCHANGED <<now, written, calledOff>>

(* Off the hour, or refused by the store, the pruning changes nothing and the pass goes on. *)
Tidy(p) ==
  /\ pass[p].pc = "tidying"
  /\ Purge(pass[p].moment - Keep, PurgeLimit) \/ UNCHANGED storeVars
  /\ pass' = [pass EXCEPT ![p].pc = "writing"]
  /\ UNCHANGED <<now, written, calledOff>>

Walking(p) == pass[p].pc = "writing" /\ pass[p].at \in Tasks

(* Mutant: a task with nothing to write ends the walk. *)
SkipTheRest(p) ==
  /\ Walking(p)
  /\ IsAhead(p, pass[p].at)
  /\ pass' = [pass EXCEPT ![p] = NoPass]
  /\ UNCHANGED <<storeVars, now, written, calledOff>>

Skip(p) ==
  /\ Walking(p)
  /\ IsAhead(p, pass[p].at)
  /\ pass' = [pass EXCEPT ![p].at = @ + 1]
  /\ UNCHANGED <<storeVars, now, written, calledOff>>

(* What the store does with the slot: writes it, or refuses a key that is taken. *)
Offer(t, slot) ==
  \/ Add(Occurrence(t, slot), slot)
  \/ Taken(<<t, slot>>) /\ UNCHANGED storeVars

(* The store answered, either way, and the slot is remembered. *)
WriteSlot(p) ==
  LET t == pass[p].at
      slot == NextAfter(t, pass[p].moment)
  IN  /\ Walking(p)
      /\ ~IsAhead(p, t)
      /\ Offer(t, slot)
      /\ written' = [written EXCEPT ![p][t] = slot]
      /\ pass' = [pass EXCEPT ![p].at = @ + 1]
      /\ UNCHANGED <<now, calledOff>>

(* Mutant: the slot is remembered before the store has it. *)
SlotRefusedRemembered(p) ==
  LET t == pass[p].at
      slot == NextAfter(t, pass[p].moment)
  IN  /\ Walking(p)
      /\ ~IsAhead(p, t)
      /\ Offer(t, slot) \/ UNCHANGED storeVars
      /\ written' = [written EXCEPT ![p][t] = slot]
      /\ pass' = [pass EXCEPT ![p] = NoPass]
      /\ UNCHANGED <<now, calledOff>>

(* The call raised, landed or not: nothing is remembered and the tasks after this one wait for the next pass. *)
SlotRefused(p) ==
  LET t == pass[p].at
      slot == NextAfter(t, pass[p].moment)
  IN  /\ Walking(p)
      /\ ~IsAhead(p, t)
      /\ Offer(t, slot) \/ UNCHANGED storeVars
      /\ pass' = [pass EXCEPT ![p] = NoPass]
      /\ UNCHANGED <<now, written, calledOff>>

EndPass(p) ==
  /\ pass[p].pc = "writing" /\ pass[p].at \notin Tasks
  /\ pass' = [pass EXCEPT ![p] = NoPass]
  /\ UNCHANGED <<storeVars, now, written, calledOff>>

(* A process comes back remembering nothing. *)
Restart(p) ==
  /\ pass' = [pass EXCEPT ![p] = NoPass]
  /\ written' = [written EXCEPT ![p] = [t \in Tasks |-> NoInstant]]
  /\ UNCHANGED <<storeVars, now, calledOff>>

-----------------------------------------------------------------------------
(* Around the passes. *)

(* A worker ran the slot. *)
Work(r) ==
  /\ runs[r].status = "pending" /\ runs[r].due_at <= now
  /\ Write(r, Closed(runs[r], "done", now))
  /\ UNCHANGED scheduleVars

CancelRun(r) ==
  /\ Cancel(r, now)
  /\ calledOff' = calledOff \union {r}
  /\ UNCHANGED <<now, pass, written>>

(* Time passes, and no pass lasts longer than PassLimit. *)
Tick ==
  /\ now < MaxNow
  /\ \A p \in Processes : pass[p].pc # "idle" => now + 1 - pass[p].moment <= PassLimit
  /\ now' = now + 1
  /\ UNCHANGED <<storeVars, pass, written, calledOff>>

Next ==
  \/ Tick
  \/ \E p \in Processes :
       \/ BeginPass(p) \/ Tidy(p) \/ Skip(p) \/ WriteSlot(p) \/ SlotRefused(p) \/ EndPass(p)
       \/ Restart(p)
  \/ \E r \in Ids : Work(r) \/ CancelRun(r)

Spec == Init /\ [][Next]_vars

-----------------------------------------------------------------------------
(***************************************************************************)
(* Correctness.                                                            *)
(***************************************************************************)

SlotRow == [status : {"absent", "pending", "done", "canceled"}, due_at : Int, attempts : Nat,
            worker : {Nobody}, lease_until : Int, finished_at : Int]

(* The shape of the rows and of what the processes keep (app.py:130-135, run.py:21-54). *)
TypeOK ==
  /\ runs \in [Ids -> SlotRow]
  /\ asked = [r \in Ids |-> asked[r]]
  /\ sequence \in 1 .. MaxRuns + 1
  /\ now \in 0 .. MaxNow
  /\ pass \in [Processes -> [pc : {"idle", "tidying", "writing"}, moment : 0 .. MaxNow,
                             at : Nat \ {0}]]
  /\ written \in [Processes -> [Tasks -> Nat \union {NoInstant}]]
  /\ calledOff \subseteq Ids

Named(t, slot) == \E r \in 1 .. sequence - 1 : asked[r].key = <<t, slot>>

(* docs/tasks.md:138-152 - ten workers do not make ten runs: however their passes interleave,   *)
(* stall and restart, a slot is written a second time only if its run was called off and pruned *)
(* before the slot came.  It takes passes no longer than what is over is kept.                  *)
SlotWrittenOnce ==
  PassLimit <= Keep =>
    \A r, q \in 1 .. sequence - 1 : asked[r].key = asked[q].key /\ r < q => r \in calledOff

(* app.py:281 - what a process remembers to have written, some process did write: a store that  *)
(* blinked never drops a slot.                                                                  *)
RememberedIsWritten ==
  \A p \in Processes, t \in Tasks : written[p][t] # NoInstant => Named(t, written[p][t])

(* The invariant that steps keep.  A slot's row is gone only when its time and the keep after   *)
(* it are past, or somebody called it off; a pass is no older than it may last; and what a      *)
(* process remembers is the slot next after an instant some pass of it was at.                  *)
SlotOf(r) == asked[r].key[2]

Accounted(r) ==
  /\ asked[r].name \in Tasks /\ SlotOf(r) \in Nat
  /\ asked[r] = Occurrence(asked[r].name, SlotOf(r))
  /\ runs[r].status = "pending" => runs[r].due_at = SlotOf(r)
  /\ runs[r].status = "done" => runs[r].finished_at >= SlotOf(r)
  /\ runs[r].status = "canceled" => r \in calledOff
  /\ Present(r) \/ r \in calledOff \/ SlotOf(r) + Keep < now

Recent(p) ==
  LET last == IF pass[p].pc = "idle" THEN now ELSE pass[p].moment
  IN  /\ last <= now /\ now <= last + PassLimit
      /\ \A t \in Tasks : written[p][t] = NoInstant \/ \E m \in 0 .. last : written[p][t] = NextAfter(t, m)

(* app.py:262-286, store/memory.py:167-174 - the rows, the passes and what the processes        *)
(* remember agree with each other, so that a key that is free again names no slot to come.      *)
ScheduleInv ==
  /\ TypeOK
  /\ \A r \in Ids : IF r < sequence THEN Accounted(r) ELSE ~Present(r)
  /\ \A p \in Processes : Recent(p)
  /\ SlotWrittenOnce /\ RememberedIsWritten

NamedNow(t, slot) == \E r \in 1 .. sequence' - 1 : asked'[r].key = <<t, slot>>

(* app.py:262-286 - a pass that goes past a task leaves the slot next after its instant written, *)
(* the ones it did not even ask the trigger for included; and a pass that comes to its end, cut   *)
(* short neither by a store that raised nor by the process, left out no task at all, whichever    *)
(* of them an earlier pass of this process was refused before, and whatever is remembered of it.  *)
NoSlotPassedOver ==
  [][\A p \in Processes :
       /\ Walking(p) /\ pass'[p].at = pass[p].at + 1
            => NamedNow(pass[p].at, NextAfter(pass[p].at, pass[p].moment))
       /\ pass[p].pc = "writing" /\ pass'[p] = NoPass
            => \/ SlotRefused(p) \/ Restart(p)
               \/ \A t \in Tasks : NamedNow(t, NextAfter(t, pass[p].moment))]_vars
=============================================================================
