---------------------------- MODULE FleetProofs ----------------------------
(***************************************************************************)
(* That the fleet keeps its invariant, for every number of workers, slots, *)
(* runs, attempts and instants, and what follows from it: the properties   *)
(* of single steps, and the two specifications the fleet implements.  Of   *)
(* the store in memory it asks only what any store may do (Contract), and  *)
(* it keeps what the library promises (Promise).                           *)
(***************************************************************************)
EXTENDS Fleet, StoreLemmas

-----------------------------------------------------------------------------
(* What the updates of the two tables leave behind. *)

LEMMA SetTask ==
  ASSUME TypeOK, NEW w \in Workers, NEW s \in Slots, NEW t \in Task, Set(w, s, t)
  PROVE  /\ task' \in [Workers -> [Slots -> Task]]
         /\ \A v \in Workers, q \in Slots :
              task'[v][q] = IF v = w /\ q = s THEN t ELSE task[v][q]
BY DEF TypeOK, Set

LEMMA WriteRow ==
  ASSUME TypeOK, NEW r \in Ids, NEW row \in Row, Write(r, row)
  PROVE  /\ runs' \in [Ids -> Row]
         /\ \A q \in Ids : runs'[q] = IF q = r THEN row ELSE runs[q]
         /\ asked' = asked /\ sequence' = sequence
BY DEF TypeOK, Write

-----------------------------------------------------------------------------
(* How a row may change without a number falling below an attempt that still carries it: it    *)
(* stands, it closes or goes, its lease is pushed, it goes back to the queue with its attempt,  *)
(* or it is claimed under the next number.                                                      *)
Steady(r) ==
  \/ runs'[r] = runs[r]
  \/ /\ r < sequence /\ runs'[r].status \notin {"pending", "running"}
     /\ runs'[r].attempts \in {0, runs[r].attempts}
  \/ /\ runs[r].status = "running" /\ runs'[r].status = "running"
     /\ runs'[r].worker = runs[r].worker /\ runs'[r].attempts = runs[r].attempts
  \/ /\ runs[r].status = "running" /\ runs'[r].status = "pending"
     /\ runs'[r].attempts = runs[r].attempts
     /\ runs[r].attempts < asked[r].max_attempts
  \/ /\ runs[r].status = "pending" /\ runs'[r].status = "running"
     /\ runs'[r].attempts = runs[r].attempts + 1

LEMMA SteadyRow ==
  ASSUME FleetInv, UNCHANGED <<asked, sequence, entered>>, runs' \in [Ids -> Row],
         NEW r \in Ids, Steady(r), r >= sequence => closings'[r] = 0
  PROVE  (IF r < sequence THEN Counted(r) ELSE Unwritten(r))'
<1>1. /\ runs[r] \in Row /\ runs'[r] \in Row
      /\ IF r < sequence THEN Counted(r) ELSE Unwritten(r)
      /\ entered[r] \subseteq Nat
      /\ sequence \in Int /\ r \in Int
  BY DEF FleetInv, TypeOK, Rows, Ids
<1>2. CASE r >= sequence
  <2>1. runs'[r] = runs[r]
    BY <1>1, <1>2 DEF Steady, Unwritten, Present, Row
  <2>. QED  BY <1>1, <1>2, <2>1 DEF Unwritten, Present
<1>3. CASE r < sequence
  <2>1. asked[r].max_attempts \in Nat \ {0}
    BY <1>1, <1>3, StoreAssumption DEF Counted, OrderType
  <2>2. runs[r].attempts \in Nat /\ runs'[r].attempts \in Nat
    BY <1>1 DEF Row
  <2>3. Counted(r)'
    BY <1>1, <1>3, <2>1, <2>2 DEF Steady, Counted
  <2>. QED  BY <1>3, <2>3
<1>. QED  BY <1>1, <1>2, <1>3

LEMMA SteadyAttempt ==
  ASSUME FleetInv, UNCHANGED <<asked, sequence, entered>>, runs' \in [Ids -> Row],
         NEW w \in Workers, NEW t \in Task, Fenced(w, t), Earned(t), Steady(t.run)
  PROVE  Fenced(w, t)' /\ Earned(t)'
<1>1. t.run \in Ids /\ t.run < sequence /\ t.attempt \in Nat
  BY StoreAssumption DEF Fenced, Task, FleetInv, TypeOK, Ids
<1>2. /\ runs[t.run].attempts \in Nat /\ runs'[t.run].attempts \in Nat
  BY <1>1 DEF FleetInv, TypeOK, Row
<1>3. Earned(t)'
  BY DEF Earned
<1>4. Fenced(w, t)'
  BY <1>1, <1>2 DEF Fenced, Steady
<1>. QED  BY <1>3, <1>4

(* A step that is steady for every row, and in which every attempt still answering did so *)
(* before under the same number, keeps the invariant.                                     *)
LEMMA SteadyStep ==
  ASSUME FleetInv, TypeOK', UNCHANGED <<asked, sequence, entered>>,
         \A r \in Ids : Steady(r),
         \A r \in Ids : r >= sequence => closings'[r] = closings[r],
         \A w \in Workers, s \in Slots : Live(task'[w][s]) =>
           /\ Live(task[w][s])
           /\ task'[w][s].run = task[w][s].run
           /\ task'[w][s].attempt = task[w][s].attempt
           /\ Earned(task'[w][s])
  PROVE  FleetInv'
<1>. runs' \in [Ids -> Row]
  BY DEF TypeOK
<1>1. Rows'
  <2>. SUFFICES ASSUME NEW r \in Ids
                PROVE  (IF r < sequence THEN Counted(r) ELSE Unwritten(r))'
    BY DEF Rows
  <2>1. r >= sequence => closings'[r] = 0
    BY DEF FleetInv, TypeOK, Rows, Unwritten, Ids
  <2>. QED  BY <2>1, SteadyRow
<1>2. Attempts'
  <2>. SUFFICES ASSUME NEW w \in Workers, NEW s \in Slots, Live(task[w][s])'
                PROVE  (Fenced(w, task[w][s]) /\ Earned(task[w][s]))'
    BY DEF Attempts
  <2>1. PICK t \in Task : t = task'[w][s]
    BY DEF TypeOK
  <2>2. /\ Live(task[w][s]) /\ Earned(t)
        /\ t.run = task[w][s].run /\ t.attempt = task[w][s].attempt
    BY <2>1 DEF Live
  <2>3. Fenced(w, t)
    BY <2>2 DEF FleetInv, Attempts, Fenced
  <2>4. Steady(t.run)
    BY <2>3, StoreAssumption DEF Fenced, FleetInv, TypeOK, Ids
  <2>5. Fenced(w, t)' /\ Earned(t)'
    BY <2>2, <2>3, <2>4, SteadyAttempt
  <2>. QED  BY <2>1, <2>5 DEF Fenced, Earned
<1>3. Distinct'
  BY DEF FleetInv, Distinct, Live
<1>. QED  BY <1>1, <1>2, <1>3 DEF FleetInv

(* The same for a step of one task, which goes on under the number it had or stops answering. *)
LEMMA TaskStepInv ==
  ASSUME FleetInv, NEW w \in Workers, NEW s \in Slots, NEW t \in Task, Set(w, s, t),
         UNCHANGED <<asked, sequence, now, entered>>,
         runs' \in [Ids -> Row], (\A r \in Ids : WellFormed(runs[r]))', \A r \in Ids : Steady(r),
         closings' \in [Ids -> Nat], \A r \in Ids : r >= sequence => closings'[r] = closings[r],
         Live(t) => /\ Live(task[w][s]) /\ Earned(t)
                    /\ t.run = task[w][s].run /\ t.attempt = task[w][s].attempt
  PROVE  FleetInv'
<1>1. /\ task' \in [Workers -> [Slots -> Task]]
      /\ \A v \in Workers, q \in Slots :
           task'[v][q] = IF v = w /\ q = s THEN t ELSE task[v][q]
  BY SetTask DEF FleetInv
<1>2. TypeOK'
  BY <1>1 DEF FleetInv, TypeOK
<1>3. ASSUME NEW v \in Workers, NEW q \in Slots, Live(task'[v][q])
      PROVE  /\ Live(task[v][q])
             /\ task'[v][q].run = task[v][q].run
             /\ task'[v][q].attempt = task[v][q].attempt
             /\ Earned(task'[v][q])
  <2>1. CASE v = w /\ q = s
    BY <1>1, <1>3, <2>1
  <2>2. CASE ~(v = w /\ q = s)
    BY <1>1, <1>3, <2>2 DEF FleetInv, Attempts
  <2>. QED  BY <2>1, <2>2
<1>. QED  BY <1>2, <1>3, SteadyStep

LEMMA TaskOnlyInv ==
  ASSUME FleetInv, NEW w \in Workers, NEW s \in Slots, NEW t \in Task, Set(w, s, t),
         UNCHANGED <<storeVars, now, entered, closings>>,
         Live(t) => /\ Live(task[w][s]) /\ Earned(t)
                    /\ t.run = task[w][s].run /\ t.attempt = task[w][s].attempt
  PROVE  FleetInv'
<1>1. UNCHANGED <<runs, asked, sequence, now, entered, closings>>
  BY DEF storeVars
<1>2. /\ runs' \in [Ids -> Row] /\ (\A r \in Ids : WellFormed(runs[r]))'
      /\ \A r \in Ids : Steady(r)
      /\ closings' \in [Ids -> Nat]
  BY <1>1 DEF FleetInv, TypeOK, Steady, WellFormed
<1>. QED  BY <1>1, <1>2, TaskStepInv

(* What a live task earned, and that moving it keeps it a task. *)
LEMMA LiveTask ==
  ASSUME FleetInv, NEW w \in Workers, NEW s \in Slots, Live(task[w][s])
  PROVE  /\ Fenced(w, task[w][s]) /\ Earned(task[w][s])
         /\ task[w][s].run \in Ids /\ task[w][s].run < sequence
         /\ task[w][s].attempt \in Nat
BY StoreAssumption DEF FleetInv, TypeOK, Attempts, Fenced, Ids, Task

LEMMA EndingInv ==
  ASSUME FleetInv, NEW w \in Workers, NEW s \in Slots, NEW from, NEW ending,
         Ending(w, s, from, ending),
         \/ from \in {"starting", "handed"} /\ ending = "release"
         \/ from = "working" /\ ending = "complete"
         \/ from \in {"handed", "working"} /\ ending = "fail"
         \/ from \in {"handed", "working"} /\ ending = "retry" /\ ~Spent(task[w][s])
  PROVE  FleetInv'
<1>. DEFINE o == task[w][s]
            t == [o EXCEPT !.pc = "ending", !.ending = ending]
<1>1. o \in Task /\ o.pc = from /\ Live(o)
  BY DEF FleetInv, TypeOK, Ending, Live
<1>2. Earned(o) /\ Fenced(w, o)
  BY <1>1, LiveTask
<1>3. t \in Task
  BY <1>1 DEF Task
<1>4. /\ Live(t) /\ t.run = o.run /\ t.attempt = o.attempt
      /\ t.pc = "ending" /\ t.ending = ending
  BY <1>1 DEF Task, Live
<1>5. ending = "retry" => o.attempt < asked[o.run].max_attempts
  <2>1. o.run \in Ids /\ o.run < sequence /\ o.attempt \in Nat
    BY <1>1, LiveTask
  <2>2. asked[o.run].max_attempts \in Nat
    BY <2>1, StoreAssumption DEF FleetInv, Rows, Counted, OrderType
  <2>. QED  BY <2>1, <2>2 DEF Spent
<1>6. Earned(t)
  BY <1>1, <1>2, <1>4, <1>5 DEF Earned
<1>7. Set(w, s, t) /\ UNCHANGED <<storeVars, now, entered, closings>>
  BY DEF Ending
<1>. HIDE DEF t
<1>. QED  BY <1>1, <1>3, <1>4, <1>6, <1>7, TaskOnlyInv

-----------------------------------------------------------------------------
(* What the store writes into a row is a well-formed row. *)

LEMMA ClosedRow ==
  ASSUME NEW row \in Row, NEW status \in Settled, NEW moment \in Nat
  PROVE  /\ Closed(row, status, moment) \in Row
         /\ WellFormed(Closed(row, status, moment))
         /\ Closed(row, status, moment).status = status
         /\ Closed(row, status, moment).attempts = row.attempts
<1>. DEFINE new == Closed(row, status, moment)
<1>0. /\ status \in Statuses \union {"absent"} /\ moment \in Int
      /\ Nobody \in Workers \union {Nobody} /\ NoInstant \in Int
  BY DEF Statuses, NoInstant
<1>1. new \in Row
  BY <1>0 DEF Row, Closed
<1>3. /\ new.status = status /\ new.finished_at = moment /\ new.attempts = row.attempts
      /\ new.worker = Nobody /\ new.lease_until = NoInstant
  BY DEF Row, Closed
<1>2. status # "running" /\ moment # NoInstant
  BY DEF Settled, NoInstant
<1>. HIDE DEF new
<1>. QED  BY <1>1, <1>2, <1>3, StoreAssumption DEF WellFormed, new

LEMMA RequeuedRow ==
  ASSUME NEW row \in Row, NEW due_at \in Int, NEW counted \in Int, row.attempts + counted \in Nat,
         row.status = "running", WellFormed(row)
  PROVE  /\ Requeued(row, due_at, counted) \in Row
         /\ WellFormed(Requeued(row, due_at, counted))
         /\ Requeued(row, due_at, counted).status = "pending"
         /\ Requeued(row, due_at, counted).attempts = row.attempts + counted
BY StoreAssumption DEF Row, Requeued, WellFormed, Settled, Statuses, NoInstant

LEMMA ClaimedRow ==
  ASSUME NEW row \in Row, NEW w \in Workers, NEW moment \in Nat, row.status = "pending", WellFormed(row)
  PROVE  /\ ClaimedBy(row, w, moment) \in Row
         /\ WellFormed(ClaimedBy(row, w, moment))
         /\ ClaimedBy(row, w, moment).status = "running"
         /\ ClaimedBy(row, w, moment).worker = w
         /\ ClaimedBy(row, w, moment).attempts = row.attempts + 1
<1>. DEFINE new == ClaimedBy(row, w, moment)
<1>0. "running" \in Statuses /\ moment + Lease \in Int /\ row.attempts + 1 \in Nat
  BY StoreAssumption DEF Row, Statuses
<1>1. /\ new \in Row
      /\ new.status = "running" /\ new.worker = w /\ new.attempts = row.attempts + 1
      /\ new.lease_until = moment + Lease /\ new.finished_at = row.finished_at
  BY <1>0 DEF Row, ClaimedBy
<1>2. moment + Lease # NoInstant /\ row.finished_at = NoInstant /\ "running" \notin Settled
  BY StoreAssumption DEF Settled, NoInstant, WellFormed
<1>. HIDE DEF new
<1>. QED  BY <1>1, <1>2, StoreAssumption DEF WellFormed, new

LEMMA PushedRow ==
  ASSUME NEW row \in Row, NEW moment \in Nat, row.status = "running", WellFormed(row)
  PROVE  /\ [row EXCEPT !.lease_until = moment + Lease] \in Row
         /\ WellFormed([row EXCEPT !.lease_until = moment + Lease])
         /\ [row EXCEPT !.lease_until = moment + Lease].status = "running"
         /\ [row EXCEPT !.lease_until = moment + Lease].worker = row.worker
         /\ [row EXCEPT !.lease_until = moment + Lease].attempts = row.attempts
BY StoreAssumption DEF Row, WellFormed, Settled, Statuses, NoInstant

-----------------------------------------------------------------------------
(* The rows after a call that may rewrite several of them, each by itself. *)

LEMMA RowsInv ==
  ASSUME FleetInv, NEW f, runs' = [r \in Ids |-> f[r]], UNCHANGED <<asked, sequence>>, UNCHANGED fleetVars,
         \A r \in Ids : f[r] \in Row /\ WellFormed(f[r]),
         \A r \in Ids : Steady(r)
  PROVE  FleetInv'
<1>1. UNCHANGED <<now, task, entered, closings>>
  BY DEF fleetVars
<1>2. runs' \in [Ids -> Row] /\ (\A r \in Ids : WellFormed(runs[r]))'
  BY DEF WellFormed
<1>3. TypeOK'
  BY <1>1, <1>2 DEF FleetInv, TypeOK
<1>4. \A w \in Workers, s \in Slots : Live(task'[w][s]) => Earned(task'[w][s]) /\ Live(task[w][s])
  BY <1>1 DEF FleetInv, Attempts
<1>. QED  BY <1>1, <1>3, <1>4, SteadyStep

LEMMA CancelRunInv ==
  ASSUME FleetInv, NEW r \in Ids, CancelRun(r)
  PROVE  FleetInv'
<1>. DEFINE row == Closed(runs[r], "canceled", now)
<1>1. /\ runs[r].status = "pending" /\ Write(r, row) /\ UNCHANGED fleetVars
      /\ TypeOK /\ runs[r] \in Row /\ now \in Nat
  BY DEF CancelRun, Cancel, FleetInv, TypeOK
<1>2. row \in Row /\ WellFormed(row) /\ row.status = "canceled" /\ row.attempts = runs[r].attempts
  BY <1>1, ClosedRow DEF Settled
<1>3. r < sequence
  BY <1>1 DEF FleetInv, TypeOK, Rows, Unwritten, Present, Ids
<1>. HIDE DEF row
<1>4. /\ runs' \in [Ids -> Row]
      /\ \A q \in Ids : runs'[q] = IF q = r THEN row ELSE runs[q]
      /\ asked' = asked /\ sequence' = sequence
  BY <1>1, <1>2, WriteRow
<1>5. \A q \in Ids : Steady(q)
  BY <1>2, <1>3, <1>4 DEF Steady
<1>6. \A q \in Ids : runs'[q] \in Row /\ WellFormed(runs'[q])
  BY <1>1, <1>2, <1>4 DEF TypeOK
<1>7. runs' = [q \in Ids |-> runs'[q]]
  BY <1>4
<1>. QED  BY <1>1, <1>4, <1>5, <1>6, <1>7, RowsInv

LEMMA ReclaimInv ==
  ASSUME FleetInv, NEW moment \in Nat, ReclaimExpired(moment)
  PROVE  FleetInv'
<1>. DEFINE abandoned == Oldest({r \in Ids : Expired(r, moment)}, ReclaimBatch)
            f == [r \in Ids |-> IF r \in abandoned THEN TakenBack(r, moment) ELSE runs[r]]
<1>1. runs' = f /\ UNCHANGED <<asked, sequence>> /\ UNCHANGED fleetVars
  BY DEF ReclaimExpired, Reclaim
<1>3. /\ runs' = [r \in Ids |-> f[r]]
      /\ \A r \in Ids : f[r] = IF r \in abandoned THEN TakenBack(r, moment) ELSE runs[r]
  BY <1>1
<1>. HIDE DEF f
<1>2. ASSUME NEW r \in Ids
      PROVE  /\ f[r] \in Row /\ WellFormed(f[r])
             /\ Steady(r)
  <2>1. runs[r] \in Row /\ WellFormed(runs[r])
    BY DEF FleetInv, TypeOK
  <2>2. CASE r \notin abandoned
    BY <1>3, <2>1, <2>2 DEF Steady
  <2>3. CASE r \in abandoned
    <3>1. runs[r].status = "running" /\ f[r] = TakenBack(r, moment) /\ runs'[r] = f[r]
      BY <1>3, <2>3 DEF Oldest, Expired
    <3>2. r < sequence /\ Counted(r)
      BY <3>1 DEF FleetInv, TypeOK, Rows, Unwritten, Present, Ids
    <3>3. CASE Exhausted(r)
      <4>1. f[r] = Closed(runs[r], "failed", moment)
        BY <3>1, <3>3 DEF TakenBack
      <4>2. /\ f[r] \in Row /\ WellFormed(f[r]) /\ f[r].status = "failed"
            /\ f[r].attempts = runs[r].attempts
        BY <2>1, <4>1, ClosedRow DEF Settled
      <4>. QED  BY <3>1, <3>2, <4>2 DEF Steady
    <3>4. CASE ~Exhausted(r)
      <4>1. f[r] = Requeued(runs[r], moment, 0)
        BY <3>1, <3>4 DEF TakenBack
      <4>2. /\ runs[r].attempts \in Nat /\ asked[r].max_attempts \in Nat
            /\ runs[r].attempts < asked[r].max_attempts
            /\ runs[r].attempts + 0 = runs[r].attempts
        BY <2>1, <3>2, <3>4, StoreAssumption DEF Row, Counted, OrderType, Exhausted
      <4>3. /\ f[r] \in Row /\ WellFormed(f[r]) /\ f[r].status = "pending"
            /\ f[r].attempts = runs[r].attempts
        BY <2>1, <3>1, <4>1, <4>2, RequeuedRow
      <4>. QED  BY <3>1, <4>2, <4>3 DEF Steady
    <3>. QED  BY <3>3, <3>4
  <2>. QED  BY <2>2, <2>3
<1>. QED  BY <1>1, <1>2, <1>3, RowsInv

LEMMA PruneInv ==
  ASSUME FleetInv, NEW moment \in Nat, Prune(moment)
  PROVE  FleetInv'
<1>. DEFINE gone == Oldest({r \in Ids : Prunable(r, moment - Keep)}, PurgeLimit)
            f == [r \in Ids |-> IF r \in gone THEN Absent ELSE runs[r]]
<1>1. runs' = f /\ UNCHANGED <<asked, sequence>> /\ UNCHANGED fleetVars
  BY DEF Prune, Purge
<1>2. /\ runs' = [r \in Ids |-> f[r]]
      /\ \A r \in Ids : f[r] = IF r \in gone THEN Absent ELSE runs[r]
  BY <1>1
<1>3. Absent \in Row /\ WellFormed(Absent) /\ Absent.status = "absent" /\ Absent.attempts = 0
  BY StoreAssumption DEF Absent, Row, WellFormed, Settled, Statuses, NoInstant
<1>. HIDE DEF f
<1>4. ASSUME NEW r \in Ids
      PROVE  /\ f[r] \in Row /\ WellFormed(f[r])
             /\ Steady(r)
  <2>1. CASE r \notin gone
    BY <1>2, <2>1 DEF Steady, FleetInv, TypeOK
  <2>2. CASE r \in gone
    <3>1. runs[r].status \in Settled /\ f[r] = Absent /\ runs'[r] = Absent
      BY <1>2, <2>2 DEF Oldest, Prunable
    <3>2. r < sequence
      BY <3>1 DEF FleetInv, TypeOK, Rows, Unwritten, Present, Ids, Settled
    <3>. QED  BY <1>3, <3>1, <3>2 DEF Steady
  <2>. QED  BY <2>1, <2>2
<1>. QED  BY <1>1, <1>2, <1>4, RowsInv

(* What a claim does to the rows. *)
LEMMA ClaimRows ==
  ASSUME FleetInv, NEW w \in Workers, NEW queues, NEW limit, Claim(w, queues, limit, now)
  PROVE  /\ UNCHANGED <<asked, sequence>>
         /\ runs' \in [Ids -> Row]
         /\ (\A r \in Ids : WellFormed(runs[r]))'
         /\ \A r \in Ids : Steady(r)
         /\ \A r \in Won(queues, limit, now) :
              /\ r \in Ids /\ r < sequence /\ Counted(r)
              /\ runs[r].status = "pending" /\ runs'[r].status = "running"
              /\ runs'[r].worker = w
              /\ runs'[r].attempts = runs[r].attempts + 1
<1>. DEFINE won == Won(queues, limit, now)
            f == [r \in Ids |-> IF r \in won THEN ClaimedBy(runs[r], w, now) ELSE runs[r]]
<1>1. runs' = f /\ UNCHANGED <<asked, sequence>>
  BY DEF Claim
<1>2. /\ runs' = [r \in Ids |-> runs'[r]]
      /\ \A r \in Ids : runs'[r] = IF r \in won THEN ClaimedBy(runs[r], w, now) ELSE runs[r]
  BY <1>1
<1>3. \A r \in won : r \in Ids /\ runs[r].status = "pending"
  BY DEF Won, Claimable
<1>. HIDE DEF f, won
<1>4. ASSUME NEW r \in won
      PROVE  /\ runs'[r] \in Row /\ WellFormed(runs'[r])
             /\ r \in Ids /\ r < sequence /\ Counted(r)
             /\ runs[r].status = "pending" /\ runs'[r].status = "running"
             /\ runs'[r].worker = w
             /\ runs'[r].attempts = runs[r].attempts + 1
             /\ Steady(r)
  <2>1. runs[r] \in Row /\ WellFormed(runs[r]) /\ now \in Nat
    BY <1>3 DEF FleetInv, TypeOK
  <2>2. r < sequence /\ Counted(r)
    BY <1>3 DEF FleetInv, TypeOK, Rows, Unwritten, Present, Ids
  <2>3. runs'[r] = ClaimedBy(runs[r], w, now)
    BY <1>2, <1>3
  <2>4. /\ runs'[r] \in Row /\ WellFormed(runs'[r])
        /\ runs'[r].status = "running" /\ runs'[r].worker = w
        /\ runs'[r].attempts = runs[r].attempts + 1
    BY <1>3, <2>1, <2>3, ClaimedRow
  <2>. QED  BY <1>3, <2>2, <2>4 DEF Steady
<1>5. ASSUME NEW r \in Ids, r \notin won
      PROVE  runs'[r] = runs[r] /\ runs'[r] \in Row /\ WellFormed(runs'[r]) /\ Steady(r)
  BY <1>2, <1>5 DEF Steady, FleetInv, TypeOK
<1>6. (\A r \in Ids : WellFormed(runs[r]))'
  BY <1>4, <1>5
<1>. QED  BY <1>1, <1>2, <1>4, <1>5, <1>6 DEF won

LEMMA ClaimUnheardInv ==
  ASSUME FleetInv, NEW w \in Workers, ClaimUnheard(w)
  PROVE  FleetInv'
<1>1. PICK free : Claim(w, Serves[w], free, now) /\ UNCHANGED fleetVars
  BY DEF ClaimUnheard
<1>2. /\ UNCHANGED <<asked, sequence>>
      /\ runs' \in [Ids -> Row]
      /\ (\A r \in Ids : WellFormed(runs[r]))'
      /\ \A r \in Ids : Steady(r)
  BY <1>1, ClaimRows
<1>3. /\ runs' = [r \in Ids |-> runs'[r]]
      /\ \A r \in Ids : runs'[r] \in Row /\ WellFormed(runs'[r])
  BY <1>2 DEF WellFormed
<1>. QED  BY <1>1, <1>2, <1>3, RowsInv

(* The runs a claim wins are handed to idle slots, each under a number above every attempt *)
(* still answering for it.                                                                 *)
LEMMA ClaimDueInv ==
  ASSUME FleetInv, NEW w \in Workers, ClaimDue(w)
  PROVE  FleetInv'
<1>0. PICK free : /\ Claim(w, Serves[w], free, now)
                  /\ \E place \in Handing(w, Won(Serves[w], free, now)) :
                       task' = [task EXCEPT ![w] = [s \in Slots |->
                                  IF place[s] # 0 THEN Spawned(place[s]) ELSE task[w][s]]]
                  /\ UNCHANGED <<now, entered, closings>>
  BY DEF ClaimDue
<1>. DEFINE won == Won(Serves[w], free, now)
<1>1. /\ Claim(w, Serves[w], free, now)
      /\ UNCHANGED <<now, entered, closings>>
  BY <1>0
<1>2. PICK place \in Handing(w, won) :
        task' = [task EXCEPT ![w] = [s \in Slots |->
                   IF place[s] # 0 THEN Spawned(place[s]) ELSE task[w][s]]]
  BY <1>0
<1>3. /\ UNCHANGED <<asked, sequence>>
      /\ runs' \in [Ids -> Row]
      /\ (\A r \in Ids : WellFormed(runs[r]))'
      /\ \A r \in Ids : Steady(r)
      /\ \A r \in won :
           /\ r \in Ids /\ r < sequence /\ Counted(r)
           /\ runs[r].status = "pending" /\ runs'[r].status = "running"
           /\ runs'[r].worker = w
           /\ runs'[r].attempts = runs[r].attempts + 1
  BY <1>1, ClaimRows
<1>. HIDE DEF won
<1>4. /\ place \in [Slots -> won \union {0}]
      /\ \A s \in Slots : place[s] # 0 => place[s] \in won /\ task[w][s].pc = "idle"
      /\ \A s, q \in Slots : place[s] = place[q] /\ place[s] # 0 => s = q
  BY <1>2 DEF Handing, Idle
<1>. DEFINE New(v, q) == v = w /\ place[q] # 0
<1>5. ASSUME NEW r \in won
      PROVE  /\ Spawned(r) \in Task /\ Spawned(r).pc = "starting"
             /\ Spawned(r).run = r /\ Spawned(r).attempt = runs[r].attempts + 1
             /\ runs[r].attempts \in Nat /\ r \in Nat
  <2>1. runs[r].attempts \in Nat /\ r \in Ids /\ r \in Nat
    BY <1>3 DEF FleetInv, TypeOK, Row, Ids
  <2>. QED  BY <2>1 DEF Spawned, Task, NoInstant
<1>6. /\ task' \in [Workers -> [Slots -> Task]]
      /\ \A v \in Workers, q \in Slots :
           task'[v][q] = IF New(v, q) THEN Spawned(place[q]) ELSE task[v][q]
  <2>1. [s \in Slots |-> IF place[s] # 0 THEN Spawned(place[s]) ELSE task[w][s]] \in [Slots -> Task]
    BY <1>4, <1>5 DEF FleetInv, TypeOK
  <2>. QED  BY <1>2, <2>1 DEF FleetInv, TypeOK
<1>7. TypeOK'
  BY <1>1, <1>3, <1>6 DEF FleetInv, TypeOK
<1>8. Rows'
  BY <1>1, <1>3, SteadyRow DEF FleetInv, TypeOK, Rows, Unwritten, Ids
<1>9. ASSUME NEW v \in Workers, NEW q \in Slots, New(v, q)
      PROVE  /\ Live(task'[v][q])
             /\ task'[v][q].run = place[q]
             /\ task'[v][q].attempt = runs[place[q]].attempts + 1
             /\ ~Live(task[v][q])
             /\ (Fenced(v, task[v][q]) /\ Earned(task[v][q]))'
  <2>. DEFINE r == place[q]
  <2>1. r \in won /\ task'[v][q] = Spawned(r) /\ v = w
    BY <1>4, <1>6, <1>9
  <2>2. PICK t \in Task : t = task'[v][q]
    BY <1>5, <2>1
  <2>3. t.pc = "starting" /\ t.run = r /\ t.attempt = runs[r].attempts + 1
    BY <1>5, <2>1, <2>2
  <2>4. /\ r \in 1 .. sequence - 1
        /\ runs[r].attempts < asked[r].max_attempts
        /\ entered[r] \subseteq 1 .. runs[r].attempts
        /\ asked[r].max_attempts \in Nat
        /\ runs[r].attempts \in Nat
    BY <1>3, <1>5, <2>1, StoreAssumption DEF Counted, OrderType, Ids, FleetInv, TypeOK
  <2>. HIDE DEF r
  <2>5. Fenced(v, t)'
    BY <1>3, <2>1, <2>3, <2>4 DEF Fenced
  <2>6. Earned(t)'
    BY <1>1, <2>3, <2>4 DEF Earned
  <2>7. ~Live(task[v][q])
    BY <1>4, <1>9 DEF Live
  <2>. QED  BY <2>2, <2>3, <2>5, <2>6, <2>7 DEF Live, Fenced, Earned, r
<1>10. ASSUME NEW v \in Workers, NEW q \in Slots, ~New(v, q), Live(task'[v][q])
       PROVE  /\ Live(task[v][q]) /\ task'[v][q] = task[v][q]
              /\ task[v][q].run \in won => task[v][q].attempt < runs[task[v][q].run].attempts + 1
              /\ (Fenced(v, task[v][q]) /\ Earned(task[v][q]))'
  <2>1. task'[v][q] = task[v][q] /\ Live(task[v][q])
    BY <1>6, <1>10
  <2>2. PICK t \in Task : t = task[v][q]
    BY DEF FleetInv, TypeOK
  <2>3. Fenced(v, t) /\ Earned(t) /\ t.run \in Ids /\ t.attempt \in Nat
    BY <2>1, <2>2, LiveTask
  <2>4. Fenced(v, t)' /\ Earned(t)'
    BY <1>1, <1>3, <2>3, SteadyAttempt
  <2>5. t.run \in won => t.attempt < runs[t.run].attempts + 1
    BY <1>3, <1>5, <2>3 DEF Fenced
  <2>. QED  BY <2>1, <2>2, <2>4, <2>5 DEF Fenced, Earned
<1>11. Attempts'
  <2>. SUFFICES ASSUME NEW v \in Workers, NEW q \in Slots, Live(task[v][q])'
                PROVE  (Fenced(v, task[v][q]) /\ Earned(task[v][q]))'
    BY DEF Attempts
  <2>. QED  BY <1>9, <1>10 DEF Live
<1>12. Distinct'
  <2>. SUFFICES ASSUME NEW v \in Workers, NEW x \in Workers, NEW p \in Slots, NEW q \in Slots,
                       Live(task[v][p])', Live(task[x][q])',
                       task'[v][p].run = task'[x][q].run,
                       task'[v][p].attempt = task'[x][q].attempt
                PROVE  v = x /\ p = q
    BY DEF Distinct
  <2>0. Live(task'[v][p]) /\ Live(task'[x][q])
    BY DEF Live
  <2>1. CASE New(v, p) /\ New(x, q)
    BY <1>4, <1>9, <2>1
  <2>2. CASE New(v, p) /\ ~New(x, q)
    <3>1. task'[v][p].run = place[p] /\ task'[v][p].attempt = runs[place[p]].attempts + 1
      BY <1>9, <2>2
    <3>2. /\ task'[x][q] = task[x][q]
          /\ task[x][q].run \in won => task[x][q].attempt < runs[task[x][q].run].attempts + 1
      BY <1>10, <2>0, <2>2
    <3>3. place[p] \in won /\ runs[place[p]].attempts \in Nat
      BY <1>4, <1>5, <2>2
    <3>4. task[x][q].attempt \in Nat
      BY DEF FleetInv, TypeOK, Task
    <3>5. task[x][q].run = place[p] /\ task[x][q].attempt = runs[place[p]].attempts + 1
      BY <3>1, <3>2
    <3>6. task[x][q].attempt < runs[place[p]].attempts + 1
      BY <3>2, <3>3, <3>5
    <3>. QED  BY <3>3, <3>4, <3>5, <3>6
  <2>3. CASE ~New(v, p) /\ New(x, q)
    <3>1. task'[x][q].run = place[q] /\ task'[x][q].attempt = runs[place[q]].attempts + 1
      BY <1>9, <2>3
    <3>2. /\ task'[v][p] = task[v][p]
          /\ task[v][p].run \in won => task[v][p].attempt < runs[task[v][p].run].attempts + 1
      BY <1>10, <2>0, <2>3
    <3>3. place[q] \in won /\ runs[place[q]].attempts \in Nat
      BY <1>4, <1>5, <2>3
    <3>4. task[v][p].attempt \in Nat
      BY DEF FleetInv, TypeOK, Task
    <3>5. task[v][p].run = place[q] /\ task[v][p].attempt = runs[place[q]].attempts + 1
      BY <3>1, <3>2
    <3>6. task[v][p].attempt < runs[place[q]].attempts + 1
      BY <3>2, <3>3, <3>5
    <3>. QED  BY <3>3, <3>4, <3>5, <3>6
  <2>4. CASE ~New(v, p) /\ ~New(x, q)
    BY <1>10, <2>0, <2>4 DEF FleetInv, Distinct
  <2>. QED  BY <2>1, <2>2, <2>3, <2>4
<1>. QED  BY <1>7, <1>8, <1>11, <1>12 DEF FleetInv

-----------------------------------------------------------------------------
(* The steps of a task that leave the store alone. *)

LEMMA QuietTaskInv ==
  ASSUME FleetInv, NEW w \in Workers, NEW s \in Slots,
         \/ HandOver(w, s) \/ Unknown(w, s) \/ NeverStarted(w, s)
         \/ Answer(w, s) \/ Raise(w, s) \/ GiveUp(w, s)
         \/ Refused(w, s) \/ Told(w, s) \/ Leave(w, s)
         \/ SendBeat(w, s) \/ BeatLost(w, s)
  PROVE  FleetInv'
<1>. DEFINE o == task[w][s]
<1>0. o \in Task /\ now \in Nat /\ now \in Int /\ NoInstant \in Int
  BY DEF FleetInv, TypeOK, NoInstant
<1>1. CASE HandOver(w, s)
  <2>. DEFINE t == [o EXCEPT !.pc = "handed"]
  <2>1. Set(w, s, t) /\ UNCHANGED <<storeVars, now, entered, closings>> /\ o.pc = "starting"
    BY <1>1 DEF HandOver
  <2>2. t \in Task /\ t.pc = "handed" /\ t.run = o.run /\ t.attempt = o.attempt
    BY <1>0 DEF Task
  <2>3. Live(o) /\ Earned(o)
    BY <2>1, LiveTask DEF Live
  <2>. HIDE DEF t
  <2>4. Earned(t)
    BY <2>1, <2>2, <2>3 DEF Earned
  <2>. QED  BY <2>1, <2>2, <2>3, <2>4, TaskOnlyInv
<1>2. CASE Unknown(w, s) \/ NeverStarted(w, s) \/ Answer(w, s) \/ GiveUp(w, s)
  BY <1>2, EndingInv DEF Unknown, NeverStarted, Answer, GiveUp
<1>3. CASE Raise(w, s)
  BY <1>3, EndingInv DEF Raise
<1>4. CASE Refused(w, s) \/ Told(w, s)
  <2>. DEFINE t == [o EXCEPT !.pc = "resting"]
  <2>1. Set(w, s, t) /\ UNCHANGED <<storeVars, now, entered, closings>>
    BY <1>4 DEF Refused, Told
  <2>2. t \in Task /\ t.pc = "resting"
    BY <1>0 DEF Task
  <2>. HIDE DEF t
  <2>. QED  BY <2>1, <2>2, TaskOnlyInv DEF Live
<1>5. CASE Leave(w, s)
  <2>1. Set(w, s, NoTask) /\ UNCHANGED <<storeVars, now, entered, closings>>
    BY <1>5 DEF Leave
  <2>2. NoTask \in Task /\ NoTask.pc = "idle"
    BY DEF NoTask, Task, NoInstant
  <2>. QED  BY <2>1, <2>2, TaskOnlyInv DEF Live
<1>6. CASE SendBeat(w, s) \/ BeatLost(w, s)
  <2>1. PICK beat \in Nat \union {NoInstant} :
          Set(w, s, [o EXCEPT !.beat = beat]) /\ UNCHANGED <<storeVars, now, entered, closings>>
    BY <1>0, <1>6 DEF SendBeat, BeatLost
  <2>. DEFINE t == [o EXCEPT !.beat = beat]
  <2>2. /\ t \in Task /\ t.pc = o.pc /\ t.run = o.run /\ t.attempt = o.attempt
        /\ t.ending = o.ending
    BY <1>0 DEF Task
  <2>3. Live(o) => Earned(o)
    BY DEF FleetInv, Attempts
  <2>4. Set(w, s, t)
    BY <2>1
  <2>. HIDE DEF t
  <2>5. Live(t) => Live(o) /\ Earned(t)
    BY <2>2, <2>3 DEF Live, Earned
  <2>. QED  BY <2>1, <2>2, <2>4, <2>5, TaskOnlyInv
<1>. QED  BY <1>1, <1>2, <1>3, <1>4, <1>5, <1>6

LEMMA BeatLandsInv ==
  ASSUME FleetInv, NEW w \in Workers, NEW s \in Slots, BeatLands(w, s)
  PROVE  FleetInv'
<1>. DEFINE o == task[w][s]
            t == [o EXCEPT !.beat = NoInstant]
<1>1. /\ o \in Task /\ Set(w, s, t) /\ UNCHANGED <<now, entered, closings>>
      /\ o.beat # NoInstant
      /\ \/ Heartbeat(o.run, w, o.attempt, o.beat)
         \/ UNCHANGED storeVars
  BY DEF BeatLands, FleetInv, TypeOK
<1>2. /\ t \in Task /\ t.pc = o.pc /\ t.run = o.run /\ t.attempt = o.attempt
      /\ t.ending = o.ending
  BY <1>1 DEF Task, NoInstant
<1>. HIDE DEF t
<1>3. Live(t) => Live(o) /\ Earned(t)
  BY <1>2 DEF Live, Earned, FleetInv, Attempts
<1>4. CASE UNCHANGED storeVars
  BY <1>1, <1>2, <1>3, <1>4, TaskOnlyInv
<1>5. CASE Heartbeat(o.run, w, o.attempt, o.beat)
  <2>. DEFINE r == o.run
              row == [runs[r] EXCEPT !.lease_until = o.beat + Lease]
  <2>1. runs[r].status = "running" /\ Write(r, row) /\ o.beat \in Nat /\ r \in Ids \union {0}
    BY <1>1, <1>5 DEF Heartbeat, Held, Task
  <2>2. CASE r = 0
    <3>1. UNCHANGED storeVars
      BY <2>1, <2>2 DEF Write, storeVars, FleetInv, TypeOK, Ids
    <3>. QED  BY <1>4, <3>1
  <2>3. CASE r \in Ids
    <3>1. runs[r] \in Row /\ WellFormed(runs[r]) /\ TypeOK
      BY <2>3 DEF FleetInv, TypeOK
    <3>2. /\ row \in Row /\ WellFormed(row) /\ row.status = "running"
          /\ row.worker = runs[r].worker /\ row.attempts = runs[r].attempts
      BY <2>1, <3>1, PushedRow
    <3>. HIDE DEF row
    <3>3. /\ runs' \in [Ids -> Row]
          /\ \A q \in Ids : runs'[q] = IF q = r THEN row ELSE runs[q]
          /\ asked' = asked /\ sequence' = sequence
      BY <2>1, <2>3, <3>1, <3>2, WriteRow
    <3>4. \A q \in Ids : Steady(q)
      BY <2>1, <3>2, <3>3 DEF Steady
    <3>5. (\A q \in Ids : WellFormed(runs[q]))'
      BY <3>1, <3>2, <3>3 DEF TypeOK, WellFormed
    <3>6. closings' \in [Ids -> Nat]
      BY <1>1, <3>1 DEF TypeOK
    <3>. QED  BY <1>1, <1>2, <1>3, <3>3, <3>4, <3>5, <3>6, TaskStepInv
  <2>. QED  BY <2>1, <2>2, <2>3
<1>. QED  BY <1>1, <1>4, <1>5

LEMMA CrashInv ==
  ASSUME FleetInv, NEW w \in Workers, Crash(w)
  PROVE  FleetInv'
<1>1. UNCHANGED <<runs, asked, sequence, now, entered, closings>>
  BY DEF Crash, storeVars
<1>2. NoTask \in Task /\ ~Live(NoTask)
  BY DEF NoTask, Task, NoInstant, Live
<1>3. /\ task' \in [Workers -> [Slots -> Task]]
      /\ \A v \in Workers, q \in Slots : task'[v][q] = IF v = w THEN NoTask ELSE task[v][q]
  BY <1>2 DEF Crash, FleetInv, TypeOK
<1>4. TypeOK'
  BY <1>1, <1>3 DEF FleetInv, TypeOK, WellFormed
<1>5. \A r \in Ids : Steady(r)
  BY <1>1 DEF Steady
<1>6. \A v \in Workers, q \in Slots : Live(task'[v][q]) => task'[v][q] = task[v][q] /\ Live(task[v][q])
  BY <1>2, <1>3
<1>7. \A v \in Workers, q \in Slots : Live(task[v][q]) => Earned(task[v][q])
  BY DEF FleetInv, Attempts
<1>8. \A v \in Workers, q \in Slots : Live(task'[v][q]) => Earned(task'[v][q])
  BY <1>6, <1>7
<1>. QED  BY <1>1, <1>4, <1>5, <1>6, <1>8, SteadyStep

LEMMA TickInv ==
  ASSUME FleetInv, Tick
  PROVE  FleetInv'
<1>1. /\ UNCHANGED <<runs, asked, sequence, task, entered, closings>>
      /\ now' \in Nat
  BY DEF Tick, storeVars, FleetInv, TypeOK
<1>2. TypeOK'
  BY <1>1 DEF FleetInv, TypeOK, WellFormed
<1>3. \A r \in Ids : Steady(r)
  BY <1>1 DEF Steady
<1>4. \A v \in Workers, q \in Slots : Live(task'[v][q]) => Earned(task'[v][q])
  BY <1>1 DEF FleetInv, Attempts
<1>. QED  BY <1>1, <1>2, <1>3, <1>4, SteadyStep

-----------------------------------------------------------------------------
(* A handler is entered: the number is spent for good. *)

LEMMA EnterInv ==
  ASSUME FleetInv, NEW w \in Workers, NEW s \in Slots, Enter(w, s)
  PROVE  FleetInv'
<1>. DEFINE o == task[w][s]
            t == [o EXCEPT !.pc = "working"]
            id == o.run
            n == o.attempt
<1>1. /\ o \in Task /\ o.pc = "handed" /\ Set(w, s, t)
      /\ UNCHANGED <<runs, asked, sequence, now, closings>>
      /\ entered' = [entered EXCEPT ![id] = @ \union {n}]
  BY DEF Enter, storeVars, FleetInv, TypeOK
<1>2. /\ t \in Task /\ t.pc = "working" /\ t.run = id /\ t.attempt = n
  BY <1>1 DEF Task
<1>3. Live(o) /\ Live(t)
  BY <1>1, <1>2 DEF Live
<1>4. Fenced(w, o) /\ Earned(o) /\ id \in Ids /\ id < sequence /\ n \in Nat
  BY <1>3, LiveTask
<1>. HIDE DEF t
<1>5. /\ task' \in [Workers -> [Slots -> Task]]
      /\ \A v \in Workers, q \in Slots :
           task'[v][q] = IF v = w /\ q = s THEN t ELSE task[v][q]
  BY <1>1, <1>2, SetTask DEF FleetInv
<1>6. /\ entered' \in [Ids -> SUBSET Nat]
      /\ entered'[id] = entered[id] \union {n}
      /\ \A r \in Ids : r # id => entered'[r] = entered[r]
  BY <1>1, <1>4 DEF FleetInv, TypeOK
<1>7. TypeOK'
  BY <1>1, <1>5, <1>6 DEF FleetInv, TypeOK, WellFormed
<1>8. Rows'
  <2>. SUFFICES ASSUME NEW r \in Ids
                PROVE  (IF r < sequence THEN Counted(r) ELSE Unwritten(r))'
    BY DEF Rows
  <2>1. IF r < sequence THEN Counted(r) ELSE Unwritten(r)
    BY DEF FleetInv, Rows
  <2>2. CASE r # id
    BY <1>1, <1>6, <2>1, <2>2 DEF Counted, Unwritten, Present
  <2>3. CASE r = id
    <3>1. Counted(r)
      BY <1>4, <2>1, <2>3
    <3>2. /\ n \in 1 .. asked[r].max_attempts
          /\ runs[r].attempts \in Nat
          /\ runs[r].status \in {"pending", "running"} => n \in 1 .. runs[r].attempts
      BY <1>4, <2>3 DEF Fenced, FleetInv, TypeOK, Row
    <3>3. Counted(r)'
      BY <1>1, <1>6, <2>3, <3>1, <3>2 DEF Counted
    <3>. QED  BY <1>1, <1>4, <2>3, <3>3
  <2>. QED  BY <2>2, <2>3
<1>9. Distinct'
  <2>1. \A v \in Workers, q \in Slots : Live(task'[v][q]) =>
          /\ Live(task[v][q]) /\ task'[v][q].run = task[v][q].run
          /\ task'[v][q].attempt = task[v][q].attempt
    BY <1>2, <1>3, <1>5
  <2>. QED  BY <2>1 DEF FleetInv, Distinct, Live
<1>10. Attempts'
  <2>. SUFFICES ASSUME NEW v \in Workers, NEW q \in Slots, Live(task[v][q])'
                PROVE  (Fenced(v, task[v][q]) /\ Earned(task[v][q]))'
    BY DEF Attempts
  <2>1. PICK x \in Task : x = task'[v][q]
    BY <1>5
  <2>2. Live(x)
    BY <2>1 DEF Live
  <2>3. CASE v = w /\ q = s
    <3>1. x = t
      BY <1>5, <2>1, <2>3
    <3>2. Fenced(w, x)'
      BY <1>1, <1>2, <1>4, <3>1 DEF Fenced
    <3>3. Earned(x)'
      BY <1>2, <1>6, <3>1 DEF Earned
    <3>. QED  BY <2>1, <2>3, <3>2, <3>3 DEF Fenced, Earned
  <2>4. CASE ~(v = w /\ q = s)
    <3>1. x = task[v][q] /\ Live(task[v][q])
      BY <1>5, <2>1, <2>2, <2>4
    <3>2. Fenced(v, x) /\ Earned(x) /\ x.run \in Ids
      BY <3>1, LiveTask
    <3>3. ~(x.run = id /\ x.attempt = n)
      BY <1>3, <2>4, <3>1 DEF FleetInv, Distinct
    <3>4. Fenced(v, x)'
      BY <1>1, <3>2 DEF Fenced
    <3>5. x.attempt \in entered'[x.run] <=> x.attempt \in entered[x.run]
      BY <1>6, <3>2, <3>3
    <3>6. Earned(x)'
      BY <1>1, <3>2, <3>5 DEF Earned
    <3>. QED  BY <2>1, <3>4, <3>6 DEF Fenced, Earned
  <2>. QED  BY <2>3, <2>4
<1>. QED  BY <1>7, <1>8, <1>9, <1>10 DEF FleetInv

-----------------------------------------------------------------------------
(* An ending is taken, and its attempt stops answering.  A release gives the number back: the   *)
(* attempts that are left carry other numbers, all of them lower.                               *)

LEMMA RecordInv ==
  ASSUME FleetInv, NEW w \in Workers, NEW s \in Slots, NEW t \in Task, NEW delay \in Nat,
         task[w][s].pc = "ending", Record(w, task[w][s], delay),
         Set(w, s, t), ~Live(t), UNCHANGED <<now, entered>>,
         closings' \in [Ids -> Nat], \A r \in Ids : r >= sequence => closings'[r] = closings[r]
  PROVE  FleetInv'
<1>. DEFINE o == task[w][s]
<1>1. /\ Live(o) /\ Fenced(w, o) /\ Earned(o)
      /\ o.run \in Ids /\ o.run < sequence /\ o.attempt \in Nat
      /\ o.pc = "ending"
  BY LiveTask DEF Live
<1>2. PICK r \in Ids : r = o.run
  BY <1>1
<1>3. PICK n \in Nat : n = o.attempt
  BY <1>1
<1>4. /\ runs[r] \in Row /\ WellFormed(runs[r]) /\ TypeOK /\ Counted(r)
      /\ now \in Nat /\ now + delay \in Int /\ r < sequence
  BY <1>1, <1>2 DEF FleetInv, TypeOK, Rows
<1>5. Held(r, w, n)
  BY <1>2, <1>3 DEF Record, Complete, Fail, RetryLater, Release
<1>6. /\ asked[r].max_attempts \in Nat /\ runs[r].attempts = n /\ runs[r].status = "running"
  BY <1>4, <1>5, StoreAssumption DEF Counted, OrderType, Held
<1>7. ASSUME NEW row \in Row, WellFormed(row), Write(r, row),
             \/ row.status \in Settled /\ row.attempts = n
             \/ row.status = "pending" /\ row.attempts = n /\ n < asked[r].max_attempts
      PROVE  FleetInv'
  <2>1. /\ runs' \in [Ids -> Row]
        /\ \A q \in Ids : runs'[q] = IF q = r THEN row ELSE runs[q]
        /\ asked' = asked /\ sequence' = sequence
    BY <1>4, <1>7, WriteRow
  <2>2. \A q \in Ids : Steady(q)
    BY <1>4, <1>6, <1>7, <2>1 DEF Steady, Settled
  <2>3. (\A q \in Ids : WellFormed(runs[q]))'
    BY <1>4, <1>7, <2>1 DEF TypeOK, WellFormed
  <2>. QED  BY <2>1, <2>2, <2>3, TaskStepInv
<1>8. CASE o.ending = "complete" /\ Complete(o.run, w, o.attempt, now)
  <2>1. Write(r, Closed(runs[r], "done", now))
    BY <1>2, <1>8 DEF Complete
  <2>. DEFINE row == Closed(runs[r], "done", now)
  <2>2. "done" \in Settled
    BY DEF Settled
  <2>3. row \in Row /\ WellFormed(row) /\ row.status = "done" /\ row.attempts = runs[r].attempts
    BY <1>4, <2>2, ClosedRow
  <2>. HIDE DEF row
  <2>4. row.attempts = n /\ row.status \in Settled
    BY <1>6, <2>2, <2>3
  <2>. QED  BY <1>7, <2>1, <2>3, <2>4 DEF row
<1>9. CASE o.ending = "fail" /\ Fail(o.run, w, o.attempt, now)
  <2>1. Write(r, Closed(runs[r], "failed", now))
    BY <1>2, <1>9 DEF Fail
  <2>. DEFINE row == Closed(runs[r], "failed", now)
  <2>2. "failed" \in Settled
    BY DEF Settled
  <2>3. row \in Row /\ WellFormed(row) /\ row.status = "failed" /\ row.attempts = runs[r].attempts
    BY <1>4, <2>2, ClosedRow
  <2>. HIDE DEF row
  <2>4. row.attempts = n /\ row.status \in Settled
    BY <1>6, <2>2, <2>3
  <2>. QED  BY <1>7, <2>1, <2>3, <2>4 DEF row
<1>10. CASE o.ending = "retry" /\ RetryLater(o.run, w, o.attempt, now + delay)
  <2>. DEFINE row == Requeued(runs[r], now + delay, 0)
  <2>1. Write(r, row)
    BY <1>2, <1>10 DEF RetryLater
  <2>2. runs[r].attempts + 0 = n /\ n \in Nat
    BY <1>6
  <2>3. row \in Row /\ WellFormed(row) /\ row.status = "pending" /\ row.attempts = n
    BY <1>4, <1>6, <2>2, RequeuedRow
  <2>4. n < asked[r].max_attempts
    BY <1>1, <1>2, <1>3, <1>10 DEF Earned
  <2>. HIDE DEF row
  <2>. QED  BY <1>7, <2>1, <2>3, <2>4
<1>11. CASE o.ending = "release" /\ Release(o.run, w, o.attempt, now + delay)
  <2>. DEFINE row == Requeued(runs[r], now + delay, -1)
  <2>1. Write(r, row)
    BY <1>2, <1>11 DEF Release
  <2>2. runs[r].attempts + -1 \in Nat /\ runs[r].attempts + -1 = n - 1 /\ -1 \in Int
    BY <1>4, <1>6 DEF Counted
  <2>3. row \in Row /\ WellFormed(row) /\ row.status = "pending" /\ row.attempts = n - 1
    BY <1>4, <1>6, <2>2, RequeuedRow
  <2>. HIDE DEF row
  <2>4. /\ runs' \in [Ids -> Row]
        /\ \A q \in Ids : runs'[q] = IF q = r THEN row ELSE runs[q]
        /\ asked' = asked /\ sequence' = sequence
    BY <1>4, <2>1, <2>3, WriteRow
  <2>5. /\ task' \in [Workers -> [Slots -> Task]]
        /\ \A v \in Workers, q \in Slots :
             task'[v][q] = IF v = w /\ q = s THEN t ELSE task[v][q]
    BY <1>4, SetTask
  <2>6. TypeOK'
    <3>1. (\A q \in Ids : WellFormed(runs[q]))'
      BY <1>4, <2>3, <2>4 DEF TypeOK, WellFormed
    <3>. QED  BY <1>4, <2>4, <2>5, <3>1 DEF TypeOK
  <2>7. n \notin entered[r]
    BY <1>1, <1>2, <1>3, <1>11 DEF Earned
  <2>8. Counted(r)'
    <3>1. entered[r] \subseteq 1 .. n - 1 /\ n - 1 < asked[r].max_attempts
      BY <1>4, <1>6, <2>7 DEF Counted
    <3>2. runs'[r].status = "pending" /\ runs'[r].attempts = n - 1
      BY <2>3, <2>4
    <3>3. runs'[r].attempts <= asked[r].max_attempts
      BY <1>6, <3>1, <3>2
    <3>. QED  BY <1>4, <1>6, <2>4, <3>1, <3>2, <3>3 DEF Counted
  <2>9. Rows'
    <3>. SUFFICES ASSUME NEW q \in Ids
                  PROVE  (IF q < sequence THEN Counted(q) ELSE Unwritten(q))'
      BY DEF Rows
    <3>1. CASE q = r
      BY <1>4, <2>4, <2>8, <3>1
    <3>2. CASE q # r
      <4>1. runs'[q] = runs[q] /\ (q >= sequence => closings'[q] = closings[q])
        BY <2>4, <3>2
      <4>2. IF q < sequence THEN Counted(q) ELSE Unwritten(q)
        BY DEF FleetInv, Rows
      <4>3. q \in Int /\ sequence \in Int
        BY <1>4 DEF Ids, TypeOK
      <4>. QED  BY <2>4, <4>1, <4>2, <4>3 DEF Counted, Unwritten, Present
    <3>. QED  BY <3>1, <3>2
  <2>10. ASSUME NEW v \in Workers, NEW q \in Slots, Live(task'[v][q])
         PROVE  ~(v = w /\ q = s) /\ Live(task[v][q]) /\ task'[v][q] = task[v][q]
    BY <2>5, <2>10
  <2>11. Attempts'
    <3>. SUFFICES ASSUME NEW v \in Workers, NEW q \in Slots, Live(task[v][q])'
                  PROVE  (Fenced(v, task[v][q]) /\ Earned(task[v][q]))'
      BY DEF Attempts
    <3>1. Live(task'[v][q])
      BY DEF Live
    <3>2. PICK x \in Task : x = task'[v][q]
      BY <2>5
    <3>3. x = task[v][q] /\ Live(task[v][q]) /\ ~(v = w /\ q = s)
      BY <2>10, <3>1, <3>2
    <3>4. Fenced(v, x) /\ Earned(x) /\ x.run \in Ids /\ x.attempt \in Nat
      BY <3>3, LiveTask
    <3>5. Earned(x)'
      BY <2>4, <3>4 DEF Earned
    <3>6. CASE x.run # r
      <4>1. runs'[x.run] = runs[x.run]
        BY <2>4, <3>4, <3>6
      <4>2. Fenced(v, x)'
        BY <2>4, <3>4, <4>1 DEF Fenced
      <4>. QED  BY <3>2, <3>5, <4>2 DEF Fenced, Earned
    <3>7. CASE x.run = r
      <4>1. x.attempt # n
        BY <1>1, <1>2, <1>3, <3>3, <3>7 DEF FleetInv, Distinct
      <4>2. x.attempt < n
        BY <1>6, <3>4, <3>7, <4>1 DEF Fenced
      <4>3. runs'[r].status = "pending" /\ x.attempt <= runs'[r].attempts
        BY <2>3, <2>4, <3>4, <4>2
      <4>4. Fenced(v, x)'
        BY <2>4, <3>4, <3>7, <4>3 DEF Fenced
      <4>. QED  BY <3>2, <3>5, <4>4 DEF Fenced, Earned
    <3>. QED  BY <3>6, <3>7
  <2>12. Distinct'
    BY <2>10 DEF FleetInv, Distinct, Live
  <2>. QED  BY <2>6, <2>9, <2>11, <2>12 DEF FleetInv
<1>. QED  BY <1>8, <1>9, <1>10, <1>11 DEF Record

LEMMA LandInv ==
  ASSUME FleetInv, NEW w \in Workers, NEW s \in Slots, Land(w, s)
  PROVE  FleetInv'
<1>. DEFINE o == task[w][s]
            t == [o EXCEPT !.pc = "telling"]
<1>1. PICK delay \in Nat : Record(w, o, delay)
  BY FleetAssumption DEF Land
<1>2. /\ o.pc = "ending" /\ Set(w, s, t) /\ UNCHANGED <<now, entered>> /\ o \in Task
      /\ closings' = [closings EXCEPT ![o.run] =
                        IF o.ending \in {"complete", "fail"} THEN @ + 1 ELSE @]
      /\ closings \in [Ids -> Nat] /\ sequence \in Int
  BY DEF Land, FleetInv, TypeOK
<1>3. t \in Task /\ t.pc = "telling"
  BY <1>2 DEF Task
<1>4. o.run \in Ids /\ o.run < sequence
  BY <1>2, LiveTask DEF Live
<1>5. /\ closings' \in [Ids -> Nat]
      /\ \A r \in Ids : r >= sequence => closings'[r] = closings[r]
  BY <1>2, <1>4 DEF Ids
<1>. HIDE DEF t
<1>6. ~Live(t)
  BY <1>3 DEF Live
<1>. QED  BY <1>1, <1>2, <1>3, <1>5, <1>6, RecordInv

LEMMA UnheardInv ==
  ASSUME FleetInv, NEW w \in Workers, NEW s \in Slots, Unheard(w, s)
  PROVE  FleetInv'
<1>. DEFINE o == task[w][s]
            t == [o EXCEPT !.pc = "resting"]
<1>1. /\ o.pc = "ending" /\ Set(w, s, t) /\ UNCHANGED <<now, entered, closings>> /\ o \in Task
      /\ closings \in [Ids -> Nat]
  BY DEF Unheard, FleetInv, TypeOK
<1>2. t \in Task /\ t.pc = "resting"
  BY <1>1 DEF Task
<1>. HIDE DEF t
<1>3. ~Live(t)
  BY <1>2 DEF Live
<1>4. CASE UNCHANGED storeVars
  BY <1>1, <1>2, <1>3, <1>4, TaskOnlyInv
<1>5. CASE \E delay \in Delays : Record(w, o, delay)
  <2>1. PICK delay \in Nat : Record(w, o, delay)
    BY <1>5, FleetAssumption
  <2>. QED  BY <1>1, <1>2, <1>3, <2>1, RecordInv
<1>. QED  BY <1>4, <1>5 DEF Unheard

-----------------------------------------------------------------------------
(* A run is written under an id that names nothing yet. *)

LEMMA EnqueueInv ==
  ASSUME FleetInv, NEW order \in Orders, NEW delay \in Nat, Enqueue(order, delay)
  PROVE  FleetInv'
<1>. DEFINE row == Written(now + delay)
<1>1. PICK r \in Ids : r = sequence
  BY DEF Enqueue, Add, FleetInv, TypeOK, Ids
<1>2. /\ runs' = [runs EXCEPT ![r] = row]
      /\ asked' = [asked EXCEPT ![r] = order]
      /\ sequence' = r + 1
      /\ UNCHANGED <<now, task, entered, closings>>
  BY <1>1 DEF Enqueue, Add, fleetVars
<1>3. TypeOK /\ now + delay \in Int /\ OrderType(order) /\ r \in Nat /\ sequence \in Nat /\ r <= MaxRuns
  BY <1>1, StoreAssumption DEF FleetInv, TypeOK, Ids
<1>4. row \in Row /\ WellFormed(row) /\ row.status = "pending" /\ row.attempts = 0
  BY <1>3, StoreAssumption DEF Written, Row, WellFormed, Settled, Statuses, NoInstant
<1>5. Unwritten(r)
  BY <1>1, <1>3 DEF FleetInv, Rows
<1>. HIDE DEF row
<1>6. /\ runs' \in [Ids -> Row] /\ asked' \in [Ids -> Orders \union {NoOrder}]
      /\ \A q \in Ids : runs'[q] = IF q = r THEN row ELSE runs[q]
      /\ \A q \in Ids : asked'[q] = IF q = r THEN order ELSE asked[q]
      /\ r + 1 \in 1 .. MaxRuns + 1
  BY <1>2, <1>3, <1>4, StoreAssumption DEF TypeOK
<1>7. (\A q \in Ids : WellFormed(runs[q]))'
  <2>1. \A q \in Ids : WellFormed(runs'[q])
    BY <1>3, <1>4, <1>6 DEF TypeOK
  <2>. QED  BY <2>1 DEF WellFormed
<1>8. TypeOK'
  <2>1. sequence' \in 1 .. MaxRuns + 1
    BY <1>2, <1>6
  <2>2. now' \in Nat /\ task' \in [Workers -> [Slots -> Task]]
        /\ entered' \in [Ids -> SUBSET Nat] /\ closings' \in [Ids -> Nat]
    BY <1>2, <1>3 DEF TypeOK
  <2>. QED  BY <1>6, <1>7, <2>1, <2>2 DEF TypeOK
<1>9. Rows'
  <2>. SUFFICES ASSUME NEW q \in Ids
                PROVE  (IF q < sequence THEN Counted(q) ELSE Unwritten(q))'
    BY DEF Rows
  <2>0. q \in Int
    BY DEF Ids
  <2>1. CASE q = r
    <3>1. runs'[q] = row /\ asked'[q] = order /\ entered'[q] = {} /\ q < sequence'
      BY <1>2, <1>3, <1>5, <1>6, <2>1 DEF Unwritten
    <3>2. order.max_attempts \in Nat \ {0}
      BY <1>3 DEF OrderType
    <3>3. Counted(q)'
      BY <1>4, <3>1, <3>2 DEF Counted
    <3>. QED  BY <3>1, <3>3
  <2>2. CASE q # r
    <3>1. runs'[q] = runs[q] /\ asked'[q] = asked[q]
      BY <1>6, <2>2
    <3>2. q < sequence' <=> q < sequence
      BY <1>1, <1>2, <1>3, <2>0, <2>2
    <3>3. IF q < sequence THEN Counted(q) ELSE Unwritten(q)
      BY DEF FleetInv, Rows
    <3>. QED  BY <1>2, <3>1, <3>2, <3>3 DEF Counted, Unwritten, Present
  <2>. QED  BY <2>1, <2>2
<1>10. Attempts'
  <2>. SUFFICES ASSUME NEW v \in Workers, NEW q \in Slots, Live(task[v][q])'
                PROVE  (Fenced(v, task[v][q]) /\ Earned(task[v][q]))'
    BY DEF Attempts
  <2>1. PICK x \in Task : x = task'[v][q] /\ x = task[v][q]
    BY <1>2, <1>3 DEF TypeOK
  <2>2. Live(task[v][q])
    BY <1>2 DEF Live
  <2>3. Fenced(v, x) /\ Earned(x) /\ x.run \in Ids /\ x.run < sequence
    BY <2>1, <2>2, LiveTask
  <2>4. runs'[x.run] = runs[x.run] /\ asked'[x.run] = asked[x.run] /\ x.run \in 1 .. sequence' - 1
    BY <1>1, <1>2, <1>3, <1>6, <2>3 DEF Ids
  <2>5. Fenced(v, x)'
    BY <2>3, <2>4 DEF Fenced
  <2>6. Earned(x)'
    BY <1>2, <2>3, <2>4 DEF Earned
  <2>. QED  BY <2>1, <2>5, <2>6 DEF Fenced, Earned
<1>11. Distinct'
  BY <1>2 DEF FleetInv, Distinct, Live
<1>. QED  BY <1>8, <1>9, <1>10, <1>11 DEF FleetInv

LEMMA InitInv ==
  ASSUME Init
  PROVE  FleetInv
<1>1. /\ runs = [r \in Ids |-> Absent] /\ asked = [r \in Ids |-> NoOrder] /\ sequence = 1
      /\ now = 0 /\ task = [w \in Workers |-> [s \in Slots |-> NoTask]]
      /\ entered = [r \in Ids |-> {}] /\ closings = [r \in Ids |-> 0]
  BY DEF Init, StoreInit
<1>2. Absent \in Row /\ WellFormed(Absent) /\ Absent.status = "absent"
  BY StoreAssumption DEF Absent, Row, WellFormed, Settled, Statuses, NoInstant
<1>3. NoTask \in Task /\ ~Live(NoTask)
  BY DEF NoTask, Task, NoInstant, Live
<1>4. TypeOK
  BY <1>1, <1>2, <1>3, StoreAssumption DEF TypeOK
<1>5. Rows
  BY <1>1, <1>2 DEF Rows, Ids, Unwritten, Present
<1>6. \A w \in Workers, s \in Slots : ~Live(task[w][s])
  BY <1>1, <1>3
<1>. QED  BY <1>4, <1>5, <1>6 DEF FleetInv, Attempts, Distinct

LEMMA NextInv ==
  ASSUME FleetInv, [Next]_vars
  PROVE  FleetInv'
<1>1. CASE Tick
  BY <1>1, TickInv
<1>2. CASE \E order \in Orders, delay \in Delays : Enqueue(order, delay)
  BY <1>2, EnqueueInv, FleetAssumption
<1>3. CASE \E r \in Ids : CancelRun(r)
  BY <1>3, CancelRunInv
<1>4. CASE \E moment \in 0 .. MaxNow : ReclaimExpired(moment) \/ Prune(moment)
  BY <1>4, ReclaimInv, PruneInv
<1>5. CASE \E w \in Workers : ClaimDue(w) \/ ClaimUnheard(w) \/ Crash(w)
  BY <1>5, ClaimDueInv, ClaimUnheardInv, CrashInv
<1>6. CASE \E w \in Workers, s \in Slots : TaskStep(w, s)
  BY <1>6, QuietTaskInv, EnterInv, LandInv, UnheardInv, BeatLandsInv DEF TaskStep
<1>7. CASE UNCHANGED vars
  <2>1. UNCHANGED <<runs, asked, sequence, now, entered, closings, task>>
    BY <1>7 DEF vars
  <2>2. TypeOK'
    BY <2>1 DEF FleetInv, TypeOK, WellFormed
  <2>3. \A r \in Ids : Steady(r)
    BY <2>1 DEF Steady
  <2>4. \A v \in Workers, q \in Slots : Live(task'[v][q]) => Earned(task'[v][q])
    BY <2>1 DEF FleetInv, Attempts
  <2>. QED  BY <2>1, <2>2, <2>3, <2>4, SteadyStep
<1>. QED  BY <1>1, <1>2, <1>3, <1>4, <1>5, <1>6, <1>7 DEF Next

-----------------------------------------------------------------------------
(* The inductive invariant: every attempt still answering for a run is behind the number its    *)
(* row counts or is the one that holds it, no two share a number, and the rows count every       *)
(* attempt a handler was entered under (store/memory.py, worker.py).                             *)
THEOREM FleetInvariant == Spec => []FleetInv
<1>1. Init => FleetInv
  BY InitInv
<1>2. FleetInv /\ [Next]_vars => FleetInv'
  BY NextInv
<1>. QED  BY <1>1, <1>2, PTL DEF Spec

(* Every variable keeps its shape. *)
THEOREM TypeCorrect == Spec => []TypeOK
<1>1. FleetInv => TypeOK
  BY DEF FleetInv
<1>. QED  BY <1>1, FleetInvariant, PTL

(* What holds a run is an attempt: of all those still answering for it, one at most satisfies   *)
(* the condition every beat and every ending is written under (store/memory.py:58-62).           *)
THEOREM AtMostOneHolder == Spec => []OneHolder
<1>1. FleetInv => OneHolder
  BY DEF FleetInv, Distinct, OneHolder, Holds, Held
<1>. QED  BY <1>1, FleetInvariant, PTL

(* A run waits only while it has an attempt left, and its handler is never entered more often   *)
(* than its policy allows (worker.py:319-404, store/memory.py:94-153).                           *)
THEOREM PolicyKept == Spec => []WithinPolicy
<1>1. ASSUME FleetInv
      PROVE  WithinPolicy
  <2>. SUFFICES ASSUME NEW r \in Ids, Present(r)
                PROVE  /\ runs[r].status = "pending" => ~Exhausted(r)
                       /\ runs[r].attempts <= asked[r].max_attempts
                       /\ Cardinality(entered[r]) <= asked[r].max_attempts
    BY DEF WithinPolicy
  <2>1. Counted(r) /\ runs[r].attempts \in Nat
    BY <1>1 DEF FleetInv, Rows, Unwritten, TypeOK, Row
  <2>2. asked[r].max_attempts \in Nat \ {0}
    BY <2>1, StoreAssumption DEF Counted, OrderType
  <2>3. PICK m \in Nat \ {0} : m = asked[r].max_attempts
    BY <2>2
  <2>4. entered[r] \in SUBSET (1 .. m)
    BY <2>1, <2>3 DEF Counted
  <2>5. IsFiniteSet(1 .. m) /\ Cardinality(1 .. m) = m
    BY FS_Interval
  <2>6. Cardinality(entered[r]) <= m
    BY <2>4, <2>5, FS_Subset
  <2>. QED  BY <2>1, <2>2, <2>3, <2>6 DEF Counted, Exhausted
<1>. QED  BY <1>1, FleetInvariant, PTL

(* A number a handler was once entered under is never entered again, whatever was given back    *)
(* in between (docs/workers.md:140, worker.py:333).                                              *)
THEOREM NeverEnteredTwice == Spec => EnteredOnce
<1>1. ASSUME FleetInv, [Next]_vars
      PROVE  [\A w \in Workers, s \in Slots :
                task[w][s].pc = "handed" /\ task'[w][s].pc = "working"
                  => task[w][s].attempt \notin entered[task[w][s].run]]_vars
  BY <1>1 DEF FleetInv, Attempts, Live, Earned
<1>. QED  BY <1>1, FleetInvariant, PTL DEF Spec, EnteredOnce

-----------------------------------------------------------------------------
(* What a step may do to one row: a run that is over stands until it is pruned, a row that is   *)
(* gone stays gone, and the listeners are told of an ending by the step that ends the run.      *)
Stands(r) ==
  /\ runs[r].status \in Settled => runs'[r] \in {runs[r], Absent}
  /\ ~Present(r) /\ r # sequence => runs'[r] = runs[r]
  /\ \/ closings'[r] = closings[r]
     \/ /\ runs[r].status = "running" /\ runs'[r].status \in {"done", "failed"}
        /\ closings'[r] = closings[r] + 1

LEMMA OpenRowStands ==
  ASSUME TypeOK, NEW q, NEW row, Write(q, row), runs[q].status \in {"pending", "running"},
         NEW r \in Ids, r # q => closings'[r] = closings[r],
         closings'[q] = closings[q] \/ (runs[q].status = "running" /\ row.status \in {"done", "failed"}
                                          /\ closings'[q] = closings[q] + 1)
  PROVE  Stands(r)
<1>1. runs'[r] = IF r = q THEN row ELSE runs[r]
  BY DEF Write, TypeOK
<1>. QED  BY <1>1 DEF Stands, Settled, Present

LEMMA StepStands ==
  ASSUME FleetInv, [Next]_vars, NEW r \in Ids
  PROVE  Stands(r)
<1>0. TypeOK
  BY DEF FleetInv
<1>1. ASSUME UNCHANGED runs, UNCHANGED closings
      PROVE  Stands(r)
  BY <1>1 DEF Stands
<1>2. ASSUME NEW q, NEW row, Write(q, row), runs[q].status \in {"pending", "running"},
             UNCHANGED closings
      PROVE  Stands(r)
  BY <1>0, <1>2, OpenRowStands
<1>3. CASE Tick \/ UNCHANGED vars
  BY <1>1, <1>3 DEF Tick, vars, storeVars
<1>4. ASSUME NEW order \in Orders, NEW delay \in Delays, Enqueue(order, delay)
      PROVE  Stands(r)
  <2>1. runs' = [runs EXCEPT ![sequence] = Written(now + delay)] /\ UNCHANGED closings
    BY <1>4 DEF Enqueue, Add, fleetVars
  <2>2. r = sequence => runs[r].status = "absent"
    BY <1>0 DEF FleetInv, Rows, Unwritten, Present, Ids
  <2>. QED  BY <1>0, <2>1, <2>2 DEF Stands, Settled, TypeOK
<1>5. ASSUME NEW q \in Ids, CancelRun(q)
      PROVE  Stands(r)
  BY <1>2, <1>5 DEF CancelRun, Cancel, fleetVars
<1>6. ASSUME NEW moment, ReclaimExpired(moment)
      PROVE  Stands(r)
  BY <1>6 DEF ReclaimExpired, Reclaim, fleetVars, Oldest, Expired, Stands, Settled, Present
<1>7. ASSUME NEW moment, Prune(moment)
      PROVE  Stands(r)
  BY <1>7 DEF Prune, Purge, fleetVars, Oldest, Prunable, Stands, Settled, Present
<1>8. ASSUME NEW w \in Workers, ClaimDue(w) \/ ClaimUnheard(w)
      PROVE  Stands(r)
  <2>1. PICK free : Claim(w, Serves[w], free, now)
    BY <1>8 DEF ClaimDue, ClaimUnheard
  <2>2. runs[r].status # "pending" => runs'[r] = runs[r]
    BY <2>1 DEF Claim, Won, Claimable
  <2>3. UNCHANGED closings
    BY <1>8 DEF ClaimDue, ClaimUnheard, fleetVars
  <2>. QED  BY <2>2, <2>3 DEF Stands, Settled, Present
<1>9. ASSUME NEW w \in Workers, Crash(w)
      PROVE  Stands(r)
  BY <1>1, <1>9 DEF Crash, storeVars
<1>10. ASSUME NEW w \in Workers, NEW s \in Slots, TaskStep(w, s)
       PROVE  Stands(r)
  <2>. DEFINE o == task[w][s]
  <2>1. ASSUME o.pc = "ending", NEW delay, Record(w, o, delay)
        PROVE  /\ o.run \in Ids
               /\ \E row : /\ Write(o.run, row) /\ runs[o.run].status = "running"
                           /\ o.ending \in {"complete", "fail"} => row.status \in {"done", "failed"}
    <3>1. o.run \in Ids
      BY <2>1, LiveTask DEF Live
    <3>2. /\ Closed(runs[o.run], "done", now).status = "done"
          /\ Closed(runs[o.run], "failed", now).status = "failed"
      BY <1>0, <3>1, ClosedRow DEF TypeOK, Settled
    <3>3. CASE o.ending = "complete" /\ Complete(o.run, w, o.attempt, now)
      BY <3>1, <3>2, <3>3 DEF Complete, Held
    <3>4. CASE o.ending = "fail" /\ Fail(o.run, w, o.attempt, now)
      BY <3>1, <3>2, <3>4 DEF Fail, Held
    <3>5. CASE o.ending = "retry" /\ RetryLater(o.run, w, o.attempt, now + delay)
      BY <3>1, <3>5 DEF RetryLater, Held
    <3>6. CASE o.ending = "release" /\ Release(o.run, w, o.attempt, now + delay)
      BY <3>1, <3>6 DEF Release, Held
    <3>. QED  BY <2>1, <3>3, <3>4, <3>5, <3>6 DEF Record
  <2>2. CASE Land(w, s)
    <3>1. PICK delay : o.pc = "ending" /\ Record(w, o, delay)
      BY <2>2 DEF Land
    <3>2. PICK row : /\ Write(o.run, row) /\ runs[o.run].status = "running"
                     /\ o.ending \in {"complete", "fail"} => row.status \in {"done", "failed"}
      BY <2>1, <3>1
    <3>3. o.run \in Ids
      BY <2>1, <3>1
    <3>4. /\ closings'[o.run] = IF o.ending \in {"complete", "fail"}
                                  THEN closings[o.run] + 1 ELSE closings[o.run]
          /\ r # o.run => closings'[r] = closings[r]
      BY <1>0, <2>2, <3>3 DEF Land, TypeOK
    <3>. QED  BY <1>0, <3>2, <3>4, OpenRowStands
  <2>3. CASE Unheard(w, s)
    <3>1. o.pc = "ending" /\ UNCHANGED closings
      BY <2>3 DEF Unheard
    <3>2. CASE UNCHANGED storeVars
      BY <1>1, <3>1, <3>2 DEF storeVars
    <3>3. CASE \E delay \in Delays : Record(w, o, delay)
      <4>1. PICK row : Write(o.run, row) /\ runs[o.run].status = "running"
        BY <2>1, <3>1, <3>3
      <4>. QED  BY <1>2, <3>1, <4>1
    <3>. QED  BY <2>3, <3>2, <3>3 DEF Unheard
  <2>4. CASE BeatLands(w, s)
    <3>1. UNCHANGED closings
      BY <2>4 DEF BeatLands
    <3>2. CASE UNCHANGED storeVars
      BY <1>1, <3>1, <3>2 DEF storeVars
    <3>3. CASE Heartbeat(o.run, w, o.attempt, o.beat)
      BY <1>2, <3>1, <3>3 DEF Heartbeat, Held
    <3>. QED  BY <2>4, <3>2, <3>3 DEF BeatLands
  <2>5. CASE \/ HandOver(w, s) \/ Unknown(w, s) \/ Enter(w, s) \/ NeverStarted(w, s)
             \/ Answer(w, s) \/ Raise(w, s) \/ GiveUp(w, s) \/ Refused(w, s) \/ Told(w, s)
             \/ Leave(w, s) \/ SendBeat(w, s) \/ BeatLost(w, s)
    BY <1>1, <2>5 DEF HandOver, Unknown, Enter, NeverStarted, Answer, Raise, GiveUp, Ending,
                      Refused, Told, Leave, SendBeat, BeatLost, storeVars
  <2>. QED  BY <1>10, <2>2, <2>3, <2>4, <2>5 DEF TaskStep
<1>. QED  BY <1>3, <1>4, <1>5, <1>6, <1>7, <1>8, <1>9, <1>10 DEF Next

(* A run that is over is never touched again until it is pruned, and the id of a pruned run     *)
(* never names another one (store/base.py:77,88,93).                                             *)
THEOREM WhatIsOverStands == Spec => SettledStands
<1>1. ASSUME FleetInv, [Next]_vars
      PROVE  [\A r \in Ids :
                /\ runs[r].status \in Settled => runs'[r] \in {runs[r], Absent}
                /\ ~Present(r) /\ Present(r)' => r = sequence]_vars
  BY <1>1, StepStands DEF Stands, Present
<1>. QED  BY <1>1, FleetInvariant, PTL DEF Spec, SettledStands

(* Listeners are told that a run is over at most once, and what they were told stands           *)
(* (worker.py:367-400).                                                                          *)
THEOREM AnnouncedOnce == Spec => []ToldOnce
<1>1. Init => ToldOnce
  BY DEF Init, ToldOnce
<1>2. ASSUME FleetInv, ToldOnce, [Next]_vars
      PROVE  ToldOnce'
  <2>. SUFFICES ASSUME NEW r \in Ids
                PROVE  /\ closings'[r] <= 1
                       /\ closings'[r] = 1 => runs'[r].status \in {"done", "failed", "absent"}
    BY DEF ToldOnce
  <2>1. Stands(r)
    BY <1>2, StepStands
  <2>2. /\ closings[r] \in Nat /\ closings[r] <= 1
        /\ closings[r] = 1 => runs[r].status \in {"done", "failed", "absent"}
    BY <1>2 DEF FleetInv, TypeOK, ToldOnce
  <2>3. r = sequence => closings[r] = 0
    BY <1>2 DEF FleetInv, TypeOK, Rows, Unwritten, Ids
  <2>4. Absent.status = "absent"
    BY DEF Absent
  <2>. QED  BY <2>1, <2>2, <2>3, <2>4 DEF Stands, Settled, Present
<1>. QED  BY <1>1, <1>2, FleetInvariant, PTL DEF Spec

-----------------------------------------------------------------------------
(* A running row stays with its holder, unless its lease is over or an ending of that holder is *)
(* on its way; and one that was not running is by a claim, with a lease that begins now.         *)
Stays(r) ==
  /\ runs[r].status = "running" =>
       \/ /\ runs'[r].status = "running" /\ runs'[r].worker = runs[r].worker
          /\ runs'[r].attempts = runs[r].attempts
       \/ runs[r].lease_until < now
       \/ \E s \in Slots :
            /\ task[runs[r].worker][s].run = r /\ task[runs[r].worker][s].pc = "ending"
            /\ task[runs[r].worker][s].attempt = runs[r].attempts
  /\ runs[r].status # "running" /\ runs'[r].status = "running" => runs'[r].lease_until >= now + Lease

LEMMA StepStays ==
  ASSUME FleetInv, [Next]_vars, NEW r \in Ids
  PROVE  Stays(r)
<1>0. /\ TypeOK /\ runs \in [Ids -> Row] /\ runs[r] \in Row /\ now \in Int
      /\ runs[r].lease_until \in Int /\ Lease \in Nat
      /\ Absent.status # "running" /\ \A due_at : Written(due_at).status # "running"
      /\ \A moment : \A q \in Ids, status \in {"done", "failed", "canceled"} :
           Closed(runs[q], status, moment).status # "running"
      /\ \A due_at, counted : \A q \in Ids : Requeued(runs[q], due_at, counted).status # "running"
  BY StoreAssumption
  DEF FleetInv, TypeOK, Row, Absent, Written, Closed, Requeued
<1>1. ASSUME runs'[r] = runs[r]
      PROVE  Stays(r)
  BY <1>1 DEF Stays
<1>2. ASSUME NEW q, NEW row, Write(q, row), q # r
      PROVE  Stays(r)
  BY <1>0, <1>1, <1>2 DEF Write
<1>3. CASE Tick \/ UNCHANGED vars
  BY <1>1, <1>3 DEF Tick, vars, storeVars
<1>4. ASSUME NEW order \in Orders, NEW delay \in Delays, Enqueue(order, delay)
      PROVE  Stays(r)
  <2>1. runs' = [runs EXCEPT ![sequence] = Written(now + delay)]
    BY <1>4 DEF Enqueue, Add
  <2>2. r = sequence => runs[r].status = "absent"
    BY <1>0 DEF FleetInv, Rows, Unwritten, Present, Ids
  <2>3. r # sequence => runs'[r] = runs[r]
    BY <1>0, <2>1
  <2>4. r = sequence => runs'[r] = Written(now + delay)
    BY <1>0, <2>1
  <2>. QED  BY <1>0, <1>1, <2>2, <2>3, <2>4 DEF Stays
<1>5. ASSUME NEW q \in Ids, CancelRun(q)
      PROVE  Stays(r)
  <2>1. runs[q].status = "pending" /\ Write(q, Closed(runs[q], "canceled", now))
    BY <1>5 DEF CancelRun, Cancel
  <2>2. CASE q = r
    <3>1. runs[r].status = "pending" /\ runs'[r] = Closed(runs[r], "canceled", now)
      BY <1>0, <2>1, <2>2 DEF Write
    <3>. QED  BY <1>0, <3>1 DEF Stays
  <2>. QED  BY <1>2, <2>1, <2>2
<1>6. ASSUME NEW moment \in 0 .. MaxNow, ReclaimExpired(moment)
      PROVE  Stays(r)
  <2>1. runs'[r] = runs[r] \/ Expired(r, moment)
    BY <1>6 DEF ReclaimExpired, Reclaim, Oldest
  <2>2. Expired(r, moment) => runs[r].lease_until < now /\ runs[r].status = "running"
    BY <1>0, <1>6, FleetAssumption DEF ReclaimExpired, Expired
  <2>. QED  BY <1>1, <2>1, <2>2 DEF Stays
<1>7. ASSUME NEW moment, Prune(moment)
      PROVE  Stays(r)
  <2>1. runs'[r] = runs[r] \/ (runs[r].status # "running" /\ runs'[r] = Absent)
    BY <1>7 DEF Prune, Purge, Oldest, Prunable, Settled
  <2>. QED  BY <1>0, <1>1, <2>1 DEF Stays
<1>8. ASSUME NEW w \in Workers, ClaimDue(w) \/ ClaimUnheard(w)
      PROVE  Stays(r)
  <2>1. PICK free : Claim(w, Serves[w], free, now)
    BY <1>8 DEF ClaimDue, ClaimUnheard
  <2>2. runs'[r] = runs[r] \/ (runs[r].status = "pending" /\ runs'[r] = ClaimedBy(runs[r], w, now))
    BY <2>1 DEF Claim, Won, Claimable
  <2>3. ClaimedBy(runs[r], w, now).lease_until = now + Lease
    BY <1>0 DEF ClaimedBy, Row
  <2>. QED  BY <1>0, <1>1, <2>2, <2>3 DEF Stays
<1>9. ASSUME NEW w \in Workers, Crash(w)
      PROVE  Stays(r)
  BY <1>1, <1>9 DEF Crash, storeVars
<1>10. ASSUME NEW w \in Workers, NEW s \in Slots, TaskStep(w, s)
       PROVE  Stays(r)
  <2>. DEFINE o == task[w][s]
  <2>1. ASSUME o.pc = "ending", NEW delay, Record(w, o, delay)
        PROVE  Stays(r)
    <3>1. (\E row : Write(o.run, row)) /\ runs[o.run].worker = w /\ runs[o.run].attempts = o.attempt
      BY <2>1 DEF Record, Complete, Fail, RetryLater, Release, Held
    <3>2. CASE o.run = r
      <4>1. runs[r].status = "running"
        BY <2>1, <3>2 DEF Record, Complete, Fail, RetryLater, Release, Held
      <4>. QED  BY <2>1, <3>1, <3>2, <4>1 DEF Stays
    <3>. QED  BY <1>2, <3>1, <3>2
  <2>2. CASE Land(w, s) \/ Unheard(w, s)
    BY <1>1, <2>1, <2>2 DEF Land, Unheard, storeVars
  <2>3. CASE BeatLands(w, s)
    <3>1. CASE UNCHANGED storeVars
      BY <1>1, <3>1 DEF storeVars
    <3>2. CASE Heartbeat(o.run, w, o.attempt, o.beat)
      <4>1. runs' = [runs EXCEPT ![o.run] = [runs[o.run] EXCEPT !.lease_until = o.beat + Lease]]
        BY <3>2 DEF Heartbeat, Write
      <4>. QED  BY <1>0, <4>1 DEF Stays, Row
    <3>. QED  BY <2>3, <3>1, <3>2 DEF BeatLands
  <2>4. CASE \/ HandOver(w, s) \/ Unknown(w, s) \/ Enter(w, s) \/ NeverStarted(w, s)
             \/ Answer(w, s) \/ Raise(w, s) \/ GiveUp(w, s) \/ Refused(w, s) \/ Told(w, s)
             \/ Leave(w, s) \/ SendBeat(w, s) \/ BeatLost(w, s)
    BY <1>1, <2>4 DEF HandOver, Unknown, Enter, NeverStarted, Answer, Raise, GiveUp, Ending,
                      Refused, Told, Leave, SendBeat, BeatLost, storeVars
  <2>. QED  BY <1>10, <2>2, <2>3, <2>4 DEF TaskStep
<1>. QED  BY <1>3, <1>4, <1>5, <1>6, <1>7, <1>8, <1>9, <1>10 DEF Next

(* A claim answers with a whole lease, and while its lease is good, a run leaves its holder only *)
(* by an ending that holder sent (store/base.py:77, store/memory.py:135-153, worker.py:246).      *)
THEOREM GoodLeaseHolds == Spec => LeaseRespected
<1>1. ASSUME FleetInv, [Next]_vars
      PROVE  [\A r \in Ids :
                LET kept == Held(r, runs[r].worker, runs[r].attempts)
                              /\ runs'[r].status = "running" /\ runs'[r].worker = runs[r].worker
                              /\ runs'[r].attempts = runs[r].attempts
                    taken == runs[r].status # "running" /\ runs'[r].status = "running"
                IN  /\ taken => runs'[r].lease_until >= now + Lease
                    /\ runs[r].status = "running" /\ ~kept
                         => \/ runs[r].lease_until < now
                            \/ \E s \in Slots :
                                 LET t == task[runs[r].worker][s]
                                 IN  t.run = r /\ t.pc = "ending" /\ t.attempt = runs[r].attempts]_vars
  BY <1>1, StepStays DEF Stays, Held
<1>. QED  BY <1>1, FleetInvariant, PTL DEF Spec, LeaseRespected

-----------------------------------------------------------------------------
(* No beat carries an instant still to come. *)

BeatsArePast ==
  \A w \in Workers, s \in Slots : task[w][s].beat # NoInstant => task[w][s].beat \in 0 .. now

(* What a step may do to the clock and to a beat: time goes on, and a beat is sent now. *)
Beating ==
  /\ now' = now \/ now' = now + 1
  /\ \A w \in Workers, s \in Slots : task'[w][s].beat \in {task[w][s].beat, NoInstant, now}

LEMMA BeatingKeepsPast ==
  ASSUME FleetInv, BeatsArePast, Beating
  PROVE  BeatsArePast'
<1>1. now \in Nat /\ now \in 0 .. now /\ 0 .. now \subseteq 0 .. now'
  BY DEF FleetInv, TypeOK, Beating
<1>. QED  BY <1>1 DEF Beating, BeatsArePast

(* One task is written, and its beat is the one it had, none, or one sent now. *)
LEMMA SetBeat ==
  ASSUME TypeOK, NEW w \in Workers, NEW s \in Slots, NEW t, Set(w, s, t), UNCHANGED now,
         t.beat \in {task[w][s].beat, NoInstant, now}
  PROVE  Beating
<1>1. ASSUME NEW v \in Workers, NEW q \in Slots
      PROVE  task'[v][q] = IF v = w /\ q = s THEN t ELSE task[v][q]
  BY DEF TypeOK, Set
<1>. QED  BY <1>1 DEF Beating

LEMMA StepBeats ==
  ASSUME FleetInv, [Next]_vars
  PROVE  Beating
<1>0. TypeOK /\ task \in [Workers -> [Slots -> Task]]
  BY DEF FleetInv, TypeOK
<1>1. ASSUME UNCHANGED task, now' = now \/ now' = now + 1
      PROVE  Beating
  BY <1>1 DEF Beating
<1>2. CASE Tick \/ UNCHANGED vars
  BY <1>1, <1>2 DEF Tick, vars
<1>3. CASE \/ \E order \in Orders, delay \in Delays : Enqueue(order, delay)
           \/ \E r \in Ids : CancelRun(r)
           \/ \E moment \in 0 .. MaxNow : ReclaimExpired(moment) \/ Prune(moment)
  BY <1>1, <1>3 DEF Enqueue, CancelRun, ReclaimExpired, Prune, fleetVars
<1>4. ASSUME NEW w \in Workers, ClaimUnheard(w)
      PROVE  Beating
  BY <1>1, <1>4 DEF ClaimUnheard, fleetVars
<1>5. ASSUME NEW w \in Workers, Crash(w)
      PROVE  Beating
  <2>1. \A v \in Workers, s \in Slots : task'[v][s] = IF v = w THEN NoTask ELSE task[v][s]
    BY <1>0, <1>5 DEF Crash
  <2>2. NoTask.beat = NoInstant /\ UNCHANGED now
    BY <1>5 DEF NoTask, Crash
  <2>. QED  BY <2>1, <2>2 DEF Beating
<1>6. ASSUME NEW w \in Workers, ClaimDue(w)
      PROVE  Beating
  <2>1. PICK place : task' = [task EXCEPT ![w] = [s \in Slots |->
                       IF place[s] # 0 THEN Spawned(place[s]) ELSE task[w][s]]]
    BY <1>6 DEF ClaimDue
  <2>2. \A v \in Workers, s \in Slots :
          task'[v][s] = IF v = w /\ place[s] # 0 THEN Spawned(place[s]) ELSE task[v][s]
    BY <1>0, <2>1
  <2>3. (\A r : Spawned(r).beat = NoInstant) /\ UNCHANGED now
    BY <1>6 DEF Spawned, ClaimDue
  <2>. QED  BY <2>2, <2>3 DEF Beating
<1>7. ASSUME NEW w \in Workers, NEW s \in Slots, TaskStep(w, s)
      PROVE  Beating
  <2>. DEFINE o == task[w][s]
  <2>1. o \in Task
    BY <1>0
  <2>2. \E t : Set(w, s, t) /\ t.beat \in {o.beat, NoInstant, now}
    <3>1. \A pc, ending : /\ [o EXCEPT !.pc = pc].beat = o.beat
                          /\ [o EXCEPT !.pc = pc, !.ending = ending].beat = o.beat
      BY <2>1 DEF Task
    <3>2. CASE \E pc : Set(w, s, [o EXCEPT !.pc = pc])
      BY <3>1, <3>2
    <3>3. CASE \E pc, ending : Set(w, s, [o EXCEPT !.pc = pc, !.ending = ending])
      BY <3>1, <3>3
    <3>4. CASE \E beat \in {now, NoInstant} : Set(w, s, [o EXCEPT !.beat = beat])
      BY <2>1, <3>4 DEF Task
    <3>5. CASE Set(w, s, NoTask)
      BY <3>5 DEF NoTask
    <3>6. HandOver(w, s) \/ Enter(w, s) \/ Land(w, s) \/ Refused(w, s) \/ Unheard(w, s) \/ Told(w, s)
            => \E pc : Set(w, s, [o EXCEPT !.pc = pc])
      BY DEF HandOver, Enter, Land, Refused, Unheard, Told
    <3>7. Unknown(w, s) \/ NeverStarted(w, s) \/ Answer(w, s) \/ Raise(w, s) \/ GiveUp(w, s)
            => \E pc, ending : Set(w, s, [o EXCEPT !.pc = pc, !.ending = ending])
      BY DEF Unknown, NeverStarted, Answer, Raise, GiveUp, Ending
    <3>8. SendBeat(w, s) \/ BeatLands(w, s) \/ BeatLost(w, s)
            => \E beat \in {now, NoInstant} : Set(w, s, [o EXCEPT !.beat = beat])
      BY DEF SendBeat, BeatLands, BeatLost
    <3>9. Leave(w, s) => Set(w, s, NoTask)
      BY DEF Leave
    <3>. QED  BY <1>7, <3>2, <3>3, <3>4, <3>5, <3>6, <3>7, <3>8, <3>9 DEF TaskStep
  <2>3. UNCHANGED now
    BY <1>7 DEF TaskStep, HandOver, Enter, Land, Refused, Unheard, Told, Unknown, NeverStarted,
                Answer, Raise, GiveUp, Ending, Leave, SendBeat, BeatLands, BeatLost
  <2>. QED  BY <1>0, <2>2, <2>3, SetBeat
<1>. QED  BY <1>2, <1>3, <1>4, <1>5, <1>6, <1>7 DEF Next

(* A beat keeps the instant it was sent at, and no later one (worker.py:465-489). *)
THEOREM NoBeatFromTheFuture == Spec => []BeatsArePast
<1>1. Init => BeatsArePast
  BY DEF Init, BeatsArePast, NoTask
<1>2. FleetInv /\ BeatsArePast /\ [Next]_vars => BeatsArePast'
  BY StepBeats, BeatingKeepsPast
<1>. QED  BY <1>1, <1>2, FleetInvariant, PTL DEF Spec

-----------------------------------------------------------------------------
(* The calls of the fleet are calls of the contract. *)

LEMMA SameRows ==
  /\ Kept!Ids = Ids
  /\ \A r, queues, moment : Kept!Claimable(r, queues, moment) = Claimable(r, queues, moment)
  /\ \A r, moment : Kept!Expired(r, moment) = Expired(r, moment)
  /\ \A r, moment : Kept!Prunable(r, moment) = Prunable(r, moment)
  /\ \A row, worker, moment : Kept!ClaimedBy(row, worker, moment) = ClaimedBy(row, worker, moment)
  /\ \A r, moment : Kept!TakenBack(r, moment) = TakenBack(r, moment)
  /\ Kept!Absent = Absent
BY DEF Kept!Ids, Ids, Kept!Claimable, Claimable, Kept!Expired, Expired, Kept!NoInstant, NoInstant,
       Kept!Prunable, Prunable, Kept!Settled, Settled, Kept!ClaimedBy, ClaimedBy,
       Kept!TakenBack, TakenBack, Kept!Exhausted, Exhausted, Kept!Closed, Closed,
       Kept!Requeued, Requeued, Kept!Absent, Absent

LEMMA SameCalls ==
  /\ \A order, due_at : Add(order, due_at) => Kept!Add(order, due_at)
  /\ \A r, moment : Cancel(r, moment) => Kept!Cancel(r, moment)
  /\ \A r, worker, attempt, moment :
       /\ Heartbeat(r, worker, attempt, moment) => Kept!Heartbeat(r, worker, attempt, moment)
       /\ Complete(r, worker, attempt, moment) => Kept!Complete(r, worker, attempt, moment)
       /\ Fail(r, worker, attempt, moment) => Kept!Fail(r, worker, attempt, moment)
       /\ RetryLater(r, worker, attempt, moment) => Kept!RetryLater(r, worker, attempt, moment)
       /\ Release(r, worker, attempt, moment) => Kept!Release(r, worker, attempt, moment)
<1>1. \A order, due_at : Add(order, due_at) => Kept!Add(order, due_at)
  BY DEF Add, Kept!Add, Taken, Kept!Taken, Present, Kept!Present, Ids, Kept!Ids,
         Written, Kept!Written, NoInstant, Kept!NoInstant
<1>2. \A r, moment : Cancel(r, moment) => Kept!Cancel(r, moment)
  BY DEF Cancel, Kept!Cancel, Write, Kept!Write, Closed, Kept!Closed, NoInstant, Kept!NoInstant
<1>3. ASSUME NEW r, NEW worker, NEW attempt, NEW moment
      PROVE  /\ Heartbeat(r, worker, attempt, moment) => Kept!Heartbeat(r, worker, attempt, moment)
             /\ Complete(r, worker, attempt, moment) => Kept!Complete(r, worker, attempt, moment)
             /\ Fail(r, worker, attempt, moment) => Kept!Fail(r, worker, attempt, moment)
  BY DEF Heartbeat, Kept!Heartbeat, Complete, Kept!Complete, Fail, Kept!Fail, Held, Kept!Held,
         Write, Kept!Write, Closed, Kept!Closed, NoInstant, Kept!NoInstant
<1>4. ASSUME NEW r, NEW worker, NEW attempt, NEW due_at
      PROVE  /\ RetryLater(r, worker, attempt, due_at) => Kept!RetryLater(r, worker, attempt, due_at)
             /\ Release(r, worker, attempt, due_at) => Kept!Release(r, worker, attempt, due_at)
  BY DEF RetryLater, Kept!RetryLater, Release, Kept!Release, Held, Kept!Held, Write, Kept!Write,
         Requeued, Kept!Requeued, NoInstant, Kept!NoInstant
<1>. QED  BY <1>1, <1>2, <1>3, <1>4

(* An instant of the fleet is one of the contract, and so is the instant a run is put off to. *)
LEMMA SameInstants ==
  ASSUME FleetInv
  PROVE  /\ Kept!Moments = 0 .. now /\ now \in Kept!Moments
         /\ \A delay \in Delays : now + delay \in Kept!Dues
BY DEF FleetInv, TypeOK, Kept!Moments, Kept!Dues

(* The ending of a task that is taken is one its holder wrote. *)
LEMMA RecordLawful ==
  ASSUME FleetInv, NEW w \in Workers, NEW t \in Task, t.run \in Ids,
         NEW delay \in Delays, Record(w, t, delay)
  PROVE  Kept!HolderWrites(t.run, runs[t.run].worker, runs[t.run].attempts)
<1>1. runs[t.run].worker = w /\ runs[t.run].attempts = t.attempt
  BY DEF Record, Complete, Fail, RetryLater, Release, Held
<1>2. \/ \E moment \in Kept!Moments :
           Kept!Complete(t.run, w, t.attempt, moment) \/ Kept!Fail(t.run, w, t.attempt, moment)
      \/ \E due_at \in Kept!Dues :
           Kept!RetryLater(t.run, w, t.attempt, due_at) \/ Kept!Release(t.run, w, t.attempt, due_at)
  BY SameCalls, SameInstants DEF Record
<1>. QED  BY <1>1, <1>2 DEF Kept!HolderWrites

(* A step of the fleet is one call of the contract, or the clock, or nothing to the rows. *)
LEMMA StepLawful ==
  ASSUME FleetInv, BeatsArePast, [Next]_vars
  PROVE  [Kept!ContractNext]_(Kept!contractVars)
<1>0. TypeOK
  BY DEF FleetInv
<1>1. CASE UNCHANGED <<runs, asked, sequence, now>>
  BY <1>1 DEF Kept!contractVars
<1>2. ASSUME Kept!StoreCall, UNCHANGED now
      PROVE  Kept!ContractNext
  BY <1>2 DEF Kept!ContractNext
<1>3. ASSUME NEW r \in Ids, Kept!HolderWrites(r, runs[r].worker, runs[r].attempts), UNCHANGED now
      PROVE  Kept!ContractNext
  BY <1>2, <1>3, SameRows DEF Kept!StoreCall
<1>4. CASE Tick
  BY <1>4 DEF Tick, storeVars, Kept!ContractNext, Kept!storeVars
<1>5. ASSUME NEW order \in Orders, NEW delay \in Delays, Enqueue(order, delay)
      PROVE  Kept!ContractNext
  <2>1. Kept!Add(order, now + delay) /\ now + delay \in Kept!Dues /\ UNCHANGED now
    BY <1>5, SameCalls, SameInstants DEF Enqueue, fleetVars
  <2>. QED  BY <1>2, <2>1 DEF Kept!StoreCall
<1>6. ASSUME NEW r \in Ids, CancelRun(r)
      PROVE  Kept!ContractNext
  <2>1. Kept!Cancel(r, now) /\ now \in Kept!Moments /\ UNCHANGED now
    BY <1>6, SameCalls, SameInstants DEF CancelRun, fleetVars
  <2>. QED  BY <1>2, <2>1, SameRows DEF Kept!StoreCall
<1>7. ASSUME NEW moment \in 0 .. MaxNow, ReclaimExpired(moment)
      PROVE  Kept!ContractNext
  <2>. DEFINE S == {r \in Ids : Expired(r, moment)}
              R == Oldest(S, ReclaimBatch)
  <2>1. R \in SUBSET S /\ Cardinality(R) <= ReclaimBatch
    BY OldestIsBounded, StoreAssumption
  <2>2. moment \in Kept!Moments /\ UNCHANGED now
    BY <1>0, <1>7, SameInstants DEF TypeOK, ReclaimExpired, fleetVars
  <2>3. /\ runs' = [r \in Ids |-> IF r \in R THEN TakenBack(r, moment) ELSE runs[r]]
        /\ UNCHANGED <<asked, sequence>>
    BY <1>7 DEF ReclaimExpired, Reclaim
  <2>. HIDE DEF R
  <2>4. Kept!GiveBack(R, moment)
    <3>1. Kept!Cardinality(R) = Cardinality(R)
      BY DEF Kept!Cardinality, Cardinality
    <3>. QED  BY <2>1, <2>3, <3>1, SameRows DEF Kept!GiveBack
  <2>5. R \in SUBSET Kept!Ids
    BY <2>1, SameRows
  <2>. QED  BY <1>2, <2>2, <2>4, <2>5 DEF Kept!StoreCall
<1>8. ASSUME NEW moment \in 0 .. MaxNow, Prune(moment)
      PROVE  Kept!ContractNext
  <2>. DEFINE S == {r \in Ids : Prunable(r, moment - Keep)}
              R == Oldest(S, PurgeLimit)
  <2>1. R \in SUBSET S
    BY OldestIsBounded, FleetAssumption
  <2>2. \A r \in R : Prunable(r, now)
    <3>. SUFFICES ASSUME NEW r \in Ids, Prunable(r, moment - Keep)
                  PROVE  Prunable(r, now)
      BY <2>1
    <3>1. moment \in Int /\ now \in Int /\ Keep \in Nat /\ moment <= now /\ runs[r].finished_at \in Int
      BY <1>0, <1>8, FleetAssumption DEF Prune, TypeOK, Row
    <3>2. runs[r].finished_at < moment - Keep => runs[r].finished_at < now
      BY <3>1
    <3>. QED  BY <3>2 DEF Prunable
  <2>3. /\ runs' = [r \in Ids |-> IF r \in R THEN Absent ELSE runs[r]]
        /\ UNCHANGED <<asked, sequence, now>>
    BY <1>8 DEF Prune, Purge, fleetVars
  <2>. HIDE DEF R
  <2>4. Kept!Drop(R)
    BY <2>2, <2>3, SameRows DEF Kept!Drop
  <2>5. R \in SUBSET Kept!Ids
    BY <2>1, SameRows
  <2>. QED  BY <1>2, <2>3, <2>4, <2>5 DEF Kept!StoreCall
<1>9. ASSUME NEW w \in Workers, ClaimDue(w) \/ ClaimUnheard(w)
      PROVE  Kept!ContractNext
  <2>1. PICK limit : Claim(w, Serves[w], limit, now) /\ UNCHANGED now
    BY <1>9 DEF ClaimDue, ClaimUnheard, fleetVars
  <2>. DEFINE R == Won(Serves[w], limit, now)
  <2>2. R \in SUBSET Ids /\ \A r \in R : Claimable(r, Serves[w], now)
    BY DEF Won
  <2>3. \A r \in R : Claimable(r, {asked[r].queue}, now)
    BY <2>2 DEF Claimable
  <2>4. /\ runs' = [r \in Ids |-> IF r \in R THEN ClaimedBy(runs[r], w, now) ELSE runs[r]]
        /\ UNCHANGED <<asked, sequence>>
    BY <2>1 DEF Claim
  <2>. HIDE DEF R
  <2>5. Kept!Take(R, w, now)
    BY <2>3, <2>4, SameRows DEF Kept!Take
  <2>6. R \in SUBSET Kept!Ids /\ now \in Kept!Moments
    BY <2>2, SameRows, SameInstants
  <2>. QED  BY <1>2, <2>1, <2>5, <2>6 DEF Kept!StoreCall
<1>10. ASSUME NEW w \in Workers, Crash(w)
       PROVE  UNCHANGED <<runs, asked, sequence, now>>
  BY <1>10 DEF Crash, storeVars
<1>11. ASSUME NEW w \in Workers, NEW s \in Slots, TaskStep(w, s)
       PROVE  Kept!ContractNext \/ UNCHANGED <<runs, asked, sequence, now>>
  <2>. DEFINE o == task[w][s]
  <2>0. o \in Task
    BY <1>0 DEF TypeOK
  <2>1. CASE Land(w, s) \/ Unheard(w, s)
    <3>1. o.pc = "ending" /\ UNCHANGED now
      BY <2>1 DEF Land, Unheard
    <3>2. o.run \in Ids
      BY <3>1, LiveTask DEF Live
    <3>3. UNCHANGED storeVars \/ \E delay \in Delays : Record(w, o, delay)
      BY <2>1 DEF Land, Unheard
    <3>. QED  BY <1>3, <2>0, <3>1, <3>2, <3>3, RecordLawful DEF storeVars
  <2>2. CASE BeatLands(w, s)
    <3>1. o.beat \in 0 .. now /\ UNCHANGED now
      BY <2>2 DEF BeatLands, BeatsArePast
    <3>2. CASE UNCHANGED storeVars
      BY <3>1, <3>2 DEF storeVars
    <3>3. CASE Heartbeat(o.run, w, o.attempt, o.beat)
      <4>1. runs[o.run].worker = w /\ runs[o.run].attempts = o.attempt
        BY <3>3 DEF Heartbeat, Held
      <4>2. Kept!Heartbeat(o.run, w, o.attempt, o.beat) /\ o.beat \in Kept!Moments
        BY <3>1, <3>3, SameCalls, SameInstants
      <4>3. CASE o.run \in Ids
        BY <1>3, <3>1, <4>1, <4>2, <4>3 DEF Kept!HolderWrites
      <4>4. CASE o.run \notin Ids
        BY <1>0, <3>1, <3>3, <4>4 DEF Heartbeat, Write, TypeOK
      <4>. QED  BY <4>3, <4>4
    <3>. QED  BY <2>2, <3>2, <3>3 DEF BeatLands
  <2>3. CASE \/ HandOver(w, s) \/ Unknown(w, s) \/ Enter(w, s) \/ NeverStarted(w, s)
             \/ Answer(w, s) \/ Raise(w, s) \/ GiveUp(w, s) \/ Refused(w, s) \/ Told(w, s)
             \/ Leave(w, s) \/ SendBeat(w, s) \/ BeatLost(w, s)
    BY <2>3 DEF HandOver, Unknown, Enter, NeverStarted, Answer, Raise, GiveUp, Ending,
                Refused, Told, Leave, SendBeat, BeatLost, storeVars
  <2>. QED  BY <1>11, <2>1, <2>2, <2>3 DEF TaskStep
<1>12. CASE UNCHANGED vars
  BY <1>1, <1>12 DEF vars
<1>. QED  BY <1>1, <1>4, <1>5, <1>6, <1>7, <1>8, <1>9, <1>10, <1>11, <1>12 DEF Next

(* Whatever the workers do, in whatever order their calls land and are lost, the rows of the    *)
(* store in memory move only as the contract of a store lets them (store/base.py:40-97,          *)
(* store/memory.py:29-211).                                                                      *)
THEOREM KeepsContract == Spec => Lawful
<1>1. Init => Kept!ContractInit
  BY DEF Init, StoreInit, Kept!ContractInit, Kept!StoreInit, Kept!Ids, Ids, Kept!Absent, Absent,
         Kept!NoInstant, NoInstant
<1>2. FleetInv /\ BeatsArePast /\ [Next]_vars => [Kept!ContractNext]_(Kept!contractVars)
  BY StepLawful
<1>. QED  BY <1>1, <1>2, FleetInvariant, NoBeatFromTheFuture, PTL DEF Spec, Lawful, Kept!ContractSpec

-----------------------------------------------------------------------------
(* What the library promises of a run, and what the fleet makes of it. *)

(* What became of a run, read from the ids given out and from the status of its row. *)
Became(r, written, status) ==
  IF r >= written THEN "unwritten"
  ELSE IF status = "absent" THEN "dropped"
  ELSE IF status \in Settled THEN status
  ELSE "open"

LEMMA OutcomeIs ==
  /\ [r \in Ids |-> OutcomeOf(r)] = [r \in Ids |-> Became(r, sequence, runs[r].status)]
  /\ [r \in Ids |-> OutcomeOf(r)]' = [r \in Ids |-> Became(r, sequence', runs'[r].status)]
<1>1. \A r \in Ids : OutcomeOf(r) = Became(r, sequence, runs[r].status)
  BY DEF OutcomeOf, Became, Present
<1>2. \A r \in Ids : OutcomeOf(r)' = Became(r, sequence', runs'[r].status)
  BY DEF OutcomeOf, Became, Present
<1>. QED  BY <1>1, <1>2

(* What a step writes into the rows of a set decides them, when it turns no other row. *)
LEMMA Decided ==
  ASSUME UNCHANGED <<asked, sequence, entered>>,
         NEW R \in SUBSET Ids, NEW from, NEW to,
         \A r \in R : /\ Became(r, sequence, runs[r].status) \in from
                      /\ Became(r, sequence, runs'[r].status) = to,
         \A r \in Ids \ R :
           Became(r, sequence, runs'[r].status) = Became(r, sequence, runs[r].status)
  PROVE  Promised!Decide(R, from, to)
<1>1. [r \in Ids |-> OutcomeOf(r)] = [r \in Ids |-> Became(r, sequence, runs[r].status)]
  BY OutcomeIs
<1>2. [r \in Ids |-> OutcomeOf(r)]' = [r \in Ids |-> Became(r, sequence, runs'[r].status)]
  BY OutcomeIs
<1>3. [r \in Ids |-> OutcomeOf(r)]'
        = [r \in Ids |-> IF r \in R THEN to ELSE [q \in Ids |-> OutcomeOf(q)][r]]
  BY <1>1, <1>2
<1>4. \A r \in R : [q \in Ids |-> OutcomeOf(q)][r] \in from
  BY <1>1
<1>5. [r \in Ids |-> IF r < sequence THEN asked[r].max_attempts ELSE 0]'
        = [r \in Ids |-> IF r < sequence THEN asked[r].max_attempts ELSE 0]
  OBVIOUS
<1>. QED  BY <1>3, <1>4, <1>5 DEF Promised!Decide

LEMMA NothingDecided ==
  ASSUME UNCHANGED <<asked, sequence, entered>>,
         \A r \in Ids : Became(r, sequence, runs'[r].status) = Became(r, sequence, runs[r].status)
  PROVE  UNCHANGED Promised!promiseVars
<1>1. UNCHANGED [r \in Ids |-> OutcomeOf(r)]
  BY OutcomeIs
<1>2. UNCHANGED [r \in Ids |-> IF r < sequence THEN asked[r].max_attempts ELSE 0]
  OBVIOUS
<1>. QED  BY <1>1, <1>2 DEF Promised!promiseVars

(* One row is written: its run stays open, or is decided. *)
LEMMA WriteDecides ==
  ASSUME TypeOK, NEW r \in Ids, NEW row, Write(r, row), UNCHANGED entered, r < sequence,
         runs[r].status \in {"pending", "running"}
  PROVE  /\ row.status \in {"pending", "running"} => UNCHANGED Promised!promiseVars
         /\ row.status \in Settled => Promised!Decide({r}, {"open"}, row.status)
<1>1. /\ \A q \in Ids : runs'[q] = IF q = r THEN row ELSE runs[q]
      /\ asked' = asked /\ sequence' = sequence /\ r \in Int /\ sequence \in Int
  BY DEF TypeOK, Write, Ids
<1>2. Became(r, sequence, runs[r].status) = "open"
  BY <1>1 DEF Became, Settled
<1>3. CASE row.status \in {"pending", "running"}
  <2>1. Became(r, sequence, row.status) = "open"
    BY <1>1, <1>3 DEF Became, Settled
  <2>. QED  BY <1>1, <1>2, <1>3, <2>1, NothingDecided DEF Settled
<1>4. CASE row.status \in Settled
  <2>1. Became(r, sequence, row.status) = row.status
    BY <1>1, <1>4 DEF Became, Settled
  <2>. QED  BY <1>1, <1>2, <1>4, <2>1, Decided DEF Settled
<1>. QED  BY <1>3, <1>4

LEMMA GivenOut ==
  ASSUME FleetInv, NEW r \in Ids, runs[r].status # "absent"
  PROVE  r < sequence
BY DEF FleetInv, TypeOK, Rows, Unwritten, Present, Ids

-----------------------------------------------------------------------------
(* Each action, as a step of the promise. *)

LEMMA EnqueueAccepts ==
  ASSUME FleetInv, NEW order \in Orders, NEW delay \in Delays, Enqueue(order, delay)
  PROVE  \E r \in Ids : Promised!Accept(r)
<1>0. sequence \in Ids
  BY StoreAssumption DEF FleetInv, TypeOK, Enqueue, Add, Ids
<1>. PICK r \in Ids : r = sequence
  BY <1>0
<1>1. /\ r = sequence /\ r \in Int /\ MaxRuns \in Nat /\ Ids \subseteq Int
      /\ runs' = [runs EXCEPT ![r] = Written(now + delay)]
      /\ asked' = [asked EXCEPT ![r] = order] /\ sequence' = r + 1 /\ UNCHANGED entered
      /\ runs \in [Ids -> Row] /\ asked \in [Ids -> Orders \union {NoOrder}]
  BY StoreAssumption DEF FleetInv, TypeOK, Enqueue, Add, fleetVars, Ids
<1>2. /\ \A q \in Ids : runs'[q] = IF q = r THEN Written(now + delay) ELSE runs[q]
      /\ \A q \in Ids : asked'[q] = IF q = r THEN order ELSE asked[q]
  BY <1>1
<1>3. Written(now + delay).status = "pending"
  BY DEF Written
<1>4. \A q \in Ids : q # r => (q < r <=> q < r + 1)
  BY <1>1
<1>. DEFINE before == [q \in Ids |-> OutcomeOf(q)]
            allowedBefore == [q \in Ids |-> IF q < sequence THEN asked[q].max_attempts ELSE 0]
<1>5. before[r] = "unwritten"
  BY <1>1, OutcomeIs DEF Became
<1>6. [q \in Ids |-> OutcomeOf(q)]' = [before EXCEPT ![r] = "open"]
  <2>1. [q \in Ids |-> OutcomeOf(q)]' = [q \in Ids |-> Became(q, r + 1, runs'[q].status)]
    BY <1>1, OutcomeIs
  <2>2. before = [q \in Ids |-> Became(q, r, runs[q].status)]
    BY OutcomeIs
  <2>3. Became(r, r + 1, runs'[r].status) = "open"
    BY <1>1, <1>2, <1>3 DEF Became, Settled
  <2>4. \A q \in Ids : q # r => Became(q, r + 1, runs'[q].status) = Became(q, r, runs[q].status)
    BY <1>1, <1>2, <1>4 DEF Became
  <2>. HIDE DEF before
  <2>. QED  BY <2>1, <2>2, <2>3, <2>4
<1>7. [q \in Ids |-> IF q < sequence THEN asked[q].max_attempts ELSE 0]'
        = [allowedBefore EXCEPT ![r] = order.max_attempts]
  <2>1. \A q \in Ids :
          (IF q < sequence' THEN asked'[q].max_attempts ELSE 0)
            = IF q = r THEN order.max_attempts ELSE IF q < sequence THEN asked[q].max_attempts ELSE 0
    BY <1>1, <1>2, <1>4
  <2>. QED  BY <2>1
<1>8. order.max_attempts \in {o.max_attempts : o \in Orders}
  OBVIOUS
<1>9. Promised!Accept(r)
  BY <1>1, <1>5, <1>6, <1>7, <1>8 DEF Promised!Accept
<1>. QED  BY <1>1, <1>9

LEMMA CancelDecides ==
  ASSUME FleetInv, NEW r \in Ids, CancelRun(r)
  PROVE  Promised!Decide({r}, {"open"}, "canceled")
<1>1. /\ TypeOK /\ runs[r].status = "pending" /\ UNCHANGED entered
      /\ Write(r, Closed(runs[r], "canceled", now))
  BY DEF FleetInv, CancelRun, Cancel, fleetVars
<1>2. Closed(runs[r], "canceled", now).status = "canceled"
  BY <1>1, ClosedRow DEF TypeOK, Settled
<1>3. r < sequence
  BY <1>1, GivenOut
<1>. QED  BY <1>1, <1>2, <1>3, WriteDecides DEF Settled

LEMMA ReclaimDecides ==
  ASSUME FleetInv, NEW moment \in 0 .. MaxNow, ReclaimExpired(moment)
  PROVE  \E R \in SUBSET Ids : Promised!Decide(R, {"open"}, "failed")
<1>. DEFINE S == Oldest({r \in Ids : Expired(r, moment)}, ReclaimBatch)
            R == {r \in S : Exhausted(r)}
<1>1. /\ TypeOK /\ sequence \in Int /\ Ids \subseteq Int /\ UNCHANGED <<asked, sequence, entered>>
      /\ \A r \in Ids : runs'[r] = IF r \in S THEN TakenBack(r, moment) ELSE runs[r]
  BY DEF FleetInv, TypeOK, ReclaimExpired, Reclaim, fleetVars, Ids
<1>2. \A r \in S : r \in Ids /\ runs[r].status = "running" /\ runs[r] \in Row
  BY <1>1 DEF TypeOK, Oldest, Expired
<1>3. ASSUME NEW r \in S
      PROVE  TakenBack(r, moment).status = IF r \in R THEN "failed" ELSE "pending"
  BY <1>2 DEF TakenBack, Closed, Requeued, Row
<1>4. ASSUME NEW r \in S
      PROVE  /\ Became(r, sequence, runs[r].status) = "open"
             /\ Became(r, sequence, "failed") = "failed"
             /\ Became(r, sequence, "pending") = "open"
  <2>1. r < sequence /\ r \in Int
    BY <1>1, <1>2, GivenOut
  <2>. QED  BY <1>1, <1>2, <2>1 DEF Became, Settled
<1>5. \A r \in R : /\ Became(r, sequence, runs[r].status) \in {"open"}
                    /\ Became(r, sequence, runs'[r].status) = "failed"
  BY <1>1, <1>2, <1>3, <1>4
<1>6. ASSUME NEW r \in Ids \ R
      PROVE  Became(r, sequence, runs'[r].status) = Became(r, sequence, runs[r].status)
  <2>1. CASE r \in S
    BY <1>1, <1>3, <1>4, <2>1
  <2>2. CASE r \notin S
    BY <1>1, <2>2
  <2>. QED  BY <2>1, <2>2
<1>7. R \in SUBSET Ids
  BY <1>2
<1>. HIDE DEF R
<1>8. Promised!Decide(R, {"open"}, "failed")
  BY <1>1, <1>5, <1>6, <1>7, Decided
<1>. QED  BY <1>7, <1>8

LEMMA PruneDecides ==
  ASSUME FleetInv, NEW moment \in 0 .. MaxNow, Prune(moment)
  PROVE  \E R \in SUBSET Ids : Promised!Decide(R, {"done", "failed", "canceled"}, "dropped")
<1>. DEFINE R == Oldest({r \in Ids : Prunable(r, moment - Keep)}, PurgeLimit)
<1>1. /\ TypeOK /\ sequence \in Int /\ Ids \subseteq Int /\ UNCHANGED <<asked, sequence, entered>>
      /\ \A r \in Ids : runs'[r] = IF r \in R THEN Absent ELSE runs[r]
  BY DEF FleetInv, TypeOK, Prune, Purge, fleetVars, Ids
<1>2. \A r \in R : r \in Ids /\ runs[r].status \in Settled
  BY <1>1 DEF Oldest, Prunable
<1>3. Absent.status = "absent"
  BY DEF Absent
<1>4. ASSUME NEW r \in R
      PROVE  /\ Became(r, sequence, runs[r].status) \in {"done", "failed", "canceled"}
             /\ Became(r, sequence, runs'[r].status) = "dropped"
  <2>1. r < sequence /\ r \in Int
    BY <1>1, <1>2, GivenOut DEF Settled
  <2>. QED  BY <1>1, <1>2, <1>3, <2>1 DEF Became, Settled
<1>5. \A r \in Ids \ R : Became(r, sequence, runs'[r].status) = Became(r, sequence, runs[r].status)
  BY <1>1
<1>6. R \in SUBSET Ids
  BY <1>2
<1>. HIDE DEF R
<1>7. Promised!Decide(R, {"done", "failed", "canceled"}, "dropped")
  BY <1>1, <1>4, <1>5, <1>6, Decided
<1>. QED  BY <1>6, <1>7

LEMMA ClaimDecidesNothing ==
  ASSUME FleetInv, NEW w \in Workers, ClaimDue(w) \/ ClaimUnheard(w)
  PROVE  UNCHANGED Promised!promiseVars
<1>1. PICK limit : Claim(w, Serves[w], limit, now) /\ UNCHANGED entered
  BY DEF ClaimDue, ClaimUnheard, fleetVars
<1>2. /\ UNCHANGED <<asked, sequence>>
      /\ \A r \in Ids : \/ runs'[r] = runs[r]
                        \/ runs[r].status = "pending" /\ runs'[r] = ClaimedBy(runs[r], w, now)
  BY <1>1 DEF Claim, Won, Claimable
<1>3. \A r \in Ids : runs'[r] = ClaimedBy(runs[r], w, now) => runs'[r].status = "running"
  BY DEF FleetInv, TypeOK, Row, ClaimedBy
<1>4. \A r \in Ids : Became(r, sequence, runs'[r].status) = Became(r, sequence, runs[r].status)
  BY <1>2, <1>3 DEF Became, Settled
<1>. QED  BY <1>1, <1>2, <1>4, NothingDecided

LEMMA EnterTries ==
  ASSUME FleetInv, NEW w \in Workers, NEW s \in Slots, Enter(w, s)
  PROVE  \E r \in Ids, n \in Nat : Promised!Try(r, n) /\ n \in 1 .. asked[r].max_attempts /\ r < sequence
<1>. DEFINE o == task[w][s]
            allowedNow == [q \in Ids |-> IF q < sequence THEN asked[q].max_attempts ELSE 0]
<1>1. /\ o.pc = "handed" /\ o \in Task /\ UNCHANGED <<runs, asked, sequence>>
      /\ entered' = [entered EXCEPT ![o.run] = @ \union {o.attempt}]
  BY DEF FleetInv, TypeOK, Enter, storeVars
<1>2. Live(o)
  BY <1>1 DEF Live
<1>3. o.run \in Ids /\ o.run < sequence /\ Fenced(w, o) /\ Earned(o)
  BY <1>2, LiveTask
<1>4. o.attempt \in 1 .. asked[o.run].max_attempts /\ o.attempt \notin entered[o.run] /\ o.attempt \in Nat
  BY <1>1, <1>3 DEF Fenced, Earned, Task
<1>5. allowedNow[o.run] = asked[o.run].max_attempts
  BY <1>3
<1>6. UNCHANGED [q \in Ids |-> OutcomeOf(q)] /\ UNCHANGED allowedNow
  BY <1>1, OutcomeIs
<1>7. Promised!Try(o.run, o.attempt)
  BY <1>1, <1>3, <1>4, <1>5, <1>6 DEF Promised!Try
<1>. QED  BY <1>3, <1>4, <1>7

(* The ending of a task decides its run, when it closes it: done only of a handler that was entered. *)
LEMMA RecordDecides ==
  ASSUME FleetInv, NEW w \in Workers, NEW s \in Slots, task[w][s].pc = "ending", UNCHANGED entered,
         NEW delay \in Delays, Record(w, task[w][s], delay)
  PROVE  \/ UNCHANGED Promised!promiseVars
         \/ \E r \in Ids : Promised!Finish(r) \/ Promised!Decide({r}, {"open"}, "failed")
<1>. DEFINE o == task[w][s]
            r == o.run
<1>0. TypeOK /\ Live(o)
  BY DEF FleetInv, Live
<1>1. r \in Ids /\ r < sequence /\ Earned(o)
  BY <1>0, LiveTask
<1>2. runs[r] \in Row /\ runs[r].status = "running"
  BY <1>0, <1>1 DEF TypeOK, Record, Complete, Fail, RetryLater, Release, Held
<1>3. /\ Closed(runs[r], "done", now).status = "done"
      /\ Closed(runs[r], "failed", now).status = "failed"
      /\ \A due_at, counted : Requeued(runs[r], due_at, counted).status = "pending"
  BY <1>2 DEF Closed, Requeued, Row
<1>4. CASE o.ending = "complete" /\ Complete(r, w, o.attempt, now)
  <2>1. Promised!Decide({r}, {"open"}, "done")
    BY <1>0, <1>1, <1>2, <1>3, <1>4, WriteDecides DEF Complete, Settled
  <2>2. entered[r] # {}
    BY <1>1, <1>4 DEF Earned
  <2>. QED  BY <1>1, <2>1, <2>2 DEF Promised!Finish
<1>5. CASE o.ending = "fail" /\ Fail(r, w, o.attempt, now)
  BY <1>0, <1>1, <1>2, <1>3, <1>5, WriteDecides DEF Fail, Settled
<1>6. CASE \/ RetryLater(r, w, o.attempt, now + delay)
           \/ Release(r, w, o.attempt, now + delay)
  <2>1. PICK counted : Write(r, Requeued(runs[r], now + delay, counted))
    BY <1>6 DEF RetryLater, Release
  <2>. QED  BY <1>0, <1>1, <1>2, <1>3, <2>1, WriteDecides
<1>. QED  BY <1>4, <1>5, <1>6 DEF Record

LEMMA StepPromised ==
  ASSUME FleetInv, [Next]_vars
  PROVE  [Promised!PromiseNext]_(Promised!promiseVars)
<1>1. ASSUME UNCHANGED <<runs, asked, sequence, entered>>
      PROVE  UNCHANGED Promised!promiseVars
  BY <1>1, NothingDecided
<1>2. ASSUME NEW r \in Ids,
             \/ Promised!Accept(r) \/ Promised!Finish(r)
             \/ Promised!Decide({r}, {"open"}, "canceled")
      PROVE  Promised!PromiseNext
  BY <1>2 DEF Promised!PromiseNext
<1>3. ASSUME NEW R \in SUBSET Ids,
             \/ Promised!Decide(R, {"open"}, "failed")
             \/ Promised!Decide(R, {"done", "failed", "canceled"}, "dropped")
      PROVE  Promised!PromiseNext
  BY <1>3 DEF Promised!PromiseNext
<1>4. ASSUME NEW w \in Workers, NEW s \in Slots, Enter(w, s)
      PROVE  Promised!PromiseNext
  <2>1. PICK r \in Ids, n \in Nat :
          Promised!Try(r, n) /\ n \in 1 .. asked[r].max_attempts /\ r < sequence
    BY <1>4, EnterTries
  <2>2. n \in 1 .. [q \in Ids |-> IF q < sequence THEN asked[q].max_attempts ELSE 0][r]
    BY <2>1
  <2>. QED  BY <2>1, <2>2 DEF Promised!PromiseNext
<1>5. ASSUME NEW w \in Workers, NEW s \in Slots, Land(w, s) \/ Unheard(w, s)
      PROVE  [Promised!PromiseNext]_(Promised!promiseVars)
  <2>1. task[w][s].pc = "ending" /\ UNCHANGED entered
    BY <1>5 DEF Land, Unheard
  <2>2. CASE UNCHANGED storeVars
    BY <1>1, <2>1, <2>2 DEF storeVars
  <2>3. CASE \E delay \in Delays : Record(w, task[w][s], delay)
    <3>1. \/ UNCHANGED Promised!promiseVars
          \/ \E r \in Ids : Promised!Finish(r) \/ Promised!Decide({r}, {"open"}, "failed")
      BY <2>1, <2>3, RecordDecides
    <3>2. \A r \in Ids : {r} \in SUBSET Ids
      OBVIOUS
    <3>. QED  BY <1>2, <1>3, <3>1, <3>2
  <2>. QED  BY <1>5, <2>2, <2>3 DEF Land, Unheard
<1>6. ASSUME NEW w \in Workers, NEW s \in Slots, BeatLands(w, s)
      PROVE  UNCHANGED Promised!promiseVars
  <2>. DEFINE o == task[w][s]
  <2>1. UNCHANGED entered
    BY <1>6 DEF BeatLands
  <2>2. CASE UNCHANGED storeVars
    BY <1>1, <2>1, <2>2 DEF storeVars
  <2>3. CASE Heartbeat(o.run, w, o.attempt, o.beat)
    <3>1. /\ runs' = [runs EXCEPT ![o.run] = [runs[o.run] EXCEPT !.lease_until = o.beat + Lease]]
          /\ UNCHANGED <<asked, sequence>>
      BY <2>3 DEF Heartbeat, Write
    <3>2. \A r \in Ids : runs'[r].status = runs[r].status
      BY <3>1 DEF FleetInv, TypeOK, Row
    <3>. QED  BY <2>1, <3>1, <3>2, NothingDecided
  <2>. QED  BY <1>6, <2>2, <2>3 DEF BeatLands
<1>7. ASSUME NEW w \in Workers, NEW s \in Slots, TaskStep(w, s)
      PROVE  [Promised!PromiseNext]_(Promised!promiseVars)
  <2>1. CASE \/ HandOver(w, s) \/ Unknown(w, s) \/ NeverStarted(w, s)
             \/ Answer(w, s) \/ Raise(w, s) \/ GiveUp(w, s) \/ Refused(w, s) \/ Told(w, s)
             \/ Leave(w, s) \/ SendBeat(w, s) \/ BeatLost(w, s)
    BY <1>1, <2>1 DEF HandOver, Unknown, NeverStarted, Answer, Raise, GiveUp, Ending,
                      Refused, Told, Leave, SendBeat, BeatLost, storeVars
  <2>. QED  BY <1>4, <1>5, <1>6, <1>7, <2>1 DEF TaskStep
<1>8. CASE \E order \in Orders, delay \in Delays : Enqueue(order, delay)
  BY <1>2, <1>8, EnqueueAccepts
<1>9. CASE \E r \in Ids : CancelRun(r)
  BY <1>2, <1>9, CancelDecides
<1>10. CASE \E moment \in 0 .. MaxNow : ReclaimExpired(moment) \/ Prune(moment)
  BY <1>3, <1>10, ReclaimDecides, PruneDecides
<1>11. CASE \E w \in Workers : ClaimDue(w) \/ ClaimUnheard(w) \/ Crash(w)
  <2>1. ASSUME NEW w \in Workers, Crash(w)
        PROVE  UNCHANGED Promised!promiseVars
    BY <1>1, <2>1 DEF Crash, storeVars
  <2>. QED  BY <1>11, <2>1, ClaimDecidesNothing
<1>12. CASE Tick \/ UNCHANGED vars
  BY <1>1, <1>12 DEF Tick, vars, storeVars
<1>. QED  BY <1>7, <1>8, <1>9, <1>10, <1>11, <1>12 DEF Next

(* Every behaviour of the fleet, its crashes, its lost answers and its attempts given back        *)
(* included, is one the promise allows: a run is over once, done only of a handler that was       *)
(* entered, and entered once at most under each attempt (docs/workers.md:127-143, worker.py).     *)
THEOREM FleetKeepsPromise == Spec => PromiseKept
<1>1. ASSUME Init
      PROVE  Promised!PromiseInit
  <2>1. /\ runs = [r \in Ids |-> Absent] /\ sequence = 1 /\ entered = [r \in Ids |-> {}]
        /\ \A r \in Ids : r >= 1 /\ ~(r < 1)
    BY <1>1 DEF Init, StoreInit, Ids
  <2>2. [r \in Ids |-> OutcomeOf(r)] = [r \in Ids |-> "unwritten"]
    BY <2>1, OutcomeIs DEF Became
  <2>3. [r \in Ids |-> IF r < sequence THEN asked[r].max_attempts ELSE 0] = [r \in Ids |-> 0]
    BY <2>1
  <2>. QED  BY <2>1, <2>2, <2>3 DEF Promised!PromiseInit
<1>2. FleetInv /\ [Next]_vars => [Promised!PromiseNext]_(Promised!promiseVars)
  BY StepPromised
<1>. QED  BY <1>1, <1>2, FleetInvariant, PTL DEF Spec, PromiseKept, Promised!PromiseSpec
=============================================================================
