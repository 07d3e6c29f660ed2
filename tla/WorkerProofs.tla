---------------------------- MODULE WorkerProofs ----------------------------
(***************************************************************************)
(* That a worker of any number of threads, handed any runs, keeps count of *)
(* its tasks and its threads, and gives back only what was never entered.  *)
(***************************************************************************)
EXTENDS Worker, FiniteSetTheorems, TLAPS

(* What the pool has work of, or the loop a task: what a claim must leave room for. *)
Busy == Inside \union Queued \union running

LEMMA FiniteParts ==
  ASSUME NEW S \in SUBSET Attempts
  PROVE  IsFiniteSet(S) /\ Cardinality(S) \in Nat
BY FS_Subset, FS_CardinalityType, WorkerAssumption

LEMMA Smaller ==
  ASSUME NEW S \in SUBSET Attempts, NEW T \in SUBSET S
  PROVE  Cardinality(T) <= Cardinality(S)
BY FiniteParts, FS_Subset

LEMMA UnionBound ==
  ASSUME NEW S \in SUBSET Attempts, NEW T \in SUBSET Attempts
  PROVE  Cardinality(S \union T) <= Cardinality(S) + Cardinality(T)
<1>1. /\ IsFiniteSet(S) /\ IsFiniteSet(T)
      /\ Cardinality(S) \in Nat /\ Cardinality(T) \in Nat /\ Cardinality(S \intersect T) \in Nat
  BY FiniteParts
<1>2. Cardinality(S \union T) = Cardinality(S) + Cardinality(T) - Cardinality(S \intersect T)
  BY <1>1, FS_Union
<1>. QED  BY <1>1, <1>2

(* A step after which nothing new is busy leaves room for every run. *)
LEMMA NothingBusier ==
  ASSUME WorkerInv, TypeOK', Busy' \subseteq Busy, loop' = "claiming" => loop = "claiming" /\ asked' = asked
  PROVE  ThreadForEveryRun'
<1>1. Busy \in SUBSET Attempts /\ Busy' \in SUBSET Attempts
  BY DEF WorkerInv, TypeOK, Busy, Inside, Queued
<1>2. Cardinality(Busy') <= Cardinality(Busy)
  BY <1>1, Smaller
<1>3. Cardinality(Busy) \in Nat /\ Cardinality(Busy') \in Nat
  BY <1>1, FiniteParts
<1>4. /\ Cardinality(Busy) <= Concurrency
      /\ loop = "claiming" => Cardinality(Busy) + asked <= Concurrency
  BY DEF WorkerInv, ThreadForEveryRun, Busy
<1>5. /\ Cardinality(Busy') <= Concurrency
      /\ loop' = "claiming" => Cardinality(Busy') + asked' <= Concurrency
  BY <1>2, <1>3, <1>4, WorkerAssumption DEF WorkerInv, TypeOK
<1>. QED  BY <1>5 DEF ThreadForEveryRun, Busy, Inside, Queued

(* A step that leaves the tasks and the threads alone keeps what is said of them. *)
LEMMA LoopInv ==
  ASSUME WorkerInv, UNCHANGED jobVars, TypeOK',
         loop' = "claiming" => loop = "claiming" /\ asked' = asked
  PROVE  WorkerInv'
<1>1. Busy' \subseteq Busy
  BY DEF jobVars, Busy, Inside, Queued
<1>2. ThreadForEveryRun'
  BY <1>1, NothingBusier
<1>3. (\A a \in Attempts : Tracked(a))' /\ StrandedAreCounted' /\ GivenBackUntried'
  BY DEF jobVars, WorkerInv, Tracked, StrandedAreCounted, GivenBackUntried, Inside
<1>. QED  BY <1>2, <1>3 DEF WorkerInv

(* What is busy is counted: it has a task that is not over, or its thread is left behind. *)
LEMMA BusyIsCounted ==
  ASSUME WorkerInv
  PROVE  Busy \subseteq running \union stranded
<1>1. ASSUME NEW a \in Attempts, work[a] \in {"inside", "queued"}
      PROVE  a \in running \/ a \in stranded
  BY <1>1 DEF WorkerInv, Tracked, StrandedAreCounted, Inside
<1>. QED  BY <1>1 DEF Busy, Inside, Queued

LEMMA SendClaimInv ==
  ASSUME WorkerInv, SendClaim
  PROVE  WorkerInv'
<1>1. /\ running \in SUBSET Attempts /\ stranded \in SUBSET Attempts
      /\ Busy \in SUBSET Attempts
  BY DEF WorkerInv, TypeOK, Busy, Inside, Queued
<1>2. /\ Cardinality(running) \in Nat /\ Cardinality(stranded) \in Nat
      /\ Cardinality(Busy) \in Nat /\ Cardinality(running \union stranded) \in Nat
  BY <1>1, FiniteParts
<1>3. Cardinality(Busy) <= Cardinality(running) + Cardinality(stranded)
  BY <1>1, <1>2, BusyIsCounted, Smaller, UnionBound
<1>4. /\ asked' = Concurrency - Cardinality(running) - Cardinality(stranded)
      /\ asked' > 0
  BY DEF SendClaim, Free
<1>5. TypeOK'
  BY <1>2, <1>4, WorkerAssumption DEF SendClaim, WorkerInv, TypeOK, jobVars
<1>6. Busy' = Busy
  BY DEF SendClaim, jobVars, Busy, Inside, Queued
<1>7. ThreadForEveryRun'
  <2>1. Cardinality(Busy) + asked' <= Concurrency /\ Cardinality(Busy) <= Concurrency
    BY <1>2, <1>3, <1>4, WorkerAssumption
  <2>. QED  BY <1>6, <2>1 DEF ThreadForEveryRun, Busy
<1>8. (\A a \in Attempts : Tracked(a))' /\ StrandedAreCounted' /\ GivenBackUntried'
  BY DEF SendClaim, jobVars, WorkerInv, Tracked, StrandedAreCounted, GivenBackUntried, Inside
<1>. QED  BY <1>5, <1>7, <1>8 DEF WorkerInv

LEMMA SpawnInv ==
  ASSUME WorkerInv, NEW won \in SUBSET Fresh, Spawn(won)
  PROVE  WorkerInv'
<1>0. /\ won \in SUBSET Attempts /\ Busy \in SUBSET Attempts
      /\ \A a \in won : job[a] = "none"
  BY DEF Fresh, WorkerInv, TypeOK, Busy, Inside, Queued
<1>1. TypeOK'
  BY <1>0 DEF Spawn, WorkerInv, TypeOK
<1>2. Busy' = Busy \union won
  BY DEF Spawn, Busy, Inside, Queued
<1>3. /\ Cardinality(Busy) \in Nat /\ Cardinality(won) \in Nat
      /\ Cardinality(Busy \union won) \in Nat
      /\ Cardinality(Busy \union won) <= Cardinality(Busy) + Cardinality(won)
  BY <1>0, FiniteParts, UnionBound
<1>4. Cardinality(won) <= asked /\ Cardinality(Busy) + asked <= Concurrency /\ loop' = "waiting"
  BY DEF Spawn, WorkerInv, ThreadForEveryRun, Busy
<1>5. ThreadForEveryRun'
  <2>1. Cardinality(Busy') <= Concurrency
    BY <1>2, <1>3, <1>4, WorkerAssumption DEF WorkerInv, TypeOK
  <2>. QED  BY <1>4, <2>1 DEF ThreadForEveryRun, Busy, Inside, Queued
<1>6. ASSUME NEW a \in Attempts
      PROVE  Tracked(a)'
  BY <1>0, <1>6 DEF Spawn, WorkerInv, TypeOK, Tracked
<1>7. StrandedAreCounted'
  BY <1>0 DEF Spawn, WorkerInv, TypeOK, Tracked, StrandedAreCounted, Inside
<1>8. GivenBackUntried'
  BY DEF Spawn, WorkerInv, GivenBackUntried
<1>. QED  BY <1>1, <1>5, <1>6, <1>7, <1>8 DEF WorkerInv

(* A step of one task, or of its thread: it moves nothing of another attempt's, takes nothing   *)
(* new to the pool that was not counted, and leaves its own attempt as the invariant says.      *)
LEMMA OneAttemptInv ==
  ASSUME WorkerInv, NEW a \in Attempts, UNCHANGED loopVars, TypeOK',
         \A b \in Attempts \ {a} :
           /\ job'[b] = job[b] /\ work'[b] = work[b] /\ ending'[b] = ending[b]
           /\ b \in running' <=> b \in running
           /\ b \in entered' <=> b \in entered
           /\ b \in stranded' <=> b \in stranded,
         Tracked(a)',
         a \in Busy' => a \in Busy,
         a \in stranded' <=> work'[a] = "inside" /\ job'[a] # "handed",
         ending'[a] = "release" => a \notin entered'
  PROVE  WorkerInv'
<1>1. Busy' \subseteq Busy
  BY DEF Busy, Inside, Queued, TypeOK
<1>2. ThreadForEveryRun'
  BY <1>1, NothingBusier DEF loopVars
<1>3. ASSUME NEW b \in Attempts
      PROVE  Tracked(b)'
  BY <1>3 DEF WorkerInv, Tracked
<1>4. StrandedAreCounted'
  BY DEF WorkerInv, TypeOK, StrandedAreCounted, Inside
<1>5. GivenBackUntried'
  BY DEF WorkerInv, GivenBackUntried
<1>. QED  BY <1>2, <1>3, <1>4, <1>5 DEF WorkerInv

LEMMA AttemptInv ==
  ASSUME WorkerInv, NEW a \in Attempts,
         JobStep(a) \/ Answered(a) \/ CancelJob(a) \/ Begin(a) \/ Return(a)
  PROVE  WorkerInv'
<1>0. /\ TypeOK /\ Tracked(a) /\ UNCHANGED loopVars
      /\ a \in stranded <=> work[a] = "inside" /\ job[a] # "handed"
      /\ ending[a] = "release" => a \notin entered
  BY DEF WorkerInv, StrandedAreCounted, GivenBackUntried, Inside, JobStep, Unknown, Await, Submit,
         SubmitRefused, TimeoutAwait, TimeoutQueued, TimeoutInside, Heard, Over, Discard, Answered,
         CancelJob, Begin, Return
<1>1. CASE Unknown(a) \/ SubmitRefused(a) \/ TimeoutAwait(a) \/ Heard(a) \/ Answered(a)
  <2>1. TypeOK'
    BY <1>0, <1>1 DEF TypeOK, loopVars, Unknown, SubmitRefused, TimeoutAwait, Heard, Answered, Ends
  <2>. QED
    BY <1>0, <1>1, <2>1, OneAttemptInv
       DEF TypeOK, Tracked, Busy, Inside, Queued, Unknown, SubmitRefused, TimeoutAwait, Heard, Answered, Ends
<1>2. CASE Await(a)
  <2>1. TypeOK'
    BY <1>0, <1>2 DEF TypeOK, loopVars, Await
  <2>. QED  BY <1>0, <1>2, <2>1, OneAttemptInv DEF TypeOK, Tracked, Busy, Inside, Queued, Await
<1>3. CASE Submit(a)
  <2>1. TypeOK'
    BY <1>0, <1>3 DEF TypeOK, loopVars, Submit
  <2>. QED  BY <1>0, <1>3, <2>1, OneAttemptInv DEF TypeOK, Tracked, Busy, Inside, Queued, Submit
<1>4. CASE TimeoutQueued(a)
  <2>1. TypeOK'
    BY <1>0, <1>4 DEF TypeOK, loopVars, TimeoutQueued, Ends
  <2>. QED
    BY <1>0, <1>4, <2>1, OneAttemptInv DEF TypeOK, Tracked, Busy, Inside, Queued, TimeoutQueued, Ends
<1>5. CASE TimeoutInside(a)
  <2>1. TypeOK'
    BY <1>0, <1>5 DEF TypeOK, loopVars, TimeoutInside, Ends
  <2>. QED
    BY <1>0, <1>5, <2>1, OneAttemptInv DEF TypeOK, Tracked, Busy, Inside, Queued, TimeoutInside, Ends
<1>6. CASE Over(a)
  <2>1. TypeOK'
    BY <1>0, <1>6 DEF TypeOK, loopVars, Over
  <2>. QED  BY <1>0, <1>6, <2>1, OneAttemptInv DEF TypeOK, Tracked, Busy, Inside, Queued, Over
<1>7. CASE Discard(a)
  <2>1. TypeOK'
    BY <1>0, <1>7 DEF TypeOK, loopVars, Discard
  <2>. QED  BY <1>0, <1>7, <2>1, OneAttemptInv DEF TypeOK, Tracked, Busy, Inside, Queued, Discard
<1>8. CASE CancelJob(a)
  <2>1. TypeOK'
    BY <1>0, <1>8 DEF TypeOK, loopVars, CancelJob
  <2>. QED  BY <1>0, <1>8, <2>1, OneAttemptInv DEF TypeOK, Tracked, Busy, Inside, Queued, CancelJob
<1>9. CASE Begin(a)
  <2>1. TypeOK'
    BY <1>0, <1>9 DEF TypeOK, loopVars, Begin
  <2>. QED  BY <1>0, <1>9, <2>1, OneAttemptInv DEF TypeOK, Tracked, Busy, Inside, Queued, Begin
<1>10. CASE Return(a)
  <2>1. TypeOK'
    BY <1>0, <1>10 DEF TypeOK, loopVars, Return
  <2>. QED  BY <1>0, <1>10, <2>1, OneAttemptInv DEF TypeOK, Tracked, Busy, Inside, Queued, Return
<1>. QED  BY <1>1, <1>2, <1>3, <1>4, <1>5, <1>6, <1>7, <1>8, <1>9, <1>10 DEF JobStep

-----------------------------------------------------------------------------
LEMMA InitInv ==
  ASSUME Init
  PROVE  WorkerInv
<1>1. TypeOK
  <2>1. asked \in 0 .. Concurrency
    BY WorkerAssumption DEF Init
  <2>2. /\ job \in [Attempts -> {"none", "starting", "awaiting", "handed", "ending", "over"}]
        /\ ending \in [Attempts -> {"none", "settle", "release"}]
        /\ work \in [Attempts -> {"none", "queued", "inside", "done", "cancelled"}]
    BY DEF Init
  <2>. QED  BY <2>1, <2>2 DEF Init, TypeOK
<1>2. \A a \in Attempts : Tracked(a)
  BY DEF Init, Tracked
<1>3. ThreadForEveryRun
  <2>1. Inside \union Queued \union running = {}
    BY DEF Init, Inside, Queued
  <2>. QED  BY <2>1, FS_EmptySet, WorkerAssumption DEF ThreadForEveryRun, Init
<1>4. StrandedAreCounted /\ GivenBackUntried
  BY DEF Init, StrandedAreCounted, GivenBackUntried, Inside
<1>. QED  BY <1>1, <1>2, <1>3, <1>4 DEF WorkerInv

LEMMA NextInv ==
  ASSUME WorkerInv, [Next]_vars
  PROVE  WorkerInv'
<1>1. CASE UNCHANGED vars
  BY <1>1, LoopInv DEF vars, jobVars, WorkerInv, TypeOK
<1>2. CASE \/ Pass \/ Tidy \/ Materialize \/ SkipClaim \/ ClaimFailed \/ Poll \/ Drain \/ Drained
           \/ Stop \/ CancelLoop
  <2>1. /\ UNCHANGED jobVars /\ TypeOK'
        /\ loop' = "claiming" => loop = "claiming" /\ asked' = asked
    BY <1>2 DEF Pass, Tidy, Materialize, SkipClaim, ClaimFailed, Poll, Drain, Drained, Stop,
                CancelLoop, jobVars, WorkerInv, TypeOK
  <2>. QED  BY <2>1, LoopInv
<1>3. CASE SendClaim
  BY <1>3, SendClaimInv
<1>4. ASSUME NEW won \in SUBSET Fresh, Spawn(won)
      PROVE  WorkerInv'
  BY <1>4, SpawnInv
<1>5. ASSUME NEW a \in Attempts,
             JobStep(a) \/ Answered(a) \/ CancelJob(a) \/ Begin(a) \/ Return(a)
      PROVE  WorkerInv'
  BY <1>5, AttemptInv
<1>. QED  BY <1>1, <1>2, <1>3, <1>4, <1>5 DEF Next, LoopStep

(* The counts of a worker stand in every state of every behaviour (worker.py:225-233,397-428). *)
THEOREM WorkerInvariant == Spec => []WorkerInv
BY InitInv, NextInv, PTL DEF Spec

(* Every variable of a worker has its shape (worker.py:102-191). *)
THEOREM TypeCorrect == Spec => []TypeOK
<1>1. WorkerInv => TypeOK
  BY DEF WorkerInv
<1>. QED  BY <1>1, WorkerInvariant, PTL

(* No run is ever claimed onto a pool with no thread left for it (worker.py:225-233). *)
THEOREM NeverWithoutThread == Spec => []ThreadForEveryRun
<1>1. WorkerInv => ThreadForEveryRun
  BY DEF WorkerInv
<1>. QED  BY <1>1, WorkerInvariant, PTL

(* The threads counted out are the ones inside a handler nobody waits for (worker.py:422-428). *)
THEOREM NoThreadIsLost == Spec => []StrandedAreCounted
<1>1. WorkerInv => StrandedAreCounted
  BY DEF WorkerInv
<1>. QED  BY <1>1, WorkerInvariant, PTL

(* An attempt given back is one whose handler is never entered (worker.py:397-402). *)
THEOREM NothingTriedIsGivenBack == Spec => []GivenBackUntried
<1>1. WorkerInv => GivenBackUntried
  BY DEF WorkerInv
<1>. QED  BY <1>1, WorkerInvariant, PTL
=============================================================================
