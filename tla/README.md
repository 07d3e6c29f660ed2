# queuefy, modelled and checked

queuefy is a job queue for Python: an application enqueues runs of the tasks it declares, a store
keeps them, and any number of workers, on any number of machines, claim what is due and run it. The
workers never talk to each other. What keeps two of them from running the same run at once, what
brings a run back when its worker died, and what leaves one run of a cron slot that ten workers
write, is a few conditional writes, a lease and an attempt number. These modules state what that
adds up to, TLC checks it on small instances, and TLAPS proves all of its safety properties for
instances of any size.

Paths in this file are relative to `src/src/queuefy/` unless they start with `docs/`.

## The system

| component | state it keeps | operations | module |
| --- | --- | --- | --- |
| store (`store/memory.py`, contract in `store/base.py`) | rows by id, the next id | add, claim, heartbeat, complete, fail, retry_later, release, reclaim, cancel, purge; get, find, count read only | `Store` |
| worker, seen from the store (`worker.py`) | per task it runs: the copy of the run it was handed, and what it is about to write | reclaim, prune, claim, start, settle, release, beat, announce, crash | `Fleet` |
| worker, from inside (`worker.py`) | `running`, `stranded`, `stopping`, the thread pool, the await its loop stands at | a pass, spawn, submit, timeout, stop, drain, cancellation | `Worker` |
| workers, in the long run (`worker.py`) | the pass, `purged`, what is in hand, `stranded` | the same passes, under fairness | `Recovery` |
| application (`app.py`) | `tasks`, `written` | enqueue, enqueue_at, cancel; store_once; materialize | `Fleet` (enqueue, cancel), `RedisStore` (store_once), `Schedule` (materialize) |
| triggers (`trigger.py`, `cron.py`) | none | next_after | `Schedule` (Interval), `Cron` (the parser and the search) |
| retry (`retry.py`) | none | delay_for | `Retry`, used by `Recovery`; a set of delays in `Fleet` |
| sql store (`store/sqlalchemy.py`) | the same rows, and the transactions in progress on them | the same calls, in pieces: candidates read and taken one by one, sweeps and prunings that read and then write, writes tried again | `SqlStore` |
| redis store (`store/redis.py`) | a hash per run, a sorted set per lane, the leases, what is settled, the list of lanes, a reservation per key | the same calls, a script each | `RedisStore` |
| clock, text and json checks, errors, asgi | none | conversions, refusals | the clock is a variable; the rest is not modelled |

How they meet: the application and the workers call the store and nothing else. A worker pass calls
`reclaim`, `purge`, `materialize` (the application's, which calls `add`) and `claim`; a task calls
`heartbeat` from its beat and one ending (`complete`, `fail`, `retry_later`, `release`) from its
body, concurrently. Listeners and handlers are code nobody here bounds: they take any time, and
plain handlers run on threads Python cannot end.

What is hard about it, and what makes each part correct:

* **Fencing.** A run is held by an attempt number, not by a name (`store/base.py:41`), because a
  worker can meet its own expired lease and claim the run again. But `release` gives numbers back.
  Correct means: of all the attempts still answering for a run, lost ones included, at most one
  passes for its holder (`OneHolder`); no number is entered twice (`EnteredOnce`).
* **Lost work and lost answers.** Workers die, calls land unheard, leases expire under live
  attempts. Correct means: a run is tried at most `max_attempts` times (`WithinPolicy`), a run is
  taken with a whole lease and a good one is respected (`LeaseRespected`), what is over stays over
  (`SettledStands`), listeners hear
  of the end once and what they heard stands (`ToldOnce`).
* **Threads.** A timeout ends the waiting and not the work. Correct means: never a run claimed onto
  a pool with no thread for it (`ThreadForEveryRun`), no thread lost from the count
  (`StrandedAreCounted`), no attempt given back that a thread then enters (`GivenBackUntried`).
* **Stopping.** A shutdown always ends (`StopEnds`), a timeout always frees its slot
  (`TimeoutFreesSlot`).
* **Databases.** What was read is not what is there when it is written. Correct means: whatever
  interleaves, the committed rows move only as a store may move them (`Lawful`), a claim that breaks
  halfway loses nothing it won (`RunningIsAnswered`), and no call is contended for ever (`CallsEnd`).
* **Redis.** A run is a hash, its id waits in a sorted set, and its key is a reservation; each script
  moves all three, and a redis that evicts takes the hash alone. Correct means: they agree but for
  what an eviction left (`Indexed`), the hashes move as a store may move them (`LawfulOrEvicted`), and a
  claim over many lanes takes the urgent run of any queue first (`UrgentFirst`).
* **Writing once.** `store_once` writes, is refused, looks for the holder, and the holder may go in
  between. Correct means: it answers with a run that held the key at some instant since it began to
  ask, and gives up only when as many holders as it has tries went away under it (`OnceAnswers`).
* **In the end.** Correct means: a run that was written is over in the end, whoever dies and whatever
  is refused, unless attempts are given back over and over or no worker has a thread left (`RunsEnd`);
  until then it is where some pass will find it (`RecoveryInv`), and it gets further with every change
  of hands but one: an attempt that was never begun is given back (`BackOnlyUntried`). What is over is
  pruned in the end (`BacklogDrains`), and a pruning that was answered starts the hour only when it
  left nothing prunable (`HourMeansDone`).
* **Numbers.** Correct means: retries of a herd that wait at all stay apart however far past the
  ceiling they doubled, and under it (`HerdIsBroken`); a cron slot is the first minute its expression
  names (`FirstMatch`), the
  search never runs out (`Reached`), and only what never comes is refused (`RefusedIsImpossible`).
* **Slots.** Every process writes every slot; passes stall, restart and read stale clocks while
  prunings free keys. Correct means: a slot is written once (`SlotWrittenOnce`), unless it was called
  off or a pass outlasts the keep; none is skipped, and a pass that comes to its end went past every
  task (`RememberedIsWritten`, `NoSlotPassedOver`).

The whole list of what can go wrong, line by line, is under `hazards` in `PROJECT.json`, each with
the properties that would catch it. Two have none, because they do happen: a pass that outlasts the
keep repeats a slot, and a slot called off and pruned before it came is written back.

## The modules

**`Store.tla`** is the contract, translated from `MemoryStore`, where each call runs whole under one
lock and so is one action. `runs` maps an id to its row (`Absent` before it is written and after it
is pruned). What a run was written with (queue, name, priority, key, max_attempts) never changes and
a worker goes on reading it from its own copy after the row is gone, so it is kept apart in `asked`.
The helpers carry the names of the code: `Held` is `held`, `Taken` is `taken`, `TakenBack` is the body
of the loop in `reclaim`. A call the store refuses changes nothing, so it is a disabled action; the
callers that act on a refusal say so themselves.

**`Fleet.tla`** extends Store with the clock and every worker's tasks. A store call is one step,
taken when it lands; everything between two calls interleaves. A task is `starting` (listeners, then
the lookup), `handed`, `working` (the handler was entered), `ending` (its last call is on its way),
`telling` (listeners hear of it) or `resting` (the beat in flight is waited for). Its beat is a
second call that can be in flight at any time and carries the instant it was sent at. Calls may be
lost before they land, and answers of claims and endings after. `reclaim` and `purge` carry the
instant their pass began at, any instant already past; the claim asks again, as the code does. A
crash takes the worker's tasks with it at any point; one task cancelled at shutdown leaves the store
as a crash of its slot would. `entered` and `closings` are history: the numbers a handler was
entered under, and how often listeners were told a run is over.

**`Contract.tla`** says what any store may do to its rows, whatever it takes them with: the calls of
Store, except that a claim, a reclaim and a pruning may come in pieces and take rows other than the
first. `Fleet!Lawful`, `SqlStore!Lawful` and `RedisStore!LawfulOrEvicted` are the refinements: the
workers ask for no more than this, and neither the database nor redis gives less, so what Fleet
shows of the rows rests on nothing only the store in memory does. (An eviction is no call of a
store; the last of the three allows for it, and for nothing that brings a run back.) No refinement
mapping is needed: all of them keep Store's variables and a clock.

**`SqlStore.tla`** extends Store with the claim, the sweep or the pruning each worker is in (`call`; its
passes await them in turn). `runs` is what is committed. A claim reads its candidates without a lock,
then takes each in a transaction of its own: one step, since the database runs a conditional update
of one row under that row's lock. A sweep is one transaction of four statements, and the rows it
wrote (`failing`, `queueing`) are locked until it commits: nobody writes them and everybody still
reads the old ones. Its second read may see what is committed by then or what was when it first read,
which covers read committed and repeatable read; its updates ask again for the condition of the read,
of the row as it is. `Contended` is a rollback tried again within `TRIES`, `Broken` and `TakeBroken`
any other error. `handed` and `lost` are history: the attempts a claim answered with, and the runs
of which something was lost. Every other call is one conditional statement and is Store's own,
disabled while a sweep has the row locked.

**`RedisStore.tla`** extends Store with what redis keeps beside the hashes: `lane`, `leased` and `settled`
are the scores of the sorted sets, `listed` the lanes a claim knows of, `reserved` what a key names. A
script runs whole, so it is a step; its loops over the lanes and the merge are the set it takes
(`Ready`, then `Walked`). ZRANGEBYSCORE with a LIMIT orders equal scores by the bytes of the members, and
`SortedBefore` says so of the texts of the ids (`TextOf`, which only has to tell two ids apart: what is
proved holds of any text). `MCRedisStore` gives the decimal texts, with eight ids given out before the
first of the model, so that they fall out of the order of the numbers. `Evict` takes a hash. Beside the
workers, `call` is a caller inside `store_once`: a write, a read of the reservation and a read of the
hash, with anything between them.

**`Recovery.tla`** extends Store and Retry with passes that are refused, answers that are lost, crashes,
threads that handlers keep, and the hour between prunings, under fairness. An attempt in hand is `handed`
until its handler begins (`Enter`), `working`, or `left` by a timeout with its handler still on the
thread (`Strand`), which is then one of `stranded` until it returns, if ever (`Return`); `Free` counts
both, as `free` and `holding` do. One that is only `handed` may be given back (`GiveBack`): by a worker
that does not declare the task, and by a timeout that came before a thread. A housekeeping call that
raised may have landed; the pass goes on. A slot `materialize` writes is an `Enqueue`. Time has no end
in it: `now` is always `Base`, and a tick moves every other instant one back instead, down to the
oldest one told apart. All that lies that far back is due, expired and prunable alike; the one thing
lost is which of two such runs came due first, and there the order of the ids stands in for it.

**`Retry.tla`** is `delay_for` in whole units, with shares in hundredths and rounded down where the code
keeps a float. `Doubled` is `2 ** n` as a recursive function, which the provers can unfold.

**`Cron.tla`** is the parser, from the tokens of a field on, and the loop of `next_after` candidate by
candidate, each search starting from the slot the last one found. What month, day and weekday the
number of a day falls on is `datetime`'s and a constant, up to a `LastDay`; `MCCron` gives the Gregorian
calendar. `Gaps` are the spans of days after which a date may fall on its weekday again, at most forty
years; that every date does is an assumption TLC evaluates for each day of the four hundred years. The
properties read the expression as it is written and none of the sets the parser made.

**`Promise.tla`** is what a user is promised, with no store or lease in sight: a run is open until
it is done, failed or canceled, once; it is done only if its handler was entered; the handler is
entered at most once under each of its attempts. `Fleet!PromiseKept` is the refinement, with
`outcome` read from the rows, `allowed` from the orders and `tried` from `entered`.

The proofs (below) are in **`FleetProofs.tla`** for Fleet, **`WorkerProofs.tla`** for Worker,
**`ScheduleProofs.tla`** for Schedule, **`SqlProofs.tla`** for SqlStore, **`RedisProofs.tla`** for RedisStore,
**`RecoveryProofs.tla`** for Recovery and Retry, and **`CronProofs.tla`** for Cron. **`StoreLemmas.tla`** has what they
share: what the calls of Store do to its types, and that what leads an order is as many as its limit.

**`Worker.tla`** is one worker from inside: a step is what the event loop or one thread does between
two awaits. The loop stands at one of its awaits; a job is one attempt it was handed; `work` is the
future of a plain handler on the pool (`queued`, `inside`, `done`, `cancelled`). The store is only what
a claim answers. `running` is dropped by a callback the loop runs later (`Discard`), `stranded` by the
thread as it returns, exactly where the code does it. The pool is external: `Begin` and `Return` say
what `ThreadPoolExecutor` does, including that a pool that was shut down still runs what it was given.
The three housekeeping calls are three awaits; the hour between two prunings is in Recovery.

**`Schedule.tla`** extends Store with the passes of `materialize`. A pass reads the clock where it
begins, and each slot is computed from that instant however late it is written; the tasks are walked
in the order they were declared in, which is that of `Span`. The store may refuse
a slot, take it and lose the answer, or find the key taken. A process may restart and forget. What
becomes of a slot once it is due is one step, `Work`.

**`MCFleet`, `MCSqlStore`, `MCRedisStore`, `MCRecovery`, `MCWorker`, `MCSchedule`, `MCCron`** give the
constants their small values and the symmetry sets.

Definitions marked `Mutant` are one plausible slip each (a comparison the other way, a condition
dropped). Substituted for the definition they stand before, each makes the property it is paired
with in `PROJECT.json` fail in its run: that is how we know the property looks at the code.

## The runs

| run | instance | what it shows |
| --- | --- | --- |
| `pair` | 2 workers of 1 slot, 1 run of 2 attempts of a task both declare or one of them does, clock to 3 | `FleetInv`, `WithinPolicy`, `ToldOnce`, `EnteredOnce`, `LeaseRespected`, and the refinement `PromiseKept` |
| `own` | 1 worker of 2 slots, 1 run of 2 attempts, of the task it declares or of another, clock to 4 | a worker that meets its own expired lease: `OneHolder`, `WithinPolicy`, `EnteredOnce`, `SettledStands`, `Lawful` |
| `stop` | 1 worker of 2 slots, 5 attempts: plain handlers that outlive timeouts, one with no timeout, a coroutine, a task not declared; with fairness | `WorkerInv`, `ThreadForEveryRun`, `StrandedAreCounted`, `GivenBackUntried`, `StopEnds`, `TimeoutFreesSlot` |
| `after_stop` | one worker that is stopped | **fails**: `NothingClaimedAfterStop`, see below |
| `refused` | one worker that is stopped | **fails**: `SpentWasTried`, see below |
| `schedule` | 2 processes, intervals of 2 and 3, 4 runs, a keep and passes of 2, clock to 3 | `ScheduleInv`, `SlotWrittenOnce`, `RememberedIsWritten`, `NoSlotPassedOver` |
| `sql_race` | 2 workers on a database, 1 run of 2 attempts, 2 tries, clock to 2, with fairness | `Lawful`: claims, sweeps, prunings, beats and endings of the same row in every order; `SqlInv`, `CallsEnd` |
| `sql_batch` | 1 worker, 2 runs of 1 and 2 attempts, batches of one | `Lawful` (the two halves of a sweep share a batch), `RunningIsAnswered` |
| `redis` | 1 worker and 1 caller of `store_once` with 2 tries, 2 runs in 2 queues, one keyed and one urgent, one eviction, clock to 2 | `RedisInv`, `Indexed`, `LawfulOrEvicted`, `UrgentFirst`, `OnceAnswers` |
| `redis_order` | 6 runs of one lane, ids 9 to 14, a claim of 1 | **fails**: `OldestFirst`, see below |
| `recovery` | 1 worker of 1 thread, 2 runs of 2 attempts with jitter, prunings of one row and an hour of 2, one crash, time without end; with fairness | `RecoveryInv`, `BackOnlyUntried`, `RunsEnd`, `BacklogDrains`, `HourMeansDone`, `HerdIsBroken` |
| `cron` | 12 expressions with a corner each, 3 starts, 4 searches in a row | `FirstMatch`, `Reached`, `RefusedIsImpossible` |

Bounds: `MaxNow` is the last instant of the clock and `MaxRuns` how many runs are ever written; they
are guards of `Tick` and `Add` and nothing else. With a lease of 1 and a strict comparison an
expired lease takes two ticks, so a clock to 4 (`own`) holds two whole cycles of claim, silence and
reclaim, and a clock to 3 (`pair`) one and a stale call of the first claim in flight during the
second; two attempts are the fewest that tell a retry from an ending, and two holders the fewest
that can disagree. `Keep = 0` makes what is over prunable at the next instant, so pruning falls
between any two calls. In SqlStore a clock to 2 lets a lease be renewed after a sweep read it as
expired, and `Tries = 2` has a call both tried again and given up; `Spread = 1` reads no more
candidates than asked for, and the candidate that is gone when it is taken is the other worker's. In
Schedule, three instants hold two slots of an interval of 2 and one of an interval of 3, and
`PassLimit` (how long a pass may last, a guard of `Tick`) is as long as `Keep`: for a worker that prunes
after a week that is a pass stalled for a week, and without it the slot really is repeated, when the
pass that stalled writes a slot others already ran and pruned. The worker's runs have more attempts
than slots, so that threads stay stranded while new runs are claimed. In RedisStore two runs suffice
for a key that is written, pruned and written again, `Rewrites = 2` has a caller both try again and
give up, and an eviction is the only way to a ghost; `redis_order` needs more runs due together than a
claim of one reads of a lane, which are five, and ids on both sides of ten. In Recovery two runs and
batches of one make a backlog that outlasts a pruning, and one thread is the smallest pool a handler
takes away whole, with the other run waiting behind it; that a worker of more threads claims none it
does not have, and gives back nothing it began, is proved. `Crash` is bounded, since a worker that dies
before every ending brings no run to an end; refusals and lost answers are not. In Cron the
expressions include a leap day on a weekday that is forty years out, across 2100, which is no leap
year; months without a 31st; the two meanings of a day of month beside a day of week; and four that
must be refused. `LastDay` is the last of the four hundred years after which the calendar repeats;
`datetime`'s own last day is in 9999, and no search here comes near either.

A worker whose loop is over really is over, and a clock at its bound with everything settled has no
step left: the configurations that set `CHECK_DEADLOCK FALSE` are those of Worker, and that of Cron,
where an expression was refused or the last search answered.

Fairness is assumed in three modules. In SqlStore, each call a worker is in is weakly fair: the
database answers every statement, at the latest with the lock-wait timeout (1205) that
`under_contention` is written for; nothing says it answers well. In Worker, the loop is weakly fair:
a store call answers or raises (the docs ask for client timeouts), and the poll and the grace are
bounded waits. Each task is weakly fair in what the library does of it: listeners return, an ending
answers or raises, a timeout fires, the callback runs. Nothing is assumed of handlers, on the loop
(`Answered`) or on a thread (`Begin`, `Return`), nor of cancellation: `StopEnds` and
`TimeoutFreesSlot` hold with handlers that never return. In Recovery the clock goes on and a worker goes
from pass to pass (weak fairness of `Tick` and of `PassStep`: the loop of `run` polls without end, and
every error of a pass is caught), an attempt in hand goes on (weak fairness of `GoesOn`, run by run: the
handler begins, answers, raises or is left by its timeout, and the ending lands or is lost), and a call
of a pass that is asked for again and again lands in the end (strong fairness of `ReclaimLands`,
`TidyLands` and `ClaimLands`: a store refuses now and then, and not for ever). `materialize` may fail on
every pass, endings may all be lost, and a thread that was left need never come back. A handler with
no timeout that never returns is outside that: its beats renew the lease, and by design such a run never
ends. `RunsEnd` names what else keeps a run waiting, and these two things only: attempts given back over
and over, which cost nothing (`docs/retries.md:63-108`), and workers whose every thread is in a handler
that never returns, which claim nothing (`docs/workers.md:190-193`). Its first excuse is global, so it
says nothing of one run while another is given back for ever.

## What the code does that its words do not say

* **`after_stop`.** `docs/workers.md:163` says nothing new is claimed after `stop`. `run` looks at the
  flag between passes only, so a stop during the housekeeping of a pass is followed by its claim.
* **`refused`.** `worker.py:398` says an attempt that never happened is not one the run has spent. A
  task whose starting listeners outlast the grace submits to a pool already shut down
  (`worker.py:410`); the `RuntimeError` is settled as a spent attempt, and with `max_attempts` of one the
  run is failed with its handler never entered.
* **`redis_order`.** `store/redis.py:42` says the lanes are merged in the order the other stores read out
  of one index. Each lane is cut to its limit first, in the order redis keeps equal scores in, which is
  that of the texts of the ids: of more runs due at one instant than `limit * CLAIM_SPREAD`, the tenth is
  taken before the ninth. Nothing is lost by it but the order, and `UrgentFirst` stands.

Two more, of no consequence, that no run is spent on. `store/memory.py:59` says a claim mints a number
nobody else is on; `release` gives the number back (`store/memory.py:114`) while the attempt may still be
beating, until its failing listeners return (`worker.py:319-333`), and the next claim mints the same
number. The ending of the old attempt is already spent, so the most that happens is a lease the wrong
beat extends or cuts short: `OneHolder` counts the attempts that can still end the run, and it holds. And
`docs/retries.md:82` says a run whose name nobody knows comes back at the policy's first delay each time;
the wait is that of the attempt it was claimed under (`worker.py:446-451`), so a run that failed twice
before is put off by the third.

## What is proved

Eight modules hold proofs: for every set of workers, queues, orders, processes, callers, tasks and
spans, every lease, keep, batch, limit and delay, every expression and calendar, and any number of
slots, tries and runs, under the assumptions their modules state (`StoreAssumption`, `FleetAssumption`,
`WorkerAssumption`, `ScheduleAssumption`, `SqlAssumption`, `RedisAssumption`, `RecoveryAssumption`,
`UnitAssumption`, `ExpressionAssumption`, `CalendarAssumption`, `GapAssumption`). Those are what the
constructors refuse, such as a lease or a span of nothing and a run of no attempt; that a worker has
finitely many slots; and of what is not queuefy's, that two ids have two texts, that no month is longer
than `MONTH_LENGTHS` says, and that every date falls on every weekday within forty years, which is what
the comment of `HORIZON` (`cron.py:11`) rests on. `UnitAssumption` is about the unit of time of Retry, where
the code has floats: it is fine enough that two different draws over the shortest wait of a policy are
a unit apart. It asks that of a `retry_delay` above 0; one of 0, which a task may have, is no wait
however it is drawn, and `HerdIsBroken` leaves it out. TLC evaluates each of them.

| theorem | property |
| --- | --- |
| `FleetInvariant` | `Spec => []FleetInv` |
| `TypeCorrect`, `AtMostOneHolder`, `PolicyKept`, `AnnouncedOnce` | `TypeOK`, `OneHolder`, `WithinPolicy`, `ToldOnce` |
| `NeverEnteredTwice`, `WhatIsOverStands`, `GoodLeaseHolds` | the action properties `EnteredOnce`, `SettledStands`, `LeaseRespected` |
| `KeepsContract` (`FleetProofs`) | `Spec => Lawful`: the fleet asks of its store what any store may do |
| `FleetKeepsPromise` (`FleetProofs`) | `Spec => PromiseKept`: the fleet implements the promise |
| `WorkerInvariant`, `NeverWithoutThread`, `NoThreadIsLost`, `NothingTriedIsGivenBack` (`WorkerProofs`) | `WorkerInv`, `ThreadForEveryRun`, `StrandedAreCounted`, `GivenBackUntried` |
| `ScheduleInvariant`, `OneRunPerSlot`, `NothingIsRememberedInVain` (`ScheduleProofs`) | `ScheduleInv`, `SlotWrittenOnce`, `RememberedIsWritten` |
| `EverySlotIsWritten` (`ScheduleProofs`) | the action property `NoSlotPassedOver` |
| `SqlInvariant`, `NoRunIsStranded` (`SqlProofs`) | `SqlInv`, `RunningIsAnswered` |
| `DatabaseKeepsContract` (`SqlProofs`) | `Spec => Lawful`: the database gives what a store must, whatever interleaves |
| `RedisInvariant`, `SetsFollowHashes`, `StoreOnceAnswers` (`RedisProofs`) | `RedisInv`, `Indexed`, `OnceAnswers` |
| `RedisKeepsContract` (`RedisProofs`) | `Spec => LawfulOrEvicted`: so does redis, but for what an eviction takes |
| `ClaimsTheUrgent` (`RedisProofs`) | the action property `UrgentFirst` |
| `RecoveryInvariant`, `HerdStaysBroken` (`RecoveryProofs`) | `RecoveryInv`, `HerdIsBroken` |
| `OnlyUntriedGoesBack`, `HourMeansItIsDone` (`RecoveryProofs`) | the action properties `BackOnlyUntried`, `HourMeansDone` |
| `EveryWaitFits` (`RecoveryProofs`) | `WaitsFit`, stated there |
| `CronInvariant`, `NothingIsGivenUpEarly` (`CronProofs`) | `CronInv`, `GivesUpRightly`, both stated there |
| `FirstMatchIsFound`, `OnlyTheImpossibleIsRefused`, `EveryAcceptedIsReached` (`CronProofs`) | `FirstMatch`, `RefusedIsImpossible`, `Reached` |

The refinements meet in Contract: what any number of workers ask of the store in memory is no more
than any store may do, and what the database and redis do is no more than that either. That the
promise is kept is proved of workers on the store in memory, whose calls run whole.

The argument for Fleet. `OneHolder` is not inductive: a state may satisfy it in which a lost attempt
carries a number the next claim is about to mint. `FleetInv` says why that cannot be reached. `Fenced`: an
attempt still answering carries at most the number its row counts, and on a running row equality
means its own worker holds it, so a claim, which counts one more, mints a number above them all.
`Distinct`: the numbers of the attempts answering for one run are all different, which is what makes
a release safe: it lowers the row's count by one, and since the releaser alone carried the top
number the others stay below. `Earned` ties an attempt to history: what is about to be entered or
given back was not entered, what is about to be answered was. `Rows` bounds the numbers entered by
what the row counts and by the policy. The step lemmas follow the actions: `TaskOnlyInv` for steps
that move one task and leave the store alone, `RowsInv` for calls that move rows and no task,
`RecordInv` for an ending that moves both, one lemma per remaining action, and `NextInv` puts them
together.

`KeepsContract` needs two facts more: a batch is no larger than its limit (`OldestIsBounded`, in
`StoreLemmas`, which SqlStore's sweeps need too: no two
of its rows have as many rows before them, and the pigeonhole principle does the rest), and no beat
carries an instant still to come (`BeatsArePast`, an invariant of its own). `FleetKeepsPromise` reads
an outcome from the status of a row and from the ids given out (`Became`), shows what each action
decides, and takes from `Earned` that what is answered was entered, and from `Fenced` and `Earned` that
what is entered is a number of the policy never entered before.

For Worker, `WorkerInv` adds to the three properties what a task is where it stands (`Tracked`): one that
is not over is in `running`, the pool has queued work only of a task that waits for it, and no thread
ever entered work that is still queued or was cancelled. From it everything the pool has work of is in
`running` or in `stranded` (`BusyIsCounted`), so what `free` leaves is room there really is when a claim
is sent. Between the question and the answer nothing but that claim adds work (`NothingBusier`), and so
`ThreadForEveryRun` stands when it is answered.

For Schedule, `ScheduleInv` accounts for every slot ever written (`Accounted`): its row is there, or was
called off, or its slot and the keep after it are past. A pass is no older than it may last (`Recent`),
so a pass that finds a key free for a slot still to come from its instant finds it free because
nobody wrote it or somebody called it off: that is `SlotWrittenOnce`, and the one place that needs
`PassLimit <= Keep`. `NoSlotPassedOver` takes arithmetic as well: what a process remembers is the slot
next after an instant no later than its pass, and between an instant and the slot next after it every
instant has that slot next (`SameSlot`), so a pass that does not ask the trigger passes nothing over. A
pass starts at the first task and moves one on at a time, so what is behind it stays written
(`Walked`, an invariant of its own), and where it ends nothing is ahead of it.

For SqlStore, a step of a call changes the call of one worker and at most some rows. What makes
`Lawful` go through is that between the reads of a sweep and its commit, the rows it locked still are
what it read: over or left, by the instant of its pass (`LocksStand`). Nothing may write them, so the
proof is that every other step leaves a locked row alone or is disabled by the lock, and that two
sweeps never hold one row (`LocksApart`). The contract also asks that a sweep take one batch; the code
has two statements of each kind and one limit, and `OneBatch` carries the count from the first half to
the commit. `TypeOK` keeps the instant of a call behind the clock, which is what the contract asks of the
instants it is handed. `NoRunIsStranded` rests on `SqlInv` and on itself: the number a row is running
under is in `handed`, in `taken` of a claim still going, or the row is in `lost`.

For RedisStore, `Indexed` alone is not inductive only for want of types: a reservation follows its hash
because each script that moves one moves the other, and an eviction is remembered in `evicted`.
`OnceAnswers` needs an account (`Owed`): at each place in store_once, as many holders of the key went
away since the call began as it asked in vain, and when it is about to be refused once more the
holder it was refused for still stands, or an eviction is to blame. Holders are counted, so the account
needs `WrittenOnce`, which says that an id that is gone never comes back. For `RedisKeepsContract`, the
ids a claim walks are finitely many and no more than its limit, and an id in a lane with no hash
is a ghost that the script skips; an invariant of its own (`Dated`) says that a caller writes a
run under an instant the contract knows. `ClaimsTheUrgent` counts what stands before a run in the
merge (`LeftBehind`): a more urgent run the claim left behind either was merged and had its limit of
runs before it, or was cut from its lane by no fewer (`LeadingFillsUp`), and all of those stand before
the run that was taken, which then was not.

For Cron, `CronInv` says of the loop what its docstring does: no minute the expression names is between
the instant and the candidate. It reads the expression as written (`Names`), so the lemmas first show
field by field that the parser's sets are that (`FieldNames`, from `Steps` for the tokens with a step, and
`DayNamed` for the day, with Sunday as 0 or 7). A day that is skipped moves the candidate to midnight,
and no minute is before it on the next day; time_on is the first minute of a day not before the
candidate. The count of days (`candidate.day + left`) makes `NothingIsGivenUpEarly`: what is given up was
looked at for all of `HORIZON`. `CronInv` is not an invariant of the run `cron`, where it would walk forty
years again at each candidate.

`EveryAcceptedIsReached` sets that beside what the parser let through. An accepted expression names some
month, a day that month may have, and a weekday that its two day fields allow together
(`AcceptedNamesADate`: each field names something, a day field written as a star names the 1st, and
`reachable` answers for the day when the weekday is a star). That date comes round within every forty
years (`ComesRound`: the last one before the window comes back inside it), and forty is less than
`HORIZON`.

For Recovery, `RecoveryInv` says of each row what the pass that will pick it up looks for (`Comes`): an
instant and not `NoInstant`, and an attempt left on a row that waits, which `exhausted` has to be asked
for on both ways back to the queue; a run given back has the attempt it was claimed under left. It
needs that a wait is a number (`WaitIs`), that a claim wins no more than it asks for (`WonIsBounded`), and
that an attempt left behind takes its thread out of what may be claimed (`AttemptsAreFew`). `HerdIsBroken` is arithmetic from
there: the growth is at least the
delay of the policy (`GrowthIs`), it is held under the ceiling before it is drawn over, so the draw fits
(`DrawnStaysUnder`) and two draws stay apart (`DrawsAreApart`). That `Doubled` is the function it is written
as is shown by least counterexample, without an induction theorem. `HourMeansDone` is `OldestFillsUp`: a
batch that leaves a row out is full, and a full batch does not start the hour. `BackOnlyUntried` is the
half of `RunsEnd` that needs no fairness: each change of status takes a run further (`Far`, and
`2 * max_attempts` is as far as it goes), or one step back over an attempt that was held and never begun
(`GivenBackIsUntried`). So a run that does not end is given back over and over, or is one nobody picks
up, and against that stand `RecoveryInv` and fairness.

Only model-checked: the liveness properties (`StopEnds`, `TimeoutFreesSlot`, `CallsEnd`, `RunsEnd`,
`BacklogDrains`), since fairness and ENABLED are out of the prover's reach. Every other property of a
passing run is proved. No module here declares a RECURSIVE operator, and no proof uses an induction
theorem of the library.

## Not modelled

* Input validation (names, keys, payloads, spans), json and datetime conversions, the texts of errors:
  pure functions of one value, with nothing to interleave.
* The asgi lifespan, which starts a worker and calls its `stop`: that call is Worker's `Stop`.
* `get`, `find` and `count` outside `store_once`: they change nothing. `setup` makes tables or does nothing.
* A run handed to `add` in a state other than pending, which nothing in the code does; an eviction of
  anything but a hash. The docs ask for a redis that evicts nothing, and what they say of one that does
  (`docs/stores.md:362-375`), that it takes the hash and leaves the set, is what is checked.
* `keep=None`, a worker that never prunes: it is a Tidy that never lands.
* Fractions: instants, spans and delays are whole numbers, and Retry rounds down where the code keeps a
  float.
* Clocks that disagree: `docs/workers.md:201-218` asks for them to be in sync, and one global clock is
  that. `started_at`, results and messages decide nothing.

## The plan

Done: Store; Fleet with Promise, Contract and their proofs; Worker and its proofs; Schedule and its
proofs; SqlStore, RedisStore with store_once, and Cron, with theirs; Recovery and Retry with theirs. All
safety the runs check is proved. What could still be added is more of the code: workers on the
database and on redis through to the promise, where today only the contract of the rows is shown, and
the checks of payloads and names, which are pure functions.
