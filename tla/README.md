# A formal model of the workflow scheduler

TLA+ specifications of the workflow scheduler in `src/`: the run queue in memory
and in sqlite, the worker pool around it, the scheduler that feeds it, the DAG
executor, the workflow stores, the API requests that submit, list and change
many things, and the cycle check of workflow validation. TLC checks them on
small instances (`*.cfg`), and TLAPS proves the safety properties of the queues,
the pool, the executor, the schedulers, submission, the listings and the cycle
check for every value of the constants. `PROJECT.json` lists components, runs, the mapping from
definitions to source lines, the hazards, the findings and the theorems.

    tlc -workers 2 -config queue.cfg MCRunQueue     # one run
    tlapm RunQueueProofs.tla                        # one proof module

## 1. The system

| Part | Source | State | Operations |
|---|---|---|---|
| run queue | `internal/queue/memory_queue.go`, `internal/store/sqlite_store.go` | table of jobs (status, attempts, lease owner and deadline, availability, counters), audit history per job | enqueue, lease, extend, complete, retry, fail, dead-letter, cancel, replay, purge; listings |
| worker | `internal/worker/service.go`, worker mode of `cmd/orchestrator/main.go` | drain flag; per job the lease snapshot, a heartbeat goroutine, a cancel watcher, the run context | poll and lease, execute, heartbeat, watch for cancellation, settle, drain |
| executor | `internal/engine/executor.go` | per run: dependency counts, blocked set, ready queue, active count, results, result channel, contexts | dispatch, skip, start a task, receive a result, time out, cancel, compensate, save |
| validation | `internal/engine/graph.go` | none (a depth-first search) | reject ill-formed and cyclic workflows |
| API | `internal/api/server.go` | configuration only | submit (sync, async, idempotent), cancel and delete, replay, purge, listings, retention loop |
| scheduler | `internal/scheduler/service.go` | schedules, running and paused flags, cron entries, leader lock file, schedule file | register, remove, pause, start, trigger |
| workflow stores | `internal/store/*.go` | workflows and runs in memory, in memory over a snapshot file, or in sqlite | save, get, list, load at start |
| the rest | actions, telemetry, loader, ids, flags | counters only | - |

How they interact. The API and the scheduler put jobs into the queue. Workers,
each a process with goroutines of its own, take jobs by lease and call the
executor with a context; the executor writes the run into the store when it
starts and when it ends; the worker then settles the job in the queue. A job and
its run are therefore two records written by separate calls. A client that
deletes a run writes both of them too. Nothing tells a worker that it lost its
lease: its heartbeat fails silently, and the methods that settle a job ask for
its status and not for the caller. Only sqlite shares a queue between processes;
the in-memory queue serves one process, and nothing feeds one that a worker
drains. The API handlers look first and act later, in calls of their own: a lookup and a submission, a listing
and a cancel, a page and its total, a read of a workflow and its save.

What is hard here: two attempts of one run at the same time after a lease
expired; a worker that dies between the two writes; settling with an old
snapshot; cancellation racing the end of a run; the select of the dispatch loop
with its context done and results waiting; dependency counts kept in four
branches; a run's own context used for its last save; retries and replays
counted once each; schedules replaced while their old loop is still in a call;
a lock file and a schedule file that outlive the processes that wrote them; a
status update and its history row in separate statements; a snapshot file that
is truncated before it is written; requests that are sent again; listings of a
table that changes between two pages.

What makes each part correct:

- queue: a job is leased exactly when it has an owner and a deadline; statuses
  follow one life cycle; history and counters explain the job;
- pool: one worker per run, a SUCCEEDED job has a SUCCESS run, attempts stay
  accounted for, a run is left RUNNING only by a cancel or an interruption, every
  job is settled;
- executor: bounded concurrency, nothing starts before or below what it must
  wait for, no task is forgotten, the final status is explained, compensation
  runs against the dependencies, every run returns whose texts do not refer to
  each other in a ring;
- scheduler: one leader, cron calls only under its lock, triggers that match the
  registered schedules, a running flag that neither sticks nor lets two calls in;
- validation: the verdict is right in every order of traversal, and is reached;
- sqlite queue: it promises what the memory queue promises, and its history lacks
  only what a fault cut off;
- stores and submission: an answer that was given stands after a restart, a key is
  executed once, an acknowledged edit is not lost, an accepted job ends;
- listings and bulk requests: no row is passed over or repeated without a change
  that explains it, page and total agree, a bulk answer says what was done.

## 2. Modules

| Module | Models | Composition |
|---|---|---|
| `JobLifecycle` | abstract: statuses of a job and the edges between them | - |
| `RunQueue` | `memory_queue.go`, every method that changes the table | implements `JobLifecycle` |
| `WorkerPool` | workers, run store as `processOne` sees it, API clients, retention, crash, drain, restart | extends `RunQueue` |
| `TaskGraph` | dependency graph of a workflow, `Acyclic` as reference definition | - |
| `CycleCheck` | `hasCycle` call by call | extends `TaskGraph` |
| `Executor` | `runWithID`, `runTask`, `runCompensation` and their helpers | extends `TaskGraph` |
| `SqliteQueue` | the queue of `sqlite_store.go`, statement by statement, with faults between statements | extends `RunQueue`, implements `JobLifecycle` |
| `RunStore` | `file_store.go` over `memory_store.go`, workflows and runs of `sqlite_store.go`, under several processes | - |
| `Submission` | POST /runs with an idempotency key, PUT and PATCH of a workflow, the worker and cancels of its jobs, kills and restarts | extends `RunStore` |
| `Listing` | listings, pages, envelopes, bulk cancel and requeue over jobs, runs and histories of both backends | uses `JobLifecycle` for what others do |
| `Scheduler` | `scheduler/service.go` in several processes, their life in `main.go`, the schedule handlers of the API; the queue as a count of unsettled jobs | - |
| `MCRunQueue`, `MCWorkerPool`, `MCExecutor`, `MCScheduler`, `MCSqliteQueue`, `MCSubmission`, `MCListing` | instances for TLC: symmetry, the sets of workflows, schedules and ids | extend the module they name |
| `RunQueueProofs`, `SqliteQueueProofs`, `SubmissionProofs`, `WorkerPoolProofs`, `ExecutorProofs`, `SchedulerProofs`, `ListingProofs`, `CycleCheckProofs` | theorems | extend the module they name |

Definitions whose comment starts with *Mutant* are wrong variants of the
definition that follows them. No specification uses them; they are there to show
that each property fails when the code is changed in a plausible way
(`PROJECT.json`, "mutants").

### RunQueue

Every method holds the queue's mutex from first to last line, so a method is one
action; a call that returns an error changes nothing and is a stutter. Time is
kept as distances from now (`leaseLeft`, `availableIn`, `idle`), because the code
only ever compares stamps with `time.Now()`; `Tick` lets a unit pass, and the
distances saturate where no comparison can tell further values apart.
`CreatedAt` orders the candidates and is a stamp chosen by the submitter before
it takes the lock. Ties in the unstable sorts are choices. Error texts, request
and run identifiers and the replay remarks are left out.

### WorkerPool

A worker is at `poll`, `leased`, `starting`, `running`, `returned` or `down`,
the points of `processOne` between its calls to the queue and the store. `held`
is the job as `LeaseNextRunJob` returned it, the snapshot the retry decision
uses later. The executor is seen from outside: the run is saved as RUNNING, ends
in some status, and that status is saved. Store and queue are those of sqlite, the
only ones that workers share with the API: a call with a cancelled context is
refused, a second cancel is refused, and any statement may fail by itself
(`Fault`). The code ignores the error of a settling call, of the first save of a
run and of the save of a deletion, and the model goes on as the code does: the job
stays LEASED, the run stays as it was. `interruptions` counts crashes, shutdowns
and failed statements together. `DELETE /runs/{id}` takes two steps, one for the
job and one for the run, as in the code. A crash drops everything the worker had
in memory.

`SubmitRun` is the enqueue at the end of an asynchronous POST /runs. The two
lookups before it are calls of their own whose answers may be old by then, and
their errors count as absence, so that nothing of what they saw restricts the
enqueue; only the primary key of the table does. The ghost `late` has the ids
enqueued when their run was already recorded. Synchronous requests are in
`Submission`.

`TimelyHeartbeats` is an assumption about the environment, not about the code:
when TRUE, time does not pass the deadline of a lease whose worker is alive, that
is, the heartbeat (at half the lease) or the settling call is made in time. With
FALSE a worker may stall for as long as it likes; `pool_live` does that.

`Backoff` is the delay of a retry in the code's 64-bit arithmetic, with the cap
of 30 seconds; past the limit of int64 a zero or negative delay is none.

### SqliteQueue

A method is a read of the row, an update on a condition on its status, and an
insert into `run_queue_transitions`; only the lease and the deletes of a purge
are transactions. Each statement is an action, `calls` says where a goroutine
is, and any other goroutine may act in between. `grant` is the job of a worker
from its lease to its settlement: a lease whose transition fails is committed,
but its worker never hears of it (`Orphaned`). `CallFails` ends a call after any
statement, `WorkerDies` and a lease that runs out under its worker are the other
faults. The rows and the updates of their columns are those of `RunQueue`; the
WHERE clauses are sqlite's own.

### RunStore and Submission

`mem` is what a `FileStore` answers from, `disk` the snapshot file or the
database. A save over the file backend is three steps: memory, truncation,
content; a kill between the last two leaves `Torn`, with which no process starts
again, and two processes that write at once may leave the bytes of both. With
sqlite a save is one statement, which a handler is refused once its client has
gone. `main` saves its workflow file over the stored workflow at every start.

A request goes through the calls of its handler. `incidents` records what the
handlers do not guard against: `overlap` (the key was under way or queued
elsewhere when the handler decided to go on), `strangers` (two processes over one
data directory), `misread` (an error of `GetRun` taken for "no such run"),
`unsaved` (the first save of a run failed, which `RunWithID` ignores) and `racing`
(a workflow read while another change of it was under way). Each property names
the incidents under which it does not hold; dropping any of them from the formula
gives a counterexample, so the formulas say exactly what clients can rely on.

The worker is `processOne` without time: a lease (of a queued job, or of one that
a dead worker or a failed settlement left LEASED), the lookup of the workflow,
whose error fails the job without a run, the validation, the two saves of
`RunWithID`, of which the first one's error is ignored and the last one's returned,
and the settlement, with a retry while attempts are left. Each statement may fail,
a client may cancel the job at any point, and the worker may be killed at any
point. `AcceptedJobEnds` is what remains true of an accepted job through all this.

### Listing

One request at a time over one table, and `OthersChange` between any two of its
calls: jobs move along `JobLifecycle`, runs are saved in any status and with any
start time, histories grow and go with their job. `table` selects the order of
the listing: `MemoryRunQueue` breaks ties by id, a history in memory is in the
order of its appends, the SQL queries and the sort of the memory store do not
break ties, so tied rows come in any order at every call. `left`, `came` and
`steady` remember how the listing changed while the request was served. Filters
on fields that never change are the `scope` of the request. A statement of a bulk
loop may fail over sqlite (`StatementFails`, `MovesUnlogged`), and the loop goes on
with the next id; `mistold` has the jobs that were changed before the error. Errors
of the list and count calls end the request and are left out.

### Executor

The maps of `runWithID` belong to one goroutine, so a turn of the inner loop, a
branch of the select and each later phase is one action. Task goroutines share
with it the result channel and the contexts. A workflow is chosen in `Init` and
never changes; sets of tasks stand for per-task flags. Durations are abstracted
to what they make possible: a timeout may strike at any time, a backoff may end
or be cut short. A text (an input, an output, an error) is abstracted to the tokens
in it and to whether it contains what a condition looks for: `templates` and `undo`
are the tasks named in the inputs of a task and of its compensation, `echoes` those
named in the output or the error of a result. `resolveValue` searches again from the
start after each replacement, so it meets the tokens it has inserted: `Scanned` is
the closure, `Unresolved` that one of them has no value, which is an error, and
`Circular` that one comes back to itself, where the search never ends
(`SpinTemplate`, `SpinCompensation`). A repeated entry in `DependsOn` counts up and
down alike and is not told apart. `SaveRun` may fail when the caller's context is
done. An action is any function that returns a success, an error of its own or,
when it may have seen one, a context error. `ClockSteps` says by how much the clock
may advance between two results; 0 gives results with one finishing time.

### Scheduler

A node is a process that is down, has loaded the schedule file, has registered
its schedule (schedule mode only), has started or is stopping. All processes use
the same lock file and the same schedule file; both are optional flags in the
code, and without a lock file every process leads. A method holds `s.mu`
throughout and is one action; `Start` takes the mutex again for each schedule and
has an action for each (`StartNext`), and `executeOnce` is a step that begins or
skips and a step that ends. `threads` are the goroutines: interval loops, calls
of the cron engine and startup calls. `live` marks a loop whose own context is
not cancelled; a cancelled one may still take a tick that is ready, because a Go
select with two ready cases takes either. `cronEntryIDs` and `intervalStop` are
the handles of `entries` and of the live loops and have no variable of their own.
A schedule that fails Register's tests of its fields is not in `Config`; an
expression that only `AddFunc` rejects is ("badcron"), for it stays registered and
persisted. Shutdown is three steps, the context, the engine and the lock, and the
process may be gone after any of them: `main` waits for none.
`CrashWhileSaving` leaves a file that does not decode. A save may also fail, which
leaves the file as it was or truncated, and so may a read; every caller discards the
error. `sole` is the process, if any, that has been the only one up since it booted,
and `stale` has the processes whose last access to the file failed:
`ScheduleFileIsCurrent` is about the first without the second. Intervals and times are
left out: a ticker may fire at any moment. The queue is seen as the number of
unsettled scheduled jobs per workflow, waiting or being executed; what happens to
a job there is the subject of `WorkerPool`.

### CycleCheck

The recursion of `dfs` is an explicit stack; a frame is a node and the dependents
it has not looked at. The iteration order of the map and of the adjacency lists
is a choice, which covers every listing of the tasks.

## 3. Runs

All passing runs finish with an empty queue of states. Bounds are constants of
the cfg files.

| Run | Instance | What it shows |
|---|---|---|
| `queue` | 2 jobs, 2 workers, 2 leases and 1 replay per job, history kept | leases consistent, history and counters explain the job, life cycle implemented, for any clients in any order |
| `pool_safety` | 2 jobs, 2 timely workers, 1 crash, drain or failed statement, purges of SUCCEEDED jobs | exclusive execution, SUCCEEDED implies SUCCESS, attempts accounted for, a SUCCESS is rerun only after an interruption or a late enqueue, a run left RUNNING belongs to a cancelled job or an interruption, a deleted run is not taken again |
| `pool_live` | 1 job, 2 workers that may stall, 1 crash or drain of one of them or 1 failed statement, purges of anything | every job is settled; attempts stay below workers x permitted tries + interruptions |
| `executor` | 4 tasks: diamond, two chains, reversed IDs, a ring, with concurrency 1 and 2, fail-fast, an allowed failure, compensation; branches and a join, output conditions, templates, outputs with tokens (harmless, unknown and circular ones), delays, retries, timeouts; results at one time or one after the other | concurrency, order of starts, no forgotten task, explained status, order of compensation, one branch runs, every run returns but for rings of texts |
| `scheduler` | a serving process with an interval and a cron schedule, and one in schedule mode with a schedule that `AddFunc` rejects; one workflow without overlap; 2 trigger goroutines per process; reads and writes of the schedule file that fail | one leader, cron calls end under the lock, triggers match registrations, the running flag is exact, the schedule file of a process that is alone is what it has in memory, until an access to it fails |
| `sqlite` | 1 job, 2 workers, 1 handler, 2 submissions or faults | the same jobs leased as by the memory queue, history complete up to the faults, orphaned leases taken again |
| `submission` | 2 handlers in 2 processes, 1 key, 2 fields of a workflow, 3 requests, 1 fault (of a process, a write, a statement, the worker), 2 attempts per job, any cancels, either backend | an answer stands, a key runs once, edits are kept, accepted jobs end |
| `listing` | 2 rows with 2 stamps in 6 kinds of tables, page sizes 1 and 2, 2 changes by others or failed statements during a request | a walk misses or repeats only what a change moved, totals agree with pages, bulk answers are true, every request is answered |
| `cycles` | all 512 graphs over 3 tasks | the verdict is right and reached |

What TLAPS proves and a run would only repeat is not in the cfg files: the type
invariants of the proved modules, `LeaseHeldWhileExecuting`, `ColoursMatchStack`,
and for sqlite `LeaseConsistent` and `ImplementsLifecycle`.

Runs that end in a counterexample, each against a sentence of the repository's
documents (section 6): `lost_success`, `overlap`, `failover`.

Why the bounds are enough to be interesting: two workers are what it takes for
one to lose a lease to the other; two jobs are what the choice of the oldest
candidate and the limit of a purge need; a limit of two attempts has a retry and
a dead letter; four tasks hold a diamond, whose join waits for a failing and a
succeeding branch; two processes contend for a lock, and two goroutines are a
replaced loop, still in its call, and its successor. In `sqlite` one row is enough,
because no method but the choice of a lease looks at two, and two workers and a
handler give three calls to interleave. Three requests are a first one, its repeat
and one of another kind, and one fault is a kill at any point. Two rows are a page
and the one after it; two changes move a row across the border of a page and back.
The bound on changes is also what `RequestAnswered` needs: a table that grows by a
full page per call would keep a walk going. `pool_safety` lets a job be purged as soon
as it is settled (`PurgeAges = {0}`, `MaxIdle = 0`), the worst case for an enqueue
that comes late. No schedule of the
`scheduler` run allows overlap: with one that does, the flag counts nothing. The
queue's counters and histories for any bound are the
subject of the proofs.

Deadlock is checked in the executor run (`Terminated` is the only way to stay)
and in `queue` and `scheduler`. In the pool runs an idle pool with nothing left to do is a
legitimate end, and so are a verdict in `cycles`, an answer in `listing`, and the
bounds on events and requests in `sqlite` and `submission`.

### Fairness

- `FairPoolSpec`: weak fairness of `Progress(w)` for each worker and of time. A
  worker that is up polls on a ticker, and each call it makes returns (tasks end
  by themselves or by their timeouts). A crashed worker has no enabled step.
  Nothing is assumed of clients, restarts, heartbeats or the cancel watcher.
- `FairSpec` of the executor: weak fairness of the main goroutine and of each
  task goroutine. The Go scheduler runs every runnable goroutine, timers fire,
  and actions return. Neither a cancellation nor a timeout is assumed.
- `SchedFairSpec` (run `failover`): weak fairness of what a living process does by
  itself, that is of `Start`, of its shutdown and of its goroutines. Nobody has to
  boot, stop or call a process.
- `FairSqlSpec`: weak fairness of time, of every call that has begun, and of
  polling and settling by each worker. API calls need not come, faults need not
  stop before their bound.
- `FairSubSpec`: weak fairness of the worker's steps; nothing of clients and of
  serving processes.
- `FairListSpec`: the handler's next call returns; nothing of the others.
- `CycleSpec`: a sequential function keeps going.

## 4. Proofs

| Theorem | Statement | Assumes |
|---|---|---|
| `QueueTypeCorrect` | `Spec => []TypeOK` | the assumptions of `RunQueue` |
| `LeasesConsistent` | `Spec => []LeaseConsistent` | same |
| `LifecycleImplemented` | `Spec => ImplementsLifecycle` | same |
| `HistoryCorrect` | `Spec => []HistoryMatchesState` | same |
| `CountersCorrect` | `Spec => []CountersAudited` | same |
| `SqlTypeCorrect` | `SqlSpec => []SqlTypeOK` | the assumptions of `RunQueue` and `SqliteQueue` |
| `SqlLeasesConsistent` | `SqlSpec => []LeaseConsistent` | same |
| `BackendsAgreeOnLeases` | `SqlSpec => []BackendsLeaseAlike` | same |
| `SqlLifecycleImplemented` | `SqlSpec => ImplementsLifecycle` | same |
| `HistoryComplete` | `SqlSpec => []AuditComplete` | same |
| `PoolTypeCorrect` | `PoolSpec => []PoolTypeOK` | the assumptions of `WorkerPool` |
| `LeaseHeldThroughout` | `PoolSpec => []LeaseHeldWhileExecuting` | as the next one |
| `ExclusionHolds` | `PoolSpec => []ExclusiveExecution` | `TimelyHeartbeats`, and purges that are only made of statuses no job in use can have (`PurgeSparesUse`) |
| `SuccessIsRecorded` | `PoolSpec => []SucceededJobHasSuccessfulRun` | same |
| `AttemptsBounded` | `PoolSpec => []AttemptsAccounted` | same |
| `SuccessIsFinal` | `PoolSpec => SuccessIsNotRerun` | same |
| `DeletionIsFinal` | `PoolSpec => DeletedRunNotTakenAgain` | no purge takes CANCELLED jobs |
| `RunsLeftRunning` | `PoolSpec => []RunLeftRunningIsExplained` | no purge takes CANCELLED jobs |
| `AttemptsBoundedWithStalls` | `PoolSpec => []AttemptsAccountedWithStalls` | finitely many workers, no purges |
| `ExecutorTypeCorrect` | `Spec => []TypeOK` | the assumptions of `Executor` |
| `ConcurrencyIsBounded` | `Spec => []ConcurrencyBounded` | same |
| `TasksStartAfterUpstream` | `Spec => []StartsAfterUpstream` | same |
| `NoTaskIsForgotten` | `Spec => []NoTaskForgotten` | same |
| `EndStatusExplained` | `Spec => []EndStatusIsExplained` | same |
| `OnlyOneBranchRuns` | `Spec => []OneBranchRuns` | same |
| `CompensationIsReversed` | `Spec => []CompensationReversesUpstream` | same |
| `TemplatesEnd` | `Spec => []SpinsOnlyOnRing` | same |
| `SchedTypeCorrect` | `SchedSpec => []SchedTypeOK` | the assumptions of `Scheduler` |
| `LeaderUnique` | `SchedSpec => []OneLeader` | same |
| `CronUnderLock` | `SchedSpec => []CronRunsUnderLock` | same |
| `ScheduleFileCurrent` | `SchedSpec => []ScheduleFileIsCurrent` | same |
| `TriggersMatch` | `SchedSpec => []TriggersMatchRegistrations` | same |
| `RunningFlagCorrect` | `SchedSpec => []RunningFlagExact` | same |
| `SubTypeCorrect` | `SubSpec => []SubTypeOK` | the assumptions of `RunStore` and `Submission` |
| `ToldRunsStand` | `SubSpec => []ToldRunStands` | same |
| `KeysExecutedOnce` | `SubSpec => []ExecutedAtMostOnce` | same |
| `AcknowledgedPatchesKept` | `SubSpec => []PatchesKept` | same |
| `BulkReports` | `ListSpec => []BulkReportsWhatItDid` | the assumptions of `Listing` |
| `ListingTypes` | `ListSpec => []ListTypeOK` | same |
| `EnvelopesAgree` | `ListSpec => []EnvelopeAgrees` | same |
| `WalksReturnEachOnce` | `ListSpec => []WalkReturnsEachOnce` | same |
| `ColoursMeanStack` | `CycleSpec => []ColoursMatchStack` | at least one task |
| `HasCycleCorrect` | `CycleSpec => []VerdictCorrect` | at least one task |

*Queue.* `QueueStep` is any method called with any arguments, so that the same
lemmas serve `Spec` and `PoolSpec`. `StepForms` reduces it to three forms: `Write`
changes one job along one of the permitted `Edges` and appends the matching
history entry, `Touch` changes jobs without their status, and the third deletes.
`QueueInv` adds to the type and to `LeaseConsistent` that an absent job is blank,
which a resubmission after a purge needs. The four theorems follow form by form;
the history and the counters are carried through an append by `HistoryAppended`
and `EntriesAppended` (cardinality of the entries of a kind).

*Pool.* Exclusive execution is not inductive: nothing in it prevents a second
lease. `LeaseHeldWhileExecuting` supplies the reason: a job in use is LEASED to
that worker with time left, or CANCELLED, and so is not leasable. It survives a
tick because of timely heartbeats, a settle because the settling worker is the
only one, and a purge by assumption. Both assumptions are needed: with
`TimelyHeartbeats = FALSE`, or with LEASED among the purged statuses, TLC finds a
run of two workers on one job.

The other theorems of the pool rest on effect lemmas, one per action
(`LeaseEffect`, `SettleEffect`, `RunEffect`, ...), which say what a step does to
one job, its run and its workers; `PoolStepCases` lists them. On top of exclusion,
`ResultInv` says what holds between the save of a run and the settling of its job;
`AttemptInv` that a job which may be leased again has an attempt left, and that the
snapshot a worker decides on is still true; `RerunInv` that only the worker that
saved a SUCCESS still holds the job, unless there was an interruption or the id is in
`late`. `TimelyInv` is all of them together.
`DeletedInv` and `RunningInv` need neither timely workers nor exclusion, and their
theorems are stated without: a CANCELLED job has no way out but a purge, and a run
recorded as RUNNING has a worker that will save its end, or whose context was closed
because the job is CANCELLED; that job stays CANCELLED, so the run stays explained
after the worker is gone.
For slow workers `StallInv` keeps a ledger: between two times a job is put back,
each worker leases it once at most, and putting it back uses up a snapshot below
the limit. A purge breaks the ledger: it frees an identifier that late workers still
hold, and a resubmitted job then inherits their retries. TLC finds this with three
workers and a purge of everything; with the two of `pool_live` the bound still holds.

*Executor.* `LoopInv` is the inductive invariant of the dispatch loop: the three
counters equal the cardinalities of the sets they stand for (`CountsInv`), the ready
slice holds exactly the tasks that are due, each once (`ReadyInv`), goroutines,
channel and results agree (`GoroutineInv`, `ChannelInv`), a blocked task stays
blocked down the graph (`GraphInv`). `EndInv` carries what outlives the loop: slots,
branches, statuses, times and compensations. No task is forgotten because a set of
unresolved tasks in an acyclic graph has a member that waits for none of the others;
that member is due, so it is in the ready slice or running, and the loop is not over.
Nothing upstream of a started task is running (`SettledInv`), which orders the
finishing times along the graph and so the compensations, which are sorted by them.
With equal times the sort falls back on task IDs, which is the exception that
`CompensationReversesUpstream` names; without it TLC finds an upstream task undone
first. `TemplatesEnd` is the safety half of `RunReturns`: if the search goes on for
ever, the tokens reached from the one that comes back to itself are a set in which
each refers to another, so the references are not acyclic.

*Sqlite queue.* `RowsInv` has the type of the rows, that an absent row is blank,
the lease fields of `LeaseConsistent`, and that a LEASED row has no delay left:
with the last two the WHERE clauses of the two backends agree. `CallsInv` says that
a call with a statement left knows its job. A call that
is at its update knows nothing of the row, so its step is proved from the
condition of the UPDATE alone: that is the argument that a stale first read does
no harm. The bag of transitions is carried as a bag of well-typed rows.

`AuditInv` is about one job at a time. The history owes the job its counters: the rows
of a kind and the calls that are about to append one (`Total`) are, with the faults, at
least the attempts and the replays. `AuditComplete` itself is not inductive in what it
says of the present status: the pending call that accounts for a LEASED status has to be
the owner's (`Held`), or its row would name somebody else. To the history a step is
`Quiet` (nobody who is about to append is disturbed), `Changed` (one row was rewritten
and the call that did it now owes the entry), an append, a failure, which costs one entry
at most, or a delete, after which nothing is owed: the entries that late calls then
append to a resubmitted job are more than enough, never too few. Rows are counted as
numbered copies (`Copies`), since the cardinality of a bag is a recursive sum.

*Scheduler.* `SchedInv` is the type invariant in parts, `OneLeader`, the same fact
for cron calls over all slots, and `EngineUnderLock`: the cron engine of a process
runs only while it leads. That last part is what makes `CronRunsUnderLock`
inductive, for a call begins because the engine runs, and the lock goes only when
the engine is off and no call of it is left. `QueueBounded` (waiting and executing
together) is needed to keep each count within its type. `ScheduleFileIsCurrent` is
inductive beside the type: a process that is alone and whose last access succeeded
wrote the file last, or read it and has changed nothing since.

`TriggerInv` is about one process at a time (`ProcOK`), for a step changes one only
(`OthersUntouched`). Its trigger part: before Start there is no goroutine; every
entry and every live loop belongs to a registered schedule, one loop per workflow;
a leader has a trigger for every schedule that is not still in `todo`. Its flag part,
where no schedule offered to any process allows overlap: a call inside keeps the flag
up, and is the only one. That a schedule which allows overlap cannot come in through
the schedule file of another process is `OfferOK` with `FileOffered`. A re-registration
cancels the old loop but not the call it is in; the slot lemmas (`StoppedSlot`,
`StartedSlot`) show that neither it nor the new loop changes who is inside.

*Submission.* `SubInv` adds to the types that a request in flight belongs to a
process, that the end of a run is saved only with a final status, that the worker
is busy over sqlite only, and that nobody flushes a database, so that it is a
whole document at every moment while the file may be `Torn`. `BaseInv` adds what no
incident disturbs: a handler lives in a process that serves, a flush writes what its
handler has put into memory, and a data directory without strangers has one process.
The steps of the worker and the cancels (`Backstage`) change no more than queue,
worker and the run of the worker's key. Each property then has its fact under the absence of its
incidents: `KeyInv` (at most one request or worker is at work on a key, and what was
told is what every store and a restart show), `BegunInv` (a key that was begun is
shown by the store, so a later lookup finds it), `PatchInv` (at most one change of the
workflow is under way, and it has read every acknowledged edit). `Shows(k, V)` states
"every place a lookup may read, now or after a restart, has the run in V", file and
database alike, and is what a save must preserve through truncation and kill.

*Listings.* Every page is a slice of an order of the rows listed (`PageFacts`). That is
the definition of a page but for the runs of one status in `SQLiteStore`, where a loop
passes over all runs and keeps the matching ones (`Scan`, a recursive function). There
it is `ScanIsSlice`, by induction over the rows passed: what the loop has after n rows
is what a slice of the matching ones among them has (`Passed`, `Kept`). The induction
itself (`UpTo`) is the least element of the set of numbers where the claim fails, which
`WFMin` and the well-foundedness of strict inclusion give. `TableInv` and `RequestInv` are
the types and what a request has not touched yet at each of its steps. `BulkInv`
follows the loop of a bulk request: the ids already passed are exactly the ones
reported, and each of them was moved by the request, is CANCELLED, was purged since,
or met an error after the change.
For pages, `PageInv` bridges the two calls: the rows listed now together with those
that left are at least what the page showed, and the rows listed now without those that
came are no more than a page that is not full showed. For walks, the rank of a row is
the number of listed rows before it (`Before`). Without ties it is the place of the row
in every order the query may return (`PlaceIsRank`); a row that leaves lowers it, one
that comes raises it. `RowWalked` says on which side of the offset a row is that was, or
was not, returned yet, and it is what every page preserves.

*Cycle check.* `CycleInv` is the type, `ColoursMatchStack`, `CallsWithin`,
`CallsProgress` and `VisitedAcyclic`. A node met while it is being visited closes
a cycle, the set of nodes from it to the top of the stack (`BackEdgeIsCycle`). A
node that is left waits for no visited node, or it would itself be visited
already: it can go first in every set of visited nodes it joins
(`LeaveKeepsVisitedAcyclic`). When the loop is over every node is visited, so the
whole graph is acyclic.

Only model-checked: all liveness (TLAPS handles neither fairness nor ENABLED):
`EveryJobSettles`, `RunReturns`, `OrphanIsTakenAgain`, `AcceptedJobEnds`,
`RequestAnswered`, `VerdictReached`.
Modules that theorems use declare no RECURSIVE operator; the loops of the code are
steps of actions or recursive functions there.

## 5. Not modelled

- The text of templates: a text is the set of tokens in it. A token that comes about
  only where an inserted text meets the text around it (`$` and then `{...}`), and an
  inserted text that opens a token without closing it, are not told apart from a
  token or an error.
- Telemetry: counters and spans that nothing in the program reads back. A scrape
  may see half of an update.
- HTTP routing, tokens, JSON decoding, validation of request fields, YAML loading,
  random identifiers, flags, port selection: parsing, with no state the protocol
  depends on.
- Run mode of the command line: one run without queue, store and API.
- Schema migration of sqlite: the initial state of the tables.
- Store errors where the call changes nothing and the handler answers with the error:
  the list and count calls in `Listing`, a failed submission or cancel. A failed
  heartbeat or a failed look of the cancel watcher is a step not taken. Errors that the
  code ignores and goes on from are modelled: of the worker's settlements, of the first
  save of a run, of lookups that count as absence, of the save of a deletion, of
  reading and writing the schedule file.
- Errors of creating and removing the lock file other than that it exists.
- POST /workflows, which saves a new workflow as PUT does, and the pages of the
  workflow list, which is read in one call.

## 6. Findings

Each is a run with a counterexample:

1. `lost_success`: a success that is still in the channel when the loop sees its
   context done is recorded as SKIPPED and not compensated.
2. `overlap`: `executeOnce` holds its running flag only while it enqueues, so two
   runs of a schedule without overlap are executed side by side.
3. `failover`: a process that does not get the lock in `Start` never tries again.

Seen while modelling, and reproduced by changing one constant of `pool_safety`: a
worker that lost its lease completes the attempt of another, and the job is SUCCEEDED
while its run is RUNNING (`SucceededJobHasSuccessfulRun` with
`TimelyHeartbeats = FALSE`).

Seen while modelling, and stated by a property or a note in the hazards:

- the last save of a cancelled run uses the cancelled context and is refused by
  sqlite: the job is CANCELLED and the run stays RUNNING, where `src/TESTING.md:478`
  expects "Run transitions to `CANCELLED`" (`RunLeftRunningIsExplained` has this as
  the only way besides an interruption);
- a request that looked up its key before the run was recorded, and enqueues after
  the job was purged, starts a finished run again (`late` in `SuccessIsNotRerun`);
- outputs that refer to each other in a ring keep `resolveValue` going for ever, in
  the dispatch loop, where no timeout is looked at (`RunReturns`);
- results with one finishing time are compensated by descending ID, upstream first
  or not (`CompensationReversesUpstream`), where `src/README.md:16` promises reverse order;
- `persistLocked` may fail and its callers report a success (`stale` in
  `ScheduleFileIsCurrent`);
- the executor's last save overwrites the CANCELLED that `DELETE /runs/{id}`
  wrote; what does hold is `DeletedRunNotTakenAgain`;
- `LeaseNextRunJob` does not look at `MaxAttempts`, so each interruption may add
  an attempt beyond the limit (`AttemptsAccounted` has the exact bound);
- the dispatch loop starts what is ready after fail-fast was triggered;
- a registration on a standby starts its loop at once; the lock file stays when
  `main` returns before `releaseLeaderLock`; two processes overwrite each other's
  schedule file (the reason for `sole`);
- two synchronous requests with one key, or a synchronous one beside a queued job,
  execute it twice (the incident `overlap`); an error of `GetRun` counts as "no
  such run" (`misread`);
- two patches of a workflow that overlap lose one (`racing`); every start of a
  process undoes the edits of its workflow (`BootProcess`);
- a kill between truncation and content of `snapshot.json` leaves a store no
  process can open (`Torn`);
- a cancel of a CANCELLED job succeeds in memory and is rejected by sqlite
  (`CancelJob` of `Listing`);
- a walk by offset passes over rows when rows before them leave the listing, and
  sqlite's listings and those of runs may repeat and skip tied rows in a quiet
  table, because nothing breaks ties (`WalkReturnsEachOnce`).

Not modelled, noted in passing: a job status in lower case passes the validation
of a filter and then matches nothing (`api/server.go:599`); the dry run of a purge
does not apply the default limit of the purge (`api/server.go:906`); in serve mode
with the file backend nobody executes the queue; `listAllRunJobsPaged` has no
caller.

## 7. Plan

Done: 1. queue and life cycle; 2. worker pool; 3. executor; 4. cycle check;
5. scheduler; 6. sqlite queue; 7. stores and submission; 8. listings and bulk
requests; 9. the proofs of section 4.

Next:

10. The safety half of liveness: for the cycle check and a run of the executor, a
    measure that every step lowers and a form of "some step is possible until the end"
    that needs no ENABLED.
