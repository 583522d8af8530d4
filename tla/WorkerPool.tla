----------------------------- MODULE WorkerPool -----------------------------
(***************************************************************************)
(* The worker processes of internal/worker/service.go around one RunQueue: *)
(* each leases a job, executes its run, keeps the lease alive, watches for *)
(* a cancellation and settles the job, while API clients submit, cancel,   *)
(* replay and purge jobs and workers crash, drain and restart.             *)
(*                                                                         *)
(* The engine is seen from here as processOne sees it: RunWithID saves the *)
(* run as RUNNING, ends in some status, and saves that; Executor models    *)
(* what happens inside.  A job and its run have one identity (job id =     *)
(* "job-" + run id), so the run store is indexed by Jobs.                  *)
(*                                                                         *)
(* The store and the queue are SQLiteStore, the only one that worker       *)
(* processes can share with the API: a call made with a cancelled context  *)
(* fails (database/sql refuses it), cancelling a CANCELLED job is refused, *)
(* and any statement may fail by itself.                                   *)
(***************************************************************************)
EXTENDS RunQueue

CONSTANTS
    NoJobID,            \* no job held
    Interruptible,      \* the workers that may crash or be shut down
    MaxInterruptions,   \* bound: crashes, shutdowns and failed statements
    MaxBackoff,         \* the 30 s cap on the retry backoff, in ticks
    TimelyHeartbeats    \* TRUE: no live worker is ever slower than its lease

VARIABLES
    pc,             \* where each worker is in processOne
    held,           \* the job LeaseNextRunJob returned to each worker: a snapshot
    runCancelled,   \* runCancel() was called for the worker's current run
    ended,          \* what RunWithID returned to the worker
    shutdown,       \* the worker's shutdown: "no", "draining", "cancelled"
    runs,           \* the status of every run in the WorkflowStore
    deleting,       \* progress of DELETE /runs/{id} for every run
    late,           \* ghost: the ids enqueued when their run was already recorded
    interruptions   \* crashes, shutdowns and failed statements so far

workerVars == <<pc, held, runCancelled, ended, shutdown>>
poolVars == <<queueVars, workerVars, runs, deleting, late, interruptions>>

ASSUME PoolAssumption ==
    /\ NoJobID \notin Jobs
    /\ Interruptible \subseteq Workers
    /\ MaxInterruptions \in Nat
    /\ MaxBackoff \in 1 .. 30
    /\ TimelyHeartbeats \in BOOLEAN

RunStatuses == {"none", "RUNNING", "SUCCESS", "FAILED", "CANCELLED"}
Idle == {"poll", "down"}
Busy == {"leased", "starting", "running", "returned"}
Outcomes == {"none", "SUCCESS", "FAILED", "CANCELLED", "ERROR"}

Snapshot == [job : Jobs \cup {NoJobID}, attempts : Nat, maxAttempts : Nat]
NoHold == [job |-> NoJobID, attempts |-> 0, maxAttempts |-> 0]

PoolInit ==
    /\ Init
    /\ pc = [w \in Workers |-> "poll"]
    /\ held = [w \in Workers |-> NoHold]
    /\ runCancelled = [w \in Workers |-> FALSE]
    /\ ended = [w \in Workers |-> "none"]
    /\ shutdown = [w \in Workers |-> "no"]
    /\ runs = [j \in Jobs |-> "none"]
    /\ deleting = [j \in Jobs |-> "no"]
    /\ late = {}
    /\ interruptions = 0

(* The worker's own context, and the run's context derived from it. *)
WorkerCtxDone(w) == shutdown[w] = "cancelled"
RunCtxDone(w) == runCancelled[w] \/ WorkerCtxDone(w)

(* database/sql refuses a call made with a context that is done. *)
Refused(done) == done

(* A statement fails by itself: the database is busy, full or unreachable. *)
Fault ==
    /\ interruptions < MaxInterruptions
    /\ interruptions' = interruptions + 1

-----------------------------------------------------------------------------
(* processOne *)

(* LeaseNextRunJob; the loop of Start leases nothing while draining. *)
Lease(w, j) ==
    /\ pc[w] = "poll"
    /\ shutdown[w] = "no"
    /\ LeaseNextRunJob(w, j)
    /\ pc' = [pc EXCEPT ![w] = "leased"]
    /\ held' = [held EXCEPT ![w] = [job |-> j, attempts |-> jobs[j].attempts + 1,
                                    maxAttempts |-> jobs[j].maxAttempts]]
    /\ UNCHANGED <<runCancelled, ended, shutdown, runs, deleting, late, interruptions>>

(* processOne returns: the heartbeat and the watcher are gone. *)
Release(w) ==
    /\ pc' = [pc EXCEPT ![w] = "poll"]
    /\ held' = [held EXCEPT ![w] = NoHold]
    /\ runCancelled' = [runCancelled EXCEPT ![w] = FALSE]
    /\ ended' = [ended EXCEPT ![w] = "none"]
    /\ UNCHANGED shutdown

(* A settling call of processOne.  Its error is ignored, whether the context *)
(* is done, the job is not as the call wants it, or the statement fails.     *)
Attempted(w, call, possible) ==
    \/ ~Refused(WorkerCtxDone(w)) /\ possible /\ call /\ UNCHANGED interruptions
    \/ (Refused(WorkerCtxDone(w)) \/ ~possible) /\ UNCHANGED <<queueVars, interruptions>>
    \/ Fault /\ UNCHANGED queueVars

JobIsLeased(w) == jobs[held[w].job].status = "LEASED"

(* GetWorkflow fails: the workflow is gone, the context is done, or the     *)
(* statement fails.  (LeaseNextRunJob that commits the lease and then fails  *)
(* to append it to the history also ends here, as a Lease whose FailRunJob   *)
(* failed: the job is LEASED and no worker is on it.)                        *)
WorkflowMissing(w) ==
    /\ pc[w] = "leased"
    /\ Attempted(w, FailRunJob(held[w].job), JobIsLeased(w))
    /\ Release(w)
    /\ UNCHANGED <<runs, deleting, late>>

(* GetWorkflow succeeds: the heartbeat and the cancel watcher start. *)
WorkflowFound(w) ==
    /\ pc[w] = "leased"
    /\ ~Refused(WorkerCtxDone(w))
    /\ pc' = [pc EXCEPT ![w] = "starting"]
    /\ UNCHANGED <<queueVars, held, runCancelled, ended, shutdown, runs, deleting, late, interruptions>>

(* RunWithID: ValidateWorkflow refuses the workflow. *)
WorkflowInvalid(w) ==
    /\ pc[w] = "starting"
    /\ pc' = [pc EXCEPT ![w] = "returned"]
    /\ ended' = [ended EXCEPT ![w] = "ERROR"]
    /\ UNCHANGED <<queueVars, held, runCancelled, shutdown, runs, deleting, late, interruptions>>

(* RunWithID: the run is saved as RUNNING; the error of SaveRun is ignored. *)
RunStarts(w) ==
    /\ pc[w] = "starting"
    /\ pc' = [pc EXCEPT ![w] = "running"]
    /\ \/ /\ runs' = IF Refused(RunCtxDone(w)) THEN runs
                      ELSE [runs EXCEPT ![held[w].job] = "RUNNING"]
          /\ UNCHANGED interruptions
       \/ Fault /\ UNCHANGED runs
    /\ UNCHANGED <<queueVars, held, runCancelled, ended, shutdown, deleting, late>>

(* Mutant: RunWithID returns before the last save when the run failed. *)
RunEnds_DropsFailed(w, s) ==
    /\ pc[w] = "running"
    /\ pc' = [pc EXCEPT ![w] = "returned"]
    /\ IF Refused(RunCtxDone(w)) \/ s = "FAILED"
       THEN /\ ended' = [ended EXCEPT ![w] = "ERROR"]
            /\ UNCHANGED runs
       ELSE /\ ended' = [ended EXCEPT ![w] = s]
            /\ runs' = [runs EXCEPT ![held[w].job] = s]
    /\ UNCHANGED <<queueVars, held, runCancelled, shutdown, deleting, late, interruptions>>

(* RunWithID ends in status s (CANCELLED also by the workflow's own timeout) *)
(* and saves the run; when the save fails RunWithID returns the error.  The  *)
(* context of the save is the run's own, done when the run was cancelled.    *)
RunEnds(w, s) ==
    /\ pc[w] = "running"
    /\ pc' = [pc EXCEPT ![w] = "returned"]
    /\ \/ /\ ~Refused(RunCtxDone(w))
          /\ ended' = [ended EXCEPT ![w] = s]
          /\ runs' = [runs EXCEPT ![held[w].job] = s]
          /\ UNCHANGED interruptions
       \/ /\ (Refused(RunCtxDone(w)) /\ UNCHANGED interruptions) \/ Fault
          /\ ended' = [ended EXCEPT ![w] = "ERROR"]
          /\ UNCHANGED runs
    /\ UNCHANGED <<queueVars, held, runCancelled, shutdown, deleting, late>>

(* 1 << (attempts-1) seconds in int64 nanoseconds.  10^9 is 2^9 * 1953125:   *)
(* the sign bit is bit 55-attempts of 1953125, and nothing is left from 56   *)
(* attempts on.  A delay that is zero or negative passes the cap, and the    *)
(* job is available at once.                                                 *)
Overflows(attempts) ==
    \/ attempts >= 56
    \/ attempts >= 35 /\ (1953125 \div 2 ^ (55 - attempts)) % 2 = 1

Backoff(attempts) ==
    CASE Overflows(attempts) -> 0
      [] attempts \in 1 .. 30 /\ 2 ^ (attempts - 1) \in 1 .. MaxBackoff -> 2 ^ (attempts - 1)
      [] OTHER -> MaxBackoff

JobIsCancellable(w) ==
    Exists(held[w].job) /\ jobs[held[w].job].status \notin {"SUCCEEDED", "CANCELLED"}

(* Mutant: only FAILED is told apart from a success. *)
SettleSuccess_IgnoresCancelled(w) ==
    /\ ended[w] \in {"SUCCESS", "CANCELLED"}
    /\ Attempted(w, CompleteRunJob(held[w].job), JobIsLeased(w))

SettleSuccess(w) ==
    /\ ended[w] = "SUCCESS"
    /\ Attempted(w, CompleteRunJob(held[w].job), JobIsLeased(w))

SettleCancelled(w) ==
    /\ ended[w] = "CANCELLED"
    /\ Attempted(w, CancelRunJob(held[w].job), JobIsCancellable(w))

(* Mutant: off by one in the attempts left. *)
SettleRetry_OffByOne(w) ==
    /\ ended[w] \in {"FAILED", "ERROR"}
    /\ held[w].attempts <= held[w].maxAttempts
    /\ Attempted(w, RetryRunJob(held[w].job, Backoff(held[w].attempts)), JobIsLeased(w))

(* Mutant: the attempts left are not looked at. *)
SettleRetry_Always(w) ==
    /\ ended[w] \in {"FAILED", "ERROR"}
    /\ Attempted(w, RetryRunJob(held[w].job, Backoff(held[w].attempts)), JobIsLeased(w))

SettleRetry(w) ==
    /\ ended[w] \in {"FAILED", "ERROR"}
    /\ held[w].attempts < held[w].maxAttempts
    /\ Attempted(w, RetryRunJob(held[w].job, Backoff(held[w].attempts)), JobIsLeased(w))

SettleDead(w) ==
    /\ ended[w] \in {"FAILED", "ERROR"}
    /\ held[w].attempts >= held[w].maxAttempts
    /\ Attempted(w, DeadLetterRunJob(held[w].job), JobIsLeased(w))

(* RunWithID has returned; processOne settles the job and returns. *)
SettleJob(w) ==
    /\ pc[w] = "returned"
    /\ SettleSuccess(w) \/ SettleCancelled(w) \/ SettleRetry(w) \/ SettleDead(w)
    /\ Release(w)
    /\ UNCHANGED <<runs, deleting, late>>

(* The heartbeat goroutine: every leaseDuration/2 it extends the lease. *)
Heartbeat(w) ==
    /\ pc[w] \in {"starting", "running", "returned"}
    /\ ~Refused(WorkerCtxDone(w))
    /\ ExtendRunJobLease(w, held[w].job)
    /\ UNCHANGED <<workerVars, runs, deleting, late, interruptions>>

(* The watcher goroutine polls GetRunJob; it ends before the settle. *)
WatchCancel(w) ==
    /\ pc[w] \in {"starting", "running"}
    /\ ~runCancelled[w]
    /\ ~Refused(WorkerCtxDone(w))
    /\ jobs[held[w].job].status = "CANCELLED"
    /\ runCancelled' = [runCancelled EXCEPT ![w] = TRUE]
    /\ UNCHANGED <<queueVars, pc, held, ended, shutdown, runs, deleting, late, interruptions>>

-----------------------------------------------------------------------------
(* Crash, drain and restart of a worker process *)

Gone(w) ==
    /\ pc' = [pc EXCEPT ![w] = "down"]
    /\ held' = [held EXCEPT ![w] = NoHold]
    /\ runCancelled' = [runCancelled EXCEPT ![w] = FALSE]
    /\ ended' = [ended EXCEPT ![w] = "none"]
    /\ shutdown' = [shutdown EXCEPT ![w] = "no"]
    /\ UNCHANGED <<queueVars, runs, deleting, late>>

Crash(w) ==
    /\ w \in Interruptible
    /\ interruptions < MaxInterruptions
    /\ pc[w] # "down"
    /\ interruptions' = interruptions + 1
    /\ Gone(w)

(* SIGTERM: Drain(), and workerCancel() when the drain timeout has passed. *)
Drain(w) ==
    /\ w \in Interruptible
    /\ interruptions < MaxInterruptions
    /\ pc[w] # "down"
    /\ shutdown[w] = "no"
    /\ interruptions' = interruptions + 1
    /\ shutdown' = [shutdown EXCEPT ![w] = "draining"]
    /\ UNCHANGED <<queueVars, pc, held, runCancelled, ended, runs, deleting, late>>

DrainTimeout(w) ==
    /\ shutdown[w] = "draining"
    /\ shutdown' = [shutdown EXCEPT ![w] = "cancelled"]
    /\ UNCHANGED <<queueVars, pc, held, runCancelled, ended, runs, deleting, late, interruptions>>

(* The loop of Start sees the drain flag and the process ends. *)
Stop(w) ==
    /\ pc[w] = "poll"
    /\ shutdown[w] # "no"
    /\ Gone(w)
    /\ UNCHANGED interruptions

Restart(w) ==
    /\ pc[w] = "down"
    /\ pc' = [pc EXCEPT ![w] = "poll"]
    /\ UNCHANGED <<queueVars, held, runCancelled, ended, shutdown, runs, deleting, late, interruptions>>

-----------------------------------------------------------------------------
(* API clients *)

(* POST /runs with async: GetRun, GetRunJobByRequest and EnqueueRunJob, three *)
(* calls.  The lookups turn a request away only when they succeed: this is   *)
(* the enqueue, of a request that looked at any time before, when the id was *)
(* still unused, or whose lookups failed.  Only the primary key stops it.    *)
(* (A request without async runs in the API's process: Submission has it.)   *)
SubmitRun(j, limit, created) ==
    /\ EnqueueRunJob(j, limit, created)
    /\ late' = IF runs[j] = "none" THEN late ELSE late \cup {j}
    /\ UNCHANGED <<workerVars, runs, deleting, interruptions>>

(* DELETE /jobs/{id} and each job of POST /jobs/cancel. *)
CancelJob(j) ==
    /\ CancelRunJob(j)
    /\ UNCHANGED <<workerVars, runs, deleting, late, interruptions>>

(* DELETE /runs/{id}, first part: the run's job is cancelled. *)
DeleteRunCancelsJob(j) ==
    /\ deleting[j] = "no"
    /\ CancelRunJob(j)
    /\ deleting' = [deleting EXCEPT ![j] = "jobCancelled"]
    /\ UNCHANGED <<workerVars, runs, late, interruptions>>

(* Second part: the run, if GetRun finds it, is saved as CANCELLED; the     *)
(* errors of GetRun and SaveRun are ignored, and the reply is a success.    *)
DeleteRunSavesRun(j) ==
    /\ deleting[j] = "jobCancelled"
    /\ deleting' = [deleting EXCEPT ![j] = "done"]
    /\ \/ /\ runs' = [runs EXCEPT ![j] = IF @ = "none" THEN @ ELSE "CANCELLED"]
          /\ UNCHANGED interruptions
       \/ Fault /\ UNCHANGED runs
    /\ UNCHANGED <<queueVars, workerVars, late>>

(* Or the job could not be read back: the reply is a conflict. *)
DeleteRunConflicts(j) ==
    /\ deleting[j] = "jobCancelled"
    /\ (~Exists(j) /\ UNCHANGED interruptions) \/ Fault
    /\ deleting' = [deleting EXCEPT ![j] = "no"]
    /\ UNCHANGED <<queueVars, workerVars, runs, late>>

(* POST /jobs/requeue/{id} and each job of POST /jobs/requeue. *)
RequeueJob(j, d) ==
    /\ jobs[j].replayCount < MaxReplays
    /\ RequeueRunJob(j, d)
    /\ UNCHANGED <<workerVars, runs, deleting, late, interruptions>>

(* The retention loop and POST /jobs/purge. *)
PurgeJobs(status, olderThan, limit) ==
    /\ PurgeRunJobs(status, olderThan, limit)
    /\ UNCHANGED <<workerVars, runs, deleting, late, interruptions>>

(* Time passes; a timely worker renews or settles before its lease ends. *)
LeaseInUse(w) ==
    /\ pc[w] \in Busy
    /\ jobs[held[w].job].leaseOwner = w
    /\ jobs[held[w].job].leaseLeft = 0

PoolTick ==
    /\ TimelyHeartbeats => \A w \in Workers : ~LeaseInUse(w)
    /\ Tick
    /\ UNCHANGED <<workerVars, runs, deleting, late, interruptions>>

-----------------------------------------------------------------------------
(* The steps processOne takes by itself. *)
Progress(w) ==
    \/ \E j \in Jobs : Lease(w, j)
    \/ WorkflowMissing(w)
    \/ WorkflowFound(w)
    \/ WorkflowInvalid(w)
    \/ RunStarts(w)
    \/ \E s \in {"SUCCESS", "FAILED", "CANCELLED"} : RunEnds(w, s)
    \/ SettleJob(w)
    \/ Stop(w)

Environment(w) == Crash(w) \/ Drain(w) \/ DrainTimeout(w) \/ Restart(w)

ClientCalls(j) ==
    \/ \E limit \in AttemptLimits, c \in Creations : SubmitRun(j, limit, c)
    \/ CancelJob(j)
    \/ DeleteRunCancelsJob(j)
    \/ DeleteRunSavesRun(j)
    \/ DeleteRunConflicts(j)
    \/ \E d \in Delays : RequeueJob(j, d)

PoolNext ==
    \/ \E w \in Workers : Progress(w) \/ Heartbeat(w) \/ WatchCancel(w) \/ Environment(w)
    \/ \E j \in Jobs : ClientCalls(j)
    \/ \E s \in PurgeStatuses, a \in PurgeAges, n \in PurgeLimits : PurgeJobs(s, a, n)
    \/ PoolTick

PoolSpec == PoolInit /\ [][PoolNext]_poolVars

(* Fairness: a worker that is up polls its queue and every call it makes    *)
(* returns (a run's tasks end, by themselves or by their timeouts), and the *)
(* clock advances.  Nothing is assumed of clients, of crashes, of a restart *)
(* or of the heartbeat.                                                     *)
Fairness == (\A w \in Workers : WF_poolVars(Progress(w))) /\ WF_poolVars(PoolTick)

FairPoolSpec == PoolSpec /\ Fairness

-----------------------------------------------------------------------------
(* Types. *)
PoolTypeOK ==
    /\ TypeOK
    /\ pc \in [Workers -> Idle \cup Busy]
    /\ held \in [Workers -> Snapshot]
    /\ \A w \in Workers : pc[w] \in Busy <=> held[w].job \in Jobs
    /\ runCancelled \in [Workers -> BOOLEAN]
    /\ ended \in [Workers -> Outcomes]
    /\ shutdown \in [Workers -> {"no", "draining", "cancelled"}]
    /\ runs \in [Jobs -> RunStatuses]
    /\ deleting \in [Jobs -> {"no", "jobCancelled", "done"}]
    /\ late \in SUBSET Jobs
    /\ interruptions \in 0 .. MaxInterruptions

(* At most one live worker executes a run.  The queue grants a lease to one *)
(* worker, but only the lease's clock takes it back: the exclusion needs    *)
(* timely heartbeats and no purge of the job under its worker.              *)
Executing(w, j) == pc[w] \in Busy /\ held[w].job = j

ExclusiveExecution ==
    \A j \in Jobs, v, w \in Workers : Executing(v, j) /\ Executing(w, j) => v = w

(* While a worker executes a job the job is LEASED by that worker and the   *)
(* lease runs, or a client has CANCELLED it: no other worker can settle,    *)
(* retry or dead-letter it, although no settling method asks who calls.     *)
HeldBy(job, w) ==
    \/ job.status = "LEASED" /\ job.leaseOwner = w /\ job.leaseLeft >= 0
    \/ job.status = "CANCELLED"

LeaseHeldWhileExecuting ==
    \A w \in Workers : pc[w] \in Busy => HeldBy(jobs[held[w].job], w)

(* A job that SUCCEEDED has a run that is recorded as SUCCESS: the job and  *)
(* the run are written by separate calls, with crashes, re-leases, cancels  *)
(* and retries between them.                                                *)
SucceededJobHasSuccessfulRun ==
    \A j \in Jobs : jobs[j].status = "SUCCEEDED" => runs[j] = "SUCCESS"

(* A run recorded as SUCCESS is started again only if a worker was          *)
(* interrupted or a statement failed, or if a request that had looked the   *)
(* id up before the run was recorded enqueued it again once its job was     *)
(* purged: between the save of the run and CompleteRunJob nothing else lets *)
(* the job back into the queue, no retry, replay, cancel or lease.          *)
SuccessIsNotRerun ==
    [][\A j \in Jobs :
          runs[j] = "SUCCESS" /\ runs'[j] = "RUNNING" => interruptions > 0 \/ j \in late]_poolVars

(* Attempts may pass MaxAttempts (LeaseNextRunJob does not look at it), but *)
(* only by one for each replay, each interruption of a worker and each      *)
(* statement that failed.                                                   *)
AttemptsAccounted ==
    \A j \in Jobs :
        Exists(j) => jobs[j].attempts <= jobs[j].maxAttempts + jobs[j].replayCount + interruptions

(* When workers may be slower than their leases every worker can hold its   *)
(* own attempt of the job, and settle it late with an old snapshot: there   *)
(* are at most as many attempts per permitted try as there are workers.     *)
(* (With more than two workers this needs that no purge takes a job from    *)
(* under them: the id could be submitted again, and settled by workers that *)
(* still hold the job before it.)                                           *)
AttemptsAccountedWithStalls ==
    \A j \in Jobs :
        Exists(j) => jobs[j].attempts
                        <= Cardinality(Workers) * (jobs[j].maxAttempts + jobs[j].replayCount)
                           + interruptions

(* A run left recorded as RUNNING with no worker on it is the run of a      *)
(* CANCELLED job, whose worker saved its end with a context that the cancel *)
(* had closed, unless there was an interruption: a failure, a retry, a      *)
(* timeout or a stalled worker never leaves one behind.                     *)
RunLeftRunningIsExplained ==
    \A j \in Jobs :
        runs[j] = "RUNNING" /\ (\A w \in Workers : ~Executing(w, j))
            => jobs[j].status = "CANCELLED" \/ interruptions > 0

(* After DELETE /runs/{id} has cancelled the job and saved the run, the run  *)
(* is not taken up again: the worker that was on it, which may overwrite     *)
(* CANCELLED with how the run ended, is the last one.  Nor does that worker  *)
(* settle the job to anything else, by a retry or as the success it saw.     *)
Deleted(j) == deleting[j] = "done"

DeletedRunNotTakenAgain ==
    [][\A j \in Jobs :
          Deleted(j) /\ Exists(j) =>
              /\ \A w \in Workers : Executing(w, j)' => Executing(w, j)
              /\ Exists(j)' => jobs'[j].status = "CANCELLED"]_poolVars

(* Every job that is QUEUED or LEASED is settled, cancelled or purged in    *)
(* the end, as long as one worker survives: no lease is lost, no job is     *)
(* starved, retries stop.                                                   *)
Settled(j) == jobs[j].status \notin {"QUEUED", "LEASED"}

EveryJobSettles == \A j \in Jobs : []<>Settled(j)

=============================================================================
