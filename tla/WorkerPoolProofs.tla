-------------------------- MODULE WorkerPoolProofs --------------------------
(***************************************************************************)
(* Theorems about WorkerPool for every number of jobs and workers, every   *)
(* lease duration, and any crashes, shutdowns and failed statements.       *)
(***************************************************************************)
EXTENDS WorkerPool, RunQueueProofs

(* The retry delay is a duration whatever the attempt. *)
LEMMA BackoffType == \A a : Backoff(a) \in Nat
  BY PoolAssumption DEF Backoff

(* Every step of the pool is a call of the queue, a tick of the clock, or   *)
(* leaves the queue alone.                                                  *)
LEMMA PoolNextIsQueueStep ==
  ASSUME PoolTypeOK, PoolNext
  PROVE  QueueStep \/ UNCHANGED queueVars
<1>0. \A w \in Workers : pc[w] \in Busy => held[w].job \in Jobs
  BY DEF PoolTypeOK
<1>1. ASSUME NEW w \in Workers, Progress(w)
      PROVE  QueueStep \/ UNCHANGED queueVars
  <2>1. CASE \E j \in Jobs : Lease(w, j)
    BY <2>1 DEF Lease, QueueStep
  <2>2. CASE WorkflowMissing(w)
    BY <1>0, <2>2 DEF WorkflowMissing, Attempted, QueueStep, Busy
  <2>3. CASE WorkflowFound(w) \/ WorkflowInvalid(w) \/ RunStarts(w) \/ Stop(w)
             \/ \E s \in {"SUCCESS", "FAILED", "CANCELLED"} : RunEnds(w, s)
    BY <2>3 DEF WorkflowFound, WorkflowInvalid, RunStarts, Stop, RunEnds, Gone
  <2>4. CASE SettleJob(w)
    <3>1. held[w].job \in Jobs
      BY <1>0, <2>4 DEF SettleJob, Busy
    <3> QED BY <2>4, <3>1, BackoffType
            DEF SettleJob, SettleSuccess, SettleCancelled, SettleRetry, SettleDead, Attempted,
                QueueStep
  <2> QED BY <1>1, <2>1, <2>2, <2>3, <2>4 DEF Progress
<1>2. ASSUME NEW w \in Workers, Heartbeat(w) PROVE QueueStep
  BY <1>0, <1>2 DEF Heartbeat, QueueStep, Busy
<1>3. ASSUME NEW w \in Workers, WatchCancel(w) \/ Environment(w) PROVE UNCHANGED queueVars
  BY <1>3 DEF WatchCancel, Environment, Crash, Drain, DrainTimeout, Restart, Gone
<1>4. ASSUME NEW j \in Jobs, ClientCalls(j) PROVE QueueStep \/ UNCHANGED queueVars
  BY <1>4, DurationAssumption
  DEF ClientCalls, SubmitRun, CancelJob, DeleteRunCancelsJob, DeleteRunSavesRun,
      DeleteRunConflicts, RequeueJob, QueueStep
<1>5. ASSUME NEW s \in PurgeStatuses, NEW a \in PurgeAges, NEW n \in PurgeLimits,
             PurgeJobs(s, a, n)
      PROVE  QueueStep
  BY <1>5 DEF PurgeJobs, PurgeRunJobs, QueueStep
<1>6. ASSUME PoolTick PROVE QueueStep
  BY <1>6 DEF PoolTick, QueueStep
<1> QED BY <1>1, <1>2, <1>3, <1>4, <1>5, <1>6 DEF PoolNext

-----------------------------------------------------------------------------
(* Types: those of the queue come from QueueInv, the others action by       *)
(* action.                                                                  *)
PoolShape ==
    /\ pc \in [Workers -> Idle \cup Busy]
    /\ held \in [Workers -> Snapshot]
    /\ \A w \in Workers : pc[w] \in Busy <=> held[w].job \in Jobs
    /\ runCancelled \in [Workers -> BOOLEAN]
    /\ ended \in [Workers -> Outcomes]
    /\ shutdown \in [Workers -> {"no", "draining", "cancelled"}]
    /\ runs \in [Jobs -> RunStatuses]
    /\ deleting \in [Jobs -> {"no", "jobCancelled", "done"}]
    /\ late \in SUBSET Jobs
    /\ interruptions \in 0 .. MaxInterruptions

LEMMA PoolTypeParts == PoolTypeOK <=> TypeOK /\ PoolShape
  BY DEF PoolTypeOK, PoolShape

LEMMA NoHoldType == NoHold \in Snapshot /\ NoHold.job \notin Jobs
  BY PoolAssumption DEF NoHold, Snapshot

(* A call succeeds, or it fails and is counted. *)
Counted == UNCHANGED interruptions \/ Fault

LEMMA CountedType ==
  ASSUME PoolShape, Counted
  PROVE  /\ interruptions' \in 0 .. MaxInterruptions
         /\ interruptions' \in {interruptions, interruptions + 1}
  BY PoolAssumption DEF PoolShape, Counted, Fault

LEMMA ShapeStep ==
  ASSUME PoolShape, TypeOK, PoolNext
  PROVE  PoolShape'
<1>0. Counted => interruptions' \in 0 .. MaxInterruptions
  BY CountedType
<1> USE DEF PoolShape
<1>1. ASSUME NEW w \in Workers, NEW j \in Jobs, Lease(w, j) PROVE PoolShape'
  <2> DEFINE snap == [job |-> j, attempts |-> jobs[j].attempts + 1,
                      maxAttempts |-> jobs[j].maxAttempts]
  <2>1. snap \in Snapshot /\ snap.job = j
    BY DEF TypeOK, Job, Snapshot
  <2>2. /\ pc' = [pc EXCEPT ![w] = "leased"]
        /\ held' = [held EXCEPT ![w] = snap]
        /\ UNCHANGED <<runCancelled, ended, shutdown, runs, deleting, late, interruptions>>
    BY <1>1 DEF Lease
  <2> HIDE DEF snap
  <2> QED BY <2>1, <2>2 DEF Busy
<1>2. ASSUME NEW w \in Workers, Release(w), UNCHANGED <<runs, deleting, late>>, Counted
      PROVE  PoolShape'
  BY <1>0, <1>2, NoHoldType DEF Release, Busy, Idle, Outcomes
<1>3. ASSUME NEW w \in Workers, WorkflowFound(w) \/ WorkflowInvalid(w) PROVE PoolShape'
  BY <1>3 DEF WorkflowFound, WorkflowInvalid, Busy, Outcomes
<1>4. ASSUME NEW w \in Workers, RunStarts(w) PROVE PoolShape'
  <2>1. /\ pc[w] = "starting"
        /\ pc' = [pc EXCEPT ![w] = "running"]
        /\ UNCHANGED <<held, runCancelled, ended, shutdown, deleting, late>>
    BY <1>4 DEF RunStarts
  <2>2. runs' \in [Jobs -> RunStatuses] /\ Counted
    BY <1>4 DEF RunStarts, RunStatuses, Counted
  <2> QED BY <1>0, <2>1, <2>2 DEF Busy
<1>5. ASSUME NEW w \in Workers, NEW s \in {"SUCCESS", "FAILED", "CANCELLED"}, RunEnds(w, s)
      PROVE  PoolShape'
  <2>1. /\ pc[w] = "running"
        /\ pc' = [pc EXCEPT ![w] = "returned"]
        /\ UNCHANGED <<held, runCancelled, shutdown, deleting, late>>
    BY <1>5 DEF RunEnds
  <2>2. runs' \in [Jobs -> RunStatuses] /\ ended' \in [Workers -> Outcomes] /\ Counted
    BY <1>5 DEF RunEnds, RunStatuses, Outcomes, Counted
  <2> QED BY <1>0, <2>1, <2>2 DEF Busy
<1>6. ASSUME NEW w \in Workers, Gone(w), interruptions' \in 0 .. MaxInterruptions
      PROVE  PoolShape'
  BY <1>6, NoHoldType DEF Gone, Busy, Idle, Outcomes
<1>7. ASSUME NEW w \in Workers, Progress(w) PROVE PoolShape'
  <2>1. ASSUME WorkflowMissing(w) \/ SettleJob(w)
        PROVE  Release(w) /\ UNCHANGED <<runs, deleting, late>> /\ Counted
    BY <2>1 DEF WorkflowMissing, SettleJob, SettleSuccess, SettleCancelled, SettleRetry, SettleDead,
                Attempted, Counted
  <2> QED BY <1>1, <1>2, <1>3, <1>4, <1>5, <1>6, <1>7, <2>1 DEF Progress, Stop
<1>8. ASSUME NEW w \in Workers, Heartbeat(w) \/ WatchCancel(w) PROVE PoolShape'
  BY <1>8 DEF Heartbeat, WatchCancel, workerVars
<1>9. ASSUME NEW w \in Workers, Environment(w) PROVE PoolShape'
  <2>1. CASE Crash(w)
    BY <1>6, <2>1, PoolAssumption DEF Crash
  <2>2. CASE Drain(w)
    BY <2>2, PoolAssumption DEF Drain
  <2>3. CASE DrainTimeout(w)
    BY <2>3 DEF DrainTimeout
  <2>4. CASE Restart(w)
    BY <2>4 DEF Restart, Idle, Busy
  <2> QED BY <1>9, <2>1, <2>2, <2>3, <2>4 DEF Environment
<1>10. ASSUME NEW j \in Jobs, ClientCalls(j) PROVE PoolShape'
  <2>1. Counted /\ UNCHANGED workerVars
    BY <1>10
    DEF ClientCalls, SubmitRun, CancelJob, DeleteRunCancelsJob, DeleteRunSavesRun,
        DeleteRunConflicts, RequeueJob, Counted
  <2>2. late' \in SUBSET Jobs
    BY <1>10
    DEF ClientCalls, SubmitRun, CancelJob, DeleteRunCancelsJob, DeleteRunSavesRun,
        DeleteRunConflicts, RequeueJob
  <2>3. runs' \in [Jobs -> RunStatuses] /\ deleting' \in [Jobs -> {"no", "jobCancelled", "done"}]
    BY <1>10
    DEF ClientCalls, SubmitRun, CancelJob, DeleteRunCancelsJob, DeleteRunSavesRun,
        DeleteRunConflicts, RequeueJob, RunStatuses
  <2> QED BY <1>0, <2>1, <2>2, <2>3 DEF workerVars
<1>11. ASSUME UNCHANGED <<workerVars, runs, deleting, late, interruptions>> PROVE PoolShape'
  BY <1>11 DEF workerVars
<1> QED BY <1>7, <1>8, <1>9, <1>10, <1>11 DEF PoolNext, PurgeJobs, PoolTick

LEMMA PoolTypesInit == PoolInit => QueueInv /\ PoolShape
  BY QueueInvInit, NoHoldType, PoolAssumption
  DEF PoolInit, PoolShape, Idle, Busy, Outcomes, RunStatuses

LEMMA PoolTypesStep == QueueInv /\ PoolShape /\ [PoolNext]_poolVars => (QueueInv /\ PoolShape)'
<1> SUFFICES ASSUME QueueInv, PoolShape, [PoolNext]_poolVars PROVE QueueInv' /\ PoolShape'
  OBVIOUS
<1>1. CASE PoolNext
  <2>1. PoolTypeOK
    BY PoolTypeParts DEF QueueInv
  <2>2. QueueInv'
    BY <1>1, <2>1, PoolNextIsQueueStep, QueueInvStep, QueueInvStutter
  <2> QED BY <1>1, <2>2, ShapeStep DEF QueueInv
<1>2. CASE UNCHANGED poolVars
  <2>1. QueueInv'
    BY <1>2, QueueInvStutter DEF poolVars
  <2>2. PoolShape'
    BY <1>2 DEF PoolShape, poolVars, workerVars
  <2> QED BY <2>1, <2>2
<1> QED BY <1>1, <1>2

(* The pool's state has its types, and a worker holds a job exactly while   *)
(* processOne works on one.                                                 *)
THEOREM PoolTypeCorrect == PoolSpec => []PoolTypeOK
<1>1. QueueInv /\ PoolShape => PoolTypeOK
  BY PoolTypeParts DEF QueueInv
<1> QED BY <1>1, PoolTypesInit, PoolTypesStep, PTL DEF PoolSpec

-----------------------------------------------------------------------------
(* Exclusion.  ExclusiveExecution is not inductive: that no second worker   *)
(* can lease a job in use follows from LeaseHeldWhileExecuting, and that    *)
(* one survives a settle by another worker only because of                  *)
(* ExclusiveExecution.  They are proved together.                           *)
Exclusion == LeaseHeldWhileExecuting /\ ExclusiveExecution

(* No purge takes away a job some worker may be executing. *)
PurgeSparesUse == PurgeStatuses \cap {NoStatus, "LEASED", "CANCELLED"} = {}

(* A worker executes a job only while the job is LEASED and in time, or     *)
(* CANCELLED.                                                               *)
LEMMA NobodyExecutes ==
  ASSUME QueueInv, PoolShape, Exclusion, NEW j \in Jobs,
         \/ jobs[j].status \notin {"LEASED", "CANCELLED"}
         \/ Leasable(j)
  PROVE  \A v \in Workers : ~Executing(v, j)
<1>1. jobs[j].leaseLeft \in Int
  BY DEF QueueInv, TypeOK, Job
<1> QED BY <1>1 DEF Exclusion, LeaseHeldWhileExecuting, Executing, HeldBy, Leasable, LeaseExpired, NoLease

(* The steps that give no worker a job: whoever executes after the step     *)
(* executed the same job before it, and the job is as it was or still his.  *)
StillHeld(v) ==
    /\ pc[v] \in Busy
    /\ held'[v] = held[v]
    /\ \/ jobs'[held[v].job] = jobs[held[v].job]
       \/ HeldBy(jobs'[held[v].job], v)

LEMMA ExclusionKept ==
  ASSUME Exclusion, \A v \in Workers : pc'[v] \in Busy => StillHeld(v)
  PROVE  Exclusion'
<1>1. LeaseHeldWhileExecuting'
  BY DEF Exclusion, LeaseHeldWhileExecuting, StillHeld
<1>2. ExclusiveExecution'
  BY DEF Exclusion, ExclusiveExecution, Executing, StillHeld
<1> QED BY <1>1, <1>2 DEF Exclusion

(* A step that rewrites the record of one job which nobody but w executes,  *)
(* while w lets go of it. *)
LEMMA ReleaseKeepsExclusion ==
  ASSUME QueueInv, PoolShape, Exclusion, NEW w \in Workers, pc[w] \in Busy, Release(w),
         \/ UNCHANGED jobs
         \/ \E new : jobs' = [jobs EXCEPT ![held[w].job] = new]
  PROVE  Exclusion'
<1> SUFFICES ASSUME NEW v \in Workers, pc'[v] \in Busy PROVE StillHeld(v)
  BY ExclusionKept
<1>1. v # w
  BY DEF Release, Busy, PoolShape
<1>2. pc[v] \in Busy /\ held'[v] = held[v]
  BY <1>1 DEF Release, PoolShape
<1>3. held[v].job \in Jobs /\ held[w].job \in Jobs
  BY <1>2 DEF PoolShape
<1>4. held[v].job # held[w].job
  BY <1>1, <1>2, <1>3 DEF Exclusion, ExclusiveExecution, Executing
<1>5. jobs'[held[v].job] = jobs[held[v].job]
  BY <1>3, <1>4 DEF QueueInv, TypeOK
<1> QED BY <1>2, <1>5 DEF StillHeld

LEMMA ExclusionStep ==
  ASSUME TimelyHeartbeats, PurgeSparesUse, QueueInv, PoolShape, Exclusion, PoolNext
  PROVE  Exclusion'
<1>0. /\ jobs \in [Jobs -> Job]
      /\ pc \in [Workers -> Idle \cup Busy]
      /\ held \in [Workers -> Snapshot]
      /\ \A w \in Workers : pc[w] \in Busy => held[w].job \in Jobs
  BY DEF QueueInv, TypeOK, PoolShape
<1>1. ASSUME NEW w \in Workers, NEW j \in Jobs, Lease(w, j) PROVE Exclusion'
  <2> DEFINE snap == [job |-> j, attempts |-> jobs[j].attempts + 1,
                      maxAttempts |-> jobs[j].maxAttempts]
  <2>1. /\ Leasable(j)
        /\ jobs' = [jobs EXCEPT ![j] = LeasedTo(@, w)]
        /\ pc[w] = "poll"
        /\ pc' = [pc EXCEPT ![w] = "leased"]
        /\ held' = [held EXCEPT ![w] = snap]
        /\ snap.job = j
    BY <1>1 DEF Lease, LeaseNextRunJob, OldestCandidate
  <2> HIDE DEF snap
  <2>2. \A v \in Workers : ~Executing(v, j)
    BY <2>1, NobodyExecutes
  <2>3. HeldBy(jobs'[j], w)
    BY <1>0, <2>1, LeasedToFields, DurationAssumption DEF HeldBy
  <2>4. \A v \in Workers : pc'[v] \in Busy /\ v # w =>
            /\ pc[v] \in Busy /\ held'[v] = held[v]
            /\ held[v].job \in Jobs /\ held[v].job # j
            /\ jobs'[held[v].job] = jobs[held[v].job]
    BY <1>0, <2>1, <2>2 DEF Executing
  <2>5. held'[w].job = j
    BY <1>0, <2>1
  <2>6. LeaseHeldWhileExecuting'
    BY <2>3, <2>4, <2>5 DEF Exclusion, LeaseHeldWhileExecuting
  <2>7. ExclusiveExecution'
    BY <2>4, <2>5 DEF Exclusion, ExclusiveExecution, Executing
  <2> QED BY <2>6, <2>7 DEF Exclusion
<1>2. ASSUME NEW w \in Workers, WorkflowMissing(w) \/ SettleJob(w) PROVE Exclusion'
  <2>1. pc[w] \in Busy /\ Release(w)
    BY <1>2 DEF WorkflowMissing, SettleJob, Busy
  <2>2. \/ UNCHANGED jobs
        \/ \E new : jobs' = [jobs EXCEPT ![held[w].job] = new]
    BY <1>2 DEF WorkflowMissing, SettleJob, SettleSuccess, SettleCancelled, SettleRetry,
                SettleDead, Attempted, FailRunJob, CompleteRunJob, CancelRunJob, RetryRunJob,
                DeadLetterRunJob, queueVars
  <2> QED BY <2>1, <2>2, ReleaseKeepsExclusion
<1>3. ASSUME NEW w \in Workers,
             \/ WorkflowFound(w) \/ WorkflowInvalid(w) \/ RunStarts(w)
             \/ \E s \in {"SUCCESS", "FAILED", "CANCELLED"} : RunEnds(w, s)
      PROVE  Exclusion'
  <2>1. UNCHANGED <<jobs, held>> /\ \A v \in Workers : pc'[v] \in Busy => pc[v] \in Busy
    BY <1>0, <1>3 DEF WorkflowFound, WorkflowInvalid, RunStarts, RunEnds, Busy, queueVars
  <2> QED BY <2>1, ExclusionKept DEF StillHeld
<1>4. ASSUME NEW w \in Workers, Gone(w) PROVE Exclusion'
  <2>1. \A v \in Workers : pc'[v] \in Busy => pc[v] \in Busy /\ held'[v] = held[v]
    BY <1>0, <1>4 DEF Gone, Busy
  <2> QED BY <1>4, <2>1, ExclusionKept DEF StillHeld, Gone, queueVars
<1>5. ASSUME NEW w \in Workers, Heartbeat(w) PROVE Exclusion'
  <2>1. /\ jobs[held[w].job].status = "LEASED"
        /\ jobs[held[w].job].leaseOwner = w
        /\ jobs' = [jobs EXCEPT ![held[w].job] = Extended(@)]
        /\ UNCHANGED <<pc, held>>
        /\ held[w].job \in Jobs
    BY <1>0, <1>5 DEF Heartbeat, ExtendRunJobLease, workerVars, Busy
  <2>2. HeldBy(jobs'[held[w].job], w)
    BY <1>0, <2>1, ExtendedFields, DurationAssumption DEF HeldBy
  <2>3. \A v \in Workers : pc'[v] \in Busy => StillHeld(v)
    <3> SUFFICES ASSUME NEW v \in Workers, pc'[v] \in Busy PROVE StillHeld(v)
      OBVIOUS
    <3>1. pc[v] \in Busy /\ held'[v] = held[v] /\ held[v].job \in Jobs
      BY <1>0, <2>1
    <3>2. CASE v = w
      BY <2>2, <3>1, <3>2 DEF StillHeld
    <3>3. CASE v # w
      <4>1. held[v].job # held[w].job
        BY <1>5, <2>1, <3>1, <3>3 DEF Exclusion, ExclusiveExecution, Executing, Heartbeat, Busy
      <4>2. jobs'[held[v].job] = jobs[held[v].job]
        BY <1>0, <2>1, <3>1, <4>1
      <4> QED BY <3>1, <4>2 DEF StillHeld
    <3> QED BY <3>2, <3>3
  <2> QED BY <2>3, ExclusionKept
<1>6. ASSUME NEW w \in Workers, WatchCancel(w) \/ Drain(w) \/ DrainTimeout(w) \/ Restart(w)
      PROVE  Exclusion'
  <2>1. UNCHANGED <<jobs, held>> /\ \A v \in Workers : pc'[v] \in Busy => pc[v] \in Busy
    BY <1>0, <1>6 DEF WatchCancel, Drain, DrainTimeout, Restart, Busy, queueVars
  <2> QED BY <2>1, ExclusionKept DEF StillHeld
<1>7. ASSUME NEW j \in Jobs, CancelRunJob(j), UNCHANGED workerVars PROVE Exclusion'
  <2>1. HeldBy(Released(jobs[j], "CANCELLED"), NoWorker)
    BY <1>0, ReleasedFields DEF HeldBy, JobStatuses
  <2>2. \A v \in Workers : pc'[v] \in Busy => StillHeld(v)
    <3> SUFFICES ASSUME NEW v \in Workers, pc'[v] \in Busy PROVE StillHeld(v)
      OBVIOUS
    <3>1. pc[v] \in Busy /\ held'[v] = held[v] /\ held[v].job \in Jobs
      BY <1>0, <1>7 DEF workerVars
    <3>2. jobs'[j].status = "CANCELLED"
      BY <1>0, <1>7, ReleasedFields DEF CancelRunJob, JobStatuses
    <3>3. held[v].job # j => jobs'[held[v].job] = jobs[held[v].job]
      BY <1>0, <1>7, <3>1 DEF CancelRunJob
    <3> QED BY <3>1, <3>2, <3>3 DEF StillHeld, HeldBy
  <2> QED BY <2>2, ExclusionKept
<1>8. ASSUME UNCHANGED <<jobs, pc, held>> PROVE Exclusion'
  BY <1>8, ExclusionKept DEF StillHeld
<1>9. ASSUME NEW j \in Jobs, NEW new, jobs[j].status \notin {"LEASED", "CANCELLED"},
             jobs' = [jobs EXCEPT ![j] = new], UNCHANGED workerVars
      PROVE  Exclusion'
  <2>1. \A v \in Workers : ~Executing(v, j)
    BY <1>9, NobodyExecutes
  <2>2. \A v \in Workers : pc'[v] \in Busy => StillHeld(v)
    BY <1>0, <1>9, <2>1 DEF StillHeld, Executing, workerVars
  <2> QED BY <2>2, ExclusionKept
<1>10. ASSUME NEW j \in Jobs, ClientCalls(j) PROVE Exclusion'
  <2>1. CASE \E limit \in AttemptLimits, c \in Creations : SubmitRun(j, limit, c)
    BY <1>9, <2>1 DEF SubmitRun, EnqueueRunJob, Exists, NoStatus
  <2>2. CASE CancelJob(j)
    BY <1>7, <2>2 DEF CancelJob
  <2>3. CASE DeleteRunCancelsJob(j)
    BY <1>7, <1>8, <2>3 DEF DeleteRunCancelsJob, queueVars, workerVars
  <2>4. CASE DeleteRunSavesRun(j) \/ DeleteRunConflicts(j)
    BY <1>8, <2>4 DEF DeleteRunSavesRun, DeleteRunConflicts, queueVars, workerVars
  <2>5. CASE \E d \in Delays : RequeueJob(j, d)
    BY <1>9, <2>5 DEF RequeueJob, RequeueRunJob
  <2> QED BY <1>10, <2>1, <2>2, <2>3, <2>4, <2>5 DEF ClientCalls
<1>11. ASSUME NEW s \in PurgeStatuses, NEW a \in PurgeAges, NEW n \in PurgeLimits,
              PurgeJobs(s, a, n)
       PROVE  Exclusion'
  <2> PICK D \in SUBSET Jobs : D \subseteq Purgeable(s, a) /\ Delete(D)
    BY <1>11 DEF PurgeJobs, PurgeRunJobs, PurgeChoice
  <2>1. s \notin {NoStatus, "LEASED", "CANCELLED"}
    BY DEF PurgeSparesUse
  <2>2. \A j \in D : jobs[j].status \notin {"LEASED", "CANCELLED"}
    BY <2>1 DEF Purgeable
  <2>3. \A v \in Workers : pc[v] \in Busy => held[v].job \notin D
    BY <2>2, NobodyExecutes DEF Executing
  <2>4. \A v \in Workers : pc'[v] \in Busy => StillHeld(v)
    BY <1>0, <1>11, <2>3 DEF StillHeld, Delete, PurgeJobs, workerVars
  <2> QED BY <2>4, ExclusionKept
<1>12. ASSUME PoolTick PROVE Exclusion'
  <2> SUFFICES ASSUME NEW v \in Workers, pc'[v] \in Busy PROVE StillHeld(v)
    BY ExclusionKept
  <2>1. pc[v] \in Busy /\ held'[v] = held[v] /\ held[v].job \in Jobs
    BY <1>0, <1>12 DEF PoolTick, workerVars
  <2> DEFINE job == jobs[held[v].job]
  <2>2. job \in Job /\ jobs'[held[v].job] = Aged(job)
    BY <1>0, <1>12, <2>1 DEF PoolTick, Tick
  <2>3. HeldBy(job, v)
    BY <2>1 DEF Exclusion, LeaseHeldWhileExecuting
  <2>4. ~(job.leaseOwner = v /\ job.leaseLeft = 0)
    BY <1>12, <2>1 DEF PoolTick, LeaseInUse
  <2>5. job.leaseLeft \in Int
    BY <2>2 DEF Job
  <2> HIDE DEF job
  <2>6. HeldBy(Aged(job), v)
    BY <2>2, <2>3, <2>4, <2>5, AgedFields DEF HeldBy, NoStatus
  <2> QED BY <2>1, <2>2, <2>6 DEF StillHeld
<1>13. ASSUME NEW w \in Workers, Progress(w) PROVE Exclusion'
  BY <1>1, <1>2, <1>3, <1>4, <1>13 DEF Progress, Stop
<1>14. ASSUME NEW w \in Workers, Environment(w) PROVE Exclusion'
  BY <1>4, <1>6, <1>14 DEF Environment, Crash
<1> QED BY <1>5, <1>6, <1>10, <1>11, <1>12, <1>13, <1>14 DEF PoolNext

(* As long as live workers renew their leases in time and no purge takes a  *)
(* LEASED or CANCELLED job, a run is never executed by two live workers at  *)
(* once and nobody else settles a job under its worker: for any number of   *)
(* workers and jobs and any crashes, drains, cancels, replays and retries.  *)
THEOREM ExclusionHolds ==
  ASSUME TimelyHeartbeats, PurgeSparesUse
  PROVE  PoolSpec => [](LeaseHeldWhileExecuting /\ ExclusiveExecution)
<1> DEFINE PoolInv == QueueInv /\ PoolShape /\ Exclusion
<1>1. PoolInit => PoolInv
  <2>1. PoolInit => Exclusion
    BY DEF PoolInit, Exclusion, LeaseHeldWhileExecuting, ExclusiveExecution, Executing, Busy
  <2> QED BY <2>1, PoolTypesInit
<1>2. PoolInv /\ [PoolNext]_poolVars => PoolInv'
  <2> SUFFICES ASSUME PoolInv, [PoolNext]_poolVars PROVE PoolInv'
    OBVIOUS
  <2>1. (QueueInv /\ PoolShape)'
    BY PoolTypesStep
  <2>2. CASE PoolNext
    BY <2>1, <2>2, ExclusionStep
  <2>3. CASE UNCHANGED poolVars
    <3>1. Exclusion'
      BY <2>3 DEF Exclusion, LeaseHeldWhileExecuting, ExclusiveExecution, Executing, poolVars,
                  workerVars, queueVars
    <3> QED BY <2>1, <3>1
  <2> QED BY <2>2, <2>3
<1>3. PoolInv => LeaseHeldWhileExecuting /\ ExclusiveExecution
  BY DEF Exclusion
<1> HIDE DEF PoolInv
<1> QED BY <1>1, <1>2, <1>3, PTL DEF PoolSpec

(* Under the same conditions a worker that executes a run still has the     *)
(* lease of its job, or the job was cancelled under it: no settling call it *)
(* makes can hit another worker's attempt.                                  *)
THEOREM LeaseHeldThroughout ==
  ASSUME TimelyHeartbeats, PurgeSparesUse
  PROVE  PoolSpec => []LeaseHeldWhileExecuting
<1>1. PoolSpec => [](LeaseHeldWhileExecuting /\ ExclusiveExecution)
  BY ExclusionHolds
<1> QED BY <1>1, PTL

-----------------------------------------------------------------------------
(* What each action does to the jobs, to the workers and to the runs, point *)
(* by point.  The invariants below are proved from these facts alone.       *)

(* The parts of a record the invariants read. *)
SameCounts(old, new) ==
    /\ new.status = old.status
    /\ new.attempts = old.attempts
    /\ new.maxAttempts = old.maxAttempts
    /\ new.replayCount = old.replayCount

(* A worker that the step leaves where it is. *)
SameWorker(v) ==
    /\ pc'[v] = pc[v]
    /\ held'[v] = held[v]
    /\ ended'[v] = ended[v]
    /\ shutdown'[v] = shutdown[v]

(* Only w moves. *)
OnlyMoves(w) == \A v \in Workers \ {w} : SameWorker(v)

LEMMA LeaseEffect ==
  ASSUME QueueInv, PoolShape, NEW w \in Workers, NEW j \in Jobs, Lease(w, j)
  PROVE  /\ Leasable(j)
         /\ pc[w] = "poll" /\ shutdown[w] = "no"
         /\ \A k \in Jobs \ {j} : jobs'[k] = jobs[k]
         /\ jobs'[j].status = "LEASED"
         /\ jobs'[j].attempts = jobs[j].attempts + 1
         /\ jobs'[j].maxAttempts = jobs[j].maxAttempts
         /\ jobs'[j].replayCount = jobs[j].replayCount
         /\ pc'[w] = "leased"
         /\ held'[w].job = j
         /\ held'[w].attempts = jobs[j].attempts + 1
         /\ held'[w].maxAttempts = jobs[j].maxAttempts
         /\ OnlyMoves(w)
         /\ UNCHANGED <<shutdown, runs, deleting, interruptions>>
<1> DEFINE snap == [job |-> j, attempts |-> jobs[j].attempts + 1,
                    maxAttempts |-> jobs[j].maxAttempts]
<1>1. /\ Leasable(j) /\ pc[w] = "poll" /\ shutdown[w] = "no"
      /\ jobs' = [jobs EXCEPT ![j] = LeasedTo(@, w)]
      /\ pc' = [pc EXCEPT ![w] = "leased"]
      /\ held' = [held EXCEPT ![w] = snap]
      /\ UNCHANGED <<ended, shutdown, runs, deleting, interruptions>>
  BY DEF Lease, LeaseNextRunJob, OldestCandidate
<1>2. /\ snap.job = j /\ snap.attempts = jobs[j].attempts + 1
      /\ snap.maxAttempts = jobs[j].maxAttempts
  OBVIOUS
<1> HIDE DEF snap
<1>3. jobs \in [Jobs -> Job] /\ pc \in [Workers -> Idle \cup Busy] /\ held \in [Workers -> Snapshot]
  BY DEF QueueInv, TypeOK, PoolShape
<1>4. held'[w] = snap /\ pc'[w] = "leased" /\ OnlyMoves(w)
  BY <1>1, <1>3 DEF OnlyMoves, SameWorker
<1>5. jobs'[j] = LeasedTo(jobs[j], w) /\ \A k \in Jobs \ {j} : jobs'[k] = jobs[k]
  BY <1>1, <1>3
<1>6. jobs[j] \in Job
  BY <1>3
<1> QED BY <1>1, <1>2, <1>4, <1>5, <1>6, LeasedToFields

(* processOne lets go of its job: it is written in one of the ways of a     *)
(* settling call, or the call fails because the context is done, the job is *)
(* not LEASED any more, or the statement fails.                             *)
SettlesAs(w, old, new) ==
    \/ new = old /\ (\/ old.status # "LEASED" \/ Refused(WorkerCtxDone(w))
                    \/ interruptions' = interruptions + 1)
    \/ /\ UNCHANGED interruptions
       /\ new.attempts = old.attempts
       /\ new.maxAttempts = old.maxAttempts
       /\ new.replayCount = old.replayCount
       /\ \/ new.status = "FAILED" /\ old.status = "LEASED" /\ pc[w] = "leased"
          \/ new.status = "SUCCEEDED" /\ old.status = "LEASED"
             /\ pc[w] = "returned" /\ ended[w] = "SUCCESS"
          \/ new.status = "CANCELLED" /\ old.status \notin {"SUCCEEDED", NoStatus}
             /\ pc[w] = "returned" /\ ended[w] = "CANCELLED"
          \/ new.status = "QUEUED" /\ old.status = "LEASED"
             /\ pc[w] = "returned" /\ ended[w] \in {"FAILED", "ERROR"}
             /\ held[w].attempts < held[w].maxAttempts
          \/ new.status = "DEAD_LETTER" /\ old.status = "LEASED"
             /\ pc[w] = "returned" /\ ended[w] \in {"FAILED", "ERROR"}

LEMMA SettleEffect ==
  ASSUME QueueInv, PoolShape, NEW w \in Workers, WorkflowMissing(w) \/ SettleJob(w)
  PROVE  /\ pc[w] \in {"leased", "returned"} /\ held[w].job \in Jobs
         /\ \A k \in Jobs : k # held[w].job => jobs'[k] = jobs[k]
         /\ SettlesAs(w, jobs[held[w].job], jobs'[held[w].job])
         /\ pc'[w] = "poll"
         /\ OnlyMoves(w)
         /\ UNCHANGED <<shutdown, runs, deleting>>
         /\ interruptions' \in {interruptions, interruptions + 1}
<1>0. /\ jobs \in [Jobs -> Job] /\ pc \in [Workers -> Idle \cup Busy]
      /\ held \in [Workers -> Snapshot] /\ ended \in [Workers -> Outcomes]
  BY DEF QueueInv, TypeOK, PoolShape
<1>1. pc[w] \in {"leased", "returned"} /\ held[w].job \in Jobs
  BY DEF WorkflowMissing, SettleJob, PoolShape, Busy
<1>2. /\ pc' = [pc EXCEPT ![w] = "poll"]
      /\ held' = [held EXCEPT ![w] = NoHold]
      /\ ended' = [ended EXCEPT ![w] = "none"]
      /\ UNCHANGED <<shutdown, runs, deleting>>
  BY DEF WorkflowMissing, SettleJob, Release
<1>3. pc'[w] = "poll" /\ OnlyMoves(w) /\ interruptions' \in {interruptions, interruptions + 1}
  <2>1. Counted
    BY DEF WorkflowMissing, SettleJob, SettleSuccess, SettleCancelled, SettleRetry, SettleDead,
           Attempted, Counted
  <2> QED BY <1>0, <1>2, <2>1, CountedType DEF OnlyMoves, SameWorker
<1> PICK j \in Jobs : j = held[w].job
  BY <1>1
<1>5. jobs[j] \in Job
  BY <1>0
<1>6. \A to \in JobStatuses : LET r == Released(jobs[j], to) IN
         /\ r.status = to
         /\ r.attempts = jobs[j].attempts
         /\ r.maxAttempts = jobs[j].maxAttempts
         /\ r.replayCount = jobs[j].replayCount
  BY <1>5, ReleasedFields
<1>7. LET r == Delayed(jobs[j], Backoff(held[w].attempts)) IN
         /\ r.status = "QUEUED"
         /\ r.attempts = jobs[j].attempts
         /\ r.maxAttempts = jobs[j].maxAttempts
         /\ r.replayCount = jobs[j].replayCount
  BY <1>5, BackoffType, DelayedFields
<1> DEFINE Goal == /\ \A k \in Jobs : k # j => jobs'[k] = jobs[k]
                   /\ SettlesAs(w, jobs[j], jobs'[j])
<1>8. ASSUME UNCHANGED queueVars,
             jobs[j].status # "LEASED" \/ Refused(WorkerCtxDone(w)) \/ Fault
      PROVE  Goal
  BY <1>8 DEF SettlesAs, queueVars, Fault
<1>9. CASE WorkflowMissing(w)
  <2>1. CASE FailRunJob(j) /\ UNCHANGED interruptions
    <3>1. /\ jobs[j].status = "LEASED" /\ jobs'[j] = Released(jobs[j], "FAILED")
          /\ \A k \in Jobs : k # j => jobs'[k] = jobs[k]
      BY <1>0, <2>1 DEF FailRunJob
    <3>2. "FAILED" \in JobStatuses
      BY DEF JobStatuses
    <3>3. Goal
      BY <1>6, <1>9, <2>1, <3>1, <3>2 DEF SettlesAs, WorkflowMissing
    <3> QED BY <1>1, <1>2, <1>3, <3>3
  <2> QED BY <1>1, <1>2, <1>3, <1>8, <1>9, <2>1 DEF WorkflowMissing, Attempted, JobIsLeased
<1>10. CASE SettleJob(w)
  <2>1. pc[w] = "returned"
    BY <1>10 DEF SettleJob
  <2>2. CASE SettleSuccess(w)
    <3>1. CASE CompleteRunJob(j) /\ UNCHANGED interruptions
      <4>1. /\ jobs[j].status = "LEASED" /\ jobs'[j] = Released(jobs[j], "SUCCEEDED")
            /\ \A k \in Jobs : k # j => jobs'[k] = jobs[k]
        BY <1>0, <3>1 DEF CompleteRunJob
      <4>2. "SUCCEEDED" \in JobStatuses
        BY DEF JobStatuses
      <4>3. Goal
        BY <1>6, <2>1, <2>2, <3>1, <4>1, <4>2 DEF SettlesAs, SettleSuccess
      <4> QED BY <1>1, <1>2, <1>3, <4>3
    <3> QED BY <1>1, <1>2, <1>3, <1>8, <2>2, <3>1 DEF SettleSuccess, Attempted, JobIsLeased
  <2>3. CASE SettleCancelled(w)
    <3>1. CASE CancelRunJob(j) /\ UNCHANGED interruptions
      <4>1. /\ jobs[j].status \notin {"SUCCEEDED", NoStatus}
            /\ jobs'[j] = Released(jobs[j], "CANCELLED")
            /\ \A k \in Jobs : k # j => jobs'[k] = jobs[k]
        BY <1>0, <3>1 DEF CancelRunJob, Exists
      <4>2. "CANCELLED" \in JobStatuses
        BY DEF JobStatuses
      <4>3. Goal
        BY <1>6, <2>1, <2>3, <3>1, <4>1, <4>2 DEF SettlesAs, SettleCancelled
      <4> QED BY <1>1, <1>2, <1>3, <4>3
    <3> QED BY <1>1, <1>2, <1>3, <1>8, <2>3, <3>1
            DEF SettleCancelled, Attempted, JobIsCancellable, Exists, NoStatus
  <2>4. CASE SettleRetry(w)
    <3>1. CASE RetryRunJob(j, Backoff(held[w].attempts)) /\ UNCHANGED interruptions
      <4>1. /\ jobs[j].status = "LEASED" /\ jobs'[j] = Delayed(jobs[j], Backoff(held[w].attempts))
            /\ \A k \in Jobs : k # j => jobs'[k] = jobs[k]
        BY <1>0, <3>1 DEF RetryRunJob
      <4>2. Goal
        BY <1>7, <2>1, <2>4, <3>1, <4>1 DEF SettlesAs, SettleRetry
      <4> QED BY <1>1, <1>2, <1>3, <4>2
    <3> QED BY <1>1, <1>2, <1>3, <1>8, <2>4, <3>1 DEF SettleRetry, Attempted, JobIsLeased
  <2>5. CASE SettleDead(w)
    <3>1. CASE DeadLetterRunJob(j) /\ UNCHANGED interruptions
      <4>1. /\ jobs[j].status = "LEASED" /\ jobs'[j] = Released(jobs[j], "DEAD_LETTER")
            /\ \A k \in Jobs : k # j => jobs'[k] = jobs[k]
        BY <1>0, <3>1 DEF DeadLetterRunJob
      <4>2. "DEAD_LETTER" \in JobStatuses
        BY DEF JobStatuses
      <4>3. Goal
        BY <1>6, <2>1, <2>5, <3>1, <4>1, <4>2 DEF SettlesAs, SettleDead
      <4> QED BY <1>1, <1>2, <1>3, <4>3
    <3> QED BY <1>1, <1>2, <1>3, <1>8, <2>5, <3>1 DEF SettleDead, Attempted, JobIsLeased
  <2> QED BY <1>10, <2>2, <2>3, <2>4, <2>5 DEF SettleJob
<1> QED BY <1>9, <1>10

(* The steps of a worker inside processOne: its job stays as it is, and the *)
(* run is saved as RUNNING or with its end status, or not at all.           *)
Starts(w) ==
    /\ pc[w] = "starting" /\ pc'[w] = "running"
    /\ \/ UNCHANGED runs /\ (Refused(RunCtxDone(w)) \/ interruptions' = interruptions + 1)
       \/ runs'[held[w].job] = "RUNNING" /\ \A k \in Jobs : k # held[w].job => runs'[k] = runs[k]

Ends(w) ==
    /\ pc[w] = "running" /\ pc'[w] = "returned"
    /\ \/ /\ UNCHANGED runs /\ ended'[w] = "ERROR"
          /\ Refused(RunCtxDone(w)) \/ interruptions' = interruptions + 1
       \/ /\ ended'[w] \in {"SUCCESS", "FAILED", "CANCELLED"}
          /\ runs'[held[w].job] = ended'[w]
          /\ \A k \in Jobs : k # held[w].job => runs'[k] = runs[k]

Prepares(w) ==
    /\ \/ pc[w] = "leased" /\ pc'[w] = "starting"
       \/ pc[w] = "starting" /\ pc'[w] = "returned" /\ ended'[w] = "ERROR"
    /\ UNCHANGED runs

LEMMA RunEffect ==
  ASSUME QueueInv, PoolShape, NEW w \in Workers,
         \/ WorkflowFound(w) \/ WorkflowInvalid(w) \/ RunStarts(w)
         \/ \E s \in {"SUCCESS", "FAILED", "CANCELLED"} : RunEnds(w, s)
  PROVE  /\ Prepares(w) \/ Starts(w) \/ Ends(w)
         /\ held[w].job \in Jobs
         /\ OnlyMoves(w)
         /\ UNCHANGED <<jobs, held, shutdown, deleting>>
         /\ interruptions' \in {interruptions, interruptions + 1}
<1>0. /\ pc \in [Workers -> Idle \cup Busy] /\ ended \in [Workers -> Outcomes]
      /\ runs \in [Jobs -> RunStatuses]
  BY DEF PoolShape
<1>1. held[w].job \in Jobs
  BY DEF WorkflowFound, WorkflowInvalid, RunStarts, RunEnds, PoolShape, Busy
<1>2. /\ UNCHANGED <<jobs, held, shutdown, deleting>>
      /\ interruptions' \in {interruptions, interruptions + 1}
  BY DEF WorkflowFound, WorkflowInvalid, RunStarts, RunEnds, Fault, queueVars
<1>3. OnlyMoves(w)
  BY <1>0, <1>2 DEF WorkflowFound, WorkflowInvalid, RunStarts, RunEnds, OnlyMoves, SameWorker
<1>4. CASE WorkflowFound(w) \/ WorkflowInvalid(w)
  BY <1>0, <1>1, <1>2, <1>3, <1>4 DEF WorkflowFound, WorkflowInvalid, Prepares
<1>5. CASE RunStarts(w)
  <2>1. Starts(w)
    BY <1>0, <1>1, <1>5 DEF RunStarts, Starts, Fault
  <2> QED BY <1>1, <1>2, <1>3, <2>1
<1>6. CASE \E s \in {"SUCCESS", "FAILED", "CANCELLED"} : RunEnds(w, s)
  <2>1. Ends(w)
    BY <1>0, <1>1, <1>6 DEF RunEnds, Ends, Fault
  <2> QED BY <1>1, <1>2, <1>3, <2>1
<1> QED BY <1>4, <1>5, <1>6

(* The end of a worker process. *)
LEMMA GoneEffect ==
  ASSUME QueueInv, PoolShape, NEW w \in Workers, Crash(w) \/ Stop(w)
  PROVE  /\ pc'[w] = "down" /\ shutdown'[w] = "no"
         /\ OnlyMoves(w)
         /\ interruptions' = interruptions + 1 \/ (pc[w] = "poll" /\ UNCHANGED interruptions)
         /\ UNCHANGED <<jobs, runs, deleting>>
  BY DEF Crash, Stop, Gone, OnlyMoves, SameWorker, PoolShape, queueVars

(* The steps around a worker that leave processOne where it is. *)
LEMMA AsideEffect ==
  ASSUME QueueInv, PoolShape, NEW w \in Workers,
         Heartbeat(w) \/ WatchCancel(w) \/ Drain(w) \/ DrainTimeout(w)
  PROVE  /\ \A k \in Jobs : SameCounts(jobs[k], jobs'[k])
         /\ UNCHANGED <<pc, held, ended, runs, deleting>>
         /\ \A v \in Workers : \/ shutdown'[v] = shutdown[v]
                               \/ shutdown[v] # "no"
                               \/ interruptions' = interruptions + 1
         /\ \A v \in Workers \ {w} : shutdown'[v] = shutdown[v]
         /\ interruptions' \in {interruptions, interruptions + 1}
<1>0. jobs \in [Jobs -> Job] /\ shutdown \in [Workers -> {"no", "draining", "cancelled"}]
  BY DEF QueueInv, TypeOK, PoolShape
<1>1. CASE Heartbeat(w)
  <2>1. held[w].job \in Jobs
    BY <1>1 DEF Heartbeat, PoolShape, Busy
  <2> PICK j \in Jobs : j = held[w].job
    BY <2>1
  <2>2. /\ jobs' = [jobs EXCEPT ![j] = Extended(@)]
        /\ UNCHANGED <<pc, held, ended, shutdown, runs, deleting, interruptions>>
    BY <1>1 DEF Heartbeat, ExtendRunJobLease, workerVars
  <2>3. jobs'[j] = Extended(jobs[j]) /\ \A k \in Jobs : k # j => jobs'[k] = jobs[k]
    BY <1>0, <2>2
  <2>4. jobs[j] \in Job
    BY <1>0
  <2>5. \A k \in Jobs : SameCounts(jobs[k], jobs'[k])
    BY <2>3, <2>4, ExtendedFields DEF SameCounts
  <2> QED BY <2>2, <2>5
<1>2. CASE WatchCancel(w)
  BY <1>2 DEF WatchCancel, queueVars, SameCounts
<1>3. CASE Drain(w)
  BY <1>0, <1>3 DEF Drain, queueVars, SameCounts
<1>4. CASE DrainTimeout(w)
  <2>1. /\ shutdown[w] # "no"
        /\ shutdown' = [shutdown EXCEPT ![w] = "cancelled"]
        /\ UNCHANGED <<jobs, pc, held, ended, runs, deleting, interruptions>>
    BY <1>4 DEF DrainTimeout, queueVars
  <2> QED BY <1>0, <2>1 DEF SameCounts
<1> QED BY <1>1, <1>2, <1>3, <1>4

LEMMA RestartEffect ==
  ASSUME QueueInv, PoolShape, NEW w \in Workers, Restart(w)
  PROVE  /\ pc[w] = "down" /\ pc'[w] = "poll"
         /\ OnlyMoves(w)
         /\ UNCHANGED <<jobs, held, shutdown, runs, deleting, interruptions>>
  BY DEF Restart, OnlyMoves, SameWorker, PoolShape, queueVars

(* The calls of the API on job j. *)
Submits(j) ==
    /\ jobs[j].status = NoStatus
    /\ runs[j] = "none" \/ j \in late'
    /\ jobs'[j].status = "QUEUED"
    /\ jobs'[j].attempts = 0
    /\ jobs'[j].maxAttempts \in Nat \ {0}
    /\ jobs'[j].replayCount = 0
    /\ UNCHANGED <<runs, deleting>>

Cancels(j) ==
    /\ jobs[j].status \notin {"SUCCEEDED", NoStatus}
    /\ jobs'[j].status = "CANCELLED"
    /\ jobs'[j].attempts = jobs[j].attempts
    /\ jobs'[j].maxAttempts = jobs[j].maxAttempts
    /\ jobs'[j].replayCount = jobs[j].replayCount
    /\ UNCHANGED runs
    /\ \A k \in Jobs : k # j => deleting'[k] = deleting[k]
    /\ deleting[j] # "done" \/ deleting'[j] = deleting[j]

Replays(j) ==
    /\ jobs[j].status \in {"FAILED", "DEAD_LETTER"}
    /\ jobs'[j].status = "QUEUED"
    /\ jobs'[j].attempts = jobs[j].attempts
    /\ jobs'[j].maxAttempts = jobs[j].maxAttempts
    /\ jobs'[j].replayCount = jobs[j].replayCount + 1
    /\ UNCHANGED <<runs, deleting>>

Deletes(j) ==
    /\ deleting[j] = "jobCancelled"
    /\ jobs'[j] = jobs[j]
    /\ \A k \in Jobs : k # j => deleting'[k] = deleting[k] /\ runs'[k] = runs[k]
    /\ runs'[j] \in {runs[j], "CANCELLED"}

LEMMA ClientEffect ==
  ASSUME QueueInv, PoolShape, NEW j \in Jobs, ClientCalls(j)
  PROVE  /\ Submits(j) \/ Cancels(j) \/ Replays(j) \/ Deletes(j)
         /\ \A k \in Jobs : k # j => jobs'[k] = jobs[k]
         /\ UNCHANGED <<pc, held, ended, shutdown>>
         /\ interruptions' \in {interruptions, interruptions + 1}
<1>0. /\ jobs \in [Jobs -> Job] /\ runs \in [Jobs -> RunStatuses]
      /\ deleting \in [Jobs -> {"no", "jobCancelled", "done"}]
  BY DEF QueueInv, TypeOK, PoolShape
<1>1. jobs[j] \in Job
  BY <1>0
<1>2. /\ UNCHANGED <<pc, held, ended, shutdown>>
      /\ interruptions' \in {interruptions, interruptions + 1}
  BY DEF ClientCalls, SubmitRun, CancelJob, DeleteRunCancelsJob, DeleteRunSavesRun,
         DeleteRunConflicts, RequeueJob, Fault, workerVars
<1>3. ASSUME CancelRunJob(j), UNCHANGED runs,
             \A k \in Jobs : k # j => deleting'[k] = deleting[k],
             deleting[j] # "done" \/ deleting'[j] = deleting[j]
      PROVE  Cancels(j) /\ \A k \in Jobs : k # j => jobs'[k] = jobs[k]
  <2>1. /\ jobs[j].status \notin {"SUCCEEDED", NoStatus}
        /\ jobs'[j] = Released(jobs[j], "CANCELLED")
        /\ \A k \in Jobs : k # j => jobs'[k] = jobs[k]
    BY <1>0, <1>3 DEF CancelRunJob, Exists
  <2>2. "CANCELLED" \in JobStatuses
    BY DEF JobStatuses
  <2> QED BY <1>1, <1>3, <2>1, <2>2, ReleasedFields DEF Cancels
<1>4. CASE \E limit \in AttemptLimits, c \in Creations : SubmitRun(j, limit, c)
  <2> PICK limit \in AttemptLimits, c \in Creations : SubmitRun(j, limit, c)
    BY <1>4
  <2>1. /\ jobs[j].status = NoStatus
        /\ runs[j] = "none" \/ j \in late'
        /\ jobs'[j] = Submitted(limit, c)
        /\ \A k \in Jobs : k # j => jobs'[k] = jobs[k]
        /\ UNCHANGED <<runs, deleting>>
    BY <1>0 DEF SubmitRun, EnqueueRunJob, Exists
  <2>2. limit \in Nat \ {0}
    BY CounterAssumption
  <2>3. Submits(j)
    BY <2>1, <2>2, SubmittedFields DEF Submits
  <2> QED BY <1>2, <2>1, <2>3
<1>5. CASE CancelJob(j)
  BY <1>2, <1>3, <1>5 DEF CancelJob
<1>6. CASE DeleteRunCancelsJob(j)
  <2>1. /\ UNCHANGED runs
        /\ \A k \in Jobs : k # j => deleting'[k] = deleting[k]
        /\ deleting[j] # "done"
    BY <1>0, <1>6 DEF DeleteRunCancelsJob
  <2>2. CancelRunJob(j)
    BY <1>6 DEF DeleteRunCancelsJob
  <2> QED BY <1>2, <1>3, <2>1, <2>2
<1>7. CASE DeleteRunSavesRun(j) \/ DeleteRunConflicts(j)
  <2>1. /\ deleting[j] = "jobCancelled" /\ UNCHANGED jobs
        /\ \A k \in Jobs : k # j => deleting'[k] = deleting[k] /\ runs'[k] = runs[k]
        /\ runs'[j] \in {runs[j], "CANCELLED"}
    BY <1>0, <1>7 DEF DeleteRunSavesRun, DeleteRunConflicts, queueVars
  <2> QED BY <1>2, <2>1 DEF Deletes
<1>8. CASE \E d \in Delays : RequeueJob(j, d)
  <2> PICK d \in Delays : RequeueJob(j, d)
    BY <1>8
  <2>1. /\ jobs[j].status \in {"FAILED", "DEAD_LETTER"}
        /\ jobs'[j] = Replayed(jobs[j], d)
        /\ \A k \in Jobs : k # j => jobs'[k] = jobs[k]
        /\ UNCHANGED <<runs, deleting>>
    BY <1>0 DEF RequeueJob, RequeueRunJob
  <2>2. d \in Nat
    BY DurationAssumption
  <2>3. Replays(j)
    BY <1>1, <2>1, <2>2, ReplayedFields DEF Replays
  <2> QED BY <1>2, <2>1, <2>3
<1> QED BY <1>4, <1>5, <1>6, <1>7, <1>8 DEF ClientCalls

(* A purge removes jobs of the statuses it was asked for. *)
LEMMA PurgeEffect ==
  ASSUME QueueInv, PoolShape, NEW s \in PurgeStatuses, NEW a \in PurgeAges, NEW n \in PurgeLimits,
         PurgeJobs(s, a, n)
  PROVE  /\ \A k \in Jobs : \/ jobs'[k] = jobs[k]
                            \/ /\ jobs'[k].status = NoStatus
                               /\ jobs[k].status # NoStatus
                               /\ s = NoStatus \/ jobs[k].status = s
         /\ UNCHANGED <<pc, held, ended, shutdown, runs, deleting, interruptions>>
<1> PICK D \in SUBSET Jobs : D \subseteq Purgeable(s, a) /\ Delete(D)
  BY DEF PurgeJobs, PurgeRunJobs, PurgeChoice
<1>1. UNCHANGED <<pc, held, ended, shutdown, runs, deleting, interruptions>>
  BY DEF PurgeJobs, workerVars
<1>2. \A k \in Jobs : jobs'[k] = IF k \in D THEN NoJob ELSE jobs[k]
  BY DEF Delete
<1>3. \A k \in D : jobs[k].status # NoStatus /\ (s = NoStatus \/ jobs[k].status = s)
  BY DEF Purgeable, Exists
<1> QED BY <1>1, <1>2, <1>3, NoJobFields

LEMMA TickEffect ==
  ASSUME QueueInv, PoolShape, PoolTick
  PROVE  /\ \A k \in Jobs : SameCounts(jobs[k], jobs'[k])
         /\ UNCHANGED <<pc, held, ended, shutdown, runs, deleting, interruptions>>
<1>1. /\ \A k \in Jobs : jobs'[k] = Aged(jobs[k])
      /\ UNCHANGED <<pc, held, ended, shutdown, runs, deleting, interruptions>>
  BY DEF PoolTick, Tick, workerVars
<1>2. \A k \in Jobs : jobs[k] \in Job
  BY DEF QueueInv, TypeOK
<1> QED BY <1>1, <1>2, AgedFields DEF SameCounts

(* A step of the pool is one of these. *)
LEMMA PoolStepCases ==
  ASSUME PoolNext
  PROVE  \/ \E w \in Workers, j \in Jobs : Lease(w, j)
         \/ \E w \in Workers : WorkflowMissing(w) \/ SettleJob(w)
         \/ \E w \in Workers :
               \/ WorkflowFound(w) \/ WorkflowInvalid(w) \/ RunStarts(w)
               \/ \E s \in {"SUCCESS", "FAILED", "CANCELLED"} : RunEnds(w, s)
         \/ \E w \in Workers : Crash(w) \/ Stop(w)
         \/ \E w \in Workers : Heartbeat(w) \/ WatchCancel(w) \/ Drain(w) \/ DrainTimeout(w)
         \/ \E w \in Workers : Restart(w)
         \/ \E j \in Jobs : ClientCalls(j)
         \/ \E s \in PurgeStatuses, a \in PurgeAges, n \in PurgeLimits : PurgeJobs(s, a, n)
         \/ PoolTick
<1>1. ASSUME NEW w \in Workers, Progress(w)
      PROVE  \/ \E j \in Jobs : Lease(w, j)
             \/ WorkflowMissing(w) \/ SettleJob(w)
             \/ WorkflowFound(w) \/ WorkflowInvalid(w) \/ RunStarts(w)
             \/ \E s \in {"SUCCESS", "FAILED", "CANCELLED"} : RunEnds(w, s)
             \/ Stop(w)
  BY <1>1 DEF Progress
<1>2. ASSUME NEW w \in Workers, Environment(w)
      PROVE  Crash(w) \/ Drain(w) \/ DrainTimeout(w) \/ Restart(w)
  BY <1>2 DEF Environment
<1>3. \/ \E w \in Workers : Progress(w)
      \/ \E w \in Workers : Heartbeat(w) \/ WatchCancel(w)
      \/ \E w \in Workers : Environment(w)
      \/ \E j \in Jobs : ClientCalls(j)
      \/ \E s \in PurgeStatuses, a \in PurgeAges, n \in PurgeLimits : PurgeJobs(s, a, n)
      \/ PoolTick
  BY Zenon DEF PoolNext
<1> QED BY <1>1, <1>2, <1>3, Zenon

-----------------------------------------------------------------------------
(* DELETE /runs/{id}.  Between its two parts, and ever after, the job is    *)
(* CANCELLED: nothing but a purge leads out of that status.                 *)
PurgeSparesCancelled == PurgeStatuses \cap {NoStatus, "CANCELLED"} = {}

DeletedInv == \A j \in Jobs : deleting[j] # "no" => jobs[j].status = "CANCELLED"

(* A CANCELLED job stays CANCELLED, nobody takes it up, and a deletion that *)
(* is done stays done.                                                      *)
CancelledIsFinal(j) ==
    /\ jobs'[j].status = "CANCELLED"
    /\ \A w \in Workers : Executing(w, j)' => Executing(w, j)
    /\ deleting[j] = "done" => deleting'[j] = "done"

LEMMA CancelledStays ==
  ASSUME PurgeSparesCancelled, QueueInv, PoolShape, PoolNext,
         NEW j \in Jobs, jobs[j].status = "CANCELLED"
  PROVE  CancelledIsFinal(j)
<1> USE DEF CancelledIsFinal
<1>0. NoStatus # "CANCELLED"
  BY DEF NoStatus
<1>1. CASE \E w \in Workers, k \in Jobs : Lease(w, k)
  <2> PICK w \in Workers, k \in Jobs : Lease(w, k)
    BY <1>1
  <2>1. k # j
    BY LeaseEffect DEF Leasable
  <2>2. jobs'[j] = jobs[j] /\ UNCHANGED deleting /\ held'[w].job = k /\ OnlyMoves(w)
    BY <2>1, LeaseEffect
  <2>3. \A v \in Workers : Executing(v, j)' => Executing(v, j)
    BY <2>1, <2>2 DEF Executing, OnlyMoves, SameWorker
  <2> QED BY <2>2, <2>3
<1>2. CASE \E w \in Workers : WorkflowMissing(w) \/ SettleJob(w)
  <2> PICK w \in Workers : WorkflowMissing(w) \/ SettleJob(w)
    BY <1>2
  <2>1. /\ \A k \in Jobs : k # held[w].job => jobs'[k] = jobs[k]
        /\ SettlesAs(w, jobs[held[w].job], jobs'[held[w].job])
        /\ pc'[w] = "poll" /\ OnlyMoves(w) /\ UNCHANGED deleting
    BY SettleEffect
  <2>2. jobs'[j].status = "CANCELLED"
    BY <2>1 DEF SettlesAs
  <2>3. \A v \in Workers : Executing(v, j)' => Executing(v, j)
    BY <2>1 DEF Executing, OnlyMoves, SameWorker, Busy
  <2> QED BY <2>1, <2>2, <2>3
<1>3. CASE \E w \in Workers :
              \/ WorkflowFound(w) \/ WorkflowInvalid(w) \/ RunStarts(w)
              \/ \E s \in {"SUCCESS", "FAILED", "CANCELLED"} : RunEnds(w, s)
  <2> PICK w \in Workers :
              \/ WorkflowFound(w) \/ WorkflowInvalid(w) \/ RunStarts(w)
              \/ \E s \in {"SUCCESS", "FAILED", "CANCELLED"} : RunEnds(w, s)
    BY <1>3
  <2>1. UNCHANGED <<jobs, held, deleting>> /\ OnlyMoves(w) /\ pc[w] \in Busy
    BY RunEffect DEF Prepares, Starts, Ends, Busy
  <2> QED BY <2>1 DEF Executing, OnlyMoves, SameWorker
<1>4. CASE \E w \in Workers : Crash(w) \/ Stop(w)
  <2> PICK w \in Workers : Crash(w) \/ Stop(w)
    BY <1>4
  <2>1. UNCHANGED <<jobs, deleting>> /\ OnlyMoves(w) /\ pc'[w] = "down"
    BY GoneEffect
  <2> QED BY <2>1 DEF Executing, OnlyMoves, SameWorker, Busy
<1>5. CASE \E w \in Workers : Heartbeat(w) \/ WatchCancel(w) \/ Drain(w) \/ DrainTimeout(w)
  <2>1. SameCounts(jobs[j], jobs'[j]) /\ UNCHANGED <<pc, held, deleting>>
    BY <1>5, AsideEffect
  <2> QED BY <2>1 DEF SameCounts, Executing
<1>6. CASE \E w \in Workers : Restart(w)
  <2> PICK w \in Workers : Restart(w)
    BY <1>6
  <2>1. UNCHANGED <<jobs, deleting>> /\ OnlyMoves(w) /\ pc'[w] = "poll"
    BY RestartEffect
  <2> QED BY <2>1 DEF Executing, OnlyMoves, SameWorker, Busy
<1>7. CASE \E k \in Jobs : ClientCalls(k)
  <2> PICK k \in Jobs : ClientCalls(k)
    BY <1>7
  <2>1. /\ Submits(k) \/ Cancels(k) \/ Replays(k) \/ Deletes(k)
        /\ k # j => jobs'[j] = jobs[j]
        /\ UNCHANGED <<pc, held>>
    BY ClientEffect
  <2> QED BY <1>0, <2>1 DEF Submits, Cancels, Replays, Deletes, Executing
<1>8. CASE \E s \in PurgeStatuses, a \in PurgeAges, n \in PurgeLimits : PurgeJobs(s, a, n)
  <2> PICK s \in PurgeStatuses, a \in PurgeAges, n \in PurgeLimits : PurgeJobs(s, a, n)
    BY <1>8
  <2>1. s # NoStatus /\ s # "CANCELLED"
    BY DEF PurgeSparesCancelled
  <2>2. /\ \/ jobs'[j] = jobs[j]
           \/ s = NoStatus \/ jobs[j].status = s
        /\ UNCHANGED <<pc, held, deleting>>
    BY PurgeEffect
  <2> QED BY <2>1, <2>2 DEF Executing
<1>9. CASE PoolTick
  <2>1. SameCounts(jobs[j], jobs'[j]) /\ UNCHANGED <<pc, held, deleting>>
    BY <1>9, TickEffect
  <2> QED BY <2>1 DEF SameCounts, Executing
<1> QED BY <1>1, <1>2, <1>3, <1>4, <1>5, <1>6, <1>7, <1>8, <1>9, PoolStepCases

LEMMA DeletedStep ==
  ASSUME PurgeSparesCancelled, QueueInv, PoolShape, DeletedInv, PoolNext
  PROVE  DeletedInv'
<1> SUFFICES ASSUME NEW j \in Jobs, deleting'[j] # "no" PROVE jobs'[j].status = "CANCELLED"
  BY DEF DeletedInv
<1>1. CASE deleting[j] # "no"
  BY <1>1, CancelledStays DEF DeletedInv, CancelledIsFinal
<1>2. CASE deleting[j] = "no"
  <2>1. deleting' # deleting
    BY <1>2
  <2>2. \E k \in Jobs : ClientCalls(k)
    <3>1. ASSUME NEW w \in Workers, NEW k \in Jobs, Lease(w, k) PROVE FALSE
      BY <2>1, <3>1, LeaseEffect
    <3>2. ASSUME NEW w \in Workers, WorkflowMissing(w) \/ SettleJob(w) PROVE FALSE
      BY <2>1, <3>2, SettleEffect
    <3>3. ASSUME NEW w \in Workers,
                 \/ WorkflowFound(w) \/ WorkflowInvalid(w) \/ RunStarts(w)
                 \/ \E s \in {"SUCCESS", "FAILED", "CANCELLED"} : RunEnds(w, s)
          PROVE  FALSE
      BY <2>1, <3>3, RunEffect
    <3>4. ASSUME NEW w \in Workers, Crash(w) \/ Stop(w) PROVE FALSE
      BY <2>1, <3>4, GoneEffect
    <3>5. ASSUME NEW w \in Workers, Heartbeat(w) \/ WatchCancel(w) \/ Drain(w) \/ DrainTimeout(w)
          PROVE  FALSE
      BY <2>1, <3>5, AsideEffect
    <3>6. ASSUME NEW w \in Workers, Restart(w) PROVE FALSE
      BY <2>1, <3>6, RestartEffect
    <3>7. ASSUME NEW s \in PurgeStatuses, NEW a \in PurgeAges, NEW n \in PurgeLimits,
                 PurgeJobs(s, a, n)
          PROVE  FALSE
      BY <2>1, <3>7, PurgeEffect
    <3>8. ASSUME PoolTick PROVE FALSE
      BY <2>1, <3>8, TickEffect
    <3> QED BY <3>1, <3>2, <3>3, <3>4, <3>5, <3>6, <3>7, <3>8, PoolStepCases
  <2> PICK k \in Jobs : ClientCalls(k)
    BY <2>2
  <2>3. Submits(k) \/ Cancels(k) \/ Replays(k) \/ Deletes(k)
    BY ClientEffect
  <2> QED BY <1>2, <2>1, <2>3 DEF Submits, Cancels, Replays, Deletes
<1> QED BY <1>1, <1>2

(* As long as no purge takes CANCELLED jobs, a deleted run is never taken   *)
(* up again and its job stays CANCELLED: whatever the workers on it do, in  *)
(* time or late, and whatever replays, retries and crashes come between.    *)
THEOREM DeletionIsFinal ==
  ASSUME PurgeSparesCancelled
  PROVE  PoolSpec => DeletedRunNotTakenAgain
<1> DEFINE Inv == QueueInv /\ PoolShape /\ DeletedInv
           Fact == \A j \in Jobs :
                      Deleted(j) /\ Exists(j) =>
                          /\ \A w \in Workers : Executing(w, j)' => Executing(w, j)
                          /\ Exists(j)' => jobs'[j].status = "CANCELLED"
<1>1. PoolInit => Inv
  <2>1. PoolInit => DeletedInv
    BY DEF PoolInit, DeletedInv
  <2> QED BY <2>1, PoolTypesInit
<1>2. Inv /\ [PoolNext]_poolVars => Inv'
  <2> SUFFICES ASSUME Inv, [PoolNext]_poolVars PROVE Inv'
    OBVIOUS
  <2>1. (QueueInv /\ PoolShape)'
    BY PoolTypesStep
  <2>2. CASE PoolNext
    BY <2>1, <2>2, DeletedStep
  <2>3. CASE UNCHANGED poolVars
    <3>1. DeletedInv'
      BY <2>3 DEF DeletedInv, poolVars, queueVars
    <3> QED BY <2>1, <3>1
  <2> QED BY <2>2, <2>3
<1>3. Inv /\ [PoolNext]_poolVars => [Fact]_poolVars
  <2> SUFFICES ASSUME Inv, PoolNext PROVE Fact
    OBVIOUS
  <2> SUFFICES ASSUME NEW j \in Jobs, Deleted(j)
               PROVE  /\ \A w \in Workers : Executing(w, j)' => Executing(w, j)
                      /\ jobs'[j].status = "CANCELLED"
    OBVIOUS
  <2>1. jobs[j].status = "CANCELLED"
    BY DEF Deleted, DeletedInv
  <2> QED BY <2>1, CancelledStays DEF CancelledIsFinal
<1> HIDE DEF Inv
<1>4. PoolSpec => [][Fact]_poolVars
  BY <1>1, <1>2, <1>3, PTL DEF PoolSpec
<1> QED BY <1>4 DEF DeletedRunNotTakenAgain

-----------------------------------------------------------------------------
(* Runs left behind.  Until an interruption, a run recorded as RUNNING has a *)
(* worker inside RunWithID, who will save how it ended, or its job was       *)
(* CANCELLED: only the watcher closes the context of that last save, and it  *)
(* has seen the job CANCELLED.                                               *)
RunningInv ==
    \A j \in Jobs :
        interruptions = 0 /\ runs[j] = "RUNNING"
            => \/ jobs[j].status = "CANCELLED"
               \/ \E w \in Workers : Executing(w, j) /\ pc[w] = "running"

CancelSeen ==
    \A w \in Workers : runCancelled[w] => pc[w] \in Busy /\ jobs[held[w].job].status = "CANCELLED"

ShutdownCounted == \A w \in Workers : shutdown[w] # "no" => interruptions > 0

(* A context that runCancel has closed is the one of the run the worker is  *)
(* still on, unless the watcher closes it now.                              *)
SameRun(w) == runCancelled[w] /\ pc'[w] \in Busy /\ held'[w] = held[w]

LEMMA CancelSource ==
  ASSUME PoolShape, CancelSeen, PoolNext, NEW w \in Workers, runCancelled'[w]
  PROVE  WatchCancel(w) \/ SameRun(w)
<1>0. /\ runCancelled \in [Workers -> BOOLEAN] /\ pc \in [Workers -> Idle \cup Busy]
      /\ held \in [Workers -> Snapshot]
      /\ runCancelled[w] => pc[w] \in Busy
  BY DEF PoolShape, CancelSeen
<1>1. ASSUME NEW v \in Workers, NEW j \in Jobs, Lease(v, j) PROVE SameRun(w)
  <2>1. /\ pc[v] = "poll" /\ UNCHANGED runCancelled
        /\ v # w => pc'[w] = pc[w] /\ held'[w] = held[w]
    BY <1>0, <1>1 DEF Lease
  <2>2. v # w
    BY <1>0, <2>1 DEF Busy
  <2> QED BY <1>0, <2>1, <2>2 DEF SameRun
<1>2. ASSUME NEW v \in Workers,
             /\ runCancelled' = [runCancelled EXCEPT ![v] = FALSE]
             /\ \E p : pc' = [pc EXCEPT ![v] = p]
             /\ held' = [held EXCEPT ![v] = NoHold]
      PROVE  SameRun(w)
  <2>1. v # w /\ runCancelled[w]
    BY <1>0, <1>2
  <2> QED BY <1>0, <1>2, <2>1 DEF SameRun
<1>3. ASSUME NEW v \in Workers, UNCHANGED <<held, runCancelled>>,
             \E p \in Busy : pc' = [pc EXCEPT ![v] = p]
      PROVE  SameRun(w)
  BY <1>0, <1>3 DEF SameRun
<1>4. ASSUME UNCHANGED <<pc, held, runCancelled>> PROVE SameRun(w)
  BY <1>0, <1>4 DEF SameRun
<1>5. ASSUME NEW v \in Workers, WorkflowMissing(v) \/ SettleJob(v) PROVE SameRun(w)
  BY <1>2, <1>5 DEF WorkflowMissing, SettleJob, Release
<1>6. ASSUME NEW v \in Workers,
             \/ WorkflowFound(v) \/ WorkflowInvalid(v) \/ RunStarts(v)
             \/ \E s \in {"SUCCESS", "FAILED", "CANCELLED"} : RunEnds(v, s)
      PROVE  SameRun(w)
  BY <1>3, <1>6 DEF WorkflowFound, WorkflowInvalid, RunStarts, RunEnds, Busy
<1>7. ASSUME NEW v \in Workers, Crash(v) \/ Stop(v) PROVE SameRun(w)
  BY <1>2, <1>7 DEF Crash, Stop, Gone
<1>8. ASSUME NEW v \in Workers, Heartbeat(v) \/ WatchCancel(v) \/ Drain(v) \/ DrainTimeout(v)
      PROVE  WatchCancel(w) \/ SameRun(w)
  <2>1. CASE WatchCancel(v) /\ v # w
    BY <1>0, <2>1 DEF WatchCancel, SameRun
  <2> QED BY <1>4, <1>8, <2>1 DEF Heartbeat, Drain, DrainTimeout, workerVars
<1>9. ASSUME NEW v \in Workers, Restart(v) PROVE SameRun(w)
  <2>1. v # w
    BY <1>0, <1>9 DEF Restart, Busy
  <2> QED BY <1>0, <1>9, <2>1 DEF Restart, SameRun
<1>10. ASSUME NEW j \in Jobs, ClientCalls(j) PROVE SameRun(w)
  BY <1>4, <1>10 DEF ClientCalls, SubmitRun, CancelJob, DeleteRunCancelsJob, DeleteRunSavesRun,
                     DeleteRunConflicts, RequeueJob, workerVars
<1>11. ASSUME NEW s \in PurgeStatuses, NEW a \in PurgeAges, NEW n \in PurgeLimits,
              PurgeJobs(s, a, n)
       PROVE  SameRun(w)
  BY <1>4, <1>11 DEF PurgeJobs, workerVars
<1>12. ASSUME PoolTick PROVE SameRun(w)
  BY <1>4, <1>12 DEF PoolTick, workerVars
<1> QED BY <1>1, <1>5, <1>6, <1>7, <1>8, <1>9, <1>10, <1>11, <1>12, PoolStepCases

LEMMA CancelSeenStep ==
  ASSUME PurgeSparesCancelled, QueueInv, PoolShape, CancelSeen, PoolNext
  PROVE  CancelSeen'
<1> SUFFICES ASSUME NEW w \in Workers, runCancelled'[w]
             PROVE  pc'[w] \in Busy /\ jobs'[held'[w].job].status = "CANCELLED"
  BY DEF CancelSeen
<1>1. CASE WatchCancel(w)
  BY <1>1 DEF WatchCancel, queueVars, Busy
<1>2. CASE SameRun(w)
  <2>1. pc[w] \in Busy /\ jobs[held[w].job].status = "CANCELLED"
    BY <1>2 DEF CancelSeen, SameRun
  <2>2. held[w].job \in Jobs
    BY <2>1 DEF PoolShape
  <2>3. jobs'[held[w].job].status = "CANCELLED"
    BY <2>1, <2>2, CancelledStays DEF CancelledIsFinal
  <2> QED BY <1>2, <2>3 DEF SameRun
<1> QED BY <1>1, <1>2, CancelSource

LEMMA ShutdownStep ==
  ASSUME QueueInv, PoolShape, ShutdownCounted, PoolNext
  PROVE  ShutdownCounted'
<1>0. interruptions \in Nat
  BY PoolAssumption DEF PoolShape
<1> SUFFICES ASSUME NEW v \in Workers, shutdown'[v] # "no" PROVE interruptions' > 0
  BY DEF ShutdownCounted
<1>a. ASSUME UNCHANGED shutdown, interruptions' \in {interruptions, interruptions + 1}
      PROVE  interruptions' > 0
  BY <1>0, <1>a DEF ShutdownCounted
<1>1. ASSUME NEW w \in Workers, Crash(w) \/ Stop(w) PROVE interruptions' > 0
  <2>1. /\ v # w => shutdown'[v] = shutdown[v]
        /\ shutdown'[w] = "no"
        /\ interruptions' = interruptions + 1 \/ UNCHANGED interruptions
    BY <1>1, GoneEffect DEF OnlyMoves, SameWorker
  <2> QED BY <1>0, <2>1 DEF ShutdownCounted
<1>2. ASSUME NEW w \in Workers, Heartbeat(w) \/ WatchCancel(w) \/ Drain(w) \/ DrainTimeout(w)
      PROVE  interruptions' > 0
  <2>1. /\ \/ shutdown'[v] = shutdown[v]
           \/ shutdown[v] # "no"
           \/ interruptions' = interruptions + 1
        /\ interruptions' \in {interruptions, interruptions + 1}
    BY <1>2, AsideEffect
  <2> QED BY <1>0, <2>1 DEF ShutdownCounted
<1>3. ASSUME NEW w \in Workers, NEW k \in Jobs, Lease(w, k) PROVE interruptions' > 0
  BY <1>a, <1>3, LeaseEffect
<1>4. ASSUME NEW w \in Workers, WorkflowMissing(w) \/ SettleJob(w) PROVE interruptions' > 0
  BY <1>a, <1>4, SettleEffect
<1>5. ASSUME NEW w \in Workers,
             \/ WorkflowFound(w) \/ WorkflowInvalid(w) \/ RunStarts(w)
             \/ \E s \in {"SUCCESS", "FAILED", "CANCELLED"} : RunEnds(w, s)
      PROVE  interruptions' > 0
  BY <1>a, <1>5, RunEffect
<1>6. ASSUME NEW w \in Workers, Restart(w) PROVE interruptions' > 0
  BY <1>a, <1>6, RestartEffect
<1>7. ASSUME NEW k \in Jobs, ClientCalls(k) PROVE interruptions' > 0
  BY <1>a, <1>7, ClientEffect
<1>8. ASSUME NEW s \in PurgeStatuses, NEW a \in PurgeAges, NEW n \in PurgeLimits,
             PurgeJobs(s, a, n)
      PROVE  interruptions' > 0
  BY <1>a, <1>8, PurgeEffect
<1>9. ASSUME PoolTick PROVE interruptions' > 0
  BY <1>a, <1>9, TickEffect
<1> QED BY <1>1, <1>2, <1>3, <1>4, <1>5, <1>6, <1>7, <1>8, <1>9, PoolStepCases

LEMMA RunningStep ==
  ASSUME PurgeSparesCancelled, QueueInv, PoolShape, CancelSeen, ShutdownCounted, RunningInv, PoolNext
  PROVE  RunningInv'
<1> SUFFICES ASSUME NEW j \in Jobs, interruptions' = 0, runs'[j] = "RUNNING",
                    jobs'[j].status # "CANCELLED"
             PROVE  \E v \in Workers : Executing(v, j)' /\ pc'[v] = "running"
  BY DEF RunningInv
<1>0. interruptions \in Nat
  BY PoolAssumption DEF PoolShape
<1>c. jobs[j].status # "CANCELLED"
  BY CancelledStays DEF CancelledIsFinal
<1>a. ASSUME NEW w \in Workers, pc[w] # "running", OnlyMoves(w), UNCHANGED runs,
             interruptions' \in {interruptions, interruptions + 1}
      PROVE  \E v \in Workers : Executing(v, j)' /\ pc'[v] = "running"
  <2>0. runs[j] = "RUNNING" /\ interruptions = 0
    BY <1>0, <1>a
  <2> PICK v \in Workers : Executing(v, j) /\ pc[v] = "running"
    BY <1>c, <2>0 DEF RunningInv
  <2>1. v # w
    BY <1>a
  <2>2. pc'[v] = pc[v] /\ held'[v] = held[v]
    BY <1>a, <2>1 DEF OnlyMoves, SameWorker
  <2> QED BY <2>2 DEF Executing
<1>b. ASSUME UNCHANGED <<pc, held>>, runs'[j] \in {runs[j], "CANCELLED"},
             interruptions' \in {interruptions, interruptions + 1}
      PROVE  \E v \in Workers : Executing(v, j)' /\ pc'[v] = "running"
  <2>1. runs[j] = "RUNNING" /\ interruptions = 0
    BY <1>0, <1>b
  <2> PICK v \in Workers : Executing(v, j) /\ pc[v] = "running"
    BY <1>c, <2>1 DEF RunningInv
  <2> QED BY <1>b DEF Executing
<1>1. ASSUME NEW w \in Workers, NEW k \in Jobs, Lease(w, k)
      PROVE  \E v \in Workers : Executing(v, j)' /\ pc'[v] = "running"
  <2>1. pc[w] # "running" /\ OnlyMoves(w) /\ UNCHANGED runs
        /\ interruptions' \in {interruptions, interruptions + 1}
    BY <1>1, LeaseEffect
  <2> QED BY <1>a, <2>1
<1>2. ASSUME NEW w \in Workers, WorkflowMissing(w) \/ SettleJob(w)
      PROVE  \E v \in Workers : Executing(v, j)' /\ pc'[v] = "running"
  <2>1. pc[w] # "running" /\ OnlyMoves(w) /\ UNCHANGED runs
        /\ interruptions' \in {interruptions, interruptions + 1}
    BY <1>2, SettleEffect
  <2> QED BY <1>a, <2>1
<1>3. ASSUME NEW w \in Workers,
             \/ WorkflowFound(w) \/ WorkflowInvalid(w) \/ RunStarts(w)
             \/ \E s \in {"SUCCESS", "FAILED", "CANCELLED"} : RunEnds(w, s)
      PROVE  \E v \in Workers : Executing(v, j)' /\ pc'[v] = "running"
  <2>1. /\ Prepares(w) \/ Starts(w) \/ Ends(w)
        /\ held[w].job \in Jobs /\ OnlyMoves(w) /\ UNCHANGED held
        /\ interruptions' \in {interruptions, interruptions + 1}
    BY <1>3, RunEffect
  <2>a. interruptions = 0 /\ UNCHANGED interruptions
    BY <1>0, <2>1
  <2>2. Refused(RunCtxDone(w)) => held[w].job # j
    BY <1>c, <2>a DEF Refused, RunCtxDone, WorkerCtxDone, CancelSeen, ShutdownCounted
  <2>3. CASE Prepares(w)
    BY <1>a, <2>1, <2>3 DEF Prepares
  <2>4. CASE Starts(w) /\ held[w].job = j
    <3>1. runs'[j] = "RUNNING" /\ pc'[w] = "running"
      BY <2>4 DEF Starts
    <3> QED BY <2>1, <2>4, <3>1 DEF Executing, Busy
  <2>5. CASE (Starts(w) \/ Ends(w)) /\ held[w].job # j
    <3>1. runs[j] = "RUNNING"
      BY <2>5 DEF Starts, Ends
    <3> PICK v \in Workers : Executing(v, j) /\ pc[v] = "running"
      BY <1>c, <2>a, <3>1 DEF RunningInv
    <3>2. v # w
      BY <2>5 DEF Executing
    <3> QED BY <2>1, <3>2 DEF OnlyMoves, SameWorker, Executing
  <2>6. CASE Ends(w) /\ held[w].job = j
    <3>1. runs'[j] = ended'[w] /\ ended'[w] \in {"SUCCESS", "FAILED", "CANCELLED"}
      BY <1>0, <2>2, <2>6, <2>a DEF Ends
    <3> QED BY <3>1
  <2> QED BY <2>1, <2>3, <2>4, <2>5, <2>6
<1>4. ASSUME NEW w \in Workers, Crash(w) \/ Stop(w)
      PROVE  \E v \in Workers : Executing(v, j)' /\ pc'[v] = "running"
  <2>1. interruptions' # interruptions + 1
    BY <1>0
  <2>2. pc[w] # "running" /\ OnlyMoves(w) /\ UNCHANGED runs
        /\ interruptions' \in {interruptions, interruptions + 1}
    BY <1>4, <2>1, GoneEffect
  <2> QED BY <1>a, <2>2
<1>5. ASSUME NEW w \in Workers, Heartbeat(w) \/ WatchCancel(w) \/ Drain(w) \/ DrainTimeout(w)
      PROVE  \E v \in Workers : Executing(v, j)' /\ pc'[v] = "running"
  BY <1>5, <1>b, AsideEffect
<1>6. ASSUME NEW w \in Workers, Restart(w)
      PROVE  \E v \in Workers : Executing(v, j)' /\ pc'[v] = "running"
  <2>1. pc[w] # "running" /\ OnlyMoves(w) /\ UNCHANGED runs
        /\ interruptions' \in {interruptions, interruptions + 1}
    BY <1>6, RestartEffect
  <2> QED BY <1>a, <2>1
<1>7. ASSUME NEW k \in Jobs, ClientCalls(k)
      PROVE  \E v \in Workers : Executing(v, j)' /\ pc'[v] = "running"
  <2>1. /\ Submits(k) \/ Cancels(k) \/ Replays(k) \/ Deletes(k)
        /\ UNCHANGED <<pc, held>> /\ interruptions' \in {interruptions, interruptions + 1}
    BY <1>7, ClientEffect
  <2>2. runs'[j] \in {runs[j], "CANCELLED"}
    BY <2>1 DEF Submits, Cancels, Replays, Deletes
  <2> QED BY <1>b, <2>1, <2>2
<1>8. ASSUME NEW s \in PurgeStatuses, NEW a \in PurgeAges, NEW n \in PurgeLimits, PurgeJobs(s, a, n)
      PROVE  \E v \in Workers : Executing(v, j)' /\ pc'[v] = "running"
  BY <1>8, <1>b, PurgeEffect
<1>9. ASSUME PoolTick
      PROVE  \E v \in Workers : Executing(v, j)' /\ pc'[v] = "running"
  BY <1>9, <1>b, TickEffect
<1> QED BY <1>1, <1>2, <1>3, <1>4, <1>5, <1>6, <1>7, <1>8, <1>9, PoolStepCases

(* As long as no purge takes CANCELLED jobs, a run left recorded as RUNNING  *)
(* with no worker on it belongs to a CANCELLED job, unless there was an      *)
(* interruption: even with workers slower than their leases.                 *)
THEOREM RunsLeftRunning ==
  ASSUME PurgeSparesCancelled
  PROVE  PoolSpec => []RunLeftRunningIsExplained
<1> DEFINE Inv == QueueInv /\ PoolShape /\ CancelSeen /\ ShutdownCounted /\ RunningInv
<1>1. PoolInit => Inv
  <2>1. PoolInit => CancelSeen /\ ShutdownCounted /\ RunningInv
    BY DEF PoolInit, CancelSeen, ShutdownCounted, RunningInv
  <2> QED BY <2>1, PoolTypesInit
<1>2. Inv /\ [PoolNext]_poolVars => Inv'
  <2> SUFFICES ASSUME Inv, [PoolNext]_poolVars PROVE Inv'
    OBVIOUS
  <2>1. (QueueInv /\ PoolShape)'
    BY PoolTypesStep
  <2>2. CASE PoolNext
    BY <2>1, <2>2, CancelSeenStep, ShutdownStep, RunningStep
  <2>3. CASE UNCHANGED poolVars
    <3>1. UNCHANGED <<jobs, pc, held, runCancelled, shutdown, runs, interruptions>>
      BY <2>3 DEF poolVars, workerVars, queueVars
    <3>2. CancelSeen' /\ ShutdownCounted' /\ RunningInv'
      BY <3>1 DEF CancelSeen, ShutdownCounted, RunningInv, Executing
    <3> QED BY <2>1, <3>2
  <2> QED BY <2>2, <2>3
<1>3. Inv => RunLeftRunningIsExplained
  <2>1. PoolShape => interruptions \in Nat
    BY PoolAssumption DEF PoolShape
  <2> QED BY <2>1 DEF RunningInv, RunLeftRunningIsExplained
<1> HIDE DEF Inv
<1> QED BY <1>1, <1>2, <1>3, PTL DEF PoolSpec

-----------------------------------------------------------------------------
(* Timely workers.  With Exclusion a worker that executes a job is the only *)
(* one, and the job is LEASED or CANCELLED.                                 *)
LEMMA SoleHolder ==
  ASSUME PoolShape, Exclusion, NEW w \in Workers, pc[w] \in Busy
  PROVE  /\ held[w].job \in Jobs
         /\ jobs[held[w].job].status \in {"LEASED", "CANCELLED"}
         /\ \A v \in Workers : Executing(v, held[w].job) => v = w
<1>1. held[w].job \in Jobs
  BY DEF PoolShape
<1>2. jobs[held[w].job].status \in {"LEASED", "CANCELLED"}
  BY DEF Exclusion, LeaseHeldWhileExecuting, HeldBy
<1>3. \A v \in Workers : Executing(v, held[w].job) => v = w
  BY <1>1 DEF Exclusion, ExclusiveExecution, Executing
<1> QED BY <1>1, <1>2, <1>3

LEMMA SparesUseSparesCancelled == PurgeSparesUse => PurgeSparesCancelled
  BY DEF PurgeSparesUse, PurgeSparesCancelled

(* The end of a run and the settling of its job are two steps: in between   *)
(* the worker remembers the success and the run records it.                 *)
ResultInv ==
    \A j \in Jobs :
        /\ jobs[j].status = "SUCCEEDED" => runs[j] = "SUCCESS"
        /\ \A w \in Workers :
              /\ Executing(w, j) /\ jobs[j].status = "LEASED"
              /\ pc[w] = "returned" /\ ended[w] = "SUCCESS"
              => runs[j] = "SUCCESS"

LEMMA ResultStep ==
  ASSUME TimelyHeartbeats, PurgeSparesUse, QueueInv, PoolShape, Exclusion, DeletedInv, ResultInv,
         PoolNext
  PROVE  ResultInv'
<1> DEFINE Goal(j) ==
      /\ jobs'[j].status = "SUCCEEDED" => runs'[j] = "SUCCESS"
      /\ \A w \in Workers :
            /\ pc'[w] = "returned" /\ held'[w].job = j /\ jobs'[j].status = "LEASED"
            /\ ended'[w] = "SUCCESS"
            => runs'[j] = "SUCCESS"
<1> SUFFICES ASSUME NEW j \in Jobs PROVE Goal(j)
  BY DEF ResultInv, Executing
<1>0. /\ jobs[j].status = "SUCCEEDED" => runs[j] = "SUCCESS"
      /\ \A w \in Workers :
            /\ pc[w] = "returned" /\ held[w].job = j /\ jobs[j].status = "LEASED"
            /\ ended[w] = "SUCCESS"
            => runs[j] = "SUCCESS"
  BY DEF ResultInv, Executing, Busy
<1>1. ASSUME NEW w \in Workers, NEW k \in Jobs, Lease(w, k) PROVE Goal(j)
  <2>1. /\ Leasable(k) /\ \A i \in Jobs \ {k} : jobs'[i] = jobs[i]
        /\ jobs'[k].status = "LEASED" /\ pc'[w] = "leased" /\ OnlyMoves(w) /\ UNCHANGED runs
    BY <1>1, LeaseEffect
  <2>2. \A v \in Workers : ~Executing(v, k)
    BY <2>1, NobodyExecutes
  <2>3. CASE k = j
    BY <2>1, <2>2, <2>3 DEF OnlyMoves, SameWorker, Executing, Busy
  <2>4. CASE k # j
    BY <1>0, <2>1, <2>4 DEF OnlyMoves, SameWorker
  <2> QED BY <2>3, <2>4
<1>2. ASSUME NEW w \in Workers, WorkflowMissing(w) \/ SettleJob(w) PROVE Goal(j)
  <2>1. /\ pc[w] \in Busy
        /\ \A k \in Jobs : k # held[w].job => jobs'[k] = jobs[k]
        /\ SettlesAs(w, jobs[held[w].job], jobs'[held[w].job])
        /\ pc'[w] = "poll" /\ OnlyMoves(w) /\ UNCHANGED runs
    BY <1>2, SettleEffect DEF Busy
  <2>2. CASE held[w].job = j
    <3>1. \A v \in Workers : pc'[v] = "returned" => held'[v].job # j
      BY <2>1, <2>2, SoleHolder DEF OnlyMoves, SameWorker, Executing, Busy
    <3>2. jobs'[j].status = "SUCCEEDED" => runs[j] = "SUCCESS"
      BY <1>0, <2>1, <2>2 DEF SettlesAs
    <3> QED BY <2>1, <3>1, <3>2
  <2>3. CASE held[w].job # j
    BY <1>0, <2>1, <2>3 DEF OnlyMoves, SameWorker
  <2> QED BY <2>2, <2>3
<1>3. ASSUME NEW w \in Workers,
             \/ WorkflowFound(w) \/ WorkflowInvalid(w) \/ RunStarts(w)
             \/ \E s \in {"SUCCESS", "FAILED", "CANCELLED"} : RunEnds(w, s)
      PROVE  Goal(j)
  <2>1. /\ Prepares(w) \/ Starts(w) \/ Ends(w)
        /\ OnlyMoves(w) /\ UNCHANGED <<jobs, held>>
    BY <1>3, RunEffect
  <2>2. pc[w] \in Busy
    BY <2>1 DEF Prepares, Starts, Ends, Busy
  <2>3. CASE held[w].job = j
    <3>1. jobs[j].status # "SUCCEEDED"
      BY <2>2, <2>3, SoleHolder
    <3>2. \A v \in Workers \ {w} : ~(pc'[v] = "returned" /\ held'[v].job = j)
      BY <2>1, <2>2, <2>3, SoleHolder DEF OnlyMoves, SameWorker, Executing, Busy
    <3>3. pc'[w] = "returned" /\ ended'[w] = "SUCCESS" => runs'[j] = "SUCCESS"
      BY <2>1, <2>3 DEF Prepares, Starts, Ends
    <3> QED BY <2>1, <3>1, <3>2, <3>3
  <2>4. CASE held[w].job # j
    <3>1. runs'[j] = runs[j]
      BY <2>1, <2>4 DEF Prepares, Starts, Ends
    <3> QED BY <1>0, <2>1, <2>4, <3>1 DEF OnlyMoves, SameWorker
  <2> QED BY <2>3, <2>4
<1>4. ASSUME NEW w \in Workers, OnlyMoves(w), pc'[w] # "returned", UNCHANGED <<jobs, runs>>
      PROVE  Goal(j)
  BY <1>0, <1>4 DEF OnlyMoves, SameWorker
<1>5. ASSUME jobs'[j].status = jobs[j].status \/ jobs'[j].status \notin {"SUCCEEDED", "LEASED"},
             UNCHANGED <<pc, held, ended>>,
             runs'[j] = runs[j] \/ jobs[j].status = "CANCELLED"
      PROVE  Goal(j)
  BY <1>0, <1>5
<1>6. ASSUME NEW k \in Jobs, ClientCalls(k) PROVE Goal(j)
  <2>1. /\ Submits(k) \/ Cancels(k) \/ Replays(k) \/ Deletes(k)
        /\ k # j => jobs'[j] = jobs[j]
        /\ UNCHANGED <<pc, held, ended>>
    BY <1>6, ClientEffect
  <2>2. Deletes(k) => jobs[k].status = "CANCELLED"
    BY DEF Deletes, DeletedInv
  <2> QED BY <1>5, <2>1, <2>2 DEF Submits, Cancels, Replays, Deletes
<1>7. ASSUME NEW s \in PurgeStatuses, NEW a \in PurgeAges, NEW n \in PurgeLimits, PurgeJobs(s, a, n)
      PROVE  Goal(j)
  BY <1>5, <1>7, PurgeEffect DEF NoStatus
<1>8. ASSUME NEW w \in Workers, Heartbeat(w) \/ WatchCancel(w) \/ Drain(w) \/ DrainTimeout(w)
      PROVE  Goal(j)
  BY <1>5, <1>8, AsideEffect DEF SameCounts
<1>9. ASSUME PoolTick PROVE Goal(j)
  BY <1>5, <1>9, TickEffect DEF SameCounts
<1>10. ASSUME NEW w \in Workers, Crash(w) \/ Stop(w) PROVE Goal(j)
  BY <1>4, <1>10, GoneEffect
<1>11. ASSUME NEW w \in Workers, Restart(w) PROVE Goal(j)
  BY <1>4, <1>11, RestartEffect
<1> HIDE DEF Goal
<1> QED BY <1>1, <1>2, <1>3, <1>6, <1>7, <1>8, <1>9, <1>10, <1>11, PoolStepCases

-----------------------------------------------------------------------------
(* The count of attempts.  A job that can be leased has an attempt to spare:*)
(* it is new, or was retried within its limit, or was replayed, or lost its *)
(* worker to an interruption.  The retry decision is the worker's, on the   *)
(* snapshot it took: exclusion keeps the snapshot true.                     *)
Allowed(j) == jobs[j].maxAttempts + jobs[j].replayCount + interruptions

Slack(j) == jobs[j].attempts < Allowed(j)

SnapshotTrue(j, w) ==
    Executing(w, j) /\ jobs[j].status = "LEASED" =>
        /\ shutdown[w] # "no" => Slack(j)
        /\ held[w].attempts = jobs[j].attempts
        /\ held[w].maxAttempts = jobs[j].maxAttempts

JobAccounted(j) ==
    /\ Exists(j) => jobs[j].attempts <= Allowed(j)
    /\ jobs[j].status = "QUEUED" => Slack(j)
    /\ jobs[j].status = "LEASED" /\ (\A w \in Workers : ~Executing(w, j)) => Slack(j)
    /\ \A w \in Workers : SnapshotTrue(j, w)

AttemptInv == \A j \in Jobs : JobAccounted(j)

(* The numbers of a job are natural numbers. *)
LEMMA CountTypes ==
  ASSUME QueueInv, PoolShape, NEW j \in Jobs
  PROVE  /\ jobs[j].attempts \in Nat /\ jobs[j].maxAttempts \in Nat
         /\ jobs[j].replayCount \in Nat /\ interruptions \in Nat
<1>1. jobs[j] \in Job
  BY DEF QueueInv, TypeOK
<1> QED BY <1>1, PoolAssumption DEF Job, PoolShape

(* More room never hurts: a step that leaves a job's status, count and      *)
(* limit alone and moves no worker on or off it. *)
LEMMA AccountedKept ==
  ASSUME QueueInv, PoolShape, NEW j \in Jobs, JobAccounted(j),
         SameCounts(jobs[j], jobs'[j]),
         interruptions' \in {interruptions, interruptions + 1},
         \A v \in Workers : Executing(v, j)' <=> Executing(v, j),
         \A v \in Workers : Executing(v, j) => held'[v] = held[v],
         \A v \in Workers : \/ shutdown'[v] = shutdown[v]
                            \/ shutdown[v] # "no"
                            \/ ~Executing(v, j)
                            \/ interruptions' = interruptions + 1
  PROVE  JobAccounted(j)'
<1>1. /\ jobs[j].attempts \in Nat /\ jobs[j].maxAttempts \in Nat
      /\ jobs[j].replayCount \in Nat /\ interruptions \in Nat
  BY CountTypes
<1>2. /\ jobs'[j].status = jobs[j].status /\ jobs'[j].attempts = jobs[j].attempts
      /\ jobs'[j].maxAttempts = jobs[j].maxAttempts
      /\ jobs'[j].replayCount = jobs[j].replayCount
  BY DEF SameCounts
<1>3. Slack(j) => Slack(j)'
  BY <1>1, <1>2 DEF Slack, Allowed
<1>4. Exists(j) /\ interruptions' = interruptions + 1 => Slack(j)'
  BY <1>1, <1>2 DEF Slack, Allowed, JobAccounted
<1>5. Exists(j)' => jobs'[j].attempts <= Allowed(j)'
  BY <1>1, <1>2 DEF Allowed, JobAccounted, Exists
<1>6. jobs'[j].status = "QUEUED" => Slack(j)'
  BY <1>2, <1>3 DEF JobAccounted
<1>7. jobs'[j].status = "LEASED" /\ (\A v \in Workers : ~Executing(v, j)') => Slack(j)'
  BY <1>2, <1>3 DEF JobAccounted
<1>8. ASSUME NEW v \in Workers, Executing(v, j)', jobs'[j].status = "LEASED"
      PROVE  /\ shutdown'[v] # "no" => Slack(j)'
             /\ held'[v].attempts = jobs'[j].attempts
             /\ held'[v].maxAttempts = jobs'[j].maxAttempts
  <2>1. Executing(v, j) /\ jobs[j].status = "LEASED" /\ held'[v] = held[v] /\ Exists(j)
    BY <1>2, <1>8 DEF Exists, NoStatus
  <2>2. /\ shutdown[v] # "no" => Slack(j)
        /\ held[v].attempts = jobs[j].attempts
        /\ held[v].maxAttempts = jobs[j].maxAttempts
    BY <2>1 DEF JobAccounted, SnapshotTrue
  <2> QED BY <1>2, <1>3, <1>4, <2>1, <2>2
<1> QED BY <1>5, <1>6, <1>7, <1>8 DEF JobAccounted, SnapshotTrue

(* A worker lets go of a job it executed alone: the job needs room only if  *)
(* it can be leased again.                                                  *)
LEMMA AccountedAfterSettle ==
  ASSUME QueueInv, PoolShape, Exclusion, NEW w \in Workers, WorkflowMissing(w) \/ SettleJob(w),
         NEW j \in Jobs, j = held[w].job, JobAccounted(j)
  PROVE  JobAccounted(j)'
<1>1. /\ pc[w] \in Busy
      /\ SettlesAs(w, jobs[j], jobs'[j])
      /\ pc'[w] = "poll" /\ OnlyMoves(w) /\ UNCHANGED shutdown
      /\ interruptions' \in {interruptions, interruptions + 1}
  BY SettleEffect DEF Busy
<1>2. /\ jobs[j].attempts \in Nat /\ jobs[j].maxAttempts \in Nat
      /\ jobs[j].replayCount \in Nat /\ interruptions \in Nat
  BY CountTypes
<1>3. \A v \in Workers : ~Executing(v, j)'
  BY <1>1, SoleHolder DEF OnlyMoves, SameWorker, Executing, Busy
<1>4. /\ jobs'[j].attempts = jobs[j].attempts
      /\ jobs'[j].maxAttempts = jobs[j].maxAttempts
      /\ jobs'[j].replayCount = jobs[j].replayCount
  BY <1>1 DEF SettlesAs
<1>5. Exists(j) /\ jobs[j].attempts <= Allowed(j)
  <2>1. Exists(j)
    BY <1>1, SoleHolder DEF Exists, NoStatus
  <2> QED BY <2>1 DEF JobAccounted
<1>6. /\ Allowed(j)' \in {Allowed(j), Allowed(j) + 1}
      /\ interruptions' = interruptions + 1 => Allowed(j)' = Allowed(j) + 1
      /\ Allowed(j) \in Nat
  BY <1>1, <1>2, <1>4 DEF Allowed
<1>7. Executing(w, j)
  BY <1>1 DEF Executing
<1>8. jobs'[j].status \in {"QUEUED", "LEASED"} => Slack(j) \/ interruptions' = interruptions + 1
  <2>1. CASE jobs'[j].status = "QUEUED" /\ jobs'[j] # jobs[j]
    <3>1. jobs[j].status = "LEASED" /\ held[w].attempts < held[w].maxAttempts
      BY <1>1, <2>1 DEF SettlesAs
    <3>2. jobs[j].attempts < jobs[j].maxAttempts
      BY <1>7, <3>1 DEF JobAccounted, SnapshotTrue
    <3> QED BY <1>2, <3>2 DEF Slack, Allowed
  <2>2. CASE jobs'[j].status = "LEASED"
    <3>1. /\ jobs[j].status = "LEASED"
          /\ shutdown[w] # "no" \/ interruptions' = interruptions + 1
      BY <1>1, <2>2 DEF SettlesAs, Refused, WorkerCtxDone
    <3> QED BY <1>7, <3>1 DEF JobAccounted, SnapshotTrue
  <2>3. CASE jobs'[j].status = "QUEUED" /\ jobs'[j] = jobs[j]
    BY <2>3 DEF JobAccounted
  <2> QED BY <2>1, <2>2, <2>3
<1>9. jobs'[j].status \in {"QUEUED", "LEASED"} => Slack(j)'
  BY <1>2, <1>4, <1>5, <1>6, <1>8 DEF Slack
<1>10. jobs'[j].attempts <= Allowed(j)'
  BY <1>2, <1>4, <1>5, <1>6
<1> QED BY <1>3, <1>9, <1>10 DEF JobAccounted, SnapshotTrue

LEMMA AccountedAfterLease ==
  ASSUME QueueInv, PoolShape, Exclusion, NEW w \in Workers, NEW j \in Jobs, Lease(w, j),
         JobAccounted(j)
  PROVE  JobAccounted(j)'
<1>1. /\ Leasable(j) /\ shutdown[w] = "no"
      /\ jobs'[j].status = "LEASED"
      /\ jobs'[j].attempts = jobs[j].attempts + 1
      /\ jobs'[j].maxAttempts = jobs[j].maxAttempts
      /\ jobs'[j].replayCount = jobs[j].replayCount
      /\ pc'[w] = "leased" /\ held'[w].job = j
      /\ held'[w].attempts = jobs[j].attempts + 1
      /\ held'[w].maxAttempts = jobs[j].maxAttempts
      /\ OnlyMoves(w) /\ UNCHANGED <<shutdown, interruptions>>
  BY LeaseEffect
<1>2. /\ jobs[j].attempts \in Nat /\ jobs[j].maxAttempts \in Nat
      /\ jobs[j].replayCount \in Nat /\ interruptions \in Nat
  BY CountTypes
<1>3. \A v \in Workers : ~Executing(v, j)
  BY <1>1, NobodyExecutes
<1>4. Slack(j)
  BY <1>1, <1>3 DEF JobAccounted, Leasable
<1>5. jobs'[j].attempts <= Allowed(j)'
  BY <1>1, <1>2, <1>4 DEF Slack, Allowed
<1>6. Executing(w, j)' /\ \A v \in Workers \ {w} : ~Executing(v, j)'
  BY <1>1, <1>3 DEF Executing, OnlyMoves, SameWorker, Busy
<1>7. \A v \in Workers : SnapshotTrue(j, v)'
  BY <1>1, <1>6 DEF SnapshotTrue
<1> QED BY <1>1, <1>5, <1>6, <1>7 DEF JobAccounted

LEMMA AttemptStep ==
  ASSUME TimelyHeartbeats, PurgeSparesUse, QueueInv, PoolShape, Exclusion, AttemptInv, PoolNext
  PROVE  AttemptInv'
<1> SUFFICES ASSUME NEW j \in Jobs PROVE JobAccounted(j)'
  BY DEF AttemptInv
<1>0. /\ JobAccounted(j)
      /\ jobs[j].attempts \in Nat /\ jobs[j].maxAttempts \in Nat
      /\ jobs[j].replayCount \in Nat /\ interruptions \in Nat
  BY CountTypes DEF AttemptInv
<1>a. ASSUME jobs'[j] = jobs[j], UNCHANGED shutdown,
             interruptions' \in {interruptions, interruptions + 1},
             \A v \in Workers : Executing(v, j)' <=> Executing(v, j),
             \A v \in Workers : Executing(v, j) => held'[v] = held[v]
      PROVE  JobAccounted(j)'
  BY <1>0, <1>a, AccountedKept DEF SameCounts
<1>b. ASSUME SameCounts(jobs[j], jobs'[j]), UNCHANGED <<pc, held>>,
             interruptions' \in {interruptions, interruptions + 1},
             \A v \in Workers : \/ shutdown'[v] = shutdown[v]
                                \/ shutdown[v] # "no"
                                \/ interruptions' = interruptions + 1
      PROVE  JobAccounted(j)'
  <2>1. \A v \in Workers : Executing(v, j)' <=> Executing(v, j)
    BY <1>b DEF Executing
  <2> QED BY <1>0, <1>b, <2>1, AccountedKept
<1>1. ASSUME NEW w \in Workers, NEW k \in Jobs, Lease(w, k) PROVE JobAccounted(j)'
  <2>1. CASE k = j
    BY <1>0, <1>1, <2>1, AccountedAfterLease
  <2>2. CASE k # j
    <3>1. /\ jobs'[j] = jobs[j] /\ UNCHANGED <<interruptions, shutdown>>
          /\ OnlyMoves(w) /\ pc[w] = "poll" /\ held'[w].job = k
      BY <1>1, <2>2, LeaseEffect
    <3>2. \A v \in Workers : /\ Executing(v, j)' <=> Executing(v, j)
                             /\ Executing(v, j) => held'[v] = held[v]
      BY <2>2, <3>1 DEF Executing, OnlyMoves, SameWorker, Busy
    <3> QED BY <1>a, <3>1, <3>2
  <2> QED BY <2>1, <2>2
<1>2. ASSUME NEW w \in Workers, WorkflowMissing(w) \/ SettleJob(w) PROVE JobAccounted(j)'
  <2>1. CASE held[w].job = j
    BY <1>0, <1>2, <2>1, AccountedAfterSettle
  <2>2. CASE held[w].job # j
    <3>1. /\ jobs'[j] = jobs[j] /\ UNCHANGED shutdown
          /\ interruptions' \in {interruptions, interruptions + 1}
          /\ OnlyMoves(w) /\ pc'[w] = "poll"
      BY <1>2, <2>2, SettleEffect
    <3>2. \A v \in Workers : /\ Executing(v, j)' <=> Executing(v, j)
                             /\ Executing(v, j) => held'[v] = held[v]
      BY <2>2, <3>1 DEF Executing, OnlyMoves, SameWorker, Busy
    <3> QED BY <1>a, <3>1, <3>2
  <2> QED BY <2>1, <2>2
<1>3. ASSUME NEW w \in Workers,
             \/ WorkflowFound(w) \/ WorkflowInvalid(w) \/ RunStarts(w)
             \/ \E s \in {"SUCCESS", "FAILED", "CANCELLED"} : RunEnds(w, s)
      PROVE  JobAccounted(j)'
  <2>1. /\ Prepares(w) \/ Starts(w) \/ Ends(w)
        /\ OnlyMoves(w) /\ UNCHANGED <<jobs, held, shutdown>>
        /\ interruptions' \in {interruptions, interruptions + 1}
    BY <1>3, RunEffect
  <2>2. pc[w] \in Busy /\ pc'[w] \in Busy
    BY <2>1 DEF Prepares, Starts, Ends, Busy
  <2>3. \A v \in Workers : Executing(v, j)' <=> Executing(v, j)
    BY <2>1, <2>2 DEF Executing, OnlyMoves, SameWorker
  <2> QED BY <1>a, <2>1, <2>3
<1>4. ASSUME NEW w \in Workers, Crash(w) \/ Stop(w) PROVE JobAccounted(j)'
  <2>1. /\ pc'[w] = "down" /\ OnlyMoves(w) /\ UNCHANGED jobs /\ shutdown'[w] = "no"
        /\ interruptions' = interruptions + 1 \/ (pc[w] = "poll" /\ UNCHANGED interruptions)
    BY <1>4, GoneEffect
  <2>2. CASE UNCHANGED interruptions /\ pc[w] = "poll"
    <3>1. \A v \in Workers : /\ Executing(v, j)' <=> Executing(v, j)
                             /\ Executing(v, j) => held'[v] = held[v]
                             /\ shutdown'[v] = shutdown[v] \/ ~Executing(v, j)
      BY <2>1, <2>2 DEF Executing, OnlyMoves, SameWorker, Busy
    <3> QED BY <1>0, <2>1, <2>2, <3>1, AccountedKept DEF SameCounts
  <2>3. CASE interruptions' = interruptions + 1
    <3>1. Exists(j) => Slack(j)' /\ jobs'[j].attempts <= Allowed(j)'
      BY <1>0, <2>1, <2>3 DEF JobAccounted, Slack, Allowed
    <3>2. \A v \in Workers : Executing(v, j)' => Executing(v, j) /\ held'[v] = held[v]
      BY <2>1 DEF Executing, OnlyMoves, SameWorker, Busy
    <3>3. jobs[j].status \in {"QUEUED", "LEASED"} => Exists(j)
      BY DEF Exists, NoStatus
    <3>4. Exists(j)' <=> Exists(j)
      BY <2>1 DEF Exists
    <3>5. \A v \in Workers : SnapshotTrue(j, v)'
      BY <1>0, <2>1, <3>1, <3>2, <3>3 DEF SnapshotTrue, JobAccounted
    <3> QED BY <2>1, <3>1, <3>3, <3>4, <3>5 DEF JobAccounted
  <2> QED BY <2>1, <2>2, <2>3
<1>5. ASSUME NEW w \in Workers, Heartbeat(w) \/ WatchCancel(w) \/ Drain(w) \/ DrainTimeout(w)
      PROVE  JobAccounted(j)'
  BY <1>5, <1>b, AsideEffect
<1>6. ASSUME NEW w \in Workers, Restart(w) PROVE JobAccounted(j)'
  <2>1. /\ OnlyMoves(w) /\ pc[w] = "down" /\ pc'[w] = "poll"
        /\ UNCHANGED <<jobs, held, shutdown, interruptions>>
    BY <1>6, RestartEffect
  <2>2. \A v \in Workers : Executing(v, j)' <=> Executing(v, j)
    BY <2>1 DEF Executing, OnlyMoves, SameWorker, Busy
  <2> QED BY <1>a, <2>1, <2>2
<1>7. ASSUME NEW k \in Jobs, ClientCalls(k) PROVE JobAccounted(j)'
  <2>1. /\ Submits(k) \/ Cancels(k) \/ Replays(k) \/ Deletes(k)
        /\ k # j => jobs'[j] = jobs[j]
        /\ UNCHANGED <<pc, held, shutdown>>
        /\ interruptions' \in {interruptions, interruptions + 1}
    BY <1>7, ClientEffect
  <2>2. CASE jobs'[j] = jobs[j]
    BY <1>b, <2>1, <2>2 DEF SameCounts
  <2>3. CASE Submits(k) /\ k = j
    <3>1. /\ jobs'[j].status = "QUEUED" /\ jobs'[j].attempts = 0
          /\ jobs'[j].maxAttempts \in Nat \ {0} /\ jobs'[j].replayCount = 0
      BY <2>3 DEF Submits
    <3>2. Slack(j)' /\ jobs'[j].attempts <= Allowed(j)'
      BY <1>0, <2>1, <3>1 DEF Slack, Allowed
    <3> QED BY <3>1, <3>2 DEF JobAccounted, SnapshotTrue
  <2>4. CASE Cancels(k) /\ k = j
    <3>1. /\ jobs[j].status # NoStatus /\ jobs'[j].status = "CANCELLED"
          /\ jobs'[j].attempts = jobs[j].attempts
          /\ jobs'[j].maxAttempts = jobs[j].maxAttempts
          /\ jobs'[j].replayCount = jobs[j].replayCount
      BY <2>4 DEF Cancels
    <3>2. jobs'[j].attempts <= Allowed(j)'
      BY <1>0, <2>1, <3>1 DEF JobAccounted, Allowed, Exists
    <3> QED BY <3>1, <3>2 DEF JobAccounted, SnapshotTrue
  <2>5. CASE Replays(k) /\ k = j
    <3>1. /\ jobs[j].status # NoStatus /\ jobs'[j].status = "QUEUED"
          /\ jobs'[j].attempts = jobs[j].attempts
          /\ jobs'[j].maxAttempts = jobs[j].maxAttempts
          /\ jobs'[j].replayCount = jobs[j].replayCount + 1
      BY <2>5 DEF Replays, NoStatus
    <3>2. jobs[j].attempts <= Allowed(j)
      BY <1>0, <3>1 DEF JobAccounted, Exists
    <3>3. Slack(j)' /\ jobs'[j].attempts <= Allowed(j)'
      BY <1>0, <2>1, <3>1, <3>2 DEF Slack, Allowed
    <3> QED BY <3>1, <3>3 DEF JobAccounted, SnapshotTrue
  <2> QED BY <2>1, <2>2, <2>3, <2>4, <2>5 DEF Deletes
<1>8. ASSUME NEW s \in PurgeStatuses, NEW a \in PurgeAges, NEW n \in PurgeLimits, PurgeJobs(s, a, n)
      PROVE  JobAccounted(j)'
  <2>1. /\ jobs'[j] = jobs[j] \/ jobs'[j].status = NoStatus
        /\ UNCHANGED <<pc, held, shutdown, interruptions>>
    BY <1>8, PurgeEffect
  <2>2. CASE jobs'[j] = jobs[j]
    BY <1>b, <2>1, <2>2 DEF SameCounts
  <2>3. CASE jobs'[j].status = NoStatus
    BY <2>3 DEF JobAccounted, SnapshotTrue, Exists, NoStatus
  <2> QED BY <2>1, <2>2, <2>3
<1>9. ASSUME PoolTick PROVE JobAccounted(j)'
  BY <1>9, <1>b, TickEffect
<1> QED BY <1>1, <1>2, <1>3, <1>4, <1>5, <1>6, <1>7, <1>8, <1>9, PoolStepCases

-----------------------------------------------------------------------------
(* A saved success.  Until an interruption, and unless the id was enqueued  *)
(* late, the job of a run saved as SUCCESS is over, or still with the       *)
(* worker that saved it, who has only CompleteRunJob to call.               *)
WinnerOnly(j) ==
    /\ \/ jobs[j].status \in {"SUCCEEDED", "CANCELLED", NoStatus}
       \/ jobs[j].status = "LEASED" /\ \E w \in Workers : Executing(w, j)
    /\ \A w \in Workers : Executing(w, j) => pc[w] = "returned" /\ ended[w] = "SUCCESS"

RerunInv ==
    \A j \in Jobs : interruptions = 0 /\ runs[j] = "SUCCESS" /\ j \notin late => WinnerOnly(j)

(* An id that was enqueued late stays marked. *)
LEMMA LateGrows ==
  ASSUME PoolNext
  PROVE  late \subseteq late'
<1>1. ASSUME NEW w \in Workers,
             Progress(w) \/ Heartbeat(w) \/ WatchCancel(w) \/ Environment(w)
      PROVE  UNCHANGED late
  BY <1>1 DEF Progress, Heartbeat, WatchCancel, Environment, Lease, WorkflowMissing, WorkflowFound,
              WorkflowInvalid, RunStarts, RunEnds, SettleJob, Stop, Gone, Crash, Drain,
              DrainTimeout, Restart
<1>2. ASSUME NEW j \in Jobs, ClientCalls(j) PROVE late \subseteq late'
  BY <1>2 DEF ClientCalls, SubmitRun, CancelJob, DeleteRunCancelsJob, DeleteRunSavesRun,
              DeleteRunConflicts, RequeueJob
<1> QED BY <1>1, <1>2 DEF PoolNext, PurgeJobs, PoolTick

LEMMA RerunStep ==
  ASSUME TimelyHeartbeats, PurgeSparesUse, QueueInv, PoolShape, Exclusion, ShutdownCounted, RerunInv,
         PoolNext
  PROVE  RerunInv'
<1>0. interruptions \in Nat
  BY PoolAssumption DEF PoolShape
<1> SUFFICES ASSUME NEW j \in Jobs, interruptions' = 0, runs'[j] = "SUCCESS",
                    j \notin late'
             PROVE  WinnerOnly(j)'
  BY DEF RerunInv
<1>1. j \notin late
  BY LateGrows
<1>a. ASSUME jobs'[j].status = jobs[j].status \/ jobs'[j].status \in {"CANCELLED", NoStatus},
             \A v \in Workers : Executing(v, j)' <=> Executing(v, j),
             \A v \in Workers : Executing(v, j) => pc'[v] = pc[v] /\ ended'[v] = ended[v],
             interruptions = 0, runs[j] = "SUCCESS"
      PROVE  WinnerOnly(j)'
  <2>1. WinnerOnly(j)
    BY <1>1, <1>a DEF RerunInv
  <2> QED BY <1>a, <2>1 DEF WinnerOnly
<1>2. ASSUME NEW w \in Workers, NEW k \in Jobs, Lease(w, k) PROVE WinnerOnly(j)'
  <2>1. /\ Leasable(k) /\ pc[w] = "poll" /\ held'[w].job = k /\ OnlyMoves(w)
        /\ k # j => jobs'[j] = jobs[j]
        /\ UNCHANGED <<runs, interruptions>>
    BY <1>2, LeaseEffect
  <2>2. k # j
    <3> SUFFICES ASSUME k = j PROVE FALSE
      OBVIOUS
    <3>1. \A v \in Workers : ~Executing(v, j)
      BY <2>1, NobodyExecutes
    <3> QED BY <1>1, <2>1, <3>1 DEF RerunInv, WinnerOnly, Leasable, NoStatus
  <2>3. \A v \in Workers : /\ Executing(v, j)' <=> Executing(v, j)
                           /\ Executing(v, j) => pc'[v] = pc[v] /\ ended'[v] = ended[v]
    BY <2>1, <2>2 DEF Executing, OnlyMoves, SameWorker, Busy
  <2> QED BY <1>a, <2>1, <2>2, <2>3
<1>3. ASSUME NEW w \in Workers, WorkflowMissing(w) \/ SettleJob(w) PROVE WinnerOnly(j)'
  <2>1. /\ pc[w] \in Busy
        /\ held[w].job # j => jobs'[j] = jobs[j]
        /\ SettlesAs(w, jobs[held[w].job], jobs'[held[w].job])
        /\ pc'[w] = "poll" /\ OnlyMoves(w) /\ UNCHANGED <<runs, interruptions>>
    BY <1>0, <1>3, SettleEffect DEF Busy
  <2>2. CASE held[w].job # j
    <3>1. \A v \in Workers : /\ Executing(v, j)' <=> Executing(v, j)
                             /\ Executing(v, j) => pc'[v] = pc[v] /\ ended'[v] = ended[v]
      BY <2>1, <2>2 DEF Executing, OnlyMoves, SameWorker, Busy
    <3> QED BY <1>a, <2>1, <2>2, <3>1
  <2>3. CASE held[w].job = j
    <3>1. Executing(w, j) /\ WinnerOnly(j)
      BY <1>1, <2>1, <2>3 DEF RerunInv, Executing
    <3>2. pc[w] = "returned" /\ ended[w] = "SUCCESS"
      BY <3>1 DEF WinnerOnly
    <3>3. ~Refused(WorkerCtxDone(w))
      BY <1>0, <2>1 DEF Refused, WorkerCtxDone, ShutdownCounted
    <3>4. jobs[j].status \in {"LEASED", "CANCELLED"}
      BY <2>1, <2>3, SoleHolder
    <3>5. jobs'[j].status \in {"SUCCEEDED", "CANCELLED"}
      BY <1>0, <2>1, <2>3, <3>2, <3>3, <3>4 DEF SettlesAs
    <3>6. \A v \in Workers : ~Executing(v, j)'
      BY <2>1, <2>3, SoleHolder DEF OnlyMoves, SameWorker, Executing, Busy
    <3> QED BY <3>5, <3>6 DEF WinnerOnly
  <2> QED BY <2>2, <2>3
<1>4. ASSUME NEW w \in Workers,
             \/ WorkflowFound(w) \/ WorkflowInvalid(w) \/ RunStarts(w)
             \/ \E s \in {"SUCCESS", "FAILED", "CANCELLED"} : RunEnds(w, s)
      PROVE  WinnerOnly(j)'
  <2>1. /\ Prepares(w) \/ Starts(w) \/ Ends(w)
        /\ OnlyMoves(w) /\ UNCHANGED <<jobs, held, interruptions>>
    BY <1>0, <1>4, RunEffect
  <2>2. pc[w] \in Busy /\ pc'[w] \in Busy
    BY <2>1 DEF Prepares, Starts, Ends, Busy
  <2>3. \A v \in Workers : Executing(v, j)' <=> Executing(v, j)
    BY <2>1, <2>2 DEF Executing, OnlyMoves, SameWorker
  <2>4. CASE held[w].job # j
    <3>1. runs[j] = "SUCCESS"
      BY <2>1, <2>4 DEF Prepares, Starts, Ends
    <3>2. \A v \in Workers : Executing(v, j) => pc'[v] = pc[v] /\ ended'[v] = ended[v]
      BY <2>1, <2>4 DEF Executing, OnlyMoves, SameWorker
    <3> QED BY <1>a, <2>1, <2>3, <3>1, <3>2
  <2>5. CASE held[w].job = j
    <3>1. Executing(w, j)
      BY <2>2, <2>5 DEF Executing
    <3>2. ~(runs[j] = "SUCCESS")
      <4> SUFFICES ASSUME runs[j] = "SUCCESS" PROVE FALSE
        OBVIOUS
      <4>1. pc[w] = "returned"
        BY <1>1, <2>1, <3>1 DEF RerunInv, WinnerOnly
      <4> QED BY <2>1, <4>1 DEF Prepares, Starts, Ends
    <3>3. pc'[w] = "returned" /\ ended'[w] = "SUCCESS"
      BY <2>1, <2>5, <3>2 DEF Prepares, Starts, Ends
    <3>4. jobs[j].status \in {"LEASED", "CANCELLED"} /\ \A v \in Workers : Executing(v, j) => v = w
      BY <2>2, <2>5, SoleHolder
    <3> QED BY <2>1, <2>3, <3>1, <3>3, <3>4 DEF WinnerOnly
  <2> QED BY <2>4, <2>5
<1>5. ASSUME NEW w \in Workers, Crash(w) \/ Stop(w) PROVE WinnerOnly(j)'
  <2>1. /\ pc[w] = "poll" /\ pc'[w] = "down" /\ OnlyMoves(w)
        /\ UNCHANGED <<jobs, runs, interruptions>>
    BY <1>0, <1>5, GoneEffect
  <2>2. \A v \in Workers : /\ Executing(v, j)' <=> Executing(v, j)
                           /\ Executing(v, j) => pc'[v] = pc[v] /\ ended'[v] = ended[v]
    BY <2>1 DEF Executing, OnlyMoves, SameWorker, Busy
  <2> QED BY <1>a, <2>1, <2>2
<1>6. ASSUME NEW w \in Workers, Restart(w) PROVE WinnerOnly(j)'
  <2>1. /\ pc[w] = "down" /\ pc'[w] = "poll" /\ OnlyMoves(w)
        /\ UNCHANGED <<jobs, runs, interruptions>>
    BY <1>6, RestartEffect
  <2>2. \A v \in Workers : /\ Executing(v, j)' <=> Executing(v, j)
                           /\ Executing(v, j) => pc'[v] = pc[v] /\ ended'[v] = ended[v]
    BY <2>1 DEF Executing, OnlyMoves, SameWorker, Busy
  <2> QED BY <1>a, <2>1, <2>2
<1>b. ASSUME UNCHANGED <<pc, held, ended>>,
             jobs'[j].status = jobs[j].status \/ jobs'[j].status \in {"CANCELLED", NoStatus},
             interruptions = 0, runs[j] = "SUCCESS"
      PROVE  WinnerOnly(j)'
  <2>1. \A v \in Workers : Executing(v, j)' <=> Executing(v, j)
    BY <1>b DEF Executing
  <2> QED BY <1>a, <1>b, <2>1
<1>7. ASSUME NEW w \in Workers, Heartbeat(w) \/ WatchCancel(w) \/ Drain(w) \/ DrainTimeout(w)
      PROVE  WinnerOnly(j)'
  <2>1. /\ jobs'[j].status = jobs[j].status /\ UNCHANGED <<pc, held, ended, runs>>
        /\ interruptions' \in {interruptions, interruptions + 1}
    BY <1>7, AsideEffect DEF SameCounts
  <2> QED BY <1>0, <1>b, <2>1
<1>8. ASSUME NEW k \in Jobs, ClientCalls(k) PROVE WinnerOnly(j)'
  <2>1. /\ Submits(k) \/ Cancels(k) \/ Replays(k) \/ Deletes(k)
        /\ k # j => jobs'[j] = jobs[j]
        /\ UNCHANGED <<pc, held, ended, interruptions>>
    BY <1>0, <1>8, ClientEffect
  <2>2. runs[j] = "SUCCESS"
    BY <2>1 DEF Submits, Cancels, Replays, Deletes
  <2>3. WinnerOnly(j)
    BY <1>1, <2>1, <2>2 DEF RerunInv
  <2>4. ~(k = j /\ (Submits(k) \/ Replays(k)))
    BY <2>2, <2>3 DEF Submits, Replays, WinnerOnly, NoStatus
  <2>5. jobs'[j].status = jobs[j].status \/ jobs'[j].status = "CANCELLED"
    BY <2>1, <2>4 DEF Cancels, Deletes
  <2> QED BY <1>b, <2>1, <2>2, <2>5
<1>9. ASSUME NEW s \in PurgeStatuses, NEW a \in PurgeAges, NEW n \in PurgeLimits, PurgeJobs(s, a, n)
      PROVE  WinnerOnly(j)'
  <2>1. /\ jobs'[j] = jobs[j] \/ jobs'[j].status = NoStatus
        /\ UNCHANGED <<pc, held, ended, runs, interruptions>>
    BY <1>9, PurgeEffect
  <2> QED BY <1>b, <2>1
<1>10. ASSUME PoolTick PROVE WinnerOnly(j)'
  BY <1>b, <1>10, TickEffect DEF SameCounts
<1> QED BY <1>2, <1>3, <1>4, <1>5, <1>6, <1>7, <1>8, <1>9, <1>10, PoolStepCases

(* The inductive invariant of a pool of timely workers. *)
TimelyInv ==
    /\ QueueInv /\ PoolShape
    /\ Exclusion
    /\ DeletedInv
    /\ ResultInv
    /\ AttemptInv
    /\ ShutdownCounted
    /\ RerunInv

LEMMA TimelyInit == PoolInit => TimelyInv
<1> SUFFICES ASSUME PoolInit PROVE TimelyInv
  OBVIOUS
<1>1. QueueInv /\ PoolShape
  BY PoolTypesInit
<1>2. /\ \A w \in Workers : pc[w] = "poll" /\ shutdown[w] = "no"
      /\ \A j \in Jobs : runs[j] = "none" /\ deleting[j] = "no" /\ jobs[j] = NoJob
  BY DEF PoolInit, Init
<1>3. \A w \in Workers, j \in Jobs : ~Executing(w, j)
  BY <1>2 DEF Executing, Busy
<1>4. Exclusion
  BY <1>2, <1>3 DEF Exclusion, LeaseHeldWhileExecuting, ExclusiveExecution, Busy
<1>5. DeletedInv /\ ShutdownCounted /\ RerunInv
  BY <1>2 DEF DeletedInv, ShutdownCounted, RerunInv
<1>6. \A j \in Jobs : jobs[j].status = NoStatus
  BY <1>2, NoJobFields
<1>7. ResultInv
  BY <1>3, <1>6 DEF ResultInv, NoStatus
<1>8. AttemptInv
  BY <1>3, <1>6 DEF AttemptInv, JobAccounted, SnapshotTrue, Exists, NoStatus
<1> QED BY <1>1, <1>4, <1>5, <1>7, <1>8 DEF TimelyInv

LEMMA TimelyStep ==
  ASSUME TimelyHeartbeats, PurgeSparesUse
  PROVE  TimelyInv /\ [PoolNext]_poolVars => TimelyInv'
<1> SUFFICES ASSUME TimelyInv, [PoolNext]_poolVars PROVE TimelyInv'
  OBVIOUS
<1> USE DEF TimelyInv
<1>1. QueueInv' /\ PoolShape'
  BY PoolTypesStep
<1>2. CASE PoolNext
  BY <1>1, <1>2, SparesUseSparesCancelled, ExclusionStep, DeletedStep, ResultStep, AttemptStep,
     ShutdownStep, RerunStep
<1>3. CASE UNCHANGED poolVars
  <2>1. UNCHANGED <<jobs, pc, held, ended, shutdown, runs, deleting, late, interruptions>>
    BY <1>3 DEF poolVars, workerVars, queueVars
  <2>2. Exclusion' /\ DeletedInv'
    BY <2>1 DEF Exclusion, LeaseHeldWhileExecuting, ExclusiveExecution, Executing, DeletedInv
  <2>3. ResultInv'
    BY <2>1 DEF ResultInv, Executing
  <2>4. AttemptInv'
    BY <2>1 DEF AttemptInv, JobAccounted, SnapshotTrue, Executing, Slack, Allowed, Exists
  <2>5. ShutdownCounted' /\ RerunInv'
    BY <2>1 DEF ShutdownCounted, RerunInv, WinnerOnly, Executing
  <2> QED BY <1>1, <2>2, <2>3, <2>4, <2>5
<1> QED BY <1>2, <1>3

(* With timely workers and no purge of jobs in use, a SUCCEEDED job has a   *)
(* run recorded as SUCCESS, although the two are written by separate calls. *)
THEOREM SuccessIsRecorded ==
  ASSUME TimelyHeartbeats, PurgeSparesUse
  PROVE  PoolSpec => []SucceededJobHasSuccessfulRun
<1>1. TimelyInv => SucceededJobHasSuccessfulRun
  BY DEF TimelyInv, ResultInv, SucceededJobHasSuccessfulRun
<1> QED BY <1>1, TimelyInit, TimelyStep, PTL DEF PoolSpec

(* Under the same conditions the attempts of a job pass its limit by at     *)
(* most one for each replay and each interruption, although the queue never *)
(* looks at the limit and the worker decides on an old snapshot.            *)
THEOREM AttemptsBounded ==
  ASSUME TimelyHeartbeats, PurgeSparesUse
  PROVE  PoolSpec => []AttemptsAccounted
<1>1. TimelyInv => AttemptsAccounted
  BY DEF TimelyInv, AttemptInv, JobAccounted, Allowed, AttemptsAccounted
<1> QED BY <1>1, TimelyInit, TimelyStep, PTL DEF PoolSpec

(* Under the same conditions a run saved as SUCCESS is never started again  *)
(* before an interruption, unless a request that had looked its id up too   *)
(* early enqueued it again.                                                 *)
THEOREM SuccessIsFinal ==
  ASSUME TimelyHeartbeats, PurgeSparesUse
  PROVE  PoolSpec => SuccessIsNotRerun
<1> DEFINE Fact == \A j \in Jobs :
                      runs[j] = "SUCCESS" /\ runs'[j] = "RUNNING" => interruptions > 0 \/ j \in late
<1>1. TimelyInv /\ [PoolNext]_poolVars => [Fact]_poolVars
  <2> SUFFICES ASSUME TimelyInv, PoolNext, NEW j \in Jobs,
                      runs[j] = "SUCCESS", runs'[j] = "RUNNING"
               PROVE  interruptions > 0 \/ j \in late
    OBVIOUS
  <2> USE DEF TimelyInv
  <2>0. interruptions \in Nat
    BY PoolAssumption DEF PoolShape
  <2>1. \E w \in Workers : RunStarts(w) /\ held[w].job = j
    <3>1. ASSUME NEW w \in Workers, NEW k \in Jobs, Lease(w, k) PROVE FALSE
      BY <3>1, LeaseEffect
    <3>2. ASSUME NEW w \in Workers, WorkflowMissing(w) \/ SettleJob(w) PROVE FALSE
      BY <3>2, SettleEffect
    <3>3. ASSUME NEW w \in Workers, WorkflowFound(w) \/ WorkflowInvalid(w) PROVE FALSE
      BY <3>3 DEF WorkflowFound, WorkflowInvalid
    <3>4. ASSUME NEW w \in Workers, \E s \in {"SUCCESS", "FAILED", "CANCELLED"} : RunEnds(w, s)
          PROVE  FALSE
      BY <3>4 DEF RunEnds, PoolShape
    <3>5. ASSUME NEW w \in Workers, RunStarts(w) PROVE held[w].job = j
      BY <3>5 DEF RunStarts, PoolShape
    <3>6. ASSUME NEW w \in Workers, Crash(w) \/ Stop(w) PROVE FALSE
      BY <3>6, GoneEffect
    <3>7. ASSUME NEW w \in Workers, Heartbeat(w) \/ WatchCancel(w) \/ Drain(w) \/ DrainTimeout(w)
          PROVE  FALSE
      BY <3>7, AsideEffect
    <3>8. ASSUME NEW w \in Workers, Restart(w) PROVE FALSE
      BY <3>8, RestartEffect
    <3>9. ASSUME NEW k \in Jobs, ClientCalls(k) PROVE FALSE
      <4>1. Submits(k) \/ Cancels(k) \/ Replays(k) \/ Deletes(k)
        BY <3>9, ClientEffect
      <4> QED BY <4>1 DEF Submits, Cancels, Replays, Deletes
    <3>10. ASSUME NEW s \in PurgeStatuses, NEW a \in PurgeAges, NEW n \in PurgeLimits,
                  PurgeJobs(s, a, n)
           PROVE  FALSE
      BY <3>10, PurgeEffect
    <3>11. ASSUME PoolTick PROVE FALSE
      BY <3>11, TickEffect
    <3> QED BY <3>1, <3>2, <3>3, <3>4, <3>5, <3>6, <3>7, <3>8, <3>9, <3>10, <3>11, PoolStepCases
  <2> PICK w \in Workers : RunStarts(w) /\ held[w].job = j
    BY <2>1
  <2>2. Executing(w, j) /\ pc[w] = "starting"
    BY DEF RunStarts, Executing, Busy
  <2> QED BY <2>0, <2>2 DEF RerunInv, WinnerOnly
<1>2. PoolSpec => [][Fact]_poolVars
  BY <1>1, TimelyInit, TimelyStep, PTL DEF PoolSpec
<1> QED BY <1>2 DEF SuccessIsNotRerun

-----------------------------------------------------------------------------
(* Workers slower than their leases.  Several workers may then hold the     *)
(* same job, each with the snapshot of its own lease, and no exclusion      *)
(* helps.  What bounds the attempts is that a worker puts a job back only   *)
(* on a snapshot below the limit, and that there are not more such          *)
(* snapshots than attempts below the limit: each retry uses one up.         *)
LiveOn(j) == {w \in Workers : Executing(w, j) /\ shutdown[w] = "no"}

TriesOf(j) == {w \in Workers : Executing(w, j) /\ held[w].attempts < held[w].maxAttempts}

Below(limit, a) == IF a < limit THEN a ELSE limit - 1

(* The snapshots below the limit that were given up, and the replays. *)
Spent(j) ==
    Below(jobs[j].maxAttempts, jobs[j].attempts) - Cardinality(TriesOf(j)) + jobs[j].replayCount

PerWorker(n) == Cardinality(Workers) * n

(* Each time the job was put back every worker may have leased it once; an  *)
(* interrupted worker comes back and may lease it once more.                *)
Ledger(j) ==
    /\ jobs[j].status = "QUEUED" => jobs[j].attempts <= PerWorker(Spent(j)) + interruptions
    /\ jobs[j].status = "LEASED" =>
          jobs[j].attempts <= PerWorker(Spent(j)) + Cardinality(LiveOn(j)) + interruptions
    /\ jobs[j].attempts <= PerWorker(Spent(j)) + Cardinality(Workers) + interruptions

StallInv ==
    \A j \in Jobs :
        /\ Exists(j) => Ledger(j)
        /\ \A w \in Workers : Executing(w, j) => Exists(j)

LEMMA PerWorkerArithmetic ==
  ASSUME IsFiniteSet(Workers)
  PROVE  /\ Cardinality(Workers) \in Nat
         /\ \A n \in Int : PerWorker(n) \in Int
         /\ \A n \in Int : PerWorker(n + 1) = PerWorker(n) + Cardinality(Workers)
         /\ \A m, n \in Int : m <= n => PerWorker(m) <= PerWorker(n)
<1>1. Cardinality(Workers) \in Nat
  BY FS_CardinalityType
<1> DEFINE c == Cardinality(Workers)
<1> HIDE DEF c
<1>2. c \in Nat
  BY <1>1 DEF c
<1>3. \A n \in Int : c * n \in Int /\ c * (n + 1) = c * n + c
  BY <1>2
<1>4. \A m, n \in Int : m <= n => c * m <= c * n
  BY <1>2
<1> QED BY <1>1, <1>3, <1>4 DEF PerWorker, c

LEMMA WorkerSets ==
  ASSUME IsFiniteSet(Workers)
  PROVE  /\ \A S \in SUBSET Workers : /\ IsFiniteSet(S)
                                      /\ Cardinality(S) \in Nat
                                      /\ Cardinality(S) <= Cardinality(Workers)
         /\ \A S \in SUBSET Workers : \A w \in S : Cardinality(S \ {w}) = Cardinality(S) - 1
         /\ \A S \in SUBSET Workers :
               \A w \in Workers \ S : Cardinality(S \cup {w}) = Cardinality(S) + 1
         /\ \A S, T \in SUBSET Workers : S \subseteq T => Cardinality(S) <= Cardinality(T)
<1>1. \A S \in SUBSET Workers : IsFiniteSet(S) /\ Cardinality(S) <= Cardinality(Workers)
  BY FS_Subset
<1>2. \A S \in SUBSET Workers : Cardinality(S) \in Nat
  BY <1>1, FS_CardinalityType
<1>3. \A S \in SUBSET Workers : \A w \in S : Cardinality(S \ {w}) = Cardinality(S) - 1
  BY <1>1, FS_RemoveElement
<1>4. \A S \in SUBSET Workers : \A w \in Workers \ S : Cardinality(S \cup {w}) = Cardinality(S) + 1
  BY <1>1, FS_AddElement
<1>5. \A S, T \in SUBSET Workers : S \subseteq T => Cardinality(S) <= Cardinality(T)
  BY <1>1, FS_Subset
<1> QED BY <1>1, <1>2, <1>3, <1>4, <1>5

LEMMA SpentType ==
  ASSUME IsFiniteSet(Workers), QueueInv, PoolShape, NEW j \in Jobs
  PROVE  /\ Spent(j) \in Int
         /\ Spent(j) + 1 <= jobs[j].maxAttempts + jobs[j].replayCount
         /\ Cardinality(TriesOf(j)) \in Nat /\ Cardinality(LiveOn(j)) \in Nat
         /\ Cardinality(LiveOn(j)) <= Cardinality(Workers)
<1>1. jobs[j].attempts \in Nat /\ jobs[j].maxAttempts \in Nat /\ jobs[j].replayCount \in Nat
  BY CountTypes
<1>2. TriesOf(j) \in SUBSET Workers /\ LiveOn(j) \in SUBSET Workers
  BY DEF TriesOf, LiveOn
<1>3. /\ Cardinality(TriesOf(j)) \in Nat /\ Cardinality(LiveOn(j)) \in Nat
      /\ Cardinality(LiveOn(j)) <= Cardinality(Workers)
  BY <1>2, WorkerSets
<1> QED BY <1>1, <1>3 DEF Spent, Below

(* The steps that lease nothing: the ledger stays right when the job keeps  *)
(* its status and its live workers, or goes back to the queue on a          *)
(* snapshot or a replay, or leaves the cycle.                               *)
LEMMA LedgerKept ==
  ASSUME IsFiniteSet(Workers), QueueInv, PoolShape, NEW j \in Jobs, Ledger(j),
         jobs'[j].attempts = jobs[j].attempts,
         interruptions' \in {interruptions, interruptions + 1},
         Spent(j)' \in {Spent(j), Spent(j) + 1},
         Cardinality(LiveOn(j))' \in Nat,
         \/ /\ jobs'[j].status = jobs[j].status
            /\ jobs[j].status = "LEASED" =>
                  Cardinality(LiveOn(j))' + interruptions' >= Cardinality(LiveOn(j)) + interruptions
         \/ jobs'[j].status = "QUEUED" /\ Spent(j)' = Spent(j) + 1
         \/ jobs'[j].status \notin {"QUEUED", "LEASED"}
  PROVE  Ledger(j)'
<1> DEFINE s == Spent(j)
           t == Spent(j)'
           l == Cardinality(LiveOn(j))
           k == Cardinality(LiveOn(j))'
           c == Cardinality(Workers)
           a == jobs[j].attempts
           i == interruptions
           h == interruptions'
<1>1. s \in Int /\ t \in {s, s + 1} /\ l \in Nat /\ k \in Nat /\ c \in Nat /\ a \in Nat
      /\ i \in Nat /\ h \in {i, i + 1} /\ l <= c
  BY SpentType, CountTypes, PerWorkerArithmetic
<1>2. PerWorker(s) \in Int /\ (PerWorker(t) = PerWorker(s) \/ PerWorker(t) = PerWorker(s) + c)
      /\ PerWorker(s + 1) = PerWorker(s) + c
  BY <1>1, PerWorkerArithmetic
<1>3. /\ jobs[j].status = "QUEUED" => a <= PerWorker(s) + i
      /\ jobs[j].status = "LEASED" => a <= PerWorker(s) + l + i
      /\ a <= PerWorker(s) + c + i
  BY DEF Ledger
<1>4. \/ /\ jobs'[j].status = jobs[j].status
         /\ jobs[j].status = "LEASED" => k + h >= l + i
      \/ jobs'[j].status = "QUEUED" /\ t = s + 1
      \/ jobs'[j].status \notin {"QUEUED", "LEASED"}
  OBVIOUS
<1>5. PerWorker(Spent(j))' = PerWorker(t)
  BY DEF PerWorker
<1>6. jobs'[j].attempts = a
  OBVIOUS
<1> HIDE DEF s, t, l, k, c, a, i, h
<1>7. /\ jobs'[j].status = "QUEUED" => a <= PerWorker(t) + h
      /\ jobs'[j].status = "LEASED" => a <= PerWorker(t) + k + h
      /\ a <= PerWorker(t) + c + h
  BY <1>1, <1>2, <1>3, <1>4
<1> QED BY <1>5, <1>6, <1>7 DEF Ledger, t, k, c, h

LEMMA LedgerAfterLease ==
  ASSUME IsFiniteSet(Workers), QueueInv, PoolShape, NEW w \in Workers, NEW j \in Jobs, Lease(w, j),
         Ledger(j)
  PROVE  Ledger(j)'
<1>1. /\ Leasable(j) /\ shutdown[w] = "no" /\ pc[w] = "poll"
      /\ jobs'[j].status = "LEASED"
      /\ jobs'[j].attempts = jobs[j].attempts + 1
      /\ jobs'[j].maxAttempts = jobs[j].maxAttempts
      /\ jobs'[j].replayCount = jobs[j].replayCount
      /\ pc'[w] = "leased" /\ held'[w].job = j
      /\ held'[w].attempts = jobs[j].attempts + 1
      /\ held'[w].maxAttempts = jobs[j].maxAttempts
      /\ OnlyMoves(w) /\ UNCHANGED <<shutdown, interruptions>>
  BY LeaseEffect
<1>2. /\ jobs[j].attempts \in Nat /\ jobs[j].maxAttempts \in Nat
      /\ jobs[j].replayCount \in Nat /\ interruptions \in Nat
  BY CountTypes
<1>3. /\ ~Executing(w, j) /\ Executing(w, j)'
      /\ \A v \in Workers \ {w} : Executing(v, j)' <=> Executing(v, j)
  BY <1>1 DEF Executing, OnlyMoves, SameWorker, Busy
<1>4. LiveOn(j)' = LiveOn(j) \cup {w} /\ w \notin LiveOn(j)
  BY <1>1, <1>3 DEF LiveOn
<1>5. Cardinality(LiveOn(j))' = Cardinality(LiveOn(j)) + 1
  BY <1>4, WorkerSets DEF LiveOn
<1>6. w \notin TriesOf(j)
      /\ TriesOf(j)' = IF jobs[j].attempts + 1 < jobs[j].maxAttempts
                       THEN TriesOf(j) \cup {w} ELSE TriesOf(j)
  BY <1>1, <1>3 DEF TriesOf, OnlyMoves, SameWorker
<1>7. Cardinality(TriesOf(j))' = IF jobs[j].attempts + 1 < jobs[j].maxAttempts
                                 THEN Cardinality(TriesOf(j)) + 1 ELSE Cardinality(TriesOf(j))
  <2>1. TriesOf(j) \in SUBSET Workers
    BY DEF TriesOf
  <2> QED BY <1>6, <2>1, WorkerSets
<1>8. Spent(j)' = Spent(j)
  <2>1. Cardinality(TriesOf(j)) \in Nat
    BY SpentType
  <2> QED BY <1>1, <1>2, <1>7, <2>1 DEF Spent, Below
<1>9. PerWorker(Spent(j))' = PerWorker(Spent(j)) /\ PerWorker(Spent(j)) \in Int
  BY <1>8, SpentType, PerWorkerArithmetic DEF PerWorker
<1>10. jobs[j].attempts <= PerWorker(Spent(j)) + Cardinality(LiveOn(j)) + interruptions
  <2>1. Cardinality(LiveOn(j)) \in Nat
    BY SpentType
  <2> QED BY <1>1, <1>2, <1>9, <2>1 DEF Ledger, Leasable
<1>11. Cardinality(LiveOn(j)) + 1 <= Cardinality(Workers)
  <2>1. LiveOn(j)' \in SUBSET Workers
    BY DEF LiveOn
  <2>2. Cardinality(LiveOn(j)') <= Cardinality(Workers)
    BY <2>1, WorkerSets
  <2> QED BY <1>5, <2>2
<1>12. Cardinality(LiveOn(j)) \in Nat /\ Cardinality(Workers) \in Nat
  BY SpentType, PerWorkerArithmetic
<1> QED BY <1>1, <1>2, <1>5, <1>9, <1>10, <1>11, <1>12 DEF Ledger

(* Who holds the job, and on which snapshot, is the same after the step. *)
LEMMA SameHolders ==
  ASSUME NEW j \in Jobs,
         \A v \in Workers : Executing(v, j)' <=> Executing(v, j),
         \A v \in Workers : Executing(v, j) => held'[v] = held[v]
  PROVE  TriesOf(j)' = TriesOf(j)
  BY DEF TriesOf

LEMMA LedgerSame ==
  ASSUME IsFiniteSet(Workers), QueueInv, PoolShape, NEW j \in Jobs, Ledger(j),
         SameCounts(jobs[j], jobs'[j]),
         interruptions' \in {interruptions, interruptions + 1},
         \A v \in Workers : Executing(v, j)' <=> Executing(v, j),
         \A v \in Workers : Executing(v, j) => held'[v] = held[v],
         NEW w \in Workers,
         LiveOn(j) \ {w} \subseteq LiveOn(j)',
         interruptions' = interruptions + 1 \/ LiveOn(j) \subseteq LiveOn(j)'
  PROVE  Ledger(j)'
<1>1. TriesOf(j)' = TriesOf(j)
  BY SameHolders
<1>2. /\ jobs'[j].status = jobs[j].status /\ jobs'[j].attempts = jobs[j].attempts
      /\ jobs'[j].maxAttempts = jobs[j].maxAttempts
      /\ jobs'[j].replayCount = jobs[j].replayCount
  BY DEF SameCounts
<1>3. Spent(j)' = Spent(j)
  BY <1>1, <1>2 DEF Spent
<1>4. LiveOn(j) \in SUBSET Workers /\ LiveOn(j)' \in SUBSET Workers
  BY DEF LiveOn
<1> DEFINE L == LiveOn(j)
           K == LiveOn(j)'
<1>5. L \in SUBSET Workers /\ K \in SUBSET Workers /\ L \ {w} \in SUBSET Workers
      /\ L \ {w} \subseteq K /\ (interruptions' = interruptions + 1 \/ L \subseteq K)
  BY <1>4
<1>6. Cardinality(LiveOn(j))' = Cardinality(K)
  OBVIOUS
<1>7. interruptions \in Nat
  BY CountTypes
<1> HIDE DEF L, K
<1>8. Cardinality(L) \in Nat /\ Cardinality(K) \in Nat
  BY <1>5, WorkerSets
<1>9. Cardinality(L \ {w}) <= Cardinality(K) /\ (L \subseteq K => Cardinality(L) <= Cardinality(K))
  BY <1>5, WorkerSets
<1>10. w \in L => Cardinality(L \ {w}) = Cardinality(L) - 1
  BY <1>5, WorkerSets
<1>11. w \notin L => L \ {w} = L
  OBVIOUS
<1>12. Cardinality(K) + interruptions' >= Cardinality(L) + interruptions
  BY <1>5, <1>7, <1>8, <1>9, <1>10, <1>11
<1>13. /\ Cardinality(LiveOn(j))' \in Nat
       /\ Cardinality(LiveOn(j))' + interruptions' >= Cardinality(LiveOn(j)) + interruptions
  BY <1>6, <1>8, <1>12 DEF L, K
<1> QED BY <1>2, <1>3, <1>13, LedgerKept

(* A worker lets go of the job, by a settle or because it is gone. *)
LEMMA SpentAfterRelease ==
  ASSUME IsFiniteSet(Workers), QueueInv, PoolShape, NEW j \in Jobs, NEW w \in Workers,
         OnlyMoves(w), ~Executing(w, j)',
         jobs'[j].attempts = jobs[j].attempts,
         jobs'[j].maxAttempts = jobs[j].maxAttempts,
         jobs'[j].replayCount = jobs[j].replayCount
  PROVE  /\ Spent(j)' = IF w \in TriesOf(j) THEN Spent(j) + 1 ELSE Spent(j)
         /\ LiveOn(j)' = LiveOn(j) \ {w}
         /\ Cardinality(LiveOn(j))' \in Nat
<1>1. \A v \in Workers \ {w} : /\ Executing(v, j)' <=> Executing(v, j)
                               /\ held'[v] = held[v]
                               /\ shutdown'[v] = shutdown[v]
  BY DEF OnlyMoves, SameWorker, Executing
<1>2. TriesOf(j)' = TriesOf(j) \ {w}
  BY <1>1 DEF TriesOf
<1>3. LiveOn(j)' = LiveOn(j) \ {w}
  BY <1>1 DEF LiveOn
<1>4. TriesOf(j) \in SUBSET Workers /\ LiveOn(j)' \in SUBSET Workers
  BY DEF TriesOf, LiveOn
<1>5. Cardinality(TriesOf(j))' = IF w \in TriesOf(j) THEN Cardinality(TriesOf(j)) - 1
                                 ELSE Cardinality(TriesOf(j))
  <2>1. CASE w \in TriesOf(j)
    BY <1>2, <1>4, <2>1, WorkerSets
  <2>2. CASE w \notin TriesOf(j)
    <3>1. TriesOf(j) \ {w} = TriesOf(j)
      BY <2>2
    <3> QED BY <1>2, <2>2, <3>1
  <2> QED BY <2>1, <2>2
<1>6. Cardinality(LiveOn(j)') \in Nat
  BY <1>4, WorkerSets
<1>7. Cardinality(TriesOf(j)) \in Nat
  BY SpentType
<1>8. jobs[j].attempts \in Nat /\ jobs[j].maxAttempts \in Nat /\ jobs[j].replayCount \in Nat
  BY CountTypes
<1>9. Spent(j)' = IF w \in TriesOf(j) THEN Spent(j) + 1 ELSE Spent(j)
  BY <1>5, <1>7, <1>8 DEF Spent, Below
<1> QED BY <1>3, <1>6, <1>9

LEMMA LedgerAfterSettle ==
  ASSUME IsFiniteSet(Workers), QueueInv, PoolShape, NEW w \in Workers,
         WorkflowMissing(w) \/ SettleJob(w), NEW j \in Jobs, j = held[w].job, Ledger(j)
  PROVE  Ledger(j)'
<1>1. /\ pc[w] \in Busy
      /\ SettlesAs(w, jobs[j], jobs'[j])
      /\ pc'[w] = "poll" /\ OnlyMoves(w) /\ UNCHANGED shutdown
      /\ interruptions' \in {interruptions, interruptions + 1}
  BY SettleEffect DEF Busy
<1>2. /\ jobs'[j].attempts = jobs[j].attempts
      /\ jobs'[j].maxAttempts = jobs[j].maxAttempts
      /\ jobs'[j].replayCount = jobs[j].replayCount
  BY <1>1 DEF SettlesAs
<1>3. Executing(w, j) /\ ~Executing(w, j)'
  BY <1>1 DEF Executing, Busy
<1>4. /\ Spent(j)' = IF w \in TriesOf(j) THEN Spent(j) + 1 ELSE Spent(j)
      /\ LiveOn(j)' = LiveOn(j) \ {w}
      /\ Cardinality(LiveOn(j))' \in Nat
  BY <1>1, <1>2, <1>3, SpentAfterRelease
<1>5. CASE /\ jobs'[j] = jobs[j]
           /\ \/ jobs[j].status # "LEASED" \/ Refused(WorkerCtxDone(w))
              \/ interruptions' = interruptions + 1
  <2>1. jobs[j].status = "LEASED" => w \notin LiveOn(j) \/ interruptions' = interruptions + 1
    BY <1>5 DEF Refused, WorkerCtxDone, LiveOn
  <2>2. /\ w \notin LiveOn(j) => Cardinality(LiveOn(j))' = Cardinality(LiveOn(j))
        /\ w \in LiveOn(j) => Cardinality(LiveOn(j))' = Cardinality(LiveOn(j)) - 1
    <3>1. w \notin LiveOn(j) => LiveOn(j) \ {w} = LiveOn(j)
      OBVIOUS
    <3>2. LiveOn(j) \in SUBSET Workers
      BY DEF LiveOn
    <3>3. w \in LiveOn(j) => Cardinality(LiveOn(j) \ {w}) = Cardinality(LiveOn(j)) - 1
      BY <3>2, WorkerSets
    <3> QED BY <1>4, <3>1, <3>3
  <2>3. interruptions \in Nat /\ Cardinality(LiveOn(j)) \in Nat
    BY CountTypes, SpentType
  <2>4. jobs[j].status = "LEASED" =>
           Cardinality(LiveOn(j))' + interruptions' >= Cardinality(LiveOn(j)) + interruptions
    BY <1>1, <2>1, <2>2, <2>3
  <2> QED BY <1>1, <1>4, <1>5, <2>4, LedgerKept
<1>6. CASE jobs'[j].status = "QUEUED" /\ held[w].attempts < held[w].maxAttempts
  <2>1. w \in TriesOf(j)
    BY <1>3, <1>6 DEF TriesOf
  <2> QED BY <1>1, <1>2, <1>4, <1>6, <2>1, LedgerKept
<1>7. CASE jobs'[j].status \notin {"QUEUED", "LEASED"}
  BY <1>1, <1>2, <1>4, <1>7, LedgerKept
<1> QED BY <1>1, <1>5, <1>6, <1>7 DEF SettlesAs

LEMMA StallStep ==
  ASSUME IsFiniteSet(Workers), PurgeStatuses = {}, QueueInv, PoolShape, StallInv, PoolNext
  PROVE  StallInv'
<1> DEFINE Goal(j) == /\ Exists(j)' => Ledger(j)'
                      /\ \A w \in Workers : Executing(w, j)' => Exists(j)'
<1> SUFFICES ASSUME NEW j \in Jobs PROVE Goal(j)
  BY DEF StallInv
<1>0. /\ Exists(j) => Ledger(j)
      /\ \A v \in Workers : Executing(v, j) => Exists(j)
  BY DEF StallInv
<1>i. interruptions \in Nat
  BY CountTypes
<1>a. ASSUME SameCounts(jobs[j], jobs'[j]), interruptions' \in {interruptions, interruptions + 1},
             \A v \in Workers : Executing(v, j)' <=> Executing(v, j),
             \A v \in Workers : Executing(v, j) => held'[v] = held[v],
             NEW w \in Workers,
             LiveOn(j) \ {w} \subseteq LiveOn(j)',
             interruptions' = interruptions + 1 \/ LiveOn(j) \subseteq LiveOn(j)'
      PROVE  Goal(j)
  <2>1. Exists(j)' <=> Exists(j)
    BY <1>a DEF SameCounts, Exists
  <2>2. Exists(j) => Ledger(j)'
    BY <1>0, <1>a, LedgerSame
  <2> QED BY <1>0, <1>a, <2>1, <2>2
<1>b. ASSUME NEW w \in Workers, SameCounts(jobs[j], jobs'[j]),
             interruptions' \in {interruptions, interruptions + 1},
             \A v \in Workers : Executing(v, j)' <=> Executing(v, j),
             \A v \in Workers : Executing(v, j) => held'[v] = held[v] /\ shutdown'[v] = shutdown[v]
      PROVE  Goal(j)
  <2>1. LiveOn(j) \subseteq LiveOn(j)' /\ LiveOn(j) \ {w} \subseteq LiveOn(j)'
    BY <1>b DEF LiveOn
  <2> QED BY <1>a, <1>b, <2>1
<1>1. ASSUME NEW w \in Workers, NEW k \in Jobs, Lease(w, k) PROVE Goal(j)
  <2>1. CASE k = j
    <3>1. Exists(j) /\ Exists(j)'
      BY <1>1, <2>1, LeaseEffect DEF Leasable, Exists, NoStatus
    <3> QED BY <1>0, <1>1, <2>1, <3>1, LedgerAfterLease
  <2>2. CASE k # j
    <3>1. /\ jobs'[j] = jobs[j] /\ UNCHANGED <<interruptions, shutdown>>
          /\ OnlyMoves(w) /\ pc[w] = "poll" /\ held'[w].job = k
      BY <1>1, <2>2, LeaseEffect
    <3>2. \A v \in Workers : /\ Executing(v, j)' <=> Executing(v, j)
                             /\ Executing(v, j) => held'[v] = held[v] /\ shutdown'[v] = shutdown[v]
      BY <2>2, <3>1 DEF Executing, OnlyMoves, SameWorker, Busy
    <3> QED BY <1>b, <3>1, <3>2 DEF SameCounts
  <2> QED BY <2>1, <2>2
<1>2. ASSUME NEW w \in Workers, WorkflowMissing(w) \/ SettleJob(w) PROVE Goal(j)
  <2>1. /\ pc[w] \in Busy /\ pc'[w] = "poll" /\ OnlyMoves(w)
        /\ held[w].job # j => jobs'[j] = jobs[j]
        /\ SettlesAs(w, jobs[held[w].job], jobs'[held[w].job])
        /\ UNCHANGED shutdown
        /\ interruptions' \in {interruptions, interruptions + 1}
    BY <1>2, SettleEffect DEF Busy
  <2>2. CASE held[w].job = j
    <3>1. Exists(j)
      BY <1>0, <2>1, <2>2 DEF Executing
    <3>2. Exists(j)'
      BY <2>1, <2>2, <3>1 DEF SettlesAs, Exists, NoStatus
    <3> QED BY <1>0, <1>2, <2>2, <3>1, <3>2, LedgerAfterSettle
  <2>3. CASE held[w].job # j
    <3>1. \A v \in Workers : /\ Executing(v, j)' <=> Executing(v, j)
                             /\ Executing(v, j) => held'[v] = held[v] /\ shutdown'[v] = shutdown[v]
      BY <2>1, <2>3 DEF Executing, OnlyMoves, SameWorker, Busy
    <3> QED BY <1>b, <2>1, <2>3, <3>1 DEF SameCounts
  <2> QED BY <2>2, <2>3
<1>3. ASSUME NEW w \in Workers,
             \/ WorkflowFound(w) \/ WorkflowInvalid(w) \/ RunStarts(w)
             \/ \E s \in {"SUCCESS", "FAILED", "CANCELLED"} : RunEnds(w, s)
      PROVE  Goal(j)
  <2>1. /\ Prepares(w) \/ Starts(w) \/ Ends(w)
        /\ OnlyMoves(w) /\ UNCHANGED <<jobs, held, shutdown>>
        /\ interruptions' \in {interruptions, interruptions + 1}
    BY <1>3, RunEffect
  <2>2. pc[w] \in Busy /\ pc'[w] \in Busy
    BY <2>1 DEF Prepares, Starts, Ends, Busy
  <2>3. \A v \in Workers : Executing(v, j)' <=> Executing(v, j)
    BY <2>1, <2>2 DEF Executing, OnlyMoves, SameWorker
  <2> QED BY <1>b, <2>1, <2>3 DEF SameCounts
<1>4. ASSUME NEW w \in Workers, Crash(w) \/ Stop(w) PROVE Goal(j)
  <2>1. /\ pc'[w] = "down" /\ OnlyMoves(w) /\ UNCHANGED jobs
        /\ interruptions' = interruptions + 1 \/ (pc[w] = "poll" /\ UNCHANGED interruptions)
    BY <1>4, GoneEffect
  <2>2. CASE pc[w] = "poll" /\ UNCHANGED interruptions
    <3>1. \A v \in Workers : /\ Executing(v, j)' <=> Executing(v, j)
                             /\ Executing(v, j) => held'[v] = held[v] /\ shutdown'[v] = shutdown[v]
      BY <2>1, <2>2 DEF Executing, OnlyMoves, SameWorker, Busy
    <3> QED BY <1>b, <2>1, <2>2, <3>1 DEF SameCounts
  <2>3. CASE interruptions' = interruptions + 1
    <3>1. ~Executing(w, j)' /\ \A v \in Workers : Executing(v, j)' => Executing(v, j)
      BY <2>1 DEF Executing, OnlyMoves, SameWorker, Busy
    <3>2. /\ Spent(j)' \in {Spent(j), Spent(j) + 1}
          /\ LiveOn(j)' = LiveOn(j) \ {w}
          /\ Cardinality(LiveOn(j))' \in Nat
      BY <2>1, <3>1, SpentAfterRelease
    <3>3. Cardinality(LiveOn(j))' + interruptions' >= Cardinality(LiveOn(j)) + interruptions
      <4>1. LiveOn(j) \in SUBSET Workers
        BY DEF LiveOn
      <4>2. w \in LiveOn(j) => Cardinality(LiveOn(j) \ {w}) = Cardinality(LiveOn(j)) - 1
        BY <4>1, WorkerSets
      <4>3. w \notin LiveOn(j) => LiveOn(j) \ {w} = LiveOn(j)
        OBVIOUS
      <4>4. Cardinality(LiveOn(j)) \in Nat
        BY SpentType
      <4>5. Cardinality(LiveOn(j))' = Cardinality(LiveOn(j) \ {w})
        BY <3>2
      <4>6. Cardinality(LiveOn(j))' >= Cardinality(LiveOn(j)) - 1
        BY <4>2, <4>3, <4>4, <4>5
      <4> QED BY <1>i, <2>3, <3>2, <4>4, <4>6
    <3>4. Exists(j) => Ledger(j)'
      BY <1>0, <2>1, <2>3, <3>2, <3>3, LedgerKept
    <3>5. Exists(j)' <=> Exists(j)
      BY <2>1 DEF Exists
    <3> QED BY <1>0, <3>1, <3>4, <3>5
  <2> QED BY <2>1, <2>2, <2>3
<1>5. ASSUME NEW w \in Workers, Heartbeat(w) \/ WatchCancel(w) \/ Drain(w) \/ DrainTimeout(w)
      PROVE  Goal(j)
  <2>1. /\ SameCounts(jobs[j], jobs'[j]) /\ UNCHANGED <<pc, held>>
        /\ \/ shutdown'[w] = shutdown[w]
           \/ shutdown[w] # "no"
           \/ interruptions' = interruptions + 1
        /\ \A v \in Workers \ {w} : shutdown'[v] = shutdown[v]
        /\ interruptions' \in {interruptions, interruptions + 1}
    BY <1>5, AsideEffect
  <2>2. \A v \in Workers : Executing(v, j)' <=> Executing(v, j)
    BY <2>1 DEF Executing
  <2>3. LiveOn(j) \ {w} \subseteq LiveOn(j)'
    BY <2>1, <2>2 DEF LiveOn
  <2>4. interruptions' = interruptions + 1 \/ LiveOn(j) \subseteq LiveOn(j)'
    BY <2>1, <2>2 DEF LiveOn
  <2> QED BY <1>a, <2>1, <2>2, <2>3, <2>4
<1>6. ASSUME NEW w \in Workers, Restart(w) PROVE Goal(j)
  <2>1. /\ OnlyMoves(w) /\ pc[w] = "down" /\ pc'[w] = "poll"
        /\ UNCHANGED <<jobs, held, shutdown, interruptions>>
    BY <1>6, RestartEffect
  <2>2. \A v \in Workers : Executing(v, j)' <=> Executing(v, j)
    BY <2>1 DEF Executing, OnlyMoves, SameWorker, Busy
  <2> QED BY <1>b, <2>1, <2>2 DEF SameCounts
<1>c. ASSUME SameCounts(jobs[j], jobs'[j]), UNCHANGED <<pc, held, shutdown>>,
             interruptions' \in {interruptions, interruptions + 1}
      PROVE  Goal(j)
  <2>1. \A v \in Workers : Executing(v, j)' <=> Executing(v, j)
    BY <1>c DEF Executing
  <2>2. TriesOf(j)' = TriesOf(j) /\ LiveOn(j)' = LiveOn(j)
    BY <1>c, <2>1 DEF TriesOf, LiveOn
  <2>3. /\ jobs'[j].status = jobs[j].status /\ jobs'[j].attempts = jobs[j].attempts
        /\ jobs'[j].maxAttempts = jobs[j].maxAttempts
        /\ jobs'[j].replayCount = jobs[j].replayCount
    BY <1>c DEF SameCounts
  <2>4. Spent(j)' = Spent(j)
    BY <2>2, <2>3 DEF Spent
  <2>5. Cardinality(LiveOn(j))' = Cardinality(LiveOn(j)) /\ Cardinality(LiveOn(j)) \in Nat
    BY <2>2, SpentType
  <2>6. Cardinality(LiveOn(j))' + interruptions' >= Cardinality(LiveOn(j)) + interruptions
    BY <1>i, <1>c, <2>5
  <2>7. Ledger(j) => Ledger(j)'
    BY <1>c, <2>3, <2>4, <2>5, <2>6, LedgerKept
  <2>8. Exists(j)' <=> Exists(j)
    BY <2>3 DEF Exists
  <2> QED BY <1>0, <2>1, <2>7, <2>8
<1>7. ASSUME NEW k \in Jobs, ClientCalls(k) PROVE Goal(j)
  <2>1. /\ Submits(k) \/ Cancels(k) \/ Replays(k) \/ Deletes(k)
        /\ k # j => jobs'[j] = jobs[j]
        /\ UNCHANGED <<pc, held, shutdown>>
        /\ interruptions' \in {interruptions, interruptions + 1}
    BY <1>7, ClientEffect
  <2>2. \A v \in Workers : Executing(v, j)' <=> Executing(v, j)
    BY <2>1 DEF Executing
  <2>3. TriesOf(j)' = TriesOf(j) /\ LiveOn(j)' = LiveOn(j)
    BY <2>1, <2>2 DEF TriesOf, LiveOn
  <2>4. /\ Cardinality(LiveOn(j)) \in Nat /\ Cardinality(TriesOf(j)) \in Nat /\ Spent(j) \in Int
        /\ jobs[j].attempts \in Nat /\ jobs[j].maxAttempts \in Nat /\ jobs[j].replayCount \in Nat
    BY SpentType, CountTypes
  <2>5. CASE jobs'[j] = jobs[j]
    BY <1>c, <2>1, <2>5 DEF SameCounts
  <2>6. CASE Submits(k) /\ k = j
    <3>1. /\ jobs[j].status = NoStatus /\ jobs'[j].status = "QUEUED" /\ jobs'[j].attempts = 0
          /\ jobs'[j].maxAttempts \in Nat \ {0} /\ jobs'[j].replayCount = 0
      BY <2>6 DEF Submits
    <3>2. \A v \in Workers : ~Executing(v, j)
      BY <1>0, <3>1 DEF Exists
    <3>3. TriesOf(j)' = {}
      BY <2>3, <3>2 DEF TriesOf
    <3>4. Cardinality({}) = 0
      BY FS_EmptySet
    <3>5. Spent(j)' = 0
      BY <3>1, <3>3, <3>4 DEF Spent, Below
    <3>6. PerWorker(0) = 0 /\ Cardinality(Workers) \in Nat
      BY PerWorkerArithmetic DEF PerWorker
    <3>7. PerWorker(Spent(j))' = 0
      BY <3>5, <3>6 DEF PerWorker
    <3>8. interruptions' \in Nat /\ Cardinality(LiveOn(j))' \in Nat
      BY <1>i, <2>1, <2>3, <2>4
    <3>9. Ledger(j)'
      BY <3>1, <3>6, <3>7, <3>8 DEF Ledger
    <3> QED BY <2>2, <3>2, <3>9
  <2>7. CASE Cancels(k) /\ k = j
    <3>1. /\ jobs[j].status # NoStatus /\ jobs'[j].status = "CANCELLED"
          /\ jobs'[j].attempts = jobs[j].attempts
          /\ jobs'[j].maxAttempts = jobs[j].maxAttempts
          /\ jobs'[j].replayCount = jobs[j].replayCount
      BY <2>7 DEF Cancels
    <3>2. Spent(j)' = Spent(j)
      BY <2>3, <3>1 DEF Spent
    <3>3. Exists(j) /\ Exists(j)'
      BY <3>1 DEF Exists, NoStatus
    <3>4. Cardinality(LiveOn(j))' \in Nat
      BY <2>3, <2>4
    <3>5. Ledger(j)'
      BY <1>0, <2>1, <3>1, <3>2, <3>3, <3>4, LedgerKept
    <3> QED BY <3>3, <3>5
  <2>8. CASE Replays(k) /\ k = j
    <3>1. /\ jobs[j].status # NoStatus /\ jobs'[j].status = "QUEUED"
          /\ jobs'[j].attempts = jobs[j].attempts
          /\ jobs'[j].maxAttempts = jobs[j].maxAttempts
          /\ jobs'[j].replayCount = jobs[j].replayCount + 1
      BY <2>8 DEF Replays, NoStatus
    <3>2. Spent(j)' = Spent(j) + 1
      BY <2>3, <2>4, <3>1 DEF Spent, Below
    <3>3. Exists(j) /\ Exists(j)'
      BY <3>1 DEF Exists, NoStatus
    <3>4. Cardinality(LiveOn(j))' \in Nat
      BY <2>3, <2>4
    <3>5. Ledger(j)'
      BY <1>0, <2>1, <3>1, <3>2, <3>3, <3>4, LedgerKept
    <3> QED BY <3>3, <3>5
  <2> QED BY <2>1, <2>5, <2>6, <2>7, <2>8 DEF Deletes
<1>8. ASSUME NEW s \in PurgeStatuses, NEW a \in PurgeAges, NEW n \in PurgeLimits, PurgeJobs(s, a, n)
      PROVE  Goal(j)
  OBVIOUS
<1>9. ASSUME PoolTick PROVE Goal(j)
  BY <1>9, <1>c, TickEffect
<1> HIDE DEF Goal
<1> QED BY <1>1, <1>2, <1>3, <1>4, <1>5, <1>6, <1>7, <1>8, <1>9, PoolStepCases

(* Even with workers slower than their leases, crashed, drained or          *)
(* restarted, a job's attempts stay within one per worker for each attempt  *)
(* and each replay it is allowed, and one for each interruption, as long as *)
(* no purge frees the identifier of a job that workers still hold.          *)
THEOREM AttemptsBoundedWithStalls ==
  ASSUME IsFiniteSet(Workers), PurgeStatuses = {}
  PROVE  PoolSpec => []AttemptsAccountedWithStalls
<1> DEFINE Inv == QueueInv /\ PoolShape /\ StallInv
<1>1. PoolInit => Inv
  <2> SUFFICES ASSUME PoolInit PROVE StallInv
    BY PoolTypesInit
  <2>1. \A j \in Jobs : ~Exists(j) /\ \A w \in Workers : ~Executing(w, j)
    BY NoJobFields DEF PoolInit, Init, Exists, Executing, Busy
  <2> QED BY <2>1 DEF StallInv
<1>2. Inv /\ [PoolNext]_poolVars => Inv'
  <2> SUFFICES ASSUME Inv, [PoolNext]_poolVars PROVE Inv'
    OBVIOUS
  <2>1. (QueueInv /\ PoolShape)'
    BY PoolTypesStep
  <2>2. CASE PoolNext
    BY <2>1, <2>2, StallStep
  <2>3. CASE UNCHANGED poolVars
    <3>1. UNCHANGED <<jobs, pc, held, shutdown, interruptions>>
      BY <2>3 DEF poolVars, workerVars, queueVars
    <3>2. StallInv'
      BY <3>1 DEF StallInv, Ledger, Spent, PerWorker, TriesOf, LiveOn, Executing, Exists
    <3> QED BY <2>1, <3>2
  <2> QED BY <2>2, <2>3
<1>3. Inv => AttemptsAccountedWithStalls
  <2> SUFFICES ASSUME Inv, NEW j \in Jobs, Exists(j)
               PROVE  jobs[j].attempts <= Cardinality(Workers)
                          * (jobs[j].maxAttempts + jobs[j].replayCount) + interruptions
    BY DEF AttemptsAccountedWithStalls
  <2>1. /\ Spent(j) \in Int
        /\ Spent(j) + 1 <= jobs[j].maxAttempts + jobs[j].replayCount
    BY SpentType
  <2>2. /\ jobs[j].attempts \in Nat /\ jobs[j].maxAttempts \in Nat
        /\ jobs[j].replayCount \in Nat /\ interruptions \in Nat
    BY CountTypes
  <2>3. jobs[j].attempts <= PerWorker(Spent(j)) + Cardinality(Workers) + interruptions
    BY DEF StallInv, Ledger
  <2> DEFINE m == jobs[j].maxAttempts + jobs[j].replayCount
  <2>4. m \in Int /\ Spent(j) + 1 \in Int /\ Spent(j) + 1 <= m
    BY <2>1, <2>2
  <2> HIDE DEF m
  <2>5. PerWorker(Spent(j) + 1) <= PerWorker(m)
    BY <2>4, PerWorkerArithmetic
  <2>6. /\ PerWorker(Spent(j) + 1) = PerWorker(Spent(j)) + Cardinality(Workers)
        /\ PerWorker(Spent(j)) \in Int /\ PerWorker(m) \in Int /\ Cardinality(Workers) \in Nat
    BY <2>1, <2>4, PerWorkerArithmetic
  <2>7. jobs[j].attempts <= PerWorker(m) + interruptions
    BY <2>2, <2>3, <2>5, <2>6
  <2> QED BY <2>7 DEF PerWorker, m
<1> HIDE DEF Inv
<1> QED BY <1>1, <1>2, <1>3, PTL DEF PoolSpec

=============================================================================
