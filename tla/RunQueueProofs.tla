--------------------------- MODULE RunQueueProofs ---------------------------
(***************************************************************************)
(* Theorems about RunQueue for every set of jobs and workers, every lease  *)
(* duration and every bound.                                               *)
(*                                                                         *)
(* All of them rest on one lemma, StepForms: whatever a client calls, a    *)
(* step either writes one record and logs it (Write), or changes no        *)
(* record's life (Touch: a heartbeat or the clock), or deletes records.    *)
(***************************************************************************)
EXTENDS RunQueue, FiniteSetTheorems, TLAPS

(* Every way a method of the queue or the clock changes the table. *)
QueueStep ==
    \/ \E j \in Jobs, limit \in AttemptLimits, c \in Creations : EnqueueRunJob(j, limit, c)
    \/ \E w \in Workers, j \in Jobs : LeaseNextRunJob(w, j)
    \/ \E w \in Workers, j \in Jobs : ExtendRunJobLease(w, j)
    \/ \E j \in Jobs : CompleteRunJob(j)
    \/ \E j \in Jobs, d \in Nat : RetryRunJob(j, d)
    \/ \E j \in Jobs : FailRunJob(j)
    \/ \E j \in Jobs : DeadLetterRunJob(j)
    \/ \E j \in Jobs : CancelRunJob(j)
    \/ \E j \in Jobs, d \in Nat : RequeueRunJob(j, d)
    \/ \E D \in SUBSET Jobs : Delete(D)
    \/ Tick

(* Every step of the open specification is a QueueStep. *)
LEMMA NextIsQueueStep == Next => QueueStep
  BY DurationAssumption
  DEF Next, QueueStep, Submission, Leasing, Heartbeating, Settling, Cancelling, Replaying,
      Purging, PurgeRunJobs

-----------------------------------------------------------------------------
(* The record each method stores, field by field. *)

LEMMA NoJobFields ==
  /\ NoJob \in Job
  /\ NoJob.status = NoStatus
  /\ NoJob.leaseOwner = NoWorker
  /\ NoJob.leaseLeft = NoLease
  /\ NoJob.attempts = 0
  /\ NoJob.replayCount = 0
  BY DEF NoJob, Job, NoLease

LEMMA SubmittedFields ==
  ASSUME NEW limit \in AttemptLimits, NEW created \in Creations
  PROVE  LET r == Submitted(limit, created) IN
         /\ r \in Job
         /\ r.status = "QUEUED"
         /\ r.leaseOwner = NoWorker
         /\ r.leaseLeft = NoLease
         /\ r.attempts = 0
         /\ r.maxAttempts = limit
         /\ r.replayCount = 0
<1>1. "QUEUED" \in JobStatuses /\ limit \in Nat /\ created \in Nat
  BY CounterAssumption DEF JobStatuses
<1> QED BY <1>1, NoJobFields, Zenon DEF Submitted, Job

LEMMA LeasedToFields ==
  ASSUME NEW job \in Job, NEW w \in Workers
  PROVE  LET r == LeasedTo(job, w) IN
         /\ r \in Job
         /\ r.status = "LEASED"
         /\ r.leaseOwner = w
         /\ r.leaseLeft = LeaseDuration
         /\ r.attempts = job.attempts + 1
         /\ r.maxAttempts = job.maxAttempts
         /\ r.replayCount = job.replayCount
<1>1. "LEASED" \in JobStatuses /\ LeaseDuration \in Int /\ job.attempts + 1 \in Nat /\ 0 \in Nat
  BY DurationAssumption DEF JobStatuses, Job
<1> QED BY <1>1, Zenon DEF LeasedTo, Job

LEMMA ExtendedFields ==
  ASSUME NEW job \in Job
  PROVE  LET r == Extended(job) IN
         /\ r \in Job
         /\ r.status = job.status
         /\ r.leaseOwner = job.leaseOwner
         /\ r.leaseLeft = LeaseDuration
         /\ r.attempts = job.attempts
         /\ r.maxAttempts = job.maxAttempts
         /\ r.replayCount = job.replayCount
<1>1. LeaseDuration \in Int /\ 0 \in Nat
  BY DurationAssumption
<1> QED BY <1>1, Zenon DEF Extended, Job

LEMMA ReleasedFields ==
  ASSUME NEW job \in Job, NEW to \in JobStatuses
  PROVE  LET r == Released(job, to) IN
         /\ r \in Job
         /\ r.status = to
         /\ r.leaseOwner = NoWorker
         /\ r.leaseLeft = NoLease
         /\ r.attempts = job.attempts
         /\ r.maxAttempts = job.maxAttempts
         /\ r.replayCount = job.replayCount
<1>1. NoLease \in Int /\ 0 \in Nat
  BY DEF NoLease
<1> QED BY <1>1, Zenon DEF Released, Job

LEMMA DelayedFields ==
  ASSUME NEW job \in Job, NEW d \in Nat
  PROVE  LET r == Delayed(job, d) IN
         /\ r \in Job
         /\ r.status = "QUEUED"
         /\ r.leaseOwner = NoWorker
         /\ r.leaseLeft = NoLease
         /\ r.attempts = job.attempts
         /\ r.maxAttempts = job.maxAttempts
         /\ r.replayCount = job.replayCount
<1>1. "QUEUED" \in JobStatuses
  BY DEF JobStatuses
<1> QED BY <1>1, ReleasedFields, Zenon DEF Delayed, Job

LEMMA ReplayedFields ==
  ASSUME NEW job \in Job, NEW d \in Nat
  PROVE  LET r == Replayed(job, d) IN
         /\ r \in Job
         /\ r.status = "QUEUED"
         /\ r.leaseOwner = NoWorker
         /\ r.leaseLeft = NoLease
         /\ r.attempts = job.attempts
         /\ r.maxAttempts = job.maxAttempts
         /\ r.replayCount = job.replayCount + 1
<1>1. job.replayCount + 1 \in Nat
  BY DEF Job
<1> QED BY <1>1, DelayedFields, Zenon DEF Replayed, Job

LEMMA AgedFields ==
  ASSUME NEW job \in Job
  PROVE  LET r == Aged(job) IN
         /\ r \in Job
         /\ r.status = job.status
         /\ r.leaseOwner = job.leaseOwner
         /\ r.leaseLeft = IF job.status # NoStatus /\ job.leaseLeft >= 0
                          THEN job.leaseLeft - 1 ELSE job.leaseLeft
         /\ r.attempts = job.attempts
         /\ r.maxAttempts = job.maxAttempts
         /\ r.replayCount = job.replayCount
<1> DEFINE l == IF job.leaseLeft >= 0 THEN job.leaseLeft - 1 ELSE job.leaseLeft
           a == IF job.availableIn > 0 THEN job.availableIn - 1 ELSE job.availableIn
           i == IF job.idle < MaxIdle THEN job.idle + 1 ELSE job.idle
<1>1. l \in Int /\ a \in Nat /\ i \in Nat
  BY DEF Job
<1>2. Aged(job) = IF job.status = NoStatus THEN job
                  ELSE [job EXCEPT !.leaseLeft = l, !.availableIn = a, !.idle = i]
  BY DEF Aged
<1> HIDE DEF a, i, l
<1>3. /\ Aged(job) \in Job
      /\ Aged(job).leaseLeft = IF job.status # NoStatus THEN l ELSE job.leaseLeft
  BY <1>1, <1>2, Zenon DEF Job
<1>4. /\ Aged(job).status = job.status
      /\ Aged(job).leaseOwner = job.leaseOwner
      /\ Aged(job).attempts = job.attempts
      /\ Aged(job).maxAttempts = job.maxAttempts
      /\ Aged(job).replayCount = job.replayCount
  BY <1>1, <1>2, Zenon DEF Job
<1> QED BY <1>3, <1>4 DEF l

-----------------------------------------------------------------------------
(* The three forms of a step. *)

LeaseFieldsOK(job) ==
    /\ job.status = "LEASED" <=> job.leaseOwner # NoWorker
    /\ job.status = "LEASED" <=> job.leaseLeft # NoLease
    /\ job.leaseLeft \in -2 .. LeaseDuration

Edges ==
    {<<NoStatus, "QUEUED">>, <<"QUEUED", "LEASED">>, <<"LEASED", "LEASED">>,
     <<"LEASED", "SUCCEEDED">>, <<"LEASED", "FAILED">>, <<"LEASED", "DEAD_LETTER">>,
     <<"LEASED", "QUEUED">>, <<"QUEUED", "CANCELLED">>, <<"LEASED", "CANCELLED">>,
     <<"FAILED", "CANCELLED">>, <<"DEAD_LETTER", "CANCELLED">>,
     <<"FAILED", "QUEUED">>, <<"DEAD_LETTER", "QUEUED">>}

(* What may follow a record when it is rewritten, and who is logged for it. *)
LegalWrite(old, new, actor) ==
    /\ new.status \in JobStatuses
    /\ <<old.status, new.status>> \in Edges
    /\ LeaseFieldsOK(new)
    /\ new.status = "LEASED" => actor = new.leaseOwner
    /\ new.attempts = IF new.status = "LEASED" THEN old.attempts + 1 ELSE old.attempts
    /\ new.replayCount = IF old.status \in {"FAILED", "DEAD_LETTER"} /\ new.status = "QUEUED"
                         THEN old.replayCount + 1 ELSE old.replayCount

Write ==
    \E j \in Jobs, new \in Job, actor \in Actors :
        /\ LegalWrite(jobs[j], new, actor)
        /\ jobs' = [jobs EXCEPT ![j] = new]
        /\ appendTransition(j, jobs[j].status, new.status, actor)

SameLife(old, new) ==
    /\ new.status = old.status
    /\ new.leaseOwner = old.leaseOwner
    /\ new.attempts = old.attempts
    /\ new.replayCount = old.replayCount
    /\ LeaseFieldsOK(old) => LeaseFieldsOK(new)

Touch ==
    /\ jobs' \in [Jobs -> Job]
    /\ \A j \in Jobs : SameLife(jobs[j], jobs'[j]) /\ (~Exists(j) => jobs'[j] = jobs[j])
    /\ UNCHANGED transitions

(* A key that is not in the map has no leftovers. *)
AbsentIsBlank == \A j \in Jobs : ~Exists(j) => jobs[j] = NoJob

LEMMA StepForms ==
  ASSUME TypeOK, AbsentIsBlank, QueueStep
  PROVE  Write \/ Touch \/ \E D \in SUBSET Jobs : Delete(D)
<1> USE DEF TypeOK
<1>1. CASE \E j \in Jobs, limit \in AttemptLimits, c \in Creations : EnqueueRunJob(j, limit, c)
  <2> PICK j \in Jobs, limit \in AttemptLimits, c \in Creations : EnqueueRunJob(j, limit, c)
    BY <1>1
  <2> DEFINE new == Submitted(limit, c)
  <2>1. jobs[j] = NoJob
    BY DEF EnqueueRunJob, AbsentIsBlank
  <2>2. LegalWrite(jobs[j], new, "system")
    BY <2>1, NoJobFields, SubmittedFields, DurationAssumption
    DEF LegalWrite, LeaseFieldsOK, Edges, JobStatuses, NoLease, NoStatus
  <2>3. /\ new \in Job
        /\ jobs' = [jobs EXCEPT ![j] = new]
        /\ appendTransition(j, jobs[j].status, new.status, "system")
    BY <2>1, NoJobFields, SubmittedFields DEF EnqueueRunJob
  <2> QED BY <2>2, <2>3 DEF Write, Actors
<1>2. CASE \E w \in Workers, j \in Jobs : LeaseNextRunJob(w, j)
  <2> PICK w \in Workers, j \in Jobs : LeaseNextRunJob(w, j)
    BY <1>2
  <2> DEFINE new == LeasedTo(jobs[j], w)
  <2>1. jobs[j].status \in {"QUEUED", "LEASED"}
    BY DEF LeaseNextRunJob, OldestCandidate, Leasable
  <2>2. LegalWrite(jobs[j], new, w)
    BY <2>1, LeasedToFields, DurationAssumption, NoWorkerAssumption
    DEF LegalWrite, LeaseFieldsOK, Edges, JobStatuses, NoLease
  <2>3. /\ new \in Job
        /\ jobs' = [jobs EXCEPT ![j] = new]
        /\ appendTransition(j, jobs[j].status, new.status, w)
    BY LeasedToFields DEF LeaseNextRunJob
  <2> QED BY <2>2, <2>3 DEF Write, Actors
<1>3. CASE \E w \in Workers, j \in Jobs : ExtendRunJobLease(w, j)
  <2> PICK w \in Workers, j \in Jobs : ExtendRunJobLease(w, j)
    BY <1>3
  <2> DEFINE new == Extended(jobs[j])
  <2>1. /\ new \in Job
        /\ jobs' = [jobs EXCEPT ![j] = new]
        /\ UNCHANGED transitions
        /\ Exists(j)
    BY ExtendedFields DEF ExtendRunJobLease, Exists, NoStatus
  <2>2. SameLife(jobs[j], new)
    BY ExtendedFields, DurationAssumption DEF SameLife, LeaseFieldsOK, NoLease, ExtendRunJobLease
  <2>3. \A k \in Jobs : SameLife(jobs[k], jobs'[k]) /\ (~Exists(k) => jobs'[k] = jobs[k])
    <3> TAKE k \in Jobs
    <3> HIDE DEF new
    <3>1. CASE k = j
      BY <2>1, <2>2, <3>1
    <3>2. CASE k # j
      <4>1. jobs'[k] = jobs[k]
        BY <2>1, <3>2
      <4> QED BY <4>1 DEF SameLife
    <3> QED BY <3>1, <3>2
  <2> QED BY <2>1, <2>3 DEF Touch
<1>4. CASE \E j \in Jobs : CompleteRunJob(j) \/ FailRunJob(j) \/ DeadLetterRunJob(j)
  <2> PICK j \in Jobs, to \in {"SUCCEEDED", "FAILED", "DEAD_LETTER"} :
          /\ jobs[j].status = "LEASED"
          /\ jobs' = [jobs EXCEPT ![j] = Released(@, to)]
          /\ appendTransition(j, "LEASED", to, "worker")
    BY <1>4 DEF CompleteRunJob, FailRunJob, DeadLetterRunJob
  <2> DEFINE new == Released(jobs[j], to)
  <2>1. LegalWrite(jobs[j], new, "worker")
    BY ReleasedFields, DurationAssumption
    DEF LegalWrite, LeaseFieldsOK, Edges, JobStatuses, NoLease
  <2>2. /\ new \in Job
        /\ jobs' = [jobs EXCEPT ![j] = new]
        /\ appendTransition(j, jobs[j].status, new.status, "worker")
    BY ReleasedFields DEF JobStatuses
  <2> QED BY <2>1, <2>2 DEF Write, Actors
<1>5. CASE \E j \in Jobs, d \in Nat : RetryRunJob(j, d)
  <2> PICK j \in Jobs, d \in Nat : RetryRunJob(j, d)
    BY <1>5
  <2> DEFINE new == Delayed(jobs[j], d)
  <2>0. jobs[j].status = "LEASED"
    BY DEF RetryRunJob
  <2>1. LegalWrite(jobs[j], new, "worker")
    BY <2>0, DelayedFields, DurationAssumption
    DEF LegalWrite, LeaseFieldsOK, Edges, JobStatuses, NoLease
  <2>2. /\ new \in Job
        /\ jobs' = [jobs EXCEPT ![j] = new]
        /\ appendTransition(j, jobs[j].status, new.status, "worker")
    BY <2>0, DelayedFields DEF RetryRunJob
  <2> QED BY <2>1, <2>2 DEF Write, Actors
<1>6. CASE \E j \in Jobs : CancelRunJob(j)
  <2> PICK j \in Jobs : CancelRunJob(j)
    BY <1>6
  <2> DEFINE new == Released(jobs[j], "CANCELLED")
  <2>1. jobs[j].status \in {"QUEUED", "LEASED", "FAILED", "DEAD_LETTER"}
    <3>1. jobs[j].status \in JobStatuses \cup {NoStatus}
      BY DEF Job
    <3> QED BY <3>1 DEF CancelRunJob, Exists, JobStatuses
  <2>2. LegalWrite(jobs[j], new, "api")
    BY <2>1, ReleasedFields, DurationAssumption
    DEF LegalWrite, LeaseFieldsOK, Edges, JobStatuses, NoLease
  <2>3. /\ new \in Job
        /\ jobs' = [jobs EXCEPT ![j] = new]
        /\ appendTransition(j, jobs[j].status, new.status, "api")
    BY ReleasedFields DEF CancelRunJob, JobStatuses
  <2> QED BY <2>2, <2>3 DEF Write, Actors
<1>7. CASE \E j \in Jobs, d \in Nat : RequeueRunJob(j, d)
  <2> PICK j \in Jobs, d \in Nat : RequeueRunJob(j, d)
    BY <1>7
  <2> DEFINE new == Replayed(jobs[j], d)
  <2>1. LegalWrite(jobs[j], new, "replayer")
    BY ReplayedFields, DurationAssumption
    DEF LegalWrite, LeaseFieldsOK, Edges, JobStatuses, NoLease, RequeueRunJob
  <2>2. /\ new \in Job
        /\ jobs' = [jobs EXCEPT ![j] = new]
        /\ appendTransition(j, jobs[j].status, new.status, "replayer")
    BY ReplayedFields DEF RequeueRunJob
  <2> QED BY <2>1, <2>2 DEF Write, Actors
<1>8. CASE Tick
  <2>1. \A k \in Jobs : jobs'[k] = Aged(jobs[k]) /\ jobs[k] \in Job
    BY <1>8 DEF Tick
  <2>2. \A k \in Jobs : SameLife(jobs[k], Aged(jobs[k])) /\ (~Exists(k) => Aged(jobs[k]) = jobs[k])
    <3> TAKE k \in Jobs
    <3>1. ~Exists(k) => Aged(jobs[k]) = jobs[k]
      BY DEF Aged, Exists
    <3>2. jobs[k].leaseLeft \in Int
      BY <2>1 DEF Job
    <3>3. SameLife(jobs[k], Aged(jobs[k]))
      BY <2>1, <3>2, AgedFields, DurationAssumption DEF SameLife, LeaseFieldsOK, NoLease, NoStatus
    <3> QED BY <3>1, <3>3
  <2>3. jobs' \in [Jobs -> Job]
    BY <1>8, <2>1, AgedFields DEF Tick
  <2> QED BY <1>8, <2>1, <2>2, <2>3 DEF Touch, Tick
<1> QED BY <1>1, <1>2, <1>3, <1>4, <1>5, <1>6, <1>7, <1>8 DEF QueueStep

-----------------------------------------------------------------------------
(* The inductive invariant: types, no leftovers under absent keys, and the  *)
(* lease fields of every record.                                            *)
QueueInv == TypeOK /\ AbsentIsBlank /\ LeaseConsistent

LEMMA AppendType ==
  ASSUME transitions \in [Jobs -> Seq(Transition)],
         NEW j \in Jobs, NEW from \in JobStatuses \cup {NoStatus}, NEW to \in JobStatuses,
         NEW actor \in Actors, appendTransition(j, from, to, actor)
  PROVE  transitions' \in [Jobs -> Seq(Transition)]
<1>1. [from |-> from, to |-> to, actor |-> actor] \in Transition
  BY DEF Transition
<1> QED BY <1>1 DEF appendTransition

LEMMA LeaseConsistentFields == LeaseConsistent <=> \A j \in Jobs : LeaseFieldsOK(jobs[j])
  BY DEF LeaseConsistent, LeaseFieldsOK

LEMMA QueueInvStep == QueueInv /\ QueueStep => QueueInv'
<1> SUFFICES ASSUME QueueInv, QueueStep PROVE QueueInv'
  OBVIOUS
<1> USE DEF QueueInv
<1>0. \A j \in Jobs : LeaseFieldsOK(jobs[j])
  BY LeaseConsistentFields
<1>1. CASE Write
  <2> PICK j \in Jobs, new \in Job, actor \in Actors :
          /\ LegalWrite(jobs[j], new, actor)
          /\ jobs' = [jobs EXCEPT ![j] = new]
          /\ appendTransition(j, jobs[j].status, new.status, actor)
    BY <1>1 DEF Write
  <2>1. jobs[j].status \in JobStatuses \cup {NoStatus} /\ new.status \in JobStatuses
    BY DEF TypeOK, Job, LegalWrite
  <2>2. TypeOK'
    BY <2>1, AppendType DEF TypeOK
  <2>3. AbsentIsBlank'
    BY <2>1 DEF AbsentIsBlank, Exists, TypeOK, JobStatuses, NoStatus
  <2>4. \A k \in Jobs : LeaseFieldsOK(jobs'[k])
    BY <1>0 DEF LegalWrite, TypeOK
  <2> QED BY <2>2, <2>3, <2>4 DEF LeaseConsistent, LeaseFieldsOK
<1>2. CASE Touch
  <2>1. TypeOK'
    BY <1>2 DEF Touch, TypeOK
  <2>2. AbsentIsBlank'
    BY <1>2 DEF Touch, AbsentIsBlank, Exists, SameLife
  <2>3. \A k \in Jobs : LeaseFieldsOK(jobs'[k])
    BY <1>0, <1>2 DEF Touch, SameLife
  <2> QED BY <2>1, <2>2, <2>3 DEF LeaseConsistent, LeaseFieldsOK
<1>3. CASE \E D \in SUBSET Jobs : Delete(D)
  <2>1. TypeOK'
    BY <1>3, NoJobFields DEF Delete, TypeOK
  <2>2. AbsentIsBlank'
    BY <1>3 DEF Delete, AbsentIsBlank, Exists
  <2>3. LeaseFieldsOK(NoJob)
    BY NoJobFields, DurationAssumption DEF LeaseFieldsOK, NoLease, NoStatus
  <2>4. \A k \in Jobs : LeaseFieldsOK(jobs'[k])
    BY <1>0, <1>3, <2>3 DEF Delete
  <2> QED BY <2>1, <2>2, <2>4 DEF LeaseConsistent, LeaseFieldsOK
<1> QED BY <1>1, <1>2, <1>3, StepForms

LEMMA QueueInvInit == Init => QueueInv
  BY NoJobFields, DurationAssumption
  DEF Init, QueueInv, TypeOK, AbsentIsBlank, Exists, LeaseConsistent, NoLease, NoStatus

LEMMA QueueInvStutter == QueueInv /\ UNCHANGED queueVars => QueueInv'
  BY DEF QueueInv, TypeOK, AbsentIsBlank, Exists, LeaseConsistent, queueVars

(* The invariant of the queue, whatever its clients call. *)
LEMMA QueueInvariant == Spec => []QueueInv
<1>1. QueueInv /\ [Next]_queueVars => QueueInv'
  BY QueueInvStep, NextIsQueueStep, QueueInvStutter
<1> QED BY <1>1, QueueInvInit, PTL DEF Spec

(* The queue's records and histories have their types: no method or clock   *)
(* tick takes a counter, a lease or a status out of its range.              *)
THEOREM QueueTypeCorrect == Spec => []TypeOK
<1>1. QueueInv => TypeOK
  BY DEF QueueInv
<1> QED BY <1>1, QueueInvariant, PTL

(* A job is LEASED exactly when it has an owner and a lease deadline,       *)
(* whatever the clients of memory_queue.go call and in whatever order.      *)
THEOREM LeasesConsistent == Spec => []LeaseConsistent
<1>1. QueueInv => LeaseConsistent
  BY DEF QueueInv
<1> QED BY <1>1, QueueInvariant, PTL

-----------------------------------------------------------------------------
(* A step of the queue is a move along one of the edges of JobLifecycle, a  *)
(* purge, or invisible there.                                               *)
LEMMA LifecycleStep ==
  ASSUME QueueInv, QueueStep
  PROVE  [Lifecycle!LNext]_statusOf
<1>1. CASE Write
  <2> PICK j \in Jobs, new \in Job, actor \in Actors :
          /\ LegalWrite(jobs[j], new, actor)
          /\ jobs' = [jobs EXCEPT ![j] = new]
    BY <1>1 DEF Write
  <2>1. statusOf' = [statusOf EXCEPT ![j] = new.status]
    BY DEF statusOf, QueueInv, TypeOK
  <2>2. statusOf[j] = jobs[j].status
    BY DEF statusOf
  <2>3. <<jobs[j].status, new.status>> \in Edges
    BY DEF LegalWrite
  <2>4. CASE jobs[j].status = "LEASED" /\ new.status = "LEASED"
    <3>1. statusOf' = statusOf
      BY <2>1, <2>2, <2>4 DEF statusOf
    <3> QED BY <3>1
  <2>5. CASE ~(jobs[j].status = "LEASED" /\ new.status = "LEASED")
    <3>1. \/ Lifecycle!Submit(j)
          \/ Lifecycle!Take(j)
          \/ Lifecycle!Settle(j)
          \/ Lifecycle!Cancel(j)
          \/ Lifecycle!Replay(j)
      BY <2>1, <2>2, <2>3, <2>5
      DEF Edges, NoStatus, Lifecycle!NoStatus, Lifecycle!Submit, Lifecycle!Take, Lifecycle!Settle,
          Lifecycle!Cancel, Lifecycle!Replay, Lifecycle!Move
    <3> QED BY <3>1 DEF Lifecycle!LNext
  <2> QED BY <2>4, <2>5
<1>2. CASE Touch
  BY <1>2 DEF Touch, SameLife, statusOf
<1>3. CASE \E D \in SUBSET Jobs : Delete(D)
  <2> PICK D \in SUBSET Jobs : Delete(D)
    BY <1>3
  <2>1. Lifecycle!Purge(D)
    BY NoJobFields DEF Delete, statusOf, Lifecycle!Purge, NoStatus, Lifecycle!NoStatus
  <2> QED BY <2>1 DEF Lifecycle!LNext
<1> QED BY <1>1, <1>2, <1>3, StepForms DEF QueueInv

(* The queue implements JobLifecycle: a SUCCEEDED or CANCELLED job never    *)
(* moves again, jobs are settled only from LEASED and replayed only from    *)
(* FAILED and DEAD_LETTER.                                                  *)
THEOREM LifecycleImplemented == Spec => ImplementsLifecycle
<1>1. Init => Lifecycle!LInit
  BY NoJobFields DEF Init, Lifecycle!LInit, statusOf, NoStatus, Lifecycle!NoStatus
<1>2. QueueInv /\ [Next]_queueVars => [Lifecycle!LNext]_statusOf
  BY LifecycleStep, NextIsQueueStep DEF queueVars, statusOf
<1>3. QueueInv /\ [Next]_queueVars => QueueInv'
  BY QueueInvStep, NextIsQueueStep, QueueInvStutter
<1> QED BY <1>1, <1>2, <1>3, QueueInvInit, PTL DEF Spec, ImplementsLifecycle, Lifecycle!LSpec

-----------------------------------------------------------------------------
(* The audit history.  HistoryOf(h, job) is what HistoryMatchesState says   *)
(* of one job.                                                              *)
HistoryOf(h, job) ==
    /\ h = << >> <=> job.status = NoStatus
    /\ h # << >> => /\ h[1].from = NoStatus
                    /\ Chained(h)
                    /\ h[Len(h)].to = job.status
                    /\ job.status = "LEASED" => h[Len(h)].actor = job.leaseOwner

LEMMA HistoryByJob ==
  HistoryMatchesState <=> (KeepHistory => \A j \in Jobs : HistoryOf(transitions[j], jobs[j]))
  BY DEF HistoryMatchesState, HistoryOf, Exists

(* A history followed by an entry that starts in the old status and ends in *)
(* the new one is the history of the new record.                            *)
LEMMA HistoryAppended ==
  ASSUME NEW h \in Seq(Transition), NEW old \in Job, NEW new \in Job, NEW actor \in Actors,
         HistoryOf(h, old), new.status \in JobStatuses,
         new.status = "LEASED" => actor = new.leaseOwner
  PROVE  HistoryOf(Append(h, [from |-> old.status, to |-> new.status, actor |-> actor]), new)
<1> DEFINE e == [from |-> old.status, to |-> new.status, actor |-> actor]
           g == Append(h, e)
<1>0. e.from = old.status /\ e.to = new.status /\ e.actor = actor
  OBVIOUS
<1>1. e \in Transition
  BY DEF Transition, Job
<1> HIDE DEF e
<1>2. /\ Len(h) \in Nat
      /\ Len(g) = Len(h) + 1
      /\ g # << >>
      /\ g[Len(h) + 1] = e
      /\ \A i \in 1 .. Len(h) : g[i] = h[i]
  BY <1>1
<1>3. new.status # NoStatus
  BY DEF JobStatuses, NoStatus
<1> HIDE DEF g
<1>4. CASE h = << >>
  <2>1. Len(h) = 0 /\ old.status = NoStatus
    BY <1>4 DEF HistoryOf
  <2> QED BY <1>0, <1>2, <1>3, <2>1 DEF HistoryOf, Chained, e, g
<1>5. CASE h # << >>
  <2>1. Len(h) >= 1 /\ h[Len(h)].to = old.status /\ h[1].from = NoStatus /\ Chained(h)
    BY <1>5 DEF HistoryOf
  <2>2. g[1] = h[1] /\ g[Len(h)] = h[Len(h)]
    BY <1>2, <2>1
  <2>3. Chained(g)
    <3> SUFFICES ASSUME NEW i \in 2 .. Len(g) PROVE g[i].from = g[i - 1].to
      BY DEF Chained
    <3>1. CASE i = Len(h) + 1
      BY <1>0, <1>2, <2>1, <2>2, <3>1
    <3>2. CASE i # Len(h) + 1
      <4>1. i \in 2 .. Len(h) /\ i - 1 \in 1 .. Len(h) /\ i \in 1 .. Len(h)
        BY <1>2, <3>2
      <4> QED BY <1>2, <2>1, <4>1 DEF Chained
    <3> QED BY <3>1, <3>2
  <2>4. HistoryOf(g, new)
    BY <1>0, <1>2, <1>3, <2>1, <2>2, <2>3 DEF HistoryOf
  <2> QED BY <2>4 DEF e, g
<1> QED BY <1>4, <1>5

LEMMA HistoryStep == QueueInv /\ HistoryMatchesState /\ QueueStep => HistoryMatchesState'
<1> SUFFICES ASSUME QueueInv, HistoryMatchesState, QueueStep, KeepHistory,
                    NEW k \in Jobs
             PROVE  HistoryOf(transitions'[k], jobs'[k])
  BY DEF HistoryMatchesState, HistoryOf, Exists
<1>0. /\ jobs \in [Jobs -> Job]
      /\ transitions \in [Jobs -> Seq(Transition)]
      /\ \A j \in Jobs : HistoryOf(transitions[j], jobs[j])
  BY HistoryByJob DEF QueueInv, TypeOK
<1>1. CASE Write
  <2> PICK j \in Jobs, new \in Job, actor \in Actors :
          /\ LegalWrite(jobs[j], new, actor)
          /\ jobs' = [jobs EXCEPT ![j] = new]
          /\ appendTransition(j, jobs[j].status, new.status, actor)
    BY <1>1 DEF Write
  <2> DEFINE e == [from |-> jobs[j].status, to |-> new.status, actor |-> actor]
  <2>1. transitions' = [transitions EXCEPT ![j] = Append(@, e)]
    BY DEF appendTransition
  <2>2. HistoryOf(Append(transitions[j], e), new)
    BY <1>0, HistoryAppended DEF LegalWrite
  <2> HIDE DEF e
  <2>3. CASE k = j
    BY <1>0, <2>1, <2>2, <2>3
  <2>4. CASE k # j
    BY <1>0, <2>1, <2>4
  <2> QED BY <2>3, <2>4
<1>2. CASE Touch
  BY <1>0, <1>2 DEF Touch, SameLife, HistoryOf
<1>3. CASE \E D \in SUBSET Jobs : Delete(D)
  BY <1>0, <1>3, NoJobFields DEF Delete, HistoryOf
<1> QED BY <1>1, <1>2, <1>3, StepForms DEF QueueInv

(* The audit history of every job is a path from its submission to its      *)
(* present status and owner, across retries, expiries, cancels, replays and *)
(* purges.                                                                  *)
THEOREM HistoryCorrect == Spec => []HistoryMatchesState
<1>1. Init => HistoryMatchesState
  BY NoJobFields DEF Init, HistoryMatchesState, Exists
<1>2. QueueInv /\ HistoryMatchesState /\ [Next]_queueVars => HistoryMatchesState'
  <2>1. HistoryMatchesState /\ UNCHANGED queueVars => HistoryMatchesState'
    BY DEF HistoryMatchesState, Exists, queueVars
  <2> QED BY <2>1, HistoryStep, NextIsQueueStep
<1>3. QueueInv /\ [Next]_queueVars => QueueInv'
  BY QueueInvStep, NextIsQueueStep, QueueInvStutter
<1> QED BY <1>1, <1>2, <1>3, QueueInvInit, PTL DEF Spec

-----------------------------------------------------------------------------
(* The counters.  One more entry adds itself to the entries of its kind.    *)
LEMMA EntriesAppended ==
  ASSUME NEW h \in Seq(Transition), NEW e \in Transition
  PROVE  /\ Cardinality(LeaseEntries(h)) \in Nat
         /\ Cardinality(ReplayEntries(h)) \in Nat
         /\ Cardinality(LeaseEntries(Append(h, e)))
               = IF e.to = "LEASED" THEN Cardinality(LeaseEntries(h)) + 1
                 ELSE Cardinality(LeaseEntries(h))
         /\ Cardinality(ReplayEntries(Append(h, e)))
               = IF e.from \in {"FAILED", "DEAD_LETTER"} /\ e.to = "QUEUED"
                 THEN Cardinality(ReplayEntries(h)) + 1
                 ELSE Cardinality(ReplayEntries(h))
<1> DEFINE g == Append(h, e)
           n == Len(h)
<1>1. /\ n \in Nat
      /\ DOMAIN h = 1 .. n
      /\ DOMAIN g = 1 .. (n + 1)
      /\ g[n + 1] = e
      /\ \A i \in 1 .. n : g[i] = h[i]
  OBVIOUS
<1>2. IsFiniteSet(1 .. n)
  BY <1>1, FS_Interval
<1>3. /\ IsFiniteSet(LeaseEntries(h)) /\ IsFiniteSet(ReplayEntries(h))
      /\ n + 1 \notin LeaseEntries(h) /\ n + 1 \notin ReplayEntries(h)
  <2>1. LeaseEntries(h) \subseteq 1 .. n /\ ReplayEntries(h) \subseteq 1 .. n
    BY <1>1 DEF LeaseEntries, ReplayEntries
  <2> QED BY <1>1, <1>2, <2>1, FS_Subset
<1> HIDE DEF g, n
<1>4. LeaseEntries(g) = IF e.to = "LEASED" THEN LeaseEntries(h) \cup {n + 1} ELSE LeaseEntries(h)
  BY <1>1 DEF LeaseEntries
<1>5. ReplayEntries(g) = IF e.from \in {"FAILED", "DEAD_LETTER"} /\ e.to = "QUEUED"
                         THEN ReplayEntries(h) \cup {n + 1} ELSE ReplayEntries(h)
  BY <1>1 DEF ReplayEntries
<1>6. /\ Cardinality(LeaseEntries(h)) \in Nat
      /\ Cardinality(ReplayEntries(h)) \in Nat
      /\ Cardinality(LeaseEntries(h) \cup {n + 1}) = Cardinality(LeaseEntries(h)) + 1
      /\ Cardinality(ReplayEntries(h) \cup {n + 1}) = Cardinality(ReplayEntries(h)) + 1
  BY <1>3, FS_AddElement, FS_CardinalityType
<1> QED BY <1>4, <1>5, <1>6 DEF g

CountersOf(h, job) ==
    /\ job.attempts = Cardinality(LeaseEntries(h))
    /\ job.replayCount = Cardinality(ReplayEntries(h))

LEMMA BlankCounters == CountersOf(<< >>, NoJob)
<1>1. LeaseEntries(<< >>) = {} /\ ReplayEntries(<< >>) = {}
  BY DEF LeaseEntries, ReplayEntries
<1> QED BY <1>1, NoJobFields, FS_EmptySet DEF CountersOf

LEMMA CountersStep == QueueInv /\ CountersAudited /\ QueueStep => CountersAudited'
<1> SUFFICES ASSUME QueueInv, CountersAudited, QueueStep, KeepHistory,
                    NEW k \in Jobs
             PROVE  CountersOf(transitions'[k], jobs'[k])
  BY DEF CountersAudited, CountersOf
<1>0. /\ jobs \in [Jobs -> Job]
      /\ transitions \in [Jobs -> Seq(Transition)]
      /\ \A j \in Jobs : CountersOf(transitions[j], jobs[j])
  BY DEF QueueInv, TypeOK, CountersAudited, CountersOf
<1>1. CASE Write
  <2> PICK j \in Jobs, new \in Job, actor \in Actors :
          /\ LegalWrite(jobs[j], new, actor)
          /\ jobs' = [jobs EXCEPT ![j] = new]
          /\ appendTransition(j, jobs[j].status, new.status, actor)
    BY <1>1 DEF Write
  <2> DEFINE e == [from |-> jobs[j].status, to |-> new.status, actor |-> actor]
  <2>1. transitions' = [transitions EXCEPT ![j] = Append(@, e)]
    BY DEF appendTransition
  <2>2. e \in Transition /\ e.from = jobs[j].status /\ e.to = new.status
    BY <1>0 DEF Transition, Job, LegalWrite
  <2> HIDE DEF e
  <2>3. CountersOf(Append(transitions[j], e), new)
    BY <1>0, <2>2, EntriesAppended DEF LegalWrite, CountersOf
  <2>4. CASE k = j
    BY <1>0, <2>1, <2>3, <2>4
  <2>5. CASE k # j
    BY <1>0, <2>1, <2>5
  <2> QED BY <2>4, <2>5
<1>2. CASE Touch
  BY <1>0, <1>2 DEF Touch, SameLife, CountersOf
<1>3. CASE \E D \in SUBSET Jobs : Delete(D)
  BY <1>0, <1>3, BlankCounters DEF Delete
<1> QED BY <1>1, <1>2, <1>3, StepForms DEF QueueInv

(* Attempts and ReplayCount of every job are the numbers of leases and of   *)
(* replays in its history, for any number of retries, expiries and replays. *)
THEOREM CountersCorrect == Spec => []CountersAudited
<1>1. Init => CountersAudited
  BY BlankCounters DEF Init, CountersAudited, CountersOf
<1>2. QueueInv /\ CountersAudited /\ [Next]_queueVars => CountersAudited'
  <2>1. CountersAudited /\ UNCHANGED queueVars => CountersAudited'
    BY DEF CountersAudited, queueVars
  <2> QED BY <2>1, CountersStep, NextIsQueueStep
<1>3. QueueInv /\ [Next]_queueVars => QueueInv'
  BY QueueInvStep, NextIsQueueStep, QueueInvStutter
<1> QED BY <1>1, <1>2, <1>3, QueueInvInit, PTL DEF Spec

=============================================================================
