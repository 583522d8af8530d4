------------------------------ MODULE RunQueue ------------------------------
(***************************************************************************)
(* The run queue of internal/queue/memory_queue.go: the table of run jobs  *)
(* and the audit history of each job.  Every method holds q.mu from its    *)
(* first line to its last, so every method is one action.  A call that     *)
(* returns an error changes nothing and is a stuttering step.              *)
(*                                                                         *)
(* Time.  The code compares LeaseUntil, AvailableAt and UpdatedAt with     *)
(* time.Now() only.  The model keeps the differences: leaseLeft is         *)
(* LeaseUntil - now, availableIn is AvailableAt - now, idle is now -       *)
(* UpdatedAt, and Tick lets one unit of time pass.  leaseLeft stops at     *)
(* -1 (LeaseUntil.Before(now)), availableIn at 0, idle at MaxIdle.         *)
(***************************************************************************)
EXTENDS Integers, Sequences, FiniteSets

CONSTANTS
    Jobs,           \* job identifiers ("job-" + run id)
    Workers,        \* worker identifiers
    NoWorker,       \* the empty LeaseOwner
    LeaseDuration,  \* the lease of worker.Service, in ticks
    Delays,         \* retryAfter and availableAfter durations, in ticks
    AttemptLimits,  \* values of MaxAttempts a submitter may ask for
    Creations,      \* CreatedAt stamps: set by the submitter before it takes the lock
    PurgeAges,      \* olderThan durations of PurgeRunJobs
    PurgeLimits,    \* limits of PurgeRunJobs
    PurgeStatuses,  \* statuses PurgeRunJobs is called with (NoStatus: any)
    MaxIdle,        \* bound: idle saturates here
    MaxLeases,      \* bound: leases of one job in the open specification
    MaxReplays,     \* bound: replays of one job
    KeepHistory     \* FALSE drops the write-only audit history from the state

VARIABLES
    jobs,           \* q.jobs
    transitions     \* q.transitions

queueVars == <<jobs, transitions>>

NoStatus == "NONE"
JobStatuses == {"QUEUED", "LEASED", "SUCCEEDED", "FAILED", "DEAD_LETTER", "CANCELLED"}

ASSUME NoWorkerAssumption == NoWorker \notin Workers
ASSUME DurationAssumption ==
    /\ LeaseDuration \in Nat
    /\ Delays \subseteq Nat
    /\ PurgeAges \subseteq Nat
    /\ MaxIdle \in Nat
    /\ \A a \in PurgeAges : a <= MaxIdle
ASSUME CounterAssumption ==
    /\ AttemptLimits \subseteq Nat \ {0}
    /\ Creations \subseteq Nat
    /\ PurgeLimits \subseteq Nat \ {0}
    /\ PurgeStatuses \subseteq JobStatuses \cup {NoStatus}
    /\ MaxLeases \in Nat
    /\ MaxReplays \in Nat
    /\ KeepHistory \in BOOLEAN

(* The zero time.Time in LeaseUntil. *)
NoLease == -2

Job == [status : JobStatuses \cup {NoStatus},
        attempts : Nat,
        maxAttempts : Nat,
        leaseOwner : Workers \cup {NoWorker},
        leaseLeft : Int,
        availableIn : Nat,
        createdAt : Nat,
        idle : Nat,
        replayCount : Nat]

(* A key that is not in q.jobs. *)
NoJob == [status |-> NoStatus, attempts |-> 0, maxAttempts |-> 0, leaseOwner |-> NoWorker,
          leaseLeft |-> NoLease, availableIn |-> 0, createdAt |-> 0, idle |-> 0,
          replayCount |-> 0]

Actors == Workers \cup {"system", "worker", "api", "replayer"}

Transition == [from : JobStatuses \cup {NoStatus}, to : JobStatuses, actor : Actors]

Init ==
    /\ jobs = [j \in Jobs |-> NoJob]
    /\ transitions = [j \in Jobs |-> << >>]

Exists(j) == jobs[j].status # NoStatus

appendTransition(j, from, to, actor) ==
    transitions' = IF KeepHistory
                   THEN [transitions EXCEPT ![j] = Append(@, [from |-> from, to |-> to, actor |-> actor])]
                   ELSE transitions

-----------------------------------------------------------------------------
(* One operator per method of MemoryRunQueue that changes the table.       *)

(* EnqueueRunJob: an id that is already there is left as it is (a stutter). *)
Submitted(limit, created) ==
    [NoJob EXCEPT !.status = "QUEUED", !.maxAttempts = limit, !.createdAt = created]

EnqueueRunJob(j, limit, created) ==
    /\ ~Exists(j)
    /\ jobs' = [jobs EXCEPT ![j] = Submitted(limit, created)]
    /\ appendTransition(j, NoStatus, "QUEUED", "system")

(* Mutant: a lease that ends now counts as expired (!After instead of Before). *)
LeaseExpired_Inclusive(job) == job.leaseLeft # NoLease /\ job.leaseLeft <= 0

LeaseExpired(job) == job.leaseLeft # NoLease /\ job.leaseLeft < 0

(* Mutant: expired leases are not taken back. *)
Leasable_QueuedOnly(j) == jobs[j].status = "QUEUED" /\ jobs[j].availableIn = 0

Leasable(j) ==
    \/ jobs[j].status = "QUEUED" /\ jobs[j].availableIn = 0
    \/ jobs[j].status = "LEASED" /\ LeaseExpired(jobs[j])

(* The head of the candidates sorted by CreatedAt; ties in any order (the  *)
(* sort is not stable and starts from a map's iteration order).            *)
OldestCandidate(j) ==
    /\ Leasable(j)
    /\ \A k \in Jobs : Leasable(k) => jobs[j].createdAt <= jobs[k].createdAt

LeasedTo(job, w) ==
    [job EXCEPT !.status = "LEASED", !.leaseOwner = w, !.leaseLeft = LeaseDuration,
                !.attempts = @ + 1, !.idle = 0]

LeaseNextRunJob(w, j) ==
    /\ OldestCandidate(j)
    /\ jobs' = [jobs EXCEPT ![j] = LeasedTo(@, w)]
    /\ appendTransition(j, jobs[j].status, "LEASED", w)

Extended(job) == [job EXCEPT !.leaseLeft = LeaseDuration, !.idle = 0]

ExtendRunJobLease(w, j) ==
    /\ jobs[j].status = "LEASED"
    /\ jobs[j].leaseOwner = w
    /\ jobs' = [jobs EXCEPT ![j] = Extended(@)]
    /\ UNCHANGED transitions

(* Mutant: the owner survives the release. *)
Released_KeepsOwner(job, to) == [job EXCEPT !.status = to, !.leaseLeft = NoLease, !.idle = 0]

(* The assignments every method makes that takes a job off its worker.     *)
Released(job, to) ==
    [job EXCEPT !.status = to, !.leaseOwner = NoWorker, !.leaseLeft = NoLease, !.idle = 0]

(* The settling methods ask for LEASED and not for the caller's ownership. *)
CompleteRunJob(j) ==
    /\ jobs[j].status = "LEASED"
    /\ jobs' = [jobs EXCEPT ![j] = Released(@, "SUCCEEDED")]
    /\ appendTransition(j, "LEASED", "SUCCEEDED", "worker")

(* Back to QUEUED, available after a delay. *)
Delayed(job, delay) == [Released(job, "QUEUED") EXCEPT !.availableIn = delay]

RetryRunJob(j, retryAfter) ==
    /\ jobs[j].status = "LEASED"
    /\ jobs' = [jobs EXCEPT ![j] = Delayed(@, retryAfter)]
    /\ appendTransition(j, "LEASED", "QUEUED", "worker")

FailRunJob(j) ==
    /\ jobs[j].status = "LEASED"
    /\ jobs' = [jobs EXCEPT ![j] = Released(@, "FAILED")]
    /\ appendTransition(j, "LEASED", "FAILED", "worker")

DeadLetterRunJob(j) ==
    /\ jobs[j].status = "LEASED"
    /\ jobs' = [jobs EXCEPT ![j] = Released(@, "DEAD_LETTER")]
    /\ appendTransition(j, "LEASED", "DEAD_LETTER", "worker")

(* Mutant: fromStatus is taken to be LEASED. *)
CancelRunJob_AssumesLeased(j) ==
    /\ Exists(j)
    /\ jobs[j].status \notin {"SUCCEEDED", "CANCELLED"}
    /\ jobs' = [jobs EXCEPT ![j] = Released(@, "CANCELLED")]
    /\ appendTransition(j, "LEASED", "CANCELLED", "api")

(* Mutant: the check for SUCCEEDED is dropped. *)
CancelRunJob_Unguarded(j) ==
    /\ Exists(j)
    /\ jobs[j].status # "CANCELLED"
    /\ jobs' = [jobs EXCEPT ![j] = Released(@, "CANCELLED")]
    /\ appendTransition(j, jobs[j].status, "CANCELLED", "api")

(* CancelRunJob: SUCCEEDED is refused, CANCELLED is accepted unchanged.    *)
CancelRunJob(j) ==
    /\ Exists(j)
    /\ jobs[j].status \notin {"SUCCEEDED", "CANCELLED"}
    /\ jobs' = [jobs EXCEPT ![j] = Released(@, "CANCELLED")]
    /\ appendTransition(j, jobs[j].status, "CANCELLED", "api")

Replayed(job, delay) == [Delayed(job, delay) EXCEPT !.replayCount = @ + 1]

(* Mutant: a replay starts counting attempts afresh. *)
RequeueRunJob_ResetsAttempts(j, availableAfter) ==
    /\ jobs[j].status \in {"DEAD_LETTER", "FAILED"}
    /\ jobs' = [jobs EXCEPT ![j] = [Replayed(@, availableAfter) EXCEPT !.attempts = 0]]
    /\ appendTransition(j, jobs[j].status, "QUEUED", "replayer")

(* Mutant: whatever did not succeed may be replayed, a cancelled job too. *)
RequeueRunJob_AcceptsCancelled(j, availableAfter) ==
    /\ jobs[j].status \in {"DEAD_LETTER", "FAILED", "CANCELLED"}
    /\ jobs' = [jobs EXCEPT ![j] = Replayed(@, availableAfter)]
    /\ appendTransition(j, jobs[j].status, "QUEUED", "replayer")

(* RequeueRunJob keeps Attempts. *)
RequeueRunJob(j, availableAfter) ==
    /\ jobs[j].status \in {"DEAD_LETTER", "FAILED"}
    /\ jobs' = [jobs EXCEPT ![j] = Replayed(@, availableAfter)]
    /\ appendTransition(j, jobs[j].status, "QUEUED", "replayer")

(* PurgeRunJobs(status, olderThan, limit): the limit least recently        *)
(* updated jobs among those that match, with their histories.              *)
Purgeable(status, olderThan) ==
    {j \in Jobs : /\ Exists(j)
                  /\ status # NoStatus => jobs[j].status = status
                  /\ jobs[j].idle >= olderThan}

PurgeChoice(D, M, limit) ==
    /\ D \subseteq M
    /\ Cardinality(D) = IF Cardinality(M) > limit THEN limit ELSE Cardinality(M)
    /\ \A d \in D, m \in M \ D : jobs[d].idle >= jobs[m].idle

Delete(D) ==
    /\ jobs' = [j \in Jobs |-> IF j \in D THEN NoJob ELSE jobs[j]]
    /\ transitions' = [j \in Jobs |-> IF j \in D THEN << >> ELSE transitions[j]]

PurgeRunJobs(status, olderThan, limit) ==
    \E D \in (SUBSET Jobs) \ {{}} :
        /\ PurgeChoice(D, Purgeable(status, olderThan), limit)
        /\ Delete(D)

-----------------------------------------------------------------------------
(* Time passes. *)
Aged(job) ==
    IF job.status = NoStatus THEN job
    ELSE [job EXCEPT !.leaseLeft = IF @ >= 0 THEN @ - 1 ELSE @,
                     !.availableIn = IF @ > 0 THEN @ - 1 ELSE @,
                     !.idle = IF @ < MaxIdle THEN @ + 1 ELSE @]

TimeMatters == \E j \in Jobs : Aged(jobs[j]) # jobs[j]

Tick ==
    /\ TimeMatters
    /\ jobs' = [j \in Jobs |-> Aged(jobs[j])]
    /\ UNCHANGED transitions

(* The open specification: any client calls any method at any time.        *)
Submission == \E j \in Jobs, limit \in AttemptLimits, c \in Creations : EnqueueRunJob(j, limit, c)

Leasing == \E w \in Workers, j \in Jobs : jobs[j].attempts < MaxLeases /\ LeaseNextRunJob(w, j)

Heartbeating == \E w \in Workers, j \in Jobs : ExtendRunJobLease(w, j)

Settling ==
    \E j \in Jobs :
        \/ CompleteRunJob(j)
        \/ \E d \in Delays : RetryRunJob(j, d)
        \/ FailRunJob(j)
        \/ DeadLetterRunJob(j)

Cancelling == \E j \in Jobs : CancelRunJob(j)

Replaying == \E j \in Jobs, d \in Delays : jobs[j].replayCount < MaxReplays /\ RequeueRunJob(j, d)

Purging == \E s \in PurgeStatuses, a \in PurgeAges, n \in PurgeLimits : PurgeRunJobs(s, a, n)

Next ==
    \/ Submission
    \/ Leasing
    \/ Heartbeating
    \/ Settling
    \/ Cancelling
    \/ Replaying
    \/ Purging
    \/ Tick

Spec == Init /\ [][Next]_queueVars

-----------------------------------------------------------------------------
(* Every job record and every history entry has its type. *)
TypeOK ==
    /\ jobs \in [Jobs -> Job]
    /\ transitions \in [Jobs -> Seq(Transition)]

(* A job is LEASED exactly when it has an owner and exactly when it has a   *)
(* lease deadline.  LeaseNextRunJob takes back an abandoned job only by its *)
(* deadline: a LEASED job without one would never be run again, and a job   *)
(* that kept an owner after a settle would be extended by a stale worker.   *)
LeaseConsistent ==
    \A j \in Jobs :
        /\ jobs[j].status = "LEASED" <=> jobs[j].leaseOwner # NoWorker
        /\ jobs[j].status = "LEASED" <=> jobs[j].leaseLeft # NoLease
        /\ jobs[j].leaseLeft \in -2 .. LeaseDuration

(* The audit history of GET /jobs/history/{id} is a path that explains the  *)
(* job: it starts with the submission, every entry starts where the one     *)
(* before it ended, the last one ends in the job's present status and, when *)
(* that is LEASED, names the owner.  A job that was purged has no history.  *)
Chained(h) == \A i \in 2 .. Len(h) : h[i].from = h[i - 1].to

HistoryMatchesState ==
    KeepHistory =>
        \A j \in Jobs :
            LET h == transitions[j] IN
            /\ h = << >> <=> ~Exists(j)
            /\ h # << >> => /\ h[1].from = NoStatus
                            /\ Chained(h)
                            /\ h[Len(h)].to = jobs[j].status
                            /\ jobs[j].status = "LEASED" => h[Len(h)].actor = jobs[j].leaseOwner

(* Attempts counts the leases in the history and ReplayCount the replays:   *)
(* no path through retries, expiries, cancels and replays loses or repeats  *)
(* one, which is what the dead-letter decision of the worker rests on.      *)
LeaseEntries(h) == {i \in DOMAIN h : h[i].to = "LEASED"}
ReplayEntries(h) == {i \in DOMAIN h : h[i].from \in {"FAILED", "DEAD_LETTER"} /\ h[i].to = "QUEUED"}

CountersAudited ==
    KeepHistory =>
        \A j \in Jobs :
            /\ jobs[j].attempts = Cardinality(LeaseEntries(transitions[j]))
            /\ jobs[j].replayCount = Cardinality(ReplayEntries(transitions[j]))

(* The queue implements JobLifecycle: what every client may rely on about   *)
(* the statuses a job goes through.                                         *)
statusOf == [j \in Jobs |-> jobs[j].status]

Lifecycle == INSTANCE JobLifecycle WITH status <- statusOf

ImplementsLifecycle == Lifecycle!LSpec

=============================================================================
