----------------------------- MODULE SqliteQueue -----------------------------
(***************************************************************************)
(* The run queue of internal/store/sqlite_store.go.  Where MemoryRunQueue  *)
(* holds a mutex for a whole method, SQLiteStore runs one statement after  *)
(* the other: it reads the row, updates it on a condition on its status,   *)
(* and inserts a row into run_queue_transitions.                           *)
(* Only LeaseNextRunJob and the deletes of a purge run in a transaction.   *)
(* Between two statements any goroutine or process may run statements of   *)
(* its own, and the call may end with an error: a cancelled context,       *)
(* SQLITE_BUSY after busy_timeout, a killed process.                       *)
(*                                                                         *)
(* jobs and transitions are the two tables.  The rows of jobs and the      *)
(* updates of their columns are those of RunQueue, which both backends     *)
(* share.  transitions holds a bag of rows per job: a created_at orders    *)
(* them only when they are read.  A row is its to_status and its actor;    *)
(* from_status is what the method read in its first statement, stale by    *)
(* the time it is stored, and nothing is claimed about it.                 *)
(***************************************************************************)
EXTENDS RunQueue, Bags

CONSTANTS
    Apis,           \* goroutines of API handlers and of the retention loop
    NoJobId,        \* no job
    MaxEvents       \* bound: submissions, and faults (calls that fail, workers
                    \* that die, leases that run out under their workers)

VARIABLES
    calls,          \* the method each goroutine is in
    grant,          \* the job processOne works on, from its lease to its settlement
    faults,         \* faults so far
    submissions     \* calls of EnqueueRunJob so far

BagOps == INSTANCE BagsExt

sqlVars == <<jobs, transitions, calls, grant, faults, submissions>>

Callers == Workers \cup Apis

ASSUME CallerAssumption == NoJobId \notin Jobs /\ Workers \cap Apis = {}
ASSUME BoundAssumption == MaxEvents \in Nat

SettleOps == {"complete", "retry", "fail", "dead"}
UpdateOps == SettleOps \cup {"cancel", "requeue"}

(* pc: the statement that comes next.  doomed: the ids a purge selected.   *)
(* retry: whether the job LeaseNextRunJob is about to return has attempts  *)
(* left.                                                                   *)
Call == [pc : {"idle", "update", "append", "delete"},
         op : UpdateOps \cup {"none", "enqueue", "lease", "purge"},
         job : Jobs \cup {NoJobId},
         retry : BOOLEAN,
         doomed : SUBSET Jobs]

NoCall == [pc |-> "idle", op |-> "none", job |-> NoJobId, retry |-> FALSE,
           doomed |-> {}]

TransitionRow == [to : JobStatuses, actor : Actors]

Grant == [job : Jobs \cup {NoJobId}, retry : BOOLEAN]
NoGrant == [job |-> NoJobId, retry |-> FALSE]

SqlInit ==
    /\ Init
    /\ calls = [c \in Callers |-> NoCall]
    /\ grant = [w \in Workers |-> NoGrant]
    /\ faults = 0
    /\ submissions = 0

MoreEvents == faults + submissions < MaxEvents

Idle(c) == calls[c].pc = "idle"
Enters(c, call) == calls' = [calls EXCEPT ![c] = call]
Returns(c) == calls' = [calls EXCEPT ![c] = NoCall]

(* A worker that returns from the call that settles its job is done with   *)
(* the job, whatever the call returned: processOne ignores the error.      *)
DropsGrant(c) == grant' = [w \in Workers |-> IF w = c THEN NoGrant ELSE grant[w]]

-----------------------------------------------------------------------------
(* EnqueueRunJob: INSERT ... ON CONFLICT(id) DO NOTHING.  A row that is     *)
(* already there is left alone, and the transition is appended either way.  *)
InsertRow(c, j, limit, created) ==
    /\ c \in Apis /\ Idle(c)
    /\ MoreEvents
    /\ submissions' = submissions + 1
    /\ jobs' = IF Exists(j) THEN jobs ELSE [jobs EXCEPT ![j] = Submitted(limit, created)]
    /\ Enters(c, [NoCall EXCEPT !.pc = "append", !.op = "enqueue", !.job = j])
    /\ UNCHANGED <<transitions, grant, faults>>

(* lease_until is 0 on a row without a lease. *)
SqlLeaseExpired(job) == job.leaseLeft < 0

(* Mutant: available_at is asked of expired leases only (AND binds before OR). *)
SqlLeasable_IgnoresDelay(j) ==
    \/ jobs[j].status = "QUEUED"
    \/ jobs[j].status = "LEASED" /\ SqlLeaseExpired(jobs[j]) /\ jobs[j].availableIn = 0

(* Mutant: expired leases are not taken back. *)
SqlLeasable_QueuedOnly(j) == jobs[j].status = "QUEUED" /\ jobs[j].availableIn = 0

(* The WHERE clause of the SELECT in LeaseNextRunJob. *)
SqlLeasable(j) ==
    /\ \/ jobs[j].status = "QUEUED"
       \/ jobs[j].status = "LEASED" /\ SqlLeaseExpired(jobs[j])
    /\ jobs[j].availableIn = 0

(* LeaseNextRunJob up to Commit: SELECT ... ORDER BY created_at LIMIT 1 and *)
(* the UPDATE are one transaction.                                          *)
CommitLease(w, j) ==
    /\ Idle(w)
    /\ grant[w] = NoGrant
    /\ SqlLeasable(j)
    /\ \A k \in Jobs : SqlLeasable(k) => jobs[j].createdAt <= jobs[k].createdAt
    /\ jobs' = [jobs EXCEPT ![j] = LeasedTo(@, w)]
    /\ Enters(w, [NoCall EXCEPT !.pc = "append", !.op = "lease", !.job = j,
                                !.retry = jobs[j].attempts + 1 < jobs[j].maxAttempts])
    /\ UNCHANGED <<transitions, grant, faults, submissions>>

(* ExtendRunJobLease, from the heartbeat of processOne. *)
Heartbeat(w) ==
    /\ grant[w] # NoGrant
    /\ ExtendRunJobLease(w, grant[w].job)
    /\ UNCHANGED <<calls, grant, faults, submissions>>

(* The methods a goroutine may call: a worker settles the job it works on,  *)
(* or cancels it when its run was cancelled, and retries it only with       *)
(* attempts left; handlers cancel and requeue.                              *)
MayCall(c, op, j) ==
    \/ /\ c \in Apis
       /\ op \in {"cancel", "requeue"}
       /\ op = "requeue" => jobs[j].replayCount < MaxReplays
    \/ /\ c \in Workers
       /\ grant[c] # NoGrant
       /\ grant[c].job = j
       /\ op \in SettleOps \cup {"cancel"}
       /\ op = "retry" => grant[c].retry
       /\ op = "dead" => ~grant[c].retry

(* GetRunJob, the first statement of CompleteRunJob, CancelRunJob,          *)
(* RetryRunJob, FailRunJob, DeadLetterRunJob and RequeueRunJob.  Without a  *)
(* row the method returns.                                                  *)
ReadRow(c, op, j) ==
    /\ Idle(c)
    /\ MayCall(c, op, j)
    /\ IF Exists(j)
       THEN /\ Enters(c, [NoCall EXCEPT !.pc = "update", !.op = op, !.job = j])
            /\ UNCHANGED grant
       ELSE UNCHANGED calls /\ DropsGrant(c)
    /\ UNCHANGED <<jobs, transitions, faults, submissions>>

(* The statuses in the WHERE clause of each UPDATE ... *)
Accepted(op) ==
    CASE op = "cancel" -> {"QUEUED", "FAILED", "DEAD_LETTER", "LEASED"}
      [] op = "requeue" -> {"DEAD_LETTER", "FAILED"}
      [] OTHER -> {"LEASED"}

(* ... and the status it sets. *)
ResultOf(op) ==
    CASE op = "complete" -> "SUCCEEDED"
      [] op = "fail" -> "FAILED"
      [] op = "dead" -> "DEAD_LETTER"
      [] op = "cancel" -> "CANCELLED"
      [] op = "lease" -> "LEASED"
      [] OTHER -> "QUEUED"

(* The columns the UPDATE sets. *)
UpdatedRow(op, job, delay) ==
    CASE op = "retry" -> Delayed(job, delay)
      [] op = "requeue" -> Replayed(job, delay)
      [] OTHER -> Released(job, ResultOf(op))

(* Mutant: RequeueRunJob returns without a transition. *)
UpdateRow_SilentRequeue(c, delay) ==
    LET call == calls[c]
        j == call.job IN
    /\ call.pc = "update"
    /\ IF jobs[j].status \in Accepted(call.op)
       THEN /\ jobs' = [jobs EXCEPT ![j] = UpdatedRow(call.op, @, delay)]
            /\ calls' = [calls EXCEPT ![c] = IF call.op = "requeue" THEN NoCall ELSE [call EXCEPT !.pc = "append"]]
            /\ UNCHANGED grant
       ELSE UNCHANGED jobs /\ Returns(c) /\ DropsGrant(c)
    /\ UNCHANGED <<transitions, faults, submissions>>

(* The conditional UPDATE.  No affected row: the method returns its         *)
(* "transition rejected" error.                                             *)
UpdateRow(c, delay) ==
    LET call == calls[c]
        j == call.job IN
    /\ call.pc = "update"
    /\ IF jobs[j].status \in Accepted(call.op)
       THEN /\ jobs' = [jobs EXCEPT ![j] = UpdatedRow(call.op, @, delay)]
            /\ calls' = [calls EXCEPT ![c].pc = "append"]
            /\ UNCHANGED grant
       ELSE UNCHANGED jobs /\ Returns(c) /\ DropsGrant(c)
    /\ UNCHANGED <<transitions, faults, submissions>>

ActorOf(c, op) ==
    CASE op = "lease" -> c
      [] op = "enqueue" -> "system"
      [] op = "cancel" -> "api"
      [] op = "requeue" -> "replayer"
      [] OTHER -> "worker"

InsertTransition(j, to, actor) ==
    transitions' = [transitions EXCEPT ![j] = BagOps!BagAdd(@, [to |-> to, actor |-> actor])]

(* appendTransition, the last statement of every method.  The foreign key   *)
(* refuses it when the row is gone, and the method returns the error.  Only *)
(* a lease whose transition is in the table hands its job to processOne.    *)
AppendTransition(c) ==
    LET call == calls[c]
        j == call.job IN
    /\ call.pc = "append"
    /\ IF Exists(j)
       THEN InsertTransition(j, ResultOf(call.op), ActorOf(c, call.op))
       ELSE UNCHANGED transitions
    /\ IF call.op = "lease" /\ Exists(j)
       THEN grant' = [grant EXCEPT ![c] = [job |-> j, retry |-> call.retry]]
       ELSE DropsGrant(c)
    /\ Returns(c)
    /\ UNCHANGED <<jobs, faults, submissions>>

(* PurgeRunJobs: SELECT id ... ORDER BY updated_at LIMIT ?, and in a        *)
(* transaction of its own DELETE ... WHERE id = ? for each, which asks for  *)
(* nothing else; the histories go with the rows (ON DELETE CASCADE).        *)
SelectDoomed(c, status, olderThan, limit) ==
    /\ c \in Apis /\ Idle(c)
    /\ \E D \in (SUBSET Jobs) \ {{}} :
        /\ PurgeChoice(D, Purgeable(status, olderThan), limit)
        /\ Enters(c, [NoCall EXCEPT !.pc = "delete", !.op = "purge", !.doomed = D])
    /\ UNCHANGED <<jobs, transitions, grant, faults, submissions>>

DeleteDoomed(c) ==
    /\ calls[c].pc = "delete"
    /\ Delete(calls[c].doomed)
    /\ Returns(c)
    /\ UNCHANGED <<grant, faults, submissions>>

-----------------------------------------------------------------------------
(* Faults.  A statement fails and the method returns its error; nothing     *)
(* that was committed is undone.                                            *)
CallFails(c) ==
    /\ MoreEvents
    /\ ~Idle(c)
    /\ faults' = faults + 1
    /\ Returns(c)
    /\ DropsGrant(c)
    /\ UNCHANGED <<jobs, transitions, submissions>>

(* A worker process is killed while it executes its job, and started again. *)
WorkerDies(w) ==
    /\ MoreEvents
    /\ Idle(w) /\ grant[w] # NoGrant
    /\ faults' = faults + 1
    /\ DropsGrant(w)
    /\ UNCHANGED <<jobs, transitions, calls, submissions>>

(* Somebody works on j, or is about to be given it. *)
InUse(j) ==
    \E w \in Workers : \/ grant[w] # NoGrant /\ grant[w].job = j
                       \/ calls[w].op = "lease" /\ calls[w].job = j

(* Time passes; a lease that runs out under its worker is a fault.          *)
Outlived == \E j \in Jobs : InUse(j) /\ jobs[j].status = "LEASED" /\ jobs[j].leaseLeft = 0

SqlTick ==
    /\ Tick
    /\ Outlived => MoreEvents
    /\ faults' = IF Outlived THEN faults + 1 ELSE faults
    /\ UNCHANGED <<calls, grant, submissions>>

Submitting == \E c \in Apis, j \in Jobs, limit \in AttemptLimits, t \in Creations : InsertRow(c, j, limit, t)

SqlLeasing(w) == \E j \in Jobs : CommitLease(w, j)

Reading(c) == \E j \in Jobs, op \in UpdateOps : ReadRow(c, op, j)

DelaysOf(op) == IF op \in {"retry", "requeue"} THEN Delays ELSE {0}

Continuing(c) == (\E d \in DelaysOf(calls[c].op) : UpdateRow(c, d)) \/ AppendTransition(c) \/ DeleteDoomed(c)

SqlPurging == \E c \in Apis, s \in PurgeStatuses, a \in PurgeAges, n \in PurgeLimits : SelectDoomed(c, s, a, n)

SqlNext ==
    \/ Submitting
    \/ \E w \in Workers : SqlLeasing(w) \/ Heartbeat(w) \/ WorkerDies(w)
    \/ \E c \in Callers : Reading(c) \/ Continuing(c) \/ CallFails(c)
    \/ SqlPurging
    \/ SqlTick

SqlSpec == SqlInit /\ [][SqlNext]_sqlVars

(* Time passes, a method that has begun goes on to its end, and a worker    *)
(* polls the queue and settles the job it has.  API calls need not come.    *)
SqlFairness ==
    /\ WF_sqlVars(SqlTick)
    /\ \A c \in Callers : WF_sqlVars(Continuing(c))
    /\ \A w \in Workers : WF_sqlVars(SqlLeasing(w)) /\ WF_sqlVars(Reading(w))

FairSqlSpec == SqlSpec /\ SqlFairness

-----------------------------------------------------------------------------
(* Every row, call and grant has its type. *)
SqlTypeOK ==
    /\ jobs \in [Jobs -> Job]
    /\ \A j \in Jobs : IsABag(transitions[j]) /\ BagToSet(transitions[j]) \subseteq TransitionRow
    /\ calls \in [Callers -> Call]
    /\ grant \in [Workers -> Grant]
    /\ faults \in Nat
    /\ submissions \in Nat

(* The two backends would lease the same jobs, although the WHERE clause of *)
(* the sqlite one asks more of an expired lease (available_at <= now) and   *)
(* less of a deadline (0 is in the past) than the memory queue does.        *)
BackendsLeaseAlike == \A j \in Jobs : Leasable(j) <=> SqlLeasable(j)

(* What the audit history lacks is on its way or was lost to a fault: the   *)
(* present status of a job, with the owner of a lease, and every attempt    *)
(* and replay its counters have counted.  Neither stale reads nor rejected  *)
(* updates nor a purge between the statements of another call lose one.     *)
Pending(j, op) == {c \in Callers : calls[c].pc = "append" /\ calls[c].job = j /\ calls[c].op \in op}

LeaseRows == {t \in TransitionRow : t.to = "LEASED"}
ReplayRows == {t \in TransitionRow : t.actor = "replayer"}

(* The rows of a kind in a history, equal ones told apart by number. *)
Copies(B, kind) == UNION {{t} \X (1 .. B[t]) : t \in BagToSet(B) \cap kind}
Rows(j, kind) == Cardinality(Copies(transitions[j], kind))

Recorded(j) ==
    \/ \E t \in BagToSet(transitions[j]) :
        /\ t.to = jobs[j].status
        /\ jobs[j].status = "LEASED" => t.actor = jobs[j].leaseOwner
    \/ \E c \in Callers : /\ calls[c].pc = "append" /\ calls[c].job = j
                          /\ ResultOf(calls[c].op) = jobs[j].status

AuditComplete ==
    \A j \in Jobs :
        /\ Exists(j) => Recorded(j) \/ faults > 0
        /\ jobs[j].attempts <= Rows(j, LeaseRows) + Cardinality(Pending(j, {"lease"})) + faults
        /\ jobs[j].replayCount <= Rows(j, ReplayRows) + Cardinality(Pending(j, {"requeue"})) + faults

(* A row that is LEASED to a worker that does not know it (its call failed  *)
(* after Commit, or it died) is leased again, cancelled or purged.          *)
Orphaned(j) == jobs[j].status = "LEASED" /\ ~InUse(j)

OrphanIsTakenAgain == \A j \in Jobs : Orphaned(j) ~> ~Orphaned(j)

=============================================================================
