-------------------------- MODULE SqliteQueueProofs --------------------------
(***************************************************************************)
(* Theorems about SqliteQueue for every set of jobs, workers and handlers: *)
(* although a method is several statements and its first read is stale     *)
(* when its update runs, the table keeps the invariants of the memory      *)
(* queue, and the history lacks only what is on its way or was lost to a   *)
(* fault.                                                                  *)
(*                                                                         *)
(* A step rewrites one row along an edge of JobLifecycle (RowWrite),       *)
(* changes no row's life (RowTouch) or deletes rows.                       *)
(***************************************************************************)
EXTENDS SqliteQueue, RunQueueProofs

(* available_at of a leased row has passed, and no write moves it. *)
AvailableIfLeased(job) == job.status = "LEASED" => job.availableIn = 0

LegalRow(old, new) ==
    /\ new.status \in JobStatuses
    /\ <<old.status, new.status>> \in Edges
    /\ LeaseFieldsOK(new)
    /\ AvailableIfLeased(new)

RowWrite ==
    \E j \in Jobs, new \in Job : LegalRow(jobs[j], new) /\ jobs' = [jobs EXCEPT ![j] = new]

RowTouch ==
    /\ jobs' \in [Jobs -> Job]
    /\ \A j \in Jobs : /\ jobs'[j].status = jobs[j].status
                       /\ LeaseFieldsOK(jobs[j]) => LeaseFieldsOK(jobs'[j])
                       /\ AvailableIfLeased(jobs[j]) => AvailableIfLeased(jobs'[j])
                       /\ ~Exists(j) => jobs'[j] = jobs[j]

RowDelete == \E D \in SUBSET Jobs : jobs' = [j \in Jobs |-> IF j \in D THEN NoJob ELSE jobs[j]]

(* The inductive invariant: the rows ... *)
RowsInv ==
    /\ jobs \in [Jobs -> Job]
    /\ AbsentIsBlank
    /\ \A j \in Jobs : LeaseFieldsOK(jobs[j]) /\ AvailableIfLeased(jobs[j])

(* ... and the calls: a call that has a statement left knows its job. *)
CallsInv ==
    /\ calls \in [Callers -> Call]
    /\ grant \in [Workers -> Grant]
    /\ \A c \in Callers : calls[c].pc \in {"update", "append"} => calls[c].job \in Jobs
    /\ \A c \in Callers : calls[c].pc = "update" => calls[c].op \in UpdateOps
    /\ \A c \in Callers : calls[c].op = "lease" => c \in Workers
    /\ \A w \in Workers : grant[w] = NoGrant \/ grant[w].job \in Jobs

SqlInv == RowsInv /\ CallsInv

-----------------------------------------------------------------------------
(* available_at through the writes. *)
LEMMA LeasedToAvailable ==
  ASSUME NEW job \in Job, NEW w \in Workers
  PROVE  LeasedTo(job, w).availableIn = job.availableIn
  BY Zenon DEF LeasedTo, Job

LEMMA ExtendedAvailable ==
  ASSUME NEW job \in Job
  PROVE  Extended(job).availableIn = job.availableIn
  BY Zenon DEF Extended, Job

LEMMA AgedAvailable ==
  ASSUME NEW job \in Job, job.availableIn = 0
  PROVE  Aged(job).availableIn = 0
<1> DEFINE l == IF job.leaseLeft >= 0 THEN job.leaseLeft - 1 ELSE job.leaseLeft
           a == IF job.availableIn > 0 THEN job.availableIn - 1 ELSE job.availableIn
           i == IF job.idle < MaxIdle THEN job.idle + 1 ELSE job.idle
<1>1. a = 0
  BY DEF Job
<1>2. Aged(job) = IF job.status = NoStatus THEN job
                  ELSE [job EXCEPT !.leaseLeft = l, !.availableIn = a, !.idle = i]
  BY DEF Aged
<1> HIDE DEF a, i, l
<1> QED BY <1>1, <1>2, Zenon DEF Job

-----------------------------------------------------------------------------
(* One lemma per statement that writes to run_queue. *)

LEMMA InsertForm ==
  ASSUME RowsInv, NEW c \in Apis, NEW j \in Jobs, NEW limit \in AttemptLimits,
         NEW t \in Creations, InsertRow(c, j, limit, t)
  PROVE  RowWrite \/ jobs' = jobs
<1>1. CASE Exists(j)
  BY <1>1 DEF InsertRow
<1>2. CASE ~Exists(j)
  <2> DEFINE new == Submitted(limit, t)
  <2>1. jobs[j] = NoJob /\ jobs' = [jobs EXCEPT ![j] = new]
    BY <1>2 DEF InsertRow, RowsInv, AbsentIsBlank
  <2>2. new \in Job
    BY SubmittedFields
  <2>3. LegalRow(jobs[j], new)
    BY <2>1, NoJobFields, SubmittedFields, DurationAssumption
    DEF LegalRow, LeaseFieldsOK, AvailableIfLeased, Edges, JobStatuses, NoLease, NoStatus
  <2> QED BY <2>1, <2>2, <2>3 DEF RowWrite
<1> QED BY <1>1, <1>2

LEMMA LeaseForm ==
  ASSUME RowsInv, NEW w \in Workers, NEW j \in Jobs, CommitLease(w, j)
  PROVE  RowWrite
<1> DEFINE new == LeasedTo(jobs[j], w)
<1>0. jobs[j] \in Job
  BY DEF RowsInv
<1>1. jobs[j].status \in {"QUEUED", "LEASED"} /\ jobs[j].availableIn = 0
  BY DEF CommitLease, SqlLeasable
<1>2. new \in Job
  BY <1>0, LeasedToFields
<1>3. LegalRow(jobs[j], new)
  BY <1>0, <1>1, LeasedToFields, LeasedToAvailable, DurationAssumption, NoWorkerAssumption
  DEF LegalRow, LeaseFieldsOK, AvailableIfLeased, Edges, JobStatuses, NoLease
<1>4. jobs' = [jobs EXCEPT ![j] = new]
  BY DEF CommitLease
<1> QED BY <1>2, <1>3, <1>4 DEF RowWrite

LEMMA HeartbeatForm ==
  ASSUME SqlInv, NEW w \in Workers, Heartbeat(w)
  PROVE  RowTouch
<1> DEFINE j == grant[w].job
           new == Extended(jobs[j])
<1>1. j \in Jobs /\ jobs[j] \in Job
  BY DEF SqlInv, RowsInv, CallsInv, Heartbeat
<1>2. jobs[j].status = "LEASED" /\ jobs' = [jobs EXCEPT ![j] = new]
  BY DEF Heartbeat, ExtendRunJobLease
<1>3. /\ new \in Job
      /\ new.status = jobs[j].status
      /\ LeaseFieldsOK(jobs[j]) => LeaseFieldsOK(new)
      /\ AvailableIfLeased(jobs[j]) => AvailableIfLeased(new)
  BY <1>1, <1>2, ExtendedFields, ExtendedAvailable, DurationAssumption
  DEF LeaseFieldsOK, AvailableIfLeased, NoLease
<1>4. Exists(j)
  BY <1>2 DEF Exists, NoStatus
<1> HIDE DEF new, j
<1>5. jobs \in [Jobs -> Job]
  BY DEF SqlInv, RowsInv
<1>6. jobs' \in [Jobs -> Job]
  BY <1>1, <1>2, <1>3, <1>5
<1>7. \A k \in Jobs : jobs'[k] = IF k = j THEN new ELSE jobs[k]
  BY <1>1, <1>2, <1>5
<1> QED BY <1>3, <1>4, <1>6, <1>7 DEF RowTouch

LEMMA TickForm ==
  ASSUME RowsInv, Tick
  PROVE  RowTouch
<1>1. \A k \in Jobs : jobs'[k] = Aged(jobs[k]) /\ jobs[k] \in Job
  BY DEF RowsInv, Tick
<1>2. ASSUME NEW k \in Jobs
      PROVE  /\ jobs'[k].status = jobs[k].status
             /\ LeaseFieldsOK(jobs[k]) => LeaseFieldsOK(jobs'[k])
             /\ AvailableIfLeased(jobs[k]) => AvailableIfLeased(jobs'[k])
             /\ ~Exists(k) => jobs'[k] = jobs[k]
  <2>1. jobs[k].leaseLeft \in Int
    BY <1>1 DEF Job
  <2>2. LeaseFieldsOK(jobs[k]) => LeaseFieldsOK(jobs'[k])
    BY <1>1, <2>1, AgedFields, DurationAssumption DEF LeaseFieldsOK, NoLease, NoStatus
  <2>3. jobs'[k].status = jobs[k].status /\ (AvailableIfLeased(jobs[k]) => AvailableIfLeased(jobs'[k]))
    BY <1>1, AgedFields, AgedAvailable DEF AvailableIfLeased
  <2>4. ~Exists(k) => jobs'[k] = jobs[k]
    BY <1>1 DEF Aged, Exists
  <2> QED BY <2>2, <2>3, <2>4
<1>3. jobs' \in [Jobs -> Job]
  BY <1>1, AgedFields DEF Tick
<1> QED BY <1>2, <1>3 DEF RowTouch

(* The conditional update is legal in the status it finds, whatever the     *)
(* method read before.                                                      *)
LEMMA UpdateForm ==
  ASSUME SqlInv, NEW c \in Callers, NEW d \in Nat, UpdateRow(c, d)
  PROVE  RowWrite \/ jobs' = jobs
<1> DEFINE op == calls[c].op
           j == calls[c].job
           new == UpdatedRow(op, jobs[j], d)
<1>1. op \in UpdateOps /\ j \in Jobs /\ jobs[j] \in Job
  BY DEF SqlInv, RowsInv, CallsInv, UpdateRow
<1>2. CASE jobs[j].status \notin Accepted(op)
  BY <1>2 DEF UpdateRow
<1>3. CASE jobs[j].status \in Accepted(op)
  <2>1. jobs' = [jobs EXCEPT ![j] = new]
    BY <1>3 DEF UpdateRow
  <2> HIDE DEF op, j
  <2>2. CASE op = "retry"
    <3>1. new = Delayed(jobs[j], d) /\ jobs[j].status = "LEASED"
      BY <1>3, <2>2 DEF UpdatedRow, Accepted
    <3> HIDE DEF new
    <3>2. new \in Job /\ LegalRow(jobs[j], new)
      BY <1>1, <3>1, DelayedFields, DurationAssumption
      DEF LegalRow, LeaseFieldsOK, AvailableIfLeased, Edges, JobStatuses, NoLease
    <3> QED BY <1>1, <2>1, <3>2 DEF RowWrite
  <2>3. CASE op = "requeue"
    <3>1. new = Replayed(jobs[j], d) /\ jobs[j].status \in {"FAILED", "DEAD_LETTER"}
      BY <1>3, <2>3 DEF UpdatedRow, Accepted
    <3> HIDE DEF new
    <3>2. new \in Job /\ LegalRow(jobs[j], new)
      BY <1>1, <3>1, ReplayedFields, DurationAssumption
      DEF LegalRow, LeaseFieldsOK, AvailableIfLeased, Edges, JobStatuses, NoLease
    <3> QED BY <1>1, <2>1, <3>2 DEF RowWrite
  <2>4. CASE op \in {"complete", "fail", "dead", "cancel"}
    <3> DEFINE to == ResultOf(op)
    <3>1. new = Released(jobs[j], to) /\ to \in JobStatuses /\ to # "LEASED"
      BY <2>4 DEF UpdatedRow, ResultOf, JobStatuses
    <3>2. <<jobs[j].status, to>> \in Edges
      BY <1>3, <2>4 DEF Accepted, ResultOf, Edges
    <3> HIDE DEF new, to
    <3>3. new \in Job /\ LegalRow(jobs[j], new)
      BY <1>1, <3>1, <3>2, ReleasedFields, DurationAssumption
      DEF LegalRow, LeaseFieldsOK, AvailableIfLeased, NoLease
    <3> QED BY <1>1, <2>1, <3>3 DEF RowWrite
  <2> QED BY <1>1, <2>2, <2>3, <2>4 DEF UpdateOps, SettleOps
<1> QED BY <1>2, <1>3

LEMMA DeleteForm ==
  ASSUME CallsInv, NEW c \in Callers, DeleteDoomed(c)
  PROVE  RowDelete
<1>1. calls[c].doomed \in SUBSET Jobs
  BY DEF CallsInv, Call
<1> QED BY <1>1 DEF DeleteDoomed, Delete, RowDelete

LEMMA SqlStepForms ==
  ASSUME SqlInv, [SqlNext]_sqlVars
  PROVE  RowWrite \/ RowTouch \/ RowDelete \/ jobs' = jobs
<1>1. CASE Submitting
  BY <1>1, InsertForm DEF Submitting, SqlInv
<1>2. ASSUME NEW w \in Workers, SqlLeasing(w) \/ Heartbeat(w) \/ WorkerDies(w)
      PROVE  RowWrite \/ RowTouch \/ jobs' = jobs
  <2>1. CASE SqlLeasing(w)
    BY <2>1, LeaseForm DEF SqlLeasing, SqlInv
  <2>2. CASE Heartbeat(w)
    BY <2>2, HeartbeatForm
  <2>3. CASE WorkerDies(w)
    BY <2>3 DEF WorkerDies
  <2> QED BY <1>2, <2>1, <2>2, <2>3
<1>3. ASSUME NEW c \in Callers, Reading(c) \/ Continuing(c) \/ CallFails(c)
      PROVE  RowWrite \/ RowDelete \/ jobs' = jobs
  <2>1. CASE Reading(c)
    BY <2>1 DEF Reading, ReadRow
  <2>2. CASE \E d \in DelaysOf(calls[c].op) : UpdateRow(c, d)
    <3>1. DelaysOf(calls[c].op) \subseteq Nat
      BY DurationAssumption DEF DelaysOf
    <3> QED BY <2>2, <3>1, UpdateForm
  <2>3. CASE AppendTransition(c)
    BY <2>3 DEF AppendTransition
  <2>4. CASE DeleteDoomed(c)
    BY <2>4, DeleteForm DEF SqlInv
  <2>5. CASE CallFails(c)
    BY <2>5 DEF CallFails
  <2> QED BY <1>3, <2>1, <2>2, <2>3, <2>4, <2>5 DEF Continuing
<1>4. CASE SqlPurging
  BY <1>4 DEF SqlPurging, SelectDoomed
<1>5. CASE SqlTick
  BY <1>5, TickForm DEF SqlTick, SqlInv
<1>6. CASE UNCHANGED sqlVars
  BY <1>6 DEF sqlVars
<1> QED BY <1>1, <1>2, <1>3, <1>4, <1>5, <1>6 DEF SqlNext

-----------------------------------------------------------------------------
LEMMA RowsInvStep ==
  ASSUME SqlInv, [SqlNext]_sqlVars
  PROVE  RowsInv'
<1>0. /\ jobs \in [Jobs -> Job]
      /\ \A k \in Jobs : ~Exists(k) => jobs[k] = NoJob
      /\ \A k \in Jobs : LeaseFieldsOK(jobs[k]) /\ AvailableIfLeased(jobs[k])
  BY DEF SqlInv, RowsInv, AbsentIsBlank
<1>1. CASE RowWrite
  <2> PICK j \in Jobs, new \in Job : LegalRow(jobs[j], new) /\ jobs' = [jobs EXCEPT ![j] = new]
    BY <1>1 DEF RowWrite
  <2>1. /\ jobs' \in [Jobs -> Job]
        /\ \A k \in Jobs : jobs'[k] = IF k = j THEN new ELSE jobs[k]
    BY <1>0
  <2>2. new.status # NoStatus /\ LeaseFieldsOK(new) /\ AvailableIfLeased(new)
    BY DEF LegalRow, JobStatuses, NoStatus
  <2>3. AbsentIsBlank'
    BY <1>0, <2>1, <2>2 DEF AbsentIsBlank, Exists
  <2> QED BY <1>0, <2>1, <2>2, <2>3 DEF RowsInv
<1>2. CASE RowTouch
  <2>1. AbsentIsBlank'
    BY <1>0, <1>2 DEF RowTouch, AbsentIsBlank, Exists
  <2> QED BY <1>0, <1>2, <2>1 DEF RowTouch, RowsInv
<1>3. CASE RowDelete
  <2>1. LeaseFieldsOK(NoJob) /\ AvailableIfLeased(NoJob)
    BY NoJobFields, DurationAssumption DEF LeaseFieldsOK, AvailableIfLeased, NoLease, NoStatus
  <2>2. jobs' \in [Jobs -> Job] /\ \A k \in Jobs : jobs'[k] = NoJob \/ jobs'[k] = jobs[k]
    BY <1>0, <1>3, NoJobFields DEF RowDelete
  <2>3. AbsentIsBlank'
    BY <1>0, <2>2 DEF AbsentIsBlank, Exists
  <2> QED BY <1>0, <2>1, <2>2, <2>3 DEF RowsInv
<1>4. CASE jobs' = jobs
  BY <1>4 DEF SqlInv, RowsInv, AbsentIsBlank, Exists
<1> QED BY <1>1, <1>2, <1>3, <1>4, SqlStepForms

(* The calls a goroutine enters, field by field. *)
LEMMA DoomedCall ==
  ASSUME NEW D \in SUBSET Jobs
  PROVE  LET r == [NoCall EXCEPT !.pc = "delete", !.op = "purge", !.doomed = D] IN
         r \in Call /\ r.pc = "delete" /\ r.op = "purge"
  BY Zenon DEF NoCall, Call

LEMMA IdleCall == NoCall \in Call /\ NoCall.pc = "idle" /\ NoCall.op = "none"
  BY Zenon DEF NoCall, Call

(* A call as CallsInv wants it. *)
GoodCall(c, r) ==
    /\ r \in Call
    /\ r.op = "lease" => c \in Workers
    /\ r.pc \in {"update", "append"} => r.job \in Jobs
    /\ r.pc = "update" => r.op \in UpdateOps

GoodGrant(g) == g \in Grant /\ (g = NoGrant \/ g.job \in Jobs)

(* One goroutine moves to another statement, and a worker may come to work  *)
(* on a job or drop it.                                                     *)
CallMoves ==
    /\ \/ calls' = calls
       \/ \E c \in Callers, r \in Call : GoodCall(c, r) /\ calls' = [calls EXCEPT ![c] = r]
    /\ \/ grant' = grant
       \/ \E c \in Callers : DropsGrant(c)
       \/ \E w \in Workers, g \in Grant : GoodGrant(g) /\ grant' = [grant EXCEPT ![w] = g]

LEMMA CallMovesKeep ==
  ASSUME CallsInv, CallMoves
  PROVE  CallsInv'
<1>0. /\ calls \in [Callers -> Call] /\ grant \in [Workers -> Grant]
      /\ \A c \in Callers : GoodCall(c, calls[c])
      /\ \A w \in Workers : GoodGrant(grant[w])
  BY DEF CallsInv, GoodCall, GoodGrant
<1>1. calls' \in [Callers -> Call] /\ \A c \in Callers : GoodCall(c, calls'[c])
  <2>1. CASE calls' = calls
    BY <1>0, <2>1
  <2>2. CASE \E c \in Callers, r \in Call : GoodCall(c, r) /\ calls' = [calls EXCEPT ![c] = r]
    <3> PICK c \in Callers, r \in Call : GoodCall(c, r) /\ calls' = [calls EXCEPT ![c] = r]
      BY <2>2
    <3>1. \A k \in Callers : calls'[k] = IF k = c THEN r ELSE calls[k]
      BY <1>0
    <3> QED BY <1>0, <3>1
  <2> QED BY <2>1, <2>2 DEF CallMoves
<1>2. grant' \in [Workers -> Grant] /\ \A w \in Workers : GoodGrant(grant'[w])
  <2>0. NoGrant \in Grant /\ GoodGrant(NoGrant)
    BY DEF NoGrant, Grant, GoodGrant
  <2>1. CASE grant' = grant
    BY <1>0, <2>1
  <2>2. CASE \E c \in Callers : DropsGrant(c)
    BY <1>0, <2>0, <2>2 DEF DropsGrant
  <2>3. CASE \E w \in Workers, g \in Grant : GoodGrant(g) /\ grant' = [grant EXCEPT ![w] = g]
    <3> PICK w \in Workers, g \in Grant : GoodGrant(g) /\ grant' = [grant EXCEPT ![w] = g]
      BY <2>3
    <3>1. \A k \in Workers : grant'[k] = IF k = w THEN g ELSE grant[k]
      BY <1>0
    <3> QED BY <1>0, <3>1
  <2> QED BY <2>1, <2>2, <2>3 DEF CallMoves
<1> QED BY <1>1, <1>2 DEF CallsInv, GoodCall, GoodGrant

LEMMA CallForms ==
  ASSUME SqlInv, [SqlNext]_sqlVars
  PROVE  CallMoves
<1>0. NoCall \in Call /\ \A c \in Callers : GoodCall(c, NoCall)
  BY IdleCall DEF GoodCall
<1>a. Workers \subseteq Callers /\ Apis \subseteq Callers
  BY DEF Callers
<1>b. calls \in [Callers -> Call] /\ \A c \in Callers : GoodCall(c, calls[c])
  BY DEF SqlInv, CallsInv, GoodCall
<1>1. ASSUME NEW c \in Apis, NEW j \in Jobs, NEW limit \in AttemptLimits, NEW t \in Creations,
             InsertRow(c, j, limit, t)
      PROVE  CallMoves
  <2> DEFINE r == [NoCall EXCEPT !.pc = "append", !.op = "enqueue", !.job = j]
  <2>1. r \in Call /\ r.pc = "append" /\ r.op = "enqueue" /\ r.job = j
    BY Zenon DEF NoCall, Call
  <2>2. GoodCall(c, r)
    BY <2>1 DEF GoodCall
  <2>3. calls' = [calls EXCEPT ![c] = r] /\ grant' = grant
    BY <1>1 DEF InsertRow, Enters
  <2> HIDE DEF r
  <2> QED BY <1>a, <2>1, <2>2, <2>3 DEF CallMoves
<1>2. ASSUME NEW w \in Workers, NEW j \in Jobs, CommitLease(w, j)
      PROVE  CallMoves
  <2> DEFINE b == jobs[j].attempts + 1 < jobs[j].maxAttempts
             r == [NoCall EXCEPT !.pc = "append", !.op = "lease", !.job = j, !.retry = b]
  <2>0. calls' = [calls EXCEPT ![w] = r] /\ grant' = grant
    BY <1>2 DEF CommitLease, Enters
  <2>b. b \in BOOLEAN
    OBVIOUS
  <2> HIDE DEF b
  <2>1. r \in Call /\ r.pc = "append" /\ r.job = j
    BY <2>b, Zenon DEF NoCall, Call
  <2>2. GoodCall(w, r)
    BY <2>1 DEF GoodCall
  <2> HIDE DEF r
  <2> QED BY <1>a, <2>0, <2>1, <2>2 DEF CallMoves
<1>3. ASSUME NEW w \in Workers, Heartbeat(w)
      PROVE  CallMoves
  BY <1>3 DEF Heartbeat, CallMoves
<1>4. ASSUME NEW w \in Workers, WorkerDies(w)
      PROVE  CallMoves
  BY <1>a, <1>4 DEF WorkerDies, CallMoves
<1>5. ASSUME NEW c \in Callers, NEW j \in Jobs, NEW op \in UpdateOps, ReadRow(c, op, j)
      PROVE  CallMoves
  <2> DEFINE r == [NoCall EXCEPT !.pc = "update", !.op = op, !.job = j]
  <2>1. r \in Call /\ r.pc = "update" /\ r.job = j /\ r.op = op
    BY Zenon DEF NoCall, Call
  <2>2. GoodCall(c, r)
    BY <2>1 DEF GoodCall, UpdateOps, SettleOps
  <2>3. \/ calls' = [calls EXCEPT ![c] = r] /\ grant' = grant
        \/ calls' = calls /\ DropsGrant(c)
    BY <1>5 DEF ReadRow, Enters
  <2> HIDE DEF r
  <2> QED BY <2>1, <2>2, <2>3 DEF CallMoves
<1>6. ASSUME NEW c \in Callers, NEW d \in Nat, UpdateRow(c, d)
      PROVE  CallMoves
  <2> DEFINE r == [calls[c] EXCEPT !.pc = "append"]
  <2>1. calls[c] \in Call /\ calls[c].job \in Jobs /\ (calls[c].op = "lease" => c \in Workers)
    BY <1>6, <1>b DEF UpdateRow, GoodCall
  <2>2. r \in Call /\ r.pc = "append" /\ r.job = calls[c].job /\ r.op = calls[c].op
    BY <2>1, Zenon DEF Call
  <2>3. GoodCall(c, r)
    BY <2>1, <2>2 DEF GoodCall
  <2>4. \/ calls' = [calls EXCEPT ![c] = r] /\ grant' = grant
        \/ calls' = [calls EXCEPT ![c] = NoCall] /\ DropsGrant(c)
    BY <1>6 DEF UpdateRow, Returns
  <2> HIDE DEF r
  <2> QED BY <1>0, <2>2, <2>3, <2>4 DEF CallMoves
<1>7. ASSUME NEW c \in Callers, AppendTransition(c)
      PROVE  CallMoves
  <2> DEFINE g == [job |-> calls[c].job, retry |-> calls[c].retry]
  <2>1. calls[c] \in Call /\ calls[c].job \in Jobs
    BY <1>7, <1>b DEF AppendTransition, GoodCall
  <2>2. g \in Grant /\ GoodGrant(g)
    BY <2>1 DEF Grant, GoodGrant, Call
  <2>3. calls' = [calls EXCEPT ![c] = NoCall]
    BY <1>7 DEF AppendTransition, Returns
  <2>4. grant' = [grant EXCEPT ![c] = g] \/ DropsGrant(c)
    BY <1>7 DEF AppendTransition
  <2> HIDE DEF g
  <2>5. CASE c \in Workers
    BY <1>0, <2>2, <2>3, <2>4, <2>5 DEF CallMoves
  <2>6. CASE c \notin Workers
    <3>1. [grant EXCEPT ![c] = g] = grant
      BY <2>6 DEF SqlInv, CallsInv
    <3> QED BY <1>0, <2>3, <2>4, <3>1 DEF CallMoves
  <2> QED BY <2>5, <2>6
<1>8. ASSUME NEW c \in Callers, DeleteDoomed(c) \/ CallFails(c)
      PROVE  CallMoves
  BY <1>0, <1>8 DEF DeleteDoomed, CallFails, Returns, CallMoves
<1>9. ASSUME SqlPurging
      PROVE  CallMoves
  <2> PICK c \in Apis, D \in SUBSET Jobs :
          /\ Enters(c, [NoCall EXCEPT !.pc = "delete", !.op = "purge", !.doomed = D])
          /\ grant' = grant
    BY <1>9 DEF SqlPurging, SelectDoomed
  <2> DEFINE r == [NoCall EXCEPT !.pc = "delete", !.op = "purge", !.doomed = D]
  <2>1. r \in Call /\ r.pc = "delete" /\ r.op = "purge"
    BY DoomedCall
  <2>2. GoodCall(c, r)
    BY <2>1 DEF GoodCall
  <2>3. calls' = [calls EXCEPT ![c] = r]
    BY DEF Enters
  <2> HIDE DEF r
  <2> QED BY <1>a, <2>1, <2>2, <2>3 DEF CallMoves
<1>10. ASSUME SqlTick \/ UNCHANGED sqlVars
       PROVE  CallMoves
  BY <1>10 DEF SqlTick, sqlVars, CallMoves
<1>11. \A op : DelaysOf(op) \subseteq Nat
  BY DurationAssumption DEF DelaysOf
<1> QED
  BY <1>1, <1>2, <1>3, <1>4, <1>5, <1>6, <1>7, <1>8, <1>9, <1>10, <1>11
  DEF SqlNext, Submitting, SqlLeasing, Reading, Continuing

LEMMA SqlInvInit == SqlInit => SqlInv
<1> SUFFICES ASSUME SqlInit PROVE SqlInv
  OBVIOUS
<1>1. RowsInv
  BY NoJobFields, DurationAssumption
  DEF SqlInit, Init, RowsInv, AbsentIsBlank, Exists, LeaseFieldsOK, AvailableIfLeased, NoLease, NoStatus
<1>2. NoGrant \in Grant
  BY DEF NoGrant, Grant
<1>3. CallsInv
  BY <1>2, IdleCall DEF SqlInit, CallsInv
<1> QED BY <1>1, <1>3 DEF SqlInv

LEMMA SqlInvStep == SqlInv /\ [SqlNext]_sqlVars => SqlInv'
  BY RowsInvStep, CallForms, CallMovesKeep DEF SqlInv

-----------------------------------------------------------------------------
(* Statement by statement, with calls that fail anywhere, stale reads and   *)
(* purges in between, a row of run_queue is LEASED exactly when it has a    *)
(* lease_owner and a lease_until.                                           *)
THEOREM SqlLeasesConsistent == SqlSpec => []LeaseConsistent
<1>1. SqlInv => LeaseConsistent
  BY DEF SqlInv, RowsInv, LeaseConsistent, LeaseFieldsOK
<1> QED BY <1>1, SqlInvInit, SqlInvStep, PTL DEF SqlSpec

(* LeaseNextRunJob of the sqlite store and of the memory queue would hand   *)
(* out the same rows: the clauses in which their conditions differ never    *)
(* decide.                                                                  *)
THEOREM BackendsAgreeOnLeases == SqlSpec => []BackendsLeaseAlike
<1>1. SqlInv => BackendsLeaseAlike
  <2> SUFFICES ASSUME SqlInv, NEW j \in Jobs PROVE Leasable(j) <=> SqlLeasable(j)
    BY DEF BackendsLeaseAlike
  <2>1. LeaseFieldsOK(jobs[j]) /\ AvailableIfLeased(jobs[j])
    BY DEF SqlInv, RowsInv
  <2> QED BY <2>1 DEF Leasable, SqlLeasable, LeaseExpired, SqlLeaseExpired, LeaseFieldsOK, AvailableIfLeased
<1> QED BY <1>1, SqlInvInit, SqlInvStep, PTL DEF SqlSpec

(* A step of the sqlite queue is a move of JobLifecycle, a purge, or        *)
(* invisible there.                                                         *)
LEMMA SqlLifecycleStep ==
  ASSUME SqlInv, [SqlNext]_sqlVars
  PROVE  [Lifecycle!LNext]_statusOf
<1>0. jobs \in [Jobs -> Job]
  BY DEF SqlInv, RowsInv
<1>1. CASE RowWrite
  <2> PICK j \in Jobs, new \in Job : LegalRow(jobs[j], new) /\ jobs' = [jobs EXCEPT ![j] = new]
    BY <1>1 DEF RowWrite
  <2>1. statusOf' = [statusOf EXCEPT ![j] = new.status] /\ statusOf[j] = jobs[j].status
    BY <1>0 DEF statusOf
  <2>2. <<jobs[j].status, new.status>> \in Edges
    BY DEF LegalRow
  <2>3. CASE jobs[j].status = new.status
    <3>1. statusOf' = statusOf
      BY <2>1, <2>3 DEF statusOf
    <3> QED BY <3>1
  <2>4. CASE jobs[j].status # new.status
    <3>1. \/ Lifecycle!Submit(j)
          \/ Lifecycle!Take(j)
          \/ Lifecycle!Settle(j)
          \/ Lifecycle!Cancel(j)
          \/ Lifecycle!Replay(j)
      BY <2>1, <2>2, <2>4
      DEF Edges, NoStatus, Lifecycle!NoStatus, Lifecycle!Submit, Lifecycle!Take, Lifecycle!Settle,
          Lifecycle!Cancel, Lifecycle!Replay, Lifecycle!Move
    <3> QED BY <3>1 DEF Lifecycle!LNext
  <2> QED BY <2>3, <2>4
<1>2. CASE RowTouch \/ jobs' = jobs
  BY <1>2 DEF RowTouch, statusOf
<1>3. CASE RowDelete
  <2> PICK D \in SUBSET Jobs : jobs' = [j \in Jobs |-> IF j \in D THEN NoJob ELSE jobs[j]]
    BY <1>3 DEF RowDelete
  <2>1. Lifecycle!Purge(D)
    BY NoJobFields DEF statusOf, Lifecycle!Purge, NoStatus, Lifecycle!NoStatus
  <2> QED BY <2>1 DEF Lifecycle!LNext
<1> QED BY <1>1, <1>2, <1>3, SqlStepForms

(* The sqlite queue implements JobLifecycle as the memory queue does: two   *)
(* methods that read the same status cannot both move the job.              *)
THEOREM SqlLifecycleImplemented == SqlSpec => ImplementsLifecycle
<1>1. SqlInit => Lifecycle!LInit
  BY NoJobFields DEF SqlInit, Init, Lifecycle!LInit, statusOf, NoStatus, Lifecycle!NoStatus
<1>2. SqlInv /\ [SqlNext]_sqlVars => [Lifecycle!LNext]_statusOf
  BY SqlLifecycleStep
<1> QED BY <1>1, <1>2, SqlInvInit, SqlInvStep, PTL DEF SqlSpec, ImplementsLifecycle, Lifecycle!LSpec

-----------------------------------------------------------------------------
(* run_queue_transitions: a bag of rows for every job. *)
RowBag(B) == IsABag(B) /\ BagToSet(B) \subseteq TransitionRow

HistoryInv ==
    /\ transitions = [j \in Jobs |-> transitions[j]]
    /\ \A j \in Jobs : RowBag(transitions[j])
    /\ faults \in Nat
    /\ submissions \in Nat

LEMMA RowBagEmpty == RowBag(<< >>)
<1>1. DOMAIN << >> = {}
  OBVIOUS
<1> QED BY <1>1 DEF RowBag, IsABag, BagToSet

LEMMA RowBagAdded ==
  ASSUME NEW B, RowBag(B), NEW x \in TransitionRow
  PROVE  RowBag(BagOps!BagAdd(B, x))
<1>1. CASE x \in DOMAIN B
  <2> DEFINE C == [e \in DOMAIN B |-> IF e = x THEN B[e] + 1 ELSE B[e]]
  <2>1. BagOps!BagAdd(B, x) = C
    BY <1>1 DEF BagOps!BagAdd
  <2>2. \A e \in DOMAIN B : B[e] \in Nat /\ B[e] > 0
    BY DEF RowBag, IsABag
  <2>3. DOMAIN C = DOMAIN B /\ \A e \in DOMAIN C : C[e] \in {n \in Nat : n > 0}
    BY <2>2
  <2> QED BY <2>1, <2>3 DEF RowBag, IsABag, BagToSet
<1>2. CASE x \notin DOMAIN B
  <2> DEFINE C == [e \in DOMAIN B \cup {x} |-> IF e = x THEN 1 ELSE B[e]]
  <2>1. BagOps!BagAdd(B, x) = C
    BY <1>2 DEF BagOps!BagAdd
  <2>2. \A e \in DOMAIN B : B[e] \in Nat /\ B[e] > 0
    BY DEF RowBag, IsABag
  <2>3. DOMAIN C = DOMAIN B \cup {x} /\ \A e \in DOMAIN C : C[e] \in {n \in Nat : n > 0}
    BY <2>2
  <2> QED BY <2>1, <2>3 DEF RowBag, IsABag, BagToSet
<1> QED BY <1>1, <1>2

LEMMA AppendedRow ==
  ASSUME SqlInv, NEW c \in Callers, calls[c].pc = "append"
  PROVE  [to |-> ResultOf(calls[c].op), actor |-> ActorOf(c, calls[c].op)] \in TransitionRow
<1>1. ResultOf(calls[c].op) \in JobStatuses
  BY DEF ResultOf, JobStatuses
<1>2. ActorOf(c, calls[c].op) \in Actors
  BY DEF ActorOf, Actors, SqlInv, CallsInv
<1> QED BY <1>1, <1>2 DEF TransitionRow

LEMMA HistoryInvStep == SqlInv /\ HistoryInv /\ [SqlNext]_sqlVars => HistoryInv'
<1> SUFFICES ASSUME SqlInv, HistoryInv, [SqlNext]_sqlVars PROVE HistoryInv'
  OBVIOUS
<1>1. faults' \in Nat /\ submissions' \in Nat
  <2>1. \/ faults' = faults
        \/ faults' = faults + 1
    BY DEF SqlNext, Submitting, InsertRow, SqlLeasing, CommitLease, Heartbeat, WorkerDies, Reading,
           ReadRow, Continuing, UpdateRow, AppendTransition, DeleteDoomed, CallFails, SqlPurging,
           SelectDoomed, SqlTick, sqlVars
  <2>2. \/ submissions' = submissions
        \/ submissions' = submissions + 1
    BY DEF SqlNext, Submitting, InsertRow, SqlLeasing, CommitLease, Heartbeat, WorkerDies, Reading,
           ReadRow, Continuing, UpdateRow, AppendTransition, DeleteDoomed, CallFails, SqlPurging,
           SelectDoomed, SqlTick, sqlVars
  <2> QED BY <2>1, <2>2 DEF HistoryInv
<1>2. CASE \E c \in Callers : AppendTransition(c)
  <2> PICK c \in Callers : AppendTransition(c)
    BY <1>2
  <2> DEFINE j == calls[c].job
             x == [to |-> ResultOf(calls[c].op), actor |-> ActorOf(c, calls[c].op)]
  <2>1. calls[c].pc = "append"
    BY DEF AppendTransition
  <2>2. x \in TransitionRow
    BY <2>1, AppendedRow
  <2>3. \/ transitions' = transitions
        \/ transitions' = [transitions EXCEPT ![j] = BagOps!BagAdd(@, x)]
    BY DEF AppendTransition, InsertTransition
  <2> HIDE DEF x, j
  <2>4. CASE transitions' = transitions
    BY <1>1, <2>4 DEF HistoryInv
  <2>5. CASE transitions' = [transitions EXCEPT ![j] = BagOps!BagAdd(@, x)]
    <3>1. \A k \in Jobs : transitions'[k] = IF k = j THEN BagOps!BagAdd(transitions[k], x) ELSE transitions[k]
      BY <2>5 DEF HistoryInv
    <3>2. transitions' = [k \in Jobs |-> transitions'[k]]
      BY <2>5 DEF HistoryInv
    <3>3. \A k \in Jobs : RowBag(transitions[k]) /\ RowBag(BagOps!BagAdd(transitions[k], x))
      BY <2>2, RowBagAdded DEF HistoryInv
    <3> QED BY <1>1, <3>1, <3>2, <3>3 DEF HistoryInv
  <2> QED BY <2>3, <2>4, <2>5
<1>3. CASE \E c \in Callers : DeleteDoomed(c)
  BY <1>1, <1>3, RowBagEmpty DEF DeleteDoomed, Delete, HistoryInv
<1>4. CASE UNCHANGED transitions
  BY <1>1, <1>4 DEF HistoryInv
<1>5. \/ \E c \in Callers : AppendTransition(c) \/ DeleteDoomed(c)
      \/ UNCHANGED transitions
  BY DEF SqlNext, Submitting, InsertRow, SqlLeasing, CommitLease, Heartbeat, ExtendRunJobLease,
         WorkerDies, Reading, ReadRow, Continuing, UpdateRow, CallFails, SqlPurging, SelectDoomed,
         SqlTick, Tick, sqlVars
<1> QED BY <1>2, <1>3, <1>4, <1>5

(* Rows, calls, grants and the bags of transitions keep their types through *)
(* every interleaving of statements and every failed call.                  *)
THEOREM SqlTypeCorrect == SqlSpec => []SqlTypeOK
<1>1. SqlInit => HistoryInv
  BY RowBagEmpty DEF SqlInit, Init, HistoryInv
<1>2. SqlInv /\ HistoryInv => SqlTypeOK
  BY DEF SqlInv, RowsInv, CallsInv, HistoryInv, RowBag, SqlTypeOK
<1> QED BY <1>1, <1>2, SqlInvInit, SqlInvStep, HistoryInvStep, PTL DEF SqlSpec

-----------------------------------------------------------------------------
(* The history is complete up to faults.  What the history of a job owes    *)
(* is counted as rows of a kind it has and calls that are about to append   *)
(* one.                                                                     *)
Finite(j, kind, ops) == IsFiniteSet(Copies(transitions[j], kind)) /\ IsFiniteSet(Pending(j, ops))
Total(j, kind, ops) == Rows(j, kind) + Cardinality(Pending(j, ops))

(* The present status is in the history, or the call that set it is about   *)
(* to append it: for a lease that is the owner's.                           *)
Held(j) ==
    \/ \E t \in DOMAIN transitions[j] :
        t.to = jobs[j].status /\ (jobs[j].status = "LEASED" => t.actor = jobs[j].leaseOwner)
    \/ \E c \in Callers : /\ calls[c].pc = "append" /\ calls[c].job = j
                          /\ ResultOf(calls[c].op) = jobs[j].status
                          /\ jobs[j].status = "LEASED" => c = jobs[j].leaseOwner

Audited(j) ==
    /\ Finite(j, LeaseRows, {"lease"})
    /\ Finite(j, ReplayRows, {"requeue"})
    /\ Exists(j) => Held(j) \/ faults > 0
    /\ jobs[j].attempts <= Total(j, LeaseRows, {"lease"}) + faults
    /\ jobs[j].replayCount <= Total(j, ReplayRows, {"requeue"}) + faults

AuditInv == \A j \in Jobs : Audited(j)

LEMMA TotalNat ==
  ASSUME NEW j, NEW kind, NEW ops, Finite(j, kind, ops)
  PROVE  /\ Rows(j, kind) \in Nat /\ Cardinality(Pending(j, ops)) \in Nat
         /\ Total(j, kind, ops) \in Nat
<1>1. Rows(j, kind) \in Nat /\ Cardinality(Pending(j, ops)) \in Nat
  BY FS_CardinalityType DEF Finite, Rows
<1> QED BY <1>1 DEF Total

(* A goroutine that appended nothing may come to append: nothing is lost,   *)
(* and one is gained when the row is of the kind that counts.               *)
LEMMA PendingGrows ==
  ASSUME CallsInv, NEW c \in Callers, NEW r, Enters(c, r),
         calls[c].pc # "append", NEW j, transitions'[j] = transitions[j], NEW kind, NEW ops,
         Finite(j, kind, ops)
  PROVE  /\ Finite(j, kind, ops)'
         /\ Total(j, kind, ops)' >= Total(j, kind, ops)
         /\ r.pc = "append" /\ r.job = j /\ r.op \in ops =>
                Total(j, kind, ops)' = Total(j, kind, ops) + 1
<1>0. \A k \in Callers : calls'[k] = IF k = c THEN r ELSE calls[k]
  BY DEF CallsInv, Enters
<1>1. c \notin Pending(j, ops)
  BY DEF Pending
<1>2. IsFiniteSet(Pending(j, ops)) /\ Cardinality(Pending(j, ops)) \in Nat
  BY TotalNat DEF Finite
<1>3. Copies(transitions[j], kind)' = Copies(transitions[j], kind) /\ Rows(j, kind)' = Rows(j, kind) /\ Rows(j, kind) \in Nat
  BY TotalNat DEF Copies, Rows
<1>4. CASE r.pc = "append" /\ r.job = j /\ r.op \in ops
  <2>1. Pending(j, ops)' = Pending(j, ops) \cup {c}
    BY <1>0, <1>4 DEF Pending
  <2>2. IsFiniteSet(Pending(j, ops)') /\ Cardinality(Pending(j, ops)') = Cardinality(Pending(j, ops)) + 1
    BY <1>1, <1>2, <2>1, FS_AddElement
  <2> QED BY <1>2, <1>3, <2>2 DEF Finite, Total
<1>5. CASE ~(r.pc = "append" /\ r.job = j /\ r.op \in ops)
  <2>1. Pending(j, ops)' = Pending(j, ops)
    BY <1>0, <1>1, <1>5 DEF Pending
  <2> QED BY <1>2, <1>3, <1>5, <2>1 DEF Finite, Total
<1> QED BY <1>4, <1>5

(* A goroutine returns from its append without one: its own row is missing. *)
LEMMA PendingShrinks ==
  ASSUME CallsInv, NEW c \in Callers, NEW r, Enters(c, r), r.pc # "append",
         NEW j, transitions'[j] = transitions[j], NEW kind, NEW ops, Finite(j, kind, ops)
  PROVE  /\ Finite(j, kind, ops)'
         /\ Total(j, kind, ops)' + 1 >= Total(j, kind, ops)
         /\ c \notin Pending(j, ops) => Total(j, kind, ops)' = Total(j, kind, ops)
<1>0. \A k \in Callers : calls'[k] = IF k = c THEN r ELSE calls[k]
  BY DEF CallsInv, Enters
<1>1. IsFiniteSet(Pending(j, ops)) /\ Cardinality(Pending(j, ops)) \in Nat
  BY TotalNat DEF Finite
<1>2. Copies(transitions[j], kind)' = Copies(transitions[j], kind) /\ Rows(j, kind)' = Rows(j, kind) /\ Rows(j, kind) \in Nat
  BY TotalNat DEF Copies, Rows
<1>3. Pending(j, ops)' = Pending(j, ops) \ {c}
  BY <1>0 DEF Pending
<1>4. /\ IsFiniteSet(Pending(j, ops)')
      /\ Cardinality(Pending(j, ops)') = IF c \in Pending(j, ops) THEN Cardinality(Pending(j, ops)) - 1
                                         ELSE Cardinality(Pending(j, ops))
  BY <1>1, <1>3, FS_RemoveElement
<1> QED BY <1>1, <1>2, <1>4 DEF Finite, Total

(* One more row in a bag is one more copy of its kind. *)
Grown(B, x, C) == C = BagOps!BagAdd(B, x)

LEMMA CopiesAdded ==
  ASSUME NEW B, RowBag(B), NEW x, NEW C, Grown(B, x, C), NEW kind, IsFiniteSet(Copies(B, kind))
  PROVE  /\ IsFiniteSet(Copies(C, kind))
         /\ Cardinality(Copies(C, kind)) = IF x \in kind THEN Cardinality(Copies(B, kind)) + 1
                                           ELSE Cardinality(Copies(B, kind))
<1> DEFINE n == IF x \in DOMAIN B THEN B[x] + 1 ELSE 1
<1>1. \A e \in DOMAIN B : B[e] \in Nat /\ B[e] > 0
  BY DEF RowBag, IsABag
<1>2. /\ DOMAIN C = DOMAIN B \cup {x}
      /\ C[x] = n
      /\ \A e \in DOMAIN B \ {x} : C[e] = B[e]
  BY DEF Grown, BagOps!BagAdd
<1>3. n \in Nat /\ n > 0 /\ (x \in DOMAIN B => 1 .. n = (1 .. B[x]) \cup {n} /\ n \notin 1 .. B[x])
      /\ (x \notin DOMAIN B => 1 .. n = {n})
  BY <1>1
<1> HIDE DEF n
<1>4. ASSUME NEW D, NEW p
      PROVE  p \in Copies(D, kind) <=> \E t \in DOMAIN D \cap kind : \E i \in 1 .. D[t] : p = <<t, i>>
  BY DEF Copies, BagToSet
<1>5. CASE x \notin kind
  <2>1. \A p : p \in Copies(C, kind) <=> p \in Copies(B, kind)
    BY <1>2, <1>4, <1>5
  <2>2. Copies(C, kind) = Copies(B, kind)
    BY <2>1
  <2> QED BY <1>2, <1>5, <2>2
<1>6. CASE x \in kind
  <2>1. <<x, n>> \notin Copies(B, kind)
    BY <1>3, <1>4
  <2>2. \A p : p \in Copies(C, kind) => p \in Copies(B, kind) \cup {<<x, n>>}
    <3> SUFFICES ASSUME NEW p, p \in Copies(C, kind) PROVE p \in Copies(B, kind) \cup {<<x, n>>}
      OBVIOUS
    <3> PICK t \in DOMAIN C \cap kind : \E i \in 1 .. C[t] : p = <<t, i>>
      BY <1>4
    <3> PICK i \in 1 .. C[t] : p = <<t, i>>
      OBVIOUS
    <3>1. CASE t = x
      <4>1. i \in 1 .. n
        BY <1>2, <3>1
      <4>2. CASE i = n
        BY <3>1, <4>2
      <4>3. CASE i # n
        <5>1. x \in DOMAIN B /\ i \in 1 .. B[x]
          BY <1>3, <4>1, <4>3
        <5> QED BY <1>4, <1>6, <3>1, <5>1
      <4> QED BY <4>2, <4>3
    <3>2. CASE t # x
      <4>1. t \in DOMAIN B \cap kind /\ i \in 1 .. B[t]
        BY <1>2, <3>2
      <4> QED BY <1>4, <4>1
    <3> QED BY <3>1, <3>2
  <2>3. \A p : p \in Copies(B, kind) => p \in Copies(C, kind)
    <3> SUFFICES ASSUME NEW p, p \in Copies(B, kind) PROVE p \in Copies(C, kind)
      OBVIOUS
    <3> PICK t \in DOMAIN B \cap kind : \E i \in 1 .. B[t] : p = <<t, i>>
      BY <1>4
    <3> PICK i \in 1 .. B[t] : p = <<t, i>>
      OBVIOUS
    <3>1. i \in 1 .. C[t]
      BY <1>2, <1>3
    <3> QED BY <1>2, <1>4, <3>1
  <2>4. <<x, n>> \in Copies(C, kind)
    <3>1. n \in 1 .. C[x] /\ x \in DOMAIN C \cap kind
      BY <1>2, <1>3, <1>6
    <3> QED BY <1>4, <3>1
  <2>5. Copies(C, kind) = Copies(B, kind) \cup {<<x, n>>}
    BY <2>2, <2>3, <2>4
  <2>6. IsFiniteSet(Copies(C, kind)) /\ Cardinality(Copies(C, kind)) = Cardinality(Copies(B, kind)) + 1
    BY <2>1, <2>5, FS_AddElement
  <2> QED BY <1>2, <1>6, <2>6
<1> QED BY <1>5, <1>6

-----------------------------------------------------------------------------
(* The forms of a step as the history sees it.  Nobody who is about to      *)
(* append is disturbed, and no row's life changes ...                       *)
SameCounts(old, new) ==
    /\ new.status = old.status /\ new.leaseOwner = old.leaseOwner
    /\ new.attempts = old.attempts /\ new.replayCount = old.replayCount

Quiet ==
    /\ \A k \in Jobs : SameCounts(jobs[k], jobs'[k])
    /\ transitions' = transitions
    /\ faults' \in Nat /\ faults' >= faults
    /\ calls' = calls \/ \E c \in Callers, r \in Call : Enters(c, r) /\ calls[c].pc # "append"

(* ... or a call has changed one row and is about to append the change. *)
Owing(c, r, j, new) ==
    /\ r.pc = "append" /\ r.job = j /\ r.op \in UpdateOps \cup {"enqueue", "lease"}
    /\ ResultOf(r.op) = new.status
    /\ new.status = "LEASED" => c = new.leaseOwner
    /\ new.attempts = IF r.op = "lease" THEN jobs[j].attempts + 1 ELSE jobs[j].attempts
    /\ new.replayCount = IF r.op = "requeue" THEN jobs[j].replayCount + 1 ELSE jobs[j].replayCount

Changed ==
    \E j \in Jobs, c \in Callers, r \in Call, new \in Job :
        /\ jobs' = [jobs EXCEPT ![j] = new]
        /\ Enters(c, r) /\ calls[c].pc # "append"
        /\ Owing(c, r, j, new)
        /\ transitions' = transitions /\ faults' = faults

AuditTypes == SqlInv /\ HistoryInv

LEMMA AuditNats ==
  ASSUME AuditTypes, NEW j \in Jobs, Audited(j)
  PROVE  /\ jobs[j].attempts \in Nat /\ jobs[j].replayCount \in Nat /\ faults \in Nat
         /\ Total(j, LeaseRows, {"lease"}) \in Nat
         /\ Total(j, ReplayRows, {"requeue"}) \in Nat
<1>1. jobs[j].attempts \in Nat /\ jobs[j].replayCount \in Nat
  BY DEF AuditTypes, SqlInv, RowsInv, Job
<1> QED BY <1>1, TotalNat DEF AuditTypes, HistoryInv, Audited

(* The same in the next state. *)
LEMMA TotalNatNext ==
  ASSUME NEW j, NEW kind, NEW ops, Finite(j, kind, ops)'
  PROVE  Total(j, kind, ops)' \in Nat
BY FS_CardinalityType DEF Finite, Rows, Total

(* A goroutine that is not about to append leaves what is on its way. *)
LEMMA HeldStays ==
  ASSUME CallsInv, NEW c \in Callers, NEW r, Enters(c, r), calls[c].pc # "append",
         NEW j \in Jobs, transitions'[j] = transitions[j],
         jobs'[j].status = jobs[j].status, jobs'[j].leaseOwner = jobs[j].leaseOwner, Held(j)
  PROVE  Held(j)'
<1>0. \A k \in Callers : calls'[k] = IF k = c THEN r ELSE calls[k]
  BY DEF CallsInv, Enters
<1> QED BY <1>0 DEF Held

LEMMA QuietKeeps ==
  ASSUME AuditTypes, Quiet, NEW j \in Jobs, Audited(j)
  PROVE  Audited(j)'
<1>0. SameCounts(jobs[j], jobs'[j]) /\ faults' \in Nat /\ faults' >= faults /\ transitions' = transitions
  BY DEF Quiet
<1>1. CASE calls' = calls
  <2>1. /\ Total(j, LeaseRows, {"lease"})' = Total(j, LeaseRows, {"lease"})
        /\ Total(j, ReplayRows, {"requeue"})' = Total(j, ReplayRows, {"requeue"})
        /\ Finite(j, LeaseRows, {"lease"})'
        /\ Finite(j, ReplayRows, {"requeue"})'
    BY <1>0, <1>1 DEF Total, Rows, Finite, Pending, Audited
  <2>2. Exists(j)' => Held(j)' \/ faults' > 0
    BY <1>0, <1>1, AuditNats DEF SameCounts, Exists, Held, Audited
  <2> QED BY <1>0, <2>1, <2>2, AuditNats DEF SameCounts, Audited
<1>2. CASE \E c \in Callers, r \in Call : Enters(c, r) /\ calls[c].pc # "append"
  <2> PICK c \in Callers, r \in Call : Enters(c, r) /\ calls[c].pc # "append"
    BY <1>2
  <2>0. CallsInv
    BY DEF AuditTypes, SqlInv
  <2>1. /\ Finite(j, LeaseRows, {"lease"})'
        /\ Total(j, LeaseRows, {"lease"})' >= Total(j, LeaseRows, {"lease"})
    BY <1>0, <2>0, PendingGrows DEF Audited
  <2>2. /\ Finite(j, ReplayRows, {"requeue"})'
        /\ Total(j, ReplayRows, {"requeue"})' >= Total(j, ReplayRows, {"requeue"})
    BY <1>0, <2>0, PendingGrows DEF Audited
  <2>3. Held(j) => Held(j)'
    BY <1>0, <2>0, HeldStays DEF SameCounts
  <2>4. Exists(j)' => Held(j)' \/ faults' > 0
    BY <1>0, <2>3, AuditNats DEF SameCounts, Exists, Audited
  <2>5. Total(j, LeaseRows, {"lease"})' \in Nat /\ Total(j, ReplayRows, {"requeue"})' \in Nat
    BY <2>1, <2>2, TotalNatNext
  <2> QED BY <1>0, <2>1, <2>2, <2>4, <2>5, AuditNats DEF SameCounts, Audited
<1> QED BY <1>1, <1>2 DEF Quiet

LEMMA ChangedKeeps ==
  ASSUME AuditTypes, Changed, NEW j \in Jobs, Audited(j)
  PROVE  Audited(j)'
<1> PICK i \in Jobs, c \in Callers, r \in Call, new \in Job :
        /\ jobs' = [jobs EXCEPT ![i] = new]
        /\ Enters(c, r) /\ calls[c].pc # "append"
        /\ Owing(c, r, i, new)
        /\ transitions' = transitions /\ faults' = faults
  BY DEF Changed
<1>0. CallsInv /\ jobs'[j] = IF j = i THEN new ELSE jobs[j]
  BY DEF AuditTypes, SqlInv, RowsInv
<1>1. /\ Finite(j, LeaseRows, {"lease"})'
      /\ Total(j, LeaseRows, {"lease"})' >= Total(j, LeaseRows, {"lease"})
      /\ r.pc = "append" /\ r.job = j /\ r.op \in {"lease"} =>
            Total(j, LeaseRows, {"lease"})' = Total(j, LeaseRows, {"lease"}) + 1
  BY <1>0, PendingGrows DEF Audited
<1>2. /\ Finite(j, ReplayRows, {"requeue"})'
      /\ Total(j, ReplayRows, {"requeue"})' >= Total(j, ReplayRows, {"requeue"})
      /\ r.pc = "append" /\ r.job = j /\ r.op \in {"requeue"} =>
            Total(j, ReplayRows, {"requeue"})' = Total(j, ReplayRows, {"requeue"}) + 1
  BY <1>0, PendingGrows DEF Audited
<1>3. Total(j, LeaseRows, {"lease"})' \in Nat /\ Total(j, ReplayRows, {"requeue"})' \in Nat
  BY <1>1, <1>2, TotalNatNext
<1>4. CASE j # i
  <2>1. jobs'[j] = jobs[j]
    BY <1>0, <1>4
  <2>2. Held(j) => Held(j)'
    BY <1>0, <2>1, HeldStays
  <2> QED BY <1>1, <1>2, <1>3, <2>1, <2>2, AuditNats DEF Exists, Audited
<1>5. CASE j = i
  <2>1. jobs'[j] = new /\ r.pc = "append" /\ r.job = j
    BY <1>0, <1>5 DEF Owing
  <2>2. calls'[c] = r
    BY <1>0 DEF CallsInv, Enters
  <2>3. Held(j)'
    BY <1>5, <2>1, <2>2 DEF Held, Owing
  <2>4. new.attempts <= Total(j, LeaseRows, {"lease"})' + faults
    BY <1>1, <1>3, <1>5, <2>1, AuditNats DEF Owing, Audited
  <2>5. new.replayCount <= Total(j, ReplayRows, {"requeue"})' + faults
    BY <1>2, <1>3, <1>5, <2>1, AuditNats DEF Owing, Audited
  <2> QED BY <1>1, <1>2, <2>1, <2>3, <2>4, <2>5 DEF Audited
<1> QED BY <1>4, <1>5

(* A call appends its row: what was on its way has arrived. *)
LEMMA RowArrives ==
  ASSUME CallsInv, NEW c \in Callers, NEW r, Enters(c, r), r.pc # "append", NEW j, NEW x,
         RowBag(transitions[j]), Grown(transitions[j], x, transitions'[j]),
         NEW kind, NEW ops, Finite(j, kind, ops), c \in Pending(j, ops) => x \in kind
  PROVE  /\ Finite(j, kind, ops)'
         /\ Total(j, kind, ops)' >= Total(j, kind, ops)
<1>0. \A k \in Callers : calls'[k] = IF k = c THEN r ELSE calls[k]
  BY DEF CallsInv, Enters
<1>1. IsFiniteSet(Pending(j, ops)) /\ Cardinality(Pending(j, ops)) \in Nat /\ Rows(j, kind) \in Nat
  BY TotalNat DEF Finite
<1>2. Pending(j, ops)' = Pending(j, ops) \ {c}
  BY <1>0 DEF Pending
<1>3. /\ IsFiniteSet(Pending(j, ops)')
      /\ Cardinality(Pending(j, ops)') = IF c \in Pending(j, ops) THEN Cardinality(Pending(j, ops)) - 1
                                         ELSE Cardinality(Pending(j, ops))
  BY <1>1, <1>2, FS_RemoveElement
<1>4. IsFiniteSet(Copies(transitions[j], kind))
  BY DEF Finite
<1>5. /\ IsFiniteSet(Copies(transitions'[j], kind))
      /\ Cardinality(Copies(transitions'[j], kind)) =
            IF x \in kind THEN Cardinality(Copies(transitions[j], kind)) + 1
            ELSE Cardinality(Copies(transitions[j], kind))
  BY <1>4, CopiesAdded
<1>6. Rows(j, kind)' = IF x \in kind THEN Rows(j, kind) + 1 ELSE Rows(j, kind)
  BY <1>5 DEF Rows
<1> QED BY <1>1, <1>3, <1>5, <1>6 DEF Finite, Total

LEMMA AppendKeeps ==
  ASSUME AuditTypes, NEW c \in Callers, AppendTransition(c), NEW j \in Jobs, Audited(j)
  PROVE  Audited(j)'
<1> PICK i \in Jobs : i = calls[c].job
  BY DEF AppendTransition, AuditTypes, SqlInv, CallsInv
<1> PICK op : op = calls[c].op
  OBVIOUS
<1> PICK x \in TransitionRow : x = [to |-> ResultOf(op), actor |-> ActorOf(c, op)]
  BY AppendedRow DEF AppendTransition, AuditTypes
<1>0. /\ CallsInv /\ calls[c].pc = "append"
      /\ Enters(c, NoCall) /\ NoCall.pc # "append"
      /\ jobs' = jobs /\ faults' = faults
  BY IdleCall DEF AppendTransition, AuditTypes, SqlInv, Returns, Enters
<1>1. \A k \in Jobs : RowBag(transitions[k])
  BY DEF AuditTypes, HistoryInv
<1>2. CASE j # i \/ ~Exists(i)
  <2>1. transitions'[j] = transitions[j]
    BY <1>2 DEF AppendTransition, InsertTransition, AuditTypes, HistoryInv
  <2>2. /\ Finite(j, LeaseRows, {"lease"})'
        /\ c \notin Pending(j, {"lease"}) => Total(j, LeaseRows, {"lease"})' = Total(j, LeaseRows, {"lease"})
    BY <1>0, <2>1, PendingShrinks DEF Audited
  <2>3. /\ Finite(j, ReplayRows, {"requeue"})'
        /\ c \notin Pending(j, {"requeue"}) => Total(j, ReplayRows, {"requeue"})' = Total(j, ReplayRows, {"requeue"})
    BY <1>0, <2>1, PendingShrinks DEF Audited
  <2>4. CASE j # i
    <3>1. c \notin Pending(j, {"lease"}) /\ c \notin Pending(j, {"requeue"})
      BY <2>4 DEF Pending
    <3>2. \A k \in Callers : calls'[k] = IF k = c THEN NoCall ELSE calls[k]
      BY <1>0 DEF CallsInv, Enters
    <3>3. Held(j) => Held(j)'
      BY <1>0, <2>1, <2>4, <3>2 DEF Held
    <3> QED BY <1>0, <2>2, <2>3, <3>1, <3>3 DEF Audited, Exists
  <2>5. CASE j = i
    <3>1. jobs[j] = NoJob
      BY <1>2, <2>5 DEF AuditTypes, SqlInv, RowsInv, AbsentIsBlank
    <3>2. /\ Total(j, LeaseRows, {"lease"})' \in Nat
          /\ Total(j, ReplayRows, {"requeue"})' \in Nat
          /\ faults \in Nat
      BY <2>2, <2>3, TotalNatNext, AuditNats
    <3> QED BY <1>0, <2>2, <2>3, <3>1, <3>2, NoJobFields DEF Audited, Exists
  <2> QED BY <2>4, <2>5
<1>3. CASE j = i /\ Exists(i)
  <2>1. Grown(transitions[j], x, transitions'[j])
    BY <1>3 DEF Grown, AppendTransition, InsertTransition, AuditTypes, HistoryInv
  <2>2. c \in Pending(j, {"lease"}) => x \in LeaseRows
    BY DEF Pending, LeaseRows, ResultOf
  <2>3. c \in Pending(j, {"requeue"}) => x \in ReplayRows
    BY DEF Pending, ReplayRows, ActorOf
  <2>4. /\ Finite(j, LeaseRows, {"lease"})'
        /\ Total(j, LeaseRows, {"lease"})' >= Total(j, LeaseRows, {"lease"})
    BY <1>0, <1>1, <2>1, <2>2, RowArrives DEF Audited
  <2>5. /\ Finite(j, ReplayRows, {"requeue"})'
        /\ Total(j, ReplayRows, {"requeue"})' >= Total(j, ReplayRows, {"requeue"})
    BY <1>0, <1>1, <2>1, <2>3, RowArrives DEF Audited
  <2>6. Total(j, LeaseRows, {"lease"})' \in Nat /\ Total(j, ReplayRows, {"requeue"})' \in Nat
    BY <2>4, <2>5, TotalNatNext
  <2>7. DOMAIN transitions'[j] = DOMAIN transitions[j] \cup {x}
    BY <2>1 DEF Grown, BagOps!BagAdd
  <2>8. Held(j) => Held(j)'
    <3> SUFFICES ASSUME Held(j) PROVE Held(j)'
      OBVIOUS
    <3>1. CASE \E t \in DOMAIN transitions[j] :
                  t.to = jobs[j].status /\ (jobs[j].status = "LEASED" => t.actor = jobs[j].leaseOwner)
      BY <1>0, <2>7, <3>1 DEF Held
    <3>2. CASE \E d \in Callers : /\ calls[d].pc = "append" /\ calls[d].job = j
                                  /\ ResultOf(calls[d].op) = jobs[j].status
                                  /\ jobs[j].status = "LEASED" => d = jobs[j].leaseOwner
      <4> PICK d \in Callers : /\ calls[d].pc = "append" /\ calls[d].job = j
                               /\ ResultOf(calls[d].op) = jobs[j].status
                               /\ jobs[j].status = "LEASED" => d = jobs[j].leaseOwner
        BY <3>2
      <4>1. CASE d = c
        <5>1. x.to = jobs[j].status
          BY <4>1
        <5>2. jobs[j].status = "LEASED" => op = "lease"
          BY <4>1 DEF ResultOf
        <5>3. jobs[j].status = "LEASED" => x.actor = jobs[j].leaseOwner
          BY <4>1, <5>2 DEF ActorOf
        <5> QED BY <1>0, <2>7, <5>1, <5>3 DEF Held
      <4>2. CASE d # c
        <5>1. calls'[d] = calls[d]
          BY <1>0, <4>2 DEF CallsInv, Enters
        <5> QED BY <1>0, <5>1 DEF Held
      <4> QED BY <4>1, <4>2
    <3> QED BY <3>1, <3>2 DEF Held
  <2> QED BY <1>0, <2>4, <2>5, <2>6, <2>8, AuditNats DEF Audited, Exists
<1> QED BY <1>2, <1>3

LEMMA FailKeeps ==
  ASSUME AuditTypes, NEW c \in Callers, CallFails(c), NEW j \in Jobs, Audited(j)
  PROVE  Audited(j)'
<1>0. /\ CallsInv /\ Enters(c, NoCall) /\ NoCall.pc # "append"
      /\ jobs' = jobs /\ transitions' = transitions /\ faults' = faults + 1
  BY IdleCall DEF CallFails, AuditTypes, SqlInv, Returns, Enters
<1>1. /\ Finite(j, LeaseRows, {"lease"})'
      /\ Total(j, LeaseRows, {"lease"})' + 1 >= Total(j, LeaseRows, {"lease"})
  BY <1>0, PendingShrinks DEF Audited
<1>2. /\ Finite(j, ReplayRows, {"requeue"})'
      /\ Total(j, ReplayRows, {"requeue"})' + 1 >= Total(j, ReplayRows, {"requeue"})
  BY <1>0, PendingShrinks DEF Audited
<1>3. Total(j, LeaseRows, {"lease"})' \in Nat /\ Total(j, ReplayRows, {"requeue"})' \in Nat
  BY <1>1, <1>2, TotalNatNext
<1> QED BY <1>0, <1>1, <1>2, <1>3, AuditNats DEF Audited

LEMMA DeleteKeeps ==
  ASSUME AuditTypes, NEW c \in Callers, DeleteDoomed(c), NEW j \in Jobs, Audited(j)
  PROVE  Audited(j)'
<1> PICK D : D = calls[c].doomed
  OBVIOUS
<1>0. /\ CallsInv /\ Enters(c, NoCall) /\ calls[c].pc # "append" /\ faults' = faults
      /\ jobs'[j] = IF j \in D THEN NoJob ELSE jobs[j]
      /\ transitions'[j] = IF j \in D THEN << >> ELSE transitions[j]
  BY DEF DeleteDoomed, Delete, AuditTypes, SqlInv, Returns, Enters
<1>1. CASE j \notin D
  <2>0. jobs'[j] = jobs[j] /\ transitions'[j] = transitions[j]
    BY <1>0, <1>1
  <2>1. /\ Finite(j, LeaseRows, {"lease"})'
        /\ Total(j, LeaseRows, {"lease"})' >= Total(j, LeaseRows, {"lease"})
    BY <1>0, <2>0, PendingGrows DEF Audited
  <2>2. /\ Finite(j, ReplayRows, {"requeue"})'
        /\ Total(j, ReplayRows, {"requeue"})' >= Total(j, ReplayRows, {"requeue"})
    BY <1>0, <2>0, PendingGrows DEF Audited
  <2>3. Held(j) => Held(j)'
    BY <1>0, <2>0, HeldStays
  <2>4. Total(j, LeaseRows, {"lease"})' \in Nat /\ Total(j, ReplayRows, {"requeue"})' \in Nat
    BY <2>1, <2>2, TotalNatNext
  <2> QED BY <1>0, <2>0, <2>1, <2>2, <2>3, <2>4, AuditNats DEF Audited, Exists
<1>2. CASE j \in D
  <2>1. \A k \in Callers : calls'[k] = IF k = c THEN NoCall ELSE calls[k]
    BY <1>0 DEF CallsInv, Enters
  <2>2. Pending(j, {"lease"})' = Pending(j, {"lease"}) /\ Pending(j, {"requeue"})' = Pending(j, {"requeue"})
    BY <1>0, <2>1, IdleCall DEF Pending
  <2>3. transitions'[j] = << >> /\ jobs'[j] = NoJob
    BY <1>0, <1>2
  <2>4. \A kind : Copies(<< >>, kind) = {}
    <3>1. DOMAIN << >> = {}
      OBVIOUS
    <3> QED BY <3>1 DEF Copies, BagToSet
  <2>5. Finite(j, LeaseRows, {"lease"})' /\ Finite(j, ReplayRows, {"requeue"})'
    BY <2>2, <2>3, <2>4, FS_EmptySet DEF Audited, Finite
  <2>6. /\ Total(j, LeaseRows, {"lease"})' \in Nat /\ Total(j, ReplayRows, {"requeue"})' \in Nat
        /\ faults \in Nat
    BY <2>5, TotalNatNext, AuditNats
  <2> QED BY <1>0, <2>3, <2>5, <2>6, NoJobFields DEF Audited, Exists
<1> QED BY <1>1, <1>2

-----------------------------------------------------------------------------
(* Which form each statement has. *)
LEMMA SameCountsOfSame == \A job : SameCounts(job, job)
  BY DEF SameCounts

LEMMA InsertAudit ==
  ASSUME AuditTypes, NEW c \in Apis, NEW j \in Jobs, NEW limit \in AttemptLimits,
         NEW t \in Creations, InsertRow(c, j, limit, t)
  PROVE  Quiet \/ Changed
<1> DEFINE r == [NoCall EXCEPT !.pc = "append", !.op = "enqueue", !.job = j]
<1>1. r \in Call /\ r.pc = "append" /\ r.op = "enqueue" /\ r.job = j
  BY Zenon DEF NoCall, Call
<1>2. Enters(c, r) /\ calls[c].pc # "append" /\ c \in Callers /\ transitions' = transitions /\ faults' = faults
  BY DEF InsertRow, Idle, Callers
<1>3. faults \in Nat
  BY DEF AuditTypes, HistoryInv
<1> HIDE DEF r
<1>4. CASE Exists(j)
  <2>1. jobs' = jobs
    BY <1>4 DEF InsertRow
  <2> QED BY <1>1, <1>2, <1>3, <2>1, SameCountsOfSame DEF Quiet
<1>5. CASE ~Exists(j)
  <2> DEFINE new == Submitted(limit, t)
  <2>1. jobs[j] = NoJob /\ jobs' = [jobs EXCEPT ![j] = new]
    BY <1>5 DEF InsertRow, AuditTypes, SqlInv, RowsInv, AbsentIsBlank
  <2>2. new \in Job /\ new.status = "QUEUED" /\ new.attempts = 0 /\ new.replayCount = 0
    BY SubmittedFields
  <2> HIDE DEF new
  <2>3. Owing(c, r, j, new)
    BY <1>1, <2>1, <2>2, NoJobFields DEF Owing, ResultOf
  <2> QED BY <1>1, <1>2, <2>1, <2>2, <2>3 DEF Changed
<1> QED BY <1>4, <1>5

LEMMA LeaseAudit ==
  ASSUME AuditTypes, NEW w \in Workers, NEW j \in Jobs, CommitLease(w, j)
  PROVE  Changed
<1> DEFINE b == jobs[j].attempts + 1 < jobs[j].maxAttempts
           r == [NoCall EXCEPT !.pc = "append", !.op = "lease", !.job = j, !.retry = b]
           new == LeasedTo(jobs[j], w)
<1>1. Enters(w, r) /\ calls[w].pc # "append" /\ w \in Callers /\ transitions' = transitions /\ faults' = faults
  BY DEF CommitLease, Idle, Callers
<1>2. b \in BOOLEAN
  OBVIOUS
<1> HIDE DEF b
<1>3. r \in Call /\ r.pc = "append" /\ r.job = j /\ r.op = "lease"
  BY <1>2, Zenon DEF NoCall, Call
<1>4. jobs[j] \in Job /\ jobs' = [jobs EXCEPT ![j] = new]
  BY DEF CommitLease, AuditTypes, SqlInv, RowsInv
<1>5. /\ new \in Job /\ new.status = "LEASED" /\ new.leaseOwner = w
      /\ new.attempts = jobs[j].attempts + 1 /\ new.replayCount = jobs[j].replayCount
  BY <1>4, LeasedToFields
<1> HIDE DEF r, new
<1>6. Owing(w, r, j, new)
  BY <1>3, <1>5 DEF Owing, ResultOf
<1> QED BY <1>1, <1>3, <1>4, <1>5, <1>6 DEF Changed

LEMMA HeartbeatAudit ==
  ASSUME AuditTypes, NEW w \in Workers, Heartbeat(w)
  PROVE  Quiet
<1> PICK j \in Jobs : j = grant[w].job
  BY DEF AuditTypes, SqlInv, CallsInv, Heartbeat
<1>1. /\ jobs \in [Jobs -> Job] /\ jobs' = [jobs EXCEPT ![j] = Extended(jobs[j])]
      /\ transitions' = transitions /\ calls' = calls /\ faults' = faults /\ faults \in Nat
  BY DEF Heartbeat, ExtendRunJobLease, AuditTypes, SqlInv, RowsInv, HistoryInv
<1>2. SameCounts(jobs[j], Extended(jobs[j]))
  BY <1>1, ExtendedFields DEF SameCounts
<1>3. \A k \in Jobs : SameCounts(jobs[k], jobs'[k])
  BY <1>1, <1>2, SameCountsOfSame
<1> QED BY <1>1, <1>3 DEF Quiet

LEMMA ReadAudit ==
  ASSUME AuditTypes, NEW c \in Callers, NEW op \in UpdateOps, NEW j \in Jobs, ReadRow(c, op, j)
  PROVE  Quiet
<1> DEFINE r == [NoCall EXCEPT !.pc = "update", !.op = op, !.job = j]
<1>1. r \in Call
  <2>1. op \in UpdateOps \cup {"none", "enqueue", "lease", "purge"}
    OBVIOUS
  <2> QED BY <2>1, Zenon DEF NoCall, Call
<1>2. calls' = calls \/ Enters(c, r)
  BY DEF ReadRow
<1> HIDE DEF r
<1>3. /\ calls[c].pc # "append" /\ jobs' = jobs /\ transitions' = transitions
      /\ faults' = faults /\ faults \in Nat
  BY DEF ReadRow, Idle, AuditTypes, HistoryInv
<1> QED BY <1>1, <1>2, <1>3, SameCountsOfSame DEF Quiet

LEMMA UpdateAudit ==
  ASSUME AuditTypes, NEW c \in Callers, NEW d \in Nat, UpdateRow(c, d)
  PROVE  Quiet \/ Changed
<1> DEFINE r == [calls[c] EXCEPT !.pc = "append"]
<1> PICK j \in Jobs : j = calls[c].job
  BY DEF UpdateRow, AuditTypes, SqlInv, CallsInv
<1> PICK op \in UpdateOps : op = calls[c].op
  BY DEF UpdateRow, AuditTypes, SqlInv, CallsInv
<1>1. /\ calls[c] \in Call /\ calls[c].pc # "append" /\ jobs[j] \in Job
      /\ transitions' = transitions /\ faults' = faults /\ faults \in Nat
  BY DEF UpdateRow, AuditTypes, SqlInv, CallsInv, RowsInv, HistoryInv
<1>2. CASE jobs[j].status \notin Accepted(op)
  <2>1. jobs' = jobs /\ Enters(c, NoCall)
    BY <1>2 DEF UpdateRow, Returns, Enters
  <2> QED BY <1>1, <2>1, IdleCall, SameCountsOfSame DEF Quiet
<1>3. CASE jobs[j].status \in Accepted(op)
  <2> DEFINE new == UpdatedRow(op, jobs[j], d)
  <2>1. jobs' = [jobs EXCEPT ![j] = new] /\ Enters(c, r)
    BY <1>3 DEF UpdateRow, Enters
  <2>2. r \in Call /\ r.pc = "append" /\ r.job = j /\ r.op = op
    BY <1>1, Zenon DEF Call
  <2> HIDE DEF r
  <2>3. /\ new \in Job /\ new.status = ResultOf(op) /\ new.status # "LEASED"
        /\ new.attempts = jobs[j].attempts
        /\ new.replayCount = IF op = "requeue" THEN jobs[j].replayCount + 1 ELSE jobs[j].replayCount
    <3>1. CASE op = "retry"
      <4>1. new = Delayed(jobs[j], d) /\ ResultOf(op) = "QUEUED"
        BY <3>1 DEF UpdatedRow, ResultOf
      <4> HIDE DEF new
      <4> QED BY <1>1, <3>1, <4>1, DelayedFields
    <3>2. CASE op = "requeue"
      <4>1. new = Replayed(jobs[j], d) /\ ResultOf(op) = "QUEUED"
        BY <3>2 DEF UpdatedRow, ResultOf
      <4> HIDE DEF new
      <4> QED BY <1>1, <3>2, <4>1, ReplayedFields
    <3>3. CASE op \in {"complete", "fail", "dead", "cancel"}
      <4>1. /\ new = Released(jobs[j], ResultOf(op))
            /\ ResultOf(op) \in JobStatuses /\ ResultOf(op) # "LEASED"
        BY <3>3 DEF UpdatedRow, ResultOf, JobStatuses
      <4> HIDE DEF new
      <4> QED BY <1>1, <3>3, <4>1, ReleasedFields
    <3> QED BY <3>1, <3>2, <3>3 DEF UpdateOps, SettleOps
  <2> HIDE DEF new
  <2>4. Owing(c, r, j, new)
    BY <2>2, <2>3 DEF Owing, UpdateOps, SettleOps
  <2> QED BY <1>1, <2>1, <2>2, <2>3, <2>4 DEF Changed
<1> QED BY <1>2, <1>3

LEMMA SelectAudit ==
  ASSUME AuditTypes, SqlPurging
  PROVE  Quiet
<1> PICK c \in Apis, D \in SUBSET Jobs :
        /\ Idle(c)
        /\ Enters(c, [NoCall EXCEPT !.pc = "delete", !.op = "purge", !.doomed = D])
        /\ jobs' = jobs /\ transitions' = transitions /\ faults' = faults
  BY DEF SqlPurging, SelectDoomed
<1> DEFINE r == [NoCall EXCEPT !.pc = "delete", !.op = "purge", !.doomed = D]
<1>1. r \in Call /\ Enters(c, r)
  BY DoomedCall
<1> HIDE DEF r
<1>2. c \in Callers /\ calls[c].pc # "append" /\ faults \in Nat
  BY DEF Callers, Idle, AuditTypes, HistoryInv
<1> QED BY <1>1, <1>2, SameCountsOfSame DEF Quiet

LEMMA TickAudit ==
  ASSUME AuditTypes, SqlTick
  PROVE  Quiet
<1>1. /\ jobs \in [Jobs -> Job] /\ faults \in Nat
      /\ \A k \in Jobs : jobs'[k] = Aged(jobs[k])
      /\ transitions' = transitions /\ calls' = calls
      /\ faults' = faults \/ faults' = faults + 1
  BY DEF SqlTick, Tick, AuditTypes, SqlInv, RowsInv, HistoryInv
<1>2. \A k \in Jobs : SameCounts(jobs[k], jobs'[k])
  BY <1>1, AgedFields DEF SameCounts
<1>3. faults' \in Nat /\ faults' >= faults
  BY <1>1
<1> QED BY <1>1, <1>2, <1>3 DEF Quiet

LEMMA StillAudit ==
  ASSUME AuditTypes, (\E w \in Workers : WorkerDies(w)) \/ UNCHANGED sqlVars
  PROVE  Quiet
<1>1. /\ jobs' = jobs /\ transitions' = transitions /\ calls' = calls
      /\ faults \in Nat /\ (faults' = faults \/ faults' = faults + 1)
  BY DEF WorkerDies, sqlVars, AuditTypes, HistoryInv
<1>2. faults' \in Nat /\ faults' >= faults
  BY <1>1
<1> QED BY <1>1, <1>2, SameCountsOfSame DEF Quiet

LEMMA AuditForms ==
  ASSUME AuditTypes, [SqlNext]_sqlVars
  PROVE  Quiet \/ Changed \/ \E c \in Callers : AppendTransition(c) \/ DeleteDoomed(c) \/ CallFails(c)
<1>1. \A op : DelaysOf(op) \subseteq Nat
  BY DurationAssumption DEF DelaysOf
<1>2. ASSUME NEW c \in Callers, Reading(c) \/ Continuing(c) \/ CallFails(c)
      PROVE  Quiet \/ Changed \/ AppendTransition(c) \/ DeleteDoomed(c) \/ CallFails(c)
  BY <1>1, <1>2, ReadAudit, UpdateAudit DEF Reading, Continuing
<1> QED BY <1>2, InsertAudit, LeaseAudit, HeartbeatAudit, SelectAudit, TickAudit, StillAudit
        DEF SqlNext, Submitting, SqlLeasing

LEMMA AuditStep == AuditTypes /\ AuditInv /\ [SqlNext]_sqlVars => AuditInv'
<1> SUFFICES ASSUME AuditTypes, AuditInv, [SqlNext]_sqlVars, NEW j \in Jobs PROVE Audited(j)'
  BY DEF AuditInv
<1>1. Audited(j)
  BY DEF AuditInv
<1> QED BY <1>1, AuditForms, QuietKeeps, ChangedKeeps, AppendKeeps, DeleteKeeps, FailKeeps

(* The history of every job is complete up to faults: statements of several *)
(* goroutines in any order, stale reads, refused updates and purges between *)
(* the update and appendTransition of another call lose no entry, and a     *)
(* call or worker that fails loses one at most.                             *)
THEOREM HistoryComplete == SqlSpec => []AuditComplete
<1>1. SqlInit => AuditInv
  <2> SUFFICES ASSUME SqlInit, NEW j \in Jobs PROVE Audited(j)
    BY DEF AuditInv
  <2>1. jobs[j] = NoJob /\ transitions[j] = << >> /\ faults = 0 /\ \A c \in Callers : calls[c].pc = "idle"
    BY IdleCall DEF SqlInit, Init
  <2>2. \A ops : Pending(j, ops) = {}
    BY <2>1 DEF Pending
  <2>3. \A kind : Copies(transitions[j], kind) = {}
    <3>1. DOMAIN << >> = {}
      OBVIOUS
    <3> QED BY <2>1, <3>1 DEF Copies, BagToSet
  <2>4. Finite(j, LeaseRows, {"lease"}) /\ Finite(j, ReplayRows, {"requeue"})
    BY <2>2, <2>3, FS_EmptySet DEF Finite
  <2>5. Total(j, LeaseRows, {"lease"}) \in Nat /\ Total(j, ReplayRows, {"requeue"}) \in Nat
    BY <2>4, TotalNat
  <2> QED BY <2>1, <2>4, <2>5, NoJobFields DEF Audited, Exists
<1>2. AuditInv => AuditComplete
  <2> SUFFICES ASSUME AuditInv, NEW j \in Jobs, Audited(j)
               PROVE  /\ Exists(j) => Recorded(j) \/ faults > 0
                      /\ jobs[j].attempts <= Rows(j, LeaseRows) + Cardinality(Pending(j, {"lease"})) + faults
                      /\ jobs[j].replayCount <= Rows(j, ReplayRows) + Cardinality(Pending(j, {"requeue"})) + faults
    BY DEF AuditInv, AuditComplete
  <2>1. Held(j) => Recorded(j)
    BY DEF Held, Recorded, BagToSet
  <2> QED BY <2>1 DEF Audited, Total
<1>3. SqlInit => HistoryInv
  BY RowBagEmpty DEF SqlInit, Init, HistoryInv
<1> QED BY <1>1, <1>2, <1>3, SqlInvInit, SqlInvStep, HistoryInvStep, AuditStep, PTL DEF SqlSpec, AuditTypes

=============================================================================
