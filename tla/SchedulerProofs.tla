-------------------------- MODULE SchedulerProofs --------------------------
(***************************************************************************)
(* Theorems about Scheduler for any processes, schedules and bounds: its   *)
(* leadership, its schedule file, its triggers and its running flag.       *)
(***************************************************************************)
EXTENDS Scheduler, FiniteSetTheorems, TLAPS

(* Only the leader's cron engine runs, and the jobs a workflow has in the  *)
(* queue stay within the bound.                                            *)
EngineUnderLock == \A n \in Nodes : engineOn[n] => lockHeld[n]

QueueBounded == \A w \in Workflows : Unsettled(w) <= MaxJobs

(* The parts of the type invariant, with what belongs to them. *)
JobsOK == /\ jobs \in [Nodes -> SUBSET Config]
          /\ \A n \in Nodes : OnePerWorkflow(jobs[n])
          /\ paused \in [Nodes -> SUBSET Workflows]

FileOK == \/ file \in {NoFile, Torn}
          \/ /\ file \in [state : {"saved"}, jobs : SUBSET Config, paused : SUBSET Workflows]
             /\ OnePerWorkflow(file.jobs)

ThreadsOK == /\ threads \in [Nodes -> [Slots -> Thread \cup {NoThread}]]
             /\ entries \in [Nodes -> SUBSET Config]

LockOK == /\ lockHeld \in [Nodes -> BOOLEAN]
          /\ lockFile \in BOOLEAN
          /\ engineOn \in [Nodes -> BOOLEAN]
          /\ OneLeader
          /\ EngineUnderLock

RestOK == /\ proc \in [Nodes -> {"down", "loaded", "registered", "started", "stopping"}]
          /\ running \in [Nodes -> SUBSET Workflows]
          /\ todo \in [Nodes -> SUBSET Config]

QueueOK == /\ queue \in [Workflows -> [waiting : 0 .. MaxJobs, executing : 0 .. MaxJobs]]
           /\ QueueBounded

(* CronRunsUnderLock, over all slots: NoThread is from no one. *)
CronOK == \A n \in Nodes, i \in Slots : threads[n][i].from = "cron" => lockHeld[n]

(* The inductive invariant: the parts each action is shown to keep.        *)
(* OneLeader needs nothing else; CronRunsUnderLock needs that the engine   *)
(* of a process runs only while it leads, and the types.                   *)
SchedInv == JobsOK /\ FileOK /\ ThreadsOK /\ LockOK /\ RestOK /\ QueueOK /\ CronOK

-----------------------------------------------------------------------------
(* Threads. *)

(* stop() on a workflow's loops changes no thread's origin. *)
LEMMA CancelledThreads ==
    ASSUME NEW ts \in [Slots -> Thread \cup {NoThread}], NEW w
    PROVE  /\ Cancelled(ts, w) \in [Slots -> Thread \cup {NoThread}]
           /\ \A i \in Slots : Cancelled(ts, w)[i].from = ts[i].from
<1>1. ASSUME NEW i \in Slots
      PROVE  /\ Cancelled(ts, w)[i] \in Thread \cup {NoThread}
             /\ Cancelled(ts, w)[i].from = ts[i].from
  <2>1. CASE ts[i] = NoThread
    BY <2>1 DEF Cancelled, NoThread
  <2>2. CASE ts[i] \in Thread
    BY <2>2 DEF Cancelled, Thread
  <2> QED BY <2>1, <2>2
<1> QED BY <1>1 DEF Cancelled

(* A thread that returns from executeOnce is gone or waits, with its old origin. *)
LEMMA ReturnedThread ==
    ASSUME NEW t \in Thread
    PROVE  /\ Returned(t) \in Thread \cup {NoThread}
           /\ Returned(t).from = "cron" => t.from = "cron"
BY DEF Returned, Thread, NoThread

(* startJobLocked starts loops and startup calls, never calls of the engine. *)
LEMMA NewThreadType ==
    ASSUME NEW c \in Config
    PROVE  NewThread(c) \in Thread /\ NewThread(c).from # "cron"
BY DEF NewThread, Thread, Config

(* A process with room has a slot for the next goroutine. *)
LEMMA FreeSlotIsFree ==
    ASSUME NEW n, HasRoom(n)
    PROVE  FreeSlot(n) \in Slots
BY DEF HasRoom, FreeSlot

-----------------------------------------------------------------------------
(* What the helpers of the actions keep. *)

(* jobs[w] = config leaves one schedule per workflow. *)
LEMMA PutKeepsOne ==
    ASSUME NEW S \in SUBSET Config, OnePerWorkflow(S), NEW c \in Config
    PROVE  /\ Without(S, c.workflow) \cup {c} \in SUBSET Config
           /\ OnePerWorkflow(Without(S, c.workflow) \cup {c})
BY DEF OnePerWorkflow, Without

(* delete(jobs, w) leaves one schedule per workflow. *)
LEMMA DropKeepsOne ==
    ASSUME NEW S \in SUBSET Config, OnePerWorkflow(S), NEW w
    PROVE  /\ Without(S, w) \in SUBSET Config
           /\ OnePerWorkflow(Without(S, w))
BY DEF OnePerWorkflow, Without

(* loadLocked takes over the maps of a well-formed file, or nothing. *)
LEMMA LoadKeeps ==
    ASSUME NEW n \in Nodes, JobsOK, FileOK, loadLocked(n)
    PROVE  JobsOK'
<1>1. CASE file.state = "saved"
  <2>1. file.jobs \in SUBSET Config /\ OnePerWorkflow(file.jobs) /\ file.paused \in SUBSET Workflows
    BY <1>1 DEF FileOK, NoFile, Torn
  <2> QED BY <1>1, <2>1 DEF JobsOK, loadLocked, OnePerWorkflow
<1>2. CASE file.state # "saved"
  BY <1>2 DEF JobsOK, loadLocked, OnePerWorkflow
<1> QED BY <1>1, <1>2

(* persistLocked writes a well-formed file, or fails. *)
LEMMA PersistKeeps ==
    ASSUME NEW n \in Nodes, FileOK, JobsOK', persistLocked(n)
    PROVE  FileOK'
BY DEF JobsOK, FileOK, persistLocked, OnePerWorkflow

(* unscheduleLocked leaves the engine's own calls alone. *)
LEMMA UnscheduleKeeps ==
    ASSUME NEW n \in Nodes, NEW w, ThreadsOK, CronOK, unscheduleLocked(n, w),
           lockHeld' = lockHeld
    PROVE  ThreadsOK' /\ CronOK'
<1>1. threads[n] \in [Slots -> Thread \cup {NoThread}]
  BY DEF ThreadsOK
<1>2. /\ threads' \in [Nodes -> [Slots -> Thread \cup {NoThread}]]
      /\ \A m \in Nodes, i \in Slots : threads'[m][i].from = threads[m][i].from
  BY <1>1, CancelledThreads DEF ThreadsOK, unscheduleLocked
<1>3. entries' \in [Nodes -> SUBSET Config]
  BY DEF ThreadsOK, unscheduleLocked, Without
<1> QED BY <1>2, <1>3 DEF ThreadsOK, CronOK

(* startJobLocked leaves the engine's own calls alone. *)
LEMMA StartJobKeeps ==
    ASSUME NEW n \in Nodes, NEW c \in Config, ThreadsOK, CronOK, startJobLocked(n, c),
           lockHeld' = lockHeld
    PROVE  ThreadsOK' /\ CronOK'
<1> DEFINE rest == Cancelled(threads[n], c.workflow)
<1>1. /\ rest \in [Slots -> Thread \cup {NoThread}]
      /\ \A i \in Slots : rest[i].from = threads[n][i].from
  BY CancelledThreads DEF ThreadsOK
<1>2. entries' \in [Nodes -> SUBSET Config]
  BY DEF ThreadsOK, startJobLocked, Without
<1>3. CASE NeedsThread(c)
  <2>1. FreeSlot(n) \in Slots
    BY <1>3, FreeSlotIsFree DEF startJobLocked
  <2>2. threads' = [threads EXCEPT ![n] = [rest EXCEPT ![FreeSlot(n)] = NewThread(c)]]
    BY <1>3 DEF startJobLocked
  <2>3. NewThread(c) \in Thread /\ NewThread(c).from # "cron"
    BY NewThreadType
  <2> HIDE DEF rest
  <2>4. threads' \in [Nodes -> [Slots -> Thread \cup {NoThread}]]
    BY <1>1, <2>1, <2>2, <2>3 DEF ThreadsOK
  <2>5. \A m \in Nodes, i \in Slots :
           threads'[m][i].from = "cron" => threads[m][i].from = "cron"
    BY <1>1, <2>1, <2>2, <2>3 DEF ThreadsOK
  <2> QED BY <1>2, <2>4, <2>5 DEF ThreadsOK, CronOK
<1>4. CASE ~NeedsThread(c)
  <2>1. threads' = [threads EXCEPT ![n] = rest]
    BY <1>4 DEF startJobLocked
  <2> HIDE DEF rest
  <2>2. /\ threads' \in [Nodes -> [Slots -> Thread \cup {NoThread}]]
        /\ \A m \in Nodes, i \in Slots : threads'[m][i].from = threads[m][i].from
    BY <1>1, <2>1 DEF ThreadsOK
  <2> QED BY <1>2, <2>2 DEF ThreadsOK, CronOK
<1> QED BY <1>3, <1>4

-----------------------------------------------------------------------------
(* The actions. *)

(* Register, Unregister, Pause and Resume keep the invariant. *)
LEMMA CallsKeep ==
    ASSUME SchedInv, NEW n \in Nodes, Call(n)
    PROVE  SchedInv'
<1> USE DEF SchedInv
<1>1. ASSUME NEW c \in Offers[n], Register(n, c)
      PROVE  SchedInv'
  <2>1. c \in Config
    BY <1>1, SchedulerAssumption
  <2>2. JobsOK'
    BY <1>1, <2>1, PutKeepsOne DEF Register, JobsOK
  <2>3. FileOK'
    BY <1>1, <2>2, PersistKeeps DEF Register
  <2>4. ThreadsOK' /\ CronOK'
    BY <1>1, <2>1, StartJobKeeps DEF Register
  <2>5. LockOK' /\ RestOK' /\ QueueOK'
    BY <1>1 DEF Register, LockOK, OneLeader, EngineUnderLock, RestOK, QueueOK, QueueBounded, Unsettled
  <2> QED BY <2>2, <2>3, <2>4, <2>5
<1>2. ASSUME NEW c \in Offers[n], RegisterBeforeStart(n, c)
      PROVE  SchedInv'
  <2>1. c \in Config
    BY <1>2, SchedulerAssumption
  <2>2. JobsOK'
    BY <1>2, <2>1, PutKeepsOne DEF RegisterBeforeStart, JobsOK
  <2>3. FileOK'
    BY <1>2, <2>2, PersistKeeps DEF RegisterBeforeStart
  <2>4. ThreadsOK' /\ CronOK'
    BY <1>2, UnscheduleKeeps DEF RegisterBeforeStart
  <2>5. LockOK' /\ RestOK' /\ QueueOK'
    BY <1>2 DEF RegisterBeforeStart, LockOK, OneLeader, EngineUnderLock, RestOK, QueueOK,
                QueueBounded, Unsettled
  <2> QED BY <2>2, <2>3, <2>4, <2>5
<1>3. ASSUME NEW w \in Workflows, Unregister(n, w)
      PROVE  SchedInv'
  <2>1. JobsOK'
    BY <1>3, DropKeepsOne DEF Unregister, JobsOK
  <2>2. FileOK'
    BY <1>3, <2>1, PersistKeeps DEF Unregister
  <2>3. ThreadsOK' /\ CronOK'
    BY <1>3, UnscheduleKeeps DEF Unregister
  <2>4. LockOK' /\ RestOK' /\ QueueOK'
    BY <1>3 DEF Unregister, LockOK, OneLeader, EngineUnderLock, RestOK, QueueOK,
                QueueBounded, Unsettled
  <2> QED BY <2>1, <2>2, <2>3, <2>4
<1>4. ASSUME NEW w \in Workflows, Pause(n, w) \/ Resume(n, w)
      PROVE  SchedInv'
  <2>1. JobsOK'
    BY <1>4 DEF Pause, Resume, JobsOK, OnePerWorkflow
  <2>2. FileOK'
    BY <1>4, <2>1, PersistKeeps DEF Pause, Resume
  <2>3. ThreadsOK' /\ CronOK' /\ LockOK' /\ RestOK' /\ QueueOK'
    BY <1>4 DEF Pause, Resume, ThreadsOK, CronOK, LockOK, OneLeader, EngineUnderLock, RestOK,
                QueueOK, QueueBounded, Unsettled
  <2> QED BY <2>1, <2>2, <2>3
<1> QED BY <1>1, <1>2, <1>3, <1>4 DEF Call

(* Start keeps it: the file it creates was not there, so nobody led. *)
LEMMA StartKeeps ==
    ASSUME SchedInv, NEW n \in Nodes, Start(n)
    PROVE  SchedInv'
<1> USE DEF SchedInv
<1>1. JobsOK'
  BY LoadKeeps DEF Start
<1>2. FileOK' /\ ThreadsOK' /\ QueueOK'
  BY DEF Start, FileOK, OnePerWorkflow, ThreadsOK, QueueOK, QueueBounded, Unsettled
<1>3. CASE tryAcquireLeaderLockLocked(n) /\ engineOn' = [engineOn EXCEPT ![n] = TRUE]
           /\ todo' = [todo EXCEPT ![n] = jobs'[n]]
  <2>1. LockOK'
    BY <1>3 DEF LockOK, OneLeader, EngineUnderLock, tryAcquireLeaderLockLocked
  <2>2. RestOK'
    BY <1>1, <1>3 DEF Start, RestOK, JobsOK
  <2>3. CronOK'
    BY <1>3 DEF Start, CronOK, LockOK, tryAcquireLeaderLockLocked
  <2> QED BY <1>1, <1>2, <2>1, <2>2, <2>3
<1>4. CASE UNCHANGED <<engineOn, todo, lockHeld, lockFile>>
  BY <1>1, <1>2, <1>4 DEF Start, LockOK, OneLeader, EngineUnderLock, RestOK, CronOK
<1> QED BY <1>3, <1>4 DEF Start

(* The lock goes only when the engine is off and its calls have returned. *)
LEMMA ReleaseKeeps ==
    ASSUME SchedInv, NEW n \in Nodes, releaseLeaderLock(n)
    PROVE  SchedInv'
<1> USE DEF SchedInv
<1>1. JobsOK' /\ FileOK' /\ ThreadsOK' /\ RestOK' /\ QueueOK'
  BY DEF releaseLeaderLock, procVars, JobsOK, FileOK, OnePerWorkflow, ThreadsOK, RestOK, QueueOK,
         QueueBounded, Unsettled
<1>2. LockOK'
  BY DEF releaseLeaderLock, procVars, LockOK, OneLeader, EngineUnderLock
<1>3. \A i \in Slots : threads[n][i].from # "cron"
  BY DEF releaseLeaderLock, Used, NoThread
<1>4. CronOK'
  BY <1>3 DEF releaseLeaderLock, procVars, CronOK, LockOK
<1> QED BY <1>1, <1>2, <1>4

(* The end of a process takes its engine, its threads and its leadership. *)
LEMMA GoneKeeps ==
    ASSUME SchedInv, NEW n \in Nodes, Gone(n), file' \in {file, Torn}
    PROVE  SchedInv'
<1> USE DEF SchedInv
<1>1. JobsOK' /\ FileOK' /\ RestOK' /\ QueueOK'
  BY DEF Gone, JobsOK, FileOK, OnePerWorkflow, RestOK, QueueOK, QueueBounded, Unsettled
<1>2. LockOK'
  BY DEF Gone, LockOK, OneLeader, EngineUnderLock
<1>3. ThreadsOK'
  BY DEF Gone, ThreadsOK
<1>4. \A m \in Nodes, i \in Slots : threads'[m][i].from = "cron" =>
         m # n /\ threads[m][i].from = "cron"
  BY DEF Gone, ThreadsOK, NoThread
<1>5. CronOK'
  BY <1>4 DEF Gone, CronOK, LockOK
<1> QED BY <1>1, <1>2, <1>3, <1>5

(* Start, shutdown and the process's own life keep the invariant. *)
LEMMA ServiceKeeps ==
    ASSUME SchedInv, NEW n \in Nodes, ServiceStep(n) \/ ProcessStep(n)
    PROVE  SchedInv'
<1> USE DEF SchedInv
<1>1. ASSUME NEW c \in todo[n], StartNext(n, c)
      PROVE  SchedInv'
  <2>1. c \in Config
    BY DEF RestOK
  <2>2. ThreadsOK' /\ CronOK'
    BY <1>1, <2>1, StartJobKeeps DEF StartNext
  <2>3. JobsOK' /\ FileOK' /\ LockOK' /\ RestOK' /\ QueueOK'
    BY <1>1 DEF StartNext, JobsOK, FileOK, OnePerWorkflow, LockOK, OneLeader, EngineUnderLock,
                RestOK, QueueOK, QueueBounded, Unsettled
  <2> QED BY <2>2, <2>3
<1>2. CASE StopEngine(n)
  BY <1>2 DEF StopEngine, JobsOK, FileOK, OnePerWorkflow, ThreadsOK, LockOK, OneLeader,
              EngineUnderLock, RestOK, QueueOK, QueueBounded, Unsettled, CronOK
<1>3. CASE Stop(n)
  BY <1>3 DEF Stop, procVars, JobsOK, FileOK, OnePerWorkflow, ThreadsOK, LockOK, OneLeader,
              EngineUnderLock, RestOK, QueueOK, QueueBounded, Unsettled, CronOK
<1>4. CASE Boot(n)
  <2>1. JobsOK'
    BY <1>4, LoadKeeps DEF Boot
  <2> QED
    BY <1>4, <2>1 DEF Boot, FileOK, OnePerWorkflow, ThreadsOK, LockOK, OneLeader,
                      EngineUnderLock, RestOK, QueueOK, QueueBounded, Unsettled, CronOK
<1>5. CASE Exit(n) \/ CrashWhileSaving(n)
  BY <1>5, GoneKeeps DEF Exit, CrashWhileSaving
<1> QED BY <1>1, <1>2, <1>3, <1>4, <1>5, StartKeeps, ReleaseKeeps DEF ServiceStep, ProcessStep

(* Triggers and executeOnce keep it: the engine of a leader alone makes cron calls. *)
LEMMA ThreadsKeep ==
    ASSUME SchedInv, NEW n \in Nodes, ThreadStep(n)
    PROVE  SchedInv'
<1> USE DEF SchedInv
<1>1. ASSUME UNCHANGED threadFrame
      PROVE  JobsOK' /\ FileOK' /\ LockOK'
  BY <1>1 DEF threadFrame, JobsOK, FileOK, OnePerWorkflow, LockOK, OneLeader, EngineUnderLock
<1>2. ASSUME UNCHANGED threadFrame, running' \in [Nodes -> SUBSET Workflows]
      PROVE  RestOK'
  BY <1>2 DEF threadFrame, RestOK
<1>3. ASSUME UNCHANGED queue
      PROVE  QueueOK'
  BY <1>3 DEF QueueOK, QueueBounded, Unsettled
<1>4. ASSUME UNCHANGED threadFrame, NEW i \in Slots, NEW t \in Thread \cup {NoThread},
             threads' = [threads EXCEPT ![n][i] = t],
             t.from = "cron" => lockHeld[n]
      PROVE  ThreadsOK' /\ CronOK'
  <2>1. ThreadsOK'
    BY <1>4 DEF threadFrame, ThreadsOK
  <2>2. \A m \in Nodes, j \in Slots :
           threads'[m][j] = IF m = n /\ j = i THEN t ELSE threads[m][j]
    BY <1>4 DEF ThreadsOK
  <2>3. CronOK'
    BY <1>4, <2>2 DEF threadFrame, CronOK
  <2> QED BY <2>1, <2>3
<1>5. ASSUME NEW i \in Used(n)
      PROVE  /\ i \in Slots
             /\ threads[n][i] \in Thread
             /\ threads[n][i].job.workflow \in Workflows
             /\ threads[n][i].from = "cron" => lockHeld[n]
  BY <1>5 DEF Used, ThreadsOK, CronOK, Thread, Config
<1>6. ASSUME NEW c \in entries[n], CronFires(n, c)
      PROVE  SchedInv'
  <2>1. FreeSlot(n) \in Slots
    BY <1>6, FreeSlotIsFree DEF CronFires
  <2> DEFINE t == [from |-> "cron", job |-> c, live |-> FALSE, at |-> "calling"]
  <2>2. t \in Thread
    BY DEF Thread, ThreadsOK
  <2>3. lockHeld[n]
    BY <1>6 DEF CronFires, LockOK, EngineUnderLock
  <2>4. threads' = [threads EXCEPT ![n][FreeSlot(n)] = t]
    BY <1>6 DEF CronFires
  <2> HIDE DEF t
  <2>5. ThreadsOK' /\ CronOK'
    BY <1>4, <1>6, <2>1, <2>2, <2>3, <2>4 DEF CronFires
  <2> QED BY <1>1, <1>2, <1>3, <1>6, <2>5 DEF CronFires, RestOK
<1>7. ASSUME NEW i \in Slots, Begin(n, i)
      PROVE  SchedInv'
  <2>1. i \in Used(n)
    BY <1>7 DEF Begin
  <2> DEFINE t == [threads[n][i] EXCEPT !.at = "executing"]
  <2>2. t \in Thread /\ t.from = threads[n][i].from
    BY <1>5, <2>1 DEF Thread
  <2>3. threads' = [threads EXCEPT ![n][i] = t]
    BY <1>7 DEF Begin
  <2> HIDE DEF t
  <2>4. ThreadsOK' /\ CronOK'
    BY <1>4, <1>5, <1>7, <2>1, <2>2, <2>3 DEF Begin
  <2>5. running' \in [Nodes -> SUBSET Workflows]
    BY <1>5, <1>7, <2>1 DEF Begin, RestOK
  <2> QED BY <1>1, <1>2, <1>3, <1>7, <2>4, <2>5 DEF Begin
<1>8. ASSUME NEW i \in Used(n), UNCHANGED threadFrame,
             threads' = [threads EXCEPT ![n][i] = Returned(threads[n][i])]
      PROVE  ThreadsOK' /\ CronOK'
  BY <1>4, <1>5, <1>8, ReturnedThread
<1>9. ASSUME NEW i \in Slots, Skip(n, i)
      PROVE  SchedInv'
  <2>1. threads' = [threads EXCEPT ![n][i] = Returned(threads[n][i])]
    BY <1>9 DEF Skip
  <2> QED BY <1>1, <1>2, <1>3, <1>8, <1>9, <2>1 DEF Skip, RestOK
<1>10. ASSUME NEW i \in Slots, EndExecution(n, i)
       PROVE  JobsOK' /\ FileOK' /\ LockOK' /\ RestOK' /\ ThreadsOK' /\ CronOK'
  <2>1. threads' = [threads EXCEPT ![n][i] = Returned(threads[n][i])]
    BY <1>10 DEF EndExecution
  <2>2. running' \in [Nodes -> SUBSET Workflows]
    BY <1>10 DEF EndExecution, RestOK
  <2> QED BY <1>1, <1>2, <1>8, <1>10, <2>1, <2>2 DEF EndExecution
<1>11. ASSUME NEW i \in Slots, ExecuteEnqueues(n, i)
       PROVE  SchedInv'
  <2> DEFINE w == threads[n][i].job.workflow
  <2>1. w \in Workflows
    BY <1>5, <1>11 DEF ExecuteEnqueues, EndExecution
  <2>2. Unsettled(w) < MaxJobs /\ queue' = [queue EXCEPT ![w].waiting = @ + 1]
    BY <1>11 DEF ExecuteEnqueues
  <2> HIDE DEF w
  <2>3. QueueOK'
    BY <2>1, <2>2, SchedulerAssumption DEF QueueOK, QueueBounded, Unsettled
  <2> QED BY <1>10, <1>11, <2>3 DEF ExecuteEnqueues
<1>12. ASSUME NEW i \in Slots, ExecuteFails(n, i)
       PROVE  SchedInv'
  BY <1>3, <1>10, <1>12 DEF ExecuteFails
<1>13. ASSUME NEW i \in Slots, LoopExits(n, i)
       PROVE  SchedInv'
  <2>1. NoThread.from # "cron"
    BY DEF NoThread
  <2>2. ThreadsOK' /\ CronOK'
    BY <1>4, <1>13, <2>1 DEF LoopExits
  <2> QED BY <1>1, <1>2, <1>3, <1>13, <2>2 DEF LoopExits, RestOK
<1> QED BY <1>6, <1>7, <1>9, <1>11, <1>12, <1>13 DEF ThreadStep

(* The pool keeps it: it moves jobs within the queue. *)
LEMMA WorkersKeep ==
    ASSUME SchedInv, NEW w \in Workflows, WorkerTakes(w) \/ WorkerSettles(w)
    PROVE  SchedInv'
<1> USE DEF SchedInv
<1>1. JobsOK' /\ FileOK' /\ ThreadsOK' /\ LockOK' /\ RestOK' /\ CronOK'
  BY DEF WorkerTakes, WorkerSettles, threadFrame, JobsOK, FileOK, OnePerWorkflow, ThreadsOK,
         LockOK, OneLeader, EngineUnderLock, RestOK, CronOK
<1>2. QueueOK'
  BY SchedulerAssumption DEF WorkerTakes, WorkerSettles, QueueOK, QueueBounded, Unsettled
<1> QED BY <1>1, <1>2

-----------------------------------------------------------------------------
(* With every process down the invariant holds. *)
LEMMA InitEstablishes == SchedInit => SchedInv
<1> SUFFICES ASSUME SchedInit
             PROVE  SchedInv
  OBVIOUS
<1>1. JobsOK /\ RestOK
  BY DEF SchedInit, JobsOK, OnePerWorkflow, RestOK
<1>2. FileOK
  BY DEF SchedInit, FileOK
<1>3. ThreadsOK
  BY DEF SchedInit, ThreadsOK
<1>4. LockOK
  BY DEF SchedInit, LockOK, OneLeader, EngineUnderLock
<1>5. QueueOK
  BY SchedulerAssumption DEF SchedInit, QueueOK, QueueBounded, Unsettled
<1>6. CronOK
  BY DEF SchedInit, CronOK, NoThread
<1> QED BY <1>1, <1>2, <1>3, <1>4, <1>5, <1>6 DEF SchedInv

(* Every step keeps the invariant. *)
LEMMA NextKeeps == SchedInv /\ [SchedNext]_vars => SchedInv'
<1> SUFFICES ASSUME SchedInv, [SchedNext]_vars
             PROVE  SchedInv'
  OBVIOUS
<1>1. CASE SchedNext
  BY <1>1, CallsKeep, ServiceKeeps, ThreadsKeep, WorkersKeep DEF SchedNext
<1>2. CASE UNCHANGED vars
  BY <1>2 DEF vars, procVars, SchedInv, JobsOK, FileOK, OnePerWorkflow, ThreadsOK, LockOK,
              OneLeader, EngineUnderLock, RestOK, QueueOK, QueueBounded, Unsettled, CronOK
<1> QED BY <1>1, <1>2

(* The invariant holds throughout. *)
LEMMA InvAlways == SchedSpec => []SchedInv
BY InitEstablishes, NextKeeps, PTL DEF SchedSpec

-----------------------------------------------------------------------------
(* The schedule file of a process that is alone. *)

(* A sole process is the only one up, and a process that is down has no    *)
(* maps: a boot starts from what the file holds, and no other writes it.   *)
Alone == \A n \in sole, m \in Nodes : Up(m) => m = n

DownIsEmpty == \A n \in Nodes : ~Up(n) => jobs[n] = {} /\ paused[n] = {} /\ n \notin stale

SoleInv == /\ sole \subseteq Nodes /\ stale \subseteq Nodes
           /\ Alone /\ DownIsEmpty /\ ScheduleFileIsCurrent

(* A call that ends with persistLocked leaves the file as the maps are, or  *)
(* the process stale.                                                       *)
LEMMA SavedCallKeepsSole ==
    ASSUME SchedInv, SoleInv, NEW n \in Nodes, Up(n), persistLocked(n),
           proc' \in [Nodes -> {"down", "loaded", "registered", "started", "stopping"}],
           \A m \in Nodes : Up(m)' <=> Up(m),
           \A m \in Nodes \ {n} : jobs'[m] = jobs[m] /\ paused'[m] = paused[m],
           sole' = sole
    PROVE  SoleInv'
<1>1. sole \subseteq {n}
  BY DEF SoleInv, Alone
<1>2. \/ file'.state = "saved" /\ file'.jobs = jobs'[n] /\ file'.paused = paused'[n]
      \/ n \in stale'
  BY DEF persistLocked
<1>3. Alone' /\ DownIsEmpty' /\ stale' \subseteq Nodes
  BY DEF SoleInv, Alone, DownIsEmpty, persistLocked
<1>4. ScheduleFileIsCurrent'
  BY <1>1, <1>2 DEF ScheduleFileIsCurrent, FileHolds
<1> QED BY <1>3, <1>4 DEF SoleInv

(* The API and schedule mode's registration save what they change. *)
LEMMA CallsKeepSole ==
    ASSUME SchedInv, SoleInv, NEW n \in Nodes, Call(n)
    PROVE  SoleInv'
<1> USE DEF SchedInv, RestOK, JobsOK
<1>1. ASSUME NEW c \in Offers[n], Register(n, c)
      PROVE  SoleInv'
  BY <1>1, SavedCallKeepsSole DEF Register, Answers, Up
<1>2. ASSUME NEW c \in Offers[n], RegisterBeforeStart(n, c)
      PROVE  SoleInv'
  BY <1>2, SavedCallKeepsSole DEF RegisterBeforeStart, Up
<1>3. ASSUME NEW w \in Workflows, Unregister(n, w)
      PROVE  SoleInv'
  BY <1>3, SavedCallKeepsSole DEF Unregister, Answers, Up
<1>4. ASSUME NEW w \in Workflows, Pause(n, w) \/ Resume(n, w)
      PROVE  SoleInv'
  BY <1>4, SavedCallKeepsSole DEF Pause, Resume, Answers, Up
<1> QED BY <1>1, <1>2, <1>3, <1>4 DEF Call

(* loadLocked takes what the file has; a process that starts alone has the *)
(* file's maps afterwards, or had none and finds none.                     *)
LEMMA LoadKeepsSole ==
    ASSUME SchedInv, SoleInv, NEW n \in Nodes, loadLocked(n), file' = file,
           proc' \in [Nodes -> {"down", "loaded", "registered", "started", "stopping"}],
           Up(n)', \A m \in Nodes \ {n} : Up(m)' <=> Up(m),
           \/ sole' = sole /\ Up(n)
           \/ sole' = (IF \E m \in Nodes : Up(m) THEN {} ELSE {n}) /\ ~Up(n)
    PROVE  SoleInv'
<1> USE DEF SchedInv, JobsOK
<1>1. sole' \subseteq {n} /\ Alone'
  BY DEF SoleInv, Alone
<1>2. DownIsEmpty' /\ stale' \subseteq Nodes
  BY DEF SoleInv, DownIsEmpty, loadLocked
<1>3. n \in sole' \ stale' => FileHolds(n)'
  <2> SUFFICES ASSUME n \in sole', n \notin stale'
               PROVE  FileHolds(n)'
    OBVIOUS
  <2>1. CASE file.state = "saved"
    BY <2>1 DEF loadLocked, FileHolds
  <2>2. CASE file.state # "saved"
    <3>1. jobs[n] = {} /\ paused[n] = {}
      BY <2>2 DEF SoleInv, DownIsEmpty, ScheduleFileIsCurrent, FileHolds, loadLocked
    <3> QED BY <2>2, <3>1 DEF loadLocked, FileHolds
  <2> QED BY <2>1, <2>2
<1> QED BY <1>1, <1>2, <1>3 DEF SoleInv, ScheduleFileIsCurrent

(* Start, shutdown, boots and kills. *)
LEMMA ServiceKeepsSole ==
    ASSUME SchedInv, SoleInv, NEW n \in Nodes, ServiceStep(n) \/ ProcessStep(n)
    PROVE  SoleInv'
<1> USE DEF SchedInv, RestOK, JobsOK
<1>1. CASE Start(n)
  BY <1>1, LoadKeepsSole DEF Start, Up
<1>2. CASE Boot(n)
  BY <1>2, LoadKeepsSole DEF Boot, Up
<1>3. CASE Exit(n) \/ CrashWhileSaving(n)
  <2>1. Gone(n)
    BY <1>3 DEF Exit, CrashWhileSaving
  <2>2. sole' = {}
    BY <2>1 DEF Gone, SoleInv, Alone
  <2>3. DownIsEmpty' /\ stale' \subseteq Nodes
    BY <2>1 DEF Gone, SoleInv, DownIsEmpty, Up
  <2> QED BY <2>2, <2>3 DEF SoleInv, Alone, ScheduleFileIsCurrent
<1>4. ASSUME UNCHANGED <<jobs, paused, file, sole, stale>>, \A m \in Nodes : Up(m)' <=> Up(m)
      PROVE  SoleInv'
  BY <1>4 DEF SoleInv, Alone, DownIsEmpty, ScheduleFileIsCurrent, FileHolds
<1>5. CASE Stop(n)
  BY <1>4, <1>5 DEF Stop, procVars, Up
<1>6. CASE StopEngine(n) \/ releaseLeaderLock(n) \/ \E c \in todo[n] : StartNext(n, c)
  BY <1>4, <1>6 DEF StopEngine, releaseLeaderLock, StartNext, procVars, Up
<1> QED BY <1>1, <1>2, <1>3, <1>5, <1>6 DEF ServiceStep, ProcessStep

(* Every step keeps it; what triggers and workers do touches neither the   *)
(* maps nor the file.                                                      *)
LEMMA NextKeepsSole == SchedInv /\ SoleInv /\ [SchedNext]_vars => SoleInv'
<1> SUFFICES ASSUME SchedInv, SoleInv, [SchedNext]_vars
             PROVE  SoleInv'
  OBVIOUS
<1>1. ASSUME UNCHANGED <<proc, jobs, paused, file, sole, stale>>
      PROVE  SoleInv'
  BY <1>1 DEF SoleInv, Alone, DownIsEmpty, ScheduleFileIsCurrent, FileHolds, Up
<1>2. ASSUME NEW n \in Nodes, ThreadStep(n)
      PROVE  SoleInv'
  BY <1>1, <1>2 DEF ThreadStep, CronFires, Begin, Skip, ExecuteEnqueues, ExecuteFails,
                    EndExecution, LoopExits, threadFrame
<1>3. ASSUME NEW w \in Workflows, WorkerTakes(w) \/ WorkerSettles(w)
      PROVE  SoleInv'
  BY <1>1, <1>3 DEF WorkerTakes, WorkerSettles, threadFrame
<1>4. CASE UNCHANGED vars
  BY <1>1, <1>4 DEF vars, procVars
<1> QED BY <1>2, <1>3, <1>4, CallsKeepSole, ServiceKeepsSole DEF SchedNext

(* Both invariants hold throughout. *)
LEMMA SoleAlways == SchedSpec => []SoleInv
<1>1. SchedInit => SoleInv
  BY DEF SchedInit, SoleInv, Alone, DownIsEmpty, ScheduleFileIsCurrent
<1> QED BY <1>1, InvAlways, NextKeepsSole, PTL DEF SchedSpec

(* Every step of service.go keeps the types of its maps, with one schedule *)
(* per workflow in memory and in the schedule file.                        *)
THEOREM SchedTypeCorrect == SchedSpec => []SchedTypeOK
<1>1. SchedInv /\ SoleInv => SchedTypeOK
  BY DEF SchedInv, SoleInv, SchedTypeOK, JobsOK, FileOK, ThreadsOK, LockOK, RestOK, QueueOK
<1> QED BY <1>1, InvAlways, SoleAlways, PTL

(* persistLocked and loadLocked keep the file of a process that has been   *)
(* alone since it booted equal to its maps, through calls, second loads,   *)
(* kills inside a save and files that do not decode, from every read or    *)
(* write that succeeds to the next one that fails.                         *)
THEOREM ScheduleFileCurrent == SchedSpec => []ScheduleFileIsCurrent
<1>1. SoleInv => ScheduleFileIsCurrent
  BY DEF SoleInv
<1> QED BY <1>1, SoleAlways, PTL

(* The O_EXCL lock file and the guarded release make at most one of any    *)
(* number of processes the leader, through every start, stop and kill.     *)
THEOREM LeaderUnique == SchedSpec => []OneLeader
<1>1. SchedInv => OneLeader
  BY DEF SchedInv, LockOK
<1> QED BY <1>1, InvAlways, PTL

(* Start's shutdown goroutine gives the lock up only after the calls of    *)
(* its cron engine are over.                                               *)
THEOREM CronUnderLock == SchedSpec => []CronRunsUnderLock
<1>1. SchedInv => CronRunsUnderLock
  BY DEF SchedInv, CronOK, CronRunsUnderLock, Used
<1> QED BY <1>1, InvAlways, PTL

-----------------------------------------------------------------------------
(* Triggers and the running flag: what each step does to the threads, slot  *)
(* by slot.                                                                 *)
Live(n, i) == i \in Used(n) /\ threads[n][i].live

LEMMA NoThreadIsNoThread == NoThread \notin Thread
  BY DEF NoThread, Thread

LEMMA UsedThreads ==
    ASSUME ThreadsOK, NEW n \in Nodes, NEW i \in Slots
    PROVE  /\ i \in Used(n) <=> threads[n][i] \in Thread
           /\ i \notin Used(n) <=> threads[n][i] = NoThread
BY NoThreadIsNoThread DEF Used, ThreadsOK

(* The threads of the other processes. *)
Others(n) == \A m \in Nodes \ {n} : threads'[m] = threads[m]

(* stop() on the loops of w: the goroutines stay where they are, and the    *)
(* loops are not live any more.                                             *)
LEMMA CancelledSlot ==
    ASSUME NEW ts \in [Slots -> Thread \cup {NoThread}], NEW w, NEW i \in Slots
    PROVE  LET u == Cancelled(ts, w)[i] IN
           /\ ts[i] = NoThread => u = NoThread
           /\ ts[i] \in Thread =>
                 /\ u \in Thread
                 /\ u.from = ts[i].from /\ u.job = ts[i].job /\ u.at = ts[i].at
                 /\ ts[i].job.workflow # w => u.live = ts[i].live
                 /\ u.live => ts[i].live
                 /\ u.live /\ ts[i].from = "interval" => ts[i].job.workflow # w
<1>1. CASE ts[i] = NoThread
  BY <1>1, NoThreadIsNoThread DEF Cancelled
<1>2. CASE ts[i] \in Thread
  <2>1. ts[i] # NoThread
    BY <1>2, NoThreadIsNoThread
  <2>2. CASE ts[i].from = "interval" /\ ts[i].job.workflow = w
    <3>1. Cancelled(ts, w)[i] = [ts[i] EXCEPT !.live = FALSE]
      BY <2>1, <2>2 DEF Cancelled
    <3> QED BY <1>2, <2>1, <2>2, <3>1 DEF Thread
  <2>3. CASE ~(ts[i].from = "interval" /\ ts[i].job.workflow = w)
    <3>1. Cancelled(ts, w)[i] = ts[i]
      BY <2>1, <2>3 DEF Cancelled
    <3> QED BY <1>2, <2>1, <2>3, <3>1
  <2> QED BY <2>2, <2>3
<1> QED BY <1>1, <1>2

(* Slot i of process n after the loops of w were stopped. *)
StoppedSlot(n, i, w) ==
    /\ i \in Used(n)' <=> i \in Used(n)
    /\ i \in Used(n) =>
          /\ threads'[n][i].from = threads[n][i].from
          /\ threads'[n][i].job = threads[n][i].job
          /\ threads'[n][i].at = threads[n][i].at
    /\ Live(n, i)' <=> Live(n, i) /\ threads[n][i].job.workflow # w

(* Live loops are loops: no other goroutine is ever marked live. *)
LoopsOnly(n) == \A i \in Slots : Live(n, i) => threads[n][i].from = "interval"

LEMMA StoppedSlots ==
    ASSUME ThreadsOK, ThreadsOK', NEW n \in Nodes, LoopsOnly(n), NEW w, NEW i \in Slots,
           threads'[n][i] = Cancelled(threads[n], w)[i]
    PROVE  StoppedSlot(n, i, w)
<1>1. threads[n] \in [Slots -> Thread \cup {NoThread}]
  BY DEF ThreadsOK
<1>2. /\ i \in Used(n) <=> threads[n][i] \in Thread
      /\ i \notin Used(n) <=> threads[n][i] = NoThread
  BY UsedThreads
<1>3. i \in Used(n)' <=> threads'[n][i] # NoThread
  BY DEF Used
<1>4. CASE threads[n][i] = NoThread
  BY <1>1, <1>2, <1>3, <1>4, CancelledSlot DEF StoppedSlot, Live
<1>5. CASE threads[n][i] \in Thread
  <2> DEFINE t == threads[n][i]
             u == threads'[n][i]
  <2>1. /\ u \in Thread
        /\ u.from = t.from /\ u.job = t.job /\ u.at = t.at
        /\ t.job.workflow # w => u.live = t.live
        /\ u.live => t.live
        /\ u.live /\ t.from = "interval" => t.job.workflow # w
    BY <1>1, <1>5, CancelledSlot
  <2>2. i \in Used(n) /\ i \in Used(n)'
    BY <1>2, <1>3, <1>5, <2>1, NoThreadIsNoThread
  <2>3. t.live => t.from = "interval"
    BY <2>2 DEF LoopsOnly, Live
  <2>4. u.live <=> t.live /\ t.job.workflow # w
    <3>1. t.live \in BOOLEAN /\ u.live \in BOOLEAN
      BY <1>5, <2>1 DEF Thread
    <3> QED BY <2>1, <2>3, <3>1
  <2> QED BY <2>1, <2>2, <2>4 DEF StoppedSlot, Live
<1> QED BY <1>1, <1>4, <1>5 DEF ThreadsOK

LEMMA UnscheduleSlots ==
    ASSUME ThreadsOK, ThreadsOK', NEW n \in Nodes, LoopsOnly(n), NEW w, unscheduleLocked(n, w)
    PROVE  /\ Others(n) /\ \A m \in Nodes \ {n} : entries'[m] = entries[m]
           /\ entries'[n] = Without(entries[n], w)
           /\ \A i \in Slots : StoppedSlot(n, i, w)
<1>1. /\ Others(n) /\ \A m \in Nodes \ {n} : entries'[m] = entries[m]
      /\ entries'[n] = Without(entries[n], w)
      /\ threads'[n] = Cancelled(threads[n], w)
  BY DEF unscheduleLocked, Others, ThreadsOK
<1>2. \A i \in Slots : StoppedSlot(n, i, w)
  BY <1>1, StoppedSlots
<1> QED BY <1>1, <1>2

(* The slot of a goroutine that startJobLocked starts for c. *)
StartedSlot(n, i, c) ==
    /\ i \notin Used(n) /\ i \in Used(n)'
    /\ threads'[n][i].job = c
    /\ threads'[n][i].at # "executing"
    /\ Live(n, i)' <=> c.trigger = "interval"
    /\ Live(n, i)' => threads'[n][i].from = "interval"

LEMMA StartJobSlots ==
    ASSUME ThreadsOK, ThreadsOK', NEW n \in Nodes, LoopsOnly(n), NEW c \in Config,
           startJobLocked(n, c)
    PROVE  /\ Others(n) /\ \A m \in Nodes \ {n} : entries'[m] = entries[m]
           /\ entries'[n] = Without(entries[n], c.workflow) \cup {d \in {c} : d.trigger = "cron"}
           /\ \/ c.trigger # "interval" /\ \A i \in Slots : StoppedSlot(n, i, c.workflow)
              \/ \E s \in Slots : /\ StartedSlot(n, s, c)
                                  /\ \A i \in Slots \ {s} : StoppedSlot(n, i, c.workflow)
<1> DEFINE rest == Cancelled(threads[n], c.workflow)
<1>1. rest \in [Slots -> Thread \cup {NoThread}] /\ threads[n] \in [Slots -> Thread \cup {NoThread}]
  BY CancelledThreads DEF ThreadsOK
<1>2. /\ \A m \in Nodes \ {n} : entries'[m] = entries[m]
      /\ entries'[n] = Without(entries[n], c.workflow) \cup {d \in {c} : d.trigger = "cron"}
  BY DEF startJobLocked, ThreadsOK
<1>3. CASE NeedsThread(c)
  <2>1. FreeSlot(n) \in Slots /\ threads[n][FreeSlot(n)] = NoThread
    BY <1>3 DEF startJobLocked, HasRoom, FreeSlot
  <2>f. PICK s \in Slots : s = FreeSlot(n)
    BY <2>1
  <2>2. threads' = [threads EXCEPT ![n] = [rest EXCEPT ![s] = NewThread(c)]]
    BY <1>3, <2>f DEF startJobLocked
  <2>s. s \in Slots /\ threads[n][s] = NoThread
    BY <2>1, <2>f
  <2> HIDE DEF rest
  <2>3. Others(n)
    BY <2>2 DEF Others, ThreadsOK
  <2>4. threads'[n] = [rest EXCEPT ![s] = NewThread(c)]
    BY <2>2 DEF ThreadsOK
  <2>5. threads'[n][s] = NewThread(c) /\ \A i \in Slots \ {s} : threads'[n][i] = rest[i]
    BY <1>1, <2>4, <2>s
  <2>6. \A i \in Slots \ {s} : StoppedSlot(n, i, c.workflow)
    BY <2>5, StoppedSlots DEF rest
  <2>7. /\ NewThread(c) \in Thread /\ NewThread(c).job = c /\ NewThread(c).at # "executing"
        /\ NewThread(c).live <=> c.trigger = "interval"
        /\ NewThread(c).live => NewThread(c).from = "interval"
    BY NewThreadType DEF NewThread
  <2>8. StartedSlot(n, s, c)
    <3>1. s \notin Used(n) /\ s \in Used(n)'
      BY <2>s, <2>5, <2>7, NoThreadIsNoThread DEF Used
    <3>2. Live(n, s)' <=> NewThread(c).live
      BY <2>5, <3>1 DEF Live
    <3> QED BY <2>5, <2>7, <3>1, <3>2 DEF StartedSlot
  <2> QED BY <1>2, <2>s, <2>3, <2>6, <2>8
<1>4. CASE ~NeedsThread(c)
  <2>1. threads' = [threads EXCEPT ![n] = rest]
    BY <1>4 DEF startJobLocked
  <2> HIDE DEF rest
  <2>2. Others(n) /\ threads'[n] = rest
    BY <2>1 DEF Others, ThreadsOK
  <2>3. \A i \in Slots : StoppedSlot(n, i, c.workflow)
    BY <2>2, StoppedSlots DEF rest
  <2>4. c.trigger # "interval"
    BY <1>4 DEF NeedsThread
  <2> QED BY <1>2, <2>2, <2>3, <2>4
<1> QED BY <1>3, <1>4

-----------------------------------------------------------------------------
(* Slot i of process n is inside the workflow of an executeOnce for w. *)
Exec(n, i, w) == /\ i \in Used(n)
                 /\ threads[n][i].at = "executing"
                 /\ threads[n][i].job.workflow = w

(* What a process keeps true of its triggers.  A process that has not      *)
(* started has none; a trigger belongs to a registered schedule; only      *)
(* loops are live, one for a workflow; and while Start is at work or over, *)
(* the leader has a trigger for every schedule that it has dealt with.     *)
Begun == {"started", "stopping"}
HasTrigger(n, c) == c \in entries[n] \/ \E i \in Slots : Live(n, i) /\ threads[n][i].job = c

QuietOK(n) == /\ lockHeld[n] => proc[n] \in Begun
              /\ proc[n] \notin Begun => entries[n] = {} /\ todo[n] = {} /\ \A i \in Slots : i \notin Used(n)
              /\ todo[n] \subseteq jobs[n]
OwnedOK(n) == \A c \in Config : HasTrigger(n, c) => c \in jobs[n]
OneLoopOK(n) ==
    \A i, j \in Slots : Live(n, i) /\ Live(n, j)
       /\ threads[n][i].job.workflow = threads[n][j].job.workflow => i = j
CoveredOK(n) ==
    proc[n] = "started" /\ lockHeld[n] =>
        \A c \in jobs[n] : c \notin todo[n] /\ c.trigger # "badcron" => HasTrigger(n, c)
TriggersOK(n) == QuietOK(n) /\ OwnedOK(n) /\ LoopsOnly(n) /\ OneLoopOK(n) /\ CoveredOK(n)

(* Every schedule a process knows, runs or saves was offered to some process. *)
Offered == UNION {Offers[n] : n \in Nodes}
OfferOK(n) == /\ jobs[n] \subseteq Offered
              /\ \A i \in Slots : i \in Used(n) => threads[n][i].job \in Offered
FileOffered == file.state = "saved" => file.jobs \subseteq Offered

(* The flag of w is up only with a call inside; where nothing offered      *)
(* allows overlap, it is up with any call inside, and there is one at most.*)
FlagOK(n, w) ==
    /\ w \in running[n] => \E i \in Slots : Exec(n, i, w)
    /\ ~AllowsOverlap(w) =>
          /\ \A i \in Slots : Exec(n, i, w) => w \in running[n]
          /\ \A i, j \in Slots : Exec(n, i, w) /\ Exec(n, j, w) => i = j

FlagsOK(n) == \A w \in Workflows : FlagOK(n, w)

ProcOK(n) == TriggersOK(n) /\ OfferOK(n) /\ FlagsOK(n)

(* The inductive invariant of the triggers and the flags. *)
TriggerInv == (\A n \in Nodes : ProcOK(n)) /\ FileOffered

-----------------------------------------------------------------------------
(* A process that a step leaves alone. *)
Untouched(m) ==
    /\ proc'[m] = proc[m] /\ jobs'[m] = jobs[m] /\ todo'[m] = todo[m]
    /\ entries'[m] = entries[m] /\ threads'[m] = threads[m]
    /\ lockHeld'[m] = lockHeld[m] /\ running'[m] = running[m]

LEMMA SlotKept ==
    ASSUME NEW n \in Nodes, NEW i \in Slots, threads'[n][i] = threads[n][i]
    PROVE  /\ i \in Used(n)' <=> i \in Used(n)
           /\ Live(n, i)' <=> Live(n, i)
           /\ \A w \in Workflows : Exec(n, i, w)' <=> Exec(n, i, w)
<1>1. i \in Used(n)' <=> i \in Used(n)
  BY DEF Used
<1>2. Live(n, i)' <=> Live(n, i)
  BY <1>1 DEF Live
<1>3. \A w \in Workflows : Exec(n, i, w)' <=> Exec(n, i, w)
  BY <1>1 DEF Exec
<1> QED BY <1>1, <1>2, <1>3

(* Flags stay right when no call enters or leaves. *)
LEMMA SameExecKeepsFlags ==
    ASSUME NEW n \in Nodes, FlagsOK(n), running'[n] = running[n],
           \A i \in Slots, w \in Workflows : Exec(n, i, w)' <=> Exec(n, i, w)
    PROVE  FlagsOK(n)'
<1>1. ASSUME NEW w \in Workflows PROVE FlagOK(n, w)'
  <2>1. FlagOK(n, w)
    BY DEF FlagsOK
  <2>2. AllowsOverlap(w)' <=> AllowsOverlap(w)
    BY DEF AllowsOverlap
  <2> QED BY <2>1, <2>2 DEF FlagOK
<1> QED BY <1>1 DEF FlagsOK

(* Triggers stay right when live loops stay, or end as the process stops.  *)
LoopsStay(n) ==
    \A i \in Slots :
       /\ Live(n, i)' => /\ Live(n, i)
                         /\ threads'[n][i].job = threads[n][i].job
                         /\ threads'[n][i].from = threads[n][i].from
       /\ proc'[n] = "started" /\ Live(n, i) => Live(n, i)'

LEMMA LoopsStayKeepsTriggers ==
    ASSUME NEW n \in Nodes, TriggersOK(n), LoopsStay(n),
           proc'[n] = proc[n] \/ (proc[n] = "started" /\ proc'[n] = "stopping"),
           jobs'[n] = jobs[n], todo'[n] = todo[n], entries'[n] = entries[n],
           lockHeld'[n] => lockHeld[n],
           proc'[n] \notin Begun => \A i \in Slots : i \notin Used(n)'
    PROVE  TriggersOK(n)'
<1> USE DEF TriggersOK
<1>1. QuietOK(n)'
  BY DEF QuietOK, Begun
<1>2. ASSUME NEW c \in Config, HasTrigger(n, c)' PROVE HasTrigger(n, c)
  BY <1>2 DEF HasTrigger, LoopsStay
<1>3. OwnedOK(n)'
  BY <1>2 DEF OwnedOK
<1>4. LoopsOnly(n)'
  BY DEF LoopsOnly, LoopsStay
<1>5. OneLoopOK(n)'
  BY DEF OneLoopOK, LoopsStay
<1>6. ASSUME proc'[n] = "started", NEW c, HasTrigger(n, c) PROVE HasTrigger(n, c)'
  BY <1>6 DEF HasTrigger, LoopsStay
<1>7. CoveredOK(n)'
  <2>1. proc'[n] = "started" /\ lockHeld'[n] => proc[n] = "started" /\ lockHeld[n]
    OBVIOUS
  <2> QED BY <1>6, <2>1 DEF CoveredOK
<1> QED BY <1>1, <1>3, <1>4, <1>5, <1>7

LEMMA UntouchedKeeps ==
    ASSUME NEW n \in Nodes, ProcOK(n), Untouched(n)
    PROVE  ProcOK(n)'
<1>1. \A i \in Slots : threads'[n][i] = threads[n][i]
  BY DEF Untouched
<1>2. \A i \in Slots : /\ i \in Used(n)' <=> i \in Used(n)
                       /\ Live(n, i)' <=> Live(n, i)
                       /\ \A w \in Workflows : Exec(n, i, w)' <=> Exec(n, i, w)
  BY <1>1, SlotKept
<1>3. LoopsStay(n)
  BY <1>1, <1>2 DEF LoopsStay
<1>4. TriggersOK(n)'
  <2>1. proc'[n] \notin Begun => \A i \in Slots : i \notin Used(n)'
    BY <1>2 DEF ProcOK, TriggersOK, QuietOK, Untouched
  <2> QED BY <1>3, <2>1, LoopsStayKeepsTriggers DEF ProcOK, Untouched
<1>5. OfferOK(n)'
  BY <1>1, <1>2 DEF ProcOK, OfferOK, Untouched, Offered
<1>6. FlagsOK(n)'
  BY <1>2, SameExecKeepsFlags DEF ProcOK, Untouched
<1> QED BY <1>4, <1>5, <1>6 DEF ProcOK

-----------------------------------------------------------------------------
(* The steps of goroutines: one slot of one process changes. *)
OtherSlots(n, s) == \A i \in Slots : i # s => threads'[n][i] = threads[n][i]

OthersUntouched(n) == \A m \in Nodes : m # n => Untouched(m)

(* What a step of slot s leaves of its loop and of its schedule. *)
SlotStays(n, s) ==
    /\ Live(n, s)' => /\ Live(n, s)
                      /\ threads'[n][s].job = threads[n][s].job
                      /\ threads'[n][s].from = threads[n][s].from
    /\ proc[n] = "started" /\ Live(n, s) => Live(n, s)'
    /\ s \in Used(n)' => threads'[n][s].job \in Offered

LEMMA SlotUpdate ==
    ASSUME ThreadsOK, NEW n \in Nodes, NEW s \in Slots, NEW t \in Thread \cup {NoThread},
           threads' = [threads EXCEPT ![n][s] = t]
    PROVE  Others(n) /\ OtherSlots(n, s) /\ threads'[n][s] = t
BY DEF ThreadsOK, Others, OtherSlots

(* Triggers and schedules, for every step of a goroutine. *)
LEMMA SlotStepKeeps ==
    ASSUME NEW n \in Nodes, ProcOK(n), NEW s \in Slots, OtherSlots(n, s), SlotStays(n, s),
           proc[n] \in Begun, UNCHANGED threadFrame
    PROVE  TriggersOK(n)' /\ OfferOK(n)'
<1>1. \A i \in Slots : i # s => /\ threads'[n][i] = threads[n][i]
                                /\ i \in Used(n)' <=> i \in Used(n)
                                /\ Live(n, i)' <=> Live(n, i)
  BY SlotKept DEF OtherSlots
<1>2. LoopsStay(n)
  BY <1>1 DEF LoopsStay, SlotStays, threadFrame
<1>3. TriggersOK(n)'
  BY <1>2, LoopsStayKeepsTriggers DEF threadFrame, ProcOK
<1>4. OfferOK(n)'
  BY <1>1 DEF OfferOK, ProcOK, SlotStays, Offered, threadFrame
<1> QED BY <1>3, <1>4

(* Flags, for a step of a goroutine that is not inside before or after. *)
LEMMA OutsideKeepsFlags ==
    ASSUME NEW n \in Nodes, ProcOK(n), NEW s \in Slots, OtherSlots(n, s),
           \A w \in Workflows : ~Exec(n, s, w) /\ ~Exec(n, s, w)', running' = running
    PROVE  FlagsOK(n)'
<1>1. \A i \in Slots, w \in Workflows : Exec(n, i, w)' <=> Exec(n, i, w)
  <2>1. ASSUME NEW i \in Slots, i # s PROVE \A w \in Workflows : Exec(n, i, w)' <=> Exec(n, i, w)
    BY <2>1, SlotKept DEF OtherSlots
  <2> QED BY <2>1
<1> QED BY <1>1, SameExecKeepsFlags DEF ProcOK

(* A process whose goroutines or engine do anything has started. *)
LEMMA BusyHasBegun ==
    ASSUME NEW n \in Nodes, ProcOK(n), (\E i \in Slots : i \in Used(n)) \/ entries[n] # {}
    PROVE  proc[n] \in Begun
BY DEF ProcOK, TriggersOK, QuietOK

LEMMA FrameUntouched ==
    ASSUME RestOK, RestOK', NEW n \in Nodes, Others(n), UNCHANGED threadFrame,
           \A m \in Nodes : m # n => running'[m] = running[m]
    PROVE  OthersUntouched(n) /\ (FileOffered => FileOffered')
BY DEF OthersUntouched, Untouched, Others, threadFrame, FileOffered, Offered

(* The engine calls executeOnce for one of its entries. *)
LEMMA CronFiresKeepsTriggers ==
    ASSUME SchedInv, SchedInv', TriggerInv, NEW n \in Nodes, NEW c \in entries[n], CronFires(n, c)
    PROVE  ProcOK(n)' /\ FileOffered' /\ OthersUntouched(n)
<1>0. ThreadsOK /\ RestOK /\ RestOK' /\ ProcOK(n) /\ FileOffered /\ LoopsOnly(n)
  BY DEF SchedInv, TriggerInv, ProcOK, TriggersOK
<1>1. c \in Config
  BY <1>0 DEF ThreadsOK
<1>2. FreeSlot(n) \in Slots /\ threads[n][FreeSlot(n)] = NoThread
  BY DEF CronFires, HasRoom, FreeSlot
<1>3. PICK s \in Slots : s = FreeSlot(n)
  BY <1>2
<1> DEFINE t == [from |-> "cron", job |-> c, live |-> FALSE, at |-> "calling"]
<1>4. t \in Thread /\ t.live = FALSE /\ t.at = "calling" /\ t.job = c
  BY <1>1 DEF Thread
<1>5. threads' = [threads EXCEPT ![n][s] = t]
  BY <1>3 DEF CronFires
<1> HIDE DEF t
<1>6. Others(n) /\ OtherSlots(n, s) /\ threads'[n][s] = t
  BY <1>0, <1>4, <1>5, SlotUpdate
<1>7. s \notin Used(n) /\ threads'[n][s].live = FALSE /\ threads'[n][s].at = "calling" /\ threads'[n][s].job = c
  BY <1>2, <1>3, <1>4, <1>6 DEF Used
<1>8. c \in Offered
  BY <1>0, <1>1 DEF ProcOK, OfferOK, TriggersOK, OwnedOK, HasTrigger
<1>9. SlotStays(n, s)
  BY <1>7, <1>8 DEF SlotStays, Live
<1>10. \A w \in Workflows : ~Exec(n, s, w) /\ ~Exec(n, s, w)'
  BY <1>7 DEF Exec
<1>11. UNCHANGED threadFrame /\ running' = running
  BY DEF CronFires
<1>12. proc[n] \in Begun
  BY <1>0, BusyHasBegun
<1>13. TriggersOK(n)' /\ OfferOK(n)'
  BY <1>0, <1>6, <1>9, <1>11, <1>12, SlotStepKeeps
<1>14. FlagsOK(n)'
  BY <1>0, <1>6, <1>10, <1>11, OutsideKeepsFlags
<1>15. OthersUntouched(n) /\ FileOffered'
  BY <1>0, <1>6, <1>11, FrameUntouched
<1> QED BY <1>13, <1>14, <1>15 DEF ProcOK

(* A goroutine that returns keeps its loop, or was not one. *)
LEMMA ReturnedSlot ==
    ASSUME ThreadsOK, NEW n \in Nodes, ProcOK(n), NEW s \in Slots, s \in Used(n),
           threads'[n][s] = Returned(threads[n][s])
    PROVE  SlotStays(n, s) /\ \A w \in Workflows : ~Exec(n, s, w)'
<1> DEFINE t == threads[n][s]
<1>1. t \in Thread
  BY UsedThreads
<1>2. t.job \in Offered /\ (t.live => t.from = "interval")
  BY DEF ProcOK, OfferOK, TriggersOK, LoopsOnly, Live
<1>3. CASE t.from = "interval"
  <2>1. Returned(t) = [t EXCEPT !.at = "waiting"]
    BY <1>3 DEF Returned
  <2>2. /\ Returned(t) \in Thread /\ Returned(t).job = t.job /\ Returned(t).from = t.from
        /\ Returned(t).at = "waiting" /\ Returned(t).live = t.live
    BY <1>1, <2>1 DEF Thread
  <2>3. s \in Used(n)'
    BY <2>2, NoThreadIsNoThread DEF Used
  <2>4. Live(n, s)' <=> Live(n, s)
    BY <2>2, <2>3 DEF Live
  <2>5. SlotStays(n, s)
    BY <1>2, <2>2, <2>3, <2>4 DEF SlotStays
  <2>6. \A w \in Workflows : ~Exec(n, s, w)'
    BY <2>2 DEF Exec
  <2> QED BY <2>5, <2>6
<1>4. CASE t.from # "interval"
  <2>1. s \notin Used(n)'
    BY <1>4 DEF Returned, Used
  <2>2. ~Live(n, s)
    BY <1>2, <1>4 DEF Live
  <2> QED BY <2>1, <2>2 DEF SlotStays, Live, Exec
<1> QED BY <1>3, <1>4

LEMMA SkipKeepsTriggers ==
    ASSUME SchedInv, SchedInv', TriggerInv, NEW n \in Nodes, NEW s \in Slots, Skip(n, s)
    PROVE  ProcOK(n)' /\ FileOffered' /\ OthersUntouched(n)
<1>0. ThreadsOK /\ RestOK /\ RestOK' /\ ProcOK(n) /\ FileOffered
  BY DEF SchedInv, TriggerInv
<1>1. s \in Used(n) /\ threads[n][s].at = "calling" /\ UNCHANGED threadFrame /\ running' = running
  BY DEF Skip
<1>2. threads[n][s] \in Thread
  BY <1>0, <1>1, UsedThreads
<1>3. Returned(threads[n][s]) \in Thread \cup {NoThread}
  BY <1>2, ReturnedThread
<1>4. threads' = [threads EXCEPT ![n][s] = Returned(threads[n][s])]
  BY <1>0 DEF Skip, ThreadsOK
<1>5. Others(n) /\ OtherSlots(n, s) /\ threads'[n][s] = Returned(threads[n][s])
  BY <1>0, <1>3, <1>4 DEF ThreadsOK, Others, OtherSlots
<1>6. SlotStays(n, s) /\ \A w \in Workflows : ~Exec(n, s, w)'
  BY <1>0, <1>1, <1>5, ReturnedSlot
<1>7. \A w \in Workflows : ~Exec(n, s, w)
  BY <1>1 DEF Exec
<1>8. proc[n] \in Begun
  BY <1>0, <1>1, BusyHasBegun
<1>9. TriggersOK(n)' /\ OfferOK(n)'
  BY <1>0, <1>1, <1>5, <1>6, <1>8, SlotStepKeeps
<1>10. FlagsOK(n)'
  BY <1>0, <1>1, <1>5, <1>6, <1>7, OutsideKeepsFlags
<1>11. OthersUntouched(n) /\ FileOffered'
  BY <1>0, <1>1, <1>5, FrameUntouched
<1> QED BY <1>9, <1>10, <1>11 DEF ProcOK

(* A loop ends when it was replaced or when the process stops. *)
LEMMA LoopExitKeepsTriggers ==
    ASSUME SchedInv, SchedInv', TriggerInv, NEW n \in Nodes, NEW s \in Slots, LoopExits(n, s)
    PROVE  ProcOK(n)' /\ FileOffered' /\ OthersUntouched(n)
<1>0. ThreadsOK /\ RestOK /\ RestOK' /\ ProcOK(n) /\ FileOffered
  BY DEF SchedInv, TriggerInv
<1>1. /\ s \in Used(n) /\ threads[n][s].at = "waiting" /\ UNCHANGED threadFrame /\ running' = running
      /\ ~threads[n][s].live \/ proc[n] = "stopping"
      /\ threads' = [threads EXCEPT ![n][s] = NoThread]
  BY DEF LoopExits
<1>2. Others(n) /\ OtherSlots(n, s) /\ threads'[n][s] = NoThread
  BY <1>0, <1>1, SlotUpdate
<1>3. s \notin Used(n)'
  BY <1>2 DEF Used
<1>4. SlotStays(n, s) /\ \A w \in Workflows : ~Exec(n, s, w) /\ ~Exec(n, s, w)'
  BY <1>1, <1>3 DEF SlotStays, Live, Exec
<1>5. proc[n] \in Begun
  BY <1>0, <1>1, BusyHasBegun
<1>6. TriggersOK(n)' /\ OfferOK(n)'
  BY <1>0, <1>1, <1>2, <1>4, <1>5, SlotStepKeeps
<1>7. FlagsOK(n)'
  BY <1>0, <1>1, <1>2, <1>4, OutsideKeepsFlags
<1>8. OthersUntouched(n) /\ FileOffered'
  BY <1>0, <1>1, <1>2, FrameUntouched
<1> QED BY <1>6, <1>7, <1>8 DEF ProcOK

(* executeOnce takes the mutex and goes in: where overlap is not allowed,  *)
(* it found the flag down, and so nobody inside.                           *)
LEMMA BeginKeepsTriggers ==
    ASSUME SchedInv, SchedInv', TriggerInv, NEW n \in Nodes, NEW s \in Slots, Begin(n, s)
    PROVE  ProcOK(n)' /\ FileOffered' /\ OthersUntouched(n)
<1> DEFINE t == threads[n][s]
           c == t.job
           v == c.workflow
<1>0. ThreadsOK /\ RestOK /\ RestOK' /\ ProcOK(n) /\ FileOffered
  BY DEF SchedInv, TriggerInv
<1>1. /\ s \in Used(n) /\ t.at # "executing" /\ MayBegin(n, c) /\ UNCHANGED threadFrame
      /\ running' = [running EXCEPT ![n] = @ \cup {v}]
      /\ threads' = [threads EXCEPT ![n][s].at = "executing"]
  BY DEF Begin
<1>2. t \in Thread
  BY <1>0, <1>1, UsedThreads
<1>3. /\ Others(n) /\ OtherSlots(n, s)
      /\ threads'[n][s] = [t EXCEPT !.at = "executing"]
  BY <1>0, <1>1 DEF ThreadsOK, Others, OtherSlots
<1>4. /\ threads'[n][s] \in Thread /\ threads'[n][s].at = "executing"
      /\ threads'[n][s].job = t.job /\ threads'[n][s].from = t.from /\ threads'[n][s].live = t.live
  BY <1>2, <1>3 DEF Thread
<1>5. s \in Used(n)'
  BY <1>4, NoThreadIsNoThread DEF Used
<1>6. Live(n, s)' <=> Live(n, s)
  BY <1>1, <1>4, <1>5 DEF Live
<1>7. c \in Offered
  BY <1>0, <1>1 DEF ProcOK, OfferOK
<1>8. SlotStays(n, s)
  BY <1>4, <1>6, <1>7 DEF SlotStays
<1>9. proc[n] \in Begun
  BY <1>0, <1>1, BusyHasBegun
<1>10. TriggersOK(n)' /\ OfferOK(n)'
  BY <1>0, <1>1, <1>3, <1>8, <1>9, SlotStepKeeps
<1>11. c.allowOverlap => AllowsOverlap(v)
  BY <1>7 DEF Offered, AllowsOverlap
<1>12. running'[n] = running[n] \cup {v}
  BY <1>0, <1>1 DEF RestOK
<1>13. ASSUME NEW w \in Workflows PROVE FlagOK(n, w)'
  <2>1. FlagOK(n, w)
    BY <1>0 DEF ProcOK, FlagsOK
  <2>2. \A i \in Slots : i # s => (Exec(n, i, w)' <=> Exec(n, i, w))
    BY <1>3, SlotKept DEF OtherSlots
  <2>3. /\ ~Exec(n, s, w)
        /\ Exec(n, s, w)' <=> v = w
    BY <1>1, <1>4, <1>5 DEF Exec
  <2>4. AllowsOverlap(w)' <=> AllowsOverlap(w)
    BY DEF AllowsOverlap
  <2>5. CASE v # w
    <3>1. w \in running'[n] <=> w \in running[n]
      BY <1>12, <2>5
    <3>2. \A i \in Slots : Exec(n, i, w)' <=> Exec(n, i, w)
      BY <2>2, <2>3, <2>5
    <3> HIDE DEF t, c, v
    <3> QED BY <2>1, <2>4, <3>1, <3>2 DEF FlagOK
  <2>6. CASE v = w
    <3>1. w \in running'[n]
      BY <1>12, <2>6
    <3>2. ~AllowsOverlap(w) => w \notin running[n]
      BY <1>1, <1>11, <2>6 DEF MayBegin
    <3>3. Exec(n, s, w)'
      BY <2>3, <2>6
    <3> HIDE DEF t, c, v
    <3>4. ~AllowsOverlap(w) => \A i \in Slots : ~Exec(n, i, w)
      BY <2>1, <3>2 DEF FlagOK
    <3>5. ~AllowsOverlap(w) => \A i \in Slots : Exec(n, i, w)' => i = s
      BY <2>2, <3>4
    <3>6. ~AllowsOverlap(w) => \A i, j \in Slots : Exec(n, i, w)' /\ Exec(n, j, w)' => i = j
      BY <3>5
    <3> QED BY <2>4, <3>1, <3>3, <3>6 DEF FlagOK
  <2> QED BY <2>5, <2>6
<1>14. FlagsOK(n)'
  BY <1>13 DEF FlagsOK
<1>15. \A m \in Nodes : m # n => running'[m] = running[m]
  BY <1>0, <1>1 DEF RestOK
<1>16. OthersUntouched(n) /\ FileOffered'
  BY <1>0, <1>1, <1>3, <1>15, FrameUntouched
<1> QED BY <1>10, <1>14, <1>16 DEF ProcOK

(* The deferred function lowers the flag: where overlap is not allowed,    *)
(* it was the only call inside.                                            *)
LEMMA EndKeepsTriggers ==
    ASSUME SchedInv, SchedInv', TriggerInv, NEW n \in Nodes, NEW s \in Slots, EndExecution(n, s)
    PROVE  ProcOK(n)' /\ FileOffered' /\ OthersUntouched(n)
<1> DEFINE t == threads[n][s]
           v == t.job.workflow
<1>0. ThreadsOK /\ RestOK /\ RestOK' /\ ProcOK(n) /\ FileOffered
  BY DEF SchedInv, TriggerInv
<1>1. /\ s \in Used(n) /\ t.at = "executing" /\ UNCHANGED threadFrame
      /\ running' = [running EXCEPT ![n] = @ \ {v}]
  BY DEF EndExecution
<1>2. t \in Thread
  BY <1>0, <1>1, UsedThreads
<1>3. Returned(t) \in Thread \cup {NoThread}
  BY <1>2, ReturnedThread
<1>4. threads' = [threads EXCEPT ![n][s] = Returned(t)]
  BY <1>0 DEF EndExecution, ThreadsOK
<1>5. Others(n) /\ OtherSlots(n, s) /\ threads'[n][s] = Returned(t)
  BY <1>0, <1>3, <1>4 DEF ThreadsOK, Others, OtherSlots
<1>6. SlotStays(n, s) /\ \A w \in Workflows : ~Exec(n, s, w)'
  BY <1>0, <1>1, <1>5, ReturnedSlot
<1>7. proc[n] \in Begun
  BY <1>0, <1>1, BusyHasBegun
<1>8. TriggersOK(n)' /\ OfferOK(n)'
  BY <1>0, <1>1, <1>5, <1>6, <1>7, SlotStepKeeps
<1>9. running'[n] = running[n] \ {v}
  BY <1>0, <1>1 DEF RestOK
<1>10. ASSUME NEW w \in Workflows PROVE FlagOK(n, w)'
  <2>1. FlagOK(n, w)
    BY <1>0 DEF ProcOK, FlagsOK
  <2>2. \A i \in Slots : i # s => (Exec(n, i, w)' <=> Exec(n, i, w))
    BY <1>5, SlotKept DEF OtherSlots
  <2>3. ~Exec(n, s, w)' /\ (Exec(n, s, w) <=> v = w)
    BY <1>1, <1>6 DEF Exec
  <2>4. AllowsOverlap(w)' <=> AllowsOverlap(w)
    BY DEF AllowsOverlap
  <2>5. CASE v # w
    <3>1. w \in running'[n] <=> w \in running[n]
      BY <1>9, <2>5
    <3>2. \A i \in Slots : Exec(n, i, w)' <=> Exec(n, i, w)
      BY <2>2, <2>3, <2>5
    <3> HIDE DEF t, v
    <3> QED BY <2>1, <2>4, <3>1, <3>2 DEF FlagOK
  <2>6. CASE v = w
    <3>1. w \notin running'[n]
      BY <1>9, <2>6
    <3>2. Exec(n, s, w)
      BY <2>3, <2>6
    <3> HIDE DEF t, v
    <3>3. ~AllowsOverlap(w) => \A i \in Slots : Exec(n, i, w) => i = s
      BY <2>1, <3>2 DEF FlagOK
    <3>4. ~AllowsOverlap(w) => \A i \in Slots : ~Exec(n, i, w)'
      BY <2>2, <2>3, <3>3
    <3> QED BY <2>4, <3>1, <3>4 DEF FlagOK
  <2> QED BY <2>5, <2>6
<1>11. FlagsOK(n)'
  BY <1>10 DEF FlagsOK
<1>12. \A m \in Nodes : m # n => running'[m] = running[m]
  BY <1>0, <1>1 DEF RestOK
<1>13. OthersUntouched(n) /\ FileOffered'
  BY <1>0, <1>1, <1>5, <1>12, FrameUntouched
<1> QED BY <1>8, <1>11, <1>13 DEF ProcOK

LEMMA ThreadStepKeepsTriggers ==
    ASSUME SchedInv, SchedInv', TriggerInv, NEW n \in Nodes, ThreadStep(n)
    PROVE  ProcOK(n)' /\ FileOffered' /\ OthersUntouched(n)
BY CronFiresKeepsTriggers, BeginKeepsTriggers, SkipKeepsTriggers, EndKeepsTriggers,
   LoopExitKeepsTriggers DEF ThreadStep, ExecuteEnqueues, ExecuteFails

-----------------------------------------------------------------------------
(* The calls of the service. *)

(* Stopped and started goroutines are not inside, and run offered schedules. *)
LEMMA StoppedSlotExec ==
    ASSUME NEW n \in Nodes, NEW i \in Slots, NEW w, StoppedSlot(n, i, w)
    PROVE  \A v \in Workflows : Exec(n, i, v)' <=> Exec(n, i, v)
BY DEF StoppedSlot, Exec

LEMMA StartedSlotExec ==
    ASSUME NEW n \in Nodes, NEW i \in Slots, NEW c, StartedSlot(n, i, c)
    PROVE  \A v \in Workflows : Exec(n, i, v)' <=> Exec(n, i, v)
BY DEF StartedSlot, Exec

(* Unregister: the workflow's trigger goes with its schedule. *)
LEMMA StoppedKeepsTriggers ==
    ASSUME NEW n \in Nodes, ProcOK(n), NEW w,
           \A i \in Slots : StoppedSlot(n, i, w),
           entries'[n] = Without(entries[n], w), jobs'[n] = Without(jobs[n], w),
           jobs[n] \subseteq Config,
           proc'[n] = proc[n], lockHeld'[n] = lockHeld[n], todo'[n] = {}, todo[n] = {},
           proc[n] \in Begun
    PROVE  TriggersOK(n)'
<1>0. TriggersOK(n)
  BY DEF ProcOK
<1>1. QuietOK(n)'
  BY <1>0 DEF TriggersOK, QuietOK
<1>2. \A i \in Slots : /\ Live(n, i)' => /\ Live(n, i) /\ threads[n][i].job.workflow # w
                                         /\ threads'[n][i].job = threads[n][i].job
                                         /\ threads'[n][i].from = threads[n][i].from
                       /\ Live(n, i) /\ threads[n][i].job.workflow # w =>
                             Live(n, i)' /\ threads'[n][i].job = threads[n][i].job
  BY DEF StoppedSlot, Live
<1>3. \A c \in Config : HasTrigger(n, c)' <=> HasTrigger(n, c) /\ c.workflow # w
  BY <1>2 DEF HasTrigger, Without
<1>4. OwnedOK(n)'
  BY <1>0, <1>3 DEF OwnedOK, TriggersOK, Without
<1>5. LoopsOnly(n)'
  BY <1>0, <1>2 DEF LoopsOnly, TriggersOK
<1>6. OneLoopOK(n)'
  BY <1>0, <1>2 DEF OneLoopOK, TriggersOK
<1>7. CoveredOK(n)'
  BY <1>0, <1>3 DEF CoveredOK, TriggersOK, Without
<1> QED BY <1>1, <1>4, <1>5, <1>6, <1>7 DEF TriggersOK

(* Register and the loop of Start: the schedule gets its own trigger, and  *)
(* the other workflows keep theirs.                                        *)
StartEffect(n, c) ==
    \/ c.trigger # "interval" /\ \A i \in Slots : StoppedSlot(n, i, c.workflow)
    \/ \E s \in Slots : /\ StartedSlot(n, s, c)
                        /\ \A i \in Slots \ {s} : StoppedSlot(n, i, c.workflow)

LEMMA StartedKeepsTriggers ==
    ASSUME NEW n \in Nodes, ProcOK(n), NEW c \in Config, StartEffect(n, c),
           entries'[n] = Without(entries[n], c.workflow) \cup {d \in {c} : d.trigger = "cron"},
           jobs'[n] = Without(jobs[n], c.workflow) \cup {c},
           jobs[n] \subseteq Config, entries[n] \subseteq Config,
           proc'[n] = proc[n], lockHeld'[n] = lockHeld[n], todo'[n] = todo[n] \ {c},
           todo'[n] \subseteq jobs'[n], proc[n] \in Begun
    PROVE  TriggersOK(n)'
<1>0. TriggersOK(n)
  BY DEF ProcOK
<1>1. QuietOK(n)'
  BY <1>0 DEF TriggersOK, QuietOK
<1>2. \A i \in Slots : Live(n, i)' =>
        /\ threads'[n][i].from = "interval"
        /\ \/ threads'[n][i].job = c /\ c.trigger = "interval" /\ StartedSlot(n, i, c)
           \/ /\ Live(n, i) /\ threads[n][i].job.workflow # c.workflow
              /\ threads'[n][i].job = threads[n][i].job
  BY <1>0 DEF StartEffect, StartedSlot, StoppedSlot, Live, TriggersOK, LoopsOnly
<1>3. \A i \in Slots : Live(n, i) /\ threads[n][i].job.workflow # c.workflow =>
                            Live(n, i)' /\ threads'[n][i].job = threads[n][i].job
  BY DEF StartEffect, StartedSlot, StoppedSlot, Live
<1>4. c.trigger = "interval" => \E i \in Slots : Live(n, i)' /\ threads'[n][i].job = c
  BY DEF StartEffect, StartedSlot
<1>5. \A d \in Config : HasTrigger(n, d)' => d = c \/ (HasTrigger(n, d) /\ d.workflow # c.workflow)
  BY <1>2 DEF HasTrigger, Without
<1>6. \A d \in Config : HasTrigger(n, d) /\ d.workflow # c.workflow => HasTrigger(n, d)'
  BY <1>3 DEF HasTrigger, Without
<1>7. c.trigger # "badcron" => HasTrigger(n, c)'
  <2>1. c.trigger \in {"interval", "cron", "badcron"}
    BY DEF Config
  <2> QED BY <1>4, <2>1 DEF HasTrigger
<1>8. OwnedOK(n)'
  BY <1>0, <1>5 DEF OwnedOK, TriggersOK, Without
<1>9. LoopsOnly(n)'
  BY <1>2 DEF LoopsOnly
<1>10. OneLoopOK(n)'
  <2>1. \A i, j \in Slots : StartedSlot(n, i, c) /\ StartedSlot(n, j, c) => i = j
    BY DEF StartEffect, StartedSlot, StoppedSlot
  <2> QED BY <1>0, <1>2, <2>1 DEF OneLoopOK, TriggersOK
<1>11. CoveredOK(n)'
  <2>1. ASSUME proc'[n] = "started" /\ lockHeld'[n], NEW d \in jobs'[n], d \notin todo'[n],
               d.trigger # "badcron"
        PROVE  HasTrigger(n, d)'
    <3>1. CASE d = c
      BY <1>7, <2>1, <3>1
    <3>2. CASE d # c
      <4>1. d \in jobs[n] /\ d.workflow # c.workflow /\ d \notin todo[n] /\ d \in Config
        BY <2>1, <3>2 DEF Without
      <4>2. HasTrigger(n, d)
        BY <1>0, <2>1, <4>1 DEF CoveredOK, TriggersOK
      <4> QED BY <1>6, <4>1, <4>2
    <3> QED BY <3>1, <3>2
  <2> QED BY <2>1 DEF CoveredOK
<1> QED BY <1>1, <1>8, <1>9, <1>10, <1>11 DEF TriggersOK

(* The flags and the schedules of goroutines, when loops are stopped or started. *)
LEMMA StartEffectKeepsRest ==
    ASSUME NEW n \in Nodes, ProcOK(n), NEW c \in Offered, StartEffect(n, c),
           jobs'[n] \subseteq jobs[n] \cup {c}, running'[n] = running[n]
    PROVE  OfferOK(n)' /\ FlagsOK(n)'
<1>1. \A i \in Slots, v \in Workflows : Exec(n, i, v)' <=> Exec(n, i, v)
  <2>1. ASSUME NEW i \in Slots
        PROVE  StoppedSlot(n, i, c.workflow) \/ StartedSlot(n, i, c)
    BY DEF StartEffect
  <2>2. ASSUME NEW i \in Slots
        PROVE  \A v \in Workflows : Exec(n, i, v)' <=> Exec(n, i, v)
    <3>1. CASE StoppedSlot(n, i, c.workflow)
      <4> DEFINE w == c.workflow
      <4>1. StoppedSlot(n, i, w)
        BY <3>1
      <4> HIDE DEF w
      <4> QED BY <4>1, StoppedSlotExec
    <3>2. CASE StartedSlot(n, i, c)
      BY <3>2, StartedSlotExec
    <3> QED BY <2>1, <3>1, <3>2
  <2> QED BY <2>2
<1>2. FlagsOK(n)'
  BY <1>1, SameExecKeepsFlags DEF ProcOK
<1>3. OfferOK(n)'
  <2>1. \A i \in Slots : i \in Used(n)' => \/ threads'[n][i].job = c
                                           \/ i \in Used(n) /\ threads'[n][i].job = threads[n][i].job
    BY DEF StartEffect, StoppedSlot, StartedSlot
  <2>2. \A i \in Slots : i \in Used(n)' => threads'[n][i].job \in Offered
    BY <2>1 DEF ProcOK, OfferOK
  <2>3. jobs'[n] \subseteq Offered
    BY DEF ProcOK, OfferOK
  <2> QED BY <2>2, <2>3 DEF OfferOK, Offered
<1> QED BY <1>2, <1>3

LEMMA StoppedKeepsRest ==
    ASSUME NEW n \in Nodes, ProcOK(n), NEW w, \A i \in Slots : StoppedSlot(n, i, w),
           jobs'[n] \subseteq Offered, running'[n] = running[n]
    PROVE  OfferOK(n)' /\ FlagsOK(n)'
<1>1. \A i \in Slots, v \in Workflows : Exec(n, i, v)' <=> Exec(n, i, v)
  BY StoppedSlotExec
<1>2. FlagsOK(n)'
  BY <1>1, SameExecKeepsFlags DEF ProcOK
<1>3. OfferOK(n)'
  BY DEF OfferOK, StoppedSlot, ProcOK, Offered
<1> QED BY <1>2, <1>3

(* A process without goroutines or entries, before Start or at its start. *)
LEMMA EmptyKeeps ==
    ASSUME NEW n \in Nodes,
           \A i \in Slots : i \notin Used(n)', entries'[n] = {}, running'[n] = {},
           todo'[n] \subseteq jobs'[n], jobs'[n] \subseteq Offered,
           lockHeld'[n] => proc'[n] \in Begun /\ todo'[n] = jobs'[n],
           proc'[n] \notin Begun => todo'[n] = {}
    PROVE  ProcOK(n)'
<1>1. \A i \in Slots : ~Live(n, i)' /\ \A w \in Workflows : ~Exec(n, i, w)'
  BY DEF Live, Exec
<1>2. \A c \in Config : ~HasTrigger(n, c)'
  BY <1>1 DEF HasTrigger
<1>3. QuietOK(n)'
  BY DEF QuietOK
<1>4. OwnedOK(n)' /\ LoopsOnly(n)' /\ OneLoopOK(n)'
  BY <1>1, <1>2 DEF OwnedOK, LoopsOnly, OneLoopOK
<1>5. CoveredOK(n)'
  BY DEF CoveredOK
<1>6. OfferOK(n)'
  BY DEF OfferOK, Offered
<1>7. FlagsOK(n)'
  BY <1>1 DEF FlagsOK, FlagOK
<1> QED BY <1>3, <1>4, <1>5, <1>6, <1>7 DEF ProcOK, TriggersOK

(* The flags of a process without goroutines are down. *)
LEMMA NoThreadsNoFlags ==
    ASSUME RestOK, NEW n \in Nodes, ProcOK(n), \A i \in Slots : i \notin Used(n)
    PROVE  running[n] = {}
BY DEF RestOK, ProcOK, FlagsOK, FlagOK, Exec

-----------------------------------------------------------------------------
(* The file holds only schedules that were offered, saved or not. *)
LEMMA PersistKeepsOffered ==
    ASSUME FileOffered, NEW n, persistLocked(n), jobs'[n] \subseteq Offered
    PROVE  FileOffered'
<1>1. CASE file' = [state |-> "saved", jobs |-> jobs'[n], paused |-> paused'[n]]
  BY <1>1 DEF FileOffered, Offered
<1>2. CASE file' = file
  BY <1>2 DEF FileOffered, Offered
<1>3. CASE file' = Torn
  BY <1>3 DEF FileOffered, Torn
<1> QED BY <1>1, <1>2, <1>3 DEF persistLocked

LEMMA RegisterKeepsTriggers ==
    ASSUME SchedInv, SchedInv', TriggerInv, NEW n \in Nodes, NEW c \in Offers[n], Register(n, c)
    PROVE  ProcOK(n)' /\ FileOffered' /\ OthersUntouched(n)
<1>0. /\ ThreadsOK /\ ThreadsOK' /\ RestOK /\ JobsOK /\ LockOK
      /\ ProcOK(n) /\ FileOffered /\ LoopsOnly(n)
  BY DEF SchedInv, TriggerInv, ProcOK, TriggersOK
<1>1. c \in Config /\ c \in Offered
  BY SchedulerAssumption DEF Offered
<1>2. /\ proc' = proc /\ running' = running /\ todo' = todo /\ lockHeld' = lockHeld
      /\ todo[n] = {} /\ proc[n] \in Begun
      /\ startJobLocked(n, c) /\ persistLocked(n)
      /\ jobs' = [jobs EXCEPT ![n] = Without(@, c.workflow) \cup {c}]
  BY DEF Register, Answers, Begun
<1>3. /\ Others(n) /\ \A m \in Nodes \ {n} : entries'[m] = entries[m]
      /\ entries'[n] = Without(entries[n], c.workflow) \cup {d \in {c} : d.trigger = "cron"}
      /\ StartEffect(n, c)
  BY <1>0, <1>1, <1>2, StartJobSlots DEF StartEffect
<1>4. /\ jobs'[n] = Without(jobs[n], c.workflow) \cup {c}
      /\ jobs[n] \subseteq Config /\ entries[n] \subseteq Config
      /\ \A m \in Nodes : m # n => jobs'[m] = jobs[m]
  BY <1>0, <1>2 DEF JobsOK, ThreadsOK
<1>5. TriggersOK(n)'
  BY <1>0, <1>1, <1>2, <1>3, <1>4, StartedKeepsTriggers
<1>6. jobs'[n] \subseteq jobs[n] \cup {c}
  BY <1>4 DEF Without
<1>7. OfferOK(n)' /\ FlagsOK(n)'
  BY <1>0, <1>1, <1>2, <1>3, <1>6, StartEffectKeepsRest
<1>8. FileOffered'
  <2>1. jobs'[n] \subseteq Offered /\ FileOffered
    BY <1>7 DEF OfferOK, Offered, TriggerInv
  <2> QED BY <1>2, <2>1, PersistKeepsOffered
<1>9. OthersUntouched(n)
  BY <1>2, <1>3, <1>4 DEF OthersUntouched, Untouched, Others
<1> QED BY <1>5, <1>7, <1>8, <1>9 DEF ProcOK

LEMMA UnregisterKeepsTriggers ==
    ASSUME SchedInv, SchedInv', TriggerInv, NEW n \in Nodes, NEW w \in Workflows, Unregister(n, w)
    PROVE  ProcOK(n)' /\ FileOffered' /\ OthersUntouched(n)
<1>0. /\ ThreadsOK /\ ThreadsOK' /\ RestOK /\ JobsOK
      /\ ProcOK(n) /\ FileOffered /\ LoopsOnly(n)
  BY DEF SchedInv, TriggerInv, ProcOK, TriggersOK
<1>2. /\ proc' = proc /\ running' = running /\ todo' = todo /\ lockHeld' = lockHeld
      /\ todo[n] = {} /\ proc[n] \in Begun
      /\ unscheduleLocked(n, w) /\ persistLocked(n)
      /\ jobs' = [jobs EXCEPT ![n] = Without(@, w)]
  BY DEF Unregister, Answers, Begun
<1>3. /\ Others(n) /\ \A m \in Nodes \ {n} : entries'[m] = entries[m]
      /\ entries'[n] = Without(entries[n], w)
      /\ \A i \in Slots : StoppedSlot(n, i, w)
  BY <1>0, <1>2, UnscheduleSlots
<1>4. /\ jobs'[n] = Without(jobs[n], w) /\ jobs[n] \subseteq Config
      /\ \A m \in Nodes : m # n => jobs'[m] = jobs[m]
  BY <1>0, <1>2 DEF JobsOK
<1>5. TriggersOK(n)'
  BY <1>0, <1>2, <1>3, <1>4, StoppedKeepsTriggers
<1>6. jobs'[n] \subseteq Offered
  BY <1>0, <1>4 DEF Without, ProcOK, OfferOK
<1>7. OfferOK(n)' /\ FlagsOK(n)'
  BY <1>0, <1>2, <1>3, <1>6, StoppedKeepsRest
<1>8. FileOffered'
  <2>1. jobs'[n] \subseteq Offered /\ FileOffered
    BY <1>7 DEF OfferOK, Offered, TriggerInv
  <2> QED BY <1>2, <2>1, PersistKeepsOffered
<1>9. OthersUntouched(n)
  BY <1>2, <1>3, <1>4 DEF OthersUntouched, Untouched, Others
<1> QED BY <1>5, <1>7, <1>8, <1>9 DEF ProcOK

(* Pause and Resume touch no trigger. *)
LEMMA PauseKeepsTriggers ==
    ASSUME SchedInv, TriggerInv, NEW n \in Nodes, NEW w \in Workflows, Pause(n, w) \/ Resume(n, w)
    PROVE  ProcOK(n)' /\ FileOffered' /\ OthersUntouched(n)
<1>1. /\ UNCHANGED <<proc, jobs, running, todo, entries, threads, lockHeld>>
      /\ persistLocked(n)
  BY DEF Pause, Resume
<1>2. \A m \in Nodes : Untouched(m)
  BY <1>1 DEF Untouched
<1>3. ProcOK(n)'
  BY <1>2, UntouchedKeeps DEF TriggerInv
<1>4. FileOffered'
  <2>1. jobs'[n] \subseteq Offered /\ FileOffered
    BY <1>3 DEF ProcOK, OfferOK, Offered, TriggerInv
  <2> QED BY <1>1, <2>1, PersistKeepsOffered
<1> QED BY <1>2, <1>3, <1>4 DEF OthersUntouched

(* Schedule mode registers before it has anything running. *)
LEMMA EarlyRegisterKeepsTriggers ==
    ASSUME SchedInv, SchedInv', TriggerInv, NEW n \in Nodes, NEW c \in Offers[n],
           RegisterBeforeStart(n, c)
    PROVE  ProcOK(n)' /\ FileOffered' /\ OthersUntouched(n)
<1>0. /\ ThreadsOK /\ ThreadsOK' /\ RestOK /\ JobsOK /\ LockOK
      /\ ProcOK(n) /\ FileOffered /\ LoopsOnly(n)
  BY DEF SchedInv, TriggerInv, ProcOK, TriggersOK
<1>1. c \in Offered
  BY DEF Offered
<1> DEFINE w == c.workflow
<1>2. /\ proc' = [proc EXCEPT ![n] = "registered"] /\ proc[n] = "loaded"
      /\ running' = running /\ todo' = todo /\ lockHeld' = lockHeld
      /\ unscheduleLocked(n, w) /\ persistLocked(n)
      /\ jobs' = [jobs EXCEPT ![n] = Without(@, w) \cup {c}]
  BY DEF RegisterBeforeStart
<1>3. /\ \A i \in Slots : i \notin Used(n)
      /\ entries[n] = {} /\ todo[n] = {} /\ ~lockHeld[n]
  BY <1>0, <1>2 DEF ProcOK, TriggersOK, QuietOK, Begun
<1>4. /\ Others(n) /\ \A m \in Nodes \ {n} : entries'[m] = entries[m]
      /\ entries'[n] = Without(entries[n], w)
      /\ \A i \in Slots : StoppedSlot(n, i, w)
  <2> HIDE DEF w
  <2> QED BY <1>0, <1>2, UnscheduleSlots
<1>5. \A i \in Slots : i \notin Used(n)'
  BY <1>3, <1>4 DEF StoppedSlot
<1>6. /\ proc'[n] = "registered" /\ entries'[n] = {} /\ todo'[n] = {} /\ ~lockHeld'[n]
      /\ running'[n] = running[n]
  BY <1>0, <1>2, <1>3, <1>4 DEF RestOK, Without
<1>7. running'[n] = {}
  BY <1>0, <1>3, <1>6, NoThreadsNoFlags
<1>8. jobs'[n] \subseteq Offered /\ \A m \in Nodes : m # n => jobs'[m] = jobs[m]
  BY <1>0, <1>1, <1>2 DEF JobsOK, Without, ProcOK, OfferOK
<1>9. ProcOK(n)'
  BY <1>5, <1>6, <1>7, <1>8, EmptyKeeps
<1>10. FileOffered'
  BY <1>2, <1>8, PersistKeepsOffered DEF TriggerInv
<1>11. OthersUntouched(n)
  BY <1>0, <1>2, <1>4, <1>8 DEF OthersUntouched, Untouched, Others, RestOK
<1> QED BY <1>9, <1>10, <1>11

-----------------------------------------------------------------------------
(* The life of a process. *)
LEMMA LoadedJobs ==
    ASSUME JobsOK, NEW n \in Nodes, ProcOK(n), FileOffered, loadLocked(n)
    PROVE  jobs'[n] \subseteq Offered /\ \A m \in Nodes : m # n => jobs'[m] = jobs[m]
<1>1. CASE file.state = "saved" /\ jobs' = [jobs EXCEPT ![n] = file.jobs]
  BY <1>1 DEF JobsOK, FileOffered
<1>2. CASE jobs' = jobs
  BY <1>2 DEF ProcOK, OfferOK
<1> QED BY <1>1, <1>2 DEF loadLocked

(* Boot and Start: nothing runs before, and Start lists every schedule of  *)
(* a leader as still to be started.                                        *)
LEMMA StartKeepsTriggers ==
    ASSUME SchedInv, TriggerInv, NEW n \in Nodes, Boot(n) \/ Start(n)
    PROVE  ProcOK(n)' /\ FileOffered' /\ OthersUntouched(n)
<1>0. /\ ThreadsOK /\ RestOK /\ JobsOK /\ LockOK /\ ProcOK(n) /\ FileOffered
  BY DEF SchedInv, TriggerInv
<1>1. /\ proc[n] \notin Begun /\ loadLocked(n)
      /\ UNCHANGED <<running, entries, threads, file>>
  BY DEF Boot, Start, Begun
<1>2. /\ \A i \in Slots : i \notin Used(n)
      /\ entries[n] = {} /\ todo[n] = {} /\ ~lockHeld[n]
  BY <1>0, <1>1 DEF ProcOK, TriggersOK, QuietOK
<1>3. jobs'[n] \subseteq Offered /\ \A m \in Nodes : m # n => jobs'[m] = jobs[m]
  BY <1>0, <1>1, LoadedJobs
<1>4. running[n] = {}
  BY <1>0, <1>2, NoThreadsNoFlags
<1>5. \A i \in Slots : i \notin Used(n)'
  BY <1>1, <1>2 DEF Used
<1>6. FileOffered'
  BY <1>0, <1>1 DEF FileOffered, Offered
<1>7. CASE Boot(n)
  <2>1. proc' = [proc EXCEPT ![n] = "loaded"] /\ todo' = todo /\ lockHeld' = lockHeld
    BY <1>7 DEF Boot
  <2>2. ProcOK(n)'
    BY <1>1, <1>2, <1>3, <1>4, <1>5, <2>1, EmptyKeeps
  <2>3. OthersUntouched(n)
    BY <1>0, <1>1, <1>3, <2>1 DEF OthersUntouched, Untouched, RestOK
  <2> QED BY <1>6, <2>2, <2>3
<1>8. CASE Start(n)
  <2>1. /\ proc' = [proc EXCEPT ![n] = "started"]
        /\ \/ /\ lockHeld' = [lockHeld EXCEPT ![n] = TRUE]
              /\ todo' = [todo EXCEPT ![n] = jobs'[n]]
           \/ todo' = todo /\ lockHeld' = lockHeld
    BY <1>8 DEF Start, tryAcquireLeaderLockLocked
  <2>2. /\ proc'[n] \in Begun /\ (lockHeld'[n] => todo'[n] = jobs'[n])
        /\ todo'[n] \subseteq jobs'[n]
        /\ \A m \in Nodes : m # n => /\ proc'[m] = proc[m] /\ lockHeld'[m] = lockHeld[m]
                                     /\ todo'[m] = todo[m]
    BY <1>0, <1>2, <2>1 DEF RestOK, LockOK, Begun
  <2>3. ProcOK(n)'
    BY <1>1, <1>2, <1>3, <1>4, <1>5, <2>2, EmptyKeeps
  <2>4. OthersUntouched(n)
    BY <1>1, <1>3, <2>2 DEF OthersUntouched, Untouched
  <2> QED BY <1>6, <2>3, <2>4
<1> QED BY <1>7, <1>8

(* The loop at the end of Start gives one schedule its trigger. *)
LEMMA StartNextKeepsTriggers ==
    ASSUME SchedInv, SchedInv', TriggerInv, NEW n \in Nodes, NEW c \in todo[n], StartNext(n, c)
    PROVE  ProcOK(n)' /\ FileOffered' /\ OthersUntouched(n)
<1>0. /\ ThreadsOK /\ ThreadsOK' /\ RestOK /\ JobsOK
      /\ ProcOK(n) /\ FileOffered /\ LoopsOnly(n) /\ QuietOK(n)
  BY DEF SchedInv, TriggerInv, ProcOK, TriggersOK
<1>1. c \in Config /\ c \in jobs[n] /\ c \in Offered
  BY <1>0 DEF RestOK, QuietOK, ProcOK, OfferOK
<1>2. /\ UNCHANGED <<proc, jobs, running, lockHeld, file>>
      /\ startJobLocked(n, c)
      /\ todo' = [todo EXCEPT ![n] = @ \ {c}]
  BY DEF StartNext
<1>3. /\ Others(n) /\ \A m \in Nodes \ {n} : entries'[m] = entries[m]
      /\ entries'[n] = Without(entries[n], c.workflow) \cup {d \in {c} : d.trigger = "cron"}
      /\ StartEffect(n, c)
  BY <1>0, <1>1, <1>2, StartJobSlots DEF StartEffect
<1>4. /\ jobs[n] \subseteq Config /\ entries[n] \subseteq Config /\ OnePerWorkflow(jobs[n])
      /\ proc[n] \in Begun
  BY <1>0 DEF JobsOK, ThreadsOK, QuietOK
<1>5. jobs'[n] = Without(jobs[n], c.workflow) \cup {c}
  BY <1>1, <1>2, <1>4 DEF OnePerWorkflow, Without
<1>6. /\ todo'[n] = todo[n] \ {c} /\ todo'[n] \subseteq jobs'[n]
      /\ \A m \in Nodes : m # n => todo'[m] = todo[m]
  BY <1>0, <1>2 DEF RestOK, QuietOK
<1>7. TriggersOK(n)'
  BY <1>0, <1>1, <1>2, <1>3, <1>4, <1>5, <1>6, StartedKeepsTriggers
<1>8. OfferOK(n)' /\ FlagsOK(n)'
  BY <1>0, <1>1, <1>2, <1>3, StartEffectKeepsRest
<1>9. FileOffered'
  BY <1>0, <1>2 DEF FileOffered, Offered
<1>10. OthersUntouched(n)
  BY <1>2, <1>3, <1>6 DEF OthersUntouched, Untouched, Others
<1> QED BY <1>7, <1>8, <1>9, <1>10 DEF ProcOK

(* Stop and the shutdown goroutine: the triggers may stay, the lock goes. *)
LEMMA StopKeepsTriggers ==
    ASSUME SchedInv, TriggerInv, NEW n \in Nodes, Stop(n) \/ StopEngine(n) \/ releaseLeaderLock(n)
    PROVE  ProcOK(n)' /\ FileOffered' /\ OthersUntouched(n)
<1>0. RestOK /\ LockOK /\ ProcOK(n) /\ FileOffered
  BY DEF SchedInv, TriggerInv
<1>1. /\ UNCHANGED <<jobs, running, todo, entries, threads, file>>
      /\ \/ proc' = proc
         \/ proc[n] = "started" /\ proc' = [proc EXCEPT ![n] = "stopping"]
      /\ \/ lockHeld' = lockHeld
         \/ lockHeld' = [lockHeld EXCEPT ![n] = FALSE]
      /\ proc[n] \in Begun
  BY DEF Stop, StopEngine, releaseLeaderLock, procVars, Begun
<1>2. /\ proc'[n] = proc[n] \/ (proc[n] = "started" /\ proc'[n] = "stopping")
      /\ proc'[n] \in Begun /\ (lockHeld'[n] => lockHeld[n])
      /\ \A m \in Nodes : m # n => proc'[m] = proc[m] /\ lockHeld'[m] = lockHeld[m]
  BY <1>0, <1>1 DEF RestOK, LockOK, Begun
<1>3. \A i \in Slots : /\ i \in Used(n)' <=> i \in Used(n)
                       /\ Live(n, i)' <=> Live(n, i)
                       /\ \A w \in Workflows : Exec(n, i, w)' <=> Exec(n, i, w)
  BY <1>1, SlotKept
<1>4. LoopsStay(n)
  BY <1>1, <1>3 DEF LoopsStay
<1>5. TriggersOK(n)'
  BY <1>0, <1>1, <1>2, <1>4, LoopsStayKeepsTriggers DEF ProcOK
<1>6. OfferOK(n)'
  BY <1>0, <1>1, <1>3 DEF ProcOK, OfferOK, Offered
<1>7. FlagsOK(n)'
  BY <1>0, <1>1, <1>3, SameExecKeepsFlags DEF ProcOK
<1>8. FileOffered' /\ OthersUntouched(n)
  BY <1>0, <1>1, <1>2 DEF FileOffered, Offered, OthersUntouched, Untouched
<1> QED BY <1>5, <1>6, <1>7, <1>8 DEF ProcOK

(* A process that is gone has nothing left. *)
LEMMA GoneKeepsTriggers ==
    ASSUME SchedInv, TriggerInv, NEW n \in Nodes, Exit(n) \/ CrashWhileSaving(n)
    PROVE  ProcOK(n)' /\ FileOffered' /\ OthersUntouched(n)
<1>0. ThreadsOK /\ RestOK /\ JobsOK /\ LockOK /\ FileOffered
  BY DEF SchedInv, TriggerInv
<1>1. Gone(n) /\ (file' = file \/ file' = Torn)
  BY DEF Exit, CrashWhileSaving
<1>2. /\ proc'[n] = "down" /\ jobs'[n] = {} /\ running'[n] = {} /\ todo'[n] = {}
      /\ entries'[n] = {} /\ threads'[n] = [i \in Slots |-> NoThread] /\ lockHeld'[n] = FALSE
  BY <1>0, <1>1 DEF Gone, ThreadsOK, RestOK, JobsOK, LockOK
<1>3. \A i \in Slots : i \notin Used(n)'
  BY <1>2 DEF Used
<1>4. ProcOK(n)'
  BY <1>2, <1>3, EmptyKeeps
<1>5. FileOffered'
  BY <1>0, <1>1 DEF FileOffered, Offered, Torn
<1>6. OthersUntouched(n)
  BY <1>0, <1>1 DEF Gone, OthersUntouched, Untouched, ThreadsOK, RestOK, JobsOK, LockOK
<1> QED BY <1>4, <1>5, <1>6

-----------------------------------------------------------------------------
LEMMA NextKeepsTriggers == SchedInv /\ SchedInv' /\ TriggerInv /\ [SchedNext]_vars => TriggerInv'
<1> SUFFICES ASSUME SchedInv, SchedInv', TriggerInv, [SchedNext]_vars
             PROVE  TriggerInv'
  OBVIOUS
<1>1. ASSUME NEW n \in Nodes, ProcOK(n)' /\ FileOffered' /\ OthersUntouched(n)
      PROVE  TriggerInv'
  BY <1>1, UntouchedKeeps DEF TriggerInv, OthersUntouched
<1>2. ASSUME NEW n \in Nodes, ThreadStep(n) PROVE TriggerInv'
  BY <1>1, <1>2, ThreadStepKeepsTriggers
<1>3. ASSUME NEW n \in Nodes, Call(n) PROVE TriggerInv'
  BY <1>1, <1>3, RegisterKeepsTriggers, EarlyRegisterKeepsTriggers, UnregisterKeepsTriggers,
     PauseKeepsTriggers DEF Call
<1>4. ASSUME NEW n \in Nodes, ServiceStep(n) PROVE TriggerInv'
  BY <1>1, <1>4, StartKeepsTriggers, StopKeepsTriggers, StartNextKeepsTriggers DEF ServiceStep
<1>5. ASSUME NEW n \in Nodes, ProcessStep(n) PROVE TriggerInv'
  BY <1>1, <1>5, StartKeepsTriggers, StopKeepsTriggers, GoneKeepsTriggers DEF ProcessStep
<1>6. ASSUME UNCHANGED <<proc, jobs, running, todo, entries, threads, lockHeld, file>>
      PROVE  TriggerInv'
  <2>1. \A m \in Nodes : Untouched(m)
    BY <1>6 DEF Untouched
  <2>2. FileOffered'
    BY <1>6 DEF TriggerInv, FileOffered, Offered
  <2> QED BY <2>1, <2>2, UntouchedKeeps DEF TriggerInv
<1>7. ASSUME NEW w \in Workflows, WorkerTakes(w) \/ WorkerSettles(w) PROVE TriggerInv'
  BY <1>6, <1>7 DEF WorkerTakes, WorkerSettles, threadFrame
<1>8. CASE UNCHANGED vars
  BY <1>6, <1>8 DEF vars, procVars
<1> QED BY <1>2, <1>3, <1>4, <1>5, <1>7, <1>8 DEF SchedNext

LEMMA InitTriggers == SchedInit => TriggerInv
<1> SUFFICES ASSUME SchedInit PROVE TriggerInv
  OBVIOUS
<1>1. FileOffered
  BY DEF SchedInit, FileOffered, NoFile
<1>2. ASSUME NEW n \in Nodes PROVE ProcOK(n)
  <2>1. \A i \in Slots : i \notin Used(n)
    BY DEF SchedInit, Used
  <2>2. \A i \in Slots : ~Live(n, i) /\ \A w \in Workflows : ~Exec(n, i, w)
    BY <2>1 DEF Live, Exec
  <2>3. entries[n] = {} /\ todo[n] = {} /\ jobs[n] = {} /\ running[n] = {} /\ ~lockHeld[n]
    BY DEF SchedInit
  <2>4. \A c \in Config : ~HasTrigger(n, c)
    BY <2>2, <2>3 DEF HasTrigger
  <2>5. TriggersOK(n)
    BY <2>1, <2>2, <2>3, <2>4 DEF TriggersOK, QuietOK, OwnedOK, LoopsOnly, OneLoopOK, CoveredOK
  <2>6. OfferOK(n) /\ FlagsOK(n)
    BY <2>1, <2>2, <2>3 DEF OfferOK, FlagsOK, FlagOK
  <2> QED BY <2>5, <2>6 DEF ProcOK
<1> QED BY <1>1, <1>2 DEF TriggerInv

LEMMA TriggersAlways == SchedSpec => []TriggerInv
BY InitTriggers, InvAlways, NextKeepsTriggers, PTL DEF SchedSpec

(* Register, Unregister and startJobLocked, in any order and around any    *)
(* number of starts, stops and kills: a process that has started has one   *)
(* live trigger at most for a workflow, its registered schedule's, and a   *)
(* leader has one for each schedule whose expression parses.               *)
THEOREM TriggersMatch == SchedSpec => []TriggersMatchRegistrations
<1>1. SchedInv /\ TriggerInv => TriggersMatchRegistrations
  <2> SUFFICES ASSUME SchedInv, TriggerInv, NEW n \in Nodes, proc[n] = "started", todo[n] = {}
               PROVE  /\ Triggers(n) \subseteq jobs[n]
                      /\ \A i, j \in Used(n) :
                            threads[n][i].live /\ threads[n][j].live
                              /\ threads[n][i].job.workflow = threads[n][j].job.workflow => i = j
                      /\ lockHeld[n] => \A c \in jobs[n] : c.trigger # "badcron" => c \in Triggers(n)
    BY DEF TriggersMatchRegistrations
  <2>1. TriggersOK(n) /\ ThreadsOK /\ JobsOK
    BY DEF TriggerInv, ProcOK, SchedInv
  <2>2. \A c : c \in Triggers(n) <=> HasTrigger(n, c)
    BY DEF Triggers, HasTrigger, Live, Used
  <2>3. \A c \in Triggers(n) : c \in Config
    <3>1. \A i \in Slots : i \in Used(n) => threads[n][i] \in Thread
      BY <2>1, UsedThreads
    <3>2. \A i \in Slots : i \in Used(n) => threads[n][i].job \in Config
      BY <3>1 DEF Thread
    <3> QED BY <2>1, <3>2 DEF Triggers, ThreadsOK, Used
  <2>4. Triggers(n) \subseteq jobs[n]
    BY <2>1, <2>2, <2>3 DEF TriggersOK, OwnedOK
  <2>5. \A i, j \in Used(n) :
           threads[n][i].live /\ threads[n][j].live
             /\ threads[n][i].job.workflow = threads[n][j].job.workflow => i = j
    BY <2>1 DEF TriggersOK, OneLoopOK, Live, Used
  <2>6. lockHeld[n] => \A c \in jobs[n] : c.trigger # "badcron" => c \in Triggers(n)
    BY <2>1, <2>2 DEF TriggersOK, CoveredOK
  <2> QED BY <2>4, <2>5, <2>6
<1> QED BY <1>1, InvAlways, TriggersAlways, PTL

(* executeOnce's running flag, through re-registrations that leave loops   *)
(* and calls behind: it is up only with a call inside, and it counts the   *)
(* calls exactly where no schedule of the workflow allows overlap.         *)
THEOREM RunningFlagCorrect == SchedSpec => []RunningFlagExact
<1>1. TriggerInv => RunningFlagExact
  <2> SUFFICES ASSUME TriggerInv, NEW n \in Nodes, NEW w \in Workflows
               PROVE  /\ w \in running[n] => Executing(n, w) # {}
                      /\ ~AllowsOverlap(w) =>
                            Cardinality(Executing(n, w)) = IF w \in running[n] THEN 1 ELSE 0
    BY DEF RunningFlagExact
  <2>1. FlagOK(n, w)
    BY DEF TriggerInv, ProcOK, FlagsOK
  <2>2. \A i : i \in Executing(n, w) <=> i \in Slots /\ Exec(n, i, w)
    BY DEF Executing, Exec, Used
  <2>3. w \in running[n] => Executing(n, w) # {}
    BY <2>1, <2>2 DEF FlagOK
  <2>4. ASSUME ~AllowsOverlap(w), w \in running[n] PROVE Cardinality(Executing(n, w)) = 1
    <3>1. PICK i \in Slots : Exec(n, i, w)
      BY <2>1, <2>4 DEF FlagOK
    <3>2. Executing(n, w) = {i}
      BY <2>1, <2>2, <2>4, <3>1 DEF FlagOK
    <3> QED BY <3>2, FS_Singleton
  <2>5. ASSUME ~AllowsOverlap(w), w \notin running[n] PROVE Cardinality(Executing(n, w)) = 0
    <3>1. Executing(n, w) = {}
      BY <2>1, <2>2, <2>5 DEF FlagOK
    <3> QED BY <3>1, FS_EmptySet
  <2> QED BY <2>3, <2>4, <2>5
<1> QED BY <1>1, TriggersAlways, PTL

=============================================================================
