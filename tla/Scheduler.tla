----------------------------- MODULE Scheduler -----------------------------
(***************************************************************************)
(* internal/scheduler/service.go: processes that register schedules, elect *)
(* a leader with a lock file, and submit a queue job at every trigger.     *)
(*                                                                         *)
(* Each node is one process at a time, started with the same lock file and *)
(* the same schedule file.  A service method holds s.mu throughout and is  *)
(* one step; executeOnce gives the mutex up in the middle and is two.      *)
(* The handles cronEntryIDs and intervalStop are the entries and the live  *)
(* loops themselves.  Time is left out: a ticker may fire at any moment.   *)
(***************************************************************************)
EXTENDS Naturals, FiniteSets

CONSTANTS Nodes,        \* processes
          Serving,      \* those in serve mode; the others are in schedule mode
          Workflows,
          Offers,       \* [Nodes -> the schedules the node is asked to register]
          MaxThreads,   \* bound: goroutines of a process that run a trigger
          MaxJobs       \* bound: unsettled queue jobs of a workflow

(* A schedule that passes Register's own tests: an interval or a cron      *)
(* expression, never both.  "badcron" is an expression AddFunc rejects.    *)
Config == [workflow : Workflows,
           trigger : {"interval", "cron", "badcron"},
           runOnStartup : BOOLEAN,
           allowOverlap : BOOLEAN]

ASSUME SchedulerAssumption ==
    /\ Serving \subseteq Nodes
    /\ Offers \in [Nodes -> SUBSET Config]
    /\ MaxThreads \in Nat \ {0}
    /\ MaxJobs \in Nat

(* A goroutine on its way through executeOnce, or an interval loop.        *)
(* "live" is a loop whose own context nobody has cancelled.                *)
Thread == [from : {"interval", "cron", "startup"},
           job : Config,
           live : BOOLEAN,
           at : {"calling", "waiting", "executing"}]

Slots == 1 .. MaxThreads
NoThread == [from |-> "none"]

NoFile == [state |-> "absent"]
Torn == [state |-> "torn"]

VARIABLES
    proc,       \* "down", "loaded", "registered", "started" or "stopping" (ctx done)
    jobs,       \* the registered schedules, one per workflow
    paused,     \* workflows
    running,    \* workflows whose running flag is set
    todo,       \* schedules Start has still to start
    engineOn,   \* the cron engine runs
    entries,    \* schedules with an entry in the cron engine
    threads,    \* [Slots -> Thread or NoThread]
    lockHeld,   \* leaderLockHeld
    lockFile,   \* the lock file exists
    file,       \* the schedule file
    queue,      \* per workflow, its scheduled jobs waiting and being run
    sole,       \* the process that has been the only one up since it booted
    stale       \* processes whose last access to the schedule file failed

procVars == <<jobs, paused, running, todo, engineOn, entries, threads>>
vars == <<proc, procVars, lockHeld, lockFile, file, queue, sole, stale>>

Up(n) == proc[n] # "down"
Used(n) == {i \in Slots : threads[n][i] # NoThread}
Executing(n, w) == {i \in Used(n) : threads[n][i].at = "executing"
                                    /\ threads[n][i].job.workflow = w}

SchedInit ==
    /\ proc = [n \in Nodes |-> "down"]
    /\ jobs = [n \in Nodes |-> {}]
    /\ paused = [n \in Nodes |-> {}]
    /\ running = [n \in Nodes |-> {}]
    /\ todo = [n \in Nodes |-> {}]
    /\ engineOn = [n \in Nodes |-> FALSE]
    /\ entries = [n \in Nodes |-> {}]
    /\ threads = [n \in Nodes |-> [i \in Slots |-> NoThread]]
    /\ lockHeld = [n \in Nodes |-> FALSE]
    /\ lockFile = FALSE
    /\ file = NoFile
    /\ queue = [w \in Workflows |-> [waiting |-> 0, executing |-> 0]]
    /\ sole = {}
    /\ stale = {}

-----------------------------------------------------------------------------
(* The schedule file. *)

Without(S, w) == {c \in S : c.workflow # w}

(* The maps are replaced by the file's.  A missing file and one that does  *)
(* not decode leave them alone, and so does a read that fails: no caller   *)
(* looks at the error.                                                     *)
loadLocked(n) ==
    \/ /\ file.state = "saved"
       /\ jobs' = [jobs EXCEPT ![n] = file.jobs]
       /\ paused' = [paused EXCEPT ![n] = file.paused]
       /\ stale' = stale \ {n}
    \/ /\ file.state # "saved"
       /\ UNCHANGED <<jobs, paused, stale>>
    \/ /\ stale' = stale \cup {n}
       /\ UNCHANGED <<jobs, paused>>

(* The whole of this process's maps, whatever another process wrote.  A    *)
(* failed MkdirAll or open leaves the file as it was, a failed write       *)
(* leaves it truncated; the callers discard the error and go on.           *)
persistLocked(n) ==
    \/ /\ file' = [state |-> "saved", jobs |-> jobs'[n], paused |-> paused'[n]]
       /\ stale' = stale \ {n}
    \/ /\ file' \in {file, Torn}
       /\ stale' = stale \cup {n}

-----------------------------------------------------------------------------
(* Triggers. *)

Cancelled(ts, w) ==
    [i \in Slots |-> IF ts[i] # NoThread /\ ts[i].from = "interval" /\ ts[i].job.workflow = w
                     THEN [ts[i] EXCEPT !.live = FALSE]
                     ELSE ts[i]]

(* Mutant: the loop of an interval schedule is not stopped. *)
unscheduleLocked_CronOnly(n, w) ==
    /\ entries' = [entries EXCEPT ![n] = Without(@, w)]
    /\ UNCHANGED threads

unscheduleLocked(n, w) ==
    /\ entries' = [entries EXCEPT ![n] = Without(@, w)]
    /\ threads' = [threads EXCEPT ![n] = Cancelled(@, w)]

(* A new goroutine takes a free slot; MaxThreads bounds them. *)
HasRoom(n) == \E i \in Slots : threads[n][i] = NoThread
FreeSlot(n) == CHOOSE i \in Slots : threads[n][i] = NoThread

NeedsThread(c) == c.trigger = "interval" \/ (c.trigger = "cron" /\ c.runOnStartup)
NewThread(c) == [from |-> IF c.trigger = "interval" THEN "interval" ELSE "startup",
                 job |-> c,
                 live |-> c.trigger = "interval",
                 at |-> IF c.runOnStartup THEN "calling" ELSE "waiting"]

(* An old trigger of the workflow goes first, even when AddFunc then       *)
(* rejects the expression.  Nothing here asks who leads.                   *)
startJobLocked(n, c) ==
    LET w == c.workflow
        rest == Cancelled(threads[n], w)
    IN /\ entries' = [entries EXCEPT ![n] = Without(@, w) \cup {d \in {c} : d.trigger = "cron"}]
       /\ NeedsThread(c) => HasRoom(n)
       /\ threads' = [threads EXCEPT ![n] =
              IF NeedsThread(c) THEN [rest EXCEPT ![FreeSlot(n)] = NewThread(c)] ELSE rest]

-----------------------------------------------------------------------------
(* The API of the service.  A serving process answers once Start has       *)
(* returned, and still does while it shuts down.                           *)

Answers(n) == n \in Serving /\ proc[n] \in {"started", "stopping"} /\ todo[n] = {}

Register(n, c) ==
    /\ Answers(n)
    /\ jobs' = [jobs EXCEPT ![n] = Without(@, c.workflow) \cup {c}]
    /\ UNCHANGED <<proc, paused, running, todo, engineOn, lockHeld, lockFile, queue, sole>>
    /\ persistLocked(n)
    /\ startJobLocked(n, c)

(* Mutant: a schedule is deleted together with its running flag. *)
Unregister_ClearsRunning(n, w) ==
    /\ Answers(n)
    /\ jobs' = [jobs EXCEPT ![n] = Without(@, w)]
    /\ paused' = [paused EXCEPT ![n] = @ \ {w}]
    /\ running' = [running EXCEPT ![n] = @ \ {w}]
    /\ unscheduleLocked(n, w)
    /\ persistLocked(n)
    /\ UNCHANGED <<proc, todo, engineOn, lockHeld, lockFile, queue, sole>>

Unregister(n, w) ==
    /\ Answers(n)
    /\ jobs' = [jobs EXCEPT ![n] = Without(@, w)]
    /\ paused' = [paused EXCEPT ![n] = @ \ {w}]
    /\ unscheduleLocked(n, w)
    /\ persistLocked(n)
    /\ UNCHANGED <<proc, running, todo, engineOn, lockHeld, lockFile, queue, sole>>

Registered(n, w) == \E c \in jobs[n] : c.workflow = w

(* Mutant: the change is not saved. *)
Pause_Unsaved(n, w) ==
    /\ Answers(n) /\ Registered(n, w)
    /\ paused' = [paused EXCEPT ![n] = @ \cup {w}]
    /\ UNCHANGED <<proc, jobs, running, todo, engineOn, entries, threads, lockHeld, lockFile, file, queue, sole, stale>>

Pause(n, w) ==
    /\ Answers(n) /\ Registered(n, w)
    /\ paused' = [paused EXCEPT ![n] = @ \cup {w}]
    /\ UNCHANGED <<proc, jobs, running, todo, engineOn, entries, threads, lockHeld, lockFile, queue, sole>>
    /\ persistLocked(n)

Resume(n, w) ==
    /\ Answers(n) /\ Registered(n, w)
    /\ paused' = [paused EXCEPT ![n] = @ \ {w}]
    /\ UNCHANGED <<proc, jobs, running, todo, engineOn, entries, threads, lockHeld, lockFile, queue, sole>>
    /\ persistLocked(n)

-----------------------------------------------------------------------------
(* The life of a process. *)

(* NewService and SetScheduleStorePath. *)
Boot(n) ==
    /\ proc[n] = "down"
    /\ proc' = [proc EXCEPT ![n] = "loaded"]
    /\ loadLocked(n)
    /\ sole' = IF \E m \in Nodes : Up(m) THEN {} ELSE {n}
    /\ UNCHANGED <<running, todo, engineOn, entries, threads, lockHeld, lockFile, file, queue>>

(* Schedule mode registers its one schedule before Start. *)
RegisterBeforeStart(n, c) ==
    /\ n \notin Serving /\ proc[n] = "loaded"
    /\ proc' = [proc EXCEPT ![n] = "registered"]
    /\ jobs' = [jobs EXCEPT ![n] = Without(@, c.workflow) \cup {c}]
    /\ UNCHANGED <<paused, running, todo, engineOn, lockHeld, lockFile, queue, sole>>
    /\ unscheduleLocked(n, c.workflow)
    /\ persistLocked(n)

(* The file is created with O_EXCL: it must not exist. *)
tryAcquireLeaderLockLocked(n) ==
    /\ ~lockFile
    /\ lockFile' = TRUE
    /\ lockHeld' = [lockHeld EXCEPT ![n] = TRUE]

(* The leader has its schedules still to start; a follower has nothing     *)
(* more to do, ever.                                                       *)
Start(n) ==
    /\ proc[n] = (IF n \in Serving THEN "loaded" ELSE "registered")
    /\ proc' = [proc EXCEPT ![n] = "started"]
    /\ loadLocked(n)
    /\ \/ /\ tryAcquireLeaderLockLocked(n)
          /\ engineOn' = [engineOn EXCEPT ![n] = TRUE]
          /\ todo' = [todo EXCEPT ![n] = jobs'[n]]
       \/ /\ lockFile
          /\ UNCHANGED <<engineOn, todo, lockHeld, lockFile>>
    /\ UNCHANGED <<running, entries, threads, file, queue, sole>>

(* The loop at the end of Start, which takes the mutex once per schedule. *)
StartNext(n, c) ==
    /\ c \in todo[n]
    /\ todo' = [todo EXCEPT ![n] = @ \ {c}]
    /\ startJobLocked(n, c)
    /\ UNCHANGED <<proc, jobs, paused, running, engineOn, lockHeld, lockFile, file, queue, sole, stale>>

(* A signal ends the context. *)
Stop(n) ==
    /\ proc[n] = "started"
    /\ proc' = [proc EXCEPT ![n] = "stopping"]
    /\ UNCHANGED <<procVars, lockHeld, lockFile, file, queue, sole, stale>>

StopEngine(n) ==
    /\ proc[n] = "stopping" /\ engineOn[n]
    /\ engineOn' = [engineOn EXCEPT ![n] = FALSE]
    /\ UNCHANGED <<proc, jobs, paused, running, todo, entries, threads, lockHeld, lockFile, file, queue, sole, stale>>

(* Mutant: every process removes the file when it stops. *)
releaseLeaderLock_Unchecked(n) ==
    /\ proc[n] = "stopping" /\ ~engineOn[n]
    /\ \A i \in Used(n) : threads[n][i].from # "cron"
    /\ lockFile' = FALSE
    /\ lockHeld' = [lockHeld EXCEPT ![n] = FALSE]
    /\ UNCHANGED <<proc, procVars, file, queue, sole, stale>>

(* Mutant: the context that cronEngine.Stop returns is not waited for. *)
releaseLeaderLock_NoWait(n) ==
    /\ proc[n] = "stopping" /\ ~engineOn[n]
    /\ lockHeld[n]
    /\ lockFile' = FALSE
    /\ lockHeld' = [lockHeld EXCEPT ![n] = FALSE]
    /\ UNCHANGED <<proc, procVars, file, queue, sole, stale>>

(* The engine has stopped and the calls it made have returned. *)
releaseLeaderLock(n) ==
    /\ proc[n] = "stopping" /\ ~engineOn[n]
    /\ \A i \in Used(n) : threads[n][i].from # "cron"
    /\ lockHeld[n]
    /\ lockFile' = FALSE
    /\ lockHeld' = [lockHeld EXCEPT ![n] = FALSE]
    /\ UNCHANGED <<proc, procVars, file, queue, sole, stale>>

Gone(n) ==
    /\ Up(n)
    /\ proc' = [proc EXCEPT ![n] = "down"]
    /\ jobs' = [jobs EXCEPT ![n] = {}]
    /\ paused' = [paused EXCEPT ![n] = {}]
    /\ running' = [running EXCEPT ![n] = {}]
    /\ todo' = [todo EXCEPT ![n] = {}]
    /\ engineOn' = [engineOn EXCEPT ![n] = FALSE]
    /\ entries' = [entries EXCEPT ![n] = {}]
    /\ threads' = [threads EXCEPT ![n] = [i \in Slots |-> NoThread]]
    /\ lockHeld' = [lockHeld EXCEPT ![n] = FALSE]
    /\ sole' = sole \ {n}
    /\ stale' = stale \ {n}
    /\ UNCHANGED <<lockFile, queue>>

(* main returns without waiting for releaseLeaderLock, after a signal or   *)
(* when run-for is over; or the process is killed.                         *)
Exit(n) == Gone(n) /\ UNCHANGED file

(* Killed inside os.WriteFile, which truncates the file first. *)
CrashWhileSaving(n) ==
    /\ Answers(n) \/ (n \notin Serving /\ proc[n] = "loaded")
    /\ Gone(n)
    /\ file' = Torn

-----------------------------------------------------------------------------
(* executeOnce: a call of it begins or is skipped under the mutex, and     *)
(* ends with the job in the queue or with an error nobody looks at.        *)

threadFrame == <<proc, jobs, paused, todo, engineOn, entries, lockHeld, lockFile, file, sole, stale>>

CronFires(n, c) ==
    /\ engineOn[n] /\ c \in entries[n]
    /\ HasRoom(n)
    /\ threads' = [threads EXCEPT ![n][FreeSlot(n)] =
                     [from |-> "cron", job |-> c, live |-> FALSE, at |-> "calling"]]
    /\ UNCHANGED <<threadFrame, running, queue>>

MayBegin(n, c) == /\ c.workflow \notin paused[n]
                  /\ c.workflow \notin running[n] \/ c.allowOverlap

(* A loop's select takes a ready tick even when its context is done. *)
Begin(n, i) ==
    /\ i \in Used(n)
    /\ LET c == threads[n][i].job
       IN /\ threads[n][i].at \in {"calling", "waiting"}
          /\ MayBegin(n, c)
          /\ running' = [running EXCEPT ![n] = @ \cup {c.workflow}]
    /\ threads' = [threads EXCEPT ![n][i].at = "executing"]
    /\ UNCHANGED <<threadFrame, queue>>

Returned(t) == IF t.from = "interval" THEN [t EXCEPT !.at = "waiting"] ELSE NoThread

(* A loop that skips a tick changes nothing. *)
Skip(n, i) ==
    /\ i \in Used(n)
    /\ threads[n][i].at = "calling" /\ ~MayBegin(n, threads[n][i].job)
    /\ threads' = [threads EXCEPT ![n][i] = Returned(@)]
    /\ UNCHANGED <<threadFrame, running, queue>>

(* The deferred function: the flag goes down whoever else is executing. *)
EndExecution(n, i) ==
    /\ i \in Used(n) /\ threads[n][i].at = "executing"
    /\ running' = [running EXCEPT ![n] = @ \ {threads[n][i].job.workflow}]
    /\ threads' = [threads EXCEPT ![n][i] = Returned(@)]
    /\ UNCHANGED threadFrame

Unsettled(w) == queue[w].waiting + queue[w].executing

ExecuteEnqueues(n, i) ==
    /\ EndExecution(n, i)
    /\ LET w == threads[n][i].job.workflow
       IN /\ Unsettled(w) < MaxJobs
          /\ queue' = [queue EXCEPT ![w].waiting = @ + 1]

(* The workflow is gone, or the store or the queue refuses. *)
ExecuteFails(n, i) ==
    /\ EndExecution(n, i)
    /\ UNCHANGED queue

LoopExits(n, i) ==
    /\ i \in Used(n)
    /\ threads[n][i].at = "waiting"
    /\ ~threads[n][i].live \/ proc[n] = "stopping"
    /\ threads' = [threads EXCEPT ![n][i] = NoThread]
    /\ UNCHANGED <<threadFrame, running, queue>>

(* The workers of the pool, which know nothing of schedules. *)
WorkerTakes(w) ==
    /\ queue[w].waiting > 0
    /\ queue' = [queue EXCEPT ![w] = [waiting |-> @.waiting - 1, executing |-> @.executing + 1]]
    /\ UNCHANGED <<threadFrame, running, threads>>

WorkerSettles(w) ==
    /\ queue[w].executing > 0
    /\ queue' = [queue EXCEPT ![w].executing = @ - 1]
    /\ UNCHANGED <<threadFrame, running, threads>>

-----------------------------------------------------------------------------
ThreadStep(n) == \/ \E c \in entries[n] : CronFires(n, c)
                 \/ \E i \in Slots : \/ Begin(n, i) \/ Skip(n, i)
                                     \/ ExecuteEnqueues(n, i) \/ ExecuteFails(n, i)
                                     \/ LoopExits(n, i)

Call(n) == \/ \E c \in Offers[n] : Register(n, c) \/ RegisterBeforeStart(n, c)
           \/ \E w \in Workflows : Unregister(n, w) \/ Pause(n, w) \/ Resume(n, w)

(* What a process does by itself, given the processor. *)
ServiceStep(n) == \/ Start(n) \/ StopEngine(n) \/ releaseLeaderLock(n)
                  \/ \E c \in todo[n] : StartNext(n, c)

ProcessStep(n) == Boot(n) \/ Stop(n) \/ Exit(n) \/ CrashWhileSaving(n)

SchedNext == \/ \E n \in Nodes : ThreadStep(n) \/ Call(n) \/ ServiceStep(n) \/ ProcessStep(n)
             \/ \E w \in Workflows : WorkerTakes(w) \/ WorkerSettles(w)

SchedSpec == SchedInit /\ [][SchedNext]_vars

(* A living process gets on with Start and with its shutdown, and its      *)
(* goroutines run.  Nobody has to start, stop or call anything.            *)
SchedFairSpec ==
    /\ SchedSpec
    /\ \A n \in Nodes : WF_vars(ServiceStep(n)) /\ WF_vars(ThreadStep(n))

-----------------------------------------------------------------------------
(* Every variable has its type; a process has one schedule per workflow,   *)
(* in memory and in the file (the maps of Service are keyed by workflow).  *)
OnePerWorkflow(S) == \A c, d \in S : c.workflow = d.workflow => c = d

SchedTypeOK ==
    /\ proc \in [Nodes -> {"down", "loaded", "registered", "started", "stopping"}]
    /\ jobs \in [Nodes -> SUBSET Config]
    /\ \A n \in Nodes : OnePerWorkflow(jobs[n])
    /\ paused \in [Nodes -> SUBSET Workflows]
    /\ running \in [Nodes -> SUBSET Workflows]
    /\ todo \in [Nodes -> SUBSET Config]
    /\ engineOn \in [Nodes -> BOOLEAN]
    /\ entries \in [Nodes -> SUBSET Config]
    /\ threads \in [Nodes -> [Slots -> Thread \cup {NoThread}]]
    /\ lockHeld \in [Nodes -> BOOLEAN]
    /\ lockFile \in BOOLEAN
    /\ \/ file \in {NoFile, Torn}
       \/ /\ file \in [state : {"saved"}, jobs : SUBSET Config, paused : SUBSET Workflows]
          /\ OnePerWorkflow(file.jobs)
    /\ queue \in [Workflows -> [waiting : 0 .. MaxJobs, executing : 0 .. MaxJobs]]
    /\ sole \subseteq Nodes
    /\ stale \subseteq Nodes

(* tryAcquireLeaderLockLocked and releaseLeaderLock, over starts, stops,   *)
(* exits and kills of any process: no two processes lead at once, and the  *)
(* lock file is there as long as one does.                                 *)
OneLeader ==
    \A n \in Nodes : lockHeld[n] => /\ lockFile
                                    /\ \A m \in Nodes : lockHeld[m] => m = n

(* Start's shutdown goroutine: whatever the cron engine has begun is over  *)
(* before the lock is given up, so cron schedules of two processes never   *)
(* fire side by side.                                                      *)
CronRunsUnderLock ==
    \A n \in Nodes : \A i \in Used(n) : threads[n][i].from = "cron" => lockHeld[n]

(* Register, Unregister and startJobLocked in any order: in a process that *)
(* has started, a workflow has at most one live trigger, the one of its    *)
(* registered schedule; and a leader has one for each schedule whose       *)
(* expression parses.                                                      *)
Triggers(n) == entries[n] \cup {threads[n][i].job : i \in {j \in Used(n) : threads[n][j].live}}

TriggersMatchRegistrations ==
    \A n \in Nodes : proc[n] = "started" /\ todo[n] = {} =>
        /\ Triggers(n) \subseteq jobs[n]
        /\ \A i, j \in Used(n) :
              threads[n][i].live /\ threads[n][j].live
                /\ threads[n][i].job.workflow = threads[n][j].job.workflow => i = j
        /\ lockHeld[n] => \A c \in jobs[n] : c.trigger # "badcron" => c \in Triggers(n)

(* The running flag of executeOnce, over re-registrations that leave old   *)
(* loops and their calls behind: it is never left set with nothing         *)
(* executing (the schedule would be silent for ever), and where no schedule*)
(* of the workflow allows overlap it counts the executions exactly.        *)
AllowsOverlap(w) == \E n \in Nodes : \E c \in Offers[n] : c.workflow = w /\ c.allowOverlap

RunningFlagExact ==
    \A n \in Nodes, w \in Workflows :
        /\ w \in running[n] => Executing(n, w) # {}
        /\ ~AllowsOverlap(w) => Cardinality(Executing(n, w)) = IF w \in running[n] THEN 1 ELSE 0

(* The schedule file, over kills inside a save, failed reads and writes      *)
(* whose errors are discarded, restarts with a file that does not decode,    *)
(* and the second load in Start: the file of a process that has been the     *)
(* only one since it booted, and whose last read or write of the file did    *)
(* not fail, holds every schedule and every pause the process has in memory, *)
(* so that a restart brings back the same ones.  One good save makes up for  *)
(* any failed one.  What breaks this is a second process that writes its own *)
(* maps, or an error that Register, Unregister, Pause or Resume has kept     *)
(* from its caller.                                                          *)
FileHolds(n) ==
    IF file.state = "saved"
    THEN file.jobs = jobs[n] /\ file.paused = paused[n]
    ELSE jobs[n] = {} /\ paused[n] = {}

ScheduleFileIsCurrent == \A n \in sole \ stale : FileHolds(n)

(* What allowOverlap = FALSE promises: main.go calls the flag "allow       *)
(* overlapping scheduled runs".  Not so: executeOnce only submits a job,   *)
(* and its flag is down again before a worker has even taken it.           *)
ScheduledRunsDoNotOverlap ==
    \A w \in Workflows : ~AllowsOverlap(w) => queue[w].executing <= 1

(* TESTING.md: "Kill the leader; the follower should acquire the lock and  *)
(* start running within one tick".  Not so: Start tries once.              *)
Leaderless == \A n \in Nodes : ~lockHeld[n]

FollowerTakesOver ==
    \A n \in Nodes : proc[n] = "started" /\ Leaderless ~> proc[n] # "started" \/ ~Leaderless

=============================================================================
