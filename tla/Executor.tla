------------------------------ MODULE Executor ------------------------------
(***************************************************************************)
(* One call of runWithID in internal/engine/executor.go: the dispatch loop *)
(* over a workflow's DAG, one goroutine per started task, the result       *)
(* channel between them, cancellation and timeout of the run's context,    *)
(* and the compensation of a failed or cancelled run.                      *)
(*                                                                         *)
(* The loop's maps are local to one goroutine, so each turn of the         *)
(* dispatch loop and each receive is one action.  The goroutines share     *)
(* with it the channel and the contexts only.                              *)
(***************************************************************************)
EXTENDS TaskGraph, Sequences

CONSTANTS
    Workflows,      \* the workflows runWithID is called with
    ClockSteps      \* by how much time.Now() may advance between two results

ASSUME ClockAssumption == ClockSteps \subseteq Nat

(* What a task's condition may ask of the task it names.  output_contains   *)
(* with nothing to look for is a kind of its own: every output has it, the  *)
(* empty output of a failed or skipped task too.                            *)
ConditionKinds == {"always", "on_success", "on_failed", "output_contains", "output_contains_nothing"}

(***************************************************************************)
(* A workflow.  Sets of tasks stand for per-task flags: registered (the    *)
(* action is in the registry), timed (Timeout > 0), delayed (RunAfter >    *)
(* 0), compensable (Compensation.Action is set).                           *)
(*                                                                         *)
(* A text is the set of the tasks its ${task.field} tokens name; 0, which  *)
(* is no task, stands for a token that no result resolves (unknown task or *)
(* field, bad syntax).  templates[t] is t's input, undo[t] the input of    *)
(* its compensation, and echoes[s][t] what the result of t inserts where a *)
(* token names it, when its status is s: an action's output or error may   *)
(* hold tokens itself.                                                     *)
(***************************************************************************)
Workflow == [order : {s \in [Tasks -> Tasks] : \A i, k \in Tasks : s[i] = s[k] => i = k},
             deps : [Tasks -> SUBSET Tasks],
             condition : [Tasks -> [kind : ConditionKinds, on : Tasks]],
             templates : [Tasks -> SUBSET (0..NTasks)],
             undo : [Tasks -> SUBSET (0..NTasks)],
             echoes : [{"SUCCESS", "FAILED", "SKIPPED"} -> [Tasks -> SUBSET (0..NTasks)]],
             attempts : [Tasks -> Int],
             registered : SUBSET Tasks,
             timed : SUBSET Tasks,
             delayed : SUBSET Tasks,
             allowFailure : SUBSET Tasks,
             compensable : SUBSET Tasks,
             maxConcurrency : Int,
             failFast : BOOLEAN,
             compensateOnFailure : BOOLEAN,
             timeout : BOOLEAN]

ASSUME WorkflowAssumption == \A w \in Workflows : w \in Workflow

VARIABLES
    wf,             \* the workflow of this run
    pc,             \* where runWithID is
    ctxDone,        \* the caller's context is done
    runCtxDone,     \* the context of the task goroutines is done
    remaining,      \* remainingDeps
    blocked,        \* blockedByFailure
    ready,          \* the ready slice
    active,         \* started tasks whose result is not received
    completed,      \* tasks with a result
    failFastTriggered,
    results,        \* the status in run.Results, NoResult where there is none
    status,         \* run.Status
    exec,           \* where each task's goroutine is
    attempt,        \* its attempts so far
    outcome,        \* the status its result will carry
    matching,       \* successful tasks whose output contains what a condition seeks
    finishedAt,     \* FinishedAt of that result
    clock,          \* the latest FinishedAt
    resultCh,       \* the buffered channel, by task
    pending,        \* compensations still to run, in order
    compensations,  \* run.CompensationResults
    compensation,   \* run.CompensationStatus
    stored          \* run.Status in the WorkflowStore

loopVars == <<remaining, blocked, ready, active, completed, failFastTriggered, results>>
taskVars == <<exec, attempt, outcome, matching, finishedAt, clock>>
endVars == <<pending, compensations, compensation, stored>>
vars == <<wf, pc, ctxDone, runCtxDone, loopVars, status, taskVars, resultCh, endVars>>

NoResult == "NONE"
TaskStatuses == {"SUCCESS", "FAILED", "SKIPPED"}
RunStatuses == {"NONE", "RUNNING", "SUCCESS", "FAILED", "CANCELLED"}
InFlight == {"executing", "backoff", "finished", "sent"}

-----------------------------------------------------------------------------
(* The workflow *)

(* ValidateWorkflow: the ill-formed inputs it rejects have no Workflow      *)
(* record, and CycleCheck models the search behind Acyclic.                 *)
ValidateWorkflow == Acyclic(wf.deps)

MaxConcurrency == IF wf.maxConcurrency <= 0 THEN 1 ELSE wf.maxConcurrency
MaxAttempts(t) == IF wf.attempts[t] <= 0 THEN 1 ELSE wf.attempts[t]

Dependents(t) == DependentsIn(wf.deps, t)
Roots == {t \in Tasks : wf.deps[t] = {}}

(* All the orders in which a range over a map may list the members of S. *)
Orders(S) == {s \in [1..Cardinality(S) -> S] : \A t \in S : \E i \in DOMAIN s : s[i] = t}

(* The members of S in the order of workflow.Tasks, which dependents keeps. *)
InOrder(S) == {s \in Orders(S) : \A i, k \in DOMAIN s : \A a, b \in Tasks :
                    i < k /\ s[i] = wf.order[a] /\ s[k] = wf.order[b] => a < b}

(* Mutant: no result yet counts as failed. *)
evaluateCondition_FailedByDefault(t) ==
    LET c == wf.condition[t]
    IN  \/ c.kind = "always"
        \/ c.kind = "on_success" /\ results[c.on] = "SUCCESS"
        \/ c.kind = "on_failed" /\ results[c.on] # "SUCCESS"
        \/ c.kind = "output_contains" /\ results[c.on] = "SUCCESS" /\ c.on \in matching
        \/ c.kind = "output_contains_nothing" /\ results[c.on] # NoResult

(* Only a successful result has an output. *)
evaluateCondition(t) ==
    LET c == wf.condition[t]
    IN  \/ c.kind = "always"
        \/ c.kind = "on_success" /\ results[c.on] = "SUCCESS"
        \/ c.kind = "on_failed" /\ results[c.on] = "FAILED"
        \/ c.kind = "output_contains" /\ results[c.on] = "SUCCESS" /\ c.on \in matching
        \/ c.kind = "output_contains_nothing" /\ results[c.on] # NoResult

(* What resolveValue puts in the place of a token that names u. *)
Inserted(u) == IF u \in Tasks /\ results[u] # NoResult THEN wf.echoes[results[u]][u] ELSE {}

(* The tokens resolveValue comes across in a text: it searches again from   *)
(* the start after each replacement, so it reads what it has inserted.      *)
Scanned(text) ==
    {u \in 0..NTasks : \A S \in SUBSET (0..NTasks) :
        text \subseteq S /\ (\A v \in S : Inserted(v) \subseteq S) => u \in S}

(* A token has no value: resolveInputTemplates returns an error there. *)
Unresolved(text) == \E u \in Scanned(text) : u \in Tasks => results[u] = NoResult

(* A token inserts itself again: the search never ends.  Which of the two   *)
(* is met first depends on the wording of the texts and on a map iteration. *)
Circular(text) == \E u \in Scanned(text) : u \in Scanned(Inserted(u))

Resolvable(text) == ~Unresolved(text) /\ ~Circular(text)

-----------------------------------------------------------------------------
(* runWithID up to the loop *)

Init ==
    /\ wf \in Workflows
    /\ pc = "start"
    /\ ctxDone \in BOOLEAN
    /\ runCtxDone = ctxDone
    /\ remaining = [t \in Tasks |-> Cardinality(wf.deps[t])]
    /\ blocked = {}
    /\ ready = <<>>
    /\ active = 0
    /\ completed = 0
    /\ failFastTriggered = FALSE
    /\ results = [t \in Tasks |-> NoResult]
    /\ status = "NONE"
    /\ exec = [t \in Tasks |-> "idle"]
    /\ attempt = [t \in Tasks |-> 0]
    /\ outcome = [t \in Tasks |-> NoResult]
    /\ matching = {}
    /\ finishedAt = [t \in Tasks |-> 0]
    /\ clock = 0
    /\ resultCh = <<>>
    /\ pending = <<>>
    /\ compensations = <<>>
    /\ compensation = "NONE"
    /\ stored = "NONE"

(* SaveRun: a store may refuse a call whose context is done. *)
SaveRun(s) == stored' = s \/ (ctxDone /\ stored' = stored)

(* ValidateWorkflow returns an error: no run is recorded. *)
Reject ==
    /\ pc = "start"
    /\ ~ValidateWorkflow
    /\ pc' = "done"
    /\ UNCHANGED <<wf, ctxDone, runCtxDone, loopVars, status, taskVars, resultCh, endVars>>

(* Mutant: tasks that wait for others are ready as well. *)
Start_EverythingReady ==
    /\ pc = "start"
    /\ ValidateWorkflow
    /\ pc' = "dispatch"
    /\ status' = "RUNNING"
    /\ SaveRun("RUNNING")
    /\ compensation' = "NOT_REQUIRED"
    /\ ready' \in Orders(Tasks)
    /\ UNCHANGED <<wf, ctxDone, runCtxDone, remaining, blocked, active, completed,
                   failFastTriggered, results, taskVars, resultCh, pending, compensations>>

(* The run is saved as RUNNING, whether SaveRun succeeds or not, and the    *)
(* tasks without dependencies are ready, in the order of a map iteration.   *)
Start ==
    /\ pc = "start"
    /\ ValidateWorkflow
    /\ pc' = "dispatch"
    /\ status' = "RUNNING"
    /\ SaveRun("RUNNING")
    /\ compensation' = "NOT_REQUIRED"
    /\ ready' \in Orders(Roots)
    /\ UNCHANGED <<wf, ctxDone, runCtxDone, remaining, blocked, active, completed,
                   failFastTriggered, results, taskVars, resultCh, pending, compensations>>

-----------------------------------------------------------------------------
(* The dispatch loop *)

(* Mutant: one task too many. *)
Dispatching_OffByOne == pc = "dispatch" /\ active <= MaxConcurrency /\ ready # <<>>

Dispatching == pc = "dispatch" /\ active < MaxConcurrency /\ ready # <<>>

(* Mutant: the new tasks replace the queue. *)
CountDown_DropsQueue(t, queue) ==
    /\ remaining' = [c \in Tasks |-> IF t \in wf.deps[c] THEN remaining[c] - 1
                                     ELSE remaining[c]]
    /\ \E freed \in InOrder({c \in Dependents(t) : remaining[c] = 1}) : ready' = freed

(* The dependents of t count down; the ones that reach zero join the queue. *)
CountDown(t, queue) ==
    /\ remaining' = [c \in Tasks |-> IF t \in wf.deps[c] THEN remaining[c] - 1
                                     ELSE remaining[c]]
    /\ \E freed \in InOrder({c \in Dependents(t) : remaining[c] = 1}) :
         ready' = queue \o freed

(* A result the loop itself writes for the task at the head of the queue. *)
Resolve(t, s) ==
    /\ results' = [results EXCEPT ![t] = s]
    /\ completed' = completed + 1
    /\ CountDown(t, Tail(ready))
    /\ UNCHANGED <<wf, pc, ctxDone, active, status, taskVars, resultCh, endVars>>

(* Mutant: a skipped task does not block its own dependents. *)
SkipBlocked_StopsThere ==
    /\ Dispatching
    /\ Head(ready) \in blocked
    /\ Resolve(Head(ready), "SKIPPED")
    /\ UNCHANGED <<blocked, runCtxDone, failFastTriggered>>

(* Skipped because of an upstream failure, which it passes on. *)
SkipBlocked ==
    /\ Dispatching
    /\ Head(ready) \in blocked
    /\ Resolve(Head(ready), "SKIPPED")
    /\ blocked' = blocked \cup Dependents(Head(ready))
    /\ UNCHANGED <<runCtxDone, failFastTriggered>>

(* Skipped by its own condition: its dependents may still run. *)
SkipByCondition ==
    /\ Dispatching
    /\ Head(ready) \notin blocked
    /\ ~evaluateCondition(Head(ready))
    /\ Resolve(Head(ready), "SKIPPED")
    /\ UNCHANGED <<blocked, runCtxDone, failFastTriggered>>

(* The input does not resolve.  The dependents are blocked even when the    *)
(* task may fail; AllowFailure only spares the run from fail-fast.          *)
FailTemplate ==
    LET t == Head(ready)
        critical == wf.failFast /\ t \notin wf.allowFailure
    IN  /\ Dispatching
        /\ t \notin blocked
        /\ evaluateCondition(t)
        /\ Unresolved(wf.templates[t])
        /\ Resolve(t, "FAILED")
        /\ blocked' = blocked \cup Dependents(t)
        /\ failFastTriggered' = (failFastTriggered \/ critical)
        /\ runCtxDone' = (runCtxDone \/ critical)

(* The search for tokens never ends, and nothing interrupts it: the loop    *)
(* looks at no context and receives no result any more.                     *)
SpinTemplate ==
    /\ Dispatching
    /\ Head(ready) \notin blocked
    /\ evaluateCondition(Head(ready))
    /\ Circular(wf.templates[Head(ready)])
    /\ pc' = "spin"
    /\ UNCHANGED <<wf, ctxDone, runCtxDone, loopVars, status, taskVars, resultCh, endVars>>

(* startTask. *)
Launch(t) ==
    /\ active' = active + 1
    /\ exec' = [exec EXCEPT ![t] = "executing"]
    /\ UNCHANGED <<wf, ctxDone, runCtxDone, remaining, blocked, completed, failFastTriggered,
                   results, status, attempt, outcome, matching, finishedAt, clock, resultCh,
                   endVars>>

Startable ==
    /\ Dispatching
    /\ Head(ready) \notin blocked
    /\ evaluateCondition(Head(ready))
    /\ Resolvable(wf.templates[Head(ready)])

StartTask ==
    /\ Startable
    /\ Head(ready) \notin wf.delayed
    /\ ready' = Tail(ready)
    /\ Launch(Head(ready))
    /\ UNCHANGED pc

(* RunAfter: the loop itself sleeps, ... *)
DelayTask ==
    /\ Startable
    /\ Head(ready) \in wf.delayed
    /\ pc' = "delay"
    /\ UNCHANGED <<wf, ctxDone, runCtxDone, loopVars, status, taskVars, resultCh, endVars>>

(* ... and starts the task when the time is over or the context is done. *)
StartDelayedTask ==
    /\ pc = "delay"
    /\ pc' = "dispatch"
    /\ ready' = Tail(ready)
    /\ Launch(Head(ready))

(* Mutant: the loop goes round instead of ending. *)
StopDispatching_Spins ==
    /\ pc = "dispatch"
    /\ ~(active < MaxConcurrency /\ ready # <<>>)
    /\ pc' = IF active = 0 THEN "dispatch" ELSE "wait"
    /\ UNCHANGED <<wf, ctxDone, runCtxDone, loopVars, status, taskVars, resultCh, endVars>>

(* No free slot or nothing ready.  With nothing running either, the loop    *)
(* is over; otherwise it waits.                                             *)
StopDispatching ==
    /\ pc = "dispatch"
    /\ ~(active < MaxConcurrency /\ ready # <<>>)
    /\ pc' = IF active = 0 THEN "finish" ELSE "wait"
    /\ UNCHANGED <<wf, ctxDone, runCtxDone, loopVars, status, taskVars, resultCh, endVars>>

(* The select: the context is done.  With a result in the channel as well,  *)
(* either branch may be taken.                                              *)
ObserveDone ==
    /\ pc = "wait"
    /\ runCtxDone
    /\ status' = IF failFastTriggered THEN "FAILED" ELSE "CANCELLED"
    /\ pc' = "finish"
    /\ UNCHANGED <<wf, ctxDone, runCtxDone, loopVars, taskVars, resultCh, endVars>>

(* The select: a result arrives. *)
ReceiveResult ==
    LET t == Head(resultCh)
        critical == outcome[t] = "FAILED" /\ t \notin wf.allowFailure
    IN  /\ pc = "wait"
        /\ resultCh # <<>>
        /\ resultCh' = Tail(resultCh)
        /\ active' = active - 1
        /\ completed' = completed + 1
        /\ results' = [results EXCEPT ![t] = outcome[t]]
        /\ blocked' = IF critical THEN blocked \cup Dependents(t) ELSE blocked
        /\ failFastTriggered' = (failFastTriggered \/ (critical /\ wf.failFast))
        /\ runCtxDone' = (runCtxDone \/ (critical /\ wf.failFast))
        /\ CountDown(t, ready)
        /\ pc' = IF completed + 1 < NTasks THEN "dispatch" ELSE "finish"
        /\ UNCHANGED <<wf, ctxDone, status, taskVars, endVars>>

-----------------------------------------------------------------------------
(* The end of the run *)

(* markUnfinishedTasksAsSkipped. *)
Completed(r) == [t \in Tasks |-> IF r[t] = NoResult THEN "SKIPPED" ELSE r[t]]

(* Mutant: a failure that was allowed does not count. *)
deriveFinalStatus_Forgives(r) ==
    IF \E t \in Tasks \ wf.allowFailure : r[t] = "FAILED" THEN "FAILED" ELSE "SUCCESS"

deriveFinalStatus(r) == IF \E t \in Tasks : r[t] = "FAILED" THEN "FAILED" ELSE "SUCCESS"

(* The tasks whose result is in run.Results and can be undone. *)
Eligible(r) == {t \in wf.compensable : r[t] = "SUCCESS"}

(* Mutant: the sort puts the earliest result first. *)
CompensatedBefore_Ascending(t, u) ==
    \/ finishedAt[t] < finishedAt[u]
    \/ finishedAt[t] = finishedAt[u] /\ t > u

(* The order of runCompensation's sort: latest FinishedAt first, ties by ID. *)
CompensatedBefore(t, u) ==
    \/ finishedAt[t] > finishedAt[u]
    \/ finishedAt[t] = finishedAt[u] /\ t > u

CompensationOrder(E) ==
    [i \in 1..Cardinality(E) |->
        CHOOSE t \in E : Cardinality({u \in E : CompensatedBefore(u, t)}) = i - 1]

(* FINISH: statuses are settled and, for a run that did not succeed, the    *)
(* successful tasks of run.Results are queued for compensation.             *)
Finish ==
    LET final == IF status = "RUNNING" THEN deriveFinalStatus(Completed(results)) ELSE status
        compensate == final \in {"FAILED", "CANCELLED"} /\ wf.compensateOnFailure
    IN  /\ pc = "finish"
        /\ results' = Completed(results)
        /\ status' = final
        /\ pending' = IF compensate THEN CompensationOrder(Eligible(results)) ELSE <<>>
        /\ compensation' = IF final = "SUCCESS" THEN "NOT_REQUIRED" ELSE "SKIPPED"
        /\ pc' = IF compensate THEN "compensate" ELSE "save"
        /\ UNCHANGED <<wf, ctxDone, runCtxDone, remaining, blocked, ready, active, completed,
                       failFastTriggered, taskVars, resultCh, compensations, stored>>

(* runCompensationTask, on the caller's context: its action is missing, its *)
(* input does not resolve, or Execute fails; or it succeeds.                *)
Compensate(s) ==
    /\ pc = "compensate"
    /\ pending # <<>>
    /\ s = "SUCCESS" => Resolvable(wf.undo[Head(pending)])
    /\ pending' = Tail(pending)
    /\ compensations' = Append(compensations, [task |-> Head(pending), status |-> s])
    /\ UNCHANGED <<wf, pc, ctxDone, runCtxDone, loopVars, status, taskVars, resultCh,
                   compensation, stored>>

(* The input of a compensation is resolved by the same search. *)
SpinCompensation ==
    /\ pc = "compensate"
    /\ pending # <<>>
    /\ Circular(wf.undo[Head(pending)])
    /\ pc' = "spin"
    /\ UNCHANGED <<wf, ctxDone, runCtxDone, loopVars, status, taskVars, resultCh, endVars>>

(* deriveCompensationStatus. *)
EndCompensation ==
    /\ pc = "compensate"
    /\ pending = <<>>
    /\ pc' = "save"
    /\ compensation' =
         IF compensations = <<>> THEN "SKIPPED"
         ELSE IF \E i \in DOMAIN compensations : compensations[i].status = "FAILED" THEN "FAILED"
         ELSE "SUCCESS"
    /\ UNCHANGED <<wf, ctxDone, runCtxDone, loopVars, status, taskVars, resultCh, pending,
                   compensations, stored>>

(* The last SaveRun; on return the deferred cancelBase ends the run context. *)
Return ==
    /\ pc = "save"
    /\ pc' = "done"
    /\ SaveRun(status)
    /\ runCtxDone' = TRUE
    /\ UNCHANGED <<wf, ctxDone, loopVars, status, taskVars, resultCh, pending, compensations,
                   compensation>>

-----------------------------------------------------------------------------
(* runTask, in the task's goroutine *)

(* The goroutine has its result: outcome and FinishedAt. *)
TaskEnds(t, s) ==
    /\ exec' = [exec EXCEPT ![t] = "finished"]
    /\ outcome' = [outcome EXCEPT ![t] = s]
    /\ \E d \in ClockSteps :
         /\ clock' = clock + d
         /\ finishedAt' = [finishedAt EXCEPT ![t] = clock + d]

Sought(t) == \E c \in Tasks : wf.condition[c] = [kind |-> "output_contains", on |-> t]

TaskSucceeds(t) ==
    /\ exec[t] = "executing"
    /\ t \in wf.registered
    /\ attempt' = [attempt EXCEPT ![t] = @ + 1]
    /\ TaskEnds(t, "SUCCESS")
    /\ matching' = matching \/ (Sought(t) /\ matching' = matching \cup {t})
    /\ UNCHANGED <<wf, pc, ctxDone, runCtxDone, loopVars, status, resultCh, endVars>>

(* The action is not registered: no attempt is made. *)
ActionMissing(t) ==
    /\ exec[t] = "executing"
    /\ t \notin wf.registered
    /\ TaskEnds(t, "FAILED")
    /\ UNCHANGED <<wf, pc, ctxDone, runCtxDone, loopVars, status, attempt, matching, resultCh,
                   endVars>>

(* Execute returns an error of its own: back off, or give up at the limit. *)
TaskErrs(t) ==
    /\ exec[t] = "executing"
    /\ t \in wf.registered
    /\ attempt' = [attempt EXCEPT ![t] = @ + 1]
    /\ IF attempt[t] + 1 < MaxAttempts(t)
       THEN /\ exec' = [exec EXCEPT ![t] = "backoff"]
            /\ UNCHANGED <<outcome, finishedAt, clock>>
       ELSE TaskEnds(t, "FAILED")
    /\ UNCHANGED <<wf, pc, ctxDone, runCtxDone, loopVars, status, matching, resultCh, endVars>>

(* Execute returns a context error, the run's or the task timeout's: the    *)
(* task is not retried.                                                     *)
TaskInterrupted(t) ==
    /\ exec[t] = "executing"
    /\ t \in wf.registered
    /\ runCtxDone \/ t \in wf.timed
    /\ attempt' = [attempt EXCEPT ![t] = @ + 1]
    /\ TaskEnds(t, "FAILED")
    /\ UNCHANGED <<wf, pc, ctxDone, runCtxDone, loopVars, status, matching, resultCh, endVars>>

(* The backoff is over. *)
TaskRetries(t) ==
    /\ exec[t] = "backoff"
    /\ exec' = [exec EXCEPT ![t] = "executing"]
    /\ UNCHANGED <<wf, pc, ctxDone, runCtxDone, loopVars, status, attempt, outcome, matching,
                   finishedAt, clock, resultCh, endVars>>

(* The context is done during the backoff. *)
TaskGivesUp(t) ==
    /\ exec[t] = "backoff"
    /\ runCtxDone
    /\ TaskEnds(t, "FAILED")
    /\ UNCHANGED <<wf, pc, ctxDone, runCtxDone, loopVars, status, attempt, matching, resultCh,
                   endVars>>

(* resultCh <- ...: the channel has room for every task. *)
SendResult(t) ==
    /\ exec[t] = "finished"
    /\ Len(resultCh) < NTasks
    /\ exec' = [exec EXCEPT ![t] = "sent"]
    /\ resultCh' = Append(resultCh, t)
    /\ UNCHANGED <<wf, pc, ctxDone, runCtxDone, loopVars, status, attempt, outcome, matching,
                   finishedAt, clock, endVars>>

-----------------------------------------------------------------------------
(* The context *)

(* The caller cancels: the cancel watcher or the drain timeout of a worker, *)
(* a client that goes away, the end of the process.                         *)
CancelRun ==
    /\ ~ctxDone
    /\ pc # "done"
    /\ ctxDone' = TRUE
    /\ runCtxDone' = TRUE
    /\ UNCHANGED <<wf, pc, loopVars, status, taskVars, resultCh, endVars>>

(* workflow.Timeout ends the tasks' context, not the caller's. *)
RunTimesOut ==
    /\ wf.timeout
    /\ pc \notin {"start", "done"}
    /\ ~runCtxDone
    /\ runCtxDone' = TRUE
    /\ UNCHANGED <<wf, pc, ctxDone, loopVars, status, taskVars, resultCh, endVars>>

(* runWithID has returned, or never will, and its goroutines are gone. *)
Terminated ==
    /\ pc \in {"done", "spin"}
    /\ \A t \in Tasks : exec[t] \in {"idle", "sent"}
    /\ UNCHANGED vars

-----------------------------------------------------------------------------
Dispatch ==
    \/ SkipBlocked \/ SkipByCondition \/ FailTemplate \/ SpinTemplate
    \/ StartTask \/ DelayTask \/ StartDelayedTask \/ StopDispatching

MainStep ==
    \/ Reject \/ Start
    \/ Dispatch
    \/ ObserveDone \/ ReceiveResult
    \/ Finish
    \/ \E s \in {"SUCCESS", "FAILED"} : Compensate(s)
    \/ SpinCompensation \/ EndCompensation \/ Return

TaskStep(t) ==
    \/ TaskSucceeds(t) \/ ActionMissing(t) \/ TaskErrs(t) \/ TaskInterrupted(t)
    \/ TaskRetries(t) \/ TaskGivesUp(t) \/ SendResult(t)

Next ==
    \/ MainStep
    \/ \E t \in Tasks : TaskStep(t)
    \/ CancelRun \/ RunTimesOut
    \/ Terminated

Spec == Init /\ [][Next]_vars

(* The Go scheduler runs every runnable goroutine, and every action returns. *)
FairSpec == Spec /\ WF_vars(MainStep) /\ \A t \in Tasks : WF_vars(TaskStep(t))

-----------------------------------------------------------------------------
(* Properties *)

(* Every variable has its type. *)
TypeOK ==
    /\ wf \in Workflows
    /\ pc \in {"start", "dispatch", "delay", "wait", "finish", "compensate", "save", "done",
              "spin"}
    /\ ctxDone \in BOOLEAN
    /\ runCtxDone \in BOOLEAN
    /\ remaining \in [Tasks -> 0..NTasks]
    /\ blocked \subseteq Tasks
    /\ ready \in Seq(Tasks)
    /\ active \in 0..NTasks
    /\ completed \in 0..NTasks
    /\ failFastTriggered \in BOOLEAN
    /\ results \in [Tasks -> TaskStatuses \cup {NoResult}]
    /\ status \in RunStatuses
    /\ exec \in [Tasks -> InFlight \cup {"idle"}]
    /\ attempt \in [Tasks -> Nat]
    /\ outcome \in [Tasks -> TaskStatuses \cup {NoResult}]
    /\ matching \subseteq Tasks
    /\ finishedAt \in [Tasks -> Nat]
    /\ clock \in Nat
    /\ resultCh \in Seq(Tasks)
    /\ pending \in Seq(Tasks)
    /\ compensations \in Seq([task : Tasks, status : {"SUCCESS", "FAILED"}])
    /\ compensation \in {"NONE", "NOT_REQUIRED", "SUCCESS", "FAILED", "SKIPPED"}
    /\ stored \in RunStatuses

Upstream(t) == UpstreamIn(wf.deps, t)
Started(t) == exec[t] # "idle"

(* maxConcurrency: no more actions execute at once than the workflow       *)
(* allows, and the loop's count of running tasks is exact while it runs.    *)
ConcurrencyBounded ==
    LET unreceived == {t \in Tasks : Started(t) /\ results[t] = NoResult}
    IN  /\ Cardinality({t \in Tasks : exec[t] \in {"executing", "backoff"}}) <= MaxConcurrency
        /\ pc \in {"dispatch", "delay", "wait"} => active = Cardinality(unreceived)

(* A task starts only after every task it waits for, directly or not, has a *)
(* result, and never downstream of a failure that was not allowed.          *)
StartsAfterUpstream ==
    \A t \in Tasks : Started(t) =>
        \A u \in Upstream(t) : /\ results[u] # NoResult
                               /\ results[u] = "FAILED" => u \in wf.allowFailure

(* A loop that was not cut short by its context has given every task of the *)
(* workflow a result: no dependency count is ever lost.                     *)
NoTaskForgotten ==
    pc = "finish" /\ status = "RUNNING" => \A t \in Tasks : results[t] # NoResult

(* A run that fail-fast stopped is recorded as FAILED, whatever cancelled   *)
(* its context afterwards; a run that nobody cut short is never recorded as *)
(* CANCELLED; and a run recorded as SUCCESS leaves no goroutine behind and  *)
(* no task that failed, allowed failures included.                          *)
EndStatusIsExplained ==
    /\ pc = "done" => /\ failFastTriggered => status = "FAILED"
                      /\ status = "CANCELLED" => ctxDone \/ wf.timeout
    /\ stored = "SUCCESS" => \A t \in Tasks : /\ exec[t] \in {"idle", "sent"}
                                              /\ outcome[t] # "FAILED"

(* "only one branch should execute per run": of two tasks conditioned on    *)
(* the success and on the failure of the same task, at most one starts.     *)
OneBranchRuns ==
    \A t, u \in Tasks :
        /\ wf.condition[t].kind = "on_success"
        /\ wf.condition[u].kind = "on_failed"
        /\ wf.condition[t].on = wf.condition[u].on
        => ~(Started(t) /\ Started(u))

(* Compensation undoes nothing twice, undoes only tasks whose action really *)
(* succeeded, and undoes a task before the tasks it depended on.  The one   *)
(* exception the code has: two results that carry the same FinishedAt are   *)
(* undone by descending ID, whichever of the two waited for the other.      *)
CompensationReversesUpstream ==
    \A i, k \in DOMAIN compensations :
        LET t == compensations[i].task
            u == compensations[k].task
        IN  /\ i < k => /\ t # u
                        /\ t \in Upstream(u) => finishedAt[t] = finishedAt[u] /\ t > u
            /\ outcome[t] = "SUCCESS"

(* The results a result's text refers to, whatever statuses they have. *)
Refers == [t \in Tasks |-> UNION {wf.echoes[s][t] : s \in TaskStatuses}]

(* The run returns and its goroutines end, unless the text of some result   *)
(* leads back to that result: then resolveValue may search forever, in the  *)
(* dispatch loop or in a compensation, and no timeout or cancellation ends  *)
(* the run.                                                                 *)
RunReturns ==
    Acyclic(Refers) => <>[](pc = "done" /\ \A t \in Tasks : exec[t] \in {"idle", "sent"})

(* Reverse-order compensation of what completed: a compensable task whose   *)
(* successful result was sent before FINISH is undone.                      *)
SentSuccessIsCompensated ==
    [][pc = "finish" /\ pc' = "compensate" =>
         \A i \in DOMAIN resultCh :
            outcome[resultCh[i]] = "SUCCESS" /\ resultCh[i] \in wf.compensable =>
                \E k \in DOMAIN pending' : pending'[k] = resultCh[i]]_vars

=============================================================================
