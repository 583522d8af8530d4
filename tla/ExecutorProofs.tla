--------------------------- MODULE ExecutorProofs ---------------------------
(***************************************************************************)
(* Theorems about Executor for every number of tasks, every workflow, any  *)
(* order of the goroutines, and any cancellation and timeout.              *)
(***************************************************************************)
EXTENDS Executor, FiniteSetTheorems, FunctionTheorems, TLAPS

(* Where the maps and counters of the dispatch loop are in use. *)
Loop == {"start", "dispatch", "delay", "wait", "finish"}
Working == {"dispatch", "delay", "wait"}

InSeq(x, s) == \E i \in DOMAIN s : s[i] = x
NoDup(s) == \A i, k \in DOMAIN s : s[i] = s[k] => i = k

Resolved == {t \in Tasks : results[t] # NoResult}
Unreceived == {t \in Tasks : Started(t) /\ results[t] = NoResult}
Running == {t \in Tasks : exec[t] \in {"executing", "backoff"}}
OpenDeps(t) == {u \in wf.deps[t] : results[u] = NoResult}

(* Nothing stands between the task and its dispatch. *)
Due(t) == results[t] = NoResult /\ exec[t] = "idle" /\ OpenDeps(t) = {}

(* The branch conditions of t are met. *)
BranchTaken(t) ==
    LET c == wf.condition[t]
    IN  /\ c.kind = "on_success" => results[c.on] = "SUCCESS"
        /\ c.kind = "on_failed" => results[c.on] = "FAILED"

-----------------------------------------------------------------------------
(* The inductive invariant, in parts. *)

(* The loop's counters are exact, and no slot is overbooked. *)
CountsInv ==
    pc \in Loop => /\ \A t \in Tasks : remaining[t] = Cardinality(OpenDeps(t))
                   /\ active = Cardinality(Unreceived)
                   /\ active <= MaxConcurrency
                   /\ completed = Cardinality(Resolved)

(* The ready slice holds each task that is due, once. *)
ReadyInv ==
    pc \in Loop => /\ NoDup(ready)
                   /\ \A t \in Tasks : InSeq(t, ready) => Due(t)
                   /\ pc # "start" => \A t \in Tasks : Due(t) => InSeq(t, ready)
                   /\ pc = "delay" => /\ ready # <<>>
                                      /\ active < MaxConcurrency
                                      /\ Head(ready) \notin blocked
                                      /\ BranchTaken(Head(ready))

(* A goroutine has an outcome once it has finished; a result in the loop's  *)
(* map is that outcome, or the loop's own verdict on a task never started.  *)
GoroutineInv ==
    \A t \in Tasks :
        /\ outcome[t] \in {NoResult, "SUCCESS", "FAILED"}
        /\ outcome[t] # NoResult <=> exec[t] \in {"finished", "sent"}
        /\ pc = "start" => exec[t] = "idle" /\ results[t] = NoResult
        /\ pc \in Loop /\ results[t] # NoResult =>
              /\ exec[t] \in {"idle", "sent"}
              /\ exec[t] = "sent" => results[t] = outcome[t]
              /\ exec[t] = "idle" => results[t] # "SUCCESS"

(* A result in the channel was sent once and is not yet received. *)
ChannelInv ==
    pc \in Loop => /\ NoDup(resultCh)
                   /\ \A t \in Tasks : InSeq(t, resultCh) => exec[t] = "sent" /\ results[t] = NoResult

(* The order of the graph, and how blockedByFailure follows it. *)
GraphInv ==
    /\ pc \in Loop \ {"start"} => Acyclic(wf.deps)
    /\ pc \in Loop => \A t \in Tasks :
          /\ Started(t) \/ results[t] # NoResult => OpenDeps(t) = {}
          /\ Started(t) => t \notin blocked
          /\ \A u \in wf.deps[t] :
                \/ results[u] = "FAILED" /\ u \notin wf.allowFailure
                \/ results[u] # NoResult /\ u \in blocked
                => t \in blocked

BranchInv == \A t \in Tasks : Started(t) => BranchTaken(t)

(* Nothing upstream of a started task is still running. *)
SettledInv == \A t \in Tasks : Started(t) => \A u \in Upstream(t) : exec[u] \in {"idle", "sent"}

SlotsInv == Cardinality(Running) <= MaxConcurrency

(* What the status says at each place of runWithID. *)
StatusInv ==
    /\ failFastTriggered => \E t \in Tasks : results[t] = "FAILED"
    /\ runCtxDone => ctxDone \/ failFastTriggered \/ wf.timeout \/ pc = "done"
    /\ pc = "start" => status = "NONE" /\ ~failFastTriggered
    /\ pc \in Working => status = "RUNNING"
    /\ pc = "finish" => status \in {"RUNNING", "FAILED", "CANCELLED"}
    /\ status = "CANCELLED" => ~failFastTriggered /\ (ctxDone \/ wf.timeout)
    /\ status \in {"NONE", "SUCCESS"} => ~failFastTriggered
    /\ pc \in {"compensate", "save", "done"} => status # "RUNNING"
    /\ status = "SUCCESS" => /\ pc \in {"compensate", "save", "done"}
                             /\ \A t \in Tasks : /\ exec[t] \in {"idle", "sent"}
                                                 /\ outcome[t] # "FAILED"
    /\ pc = "compensate" => status # "SUCCESS"
    /\ stored = "SUCCESS" => status = "SUCCESS"

(* FinishedAt puts no finished task before the tasks it waited for. *)
ClockInv ==
    /\ \A t \in Tasks : outcome[t] # NoResult => finishedAt[t] <= clock
    /\ \A t \in Tasks : outcome[t] # NoResult =>
          \A u \in Upstream(t) : outcome[u] # NoResult => finishedAt[u] <= finishedAt[t]

(* What was undone and what is still to be undone, in the order of the sort. *)
CompensationInv ==
    /\ pc \in Loop => pending = <<>> /\ compensations = <<>>
    /\ \A i \in DOMAIN pending : outcome[pending[i]] = "SUCCESS"
    /\ \A i \in DOMAIN compensations : outcome[compensations[i].task] = "SUCCESS"
    /\ \A i, k \in DOMAIN pending : i < k => CompensatedBefore(pending[i], pending[k])
    /\ \A i \in DOMAIN compensations, k \in DOMAIN pending :
          CompensatedBefore(compensations[i].task, pending[k])
    /\ \A i, k \in DOMAIN compensations :
          i < k => CompensatedBefore(compensations[i].task, compensations[k].task)

(* The loop's own data, ... *)
LoopInv ==
    /\ TypeOK
    /\ CountsInv
    /\ ReadyInv
    /\ GoroutineInv
    /\ ChannelInv
    /\ GraphInv
    /\ BranchInv

(* ... what follows from it while the loop runs and stays true after it,    *)
(* and what the end of the run adds.                                        *)
EndInv ==
    /\ StartsAfterUpstream
    /\ SettledInv
    /\ SlotsInv
    /\ StatusInv
    /\ NoTaskForgotten
    /\ ClockInv
    /\ CompensationInv

-----------------------------------------------------------------------------
(* Facts about the operators the model is built from. *)

(* The elements of a sequence. *)
LEMMA ElementType ==
  ASSUME NEW S, NEW s \in Seq(S)
  PROVE  \A i \in DOMAIN s : s[i] \in S
OBVIOUS

(* A sequence without duplicates loses exactly its head. *)
LEMMA TailFacts ==
  ASSUME NEW S, NEW s \in Seq(S), s # <<>>, NoDup(s)
  PROVE  /\ Head(s) \in S
         /\ InSeq(Head(s), s)
         /\ Tail(s) \in Seq(S)
         /\ NoDup(Tail(s))
         /\ \A x : InSeq(x, Tail(s)) <=> InSeq(x, s) /\ x # Head(s)
<1>1. Len(s) \in Nat /\ Len(s) > 0 /\ DOMAIN s = 1..Len(s) /\ Head(s) = s[1] /\ 1 \in DOMAIN s
  OBVIOUS
<1>2. /\ Tail(s) \in Seq(S) /\ DOMAIN Tail(s) = 1..(Len(s) - 1)
      /\ \A i \in 1..(Len(s) - 1) : Tail(s)[i] = s[i + 1]
  OBVIOUS
<1>3. \A i \in DOMAIN Tail(s) : i + 1 \in DOMAIN s /\ Tail(s)[i] = s[i + 1]
  BY <1>1, <1>2
<1>4. \A i \in DOMAIN s \ {1} : i - 1 \in DOMAIN Tail(s) /\ Tail(s)[i - 1] = s[i]
  BY <1>1, <1>2
<1>5. NoDup(Tail(s))
  BY <1>1, <1>2, <1>3 DEF NoDup
<1>6. ASSUME NEW x PROVE InSeq(x, Tail(s)) <=> InSeq(x, s) /\ x # Head(s)
  <2>1. InSeq(x, Tail(s)) => InSeq(x, s) /\ x # Head(s)
    BY <1>1, <1>2, <1>3 DEF InSeq, NoDup
  <2>2. InSeq(x, s) /\ x # Head(s) => InSeq(x, Tail(s))
    BY <1>1, <1>4 DEF InSeq
  <2> QED BY <2>1, <2>2
<1> QED BY <1>1, <1>2, <1>5, <1>6 DEF InSeq

(* The members of a concatenation. *)
LEMMA ConcatFacts ==
  ASSUME NEW S, NEW s \in Seq(S), NEW r \in Seq(S), NoDup(s), NoDup(r),
         \A x : ~(InSeq(x, s) /\ InSeq(x, r))
  PROVE  /\ s \o r \in Seq(S)
         /\ NoDup(s \o r)
         /\ \A x : InSeq(x, s \o r) <=> InSeq(x, s) \/ InSeq(x, r)
<1>1. /\ s \o r \in Seq(S) /\ Len(s) \in Nat /\ Len(r) \in Nat
      /\ DOMAIN s = 1..Len(s) /\ DOMAIN r = 1..Len(r)
      /\ DOMAIN (s \o r) = 1..(Len(s) + Len(r))
      /\ \A i \in 1..(Len(s) + Len(r)) :
            (s \o r)[i] = IF i <= Len(s) THEN s[i] ELSE r[i - Len(s)]
  OBVIOUS
<1>2. \A i \in DOMAIN s : i \in DOMAIN (s \o r) /\ (s \o r)[i] = s[i]
  BY <1>1
<1>3. \A i \in DOMAIN r : i + Len(s) \in DOMAIN (s \o r) /\ (s \o r)[i + Len(s)] = r[i]
  BY <1>1
<1>4. \A i \in DOMAIN (s \o r) :
         \/ i \in DOMAIN s /\ (s \o r)[i] = s[i]
         \/ i - Len(s) \in DOMAIN r /\ (s \o r)[i] = r[i - Len(s)] /\ i \in Int
  BY <1>1
<1>5. \A x : InSeq(x, s \o r) <=> InSeq(x, s) \/ InSeq(x, r)
  BY <1>2, <1>3, <1>4 DEF InSeq
<1>6. NoDup(s \o r)
  <2> SUFFICES ASSUME NEW i \in DOMAIN (s \o r), NEW k \in DOMAIN (s \o r),
                      (s \o r)[i] = (s \o r)[k]
               PROVE  i = k
    BY DEF NoDup
  <2> DEFINE v == (s \o r)[i]
  <2>1. CASE i \in DOMAIN s /\ v = s[i]
    <3>1. InSeq(v, s)
      BY <2>1 DEF InSeq
    <3>2. k \in DOMAIN s /\ v = s[k]
      BY <1>4, <3>1 DEF InSeq
    <3> QED BY <2>1, <3>2 DEF NoDup
  <2>2. CASE i - Len(s) \in DOMAIN r /\ v = r[i - Len(s)] /\ i \in Int
    <3>1. InSeq(v, r)
      BY <2>2 DEF InSeq
    <3>2. k - Len(s) \in DOMAIN r /\ v = r[k - Len(s)] /\ k \in Int
      BY <1>4, <3>1 DEF InSeq
    <3>3. i - Len(s) = k - Len(s)
      BY <2>2, <3>2 DEF NoDup
    <3> QED BY <1>1, <2>2, <3>2, <3>3
  <2> QED BY <1>4, <2>1, <2>2
<1> QED BY <1>1, <1>5, <1>6

(* A new last element. *)
LEMMA AppendFacts ==
  ASSUME NEW S, NEW s \in Seq(S), NEW e \in S, NoDup(s), ~InSeq(e, s)
  PROVE  /\ Append(s, e) \in Seq(S)
         /\ NoDup(Append(s, e))
         /\ \A x : InSeq(x, Append(s, e)) <=> InSeq(x, s) \/ x = e
<1>1. /\ Append(s, e) \in Seq(S) /\ Len(s) \in Nat /\ DOMAIN s = 1..Len(s)
      /\ DOMAIN Append(s, e) = 1..(Len(s) + 1)
      /\ Append(s, e)[Len(s) + 1] = e
      /\ \A i \in 1..Len(s) : Append(s, e)[i] = s[i]
  OBVIOUS
<1>2. \A i \in 1..(Len(s) + 1) : i \in 1..Len(s) \/ i = Len(s) + 1
  BY <1>1
<1>3. \A i \in 1..Len(s) : i \in DOMAIN Append(s, e)
  BY <1>1
<1>4. Len(s) + 1 \in DOMAIN Append(s, e)
  BY <1>1
<1>5. NoDup(Append(s, e))
  BY <1>1, <1>2 DEF NoDup, InSeq
<1>6. \A x : InSeq(x, Append(s, e)) <=> InSeq(x, s) \/ x = e
  BY <1>1, <1>2, <1>3, <1>4 DEF InSeq
<1> QED BY <1>1, <1>5, <1>6

(* Tasks are finitely many, and so is any set of them. *)
LEMMA TaskSetFacts ==
  /\ IsFiniteSet(Tasks) /\ Cardinality(Tasks) = NTasks
  /\ \A S \in SUBSET Tasks : /\ IsFiniteSet(S) /\ Cardinality(S) \in 0..NTasks
                             /\ Cardinality(S) = NTasks => S = Tasks
<1>1. IsFiniteSet(Tasks) /\ Cardinality(Tasks) = NTasks
  BY FS_Interval, NTasksAssumption DEF Tasks
<1>2. ASSUME NEW S \in SUBSET Tasks
      PROVE  /\ IsFiniteSet(S) /\ Cardinality(S) \in 0..NTasks
             /\ Cardinality(S) = NTasks => S = Tasks
  <2>1. /\ IsFiniteSet(S) /\ Cardinality(S) <= Cardinality(Tasks)
        /\ Cardinality(S) = Cardinality(Tasks) => S = Tasks
    BY <1>1, FS_Subset
  <2>2. Cardinality(S) \in Nat
    BY <2>1, FS_CardinalityType
  <2> QED BY <1>1, <2>1, <2>2, NTasksAssumption
<1> QED BY <1>1, <1>2

(* One task more or less in a set of tasks. *)
LEMMA CountFacts ==
  /\ \A S \in SUBSET Tasks, t \in Tasks :
        t \notin S => Cardinality(S \cup {t}) = Cardinality(S) + 1
  /\ \A S \in SUBSET Tasks, t \in Tasks :
        t \in S => Cardinality(S \ {t}) = Cardinality(S) - 1
  /\ \A S \in SUBSET Tasks : Cardinality(S) = 0 <=> S = {}
  /\ \A S, R \in SUBSET Tasks : S \subseteq R => Cardinality(S) <= Cardinality(R)
<1>1. ASSUME NEW S \in SUBSET Tasks, NEW t \in Tasks, t \notin S
      PROVE  Cardinality(S \cup {t}) = Cardinality(S) + 1
  <2>1. IsFiniteSet(S)
    BY TaskSetFacts
  <2> QED BY <1>1, <2>1, FS_AddElement
<1>2. ASSUME NEW S \in SUBSET Tasks, NEW t \in Tasks, t \in S
      PROVE  Cardinality(S \ {t}) = Cardinality(S) - 1
  <2>1. IsFiniteSet(S)
    BY TaskSetFacts
  <2> QED BY <1>2, <2>1, FS_RemoveElement
<1>3. ASSUME NEW S \in SUBSET Tasks PROVE Cardinality(S) = 0 <=> S = {}
  <2>1. IsFiniteSet(S)
    BY TaskSetFacts
  <2> QED BY <2>1, FS_EmptySet
<1>4. ASSUME NEW S \in SUBSET Tasks, NEW R \in SUBSET Tasks, S \subseteq R
      PROVE  Cardinality(S) <= Cardinality(R)
  <2>1. IsFiniteSet(R)
    BY TaskSetFacts
  <2> QED BY <1>4, <2>1, FS_Subset
<1> QED BY <1>1, <1>2, <1>3, <1>4

(* An order of a set of tasks lists each member once. *)
LEMMA OrdersFacts ==
  ASSUME NEW S \in SUBSET Tasks, NEW s \in Orders(S)
  PROVE  /\ s \in Seq(Tasks)
         /\ NoDup(s)
         /\ \A x : InSeq(x, s) <=> x \in S
<1> DEFINE n == Cardinality(S)
<1>1. IsFiniteSet(S) /\ n \in Nat
  BY TaskSetFacts, NTasksAssumption
<1>2. s \in [1..n -> S] /\ \A t \in S : \E i \in DOMAIN s : s[i] = t
  BY DEF Orders
<1>3. IsFiniteSet(1..n) /\ Cardinality(1..n) = n
  BY <1>1, FS_Interval
<1>4. s \in Surjection(1..n, S)
  BY <1>2 DEF Surjection
<1>5. s \in Injection(1..n, S)
  <2> HIDE DEF n
  <2>1. n = Cardinality(S)
    BY DEF n
  <2> QED BY <1>1, <1>3, <1>4, <2>1, FS_SurjSameCardinalityImpliesInj
<1>6. NoDup(s)
  BY <1>2, <1>5 DEF NoDup, Injection, IsInjective
<1>7. s \in Seq(Tasks)
  BY <1>1, <1>2
<1> QED BY <1>2, <1>6, <1>7 DEF InSeq

(* The fields of the run's workflow. *)
LEMMA WorkflowFacts ==
  ASSUME wf \in Workflows
  PROVE  /\ wf.deps \in [Tasks -> SUBSET Tasks]
         /\ wf.condition \in [Tasks -> [kind : ConditionKinds, on : Tasks]]
         /\ wf.allowFailure \subseteq Tasks
         /\ wf.compensable \subseteq Tasks
         /\ wf.failFast \in BOOLEAN /\ wf.timeout \in BOOLEAN
         /\ wf.compensateOnFailure \in BOOLEAN
         /\ MaxConcurrency \in Nat \ {0}
<1>1. wf \in Workflow
  BY WorkflowAssumption
<1> QED BY <1>1 DEF Workflow, MaxConcurrency

(* Upstream is the least set that holds the dependencies of t and of its    *)
(* own members.                                                             *)
LEMMA UpstreamLeast ==
  ASSUME NEW t \in Tasks, NEW S \in SUBSET Tasks,
         wf.deps[t] \subseteq S, \A u \in S : wf.deps[u] \subseteq S
  PROVE  Upstream(t) \subseteq S
BY DEF Upstream, UpstreamIn

LEMMA UpstreamTasks == \A t : Upstream(t) \subseteq Tasks
BY DEF Upstream, UpstreamIn

-----------------------------------------------------------------------------
(* The loop's invariant, one lemma per kind of step. *)

LEMMA LoopInit == Init => LoopInv
<1> SUFFICES ASSUME Init PROVE LoopInv
  OBVIOUS
<1>0. /\ wf \in Workflows /\ wf.deps \in [Tasks -> SUBSET Tasks] /\ MaxConcurrency \in Nat \ {0}
      /\ pc = "start" /\ results = [t \in Tasks |-> NoResult] /\ exec = [t \in Tasks |-> "idle"]
  BY WorkflowFacts DEF Init
<1>1. \A t \in Tasks : OpenDeps(t) = wf.deps[t]
  BY <1>0 DEF OpenDeps
<1>2. Unreceived = {} /\ Resolved = {}
  BY <1>0 DEF Unreceived, Resolved, Started
<1>3. Cardinality({}) = 0
  BY FS_EmptySet
<1>4. \A t \in Tasks : Cardinality(wf.deps[t]) \in 0..NTasks
  BY <1>0, TaskSetFacts
<1>5. TypeOK
  <2>1. /\ remaining \in [Tasks -> 0..NTasks] /\ active \in 0..NTasks /\ completed \in 0..NTasks
        /\ clock \in Nat /\ finishedAt \in [Tasks -> Nat] /\ attempt \in [Tasks -> Nat]
    BY <1>4, NTasksAssumption DEF Init
  <2>2. /\ results \in [Tasks -> TaskStatuses \cup {NoResult}]
        /\ outcome \in [Tasks -> TaskStatuses \cup {NoResult}]
        /\ exec \in [Tasks -> InFlight \cup {"idle"}]
    BY DEF Init
  <2>3. ctxDone \in BOOLEAN /\ runCtxDone \in BOOLEAN /\ failFastTriggered \in BOOLEAN
    BY Zenon DEF Init
  <2>4. /\ status \in RunStatuses /\ stored \in RunStatuses
        /\ ready \in Seq(Tasks) /\ resultCh \in Seq(Tasks) /\ pending \in Seq(Tasks)
        /\ compensations \in Seq([task : Tasks, status : {"SUCCESS", "FAILED"}])
    BY DEF Init, RunStatuses
  <2>5. /\ blocked \subseteq Tasks /\ matching \subseteq Tasks
        /\ compensation \in {"NONE", "NOT_REQUIRED", "SUCCESS", "FAILED", "SKIPPED"}
    BY DEF Init
  <2> QED BY <1>0, <2>1, <2>2, <2>3, <2>4, <2>5, Zenon DEF TypeOK
<1>6. CountsInv
  BY <1>0, <1>1, <1>2, <1>3, <1>4 DEF Init, CountsInv
<1>7. ReadyInv
  BY <1>0 DEF Init, ReadyInv, NoDup, InSeq
<1>8. GoroutineInv
  BY <1>0 DEF Init, GoroutineInv, NoResult
<1>9. ChannelInv
  BY DEF Init, ChannelInv, NoDup, InSeq
<1>10. GraphInv
  BY <1>0 DEF Init, GraphInv, Started, NoResult, Loop
<1>11. BranchInv
  BY <1>0 DEF BranchInv, Started
<1> QED BY <1>5, <1>6, <1>7, <1>8, <1>9, <1>10, <1>11 DEF LoopInv

(* Steps that leave the loop's data alone and start no task. *)
LEMMA LoopDataKept ==
  ASSUME CountsInv, ReadyInv, GraphInv, BranchInv,
         UNCHANGED <<wf, loopVars>>,
         \A t \in Tasks : exec'[t] = "idle" <=> exec[t] = "idle",
         pc' \in Loop => pc \in Loop /\ (pc' = "start" <=> pc = "start"),
         pc' = "delay" => \/ pc = "delay"
                          \/ /\ ready # <<>> /\ active < MaxConcurrency
                             /\ Head(ready) \notin blocked /\ BranchTaken(Head(ready))
  PROVE  CountsInv' /\ ReadyInv' /\ GraphInv' /\ BranchInv'
<1>0. /\ wf' = wf /\ remaining' = remaining /\ blocked' = blocked /\ ready' = ready
      /\ active' = active /\ completed' = completed /\ results' = results
  BY DEF loopVars
<1>1. /\ Resolved' = Resolved /\ MaxConcurrency' = MaxConcurrency
      /\ \A t : OpenDeps(t)' = OpenDeps(t)
      /\ \A t : BranchTaken(t)' <=> BranchTaken(t)
  BY <1>0 DEF Resolved, MaxConcurrency, OpenDeps, BranchTaken
<1>2. \A t \in Tasks : Started(t)' <=> Started(t)
  BY DEF Started
<1>3. Unreceived' = Unreceived
  BY <1>0, <1>2 DEF Unreceived
<1>4. \A t \in Tasks : Due(t)' <=> Due(t)
  BY <1>0, <1>1 DEF Due
<1>5. CountsInv'
  BY <1>0, <1>1, <1>3 DEF CountsInv
<1>6. ReadyInv'
  BY <1>0, <1>1, <1>4 DEF ReadyInv, Loop
<1>7. GraphInv'
  BY <1>0, <1>1, <1>2 DEF GraphInv
<1>8. BranchInv'
  BY <1>1, <1>2 DEF BranchInv
<1> QED BY <1>5, <1>6, <1>7, <1>8

(* What a step of a task's goroutine does: it goes on, ends with an         *)
(* outcome, or sends its result.                                            *)
TaskMoves(t) ==
    /\ UNCHANGED <<wf, pc, ctxDone, runCtxDone, loopVars, status, endVars>>
    /\ attempt' \in [Tasks -> Nat]
    /\ matching' \subseteq Tasks
    /\ \/ /\ exec[t] \in {"executing", "backoff"}
          /\ \E e \in {"executing", "backoff"} : exec' = [exec EXCEPT ![t] = e]
          /\ UNCHANGED <<outcome, finishedAt, clock, resultCh>>
       \/ /\ exec[t] \in {"executing", "backoff"}
          /\ \E s \in {"SUCCESS", "FAILED"} : TaskEnds(t, s)
          /\ UNCHANGED resultCh
       \/ /\ exec[t] = "finished"
          /\ exec' = [exec EXCEPT ![t] = "sent"]
          /\ resultCh' = Append(resultCh, t)
          /\ UNCHANGED <<outcome, finishedAt, clock>>

LEMMA TaskStepMoves ==
  ASSUME TypeOK, NEW t \in Tasks, TaskStep(t)
  PROVE  TaskMoves(t)
<1>0. attempt \in [Tasks -> Nat] /\ matching \subseteq Tasks
  BY DEF TypeOK
<1>1. CASE TaskSucceeds(t)
  BY <1>0, <1>1 DEF TaskSucceeds, TaskMoves
<1>2. CASE ActionMissing(t)
  BY <1>0, <1>2 DEF ActionMissing, TaskMoves
<1>3. CASE TaskErrs(t)
  BY <1>0, <1>3 DEF TaskErrs, TaskMoves
<1>4. CASE TaskInterrupted(t)
  BY <1>0, <1>4 DEF TaskInterrupted, TaskMoves
<1>5. CASE TaskRetries(t)
  BY <1>0, <1>5 DEF TaskRetries, TaskMoves
<1>6. CASE TaskGivesUp(t)
  BY <1>0, <1>6 DEF TaskGivesUp, TaskMoves
<1>7. CASE SendResult(t)
  BY <1>0, <1>7 DEF SendResult, TaskMoves
<1> QED BY <1>1, <1>2, <1>3, <1>4, <1>5, <1>6, <1>7 DEF TaskStep

LEMMA TaskStepKeepsLoop ==
  ASSUME LoopInv, NEW t \in Tasks, TaskMoves(t)
  PROVE  LoopInv'
<1>0. /\ wf' = wf /\ pc' = pc /\ results' = results
      /\ exec \in [Tasks -> InFlight \cup {"idle"}]
      /\ outcome \in [Tasks -> TaskStatuses \cup {NoResult}]
      /\ resultCh \in Seq(Tasks)
  BY DEF TaskMoves, LoopInv, TypeOK, loopVars
<1>1. /\ exec' \in [Tasks -> InFlight \cup {"idle"}]
      /\ exec'[t] # "idle" /\ exec[t] # "idle"
      /\ \A u \in Tasks \ {t} : exec'[u] = exec[u]
  BY <1>0 DEF TaskMoves, TaskEnds, InFlight
<1>2. \A u \in Tasks : exec'[u] = "idle" <=> exec[u] = "idle"
  BY <1>1
<1>3. CountsInv' /\ ReadyInv' /\ GraphInv' /\ BranchInv'
  BY <1>0, <1>2, LoopDataKept DEF TaskMoves, LoopInv
<1>4. GoroutineInv'
  <2>1. \A u \in Tasks : pc \in Loop /\ results[u] # NoResult => exec[u] \in {"idle", "sent"}
    BY DEF LoopInv, GoroutineInv
  <2> QED BY <1>0, <1>1, <2>1
          DEF TaskMoves, TaskEnds, LoopInv, GoroutineInv, NoResult
<1>5. ChannelInv'
  <2>1. CASE UNCHANGED resultCh /\ exec[t] \in {"executing", "backoff"}
    BY <1>0, <1>1, <2>1 DEF LoopInv, ChannelInv
  <2>2. CASE exec[t] = "finished" /\ resultCh' = Append(resultCh, t) /\ exec'[t] = "sent"
    <3> SUFFICES ASSUME pc \in Loop PROVE ChannelInv'
      BY <1>0 DEF ChannelInv
    <3>1. NoDup(resultCh) /\ ~InSeq(t, resultCh) /\ results[t] = NoResult
      BY <2>2 DEF LoopInv, ChannelInv, GoroutineInv
    <3>2. NoDup(resultCh') /\ \A x : InSeq(x, resultCh') <=> InSeq(x, resultCh) \/ x = t
      BY <1>0, <2>2, <3>1, AppendFacts
    <3>3. \A u \in Tasks : InSeq(u, resultCh') => exec'[u] = "sent" /\ results'[u] = NoResult
      BY <1>0, <1>1, <2>2, <3>1, <3>2 DEF LoopInv, ChannelInv
    <3> QED BY <3>2, <3>3 DEF ChannelInv
  <2> QED BY <1>0, <2>1, <2>2 DEF TaskMoves
<1>6. TypeOK'
  <2>1. outcome' \in [Tasks -> TaskStatuses \cup {NoResult}]
    BY <1>0 DEF TaskMoves, TaskEnds, TaskStatuses
  <2>2. clock' \in Nat /\ finishedAt' \in [Tasks -> Nat]
    <3>1. clock \in Nat /\ finishedAt \in [Tasks -> Nat] /\ ClockSteps \subseteq Nat
      BY ClockAssumption DEF LoopInv, TypeOK
    <3>2. CASE \E s \in {"SUCCESS", "FAILED"} : TaskEnds(t, s)
      <4>1. PICK d \in ClockSteps : /\ clock' = clock + d
                                    /\ finishedAt' = [finishedAt EXCEPT ![t] = clock + d]
        BY <3>2 DEF TaskEnds
      <4>2. d \in Nat
        BY <3>1
      <4> QED BY <3>1, <4>1, <4>2
    <3> QED BY <3>1, <3>2 DEF TaskMoves
  <2>3. resultCh' \in Seq(Tasks)
    <3>1. resultCh' = resultCh \/ resultCh' = Append(resultCh, t)
      BY DEF TaskMoves
    <3> QED BY <1>0, <3>1
  <2>4. /\ UNCHANGED <<wf, pc, ctxDone, runCtxDone, loopVars, status, endVars>>
        /\ attempt' \in [Tasks -> Nat] /\ matching' \subseteq Tasks
    BY DEF TaskMoves
  <2> QED BY <1>1, <2>1, <2>2, <2>3, <2>4, Zenon DEF LoopInv, TypeOK, loopVars, endVars
<1> QED BY <1>3, <1>4, <1>5, <1>6 DEF LoopInv

(* The run gives the open task t a result: the counts follow, and the queue *)
(* is the old one without t and with the tasks that t set free.             *)
LEMMA ResolvingFacts ==
  ASSUME TypeOK, CountsInv, ReadyInv, GraphInv,
         pc \in Loop \ {"start"}, pc' \in Loop \ {"start", "delay"},
         NEW t \in Tasks, NEW s \in TaskStatuses, NEW queue \in Seq(Tasks),
         results[t] = NoResult, OpenDeps(t) = {},
         NoDup(queue), \A x : InSeq(x, queue) <=> InSeq(x, ready) /\ x # t,
         results' = [results EXCEPT ![t] = s],
         completed' = completed + 1,
         CountDown(t, queue),
         wf' = wf, exec' = exec
  PROVE  /\ \A c \in Tasks : OpenDeps(c)' = OpenDeps(c) \ {t}
         /\ Unreceived' = Unreceived \ {t}
         /\ remaining' \in [Tasks -> 0..NTasks]
         /\ \A c \in Tasks : remaining'[c] = Cardinality(OpenDeps(c)')
         /\ completed' \in 0..NTasks /\ completed' = Cardinality(Resolved')
         /\ ready' \in Seq(Tasks)
         /\ ReadyInv'
<1>0. /\ wf.deps \in [Tasks -> SUBSET Tasks]
      /\ results \in [Tasks -> TaskStatuses \cup {NoResult}] /\ s # NoResult
      /\ remaining \in [Tasks -> 0..NTasks]
      /\ completed = Cardinality(Resolved)
      /\ \A c \in Tasks : remaining[c] = Cardinality(OpenDeps(c))
  BY WorkflowFacts DEF TypeOK, CountsInv, TaskStatuses, NoResult
<1>1. /\ results'[t] = s /\ results' \in [Tasks -> TaskStatuses \cup {NoResult}]
      /\ \A u \in Tasks \ {t} : results'[u] = results[u]
  BY <1>0
<1>2. \A c \in Tasks : OpenDeps(c) \in SUBSET Tasks
  BY <1>0 DEF OpenDeps
<1>3. \A c \in Tasks : OpenDeps(c)' = OpenDeps(c) \ {t}
  BY <1>0, <1>1 DEF OpenDeps
<1>4. Unreceived' = Unreceived \ {t}
  BY <1>0, <1>1 DEF Unreceived, Started
<1>5. \A c \in Tasks : t \in wf.deps[c] <=> t \in OpenDeps(c)
  BY <1>0 DEF OpenDeps
<1>6. \A c \in Tasks : /\ remaining'[c] = Cardinality(OpenDeps(c)')
                       /\ remaining'[c] \in 0..NTasks
  <2> SUFFICES ASSUME NEW c \in Tasks
               PROVE  remaining'[c] = Cardinality(OpenDeps(c)') /\ remaining'[c] \in 0..NTasks
    OBVIOUS
  <2>1. remaining'[c] = IF t \in wf.deps[c] THEN remaining[c] - 1 ELSE remaining[c]
    BY DEF CountDown
  <2>2. t \in OpenDeps(c) => Cardinality(OpenDeps(c) \ {t}) = Cardinality(OpenDeps(c)) - 1
    BY <1>2, CountFacts
  <2>3. t \notin OpenDeps(c) => OpenDeps(c) \ {t} = OpenDeps(c)
    OBVIOUS
  <2>4. remaining'[c] = Cardinality(OpenDeps(c)')
    BY <1>0, <1>3, <1>5, <2>1, <2>2, <2>3
  <2>5. OpenDeps(c)' \in SUBSET Tasks
    BY <1>2, <1>3
  <2>6. Cardinality(OpenDeps(c)') \in 0..NTasks
    BY <2>5, TaskSetFacts
  <2> QED BY <2>4, <2>6
<1>7. remaining' \in [Tasks -> 0..NTasks]
  BY <1>6 DEF CountDown
<1>8. completed' \in 0..NTasks /\ completed' = Cardinality(Resolved')
  <2>1. Resolved' = Resolved \cup {t} /\ t \notin Resolved /\ Resolved \in SUBSET Tasks
    BY <1>0, <1>1 DEF Resolved
  <2>2. Cardinality(Resolved') = Cardinality(Resolved) + 1
    BY <2>1, CountFacts
  <2>3. Cardinality(Resolved') \in 0..NTasks
    BY <2>1, TaskSetFacts
  <2> QED BY <1>0, <2>2, <2>3
<1> DEFINE F == {c \in Dependents(t) : remaining[c] = 1}
<1>9. PICK freed \in Orders(F) : ready' = queue \o freed
  BY DEF CountDown, InOrder
<1>10. F \in SUBSET Tasks
  BY DEF Dependents, DependentsIn
<1>11. freed \in Seq(Tasks) /\ NoDup(freed) /\ \A x : InSeq(x, freed) <=> x \in F
  <2> HIDE DEF F
  <2> QED BY <1>9, <1>10, OrdersFacts
<1>12. \A c \in Tasks : c \in F <=> OpenDeps(c) = {t}
  <2> SUFFICES ASSUME NEW c \in Tasks PROVE c \in F <=> OpenDeps(c) = {t}
    OBVIOUS
  <2>1. c \in F <=> t \in OpenDeps(c) /\ Cardinality(OpenDeps(c)) = 1
    BY <1>0, <1>5 DEF Dependents, DependentsIn
  <2>2. t \in OpenDeps(c) =>
           (Cardinality(OpenDeps(c)) = 1 <=> Cardinality(OpenDeps(c) \ {t}) = 0)
    <3>1. t \in OpenDeps(c) => Cardinality(OpenDeps(c) \ {t}) = Cardinality(OpenDeps(c)) - 1
      BY <1>2, CountFacts
    <3>2. Cardinality(OpenDeps(c)) \in 0..NTasks
      BY <1>2, TaskSetFacts
    <3> QED BY <3>1, <3>2, NTasksAssumption
  <2>3. Cardinality(OpenDeps(c) \ {t}) = 0 <=> OpenDeps(c) \ {t} = {}
    <3>1. OpenDeps(c) \ {t} \in SUBSET Tasks
      BY <1>2
    <3> QED BY <3>1, CountFacts
  <2> QED BY <2>1, <2>2, <2>3
<1>13. \A c \in Tasks : c \in F => c # t /\ results[c] = NoResult /\ exec[c] = "idle"
  BY <1>12 DEF GraphInv, Started
<1>14. \A c \in Tasks : Due(c)' <=> (Due(c) /\ c # t) \/ c \in F
  <2> SUFFICES ASSUME NEW c \in Tasks PROVE Due(c)' <=> (Due(c) /\ c # t) \/ c \in F
    OBVIOUS
  <2>1. c = t => ~Due(c)' /\ c \notin F
    BY <1>0, <1>1, <1>13 DEF Due
  <2>2. c # t => (Due(c)' <=> results[c] = NoResult /\ exec[c] = "idle" /\ OpenDeps(c) \ {t} = {})
    BY <1>1, <1>3 DEF Due
  <2>3. OpenDeps(c) \ {t} = {} <=> OpenDeps(c) = {} \/ OpenDeps(c) = {t}
    OBVIOUS
  <2> QED BY <1>12, <1>13, <2>1, <2>2, <2>3 DEF Due
<1>15. \A x : ~(InSeq(x, queue) /\ InSeq(x, freed))
  <2> SUFFICES ASSUME NEW x, InSeq(x, queue), InSeq(x, freed) PROVE FALSE
    OBVIOUS
  <2>1. x \in F /\ x \in Tasks /\ InSeq(x, ready)
    BY <1>10, <1>11
  <2>2. Due(x)
    BY <2>1 DEF ReadyInv
  <2> QED BY <1>12, <2>1, <2>2 DEF Due
<1>16. /\ ready' \in Seq(Tasks) /\ NoDup(ready')
       /\ \A x : InSeq(x, ready') <=> InSeq(x, queue) \/ x \in F
  <2> HIDE DEF F
  <2>1. /\ queue \o freed \in Seq(Tasks) /\ NoDup(queue \o freed)
        /\ \A x : InSeq(x, queue \o freed) <=> InSeq(x, queue) \/ InSeq(x, freed)
    BY <1>11, <1>15, ConcatFacts
  <2> QED BY <1>9, <1>11, <2>1
<1>17. \A c \in Tasks : InSeq(c, ready') <=> Due(c)'
  <2> HIDE DEF F
  <2>1. \A c \in Tasks : InSeq(c, ready) <=> Due(c)
    BY DEF ReadyInv
  <2> QED BY <1>14, <1>16, <2>1
<1>18. ReadyInv'
  BY <1>16, <1>17 DEF ReadyInv
<1> QED BY <1>3, <1>4, <1>6, <1>7, <1>8, <1>16, <1>18

(* The graph invariant after a result, when the dependents of a failure or  *)
(* of a blocked task are blocked.                                           *)
LEMMA ResolvingKeepsGraph ==
  ASSUME TypeOK, GraphInv, BranchInv,
         pc \in Loop \ {"start"}, pc' \in Loop \ {"start"},
         NEW t \in Tasks, NEW s \in TaskStatuses,
         results[t] = NoResult, OpenDeps(t) = {},
         results' = [results EXCEPT ![t] = s],
         wf' = wf, exec' = exec,
         blocked' = blocked \/ blocked' = blocked \cup Dependents(t),
         (s = "FAILED" /\ t \notin wf.allowFailure) \/ t \in blocked
            => blocked' = blocked \cup Dependents(t)
  PROVE  GraphInv' /\ BranchInv'
<1>0. /\ wf.deps \in [Tasks -> SUBSET Tasks]
      /\ results \in [Tasks -> TaskStatuses \cup {NoResult}] /\ s # NoResult
      /\ wf.condition \in [Tasks -> [kind : ConditionKinds, on : Tasks]]
  BY WorkflowFacts DEF TypeOK, TaskStatuses, NoResult
<1>1. results'[t] = s /\ \A u \in Tasks \ {t} : results'[u] = results[u]
  BY <1>0
<1>2. \A c \in Tasks : OpenDeps(c)' \subseteq OpenDeps(c)
  BY <1>0, <1>1 DEF OpenDeps
<1>3. \A c \in Tasks : c \in Dependents(t) <=> t \in OpenDeps(c)
  BY <1>0 DEF OpenDeps, Dependents, DependentsIn
<1>4. \A c \in Tasks : Started(c)' <=> Started(c)
  BY DEF Started
<1>5. \A c \in Tasks : Started(c)' \/ results'[c] # NoResult => OpenDeps(c)' = {}
  BY <1>1, <1>2, <1>4 DEF GraphInv
<1>6. \A c \in Tasks : Started(c)' => c \notin blocked'
  BY <1>3, <1>4 DEF GraphInv
<1>7. ASSUME NEW c \in Tasks, NEW u \in wf.deps[c],
             \/ results'[u] = "FAILED" /\ u \notin wf.allowFailure
             \/ results'[u] # NoResult /\ u \in blocked'
      PROVE  c \in blocked'
  <2>0. u \in Tasks
    BY <1>0
  <2>1. CASE u = t
    <3>1. c \in Dependents(t)
      BY <2>1 DEF Dependents, DependentsIn
    <3>2. t \notin Dependents(t)
      BY <1>3
    <3> QED BY <1>1, <1>7, <2>1, <3>1, <3>2
  <2>2. CASE u # t
    <3>1. results'[u] = results[u]
      BY <1>1, <2>0, <2>2
    <3>2. results[u] # NoResult => u \notin Dependents(t)
      BY <1>3, <2>0 DEF GraphInv
    <3>3. c \in blocked
      BY <1>7, <3>1, <3>2 DEF GraphInv
    <3> QED BY <3>3
  <2> QED BY <2>1, <2>2
<1>8. GraphInv'
  BY <1>5, <1>6, <1>7 DEF GraphInv
<1>9. BranchInv'
  <2> SUFFICES ASSUME NEW c \in Tasks, Started(c) PROVE BranchTaken(c)'
    BY <1>4 DEF BranchInv
  <2>1. BranchTaken(c) /\ wf.condition[c].on \in Tasks
    BY <1>0 DEF BranchInv
  <2> QED BY <1>1, <2>1 DEF BranchTaken, NoResult
<1> QED BY <1>8, <1>9

(* The head of the queue is due. *)
LEMMA HeadFacts ==
  ASSUME TypeOK, ReadyInv, pc \in Loop, ready # <<>>
  PROVE  /\ Head(ready) \in Tasks /\ Due(Head(ready))
         /\ Tail(ready) \in Seq(Tasks) /\ NoDup(Tail(ready))
         /\ \A x : InSeq(x, Tail(ready)) <=> InSeq(x, ready) /\ x # Head(ready)
<1>1. ready \in Seq(Tasks) /\ NoDup(ready)
  BY DEF TypeOK, ReadyInv
<1>2. /\ Head(ready) \in Tasks /\ InSeq(Head(ready), ready)
      /\ Tail(ready) \in Seq(Tasks) /\ NoDup(Tail(ready))
      /\ \A x : InSeq(x, Tail(ready)) <=> InSeq(x, ready) /\ x # Head(ready)
  BY <1>1, TailFacts
<1> QED BY <1>2 DEF ReadyInv

(* A result that the loop writes itself. *)
LEMMA ResolveKeepsLoop ==
  ASSUME LoopInv, Dispatching,
         NEW s \in {"SKIPPED", "FAILED"}, Resolve(Head(ready), s),
         \/ blocked' = blocked /\ Head(ready) \notin blocked /\ s = "SKIPPED"
         \/ blocked' = blocked \cup Dependents(Head(ready)),
         failFastTriggered' \in BOOLEAN, runCtxDone' \in BOOLEAN
  PROVE  LoopInv'
<1> DEFINE t == Head(ready)
<1>0. /\ pc = "dispatch" /\ pc' = pc /\ wf' = wf /\ exec' = exec /\ active' = active
      /\ outcome' = outcome /\ resultCh' = resultCh /\ ctxDone' = ctxDone /\ status' = status
      /\ taskVars' = taskVars /\ endVars' = endVars
      /\ results' = [results EXCEPT ![t] = s] /\ completed' = completed + 1
      /\ CountDown(t, Tail(ready))
  BY DEF Dispatching, Resolve, taskVars
<1>1. /\ t \in Tasks /\ Due(t)
      /\ Tail(ready) \in Seq(Tasks) /\ NoDup(Tail(ready))
      /\ \A x : InSeq(x, Tail(ready)) <=> InSeq(x, ready) /\ x # t
  BY HeadFacts DEF LoopInv, Dispatching, Loop
<1>2. results[t] = NoResult /\ OpenDeps(t) = {} /\ exec[t] = "idle"
  BY <1>1 DEF Due
<1>3. TypeOK /\ CountsInv /\ ReadyInv /\ GraphInv /\ BranchInv /\ GoroutineInv /\ ChannelInv
  BY DEF LoopInv
<1>4. pc \in Loop \ {"start"} /\ pc' \in Loop \ {"start", "delay"}
  BY <1>0 DEF Loop
<1>5. s \in TaskStatuses /\ s # NoResult /\ s # "SUCCESS"
  BY DEF TaskStatuses, NoResult
<1>c. blocked' = blocked \/ blocked' = blocked \cup Dependents(t)
  OBVIOUS
<1>d. (s = "FAILED" /\ t \notin wf.allowFailure) \/ t \in blocked
            => blocked' = blocked \cup Dependents(t)
  OBVIOUS
<1> HIDE DEF t
<1>6. /\ Unreceived' = Unreceived \ {t}
      /\ remaining' \in [Tasks -> 0..NTasks]
      /\ \A c \in Tasks : remaining'[c] = Cardinality(OpenDeps(c)')
      /\ completed' \in 0..NTasks /\ completed' = Cardinality(Resolved')
      /\ ready' \in Seq(Tasks)
      /\ ReadyInv'
  BY <1>0, <1>1, <1>2, <1>3, <1>4, <1>5, ResolvingFacts
<1>7. GraphInv' /\ BranchInv'
  BY <1>0, <1>1, <1>2, <1>3, <1>4, <1>5, <1>c, <1>d, ResolvingKeepsGraph
<1>8. CountsInv'
  <2>1. t \notin Unreceived
    BY <1>2 DEF Unreceived, Started
  <2>2. MaxConcurrency' = MaxConcurrency
    BY <1>0 DEF MaxConcurrency
  <2> QED BY <1>0, <1>3, <1>4, <1>6, <2>1, <2>2 DEF CountsInv
<1>9. results' \in [Tasks -> TaskStatuses \cup {NoResult}] /\ results'[t] = s
      /\ \A u \in Tasks \ {t} : results'[u] = results[u]
  BY <1>0, <1>1, <1>3, <1>5 DEF TypeOK
<1>10. GoroutineInv'
  BY <1>0, <1>1, <1>2, <1>3, <1>5, <1>9 DEF GoroutineInv
<1>11. ChannelInv'
  BY <1>0, <1>2, <1>3, <1>4, <1>9 DEF ChannelInv
<1>12. TypeOK'
  <2>1. blocked' \subseteq Tasks
    BY <1>3, <1>c DEF TypeOK, Dependents, DependentsIn
  <2> QED BY <1>0, <1>3, <1>6, <1>9, <2>1, Zenon DEF TypeOK, taskVars, endVars
<1> QED BY <1>6, <1>7, <1>8, <1>10, <1>11, <1>12 DEF LoopInv

LEMMA SkipOrFailKeepsLoop ==
  ASSUME LoopInv, SkipBlocked \/ SkipByCondition \/ FailTemplate
  PROVE  LoopInv'
<1>0. failFastTriggered \in BOOLEAN /\ runCtxDone \in BOOLEAN
  BY DEF LoopInv, TypeOK
<1>1. CASE SkipBlocked
  BY <1>0, <1>1, ResolveKeepsLoop DEF SkipBlocked
<1>2. CASE SkipByCondition
  BY <1>0, <1>2, ResolveKeepsLoop DEF SkipByCondition
<1>3. CASE FailTemplate
  <2>1. /\ Dispatching /\ Resolve(Head(ready), "FAILED")
        /\ blocked' = blocked \cup Dependents(Head(ready))
        /\ failFastTriggered' \in BOOLEAN /\ runCtxDone' \in BOOLEAN
    BY <1>3, Zenon DEF FailTemplate
  <2> QED BY <2>1, ResolveKeepsLoop
<1> QED BY <1>1, <1>2, <1>3

(* A result that arrives in the channel. *)
LEMMA ReceiveKeepsLoop ==
  ASSUME LoopInv, ReceiveResult
  PROVE  LoopInv'
<1> DEFINE t == Head(resultCh)
<1>0. /\ pc = "wait" /\ wf' = wf /\ taskVars' = taskVars /\ endVars' = endVars
      /\ exec' = exec /\ outcome' = outcome /\ ctxDone' = ctxDone /\ status' = status
      /\ resultCh # <<>> /\ resultCh' = Tail(resultCh)
      /\ active' = active - 1 /\ completed' = completed + 1
      /\ results' = [results EXCEPT ![t] = outcome[t]]
      /\ CountDown(t, ready)
      /\ pc' \in {"dispatch", "finish"}
  BY DEF ReceiveResult, taskVars
<1>b. /\ blocked' = IF outcome[t] = "FAILED" /\ t \notin wf.allowFailure
                    THEN blocked \cup Dependents(t) ELSE blocked
      /\ failFastTriggered' \in BOOLEAN /\ runCtxDone' \in BOOLEAN
  BY Zenon DEF ReceiveResult
<1>3. TypeOK /\ CountsInv /\ ReadyInv /\ GraphInv /\ BranchInv /\ GoroutineInv /\ ChannelInv
  BY DEF LoopInv
<1>4. pc \in Loop \ {"start"} /\ pc' \in Loop \ {"start", "delay"}
  BY <1>0 DEF Loop
<1>1. /\ t \in Tasks /\ InSeq(t, resultCh)
      /\ Tail(resultCh) \in Seq(Tasks) /\ NoDup(Tail(resultCh))
      /\ \A x : InSeq(x, Tail(resultCh)) <=> InSeq(x, resultCh) /\ x # t
  <2>1. resultCh \in Seq(Tasks) /\ NoDup(resultCh) /\ resultCh # <<>>
    BY <1>0, <1>3, <1>4 DEF TypeOK, ChannelInv
  <2> QED BY <2>1, TailFacts
<1> HIDE DEF t
<1>2. exec[t] = "sent" /\ results[t] = NoResult
  BY <1>1, <1>3, <1>4 DEF ChannelInv
<1>5. /\ OpenDeps(t) = {} /\ t \notin blocked
      /\ outcome[t] \in TaskStatuses /\ outcome[t] # NoResult
  BY <1>1, <1>2, <1>3, <1>4 DEF GraphInv, GoroutineInv, Started, TaskStatuses, NoResult
<1>q. /\ NoDup(ready) /\ ready \in Seq(Tasks)
      /\ \A x : InSeq(x, ready) <=> InSeq(x, ready) /\ x # t
  BY <1>1, <1>2, <1>3, <1>4 DEF TypeOK, ReadyInv, Due
<1>6. /\ Unreceived' = Unreceived \ {t}
      /\ remaining' \in [Tasks -> 0..NTasks]
      /\ \A c \in Tasks : remaining'[c] = Cardinality(OpenDeps(c)')
      /\ completed' \in 0..NTasks /\ completed' = Cardinality(Resolved')
      /\ ready' \in Seq(Tasks)
      /\ ReadyInv'
  BY <1>0, <1>1, <1>2, <1>3, <1>4, <1>5, <1>q, ResolvingFacts
<1>c. blocked' = blocked \/ blocked' = blocked \cup Dependents(t)
  BY <1>b
<1>d. (outcome[t] = "FAILED" /\ t \notin wf.allowFailure) \/ t \in blocked
            => blocked' = blocked \cup Dependents(t)
  BY <1>5, <1>b
<1>7. GraphInv' /\ BranchInv'
  BY <1>0, <1>1, <1>2, <1>3, <1>4, <1>5, <1>c, <1>d, ResolvingKeepsGraph
<1>8. CountsInv' /\ active' \in 0..NTasks
  <2>1. t \in Unreceived /\ Unreceived \in SUBSET Tasks
    BY <1>1, <1>2 DEF Unreceived, Started
  <2>2. MaxConcurrency' = MaxConcurrency /\ MaxConcurrency \in Nat
    BY <1>0, <1>3, WorkflowFacts DEF MaxConcurrency, TypeOK
  <2>3. Cardinality(Unreceived \ {t}) = Cardinality(Unreceived) - 1
    BY <1>1, <2>1, CountFacts
  <2>4. Unreceived \ {t} \in SUBSET Tasks
    BY <2>1
  <2>5. Cardinality(Unreceived \ {t}) \in 0..NTasks
    BY <2>4, TaskSetFacts
  <2>6. active' = Cardinality(Unreceived') /\ active' \in 0..NTasks /\ active' <= MaxConcurrency
    <3>1. active = Cardinality(Unreceived) /\ active <= MaxConcurrency /\ active \in 0..NTasks
      BY <1>3, <1>4 DEF CountsInv, TypeOK
    <3>2. active' = active - 1 /\ Unreceived' = Unreceived \ {t}
      BY <1>0, <1>6
    <3> QED BY <2>2, <2>3, <2>5, <3>1, <3>2, NTasksAssumption
  <2> QED BY <1>6, <2>2, <2>6 DEF CountsInv
<1>9. results' \in [Tasks -> TaskStatuses \cup {NoResult}] /\ results'[t] = outcome[t]
      /\ \A u \in Tasks \ {t} : results'[u] = results[u]
  BY <1>0, <1>1, <1>3, <1>5 DEF TypeOK
<1>10. GoroutineInv'
  BY <1>0, <1>1, <1>2, <1>3, <1>4, <1>5, <1>9 DEF GoroutineInv
<1>11. ChannelInv'
  BY <1>0, <1>1, <1>3, <1>4, <1>9 DEF ChannelInv
<1>12. TypeOK'
  <2>1. blocked' \subseteq Tasks
    BY <1>3, <1>c DEF TypeOK, Dependents, DependentsIn
  <2>2. pc' \in {"start", "dispatch", "delay", "wait", "finish", "compensate", "save", "done"}
    BY <1>0
  <2>3. resultCh' \in Seq(Tasks)
    BY <1>0, <1>1
  <2>4. /\ UNCHANGED <<wf, ctxDone, status, taskVars, endVars>>
        /\ failFastTriggered' \in BOOLEAN /\ runCtxDone' \in BOOLEAN
    BY <1>0, <1>b
  <2> QED BY <1>3, <1>6, <1>8, <1>9, <2>1, <2>2, <2>3, <2>4, Zenon
          DEF TypeOK, taskVars, endVars
<1> QED BY <1>6, <1>7, <1>8, <1>10, <1>11, <1>12 DEF LoopInv

(* A task leaves the queue and starts. *)
LEMMA LaunchKeepsLoop ==
  ASSUME LoopInv, StartTask \/ StartDelayedTask
  PROVE  LoopInv'
<1> DEFINE t == Head(ready)
<1>1. TypeOK /\ CountsInv /\ ReadyInv /\ GraphInv /\ BranchInv /\ GoroutineInv /\ ChannelInv
  BY DEF LoopInv
<1>2. /\ pc \in {"dispatch", "delay"} /\ pc' = "dispatch"
      /\ ready # <<>> /\ active < MaxConcurrency /\ t \notin blocked /\ BranchTaken(t)
      /\ ready' = Tail(ready) /\ Launch(t)
  <2>1. CASE StartTask
    BY <2>1 DEF StartTask, Startable, Dispatching, evaluateCondition, BranchTaken
  <2>2. CASE StartDelayedTask
    BY <1>1, <2>2 DEF StartDelayedTask, ReadyInv, Loop
  <2> QED BY <2>1, <2>2
<1>3. pc \in Loop /\ pc \in Loop \ {"start"} /\ pc' \in Loop \ {"start", "delay"}
  BY <1>2 DEF Loop
<1>4. /\ t \in Tasks /\ Due(t)
      /\ Tail(ready) \in Seq(Tasks) /\ NoDup(Tail(ready))
      /\ \A x : InSeq(x, Tail(ready)) <=> InSeq(x, ready) /\ x # t
  BY <1>1, <1>2, <1>3, HeadFacts
<1> HIDE DEF t
<1>5. results[t] = NoResult /\ OpenDeps(t) = {} /\ exec[t] = "idle"
  BY <1>4 DEF Due
<1>6. /\ active' = active + 1 /\ exec' = [exec EXCEPT ![t] = "executing"]
      /\ UNCHANGED <<wf, ctxDone, runCtxDone, remaining, blocked, completed, failFastTriggered,
                   results, status, attempt, outcome, matching, finishedAt, clock, resultCh,
                   endVars>>
  BY <1>2 DEF Launch
<1>7. /\ exec' \in [Tasks -> InFlight \cup {"idle"}] /\ exec'[t] = "executing"
      /\ \A u \in Tasks \ {t} : exec'[u] = exec[u]
  BY <1>1, <1>4, <1>6 DEF TypeOK, InFlight
<1>8. /\ Resolved' = Resolved /\ MaxConcurrency' = MaxConcurrency
      /\ \A c : OpenDeps(c)' = OpenDeps(c)
      /\ \A c : BranchTaken(c)' <=> BranchTaken(c)
  BY <1>6 DEF Resolved, MaxConcurrency, OpenDeps, BranchTaken
<1>9. \A c \in Tasks : Started(c)' <=> Started(c) \/ c = t
  BY <1>5, <1>7 DEF Started
<1>10. CountsInv' /\ active' \in 0..NTasks
  <2>1. Unreceived' = Unreceived \cup {t} /\ t \notin Unreceived /\ Unreceived \in SUBSET Tasks
    BY <1>4, <1>5, <1>6, <1>9 DEF Unreceived, Started
  <2>2. Cardinality(Unreceived') = Cardinality(Unreceived) + 1
    BY <1>4, <2>1, CountFacts
  <2>3. Unreceived' \in SUBSET Tasks
    BY <1>4, <2>1
  <2>4. Cardinality(Unreceived') \in 0..NTasks
    BY <2>3, TaskSetFacts
  <2>5. active = Cardinality(Unreceived) /\ active \in 0..NTasks /\ active < MaxConcurrency
    BY <1>1, <1>2, <1>3 DEF CountsInv, TypeOK
  <2>6. MaxConcurrency \in Nat
    BY <1>1, WorkflowFacts DEF TypeOK
  <2>7. active' = Cardinality(Unreceived') /\ active' \in 0..NTasks /\ active' <= MaxConcurrency
    BY <1>6, <2>2, <2>4, <2>5, <2>6, NTasksAssumption
  <2> QED BY <1>1, <1>3, <1>6, <1>8, <2>7 DEF CountsInv
<1>11. ReadyInv'
  <2>1. \A c \in Tasks : Due(c)' <=> Due(c) /\ c # t
    BY <1>6, <1>7, <1>8 DEF Due
  <2>2. \A c \in Tasks : InSeq(c, ready) <=> Due(c)
    BY <1>1, <1>3 DEF ReadyInv
  <2> QED BY <1>2, <1>4, <2>1, <2>2 DEF ReadyInv
<1>12. GoroutineInv'
  BY <1>1, <1>2, <1>3, <1>5, <1>6, <1>7 DEF GoroutineInv
<1>13. ChannelInv'
  BY <1>1, <1>2, <1>3, <1>5, <1>6, <1>7 DEF ChannelInv
<1>14. GraphInv'
  BY <1>1, <1>2, <1>3, <1>5, <1>6, <1>8, <1>9 DEF GraphInv
<1>15. BranchInv'
  BY <1>1, <1>2, <1>8, <1>9 DEF BranchInv
<1>16. TypeOK'
  <2>1. pc' \in {"start", "dispatch", "delay", "wait", "finish", "compensate", "save", "done",
               "spin"}
        /\ ready' \in Seq(Tasks)
    BY <1>2, <1>4
  <2> QED BY <1>1, <1>6, <1>7, <1>10, <2>1, Zenon DEF TypeOK, endVars
<1> QED BY <1>10, <1>11, <1>12, <1>13, <1>14, <1>15, <1>16 DEF LoopInv

(* Steps that move runWithID only, or end a context. *)
LEMMA QuietStepKeepsLoop ==
  ASSUME LoopInv,
         UNCHANGED <<wf, loopVars, taskVars, resultCh, endVars>>,
         pc' \in {"dispatch", "delay", "wait", "finish", "done", "spin"} \/ pc' = pc,
         pc' \in Loop => pc \in Loop /\ (pc' = "start" <=> pc = "start"),
         pc' = "delay" => \/ pc = "delay"
                          \/ /\ ready # <<>> /\ active < MaxConcurrency
                             /\ Head(ready) \notin blocked /\ BranchTaken(Head(ready)),
         ctxDone' \in BOOLEAN, runCtxDone' \in BOOLEAN, status' \in RunStatuses
  PROVE  LoopInv'
<1>1. /\ exec' = exec /\ outcome' = outcome /\ results' = results /\ resultCh' = resultCh
      /\ \A t \in Tasks : exec'[t] = "idle" <=> exec[t] = "idle"
  BY DEF taskVars, loopVars
<1>2. CountsInv' /\ ReadyInv' /\ GraphInv' /\ BranchInv'
  BY <1>1, LoopDataKept DEF LoopInv
<1>3. GoroutineInv' /\ ChannelInv'
  BY <1>1 DEF LoopInv, GoroutineInv, ChannelInv
<1>4. TypeOK'
  <2>1. pc' \in {"start", "dispatch", "delay", "wait", "finish", "compensate", "save", "done",
               "spin"}
    BY DEF LoopInv, TypeOK
  <2> QED BY <2>1, Zenon DEF LoopInv, TypeOK, loopVars, taskVars, endVars
<1> QED BY <1>2, <1>3, <1>4 DEF LoopInv

(* runCompensation's sort is a strict total order of the tasks. *)
LEMMA CompensatedBeforeOrder ==
  ASSUME finishedAt \in [Tasks -> Nat]
  PROVE  /\ \A t \in Tasks : ~CompensatedBefore(t, t)
         /\ \A t, u \in Tasks : t # u => CompensatedBefore(t, u) \/ CompensatedBefore(u, t)
         /\ \A t, u, v \in Tasks :
               CompensatedBefore(t, u) /\ CompensatedBefore(u, v) => CompensatedBefore(t, v)
<1>1. \A t \in Tasks : t \in Int /\ finishedAt[t] \in Int
  BY NTasksAssumption DEF Tasks
<1> QED BY <1>1 DEF CompensatedBefore

(* The sort lists the eligible tasks, each after the ones that go before    *)
(* it: the ranks are as many as the places, so every place has a task.      *)
LEMMA CompensationOrderSorted ==
  ASSUME finishedAt \in [Tasks -> Nat], NEW E \in SUBSET Tasks
  PROVE  /\ CompensationOrder(E) \in Seq(Tasks)
         /\ \A i \in DOMAIN CompensationOrder(E) : CompensationOrder(E)[i] \in E
         /\ \A i, k \in DOMAIN CompensationOrder(E) : i < k =>
               CompensatedBefore(CompensationOrder(E)[i], CompensationOrder(E)[k])
<1> DEFINE n == Cardinality(E)
           Before(t) == {u \in E : CompensatedBefore(u, t)}
           Rank == [t \in E |-> Cardinality(Before(t)) + 1]
           s == CompensationOrder(E)
<1>1. IsFiniteSet(E) /\ n \in Nat
  BY TaskSetFacts, NTasksAssumption
<1>2. \A t \in E : Before(t) \in SUBSET Tasks /\ Cardinality(Before(t)) \in Nat
  <2> SUFFICES ASSUME NEW t \in E
               PROVE  Before(t) \in SUBSET Tasks /\ Cardinality(Before(t)) \in Nat
    OBVIOUS
  <2>1. Before(t) \in SUBSET Tasks
    OBVIOUS
  <2> HIDE DEF Before
  <2>2. Cardinality(Before(t)) \in 0..NTasks
    BY <2>1, TaskSetFacts
  <2> QED BY <2>1, <2>2, NTasksAssumption
<1>3. \A t \in E : Cardinality(Before(t)) < n
  <2> SUFFICES ASSUME NEW t \in E PROVE Cardinality(Before(t)) < n
    OBVIOUS
  <2>1. t \in Tasks /\ Before(t) \subseteq E \ {t} /\ E \ {t} \in SUBSET Tasks
    BY CompensatedBeforeOrder
  <2>2. Before(t) \in SUBSET Tasks /\ Cardinality(Before(t)) \in Nat
    BY <1>2
  <2> HIDE DEF Before
  <2>3. Cardinality(Before(t)) <= Cardinality(E \ {t})
    BY <2>1, <2>2, CountFacts
  <2>4. Cardinality(E \ {t}) = n - 1
    BY <2>1, CountFacts
  <2> HIDE DEF n
  <2> QED BY <1>1, <2>2, <2>3, <2>4
<1>4. \A t, u \in E : CompensatedBefore(t, u) => Cardinality(Before(t)) < Cardinality(Before(u))
  <2> SUFFICES ASSUME NEW t \in E, NEW u \in E, CompensatedBefore(t, u)
               PROVE  Cardinality(Before(t)) < Cardinality(Before(u))
    OBVIOUS
  <2>0. t \in Tasks /\ u \in Tasks
    OBVIOUS
  <2>1. Before(t) \cup {t} \subseteq Before(u)
    BY <2>0, CompensatedBeforeOrder
  <2>2. t \notin Before(t)
    BY <2>0, CompensatedBeforeOrder
  <2>3. /\ Before(t) \in SUBSET Tasks /\ Cardinality(Before(t)) \in Nat
        /\ Before(u) \in SUBSET Tasks /\ Cardinality(Before(u)) \in Nat
    BY <1>2
  <2> HIDE DEF Before
  <2>4. Cardinality(Before(t) \cup {t}) = Cardinality(Before(t)) + 1
    BY <2>0, <2>2, <2>3, CountFacts
  <2>5. Before(t) \cup {t} \in SUBSET Tasks
    BY <2>0, <2>3
  <2>6. Cardinality(Before(t) \cup {t}) <= Cardinality(Before(u))
    BY <2>1, <2>3, <2>5, CountFacts
  <2> QED BY <2>3, <2>4, <2>6
<1>5. Rank \in Injection(E, 1..n)
  <2>1. Rank \in [E -> 1..n]
    <3> HIDE DEF n, Before
    <3> QED BY <1>1, <1>2, <1>3
  <2>2. \A t, u \in E : Rank[t] = Rank[u] => t = u
    <3> SUFFICES ASSUME NEW t \in E, NEW u \in E, t # u PROVE Rank[t] # Rank[u]
      OBVIOUS
    <3>1. CompensatedBefore(t, u) \/ CompensatedBefore(u, t)
      BY CompensatedBeforeOrder
    <3> HIDE DEF Before
    <3>2. Cardinality(Before(t)) # Cardinality(Before(u))
      BY <1>2, <1>4, <3>1
    <3> QED BY <1>2, <3>2
  <2> HIDE DEF Rank, n
  <2> QED BY <2>1, <2>2 DEF Injection, IsInjective
<1>6. Rank \in Surjection(E, 1..n)
  <2> HIDE DEF Rank
  <2>1. IsFiniteSet(1..n) /\ Cardinality(1..n) = n
    BY <1>1, FS_Interval
  <2>2. Cardinality(E) = Cardinality(1..n)
    BY <2>1
  <2> HIDE DEF n
  <2> QED BY <1>5, <2>1, <2>2, FS_Injection
<1>7. \A i \in 1..n : \E t \in E : Cardinality(Before(t)) = i - 1
  <2> SUFFICES ASSUME NEW i \in 1..n PROVE \E t \in E : Cardinality(Before(t)) = i - 1
    OBVIOUS
  <2>1. \E t \in E : Rank[t] = i
    <3> HIDE DEF Rank, n
    <3> QED BY <1>6 DEF Surjection
  <2>2. PICK t \in E : Rank[t] = i
    BY <2>1
  <2>3. Cardinality(Before(t)) + 1 = i /\ Cardinality(Before(t)) \in Nat
    BY <1>2, <2>2
  <2> HIDE DEF Before
  <2> QED BY <2>3
<1>8. s = [i \in 1..n |-> CHOOSE t \in E : Cardinality(Before(t)) = i - 1]
  BY DEF CompensationOrder
<1> HIDE DEF s
<1>9. \A i \in 1..n : s[i] \in E /\ Cardinality(Before(s[i])) = i - 1
  <2> HIDE DEF Before, n
  <2> QED BY <1>7, <1>8
<1>10. DOMAIN s = 1..n /\ s \in [1..n -> Tasks]
  <2> HIDE DEF Before, n
  <2>1. s \in [1..n -> E]
    BY <1>8, <1>9
  <2> QED BY <2>1
<1>11. ASSUME NEW i \in 1..n, NEW k \in 1..n, i < k PROVE CompensatedBefore(s[i], s[k])
  <2> HIDE DEF Before, n
  <2>1. s[i] \in E /\ s[k] \in E /\ Cardinality(Before(s[i])) < Cardinality(Before(s[k]))
    BY <1>1, <1>9, <1>11
  <2>2. s[i] # s[k] /\ ~CompensatedBefore(s[k], s[i])
    BY <1>2, <1>4, <2>1
  <2> QED BY <2>1, <2>2, CompensatedBeforeOrder
<1>12. s \in Seq(Tasks)
  <2> HIDE DEF n
  <2> QED BY <1>1, <1>10
<1> QED BY <1>9, <1>10, <1>11, <1>12 DEF s

LEMMA QuietActionsKeepLoop ==
  ASSUME LoopInv,
         \/ Reject \/ DelayTask \/ StopDispatching \/ ObserveDone
         \/ SpinTemplate \/ SpinCompensation
         \/ CancelRun \/ RunTimesOut \/ UNCHANGED vars
  PROVE  LoopInv'
<1>0. ctxDone \in BOOLEAN /\ runCtxDone \in BOOLEAN /\ status \in RunStatuses
  BY DEF LoopInv, TypeOK
<1>1. CASE Reject
  BY <1>0, <1>1, QuietStepKeepsLoop DEF Reject, Loop
<1>2. CASE DelayTask
  <2>1. BranchTaken(Head(ready))
    BY <1>2 DEF DelayTask, Startable, evaluateCondition, BranchTaken
  <2> QED BY <1>0, <1>2, <2>1, QuietStepKeepsLoop DEF DelayTask, Startable, Dispatching, Loop
<1>3. CASE StopDispatching
  <2>1. pc' \in {"finish", "wait"} /\ pc = "dispatch"
    BY <1>3 DEF StopDispatching
  <2> QED BY <1>0, <1>3, <2>1, QuietStepKeepsLoop DEF StopDispatching, Loop
<1>4. CASE ObserveDone
  <2>1. status' \in RunStatuses
    BY <1>4 DEF ObserveDone, RunStatuses
  <2> QED BY <1>0, <1>4, <2>1, QuietStepKeepsLoop DEF ObserveDone, Loop
<1>5. CASE CancelRun
  BY <1>0, <1>5, QuietStepKeepsLoop DEF CancelRun
<1>6. CASE RunTimesOut
  BY <1>0, <1>6, QuietStepKeepsLoop DEF RunTimesOut
<1>7. CASE UNCHANGED vars
  BY <1>0, <1>7, QuietStepKeepsLoop DEF vars
<1>8. CASE SpinTemplate \/ SpinCompensation
  BY <1>0, <1>8, QuietStepKeepsLoop DEF SpinTemplate, SpinCompensation, Loop
<1> QED BY <1>1, <1>2, <1>3, <1>4, <1>5, <1>6, <1>7, <1>8

LEMMA StartKeepsLoop ==
  ASSUME LoopInv, Start
  PROVE  LoopInv'
<1>1. TypeOK /\ CountsInv /\ GraphInv /\ BranchInv /\ GoroutineInv /\ ChannelInv
  BY DEF LoopInv
<1>2. /\ pc = "start" /\ pc' = "dispatch" /\ ValidateWorkflow /\ ready' \in Orders(Roots)
      /\ status' = "RUNNING" /\ SaveRun("RUNNING") /\ compensation' = "NOT_REQUIRED"
      /\ UNCHANGED <<wf, ctxDone, runCtxDone, remaining, blocked, active, completed,
                   failFastTriggered, results, taskVars, resultCh, pending, compensations>>
  BY DEF Start
<1>3. /\ wf' = wf /\ results' = results /\ exec' = exec /\ outcome' = outcome
      /\ wf.deps \in [Tasks -> SUBSET Tasks]
      /\ \A t \in Tasks : exec[t] = "idle" /\ results[t] = NoResult
  BY <1>1, <1>2, WorkflowFacts DEF TypeOK, GoroutineInv, taskVars
<1>4. /\ Resolved' = Resolved /\ MaxConcurrency' = MaxConcurrency /\ Unreceived' = Unreceived
      /\ \A c : OpenDeps(c)' = OpenDeps(c)
  BY <1>3 DEF Resolved, Unreceived, Started, MaxConcurrency, OpenDeps
<1>5. /\ ready' \in Seq(Tasks) /\ NoDup(ready')
      /\ \A x : InSeq(x, ready') <=> x \in Roots
  <2>1. Roots \in SUBSET Tasks
    BY DEF Roots
  <2> QED BY <1>2, <2>1, OrdersFacts
<1>6. \A t \in Tasks : Due(t)' <=> t \in Roots
  BY <1>3 DEF Due, OpenDeps, Roots
<1>7. ReadyInv'
  BY <1>2, <1>5, <1>6 DEF ReadyInv
<1>8. CountsInv'
  BY <1>1, <1>2, <1>4 DEF CountsInv, Loop
<1>9. GraphInv'
  <2>1. Acyclic(wf.deps)
    BY <1>2 DEF ValidateWorkflow
  <2> QED BY <1>1, <1>2, <1>3, <1>4, <2>1 DEF GraphInv, Started, Loop, NoResult
<1>10. GoroutineInv' /\ ChannelInv' /\ BranchInv'
  BY <1>1, <1>2, <1>3 DEF GoroutineInv, ChannelInv, BranchInv, Started, Loop
<1>11. TypeOK'
  <2>1. /\ pc' \in {"start", "dispatch", "delay", "wait", "finish", "compensate", "save", "done"}
        /\ status' \in RunStatuses
        /\ compensation' \in {"NONE", "NOT_REQUIRED", "SUCCESS", "FAILED", "SKIPPED"}
    BY <1>2 DEF RunStatuses
  <2>2. stored' \in RunStatuses
    BY <1>1, <1>2 DEF SaveRun, TypeOK, RunStatuses
  <2> QED BY <1>1, <1>2, <1>5, <2>1, <2>2, Zenon DEF TypeOK, taskVars
<1> QED BY <1>7, <1>8, <1>9, <1>10, <1>11 DEF LoopInv

(* After the loop its data is not read again; the goroutines go on. *)
LEMMA AfterLoopKeepsLoop ==
  ASSUME LoopInv, TypeOK', pc' \notin Loop, BranchInv',
         exec' = exec, outcome' = outcome
  PROVE  LoopInv'
<1>1. CountsInv' /\ ReadyInv' /\ ChannelInv' /\ GraphInv'
  BY DEF CountsInv, ReadyInv, ChannelInv, GraphInv
<1>2. GoroutineInv'
  BY DEF LoopInv, GoroutineInv, Loop
<1> QED BY <1>1, <1>2 DEF LoopInv

LEMMA FinishKeepsLoop ==
  ASSUME LoopInv, Finish
  PROVE  LoopInv'
<1>1. /\ results' = Completed(results) /\ pc' \in {"compensate", "save"}
      /\ compensation' \in {"NOT_REQUIRED", "SKIPPED"}
      /\ pending' \in {CompensationOrder(Eligible(results)), <<>>}
      /\ status' \in {status, "FAILED", "SUCCESS"}
      /\ UNCHANGED <<wf, ctxDone, runCtxDone, remaining, blocked, ready, active, completed,
                       failFastTriggered, taskVars, resultCh, compensations, stored>>
  BY DEF Finish, deriveFinalStatus
<1>2. TypeOK
  BY DEF LoopInv
<1>3. /\ results' \in [Tasks -> TaskStatuses \cup {NoResult}]
      /\ \A t \in Tasks : results[t] # NoResult => results'[t] = results[t]
  BY <1>1, <1>2 DEF Completed, TypeOK, TaskStatuses
<1>4. pending' \in Seq(Tasks)
  <2>1. Eligible(results) \in SUBSET Tasks /\ finishedAt \in [Tasks -> Nat]
    BY <1>2, WorkflowFacts DEF Eligible, TypeOK
  <2>2. CompensationOrder(Eligible(results)) \in Seq(Tasks)
    BY <2>1, CompensationOrderSorted
  <2>3. pending' = CompensationOrder(Eligible(results)) \/ pending' = <<>>
    BY <1>1
  <2>4. <<>> \in Seq(Tasks)
    OBVIOUS
  <2> QED BY <2>2, <2>3, <2>4
<1>5. TypeOK'
  <2>1. /\ pc' \in {"start", "dispatch", "delay", "wait", "finish", "compensate", "save", "done",
                  "spin"}
        /\ compensation' \in {"NONE", "NOT_REQUIRED", "SUCCESS", "FAILED", "SKIPPED"}
        /\ status' \in RunStatuses
    BY <1>1, <1>2 DEF TypeOK, RunStatuses
  <2> QED BY <1>1, <1>2, <1>3, <1>4, <2>1, Zenon DEF TypeOK, taskVars
<1>6. BranchInv'
  <2>1. /\ wf' = wf /\ exec' = exec
        /\ wf.condition \in [Tasks -> [kind : ConditionKinds, on : Tasks]]
    BY <1>1, <1>2, WorkflowFacts DEF TypeOK, taskVars
  <2>2. \A t \in Tasks : Started(t)' <=> Started(t)
    BY <2>1 DEF Started
  <2> SUFFICES ASSUME NEW t \in Tasks, Started(t) PROVE BranchTaken(t)'
    BY <2>2 DEF BranchInv
  <2>3. BranchTaken(t) /\ wf.condition[t].on \in Tasks
    BY <2>1 DEF LoopInv, BranchInv
  <2> QED BY <1>3, <2>1, <2>3 DEF BranchTaken, NoResult
<1> QED BY <1>1, <1>5, <1>6, AfterLoopKeepsLoop DEF taskVars, Loop

LEMMA EndingKeepsLoop ==
  ASSUME LoopInv,
         (\E s \in {"SUCCESS", "FAILED"} : Compensate(s)) \/ EndCompensation \/ Return
  PROVE  LoopInv'
<1>1. TypeOK
  BY DEF LoopInv
<1>2. /\ UNCHANGED <<wf, ctxDone, loopVars, status, taskVars, resultCh>>
      /\ pc' \in {"compensate", "save", "done"}
      /\ runCtxDone' = runCtxDone \/ runCtxDone' = TRUE
  BY DEF Compensate, EndCompensation, Return
<1>3. /\ pending' \in Seq(Tasks)
      /\ compensations' \in Seq([task : Tasks, status : {"SUCCESS", "FAILED"}])
  <2>0. /\ pending \in Seq(Tasks)
        /\ compensations \in Seq([task : Tasks, status : {"SUCCESS", "FAILED"}])
    BY <1>1 DEF TypeOK
  <2>1. ASSUME NEW s \in {"SUCCESS", "FAILED"}, Compensate(s)
        PROVE  /\ pending' \in Seq(Tasks)
               /\ compensations' \in Seq([task : Tasks, status : {"SUCCESS", "FAILED"}])
    <3>1. pending # <<>> /\ Head(pending) \in Tasks /\ Tail(pending) \in Seq(Tasks)
      BY <2>0, <2>1 DEF Compensate
    <3>2. [task |-> Head(pending), status |-> s] \in [task : Tasks, status : {"SUCCESS", "FAILED"}]
      BY <3>1
    <3> QED BY <2>0, <2>1, <3>1, <3>2 DEF Compensate
  <2>2. CASE EndCompensation \/ Return
    BY <2>0, <2>2 DEF EndCompensation, Return
  <2> QED BY <2>1, <2>2
<1>4. /\ compensation' \in {"NONE", "NOT_REQUIRED", "SUCCESS", "FAILED", "SKIPPED"}
      /\ stored' \in RunStatuses
  BY <1>1 DEF Compensate, EndCompensation, Return, SaveRun, TypeOK
<1>5. TypeOK'
  <2>1. runCtxDone' \in BOOLEAN
    BY <1>1, <1>2 DEF TypeOK
  <2>2. pc' \in {"start", "dispatch", "delay", "wait", "finish", "compensate", "save", "done",
               "spin"}
    BY <1>2
  <2> QED BY <1>1, <1>2, <1>3, <1>4, <2>1, <2>2, Zenon DEF TypeOK, loopVars, taskVars
<1>6. BranchInv'
  <2>1. wf' = wf /\ exec' = exec /\ results' = results
    BY <1>2 DEF loopVars, taskVars
  <2> QED BY <2>1 DEF LoopInv, BranchInv, BranchTaken, Started
<1> QED BY <1>2, <1>5, <1>6, AfterLoopKeepsLoop DEF taskVars, Loop

LEMMA NextKeepsLoop ==
  ASSUME LoopInv, [Next]_vars
  PROVE  LoopInv'
<1>1. CASE MainStep
  <2>1. CASE Dispatch
    BY <2>1, SkipOrFailKeepsLoop, LaunchKeepsLoop, QuietActionsKeepLoop DEF Dispatch
  <2>2. CASE Reject \/ ObserveDone \/ SpinCompensation
    BY <2>2, QuietActionsKeepLoop
  <2> QED BY <1>1, <2>1, <2>2, StartKeepsLoop, ReceiveKeepsLoop, FinishKeepsLoop, EndingKeepsLoop
          DEF MainStep
<1>2. CASE \E t \in Tasks : TaskStep(t)
  <2>1. PICK t \in Tasks : TaskStep(t)
    BY <1>2
  <2>2. TaskMoves(t)
    BY <2>1, TaskStepMoves DEF LoopInv
  <2> QED BY <2>2, TaskStepKeepsLoop
<1>3. CASE CancelRun \/ RunTimesOut \/ Terminated \/ UNCHANGED vars
  BY <1>3, QuietActionsKeepLoop DEF Terminated
<1> QED BY <1>1, <1>2, <1>3 DEF Next

LEMMA LoopInvariant == Spec => []LoopInv
<1>1. LoopInv /\ [Next]_vars => LoopInv'
  BY NextKeepsLoop
<1> QED BY LoopInit, <1>1, PTL DEF Spec

-----------------------------------------------------------------------------
(* What the loop's invariant says of the run. *)

LoopGives == pc \in Loop => StartsAfterUpstream /\ SettledInv /\ SlotsInv

(* The resolved tasks that are not blocked and did not fail for good hold   *)
(* the dependencies of every started task and of each other: everything     *)
(* upstream of a started task is one of them.                               *)
LEMMA LoopInvGives == LoopInv => LoopGives
<1> SUFFICES ASSUME LoopInv, pc \in Loop PROVE StartsAfterUpstream /\ SettledInv /\ SlotsInv
  BY DEF LoopGives
<1>0. /\ wf.deps \in [Tasks -> SUBSET Tasks] /\ TypeOK /\ GraphInv /\ GoroutineInv /\ CountsInv
      /\ MaxConcurrency \in Nat
  BY WorkflowFacts DEF LoopInv, TypeOK
<1> DEFINE Good == {u \in Tasks : /\ results[u] # NoResult /\ u \notin blocked
                                  /\ results[u] = "FAILED" => u \in wf.allowFailure}
<1>1. ASSUME NEW t \in Tasks, t \notin blocked, OpenDeps(t) = {} PROVE wf.deps[t] \subseteq Good
  <2> SUFFICES ASSUME NEW u \in wf.deps[t] PROVE u \in Good
    OBVIOUS
  <2>1. u \in Tasks /\ results[u] # NoResult
    BY <1>0, <1>1 DEF OpenDeps
  <2>2. u \notin blocked /\ (results[u] = "FAILED" => u \in wf.allowFailure)
    BY <1>0, <1>1, <2>1 DEF GraphInv
  <2> QED BY <2>1, <2>2
<1>2. \A u \in Good : wf.deps[u] \subseteq Good
  <2> SUFFICES ASSUME NEW u \in Good PROVE wf.deps[u] \subseteq Good
    OBVIOUS
  <2>1. u \in Tasks /\ u \notin blocked /\ OpenDeps(u) = {}
    BY <1>0 DEF GraphInv
  <2> HIDE DEF Good
  <2> QED BY <1>1, <2>1
<1>3. ASSUME NEW t \in Tasks, Started(t) PROVE Upstream(t) \subseteq Good
  <2>1. t \notin blocked /\ OpenDeps(t) = {}
    BY <1>0, <1>3 DEF GraphInv
  <2>2. Good \in SUBSET Tasks
    OBVIOUS
  <2> HIDE DEF Good
  <2> QED BY <1>1, <1>2, <2>1, <2>2, UpstreamLeast
<1>4. StartsAfterUpstream
  BY <1>3 DEF StartsAfterUpstream
<1>5. SettledInv
  BY <1>0, <1>3 DEF SettledInv, GoroutineInv
<1>6. SlotsInv
  <2>1. Running \subseteq Unreceived /\ Running \in SUBSET Tasks /\ Unreceived \in SUBSET Tasks
    BY <1>0 DEF Running, Unreceived, Started, GoroutineInv
  <2>2. Cardinality(Running) <= Cardinality(Unreceived)
    BY <2>1, CountFacts
  <2>3. Cardinality(Running) \in 0..NTasks /\ Cardinality(Unreceived) \in 0..NTasks
    BY <2>1, TaskSetFacts
  <2>4. Cardinality(Unreceived) <= MaxConcurrency
    BY <1>0 DEF CountsInv
  <2> QED BY <1>0, <2>2, <2>3, <2>4, NTasksAssumption DEF SlotsInv
<1> QED BY <1>4, <1>5, <1>6

(* With nothing running and nothing ready, an acyclic graph has no open     *)
(* task: a first one of the open tasks would be due.                        *)
LEMMA NothingLeft ==
  ASSUME LoopInv, pc = "dispatch", active = 0, ready = <<>>
  PROVE  \A t \in Tasks : results[t] # NoResult
<1>0. pc \in Loop /\ pc \in Loop \ {"start"}
  BY DEF Loop
<1>1. /\ Acyclic(wf.deps) /\ active = Cardinality(Unreceived) /\ Unreceived \in SUBSET Tasks
      /\ wf.deps \in [Tasks -> SUBSET Tasks]
  BY <1>0, WorkflowFacts DEF LoopInv, GraphInv, CountsInv, Unreceived, TypeOK
<1>2. Unreceived = {}
  BY <1>1, CountFacts
<1> DEFINE S == Tasks \ Resolved
<1> SUFFICES ASSUME S # {} PROVE FALSE
  BY DEF Resolved
<1>3. PICK t \in S : wf.deps[t] \cap S = {}
  BY <1>1 DEF Acyclic
<1>4. t \in Tasks /\ results[t] = NoResult /\ OpenDeps(t) = {}
  BY <1>1, <1>3 DEF Resolved, OpenDeps
<1>5. exec[t] = "idle"
  BY <1>2, <1>4 DEF Unreceived, Started
<1>6. InSeq(t, ready)
  BY <1>0, <1>4, <1>5 DEF LoopInv, ReadyInv, Due
<1> QED BY <1>6 DEF InSeq

(* Every step moves one goroutine or leaves their results alone, and once   *)
(* the loop is over no task starts and the results are only completed.      *)
LEMMA StepShape ==
  ASSUME LoopInv, [Next]_vars
  PROVE  /\ wf' = wf
         /\ \/ UNCHANGED <<outcome, finishedAt, clock>>
            \/ \E t \in Tasks : TaskMoves(t)
         /\ pc' \notin Loop => /\ exec' = exec \/ \E t \in Tasks : TaskMoves(t)
                               /\ results' = results \/ results' = Completed(results)
<1>1. CASE MainStep
  <2>1. CASE Reject \/ EndCompensation \/ Return \/ \E s \in {"SUCCESS", "FAILED"} : Compensate(s)
    BY <2>1 DEF Reject, EndCompensation, Return, Compensate, taskVars, loopVars
  <2>2. CASE Finish
    BY <2>2 DEF Finish, taskVars
  <2>3. CASE Start \/ ObserveDone \/ ReceiveResult
    <3>1. pc' \in Loop
      BY <2>3 DEF Start, ObserveDone, ReceiveResult, Loop
    <3> QED BY <2>3, <3>1 DEF Start, ObserveDone, ReceiveResult, taskVars
  <2>4. CASE SkipBlocked \/ SkipByCondition \/ FailTemplate
    BY <2>4 DEF SkipBlocked, SkipByCondition, FailTemplate, Resolve, Dispatching, taskVars, Loop
  <2>5. CASE StartTask \/ StartDelayedTask
    BY <2>5 DEF StartTask, StartDelayedTask, Startable, Dispatching, Launch, Loop
  <2>6. CASE DelayTask \/ StopDispatching \/ SpinTemplate \/ SpinCompensation
    BY <2>6 DEF DelayTask, StopDispatching, SpinTemplate, SpinCompensation, taskVars, loopVars,
                Loop
  <2> QED BY <1>1, <2>1, <2>2, <2>3, <2>4, <2>5, <2>6 DEF MainStep, Dispatch
<1>2. CASE \E t \in Tasks : TaskStep(t)
  <2>1. PICK t \in Tasks : TaskMoves(t)
    BY <1>2, TaskStepMoves DEF LoopInv
  <2> QED BY <2>1 DEF TaskMoves, loopVars
<1>3. CASE CancelRun \/ RunTimesOut \/ Terminated \/ UNCHANGED vars
  BY <1>3 DEF CancelRun, RunTimesOut, Terminated, vars, taskVars, loopVars
<1> QED BY <1>1, <1>2, <1>3 DEF Next

(* What a goroutine's step does to exec and to the finish times. *)
LEMMA TaskMoveFacts ==
  ASSUME LoopInv, NEW t \in Tasks, TaskMoves(t)
  PROVE  /\ exec[t] \notin {"idle", "sent"}
         /\ exec' \in [Tasks -> InFlight \cup {"idle"}]
         /\ \A u \in Tasks : exec'[u] = "idle" <=> exec[u] = "idle"
         /\ \A u \in Tasks \ {t} : /\ exec'[u] = exec[u] /\ outcome'[u] = outcome[u]
                                   /\ finishedAt'[u] = finishedAt[u]
         /\ exec'[t] \in {"executing", "backoff"} => exec[t] \in {"executing", "backoff"}
         /\ \/ outcome[t] # NoResult /\ UNCHANGED <<outcome, finishedAt, clock>>
            \/ outcome[t] = NoResult /\ UNCHANGED <<outcome, finishedAt, clock>>
            \/ /\ outcome[t] = NoResult
               /\ \E d \in ClockSteps : clock' = clock + d /\ finishedAt'[t] = clock + d
<1>1. /\ exec \in [Tasks -> InFlight \cup {"idle"}] /\ GoroutineInv
      /\ outcome \in [Tasks -> TaskStatuses \cup {NoResult}] /\ finishedAt \in [Tasks -> Nat]
  BY DEF LoopInv, TypeOK
<1>2. CASE /\ exec[t] \in {"executing", "backoff"}
           /\ \E e \in {"executing", "backoff"} : exec' = [exec EXCEPT ![t] = e]
           /\ UNCHANGED <<outcome, finishedAt, clock, resultCh>>
  BY <1>1, <1>2 DEF InFlight
<1>3. CASE /\ exec[t] \in {"executing", "backoff"}
           /\ \E s \in {"SUCCESS", "FAILED"} : TaskEnds(t, s)
  BY <1>1, <1>3 DEF InFlight, TaskEnds, GoroutineInv
<1>4. CASE /\ exec[t] = "finished"
           /\ exec' = [exec EXCEPT ![t] = "sent"]
           /\ UNCHANGED <<outcome, finishedAt, clock>>
  BY <1>1, <1>4 DEF InFlight
<1> QED BY <1>2, <1>3, <1>4 DEF TaskMoves

(* The order of starts and the slots, from the loop's data while the loop   *)
(* runs and because nothing starts any more when it is over.                *)
LEMMA OrderKept ==
  ASSUME LoopInv, LoopGives', StartsAfterUpstream, SettledInv, SlotsInv, [Next]_vars
  PROVE  StartsAfterUpstream' /\ SettledInv' /\ SlotsInv'
<1> SUFFICES ASSUME pc' \notin Loop PROVE StartsAfterUpstream' /\ SettledInv' /\ SlotsInv'
  BY DEF LoopGives
<1>0. /\ wf' = wf
      /\ exec' = exec \/ \E t \in Tasks : TaskMoves(t)
      /\ results' = results \/ results' = Completed(results)
  BY StepShape
<1>1. /\ \A t \in Tasks : Started(t)' <=> Started(t)
      /\ \A t \in Tasks : exec[t] \in {"idle", "sent"} => exec'[t] = exec[t]
      /\ Running' \subseteq Running
  <2>1. CASE exec' = exec
    BY <2>1 DEF Started, Running
  <2>2. CASE \E t \in Tasks : TaskMoves(t)
    <3>1. PICK t \in Tasks : TaskMoves(t)
      BY <2>2
    <3>2. /\ exec[t] \notin {"idle", "sent"}
          /\ \A u \in Tasks : exec'[u] = "idle" <=> exec[u] = "idle"
          /\ \A u \in Tasks \ {t} : exec'[u] = exec[u]
          /\ exec'[t] \in {"executing", "backoff"} => exec[t] \in {"executing", "backoff"}
      BY <3>1, TaskMoveFacts
    <3> QED BY <3>2 DEF Started, Running
  <2> QED BY <1>0, <2>1, <2>2
<1>2. \A t : Upstream(t)' = Upstream(t) /\ Upstream(t) \subseteq Tasks
  BY <1>0, UpstreamTasks DEF Upstream
<1>3. \A u \in Tasks : /\ results[u] # NoResult => results'[u] # NoResult
                       /\ results'[u] = "FAILED" => results[u] = "FAILED"
  BY <1>0 DEF Completed, NoResult
<1>4. StartsAfterUpstream'
  BY <1>0, <1>1, <1>2, <1>3 DEF StartsAfterUpstream
<1>5. SettledInv'
  BY <1>1, <1>2 DEF SettledInv
<1>6. SlotsInv'
  <2>1. Running \in SUBSET Tasks /\ Running' \in SUBSET Tasks
    BY DEF Running
  <2>2. Cardinality(Running') <= Cardinality(Running)
    BY <1>1, <2>1, CountFacts
  <2>3. Cardinality(Running') \in 0..NTasks /\ Cardinality(Running) \in 0..NTasks
    BY <2>1, TaskSetFacts
  <2>4. MaxConcurrency' = MaxConcurrency /\ MaxConcurrency \in Nat
    BY <1>0, WorkflowFacts DEF LoopInv, TypeOK, MaxConcurrency
  <2> QED BY <2>2, <2>3, <2>4, NTasksAssumption DEF SlotsInv
<1> QED BY <1>4, <1>5, <1>6

(* A result is never overwritten. *)
LEMMA ResultsStand ==
  ASSUME LoopInv, [Next]_vars
  PROVE  \A t \in Tasks : results[t] # NoResult => results'[t] = results[t]
<1>0. TypeOK /\ ReadyInv /\ ChannelInv /\ results \in [Tasks -> TaskStatuses \cup {NoResult}]
  BY DEF LoopInv, TypeOK
<1>1. CASE SkipBlocked \/ SkipByCondition \/ FailTemplate
  <2>1. pc \in Loop /\ ready # <<>> /\ \E s : results' = [results EXCEPT ![Head(ready)] = s]
    BY <1>1 DEF SkipBlocked, SkipByCondition, FailTemplate, Resolve, Dispatching, Loop
  <2>2. Head(ready) \in Tasks /\ Due(Head(ready))
    BY <1>0, <2>1, HeadFacts
  <2> QED BY <1>0, <2>1, <2>2 DEF Due
<1>2. CASE ReceiveResult
  <2>1. /\ pc \in Loop /\ resultCh # <<>>
        /\ results' = [results EXCEPT ![Head(resultCh)] = outcome[Head(resultCh)]]
    BY <1>2 DEF ReceiveResult, Loop
  <2>2. resultCh \in Seq(Tasks) /\ NoDup(resultCh)
    BY <1>0, <2>1 DEF TypeOK, ChannelInv
  <2>3. Head(resultCh) \in Tasks /\ InSeq(Head(resultCh), resultCh)
    BY <2>1, <2>2, TailFacts
  <2> QED BY <1>0, <2>1, <2>3 DEF ChannelInv
<1>3. CASE Finish
  BY <1>3 DEF Finish, Completed
<1>4. CASE \E t \in Tasks : TaskStep(t)
  <2>1. PICK t \in Tasks : TaskMoves(t)
    BY <1>0, <1>4, TaskStepMoves
  <2> QED BY <2>1 DEF TaskMoves, loopVars
<1>5. CASE \/ Reject \/ Start \/ StartTask \/ DelayTask \/ StartDelayedTask \/ StopDispatching
           \/ ObserveDone \/ EndCompensation \/ Return \/ SpinTemplate \/ SpinCompensation
           \/ \E s \in {"SUCCESS", "FAILED"} : Compensate(s)
           \/ CancelRun \/ RunTimesOut \/ Terminated \/ UNCHANGED vars
  BY <1>5
  DEF Reject, Start, StartTask, DelayTask, StartDelayedTask, Launch, StopDispatching, ObserveDone,
      EndCompensation, Return, SpinTemplate, SpinCompensation, Compensate, CancelRun, RunTimesOut,
      Terminated, vars, loopVars
<1> QED BY <1>1, <1>2, <1>3, <1>4, <1>5 DEF Next, MainStep, Dispatch

(* The loop ends by itself only when every task has a result. *)
LEMMA NothingForgotten ==
  ASSUME LoopInv, LoopInv', NoTaskForgotten, [Next]_vars
  PROVE  NoTaskForgotten'
<1> SUFFICES ASSUME pc' = "finish", status' = "RUNNING"
             PROVE  \A t \in Tasks : results'[t] # NoResult
  BY DEF NoTaskForgotten
<1>1. CASE pc = "finish" /\ status = "RUNNING"
  BY <1>1, ResultsStand DEF NoTaskForgotten
<1>2. CASE StopDispatching
  <2>1. pc = "dispatch" /\ active = 0 /\ ready = <<>> /\ results' = results
    <3>1. MaxConcurrency \in Nat \ {0}
      BY WorkflowFacts DEF LoopInv, TypeOK
    <3> QED BY <1>2, <3>1 DEF StopDispatching, loopVars
  <2> QED BY <2>1, NothingLeft
<1>3. CASE ReceiveResult
  <2>1. completed' = completed + 1 /\ ~(completed + 1 < NTasks)
    BY <1>3 DEF ReceiveResult
  <2>2. completed' = Cardinality(Resolved') /\ completed' \in 0..NTasks
    BY DEF LoopInv, TypeOK, CountsInv, Loop
  <2>3. Cardinality(Resolved') = NTasks
    BY <2>1, <2>2, NTasksAssumption
  <2>4. Resolved' \in SUBSET Tasks
    BY DEF Resolved
  <2>5. Resolved' = Tasks
    BY <2>3, <2>4, TaskSetFacts
  <2> QED BY <2>5 DEF Resolved
<1>4. CASE \E t \in Tasks : TaskStep(t)
  <2>1. PICK t \in Tasks : TaskMoves(t)
    BY <1>4, TaskStepMoves DEF LoopInv
  <2> QED BY <1>1, <2>1 DEF TaskMoves
<1>5. CASE CancelRun \/ RunTimesOut \/ Terminated \/ UNCHANGED vars
  BY <1>1, <1>5 DEF CancelRun, RunTimesOut, Terminated, vars
<1>6. CASE ObserveDone
  BY <1>6 DEF ObserveDone
<1>7. CASE SkipBlocked \/ SkipByCondition \/ FailTemplate
  BY <1>7 DEF SkipBlocked, SkipByCondition, FailTemplate, Resolve, Dispatching
<1>8. CASE \/ Reject \/ Start \/ StartTask \/ DelayTask \/ StartDelayedTask
           \/ Finish \/ EndCompensation \/ Return \/ SpinTemplate \/ SpinCompensation
           \/ \E s \in {"SUCCESS", "FAILED"} : Compensate(s)
  BY <1>8
  DEF Reject, Start, StartTask, Startable, Dispatching, DelayTask, StartDelayedTask, Finish,
      EndCompensation, Return, SpinTemplate, SpinCompensation, Compensate
<1> QED BY <1>2, <1>3, <1>4, <1>5, <1>6, <1>7, <1>8 DEF Next, MainStep, Dispatch

(* FinishedAt does not fall along the graph. *)
LEMMA ClockKept ==
  ASSUME LoopInv, SettledInv, ClockInv, [Next]_vars
  PROVE  ClockInv'
<1>0. /\ wf' = wf
      /\ UNCHANGED <<outcome, finishedAt, clock>> \/ \E t \in Tasks : TaskMoves(t)
  BY StepShape
<1>1. \A t : Upstream(t)' = Upstream(t) /\ Upstream(t) \subseteq Tasks
  BY <1>0, UpstreamTasks DEF Upstream
<1>2. CASE UNCHANGED <<outcome, finishedAt, clock>>
  BY <1>1, <1>2 DEF ClockInv
<1>3. CASE \E t \in Tasks : TaskMoves(t)
  <2>1. PICK t \in Tasks : TaskMoves(t)
    BY <1>3
  <2>2. /\ exec[t] \notin {"idle", "sent"}
        /\ \A u \in Tasks \ {t} : outcome'[u] = outcome[u] /\ finishedAt'[u] = finishedAt[u]
        /\ \/ UNCHANGED <<outcome, finishedAt, clock>>
           \/ /\ outcome[t] = NoResult
              /\ \E d \in ClockSteps : clock' = clock + d /\ finishedAt'[t] = clock + d
    BY <2>1, TaskMoveFacts
  <2>3. CASE outcome[t] = NoResult
             /\ \E d \in ClockSteps : clock' = clock + d /\ finishedAt'[t] = clock + d
    <3>1. PICK d \in ClockSteps : clock' = clock + d /\ finishedAt'[t] = clock + d
      BY <2>3
    <3>2. d \in Nat /\ clock \in Nat /\ \A u \in Tasks : finishedAt[u] \in Nat
      BY ClockAssumption DEF LoopInv, TypeOK
    <3>3. \A u \in Tasks : outcome'[u] # NoResult => finishedAt'[u] <= clock'
      BY <2>2, <3>1, <3>2 DEF ClockInv
    <3>4. \A v \in Tasks : outcome[v] # NoResult => Started(v)
      BY DEF LoopInv, GoroutineInv, Started
    <3>5. ASSUME NEW v \in Tasks, NEW u \in Upstream(v),
                 outcome'[v] # NoResult, outcome'[u] # NoResult
          PROVE  finishedAt'[u] <= finishedAt'[v]
      <4>0. u \in Tasks
        BY <1>1
      <4>1. CASE v = t
        <5>1. Started(t)
          BY <2>2 DEF Started
        <5>2. exec[u] \in {"idle", "sent"}
          BY <4>1, <5>1 DEF SettledInv
        <5>3. u # t /\ outcome[u] # NoResult /\ finishedAt'[u] = finishedAt[u]
          BY <2>2, <3>5, <4>0, <5>2
        <5>4. finishedAt[u] <= clock
          BY <4>0, <5>3 DEF ClockInv
        <5> QED BY <3>1, <3>2, <4>0, <4>1, <5>3, <5>4
      <4>2. CASE v # t
        <5>1. outcome[v] # NoResult /\ Started(v)
          BY <2>2, <3>4, <3>5, <4>2
        <5>2. u # t
          BY <2>2, <5>1 DEF SettledInv
        <5> QED BY <2>2, <3>5, <4>0, <4>2, <5>1, <5>2 DEF ClockInv
      <4> QED BY <4>1, <4>2
    <3> QED BY <1>1, <3>3, <3>5 DEF ClockInv
  <2> QED BY <1>2, <2>2, <2>3
<1> QED BY <1>0, <1>2, <1>3

(* Steps that leave the compensations alone. *)
LEMMA CompensationSame ==
  ASSUME LoopInv, CompensationInv, UNCHANGED <<pending, compensations>>,
         pc' \in Loop => pc \in Loop,
         UNCHANGED <<outcome, finishedAt, clock>> \/ \E t \in Tasks : TaskMoves(t)
  PROVE  CompensationInv'
<1>0. /\ pending \in Seq(Tasks)
      /\ compensations \in Seq([task : Tasks, status : {"SUCCESS", "FAILED"}])
  BY DEF LoopInv, TypeOK
<1>1. /\ \A i \in DOMAIN pending : pending[i] \in Tasks
      /\ \A i \in DOMAIN compensations : compensations[i].task \in Tasks
  <2>1. \A i \in DOMAIN pending : pending[i] \in Tasks
    BY <1>0
  <2>2. \A i \in DOMAIN compensations :
           compensations[i] \in [task : Tasks, status : {"SUCCESS", "FAILED"}]
    BY <1>0, ElementType
  <2> QED BY <2>1, <2>2
<1>2. \A t \in Tasks : outcome[t] = "SUCCESS" =>
         outcome'[t] = "SUCCESS" /\ finishedAt'[t] = finishedAt[t]
  <2>1. CASE \E t \in Tasks : TaskMoves(t)
    <3>1. PICK t \in Tasks : TaskMoves(t)
      BY <2>1
    <3>2. /\ \A u \in Tasks \ {t} : outcome'[u] = outcome[u] /\ finishedAt'[u] = finishedAt[u]
          /\ outcome[t] = NoResult \/ UNCHANGED <<outcome, finishedAt, clock>>
      BY <3>1, TaskMoveFacts
    <3> QED BY <3>2 DEF NoResult
  <2> QED BY <2>1
<1>3. \A t, u \in Tasks :
         outcome[t] = "SUCCESS" /\ outcome[u] = "SUCCESS" /\ CompensatedBefore(t, u)
            => CompensatedBefore(t, u)'
  BY <1>2 DEF CompensatedBefore
<1> QED BY <1>1, <1>2, <1>3 DEF CompensationInv

LEMMA FinishCompensation ==
  ASSUME LoopInv, CompensationInv, Finish
  PROVE  CompensationInv'
<1> DEFINE E == Eligible(results)
<1>0. /\ pc = "finish" /\ pc' \notin Loop /\ compensations' = compensations
      /\ outcome' = outcome /\ finishedAt' = finishedAt
      /\ pending' = CompensationOrder(E) \/ pending' = <<>>
  BY DEF Finish, taskVars, Loop
<1>1. compensations = <<>>
  BY <1>0 DEF CompensationInv, Loop
<1>2. E \in SUBSET Tasks /\ finishedAt \in [Tasks -> Nat]
  BY WorkflowFacts DEF LoopInv, TypeOK, Eligible
<1>3. \A t \in E : outcome[t] = "SUCCESS"
  <2> SUFFICES ASSUME NEW t \in E PROVE outcome[t] = "SUCCESS"
    OBVIOUS
  <2>1. t \in Tasks /\ results[t] = "SUCCESS" /\ results[t] # NoResult /\ pc \in Loop
    BY <1>0, <1>2 DEF Eligible, NoResult, Loop
  <2> QED BY <2>1 DEF LoopInv, GoroutineInv
<1>4. \A t, u : CompensatedBefore(t, u)' <=> CompensatedBefore(t, u)
  BY <1>0 DEF CompensatedBefore
<1> HIDE DEF E
<1>5. /\ \A i \in DOMAIN pending' : pending'[i] \in E
      /\ \A i, k \in DOMAIN pending' : i < k => CompensatedBefore(pending'[i], pending'[k])
  <2>1. CASE pending' = CompensationOrder(E)
    <3>1. /\ \A i \in DOMAIN CompensationOrder(E) : CompensationOrder(E)[i] \in E
          /\ \A i, k \in DOMAIN CompensationOrder(E) : i < k =>
                CompensatedBefore(CompensationOrder(E)[i], CompensationOrder(E)[k])
      BY <1>2, CompensationOrderSorted
    <3> QED BY <2>1, <3>1, Zenon
  <2>2. CASE pending' = <<>>
    BY <2>2
  <2> QED BY <1>0, <2>1, <2>2
<1> QED BY <1>0, <1>1, <1>3, <1>4, <1>5 DEF CompensationInv

LEMMA CompensateKeeps ==
  ASSUME LoopInv, CompensationInv, NEW s \in {"SUCCESS", "FAILED"}, Compensate(s)
  PROVE  CompensationInv'
<1>0. /\ pc = "compensate" /\ pc' = pc /\ outcome' = outcome /\ finishedAt' = finishedAt
      /\ pending # <<>> /\ pending' = Tail(pending)
      /\ compensations' = Append(compensations, [task |-> Head(pending), status |-> s])
  BY DEF Compensate, taskVars
<1>1. /\ pending \in Seq(Tasks)
      /\ compensations \in Seq([task : Tasks, status : {"SUCCESS", "FAILED"}])
  BY DEF LoopInv, TypeOK
<1>2. \A t, u : CompensatedBefore(t, u)' <=> CompensatedBefore(t, u)
  BY <1>0 DEF CompensatedBefore
<1> DEFINE n == Len(compensations)
           h == Head(pending)
<1>3. /\ n \in Nat /\ DOMAIN compensations = 1..n /\ DOMAIN compensations' = 1..(n + 1)
      /\ \A i \in 1..n : compensations'[i] = compensations[i]
      /\ compensations'[n + 1].task = h
  BY <1>0, <1>1
<1>4. /\ 1 \in DOMAIN pending /\ h = pending[1]
      /\ \A i \in DOMAIN pending' : /\ i + 1 \in DOMAIN pending /\ i \in Nat \ {0}
                                    /\ pending'[i] = pending[i + 1]
  BY <1>0, <1>1
<1> HIDE DEF n, h
<1>5. \A i \in 1..(n + 1) : i \in 1..n \/ i = n + 1
  BY <1>3
<1>6. \A i \in DOMAIN pending' : outcome'[pending'[i]] = "SUCCESS"
  BY <1>0, <1>4 DEF CompensationInv
<1>7. \A i \in DOMAIN compensations' : outcome'[compensations'[i].task] = "SUCCESS"
  BY <1>0, <1>3, <1>4, <1>5 DEF CompensationInv
<1>8. \A i, k \in DOMAIN pending' : i < k => CompensatedBefore(pending'[i], pending'[k])
  BY <1>4 DEF CompensationInv
<1>9. \A k \in DOMAIN pending' : CompensatedBefore(h, pending'[k])
  BY <1>4 DEF CompensationInv
<1>10. \A i \in DOMAIN compensations', k \in DOMAIN pending' :
          CompensatedBefore(compensations'[i].task, pending'[k])
  BY <1>3, <1>4, <1>5, <1>9 DEF CompensationInv
<1>11. \A i, k \in DOMAIN compensations' :
          i < k => CompensatedBefore(compensations'[i].task, compensations'[k].task)
  <2> SUFFICES ASSUME NEW i \in 1..(n + 1), NEW k \in 1..(n + 1), i < k
               PROVE  CompensatedBefore(compensations'[i].task, compensations'[k].task)
    BY <1>3
  <2>1. i \in 1..n
    BY <1>3
  <2>2. CASE k \in 1..n
    BY <1>3, <2>1, <2>2 DEF CompensationInv
  <2>3. CASE k = n + 1
    BY <1>3, <1>4, <2>1, <2>3 DEF CompensationInv
  <2> QED BY <1>5, <2>2, <2>3
<1>12. pc' \notin Loop
  BY <1>0 DEF Loop
<1> QED BY <1>2, <1>6, <1>7, <1>8, <1>10, <1>11, <1>12 DEF CompensationInv

LEMMA CompensationKept ==
  ASSUME LoopInv, CompensationInv, [Next]_vars
  PROVE  CompensationInv'
<1>0. UNCHANGED <<outcome, finishedAt, clock>> \/ \E t \in Tasks : TaskMoves(t)
  BY StepShape
<1>1. CASE \E t \in Tasks : TaskStep(t)
  <2>1. PICK t \in Tasks : TaskMoves(t)
    BY <1>1, TaskStepMoves DEF LoopInv
  <2>2. UNCHANGED <<pending, compensations>> /\ pc' = pc
    BY <2>1 DEF TaskMoves, endVars
  <2> QED BY <1>0, <2>2, CompensationSame
<1>2. CASE SkipBlocked \/ SkipByCondition \/ FailTemplate
  <2>1. UNCHANGED <<pending, compensations>> /\ pc' = pc
    BY <1>2 DEF SkipBlocked, SkipByCondition, FailTemplate, Resolve, endVars
  <2> QED BY <1>0, <2>1, CompensationSame
<1>3. CASE \/ Reject \/ Start \/ StartTask \/ DelayTask \/ StartDelayedTask \/ StopDispatching
           \/ ObserveDone \/ ReceiveResult \/ EndCompensation \/ Return
           \/ SpinTemplate \/ SpinCompensation \/ CancelRun \/ RunTimesOut \/ Terminated \/ UNCHANGED vars
  <2>1. UNCHANGED <<pending, compensations>> /\ (pc' \in Loop => pc \in Loop)
    BY <1>3
    DEF Reject, Start, StartTask, Startable, Dispatching, DelayTask, StartDelayedTask, Launch,
        StopDispatching, ObserveDone, ReceiveResult, EndCompensation, Return, SpinTemplate,
        SpinCompensation, CancelRun,
        RunTimesOut, Terminated, vars, endVars, Loop
  <2> QED BY <1>0, <2>1, CompensationSame
<1> QED BY <1>1, <1>2, <1>3, FinishCompensation, CompensateKeeps DEF Next, MainStep, Dispatch

(* Status and contexts. *)

LEMMA FailFastKept ==
  ASSUME LoopInv, StatusInv, [Next]_vars, failFastTriggered'
  PROVE  failFastTriggered \/ \E t \in Tasks : results'[t] = "FAILED"
<1>0. TypeOK /\ ReadyInv /\ ChannelInv /\ results \in [Tasks -> TaskStatuses \cup {NoResult}]
  BY DEF LoopInv, TypeOK
<1>1. CASE FailTemplate
  <2>1. /\ pc \in Loop /\ ready # <<>>
        /\ results' = [results EXCEPT ![Head(ready)] = "FAILED"]
    BY <1>1 DEF FailTemplate, Resolve, Dispatching, Loop
  <2>2. Head(ready) \in Tasks
    BY <1>0, <2>1, HeadFacts
  <2> QED BY <1>0, <2>1, <2>2
<1>2. CASE ReceiveResult
  <2>1. /\ resultCh # <<>>
        /\ results' = [results EXCEPT ![Head(resultCh)] = outcome[Head(resultCh)]]
        /\ failFastTriggered \/ outcome[Head(resultCh)] = "FAILED"
    BY <1>2, Zenon DEF ReceiveResult
  <2>2. Head(resultCh) \in Tasks
    BY <1>0, <2>1 DEF TypeOK
  <2> QED BY <1>0, <2>1, <2>2
<1>3. CASE \E t \in Tasks : TaskStep(t)
  <2>1. PICK t \in Tasks : TaskMoves(t)
    BY <1>0, <1>3, TaskStepMoves
  <2> QED BY <2>1 DEF TaskMoves, loopVars
<1>4. CASE \/ Reject \/ Start \/ SkipBlocked \/ SkipByCondition
           \/ StartTask \/ DelayTask \/ StartDelayedTask \/ StopDispatching
           \/ ObserveDone \/ Finish \/ EndCompensation \/ Return
           \/ SpinTemplate \/ SpinCompensation
           \/ \E s \in {"SUCCESS", "FAILED"} : Compensate(s)
           \/ CancelRun \/ RunTimesOut \/ Terminated \/ UNCHANGED vars
  <2>1. failFastTriggered' = failFastTriggered
    BY <1>4
    DEF Reject, Start, SkipBlocked, SkipByCondition, StartTask, DelayTask, StartDelayedTask, Launch,
        StopDispatching, ObserveDone, Finish, EndCompensation, Return, SpinTemplate,
        SpinCompensation, Compensate, CancelRun,
        RunTimesOut, Terminated, vars, loopVars
  <2> QED BY <2>1
<1> QED BY <1>1, <1>2, <1>3, <1>4 DEF Next, MainStep, Dispatch

(* Steps that keep status, contexts and place. *)
LEMMA StatusSame ==
  ASSUME LoopInv, StatusInv, [Next]_vars,
         UNCHANGED <<ctxDone, status, stored>>,
         runCtxDone' => runCtxDone \/ failFastTriggered' \/ wf.timeout,
         failFastTriggered => failFastTriggered',
         failFastTriggered' => failFastTriggered \/ status = "RUNNING",
         \/ pc' = pc
         \/ pc \in Working /\ pc' \in Working \cup {"finish"}
         \/ pc = "compensate" /\ pc' = "save"
         \/ pc \in Working \cup {"compensate"} /\ pc' = "spin" /\ status # "SUCCESS"
  PROVE  StatusInv'
<1>1. failFastTriggered' => \E t \in Tasks : results'[t] = "FAILED"
  <2> SUFFICES ASSUME failFastTriggered' PROVE \E t \in Tasks : results'[t] = "FAILED"
    OBVIOUS
  <2>1. CASE failFastTriggered
    <3>1. PICK t \in Tasks : results[t] = "FAILED"
      BY <2>1 DEF StatusInv
    <3> QED BY <3>1, ResultsStand DEF NoResult
  <2> QED BY <2>1, FailFastKept
<1>2. wf' = wf
  BY StepShape
<1>3. status = "SUCCESS" =>
         \A t \in Tasks : exec'[t] \in {"idle", "sent"} /\ outcome'[t] # "FAILED"
  <2> SUFFICES ASSUME status = "SUCCESS"
               PROVE \A t \in Tasks : exec'[t] \in {"idle", "sent"} /\ outcome'[t] # "FAILED"
    OBVIOUS
  <2>1. /\ \A t \in Tasks : exec[t] \in {"idle", "sent"} /\ outcome[t] # "FAILED"
        /\ pc \in {"compensate", "save", "done"}
    BY DEF StatusInv
  <2>2. \A t \in Tasks : ~TaskMoves(t)
    BY <2>1, TaskMoveFacts
  <2>3. pc' \notin Loop
    BY <2>1 DEF Working, Loop
  <2> QED BY <2>1, <2>2, <2>3, StepShape
<1> QED BY <1>1, <1>2, <1>3, Zenon DEF StatusInv, Working

LEMMA StatusOfLoopSteps ==
  ASSUME LoopInv, StatusInv,
         \/ Dispatch \/ ReceiveResult \/ EndCompensation \/ SpinCompensation
         \/ (\E s \in {"SUCCESS", "FAILED"} : Compensate(s)) \/ RunTimesOut
         \/ (\E t \in Tasks : TaskStep(t)) \/ Terminated \/ UNCHANGED vars
  PROVE  StatusInv'
<1>0. [Next]_vars
  BY DEF Next, MainStep
<1>1. CASE \E t \in Tasks : TaskStep(t)
  <2>1. PICK t \in Tasks : TaskMoves(t)
    BY <1>1, TaskStepMoves DEF LoopInv
  <2>2. UNCHANGED <<pc, ctxDone, runCtxDone, failFastTriggered, status, stored>>
    BY <2>1 DEF TaskMoves, loopVars, endVars
  <2> QED BY <1>0, <2>2, StatusSame
<1>2. CASE SkipBlocked \/ SkipByCondition
  <2>1. UNCHANGED <<pc, ctxDone, runCtxDone, failFastTriggered, status, stored>>
    BY <1>2 DEF SkipBlocked, SkipByCondition, Resolve, endVars
  <2> QED BY <1>0, <2>1, StatusSame
<1>3. CASE FailTemplate
  <2>1. /\ UNCHANGED <<pc, ctxDone, status, stored>> /\ pc = "dispatch"
    BY <1>3 DEF FailTemplate, Resolve, Dispatching, endVars
  <2>2. /\ runCtxDone' => runCtxDone \/ failFastTriggered'
        /\ failFastTriggered => failFastTriggered'
    BY <1>3, Zenon DEF FailTemplate
  <2>3. status = "RUNNING"
    BY <2>1 DEF StatusInv, Working
  <2> QED BY <1>0, <2>1, <2>2, <2>3, StatusSame
<1>4. CASE StartTask \/ DelayTask \/ StartDelayedTask \/ StopDispatching
  <2>1. UNCHANGED <<ctxDone, runCtxDone, failFastTriggered, status, stored>>
    BY <1>4 DEF StartTask, DelayTask, StartDelayedTask, Launch, StopDispatching, loopVars, endVars
  <2>2. pc' = pc \/ (pc \in Working /\ pc' \in Working \cup {"finish"})
    BY <1>4 DEF StartTask, DelayTask, StartDelayedTask, Startable, Dispatching, StopDispatching,
                Working
  <2> QED BY <1>0, <2>1, <2>2, StatusSame
<1>5. CASE ReceiveResult
  <2>1. /\ UNCHANGED <<ctxDone, status, stored>> /\ pc = "wait" /\ pc' \in {"dispatch", "finish"}
    BY <1>5 DEF ReceiveResult, endVars
  <2>2. /\ runCtxDone' => runCtxDone \/ failFastTriggered'
        /\ failFastTriggered => failFastTriggered'
    BY <1>5, Zenon DEF ReceiveResult
  <2>3. status = "RUNNING" /\ pc \in Working /\ pc' \in Working \cup {"finish"}
    BY <2>1 DEF StatusInv, Working
  <2> QED BY <1>0, <2>1, <2>2, <2>3, StatusSame
<1>6. CASE EndCompensation \/ \E s \in {"SUCCESS", "FAILED"} : Compensate(s)
  <2>1. /\ UNCHANGED <<ctxDone, runCtxDone, failFastTriggered, status, stored>>
        /\ pc' = pc \/ (pc = "compensate" /\ pc' = "save")
    BY <1>6 DEF EndCompensation, Compensate, loopVars
  <2> QED BY <1>0, <2>1, StatusSame
<1>7. CASE RunTimesOut
  <2>1. UNCHANGED <<pc, ctxDone, failFastTriggered, status, stored>> /\ wf.timeout
    BY <1>7 DEF RunTimesOut, loopVars, endVars
  <2> QED BY <1>0, <2>1, StatusSame
<1>8. CASE Terminated \/ UNCHANGED vars
  <2>1. UNCHANGED <<pc, ctxDone, runCtxDone, failFastTriggered, status, stored>>
    BY <1>8 DEF Terminated, vars, loopVars, endVars
  <2> QED BY <1>0, <2>1, StatusSame
<1>9. CASE SpinTemplate \/ SpinCompensation
  <2>1. /\ UNCHANGED <<ctxDone, runCtxDone, failFastTriggered, status, stored>>
        /\ pc' = "spin" /\ (pc \in Working \/ (pc = "compensate" /\ pending # <<>>))
    BY <1>9 DEF SpinTemplate, SpinCompensation, Dispatching, Working, loopVars, endVars
  <2>2. status # "SUCCESS"
    BY <2>1 DEF StatusInv, Working
  <2> QED BY <1>0, <2>1, <2>2, StatusSame
<1> QED BY <1>1, <1>2, <1>3, <1>4, <1>5, <1>6, <1>7, <1>8, <1>9 DEF Dispatch

LEMMA StatusOfEndSteps ==
  ASSUME LoopInv, StatusInv, NoTaskForgotten,
         Reject \/ Start \/ ObserveDone \/ Finish \/ Return \/ CancelRun
  PROVE  StatusInv'
<1>1. CASE Reject
  <2>1. UNCHANGED <<wf, ctxDone, runCtxDone, loopVars, status, taskVars, endVars>>
        /\ pc = "start" /\ pc' = "done"
    BY <1>1 DEF Reject
  <2> QED BY <2>1, Zenon DEF StatusInv, loopVars, taskVars, endVars, Working
<1>2. CASE Start
  <2>1. /\ UNCHANGED <<wf, ctxDone, runCtxDone, failFastTriggered, results>>
        /\ pc = "start" /\ pc' = "dispatch" /\ status' = "RUNNING"
    BY <1>2 DEF Start
  <2>2. stored' # "SUCCESS"
    BY <1>2 DEF Start, SaveRun, StatusInv
  <2>3. ~failFastTriggered
    BY <2>1 DEF StatusInv
  <2> QED BY <2>1, <2>2, <2>3 DEF StatusInv, Working
<1>3. CASE ObserveDone
  <2>1. /\ UNCHANGED <<wf, ctxDone, runCtxDone, loopVars, endVars>>
        /\ pc = "wait" /\ pc' = "finish" /\ runCtxDone
        /\ status' = IF failFastTriggered THEN "FAILED" ELSE "CANCELLED"
    BY <1>3, Zenon DEF ObserveDone
  <2>2. /\ UNCHANGED <<wf, ctxDone, runCtxDone, failFastTriggered, results, stored>>
    BY <2>1 DEF loopVars, endVars
  <2>3. failFastTriggered \/ ctxDone \/ wf.timeout
    BY <2>1, Zenon DEF StatusInv
  <2>4. stored # "SUCCESS"
    BY <2>1 DEF StatusInv
  <2>5. CASE failFastTriggered
    <3>1. status' = "FAILED"
      BY <2>1, <2>5, Zenon
    <3> QED BY <2>1, <2>2, <2>4, <2>5, <3>1 DEF StatusInv, Working
  <2>6. CASE ~failFastTriggered
    <3>1. status' = "CANCELLED"
      BY <2>1, <2>6, Zenon
    <3> QED BY <2>1, <2>2, <2>3, <2>4, <2>6, <3>1 DEF StatusInv, Working
  <2> QED BY <2>5, <2>6
<1>4. CASE Finish
  <2>0. /\ UNCHANGED <<wf, ctxDone, runCtxDone, failFastTriggered, exec, outcome, stored>>
        /\ pc = "finish" /\ pc' \in {"compensate", "save"}
        /\ results' = Completed(results)
        /\ status' = IF status = "RUNNING" THEN deriveFinalStatus(Completed(results)) ELSE status
        /\ pc' = "compensate" => status' # "SUCCESS"
    BY <1>4 DEF Finish, taskVars
  <2>1. /\ status \in {"RUNNING", "FAILED", "CANCELLED"} /\ stored # "SUCCESS"
        /\ runCtxDone => ctxDone \/ failFastTriggered \/ wf.timeout
    BY <2>0 DEF StatusInv
  <2>2. failFastTriggered => \E t \in Tasks : results'[t] = "FAILED"
    BY <2>0 DEF StatusInv, Completed, NoResult
  <2>3. CASE status = "RUNNING"
    <3>1. \A t \in Tasks : results[t] # NoResult /\ results'[t] = results[t]
      BY <2>0, <2>3 DEF NoTaskForgotten, Completed
    <3>2. status' = IF \E t \in Tasks : results'[t] = "FAILED" THEN "FAILED" ELSE "SUCCESS"
      BY <2>0, <2>3 DEF deriveFinalStatus
    <3>3. (\A t \in Tasks : results'[t] # "FAILED") =>
             \A t \in Tasks : exec'[t] \in {"idle", "sent"} /\ outcome'[t] # "FAILED"
      BY <2>0, <3>1 DEF LoopInv, GoroutineInv, Loop, NoResult
    <3> QED BY <2>0, <2>1, <2>2, <3>2, <3>3 DEF StatusInv, Working
  <2>4. CASE status # "RUNNING"
    <3>1. status' = status /\ status \in {"FAILED", "CANCELLED"}
      BY <2>0, <2>1, <2>4
    <3> QED BY <2>0, <2>1, <2>2, <3>1 DEF StatusInv, Working
  <2> QED BY <2>3, <2>4
<1>5. CASE Return
  <2>0. /\ UNCHANGED <<wf, ctxDone, failFastTriggered, results, status, exec, outcome>>
        /\ pc = "save" /\ pc' = "done"
        /\ stored' = status \/ stored' = stored
    BY <1>5 DEF Return, SaveRun, loopVars, taskVars
  <2> QED BY <2>0 DEF StatusInv, Working
<1>6. CASE CancelRun
  <2>0. /\ UNCHANGED <<wf, pc, failFastTriggered, results, status, exec, outcome, stored>>
        /\ ctxDone' = TRUE
    BY <1>6 DEF CancelRun, loopVars, taskVars, endVars
  <2> QED BY <2>0 DEF StatusInv, Working
<1> QED BY <1>1, <1>2, <1>3, <1>4, <1>5, <1>6

-----------------------------------------------------------------------------
LEMMA EndInit == Init => EndInv
<1> SUFFICES ASSUME Init PROVE EndInv
  OBVIOUS
<1>1. \A t \in Tasks : ~Started(t) /\ outcome[t] = NoResult /\ exec[t] = "idle"
  BY DEF Init, Started
<1>2. StartsAfterUpstream /\ SettledInv
  BY <1>1 DEF StartsAfterUpstream, SettledInv
<1>3. SlotsInv
  <2>1. Running = {}
    BY <1>1 DEF Running
  <2>2. MaxConcurrency \in Nat \ {0}
    BY WorkflowFacts DEF Init
  <2> QED BY <2>1, <2>2, FS_EmptySet DEF SlotsInv
<1>4. StatusInv
  <2>1. /\ pc = "start" /\ status = "NONE" /\ stored = "NONE" /\ ~failFastTriggered
        /\ runCtxDone => ctxDone
    BY Zenon DEF Init
  <2> QED BY <2>1 DEF StatusInv, Working
<1>5. NoTaskForgotten
  BY DEF Init, NoTaskForgotten
<1>6. ClockInv
  BY <1>1 DEF ClockInv
<1>7. CompensationInv
  BY DEF Init, CompensationInv
<1> QED BY <1>2, <1>3, <1>4, <1>5, <1>6, <1>7 DEF EndInv

LEMMA NextKeepsEnd ==
  ASSUME LoopInv, LoopInv', LoopGives', EndInv, [Next]_vars
  PROVE  EndInv'
<1>1. StartsAfterUpstream' /\ SettledInv' /\ SlotsInv'
  BY OrderKept DEF EndInv
<1>2. StatusInv'
  BY StatusOfLoopSteps, StatusOfEndSteps DEF EndInv, Next, MainStep
<1>3. NoTaskForgotten'
  BY NothingForgotten DEF EndInv
<1>4. ClockInv'
  BY ClockKept DEF EndInv
<1>5. CompensationInv'
  BY CompensationKept DEF EndInv
<1> QED BY <1>1, <1>2, <1>3, <1>4, <1>5 DEF EndInv

LEMMA EndInvariant == Spec => []EndInv
<1>1. LoopInv /\ LoopInv' /\ LoopGives' /\ EndInv /\ [Next]_vars => EndInv'
  BY NextKeepsEnd
<1> QED BY LoopInvariant, LoopInvGives, EndInit, <1>1, PTL DEF Spec

-----------------------------------------------------------------------------
(* Theorems *)

(* The variables of runWithID keep their types in every run: no counter of  *)
(* the dispatch loop leaves 0..len(tasks).                                  *)
THEOREM ExecutorTypeCorrect == Spec => []TypeOK
<1>1. LoopInv => TypeOK
  BY DEF LoopInv
<1> QED BY LoopInvariant, <1>1, PTL

(* maxConcurrency holds for every workflow and any interleaving of the      *)
(* goroutines, and active counts exactly the started tasks whose result is  *)
(* not received.                                                            *)
THEOREM ConcurrencyIsBounded == Spec => []ConcurrencyBounded
<1>1. LoopInv /\ EndInv => ConcurrencyBounded
  <2> SUFFICES ASSUME LoopInv, EndInv PROVE ConcurrencyBounded
    OBVIOUS
  <2>1. Cardinality({t \in Tasks : exec[t] \in {"executing", "backoff"}}) <= MaxConcurrency
    BY DEF EndInv, SlotsInv, Running
  <2>2. pc \in {"dispatch", "delay", "wait"} =>
           active = Cardinality({t \in Tasks : Started(t) /\ results[t] = NoResult})
    BY DEF LoopInv, CountsInv, Unreceived, Loop
  <2> QED BY <2>1, <2>2 DEF ConcurrencyBounded
<1> QED BY LoopInvariant, EndInvariant, <1>1, PTL

(* On every graph, a task starts only when everything upstream has a result *)
(* and nothing upstream failed without leave.                               *)
THEOREM TasksStartAfterUpstream == Spec => []StartsAfterUpstream
<1>1. EndInv => StartsAfterUpstream
  BY DEF EndInv
<1> QED BY EndInvariant, <1>1, PTL

(* On every acyclic graph, the loop that ends by itself has resolved every  *)
(* task.                                                                    *)
THEOREM NoTaskIsForgotten == Spec => []NoTaskForgotten
<1>1. EndInv => NoTaskForgotten
  BY DEF EndInv
<1> QED BY EndInvariant, <1>1, PTL

(* The status runWithID returns and saves is explained by what happened:    *)
(* fail-fast means FAILED, CANCELLED needs a cancelled or expired context,  *)
(* SUCCESS leaves no goroutine and no failure behind.                       *)
THEOREM EndStatusExplained == Spec => []EndStatusIsExplained
<1>1. LoopInv /\ EndInv => EndStatusIsExplained
  <2> SUFFICES ASSUME LoopInv, EndInv PROVE EndStatusIsExplained
    OBVIOUS
  <2>1. status \in RunStatuses /\ StatusInv
    BY DEF LoopInv, TypeOK, EndInv
  <2>2. ASSUME pc = "done", failFastTriggered PROVE status = "FAILED"
    BY <2>1, <2>2 DEF StatusInv, RunStatuses
  <2>3. pc = "done" /\ status = "CANCELLED" => ctxDone \/ wf.timeout
    BY <2>1 DEF StatusInv
  <2>4. stored = "SUCCESS" => \A t \in Tasks : exec[t] \in {"idle", "sent"} /\ outcome[t] # "FAILED"
    BY <2>1 DEF StatusInv
  <2> QED BY <2>2, <2>3, <2>4 DEF EndStatusIsExplained
<1> QED BY LoopInvariant, EndInvariant, <1>1, PTL

(* Of two branches on the success and on the failure of one task, at most   *)
(* one ever starts, inside or outside that task's cone.                     *)
THEOREM OnlyOneBranchRuns == Spec => []OneBranchRuns
<1>1. LoopInv => OneBranchRuns
  BY DEF LoopInv, BranchInv, BranchTaken, OneBranchRuns
<1> QED BY LoopInvariant, <1>1, PTL

(* On every graph and with every clock, compensation undoes no task twice,  *)
(* none whose action did not succeed, and every task before what it         *)
(* depended on, save for results that carry the same time, which            *)
(* runCompensation sorts by ID.                                             *)
THEOREM CompensationIsReversed == Spec => []CompensationReversesUpstream
<1>1. LoopInv /\ EndInv => CompensationReversesUpstream
  <2> SUFFICES ASSUME LoopInv, EndInv,
                      NEW i \in DOMAIN compensations, NEW k \in DOMAIN compensations
               PROVE  LET t == compensations[i].task
                          u == compensations[k].task
                      IN  /\ i < k => /\ t # u
                                      /\ t \in Upstream(u) => finishedAt[t] = finishedAt[u] /\ t > u
                          /\ outcome[t] = "SUCCESS"
    BY DEF CompensationReversesUpstream
  <2> DEFINE t == compensations[i].task
             u == compensations[k].task
  <2>0. /\ compensations \in Seq([task : Tasks, status : {"SUCCESS", "FAILED"}])
        /\ finishedAt \in [Tasks -> Nat]
    BY DEF LoopInv, TypeOK
  <2>1. t \in Tasks /\ u \in Tasks
    <3>1. /\ compensations[i] \in [task : Tasks, status : {"SUCCESS", "FAILED"}]
          /\ compensations[k] \in [task : Tasks, status : {"SUCCESS", "FAILED"}]
      BY <2>0, ElementType
    <3> QED BY <3>1
  <2>2. /\ outcome[t] = "SUCCESS" /\ outcome[u] = "SUCCESS"
        /\ i < k => CompensatedBefore(t, u)
    BY DEF EndInv, CompensationInv
  <2> HIDE DEF t, u
  <2>3. t \in Upstream(u) => finishedAt[t] <= finishedAt[u]
    BY <2>1, <2>2 DEF EndInv, ClockInv, NoResult
  <2>4. CompensatedBefore(t, u) =>
          t # u /\ (finishedAt[t] <= finishedAt[u] => finishedAt[t] = finishedAt[u] /\ t > u)
    BY <2>0, <2>1, CompensatedBeforeOrder DEF CompensatedBefore
  <2> QED BY <2>2, <2>3, <2>4 DEF t, u
<1> QED BY LoopInvariant, EndInvariant, <1>1, PTL

-----------------------------------------------------------------------------
(* What resolveValue reads: its own text, and what the tokens it has read   *)
(* insert.                                                                  *)
LEMMA ScannedFacts ==
  ASSUME NEW text \in SUBSET (0..NTasks)
  PROVE  /\ text \subseteq Scanned(text)
         /\ \A v \in Scanned(text) : \A w \in Inserted(v) \cap (0..NTasks) : w \in Scanned(text)
         /\ \A S \in SUBSET (0..NTasks) :
               text \subseteq S /\ (\A v \in S : Inserted(v) \subseteq S) => Scanned(text) \subseteq S
BY DEF Scanned

(* A token read on the way either stands in the text or comes from a token  *)
(* of the text.                                                             *)
LEMMA ScannedFirst ==
  ASSUME \A v : Inserted(v) \in SUBSET (0..NTasks),
         NEW text \in SUBSET (0..NTasks), NEW u \in Scanned(text)
  PROVE  \E w \in text : w = u \/ u \in Scanned(Inserted(w))
<1> DEFINE S == text \cup {x \in 0..NTasks : \E w \in text : x \in Scanned(Inserted(w))}
<1>1. S \in SUBSET (0..NTasks) /\ text \subseteq S
  OBVIOUS
<1>2. ASSUME NEW v \in S, NEW x \in Inserted(v) PROVE x \in S
  <2>0. x \in 0..NTasks
    BY <1>2
  <2>1. CASE v \in text
    <3>1. x \in Scanned(Inserted(v))
      BY <1>2, ScannedFacts
    <3> QED BY <2>0, <2>1, <3>1
  <2>2. CASE v \notin text
    <3>1. PICK w \in text : v \in Scanned(Inserted(w))
      BY <2>2
    <3>2. x \in Scanned(Inserted(w))
      BY <2>0, <1>2, <3>1, ScannedFacts
    <3> QED BY <2>0, <3>1, <3>2
  <2> QED BY <2>1, <2>2
<1>3. Scanned(text) \subseteq S
  <2> HIDE DEF S
  <2> QED BY <1>1, <1>2, ScannedFacts
<1>4. u \in S
  BY <1>3
<1> QED BY <1>4

(* What a result inserts. *)
LEMMA InsertedFacts ==
  ASSUME TypeOK
  PROVE  /\ \A v : Inserted(v) \in SUBSET (0..NTasks)
         /\ \A v : Inserted(v) # {} => v \in Tasks
         /\ \A v \in Tasks : Inserted(v) \subseteq Refers[v]
<1>1. /\ wf.echoes \in [{"SUCCESS", "FAILED", "SKIPPED"} -> [Tasks -> SUBSET (0..NTasks)]]
      /\ results \in [Tasks -> TaskStatuses \cup {NoResult}]
  BY WorkflowAssumption DEF TypeOK, Workflow
<1> QED BY <1>1 DEF Inserted, Refers, TaskStatuses

(* An endless search needs results whose texts refer to each other in a     *)
(* ring: the tokens that lead to u and that u leads to are one.             *)
LEMMA CircularNeedsRing ==
  ASSUME TypeOK, NEW text, Circular(text)
  PROVE  ~Acyclic(Refers)
<1>1. /\ \A v : Inserted(v) \in SUBSET (0..NTasks)
      /\ \A v : Inserted(v) # {} => v \in Tasks
      /\ \A v \in Tasks : Inserted(v) \subseteq Refers[v]
  BY InsertedFacts
<1>2. PICK u \in 0..NTasks : u \in Scanned(Inserted(u))
  BY DEF Circular, Scanned
<1> DEFINE S == {v \in Tasks : v \in Scanned(Inserted(u)) /\ u \in Scanned(Inserted(v))}
<1>3. ASSUME NEW v, u \in Scanned(Inserted(v)) PROVE v \in Tasks
  <2>1. Inserted(v) \in SUBSET (0..NTasks)
    BY <1>1
  <2>2. \E w \in Inserted(v) : w = u \/ u \in Scanned(Inserted(w))
    BY <1>1, <1>3, <2>1, ScannedFirst
  <2> QED BY <1>1, <2>2
<1>4. u \in S
  BY <1>2, <1>3
<1>5. ASSUME NEW v \in S PROVE Refers[v] \cap S # {}
  <2>1. PICK w \in Inserted(v) : w = u \/ u \in Scanned(Inserted(w))
    BY <1>1, <1>5, ScannedFirst
  <2>2. u \in Scanned(Inserted(w))
    BY <1>2, <2>1
  <2>3. w \in Tasks /\ w \in 0..NTasks
    BY <1>1, <1>3, <2>2
  <2>4. w \in Scanned(Inserted(u))
    BY <1>1, <1>5, <2>1, <2>3, ScannedFacts
  <2>5. w \in S /\ w \in Refers[v]
    BY <1>1, <1>5, <2>1, <2>2, <2>3, <2>4
  <2> QED BY <2>5
<1>6. S \in (SUBSET Tasks) \ {{}}
  BY <1>4
<1> HIDE DEF S
<1> QED BY <1>5, <1>6 DEF Acyclic

(* runWithID is lost in a template only when the texts of some results      *)
(* refer to each other in a ring.                                           *)
SpinsOnlyOnRing == pc = "spin" => ~Acyclic(Refers)

(* The safety half of RunReturns, for every workflow: without such a ring   *)
(* resolveValue ends every time, in the dispatch loop and in compensation.  *)
THEOREM TemplatesEnd == Spec => []SpinsOnlyOnRing
<1>1. Init => SpinsOnlyOnRing
  BY DEF Init, SpinsOnlyOnRing
<1>2. LoopInv /\ SpinsOnlyOnRing /\ [Next]_vars => SpinsOnlyOnRing'
  <2> SUFFICES ASSUME LoopInv, SpinsOnlyOnRing, [Next]_vars, pc' = "spin"
               PROVE  ~Acyclic(Refers)'
    BY DEF SpinsOnlyOnRing
  <2>0. wf' = wf
    BY StepShape
  <2>1. Acyclic(Refers)' <=> Acyclic(Refers)
    BY <2>0 DEF Refers, Acyclic
  <2>2. CASE SpinTemplate \/ SpinCompensation
    BY <2>1, <2>2, CircularNeedsRing DEF SpinTemplate, SpinCompensation, LoopInv
  <2>3. CASE pc = "spin"
    BY <2>1, <2>3 DEF SpinsOnlyOnRing
  <2>4. CASE \E t \in Tasks : TaskStep(t)
    <3>1. PICK t \in Tasks : TaskMoves(t)
      BY <2>4, TaskStepMoves DEF LoopInv
    <3> QED BY <2>3, <3>1 DEF TaskMoves
  <2>5. CASE SkipBlocked \/ SkipByCondition \/ FailTemplate
    BY <2>3, <2>5 DEF SkipBlocked, SkipByCondition, FailTemplate, Resolve
  <2>6. CASE \/ Reject \/ Start \/ StartTask \/ DelayTask \/ StartDelayedTask \/ StopDispatching
             \/ ObserveDone \/ ReceiveResult \/ Finish \/ EndCompensation \/ Return
             \/ (\E s \in {"SUCCESS", "FAILED"} : Compensate(s))
             \/ CancelRun \/ RunTimesOut \/ Terminated \/ UNCHANGED vars
    BY <2>3, <2>6
    DEF Reject, Start, StartTask, DelayTask, StartDelayedTask, StopDispatching, ObserveDone,
        ReceiveResult, Finish, EndCompensation, Return, Compensate, CancelRun, RunTimesOut,
        Terminated, vars
  <2> QED BY <2>2, <2>4, <2>5, <2>6 DEF Next, MainStep, Dispatch
<1> QED BY LoopInvariant, <1>1, <1>2, PTL DEF Spec

=============================================================================
