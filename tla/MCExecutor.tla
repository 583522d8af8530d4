----------------------------- MODULE MCExecutor -----------------------------
(***************************************************************************)
(* Instances of Executor for TLC: the workflows of each run.               *)
(***************************************************************************)
EXTENDS Executor

Always == [kind |-> "always", on |-> 1]

(* Nothing special about any task, no dependencies, one slot. *)
Plain == [order |-> [i \in Tasks |-> i],
          deps |-> [t \in Tasks |-> {}],
          condition |-> [t \in Tasks |-> Always],
          templates |-> [t \in Tasks |-> {}],
          undo |-> [t \in Tasks |-> {}],
          echoes |-> [s \in TaskStatuses |-> [t \in Tasks |-> {}]],
          attempts |-> [t \in Tasks |-> 1],
          registered |-> Tasks,
          timed |-> {},
          delayed |-> {},
          allowFailure |-> {},
          compensable |-> {},
          maxConcurrency |-> 1,
          failFast |-> FALSE,
          compensateOnFailure |-> FALSE,
          timeout |-> FALSE]

(* Four tasks. *)
Diamond == <<{}, {1}, {1}, {2, 3}>>
Chains == <<{}, {}, {1}, {2}>>
Reversed == <<{2}, {3}, {}, {}>>    \* a task's ID says nothing about its place
Ring == <<{2}, {1}, {}, {}>>        \* rejected

Dag(d, c, f, a) == [Plain EXCEPT !.deps = d, !.maxConcurrency = c, !.failFast = f,
                                 !.allowFailure = a, !.compensateOnFailure = TRUE,
                                 !.compensable = {1, 2, 4}]

DagWorkflows ==
    {Dag(Diamond, c, f, a) : c \in {0, 2}, f \in BOOLEAN, a \in {{}, {2}}}
        \cup {Dag(d, c, f, {}) : d \in {Chains, Reversed, Ring}, c \in {0, 2}, f \in BOOLEAN}

(* The branches of a condition, inside and outside its cone, and a join. *)
Branches(up) == [Plain EXCEPT !.deps = <<{}, up, up, {2, 3}>>,
                              !.condition = <<Always, [kind |-> "on_success", on |-> 1],
                                              [kind |-> "on_failed", on |-> 1], Always>>,
                              !.maxConcurrency = 2,
                              !.allowFailure = {1}]

(* Task 2 wants something in the output of 1; 3 and 4 follow. *)
Output(kind) == [Plain EXCEPT !.deps = <<{}, {1}, {2}, {3}>>,
                              !.condition = <<Always, [kind |-> kind, on |-> 1], Always, Always>>,
                              !.allowFailure = {1}]

(* Task 2 uses the result of 1 without waiting for it; 3 and 4 follow. *)
Template(f, a) == [Plain EXCEPT !.deps = <<{}, {}, {2}, {3}>>,
                                !.templates = <<{}, {1}, {2}, {}>>,
                                !.maxConcurrency = 2,
                                !.failFast = f,
                                !.allowFailure = a,
                                !.compensable = {1},
                                !.compensateOnFailure = TRUE]

(* Task 3 uses the result of 1, whose output or error holds the tokens e,   *)
(* and so does the compensation of 1; 2 may succeed before that or not.     *)
Echo(s, e) == [Plain EXCEPT !.deps = <<{}, {}, {1}, {3}>>,
                            !.templates = <<{}, {}, {1}, {}>>,
                            !.undo = <<{1}, {}, {}, {}>>,
                            !.echoes[s][1] = e,
                            !.maxConcurrency = 2,
                            !.allowFailure = {1},
                            !.compensable = {1},
                            !.compensateOnFailure = TRUE]

(* Retries, task and run timeouts, a delayed task, an unknown action. *)
Retrying == [Plain EXCEPT !.deps = <<{}, {1}, {}, {2, 3}>>,
                          !.attempts = <<2, 0, 3, 1>>,
                          !.registered = {1, 3, 4},
                          !.timed = {1},
                          !.delayed = {2, 3},
                          !.maxConcurrency = 3,
                          !.compensable = {1, 3},
                          !.compensateOnFailure = TRUE,
                          !.timeout = TRUE]

RoutingWorkflows ==
    {Branches({}), Branches({1}), Retrying, Output("output_contains"),
     Output("output_contains_nothing")}
        \cup {Template(f, a) : f \in BOOLEAN, a \in {{}, {2}}}
        \cup {Echo("SUCCESS", e) : e \in {{0}, {2}, {1}, {0, 1}}}
        \cup {Echo("FAILED", {1})}

AllWorkflows == DagWorkflows \cup RoutingWorkflows

(* Two independent tasks and fail-fast. *)
FailFastWorkflows ==
    {[Plain EXCEPT !.failFast = TRUE, !.compensateOnFailure = TRUE, !.compensable = Tasks,
                   !.maxConcurrency = c] : c \in {1, 2}}

=============================================================================
