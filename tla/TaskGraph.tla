----------------------------- MODULE TaskGraph ------------------------------
(***************************************************************************)
(* The dependency graph of a workflow: TaskNode.DependsOn as a function    *)
(* from tasks to the set of tasks they wait for.                           *)
(***************************************************************************)
EXTENDS Integers, FiniteSets

CONSTANT NTasks     \* len(workflow.Tasks)

ASSUME NTasksAssumption == NTasks \in Nat \ {0}

(* A task is its rank in the order of task IDs. *)
Tasks == 1..NTasks

(* The reverse edges: dependents in the executor, adj in hasCycle. *)
DependentsIn(deps, t) == {c \in Tasks : t \in deps[c]}

(* Every set of tasks has one that waits for none of the set. *)
Acyclic(deps) == \A S \in (SUBSET Tasks) \ {{}} : \E t \in S : deps[t] \cap S = {}

(* The tasks t waits for, directly or through others. *)
UpstreamIn(deps, t) ==
    LET Closed(S) == deps[t] \subseteq S /\ \A u \in S : deps[u] \subseteq S
    IN  {u \in Tasks : \A S \in SUBSET Tasks : Closed(S) => u \in S}

=============================================================================
