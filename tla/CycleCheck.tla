----------------------------- MODULE CycleCheck -----------------------------
(***************************************************************************)
(* hasCycle of internal/engine/graph.go, the last test of                  *)
(* ValidateWorkflow: a depth-first search over the dependents with three   *)
(* colours.  The recursion of dfs is an explicit stack of calls; a call is *)
(* its node and the dependents it has not looked at.  The order of the     *)
(* outer loop is that of a map, the order of adj[n] that of the task list, *)
(* which is any: both are choices here.                                    *)
(***************************************************************************)
EXTENDS TaskGraph, Sequences

VARIABLES
    deps,       \* DependsOn of every task, already known to name tasks only
    colour,     \* the map state of hasCycle
    stack,      \* the calls of dfs, innermost last
    verdict     \* what hasCycle returned

cycleVars == <<deps, colour, stack, verdict>>

adj(n) == DependentsIn(deps, n)

CycleInit ==
    /\ deps \in [Tasks -> SUBSET Tasks]
    /\ colour = [t \in Tasks |-> "unvisited"]
    /\ stack = <<>>
    /\ verdict = "none"

Frame == [node : Tasks, rest : SUBSET Tasks]
Call(n) == [node |-> n, rest |-> adj(n)]
Top == stack[Len(stack)]
Caller == SubSeq(stack, 1, Len(stack) - 1)
Looked(n) == [node |-> Top.node, rest |-> Top.rest \ {n}]

(* The outer loop calls dfs on an unvisited node. *)
Enter(n) ==
    /\ verdict = "none"
    /\ stack = <<>>
    /\ colour[n] = "unvisited"
    /\ colour' = [colour EXCEPT ![n] = "visiting"]
    /\ stack' = <<Call(n)>>
    /\ UNCHANGED <<deps, verdict>>

(* Mutant: any node seen before closes a cycle. *)
Descend_AnyColour(n) ==
    /\ verdict = "none"
    /\ stack # <<>>
    /\ n \in Top.rest
    /\ LET looked == Append(Caller, Looked(n))
       IN  \/ /\ colour[n] # "unvisited"
              /\ verdict' = "cyclic"
              /\ UNCHANGED <<colour, stack>>
           \/ /\ colour[n] = "unvisited"
              /\ colour' = [colour EXCEPT ![n] = "visiting"]
              /\ stack' = Append(looked, Call(n))
              /\ UNCHANGED verdict
    /\ UNCHANGED deps

(* dfs(n) for a dependent n: true at once if n is being visited, and every  *)
(* caller returns true with it; false at once if n was visited.             *)
Descend(n) ==
    /\ verdict = "none"
    /\ stack # <<>>
    /\ n \in Top.rest
    /\ LET looked == Append(Caller, Looked(n))
       IN  \/ /\ colour[n] = "visiting"
              /\ verdict' = "cyclic"
              /\ UNCHANGED <<colour, stack>>
           \/ /\ colour[n] = "visited"
              /\ stack' = looked
              /\ UNCHANGED <<colour, verdict>>
           \/ /\ colour[n] = "unvisited"
              /\ colour' = [colour EXCEPT ![n] = "visiting"]
              /\ stack' = Append(looked, Call(n))
              /\ UNCHANGED verdict
    /\ UNCHANGED deps

(* Mutant: a node that is left goes back to unvisited. *)
Leave_Forgets ==
    /\ verdict = "none"
    /\ stack # <<>>
    /\ Top.rest = {}
    /\ colour' = [colour EXCEPT ![Top.node] = "unvisited"]
    /\ stack' = Caller
    /\ UNCHANGED <<deps, verdict>>

(* dfs returns false. *)
Leave ==
    /\ verdict = "none"
    /\ stack # <<>>
    /\ Top.rest = {}
    /\ colour' = [colour EXCEPT ![Top.node] = "visited"]
    /\ stack' = Caller
    /\ UNCHANGED <<deps, verdict>>

(* The outer loop is over. *)
Accept ==
    /\ verdict = "none"
    /\ stack = <<>>
    /\ \A n \in Tasks : colour[n] # "unvisited"
    /\ verdict' = "acyclic"
    /\ UNCHANGED <<deps, colour, stack>>

CycleNext ==
    \/ \E n \in Tasks : Enter(n) \/ Descend(n)
    \/ Leave
    \/ Accept

CycleSpec == CycleInit /\ [][CycleNext]_cycleVars /\ WF_cycleVars(CycleNext)

-----------------------------------------------------------------------------
(* Properties *)

(* Every variable has its type. *)
CycleTypeOK ==
    /\ deps \in [Tasks -> SUBSET Tasks]
    /\ colour \in [Tasks -> {"unvisited", "visiting", "visited"}]
    /\ stack \in Seq(Frame)
    /\ verdict \in {"none", "cyclic", "acyclic"}

(* The nodes being visited are exactly the calls on the stack, each a       *)
(* dependent of its caller, and a visited node has visited dependents only: *)
(* the invariant the three colours keep.                                    *)
ColoursMatchStack ==
    /\ {n \in Tasks : colour[n] = "visiting"} = {stack[i].node : i \in DOMAIN stack}
    /\ \A i, k \in DOMAIN stack : stack[i].node = stack[k].node => i = k
    /\ \A i \in DOMAIN stack : i > 1 => stack[i].node \in adj(stack[i - 1].node)
    /\ \A n \in Tasks : colour[n] = "visited" => \A c \in adj(n) : colour[c] = "visited"

(* What a call has looked at is visited, but for the call it is waiting for. *)
CallsProgress ==
    \A i \in DOMAIN stack :
        \A c \in adj(stack[i].node) \ stack[i].rest :
            \/ colour[c] = "visited"
            \/ i < Len(stack) /\ c = stack[i + 1].node

(* A call looks at dependents of its node only. *)
CallsWithin == \A i \in DOMAIN stack : stack[i].rest \subseteq adj(stack[i].node)

(* Among visited tasks there is no cycle. *)
VisitedAcyclic ==
    \A S \in SUBSET Tasks :
        S # {} /\ (\A t \in S : colour[t] = "visited") => \E t \in S : deps[t] \cap S = {}

(* hasCycle says yes on a cyclic graph and no on an acyclic one, where      *)
(* acyclic means that every set of tasks has one that can go first.         *)
VerdictCorrect ==
    /\ verdict = "cyclic" => ~Acyclic(deps)
    /\ verdict = "acyclic" => Acyclic(deps)

(* The search ends, on cyclic graphs as well. *)
VerdictReached == <>(verdict # "none")

=============================================================================
