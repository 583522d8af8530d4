---------------------------- MODULE JobLifecycle ----------------------------
(***************************************************************************)
(* What a run queue promises about one job, whatever store keeps it: the   *)
(* statuses of domain.RunJobStatus and the edges between them.  A job that *)
(* SUCCEEDED or was CANCELLED never moves again, a job is only settled     *)
(* from LEASED, only FAILED and DEAD_LETTER jobs are replayed, and the     *)
(* only way out of the table is a purge.  RunQueue is shown to implement   *)
(* this specification.                                                     *)
(***************************************************************************)

CONSTANT Jobs       \* identifiers of run jobs

VARIABLE status     \* status of every job

(* The zero value of domain.RunJobStatus; here also "not in the table".    *)
NoStatus == "NONE"

JobStatuses == {"QUEUED", "LEASED", "SUCCEEDED", "FAILED", "DEAD_LETTER", "CANCELLED"}

LTypeOK == status \in [Jobs -> JobStatuses \cup {NoStatus}]

LInit == status = [j \in Jobs |-> NoStatus]

Move(j, from, to) ==
    /\ status[j] \in from
    /\ status' = [status EXCEPT ![j] = to]

Submit(j) == Move(j, {NoStatus}, "QUEUED")
Take(j) == Move(j, {"QUEUED"}, "LEASED")
Settle(j) == \E to \in {"SUCCEEDED", "FAILED", "DEAD_LETTER", "QUEUED"} : Move(j, {"LEASED"}, to)
Cancel(j) == Move(j, {"QUEUED", "LEASED", "FAILED", "DEAD_LETTER"}, "CANCELLED")
Replay(j) == Move(j, {"FAILED", "DEAD_LETTER"}, "QUEUED")

Purge(D) == status' = [j \in Jobs |-> IF j \in D THEN NoStatus ELSE status[j]]

LNext ==
    \/ \E j \in Jobs : Submit(j) \/ Take(j) \/ Settle(j) \/ Cancel(j) \/ Replay(j)
    \/ \E D \in SUBSET Jobs : Purge(D)

LSpec == LInit /\ [][LNext]_status

=============================================================================
