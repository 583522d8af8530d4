---------------------------- MODULE MCScheduler ----------------------------
(***************************************************************************)
(* Instances of Scheduler for TLC: the schedules each process is offered.  *)
(***************************************************************************)
EXTENDS Scheduler, TLC

CONSTANTS n1, n2, w1

Every(w) == [workflow |-> w, trigger |-> "interval", runOnStartup |-> FALSE, allowOverlap |-> FALSE]
CronNow(w) == [Every(w) EXCEPT !.trigger = "cron", !.runOnStartup = TRUE]
BadCron(w) == [Every(w) EXCEPT !.trigger = "badcron"]

(* n1 takes calls; n2 is in schedule mode with a schedule that n1 finds in  *)
(* the file.                                                                *)
TwoProcesses == n1 :> {Every(w1), CronNow(w1)} @@ n2 :> {BadCron(w1)}

OneInterval == [n \in Nodes |-> {Every(w1)}]

=============================================================================
