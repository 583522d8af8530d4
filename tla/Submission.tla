------------------------------ MODULE Submission ------------------------------
(***************************************************************************)
(* POST /runs with an idempotency key, and PATCH and PUT of a workflow, in *)
(* internal/api/server.go over RunStore: clients that send a request again *)
(* because they did not hear the answer, handlers that look first and act  *)
(* later, processes that are killed and started again.                     *)
(*                                                                         *)
(* A synchronous request runs the workflow in its handler; an asynchronous *)
(* one leaves a job in the run queue.  Over sqlite a worker process        *)
(* executes the jobs: it is reduced here to its lease, the lookup of the   *)
(* workflow, its two saves and its settlement.  Time and leases that run   *)
(* out under a live worker are in WorkerPool.  With the file backend every *)
(* process has a queue of its own in memory, serve mode starts no worker,  *)
(* and nobody executes what is in it.                                      *)
(*                                                                         *)
(* incidents remembers what has happened that the handlers do not guard    *)
(* against.  The properties say what clients may rely on otherwise.        *)
(***************************************************************************)
EXTENDS RunStore

CONSTANTS
    Shared,         \* the queue in the database
    Kinds,          \* the requests clients send
    MaxAttempts,    \* leases of a job before it is dead-lettered
    MaxPosts,       \* bound: requests
    MaxFaults       \* bound: kills, failed writes, failed statements, hang-ups

VARIABLES
    req,            \* the request each handler works on
    queue,          \* status of the job of every key, in every queue
    attempts,       \* leases of the job of every key in the shared queue
    worker,         \* the worker of the shared queue
    posts, faults,  \* requests and faults so far
    begun,          \* executions begun by handlers, for every key
    told,           \* the status a client was told with 201, for every key
    patched,        \* edits acknowledged and not replaced since
    incidents       \* of Incidents

ASSUME SubAssumption ==
    /\ Keys # {} /\ MaxAttempts \in Nat /\ MaxPosts \in Nat /\ MaxFaults \in Nat
    /\ Kinds \subseteq {"sync", "async", "patch", "put"}
    /\ Shared \notin Procs

apiVars == <<req, queue, attempts, worker, posts, faults, begun, told, patched, incidents>>
subVars == <<storeVars, apiVars>>

(* overlap: a key was to be executed while another execution of it was      *)
(* under way or queued.  strangers: two processes over one data directory.  *)
(* misread: GetRun failed, and the handler took that for no run.  unsaved:  *)
(* a run began although its first save had failed.  racing: a workflow was  *)
(* read for a patch while another change of it was under way.               *)
Incidents == {"overlap", "strangers", "misread", "unsaved", "racing"}

JobStatuses == {"none", "QUEUED", "LEASED", "SUCCEEDED", "FAILED", "CANCELLED", "DEAD_LETTER"}
Steps == {"idle", "lookup", "lookupJob", "enqueue", "saveRunning", "executing", "saveFinal",
          "readWorkflow", "saveWorkflow"}

Request == [pc : Steps, kind : Kinds \cup {"none"}, proc : Procs \cup {Shared}, key : Keys,
            edits : SUBSET Fields, status : RunStatuses, gone : BOOLEAN]

AnyKey == CHOOSE k \in Keys : TRUE
NoRequest == [pc |-> "idle", kind |-> "none", proc |-> Shared, key |-> AnyKey, edits |-> {},
              status |-> "none", gone |-> FALSE]
NoWork == [pc |-> "poll", key |-> AnyKey, ended |-> "none"]

SubInit ==
    /\ StoreInit
    /\ req = [c \in Clients |-> NoRequest]
    /\ queue = [q \in Procs \cup {Shared} |-> [k \in Keys |-> "none"]]
    /\ attempts = [k \in Keys |-> 0]
    /\ worker = NoWork
    /\ posts = 0 /\ faults = 0
    /\ begun = [k \in Keys |-> 0]
    /\ told = [k \in Keys |-> "none"]
    /\ patched = {}
    /\ incidents = {}

QueueOf(p) == IF backend = "file" THEN p ELSE Shared
Goes(c, step) == req' = [req EXCEPT ![c].pc = step]
Answers(c) == req' = [req EXCEPT ![c] = NoRequest]
Happens(what, condition) == incidents' = IF condition THEN incidents \cup {what} ELSE incidents
Fault == faults < MaxFaults /\ faults' = faults + 1

(* Another handler is about to execute k or executing it, or a job is or    *)
(* will be there for it, or the worker is still on a job that was cancelled: *)
(* a synchronous request never looks into the queue.                        *)
Elsewhere(c, steps) == \E d \in Clients \ {c} : req[d].key = req[c].key /\ req[d].pc \in steps
Owed(k) == \/ \E q \in Procs \cup {Shared} : queue[q][k] \in {"QUEUED", "LEASED"}
           \/ worker.pc # "poll" /\ worker.key = k
Contended(c) ==
    \/ Elsewhere(c, {"saveRunning", "executing", "saveFinal"})
    \/ req[c].kind = "sync" /\ (Owed(req[c].key) \/ Elsewhere(c, {"lookupJob", "enqueue"}))

(* The statements of a handler whose client has gone away fail: database/sql *)
(* refuses the request's context.  FileStore does not look at it.            *)
Refused(c) == backend = "sqlite" /\ req[c].gone

-----------------------------------------------------------------------------
(* A client sends a request to a process that serves.  Requests for runs    *)
(* start with GetRun, a patch with GetWorkflow, a put with SaveWorkflow.    *)
Post(c, p, kind, k, f) ==
    /\ posts < MaxPosts
    /\ req[c].pc = "idle" /\ up[p] = "up"
    /\ posts' = posts + 1
    /\ req' = [req EXCEPT ![c] = [NoRequest EXCEPT
                 !.kind = kind, !.proc = p, !.key = k,
                 !.edits = IF kind = "patch" THEN {f} ELSE {},
                 !.pc = CASE kind \in {"sync", "async"} -> "lookup"
                          [] kind = "patch" -> "readWorkflow"
                          [] OTHER -> "saveWorkflow"]]
    /\ UNCHANGED <<storeVars, queue, attempts, worker, faults, begun, told, patched, incidents>>

(* The client goes away, and the request's context ends.  With the file     *)
(* backend all it can do is to end the run, as a timeout does.              *)
HangUp(c) ==
    /\ backend = "sqlite"
    /\ req[c].pc # "idle" /\ ~req[c].gone
    /\ Fault
    /\ req' = [req EXCEPT ![c].gone = TRUE]
    /\ UNCHANGED <<storeVars, queue, attempts, worker, posts, begun, told, patched, incidents>>

(* GetRun found nothing, or failed: only err == nil counts as found. *)
Proceeds(c) ==
    Goes(c, IF req[c].kind = "sync" THEN "saveRunning" ELSE "lookupJob")

LookupRun(c) ==
    LET r == req[c]
        found == StoreOf(r.proc).runs[r.key] # "none" IN
    /\ r.pc = "lookup" /\ ~Refused(c)
    /\ IF found
       THEN Answers(c) /\ UNCHANGED incidents
       ELSE Proceeds(c) /\ Happens("overlap", Contended(c))
    /\ UNCHANGED <<storeVars, queue, attempts, worker, posts, faults, begun, told, patched>>

(* GetRun of the sqlite store fails: the context is done, SQLITE_BUSY. *)
LookupFails(c) ==
    /\ req[c].pc = "lookup" /\ backend = "sqlite"
    /\ IF Refused(c) THEN UNCHANGED faults ELSE Fault
    /\ Proceeds(c)
    /\ Happens("misread", TRUE)
    /\ UNCHANGED <<storeVars, queue, attempts, worker, posts, begun, told, patched>>

(* GetRunJobByRequest; here too only err == nil counts as found. *)
LookupJob(c) ==
    LET r == req[c] IN
    /\ r.pc = "lookupJob"
    /\ IF ~Refused(c) /\ queue[QueueOf(r.proc)][r.key] # "none"
       THEN Answers(c)
       ELSE Goes(c, "enqueue")
    /\ UNCHANGED <<storeVars, queue, attempts, worker, posts, faults, begun, told, patched, incidents>>

(* EnqueueRunJob: no change when the job has come up since; 202 either way. *)
(* On an error the answer is 500.                                           *)
Enqueue(c) ==
    LET r == req[c]
        q == QueueOf(r.proc) IN
    /\ r.pc = "enqueue"
    /\ queue' = [queue EXCEPT ![q][r.key] = IF @ = "none" /\ ~Refused(c) THEN "QUEUED" ELSE @]
    /\ Answers(c)
    /\ UNCHANGED <<storeVars, attempts, worker, posts, faults, begun, told, patched, incidents>>

-----------------------------------------------------------------------------
(* Saves of a handler: the run as RUNNING, the run at its end, a workflow.  *)

Saved(c) ==
    LET r == req[c]
        s == StoreOf(r.proc) IN
    CASE r.pc = "saveRunning" -> [s EXCEPT !.runs[r.key] = "RUNNING"]
      [] r.pc = "saveFinal" -> [s EXCEPT !.runs[r.key] = r.status]
      [] OTHER -> [s EXCEPT !.workflow = r.edits]

(* What follows a save: RunWithID ignores the error of its first one and    *)
(* returns that of its last one, which becomes a 500.  The answer to a      *)
(* patch holds the whole workflow.                                          *)
Resumes(c, ok) ==
    LET r == req[c] IN
    /\ IF r.pc = "saveRunning" THEN Goes(c, "executing") ELSE Answers(c)
    /\ begun' = [begun EXCEPT ![r.key] = IF r.pc = "saveRunning" THEN @ + 1 ELSE @]
    /\ told' = [told EXCEPT ![r.key] = IF ok /\ r.pc = "saveFinal" THEN r.status ELSE @]
    /\ patched' = IF ok /\ r.pc = "saveWorkflow" THEN patched \cup r.edits ELSE patched
    /\ Happens("unsaved", ~ok /\ r.pc = "saveRunning")
    /\ UNCHANGED <<queue, attempts, worker, posts>>

SaveSteps == {"saveRunning", "saveFinal", "saveWorkflow"}

(* Mutant: the handler does not wait for the file. *)
FileSave_Early(c) ==
    /\ backend = "file" /\ req[c].pc \in SaveSteps
    /\ Saves(req[c].proc, "main", Saved(c))
    /\ Resumes(c, TRUE)
    /\ UNCHANGED <<backend, up, faults>>

(* FileStore: the handler holds the mutex and waits for its flush.  A put   *)
(* replaces the edits before it.                                            *)
FileSave(c) ==
    /\ backend = "file" /\ req[c].pc \in SaveSteps
    /\ Saves(req[c].proc, c, Saved(c))
    /\ patched' = IF req[c].kind = "put" THEN {} ELSE patched
    /\ UNCHANGED <<backend, up, req, queue, attempts, worker, posts, faults, begun, told, incidents>>

FileSaved(p) ==
    \E c \in Clients : /\ saving[p].by = c
                       /\ Written(p)
                       /\ Resumes(c, TRUE)
                       /\ UNCHANGED <<backend, up, faults>>

(* A failed write; main gives up on it, a handler goes on. *)
FileSaveFails(p) ==
    /\ Fault
    /\ WriteFails(p)
    /\ \/ /\ saving[p].by = "main"
          /\ up' = [up EXCEPT ![p] = "down"]
          /\ UNCHANGED <<backend, req, queue, attempts, worker, posts, begun, told, patched, incidents>>
       \/ \E c \in Clients : saving[p].by = c /\ Resumes(c, FALSE) /\ UNCHANGED <<backend, up>>

(* SQLiteStore: one statement. *)
SqlSave(c) ==
    /\ backend = "sqlite" /\ req[c].pc \in SaveSteps /\ ~Refused(c)
    /\ Saves(req[c].proc, c, Saved(c))
    /\ IF req[c].kind = "put"
       THEN /\ Answers(c) /\ patched' = {}
            /\ UNCHANGED <<queue, attempts, worker, posts, begun, told, incidents>>
       ELSE Resumes(c, TRUE)
    /\ UNCHANGED <<backend, up, faults>>

SqlSaveFails(c) ==
    /\ backend = "sqlite" /\ req[c].pc \in SaveSteps
    /\ IF Refused(c) THEN UNCHANGED faults ELSE Fault
    /\ Resumes(c, FALSE)
    /\ UNCHANGED storeVars

(* The run ends, CANCELLED by its timeout or by a client that has gone. *)
EndRun(c, status) ==
    /\ req[c].pc = "executing"
    /\ req' = [req EXCEPT ![c].pc = "saveFinal", ![c].status = status]
    /\ UNCHANGED <<storeVars, queue, attempts, worker, posts, faults, begun, told, patched, incidents>>

(* Mutant: the patch is not applied to the workflow that was read. *)
ReadWorkflow_Replaces(c) ==
    /\ req[c].pc = "readWorkflow"
    /\ req' = [req EXCEPT ![c].pc = "saveWorkflow"]
    /\ Happens("racing", \E d \in Clients \ {c} : req[d].pc = "saveWorkflow")
    /\ UNCHANGED <<storeVars, queue, attempts, worker, posts, faults, begun, told, patched>>

(* PATCH: GetWorkflow, whose error is a 404, and decodeWorkflowPatchRequest. *)
ReadWorkflow(c) ==
    /\ req[c].pc = "readWorkflow"
    /\ IF Refused(c)
       THEN Answers(c) /\ UNCHANGED incidents
       ELSE /\ req' = [req EXCEPT ![c].pc = "saveWorkflow",
                                  ![c].edits = @ \cup StoreOf(req[c].proc).workflow]
            /\ Happens("racing", \E d \in Clients \ {c} : req[d].pc = "saveWorkflow")
    /\ UNCHANGED <<storeVars, queue, attempts, worker, posts, faults, begun, told, patched>>

-----------------------------------------------------------------------------
(* The worker over sqlite. *)

(* Mutant: a job whose run is in the store is passed over. *)
WorkerLeases_NewRunsOnly(k) ==
    /\ backend = "sqlite" /\ worker.pc = "poll"
    /\ queue[Shared][k] \in {"QUEUED", "LEASED"} /\ disk.runs[k] = "none"
    /\ queue' = [queue EXCEPT ![Shared][k] = "LEASED"]
    /\ attempts' = [attempts EXCEPT ![k] = @ + 1]
    /\ worker' = [NoWork EXCEPT !.pc = "leased", !.key = k]
    /\ UNCHANGED <<storeVars, req, posts, faults, begun, told, patched, incidents>>

(* LeaseNextRunJob.  A job that is LEASED while the worker polls is one it   *)
(* left behind, whose lease runs out.                                        *)
WorkerLeases(k) ==
    /\ backend = "sqlite" /\ worker.pc = "poll"
    /\ queue[Shared][k] \in {"QUEUED", "LEASED"}
    /\ queue' = [queue EXCEPT ![Shared][k] = "LEASED"]
    /\ attempts' = [attempts EXCEPT ![k] = @ + 1]
    /\ worker' = [NoWork EXCEPT !.pc = "leased", !.key = k]
    /\ UNCHANGED <<storeVars, req, posts, faults, begun, told, patched, incidents>>

(* A settling call and the end of processOne: the job is changed if it is   *)
(* still leased.  An error is ignored, also that of a statement that failed. *)
Settles(to) ==
    /\ \/ /\ queue' = [queue EXCEPT ![Shared][worker.key] = IF @ = "LEASED" THEN to ELSE @]
          /\ UNCHANGED faults
       \/ Fault /\ UNCHANGED queue
    /\ worker' = NoWork
    /\ UNCHANGED <<storeVars, req, attempts, posts, begun, told, patched, incidents>>

(* GetWorkflow fails, because the workflow was deleted since or for another *)
(* reason: FailRunJob, and no run is saved.                                 *)
WorkflowMissing == worker.pc = "leased" /\ Settles("FAILED")

(* RunWithID goes on to `to`: after a save, or with the run as it was. *)
WorkerGoes(to, ended) ==
    /\ worker' = [worker EXCEPT !.pc = to, !.ended = ended]
    /\ UNCHANGED <<backend, up, mem, saving, req, queue, attempts, posts, begun, told, patched, incidents>>

WorkerSaves(to, status) ==
    /\ WorkerGoes(to, status)
    /\ disk' = [disk EXCEPT !.runs[worker.key] = status]
    /\ UNCHANGED faults

(* SaveRun fails: the watcher has seen the job CANCELLED and has ended the   *)
(* context of the run, or the statement fails.                               *)
WorkerSaveFails(to) ==
    /\ WorkerGoes(to, "none")
    /\ \/ queue[Shared][worker.key] = "CANCELLED" /\ UNCHANGED faults
       \/ Fault
    /\ UNCHANGED disk

(* ValidateWorkflow refuses the workflow, and RunWithID saves nothing. *)
WorkflowInvalid ==
    /\ worker.pc = "leased"
    /\ WorkerGoes("returned", "none")
    /\ UNCHANGED <<disk, faults>>

(* The error of the first save is ignored, that of the last one returned.   *)
WorkerRuns ==
    \/ WorkflowInvalid
    \/ worker.pc = "leased" /\ (WorkerSaves("running", "RUNNING") \/ WorkerSaveFails("running"))
    \/ worker.pc = "running" /\ ((\E s \in Final : WorkerSaves("returned", s)) \/ WorkerSaveFails("returned"))

(* A FAILED run, and an error of RunWithID (none), is queued again while    *)
(* attempts are left.                                                       *)
SettledAs(status, tries) ==
    CASE status = "SUCCESS" -> "SUCCEEDED"
      [] status = "CANCELLED" -> "CANCELLED"
      [] OTHER -> IF tries < MaxAttempts THEN "QUEUED" ELSE "DEAD_LETTER"

WorkerSettles ==
    /\ worker.pc = "returned"
    /\ Settles(SettledAs(worker.ended, attempts[worker.key]))

(* The worker is killed and started again: its job stays LEASED. *)
WorkerDies ==
    /\ worker.pc # "poll"
    /\ Fault
    /\ worker' = NoWork
    /\ UNCHANGED <<storeVars, req, queue, attempts, posts, begun, told, patched, incidents>>

(* DELETE /jobs/{id}, at any process: CancelRunJob. *)
CancelJob(q, k) ==
    /\ queue[q][k] \notin {"none", "SUCCEEDED", "CANCELLED"}
    /\ queue' = [queue EXCEPT ![q][k] = "CANCELLED"]
    /\ UNCHANGED <<storeVars, req, attempts, worker, posts, faults, begun, told, patched, incidents>>

-----------------------------------------------------------------------------
(* main over its store: the workflow file replaces the edits. *)
BootProcess(p) ==
    /\ Boot(p)
    /\ patched' = {}
    /\ Happens("strangers", backend = "file" /\ \E q \in Procs \ {p} : up[q] # "down")
    /\ UNCHANGED <<req, queue, attempts, worker, posts, faults, begun, told>>

BootedProcess(p) == Booted(p) /\ UNCHANGED apiVars

(* kill -9, at any point.  The queue of the file backend dies with it. *)
KillProcess(p) ==
    /\ Fault
    /\ Killed(p)
    /\ req' = [c \in Clients |-> IF req[c].proc = p THEN NoRequest ELSE req[c]]
    /\ queue' = [queue EXCEPT ![p] = [k \in Keys |-> "none"]]
    /\ UNCHANGED <<attempts, worker, posts, begun, told, patched, incidents>>

TruncateFile(p) == Truncate(p) /\ UNCHANGED apiVars

Posting ==
    \E c \in Clients, p \in Procs, kind \in Kinds, k \in Keys, f \in Fields :
        Post(c, p, kind, k, f)

Handling(c) ==
    \/ LookupRun(c) \/ LookupFails(c) \/ LookupJob(c) \/ Enqueue(c)
    \/ FileSave(c) \/ SqlSave(c) \/ SqlSaveFails(c)
    \/ \E s \in Final : EndRun(c, s)
    \/ ReadWorkflow(c)

Working == (\E k \in Keys : WorkerLeases(k)) \/ WorkflowMissing \/ WorkerRuns \/ WorkerSettles

Interrupting == WorkerDies \/ \E q \in Procs \cup {Shared}, k \in Keys : CancelJob(q, k)

SubNext ==
    \/ Posting
    \/ \E c \in Clients : Handling(c) \/ HangUp(c)
    \/ Working \/ Interrupting
    \/ \E p \in Procs : \/ BootProcess(p) \/ BootedProcess(p) \/ TruncateFile(p)
                        \/ FileSaved(p) \/ FileSaveFails(p) \/ KillProcess(p)

SubSpec == SubInit /\ [][SubNext]_subVars

(* The worker polls, and its statements and runs end.  Nothing is assumed   *)
(* of clients and of serving processes.                                     *)
FairSubSpec == SubSpec /\ WF_subVars(Working)

-----------------------------------------------------------------------------
(* Types. *)
SubTypeOK ==
    /\ StoreTypeOK
    /\ req \in [Clients -> Request]
    /\ queue \in [Procs \cup {Shared} -> [Keys -> JobStatuses]]
    /\ attempts \in [Keys -> Nat]
    /\ worker \in [pc : {"poll", "leased", "running", "returned"}, key : Keys, ended : RunStatuses]
    /\ posts \in 0 .. MaxPosts /\ faults \in 0 .. MaxFaults
    /\ begun \in [Keys -> Nat]
    /\ told \in [Keys -> Final \cup {"none"}]
    /\ patched \in SUBSET Fields
    /\ incidents \in SUBSET Incidents

Spared(what) == incidents \cap what = {}

(* A client that was told how its run ended (201) finds the same answer in  *)
(* every process that is up and, unless the file is torn, after a restart:  *)
(* through kills at any point and failed writes, as long as no overlapping  *)
(* request, no failed lookup and no second process was involved.            *)
ToldRunStands ==
    Spared({"overlap", "strangers", "misread"}) =>
        \A k \in Keys :
            told[k] # "none" =>
                /\ disk # Torn => disk.runs[k] = told[k]
                /\ \A p \in Procs : up[p] = "up" => StoreOf(p).runs[k] = told[k]

(* A synchronous request that is sent again does not execute its key again, *)
(* also when the process was killed between the two: the run is saved and   *)
(* the file is written before the first task starts.                        *)
ExecutedAtMostOnce ==
    Spared({"overlap", "strangers", "misread", "unsaved"}) => \A k \in Keys : begun[k] <= 1

(* An acknowledged edit of the workflow is in every store that is up, until *)
(* it is replaced or a process starts, unless changes raced or two          *)
(* processes share the directory.                                           *)
PatchesKept ==
    Spared({"racing", "strangers"}) =>
        \A p \in Procs : up[p] = "up" => patched \subseteq StoreOf(p).workflow

(* Over sqlite a job that was accepted comes to an end although statements   *)
(* fail and workers die, and also when a handler has left a run of its key    *)
(* RUNNING: either SUCCEEDED, and then the run is recorded as a SUCCESS       *)
(* unless a request for the same key executed beside it, or FAILED (the       *)
(* workflow is gone), CANCELLED or DEAD_LETTER.                               *)
AcceptedJobEnds ==
    \A k \in Keys :
        backend = "sqlite" /\ queue[Shared][k] = "QUEUED" ~>
            \/ queue[Shared][k] \in {"FAILED", "CANCELLED", "DEAD_LETTER"}
            \/ /\ queue[Shared][k] = "SUCCEEDED"
               /\ Spared({"overlap", "misread"}) => disk.runs[k] = "SUCCESS"

=============================================================================
