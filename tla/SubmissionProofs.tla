--------------------------- MODULE SubmissionProofs ---------------------------
(***************************************************************************)
(* Proofs about Submission over RunStore, for any number of processes,     *)
(* keys, clients, requests and faults: its types; that the end of a run    *)
(* that was told stands, that a key is executed once and that acknowledged *)
(* edits are kept, each unless one of the incidents it names has happened. *)
(***************************************************************************)
EXTENDS Submission, TLAPS

(* The store: its type; the database is always a document and nobody       *)
(* flushes it.                                                             *)
StoreInv ==
    /\ StoreTypeOK
    /\ backend = "sqlite" => disk \in Document /\ \A p \in Procs : saving[p].step = "none"

(* The handlers: a request that is worked on has a process, and one that   *)
(* is about to save the end of its run has a final status.                 *)
RequestsInv ==
    /\ req \in [Clients -> Request]
    /\ \A c \in Clients : req[c].pc # "idle" => req[c].proc \in Procs
    /\ \A c \in Clients : req[c].pc = "saveFinal" => req[c].status \in Final

Work == [pc : {"poll", "leased", "running", "returned"}, key : Keys, ended : RunStatuses]

(* The queue and its worker, which is there over sqlite only. *)
WorkInv ==
    /\ queue \in [Procs \cup {Shared} -> [Keys -> JobStatuses]]
    /\ attempts \in [Keys -> Nat]
    /\ worker \in Work
    /\ worker.pc # "poll" => backend = "sqlite"

(* The counters and what clients know. *)
RecordsInv ==
    /\ posts \in 0 .. MaxPosts /\ faults \in 0 .. MaxFaults
    /\ begun \in [Keys -> Nat]
    /\ told \in [Keys -> Final \cup {"none"}]
    /\ patched \in SUBSET Fields
    /\ incidents \in SUBSET Incidents

SubInv == StoreInv /\ RequestsInv /\ WorkInv /\ RecordsInv

-----------------------------------------------------------------------------
(* Values *)

LEMMA KeyChosen == AnyKey \in Keys
BY SubAssumption DEF AnyKey

LEMMA EmptyIsDocument == Empty \in Document
BY DEF Empty, Document, RunStatuses

LEMMA WorkflowReplaced ==
  ASSUME NEW d \in Document, NEW w \in SUBSET Fields
  PROVE  [d EXCEPT !.workflow = w] \in Document
BY DEF Document

LEMMA RunReplaced ==
  ASSUME NEW d \in Document, NEW k \in Keys, NEW s \in RunStatuses
  PROVE  [d EXCEPT !.runs[k] = s] \in Document
BY DEF Document

LEMMA StoreIsDocument ==
  ASSUME StoreInv, NEW p \in Procs
  PROVE  StoreOf(p) \in Document
BY StoreAssumption DEF StoreInv, StoreTypeOK, StoreOf

LEMMA FlushTypes ==
  /\ NoFlush \in Flush
  /\ \A o \in Clients \cup {"main"} : [by |-> o, step |-> "open", mixed |-> FALSE] \in Flush
  /\ NoFlush.step = "none"
BY DEF NoFlush, Flush

LEMMA NoRequestTyped == NoRequest \in Request /\ NoRequest.pc = "idle"
BY KeyChosen DEF NoRequest, Request, Steps, RunStatuses

LEMMA NoWorkTyped == NoWork \in Work /\ NoWork.pc = "poll"
BY KeyChosen DEF NoWork, Work, RunStatuses

-----------------------------------------------------------------------------
(* The store *)

LEMMA SavesKeepsStore ==
  ASSUME StoreInv, NEW p \in Procs, NEW o \in Clients \cup {"main"}, NEW d \in Document,
         Saves(p, o, d), UNCHANGED backend, up' \in [Procs -> {"down", "booting", "up"}]
  PROVE  StoreInv'
<1>1. CASE backend = "file"
  <2>1. mem' \in [Procs -> Document]
    BY <1>1 DEF Saves, StoreInv, StoreTypeOK
  <2>2. saving' \in [Procs -> Flush]
    BY <1>1, FlushTypes DEF Saves, StoreInv, StoreTypeOK
  <2> QED BY <1>1, <2>1, <2>2 DEF Saves, StoreInv, StoreTypeOK
<1>2. CASE backend # "file"
  BY <1>2 DEF Saves, StoreInv, StoreTypeOK
<1> QED BY <1>1, <1>2

LEMMA TruncateKeepsStore ==
  ASSUME StoreInv, NEW p \in Procs, Truncate(p)
  PROVE  StoreInv'
<1>1. backend # "sqlite"
  BY DEF StoreInv, Truncate
<1>2. ASSUME NEW q \in Procs PROVE saving'[q] \in Flush
  <2>1. saving[q] \in Flush /\ saving[p] \in Flush
    BY DEF StoreInv, StoreTypeOK
  <2>2. \A f \in Flush, b \in BOOLEAN : /\ [f EXCEPT !.step = "write", !.mixed = b] \in Flush
                                        /\ [f EXCEPT !.mixed = TRUE] \in Flush
    BY DEF Flush
  <2> QED BY <2>1, <2>2 DEF Truncate
<1>3. saving' \in [Procs -> Flush]
  BY <1>2 DEF Truncate
<1> QED BY <1>1, <1>3 DEF Truncate, StoreInv, StoreTypeOK

LEMMA WrittenKeepsStore ==
  ASSUME StoreInv, NEW p \in Procs, Written(p) \/ WriteFails(p), UNCHANGED backend,
         up' \in [Procs -> {"down", "booting", "up"}]
  PROVE  StoreInv'
<1>1. backend # "sqlite"
  BY DEF StoreInv, Written, WriteFails
<1>2. saving' \in [Procs -> Flush]
  BY FlushTypes DEF StoreInv, StoreTypeOK, Written, WriteFails
<1>3. mem[p] \in Document
  BY DEF StoreInv, StoreTypeOK
<1>4. disk' \in Document \cup {NoFile, Torn} /\ mem' = mem
  BY <1>3 DEF StoreInv, StoreTypeOK, Written, WriteFails
<1> QED BY <1>1, <1>2, <1>4 DEF StoreInv, StoreTypeOK

LEMMA UpChanged ==
  ASSUME StoreInv, NEW p \in Procs, NEW u \in {"down", "booting", "up"}
  PROVE  [up EXCEPT ![p] = u] \in [Procs -> {"down", "booting", "up"}]
BY DEF StoreInv, StoreTypeOK

LEMMA BootKeepsStore ==
  ASSUME StoreInv, NEW p \in Procs, Boot(p)
  PROVE  StoreInv'
<1>1. Loaded \in Document
  BY EmptyIsDocument DEF StoreInv, StoreTypeOK, Boot, Loaded
<1>2. [Loaded EXCEPT !.workflow = {}] \in Document
  BY <1>1, WorkflowReplaced
<1>3. up' \in [Procs -> {"down", "booting", "up"}]
  BY UpChanged DEF Boot
<1> QED BY <1>2, <1>3, SavesKeepsStore DEF Boot

LEMMA KilledKeepsStore ==
  ASSUME StoreInv, NEW p \in Procs, Killed(p)
  PROVE  StoreInv'
<1>1. up' \in [Procs -> {"down", "booting", "up"}]
  BY UpChanged DEF Killed
<1>2. mem' \in [Procs -> Document]
  BY EmptyIsDocument DEF Killed, StoreInv, StoreTypeOK
<1>3. saving' \in [Procs -> Flush]
  BY FlushTypes DEF Killed, StoreInv, StoreTypeOK
<1>4. backend = "sqlite" => \A q \in Procs : saving'[q].step = "none"
  BY FlushTypes DEF Killed, StoreInv, StoreTypeOK
<1> QED BY <1>1, <1>2, <1>3, <1>4 DEF Killed, StoreInv, StoreTypeOK

LEMMA StoreKept ==
  ASSUME StoreInv, UNCHANGED storeVars
  PROVE  StoreInv'
BY DEF StoreInv, StoreTypeOK, storeVars

-----------------------------------------------------------------------------
(* The handlers *)

LEMMA RequestChanged ==
  ASSUME RequestsInv, NEW c \in Clients, NEW r \in Request,
         r.pc # "idle" => r.proc \in Procs, r.pc = "saveFinal" => r.status \in Final,
         req' = [req EXCEPT ![c] = r]
  PROVE  RequestsInv'
BY DEF RequestsInv

LEMMA AnswersKeeps ==
  ASSUME RequestsInv, NEW c \in Clients, Answers(c)
  PROVE  RequestsInv'
BY RequestChanged, NoRequestTyped DEF Answers

LEMMA GoesKeeps ==
  ASSUME RequestsInv, NEW c \in Clients, NEW step \in Steps \ {"saveFinal"}, req[c].pc # "idle",
         Goes(c, step)
  PROVE  RequestsInv'
<1> DEFINE r == [req[c] EXCEPT !.pc = step]
<1>1. req[c] \in Request /\ req[c].proc \in Procs
  BY DEF RequestsInv
<1>2. r \in Request /\ r.pc = step /\ r.proc = req[c].proc
  BY <1>1 DEF Request
<1>3. req' = [req EXCEPT ![c] = r]
  BY DEF Goes
<1> HIDE DEF r
<1> QED BY <1>1, <1>2, <1>3, RequestChanged

LEMMA RequestsKept ==
  ASSUME RequestsInv, UNCHANGED req
  PROVE  RequestsInv'
BY DEF RequestsInv

(* The key and the edits of a request. *)
LEMMA RequestFields ==
  ASSUME RequestsInv, NEW c \in Clients
  PROVE  /\ req[c].key \in Keys
         /\ req[c].edits \in SUBSET Fields
         /\ req[c].status \in RunStatuses
         /\ req[c].pc \in Steps
         /\ req[c].pc # "idle" => req[c].proc \in Procs
         /\ req[c].pc = "saveFinal" => req[c].status \in Final
BY DEF RequestsInv, Request

LEMMA SavedIsDocument ==
  ASSUME StoreInv, RequestsInv, NEW c \in Clients, req[c].pc # "idle"
  PROVE  Saved(c) \in Document
<1>1. req[c].key \in Keys /\ req[c].status \in RunStatuses /\ req[c].edits \in SUBSET Fields /\ req[c].proc \in Procs
  BY RequestFields
<1>2. StoreOf(req[c].proc) \in Document
  BY <1>1, StoreIsDocument
<1>3. "RUNNING" \in RunStatuses
  BY DEF RunStatuses
<1> QED BY <1>1, <1>2, <1>3, RunReplaced, WorkflowReplaced DEF Saved

LEMMA WorkKept ==
  ASSUME WorkInv, UNCHANGED <<queue, attempts, worker, backend>>
  PROVE  WorkInv'
BY DEF WorkInv

LEMMA HappensKeeps ==
  ASSUME incidents \in SUBSET Incidents, NEW what \in Incidents, NEW b, Happens(what, b)
  PROVE  incidents' \in SUBSET Incidents
BY DEF Happens

LEMMA FaultKeeps ==
  ASSUME faults \in 0 .. MaxFaults, Fault
  PROVE  faults' \in 0 .. MaxFaults
BY SubAssumption DEF Fault

LEMMA RecordsKept ==
  ASSUME RecordsInv, UNCHANGED <<posts, begun, told, patched>>,
         faults' \in 0 .. MaxFaults, incidents' \in SUBSET Incidents
  PROVE  RecordsInv'
BY DEF RecordsInv

(* What follows a save. *)
LEMMA ResumesKeeps ==
  ASSUME RequestsInv, RecordsInv, WorkInv, NEW c \in Clients, NEW ok \in BOOLEAN,
         Resumes(c, ok), faults' \in 0 .. MaxFaults, UNCHANGED backend
  PROVE  RequestsInv' /\ RecordsInv' /\ WorkInv'
<1>1. RequestsInv'
  BY AnswersKeeps, GoesKeeps DEF Resumes, Steps
<1>2. begun' \in [Keys -> Nat]
  BY RequestFields DEF Resumes, RecordsInv
<1>3. told' \in [Keys -> Final \cup {"none"}]
  BY RequestFields DEF Resumes, RecordsInv
<1>4. patched' \in SUBSET Fields
  BY RequestFields DEF Resumes, RecordsInv
<1>5. incidents' \in SUBSET Incidents
  BY DEF Resumes, RecordsInv, Happens, Incidents
<1>6. WorkInv'
  BY WorkKept DEF Resumes
<1> QED BY <1>1, <1>2, <1>3, <1>4, <1>5, <1>6 DEF RecordsInv, Resumes

-----------------------------------------------------------------------------
(* The actions *)

LEMMA PostKeeps ==
  ASSUME SubInv, NEW c \in Clients, NEW p \in Procs, NEW kind \in Kinds, NEW k \in Keys, NEW f \in Fields,
         Post(c, p, kind, k, f)
  PROVE  SubInv'
<1> DEFINE r == [NoRequest EXCEPT
                 !.kind = kind, !.proc = p, !.key = k,
                 !.edits = IF kind = "patch" THEN {f} ELSE {},
                 !.pc = CASE kind \in {"sync", "async"} -> "lookup"
                          [] kind = "patch" -> "readWorkflow"
                          [] OTHER -> "saveWorkflow"]
<1>1. r \in Request
  BY NoRequestTyped DEF Request, Steps
<1>2. r.proc = p /\ r.pc # "saveFinal"
  BY NoRequestTyped DEF Request
<1>3. req' = [req EXCEPT ![c] = r]
  BY DEF Post
<1> HIDE DEF r
<1>4. RequestsInv'
  BY <1>1, <1>2, <1>3, RequestChanged DEF SubInv
<1>5. StoreInv' /\ WorkInv'
  BY StoreKept, WorkKept DEF SubInv, Post, storeVars
<1>6. posts' \in 0 .. MaxPosts
  BY SubAssumption DEF Post, SubInv, RecordsInv
<1>7. RecordsInv'
  BY <1>6 DEF Post, SubInv, RecordsInv
<1> QED BY <1>4, <1>5, <1>7 DEF SubInv

(* Steps of a handler that change nothing but its request. *)
LEMMA HandlerStep ==
  ASSUME SubInv, RequestsInv', UNCHANGED <<storeVars, queue, attempts, worker, posts, begun, told, patched>>,
         faults' \in 0 .. MaxFaults, incidents' \in SUBSET Incidents
  PROVE  SubInv'
<1>1. StoreInv' /\ WorkInv'
  BY StoreKept, WorkKept DEF SubInv, storeVars
<1>2. RecordsInv'
  BY RecordsKept DEF SubInv
<1> QED BY <1>1, <1>2 DEF SubInv

LEMMA HangUpKeeps ==
  ASSUME SubInv, NEW c \in Clients, HangUp(c)
  PROVE  SubInv'
<1> DEFINE r == [req[c] EXCEPT !.gone = TRUE]
<1>1. req[c] \in Request
  BY DEF SubInv, RequestsInv
<1>2. r \in Request /\ r.pc = req[c].pc /\ r.proc = req[c].proc /\ r.status = req[c].status
  BY <1>1 DEF Request
<1>3. req' = [req EXCEPT ![c] = r]
  BY DEF HangUp
<1> HIDE DEF r
<1>4. RequestsInv'
  BY <1>2, <1>3, RequestChanged, RequestFields DEF SubInv
<1>5. faults' \in 0 .. MaxFaults /\ incidents' \in SUBSET Incidents
  BY FaultKeeps DEF HangUp, SubInv, RecordsInv
<1> QED BY <1>4, <1>5, HandlerStep DEF HangUp

LEMMA LookupKeeps ==
  ASSUME SubInv, NEW c \in Clients, LookupRun(c) \/ LookupFails(c) \/ LookupJob(c)
  PROVE  SubInv'
<1> USE DEF SubInv
<1>1. RequestsInv'
  <2>1. req[c].pc # "idle"
    BY DEF LookupRun, LookupFails, LookupJob
  <2>2. Answers(c) \/ Goes(c, "saveRunning") \/ Goes(c, "lookupJob") \/ Goes(c, "enqueue")
    BY DEF LookupRun, LookupFails, LookupJob, Proceeds
  <2> QED BY <2>1, <2>2, AnswersKeeps, GoesKeeps DEF Steps
<1>2. faults' \in 0 .. MaxFaults
  BY FaultKeeps DEF LookupRun, LookupFails, LookupJob, RecordsInv
<1>3. incidents' \in SUBSET Incidents
  BY DEF LookupRun, LookupFails, LookupJob, RecordsInv, Happens, Incidents
<1>4. UNCHANGED <<storeVars, queue, attempts, worker, posts, begun, told, patched>>
  BY DEF LookupRun, LookupFails, LookupJob
<1> QED BY <1>1, <1>2, <1>3, <1>4, HandlerStep

LEMMA EnqueueKeeps ==
  ASSUME SubInv, NEW c \in Clients, Enqueue(c)
  PROVE  SubInv'
<1> USE DEF SubInv
<1>1. RequestsInv'
  BY AnswersKeeps DEF Enqueue
<1>2. QueueOf(req[c].proc) \in Procs \cup {Shared} /\ req[c].key \in Keys
  BY RequestFields DEF Enqueue, QueueOf
<1>3. queue' \in [Procs \cup {Shared} -> [Keys -> JobStatuses]]
  BY <1>2 DEF Enqueue, WorkInv, JobStatuses
<1>4. WorkInv'
  BY <1>3 DEF Enqueue, WorkInv, storeVars
<1>5. StoreInv' /\ RecordsInv'
  BY StoreKept, RecordsKept DEF Enqueue, RecordsInv
<1> QED BY <1>1, <1>4, <1>5

LEMMA FileSaveKeeps ==
  ASSUME SubInv, NEW c \in Clients, FileSave(c)
  PROVE  SubInv'
<1> USE DEF SubInv
<1>1. req[c].pc # "idle" /\ req[c].proc \in Procs
  BY RequestFields DEF FileSave, SaveSteps
<1>2. Saved(c) \in Document
  BY <1>1, SavedIsDocument
<1>3. up' \in [Procs -> {"down", "booting", "up"}]
  BY DEF FileSave, StoreInv, StoreTypeOK
<1>4. StoreInv'
  BY <1>1, <1>2, <1>3, SavesKeepsStore DEF FileSave
<1>5. RequestsInv' /\ WorkInv'
  BY RequestsKept, WorkKept DEF FileSave
<1>6. RecordsInv'
  BY DEF FileSave, RecordsInv
<1> QED BY <1>4, <1>5, <1>6

LEMMA SqlSaveKeeps ==
  ASSUME SubInv, NEW c \in Clients, SqlSave(c)
  PROVE  SubInv'
<1> USE DEF SubInv
<1>1. req[c].pc # "idle" /\ req[c].proc \in Procs
  BY RequestFields DEF SqlSave, SaveSteps
<1>2. Saved(c) \in Document
  BY <1>1, SavedIsDocument
<1>3. up' \in [Procs -> {"down", "booting", "up"}]
  BY DEF SqlSave, StoreInv, StoreTypeOK
<1>4. StoreInv'
  BY <1>1, <1>2, <1>3, SavesKeepsStore DEF SqlSave
<1>5. CASE req[c].kind = "put"
  <2>1. RequestsInv' /\ WorkInv'
    BY <1>5, AnswersKeeps, WorkKept DEF SqlSave
  <2>2. RecordsInv'
    BY <1>5 DEF SqlSave, RecordsInv
  <2> QED BY <1>4, <2>1, <2>2
<1>6. CASE req[c].kind # "put"
  BY <1>4, <1>6, ResumesKeeps DEF SqlSave, RecordsInv
<1> QED BY <1>5, <1>6

LEMMA SqlSaveFailsKeeps ==
  ASSUME SubInv, NEW c \in Clients, SqlSaveFails(c)
  PROVE  SubInv'
<1> USE DEF SubInv
<1>1. faults' \in 0 .. MaxFaults
  BY FaultKeeps DEF SqlSaveFails, RecordsInv
<1>2. StoreInv' /\ UNCHANGED backend
  BY StoreKept DEF SqlSaveFails, storeVars
<1> QED BY <1>1, <1>2, ResumesKeeps DEF SqlSaveFails

LEMMA EndRunKeeps ==
  ASSUME SubInv, NEW c \in Clients, NEW s \in Final, EndRun(c, s)
  PROVE  SubInv'
<1> DEFINE r == [req[c] EXCEPT !.pc = "saveFinal", !.status = s]
<1>1. req[c] \in Request /\ req[c].proc \in Procs
  BY DEF SubInv, RequestsInv, EndRun
<1>2. r \in Request /\ r.proc = req[c].proc /\ r.status = s
  BY <1>1 DEF Request, Steps, RunStatuses, Final
<1>3. req' = [req EXCEPT ![c] = r]
  BY DEF EndRun
<1> HIDE DEF r
<1>4. RequestsInv'
  BY <1>1, <1>2, <1>3, RequestChanged DEF SubInv
<1> QED BY <1>4, HandlerStep DEF EndRun, SubInv, RecordsInv

LEMMA ReadWorkflowKeeps ==
  ASSUME SubInv, NEW c \in Clients, ReadWorkflow(c)
  PROVE  SubInv'
<1> USE DEF SubInv
<1>1. incidents' \in SUBSET Incidents
  BY DEF ReadWorkflow, RecordsInv, Happens, Incidents
<1>2. CASE Answers(c)
  BY <1>1, <1>2, AnswersKeeps, HandlerStep DEF ReadWorkflow, RecordsInv
<1>3. CASE ~Answers(c)
  <2> DEFINE e == req[c].edits \cup StoreOf(req[c].proc).workflow
             r == [req[c] EXCEPT !.pc = "saveWorkflow", !.edits = e]
  <2>1. req[c] \in Request /\ req[c].proc \in Procs
    BY DEF RequestsInv, ReadWorkflow
  <2>2. e \in SUBSET Fields
    BY <2>1, StoreIsDocument DEF Document, Request
  <2> HIDE DEF e
  <2>3. r \in Request /\ r.proc = req[c].proc /\ r.pc = "saveWorkflow"
    BY <2>1, <2>2 DEF Request, Steps
  <2>4. req' = [req EXCEPT ![c] = r]
    BY <1>3 DEF ReadWorkflow, e
  <2> HIDE DEF r
  <2>5. RequestsInv'
    BY <2>1, <2>3, <2>4, RequestChanged
  <2> QED BY <1>1, <2>5, HandlerStep DEF ReadWorkflow, RecordsInv
<1> QED BY <1>2, <1>3

LEMMA HandlingKeeps ==
  ASSUME SubInv, NEW c \in Clients, Handling(c)
  PROVE  SubInv'
BY LookupKeeps, EnqueueKeeps, FileSaveKeeps, SqlSaveKeeps, SqlSaveFailsKeeps, EndRunKeeps, ReadWorkflowKeeps
   DEF Handling

(* The worker, what interrupts it and what cancels its jobs. *)
Backstage == Working \/ Interrupting

LEMMA SettlesKeeps ==
  ASSUME SubInv, NEW to \in JobStatuses, Settles(to)
  PROVE  SubInv'
<1> USE DEF SubInv
<1>1. worker.key \in Keys
  BY DEF WorkInv, Work
<1>2. queue' \in [Procs \cup {Shared} -> [Keys -> JobStatuses]]
  BY <1>1 DEF Settles, WorkInv
<1>3. WorkInv'
  BY <1>2, NoWorkTyped DEF Settles, WorkInv
<1>4. faults' \in 0 .. MaxFaults
  BY FaultKeeps DEF Settles, RecordsInv
<1> QED BY <1>3, <1>4, StoreKept, RequestsKept, RecordsKept DEF Settles, RecordsInv

LEMMA WorkerGoesKeeps ==
  ASSUME WorkInv, RequestsInv, NEW to \in {"running", "returned"}, NEW s \in RunStatuses,
         worker.pc # "poll", WorkerGoes(to, s)
  PROVE  WorkInv' /\ RequestsInv'
<1>1. worker' \in Work /\ backend' = "sqlite"
  BY DEF WorkerGoes, WorkInv, Work
<1> QED BY <1>1, RequestsKept DEF WorkerGoes, WorkInv

LEMMA WorkerRunsKeeps ==
  ASSUME SubInv, WorkerRuns
  PROVE  SubInv'
<1> USE DEF SubInv
<1>1. worker.pc # "poll" /\ worker.key \in Keys
  BY DEF WorkerRuns, WorkflowInvalid, WorkInv, Work
<1>2. backend = "sqlite" /\ disk \in Document
  BY <1>1 DEF WorkInv, StoreInv
<1>3. ASSUME NEW to \in {"running", "returned"}, NEW s \in RunStatuses, WorkerSaves(to, s) PROVE SubInv'
  <2>1. disk' \in Document
    BY <1>1, <1>2, <1>3, RunReplaced DEF WorkerSaves
  <2>2. StoreInv'
    BY <1>3, <2>1 DEF WorkerSaves, WorkerGoes, StoreInv, StoreTypeOK
  <2> QED BY <1>1, <1>3, <2>2, WorkerGoesKeeps, RecordsKept DEF WorkerSaves, WorkerGoes, RecordsInv
<1>4. ASSUME NEW to \in {"running", "returned"}, WorkerGoes(to, "none"), UNCHANGED disk, faults' \in 0 .. MaxFaults
      PROVE  SubInv'
  <2>1. StoreInv'
    BY <1>4, StoreKept DEF WorkerGoes, storeVars
  <2>2. "none" \in RunStatuses
    BY DEF RunStatuses
  <2>3. WorkInv' /\ RequestsInv'
    BY <1>1, <1>4, <2>2, WorkerGoesKeeps
  <2> QED BY <1>4, <2>1, <2>3, RecordsKept DEF WorkerGoes, RecordsInv
<1>5. ASSUME NEW to \in {"running", "returned"}, WorkerSaveFails(to) PROVE SubInv'
  <2>1. faults' \in 0 .. MaxFaults
    BY <1>5, FaultKeeps DEF WorkerSaveFails, RecordsInv
  <2> QED BY <1>4, <1>5, <2>1 DEF WorkerSaveFails
<1>6. CASE WorkflowInvalid
  BY <1>4, <1>6 DEF WorkflowInvalid, RecordsInv
<1> QED BY <1>3, <1>5, <1>6 DEF WorkerRuns, RunStatuses, Final

LEMMA BackstageKeeps ==
  ASSUME SubInv, Backstage
  PROVE  SubInv'
<1> USE DEF SubInv
<1>1. ASSUME NEW k \in Keys, WorkerLeases(k) PROVE SubInv'
  <2>1. queue' \in [Procs \cup {Shared} -> [Keys -> JobStatuses]] /\ attempts' \in [Keys -> Nat]
    BY <1>1 DEF WorkerLeases, WorkInv, JobStatuses
  <2>2. worker' \in Work
    BY <1>1, NoWorkTyped DEF WorkerLeases, Work
  <2>3. WorkInv'
    BY <1>1, <2>1, <2>2 DEF WorkerLeases, WorkInv, storeVars
  <2> QED BY <1>1, <2>3, StoreKept, RequestsKept, RecordsKept DEF WorkerLeases, RecordsInv
<1>2. CASE WorkflowMissing
  BY <1>2, SettlesKeeps DEF WorkflowMissing, JobStatuses
<1>3. CASE WorkerSettles
  <2> DEFINE to == SettledAs(worker.ended, attempts[worker.key])
  <2>1. to \in JobStatuses
    BY DEF SettledAs, JobStatuses
  <2>2. Settles(to)
    BY <1>3 DEF WorkerSettles
  <2> HIDE DEF to
  <2> QED BY <2>1, <2>2, SettlesKeeps
<1>4. CASE WorkerDies
  <2>1. WorkInv'
    BY <1>4, NoWorkTyped DEF WorkerDies, WorkInv
  <2>2. faults' \in 0 .. MaxFaults
    BY <1>4, FaultKeeps DEF WorkerDies, RecordsInv
  <2> QED BY <1>4, <2>1, <2>2, StoreKept, RequestsKept, RecordsKept DEF WorkerDies, RecordsInv
<1>5. ASSUME NEW q \in Procs \cup {Shared}, NEW k \in Keys, CancelJob(q, k) PROVE SubInv'
  <2>1. queue' \in [Procs \cup {Shared} -> [Keys -> JobStatuses]]
    BY <1>5 DEF CancelJob, WorkInv, JobStatuses
  <2>2. WorkInv'
    BY <1>5, <2>1 DEF CancelJob, WorkInv, storeVars
  <2> QED BY <1>5, <2>2, StoreKept, RequestsKept, RecordsKept DEF CancelJob, RecordsInv
<1> QED BY <1>1, <1>2, <1>3, <1>4, <1>5, WorkerRunsKeeps DEF Backstage, Working, Interrupting

(* What the worker and its interruptions leave alone, and what they change  *)
(* of the database: the run of the job the worker is on.                    *)
LEMMA BackstageFrame ==
  ASSUME Backstage
  PROVE  UNCHANGED <<backend, up, mem, saving, req, begun, told, patched, incidents>>
BY DEF Backstage, Working, Interrupting, WorkerLeases, WorkflowMissing, Settles, WorkerRuns, WorkflowInvalid,
       WorkerSaves, WorkerSaveFails, WorkerGoes, WorkerSettles, WorkerDies, CancelJob, storeVars

LEMMA BackstageDisk ==
  ASSUME Backstage
  PROVE  \/ UNCHANGED disk
         \/ /\ worker.pc # "poll"
            /\ \E s \in {"RUNNING"} \cup Final : disk' = [disk EXCEPT !.runs[worker.key] = s]
<1>1. CASE WorkerRuns
  BY <1>1 DEF WorkerRuns, WorkflowInvalid, WorkerSaves, WorkerSaveFails
<1>2. CASE ~WorkerRuns
  BY <1>2 DEF Backstage, Working, Interrupting, WorkerLeases, WorkflowMissing, Settles, WorkerSettles,
              WorkerDies, CancelJob, storeVars
<1> QED BY <1>1, <1>2

LEMMA ProcessKeeps ==
  ASSUME SubInv, NEW p \in Procs,
         \/ BootProcess(p) \/ BootedProcess(p) \/ TruncateFile(p)
         \/ FileSaved(p) \/ FileSaveFails(p) \/ KillProcess(p)
  PROVE  SubInv'
<1> USE DEF SubInv
<1>1. CASE BootProcess(p)
  <2>1. StoreInv' /\ UNCHANGED backend
    BY <1>1, BootKeepsStore DEF BootProcess, Boot
  <2>2. RequestsInv' /\ WorkInv'
    BY <1>1, <2>1, RequestsKept, WorkKept DEF BootProcess
  <2>3. RecordsInv'
    BY <1>1 DEF BootProcess, RecordsInv, Happens, Incidents
  <2> QED BY <2>1, <2>2, <2>3
<1>2. CASE BootedProcess(p)
  <2>1. up' \in [Procs -> {"down", "booting", "up"}]
    BY <1>2, UpChanged DEF BootedProcess, Booted
  <2>2. StoreInv'
    BY <1>2, <2>1, WrittenKeepsStore DEF BootedProcess, Booted
  <2> QED BY <1>2, <2>2, RequestsKept, WorkKept, RecordsKept DEF BootedProcess, Booted, apiVars, RecordsInv
<1>3. CASE TruncateFile(p)
  <2>1. StoreInv' /\ UNCHANGED backend
    BY <1>3, TruncateKeepsStore DEF TruncateFile, Truncate
  <2> QED BY <1>3, <2>1, RequestsKept, WorkKept, RecordsKept DEF TruncateFile, apiVars, RecordsInv
<1>4. CASE FileSaved(p)
  <2>1. PICK c \in Clients : Written(p) /\ Resumes(c, TRUE) /\ UNCHANGED <<backend, up, faults>>
    BY <1>4 DEF FileSaved
  <2>2. StoreInv'
    BY <2>1, WrittenKeepsStore DEF StoreInv, StoreTypeOK
  <2> QED BY <2>1, <2>2, ResumesKeeps DEF RecordsInv
<1>5. CASE FileSaveFails(p)
  <2>1. faults' \in 0 .. MaxFaults
    BY <1>5, FaultKeeps DEF FileSaveFails, RecordsInv
  <2>2. CASE /\ up' = [up EXCEPT ![p] = "down"]
             /\ UNCHANGED <<backend, req, queue, attempts, worker, posts, begun, told, patched, incidents>>
    <3>1. StoreInv'
      BY <1>5, <2>2, UpChanged, WrittenKeepsStore DEF FileSaveFails
    <3> QED BY <2>1, <2>2, <3>1, RequestsKept, WorkKept, RecordsKept DEF RecordsInv
  <2>3. CASE \E c \in Clients : Resumes(c, FALSE) /\ UNCHANGED <<backend, up>>
    <3>1. StoreInv'
      BY <1>5, <2>3, WrittenKeepsStore DEF FileSaveFails, StoreInv, StoreTypeOK
    <3> QED BY <2>1, <2>3, <3>1, ResumesKeeps
  <2> QED BY <1>5, <2>2, <2>3 DEF FileSaveFails
<1>6. CASE KillProcess(p)
  <2>1. StoreInv' /\ UNCHANGED backend
    BY <1>6, KilledKeepsStore DEF KillProcess, Killed
  <2>2. RequestsInv'
    BY <1>6, NoRequestTyped DEF KillProcess, RequestsInv
  <2>3. queue' \in [Procs \cup {Shared} -> [Keys -> JobStatuses]]
    BY <1>6 DEF KillProcess, WorkInv, JobStatuses
  <2>4. WorkInv'
    BY <1>6, <2>1, <2>3 DEF KillProcess, WorkInv
  <2>5. RecordsInv'
    BY <1>6, FaultKeeps DEF KillProcess, RecordsInv
  <2> QED BY <2>1, <2>2, <2>4, <2>5
<1> QED BY <1>1, <1>2, <1>3, <1>4, <1>5, <1>6

-----------------------------------------------------------------------------
LEMMA InitTyped == SubInit => SubInv
<1> SUFFICES ASSUME SubInit PROVE SubInv
  OBVIOUS
<1>1. StoreInv
  BY EmptyIsDocument, FlushTypes DEF SubInit, StoreInit, StoreInv, StoreTypeOK
<1>2. RequestsInv
  BY NoRequestTyped DEF SubInit, RequestsInv
<1>3. WorkInv
  BY NoWorkTyped DEF SubInit, WorkInv, JobStatuses
<1>4. RecordsInv
  BY SubAssumption DEF SubInit, RecordsInv
<1> QED BY <1>1, <1>2, <1>3, <1>4 DEF SubInv

LEMMA StepTyped == SubInv /\ [SubNext]_subVars => SubInv'
<1> SUFFICES ASSUME SubInv, [SubNext]_subVars PROVE SubInv'
  OBVIOUS
<1>1. CASE UNCHANGED subVars
  BY <1>1, StoreKept, RequestsKept, WorkKept, RecordsKept DEF SubInv, subVars, apiVars, storeVars, RecordsInv
<1>2. CASE SubNext
  BY <1>2, PostKeeps, HandlingKeeps, HangUpKeeps, BackstageKeeps, ProcessKeeps DEF SubNext, Posting, Backstage
<1> QED BY <1>1, <1>2

(* The stores, the requests in flight, the queue and what clients were told *)
(* keep their types: a handler that is about to record the end of a run has *)
(* a final status, and the database is at every moment a whole document.    *)
THEOREM SubTypeCorrect == SubSpec => []SubTypeOK
<1>1. SubInv => SubTypeOK
  BY DEF SubInv, StoreInv, RequestsInv, WorkInv, RecordsInv, Work, SubTypeOK
<1> QED BY <1>1, InitTyped, StepTyped, PTL DEF SubSpec

-----------------------------------------------------------------------------
(* Who holds what: the base of the invariants below.                       *)

(* A handler lives in a process that serves, and a put carries no edits.   *)
Fit(r) ==
    /\ r.pc # "idle" => up[r.proc] = "up"
    /\ r.kind = "put" => r.pc = "saveWorkflow" /\ r.edits = {}

HandlerInv == \A c \in Clients : Fit(req[c])

(* The memory of p holds what c has saved and is writing to the file. *)
Holds(p, c) ==
    /\ req[c].pc \in SaveSteps /\ req[c].proc = p
    /\ req[c].pc = "saveRunning" => mem[p].runs[req[c].key] = "RUNNING"
    /\ req[c].pc = "saveFinal" => mem[p].runs[req[c].key] = req[c].status
    /\ req[c].pc = "saveWorkflow" => mem[p].workflow = req[c].edits

FlushInv ==
    \A p \in Procs :
        /\ saving[p].step = "none" <=> saving[p].by = "nobody"
        /\ saving[p].by = "main" => up[p] = "booting"
        /\ \A c \in Clients : saving[p].by = c => Holds(p, c)

(* The data directory has one process unless strangers have met there. *)
AloneInv ==
    "strangers" \notin incidents /\ backend = "file" =>
        \A p, q \in Procs : up[p] # "down" /\ up[q] # "down" => p = q

BaseInv == SubInv /\ HandlerInv /\ FlushInv /\ AloneInv

LEMMA NotFlushing ==
  ASSUME SubInv, FlushInv, NEW c \in Clients, req[c].pc \notin SaveSteps \/ backend = "sqlite"
  PROVE  \A p \in Procs : saving[p].by # c
<1> SUFFICES ASSUME NEW p \in Procs, saving[p].by = c PROVE FALSE
  OBVIOUS
<1>1. req[c].pc \in SaveSteps
  BY DEF FlushInv, Holds
<1>2. CASE backend = "sqlite"
  <2>1. saving[p].step = "none"
    BY <1>2 DEF SubInv, StoreInv
  <2>2. saving[p].by = "nobody"
    BY <2>1 DEF FlushInv
  <2> QED BY <2>2, StoreAssumption
<1> QED BY <1>1, <1>2

LEMMA RequestMoves ==
  ASSUME SubInv, HandlerInv, FlushInv, NEW c \in Clients, NEW r \in Request, Fit(r),
         req' = [req EXCEPT ![c] = r], UNCHANGED <<up, mem, saving>>,
         \A p \in Procs : saving[p].by # c
  PROVE  HandlerInv' /\ FlushInv'
<1>1. \A d \in Clients : req'[d] = IF d = c THEN r ELSE req[d]
  BY DEF SubInv, RequestsInv
<1>2. HandlerInv'
  BY <1>1 DEF HandlerInv, Fit
<1>3. ASSUME NEW p \in Procs, NEW d \in Clients, saving'[p].by = d PROVE Holds(p, d)'
  <2>1. d # c /\ saving[p].by = d
    BY <1>3
  <2>2. Holds(p, d) /\ req'[d] = req[d]
    BY <1>1, <2>1 DEF FlushInv
  <2> QED BY <2>2 DEF Holds
<1> QED BY <1>2, <1>3 DEF FlushInv

LEMMA AnswersMoves ==
  ASSUME SubInv, HandlerInv, FlushInv, NEW c \in Clients, Answers(c), UNCHANGED <<up, mem, saving>>,
         req[c].pc \notin SaveSteps \/ backend = "sqlite"
  PROVE  HandlerInv' /\ FlushInv'
<1>1. Fit(NoRequest) /\ NoRequest \in Request
  BY NoRequestTyped DEF Fit, NoRequest
<1> QED BY <1>1, NotFlushing, RequestMoves DEF Answers

LEMMA GoesMoves ==
  ASSUME SubInv, HandlerInv, FlushInv, NEW c \in Clients, NEW step \in Steps, Goes(c, step),
         UNCHANGED <<up, mem, saving>>, req[c].pc # "idle", req[c].kind # "put",
         req[c].pc \notin SaveSteps \/ backend = "sqlite"
  PROVE  HandlerInv' /\ FlushInv'
<1> DEFINE r == [req[c] EXCEPT !.pc = step]
<1>1. req[c] \in Request /\ Fit(req[c])
  BY DEF SubInv, RequestsInv, HandlerInv
<1>2. r \in Request /\ r.kind = req[c].kind /\ r.proc = req[c].proc
  BY <1>1 DEF Request
<1>3. Fit(r)
  BY <1>1, <1>2 DEF Fit
<1>4. req' = [req EXCEPT ![c] = r]
  BY DEF Goes
<1> HIDE DEF r
<1> QED BY <1>2, <1>3, <1>4, NotFlushing, RequestMoves

(* The flush of c in p ends. *)
LEMMA FlushEnds ==
  ASSUME SubInv, HandlerInv, FlushInv, NEW p \in Procs, NEW c \in Clients, saving[p].by = c,
         Written(p) \/ WriteFails(p), UNCHANGED up, NEW r \in Request, Fit(r),
         req' = [req EXCEPT ![c] = r]
  PROVE  HandlerInv' /\ FlushInv'
<1>1. \A d \in Clients : req'[d] = IF d = c THEN r ELSE req[d]
  BY DEF SubInv, RequestsInv
<1>2. HandlerInv'
  BY <1>1 DEF HandlerInv, Fit
<1>3. \A q \in Procs : saving'[q] = IF q = p THEN NoFlush ELSE saving[q]
  BY DEF Written, WriteFails, SubInv, StoreInv, StoreTypeOK
<1>4. UNCHANGED mem
  BY DEF Written, WriteFails
<1>5. ASSUME NEW q \in Procs, NEW d \in Clients, saving'[q].by = d PROVE Holds(q, d)'
  <2>1. q # p
    BY <1>3, <1>5, StoreAssumption DEF NoFlush
  <2>2. saving[q].by = d /\ Holds(q, d) /\ Holds(p, c)
    BY <1>3, <1>5, <2>1 DEF FlushInv
  <2>3. d # c
    BY <2>1, <2>2 DEF Holds
  <2> QED BY <1>1, <1>4, <2>2, <2>3 DEF Holds
<1>6. ASSUME NEW q \in Procs
      PROVE  /\ (saving'[q].step = "none" <=> saving'[q].by = "nobody")
             /\ saving'[q].by = "main" => up'[q] = "booting"
  BY <1>3 DEF FlushInv, NoFlush
<1> QED BY <1>2, <1>5, <1>6 DEF FlushInv

LEMMA AloneKept ==
  ASSUME AloneInv, incidents \subseteq incidents', UNCHANGED backend,
         \A p \in Procs : up'[p] # "down" => up[p] # "down"
  PROVE  AloneInv'
BY DEF AloneInv

LEMMA HappensGrows ==
  ASSUME NEW what, NEW b, Happens(what, b)
  PROVE  incidents \subseteq incidents'
BY DEF Happens

LEMMA IncidentsGrow == SubNext => incidents \subseteq incidents'
<1> SUFFICES ASSUME SubNext PROVE incidents \subseteq incidents'
  OBVIOUS
<1>1. ASSUME NEW c \in Clients, NEW ok \in BOOLEAN, Resumes(c, ok) PROVE incidents \subseteq incidents'
  BY <1>1, HappensGrows DEF Resumes
<1>2. CASE Posting
  BY <1>2 DEF Posting, Post
<1>3. ASSUME NEW c \in Clients, Handling(c) \/ HangUp(c) PROVE incidents \subseteq incidents'
  <2>1. CASE LookupRun(c) \/ LookupFails(c) \/ ReadWorkflow(c)
    BY <2>1, HappensGrows DEF LookupRun, LookupFails, ReadWorkflow
  <2>2. CASE SqlSave(c) \/ SqlSaveFails(c)
    BY <2>2, <1>1 DEF SqlSave, SqlSaveFails
  <2>3. CASE LookupJob(c) \/ Enqueue(c) \/ FileSave(c) \/ HangUp(c) \/ \E s \in Final : EndRun(c, s)
    BY <2>3 DEF LookupJob, Enqueue, FileSave, HangUp, EndRun
  <2> QED BY <1>3, <2>1, <2>2, <2>3 DEF Handling
<1>4. CASE Working \/ Interrupting
  BY <1>4, BackstageFrame DEF Backstage
<1>5. ASSUME NEW p \in Procs,
             \/ BootProcess(p) \/ BootedProcess(p) \/ TruncateFile(p)
             \/ FileSaved(p) \/ FileSaveFails(p) \/ KillProcess(p)
      PROVE  incidents \subseteq incidents'
  <2>1. CASE BootProcess(p)
    BY <2>1, HappensGrows DEF BootProcess
  <2>2. CASE BootedProcess(p) \/ TruncateFile(p) \/ KillProcess(p)
    BY <2>2 DEF BootedProcess, TruncateFile, KillProcess, apiVars
  <2>3. CASE FileSaved(p) \/ FileSaveFails(p)
    BY <2>3, <1>1 DEF FileSaved, FileSaveFails
  <2> QED BY <1>5, <2>1, <2>2, <2>3
<1> QED BY <1>2, <1>3, <1>4, <1>5 DEF SubNext

(* Steps in which nobody starts or stops. *)
LEMMA BaseFromHandler ==
  ASSUME BaseInv, SubInv', HandlerInv', FlushInv', UNCHANGED <<backend, up>>,
         incidents \subseteq incidents'
  PROVE  BaseInv'
BY AloneKept DEF BaseInv

LEMMA PostKeepsBase ==
  ASSUME BaseInv, SubInv', NEW c \in Clients, NEW p \in Procs, NEW kind \in Kinds, NEW k \in Keys,
         NEW f \in Fields, Post(c, p, kind, k, f)
  PROVE  BaseInv'
<1> DEFINE r == [NoRequest EXCEPT
                 !.kind = kind, !.proc = p, !.key = k,
                 !.edits = IF kind = "patch" THEN {f} ELSE {},
                 !.pc = CASE kind \in {"sync", "async"} -> "lookup"
                          [] kind = "patch" -> "readWorkflow"
                          [] OTHER -> "saveWorkflow"]
<1>1. r \in Request
  BY NoRequestTyped DEF Request, Steps
<1>2. Fit(r)
  BY NoRequestTyped DEF Request, Fit, Post
<1>3. req' = [req EXCEPT ![c] = r] /\ UNCHANGED <<backend, up, mem, saving>> /\ req[c].pc \notin SaveSteps
  BY DEF Post, storeVars, SaveSteps
<1> HIDE DEF r
<1>4. \A q \in Procs : saving[q].by # c
  BY <1>3, NotFlushing DEF BaseInv
<1>5. HandlerInv' /\ FlushInv'
  BY <1>1, <1>2, <1>3, <1>4, RequestMoves DEF BaseInv
<1> QED BY <1>3, <1>5, BaseFromHandler DEF Post

LEMMA HangUpKeepsBase ==
  ASSUME BaseInv, SubInv', NEW c \in Clients, HangUp(c)
  PROVE  BaseInv'
<1> DEFINE r == [req[c] EXCEPT !.gone = TRUE]
<1>1. req[c] \in Request /\ Fit(req[c])
  BY DEF BaseInv, SubInv, RequestsInv, HandlerInv
<1>2. r \in Request /\ r.pc = req[c].pc /\ r.proc = req[c].proc /\ r.kind = req[c].kind /\ r.edits = req[c].edits
  BY <1>1 DEF Request
<1>3. req' = [req EXCEPT ![c] = r] /\ UNCHANGED <<backend, up, mem, saving>>
  BY DEF HangUp, storeVars
<1> HIDE DEF r
<1>4. Fit(r)
  BY <1>1, <1>2 DEF Fit
<1>5. \A q \in Procs : saving[q].by # c
  BY NotFlushing DEF BaseInv, HangUp
<1>6. HandlerInv' /\ FlushInv'
  BY <1>2, <1>3, <1>4, <1>5, RequestMoves DEF BaseInv
<1> QED BY <1>3, <1>6, BaseFromHandler DEF HangUp

LEMMA EndRunKeepsBase ==
  ASSUME BaseInv, SubInv', NEW c \in Clients, NEW s \in Final, EndRun(c, s)
  PROVE  BaseInv'
<1> DEFINE r == [req[c] EXCEPT !.pc = "saveFinal", !.status = s]
<1>1. req[c] \in Request /\ Fit(req[c])
  BY DEF BaseInv, SubInv, RequestsInv, HandlerInv
<1>2. r \in Request /\ r.proc = req[c].proc /\ r.kind = req[c].kind
  BY <1>1 DEF Request, Steps, RunStatuses, Final
<1>3. req' = [req EXCEPT ![c] = r] /\ UNCHANGED <<backend, up, mem, saving>> /\ req[c].pc = "executing"
  BY DEF EndRun, storeVars
<1> HIDE DEF r
<1>4. Fit(r)
  BY <1>1, <1>2, <1>3 DEF Fit
<1>5. \A q \in Procs : saving[q].by # c
  BY <1>3, NotFlushing DEF BaseInv, SaveSteps
<1>6. HandlerInv' /\ FlushInv'
  BY <1>2, <1>3, <1>4, <1>5, RequestMoves DEF BaseInv
<1> QED BY <1>3, <1>6, BaseFromHandler DEF EndRun

LEMMA ReadWorkflowKeepsBase ==
  ASSUME BaseInv, SubInv', NEW c \in Clients, ReadWorkflow(c)
  PROVE  BaseInv'
<1>1. UNCHANGED <<backend, up, mem, saving, queue, worker>> /\ req[c].pc = "readWorkflow" /\ req[c].pc \notin SaveSteps
  BY DEF ReadWorkflow, storeVars, SaveSteps
<1>2. incidents \subseteq incidents'
  BY HappensGrows DEF ReadWorkflow
<1>3. HandlerInv' /\ FlushInv'
  <2>1. CASE Answers(c)
    BY <1>1, <2>1, AnswersMoves DEF BaseInv
  <2>2. CASE ~Answers(c)
    <3> DEFINE e == req[c].edits \cup StoreOf(req[c].proc).workflow
               r == [req[c] EXCEPT !.pc = "saveWorkflow", !.edits = e]
    <3>1. req[c] \in Request /\ Fit(req[c]) /\ req[c].proc \in Procs
      BY <1>1 DEF BaseInv, SubInv, RequestsInv, HandlerInv
    <3>2. e \in SUBSET Fields
      BY <3>1, StoreIsDocument DEF Document, Request, BaseInv, SubInv
    <3> HIDE DEF e
    <3>3. r \in Request /\ r.proc = req[c].proc /\ r.kind = req[c].kind
      BY <3>1, <3>2 DEF Request, Steps
    <3>4. req' = [req EXCEPT ![c] = r]
      BY <2>2 DEF ReadWorkflow, e
    <3> HIDE DEF r
    <3>5. Fit(r)
      BY <1>1, <3>1, <3>3 DEF Fit
    <3> QED BY <1>1, <3>3, <3>4, <3>5, NotFlushing, RequestMoves DEF BaseInv
  <2> QED BY <2>1, <2>2
<1> QED BY <1>1, <1>2, <1>3, BaseFromHandler

LEMMA LookupKeepsBase ==
  ASSUME BaseInv, SubInv', NEW c \in Clients, LookupRun(c) \/ LookupFails(c) \/ LookupJob(c)
  PROVE  BaseInv'
<1>1. UNCHANGED <<backend, up, mem, saving, queue, worker>>
  BY DEF LookupRun, LookupFails, LookupJob, storeVars
<1>2. incidents \subseteq incidents'
  BY HappensGrows DEF LookupRun, LookupFails, LookupJob
<1>3. req[c].pc \in {"lookup", "lookupJob"}
  BY DEF LookupRun, LookupFails, LookupJob
<1>4. req[c].kind # "put"
  BY <1>3 DEF BaseInv, HandlerInv, Fit
<1>5. Answers(c) \/ Goes(c, "saveRunning") \/ Goes(c, "lookupJob") \/ Goes(c, "enqueue")
  BY DEF LookupRun, LookupFails, LookupJob, Proceeds
<1>6. HandlerInv' /\ FlushInv'
  BY <1>1, <1>3, <1>4, <1>5, AnswersMoves, GoesMoves DEF BaseInv, Steps, SaveSteps
<1> QED BY <1>1, <1>2, <1>6, BaseFromHandler

LEMMA EnqueueKeepsBase ==
  ASSUME BaseInv, SubInv', NEW c \in Clients, Enqueue(c)
  PROVE  BaseInv'
<1>1. UNCHANGED <<backend, up, mem, saving, worker, incidents>> /\ req[c].pc = "enqueue"
  BY DEF Enqueue, storeVars
<1>2. HandlerInv' /\ FlushInv'
  BY <1>1, AnswersMoves DEF BaseInv, SaveSteps, Enqueue
<1> QED BY <1>1, <1>2, BaseFromHandler

(* What a save of c stores. *)
LEMMA SavedHolds ==
  ASSUME SubInv, NEW c \in Clients, req[c].pc \in SaveSteps
  PROVE  /\ req[c].pc = "saveRunning" => Saved(c).runs[req[c].key] = "RUNNING"
         /\ req[c].pc = "saveFinal" => Saved(c).runs[req[c].key] = req[c].status
         /\ req[c].pc = "saveWorkflow" => Saved(c).workflow = req[c].edits
<1>1. req[c].proc \in Procs /\ req[c].key \in Keys
  BY RequestFields DEF SubInv, SaveSteps
<1>2. StoreOf(req[c].proc) \in Document
  BY <1>1, StoreIsDocument DEF SubInv
<1> QED BY <1>1, <1>2 DEF Saved, Document

LEMMA FileSaveKeepsBase ==
  ASSUME BaseInv, SubInv', NEW c \in Clients, FileSave(c)
  PROVE  BaseInv'
<1> DEFINE p == req[c].proc
           new == [by |-> c, step |-> "open", mixed |-> FALSE]
<1>1. p \in Procs /\ req[c].pc \in SaveSteps
  BY RequestFields DEF FileSave, SaveSteps, BaseInv, SubInv
<1>2. /\ \A q \in Procs : mem'[q] = IF q = p THEN Saved(c) ELSE mem[q]
      /\ \A q \in Procs : saving'[q] = IF q = p THEN new ELSE saving[q]
      /\ saving[p].step = "none"
  BY <1>1 DEF FileSave, Saves, Unlocked, BaseInv, SubInv, StoreInv, StoreTypeOK
<1>3. UNCHANGED <<backend, up, req, queue, worker, incidents>>
  BY DEF FileSave
<1>4. HandlerInv'
  BY <1>3 DEF BaseInv, HandlerInv, Fit
<1>5. ASSUME NEW q \in Procs, NEW d \in Clients, saving'[q].by = d PROVE Holds(q, d)'
  <2>1. CASE q = p
    <3>1. d = c /\ mem'[q] = Saved(c)
      BY <1>2, <1>5, <2>1
    <3> QED BY <1>1, <1>3, <2>1, <3>1, SavedHolds DEF Holds, BaseInv
  <2>2. CASE q # p
    <3>1. Holds(q, d)
      BY <1>2, <1>5, <2>2 DEF BaseInv, FlushInv
    <3> QED BY <1>2, <1>3, <2>2, <3>1 DEF Holds
  <2> QED BY <2>1, <2>2
<1>6. ASSUME NEW q \in Procs
      PROVE  /\ (saving'[q].step = "none" <=> saving'[q].by = "nobody")
             /\ saving'[q].by = "main" => up'[q] = "booting"
  BY <1>2, <1>3, StoreAssumption DEF BaseInv, FlushInv
<1>7. FlushInv'
  BY <1>5, <1>6 DEF FlushInv
<1> QED BY <1>3, <1>4, <1>7, BaseFromHandler

LEMMA ResumesMoves ==
  ASSUME BaseInv, NEW c \in Clients, NEW ok \in BOOLEAN, Resumes(c, ok), req[c].pc \in SaveSteps,
         UNCHANGED up
  PROVE  \E r \in Request :
            /\ req' = [req EXCEPT ![c] = r]
            /\ Fit(r)
            /\ IF req[c].pc = "saveRunning" THEN r.pc = "executing" /\ r.key = req[c].key ELSE r = NoRequest
<1>1. CASE req[c].pc = "saveRunning"
  <2> DEFINE r == [req[c] EXCEPT !.pc = "executing"]
  <2>1. req[c] \in Request /\ Fit(req[c])
    BY DEF BaseInv, SubInv, RequestsInv, HandlerInv
  <2>2. r \in Request /\ r.kind = req[c].kind /\ r.proc = req[c].proc /\ r.pc = "executing" /\ r.key = req[c].key
    BY <2>1 DEF Request, Steps
  <2>3. Fit(r)
    BY <1>1, <2>1, <2>2 DEF Fit
  <2>4. req' = [req EXCEPT ![c] = r]
    BY <1>1 DEF Resumes, Goes
  <2> HIDE DEF r
  <2> QED BY <1>1, <2>2, <2>3, <2>4
<1>2. CASE req[c].pc # "saveRunning"
  <2>1. Fit(NoRequest) /\ NoRequest \in Request
    BY NoRequestTyped DEF Fit, NoRequest
  <2>2. req' = [req EXCEPT ![c] = NoRequest]
    BY <1>2 DEF Resumes, Answers
  <2> QED BY <1>2, <2>1, <2>2
<1> QED BY <1>1, <1>2

LEMMA SqlSaveKeepsBase ==
  ASSUME BaseInv, SubInv', NEW c \in Clients, SqlSave(c) \/ SqlSaveFails(c)
  PROVE  BaseInv'
<1>1. UNCHANGED <<backend, up, mem, saving, queue, worker>> /\ req[c].pc \in SaveSteps /\ backend = "sqlite"
  BY DEF SqlSave, SqlSaveFails, Saves, Resumes, storeVars
<1>2. incidents \subseteq incidents'
  BY HappensGrows DEF SqlSave, SqlSaveFails, Resumes
<1>3. HandlerInv' /\ FlushInv'
  <2>1. CASE Answers(c)
    BY <1>1, <2>1, AnswersMoves DEF BaseInv
  <2>2. ASSUME NEW ok \in BOOLEAN, Resumes(c, ok) PROVE HandlerInv' /\ FlushInv'
    <3>1. PICK r \in Request : req' = [req EXCEPT ![c] = r] /\ Fit(r)
      BY <1>1, <2>2, ResumesMoves
    <3> QED BY <1>1, <3>1, NotFlushing, RequestMoves DEF BaseInv
  <2> QED BY <2>1, <2>2 DEF SqlSave, SqlSaveFails
<1> QED BY <1>1, <1>2, <1>3, BaseFromHandler

LEMMA HandlingKeepsBase ==
  ASSUME BaseInv, SubInv', NEW c \in Clients, Handling(c)
  PROVE  BaseInv'
BY LookupKeepsBase, EnqueueKeepsBase, FileSaveKeepsBase, SqlSaveKeepsBase, EndRunKeepsBase, ReadWorkflowKeepsBase
   DEF Handling

LEMMA BackstageKeepsBase ==
  ASSUME BaseInv, SubInv', Backstage
  PROVE  BaseInv'
<1>1. UNCHANGED <<backend, up, mem, saving, req, incidents>>
  BY BackstageFrame
<1>2. HandlerInv' /\ FlushInv'
  BY <1>1 DEF BaseInv, HandlerInv, Fit, FlushInv, Holds
<1> QED BY <1>1, <1>2, BaseFromHandler

LEMMA BootKeepsBase ==
  ASSUME BaseInv, SubInv', NEW p \in Procs, BootProcess(p)
  PROVE  BaseInv'
<1> DEFINE new == [by |-> "main", step |-> "open", mixed |-> FALSE]
<1>1. UNCHANGED <<backend, req, queue, worker>> /\ up[p] = "down"
  BY DEF BootProcess, Boot
<1>2. \A q \in Procs : up'[q] = IF q = p THEN (IF backend = "file" THEN "booting" ELSE "up") ELSE up[q]
  BY DEF BootProcess, Boot, BaseInv, SubInv, StoreInv, StoreTypeOK
<1>3. HandlerInv'
  BY <1>1, <1>2 DEF BaseInv, HandlerInv, Fit, SubInv, RequestsInv
<1>4. \A q \in Procs : q # p => mem'[q] = mem[q] /\ saving'[q] = saving[q]
  BY DEF BootProcess, Boot, Saves, BaseInv, SubInv, StoreInv, StoreTypeOK
<1>5. IF backend = "file" THEN saving'[p] = new ELSE saving'[p] = saving[p] /\ saving[p].by = "nobody"
  BY DEF BootProcess, Boot, Saves, Unlocked, BaseInv, SubInv, StoreInv, StoreTypeOK, FlushInv
<1>6. ASSUME NEW q \in Procs, NEW d \in Clients, saving'[q].by = d PROVE Holds(q, d)'
  <2>1. q # p
    BY <1>5, <1>6, StoreAssumption
  <2>2. Holds(q, d)
    BY <1>4, <1>6, <2>1 DEF BaseInv, FlushInv
  <2> QED BY <1>1, <1>4, <2>1, <2>2 DEF Holds
<1>7. ASSUME NEW q \in Procs
      PROVE  /\ (saving'[q].step = "none" <=> saving'[q].by = "nobody")
             /\ saving'[q].by = "main" => up'[q] = "booting"
  BY <1>2, <1>4, <1>5 DEF BaseInv, FlushInv
<1>8. FlushInv'
  BY <1>6, <1>7 DEF FlushInv
<1>9. AloneInv'
  BY <1>1, <1>2 DEF BootProcess, Happens, BaseInv, AloneInv
<1> QED BY <1>3, <1>8, <1>9 DEF BaseInv

(* The file is truncated, or main's flush ends. *)
LEMMA FileKeepsBase ==
  ASSUME BaseInv, SubInv', NEW p \in Procs,
         \/ TruncateFile(p)
         \/ BootedProcess(p)
         \/ /\ FileSaveFails(p) /\ saving[p].by = "main" /\ up' = [up EXCEPT ![p] = "down"]
            /\ UNCHANGED <<backend, req, queue, worker, incidents>>
  PROVE  BaseInv'
<1>1. UNCHANGED <<backend, mem, req, queue, worker, incidents>>
  BY DEF TruncateFile, Truncate, BootedProcess, Booted, Written, FileSaveFails, WriteFails, apiVars
<1>2. CASE TruncateFile(p)
  <2>1. UNCHANGED up
    BY <1>2 DEF TruncateFile, Truncate
  <2>2. ASSUME NEW q \in Procs PROVE saving'[q].by = saving[q].by /\ (saving'[q].step = "none" <=> saving[q].step = "none")
    <3>1. saving[q] \in Flush /\ saving[p] \in Flush
      BY DEF BaseInv, SubInv, StoreInv, StoreTypeOK
    <3>2. saving[p].step = "open" /\ \A x \in Writers : saving[x].step = "write"
      BY <1>2 DEF TruncateFile, Truncate, Writers
    <3> QED BY <1>2, <3>1, <3>2 DEF TruncateFile, Truncate, Flush
  <2>3. HandlerInv' /\ FlushInv'
    BY <1>1, <2>1, <2>2 DEF BaseInv, HandlerInv, Fit, FlushInv, Holds
  <2> QED BY <1>1, <2>1, <2>3, AloneKept DEF BaseInv
<1>3. CASE ~TruncateFile(p)
  <2>1. saving[p].by = "main" /\ up[p] = "booting"
    BY <1>3 DEF BootedProcess, Booted, BaseInv, FlushInv
  <2>2. \A q \in Procs : saving'[q] = IF q = p THEN NoFlush ELSE saving[q]
    BY <1>3 DEF BootedProcess, Booted, Written, FileSaveFails, WriteFails, BaseInv, SubInv, StoreInv, StoreTypeOK
  <2>3. \A q \in Procs : q # p => up'[q] = up[q]
    BY <1>3 DEF BootedProcess, Booted, BaseInv, SubInv, StoreInv, StoreTypeOK
  <2>4. HandlerInv'
    BY <1>1, <2>1, <2>3 DEF BaseInv, HandlerInv, Fit, SubInv, RequestsInv
  <2>5. ASSUME NEW q \in Procs, NEW d \in Clients, saving'[q].by = d PROVE Holds(q, d)'
    <3>1. q # p
      BY <2>2, <2>5, StoreAssumption DEF NoFlush
    <3>2. Holds(q, d)
      BY <2>2, <2>5, <3>1 DEF BaseInv, FlushInv
    <3> QED BY <1>1, <3>2 DEF Holds
  <2>6. FlushInv'
    BY <2>2, <2>3, <2>5 DEF BaseInv, FlushInv, NoFlush
  <2>7. AloneInv'
    BY <1>1, <2>1, <2>3, AloneKept DEF BaseInv
  <2> QED BY <1>1, <2>4, <2>6, <2>7 DEF BaseInv
<1> QED BY <1>2, <1>3

LEMMA FileResumesKeepsBase ==
  ASSUME BaseInv, SubInv', NEW p \in Procs, NEW c \in Clients, NEW ok \in BOOLEAN, saving[p].by = c,
         Written(p) \/ WriteFails(p), Resumes(c, ok), UNCHANGED <<backend, up>>
  PROVE  BaseInv'
<1>1. req[c].pc \in SaveSteps
  BY DEF BaseInv, FlushInv, Holds
<1>2. PICK r \in Request : req' = [req EXCEPT ![c] = r] /\ Fit(r)
  BY <1>1, ResumesMoves
<1>3. HandlerInv' /\ FlushInv'
  BY <1>2, FlushEnds DEF BaseInv
<1>4. incidents \subseteq incidents' /\ UNCHANGED <<queue, worker>>
  BY HappensGrows DEF Resumes
<1> QED BY <1>3, <1>4, BaseFromHandler

LEMMA KillKeepsBase ==
  ASSUME BaseInv, SubInv', NEW p \in Procs, KillProcess(p)
  PROVE  BaseInv'
<1>1. UNCHANGED <<backend, worker, incidents>>
  BY DEF KillProcess, Killed
<1>2. \A q \in Procs : /\ up'[q] = IF q = p THEN "down" ELSE up[q]
                       /\ mem'[q] = IF q = p THEN Empty ELSE mem[q]
                       /\ saving'[q] = IF q = p THEN NoFlush ELSE saving[q]
  BY DEF KillProcess, Killed, BaseInv, SubInv, StoreInv, StoreTypeOK
<1>3. \A c \in Clients : req'[c] = IF req[c].proc = p THEN NoRequest ELSE req[c]
  BY DEF KillProcess
<1>4. HandlerInv'
  BY <1>2, <1>3 DEF BaseInv, HandlerInv, Fit, NoRequest, SubInv, RequestsInv
<1>5. ASSUME NEW q \in Procs, NEW d \in Clients, saving'[q].by = d PROVE Holds(q, d)'
  <2>1. q # p
    BY <1>2, <1>5, StoreAssumption DEF NoFlush
  <2>2. Holds(q, d)
    BY <1>2, <1>5, <2>1 DEF BaseInv, FlushInv
  <2>3. req'[d] = req[d] /\ mem'[q] = mem[q]
    BY <1>2, <1>3, <2>1, <2>2 DEF Holds
  <2> QED BY <2>2, <2>3 DEF Holds
<1>6. FlushInv'
  BY <1>2, <1>5 DEF BaseInv, FlushInv, NoFlush
<1>7. AloneInv'
  BY <1>1, <1>2, AloneKept DEF BaseInv
<1> QED BY <1>4, <1>6, <1>7 DEF BaseInv

LEMMA ProcessKeepsBase ==
  ASSUME BaseInv, SubInv', NEW p \in Procs,
         \/ BootProcess(p) \/ BootedProcess(p) \/ TruncateFile(p)
         \/ FileSaved(p) \/ FileSaveFails(p) \/ KillProcess(p)
  PROVE  BaseInv'
<1>1. CASE FileSaved(p)
  <2>1. PICK c \in Clients : saving[p].by = c /\ Written(p) /\ Resumes(c, TRUE) /\ UNCHANGED <<backend, up, faults>>
    BY <1>1 DEF FileSaved
  <2> QED BY <2>1, FileResumesKeepsBase
<1>2. CASE FileSaveFails(p)
  <2>1. CASE \E c \in Clients : saving[p].by = c /\ Resumes(c, FALSE) /\ UNCHANGED <<backend, up>>
    <3>1. PICK c \in Clients : saving[p].by = c /\ Resumes(c, FALSE) /\ UNCHANGED <<backend, up>>
      BY <2>1
    <3>2. WriteFails(p)
      BY <1>2 DEF FileSaveFails
    <3> QED BY <3>1, <3>2, FileResumesKeepsBase
  <2>2. CASE /\ saving[p].by = "main" /\ up' = [up EXCEPT ![p] = "down"]
             /\ UNCHANGED <<backend, req, queue, worker, incidents>>
    BY <1>2, <2>2, FileKeepsBase
  <2> QED BY <1>2, <2>1, <2>2 DEF FileSaveFails
<1> QED BY <1>1, <1>2, BootKeepsBase, FileKeepsBase, KillKeepsBase

LEMMA BaseStep == BaseInv /\ [SubNext]_subVars => BaseInv'
<1> SUFFICES ASSUME BaseInv, [SubNext]_subVars PROVE BaseInv'
  OBVIOUS
<1>1. SubInv'
  BY StepTyped DEF BaseInv
<1>2. CASE UNCHANGED subVars
  <2>1. UNCHANGED <<backend, up, mem, disk, saving, req, queue, worker, incidents>>
    BY <1>2 DEF subVars, apiVars, storeVars
  <2>2. HandlerInv' /\ FlushInv'
    BY <2>1 DEF BaseInv, HandlerInv, Fit, FlushInv, Holds
  <2> QED BY <1>1, <2>1, <2>2, BaseFromHandler
<1>3. CASE SubNext
  BY <1>1, <1>3, PostKeepsBase, HandlingKeepsBase, HangUpKeepsBase, BackstageKeepsBase, ProcessKeepsBase
     DEF SubNext, Posting, Backstage
<1> QED BY <1>2, <1>3

LEMMA BaseInit == SubInit => BaseInv
<1> SUFFICES ASSUME SubInit PROVE BaseInv
  OBVIOUS
<1>1. SubInv
  BY InitTyped
<1>2. HandlerInv
  BY DEF SubInit, HandlerInv, Fit, NoRequest
<1>3. FlushInv
  BY StoreAssumption DEF SubInit, StoreInit, FlushInv, NoFlush
<1>4. AloneInv
  BY DEF SubInit, StoreInit, AloneInv
<1> QED BY <1>1, <1>2, <1>3, <1>4 DEF BaseInv

-----------------------------------------------------------------------------
(* What the stores show of a key *)

(* Every process that has started finds a status of V for k, and so does    *)
(* one that starts later, unless the file is torn.                          *)
Shows(k, V) ==
    /\ disk # Torn => disk \in Document /\ disk.runs[k] \in V
    /\ \A p \in Procs : up[p] # "down" => StoreOf(p).runs[k] \in V

Executing == {"saveRunning", "executing", "saveFinal"}
Executes(c, k) == req[c].key = k /\ req[c].pc \in Executing
Enqueues(c, k) == req[c].key = k /\ req[c].pc \in {"lookupJob", "enqueue"}

(* Whatever is being executed for k, its saves are in V. *)
Admits(k, V) ==
    /\ \A c \in Clients :
        Executes(c, k) => /\ req[c].pc = "saveRunning" => "RUNNING" \in V
                          /\ req[c].pc = "saveFinal" => req[c].status \in V
    /\ worker.pc # "poll" /\ worker.key = k => "RUNNING" \in V /\ Final \subseteq V

LEMMA SavedRuns ==
  ASSUME SubInv, NEW c \in Clients, req[c].pc \in SaveSteps, NEW k \in Keys
  PROVE  \/ Saved(c).runs[k] = StoreOf(req[c].proc).runs[k]
         \/ req[c].key = k /\ req[c].pc = "saveRunning" /\ Saved(c).runs[k] = "RUNNING"
         \/ req[c].key = k /\ req[c].pc = "saveFinal" /\ Saved(c).runs[k] = req[c].status
<1>1. req[c].proc \in Procs /\ req[c].key \in Keys
  BY RequestFields DEF SubInv, SaveSteps
<1>2. StoreOf(req[c].proc) \in Document
  BY <1>1, StoreIsDocument DEF SubInv
<1> QED BY <1>1, <1>2 DEF Saved, Document

LEMMA SavesShows ==
  ASSUME SubInv, NEW p \in Procs, NEW o, NEW d \in Document, Saves(p, o, d), UNCHANGED backend,
         NEW k \in Keys, NEW V, Shows(k, V), d.runs[k] \in V, \A q \in Procs : q # p => up'[q] = up[q]
  PROVE  Shows(k, V)'
<1>1. CASE backend = "file"
  <2>1. \A q \in Procs : mem'[q] = IF q = p THEN d ELSE mem[q]
    BY <1>1 DEF Saves, SubInv, StoreInv, StoreTypeOK
  <2>2. disk' = disk /\ backend' = "file"
    BY <1>1 DEF Saves
  <2> QED BY <1>1, <2>1, <2>2 DEF Shows, StoreOf
<1>2. CASE backend # "file"
  <2>1. disk' = d /\ backend' # "file"
    BY <1>2 DEF Saves
  <2> QED BY <2>1 DEF Shows, StoreOf
<1> QED BY <1>1, <1>2

LEMMA HandlerSavesShows ==
  ASSUME BaseInv, NEW c \in Clients, req[c].pc \in SaveSteps, Saves(req[c].proc, c, Saved(c)),
         UNCHANGED <<backend, up>>, NEW k \in Keys, NEW V, Shows(k, V), Admits(k, V)
  PROVE  Shows(k, V)'
<1>1. req[c].proc \in Procs /\ up[req[c].proc] = "up" /\ Saved(c) \in Document
  BY RequestFields, SavedIsDocument DEF BaseInv, SubInv, HandlerInv, Fit, SaveSteps
<1>2. StoreOf(req[c].proc).runs[k] \in V
  BY <1>1 DEF Shows
<1>3. Saved(c).runs[k] \in V
  BY <1>2, SavedRuns DEF BaseInv, Admits, Executes, Executing
<1> QED BY <1>1, <1>3, SavesShows DEF BaseInv

LEMMA StoreShows ==
  ASSUME UNCHANGED <<backend, mem, disk>>, NEW k \in Keys, NEW V, Shows(k, V),
         \A p \in Procs : up'[p] # "down" => up[p] # "down"
  PROVE  Shows(k, V)'
BY DEF Shows, StoreOf

LEMMA WrittenShows ==
  ASSUME BaseInv, NEW p \in Procs, Written(p) \/ WriteFails(p), UNCHANGED backend,
         NEW k \in Keys, NEW V, Shows(k, V), \A q \in Procs : up'[q] # "down" => up[q] # "down"
  PROVE  Shows(k, V)'
<1>1. saving[p].by # "nobody" /\ saving[p] \in Flush /\ backend = "file"
  BY StoreAssumption DEF Written, WriteFails, BaseInv, SubInv, StoreInv, StoreTypeOK, FlushInv
<1>2. up[p] # "down"
  <2>1. CASE saving[p].by = "main"
    BY <2>1 DEF BaseInv, FlushInv
  <2>2. CASE saving[p].by \in Clients
    <3>1. Holds(p, saving[p].by)
      BY <2>2 DEF BaseInv, FlushInv
    <3> QED BY <2>2, <3>1 DEF Holds, SaveSteps, BaseInv, HandlerInv, Fit
  <2> QED BY <1>1, <2>1, <2>2 DEF Flush
<1>3. mem[p] \in Document /\ mem[p].runs[k] \in V
  BY <1>1, <1>2 DEF BaseInv, SubInv, StoreInv, StoreTypeOK, Shows, StoreOf
<1>4. UNCHANGED mem /\ disk' \in {disk, mem[p], Torn}
  BY DEF Written, WriteFails
<1> QED BY <1>1, <1>3, <1>4 DEF Shows, StoreOf

LEMMA BootShows ==
  ASSUME BaseInv, NEW p \in Procs, BootProcess(p), NEW k \in Keys, NEW V, Shows(k, V)
  PROVE  Shows(k, V)'
<1> DEFINE d == [Loaded EXCEPT !.workflow = {}]
<1>1. disk \in Document /\ disk.runs[k] \in V
  BY DEF BootProcess, Boot, Shows
<1>2. Loaded = disk
  BY <1>1, StoreAssumption DEF Loaded
<1>3. d \in Document /\ d.runs[k] \in V
  BY <1>1, <1>2 DEF Document
<1>4. \A q \in Procs : q # p => up'[q] = up[q]
  BY DEF BootProcess, Boot, BaseInv, SubInv, StoreInv, StoreTypeOK
<1>5. Saves(p, "main", d) /\ UNCHANGED backend
  BY DEF BootProcess, Boot
<1> HIDE DEF d
<1> QED BY <1>3, <1>4, <1>5, SavesShows DEF BaseInv

LEMMA WorkerShows ==
  ASSUME BaseInv, Backstage, NEW k \in Keys, NEW V, Shows(k, V), Admits(k, V)
  PROVE  Shows(k, V)'
<1>1. UNCHANGED <<backend, up, mem>>
  BY BackstageFrame
<1>2. ASSUME worker.pc # "poll", NEW s \in {"RUNNING"} \cup Final, disk' = [disk EXCEPT !.runs[worker.key] = s]
      PROVE  Shows(k, V)'
  <2>1. backend = "sqlite" /\ worker.key \in Keys /\ disk \in Document
    BY <1>2 DEF WorkInv, StoreInv, Work, BaseInv, SubInv
  <2>2. disk.runs[k] \in V
    BY <2>1, StoreAssumption DEF Shows
  <2>3. disk' \in Document
    BY <1>2, <2>1, RunReplaced DEF RunStatuses, Final
  <2>4. disk'.runs[k] = IF worker.key = k THEN s ELSE disk.runs[k]
    BY <1>2, <2>1 DEF Document
  <2>5. disk'.runs[k] \in V
    BY <1>2, <2>2, <2>4 DEF Admits
  <2> QED BY <1>1, <2>1, <2>3, <2>5 DEF Shows, StoreOf
<1>3. CASE UNCHANGED disk
  BY <1>1, <1>3, StoreShows
<1> QED BY <1>2, <1>3, BackstageDisk

LEMMA KillShows ==
  ASSUME BaseInv, NEW p \in Procs, KillProcess(p), NEW k \in Keys, NEW V, Shows(k, V)
  PROVE  Shows(k, V)'
<1>1. UNCHANGED <<backend, disk>>
  BY DEF KillProcess, Killed
<1>2. \A q \in Procs : /\ up'[q] = IF q = p THEN "down" ELSE up[q]
                       /\ mem'[q] = IF q = p THEN Empty ELSE mem[q]
  BY DEF KillProcess, Killed, BaseInv, SubInv, StoreInv, StoreTypeOK
<1> QED BY <1>1, <1>2 DEF Shows, StoreOf

LEMMA ProcessShows ==
  ASSUME BaseInv, NEW k \in Keys, NEW V, Shows(k, V), NEW p \in Procs,
         \/ BootProcess(p) \/ BootedProcess(p) \/ TruncateFile(p)
         \/ FileSaved(p) \/ FileSaveFails(p) \/ KillProcess(p)
  PROVE  Shows(k, V)'
<1>1. CASE TruncateFile(p)
  <2>1. disk' = Torn /\ UNCHANGED <<backend, up, mem>> /\ backend = "file"
    BY <1>1, StoreAssumption DEF TruncateFile, Truncate, BaseInv, SubInv, StoreInv, StoreTypeOK
  <2> QED BY <2>1 DEF Shows, StoreOf
<1>2. CASE BootedProcess(p)
  <2>1. up[p] # "down"
    BY <1>2 DEF BootedProcess, Booted, BaseInv, FlushInv
  <2>2. \A q \in Procs : up'[q] # "down" => up[q] # "down"
    BY <1>2, <2>1 DEF BootedProcess, Booted, BaseInv, SubInv, StoreInv, StoreTypeOK
  <2> QED BY <1>2, <2>2, WrittenShows DEF BootedProcess, Booted
<1>3. CASE FileSaved(p) \/ FileSaveFails(p)
  <2>1. (Written(p) \/ WriteFails(p)) /\ UNCHANGED backend
    BY <1>3 DEF FileSaved, FileSaveFails
  <2>2. up' = up \/ up' = [up EXCEPT ![p] = "down"]
    BY <1>3 DEF FileSaved, FileSaveFails
  <2>3. \A q \in Procs : up'[q] # "down" => up[q] # "down"
    BY <2>2 DEF BaseInv, SubInv, StoreInv, StoreTypeOK
  <2> QED BY <2>1, <2>3, WrittenShows
<1> QED BY <1>1, <1>2, <1>3, BootShows, KillShows

(* Only a save of a run of k changes what the stores show of k. *)
LEMMA StepShows ==
  ASSUME BaseInv, SubNext, NEW k \in Keys, NEW V, Shows(k, V), Admits(k, V)
  PROVE  Shows(k, V)'
<1>1. CASE UNCHANGED storeVars
  BY <1>1, StoreShows DEF storeVars
<1>2. ASSUME NEW c \in Clients, FileSave(c) \/ SqlSave(c) PROVE Shows(k, V)'
  BY <1>2, HandlerSavesShows DEF FileSave, SqlSave
<1>3. Posting => UNCHANGED storeVars
  BY DEF Posting, Post
<1>4. \A c \in Clients : LookupRun(c) \/ LookupFails(c) \/ LookupJob(c) \/ Enqueue(c) \/ SqlSaveFails(c)
                            \/ ReadWorkflow(c) \/ HangUp(c) \/ (\E s \in Final : EndRun(c, s)) => UNCHANGED storeVars
  BY DEF LookupRun, LookupFails, LookupJob, Enqueue, SqlSaveFails, ReadWorkflow, HangUp, EndRun
<1>5. CASE Working \/ Interrupting
  BY <1>5, WorkerShows DEF Backstage
<1>6. ASSUME NEW c \in Clients, Handling(c) \/ HangUp(c) PROVE Shows(k, V)'
  BY <1>1, <1>2, <1>4, <1>6 DEF Handling
<1> QED BY <1>1, <1>3, <1>5, <1>6, ProcessShows DEF SubNext

-----------------------------------------------------------------------------
(* One execution of a key at a time *)

(* Whoever executes k is alone with it; once its end was told nobody works  *)
(* on k any more, and every store shows the end.                            *)
KeyFact(k) ==
    /\ \A c \in Clients :
        Executes(c, k) => /\ \A d \in Clients \ {c} : ~Executes(d, k) /\ ~Enqueues(d, k)
                          /\ ~Owed(k)
    /\ told[k] # "none" => /\ \A c \in Clients : ~Executes(c, k) /\ ~Enqueues(c, k)
                           /\ ~Owed(k)
                           /\ Shows(k, {told[k]})

KeyInv == Spared({"overlap", "strangers", "misread"}) => \A k \in Keys : KeyFact(k)

(* A step after which nobody is at work on k who was not before. *)
Calm(k) ==
    /\ \A c \in Clients : /\ Executes(c, k)' => Executes(c, k)
                          /\ Enqueues(c, k)' => Enqueues(c, k)
    /\ Owed(k)' => Owed(k) \/ \E c \in Clients : Enqueues(c, k)

LEMMA CalmMove ==
  ASSUME SubInv, NEW c \in Clients, NEW r, req' = [req EXCEPT ![c] = r], UNCHANGED <<queue, worker>>,
         r.pc \in Executing => req[c].pc \in Executing /\ r.key = req[c].key,
         r.pc \in {"lookupJob", "enqueue"} => req[c].pc \in {"lookupJob", "enqueue"} /\ r.key = req[c].key,
         NEW k \in Keys
  PROVE  Calm(k)
<1>1. \A d \in Clients : req'[d] = IF d = c THEN r ELSE req[d]
  BY DEF SubInv, RequestsInv
<1>2. \A d \in Clients : /\ Executes(d, k)' => Executes(d, k)
                         /\ Enqueues(d, k)' => Enqueues(d, k)
  BY <1>1 DEF Executes, Enqueues
<1>3. Owed(k)' => Owed(k)
  BY DEF Owed
<1> QED BY <1>2, <1>3 DEF Calm

LEMMA CalmAnswer ==
  ASSUME SubInv, NEW c \in Clients, Answers(c), UNCHANGED <<queue, worker>>, NEW k \in Keys
  PROVE  Calm(k)
BY CalmMove, NoRequestTyped DEF Answers, Executing

LEMMA CalmRest ==
  ASSUME UNCHANGED <<req, queue, worker>>, NEW k \in Keys
  PROVE  Calm(k)
BY DEF Calm, Executes, Enqueues, Owed

LEMMA CalmResume ==
  ASSUME BaseInv, NEW c \in Clients, NEW ok \in BOOLEAN, Resumes(c, ok), req[c].pc \in SaveSteps,
         UNCHANGED up, NEW k \in Keys
  PROVE  Calm(k)
<1>1. PICK r \in Request :
        /\ req' = [req EXCEPT ![c] = r]
        /\ IF req[c].pc = "saveRunning" THEN r.pc = "executing" /\ r.key = req[c].key ELSE r = NoRequest
  BY ResumesMoves
<1>2. r.pc \in Executing => req[c].pc \in Executing /\ r.key = req[c].key
  BY <1>1, NoRequestTyped DEF Executing
<1>3. r.pc \notin {"lookupJob", "enqueue"}
  BY <1>1, NoRequestTyped
<1>4. UNCHANGED <<queue, worker>>
  BY DEF Resumes
<1> QED BY <1>1, <1>2, <1>3, <1>4, CalmMove DEF BaseInv

LEMMA CalmPost ==
  ASSUME BaseInv, NEW c \in Clients, NEW p \in Procs, NEW kind \in Kinds, NEW j \in Keys,
         NEW f \in Fields, Post(c, p, kind, j, f), NEW k \in Keys
  PROVE  Calm(k)
<1>1. PICK r \in Request : req' = [req EXCEPT ![c] = r] /\ r.pc \in {"lookup", "readWorkflow", "saveWorkflow"}
  <2> DEFINE r == [NoRequest EXCEPT
                 !.kind = kind, !.proc = p, !.key = j,
                 !.edits = IF kind = "patch" THEN {f} ELSE {},
                 !.pc = CASE kind \in {"sync", "async"} -> "lookup"
                          [] kind = "patch" -> "readWorkflow"
                          [] OTHER -> "saveWorkflow"]
  <2>1. r \in Request /\ r.pc \in {"lookup", "readWorkflow", "saveWorkflow"}
    BY NoRequestTyped DEF Request, Steps
  <2>2. req' = [req EXCEPT ![c] = r]
    BY DEF Post
  <2> HIDE DEF r
  <2> QED BY <2>1, <2>2
<1>2. r.pc \notin Executing /\ r.pc \notin {"lookupJob", "enqueue"} /\ UNCHANGED <<queue, worker>>
  BY <1>1 DEF Executing, Post
<1> QED BY <1>1, <1>2, CalmMove DEF BaseInv

(* Steps of a handler other than GetRun. *)
LEMMA CalmHandler ==
  ASSUME BaseInv, NEW c \in Clients, Handling(c) \/ HangUp(c), ~LookupRun(c), ~LookupFails(c), NEW k \in Keys
  PROVE  Calm(k)
<1>0. req[c] \in Request
  BY DEF BaseInv, SubInv, RequestsInv
<1>1. CASE LookupJob(c)
  <2>1. CASE Answers(c)
    BY <1>1, <2>1, CalmAnswer DEF LookupJob, BaseInv
  <2>2. CASE Goes(c, "enqueue")
    <3> DEFINE r == [req[c] EXCEPT !.pc = "enqueue"]
    <3>1. r.pc = "enqueue" /\ r.key = req[c].key
      BY <1>0 DEF Request
    <3>2. req' = [req EXCEPT ![c] = r] /\ UNCHANGED <<queue, worker>> /\ req[c].pc = "lookupJob"
      BY <1>1, <2>2 DEF LookupJob, Goes
    <3> HIDE DEF r
    <3> QED BY <3>1, <3>2, CalmMove DEF Executing, BaseInv
  <2> QED BY <1>1, <2>1, <2>2 DEF LookupJob
<1>2. CASE Enqueue(c)
  <2>1. \A d \in Clients : req'[d] = IF d = c THEN NoRequest ELSE req[d]
    BY <1>2 DEF Enqueue, Answers, BaseInv, SubInv, RequestsInv
  <2>2. \A d \in Clients : (Executes(d, k)' => Executes(d, k)) /\ (Enqueues(d, k)' => Enqueues(d, k))
    BY <2>1, NoRequestTyped DEF Executes, Enqueues, Executing
  <2>3. QueueOf(req[c].proc) \in Procs \cup {Shared} /\ req[c].key \in Keys
    BY <1>2, RequestFields DEF Enqueue, QueueOf, BaseInv, SubInv
  <2>4. CASE req[c].key = k
    BY <1>2, <2>2, <2>4 DEF Calm, Enqueue, Enqueues
  <2>5. CASE req[c].key # k
    <3>1. \A q \in Procs \cup {Shared} : queue'[q][k] = queue[q][k]
      BY <1>2, <2>3, <2>5 DEF Enqueue, BaseInv, SubInv, WorkInv
    <3>2. UNCHANGED worker
      BY <1>2 DEF Enqueue
    <3> QED BY <2>2, <3>1, <3>2 DEF Calm, Owed
  <2> QED BY <2>4, <2>5
<1>3. CASE FileSave(c)
  BY <1>3, CalmRest DEF FileSave
<1>4. CASE SqlSave(c) \/ SqlSaveFails(c)
  <2>1. req[c].pc \in SaveSteps /\ UNCHANGED up
    BY <1>4 DEF SqlSave, SqlSaveFails, storeVars
  <2>2. CASE Answers(c) /\ UNCHANGED <<queue, worker>>
    BY <2>2, CalmAnswer DEF BaseInv
  <2>3. CASE \E ok \in BOOLEAN : Resumes(c, ok)
    BY <2>1, <2>3, CalmResume
  <2> QED BY <1>4, <2>2, <2>3 DEF SqlSave, SqlSaveFails
<1>5. CASE \E s \in Final : EndRun(c, s)
  <2>1. PICK s \in Final : EndRun(c, s)
    BY <1>5
  <2> DEFINE r == [req[c] EXCEPT !.pc = "saveFinal", !.status = s]
  <2>2. r.pc = "saveFinal" /\ r.key = req[c].key
    BY <1>0 DEF Request
  <2>3. req' = [req EXCEPT ![c] = r] /\ UNCHANGED <<queue, worker>> /\ req[c].pc = "executing"
    BY <2>1 DEF EndRun
  <2> HIDE DEF r
  <2> QED BY <2>2, <2>3, CalmMove DEF Executing, BaseInv
<1>6. CASE ReadWorkflow(c)
  <2>1. CASE Answers(c)
    BY <1>6, <2>1, CalmAnswer DEF ReadWorkflow, BaseInv
  <2>2. CASE ~Answers(c)
    <3> DEFINE e == req[c].edits \cup StoreOf(req[c].proc).workflow
               r == [req[c] EXCEPT !.pc = "saveWorkflow", !.edits = e]
    <3>1. r.pc = "saveWorkflow"
      BY <1>0 DEF Request
    <3>2. req' = [req EXCEPT ![c] = r] /\ UNCHANGED <<queue, worker>>
      BY <1>6, <2>2 DEF ReadWorkflow
    <3> HIDE DEF r
    <3> QED BY <3>1, <3>2, CalmMove DEF Executing, BaseInv
  <2> QED BY <2>1, <2>2
<1>7. CASE HangUp(c)
  <2> DEFINE r == [req[c] EXCEPT !.gone = TRUE]
  <2>1. r.pc = req[c].pc /\ r.key = req[c].key
    BY <1>0 DEF Request
  <2>2. req' = [req EXCEPT ![c] = r] /\ UNCHANGED <<queue, worker>>
    BY <1>7 DEF HangUp
  <2> HIDE DEF r
  <2> QED BY <2>1, <2>2, CalmMove DEF BaseInv
<1> QED BY <1>1, <1>2, <1>3, <1>4, <1>5, <1>6, <1>7 DEF Handling

(* The worker is on a job only while it is owed, and brings none into being. *)
LEMMA CalmWorker ==
  ASSUME BaseInv, Backstage, NEW k \in Keys
  PROVE  Calm(k)
<1>1. UNCHANGED req
  BY BackstageFrame
<1>2. worker \in Work /\ worker.key \in Keys
  BY DEF BaseInv, SubInv, WorkInv, Work
<1>3. ASSUME NEW j \in Keys, Owed(j), worker'.pc = "poll" \/ worker'.key = j,
             \A q \in Procs \cup {Shared}, i \in Keys : q # Shared \/ i # j => queue'[q][i] = queue[q][i]
      PROVE  Owed(k)' => Owed(k)
  <2>1. CASE j = k
    BY <1>3, <2>1
  <2>2. CASE j # k
    <3>1. \A q \in Procs \cup {Shared} : queue'[q][k] = queue[q][k]
      BY <1>3, <2>2
    <3> QED BY <1>3, <2>2, <3>1 DEF Owed
  <2> QED BY <2>1, <2>2
<1>4. ASSUME NEW j \in Keys, WorkerLeases(j) PROVE Owed(k)' => Owed(k)
  <2>1. Owed(j)
    BY <1>4 DEF WorkerLeases, Owed
  <2>2. worker'.key = j
    BY <1>4, NoWorkTyped DEF WorkerLeases, Work
  <2>3. \A q \in Procs \cup {Shared}, i \in Keys : q # Shared \/ i # j => queue'[q][i] = queue[q][i]
    BY <1>4 DEF WorkerLeases, BaseInv, SubInv, WorkInv
  <2> QED BY <1>3, <2>1, <2>2, <2>3
<1>5. ASSUME NEW to, Settles(to), worker.pc # "poll" PROVE Owed(k)' => Owed(k)
  <2>1. PICK j \in Keys : j = worker.key
    BY <1>2
  <2>2. Owed(j)
    BY <1>5, <2>1 DEF Owed
  <2>3. worker'.pc = "poll"
    BY <1>5, NoWorkTyped DEF Settles
  <2>4. \A q \in Procs \cup {Shared}, i \in Keys : q # Shared \/ i # j => queue'[q][i] = queue[q][i]
    BY <1>5, <2>1 DEF Settles, BaseInv, SubInv, WorkInv
  <2> QED BY <1>3, <2>2, <2>3, <2>4
<1>6. ASSUME WorkflowMissing \/ WorkerSettles PROVE Owed(k)' => Owed(k)
  BY <1>5, <1>6 DEF WorkflowMissing, WorkerSettles
<1>7. ASSUME WorkerRuns PROVE Owed(k)' => Owed(k)
  <2>1. worker.pc # "poll" /\ worker'.key = worker.key /\ UNCHANGED queue
    BY <1>2, <1>7 DEF WorkerRuns, WorkflowInvalid, WorkerSaves, WorkerSaveFails, WorkerGoes, Work
  <2> QED BY <2>1 DEF Owed
<1>8. ASSUME WorkerDies PROVE Owed(k)' => Owed(k)
  BY <1>8, NoWorkTyped DEF WorkerDies, Owed
<1>9. ASSUME NEW q \in Procs \cup {Shared}, NEW j \in Keys, CancelJob(q, j) PROVE Owed(k)' => Owed(k)
  <2>1. \A r \in Procs \cup {Shared} : queue'[r][k] = queue[r][k] \/ queue'[r][k] = "CANCELLED"
    BY <1>9 DEF CancelJob, BaseInv, SubInv, WorkInv
  <2> QED BY <1>9, <2>1 DEF CancelJob, Owed
<1>10. Owed(k)' => Owed(k)
  BY <1>4, <1>6, <1>7, <1>8, <1>9 DEF Backstage, Working, Interrupting
<1> QED BY <1>1, <1>10 DEF Calm, Executes, Enqueues

LEMMA CalmProcess ==
  ASSUME BaseInv, NEW k \in Keys, NEW p \in Procs,
         \/ BootProcess(p) \/ BootedProcess(p) \/ TruncateFile(p)
         \/ FileSaved(p) \/ FileSaveFails(p) \/ KillProcess(p)
  PROVE  Calm(k)
<1>1. CASE BootProcess(p) \/ BootedProcess(p) \/ TruncateFile(p)
  BY <1>1, CalmRest DEF BootProcess, BootedProcess, TruncateFile, apiVars
<1>2. ASSUME NEW c \in Clients, NEW ok \in BOOLEAN, saving[p].by = c, Resumes(c, ok), UNCHANGED up PROVE Calm(k)
  <2>1. req[c].pc \in SaveSteps
    BY <1>2 DEF BaseInv, FlushInv, Holds
  <2> QED BY <1>2, <2>1, CalmResume
<1>3. CASE FileSaved(p) \/ FileSaveFails(p)
  BY <1>2, <1>3, CalmRest DEF FileSaved, FileSaveFails
<1>4. CASE KillProcess(p)
  <2>1. \A c \in Clients : req'[c] = IF req[c].proc = p THEN NoRequest ELSE req[c]
    BY <1>4 DEF KillProcess
  <2>2. \A c \in Clients : (Executes(c, k)' => Executes(c, k)) /\ (Enqueues(c, k)' => Enqueues(c, k))
    BY <2>1, NoRequestTyped DEF Executes, Enqueues, Executing
  <2>3. \A q \in Procs \cup {Shared} : queue'[q][k] = queue[q][k] \/ queue'[q][k] = "none"
    BY <1>4 DEF KillProcess, BaseInv, SubInv, WorkInv
  <2>4. Owed(k)' => Owed(k)
    BY <1>4, <2>3 DEF KillProcess, Owed
  <2> QED BY <2>2, <2>4 DEF Calm
<1> QED BY <1>1, <1>3, <1>4

(* GetRun by the handler of c: at most one other starts to execute k, and   *)
(* only when nobody else is at work on k and no store shows a run of it.    *)
LEMMA LookupKeepsKey ==
  ASSUME BaseInv, NEW c \in Clients, LookupRun(c), "overlap" \notin incidents',
         NEW k \in Keys, KeyFact(k)
  PROVE  KeyFact(k)'
<1>0. req[c] \in Request /\ req[c].proc \in Procs /\ up[req[c].proc] = "up" /\ req[c].pc = "lookup"
  BY RequestFields DEF LookupRun, BaseInv, SubInv, RequestsInv, HandlerInv, Fit
<1>1. UNCHANGED <<backend, up, mem, disk, queue, worker, told>>
  BY DEF LookupRun, storeVars
<1>2. CASE Calm(k)
  BY <1>1, <1>2, StoreShows DEF KeyFact, Calm, Owed
<1>3. CASE ~Calm(k)
  <2>1. ~Answers(c)
    BY <1>1, <1>3, CalmAnswer DEF BaseInv
  <2>2. StoreOf(req[c].proc).runs[req[c].key] = "none" /\ Proceeds(c) /\ ~Contended(c)
    BY <2>1 DEF LookupRun, Happens
  <2> DEFINE step == IF req[c].kind = "sync" THEN "saveRunning" ELSE "lookupJob"
             r == [req[c] EXCEPT !.pc = step]
  <2>3. r.pc = step /\ r.key = req[c].key /\ req' = [req EXCEPT ![c] = r]
    BY <1>0, <2>2 DEF Proceeds, Goes, Request
  <2> HIDE DEF r
  <2>4. \A d \in Clients : req'[d] = IF d = c THEN r ELSE req[d]
    BY <2>3 DEF BaseInv, SubInv, RequestsInv
  <2>5. req[c].key = k
    <3> SUFFICES ASSUME req[c].key # k PROVE FALSE
      OBVIOUS
    <3>1. \A d \in Clients : (Executes(d, k)' => Executes(d, k)) /\ (Enqueues(d, k)' => Enqueues(d, k))
      BY <2>3, <2>4 DEF Executes, Enqueues
    <3> QED BY <1>1, <1>3, <3>1 DEF Calm, Owed
  <2>6. told[k] = "none"
    <3> SUFFICES ASSUME told[k] # "none" PROVE FALSE
      OBVIOUS
    <3>1. StoreOf(req[c].proc).runs[k] = told[k]
      BY <1>0 DEF KeyFact, Shows
    <3> QED BY <2>2, <2>5, <3>1
  <2>7. \A d \in Clients \ {c} : ~Executes(d, k)
    BY <2>2, <2>5 DEF Contended, Elsewhere, Executes, Executing
  <2>8. \A d \in Clients \ {c} : ~Executes(d, k)' /\ (Enqueues(d, k)' => Enqueues(d, k))
    BY <2>4, <2>7 DEF Executes, Enqueues
  <2>9. Executes(c, k)' => /\ \A d \in Clients \ {c} : ~Enqueues(d, k)
                           /\ ~Owed(k)
    <3>1. Executes(c, k)' => req[c].kind = "sync"
      BY <2>3, <2>4 DEF Executes, Executing
    <3> QED BY <2>2, <2>5, <3>1 DEF Contended, Elsewhere, Enqueues
  <2>10. Owed(k)' => Owed(k)
    BY <1>1 DEF Owed
  <2> QED BY <1>1, <2>6, <2>8, <2>9, <2>10 DEF KeyFact
<1> QED BY <1>2, <1>3

(* What is told is in the store: c was alone with k, and its save is done. *)
ToldNow(c, k) ==
    /\ Executes(c, k) /\ ~Executes(c, k)' /\ ~Enqueues(c, k)'
    /\ Shows(k, {told[k]})'

LEMMA CalmKeepsKey ==
  ASSUME BaseInv, SubNext, NEW k \in Keys, KeyFact(k), Calm(k),
         told'[k] = told[k] \/ \E c \in Clients : ToldNow(c, k)
  PROVE  KeyFact(k)'
<1>0. \A c \in Clients : ~(Executes(c, k) /\ Enqueues(c, k))
  BY DEF Executes, Enqueues, Executing
<1>1. ASSUME NEW c \in Clients, Executes(c, k)'
      PROVE  (\A d \in Clients \ {c} : ~Executes(d, k)' /\ ~Enqueues(d, k)') /\ ~Owed(k)'
  <2>1. Executes(c, k)
    BY <1>1 DEF Calm
  <2>2. /\ \A d \in Clients \ {c} : ~Executes(d, k) /\ ~Enqueues(d, k)
        /\ ~Owed(k)
    BY <2>1 DEF KeyFact
  <2>3. \A d \in Clients : ~Enqueues(d, k)
    BY <1>0, <2>1, <2>2
  <2> QED BY <2>2, <2>3 DEF Calm
<1>2. CASE told'[k] = told[k]
  <2>1. ASSUME told[k] # "none"
        PROVE  /\ \A c \in Clients : ~Executes(c, k)' /\ ~Enqueues(c, k)'
               /\ ~Owed(k)'
    BY <2>1 DEF KeyFact, Calm
  <2>2. ASSUME told[k] # "none" PROVE Shows(k, {told[k]})'
    <3>1. worker.pc = "poll" \/ worker.key # k
      BY <2>2 DEF KeyFact, Owed
    <3>2. Admits(k, {told[k]})
      BY <2>2, <3>1 DEF KeyFact, Admits
    <3> DEFINE V == {told[k]}
    <3>3. Shows(k, V) /\ Admits(k, V)
      BY <2>2, <3>2 DEF KeyFact
    <3> HIDE DEF V
    <3>4. PICK W : W = V
      OBVIOUS
    <3>5. Shows(k, W) /\ Admits(k, W)
      BY <3>3, <3>4
    <3>6. Shows(k, W)'
      BY <3>5, StepShows
    <3> QED BY <1>2, <3>4, <3>6 DEF Shows, V
  <2>3. told'[k] # "none" => Shows(k, {told[k]})'
    BY <1>2, <2>2
  <2> QED BY <1>1, <1>2, <2>1, <2>3 DEF KeyFact
<1>3. CASE \E c \in Clients : ToldNow(c, k)
  <2>1. PICK c \in Clients : ToldNow(c, k)
    BY <1>3
  <2>2. /\ \A d \in Clients \ {c} : ~Executes(d, k) /\ ~Enqueues(d, k)
        /\ ~Owed(k)
    BY <2>1 DEF ToldNow, KeyFact
  <2>3. \A d \in Clients : ~Executes(d, k)' /\ ~Enqueues(d, k)'
    BY <2>1, <2>2 DEF Calm, ToldNow
  <2>4. ~Owed(k)'
    BY <1>0, <2>1, <2>2 DEF Calm, ToldNow
  <2> QED BY <2>1, <2>3, <2>4 DEF KeyFact, ToldNow
<1> QED BY <1>2, <1>3

(* The end of a save by c: another key is not told of, or what c told is    *)
(* what the stores show.                                                    *)
LEMMA TellsInSql ==
  ASSUME BaseInv, SubInv', NEW c \in Clients, SqlSave(c), req[c].kind # "put", NEW k \in Keys
  PROVE  told'[k] = told[k] \/ ToldNow(c, k)
<1> SUFFICES ASSUME told'[k] # told[k] PROVE ToldNow(c, k)
  OBVIOUS
<1>1. Resumes(c, TRUE) /\ backend = "sqlite" /\ disk' = Saved(c) /\ UNCHANGED <<backend, up>> /\ req[c].pc \in SaveSteps
  BY DEF SqlSave, Saves
<1>2. req[c].pc = "saveFinal" /\ req[c].key = k
  BY <1>1, RequestFields DEF Resumes, BaseInv, SubInv, RecordsInv
<1>3. told'[k] = req[c].status
  BY <1>1, <1>2 DEF Resumes, BaseInv, SubInv, RecordsInv
<1>4. Saved(c) \in Document /\ Saved(c).runs[k] = req[c].status
  BY <1>1, <1>2, SavedHolds, SavedIsDocument DEF BaseInv, SubInv
<1>5. Shows(k, {told[k]})'
  BY <1>1, <1>3, <1>4 DEF Shows, StoreOf
<1>6. req'[c] = NoRequest
  BY <1>1, <1>2 DEF Resumes, Answers, BaseInv, SubInv, RequestsInv
<1>7. Executes(c, k) /\ ~Executes(c, k)' /\ ~Enqueues(c, k)'
  BY <1>2, <1>6, NoRequestTyped DEF Executes, Enqueues, Executing
<1> QED BY <1>5, <1>7 DEF ToldNow

LEMMA TellsInFile ==
  ASSUME BaseInv, SubInv', "strangers" \notin incidents, NEW p \in Procs, NEW c \in Clients, saving[p].by = c,
         Written(p), Resumes(c, TRUE), UNCHANGED <<backend, up>>, NEW k \in Keys
  PROVE  told'[k] = told[k] \/ ToldNow(c, k)
<1> SUFFICES ASSUME told'[k] # told[k] PROVE ToldNow(c, k)
  OBVIOUS
<1>1. Holds(p, c)
  BY DEF BaseInv, FlushInv
<1>2. req[c].pc = "saveFinal" /\ req[c].key = k
  BY RequestFields DEF Resumes, BaseInv, SubInv, RecordsInv
<1>3. told'[k] = req[c].status
  BY <1>2 DEF Resumes, BaseInv, SubInv, RecordsInv
<1>4. mem[p].runs[k] = req[c].status /\ mem[p] \in Document /\ req[c].proc = p
  BY <1>1, <1>2 DEF Holds, BaseInv, SubInv, StoreInv, StoreTypeOK
<1>5. backend = "file" /\ up[p] = "up"
  BY <1>2, <1>4, StoreAssumption DEF Written, BaseInv, SubInv, StoreInv, StoreTypeOK, HandlerInv, Fit
<1>6. \A q \in Procs : up[q] # "down" => q = p
  BY <1>5 DEF BaseInv, AloneInv
<1>7. disk' \in {mem[p], Torn} /\ UNCHANGED mem
  BY DEF Written
<1>8. Shows(k, {told[k]})'
  BY <1>3, <1>4, <1>5, <1>6, <1>7 DEF Shows, StoreOf
<1>9. req'[c] = NoRequest
  BY <1>2 DEF Resumes, Answers, BaseInv, SubInv, RequestsInv
<1>10. Executes(c, k) /\ ~Executes(c, k)' /\ ~Enqueues(c, k)'
  BY <1>2, <1>9, NoRequestTyped DEF Executes, Enqueues, Executing
<1> QED BY <1>8, <1>10 DEF ToldNow

LEMMA FailureTellsNothing ==
  ASSUME BaseInv, NEW c \in Clients, Resumes(c, FALSE), NEW k \in Keys
  PROVE  told'[k] = told[k]
BY RequestFields DEF Resumes, BaseInv, SubInv, RecordsInv

LEMMA KeyStep == BaseInv /\ BaseInv' /\ KeyInv /\ [SubNext]_subVars => KeyInv'
<1> SUFFICES ASSUME BaseInv, BaseInv', KeyInv, [SubNext]_subVars,
                    incidents' \cap {"overlap", "strangers", "misread"} = {}, NEW k \in Keys
             PROVE  KeyFact(k)'
  BY DEF KeyInv, Spared
<1>1. CASE UNCHANGED subVars
  <2>1. UNCHANGED <<backend, up, mem, disk, req, queue, worker, told, incidents>>
    BY <1>1 DEF subVars, apiVars, storeVars
  <2>2. KeyFact(k)
    BY <2>1 DEF KeyInv, Spared
  <2> QED BY <2>1, <2>2 DEF KeyFact, Shows, StoreOf, Executes, Enqueues, Owed
<1>2. CASE SubNext
  <2>1. incidents \cap {"overlap", "strangers", "misread"} = {}
    BY <1>2, IncidentsGrow
  <2>2. KeyFact(k) /\ "strangers" \notin incidents /\ SubInv'
    BY <2>1 DEF KeyInv, Spared, BaseInv
  <2>3. CASE Calm(k) /\ (told'[k] = told[k] \/ \E c \in Clients : ToldNow(c, k))
    BY <1>2, <2>2, <2>3, CalmKeepsKey
  <2>4. CASE Posting
    <3>1. Calm(k)
      BY <2>4, CalmPost DEF Posting
    <3>2. told' = told
      BY <2>4 DEF Posting, Post
    <3> QED BY <2>3, <3>1, <3>2
  <2>5. ASSUME NEW c \in Clients, Handling(c) \/ HangUp(c) PROVE KeyFact(k)'
    <3>1. CASE LookupRun(c)
      BY <2>2, <3>1, LookupKeepsKey
    <3>2. ~LookupFails(c)
      <4> SUFFICES ASSUME LookupFails(c) PROVE FALSE
        OBVIOUS
      <4>1. "misread" \in incidents'
        BY DEF LookupFails, Happens
      <4> QED BY <4>1
    <3>3. CASE ~LookupRun(c)
      <4>1. Calm(k)
        BY <2>5, <3>2, <3>3, CalmHandler
      <4>2. told'[k] = told[k] \/ \E d \in Clients : ToldNow(d, k)
        <5>1. CASE SqlSave(c)
          BY <2>2, <5>1, TellsInSql DEF SqlSave
        <5>2. CASE SqlSaveFails(c)
          BY <5>2, FailureTellsNothing DEF SqlSaveFails
        <5>3. CASE LookupJob(c) \/ Enqueue(c) \/ FileSave(c) \/ HangUp(c) \/ ReadWorkflow(c) \/ \E s \in Final : EndRun(c, s)
          BY <5>3 DEF LookupJob, Enqueue, FileSave, HangUp, ReadWorkflow, EndRun
        <5> QED BY <2>5, <3>2, <3>3, <5>1, <5>2, <5>3 DEF Handling
      <4> QED BY <2>3, <4>1, <4>2
    <3> QED BY <3>1, <3>3
  <2>6. CASE Working \/ Interrupting
    <3>1. Calm(k) /\ told' = told
      BY <2>6, CalmWorker, BackstageFrame DEF Backstage
    <3> QED BY <2>3, <3>1
  <2>7. ASSUME NEW p \in Procs,
               \/ BootProcess(p) \/ BootedProcess(p) \/ TruncateFile(p)
               \/ FileSaved(p) \/ FileSaveFails(p) \/ KillProcess(p)
        PROVE  KeyFact(k)'
    <3>1. Calm(k)
      BY <2>7, CalmProcess
    <3>2. told'[k] = told[k] \/ \E d \in Clients : ToldNow(d, k)
      <4>1. CASE FileSaved(p)
        <5>1. PICK c \in Clients : saving[p].by = c /\ Written(p) /\ Resumes(c, TRUE) /\ UNCHANGED <<backend, up>>
          BY <4>1 DEF FileSaved
        <5> QED BY <2>2, <5>1, TellsInFile
      <4>2. CASE FileSaveFails(p)
        BY <4>2, FailureTellsNothing DEF FileSaveFails
      <4>3. CASE BootProcess(p) \/ BootedProcess(p) \/ TruncateFile(p) \/ KillProcess(p)
        BY <4>3 DEF BootProcess, BootedProcess, TruncateFile, KillProcess, apiVars
      <4> QED BY <2>7, <4>1, <4>2, <4>3
    <3> QED BY <2>3, <3>1, <3>2
  <2> QED BY <1>2, <2>4, <2>5, <2>6, <2>7 DEF SubNext
<1> QED BY <1>1, <1>2

LEMMA KeyInit == SubInit => KeyInv
BY NoRequestTyped DEF SubInit, KeyInv, KeyFact, Executes, Executing

LEMMA KeyGivesTold == KeyInv => ToldRunStands
BY DEF KeyInv, KeyFact, Shows, ToldRunStands

(* The end of a run that a client was told (201) is what every process that *)
(* serves answers, and what the next one will load: whatever is killed,     *)
(* fails or is sent again, unless an overlapping request, a failed lookup   *)
(* or a second process over the directory was involved.                     *)
THEOREM ToldRunsStand == SubSpec => []ToldRunStands
<1>1. SubInit => BaseInv /\ KeyInv
  BY BaseInit, KeyInit
<1>2. (BaseInv /\ KeyInv) /\ [SubNext]_subVars => (BaseInv /\ KeyInv)'
  BY BaseStep, KeyStep
<1> QED BY <1>1, <1>2, KeyGivesTold, PTL DEF SubSpec

-----------------------------------------------------------------------------
(* A key is executed once *)

Shown == RunStatuses \ {"none"}

BegunFact(k) ==
    /\ begun[k] <= 1
    /\ begun[k] > 0 => /\ Shows(k, Shown)
                       /\ \A c \in Clients : Executes(c, k) => req[c].pc # "saveRunning"

BegunInv == Spared({"overlap", "strangers", "misread", "unsaved"}) => \A k \in Keys : BegunFact(k)

LEMMA ShownKept ==
  ASSUME BaseInv, SubNext, NEW k \in Keys, Shows(k, Shown)
  PROVE  Shows(k, Shown)'
<1>1. Admits(k, Shown)
  BY RequestFields DEF Admits, Shown, RunStatuses, Final, BaseInv, SubInv
<1> QED BY <1>1, StepShows

(* Nobody has come to save the beginning of a run of k. *)
Steady(k) == \A c \in Clients : req'[c].key = k /\ req'[c].pc = "saveRunning" =>
                                    req[c].key = k /\ req[c].pc = "saveRunning"

(* c begins to execute k, and its run is in the store. *)
BegunNow(c, k) ==
    /\ req[c].key = k /\ req[c].pc = "saveRunning" /\ req'[c].pc = "executing"
    /\ begun'[k] = begun[k] + 1
    /\ Shows(k, Shown)'

LEMMA SteadyKeepsBegun ==
  ASSUME BaseInv, SubNext, NEW k \in Keys, BegunFact(k), KeyFact(k), begun[k] > 0 => Steady(k),
         \/ begun'[k] = begun[k]
         \/ Steady(k) /\ \E c \in Clients : BegunNow(c, k)
  PROVE  BegunFact(k)'
<1>0. begun[k] \in Nat
  BY DEF BaseInv, SubInv, RecordsInv
<1>1. CASE begun'[k] = begun[k]
  <2>1. begun[k] > 0 => Shows(k, Shown)'
    BY ShownKept DEF BegunFact
  <2>2. begun[k] > 0 => \A c \in Clients : Executes(c, k)' => req'[c].pc # "saveRunning"
    BY DEF BegunFact, Steady, Executes, Executing
  <2> QED BY <1>1, <2>1, <2>2 DEF BegunFact
<1>2. CASE Steady(k) /\ \E c \in Clients : BegunNow(c, k)
  <2>1. PICK c \in Clients : BegunNow(c, k)
    BY <1>2
  <2>2. Executes(c, k)
    BY <2>1 DEF BegunNow, Executes, Executing
  <2>3. begun[k] = 0
    BY <1>0, <2>1, <2>2 DEF BegunFact, BegunNow
  <2>4. \A d \in Clients \ {c} : ~Executes(d, k)
    BY <2>2 DEF KeyFact
  <2>5. \A d \in Clients : Executes(d, k)' => req'[d].pc # "saveRunning"
    BY <1>2, <2>1, <2>4 DEF Steady, BegunNow, Executes, Executing
  <2>6. begun'[k] = 1
    BY <2>1, <2>3 DEF BegunNow
  <2> QED BY <2>1, <2>5, <2>6 DEF BegunFact, BegunNow
<1> QED BY <1>1, <1>2

LEMMA SteadyMove ==
  ASSUME SubInv, NEW c \in Clients, NEW r, req' = [req EXCEPT ![c] = r],
         r.pc = "saveRunning" => req[c].pc = "saveRunning" /\ r.key = req[c].key, NEW k \in Keys
  PROVE  Steady(k)
<1>1. \A d \in Clients : req'[d] = IF d = c THEN r ELSE req[d]
  BY DEF SubInv, RequestsInv
<1> QED BY <1>1 DEF Steady

LEMMA SteadyAnswer ==
  ASSUME SubInv, NEW c \in Clients, Answers(c), NEW k \in Keys
  PROVE  Steady(k)
BY SteadyMove, NoRequestTyped DEF Answers

LEMMA SteadyResume ==
  ASSUME BaseInv, NEW c \in Clients, NEW ok \in BOOLEAN, Resumes(c, ok), req[c].pc \in SaveSteps,
         UNCHANGED up, NEW k \in Keys
  PROVE  Steady(k)
<1>1. PICK r \in Request :
        /\ req' = [req EXCEPT ![c] = r]
        /\ IF req[c].pc = "saveRunning" THEN r.pc = "executing" /\ r.key = req[c].key ELSE r = NoRequest
  BY ResumesMoves
<1>2. r.pc # "saveRunning"
  BY <1>1, NoRequestTyped
<1> QED BY <1>1, <1>2, SteadyMove DEF BaseInv

LEMMA SteadyPost ==
  ASSUME BaseInv, NEW c \in Clients, NEW p \in Procs, NEW kind \in Kinds, NEW j \in Keys,
         NEW f \in Fields, Post(c, p, kind, j, f), NEW k \in Keys
  PROVE  Steady(k)
<1> DEFINE r == [NoRequest EXCEPT
                 !.kind = kind, !.proc = p, !.key = j,
                 !.edits = IF kind = "patch" THEN {f} ELSE {},
                 !.pc = CASE kind \in {"sync", "async"} -> "lookup"
                          [] kind = "patch" -> "readWorkflow"
                          [] OTHER -> "saveWorkflow"]
<1>1. r.pc # "saveRunning"
  BY NoRequestTyped DEF Request
<1>2. req' = [req EXCEPT ![c] = r]
  BY DEF Post
<1> HIDE DEF r
<1> QED BY <1>1, <1>2, SteadyMove DEF BaseInv

(* GetRun finds the run of a key that has begun. *)
LEMMA LookupFinds ==
  ASSUME BaseInv, NEW c \in Clients, LookupRun(c), NEW k \in Keys, Shows(k, Shown)
  PROVE  Steady(k)
<1>0. req[c] \in Request /\ req[c].proc \in Procs /\ up[req[c].proc] = "up" /\ req[c].pc = "lookup"
  BY RequestFields DEF LookupRun, BaseInv, SubInv, RequestsInv, HandlerInv, Fit
<1>1. CASE Answers(c)
  BY <1>1, SteadyAnswer DEF BaseInv
<1>2. CASE ~Answers(c)
  <2> DEFINE step == IF req[c].kind = "sync" THEN "saveRunning" ELSE "lookupJob"
             r == [req[c] EXCEPT !.pc = step]
  <2>1. StoreOf(req[c].proc).runs[req[c].key] = "none" /\ req' = [req EXCEPT ![c] = r]
    BY <1>2 DEF LookupRun, Proceeds, Goes
  <2>2. r.key = req[c].key
    BY <1>0 DEF Request
  <2>3. req[c].key # k
    BY <1>0, <2>1 DEF Shows, Shown
  <2> HIDE DEF r
  <2>4. \A d \in Clients : req'[d] = IF d = c THEN r ELSE req[d]
    BY <2>1 DEF BaseInv, SubInv, RequestsInv
  <2> QED BY <2>2, <2>3, <2>4 DEF Steady
<1> QED BY <1>1, <1>2

LEMMA SteadyHandler ==
  ASSUME BaseInv, NEW c \in Clients, Handling(c) \/ HangUp(c), ~LookupRun(c), ~LookupFails(c), NEW k \in Keys
  PROVE  Steady(k)
<1>0. req[c] \in Request
  BY DEF BaseInv, SubInv, RequestsInv
<1>1. CASE Answers(c)
  BY <1>1, SteadyAnswer DEF BaseInv
<1>2. CASE LookupJob(c) /\ ~Answers(c)
  <2> DEFINE r == [req[c] EXCEPT !.pc = "enqueue"]
  <2>1. r.pc = "enqueue"
    BY <1>0 DEF Request
  <2>2. req' = [req EXCEPT ![c] = r]
    BY <1>2 DEF LookupJob, Goes
  <2> HIDE DEF r
  <2> QED BY <2>1, <2>2, SteadyMove DEF BaseInv
<1>3. CASE Enqueue(c)
  BY <1>1, <1>3 DEF Enqueue
<1>4. CASE FileSave(c)
  BY <1>4 DEF FileSave, Steady
<1>5. CASE (SqlSave(c) \/ SqlSaveFails(c)) /\ ~Answers(c)
  <2>1. req[c].pc \in SaveSteps /\ UNCHANGED up
    BY <1>5 DEF SqlSave, SqlSaveFails, storeVars
  <2>2. \E ok \in BOOLEAN : Resumes(c, ok)
    BY <1>5 DEF SqlSave, SqlSaveFails
  <2> QED BY <2>1, <2>2, SteadyResume
<1>6. CASE \E s \in Final : EndRun(c, s)
  <2>1. PICK s \in Final : EndRun(c, s)
    BY <1>6
  <2> DEFINE r == [req[c] EXCEPT !.pc = "saveFinal", !.status = s]
  <2>2. r.pc = "saveFinal"
    BY <1>0 DEF Request
  <2>3. req' = [req EXCEPT ![c] = r]
    BY <2>1 DEF EndRun
  <2> HIDE DEF r
  <2> QED BY <2>2, <2>3, SteadyMove DEF BaseInv
<1>7. CASE ReadWorkflow(c) /\ ~Answers(c)
  <2> DEFINE e == req[c].edits \cup StoreOf(req[c].proc).workflow
             r == [req[c] EXCEPT !.pc = "saveWorkflow", !.edits = e]
  <2>1. r.pc = "saveWorkflow"
    BY <1>0 DEF Request
  <2>2. req' = [req EXCEPT ![c] = r]
    BY <1>7 DEF ReadWorkflow
  <2> HIDE DEF r
  <2> QED BY <2>1, <2>2, SteadyMove DEF BaseInv
<1>8. CASE HangUp(c)
  <2> DEFINE r == [req[c] EXCEPT !.gone = TRUE]
  <2>1. r.pc = req[c].pc /\ r.key = req[c].key
    BY <1>0 DEF Request
  <2>2. req' = [req EXCEPT ![c] = r]
    BY <1>8 DEF HangUp
  <2> HIDE DEF r
  <2> QED BY <2>1, <2>2, SteadyMove DEF BaseInv
<1> QED BY <1>1, <1>2, <1>3, <1>4, <1>5, <1>6, <1>7, <1>8 DEF Handling

LEMMA SteadyProcess ==
  ASSUME BaseInv, NEW k \in Keys, NEW p \in Procs,
         \/ BootProcess(p) \/ BootedProcess(p) \/ TruncateFile(p)
         \/ FileSaved(p) \/ FileSaveFails(p) \/ KillProcess(p)
  PROVE  Steady(k)
<1>1. CASE UNCHANGED req
  BY <1>1 DEF Steady
<1>2. ASSUME NEW c \in Clients, NEW ok \in BOOLEAN, saving[p].by = c, Resumes(c, ok), UNCHANGED up PROVE Steady(k)
  <2>1. req[c].pc \in SaveSteps
    BY <1>2 DEF BaseInv, FlushInv, Holds
  <2> QED BY <1>2, <2>1, SteadyResume
<1>3. CASE FileSaved(p) \/ FileSaveFails(p)
  BY <1>1, <1>2, <1>3 DEF FileSaved, FileSaveFails
<1>4. CASE KillProcess(p)
  BY <1>4, NoRequestTyped DEF KillProcess, Steady
<1>5. CASE BootProcess(p) \/ BootedProcess(p) \/ TruncateFile(p)
  BY <1>1, <1>5 DEF BootProcess, BootedProcess, TruncateFile, apiVars
<1> QED BY <1>3, <1>4, <1>5

LEMMA BeginsInSql ==
  ASSUME BaseInv, NEW c \in Clients, SqlSave(c), req[c].kind # "put", NEW k \in Keys
  PROVE  begun'[k] = begun[k] \/ BegunNow(c, k)
<1> SUFFICES ASSUME begun'[k] # begun[k] PROVE BegunNow(c, k)
  OBVIOUS
<1>1. Resumes(c, TRUE) /\ backend = "sqlite" /\ disk' = Saved(c) /\ UNCHANGED <<backend, up>> /\ req[c].pc \in SaveSteps
  BY DEF SqlSave, Saves
<1>2. req[c].pc = "saveRunning" /\ req[c].key = k /\ begun'[k] = begun[k] + 1
  BY <1>1, RequestFields DEF Resumes, BaseInv, SubInv, RecordsInv
<1>3. Saved(c) \in Document /\ Saved(c).runs[k] = "RUNNING"
  BY <1>1, <1>2, SavedHolds, SavedIsDocument DEF BaseInv, SubInv
<1>4. Shows(k, Shown)'
  BY <1>1, <1>3 DEF Shows, StoreOf, Shown, RunStatuses
<1>5. req[c] \in Request /\ req'[c] = [req[c] EXCEPT !.pc = "executing"]
  BY <1>1, <1>2 DEF Resumes, Goes, BaseInv, SubInv, RequestsInv
<1>6. req'[c].pc = "executing"
  BY <1>5 DEF Request
<1> QED BY <1>2, <1>4, <1>6 DEF BegunNow

LEMMA BeginsInFile ==
  ASSUME BaseInv, "strangers" \notin incidents, NEW p \in Procs, NEW c \in Clients, saving[p].by = c,
         Written(p), Resumes(c, TRUE), UNCHANGED <<backend, up>>, NEW k \in Keys
  PROVE  begun'[k] = begun[k] \/ BegunNow(c, k)
<1> SUFFICES ASSUME begun'[k] # begun[k] PROVE BegunNow(c, k)
  OBVIOUS
<1>1. Holds(p, c)
  BY DEF BaseInv, FlushInv
<1>2. req[c].pc = "saveRunning" /\ req[c].key = k /\ begun'[k] = begun[k] + 1
  BY RequestFields DEF Resumes, BaseInv, SubInv, RecordsInv
<1>3. mem[p].runs[k] = "RUNNING" /\ mem[p] \in Document /\ req[c].proc = p
  BY <1>1, <1>2 DEF Holds, BaseInv, SubInv, StoreInv, StoreTypeOK
<1>4. backend = "file" /\ up[p] = "up"
  BY <1>2, <1>3, StoreAssumption DEF Written, BaseInv, SubInv, StoreInv, StoreTypeOK, HandlerInv, Fit
<1>5. \A q \in Procs : up[q] # "down" => q = p
  BY <1>4 DEF BaseInv, AloneInv
<1>6. disk' \in {mem[p], Torn} /\ UNCHANGED mem
  BY DEF Written
<1>7. Shows(k, Shown)'
  BY <1>3, <1>4, <1>5, <1>6 DEF Shows, StoreOf, Shown, RunStatuses
<1>8. req[c] \in Request /\ req'[c] = [req[c] EXCEPT !.pc = "executing"]
  BY <1>2 DEF Resumes, Goes, BaseInv, SubInv, RequestsInv
<1>9. req'[c].pc = "executing"
  BY <1>8 DEF Request
<1> QED BY <1>2, <1>7, <1>9 DEF BegunNow

LEMMA UnsavedIsRecorded ==
  ASSUME BaseInv, NEW c \in Clients, Resumes(c, FALSE), "unsaved" \notin incidents', NEW k \in Keys
  PROVE  begun'[k] = begun[k]
<1>1. req[c].pc # "saveRunning"
  BY DEF Resumes, Happens
<1> QED BY <1>1, RequestFields DEF Resumes, BaseInv, SubInv, RecordsInv

LEMMA BegunStep == BaseInv /\ BaseInv' /\ KeyInv /\ BegunInv /\ [SubNext]_subVars => BegunInv'
<1> SUFFICES ASSUME BaseInv, BaseInv', KeyInv, BegunInv, [SubNext]_subVars,
                    incidents' \cap {"overlap", "strangers", "misread", "unsaved"} = {}, NEW k \in Keys
             PROVE  BegunFact(k)'
  BY DEF BegunInv, Spared
<1>1. CASE UNCHANGED subVars
  <2>1. UNCHANGED <<backend, up, mem, disk, req, begun, incidents>>
    BY <1>1 DEF subVars, apiVars, storeVars
  <2>2. BegunFact(k)
    BY <2>1 DEF BegunInv, Spared
  <2> QED BY <2>1, <2>2 DEF BegunFact, Shows, StoreOf, Executes, Executing
<1>2. CASE SubNext
  <2>1. incidents \cap {"overlap", "strangers", "misread", "unsaved"} = {}
    BY <1>2, IncidentsGrow
  <2>2. BegunFact(k) /\ KeyFact(k) /\ "strangers" \notin incidents /\ "unsaved" \notin incidents'
    BY <2>1 DEF BegunInv, KeyInv, Spared
  <2>3. CASE Steady(k) /\ (begun'[k] = begun[k] \/ \E c \in Clients : BegunNow(c, k))
    BY <1>2, <2>2, <2>3, SteadyKeepsBegun
  <2>4. CASE Posting
    <3>1. Steady(k)
      BY <2>4, SteadyPost DEF Posting
    <3>2. begun' = begun
      BY <2>4 DEF Posting, Post
    <3> QED BY <2>3, <3>1, <3>2
  <2>5. ASSUME NEW c \in Clients, Handling(c) \/ HangUp(c) PROVE BegunFact(k)'
    <3>1. CASE LookupRun(c)
      <4>1. begun[k] > 0 => Steady(k)
        BY <2>2, <3>1, LookupFinds DEF BegunFact
      <4>2. begun' = begun
        BY <3>1 DEF LookupRun
      <4> QED BY <1>2, <2>2, <4>1, <4>2, SteadyKeepsBegun
    <3>2. ~LookupFails(c)
      <4> SUFFICES ASSUME LookupFails(c) PROVE FALSE
        OBVIOUS
      <4>1. "misread" \in incidents'
        BY DEF LookupFails, Happens
      <4> QED BY <4>1
    <3>3. CASE ~LookupRun(c)
      <4>1. Steady(k)
        BY <2>5, <3>2, <3>3, SteadyHandler
      <4>2. begun'[k] = begun[k] \/ \E d \in Clients : BegunNow(d, k)
        <5>1. CASE SqlSave(c)
          BY <5>1, BeginsInSql DEF SqlSave
        <5>2. CASE SqlSaveFails(c)
          BY <2>2, <5>2, UnsavedIsRecorded DEF SqlSaveFails
        <5>3. CASE LookupJob(c) \/ Enqueue(c) \/ FileSave(c) \/ HangUp(c) \/ ReadWorkflow(c) \/ \E s \in Final : EndRun(c, s)
          BY <5>3 DEF LookupJob, Enqueue, FileSave, HangUp, ReadWorkflow, EndRun
        <5> QED BY <2>5, <3>2, <3>3, <5>1, <5>2, <5>3 DEF Handling
      <4> QED BY <2>3, <4>1, <4>2
    <3> QED BY <3>1, <3>3
  <2>6. CASE Working \/ Interrupting
    <3>1. begun' = begun /\ req' = req
      BY <2>6, BackstageFrame DEF Backstage
    <3> QED BY <2>3, <3>1 DEF Steady
  <2>7. ASSUME NEW p \in Procs,
               \/ BootProcess(p) \/ BootedProcess(p) \/ TruncateFile(p)
               \/ FileSaved(p) \/ FileSaveFails(p) \/ KillProcess(p)
        PROVE  BegunFact(k)'
    <3>1. Steady(k)
      BY <2>7, SteadyProcess
    <3>2. begun'[k] = begun[k] \/ \E d \in Clients : BegunNow(d, k)
      <4>1. CASE FileSaved(p)
        <5>1. PICK c \in Clients : saving[p].by = c /\ Written(p) /\ Resumes(c, TRUE) /\ UNCHANGED <<backend, up>>
          BY <4>1 DEF FileSaved
        <5> QED BY <2>2, <5>1, BeginsInFile
      <4>2. CASE FileSaveFails(p)
        BY <2>2, <4>2, UnsavedIsRecorded DEF FileSaveFails
      <4>3. CASE BootProcess(p) \/ BootedProcess(p) \/ TruncateFile(p) \/ KillProcess(p)
        BY <4>3 DEF BootProcess, BootedProcess, TruncateFile, KillProcess, apiVars
      <4> QED BY <2>7, <4>1, <4>2, <4>3
    <3> QED BY <2>3, <3>1, <3>2
  <2> QED BY <1>2, <2>4, <2>5, <2>6, <2>7 DEF SubNext
<1> QED BY <1>1, <1>2

LEMMA BegunInit == SubInit => BegunInv
BY DEF SubInit, BegunInv, BegunFact

(* However often a synchronous request is sent again, its key is executed   *)
(* by handlers once: the run is in the store before the first task starts,  *)
(* and every later lookup finds it, also in a process started since.        *)
THEOREM KeysExecutedOnce == SubSpec => []ExecutedAtMostOnce
<1>1. SubInit => BaseInv /\ KeyInv /\ BegunInv
  BY BaseInit, KeyInit, BegunInit
<1>2. (BaseInv /\ KeyInv /\ BegunInv) /\ [SubNext]_subVars => (BaseInv /\ KeyInv /\ BegunInv)'
  BY BaseStep, KeyStep, BegunStep
<1>3. BegunInv => ExecutedAtMostOnce
  BY DEF BegunInv, BegunFact, ExecutedAtMostOnce
<1> QED BY <1>1, <1>2, <1>3, PTL DEF SubSpec

-----------------------------------------------------------------------------
(* Acknowledged edits *)

Patching(c) == req[c].pc = "saveWorkflow" /\ req[c].kind # "put"

(* One patch is between its read and its save, it carries every edit that  *)
(* was acknowledged, and so does every store.                              *)
PatchFact ==
    /\ \A c, d \in Clients : Patching(c) /\ Patching(d) => c = d
    /\ \A c \in Clients : Patching(c) => patched \subseteq req[c].edits
    /\ \A p \in Procs : up[p] # "down" => patched \subseteq StoreOf(p).workflow

PatchInv == Spared({"racing", "strangers"}) => PatchFact

SamePatches == \A c \in Clients : Patching(c)' => Patching(c) /\ req'[c].edits = req[c].edits
SameWorkflows ==
    \A p \in Procs : up'[p] # "down" => up[p] # "down" /\ StoreOf(p)'.workflow = StoreOf(p).workflow

LEMMA PatchKept ==
  ASSUME PatchFact, SamePatches, SameWorkflows, UNCHANGED patched
  PROVE  PatchFact'
<1>1. \A c, d \in Clients : Patching(c)' /\ Patching(d)' => c = d
  BY DEF PatchFact, SamePatches
<1>2. \A c \in Clients : Patching(c)' => patched' \subseteq req'[c].edits
  BY DEF PatchFact, SamePatches
<1>3. \A p \in Procs : up'[p] # "down" => patched' \subseteq StoreOf(p)'.workflow
  BY DEF PatchFact, SameWorkflows
<1> QED BY <1>1, <1>2, <1>3 DEF PatchFact

LEMMA PatchReplaced ==
  ASSUME PatchFact, SamePatches, patched' = {}
  PROVE  PatchFact'
<1>1. \A c, d \in Clients : Patching(c)' /\ Patching(d)' => c = d
  BY DEF PatchFact, SamePatches
<1> QED BY <1>1 DEF PatchFact

LEMMA SameMove ==
  ASSUME SubInv, NEW c \in Clients, NEW r, req' = [req EXCEPT ![c] = r],
         r.pc = "saveWorkflow" /\ r.kind # "put" => Patching(c) /\ r.edits = req[c].edits
  PROVE  SamePatches
<1>1. \A d \in Clients : req'[d] = IF d = c THEN r ELSE req[d]
  BY DEF SubInv, RequestsInv
<1> QED BY <1>1 DEF SamePatches, Patching

LEMMA SameAnswer ==
  ASSUME SubInv, NEW c \in Clients, Answers(c)
  PROVE  SamePatches
BY SameMove, NoRequestTyped DEF Answers

LEMMA SameStores ==
  ASSUME UNCHANGED <<backend, mem, disk>>, \A p \in Procs : up'[p] # "down" => up[p] # "down"
  PROVE  SameWorkflows
BY DEF SameWorkflows, StoreOf

LEMMA SamePost ==
  ASSUME BaseInv, NEW c \in Clients, NEW p \in Procs, NEW kind \in Kinds, NEW j \in Keys,
         NEW f \in Fields, Post(c, p, kind, j, f)
  PROVE  SamePatches
<1> DEFINE r == [NoRequest EXCEPT
                 !.kind = kind, !.proc = p, !.key = j,
                 !.edits = IF kind = "patch" THEN {f} ELSE {},
                 !.pc = CASE kind \in {"sync", "async"} -> "lookup"
                          [] kind = "patch" -> "readWorkflow"
                          [] OTHER -> "saveWorkflow"]
<1>1. r.pc = "saveWorkflow" => r.kind = "put"
  BY NoRequestTyped, SubAssumption DEF Request
<1>2. req' = [req EXCEPT ![c] = r]
  BY DEF Post
<1> HIDE DEF r
<1> QED BY <1>1, <1>2, SameMove DEF BaseInv

LEMMA SameResume ==
  ASSUME BaseInv, NEW c \in Clients, NEW ok \in BOOLEAN, Resumes(c, ok), req[c].pc \in SaveSteps, UNCHANGED up
  PROVE  SamePatches
<1>1. PICK r \in Request :
        /\ req' = [req EXCEPT ![c] = r]
        /\ IF req[c].pc = "saveRunning" THEN r.pc = "executing" /\ r.key = req[c].key ELSE r = NoRequest
  BY ResumesMoves
<1>2. r.pc # "saveWorkflow"
  BY <1>1, NoRequestTyped
<1> QED BY <1>1, <1>2, SameMove DEF BaseInv

LEMMA ReadKeepsPatches ==
  ASSUME BaseInv, PatchFact, NEW c \in Clients, ReadWorkflow(c), "racing" \notin incidents'
  PROVE  PatchFact'
<1>0. req[c] \in Request /\ req[c].proc \in Procs /\ up[req[c].proc] = "up" /\ req[c].pc = "readWorkflow"
  BY RequestFields DEF ReadWorkflow, BaseInv, SubInv, RequestsInv, HandlerInv, Fit
<1>1. UNCHANGED <<backend, up, mem, disk, patched>>
  BY DEF ReadWorkflow, storeVars
<1>2. SameWorkflows
  BY <1>1, SameStores
<1>3. CASE Answers(c)
  BY <1>1, <1>2, <1>3, SameAnswer, PatchKept DEF BaseInv
<1>4. CASE ~Answers(c)
  <2> DEFINE e == req[c].edits \cup StoreOf(req[c].proc).workflow
             r == [req[c] EXCEPT !.pc = "saveWorkflow", !.edits = e]
  <2>1. r.edits = e /\ req' = [req EXCEPT ![c] = r]
    BY <1>0, <1>4 DEF ReadWorkflow, Request
  <2>2. patched \subseteq e
    BY <1>0 DEF PatchFact
  <2> HIDE DEF e, r
  <2>3. \A d \in Clients : req'[d] = IF d = c THEN r ELSE req[d]
    BY <2>1 DEF BaseInv, SubInv, RequestsInv
  <2>4. \A d \in Clients \ {c} : req[d].pc # "saveWorkflow"
    BY <1>4 DEF ReadWorkflow, Happens
  <2>5. \A d \in Clients : Patching(d)' => d = c
    BY <2>3, <2>4 DEF Patching
  <2>6. \A p \in Procs : up'[p] # "down" => patched' \subseteq StoreOf(p)'.workflow
    BY <1>1, <1>2 DEF PatchFact, SameWorkflows
  <2> QED BY <1>1, <2>1, <2>2, <2>3, <2>5, <2>6 DEF PatchFact
<1> QED BY <1>3, <1>4

(* A save of a run keeps the workflow, a save of a workflow replaces it. *)
LEMMA SavedWorkflow ==
  ASSUME BaseInv, NEW c \in Clients, req[c].pc \in SaveSteps
  PROVE  /\ req[c].proc \in Procs /\ up[req[c].proc] = "up"
         /\ Saved(c).workflow = IF req[c].pc = "saveWorkflow" THEN req[c].edits
                                ELSE StoreOf(req[c].proc).workflow
<1>1. req[c].proc \in Procs /\ req[c].key \in Keys /\ up[req[c].proc] = "up"
  BY RequestFields DEF BaseInv, SubInv, SaveSteps, HandlerInv, Fit
<1>2. StoreOf(req[c].proc) \in Document
  BY <1>1, StoreIsDocument DEF BaseInv, SubInv
<1> QED BY <1>1, <1>2 DEF Saved, Document, SaveSteps

LEMMA FileSaveKeepsPatches ==
  ASSUME BaseInv, PatchFact, NEW c \in Clients, FileSave(c), "strangers" \notin incidents
  PROVE  PatchFact'
<1> DEFINE p == req[c].proc
<1>1. req[c].pc \in SaveSteps /\ backend = "file" /\ UNCHANGED <<backend, up, req>>
  BY DEF FileSave
<1>2. p \in Procs /\ up[p] = "up"
  BY <1>1, SavedWorkflow
<1>3. \A q \in Procs : mem'[q] = IF q = p THEN Saved(c) ELSE mem[q]
  BY <1>1, <1>2 DEF FileSave, Saves, BaseInv, SubInv, StoreInv, StoreTypeOK
<1>4. SamePatches
  BY <1>1 DEF SamePatches, Patching
<1>5. CASE req[c].kind = "put"
  BY <1>4, <1>5, PatchReplaced DEF FileSave
<1>6. CASE req[c].kind # "put"
  <2>1. patched \subseteq Saved(c).workflow
    BY <1>1, <1>2, <1>6, SavedWorkflow DEF PatchFact, Patching
  <2>2. \A q \in Procs : up'[q] # "down" => patched \subseteq StoreOf(q)'.workflow
    BY <1>1, <1>3, <2>1 DEF PatchFact, StoreOf
  <2>3. UNCHANGED patched
    BY <1>6 DEF FileSave
  <2> QED BY <1>1, <2>2, <2>3 DEF PatchFact, Patching
<1> QED BY <1>5, <1>6

(* The answer to a patch: nobody else is between read and save, and every   *)
(* store is what the answer says.                                           *)
LEMMA PatchAnswered ==
  ASSUME BaseInv, PatchFact, NEW c \in Clients, Patching(c), Answers(c), patched' = patched \cup req[c].edits,
         \A q \in Procs : up'[q] # "down" => StoreOf(q)'.workflow = req[c].edits
  PROVE  PatchFact'
<1>1. \A d \in Clients : req'[d] = IF d = c THEN NoRequest ELSE req[d]
  BY DEF Answers, BaseInv, SubInv, RequestsInv
<1>2. \A d \in Clients : ~Patching(d)'
  BY <1>1, NoRequestTyped DEF Patching, PatchFact
<1>3. patched' = req[c].edits
  BY DEF PatchFact
<1> QED BY <1>2, <1>3 DEF PatchFact

LEMMA SqlSaveKeepsPatches ==
  ASSUME BaseInv, PatchFact, NEW c \in Clients, SqlSave(c)
  PROVE  PatchFact'
<1>1. /\ req[c].pc \in SaveSteps /\ backend = "sqlite" /\ UNCHANGED <<backend, up>>
      /\ disk' = Saved(c)
  BY DEF SqlSave, Saves
<1>2. \A q \in Procs : StoreOf(q) = disk /\ StoreOf(q)' = Saved(c)
  BY <1>1 DEF StoreOf
<1>3. CASE req[c].kind = "put"
  <2>1. SamePatches
    BY <1>3, SameAnswer DEF SqlSave, BaseInv
  <2> QED BY <1>3, <2>1, PatchReplaced DEF SqlSave
<1>4. CASE req[c].kind # "put" /\ req[c].pc = "saveWorkflow"
  <2>1. Answers(c) /\ patched' = patched \cup req[c].edits
    BY <1>4 DEF SqlSave, Resumes
  <2>2. Saved(c).workflow = req[c].edits
    BY <1>1, <1>4, SavedWorkflow
  <2> QED BY <1>2, <1>4, <2>1, <2>2, PatchAnswered DEF Patching
<1>5. CASE req[c].kind # "put" /\ req[c].pc # "saveWorkflow"
  <2>1. Resumes(c, TRUE) /\ UNCHANGED patched
    BY <1>5 DEF SqlSave, Resumes
  <2>2. SamePatches
    BY <1>1, <2>1, SameResume
  <2>3. Saved(c).workflow = disk.workflow
    BY <1>1, <1>2, <1>5, SavedWorkflow
  <2>4. SameWorkflows
    BY <1>1, <1>2, <2>3 DEF SameWorkflows
  <2> QED BY <2>1, <2>2, <2>4, PatchKept
<1> QED BY <1>3, <1>4, <1>5

LEMMA FlushKeepsPatches ==
  ASSUME BaseInv, PatchFact, NEW p \in Procs, NEW c \in Clients, NEW ok \in BOOLEAN, saving[p].by = c,
         Written(p) \/ WriteFails(p), Resumes(c, ok), UNCHANGED <<backend, up>>, "strangers" \notin incidents
  PROVE  PatchFact'
<1>1. Holds(p, c) /\ req[c].pc \in SaveSteps /\ req[c].proc = p
  BY DEF BaseInv, FlushInv, Holds
<1>2. backend = "file" /\ UNCHANGED mem
  BY StoreAssumption DEF Written, WriteFails, BaseInv, SubInv, StoreInv, StoreTypeOK
<1>3. SameWorkflows
  BY <1>2 DEF SameWorkflows, StoreOf
<1>4. CASE ok /\ Patching(c)
  <2>1. Answers(c) /\ patched' = patched \cup req[c].edits
    BY <1>4 DEF Resumes, Patching
  <2>2. up[p] = "up" /\ mem[p].workflow = req[c].edits
    BY <1>1, <1>4, SavedWorkflow DEF Holds, Patching
  <2>3. \A q \in Procs : up[q] # "down" => q = p
    BY <1>2, <2>2 DEF BaseInv, AloneInv
  <2>4. \A q \in Procs : up'[q] # "down" => StoreOf(q)'.workflow = req[c].edits
    BY <1>2, <2>2, <2>3 DEF StoreOf
  <2> QED BY <1>4, <2>1, <2>4, PatchAnswered
<1>5. CASE ~(ok /\ Patching(c))
  <2>1. req[c].pc = "saveWorkflow" /\ ok => req[c].edits = {}
    BY <1>5 DEF Patching, BaseInv, HandlerInv, Fit
  <2>2. UNCHANGED patched
    BY <2>1 DEF Resumes
  <2>3. SamePatches
    BY <1>1, SameResume
  <2> QED BY <1>3, <2>2, <2>3, PatchKept
<1> QED BY <1>4, <1>5

LEMMA HandlerKeepsPatches ==
  ASSUME BaseInv, PatchFact, NEW c \in Clients, Handling(c) \/ HangUp(c), "strangers" \notin incidents,
         "racing" \notin incidents'
  PROVE  PatchFact'
<1>0. req[c] \in Request
  BY DEF BaseInv, SubInv, RequestsInv
<1>1. CASE LookupRun(c) \/ LookupFails(c) \/ LookupJob(c)
  <2>1. UNCHANGED <<backend, up, mem, disk, patched>>
    BY <1>1 DEF LookupRun, LookupFails, LookupJob, storeVars
  <2>2. CASE Answers(c)
    BY <2>1, <2>2, SameAnswer, SameStores, PatchKept DEF BaseInv
  <2>3. CASE \E step \in {"saveRunning", "lookupJob", "enqueue"} : Goes(c, step)
    <3>1. PICK step \in {"saveRunning", "lookupJob", "enqueue"} : Goes(c, step)
      BY <2>3
    <3> DEFINE r == [req[c] EXCEPT !.pc = step]
    <3>2. r.pc # "saveWorkflow" /\ req' = [req EXCEPT ![c] = r]
      BY <1>0, <3>1 DEF Request, Goes
    <3> HIDE DEF r
    <3>3. SamePatches
      BY <3>2, SameMove DEF BaseInv
    <3> QED BY <2>1, <3>3, SameStores, PatchKept
  <2>4. Answers(c) \/ Goes(c, "saveRunning") \/ Goes(c, "lookupJob") \/ Goes(c, "enqueue")
    BY <1>1 DEF LookupRun, LookupFails, LookupJob, Proceeds
  <2> QED BY <2>2, <2>3, <2>4
<1>2. CASE Enqueue(c)
  <2>1. UNCHANGED <<backend, up, mem, disk, patched>> /\ Answers(c)
    BY <1>2 DEF Enqueue, storeVars
  <2> QED BY <2>1, SameAnswer, SameStores, PatchKept DEF BaseInv
<1>3. CASE SqlSaveFails(c)
  <2>1. UNCHANGED <<backend, up, mem, disk, patched>> /\ Resumes(c, FALSE) /\ req[c].pc \in SaveSteps
    BY <1>3 DEF SqlSaveFails, Resumes, storeVars
  <2> QED BY <2>1, SameResume, SameStores, PatchKept
<1>4. CASE \E s \in Final : EndRun(c, s)
  <2>1. PICK s \in Final : EndRun(c, s)
    BY <1>4
  <2> DEFINE r == [req[c] EXCEPT !.pc = "saveFinal", !.status = s]
  <2>2. r.pc # "saveWorkflow" /\ req' = [req EXCEPT ![c] = r]
    BY <1>0, <2>1 DEF Request, EndRun
  <2> HIDE DEF r
  <2>3. SamePatches
    BY <2>2, SameMove DEF BaseInv
  <2>4. UNCHANGED <<backend, up, mem, disk, patched>>
    BY <2>1 DEF EndRun, storeVars
  <2> QED BY <2>3, <2>4, SameStores, PatchKept
<1>5. CASE HangUp(c)
  <2> DEFINE r == [req[c] EXCEPT !.gone = TRUE]
  <2>1. /\ r.pc = req[c].pc /\ r.kind = req[c].kind /\ r.edits = req[c].edits
        /\ req' = [req EXCEPT ![c] = r]
    BY <1>0, <1>5 DEF Request, HangUp
  <2> HIDE DEF r
  <2>2. SamePatches
    BY <2>1, SameMove DEF BaseInv, Patching
  <2>3. UNCHANGED <<backend, up, mem, disk, patched>>
    BY <1>5 DEF HangUp, storeVars
  <2> QED BY <2>2, <2>3, SameStores, PatchKept
<1> QED BY <1>1, <1>2, <1>3, <1>4, <1>5, ReadKeepsPatches, FileSaveKeepsPatches, SqlSaveKeepsPatches DEF Handling

LEMMA WorkerKeepsPatches ==
  ASSUME BaseInv, PatchFact, Backstage
  PROVE  PatchFact'
<1>1. UNCHANGED <<backend, up, mem, req, patched>>
  BY BackstageFrame
<1>2. SamePatches
  BY <1>1 DEF SamePatches, Patching
<1>3. disk' = disk \/ (backend = "sqlite" /\ disk'.workflow = disk.workflow)
  <2>1. ASSUME worker.pc # "poll", NEW s, disk' = [disk EXCEPT !.runs[worker.key] = s]
        PROVE  backend = "sqlite" /\ disk'.workflow = disk.workflow
    <3>1. backend = "sqlite" /\ disk \in Document
      BY <2>1 DEF WorkInv, StoreInv, BaseInv, SubInv
    <3> QED BY <2>1, <3>1 DEF Document
  <2> QED BY <2>1, BackstageDisk
<1>4. SameWorkflows
  BY <1>1, <1>3, StoreAssumption DEF SameWorkflows, StoreOf
<1> QED BY <1>1, <1>2, <1>4, PatchKept

LEMMA ProcessKeepsPatches ==
  ASSUME BaseInv, PatchFact, "strangers" \notin incidents, NEW p \in Procs,
         \/ BootProcess(p) \/ BootedProcess(p) \/ TruncateFile(p)
         \/ FileSaved(p) \/ FileSaveFails(p) \/ KillProcess(p)
  PROVE  PatchFact'
<1>1. ASSUME UNCHANGED req PROVE SamePatches
  BY <1>1 DEF SamePatches, Patching
<1>2. CASE BootProcess(p)
  BY <1>1, <1>2, PatchReplaced DEF BootProcess
<1>3. CASE TruncateFile(p)
  <2>1. UNCHANGED <<backend, up, mem, req, patched>> /\ backend = "file"
    BY <1>3, StoreAssumption DEF TruncateFile, Truncate, apiVars, BaseInv, SubInv, StoreInv, StoreTypeOK
  <2>2. SameWorkflows
    BY <2>1 DEF SameWorkflows, StoreOf
  <2> QED BY <1>1, <2>1, <2>2, PatchKept
<1>4. CASE BootedProcess(p)
  <2>1. up[p] # "down" /\ up' = [up EXCEPT ![p] = "up"]
    BY <1>4 DEF BootedProcess, Booted, BaseInv, FlushInv
  <2>2. UNCHANGED <<backend, mem, req, patched>> /\ backend = "file"
    BY <1>4, StoreAssumption DEF BootedProcess, Booted, Written, apiVars, BaseInv, SubInv, StoreInv, StoreTypeOK
  <2>3. SameWorkflows
    BY <2>1, <2>2 DEF SameWorkflows, StoreOf, BaseInv, SubInv, StoreInv, StoreTypeOK
  <2> QED BY <1>1, <2>2, <2>3, PatchKept
<1>5. CASE FileSaved(p)
  <2>1. PICK c \in Clients : saving[p].by = c /\ Written(p) /\ Resumes(c, TRUE) /\ UNCHANGED <<backend, up>>
    BY <1>5 DEF FileSaved
  <2> QED BY <2>1, FlushKeepsPatches
<1>6. CASE FileSaveFails(p)
  <2>1. WriteFails(p)
    BY <1>6 DEF FileSaveFails
  <2>2. CASE \E c \in Clients : saving[p].by = c /\ Resumes(c, FALSE) /\ UNCHANGED <<backend, up>>
    <3>1. PICK c \in Clients : saving[p].by = c /\ Resumes(c, FALSE) /\ UNCHANGED <<backend, up>>
      BY <2>2
    <3> QED BY <2>1, <3>1, FlushKeepsPatches
  <2>3. CASE up' = [up EXCEPT ![p] = "down"] /\ UNCHANGED <<backend, req, patched>>
    <3>1. UNCHANGED <<mem, disk>>
      BY <2>1 DEF WriteFails
    <3>2. SameWorkflows
      BY <2>3, <3>1, SameStores DEF BaseInv, SubInv, StoreInv, StoreTypeOK
    <3> QED BY <1>1, <2>3, <3>2, PatchKept
  <2> QED BY <1>6, <2>2, <2>3 DEF FileSaveFails
<1>7. CASE KillProcess(p)
  <2>1. UNCHANGED <<backend, disk, patched>>
    BY <1>7 DEF KillProcess, Killed
  <2>2. \A q \in Procs : /\ up'[q] = IF q = p THEN "down" ELSE up[q]
                         /\ mem'[q] = IF q = p THEN Empty ELSE mem[q]
    BY <1>7 DEF KillProcess, Killed, BaseInv, SubInv, StoreInv, StoreTypeOK
  <2>3. SameWorkflows
    BY <2>1, <2>2 DEF SameWorkflows, StoreOf
  <2>4. \A c \in Clients : req'[c] = IF req[c].proc = p THEN NoRequest ELSE req[c]
    BY <1>7 DEF KillProcess
  <2>5. SamePatches
    BY <2>4, NoRequestTyped DEF SamePatches, Patching
  <2> QED BY <2>1, <2>3, <2>5, PatchKept
<1> QED BY <1>2, <1>3, <1>4, <1>5, <1>6, <1>7

LEMMA PatchStep == BaseInv /\ PatchInv /\ [SubNext]_subVars => PatchInv'
<1> SUFFICES ASSUME BaseInv, PatchInv, [SubNext]_subVars, incidents' \cap {"racing", "strangers"} = {}
             PROVE  PatchFact'
  BY DEF PatchInv, Spared
<1>1. CASE UNCHANGED subVars
  <2>1. UNCHANGED <<backend, up, mem, disk, req, patched, incidents>>
    BY <1>1 DEF subVars, apiVars, storeVars
  <2>2. PatchFact
    BY <2>1 DEF PatchInv, Spared
  <2>3. SamePatches /\ SameWorkflows
    BY <2>1 DEF SamePatches, Patching, SameWorkflows, StoreOf
  <2> QED BY <2>1, <2>2, <2>3, PatchKept
<1>2. CASE SubNext
  <2>1. incidents \cap {"racing", "strangers"} = {}
    BY <1>2, IncidentsGrow
  <2>2. PatchFact /\ "strangers" \notin incidents /\ "racing" \notin incidents'
    BY <2>1 DEF PatchInv, Spared
  <2>3. CASE Posting
    <3>1. SamePatches
      BY <2>3, SamePost DEF Posting
    <3>2. UNCHANGED <<backend, up, mem, disk, patched>>
      BY <2>3 DEF Posting, Post, storeVars
    <3> QED BY <2>2, <3>1, <3>2, SameStores, PatchKept
  <2> QED BY <1>2, <2>2, <2>3, HandlerKeepsPatches, WorkerKeepsPatches, ProcessKeepsPatches DEF SubNext, Backstage
<1> QED BY <1>1, <1>2

LEMMA PatchInit == SubInit => PatchInv
BY NoRequestTyped DEF SubInit, StoreInit, PatchInv, PatchFact, Patching

(* An edit of the workflow that was acknowledged is in the workflow of      *)
(* every process that serves until a put or a start replaces it, unless a   *)
(* patch was read while another change was under way or two processes       *)
(* shared the directory.                                                    *)
THEOREM AcknowledgedPatchesKept == SubSpec => []PatchesKept
<1>1. SubInit => BaseInv /\ PatchInv
  BY BaseInit, PatchInit
<1>2. (BaseInv /\ PatchInv) /\ [SubNext]_subVars => (BaseInv /\ PatchInv)'
  BY BaseStep, PatchStep
<1>3. PatchInv => PatchesKept
  BY DEF PatchInv, PatchFact, PatchesKept
<1> QED BY <1>1, <1>2, <1>3, PTL DEF SubSpec

=============================================================================
