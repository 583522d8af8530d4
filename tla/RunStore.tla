------------------------------- MODULE RunStore -------------------------------
(***************************************************************************)
(* The workflow store under several processes: internal/store/             *)
(* file_store.go over memory_store.go, and the workflow and run tables of  *)
(* sqlite_store.go.                                                        *)
(*                                                                         *)
(* The sqlite store is its database: a save is one statement.  FileStore   *)
(* keeps a MemoryStore per process and answers every read from it, without *)
(* its mutex; a save changes the memory and then, still under the mutex,   *)
(* writes all of it over snapshot.json with os.WriteFile, which truncates  *)
(* the file before it writes.  Nothing keeps two processes from one data   *)
(* directory, and no process looks at the file again once it has started.  *)
(*                                                                         *)
(* One workflow is modelled, as the set of its edits, and the runs of it   *)
(* that have an idempotency key, as their statuses.                        *)
(***************************************************************************)
EXTENDS Integers, FiniteSets

CONSTANTS
    Procs,          \* orchestrator processes
    Keys,           \* idempotency keys, and the run ids made from them
    Fields,         \* parts of the workflow document
    Clients,        \* goroutines of API handlers
    NoFile, Torn,   \* snapshot.json is not there; does not decode
    Backends        \* the -store-backend flags to choose from

VARIABLES
    backend,        \* "file" or "sqlite"
    up,             \* "down", "booting" (until main's SaveWorkflow returns), "up"
    mem,            \* FileStore.mem of every process
    disk,           \* snapshot.json, or the database
    saving          \* the flush each process is in

storeVars == <<backend, up, mem, disk, saving>>

RunStatuses == {"none", "RUNNING", "SUCCESS", "FAILED", "CANCELLED"}
Final == {"SUCCESS", "FAILED", "CANCELLED"}

Document == [workflow : SUBSET Fields, runs : [Keys -> RunStatuses]]

ASSUME StoreAssumption ==
    /\ Backends \subseteq {"file", "sqlite"}
    /\ "main" \notin Clients /\ "nobody" \notin Clients
    /\ NoFile \notin Document /\ Torn \notin Document /\ NoFile # Torn

(* The workflow file of main holds none of the edits. *)
Empty == [workflow |-> {}, runs |-> [k \in Keys |-> "none"]]

(* step: flushLocked before and after the truncation.  mixed: another       *)
(* process had the file open for writing at the same time.                  *)
Flush == [by : Clients \cup {"main", "nobody"}, step : {"none", "open", "write"}, mixed : BOOLEAN]
NoFlush == [by |-> "nobody", step |-> "none", mixed |-> FALSE]

StoreInit ==
    /\ backend \in Backends
    /\ up = [p \in Procs |-> "down"]
    /\ mem = [p \in Procs |-> Empty]
    /\ disk = IF backend = "file" THEN NoFile ELSE Empty
    /\ saving = [p \in Procs |-> NoFlush]

(* What GetRun and GetWorkflow see. *)
StoreOf(p) == IF backend = "file" THEN mem[p] ELSE disk

Unlocked(p) == saving[p].step = "none"

(* SaveRun or SaveWorkflow by owner of process p: the memory is changed at  *)
(* once and the flush begins, or the statement of the database is executed. *)
Saves(p, owner, document) ==
    /\ Unlocked(p)
    /\ IF backend = "file"
       THEN /\ mem' = [mem EXCEPT ![p] = document]
            /\ saving' = [saving EXCEPT ![p] = [by |-> owner, step |-> "open", mixed |-> FALSE]]
            /\ UNCHANGED disk
       ELSE /\ disk' = document
            /\ UNCHANGED <<mem, saving>>

Writers == {p \in Procs : saving[p].step = "write"}

(* os.WriteFile opens the file with O_TRUNC. *)
Truncate(p) ==
    /\ saving[p].step = "open"
    /\ disk' = Torn
    /\ saving' = [q \in Procs |->
                    IF q = p THEN [saving[p] EXCEPT !.step = "write", !.mixed = Writers # {}]
                    ELSE IF q \in Writers THEN [saving[q] EXCEPT !.mixed = TRUE]
                    ELSE saving[q]]
    /\ UNCHANGED <<backend, up, mem>>

(* The content is written: all of the memory, which the mutex has kept as   *)
(* it was marshalled.  Two writers may leave the bytes of both.             *)
Written(p) ==
    /\ saving[p].step = "write"
    /\ disk' \in {mem[p]} \cup (IF saving[p].mixed THEN {Torn} ELSE {})
    /\ saving' = [saving EXCEPT ![p] = NoFlush]
    /\ UNCHANGED mem

(* The write fails half way: the save returns an error, the memory keeps    *)
(* the new value and the file is what was written so far.                   *)
WriteFails(p) ==
    /\ saving[p].step = "write"
    /\ saving' = [saving EXCEPT ![p] = NoFlush]
    /\ UNCHANGED <<mem, disk>>

(* load: a snapshot that does not decode is an error, and the process ends. *)
Loaded == IF disk = NoFile THEN Empty ELSE disk

(* Mutant: NewFileStore goes on after a load error. *)
Boot_AfterLoadError(p) ==
    /\ up[p] = "down"
    /\ Saves(p, "main", [(IF disk \in {NoFile, Torn} THEN Empty ELSE disk) EXCEPT !.workflow = {}])
    /\ up' = [up EXCEPT ![p] = IF backend = "file" THEN "booting" ELSE "up"]
    /\ UNCHANGED backend

(* main: NewFileStore or NewSQLiteStore, and SaveWorkflow of the workflow   *)
(* file over whatever the store holds under its id.                         *)
Boot(p) ==
    /\ up[p] = "down"
    /\ disk # Torn
    /\ Saves(p, "main", [Loaded EXCEPT !.workflow = {}])
    /\ up' = [up EXCEPT ![p] = IF backend = "file" THEN "booting" ELSE "up"]
    /\ UNCHANGED backend

(* main's flush returns; on an error log.Fatalf ends the process. *)
Booted(p) ==
    /\ saving[p].by = "main"
    /\ Written(p)
    /\ up' = [up EXCEPT ![p] = "up"]
    /\ UNCHANGED backend

(* The process is killed: its memory is gone, the file stays as it is. *)
Killed(p) ==
    /\ up[p] # "down"
    /\ up' = [up EXCEPT ![p] = "down"]
    /\ mem' = [mem EXCEPT ![p] = Empty]
    /\ saving' = [saving EXCEPT ![p] = NoFlush]
    /\ UNCHANGED <<backend, disk>>

StoreTypeOK ==
    /\ backend \in Backends
    /\ up \in [Procs -> {"down", "booting", "up"}]
    /\ mem \in [Procs -> Document]
    /\ disk \in Document \cup {NoFile, Torn}
    /\ saving \in [Procs -> Flush]

=============================================================================
