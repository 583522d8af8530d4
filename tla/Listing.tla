------------------------------- MODULE Listing -------------------------------
(***************************************************************************)
(* The requests of internal/api/server.go that read many jobs or runs: a   *)
(* client that walks through a listing page by page, a page with the total *)
(* of its envelope, and bulk cancel and bulk requeue, which take ids from  *)
(* one listing, or from the request, and then act on one id after another. *)
(* Each reads more than once, and between its reads the workers and other  *)
(* clients change the table.                                               *)
(*                                                                         *)
(* The table is what the other modules show of it: the statuses of jobs    *)
(* move as JobLifecycle says (RunQueue and SqliteQueue implement it), a    *)
(* run is saved as RUNNING and then again by whoever executes it, and to   *)
(* the history of a job rows are added until the job is purged.  Of a row  *)
(* the listings look at its status (ToStatus in a history), at the stamp   *)
(* they sort by, and at ids and actors that never change: scope is the set *)
(* of rows a filter on those lets through.  A filter on UpdatedAt lets     *)
(* rows in and out as one on the status does.                              *)
(***************************************************************************)
EXTENDS Integers, Sequences, SequencesExt, FiniteSets

CONSTANTS
    Jobs,           \* ids of the rows, ordered as their strings are
    Stamps,         \* CreatedAt of a job or a transition, StartedAt of a run
    Tables,         \* which of AllTables are listed
    Scopes,         \* what the filters on ids let through
    Filters,        \* values of the status filter (NoStatus: none given)
    Limits,         \* limits asked for; 0 stands for none, or for one refused
    Offsets,        \* offsets asked for
    Given,          \* the jobIds a bulk request may name itself
    DefaultLimit,   \* 50 rows on a page, 100 jobs in a bulk request
    MaxChanges      \* bound: changes by others, and failed statements, meanwhile

VARIABLES
    table,          \* the table the request is about
    status, stamp,  \* the rows of the table
    req,            \* the request
    changes         \* changes by others since the request came in

listVars == <<table, status, stamp, req, changes>>

NoStatus == "NONE"
JobTables == {"memory", "sqlite"}
RunTables == {"runs", "sqliteRuns"}
Histories == {"history", "sqliteHistory"}
AllTables == JobTables \cup RunTables \cup Histories
RunEnds == {"SUCCESS", "FAILED", "CANCELLED"}

ASSUME ListAssumption ==
    /\ Jobs \subseteq Nat /\ IsFiniteSet(Jobs) /\ Stamps \subseteq Nat \ {0}
    /\ Tables \subseteq AllTables
    /\ Scopes \subseteq SUBSET Jobs
    /\ Limits \subseteq Nat /\ Offsets \subseteq Nat /\ Given \subseteq Seq(Jobs)
    /\ DefaultLimit \in Nat \ {0} /\ MaxChanges \in Nat

Lifecycle == INSTANCE JobLifecycle

(* left and came: the rows, with their stamps, that left the listing and    *)
(* came into it since the request began; steady: those that did neither.    *)
(* moved, gone, mistold: the jobs a bulk request has changed, that were     *)
(* purged since it began, and that it changed and then got an error for.    *)
NoRequest == [op |-> "none", pc |-> "idle", status |-> NoStatus, scope |-> {}, limit |-> 0,
              offset |-> 0, desc |-> FALSE, got |-> << >>, total |-> 0, pos |-> 1,
              done |-> << >>, failed |-> {},
              left |-> {}, came |-> {}, steady |-> {}, moved |-> {}, gone |-> {}, mistold |-> {}]

ListInit ==
    /\ table \in Tables
    /\ status = [j \in Jobs |-> NoStatus]
    /\ stamp = [j \in Jobs |-> 0]
    /\ req = NoRequest
    /\ changes = 0

-----------------------------------------------------------------------------
(* Mutant: the comparison stops at the stamps in every listing. *)
Precedes_NoTieBreak(r, q) ==
    IF r[1] # q[1]
    THEN IF req.desc THEN r[1] > q[1] ELSE r[1] < q[1]
    ELSE TRUE

(* The order of a listing, on rows and their stamps: a history in memory is  *)
(* in the order it was appended; the others go by stamp, and MemoryRunQueue  *)
(* breaks ties by id, the stores do not break them.                          *)
Precedes(r, q) ==
    CASE table = "history" -> r[2] < q[2]
      [] table # "history" /\ r[1] # q[1] -> IF req.desc THEN r[1] > q[1] ELSE r[1] < q[1]
      [] OTHER -> table # "memory" \/ r[2] < q[2]

Row(j) == <<stamp[j], j>>

Orders(S) == {s \in SetToSeqs(S) : \A i, k \in DOMAIN s : i < k => Precedes(Row(s[i]), Row(s[k]))}

(* The filters: an empty one lets every row through. *)
Passes(s, filter) == s # NoStatus /\ (filter = NoStatus \/ s = filter)

Matches(j) == Passes(status[j], req.status)

Listed == {j \in req.scope : Matches(j)}

(* items[offset:end], or nothing when offset is beyond the end. *)
Slice(s, limit, offset) ==
    IF offset >= Len(s) THEN << >>
    ELSE SubSeq(s, offset + 1, IF offset + limit > Len(s) THEN Len(s) ELSE offset + limit)

(* SQLiteStore cannot ask for the status of a run in SQL: it scans the runs *)
(* in order, passes over those that do not match, then over offset of those *)
(* that do, and stops when it has limit of them.                            *)
Scan(s, limit, offset) ==
    LET Step(acc, j) ==
            IF ~Matches(j) \/ Len(acc.items) >= limit THEN acc
            ELSE IF acc.seen < offset THEN [acc EXCEPT !.seen = @ + 1]
            ELSE [acc EXCEPT !.items = Append(@, j)]
        scanned[n \in 0 .. Len(s)] ==
            IF n = 0 THEN [seen |-> 0, items |-> << >>] ELSE Step(scanned[n - 1], s[n])
    IN scanned[Len(s)].items

Pages ==
    IF table = "sqliteRuns" /\ req.status # NoStatus
    THEN {Scan(s, req.limit, req.offset) :
             s \in Orders({j \in req.scope : status[j] # NoStatus})}
    ELSE {Slice(s, req.limit, req.offset) : s \in Orders(Listed)}

(* Mutant: the count leaves one clause of the listing's filter out. *)
Counted_AnyStatus == Cardinality({j \in req.scope : status[j] # NoStatus})

Counted == Cardinality(Listed)

Effective(limit) == IF limit = 0 THEN DefaultLimit ELSE limit

-----------------------------------------------------------------------------
(* The request arrives. *)
Arrives(op, s, scope, limit, offset, desc) ==
    /\ req.pc = "idle"
    /\ req' = [NoRequest EXCEPT
                 !.op = op, !.pc = "list", !.status = s, !.scope = scope,
                 !.limit = Effective(limit), !.offset = offset, !.desc = desc,
                 !.steady = {j \in scope : Passes(status[j], s)}]
    /\ UNCHANGED <<table, status, stamp, changes>>

Asks(op, offset, desc) ==
    \E s \in Filters, scope \in Scopes, limit \in Limits :
        /\ desc => table \in RunTables
        /\ Arrives(op, s, scope, limit, offset, desc)

Walk == \E desc \in BOOLEAN : Asks("walk", 0, desc)
GetPage == \E offset \in Offsets : Asks("page", offset, FALSE)

(* A bulk request names a status, or the handler takes its own: QUEUED for  *)
(* a cancel, DEAD_LETTER for a requeue, which accepts FAILED besides.       *)
Bulk(op, own, accepted) ==
    /\ table \in JobTables
    /\ \E s \in Filters, scope \in Scopes, limit \in Limits :
          LET asked == IF s = NoStatus THEN own ELSE s IN
          asked \in accepted /\ Arrives(op, asked, scope, limit, 0, FALSE)

BulkCancel == Bulk("cancel", "QUEUED", Lifecycle!JobStatuses)
BulkRequeue == Bulk("requeue", "DEAD_LETTER", {"DEAD_LETTER", "FAILED"})

BulkGiven(op, ids) ==
    /\ table \in JobTables
    /\ req.pc = "idle"
    /\ req' = [NoRequest EXCEPT !.op = op, !.pc = "next", !.got = ids]
    /\ UNCHANGED <<table, status, stamp, changes>>

-----------------------------------------------------------------------------
(* Mutant: an empty page is not taken for the last one. *)
ReadPage_NeverEmpty(items) ==
    /\ req.op = "walk"
    /\ req' = [req EXCEPT !.got = @ \o items, !.offset = @ + Len(items),
                          !.pc = IF Len(items) \in 1 .. req.limit - 1 THEN "answered" ELSE "list"]

(* One turn of the loop of listAllRunJobsPaged, which is also the loop of   *)
(* DELETE /runs/{id}: a page that is not full is the last one.              *)
ReadPage(items) ==
    /\ req.op = "walk"
    /\ req' = [req EXCEPT !.got = @ \o items, !.offset = @ + Len(items),
                          !.pc = IF Len(items) < req.limit THEN "answered" ELSE "list"]

(* The page of an envelope, and the ids of a bulk request. *)
ReadOnce(items) ==
    /\ req.op # "walk"
    /\ req' = [req EXCEPT !.got = items, !.pc = IF req.op = "page" THEN "count" ELSE "next"]

List ==
    /\ req.pc = "list"
    /\ \E items \in Pages : ReadPage(items) \/ ReadOnce(items)
    /\ UNCHANGED <<table, status, stamp, changes>>

Count ==
    /\ req.pc = "count"
    /\ req' = [req EXCEPT !.total = Counted, !.pc = "answered"]
    /\ UNCHANGED <<table, status, stamp, changes>>

-----------------------------------------------------------------------------
(* The loop of the bulk handlers. *)
Current == req.got[req.pos]
Turn(op, pc) == req.op = op /\ req.pc = pc /\ req.pos <= Len(req.got)

Failed(r) == [r EXCEPT !.failed = @ \cup {Current}, !.pos = @ + 1, !.pc = "next"]
Moved(r) == [r EXCEPT !.moved = @ \cup {Current}, !.pc = "reread"]

Fails ==
    /\ req' = Failed(req)
    /\ UNCHANGED <<table, status, stamp, changes>>

Proceeds(pc) ==
    /\ req' = [req EXCEPT !.pc = pc]
    /\ UNCHANGED <<table, status, stamp, changes>>

Moves(to) ==
    /\ status' = [status EXCEPT ![Current] = to]
    /\ req' = Moved(req)
    /\ UNCHANGED <<table, stamp, changes>>

(* SQLiteStore has updated the row, and appendTransition returns an error. *)
MovesUnlogged(to) ==
    /\ table = "sqlite" /\ changes < MaxChanges
    /\ status' = [status EXCEPT ![Current] = to]
    /\ req' = [Failed(Moved(req)) EXCEPT !.mistold = @ \cup {Current}]
    /\ changes' = changes + 1
    /\ UNCHANGED <<table, stamp>>

Cancellable(j) == status[j] \notin {NoStatus, "SUCCEEDED", "CANCELLED"}

(* A job that is CANCELLED already is a success for MemoryRunQueue and a    *)
(* rejected transition for SQLiteStore.                                     *)
CancelJob ==
    /\ Turn("cancel", "next")
    /\ \/ Cancellable(Current) /\ (Moves("CANCELLED") \/ MovesUnlogged("CANCELLED"))
       \/ status[Current] = "CANCELLED" /\ table = "memory" /\ Proceeds("reread")
       \/ status[Current] = "CANCELLED" /\ table = "sqlite" /\ Fails
       \/ status[Current] \in {NoStatus, "SUCCEEDED"} /\ Fails

Requeueable(j) == status[j] \in {"DEAD_LETTER", "FAILED"}

CheckJob ==
    /\ Turn("requeue", "next")
    /\ IF Requeueable(Current) THEN Proceeds("move") ELSE Fails

RequeueJob ==
    /\ Turn("requeue", "move")
    /\ IF Requeueable(Current) THEN Moves("QUEUED") \/ MovesUnlogged("QUEUED") ELSE Fails

(* Mutant: the error of the second GetRunJob is passed over. *)
Reread_KeepsLost ==
    /\ req.pc = "reread"
    /\ req' = IF status[Current] = NoStatus
              THEN [req EXCEPT !.pos = @ + 1, !.pc = "next"]
              ELSE [req EXCEPT !.done = Append(@, Current), !.pos = @ + 1, !.pc = "next"]
    /\ UNCHANGED <<table, status, stamp, changes>>

(* Mutant: continue leaves the loop variable to be advanced a second time. *)
Reread_Twice ==
    /\ req.pc = "reread"
    /\ req' = IF status[Current] = NoStatus
              THEN [Failed(req) EXCEPT !.pos = @ + 1]
              ELSE [req EXCEPT !.done = Append(@, Current), !.pos = @ + 1, !.pc = "next"]
    /\ UNCHANGED <<table, status, stamp, changes>>

(* GetRunJob after the change: a job that is purged by then is a failure,   *)
(* and so is a statement that fails (StatementFails).                       *)
Reread ==
    /\ req.pc = "reread"
    /\ req' = IF status[Current] = NoStatus
              THEN Failed(req)
              ELSE [req EXCEPT !.done = Append(@, Current), !.pos = @ + 1, !.pc = "next"]
    /\ UNCHANGED <<table, status, stamp, changes>>

(* A statement of the turn fails for another reason, over sqlite: before the *)
(* job is changed, or when it is read again.  The id is reported as failed.  *)
StatementFails ==
    /\ table = "sqlite" /\ changes < MaxChanges
    /\ \E op \in {"cancel", "requeue"}, pc \in {"next", "move", "reread"} : Turn(op, pc)
    /\ req' = [Failed(req) EXCEPT !.mistold = IF req.pc = "reread" THEN @ \cup {Current} ELSE @]
    /\ changes' = changes + 1
    /\ UNCHANGED <<table, status, stamp>>

AnswerBulk ==
    /\ req.pc = "next" /\ req.pos > Len(req.got)
    /\ req' = [req EXCEPT !.pc = "answered"]
    /\ UNCHANGED <<table, status, stamp, changes>>

bulkResultCode ==
    CASE req.failed = {} -> "BULK_OK"
      [] req.failed # {} /\ req.done = << >> -> "BULK_ALL_FAILED"
      [] OTHER -> "BULK_PARTIAL_FAILURE"

-----------------------------------------------------------------------------
(* What workers and other clients do to the table. *)
Stamped(j) == \E s \in Stamps : stamp' = [stamp EXCEPT ![j] = s]

JobChanges ==
    \/ \E j \in Jobs : Lifecycle!Submit(j) /\ Stamped(j)
    \/ \E j \in Jobs : /\ Lifecycle!Take(j) \/ Lifecycle!Settle(j) \/ Lifecycle!Cancel(j)
                          \/ Lifecycle!Replay(j)
                       /\ UNCHANGED stamp
    \/ \E D \in (SUBSET {j \in Jobs : status[j] # NoStatus}) \ {{}} :
          /\ Lifecycle!Purge(D)
          /\ stamp' = [j \in Jobs |-> IF j \in D THEN 0 ELSE stamp[j]]

(* SaveRun replaces the whole run, first as RUNNING.  A retry starts it     *)
(* again with a later StartedAt, and executions that overlap, and a         *)
(* DELETE /runs/{id}, each save the status and the StartedAt they know.     *)
RunChanges ==
    \E j \in Jobs, to \in RunEnds \cup {"RUNNING"}, s \in Stamps :
        /\ status[j] = NoStatus => to = "RUNNING"
        /\ <<to, s>> # <<status[j], stamp[j]>>
        /\ status' = [status EXCEPT ![j] = to]
        /\ stamp' = [stamp EXCEPT ![j] = s]

(* appendTransition.  SQLiteStore takes the time before its statement is    *)
(* executed.  A purge of the job deletes its history.                       *)
HistoryChanges ==
    \/ \E j \in Jobs, to \in Lifecycle!JobStatuses :
          /\ status[j] = NoStatus
          /\ \A k \in Jobs : k < j => status[k] # NoStatus
          /\ status' = [status EXCEPT ![j] = to]
          /\ Stamped(j)
    \/ /\ \E j \in Jobs : status[j] # NoStatus
       /\ status' = [j \in Jobs |-> NoStatus]
       /\ stamp' = [j \in Jobs |-> 0]

(* The ghosts of the request see every change. *)
Seen(r, now, then) ==
    LET shifted == {j \in now \cap then : stamp'[j] # stamp[j]} IN
    [r EXCEPT !.left = @ \cup {Row(j) : j \in (now \ then) \cup shifted},
              !.came = @ \cup {<<stamp'[j], j>> : j \in (then \ now) \cup shifted},
              !.steady = (@ \cap then) \ shifted]

Purged(r) ==
    [r EXCEPT !.gone = @ \cup {j \in Jobs : status[j] # NoStatus /\ status'[j] = NoStatus}]

Observes ==
    CASE req.pc = "idle" -> UNCHANGED req
      [] req.op \in {"walk", "page"} -> 
            req' = Seen(req, Listed, {j \in req.scope : Passes(status'[j], req.status)})
      [] OTHER -> req' = Purged(req)

OthersChange ==
    /\ req.pc # "answered"
    /\ req.pc # "idle" => changes < MaxChanges
    /\ \/ table \in JobTables /\ JobChanges
       \/ table \in RunTables /\ RunChanges
       \/ table \in Histories /\ HistoryChanges
    /\ Observes
    /\ changes' = IF req.pc = "idle" THEN 0 ELSE changes + 1
    /\ UNCHANGED table

-----------------------------------------------------------------------------
Handler == List \/ Count \/ CancelJob \/ CheckJob \/ RequeueJob \/ Reread
           \/ StatementFails \/ AnswerBulk

ListNext ==
    \/ Walk
    \/ GetPage
    \/ BulkCancel
    \/ BulkRequeue
    \/ \E op \in {"cancel", "requeue"}, ids \in Given : BulkGiven(op, ids)
    \/ Handler
    \/ OthersChange

ListSpec == ListInit /\ [][ListNext]_listVars

(* Fairness: every call the handler makes returns.  Nothing is assumed of    *)
(* clients or of what others do to the table.                                *)
FairListSpec == ListSpec /\ WF_listVars(Handler)

-----------------------------------------------------------------------------
(* Types. *)
ListTypeOK ==
    /\ table \in Tables
    /\ status \in [Jobs -> Lifecycle!JobStatuses \cup RunEnds \cup {"RUNNING", NoStatus}]
    /\ stamp \in [Jobs -> Stamps \cup {0}]
    /\ \A j \in Jobs : stamp[j] = 0 <=> status[j] = NoStatus
    /\ req.got \in Seq(Jobs) /\ req.done \in Seq(Jobs) /\ req.failed \subseteq Jobs
    /\ req.steady \subseteq Jobs /\ req.moved \subseteq Jobs /\ req.gone \subseteq Jobs
    /\ req.pos \in 1 .. Len(req.got) + 1

Answered(op) == req.op = op /\ req.pc = "answered"

(* A row that shares its stamp with j, in a listing that does not order them. *)
Tied(j) ==
    /\ table \notin {"memory", "history"}
    /\ \E k \in Jobs \ {j} :
          <<stamp[j], k>> \in req.left \cup req.came \cup {Row(i) : i \in Listed}

(* A walk over pages of a table that changes returns a row that was in the   *)
(* listing all the time exactly once.  It passes over it only if a row       *)
(* before it left the listing, repeats it only if a row came in before it,   *)
(* or does either when rows with its stamp are listed in no order.  In a     *)
(* quiet table of a listing with an order it returns every row once.         *)
WalkReturnsEachOnce ==
    Answered("walk") =>
        \A j \in req.steady :
            LET times == Cardinality({i \in DOMAIN req.got : req.got[i] = j}) IN
            \/ times = 1
            \/ times = 0 /\ \E row \in req.left : Precedes(row, Row(j))
            \/ times > 1 /\ \E row \in req.came : Precedes(row, Row(j))
            \/ Tied(j)

(* items and total of an envelope come from two calls.  They differ by what  *)
(* changed between them, never by what the filters mean to the two: total is *)
(* at least what the page shows to exist, up to the rows that left, and no   *)
(* more than a page that is not full shows, up to the rows that came.        *)
EnvelopeAgrees ==
    Answered("page") =>
        LET shown == req.offset + Len(req.got) IN
        /\ Len(req.got) <= req.limit
        /\ req.got # << >> => shown <= req.total + Cardinality(req.left)
        /\ Len(req.got) < req.limit => req.total <= shown + Cardinality(req.came)

(* A bulk request reports what it did, although others act on the same jobs  *)
(* between its steps: every id it selected is reported as done or as failed; *)
(* what it reports as done it has changed itself, or found CANCELLED         *)
(* already; and what it changed and reports as failed was purged since, was  *)
(* named twice, or a call on it returned an error after the change: its      *)
(* history could not be written, or it could not be read again.              *)
NamedTwice(j) == Cardinality({i \in DOMAIN req.got : req.got[i] = j}) > 1

BulkReportsWhatItDid ==
    Answered("cancel") \/ Answered("requeue") =>
        /\ ToSet(req.got) = ToSet(req.done) \cup req.failed
        /\ \A j \in ToSet(req.done) \ req.moved :
              req.op = "cancel" /\ (status[j] = "CANCELLED" \/ j \in req.gone)
        /\ req.moved \cap req.failed \subseteq req.gone \cup req.mistold \cup {j \in Jobs : NamedTwice(j)}
        /\ bulkResultCode = "BULK_OK" /\ req.op = "requeue" => ToSet(req.got) \subseteq req.moved

(* Every request is answered: the walk advances on every page and the bulk   *)
(* loops on every id while the others change the table, a bounded number of  *)
(* times.  (A table that grows by a full page per call keeps a walk going.)  *)
RequestAnswered == [](req.pc # "idle" => <>(req.pc = "answered"))

=============================================================================
