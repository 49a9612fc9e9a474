---------------------------- MODULE ConnectorSync ---------------------------
(***************************************************************************)
(* Synchronisation of the documents of one connector into the knowledge    *)
(* bases linked to it.  Requests to the API server schedule, cancel and    *)
(* rebuild; a data sync process lists the rows of sync_logs that are due   *)
(* and runs them one after the other (no step of a task awaits anything    *)
(* that suspends it, so that its timeout does not fire either).            *)
(*                                                                         *)
(* A task reads the source (external) from where an earlier one got to:    *)
(* from the poll_range_start of its row, or, if Cursor (databases and      *)
(* BigQuery), from the cursor in the connector's configuration.            *)
(***************************************************************************)
EXTENDS Integers, FiniteSets, SequencesExt

CONSTANTS
    Doc, Kb, User,
    Cursor,        \* the connector extends _CursorPersistingSyncBase
    Prunes,        \* "sync_deleted_files" of its configuration
    Requests,      \* what users ask for
    BatchFails,    \* documents cannot be listed, stored or deleted
    TaskFails,     \* tasks raise, the sync process and the API server die
    AllDue,        \* refresh_freq and prune_freq have passed whenever rows are listed
    KeepLogs,      \* rows of a knowledge base before the oldest are removed: 100
    DropLogs,      \* how many are removed: 70
    MaxTime,       \* bound: changes of the source
    MaxEvents      \* bound: requests, and failures of tasks and processes

ASSUME Switches == {Cursor, Prunes, BatchFails, TaskFails, AllDue} \subseteq BOOLEAN
ASSUME Bounds == KeepLogs \in Nat /\ DropLogs \in 1 .. KeepLogs /\ {MaxTime, MaxEvents} \subseteq Nat

Sync == "data_sync"       \* the process, as a caller of schedule
None == -1                \* no time: read from the beginning
Time == 0 .. MaxTime      \* 0 is 1970

VARIABLES
    clock,
    source,    \* document -> time of its last update, 0 if it is not in the source
    index,     \* knowledge base -> document -> the update it holds, 0 if none
    conn,      \* the connector's status, "removed" if it is deleted
    cursor,    \* "sync_cursor_value" of its configuration
    linked,    \* the rows of connector2kb
    logs,      \* knowledge base -> its rows of sync_logs, by update_time
    spc,       \* the sync process: its next step,
    batch,     \* the tasks it listed and has not begun,
    task,      \* the one it runs,
    scan,      \* the documents this one has still to visit (or, of a prune,
               \* those its snapshot holds), below which time,
    upto, next, clean, \* the end of its range, next_update, and whether all were stored
    events,    \* how many requests and failures there were
    todo,      \* the statements a request has still to do
    rebuilt,   \* history: the knowledge bases whose documents were deleted
               \* although the connector's cursor was kept
    stage,     \* how far a call of schedule is, by who called it,
    call       \* and its arguments

external == <<clock, source>>
tables == <<index, conn, cursor, linked, logs>>
range == <<scan, upto, next, clean>>
syncer == <<spc, batch, task, range>>
schedule == <<stage, call>>
request == <<todo, rebuilt>>
vars == <<external, tables, syncer, request, schedule, events>>

NoTask == [id |-> 0, kb |-> None, type |-> "none", start |-> None, full |-> FALSE, at |-> 0, saved |-> None]
NoCall == [kb |-> None, type |-> "none", start |-> None, full |-> FALSE]

Init ==
    /\ clock = 0
    /\ source = [d \in Doc |-> 0]
    /\ index = [k \in Kb |-> [d \in Doc |-> 0]]
    /\ conn = "unstart" /\ cursor = None /\ linked = {}
    /\ logs = [k \in Kb |-> <<>>]
    /\ spc = "idle" /\ batch = {} /\ task = NoTask
    /\ scan = {} /\ upto = None /\ next = 0 /\ clean = TRUE
    /\ events = 0 /\ todo = [u \in User |-> <<>>] /\ rebuilt = {}
    /\ stage = [p \in User \cup {Sync} |-> "none"]
    /\ call = [p \in User \cup {Sync} |-> NoCall]

----------------------------------------------------------------------------
(* The tables. *)

Counted == events < MaxEvents /\ events' = events + 1

SetConn(s) == conn' = IF conn = "removed" THEN conn ELSE s

Later(a, b) == IF a > b THEN a ELSE b

(* Where a task got to.  Of a connector with a cursor only whether there   *)
(* is such a time is looked at.                                            *)
Place(t) == IF Cursor THEN 0 ELSE t

(* The row with an id, if it was not deleted. *)
RowsOf(k, id) == {r \in ToSet(logs[k]) : r.id = id}

(* Rows are updated by id, and become the latest of their knowledge base.  *)
UpdateRows(k, new) ==
    LET Other(r) == \A q \in new : q.id # r.id
    IN logs' = [logs EXCEPT ![k] = SelectSeq(@, Other) \o SetToSeq(new)]

(* What a row was scheduled with is not read any more when it is not.      *)
Becomes(r, s) == [r EXCEPT !.status = s, !.start = None]

SetStatus(t, s) == UpdateRows(t.kb, {Becomes(r, s) : r \in RowsOf(t.kb, t.id)})

Active(r) == r.status \in {"schedule", "running"}

CancelRows(k) ==
    UpdateRows(k, {Becomes(r, "cancel") : r \in {q \in ToSet(logs[k]) : Active(q)}})

(* get_uuid: an id that nobody uses any more. *)
UsedIds ==
    {0, task.id} \cup {t.id : t \in batch}
    \cup UNION {{logs[k][n].id : n \in DOMAIN logs[k]} : k \in Kb}
NewId == CHOOSE i \in 1 .. Cardinality(UsedIds) : i \notin UsedIds

----------------------------------------------------------------------------
(* SyncLogsService.schedule, called by requests and by the sync process.   *)

Calls(p, k, type, start, full) ==
    /\ stage' = [stage EXCEPT ![p] = "check"]
    /\ call' = [call EXCEPT ![p] = [kb |-> k, type |-> type, start |-> start, full |-> full]]

Returned(p) ==
    /\ stage' = [stage EXCEPT ![p] = "none"]
    /\ call' = [call EXCEPT ![p] = NoCall]

Trimmed(rows) ==
    IF Len(rows) > KeepLogs THEN SubSeq(rows, DropLogs + 1, Len(rows)) ELSE rows

Scheduled(rows, type) ==
    \E n \in DOMAIN rows : rows[n].type = type /\ rows[n].status = "schedule"

(* The oldest rows are removed; a row that is scheduled already stays.     *)
Check(p) ==
    /\ stage[p] = "check"
    /\ LET k == call[p].kb
           rows == Trimmed(logs[k])
       IN /\ logs' = [logs EXCEPT ![k] = rows]
          /\ IF Scheduled(rows, call[p].type) THEN Returned(p)
             ELSE stage' = [stage EXCEPT ![p] = "mark"] /\ UNCHANGED call
    /\ UNCHANGED <<external, index, conn, cursor, linked, syncer, request, events>>

Mark(p) ==
    /\ stage[p] = "mark"
    /\ SetConn("schedule")
    /\ stage' = [stage EXCEPT ![p] = "save"]
    /\ UNCHANGED <<external, index, cursor, linked, logs, syncer, request, call, events>>

Save(p) ==
    /\ stage[p] = "save"
    /\ logs' = [logs EXCEPT ![call[p].kb] =
           Append(@, [id |-> NewId, type |-> call[p].type, status |-> "schedule",
                      start |-> call[p].start, end |-> None, full |-> call[p].full])]
    /\ Returned(p)
    /\ UNCHANGED <<external, index, conn, cursor, linked, syncer, request, events>>

(* The database raises in one of these steps: the latest row of the type   *)
(* is scheduled again.                                                     *)
ScheduleFails(p) ==
    /\ TaskFails /\ stage[p] \in {"check", "mark", "save"}
    /\ LET Is(r) == r.type = call[p].type
           rows == SelectSeq(logs[call[p].kb], Is)
       IN IF rows = <<>> THEN Returned(p) /\ UNCHANGED logs
          ELSE /\ UpdateRows(call[p].kb, {[Last(rows) EXCEPT !.status = "schedule",
                                                             !.start = call[p].start]})
               /\ stage' = [stage EXCEPT ![p] = "rescued"]
               /\ UNCHANGED call
    /\ Counted /\ UNCHANGED <<external, index, conn, cursor, linked, syncer, request>>

Rescue(p) ==
    /\ stage[p] = "rescued"
    /\ SetConn("schedule")
    /\ Returned(p)
    /\ UNCHANGED <<external, index, cursor, linked, logs, syncer, request, events>>

ScheduleStep(p) == Check(p) \/ Mark(p) \/ Save(p) \/ Rescue(p)

----------------------------------------------------------------------------
(* The data sync process. *)

Goto(pc) == spc' = pc

(* The next task of those that were listed. *)
Proceed ==
    /\ Goto(IF batch = {} THEN "idle" ELSE "take")
    /\ task' = NoTask
    /\ scan' = {} /\ upto' = None /\ next' = 0 /\ clean' = TRUE

(* A sync reads everything. *)
FromBeginning(t) == t.full \/ t.start = None

(* list_due_sync_tasks and list_due_prune_tasks: the rows of a linked      *)
(* knowledge base, each with its place among them, and the connector's     *)
(* configuration, of which the cursor is read.                             *)
Due(k, type) ==
    LET rows == {n \in DOMAIN logs[k] : /\ logs[k][n].type = type
                                        /\ logs[k][n].status = "schedule"}
    IN {[id |-> logs[k][n].id, kb |-> k, type |-> type, start |-> logs[k][n].start,
         full |-> logs[k][n].full, at |-> Cardinality({m \in rows : m < n}),
         saved |-> IF FromBeginning(logs[k][n]) THEN None ELSE cursor] : n \in rows}

AllOf(type) == UNION {Due(k, type) : k \in linked}

List ==
    /\ spc = "idle" /\ conn = "schedule"
    /\ LET all == AllOf("sync") \cup (IF Prunes THEN AllOf("prune") ELSE {})
       IN \E due \in IF AllDue THEN {all} ELSE SUBSET all : due # {} /\ batch' = due
    /\ Goto("take")
    /\ UNCHANGED <<external, tables, task, range, request, schedule, events>>

(* Syncs come before prunes, and the latest row first.                     *)
Before(t, u) ==
    \/ t.type = "sync" /\ u.type = "prune"
    \/ t.type = u.type /\ t.kb = u.kb /\ t.at > u.at

(* start *)
Take ==
    /\ spc = "take"
    /\ \E t \in batch :
          /\ \A u \in batch : ~Before(u, t)
          /\ task' = t
          /\ batch' = batch \ {t}
          /\ SetStatus(t, "running")
    /\ Goto("started")
    /\ UNCHANGED <<external, index, conn, cursor, linked, range, request, schedule, events>>

Start ==
    /\ spc = "started"
    /\ SetConn("running")
    /\ Goto(IF task.type = "sync" THEN "generate" ELSE "snapshot")
    /\ UNCHANGED <<external, index, cursor, linked, logs, batch, task, range, request, schedule, events>>

(* The latest update in the source, None if it is empty. *)
Latest ==
    IF \A d \in Doc : source[d] = 0 THEN None
    ELSE CHOOSE t \in Time : /\ \E d \in Doc : source[d] = t
                             /\ \A d \in Doc : source[d] <= t

(* The range a task reads: everything, what a cursor left, or what changed *)
(* since the start of its row until now.                                   *)
Since(t) == IF FromBeginning(t) THEN None ELSE IF Cursor THEN t.saved ELSE t.start
Until(t) == IF FromBeginning(t) THEN MaxTime ELSE IF Cursor THEN Latest ELSE clock

Generate ==
    /\ spc = "generate"
    /\ scan' = {d \in Doc : source[d] > 0 /\ source[d] \in Since(task) .. Until(task)}
    /\ upto' = IF Cursor THEN Latest ELSE Until(task)
    /\ next' = Later(task.start, 0)
    /\ clean' = TRUE
    /\ Goto("scan")
    /\ UNCHANGED <<external, tables, batch, task, request, schedule, events>>

(* The documents of a batch, one here.  One that has changed meanwhile is  *)
(* read as it is, or passed over when it has left the range or the source. *)
Batch(d) ==
    /\ spc = "scan" /\ d \in scan
    /\ scan' = scan \ {d}
    /\ LET v == source[d]
           Stored == index' = [index EXCEPT ![task.kb][d] = v]
           Seen == UpdateRows(task.kb, {[r EXCEPT !.end = Place(Later(@, v))] :
                                           r \in RowsOf(task.kb, task.id)})
       IN IF v = 0 \/ v > (IF FromBeginning(task) THEN MaxTime ELSE upto)
          THEN UNCHANGED <<index, logs, next, clean>>
          ELSE /\ next' = Place(Later(next, v))
               /\ \/ Stored /\ Seen /\ UNCHANGED clean
                  \* An error of the upload, or an exception before or after it.
                  \/ BatchFails /\ UNCHANGED index /\ Seen /\ clean' = FALSE
                  \/ BatchFails /\ (Stored \/ UNCHANGED index) /\ UNCHANGED logs /\ clean' = FALSE
    /\ UNCHANGED <<external, conn, cursor, linked, spc, batch, task, upto, request, schedule, events>>

(* Mutant: the cursor is where the source has got to after the documents   *)
(* were read.                                                              *)
PersistedLate == Latest

(* get_max_cursor_value, before the documents were read.                   *)
Persisted == upto

(* persist_sync_state, if all documents were stored.                       *)
Persist ==
    /\ spc = "scan" /\ scan = {}
    /\ cursor' = IF Cursor /\ clean THEN Persisted ELSE cursor
    /\ upto' = None /\ clean' = TRUE
    /\ Goto("end")
    /\ UNCHANGED <<external, index, conn, linked, logs, batch, task, scan, next, request, schedule, events>>

(* Mutant: the snapshot lists what has changed since the cursor. *)
SnapshotOfRange ==
    /\ spc = "snapshot"
    /\ scan' = {d \in Doc : source[d] > 0 /\ source[d] > cursor}
    /\ Goto("prune")
    /\ UNCHANGED <<external, tables, batch, task, upto, next, clean, request, schedule, events>>

(* _collect_prune_snapshot. *)
Snapshot ==
    /\ spc = "snapshot"
    /\ scan' = {d \in Doc : source[d] > 0}
    /\ Goto("prune")
    /\ UNCHANGED <<external, tables, batch, task, upto, next, clean, request, schedule, events>>

(* cleanup_stale_documents_for_task: a document that cannot be deleted     *)
(* stays, all of them if there is no snapshot, and the task is done.       *)
Prune ==
    /\ spc = "prune"
    /\ LET stale == {d \in Doc : /\ index[task.kb][d] > 0 /\ d \notin scan
                                /\ task.kb \in linked /\ conn # "removed"}
       IN \E gone \in IF BatchFails THEN SUBSET stale ELSE {stale} :
             index' = [index EXCEPT ![task.kb] = [d \in Doc |-> IF d \in gone THEN 0 ELSE @[d]]]
    /\ scan' = {}
    /\ Goto("end")
    /\ UNCHANGED <<external, conn, cursor, linked, logs, batch, task, upto, next, clean, request, schedule, events>>

(* done *)
End ==
    /\ spc = "end"
    /\ SetStatus(task, "done")
    /\ Goto("done")
    /\ UNCHANGED <<external, index, conn, cursor, linked, batch, task, range, request, schedule, events>>

Done ==
    /\ spc = "done"
    /\ SetConn("done")
    /\ Goto("again")
    /\ Calls(Sync, task.kb, task.type, IF task.type = "sync" THEN next ELSE None, FALSE)
    /\ UNCHANGED <<external, index, cursor, linked, logs, batch, task, range, request, events>>

Again ==
    /\ spc = "again" /\ stage[Sync] = "none"
    /\ Proceed
    /\ UNCHANGED <<external, tables, batch, request, schedule, events>>

(* An exception of the task. *)
Fail ==
    /\ TaskFails
    /\ spc \in {"generate", "scan", "snapshot", "prune", "end", "done"}
    /\ SetStatus(task, "fail")
    /\ Proceed
    /\ Counted /\ UNCHANGED <<external, index, conn, cursor, linked, batch, request, schedule>>

(* The process dies, and is started again.                                 *)
Crash ==
    /\ TaskFails /\ spc # "idle"
    /\ Goto("idle")
    /\ batch' = {} /\ task' = NoTask
    /\ scan' = {} /\ upto' = None /\ next' = 0 /\ clean' = TRUE
    /\ Returned(Sync)
    /\ Counted /\ UNCHANGED <<external, tables, request>>

----------------------------------------------------------------------------
(* The API server.  A request is the sequence of its statements.           *)

OfEach(ops) ==
    LET kbs == SetToSeq(linked)
    IN FlattenSeq([n \in DOMAIN kbs |->
                      [m \in DOMAIN ops |-> [op |-> ops[m], kb |-> kbs[n]]]])

(* cancel_tasks *)
CancelTasks == OfEach(<<"cancel">>) \o <<[op |-> "stop", kb |-> None]>>

(* schedule_tasks *)
ScheduleTasks == OfEach(IF Prunes THEN <<"resume", "prune">> ELSE <<"resume">>)

SchedulePrune(k) == IF Prunes THEN <<[op |-> "prune", kb |-> k]>> ELSE <<>>

FullSync(k) == <<[op |-> "full", kb |-> k]>> \o SchedulePrune(k)

(* update_connector, rm_connector, rebuild and link_connectors.            *)
Statements(kind, k) ==
    CASE kind = "stop" -> CancelTasks
      [] kind = "resume" -> ScheduleTasks
      [] kind = "reschedule" -> CancelTasks \o ScheduleTasks
      [] kind = "remove" -> CancelTasks \o <<[op |-> "remove", kb |-> None]>>
      [] kind = "rebuild" -> <<[op |-> "forget", kb |-> k], [op |-> "empty", kb |-> k]>> \o FullSync(k)
      [] kind = "link" -> <<[op |-> "link", kb |-> k]>> \o FullSync(k)
      [] kind = "unlink" -> <<[op |-> "unlink", kb |-> k], [op |-> "cancel", kb |-> k]>>

Idle(u) == todo[u] = <<>> /\ stage[u] = "none"

Request(u, kind, k) ==
    /\ Idle(u) /\ kind \in Requests /\ conn # "removed"
    /\ kind = "link" => k \notin linked
    /\ kind = "unlink" => k \in linked
    /\ Counted
    /\ todo' = [todo EXCEPT ![u] = Statements(kind, k)]
    /\ UNCHANGED <<external, tables, syncer, schedule, rebuilt>>

(* Where the latest sync got to, if it is done: poll_range_end.            *)
ResumeFrom(k) ==
    LET IsSync(r) == r.type = "sync"
        rows == SelectSeq(logs[k], IsSync)
    IN IF rows # <<>> /\ Last(rows).status = "done" THEN Last(rows).end ELSE None

Statement(u, op, k) ==
    /\ todo[u] # <<>> /\ stage[u] = "none"
    /\ Head(todo[u]) = [op |-> op, kb |-> k]
    /\ todo' = [todo EXCEPT ![u] = Tail(@)]

Execute(u) ==
    /\ \/ /\ \E k \in Kb : Statement(u, "cancel", k) /\ CancelRows(k)
          /\ UNCHANGED <<index, conn, linked, schedule>>
       \/ /\ Statement(u, "stop", None) /\ SetConn("cancel")
          /\ UNCHANGED <<index, linked, logs, schedule>>
       \/ /\ Statement(u, "remove", None) /\ conn' = "removed"
          /\ UNCHANGED <<index, linked, logs, schedule>>
       \/ /\ \E k \in Kb : Statement(u, "link", k) /\ linked' = linked \cup {k}
          /\ UNCHANGED <<index, conn, logs, schedule>>
       \/ /\ \E k \in Kb : Statement(u, "unlink", k) /\ linked' = linked \ {k}
          /\ UNCHANGED <<index, conn, logs, schedule>>
       \/ /\ \E k \in Kb : Statement(u, "forget", k) /\ logs' = [logs EXCEPT ![k] = <<>>]
          /\ UNCHANGED <<index, conn, linked, schedule>>
       \/ /\ \E k \in Kb : /\ Statement(u, "empty", k)
                           /\ index' = [index EXCEPT ![k] = [d \in Doc |-> 0]]
          /\ UNCHANGED <<conn, linked, logs, schedule>>
       \/ /\ \E k \in Kb :
                \/ Statement(u, "resume", k) /\ Calls(u, k, "sync", ResumeFrom(k), FALSE)
                \/ Statement(u, "full", k) /\ Calls(u, k, "sync", None, TRUE)
                \/ Statement(u, "prune", k) /\ Calls(u, k, "prune", None, FALSE)
          /\ UNCHANGED <<index, conn, linked, logs>>
    /\ rebuilt' = IF Head(todo[u]).op = "empty" THEN rebuilt \cup {Head(todo[u]).kb} ELSE rebuilt
    /\ UNCHANGED <<external, cursor, syncer, events>>

(* The API server dies. *)
RequestDies(u) ==
    /\ TaskFails /\ ~Idle(u)
    /\ todo' = [todo EXCEPT ![u] = <<>>]
    /\ Returned(u)
    /\ Counted /\ UNCHANGED <<external, tables, syncer, rebuilt>>

----------------------------------------------------------------------------
(* The source: its times do not repeat. *)

Write(d) ==
    /\ clock < MaxTime
    /\ clock' = clock + 1
    /\ source' = [source EXCEPT ![d] = clock + 1]
    /\ UNCHANGED <<tables, syncer, request, schedule, events>>

Delete(d) ==
    /\ clock < MaxTime /\ source[d] > 0
    /\ clock' = clock + 1
    /\ source' = [source EXCEPT ![d] = 0]
    /\ UNCHANGED <<tables, syncer, request, schedule, events>>

----------------------------------------------------------------------------
GoodBatch(d) == Batch(d) /\ index'[task.kb][d] = source[d]
GoodPrune == Prune /\ \A d \in Doc \ scan : index'[task.kb][d] = 0

SyncStep ==
    \/ List \/ Take \/ Start \/ Generate \/ Persist \/ Snapshot \/ Prune \/ End \/ Done
    \/ Again \/ ScheduleStep(Sync) \/ \E d \in Doc : Batch(d)

UserStep(u) == Execute(u) \/ ScheduleStep(u)

Next ==
    \/ SyncStep \/ Fail \/ Crash
    \/ \E p \in User \cup {Sync} : ScheduleFails(p)
    \/ \E u \in User : UserStep(u) \/ RequestDies(u)
                       \/ \E kind \in Requests, k \in Kb : Request(u, kind, k)
    \/ \E d \in Doc : Write(d) \/ Delete(d)

Spec == Init /\ [][Next]_vars

(* The sync process and the requests go on; listing, storing and deleting  *)
(* what is tried again and again succeeds at last.                         *)
FairSpec ==
    /\ Spec
    /\ WF_vars(SyncStep)
    /\ \A u \in User : WF_vars(UserStep(u))
    /\ \A d \in Doc : SF_vars(GoodBatch(d))
    /\ SF_vars(GoodPrune)

----------------------------------------------------------------------------
(* Below this time a scheduled task reads nothing.                         *)
From(r) == IF FromBeginning(r) THEN None ELSE IF Cursor THEN cursor ELSE r.start

(* What a scheduled task will not read is in the knowledge base as it is   *)
(* in the source, whatever failed, was stopped, or changed meanwhile.      *)
(* Only a rebuild deletes what the cursor has passed.                      *)
NothingMissed ==
    \A k \in linked \ rebuilt : \A n \in DOMAIN logs[k] :
        LET r == logs[k][n]
        IN r.type = "sync" /\ r.status = "schedule" =>
               \A d \in Doc : source[d] > 0 /\ source[d] < From(r) => index[k][d] = source[d]

(* When the source stops changing, the linked knowledge bases become what  *)
(* it is and stay so.                                                      *)
Synced == <>[](\A k \in linked : index[k] = source)

(* Neither a sync nor a prune spoils a document that is as it is in the    *)
(* source, however requests and changes of the source come between: only a *)
(* rebuild deletes it.                                                     *)
UpToDateStays ==
    [][\A k \in Kb, d \in Doc :
           index[k][d] > 0 /\ index[k][d] = source[d] =>
               \/ index'[k][d] = index[k][d]
               \/ \E u \in User : Statement(u, "empty", k)]_vars

Quiet == spc = "idle" /\ \A u \in User : Idle(u)

(* A connector that is said to be scheduled has work to come to.           *)
ScheduledHasWork ==
    Quiet /\ conn = "schedule" /\ linked # {} =>
        \E k \in linked : \E n \in DOMAIN logs[k] : logs[k][n].status = "schedule"
=============================================================================
