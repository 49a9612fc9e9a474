----------------------------- MODULE DocChunking -----------------------------
(***************************************************************************)
(* The parsing of one document: requests of the API server split it into   *)
(* page-range tasks, a Redis stream hands these to task executors, which   *)
(* insert their chunks into the document store, and the API server derives *)
(* the status of the document from the rows of its tasks.                  *)
(*                                                                         *)
(* A task is <<run, part>>: the run-th request that queued tasks and a     *)
(* page range.  A page range yields one chunk, whose id the code derives   *)
(* from the content, or none if it is blank.  Progress is abstracted to    *)
(* what the code compares it with.                                         *)
(***************************************************************************)
EXTENDS ChunkCounter, Sequences

CONSTANTS
    Api,            \* the API server's request threads
    Server,         \* its thread that derives the status of documents
    MaxRuns,        \* bound: the requests that queue tasks
    Parts,          \* the number of page ranges, 0 if the file cannot be read
    Blank,          \* the page ranges without text
    Requests,       \* the kinds of requests that arrive
    SameConfig,     \* parse requests use the same parser configuration
    Faulty,         \* parsing, embedding or the document store may fail
    MaxCrashes,     \* bound: crashes of executors
    ApiFails        \* the API server may die or lose Redis in a request

Run == 1..MaxRuns
Part == 1..Parts
NoSync == [run |-> "none", prog |-> "none"]
Selected == [run |-> "any", prog |-> "any"]
SyncResult == [run : {"RUNNING", "FAIL", "DONE"}, prog : {"keep", "mid", "bad", "one"}]
Syncer == Worker \cup {Server}

ASSUME ChunkingAssumption ==
    /\ MaxRuns \in Nat /\ Parts \in Nat /\ MaxCrashes \in Nat
    /\ Task = Run \X Part /\ Blank \subseteq Part
    /\ Server \notin Worker
    /\ SameConfig \in BOOLEAN /\ Faulty \in BOOLEAN /\ ApiFails \in BOOLEAN

VARIABLES
    \* the database
    docRun, docProg, chunkNum,
    rows,       \* the tasks that have a row
    prog,       \* progress of a task: queued 0.0, going, done 1.0, failed -1
    ids,        \* the tasks whose row lists their chunk
    tries,      \* retry_count
    \* Redis
    cancelled,  \* the tasks with a <task>-cancel key
    stream,     \* the messages nobody was given
    pel,        \* the messages an executor was given and did not ack
    \* the document store
    store,
    \* the executors
    wpc, wtask,
    replay,     \* what the iterator over the own unacked messages has left
    fault,      \* an exception is on its way to the executor's handle_task
    crashes,
    \* the API server
    run,        \* the requests that queued tasks
    todo,       \* what a request still has to do, step by step
    plan,       \* what queue_tasks worked out
    \* both
    sync        \* what a call of _sync_progress is about to write; Selected
                \* if get_unfinished_docs has just returned the document

docVars == <<docRun, docProg, chunkNum>>
rowVars == <<rows, prog, ids, tries>>
queueVars == <<stream, pel>>
workVars == <<wpc, wtask, replay, fault, crashes>>
apiVars == <<run, todo, plan>>
vars == <<docVars, rowVars, queueVars, workVars, apiVars, counterVars,
          cancelled, store, sync>>

PartOf(t) == t[2]
ChunkOf(t) == IF SameConfig THEN <<1, PartOf(t)>> ELSE t
NoPlan == [reuse |-> {}, drop |-> {}, found |-> FALSE, fresh |-> {}]

Init ==
    /\ CounterInit
    /\ docRun = "UNSTART" /\ docProg = "zero" /\ chunkNum = 0
    /\ rows = {} /\ ids = {}
    /\ prog = [t \in Task |-> "queued"] /\ tries = [t \in Task |-> 0]
    /\ cancelled = {} /\ stream = <<>> /\ store = {}
    /\ pel = [w \in Worker |-> {}]
    /\ wpc = [w \in Worker |-> "idle"] /\ wtask = [w \in Worker |-> NoTask]
    /\ replay = [w \in Worker |-> {}] /\ fault = [w \in Worker |-> FALSE]
    /\ crashes = 0 /\ run = 0
    /\ todo = [a \in Api |-> <<>>] /\ plan = [a \in Api |-> NoPlan]
    /\ sync = [x \in Syncer |-> NoSync]

-----------------------------------------------------------------------------
(* Requests. *)

QueueTasks == <<"plan", "dropRows", "dropPlanned", "setChunkNum", "insertRows",
                "begin", "seed", "publish">>
ParseSteps == <<"deleteRows", "deleteChunks">> \o QueueTasks
ChunksSteps == <<"deleteChunks", "deleteRows">> \o QueueTasks
StopSteps == <<"abort", "cancelRows", "stopDoc", "deleteChunks">>
CancelSteps == <<"abort", "cancelRows", "cancelDoc">>

Quiet == stream = <<>> /\ \A w \in Worker : wpc[w] = "idle" /\ pel[w] = {}

AtRest == Quiet /\ sync[Server] = NoSync /\ \A a \in Api : todo[a] = <<>>

Arrives(a, kind) ==
    /\ kind \in Requests /\ todo[a] = <<>>
    /\ UNCHANGED <<rowVars, queueVars, workVars, counterVars, cancelled, store, sync,
                   run, plan>>

MayQueue ==
    /\ run + Cardinality({b \in Api : todo[b] # <<>>}) < MaxRuns
    /\ Disjoint => AtRest

(* POST /documents/parse, which does not ask whether the document is being *)
(* parsed.                                                                 *)
Parse(a) ==
    /\ Arrives(a, "parse") /\ MayQueue
    /\ docRun' = "RUNNING" /\ docProg' = "zero"
    /\ chunkNum' = IF docRun = "DONE" THEN 0 ELSE chunkNum
    /\ todo' = [todo EXCEPT ![a] = ParseSteps]

(* POST /chunks, which does: its update is conditional. *)
ParseChunks(a) ==
    /\ Arrives(a, "chunks") /\ MayQueue
    /\ docRun # "RUNNING"
    /\ docRun' = "RUNNING" /\ docProg' = "zero" /\ chunkNum' = 0
    /\ todo' = [todo EXCEPT ![a] = ChunksSteps]

(* POST /documents/ingest with run=1; chunks of finished tasks are reused. *)
Rerun(a) ==
    /\ Arrives(a, "rerun") /\ MayQueue
    /\ docRun' = "RUNNING" /\ docProg' = "zero" /\ UNCHANGED chunkNum
    /\ todo' = [todo EXCEPT ![a] = QueueTasks]

CanStop == docRun \in {"RUNNING", "CANCEL"} \/ \E t \in rows : prog[t] # "done"

(* POST /documents/stop; the older DELETE /chunks asks for more and does   *)
(* the same.                                                               *)
Stop(a) ==
    /\ Arrives(a, "stop") /\ CanStop
    /\ todo' = [todo EXCEPT ![a] = StopSteps]
    /\ UNCHANGED docVars

(* POST /documents/ingest with run=2 keeps the chunks. *)
Cancel(a) ==
    /\ Arrives(a, "cancel") /\ CanStop
    /\ todo' = [todo EXCEPT ![a] = CancelSteps]
    /\ UNCHANGED docVars

(* The steps of the requests. *)

Do(a, step) ==
    /\ todo[a] # <<>> /\ Head(todo[a]) = step
    /\ todo' = [todo EXCEPT ![a] = Tail(@)]

(* The columns go with the rows. *)
NoRows ==
    /\ rows' = {} /\ ids' = {}
    /\ prog' = [t \in Task |-> "queued"] /\ tries' = [t \in Task |-> 0]

DeleteRows(a) ==
    /\ Do(a, "deleteRows")
    /\ NoRows
    /\ UNCHANGED <<docVars, queueVars, workVars, counterVars,
                   cancelled, store, sync, run, plan>>

DeleteChunks(a) ==
    /\ Do(a, "deleteChunks")
    /\ store' = {}
    /\ UNCHANGED <<docVars, rowVars, queueVars, workVars, counterVars, cancelled,
                   sync, run, plan>>

(* Failures of Redis are logged, here ... *)
TryAbort(fails) == Abort \/ (fails /\ UNCHANGED counterVars)

(* cancel_all_task_of. *)
AbortRun(a) ==
    /\ Do(a, "abort")
    /\ TryAbort(ApiFails)
    /\ UNCHANGED <<docVars, rowVars, queueVars, workVars, cancelled, store, sync,
                   run, plan>>

(* ... and here, key by key. *)
CancelRows(a) ==
    /\ Do(a, "cancelRows")
    /\ \E reached \in SUBSET rows :
          /\ ~ApiFails => reached = rows
          /\ cancelled' = cancelled \cup reached
    /\ UNCHANGED <<docVars, rowVars, queueVars, workVars, counterVars, store, sync,
                   run, plan>>

StopDoc(a) ==
    /\ Do(a, "stopDoc") \/ Do(a, "cancelDoc")
    /\ docRun' = "CANCEL" /\ docProg' = "zero"
    /\ chunkNum' = IF Head(todo[a]) = "stopDoc" THEN 0 ELSE chunkNum
    /\ UNCHANGED <<rowVars, queueVars, workVars, counterVars, cancelled, store, sync,
                   run, plan>>

(* Mutant: the digest is enough. *)
ReusableByDigest(p) == SameConfig /\ \E t \in rows : PartOf(t) = p

(* The row reuse_prev_task_chunks finds first: the latest for the pages    *)
(* with the same digest.                                                   *)
Reusable(p) ==
    /\ SameConfig
    /\ \E t \in rows :
          /\ PartOf(t) = p /\ \A u \in rows : PartOf(u) = p => u[1] <= t[1]
          /\ prog[t] = "done" /\ t \in ids

(* queue_tasks: get_tasks and reuse_prev_task_chunks. *)
Plan(a) ==
    /\ Do(a, "plan")
    /\ LET reuse == {p \in Part : Reusable(p)} IN
       plan' = [plan EXCEPT ![a] =
                  [reuse |-> reuse,
                   drop |-> {ChunkOf(t) : t \in {u \in rows \cap ids : PartOf(u) \notin reuse}},
                   found |-> rows # {},
                   fresh |-> {}]]
    /\ UNCHANGED <<docVars, rowVars, queueVars, workVars, counterVars, cancelled, store,
                   sync, run>>

(* Mutant: the chunks of the earlier request stay. *)
DropNothing(a) ==
    /\ Do(a, "dropPlanned")
    /\ UNCHANGED <<docVars, rowVars, queueVars, workVars, counterVars, cancelled, sync,
                   store, run, plan>>

DropRows(a) ==
    /\ Do(a, "dropRows")
    /\ IF plan[a].found THEN NoRows ELSE UNCHANGED rowVars
    /\ UNCHANGED <<docVars, queueVars, workVars, counterVars, cancelled, store, sync, run,
                   plan>>

(* Mutant: the chunks of the earlier request stay counted. *)
KeepChunkNum(a) ==
    /\ Do(a, "setChunkNum")
    /\ UNCHANGED <<docVars, rowVars, queueVars, workVars, counterVars,
                   cancelled, store, sync, run, plan>>

DropPlanned(a) ==
    /\ Do(a, "dropPlanned")
    /\ store' = store \ plan[a].drop
    /\ UNCHANGED <<docVars, rowVars, queueVars, workVars, counterVars, cancelled, sync,
                   run, plan>>

SetChunkNum(a) ==
    /\ Do(a, "setChunkNum")
    /\ chunkNum' = Cardinality(plan[a].reuse)
    /\ UNCHANGED <<docRun, docProg, rowVars, queueVars, workVars, counterVars,
                   cancelled, store, sync, run, plan>>

InsertRows(a) ==
    /\ Do(a, "insertRows")
    /\ run < MaxRuns
    /\ run' = run + 1
    /\ LET new == {run'} \X Part
           reused == {run'} \X plan[a].reuse IN
       /\ rows' = rows \cup new
       /\ prog' = [t \in Task |-> IF t \in reused THEN "done" ELSE prog[t]]
       /\ ids' = ids \cup reused
       /\ UNCHANGED tries
       /\ plan' = [plan EXCEPT ![a].fresh = new \ reused]
    /\ UNCHANGED <<docVars, queueVars, workVars, counterVars, cancelled, store, sync>>

Begin(a) ==
    /\ Do(a, "begin")
    /\ docRun' = "RUNNING" /\ docProg' = "mid"
    /\ UNCHANGED <<chunkNum, rowVars, queueVars, workVars, counterVars, cancelled,
                   store, sync, run, plan>>

SeedRun(a) ==
    /\ Do(a, "seed")
    /\ IF plan[a].fresh # {} THEN Seed(plan[a].fresh) ELSE UNCHANGED counterVars
    /\ UNCHANGED <<docVars, rowVars, queueVars, workVars, cancelled, store, sync, run,
                   plan>>

(* The messages go out one by one, in page order. *)
Publish(a) ==
    /\ todo[a] # <<>> /\ Head(todo[a]) = "publish"
    /\ IF plan[a].fresh = {}
       THEN todo' = [todo EXCEPT ![a] = <<>>] /\ plan' = [plan EXCEPT ![a] = NoPlan]
                                              /\ UNCHANGED stream
       ELSE \E t \in plan[a].fresh :
               /\ \A u \in plan[a].fresh : PartOf(t) <= PartOf(u)
               /\ stream' = Append(stream, t)
               /\ plan' = [plan EXCEPT ![a].fresh = @ \ {t}]
               /\ UNCHANGED todo
    /\ UNCHANGED <<docVars, rowVars, pel, workVars, counterVars, cancelled, store,
                   sync, run>>

(* queue_product fails three times. *)
PublishFails(a) ==
    /\ ApiFails
    /\ todo[a] # <<>> /\ Head(todo[a]) = "publish" /\ plan[a].fresh # {}
    /\ TryAbort(TRUE)
    /\ todo' = [todo EXCEPT ![a] = <<>>] /\ plan' = [plan EXCEPT ![a] = NoPlan]
    /\ UNCHANGED <<docVars, rowVars, queueVars, workVars, cancelled, store, sync, run>>

(* The server dies, or the database or the store raises. *)
RequestDies(a) ==
    /\ ApiFails /\ todo[a] # <<>>
    /\ todo' = [todo EXCEPT ![a] = <<>>] /\ plan' = [plan EXCEPT ![a] = NoPlan]
    /\ UNCHANGED <<docVars, rowVars, queueVars, workVars, counterVars, cancelled, store,
                   sync, run>>

-----------------------------------------------------------------------------
(* The status of the document: _sync_progress, which the API server runs   *)
(* for all documents and an executor for the one of its task.              *)

Unfinished == {t \in rows : prog[t] \in {"queued", "going"}}

(* Mutant: a document fails if all its tasks do. *)
BadIfAll == IF \A t \in rows : prog[t] = "failed" THEN rows ELSE {}

Bad == {t \in rows : prog[t] = "failed"}

(* What it derives from the tasks, up to its update ... *)
Derived ==
    IF rows = {} \/ docRun = "CANCEL" THEN NoSync
    ELSE IF Unfinished # {}
    THEN [run |-> "RUNNING",
          prog |-> IF \E t \in rows : prog[t] \in {"going", "done"} THEN "mid" ELSE "keep"]
    ELSE IF Bad # {} THEN [run |-> "FAIL", prog |-> "bad"]
    ELSE [run |-> "DONE", prog |-> "one"]

(* ... which leaves a cancelled document alone and may fail unnoticed. *)
WriteDerived(x) ==
    /\ \/ /\ docRun # "CANCEL"
          /\ docRun' = sync[x].run
          /\ docProg' = IF sync[x].prog = "keep" THEN docProg ELSE sync[x].prog
       \/ /\ docRun = "CANCEL" \/ Faulty
          /\ UNCHANGED <<docRun, docProg>>
    /\ sync' = [sync EXCEPT ![x] = NoSync]
    /\ UNCHANGED chunkNum

-----------------------------------------------------------------------------
(* The executors. *)

Goto(w, l) == wpc' = [wpc EXCEPT ![w] = l]

(* update_progress(-1): a task that has a row fails, and its document with *)
(* it, whatever the status of the document is.                             *)
FailTask(t) ==
    IF t \in rows
    THEN /\ prog' = [prog EXCEPT ![t] = "failed"]
         /\ docRun' = "FAIL" /\ docProg' = "bad"
    ELSE UNCHANGED <<prog, docRun, docProg>>

(* set_progress(-1) logs what the database raises. *)
ReportFailure(t) == FailTask(t) \/ (Faulty /\ UNCHANGED <<prog, docRun, docProg>>)

(* has_canceled says no; it says so too if Redis does not answer. *)
NotCancelled(t) == t \notin cancelled \/ Faulty

(* Mutant: messages are acked on delivery. *)
CollectAcks(w) ==
    /\ wpc[w] = "idle" /\ stream # <<>>
    /\ wtask' = [wtask EXCEPT ![w] = Head(stream)]
    /\ stream' = Tail(stream)
    /\ Goto(w, "received")
    /\ UNCHANGED <<docVars, rowVars, counterVars, cancelled, store, fault, crashes,
                   apiVars, sync, pel, replay>>

(* Mutant: the own unacked messages are read from the start each time. *)
CollectAgain(w) ==
    /\ wpc[w] = "idle"
    /\ \/ \E t \in replay[w] : wtask' = [wtask EXCEPT ![w] = t] /\ UNCHANGED queueVars
       \/ /\ stream # <<>>
          /\ wtask' = [wtask EXCEPT ![w] = Head(stream)]
          /\ pel' = [pel EXCEPT ![w] = @ \cup {Head(stream)}]
          /\ stream' = Tail(stream)
    /\ Goto(w, "received")
    /\ UNCHANGED <<docVars, rowVars, counterVars, cancelled, store, fault, crashes,
                   apiVars, sync, replay>>

(* collect(): the own unacked messages first, then the new ones. *)
Collect(w) ==
    /\ wpc[w] = "idle"
    /\ \/ \E t \in replay[w] :
             /\ wtask' = [wtask EXCEPT ![w] = t]
             /\ replay' = [replay EXCEPT ![w] = @ \ {t}]
             /\ UNCHANGED queueVars
       \/ /\ replay[w] = {} /\ stream # <<>>
          /\ wtask' = [wtask EXCEPT ![w] = Head(stream)]
          /\ pel' = [pel EXCEPT ![w] = @ \cup {Head(stream)}]
          /\ stream' = Tail(stream)
          /\ UNCHANGED replay
    /\ Goto(w, "received")
    /\ UNCHANGED <<docVars, rowVars, counterVars, cancelled, store, fault, crashes,
                   apiVars, sync>>

(* get_task and has_canceled; a task without a row is unknown. *)
Receive(w) ==
    /\ wpc[w] = "received"
    /\ LET t == wtask[w] IN
       /\ t \in rows => tries[t] < 3
       /\ IF t \in rows
          THEN /\ tries' = [tries EXCEPT ![t] = @ + 1]
               /\ prog' = [prog EXCEPT ![t] = "going"]
          ELSE UNCHANGED <<tries, prog>>
       /\ \/ t \in rows /\ NotCancelled(t) /\ Goto(w, "build")
          \/ t \notin rows \ cancelled /\ Goto(w, "ack")
    /\ UNCHANGED <<docVars, rows, ids, queueVars, counterVars, cancelled, store, wtask,
                   replay, fault, crashes, apiVars, sync>>

(* The fourth delivery. *)
Abandon(w) ==
    /\ wpc[w] = "received"
    /\ LET t == wtask[w] IN
       /\ t \in rows /\ tries[t] >= 3
       /\ tries' = [tries EXCEPT ![t] = @ + 1]
       /\ FailTask(t)
    /\ TryAbort(Faulty)
    /\ Goto(w, "ack")
    /\ UNCHANGED <<chunkNum, rows, ids, queueVars, cancelled, store, wtask, replay, fault,
                   crashes, apiVars, sync>>

Handling == {"build", "insert", "index", "count", "credit", "finish", "stop"}

(* The handler asks for the cancel key between its steps, by has_canceled  *)
(* or in a progress callback, and the answer may be outdated when it acts  *)
(* on it: the next step does not look again.                               *)
Ask(w, to) ==
    \/ NotCancelled(wtask[w]) /\ Goto(w, to)
    \/ wtask[w] \in cancelled /\ Goto(w, "stop")

(* The answer is yes, to what was asked after the last step or before the  *)
(* next one.                                                               *)
SeeCancel(w) ==
    /\ wpc[w] \in Handling
    /\ wtask[w] \in cancelled
    /\ ReportFailure(wtask[w])
    /\ TryAbort(Faulty)
    /\ Goto(w, "leave")
    /\ UNCHANGED <<chunkNum, rows, ids, tries, queueVars, cancelled, store, wtask, replay,
                   fault, crashes, apiVars, sync>>

Proceeds(w, from, to) ==
    /\ wpc[w] = from
    /\ Ask(w, to)
    /\ UNCHANGED <<queueVars, wtask, replay, fault, crashes, apiVars, cancelled, sync>>

(* build_chunks and the embedding; a blank part skips to the gate. *)
Build(w) ==
    /\ Proceeds(w, "build", IF PartOf(wtask[w]) \in Blank THEN "credit" ELSE "insert")
    /\ UNCHANGED <<docVars, rowVars, counterVars, store>>

(* _insert_main_chunks. *)
Insert(w) ==
    /\ Proceeds(w, "insert", "index")
    /\ store' = store \cup {ChunkOf(wtask[w])}
    /\ UNCHANGED <<docVars, rowVars, counterVars>>

(* update_chunk_ids, an UPDATE that matches nothing if the row is gone.    *)
Index(w) ==
    /\ Proceeds(w, "index", "count")
    /\ ids' = ids \cup ({wtask[w]} \cap rows)
    /\ UNCHANGED <<docVars, rows, prog, tries, counterVars, store>>

(* increment_chunk_num. *)
Increment(w) ==
    /\ Proceeds(w, "count", "credit")
    /\ chunkNum' = chunkNum + 1
    /\ UNCHANGED <<docRun, docProg, rowVars, counterVars, store>>

(* Mutant: a task that is delivered again enters the gate again. *)
CreditTwice(w) ==
    /\ wpc[w] = "credit"
    /\ marked' = marked \cup {wtask[w]}
    /\ gate' = [gate EXCEPT ![w] = "marked"]
    /\ credits' = [credits EXCEPT ![w] = wtask[w]]
    /\ Goto(w, "gate")
    /\ UNCHANGED <<docVars, rowVars, queueVars, wtask, replay, fault, crashes, apiVars,
                   pending, owed, paid, lasts, cancelled, store, sync>>

(* run_document_post_chunking_if_last: a task that was credited before is  *)
(* told that others remain.                                                *)
Credit(w) ==
    /\ wpc[w] = "credit"
    /\ \/ Mark(w, wtask[w]) /\ Goto(w, "gate")
       \/ wtask[w] \in marked /\ UNCHANGED counterVars /\ Ask(w, "finish")
    /\ UNCHANGED <<docVars, rowVars, queueVars, wtask, replay, fault, crashes, apiVars,
                   cancelled, store, sync>>

Gate(w) ==
    /\ wpc[w] = "gate"
    /\ \/ NoCounter(w) /\ Ask(w, "finish")
       \/ FoundCounter(w) /\ UNCHANGED wpc
       \/ Decrement(w) /\ IF gate'[w] = "last" THEN Goto(w, "finalize") ELSE Ask(w, "finish")
    /\ UNCHANGED <<docVars, rowVars, queueVars, wtask, replay, fault, crashes, apiVars,
                   cancelled, store, sync>>

(* A command of credit_doc_chunking_task fails before or after its effect: *)
(* the task is not the last one, as far as it knows.                       *)
CreditFails(w) ==
    /\ Faulty
    /\ \/ wpc[w] = "credit" /\ UNCHANGED counterVars
       \/ wpc[w] \in {"gate", "finalize"} /\ CreditCrash(w)
    /\ Ask(w, "finish")
    /\ UNCHANGED <<docVars, rowVars, queueVars, wtask, replay, fault, crashes, apiVars,
                   cancelled, store, sync>>

(* The finalizers, whose rows are left out, and their finally clause. *)
Finalize(w) ==
    /\ wpc[w] = "finalize"
    /\ Clear(w) \/ (Faulty /\ CreditCrash(w))
    /\ Ask(w, "finish")
    /\ UNCHANGED <<docVars, rowVars, queueVars, wtask, replay, fault, crashes, apiVars,
                   cancelled, store, sync>>

(* The progress callback with 1.0. *)
Finish(w) ==
    /\ wpc[w] = "finish"
    /\ Goto(w, "leave")
    /\ \/ wtask[w] \in rows /\ prog' = [prog EXCEPT ![wtask[w]] = "done"]
       \/ (wtask[w] \notin rows \/ Faulty) /\ UNCHANGED prog
    /\ UNCHANGED <<docVars, rows, ids, tries, queueVars, wtask, replay, fault, crashes,
                   apiVars, counterVars, cancelled, store, sync>>

(* An exception: the store or a model fails, or the task takes three       *)
(* hours.  An insertion may have reached the store before it failed.       *)
Fail(w) ==
    /\ Faulty
    /\ \/ /\ wpc[w] \in {"build", "insert", "count"} /\ TryAbort(TRUE)
          /\ \/ UNCHANGED store
             \/ wpc[w] = "insert" /\ store' = store \cup {ChunkOf(wtask[w])}
       \/ wpc[w] = "finalize" /\ (Clear(w) \/ CreditCrash(w)) /\ UNCHANGED store
    /\ fault' = [fault EXCEPT ![w] = TRUE]
    /\ Goto(w, "leave")
    /\ UNCHANGED <<docVars, rowVars, queueVars, wtask, replay, crashes, apiVars,
                   cancelled, sync>>

AfterHandler(w) == IF fault[w] THEN "report" ELSE "log"

(* The finally clause of TaskHandler.handle_task. *)
LeaveHandler(w) ==
    /\ wpc[w] = "leave"
    /\ \/ wtask[w] \in cancelled /\ TryAbort(Faulty) /\ Goto(w, "purge")
       \/ NotCancelled(wtask[w]) /\ UNCHANGED counterVars /\ Goto(w, AfterHandler(w))
    /\ UNCHANGED <<docVars, rowVars, queueVars, wtask, replay, fault, crashes, apiVars,
                   cancelled, store, sync>>

(* Mutant: only the chunks that a row lists are deleted. *)
PurgeListed(w) ==
    /\ wpc[w] = "purge"
    /\ store' = store \ {ChunkOf(t) : t \in ids}
    /\ Goto(w, AfterHandler(w))
    /\ UNCHANGED <<docVars, rowVars, queueVars, wtask, replay, fault, crashes, apiVars,
                   counterVars, cancelled, sync>>

(* It deletes every chunk of the document; a failure is only logged. *)
Purge(w) ==
    /\ wpc[w] = "purge"
    /\ store' = {} \/ (Faulty /\ UNCHANGED store)
    /\ Goto(w, AfterHandler(w))
    /\ UNCHANGED <<docVars, rowVars, queueVars, wtask, replay, fault, crashes, apiVars,
                   counterVars, cancelled, sync>>

(* handle_task reports the exception it caught. *)
Report(w) ==
    /\ wpc[w] = "report"
    /\ ReportFailure(wtask[w])
    /\ fault' = [fault EXCEPT ![w] = FALSE]
    /\ Goto(w, "log")
    /\ UNCHANGED <<chunkNum, rows, ids, tries, queueVars, wtask, replay, crashes, apiVars,
                   counterVars, cancelled, store, sync>>

(* record_pipeline_operation brings the status of the document up to date  *)
(* before it logs it, outside the lock of the API server's thread.         *)
LogRead(w) ==
    /\ wpc[w] = "log"
    /\ sync' = [sync EXCEPT ![w] = Derived]
    /\ Goto(w, IF Derived = NoSync THEN "ack" ELSE "logging")
    /\ UNCHANGED <<docVars, rowVars, queueVars, wtask, replay, fault, crashes, apiVars,
                   counterVars, cancelled, store>>

LogWrite(w) ==
    /\ wpc[w] = "logging"
    /\ WriteDerived(w)
    /\ Goto(w, "ack")
    /\ UNCHANGED <<rowVars, queueVars, wtask, replay, fault, crashes, apiVars,
                   counterVars, cancelled, store>>

(* The database fails where nothing catches it: get_task raises out of     *)
(* collect(), or the log out of a finally clause.  The message stays       *)
(* unacked, and only a restart reads the unacked ones again.               *)
Drop(w) ==
    /\ Faulty
    /\ wpc[w] \in {"received", "log", "logging"}
    /\ wtask' = [wtask EXCEPT ![w] = NoTask]
    /\ sync' = [sync EXCEPT ![w] = NoSync]
    /\ Goto(w, "idle")
    /\ UNCHANGED <<docVars, rowVars, queueVars, replay, fault, crashes, apiVars,
                   counterVars, cancelled, store>>

Ack(w) ==
    /\ wpc[w] = "ack"
    /\ pel' = [pel EXCEPT ![w] = @ \ {wtask[w]}]
    /\ wtask' = [wtask EXCEPT ![w] = NoTask]
    /\ Goto(w, "idle")
    /\ UNCHANGED <<docVars, rowVars, stream, replay, fault, crashes, apiVars,
                   counterVars, cancelled, store, sync>>

(* Mutant: the successor starts with the new messages. *)
CrashForgets(w) ==
    /\ crashes < MaxCrashes /\ wpc[w] # "idle"
    /\ crashes' = crashes + 1
    /\ CreditCrash(w) \/ (gate[w] = "out" /\ UNCHANGED counterVars)
    /\ wtask' = [wtask EXCEPT ![w] = NoTask]
    /\ fault' = [fault EXCEPT ![w] = FALSE]
    /\ sync' = [sync EXCEPT ![w] = NoSync]
    /\ Goto(w, "idle")
    /\ UNCHANGED <<docVars, rowVars, queueVars, replay, apiVars, cancelled, store>>

(* The process dies and its successor, of the same name, starts over with  *)
(* the messages it had not acked.                                          *)
Crash(w) ==
    /\ crashes < MaxCrashes /\ wpc[w] # "idle"
    /\ crashes' = crashes + 1
    /\ CreditCrash(w) \/ (gate[w] = "out" /\ UNCHANGED counterVars)
    /\ replay' = [replay EXCEPT ![w] = pel[w]]
    /\ wtask' = [wtask EXCEPT ![w] = NoTask]
    /\ fault' = [fault EXCEPT ![w] = FALSE]
    /\ sync' = [sync EXCEPT ![w] = NoSync]
    /\ Goto(w, "idle")
    /\ UNCHANGED <<docVars, rowVars, queueVars, apiVars, cancelled, store>>

-----------------------------------------------------------------------------
(* The progress thread of the API server. *)

(* Mutant: a document is looked at while it has unfinished tasks. *)
SeesUnfinished == docRun # "CANCEL" /\ Unfinished # {}

(* get_unfinished_docs *)
SyncSees ==
    /\ docRun # "CANCEL"
    /\ \/ docProg = "mid"
       \/ Unfinished # {}
       \/ docProg = "bad" /\ docRun = "FAIL" /\ rows \ Bad # {}

SyncSelect ==
    /\ sync[Server] = NoSync /\ SyncSees
    /\ sync' = [sync EXCEPT ![Server] = Selected]
    /\ UNCHANGED <<docVars, rowVars, queueVars, workVars, apiVars, counterVars, cancelled,
                   store>>

(* It meets the document when it has dealt with those before it. *)
SyncRead ==
    /\ sync[Server] = Selected
    /\ sync' = [sync EXCEPT ![Server] = Derived]
    /\ UNCHANGED <<docVars, rowVars, queueVars, workVars, apiVars, counterVars, cancelled,
                   store>>

SyncWrite ==
    /\ sync[Server] \notin {NoSync, Selected}
    /\ WriteDerived(Server)
    /\ UNCHANGED <<rowVars, queueVars, workVars, apiVars, counterVars, cancelled, store>>

-----------------------------------------------------------------------------
Arrive(a) == Parse(a) \/ ParseChunks(a) \/ Rerun(a) \/ Stop(a) \/ Cancel(a)

RequestStep(a) ==
    \/ DeleteRows(a) \/ DeleteChunks(a) \/ AbortRun(a) \/ CancelRows(a) \/ StopDoc(a)
    \/ Plan(a) \/ DropRows(a) \/ DropPlanned(a) \/ SetChunkNum(a) \/ InsertRows(a)
    \/ Begin(a) \/ SeedRun(a) \/ Publish(a)

WorkerStep(w) ==
    \/ Collect(w) \/ Receive(w) \/ Abandon(w) \/ SeeCancel(w)
    \/ Build(w) \/ Insert(w) \/ Index(w) \/ Increment(w) \/ Credit(w) \/ Gate(w)
    \/ Finalize(w) \/ Finish(w) \/ LeaveHandler(w) \/ Purge(w) \/ Report(w)
    \/ LogRead(w) \/ LogWrite(w) \/ Ack(w)

Next ==
    \/ \E a \in Api : Arrive(a) \/ RequestStep(a) \/ PublishFails(a) \/ RequestDies(a)
    \/ \E w \in Worker : WorkerStep(w) \/ CreditFails(w) \/ Fail(w) \/ Drop(w) \/ Crash(w)
    \/ SyncSelect \/ SyncRead \/ SyncWrite

Spec == Init /\ [][Next]_vars

(* Requests, executors and the progress thread go on; requests arrive and  *)
(* things fail when they like.                                             *)
LiveSpec ==
    /\ Spec
    /\ \A a \in Api : WF_vars(RequestStep(a))
    /\ \A w \in Worker : WF_vars(WorkerStep(w))
    /\ WF_vars(SyncSelect) /\ WF_vars(SyncRead) /\ WF_vars(SyncWrite)

-----------------------------------------------------------------------------
DocTypeOK ==
    /\ docRun \in {"UNSTART", "RUNNING", "CANCEL", "DONE", "FAIL"}
    /\ docProg \in {"zero", "mid", "one", "bad"} /\ chunkNum \in Nat

SyncTypeOK ==
    sync \in [Syncer -> SyncResult \cup {NoSync, Selected}]

RowTypeOK ==
    /\ rows \subseteq Task /\ ids \subseteq Task /\ cancelled \subseteq Task
    /\ prog \in [Task -> {"queued", "going", "done", "failed"}]
    /\ tries \in [Task -> Nat]
    /\ store \subseteq Task

WorkTypeOK ==
    /\ stream \in Seq(Task) /\ pel \in [Worker -> SUBSET Task]
    /\ wpc \in [Worker -> Handling \cup {"idle", "received", "gate", "finalize",
                                         "leave", "purge", "report", "log", "logging",
                                         "ack"}]
    /\ wtask \in [Worker -> Task \cup {NoTask}]
    /\ replay \in [Worker -> SUBSET Task] /\ fault \in [Worker -> BOOLEAN]
    /\ crashes \in 0..MaxCrashes

ApiTypeOK ==
    /\ run \in 0..MaxRuns
    /\ plan \in [Api -> [reuse : SUBSET Part, drop : SUBSET Task, found : BOOLEAN,
                         fresh : SUBSET Task]]

TypeOK ==
    DocTypeOK /\ SyncTypeOK /\ RowTypeOK /\ WorkTypeOK /\ ApiTypeOK /\ CounterTypeOK

Current == {<<run, p>> : p \in Part \ Blank}
Expected == {ChunkOf(t) : t \in Current}

(* What an executor works on is a message it has not acked, and the gate   *)
(* is entered by the step of the handler that credits the task only.       *)
HandledIsUnacked ==
    \A w \in Worker :
        /\ wpc[w] = "idle" <=> wtask[w] = NoTask
        /\ wpc[w] # "idle" => wtask[w] \in pel[w]
        /\ replay[w] \subseteq pel[w] \ {wtask[w]}
        /\ wpc[w] = "gate" <=> gate[w] \in {"marked", "found"}
        /\ wpc[w] = "finalize" <=> gate[w] = "last"
        /\ gate[w] # "out" => credits[w] = wtask[w]
        /\ wpc[w] = "logging" <=> sync[w] # NoSync
        /\ sync[w] # Selected

(* The inductive invariant: with what ChunkCounter says of the executors    *)
(* inside the gate and of a spent counter.                                 *)
PipelineInv == TypeOK /\ HandledIsUnacked /\ CreditsOnce /\ SpentAfterLast

(* At-least-once: a task that is neither done nor failed has its message   *)
(* in the stream or with an executor, or its cancel key set, or a request  *)
(* is still publishing it.  Crashes do not lose it.                        *)
NothingForgotten ==
    \A t \in rows :
        prog[t] \in {"queued", "going"} /\ t \notin cancelled =>
            \/ \E i \in DOMAIN stream : stream[i] = t
            \/ \E w \in Worker : t \in pel[w]
            \/ \E a \in Api : t \in plan[a].fresh

(* A task is given up when it is delivered for the fourth time ("Task is    *)
(* abandoned after 3 times attempts"), and only a crash costs an attempt:  *)
(* what an executor is given was tried as often as executors crashed at    *)
(* most.                                                                   *)
TriesAreCrashes == \A w \in Worker : wpc[w] = "received" => tries[wtask[w]] <= crashes

(* "only the last chunking task for a doc runs post-processing": when the  *)
(* finalizers run, every task of the document has its chunk.               *)
LastTaskOnly ==
    \A w \in Worker : wpc[w] = "finalize" =>
        \A t \in rows : PartOf(t) \in Blank \/ t \in ids

(* Executors, requests, crashes and failures use the counter of a document *)
(* as ChunkCounter says: only tasks of the request that seeded it enter    *)
(* the gate, once each, and no seed finds an executor inside.              *)
CounterImplemented == CounterSpec

(* DONE is "Document processing completed successfully": at rest, every    *)
(* page range of the last request has its chunk in the store.              *)
DoneMeansStored == AtRest /\ docRun = "DONE" => Expected \subseteq store

(* ... the finalizers of its tasks ran ...                                 *)
DoneMeansFinalized == AtRest /\ docRun = "DONE" => owed = {} \/ lasts = 1

(* ... and the document counts the chunks it has.                          *)
ChunkNumExact == AtRest /\ docRun = "DONE" => chunkNum = Cardinality(store)

(* At rest, a document whose tasks were all stopped has no chunk: those    *)
(* that executors inserted around the stop are removed by the stop or by   *)
(* the executors.                                                          *)
StoppedIsEmpty ==
    AtRest /\ rows # {} /\ rows \subseteq cancelled => store = {}

(* At rest, a chunk in the store is listed by the row of a task, where a   *)
(* later request looks for the chunks it has to replace.                   *)
StoredIsListed ==
    AtRest => store \subseteq {ChunkOf(t) : t \in ids \cap rows}

(* CANCEL is "Document processing was cancelled" and stays so until the    *)
(* next request.                                                           *)
CancelStays ==
    [][docRun = "CANCEL" /\ docRun' # "CANCEL" =>
         \E a \in Api : todo[a] # todo'[a]]_vars

(* Executors that die and come back deal with every task: its row says     *)
(* done or failed one day, if nobody deletes it before.                    *)
TasksSettle ==
    \A t \in Task : t \in Unfinished ~> t \notin Unfinished

(* The progress of a document does not stop on the way to 1, however late  *)
(* the updates of executors and of the API server write what they read.    *)
ProgressEnds == docRun = "RUNNING" ~> docRun # "RUNNING" \/ docProg = "one"

(* A document does not stay RUNNING for ever.                              *)
Settles == docRun = "RUNNING" ~> docRun # "RUNNING"
=============================================================================
