---------------------------- MODULE IngestionTask ----------------------------
(***************************************************************************)
(* The life of the ingestion tasks of one document in the Go services: the *)
(* API server creates, restarts, stops and removes them in MySQL and       *)
(* publishes a message per run; ingestors receive the messages from NATS   *)
(* JetStream (external), set the status and execute.                       *)
(*                                                                         *)
(* A transaction of IngestionTaskDAO reads the row, decides and updates by *)
(* id: reads lock nothing, so others commit in between.  JetStream         *)
(* delivers a message again when it is refused, or not acknowledged within *)
(* AckWait (30 s), at most MaxDeliver times.                               *)
(***************************************************************************)
EXTENDS Naturals, FiniteSets

CONSTANTS
    Id,           \* ids of tasks, one row each
    User,         \* requests the API servers work on at a time
    Msg,          \* messages that are published
    Ingestor,
    None,
    MaxDeliver,   \* deliveries of a message: 16 in the code
    Slots,        \* of taskChan: twice maxConcurrency
    Workers       \* maxConcurrency of an ingestor

ASSUME NoneAssumption == None \notin Id \cup Ingestor
ASSUME NumberAssumption ==
    MaxDeliver \in Nat \ {0} /\ Slots \in Nat /\ Workers \in Nat \ {0}

Terminal == {"COMPLETED", "STOPPED", "FAILED"}
Status == Terminal \cup {"CREATED", "RUNNING", "STOPPING"}

(* The deliveries of a message. *)
Delivery == Msg \X (1 .. MaxDeliver)
MsgOf(h) == h[1]

VARIABLES
    rows,       \* the status of a row, "unused" before it, "removed" after it
    upc, uid, uto, \* a request: what it does next, to which row, to which status
    qtask,      \* the task a message is about
    qstate,     \* "none", "ready" in the queue, "out" at an ingestor, or "acked"
    delivered,  \* how often a message was delivered
    hpc,        \* a delivery: in the "txn" of the consumer, "queued" in taskChan,
                \* "run", "ack", or "gone"
    owner,      \* its ingestor
    snap,       \* the status its transaction returned
    dead,       \* ingestors whose Start has returned
    \* History.
    lost,       \* tasks a failure deprived of their message or of their last status
    late        \* messages delivered again while an earlier delivery was worked on

request == <<upc, uid, uto>>
queue == <<qtask, qstate, delivered>>
delivery == <<hpc, owner, snap>>
vars == <<rows, request, queue, delivery, dead, lost, late>>

Present(id) == rows[id] \in Status

Init ==
    /\ rows = [id \in Id |-> "unused"]
    /\ upc = [u \in User |-> "idle"]
    /\ uid = [u \in User |-> None]
    /\ uto = [u \in User |-> "unused"]
    /\ qtask = [n \in Msg |-> None]
    /\ qstate = [n \in Msg |-> "none"]
    /\ delivered = [n \in Msg |-> 0]
    /\ hpc = [h \in Delivery |-> "new"]
    /\ owner = [h \in Delivery |-> None]
    /\ snap = [h \in Delivery |-> "unused"]
    /\ dead = {} /\ lost = {} /\ late = {}

(* An update by id: of a row that is gone it changes nothing, and is no    *)
(* error.                                                                  *)
Update(id, s) == rows' = IF Present(id) THEN [rows EXCEPT ![id] = s] ELSE rows

-----------------------------------------------------------------------------
(* The API server and the admin server. *)

Then(u, pc, id, s) ==
    /\ upc' = [upc EXCEPT ![u] = pc]
    /\ uid' = [uid EXCEPT ![u] = id]
    /\ uto' = [uto EXCEPT ![u] = s]

(* Bound: a message is left for every run that is asked for. *)
MayPublish ==
    Cardinality({u \in User : upc[u] = "insert" \/ upc[u] = "publish"
                              \/ (upc[u] = "update" /\ uto[u] = "CREATED")})
    < Cardinality({n \in Msg : qstate[n] = "none"})

(* CheckAndCreate looks for a row of the document. *)
Create(u) ==
    /\ upc[u] = "idle" /\ MayPublish
    /\ \/ /\ \A id \in Id : ~Present(id)
          /\ Then(u, "insert", None, "unused")
       \/ \E id \in Id : rows[id] \in {"FAILED", "STOPPED"} /\ Then(u, "update", id, "CREATED")
    /\ UNCHANGED <<rows, queue, delivery, dead, lost, late>>

Insert(u, id) ==
    /\ upc[u] = "insert" /\ rows[id] = "unused"
    /\ rows' = [rows EXCEPT ![id] = "CREATED"]
    /\ Then(u, "publish", id, "unused")
    /\ UNCHANGED <<queue, delivery, dead, lost, late>>

(* SetStoppingByAPIServer reads the row.  (The message the admin server    *)
(* publishes after it is not one of a task: it is acknowledged unread.)    *)
Stop(u, id) ==
    /\ upc[u] = "idle"
    /\ \/ rows[id] = "CREATED" /\ Then(u, "update", id, "STOPPED")
       \/ rows[id] = "RUNNING" /\ Then(u, "update", id, "STOPPING")
    /\ UNCHANGED <<rows, queue, delivery, dead, lost, late>>

(* RemoveByAPIServerOrAdminServer reads the row. *)
Remove(u, id) ==
    /\ upc[u] = "idle" /\ rows[id] \in Terminal \cup {"CREATED"}
    /\ Then(u, "update", id, "removed")
    /\ UNCHANGED <<rows, queue, delivery, dead, lost, late>>

(* A failed lookup, update or commit is reported, or (of a stop or a       *)
(* removal) not even noticed.                                              *)
RequestFails(u) ==
    /\ upc[u] \in {"insert", "update"}
    /\ Then(u, "idle", None, "unused")
    /\ UNCHANGED <<rows, queue, delivery, dead, lost, late>>

(* The update or the delete, and the commit. *)
Commit(u) ==
    /\ upc[u] = "update"
    /\ Update(uid[u], uto[u])
    /\ IF uto[u] = "CREATED" THEN Then(u, "publish", uid[u], "unused")
       ELSE Then(u, "idle", None, "unused")
    /\ UNCHANGED <<queue, delivery, dead, lost, late>>

(* PublishTask, after the transaction: JetStream has the message, or the   *)
(* call failed or the server died.                                         *)
Publish(u) ==
    /\ upc[u] = "publish"
    /\ \/ \E n \in Msg :
             /\ qstate[n] = "none"
             /\ qstate' = [qstate EXCEPT ![n] = "ready"]
             /\ qtask' = [qtask EXCEPT ![n] = uid[u]]
             /\ UNCHANGED lost
       \/ lost' = lost \cup {uid[u]} /\ UNCHANGED <<qstate, qtask>>
    /\ Then(u, "idle", None, "unused")
    /\ UNCHANGED <<rows, delivered, delivery, dead, late>>

-----------------------------------------------------------------------------
(* The ingestor. *)

TaskOf(h) == qtask[MsgOf(h)]
Active == {"txn", "queued", "run", "ack"}
Held(i, pc) == {h \in Delivery : hpc[h] = pc /\ owner[h] = i}
Goes(h, pc) == hpc' = [hpc EXCEPT ![h] = pc] /\ UNCHANGED <<owner, snap>>
Drops(H) ==
    /\ hpc' = [h \in Delivery |-> IF h \in H THEN "gone" ELSE hpc[h]]
    /\ owner' = [h \in Delivery |-> IF h \in H THEN None ELSE owner[h]]
    /\ snap' = [h \in Delivery |-> IF h \in H THEN "unused" ELSE snap[h]]

(* The loop of Start fetches a message, and SetRunningByIngestor reads the *)
(* row of its task.                                                        *)
Receive(i, n) ==
    LET h == <<n, delivered[n] + 1>>
    IN /\ i \notin dead /\ Held(i, "txn") = {} /\ qstate[n] = "ready"
       /\ qstate' = [qstate EXCEPT ![n] = "out"]
       /\ delivered' = [delivered EXCEPT ![n] = @ + 1]
       /\ hpc' = [hpc EXCEPT ![h] = "txn"]
       /\ owner' = [owner EXCEPT ![h] = i]
       /\ snap' = [snap EXCEPT ![h] = rows[qtask[n]]]
       /\ UNCHANGED <<rows, request, qtask, dead, lost, late>>

(* The status SetRunningByIngestor writes and returns; it does not look at *)
(* the error of its commit.                                                *)
NextStatus(s) == CASE s = "CREATED" -> "RUNNING" [] s = "STOPPING" -> "STOPPED"

SetRunning(h) ==
    /\ hpc[h] = "txn" /\ snap[h] \in {"CREATED", "STOPPING"}
    /\ Update(TaskOf(h), NextStatus(snap[h])) \/ UNCHANGED rows
    /\ snap' = [snap EXCEPT ![h] = NextStatus(snap[h])]
    /\ UNCHANGED <<request, queue, hpc, owner, dead, lost, late>>

Acknowledge(n) == qstate' = [qstate EXCEPT ![n] = "acked"]

(* Nak: the message can be delivered at once, if it ever can.              *)
Refuse(n) ==
    qstate' = IF qstate[n] = "out" /\ delivered[n] < MaxDeliver
              THEN [qstate EXCEPT ![n] = "ready"] ELSE qstate

(* Mutant: a full channel refuses the message, and the task stays in it.   *)
EnqueueAlways(h) ==
    /\ Goes(h, "queued")
    /\ IF Cardinality(Held(owner[h], "queued")) < Slots THEN UNCHANGED qstate
       ELSE Refuse(MsgOf(h))

(* taskChan, or Nack when it is full. *)
Enqueue(h) ==
    IF Cardinality(Held(owner[h], "queued")) < Slots
    THEN Goes(h, "queued") /\ UNCHANGED qstate
    ELSE Drops({h}) /\ Refuse(MsgOf(h))

(* Mutant: a task that runs is left to the ingestor that runs it.          *)
OverWhenRunning(h) == snap[h] \in Terminal \cup {"removed", "RUNNING"}

(* Nothing is left to do: the task has ended or is not found.              *)
Over(h) == snap[h] \in Terminal \cup {"removed"}

(* The rest of the turn of the loop.                                       *)
Dispatch(h) ==
    /\ hpc[h] = "txn"
    /\ \/ snap[h] = "RUNNING" /\ Enqueue(h)
       \/ Over(h) /\ Drops({h}) /\ Acknowledge(MsgOf(h))
    /\ UNCHANGED <<rows, request, qtask, delivered, dead, lost, late>>

(* The database, Ack or Nack fails: Start returns the error, and the       *)
(* process goes on without a consumer.                                     *)
ConsumerFails(h) ==
    /\ hpc[h] = "txn"
    /\ Drops({h})
    /\ dead' = dead \cup {owner[h]}
    /\ UNCHANGED <<rows, request, queue, lost, late>>

(* Mutant: the message is acknowledged when a worker takes the task.       *)
TakeAcked(h) ==
    /\ hpc[h] = "queued"
    /\ Goes(h, "run") /\ Acknowledge(MsgOf(h))
    /\ UNCHANGED <<rows, request, qtask, delivered, dead, lost, late>>

Take(h) ==
    /\ hpc[h] = "queued"
    /\ Cardinality(Held(owner[h], "run") \cup Held(owner[h], "ack")) < Workers
    /\ Goes(h, "run")
    /\ UNCHANGED <<rows, request, queue, dead, lost, late>>

(* executeTask: the pipeline completed, failed (a task without a DSL       *)
(* fails), or was cancelled or timed out.  A failed UpdateStatus is logged.*)
End(h) ==
    /\ hpc[h] = "run"
    /\ \/ \E s \in Terminal : Update(TaskOf(h), s) /\ UNCHANGED lost
       \/ lost' = lost \cup {TaskOf(h)} /\ UNCHANGED rows
    /\ Goes(h, "ack")
    /\ UNCHANGED <<request, queue, dead, late>>

(* ackOrNack: its error is logged.                                         *)
Ack(h) ==
    /\ hpc[h] = "ack"
    /\ Drops({h})
    /\ Acknowledge(MsgOf(h)) \/ UNCHANGED qstate
    /\ UNCHANGED <<rows, request, qtask, delivered, dead, lost, late>>

(* The process dies, or is stopped, and starts again; InitConsumer may     *)
(* fail, which ends Start too.                                             *)
Crash(i) ==
    /\ Drops({h \in Delivery : owner[h] = i})
    /\ dead' \in {dead \ {i}, dead \cup {i}}
    /\ UNCHANGED <<rows, request, queue, lost, late>>

-----------------------------------------------------------------------------
(* JetStream: AckWait has passed. *)

InHands(n) == \E h \in Delivery : MsgOf(h) = n /\ hpc[h] \in Active

Redeliver(n) ==
    /\ qstate[n] = "out" /\ delivered[n] < MaxDeliver
    /\ qstate' = [qstate EXCEPT ![n] = "ready"]
    /\ late' = IF InHands(n) THEN late \cup {n} ELSE late
    /\ UNCHANGED <<rows, request, qtask, delivered, delivery, dead, lost>>

-----------------------------------------------------------------------------
RequestStep(u) == Commit(u) \/ Publish(u) \/ \E id \in Id : Insert(u, id)

IngestorStep(h) == SetRunning(h) \/ Dispatch(h) \/ Take(h) \/ End(h) \/ Ack(h)

Next ==
    \/ \E u \in User :
          \/ Create(u) \/ RequestStep(u) \/ RequestFails(u)
          \/ \E id \in Id : Stop(u, id) \/ Remove(u, id)
    \/ \E i \in Ingestor : Crash(i) \/ \E n \in Msg : Receive(i, n)
    \/ \E h \in Delivery : IngestorStep(h) \/ ConsumerFails(h)
    \/ \E n \in Msg : Redeliver(n)

Spec == Init /\ [][Next]_vars

(* Requests and executions end, JetStream's timer fires for a message      *)
(* nobody works on, and an ingestor that has a consumer receives.  Nothing *)
(* makes a user ask, a call fail or a process die, and AckWait need not    *)
(* pass during an execution.                                               *)
FairSpec ==
    /\ Spec
    /\ \A u \in User : WF_vars(RequestStep(u))
    /\ \A h \in Delivery : WF_vars(IngestorStep(h))
    /\ \A n \in Msg : /\ WF_vars(\E i \in Ingestor : Receive(i, n))
                      /\ WF_vars(~InHands(n) /\ Redeliver(n))

-----------------------------------------------------------------------------
(* Everything has its type. *)
TypeOK ==
    /\ rows \in [Id -> Status \cup {"unused", "removed"}]
    /\ upc \in [User -> {"idle", "insert", "update", "publish"}]
    /\ uid \in [User -> Id \cup {None}]
    /\ uto \in [User -> {"unused", "CREATED", "STOPPED", "STOPPING", "removed"}]
    /\ qtask \in [Msg -> Id \cup {None}]
    /\ qstate \in [Msg -> {"none", "ready", "out", "acked"}]
    /\ delivered \in [Msg -> 0 .. MaxDeliver]
    /\ hpc \in [Delivery -> Active \cup {"new", "gone"}]
    /\ owner \in [Delivery -> Ingestor \cup {None}]
    /\ snap \in [Delivery -> Status \cup {"unused", "removed"}]
    /\ dead \subseteq Ingestor /\ lost \subseteq Id /\ late \subseteq Msg

(* No message of the task was delivered again while it was worked on.      *)
OnTime(id) == \A n \in late : qtask[n] # id

(* A task that has to be done is not forgotten: its request will publish a *)
(* message, or one is not acknowledged yet, whatever crashes, is refused   *)
(* or stopped and restarted, as long as no execution outlasts AckWait.     *)
NotForgotten ==
    \A id \in Id :
        rows[id] \in {"CREATED", "RUNNING"} /\ id \notin lost /\ OnTime(id) =>
            \/ \E u \in User : upc[u] = "publish" /\ uid[u] = id
            \/ \E n \in Msg : qtask[n] = id /\ qstate[n] # "acked"

(* A message is worked on once at a time, as long as no execution outlasts *)
(* AckWait, even if it is refused or its ingestor dies.                    *)
WorkedOnOnce ==
    \A g, h \in Delivery :
        /\ MsgOf(g) = MsgOf(h) /\ MsgOf(h) \notin late
        /\ hpc[g] \in Active /\ hpc[h] \in Active
        => g = h

(* The queue and the deliveries in hand agree. *)
DeliveryOK ==
    /\ \A n \in Msg :
          /\ qstate[n] = "none" <=> qtask[n] = None
          /\ qstate[n] = "none" => delivered[n] = 0
          /\ qstate[n] = "ready" => delivered[n] < MaxDeliver
          /\ qstate[n] = "none" => n \notin late
          /\ qstate[n] # "out" /\ n \notin late => ~InHands(n)
    /\ \A h \in Delivery :
          /\ hpc[h] \in Active <=> owner[h] # None
          /\ hpc[h] \in Active => qtask[MsgOf(h)] # None
          /\ h[2] > delivered[MsgOf(h)] => hpc[h] = "new"
    /\ \A u \in User : upc[u] \in {"update", "publish"} => uid[u] \in Id

(* The ingestor is going to acknowledge the message without a change of    *)
(* the status.                                                             *)
Doomed(h) == hpc[h] = "ack" \/ (hpc[h] = "txn" /\ snap[h] \notin {"CREATED", "RUNNING"})

(* The message will have its task done, if nothing fails. *)
Carries(n) ==
    /\ qstate[n] \in {"ready", "out"}
    /\ \A h \in Delivery : MsgOf(h) = n => ~Doomed(h)

(* Stronger than NotForgotten: the message is not about to be acknowledged.*)
Carried ==
    \A id \in Id :
        rows[id] \in {"CREATED", "RUNNING"} /\ id \notin lost /\ OnTime(id) =>
            \/ \E u \in User : upc[u] = "publish" /\ uid[u] = id
            \/ \E n \in Msg : qtask[n] = id /\ Carries(n)

(* The invariant the theorems rest on: what the tables, the queue and the  *)
(* hands of the ingestors say of each other, which keeps NotForgotten and  *)
(* WorkedOnOnce true from every state to the next.                         *)
IngestInv == TypeOK /\ DeliveryOK /\ WorkedOnOnce /\ Carried

(* A task that has to be done is done, or stopped or removed, unless a     *)
(* failure deprived it of its message, or its deliveries are used up, or   *)
(* no ingestor has a consumer left.                                        *)
Settles ==
    \A id \in Id :
        rows[id] \in {"CREATED", "RUNNING"} ~>
            \/ rows[id] \notin {"CREATED", "RUNNING"}
            \/ id \in lost \/ dead = Ingestor
            \/ \E n \in Msg : qtask[n] = id /\ delivered[n] = MaxDeliver
=============================================================================
