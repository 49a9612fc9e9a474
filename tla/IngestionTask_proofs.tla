------------------------ MODULE IngestionTask_proofs ------------------------
(***************************************************************************)
(* That an ingestion task is not forgotten and its message worked on once, *)
(* for any number of tasks, requests, messages, ingestors and deliveries.  *)
(***************************************************************************)
EXTENDS IngestionTask, TLAPS

LEMMA DeliveryParts ==
  \A h \in Delivery : MsgOf(h) \in Msg /\ h[2] \in 1 .. MaxDeliver
  BY DEF Delivery, MsgOf

LEMMA NextDelivery ==
  ASSUME TypeOK, NEW n \in Msg, delivered[n] < MaxDeliver
  PROVE  <<n, delivered[n] + 1>> \in Delivery /\ MsgOf(<<n, delivered[n] + 1>>) = n
  BY NumberAssumption DEF TypeOK, Delivery, MsgOf

(* The types of the tables, the queue and the deliveries are kept.         *)
LEMMA TypeOKStep ==
  ASSUME IngestInv, [Next]_vars
  PROVE  TypeOK'
<1> USE NumberAssumption, NoneAssumption, DeliveryParts
<1>1. ASSUME NEW u \in User, Create(u) PROVE TypeOK'
  BY <1>1 DEF IngestInv, TypeOK, Status, Terminal, Active, DeliveryOK, Present, Create, Then,
     queue, delivery
<1>2. ASSUME NEW u \in User, NEW id \in Id, Insert(u, id) PROVE TypeOK'
  BY <1>2 DEF IngestInv, TypeOK, Status, Terminal, Active, DeliveryOK, Insert, Then, queue,
     delivery
<1>3. ASSUME NEW u \in User, Commit(u) PROVE TypeOK'
  BY <1>3 DEF IngestInv, TypeOK, Status, Terminal, Active, DeliveryOK, Present, Commit, Then,
     Update, queue, delivery
<1>4. ASSUME NEW u \in User, Publish(u) PROVE TypeOK'
  BY <1>4 DEF IngestInv, TypeOK, Status, Terminal, Active, DeliveryOK, Publish, Then, delivery
<1>5. ASSUME NEW u \in User, RequestFails(u) PROVE TypeOK'
  BY <1>5 DEF IngestInv, TypeOK, Status, Terminal, Active, DeliveryOK, RequestFails, Then,
     queue, delivery
<1>6. ASSUME NEW u \in User, NEW id \in Id, Stop(u, id) PROVE TypeOK'
  BY <1>6 DEF IngestInv, TypeOK, Status, Terminal, Active, DeliveryOK, Stop, Then, queue,
     delivery
<1>7. ASSUME NEW u \in User, NEW id \in Id, Remove(u, id) PROVE TypeOK'
  BY <1>7 DEF IngestInv, TypeOK, Status, Terminal, Active, DeliveryOK, Remove, Then, queue,
     delivery
<1>8. ASSUME NEW i \in Ingestor, NEW n \in Msg, Receive(i, n) PROVE TypeOK'
  BY <1>8, NextDelivery DEF IngestInv, TypeOK, Status, Terminal, Active, DeliveryOK, Receive,
     Held, request
<1>9. ASSUME NEW h \in Delivery, SetRunning(h) PROVE TypeOK'
  BY <1>9 DEF IngestInv, TypeOK, Status, Terminal, Active, DeliveryOK, Present, SetRunning,
     TaskOf, NextStatus, Update, request, queue
<1>10. ASSUME NEW h \in Delivery, Dispatch(h) PROVE TypeOK'
  BY <1>10 DEF IngestInv, TypeOK, Status, Terminal, Active, DeliveryOK, Dispatch, Enqueue, Over,
     Goes, Drops, Acknowledge, Refuse, request
<1>11. ASSUME NEW h \in Delivery, ConsumerFails(h) PROVE TypeOK'
  BY <1>11 DEF IngestInv, TypeOK, Status, Terminal, Active, DeliveryOK, ConsumerFails, Drops,
     request, queue
<1>12. ASSUME NEW h \in Delivery, Take(h) PROVE TypeOK'
  BY <1>12 DEF IngestInv, TypeOK, Status, Terminal, Active, DeliveryOK, Take, Goes, request,
     queue
<1>13. ASSUME NEW h \in Delivery, End(h) PROVE TypeOK'
  BY <1>13 DEF IngestInv, TypeOK, Status, Terminal, Active, DeliveryOK, Present, End, TaskOf,
     Goes, Update, request, queue
<1>14. ASSUME NEW h \in Delivery, Ack(h) PROVE TypeOK'
  BY <1>14 DEF IngestInv, TypeOK, Status, Terminal, Active, DeliveryOK, Ack, Drops, Acknowledge,
     request
<1>15. ASSUME NEW i \in Ingestor, Crash(i) PROVE TypeOK'
  BY <1>15 DEF IngestInv, TypeOK, Status, Terminal, Active, DeliveryOK, Crash, Drops, request,
     queue
<1>16. ASSUME NEW n \in Msg, Redeliver(n) PROVE TypeOK'
  BY <1>16 DEF IngestInv, TypeOK, Status, Terminal, Active, DeliveryOK, Redeliver, request,
     delivery
<1>17. CASE UNCHANGED vars
  BY <1>17 DEF IngestInv, TypeOK, Status, Terminal, Active, DeliveryOK, vars, request, queue,
     delivery
<1>18. QED
  BY <1>1, <1>2, <1>3, <1>4, <1>5, <1>6, <1>7, <1>8, <1>9, <1>10, <1>11, <1>12, <1>13, <1>14,
     <1>15, <1>16, <1>17 DEF Next, RequestStep, IngestorStep

(* A message that is not out is in no hands, and a delivery that did not   *)
(* A worker takes a delivery that was in hand already.                     *)
LEMMA TakeKeeps ==
  ASSUME IngestInv, NEW h \in Delivery, Take(h)
  PROVE  DeliveryOK'
<1>1. /\ hpc[h] = "queued" /\ hpc' = [hpc EXCEPT ![h] = "run"]
      /\ UNCHANGED <<owner, qstate, qtask, delivered, late, upc, uid>>
  BY DEF Take, Goes, queue, request
<1>2. \A g \in Delivery : hpc'[g] = hpc[g] \/ (g = h /\ hpc'[g] = "run")
  BY <1>1 DEF IngestInv, TypeOK
<1>3. \A g \in Delivery : /\ hpc'[g] \in Active <=> hpc[g] \in Active
                          /\ hpc'[g] = "new" <=> hpc[g] = "new"
  BY <1>1, <1>2 DEF Active
<1>4. \A n \in Msg : InHands(n)' <=> InHands(n)
  BY <1>3 DEF InHands
<1>5. QED
  BY <1>1, <1>3, <1>4 DEF IngestInv, DeliveryOK

(* happen yet is in none.                                                  *)
LEMMA DeliveryOKStep ==
  ASSUME IngestInv, [Next]_vars
  PROVE  DeliveryOK'
<1> USE NumberAssumption, NoneAssumption, DeliveryParts
<1>1. ASSUME NEW u \in User, Create(u) PROVE DeliveryOK'
  BY <1>1 DEF IngestInv, DeliveryOK, TypeOK, InHands, Active, WorkedOnOnce, Create, Then, queue,
     delivery
<1>2. ASSUME NEW u \in User, NEW id \in Id, Insert(u, id) PROVE DeliveryOK'
  BY <1>2 DEF IngestInv, DeliveryOK, TypeOK, InHands, Active, WorkedOnOnce, Insert, Then, queue,
     delivery
<1>3. ASSUME NEW u \in User, Commit(u) PROVE DeliveryOK'
  BY <1>3 DEF IngestInv, DeliveryOK, TypeOK, InHands, Active, WorkedOnOnce, Commit, Then,
     Update, Present, queue, delivery
<1>4. ASSUME NEW u \in User, Publish(u) PROVE DeliveryOK'
  BY <1>4 DEF IngestInv, DeliveryOK, TypeOK, InHands, Active, WorkedOnOnce, Publish, Then,
     delivery
<1>5. ASSUME NEW u \in User, RequestFails(u) PROVE DeliveryOK'
  BY <1>5 DEF IngestInv, DeliveryOK, TypeOK, InHands, Active, WorkedOnOnce, RequestFails, Then,
     queue, delivery
<1>6. ASSUME NEW u \in User, NEW id \in Id, Stop(u, id) PROVE DeliveryOK'
  BY <1>6 DEF IngestInv, DeliveryOK, TypeOK, InHands, Active, WorkedOnOnce, Stop, Then, queue,
     delivery
<1>7. ASSUME NEW u \in User, NEW id \in Id, Remove(u, id) PROVE DeliveryOK'
  BY <1>7 DEF IngestInv, DeliveryOK, TypeOK, InHands, Active, WorkedOnOnce, Remove, Then, queue,
     delivery
<1>8. ASSUME NEW i \in Ingestor, NEW n \in Msg, Receive(i, n) PROVE DeliveryOK'
  BY <1>8, NextDelivery DEF IngestInv, DeliveryOK, TypeOK, InHands, Active, WorkedOnOnce,
     Receive, Held, request
<1>9. ASSUME NEW h \in Delivery, SetRunning(h) PROVE DeliveryOK'
  BY <1>9 DEF IngestInv, DeliveryOK, TypeOK, InHands, Active, WorkedOnOnce, SetRunning, TaskOf,
     NextStatus, Update, Present, request, queue
<1>10. ASSUME NEW h \in Delivery, Dispatch(h) PROVE DeliveryOK'
  BY <1>10 DEF IngestInv, DeliveryOK, TypeOK, InHands, Active, WorkedOnOnce, Dispatch, Enqueue,
     Over, Goes, Drops, Acknowledge, Refuse, request
<1>11. ASSUME NEW h \in Delivery, ConsumerFails(h) PROVE DeliveryOK'
  BY <1>11 DEF IngestInv, DeliveryOK, TypeOK, InHands, Active, WorkedOnOnce, ConsumerFails,
     Drops, request, queue
<1>12. ASSUME NEW h \in Delivery, Take(h) PROVE DeliveryOK'
  BY <1>12, TakeKeeps
<1>13. ASSUME NEW h \in Delivery, End(h) PROVE DeliveryOK'
  BY <1>13 DEF IngestInv, DeliveryOK, TypeOK, InHands, Active, WorkedOnOnce, End, TaskOf, Goes,
     Update, Present, request, queue
<1>14. ASSUME NEW h \in Delivery, Ack(h) PROVE DeliveryOK'
  BY <1>14 DEF IngestInv, DeliveryOK, TypeOK, InHands, Active, WorkedOnOnce, Ack, Drops,
     Acknowledge, request
<1>15. ASSUME NEW i \in Ingestor, Crash(i) PROVE DeliveryOK'
  BY <1>15 DEF IngestInv, DeliveryOK, TypeOK, InHands, Active, WorkedOnOnce, Crash, Drops,
     request, queue
<1>16. ASSUME NEW n \in Msg, Redeliver(n) PROVE DeliveryOK'
  BY <1>16 DEF IngestInv, DeliveryOK, TypeOK, InHands, Active, WorkedOnOnce, Redeliver, request,
     delivery
<1>17. CASE UNCHANGED vars
  BY <1>17 DEF IngestInv, DeliveryOK, TypeOK, InHands, Active, WorkedOnOnce, vars, request,
     queue, delivery
<1>18. QED
  BY <1>1, <1>2, <1>3, <1>4, <1>5, <1>6, <1>7, <1>8, <1>9, <1>10, <1>11, <1>12, <1>13, <1>14,
     <1>15, <1>16, <1>17 DEF Next, RequestStep, IngestorStep

(* A message is received again only if it was given back, or is late.      *)
LEMMA WorkedOnOnceStep ==
  ASSUME IngestInv, [Next]_vars
  PROVE  WorkedOnOnce'
<1> USE NumberAssumption, NoneAssumption, DeliveryParts
<1>1. ASSUME NEW u \in User, Create(u) PROVE WorkedOnOnce'
  BY <1>1 DEF IngestInv, WorkedOnOnce, DeliveryOK, InHands, Active, TypeOK, Create, Then, queue,
     delivery
<1>2. ASSUME NEW u \in User, NEW id \in Id, Insert(u, id) PROVE WorkedOnOnce'
  BY <1>2 DEF IngestInv, WorkedOnOnce, DeliveryOK, InHands, Active, TypeOK, Insert, Then, queue,
     delivery
<1>3. ASSUME NEW u \in User, Commit(u) PROVE WorkedOnOnce'
  BY <1>3 DEF IngestInv, WorkedOnOnce, DeliveryOK, InHands, Active, TypeOK, Commit, Then,
     Update, Present, queue, delivery
<1>4. ASSUME NEW u \in User, Publish(u) PROVE WorkedOnOnce'
  BY <1>4 DEF IngestInv, WorkedOnOnce, DeliveryOK, InHands, Active, TypeOK, Publish, Then,
     delivery
<1>5. ASSUME NEW u \in User, RequestFails(u) PROVE WorkedOnOnce'
  BY <1>5 DEF IngestInv, WorkedOnOnce, DeliveryOK, InHands, Active, TypeOK, RequestFails, Then,
     queue, delivery
<1>6. ASSUME NEW u \in User, NEW id \in Id, Stop(u, id) PROVE WorkedOnOnce'
  BY <1>6 DEF IngestInv, WorkedOnOnce, DeliveryOK, InHands, Active, TypeOK, Stop, Then, queue,
     delivery
<1>7. ASSUME NEW u \in User, NEW id \in Id, Remove(u, id) PROVE WorkedOnOnce'
  BY <1>7 DEF IngestInv, WorkedOnOnce, DeliveryOK, InHands, Active, TypeOK, Remove, Then, queue,
     delivery
<1>8. ASSUME NEW i \in Ingestor, NEW n \in Msg, Receive(i, n) PROVE WorkedOnOnce'
  <2>1. /\ qstate[n] = "ready" /\ n \in Msg /\ late' = late
        /\ \A h \in Delivery : h # <<n, delivered[n] + 1>> => hpc'[h] = hpc[h]
    BY <1>8 DEF Receive, IngestInv, TypeOK
  <2>2. delivered[n] < MaxDeliver /\ MsgOf(<<n, delivered[n] + 1>>) = n
    BY <2>1, NextDelivery DEF IngestInv, DeliveryOK
  <2>3. n \notin late => \A h \in Delivery : MsgOf(h) = n => hpc[h] \notin Active
    BY <2>1 DEF IngestInv, DeliveryOK, InHands
  <2>4. QED
    BY <2>1, <2>2, <2>3 DEF IngestInv, WorkedOnOnce
<1>9. ASSUME NEW h \in Delivery, SetRunning(h) PROVE WorkedOnOnce'
  BY <1>9 DEF IngestInv, WorkedOnOnce, DeliveryOK, InHands, Active, TypeOK, SetRunning, TaskOf,
     NextStatus, Update, Present, request, queue
<1>10. ASSUME NEW h \in Delivery, Dispatch(h) PROVE WorkedOnOnce'
  BY <1>10 DEF IngestInv, WorkedOnOnce, DeliveryOK, InHands, Active, TypeOK, Dispatch, Enqueue,
     Over, Goes, Drops, Acknowledge, Refuse, request
<1>11. ASSUME NEW h \in Delivery, ConsumerFails(h) PROVE WorkedOnOnce'
  BY <1>11 DEF IngestInv, WorkedOnOnce, DeliveryOK, InHands, Active, TypeOK, ConsumerFails,
     Drops, request, queue
<1>12. ASSUME NEW h \in Delivery, Take(h) PROVE WorkedOnOnce'
  BY <1>12 DEF IngestInv, WorkedOnOnce, DeliveryOK, InHands, Active, TypeOK, Take, Goes,
     request, queue
<1>13. ASSUME NEW h \in Delivery, End(h) PROVE WorkedOnOnce'
  BY <1>13 DEF IngestInv, WorkedOnOnce, DeliveryOK, InHands, Active, TypeOK, End, TaskOf, Goes,
     Update, Present, request, queue
<1>14. ASSUME NEW h \in Delivery, Ack(h) PROVE WorkedOnOnce'
  BY <1>14 DEF IngestInv, WorkedOnOnce, DeliveryOK, InHands, Active, TypeOK, Ack, Drops,
     Acknowledge, request
<1>15. ASSUME NEW i \in Ingestor, Crash(i) PROVE WorkedOnOnce'
  BY <1>15 DEF IngestInv, WorkedOnOnce, DeliveryOK, InHands, Active, TypeOK, Crash, Drops,
     request, queue
<1>16. ASSUME NEW n \in Msg, Redeliver(n) PROVE WorkedOnOnce'
  BY <1>16 DEF IngestInv, WorkedOnOnce, DeliveryOK, InHands, Active, TypeOK, Redeliver, request,
     delivery
<1>17. CASE UNCHANGED vars
  BY <1>17 DEF IngestInv, WorkedOnOnce, DeliveryOK, InHands, Active, TypeOK, vars, request,
     queue, delivery
<1>18. QED
  BY <1>1, <1>2, <1>3, <1>4, <1>5, <1>6, <1>7, <1>8, <1>9, <1>10, <1>11, <1>12, <1>13, <1>14,
     <1>15, <1>16, <1>17 DEF Next, RequestStep, IngestorStep

(* A task becomes CREATED before its message is published, and its message *)
(* is given up only after the status has changed.                          *)
LEMMA CarriedStep ==
  ASSUME IngestInv, [Next]_vars
  PROVE  Carried'
<1> USE NumberAssumption, NoneAssumption, DeliveryParts
<1>1. ASSUME NEW u \in User, Create(u) PROVE Carried'
  BY <1>1 DEF IngestInv, Carried, Carries, Doomed, OnTime, TypeOK, DeliveryOK, InHands, Active,
     Status, Terminal, Create, Then, queue, delivery
<1>2. ASSUME NEW u \in User, NEW id \in Id, Insert(u, id) PROVE Carried'
  BY <1>2 DEF IngestInv, Carried, Carries, Doomed, OnTime, TypeOK, DeliveryOK, InHands, Active,
     Status, Terminal, Insert, Then, queue, delivery
<1>3. ASSUME NEW u \in User, Commit(u) PROVE Carried'
  BY <1>3 DEF IngestInv, Carried, Carries, Doomed, OnTime, TypeOK, DeliveryOK, InHands, Active,
     Status, Terminal, Commit, Then, Update, Present, queue, delivery
<1>4. ASSUME NEW u \in User, Publish(u) PROVE Carried'
  BY <1>4 DEF IngestInv, Carried, Carries, Doomed, OnTime, TypeOK, DeliveryOK, InHands, Active,
     Status, Terminal, Publish, Then, delivery
<1>5. ASSUME NEW u \in User, RequestFails(u) PROVE Carried'
  BY <1>5 DEF IngestInv, Carried, Carries, Doomed, OnTime, TypeOK, DeliveryOK, InHands, Active,
     Status, Terminal, RequestFails, Then, queue, delivery
<1>6. ASSUME NEW u \in User, NEW id \in Id, Stop(u, id) PROVE Carried'
  BY <1>6 DEF IngestInv, Carried, Carries, Doomed, OnTime, TypeOK, DeliveryOK, InHands, Active,
     Status, Terminal, Stop, Then, queue, delivery
<1>7. ASSUME NEW u \in User, NEW id \in Id, Remove(u, id) PROVE Carried'
  BY <1>7 DEF IngestInv, Carried, Carries, Doomed, OnTime, TypeOK, DeliveryOK, InHands, Active,
     Status, Terminal, Remove, Then, queue, delivery
<1>8. ASSUME NEW i \in Ingestor, NEW n \in Msg, Receive(i, n) PROVE Carried'
  BY <1>8, NextDelivery DEF IngestInv, Carried, Carries, Doomed, OnTime, TypeOK, DeliveryOK,
     InHands, Active, Status, Terminal, Receive, Held, request
<1>9. ASSUME NEW h \in Delivery, SetRunning(h) PROVE Carried'
  <2> SUFFICES ASSUME NEW id \in Id,
                      rows'[id] \in {"CREATED", "RUNNING"}, id \notin lost', OnTime(id)'
               PROVE  \/ \E u \in User : upc'[u] = "publish" /\ uid'[u] = id
                      \/ \E n \in Msg : qtask'[n] = id /\ Carries(n)'
    BY DEF Carried
  <2>1. /\ OnTime(id) /\ id \notin lost /\ hpc[h] = "txn"
        /\ UNCHANGED <<upc, uid, qtask, qstate, hpc>>
        /\ \A g \in Delivery : g # h => snap'[g] = snap[g]
    BY <1>9 DEF SetRunning, OnTime, request, queue, IngestInv, TypeOK
  <2>2. CASE snap[h] = "CREATED" /\ qtask[MsgOf(h)] = id
    <3>1. MsgOf(h) \notin late /\ qstate[MsgOf(h)] = "out"
      BY <2>1, <2>2 DEF OnTime, IngestInv, DeliveryOK, TypeOK, InHands, Active
    <3>2. snap'[h] = "RUNNING"
      BY <1>9, <2>2 DEF SetRunning, NextStatus, IngestInv, TypeOK
    <3>3. \A g \in Delivery : MsgOf(g) = MsgOf(h) => ~Doomed(g)'
      BY <2>1, <3>1, <3>2 DEF Doomed, IngestInv, WorkedOnOnce, Active
    <3>4. QED
      BY <2>1, <2>2, <3>1, <3>3 DEF Carries
  <2>3. CASE snap[h] = "CREATED" /\ qtask[MsgOf(h)] # id
    <3>1. rows'[id] = rows[id]
      BY <1>9, <2>3 DEF SetRunning, TaskOf, Update, Present, IngestInv, TypeOK
    <3>2. QED
      BY <2>1, <2>3, <3>1 DEF IngestInv, Carried, Carries, Doomed
  <2>4. CASE snap[h] = "STOPPING"
    <3>1. rows'[id] = rows[id]
      BY <1>9, <2>4 DEF SetRunning, NextStatus, TaskOf, Update, Present, IngestInv, TypeOK
    <3>2. QED
      BY <2>1, <2>4, <3>1 DEF IngestInv, Carried, Carries, Doomed
  <2>5. QED
    BY <1>9, <2>2, <2>3, <2>4 DEF SetRunning
<1>10. ASSUME NEW h \in Delivery, Dispatch(h) PROVE Carried'
  BY <1>10 DEF IngestInv, Carried, Carries, Doomed, OnTime, TypeOK, DeliveryOK, InHands, Active,
     Status, Terminal, Dispatch, Enqueue, Over, Goes, Drops, Acknowledge, Refuse, request
<1>11. ASSUME NEW h \in Delivery, ConsumerFails(h) PROVE Carried'
  BY <1>11 DEF IngestInv, Carried, Carries, Doomed, OnTime, TypeOK, DeliveryOK, InHands, Active,
     Status, Terminal, ConsumerFails, Drops, request, queue
<1>12. ASSUME NEW h \in Delivery, Take(h) PROVE Carried'
  BY <1>12 DEF IngestInv, Carried, Carries, Doomed, OnTime, TypeOK, DeliveryOK, InHands, Active,
     Status, Terminal, Take, Goes, request, queue
<1>13. ASSUME NEW h \in Delivery, End(h) PROVE Carried'
  BY <1>13 DEF IngestInv, Carried, Carries, Doomed, OnTime, TypeOK, DeliveryOK, InHands, Active,
     Status, Terminal, End, TaskOf, Goes, Update, Present, request, queue
<1>14. ASSUME NEW h \in Delivery, Ack(h) PROVE Carried'
  BY <1>14 DEF IngestInv, Carried, Carries, Doomed, OnTime, TypeOK, DeliveryOK, InHands, Active,
     Status, Terminal, Ack, Drops, Acknowledge, request
<1>15. ASSUME NEW i \in Ingestor, Crash(i) PROVE Carried'
  BY <1>15 DEF IngestInv, Carried, Carries, Doomed, OnTime, TypeOK, DeliveryOK, InHands, Active,
     Status, Terminal, Crash, Drops, request, queue
<1>16. ASSUME NEW n \in Msg, Redeliver(n) PROVE Carried'
  BY <1>16 DEF IngestInv, Carried, Carries, Doomed, OnTime, TypeOK, DeliveryOK, InHands, Active,
     Status, Terminal, Redeliver, request, delivery
<1>17. CASE UNCHANGED vars
  BY <1>17 DEF IngestInv, Carried, Carries, Doomed, OnTime, TypeOK, DeliveryOK, InHands, Active,
     Status, Terminal, vars, request, queue, delivery
<1>18. QED
  BY <1>1, <1>2, <1>3, <1>4, <1>5, <1>6, <1>7, <1>8, <1>9, <1>10, <1>11, <1>12, <1>13, <1>14,
     <1>15, <1>16, <1>17 DEF Next, RequestStep, IngestorStep

(* The invariant of the tables, the queue and the hands of the ingestors.  *)
THEOREM IngestInvariant == Spec => []IngestInv
<1>1. Init => IngestInv
  <2> SUFFICES ASSUME Init PROVE IngestInv
    OBVIOUS
  <2>1. TypeOK
    BY NumberAssumption DEF Init, TypeOK
  <2>2. DeliveryOK
    BY NumberAssumption, DeliveryParts DEF Init, DeliveryOK, InHands, Active
  <2>3. WorkedOnOnce
    BY DEF Init, WorkedOnOnce, Active
  <2>4. Carried
    BY DEF Init, Carried
  <2>5. QED
    BY <2>1, <2>2, <2>3, <2>4 DEF IngestInv
<1>2. IngestInv /\ [Next]_vars => IngestInv'
  BY TypeOKStep, DeliveryOKStep, WorkedOnOnceStep, CarriedStep DEF IngestInv
<1>3. QED
  BY <1>1, <1>2, PTL DEF Spec

(* A task that has to be done is about to be published or has a message    *)
(* JetStream keeps, whatever crashes, is refused, stopped or restarted.    *)
THEOREM NotForgottenAlways == Spec => []NotForgotten
<1>1. IngestInv => NotForgotten
  BY DEF IngestInv, Carried, Carries, NotForgotten
<1>2. QED
  BY <1>1, IngestInvariant, PTL

(* Two deliveries of a message are not worked on at a time, if executions  *)
(* end within AckWait.                                                     *)
THEOREM WorkedOnOnceAlways == Spec => []WorkedOnOnce
<1>1. IngestInv => WorkedOnOnce
  BY DEF IngestInv
<1>2. QED
  BY <1>1, IngestInvariant, PTL
=============================================================================
