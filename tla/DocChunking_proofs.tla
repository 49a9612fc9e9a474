------------------------ MODULE DocChunking_proofs ------------------------
(***************************************************************************)
(* The theorems about ChunkCounter, for every number of tasks and          *)
(* executors, and those about DocChunking, for every number of requests,   *)
(* page ranges, request threads and executors, with every failure allowed  *)
(* and requests that overlap; then those that need to know how requests,   *)
(* the messages in flight and the counter of the document stay together:   *)
(* that the pipeline uses the counter as ChunkCounter says, that the last  *)
(* task is the last, that no task is forgotten, that a document that is    *)
(* DONE has its chunks, was finalized and counts its chunks, and a stopped *)
(* one has none, that only crashes cost attempts, and that no chunk stays  *)
(* that no row lists.                                                      *)
(***************************************************************************)
EXTENDS DocChunking, FiniteSetTheorems, SequenceTheorems, TLAPS

(* One more payment lowers the number of the tasks that still have to pay. *)
LEMMA PayOne ==
  ASSUME NEW S, IsFiniteSet(S), NEW P, NEW t \in S \ P
  PROVE  Cardinality(S \ (P \cup {t})) = Cardinality(S \ P) - 1
<1>1. IsFiniteSet(S \ P)
  BY FS_Difference
<1>2. S \ (P \cup {t}) = (S \ P) \ {t}
  OBVIOUS
<1>3. QED
  BY <1>1, <1>2, FS_RemoveElement

(***************************************************************************)
(* The inductive invariant: the counter is spent once somebody was the     *)
(* last, and, when runs do not overlap, it is the number of the unpaid     *)
(* tasks as long as it can still reach zero.                               *)
(***************************************************************************)
THEOREM CounterInvAlways == CounterSpec => []CounterInv
<1> USE CounterAssumption
<1> USE DEF CounterInv, CounterTypeOK, CreditsOnce, SpentAfterLast, CountsUnpaid,
            InGate
<1>1. CounterInit => CounterInv
  BY DEF CounterInit
<1>2. CounterInv /\ [CounterNext]_counterVars => CounterInv'
  <2> SUFFICES ASSUME CounterInv, [CounterNext]_counterVars
               PROVE  CounterInv'
    OBVIOUS
  <2>1. CASE NewRun
    <3>1. PICK tasks \in SUBSET Task :
             /\ tasks # {} /\ tasks \cap marked = {}
             /\ Disjoint => \A w \in Worker : gate[w] = "out"
             /\ Seed(tasks)
      BY <2>1 DEF NewRun
    <3>2. Cardinality(tasks) \in Nat /\ tasks \ {} = tasks
      BY FS_Subset, FS_CardinalityType
    <3>3. QED
      BY <3>1, <3>2 DEF Seed
  <2>2. CASE Abort
    BY <2>2 DEF Abort
  <2>3. ASSUME NEW w \in Worker, NEW t \in Task, Disjoint => t \in owed, Mark(w, t)
        PROVE  CounterInv'
    BY <2>3 DEF Mark
  <2>4. ASSUME NEW w \in Worker, NoCounter(w) PROVE CounterInv'
    BY <2>4 DEF NoCounter, Leave
  <2>5. ASSUME NEW w \in Worker, FoundCounter(w) PROVE CounterInv'
    BY <2>5 DEF FoundCounter
  <2>6. ASSUME NEW w \in Worker, Decrement(w) PROVE CounterInv'
    <3>1. gate[w] = "found" /\ credits[w] \in marked /\ Count \in Int
      BY <2>6 DEF Decrement, Count
    <3>2. /\ pending' = Count - 1 /\ paid' = paid \cup {credits[w]}
          /\ UNCHANGED <<marked, owed>>
      BY <2>6 DEF Decrement
    <3>3. /\ gate' \in [Worker -> {"out", "marked", "found", "last"}]
          /\ credits' \in [Worker -> Task \cup {NoTask}]
          /\ gate'[w] \in {"out", "last"}
          /\ \A v \in Worker \ {w} : gate'[v] = gate[v] /\ credits'[v] = credits[v]
      BY <2>6 DEF Decrement, Leave
    <3>4. lasts' = IF pending' = 0 THEN lasts + 1 ELSE lasts
      BY <2>6 DEF Decrement
    <3>5. CounterTypeOK' /\ CreditsOnce'
      BY <3>1, <3>2, <3>3, <3>4
    <3>6. SpentAfterLast'
      BY <3>1, <3>2, <3>4 DEF Count
    <3>7. ASSUME Disjoint
          PROVE  /\ paid' \subseteq owed'
                 /\ \A v \in Worker : InGate(v)' => credits'[v] \in owed' \ paid'
                 /\ \A v \in Worker : gate'[v] = "last" => lasts' # 0
      <4>1. gate'[w] = "last" => lasts' = lasts + 1
        BY <2>6 DEF Decrement, Leave
      <4>2. QED
        BY <3>1, <3>2, <3>3, <3>4, <3>7, <4>1
    <3>8. ASSUME Disjoint
          PROVE  /\ pending' # NoCount /\ pending' >= 0
                       => pending' = Cardinality(owed' \ paid')
                 /\ lasts' # 0 => owed' = paid'
      <4>1. IsFiniteSet(owed) /\ IsFiniteSet(owed \ paid)
        BY FS_Subset, FS_Difference
      <4>2. credits[w] \in owed \ paid
        BY <3>1, <3>8
      <4>3. Cardinality(owed \ paid') = Cardinality(owed \ paid) - 1
        BY <3>2, <4>1, <4>2, PayOne
      <4>4. lasts = 0
        BY <4>2, <3>8
      <4>5. pending' >= 0 => pending' = Cardinality(owed \ paid')
        BY <3>1, <3>2, <4>3, <3>8 DEF Count
      <4>6. pending' = 0 => owed = paid'
        <5>1. IsFiniteSet(owed \ paid')
          BY <4>1, FS_Difference
        <5>2. Cardinality(owed \ paid') = 0 => owed \ paid' = {}
          BY <5>1, FS_EmptySet
        <5>3. QED
          BY <4>5, <5>2, <3>7, <3>8, <3>2
      <4>7. QED
        BY <3>2, <3>4, <4>4, <4>5, <4>6
    <3>9. QED
      BY <3>5, <3>6, <3>7, <3>8
  <2>7. ASSUME NEW w \in Worker, Clear(w) PROVE CounterInv'
    BY <2>7 DEF Clear, Leave
  <2>8. ASSUME NEW w \in Worker, CreditCrash(w) PROVE CounterInv'
    BY <2>8 DEF CreditCrash, Leave
  <2>9. CASE UNCHANGED counterVars
    BY <2>9 DEF counterVars
  <2>10. QED
    BY <2>1, <2>2, <2>3, <2>4, <2>5, <2>6, <2>7, <2>8, <2>9 DEF CounterNext
<1>3. QED
  BY <1>1, <1>2, PTL DEF CounterSpec

(***************************************************************************)
(* After a seed at most one executor is told that its task is the last:    *)
(* the finalizers of a parse request run at most once, whatever crashes,   *)
(* aborts and foreign tasks do to the counter.                             *)
(***************************************************************************)
THEOREM AtMostOneLastAlways == CounterSpec => []AtMostOneLast
<1>1. CounterInv => AtMostOneLast
  BY DEF CounterInv, CounterTypeOK, SpentAfterLast, AtMostOneLast
<1>2. QED
  BY <1>1, CounterInvAlways, PTL

(***************************************************************************)
(* When parse requests do not overlap, the executor that is told so really *)
(* is the last: every task its request queued has been credited.           *)
(***************************************************************************)
THEOREM LastMeansAllAlways == CounterSpec => []LastMeansAll
<1>1. CounterInv => LastMeansAll
  BY DEF CounterInv, CountsUnpaid, LastMeansAll
<1>2. QED
  BY <1>1, CounterInvAlways, PTL

-----------------------------------------------------------------------------
(* The id of a chunk is in the set the store is drawn from. *)
LEMMA ChunkIsTask ==
  ASSUME NEW t \in Task
  PROVE  PartOf(t) \in Part /\ ChunkOf(t) \in Task
  BY ChunkingAssumption DEF Run, Part, PartOf, ChunkOf

(* What queue_tasks planned can be counted. *)
LEMMA PlanFinite ==
  ASSUME ApiTypeOK, NEW a \in Api
  PROVE  Cardinality(plan[a].reuse) \in Nat /\ Cardinality(plan[a].fresh) \in Nat
<1>1. plan[a].reuse \subseteq Part /\ plan[a].fresh \subseteq Task
  BY DEF ApiTypeOK
<1>2. IsFiniteSet(Part)
  BY ChunkingAssumption, FS_Interval DEF Part
<1>3. QED
  BY <1>1, <1>2, CounterAssumption, FS_Subset, FS_CardinalityType

(* What _sync_progress derives, and the two marks that are no result. *)
LEMMA SyncValues ==
  /\ Derived \in SyncResult \cup {NoSync} /\ NoSync # Selected
  /\ \A r \in SyncResult : r # NoSync /\ r # Selected
  BY DEF Derived, SyncResult, NoSync, Selected

(***************************************************************************)
(* The inductive invariant: an executor works on a message it has not      *)
(* acked, enters the gate at the step that credits its task only, and the  *)
(* counter is spent once somebody was the last.                            *)
(***************************************************************************)
THEOREM PipelineInvAlways == Spec => []PipelineInv
<1> USE ChunkingAssumption, CounterAssumption
<1>1. \A t \in Task : PartOf(t) \in Part /\ ChunkOf(t) \in Task
  BY ChunkIsTask
<1>2. /\ Derived \in SyncResult \cup {NoSync} /\ NoSync # Selected
      /\ \A r \in SyncResult : r # NoSync /\ r # Selected
  BY SyncValues
<1>3. Init => PipelineInv
  BY <1>1, <1>2 DEF Init, CounterInit, NoPlan, Syncer, PipelineInv, TypeOK,
       DocTypeOK, SyncTypeOK, RowTypeOK, WorkTypeOK, ApiTypeOK, CounterTypeOK,
       HandledIsUnacked, CreditsOnce, SpentAfterLast, InGate, Handling,
       docVars, rowVars, queueVars, workVars, apiVars, counterVars
<1>4. PipelineInv /\ [Next]_vars => PipelineInv'
  <2> SUFFICES ASSUME PipelineInv, [Next]_vars
               PROVE  PipelineInv'
    OBVIOUS
  <2>1. ASSUME NEW a \in Api, SetChunkNum(a) PROVE PipelineInv'
    <3>1. DocTypeOK'
      BY <2>1, PlanFinite DEF PipelineInv, TypeOK, DocTypeOK, SetChunkNum
    <3>2. (SyncTypeOK /\ RowTypeOK /\ WorkTypeOK /\ ApiTypeOK /\ CounterTypeOK
         /\ HandledIsUnacked /\ CreditsOnce /\ SpentAfterLast)'
      BY <2>1 DEF PipelineInv, TypeOK, SyncTypeOK, Syncer, RowTypeOK, rowVars,
           WorkTypeOK, queueVars, workVars, Handling, ApiTypeOK, apiVars,
           CounterTypeOK, counterVars, HandledIsUnacked, CreditsOnce, InGate,
           SpentAfterLast, SetChunkNum, Do
    <3>3. QED
      BY <3>1, <3>2 DEF PipelineInv, TypeOK
  <2>2. ASSUME NEW a \in Api, InsertRows(a) PROVE PipelineInv'
    <3>0. run + 1 \in Run /\ {run + 1} \X Part \subseteq Task
      BY <2>2 DEF InsertRows, Run, PipelineInv, TypeOK, ApiTypeOK
    <3>1. RowTypeOK'
      <4>1. {run'} \X Part \subseteq Task /\ {run'} \X plan[a].reuse \subseteq Task
        BY <2>2, <3>0 DEF InsertRows, PipelineInv, TypeOK, ApiTypeOK
      <4>2. rows' \subseteq Task /\ ids' \subseteq Task
        BY <2>2, <4>1 DEF InsertRows, PipelineInv, TypeOK, RowTypeOK
      <4>3. prog' \in [Task -> {"queued", "going", "done", "failed"}]
        BY <2>2 DEF InsertRows, PipelineInv, TypeOK, RowTypeOK
      <4>4. tries' \in [Task -> Nat]
        BY <2>2 DEF InsertRows, PipelineInv, TypeOK, RowTypeOK
      <4>5. QED
        BY <2>2, <4>2, <4>3, <4>4 DEF InsertRows, PipelineInv, TypeOK, RowTypeOK
    <3>2. ApiTypeOK'
      <4> DEFINE new == ({run + 1} \X Part) \ ({run + 1} \X plan[a].reuse)
      <4>1. plan' = [plan EXCEPT ![a].fresh = new] /\ run' = run + 1
        BY <2>2 DEF InsertRows
      <4>2. new \subseteq Task
        BY <3>0
      <4>3. run' \in 0..MaxRuns
        BY <2>2 DEF InsertRows, PipelineInv, TypeOK, ApiTypeOK
      <4> HIDE DEF new
      <4>4. QED
        BY <4>1, <4>2, <4>3 DEF PipelineInv, TypeOK, ApiTypeOK
    <3>3. (DocTypeOK /\ SyncTypeOK /\ WorkTypeOK /\ CounterTypeOK /\
         HandledIsUnacked /\ CreditsOnce /\ SpentAfterLast)'
      BY <2>2 DEF PipelineInv, TypeOK, DocTypeOK, docVars, SyncTypeOK, Syncer,
           WorkTypeOK, queueVars, workVars, Handling, CounterTypeOK,
           counterVars, HandledIsUnacked, CreditsOnce, InGate, SpentAfterLast,
           InsertRows, Do
    <3>4. QED
      BY <3>1, <3>2, <3>3 DEF PipelineInv, TypeOK
  <2>3. ASSUME NEW a \in Api, SeedRun(a) PROVE PipelineInv'
    <3>1. CounterTypeOK'
      BY <2>3, PlanFinite DEF PipelineInv, TypeOK, ApiTypeOK, CounterTypeOK, SeedRun, Seed,
         counterVars
    <3>2. SpentAfterLast'
      BY <2>3, <1>1, <1>2 DEF PipelineInv, TypeOK, CounterTypeOK,
           SpentAfterLast, counterVars, SeedRun, Do, Seed
    <3>3. (DocTypeOK /\ SyncTypeOK /\ RowTypeOK /\ WorkTypeOK /\ ApiTypeOK /\
         HandledIsUnacked /\ CreditsOnce)'
      BY <2>3 DEF PipelineInv, TypeOK, DocTypeOK, docVars, SyncTypeOK, Syncer,
           RowTypeOK, rowVars, WorkTypeOK, queueVars, workVars, Handling,
           ApiTypeOK, apiVars, CounterTypeOK, HandledIsUnacked, counterVars,
           CreditsOnce, InGate, SeedRun, Do, Seed
    <3>4. QED
      BY <3>1, <3>2, <3>3 DEF PipelineInv, TypeOK
  <2>4. ASSUME NEW a \in Api, Publish(a) PROVE PipelineInv'
    <3>1. WorkTypeOK'
      <4>1. CASE plan[a].fresh = {}
        BY <2>4, <4>1 DEF Publish, PipelineInv, TypeOK, WorkTypeOK, workVars
      <4>2. CASE plan[a].fresh # {}
        <5>1. PICK t \in plan[a].fresh : stream' = Append(stream, t)
          BY <2>4, <4>2 DEF Publish
        <5>2. t \in Task
          BY <5>1 DEF PipelineInv, TypeOK, ApiTypeOK
        <5>3. QED
          BY <2>4, <5>1, <5>2 DEF Publish, PipelineInv, TypeOK, WorkTypeOK, workVars
      <4>3. QED
        BY <4>1, <4>2
    <3>2. ApiTypeOK'
      <4>1. CASE plan[a].fresh = {}
        <5>1. plan' = [plan EXCEPT ![a] = NoPlan] /\ run' = run
          BY <2>4, <4>1 DEF Publish
        <5>2. QED
          BY <5>1 DEF PipelineInv, TypeOK, ApiTypeOK, NoPlan
      <4>2. CASE plan[a].fresh # {}
        <5>1. PICK t \in plan[a].fresh : plan' = [plan EXCEPT ![a].fresh = @ \ {t}]
          BY <2>4, <4>2 DEF Publish
        <5>2. QED
          BY <2>4, <5>1 DEF Publish, PipelineInv, TypeOK, ApiTypeOK
      <4>3. QED
        BY <4>1, <4>2
    <3>3. (DocTypeOK /\ SyncTypeOK /\ RowTypeOK)'
      BY <2>4 DEF PipelineInv, TypeOK, DocTypeOK, docVars, SyncTypeOK, Syncer, RowTypeOK,
         rowVars, Publish
    <3>4. (CounterTypeOK /\ CreditsOnce /\ SpentAfterLast)'
      BY <2>4 DEF PipelineInv, TypeOK, CounterTypeOK, counterVars, CreditsOnce, InGate,
         SpentAfterLast, Publish
    <3>5. HandledIsUnacked'
      BY <2>4 DEF PipelineInv, HandledIsUnacked, Handling, counterVars, workVars, Publish
    <3>6. QED
      BY <3>1, <3>2, <3>3, <3>4, <3>5 DEF PipelineInv, TypeOK
  <2>5. ASSUME NEW w \in Worker, Collect(w) PROVE PipelineInv'
    <3>1. /\ wpc' = [wpc EXCEPT ![w] = "received"]
          /\ wpc[w] = "idle" /\ UNCHANGED <<fault, crashes>>
      BY <2>5 DEF Collect, Goto
    <3>2. WorkTypeOK' /\ HandledIsUnacked'
      <4>1. CASE \E t \in replay[w] :
                    /\ wtask' = [wtask EXCEPT ![w] = t]
                    /\ replay' = [replay EXCEPT ![w] = @ \ {t}]
                    /\ UNCHANGED queueVars
        <5>1. PICK t \in replay[w] : /\ wtask' = [wtask EXCEPT ![w] = t]
                                     /\ replay' = [replay EXCEPT ![w] = @ \ {t}]
                                     /\ UNCHANGED queueVars
          BY <4>1
        <5>2. t \in Task /\ t \in pel[w]
          BY <5>1 DEF PipelineInv, TypeOK, WorkTypeOK, HandledIsUnacked
        <5>3. WorkTypeOK'
          BY <3>1, <5>1, <5>2 DEF PipelineInv, TypeOK, WorkTypeOK, queueVars
        <5>4. HandledIsUnacked'
          BY <2>5, <3>1, <5>1, <5>2 DEF Collect, counterVars, queueVars, PipelineInv, TypeOK,
             WorkTypeOK, CounterTypeOK, HandledIsUnacked
        <5>5. QED
          BY <5>3, <5>4
      <4>2. CASE /\ replay[w] = {} /\ stream # <<>>
                 /\ wtask' = [wtask EXCEPT ![w] = Head(stream)]
                 /\ pel' = [pel EXCEPT ![w] = @ \cup {Head(stream)}]
                 /\ stream' = Tail(stream)
                 /\ UNCHANGED replay
        <5>1. PICK t \in Task : t = Head(stream)
          BY <4>2 DEF PipelineInv, TypeOK, WorkTypeOK
        <5>2. stream' \in Seq(Task)
          BY <4>2 DEF PipelineInv, TypeOK, WorkTypeOK
        <5>3. WorkTypeOK'
          BY <3>1, <4>2, <5>1, <5>2 DEF PipelineInv, TypeOK, WorkTypeOK
        <5>4. HandledIsUnacked'
          BY <2>5, <3>1, <4>2, <5>1 DEF Collect, counterVars, PipelineInv, TypeOK,
             WorkTypeOK, CounterTypeOK, HandledIsUnacked
        <5>5. QED
          BY <5>3, <5>4
      <4>3. QED
        BY <2>5, <4>1, <4>2 DEF Collect
    <3>3. (DocTypeOK /\ SyncTypeOK /\ RowTypeOK /\ ApiTypeOK /\ CounterTypeOK /\ CreditsOnce /\ SpentAfterLast)'
      BY <2>5 DEF PipelineInv, TypeOK, DocTypeOK, docVars, SyncTypeOK, RowTypeOK, rowVars,
         ApiTypeOK, apiVars, CounterTypeOK, counterVars, CreditsOnce, InGate, SpentAfterLast, Collect
    <3>4. QED
      BY <3>2, <3>3 DEF PipelineInv, TypeOK
  <2>6. ASSUME NEW w \in Worker, Receive(w) PROVE PipelineInv'
    <3>0. wtask[w] \in Task /\ wtask[w] \in pel[w]
      BY <2>6 DEF Receive, Handling, PipelineInv, TypeOK, WorkTypeOK,
           HandledIsUnacked, CounterTypeOK
    <3>1. RowTypeOK'
      <4>1. CASE wtask[w] \in rows
        BY <2>6, <3>0, <4>1 DEF Receive, PipelineInv, TypeOK, RowTypeOK
      <4>2. CASE wtask[w] \notin rows
        BY <2>6, <4>2 DEF Receive, PipelineInv, TypeOK, RowTypeOK
      <4>3. QED
        BY <4>1, <4>2
    <3>2. WorkTypeOK'
      BY <2>6, <3>0, <1>1, <1>2 DEF PipelineInv, TypeOK, WorkTypeOK,
           queueVars, workVars, Handling, Receive, Goto
    <3>3. HandledIsUnacked'
      BY <2>6, <3>0, <1>1, <1>2 DEF PipelineInv, TypeOK, SyncTypeOK, Syncer,
           WorkTypeOK, CounterTypeOK, HandledIsUnacked, queueVars, workVars,
           counterVars, Handling, Receive, Goto
    <3>4. (DocTypeOK /\ SyncTypeOK /\ ApiTypeOK /\ CounterTypeOK /\
         CreditsOnce /\ SpentAfterLast)'
      BY <2>6 DEF PipelineInv, TypeOK, DocTypeOK, docVars, SyncTypeOK, Syncer,
           ApiTypeOK, apiVars, CounterTypeOK, counterVars, WorkTypeOK,
           CreditsOnce, InGate, HandledIsUnacked, SpentAfterLast, Receive,
           Goto
    <3>5. QED
      BY <3>1, <3>2, <3>3, <3>4 DEF PipelineInv, TypeOK
  <2>7. ASSUME NEW w \in Worker, Abandon(w) PROVE PipelineInv'
    <3>0. wtask[w] \in Task /\ wtask[w] \in pel[w]
      BY <2>7 DEF Abandon, Handling, PipelineInv, TypeOK, WorkTypeOK,
           HandledIsUnacked, CounterTypeOK
    <3>1. DocTypeOK'
      BY <2>7, <3>0, <1>1, <1>2 DEF PipelineInv, TypeOK, DocTypeOK, docVars,
           Abandon, Goto, FailTask, Abort, TryAbort
    <3>2. RowTypeOK'
      BY <2>7, <3>0, <1>1, <1>2 DEF PipelineInv, TypeOK, RowTypeOK, rowVars,
           Abandon, Goto, FailTask, Abort, TryAbort
    <3>3. WorkTypeOK'
      BY <2>7, <3>0, <1>1, <1>2 DEF PipelineInv, TypeOK, WorkTypeOK,
           queueVars, workVars, Handling, Abandon, Goto, FailTask, Abort,
           TryAbort
    <3>4. CounterTypeOK'
      BY <2>7, <3>0, <1>1, <1>2 DEF PipelineInv, TypeOK, CounterTypeOK,
           counterVars, Abandon, Goto, FailTask, Abort, TryAbort
    <3>5. HandledIsUnacked'
      BY <2>7, <3>0, <1>1, <1>2 DEF PipelineInv, TypeOK, SyncTypeOK, Syncer,
           WorkTypeOK, CounterTypeOK, HandledIsUnacked, queueVars, workVars,
           counterVars, Handling, Abandon, Goto, FailTask, Abort, TryAbort
    <3>6. SpentAfterLast'
      BY <2>7, <3>0, <1>1, <1>2 DEF PipelineInv, TypeOK, CounterTypeOK,
           SpentAfterLast, counterVars, Abandon, Goto, FailTask, Abort,
           TryAbort
    <3>7. (SyncTypeOK /\ ApiTypeOK /\ CreditsOnce)'
      BY <2>7 DEF PipelineInv, TypeOK, SyncTypeOK, Syncer, ApiTypeOK, apiVars,
           WorkTypeOK, CounterTypeOK, CreditsOnce, InGate, HandledIsUnacked,
           counterVars, Abandon, Goto, FailTask, Abort, TryAbort
    <3>8. QED
      BY <3>1, <3>2, <3>3, <3>4, <3>5, <3>6, <3>7 DEF PipelineInv, TypeOK
  <2>8. ASSUME NEW w \in Worker, SeeCancel(w) PROVE PipelineInv'
    <3>0. wtask[w] \in Task /\ wtask[w] \in pel[w]
      BY <2>8 DEF SeeCancel, Handling, PipelineInv, TypeOK, WorkTypeOK,
           HandledIsUnacked, CounterTypeOK
    <3>1. DocTypeOK'
      BY <2>8, <3>0, <1>1, <1>2 DEF PipelineInv, TypeOK, DocTypeOK, docVars,
           SeeCancel, Goto, FailTask, ReportFailure, TryAbort, Abort
    <3>2. RowTypeOK'
      BY <2>8, <3>0, <1>1, <1>2 DEF PipelineInv, TypeOK, RowTypeOK, rowVars,
           SeeCancel, Goto, FailTask, ReportFailure, TryAbort, Abort
    <3>3. WorkTypeOK'
      BY <2>8, <3>0, <1>1, <1>2 DEF PipelineInv, TypeOK, WorkTypeOK,
           queueVars, workVars, Handling, SeeCancel, Goto, FailTask,
           ReportFailure, TryAbort, Abort
    <3>4. CounterTypeOK'
      BY <2>8, <3>0, <1>1, <1>2 DEF PipelineInv, TypeOK, CounterTypeOK,
           counterVars, SeeCancel, Goto, FailTask, ReportFailure, TryAbort,
           Abort
    <3>5. HandledIsUnacked'
      BY <2>8, <3>0, <1>1, <1>2 DEF PipelineInv, TypeOK, SyncTypeOK, Syncer,
           WorkTypeOK, CounterTypeOK, HandledIsUnacked, queueVars, workVars,
           counterVars, Handling, SeeCancel, Goto, FailTask, ReportFailure,
           TryAbort, Abort
    <3>6. SpentAfterLast'
      BY <2>8, <3>0, <1>1, <1>2 DEF PipelineInv, TypeOK, CounterTypeOK,
           SpentAfterLast, counterVars, SeeCancel, Goto, FailTask,
           ReportFailure, TryAbort, Abort
    <3>7. (SyncTypeOK /\ ApiTypeOK /\ CreditsOnce)'
      BY <2>8 DEF PipelineInv, TypeOK, SyncTypeOK, Syncer, ApiTypeOK, apiVars,
           WorkTypeOK, CounterTypeOK, CreditsOnce, InGate, HandledIsUnacked,
           counterVars, SeeCancel, Goto, FailTask, ReportFailure, TryAbort,
           Abort
    <3>8. QED
      BY <3>1, <3>2, <3>3, <3>4, <3>5, <3>6, <3>7 DEF PipelineInv, TypeOK
  <2>9. ASSUME NEW w \in Worker, Credit(w) PROVE PipelineInv'
    <3>0. wtask[w] \in Task /\ wtask[w] \in pel[w]
      BY <2>9 DEF Credit, Mark, Handling, PipelineInv, TypeOK,
           WorkTypeOK, HandledIsUnacked, CounterTypeOK
    <3>1. WorkTypeOK'
      BY <2>9, <3>0, <1>1, <1>2 DEF PipelineInv, TypeOK, WorkTypeOK,
           queueVars, workVars, Handling, Credit, Goto, Ask, Mark
    <3>2. CounterTypeOK'
      BY <2>9, <3>0, <1>1, <1>2 DEF PipelineInv, TypeOK, CounterTypeOK,
           counterVars, Credit, Goto, Ask, Mark
    <3>3. HandledIsUnacked'
      BY <2>9, <3>0, <1>1, <1>2 DEF PipelineInv, TypeOK, SyncTypeOK, Syncer,
           WorkTypeOK, CounterTypeOK, HandledIsUnacked, queueVars, workVars,
           counterVars, Handling, Credit, Goto, Ask, Mark
    <3>4. CreditsOnce'
      <4>1. CASE Mark(w, wtask[w])
        BY <4>1 DEF Mark, PipelineInv, TypeOK, CounterTypeOK, CreditsOnce, InGate
      <4>2. CASE UNCHANGED counterVars
        BY <4>2 DEF counterVars, PipelineInv, CreditsOnce, InGate
      <4>3. QED
        BY <2>9, <4>1, <4>2 DEF Credit
    <3>5. (DocTypeOK /\ SyncTypeOK /\ RowTypeOK /\ ApiTypeOK /\
         SpentAfterLast)'
      BY <2>9 DEF PipelineInv, TypeOK, DocTypeOK, docVars, SyncTypeOK, Syncer,
           RowTypeOK, rowVars, ApiTypeOK, apiVars, CounterTypeOK,
           SpentAfterLast, counterVars, Credit, Goto, Ask, Mark
    <3>6. QED
      BY <3>1, <3>2, <3>3, <3>4, <3>5 DEF PipelineInv, TypeOK
  <2>10. ASSUME NEW w \in Worker, Gate(w) PROVE PipelineInv'
    <3>0. wtask[w] \in Task /\ wtask[w] \in pel[w]
      BY <2>10 DEF Gate, Handling, PipelineInv, TypeOK, WorkTypeOK,
           HandledIsUnacked, CounterTypeOK
    <3>1. WorkTypeOK'
      BY <2>10, <3>0, <1>1, <1>2 DEF PipelineInv, TypeOK, WorkTypeOK,
           queueVars, workVars, Handling, Gate, Goto, Ask, NoCounter, FoundCounter,
           Decrement, Leave, Count
    <3>2. CounterTypeOK'
      <4>1. CASE NoCounter(w)
        BY <4>1 DEF NoCounter, Leave, PipelineInv, TypeOK, CounterTypeOK
      <4>2. CASE FoundCounter(w)
        BY <4>2 DEF FoundCounter, PipelineInv, TypeOK, CounterTypeOK
      <4>3. CASE Decrement(w)
        BY <4>3 DEF Decrement, Count, Leave, PipelineInv, TypeOK, CounterTypeOK, CreditsOnce,
           InGate
      <4>4. QED
        BY <2>10, <4>1, <4>2, <4>3 DEF Gate
    <3>3. HandledIsUnacked'
      BY <2>10, <3>0, <1>1, <1>2 DEF PipelineInv, TypeOK, SyncTypeOK, Syncer,
           WorkTypeOK, CounterTypeOK, HandledIsUnacked, queueVars, workVars,
           counterVars, Handling, Gate, Goto, Ask, NoCounter, FoundCounter,
           Decrement, Leave, Count
    <3>4. CreditsOnce'
      <4>1. CASE NoCounter(w)
        BY <4>1 DEF NoCounter, Leave, PipelineInv, TypeOK, CounterTypeOK, CreditsOnce, InGate
      <4>2. CASE FoundCounter(w)
        BY <4>2 DEF FoundCounter, PipelineInv, TypeOK, CounterTypeOK, CreditsOnce, InGate
      <4>3. CASE Decrement(w)
        BY <4>3 DEF Decrement, Leave, PipelineInv, TypeOK, CounterTypeOK, CreditsOnce, InGate
      <4>4. QED
        BY <2>10, <4>1, <4>2, <4>3 DEF Gate
    <3>5. SpentAfterLast'
      BY <2>10, <3>0, <1>1, <1>2 DEF PipelineInv, TypeOK, CounterTypeOK,
           SpentAfterLast, counterVars, Gate, Goto, Ask, NoCounter, FoundCounter,
           Decrement, Leave, Count
    <3>6. (DocTypeOK /\ SyncTypeOK /\ RowTypeOK /\ ApiTypeOK)'
      BY <2>10 DEF PipelineInv, TypeOK, DocTypeOK, docVars, SyncTypeOK,
           Syncer, RowTypeOK, rowVars, ApiTypeOK, apiVars, Gate, Goto, Ask,
           NoCounter, FoundCounter, Decrement, Leave, Count
    <3>7. QED
      BY <3>1, <3>2, <3>3, <3>4, <3>5, <3>6 DEF PipelineInv, TypeOK
  <2>11. ASSUME NEW w \in Worker, LeaveHandler(w) PROVE PipelineInv'
    <3>0. wtask[w] \in Task /\ wtask[w] \in pel[w]
      BY <2>11 DEF LeaveHandler, Handling, PipelineInv, TypeOK, WorkTypeOK,
           HandledIsUnacked, CounterTypeOK
    <3>1. WorkTypeOK'
      BY <2>11, <3>0, <1>1, <1>2 DEF PipelineInv, TypeOK, WorkTypeOK,
           queueVars, workVars, Handling, LeaveHandler, Goto, Abort,
           AfterHandler, TryAbort
    <3>2. CounterTypeOK'
      BY <2>11, <3>0, <1>1, <1>2 DEF PipelineInv, TypeOK, CounterTypeOK,
           counterVars, LeaveHandler, Goto, Abort, AfterHandler, TryAbort
    <3>3. HandledIsUnacked'
      BY <2>11, <3>0, <1>1, <1>2 DEF PipelineInv, TypeOK, SyncTypeOK, Syncer,
           WorkTypeOK, CounterTypeOK, HandledIsUnacked, queueVars, workVars,
           counterVars, Handling, LeaveHandler, Goto, Abort, AfterHandler,
           TryAbort
    <3>4. SpentAfterLast'
      BY <2>11, <3>0, <1>1, <1>2 DEF PipelineInv, TypeOK, CounterTypeOK,
           SpentAfterLast, counterVars, LeaveHandler, Goto, Abort,
           AfterHandler, TryAbort
    <3>5. (DocTypeOK /\ SyncTypeOK /\ RowTypeOK /\ ApiTypeOK /\ CreditsOnce)'
      BY <2>11 DEF PipelineInv, TypeOK, DocTypeOK, docVars, SyncTypeOK,
           Syncer, RowTypeOK, rowVars, ApiTypeOK, apiVars, WorkTypeOK,
           CounterTypeOK, CreditsOnce, InGate, HandledIsUnacked, counterVars,
           LeaveHandler, Goto, Abort, AfterHandler, TryAbort
    <3>6. QED
      BY <3>1, <3>2, <3>3, <3>4, <3>5 DEF PipelineInv, TypeOK
  <2>12. ASSUME NEW w \in Worker, Report(w) PROVE PipelineInv'
    <3>0. wtask[w] \in Task /\ wtask[w] \in pel[w]
      BY <2>12 DEF Report, Handling, PipelineInv, TypeOK, WorkTypeOK,
           HandledIsUnacked, CounterTypeOK
    <3>1. DocTypeOK'
      BY <2>12, <3>0, <1>1, <1>2 DEF PipelineInv, TypeOK, DocTypeOK, docVars,
           Report, Goto, FailTask, ReportFailure
    <3>2. RowTypeOK'
      BY <2>12, <3>0, <1>1, <1>2 DEF PipelineInv, TypeOK, RowTypeOK, rowVars,
           Report, Goto, FailTask, ReportFailure
    <3>3. WorkTypeOK'
      BY <2>12, <3>0, <1>1, <1>2 DEF PipelineInv, TypeOK, WorkTypeOK,
           queueVars, workVars, Handling, Report, Goto, FailTask,
           ReportFailure
    <3>4. HandledIsUnacked'
      BY <2>12, <3>0, <1>1, <1>2 DEF PipelineInv, TypeOK, SyncTypeOK, Syncer,
           WorkTypeOK, CounterTypeOK, HandledIsUnacked, queueVars, workVars,
           counterVars, Handling, Report, Goto, FailTask, ReportFailure
    <3>5. (SyncTypeOK /\ ApiTypeOK /\ CounterTypeOK /\ CreditsOnce /\
         SpentAfterLast)'
      BY <2>12 DEF PipelineInv, TypeOK, SyncTypeOK, Syncer, ApiTypeOK,
           apiVars, CounterTypeOK, counterVars, WorkTypeOK, CreditsOnce,
           InGate, HandledIsUnacked, SpentAfterLast, Report, Goto, FailTask,
           ReportFailure
    <3>6. QED
      BY <3>1, <3>2, <3>3, <3>4, <3>5 DEF PipelineInv, TypeOK
  <2>13. ASSUME NEW w \in Worker, LogRead(w) PROVE PipelineInv'
    <3>0. wtask[w] \in Task /\ wtask[w] \in pel[w]
      BY <2>13 DEF LogRead, Handling, PipelineInv, TypeOK, WorkTypeOK,
           HandledIsUnacked, CounterTypeOK
    <3>1. SyncTypeOK'
      BY <2>13, <3>0, <1>1, <1>2 DEF PipelineInv, TypeOK, SyncTypeOK, Syncer,
           LogRead, Goto
    <3>2. WorkTypeOK'
      BY <2>13, <3>0, <1>1, <1>2 DEF PipelineInv, TypeOK, WorkTypeOK,
           queueVars, workVars, Handling, LogRead, Goto
    <3>3. HandledIsUnacked'
      BY <2>13, <3>0, <1>1, <1>2 DEF PipelineInv, TypeOK, SyncTypeOK, Syncer,
           WorkTypeOK, CounterTypeOK, HandledIsUnacked, queueVars, workVars,
           counterVars, Handling, LogRead, Goto
    <3>4. (DocTypeOK /\ RowTypeOK /\ ApiTypeOK /\ CounterTypeOK /\ CreditsOnce
         /\ SpentAfterLast)'
      BY <2>13 DEF PipelineInv, TypeOK, DocTypeOK, docVars, RowTypeOK,
           rowVars, ApiTypeOK, apiVars, CounterTypeOK, counterVars,
           WorkTypeOK, CreditsOnce, InGate, HandledIsUnacked, SpentAfterLast,
           LogRead, Goto
    <3>5. QED
      BY <3>1, <3>2, <3>3, <3>4 DEF PipelineInv, TypeOK
  <2>14. ASSUME NEW w \in Worker, LogWrite(w) PROVE PipelineInv'
    <3>0. wtask[w] \in Task /\ wtask[w] \in pel[w]
      BY <2>14 DEF LogWrite, Handling, PipelineInv, TypeOK, WorkTypeOK,
           HandledIsUnacked, CounterTypeOK
    <3>1. DocTypeOK'
      <4>1. sync[w] \in SyncResult
        BY <2>14, <1>2 DEF LogWrite, PipelineInv, TypeOK, SyncTypeOK, Syncer, HandledIsUnacked
      <4>2. QED
        BY <2>14, <4>1 DEF LogWrite, WriteDerived, SyncResult, PipelineInv, TypeOK, DocTypeOK
    <3>2. SyncTypeOK'
      BY <2>14, <3>0, <1>1, <1>2 DEF PipelineInv, TypeOK, SyncTypeOK, Syncer,
           LogWrite, Goto, WriteDerived
    <3>3. WorkTypeOK'
      BY <2>14, <3>0, <1>1, <1>2 DEF PipelineInv, TypeOK, WorkTypeOK,
           queueVars, workVars, Handling, LogWrite, Goto, WriteDerived
    <3>4. HandledIsUnacked'
      BY <2>14, <3>0, <1>1, <1>2 DEF PipelineInv, TypeOK, SyncTypeOK, Syncer,
           WorkTypeOK, CounterTypeOK, HandledIsUnacked, queueVars, workVars,
           counterVars, Handling, LogWrite, Goto, WriteDerived
    <3>5. (RowTypeOK /\ ApiTypeOK /\ CounterTypeOK /\ CreditsOnce /\
         SpentAfterLast)'
      BY <2>14 DEF PipelineInv, TypeOK, RowTypeOK, rowVars, ApiTypeOK,
           apiVars, CounterTypeOK, counterVars, WorkTypeOK, CreditsOnce,
           InGate, HandledIsUnacked, SpentAfterLast, LogWrite, Goto,
           WriteDerived
    <3>6. QED
      BY <3>1, <3>2, <3>3, <3>4, <3>5 DEF PipelineInv, TypeOK
  <2>15. ASSUME NEW w \in Worker, CreditFails(w) PROVE PipelineInv'
    <3>0. wtask[w] \in Task /\ wtask[w] \in pel[w]
      BY <2>15 DEF CreditFails, Handling, PipelineInv, TypeOK, WorkTypeOK,
           HandledIsUnacked, CounterTypeOK
    <3>1. WorkTypeOK'
      BY <2>15, <3>0, <1>1, <1>2 DEF PipelineInv, TypeOK, WorkTypeOK,
           queueVars, workVars, Handling, CreditFails, Goto, Ask, CreditCrash,
           Leave
    <3>2. CounterTypeOK'
      BY <2>15, <3>0, <1>1, <1>2 DEF PipelineInv, TypeOK, CounterTypeOK,
           counterVars, CreditFails, Goto, Ask, CreditCrash, Leave
    <3>3. HandledIsUnacked'
      BY <2>15, <3>0, <1>1, <1>2 DEF PipelineInv, TypeOK, SyncTypeOK, Syncer,
           WorkTypeOK, CounterTypeOK, HandledIsUnacked, queueVars, workVars,
           counterVars, Handling, CreditFails, Goto, Ask, CreditCrash, Leave
    <3>4. CreditsOnce'
      <4>1. CASE UNCHANGED counterVars
        BY <4>1 DEF counterVars, PipelineInv, TypeOK, CounterTypeOK, CreditsOnce, InGate
      <4>2. CASE CreditCrash(w)
        BY <4>2 DEF CreditCrash, Leave, PipelineInv, TypeOK, CounterTypeOK, CreditsOnce, InGate
      <4>3. QED
        BY <2>15, <4>1, <4>2 DEF CreditFails
    <3>5. SpentAfterLast'
      BY <2>15, <3>0, <1>1, <1>2 DEF PipelineInv, TypeOK, CounterTypeOK,
           SpentAfterLast, counterVars, CreditFails, Goto, Ask, CreditCrash, Leave
    <3>6. (DocTypeOK /\ SyncTypeOK /\ RowTypeOK /\ ApiTypeOK)'
      BY <2>15 DEF PipelineInv, TypeOK, DocTypeOK, docVars, SyncTypeOK,
           Syncer, RowTypeOK, rowVars, ApiTypeOK, apiVars, CreditFails, Goto, Ask,
           CreditCrash, Leave
    <3>7. QED
      BY <3>1, <3>2, <3>3, <3>4, <3>5, <3>6 DEF PipelineInv, TypeOK
  <2>16. ASSUME NEW w \in Worker, Finalize(w) PROVE PipelineInv'
    <3>0. wtask[w] \in Task /\ wtask[w] \in pel[w]
      BY <2>16 DEF Finalize, Handling, PipelineInv, TypeOK, WorkTypeOK,
           HandledIsUnacked, CounterTypeOK
    <3>1. WorkTypeOK'
      BY <2>16, <3>0, <1>1, <1>2 DEF PipelineInv, TypeOK, WorkTypeOK,
           queueVars, workVars, Handling, Finalize, Goto, Ask, Clear, Leave,
           CreditCrash
    <3>2. CounterTypeOK'
      BY <2>16, <3>0, <1>1, <1>2 DEF PipelineInv, TypeOK, CounterTypeOK,
           counterVars, Finalize, Goto, Ask, Clear, Leave, CreditCrash
    <3>3. HandledIsUnacked'
      BY <2>16, <3>0, <1>1, <1>2 DEF PipelineInv, TypeOK, SyncTypeOK, Syncer,
           WorkTypeOK, CounterTypeOK, HandledIsUnacked, queueVars, workVars,
           counterVars, Handling, Finalize, Goto, Ask, Clear, Leave, CreditCrash
    <3>4. CreditsOnce'
      <4>1. CASE Clear(w)
        BY <4>1 DEF Clear, Leave, PipelineInv, TypeOK, CounterTypeOK, CreditsOnce, InGate
      <4>2. CASE CreditCrash(w)
        BY <4>2 DEF CreditCrash, Leave, PipelineInv, TypeOK, CounterTypeOK, CreditsOnce, InGate
      <4>3. QED
        BY <2>16, <4>1, <4>2 DEF Finalize
    <3>5. SpentAfterLast'
      BY <2>16, <3>0, <1>1, <1>2 DEF PipelineInv, TypeOK, CounterTypeOK,
           SpentAfterLast, counterVars, Finalize, Goto, Ask, Clear, Leave,
           CreditCrash
    <3>6. (DocTypeOK /\ SyncTypeOK /\ RowTypeOK /\ ApiTypeOK)'
      BY <2>16 DEF PipelineInv, TypeOK, DocTypeOK, docVars, SyncTypeOK,
           Syncer, RowTypeOK, rowVars, ApiTypeOK, apiVars, Finalize, Goto, Ask,
           Clear, Leave, CreditCrash
    <3>7. QED
      BY <3>1, <3>2, <3>3, <3>4, <3>5, <3>6 DEF PipelineInv, TypeOK
  <2>17. ASSUME NEW w \in Worker, Fail(w) PROVE PipelineInv'
    <3>0. wtask[w] \in Task /\ wtask[w] \in pel[w]
      <4>1. wpc[w] # "idle"
        BY <2>17 DEF Fail
      <4>2. QED
        BY <4>1 DEF PipelineInv, TypeOK, WorkTypeOK, HandledIsUnacked, CounterTypeOK
    <3>1. RowTypeOK'
      BY <2>17, <3>0, <1>1, <1>2 DEF PipelineInv, TypeOK, RowTypeOK, rowVars,
           Fail, Goto, Abort, Clear, Leave, TryAbort, CreditCrash
    <3>2. WorkTypeOK'
      BY <2>17, <3>0, <1>1, <1>2 DEF PipelineInv, TypeOK, WorkTypeOK,
           queueVars, workVars, Handling, Fail, Goto, Abort, Clear, Leave,
           TryAbort, CreditCrash
    <3>3. CounterTypeOK'
      BY <2>17, <3>0, <1>1, <1>2 DEF PipelineInv, TypeOK, CounterTypeOK,
           counterVars, Fail, Goto, Abort, Clear, Leave, TryAbort, CreditCrash
    <3>4. HandledIsUnacked'
      BY <2>17, <3>0, <1>1, <1>2 DEF PipelineInv, TypeOK, SyncTypeOK, Syncer,
           WorkTypeOK, CounterTypeOK, HandledIsUnacked, queueVars, workVars,
           counterVars, Handling, Fail, Goto, Abort, Clear, Leave, TryAbort,
           CreditCrash
    <3>5. CreditsOnce'
      <4>1. CASE Abort
        BY <4>1 DEF Abort, PipelineInv, TypeOK, CounterTypeOK, CreditsOnce, InGate
      <4>2. CASE UNCHANGED counterVars
        BY <4>2 DEF counterVars, PipelineInv, CreditsOnce, InGate
      <4>3. CASE Clear(w)
        BY <4>3 DEF Clear, Leave, PipelineInv, TypeOK, CounterTypeOK, CreditsOnce, InGate
      <4>4. CASE CreditCrash(w)
        BY <4>4 DEF CreditCrash, Leave, PipelineInv, TypeOK, CounterTypeOK, CreditsOnce, InGate
      <4>5. QED
        BY <2>17, <4>1, <4>2, <4>3, <4>4 DEF Fail, TryAbort
    <3>6. SpentAfterLast'
      BY <2>17, <3>0, <1>1, <1>2 DEF PipelineInv, TypeOK, CounterTypeOK,
           SpentAfterLast, counterVars, Fail, Goto, Abort, Clear, Leave,
           TryAbort, CreditCrash
    <3>7. (DocTypeOK /\ SyncTypeOK /\ ApiTypeOK)'
      BY <2>17 DEF PipelineInv, TypeOK, DocTypeOK, docVars, SyncTypeOK,
           Syncer, ApiTypeOK, apiVars, Fail, Goto, Abort, Clear, Leave,
           TryAbort, CreditCrash
    <3>8. QED
      BY <3>1, <3>2, <3>3, <3>4, <3>5, <3>6, <3>7 DEF PipelineInv, TypeOK
  <2>18. ASSUME NEW w \in Worker, Drop(w) PROVE PipelineInv'
    <3>0. wtask[w] \in Task /\ wtask[w] \in pel[w]
      BY <2>18 DEF Drop, Handling, PipelineInv, TypeOK, WorkTypeOK,
           HandledIsUnacked, CounterTypeOK
    <3>1. SyncTypeOK'
      BY <2>18, <3>0, <1>1, <1>2 DEF PipelineInv, TypeOK, SyncTypeOK, Syncer,
           Drop, Goto
    <3>2. WorkTypeOK'
      BY <2>18, <3>0, <1>1, <1>2 DEF PipelineInv, TypeOK, WorkTypeOK,
           queueVars, workVars, Handling, Drop, Goto
    <3>3. HandledIsUnacked'
      BY <2>18, <3>0, <1>1, <1>2 DEF PipelineInv, TypeOK, SyncTypeOK, Syncer,
           WorkTypeOK, CounterTypeOK, HandledIsUnacked, queueVars, workVars,
           counterVars, Handling, Drop, Goto
    <3>4. (DocTypeOK /\ RowTypeOK /\ ApiTypeOK /\ CounterTypeOK /\ CreditsOnce
         /\ SpentAfterLast)'
      BY <2>18 DEF PipelineInv, TypeOK, DocTypeOK, docVars, RowTypeOK,
           rowVars, ApiTypeOK, apiVars, CounterTypeOK, counterVars,
           WorkTypeOK, CreditsOnce, InGate, HandledIsUnacked, SpentAfterLast,
           Drop, Goto
    <3>5. QED
      BY <3>1, <3>2, <3>3, <3>4 DEF PipelineInv, TypeOK
  <2>19. ASSUME NEW w \in Worker, Crash(w) PROVE PipelineInv'
    <3>0. wtask[w] \in Task /\ wtask[w] \in pel[w]
      BY <2>19 DEF Crash, Handling, PipelineInv, TypeOK, WorkTypeOK,
           HandledIsUnacked, CounterTypeOK
    <3>1. SyncTypeOK'
      BY <2>19, <3>0, <1>1, <1>2 DEF PipelineInv, TypeOK, SyncTypeOK, Syncer,
           Crash, Goto, CreditCrash, Leave
    <3>2. WorkTypeOK'
      BY <2>19, <3>0, <1>1, <1>2 DEF PipelineInv, TypeOK, WorkTypeOK,
           queueVars, workVars, Handling, Crash, Goto, CreditCrash, Leave
    <3>3. CounterTypeOK'
      BY <2>19, <3>0, <1>1, <1>2 DEF PipelineInv, TypeOK, CounterTypeOK,
           counterVars, Crash, Goto, CreditCrash, Leave
    <3>4. HandledIsUnacked'
      BY <2>19, <3>0, <1>1, <1>2 DEF PipelineInv, TypeOK, SyncTypeOK, Syncer,
           WorkTypeOK, CounterTypeOK, HandledIsUnacked, queueVars, workVars,
           counterVars, Handling, Crash, Goto, CreditCrash, Leave
    <3>5. CreditsOnce'
      BY <2>19, <3>0, <1>1, <1>2 DEF PipelineInv, TypeOK, WorkTypeOK,
           CounterTypeOK, CreditsOnce, InGate, HandledIsUnacked, counterVars,
           Crash, Goto, CreditCrash, Leave
    <3>6. (DocTypeOK /\ RowTypeOK /\ ApiTypeOK /\ SpentAfterLast)'
      BY <2>19 DEF PipelineInv, TypeOK, DocTypeOK, docVars, RowTypeOK,
           rowVars, ApiTypeOK, apiVars, CounterTypeOK, SpentAfterLast,
           counterVars, Crash, Goto, CreditCrash, Leave
    <3>7. QED
      BY <3>1, <3>2, <3>3, <3>4, <3>5, <3>6 DEF PipelineInv, TypeOK
  <2> USE DEF PipelineInv, TypeOK, DocTypeOK, SyncTypeOK, RowTypeOK,
       WorkTypeOK, ApiTypeOK, CounterTypeOK, HandledIsUnacked, CreditsOnce,
       SpentAfterLast, InGate, Handling, docVars, rowVars, queueVars,
       workVars, apiVars, counterVars
  <2>20. ASSUME NEW a \in Api, Parse(a) PROVE PipelineInv'
    BY <2>20, <1>1, <1>2 DEF Parse, Arrives, MayQueue
  <2>21. ASSUME NEW a \in Api, ParseChunks(a) PROVE PipelineInv'
    BY <2>21, <1>1, <1>2 DEF ParseChunks, Arrives, MayQueue
  <2>22. ASSUME NEW a \in Api, Rerun(a) PROVE PipelineInv'
    BY <2>22, <1>1, <1>2 DEF Rerun, Arrives, MayQueue
  <2>23. ASSUME NEW a \in Api, Stop(a) PROVE PipelineInv'
    BY <2>23, <1>1, <1>2 DEF Stop, Arrives
  <2>24. ASSUME NEW a \in Api, Cancel(a) PROVE PipelineInv'
    BY <2>24, <1>1, <1>2 DEF Cancel, Arrives
  <2>25. ASSUME NEW a \in Api, DeleteRows(a) PROVE PipelineInv'
    BY <2>25, <1>1, <1>2 DEF DeleteRows, Do, NoRows
  <2>26. ASSUME NEW a \in Api, DeleteChunks(a) PROVE PipelineInv'
    BY <2>26, <1>1, <1>2 DEF DeleteChunks, Do
  <2>27. ASSUME NEW a \in Api, AbortRun(a) PROVE PipelineInv'
    BY <2>27, <1>1, <1>2 DEF AbortRun, Do, Abort, TryAbort
  <2>28. ASSUME NEW a \in Api, CancelRows(a) PROVE PipelineInv'
    BY <2>28, <1>1, <1>2 DEF CancelRows, Do
  <2>29. ASSUME NEW a \in Api, StopDoc(a) PROVE PipelineInv'
    BY <2>29, <1>1, <1>2 DEF StopDoc, Do
  <2>30. ASSUME NEW a \in Api, Plan(a) PROVE PipelineInv'
    BY <2>30, <1>1, <1>2 DEF Plan, Do
  <2>31. ASSUME NEW a \in Api, DropRows(a) PROVE PipelineInv'
    BY <2>31, <1>1, <1>2 DEF DropRows, Do, NoRows
  <2>32. ASSUME NEW a \in Api, DropPlanned(a) PROVE PipelineInv'
    BY <2>32, <1>1, <1>2 DEF DropPlanned, Do
  <2>33. ASSUME NEW a \in Api, Begin(a) PROVE PipelineInv'
    BY <2>33, <1>1, <1>2 DEF Begin, Do
  <2>34. ASSUME NEW a \in Api, PublishFails(a) PROVE PipelineInv'
    BY <2>34, <1>1, <1>2 DEF PublishFails, Abort, NoPlan, TryAbort
  <2>35. ASSUME NEW a \in Api, RequestDies(a) PROVE PipelineInv'
    BY <2>35, <1>1, <1>2 DEF RequestDies, NoPlan
  <2>48. ASSUME NEW w \in Worker,
                wpc[w] \in {"build", "insert", "index", "count"},
                NEW to \in {"insert", "index", "count", "credit"}, Ask(w, to),
                UNCHANGED <<queueVars, wtask, replay, fault, crashes, sync, counterVars>>
         PROVE  WorkTypeOK' /\ HandledIsUnacked'
    <3>1. PICK l \in {"insert", "index", "count", "credit", "stop"} :
            wpc' = [wpc EXCEPT ![w] = l]
      BY <2>48 DEF Ask, Goto
    <3>2. WorkTypeOK'
      BY <2>48, <3>1, <1>2
    <3>3. HandledIsUnacked'
      BY <2>48, <3>1, <1>2
    <3>4. QED
      BY <3>2, <3>3
  <2>36. ASSUME NEW w \in Worker, Build(w) PROVE PipelineInv'
    <3>1. WorkTypeOK' /\ HandledIsUnacked'
      BY <2>36, <2>48 DEF Build, Proceeds
    <3>2. wtask[w] \in Task
      BY <2>36, <1>1, <1>2 DEF Build, Proceeds
    <3>3. QED
      BY <2>36, <3>1, <3>2, <1>1, <1>2 DEF Build, Proceeds
  <2>37. ASSUME NEW w \in Worker, Insert(w) PROVE PipelineInv'
    <3>1. WorkTypeOK' /\ HandledIsUnacked'
      BY <2>37, <2>48 DEF Insert, Proceeds
    <3>2. wtask[w] \in Task
      BY <2>37, <1>1, <1>2 DEF Insert, Proceeds
    <3>3. QED
      BY <2>37, <3>1, <3>2, <1>1, <1>2 DEF Insert, Proceeds
  <2>38. ASSUME NEW w \in Worker, Index(w) PROVE PipelineInv'
    <3>1. WorkTypeOK' /\ HandledIsUnacked'
      BY <2>38, <2>48 DEF Index, Proceeds
    <3>2. wtask[w] \in Task
      BY <2>38, <1>1, <1>2 DEF Index, Proceeds
    <3>3. QED
      BY <2>38, <3>1, <3>2, <1>1, <1>2 DEF Index, Proceeds
  <2>39. ASSUME NEW w \in Worker, Increment(w) PROVE PipelineInv'
    <3>1. WorkTypeOK' /\ HandledIsUnacked'
      BY <2>39, <2>48 DEF Increment, Proceeds
    <3>2. wtask[w] \in Task
      BY <2>39, <1>1, <1>2 DEF Increment, Proceeds
    <3>3. QED
      BY <2>39, <3>1, <3>2, <1>1, <1>2 DEF Increment, Proceeds
  <2>40. ASSUME NEW w \in Worker, Finish(w) PROVE PipelineInv'
    <3>1. prog' \in [Task -> {"queued", "going", "done", "failed"}]
      <4>1. CASE prog' = [prog EXCEPT ![wtask[w]] = "done"]
        BY <4>1
      <4>2. CASE UNCHANGED prog
        BY <4>2
      <4>3. QED
        BY <2>40, <4>1, <4>2 DEF Finish
    <3>2. QED
      BY <2>40, <3>1, <1>1, <1>2 DEF Finish, Goto
  <2>41. ASSUME NEW w \in Worker, Purge(w) PROVE PipelineInv'
    BY <2>41, <1>1, <1>2 DEF Purge, Goto, AfterHandler
  <2>42. ASSUME NEW w \in Worker, Ack(w) PROVE PipelineInv'
    BY <2>42, <1>1, <1>2 DEF Ack, Goto
  <2>43. CASE SyncSelect
    BY <2>43, <1>2 DEF SyncSelect, Syncer
  <2>44. CASE SyncRead
    BY <2>44, <1>2 DEF SyncRead, Syncer
  <2>45. CASE SyncWrite
    BY <2>45, <1>2 DEF SyncWrite, WriteDerived, Syncer, SyncResult
  <2>46. CASE UNCHANGED vars
    BY <2>46, <1>2 DEF vars
  <2> HIDE DEF PipelineInv, TypeOK, DocTypeOK, SyncTypeOK, RowTypeOK,
       WorkTypeOK, ApiTypeOK, CounterTypeOK, HandledIsUnacked, CreditsOnce,
       SpentAfterLast, InGate, Handling, docVars, rowVars, queueVars,
       workVars, apiVars, counterVars
  <2>47. QED
    BY <2>1, <2>2, <2>3, <2>4, <2>5, <2>6, <2>7, <2>8, <2>9, <2>10, <2>11,
         <2>12, <2>13, <2>14, <2>15, <2>16, <2>17, <2>18, <2>19, <2>20, <2>21,
         <2>22, <2>23, <2>24, <2>25, <2>26, <2>27, <2>28, <2>29, <2>30, <2>31,
         <2>32, <2>33, <2>34, <2>35, <2>36, <2>37, <2>38, <2>39, <2>40, <2>41,
         <2>42, <2>43, <2>44, <2>45, <2>46 DEF Next, Arrive, RequestStep,
         WorkerStep
<1>5. QED
  BY <1>3, <1>4, PTL DEF Spec

(***************************************************************************)
(* After the tasks of a request are queued at most one executor runs the   *)
(* finalizers, whatever other requests, crashes and failures interleave.   *)
(***************************************************************************)
THEOREM PipelineOneLast == Spec => []AtMostOneLast
<1>1. PipelineInv => AtMostOneLast
  BY DEF PipelineInv, TypeOK, CounterTypeOK, SpentAfterLast, AtMostOneLast
<1>2. QED
  BY <1>1, PipelineInvAlways, PTL

-----------------------------------------------------------------------------
(* The rest of a request is the end of one of the step sequences.          *)
Suffixes(s) == {SubSeq(s, i, Len(s)) : i \in DOMAIN s}
QueueTodo == Suffixes(ParseSteps) \cup Suffixes(ChunksSteps)
StopTodo == Suffixes(StopSteps) \cup Suffixes(CancelSteps)

QueueStep == {"deleteRows", "deleteChunks", "plan", "dropRows", "dropPlanned",
              "setChunkNum", "insertRows", "begin", "seed", "publish"}

StopStep == {"abort", "cancelRows", "stopDoc", "cancelDoc", "deleteChunks"}

(* What follows a step of a request that queues tasks.                     *)
After(step) ==
    CASE step \in {"deleteRows", "deleteChunks"} -> {"deleteRows", "deleteChunks", "plan"}
      [] step = "plan" -> {"dropRows"}
      [] step = "dropRows" -> {"dropPlanned"}
      [] step = "dropPlanned" -> {"setChunkNum"}
      [] step = "setChunkNum" -> {"insertRows"}
      [] step = "insertRows" -> {"begin"}
      [] step = "begin" -> {"seed"}
      [] step = "seed" -> {"publish"}
      [] OTHER -> {}

At(a) == IF todo[a] = <<>> THEN "end" ELSE Head(todo[a])
Queues(a) == todo[a] \in QueueTodo
TodoOK == todo \in [Api -> QueueTodo \cup StopTodo \cup {<<>>}]

InStream == {stream[i] : i \in DOMAIN stream}
InHand == InStream \cup UNION {pel[w] : w \in Worker}

-----------------------------------------------------------------------------
(* What is left of a sequence when its first elements are gone: its head   *)
(* is one of its elements, its last one is the same, and its tail is what  *)
(* is left after the next element.                                         *)
LEMMA SuffixStep ==
  ASSUME NEW S, NEW q \in Seq(S), NEW i \in DOMAIN q,
         NEW s, s = SubSeq(q, i, Len(q))
  PROVE  /\ s # <<>> /\ Head(s) = q[i] /\ s[Len(s)] = q[Len(q)]
         /\ i = Len(q) => Tail(s) = <<>>
         /\ i # Len(q) => i + 1 \in DOMAIN q /\ Tail(s) = SubSeq(q, i + 1, Len(q))
<1>1. i \in 1..Len(q) /\ Len(q) \in i..Len(q) /\ Len(q) \in Nat
  OBVIOUS
<1>2. Head(s) = q[i] /\ Tail(s) = SubSeq(q, i + 1, Len(q))
  BY <1>1, HeadTailOfSubSeq
<1>3. /\ Len(s) = Len(q) - i + 1
      /\ \A j \in 1 .. Len(q) - i + 1 : s[j] = q[i + j - 1]
  <2>1. \A j \in i .. Len(q) : q[j] \in S
    BY <1>1
  <2>2. QED
    BY <1>1, <2>1, SubSeqProperties
<1>4. /\ Len(s) \in 1 .. Len(q) - i + 1 /\ i + Len(s) - 1 = Len(q)
      /\ s[Len(s)] = q[i + Len(s) - 1]
  <2>1. Len(s) \in 1 .. Len(q) - i + 1 /\ i + Len(s) - 1 = Len(q)
    <3>1. \A n \in Nat : \A j \in 1..n : n - j + 1 \in 1 .. n - j + 1 /\ j + (n - j + 1) - 1 = n
      OBVIOUS
    <3>2. QED
      BY <1>1, <1>3, <3>1, Zenon
  <2>2. QED
    BY <1>3, <2>1
<1>5. s # <<>>
  BY <1>4
<1>6. i = Len(q) => Tail(s) = <<>>
  BY <1>1, <1>2, SubSeqEmpty
<1>7. i # Len(q) => i + 1 \in DOMAIN q
  BY <1>1
<1>8. s[Len(s)] = q[Len(q)]
  BY <1>4, Zenon
<1>9. QED
  BY <1>2, <1>5, <1>6, <1>7, <1>8, Zenon

LEMMA SuffixHead ==
  ASSUME NEW S, NEW q \in Seq(S), NEW i \in DOMAIN q
  PROVE  Head(SubSeq(q, i, Len(q))) = q[i]
<1>1. i \in 1..Len(q) /\ Len(q) \in i..Len(q)
  OBVIOUS
<1>2. QED
  BY <1>1, HeadTailOfSubSeq

(* A sequence is what is left of it at first.                              *)
LEMMA SuffixWhole ==
  ASSUME NEW S, NEW q \in Seq(S), Len(q) # 0
  PROVE  q \in Suffixes(q)
<1>1. 1 \in DOMAIN q
  OBVIOUS
<1>2. SubSeq(q, 1, Len(q)) = q
  BY SubSeqFull
<1>3. QED
  BY <1>1, <1>2 DEF Suffixes

(* A message that is published joins those in the stream, ...              *)
LEMMA StreamAppend ==
  ASSUME stream \in Seq(Task), NEW t \in Task, stream' = Append(stream, t)
  PROVE  InStream' = InStream \cup {t}
<1>1. /\ Len(stream) \in Nat /\ DOMAIN stream = 1..Len(stream)
      /\ DOMAIN stream' = 1..Len(stream)+1
  OBVIOUS
<1>2. \A i \in 1..Len(stream) : stream'[i] = stream[i]
  OBVIOUS
<1>3. stream'[Len(stream) + 1] = t
  OBVIOUS
<1>4. QED
  BY <1>1, <1>2, <1>3 DEF InStream

(* ... and the one that is taken is the only one that leaves it.           *)
LEMMA StreamTail ==
  ASSUME NEW T, NEW s \in Seq(T), s # <<>>
  PROVE  /\ Head(s) \in {s[i] : i \in DOMAIN s}
         /\ {Tail(s)[i] : i \in DOMAIN Tail(s)} \subseteq {s[i] : i \in DOMAIN s}
         /\ {s[i] : i \in DOMAIN s} \subseteq {Tail(s)[i] : i \in DOMAIN Tail(s)} \cup {Head(s)}
<1>1. /\ Len(s) \in Nat \ {0} /\ DOMAIN s = 1..Len(s) /\ Head(s) = s[1]
      /\ Tail(s) \in Seq(T) /\ Len(Tail(s)) = Len(s) - 1
  OBVIOUS
<1>2. \A i \in 1..Len(s)-1 : Tail(s)[i] = s[i + 1]
  OBVIOUS
<1>3. DOMAIN Tail(s) = 1..Len(s)-1
  BY <1>1
<1>4. Head(s) \in {s[i] : i \in DOMAIN s}
  BY <1>1
<1>5. \A x \in {Tail(s)[i] : i \in DOMAIN Tail(s)} : x \in {s[i] : i \in DOMAIN s}
  <2>1. TAKE x \in {Tail(s)[i] : i \in DOMAIN Tail(s)}
  <2>2. PICK i \in 1..Len(s)-1 : x = Tail(s)[i]
    BY <1>3
  <2>3. i + 1 \in DOMAIN s /\ x = s[i + 1]
    BY <1>1, <1>2, <2>2
  <2>4. QED
    BY <2>3
<1>6. \A x \in {s[i] : i \in DOMAIN s} : x = Head(s) \/ x \in {Tail(s)[i] : i \in DOMAIN Tail(s)}
  <2>1. TAKE x \in {s[i] : i \in DOMAIN s}
  <2>2. PICK i \in 1..Len(s) : x = s[i]
    BY <1>1
  <2>3. CASE i = 1
    BY <1>1, <2>2, <2>3
  <2>4. CASE i # 1
    <3>1. i - 1 \in 1..Len(s)-1
      BY <1>1, <2>2, <2>4
    <3>2. x = Tail(s)[i - 1]
      BY <1>2, <2>2, <3>1
    <3>3. QED
      BY <1>3, <3>1, <3>2
  <2>5. QED
    BY <2>3, <2>4
<1>7. QED
  BY <1>4, <1>5, <1>6

-----------------------------------------------------------------------------
(* A request that queues tasks has its publication as its last step, and   *)
(* goes from one step to the next as the code does.                        *)
LEMMA QueueTodoStep ==
  ASSUME NEW s \in QueueTodo
  PROVE  /\ s # <<>> /\ Head(s) \in QueueStep /\ s[Len(s)] = "publish"
         /\ Head(s) = "publish" => Tail(s) = <<>>
         /\ Head(s) # "publish" => /\ Tail(s) \in QueueTodo
                                   /\ Head(Tail(s)) \in After(Head(s))
<1>1. PICK q \in {ParseSteps, ChunksSteps} : \E i \in DOMAIN q : s = SubSeq(q, i, Len(q))
  BY DEF QueueTodo, Suffixes
<1>2. PICK i \in DOMAIN q : s = SubSeq(q, i, Len(q))
  BY <1>1
<1>3. /\ q \in Seq(QueueStep) /\ Len(q) = 10 /\ q[10] = "publish"
      /\ i \in 1..10
      /\ q[i] = "publish" => i = 10
      /\ i # 10 => q[i + 1] \in After(q[i])
      /\ q[i] \in QueueStep
  <2>1. CASE q = ParseSteps
    BY <2>1 DEF ParseSteps, QueueTasks, QueueStep, After
  <2>2. CASE q = ChunksSteps
    BY <2>2 DEF ChunksSteps, QueueTasks, QueueStep, After
  <2>3. QED
    BY <1>1, <2>1, <2>2
<1>4. /\ s # <<>> /\ Head(s) = q[i] /\ s[Len(s)] = q[10]
      /\ i = 10 => Tail(s) = <<>>
      /\ i # 10 => i + 1 \in DOMAIN q /\ Tail(s) = SubSeq(q, i + 1, Len(q))
  <2>1. q \in Seq(QueueStep)
    BY <1>3
  <2>2. /\ s # <<>> /\ Head(s) = q[i] /\ s[Len(s)] = q[Len(q)]
        /\ i = Len(q) => Tail(s) = <<>>
        /\ i # Len(q) => i + 1 \in DOMAIN q /\ Tail(s) = SubSeq(q, i + 1, Len(q))
    BY <1>2, <2>1, SuffixStep
  <2>3. QED
    BY <1>3, <2>2
<1>5. i # 10 => Tail(s) \in QueueTodo /\ Head(Tail(s)) = q[i + 1]
  <2>1. ASSUME i # 10
        PROVE  Tail(s) \in QueueTodo /\ Head(Tail(s)) = q[i + 1]
    <3>1. i + 1 \in DOMAIN q /\ Tail(s) = SubSeq(q, i + 1, Len(q))
      BY <1>3, <1>4, <2>1
    <3>2. Head(Tail(s)) = q[i + 1]
      <4>1. q \in Seq(QueueStep)
        BY <1>3
      <4>2. QED
        BY <3>1, <4>1, SuffixHead, Zenon
    <3>3. Tail(s) \in Suffixes(q)
      BY <3>1 DEF Suffixes
    <3>4. QED
      BY <1>1, <3>2, <3>3 DEF QueueTodo
  <2>2. QED
    BY <2>1
<1>6. QED
  BY <1>3, <1>4, <1>5

(* A request that stops tasks is never one that queues them.               *)
LEMMA StopTodoStep ==
  ASSUME NEW s \in StopTodo
  PROVE  /\ s # <<>> /\ Head(s) \in StopStep /\ s \notin QueueTodo
         /\ Tail(s) \in StopTodo \cup {<<>>}
<1>1. PICK q \in {StopSteps, CancelSteps} : \E i \in DOMAIN q : s = SubSeq(q, i, Len(q))
  BY DEF StopTodo, Suffixes
<1>2. PICK i \in DOMAIN q : s = SubSeq(q, i, Len(q))
  BY <1>1
<1>3. /\ q \in Seq(StopStep) /\ Len(q) \in Nat \ {0} /\ q[Len(q)] # "publish"
      /\ q[i] \in StopStep
  <2>1. CASE q = StopSteps
    BY <2>1 DEF StopSteps, StopStep
  <2>2. CASE q = CancelSteps
    BY <2>2 DEF CancelSteps, StopStep
  <2>3. QED
    BY <1>1, <2>1, <2>2
<1>4. /\ s # <<>> /\ Head(s) = q[i] /\ s[Len(s)] = q[Len(q)]
      /\ i = Len(q) => Tail(s) = <<>>
      /\ i # Len(q) => i + 1 \in DOMAIN q /\ Tail(s) = SubSeq(q, i + 1, Len(q))
  BY <1>2, <1>3, SuffixStep
<1>5. i # Len(q) => Tail(s) \in StopTodo
  BY <1>1, <1>4 DEF StopTodo, Suffixes
<1>6. s \notin QueueTodo
  BY <1>3, <1>4, QueueTodoStep
<1>7. QED
  BY <1>3, <1>4, <1>5, <1>6

(* What a request that arrives has to do.                                  *)
LEMMA NewTodo ==
  /\ ParseSteps \in QueueTodo /\ ChunksSteps \in QueueTodo /\ QueueTasks \in QueueTodo
  /\ StopSteps \in StopTodo /\ CancelSteps \in StopTodo
  /\ Head(ParseSteps) = "deleteRows" /\ Head(ChunksSteps) = "deleteChunks"
  /\ Head(QueueTasks) = "plan" 
<1>1. ParseSteps \in Seq(QueueStep) /\ Len(ParseSteps) = 10
  BY DEF ParseSteps, QueueTasks, QueueStep
<1>2. ParseSteps \in QueueTodo
  <2>1. ParseSteps \in Suffixes(ParseSteps)
    BY <1>1, SuffixWhole
  <2>2. QED
    BY <2>1 DEF QueueTodo
<1>3. ChunksSteps \in QueueTodo
  <2>1. ChunksSteps \in Seq(QueueStep) /\ Len(ChunksSteps) = 10
    BY DEF ChunksSteps, QueueTasks, QueueStep
  <2>2. Len(ChunksSteps) # 0
    BY <2>1
  <2>3. ChunksSteps \in Suffixes(ChunksSteps)
    BY <2>1, <2>2, SuffixWhole, Zenon
  <2>4. QED
    BY <2>3 DEF QueueTodo
<1>4. StopSteps \in StopTodo
  <2>1. StopSteps \in Seq(StopStep) /\ Len(StopSteps) = 4
    BY DEF StopSteps, StopStep
  <2>2. QED
    BY <2>1, SuffixWhole DEF StopTodo
<1>5. CancelSteps \in StopTodo
  <2>1. CancelSteps \in Seq(StopStep) /\ Len(CancelSteps) = 3
    BY DEF CancelSteps, StopStep
  <2>2. QED
    BY <2>1, SuffixWhole DEF StopTodo
<1>6. QueueTasks \in QueueTodo
  <2>1. QueueTasks \in Seq(QueueStep) /\ Len(QueueTasks) = 8
    BY DEF QueueTasks, QueueStep
  <2>2. /\ SubSeq(ParseSteps, 3, 10) \in Seq(QueueStep) /\ Len(SubSeq(ParseSteps, 3, 10)) = 8
        /\ \A i \in 1..8 : SubSeq(ParseSteps, 3, 10)[i] = ParseSteps[i + 2]
    <3>1. \A j \in 3 .. 10 : ParseSteps[j] \in QueueStep
      BY DEF ParseSteps, QueueTasks, QueueStep
    <3>2. QED
      BY <3>1, SubSeqProperties
  <2>3. \A i \in 1..8 : ParseSteps[i + 2] = QueueTasks[i]
    BY DEF ParseSteps, QueueTasks
  <2>4. SubSeq(ParseSteps, 3, 10) = QueueTasks
    BY <2>1, <2>2, <2>3
  <2>5. QED
    <3>1. 3 \in DOMAIN ParseSteps /\ Len(ParseSteps) = 10
      BY <1>1
    <3>2. QueueTasks \in Suffixes(ParseSteps)
      BY <2>4, <3>1 DEF Suffixes
    <3>3. QED
      BY <3>2 DEF QueueTodo
<1>7. /\ Head(ParseSteps) = "deleteRows" /\ Head(ChunksSteps) = "deleteChunks"
      /\ Head(QueueTasks) = "plan"
  BY DEF ParseSteps, ChunksSteps, QueueTasks
<1>8. QED
  BY <1>2, <1>3, <1>4, <1>5, <1>6, <1>7

(* A request that has ended is in neither set.                             *)
LEMMA EmptyTodo == <<>> \notin QueueTodo /\ <<>> \notin StopTodo
  BY QueueTodoStep, StopTodoStep

(* A step of one request moves this one on by one step, and no other.      *)
LEMMA DoStep ==
  ASSUME TodoOK, NEW a \in Api, NEW step, Do(a, step)
  PROVE  /\ TodoOK' /\ At(a) = step
         /\ \A b \in Api \ {a} : todo'[b] = todo[b] /\ At(b)' = At(b) /\ (Queues(b)' <=> Queues(b))
         /\ Queues(a)' => Queues(a)
         /\ Queues(a) => step \in QueueStep
         /\ Queues(a) /\ step # "publish" => Queues(a)' /\ At(a)' \in After(step)
         /\ Queues(a) /\ step = "publish" => At(a)' = "end"
         /\ ~Queues(a) => step \in StopStep /\ At(a)' \in StopStep \cup {"end"}
<1>1. todo[a] # <<>> /\ Head(todo[a]) = step /\ todo' = [todo EXCEPT ![a] = Tail(@)]
  BY DEF Do
<1>2. todo'[a] = Tail(todo[a]) /\ \A b \in Api \ {a} : todo'[b] = todo[b]
  BY <1>1 DEF TodoOK
<1>3. \A b \in Api \ {a} : At(b)' = At(b) /\ (Queues(b)' <=> Queues(b))
  BY <1>2 DEF At, Queues
<1>4. CASE todo[a] \in QueueTodo
  <2>1. /\ step \in QueueStep
        /\ step = "publish" => todo'[a] = <<>>
        /\ step # "publish" => /\ todo'[a] \in QueueTodo
                               /\ Head(todo'[a]) \in After(step)
    BY <1>1, <1>2, <1>4, QueueTodoStep
  <2>2. todo'[a] \in QueueTodo => At(a)' = Head(todo'[a])
    BY EmptyTodo DEF At
  <2>3. At(a) = step
    BY <1>1 DEF At
  <2>4. TodoOK'
    BY <1>1, <1>2, <2>1 DEF TodoOK
  <2>5. step = "publish" => At(a)' = "end"
    BY <2>1 DEF At
  <2>6. QED
    BY <1>2, <1>3, <1>4, <2>1, <2>2, <2>3, <2>4, <2>5 DEF Queues
<1>5. CASE todo[a] \in StopTodo
  <2>1. /\ step \in StopStep /\ todo[a] \notin QueueTodo
        /\ todo'[a] \in StopTodo \cup {<<>>}
    BY <1>1, <1>2, <1>5, StopTodoStep
  <2>2. todo'[a] # <<>> => Head(todo'[a]) \in StopStep
    BY <2>1, StopTodoStep
  <2>3. todo'[a] \notin QueueTodo
    BY <2>1, StopTodoStep, EmptyTodo
  <2>4. At(a) = step /\ At(a)' \in StopStep \cup {"end"}
    BY <1>1, <2>2 DEF At
  <2>5. TodoOK'
    BY <1>1, <1>2, <2>1 DEF TodoOK
  <2>6. QED
    BY <1>2, <1>3, <2>1, <2>3, <2>4, <2>5 DEF Queues
<1>6. QED
  BY <1>1, <1>4, <1>5 DEF TodoOK

(* A request that ends early leaves the others as they are.                *)
LEMMA EndStep ==
  ASSUME TodoOK, NEW a \in Api, todo' = [todo EXCEPT ![a] = <<>>]
  PROVE  /\ TodoOK' /\ At(a)' = "end" /\ ~Queues(a)'
         /\ \A b \in Api \ {a} : todo'[b] = todo[b] /\ At(b)' = At(b) /\ (Queues(b)' <=> Queues(b))
  BY EmptyTodo DEF TodoOK, At, Queues

(* A request that arrives changes nothing but the document and what it has *)
(* to do itself; one that will queue tasks was allowed to.                 *)
LEMMA ArriveStep ==
  ASSUME TodoOK, NEW a \in Api, Arrive(a)
  PROVE  /\ TodoOK' /\ At(a) = "end" /\ ~Queues(a)
         /\ At(a)' \in {"deleteRows", "deleteChunks", "plan", "abort"}
         /\ \A b \in Api \ {a} : todo'[b] = todo[b] /\ At(b)' = At(b) /\ (Queues(b)' <=> Queues(b))
         /\ Queues(a)' => MayQueue
         /\ UNCHANGED <<run, plan, rowVars, queueVars, workVars, counterVars, cancelled,
                        store, sync>>
<1>1. /\ todo[a] = <<>>
      /\ UNCHANGED <<run, plan, rowVars, queueVars, workVars, counterVars, cancelled,
                     store, sync>>
  BY DEF Arrive, Parse, ParseChunks, Rerun, Stop, Cancel, Arrives
<1>2. \/ todo' = [todo EXCEPT ![a] = ParseSteps] /\ MayQueue
      \/ todo' = [todo EXCEPT ![a] = ChunksSteps] /\ MayQueue
      \/ todo' = [todo EXCEPT ![a] = QueueTasks] /\ MayQueue
      \/ todo' = [todo EXCEPT ![a] = StopSteps]
      \/ todo' = [todo EXCEPT ![a] = CancelSteps]
  BY DEF Arrive, Parse, ParseChunks, Rerun, Stop, Cancel
<1>3. \A b \in Api \ {a} : todo'[b] = todo[b]
  BY <1>2 DEF TodoOK
<1>4. \/ todo'[a] = ParseSteps /\ MayQueue
      \/ todo'[a] = ChunksSteps /\ MayQueue
      \/ todo'[a] = QueueTasks /\ MayQueue
      \/ todo'[a] = StopSteps
      \/ todo'[a] = CancelSteps
  BY <1>2 DEF TodoOK
<1>5. TodoOK'
  BY <1>2, NewTodo DEF TodoOK
<1>6. todo'[a] \notin QueueTodo => todo'[a] \in {StopSteps, CancelSteps}
  BY <1>4, NewTodo
<1>7. todo'[a] \in {StopSteps, CancelSteps} => todo'[a] \notin QueueTodo
  BY NewTodo, StopTodoStep
<1>8. todo'[a] # <<>>
  BY <1>4, NewTodo, EmptyTodo
<1>9. Head(StopSteps) = "abort" /\ Head(CancelSteps) = "abort"
  BY DEF StopSteps, CancelSteps
<1>10. At(a)' \in {"deleteRows", "deleteChunks", "plan", "abort"}
  BY <1>4, <1>8, <1>9, NewTodo DEF At
<1>11. QED
  BY <1>1, <1>3, <1>4, <1>5, <1>7, <1>10, EmptyTodo DEF At, Queues

(* Where a request is tells whether it queues tasks. Both kinds delete     *)
(* chunks.                                                                 *)
LEMMA AtQueues ==
  ASSUME TodoOK, NEW a \in Api
  PROVE  /\ Queues(a) => At(a) \in QueueStep
         /\ At(a) \in QueueStep \ {"deleteChunks"} => Queues(a)
<1>1. CASE todo[a] \in QueueTodo
  BY <1>1, QueueTodoStep DEF At, Queues
<1>2. CASE todo[a] \in StopTodo
  BY <1>2, StopTodoStep DEF At, Queues, StopStep, QueueStep
<1>3. CASE todo[a] = <<>>
  BY <1>3, EmptyTodo DEF At, Queues, QueueStep
<1>4. QED
  BY <1>1, <1>2, <1>3 DEF TodoOK

(* The steps of a request other than the insertion of the rows and the     *)
(* publication: tasks that are to be published stay so until the next      *)
(* plan, and the counter is seeded in one step only.                       *)
LEMMA PlainStep ==
  ASSUME PipelineInv, NEW a \in Api,
         \/ DeleteRows(a) \/ DeleteChunks(a) \/ AbortRun(a) \/ CancelRows(a) \/ StopDoc(a)
         \/ Plan(a) \/ DropRows(a) \/ DropPlanned(a) \/ SetChunkNum(a) \/ Begin(a)
         \/ SeedRun(a)
  PROVE  \E step \in (QueueStep \cup StopStep) \ {"insertRows", "publish"} :
            /\ Do(a, step)
            /\ UNCHANGED <<run, queueVars, workVars, marked, gate, credits>>
            /\ plan'[a].fresh = IF step = "plan" THEN {} ELSE plan[a].fresh
            /\ \A b \in Api \ {a} : plan'[b] = plan[b]
            /\ IF step = "seed" /\ plan[a].fresh # {}
               THEN Seed(plan[a].fresh) ELSE Abort \/ UNCHANGED counterVars
<1>1. plan \in [Api -> [reuse : SUBSET Part, drop : SUBSET Task, found : BOOLEAN,
                         fresh : SUBSET Task]]
  BY DEF PipelineInv, TypeOK, ApiTypeOK
<1>2. ASSUME NEW step \in (QueueStep \cup StopStep) \ {"insertRows", "publish", "plan"},
             Do(a, step),
             UNCHANGED <<run, plan, queueVars, workVars, marked, gate, credits>>,
             IF step = "seed" /\ plan[a].fresh # {}
             THEN Seed(plan[a].fresh) ELSE Abort \/ UNCHANGED counterVars
      PROVE  \E st \in (QueueStep \cup StopStep) \ {"insertRows", "publish"} :
                /\ Do(a, st)
                /\ UNCHANGED <<run, queueVars, workVars, marked, gate, credits>>
                /\ plan'[a].fresh = IF st = "plan" THEN {} ELSE plan[a].fresh
                /\ \A b \in Api \ {a} : plan'[b] = plan[b]
                /\ IF st = "seed" /\ plan[a].fresh # {}
                   THEN Seed(plan[a].fresh) ELSE Abort \/ UNCHANGED counterVars
  BY <1>2
<1> USE DEF QueueStep, StopStep
<1>3. CASE DeleteRows(a)
  BY <1>2, <1>3 DEF DeleteRows, counterVars
<1>4. CASE DeleteChunks(a)
  BY <1>2, <1>4 DEF DeleteChunks, counterVars
<1>5. CASE AbortRun(a)
  BY <1>2, <1>5 DEF AbortRun, TryAbort, Abort, counterVars
<1>6. CASE CancelRows(a)
  BY <1>2, <1>6 DEF CancelRows, counterVars
<1>7. CASE StopDoc(a)
  BY <1>2, <1>7 DEF StopDoc, counterVars
<1>8. CASE DropRows(a)
  BY <1>2, <1>8 DEF DropRows, counterVars
<1>9. CASE DropPlanned(a)
  BY <1>2, <1>9 DEF DropPlanned, counterVars
<1>10. CASE SetChunkNum(a)
  BY <1>2, <1>10 DEF SetChunkNum, counterVars
<1>11. CASE Begin(a)
  BY <1>2, <1>11 DEF Begin, counterVars
<1>12. CASE SeedRun(a)
  BY <1>2, <1>12 DEF SeedRun, Seed, counterVars
<1>13. CASE Plan(a)
  BY <1>1, <1>13 DEF Plan, counterVars
<1>14. QED
  BY <1>3, <1>4, <1>5, <1>6, <1>7, <1>8, <1>9, <1>10, <1>11, <1>12, <1>13

(* The executors change nothing of the requests; nothing but Credit marks  *)
(* a task, and it marks the one the executor has in hand.                  *)
LEMMA ExecutorStep ==
  ASSUME PipelineInv, NEW w \in Worker,
         WorkerStep(w) \/ CreditFails(w) \/ Fail(w) \/ Drop(w) \/ Crash(w)
  PROVE  /\ UNCHANGED <<apiVars, rows, owed>> /\ ids \subseteq ids'
         /\ ~Quiet /\ InHand' \subseteq InHand
         /\ \/ marked' = marked
            \/ wpc[w] = "credit" /\ wtask[w] \in InHand /\ marked' = marked \cup {wtask[w]}
<1> USE DEF apiVars, counterVars, rowVars, queueVars, workVars
<1>1. /\ stream \in Seq(Task) /\ pel \in [Worker -> SUBSET Task]
      /\ replay[w] \subseteq pel[w] /\ (wpc[w] # "idle" => wtask[w] \in pel[w])
      /\ wpc[w] = "gate" <=> gate[w] \in {"marked", "found"}
  BY DEF PipelineInv, TypeOK, WorkTypeOK, HandledIsUnacked
<1>2. wpc[w] # "idle" => wtask[w] \in InHand /\ ~Quiet
  BY <1>1 DEF InHand, Quiet
<1>3. ASSUME UNCHANGED queueVars PROVE InHand' \subseteq InHand
  BY <1>3 DEF InHand, InStream
<1>4. ASSUME wpc[w] # "idle", UNCHANGED <<apiVars, rows, queueVars, owed, marked>>,
             ids \subseteq ids'
      PROVE  /\ UNCHANGED <<apiVars, rows, owed>> /\ ids \subseteq ids' /\ ~Quiet
             /\ InHand' \subseteq InHand
             /\ marked' = marked
  BY <1>2, <1>3, <1>4
<1>5. CASE Collect(w)
  <2>1. UNCHANGED <<apiVars, rows, ids, owed, marked>>
    BY <1>5 DEF Collect
  <2>2. ~Quiet
    BY <1>1, <1>5 DEF Collect, Quiet
  <2>3. InHand' \subseteq InHand
    <3>1. CASE UNCHANGED queueVars
      BY <1>3, <3>1
    <3>2. CASE /\ stream # <<>> /\ pel' = [pel EXCEPT ![w] = @ \cup {Head(stream)}]
               /\ stream' = Tail(stream)
      <4>1. Head(stream) \in InStream /\ InStream' \subseteq InStream
        BY <1>1, <3>2, StreamTail DEF InStream
      <4>2. \A v \in Worker : pel'[v] \subseteq pel[v] \cup {Head(stream)}
        BY <1>1, <3>2
      <4>3. QED
        BY <4>1, <4>2 DEF InHand
    <3>3. QED
      BY <1>5, <3>1, <3>2 DEF Collect
  <2>4. QED
    BY <2>1, <2>2, <2>3
<1>6. CASE Credit(w)
  BY <1>2, <1>3, <1>6 DEF Credit, Mark
<1>7. CASE Ack(w)
  <2>1. \A v \in Worker : pel'[v] \subseteq pel[v]
    BY <1>1, <1>7 DEF Ack
  <2>2. InHand' \subseteq InHand
    BY <1>7, <2>1 DEF Ack, InHand, InStream
  <2>3. QED
    BY <1>2, <1>7, <2>2 DEF Ack
<1>8. CASE Receive(w)
  BY <1>4, <1>8 DEF Receive
<1>9. CASE Abandon(w)
  BY <1>4, <1>9 DEF Abandon, TryAbort, Abort
<1>10. CASE SeeCancel(w)
  BY <1>4, <1>10 DEF SeeCancel, TryAbort, Abort, Handling
<1>11. CASE Build(w) \/ Insert(w) \/ Index(w) \/ Increment(w)
  BY <1>4, <1>11 DEF Build, Insert, Index, Increment, Proceeds
<1>12. CASE Gate(w)
  BY <1>4, <1>12 DEF Gate, NoCounter, FoundCounter, Decrement
<1>13. CASE Finalize(w)
  BY <1>4, <1>13 DEF Finalize, Clear, CreditCrash
<1>14. CASE Finish(w)
  BY <1>4, <1>14 DEF Finish
<1>15. CASE LeaveHandler(w)
  BY <1>4, <1>15 DEF LeaveHandler, TryAbort, Abort
<1>16. CASE Purge(w) \/ Report(w)
  BY <1>4, <1>16 DEF Purge, Report
<1>17. CASE LogRead(w) \/ LogWrite(w)
  BY <1>4, <1>17 DEF LogRead, LogWrite
<1>18. CASE CreditFails(w)
  BY <1>4, <1>18 DEF CreditFails, CreditCrash
<1>19. CASE Fail(w)
  BY <1>4, <1>19 DEF Fail, TryAbort, Abort, Clear, CreditCrash
<1>20. CASE Drop(w)
  BY <1>4, <1>20 DEF Drop
<1>21. CASE Crash(w)
  BY <1>4, <1>21 DEF Crash, CreditCrash
<1>22. QED
  BY <1>5, <1>6, <1>7, <1>8, <1>9, <1>10, <1>11, <1>12, <1>13, <1>14, <1>15,
     <1>16, <1>17, <1>18, <1>19, <1>20, <1>21 DEF WorkerStep

(* The progress thread touches the status of the document only.            *)
LEMMA SyncStep ==
  ASSUME SyncSelect \/ SyncRead \/ SyncWrite
  PROVE  UNCHANGED <<rowVars, queueVars, workVars, apiVars, counterVars, cancelled, store>>
  BY DEF SyncSelect, SyncRead, SyncWrite

-----------------------------------------------------------------------------
(* A request works off its steps in their order.  The tasks it has not     *)
(* published are new ones, which nobody else knows, also when requests     *)
(* overlap.                                                                *)
RequestInv ==
    /\ todo \in [Api -> QueueTodo \cup StopTodo \cup {<<>>}]
    /\ \A a \in Api :
          plan[a].fresh # {} => At(a) \in {"begin", "seed", "publish"}
    /\ \A t \in marked \cup InHand : t[1] <= run
    /\ \A a \in Api : \A t \in plan[a].fresh :
          t[1] <= run /\ t \notin marked \cup InHand
    /\ \A a, b \in Api : a # b => plan[a].fresh \cap plan[b].fresh = {}

(***************************************************************************)
(* Tasks to be published are new: nobody has a message of them, none is    *)
(* marked as credited, and no other request is about to publish them, also *)
(* when requests overlap. This is what makes a seed a NewRun of the        *)
(* counter.                                                                *)
(***************************************************************************)
THEOREM RequestInvAlways == Spec => []RequestInv
<1>1. Init => RequestInv
  <2> SUFFICES ASSUME Init PROVE RequestInv
    OBVIOUS
  <2>1. todo \in [Api -> QueueTodo \cup StopTodo \cup {<<>>}]
    BY DEF Init
  <2>2. \A a \in Api : plan[a].fresh = {}
    BY DEF Init, NoPlan
  <2>3. marked = {} /\ InHand = {}
    BY DEF Init, CounterInit, InHand, InStream
  <2>4. QED
    BY <2>1, <2>2, <2>3 DEF RequestInv
<1>2. PipelineInv /\ RequestInv /\ [Next]_vars => RequestInv'
  <2> SUFFICES ASSUME PipelineInv, RequestInv, [Next]_vars
               PROVE  RequestInv'
    OBVIOUS
  <2>0. /\ run \in Nat /\ stream \in Seq(Task) /\ pel \in [Worker -> SUBSET Task]
        /\ plan \in [Api -> [reuse : SUBSET Part, drop : SUBSET Task, found : BOOLEAN,
                             fresh : SUBSET Task]]
        /\ marked \subseteq Task /\ TodoOK /\ InHand \subseteq Task
    BY DEF PipelineInv, TypeOK, ApiTypeOK, WorkTypeOK, CounterTypeOK, RequestInv, TodoOK,
       InHand, InStream
  <2>1. ASSUME NEW a \in Api, TodoOK', run' = run,
               marked' \cup InHand' \subseteq marked \cup InHand,
               \A b \in Api \ {a} : At(b)' = At(b) /\ plan'[b].fresh = plan[b].fresh,
               plan'[a].fresh \subseteq plan[a].fresh,
               plan'[a].fresh # {} => At(a)' \in {"begin", "seed", "publish"}
        PROVE  RequestInv'
    BY <2>1 DEF RequestInv, TodoOK
  <2>2. ASSUME UNCHANGED apiVars, marked' \cup InHand' \subseteq marked \cup InHand
        PROVE  RequestInv'
    BY <2>2 DEF RequestInv, apiVars, At
  <2>3. ASSUME UNCHANGED <<queueVars, marked>>
        PROVE  marked' \cup InHand' \subseteq marked \cup InHand
    BY <2>3 DEF queueVars, InHand, InStream
  <2>4. ASSUME NEW a \in Api, Arrive(a) PROVE RequestInv'
    <3>1. plan[a].fresh = {}
      BY <2>0, <2>4, ArriveStep DEF RequestInv
    <3>2. QED
      BY <2>0, <2>1, <2>3, <2>4, <3>1, ArriveStep DEF counterVars
  <2>5. ASSUME NEW a \in Api,
               \/ DeleteRows(a) \/ DeleteChunks(a) \/ AbortRun(a) \/ CancelRows(a) \/ StopDoc(a)
               \/ Plan(a) \/ DropRows(a) \/ DropPlanned(a) \/ SetChunkNum(a) \/ Begin(a)
               \/ SeedRun(a)
        PROVE  RequestInv'
    <3>1. PICK step \in (QueueStep \cup StopStep) \ {"insertRows", "publish"} :
            /\ Do(a, step)
            /\ UNCHANGED <<run, queueVars, workVars, marked, gate, credits>>
            /\ plan'[a].fresh = IF step = "plan" THEN {} ELSE plan[a].fresh
            /\ \A b \in Api \ {a} : plan'[b] = plan[b]
            /\ IF step = "seed" /\ plan[a].fresh # {}
               THEN Seed(plan[a].fresh) ELSE Abort \/ UNCHANGED counterVars
      BY <2>5, PlainStep
    <3>2. /\ TodoOK' /\ At(a) = step
          /\ \A b \in Api \ {a} : At(b)' = At(b)
          /\ step \in {"begin", "seed"} => At(a)' \in After(step)
      BY <2>0, <3>1, DoStep DEF StopStep
    <3>3. plan'[a].fresh # {} => step \in {"begin", "seed"}
      BY <3>1, <3>2 DEF RequestInv
    <3>4. plan'[a].fresh # {} => At(a)' \in {"begin", "seed", "publish"}
      BY <3>2, <3>3 DEF After
    <3>5. QED
      BY <2>1, <2>3, <3>1, <3>2, <3>4
  <2>6. ASSUME NEW a \in Api, InsertRows(a) PROVE RequestInv'
    <3>1. /\ Do(a, "insertRows") /\ run' = run + 1
          /\ plan' = [plan EXCEPT ![a].fresh = ({run + 1} \X Part) \ ({run + 1} \X plan[a].reuse)]
          /\ UNCHANGED <<queueVars, marked>>
      BY <2>6 DEF InsertRows, counterVars
    <3>2. /\ TodoOK' /\ At(a)' = "begin" /\ \A b \in Api \ {a} : At(b)' = At(b)
      BY <2>0, <3>1, DoStep DEF After, StopStep
    <3>3. /\ \A b \in Api \ {a} : plan'[b].fresh = plan[b].fresh
          /\ \A t \in plan'[a].fresh : t[1] = run + 1
      BY <2>0, <3>1
    <3>4. marked' = marked /\ InHand' = InHand
      BY <3>1 DEF queueVars, InHand, InStream
    <3>5. \A t \in Task : t[1] \in Nat
      BY ChunkingAssumption DEF Run
    <3>6. \A t \in marked \cup InHand : t[1] <= run
      BY DEF RequestInv
    <3>7. \A b \in Api \ {a} : \A t \in plan[b].fresh : t[1] <= run /\ t \in Task
      BY <2>0 DEF RequestInv
    <3>8. \A t \in marked \cup InHand : t \in Task
      BY <2>0
    <3>9. \A t \in (marked \cup InHand)' : t[1] <= run'
      BY <2>0, <3>1, <3>4, <3>5, <3>6, <3>8
    <3>10. \A b \in Api : \A t \in plan'[b].fresh : t[1] <= run' /\ t \notin (marked \cup InHand)'
      <4>1. TAKE b \in Api
      <4>2. CASE b = a
        BY <2>0, <3>1, <3>3, <3>4, <3>6, <4>2
      <4>3. CASE b # a
        BY <2>0, <3>1, <3>3, <3>4, <3>5, <3>7, <4>3 DEF RequestInv
      <4>4. QED
        BY <4>2, <4>3
    <3>11. \A b \in Api \ {a} : plan'[b].fresh \cap plan'[a].fresh = {}
      BY <2>0, <3>3, <3>7
    <3>12. QED
      BY <3>2, <3>3, <3>9, <3>10, <3>11 DEF RequestInv, TodoOK
  <2>7. ASSUME NEW a \in Api, Publish(a) PROVE RequestInv'
    <3>1. run' = run /\ marked' = marked /\ pel' = pel
      BY <2>7 DEF Publish, counterVars
    <3>2. CASE plan[a].fresh = {}
      <4>1. /\ todo' = [todo EXCEPT ![a] = <<>>] /\ plan' = [plan EXCEPT ![a] = NoPlan]
            /\ stream' = stream
        BY <2>7, <3>2 DEF Publish
      <4>2. plan'[a].fresh = {} /\ \A b \in Api \ {a} : plan'[b] = plan[b]
        BY <2>0, <4>1 DEF NoPlan
      <4>3. InHand' = InHand
        BY <3>1, <4>1 DEF InHand, InStream
      <4>4. QED
        BY <2>0, <2>1, <3>1, <4>1, <4>2, <4>3, EndStep
    <3>3. CASE plan[a].fresh # {}
      <4>1. PICK t \in plan[a].fresh :
              /\ stream' = Append(stream, t) /\ plan' = [plan EXCEPT ![a].fresh = @ \ {t}]
              /\ todo' = todo
        BY <2>7, <3>3 DEF Publish
      <4>2. plan'[a].fresh = plan[a].fresh \ {t} 
            /\ \A b \in Api \ {a} : plan'[b].fresh = plan[b].fresh
        BY <2>0, <4>1
      <4>3. t \in Task
        BY <2>0
      <4>4. InHand' = InHand \cup {t}
        <5>1. InStream' = InStream \cup {t}
          BY <2>0, <4>1, <4>3, StreamAppend
        <5>2. QED
          BY <3>1, <5>1 DEF InHand
      <4>5. t[1] <= run /\ \A b \in Api \ {a} : t \notin plan[b].fresh
        BY DEF RequestInv
      <4>6. \A b \in Api : At(b)' = At(b)
        BY <4>1 DEF At
      <4>7. \A b \in Api : t \notin plan'[b].fresh
        BY <4>2, <4>5
      <4>8. QED
        BY <3>1, <4>1, <4>2, <4>4, <4>5, <4>6, <4>7 DEF RequestInv
    <3>4. QED
      BY <3>2, <3>3
  <2>8. ASSUME NEW a \in Api, PublishFails(a) \/ RequestDies(a) PROVE RequestInv'
    <3>1. /\ todo' = [todo EXCEPT ![a] = <<>>] /\ plan' = [plan EXCEPT ![a] = NoPlan]
          /\ UNCHANGED <<run, queueVars, marked>>
      BY <2>8 DEF PublishFails, RequestDies, TryAbort, Abort, counterVars
    <3>2. plan'[a].fresh = {} /\ \A b \in Api \ {a} : plan'[b] = plan[b]
      BY <2>0, <3>1 DEF NoPlan
    <3>3. QED
      BY <2>0, <2>1, <2>3, <3>1, <3>2, EndStep
  <2>9. ASSUME NEW w \in Worker,
               WorkerStep(w) \/ CreditFails(w) \/ Fail(w) \/ Drop(w) \/ Crash(w)
        PROVE  RequestInv'
    BY <2>2, <2>9, ExecutorStep
  <2>10. CASE SyncSelect \/ SyncRead \/ SyncWrite
    BY <2>2, <2>3, <2>10, SyncStep DEF counterVars
  <2>11. CASE UNCHANGED vars
    BY <2>2, <2>3, <2>11 DEF vars, counterVars
  <2>12. QED
    BY <2>4, <2>5, <2>6, <2>7, <2>8, <2>9, <2>10, <2>11 DEF Next, RequestStep
<1>3. QED
  BY <1>1, <1>2, PipelineInvAlways, PTL DEF Spec

(* A request that queues tasks and finds none in flight is alone with the  *)
(* counter until it publishes them, and only they are in flight then.      *)
SeparateInv ==
    Disjoint =>
        /\ \A a, b \in Api : Queues(a) /\ Queues(b) => a = b
        /\ \A a \in Api : Queues(a) /\ At(a) # "publish" => Quiet
        /\ \A a \in Api : At(a) = "publish" => plan[a].fresh \subseteq owed
        /\ InHand \subseteq owed

(* When nothing is in flight nobody is inside the gate of the counter.     *)
LEMMA QuietHand ==
  ASSUME PipelineInv, Quiet
  PROVE  InHand = {} /\ \A w \in Worker : gate[w] = "out"
  BY DEF PipelineInv, TypeOK, WorkTypeOK, CounterTypeOK, HandledIsUnacked, Quiet, InHand,
     InStream

(***************************************************************************)
(* Requests that do not overlap are alone with the counter from their      *)
(* arrival to their publication: what is in flight is always of the run    *)
(* the counter was seeded for.                                             *)
(***************************************************************************)
THEOREM SeparateInvAlways == Spec => []SeparateInv
<1>1. Init => SeparateInv
  <2> SUFFICES ASSUME Init PROVE SeparateInv
    OBVIOUS
  <2>1. \A a \in Api : ~Queues(a) /\ At(a) = "end"
    BY EmptyTodo DEF Init, Queues, At
  <2>2. InHand = {}
    BY DEF Init, CounterInit, InHand, InStream
  <2>3. QED
    BY <2>1, <2>2 DEF SeparateInv
<1>2. PipelineInv /\ RequestInv /\ SeparateInv /\ [Next]_vars => SeparateInv'
  <2> SUFFICES ASSUME PipelineInv, RequestInv, SeparateInv, Disjoint, [Next]_vars
               PROVE  SeparateInv'
    BY DEF SeparateInv
  <2>0. /\ stream \in Seq(Task)
        /\ plan \in [Api -> [reuse : SUBSET Part, drop : SUBSET Task, found : BOOLEAN,
                             fresh : SUBSET Task]]
        /\ TodoOK
    BY DEF PipelineInv, TypeOK, ApiTypeOK, WorkTypeOK, RequestInv, TodoOK
  <2>1. ASSUME NEW a \in Api, TodoOK',
               \A b \in Api \ {a} : At(b)' = At(b) /\ plan'[b].fresh = plan[b].fresh
                                 /\ (Queues(b)' <=> Queues(b)),
               Queues(a)' => Queues(a) /\ At(a) # "publish",
               At(a)' = "publish" => plan'[a].fresh \subseteq owed,
               UNCHANGED <<queueVars, workVars, owed>>
        PROVE  SeparateInv'
    <3>1. Quiet' = Quiet /\ InHand' = InHand
      BY <2>1 DEF queueVars, workVars, Quiet, InHand, InStream
    <3>2. QED
      BY <2>1, <3>1 DEF SeparateInv
  <2>2. ASSUME UNCHANGED <<apiVars, owed>>, InHand' \subseteq InHand, Quiet => Quiet'
        PROVE  SeparateInv'
    BY <2>2 DEF SeparateInv, apiVars, At, Queues
  <2>3. ASSUME NEW a \in Api, Arrive(a) PROVE SeparateInv'
    <3>1. /\ At(a)' # "publish" /\ UNCHANGED <<plan, queueVars, workVars, owed>>
          /\ \A b \in Api \ {a} : At(b)' = At(b) /\ (Queues(b)' <=> Queues(b))
          /\ TodoOK' /\ (Queues(a)' => MayQueue)
      BY <2>0, <2>3, ArriveStep DEF counterVars
    <3>2. CASE Queues(a)'
      <4>1. Quiet /\ \A b \in Api : todo[b] = <<>>
        BY <3>1, <3>2 DEF MayQueue, AtRest
      <4>2. \A b \in Api : ~Queues(b)
        BY <4>1, EmptyTodo DEF Queues
      <4>3. Quiet' = Quiet /\ InHand' = InHand
        BY <3>1 DEF queueVars, workVars, Quiet, InHand, InStream
      <4>4. QED
        BY <3>1, <4>1, <4>2, <4>3 DEF SeparateInv
    <3>3. CASE ~Queues(a)'
      BY <2>1, <3>1, <3>3
    <3>4. QED
      BY <3>2, <3>3
  <2>4. ASSUME NEW a \in Api,
               \/ DeleteRows(a) \/ DeleteChunks(a) \/ AbortRun(a) \/ CancelRows(a) \/ StopDoc(a)
               \/ Plan(a) \/ DropRows(a) \/ DropPlanned(a) \/ SetChunkNum(a) \/ Begin(a)
               \/ SeedRun(a)
        PROVE  SeparateInv'
    <3>1. PICK step \in (QueueStep \cup StopStep) \ {"insertRows", "publish"} :
            /\ Do(a, step)
            /\ UNCHANGED <<run, queueVars, workVars, marked, gate, credits>>
            /\ plan'[a].fresh = IF step = "plan" THEN {} ELSE plan[a].fresh
            /\ \A b \in Api \ {a} : plan'[b] = plan[b]
            /\ IF step = "seed" /\ plan[a].fresh # {}
               THEN Seed(plan[a].fresh) ELSE Abort \/ UNCHANGED counterVars
      BY <2>4, PlainStep
    <3>2. /\ TodoOK' /\ At(a) = step /\ (Queues(a)' => Queues(a))
          /\ \A b \in Api \ {a} : At(b)' = At(b) /\ (Queues(b)' <=> Queues(b))
          /\ Queues(a) => At(a)' \in After(step)
          /\ ~Queues(a) => step \in StopStep /\ At(a)' \in StopStep \cup {"end"}
      BY <2>0, <3>1, DoStep
    <3>3. At(a)' = "publish" => step = "seed"
      BY <3>2 DEF After, StopStep
    <3>4. CASE step = "seed" /\ plan[a].fresh # {}
      <4>1. Queues(a) /\ Quiet
        BY <2>0, <3>2, <3>4, AtQueues DEF SeparateInv, QueueStep
      <4>2. owed' = plan[a].fresh /\ plan'[a].fresh = plan[a].fresh
        BY <3>1, <3>4 DEF Seed
      <4>3. Quiet' = Quiet /\ InHand' = InHand /\ InHand = {}
        BY <3>1, <4>1, QuietHand DEF queueVars, workVars, Quiet, InHand, InStream
      <4>4. \A b \in Api \ {a} : ~Queues(b)
        BY <4>1 DEF SeparateInv
      <4>5. \A b \in Api \ {a} : At(b)' # "publish"
        BY <2>0, <3>2, <4>4, AtQueues DEF QueueStep
      <4>6. \A b \in Api : Queues(b)' => b = a
        BY <3>2, <4>4
      <4>7. QED
        BY <4>1, <4>2, <4>3, <4>5, <4>6 DEF SeparateInv
    <3>5. CASE ~(step = "seed" /\ plan[a].fresh # {})
      <4>1. owed' = owed
        BY <3>1, <3>5 DEF Abort, counterVars
      <4>2. At(a)' = "publish" => plan'[a].fresh \subseteq owed
        BY <3>1, <3>3, <3>5
      <4>3. QED
        BY <2>1, <3>1, <3>2, <4>1, <4>2
    <3>6. QED
      BY <3>4, <3>5
  <2>5. ASSUME NEW a \in Api, InsertRows(a) PROVE SeparateInv'
    <3>1. /\ Do(a, "insertRows") /\ UNCHANGED <<queueVars, workVars, owed>>
          /\ plan' = [plan EXCEPT ![a].fresh = ({run + 1} \X Part) \ ({run + 1} \X plan[a].reuse)]
      BY <2>5 DEF InsertRows, counterVars
    <3>2. /\ TodoOK' /\ At(a) = "insertRows" /\ (Queues(a)' => Queues(a))
          /\ \A b \in Api \ {a} : At(b)' = At(b) /\ (Queues(b)' <=> Queues(b))
          /\ At(a)' = "begin"
      BY <2>0, <3>1, DoStep DEF After, StopStep
    <3>3. \A b \in Api \ {a} : plan'[b].fresh = plan[b].fresh
      BY <2>0, <3>1
    <3>4. QED
      BY <2>1, <3>1, <3>2, <3>3
  <2>6. ASSUME NEW a \in Api, Publish(a) PROVE SeparateInv'
    <3>1. owed' = owed /\ pel' = pel /\ UNCHANGED workVars
      BY <2>6 DEF Publish, counterVars
    <3>2. CASE plan[a].fresh = {}
      <4>1. /\ todo' = [todo EXCEPT ![a] = <<>>] /\ plan' = [plan EXCEPT ![a] = NoPlan]
            /\ stream' = stream
        BY <2>6, <3>2 DEF Publish
      <4>2. \A b \in Api \ {a} : plan'[b] = plan[b]
        BY <2>0, <4>1
      <4>3. QED
        BY <2>0, <2>1, <3>1, <4>1, <4>2, EndStep DEF queueVars
    <3>3. CASE plan[a].fresh # {}
      <4>1. PICK t \in plan[a].fresh :
              /\ stream' = Append(stream, t) /\ plan' = [plan EXCEPT ![a].fresh = @ \ {t}]
              /\ todo' = todo
        BY <2>6, <3>3 DEF Publish
      <4>2. plan'[a].fresh = plan[a].fresh \ {t} /\ \A b \in Api \ {a} : plan'[b].fresh = plan[b].fresh
        BY <2>0, <4>1
      <4>3. InHand' = InHand \cup {t}
        <5>1. t \in Task
          BY <2>0
        <5>2. InStream' = InStream \cup {t}
          BY <2>0, <4>1, <5>1, StreamAppend
        <5>3. QED
          BY <3>1, <5>2 DEF InHand
      <4>4. \A b \in Api : At(b)' = At(b) /\ (Queues(b)' <=> Queues(b))
        BY <4>1 DEF At, Queues
      <4>5. At(a) = "publish"
        BY <2>6 DEF Publish, At
      <4>6. Queues(a) /\ plan[a].fresh \subseteq owed
        BY <2>0, <4>5, AtQueues DEF SeparateInv, QueueStep
      <4>7. QED
        BY <3>1, <4>1, <4>2, <4>3, <4>4, <4>5, <4>6 DEF SeparateInv
    <3>4. QED
      BY <3>2, <3>3
  <2>7. ASSUME NEW a \in Api, PublishFails(a) \/ RequestDies(a) PROVE SeparateInv'
    <3>1. /\ todo' = [todo EXCEPT ![a] = <<>>] /\ plan' = [plan EXCEPT ![a] = NoPlan]
          /\ UNCHANGED <<queueVars, workVars, owed>>
      BY <2>7 DEF PublishFails, RequestDies, TryAbort, Abort, counterVars
    <3>2. \A b \in Api \ {a} : plan'[b] = plan[b]
      BY <2>0, <3>1
    <3>3. QED
      BY <2>0, <2>1, <3>1, <3>2, EndStep
  <2>8. ASSUME NEW w \in Worker,
               WorkerStep(w) \/ CreditFails(w) \/ Fail(w) \/ Drop(w) \/ Crash(w)
        PROVE  SeparateInv'
    BY <2>2, <2>8, ExecutorStep
  <2>9. ASSUME UNCHANGED <<queueVars, workVars, apiVars, owed>>
        PROVE  SeparateInv'
    BY <2>2, <2>9 DEF queueVars, workVars, Quiet, InHand, InStream
  <2>10. CASE SyncSelect \/ SyncRead \/ SyncWrite
    BY <2>9, <2>10, SyncStep DEF counterVars
  <2>11. CASE UNCHANGED vars
    BY <2>9, <2>11 DEF vars, counterVars
  <2>12. QED
    BY <2>3, <2>4, <2>5, <2>6, <2>7, <2>8, <2>10, <2>11 DEF Next, RequestStep
<1>3. QED
  BY <1>1, <1>2, PipelineInvAlways, RequestInvAlways, PTL DEF Spec

(***************************************************************************)
(* The pipeline implements the counter: whatever requests, executors,      *)
(* crashes and failures do, the commands they send are those CounterSpec   *)
(* allows. Only a request seeds the counter, with tasks nobody was         *)
(* credited for, and, if requests do not overlap, when no executor is      *)
(* inside the gate; only tasks of that run enter it, once each.            *)
(***************************************************************************)
THEOREM CounterImplementedAlways == Spec => CounterImplemented
<1>1. Init => CounterInit
  BY DEF Init
<1>2. PipelineInv /\ RequestInv /\ SeparateInv /\ [Next]_vars => [CounterNext]_counterVars
  <2> SUFFICES ASSUME PipelineInv, RequestInv, SeparateInv, [Next]_vars
               PROVE  CounterNext \/ UNCHANGED counterVars
    OBVIOUS
  <2>0. /\ plan \in [Api -> [reuse : SUBSET Part, drop : SUBSET Task, found : BOOLEAN,
                             fresh : SUBSET Task]]
        /\ wtask \in [Worker -> Task \cup {NoTask}] /\ TodoOK
    BY DEF PipelineInv, TypeOK, ApiTypeOK, WorkTypeOK, RequestInv, TodoOK
  <2>1. ASSUME TryAbort(TRUE) \/ TryAbort(Faulty) PROVE CounterNext \/ UNCHANGED counterVars
    BY <2>1 DEF TryAbort, CounterNext
  <2>2. ASSUME NEW a \in Api,
               \/ DeleteRows(a) \/ DeleteChunks(a) \/ AbortRun(a) \/ CancelRows(a) \/ StopDoc(a)
               \/ Plan(a) \/ DropRows(a) \/ DropPlanned(a) \/ SetChunkNum(a) \/ Begin(a)
               \/ SeedRun(a)
        PROVE  CounterNext \/ UNCHANGED counterVars
    <3>1. PICK step \in (QueueStep \cup StopStep) \ {"insertRows", "publish"} :
            /\ Do(a, step)
            /\ IF step = "seed" /\ plan[a].fresh # {}
               THEN Seed(plan[a].fresh) ELSE Abort \/ UNCHANGED counterVars
      BY <2>2, PlainStep
    <3>2. CASE step = "seed" /\ plan[a].fresh # {}
      <4>1. plan[a].fresh \subseteq Task /\ plan[a].fresh \cap marked = {}
        BY <2>0 DEF RequestInv
      <4>2. At(a) = "seed" /\ Queues(a)
        BY <2>0, <3>1, <3>2, DoStep DEF StopStep
      <4>3. Disjoint => \A w \in Worker : gate[w] = "out"
        BY <4>2, QuietHand DEF SeparateInv
      <4>4. QED
        BY <3>1, <3>2, <4>1, <4>3 DEF CounterNext, NewRun
    <3>3. CASE ~(step = "seed" /\ plan[a].fresh # {})
      BY <3>1, <3>3 DEF CounterNext
    <3>4. QED
      BY <3>2, <3>3
  <2>3. ASSUME NEW a \in Api,
               Arrive(a) \/ InsertRows(a) \/ Publish(a) \/ PublishFails(a) \/ RequestDies(a)
        PROVE  CounterNext \/ UNCHANGED counterVars
    <3>1. CASE Arrive(a)
      BY <2>0, <3>1, ArriveStep
    <3>2. CASE InsertRows(a) \/ Publish(a) \/ RequestDies(a)
      BY <3>2 DEF InsertRows, Publish, RequestDies
    <3>3. CASE PublishFails(a)
      BY <2>1, <3>3 DEF PublishFails
    <3>4. QED
      BY <2>3, <3>1, <3>2, <3>3
  <2>4. ASSUME NEW w \in Worker, Credit(w) PROVE CounterNext \/ UNCHANGED counterVars
    <3>1. CASE Mark(w, wtask[w])
      <4>1. wtask[w] \in Task /\ (Disjoint => wtask[w] \in owed)
        BY <2>4 DEF Credit, PipelineInv, TypeOK, WorkTypeOK, HandledIsUnacked, SeparateInv,
           InHand
      <4>2. QED
        BY <3>1, <4>1 DEF CounterNext
    <3>2. QED
      BY <2>4, <3>1 DEF Credit
  <2>5. ASSUME NEW w \in Worker, Gate(w) \/ Finalize(w) \/ CreditFails(w) \/ Crash(w) \/ Fail(w)
        PROVE  CounterNext \/ UNCHANGED counterVars
    <3>1. CASE Gate(w)
      BY <3>1 DEF Gate, CounterNext
    <3>2. CASE Finalize(w) \/ CreditFails(w) \/ Crash(w)
      BY <3>2 DEF Finalize, CreditFails, Crash, CounterNext
    <3>3. CASE Fail(w)
      BY <2>1, <3>3 DEF Fail, CounterNext
    <3>4. QED
      BY <2>5, <3>1, <3>2, <3>3
  <2>6. ASSUME NEW w \in Worker, Abandon(w) \/ SeeCancel(w) \/ LeaveHandler(w)
        PROVE  CounterNext \/ UNCHANGED counterVars
    BY <2>1, <2>6 DEF Abandon, SeeCancel, LeaveHandler
  <2>7. ASSUME NEW w \in Worker,
               \/ Collect(w) \/ Receive(w) \/ Build(w) \/ Insert(w) \/ Index(w) \/ Increment(w)
               \/ Finish(w) \/ Purge(w) \/ Report(w) \/ LogRead(w) \/ LogWrite(w) \/ Ack(w)
               \/ Drop(w)
        PROVE  UNCHANGED counterVars
    BY <2>7 DEF Collect, Receive, Build, Insert, Index, Increment, Finish, Purge, Report,
       LogRead, LogWrite, Ack, Drop
  <2>8. CASE SyncSelect \/ SyncRead \/ SyncWrite
    BY <2>8, SyncStep
  <2>9. CASE UNCHANGED vars
    BY <2>9 DEF vars
  <2>10. QED
    BY <2>2, <2>3, <2>4, <2>5, <2>6, <2>7, <2>8, <2>9 DEF Next, RequestStep, WorkerStep
<1>3. QED
  BY <1>1, <1>2, PipelineInvAlways, RequestInvAlways, SeparateInvAlways, PTL
     DEF Spec, CounterImplemented, CounterSpec

(***************************************************************************)
(* So what is proved of the counter holds in the pipeline: if requests do  *)
(* not overlap, the executor that is told it is the last has all tasks of  *)
(* the run before it.                                                      *)
(***************************************************************************)
THEOREM PipelineLastMeansAll == Spec => []LastMeansAll
<1>1. CounterInv => LastMeansAll
  BY DEF CounterInv, CountsUnpaid, LastMeansAll
<1>2. Spec => []CounterInv
  BY CounterImplementedAlways, CounterInvAlways, PTL DEF CounterImplemented
<1>3. QED
  BY <1>1, <1>2, PTL

-----------------------------------------------------------------------------
(* A task with text that has a row lists its chunk there when its executor *)
(* has come to the counter, and for ever after.                            *)
Listed(t) == t \in rows => PartOf(t) \in Blank \/ t \in ids

CreditedIsListed ==
    /\ \A w \in Worker :
          wpc[w] \in {"count", "credit", "gate", "finalize"} => Listed(wtask[w])
    /\ \A t \in marked : Listed(t)

(* The rows of a request are new ones. Those it will not publish are       *)
(* reused and have their chunks.                                           *)
LEMMA NewRows ==
  ASSUME PipelineInv, NEW a \in Api, InsertRows(a)
  PROVE  /\ \A t \in Task : t[1] <= run => (t \in rows' <=> t \in rows)
         /\ ids \subseteq ids' /\ UNCHANGED <<queueVars, workVars, counterVars>>
         /\ rows' \ rows \subseteq plan'[a].fresh \cup ids'
<1>1. /\ run' = run + 1 /\ rows' = rows \cup ({run + 1} \X Part)
      /\ ids' = ids \cup ({run + 1} \X plan[a].reuse)
      /\ plan' = [plan EXCEPT ![a].fresh = ({run + 1} \X Part) \ ({run + 1} \X plan[a].reuse)]
      /\ UNCHANGED <<queueVars, workVars, counterVars>>
  BY DEF InsertRows
<1>2. run \in Nat /\ \A t \in Task : t[1] \in Nat
  BY ChunkingAssumption DEF PipelineInv, TypeOK, ApiTypeOK, Run
<1>3. plan'[a].fresh = ({run + 1} \X Part) \ ({run + 1} \X plan[a].reuse)
  BY <1>1 DEF PipelineInv, TypeOK, ApiTypeOK
<1>4. \A t \in {run + 1} \X Part : t[1] = run + 1
  OBVIOUS
<1>5. \A t \in Task : t[1] <= run => t \notin {run + 1} \X Part
  BY <1>2, <1>4
<1>6. QED
  BY <1>1, <1>3, <1>5

(***************************************************************************)
(* A task is credited after update_chunk_ids has listed its chunk in its   *)
(* row, if the row is there; later requests delete the row or leave it.    *)
(***************************************************************************)
THEOREM CreditedIsListedAlways == Spec => []CreditedIsListed
<1>1. Init => CreditedIsListed
  BY DEF Init, CounterInit, CreditedIsListed
<1>2. PipelineInv /\ RequestInv /\ CreditedIsListed /\ [Next]_vars => CreditedIsListed'
  <2> SUFFICES ASSUME PipelineInv, RequestInv, CreditedIsListed, [Next]_vars
               PROVE  CreditedIsListed'
    OBVIOUS
  <2>0. /\ wtask \in [Worker -> Task \cup {NoTask}] /\ marked \subseteq Task
        /\ wpc \in [Worker -> Handling \cup {"idle", "received", "gate", "finalize",
                                             "leave", "purge", "report", "log", "logging",
                                             "ack"}]
        /\ \A w \in Worker : wpc[w] # "idle" => wtask[w] \in InHand /\ wtask[w] \in Task
    BY DEF PipelineInv, TypeOK, WorkTypeOK, CounterTypeOK, HandledIsUnacked, InHand
  <2>1. ASSUME UNCHANGED <<workVars, marked>>,
               \A t \in Task : t \in marked \cup InHand /\ Listed(t) => Listed(t)'
        PROVE  CreditedIsListed'
    BY <2>0, <2>1 DEF CreditedIsListed, workVars
  <2>2. ASSUME UNCHANGED <<rows, ids>> PROVE \A t : Listed(t)' <=> Listed(t)
    BY <2>2 DEF Listed
  <2>3. ASSUME UNCHANGED <<rows, ids, workVars, marked>> PROVE CreditedIsListed'
    BY <2>1, <2>2, <2>3
  <2>4. ASSUME NEW a \in Api,
               \/ DeleteRows(a) \/ DropRows(a)
        PROVE  CreditedIsListed'
    <3>1. UNCHANGED <<workVars, marked>> /\ (rows' = {} \/ UNCHANGED <<rows, ids>>)
      BY <2>4 DEF DeleteRows, DropRows, NoRows, rowVars, counterVars
    <3>2. QED
      BY <2>1, <2>3, <3>1 DEF Listed
  <2>5. ASSUME NEW a \in Api, InsertRows(a) PROVE CreditedIsListed'
    <3>1. \A t \in marked \cup InHand : t[1] <= run
      BY DEF RequestInv
    <3>2. QED
      BY <2>1, <2>5, <3>1, NewRows DEF Listed, counterVars
  <2>6. ASSUME NEW a \in Api,
               \/ Arrive(a) \/ DeleteChunks(a) \/ AbortRun(a) \/ CancelRows(a) \/ StopDoc(a)
               \/ Plan(a) \/ DropPlanned(a) \/ SetChunkNum(a) \/ Begin(a) \/ SeedRun(a)
               \/ Publish(a) \/ PublishFails(a) \/ RequestDies(a)
        PROVE  UNCHANGED <<rows, ids, workVars, marked>>
    BY <2>6 DEF Arrive, Parse, ParseChunks, Rerun, Stop, Cancel, Arrives, DeleteChunks,
       AbortRun, CancelRows, StopDoc, Plan, DropPlanned, SetChunkNum, Begin, SeedRun, Seed,
       Publish, PublishFails, RequestDies, TryAbort, Abort, rowVars, counterVars
  <2>7. ASSUME NEW w \in Worker, Index(w) PROVE CreditedIsListed'
    <3>1. /\ wpc[w] = "index" /\ UNCHANGED <<rows, wtask, marked>>
          /\ ids' = ids \cup ({wtask[w]} \cap rows)
          /\ \A v \in Worker \ {w} : wpc'[v] = wpc[v]
      BY <2>0, <2>7 DEF Index, Proceeds, Ask, Goto, counterVars
    <3>2. Listed(wtask[w])' /\ \A t : Listed(t) => Listed(t)'
      BY <3>1 DEF Listed
    <3>3. QED
      BY <3>1, <3>2 DEF CreditedIsListed
  <2>8. ASSUME NEW w \in Worker, UNCHANGED <<rows, ids, marked>>,
               \A v \in Worker \ {w} : wpc'[v] = wpc[v] /\ wtask'[v] = wtask[v],
               wpc'[w] \in {"count", "credit", "gate", "finalize"} =>
                  Listed(wtask'[w])
        PROVE  CreditedIsListed'
    BY <2>2, <2>8 DEF CreditedIsListed
  <2>9. ASSUME NEW w \in Worker, Build(w) PROVE CreditedIsListed'
    <3>1. UNCHANGED <<rows, ids, marked, wtask>>
      BY <2>9 DEF Build, Proceeds, rowVars, counterVars
    <3>2. /\ \A v \in Worker \ {w} : wpc'[v] = wpc[v]
          /\ wpc'[w] = "credit" => PartOf(wtask[w]) \in Blank
          /\ wpc'[w] \in {"credit", "insert", "stop"}
      BY <2>0, <2>9 DEF Build, Proceeds, Ask, Goto
    <3>3. QED
      BY <2>8, <3>1, <3>2 DEF Listed
  <2>10. ASSUME NEW w \in Worker, Increment(w) PROVE CreditedIsListed'
    <3>1. UNCHANGED <<rows, ids, marked, wtask>> /\ wpc[w] = "count"
      BY <2>10 DEF Increment, Proceeds, rowVars, counterVars
    <3>2. /\ \A v \in Worker \ {w} : wpc'[v] = wpc[v]
      BY <2>0, <2>10 DEF Increment, Proceeds, Ask, Goto
    <3>3. QED
      BY <2>8, <3>1, <3>2 DEF CreditedIsListed
  <2>11. ASSUME NEW w \in Worker, Credit(w) PROVE CreditedIsListed'
    <3>1. UNCHANGED <<rows, ids, wtask>> /\ wpc[w] = "credit"
      BY <2>11 DEF Credit, rowVars
    <3>2. /\ \A v \in Worker \ {w} : wpc'[v] = wpc[v]
          /\ marked' \subseteq marked \cup {wtask[w]}
      BY <2>0, <2>11 DEF Credit, Mark, Ask, Goto, counterVars
    <3>3. Listed(wtask[w])
      BY <3>1 DEF CreditedIsListed
    <3>4. QED
      BY <2>2, <3>1, <3>2, <3>3 DEF CreditedIsListed
  <2>12. ASSUME NEW w \in Worker, Gate(w) PROVE CreditedIsListed'
    <3>1. UNCHANGED <<rows, ids, marked, wtask>> /\ wpc[w] = "gate"
      BY <2>12 DEF Gate, NoCounter, FoundCounter, Decrement, rowVars
    <3>2. /\ \A v \in Worker \ {w} : wpc'[v] = wpc[v]
      BY <2>0, <2>12 DEF Gate, Ask, Goto
    <3>3. QED
      BY <2>8, <3>1, <3>2 DEF CreditedIsListed
  <2>13. ASSUME NEW w \in Worker,
                \/ Collect(w) \/ Receive(w) \/ Abandon(w) \/ SeeCancel(w) \/ Insert(w)
                \/ Finalize(w) \/ Finish(w) \/ LeaveHandler(w) \/ Purge(w) \/ Report(w)
                \/ LogRead(w) \/ LogWrite(w) \/ Ack(w)
                \/ CreditFails(w) \/ Fail(w) \/ Drop(w) \/ Crash(w)
         PROVE  CreditedIsListed'
    <3>1. UNCHANGED <<rows, ids, marked>>
      BY <2>13 DEF Collect, Receive, Abandon, SeeCancel, Insert, Finalize, Finish,
         LeaveHandler, Purge, Report, LogRead, LogWrite, Ack, CreditFails, Fail, Drop,
         Crash, Proceeds, TryAbort, Abort, Clear, CreditCrash, rowVars, counterVars
    <3>2. \A v \in Worker \ {w} : wpc'[v] = wpc[v] /\ wtask'[v] = wtask[v]
      BY <2>0, <2>13 DEF Collect, Receive, Abandon, SeeCancel, Insert, Finalize, Finish,
         LeaveHandler, Purge, Report, LogRead, LogWrite, Ack, CreditFails, Fail, Drop,
         Crash, Proceeds, Ask, Goto
    <3>3. wpc'[w] \notin {"count", "credit", "gate", "finalize"}
      BY <2>0, <2>13 DEF Collect, Receive, Abandon, SeeCancel, Insert, Finalize, Finish,
         LeaveHandler, Purge, Report, LogRead, LogWrite, Ack, CreditFails, Fail, Drop,
         Crash, Proceeds, Ask, Goto, AfterHandler
    <3>4. QED
      BY <2>8, <3>1, <3>2, <3>3
  <2>14. CASE SyncSelect \/ SyncRead \/ SyncWrite
    BY <2>3, <2>14, SyncStep DEF rowVars, counterVars
  <2>15. CASE UNCHANGED vars
    BY <2>3, <2>15 DEF vars, rowVars, counterVars
  <2>16. QED
    BY <2>3, <2>4, <2>5, <2>6, <2>7, <2>9, <2>10, <2>11, <2>12, <2>13, <2>14, <2>15
       DEF Next, RequestStep, WorkerStep
<1>3. QED
  BY <1>1, <1>2, PipelineInvAlways, RequestInvAlways, PTL DEF Spec

(* When tasks are in flight, every row is that of a task the counter was   *)
(* seeded with, or reused.                                                 *)
RowsAreOwed ==
    Disjoint =>
        /\ \A a \in Api : At(a) = "dropRows" => (plan[a].found <=> rows # {})
        /\ \A a \in Api :
              At(a) \in {"dropPlanned", "setChunkNum", "insertRows"} => rows = {}
        /\ \A a \in Api :
              At(a) \in {"begin", "seed"} => rows \subseteq plan[a].fresh \cup ids
        /\ \A a \in Api : At(a) = "publish" => rows \subseteq owed \cup ids
        /\ Quiet \/ rows \subseteq owed \cup ids

(* While a request queues tasks, the others are at most stopping some.     *)
LEMMA OneQueues ==
  ASSUME TodoOK, SeparateInv, Disjoint, NEW a \in Api, Queues(a)
  PROVE  \A b \in Api \ {a} : At(b) \in StopStep \cup {"end"}
<1>1. \A b \in Api \ {a} : ~Queues(b)
  BY DEF SeparateInv
<1>2. \A b \in Api : todo[b] \in StopTodo => At(b) \in StopStep
  BY StopTodoStep DEF At
<1>3. QED
  BY <1>1, <1>2 DEF TodoOK, Queues, At

(***************************************************************************)
(* Rows that are no business of the counter are those of reused tasks      *)
(* only: queue_tasks deletes the rows it found, if it found any, and no    *)
(* other request inserts rows meanwhile.                                   *)
(***************************************************************************)
THEOREM RowsAreOwedAlways == Spec => []RowsAreOwed
<1>1. Init => RowsAreOwed
  BY DEF Init, At, RowsAreOwed
<1>2. PipelineInv /\ RequestInv /\ SeparateInv /\ RowsAreOwed /\ [Next]_vars => RowsAreOwed'
  <2> SUFFICES ASSUME PipelineInv, RequestInv, SeparateInv, RowsAreOwed, Disjoint, [Next]_vars
               PROVE  RowsAreOwed'
    BY DEF RowsAreOwed
  <2>0. /\ plan \in [Api -> [reuse : SUBSET Part, drop : SUBSET Task, found : BOOLEAN,
                             fresh : SUBSET Task]]
        /\ TodoOK
    BY DEF PipelineInv, TypeOK, ApiTypeOK, RequestInv, TodoOK
  <2>1. ASSUME NEW a \in Api,
               At(a)' \notin {"dropRows", "dropPlanned", "setChunkNum", "insertRows", "begin",
                              "seed", "publish"},
               \A b \in Api \ {a} : At(b)' = At(b) /\ plan'[b] = plan[b],
               UNCHANGED <<rows, ids, owed, queueVars, workVars>>
        PROVE  RowsAreOwed'
    <3>1. Quiet' = Quiet
      BY <2>1 DEF Quiet, queueVars, workVars
    <3>2. QED
      BY <2>1, <3>1 DEF RowsAreOwed
  <2>2. ASSUME NEW a \in Api, NEW step, Do(a, step), Queues(a), step # "publish",
               UNCHANGED <<queueVars, workVars>>
        PROVE  /\ Quiet' /\ At(a) = step /\ At(a)' \in After(step)
               /\ \A b \in Api \ {a} : At(b)' \in StopStep \cup {"end"}
    <3>1. /\ At(a) = step /\ At(a)' \in After(step)
          /\ \A b \in Api \ {a} : At(b)' = At(b)
      BY <2>0, <2>2, DoStep
    <3>2. Quiet'
      BY <2>2, <3>1 DEF SeparateInv, Quiet, queueVars, workVars
    <3>3. QED
      BY <2>0, <2>2, <3>1, <3>2, OneQueues
  <2>3. ASSUME NEW a \in Api, NEW step \in QueueStep \ {"deleteChunks"}, Do(a, step)
        PROVE  Queues(a)
    BY <2>0, <2>3, DoStep, AtQueues
  <2>4. ASSUME NEW a \in Api, Arrive(a) PROVE RowsAreOwed'
    BY <2>0, <2>1, <2>4, ArriveStep DEF rowVars, counterVars
  <2>5. ASSUME NEW a \in Api,
               DeleteChunks(a) \/ AbortRun(a) \/ CancelRows(a) \/ StopDoc(a)
        PROVE  RowsAreOwed'
    <3>1. PICK step \in StopStep : Do(a, step)
      BY <2>5 DEF DeleteChunks, AbortRun, CancelRows, StopDoc, StopStep
    <3>2. UNCHANGED <<rows, ids, owed, queueVars, workVars, plan>>
      BY <2>5 DEF DeleteChunks, AbortRun, CancelRows, StopDoc, TryAbort, Abort, rowVars,
         counterVars
    <3>3. /\ \A b \in Api \ {a} : At(b)' = At(b)
          /\ At(a)' \in After(step) \cup StopStep \cup {"end"}
      BY <2>0, <3>1, DoStep DEF StopStep
    <3>4. QED
      BY <2>1, <3>1, <3>2, <3>3 DEF After, StopStep
  <2>6. ASSUME NEW a \in Api, DeleteRows(a) PROVE RowsAreOwed'
    <3>1. Do(a, "deleteRows") /\ UNCHANGED <<queueVars, workVars>>
      BY <2>6 DEF DeleteRows
    <3>2. QED
      BY <2>2, <2>3, <3>1 DEF After, StopStep, QueueStep, RowsAreOwed
  <2>7. ASSUME NEW a \in Api, Plan(a) PROVE RowsAreOwed'
    <3>1. Do(a, "plan") /\ UNCHANGED <<queueVars, workVars, rows>>
      BY <2>7 DEF Plan, rowVars
    <3>2. plan'[a].found = (rows # {})
      BY <2>0, <2>7 DEF Plan
    <3>3. QED
      BY <2>2, <2>3, <3>1, <3>2 DEF After, StopStep, QueueStep, RowsAreOwed
  <2>8. ASSUME NEW a \in Api, DropRows(a) PROVE RowsAreOwed'
    <3>1. Do(a, "dropRows") /\ UNCHANGED <<queueVars, workVars>>
      BY <2>8 DEF DropRows
    <3>2. At(a) = "dropRows"
      BY <2>2, <2>3, <3>1 DEF QueueStep
    <3>3. rows' = {}
      BY <2>8, <3>2 DEF DropRows, NoRows, rowVars, RowsAreOwed
    <3>4. QED
      BY <2>2, <2>3, <3>1, <3>3 DEF After, StopStep, QueueStep, RowsAreOwed
  <2>9. ASSUME NEW a \in Api, DropPlanned(a) \/ SetChunkNum(a) PROVE RowsAreOwed'
    <3>1. PICK step \in {"dropPlanned", "setChunkNum"} : Do(a, step)
      BY <2>9 DEF DropPlanned, SetChunkNum
    <3>2. UNCHANGED <<queueVars, workVars, rows>>
      BY <2>9 DEF DropPlanned, SetChunkNum, rowVars
    <3>3. At(a) = step
      BY <2>2, <2>3, <3>1, <3>2 DEF QueueStep
    <3>4. rows' = {}
      BY <3>2, <3>3 DEF RowsAreOwed
    <3>5. QED
      BY <2>2, <2>3, <3>1, <3>2, <3>4 DEF After, StopStep, QueueStep, RowsAreOwed
  <2>10. ASSUME NEW a \in Api, InsertRows(a) PROVE RowsAreOwed'
    <3>1. Do(a, "insertRows") /\ UNCHANGED <<queueVars, workVars>>
      BY <2>10 DEF InsertRows
    <3>2. At(a) = "insertRows"
      BY <2>2, <2>3, <3>1 DEF QueueStep
    <3>3. rows' \subseteq plan'[a].fresh \cup ids'
      BY <2>10, <3>2, NewRows DEF RowsAreOwed
    <3>4. QED
      BY <2>2, <2>3, <3>1, <3>3 DEF After, StopStep, QueueStep, RowsAreOwed
  <2>11. ASSUME NEW a \in Api, Begin(a) PROVE RowsAreOwed'
    <3>1. Do(a, "begin") /\ UNCHANGED <<queueVars, workVars, rows, ids, plan>>
      BY <2>11 DEF Begin, rowVars
    <3>2. At(a) = "begin"
      BY <2>2, <2>3, <3>1 DEF QueueStep
    <3>3. QED
      BY <2>2, <2>3, <3>1, <3>2 DEF After, StopStep, QueueStep, RowsAreOwed
  <2>12. ASSUME NEW a \in Api, SeedRun(a) PROVE RowsAreOwed'
    <3>1. Do(a, "seed") /\ UNCHANGED <<queueVars, workVars, rows, ids, plan>>
      BY <2>12 DEF SeedRun, rowVars
    <3>2. At(a) = "seed"
      BY <2>2, <2>3, <3>1 DEF QueueStep
    <3>3. rows' \subseteq owed' \cup ids'
      BY <2>12, <3>1, <3>2 DEF SeedRun, Seed, counterVars, RowsAreOwed
    <3>4. QED
      BY <2>2, <2>3, <3>1, <3>3 DEF After, StopStep, QueueStep, RowsAreOwed
  <2>13. ASSUME NEW a \in Api, Publish(a) PROVE RowsAreOwed'
    <3>1. UNCHANGED <<rows, ids, owed, pel, workVars>>
      BY <2>13 DEF Publish, rowVars, counterVars
    <3>2. CASE plan[a].fresh = {}
      <4>1. /\ todo' = [todo EXCEPT ![a] = <<>>] /\ plan' = [plan EXCEPT ![a] = NoPlan]
            /\ stream' = stream
        BY <2>13, <3>2 DEF Publish
      <4>2. \A b \in Api \ {a} : plan'[b] = plan[b]
        BY <2>0, <4>1
      <4>3. QED
        BY <2>0, <2>1, <3>1, <4>1, <4>2, EndStep DEF queueVars
    <3>3. CASE plan[a].fresh # {}
      <4>1. todo' = todo
        BY <2>13, <3>3 DEF Publish
      <4>2. At(a) = "publish" /\ \A b \in Api : At(b)' = At(b)
        BY <2>13, <4>1 DEF Publish, At
      <4>3. \A b \in Api \ {a} : At(b) \in StopStep \cup {"end"}
        BY <2>0, <4>2, AtQueues, OneQueues DEF QueueStep
      <4>4. rows' \subseteq owed' \cup ids'
        BY <3>1, <4>2 DEF RowsAreOwed
      <4>5. QED
        BY <4>2, <4>3, <4>4 DEF RowsAreOwed, StopStep
    <3>4. QED
      BY <3>2, <3>3
  <2>14. ASSUME NEW a \in Api, PublishFails(a) \/ RequestDies(a) PROVE RowsAreOwed'
    <3>1. /\ todo' = [todo EXCEPT ![a] = <<>>] /\ plan' = [plan EXCEPT ![a] = NoPlan]
          /\ UNCHANGED <<rows, ids, queueVars, workVars, owed>>
      BY <2>14 DEF PublishFails, RequestDies, TryAbort, Abort, counterVars, rowVars
    <3>2. \A b \in Api \ {a} : plan'[b] = plan[b]
      BY <2>0, <3>1
    <3>3. QED
      BY <2>0, <2>1, <3>1, <3>2, EndStep
  <2>15. ASSUME NEW w \in Worker,
                WorkerStep(w) \/ CreditFails(w) \/ Fail(w) \/ Drop(w) \/ Crash(w)
         PROVE  RowsAreOwed'
    <3>1. UNCHANGED <<apiVars, rows, owed>> /\ ids \subseteq ids' /\ ~Quiet
      BY <2>15, ExecutorStep
    <3>2. \A a \in Api : At(a) \in {"dropRows", "dropPlanned", "setChunkNum", "insertRows",
                                    "begin", "seed"} => FALSE
      BY <2>0, <3>1, AtQueues DEF SeparateInv, QueueStep
    <3>3. QED
      BY <3>1, <3>2 DEF RowsAreOwed, apiVars, At
  <2>16. ASSUME UNCHANGED <<rows, ids, owed, queueVars, workVars, apiVars>> PROVE RowsAreOwed'
    BY <2>16 DEF RowsAreOwed, At, Quiet, queueVars, workVars, apiVars
  <2>17. CASE SyncSelect \/ SyncRead \/ SyncWrite
    BY <2>16, <2>17, SyncStep DEF rowVars, counterVars
  <2>18. CASE UNCHANGED vars
    BY <2>16, <2>18 DEF vars, rowVars, counterVars
  <2>19. QED
    BY <2>4, <2>5, <2>6, <2>7, <2>8, <2>9, <2>10, <2>11, <2>12, <2>13, <2>14, <2>15,
       <2>17, <2>18 DEF Next, RequestStep
<1>3. QED
  BY <1>1, <1>2, PipelineInvAlways, RequestInvAlways, SeparateInvAlways, PTL DEF Spec

(***************************************************************************)
(* When requests do not overlap, "only the last chunking task for a doc    *)
(* runs post-processing" holds in full: when the finalizers run, every row *)
(* of the document lists the chunk of its task, or the page range is       *)
(* blank.                                                                  *)
(***************************************************************************)
THEOREM LastTaskOnlyAlways ==
  ASSUME Disjoint
  PROVE  Spec => []LastTaskOnly
<1>1. PipelineInv /\ CounterInv /\ CreditedIsListed /\ RowsAreOwed => LastTaskOnly
  <2> SUFFICES ASSUME PipelineInv, CounterInv, CreditedIsListed, RowsAreOwed,
                      NEW w \in Worker, wpc[w] = "finalize", NEW t \in rows
               PROVE  PartOf(t) \in Blank \/ t \in ids
    BY DEF LastTaskOnly
  <2>1. gate[w] = "last" /\ ~Quiet
    BY DEF PipelineInv, HandledIsUnacked, Quiet
  <2>2. owed = paid /\ paid \subseteq marked
    BY <2>1 DEF CounterInv, CountsUnpaid, CounterTypeOK
  <2>3. t \in owed \/ t \in ids
    BY <2>1 DEF RowsAreOwed
  <2>4. t \in marked => Listed(t)
    BY DEF CreditedIsListed
  <2>5. QED
    BY <2>2, <2>3, <2>4 DEF Listed
<1>2. Spec => []CounterInv
  BY CounterImplementedAlways, CounterInvAlways, PTL DEF CounterImplemented
<1>3. QED
  BY <1>1, <1>2, PipelineInvAlways, CreditedIsListedAlways, RowsAreOwedAlways, PTL

-----------------------------------------------------------------------------
(* The handler of a task is through: what it has to say of it is said.     *)
Handled(w, t) ==
    wtask[w] = t /\ wpc[w] \in {"leave", "purge", "report", "log", "logging", "ack"}

(* Somebody still has to deal with a task.                                 *)
Kept(t) ==
    \/ t \in InStream
    \/ \E w \in Worker : t \in pel[w] /\ ~Handled(w, t)
    \/ \E a \in Api : t \in plan[a].fresh

(* A task whose row is neither done nor failed is kept, if nobody asked    *)
(* for its end.                                                            *)
UnsettledIsKept ==
    \A t \in rows : prog[t] \in {"queued", "going"} /\ t \notin cancelled => Kept(t)

(***************************************************************************)
(* If the stores, Redis and the API server do not fail, a task that is     *)
(* neither settled nor cancelled is with somebody who has not come to its  *)
(* end, whatever requests overlap and executors die: an ack follows the    *)
(* last word on the task.                                                  *)
(***************************************************************************)
THEOREM UnsettledIsKeptAlways ==
  ASSUME ~Faulty, ~ApiFails
  PROVE  Spec => []UnsettledIsKept
<1>1. Init => UnsettledIsKept
  BY DEF Init, UnsettledIsKept
<1>2. PipelineInv /\ RequestInv /\ UnsettledIsKept /\ [Next]_vars => UnsettledIsKept'
  <2> SUFFICES ASSUME PipelineInv, RequestInv, UnsettledIsKept, [Next]_vars
               PROVE  UnsettledIsKept'
    OBVIOUS
  <2>0. /\ plan \in [Api -> [reuse : SUBSET Part, drop : SUBSET Task, found : BOOLEAN,
                             fresh : SUBSET Task]]
        /\ wtask \in [Worker -> Task \cup {NoTask}] /\ NoTask \notin Task
        /\ pel \in [Worker -> SUBSET Task] /\ stream \in Seq(Task)
        /\ prog \in [Task -> {"queued", "going", "done", "failed"}]
        /\ wpc \in [Worker -> Handling \cup {"idle", "received", "gate", "finalize",
                                             "leave", "purge", "report", "log", "logging",
                                             "ack"}]
        /\ rows \subseteq Task /\ TodoOK
        /\ \A w \in Worker : wpc[w] = "idle" <=> wtask[w] = NoTask
        /\ \A w \in Worker : wpc[w] # "idle" => wtask[w] \in pel[w]
    BY CounterAssumption DEF PipelineInv, TypeOK, ApiTypeOK, RowTypeOK, WorkTypeOK,
       HandledIsUnacked, RequestInv, TodoOK
  <2>1. ASSUME \A t \in Task : Kept(t) => Kept(t)', UNCHANGED <<rows, prog>>,
               cancelled \subseteq cancelled'
        PROVE  UnsettledIsKept'
    BY <2>0, <2>1 DEF UnsettledIsKept
  <2>2. ASSUME UNCHANGED <<queueVars, workVars>>,
               \A a \in Api : plan[a].fresh \subseteq plan'[a].fresh
        PROVE  \A t : Kept(t) => Kept(t)'
    BY <2>2 DEF Kept, Handled, InStream, queueVars, workVars
  <2>3. ASSUME NEW a \in Api, Arrive(a) PROVE UnsettledIsKept'
    BY <2>0, <2>1, <2>2, <2>3, ArriveStep DEF rowVars
  <2>4. ASSUME NEW a \in Api,
               \/ DeleteChunks(a) \/ AbortRun(a) \/ CancelRows(a) \/ StopDoc(a)
               \/ Plan(a) \/ DropPlanned(a) \/ SetChunkNum(a) \/ Begin(a) \/ SeedRun(a)
        PROVE  UnsettledIsKept'
    <3>1. UNCHANGED <<queueVars, workVars, rows, prog>> /\ cancelled \subseteq cancelled'
      BY <2>4 DEF DeleteChunks, AbortRun, CancelRows, StopDoc, Plan, DropPlanned,
         SetChunkNum, Begin, SeedRun, rowVars
    <3>2. PICK step \in (QueueStep \cup StopStep) \ {"insertRows", "publish"} :
            /\ Do(a, step)
            /\ plan'[a].fresh = IF step = "plan" THEN {} ELSE plan[a].fresh
            /\ \A b \in Api \ {a} : plan'[b] = plan[b]
      BY <2>4, PlainStep
    <3>3. step = "plan" => plan[a].fresh = {}
      BY <2>0, <3>2, DoStep DEF RequestInv
    <3>4. QED
      BY <2>1, <2>2, <3>1, <3>2, <3>3
  <2>5. ASSUME NEW a \in Api, DeleteRows(a) \/ DropRows(a) PROVE UnsettledIsKept'
    <3>1. CASE NoRows
      BY <3>1 DEF NoRows, UnsettledIsKept
    <3>2. CASE UNCHANGED rowVars
      <4>1. UNCHANGED <<queueVars, workVars, plan, cancelled>>
        BY <2>5 DEF DeleteRows, DropRows
      <4>2. QED
        BY <2>1, <2>2, <3>2, <4>1 DEF rowVars
    <3>3. QED
      BY <2>5, <3>1, <3>2 DEF DeleteRows, DropRows
  <2>6. ASSUME NEW a \in Api, InsertRows(a) PROVE UnsettledIsKept'
    <3>1. /\ Do(a, "insertRows") /\ UNCHANGED <<queueVars, workVars, cancelled>>
          /\ plan' = [plan EXCEPT ![a].fresh = ({run + 1} \X Part) \ ({run + 1} \X plan[a].reuse)]
          /\ rows' = rows \cup ({run + 1} \X Part)
          /\ prog' = [t \in Task |-> IF t \in {run + 1} \X plan[a].reuse THEN "done" ELSE prog[t]]
      BY <2>6 DEF InsertRows
    <3>2. plan[a].fresh = {}
      <4>1. At(a) = "insertRows"
        BY <2>0, <3>1, DoStep
      <4>2. QED
        BY <4>1 DEF RequestInv
    <3>3. /\ plan'[a].fresh = ({run + 1} \X Part) \ ({run + 1} \X plan[a].reuse)
          /\ \A b \in Api \ {a} : plan'[b].fresh = plan[b].fresh
      BY <2>0, <3>1
    <3>4. \A t : Kept(t) => Kept(t)'
      BY <2>2, <3>1, <3>2, <3>3
    <3>5. rows' \subseteq Task
      <4>1. run + 1 \in Run
        BY <2>6, ChunkingAssumption DEF InsertRows, Run, PipelineInv, TypeOK, ApiTypeOK
      <4>2. QED
        BY <2>0, <3>1, <4>1, ChunkingAssumption
    <3>6. ASSUME NEW t \in rows', prog'[t] \in {"queued", "going"}, t \notin cancelled'
          PROVE  Kept(t)'
      <4>1. t \notin {run + 1} \X plan[a].reuse /\ prog'[t] = prog[t]
        BY <3>1, <3>5, <3>6
      <4>2. CASE t \in rows
        BY <3>1, <3>4, <3>6, <4>1, <4>2 DEF UnsettledIsKept
      <4>3. CASE t \notin rows
        <5>1. t \in plan'[a].fresh
          BY <3>1, <3>3, <4>1, <4>3
        <5>2. QED
          BY <5>1 DEF Kept
      <4>4. QED
        BY <4>2, <4>3
    <3>7. QED
      BY <3>6 DEF UnsettledIsKept
  <2>7. ASSUME NEW a \in Api, Publish(a) PROVE UnsettledIsKept'
    <3>1. UNCHANGED <<rows, prog, pel, workVars, cancelled>>
      BY <2>7 DEF Publish, rowVars
    <3>2. CASE plan[a].fresh = {}
      <4>1. /\ plan' = [plan EXCEPT ![a] = NoPlan] /\ stream' = stream
        BY <2>7, <3>2 DEF Publish
      <4>2. \A b \in Api : plan[b].fresh \subseteq plan'[b].fresh
        BY <2>0, <3>2, <4>1
      <4>3. QED
        BY <2>1, <2>2, <3>1, <4>1, <4>2 DEF queueVars
    <3>3. CASE plan[a].fresh # {}
      <4>1. PICK t \in plan[a].fresh :
              stream' = Append(stream, t) /\ plan' = [plan EXCEPT ![a].fresh = @ \ {t}]
        BY <2>7, <3>3 DEF Publish
      <4>2. InStream' = InStream \cup {t}
        <5>1. t \in Task
          BY <2>0
        <5>2. QED
          BY <2>0, <4>1, <5>1, StreamAppend
      <4>3. \A b \in Api : plan[b].fresh \subseteq plan'[b].fresh \cup {t}
        BY <2>0, <4>1
      <4>4. \A u : Kept(u) => Kept(u)'
        BY <3>1, <4>2, <4>3 DEF Kept, Handled, workVars
      <4>5. QED
        BY <2>1, <3>1, <4>4
    <3>4. QED
      BY <3>2, <3>3
  <2>8. ASSUME NEW a \in Api, PublishFails(a) \/ RequestDies(a) PROVE UnsettledIsKept'
    BY <2>8 DEF PublishFails, RequestDies
  <2>9. ASSUME NEW w \in Worker, UNCHANGED <<stream, pel, plan, rows, prog, cancelled>>,
               \A v \in Worker \ {w} : wpc'[v] = wpc[v] /\ wtask'[v] = wtask[v],
               \A t \in Task : Handled(w, t)' => Handled(w, t) \/ t \in cancelled
                                 \/ t \notin rows \/ prog[t] \notin {"queued", "going"}
        PROVE  UnsettledIsKept'
    <3>1. \A v \in Worker \ {w}, t \in Task : Handled(v, t)' <=> Handled(v, t)
      BY <2>9 DEF Handled
    <3>2. InStream' = InStream
      BY <2>9 DEF InStream
    <3>3. ASSUME NEW t \in rows, prog[t] \in {"queued", "going"}, t \notin cancelled
          PROVE  Kept(t)'
      <4>1. Kept(t) /\ t \in Task
        BY <2>0, <3>3 DEF UnsettledIsKept
      <4>2. QED
        BY <2>9, <3>1, <3>2, <3>3, <4>1 DEF Kept
    <3>4. QED
      BY <2>9, <3>3 DEF UnsettledIsKept
  <2>10. ASSUME NEW w \in Worker, Collect(w) PROVE UnsettledIsKept'
    <3>1. /\ UNCHANGED <<rows, prog, cancelled, plan>> /\ wpc[w] = "idle"
          /\ \A v \in Worker \ {w} : wpc'[v] = wpc[v] /\ wtask'[v] = wtask[v]
          /\ wpc'[w] = "received"
      BY <2>0, <2>10 DEF Collect, Goto, rowVars, apiVars
    <3>2. \A v \in Worker, t \in Task : Handled(v, t)' => Handled(v, t)
      BY <3>1 DEF Handled
    <3>3. CASE UNCHANGED queueVars
      <4>1. \A t \in Task : Kept(t) => Kept(t)'
        BY <3>1, <3>2, <3>3 DEF Kept, InStream, queueVars
      <4>2. QED
        BY <2>1, <3>1, <4>1
    <3>4. CASE /\ stream # <<>> /\ pel' = [pel EXCEPT ![w] = @ \cup {Head(stream)}]
               /\ stream' = Tail(stream)
      <4>1. InStream \subseteq InStream' \cup {Head(stream)}
        <5>1. stream \in Seq(Task) /\ stream # <<>> /\ stream' = Tail(stream)
          BY <2>0, <3>4
        <5>2. {stream[i] : i \in DOMAIN stream}
                \subseteq {Tail(stream)[i] : i \in DOMAIN Tail(stream)} \cup {Head(stream)}
          BY <5>1, StreamTail
        <5>3. QED
          BY <5>1, <5>2 DEF InStream
      <4>2. /\ Head(stream) \in pel'[w] /\ \A t : ~Handled(w, t)'
            /\ \A v \in Worker : pel[v] \subseteq pel'[v]
        BY <2>0, <3>1, <3>4 DEF Handled
      <4>3. ASSUME NEW t \in Task, Kept(t) PROVE Kept(t)'
        <5>1. CASE t \in InStream
          <6>1. CASE t = Head(stream)
            BY <4>2, <6>1 DEF Kept
          <6>2. CASE t # Head(stream)
            BY <4>1, <5>1, <6>2 DEF Kept
          <6>3. QED
            BY <6>1, <6>2
        <5>2. ASSUME NEW v \in Worker, t \in pel[v], ~Handled(v, t) PROVE Kept(t)'
          BY <3>2, <4>2, <5>2 DEF Kept
        <5>3. ASSUME NEW a \in Api, t \in plan[a].fresh PROVE Kept(t)'
          BY <3>1, <5>3 DEF Kept
        <5>4. QED
          BY <4>3, <5>1, <5>2, <5>3 DEF Kept
      <4>4. QED
        BY <2>1, <3>1, <4>3
    <3>5. QED
      BY <2>10, <3>3, <3>4 DEF Collect
  <2>11. ASSUME NEW w \in Worker,
                UNCHANGED <<stream, pel, plan, rows, cancelled, wtask>>,
                \A v \in Worker \ {w} : wpc'[v] = wpc[v],
                wtask[w] \in rows,
                \/ wpc'[w] \in {"build"}
                \/ prog'[wtask[w]] \in {"done", "failed"},
                \A t \in Task \ {wtask[w]} : prog'[t] = prog[t],
                wpc[w] # "idle"
         PROVE  UnsettledIsKept'
    <3>1. \A v \in Worker, t \in Task : Handled(v, t)' => Handled(v, t) \/ (v = w /\ t = wtask[w])
      BY <2>11 DEF Handled
    <3>2. InStream' = InStream
      BY <2>11 DEF InStream
    <3>3. ASSUME NEW t \in rows, prog'[t] \in {"queued", "going"}, t \notin cancelled
          PROVE  Kept(t)'
      <4>1. CASE t = wtask[w]
        <5>1. t \in pel'[w] /\ ~Handled(w, t)'
          BY <2>0, <2>11, <3>3, <4>1 DEF Handled
        <5>2. QED
          BY <5>1 DEF Kept
      <4>2. CASE t # wtask[w]
        <5>1. Kept(t)
          BY <2>0, <2>11, <3>3, <4>2 DEF UnsettledIsKept
        <5>2. t \in Task
          BY <2>0
        <5>3. QED
          BY <2>11, <3>1, <3>2, <4>2, <5>1, <5>2 DEF Kept
      <4>3. QED
        BY <4>1, <4>2
    <3>4. QED
      BY <2>11, <3>3 DEF UnsettledIsKept
  <2>12. ASSUME NEW w \in Worker, Receive(w) PROVE UnsettledIsKept'
    <3>1. /\ UNCHANGED <<stream, pel, plan, rows, cancelled, wtask>> /\ wpc[w] = "received"
          /\ \A v \in Worker \ {w} : wpc'[v] = wpc[v]
      BY <2>0, <2>12 DEF Receive, Goto, queueVars, apiVars
    <3>2. CASE wtask[w] \in rows /\ NotCancelled(wtask[w]) /\ wpc' = [wpc EXCEPT ![w] = "build"]
      <4>1. wpc'[w] = "build"
        BY <2>0, <3>2
      <4>2. \A t \in Task \ {wtask[w]} : prog'[t] = prog[t]
        BY <2>0, <2>12 DEF Receive
      <4>3. QED
        BY <2>11, <3>1, <3>2, <4>1, <4>2
    <3>3. CASE wtask[w] \notin rows \ cancelled /\ wpc' = [wpc EXCEPT ![w] = "ack"]
      <4>1. \A t \in rows \ {wtask[w]} : prog'[t] = prog[t]
        BY <2>0, <2>12 DEF Receive
      <4>2. \A v \in Worker, t \in Task : Handled(v, t)' => Handled(v, t) \/ (v = w /\ t = wtask[w])
        BY <3>1 DEF Handled
      <4>3. InStream' = InStream
        BY <3>1 DEF InStream
      <4>4. ASSUME NEW t \in rows, prog'[t] \in {"queued", "going"}, t \notin cancelled
            PROVE  Kept(t)'
        <5>1. t # wtask[w] /\ t \in Task
          BY <2>0, <3>3, <4>4
        <5>2. Kept(t)
          BY <4>1, <4>4, <5>1 DEF UnsettledIsKept
        <5>3. QED
          BY <3>1, <4>2, <4>3, <5>1, <5>2 DEF Kept
      <4>5. QED
        BY <3>1, <4>4 DEF UnsettledIsKept
    <3>4. QED
      BY <2>12, <3>2, <3>3 DEF Receive, Goto
  <2>13. ASSUME NEW w \in Worker, Abandon(w) PROVE UnsettledIsKept'
    BY <2>0, <2>11, <2>13 DEF Abandon, FailTask, Goto, queueVars, apiVars
  <2>14. ASSUME NEW w \in Worker, SeeCancel(w) PROVE UnsettledIsKept'
    <3>1. /\ UNCHANGED <<stream, pel, plan, rows, cancelled, wtask>> /\ wpc[w] # "idle"
          /\ \A v \in Worker \ {w} : wpc'[v] = wpc[v]
          /\ wtask[w] \in cancelled
      BY <2>0, <2>14 DEF SeeCancel, Goto, queueVars, apiVars, Handling
    <3>2. CASE wtask[w] \in rows
      BY <2>0, <2>11, <2>14, <3>1, <3>2 DEF SeeCancel, ReportFailure, FailTask
    <3>3. CASE wtask[w] \notin rows
      <4>1. prog' = prog
        BY <2>14, <3>3 DEF SeeCancel, ReportFailure, FailTask
      <4>2. \A t \in Task : Handled(w, t)' => t \in cancelled
        BY <3>1 DEF Handled
      <4>3. QED
        BY <2>9, <3>1, <4>1, <4>2
    <3>4. QED
      BY <3>2, <3>3
  <2>15. ASSUME NEW w \in Worker,
                \/ Build(w) \/ Insert(w) \/ Index(w) \/ Increment(w) \/ Credit(w) \/ Gate(w)
                \/ Finalize(w)
         PROVE  UnsettledIsKept'
    <3>1. UNCHANGED <<stream, pel, plan, rows, prog, cancelled, wtask>>
      BY <2>15 DEF Build, Insert, Index, Increment, Credit, Gate, Finalize, Proceeds, queueVars,
         apiVars, rowVars
    <3>2. \A v \in Worker \ {w} : wpc'[v] = wpc[v]
      BY <2>0, <2>15 DEF Build, Insert, Index, Increment, Credit, Gate, Finalize, Proceeds, Ask,
         Goto
    <3>3. wpc'[w] \notin {"leave", "purge", "report", "log", "logging", "ack"}
      BY <2>0, <2>15 DEF Build, Insert, Index, Increment, Credit, Gate, Finalize, Proceeds, Ask,
         Goto
    <3>4. QED
      BY <2>9, <3>1, <3>2, <3>3 DEF Handled
  <2>16. ASSUME NEW w \in Worker, Finish(w) PROVE UnsettledIsKept'
    <3>1. /\ UNCHANGED <<stream, pel, plan, rows, cancelled, wtask>> /\ wpc[w] # "idle"
          /\ \A v \in Worker \ {w} : wpc'[v] = wpc[v]
      BY <2>0, <2>16 DEF Finish, Goto, queueVars, apiVars
    <3>2. CASE wtask[w] \in rows /\ prog' = [prog EXCEPT ![wtask[w]] = "done"]
      BY <2>0, <2>11, <3>1, <3>2
    <3>3. CASE wtask[w] \notin rows /\ prog' = prog
      <4>1. \A t \in Task : Handled(w, t)' => t \notin rows
        BY <3>1, <3>3 DEF Handled
      <4>2. QED
        BY <2>9, <3>1, <3>3, <4>1
    <3>4. QED
      BY <2>16, <3>2, <3>3 DEF Finish
  <2>17. ASSUME NEW w \in Worker,
                \/ LeaveHandler(w) \/ Purge(w) \/ LogRead(w) \/ LogWrite(w)
         PROVE  UnsettledIsKept'
    <3>1. UNCHANGED <<stream, pel, plan, rows, prog, cancelled, wtask>>
      BY <2>17 DEF LeaveHandler, Purge, LogRead, LogWrite, queueVars, apiVars, rowVars
    <3>2. /\ \A v \in Worker \ {w} : wpc'[v] = wpc[v]
          /\ wpc[w] \in {"leave", "purge", "report", "log", "logging", "ack"}
      BY <2>0, <2>17 DEF LeaveHandler, Purge, LogRead, LogWrite, Goto
    <3>3. QED
      BY <2>9, <3>1, <3>2 DEF Handled
  <2>18. ASSUME NEW w \in Worker, Report(w) PROVE UnsettledIsKept'
    <3>1. /\ UNCHANGED <<stream, pel, plan, rows, cancelled, wtask>> /\ wpc[w] = "report"
          /\ \A v \in Worker \ {w} : wpc'[v] = wpc[v]
      BY <2>0, <2>18 DEF Report, Goto, queueVars, apiVars
    <3>2. CASE wtask[w] \in rows
      BY <2>0, <2>11, <2>18, <3>1, <3>2 DEF Report, ReportFailure, FailTask
    <3>3. CASE wtask[w] \notin rows
      <4>1. prog' = prog
        BY <2>18, <3>3 DEF Report, ReportFailure, FailTask
      <4>2. QED
        BY <2>9, <3>1, <4>1 DEF Handled
    <3>4. QED
      BY <3>2, <3>3
  <2>19. ASSUME NEW w \in Worker, Ack(w) PROVE UnsettledIsKept'
    <3>1. /\ UNCHANGED <<stream, plan, rows, prog, cancelled>> /\ wpc[w] = "ack"
          /\ pel' = [pel EXCEPT ![w] = @ \ {wtask[w]}]
          /\ \A v \in Worker \ {w} : wpc'[v] = wpc[v] /\ wtask'[v] = wtask[v]
          /\ wpc'[w] = "idle"
      BY <2>0, <2>19 DEF Ack, Goto, rowVars, apiVars
    <3>2. \A v \in Worker, t \in Task :
             t \in pel[v] /\ ~Handled(v, t) => t \in pel'[v] /\ ~Handled(v, t)'
      BY <2>0, <3>1 DEF Handled
    <3>3. InStream' = InStream
      BY <3>1 DEF InStream
    <3>4. \A t \in Task : Kept(t) => Kept(t)'
      BY <3>1, <3>2, <3>3 DEF Kept
    <3>5. QED
      BY <2>1, <3>1, <3>4
  <2>20. ASSUME NEW w \in Worker, CreditFails(w) \/ Fail(w) \/ Drop(w) PROVE UnsettledIsKept'
    BY <2>20 DEF CreditFails, Fail, Drop
  <2>21. ASSUME NEW w \in Worker, Crash(w) PROVE UnsettledIsKept'
    <3>1. /\ UNCHANGED <<stream, pel, plan, rows, prog, cancelled>>
          /\ \A v \in Worker \ {w} : wpc'[v] = wpc[v] /\ wtask'[v] = wtask[v]
          /\ wpc'[w] = "idle"
      BY <2>0, <2>21 DEF Crash, Goto, queueVars, apiVars, rowVars
    <3>2. QED
      BY <2>9, <3>1 DEF Handled
  <2>22. ASSUME UNCHANGED <<rows, prog, queueVars, workVars, plan, cancelled>>
         PROVE  UnsettledIsKept'
    BY <2>1, <2>2, <2>22
  <2>23. CASE SyncSelect \/ SyncRead \/ SyncWrite
    BY <2>22, <2>23, SyncStep DEF rowVars, apiVars
  <2>24. CASE UNCHANGED vars
    BY <2>22, <2>24 DEF vars, rowVars, apiVars
  <2>25. QED
    BY <2>3, <2>4, <2>5, <2>6, <2>7, <2>8, <2>10, <2>12, <2>13, <2>14, <2>15, <2>16, <2>17,
       <2>18, <2>19, <2>20, <2>21, <2>23, <2>24 DEF Next, RequestStep, WorkerStep
<1>3. QED
  BY <1>1, <1>2, PipelineInvAlways, RequestInvAlways, PTL DEF Spec

(***************************************************************************)
(* At-least-once: then its message is in the stream, with an executor, or  *)
(* about to be published. Failures of the database may lose the last word, *)
(* and a request that dies leaves rows without messages, hence the         *)
(* assumptions.                                                            *)
(***************************************************************************)
THEOREM NothingForgottenAlways ==
  ASSUME ~Faulty, ~ApiFails
  PROVE  Spec => []NothingForgotten
<1>1. UnsettledIsKept => NothingForgotten
  BY DEF UnsettledIsKept, NothingForgotten, Kept, InStream
<1>2. QED
  BY <1>1, UnsettledIsKeptAlways, PTL

-----------------------------------------------------------------------------
(* What a request for new tasks has left to do when it has deleted the     *)
(* rows, and when it has deleted the chunks but not the rows.              *)
RowsGone == Tail(ParseSteps)
ChunksGone == Tail(ChunksSteps)

(* Nobody stops the document: no cancel key is set, no handler is on its   *)
(* way to the purge, and a request either deletes the rows before the      *)
(* chunks or does not die between the two.                                 *)
UnstoppedInv ==
    /\ cancelled = {} /\ \A w \in Worker : wpc[w] \notin {"stop", "purge"}
    /\ \A a \in Api : todo[a] \in QueueTodo \cup {<<>>}
    /\ \A a \in Api : todo[a] = RowsGone => rows = {}
    /\ \A a \in Api : todo[a] \in {ChunksSteps, ChunksGone} => ~ApiFails

(* The chunk of a task with text is in the store.                          *)
HasChunk(t) == PartOf(t) \in Blank \/ ChunkOf(t) \in store

(* The rows are those of the last request, if there are any.               *)
RowsOfRun ==
    /\ rows = {} \/ rows = {run} \X Part
    /\ \A t \in Task \ rows : prog[t] = "queued"

(* A task has its chunk in the store once it is through with inserting it, *)
(* unless a request is between deleting the chunks and deleting the rows.  *)
Past == {"index", "count", "credit", "gate", "finalize", "finish"}

DoneHasChunk ==
    /\ \A t \in rows : prog[t] = "done" => HasChunk(t) \/ \E a \in Api : todo[a] = ChunksGone
    /\ \A w \in Worker : wpc[w] \in Past => HasChunk(wtask[w])

(* A part that is to be reused keeps its chunk.                            *)
Planned == {"dropRows", "dropPlanned", "setChunkNum", "insertRows"}

ReuseHasChunk ==
    \A a \in Api : At(a) \in Planned =>
        \A p \in plan[a].reuse :
           SameConfig /\ HasChunk(<<1, p>>) /\ <<1, p>> \notin plan[a].drop

(* While a request is on its way to insert its rows nobody takes the old   *)
(* ones for those of a document that is done.                              *)
Preparing == \E a \in Api : At(a) \in {"deleteRows", "deleteChunks", "plan"} \cup Planned

DoneIsNear == docRun = "DONE" \/ \E x \in Syncer : sync[x].run = "DONE"

NotDoneYet ==
    Preparing =>
        /\ ~DoneIsNear
        /\ rows # {} /\ Unfinished = {} =>
              docRun = "RUNNING" /\ docProg = "zero" /\ sync[Server] = NoSync

(* Who says DONE, or is about to, is right.                                *)
DoneHasAll == DoneIsNear => \A p \in Part : HasChunk(<<run, p>>)

StoredInv == RowsOfRun /\ DoneHasChunk /\ ReuseHasChunk /\ NotDoneYet /\ DoneHasAll

(* Where a request that queues tasks deletes rows or chunks, and how it    *)
(* comes to have deleted one of them only.                                 *)
LEMMA TwoOrders ==
  /\ RowsGone \in QueueTodo /\ ChunksGone \in QueueTodo
  /\ Head(RowsGone) = "deleteChunks" /\ Head(ChunksGone) = "deleteRows"
  /\ \A s \in {ParseSteps, ChunksSteps, QueueTasks} : s \notin {RowsGone, ChunksGone}
  /\ ParseSteps # ChunksSteps /\ QueueTasks # ChunksSteps
  /\ \A s \in QueueTodo :
        /\ Head(s) = "deleteChunks" => s \in {RowsGone, ChunksSteps}
        /\ Head(s) = "deleteRows" => s \in {ParseSteps, ChunksGone}
        /\ Tail(s) = RowsGone => Head(s) = "deleteRows"
        /\ Tail(s) = ChunksGone => s = ChunksSteps
        /\ Tail(s) # ChunksSteps
<1>1. /\ ParseSteps \in Seq(QueueStep) /\ Len(ParseSteps) = 10
      /\ ChunksSteps \in Seq(QueueStep) /\ Len(ChunksSteps) = 10
      /\ QueueTasks \in Seq(QueueStep) /\ Len(QueueTasks) = 8
      /\ \A i \in 1..10 : ParseSteps[i] = "deleteChunks" => i = 2
      /\ \A i \in 1..10 : ChunksSteps[i] = "deleteChunks" => i = 1
      /\ \A i \in 1..10 : ParseSteps[i] = "deleteRows" => i = 1
      /\ \A i \in 1..10 : ChunksSteps[i] = "deleteRows" => i = 2
      /\ ParseSteps[1] = "deleteRows" /\ ParseSteps[2] = "deleteChunks"
      /\ ChunksSteps[1] = "deleteChunks" /\ ChunksSteps[2] = "deleteRows"
  BY DEF ParseSteps, ChunksSteps, QueueTasks, QueueStep
<1>2. ASSUME NEW q \in Seq(QueueStep), Len(q) = 10
      PROVE  /\ Tail(q) \in Seq(QueueStep) /\ Len(Tail(q)) = 9 /\ Head(Tail(q)) = q[2]
             /\ Tail(q) = SubSeq(q, 2, Len(q)) /\ 2 \in DOMAIN q
  <2>1. 1 \in DOMAIN q /\ 2 \in DOMAIN q /\ q = SubSeq(q, 1, Len(q)) /\ 1 + 1 = 2 /\ 1 # Len(q)
    BY <1>2, SubSeqFull
  <2>2. Tail(q) = SubSeq(q, 2, Len(q))
    BY <2>1, SuffixStep
  <2>3. Head(Tail(q)) = q[2]
    BY <2>1, <2>2, SuffixStep
  <2>4. Tail(q) \in Seq(QueueStep) /\ Len(Tail(q)) = 9
    BY <1>2
  <2>5. QED
    BY <2>1, <2>2, <2>3, <2>4
<1>3. /\ RowsGone \in Seq(QueueStep) /\ Len(RowsGone) = 9 /\ Head(RowsGone) = "deleteChunks"
      /\ ChunksGone \in Seq(QueueStep) /\ Len(ChunksGone) = 9 /\ Head(ChunksGone) = "deleteRows"
  BY <1>1, <1>2 DEF RowsGone, ChunksGone
<1>4. ASSUME NEW s \in QueueTodo
      PROVE  /\ s \in Seq(QueueStep) /\ s # <<>> /\ Len(s) \in 1..10
             /\ Len(s) = 10 => s \in {ParseSteps, ChunksSteps}
             /\ Head(s) = "deleteChunks" => s \in {RowsGone, ChunksSteps}
             /\ Head(s) = "deleteRows" => s \in {ParseSteps, ChunksGone}
  <2>1. PICK q \in {ParseSteps, ChunksSteps} : \E i \in DOMAIN q : s = SubSeq(q, i, Len(q))
    BY DEF QueueTodo, Suffixes
  <2>2. PICK i \in DOMAIN q : s = SubSeq(q, i, Len(q))
    BY <2>1
  <2>3. q \in Seq(QueueStep) /\ Len(q) = 10 /\ i \in 1..10
    BY <1>1, <2>1, <2>2
  <2>4. s \in Seq(QueueStep) /\ Len(s) = 11 - i
    <3>1. \A j \in i..10 : q[j] \in QueueStep
      <4>1. \A j \in 1..10 : q[j] \in QueueStep
        BY <2>3, ElementOfSeq
      <4>2. \A j \in i..10 : j \in 1..10
        BY <2>3
      <4>3. QED
        BY <4>1, <4>2
    <3>2. s = SubSeq(q, i, 10) /\ i \in 1..11
      BY <2>2, <2>3
    <3>3. /\ SubSeq(q, i, 10) \in Seq(QueueStep)
          /\ Len(SubSeq(q, i, 10)) = IF i <= 10 THEN 10 - i + 1 ELSE 0
      BY <2>3, <3>1, SubSeqProperties
    <3>4. QED
      BY <2>3, <3>2, <3>3
  <2>5. s # <<>> /\ Head(s) = q[i]
    BY <2>2, <2>3, SuffixStep
  <2>6. i = 1 => s = q
    BY <2>2, <2>3, SubSeqFull
  <2>7. i = 2 => s = Tail(q)
    BY <1>2, <2>2, <2>3
  <2>8. Head(s) = "deleteChunks" => s \in {RowsGone, ChunksSteps}
    <3>1. CASE q = ParseSteps
      BY <1>1, <2>3, <2>5, <2>7, <3>1 DEF RowsGone
    <3>2. CASE q = ChunksSteps
      BY <1>1, <2>3, <2>5, <2>6, <3>2
    <3>3. QED
      BY <2>1, <3>1, <3>2
  <2>9. Head(s) = "deleteRows" => s \in {ParseSteps, ChunksGone}
    <3>1. CASE q = ParseSteps
      BY <1>1, <2>3, <2>5, <2>6, <3>1
    <3>2. CASE q = ChunksSteps
      BY <1>1, <2>3, <2>5, <2>7, <3>2 DEF ChunksGone
    <3>3. QED
      BY <2>1, <3>1, <3>2
  <2>10. Len(s) \in 1..10 /\ (Len(s) = 10 => i = 1)
    BY <2>3, <2>4
  <2>11. QED
    BY <2>1, <2>4, <2>5, <2>6, <2>8, <2>9, <2>10
<1>5. RowsGone \in QueueTodo /\ ChunksGone \in QueueTodo
  <2>1. RowsGone \in Suffixes(ParseSteps)
    BY <1>1, <1>2 DEF RowsGone, Suffixes
  <2>2. ChunksGone \in Suffixes(ChunksSteps)
    BY <1>1, <1>2 DEF ChunksGone, Suffixes
  <2>3. QED
    BY <2>1, <2>2 DEF QueueTodo
<1>6. \A s \in {ParseSteps, ChunksSteps, QueueTasks} : s \notin {RowsGone, ChunksGone}
  <2>1. Len(ParseSteps) # 9 /\ Len(ChunksSteps) # 9 /\ Len(QueueTasks) # 9
    BY <1>1
  <2>2. QED
    BY <1>3, <2>1, Zenon
<1>7. ParseSteps # ChunksSteps /\ QueueTasks # ChunksSteps
  <2>1. ParseSteps[1] # ChunksSteps[1] /\ Len(QueueTasks) # Len(ChunksSteps)
    BY <1>1
  <2>2. QED
    BY <2>1
<1>8. ASSUME NEW s \in QueueTodo
      PROVE  /\ Tail(s) = RowsGone => Head(s) = "deleteRows"
             /\ Tail(s) = ChunksGone => s = ChunksSteps
             /\ Tail(s) # ChunksSteps
  <2>1. /\ s \in Seq(QueueStep) /\ s # <<>> /\ Len(s) \in 1..10
        /\ Len(s) = 10 => s \in {ParseSteps, ChunksSteps}
    BY <1>4
  <2>2. Len(Tail(s)) = Len(s) - 1
    BY <2>1
  <2>3. Len(Tail(s)) = 9 => s \in {ParseSteps, ChunksSteps}
    BY <2>1, <2>2
  <2>4. Len(Tail(s)) # 10
    <3>1. \A n \in 1..10 : n - 1 # 10
      OBVIOUS
    <3>2. QED
      BY <2>1, <2>2, <3>1, Zenon
  <2>5. Tail(s) # ChunksSteps
    BY <1>1, <2>4
  <2>6. Tail(s) \in {RowsGone, ChunksGone} => s \in {ParseSteps, ChunksSteps}
    BY <1>3, <2>3
  <2>7. Head(ParseSteps) = "deleteRows" /\ RowsGone # ChunksGone
    BY <1>1, <1>3
  <2>8. QED
    BY <2>5, <2>6, <2>7 DEF RowsGone, ChunksGone
<1>9. QED
  BY <1>3, <1>4, <1>5, <1>6, <1>7, <1>8

(* ... so no step of a request that stops it is ever taken.                *)
LEMMA NobodyStops ==
  ASSUME UnstoppedInv, NEW a \in Api, AbortRun(a) \/ CancelRows(a) \/ StopDoc(a)
  PROVE  FALSE
<1>1. PICK step \in {"abort", "cancelRows", "stopDoc", "cancelDoc"} : Do(a, step)
  BY DEF AbortRun, CancelRows, StopDoc
<1>2. todo[a] \in QueueTodo /\ Head(todo[a]) = step
  BY <1>1 DEF Do, UnstoppedInv
<1>3. QED
  BY <1>2, QueueTodoStep DEF QueueStep

(***************************************************************************)
(* Nobody stops the document, and the two deletions of a request are not   *)
(* torn apart so that rows are left without their chunks.                  *)
(***************************************************************************)
THEOREM UnstoppedInvAlways ==
  ASSUME Disjoint, Requests \cap {"stop", "cancel"} = {}, "chunks" \in Requests => ~ApiFails
  PROVE  Spec => []UnstoppedInv
<1>1. Init => UnstoppedInv
  BY TwoOrders, EmptyTodo, NewTodo DEF Init, UnstoppedInv
<1>2. /\ PipelineInv /\ RequestInv /\ SeparateInv /\ RowsAreOwed /\ UnstoppedInv
      /\ [Next]_vars
      => UnstoppedInv'
  <2> SUFFICES ASSUME PipelineInv, RequestInv, SeparateInv, RowsAreOwed, UnstoppedInv,
                      [Next]_vars
               PROVE  UnstoppedInv'
    OBVIOUS
  <2>0. /\ plan \in [Api -> [reuse : SUBSET Part, drop : SUBSET Task, found : BOOLEAN,
                             fresh : SUBSET Task]]
        /\ wpc \in [Worker -> Handling \cup {"idle", "received", "gate", "finalize",
                                             "leave", "purge", "report", "log", "logging",
                                             "ack"}]
        /\ TodoOK /\ todo \in [Api -> QueueTodo \cup {<<>>}]
    BY DEF PipelineInv, TypeOK, WorkTypeOK, ApiTypeOK, RequestInv, TodoOK, UnstoppedInv
  <2>1. \A a, b \in Api : todo[a] # <<>> /\ todo[b] # <<>> => a = b
    BY <2>0 DEF SeparateInv, Queues
  <2>2. ASSUME UNCHANGED <<cancelled, workVars, todo>>, rows' = rows \/ rows' = {}
        PROVE  UnstoppedInv'
    BY <2>2 DEF UnstoppedInv, workVars
  <2>3. ASSUME NEW a \in Api, UNCHANGED <<cancelled, workVars>>,
               todo' = [todo EXCEPT ![a] = Tail(@)], todo[a] # <<>>,
               rows' = rows \/ rows' = {},
               Head(todo[a]) = "deleteRows" => rows' = {},
               Head(todo[a]) # "publish"
        PROVE  UnstoppedInv'
    <3>1. /\ todo[a] \in QueueTodo /\ todo'[a] = Tail(todo[a]) /\ todo'[a] \in QueueTodo
          /\ \A b \in Api \ {a} : todo'[b] = todo[b]
      BY <2>0, <2>3, QueueTodoStep
    <3>2. /\ todo'[a] = RowsGone => rows' = {}
          /\ todo'[a] = ChunksGone => todo[a] = ChunksSteps
          /\ todo'[a] # ChunksSteps
      BY <2>3, <3>1, TwoOrders
    <3>3. QED
      BY <2>0, <2>3, <3>1, <3>2 DEF UnstoppedInv, workVars
  <2>4. ASSUME NEW a \in Api, UNCHANGED <<cancelled, workVars, rows>>,
               todo' = [todo EXCEPT ![a] = <<>>]
        PROVE  UnstoppedInv'
    <3>1. todo'[a] = <<>> /\ \A b \in Api \ {a} : todo'[b] = todo[b]
      BY <2>0, <2>4
    <3>2. <<>> \notin {RowsGone, ChunksSteps, ChunksGone}
      BY TwoOrders, NewTodo, EmptyTodo
    <3>3. QED
      BY <2>4, <3>1, <3>2 DEF UnstoppedInv, workVars
  <2>5. ASSUME NEW a \in Api, Arrive(a) PROVE UnstoppedInv'
    <3>1. /\ UNCHANGED <<cancelled, workVars, rows>>
          /\ \/ todo' = [todo EXCEPT ![a] = ParseSteps]
             \/ todo' = [todo EXCEPT ![a] = ChunksSteps] /\ "chunks" \in Requests
             \/ todo' = [todo EXCEPT ![a] = QueueTasks]
      BY <2>5 DEF Arrive, Parse, ParseChunks, Rerun, Stop, Cancel, Arrives, rowVars
    <3>2. /\ \A b \in Api \ {a} : todo'[b] = todo[b]
          /\ todo'[a] \in {ParseSteps, ChunksSteps, QueueTasks}
          /\ todo'[a] = ChunksSteps => ~ApiFails
      BY <2>0, <3>1, TwoOrders
    <3>3. QED
      BY <2>0, <3>1, <3>2, TwoOrders, NewTodo DEF UnstoppedInv, workVars
  <2>6. ASSUME NEW a \in Api,
               \/ DeleteRows(a) \/ DeleteChunks(a) \/ Plan(a) \/ DropRows(a) \/ DropPlanned(a)
               \/ SetChunkNum(a) \/ Begin(a) \/ SeedRun(a)
        PROVE  UnstoppedInv'
    <3>1. PICK step \in QueueStep \ {"insertRows", "publish"} : Do(a, step)
      BY <2>6 DEF DeleteRows, DeleteChunks, Plan, DropRows, DropPlanned, SetChunkNum, Begin,
         SeedRun, QueueStep
    <3>2. /\ UNCHANGED <<cancelled, workVars>> /\ (rows' = rows \/ rows' = {})
          /\ Head(todo[a]) = "deleteRows" => rows' = {}
      BY <2>6 DEF DeleteRows, DeleteChunks, Plan, DropRows, DropPlanned, SetChunkNum, Begin,
         SeedRun, NoRows, rowVars, Do
    <3>3. QED
      BY <2>3, <3>1, <3>2 DEF Do
  <2>7. ASSUME NEW a \in Api, AbortRun(a) \/ CancelRows(a) \/ StopDoc(a) PROVE FALSE
    BY <2>7, NobodyStops
  <2>8. ASSUME NEW a \in Api, InsertRows(a) PROVE UnstoppedInv'
    <3>1. /\ Do(a, "insertRows") /\ UNCHANGED <<cancelled, workVars>>
      BY <2>8 DEF InsertRows
    <3>2. /\ todo[a] # <<>> /\ todo'[a] = Tail(todo[a]) /\ Head(todo[a]) = "insertRows"
          /\ \A b \in Api \ {a} : todo'[b] = todo[b]
      BY <2>0, <3>1 DEF Do
    <3>3. todo'[a] \in QueueTodo /\ Head(todo'[a]) = "begin"
      BY <2>0, <3>2, QueueTodoStep DEF After
    <3>4. \A b \in Api \ {a} : todo'[b] = <<>>
      BY <2>1, <3>2
    <3>5. /\ todo'[a] \notin {RowsGone, ChunksGone, ChunksSteps}
          /\ <<>> \notin {RowsGone, ChunksGone, ChunksSteps}
      BY <3>3, TwoOrders, NewTodo, EmptyTodo
    <3>6. QED
      BY <2>0, <3>1, <3>3, <3>4, <3>5 DEF UnstoppedInv, workVars
  <2>9. ASSUME NEW a \in Api, Publish(a) \/ PublishFails(a) \/ RequestDies(a)
        PROVE  UnstoppedInv'
    <3>1. UNCHANGED <<cancelled, workVars, rows>>
      BY <2>9 DEF Publish, PublishFails, RequestDies, rowVars
    <3>2. todo' = todo \/ todo' = [todo EXCEPT ![a] = <<>>]
      BY <2>9 DEF Publish, PublishFails, RequestDies
    <3>3. QED
      BY <2>2, <2>4, <3>1, <3>2
  <2>10. ASSUME NEW w \in Worker, UNCHANGED <<cancelled, todo, rows>>,
                \A v \in Worker \ {w} : wpc'[v] = wpc[v],
                wpc'[w] \notin {"stop", "purge"}
         PROVE  UnstoppedInv'
    BY <2>10 DEF UnstoppedInv
  <2>11. ASSUME NEW w \in Worker,
                WorkerStep(w) \/ CreditFails(w) \/ Fail(w) \/ Drop(w) \/ Crash(w)
         PROVE  UnstoppedInv'
    <3>1. UNCHANGED <<todo, rows>>
      BY <2>11, ExecutorStep DEF apiVars
    <3>2. cancelled' = cancelled /\ cancelled = {} /\ wpc[w] # "purge"
      BY <2>11 DEF WorkerStep, Collect, Receive, Abandon, SeeCancel, Build, Insert, Index,
         Increment, Credit, Gate, Finalize, Finish, LeaveHandler, Purge, Report, LogRead,
         LogWrite, Ack, CreditFails, Fail, Drop, Crash, Proceeds, UnstoppedInv
    <3>3. CASE Collect(w) \/ Receive(w) \/ Abandon(w) \/ SeeCancel(w) \/ Build(w) \/ Insert(w)
               \/ Index(w) \/ Increment(w) \/ Credit(w) \/ Gate(w)
      <4>1. \A v \in Worker \ {w} : wpc'[v] = wpc[v]
        BY <2>0, <3>3 DEF Collect, Receive, Abandon, SeeCancel, Build, Insert, Index,
           Increment, Credit, Gate, Proceeds, Ask, Goto
      <4>2. wpc'[w] \notin {"stop", "purge"}
        BY <2>0, <3>2, <3>3 DEF Collect, Receive, Abandon, SeeCancel, Build, Insert, Index,
           Increment, Credit, Gate, Proceeds, Ask, Goto, UnstoppedInv
      <4>3. QED
        BY <2>10, <3>1, <3>2, <4>1, <4>2
    <3>4. CASE Finalize(w) \/ Finish(w) \/ LeaveHandler(w) \/ Report(w) \/ LogRead(w)
               \/ LogWrite(w) \/ Ack(w) \/ CreditFails(w) \/ Fail(w) \/ Drop(w) \/ Crash(w)
      <4>1. \A v \in Worker \ {w} : wpc'[v] = wpc[v]
        BY <2>0, <3>4 DEF Finalize, Finish, LeaveHandler, Report, LogRead, LogWrite, Ack,
           CreditFails, Fail, Drop, Crash, Ask, Goto
      <4>2. wpc'[w] \notin {"stop", "purge"}
        BY <2>0, <3>2, <3>4 DEF Finalize, Finish, LeaveHandler, Report, LogRead, LogWrite, Ack,
           CreditFails, Fail, Drop, Crash, Ask, Goto, AfterHandler
      <4>3. QED
        BY <2>10, <3>1, <3>2, <4>1, <4>2
    <3>5. CASE Purge(w)
      BY <3>2, <3>5 DEF Purge
    <3>6. QED
      BY <2>11, <3>3, <3>4, <3>5 DEF WorkerStep
  <2>12. CASE SyncSelect \/ SyncRead \/ SyncWrite
    BY <2>2, <2>12, SyncStep DEF rowVars, apiVars
  <2>13. CASE UNCHANGED vars
    BY <2>2, <2>13 DEF vars, rowVars, apiVars
  <2>14. QED
    BY <2>5, <2>6, <2>7, <2>8, <2>9, <2>11, <2>12, <2>13 DEF Next, RequestStep
<1>3. QED
  BY <1>1, <1>2, PipelineInvAlways, RequestInvAlways, SeparateInvAlways, RowsAreOwedAlways,
     PTL DEF Spec

(* What the progress thread or an executor derives from the rows is DONE   *)
(* only if all of them are, and every part has a row then.                 *)
LEMMA DerivedDone ==
  ASSUME PipelineInv, RowsOfRun, DoneHasChunk, \A a \in Api : todo[a] # ChunksGone,
         Derived.run = "DONE"
  PROVE  \A p \in Part : HasChunk(<<run, p>>)
<1>1. rows # {} /\ Unfinished = {} /\ Bad = {}
  BY DEF Derived, NoSync
<1>2. \A t \in rows : prog[t] = "done"
  BY <1>1 DEF Unfinished, Bad, PipelineInv, TypeOK, RowTypeOK
<1>3. \A p \in Part : <<run, p>> \in rows
  BY <1>1 DEF RowsOfRun
<1>4. QED
  BY <1>2, <1>3 DEF DoneHasChunk

(***************************************************************************)
(* A document is DONE, or about to be, only if every page range of its     *)
(* last request has its chunk in the store: also when parts are reused,    *)
(* tasks fail, executors crash and requests die.                           *)
(***************************************************************************)
THEOREM StoredInvAlways ==
  ASSUME Disjoint, Requests \cap {"stop", "cancel"} = {}, "chunks" \in Requests => ~ApiFails
  PROVE  Spec => []StoredInv
<1>1. Init => StoredInv
  <2> SUFFICES ASSUME Init PROVE StoredInv
    OBVIOUS
  <2>1. rows = {} /\ (\A t \in Task : prog[t] = "queued") /\ docRun = "UNSTART"
    BY DEF Init
  <2>2. \A w \in Worker : wpc[w] = "idle"
    BY DEF Init
  <2>3. \A x \in Syncer : sync[x].run = "none"
    BY DEF Init, NoSync
  <2>4. \A a \in Api : At(a) = "end"
    BY DEF Init, At
  <2>5. QED
    BY <2>1, <2>2, <2>3, <2>4 DEF StoredInv, RowsOfRun, DoneHasChunk, ReuseHasChunk, NotDoneYet,
       DoneHasAll, DoneIsNear, Preparing, Past, Planned
<1>2. /\ PipelineInv /\ RequestInv /\ SeparateInv /\ RowsAreOwed /\ UnstoppedInv /\ StoredInv
      /\ [Next]_vars
      => StoredInv'
  <2> SUFFICES ASSUME PipelineInv, RequestInv, SeparateInv, RowsAreOwed, UnstoppedInv, StoredInv,
                      [Next]_vars
               PROVE  StoredInv'
    OBVIOUS
  <2>0. /\ plan \in [Api -> [reuse : SUBSET Part, drop : SUBSET Task, found : BOOLEAN,
                             fresh : SUBSET Task]]
        /\ wpc \in [Worker -> Handling \cup {"idle", "received", "gate", "finalize",
                                             "leave", "purge", "report", "log", "logging",
                                             "ack"}]
        /\ wtask \in [Worker -> Task \cup {NoTask}]
        /\ \A w \in Worker : wpc[w] # "idle" => wtask[w] \in Task
        /\ prog \in [Task -> {"queued", "going", "done", "failed"}]
        /\ rows \subseteq Task /\ ids \subseteq Task
        /\ sync \in [Syncer -> SyncResult \cup {NoSync, Selected}]
        /\ TodoOK /\ todo \in [Api -> QueueTodo \cup {<<>>}]
    BY DEF PipelineInv, TypeOK, RowTypeOK, WorkTypeOK, ApiTypeOK, SyncTypeOK, RequestInv,
       TodoOK,
       UnstoppedInv, HandledIsUnacked
  <2>1. \A a, b \in Api : todo[a] # <<>> /\ todo[b] # <<>> => a = b
    BY <2>0 DEF SeparateInv, Queues
  <2>2. /\ Preparing => /\ Quiet
                        /\ \A w \in Worker : wpc[w] = "idle" /\ sync[w] = NoSync
        /\ ~Preparing => \A a \in Api : todo[a] # ChunksGone
    <3>1. ASSUME NEW a \in Api, At(a) \in {"deleteRows", "deleteChunks", "plan"} \cup Planned
          PROVE  Quiet
      <4>1. At(a) # "end" /\ At(a) # "publish"
        BY <3>1 DEF Planned
      <4>2. Queues(a)
        BY <2>0, <4>1 DEF At, Queues
      <4>3. QED
        BY <4>1, <4>2 DEF SeparateInv
    <3>2. Preparing => Quiet
      BY <3>1 DEF Preparing
    <3>3. Quiet => \A w \in Worker : wpc[w] = "idle" /\ sync[w] = NoSync
      BY DEF Quiet, PipelineInv, HandledIsUnacked
    <3>4. ASSUME NEW a \in Api, todo[a] = ChunksGone PROVE Preparing
      <4>1. At(a) = "deleteRows"
        BY <3>4, TwoOrders, EmptyTodo DEF At
      <4>2. QED
        BY <4>1 DEF Preparing
    <3>5. QED
      BY <3>2, <3>3, <3>4
  <2>3. ASSUME NEW a \in Api, NEW step \in {"deleteRows", "deleteChunks", "plan"} \cup Planned,
               Do(a, step)
        PROVE  /\ Preparing /\ At(a) = step /\ At(a)' \in After(step)
               /\ todo[a] \in QueueTodo /\ Head(todo[a]) = step /\ todo'[a] = Tail(todo[a])
               /\ \A b \in Api \ {a} : /\ At(b) = "end" /\ At(b)' = "end"
                                       /\ todo[b] # ChunksGone /\ todo'[b] # ChunksGone
    <3>1. todo[a] # <<>> /\ Head(todo[a]) = step /\ todo' = [todo EXCEPT ![a] = Tail(@)]
      BY <2>3 DEF Do
    <3>2. todo[a] \in QueueTodo /\ Queues(a) /\ step # "publish"
      BY <2>0, <3>1 DEF Queues, Planned
    <3>3. \A b \in Api \ {a} : todo[b] = <<>> /\ todo'[b] = <<>>
      BY <2>0, <2>1, <3>1
    <3>4. At(a) = step /\ At(a)' \in After(step)
      BY <2>0, <2>3, <3>2, DoStep
    <3>5. Preparing
      BY <3>4 DEF Preparing
    <3>6. <<>> # ChunksGone
      BY TwoOrders, EmptyTodo
    <3>7. QED
      BY <2>0, <3>1, <3>2, <3>3, <3>4, <3>5, <3>6 DEF At
  <2>4. ASSUME NEW a \in Api, NEW step \in {"deleteRows", "deleteChunks", "plan"} \cup Planned,
               Do(a, step), step # "insertRows",
               UNCHANGED <<docRun, docProg, sync, workVars>>,
               RowsOfRun',
               \A t \in rows' : prog'[t] = "done" => HasChunk(t)' \/ todo'[a] = ChunksGone,
               At(a)' \in Planned =>
                  \A p \in plan'[a].reuse :
                     SameConfig /\ HasChunk(<<1, p>>)' /\ <<1, p>> \notin plan'[a].drop,
               rows' = {} \/ UNCHANGED <<rows, prog>>
        PROVE  StoredInv'
    <3>1. /\ Preparing /\ \A b \in Api \ {a} : At(b)' = "end"
          /\ \A w \in Worker : wpc[w] = "idle"
      BY <2>2, <2>3, <2>4
    <3>2. DoneHasChunk'
      BY <2>4, <3>1 DEF DoneHasChunk, workVars, Past
    <3>3. ReuseHasChunk'
      BY <2>4, <3>1 DEF ReuseHasChunk, Planned
    <3>4. ~DoneIsNear'
      BY <2>4, <3>1 DEF StoredInv, NotDoneYet, DoneIsNear
    <3>5. rows' # {} /\ Unfinished' = {} =>
             docRun' = "RUNNING" /\ docProg' = "zero" /\ sync'[Server] = NoSync
      BY <2>4, <3>1 DEF StoredInv, NotDoneYet, Unfinished
    <3>6. QED
      BY <2>4, <3>2, <3>3, <3>4, <3>5 DEF StoredInv, NotDoneYet, DoneHasAll
  <2>5. ASSUME NEW a \in Api, DeleteRows(a) \/ DropRows(a) PROVE StoredInv'
    <3>1. PICK step \in {"deleteRows", "dropRows"} : Do(a, step)
      BY <2>5 DEF DeleteRows, DropRows
    <3>2. UNCHANGED <<docRun, docProg, sync, workVars, plan, store, run>>
      BY <2>5 DEF DeleteRows, DropRows, docVars
    <3>3. At(a) = step /\ At(a)' \in After(step)
      BY <2>3, <3>1 DEF Planned
    <3>4. rows' = {} /\ \A t \in Task : prog'[t] = "queued"
      <4>1. CASE DeleteRows(a)
        BY <4>1 DEF DeleteRows, NoRows
      <4>2. CASE DropRows(a) /\ plan[a].found
        BY <4>2 DEF DropRows, NoRows
      <4>3. CASE DropRows(a) /\ ~plan[a].found
        <5>1. At(a) = "dropRows"
          BY <2>3, <4>3 DEF DropRows, Planned
        <5>2. rows = {}
          BY <4>3, <5>1 DEF RowsAreOwed
        <5>3. QED
          BY <4>3, <5>2 DEF DropRows, rowVars, StoredInv, RowsOfRun
      <4>4. QED
        BY <2>5, <4>1, <4>2, <4>3
    <3>5. At(a)' \in Planned => At(a) \in Planned
      BY <3>3 DEF After, Planned
    <3>6. At(a)' \in Planned =>
             \A p \in plan'[a].reuse :
                SameConfig /\ HasChunk(<<1, p>>)' /\ <<1, p>> \notin plan'[a].drop
      BY <3>2, <3>5 DEF StoredInv, ReuseHasChunk, HasChunk
    <3>7. RowsOfRun'
      BY <3>4 DEF RowsOfRun
    <3>8. QED
      BY <2>4, <3>1, <3>2, <3>4, <3>6, <3>7 DEF Planned
  <2>6. ASSUME NEW a \in Api, DeleteChunks(a) PROVE StoredInv'
    <3>1. /\ Do(a, "deleteChunks")
          /\ UNCHANGED <<docRun, docProg, sync, workVars, rows, prog, run>>
      BY <2>6 DEF DeleteChunks, docVars, rowVars
    <3>2. /\ todo[a] \in QueueTodo /\ Head(todo[a]) = "deleteChunks" /\ todo'[a] = Tail(todo[a])
          /\ At(a)' \in After("deleteChunks")
      BY <2>3, <3>1
    <3>3. todo[a] = RowsGone \/ todo[a] = ChunksSteps
      BY <3>2, TwoOrders
    <3>4. rows = {} \/ todo'[a] = ChunksGone
      BY <3>2, <3>3 DEF UnstoppedInv, ChunksGone
    <3>5. At(a)' \notin Planned
      BY <3>2 DEF After, Planned
    <3>6. RowsOfRun'
      BY <3>1 DEF StoredInv, RowsOfRun
    <3>7. QED
      BY <2>4, <3>1, <3>4, <3>5, <3>6
  <2>7. ASSUME NEW a \in Api, Plan(a) PROVE StoredInv'
    <3>1. /\ Do(a, "plan")
          /\ UNCHANGED <<docRun, docProg, sync, workVars, rows, ids, prog, run, store>>
      BY <2>7 DEF Plan, docVars, rowVars
    <3>2. /\ Head(todo[a]) = "plan" /\ \A b \in Api \ {a} : todo[b] # ChunksGone
      BY <2>3, <3>1
    <3>3. \A b \in Api : todo[b] # ChunksGone
      BY <3>2, TwoOrders
    <3>4. \A t \in rows : prog[t] = "done" => HasChunk(t)
      BY <3>3 DEF StoredInv, DoneHasChunk
    <3>5. /\ plan'[a].reuse = {p \in Part : Reusable(p)}
          /\ plan'[a].drop =
               {ChunkOf(t) : t \in {u \in rows \cap ids :
                                    PartOf(u) \notin {p \in Part : Reusable(p)}}}
      BY <2>0, <2>7 DEF Plan
    <3>6. ASSUME NEW p \in plan'[a].reuse
          PROVE  SameConfig /\ HasChunk(<<1, p>>)' /\ <<1, p>> \notin plan'[a].drop
      <4>1. Reusable(p) /\ SameConfig
        BY <3>5, <3>6 DEF Reusable
      <4>2. PICK t \in rows : PartOf(t) = p /\ prog[t] = "done"
        BY <4>1 DEF Reusable
      <4>3. HasChunk(<<1, p>>)'
        BY <3>1, <3>4, <4>1, <4>2 DEF HasChunk, ChunkOf, PartOf
      <4>4. \A u : PartOf(u) # p => ChunkOf(u) # <<1, p>>
        BY <4>1 DEF ChunkOf
      <4>5. <<1, p>> \notin plan'[a].drop
        BY <3>5, <4>1, <4>4, <3>6
      <4>6. QED
        BY <4>1, <4>3, <4>5
    <3>7. RowsOfRun'
      BY <3>1 DEF StoredInv, RowsOfRun
    <3>8. \A t \in rows' : prog'[t] = "done" => HasChunk(t)'
      BY <3>1, <3>4 DEF HasChunk
    <3>9. QED
      BY <2>4, <3>1, <3>6, <3>7, <3>8
  <2>8. ASSUME NEW a \in Api, DropPlanned(a) \/ SetChunkNum(a) PROVE StoredInv'
    <3>1. PICK step \in {"dropPlanned", "setChunkNum"} : Do(a, step)
      BY <2>8 DEF DropPlanned, SetChunkNum
    <3>2. /\ UNCHANGED <<docRun, docProg, sync, workVars, rows, prog, run, plan>>
          /\ store \ plan[a].drop \subseteq store'
      BY <2>8 DEF DropPlanned, SetChunkNum, docVars, rowVars
    <3>3. At(a) \in {"dropPlanned", "setChunkNum"}
      BY <2>3, <3>1 DEF Planned
    <3>4. rows' = {}
      BY <3>2, <3>3 DEF RowsAreOwed
    <3>5. \A p \in plan'[a].reuse :
             SameConfig /\ HasChunk(<<1, p>>)' /\ <<1, p>> \notin plan'[a].drop
      <4>1. TAKE p \in plan'[a].reuse
      <4>2. SameConfig /\ HasChunk(<<1, p>>) /\ <<1, p>> \notin plan[a].drop
        BY <3>2, <3>3, <4>1 DEF StoredInv, ReuseHasChunk, Planned
      <4>3. ChunkOf(<<1, p>>) = <<1, p>>
        BY DEF ChunkOf, PartOf
      <4>4. QED
        BY <3>2, <4>2, <4>3 DEF HasChunk
    <3>6. RowsOfRun'
      BY <3>2 DEF StoredInv, RowsOfRun
    <3>7. QED
      BY <2>4, <3>1, <3>2, <3>4, <3>5, <3>6 DEF Planned
  <2>9. ASSUME NEW a \in Api, InsertRows(a) PROVE StoredInv'
    <3>1. /\ Do(a, "insertRows") /\ run' = run + 1
          /\ rows' = rows \cup ({run + 1} \X Part)
          /\ prog' = [t \in Task |-> IF t \in {run + 1} \X plan[a].reuse THEN "done" ELSE prog[t]]
          /\ UNCHANGED <<docRun, docProg, sync, workVars, store>>
      BY <2>9 DEF InsertRows, docVars
    <3>2. /\ Preparing /\ At(a) = "insertRows" /\ At(a)' = "begin"
          /\ \A b \in Api \ {a} : At(b)' = "end"
      BY <2>3, <3>1 DEF After, Planned
    <3>3. rows = {} /\ rows' = {run'} \X Part
      BY <3>1, <3>2 DEF RowsAreOwed
    <3>4. \A t \in Task : prog[t] = "queued"
      BY <3>3 DEF StoredInv, RowsOfRun
    <3>5. plan[a].reuse \subseteq Part
      BY <2>0
    <3>6. RowsOfRun'
      BY <3>1, <3>3, <3>4, <3>5 DEF RowsOfRun
    <3>7. ASSUME NEW t \in rows', prog'[t] = "done" PROVE HasChunk(t)'
      <4>1. t \in {run + 1} \X Part
        BY <3>1, <3>3
      <4>2. t \in Task
        BY <2>9, <4>1, ChunkingAssumption DEF InsertRows, Run, PipelineInv, TypeOK, ApiTypeOK
      <4>3. t \in {run + 1} \X plan[a].reuse
        BY <3>1, <3>4, <3>7, <4>2
      <4>4. PICK p \in plan[a].reuse : t = <<run + 1, p>>
        BY <4>3
      <4>5. SameConfig /\ HasChunk(<<1, p>>)
        BY <3>2 DEF StoredInv, ReuseHasChunk, Planned
      <4>6. QED
        BY <3>1, <4>4, <4>5 DEF HasChunk, ChunkOf, PartOf
    <3>8. DoneHasChunk'
      BY <2>2, <3>1, <3>2, <3>7 DEF DoneHasChunk, workVars, Past
    <3>9. ~Preparing' /\ ReuseHasChunk'
      BY <3>2 DEF Preparing, ReuseHasChunk, Planned
    <3>10. ~DoneIsNear'
      BY <3>1, <3>2 DEF StoredInv, NotDoneYet, DoneIsNear
    <3>11. NotDoneYet' /\ DoneHasAll'
      BY <3>9, <3>10 DEF NotDoneYet, DoneHasAll
    <3>12. QED
      BY <3>6, <3>8, <3>9, <3>11 DEF StoredInv
  <2>10. ASSUME NEW a \in Api, Arrive(a) PROVE StoredInv'
    <3>1. /\ MayQueue /\ docRun' = "RUNNING" /\ docProg' = "zero"
          /\ UNCHANGED <<rows, prog, run, plan, workVars, store, sync>>
          /\ \/ todo' = [todo EXCEPT ![a] = ParseSteps]
             \/ todo' = [todo EXCEPT ![a] = ChunksSteps]
             \/ todo' = [todo EXCEPT ![a] = QueueTasks]
      BY <2>10 DEF Arrive, Parse, ParseChunks, Rerun, Stop, Cancel, Arrives, rowVars
    <3>2. Quiet /\ sync[Server] = NoSync /\ \A b \in Api : todo[b] = <<>>
      BY <3>1 DEF MayQueue, AtRest
    <3>3. \A w \in Worker : wpc[w] = "idle" /\ sync[w] = NoSync
      BY <3>2 DEF Quiet, PipelineInv, HandledIsUnacked
    <3>4. \A b \in Api : todo[b] # ChunksGone /\ At(b)' \notin Planned
      <4>1. \A b \in Api \ {a} : At(b)' = "end"
        BY <2>10, <2>0, <3>2, ArriveStep DEF At
      <4>2. At(a)' \in {"deleteRows", "deleteChunks", "plan", "abort"}
        BY <2>10, <2>0, ArriveStep
      <4>3. QED
        BY <3>2, <4>1, <4>2, TwoOrders, EmptyTodo DEF Planned
    <3>5. RowsOfRun'
      BY <3>1 DEF StoredInv, RowsOfRun
    <3>6. DoneHasChunk'
      BY <3>1, <3>3, <3>4 DEF StoredInv, DoneHasChunk, HasChunk, Past, workVars
    <3>7. ReuseHasChunk'
      BY <3>4 DEF ReuseHasChunk
    <3>8. ~DoneIsNear'
      BY <3>1, <3>2, <3>3 DEF DoneIsNear, Syncer, NoSync
    <3>9. NotDoneYet' /\ DoneHasAll'
      BY <3>1, <3>2, <3>8 DEF NotDoneYet, DoneHasAll
    <3>10. QED
      BY <3>5, <3>6, <3>7, <3>9 DEF StoredInv
  <2>11. ASSUME NEW a \in Api,
                Begin(a) \/ SeedRun(a) \/ Publish(a) \/ PublishFails(a) \/ RequestDies(a)
         PROVE  StoredInv'
    <3>1. /\ UNCHANGED <<rows, prog, run, store, workVars, sync>>
          /\ docRun' \in {docRun, "RUNNING"} /\ todo[a] # <<>>
      BY <2>11 DEF Begin, SeedRun, Publish, PublishFails, RequestDies, rowVars, docVars, Do
    <3>2. \A b \in Api \ {a} : todo[b] = <<>>
      BY <2>1, <3>1
    <3>3. /\ \A b \in Api : At(b)' \in {"end", "seed", "publish"}
          /\ \A b \in Api : todo[b] # ChunksGone
      <4>1. CASE PublishFails(a) \/ RequestDies(a)
        <5>1. ApiFails /\ todo' = [todo EXCEPT ![a] = <<>>]
          BY <4>1 DEF PublishFails, RequestDies
        <5>2. \A b \in Api : todo'[b] = <<>>
          BY <2>0, <3>2, <5>1
        <5>3. QED
          BY <5>1, <5>2 DEF At, UnstoppedInv
      <4>2. CASE Begin(a) \/ SeedRun(a)
        <5>1. PICK step \in {"begin", "seed"} : Do(a, step)
          BY <4>2 DEF Begin, SeedRun
        <5>2. Queues(a)
          BY <2>0, <3>1 DEF Queues
        <5>3. /\ At(a)' \in After(step) /\ Head(todo[a]) = step
              /\ \A b \in Api \ {a} : todo'[b] = todo[b]
          BY <2>0, <5>1, <5>2, DoStep DEF Do
        <5>4. At(a)' \in {"seed", "publish"}
          BY <5>3 DEF After
        <5>5. QED
          BY <3>2, <5>3, <5>4, TwoOrders, EmptyTodo DEF At
      <4>3. CASE Publish(a)
        <5>1. /\ Head(todo[a]) = "publish" /\ \A b \in Api \ {a} : todo'[b] = todo[b]
              /\ todo'[a] \in {todo[a], <<>>}
          BY <2>0, <4>3 DEF Publish
        <5>2. QED
          BY <3>1, <3>2, <5>1, TwoOrders, EmptyTodo DEF At
      <4>4. QED
        BY <2>11, <4>1, <4>2, <4>3
    <3>4. RowsOfRun'
      BY <3>1 DEF StoredInv, RowsOfRun
    <3>5. DoneHasChunk'
      BY <3>1, <3>3 DEF StoredInv, DoneHasChunk, HasChunk, workVars
    <3>6. ReuseHasChunk' /\ ~Preparing'
      BY <3>3 DEF ReuseHasChunk, Preparing, Planned
    <3>7. DoneIsNear' => DoneIsNear
      BY <3>1 DEF DoneIsNear
    <3>8. NotDoneYet' /\ DoneHasAll'
      BY <3>1, <3>6, <3>7 DEF StoredInv, NotDoneYet, DoneHasAll, HasChunk
    <3>9. QED
      BY <3>4, <3>5, <3>6, <3>8 DEF StoredInv
  <2>12. ASSUME NEW w \in Worker,
                WorkerStep(w) \/ CreditFails(w) \/ Fail(w) \/ Drop(w) \/ Crash(w)
         PROVE  /\ UNCHANGED <<todo, plan, run, rows>> /\ ~Preparing
                /\ \A a \in Api : todo[a] # ChunksGone
                /\ wtask[w] \notin cancelled /\ wpc[w] # "purge"
    <3>1. UNCHANGED <<todo, plan, run, rows>> /\ ~Quiet
      BY <2>12, ExecutorStep DEF apiVars
    <3>2. QED
      BY <2>2, <3>1 DEF UnstoppedInv
  <2>13. ASSUME NEW w \in Worker,
                WorkerStep(w) \/ CreditFails(w) \/ Fail(w) \/ Drop(w) \/ Crash(w),
                store \subseteq store',
                \A t \in Task \ rows : prog'[t] = prog[t],
                \A t \in rows : prog'[t] = "done" => prog[t] = "done" \/ HasChunk(t),
                \A v \in Worker \ {w} : wpc'[v] = wpc[v] /\ wtask'[v] = wtask[v],
                wpc'[w] \in Past => HasChunk(wtask[w])' /\ wtask'[w] = wtask[w],
                DoneIsNear' => DoneIsNear \/ \A p \in Part : HasChunk(<<run, p>>)
         PROVE  StoredInv'
    <3>1. /\ UNCHANGED <<todo, plan, run, rows>> /\ ~Preparing
          /\ \A a \in Api : todo[a] # ChunksGone
      BY <2>12, <2>13
    <3>2. \A t \in Task : HasChunk(t) => HasChunk(t)'
      BY <2>13 DEF HasChunk
    <3>3. RowsOfRun'
      BY <2>13, <3>1 DEF StoredInv, RowsOfRun
    <3>4. \A t \in rows : prog[t] = "done" => HasChunk(t)
      BY <3>1 DEF StoredInv, DoneHasChunk
    <3>5. \A t \in rows' : prog'[t] = "done" => HasChunk(t)'
      BY <2>0, <2>13, <3>1, <3>2, <3>4
    <3>6. ASSUME NEW v \in Worker, wpc'[v] \in Past PROVE HasChunk(wtask[v])'
      <4>1. CASE v = w
        BY <2>13, <3>6, <4>1
      <4>2. CASE v # w
        <5>1. wpc[v] \in Past /\ wtask'[v] = wtask[v] /\ wpc[v] # "idle"
          BY <2>13, <3>6, <4>2 DEF Past
        <5>2. HasChunk(wtask[v]) /\ wtask[v] \in Task
          BY <2>0, <5>1 DEF StoredInv, DoneHasChunk
        <5>3. QED
          BY <2>13, <5>1, <5>2 DEF HasChunk
      <4>3. QED
        BY <4>1, <4>2
    <3>7. DoneHasChunk'
      BY <3>5, <3>6 DEF DoneHasChunk
    <3>8. ~Preparing' /\ ReuseHasChunk'
      BY <3>1 DEF Preparing, ReuseHasChunk, At
    <3>9. DoneHasAll'
      BY <2>13, <3>1 DEF StoredInv, DoneHasAll, HasChunk
    <3>10. NotDoneYet'
      BY <3>8 DEF NotDoneYet
    <3>11. QED
      BY <3>3, <3>7, <3>8, <3>9, <3>10 DEF StoredInv
  <2>14. ASSUME NEW w \in Worker,
                \/ Collect(w) \/ Receive(w) \/ Abandon(w) \/ SeeCancel(w) \/ Build(w)
                \/ Insert(w) \/ Index(w) \/ Increment(w) \/ Credit(w) \/ Gate(w)
         PROVE  StoredInv'
    <3>1. /\ WorkerStep(w) /\ wtask[w] \notin cancelled
          /\ wpc[w] # "idle" => wtask[w] \in Task
      BY <2>0, <2>12, <2>14 DEF WorkerStep
    <3>2. store \subseteq store' /\ sync' = sync /\ docRun' \in {docRun, "FAIL"}
      BY <2>14 DEF Collect, Receive, Abandon, SeeCancel, Build, Insert, Index, Increment,
         Credit, Gate, Proceeds, FailTask, ReportFailure, docVars
    <3>3. /\ \A t \in Task \ rows : prog'[t] = prog[t]
          /\ \A t \in rows : prog'[t] = "done" => prog[t] = "done"
      <4>1. \/ prog' = prog
            \/ wtask[w] \in rows /\ prog' = [prog EXCEPT ![wtask[w]] = "going"]
            \/ wtask[w] \in rows /\ prog' = [prog EXCEPT ![wtask[w]] = "failed"]
        BY <2>14 DEF Collect, Receive, Abandon, SeeCancel, Build, Insert, Index, Increment,
           Credit, Gate, Proceeds, FailTask, ReportFailure, rowVars
      <4>2. QED
        BY <2>0, <4>1
    <3>4. \A v \in Worker \ {w} : wpc'[v] = wpc[v] /\ wtask'[v] = wtask[v]
      BY <2>0, <2>14 DEF Collect, Receive, Abandon, SeeCancel, Build, Insert, Index,
         Increment, Credit, Gate, Proceeds, Ask, Goto
    <3>5. ASSUME wpc'[w] \in Past PROVE HasChunk(wtask[w])' /\ wtask'[w] = wtask[w]
      <4>1. CASE Collect(w) \/ Receive(w) \/ Abandon(w) \/ SeeCancel(w)
        BY <2>0, <3>5, <4>1 DEF Collect, Receive, Abandon, SeeCancel, Goto, Past
      <4>2. CASE Build(w)
        <5>1. wtask' = wtask /\ wpc'[w] = IF PartOf(wtask[w]) \in Blank THEN "credit" ELSE "insert"
          BY <2>0, <3>1, <4>2 DEF Build, Proceeds, Ask, Goto
        <5>2. QED
          BY <3>5, <5>1 DEF Past, HasChunk
      <4>3. CASE Insert(w)
        BY <4>3 DEF Insert, Proceeds, HasChunk
      <4>4. CASE Index(w) \/ Increment(w) \/ Credit(w) \/ Gate(w)
        <5>1. wpc[w] \in Past /\ UNCHANGED <<wtask, store>>
          BY <4>4 DEF Index, Increment, Credit, Gate, Proceeds, Past
        <5>2. QED
          BY <5>1 DEF StoredInv, DoneHasChunk, HasChunk
      <4>5. QED
        BY <2>14, <4>1, <4>2, <4>3, <4>4
    <3>6. DoneIsNear' => DoneIsNear
      BY <3>2 DEF DoneIsNear
    <3>7. QED
      BY <2>13, <3>1, <3>2, <3>3, <3>4, <3>5, <3>6
  <2>15. ASSUME NEW w \in Worker,
                \/ Finalize(w) \/ Finish(w) \/ LeaveHandler(w) \/ Report(w) \/ Ack(w)
                \/ CreditFails(w) \/ Fail(w) \/ Drop(w) \/ Crash(w)
         PROVE  StoredInv'
    <3>1. /\ WorkerStep(w) \/ CreditFails(w) \/ Fail(w) \/ Drop(w) \/ Crash(w)
          /\ wtask[w] \notin cancelled
      BY <2>12, <2>15 DEF WorkerStep
    <3>2. /\ store \subseteq store' /\ docRun' \in {docRun, "FAIL"}
          /\ sync' = sync \/ sync' = [sync EXCEPT ![w] = NoSync]
      BY <2>15 DEF Finalize, Finish, LeaveHandler, Report, Ack, CreditFails, Fail, Drop, Crash,
         FailTask, ReportFailure, docVars
    <3>3. /\ \A t \in Task \ rows : prog'[t] = prog[t]
          /\ \A t \in rows : prog'[t] = "done" => prog[t] = "done" \/ HasChunk(t)
      <4>1. CASE Finish(w)
        <5>1. HasChunk(wtask[w])
          BY <4>1 DEF Finish, Past, StoredInv, DoneHasChunk
        <5>2. \/ prog' = prog
              \/ wtask[w] \in rows /\ prog' = [prog EXCEPT ![wtask[w]] = "done"]
          BY <4>1 DEF Finish
        <5>3. QED
          BY <2>0, <5>1, <5>2
      <4>2. CASE ~Finish(w)
        <5>1. \/ prog' = prog
              \/ wtask[w] \in rows /\ prog' = [prog EXCEPT ![wtask[w]] = "failed"]
          BY <2>15, <4>2 DEF Finalize, LeaveHandler, Report, Ack, CreditFails, Fail, Drop,
             Crash, FailTask, ReportFailure, rowVars
        <5>2. QED
          BY <2>0, <5>1
      <4>3. QED
        BY <4>1, <4>2
    <3>4. \A v \in Worker \ {w} : wpc'[v] = wpc[v] /\ wtask'[v] = wtask[v]
      BY <2>0, <2>15 DEF Finalize, Finish, LeaveHandler, Report, Ack, CreditFails, Fail, Drop,
         Crash, Ask, Goto
    <3>5. ASSUME wpc'[w] \in Past PROVE HasChunk(wtask[w])' /\ wtask'[w] = wtask[w]
      <4>1. CASE CreditFails(w) \/ Finalize(w)
        <5>1. wpc[w] \in Past /\ UNCHANGED <<wtask, store>>
          BY <4>1 DEF CreditFails, Finalize, Past
        <5>2. QED
          BY <5>1 DEF StoredInv, DoneHasChunk, HasChunk
      <4>2. CASE \/ Finish(w) \/ LeaveHandler(w) \/ Report(w) \/ Ack(w)
                 \/ Fail(w) \/ Drop(w) \/ Crash(w)
        BY <2>0, <3>5, <4>2 DEF Finish, LeaveHandler, Report, Ack, Fail, Drop, Crash, Goto,
           AfterHandler, Past
      <4>3. QED
        BY <2>15, <4>1, <4>2
    <3>6. DoneIsNear' => DoneIsNear
      BY <2>0, <3>2 DEF DoneIsNear, NoSync
    <3>7. QED
      BY <2>13, <3>1, <3>2, <3>3, <3>4, <3>5, <3>6
  <2>16. ASSUME NEW w \in Worker, LogRead(w) \/ LogWrite(w) PROVE StoredInv'
    <3>1. /\ WorkerStep(w) /\ \A a \in Api : todo[a] # ChunksGone
      BY <2>12, <2>16 DEF WorkerStep
    <3>2. /\ UNCHANGED <<store, prog, wtask>> /\ wpc' = [wpc EXCEPT ![w] = wpc'[w]]
          /\ wpc'[w] \notin Past
      BY <2>0, <2>16 DEF LogRead, LogWrite, Goto, rowVars, Past
    <3>3. DoneIsNear' => DoneIsNear \/ \A p \in Part : HasChunk(<<run, p>>)
      <4>1. CASE LogRead(w)
        <5>1. docRun' = docRun /\ sync' = [sync EXCEPT ![w] = Derived]
          BY <4>1 DEF LogRead, docVars
        <5>2. DoneIsNear' => DoneIsNear \/ Derived.run = "DONE"
          BY <2>0, <5>1 DEF DoneIsNear
        <5>3. QED
          BY <3>1, <5>2, DerivedDone DEF StoredInv
      <4>2. CASE LogWrite(w)
        <5>1. /\ docRun' \in {docRun, sync[w].run}
              /\ sync' = [sync EXCEPT ![w] = NoSync] /\ w \in Syncer
          BY <4>2 DEF LogWrite, WriteDerived, Syncer
        <5>2. QED
          BY <2>0, <5>1 DEF DoneIsNear, NoSync
      <4>3. QED
        BY <2>16, <4>1, <4>2
    <3>4. QED
      BY <2>0, <2>13, <3>1, <3>2, <3>3
  <2>17. ASSUME UNCHANGED <<rows, prog, run, store, workVars, todo, plan>>,
                DoneIsNear' =>
                   DoneIsNear \/ (~Preparing /\ \A p \in Part : HasChunk(<<run, p>>)),
                Preparing /\ rows # {} /\ Unfinished = {} =>
                   docRun' = "RUNNING" /\ docProg' = "zero" /\ sync'[Server] = NoSync
         PROVE  StoredInv'
    <3>1. RowsOfRun' /\ DoneHasChunk'
      BY <2>17 DEF StoredInv, RowsOfRun, DoneHasChunk, HasChunk, workVars
    <3>2. ReuseHasChunk' /\ (Preparing' <=> Preparing)
      BY <2>17 DEF StoredInv, ReuseHasChunk, HasChunk, Preparing, At
    <3>3. NotDoneYet'
      BY <2>17, <3>2 DEF StoredInv, NotDoneYet, Unfinished
    <3>4. DoneHasAll'
      BY <2>17 DEF StoredInv, DoneHasAll, HasChunk
    <3>5. QED
      BY <3>1, <3>2, <3>3, <3>4 DEF StoredInv
  <2>18. CASE SyncSelect
    <3>1. /\ UNCHANGED <<docRun, docProg>> /\ SyncSees
          /\ sync' = [sync EXCEPT ![Server] = Selected]
      BY <2>18 DEF SyncSelect, docVars
    <3>2. DoneIsNear' => DoneIsNear
      BY <2>0, <3>1 DEF DoneIsNear, Selected
    <3>3. ~(Preparing /\ rows # {} /\ Unfinished = {})
      BY <3>1 DEF SyncSees, StoredInv, NotDoneYet
    <3>4. QED
      BY <2>17, <2>18, <3>2, <3>3, SyncStep DEF rowVars, apiVars
  <2>19. CASE SyncRead
    <3>1. /\ docRun' = docRun /\ sync[Server] # NoSync
          /\ sync' = [sync EXCEPT ![Server] = Derived]
      BY <2>19 DEF SyncRead, docVars, Selected, NoSync
    <3>2. ~(Preparing /\ rows # {} /\ Unfinished = {})
      BY <3>1 DEF StoredInv, NotDoneYet
    <3>3. Derived.run = "DONE" => ~Preparing /\ rows # {} /\ Unfinished = {}
      BY <3>2 DEF Derived, NoSync
    <3>4. DoneIsNear' => DoneIsNear \/ Derived.run = "DONE"
      BY <2>0, <3>1 DEF DoneIsNear
    <3>5. ~Preparing /\ Derived.run = "DONE" => \A p \in Part : HasChunk(<<run, p>>)
      BY <2>2, DerivedDone DEF StoredInv
    <3>6. QED
      BY <2>17, <2>19, <3>2, <3>3, <3>4, <3>5, SyncStep DEF rowVars, apiVars
  <2>20. CASE SyncWrite
    <3>1. /\ docRun' \in {docRun, sync[Server].run} /\ sync[Server] # NoSync
          /\ sync' = [sync EXCEPT ![Server] = NoSync] /\ Server \in Syncer
      BY <2>20 DEF SyncWrite, WriteDerived, Syncer
    <3>2. DoneIsNear' => DoneIsNear
      BY <2>0, <3>1 DEF DoneIsNear, NoSync
    <3>3. ~(Preparing /\ rows # {} /\ Unfinished = {})
      BY <3>1 DEF StoredInv, NotDoneYet
    <3>4. QED
      BY <2>17, <2>20, <3>2, <3>3, SyncStep DEF rowVars, apiVars
  <2>21. CASE UNCHANGED vars
    <3>1. UNCHANGED <<docRun, docProg, sync>>
      BY <2>21 DEF vars, docVars
    <3>2. DoneIsNear' => DoneIsNear
      BY <3>1 DEF DoneIsNear
    <3>3. QED
      BY <2>17, <2>21, <3>1, <3>2 DEF vars, rowVars, apiVars, StoredInv, NotDoneYet
  <2>22. \A a \in Api : ~AbortRun(a) /\ ~CancelRows(a) /\ ~StopDoc(a)
    BY NobodyStops
  <2>23. \A w \in Worker : ~Purge(w)
    BY <2>12 DEF WorkerStep, Purge
  <2>24. QED
    BY <2>5, <2>6, <2>7, <2>8, <2>9, <2>10, <2>11, <2>14, <2>15, <2>16, <2>18, <2>19, <2>20,
       <2>21, <2>22, <2>23 DEF Next, RequestStep, WorkerStep
<1>3. QED
  BY <1>1, <1>2, PipelineInvAlways, RequestInvAlways, SeparateInvAlways, RowsAreOwedAlways,
     UnstoppedInvAlways, PTL DEF Spec

(***************************************************************************)
(* A document that is DONE when nothing is in flight has the chunk of      *)
(* every page range of its last request in the store, as long as requests  *)
(* do not overlap and nobody stops the document; POST /chunks, which       *)
(* deletes the chunks before the rows, must not die in between.  Parsing   *)
(* and the store may fail, executors may crash, and parts may be reused.   *)
(***************************************************************************)
THEOREM DoneMeansStoredAlways ==
  ASSUME Disjoint, Requests \cap {"stop", "cancel"} = {}, "chunks" \in Requests => ~ApiFails
  PROVE  Spec => []DoneMeansStored
<1>1. StoredInv => DoneMeansStored
  <2> SUFFICES ASSUME StoredInv, docRun = "DONE", NEW c \in Expected PROVE c \in store
    BY DEF DoneMeansStored
  <2>1. PICK p \in Part \ Blank : c = ChunkOf(<<run, p>>)
    BY DEF Expected, Current
  <2>2. HasChunk(<<run, p>>)
    BY DEF StoredInv, DoneHasAll, DoneIsNear
  <2>3. QED
    BY <2>1, <2>2 DEF HasChunk, PartOf
<1>2. QED
  BY <1>1, StoredInvAlways, PTL
-----------------------------------------------------------------------------
(* What an executor works on, and what is about to be published, has a row *)
(* if requests do not overlap.                                             *)
HasRow ==
    Disjoint => \A t \in InHand \cup UNION {plan[a].fresh : a \in Api} : t \in rows

(***************************************************************************)
(* No row is deleted while a message of its task is under way: requests    *)
(* that do not overlap delete rows only when nothing is in flight and      *)
(* nothing is left to be published.                                        *)
(***************************************************************************)
THEOREM HasRowAlways == Spec => []HasRow
<1>1. Init => HasRow
  BY DEF Init, HasRow, InHand, InStream, NoPlan
<1>2. PipelineInv /\ RequestInv /\ SeparateInv /\ HasRow /\ [Next]_vars => HasRow'
  <2> SUFFICES ASSUME PipelineInv, RequestInv, SeparateInv, HasRow, Disjoint, [Next]_vars
               PROVE  HasRow'
    BY DEF HasRow
  <2>0. /\ stream \in Seq(Task)
        /\ plan \in [Api -> [reuse : SUBSET Part, drop : SUBSET Task, found : BOOLEAN,
                             fresh : SUBSET Task]]
        /\ TodoOK
    BY DEF PipelineInv, TypeOK, ApiTypeOK, WorkTypeOK, RequestInv, TodoOK
  <2>1. ASSUME InHand' \subseteq InHand, rows \subseteq rows',
               \A a \in Api : plan'[a].fresh \subseteq plan[a].fresh
        PROVE  HasRow'
    BY <2>1 DEF HasRow
  <2>2. ASSUME UNCHANGED queueVars PROVE InHand' = InHand
    BY <2>2 DEF queueVars, InHand, InStream
  <2>3. ASSUME NEW a \in Api, Arrive(a) PROVE HasRow'
    BY <2>0, <2>1, <2>2, <2>3, ArriveStep DEF rowVars
  <2>4. ASSUME NEW a \in Api,
               \/ DeleteChunks(a) \/ AbortRun(a) \/ CancelRows(a) \/ StopDoc(a) \/ Plan(a)
               \/ DropPlanned(a) \/ SetChunkNum(a) \/ Begin(a) \/ SeedRun(a)
        PROVE  HasRow'
    <3>1. rows' = rows
      BY <2>4 DEF DeleteChunks, AbortRun, CancelRows, StopDoc, Plan, DropPlanned, SetChunkNum,
         Begin, SeedRun, rowVars
    <3>2. PICK step \in (QueueStep \cup StopStep) \ {"insertRows", "publish"} :
            /\ UNCHANGED queueVars
            /\ plan'[a].fresh = IF step = "plan" THEN {} ELSE plan[a].fresh
            /\ \A b \in Api \ {a} : plan'[b] = plan[b]
      BY <2>4, PlainStep
    <3>3. \A b \in Api : plan'[b].fresh \subseteq plan[b].fresh
      BY <3>2
    <3>4. QED
      BY <2>1, <2>2, <3>1, <3>2, <3>3
  <2>5. ASSUME NEW a \in Api, DeleteRows(a) \/ DropRows(a) PROVE HasRow'
    <3>1. PICK step \in {"deleteRows", "dropRows"} : Do(a, step)
      BY <2>5 DEF DeleteRows, DropRows
    <3>2. UNCHANGED <<plan, queueVars>>
      BY <2>5 DEF DeleteRows, DropRows
    <3>3. At(a) = step
      BY <2>0, <3>1, DoStep
    <3>4. Queues(a) /\ Quiet
      BY <2>0, <3>3, AtQueues DEF QueueStep, SeparateInv
    <3>5. plan[a].fresh = {}
      BY <3>3 DEF RequestInv
    <3>6. \A b \in Api \ {a} : plan[b].fresh = {}
      BY <2>0, <3>4, OneQueues DEF StopStep, RequestInv
    <3>7. InHand' = {} /\ \A b \in Api : plan'[b].fresh = {}
      BY <2>2, <3>2, <3>4, <3>5, <3>6, QuietHand
    <3>8. QED
      BY <3>7 DEF HasRow
  <2>6. ASSUME NEW a \in Api, InsertRows(a) PROVE HasRow'
    <3>1. /\ plan' = [plan EXCEPT ![a].fresh = ({run + 1} \X Part) \ ({run + 1} \X plan[a].reuse)]
          /\ rows' = rows \cup ({run + 1} \X Part) /\ UNCHANGED queueVars
      BY <2>6 DEF InsertRows
    <3>2. /\ plan'[a].fresh \subseteq rows'
          /\ \A b \in Api \ {a} : plan'[b].fresh = plan[b].fresh
      BY <2>0, <3>1
    <3>3. QED
      BY <2>2, <3>1, <3>2 DEF HasRow
  <2>7. ASSUME NEW a \in Api, Publish(a) PROVE HasRow'
    <3>1. UNCHANGED <<rows, pel>>
      BY <2>7 DEF Publish, rowVars
    <3>2. CASE plan[a].fresh = {}
      <4>1. UNCHANGED queueVars /\ plan' = [plan EXCEPT ![a] = NoPlan]
        BY <2>7, <3>1, <3>2 DEF Publish, queueVars
      <4>2. \A b \in Api : plan'[b].fresh \subseteq plan[b].fresh
        BY <2>0, <4>1 DEF NoPlan
      <4>3. QED
        BY <2>1, <2>2, <3>1, <4>1, <4>2
    <3>3. CASE plan[a].fresh # {}
      <4>1. PICK t \in plan[a].fresh :
              stream' = Append(stream, t) /\ plan' = [plan EXCEPT ![a].fresh = @ \ {t}]
        BY <2>7, <3>3 DEF Publish
      <4>2. t \in Task /\ \A b \in Api : plan'[b].fresh \subseteq plan[b].fresh
        BY <2>0, <4>1
      <4>3. InStream' = InStream \cup {t}
        BY <2>0, <4>1, <4>2, StreamAppend
      <4>4. InHand' \subseteq InHand \cup {t}
        BY <3>1, <4>3 DEF InHand
      <4>5. QED
        BY <3>1, <4>2, <4>4 DEF HasRow
    <3>4. QED
      BY <3>2, <3>3
  <2>8. ASSUME NEW a \in Api, PublishFails(a) \/ RequestDies(a) PROVE HasRow'
    <3>1. plan' = [plan EXCEPT ![a] = NoPlan] /\ UNCHANGED <<rows, queueVars>>
      BY <2>8 DEF PublishFails, RequestDies, rowVars
    <3>2. \A b \in Api : plan'[b].fresh \subseteq plan[b].fresh
      BY <2>0, <3>1 DEF NoPlan
    <3>3. QED
      BY <2>1, <2>2, <3>1, <3>2
  <2>9. ASSUME NEW w \in Worker,
               WorkerStep(w) \/ CreditFails(w) \/ Fail(w) \/ Drop(w) \/ Crash(w)
        PROVE  HasRow'
    BY <2>1, <2>9, ExecutorStep DEF apiVars
  <2>10. ASSUME UNCHANGED <<rows, queueVars, apiVars>> PROVE HasRow'
    BY <2>1, <2>2, <2>10 DEF apiVars
  <2>11. CASE SyncSelect \/ SyncRead \/ SyncWrite
    BY <2>10, <2>11, SyncStep DEF rowVars
  <2>12. CASE UNCHANGED vars
    BY <2>10, <2>12 DEF vars, rowVars
  <2>13. QED
    BY <2>3, <2>4, <2>5, <2>6, <2>7, <2>8, <2>9, <2>11, <2>12 DEF Next, RequestStep
<1>3. QED
  BY <1>1, <1>2, PipelineInvAlways, RequestInvAlways, SeparateInvAlways, PTL DEF Spec

-----------------------------------------------------------------------------
(* A request to stop the document that will still delete its chunks.       *)
Stopping(a) == todo[a] \in Suffixes(StopSteps)

(* An executor on the way through its handler.                             *)
Working(w) ==
    wpc[w] \in {"build", "insert", "index", "count", "credit", "gate", "finalize", "finish",
                "stop", "leave", "purge"}

(* If chunks are left of a document whose tasks were all stopped, somebody *)
(* will still delete them: a request that has not come to its last step,   *)
(* or an executor that will find its task cancelled when it leaves.        *)
StopInv ==
    /\ \A t \in rows \cup cancelled : t[1] <= run
    /\ todo \in [Api -> QueueTodo \cup Suffixes(StopSteps) \cup {<<>>}]
    /\ store # {} /\ rows # {} /\ rows \subseteq cancelled =>
          \/ \E a \in Api : Stopping(a)
          \/ \E w \in Worker : Working(w) /\ wtask[w] \in cancelled

(* A stop deletes the chunks in its last step.                             *)
LEMMA StopStepsStep ==
  ASSUME NEW s \in Suffixes(StopSteps)
  PROVE  /\ s # <<>> /\ s \notin QueueTodo
         /\ Tail(s) \in Suffixes(StopSteps) \cup {<<>>}
         /\ Head(s) # "deleteChunks" => Tail(s) \in Suffixes(StopSteps)
<1>1. PICK i \in DOMAIN StopSteps : s = SubSeq(StopSteps, i, Len(StopSteps))
  BY DEF Suffixes
<1>2. /\ StopSteps \in Seq(StopStep) /\ Len(StopSteps) = 4 /\ i \in 1..4
      /\ i = 4 => StopSteps[i] = "deleteChunks"
  BY <1>1 DEF StopSteps, StopStep
<1>3. /\ s # <<>> /\ Head(s) = StopSteps[i]
      /\ i = 4 => Tail(s) = <<>>
      /\ i # 4 => i + 1 \in DOMAIN StopSteps /\ Tail(s) = SubSeq(StopSteps, i + 1, Len(StopSteps))
  <2>1. StopSteps \in Seq(StopStep)
    BY <1>2
  <2>2. /\ s # <<>> /\ Head(s) = StopSteps[i]
        /\ i = Len(StopSteps) => Tail(s) = <<>>
        /\ i # Len(StopSteps) =>
              i + 1 \in DOMAIN StopSteps /\ Tail(s) = SubSeq(StopSteps, i + 1, Len(StopSteps))
    BY <1>1, <2>1, SuffixStep
  <2>3. QED
    BY <1>2, <2>2
<1>4. i # 4 => Tail(s) \in Suffixes(StopSteps)
  BY <1>3 DEF Suffixes
<1>5. s \notin QueueTodo
  BY StopTodoStep DEF StopTodo
<1>6. QED
  BY <1>2, <1>3, <1>4, <1>5

(***************************************************************************)
(* Every chunk of a stopped document has somebody who will delete it. What *)
(* an executor inserts after the stop has deleted the chunks is that of a  *)
(* task with a cancel key, which the executor sees when it leaves the      *)
(* handler.                                                                *)
(***************************************************************************)
THEOREM StopInvAlways ==
  ASSUME Disjoint, ~Faulty, ~ApiFails, MaxCrashes = 0, "cancel" \notin Requests
  PROVE  Spec => []StopInv
<1>1. Init => StopInv
  BY DEF Init, StopInv
<1>2. /\ PipelineInv /\ RequestInv /\ SeparateInv /\ RowsAreOwed /\ HasRow /\ StopInv
      /\ [Next]_vars
      => StopInv'
  <2> SUFFICES ASSUME PipelineInv, RequestInv, SeparateInv, RowsAreOwed, HasRow, StopInv,
                      [Next]_vars
               PROVE  StopInv'
    OBVIOUS
  <2>0. /\ wpc \in [Worker -> Handling \cup {"idle", "received", "gate", "finalize",
                                             "leave", "purge", "report", "log", "logging",
                                             "ack"}]
        /\ wtask \in [Worker -> Task \cup {NoTask}]
        /\ run \in Nat /\ crashes \in 0..MaxCrashes
        /\ rows \subseteq Task /\ cancelled \subseteq Task /\ \A t \in Task : t[1] \in Nat
        /\ TodoOK /\ todo \in [Api -> QueueTodo \cup Suffixes(StopSteps) \cup {<<>>}]
        /\ \A w \in Worker : wpc[w] # "idle" => wtask[w] \in InHand
    BY ChunkingAssumption DEF PipelineInv, TypeOK, RowTypeOK, WorkTypeOK, ApiTypeOK, Run,
       RequestInv, TodoOK, StopInv, HandledIsUnacked, InHand
  <2>1. ASSUME UNCHANGED <<run, cancelled, wpc, wtask>>, store' \subseteq store,
               rows' = rows \/ rows' = {},
               todo' \in [Api -> QueueTodo \cup Suffixes(StopSteps) \cup {<<>>}],
               \A b \in Api : Stopping(b) => Stopping(b)'
        PROVE  StopInv'
    BY <2>1 DEF StopInv, Working
  <2>2. ASSUME UNCHANGED todo
        PROVE  /\ todo' \in [Api -> QueueTodo \cup Suffixes(StopSteps) \cup {<<>>}]
               /\ \A b \in Api : Stopping(b) => Stopping(b)'
    BY <2>0, <2>2 DEF Stopping
  <2>3. ASSUME NEW a \in Api, NEW step, Do(a, step)
        PROVE  /\ todo' \in [Api -> QueueTodo \cup Suffixes(StopSteps) \cup {<<>>}]
               /\ step # "deleteChunks" => \A b \in Api : Stopping(b) => Stopping(b)'
    <3>1. /\ todo[a] # <<>> /\ Head(todo[a]) = step
          /\ todo' = [todo EXCEPT ![a] = Tail(todo[a])]
      BY <2>3 DEF Do
    <3>2. CASE todo[a] \in QueueTodo
      <4>1. Tail(todo[a]) \in QueueTodo \cup {<<>>} /\ ~Stopping(a)
        BY <3>2, QueueTodoStep, StopStepsStep DEF Stopping
      <4>2. QED
        BY <2>0, <3>1, <4>1 DEF Stopping
    <3>3. CASE todo[a] \in Suffixes(StopSteps)
      BY <2>0, <3>1, <3>3, StopStepsStep DEF Stopping
    <3>4. QED
      BY <2>0, <3>1, <3>2, <3>3
  <2>4. ASSUME NEW a \in Api, Arrive(a) PROVE StopInv'
    <3>1. /\ todo[a] = <<>>
          /\ \/ todo' = [todo EXCEPT ![a] = ParseSteps]
             \/ todo' = [todo EXCEPT ![a] = ChunksSteps]
             \/ todo' = [todo EXCEPT ![a] = QueueTasks]
             \/ todo' = [todo EXCEPT ![a] = StopSteps]
      BY <2>4 DEF Arrive, Parse, ParseChunks, Rerun, Stop, Cancel, Arrives
    <3>2. StopSteps \in Suffixes(StopSteps)
      <4>1. StopSteps \in Seq(StopStep) /\ Len(StopSteps) # 0
        BY DEF StopSteps, StopStep
      <4>2. QED
        BY <4>1, SuffixWhole
    <3>3. /\ todo' \in [Api -> QueueTodo \cup Suffixes(StopSteps) \cup {<<>>}]
          /\ \A b \in Api \ {a} : todo'[b] = todo[b]
      BY <2>0, <3>1, <3>2, NewTodo
    <3>4. \A b \in Api : Stopping(b) => Stopping(b)'
      BY <3>1, <3>3, StopStepsStep DEF Stopping
    <3>5. UNCHANGED <<run, cancelled, rows, wpc, wtask, store>>
      BY <2>0, <2>4, ArriveStep DEF rowVars, workVars
    <3>6. QED
      BY <2>1, <3>3, <3>4, <3>5
  <2>5. ASSUME NEW a \in Api, NEW step, Do(a, step), step # "deleteChunks",
               UNCHANGED <<run, cancelled, wpc, wtask>>, store' \subseteq store,
               rows' = rows \/ rows' = {}
        PROVE  StopInv'
    BY <2>1, <2>3, <2>5
  <2>6. ASSUME NEW a \in Api,
               \/ DeleteRows(a) \/ AbortRun(a) \/ StopDoc(a) \/ Plan(a) \/ DropRows(a)
               \/ DropPlanned(a) \/ SetChunkNum(a) \/ Begin(a) \/ SeedRun(a)
        PROVE  StopInv'
    <3>1. PICK step \in (QueueStep \cup StopStep) \ {"deleteChunks"} : Do(a, step)
      BY <2>6 DEF DeleteRows, AbortRun, StopDoc, Plan, DropRows, DropPlanned, SetChunkNum, Begin,
         SeedRun, QueueStep, StopStep
    <3>2. UNCHANGED <<run, cancelled, wpc, wtask>> /\ store' \subseteq store
      BY <2>6 DEF DeleteRows, AbortRun, StopDoc, Plan, DropRows, DropPlanned, SetChunkNum, Begin,
         SeedRun, workVars
    <3>3. rows' = rows \/ rows' = {}
      BY <2>6 DEF DeleteRows, AbortRun, StopDoc, Plan, DropRows, DropPlanned, SetChunkNum, Begin,
         SeedRun, rowVars, NoRows
    <3>4. QED
      BY <2>5, <3>1, <3>2, <3>3
  <2>7. ASSUME NEW a \in Api, DeleteChunks(a) PROVE StopInv'
    <3>1. Do(a, "deleteChunks") /\ store' = {} /\ UNCHANGED <<run, rows, cancelled>>
      BY <2>7 DEF DeleteChunks, rowVars
    <3>2. QED
      BY <2>3, <3>1 DEF StopInv
  <2>8. ASSUME NEW a \in Api, CancelRows(a) PROVE StopInv'
    <3>1. /\ Do(a, "cancelRows") /\ cancelled' = cancelled \cup rows
          /\ UNCHANGED <<run, rows, store>>
      BY <2>8 DEF CancelRows, rowVars
    <3>2. todo[a] \in Suffixes(StopSteps)
      <4>1. todo[a] # <<>> /\ Head(todo[a]) = "cancelRows"
        BY <3>1 DEF Do
      <4>2. todo[a] \notin QueueTodo
        BY <4>1, QueueTodoStep DEF QueueStep
      <4>3. QED
        BY <2>0, <4>1, <4>2
    <3>3. Stopping(a)' /\ todo' \in [Api -> QueueTodo \cup Suffixes(StopSteps) \cup {<<>>}]
      BY <2>3, <3>1, <3>2 DEF Stopping
    <3>4. QED
      BY <3>1, <3>3 DEF StopInv
  <2>9. ASSUME NEW a \in Api, InsertRows(a) PROVE StopInv'
    <3>1. /\ Do(a, "insertRows") /\ run' = run + 1 /\ UNCHANGED cancelled
          /\ rows' = rows \cup ({run + 1} \X Part)
      BY <2>9 DEF InsertRows
    <3>2. At(a) = "insertRows"
      BY <2>0, <3>1, DoStep
    <3>3. rows = {}
      BY <3>2 DEF RowsAreOwed
    <3>4. \A t \in rows' : t[1] = run + 1
      BY <3>1, <3>3
    <3>5. \A t \in cancelled : t[1] <= run /\ t[1] \in Nat
      BY <2>0 DEF StopInv
    <3>6. rows' \cap cancelled = {}
      BY <2>0, <3>4, <3>5
    <3>7. \A t \in rows' \cup cancelled' : t[1] <= run'
      BY <2>0, <3>1, <3>4, <3>5
    <3>8. QED
      BY <2>3, <3>1, <3>6, <3>7 DEF StopInv
  <2>10. ASSUME NEW a \in Api, Publish(a) PROVE StopInv'
    <3>1. UNCHANGED <<run, cancelled, rows, wpc, wtask, store>>
      BY <2>10 DEF Publish, rowVars, workVars
    <3>2. todo[a] # <<>> /\ Head(todo[a]) = "publish"
      BY <2>10 DEF Publish
    <3>3. CASE UNCHANGED todo
      BY <2>1, <2>2, <3>1, <3>3
    <3>4. CASE todo' = [todo EXCEPT ![a] = <<>>]
      <4>1. ~Stopping(a)
        BY <3>2, StopTodoStep DEF Stopping, StopTodo, StopStep
      <4>2. QED
        BY <2>0, <2>1, <3>1, <3>4, <4>1 DEF Stopping
    <3>5. QED
      BY <2>10, <3>3, <3>4 DEF Publish
  <2>11. ASSUME NEW a \in Api, PublishFails(a) \/ RequestDies(a) PROVE FALSE
    BY <2>11 DEF PublishFails, RequestDies
  <2>12. ASSUME NEW w \in Worker, UNCHANGED <<run, todo, rows, cancelled>>,
                \A v \in Worker \ {w} : wpc'[v] = wpc[v] /\ wtask'[v] = wtask[v],
                store' = {} \/ store' = store,
                Working(w) /\ wtask[w] \in cancelled =>
                   store' = {} \/ (Working(w)' /\ wtask'[w] = wtask[w])
         PROVE  StopInv'
    <3>1. \A v \in Worker \ {w} : Working(v)' = Working(v)
      BY <2>12 DEF Working
    <3>2. QED
      BY <2>2, <2>12, <3>1 DEF StopInv, Stopping
  <2>13. ASSUME NEW w \in Worker, WorkerStep(w) PROVE UNCHANGED <<run, todo, rows, cancelled>>
    <3>1. UNCHANGED cancelled
      BY <2>13 DEF WorkerStep, Collect, Receive, Abandon, SeeCancel, Build, Insert, Index,
         Increment, Credit, Gate, Finalize, Finish, LeaveHandler, Purge, Report, LogRead,
         LogWrite, Ack, Proceeds
    <3>2. QED
      BY <2>13, <3>1, ExecutorStep DEF apiVars
  <2>14. ASSUME NEW w \in Worker,
                \/ Collect(w) \/ Receive(w) \/ Abandon(w) \/ Report(w) \/ LogRead(w)
                \/ LogWrite(w) \/ Ack(w)
         PROVE  StopInv'
    <3>1. \A v \in Worker \ {w} : wpc'[v] = wpc[v] /\ wtask'[v] = wtask[v]
      BY <2>0, <2>14 DEF Collect, Receive, Abandon, Report, LogRead, LogWrite, Ack, Goto
    <3>2. store' = store /\ ~Working(w)
      BY <2>14 DEF Collect, Receive, Abandon, Report, LogRead, LogWrite, Ack, Working
    <3>3. QED
      BY <2>12, <2>13, <2>14, <3>1, <3>2 DEF WorkerStep
  <2>15. ASSUME NEW w \in Worker,
                \/ SeeCancel(w) \/ Build(w) \/ Index(w) \/ Increment(w) \/ Credit(w) \/ Gate(w)
                \/ Finalize(w) \/ Finish(w)
         PROVE  StopInv'
    <3>1. UNCHANGED <<wtask, store>>
      BY <2>15 DEF SeeCancel, Build, Index, Increment, Credit, Gate, Finalize, Finish, Proceeds
    <3>2. \A v \in Worker \ {w} : wpc'[v] = wpc[v]
      BY <2>0, <2>15 DEF SeeCancel, Build, Index, Increment, Credit, Gate, Finalize, Finish,
         Proceeds, Ask, Goto
    <3>3. Working(w)'
      BY <2>0, <2>15 DEF SeeCancel, Build, Index, Increment, Credit, Gate, Finalize, Finish,
         Proceeds, Ask, Goto, Working
    <3>4. QED
      BY <2>12, <2>13, <2>15, <3>1, <3>2, <3>3 DEF WorkerStep
  <2>16. ASSUME NEW w \in Worker, Insert(w) PROVE StopInv'
    <3>1. UNCHANGED <<run, todo, rows, cancelled>> /\ wtask' = wtask /\ wpc[w] = "insert"
      BY <2>13, <2>16 DEF WorkerStep, Insert, Proceeds
    <3>2. Working(w)'
      BY <2>0, <2>16 DEF Insert, Proceeds, Ask, Goto, Working
    <3>3. wtask[w] \in rows
      BY <2>0, <3>1 DEF HasRow
    <3>4. QED
      BY <2>2, <3>1, <3>2, <3>3 DEF StopInv
  <2>17. ASSUME NEW w \in Worker, LeaveHandler(w) PROVE StopInv'
    <3>1. UNCHANGED <<wtask, store>>
      BY <2>17 DEF LeaveHandler
    <3>2. \A v \in Worker \ {w} : wpc'[v] = wpc[v]
      BY <2>0, <2>17 DEF LeaveHandler, Goto
    <3>3. wtask[w] \in cancelled => Working(w)'
      BY <2>0, <2>17 DEF LeaveHandler, NotCancelled, Goto, Working
    <3>4. QED
      BY <2>12, <2>13, <2>17, <3>1, <3>2, <3>3 DEF WorkerStep
  <2>18. ASSUME NEW w \in Worker, Purge(w) PROVE StopInv'
    <3>1. wtask' = wtask /\ store' = {}
      BY <2>18 DEF Purge
    <3>2. \A v \in Worker \ {w} : wpc'[v] = wpc[v]
      BY <2>0, <2>18 DEF Purge, Goto
    <3>3. QED
      BY <2>12, <2>13, <2>18, <3>1, <3>2 DEF WorkerStep
  <2>19. ASSUME NEW w \in Worker, CreditFails(w) \/ Fail(w) \/ Drop(w) \/ Crash(w) PROVE FALSE
    <3>1. ~(crashes < MaxCrashes)
      BY <2>0
    <3>2. QED
      BY <2>19, <3>1 DEF CreditFails, Fail, Drop, Crash
  <2>20. ASSUME UNCHANGED <<run, todo, rows, cancelled, wpc, wtask, store>> PROVE StopInv'
    BY <2>1, <2>2, <2>20
  <2>21. CASE SyncSelect \/ SyncRead \/ SyncWrite
    BY <2>20, <2>21, SyncStep DEF rowVars, workVars, apiVars
  <2>22. CASE UNCHANGED vars
    BY <2>20, <2>22 DEF vars, rowVars, workVars, apiVars
  <2>23. QED
    BY <2>4, <2>6, <2>7, <2>8, <2>9, <2>10, <2>11, <2>14, <2>15, <2>16, <2>17, <2>18, <2>19,
       <2>21, <2>22 DEF Next, RequestStep, WorkerStep
<1>3. QED
  BY <1>1, <1>2, PipelineInvAlways, RequestInvAlways, SeparateInvAlways, RowsAreOwedAlways,
     HasRowAlways, PTL DEF Spec

(***************************************************************************)
(* A document whose tasks were all stopped has no chunk once nothing is in *)
(* flight: neither the deletion of a stop, which the insertions of the     *)
(* executors overlap, nor that of an executor, which goes by the cancel    *)
(* keys, would do alone. An executor that dies before it deletes breaks    *)
(* it, and a cancel keeps the chunks.                                      *)
(***************************************************************************)
THEOREM StoppedIsEmptyAlways ==
  ASSUME Disjoint, ~Faulty, ~ApiFails, MaxCrashes = 0, "cancel" \notin Requests
  PROVE  Spec => []StoppedIsEmpty
<1>1. StopInv => StoppedIsEmpty
  <2> SUFFICES ASSUME StopInv, AtRest, rows # {}, rows \subseteq cancelled
               PROVE  store = {}
    BY DEF StoppedIsEmpty
  <2>1. \A w \in Worker : ~Working(w)
    BY DEF AtRest, Quiet, Working
  <2>2. \A a \in Api : ~Stopping(a)
    BY StopStepsStep DEF AtRest, Stopping
  <2>3. QED
    BY <2>1, <2>2 DEF StopInv
<1>2. QED
  BY <1>1, StopInvAlways, PTL

-----------------------------------------------------------------------------
NoDuplicate(s) == \A i, j \in DOMAIN s : s[i] = s[j] => i = j

(* A message is in one place: once in the stream, or with one executor.    *)
MessageInv ==
    /\ NoDuplicate(stream)
    /\ \A w \in Worker : pel[w] \cap InStream = {}
    /\ \A v, w \in Worker : v # w => pel[v] \cap pel[w] = {}

(* What a new message and a message that is taken do to the stream.        *)
LEMMA AppendNew ==
  ASSUME NEW T, NEW s \in Seq(T), NEW t \in T, NoDuplicate(s),
         t \notin {s[i] : i \in DOMAIN s}
  PROVE  NoDuplicate(Append(s, t))
<1>1. /\ DOMAIN s = 1..Len(s) /\ DOMAIN Append(s, t) = 1..Len(s)+1 /\ Len(s) \in Nat
      /\ Append(s, t)[Len(s) + 1] = t
      /\ \A i \in 1..Len(s) : Append(s, t)[i] = s[i]
  OBVIOUS
<1>2. ASSUME NEW i \in DOMAIN Append(s, t), NEW j \in DOMAIN Append(s, t), i # j
      PROVE  Append(s, t)[i] # Append(s, t)[j]
  <2>1. i \in DOMAIN s \/ i = Len(s) + 1
    BY <1>1
  <2>2. j \in DOMAIN s \/ j = Len(s) + 1
    BY <1>1
  <2>3. QED
    BY <1>1, <1>2, <2>1, <2>2, Zenon DEF NoDuplicate
<1>3. QED
  BY <1>2 DEF NoDuplicate

LEMMA TailNew ==
  ASSUME NEW T, NEW s \in Seq(T), s # <<>>, NoDuplicate(s)
  PROVE  NoDuplicate(Tail(s)) /\ Head(s) \notin {Tail(s)[i] : i \in DOMAIN Tail(s)}
<1>1. /\ Len(s) \in Nat \ {0} /\ DOMAIN s = 1..Len(s) /\ Head(s) = s[1]
      /\ Tail(s) \in Seq(T) /\ Len(Tail(s)) = Len(s) - 1
  OBVIOUS
<1>2. \A i \in 1..Len(s)-1 : Tail(s)[i] = s[i + 1]
  OBVIOUS
<1>3. DOMAIN Tail(s) = 1..Len(s)-1
  BY <1>1
<1>4. \A i \in 1..Len(s)-1 : i + 1 \in DOMAIN s /\ i + 1 # 1
  BY <1>1
<1>5. ASSUME NEW i \in DOMAIN Tail(s), NEW j \in DOMAIN Tail(s), Tail(s)[i] = Tail(s)[j]
      PROVE  i = j
  <2>1. i \in Int /\ j \in Int /\ s[i + 1] = s[j + 1]
    BY <1>2, <1>3, <1>5
  <2>2. i + 1 = j + 1
    BY <1>3, <1>4, <2>1 DEF NoDuplicate
  <2>3. QED
    BY <2>1, <2>2
<1>6. ASSUME NEW i \in DOMAIN Tail(s) PROVE Head(s) # Tail(s)[i]
  <2>1. 1 \in DOMAIN s /\ i + 1 \in DOMAIN s /\ i + 1 # 1 /\ Tail(s)[i] = s[i + 1]
    BY <1>1, <1>2, <1>3, <1>4
  <2>2. QED
    BY <1>1, <2>1 DEF NoDuplicate
<1>7. QED
  BY <1>5, <1>6 DEF NoDuplicate

(***************************************************************************)
(* A message is in one place only, also when requests overlap and          *)
(* executors crash: a request publishes each of its tasks once, and an     *)
(* unacked message comes back to the executor it was given to.             *)
(***************************************************************************)
THEOREM MessageInvAlways == Spec => []MessageInv
<1>1. Init => MessageInv
  BY DEF Init, MessageInv, NoDuplicate
<1>2. PipelineInv /\ RequestInv /\ MessageInv /\ [Next]_vars => MessageInv'
  <2> SUFFICES ASSUME PipelineInv, RequestInv, MessageInv, [Next]_vars
               PROVE  MessageInv'
    OBVIOUS
  <2>0. /\ stream \in Seq(Task) /\ pel \in [Worker -> SUBSET Task]
        /\ plan \in [Api -> [reuse : SUBSET Part, drop : SUBSET Task, found : BOOLEAN,
                             fresh : SUBSET Task]]
        /\ TodoOK
    BY DEF PipelineInv, TypeOK, ApiTypeOK, WorkTypeOK, RequestInv, TodoOK
  <2>1. ASSUME UNCHANGED stream, \A w \in Worker : pel'[w] \subseteq pel[w] PROVE MessageInv'
    <3>1. InStream' = InStream
      BY <2>1 DEF InStream
    <3>2. /\ \A w \in Worker : pel'[w] \cap InStream' = {}
          /\ \A v, w \in Worker : v # w => pel'[v] \cap pel'[w] = {}
      BY <2>1, <3>1 DEF MessageInv
    <3>3. QED
      BY <2>1, <3>2 DEF MessageInv
  <2>2. ASSUME UNCHANGED queueVars PROVE MessageInv'
    BY <2>1, <2>2 DEF queueVars
  <2>3. ASSUME NEW a \in Api, Arrive(a) PROVE MessageInv'
    BY <2>0, <2>2, <2>3, ArriveStep
  <2>4. ASSUME NEW a \in Api,
               \/ DeleteRows(a) \/ DeleteChunks(a) \/ AbortRun(a) \/ CancelRows(a) \/ StopDoc(a)
               \/ Plan(a) \/ DropRows(a) \/ DropPlanned(a) \/ SetChunkNum(a) \/ InsertRows(a)
               \/ Begin(a) \/ SeedRun(a) \/ PublishFails(a) \/ RequestDies(a)
        PROVE  MessageInv'
    BY <2>2, <2>4 DEF DeleteRows, DeleteChunks, AbortRun, CancelRows, StopDoc, Plan, DropRows,
       DropPlanned, SetChunkNum, InsertRows, Begin, SeedRun, PublishFails, RequestDies
  <2>5. ASSUME NEW a \in Api, Publish(a) PROVE MessageInv'
    <3>1. CASE plan[a].fresh = {}
      BY <2>2, <2>5, <3>1 DEF Publish, queueVars
    <3>2. CASE plan[a].fresh # {}
      <4>1. PICK t \in plan[a].fresh : stream' = Append(stream, t) /\ pel' = pel
        BY <2>5, <3>2 DEF Publish
      <4>2. t \in Task /\ t \notin InHand
        BY <2>0 DEF RequestInv
      <4>3. InStream' = InStream \cup {t}
        BY <2>0, <4>1, <4>2, StreamAppend
      <4>4. NoDuplicate(stream')
        BY <2>0, <4>1, <4>2, AppendNew DEF InHand, InStream, MessageInv
      <4>5. \A w \in Worker : t \notin pel[w]
        BY <4>2 DEF InHand
      <4>6. QED
        BY <4>1, <4>3, <4>4, <4>5 DEF MessageInv
    <3>3. QED
      BY <3>1, <3>2
  <2>6. ASSUME NEW w \in Worker, Collect(w) PROVE MessageInv'
    <3>1. CASE UNCHANGED queueVars
      BY <2>2, <3>1
    <3>2. CASE /\ stream # <<>> /\ pel' = [pel EXCEPT ![w] = @ \cup {Head(stream)}]
               /\ stream' = Tail(stream)
      <4>1. Head(stream) \in InStream /\ InStream' \subseteq InStream
        BY <2>0, <3>2, StreamTail DEF InStream
      <4>2. NoDuplicate(stream') /\ Head(stream) \notin InStream'
        BY <2>0, <3>2, TailNew DEF InStream, MessageInv
      <4>3. /\ pel'[w] = pel[w] \cup {Head(stream)}
            /\ \A v \in Worker \ {w} : pel'[v] = pel[v]
        BY <2>0, <3>2
      <4>4. \A v \in Worker : pel'[v] \cap InStream' = {}
        BY <4>1, <4>2, <4>3 DEF MessageInv
      <4>5. \A v \in Worker : Head(stream) \notin pel[v]
        BY <4>1 DEF MessageInv
      <4>6. ASSUME NEW u \in Worker, NEW v \in Worker, u # v PROVE pel'[u] \cap pel'[v] = {}
        BY <4>3, <4>5, <4>6 DEF MessageInv
      <4>7. QED
        BY <4>2, <4>4, <4>6 DEF MessageInv
    <3>3. QED
      BY <2>6, <3>1, <3>2 DEF Collect
  <2>7. ASSUME NEW w \in Worker, Ack(w) PROVE MessageInv'
    BY <2>0, <2>1, <2>7 DEF Ack
  <2>8. ASSUME NEW w \in Worker,
               \/ Receive(w) \/ Abandon(w) \/ SeeCancel(w)
               \/ Build(w) \/ Insert(w) \/ Index(w) \/ Increment(w) \/ Credit(w) \/ Gate(w)
               \/ Finalize(w) \/ Finish(w) \/ LeaveHandler(w) \/ Purge(w) \/ Report(w)
               \/ LogRead(w) \/ LogWrite(w)
               \/ CreditFails(w) \/ Fail(w) \/ Drop(w) \/ Crash(w)
        PROVE  MessageInv'
    BY <2>2, <2>8 DEF Receive, Abandon, SeeCancel, Build, Insert, Index, Increment, Credit, Gate,
       Finalize, Finish, LeaveHandler, Purge, Report, LogRead, LogWrite, CreditFails, Fail,
       Drop, Crash, Proceeds
  <2>9. CASE SyncSelect \/ SyncRead \/ SyncWrite
    BY <2>2, <2>9, SyncStep
  <2>10. CASE UNCHANGED vars
    BY <2>2, <2>10 DEF vars
  <2>11. QED
    BY <2>3, <2>4, <2>5, <2>6, <2>7, <2>8, <2>9, <2>10 DEF Next, RequestStep, WorkerStep
<1>3. QED
  BY <1>1, <1>2, PipelineInvAlways, RequestInvAlways, PTL DEF Spec

-----------------------------------------------------------------------------
(* retry_count counts deliveries, and a message is delivered again only to *)
(* the successor of an executor that crashed with it.                      *)
TriesInv ==
    /\ \A t \in Task :
          t[1] > run \/ t \in InStream \cup UNION {plan[a].fresh : a \in Api} => tries[t] = 0
    /\ \A t \in Task : tries[t] <= crashes + 1
    /\ \A w \in Worker : \A t \in replay[w] : tries[t] <= crashes
    /\ TriesAreCrashes

(***************************************************************************)
(* The attempts a task has used up are at most the crashes of executors,   *)
(* whatever fails and however requests overlap, so that none is given up   *)
(* ("abandoned after 3 times attempts") before the third crash.            *)
(***************************************************************************)
THEOREM TriesInvAlways == Spec => []TriesInv
<1>1. Init => TriesInv
  BY DEF Init, TriesInv, TriesAreCrashes
<1>2. PipelineInv /\ RequestInv /\ MessageInv /\ TriesInv /\ [Next]_vars => TriesInv'
  <2> SUFFICES ASSUME PipelineInv, RequestInv, MessageInv, TriesInv, [Next]_vars
               PROVE  TriesInv'
    OBVIOUS
  <2>0. /\ stream \in Seq(Task) /\ pel \in [Worker -> SUBSET Task]
        /\ plan \in [Api -> [reuse : SUBSET Part, drop : SUBSET Task, found : BOOLEAN,
                             fresh : SUBSET Task]]
        /\ tries \in [Task -> Nat] /\ crashes \in Nat /\ run \in Nat
        /\ \A t \in Task : t[1] \in Nat
        /\ wpc \in [Worker -> Handling \cup {"idle", "received", "gate", "finalize",
                                             "leave", "purge", "report", "log", "logging",
                                             "ack"}]
        /\ wtask \in [Worker -> Task \cup {NoTask}] /\ replay \in [Worker -> SUBSET Task]
        /\ \A w \in Worker : wpc[w] # "idle" => wtask[w] \in pel[w]
        /\ \A w \in Worker : replay[w] \subseteq pel[w] \ {wtask[w]}
        /\ TodoOK
    BY ChunkingAssumption DEF PipelineInv, TypeOK, ApiTypeOK, WorkTypeOK, RowTypeOK, Run,
       HandledIsUnacked, RequestInv, TodoOK
  <2>1. ASSUME run <= run', run' \in Nat, UNCHANGED workVars, InStream' \subseteq InStream,
               \A a \in Api : plan'[a].fresh \subseteq plan[a].fresh,
               \A t \in Task : tries'[t] = tries[t] \/ tries'[t] = 0
        PROVE  TriesInv'
    <3>1. \A t \in Task : tries'[t] <= tries[t]
      <4>1. TAKE t \in Task
      <4>2. tries[t] \in Nat
        BY <2>0
      <4>3. tries[t] <= tries[t] /\ 0 <= tries[t]
        BY <4>2
      <4>4. QED
        BY <2>1, <4>3
    <3>2. \A t \in Task : t[1] > run' => t[1] > run
      BY <2>0, <2>1
    <3>3. ASSUME NEW w \in Worker, NEW t \in replay[w] PROVE tries'[t] <= crashes
      <4>1. t \in Task
        BY <2>0
      <4>2. tries[t] <= crashes /\ tries[t] \in Nat /\ tries'[t] <= tries[t]
        BY <2>0, <3>1, <4>1 DEF TriesInv
      <4>3. tries'[t] \in Nat /\ crashes \in Nat
        BY <2>0, <2>1, <4>1, <4>2
      <4>4. QED
        BY <4>2, <4>3
    <3>4. ASSUME NEW w \in Worker, wpc[w] = "received" PROVE tries'[wtask[w]] <= crashes
      <4>1. wtask[w] \in Task
        BY <2>0, <3>4
      <4>2. tries[wtask[w]] <= crashes
        BY <3>4 DEF TriesInv, TriesAreCrashes
      <4>3. crashes \in Nat /\ tries'[wtask[w]] \in {tries[wtask[w]], 0}
        BY <2>0, <2>1, <4>1
      <4>4. QED
        BY <4>2, <4>3
    <3>5. ASSUME NEW t \in Task PROVE tries'[t] <= crashes + 1
      <4>1. tries[t] <= crashes + 1
        BY DEF TriesInv
      <4>2. crashes \in Nat /\ tries'[t] \in {tries[t], 0}
        BY <2>0, <2>1
      <4>3. QED
        BY <4>1, <4>2
    <3>6. \A t \in Task :
            t[1] > run' \/ t \in InStream' \cup UNION {plan'[a].fresh : a \in Api} => tries'[t] = 0
      BY <2>1, <3>2 DEF TriesInv
    <3>7. QED
      BY <2>1, <3>3, <3>4, <3>5, <3>6 DEF TriesInv, TriesAreCrashes, workVars
  <2>2. ASSUME UNCHANGED queueVars PROVE InStream' = InStream
    BY <2>2 DEF queueVars, InStream
  <2>3. ASSUME UNCHANGED <<queueVars, workVars, apiVars, tries>> PROVE TriesInv'
    BY <2>0, <2>1, <2>2, <2>3 DEF apiVars
  <2>4. ASSUME NEW a \in Api, Arrive(a) PROVE TriesInv'
    BY <2>0, <2>1, <2>2, <2>4, ArriveStep DEF rowVars
  <2>5. ASSUME NEW a \in Api,
               \/ DeleteRows(a) \/ DeleteChunks(a) \/ AbortRun(a) \/ CancelRows(a) \/ StopDoc(a)
               \/ Plan(a) \/ DropRows(a) \/ DropPlanned(a) \/ SetChunkNum(a)
               \/ Begin(a) \/ SeedRun(a)
        PROVE  TriesInv'
    <3>1. UNCHANGED tries \/ NoRows
      BY <2>5 DEF DeleteRows, DeleteChunks, AbortRun, CancelRows, StopDoc, Plan, DropRows,
         DropPlanned, SetChunkNum, Begin, SeedRun, rowVars
    <3>2. PICK step \in (QueueStep \cup StopStep) \ {"insertRows", "publish"} :
            /\ UNCHANGED <<run, queueVars, workVars>>
            /\ plan'[a].fresh = IF step = "plan" THEN {} ELSE plan[a].fresh
            /\ \A b \in Api \ {a} : plan'[b] = plan[b]
      BY <2>5, PlainStep
    <3>3. \A b \in Api : plan'[b].fresh \subseteq plan[b].fresh
      BY <3>2
    <3>4. \A t \in Task : tries'[t] = tries[t] \/ tries'[t] = 0
      BY <3>1 DEF NoRows
    <3>5. QED
      BY <2>0, <2>1, <2>2, <3>2, <3>3, <3>4
  <2>6. ASSUME NEW a \in Api, InsertRows(a) PROVE TriesInv'
    <3>1. /\ plan' = [plan EXCEPT ![a].fresh = ({run + 1} \X Part) \ ({run + 1} \X plan[a].reuse)]
          /\ run' = run + 1 /\ UNCHANGED <<queueVars, workVars, tries>>
      BY <2>6 DEF InsertRows
    <3>2. /\ plan'[a].fresh \subseteq {run + 1} \X Part
          /\ \A b \in Api \ {a} : plan'[b].fresh = plan[b].fresh
      BY <2>0, <3>1
    <3>3. \A t \in {run + 1} \X Part : t[1] = run + 1
      OBVIOUS
    <3>4. \A t \in Task : t[1] > run + 1 \/ t[1] = run + 1 => t[1] > run
      BY <2>0
    <3>5. ASSUME NEW t \in Task,
                 t[1] > run' \/ t \in InStream' \cup UNION {plan'[b].fresh : b \in Api}
          PROVE  tries[t] = 0
      <4>1. CASE t[1] > run \/ t \in InStream \cup UNION {plan[b].fresh : b \in Api}
        BY <4>1 DEF TriesInv
      <4>2. CASE \E b \in Api : t \in plan'[b].fresh
        BY <3>2, <3>3, <3>4, <4>1, <4>2
      <4>3. QED
        BY <2>2, <3>1, <3>4, <3>5, <4>1, <4>2
    <3>6. QED
      BY <3>1, <3>5 DEF TriesInv, TriesAreCrashes, workVars
  <2>7. ASSUME NEW a \in Api, Publish(a) PROVE TriesInv'
    <3>1. UNCHANGED <<run, tries, workVars>>
      BY <2>7 DEF Publish, rowVars
    <3>2. CASE plan[a].fresh = {}
      <4>1. UNCHANGED stream /\ plan' = [plan EXCEPT ![a] = NoPlan]
        BY <2>7, <3>2 DEF Publish
      <4>2. \A b \in Api : plan'[b].fresh \subseteq plan[b].fresh
        BY <2>0, <4>1 DEF NoPlan
      <4>3. InStream' = InStream
        BY <4>1 DEF InStream
      <4>4. QED
        BY <2>0, <2>1, <3>1, <4>2, <4>3
    <3>3. CASE plan[a].fresh # {}
      <4>1. PICK t \in plan[a].fresh :
              stream' = Append(stream, t) /\ plan' = [plan EXCEPT ![a].fresh = @ \ {t}]
        BY <2>7, <3>3 DEF Publish
      <4>2. t \in Task /\ \A b \in Api : plan'[b].fresh \subseteq plan[b].fresh
        BY <2>0, <4>1
      <4>3. InStream' = InStream \cup {t}
        BY <2>0, <4>1, <4>2, StreamAppend
      <4>4. \A u \in InStream' \cup UNION {plan'[b].fresh : b \in Api} :
              u \in InStream \cup UNION {plan[b].fresh : b \in Api}
        BY <4>1, <4>2, <4>3
      <4>5. \A u \in Task :
              u[1] > run' \/ u \in InStream' \cup UNION {plan'[b].fresh : b \in Api}
                 => tries'[u] = 0
        BY <3>1, <4>4 DEF TriesInv
      <4>6. QED
        BY <3>1, <4>5 DEF TriesInv, TriesAreCrashes, workVars
    <3>4. QED
      BY <3>2, <3>3
  <2>8. ASSUME NEW a \in Api, PublishFails(a) \/ RequestDies(a) PROVE TriesInv'
    <3>1. /\ plan' = [plan EXCEPT ![a] = NoPlan]
          /\ UNCHANGED <<run, tries, queueVars, workVars>>
      BY <2>8 DEF PublishFails, RequestDies, rowVars
    <3>2. \A b \in Api : plan'[b].fresh \subseteq plan[b].fresh
      BY <2>0, <3>1 DEF NoPlan
    <3>3. QED
      BY <2>0, <2>1, <2>2, <3>1, <3>2
  <2>9. ASSUME NEW w \in Worker, Collect(w) PROVE TriesInv'
    <3>1. /\ UNCHANGED <<run, plan, tries, crashes>>
          /\ wpc' = [wpc EXCEPT ![w] = "received"]
      BY <2>9 DEF Collect, Goto, apiVars, rowVars
    <3>2. /\ \A v \in Worker : replay'[v] \subseteq replay[v]
          /\ InStream' \subseteq InStream
          /\ wtask'[w] \in Task /\ tries[wtask'[w]] <= crashes
          /\ \A v \in Worker \ {w} : wtask'[v] = wtask[v]
      <4>1. CASE \E t \in replay[w] : /\ wtask' = [wtask EXCEPT ![w] = t]
                                      /\ replay' = [replay EXCEPT ![w] = @ \ {t}]
                                      /\ UNCHANGED queueVars
        BY <2>0, <2>2, <4>1 DEF TriesInv
      <4>2. CASE /\ stream # <<>> /\ wtask' = [wtask EXCEPT ![w] = Head(stream)]
                 /\ stream' = Tail(stream) /\ UNCHANGED replay
        <5>1. Head(stream) \in InStream /\ InStream' \subseteq InStream /\ Head(stream) \in Task
          BY <2>0, <4>2, StreamTail DEF InStream
        <5>2. tries[Head(stream)] <= crashes
          BY <2>0, <5>1 DEF TriesInv
        <5>3. QED
          BY <2>0, <4>2, <5>1, <5>2
      <4>3. QED
        BY <2>9, <4>1, <4>2 DEF Collect
    <3>3. \A t \in Task :
             t[1] > run' \/ t \in InStream' \cup UNION {plan'[a].fresh : a \in Api} => tries'[t] = 0
      BY <3>1, <3>2 DEF TriesInv
    <3>4. \A v \in Worker : \A t \in replay'[v] : tries'[t] <= crashes'
      BY <3>1, <3>2 DEF TriesInv
    <3>5. \A v \in Worker : wpc'[v] = "received" => tries'[wtask'[v]] <= crashes'
      BY <2>0, <3>1, <3>2 DEF TriesInv, TriesAreCrashes
    <3>6. QED
      BY <3>1, <3>3, <3>4, <3>5 DEF TriesInv, TriesAreCrashes
  <2>10. ASSUME NEW w \in Worker, Receive(w) \/ Abandon(w) PROVE TriesInv'
    <3>1. /\ wpc[w] = "received" /\ wtask[w] \in Task /\ wtask[w] \in pel[w]
          /\ tries' = tries \/ tries' = [tries EXCEPT ![wtask[w]] = @ + 1]
          /\ UNCHANGED <<run, plan, stream, replay, crashes, wtask>>
      BY <2>0, <2>10 DEF Receive, Abandon, apiVars, queueVars
    <3>2. wpc'[w] # "received" /\ \A v \in Worker \ {w} : wpc'[v] = wpc[v]
      BY <2>0, <2>10 DEF Receive, Abandon, Goto
    <3>3. \A v \in Worker \ {w} : wtask[w] \notin pel[v]
      BY <3>1 DEF MessageInv
    <3>4. /\ \A v \in Worker : wtask[w] \notin replay[v]
          /\ \A v \in Worker \ {w} : wpc[v] = "received" => wtask[v] # wtask[w]
      BY <2>0, <3>3
    <3>5. /\ wtask[w][1] <= run
          /\ wtask[w] \notin InStream \cup UNION {plan[a].fresh : a \in Api}
      BY <3>1 DEF RequestInv, MessageInv, InHand
    <3>6. tries'[wtask[w]] <= crashes + 1 /\ \A t \in Task \ {wtask[w]} : tries'[t] = tries[t]
      BY <2>0, <3>1 DEF TriesInv, TriesAreCrashes
    <3>7. InStream' = InStream
      BY <3>1 DEF InStream
    <3>8. \A t \in Task :
             t[1] > run' \/ t \in InStream' \cup UNION {plan'[a].fresh : a \in Api} => tries'[t] = 0
      <4>1. ~(wtask[w][1] > run)
        BY <2>0, <3>1, <3>5
      <4>2. QED
        BY <3>1, <3>5, <3>6, <3>7, <4>1 DEF TriesInv
    <3>9. \A v \in Worker : \A t \in replay'[v] : tries'[t] <= crashes'
      BY <2>0, <3>1, <3>4, <3>6 DEF TriesInv
    <3>10. \A v \in Worker : wpc'[v] = "received" => tries'[wtask'[v]] <= crashes'
      BY <2>0, <3>1, <3>2, <3>4, <3>6 DEF TriesInv, TriesAreCrashes
    <3>11. QED
      BY <3>1, <3>6, <3>8, <3>9, <3>10 DEF TriesInv, TriesAreCrashes
  <2>11. ASSUME NEW w \in Worker, Crash(w) PROVE TriesInv'
    <3>1. /\ UNCHANGED <<run, plan, tries, queueVars>> /\ crashes' = crashes + 1
          /\ replay' = [replay EXCEPT ![w] = pel[w]] /\ wpc' = [wpc EXCEPT ![w] = "idle"]
          /\ wtask' = [wtask EXCEPT ![w] = NoTask]
      BY <2>11 DEF Crash, Goto, apiVars, rowVars
    <3>2. \A t \in Task : tries[t] <= crashes' /\ tries[t] <= crashes' + 1
      BY <2>0, <3>1 DEF TriesInv
    <3>3. \A v \in Worker : \A t \in replay'[v] : tries'[t] <= crashes'
      BY <2>0, <3>1, <3>2
    <3>4. \A v \in Worker : wpc'[v] = "received" => tries'[wtask'[v]] <= crashes'
      <4>1. \A v \in Worker : wpc'[v] = "received" => v # w /\ wpc[v] = "received"
        BY <2>0, <3>1
      <4>2. \A v \in Worker : wpc'[v] = "received" => wtask'[v] = wtask[v] /\ wtask[v] \in Task
        BY <2>0, <3>1, <4>1
      <4>3. QED
        BY <3>1, <3>2, <4>2
    <3>5. InStream' = InStream
      BY <2>2, <3>1
    <3>6. QED
      BY <3>1, <3>2, <3>3, <3>4, <3>5 DEF TriesInv, TriesAreCrashes
  <2>12. ASSUME NEW w \in Worker, UNCHANGED <<apiVars, tries, replay, crashes, stream>>,
                \A v \in Worker \ {w} : wpc'[v] = wpc[v] /\ wtask'[v] = wtask[v],
                wpc'[w] # "received"
         PROVE  TriesInv'
    <3>1. InStream' = InStream
      BY <2>12 DEF InStream
    <3>2. QED
      BY <2>12, <3>1 DEF TriesInv, TriesAreCrashes, apiVars
  <2>13. ASSUME NEW w \in Worker,
               \/ SeeCancel(w) \/ Build(w) \/ Insert(w) \/ Index(w) \/ Increment(w) \/ Credit(w)
               \/ Gate(w) \/ Finalize(w) \/ Finish(w) \/ LeaveHandler(w) \/ Purge(w)
               \/ Report(w) \/ LogRead(w) \/ LogWrite(w) \/ Ack(w)
               \/ CreditFails(w) \/ Fail(w) \/ Drop(w)
         PROVE  TriesInv'
    <3>1. UNCHANGED <<apiVars, tries, replay, crashes, stream>>
      BY <2>13, ExecutorStep DEF WorkerStep, SeeCancel, Build, Insert, Index, Increment, Credit,
         Gate, Finalize, Finish, LeaveHandler, Purge, Report, LogRead, LogWrite, Ack,
         CreditFails, Fail, Drop, Proceeds, rowVars, queueVars
    <3>2. \A v \in Worker \ {w} : wpc'[v] = wpc[v] /\ wtask'[v] = wtask[v]
      BY <2>0, <2>13 DEF SeeCancel, Build, Insert, Index, Increment, Credit, Gate, Finalize,
         Finish, LeaveHandler, Purge, Report, LogRead, LogWrite, Ack, CreditFails, Fail, Drop,
         Proceeds, Ask, Goto
    <3>3. wpc'[w] # "received"
      BY <2>0, <2>13 DEF SeeCancel, Build, Insert, Index, Increment, Credit, Gate, Finalize,
         Finish, LeaveHandler, Purge, Report, LogRead, LogWrite, Ack, CreditFails, Fail, Drop,
         Proceeds, Ask, Goto, AfterHandler
    <3>4. QED
      BY <2>12, <3>1, <3>2, <3>3
  <2>14. CASE SyncSelect \/ SyncRead \/ SyncWrite
    BY <2>3, <2>14, SyncStep DEF rowVars
  <2>15. CASE UNCHANGED vars
    BY <2>3, <2>15 DEF vars, rowVars
  <2>16. QED
    BY <2>4, <2>5, <2>6, <2>7, <2>8, <2>9, <2>10, <2>11, <2>13, <2>14, <2>15
       DEF Next, RequestStep, WorkerStep
<1>3. QED
  BY <1>1, <1>2, PipelineInvAlways, RequestInvAlways, MessageInvAlways, PTL DEF Spec

(* In particular, an attempt is lost to a crash only.                      *)
THEOREM TriesAreCrashesAlways == Spec => []TriesAreCrashes
<1>1. TriesInv => TriesAreCrashes
  BY DEF TriesInv
<1>2. QED
  BY <1>1, TriesInvAlways, PTL

-----------------------------------------------------------------------------
(* A message whose chunk is still to be listed: its task was not begun, or *)
(* has not come through the update of its row.                             *)
ToList(w, t) ==
    /\ t \in pel[w] /\ PartOf(t) \notin Blank
    /\ wtask[w] = t => wpc[w] \in {"received", "build", "insert", "index"}

IsListed(c) == \E t \in ids \cap rows : ChunkOf(t) = c
Awaited(c) == \E w \in Worker : \E t \in Task : ToList(w, t) /\ ChunkOf(t) = c
Reused(a, c) == SameConfig /\ \E p \in plan[a].reuse : c = <<1, p>>

(* A request that has deleted the rows, or is about to, and will deal with *)
(* the chunks.                                                             *)
Replacing(a) == todo[a] = RowsGone \/ At(a) \in Planned

(* A chunk in the store is listed by a row or will be, unless a request    *)
(* replaces the rows, which knows the chunks it has to drop or to keep.    *)
ListedInv ==
    /\ \A w \in Worker : wpc[w] \in {"insert", "index"} => PartOf(wtask[w]) \notin Blank
    /\ \A a \in Api : todo[a] = ChunksGone => store = {}
    /\ \A a \in Api : At(a) \in {"dropRows", "dropPlanned"} =>
          \A c \in store : c \in plan[a].drop \/ Reused(a, c)
    /\ \A a \in Api : At(a) \in {"setChunkNum", "insertRows"} =>
          \A c \in store : Reused(a, c)
    /\ (\A a \in Api : ~Replacing(a)) => \A c \in store : IsListed(c) \/ Awaited(c)

(***************************************************************************)
(* No chunk is left that no row lists and no executor will list: a chunk   *)
(* that was inserted before a crash is inserted again and listed then,     *)
(* because two crashes do not use up the three attempts of a task; a       *)
(* request finds the chunks of the rows it deletes in these rows.          *)
(***************************************************************************)
THEOREM ListedInvAlways ==
  ASSUME Disjoint, ~Faulty, ~ApiFails, Requests \cap {"stop", "cancel"} = {},
         MaxCrashes <= 2
  PROVE  Spec => []ListedInv
<1>1. Init => ListedInv
  <2> SUFFICES ASSUME Init PROVE ListedInv
    OBVIOUS
  <2>1. store = {} /\ \A a \in Api : At(a) = "end"
    BY DEF Init, At
  <2>2. \A w \in Worker : wpc[w] = "idle"
    BY DEF Init
  <2>3. QED
    BY <2>1, <2>2 DEF ListedInv
<1>2. /\ PipelineInv /\ RequestInv /\ SeparateInv /\ UnstoppedInv /\ HasRow /\ TriesInv
      /\ ListedInv /\ [Next]_vars
      => ListedInv'
  <2> SUFFICES ASSUME PipelineInv, RequestInv, SeparateInv, UnstoppedInv, HasRow, TriesInv,
                      ListedInv, [Next]_vars
               PROVE  ListedInv'
    OBVIOUS
  <2>0. /\ plan \in [Api -> [reuse : SUBSET Part, drop : SUBSET Task, found : BOOLEAN,
                             fresh : SUBSET Task]]
        /\ wpc \in [Worker -> Handling \cup {"idle", "received", "gate", "finalize",
                                             "leave", "purge", "report", "log", "logging",
                                             "ack"}]
        /\ wtask \in [Worker -> Task \cup {NoTask}] /\ NoTask \notin Task
        /\ pel \in [Worker -> SUBSET Task]
        /\ rows \subseteq Task /\ ids \subseteq Task
        /\ TodoOK /\ todo \in [Api -> QueueTodo \cup {<<>>}]
        /\ \A w \in Worker : wpc[w] # "idle" =>
              wtask[w] \in Task /\ wtask[w] \in pel[w] /\ wtask[w] \in rows
    BY CounterAssumption DEF PipelineInv, TypeOK, RowTypeOK, WorkTypeOK, ApiTypeOK, RequestInv,
       TodoOK, UnstoppedInv, HandledIsUnacked, HasRow, InHand
  <2>1. ASSUME NEW a \in Api
        PROVE  /\ todo[a] = RowsGone => At(a) = "deleteChunks"
               /\ todo[a] = ChunksGone => At(a) = "deleteRows"
               /\ todo'[a] = RowsGone => At(a)' = "deleteChunks"
               /\ todo'[a] = ChunksGone => At(a)' = "deleteRows"
    BY TwoOrders, EmptyTodo DEF At
  <2>2. ASSUME NEW a \in Api, ~Replacing(a), UNCHANGED <<rows, ids, store, pel, wpc, wtask>>,
               \A b \in Api \ {a} : todo'[b] = todo[b] /\ plan'[b] = plan[b],
               todo'[a] \notin {RowsGone, ChunksGone}, At(a)' \notin Planned
        PROVE  ListedInv'
    <3>1. \A c : /\ IsListed(c)' = IsListed(c) /\ Awaited(c)' = Awaited(c)
                 /\ \A b \in Api \ {a} : Reused(b, c)' = Reused(b, c)
      BY <2>2 DEF IsListed, Awaited, ToList, Reused
    <3>2. \A b \in Api \ {a} : At(b)' = At(b) /\ Replacing(b)' = Replacing(b)
      BY <2>2 DEF At, Replacing
    <3>3. (\A b \in Api : ~Replacing(b)') => \A b \in Api : ~Replacing(b)
      BY <2>2, <3>2
    <3>4. QED
      BY <2>2, <3>1, <3>2, <3>3 DEF ListedInv, Planned
  <2>3. ASSUME NEW a \in Api, Arrive(a) PROVE ListedInv'
    <3>1. /\ UNCHANGED <<rows, ids, store, pel, wpc, wtask, plan>>
          /\ At(a) = "end" /\ At(a)' \in {"deleteRows", "deleteChunks", "plan", "abort"}
          /\ \A b \in Api \ {a} : todo'[b] = todo[b]
      BY <2>0, <2>3, ArriveStep DEF rowVars, queueVars, workVars
    <3>2. \/ todo' = [todo EXCEPT ![a] = ParseSteps]
          \/ todo' = [todo EXCEPT ![a] = ChunksSteps]
          \/ todo' = [todo EXCEPT ![a] = QueueTasks]
      BY <2>3 DEF Arrive, Parse, ParseChunks, Rerun, Stop, Cancel, Arrives
    <3>3. todo'[a] \notin {RowsGone, ChunksGone}
      BY <2>0, <3>2, TwoOrders
    <3>4. ~Replacing(a)
      BY <2>1, <3>1 DEF Replacing, Planned
    <3>5. QED
      BY <2>2, <3>1, <3>3, <3>4 DEF Planned
  <2>4. ASSUME NEW a \in Api, NEW step \in QueueStep, Do(a, step)
        PROVE  /\ At(a) = step /\ todo[a] \in QueueTodo /\ Head(todo[a]) = step
               /\ todo'[a] = Tail(todo[a])
               /\ step # "publish" => /\ At(a)' \in After(step) /\ Quiet
                                      /\ \A b \in Api \ {a} : todo[b] = <<>> /\ todo'[b] = <<>>
    <3>1. todo[a] # <<>> /\ Head(todo[a]) = step /\ todo' = [todo EXCEPT ![a] = Tail(@)]
      BY <2>4 DEF Do
    <3>2. todo[a] \in QueueTodo /\ Queues(a) /\ todo'[a] = Tail(todo[a])
      BY <2>0, <3>1 DEF Queues
    <3>3. At(a) = step /\ (step # "publish" => At(a)' \in After(step))
      BY <2>0, <2>4, <3>2, DoStep
    <3>4. step # "publish" => Quiet
      BY <3>2, <3>3 DEF SeparateInv
    <3>5. \A b \in Api \ {a} : todo[b] = <<>> /\ todo'[b] = <<>>
      BY <2>0, <3>1, <3>2 DEF SeparateInv, Queues
    <3>6. QED
      BY <3>1, <3>2, <3>3, <3>4, <3>5
  <2>5. ASSUME NEW a \in Api, NEW step \in QueueStep, Do(a, step), step # "publish",
               UNCHANGED <<wpc, wtask>>,
               todo'[a] = ChunksGone => store' = {},
               At(a)' \in {"dropRows", "dropPlanned"} =>
                  \A c \in store' : c \in plan'[a].drop \/ Reused(a, c)',
               At(a)' \in {"setChunkNum", "insertRows"} => \A c \in store' : Reused(a, c)',
               ~Replacing(a)' => \A c \in store' : IsListed(c)'
        PROVE  ListedInv'
    <3>1. \A b \in Api \ {a} : todo'[b] = <<>>
      BY <2>4, <2>5
    <3>2. \A b \in Api \ {a} : At(b)' = "end" /\ todo'[b] # ChunksGone
      BY <2>1, <3>1 DEF At
    <3>3. QED
      BY <2>5, <3>2 DEF ListedInv
  <2>6. ASSUME NEW a \in Api, DeleteRows(a) PROVE ListedInv'
    <3>1. Do(a, "deleteRows") /\ UNCHANGED <<wpc, wtask, store>>
      BY <2>6 DEF DeleteRows, workVars
    <3>2. /\ todo[a] \in {ParseSteps, ChunksGone} /\ todo'[a] = Tail(todo[a])
          /\ At(a)' \in {"deleteRows", "deleteChunks", "plan"}
      BY <2>4, <3>1, TwoOrders DEF QueueStep, After
    <3>3. CASE todo[a] = ParseSteps
      <4>1. todo'[a] = RowsGone
        BY <3>2, <3>3 DEF RowsGone
      <4>2. Replacing(a)' /\ todo'[a] # ChunksGone
        BY <2>1, <4>1 DEF Replacing
      <4>3. QED
        BY <2>5, <3>1, <3>2, <4>2 DEF QueueStep
    <3>4. CASE todo[a] = ChunksGone
      <4>1. store' = {}
        BY <3>1, <3>4 DEF ListedInv
      <4>2. QED
        BY <2>5, <3>1, <4>1 DEF QueueStep
    <3>5. QED
      BY <3>2, <3>3, <3>4
  <2>7. ASSUME NEW a \in Api, DeleteChunks(a) PROVE ListedInv'
    <3>1. Do(a, "deleteChunks") /\ UNCHANGED <<wpc, wtask>> /\ store' = {}
      BY <2>7 DEF DeleteChunks, workVars
    <3>2. QED
      BY <2>5, <3>1 DEF QueueStep
  <2>8. ASSUME NEW a \in Api, Plan(a) PROVE ListedInv'
    <3>1. Do(a, "plan") /\ UNCHANGED <<wpc, wtask, store, rows, ids>>
      BY <2>8 DEF Plan, rowVars, workVars
    <3>2. /\ At(a) = "plan" /\ At(a)' = "dropRows" /\ Quiet
          /\ \A b \in Api \ {a} : todo[b] = <<>>
      BY <2>4, <3>1 DEF QueueStep, After
    <3>3. \A b \in Api : ~Replacing(b)
      BY <2>1, <3>2 DEF Replacing, Planned, At
    <3>4. \A c : ~Awaited(c)
      BY <3>2 DEF Quiet, Awaited, ToList
    <3>5. /\ plan'[a].reuse = {p \in Part : Reusable(p)}
          /\ plan'[a].drop = {ChunkOf(t) : t \in {u \in rows \cap ids :
                                                  PartOf(u) \notin plan'[a].reuse}}
      BY <2>0, <2>8 DEF Plan
    <3>6. ASSUME NEW c \in store PROVE c \in plan'[a].drop \/ Reused(a, c)'
      <4>1. PICK t \in ids \cap rows : ChunkOf(t) = c
        BY <3>3, <3>4 DEF ListedInv, IsListed
      <4>2. CASE PartOf(t) \in plan'[a].reuse
        <5>1. SameConfig /\ c = <<1, PartOf(t)>>
          BY <3>5, <4>1, <4>2 DEF Reusable, ChunkOf
        <5>2. QED
          BY <4>2, <5>1 DEF Reused
      <4>3. QED
        BY <3>5, <4>1, <4>2
    <3>7. Replacing(a)' /\ todo'[a] # ChunksGone
      BY <2>1, <3>2 DEF Replacing, Planned
    <3>8. QED
      BY <2>5, <3>1, <3>2, <3>6, <3>7 DEF QueueStep
  <2>9. ASSUME NEW a \in Api, DropRows(a) \/ DropPlanned(a) \/ SetChunkNum(a) PROVE ListedInv'
    <3>1. PICK step \in {"dropRows", "dropPlanned", "setChunkNum"} :
             /\ Do(a, step) /\ UNCHANGED <<wpc, wtask, plan>>
             /\ store' = IF step = "dropPlanned" THEN store \ plan[a].drop ELSE store
      BY <2>9 DEF DropRows, DropPlanned, SetChunkNum, workVars
    <3>2. step \in QueueStep /\ step # "publish"
      BY DEF QueueStep
    <3>3. At(a) = step /\ At(a)' \in After(step)
      BY <2>4, <3>1, <3>2
    <3>4. \A c : Reused(a, c)' = Reused(a, c)
      BY <3>1 DEF Reused
    <3>5. At(a)' \in Planned /\ (At(a)' \in {"dropRows", "dropPlanned"} => step = "dropRows")
      BY <3>3 DEF After, Planned
    <3>6. /\ step = "dropRows" => \A c \in store' : c \in plan'[a].drop \/ Reused(a, c)'
          /\ step # "dropRows" => \A c \in store' : Reused(a, c)'
      BY <3>1, <3>3, <3>4 DEF ListedInv
    <3>7. At(a)' \in {"setChunkNum", "insertRows"} => step # "dropRows"
      BY <3>3 DEF After
    <3>8. Replacing(a)' /\ todo'[a] # ChunksGone
      BY <2>1, <3>5 DEF Replacing, Planned
    <3>9. QED
      BY <2>5, <3>1, <3>2, <3>5, <3>6, <3>7, <3>8
  <2>10. ASSUME NEW a \in Api, InsertRows(a) PROVE ListedInv'
    <3>1. /\ Do(a, "insertRows") /\ UNCHANGED <<wpc, wtask, store>>
          /\ rows' = rows \cup ({run + 1} \X Part)
          /\ ids' = ids \cup ({run + 1} \X plan[a].reuse)
      BY <2>10 DEF InsertRows, workVars
    <3>2. At(a) = "insertRows" /\ At(a)' = "begin"
      BY <2>4, <3>1 DEF QueueStep, After
    <3>3. ASSUME NEW c \in store PROVE IsListed(c)'
      <4>1. PICK p \in plan[a].reuse : SameConfig /\ c = <<1, p>>
        BY <3>2 DEF ListedInv, Reused
      <4>2. p \in Part
        BY <2>0
      <4>3. <<run + 1, p>> \in ids' \cap rows'
        BY <3>1, <4>2
      <4>4. \E t \in ids' \cap rows' : t[2] = p
        BY <4>3
      <4>5. QED
        BY <4>1, <4>4 DEF IsListed, ChunkOf, PartOf
    <3>4. todo'[a] # ChunksGone
      BY <2>1, <3>2
    <3>5. QED
      BY <2>5, <3>1, <3>2, <3>3, <3>4 DEF QueueStep
  <2>11. ASSUME NEW a \in Api, Begin(a) \/ SeedRun(a) PROVE ListedInv'
    <3>1. PICK step \in {"begin", "seed"} :
             Do(a, step) /\ UNCHANGED <<rows, ids, store, pel, wpc, wtask, plan>>
      BY <2>11 DEF Begin, SeedRun, rowVars, queueVars, workVars
    <3>2. At(a) = step /\ At(a)' \in {"seed", "publish"}
      BY <2>4, <3>1 DEF QueueStep, After
    <3>3. \A b \in Api \ {a} : todo'[b] = todo[b]
      BY <2>0, <3>1, DoStep
    <3>4. ~Replacing(a) /\ todo'[a] \notin {RowsGone, ChunksGone} /\ At(a)' \notin Planned
      BY <2>1, <3>2 DEF Replacing, Planned
    <3>5. QED
      BY <2>2, <3>1, <3>3, <3>4
  <2>12. ASSUME NEW a \in Api, Publish(a) PROVE ListedInv'
    <3>1. At(a) = "publish" /\ UNCHANGED <<rows, ids, store, pel, wpc, wtask>>
      BY <2>12 DEF Publish, At, rowVars, workVars
    <3>2. /\ todo' = todo \/ todo' = [todo EXCEPT ![a] = <<>>]
          /\ \A b \in Api \ {a} : plan'[b] = plan[b]
      BY <2>0, <2>12 DEF Publish
    <3>3. \A b \in Api \ {a} : todo'[b] = todo[b]
      BY <2>0, <3>2
    <3>4. At(a)' \in {"publish", "end"}
      BY <2>0, <3>1, <3>2 DEF At
    <3>5. ~Replacing(a) /\ todo'[a] \notin {RowsGone, ChunksGone} /\ At(a)' \notin Planned
      BY <2>1, <3>1, <3>4 DEF Replacing, Planned
    <3>6. QED
      BY <2>2, <3>1, <3>2, <3>3, <3>5
  <2>13. ASSUME NEW a \in Api,
                \/ AbortRun(a) \/ CancelRows(a) \/ StopDoc(a) \/ PublishFails(a)
                \/ RequestDies(a)
         PROVE  FALSE
    BY <2>13, NobodyStops DEF PublishFails, RequestDies
  <2>14. ASSUME NEW w \in Worker, WorkerStep(w) \/ Crash(w)
         PROVE  /\ UNCHANGED <<apiVars, rows>> /\ ids \subseteq ids'
                /\ \A a \in Api : /\ ~Replacing(a) /\ ~Replacing(a)'
                                  /\ At(a)' \notin Planned /\ todo'[a] # ChunksGone
                /\ \A c \in store : IsListed(c) \/ Awaited(c)
    <3>1. UNCHANGED <<apiVars, rows>> /\ ids \subseteq ids' /\ ~Quiet
      BY <2>14, ExecutorStep
    <3>2. ASSUME NEW a \in Api
          PROVE  At(a) \in {"publish", "end"}
      BY <2>0, <3>1 DEF SeparateInv, Queues, At
    <3>3. ASSUME NEW a \in Api
          PROVE  ~Replacing(a) /\ todo[a] # ChunksGone /\ At(a) \notin Planned
      BY <2>1, <3>2 DEF Replacing, Planned
    <3>4. \A a \in Api : Replacing(a)' = Replacing(a) /\ At(a)' = At(a)
      BY <3>1 DEF Replacing, At, apiVars
    <3>5. QED
      BY <3>1, <3>3, <3>4 DEF ListedInv, apiVars
  <2>15. ASSUME NEW w \in Worker, WorkerStep(w) \/ Crash(w),
                \A v \in Worker \ {w} : wpc'[v] = wpc[v] /\ wtask'[v] = wtask[v]
                                        /\ pel'[v] = pel[v],
                wpc'[w] \in {"insert", "index"} => PartOf(wtask'[w]) \notin Blank,
                \A t \in Task : ToList(w, t) => ToList(w, t)' \/ t \in ids' \cap rows',
                \A c \in store' : c \in store \/ Awaited(c)'
         PROVE  ListedInv'
    <3>1. \A v \in Worker \ {w} : \A t : ToList(v, t) => ToList(v, t)'
      BY <2>15 DEF ToList
    <3>2. \A t : ChunkOf(t)' = ChunkOf(t)
      BY DEF ChunkOf, PartOf
    <3>3. ASSUME NEW c \in store' PROVE IsListed(c)' \/ Awaited(c)'
      <4>1. CASE IsListed(c)
        BY <2>14, <2>15, <3>2, <4>1 DEF IsListed
      <4>2. CASE Awaited(c)
        <5>1. PICK v \in Worker, t \in Task : ToList(v, t) /\ ChunkOf(t) = c
          BY <4>2 DEF Awaited
        <5>2. ToList(v, t)' \/ t \in ids' \cap rows'
          BY <2>15, <3>1, <5>1
        <5>3. QED
          BY <3>2, <5>1, <5>2 DEF IsListed, Awaited
      <4>3. QED
        BY <2>14, <2>15, <4>1, <4>2
    <3>4. \A v \in Worker : wpc'[v] \in {"insert", "index"} => PartOf(wtask'[v]) \notin Blank
      BY <2>15 DEF ListedInv
    <3>5. QED
      BY <2>14, <2>15, <3>3, <3>4 DEF ListedInv, Planned, PartOf
  <2>16. ASSUME NEW w \in Worker, Collect(w) PROVE ListedInv'
    <3>1. /\ store' = store /\ wpc' = [wpc EXCEPT ![w] = "received"]
      BY <2>16 DEF Collect, Goto
    <3>2. /\ \A v \in Worker \ {w} : wpc'[v] = wpc[v] /\ wtask'[v] = wtask[v] /\ pel'[v] = pel[v]
          /\ wpc'[w] = "received" /\ pel[w] \subseteq pel'[w]
      BY <2>0, <2>16, <3>1 DEF Collect, queueVars
    <3>3. \A t \in Task : ToList(w, t) => ToList(w, t)'
      BY <3>2 DEF ToList
    <3>4. QED
      BY <2>15, <2>16, <3>1, <3>2, <3>3 DEF WorkerStep
  <2>17. ASSUME NEW w \in Worker, Receive(w) PROVE ListedInv'
    <3>1. /\ UNCHANGED <<store, wtask, pel>> /\ wpc[w] = "received"
      BY <2>17 DEF Receive, queueVars
    <3>2. wpc' = [wpc EXCEPT ![w] = "build"]
      BY <2>0, <2>17 DEF Receive, Goto, UnstoppedInv
    <3>3. /\ \A v \in Worker \ {w} : wpc'[v] = wpc[v]
          /\ wpc'[w] = "build"
      BY <2>0, <3>2
    <3>4. \A t \in Task : ToList(w, t) => ToList(w, t)'
      BY <3>1, <3>3 DEF ToList
    <3>5. QED
      BY <2>15, <2>17, <3>1, <3>3, <3>4 DEF WorkerStep
  <2>18. ASSUME NEW w \in Worker, Abandon(w) PROVE FALSE
    <3>1. tries[wtask[w]] >= 3 /\ tries[wtask[w]] <= crashes
      BY <2>18 DEF Abandon, TriesInv, TriesAreCrashes
    <3>2. crashes \in Nat /\ crashes <= 2 /\ tries[wtask[w]] \in Nat
      BY <2>0, <2>18, ChunkingAssumption
         DEF Abandon, PipelineInv, TypeOK, WorkTypeOK, RowTypeOK
    <3>3. QED
      BY <3>1, <3>2
  <2>19. ASSUME NEW w \in Worker, Build(w) PROVE ListedInv'
    <3>1. UNCHANGED <<store, wtask, pel>> /\ wpc[w] = "build"
      BY <2>19 DEF Build, Proceeds, queueVars
    <3>2. wpc' = [wpc EXCEPT ![w] = IF PartOf(wtask[w]) \in Blank THEN "credit" ELSE "insert"]
      BY <2>19 DEF Build, Proceeds, Ask, Goto, UnstoppedInv
    <3>3. /\ \A v \in Worker \ {w} : wpc'[v] = wpc[v]
          /\ PartOf(wtask[w]) \in Blank => wpc'[w] = "credit"
          /\ PartOf(wtask[w]) \notin Blank => wpc'[w] = "insert"
      BY <2>0, <3>2
    <3>4. \A t \in Task : ToList(w, t) => ToList(w, t)'
      BY <3>1, <3>3 DEF ToList
    <3>5. QED
      BY <2>15, <2>19, <3>1, <3>3, <3>4 DEF WorkerStep
  <2>20. ASSUME NEW w \in Worker, Insert(w) PROVE ListedInv'
    <3>1. /\ UNCHANGED <<wtask, pel>> /\ wpc[w] = "insert"
          /\ store' = store \cup {ChunkOf(wtask[w])}
      BY <2>20 DEF Insert, Proceeds, queueVars
    <3>2. wpc' = [wpc EXCEPT ![w] = "index"]
      BY <2>20 DEF Insert, Proceeds, Ask, Goto, UnstoppedInv
    <3>3. wpc'[w] = "index" /\ \A v \in Worker \ {w} : wpc'[v] = wpc[v]
      BY <2>0, <3>2
    <3>4. wtask[w] \in Task /\ wtask[w] \in pel[w] /\ PartOf(wtask[w]) \notin Blank
      BY <2>0, <3>1 DEF ListedInv
    <3>5. \A t \in Task : ToList(w, t) => ToList(w, t)'
      BY <3>1, <3>3 DEF ToList
    <3>6. Awaited(ChunkOf(wtask[w]))'
      <4>1. ToList(w, wtask[w])'
        BY <3>1, <3>3, <3>4 DEF ToList, PartOf
      <4>2. QED
        BY <3>1, <3>4, <4>1 DEF Awaited, ChunkOf, PartOf
    <3>7. QED
      BY <2>15, <2>20, <3>1, <3>3, <3>4, <3>5, <3>6 DEF WorkerStep
  <2>21. ASSUME NEW w \in Worker, Index(w) PROVE ListedInv'
    <3>1. /\ UNCHANGED <<store, wtask, pel, rows>> /\ wpc[w] = "index"
          /\ ids' = ids \cup ({wtask[w]} \cap rows)
      BY <2>21 DEF Index, Proceeds, queueVars
    <3>2. wpc' = [wpc EXCEPT ![w] = "count"]
      BY <2>21 DEF Index, Proceeds, Ask, Goto, UnstoppedInv
    <3>3. wpc'[w] = "count" /\ \A v \in Worker \ {w} : wpc'[v] = wpc[v]
      BY <2>0, <3>2
    <3>4. wtask[w] \in ids' \cap rows'
      BY <2>0, <3>1
    <3>5. \A t \in Task : ToList(w, t) => ToList(w, t)' \/ t \in ids' \cap rows'
      BY <3>1, <3>4 DEF ToList
    <3>6. QED
      BY <2>15, <2>21, <3>1, <3>3, <3>5 DEF WorkerStep
  <2>22. ASSUME NEW w \in Worker,
                \/ Increment(w) \/ Credit(w) \/ Gate(w) \/ Finalize(w) \/ Finish(w)
                \/ LeaveHandler(w) \/ Report(w) \/ LogRead(w) \/ LogWrite(w)
         PROVE  ListedInv'
    <3>1. /\ UNCHANGED <<store, wtask, pel>>
          /\ wpc[w] \notin {"received", "build", "insert", "index"}
      BY <2>22 DEF Increment, Credit, Gate, Finalize, Finish, LeaveHandler, Report, LogRead,
         LogWrite, Proceeds, queueVars
    <3>2. \A v \in Worker \ {w} : wpc'[v] = wpc[v]
      BY <2>0, <2>22 DEF Increment, Credit, Gate, Finalize, Finish, LeaveHandler, Report, LogRead,
         LogWrite, Proceeds, Ask, Goto
    <3>3. wpc'[w] \notin {"insert", "index"}
      BY <2>0, <2>22 DEF Increment, Credit, Gate, Finalize, Finish, LeaveHandler, Report, LogRead,
         LogWrite, Proceeds, Ask, Goto, AfterHandler
    <3>4. \A t \in Task : ToList(w, t) => ToList(w, t)'
      BY <3>1 DEF ToList
    <3>5. QED
      BY <2>15, <2>22, <3>1, <3>2, <3>3, <3>4 DEF WorkerStep
  <2>23. ASSUME NEW w \in Worker, Ack(w) \/ Crash(w) PROVE ListedInv'
    <3>1. /\ store' = store /\ wtask' = [wtask EXCEPT ![w] = NoTask]
          /\ wpc' = [wpc EXCEPT ![w] = "idle"]
          /\ pel' = pel \/ (wpc[w] = "ack" /\ pel' = [pel EXCEPT ![w] = @ \ {wtask[w]}])
      BY <2>23 DEF Ack, Crash, Goto, queueVars
    <3>2. /\ \A v \in Worker \ {w} : wpc'[v] = wpc[v] /\ wtask'[v] = wtask[v] /\ pel'[v] = pel[v]
          /\ wpc'[w] = "idle" /\ wtask'[w] = NoTask
      BY <2>0, <3>1
    <3>3. ASSUME NEW t \in Task, ToList(w, t) PROVE ToList(w, t)'
      <4>1. t \in pel'[w]
        BY <2>0, <3>1, <3>3 DEF ToList
      <4>2. QED
        BY <2>0, <3>2, <3>3, <4>1 DEF ToList
    <3>4. QED
      BY <2>15, <2>23, <3>1, <3>2, <3>3 DEF WorkerStep
  <2>24. ASSUME NEW w \in Worker,
                SeeCancel(w) \/ Purge(w) \/ CreditFails(w) \/ Fail(w) \/ Drop(w)
         PROVE  FALSE
    BY <2>24 DEF SeeCancel, Purge, CreditFails, Fail, Drop, UnstoppedInv
  <2>25. ASSUME UNCHANGED <<apiVars, rows, ids, store, pel, wpc, wtask>> PROVE ListedInv'
    <3>1. \A c : /\ IsListed(c)' = IsListed(c) /\ Awaited(c)' = Awaited(c)
                 /\ \A b \in Api : Reused(b, c)' = Reused(b, c)
      BY <2>25 DEF IsListed, Awaited, ToList, Reused, apiVars
    <3>2. \A b \in Api : At(b)' = At(b) /\ Replacing(b)' = Replacing(b)
      BY <2>25 DEF At, Replacing, apiVars
    <3>3. QED
      BY <2>25, <3>1, <3>2 DEF ListedInv, apiVars
  <2>26. CASE SyncSelect \/ SyncRead \/ SyncWrite
    BY <2>25, <2>26, SyncStep DEF rowVars, queueVars, workVars
  <2>27. CASE UNCHANGED vars
    BY <2>25, <2>27 DEF vars, rowVars, queueVars, workVars
  <2>28. QED
    BY <2>3, <2>6, <2>7, <2>8, <2>9, <2>10, <2>11, <2>12, <2>13, <2>16, <2>17, <2>18, <2>19,
       <2>20, <2>21, <2>22, <2>23, <2>24, <2>26, <2>27 DEF Next, RequestStep, WorkerStep
<1>3. QED
  BY <1>1, <1>2, PipelineInvAlways, RequestInvAlways, SeparateInvAlways, UnstoppedInvAlways,
     HasRowAlways, TriesInvAlways, PTL DEF Spec

(***************************************************************************)
(* At rest every chunk in the store is listed by the row of a task, where  *)
(* a later request finds it, as long as requests do not overlap, nobody    *)
(* stops the document, nothing but executors fails, and these crash twice  *)
(* at most: a third crash may use up the attempts of a task after its      *)
(* chunk was inserted and before it was listed.                            *)
(***************************************************************************)
THEOREM StoredIsListedAlways ==
  ASSUME Disjoint, ~Faulty, ~ApiFails, Requests \cap {"stop", "cancel"} = {},
         MaxCrashes <= 2
  PROVE  Spec => []StoredIsListed
<1>1. ListedInv => StoredIsListed
  <2> SUFFICES ASSUME ListedInv, AtRest, NEW c \in store
               PROVE  \E t \in ids \cap rows : ChunkOf(t) = c
    BY DEF StoredIsListed
  <2>1. \A a \in Api : ~Replacing(a)
    BY TwoOrders, EmptyTodo DEF AtRest, Replacing, At, Planned
  <2>2. ~Awaited(c)
    BY DEF AtRest, Quiet, Awaited, ToList
  <2>3. QED
    BY <2>1, <2>2 DEF ListedInv, IsListed
<1>2. QED
  BY <1>1, ListedInvAlways, PTL

-----------------------------------------------------------------------------
(* Where an executor is before it credits its task.                        *)
ToGate == {"received", "build", "insert", "index", "count", "credit"}

IsFresh(t) == \E a \in Api : t \in plan[a].fresh

(* A task that will still pay: its message waits, or its executor has not  *)
(* come through the gate.                                                  *)
OnItsWay(t) ==
    \/ t \in InStream \/ IsFresh(t)
    \/ \E w \in Worker : wtask[w] = t /\ wpc[w] \in ToGate \cup {"gate"}

(* Until somebody is the last, the counter is there, it counts the unpaid  *)
(* tasks, of which there is one, and they are all on their way.            *)
LastInv ==
    /\ \A w \in Worker : pel[w] \subseteq {wtask[w]}
    /\ \A t \in marked :
          t \notin InStream /\ \A w \in Worker : wtask[w] = t => wpc[w] \notin ToGate
    /\ lasts = 0 /\ owed # {} => owed \ paid # {} /\ pending = Cardinality(owed \ paid)
    /\ lasts = 0 => \A t \in owed \ paid : OnItsWay(t)

(***************************************************************************)
(* If nothing fails and nobody stops the document, every task of a run     *)
(* comes to the gate, and none finds the counter gone, so that the last    *)
(* one to pay is told so.                                                  *)
(***************************************************************************)
THEOREM LastInvAlways ==
  ASSUME Disjoint, ~Faulty, ~ApiFails, MaxCrashes = 0, Requests \cap {"stop", "cancel"} = {}
  PROVE  Spec => []LastInv
<1>1. Init => LastInv
  BY DEF Init, CounterInit, LastInv
<1>2. /\ PipelineInv /\ RequestInv /\ UnstoppedInv /\ HasRow /\ MessageInv /\ TriesInv
      /\ CounterInv /\ LastInv /\ [Next]_vars
      => LastInv'
  <2> SUFFICES ASSUME PipelineInv, RequestInv, UnstoppedInv, HasRow, MessageInv, TriesInv,
                      CounterInv, LastInv, [Next]_vars
               PROVE  LastInv'
    OBVIOUS
  <2>0. /\ plan \in [Api -> [reuse : SUBSET Part, drop : SUBSET Task, found : BOOLEAN,
                             fresh : SUBSET Task]]
        /\ wpc \in [Worker -> Handling \cup {"idle", "received", "gate", "finalize",
                                             "leave", "purge", "report", "log", "logging",
                                             "ack"}]
        /\ wtask \in [Worker -> Task \cup {NoTask}] /\ NoTask \notin Task
        /\ stream \in Seq(Task) /\ pel \in [Worker -> SUBSET Task]
        /\ TodoOK
        /\ \A w \in Worker : wpc[w] # "idle" =>
              wtask[w] \in Task /\ wtask[w] \in pel[w] /\ wtask[w] \in rows
    BY CounterAssumption DEF PipelineInv, TypeOK, WorkTypeOK, ApiTypeOK, RequestInv, TodoOK,
       HandledIsUnacked, HasRow, InHand
  <2>1. ASSUME UNCHANGED <<stream, pel, wpc, wtask, pending, marked, owed, paid, lasts>>,
               \A t : IsFresh(t) => IsFresh(t)'
        PROVE  LastInv'
    <3>1. InStream' = InStream
      BY <2>1 DEF InStream
    <3>2. \A t : OnItsWay(t) => OnItsWay(t)'
      BY <2>1, <3>1 DEF OnItsWay
    <3>3. QED
      BY <2>1, <3>1, <3>2 DEF LastInv
  <2>2. ASSUME UNCHANGED plan PROVE \A t : IsFresh(t) => IsFresh(t)'
    BY <2>2 DEF IsFresh
  <2>3. ASSUME NEW a \in Api, Arrive(a) PROVE LastInv'
    BY <2>0, <2>1, <2>2, <2>3, ArriveStep DEF queueVars, workVars, counterVars
  <2>4. ASSUME NEW a \in Api, NEW step, Do(a, step), step \notin {"begin", "seed", "publish"}
        PROVE  plan[a].fresh = {}
    BY <2>0, <2>4, DoStep DEF RequestInv
  <2>5. ASSUME NEW a \in Api,
               DeleteRows(a) \/ DeleteChunks(a) \/ DropRows(a) \/ DropPlanned(a) \/ SetChunkNum(a)
               \/ Begin(a)
        PROVE  LastInv'
    BY <2>1, <2>2, <2>5 DEF DeleteRows, DeleteChunks, DropRows, DropPlanned, SetChunkNum, Begin,
       queueVars, workVars, counterVars
  <2>6. ASSUME NEW a \in Api, Plan(a) \/ InsertRows(a) PROVE LastInv'
    <3>1. /\ plan[a].fresh = {}
          /\ UNCHANGED <<queueVars, workVars, counterVars>>
      BY <2>4, <2>6 DEF Plan, InsertRows
    <3>2. \A b \in Api \ {a} : plan'[b] = plan[b]
      BY <2>0, <2>6 DEF Plan, InsertRows
    <3>3. \A t : IsFresh(t) => IsFresh(t)'
      BY <3>1, <3>2 DEF IsFresh
    <3>4. QED
      BY <2>1, <3>1, <3>3 DEF queueVars, workVars, counterVars
  <2>7. ASSUME NEW a \in Api, SeedRun(a) PROVE LastInv'
    <3>1. UNCHANGED <<queueVars, workVars, plan>>
      BY <2>7 DEF SeedRun
    <3>2. CASE plan[a].fresh = {}
      BY <2>1, <2>2, <2>7, <3>1, <3>2 DEF SeedRun, queueVars, workVars, counterVars
    <3>3. CASE plan[a].fresh # {}
      <4>1. /\ pending' = Cardinality(plan[a].fresh) /\ owed' = plan[a].fresh /\ paid' = {}
            /\ marked' = marked
        BY <2>7, <3>3 DEF SeedRun, Seed
      <4>2. \A t \in owed' : IsFresh(t)'
        BY <3>1, <4>1 DEF IsFresh
      <4>3. owed' \ paid' = owed'
        BY <4>1
      <4>4. InStream' = InStream
        BY <3>1 DEF queueVars, InStream
      <4>5. QED
        BY <3>1, <3>3, <4>1, <4>2, <4>3, <4>4 DEF LastInv, OnItsWay, queueVars, workVars
    <3>4. QED
      BY <3>2, <3>3
  <2>8. ASSUME NEW a \in Api, Publish(a) PROVE LastInv'
    <3>1. UNCHANGED <<pel, workVars, counterVars>>
      BY <2>8 DEF Publish
    <3>2. CASE plan[a].fresh = {}
      <4>1. stream' = stream /\ plan' = [plan EXCEPT ![a] = NoPlan]
        BY <2>8, <3>2 DEF Publish
      <4>2. \A b \in Api \ {a} : plan'[b] = plan[b]
        BY <2>0, <4>1
      <4>3. \A t : IsFresh(t) => IsFresh(t)'
        BY <3>2, <4>2 DEF IsFresh
      <4>4. QED
        BY <2>1, <3>1, <4>1, <4>3 DEF workVars, counterVars
    <3>3. CASE plan[a].fresh # {}
      <4>1. PICK t \in plan[a].fresh : /\ stream' = Append(stream, t)
                                       /\ plan' = [plan EXCEPT ![a].fresh = @ \ {t}]
        BY <2>8, <3>3 DEF Publish
      <4>2. t \in Task /\ t \notin marked
        BY <2>0, <4>1 DEF RequestInv
      <4>3. InStream' = InStream \cup {t}
        BY <2>0, <4>1, <4>2, StreamAppend
      <4>4. \A u : IsFresh(u) => u = t \/ IsFresh(u)'
        <5>1. \A b \in Api : \A u \in plan[b].fresh : u = t \/ u \in plan'[b].fresh
          BY <2>0, <4>1
        <5>2. QED
          BY <5>1 DEF IsFresh
      <4>5. \A u : OnItsWay(u) => OnItsWay(u)'
        BY <3>1, <4>3, <4>4 DEF OnItsWay, workVars
      <4>6. QED
        BY <3>1, <4>2, <4>3, <4>5 DEF LastInv, workVars, counterVars
    <3>4. QED
      BY <3>2, <3>3
  <2>9. ASSUME NEW a \in Api,
               \/ AbortRun(a) \/ CancelRows(a) \/ StopDoc(a) \/ PublishFails(a)
               \/ RequestDies(a)
        PROVE  FALSE
    BY <2>9, NobodyStops DEF PublishFails, RequestDies
  <2>10. ASSUME NEW w \in Worker,
                UNCHANGED <<stream, pel, wtask, apiVars, pending, marked, owed, paid, lasts>>,
                \A v \in Worker \ {w} : wpc'[v] = wpc[v],
                wpc[w] \in ToGate => wpc'[w] \in ToGate \cup {"gate"},
                wpc[w] = "gate" => wpc'[w] = "gate",
                wpc'[w] \in ToGate => wpc[w] \in ToGate
         PROVE  LastInv'
    <3>1. InStream' = InStream /\ \A t : IsFresh(t) => IsFresh(t)'
      BY <2>2, <2>10 DEF InStream, apiVars
    <3>2. \A v \in Worker : /\ wpc[v] \in ToGate \cup {"gate"} => wpc'[v] \in ToGate \cup {"gate"}
                            /\ wpc'[v] \in ToGate => wpc[v] \in ToGate
      BY <2>10
    <3>3. \A t : OnItsWay(t) => OnItsWay(t)'
      BY <2>10, <3>1, <3>2 DEF OnItsWay
    <3>4. QED
      BY <2>10, <3>1, <3>2, <3>3 DEF LastInv
  <2>11. ASSUME NEW w \in Worker, Collect(w) PROVE LastInv'
    <3>1. pel[w] = {} /\ replay[w] = {} /\ wpc[w] = "idle"
      <4>1. wpc[w] = "idle" /\ wtask[w] = NoTask
        BY <2>11 DEF Collect, PipelineInv, HandledIsUnacked
      <4>2. pel[w] \subseteq Task /\ pel[w] \subseteq {NoTask}
        BY <2>0, <4>1 DEF LastInv
      <4>3. QED
        BY <2>0, <4>1, <4>2 DEF PipelineInv, HandledIsUnacked
    <3>2. /\ stream # <<>> /\ stream' = Tail(stream)
          /\ wtask' = [wtask EXCEPT ![w] = Head(stream)]
          /\ pel' = [pel EXCEPT ![w] = @ \cup {Head(stream)}]
          /\ wpc' = [wpc EXCEPT ![w] = "received"]
          /\ UNCHANGED <<apiVars, counterVars>>
      BY <2>11, <3>1 DEF Collect, Goto
    <3>3. /\ Head(stream) \in InStream /\ InStream' \subseteq InStream
          /\ InStream \subseteq InStream' \cup {Head(stream)}
      <4>1. stream \in Seq(Task) /\ stream # <<>>
        BY <2>0, <3>2
      <4>2. /\ Head(stream) \in {stream[i] : i \in DOMAIN stream}
            /\ {Tail(stream)[i] : i \in DOMAIN Tail(stream)}
                 \subseteq {stream[i] : i \in DOMAIN stream}
            /\ {stream[i] : i \in DOMAIN stream}
                 \subseteq {Tail(stream)[i] : i \in DOMAIN Tail(stream)} \cup {Head(stream)}
        BY <4>1, StreamTail
      <4>3. QED
        BY <3>2, <4>2 DEF InStream
    <3>4. /\ wtask'[w] = Head(stream) /\ pel'[w] = {Head(stream)} /\ wpc'[w] = "received"
          /\ \A v \in Worker \ {w} : wtask'[v] = wtask[v] /\ pel'[v] = pel[v] /\ wpc'[v] = wpc[v]
      BY <2>0, <3>1, <3>2
    <3>5. \A t : OnItsWay(t) => OnItsWay(t)'
      <4>1. TAKE t
      <4>2. IsFresh(t) => IsFresh(t)'
        BY <2>2, <3>2 DEF apiVars
      <4>3. CASE t = Head(stream)
        BY <3>4, <4>3 DEF OnItsWay, ToGate
      <4>4. CASE t # Head(stream)
        BY <3>1, <3>3, <3>4, <4>2, <4>4 DEF OnItsWay, ToGate
      <4>5. QED
        BY <4>3, <4>4
    <3>6. \A v \in Worker : pel'[v] \subseteq {wtask'[v]}
      BY <3>4 DEF LastInv
    <3>7. \A t \in marked :
             t \notin InStream' /\ \A v \in Worker : wtask'[v] = t => wpc'[v] \notin ToGate
      BY <3>3, <3>4 DEF LastInv
    <3>8. QED
      BY <3>2, <3>5, <3>6, <3>7 DEF LastInv, counterVars
  <2>12. ASSUME NEW w \in Worker,
                \/ Receive(w) \/ Build(w) \/ Insert(w) \/ Index(w) \/ Increment(w) \/ Finish(w)
                \/ LeaveHandler(w) \/ Report(w) \/ LogRead(w) \/ LogWrite(w)
         PROVE  LastInv'
    <3>1. UNCHANGED <<queueVars, wtask, apiVars, counterVars>>
      BY <2>12 DEF Receive, Build, Insert, Index, Increment, Finish, LeaveHandler, Report, LogRead,
         LogWrite, Proceeds, UnstoppedInv
    <3>2. \A v \in Worker \ {w} : wpc'[v] = wpc[v]
      BY <2>0, <2>12 DEF Receive, Build, Insert, Index, Increment, Finish, LeaveHandler, Report,
         LogRead, LogWrite, Proceeds, Ask, Goto
    <3>3. CASE wpc[w] \in ToGate
      <4>1. wpc'[w] \in ToGate
        BY <2>0, <2>12, <3>3 DEF Receive, Build, Insert, Index, Increment, Finish, LeaveHandler,
           Report, LogRead, LogWrite, Proceeds, Ask, Goto, UnstoppedInv, ToGate
      <4>2. QED
        BY <2>10, <3>1, <3>2, <3>3, <4>1 DEF queueVars, counterVars, ToGate
    <3>4. CASE wpc[w] \notin ToGate
      <4>1. wpc[w] # "gate" /\ wpc'[w] \notin ToGate
        BY <2>0, <2>12, <3>4 DEF Receive, Build, Insert, Index, Increment, Finish, LeaveHandler,
           Report, LogRead, LogWrite, Proceeds, Goto, AfterHandler, ToGate
      <4>2. QED
        BY <2>10, <3>1, <3>2, <3>4, <4>1 DEF queueVars, counterVars
    <3>5. QED
      BY <3>3, <3>4
  <2>13. ASSUME NEW w \in Worker, Credit(w) PROVE LastInv'
    <3>1. wpc[w] = "credit" /\ UNCHANGED <<queueVars, wtask, apiVars>> /\ wtask[w] \notin marked
      BY <2>13 DEF Credit, LastInv, ToGate
    <3>2. /\ marked' = marked \cup {wtask[w]} /\ UNCHANGED <<pending, owed, paid, lasts>>
          /\ wpc' = [wpc EXCEPT ![w] = "gate"]
      BY <2>13, <3>1 DEF Credit, Mark, Goto
    <3>3. wpc'[w] = "gate" /\ \A v \in Worker \ {w} : wpc'[v] = wpc[v]
      BY <2>0, <3>2
    <3>4. InStream' = InStream /\ \A t : IsFresh(t) => IsFresh(t)'
      BY <2>2, <3>1 DEF InStream, queueVars, apiVars
    <3>5. \A t : OnItsWay(t) => OnItsWay(t)'
      BY <3>1, <3>3, <3>4 DEF OnItsWay
    <3>6. wtask[w] \notin InStream /\ \A v \in Worker \ {w} : wpc[v] # "idle" => wtask[v] # wtask[w]
      BY <2>0, <3>1 DEF MessageInv
    <3>7. \A t \in marked' :
             t \notin InStream' /\ \A v \in Worker : wtask'[v] = t => wpc'[v] \notin ToGate
      BY <3>1, <3>2, <3>3, <3>4, <3>6 DEF LastInv, ToGate
    <3>8. QED
      BY <3>1, <3>2, <3>5, <3>7 DEF LastInv, queueVars
  <2>14. ASSUME NEW w \in Worker, Gate(w) PROVE LastInv'
    <3>1. wpc[w] = "gate" /\ UNCHANGED <<queueVars, wtask, apiVars>>
      BY <2>14 DEF Gate
    <3>2. InGate(w) /\ wtask[w] \in owed \ paid
      BY <3>1 DEF PipelineInv, HandledIsUnacked, InGate, CounterInv, CountsUnpaid
    <3>3. lasts = 0 /\ pending = Cardinality(owed \ paid)
      BY <3>2 DEF CounterInv, CountsUnpaid, LastInv
    <3>4. IsFiniteSet(owed \ paid) /\ Cardinality(owed \ paid) \in Nat
      BY CounterAssumption, FS_Subset, FS_Difference, FS_CardinalityType
         DEF CounterInv, CounterTypeOK
    <3>5. pending # NoCount
      BY <3>3, <3>4, CounterAssumption
    <3>6. CASE FoundCounter(w) /\ UNCHANGED wpc
      BY <2>10, <3>1, <3>6 DEF FoundCounter, queueVars
    <3>7. CASE Decrement(w) /\ IF gate'[w] = "last" THEN Goto(w, "finalize") ELSE Ask(w, "finish")
      <4>1. /\ pending' = Cardinality(owed \ paid) - 1 /\ paid' = paid \cup {wtask[w]}
            /\ UNCHANGED <<marked, owed>>
            /\ lasts' = IF pending' = 0 THEN lasts + 1 ELSE lasts
        BY <3>1, <3>3, <3>5, <3>7
           DEF Decrement, Count, Leave, PipelineInv, HandledIsUnacked
      <4>2. IsFiniteSet(owed)
        BY CounterAssumption, FS_Subset DEF CounterInv, CounterTypeOK
      <4>3. Cardinality(owed' \ paid') = Cardinality(owed \ paid) - 1
        BY <3>2, <4>1, <4>2, PayOne
      <4>4. lasts' = 0 => owed' \ paid' # {} /\ pending' = Cardinality(owed' \ paid')
        <5>1. IsFiniteSet(owed' \ paid')
          BY <4>1, <4>2, FS_Difference
        <5>2. pending' = Cardinality(owed' \ paid')
          BY <4>1, <4>3
        <5>3. ASSUME pending' = 0 PROVE lasts' # 0
          <6>1. lasts' = 0 + 1
            BY <3>3, <4>1, <5>3
          <6>2. QED
            BY <6>1
        <5>4. owed' \ paid' = {} => Cardinality(owed' \ paid') = 0
          BY <5>1, FS_EmptySet
        <5>5. QED
          BY <5>2, <5>3, <5>4
      <4>5. /\ wpc'[w] \in {"finalize", "finish"} /\ \A v \in Worker \ {w} : wpc'[v] = wpc[v]
        BY <2>0, <3>7 DEF Goto, Ask, UnstoppedInv
      <4>6. InStream' = InStream /\ \A t : IsFresh(t) => IsFresh(t)'
        BY <2>2, <3>1 DEF InStream, queueVars, apiVars
      <4>7. \A t \in owed' \ paid' : OnItsWay(t) => OnItsWay(t)'
        BY <3>1, <4>1, <4>5, <4>6 DEF OnItsWay
      <4>8. \A t \in marked' :
               t \notin InStream' /\ \A v \in Worker : wtask'[v] = t => wpc'[v] \notin ToGate
        BY <3>1, <4>1, <4>5, <4>6 DEF LastInv, ToGate
      <4>9. \A v \in Worker : pel'[v] \subseteq {wtask'[v]}
        BY <3>1 DEF LastInv, queueVars
      <4>10. lasts' = 0 => \A t \in owed' \ paid' : OnItsWay(t)'
        BY <3>3, <4>1, <4>7 DEF LastInv
      <4>11. QED
        BY <4>4, <4>8, <4>9, <4>10 DEF LastInv
    <3>8. QED
      BY <2>14, <3>5, <3>6, <3>7 DEF Gate, NoCounter
  <2>15. ASSUME NEW w \in Worker, Finalize(w) PROVE LastInv'
    <3>1. /\ wpc[w] = "finalize" /\ gate[w] = "last" /\ UNCHANGED <<queueVars, wtask, apiVars>>
          /\ UNCHANGED <<marked, owed, paid, lasts>>
      BY <2>15 DEF Finalize, Clear
    <3>2. lasts' # 0
      BY <3>1 DEF CounterInv, CountsUnpaid
    <3>3. wpc'[w] = "finish" /\ \A v \in Worker \ {w} : wpc'[v] = wpc[v]
      BY <2>0, <2>15 DEF Finalize, Ask, Goto, UnstoppedInv
    <3>4. \A t \in marked' :
             t \notin InStream' /\ \A v \in Worker : wtask'[v] = t => wpc'[v] \notin ToGate
      BY <3>1, <3>3 DEF LastInv, InStream, queueVars, ToGate
    <3>5. QED
      BY <3>1, <3>2, <3>4 DEF LastInv, queueVars
  <2>16. ASSUME NEW w \in Worker, Ack(w) PROVE LastInv'
    <3>1. /\ wpc[w] = "ack" /\ wpc'[w] = "idle" /\ wtask'[w] = NoTask
          /\ pel'[w] = pel[w] \ {wtask[w]}
          /\ \A v \in Worker \ {w} : wpc'[v] = wpc[v] /\ wtask'[v] = wtask[v] /\ pel'[v] = pel[v]
          /\ UNCHANGED <<stream, apiVars, counterVars>>
      BY <2>0, <2>16 DEF Ack, Goto
    <3>2. InStream' = InStream /\ \A t : IsFresh(t) => IsFresh(t)'
      BY <2>2, <3>1 DEF InStream, apiVars
    <3>3. \A t : OnItsWay(t) => OnItsWay(t)'
      BY <3>1, <3>2 DEF OnItsWay, ToGate
    <3>4. \A v \in Worker : pel'[v] \subseteq {wtask'[v]}
      BY <3>1 DEF LastInv
    <3>5. \A t \in marked' :
             t \notin InStream' /\ \A v \in Worker : wtask'[v] = t => wpc'[v] \notin ToGate
      BY <3>1, <3>2 DEF LastInv, counterVars, ToGate
    <3>6. QED
      BY <3>1, <3>3, <3>4, <3>5 DEF LastInv, counterVars
  <2>17. ASSUME NEW w \in Worker, Abandon(w) \/ Crash(w) PROVE FALSE
    <3>1. crashes = 0
      BY DEF PipelineInv, TypeOK, WorkTypeOK
    <3>2. Abandon(w)
      BY <2>17, <3>1 DEF Crash
    <3>3. tries[wtask[w]] >= 3 /\ tries[wtask[w]] <= crashes /\ tries[wtask[w]] \in Nat
      BY <2>0, <3>2 DEF Abandon, TriesInv, TriesAreCrashes, PipelineInv, TypeOK, RowTypeOK
    <3>4. QED
      BY <3>1, <3>3
  <2>18. ASSUME NEW w \in Worker,
                SeeCancel(w) \/ Purge(w) \/ CreditFails(w) \/ Fail(w) \/ Drop(w)
         PROVE  FALSE
    BY <2>18 DEF SeeCancel, Purge, CreditFails, Fail, Drop, UnstoppedInv
  <2>19. CASE SyncSelect \/ SyncRead \/ SyncWrite
    BY <2>1, <2>2, <2>19, SyncStep DEF queueVars, workVars, counterVars, apiVars
  <2>20. CASE UNCHANGED vars
    BY <2>1, <2>2, <2>20 DEF vars, queueVars, workVars, counterVars, apiVars
  <2>21. QED
    BY <2>3, <2>5, <2>6, <2>7, <2>8, <2>9, <2>11, <2>12, <2>13, <2>14, <2>15, <2>16, <2>17,
       <2>18, <2>19, <2>20 DEF Next, RequestStep, WorkerStep
<1>3. Spec => []CounterInv
  BY CounterImplementedAlways, CounterInvAlways, PTL DEF CounterImplemented
<1>4. QED
  BY <1>1, <1>2, <1>3, PipelineInvAlways, RequestInvAlways, UnstoppedInvAlways, HasRowAlways,
     MessageInvAlways, TriesInvAlways, PTL DEF Spec

(***************************************************************************)
(* When all is at rest, also if the document is not DONE, somebody was     *)
(* the last of the tasks that were seeded, and ran the finalizers.         *)
(***************************************************************************)
THEOREM DoneMeansFinalizedAlways ==
  ASSUME Disjoint, ~Faulty, ~ApiFails, MaxCrashes = 0, Requests \cap {"stop", "cancel"} = {}
  PROVE  Spec => []DoneMeansFinalized
<1>1. PipelineInv /\ RequestInv /\ LastInv => DoneMeansFinalized
  <2> SUFFICES ASSUME PipelineInv, RequestInv, LastInv, AtRest, lasts = 0
               PROVE  owed = {}
    BY DEF DoneMeansFinalized, PipelineInv, SpentAfterLast
  <2>1. \A t : ~OnItsWay(t)
    <3>1. InStream = {} /\ \A w \in Worker : wpc[w] = "idle"
      BY DEF AtRest, Quiet, InStream
    <3>2. \A t : ~IsFresh(t)
      BY DEF IsFresh, AtRest, RequestInv, At
    <3>3. QED
      BY <3>1, <3>2 DEF OnItsWay, ToGate
  <2>2. QED
    BY <2>1 DEF LastInv
<1>2. QED
  BY <1>1, LastInvAlways, PipelineInvAlways, RequestInvAlways, PTL

-----------------------------------------------------------------------------
(* Blank page ranges have no chunk; if configurations do not differ, the   *)
(* chunks in the store are those of the other ones.                        *)
BlankHasNone ==
    /\ \A t \in ids : PartOf(t) \notin Blank
    /\ \A a \in Api : plan[a].reuse \cap Blank = {}
    /\ \A w \in Worker :
          wpc[w] \in {"insert", "index", "count"} => PartOf(wtask[w]) \notin Blank
    /\ SameConfig => \A c \in store : \E p \in Part \ Blank : c = <<1, p>>

(***************************************************************************)
(* Only what was inserted is listed, and only what is listed is reused, so *)
(* that a blank page range is neither, whatever fails and overlaps.        *)
(***************************************************************************)
THEOREM BlankHasNoneAlways == Spec => []BlankHasNone
<1>1. Init => BlankHasNone
  BY DEF Init, BlankHasNone, NoPlan
<1>2. PipelineInv /\ BlankHasNone /\ [Next]_vars => BlankHasNone'
  <2> SUFFICES ASSUME PipelineInv, BlankHasNone, [Next]_vars
               PROVE  BlankHasNone'
    OBVIOUS
  <2>0. /\ plan \in [Api -> [reuse : SUBSET Part, drop : SUBSET Task, found : BOOLEAN,
                             fresh : SUBSET Task]]
        /\ wpc \in [Worker -> Handling \cup {"idle", "received", "gate", "finalize",
                                             "leave", "purge", "report", "log", "logging",
                                             "ack"}]
        /\ wtask \in [Worker -> Task \cup {NoTask}]
        /\ \A w \in Worker : wpc[w] # "idle" => wtask[w] \in Task
    BY DEF PipelineInv, TypeOK, WorkTypeOK, ApiTypeOK, HandledIsUnacked
  <2>1. ASSUME UNCHANGED <<wpc, wtask>>, ids' \subseteq ids, store' \subseteq store,
               \A a \in Api : plan'[a].reuse \cap Blank = {}
        PROVE  BlankHasNone'
    BY <2>1 DEF BlankHasNone, PartOf
  <2>2. ASSUME UNCHANGED plan PROVE \A a \in Api : plan'[a].reuse \cap Blank = {}
    BY <2>2 DEF BlankHasNone
  <2>3. ASSUME NEW a \in Api, Arrive(a) PROVE BlankHasNone'
    BY <2>1, <2>2, <2>3 DEF Arrive, Parse, ParseChunks, Rerun, Stop, Cancel, Arrives, rowVars,
       workVars
  <2>4. ASSUME NEW a \in Api,
               \/ DeleteRows(a) \/ DeleteChunks(a) \/ AbortRun(a) \/ CancelRows(a) \/ StopDoc(a)
               \/ DropRows(a) \/ DropPlanned(a) \/ SetChunkNum(a) \/ Begin(a) \/ SeedRun(a)
        PROVE  BlankHasNone'
    <3>1. UNCHANGED <<wpc, wtask, plan>> /\ ids' \subseteq ids /\ store' \subseteq store
      BY <2>4 DEF DeleteRows, DeleteChunks, AbortRun, CancelRows, StopDoc, DropRows, DropPlanned,
         SetChunkNum, Begin, SeedRun, NoRows, rowVars, workVars
    <3>2. QED
      BY <2>1, <2>2, <3>1
  <2>5. ASSUME NEW a \in Api, Plan(a) PROVE BlankHasNone'
    <3>1. /\ UNCHANGED <<ids, store, wpc, wtask>>
          /\ plan'[a].reuse = {p \in Part : Reusable(p)}
          /\ \A b \in Api \ {a} : plan'[b] = plan[b]
      BY <2>0, <2>5 DEF Plan, rowVars, workVars
    <3>2. \A p \in plan'[a].reuse : p \notin Blank
      BY <3>1 DEF Reusable, BlankHasNone
    <3>3. \A b \in Api : plan'[b].reuse \cap Blank = {}
      BY <3>1, <3>2 DEF BlankHasNone
    <3>4. QED
      BY <2>1, <3>1, <3>3
  <2>6. ASSUME NEW a \in Api, InsertRows(a) PROVE BlankHasNone'
    <3>1. /\ UNCHANGED <<store, wpc, wtask>>
          /\ ids' = ids \cup ({run + 1} \X plan[a].reuse)
          /\ \A b \in Api : plan'[b].reuse = plan[b].reuse
      BY <2>0, <2>6 DEF InsertRows, workVars
    <3>2. \A t \in {run + 1} \X plan[a].reuse : PartOf(t) \notin Blank
      BY DEF PartOf, BlankHasNone
    <3>3. QED
      BY <3>1, <3>2 DEF BlankHasNone, PartOf
  <2>7. ASSUME NEW a \in Api, Publish(a) \/ PublishFails(a) \/ RequestDies(a)
        PROVE  BlankHasNone'
    <3>1. UNCHANGED <<ids, store, wpc, wtask>>
      BY <2>7 DEF Publish, PublishFails, RequestDies, rowVars, workVars
    <3>2. \/ plan' = [plan EXCEPT ![a] = NoPlan]
          \/ \E t \in plan[a].fresh : plan' = [plan EXCEPT ![a].fresh = @ \ {t}]
      BY <2>7 DEF Publish, PublishFails, RequestDies
    <3>3. \A b \in Api : plan'[b].reuse \in {plan[b].reuse, {}}
      BY <2>0, <3>2 DEF NoPlan
    <3>4. QED
      BY <2>1, <3>1, <3>3 DEF BlankHasNone
  <2>8. ASSUME NEW w \in Worker, UNCHANGED plan,
               ids' \subseteq ids \cup {wtask[w]}, wpc[w] # "index" => ids' = ids,
               store' \subseteq store \cup {ChunkOf(wtask[w])},
               wpc[w] # "insert" => store' \subseteq store,
               \A v \in Worker \ {w} : wpc'[v] = wpc[v] /\ wtask'[v] = wtask[v],
               wpc'[w] \in {"insert", "index", "count"} =>
                  /\ wtask'[w] = wtask[w]
                  /\ wpc[w] \in {"insert", "index"} \/ PartOf(wtask[w]) \notin Blank
        PROVE  BlankHasNone'
    <3>1. \A v \in Worker :
             wpc'[v] \in {"insert", "index", "count"} => PartOf(wtask'[v]) \notin Blank
      BY <2>8 DEF BlankHasNone
    <3>2. \A t \in ids' : PartOf(t) \notin Blank
      BY <2>8 DEF BlankHasNone
    <3>3. ASSUME SameConfig, NEW c \in store' PROVE \E p \in Part \ Blank : c = <<1, p>>
      <4>1. CASE c \in store
        BY <3>3, <4>1 DEF BlankHasNone
      <4>2. CASE c \notin store
        <5>1. wpc[w] = "insert" /\ c = <<1, PartOf(wtask[w])>>
          BY <2>8, <3>3, <4>2 DEF ChunkOf
        <5>2. PartOf(wtask[w]) \in Part \ Blank
          BY <2>0, <5>1, ChunkIsTask DEF BlankHasNone
        <5>3. QED
          BY <5>1, <5>2
      <4>3. QED
        BY <4>1, <4>2
    <3>4. QED
      BY <2>2, <2>8, <3>1, <3>2, <3>3 DEF BlankHasNone, PartOf
  <2>9. ASSUME NEW w \in Worker, WorkerStep(w) \/ CreditFails(w) \/ Fail(w) \/ Drop(w) \/ Crash(w)
        PROVE  /\ UNCHANGED plan
               /\ ids' \subseteq ids \cup {wtask[w]} /\ (wpc[w] # "index" => ids' = ids)
    BY <2>9 DEF WorkerStep, Collect, Receive, Abandon, SeeCancel, Build, Insert, Index, Increment,
       Credit, Gate, Finalize, Finish, LeaveHandler, Purge, Report, LogRead, LogWrite, Ack,
       CreditFails, Fail, Drop, Crash, Proceeds, rowVars, apiVars
  <2>10. ASSUME NEW w \in Worker, WorkerStep(w) \/ CreditFails(w) \/ Fail(w) \/ Drop(w) \/ Crash(w)
         PROVE  /\ store' \subseteq store \cup {ChunkOf(wtask[w])}
                /\ wpc[w] # "insert" => store' \subseteq store
    BY <2>10 DEF WorkerStep, Collect, Receive, Abandon, SeeCancel, Build, Insert, Index, Increment,
       Credit, Gate, Finalize, Finish, LeaveHandler, Purge, Report, LogRead, LogWrite, Ack,
       CreditFails, Fail, Drop, Crash, Proceeds
  <2>11. ASSUME NEW w \in Worker, WorkerStep(w) \/ CreditFails(w) \/ Fail(w) \/ Drop(w) \/ Crash(w)
         PROVE  \A v \in Worker \ {w} : wpc'[v] = wpc[v] /\ wtask'[v] = wtask[v]
    BY <2>0, <2>11 DEF WorkerStep, Collect, Receive, Abandon, SeeCancel, Build, Insert, Index,
       Increment, Credit, Gate, Finalize, Finish, LeaveHandler, Purge, Report, LogRead, LogWrite,
       Ack, CreditFails, Fail, Drop, Crash, Proceeds, Goto, Ask
  <2>12. ASSUME NEW w \in Worker, Build(w) PROVE BlankHasNone'
    <3>1. wtask' = wtask
      BY <2>12 DEF Build, Proceeds
    <3>2. wpc'[w] \in {"insert", "index", "count"} => PartOf(wtask[w]) \notin Blank
      BY <2>0, <2>12 DEF Build, Proceeds, Goto, Ask
    <3>3. WorkerStep(w)
      BY <2>12 DEF WorkerStep
    <3>4. QED
      BY <2>8, <2>9, <2>10, <2>11, <3>1, <3>2, <3>3
  <2>13. ASSUME NEW w \in Worker, Insert(w) \/ Index(w) PROVE BlankHasNone'
    <3>1. wtask' = wtask /\ wpc[w] \in {"insert", "index"}
      BY <2>13 DEF Insert, Index, Proceeds
    <3>2. WorkerStep(w)
      BY <2>13 DEF WorkerStep
    <3>3. QED
      BY <2>8, <2>9, <2>10, <2>11, <3>1, <3>2
  <2>14. ASSUME NEW w \in Worker,
                WorkerStep(w) \/ CreditFails(w) \/ Fail(w) \/ Drop(w) \/ Crash(w),
                ~Build(w), ~Insert(w), ~Index(w)
         PROVE  BlankHasNone'
    <3>1. wpc'[w] \notin {"insert", "index", "count"}
      BY <2>0, <2>14 DEF WorkerStep, Collect, Receive, Abandon, SeeCancel, Increment, Credit, Gate,
         Finalize, Finish, LeaveHandler, Purge, Report, LogRead, LogWrite, Ack, CreditFails,
         Fail, Drop, Crash, Proceeds, Goto, Ask, AfterHandler, FoundCounter
    <3>2. QED
      BY <2>8, <2>9, <2>10, <2>11, <2>14, <3>1
  <2>15. CASE SyncSelect \/ SyncRead \/ SyncWrite
    BY <2>1, <2>2, <2>15, SyncStep DEF rowVars, workVars, apiVars
  <2>16. CASE UNCHANGED vars
    BY <2>1, <2>2, <2>16 DEF vars, rowVars, workVars, apiVars
  <2>17. QED
    BY <2>3, <2>4, <2>5, <2>6, <2>7, <2>12, <2>13, <2>14, <2>15, <2>16 DEF Next, RequestStep
<1>3. QED
  BY <1>1, <1>2, PipelineInvAlways, PTL DEF Spec

-----------------------------------------------------------------------------
(* On the way to its report of 1.0, before and after it counts its chunk.  *)
Uncounted(w) == wpc[w] \in {"received", "build", "insert", "index", "count"}
Counted(w) == wpc[w] \in {"credit", "gate", "finalize", "finish"}
Active(w) == Uncounted(w) \/ Counted(w)

(* What is under way is not settled yet, so that nothing is under way in a *)
(* document that is DONE, or about to be.                                  *)
WorkInv ==
    /\ \A w \in Worker : replay[w] = {}
    /\ \A t \in InStream : t \in Unfinished
    /\ \A t : IsFresh(t) => t \in Unfinished
    /\ \A w \in Worker : Active(w) => wtask[w] \in Unfinished
    /\ DoneIsNear => rows # {} /\ Unfinished = {}

(* The status that is derived is DONE only if all tasks are done.          *)
LEMMA DerivedIsDone ==
  ASSUME PipelineInv, Derived.run = "DONE"
  PROVE  rows # {} /\ Unfinished = {} /\ \A t \in rows : prog[t] = "done"
<1>1. rows # {} /\ Unfinished = {} /\ Bad = {}
  BY DEF Derived, NoSync
<1>2. QED
  BY <1>1 DEF Unfinished, Bad, PipelineInv, TypeOK, RowTypeOK

(* Only a status that was derived from the rows says DONE.                 *)
LEMMA DoneStep ==
  ASSUME PipelineInv, DoneIsNear',
         \/ \E w \in Worker : WorkerStep(w) \/ CreditFails(w) \/ Fail(w) \/ Drop(w) \/ Crash(w)
         \/ SyncSelect \/ SyncRead \/ SyncWrite
  PROVE  DoneIsNear \/ Derived.run = "DONE"
<1>0. sync \in [Syncer -> SyncResult \cup {NoSync, Selected}]
  BY DEF PipelineInv, TypeOK, SyncTypeOK
<1>1. ASSUME NEW x \in Syncer, sync' = [sync EXCEPT ![x] = NoSync], docRun' \in {docRun, sync[x].run}
      PROVE  DoneIsNear
  BY <1>0, <1>1 DEF DoneIsNear, NoSync
<1>2. ASSUME NEW x \in Syncer, sync' = [sync EXCEPT ![x] = Derived], docRun' = docRun
      PROVE  DoneIsNear \/ Derived.run = "DONE"
  BY <1>0, <1>2 DEF DoneIsNear
<1>3. ASSUME docRun' \in {docRun, "FAIL"}, sync' = sync PROVE DoneIsNear
  BY <1>3 DEF DoneIsNear
<1>4. ASSUME NEW w \in Worker,
             \/ Collect(w) \/ Receive(w) \/ Abandon(w) \/ SeeCancel(w) \/ Build(w) \/ Insert(w)
             \/ Index(w) \/ Increment(w) \/ Credit(w) \/ Gate(w) \/ Finalize(w) \/ Finish(w)
             \/ LeaveHandler(w) \/ Purge(w) \/ Report(w) \/ Ack(w) \/ CreditFails(w) \/ Fail(w)
      PROVE  DoneIsNear
  <2>1. docRun' \in {docRun, "FAIL"} /\ sync' = sync
    BY <1>4 DEF Collect, Receive, Abandon, SeeCancel, Build, Insert, Index, Increment, Credit,
       Gate, Finalize, Finish, LeaveHandler, Purge, Report, Ack, CreditFails, Fail, Proceeds,
       FailTask, ReportFailure, docVars
  <2>2. QED
    BY <1>3, <2>1
<1>5. ASSUME NEW w \in Worker, LogRead(w) \/ LogWrite(w) \/ Drop(w) \/ Crash(w)
      PROVE  DoneIsNear \/ Derived.run = "DONE"
  <2>1. w \in Syncer
    BY DEF Syncer
  <2>2. CASE LogRead(w)
    BY <1>2, <2>1, <2>2 DEF LogRead, docVars
  <2>3. CASE LogWrite(w)
    BY <1>1, <2>1, <2>3 DEF LogWrite, WriteDerived
  <2>4. CASE Drop(w) \/ Crash(w)
    BY <1>1, <2>1, <2>4 DEF Drop, Crash, docVars
  <2>5. QED
    BY <1>5, <2>2, <2>3, <2>4
<1>6. ASSUME SyncSelect \/ SyncRead \/ SyncWrite PROVE DoneIsNear \/ Derived.run = "DONE"
  <2>1. Server \in Syncer
    BY DEF Syncer
  <2>2. CASE SyncSelect
    BY <1>0, <2>2 DEF SyncSelect, DoneIsNear, Selected, docVars
  <2>3. CASE SyncRead
    BY <1>2, <2>1, <2>3 DEF SyncRead, docVars
  <2>4. CASE SyncWrite
    BY <1>1, <2>1, <2>4 DEF SyncWrite, WriteDerived
  <2>5. QED
    BY <1>6, <2>2, <2>3, <2>4
<1>7. QED
  BY <1>4, <1>5, <1>6 DEF WorkerStep

(***************************************************************************)
(* A message that is handled is one of a task that is neither done nor     *)
(* failed: without crashes none comes twice.                               *)
(***************************************************************************)
THEOREM WorkInvAlways ==
  ASSUME Disjoint, Requests \cap {"stop", "cancel"} = {}, "chunks" \in Requests => ~ApiFails,
         MaxCrashes = 0
  PROVE  Spec => []WorkInv
<1>1. Init => WorkInv
  BY DEF Init, WorkInv, InStream, IsFresh, NoPlan, Active, Uncounted, Counted, DoneIsNear, NoSync
<1>2. /\ PipelineInv /\ RequestInv /\ SeparateInv /\ UnstoppedInv /\ StoredInv /\ HasRow
      /\ MessageInv /\ TriesInv /\ WorkInv /\ [Next]_vars
      => WorkInv'
  <2> SUFFICES ASSUME PipelineInv, RequestInv, SeparateInv, UnstoppedInv, StoredInv, HasRow,
                      MessageInv, TriesInv, WorkInv, [Next]_vars
               PROVE  WorkInv'
    OBVIOUS
  <2>0. /\ plan \in [Api -> [reuse : SUBSET Part, drop : SUBSET Task, found : BOOLEAN,
                             fresh : SUBSET Task]]
        /\ wpc \in [Worker -> Handling \cup {"idle", "received", "gate", "finalize",
                                             "leave", "purge", "report", "log", "logging",
                                             "ack"}]
        /\ wtask \in [Worker -> Task \cup {NoTask}] /\ NoTask \notin Task
        /\ stream \in Seq(Task) /\ pel \in [Worker -> SUBSET Task]
        /\ replay \in [Worker -> SUBSET Task]
        /\ prog \in [Task -> {"queued", "going", "done", "failed"}] /\ rows \subseteq Task
        /\ TodoOK /\ todo \in [Api -> QueueTodo \cup {<<>>}]
        /\ \A w \in Worker : wpc[w] # "idle" =>
              wtask[w] \in Task /\ wtask[w] \in pel[w] /\ wtask[w] \in rows
    BY CounterAssumption DEF PipelineInv, TypeOK, RowTypeOK, WorkTypeOK, ApiTypeOK, RequestInv,
       TodoOK, UnstoppedInv, HandledIsUnacked, HasRow, InHand
  <2>1. ASSUME UNCHANGED <<rows, prog, stream, wpc, wtask, replay>>, DoneIsNear' => DoneIsNear,
               \A t : IsFresh(t)' => IsFresh(t)
        PROVE  WorkInv'
    <3>1. InStream' = InStream /\ Unfinished' = Unfinished
      BY <2>1 DEF InStream, Unfinished
    <3>2. \A w \in Worker : Active(w)' => Active(w)
      BY <2>1 DEF Active, Uncounted, Counted
    <3>3. QED
      BY <2>1, <3>1, <3>2 DEF WorkInv
  <2>2. ASSUME NEW a \in Api, plan' = plan \/ plan' = [plan EXCEPT ![a] = NoPlan]
        PROVE  \A t : IsFresh(t)' => IsFresh(t)
    <3>1. \A b \in Api : plan'[b].fresh \subseteq plan[b].fresh
      BY <2>0, <2>2 DEF NoPlan
    <3>2. QED
      BY <3>1 DEF IsFresh
  <2>3. ASSUME NEW a \in Api, Arrive(a) PROVE WorkInv'
    <3>1. UNCHANGED <<plan, rows, prog, stream, wpc, wtask, replay, sync>>
      BY <2>0, <2>3, ArriveStep DEF rowVars, queueVars, workVars
    <3>2. docRun' \in {docRun, "RUNNING"}
      BY <2>3 DEF Arrive, Parse, ParseChunks, Rerun, Stop, Cancel, docVars
    <3>3. DoneIsNear' => DoneIsNear
      BY <3>1, <3>2 DEF DoneIsNear
    <3>4. QED
      BY <2>1, <2>2, <3>1, <3>3
  <2>4. ASSUME NEW a \in Api, NEW step \in {"deleteRows", "dropRows", "insertRows"}, Do(a, step)
        PROVE  /\ At(a) = step /\ ~DoneIsNear /\ Quiet /\ \A t : ~IsFresh(t)
               /\ \A w \in Worker : ~Active(w)
    <3>1. At(a) = step
      BY <2>0, <2>4, DoStep
    <3>2. Queues(a)
      BY <2>0, <3>1 DEF At, Queues
    <3>3. Quiet /\ Preparing
      BY <3>1, <3>2 DEF SeparateInv, Preparing, Planned
    <3>4. \A b \in Api \ {a} : At(b) = "end"
      BY <2>0, <3>2 DEF SeparateInv, Queues, At
    <3>5. \A t : ~IsFresh(t)
      BY <3>1, <3>4 DEF IsFresh, RequestInv
    <3>6. QED
      BY <3>1, <3>3, <3>5 DEF StoredInv, NotDoneYet, Quiet, Active, Uncounted, Counted
  <2>5. ASSUME NEW a \in Api, DeleteRows(a) \/ (DropRows(a) /\ plan[a].found) PROVE WorkInv'
    <3>1. /\ UNCHANGED <<stream, wpc, wtask, replay, plan, docRun, sync>>
          /\ Do(a, "deleteRows") \/ Do(a, "dropRows")
      BY <2>5 DEF DeleteRows, DropRows, docVars, queueVars, workVars
    <3>2. ~DoneIsNear /\ stream = <<>> /\ (\A t : ~IsFresh(t)) /\ \A w \in Worker : ~Active(w)
      BY <2>4, <3>1 DEF Quiet
    <3>3. InStream' = {} /\ ~DoneIsNear' /\ \A t : ~IsFresh(t)'
      BY <3>1, <3>2 DEF InStream, DoneIsNear, IsFresh
    <3>4. \A w \in Worker : ~Active(w)'
      BY <3>1, <3>2 DEF Active, Uncounted, Counted
    <3>5. QED
      BY <3>1, <3>3, <3>4 DEF WorkInv
  <2>6. ASSUME NEW a \in Api,
               \/ DeleteChunks(a) \/ DropPlanned(a) \/ SetChunkNum(a) \/ Begin(a) \/ SeedRun(a)
               \/ (DropRows(a) /\ ~plan[a].found)
        PROVE  WorkInv'
    <3>1. /\ UNCHANGED <<rows, prog, stream, wpc, wtask, replay, plan, sync>>
          /\ docRun' \in {docRun, "RUNNING"}
      BY <2>6 DEF DeleteChunks, DropPlanned, SetChunkNum, Begin, SeedRun, DropRows, docVars, rowVars,
         queueVars, workVars
    <3>2. DoneIsNear' => DoneIsNear
      BY <3>1 DEF DoneIsNear
    <3>3. QED
      BY <2>1, <2>2, <3>1, <3>2
  <2>7. ASSUME NEW a \in Api, Plan(a) PROVE WorkInv'
    <3>1. UNCHANGED <<rows, prog, stream, wpc, wtask, replay, sync, docRun>>
      BY <2>7 DEF Plan, docVars, rowVars, queueVars, workVars
    <3>2. \A b \in Api : plan'[b].fresh \subseteq plan[b].fresh
      BY <2>0, <2>7 DEF Plan
    <3>3. DoneIsNear' => DoneIsNear
      BY <3>1 DEF DoneIsNear
    <3>4. QED
      BY <2>1, <3>1, <3>2, <3>3 DEF IsFresh
  <2>8. ASSUME NEW a \in Api, InsertRows(a) PROVE WorkInv'
    <3>1. /\ Do(a, "insertRows") /\ UNCHANGED <<stream, wpc, wtask, replay, docRun, sync>>
          /\ rows' = rows \cup ({run + 1} \X Part)
          /\ prog' = [t \in Task |-> IF t \in {run + 1} \X plan[a].reuse THEN "done" ELSE prog[t]]
          /\ plan' = [plan EXCEPT ![a].fresh = ({run + 1} \X Part) \ ({run + 1} \X plan[a].reuse)]
      BY <2>8 DEF InsertRows, docVars, queueVars, workVars
    <3>2. ~DoneIsNear /\ stream = <<>> /\ (\A t : ~IsFresh(t)) /\ \A w \in Worker : ~Active(w)
      BY <2>4, <3>1 DEF Quiet
    <3>3. InStream' = {} /\ ~DoneIsNear'
      BY <3>1, <3>2 DEF InStream, DoneIsNear
    <3>4. \A w \in Worker : ~Active(w)'
      BY <3>1, <3>2 DEF Active, Uncounted, Counted
    <3>5. ASSUME NEW t, IsFresh(t)' PROVE t \in Unfinished'
      <4>1. PICK b \in Api : t \in plan'[b].fresh
        BY <3>5 DEF IsFresh
      <4>2. b = a
        BY <2>0, <3>1, <3>2, <4>1 DEF IsFresh
      <4>3. t \in {run + 1} \X Part /\ t \notin {run + 1} \X plan[a].reuse
        BY <2>0, <3>1, <4>1, <4>2
      <4>4. t \in Task
        BY <2>8, <4>3, ChunkingAssumption DEF InsertRows, Run, PipelineInv, TypeOK, ApiTypeOK
      <4>5. t \notin rows
        <5>1. run \in Nat
          BY ChunkingAssumption DEF PipelineInv, TypeOK, ApiTypeOK
        <5>2. \A u \in rows : u[1] = run
          BY DEF StoredInv, RowsOfRun
        <5>3. QED
          BY <4>3, <5>1, <5>2
      <4>6. prog'[t] = "queued"
        BY <3>1, <4>3, <4>4, <4>5 DEF StoredInv, RowsOfRun
      <4>7. QED
        BY <3>1, <4>3, <4>6 DEF Unfinished
    <3>6. QED
      BY <3>1, <3>3, <3>4, <3>5 DEF WorkInv
  <2>9. ASSUME NEW a \in Api, Publish(a) \/ PublishFails(a) \/ RequestDies(a) PROVE WorkInv'
    <3>1. UNCHANGED <<rows, prog, wpc, wtask, replay, docRun, sync>>
      BY <2>9 DEF Publish, PublishFails, RequestDies, docVars, rowVars, queueVars, workVars
    <3>2. DoneIsNear' => DoneIsNear
      BY <3>1 DEF DoneIsNear
    <3>3. CASE stream' = stream /\ plan' = [plan EXCEPT ![a] = NoPlan]
      BY <2>1, <2>2, <3>1, <3>2, <3>3
    <3>4. ASSUME NEW t \in plan[a].fresh, stream' = Append(stream, t),
                 plan' = [plan EXCEPT ![a].fresh = @ \ {t}]
          PROVE  WorkInv'
      <4>1. t \in Task
        BY <2>0, <3>4
      <4>2. InStream' = InStream \cup {t}
        BY <2>0, <3>4, <4>1, StreamAppend
      <4>3. IsFresh(t) /\ \A u : IsFresh(u)' => IsFresh(u)
        <5>1. \A b \in Api : plan'[b].fresh \subseteq plan[b].fresh
          BY <2>0, <3>4
        <5>2. QED
          BY <3>4, <5>1 DEF IsFresh
      <4>4. Unfinished' = Unfinished /\ \A w \in Worker : Active(w)' => Active(w)
        BY <3>1 DEF Unfinished, Active, Uncounted, Counted
      <4>5. QED
        BY <3>1, <3>2, <4>2, <4>3, <4>4 DEF WorkInv
    <3>5. QED
      BY <2>9, <3>3, <3>4 DEF Publish, PublishFails, RequestDies, queueVars
  <2>10. ASSUME NEW w \in Worker,
                WorkerStep(w) \/ CreditFails(w) \/ Fail(w) \/ Drop(w) \/ Crash(w)
         PROVE  /\ UNCHANGED <<plan, rows>>
                /\ DoneIsNear' => rows # {} /\ Unfinished = {}
    <3>1. UNCHANGED <<plan, rows>>
      BY <2>10, ExecutorStep DEF apiVars
    <3>2. QED
      BY <2>10, <3>1, DoneStep, DerivedIsDone DEF WorkInv
  <2>11. ASSUME NEW w \in Worker,
                WorkerStep(w) \/ CreditFails(w) \/ Fail(w) \/ Drop(w) \/ Crash(w),
                UNCHANGED <<stream, replay>>, Unfinished' = Unfinished,
                \A v \in Worker \ {w} : wpc'[v] = wpc[v] /\ wtask'[v] = wtask[v],
                Active(w)' => Active(w) /\ wtask'[w] = wtask[w]
         PROVE  WorkInv'
    <3>1. UNCHANGED <<plan, rows>> /\ (DoneIsNear' => rows # {} /\ Unfinished = {})
      BY <2>10, <2>11
    <3>2. InStream' = InStream /\ \A t : IsFresh(t)' => IsFresh(t)
      BY <2>11, <3>1 DEF InStream, IsFresh
    <3>3. \A v \in Worker : Active(v)' => Active(v) /\ wtask'[v] = wtask[v]
      BY <2>11 DEF Active, Uncounted, Counted
    <3>4. QED
      BY <2>11, <3>1, <3>2, <3>3 DEF WorkInv
  <2>12. ASSUME NEW w \in Worker, Collect(w) PROVE WorkInv'
    <3>1. WorkerStep(w) /\ replay[w] = {}
      BY <2>12 DEF WorkerStep, WorkInv
    <3>2. /\ stream # <<>> /\ stream' = Tail(stream) /\ wtask' = [wtask EXCEPT ![w] = Head(stream)]
          /\ UNCHANGED <<replay, prog>>
          /\ wpc' = [wpc EXCEPT ![w] = "received"]
      BY <2>12, <3>1 DEF Collect, Goto, rowVars
    <3>3. Head(stream) \in InStream /\ InStream' \subseteq InStream
      BY <2>0, <3>2, StreamTail DEF InStream
    <3>4. UNCHANGED <<plan, rows>> /\ (DoneIsNear' => rows # {} /\ Unfinished = {})
      BY <2>10, <3>1
    <3>5. Unfinished' = Unfinished /\ \A t : IsFresh(t)' => IsFresh(t)
      BY <3>2, <3>4 DEF Unfinished, IsFresh
    <3>6. ASSUME NEW v \in Worker, Active(v)' PROVE wtask'[v] \in Unfinished
      <4>1. CASE v = w
        BY <2>0, <3>2, <3>3, <4>1 DEF WorkInv
      <4>2. CASE v # w
        <5>1. wtask'[v] = wtask[v] /\ wpc'[v] = wpc[v]
          BY <2>0, <3>2, <4>2
        <5>2. QED
          BY <3>6, <5>1 DEF WorkInv, Active, Uncounted, Counted
      <4>3. QED
        BY <4>1, <4>2
    <3>7. QED
      BY <3>2, <3>3, <3>4, <3>5, <3>6 DEF WorkInv
  <2>13. ASSUME NEW w \in Worker, Receive(w) PROVE WorkInv'
    <3>1. /\ WorkerStep(w) /\ wpc[w] = "received" /\ UNCHANGED <<stream, replay, wtask, rows>>
          /\ prog' = [prog EXCEPT ![wtask[w]] = "going"] \/ prog' = prog
      BY <2>13 DEF WorkerStep, Receive, queueVars
    <3>2. Active(w) /\ wtask[w] \in Unfinished
      BY <3>1 DEF Active, Uncounted, WorkInv
    <3>3. Unfinished' = Unfinished
      BY <2>0, <3>1, <3>2 DEF Unfinished
    <3>4. \A v \in Worker \ {w} : wpc'[v] = wpc[v]
      BY <2>0, <2>13 DEF Receive, Goto
    <3>5. QED
      BY <2>11, <3>1, <3>2, <3>3, <3>4
  <2>14. ASSUME NEW w \in Worker,
                \/ Build(w) \/ Insert(w) \/ Index(w) \/ Increment(w) \/ Credit(w) \/ Gate(w)
                \/ Finalize(w) \/ LeaveHandler(w) \/ LogRead(w) \/ LogWrite(w) \/ Ack(w)
                \/ CreditFails(w) \/ Fail(w) \/ Drop(w)
         PROVE  WorkInv'
    <3>1. WorkerStep(w) \/ CreditFails(w) \/ Fail(w) \/ Drop(w)
      BY <2>14 DEF WorkerStep
    <3>2. UNCHANGED <<stream, replay, rows, prog>>
      BY <2>14 DEF Build, Insert, Index, Increment, Credit, Gate, Finalize, LeaveHandler, LogRead,
         LogWrite, Ack, CreditFails, Fail, Drop, Proceeds, rowVars, queueVars
    <3>3. Unfinished' = Unfinished
      BY <3>2 DEF Unfinished
    <3>4. \A v \in Worker \ {w} : wpc'[v] = wpc[v] /\ wtask'[v] = wtask[v]
      BY <2>0, <2>14 DEF Build, Insert, Index, Increment, Credit, Gate, Finalize, LeaveHandler,
         LogRead, LogWrite, Ack, CreditFails, Fail, Drop, Proceeds, Ask, Goto
    <3>5. Active(w)' => Active(w) /\ wtask'[w] = wtask[w]
      <4>1. CASE Build(w) \/ Insert(w) \/ Index(w) \/ Increment(w) \/ Credit(w) \/ Gate(w)
                 \/ Finalize(w) \/ CreditFails(w)
        BY <4>1 DEF Build, Insert, Index, Increment, Credit, Gate, Finalize, CreditFails, Proceeds,
           Active, Uncounted, Counted
      <4>2. CASE LeaveHandler(w) \/ LogRead(w) \/ LogWrite(w) \/ Ack(w) \/ Fail(w) \/ Drop(w)
        BY <2>0, <4>2 DEF LeaveHandler, LogRead, LogWrite, Ack, Fail, Drop, Goto, AfterHandler,
           Active, Uncounted, Counted
      <4>3. QED
        BY <2>14, <4>1, <4>2
    <3>6. QED
      BY <2>11, <3>1, <3>2, <3>3, <3>4, <3>5
  <2>15. ASSUME NEW w \in Worker, Finish(w) \/ Report(w) PROVE WorkInv'
    <3>1. /\ WorkerStep(w) /\ wpc[w] \in {"finish", "report"}
          /\ UNCHANGED <<queueVars, replay, wtask, rows>>
          /\ \/ prog' = [prog EXCEPT ![wtask[w]] = "done"]
             \/ prog' = [prog EXCEPT ![wtask[w]] = "failed"]
             \/ prog' = prog
      BY <2>15 DEF WorkerStep, Finish, Report, ReportFailure, FailTask
    <3>2. wpc' = [wpc EXCEPT ![w] = IF wpc[w] = "finish" THEN "leave" ELSE "log"]
      BY <2>15 DEF Finish, Report, Goto
    <3>3. ~Active(w)' /\ \A v \in Worker \ {w} : wpc'[v] = wpc[v]
      BY <2>0, <3>2 DEF Active, Uncounted, Counted
    <3>4. Unfinished' \subseteq Unfinished /\ Unfinished \ {wtask[w]} \subseteq Unfinished'
      BY <2>0, <3>1 DEF Unfinished
    <3>5. wtask[w] \in pel[w]
      BY <2>0, <3>1
    <3>6. UNCHANGED plan /\ (DoneIsNear' => rows # {} /\ Unfinished = {})
      BY <2>10, <3>1
    <3>7. \A t \in InStream' : t \in Unfinished'
      BY <3>1, <3>4, <3>5 DEF InStream, queueVars, MessageInv, WorkInv
    <3>8. \A t : IsFresh(t)' => t \in Unfinished'
      BY <3>4, <3>5, <3>6 DEF IsFresh, RequestInv, InHand, WorkInv
    <3>9. ASSUME NEW v \in Worker, Active(v)' PROVE wtask'[v] \in Unfinished'
      <4>1. v # w /\ wpc'[v] = wpc[v] /\ wpc[v] # "idle"
        BY <3>3, <3>9 DEF Active, Uncounted, Counted
      <4>2. Active(v) /\ wtask[v] # wtask[w]
        BY <2>0, <3>5, <3>9, <4>1 DEF Active, Uncounted, Counted, MessageInv
      <4>3. QED
        BY <3>1, <3>4, <4>2 DEF WorkInv
    <3>10. QED
      BY <3>1, <3>4, <3>6, <3>7, <3>8, <3>9 DEF WorkInv
  <2>16. ASSUME NEW w \in Worker, Abandon(w) \/ Crash(w) PROVE FALSE
    <3>1. crashes = 0
      BY DEF PipelineInv, TypeOK, WorkTypeOK
    <3>2. Abandon(w)
      BY <2>16, <3>1 DEF Crash
    <3>3. tries[wtask[w]] >= 3 /\ tries[wtask[w]] <= crashes /\ tries[wtask[w]] \in Nat
      BY <2>0, <3>2 DEF Abandon, TriesInv, TriesAreCrashes, PipelineInv, TypeOK, RowTypeOK
    <3>4. QED
      BY <3>1, <3>3
  <2>17. ASSUME NEW w \in Worker, SeeCancel(w) \/ Purge(w) PROVE FALSE
    BY <2>17 DEF SeeCancel, Purge, UnstoppedInv
  <2>18. ASSUME NEW a \in Api, AbortRun(a) \/ CancelRows(a) \/ StopDoc(a) PROVE FALSE
    BY <2>18, NobodyStops
  <2>19. CASE SyncSelect \/ SyncRead \/ SyncWrite
    <3>1. UNCHANGED <<rows, prog, stream, wpc, wtask, replay, plan>>
      BY <2>19, SyncStep DEF rowVars, queueVars, workVars, apiVars
    <3>2. DoneIsNear' => rows # {} /\ Unfinished = {}
      BY <2>19, DoneStep, DerivedIsDone DEF WorkInv
    <3>3. /\ InStream' = InStream /\ Unfinished' = Unfinished
          /\ \A t : IsFresh(t)' => IsFresh(t)
          /\ \A w \in Worker : Active(w)' => Active(w)
      BY <3>1 DEF InStream, Unfinished, IsFresh, Active, Uncounted, Counted
    <3>4. QED
      BY <3>1, <3>2, <3>3 DEF WorkInv
  <2>20. CASE UNCHANGED vars
    <3>1. UNCHANGED <<rows, prog, stream, wpc, wtask, replay, plan, docRun, sync>>
      BY <2>20 DEF vars, docVars, rowVars, queueVars, workVars, apiVars
    <3>2. (DoneIsNear' => DoneIsNear) /\ \A t : IsFresh(t)' => IsFresh(t)
      BY <3>1 DEF DoneIsNear, IsFresh
    <3>3. QED
      BY <2>1, <3>1, <3>2
  <2>21. QED
    BY <2>3, <2>5, <2>6, <2>7, <2>8, <2>9, <2>12, <2>13, <2>14, <2>15, <2>16, <2>17, <2>18,
       <2>19, <2>20 DEF Next, RequestStep, WorkerStep
<1>3. QED
  BY <1>1, <1>2, PipelineInvAlways, RequestInvAlways, SeparateInvAlways, UnstoppedInvAlways,
     StoredInvAlways, HasRowAlways, MessageInvAlways, TriesInvAlways, PTL DEF Spec

-----------------------------------------------------------------------------
(* The count is that of the page ranges C, which are counted already: each *)
(* is that of a task that is done or about to be, and none that of a task  *)
(* which is still to count its chunk.                                      *)
CountsChunks(C) ==
    /\ chunkNum = Cardinality(C)
    /\ DoneIsNear => C = Part \ Blank
    /\ \A t \in rows : prog[t] = "done" => PartOf(t) \in C \cup Blank
    /\ \A w \in Worker : Counted(w) => PartOf(wtask[w]) \in C \cup Blank
    /\ \A w \in Worker : Uncounted(w) => PartOf(wtask[w]) \notin C
    /\ \A t \in InStream : PartOf(t) \notin C
    /\ \A t : IsFresh(t) => PartOf(t) \notin C

(* POST /chunks has reset the count and not deleted the rows yet.          *)
Resetting == \E a \in Api : todo[a] \in {ChunksSteps, ChunksGone}

(* POST /documents/parse has reset the count of a document that was DONE,  *)
(* and may have died before it deleted the rows.  Nobody looks at the      *)
(* document again, whose tasks are all done, until the next request.       *)
Forgone ==
    /\ docRun = "RUNNING" /\ docProg = "zero" /\ sync[Server] = NoSync
    /\ Quiet /\ Unfinished = {}
    /\ \A a \in Api : At(a) \notin {"begin", "seed", "publish"}

ChunkNumInv ==
    /\ \A a \in Api : At(a) = "insertRows" => chunkNum = Cardinality(plan[a].reuse)
    /\ rows = {} \/ Forgone \/ Resetting \/ \E C \in SUBSET (Part \ Blank) : CountsChunks(C)

(* A request that resets the count has just arrived.                       *)
LEMMA ResettingStep ==
  ASSUME UnstoppedInv, NEW a \in Api, todo[a] \in {ChunksSteps, ChunksGone}
  PROVE  /\ Queues(a) /\ At(a) \in {"deleteChunks", "deleteRows"} /\ ~ApiFails
         /\ At(a) = "deleteChunks" => Tail(todo[a]) = ChunksGone
<1>1. todo[a] \in QueueTodo /\ todo[a] # <<>>
  BY NewTodo, TwoOrders, EmptyTodo
<1>2. Head(ChunksSteps) = "deleteChunks" /\ Head(ChunksGone) = "deleteRows"
  BY NewTodo, TwoOrders
<1>3. QED
  BY <1>1, <1>2 DEF At, Queues, UnstoppedInv, ChunksGone

(* A derived DONE counts all page ranges that are not blank.               *)
LEMMA DoneCountsAll ==
  ASSUME PipelineInv, RowsOfRun, NEW C \in SUBSET (Part \ Blank), CountsChunks(C),
         DoneIsNear \/ Derived.run = "DONE"
  PROVE  C = Part \ Blank
<1>1. CASE DoneIsNear
  BY <1>1 DEF CountsChunks
<1>2. CASE Derived.run = "DONE"
  <2>1. rows = {run} \X Part /\ \A t \in rows : prog[t] = "done"
    BY <1>2, DerivedIsDone DEF RowsOfRun
  <2>2. ASSUME NEW p \in Part PROVE p \in C \cup Blank
    <3>1. <<run, p>> \in rows
      BY <2>1
    <3>2. QED
      BY <2>1, <3>1 DEF CountsChunks, PartOf
  <2>3. QED
    BY <2>2
<1>3. QED
  BY <1>1, <1>2

(***************************************************************************)
(* The count of a document is that of the page ranges whose tasks have     *)
(* reported their chunk, those the last request reused included, unless a  *)
(* request has reset it and the rows are still to go.                      *)
(***************************************************************************)
THEOREM ChunkNumInvAlways ==
  ASSUME Disjoint, Requests \cap {"stop", "cancel"} = {}, "chunks" \in Requests => ~ApiFails,
         MaxCrashes = 0
  PROVE  Spec => []ChunkNumInv
<1>1. Init => ChunkNumInv
  BY DEF Init, ChunkNumInv, At
<1>2. /\ PipelineInv /\ RequestInv /\ SeparateInv /\ RowsAreOwed /\ UnstoppedInv /\ StoredInv
      /\ HasRow /\ MessageInv /\ TriesInv /\ BlankHasNone /\ WorkInv /\ ChunkNumInv /\ [Next]_vars
      => ChunkNumInv'
  <2> SUFFICES ASSUME PipelineInv, RequestInv, SeparateInv, RowsAreOwed, UnstoppedInv, StoredInv,
                      HasRow, MessageInv, TriesInv, BlankHasNone, WorkInv, ChunkNumInv, [Next]_vars
               PROVE  ChunkNumInv'
    OBVIOUS
  <2>0. /\ plan \in [Api -> [reuse : SUBSET Part, drop : SUBSET Task, found : BOOLEAN,
                             fresh : SUBSET Task]]
        /\ wpc \in [Worker -> Handling \cup {"idle", "received", "gate", "finalize",
                                             "leave", "purge", "report", "log", "logging",
                                             "ack"}]
        /\ wtask \in [Worker -> Task \cup {NoTask}]
        /\ stream \in Seq(Task) /\ pel \in [Worker -> SUBSET Task]
        /\ prog \in [Task -> {"queued", "going", "done", "failed"}] /\ rows \subseteq Task
        /\ chunkNum \in Nat
        /\ TodoOK /\ todo \in [Api -> QueueTodo \cup {<<>>}]
        /\ \A w \in Worker : wpc[w] # "idle" =>
              wtask[w] \in Task /\ wtask[w] \in pel[w] /\ wtask[w] \in rows
    BY DEF PipelineInv, TypeOK, DocTypeOK, RowTypeOK, WorkTypeOK, ApiTypeOK, RequestInv,
       TodoOK, UnstoppedInv, HandledIsUnacked, HasRow, InHand
  <2>1. ASSUME NEW C \in SUBSET (Part \ Blank), CountsChunks(C),
               UNCHANGED <<chunkNum, rows, prog, wpc, wtask, stream>>,
               DoneIsNear' => C = Part \ Blank,
               \A t : IsFresh(t)' => IsFresh(t)
        PROVE  CountsChunks(C)'
    <3>1. InStream' = InStream /\ \A w \in Worker : (Counted(w)' <=> Counted(w))
                                                    /\ (Uncounted(w)' <=> Uncounted(w))
      BY <2>1 DEF InStream, Counted, Uncounted
    <3>2. QED
      BY <2>1, <3>1 DEF CountsChunks
  <2>2. ASSUME UNCHANGED <<chunkNum, rows, prog, wpc, wtask, stream, sync>>,
               docRun' \in {docRun, "RUNNING"},
               \A t : IsFresh(t)' => IsFresh(t),
               Forgone => Forgone', Resetting => Resetting',
               \A b \in Api : At(b)' = "insertRows" =>
                  At(b) = "insertRows" /\ plan'[b].reuse = plan[b].reuse
        PROVE  ChunkNumInv'
    <3>1. DoneIsNear' => DoneIsNear
      BY <2>2 DEF DoneIsNear
    <3>2. ASSUME NEW C \in SUBSET (Part \ Blank), CountsChunks(C) PROVE CountsChunks(C)'
      BY <2>1, <2>2, <3>1, <3>2 DEF CountsChunks
    <3>3. QED
      BY <2>2, <3>2 DEF ChunkNumInv
  <2>3. ASSUME rows' = {}, \A b \in Api : At(b)' # "insertRows" PROVE ChunkNumInv'
    BY <2>3 DEF ChunkNumInv
  <2>4. ASSUME NEW a \in Api, Arrive(a) PROVE ChunkNumInv'
    <3>1. /\ UNCHANGED <<run, plan, rows, prog, stream, wpc, pel, wtask, sync>>
          /\ At(a)' \in {"deleteRows", "deleteChunks", "plan", "abort"}
          /\ \A b \in Api \ {a} : At(b)' = At(b)
      BY <2>0, <2>4, ArriveStep DEF rowVars, queueVars, workVars
    <3>2. Parse(a) \/ ParseChunks(a) \/ Rerun(a)
      BY <2>4 DEF Arrive, Stop, Cancel, Arrives
    <3>3. AtRest /\ \A b \in Api : At(b) = "end"
      BY <3>2 DEF Parse, ParseChunks, Rerun, MayQueue, AtRest, At
    <3>4. \A b \in Api : At(b)' \notin {"insertRows", "begin", "seed", "publish"}
      BY <3>1, <3>3
    <3>5. ~Resetting
      BY <3>3, ResettingStep DEF Resetting
    <3>6. Quiet' /\ Unfinished' = Unfinished /\ \A t : IsFresh(t)' => IsFresh(t)
      BY <3>1, <3>3 DEF AtRest, Quiet, Unfinished, IsFresh
    <3>7. CASE ParseChunks(a)
      <4>1. todo'[a] = ChunksSteps
        BY <2>0, <3>7 DEF ParseChunks
      <4>2. QED
        BY <3>4, <4>1 DEF ChunkNumInv, Resetting
    <3>8. CASE Parse(a) /\ docRun = "DONE"
      <4>1. docRun' = "RUNNING" /\ docProg' = "zero"
        BY <3>8 DEF Parse
      <4>2. Unfinished = {}
        BY <3>8 DEF WorkInv, DoneIsNear
      <4>3. Forgone'
        BY <3>1, <3>3, <3>4, <3>6, <4>1, <4>2 DEF Forgone, AtRest
      <4>4. QED
        BY <3>4, <4>3 DEF ChunkNumInv
    <3>9. CASE (Parse(a) /\ docRun # "DONE") \/ Rerun(a)
      <4>1. docRun' = "RUNNING" /\ docProg' = "zero" /\ chunkNum' = chunkNum
        BY <3>9 DEF Parse, Rerun
      <4>2. Forgone => Forgone'
        BY <3>1, <3>4, <3>6, <4>1 DEF Forgone
      <4>3. QED
        BY <2>2, <3>1, <3>4, <3>5, <3>6, <4>1, <4>2
    <3>10. QED
      BY <3>2, <3>7, <3>8, <3>9
  <2>5. ASSUME NEW a \in Api, NEW step, Do(a, step)
        PROVE  /\ At(a) = step /\ Queues(a) /\ \A b \in Api \ {a} : At(b) = "end" /\ At(b)' = "end"
               /\ step # "publish" => At(a)' \in After(step)
    <3>1. At(a) = step /\ (\A b \in Api \ {a} : At(b)' = At(b)) /\ Queues(a)
      <4>1. todo[a] # <<>>
        BY <2>5 DEF Do
      <4>2. QED
        BY <2>0, <2>5, <4>1, DoStep DEF Queues
    <3>2. \A b \in Api \ {a} : At(b) = "end"
      BY <2>0, <3>1 DEF SeparateInv, Queues, At
    <3>3. QED
      BY <2>0, <2>5, <3>1, <3>2, DoStep
  <2>6. ASSUME NEW a \in Api, DeleteRows(a) \/ DropRows(a) \/ DropPlanned(a) PROVE ChunkNumInv'
    <3>1. PICK step \in {"deleteRows", "dropRows", "dropPlanned"} :
             /\ Do(a, step)
             /\ step = "deleteRows" => rows' = {}
             /\ step = "dropRows" => rows' = IF plan[a].found THEN {} ELSE rows
             /\ step = "dropPlanned" => rows' = rows
      BY <2>6 DEF DeleteRows, DropRows, DropPlanned, NoRows, rowVars
    <3>2. rows' = {}
      BY <2>5, <3>1 DEF RowsAreOwed
    <3>3. At(a)' # "insertRows" /\ \A b \in Api \ {a} : At(b)' = "end"
      BY <2>5, <3>1 DEF After
    <3>4. QED
      BY <2>3, <3>2, <3>3
  <2>7. ASSUME NEW a \in Api, DeleteChunks(a) PROVE ChunkNumInv'
    <3>1. /\ Do(a, "deleteChunks")
          /\ UNCHANGED <<docRun, docProg, chunkNum, rows, prog, wpc, wtask, stream, pel, sync, plan>>
      BY <2>7 DEF DeleteChunks, docVars, rowVars, queueVars, workVars
    <3>2. /\ At(a) = "deleteChunks" /\ At(a)' \in {"deleteRows", "deleteChunks", "plan"}
          /\ \A b \in Api \ {a} : At(b) = "end" /\ At(b)' = "end"
      BY <2>5, <3>1 DEF After
    <3>3. Forgone => Forgone'
      BY <3>1, <3>2 DEF Forgone, Quiet, Unfinished
    <3>4. ASSUME Resetting PROVE Resetting'
      <4>1. todo[a] \in {ChunksSteps, ChunksGone}
        BY <3>2, <3>4, ResettingStep DEF Resetting
      <4>2. todo'[a] = ChunksGone
        BY <2>0, <3>1, <3>2, <4>1, ResettingStep DEF Do
      <4>3. QED
        BY <4>2 DEF Resetting
    <3>5. QED
      BY <2>2, <3>1, <3>2, <3>3, <3>4 DEF IsFresh
  <2>8. ASSUME NEW a \in Api, Plan(a) PROVE ChunkNumInv'
    <3>1. /\ Do(a, "plan")
          /\ UNCHANGED <<docRun, docProg, chunkNum, rows, prog, wpc, wtask, stream, pel, sync>>
          /\ \A b \in Api : plan'[b].fresh \subseteq plan[b].fresh
      BY <2>0, <2>8 DEF Plan, docVars, rowVars, queueVars, workVars
    <3>2. /\ At(a) = "plan" /\ At(a)' = "dropRows"
          /\ \A b \in Api \ {a} : At(b) = "end" /\ At(b)' = "end"
      BY <2>5, <3>1 DEF After
    <3>3. Forgone => Forgone'
      BY <3>1, <3>2 DEF Forgone, Quiet, Unfinished
    <3>4. ~Resetting
      BY <3>2, ResettingStep DEF Resetting
    <3>5. QED
      BY <2>2, <3>1, <3>2, <3>3, <3>4 DEF IsFresh
  <2>9. ASSUME NEW a \in Api, SetChunkNum(a) PROVE ChunkNumInv'
    <3>1. /\ Do(a, "setChunkNum") /\ UNCHANGED <<rows, plan>>
          /\ chunkNum' = Cardinality(plan[a].reuse)
      BY <2>9 DEF SetChunkNum, rowVars
    <3>2. rows = {} /\ \A b \in Api \ {a} : At(b)' = "end"
      BY <2>5, <3>1 DEF RowsAreOwed
    <3>3. QED
      BY <3>1, <3>2 DEF ChunkNumInv
  <2>10. ASSUME NEW a \in Api, InsertRows(a) PROVE ChunkNumInv'
    <3>1. /\ Do(a, "insertRows") /\ UNCHANGED <<stream, wpc, wtask, docRun, chunkNum, sync>>
          /\ rows' = rows \cup ({run + 1} \X Part)
          /\ prog' = [t \in Task |-> IF t \in {run + 1} \X plan[a].reuse THEN "done" ELSE prog[t]]
          /\ plan' = [plan EXCEPT ![a].fresh = ({run + 1} \X Part) \ ({run + 1} \X plan[a].reuse)]
      BY <2>10 DEF InsertRows, docVars, queueVars, workVars
    <3>2. /\ At(a) = "insertRows" /\ At(a)' = "begin" /\ rows = {}
          /\ \A b \in Api \ {a} : At(b) = "end" /\ At(b)' = "end"
      BY <2>5, <3>1 DEF After, RowsAreOwed
    <3>3. Quiet /\ ~DoneIsNear
      <4>1. Quiet /\ Preparing
        BY <2>5, <3>1, <3>2 DEF SeparateInv, Preparing, Planned
      <4>2. QED
        BY <4>1 DEF StoredInv, NotDoneYet
    <3>4. PICK C \in SUBSET (Part \ Blank) : C = plan[a].reuse /\ chunkNum = Cardinality(C)
      BY <2>0, <3>2 DEF BlankHasNone, ChunkNumInv
    <3>5. InStream' = {} /\ ~DoneIsNear' /\ \A w \in Worker : ~Counted(w)' /\ ~Uncounted(w)'
      BY <3>1, <3>3 DEF InStream, Quiet, DoneIsNear, Counted, Uncounted
    <3>6. ASSUME NEW t, IsFresh(t)' PROVE PartOf(t) \notin C
      <4>1. PICK b \in Api : t \in plan'[b].fresh
        BY <3>6 DEF IsFresh
      <4>2. b = a
        BY <2>0, <3>1, <3>2, <4>1 DEF RequestInv
      <4>3. t \in {run + 1} \X Part /\ t \notin {run + 1} \X plan[a].reuse
        BY <2>0, <3>1, <4>1, <4>2
      <4>4. QED
        BY <3>4, <4>3 DEF PartOf
    <3>7. ASSUME NEW t \in rows', prog'[t] = "done" PROVE PartOf(t) \in C
      <4>1. t \in {run + 1} \X Part
        BY <3>1, <3>2, <3>7
      <4>2. t \in Task
        BY <2>10, <4>1, ChunkingAssumption DEF InsertRows, Run, PipelineInv, TypeOK, ApiTypeOK
      <4>3. t \in {run + 1} \X plan[a].reuse
        BY <3>1, <3>2, <3>7, <4>2 DEF StoredInv, RowsOfRun
      <4>4. QED
        BY <3>4, <4>3 DEF PartOf
    <3>8. CountsChunks(C)'
      BY <3>1, <3>4, <3>5, <3>6, <3>7 DEF CountsChunks
    <3>9. QED
      BY <3>2, <3>4, <3>8 DEF ChunkNumInv
  <2>11. ASSUME NEW a \in Api, Begin(a) \/ SeedRun(a) PROVE ChunkNumInv'
    <3>1. /\ Do(a, "begin") \/ Do(a, "seed")
          /\ UNCHANGED <<chunkNum, rows, prog, wpc, wtask, stream, sync, plan>>
          /\ docRun' \in {docRun, "RUNNING"}
      BY <2>11 DEF Begin, SeedRun, docVars, rowVars, queueVars, workVars
    <3>2. /\ At(a) \in {"begin", "seed"} /\ At(a)' \in {"seed", "publish"}
          /\ \A b \in Api \ {a} : At(b) = "end" /\ At(b)' = "end"
      BY <2>5, <3>1 DEF After
    <3>3. ~Forgone /\ ~Resetting
      BY <3>2, ResettingStep DEF Forgone, Resetting
    <3>4. QED
      BY <2>2, <3>1, <3>2, <3>3 DEF IsFresh
  <2>12. ASSUME NEW a \in Api, Publish(a) \/ PublishFails(a) \/ RequestDies(a) PROVE ChunkNumInv'
    <3>1. /\ UNCHANGED <<docRun, docProg, chunkNum, rows, prog, wpc, wtask, pel, sync>>
          /\ todo[a] # <<>>
      BY <2>12 DEF Publish, PublishFails, RequestDies, docVars, rowVars, queueVars, workVars
    <3>2. CASE stream' = stream /\ plan' = [plan EXCEPT ![a] = NoPlan]
               /\ todo' = [todo EXCEPT ![a] = <<>>] /\ (At(a) = "publish" \/ ApiFails)
      <4>1. At(a)' = "end" /\ \A b \in Api \ {a} : At(b)' = At(b)
        BY <2>0, <3>2, EndStep
      <4>2. Forgone => Forgone'
        BY <3>1, <3>2, <4>1 DEF Forgone, Quiet, Unfinished
      <4>3. ASSUME Resetting PROVE FALSE
        <5>1. PICK b \in Api : todo[b] \in {ChunksSteps, ChunksGone}
          BY <4>3 DEF Resetting
        <5>2. Queues(a) /\ Queues(b) /\ ~ApiFails /\ At(b) \in {"deleteChunks", "deleteRows"}
          BY <2>0, <3>1, <5>1, ResettingStep DEF Queues
        <5>3. QED
          BY <3>2, <5>2 DEF SeparateInv
      <4>4. \A t : IsFresh(t)' => IsFresh(t)
        <5>1. \A b \in Api : plan'[b].fresh \subseteq plan[b].fresh
          BY <2>0, <3>2 DEF NoPlan
        <5>2. QED
          BY <5>1 DEF IsFresh
      <4>5. \A b \in Api : At(b)' = "insertRows" =>
               At(b) = "insertRows" /\ plan'[b].reuse = plan[b].reuse
        BY <2>0, <3>2, <4>1
      <4>6. QED
        BY <2>2, <3>1, <3>2, <4>2, <4>3, <4>4, <4>5
    <3>3. ASSUME NEW t \in plan[a].fresh, stream' = Append(stream, t), UNCHANGED todo,
                 plan' = [plan EXCEPT ![a].fresh = @ \ {t}], At(a) = "publish"
          PROVE  ChunkNumInv'
      <4>1. t \in Task /\ Queues(a)
        BY <2>0, <3>1, <3>3 DEF Queues
      <4>2. InStream' = InStream \cup {t}
        BY <2>0, <3>3, <4>1, StreamAppend
      <4>3. IsFresh(t) /\ \A u : IsFresh(u)' => IsFresh(u)
        <5>1. \A b \in Api : plan'[b].fresh \subseteq plan[b].fresh
          BY <2>0, <3>3
        <5>2. QED
          BY <3>3, <5>1 DEF IsFresh
      <4>4. \A b \in Api : At(b)' # "insertRows" /\ todo[b] \notin {ChunksSteps, ChunksGone}
        <5>1. \A b \in Api \ {a} : At(b) = "end"
          BY <2>0, <4>1 DEF SeparateInv, Queues, At
        <5>2. \A b \in Api : At(b)' = At(b)
          BY <3>3 DEF At
        <5>3. QED
          BY <3>3, <5>1, <5>2, ResettingStep
      <4>5. DoneIsNear' => DoneIsNear
        BY <3>1 DEF DoneIsNear
      <4>6. \A w \in Worker : (Counted(w)' <=> Counted(w)) /\ (Uncounted(w)' <=> Uncounted(w))
        BY <3>1 DEF Counted, Uncounted
      <4>7. ASSUME NEW C \in SUBSET (Part \ Blank), CountsChunks(C) PROVE CountsChunks(C)'
        BY <3>1, <4>2, <4>3, <4>5, <4>6, <4>7 DEF CountsChunks
      <4>8. ~Forgone /\ ~Resetting
        BY <3>3, <4>4 DEF Forgone, Resetting
      <4>9. QED
        BY <3>1, <4>4, <4>7, <4>8 DEF ChunkNumInv
    <3>4. QED
      <4>1. Publish(a) \/ PublishFails(a) => At(a) = "publish"
        BY <3>1 DEF Publish, PublishFails, At
      <4>2. CASE Publish(a)
        BY <3>2, <3>3, <4>1, <4>2 DEF Publish
      <4>3. CASE PublishFails(a) \/ RequestDies(a)
        BY <3>2, <4>3 DEF PublishFails, RequestDies, queueVars
      <4>4. QED
        BY <2>12, <4>2, <4>3
  <2>13. ASSUME NEW w \in Worker,
                WorkerStep(w) \/ CreditFails(w) \/ Fail(w) \/ Drop(w) \/ Crash(w),
                \A C \in SUBSET (Part \ Blank) :
                   CountsChunks(C) => \E D \in SUBSET (Part \ Blank) : CountsChunks(D)'
         PROVE  ChunkNumInv'
    <3>1. UNCHANGED <<todo, plan, rows>> /\ ~Quiet
      BY <2>13, ExecutorStep DEF apiVars
    <3>2. \A a \in Api : At(a)' # "insertRows" /\ todo[a] \notin {ChunksSteps, ChunksGone}
      <4>1. \A a \in Api : At(a)' = At(a)
        BY <3>1 DEF At
      <4>2. \A a \in Api : At(a) \notin {"insertRows", "deleteRows", "deleteChunks"}
        BY <2>0, <3>1, AtQueues DEF SeparateInv, QueueStep, Queues, At
      <4>3. QED
        BY <4>1, <4>2, ResettingStep
    <3>3. ~Forgone /\ ~Resetting
      BY <3>1, <3>2 DEF Forgone, Resetting
    <3>4. QED
      BY <2>13, <3>1, <3>2, <3>3 DEF ChunkNumInv
  <2>14. ASSUME NEW w \in Worker,
                WorkerStep(w) \/ CreditFails(w) \/ Fail(w) \/ Drop(w) \/ Crash(w),
                chunkNum' = chunkNum, InStream' \subseteq InStream,
                \A t \in rows : prog'[t] = "done" => prog[t] = "done" \/ (t = wtask[w] /\ Counted(w)),
                \A v \in Worker \ {w} : wpc'[v] = wpc[v] /\ wtask'[v] = wtask[v],
                Counted(w)' => /\ wtask'[w] = wtask[w]
                               /\ Counted(w) \/ PartOf(wtask[w]) \in Blank,
                Uncounted(w)' => (Uncounted(w) /\ wtask'[w] = wtask[w]) \/ wtask'[w] \in InStream
         PROVE  ChunkNumInv'
    <3>1. UNCHANGED <<plan, rows>>
      BY <2>14, ExecutorStep DEF apiVars
    <3>2. \A t : IsFresh(t)' => IsFresh(t)
      BY <3>1 DEF IsFresh
    <3>3. \A v \in Worker \ {w} : (Counted(v)' <=> Counted(v)) /\ (Uncounted(v)' <=> Uncounted(v))
      BY <2>14 DEF Counted, Uncounted
    <3>4. ASSUME NEW C \in SUBSET (Part \ Blank), CountsChunks(C) PROVE CountsChunks(C)'
      <4>1. DoneIsNear' => C = Part \ Blank
        BY <2>14, <3>4, DoneStep, DoneCountsAll DEF StoredInv
      <4>2. \A v \in Worker : Counted(v)' => PartOf(wtask'[v]) \in C \cup Blank
        BY <2>14, <3>3, <3>4 DEF CountsChunks
      <4>3. \A v \in Worker : Uncounted(v)' => PartOf(wtask'[v]) \notin C
        BY <2>14, <3>3, <3>4 DEF CountsChunks
      <4>4. \A t \in rows : prog'[t] = "done" => PartOf(t) \in C \cup Blank
        BY <2>14, <3>4 DEF CountsChunks
      <4>5. QED
        BY <2>14, <3>1, <3>2, <3>4, <4>1, <4>2, <4>3, <4>4 DEF CountsChunks
    <3>5. QED
      BY <2>13, <2>14, <3>4
  <2>15. ASSUME NEW w \in Worker, Collect(w) PROVE ChunkNumInv'
    <3>1. WorkerStep(w) /\ replay[w] = {}
      BY <2>15 DEF WorkerStep, WorkInv
    <3>2. /\ stream # <<>> /\ stream' = Tail(stream) /\ wtask' = [wtask EXCEPT ![w] = Head(stream)]
          /\ UNCHANGED <<chunkNum, prog>>
          /\ wpc' = [wpc EXCEPT ![w] = "received"]
      BY <2>15, <3>1 DEF Collect, Goto, rowVars, docVars
    <3>3. Head(stream) \in InStream /\ InStream' \subseteq InStream
      BY <2>0, <3>2, StreamTail DEF InStream
    <3>4. /\ wtask'[w] \in InStream /\ ~Counted(w)'
          /\ \A v \in Worker \ {w} : wpc'[v] = wpc[v] /\ wtask'[v] = wtask[v]
      BY <2>0, <3>2, <3>3 DEF Counted
    <3>5. QED
      BY <2>14, <3>1, <3>2, <3>3, <3>4
  <2>16. ASSUME NEW w \in Worker,
                \/ Receive(w) \/ Build(w) \/ Insert(w) \/ Index(w) \/ Credit(w) \/ Gate(w)
                \/ Finalize(w) \/ Finish(w) \/ LeaveHandler(w) \/ Report(w) \/ LogRead(w)
                \/ LogWrite(w) \/ Ack(w) \/ CreditFails(w) \/ Fail(w) \/ Drop(w)
         PROVE  ChunkNumInv'
    <3>1. WorkerStep(w) \/ CreditFails(w) \/ Fail(w) \/ Drop(w)
      BY <2>16 DEF WorkerStep
    <3>2. UNCHANGED <<stream, chunkNum>>
      BY <2>16 DEF Receive, Build, Insert, Index, Credit, Gate, Finalize, Finish, LeaveHandler,
         Report, LogRead, LogWrite, Ack, CreditFails, Fail, Drop, Proceeds, WriteDerived, docVars,
         queueVars
    <3>3. \A v \in Worker \ {w} : wpc'[v] = wpc[v] /\ wtask'[v] = wtask[v]
      BY <2>0, <2>16 DEF Receive, Build, Insert, Index, Credit, Gate, Finalize, Finish,
         LeaveHandler, Report, LogRead, LogWrite, Ack, CreditFails, Fail, Drop, Proceeds, Ask, Goto
    <3>4. InStream' \subseteq InStream
      BY <3>2 DEF InStream
    <3>5. \A t \in rows : prog'[t] = "done" => prog[t] = "done" \/ (t = wtask[w] /\ Counted(w))
      <4>1. CASE Receive(w)
        BY <2>0, <4>1 DEF Receive
      <4>2. CASE Finish(w)
        BY <2>0, <4>2 DEF Finish, Counted
      <4>3. CASE Report(w)
        BY <2>0, <4>3 DEF Report, ReportFailure, FailTask
      <4>4. CASE UNCHANGED prog
        BY <4>4
      <4>5. QED
        BY <2>16, <4>1, <4>2, <4>3, <4>4 DEF Build, Insert, Index, Credit, Gate, Finalize,
           LeaveHandler, LogRead, LogWrite, Ack, CreditFails, Fail, Drop, rowVars
    <3>6. CASE Receive(w) \/ Insert(w) \/ Index(w)
      <4>1. UNCHANGED wtask /\ Uncounted(w) /\ ~Counted(w)'
        BY <2>0, <3>6 DEF Receive, Insert, Index, Proceeds, Ask, Goto, Counted, Uncounted
      <4>2. QED
        BY <2>14, <3>1, <3>2, <3>3, <3>4, <3>5, <4>1
    <3>7. CASE Build(w)
      <4>1. UNCHANGED wtask /\ Uncounted(w) /\ (Counted(w)' => PartOf(wtask[w]) \in Blank)
        BY <2>0, <3>7 DEF Build, Proceeds, Ask, Goto, Counted, Uncounted
      <4>2. QED
        BY <2>14, <3>1, <3>2, <3>3, <3>4, <3>5, <4>1
    <3>8. CASE Credit(w) \/ Gate(w) \/ Finalize(w) \/ CreditFails(w)
      <4>1. UNCHANGED wtask /\ Counted(w) /\ ~Uncounted(w)'
        BY <2>0, <3>8 DEF Credit, Gate, Finalize, CreditFails, Ask, Goto, Counted, Uncounted
      <4>2. QED
        BY <2>14, <3>1, <3>2, <3>3, <3>4, <3>5, <4>1
    <3>9. CASE Finish(w) \/ LeaveHandler(w) \/ Report(w) \/ LogRead(w) \/ LogWrite(w) \/ Ack(w)
               \/ Fail(w) \/ Drop(w)
      <4>1. ~Counted(w)' /\ ~Uncounted(w)'
        BY <2>0, <3>9 DEF Finish, LeaveHandler, Report, LogRead, LogWrite, Ack, Fail, Drop, Goto,
           AfterHandler, Counted, Uncounted
      <4>2. QED
        BY <2>14, <3>1, <3>2, <3>3, <3>4, <3>5, <4>1
    <3>10. QED
      BY <2>16, <3>6, <3>7, <3>8, <3>9
  <2>17. ASSUME NEW w \in Worker, Increment(w) PROVE ChunkNumInv'
    <3>1. /\ WorkerStep(w) /\ wpc[w] = "count" /\ chunkNum' = chunkNum + 1
          /\ UNCHANGED <<prog, stream, wtask, docRun, sync>>
          /\ wpc' = [wpc EXCEPT ![w] = "credit"]
      BY <2>17 DEF WorkerStep, Increment, Proceeds, Ask, Goto, rowVars, queueVars, UnstoppedInv
    <3>2. UNCHANGED <<plan, rows>>
      BY <3>1, ExecutorStep DEF apiVars
    <3>3. wtask[w] \in rows /\ rows = {run} \X Part /\ PartOf(wtask[w]) \in Part \ Blank
      <4>1. wtask[w] \in rows /\ rows = {run} \X Part
        BY <2>0, <3>1 DEF StoredInv, RowsOfRun
      <4>2. PartOf(wtask[w]) \in Part
        BY <4>1 DEF PartOf
      <4>3. QED
        BY <3>1, <4>1, <4>2 DEF BlankHasNone
    <3>4. ~DoneIsNear'
      <4>1. wtask[w] \in Unfinished
        BY <3>1 DEF WorkInv, Active, Uncounted
      <4>2. QED
        BY <3>1, <4>1 DEF WorkInv, DoneIsNear
    <3>5. ASSUME NEW t \in rows, t # wtask[w] PROVE PartOf(t) # PartOf(wtask[w])
      <4>1. t = <<run, PartOf(t)>> /\ wtask[w] = <<run, PartOf(wtask[w])>>
        BY <3>3 DEF PartOf
      <4>2. QED
        BY <3>5, <4>1
    <3>6. \A t \in InStream : t \in rows \ {wtask[w]}
      BY <2>0, <3>1 DEF HasRow, InHand, MessageInv
    <3>7. ASSUME NEW t, IsFresh(t) PROVE t \in rows \ {wtask[w]}
      BY <2>0, <3>1, <3>7 DEF IsFresh, HasRow, RequestInv, InHand
    <3>8. ASSUME NEW v \in Worker \ {w}, wpc[v] # "idle" PROVE wtask[v] \in rows \ {wtask[w]}
      BY <2>0, <3>1, <3>8 DEF MessageInv
    <3>9. ASSUME NEW C \in SUBSET (Part \ Blank), CountsChunks(C)
          PROVE  \E D \in SUBSET (Part \ Blank) : CountsChunks(D)'
      <4>1. PICK D \in SUBSET (Part \ Blank) : D = C \cup {PartOf(wtask[w])}
        BY <3>3
      <4>2. chunkNum' = Cardinality(D)
        <5>1. PartOf(wtask[w]) \notin C
          BY <3>1, <3>9 DEF CountsChunks, Uncounted
        <5>2. IsFiniteSet(C)
          <6>1. IsFiniteSet(Part)
            BY FS_Interval, ChunkingAssumption DEF Part
          <6>2. QED
            BY <6>1, FS_Subset
        <5>3. Cardinality(D) = Cardinality(C) + 1
          BY <4>1, <5>1, <5>2, FS_AddElement
        <5>4. QED
          BY <3>1, <3>9, <5>3 DEF CountsChunks
      <4>3. \A t \in rows : prog[t] = "done" => PartOf(t) \in D \cup Blank
        BY <3>9, <4>1 DEF CountsChunks
      <4>4. ASSUME NEW v \in Worker, Counted(v)' PROVE PartOf(wtask[v]) \in D \cup Blank
        <5>1. CASE v # w
          <6>1. Counted(v)
            BY <2>0, <3>1, <4>4, <5>1 DEF Counted
          <6>2. QED
            BY <3>9, <4>1, <6>1 DEF CountsChunks
        <5>2. QED
          BY <4>1, <5>1
      <4>5. ASSUME NEW v \in Worker, Uncounted(v)' PROVE PartOf(wtask[v]) \notin D
        <5>1. v # w /\ Uncounted(v) /\ wpc[v] # "idle"
          BY <2>0, <3>1, <4>5 DEF Uncounted
        <5>2. PartOf(wtask[v]) # PartOf(wtask[w])
          BY <3>5, <3>8, <5>1
        <5>3. QED
          BY <3>9, <4>1, <5>1, <5>2 DEF CountsChunks
      <4>6. \A t \in InStream' : PartOf(t) \notin D
        <5>1. InStream' = InStream
          BY <3>1 DEF InStream
        <5>2. QED
          BY <3>5, <3>6, <3>9, <4>1, <5>1 DEF CountsChunks
      <4>7. ASSUME NEW t, IsFresh(t)' PROVE PartOf(t) \notin D
        <5>1. IsFresh(t)
          BY <3>2, <4>7 DEF IsFresh
        <5>2. QED
          BY <3>5, <3>7, <3>9, <4>1, <5>1 DEF CountsChunks
      <4>8. CountsChunks(D)'
        BY <3>1, <3>2, <3>4, <4>2, <4>3, <4>4, <4>5, <4>6, <4>7 DEF CountsChunks
      <4>9. QED
        BY <4>1, <4>8
    <3>10. QED
      BY <2>13, <3>1, <3>9
  <2>18. ASSUME NEW w \in Worker, Abandon(w) \/ Crash(w) PROVE FALSE
    <3>1. crashes = 0
      BY DEF PipelineInv, TypeOK, WorkTypeOK
    <3>2. Abandon(w)
      BY <2>18, <3>1 DEF Crash
    <3>3. tries[wtask[w]] >= 3 /\ tries[wtask[w]] <= crashes /\ tries[wtask[w]] \in Nat
      BY <2>0, <3>2 DEF Abandon, TriesInv, TriesAreCrashes, PipelineInv, TypeOK, RowTypeOK
    <3>4. QED
      BY <3>1, <3>3
  <2>19. ASSUME NEW w \in Worker, SeeCancel(w) \/ Purge(w) PROVE FALSE
    BY <2>19 DEF SeeCancel, Purge, UnstoppedInv
  <2>20. ASSUME NEW a \in Api, AbortRun(a) \/ CancelRows(a) \/ StopDoc(a) PROVE FALSE
    BY <2>20, NobodyStops
  <2>21. CASE SyncSelect \/ SyncRead \/ SyncWrite
    <3>1. UNCHANGED <<rows, prog, stream, wpc, wtask, plan, todo, chunkNum>>
      <4>1. UNCHANGED <<rows, prog, stream, wpc, wtask, plan, todo>>
        BY <2>21, SyncStep DEF rowVars, queueVars, workVars, apiVars
      <4>2. UNCHANGED chunkNum
        BY <2>21 DEF SyncSelect, SyncRead, SyncWrite, WriteDerived, docVars
      <4>3. QED
        BY <4>1, <4>2
    <3>2. ~Forgone
      BY <2>21 DEF Forgone, SyncSelect, SyncSees, SyncRead, SyncWrite, NoSync, Selected
    <3>3. (Resetting => Resetting') /\ \A a \in Api : At(a)' = At(a)
      BY <3>1 DEF Resetting, At
    <3>4. ASSUME NEW C \in SUBSET (Part \ Blank), CountsChunks(C) PROVE CountsChunks(C)'
      <4>1. DoneIsNear' => C = Part \ Blank
        BY <2>21, <3>4, DoneStep, DoneCountsAll DEF StoredInv
      <4>2. QED
        BY <2>1, <3>1, <3>4, <4>1 DEF IsFresh
    <3>5. QED
      BY <3>1, <3>2, <3>3, <3>4 DEF ChunkNumInv
  <2>22. CASE UNCHANGED vars
    <3>1. /\ UNCHANGED <<rows, prog, stream, pel, wpc, wtask, plan, todo, docRun, docProg, chunkNum,
                         sync>>
      BY <2>22 DEF vars, docVars, rowVars, queueVars, workVars, apiVars
    <3>2. (\A t : IsFresh(t)' => IsFresh(t)) /\ (\A b \in Api : At(b)' = At(b))
      BY <3>1 DEF IsFresh, At
    <3>3. (Resetting => Resetting') /\ (Forgone => Forgone')
      BY <3>1, <3>2 DEF Resetting, Forgone, Quiet, Unfinished
    <3>4. QED
      BY <2>2, <3>1, <3>2, <3>3
  <2>23. QED
    BY <2>4, <2>6, <2>7, <2>8, <2>9, <2>10, <2>11, <2>12, <2>15, <2>16, <2>17, <2>18, <2>19,
       <2>20, <2>21, <2>22 DEF Next, RequestStep, WorkerStep
<1>3. QED
  BY <1>1, <1>2, PipelineInvAlways, RequestInvAlways, SeparateInvAlways, RowsAreOwedAlways,
     UnstoppedInvAlways, StoredInvAlways, HasRowAlways, MessageInvAlways, TriesInvAlways,
     BlankHasNoneAlways, WorkInvAlways, PTL DEF Spec

(***************************************************************************)
(* A document that is DONE counts the chunks it has: what executors and    *)
(* requests add up is the content of the store.  If requests share their   *)
(* configuration, so that chunks are reused, failures do not matter; if    *)
(* they do not, a failure may leave chunks of an earlier request behind.   *)
(***************************************************************************)
THEOREM ChunkNumExactAlways ==
  ASSUME Disjoint, Requests \cap {"stop", "cancel"} = {}, MaxCrashes = 0,
         \/ SameConfig /\ ("chunks" \in Requests => ~ApiFails)
         \/ ~Faulty /\ ~ApiFails
  PROVE  Spec => []ChunkNumExact
<1>1. ~SameConfig => ~Faulty /\ ~ApiFails
  OBVIOUS
<1>2. /\ ChunkNumInv /\ StoredInv /\ WorkInv /\ BlankHasNone /\ UnstoppedInv
      /\ (~SameConfig => StoredIsListed)
      => ChunkNumExact
  <2> SUFFICES ASSUME ChunkNumInv, StoredInv, WorkInv, BlankHasNone, UnstoppedInv,
                      ~SameConfig => StoredIsListed, AtRest, docRun = "DONE"
               PROVE  chunkNum = Cardinality(store)
    BY DEF ChunkNumExact
  <2>1. rows = {run} \X Part /\ DoneIsNear
    BY DEF WorkInv, DoneIsNear, StoredInv, RowsOfRun
  <2>2. ~Forgone /\ ~Resetting
    BY NewTodo, TwoOrders, EmptyTodo DEF Forgone, Resetting, AtRest
  <2>3. chunkNum = Cardinality(Part \ Blank)
    BY <2>1, <2>2 DEF ChunkNumInv, CountsChunks, WorkInv
  <2>4. store = {ChunkOf(<<run, p>>) : p \in Part \ Blank}
    <3>1. ASSUME NEW p \in Part \ Blank PROVE ChunkOf(<<run, p>>) \in store
      BY <2>1 DEF StoredInv, DoneHasAll, HasChunk, PartOf
    <3>2. ASSUME NEW c \in store PROVE \E p \in Part \ Blank : c = ChunkOf(<<run, p>>)
      <4>1. CASE SameConfig
        BY <4>1 DEF BlankHasNone, ChunkOf, PartOf
      <4>2. CASE ~SameConfig
        <5>1. PICK t \in ids \cap rows : c = ChunkOf(t)
          BY <4>2 DEF StoredIsListed
        <5>2. PartOf(t) \in Part \ Blank /\ t = <<run, PartOf(t)>>
          BY <2>1 DEF BlankHasNone, PartOf
        <5>3. QED
          BY <5>1, <5>2
      <4>3. QED
        BY <4>1, <4>2
    <3>3. QED
      BY <3>1, <3>2
  <2>5. Cardinality(store) = Cardinality(Part \ Blank)
    <3> DEFINE f == [p \in Part \ Blank |-> ChunkOf(<<run, p>>)]
    <3>1. IsFiniteSet(Part \ Blank)
      <4>1. IsFiniteSet(Part)
        BY FS_Interval, ChunkingAssumption DEF Part
      <4>2. QED
        BY <4>1, FS_Subset
    <3>2. f \in Bijection(Part \ Blank, store)
      <4>1. \A p \in Part \ Blank : f[p] \in store
        BY <2>4
      <4>2. \A c \in store : \E p \in Part \ Blank : f[p] = c
        BY <2>4
      <4>3. \A p, q \in Part \ Blank : f[p] = f[q] => p = q
        BY DEF ChunkOf, PartOf
      <4>4. f \in [Part \ Blank -> store]
        BY <4>1
      <4> HIDE DEF f
      <4>5. QED
        BY <4>2, <4>3, <4>4 DEF Bijection, Injection, IsInjective, Surjection
    <3>3. QED
      BY <3>1, <3>2, FS_Bijection DEF ExistsBijection
  <2>6. QED
    BY <2>3, <2>5
<1>3. CASE SameConfig
  BY <1>1, <1>2, <1>3, ChunkNumInvAlways, StoredInvAlways, WorkInvAlways, BlankHasNoneAlways,
     UnstoppedInvAlways, PTL
<1>4. CASE ~SameConfig
  <2>1. Spec => []StoredIsListed
    BY <1>1, <1>4, StoredIsListedAlways
  <2>2. QED
    BY <1>1, <1>2, <1>4, <2>1, ChunkNumInvAlways, StoredInvAlways, WorkInvAlways,
       BlankHasNoneAlways, UnstoppedInvAlways, PTL
<1>5. QED
  BY <1>3, <1>4

=============================================================================
