---------------------------- MODULE ChunkCounter ----------------------------
(***************************************************************************)
(* The gate in front of the post-processing of a document: the Redis       *)
(* counter of api/db/services/task_service.py that queue_tasks seeds with  *)
(* the number of chunking tasks it queues and every task decrements once.  *)
(* The task that brings it to zero is the last one and runs the finalizers *)
(* (document structure, RAPTOR).                                           *)
(*                                                                         *)
(* Crediting a task is three Redis commands, SETNX, GET and DECRBY, with   *)
(* other executors, an abort or a new seed between any two of them.  The   *)
(* aborted marker is left out: the code reads it for a log line only.  So  *)
(* is the TTL of seven days.                                               *)
(***************************************************************************)
EXTENDS Integers, FiniteSets

CONSTANTS
    Task,       \* the chunking tasks of a document, over all parse requests
    Worker,     \* the task executors
    NoTask,
    NoCount,    \* the counter key does not exist
    Disjoint    \* a request that queues tasks finds nothing of an earlier one in flight

ASSUME CounterAssumption ==
    /\ IsFiniteSet(Task) /\ NoTask \notin Task /\ NoCount \notin Int
    /\ Disjoint \in BOOLEAN

VARIABLES
    pending,    \* doc:chunking_pending:<doc>
    marked,     \* the tasks with a doc:chunking_done:<task> key
    gate,       \* how far an executor is in crediting its task
    credits,    \* the task it credits
    \* Observed, not in Redis:
    owed,       \* the tasks the last seed counted
    paid,       \* the tasks that decremented since
    lasts       \* how many executors were told they are the last since

redisVars == <<pending, marked>>
counterVars == <<pending, marked, gate, credits, owed, paid, lasts>>

CounterInit ==
    /\ pending = NoCount /\ marked = {}
    /\ gate = [w \in Worker |-> "out"]
    /\ credits = [w \in Worker |-> NoTask]
    /\ owed = {} /\ paid = {} /\ lasts = 0

(* Mutant: ... with one task too many. *)
SeedOneOver(tasks) ==
    /\ pending' = Cardinality(tasks) + 1
    /\ owed' = tasks /\ paid' = {} /\ lasts' = 0
    /\ UNCHANGED <<marked, gate, credits>>

(* seed_doc_chunking_counter; queue_tasks calls it if there is a task. *)
Seed(tasks) ==
    /\ pending' = Cardinality(tasks)
    /\ owed' = tasks /\ paid' = {} /\ lasts' = 0
    /\ UNCHANGED <<marked, gate, credits>>

(* abort_doc_chunking_counter, of any process. *)
Abort == pending' = NoCount /\ UNCHANGED <<marked, gate, credits, owed, paid, lasts>>

Leave(w) ==
    /\ gate' = [gate EXCEPT ![w] = "out"]
    /\ credits' = [credits EXCEPT ![w] = NoTask]

(* Mutant: a task that was credited before is credited again. *)
MarkAgain(w, t) ==
    /\ gate[w] = "out"
    /\ marked' = marked \cup {t}
    /\ gate' = [gate EXCEPT ![w] = "marked"]
    /\ credits' = [credits EXCEPT ![w] = t]
    /\ UNCHANGED <<pending, owed, paid, lasts>>

(* credit_doc_chunking_task up to SETNX: true the first time only; the     *)
(* others are told that tasks remain.                                      *)
Mark(w, t) ==
    /\ gate[w] = "out" /\ t \notin marked
    /\ marked' = marked \cup {t}
    /\ gate' = [gate EXCEPT ![w] = "marked"]
    /\ credits' = [credits EXCEPT ![w] = t]
    /\ UNCHANGED <<pending, owed, paid, lasts>>

(* GET finds no counter. *)
NoCounter(w) ==
    /\ gate[w] = "marked" /\ pending = NoCount
    /\ Leave(w)
    /\ UNCHANGED <<pending, marked, owed, paid, lasts>>

(* GET finds one. *)
FoundCounter(w) ==
    /\ gate[w] = "marked" /\ pending # NoCount
    /\ gate' = [gate EXCEPT ![w] = "found"]
    /\ UNCHANGED <<pending, marked, credits, owed, paid, lasts>>

Count == IF pending = NoCount THEN 0 ELSE pending

(* Mutant: the last task is one that finds at most zero left. *)
DecrementAtMost(w) ==
    /\ gate[w] = "found"
    /\ pending' = Count - 1
    /\ paid' = paid \cup {credits[w]}
    /\ IF pending' <= 0
       THEN /\ gate' = [gate EXCEPT ![w] = "last"]
            /\ lasts' = lasts + 1
            /\ UNCHANGED credits
       ELSE Leave(w) /\ UNCHANGED lasts
    /\ UNCHANGED <<marked, owed>>

(* DECRBY, which takes a missing key for zero. *)
Decrement(w) ==
    /\ gate[w] = "found"
    /\ pending' = Count - 1
    /\ paid' = paid \cup {credits[w]}
    /\ IF pending' = 0
       THEN /\ gate' = [gate EXCEPT ![w] = "last"]
            /\ lasts' = lasts + 1
            /\ UNCHANGED credits
       ELSE Leave(w) /\ UNCHANGED lasts
    /\ UNCHANGED <<marked, owed>>

(* The finalizers ended, well or not: clear_doc_chunking_counter. *)
Clear(w) ==
    /\ gate[w] = "last"
    /\ pending' = NoCount
    /\ Leave(w)
    /\ UNCHANGED <<marked, owed, paid, lasts>>

(* The executor dies, or a command fails: what it did to Redis stays. *)
CreditCrash(w) ==
    /\ gate[w] # "out"
    /\ Leave(w)
    /\ UNCHANGED <<pending, marked, owed, paid, lasts>>

(* A parse request has new tasks, with new uuids. *)
NewRun ==
    \E tasks \in SUBSET Task :
       /\ tasks # {} /\ tasks \cap marked = {}
       /\ Disjoint => \A w \in Worker : gate[w] = "out"
       /\ Seed(tasks)

CounterNext ==
    \/ NewRun \/ Abort
    \/ \E w \in Worker :
          \/ \E t \in Task : (Disjoint => t \in owed) /\ Mark(w, t)
          \/ NoCounter(w) \/ FoundCounter(w) \/ Decrement(w)
          \/ Clear(w) \/ CreditCrash(w)

CounterSpec == CounterInit /\ [][CounterNext]_counterVars

-----------------------------------------------------------------------------
CounterTypeOK ==
    /\ pending \in Int \cup {NoCount}
    /\ marked \subseteq Task /\ owed \subseteq Task /\ paid \subseteq marked
    /\ gate \in [Worker -> {"out", "marked", "found", "last"}]
    /\ credits \in [Worker -> Task \cup {NoTask}]
    /\ lasts \in Nat

InGate(w) == gate[w] \in {"marked", "found"}

(* The executors inside the gate credit different, marked tasks. *)
CreditsOnce ==
    /\ \A w \in Worker : InGate(w) => credits[w] \in marked
    /\ \A v, w \in Worker : InGate(v) /\ InGate(w) /\ credits[v] = credits[w] => v = w

(* Once somebody was the last, the counter is spent until the next seed.   *)
SpentAfterLast ==
    lasts # 0 => lasts = 1 /\ (pending = NoCount \/ pending <= 0)

(* A counter that can still reach zero is the number of tasks of its run   *)
(* that did not decrement it, and the executors inside the gate are among  *)
(* those.                                                                  *)
CountsUnpaid ==
    Disjoint =>
        /\ paid \subseteq owed
        /\ \A w \in Worker : InGate(w) => credits[w] \in owed \ paid
        /\ pending # NoCount /\ pending >= 0 => pending = Cardinality(owed \ paid)
        /\ \A w \in Worker : gate[w] = "last" => lasts # 0
        /\ lasts # 0 => owed = paid

(* The inductive invariant of the gate. *)
CounterInv ==
    CounterTypeOK /\ CreditsOnce /\ SpentAfterLast /\ CountsUnpaid

(* "only the last chunking task for a doc runs post-processing": after one *)
(* seed at most one executor is told that it is the last, however the      *)
(* commands of executors, aborts and redelivered tasks interleave, also    *)
(* when tasks of an earlier run credit this one's counter.                 *)
AtMostOneLast == lasts <= 1

(* ... and it is the last: when a run does not overlap another, every one  *)
(* of its tasks was credited when somebody is told so.                     *)
LastMeansAll ==
    Disjoint => \A w \in Worker : gate[w] = "last" => owed \subseteq paid
=============================================================================
