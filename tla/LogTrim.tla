------------------------------- MODULE LogTrim -------------------------------
(***************************************************************************)
(* The pipeline operation log of a dataset: every executor that ends a     *)
(* task inserts a row, and whoever finds the table over its limit by more  *)
(* than the slack deletes the rows older than the newest Limit ones.       *)
(* Counting, reading the cutoff and deleting are separate statements       *)
(* outside a transaction; a MySQL advisory lock, where there is one, lets  *)
(* one executor at a time trim.                                            *)
(*                                                                         *)
(* The create_time of a row is taken before the row is inserted, so that   *)
(* rows appear out of their order, and its milliseconds may be equal.      *)
(***************************************************************************)
EXTENDS Naturals, FiniteSets

CONSTANTS
    Worker, NoWorker,
    Limit,          \* PIPELINE_OPERATION_LOG_LIMIT
    Threshold,      \* Limit * PIPELINE_OPERATION_LOG_TRIM_SLACK, rounded down
    Guarded,        \* GET_LOCK exists and no session is lost during a trim
    MaxLogs,        \* bound: the rows inserted
    MaxTime         \* bound: the milliseconds

ASSUME TrimAssumption ==
    /\ NoWorker \notin Worker
    /\ Limit \in Nat \ {0} /\ Threshold \in Nat /\ Guarded \in BOOLEAN
    /\ MaxLogs \in Nat /\ MaxTime \in Nat

VARIABLES
    clock,
    logs,       \* every row that was inserted
    rows,       \* those in the table
    advisory,   \* who has the advisory lock
    pc,
    stamp,      \* the create_time of the row an executor is about to insert
    cutoff      \* the create_time it read for its trim

vars == <<clock, logs, rows, advisory, pc, stamp, cutoff>>

Log == [id : 1..MaxLogs, time : 0..MaxTime]

Init ==
    /\ clock = 0 /\ logs = {} /\ rows = {} /\ advisory = NoWorker
    /\ pc = [w \in Worker |-> "idle"]
    /\ stamp = [w \in Worker |-> 0] /\ cutoff = [w \in Worker |-> 0]

Goto(w, l) == pc' = [pc EXCEPT ![w] = l]

Tick ==
    /\ clock < MaxTime
    /\ clock' = clock + 1
    /\ UNCHANGED <<logs, rows, advisory, pc, stamp, cutoff>>

Stamp(w) ==
    /\ pc[w] = "idle"
    /\ stamp' = [stamp EXCEPT ![w] = clock]
    /\ Goto(w, "insert")
    /\ UNCHANGED <<clock, logs, rows, advisory, cutoff>>

(* The transaction of the insert; _trim_logs runs after it. *)
Insert(w) ==
    /\ pc[w] = "insert" /\ Cardinality(logs) < MaxLogs
    /\ LET new == [id |-> Cardinality(logs) + 1, time |-> stamp[w]] IN
       logs' = logs \cup {new} /\ rows' = rows \cup {new}
    /\ stamp' = [stamp EXCEPT ![w] = 0]
    /\ Goto(w, "count")
    /\ UNCHANGED <<clock, advisory, cutoff>>

CountRows(w) ==
    /\ pc[w] = "count"
    /\ Goto(w, IF Cardinality(rows) <= Threshold THEN "idle" ELSE "lock")
    /\ UNCHANGED <<clock, logs, rows, advisory, stamp, cutoff>>

(* Mutant: the result of GET_LOCK is not looked at. *)
GoAhead(w) ==
    /\ pc[w] = "lock"
    /\ advisory' = IF advisory = NoWorker THEN w ELSE advisory
    /\ Goto(w, "cutoff")
    /\ UNCHANGED <<clock, logs, rows, stamp, cutoff>>

(* GET_LOCK(name, 0) does not wait.  If it raises, the trim goes on        *)
(* without it.                                                             *)
TryAdvisoryLock(w) ==
    /\ pc[w] = "lock"
    /\ \/ advisory = NoWorker /\ advisory' = w /\ Goto(w, "cutoff")
       \/ advisory # NoWorker /\ UNCHANGED advisory /\ Goto(w, "idle")
       \/ ~Guarded /\ UNCHANGED advisory /\ Goto(w, "cutoff")
    /\ UNCHANGED <<clock, logs, rows, stamp, cutoff>>

(* At least Limit rows of the table have this create_time or a later one. *)
Enough(t) == Cardinality({r \in rows : r.time >= t}) >= Limit

(* The create_time of the Limit-th newest row; the trim ends here if there *)
(* are fewer.                                                              *)
ReadCutoff(w) ==
    /\ pc[w] = "cutoff"
    /\ \/ /\ Cardinality(rows) < Limit
          /\ Goto(w, "release") /\ UNCHANGED cutoff
       \/ \E r \in rows :
             /\ Cardinality({s \in rows : s.time > r.time}) < Limit /\ Enough(r.time)
             /\ cutoff' = [cutoff EXCEPT ![w] = r.time]
             /\ Goto(w, "delete")
    /\ UNCHANGED <<clock, logs, rows, advisory, stamp>>

(* Mutant: the cutoff itself is deleted too. *)
DeleteThrough(w) ==
    /\ pc[w] = "delete"
    /\ rows' = {r \in rows : r.time > cutoff[w]}
    /\ cutoff' = [cutoff EXCEPT ![w] = 0]
    /\ Goto(w, "release")
    /\ UNCHANGED <<clock, logs, advisory, stamp>>

Delete(w) ==
    /\ pc[w] = "delete"
    /\ rows' = {r \in rows : r.time >= cutoff[w]}
    /\ cutoff' = [cutoff EXCEPT ![w] = 0]
    /\ Goto(w, "release")
    /\ UNCHANGED <<clock, logs, advisory, stamp>>

(* Mutant: an exception skips the release. *)
TrimFailsLocked(w) ==
    /\ pc[w] \in {"cutoff", "delete"}
    /\ cutoff' = [cutoff EXCEPT ![w] = 0]
    /\ Goto(w, "idle")
    /\ UNCHANGED <<clock, logs, rows, advisory, stamp>>

(* A deadlock or another exception: the finally clause releases. *)
TrimFails(w) ==
    /\ pc[w] \in {"cutoff", "delete"}
    /\ cutoff' = [cutoff EXCEPT ![w] = 0]
    /\ Goto(w, "release")
    /\ UNCHANGED <<clock, logs, rows, advisory, stamp>>

Unlock(w) == advisory' = IF advisory = w THEN NoWorker ELSE advisory

(* RELEASE_LOCK changes nothing in a session that does not have the lock. *)
ReleaseAdvisoryLock(w) ==
    /\ pc[w] = "release"
    /\ Unlock(w)
    /\ Goto(w, "idle")
    /\ UNCHANGED <<clock, logs, rows, stamp, cutoff>>

(* execute_sql reconnects when the connection is lost and tries the        *)
(* statement again, in a session without the lock.                         *)
Reconnect(w) ==
    /\ ~Guarded /\ pc[w] \in {"cutoff", "delete", "release"} /\ advisory = w
    /\ Unlock(w)
    /\ UNCHANGED <<clock, logs, rows, pc, stamp, cutoff>>

(* A process that dies loses its session. *)
Crash(w) ==
    /\ pc[w] # "idle"
    /\ Unlock(w)
    /\ stamp' = [stamp EXCEPT ![w] = 0] /\ cutoff' = [cutoff EXCEPT ![w] = 0]
    /\ Goto(w, "idle")
    /\ UNCHANGED <<clock, logs, rows>>

TrimStep(w) ==
    CountRows(w) \/ TryAdvisoryLock(w) \/ ReadCutoff(w) \/ Delete(w) \/ ReleaseAdvisoryLock(w)

Next ==
    \/ Tick
    \/ \E w \in Worker :
          \/ Stamp(w) \/ Insert(w) \/ TrimStep(w) \/ TrimFails(w) \/ Reconnect(w) \/ Crash(w)

Spec == Init /\ [][Next]_vars

(* A trim that began goes on. *)
LiveSpec == Spec /\ \A w \in Worker : WF_vars(TrimStep(w))

-----------------------------------------------------------------------------
TypeOK ==
    /\ clock \in 0..MaxTime
    /\ logs \subseteq Log /\ rows \subseteq logs
    /\ advisory \in Worker \cup {NoWorker}
    /\ pc \in [Worker -> {"idle", "insert", "count", "lock", "cutoff", "delete",
                          "release"}]
    /\ stamp \in [Worker -> 0..MaxTime] /\ cutoff \in [Worker -> 0..MaxTime]

Trimming(w) == pc[w] \in {"cutoff", "delete"}

(* The inductive invariant: what an executor is about to delete, and what  *)
(* was deleted, is older than Limit rows that are still there; and who     *)
(* trims under GET_LOCK has the lock.                                      *)
TrimInv ==
    /\ TypeOK
    /\ \A w \in Worker : pc[w] = "delete" => Enough(cutoff[w])
    /\ \A l \in logs \ rows : Enough(l.time + 1)
    /\ Guarded => \A w \in Worker : Trimming(w) => advisory = w

(* "keep latest N logs per dataset": a row that was trimmed is older than  *)
(* Limit rows of the table, however the statements of executors that       *)
(* insert and trim interleave, with the advisory lock and without it.      *)
NewestKept ==
    \A l \in logs \ rows : Cardinality({r \in rows : r.time > l.time}) >= Limit

(* "A MySQL advisory lock keeps concurrent task executors from issuing     *)
(* overlapping deletes".                                                   *)
OneTrimmer == Guarded => \A v, w \in Worker : Trimming(v) /\ Trimming(w) => v = w

(* A lost lock would end trimming for good, as nobody waits for it: it is  *)
(* released however the trim ends.                                         *)
AdvisoryLockFreed == \A w \in Worker : advisory = w ~> advisory # w
=============================================================================
