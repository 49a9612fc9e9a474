---------------------------- MODULE LogTrim_proofs ----------------------------
(***************************************************************************)
(* What the trim of the pipeline operation log keeps, for every limit and  *)
(* number of executors, with the advisory lock and without it.             *)
(***************************************************************************)
EXTENDS LogTrim, FiniteSetTheorems, TLAPS

(* The rows that can be inserted can be counted. *)
LEMMA LogFinite ==
  \A S \in SUBSET Log : IsFiniteSet(S) /\ Cardinality(S) \in Nat
<1> DEFINE Pairs == (1..MaxLogs) \X (0..MaxTime)
           f == [p \in Pairs |-> [id |-> p[1], time |-> p[2]]]
<1>1. IsFiniteSet(Pairs)
  <2>1. IsFiniteSet(1..MaxLogs) /\ IsFiniteSet(0..MaxTime)
    BY TrimAssumption, FS_Interval
  <2>2. QED
    BY <2>1, FS_Product
<1>2. f \in Surjection(Pairs, Log)
  <2>1. f \in [Pairs -> Log]
    BY DEF Log
  <2>2. ASSUME NEW l \in Log PROVE \E p \in Pairs : f[p] = l
    <3>1. <<l.id, l.time>> \in Pairs /\ l = [id |-> l.id, time |-> l.time]
      BY DEF Log
    <3>2. f[<<l.id, l.time>>] = l
      BY <3>1
    <3>3. QED
      BY <3>1, <3>2
  <2> HIDE DEF f, Pairs
  <2>3. QED
    BY <2>1, <2>2 DEF Surjection
<1> HIDE DEF f, Pairs
<1>3. IsFiniteSet(Log)
  BY <1>1, <1>2, FS_Surjection
<1>4. QED
  BY <1>3, FS_Subset, FS_CardinalityType

(* So can those of the table and its parts. *)
LEMMA RowsFinite ==
  ASSUME TypeOK
  PROVE  /\ Cardinality(logs) \in Nat
         /\ \A S \in SUBSET rows : IsFiniteSet(S) /\ Cardinality(S) \in Nat
  BY LogFinite DEF TypeOK

(* Rows that are older than Limit others stay so while the table grows ... *)
LEMMA EnoughGrows ==
  ASSUME TypeOK, TypeOK', rows \subseteq rows', NEW t \in Nat, Enough(t)
  PROVE  Enough(t)'
<1> DEFINE S == {r \in rows : r.time >= t}
           T == {r \in rows' : r.time >= t}
<1>1. IsFiniteSet(T) /\ Cardinality(S) \in Nat /\ Cardinality(T) \in Nat
  <2>1. T \subseteq Log /\ S \subseteq Log
    BY DEF TypeOK
  <2>2. QED
    BY <2>1, LogFinite
<1>2. Cardinality(S) <= Cardinality(T)
  BY <1>1, FS_Subset
<1>3. QED
  BY <1>1, <1>2, TrimAssumption DEF Enough

(* ... and when rows before a cutoff are deleted that has Limit others.    *)
LEMMA EnoughTrimmed ==
  ASSUME TypeOK, NEW k \in Nat, Enough(k), rows' = {r \in rows : r.time >= k},
         NEW t \in Nat, Enough(t)
  PROVE  Enough(t)'
<1>0. \A r \in rows : r.time \in Nat
  BY TrimAssumption DEF TypeOK, Log
<1>1. CASE t >= k
  <2>1. {r \in rows' : r.time >= t} = {r \in rows : r.time >= t}
    BY <1>0, <1>1
  <2>2. QED
    BY <2>1 DEF Enough
<1>2. CASE t < k
  <2>1. {r \in rows' : r.time >= t} = {r \in rows : r.time >= k}
    BY <1>0, <1>2
  <2>2. QED
    BY <2>1 DEF Enough
<1>3. QED
  BY <1>1, <1>2

(***************************************************************************)
(* The inductive invariant.  A step either lets the table grow, or deletes *)
(* what is older than a cutoff with Limit rows after it.                   *)
(***************************************************************************)
THEOREM TrimInvAlways == Spec => []TrimInv
<1> USE TrimAssumption
<1>1. Init => TrimInv
  BY DEF Init, TrimInv, TypeOK, Trimming
<1>2. TrimInv /\ [Next]_vars => TrimInv'
  <2> SUFFICES ASSUME TrimInv, [Next]_vars
               PROVE  TrimInv'
    OBVIOUS
  <2>1. TypeOK
    BY DEF TrimInv
  <2>2. TypeOK'
    <3>1. ASSUME NEW w \in Worker, Insert(w) PROVE TypeOK'
      <4> DEFINE new == [id |-> Cardinality(logs) + 1, time |-> stamp[w]]
      <4>1. new \in Log
        BY <2>1, <3>1, RowsFinite DEF Insert, TypeOK, Log
      <4>2. logs' = logs \cup {new} /\ rows' = rows \cup {new}
        BY <3>1 DEF Insert
      <4> HIDE DEF new
      <4>3. QED
        BY <2>1, <3>1, <4>1, <4>2 DEF Insert, Goto, TypeOK
    <3>2. ASSUME NEW w \in Worker, ReadCutoff(w) PROVE TypeOK'
      BY <2>1, <3>2 DEF ReadCutoff, Goto, TypeOK, Log
    <3>3. ASSUME NEW w \in Worker, Delete(w) PROVE TypeOK'
      BY <2>1, <3>3 DEF Delete, Goto, TypeOK
    <3>4. QED
      BY <2>1, <3>1, <3>2, <3>3 DEF Next, vars, Tick, Stamp, TrimStep, CountRows,
         TryAdvisoryLock,
         ReleaseAdvisoryLock, TrimFails, Reconnect, Crash, Unlock, Goto, TypeOK
  <2>3. \A w \in Worker : cutoff[w] \in Nat
    BY <2>1 DEF TypeOK
  <2>4. \A l \in logs : l.time + 1 \in Nat
    BY <2>1 DEF TypeOK, Log
  <2> DEFINE Held == Guarded => \A w \in Worker : Trimming(w) => advisory = w
  <2>0. Held'
    <3> SUFFICES ASSUME Guarded, NEW v \in Worker, Trimming(v)'
                 PROVE  advisory' = v
      OBVIOUS
    <3>1. Trimming(v) => advisory = v
      BY DEF TrimInv
    <3>2. ASSUME NEW w \in Worker, TryAdvisoryLock(w) PROVE advisory' = v
      BY <2>1, <3>1, <3>2 DEF TryAdvisoryLock, Trimming, Goto, TypeOK, TrimInv
    <3>3. ASSUME NEW w \in Worker, ReleaseAdvisoryLock(w) \/ Crash(w) PROVE advisory' = v
      <4>1. v # w /\ Trimming(v)
        BY <2>1, <3>3 DEF ReleaseAdvisoryLock, Crash, Trimming, Goto, TypeOK
      <4>2. QED
        BY <3>1, <3>3, <4>1 DEF ReleaseAdvisoryLock, Crash, Unlock
    <3>4. ASSUME NEW w \in Worker,
                 Stamp(w) \/ Insert(w) \/ CountRows(w) \/ ReadCutoff(w) \/ Delete(w) \/ TrimFails(w)
          PROVE  advisory' = v
      <4>1. advisory' = advisory
        BY <3>4 DEF Stamp, Insert, CountRows, ReadCutoff, Delete, TrimFails
      <4>2. Trimming(v)
        BY <2>1, <3>4 DEF Stamp, Insert, CountRows, ReadCutoff, Delete, TrimFails, Trimming,
           Goto, TypeOK
      <4>3. QED
        BY <3>1, <4>1, <4>2
    <3>5. QED
      BY <3>1, <3>2, <3>3, <3>4 DEF Next, vars, Tick, TrimStep, Reconnect, Trimming
  <2> HIDE DEF Held
  <2>5. ASSUME NEW w \in Worker, Insert(w) PROVE TrimInv'
    <3>1. rows \subseteq rows' /\ cutoff' = cutoff /\ logs' \ rows' \subseteq logs \ rows
      BY <2>5 DEF Insert
    <3>2. \A v \in Worker : pc'[v] = "delete" => pc[v] = "delete"
      BY <2>1, <2>5 DEF Insert, Goto, TypeOK
    <3>3. \A t \in Nat : Enough(t) => Enough(t)'
      BY <2>1, <2>2, <3>1, EnoughGrows
    <3>4. QED
      BY <2>0, <2>2, <2>3, <2>4, <3>1, <3>2, <3>3 DEF TrimInv, Held
  <2>6. ASSUME NEW w \in Worker, Delete(w) PROVE TrimInv'
    <3>1. /\ rows' = {r \in rows : r.time >= cutoff[w]} /\ Enough(cutoff[w])
          /\ logs' = logs /\ cutoff' = [cutoff EXCEPT ![w] = 0]
          /\ pc' = [pc EXCEPT ![w] = "release"]
      BY <2>6 DEF Delete, Goto, TrimInv
    <3>2. \A t \in Nat : Enough(t) => Enough(t)'
      BY <2>1, <2>3, <3>1, EnoughTrimmed
    <3>3. ASSUME NEW v \in Worker, pc'[v] = "delete" PROVE Enough(cutoff[v])' /\ cutoff'[v] = cutoff[v]
      BY <2>1, <2>3, <3>1, <3>2, <3>3 DEF TrimInv, TypeOK
    <3>4. ASSUME NEW l \in logs' \ rows' PROVE Enough(l.time + 1)'
      <4>1. CASE l \in rows
        <5>1. l.time \in Nat /\ l.time + 1 <= cutoff[w]
          BY <2>1, <2>3, <3>1, <3>4, <4>1 DEF TypeOK, Log
        <5>2. {r \in rows' : r.time >= l.time + 1} = rows'
          BY <2>1, <2>3, <3>1, <5>1 DEF TypeOK, Log
        <5>3. QED
          BY <3>1, <5>2 DEF Enough
      <4>2. CASE l \notin rows
        BY <2>4, <3>1, <3>2, <3>4, <4>2 DEF TrimInv
      <4>3. QED
        BY <4>1, <4>2
    <3>5. QED
      BY <2>0, <2>2, <3>3, <3>4 DEF TrimInv, Held
  <2>7. ASSUME NEW w \in Worker, ReadCutoff(w) PROVE TrimInv'
    <3>1. UNCHANGED <<rows, logs>>
      BY <2>7 DEF ReadCutoff
    <3>2. \A t : Enough(t)' <=> Enough(t)
      BY <3>1 DEF Enough
    <3>3. \A v \in Worker : pc'[v] = "delete" =>
             (v = w /\ Enough(cutoff'[w])) \/ (pc[v] = "delete" /\ cutoff'[v] = cutoff[v])
      BY <2>1, <2>7 DEF ReadCutoff, Goto, TypeOK
    <3>4. QED
      BY <2>0, <2>2, <3>1, <3>2, <3>3 DEF TrimInv, Held
  <2>8. CASE /\ UNCHANGED <<rows, logs>>
             /\ \A v \in Worker : pc'[v] = "delete" => pc[v] = "delete" /\ cutoff'[v] = cutoff[v]
    <3>1. \A t : Enough(t)' <=> Enough(t)
      BY <2>8 DEF Enough
    <3>2. QED
      BY <2>0, <2>2, <2>8, <3>1 DEF TrimInv, Held
  <2>9. QED
    BY <2>1, <2>5, <2>6, <2>7, <2>8 DEF Next, vars, Tick, Stamp, TrimStep, CountRows,
       TryAdvisoryLock, ReleaseAdvisoryLock, TrimFails, Reconnect, Crash, Goto, TypeOK
<1>3. QED
  BY <1>1, <1>2, PTL DEF Spec

(***************************************************************************)
(* "keep latest N logs per dataset", however inserts and trims interleave. *)
(***************************************************************************)
THEOREM NewestKeptAlways == Spec => []NewestKept
<1>1. TrimInv => NewestKept
  <2> SUFFICES ASSUME TrimInv, NEW l \in logs \ rows
               PROVE  Cardinality({r \in rows : r.time > l.time}) >= Limit
    BY DEF NewestKept
  <2>1. {r \in rows : r.time > l.time} = {r \in rows : r.time >= l.time + 1}
    BY TrimAssumption DEF TrimInv, TypeOK, Log
  <2>2. QED
    BY <2>1 DEF TrimInv, Enough
<1>2. QED
  BY <1>1, TrimInvAlways, PTL

(***************************************************************************)
(* "keeps concurrent task executors from issuing overlapping deletes", as  *)
(* long as GET_LOCK works.                                                 *)
(***************************************************************************)
THEOREM OneTrimmerAlways == Spec => []OneTrimmer
<1>1. TrimInv => OneTrimmer
  BY DEF TrimInv, OneTrimmer
<1>2. QED
  BY <1>1, TrimInvAlways, PTL
=============================================================================
