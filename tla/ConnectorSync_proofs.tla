------------------------ MODULE ConnectorSync_proofs ------------------------
(***************************************************************************)
(* The theorems about ConnectorSync, for every number of documents, users, *)
(* requests, failures and changes of the source.                           *)
(***************************************************************************)
EXTENDS ConnectorSync, WellFoundedInduction, TLAPS

(* A set of natural numbers has a least one. *)
LEMMA LeastOf ==
  ASSUME NEW T, T \subseteq Nat, T # {}
  PROVE  \E m \in T : \A t \in T : m <= t
<1>1. PICK m \in T : \A t \in T : ~(<<t, m>> \in OpToRel(<, Nat))
  BY NatLessThanWellFounded, WFMin
<1>2. \A t \in T : ~(t < m)
  BY <1>1 DEF OpToRel
<1>3. QED
  BY <1>2

(* A set of natural numbers below a bound has a greatest one. *)
LEMMA GreatestOf ==
  ASSUME NEW b \in Nat, NEW T, T \subseteq 0 .. b, T # {}
  PROVE  \E m \in T : \A t \in T : t <= m
<1> DEFINE Dist == {b - t : t \in T}
<1>1. Dist \subseteq Nat /\ Dist # {}
  <2>1. \A t \in T : b - t \in Nat
    OBVIOUS
  <2>2. Dist \subseteq Nat
    BY <2>1 DEF Dist
  <2>3. PICK t \in T : TRUE
    OBVIOUS
  <2>4. b - t \in Dist
    BY DEF Dist
  <2>5. QED
    BY <2>2, <2>4
<1>2. PICK e \in Dist : \A f \in Dist : e <= f
  BY <1>1, LeastOf
<1>3. PICK m \in T : e = b - m
  BY <1>2 DEF Dist
<1>4. ASSUME NEW t \in T PROVE t <= m
  <2>1. b - t \in Dist
    BY DEF Dist
  <2>2. b - m <= b - t
    BY <1>2, <1>3, <2>1
  <2>3. t \in Int /\ m \in Int /\ b \in Int
    OBVIOUS
  <2>4. QED
    BY <2>2, <2>3
<1>5. QED
  BY <1>4

-----------------------------------------------------------------------------
(* No time in the tables, in a listed task or in a range is to come.       *)
TypeOK ==
    /\ clock \in Time /\ source \in [Doc -> 0 .. clock]
    /\ index \in [Kb -> [Doc -> 0 .. clock]]
    /\ cursor \in None .. clock /\ linked \subseteq Kb
    /\ scan \subseteq Doc /\ clean \in BOOLEAN
    /\ \A t \in batch : t.kb \in Kb /\ t.saved \in None .. clock
    /\ spc \in {"idle", "take"} \/ task.kb \in Kb
    /\ task.saved \in None .. clock
    /\ Cursor => upto \in None .. clock

(* A document that came into the source after the snapshot of a prune is   *)
(* newer than what a knowledge base holds and than what any sync passed.   *)
SnapshotIsFresh ==
    spc = "prune" => \A d \in Doc \ scan : source[d] > 0 =>
        /\ \A k \in Kb : index[k][d] < source[d]
        /\ cursor <= source[d] /\ task.saved <= source[d]
        /\ \A t \in batch : t.saved <= source[d]

SyncTypeInv == TypeOK /\ SnapshotIsFresh

(* What the source holds from before m is in the knowledge base.           *)
Passed(k, m) == \A d \in Doc : source[d] > 0 /\ source[d] < m => index[k][d] = source[d]

(* What the cursor, or the cursor a task was listed with, has passed is in *)
(* the knowledge base, and so is, while nothing failed, what a scan has    *)
(* passed of its range.                                                    *)
PassedIsKept ==
    \A k \in Kb \ rebuilt :
        /\ Passed(k, cursor) /\ Passed(k, task.saved)
        /\ \A t \in batch : Passed(k, t.saved)
        /\ spc = "scan" /\ clean =>
               \A d \in Doc \ scan : source[d] > 0 /\ source[d] < upto => index[k][d] = source[d]

(* The end of a range is a time that has been.                             *)
LEMMA LatestIsPast ==
  ASSUME TypeOK
  PROVE  Latest \in None .. clock /\ \A d \in Doc : source[d] <= Latest \/ source[d] = 0
<1>1. CASE \A d \in Doc : source[d] = 0
  BY <1>1 DEF Latest, TypeOK, Time, None
<1>2. CASE \E d \in Doc : source[d] # 0
  <2> DEFINE T == {source[d] : d \in Doc}
  <2>1. T \subseteq 0 .. clock /\ T # {} /\ clock \in Nat
    BY <1>2 DEF TypeOK, Time
  <2>2. PICK m \in T : \A t \in T : t <= m
    BY <2>1, GreatestOf
  <2>3. /\ m \in Time /\ \E d \in Doc : source[d] = m
        /\ \A d \in Doc : source[d] <= m
    BY <2>1, <2>2, Bounds DEF TypeOK, Time
  <2>4. PICK t \in Time : /\ t = Latest /\ \E d \in Doc : source[d] = t
                          /\ \A d \in Doc : source[d] <= t
    BY <1>2, <2>3 DEF Latest
  <2>5. QED
    BY <2>1, <2>4 DEF TypeOK, Time, None
<1>3. QED
  BY <1>1, <1>2

(* The tasks that are listed are those of linked knowledge bases, with the *)
(* connector's cursor or none.                                             *)
LEMMA ListedTasks ==
  ASSUME NEW type, NEW t \in AllOf(type)
  PROVE  t.kb \in linked /\ t.saved \in {None, cursor}
<1>1. PICK k \in linked : t \in Due(k, type)
  BY DEF AllOf
<1>2. PICK n \in DOMAIN logs[k] : \E place :
        t = [id |-> logs[k][n].id, kb |-> k, type |-> type, start |-> logs[k][n].start,
             full |-> logs[k][n].full, at |-> place,
             saved |-> IF FromBeginning(logs[k][n]) THEN None ELSE cursor]
  BY <1>1, Zenon DEF Due
<1>3. PICK place :
        t = [id |-> logs[k][n].id, kb |-> k, type |-> type, start |-> logs[k][n].start,
             full |-> logs[k][n].full, at |-> place,
             saved |-> IF FromBeginning(logs[k][n]) THEN None ELSE cursor]
  BY <1>2, Zenon
<1>4. t.kb = k /\ t.saved = IF FromBeginning(logs[k][n]) THEN None ELSE cursor
  BY <1>3, Zenon
<1>5. QED
  BY <1>1, <1>4

-----------------------------------------------------------------------------
LEMMA TypeOKStep ==
  ASSUME TypeOK, [Next]_vars
  PROVE  TypeOK'
<1> USE Switches, Bounds DEF Time, None
<1>0. clock \in Nat /\ clock' \in clock .. MaxTime
  <2>1. clock' = clock \/ (clock < MaxTime /\ clock' = clock + 1)
    BY DEF Next, vars, external, SyncStep, ScheduleStep, UserStep, List, Take, Start, Generate,
           Persist, Snapshot, Prune, End, Done, Again, Batch, Check, Mark, Save, Rescue,
           ScheduleFails, Fail, Crash, Execute, Request, RequestDies, Write, Delete
  <2>2. QED
    BY <2>1 DEF TypeOK
<1>1. CASE UNCHANGED vars
  BY <1>1 DEF TypeOK, vars, external, tables, syncer, range
<1>2. CASE List
  <2>1. \A t \in batch' : t \in AllOf("sync") \cup AllOf("prune")
    BY <1>2 DEF List
  <2>2. \A t \in batch' : t.kb \in Kb /\ t.saved \in None .. clock
    BY <2>1, ListedTasks, <1>0 DEF TypeOK
  <2>3. QED
    BY <1>2, <2>2 DEF List, TypeOK, Goto, external, tables, range
<1>3. CASE Take
  BY <1>3 DEF Take, TypeOK, Goto, external, range
<1>4. CASE Start
  BY <1>4 DEF Start, TypeOK, Goto, external, range
<1>5. CASE Generate
  <2>1. Latest \in None .. clock
    BY LatestIsPast
  <2>2. QED
    BY <1>5, <2>1 DEF Generate, TypeOK, Goto, external, tables
<1>6. ASSUME NEW d \in Doc, Batch(d) PROVE TypeOK'
  <2>1. /\ spc = "scan" /\ spc' = spc /\ scan' \subseteq Doc /\ clean' \in BOOLEAN
        /\ UNCHANGED <<external, cursor, linked, batch, task, upto>>
    BY <1>6 DEF Batch, TypeOK
  <2>2. index' = index \/ index' = [index EXCEPT ![task.kb][d] = source[d]]
    BY <1>6 DEF Batch
  <2>3. source[d] \in 0 .. clock /\ task.kb \in Kb
    BY <2>1 DEF TypeOK
  <2>4. index' \in [Kb -> [Doc -> 0 .. clock]]
    <3>1. index[task.kb] \in [Doc -> 0 .. clock]
      BY <2>3 DEF TypeOK
    <3>2. [index[task.kb] EXCEPT ![d] = source[d]] \in [Doc -> 0 .. clock]
      BY <2>3, <3>1
    <3>3. index' = index \/ index' = [index EXCEPT ![task.kb] = [index[task.kb] EXCEPT ![d] = source[d]]]
      BY <2>2
    <3>4. QED
      BY <2>3, <3>2, <3>3 DEF TypeOK
  <2>5. QED
    BY <2>1, <2>4 DEF TypeOK, external
<1>7. CASE Persist
  BY <1>7, <1>0 DEF Persist, Persisted, TypeOK, Goto, external
<1>8. CASE Snapshot
  BY <1>8 DEF Snapshot, TypeOK, Goto, external, tables
<1>9. CASE Prune
  <2>1. PICK gone : index' = [index EXCEPT ![task.kb] = [d \in Doc |-> IF d \in gone THEN 0 ELSE @[d]]]
    BY <1>9 DEF Prune
  <2>2. task.kb \in Kb
    BY <1>9 DEF Prune, TypeOK
  <2>3. index' \in [Kb -> [Doc -> 0 .. clock]]
    BY <2>1, <2>2, <1>0 DEF TypeOK
  <2>4. QED
    BY <1>9, <2>2, <2>3 DEF Prune, TypeOK, Goto, external
<1>10. CASE End
  BY <1>10 DEF End, TypeOK, Goto, external, range
<1>11. CASE Done
  BY <1>11 DEF Done, TypeOK, Goto, external, range
<1>12. CASE Again
  BY <1>12, <1>0 DEF Again, Proceed, NoTask, TypeOK, Goto, external, tables
<1>13. ASSUME NEW p, ScheduleStep(p) PROVE TypeOK'
  BY <1>13 DEF ScheduleStep, Check, Mark, Save, Rescue, TypeOK, external, syncer, range
<1>14. ASSUME NEW p, ScheduleFails(p) PROVE TypeOK'
  BY <1>14 DEF ScheduleFails, TypeOK, external, syncer, range
<1>15. CASE Fail
  BY <1>15, <1>0 DEF Fail, Proceed, NoTask, TypeOK, Goto, external
<1>16. CASE Crash
  BY <1>16, <1>0 DEF Crash, NoTask, TypeOK, Goto, external, tables
<1>17. ASSUME NEW u \in User, Execute(u) PROVE TypeOK'
  <2>1. UNCHANGED <<external, cursor, syncer>>
    BY <1>17 DEF Execute
  <2>2. linked' \subseteq Kb
    BY <1>17 DEF Execute, TypeOK
  <2>3. index' = index \/ \E k \in Kb : index' = [index EXCEPT ![k] = [d \in Doc |-> 0]]
    BY <1>17 DEF Execute
  <2>4. index' \in [Kb -> [Doc -> 0 .. clock]]
    BY <2>3, <1>0 DEF TypeOK
  <2>5. QED
    BY <2>1, <2>2, <2>4 DEF TypeOK, external, syncer, range
<1>18. ASSUME NEW u \in User, NEW kind, NEW k \in Kb, Request(u, kind, k) PROVE TypeOK'
  BY <1>18 DEF Request, TypeOK, external, tables, syncer, range
<1>19. ASSUME NEW u \in User, RequestDies(u) PROVE TypeOK'
  BY <1>19 DEF RequestDies, TypeOK, external, tables, syncer, range
<1>20. ASSUME NEW d \in Doc, Write(d) \/ Delete(d) PROVE TypeOK'
  <2>1. clock' = clock + 1 /\ UNCHANGED <<tables, syncer>>
    BY <1>20 DEF Write, Delete
  <2>2. source' = [source EXCEPT ![d] = clock + 1] \/ source' = [source EXCEPT ![d] = 0]
    BY <1>20 DEF Write, Delete
  <2>3. source' \in [Doc -> 0 .. clock']
    BY <2>1, <2>2, <1>0 DEF TypeOK
  <2>4. index \in [Kb -> [Doc -> 0 .. clock']]
    BY <2>1, <1>0 DEF TypeOK
  <2>5. \A m \in None .. clock : m \in None .. clock'
    BY <1>0
  <2>6. QED
    BY <2>1, <2>3, <2>4, <2>5, <1>0 DEF TypeOK, tables, syncer, range
<1>21. QED
  BY <1>1, <1>2, <1>3, <1>4, <1>5, <1>6, <1>7, <1>8, <1>9, <1>10, <1>11, <1>12, <1>13, <1>14,
     <1>15, <1>16, <1>17, <1>18, <1>19, <1>20 DEF Next, SyncStep, UserStep

(* Between the snapshot and the deletion the source goes on, and requests  *)
(* do, but no document is stored.                                          *)
LEMMA SnapshotIsFreshStep ==
  ASSUME TypeOK, SnapshotIsFresh, [Next]_vars
  PROVE  SnapshotIsFresh'
<1> USE Switches, Bounds DEF Time, None
<1>1. CASE UNCHANGED <<source, index, cursor, spc, batch, task, scan>>
  BY <1>1 DEF SnapshotIsFresh
<1>2. CASE spc' # "prune"
  BY <1>2 DEF SnapshotIsFresh
<1>3. CASE Snapshot
  BY <1>3 DEF Snapshot, SnapshotIsFresh, external
<1>4. ASSUME NEW u \in User, Execute(u) PROVE SnapshotIsFresh'
  <2>1. UNCHANGED <<external, cursor, syncer>>
    BY <1>4 DEF Execute
  <2>2. index' = index \/ \E k \in Kb : index' = [index EXCEPT ![k] = [d \in Doc |-> 0]]
    BY <1>4 DEF Execute
  <2>3. \A k \in Kb, d \in Doc : index'[k][d] = index[k][d] \/ index'[k][d] = 0
    BY <2>2 DEF TypeOK
  <2>4. QED
    BY <2>1, <2>3 DEF SnapshotIsFresh, TypeOK, external, syncer, range
<1>5. ASSUME NEW d \in Doc, Write(d) \/ Delete(d) PROVE SnapshotIsFresh'
  <2>1. UNCHANGED <<index, cursor, spc, batch, task, scan>>
    BY <1>5 DEF Write, Delete, tables, syncer, range
  <2>2. source' = [source EXCEPT ![d] = clock + 1] \/ source' = [source EXCEPT ![d] = 0]
    BY <1>5 DEF Write, Delete
  <2>3. /\ cursor < clock + 1 /\ task.saved < clock + 1 /\ \A t \in batch : t.saved < clock + 1
        /\ \A k \in Kb : index[k][d] < clock + 1
    BY DEF TypeOK
  <2>4. \A e \in Doc : source'[e] = source[e] \/ source'[e] = 0 \/ (e = d /\ source'[e] = clock + 1)
    BY <2>2 DEF TypeOK
  <2>5. ASSUME spc = "prune", NEW e \in Doc \ scan, source'[e] > 0
        PROVE  /\ \A k \in Kb : index[k][e] < source'[e]
               /\ cursor <= source'[e] /\ task.saved <= source'[e]
               /\ \A t \in batch : t.saved <= source'[e]
    <3>1. CASE source'[e] = source[e]
      BY <2>5, <3>1 DEF SnapshotIsFresh
    <3>2. CASE e = d /\ source'[e] = clock + 1
      BY <2>3, <3>2 DEF TypeOK
    <3>3. QED
      BY <2>4, <2>5, <3>1, <3>2
  <2>6. QED
    BY <2>1, <2>5 DEF SnapshotIsFresh
<1>6. ASSUME NEW d \in Doc, Batch(d) PROVE SnapshotIsFresh'
  BY <1>6, <1>2 DEF Batch
<1>7. ASSUME NEW p, ScheduleStep(p) \/ ScheduleFails(p) PROVE SnapshotIsFresh'
  BY <1>7, <1>1 DEF ScheduleStep, Check, Mark, Save, Rescue, ScheduleFails, external, syncer, range
<1>8. CASE List \/ Take \/ Start \/ Generate \/ Persist \/ Prune \/ End \/ Done
  BY <1>8, <1>2 DEF List, Take, Start, Generate, Persist, Prune, End, Done, Goto
<1>9. CASE Again \/ Fail \/ Crash
  BY <1>9, <1>2 DEF Again, Fail, Crash, Proceed, Goto
<1>10. ASSUME NEW u \in User, \/ RequestDies(u)
                              \/ \E kind \in Requests, k \in Kb : Request(u, kind, k)
       PROVE  SnapshotIsFresh'
  BY <1>10, <1>1 DEF RequestDies, Request, external, tables, syncer, range
<1>11. QED
  BY <1>1, <1>3, <1>4, <1>5, <1>6, <1>7, <1>8, <1>9, <1>10
     DEF Next, SyncStep, UserStep, vars, external, tables, syncer, range

(***************************************************************************)
(* Times are in the past, and a snapshot is missing only what is newer     *)
(* than anything stored or passed.                                         *)
(***************************************************************************)
THEOREM SyncTypeInvAlways == Spec => []SyncTypeInv
<1>1. Init => SyncTypeInv
  <2> SUFFICES ASSUME Init PROVE SyncTypeInv
    OBVIOUS
  <2>1. clock \in Time /\ 0 \in 0 .. clock /\ None \in None .. clock /\ clock = 0
    BY Bounds DEF Init, Time, None
  <2>2. TypeOK
    BY <2>1 DEF Init, TypeOK, NoTask
  <2>3. SnapshotIsFresh
    BY DEF Init, SnapshotIsFresh
  <2>4. QED
    BY <2>2, <2>3 DEF SyncTypeInv
<1>2. SyncTypeInv /\ [Next]_vars => SyncTypeInv'
  BY TypeOKStep, SnapshotIsFreshStep DEF SyncTypeInv
<1>3. QED
  BY <1>1, <1>2, PTL DEF Spec

(***************************************************************************)
(* A document that is as it is in the source stays so: a sync stores the   *)
(* source's, a prune deletes only what its snapshot is missing.            *)
(***************************************************************************)
THEOREM UpToDateStaysAlways == Spec => UpToDateStays
<1> DEFINE Spoils(k, d) == /\ index[k][d] > 0 /\ index[k][d] = source[d]
                           /\ index'[k][d] # index[k][d]
<1>1. ASSUME SyncTypeInv, [Next]_vars, NEW k \in Kb, NEW d \in Doc, Spoils(k, d)
      PROVE  \E u \in User : Statement(u, "empty", k)
  <2>1. index' # index
    BY <1>1 DEF Spoils
  <2>2. CASE \E e \in Doc : Batch(e)
    <3>1. PICK e \in Doc : Batch(e)
      BY <2>2
    <3>2. index' = [index EXCEPT ![task.kb][e] = source[e]]
      BY <2>1, <3>1 DEF Batch
    <3>3. index'[k][d] = index[k][d] \/ index'[k][d] = source[d]
      BY <3>2 DEF SyncTypeInv, TypeOK
    <3>4. QED
      BY <1>1, <3>3 DEF Spoils
  <2>3. CASE Prune
    <3>1. PICK gone \in SUBSET {e \in Doc : e \notin scan} :
            index' = [index EXCEPT ![task.kb] = [e \in Doc |-> IF e \in gone THEN 0 ELSE @[e]]]
      BY <2>3 DEF Prune
    <3>2. index'[k][d] = index[k][d] \/ d \in gone
      BY <3>1 DEF SyncTypeInv, TypeOK
    <3>3. d \in Doc \ scan /\ spc = "prune"
      BY <1>1, <2>3, <3>2 DEF Spoils, Prune
    <3>4. source[d] > 0 => index[k][d] < source[d]
      BY <1>1, <3>3 DEF SyncTypeInv, SnapshotIsFresh
    <3>5. index[k][d] \in Nat /\ source[d] \in Nat
      BY <1>1 DEF SyncTypeInv, TypeOK, Time
    <3>6. QED
      BY <1>1, <3>4, <3>5 DEF Spoils
  <2>4. CASE \E u \in User : Execute(u)
    <3>1. PICK u \in User : Execute(u)
      BY <2>4
    <3>2. PICK l \in Kb : Statement(u, "empty", l) /\ index' = [index EXCEPT ![l] = [e \in Doc |-> 0]]
      BY <2>1, <3>1 DEF Execute
    <3>3. l = k
      BY <1>1, <3>2 DEF Spoils, SyncTypeInv, TypeOK
    <3>4. QED
      BY <3>2, <3>3
  <2>5. CASE \/ \E u \in User : \/ RequestDies(u)
                               \/ \E kind \in Requests, l \in Kb : Request(u, kind, l)
             \/ \E p \in User \cup {Sync} : ScheduleStep(p) \/ ScheduleFails(p)
    BY <2>1, <2>5 DEF RequestDies, Request, ScheduleStep, Check, Mark, Save, Rescue, ScheduleFails,
         tables
  <2>6. CASE List \/ Take \/ Start \/ Generate \/ Persist \/ Snapshot \/ End \/ Done \/ Again
    BY <2>1, <2>6 DEF List, Take, Start, Generate, Persist, Snapshot, End, Done, Again, tables
  <2>7. CASE Fail \/ Crash \/ UNCHANGED vars \/ \E e \in Doc : Write(e) \/ Delete(e)
    BY <2>1, <2>7 DEF Fail, Crash, vars, Write, Delete, tables
  <2>8. QED
    BY <1>1, <2>2, <2>3, <2>4, <2>5, <2>6, <2>7 DEF Next, SyncStep, UserStep
<1>2. SyncTypeInv /\ [Next]_vars =>
        [\A k \in Kb, d \in Doc :
            index[k][d] > 0 /\ index[k][d] = source[d] =>
                \/ index'[k][d] = index[k][d]
                \/ \E u \in User : Statement(u, "empty", k)]_vars
  BY <1>1 DEF Spoils
<1>3. QED
  BY <1>2, SyncTypeInvAlways, PTL DEF Spec, UpToDateStays

-----------------------------------------------------------------------------
(* A step that leaves the source, the knowledge base and the times alone.  *)
LEMMA PassedQuiet ==
  ASSUME PassedIsKept, UNCHANGED <<source, index, cursor, scan, upto, clean>>,
         task'.saved \in {task.saved, cursor, None} \cup {t.saved : t \in batch},
         \A t \in batch' : t.saved \in {cursor, None} \cup {s.saved : s \in batch},
         spc' = "scan" => spc = "scan", rebuilt \subseteq rebuilt',
         \A d \in Doc : source[d] > 0 => ~(source[d] < None)
  PROVE  PassedIsKept'
<1> SUFFICES ASSUME NEW k \in Kb \ rebuilt'
             PROVE  /\ Passed(k, cursor)' /\ Passed(k, task.saved)'
                    /\ \A t \in batch' : Passed(k, t.saved)'
                    /\ spc' = "scan" /\ clean' => \A d \in Doc \ scan' :
                           source'[d] > 0 /\ source'[d] < upto' => index'[k][d] = source'[d]
  BY DEF PassedIsKept
<1>1. \A m \in {task.saved, cursor, None} \cup {t.saved : t \in batch} : Passed(k, m)
  BY DEF PassedIsKept, Passed
<1>2. \A m : Passed(k, m) => Passed(k, m)'
  BY DEF Passed
<1>3. QED
  BY <1>1, <1>2 DEF PassedIsKept

LEMMA PassedIsKeptStep ==
  ASSUME Cursor, \A k, l \in Kb : k = l, SyncTypeInv, PassedIsKept, [Next]_vars
  PROVE  PassedIsKept'
<1> USE Switches, Bounds
<1>0. \A d \in Doc : source[d] \in Nat /\ (source[d] > 0 => ~(source[d] < None))
  BY DEF SyncTypeInv, TypeOK, Time, None
<1>1. CASE \/ Start \/ End \/ Done \/ UNCHANGED vars
           \/ \E p \in User \cup {Sync} : ScheduleStep(p) \/ ScheduleFails(p)
           \/ \E u \in User : \/ RequestDies(u)
                             \/ \E kind \in Requests, l \in Kb : Request(u, kind, l)
  <2>1. /\ UNCHANGED <<source, index, cursor, scan, upto, clean, task, batch, rebuilt>>
        /\ spc' = "scan" => spc = "scan"
    BY <1>1 DEF Start, End, Done, RequestDies, Request, ScheduleStep, Check, Mark, Save, Rescue,
         ScheduleFails, Goto, vars, external, tables, syncer, range, request
  <2>2. QED
    BY <1>0, <2>1, PassedQuiet
<1>2. CASE List
  <2>1. \A t \in batch' : t \in AllOf("sync") \cup AllOf("prune")
    BY <1>2 DEF List
  <2>2. \A t \in batch' : t.saved \in {cursor, None}
    BY <2>1, ListedTasks
  <2>3. /\ UNCHANGED <<source, index, cursor, scan, upto, clean, task, rebuilt>>
        /\ spc' # "scan"
    BY <1>2 DEF List, Goto, external, tables, range, request
  <2>4. QED
    BY <1>0, <2>2, <2>3, PassedQuiet
<1>3. CASE Take
  <2>1. /\ UNCHANGED <<source, index, cursor, scan, upto, clean, rebuilt>>
        /\ task' \in batch /\ batch' \subseteq batch /\ spc' # "scan"
    BY <1>3 DEF Take, Goto, external, range, request
  <2>2. QED
    BY <1>0, <2>1, PassedQuiet
<1>4. CASE Again \/ Fail \/ Crash
  <2>1. /\ UNCHANGED <<source, index, cursor, rebuilt>> /\ spc' # "scan"
        /\ task'.saved = None /\ batch' \subseteq batch
    BY <1>4 DEF Again, Fail, Crash, Proceed, NoTask, Goto, external, tables, request
  <2>2. QED
    BY <1>0, <2>1 DEF PassedIsKept, Passed
<1>5. CASE Generate
  <2>1. /\ UNCHANGED <<source, index, cursor, task, batch, rebuilt>>
        /\ scan' = {d \in Doc : source[d] > 0 /\ source[d] \in Since(task) .. Until(task)}
        /\ upto' = Latest
    BY <1>5 DEF Generate, external, tables, request
  <2>2. ASSUME NEW k \in Kb \ rebuilt, NEW d \in Doc \ scan', source[d] > 0, source[d] < Latest
        PROVE  index[k][d] = source[d]
    <3>1. source[d] \notin Since(task) .. Until(task) /\ source[d] \in 0 .. MaxTime
      BY <2>1, <2>2 DEF SyncTypeInv, TypeOK, Time
    <3>2. ~FromBeginning(task)
      BY <3>1, <2>2 DEF Since, Until, None
    <3>3. Since(task) = task.saved /\ Until(task) = Latest
      BY <3>2 DEF Since, Until
    <3>4. Latest \in Int /\ task.saved \in Int
      BY LatestIsPast DEF SyncTypeInv, TypeOK, Time, None
    <3>5. source[d] < task.saved
      BY <2>2, <3>1, <3>3, <3>4
    <3>6. QED
      BY <2>2, <3>5 DEF PassedIsKept, Passed
  <2>3. QED
    BY <2>1, <2>2 DEF PassedIsKept, Passed
<1>6. ASSUME NEW d \in Doc, Batch(d) PROVE PassedIsKept'
  <2>1. /\ UNCHANGED <<source, cursor, task, batch, rebuilt, upto>> /\ spc = "scan"
        /\ scan' = scan \ {d} /\ d \in scan /\ task.kb \in Kb
    BY <1>6 DEF Batch, external, request, SyncTypeInv, TypeOK
  <2>2. \/ index' = index /\ clean' = FALSE
        \/ index' = [index EXCEPT ![task.kb][d] = source[d]] /\ clean' \in {clean, FALSE}
        \/ /\ index' = index /\ clean' = clean
           /\ source[d] = 0 \/ source[d] > (IF FromBeginning(task) THEN MaxTime ELSE upto)
    BY <1>6 DEF Batch
  <2>3. \A k \in Kb, e \in Doc : index'[k][e] = index[k][e] \/ index'[k][e] = source[e]
    <3>1. index' = index \/ index' = [index EXCEPT ![task.kb][d] = source[d]]
      BY <2>2
    <3>2. QED
      BY <2>1, <3>1 DEF SyncTypeInv, TypeOK
  <2>4. \A k \in Kb : \A m : Passed(k, m) => Passed(k, m)'
    BY <2>1, <2>3 DEF Passed
  <2>5. ASSUME NEW k \in Kb \ rebuilt, clean', NEW e \in Doc \ scan', source[e] > 0, source[e] < upto
        PROVE  index'[k][e] = source[e]
    <3>1. CASE e # d
      BY <2>1, <2>2, <2>3, <2>5, <3>1 DEF PassedIsKept
    <3>2. CASE e = d
      <4>1. k = task.kb
        BY <2>1
      <4>2. source[d] \in 0 .. MaxTime /\ upto \in Int
        BY DEF SyncTypeInv, TypeOK, Time, None
      <4>3. ~(source[d] = 0 \/ source[d] > (IF FromBeginning(task) THEN MaxTime ELSE upto))
        BY <2>5, <3>2, <4>2
      <4>4. index' = [index EXCEPT ![task.kb][d] = source[d]]
        BY <2>2, <2>5, <4>3
      <4>5. QED
        BY <2>1, <3>2, <4>1, <4>4 DEF SyncTypeInv, TypeOK
    <3>3. QED
      BY <3>1, <3>2
  <2>6. QED
    BY <2>1, <2>4, <2>5 DEF PassedIsKept
<1>7. CASE Persist
  <2>1. /\ UNCHANGED <<source, index, task, batch, rebuilt>> /\ spc = "scan" /\ spc' # "scan"
        /\ scan = {} /\ cursor' = IF clean THEN upto ELSE cursor
    BY <1>7 DEF Persist, Persisted, Goto, external, request
  <2>2. ASSUME NEW k \in Kb \ rebuilt PROVE Passed(k, cursor')
    BY <2>1 DEF PassedIsKept, Passed
  <2>3. QED
    BY <2>1, <2>2 DEF PassedIsKept, Passed
<1>8. CASE Snapshot
  BY <1>8 DEF Snapshot, Goto, PassedIsKept, Passed, external, tables, request
<1>9. CASE Prune
  <2>1. /\ UNCHANGED <<source, cursor, task, batch, rebuilt>> /\ spc = "prune" /\ spc' # "scan"
    BY <1>9 DEF Prune, Goto, external, request
  <2>2. PICK gone \in SUBSET {e \in Doc : e \notin scan} :
          index' = [index EXCEPT ![task.kb] = [e \in Doc |-> IF e \in gone THEN 0 ELSE @[e]]]
    BY <1>9 DEF Prune
  <2>3. \A k \in Kb, d \in Doc : index'[k][d] = index[k][d] \/ d \in Doc \ scan
    BY <2>2 DEF SyncTypeInv, TypeOK
  <2>4. \A m \in {cursor, task.saved} \cup {t.saved : t \in batch}, k \in Kb :
          Passed(k, m) => Passed(k, m)'
    <3>1. ASSUME NEW m \in {cursor, task.saved} \cup {t.saved : t \in batch}, NEW d \in Doc \ scan,
                 source[d] > 0
          PROVE  ~(source[d] < m)
      <4>1. m <= source[d] /\ m \in Int /\ source[d] \in Int
        BY <2>1, <3>1 DEF SyncTypeInv, TypeOK, SnapshotIsFresh, Time, None
      <4>2. QED
        BY <4>1
    <3>2. QED
      BY <2>1, <2>3, <3>1 DEF Passed
  <2>5. QED
    BY <2>1, <2>4 DEF PassedIsKept
<1>10. ASSUME NEW u \in User, Execute(u) PROVE PassedIsKept'
  <2>1. /\ UNCHANGED <<source, cursor, task, batch, spc, scan, upto, clean>>
        /\ rebuilt \subseteq rebuilt'
    BY <1>10 DEF Execute, external, syncer, range
  <2>2. CASE index' = index
    BY <2>1, <2>2 DEF PassedIsKept, Passed
  <2>3. CASE index' # index
    <3>1. PICK l \in Kb : Statement(u, "empty", l)
      BY <1>10, <2>3 DEF Execute
    <3>2. Head(todo[u]).op = "empty" /\ Head(todo[u]).kb = l
      BY <3>1 DEF Statement
    <3>3. rebuilt' = rebuilt \cup {l}
      BY <1>10, <3>2 DEF Execute
    <3>4. Kb \ rebuilt' = {}
      BY <3>3
    <3>5. QED
      BY <3>4 DEF PassedIsKept
  <2>4. QED
    BY <2>2, <2>3
<1>11. ASSUME NEW d \in Doc, Write(d) \/ Delete(d) PROVE PassedIsKept'
  <2>1. UNCHANGED <<index, cursor, task, batch, spc, scan, upto, clean, rebuilt>>
    BY <1>11 DEF Write, Delete, tables, syncer, range, request
  <2>2. \A e \in Doc : source'[e] = source[e] \/ source'[e] = 0 \/ source'[e] = clock + 1
    BY <1>11 DEF Write, Delete, SyncTypeInv, TypeOK
  <2>3. \A m \in {cursor, task.saved, upto} \cup {t.saved : t \in batch} : ~(clock + 1 < m) /\ ~(0 > 0)
    BY DEF SyncTypeInv, TypeOK, Time, None
  <2>4. \A m \in {cursor, task.saved, upto} \cup {t.saved : t \in batch}, e \in Doc :
          source'[e] > 0 /\ source'[e] < m => source'[e] = source[e]
    BY <2>2, <2>3
  <2>5. \A m \in {cursor, task.saved} \cup {t.saved : t \in batch}, k \in Kb :
          Passed(k, m) => Passed(k, m)'
    BY <2>1, <2>4 DEF Passed
  <2>6. QED
    BY <2>1, <2>4, <2>5 DEF PassedIsKept
<1>12. QED
  BY <1>1, <1>2, <1>3, <1>4, <1>5, <1>6, <1>7, <1>8, <1>9, <1>10, <1>11
     DEF Next, SyncStep, UserStep

(***************************************************************************)
(* Of a connector with a cursor and one knowledge base: a scheduled sync   *)
(* starts behind no document that the knowledge base does not have.        *)
(***************************************************************************)
THEOREM NothingMissedAlways ==
  ASSUME Cursor, \A k, l \in Kb : k = l
  PROVE  Spec => []NothingMissed
<1>1. Init => PassedIsKept
  <2> SUFFICES ASSUME Init PROVE PassedIsKept
    OBVIOUS
  <2>1. \A d \in Doc : source[d] = 0
    BY DEF Init
  <2>2. batch = {} /\ spc # "scan"
    BY DEF Init
  <2>3. QED
    BY <2>1, <2>2 DEF PassedIsKept, Passed
<1>2. SyncTypeInv /\ PassedIsKept /\ [Next]_vars => PassedIsKept'
  BY PassedIsKeptStep
<1>3. SyncTypeInv /\ PassedIsKept => NothingMissed
  <2> SUFFICES ASSUME SyncTypeInv, PassedIsKept, NEW k \in linked \ rebuilt, NEW n \in DOMAIN logs[k],
                      NEW d \in Doc, source[d] > 0, source[d] < From(logs[k][n])
               PROVE  index[k][d] = source[d]
    BY DEF NothingMissed
  <2>1. k \in Kb /\ source[d] \in Nat
    BY DEF SyncTypeInv, TypeOK, Time
  <2>2. From(logs[k][n]) \in {None, cursor}
    BY DEF From
  <2>3. From(logs[k][n]) = cursor
    BY <2>1, <2>2 DEF None
  <2>4. QED
    BY <2>1, <2>3 DEF PassedIsKept, Passed
<1>4. QED
  BY <1>1, <1>2, <1>3, SyncTypeInvAlways, PTL DEF Spec
=============================================================================
