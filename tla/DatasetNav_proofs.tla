------------------------- MODULE DatasetNav_proofs -------------------------
(***************************************************************************)
(* The theorems about RedisLock, for any number of clients, and about      *)
(* DatasetNav, for any number of processes, documents and summaries,       *)
(* whatever fails: what they promise holds until a call goes on without    *)
(* the lock, a failed read is taken for a missing row or a TTL runs out    *)
(* inside a section (sound).  Processes may die at any point.              *)
(***************************************************************************)
EXTENDS DatasetNav, FiniteSetTheorems, TLAPS

(***************************************************************************)
(* However the clients interleave, die and come back, the token in Redis   *)
(* is the one of the client that is in its section, as long as the TTL     *)
(* outlives the sections.                                                  *)
(***************************************************************************)
THEOREM HolderOwnsKeyAlways == LockSpec => []HolderOwnsKey
<1>1. LockInit => HolderOwnsKey
  BY LockAssumption DEF LockInit, HolderOwnsKey, LockTypeOK, LockState
<1>2. HolderOwnsKey /\ [LockNext]_lockVars => HolderOwnsKey'
  <2> SUFFICES ASSUME HolderOwnsKey, [LockNext]_lockVars
               PROVE  HolderOwnsKey'
    OBVIOUS
  <2> USE LockAssumption DEF HolderOwnsKey, LockTypeOK, LockState
  <2>1. ASSUME NEW c \in Client, AcquireDelete(c) PROVE HolderOwnsKey'
    BY <2>1 DEF AcquireDelete, DeleteIfEqual
  <2>2. ASSUME NEW c \in Client, TrySet(c) PROVE HolderOwnsKey'
    BY <2>2 DEF TrySet
  <2>3. ASSUME NEW c \in Client, GiveUp(c) PROVE HolderOwnsKey'
    BY <2>3 DEF GiveUp
  <2>4. ASSUME NEW c \in Client, Release(c) PROVE HolderOwnsKey'
    BY <2>4 DEF Release, DeleteIfEqual
  <2>5. ASSUME NEW c \in Client, ReleaseUnheld(c) PROVE HolderOwnsKey'
    BY <2>5 DEF ReleaseUnheld, DeleteIfEqual
  <2>6. ASSUME NEW c \in Client, ClientCrash(c) PROVE HolderOwnsKey'
    BY <2>6 DEF ClientCrash
  <2>7. CASE Expire
    BY <2>7 DEF Expire
  <2>8. CASE UNCHANGED lockVars
    BY <2>8 DEF lockVars
  <2>9. QED
    BY <2>1, <2>2, <2>3, <2>4, <2>5, <2>6, <2>7, <2>8 DEF LockNext
<1>3. QED
  BY <1>1, <1>2, PTL DEF LockSpec

(***************************************************************************)
(* Two clients are never inside a section at once.                         *)
(***************************************************************************)
THEOREM MutualExclusionAlways == LockSpec => []MutualExclusion
<1>1. HolderOwnsKey => MutualExclusion
  BY DEF HolderOwnsKey, MutualExclusion
<1>2. QED
  BY <1>1, HolderOwnsKeyAlways, PTL

-----------------------------------------------------------------------------
(* The invariant keeps everybody but the holder of the lock out of the     *)
(* sections.                                                               *)
LEMMA SectionExcludes ==
  ASSUME NavInv, NEW c \in Client, NEW d \in Client,
         sound, InSection(c), InSection(d)
  PROVE  c = d
  BY DEF NavInv, InSection

(***************************************************************************)
(* A client that is about to write holds the lock and the row as it is:    *)
(* no read-modify-write is interleaved with another.                       *)
(***************************************************************************)
THEOREM NavInvAlways ==
  Spec => []NavInv
<1> USE LockAssumption, NavAssumption
<1>1. Init => NavInv
  BY DEF Init, LockInit, NavInv, TypeOK, LockTypeOK, LockState, Row, EmptyRow,
         NoOp, InSection
<1>2. NavInv /\ [Next]_vars => NavInv'
  <2> SUFFICES ASSUME NavInv, [Next]_vars
               PROVE  NavInv'
    OBVIOUS
  <2> USE DEF NavInv, TypeOK, LockTypeOK, LockState, InSection, Goto
  <2>0. NoOp \notin Upsert \cup Remove /\ EmptyRow \in Row
    BY DEF NoOp, Upsert, Remove, EmptyRow, Row
  <2>1. ASSUME NEW c \in Client, NEW d \in Doc, DeleteDocument(c, d)
        PROVE  NavInv'
    <3>1. [kind |-> "remove", doc |-> d] \in Remove
      BY DEF Remove
    <3>2. QED
      BY <2>1, <2>0, <3>1 DEF DeleteDocument, AcquireDelete, DeleteIfEqual
  <2>2. ASSUME NEW c \in Client, NEW d \in Doc, NEW s \in Summary, StartUpsert(c, d, s)
        PROVE  NavInv'
    <3>1. [kind |-> "upsert", doc |-> d, sum |-> s] \in Upsert
      BY DEF Upsert
    <3>2. QED
      BY <2>2, <2>0, <3>1 DEF StartUpsert, AcquireDelete, DeleteIfEqual
  <2>3. ASSUME NEW c \in Client, Locked(c) PROVE NavInv'
    BY <2>3 DEF Locked, TrySet
  <2>4. ASSUME NEW c \in Client, LockFree(c) PROVE NavInv'
    BY <2>4 DEF LockFree
  <2>5. ASSUME NEW c \in Client, Read(c) PROVE NavInv'
    <3> PICK r \in {row, EmptyRow} :
            /\ snap' = [snap EXCEPT ![c] = r]
            /\ Goto(c, IF HasWork(op[c], r) THEN "write" ELSE "release")
            /\ sound' = (sound /\ r = row)
      <4>1. \E r \in {row} \cup (IF StoreFails THEN {EmptyRow} ELSE {}) :
               /\ snap' = [snap EXCEPT ![c] = r]
               /\ Goto(c, IF HasWork(op[c], r) THEN "write" ELSE "release")
               /\ sound' = (sound /\ r = row)
        BY <2>5, Zenon DEF Read
      <4>2. QED
        BY <4>1, Zenon
    <3>1. r \in Row
      BY <2>0
    <3>2. CASE HasWork(op[c], r)
      <4>1. npc' = [npc EXCEPT ![c] = "write"]
        BY <2>5, <3>2 DEF Read
      <4>2. UNCHANGED <<row, live, op, lock, lpc>>
        BY <2>5 DEF Read, lockVars
      <4>3. \A e \in Client : HasWork(op[e], row)' <=> HasWork(op[e], row)
        BY <4>2 DEF HasWork, Lines
      <4>4. npc[c] = "read"
        BY <2>5 DEF Read
      <4>5. QED
        BY <3>1, <3>2, <4>1, <4>2, <4>3, <4>4
    <3>3. CASE ~HasWork(op[c], r)
      <4>1. npc' = [npc EXCEPT ![c] = "release"]
        BY <2>5, <3>3 DEF Read
      <4>2. UNCHANGED <<row, live, op, lock, lpc>>
        BY <2>5 DEF Read, lockVars
      <4>3. \A e \in Client : HasWork(op[e], row)' <=> HasWork(op[e], row)
        BY <4>2 DEF HasWork, Lines
      <4>4. npc[c] = "read"
        BY <2>5 DEF Read
      <4>5. QED
        BY <3>1, <4>1, <4>2, <4>3, <4>4
    <3>4. QED
      BY <3>2, <3>3
  <2>6. ASSUME NEW c \in Client, Write(c) PROVE NavInv'
    <3>1. row' = NewRow(op[c], snap[c]) \/ row' = row
      BY <2>6 DEF Write
    <3>2. op[c] \in Upsert \cup Remove
      BY <2>6 DEF Write
    <3>3. row' \in Row
      BY <3>1, <3>2 DEF NewRow, Row, Upsert, Remove
    <3>4. sound => \A e \in Client : npc'[e] # "write"
      BY <2>6, SectionExcludes DEF Write
    <3>5. QED
      BY <2>6, <3>3, <3>4 DEF Write, lockVars
  <2>7. ASSUME NEW c \in Client, Finish(c) PROVE NavInv'
    BY <2>7, <2>0 DEF Finish, Release, ReleaseUnheld, DeleteIfEqual
  <2>8. ASSUME NEW c \in Client, Crash(c) PROVE NavInv'
    BY <2>8, <2>0 DEF Crash, ClientCrash
  <2>9. CASE KeyExpires
    BY <2>9 DEF KeyExpires, Expire, navVars
  <2>10. CASE UNCHANGED vars
    BY <2>10 DEF vars, navVars, lockVars
  <2>11. QED
    BY <2>1, <2>2, <2>3, <2>4, <2>5, <2>6, <2>7, <2>8, <2>9, <2>10 DEF Next
<1>3. QED
  BY <1>1, <1>2, PTL DEF Spec

(***************************************************************************)
(* Two calls are never between their read and their write at once.         *)
(***************************************************************************)
THEOREM NoInterleavingAlways ==
  Spec => []NoInterleaving
<1>1. NavInv => NoInterleaving
  BY SectionExcludes DEF NoInterleaving, InSection
<1>2. QED
  BY <1>1, NavInvAlways, PTL

(***************************************************************************)
(* Every behaviour of the calls, seen through the row they write, is one   *)
(* of atomic changes of a single line: the write of an upsert is           *)
(* UpsertLine, the write of a removal RemoveLine, and every other step     *)
(* leaves the row as it is.                                                *)
(***************************************************************************)
THEOREM NavRefinement ==
  Spec => NavRefined
<1>1. Init => Nav!NavInit
  BY DEF Init, EmptyRow, Nav!NavInit
<1>2. NavInv /\ [Next]_vars => [Nav!NavNext]_row
  <2> SUFFICES ASSUME NavInv, [Next]_vars
               PROVE  Nav!NavNext \/ UNCHANGED row
    OBVIOUS
  <2>1. ASSUME NEW c \in Client, Write(c)
        PROVE  Nav!NavNext \/ UNCHANGED row
    <3> SUFFICES ASSUME sound', row' # row
                 PROVE  Nav!NavNext
      BY DEF Nav!NavNext
    <3>1. HasWork(op[c], row) /\ row' = NewRow(op[c], row)
      BY <2>1 DEF Write, NavInv
    <3>2. CASE op[c] \in Upsert
      <4>1. op[c].doc \in Doc /\ op[c].sum \in Summary /\ op[c].kind = "upsert"
        BY <3>2 DEF Upsert
      <4>2. Nav!UpsertLine(op[c].doc, op[c].sum)
        BY <3>1, <4>1 DEF HasWork, NewRow, Lines, Cardinality, Nav!UpsertLine, Nav!Lines,
           Nav!Cardinality
      <4>3. QED
        BY <4>1, <4>2 DEF Nav!NavNext
    <3>3. CASE op[c] \in Remove
      <4>1. op[c].doc \in Doc /\ op[c].kind = "remove"
        BY <3>3 DEF Remove
      <4>2. Nav!RemoveLine(op[c].doc)
        BY <3>1, <4>1 DEF NewRow, Nav!RemoveLine
      <4>3. QED
        BY <4>1, <4>2 DEF Nav!NavNext
    <3>4. QED
      BY <2>1, <3>2, <3>3 DEF NavInv, TypeOK, Write
  <2>2. ASSUME NEW c \in Client,
               \/ \E d \in Doc : DeleteDocument(c, d) \/ \E s \in Summary : StartUpsert(c, d, s)
               \/ Locked(c) \/ LockFree(c) \/ Read(c) \/ Finish(c) \/ Crash(c)
        PROVE  UNCHANGED row
    BY <2>2 DEF DeleteDocument, StartUpsert, Locked, LockFree, Read, Finish, Crash
  <2>3. CASE KeyExpires \/ UNCHANGED vars
    BY <2>3 DEF KeyExpires, navVars, vars
  <2>4. QED
    BY <2>1, <2>2, <2>3 DEF Next
<1>3. QED
  BY <1>1, <1>2, NavInvAlways, PTL DEF Spec, NavRefined, Nav!NavSpec

(***************************************************************************)
(* Nobody but the TTL takes the key from a client that is in its section:  *)
(* the script of release() and acquire() compares tokens, and a call that  *)
(* goes on without the lock, whether or not Redis set its key, does so     *)
(* when the key is free.                                                   *)
(***************************************************************************)
THEOREM LostOnlyToTtlAlways ==
  Spec => LostOnlyToTtl
<1>1. NavInv /\ [Next]_vars
        => [\A c \in Client :
              lock = c /\ lpc'[c] = "held" /\ lock' # c => UNCHANGED lpc]_lockVars
  <2> SUFFICES ASSUME NavInv, [Next]_vars,
                      NEW c \in Client, lock = c, lpc'[c] = "held", lock' # c
               PROVE  UNCHANGED lpc
    OBVIOUS
  <2>0. NoOne # c /\ lpc \in [Client -> LockState]
    BY LockAssumption DEF NavInv, TypeOK, LockTypeOK
  <2>1. ASSUME NEW d \in Client,
               \/ \E e \in Doc : DeleteDocument(d, e) \/ \E s \in Summary : StartUpsert(d, e, s)
               \/ Finish(d)
        PROVE  FALSE
    <3>1. /\ lock' = IF lock = d THEN NoOne ELSE lock
          /\ lpc' = [lpc EXCEPT ![d] = "trying"] \/ lpc' = [lpc EXCEPT ![d] = "idle"]
      BY <2>1 DEF DeleteDocument, StartUpsert, Finish, AcquireDelete, Release,
         ReleaseUnheld, DeleteIfEqual
    <3>2. lpc'[d] # "held"
      BY <2>0, <3>1
    <3>3. QED
      BY <3>1, <3>2
  <2>2. ASSUME NEW d \in Client, Locked(d) \/ LockFree(d) PROVE FALSE
    BY <2>0, <2>2 DEF Locked, LockFree, TrySet
  <2>3. ASSUME NEW d \in Client, Read(d) \/ Write(d) \/ Crash(d) PROVE FALSE
    BY <2>3 DEF Read, Write, Crash, ClientCrash, lockVars
  <2>4. CASE KeyExpires
    BY <2>4 DEF KeyExpires, Expire
  <2>5. CASE UNCHANGED vars
    BY <2>5 DEF vars, lockVars
  <2>6. QED
    BY <2>1, <2>2, <2>3, <2>4, <2>5 DEF Next
<1>2. QED
  BY <1>1, NavInvAlways, PTL DEF Spec, LostOnlyToTtl
=============================================================================
