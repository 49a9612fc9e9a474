----------------------------- MODULE DatasetNav -----------------------------
(***************************************************************************)
(* rag/advanced_rag/knowlege_compile/dataset_nav.py: task executors that   *)
(* finish a document append or refresh its line in the knowledge base's    *)
(* navigation row, and the API server drops the line of a document it      *)
(* deletes.  Each call reads the row, changes one line and writes the      *)
(* whole row back, inside a RedisDistributedLock.                          *)
(*                                                                         *)
(* The order of the lines and their markdown are left out: the row maps a  *)
(* document to its summary, or to NoLine.                                  *)
(***************************************************************************)
EXTENDS RedisLock, FiniteSets

CONSTANTS Doc, Summary, NoLine,
          MaxDocs,        \* MAX_DATASET_NAV_DOCS
          StoreFails,     \* the document store may fail a read or a write
          RedisFails,     \* Redis may fail during spin_acquire()
          Crashes         \* a process may die

ASSUME NavAssumption ==
    /\ NoLine \notin Summary
    /\ MaxDocs \in Nat /\ IsFiniteSet(Doc)
    /\ StoreFails \in BOOLEAN /\ RedisFails \in BOOLEAN /\ Crashes \in BOOLEAN

VARIABLES
    row,    \* the row in the document store
    live,   \* the documents the database knows
    npc,    \* how far a client is in its call
    op,     \* the call of a client
    snap,   \* the row as the client read it
    sound   \* history: no call went on without the lock, none was handed a
            \* missing row for a failed read, and no TTL ran out in a section

navVars == <<row, live, npc, op, snap, sound>>
vars == <<navVars, lockVars>>

Row == [Doc -> Summary \cup {NoLine}]
EmptyRow == [d \in Doc |-> NoLine]
Lines(r) == {d \in Doc : r[d] # NoLine}

Upsert == [kind : {"upsert"}, doc : Doc, sum : Summary]
Remove == [kind : {"remove"}, doc : Doc]
NoOp == [kind |-> "none"]

Init ==
    /\ LockInit
    /\ row = EmptyRow
    /\ live = Doc
    /\ npc = [c \in Client |-> "idle"]
    /\ op = [c \in Client |-> NoOp]
    /\ snap = [c \in Client |-> EmptyRow]
    /\ sound = TRUE

Goto(c, l) == npc' = [npc EXCEPT ![c] = l]

(* An executor has compiled the tree of a document it was given while the  *)
(* document existed, and calls upsert_dataset_nav_doc; spin_acquire() runs *)
(* its delete_if_equal.                                                    *)
StartUpsert(c, d, s) ==
    /\ npc[c] = "idle" /\ d \in live
    /\ AcquireDelete(c)
    /\ op' = [op EXCEPT ![c] = [kind |-> "upsert", doc |-> d, sum |-> s]]
    /\ Goto(c, "locking")
    /\ UNCHANGED <<row, live, snap, sound>>

(* remove_document: the row of the document table goes first, the          *)
(* navigation line last.                                                   *)
DeleteDocument(c, d) ==
    /\ npc[c] = "idle" /\ d \in live
    /\ AcquireDelete(c)
    /\ live' = live \ {d}
    /\ op' = [op EXCEPT ![c] = [kind |-> "remove", doc |-> d]]
    /\ Goto(c, "locking")
    /\ UNCHANGED <<row, snap, sound>>

(* Mutant: one attempt to take the lock, whose result is not looked at. *)
LockedOrNot(c) ==
    /\ npc[c] = "locking"
    /\ TrySet(c) \/ GiveUp(c)
    /\ Goto(c, "read")
    /\ UNCHANGED <<row, live, op, snap, sound>>

(* spin_acquire() tries every ten seconds until it has the lock. *)
Locked(c) ==
    /\ npc[c] = "locking"
    /\ TrySet(c)
    /\ Goto(c, "read")
    /\ UNCHANGED <<row, live, op, snap, sound>>

(* spin_acquire() raised: the call goes on without the lock, whether or    *)
(* not Redis had set the key before the connection broke.                  *)
LockFree(c) ==
    /\ RedisFails
    /\ npc[c] = "locking"
    /\ lpc' = [lpc EXCEPT ![c] = "refused"]
    /\ \/ UNCHANGED lock
       \/ lock = NoOne /\ lock' = c
    /\ Goto(c, "read")
    /\ sound' = FALSE
    /\ UNCHANGED <<row, live, op, snap>>

(* Mutant: the cap on the number of lines is not looked at. *)
HasWorkUncapped(o, r) == o.kind = "upsert" \/ r[o.doc] # NoLine

(* Whether the call has something to write, r being the row it read. *)
HasWork(o, r) ==
    \/ o.kind = "upsert" /\ (r[o.doc] # NoLine \/ Cardinality(Lines(r)) < MaxDocs)
    \/ o.kind = "remove" /\ r[o.doc] # NoLine

NewRow(o, r) ==
    [r EXCEPT ![o.doc] = IF o.kind = "upsert" THEN o.sum ELSE NoLine]

(* _get_existing, and the early returns of a full row and of a removal     *)
(* that finds no line.  A failed read is reported as a missing row.        *)
Read(c) ==
    /\ npc[c] = "read"
    /\ \E r \in {row} \cup (IF StoreFails THEN {EmptyRow} ELSE {}) :
          /\ snap' = [snap EXCEPT ![c] = r]
          /\ Goto(c, IF HasWork(op[c], r) THEN "write" ELSE "release")
          /\ sound' = (sound /\ r = row)
    /\ UNCHANGED <<row, live, op, lockVars>>

(* _write_row: an update or an insert of the whole row, whose failure is   *)
(* logged and swallowed.                                                   *)
Write(c) ==
    /\ npc[c] = "write"
    /\ \/ row' = NewRow(op[c], snap[c])
       \/ StoreFails /\ UNCHANGED row
    /\ Goto(c, "release")
    /\ UNCHANGED <<live, op, snap, sound, lockVars>>

(* The finally clause. *)
Finish(c) ==
    /\ npc[c] = "release"
    /\ Release(c) \/ ReleaseUnheld(c)
    /\ op' = [op EXCEPT ![c] = NoOp]
    /\ snap' = [snap EXCEPT ![c] = EmptyRow]
    /\ Goto(c, "idle")
    /\ UNCHANGED <<row, live, sound>>

Crash(c) ==
    /\ Crashes
    /\ ClientCrash(c)
    /\ op' = [op EXCEPT ![c] = NoOp]
    /\ snap' = [snap EXCEPT ![c] = EmptyRow]
    /\ Goto(c, "idle")
    /\ UNCHANGED <<row, live, sound>>

KeyExpires ==
    /\ Expire
    /\ sound' = (sound /\ lpc[lock] # "held")
    /\ UNCHANGED <<row, live, npc, op, snap>>

Next ==
    \/ \E c \in Client :
          \/ \E d \in Doc : DeleteDocument(c, d) \/ \E s \in Summary : StartUpsert(c, d, s)
          \/ Locked(c) \/ LockFree(c) \/ Read(c) \/ Write(c) \/ Finish(c) \/ Crash(c)
    \/ KeyExpires

Spec == Init /\ [][Next]_vars

(* Between two steps of a call nothing but the lock makes a client wait.   *)
(* The lock is not fair, but a client that keeps trying every ten seconds  *)
(* meets a free lock sooner or later: strong fairness.                     *)
LiveSpec ==
    /\ Spec
    /\ \A c \in Client : /\ WF_vars(Read(c)) /\ WF_vars(Write(c)) /\ WF_vars(Finish(c))
                         /\ SF_vars(Locked(c))
    /\ WF_vars(KeyExpires)

-----------------------------------------------------------------------------
TypeOK ==
    /\ LockTypeOK
    /\ row \in Row
    /\ live \subseteq Doc
    /\ npc \in [Client -> {"idle", "locking", "read", "write", "release"}]
    /\ op \in [Client -> Upsert \cup Remove \cup {NoOp}]
    /\ snap \in [Client -> Row]
    /\ sound \in BOOLEAN

InSection(c) == npc[c] \in {"read", "write", "release"}

(* The inductive invariant: calls and lock agree about who is in a         *)
(* section, so that no second client can write while a snapshot is held.   *)
NavInv ==
    /\ TypeOK
    /\ \A c \in Client :
          /\ npc[c] = "idle" <=> lpc[c] = "idle"
          /\ npc[c] = "locking" <=> lpc[c] = "trying"
          /\ npc[c] # "idle" => op[c] # NoOp
          /\ sound /\ InSection(c) => lpc[c] = "held" /\ lock = c
          /\ sound /\ npc[c] = "write" => snap[c] = row /\ HasWork(op[c], row)

(* multiple executors "must not interleave their read-modify-writes":      *)
(* until Redis, the store or the TTL lets a call down, none is between its *)
(* read and its write while another one is in its section.                 *)
NoInterleaving ==
    sound => \A c, d \in Client : npc[c] = "write" /\ InSection(d) => c = d

(* An upsert "appends (or refreshes) one line": a step changes at most the *)
(* line of the document its call is about.                                 *)
OneLineAtATime ==
    [][\A d, e \in Doc : row'[d] # row[d] /\ row'[e] # row[e] => d = e]_vars

(* Seen from outside, the calls are atomic changes of one line of the row, *)
(* until Redis, the store or the TTL lets a call down.                     *)
Nav == INSTANCE NavRow WITH Doc <- Doc, Summary <- Summary, NoLine <- NoLine,
                            MaxDocs <- MaxDocs, row <- row, sound <- sound
NavRefined == Nav!NavSpec

(* "the markdown stays in sync with the KB's doc set": with no call in     *)
(* progress, only documents the database knows have a line.                *)
InSync ==
    (\A c \in Client : npc[c] = "idle") => Lines(row) \subseteq live

(* Every call ends, also when the holder of the lock died.                 *)
CallsEnd == \A c \in Client : npc[c] # "idle" ~> npc[c] = "idle"
=============================================================================
