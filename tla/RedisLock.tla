------------------------------ MODULE RedisLock ------------------------------
(***************************************************************************)
(* RedisDistributedLock of rag/utils/redis_conn.py: a key in Redis whose   *)
(* value is the holder's token (a fresh uuid4, so a client stands for its  *)
(* token here) and whose TTL frees it when the holder is gone.             *)
(*                                                                         *)
(* lock is the value of the key, lpc[c] is how far client c is in          *)
(*     acquire(); <section>; release()                                     *)
(* which is what the client believes, not what Redis holds: a TTL that     *)
(* runs out during the section makes the two differ.                       *)
(***************************************************************************)
EXTENDS Naturals

CONSTANTS Client,     \* the processes that use the lock
          NoOne,      \* the key does not exist
          TtlCovers   \* the TTL outlives every section run under the lock

ASSUME LockAssumption == NoOne \notin Client /\ TtlCovers \in BOOLEAN

VARIABLES lock, lpc

lockVars == <<lock, lpc>>

LockState == {"idle", "trying", "refused", "held"}

LockTypeOK == lock \in Client \cup {NoOne} /\ lpc \in [Client -> LockState]

LockInit == lock = NoOne /\ lpc = [c \in Client |-> "idle"]

(* Mutant: release() deletes the key without comparing the token. *)
BlindDelete(c) == lock' = NoOne

(* The Lua script: delete the key if the caller's token is its value. *)
DeleteIfEqual(c) == lock' = IF lock = c THEN NoOne ELSE lock

(* acquire() and spin_acquire() first drop a key the client left behind. *)
AcquireDelete(c) ==
    /\ lpc[c] = "idle"
    /\ DeleteIfEqual(c)
    /\ lpc' = [lpc EXCEPT ![c] = "trying"]

(* SET NX with the TTL, the step of redis-py's Lock that takes the lock. *)
TrySet(c) ==
    /\ lpc[c] = "trying" /\ lock = NoOne
    /\ lock' = c
    /\ lpc' = [lpc EXCEPT ![c] = "held"]

(* acquire() returns False: the blocking timeout passed. *)
GiveUp(c) ==
    /\ lpc[c] = "trying" /\ lock # NoOne
    /\ lpc' = [lpc EXCEPT ![c] = "refused"]
    /\ UNCHANGED lock

(* release() after the section. *)
Release(c) ==
    /\ lpc[c] = "held"
    /\ DeleteIfEqual(c)
    /\ lpc' = [lpc EXCEPT ![c] = "idle"]

(* update_progress() of the API server releases in its finally clause even *)
(* when it was refused the lock.                                           *)
ReleaseUnheld(c) ==
    /\ lpc[c] = "refused"
    /\ DeleteIfEqual(c)
    /\ lpc' = [lpc EXCEPT ![c] = "idle"]

(* Mutant: the key is set without a TTL. *)
NeverExpires == FALSE /\ UNCHANGED lockVars

(* The TTL runs out. *)
Expire ==
    /\ lock # NoOne
    /\ TtlCovers => lpc[lock] # "held"
    /\ lock' = NoOne
    /\ UNCHANGED lpc

(* The client's process dies and comes back: the key stays. *)
ClientCrash(c) ==
    /\ lpc[c] # "idle"
    /\ lpc' = [lpc EXCEPT ![c] = "idle"]
    /\ UNCHANGED lock

LockNext ==
    \/ \E c \in Client :
          \/ AcquireDelete(c) \/ TrySet(c) \/ GiveUp(c)
          \/ Release(c) \/ ReleaseUnheld(c) \/ ClientCrash(c)
    \/ Expire

(* A process in its section reaches the release in its finally clause, and *)
(* Redis expires keys; nobody is obliged to ask for the lock.              *)
LockSpec ==
    /\ LockInit /\ [][LockNext]_lockVars
    /\ \A c \in Client : WF_lockVars(Release(c))
    /\ WF_lockVars(Expire)

-----------------------------------------------------------------------------
(* A client in its section is the one whose token Redis holds, and the     *)
(* variables have their types: the strengthening that makes                *)
(* MutualExclusion inductive.                                              *)
HolderOwnsKey ==
    /\ LockTypeOK
    /\ TtlCovers => \A c \in Client : lpc[c] = "held" => lock = c

(* While the TTL outlives the sections, two clients are never inside one.  *)
MutualExclusion ==
    TtlCovers =>
        \A c, d \in Client : lpc[c] = "held" /\ lpc[d] = "held" => c = d

(* A client in its section can lose the key to the TTL only, a step in     *)
(* which no client moves: no release() or acquire() of another client, and *)
(* none of a client whose own TTL ran out, takes the key away from its     *)
(* present holder.  This is what comparing the token in the script buys.   *)
LostOnlyToTtl ==
    [][\A c \in Client :
          lock = c /\ lpc'[c] = "held" /\ lock' # c => UNCHANGED lpc]_lockVars

(* A lock is never held for ever: its holder releases it or its TTL frees  *)
(* it, also when the holder died inside the section.                       *)
LockRecovers == \A c \in Client : lock = c ~> lock # c

=============================================================================
