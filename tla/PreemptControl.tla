--------------------------- MODULE PreemptControl ---------------------------
(***************************************************************************)
(* preemptController of internal/harness/core/agent_loop_preempt.go.  A    *)
(* push that preempts asks for the cancellation of the turn it met when it *)
(* began; the channel it returns, its ack, is closed when the request has  *)
(* been dealt with.  Every operation here is one section under the         *)
(* controller's lock, and a push stands for its ack.                       *)
(***************************************************************************)
EXTENDS Naturals

CONSTANTS Item,     \* what is pushed; every item is pushed once
          Turn      \* bound: the turns, numbered from 1

VARIABLES
    turnPhase,  \* idle, planning, active
    turnID,     \* 0 before the first turn
    pushing,    \* pushInFlight: the pushes between beginPush and endPush
    snap,       \* the turn a push found, or NoTurn
    delayed,    \* the acks in the hands of the timer of their push
    pending,    \* the acks of the request that waits for the turn's watcher
    held,       \* the acks of the request the watcher of a turn has taken
    acked,      \* the closed acks
    notify,     \* the channel that wakes a watcher
    shut        \* closed: the loop is on its way out

preemptVars == <<turnPhase, turnID, pushing, snap, delayed, pending, held, acked, notify,
                 shut>>
requestVars == <<delayed, pending, held, acked, notify>>

NoTurn == 0

PreemptInit ==
    /\ turnPhase = "idle" /\ turnID = 0
    /\ pushing = {} /\ snap = [i \in Item |-> NoTurn]
    /\ delayed = {} /\ pending = {} /\ held = [t \in Turn |-> {}] /\ acked = {}
    /\ notify = FALSE /\ shut = FALSE

BeginPlanningTurn ==
    /\ turnPhase' = "planning" /\ turnID' = turnID + 1
    /\ UNCHANGED <<pushing, snap, requestVars, shut>>

(* Mutant: the request is forgotten with the turn. *)
EndTurnForgets ==
    /\ turnPhase' = "idle"
    /\ pending' = {}
    /\ UNCHANGED <<turnID, pushing, snap, delayed, held, acked, notify, shut>>

(* abortPlanningTurn and endActiveTurn: what was asked of the turn is moot. *)
EndTurn ==
    /\ turnPhase' = "idle"
    /\ acked' = acked \cup pending /\ pending' = {}
    /\ UNCHANGED <<turnID, pushing, snap, delayed, held, notify, shut>>

BeginActiveTurn ==
    /\ turnPhase' = "active"
    /\ notify' = (notify \/ pending # {})
    /\ UNCHANGED <<turnID, pushing, snap, delayed, pending, held, acked, shut>>

(* beginPush *)
EnterPush(i) ==
    /\ pushing' = pushing \cup {i}
    /\ snap' = [snap EXCEPT ![i] = IF turnPhase = "idle" THEN NoTurn ELSE turnID]
    /\ UNCHANGED <<turnPhase, turnID, requestVars, shut>>

(* Mutant: whatever turn is running is preempted. *)
NoTargetNow(i) == shut \/ snap[i] = NoTurn \/ turnPhase = "idle"

NoTarget(i) == shut \/ snap[i] = NoTurn \/ turnPhase = "idle" \/ snap[i] # turnID

(* requestPreempt: the ack of a request that comes too late is closed.     *)
RequestPreempt(i) ==
    /\ delayed' = delayed \ {i}
    /\ IF NoTarget(i)
       THEN acked' = acked \cup {i} /\ UNCHANGED <<pending, notify>>
       ELSE /\ pending' = pending \cup {i}
            /\ notify' = (notify \/ turnPhase = "active")
            /\ UNCHANGED acked
    /\ UNCHANGED <<turnPhase, turnID, snap, held, shut>>

(* receivePreempt, called by the watcher of turn t. *)
CanReceive == turnPhase = "active" /\ pending # {}

ReceivePreempt(t) ==
    /\ CanReceive
    /\ held' = [held EXCEPT ![t] = pending] /\ pending' = {}
    /\ UNCHANGED <<turnPhase, turnID, pushing, snap, delayed, acked, notify, shut>>

(* Mutant: the watcher does not acknowledge a cancellation that came to     *)
(* nothing.                                                                *)
DropHeld(t) ==
    /\ held' = [held EXCEPT ![t] = {}]
    /\ UNCHANGED <<turnPhase, turnID, pushing, snap, delayed, pending, acked, notify, shut>>

AckHeld(t) ==
    /\ acked' = acked \cup held[t] /\ held' = [held EXCEPT ![t] = {}]
    /\ UNCHANGED <<turnPhase, turnID, pushing, snap, delayed, pending, notify, shut>>

(* closeForLoopExit *)
Shut ==
    /\ shut' = TRUE /\ turnPhase' = "idle" /\ notify' = FALSE
    /\ acked' = acked \cup pending /\ pending' = {}
    /\ UNCHANGED <<turnID, pushing, snap, delayed, held>>

-----------------------------------------------------------------------------
PreemptTypeOK ==
    /\ turnPhase \in {"idle", "planning", "active"} /\ turnID \in Nat
    /\ pushing \subseteq Item /\ snap \in [Item -> Nat]
    /\ delayed \subseteq Item /\ pending \subseteq Item /\ acked \subseteq Item
    /\ held \in [Turn -> SUBSET Item]
    /\ notify \in BOOLEAN /\ shut \in BOOLEAN

(* A request that waits is one to the turn in progress.                    *)
PendingIsCurrent ==
    pending # {} => turnPhase # "idle" /\ \A i \in pending : snap[i] = turnID
=============================================================================
