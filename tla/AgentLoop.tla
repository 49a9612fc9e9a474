----------------------------- MODULE AgentLoop -----------------------------
(***************************************************************************)
(* AgentLoop of internal/harness/core/agent_loop*.go: pushed items wait in *)
(* a buffer, and one goroutine takes them in turns, in each of which an    *)
(* agent works on some of them.  Pushes, stops, the idle timer, the two    *)
(* watchers of a turn and the context come in between.  Without a store:   *)
(* checkpoints and resumed turns are left out.                             *)
(*                                                                         *)
(* The events of an agent, their pump and OnAgentEvents are one actor,     *)
(* whose end closes the channel done of the turn.                          *)
(***************************************************************************)
EXTENDS PreemptControl, Sequences, FiniteSets

CONSTANTS PushKinds,    \* of plain, preempt, delay (a preemption after a delay), strategy
          StopKinds,    \* of idle, bare and cancel; each is asked for once
          CtxCancels    \* the context may be cancelled

ASSUME LoopAssumption ==
    /\ Turn \subseteq Nat /\ IsFiniteSet(Item)
    /\ PushKinds \subseteq {"plain", "preempt", "delay", "strategy"}
    /\ StopKinds \subseteq {"idle", "bare", "cancel"}
    /\ CtxCancels \in BOOLEAN

VARIABLES
    buf, closed, woken,         \* turnBuffer
    ppc,                        \* how far a push is
    sent,                       \* history: the accepted items, in their order
    sealed,                     \* TakeLateItems was called
    stopPhase, stopPending, stopNotify,     \* stopController
    asked,                      \* the stops that were asked for
    waking, finishing,          \* what a stop has still to do
    stopped,                    \* the loop's flag
    armed, fired,               \* idle timers: waiting; on their way to commit
    ctxDone,                    \* the context is cancelled
    lpc,                        \* how far the loop is
    hand,                       \* the items the loop has taken
    turns,                      \* history: the items consumed by turns
    unhandled, reason,          \* of the result
    agent, cancelled,           \* the agent of the turn; its cancellation
    pdone, sdone,               \* preemptDone and stoppedDone of the turn
    pw, sw                      \* watchPreempt and watchStop of every turn

bufVars == <<buf, closed, woken>>
pushVars == <<ppc, sent, sealed>>
stopVars == <<stopPhase, stopPending, stopNotify, asked, waking, finishing, stopped,
              armed, fired, ctxDone>>
loopVars == <<lpc, hand, turns, unhandled, reason>>
agentVars == <<agent, cancelled, pdone, sdone>>
watchVars == <<pw, sw>>
vars == <<preemptVars, bufVars, pushVars, stopVars, loopVars, agentVars, watchVars>>

Init ==
    /\ PreemptInit
    /\ buf = <<>> /\ closed = FALSE /\ woken = FALSE
    /\ ppc = [i \in Item |-> "new"]
    /\ sent = <<>> /\ sealed = FALSE
    /\ stopPhase = "open" /\ stopPending = FALSE /\ stopNotify = FALSE
    /\ asked = {} /\ waking = FALSE /\ finishing = "no" /\ stopped = FALSE
    /\ armed = FALSE /\ fired = FALSE /\ ctxDone = FALSE
    /\ lpc = "new" /\ hand = <<>> /\ turns = <<>> /\ unhandled = <<>> /\ reason = "none"
    /\ agent = "none" /\ cancelled = FALSE /\ pdone = FALSE /\ sdone = FALSE
    /\ pw = [t \in Turn |-> "off"] /\ sw = [t \in Turn |-> "off"]

-----------------------------------------------------------------------------
(* Push. *)

GotoPush(i, l) == ppc' = [ppc EXCEPT ![i] = l]
OutsidePush == UNCHANGED <<sealed, bufVars, stopVars, loopVars, agentVars, watchVars>>

(* A push with a strategy begins at once; any other looks at stopped first. *)
Push(i, k) ==
    /\ ppc[i] = "new"
    /\ IF k = "strategy"
       THEN EnterPush(i) /\ GotoPush(i, "decide")
       ELSE /\ GotoPush(i, IF stopped THEN "late" ELSE IF k = "plain" THEN "send" ELSE "begin")
            /\ UNCHANGED preemptVars
    /\ UNCHANGED sent /\ OutsidePush

BeginPush(i) ==
    /\ ppc[i] = "begin"
    /\ EnterPush(i) /\ GotoPush(i, "sendPreempt")
    /\ UNCHANGED sent /\ OutsidePush

(* The strategy returns the options; a plain push goes on without a look   *)
(* at stopped.                                                             *)
Decide(i, k) ==
    /\ ppc[i] = "decide" /\ k # "strategy"
    /\ GotoPush(i, IF k = "plain" THEN "send" ELSE IF stopped THEN "late" ELSE "sendPreempt")
    /\ UNCHANGED <<sent, preemptVars>> /\ OutsidePush

EndPush(i) ==
    /\ pushing' = pushing \ {i}
    /\ UNCHANGED <<turnPhase, turnID, snap, requestVars, shut>>

(* TrySend, which a closed buffer refuses.                                 *)
Send(i) ==
    /\ ppc[i] \in {"send", "sendPreempt"}
    /\ IF closed
       THEN GotoPush(i, "late") /\ UNCHANGED <<buf, sent, preemptVars>>
       ELSE /\ buf' = Append(buf, i) /\ sent' = Append(sent, i)
            /\ IF ppc[i] = "sendPreempt"
               THEN GotoPush(i, "request") /\ UNCHANGED preemptVars
               ELSE GotoPush(i, "accepted") /\ EndPush(i)
    /\ UNCHANGED <<closed, woken, sealed, stopVars, loopVars, agentVars, watchVars>>

(* The ack of a push that preempts: closed if the loop was not started,    *)
(* left to the timer of a delay, or part of a request; then endPush.       *)
Request(i, k) ==
    /\ ppc[i] = "request" /\ k \in {"preempt", "delay"}
    /\ pushing' = pushing \ {i}
    /\ CASE lpc = "new" -> /\ acked' = acked \cup {i}
                           /\ UNCHANGED <<turnPhase, turnID, snap, delayed, pending, held,
                                          notify, shut>>
         [] lpc # "new" /\ k = "delay" ->
                           /\ delayed' = delayed \cup {i}
                           /\ UNCHANGED <<turnPhase, turnID, snap, pending, held, acked,
                                          notify, shut>>
         [] OTHER -> RequestPreempt(i)
    /\ GotoPush(i, "given")
    /\ UNCHANGED sent /\ OutsidePush

(* appendLate, which panics once the late items were taken; then endPush.  *)
AppendLate(i) ==
    /\ ppc[i] = "late"
    /\ GotoPush(i, IF sealed THEN "panicked" ELSE "rejected")
    /\ EndPush(i)
    /\ UNCHANGED sent /\ OutsidePush

(* The goroutine of a delayed preemption, after the delay ...              *)
DelayOver(i) ==
    /\ i \in delayed
    /\ RequestPreempt(i) /\ UNCHANGED pushing
    /\ UNCHANGED <<ppc, sent>> /\ OutsidePush

(* ... or when the loop is done.                                           *)
DelayMoot(i) ==
    /\ i \in delayed /\ lpc = "done"
    /\ delayed' = delayed \ {i} /\ acked' = acked \cup {i}
    /\ UNCHANGED <<turnPhase, turnID, pushing, snap, pending, held, notify, shut>>
    /\ UNCHANGED <<ppc, sent>> /\ OutsidePush

(* TakeLateItems of the result. *)
TakeLateItems ==
    /\ lpc = "done" /\ ~sealed
    /\ sealed' = TRUE
    /\ UNCHANGED <<ppc, sent, preemptVars>>
    /\ UNCHANGED <<bufVars, stopVars, loopVars, agentVars, watchVars>>

-----------------------------------------------------------------------------
(* Stop, timers and the context. *)

OutsideStop == UNCHANGED <<preemptVars, pushVars, loopVars, agentVars, watchVars>>

(* commit(): the first of the stops and timers that commit finishes it.    *)
Commit ==
    /\ stopPhase' = "committed"
    /\ finishing' = IF stopPhase = "committed" THEN finishing ELSE "store"

(* Stop(UntilIdleFor) and its wakeup. *)
StopIdle ==
    /\ "idle" \in StopKinds \ asked /\ lpc # "done"
    /\ asked' = asked \cup {"idle"}
    /\ stopPhase' = IF stopPhase = "open" THEN "idle" ELSE stopPhase
    /\ waking' = (stopPhase' = "idle")
    /\ UNCHANGED <<stopPending, stopNotify, finishing, stopped, armed, fired, ctxDone, bufVars>>
    /\ OutsideStop

(* Mutant: the loop is not woken. *)
NoWakeup ==
    /\ waking /\ waking' = FALSE
    /\ UNCHANGED <<stopPhase, stopPending, stopNotify, asked, finishing, stopped, armed, fired,
                   ctxDone, bufVars>>
    /\ OutsideStop

Wakeup ==
    /\ waking /\ waking' = FALSE
    /\ woken' = TRUE
    /\ UNCHANGED <<stopPhase, stopPending, stopNotify, asked, finishing, stopped, armed, fired,
                   ctxDone, buf, closed>>
    /\ OutsideStop

(* Any other Stop commits; one with options to cancel the agent leaves a   *)
(* request for the watcher of the turn, which is notified if there is one. *)
Stop(k) ==
    /\ k \in (StopKinds \ {"idle"}) \ asked /\ lpc # "done"
    /\ asked' = asked \cup {k}
    /\ Commit
    /\ stopPending' = (stopPending \/ k = "cancel")
    /\ stopNotify' = (stopNotify \/ (k = "cancel" /\ lpc = "active"))
    /\ UNCHANGED <<waking, stopped, armed, fired, ctxDone, bufVars>> /\ OutsideStop

(* finishStopCommit: the flag, then the buffer. *)
StoreStopped ==
    /\ finishing = "store" /\ finishing' = "close"
    /\ stopped' = TRUE
    /\ UNCHANGED <<stopPhase, stopPending, stopNotify, asked, waking, armed, fired, ctxDone,
                   bufVars>>
    /\ OutsideStop

CloseBuffer ==
    /\ finishing = "close" /\ finishing' = "no"
    /\ closed' = TRUE
    /\ UNCHANGED <<stopPhase, stopPending, stopNotify, asked, waking, stopped, armed, fired,
                   ctxDone, buf, woken>>
    /\ OutsideStop

TimerFires ==
    /\ armed /\ armed' = FALSE
    /\ fired' = TRUE
    /\ UNCHANGED <<stopPhase, stopPending, stopNotify, asked, waking, finishing, stopped,
                   ctxDone, bufVars>>
    /\ OutsideStop

(* commitStop of an idle timer. *)
TimerCommits ==
    /\ fired /\ fired' = FALSE
    /\ IF lpc = "done" THEN UNCHANGED <<stopPhase, finishing>> ELSE Commit
    /\ UNCHANGED <<stopPending, stopNotify, asked, waking, stopped, armed, ctxDone, bufVars>>
    /\ OutsideStop

(* The timeout a Stop(UntilIdleFor) may have. *)
StopTimesOut ==
    /\ "idle" \in asked /\ stopPhase # "committed" /\ lpc # "done"
    /\ Commit
    /\ UNCHANGED <<stopPending, stopNotify, asked, waking, stopped, armed, fired, ctxDone,
                   bufVars>>
    /\ OutsideStop

CancelCtx ==
    /\ CtxCancels /\ ~ctxDone /\ ctxDone' = TRUE
    /\ UNCHANGED <<stopPhase, stopPending, stopNotify, asked, waking, finishing, stopped, armed,
                   fired, bufVars>>
    /\ OutsideStop

(* The goroutine that waits for the context or for the end of the loop.    *)
CtxClosesBuffer ==
    /\ ctxDone /\ ~closed /\ lpc \notin {"new", "done"}
    /\ closed' = TRUE
    /\ UNCHANGED <<stopVars, buf, woken>> /\ OutsideStop

-----------------------------------------------------------------------------
(* The loop. *)

OutsideLoop == UNCHANGED <<pushVars, agentVars, watchVars>>
GotoLoop(l) == lpc' = l /\ UNCHANGED reason
Exit(why) == lpc' = "exit" /\ reason' = why

Run ==
    /\ lpc = "new" /\ GotoLoop("top")
    /\ UNCHANGED <<preemptVars, bufVars, stopVars, hand, turns, unhandled>> /\ OutsideLoop

Top ==
    /\ lpc = "top"
    /\ GotoLoop(IF stopPhase = "committed" THEN "exit" ELSE "choose")
    /\ UNCHANGED <<preemptVars, bufVars, stopVars, hand, turns, unhandled>> /\ OutsideLoop

(* idleDuration() *)
Choose ==
    /\ lpc = "choose"
    /\ GotoLoop(IF stopPhase = "idle" THEN "arm" ELSE "receive")
    /\ UNCHANGED <<preemptVars, bufVars, stopVars, hand, turns, unhandled>> /\ OutsideLoop

(* ClearWakeup, and the idle timer with its goroutine. *)
ArmTimer ==
    /\ lpc = "arm" /\ GotoLoop("idleReceive")
    /\ woken' = FALSE /\ armed' = TRUE
    /\ UNCHANGED <<preemptVars, buf, closed, hand, turns, unhandled, stopPhase, stopPending,
                   stopNotify, asked, waking, finishing, stopped, fired, ctxDone>>
    /\ OutsideLoop

(* turnBuffer.Receive, with or without an idle timer. *)
Receive ==
    /\ lpc \in {"receive", "idleReceive"}
    /\ buf # <<>> \/ closed \/ woken
    /\ woken' = FALSE
    /\ IF buf = <<>> THEN hand' = <<>> /\ UNCHANGED buf
                     ELSE hand' = <<Head(buf)>> /\ buf' = Tail(buf)
    /\ GotoLoop(CASE lpc = "idleReceive" -> "disarm"
                  [] lpc = "receive" /\ buf # <<>> -> "got"
                  [] OTHER -> "woke")
    /\ UNCHANGED <<preemptVars, closed, stopVars, turns, unhandled>> /\ OutsideLoop

(* The timer is stopped.  A wakeup makes the loop start again; a stop that *)
(* came meanwhile ends it, with what it has received.                      *)
Disarm ==
    /\ lpc = "disarm"
    /\ armed' = FALSE
    /\ IF hand = <<>> /\ ~closed
       THEN (IF ctxDone THEN Exit("ctx") ELSE GotoLoop("top")) /\ UNCHANGED hand
       ELSE IF stopped THEN GotoLoop("exit") /\ hand' = <<>>
       ELSE IF hand # <<>> THEN GotoLoop("got") /\ UNCHANGED hand
       ELSE Exit(IF ctxDone THEN "ctx" ELSE "none") /\ UNCHANGED hand
    /\ UNCHANGED <<preemptVars, bufVars, turns, unhandled, stopPhase, stopPending, stopNotify,
                   asked, waking, finishing, stopped, fired, ctxDone>>
    /\ OutsideLoop

(* Mutant: whatever woke the loop ends it. *)
WokeIsEnd ==
    /\ lpc = "woke"
    /\ Exit(IF ctxDone THEN "ctx" ELSE "none")
    /\ UNCHANGED <<preemptVars, bufVars, stopVars, hand, turns, unhandled>> /\ OutsideLoop

(* Nothing was received: an idle stop woke the loop, or it ends.           *)
Woke ==
    /\ lpc = "woke"
    /\ IF stopPhase = "idle" THEN GotoLoop("top")
                             ELSE Exit(IF ctxDone THEN "ctx" ELSE "none")
    /\ UNCHANGED <<preemptVars, bufVars, stopVars, hand, turns, unhandled>> /\ OutsideLoop

(* Mutant: behind what was pushed since. *)
PutBehind == buf' = buf \o hand /\ hand' = <<>>

PutBack == buf' = hand \o buf /\ hand' = <<>>

(* The context, then the stop are looked at with the first item in hand.   *)
GotFirst ==
    /\ lpc = "got"
    /\ IF ctxDone THEN Exit("ctx") /\ PutBack
                  ELSE GotoLoop("checked") /\ UNCHANGED <<buf, hand>>
    /\ UNCHANGED <<preemptVars, closed, woken, stopVars, turns, unhandled>> /\ OutsideLoop

CheckStop ==
    /\ lpc = "checked"
    /\ IF stopPhase = "committed" THEN GotoLoop("exit") /\ PutBack
                                  ELSE GotoLoop("wait") /\ UNCHANGED <<buf, hand>>
    /\ UNCHANGED <<preemptVars, closed, woken, stopVars, turns, unhandled>> /\ OutsideLoop

(* waitForPushes *)
PushesEnded ==
    /\ lpc = "wait" /\ pushing = {} /\ GotoLoop("take")
    /\ UNCHANGED <<preemptVars, bufVars, stopVars, hand, turns, unhandled>> /\ OutsideLoop

(* TakeAll and beginPlanningTurn.  Turn bounds the turns; one for every    *)
(* item is enough, since a turn consumes one at least.                     *)
TakeAll ==
    /\ lpc = "take" /\ turnID + 1 \in Turn
    /\ hand' = hand \o buf /\ buf' = <<>>
    /\ BeginPlanningTurn
    /\ GotoLoop("planning")
    /\ UNCHANGED <<closed, woken, stopVars, turns, unhandled>> /\ OutsideLoop

(* GenInput or PrepareAgent fails, or a stop was committed meanwhile.      *)
AbortTurn ==
    /\ lpc = "planning"
    /\ Exit("plan") \/ (stopPhase = "committed" /\ GotoLoop("exit"))
    /\ EndTurn /\ PutBack
    /\ UNCHANGED <<closed, woken, stopVars, turns, unhandled>> /\ OutsideLoop

(* The turn consumes the first n items, the rest goes back. *)
Planned(n) ==
    /\ lpc = "planning" /\ stopPhase # "committed"
    /\ turns' = turns \o SubSeq(hand, 1, n)
    /\ buf' = SubSeq(hand, n + 1, Len(hand)) \o buf /\ hand' = <<>>
    /\ GotoLoop("begin")
    /\ UNCHANGED <<preemptVars, closed, woken, stopVars, unhandled>> /\ OutsideLoop

BeginTurn ==
    /\ lpc = "begin" /\ GotoLoop("start")
    /\ BeginActiveTurn
    /\ UNCHANGED <<bufVars, stopVars, hand, turns, unhandled>> /\ OutsideLoop

(* beginActiveTurn of the stop controller; agent and watchers start.       *)
StartAgent ==
    /\ lpc = "start" /\ GotoLoop("active")
    /\ stopNotify' = (stopNotify \/ stopPending)
    /\ agent' = "running" /\ cancelled' = FALSE /\ pdone' = FALSE /\ sdone' = FALSE
    /\ pw' = [pw EXCEPT ![turnID] = "wait"] /\ sw' = [sw EXCEPT ![turnID] = "look"]
    /\ UNCHANGED <<preemptVars, bufVars, pushVars, hand, turns, unhandled, stopPhase,
                   stopPending, asked, waking, finishing, stopped, armed, fired, ctxDone>>

(* The agent is over.  Its error ends the loop, unless preemptDone is seen *)
(* first; the select of Go takes any that is ready.  An interrupt ends it. *)
TurnOver ==
    /\ lpc = "active" /\ agent # "running"
    /\ \/ /\ pdone
          /\ IF agent = "interrupt" THEN Exit("interrupt") ELSE GotoLoop("top")
       \/ /\ ~pdone \/ sdone
          /\ IF agent = "ok" THEN GotoLoop("top") ELSE Exit(agent)
    /\ EndTurn
    /\ stopPending' = FALSE
    /\ agent' = "none" /\ cancelled' = FALSE /\ pdone' = FALSE /\ sdone' = FALSE
    /\ UNCHANGED <<bufVars, pushVars, watchVars, hand, turns, unhandled, stopPhase, stopNotify,
                   asked, waking, finishing, stopped, armed, fired, ctxDone>>

(* cleanup(): the flag, ... *)
Cleanup ==
    /\ lpc = "exit" /\ GotoLoop("sweep")
    /\ stopped' = TRUE
    /\ UNCHANGED <<preemptVars, bufVars, hand, turns, unhandled, stopPhase, stopPending,
                   stopNotify, asked, waking, finishing, armed, fired, ctxDone>>
    /\ OutsideLoop

(* ... the unhandled items, ... *)
Sweep ==
    /\ lpc = "sweep" /\ GotoLoop("shut")
    /\ unhandled' = buf /\ buf' = <<>>
    /\ UNCHANGED <<preemptVars, closed, woken, stopVars, hand, turns>> /\ OutsideLoop

(* ... the two controllers, the buffer and done.                           *)
CloseDown ==
    /\ lpc = "shut" /\ GotoLoop("done")
    /\ Shut
    /\ closed' = TRUE
    /\ stopPending' = FALSE /\ stopNotify' = FALSE
    /\ UNCHANGED <<buf, woken, hand, turns, unhandled, stopPhase, asked, waking, finishing,
                   stopped, armed, fired, ctxDone>>
    /\ OutsideLoop

-----------------------------------------------------------------------------
(* The agent and the watchers of turn t. *)

(* The agent ends, and the channel done of its turn is closed.             *)
AgentEnds(o) ==
    /\ agent = "running" /\ (o = "cancel" => cancelled)
    /\ agent' = o
    /\ UNCHANGED <<cancelled, pdone, sdone>>
    /\ UNCHANGED <<preemptVars, pushVars, bufVars, stopVars, loopVars, watchVars>>

Current(t) == t = turnID /\ agent # "none"
Done(t) == ~(t = turnID /\ agent = "running")

(* agentCancelFunc, called by a watcher of turn t, and whether the call    *)
(* contributed: not if the agent has failed or handled a cancellation, and *)
(* it may have before done is closed.  An agent that ended by itself       *)
(* accepts a cancellation that comes too late.  Nobody asks about a turn   *)
(* that is over.                                                           *)
CancelAgent(t, contributed) ==
    /\ contributed => Current(t) /\ agent # "cancel"
    /\ cancelled' = (cancelled \/ contributed)

OutsideWatch == UNCHANGED <<pushVars, bufVars, loopVars>>

(* watchPreempt.  A watcher of a turn that is over may still be waiting.   *)
PreemptWatchEnds(t) ==
    /\ pw[t] = "wait" /\ Done(t)
    /\ pw' = [pw EXCEPT ![t] = "off"]
    /\ UNCHANGED <<sw, agentVars, stopVars, preemptVars>> /\ OutsideWatch

PreemptNotified(t) ==
    /\ pw[t] = "wait" /\ notify /\ notify' = FALSE
    /\ pw' = [pw EXCEPT ![t] = "look"]
    /\ UNCHANGED <<turnPhase, turnID, pushing, snap, delayed, pending, held, acked, shut>>
    /\ UNCHANGED <<sw, agentVars, stopVars>> /\ OutsideWatch

TakePreempt(t) ==
    /\ pw[t] = "look"
    /\ IF CanReceive
       THEN ReceivePreempt(t) /\ pw' = [pw EXCEPT ![t] = "cancel"]
       ELSE UNCHANGED preemptVars /\ pw' = [pw EXCEPT ![t] = "wait"]
    /\ UNCHANGED <<sw, agentVars, stopVars>> /\ OutsideWatch

PreemptAgent(t) ==
    /\ pw[t] = "cancel"
    /\ \E c \in BOOLEAN : /\ CancelAgent(t, c)
                          /\ pw' = [pw EXCEPT ![t] = IF c THEN "close" ELSE "ack"]
    /\ UNCHANGED <<sw, agent, pdone, sdone, stopVars, preemptVars>> /\ OutsideWatch

ClosePreemptDone(t) ==
    /\ pw[t] = "close"
    /\ pdone' = (pdone \/ Current(t))
    /\ pw' = [pw EXCEPT ![t] = "ack"]
    /\ UNCHANGED <<sw, agent, cancelled, sdone, stopVars, preemptVars>> /\ OutsideWatch

Ack(t) ==
    /\ pw[t] = "ack"
    /\ AckHeld(t)
    /\ pw' = [pw EXCEPT ![t] = "wait"]
    /\ UNCHANGED <<sw, agentVars, stopVars>> /\ OutsideWatch

(* watchStop, which looks for a request before it waits for the first time. *)
StopWatchEnds(t) ==
    /\ sw[t] = "wait" /\ Done(t)
    /\ sw' = [sw EXCEPT ![t] = "off"]
    /\ UNCHANGED <<pw, agentVars, stopVars, preemptVars>> /\ OutsideWatch

StopNotified(t) ==
    /\ sw[t] = "wait" /\ stopNotify /\ stopNotify' = FALSE
    /\ sw' = [sw EXCEPT ![t] = "look"]
    /\ UNCHANGED <<stopPhase, stopPending, asked, waking, finishing, stopped, armed, fired,
                   ctxDone>>
    /\ UNCHANGED <<pw, agentVars, preemptVars>> /\ OutsideWatch

TakeStop(t) ==
    /\ sw[t] = "look"
    /\ IF lpc = "active" /\ stopPending
       THEN stopPending' = FALSE /\ sw' = [sw EXCEPT ![t] = "cancel"]
       ELSE UNCHANGED stopPending /\ sw' = [sw EXCEPT ![t] = "wait"]
    /\ UNCHANGED <<stopPhase, stopNotify, asked, waking, finishing, stopped, armed, fired,
                   ctxDone>>
    /\ UNCHANGED <<pw, agentVars, preemptVars>> /\ OutsideWatch

StopAgent(t) ==
    /\ sw[t] = "cancel"
    /\ \E c \in BOOLEAN : /\ CancelAgent(t, c)
                          /\ sw' = [sw EXCEPT ![t] = IF c THEN "close" ELSE "wait"]
    /\ UNCHANGED <<pw, agent, pdone, sdone, stopVars, preemptVars>> /\ OutsideWatch

CloseStoppedDone(t) ==
    /\ sw[t] = "close"
    /\ sdone' = (sdone \/ Current(t))
    /\ sw' = [sw EXCEPT ![t] = "wait"]
    /\ UNCHANGED <<pw, agent, cancelled, pdone, stopVars, preemptVars>> /\ OutsideWatch

-----------------------------------------------------------------------------
PushStep(i) ==
    \/ \E k \in PushKinds : Decide(i, k) \/ Request(i, k)
    \/ BeginPush(i) \/ Send(i) \/ AppendLate(i)

DelayStep(i) == DelayOver(i) \/ DelayMoot(i)

FinishStop == Wakeup \/ StoreStopped \/ CloseBuffer \/ TimerFires \/ TimerCommits

StopStep ==
    \/ StopIdle \/ \E k \in StopKinds : Stop(k)
    \/ StopTimesOut \/ CancelCtx

LoopStep ==
    \/ Top \/ Choose \/ ArmTimer \/ Receive \/ Disarm \/ Woke \/ GotFirst \/ CheckStop
    \/ PushesEnded \/ TakeAll \/ AbortTurn \/ \E n \in 1..Len(hand) : Planned(n)
    \/ BeginTurn \/ StartAgent \/ TurnOver \/ Cleanup \/ Sweep \/ CloseDown

AgentStep == \E o \in {"ok", "error", "interrupt", "cancel"} : AgentEnds(o)

PreemptWatchStep(t) ==
    \/ PreemptWatchEnds(t) \/ PreemptNotified(t) \/ TakePreempt(t) \/ PreemptAgent(t)
    \/ ClosePreemptDone(t) \/ Ack(t)

StopWatchStep(t) ==
    \/ StopWatchEnds(t) \/ StopNotified(t) \/ TakeStop(t) \/ StopAgent(t)
    \/ CloseStoppedDone(t)

Next ==
    \/ \E i \in Item : (\E k \in PushKinds : Push(i, k)) \/ PushStep(i) \/ DelayStep(i)
    \/ StopStep \/ FinishStop \/ CtxClosesBuffer \/ TakeLateItems
    \/ Run \/ LoopStep \/ AgentStep
    \/ \E t \in Turn : PreemptWatchStep(t) \/ StopWatchStep(t)

Spec == Init /\ [][Next]_vars

(* Goroutines run, timers fire, agents, strategies and the callbacks that  *)
(* plan a turn return.  Nobody has to push, to stop or to start the loop.  *)
LiveSpec ==
    /\ Spec
    /\ \A i \in Item : WF_vars(PushStep(i)) /\ WF_vars(DelayStep(i))
    /\ WF_vars(Wakeup) /\ WF_vars(StoreStopped \/ CloseBuffer)
    /\ WF_vars(TimerFires \/ TimerCommits) /\ WF_vars(CtxClosesBuffer)
    /\ WF_vars(LoopStep) /\ WF_vars(AgentStep)
    /\ \A t \in Turn : WF_vars(PreemptWatchStep(t)) /\ WF_vars(StopWatchStep(t))

-----------------------------------------------------------------------------
LoopTypeOK ==
    /\ PreemptTypeOK
    /\ ppc \in [Item -> {"new", "begin", "decide", "send", "sendPreempt", "request", "late",
                         "accepted", "given", "rejected", "panicked"}]
    /\ pw \in [Turn -> {"off", "wait", "look", "cancel", "close", "ack"}]
    /\ sw \in [Turn -> {"off", "wait", "look", "cancel", "close"}]
    /\ lpc \in {"new", "top", "choose", "arm", "receive", "idleReceive", "disarm", "woke", "got",
                "checked", "wait", "take", "planning", "begin", "start", "active", "exit",
                "sweep", "shut", "done"}
    /\ stopPhase \in {"open", "idle", "committed"} /\ asked \subseteq StopKinds
    /\ agent \in {"none", "running", "ok", "error", "interrupt", "cancel"}

(* Every ack a push was given is in one place: its timer, the request that *)
(* waits, the request a watcher works on, or it is closed.  A second close *)
(* would panic, an ack in no place would never be closed.                  *)
AcksInOnePlace ==
    /\ {i \in Item : ppc[i] = "given"} =
           delayed \cup pending \cup acked \cup UNION {held[t] : t \in Turn}
    /\ delayed \cap pending = {} /\ delayed \cap acked = {} /\ pending \cap acked = {}
    /\ \A t \in Turn : held[t] \cap (delayed \cup pending \cup acked) = {}
    /\ \A t, u \in Turn : t # u => held[t] \cap held[u] = {}

(* A preemption concerns the turn that its push met: a request that waits  *)
(* is one to the turn in progress, and no agent is cancelled by a push     *)
(* that was made before its turn.                                          *)
PreemptIsTargeted ==
    /\ PendingIsCurrent
    /\ \A t \in Turn : \A i \in held[t] : snap[i] >= t

(* The inductive invariant for these two: the phase of the preempt          *)
(* controller is that of the loop, a watcher exists from the start of its  *)
(* turn on, and holds a request only between taking and acknowledging it.  *)
PhaseOfLoop ==
    turnPhase = IF lpc \in {"planning", "begin"} THEN "planning"
                ELSE IF lpc \in {"start", "active"} THEN "active" ELSE "idle"

WatcherOfTurn ==
    \A t \in Turn :
        /\ t > turnID \/ (t = turnID /\ lpc \in {"planning", "begin", "start"})
              => pw[t] = "off"
        /\ held[t] # {} => pw[t] \in {"cancel", "close", "ack"}

LoopInv ==
    /\ LoopTypeOK /\ PhaseOfLoop /\ WatcherOfTurn
    /\ \A i \in Item : snap[i] <= turnID
    /\ AcksInOnePlace /\ PreemptIsTargeted

(* Until an idle stop comes in, what was accepted is consumed, returned or *)
(* still to come, in the order in which it was accepted.                   *)
KeptInOrder ==
    (stopped /\ "idle" \in asked) \/ sent = turns \o unhandled \o hand \o buf

(* A loop that ends without an error was stopped.                          *)
EndHasCause ==
    lpc \in {"exit", "sweep", "shut", "done"} /\ reason = "none" => stopPhase = "committed"

(* Every ack is closed.                                                    *)
AcksClose == \A i \in Item : ppc[i] = "given" ~> i \in acked

(* A loop that was started and stopped, or whose context is cancelled, ends. *)
LoopEnds == lpc # "new" /\ (stopPhase # "open" \/ ctxDone) ~> lpc = "done"

(* "verifies stop after receive recovers items": an item the loop has      *)
(* taken from the buffer goes to a turn or is given back.                  *)
NothingTakenIsLost ==
    \A n \in 1..Len(sent) :
        \E m \in 1..Len(turns \o unhandled \o hand \o buf) :
            (turns \o unhandled \o hand \o buf)[m] = sent[n]

(* What was accepted is in the result when the loop is done.               *)
NothingLeft == lpc = "done" => buf = <<>>

(* Only a stop ends the loop by a cancelled agent: a preemption goes on    *)
(* with the next turn.                                                     *)
PreemptKeepsLoop == reason = "cancel" => "cancel" \in asked

(* "runs for the lifetime of a single active turn": what a watcher takes   *)
(* was asked of its own turn.                                              *)
WatcherOfItsTurn ==
    [][\A t \in Turn \ {turnID} : /\ pw'[t] = "cancel" => pw[t] = "cancel"
                                  /\ sw'[t] = "cancel" => sw[t] = "cancel"]_vars
=============================================================================
