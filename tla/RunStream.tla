------------------------------ MODULE RunStream -----------------------------
(***************************************************************************)
(* The events of one run of an agent canvas in the Go API server: the      *)
(* goroutine of Runner.Run, the worker safeInvoke starts for the RunFunc,  *)
(* the bounded channel both send on, and the handler that streams it to    *)
(* the client.  CanvasRuns has several runs and what they share.           *)
(***************************************************************************)
EXTENDS Naturals, Sequences

CONSTANT Capacity    \* of the channel: 8 in the code

ASSUME CapacityAssumption == Capacity \in Nat \ {0}

VARIABLES
    rpc,        \* the runner's goroutine; the channel is closed when it has ended
    rsend,      \* events it has still to send
    cancel,     \* its cancel channel is closed
    resumes,    \* the run resumes an interrupt
    wpc,        \* the worker
    wsend,      \* it is sending an event
    result,     \* what the RunFunc returns
    queued,     \* number of events in the channel
    handler,    \* "reads" the channel; its client is "gone"; it returned at the end
                \* of the channel ("back") or on a write error ("left")
    done        \* history: the last event that went into the channel is "done"

channel == <<queued, done>>
runner == <<rpc, rsend, cancel, resumes>>
worker == <<wpc, wsend, result>>
vars == <<channel, runner, worker, handler>>

Init ==
    /\ rpc = "resume" /\ rsend = <<>> /\ cancel = FALSE
    /\ resumes \in BOOLEAN
    /\ wpc = "none" /\ wsend = FALSE /\ result = "none"
    /\ queued = 0 /\ done = FALSE
    /\ handler = "reads"

(* The context is the one of the HTTP request: net/http ends it when the   *)
(* client has disconnected or the handler has returned.                    *)
CtxDone == handler # "reads"

Closed == rpc = "ended"

(* push and PushEvent: a send blocks while the channel is full, and panics *)
(* on a closed one, which is recovered.                                    *)
Send(e) ==
    \/ /\ Closed
       /\ UNCHANGED channel
    \/ /\ ~Closed /\ queued < Capacity
       /\ queued' = queued + 1
       /\ done' = (e = "done")

----------------------------------------------------------------------------
(* Runner.Run. *)

Invoke ==
    /\ rpc = "resume"
    /\ rpc' = "wait"
    /\ wpc' = "begin"
    /\ UNCHANGED <<channel, rsend, cancel, resumes, wsend, result, handler>>

(* A later run of the canvas closes the cancel channel. *)
Supersede ==
    /\ ~cancel
    /\ cancel' = TRUE
    /\ UNCHANGED <<channel, rpc, rsend, resumes, worker, handler>>

(* Mutant: a run that is replaced says "done" as every other one. *)
LastWordsDone == rsend' = <<"done">>

(* A run that is replaced ends its channel without a word. *)
LastWords == UNCHANGED rsend

(* errCancelled, whatever the RunFunc does. *)
Cancelled ==
    /\ rpc = "wait" /\ cancel
    /\ rpc' = "close"
    /\ LastWords
    /\ UNCHANGED <<channel, cancel, resumes, worker, handler>>

(* Mutant: a run that waits for the user is not ended with "done". *)
EndingUndone ==
    CASE result \in {"ok", "placeholder"} -> <<"done">>
      [] result = "interrupt" -> <<"waiting">>
      [] result = "fail" -> <<"error", "done">>
      [] OTHER -> <<>>

(* What the front-end is sent when the RunFunc has returned. *)
Ending ==
    CASE result \in {"ok", "placeholder"} -> <<"done">>
      [] result = "interrupt" -> <<"waiting", "done">>
      [] result = "fail" -> <<"error", "done">>
      [] OTHER -> <<>>

Returned ==
    /\ rpc = "wait" /\ wpc = "ended"
    /\ rpc' = "close"
    /\ rsend' = Ending
    /\ UNCHANGED <<channel, cancel, resumes, worker, handler>>

Push ==
    /\ rsend # <<>>
    /\ Send(Head(rsend))
    /\ rsend' = Tail(rsend)
    /\ UNCHANGED <<rpc, cancel, resumes, worker, handler>>

(* Mutant: only a run that returned closes its channel. *)
CloseReturned == rsend = <<>> /\ ~cancel

Said == rsend = <<>>

(* "defer close(out)", on every way out. *)
Close ==
    /\ rpc = "close" /\ Said
    /\ rpc' = "ended"
    /\ UNCHANGED <<channel, rsend, cancel, resumes, worker, handler>>

----------------------------------------------------------------------------
(* The RunFunc: where it sends, and where it may see its context end. *)

At(pc) == wpc = pc /\ ~wsend

Returns(res) ==
    /\ wpc' = "ended"
    /\ result' = res
    /\ UNCHANGED <<channel, runner, wsend, handler>>

Begin ==
    /\ At("begin")
    /\ \/ CtxDone /\ Returns("ctx")
       \/ /\ ~CtxDone
          /\ wpc' = "prepare"
          /\ wsend' = ~resumes
          /\ UNCHANGED <<channel, runner, result, handler>>

(* The answer ends the run; without a version and a DSL a placeholder does. *)
(* "Answers" stands for message, message_end and workflow_finished.        *)
Answers ==
    /\ \/ At("prepare") /\ result' = "placeholder"
       \/ At("invoke") /\ result' \in {"ok", "interrupt"}
    /\ wpc' = "finish"
    /\ wsend' = TRUE
    /\ UNCHANGED <<channel, runner, handler>>

Start ==
    /\ At("prepare")
    /\ wpc' = "invoke"
    /\ UNCHANGED <<channel, runner, wsend, result, handler>>

(* node_started and node_finished. *)
NodeSends ==
    /\ At("invoke")
    /\ wsend' = TRUE
    /\ UNCHANGED <<channel, runner, wpc, result, handler>>

(* A DSL that cannot be decoded or compiled, a node that fails, an         *)
(* interrupt before any node answered, or eino seeing the context end.     *)
Fails ==
    \/ At("prepare") /\ Returns("fail")
    \/ At("invoke") /\ \/ \E res \in {"fail", "interrupt"} : Returns(res)
                       \/ CtxDone /\ Returns("ctx")

Finish ==
    /\ At("finish")
    /\ Returns(result)

Emit ==
    /\ wsend
    /\ Send("event")
    /\ wsend' = FALSE
    /\ UNCHANGED <<runner, wpc, result, handler>>

----------------------------------------------------------------------------
(* The handler and its client. *)

(* One turn of the loop over the channel: the event is written, or the     *)
(* write fails and the handler returns.                                    *)
Read ==
    /\ handler \in {"reads", "gone"} /\ queued > 0
    /\ queued' = queued - 1
    /\ \/ UNCHANGED handler
       \/ handler = "gone" /\ handler' = "left"
    /\ UNCHANGED <<done, runner, worker>>

(* Mutant: the handler takes an empty channel for a closed one. *)
AtEndWhenEmpty == queued = 0 /\ rpc # "resume"

AtEnd == queued = 0 /\ Closed

Leave ==
    /\ handler \in {"reads", "gone"} /\ AtEnd
    /\ handler' = "back"
    /\ UNCHANGED <<channel, runner, worker>>

Disconnect ==
    /\ handler = "reads"
    /\ handler' = "gone"
    /\ UNCHANGED <<channel, runner, worker>>

----------------------------------------------------------------------------
RunnerStep == Invoke \/ Cancelled \/ Returned \/ Push \/ Close
EinoReturns == At("invoke") /\ (Answers \/ Fails)
WorkerStep == Begin \/ Answers \/ Start \/ NodeSends \/ Fails \/ Finish \/ Emit
HandlerStep == Read \/ Leave

Next == RunnerStep \/ WorkerStep \/ HandlerStep \/ Supersede \/ Disconnect

Spec == Init /\ [][Next]_vars

(* The goroutines are scheduled, and eino, which bounds the steps of a     *)
(* workflow, ends it however often its nodes send.  Nothing makes a client *)
(* leave or start another run.                                             *)
FairSpec ==
    /\ Spec
    /\ WF_vars(RunnerStep) /\ WF_vars(WorkerStep) /\ WF_vars(HandlerStep)
    /\ SF_vars(EinoReturns)

----------------------------------------------------------------------------
TypeOK ==
    /\ rpc \in {"resume", "wait", "close", "ended"}
    /\ rsend \in Seq({"waiting", "error", "done"})
    /\ cancel \in BOOLEAN /\ resumes \in BOOLEAN
    /\ wpc \in {"none", "begin", "prepare", "invoke", "finish", "ended"}
    /\ wsend \in BOOLEAN
    /\ result \in {"none", "ok", "placeholder", "interrupt", "fail", "ctx"}
    /\ queued \in 0 .. Capacity
    /\ handler \in {"reads", "gone", "back", "left"}
    /\ done \in BOOLEAN

(* The inductive invariant: the runner's last words end with "done" and    *)
(* are said when the worker has ended, and there are none only if the run  *)
(* was replaced or its context had ended.                                  *)
StreamInv ==
    /\ TypeOK
    /\ wpc = "ended" => ~wsend
    /\ wpc = "ended" /\ handler = "reads" => result \in {"ok", "placeholder", "interrupt", "fail"}
    /\ wpc = "finish" => result \in {"ok", "placeholder", "interrupt"}
    /\ rsend # <<>> => rpc = "close"
    /\ rsend # <<>> \/ done => rpc \in {"close", "ended"} /\ wpc = "ended"
    /\ done => rsend = <<>>
    /\ \A i \in DOMAIN rsend : rsend[i] = "done" <=> i = Len(rsend)
    /\ rpc \in {"close", "ended"} /\ handler = "reads" => done \/ cancel \/ rsend # <<>>

(* Nothing follows "done" in a channel, although the worker of a run that  *)
(* was replaced goes on sending beside the runner's goroutine.             *)
DoneIsLast == [][done => done']_vars

(* "Always close a RunAgent call with the `done` terminator": the channel  *)
(* of a client that stayed ends with it, unless its run was replaced.      *)
ClosedWithDone ==
    Closed /\ handler = "reads" => done \/ cancel

(* A client that stays is served to the end of its channel.                *)
Served == handler = "reads" ~> handler # "reads"

(* The worker ends, unless its handler stopped reading before the end of   *)
(* the channel: a send then blocks for ever.                               *)
WorkerEnds == wpc # "none" ~> wpc = "ended" \/ handler = "left"
=============================================================================
