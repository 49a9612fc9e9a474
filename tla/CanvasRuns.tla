----------------------------- MODULE CanvasRuns -----------------------------
(***************************************************************************)
(* The runs of agent canvases in the Go API server and what they share:    *)
(* the Runner's registry of cancel channels and of interrupts, the status  *)
(* RunTracker keeps in Redis and the row of the session.  A request is a   *)
(* run; its goroutine is in Runner.Run and its worker inside the RunFunc,  *)
(* where eino (external) executes the workflow.  What a run sends to its   *)
(* client is in RunStream: here a send is time that passes.                *)
(***************************************************************************)
EXTENDS Naturals, FiniteSets

CONSTANTS Run,            \* requests to run a canvas
          NoRun,
          Canvas, Session

ASSUME RunAssumption == NoRun \notin Run

Key == Canvas \X Session
NoKey == <<>>
CanvasOf(k) == k[1]

VARIABLES
    runCancels,   \* canvas -> the run whose cancel channel is registered
    cancelled,    \* runs whose cancel channel is closed
    interruptIDs, \* session of a canvas -> the run whose interrupt id it holds
    status,       \* "status" of the hash agent:run:{canvas-session}
    turns,        \* session -> the runs whose turn is in its messages
    key,          \* run -> its canvas and session
    rpc,          \* its goroutine in Runner.Run
    resume,       \* the run whose interrupt it resumes
    wpc,          \* its worker
    result,       \* what the RunFunc returns
    loaded,       \* the turns the worker read from the session's row
    ctxDone       \* runs whose request has ended

registry == <<runCancels, cancelled, interruptIDs>>
stored == <<status, turns>>
runner == <<key, rpc, resume>>
worker == <<wpc, result, loaded>>
vars == <<registry, stored, runner, worker, ctxDone>>

Init ==
    /\ runCancels = [c \in Canvas |-> NoRun]
    /\ cancelled = {}
    /\ interruptIDs = [k \in Key |-> NoRun]
    /\ status = [k \in Key |-> "none"]
    /\ turns = [k \in Key |-> {}]
    /\ key = [r \in Run |-> NoKey]
    /\ rpc = [r \in Run |-> "new"]
    /\ resume = [r \in Run |-> NoRun]
    /\ wpc = [r \in Run |-> "none"]
    /\ result = [r \in Run |-> "none"]
    /\ loaded = [r \in Run |-> {}]
    /\ ctxDone = {}

-----------------------------------------------------------------------------
(* Runner.Run. *)

(* Mutant: the run it replaces is not told. *)
SupersedeSilently(c) == UNCHANGED cancelled

(* "close(prev)", of the run registered for the canvas, if it is open. *)
Supersede(c) == cancelled' = cancelled \cup ({runCancels[c]} \ {NoRun})

(* RunAgent and the part of Run under the mutex. *)
RunAgent(r, k) ==
    /\ rpc[r] = "new"
    /\ Supersede(CanvasOf(k))
    /\ runCancels' = [runCancels EXCEPT ![CanvasOf(k)] = r]
    /\ key' = [key EXCEPT ![r] = k]
    /\ rpc' = [rpc EXCEPT ![r] = "resume"]
    /\ UNCHANGED <<interruptIDs, stored, resume, worker, ctxDone>>

(* Mutant: the id is read and stays. *)
PeekInterruptID(r) == UNCHANGED interruptIDs

(* "the resume consumes it". *)
TakeInterruptID(r) == interruptIDs' = [interruptIDs EXCEPT ![key[r]] = NoRun]

(* getInterruptID (the handlers always pass an input, if an empty one), and *)
(* safeInvoke starts the worker.                                           *)
Invoke(r) ==
    /\ rpc[r] = "resume"
    /\ resume' = [resume EXCEPT ![r] = interruptIDs[key[r]]]
    /\ TakeInterruptID(r)
    /\ rpc' = [rpc EXCEPT ![r] = "wait"]
    /\ wpc' = [wpc EXCEPT ![r] = "begin"]
    /\ UNCHANGED <<runCancels, cancelled, stored, key, result, loaded, ctxDone>>

(* The cancel channel was closed: errCancelled, whatever the RunFunc does. *)
Cancelled(r) ==
    /\ rpc[r] = "wait" /\ r \in cancelled
    /\ rpc' = [rpc EXCEPT ![r] = "close"]
    /\ UNCHANGED <<registry, stored, key, resume, worker, ctxDone>>

(* The worker returned.  The id of an interrupt is kept for the session.   *)
Returned(r) ==
    /\ rpc[r] = "wait" /\ wpc[r] = "ended"
    /\ rpc' = [rpc EXCEPT ![r] = "close"]
    /\ interruptIDs' = IF result[r] = "interrupt"
                       THEN [interruptIDs EXCEPT ![key[r]] = r] ELSE interruptIDs
    /\ UNCHANGED <<runCancels, cancelled, stored, key, resume, worker, ctxDone>>

(* Mutant: whoever is registered is removed. *)
ForgetAny(r) == runCancels' = [runCancels EXCEPT ![CanvasOf(key[r])] = NoRun]

(* A run removes its own channel, not the one of the run that replaced it. *)
Forget(r) ==
    runCancels' = [c \in Canvas |->
        IF c = CanvasOf(key[r]) /\ runCancels[c] = r THEN NoRun ELSE runCancels[c]]

(* The deferred calls of the goroutine. *)
Close(r) ==
    /\ rpc[r] = "close"
    /\ Forget(r)
    /\ rpc' = [rpc EXCEPT ![r] = "ended"]
    /\ UNCHANGED <<cancelled, interruptIDs, stored, key, resume, worker, ctxDone>>

-----------------------------------------------------------------------------
(* The RunFunc. *)

(* Mutant: a run that failed, or waits for the user, is not recorded. *)
MarkNoFailure(r, s) ==
    status' = IF r \in ctxDone \/ s = "failed" THEN status
              ELSE [status EXCEPT ![key[r]] = s]

(* Start, MarkSucceeded and MarkFailed write with the context of the       *)
(* request: they fail, and the error is only logged, once it has ended.    *)
Mark(r, s) ==
    status' = IF r \in ctxDone THEN status ELSE [status EXCEPT ![key[r]] = s]

Goto(r, pc) == wpc' = [wpc EXCEPT ![r] = pc]

Returns(r, res) ==
    /\ Goto(r, "ended")
    /\ result' = [result EXCEPT ![r] = res]

(* The canvas has no version and no DSL: nothing is recorded. *)
Placeholder(r) ==
    /\ wpc[r] = "begin"
    /\ Returns(r, "placeholder")
    /\ UNCHANGED <<registry, stored, runner, loaded, ctxDone>>

Start(r) ==
    /\ wpc[r] = "begin"
    /\ Mark(r, "running")
    /\ Goto(r, "invoke")
    /\ UNCHANGED <<registry, turns, runner, result, loaded, ctxDone>>

(* The DSL cannot be decoded (before Start), or not be compiled, or a node *)
(* fails (after it).                                                       *)
Fails(r) ==
    /\ wpc[r] \in {"begin", "invoke"}
    /\ Mark(r, "failed")
    /\ Returns(r, "fail")
    /\ UNCHANGED <<registry, turns, runner, loaded, ctxDone>>

(* The RunFunc or eino returns the error of the context; MarkFailed, which *)
(* follows in the second case, fails too.                                  *)
Aborts(r) ==
    /\ wpc[r] \in {"begin", "invoke"} /\ r \in ctxDone
    /\ Returns(r, "ctx")
    /\ UNCHANGED <<registry, stored, runner, loaded, ctxDone>>

(* A node waits for the user.  What the nodes answered so far, if they     *)
(* did, becomes a turn after the run was marked.                           *)
Interrupts(r) ==
    /\ wpc[r] = "invoke"
    /\ Mark(r, "failed")
    /\ result' = [result EXCEPT ![r] = "interrupt"]
    /\ \E pc \in {"load", "ended"} : Goto(r, pc)
    /\ UNCHANGED <<registry, turns, runner, loaded, ctxDone>>

Completes(r) ==
    /\ wpc[r] = "invoke"
    /\ result' = [result EXCEPT ![r] = "ok"]
    /\ Goto(r, "load")
    /\ UNCHANGED <<registry, stored, runner, loaded, ctxDone>>

(* persistAgentRunSession reads the row of the session, appends the turn   *)
(* to its messages and updates the row.                                    *)
LoadSession(r) ==
    /\ wpc[r] = "load"
    /\ loaded' = [loaded EXCEPT ![r] = turns[key[r]]]
    /\ Goto(r, "save")
    /\ UNCHANGED <<registry, stored, runner, result, ctxDone>>

SaveSession(r) ==
    /\ wpc[r] = "save"
    /\ turns' = [turns EXCEPT ![key[r]] = loaded[r] \cup {r}]
    /\ loaded' = [loaded EXCEPT ![r] = {}]
    /\ Goto(r, "finish")
    /\ UNCHANGED <<registry, status, runner, result, ctxDone>>

(* A completed run is marked when its last event was sent.                 *)
Finish(r) ==
    /\ wpc[r] = "finish"
    /\ IF result[r] = "ok" THEN Mark(r, "succeeded") ELSE UNCHANGED status
    /\ Goto(r, "ended")
    /\ UNCHANGED <<registry, turns, runner, result, loaded, ctxDone>>

(* The context of the request of a run ends: its client disconnects, or    *)
(* its handler returns at the end of the channel.                          *)
RequestEnds(r) ==
    /\ rpc[r] # "new" /\ r \notin ctxDone
    /\ ctxDone' = ctxDone \cup {r}
    /\ UNCHANGED <<registry, stored, runner, worker>>

-----------------------------------------------------------------------------
RunnerStep(r) == Invoke(r) \/ Cancelled(r) \/ Returned(r) \/ Close(r)

WorkerStep(r) ==
    \/ Placeholder(r) \/ Start(r) \/ Fails(r) \/ Aborts(r) \/ Interrupts(r)
    \/ Completes(r) \/ LoadSession(r) \/ SaveSession(r) \/ Finish(r)

Next ==
    \/ \E r \in Run, k \in Key : RunAgent(r, k)
    \/ \E r \in Run : RunnerStep(r) \/ WorkerStep(r) \/ RequestEnds(r)

Spec == Init /\ [][Next]_vars

-----------------------------------------------------------------------------
TypeOK ==
    /\ runCancels \in [Canvas -> Run \cup {NoRun}]
    /\ cancelled \subseteq Run
    /\ interruptIDs \in [Key -> Run \cup {NoRun}]
    /\ status \in [Key -> {"none", "running", "succeeded", "failed"}]
    /\ turns \in [Key -> SUBSET Run]
    /\ key \in [Run -> Key \cup {NoKey}]
    /\ rpc \in [Run -> {"new", "resume", "wait", "close", "ended"}]
    /\ resume \in [Run -> Run \cup {NoRun}]
    /\ wpc \in [Run -> {"none", "begin", "invoke", "load", "save", "finish", "ended"}]
    /\ result \in [Run -> {"none", "ok", "placeholder", "interrupt", "fail", "ctx"}]
    /\ loaded \in [Run -> SUBSET Run]
    /\ ctxDone \subseteq Run

(* A run is under way, and nothing told it to stop. *)
Live(r) == rpc[r] \in {"resume", "wait"} /\ r \notin cancelled

(* At most one run of a canvas is under way and not told to stop: a run    *)
(* that ends between two others leaves the registration of the later one   *)
(* alone, or a fourth could not stop it.                                   *)
OneLiveRun ==
    \A r, s \in Run :
        Live(r) /\ Live(s) /\ CanvasOf(key[r]) = CanvasOf(key[s]) => r = s

(* The answer of a user resumes an interrupt at most once, however many    *)
(* requests of a session race for it.                                      *)
ResumedOnce ==
    \A r, s \in Run : resume[r] = resume[s] /\ resume[r] # NoRun => r = s

(* The worker has still to record how its run ends. *)
Unrecorded(r) ==
    \/ wpc[r] = "invoke"
    \/ wpc[r] \in {"load", "save", "finish"} /\ result[r] = "ok"

(* The status of a session is not left at running, not even by a run that  *)
(* is replaced: a worker has still to record the end of its run, or a run  *)
(* of the session lost its client, and with it the context its worker      *)
(* records the end with.                                                   *)
RunningIsRun ==
    \A k \in Key : status[k] = "running" =>
        \E r \in Run : key[r] = k /\ (Unrecorded(r) \/ r \in ctxDone)

(* No turn is lost to the read-modify-write of the session's row, while    *)
(* none of the session's runs was replaced.                                *)
TurnsKept ==
    \A r \in Run :
        /\ result[r] = "ok" /\ wpc[r] \in {"finish", "ended"}
        /\ \A s \in Run : key[s] = key[r] => s \notin cancelled
        => r \in turns[key[r]]

(* None of the runs of a session was replaced. *)
Quiet(k) == \A s \in Run : key[s] = k => s \notin cancelled

(* A run that nothing told to stop is the registered one, and its worker   *)
(* is waited for. *)
Registered ==
    \A r \in Run :
        /\ rpc[r] # "new" => key[r] \in Key
        /\ rpc[r] = "new" => r \notin cancelled \cup ctxDone /\ \A c \in Canvas : runCancels[c] # r
        /\ Live(r) => runCancels[CanvasOf(key[r])] = r
        /\ rpc[r] \in {"new", "resume"} => wpc[r] = "none" /\ resume[r] = NoRun
        /\ rpc[r] \in {"close", "ended"} => wpc[r] = "ended" \/ r \in cancelled

(* An id that is kept is the one of a run of the session, which returned   *)
(* and which nobody resumed.                                               *)
IdsKept ==
    /\ \A k \in Key : interruptIDs[k] # NoRun =>
          /\ rpc[interruptIDs[k]] \in {"close", "ended"}
          /\ key[interruptIDs[k]] = k
          /\ \A r \in Run : resume[r] # interruptIDs[k]
    /\ \A r \in Run : resume[r] # NoRun => rpc[resume[r]] \in {"close", "ended"}

(* What a worker is about to write was computed from the present row.      *)
LoadedFresh ==
    \A r \in Run : wpc[r] = "save" /\ Quiet(key[r]) => loaded[r] = turns[key[r]]

(* The inductive invariant: registry, goroutines and workers agree about   *)
(* who is under way.                                                       *)
CanvasInv ==
    TypeOK /\ Registered /\ IdsKept /\ ResumedOnce /\ LoadedFresh /\ TurnsKept /\ RunningIsRun
=============================================================================
