-------------------------- MODULE RunStream_proofs --------------------------
(***************************************************************************)
(* The theorems about RunStream, for a channel of any capacity.            *)
(***************************************************************************)
EXTENDS RunStream, SequenceTheorems, TLAPS

(* What a push leaves of the last words: fewer words, that end as before.  *)
LEMMA PushLeaves ==
  ASSUME NEW T, NEW s \in Seq(T), s # <<>>,
         \A i \in DOMAIN s : s[i] = "done" <=> i = Len(s)
  PROVE  /\ Tail(s) \in Seq(T)
         /\ Head(s) = "done" <=> Tail(s) = <<>>
         /\ \A i \in DOMAIN Tail(s) : Tail(s)[i] = "done" <=> i = Len(Tail(s))
<1>1. /\ Len(s) \in Nat \ {0} /\ DOMAIN s = 1 .. Len(s) /\ Head(s) = s[1]
      /\ Tail(s) \in Seq(T) /\ Len(Tail(s)) = Len(s) - 1
  OBVIOUS
<1>2. \A i \in 1 .. Len(s) - 1 : Tail(s)[i] = s[i + 1]
  OBVIOUS
<1>3. DOMAIN Tail(s) = 1 .. Len(s) - 1
  BY <1>1
<1>4. Tail(s) = <<>> <=> Len(s) = 1
  BY <1>1
<1>5. QED
  BY <1>1, <1>2, <1>3, <1>4

(***************************************************************************)
(* The runner's last words end with "done", are said when the worker has   *)
(* ended, and are missing only if the run was replaced or its context had  *)
(* ended.                                                                  *)
(***************************************************************************)
THEOREM StreamInvAlways == Spec => []StreamInv
<1> USE CapacityAssumption
<1>1. Init => StreamInv
  <2> SUFFICES ASSUME Init PROVE StreamInv
    OBVIOUS
  <2>1. rsend \in Seq({"waiting", "error", "done"}) /\ rsend = <<>> /\ DOMAIN rsend = {}
    BY DEF Init
  <2>2. TypeOK
    <3>1. cancel \in BOOLEAN /\ resumes \in BOOLEAN /\ wsend \in BOOLEAN /\ done \in BOOLEAN
      BY DEF Init
    <3>2. QED
      BY <2>1, <3>1 DEF Init, TypeOK
  <2>3. ~done /\ rpc = "resume" /\ wpc = "none"
    BY DEF Init
  <2>4. QED
    BY <2>1, <2>2, <2>3 DEF StreamInv
<1>2. StreamInv /\ [Next]_vars => StreamInv'
  <2> SUFFICES ASSUME StreamInv, [Next]_vars
               PROVE  StreamInv'
    OBVIOUS
  <2> USE DEF StreamInv, TypeOK, channel, runner, worker, CtxDone, Closed, At, Returns
  <2>1. CASE Invoke
    BY <2>1 DEF Invoke
  <2>2. CASE Cancelled
    BY <2>2 DEF Cancelled, LastWords
  <2>3. CASE Returned
    <3>1. rsend' = Ending /\ rpc' = "close" /\ UNCHANGED <<channel, cancel, resumes, worker, handler>>
      BY <2>3 DEF Returned
    <3>2. /\ Ending \in Seq({"waiting", "error", "done"})
          /\ \A i \in DOMAIN Ending : Ending[i] = "done" <=> i = Len(Ending)
          /\ result \in {"ok", "placeholder", "interrupt", "fail"} => Ending # <<>>
      <4>1. \/ Ending = <<"done">>
            \/ Ending = <<"waiting", "done">>
            \/ Ending = <<"error", "done">>
            \/ Ending = <<>> /\ result \notin {"ok", "placeholder", "interrupt", "fail"}
        BY DEF Ending
      <4>2. CASE Ending = <<"done">>
        BY <4>2
      <4>3. CASE Ending = <<"waiting", "done">>
        BY <4>3
      <4>4. CASE Ending = <<"error", "done">>
        BY <4>4
      <4>5. CASE Ending = <<>>
        BY <4>1, <4>5
      <4>6. QED
        BY <4>1, <4>2, <4>3, <4>4, <4>5
    <3>3. wpc = "ended" /\ rpc = "wait"
      BY <2>3 DEF Returned
    <3>4. QED
      BY <3>1, <3>2, <3>3
  <2>4. CASE Push
    <3>1. /\ Tail(rsend) \in Seq({"waiting", "error", "done"})
          /\ Head(rsend) = "done" <=> Tail(rsend) = <<>>
          /\ \A i \in DOMAIN Tail(rsend) : Tail(rsend)[i] = "done" <=> i = Len(Tail(rsend))
      BY <2>4, PushLeaves DEF Push
    <3>2. /\ rsend # <<>> /\ rsend' = Tail(rsend) /\ rpc = "close"
          /\ queued' \in 0 .. Capacity /\ done' = (Head(rsend) = "done")
          /\ UNCHANGED <<rpc, cancel, resumes, worker, handler>>
      BY <2>4 DEF Push, Send
    <3>3. QED
      BY <3>1, <3>2
  <2>5. CASE Close
    BY <2>5 DEF Close, Said
  <2>6. CASE Begin
    <3>1. CASE CtxDone
      BY <2>6, <3>1 DEF Begin
    <3>2. CASE ~CtxDone
      BY <2>6, <3>2 DEF Begin
    <3>3. QED
      BY <3>1, <3>2
  <2>7. CASE Answers
    BY <2>7 DEF Answers
  <2>8. CASE Start
    BY <2>8 DEF Start
  <2>9. CASE NodeSends
    BY <2>9 DEF NodeSends
  <2>10. CASE Fails
    BY <2>10 DEF Fails
  <2>11. CASE Finish
    BY <2>11 DEF Finish
  <2>12. CASE Emit
    <3>1. /\ wsend /\ wsend' = FALSE /\ queued' \in 0 .. Capacity
          /\ UNCHANGED <<rpc, rsend, cancel, resumes, wpc, result, handler>>
      BY <2>12 DEF Emit, Send
    <3>2. done' = FALSE
      BY <2>12 DEF Emit, Send
    <3>3. wpc' = wpc /\ rpc' = rpc /\ rsend' = rsend /\ result' = result
      BY <3>1
    <3>4. TypeOK'
      BY <3>1, <3>2 DEF TypeOK
    <3>5. QED
      BY <3>1, <3>2, <3>3, <3>4
  <2>13. CASE Read
    BY <2>13 DEF Read
  <2>14. CASE Leave
    BY <2>14 DEF Leave
  <2>15. CASE Disconnect
    BY <2>15 DEF Disconnect
  <2>16. CASE Supersede
    BY <2>16 DEF Supersede
  <2>17. CASE UNCHANGED vars
    BY <2>17 DEF vars
  <2>18. QED
    BY <2>1, <2>2, <2>3, <2>4, <2>5, <2>6, <2>7, <2>8, <2>9, <2>10, <2>11, <2>12, <2>13,
       <2>14, <2>15, <2>16, <2>17 DEF Next, RunnerStep, WorkerStep, HandlerStep
<1>3. QED
  BY <1>1, <1>2, PTL DEF Spec

(***************************************************************************)
(* A client that stayed until its channel was closed was told "done",      *)
(* unless its run was replaced.                                            *)
(***************************************************************************)
THEOREM ClosedWithDoneAlways == Spec => []ClosedWithDone
<1>1. StreamInv => ClosedWithDone
  BY DEF StreamInv, ClosedWithDone, Closed
<1>2. QED
  BY <1>1, StreamInvAlways, PTL

(***************************************************************************)
(* Nothing is sent after "done": the only sender that is left then is a    *)
(* runner with nothing to say, or the worker of a run that was replaced,   *)
(* whose channel carries no "done".                                        *)
(***************************************************************************)
THEOREM DoneIsLastAlways == Spec => DoneIsLast
<1>1. StreamInv /\ [Next]_vars => [done => done']_vars
  <2> SUFFICES ASSUME StreamInv, [Next]_vars, done
               PROVE  done'
    OBVIOUS
  <2>1. rsend = <<>> /\ ~wsend
    BY DEF StreamInv
  <2>2. CASE Emit \/ Push
    BY <2>1, <2>2 DEF Emit, Push
  <2>3. CASE Invoke \/ Cancelled \/ Returned \/ Close \/ Supersede
    BY <2>3 DEF Invoke, Cancelled, Returned, Close, Supersede, channel
  <2>4. CASE Begin \/ Answers \/ Start \/ NodeSends \/ Fails \/ Finish
    BY <2>4 DEF Begin, Answers, Start, NodeSends, Fails, Finish, Returns, channel
  <2>5. CASE Read \/ Leave \/ Disconnect
    BY <2>5 DEF Read, Leave, Disconnect, channel
  <2>6. CASE UNCHANGED vars
    BY <2>6 DEF vars, channel
  <2>7. QED
    BY <2>2, <2>3, <2>4, <2>5, <2>6 DEF Next, RunnerStep, WorkerStep, HandlerStep
<1>2. QED
  BY <1>1, StreamInvAlways, PTL DEF Spec, DoneIsLast
=============================================================================
