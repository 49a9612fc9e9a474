-------------------------- MODULE AgentLoop_proofs --------------------------
(***************************************************************************)
(* The theorems about AgentLoop, for every set of items and kinds of       *)
(* pushes and stops.                                                       *)
(***************************************************************************)
EXTENDS AgentLoop, TLAPS

(* Whatever leaves the preempt controller, the pushes, the watchers of     *)
(* preemptions and the phase of the loop alone keeps the invariant.        *)
LEMMA QuietStep ==
  ASSUME LoopInv, LoopTypeOK', PhaseOfLoop', UNCHANGED <<preemptVars, ppc, pw>>,
         lpc' \in {"planning", "begin", "start"} => lpc \in {"planning", "begin", "start"}
  PROVE  LoopInv'
  BY DEF LoopInv, LoopTypeOK, WatcherOfTurn, AcksInOnePlace, PreemptIsTargeted,
       PendingIsCurrent, PhaseOfLoop, preemptVars, requestVars

(* requestPreempt keeps the types of the controller's variables. *)
LEMMA RequestTypes ==
  ASSUME PreemptTypeOK, NEW i \in Item, RequestPreempt(i), pushing' \subseteq Item
  PROVE  PreemptTypeOK'
<1>1. notify' \in BOOLEAN
  <2>1. CASE NoTarget(i)
    BY <2>1 DEF PreemptTypeOK, RequestPreempt
  <2>2. CASE ~NoTarget(i)
    <3>1. notify' = (notify \/ turnPhase = "active")
      BY <2>2 DEF RequestPreempt
    <3>2. QED
      BY <3>1, Zenon
  <2>3. QED
    BY <2>1, <2>2
<1>2. delayed' \subseteq Item /\ pending' \subseteq Item /\ acked' \subseteq Item
  BY DEF PreemptTypeOK, RequestPreempt
<1>3. UNCHANGED <<turnPhase, turnID, snap, held, shut>>
  BY DEF RequestPreempt
<1>4. QED
  BY <1>1, <1>2, <1>3 DEF PreemptTypeOK

(* The watchers, the acks and the requests to preempt agree with the loop   *)
(* after every step of pushes, stops, timers, agents and watchers.         *)
THEOREM LoopInvAlways == Spec => []LoopInv
<1> USE LoopAssumption
    DEF preemptVars, requestVars, bufVars, pushVars, stopVars, loopVars, agentVars, watchVars,
        GotoLoop, Exit, GotoPush, OutsidePush, OutsideStop, OutsideLoop, OutsideWatch
<1>1. Init => LoopInv
  <2> SUFFICES ASSUME Init PROVE LoopInv
    OBVIOUS
  <2>1. LoopTypeOK /\ PhaseOfLoop /\ \A i \in Item : snap[i] <= turnID
    <3>1. PreemptTypeOK
      BY DEF Init, PreemptInit, NoTurn, PreemptTypeOK
    <3>2. LoopTypeOK
      BY <3>1 DEF Init, LoopTypeOK
    <3>3. PhaseOfLoop
      BY DEF Init, PreemptInit, PhaseOfLoop
    <3>4. \A i \in Item : snap[i] <= turnID
      <4>1. turnID = 0 /\ \A i \in Item : snap[i] = 0
        BY DEF Init, PreemptInit, NoTurn
      <4>2. 0 <= 0
        OBVIOUS
      <4>3. QED
        BY <4>1, <4>2, Zenon
    <3>5. QED
      BY <3>2, <3>3, <3>4
  <2>2. WatcherOfTurn /\ PreemptIsTargeted
    BY DEF Init, PreemptInit, WatcherOfTurn, PreemptIsTargeted, PendingIsCurrent
  <2>3. AcksInOnePlace
    BY DEF Init, PreemptInit, AcksInOnePlace
  <2>4. QED
    BY <2>1, <2>2, <2>3 DEF LoopInv
<1>2. LoopInv /\ [Next]_vars => LoopInv'
  <2> SUFFICES ASSUME LoopInv, [Next]_vars
               PROVE  LoopInv'
    OBVIOUS
  <2>1. ASSUME NEW i \in Item, NEW k \in PushKinds, Push(i, k) PROVE LoopInv'
    BY <2>1 DEF Push, LoopInv, LoopTypeOK, PreemptTypeOK, PhaseOfLoop, WatcherOfTurn,
           AcksInOnePlace, PreemptIsTargeted, PendingIsCurrent, EnterPush, NoTurn
  <2>2. ASSUME NEW i \in Item, BeginPush(i) PROVE LoopInv'
    BY <2>2 DEF BeginPush, LoopInv, LoopTypeOK, PreemptTypeOK, PhaseOfLoop, WatcherOfTurn,
           AcksInOnePlace, PreemptIsTargeted, PendingIsCurrent, EnterPush, NoTurn
  <2>3. ASSUME NEW i \in Item, NEW k \in PushKinds, Decide(i, k) PROVE LoopInv'
    BY <2>3 DEF Decide, LoopInv, LoopTypeOK, PreemptTypeOK, PhaseOfLoop, WatcherOfTurn,
           AcksInOnePlace, PreemptIsTargeted, PendingIsCurrent
  <2>4. ASSUME NEW i \in Item, Send(i) PROVE LoopInv'
    <3>1. LoopTypeOK' /\ PhaseOfLoop' /\ \A j \in Item : snap'[j] <= turnID'
      <4>1. PreemptTypeOK'
        BY <2>4 DEF LoopInv, LoopTypeOK, PreemptTypeOK, PhaseOfLoop, AcksInOnePlace, Send,
           EndPush
      <4>2. LoopTypeOK' /\ PhaseOfLoop'
        BY <2>4, <4>1 DEF LoopInv, LoopTypeOK, PhaseOfLoop, AcksInOnePlace, Send, EndPush
      <4>3. \A j \in Item : snap'[j] <= turnID'
        BY <2>4 DEF LoopInv, LoopTypeOK, PreemptTypeOK, PhaseOfLoop, AcksInOnePlace, Send,
           EndPush
      <4>4. QED
        BY <4>2, <4>3
    <3>2. WatcherOfTurn'
      BY <2>4 DEF LoopInv, LoopTypeOK, PreemptTypeOK, PhaseOfLoop, WatcherOfTurn, Send, EndPush
    <3>3. AcksInOnePlace'
      BY <2>4 DEF LoopInv, LoopTypeOK, PreemptTypeOK, WatcherOfTurn, AcksInOnePlace, Send,
           EndPush
    <3>4. PreemptIsTargeted'
      BY <2>4 DEF LoopInv, LoopTypeOK, PreemptTypeOK, PhaseOfLoop, WatcherOfTurn,
         AcksInOnePlace,
           PreemptIsTargeted, PendingIsCurrent, Send, EndPush
    <3>5. QED
      BY <3>1, <3>2, <3>3, <3>4 DEF LoopInv
  <2>5. ASSUME NEW i \in Item, NEW k \in PushKinds, Request(i, k) PROVE LoopInv'
    <3>1. LoopTypeOK' /\ PhaseOfLoop' /\ \A j \in Item : snap'[j] <= turnID'
      <4>1. PreemptTypeOK'
        <5>1. pushing' \subseteq Item
          BY <2>5 DEF LoopInv, LoopTypeOK, PreemptTypeOK, PhaseOfLoop, AcksInOnePlace, Request,
           RequestPreempt, NoTarget, NoTurn
        <5>2. CASE RequestPreempt(i)
          BY <2>5, <5>1, <5>2, RequestTypes DEF Request, LoopInv, LoopTypeOK
        <5>3. CASE UNCHANGED <<turnPhase, turnID, snap, pending, held, notify, shut>>
          BY <2>5, <5>3 DEF LoopInv, LoopTypeOK, PreemptTypeOK, PhaseOfLoop, AcksInOnePlace,
           Request, RequestPreempt, NoTarget, NoTurn
        <5>4. QED
          BY <2>5, <5>2, <5>3 DEF Request
      <4>2. LoopTypeOK' /\ PhaseOfLoop'
        BY <2>5, <4>1 DEF LoopInv, LoopTypeOK, PhaseOfLoop, AcksInOnePlace, Request,
           RequestPreempt, NoTarget, NoTurn
      <4>3. \A j \in Item : snap'[j] <= turnID'
        BY <2>5 DEF LoopInv, LoopTypeOK, PreemptTypeOK, PhaseOfLoop, AcksInOnePlace, Request,
           RequestPreempt, NoTarget, NoTurn
      <4>4. QED
        BY <4>2, <4>3
    <3>2. WatcherOfTurn'
      BY <2>5 DEF LoopInv, LoopTypeOK, PreemptTypeOK, PhaseOfLoop, WatcherOfTurn, Request,
           RequestPreempt, NoTarget, NoTurn
    <3>3. AcksInOnePlace'
      BY <2>5 DEF LoopInv, LoopTypeOK, PreemptTypeOK, WatcherOfTurn, AcksInOnePlace, Request,
           RequestPreempt, NoTarget, NoTurn
    <3>4. PreemptIsTargeted'
      BY <2>5 DEF LoopInv, LoopTypeOK, PreemptTypeOK, PhaseOfLoop, WatcherOfTurn,
         AcksInOnePlace,
           PreemptIsTargeted, PendingIsCurrent, Request, RequestPreempt, NoTarget, NoTurn
    <3>5. QED
      BY <3>1, <3>2, <3>3, <3>4 DEF LoopInv
  <2>6. ASSUME NEW i \in Item, AppendLate(i) PROVE LoopInv'
    BY <2>6 DEF AppendLate, LoopInv, LoopTypeOK, PreemptTypeOK, PhaseOfLoop, WatcherOfTurn,
           AcksInOnePlace, PreemptIsTargeted, PendingIsCurrent, EndPush
  <2>7. ASSUME NEW i \in Item, DelayOver(i) PROVE LoopInv'
    <3>1. LoopTypeOK' /\ PhaseOfLoop' /\ \A j \in Item : snap'[j] <= turnID'
      <4>1. PreemptTypeOK'
        <5>1. pushing' \subseteq Item
          BY <2>7 DEF LoopInv, LoopTypeOK, PreemptTypeOK, PhaseOfLoop, AcksInOnePlace,
             DelayOver,
           RequestPreempt, NoTarget, NoTurn
        <5>2. QED
          BY <2>7, <5>1, RequestTypes DEF DelayOver, LoopInv, LoopTypeOK
      <4>2. LoopTypeOK' /\ PhaseOfLoop'
        BY <2>7, <4>1 DEF LoopInv, LoopTypeOK, PhaseOfLoop, AcksInOnePlace, DelayOver,
           RequestPreempt, NoTarget, NoTurn
      <4>3. \A j \in Item : snap'[j] <= turnID'
        BY <2>7 DEF LoopInv, LoopTypeOK, PreemptTypeOK, PhaseOfLoop, AcksInOnePlace, DelayOver,
           RequestPreempt, NoTarget, NoTurn
      <4>4. QED
        BY <4>2, <4>3
    <3>2. WatcherOfTurn'
      BY <2>7 DEF LoopInv, LoopTypeOK, PreemptTypeOK, PhaseOfLoop, WatcherOfTurn, DelayOver,
           RequestPreempt, NoTarget, NoTurn
    <3>3. AcksInOnePlace'
      BY <2>7 DEF LoopInv, LoopTypeOK, PreemptTypeOK, WatcherOfTurn, AcksInOnePlace, DelayOver,
           RequestPreempt, NoTarget, NoTurn
    <3>4. PreemptIsTargeted'
      BY <2>7 DEF LoopInv, LoopTypeOK, PreemptTypeOK, PhaseOfLoop, WatcherOfTurn,
         AcksInOnePlace,
           PreemptIsTargeted, PendingIsCurrent, DelayOver, RequestPreempt, NoTarget, NoTurn
    <3>5. QED
      BY <3>1, <3>2, <3>3, <3>4 DEF LoopInv
  <2>8. ASSUME NEW i \in Item, DelayMoot(i) PROVE LoopInv'
    BY <2>8 DEF DelayMoot, LoopInv, LoopTypeOK, PreemptTypeOK, PhaseOfLoop, WatcherOfTurn,
           AcksInOnePlace, PreemptIsTargeted, PendingIsCurrent
  <2>9. ASSUME TakeLateItems PROVE LoopInv'
    <3>1. LoopTypeOK' /\ PhaseOfLoop' /\ UNCHANGED <<preemptVars, ppc, pw>>
      BY <2>9 DEF TakeLateItems, LoopInv, LoopTypeOK, PreemptTypeOK, PhaseOfLoop
    <3>2. QED
      BY <2>9, <3>1, QuietStep DEF TakeLateItems
  <2>10. ASSUME StopIdle PROVE LoopInv'
    <3>1. LoopTypeOK' /\ PhaseOfLoop' /\ UNCHANGED <<preemptVars, ppc, pw>>
      BY <2>10 DEF StopIdle, LoopInv, LoopTypeOK, PreemptTypeOK, PhaseOfLoop, Commit
    <3>2. QED
      BY <2>10, <3>1, QuietStep DEF StopIdle
  <2>11. ASSUME StopTimesOut PROVE LoopInv'
    <3>1. LoopTypeOK' /\ PhaseOfLoop' /\ UNCHANGED <<preemptVars, ppc, pw>>
      BY <2>11 DEF StopTimesOut, LoopInv, LoopTypeOK, PreemptTypeOK, PhaseOfLoop, Commit
    <3>2. QED
      BY <2>11, <3>1, QuietStep DEF StopTimesOut
  <2>12. ASSUME CancelCtx PROVE LoopInv'
    <3>1. LoopTypeOK' /\ PhaseOfLoop' /\ UNCHANGED <<preemptVars, ppc, pw>>
      BY <2>12 DEF CancelCtx, LoopInv, LoopTypeOK, PreemptTypeOK, PhaseOfLoop, Commit
    <3>2. QED
      BY <2>12, <3>1, QuietStep DEF CancelCtx
  <2>13. ASSUME Wakeup PROVE LoopInv'
    <3>1. LoopTypeOK' /\ PhaseOfLoop' /\ UNCHANGED <<preemptVars, ppc, pw>>
      BY <2>13 DEF Wakeup, LoopInv, LoopTypeOK, PreemptTypeOK, PhaseOfLoop, Commit
    <3>2. QED
      BY <2>13, <3>1, QuietStep DEF Wakeup
  <2>14. ASSUME StoreStopped PROVE LoopInv'
    <3>1. LoopTypeOK' /\ PhaseOfLoop' /\ UNCHANGED <<preemptVars, ppc, pw>>
      BY <2>14 DEF StoreStopped, LoopInv, LoopTypeOK, PreemptTypeOK, PhaseOfLoop, Commit
    <3>2. QED
      BY <2>14, <3>1, QuietStep DEF StoreStopped
  <2>15. ASSUME CloseBuffer PROVE LoopInv'
    <3>1. LoopTypeOK' /\ PhaseOfLoop' /\ UNCHANGED <<preemptVars, ppc, pw>>
      BY <2>15 DEF CloseBuffer, LoopInv, LoopTypeOK, PreemptTypeOK, PhaseOfLoop, Commit
    <3>2. QED
      BY <2>15, <3>1, QuietStep DEF CloseBuffer
  <2>16. ASSUME TimerFires PROVE LoopInv'
    <3>1. LoopTypeOK' /\ PhaseOfLoop' /\ UNCHANGED <<preemptVars, ppc, pw>>
      BY <2>16 DEF TimerFires, LoopInv, LoopTypeOK, PreemptTypeOK, PhaseOfLoop, Commit
    <3>2. QED
      BY <2>16, <3>1, QuietStep DEF TimerFires
  <2>17. ASSUME TimerCommits PROVE LoopInv'
    <3>1. LoopTypeOK' /\ PhaseOfLoop' /\ UNCHANGED <<preemptVars, ppc, pw>>
      BY <2>17 DEF TimerCommits, LoopInv, LoopTypeOK, PreemptTypeOK, PhaseOfLoop, Commit
    <3>2. QED
      BY <2>17, <3>1, QuietStep DEF TimerCommits
  <2>18. ASSUME CtxClosesBuffer PROVE LoopInv'
    <3>1. LoopTypeOK' /\ PhaseOfLoop' /\ UNCHANGED <<preemptVars, ppc, pw>>
      BY <2>18 DEF CtxClosesBuffer, LoopInv, LoopTypeOK, PreemptTypeOK, PhaseOfLoop, Commit
    <3>2. QED
      BY <2>18, <3>1, QuietStep DEF CtxClosesBuffer
  <2>19. ASSUME NEW k \in StopKinds, Stop(k) PROVE LoopInv'
    <3>1. LoopTypeOK' /\ PhaseOfLoop' /\ UNCHANGED <<preemptVars, ppc, pw>>
      BY <2>19 DEF Stop, LoopInv, LoopTypeOK, PreemptTypeOK, PhaseOfLoop, Commit
    <3>2. QED
      BY <2>19, <3>1, QuietStep DEF Stop
  <2>20. ASSUME Run PROVE LoopInv'
    <3>1. LoopTypeOK' /\ PhaseOfLoop' /\ UNCHANGED <<preemptVars, ppc, pw>>
      BY <2>20 DEF Run, LoopInv, LoopTypeOK, PreemptTypeOK, PhaseOfLoop, PutBack
    <3>2. QED
      BY <2>20, <3>1, QuietStep DEF Run
  <2>21. ASSUME Top PROVE LoopInv'
    <3>1. LoopTypeOK' /\ PhaseOfLoop' /\ UNCHANGED <<preemptVars, ppc, pw>>
      BY <2>21 DEF Top, LoopInv, LoopTypeOK, PreemptTypeOK, PhaseOfLoop, PutBack
    <3>2. QED
      BY <2>21, <3>1, QuietStep DEF Top
  <2>22. ASSUME Choose PROVE LoopInv'
    <3>1. LoopTypeOK' /\ PhaseOfLoop' /\ UNCHANGED <<preemptVars, ppc, pw>>
      BY <2>22 DEF Choose, LoopInv, LoopTypeOK, PreemptTypeOK, PhaseOfLoop, PutBack
    <3>2. QED
      BY <2>22, <3>1, QuietStep DEF Choose
  <2>23. ASSUME ArmTimer PROVE LoopInv'
    <3>1. LoopTypeOK' /\ PhaseOfLoop' /\ UNCHANGED <<preemptVars, ppc, pw>>
      BY <2>23 DEF ArmTimer, LoopInv, LoopTypeOK, PreemptTypeOK, PhaseOfLoop, PutBack
    <3>2. QED
      BY <2>23, <3>1, QuietStep DEF ArmTimer
  <2>24. ASSUME Receive PROVE LoopInv'
    <3>1. LoopTypeOK' /\ PhaseOfLoop' /\ UNCHANGED <<preemptVars, ppc, pw>>
      BY <2>24 DEF Receive, LoopInv, LoopTypeOK, PreemptTypeOK, PhaseOfLoop, PutBack
    <3>2. QED
      BY <2>24, <3>1, QuietStep DEF Receive
  <2>25. ASSUME Disarm PROVE LoopInv'
    <3>1. LoopTypeOK' /\ PhaseOfLoop' /\ UNCHANGED <<preemptVars, ppc, pw>>
      BY <2>25 DEF Disarm, LoopInv, LoopTypeOK, PreemptTypeOK, PhaseOfLoop, PutBack
    <3>2. QED
      BY <2>25, <3>1, QuietStep DEF Disarm
  <2>26. ASSUME Woke PROVE LoopInv'
    <3>1. LoopTypeOK' /\ PhaseOfLoop' /\ UNCHANGED <<preemptVars, ppc, pw>>
      BY <2>26 DEF Woke, LoopInv, LoopTypeOK, PreemptTypeOK, PhaseOfLoop, PutBack
    <3>2. QED
      BY <2>26, <3>1, QuietStep DEF Woke
  <2>27. ASSUME GotFirst PROVE LoopInv'
    <3>1. LoopTypeOK' /\ PhaseOfLoop' /\ UNCHANGED <<preemptVars, ppc, pw>>
      BY <2>27 DEF GotFirst, LoopInv, LoopTypeOK, PreemptTypeOK, PhaseOfLoop, PutBack
    <3>2. QED
      BY <2>27, <3>1, QuietStep DEF GotFirst
  <2>28. ASSUME CheckStop PROVE LoopInv'
    <3>1. LoopTypeOK' /\ PhaseOfLoop' /\ UNCHANGED <<preemptVars, ppc, pw>>
      BY <2>28 DEF CheckStop, LoopInv, LoopTypeOK, PreemptTypeOK, PhaseOfLoop, PutBack
    <3>2. QED
      BY <2>28, <3>1, QuietStep DEF CheckStop
  <2>29. ASSUME PushesEnded PROVE LoopInv'
    <3>1. LoopTypeOK' /\ PhaseOfLoop' /\ UNCHANGED <<preemptVars, ppc, pw>>
      BY <2>29 DEF PushesEnded, LoopInv, LoopTypeOK, PreemptTypeOK, PhaseOfLoop, PutBack
    <3>2. QED
      BY <2>29, <3>1, QuietStep DEF PushesEnded
  <2>30. ASSUME Cleanup PROVE LoopInv'
    <3>1. LoopTypeOK' /\ PhaseOfLoop' /\ UNCHANGED <<preemptVars, ppc, pw>>
      BY <2>30 DEF Cleanup, LoopInv, LoopTypeOK, PreemptTypeOK, PhaseOfLoop, PutBack
    <3>2. QED
      BY <2>30, <3>1, QuietStep DEF Cleanup
  <2>31. ASSUME Sweep PROVE LoopInv'
    <3>1. LoopTypeOK' /\ PhaseOfLoop' /\ UNCHANGED <<preemptVars, ppc, pw>>
      BY <2>31 DEF Sweep, LoopInv, LoopTypeOK, PreemptTypeOK, PhaseOfLoop, PutBack
    <3>2. QED
      BY <2>31, <3>1, QuietStep DEF Sweep
  <2>32. ASSUME NEW n \in 1..Len(hand), Planned(n) PROVE LoopInv'
    <3>1. LoopTypeOK' /\ PhaseOfLoop' /\ UNCHANGED <<preemptVars, ppc, pw>>
      BY <2>32 DEF Planned, LoopInv, LoopTypeOK, PreemptTypeOK, PhaseOfLoop, PutBack
    <3>2. QED
      BY <2>32, <3>1, QuietStep DEF Planned
  <2>33. ASSUME TakeAll PROVE LoopInv'
    BY <2>33 DEF TakeAll, LoopInv, LoopTypeOK, PreemptTypeOK, PhaseOfLoop, WatcherOfTurn,
           AcksInOnePlace, PreemptIsTargeted, PendingIsCurrent, BeginPlanningTurn, PutBack
  <2>34. ASSUME AbortTurn PROVE LoopInv'
    BY <2>34 DEF AbortTurn, LoopInv, LoopTypeOK, PreemptTypeOK, PhaseOfLoop, WatcherOfTurn,
           AcksInOnePlace, PreemptIsTargeted, PendingIsCurrent, EndTurn, PutBack
  <2>35. ASSUME BeginTurn PROVE LoopInv'
    BY <2>35 DEF BeginTurn, LoopInv, LoopTypeOK, PreemptTypeOK, PhaseOfLoop, WatcherOfTurn,
           AcksInOnePlace, PreemptIsTargeted, PendingIsCurrent, BeginActiveTurn, PutBack
  <2>36. ASSUME StartAgent PROVE LoopInv'
    <3>1. LoopTypeOK' /\ PhaseOfLoop' /\ \A j \in Item : snap'[j] <= turnID'
      BY <2>36 DEF LoopInv, LoopTypeOK, PreemptTypeOK, PhaseOfLoop, AcksInOnePlace, StartAgent,
           PutBack
    <3>2. WatcherOfTurn'
      BY <2>36 DEF LoopInv, LoopTypeOK, PreemptTypeOK, PhaseOfLoop, WatcherOfTurn, StartAgent,
           PutBack
    <3>3. AcksInOnePlace'
      BY <2>36 DEF LoopInv, LoopTypeOK, PreemptTypeOK, WatcherOfTurn, AcksInOnePlace,
         StartAgent,
           PutBack
    <3>4. PreemptIsTargeted'
      BY <2>36 DEF LoopInv, LoopTypeOK, PreemptTypeOK, PhaseOfLoop, WatcherOfTurn,
           AcksInOnePlace, PreemptIsTargeted, PendingIsCurrent, StartAgent, PutBack
    <3>5. QED
      BY <3>1, <3>2, <3>3, <3>4 DEF LoopInv
  <2>37. ASSUME TurnOver PROVE LoopInv'
    BY <2>37 DEF TurnOver, LoopInv, LoopTypeOK, PreemptTypeOK, PhaseOfLoop, WatcherOfTurn,
           AcksInOnePlace, PreemptIsTargeted, PendingIsCurrent, EndTurn, PutBack
  <2>38. ASSUME CloseDown PROVE LoopInv'
    <3>1. LoopTypeOK' /\ PhaseOfLoop' /\ \A j \in Item : snap'[j] <= turnID'
      BY <2>38 DEF LoopInv, LoopTypeOK, PreemptTypeOK, PhaseOfLoop, AcksInOnePlace, CloseDown,
           Shut, PutBack
    <3>2. WatcherOfTurn'
      BY <2>38 DEF LoopInv, LoopTypeOK, PreemptTypeOK, PhaseOfLoop, WatcherOfTurn, CloseDown,
           Shut, PutBack
    <3>3. AcksInOnePlace'
      BY <2>38 DEF LoopInv, LoopTypeOK, PreemptTypeOK, WatcherOfTurn, AcksInOnePlace, CloseDown,
           Shut, PutBack
    <3>4. PreemptIsTargeted'
      BY <2>38 DEF LoopInv, LoopTypeOK, PreemptTypeOK, PhaseOfLoop, WatcherOfTurn,
           AcksInOnePlace, PreemptIsTargeted, PendingIsCurrent, CloseDown, Shut, PutBack
    <3>5. QED
      BY <3>1, <3>2, <3>3, <3>4 DEF LoopInv
  <2>39. ASSUME NEW o \in {"ok", "error", "interrupt", "cancel"}, AgentEnds(o) PROVE LoopInv'
    <3>1. LoopTypeOK' /\ PhaseOfLoop' /\ UNCHANGED <<preemptVars, ppc, pw>>
      BY <2>39 DEF AgentEnds, LoopInv, LoopTypeOK, PreemptTypeOK, PhaseOfLoop
    <3>2. QED
      BY <2>39, <3>1, QuietStep DEF AgentEnds
  <2>40. ASSUME NEW t \in Turn, PreemptWatchEnds(t) PROVE LoopInv'
    BY <2>40 DEF PreemptWatchEnds, LoopInv, LoopTypeOK, PreemptTypeOK, PhaseOfLoop,
           WatcherOfTurn, AcksInOnePlace, PreemptIsTargeted, PendingIsCurrent
  <2>41. ASSUME NEW t \in Turn, PreemptNotified(t) PROVE LoopInv'
    <3>0. LoopTypeOK'
      <4>1. pw' \in [Turn -> {"off", "wait", "look", "cancel", "close", "ack"}] /\ notify' = FALSE
        BY <2>41 DEF LoopInv, LoopTypeOK, PreemptNotified
      <4>2. UNCHANGED <<turnPhase, turnID, pushing, snap, delayed, pending, held, acked, shut, ppc,
                        sw, lpc, stopPhase, asked, agent>>
        BY <2>41 DEF PreemptNotified, agentVars, stopVars, OutsideWatch
      <4>3. PreemptTypeOK'
        BY <4>1, <4>2 DEF LoopInv, LoopTypeOK, PreemptTypeOK
      <4>4. QED
        BY <4>1, <4>2, <4>3 DEF LoopInv, LoopTypeOK
    <3>1. PhaseOfLoop' /\ \A j \in Item : snap'[j] <= turnID'
      BY <2>41 DEF LoopInv, LoopTypeOK, PreemptTypeOK, PhaseOfLoop, PreemptNotified
    <3>2. WatcherOfTurn'
      BY <2>41 DEF LoopInv, LoopTypeOK, PreemptTypeOK, PhaseOfLoop, WatcherOfTurn,
           PreemptNotified
    <3>3. AcksInOnePlace'
      BY <2>41 DEF LoopInv, LoopTypeOK, PreemptTypeOK, WatcherOfTurn, AcksInOnePlace,
           PreemptNotified
    <3>4. PreemptIsTargeted'
      BY <2>41 DEF LoopInv, LoopTypeOK, PreemptTypeOK, PhaseOfLoop, WatcherOfTurn,
           AcksInOnePlace, PreemptIsTargeted, PendingIsCurrent, PreemptNotified
    <3>5. QED
      BY <3>0, <3>1, <3>2, <3>3, <3>4 DEF LoopInv
  <2>42. ASSUME NEW t \in Turn, TakePreempt(t) PROVE LoopInv'
    BY <2>42 DEF TakePreempt, LoopInv, LoopTypeOK, PreemptTypeOK, PhaseOfLoop, WatcherOfTurn,
           AcksInOnePlace, PreemptIsTargeted, PendingIsCurrent, CanReceive, ReceivePreempt
  <2>43. ASSUME NEW t \in Turn, PreemptAgent(t) PROVE LoopInv'
    BY <2>43 DEF PreemptAgent, LoopInv, LoopTypeOK, PreemptTypeOK, PhaseOfLoop, WatcherOfTurn,
           AcksInOnePlace, PreemptIsTargeted, PendingIsCurrent
  <2>44. ASSUME NEW t \in Turn, ClosePreemptDone(t) PROVE LoopInv'
    BY <2>44 DEF ClosePreemptDone, LoopInv, LoopTypeOK, PreemptTypeOK, PhaseOfLoop,
           WatcherOfTurn, AcksInOnePlace, PreemptIsTargeted, PendingIsCurrent
  <2>45. ASSUME NEW t \in Turn, Ack(t) PROVE LoopInv'
    BY <2>45 DEF Ack, LoopInv, LoopTypeOK, PreemptTypeOK, PhaseOfLoop, WatcherOfTurn,
           AcksInOnePlace, PreemptIsTargeted, PendingIsCurrent, AckHeld
  <2>46. ASSUME NEW t \in Turn, StopWatchEnds(t) PROVE LoopInv'
    <3>1. LoopTypeOK' /\ PhaseOfLoop' /\ UNCHANGED <<preemptVars, ppc, pw>>
      BY <2>46 DEF StopWatchEnds, LoopInv, LoopTypeOK, PreemptTypeOK, PhaseOfLoop
    <3>2. QED
      BY <2>46, <3>1, QuietStep DEF StopWatchEnds
  <2>47. ASSUME NEW t \in Turn, StopNotified(t) PROVE LoopInv'
    <3>1. LoopTypeOK' /\ PhaseOfLoop' /\ UNCHANGED <<preemptVars, ppc, pw>>
      BY <2>47 DEF StopNotified, LoopInv, LoopTypeOK, PreemptTypeOK, PhaseOfLoop
    <3>2. QED
      BY <2>47, <3>1, QuietStep DEF StopNotified
  <2>48. ASSUME NEW t \in Turn, TakeStop(t) PROVE LoopInv'
    <3>1. LoopTypeOK' /\ PhaseOfLoop' /\ UNCHANGED <<preemptVars, ppc, pw>>
      BY <2>48 DEF TakeStop, LoopInv, LoopTypeOK, PreemptTypeOK, PhaseOfLoop
    <3>2. QED
      BY <2>48, <3>1, QuietStep DEF TakeStop
  <2>49. ASSUME NEW t \in Turn, StopAgent(t) PROVE LoopInv'
    <3>1. LoopTypeOK' /\ PhaseOfLoop' /\ UNCHANGED <<preemptVars, ppc, pw>>
      BY <2>49 DEF StopAgent, LoopInv, LoopTypeOK, PreemptTypeOK, PhaseOfLoop
    <3>2. QED
      BY <2>49, <3>1, QuietStep DEF StopAgent
  <2>50. ASSUME NEW t \in Turn, CloseStoppedDone(t) PROVE LoopInv'
    <3>1. LoopTypeOK' /\ PhaseOfLoop' /\ UNCHANGED <<preemptVars, ppc, pw>>
      BY <2>50 DEF CloseStoppedDone, LoopInv, LoopTypeOK, PreemptTypeOK, PhaseOfLoop
    <3>2. QED
      BY <2>50, <3>1, QuietStep DEF CloseStoppedDone
  <2>51. CASE UNCHANGED vars
    BY <2>51 DEF vars, LoopInv, LoopTypeOK, PreemptTypeOK, PhaseOfLoop, WatcherOfTurn,
           AcksInOnePlace, PreemptIsTargeted, PendingIsCurrent
  <2>52. QED
    BY <2>1, <2>2, <2>3, <2>4, <2>5, <2>6, <2>7, <2>8, <2>9, <2>10, <2>11, <2>12, <2>13,
       <2>14, <2>15, <2>16, <2>17, <2>18, <2>19, <2>20, <2>21, <2>22, <2>23, <2>24, <2>25,
       <2>26, <2>27, <2>28, <2>29, <2>30, <2>31, <2>32, <2>33, <2>34, <2>35, <2>36, <2>37,
       <2>38, <2>39, <2>40, <2>41, <2>42, <2>43, <2>44, <2>45, <2>46, <2>47, <2>48, <2>49,
       <2>50, <2>51
       DEF Next, PushStep, DelayStep, StopStep, FinishStop, LoopStep, AgentStep,
           PreemptWatchStep, StopWatchStep
<1>3. QED
  BY <1>1, <1>2, PTL DEF Spec

(* No ack is lost or closed twice. *)
THEOREM AcksInOnePlaceAlways == Spec => []AcksInOnePlace
<1>1. LoopInv => AcksInOnePlace
  BY DEF LoopInv
<1>2. QED
  BY <1>1, LoopInvAlways, PTL

(* No preemption cancels a turn that began after its push. *)
THEOREM PreemptIsTargetedAlways == Spec => []PreemptIsTargeted
<1>1. LoopInv => PreemptIsTargeted
  BY DEF LoopInv
<1>2. QED
  BY <1>1, LoopInvAlways, PTL

-----------------------------------------------------------------------------
(* Concatenation is associative.                                           *)
LEMMA Assoc == \A P, Q, R \in Seq(Item) : (P \o Q) \o R = P \o (Q \o R)
  OBVIOUS

(* What the steps of the loop do to the sequence of all accepted items:    *)
(* A consumed or returned, H in hand, B in the buffer.                     *)
LEMMA TakeOrder ==
  ASSUME NEW A \in Seq(Item), NEW H \in Seq(Item), NEW B \in Seq(Item)
  PROVE  /\ (A \o H) \o B = (A \o <<>>) \o (H \o B)
         /\ (A \o H) \o B = (A \o (H \o B)) \o <<>>
  OBVIOUS

(* C is consumed and D is put back, of what was in hand. *)
LEMMA SplitOrder ==
  ASSUME turns \in Seq(Item), buf \in Seq(Item), NEW C \in Seq(Item), NEW D \in Seq(Item)
  PROVE  ((turns \o <<>>) \o (C \o D)) \o buf = (((turns \o C) \o <<>>) \o <<>>) \o (D \o buf)
<1>1. turns \o C \in Seq(Item)
  OBVIOUS
<1>2. turns \o <<>> = turns /\ ((turns \o C) \o <<>>) \o <<>> = turns \o C
  BY <1>1
<1>3. turns \o (C \o D) = (turns \o C) \o D
  BY Assoc, Zenon
<1>4. \A P \in Seq(Item) : (P \o D) \o buf = P \o (D \o buf)
  OBVIOUS
<1>5. ((turns \o C) \o D) \o buf = (turns \o C) \o (D \o buf)
  BY <1>1, <1>4, Zenon
<1>6. QED
  BY <1>2, <1>3, <1>5, Zenon

(* The first item of the buffer moves to the hand. *)
LEMMA ReceiveOrder ==
  ASSUME NEW A \in Seq(Item), NEW B \in Seq(Item), B # <<>>
  PROVE  /\ Head(B) \in Item /\ Tail(B) \in Seq(Item)
         /\ (A \o <<>>) \o B = (A \o <<Head(B)>>) \o Tail(B)
  OBVIOUS

(* An item is accepted. *)
LEMMA SendOrder ==
  ASSUME NEW A \in Seq(Item), NEW B \in Seq(Item), NEW i \in Item
  PROVE  Append(A \o B, i) = A \o Append(B, i)
  OBVIOUS

(* The inductive invariant for KeptInOrder: items are in hand between      *)
(* receiving and planning only, returned ones exist after the sweep only,  *)
(* and the loop waits for an idle timer only if an idle stop was asked for. *)
OrderTypeOK ==
    /\ buf \in Seq(Item) /\ sent \in Seq(Item) /\ hand \in Seq(Item)
    /\ turns \in Seq(Item) /\ unhandled \in Seq(Item)
    /\ stopped \in BOOLEAN

OrderInv ==
    /\ OrderTypeOK
    /\ hand # <<>> => lpc \in {"disarm", "got", "checked", "wait", "take", "planning"}
    /\ unhandled # <<>> => lpc \in {"shut", "done"}
    /\ stopPhase = "idle" \/ lpc \in {"arm", "idleReceive", "disarm"} => "idle" \in asked
    /\ KeptInOrder

(* What is left alone by most actions. *)
LEMMA OrderQuiet ==
  ASSUME OrderInv, UNCHANGED <<buf, sent, hand, turns, unhandled>>,
         stopped' \in BOOLEAN, stopped => stopped', asked \subseteq asked',
         hand # <<>> => lpc' \in {"disarm", "got", "checked", "wait", "take", "planning"},
         unhandled # <<>> => lpc' \in {"shut", "done"},
         stopPhase' = "idle" \/ lpc' \in {"arm", "idleReceive", "disarm"} => "idle" \in asked'
  PROVE  OrderInv'
  BY DEF OrderInv, OrderTypeOK, KeptInOrder

(* The loop gives back what it has in hand, and ends.                      *)
LEMMA PutBackKeepsOrder ==
  ASSUME OrderInv, PutBack, UNCHANGED <<sent, turns, unhandled, stopped, asked, stopPhase>>,
         unhandled = <<>>, lpc' = "exit"
  PROVE  OrderInv'
<1>1. buf' = hand \o buf /\ hand' = <<>>
  BY DEF PutBack
<1>2. turns \o unhandled \in Seq(Item) /\ buf' \in Seq(Item)
  BY <1>1 DEF OrderInv, OrderTypeOK
<1>3. hand \in Seq(Item) /\ buf \in Seq(Item)
  BY DEF OrderInv, OrderTypeOK
<1>4. ((turns \o unhandled) \o hand) \o buf = ((turns \o unhandled) \o <<>>) \o (hand \o buf)
  BY <1>2, <1>3, TakeOrder
<1>5. QED
  BY <1>1, <1>2, <1>4 DEF OrderInv, OrderTypeOK, KeptInOrder

(* The loop takes what is in the buffer into its hand.                     *)
LEMMA TakeAllKeepsOrder ==
  ASSUME OrderInv, hand' = hand \o buf, buf' = <<>>,
         UNCHANGED <<sent, turns, unhandled, stopped, asked>>
  PROVE  KeptInOrder'
<1>1. turns \o unhandled \in Seq(Item) /\ hand \in Seq(Item) /\ buf \in Seq(Item)
  BY DEF OrderInv, OrderTypeOK
<1>2. ((turns \o unhandled) \o hand) \o buf = ((turns \o unhandled) \o (hand \o buf)) \o <<>>
  BY <1>1, TakeOrder
<1>3. QED
  BY <1>2 DEF OrderInv, KeptInOrder

(* A plan splits what is in hand in two.                                   *)
LEMMA SplitHand ==
  ASSUME hand \in Seq(Item), NEW n \in 1..Len(hand)
  PROVE  /\ SubSeq(hand, 1, n) \in Seq(Item) /\ SubSeq(hand, n + 1, Len(hand)) \in Seq(Item)
         /\ hand = SubSeq(hand, 1, n) \o SubSeq(hand, n + 1, Len(hand))
  OBVIOUS

(* The turn consumes the first n items in hand, the others are put back.   *)
LEMMA PlannedKeepsOrder ==
  ASSUME OrderInv, unhandled = <<>>, NEW n \in 1..Len(hand),
         turns' = turns \o SubSeq(hand, 1, n),
         buf' = SubSeq(hand, n + 1, Len(hand)) \o buf, hand' = <<>>,
         UNCHANGED <<sent, unhandled, stopped, asked>>
  PROVE  KeptInOrder'
<1>1. turns \in Seq(Item) /\ hand \in Seq(Item) /\ buf \in Seq(Item)
  BY DEF OrderInv, OrderTypeOK
<1>2. PICK C \in Seq(Item), D \in Seq(Item) :
        C = SubSeq(hand, 1, n) /\ D = SubSeq(hand, n + 1, Len(hand)) /\ hand = C \o D
  BY <1>1, SplitHand
<1>3. /\ turns' = turns \o C /\ buf' = D \o buf /\ hand' = <<>>
      /\ unhandled = <<>> /\ unhandled' = <<>>
  BY <1>2
<1>4. ((turns \o <<>>) \o (C \o D)) \o buf = (((turns \o C) \o <<>>) \o <<>>) \o (D \o buf)
  BY <1>1, SplitOrder, Zenon
<1>5. ((turns \o unhandled) \o hand) \o buf = ((turns' \o unhandled') \o hand') \o buf'
  BY <1>2, <1>3, <1>4
<1>6. QED
  BY <1>5 DEF OrderInv, KeptInOrder

(* What was accepted is consumed, returned or still to come, in the order  *)
(* in which it was accepted, unless an idle stop ended the loop.           *)
THEOREM KeptInOrderAlways == Spec => []KeptInOrder
<1> USE LoopAssumption
    DEF preemptVars, requestVars, bufVars, pushVars, stopVars, loopVars, agentVars, watchVars,
        GotoLoop, Exit, GotoPush, OutsidePush, OutsideStop, OutsideLoop, OutsideWatch
<1>1. Init => OrderInv
  <2> SUFFICES ASSUME Init PROVE OrderInv
    OBVIOUS
  <2>1. /\ buf = <<>> /\ sent = <<>> /\ hand = <<>> /\ turns = <<>> /\ unhandled = <<>>
        /\ stopped = FALSE /\ stopPhase = "open" /\ lpc = "new"
    BY DEF Init
  <2>2. <<>> \in Seq(Item) /\ <<>> = ((<<>> \o <<>>) \o <<>>) \o <<>>
    OBVIOUS
  <2>3. QED
    BY <2>1, <2>2 DEF OrderInv, OrderTypeOK, KeptInOrder
<1>2. OrderInv /\ [Next]_vars => OrderInv'
  <2> SUFFICES ASSUME OrderInv, [Next]_vars
               PROVE  OrderInv'
    OBVIOUS
  <2>1. ASSUME NEW i \in Item, NEW k \in PushKinds, Push(i, k) PROVE OrderInv'
    BY <2>1, OrderQuiet DEF Push, OrderInv, OrderTypeOK
  <2>2. ASSUME NEW i \in Item, BeginPush(i) PROVE OrderInv'
    BY <2>2, OrderQuiet DEF BeginPush, OrderInv, OrderTypeOK
  <2>3. ASSUME NEW i \in Item, NEW k \in PushKinds, Decide(i, k) PROVE OrderInv'
    BY <2>3, OrderQuiet DEF Decide, OrderInv, OrderTypeOK
  <2>4. ASSUME NEW i \in Item, Send(i) PROVE OrderInv'
    <3>1. CASE closed
      BY <2>4, <3>1, OrderQuiet DEF Send, EndPush, OrderInv, OrderTypeOK
    <3>2. CASE ~closed
      <4>1. /\ buf' = Append(buf, i) /\ sent' = Append(sent, i)
            /\ UNCHANGED <<hand, turns, unhandled, stopped, asked, stopPhase, lpc>>
        BY <2>4, <3>2 DEF Send
      <4>2. buf' \in Seq(Item) /\ sent' \in Seq(Item)
        BY <4>1 DEF OrderInv, OrderTypeOK
      <4>3. ((turns \o unhandled) \o hand) \in Seq(Item)
        BY DEF OrderInv, OrderTypeOK
      <4>4. Append(((turns \o unhandled) \o hand) \o buf, i)
               = ((turns \o unhandled) \o hand) \o Append(buf, i)
        BY <4>3, SendOrder DEF OrderInv, OrderTypeOK
      <4>5. KeptInOrder'
        BY <4>1, <4>4 DEF OrderInv, KeptInOrder
      <4>6. QED
        BY <4>1, <4>2, <4>5 DEF OrderInv, OrderTypeOK
    <3>3. QED
      BY <3>1, <3>2
  <2>5. ASSUME NEW i \in Item, NEW k \in PushKinds, Request(i, k) PROVE OrderInv'
    BY <2>5, OrderQuiet DEF Request, OrderInv, OrderTypeOK
  <2>6. ASSUME NEW i \in Item, AppendLate(i) PROVE OrderInv'
    BY <2>6, OrderQuiet DEF AppendLate, OrderInv, OrderTypeOK
  <2>7. ASSUME NEW i \in Item, DelayOver(i) PROVE OrderInv'
    BY <2>7, OrderQuiet DEF DelayOver, OrderInv, OrderTypeOK
  <2>8. ASSUME NEW i \in Item, DelayMoot(i) PROVE OrderInv'
    BY <2>8, OrderQuiet DEF DelayMoot, OrderInv, OrderTypeOK
  <2>9. ASSUME TakeLateItems PROVE OrderInv'
    BY <2>9, OrderQuiet DEF TakeLateItems, OrderInv, OrderTypeOK
  <2>10. ASSUME StopIdle PROVE OrderInv'
    BY <2>10, OrderQuiet DEF StopIdle, OrderInv, OrderTypeOK
  <2>11. ASSUME StopTimesOut PROVE OrderInv'
    BY <2>11, OrderQuiet DEF StopTimesOut, Commit, OrderInv, OrderTypeOK
  <2>12. ASSUME CancelCtx PROVE OrderInv'
    BY <2>12, OrderQuiet DEF CancelCtx, OrderInv, OrderTypeOK
  <2>13. ASSUME Wakeup PROVE OrderInv'
    BY <2>13, OrderQuiet DEF Wakeup, OrderInv, OrderTypeOK
  <2>14. ASSUME StoreStopped PROVE OrderInv'
    BY <2>14, OrderQuiet DEF StoreStopped, OrderInv, OrderTypeOK
  <2>15. ASSUME CloseBuffer PROVE OrderInv'
    BY <2>15, OrderQuiet DEF CloseBuffer, OrderInv, OrderTypeOK
  <2>16. ASSUME TimerFires PROVE OrderInv'
    BY <2>16, OrderQuiet DEF TimerFires, OrderInv, OrderTypeOK
  <2>17. ASSUME TimerCommits PROVE OrderInv'
    BY <2>17, OrderQuiet DEF TimerCommits, Commit, OrderInv, OrderTypeOK
  <2>18. ASSUME CtxClosesBuffer PROVE OrderInv'
    BY <2>18, OrderQuiet DEF CtxClosesBuffer, OrderInv, OrderTypeOK
  <2>19. ASSUME NEW k \in StopKinds, Stop(k) PROVE OrderInv'
    BY <2>19, OrderQuiet DEF Stop, Commit, OrderInv, OrderTypeOK
  <2>20. ASSUME Run PROVE OrderInv'
    BY <2>20, OrderQuiet DEF Run, OrderInv, OrderTypeOK
  <2>21. ASSUME Top PROVE OrderInv'
    BY <2>21, OrderQuiet DEF Top, OrderInv, OrderTypeOK
  <2>22. ASSUME Choose PROVE OrderInv'
    BY <2>22, OrderQuiet DEF Choose, OrderInv, OrderTypeOK
  <2>23. ASSUME ArmTimer PROVE OrderInv'
    BY <2>23, OrderQuiet DEF ArmTimer, OrderInv, OrderTypeOK
  <2>24. ASSUME Receive PROVE OrderInv'
    <3>1. hand = <<>> /\ UNCHANGED <<sent, turns, unhandled, stopped, asked, stopPhase>>
      BY <2>24 DEF Receive, OrderInv
    <3>2. lpc' = "disarm" => lpc = "idleReceive"
      BY <2>24 DEF Receive
    <3>3. CASE buf = <<>>
      BY <2>24, <3>1, <3>3, OrderQuiet DEF Receive, OrderInv, OrderTypeOK
    <3>4. CASE buf # <<>>
      <4>1. hand' = <<Head(buf)>> /\ buf' = Tail(buf) /\ lpc' \in {"disarm", "got"}
        BY <2>24, <3>4 DEF Receive
      <4>2. turns \o unhandled \in Seq(Item)
        BY DEF OrderInv, OrderTypeOK
      <4>3. KeptInOrder'
        BY <3>1, <3>4, <4>1, <4>2, ReceiveOrder DEF OrderInv, OrderTypeOK, KeptInOrder
      <4>4. unhandled = <<>>
        BY <2>24 DEF Receive, OrderInv
      <4>5. hand' \in Seq(Item) /\ buf' \in Seq(Item)
        BY <3>4, <4>1, ReceiveOrder DEF OrderInv, OrderTypeOK
      <4>6. QED
        BY <3>1, <3>2, <4>1, <4>3, <4>4, <4>5 DEF OrderInv, OrderTypeOK
    <3>5. QED
      BY <3>3, <3>4
  <2>25. ASSUME Disarm PROVE OrderInv'
    <3>1. CASE hand' = hand
      BY <2>25, <3>1, OrderQuiet DEF Disarm, OrderInv, OrderTypeOK
    <3>2. CASE hand' # hand
      <4>1. hand' = <<>> /\ stopped /\ lpc' = "exit" /\ unhandled = <<>> /\ "idle" \in asked
        BY <2>25, <3>2 DEF Disarm, OrderInv
      <4>2. UNCHANGED <<buf, sent, turns, unhandled, stopped, asked, stopPhase>>
        BY <2>25 DEF Disarm
      <4>3. QED
        BY <4>1, <4>2 DEF OrderInv, OrderTypeOK, KeptInOrder
    <3>3. QED
      BY <3>1, <3>2
  <2>26. ASSUME Woke PROVE OrderInv'
    BY <2>26, OrderQuiet DEF Woke, OrderInv, OrderTypeOK
  <2>27. ASSUME GotFirst PROVE OrderInv'
    <3>1. CASE ctxDone
      BY <2>27, <3>1, PutBackKeepsOrder DEF GotFirst, OrderInv
    <3>2. CASE ~ctxDone
      BY <2>27, <3>2, OrderQuiet DEF GotFirst, OrderInv, OrderTypeOK
    <3>3. QED
      BY <3>1, <3>2
  <2>28. ASSUME CheckStop PROVE OrderInv'
    <3>1. CASE stopPhase = "committed"
      BY <2>28, <3>1, PutBackKeepsOrder DEF CheckStop, OrderInv
    <3>2. CASE stopPhase # "committed"
      BY <2>28, <3>2, OrderQuiet DEF CheckStop, OrderInv, OrderTypeOK
    <3>3. QED
      BY <3>1, <3>2
  <2>29. ASSUME PushesEnded PROVE OrderInv'
    BY <2>29, OrderQuiet DEF PushesEnded, OrderInv, OrderTypeOK
  <2>30. ASSUME Cleanup PROVE OrderInv'
    BY <2>30, OrderQuiet DEF Cleanup, OrderInv, OrderTypeOK
  <2>31. ASSUME Sweep PROVE OrderInv'
    <3>1. /\ unhandled' = buf /\ buf' = <<>> /\ hand = <<>> /\ unhandled = <<>>
          /\ lpc' = "shut" /\ UNCHANGED <<sent, hand, turns, stopped, asked, stopPhase>>
      BY <2>31 DEF Sweep, OrderInv
    <3>2. ((turns \o unhandled) \o hand) \o buf = ((turns' \o unhandled') \o hand') \o buf'
      BY <3>1 DEF OrderInv, OrderTypeOK
    <3>3. QED
      BY <3>1, <3>2 DEF OrderInv, OrderTypeOK, KeptInOrder
  <2>32. ASSUME NEW n \in 1..Len(hand), Planned(n) PROVE OrderInv'
    <3>1. /\ turns' = turns \o SubSeq(hand, 1, n)
          /\ buf' = SubSeq(hand, n + 1, Len(hand)) \o buf /\ hand' = <<>> /\ lpc' = "begin"
          /\ UNCHANGED <<sent, unhandled, stopped, asked, stopPhase>> /\ unhandled = <<>>
      BY <2>32 DEF Planned, OrderInv
    <3>2. SubSeq(hand, 1, n) \in Seq(Item) /\ SubSeq(hand, n + 1, Len(hand)) \in Seq(Item)
      BY SplitHand DEF OrderInv, OrderTypeOK
    <3>3. turns' \in Seq(Item) /\ buf' \in Seq(Item)
      BY <3>1, <3>2 DEF OrderInv, OrderTypeOK
    <3>4. KeptInOrder'
      BY <3>1, PlannedKeepsOrder
    <3>5. QED
      BY <3>1, <3>3, <3>4 DEF OrderInv, OrderTypeOK
  <2>33. ASSUME TakeAll PROVE OrderInv'
    <3>1. /\ hand' = hand \o buf /\ buf' = <<>> /\ lpc' = "planning"
          /\ UNCHANGED <<sent, turns, unhandled, stopped, asked, stopPhase>>
      BY <2>33 DEF TakeAll
    <3>2. hand' \in Seq(Item) /\ unhandled = <<>>
      BY <2>33, <3>1 DEF TakeAll, OrderInv, OrderTypeOK
    <3>3. KeptInOrder'
      BY <3>1, TakeAllKeepsOrder
    <3>4. QED
      BY <3>1, <3>2, <3>3 DEF OrderInv, OrderTypeOK
  <2>34. ASSUME AbortTurn PROVE OrderInv'
    BY <2>34, PutBackKeepsOrder DEF AbortTurn, OrderInv
  <2>35. ASSUME BeginTurn PROVE OrderInv'
    BY <2>35, OrderQuiet DEF BeginTurn, OrderInv, OrderTypeOK
  <2>36. ASSUME StartAgent PROVE OrderInv'
    BY <2>36, OrderQuiet DEF StartAgent, OrderInv, OrderTypeOK
  <2>37. ASSUME TurnOver PROVE OrderInv'
    BY <2>37, OrderQuiet DEF TurnOver, OrderInv, OrderTypeOK
  <2>38. ASSUME CloseDown PROVE OrderInv'
    BY <2>38, OrderQuiet DEF CloseDown, OrderInv, OrderTypeOK
  <2>39. ASSUME NEW o \in {"ok", "error", "interrupt", "cancel"}, AgentEnds(o) PROVE OrderInv'
    BY <2>39, OrderQuiet DEF AgentEnds, OrderInv, OrderTypeOK
  <2>40. ASSUME NEW t \in Turn, PreemptWatchEnds(t) PROVE OrderInv'
    BY <2>40, OrderQuiet DEF PreemptWatchEnds, OrderInv, OrderTypeOK
  <2>41. ASSUME NEW t \in Turn, PreemptNotified(t) PROVE OrderInv'
    BY <2>41, OrderQuiet DEF PreemptNotified, OrderInv, OrderTypeOK
  <2>42. ASSUME NEW t \in Turn, TakePreempt(t) PROVE OrderInv'
    BY <2>42, OrderQuiet DEF TakePreempt, OrderInv, OrderTypeOK
  <2>43. ASSUME NEW t \in Turn, PreemptAgent(t) PROVE OrderInv'
    BY <2>43, OrderQuiet DEF PreemptAgent, OrderInv, OrderTypeOK
  <2>44. ASSUME NEW t \in Turn, ClosePreemptDone(t) PROVE OrderInv'
    BY <2>44, OrderQuiet DEF ClosePreemptDone, OrderInv, OrderTypeOK
  <2>45. ASSUME NEW t \in Turn, Ack(t) PROVE OrderInv'
    BY <2>45, OrderQuiet DEF Ack, OrderInv, OrderTypeOK
  <2>46. ASSUME NEW t \in Turn, StopWatchEnds(t) PROVE OrderInv'
    BY <2>46, OrderQuiet DEF StopWatchEnds, OrderInv, OrderTypeOK
  <2>47. ASSUME NEW t \in Turn, StopNotified(t) PROVE OrderInv'
    BY <2>47, OrderQuiet DEF StopNotified, OrderInv, OrderTypeOK
  <2>48. ASSUME NEW t \in Turn, TakeStop(t) PROVE OrderInv'
    BY <2>48, OrderQuiet DEF TakeStop, OrderInv, OrderTypeOK
  <2>49. ASSUME NEW t \in Turn, StopAgent(t) PROVE OrderInv'
    BY <2>49, OrderQuiet DEF StopAgent, OrderInv, OrderTypeOK
  <2>50. ASSUME NEW t \in Turn, CloseStoppedDone(t) PROVE OrderInv'
    BY <2>50, OrderQuiet DEF CloseStoppedDone, OrderInv, OrderTypeOK
  <2>51. CASE UNCHANGED vars
    BY <2>51, OrderQuiet DEF vars, OrderInv, OrderTypeOK
  <2>52. QED
    BY <2>1, <2>2, <2>3, <2>4, <2>5, <2>6, <2>7, <2>8, <2>9, <2>10, <2>11, <2>12, <2>13,
       <2>14, <2>15, <2>16, <2>17, <2>18, <2>19, <2>20, <2>21, <2>22, <2>23, <2>24, <2>25,
       <2>26, <2>27, <2>28, <2>29, <2>30, <2>31, <2>32, <2>33, <2>34, <2>35, <2>36, <2>37,
       <2>38, <2>39, <2>40, <2>41, <2>42, <2>43, <2>44, <2>45, <2>46, <2>47, <2>48, <2>49,
       <2>50, <2>51
       DEF Next, PushStep, DelayStep, StopStep, FinishStop, LoopStep, AgentStep,
           PreemptWatchStep, StopWatchStep
<1>3. OrderInv => KeptInOrder
  BY DEF OrderInv
<1>4. QED
  BY <1>1, <1>2, <1>3, PTL DEF Spec
-----------------------------------------------------------------------------
(* Why the loop ends.  A commit comes before the flag and before the       *)
(* closed buffer, a wakeup comes from a stop, and both stay; so whatever   *)
(* makes the loop leave without an error was left behind by a stop.        *)
Committed == stopPhase = "committed"

CauseInv ==
    /\ EndHasCause /\ stopPhase \in {"open", "idle", "committed"}
    /\ finishing # "no" => Committed
    /\ stopped => Committed \/ lpc \in {"sweep", "shut", "done"}
    /\ closed => Committed \/ ctxDone \/ lpc = "done"
    /\ waking \/ woken => stopPhase # "open"
    /\ lpc = "woke" => closed \/ stopPhase # "open"
    /\ lpc = "active" => agent # "none"

(* Whatever leaves the loop, the stops and the buffer's flags alone keeps  *)
(* the invariant, unless it makes the agent vanish.                        *)
LEMMA CauseQuiet ==
  ASSUME CauseInv, UNCHANGED <<lpc, reason, stopPhase, finishing, stopped, closed, ctxDone,
                               waking, woken>>,
         agent # "none" => agent' # "none"
  PROVE  CauseInv'
  BY DEF CauseInv, EndHasCause, Committed

(* A step of the loop that neither ends it nor touches the stops.          *)
LEMMA CauseGoesOn ==
  ASSUME CauseInv, UNCHANGED <<reason, stopPhase, finishing, stopped, closed, ctxDone, waking>>,
         lpc \notin {"exit", "sweep", "shut", "done"},
         lpc' \notin {"exit", "sweep", "shut", "done", "woke", "active"},
         woken' => woken
  PROVE  CauseInv'
  BY DEF CauseInv, EndHasCause, Committed

(* Nor does a commit: nothing leaves "committed".                          *)
LEMMA CauseCommit ==
  ASSUME CauseInv, Commit, UNCHANGED <<lpc, reason, stopped, closed, ctxDone, waking, woken, agent>>
  PROVE  CauseInv'
  BY DEF CauseInv, EndHasCause, Committed, Commit

(* A loop that ends without an error was stopped: no wakeup, no closed     *)
(* buffer and no flag that is left over ends it.                           *)
THEOREM EndHasCauseAlways == Spec => []EndHasCause
<1> USE DEF preemptVars, requestVars, bufVars, pushVars, stopVars, loopVars, agentVars, watchVars,
            GotoLoop, Exit, GotoPush, OutsidePush, OutsideStop, OutsideLoop, OutsideWatch
<1>1. Init => CauseInv
  BY DEF Init, CauseInv, EndHasCause, Committed
<1>2. CauseInv /\ [Next]_vars => CauseInv'
  <2> SUFFICES ASSUME CauseInv, [Next]_vars
               PROVE  CauseInv'
    OBVIOUS
  <2>1. ASSUME NEW i \in Item, NEW k \in PushKinds, Push(i, k) PROVE CauseInv'
    BY <2>1, CauseQuiet DEF Push
  <2>2. ASSUME NEW i \in Item, BeginPush(i) PROVE CauseInv'
    BY <2>2, CauseQuiet DEF BeginPush
  <2>3. ASSUME NEW i \in Item, NEW k \in PushKinds, Decide(i, k) PROVE CauseInv'
    BY <2>3, CauseQuiet DEF Decide
  <2>4. ASSUME NEW i \in Item, Send(i) PROVE CauseInv'
    BY <2>4, CauseQuiet DEF Send
  <2>5. ASSUME NEW i \in Item, NEW k \in PushKinds, Request(i, k) PROVE CauseInv'
    BY <2>5, CauseQuiet DEF Request
  <2>6. ASSUME NEW i \in Item, AppendLate(i) PROVE CauseInv'
    BY <2>6, CauseQuiet DEF AppendLate
  <2>7. ASSUME NEW i \in Item, DelayOver(i) PROVE CauseInv'
    BY <2>7, CauseQuiet DEF DelayOver
  <2>8. ASSUME NEW i \in Item, DelayMoot(i) PROVE CauseInv'
    BY <2>8, CauseQuiet DEF DelayMoot
  <2>9. ASSUME TakeLateItems PROVE CauseInv'
    BY <2>9, CauseQuiet DEF TakeLateItems
  <2>10. ASSUME StopIdle PROVE CauseInv'
    BY <2>10 DEF StopIdle, CauseInv, EndHasCause, Committed
  <2>11. ASSUME StopTimesOut PROVE CauseInv'
    BY <2>11, CauseCommit DEF StopTimesOut
  <2>12. ASSUME CancelCtx PROVE CauseInv'
    BY <2>12 DEF CancelCtx, CauseInv, EndHasCause, Committed
  <2>13. ASSUME Wakeup PROVE CauseInv'
    BY <2>13 DEF Wakeup, CauseInv, EndHasCause, Committed
  <2>14. ASSUME StoreStopped PROVE CauseInv'
    BY <2>14 DEF StoreStopped, CauseInv, EndHasCause, Committed
  <2>15. ASSUME CloseBuffer PROVE CauseInv'
    BY <2>15 DEF CloseBuffer, CauseInv, EndHasCause, Committed
  <2>16. ASSUME TimerFires PROVE CauseInv'
    BY <2>16, CauseQuiet DEF TimerFires
  <2>17. ASSUME TimerCommits PROVE CauseInv'
    BY <2>17, CauseCommit, CauseQuiet DEF TimerCommits
  <2>18. ASSUME CtxClosesBuffer PROVE CauseInv'
    BY <2>18 DEF CtxClosesBuffer, CauseInv, EndHasCause, Committed
  <2>19. ASSUME NEW k \in StopKinds, Stop(k) PROVE CauseInv'
    BY <2>19, CauseCommit DEF Stop
  <2>20. ASSUME Run PROVE CauseInv'
    BY <2>20, CauseGoesOn DEF Run
  <2>21. ASSUME Top PROVE CauseInv'
    BY <2>21 DEF Top, CauseInv, EndHasCause, Committed
  <2>22. ASSUME Choose PROVE CauseInv'
    BY <2>22, CauseGoesOn DEF Choose
  <2>23. ASSUME ArmTimer PROVE CauseInv'
    BY <2>23, CauseGoesOn DEF ArmTimer
  <2>24. ASSUME Receive PROVE CauseInv'
    BY <2>24 DEF Receive, CauseInv, EndHasCause, Committed
  <2>25. ASSUME Disarm PROVE CauseInv'
    BY <2>25 DEF Disarm, CauseInv, EndHasCause, Committed
  <2>26. ASSUME Woke PROVE CauseInv'
    BY <2>26 DEF Woke, CauseInv, EndHasCause, Committed
  <2>27. ASSUME GotFirst PROVE CauseInv'
    BY <2>27 DEF GotFirst, CauseInv, EndHasCause, Committed
  <2>28. ASSUME CheckStop PROVE CauseInv'
    BY <2>28 DEF CheckStop, CauseInv, EndHasCause, Committed
  <2>29. ASSUME PushesEnded PROVE CauseInv'
    BY <2>29, CauseGoesOn DEF PushesEnded
  <2>30. ASSUME Cleanup PROVE CauseInv'
    BY <2>30 DEF Cleanup, CauseInv, EndHasCause, Committed
  <2>31. ASSUME Sweep PROVE CauseInv'
    BY <2>31 DEF Sweep, CauseInv, EndHasCause, Committed
  <2>32. ASSUME NEW n \in 1..Len(hand), Planned(n) PROVE CauseInv'
    BY <2>32, CauseGoesOn DEF Planned
  <2>33. ASSUME TakeAll PROVE CauseInv'
    BY <2>33, CauseGoesOn DEF TakeAll
  <2>34. ASSUME AbortTurn PROVE CauseInv'
    BY <2>34 DEF AbortTurn, CauseInv, EndHasCause, Committed
  <2>35. ASSUME BeginTurn PROVE CauseInv'
    BY <2>35, CauseGoesOn DEF BeginTurn
  <2>36. ASSUME StartAgent PROVE CauseInv'
    BY <2>36 DEF StartAgent, CauseInv, EndHasCause, Committed
  <2>37. ASSUME TurnOver PROVE CauseInv'
    BY <2>37 DEF TurnOver, CauseInv, EndHasCause, Committed
  <2>38. ASSUME CloseDown PROVE CauseInv'
    BY <2>38 DEF CloseDown, CauseInv, EndHasCause, Committed
  <2>39. ASSUME NEW o \in {"ok", "error", "interrupt", "cancel"}, AgentEnds(o) PROVE CauseInv'
    BY <2>39, CauseQuiet DEF AgentEnds
  <2>40. ASSUME NEW t \in Turn, PreemptWatchEnds(t) PROVE CauseInv'
    BY <2>40, CauseQuiet DEF PreemptWatchEnds
  <2>41. ASSUME NEW t \in Turn, PreemptNotified(t) PROVE CauseInv'
    BY <2>41, CauseQuiet DEF PreemptNotified
  <2>42. ASSUME NEW t \in Turn, TakePreempt(t) PROVE CauseInv'
    BY <2>42, CauseQuiet DEF TakePreempt
  <2>43. ASSUME NEW t \in Turn, PreemptAgent(t) PROVE CauseInv'
    BY <2>43, CauseQuiet DEF PreemptAgent
  <2>44. ASSUME NEW t \in Turn, ClosePreemptDone(t) PROVE CauseInv'
    BY <2>44, CauseQuiet DEF ClosePreemptDone
  <2>45. ASSUME NEW t \in Turn, Ack(t) PROVE CauseInv'
    BY <2>45, CauseQuiet DEF Ack
  <2>46. ASSUME NEW t \in Turn, StopWatchEnds(t) PROVE CauseInv'
    BY <2>46, CauseQuiet DEF StopWatchEnds
  <2>47. ASSUME NEW t \in Turn, StopNotified(t) PROVE CauseInv'
    BY <2>47, CauseQuiet DEF StopNotified
  <2>48. ASSUME NEW t \in Turn, TakeStop(t) PROVE CauseInv'
    BY <2>48, CauseQuiet DEF TakeStop
  <2>49. ASSUME NEW t \in Turn, StopAgent(t) PROVE CauseInv'
    BY <2>49, CauseQuiet DEF StopAgent
  <2>50. ASSUME NEW t \in Turn, CloseStoppedDone(t) PROVE CauseInv'
    BY <2>50, CauseQuiet DEF CloseStoppedDone
  <2>51. CASE UNCHANGED vars
    BY <2>51, CauseQuiet DEF vars
  <2>52. QED
    BY <2>1, <2>2, <2>3, <2>4, <2>5, <2>6, <2>7, <2>8, <2>9, <2>10, <2>11, <2>12, <2>13,
       <2>14, <2>15, <2>16, <2>17, <2>18, <2>19, <2>20, <2>21, <2>22, <2>23, <2>24, <2>25,
       <2>26, <2>27, <2>28, <2>29, <2>30, <2>31, <2>32, <2>33, <2>34, <2>35, <2>36, <2>37,
       <2>38, <2>39, <2>40, <2>41, <2>42, <2>43, <2>44, <2>45, <2>46, <2>47, <2>48, <2>49,
       <2>50, <2>51
       DEF Next, PushStep, DelayStep, StopStep, FinishStop, LoopStep, AgentStep,
           PreemptWatchStep, StopWatchStep
<1>3. CauseInv => EndHasCause
  BY DEF CauseInv
<1>4. QED
  BY <1>1, <1>2, <1>3, PTL DEF Spec
=============================================================================
