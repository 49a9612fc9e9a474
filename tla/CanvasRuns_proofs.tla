-------------------------- MODULE CanvasRuns_proofs --------------------------
(***************************************************************************)
(* What the runs of a canvas keep of each other, for any number of runs,   *)
(* canvases and sessions.                                                  *)
(***************************************************************************)
EXTENDS CanvasRuns, TLAPS

LEMMA CanvasOfKey == \A k \in Key : CanvasOf(k) \in Canvas
  BY DEF Key, CanvasOf

(* The types of the state of Runner and RunFunc are kept.                   *)
LEMMA TypeOKStep ==
  ASSUME CanvasInv, [Next]_vars
  PROVE  TypeOK'
<1> USE RunAssumption
<1>1. ASSUME NEW r \in Run, NEW k \in Key, RunAgent(r, k) PROVE TypeOK'
  BY <1>1, CanvasOfKey DEF CanvasInv, TypeOK, RunAgent, Supersede, stored, worker
<1>2. ASSUME NEW r \in Run, Invoke(r) PROVE TypeOK'
  BY <1>2 DEF CanvasInv, TypeOK, Registered, Invoke, TakeInterruptID, stored
<1>3. ASSUME NEW r \in Run, Cancelled(r) PROVE TypeOK'
  BY <1>3 DEF CanvasInv, TypeOK, Cancelled, registry, stored, worker
<1>4. ASSUME NEW r \in Run, Returned(r) PROVE TypeOK'
  BY <1>4 DEF CanvasInv, TypeOK, Returned, stored, worker
<1>5. ASSUME NEW r \in Run, Close(r) PROVE TypeOK'
  BY <1>5 DEF CanvasInv, TypeOK, Close, Forget, stored, worker
<1>6. ASSUME NEW r \in Run, Placeholder(r) PROVE TypeOK'
  BY <1>6 DEF CanvasInv, TypeOK, Placeholder, Returns, Goto, registry, stored, runner
<1>7. ASSUME NEW r \in Run, Start(r) PROVE TypeOK'
  BY <1>7 DEF CanvasInv, TypeOK, Start, Mark, Goto, registry, runner
<1>8. ASSUME NEW r \in Run, Fails(r) PROVE TypeOK'
  BY <1>8 DEF CanvasInv, TypeOK, Fails, Mark, Returns, Goto, registry, runner
<1>9. ASSUME NEW r \in Run, Aborts(r) PROVE TypeOK'
  BY <1>9 DEF CanvasInv, TypeOK, Aborts, Returns, Goto, registry, stored, runner
<1>10. ASSUME NEW r \in Run, Interrupts(r) PROVE TypeOK'
  <2>1. wpc' \in [Run -> {"none", "begin", "invoke", "load", "save", "finish", "ended"}]
    BY <1>10 DEF CanvasInv, TypeOK, Interrupts, Goto
  <2>2. status' \in [Key -> {"none", "running", "succeeded", "failed"}]
    BY <1>10 DEF CanvasInv, TypeOK, Interrupts, Mark
  <2>3. QED
    BY <1>10, <2>1, <2>2 DEF CanvasInv, TypeOK, Interrupts, registry, runner
<1>11. ASSUME NEW r \in Run, Completes(r) PROVE TypeOK'
  BY <1>11 DEF CanvasInv, TypeOK, Completes, Goto, registry, stored, runner
<1>12. ASSUME NEW r \in Run, LoadSession(r) PROVE TypeOK'
  BY <1>12 DEF CanvasInv, TypeOK, Registered, LoadSession, Goto, registry, stored, runner
<1>13. ASSUME NEW r \in Run, SaveSession(r) PROVE TypeOK'
  BY <1>13 DEF CanvasInv, TypeOK, SaveSession, Goto, registry, runner
<1>14. ASSUME NEW r \in Run, Finish(r) PROVE TypeOK'
  BY <1>14 DEF CanvasInv, TypeOK, Finish, Mark, Goto, registry, runner
<1>15. ASSUME NEW r \in Run, RequestEnds(r) PROVE TypeOK'
  BY <1>15 DEF CanvasInv, TypeOK, RequestEnds, registry, stored, runner, worker
<1>16. CASE UNCHANGED vars
  BY <1>16 DEF CanvasInv, TypeOK, vars, registry, stored, runner, worker
<1>17. QED
  BY <1>1, <1>2, <1>3, <1>4, <1>5, <1>6, <1>7, <1>8, <1>9, <1>10, <1>11, <1>12, <1>13, <1>14,
     <1>15, <1>16 DEF Next, RunnerStep, WorkerStep

(* A run replaces the registered one and closes its channel: the run that   *)
(* is not told to stop is the registered one.                               *)
LEMMA RegisteredStep ==
  ASSUME CanvasInv, [Next]_vars
  PROVE  Registered'
<1> USE RunAssumption
<1>1. ASSUME NEW r \in Run, NEW k \in Key, RunAgent(r, k) PROVE Registered'
  BY <1>1, CanvasOfKey DEF CanvasInv, Registered, TypeOK, Live, RunAgent, Supersede, stored,
     worker
<1>2. ASSUME NEW r \in Run, Invoke(r) PROVE Registered'
  BY <1>2 DEF CanvasInv, Registered, TypeOK, Live, Invoke, TakeInterruptID, stored
<1>3. ASSUME NEW r \in Run, Cancelled(r) PROVE Registered'
  BY <1>3 DEF CanvasInv, Registered, TypeOK, Live, Cancelled, registry, stored, worker
<1>4. ASSUME NEW r \in Run, Returned(r) PROVE Registered'
  BY <1>4 DEF CanvasInv, Registered, TypeOK, Live, Returned, stored, worker
<1>5. ASSUME NEW r \in Run, Close(r) PROVE Registered'
  BY <1>5, CanvasOfKey DEF CanvasInv, Registered, TypeOK, Live, Close, Forget, stored, worker
<1>6. ASSUME NEW r \in Run, Placeholder(r) PROVE Registered'
  BY <1>6 DEF CanvasInv, Registered, TypeOK, Live, Placeholder, Returns, Goto, registry, stored,
     runner
<1>7. ASSUME NEW r \in Run, Start(r) PROVE Registered'
  BY <1>7 DEF CanvasInv, Registered, TypeOK, Live, Start, Mark, Goto, registry, runner
<1>8. ASSUME NEW r \in Run, Fails(r) PROVE Registered'
  BY <1>8 DEF CanvasInv, Registered, TypeOK, Live, Fails, Mark, Returns, Goto, registry, runner
<1>9. ASSUME NEW r \in Run, Aborts(r) PROVE Registered'
  BY <1>9 DEF CanvasInv, Registered, TypeOK, Live, Aborts, Returns, Goto, registry, stored,
     runner
<1>10. ASSUME NEW r \in Run, Interrupts(r) PROVE Registered'
  BY <1>10 DEF CanvasInv, Registered, TypeOK, Live, Interrupts, Mark, Goto, registry, runner
<1>11. ASSUME NEW r \in Run, Completes(r) PROVE Registered'
  BY <1>11 DEF CanvasInv, Registered, TypeOK, Live, Completes, Goto, registry, stored, runner
<1>12. ASSUME NEW r \in Run, LoadSession(r) PROVE Registered'
  BY <1>12 DEF CanvasInv, Registered, TypeOK, Live, LoadSession, Goto, registry, stored, runner
<1>13. ASSUME NEW r \in Run, SaveSession(r) PROVE Registered'
  BY <1>13 DEF CanvasInv, Registered, TypeOK, Live, SaveSession, Goto, registry, runner
<1>14. ASSUME NEW r \in Run, Finish(r) PROVE Registered'
  BY <1>14 DEF CanvasInv, Registered, TypeOK, Live, Finish, Mark, Goto, registry, runner
<1>15. ASSUME NEW r \in Run, RequestEnds(r) PROVE Registered'
  BY <1>15 DEF CanvasInv, Registered, TypeOK, Live, RequestEnds, registry, stored, runner,
     worker
<1>16. CASE UNCHANGED vars
  BY <1>16 DEF CanvasInv, Registered, TypeOK, Live, vars, registry, stored, runner, worker
<1>17. QED
  BY <1>1, <1>2, <1>3, <1>4, <1>5, <1>6, <1>7, <1>8, <1>9, <1>10, <1>11, <1>12, <1>13, <1>14,
     <1>15, <1>16 DEF Next, RunnerStep, WorkerStep

(* getInterruptID takes the id that it reads, and a run saves its own once. *)
LEMMA IdsKeptStep ==
  ASSUME CanvasInv, [Next]_vars
  PROVE  IdsKept'
<1> USE RunAssumption
<1>1. ASSUME NEW r \in Run, NEW k \in Key, RunAgent(r, k) PROVE IdsKept'
  BY <1>1, CanvasOfKey DEF CanvasInv, IdsKept, Registered, TypeOK, ResumedOnce, RunAgent,
     Supersede, stored, worker
<1>2. ASSUME NEW r \in Run, Invoke(r) PROVE IdsKept'
  BY <1>2 DEF CanvasInv, IdsKept, Registered, TypeOK, ResumedOnce, Invoke, TakeInterruptID,
     stored
<1>3. ASSUME NEW r \in Run, Cancelled(r) PROVE IdsKept'
  BY <1>3 DEF CanvasInv, IdsKept, Registered, TypeOK, ResumedOnce, Cancelled, registry, stored,
     worker
<1>4. ASSUME NEW r \in Run, Returned(r) PROVE IdsKept'
  BY <1>4 DEF CanvasInv, IdsKept, Registered, TypeOK, ResumedOnce, Returned, stored, worker
<1>5. ASSUME NEW r \in Run, Close(r) PROVE IdsKept'
  BY <1>5 DEF CanvasInv, IdsKept, Registered, TypeOK, ResumedOnce, Close, Forget, stored, worker
<1>6. ASSUME NEW r \in Run, Placeholder(r) PROVE IdsKept'
  BY <1>6 DEF CanvasInv, IdsKept, Registered, TypeOK, ResumedOnce, Placeholder, Returns, Goto,
     registry, stored, runner
<1>7. ASSUME NEW r \in Run, Start(r) PROVE IdsKept'
  BY <1>7 DEF CanvasInv, IdsKept, Registered, TypeOK, ResumedOnce, Start, Mark, Goto, registry,
     runner
<1>8. ASSUME NEW r \in Run, Fails(r) PROVE IdsKept'
  BY <1>8 DEF CanvasInv, IdsKept, Registered, TypeOK, ResumedOnce, Fails, Mark, Returns, Goto,
     registry, runner
<1>9. ASSUME NEW r \in Run, Aborts(r) PROVE IdsKept'
  BY <1>9 DEF CanvasInv, IdsKept, Registered, TypeOK, ResumedOnce, Aborts, Returns, Goto,
     registry, stored, runner
<1>10. ASSUME NEW r \in Run, Interrupts(r) PROVE IdsKept'
  BY <1>10 DEF CanvasInv, IdsKept, Registered, TypeOK, ResumedOnce, Interrupts, Mark, Goto,
     registry, runner
<1>11. ASSUME NEW r \in Run, Completes(r) PROVE IdsKept'
  BY <1>11 DEF CanvasInv, IdsKept, Registered, TypeOK, ResumedOnce, Completes, Goto, registry,
     stored, runner
<1>12. ASSUME NEW r \in Run, LoadSession(r) PROVE IdsKept'
  BY <1>12 DEF CanvasInv, IdsKept, Registered, TypeOK, ResumedOnce, LoadSession, Goto, registry,
     stored, runner
<1>13. ASSUME NEW r \in Run, SaveSession(r) PROVE IdsKept'
  BY <1>13 DEF CanvasInv, IdsKept, Registered, TypeOK, ResumedOnce, SaveSession, Goto, registry,
     runner
<1>14. ASSUME NEW r \in Run, Finish(r) PROVE IdsKept'
  BY <1>14 DEF CanvasInv, IdsKept, Registered, TypeOK, ResumedOnce, Finish, Mark, Goto,
     registry, runner
<1>15. ASSUME NEW r \in Run, RequestEnds(r) PROVE IdsKept'
  BY <1>15 DEF CanvasInv, IdsKept, Registered, TypeOK, ResumedOnce, RequestEnds, registry,
     stored, runner, worker
<1>16. CASE UNCHANGED vars
  BY <1>16 DEF CanvasInv, IdsKept, Registered, TypeOK, ResumedOnce, vars, registry, stored,
     runner, worker
<1>17. QED
  BY <1>1, <1>2, <1>3, <1>4, <1>5, <1>6, <1>7, <1>8, <1>9, <1>10, <1>11, <1>12, <1>13, <1>14,
     <1>15, <1>16 DEF Next, RunnerStep, WorkerStep

(* ... so that no second run resumes with it.                               *)
LEMMA ResumedOnceStep ==
  ASSUME CanvasInv, [Next]_vars
  PROVE  ResumedOnce'
<1> USE RunAssumption
<1>1. ASSUME NEW r \in Run, NEW k \in Key, RunAgent(r, k) PROVE ResumedOnce'
  BY <1>1, CanvasOfKey DEF CanvasInv, ResumedOnce, IdsKept, TypeOK, Registered, RunAgent,
     Supersede, stored, worker
<1>2. ASSUME NEW r \in Run, Invoke(r) PROVE ResumedOnce'
  BY <1>2 DEF CanvasInv, ResumedOnce, IdsKept, TypeOK, Registered, Invoke, TakeInterruptID,
     stored
<1>3. ASSUME NEW r \in Run, Cancelled(r) PROVE ResumedOnce'
  BY <1>3 DEF CanvasInv, ResumedOnce, IdsKept, TypeOK, Registered, Cancelled, registry, stored,
     worker
<1>4. ASSUME NEW r \in Run, Returned(r) PROVE ResumedOnce'
  BY <1>4 DEF CanvasInv, ResumedOnce, IdsKept, TypeOK, Registered, Returned, stored, worker
<1>5. ASSUME NEW r \in Run, Close(r) PROVE ResumedOnce'
  BY <1>5 DEF CanvasInv, ResumedOnce, IdsKept, TypeOK, Registered, Close, Forget, stored, worker
<1>6. ASSUME NEW r \in Run, Placeholder(r) PROVE ResumedOnce'
  BY <1>6 DEF CanvasInv, ResumedOnce, IdsKept, TypeOK, Registered, Placeholder, Returns, Goto,
     registry, stored, runner
<1>7. ASSUME NEW r \in Run, Start(r) PROVE ResumedOnce'
  BY <1>7 DEF CanvasInv, ResumedOnce, IdsKept, TypeOK, Registered, Start, Mark, Goto, registry,
     runner
<1>8. ASSUME NEW r \in Run, Fails(r) PROVE ResumedOnce'
  BY <1>8 DEF CanvasInv, ResumedOnce, IdsKept, TypeOK, Registered, Fails, Mark, Returns, Goto,
     registry, runner
<1>9. ASSUME NEW r \in Run, Aborts(r) PROVE ResumedOnce'
  BY <1>9 DEF CanvasInv, ResumedOnce, IdsKept, TypeOK, Registered, Aborts, Returns, Goto,
     registry, stored, runner
<1>10. ASSUME NEW r \in Run, Interrupts(r) PROVE ResumedOnce'
  BY <1>10 DEF CanvasInv, ResumedOnce, IdsKept, TypeOK, Registered, Interrupts, Mark, Goto,
     registry, runner
<1>11. ASSUME NEW r \in Run, Completes(r) PROVE ResumedOnce'
  BY <1>11 DEF CanvasInv, ResumedOnce, IdsKept, TypeOK, Registered, Completes, Goto, registry,
     stored, runner
<1>12. ASSUME NEW r \in Run, LoadSession(r) PROVE ResumedOnce'
  BY <1>12 DEF CanvasInv, ResumedOnce, IdsKept, TypeOK, Registered, LoadSession, Goto, registry,
     stored, runner
<1>13. ASSUME NEW r \in Run, SaveSession(r) PROVE ResumedOnce'
  BY <1>13 DEF CanvasInv, ResumedOnce, IdsKept, TypeOK, Registered, SaveSession, Goto, registry,
     runner
<1>14. ASSUME NEW r \in Run, Finish(r) PROVE ResumedOnce'
  BY <1>14 DEF CanvasInv, ResumedOnce, IdsKept, TypeOK, Registered, Finish, Mark, Goto,
     registry, runner
<1>15. ASSUME NEW r \in Run, RequestEnds(r) PROVE ResumedOnce'
  BY <1>15 DEF CanvasInv, ResumedOnce, IdsKept, TypeOK, Registered, RequestEnds, registry,
     stored, runner, worker
<1>16. CASE UNCHANGED vars
  BY <1>16 DEF CanvasInv, ResumedOnce, IdsKept, TypeOK, Registered, vars, registry, stored,
     runner, worker
<1>17. QED
  BY <1>1, <1>2, <1>3, <1>4, <1>5, <1>6, <1>7, <1>8, <1>9, <1>10, <1>11, <1>12, <1>13, <1>14,
     <1>15, <1>16 DEF Next, RunnerStep, WorkerStep

(* Between the read and the update of persistAgentRunSession no other run   *)
(* of the session updates the row, if none was replaced.                    *)
LEMMA LoadedFreshStep ==
  ASSUME CanvasInv, [Next]_vars
  PROVE  LoadedFresh'
<1> USE RunAssumption
<1>1. ASSUME NEW r \in Run, NEW k \in Key, RunAgent(r, k) PROVE LoadedFresh'
  BY <1>1, CanvasOfKey DEF CanvasInv, LoadedFresh, TypeOK, Registered, Quiet, Live, RunAgent,
     Supersede, stored, worker
<1>2. ASSUME NEW r \in Run, Invoke(r) PROVE LoadedFresh'
  BY <1>2 DEF CanvasInv, LoadedFresh, TypeOK, Registered, Quiet, Live, Invoke, TakeInterruptID,
     stored
<1>3. ASSUME NEW r \in Run, Cancelled(r) PROVE LoadedFresh'
  BY <1>3 DEF CanvasInv, LoadedFresh, TypeOK, Registered, Quiet, Live, Cancelled, registry,
     stored, worker
<1>4. ASSUME NEW r \in Run, Returned(r) PROVE LoadedFresh'
  BY <1>4 DEF CanvasInv, LoadedFresh, TypeOK, Registered, Quiet, Live, Returned, stored, worker
<1>5. ASSUME NEW r \in Run, Close(r) PROVE LoadedFresh'
  BY <1>5 DEF CanvasInv, LoadedFresh, TypeOK, Registered, Quiet, Live, Close, Forget, stored,
     worker
<1>6. ASSUME NEW r \in Run, Placeholder(r) PROVE LoadedFresh'
  BY <1>6 DEF CanvasInv, LoadedFresh, TypeOK, Registered, Quiet, Live, Placeholder, Returns,
     Goto, registry, stored, runner
<1>7. ASSUME NEW r \in Run, Start(r) PROVE LoadedFresh'
  BY <1>7 DEF CanvasInv, LoadedFresh, TypeOK, Registered, Quiet, Live, Start, Mark, Goto,
     registry, runner
<1>8. ASSUME NEW r \in Run, Fails(r) PROVE LoadedFresh'
  BY <1>8 DEF CanvasInv, LoadedFresh, TypeOK, Registered, Quiet, Live, Fails, Mark, Returns,
     Goto, registry, runner
<1>9. ASSUME NEW r \in Run, Aborts(r) PROVE LoadedFresh'
  BY <1>9 DEF CanvasInv, LoadedFresh, TypeOK, Registered, Quiet, Live, Aborts, Returns, Goto,
     registry, stored, runner
<1>10. ASSUME NEW r \in Run, Interrupts(r) PROVE LoadedFresh'
  BY <1>10 DEF CanvasInv, LoadedFresh, TypeOK, Registered, Quiet, Live, Interrupts, Mark, Goto,
     registry, runner
<1>11. ASSUME NEW r \in Run, Completes(r) PROVE LoadedFresh'
  BY <1>11 DEF CanvasInv, LoadedFresh, TypeOK, Registered, Quiet, Live, Completes, Goto,
     registry, stored, runner
<1>12. ASSUME NEW r \in Run, LoadSession(r) PROVE LoadedFresh'
  BY <1>12 DEF CanvasInv, LoadedFresh, TypeOK, Registered, Quiet, Live, LoadSession, Goto,
     registry, stored, runner
<1>13. ASSUME NEW r \in Run, SaveSession(r) PROVE LoadedFresh'
  BY <1>13 DEF CanvasInv, LoadedFresh, TypeOK, Registered, Quiet, Live, SaveSession, Goto,
     registry, runner
<1>14. ASSUME NEW r \in Run, Finish(r) PROVE LoadedFresh'
  BY <1>14 DEF CanvasInv, LoadedFresh, TypeOK, Registered, Quiet, Live, Finish, Mark, Goto,
     registry, runner
<1>15. ASSUME NEW r \in Run, RequestEnds(r) PROVE LoadedFresh'
  BY <1>15 DEF CanvasInv, LoadedFresh, TypeOK, Registered, Quiet, Live, RequestEnds, registry,
     stored, runner, worker
<1>16. CASE UNCHANGED vars
  BY <1>16 DEF CanvasInv, LoadedFresh, TypeOK, Registered, Quiet, Live, vars, registry, stored,
     runner, worker
<1>17. QED
  BY <1>1, <1>2, <1>3, <1>4, <1>5, <1>6, <1>7, <1>8, <1>9, <1>10, <1>11, <1>12, <1>13, <1>14,
     <1>15, <1>16 DEF Next, RunnerStep, WorkerStep

(* ... so that the update keeps the turns of the others.                    *)
LEMMA TurnsKeptStep ==
  ASSUME CanvasInv, [Next]_vars
  PROVE  TurnsKept'
<1> USE RunAssumption
<1>1. ASSUME NEW r \in Run, NEW k \in Key, RunAgent(r, k) PROVE TurnsKept'
  BY <1>1, CanvasOfKey DEF CanvasInv, TurnsKept, TypeOK, Registered, LoadedFresh, Quiet, Live,
     RunAgent, Supersede, stored, worker
<1>2. ASSUME NEW r \in Run, Invoke(r) PROVE TurnsKept'
  BY <1>2 DEF CanvasInv, TurnsKept, TypeOK, Registered, LoadedFresh, Quiet, Live, Invoke,
     TakeInterruptID, stored
<1>3. ASSUME NEW r \in Run, Cancelled(r) PROVE TurnsKept'
  BY <1>3 DEF CanvasInv, TurnsKept, TypeOK, Registered, LoadedFresh, Quiet, Live, Cancelled,
     registry, stored, worker
<1>4. ASSUME NEW r \in Run, Returned(r) PROVE TurnsKept'
  BY <1>4 DEF CanvasInv, TurnsKept, TypeOK, Registered, LoadedFresh, Quiet, Live, Returned,
     stored, worker
<1>5. ASSUME NEW r \in Run, Close(r) PROVE TurnsKept'
  BY <1>5 DEF CanvasInv, TurnsKept, TypeOK, Registered, LoadedFresh, Quiet, Live, Close, Forget,
     stored, worker
<1>6. ASSUME NEW r \in Run, Placeholder(r) PROVE TurnsKept'
  BY <1>6 DEF CanvasInv, TurnsKept, TypeOK, Registered, LoadedFresh, Quiet, Live, Placeholder,
     Returns, Goto, registry, stored, runner
<1>7. ASSUME NEW r \in Run, Start(r) PROVE TurnsKept'
  BY <1>7 DEF CanvasInv, TurnsKept, TypeOK, Registered, LoadedFresh, Quiet, Live, Start, Mark,
     Goto, registry, runner
<1>8. ASSUME NEW r \in Run, Fails(r) PROVE TurnsKept'
  BY <1>8 DEF CanvasInv, TurnsKept, TypeOK, Registered, LoadedFresh, Quiet, Live, Fails, Mark,
     Returns, Goto, registry, runner
<1>9. ASSUME NEW r \in Run, Aborts(r) PROVE TurnsKept'
  BY <1>9 DEF CanvasInv, TurnsKept, TypeOK, Registered, LoadedFresh, Quiet, Live, Aborts,
     Returns, Goto, registry, stored, runner
<1>10. ASSUME NEW r \in Run, Interrupts(r) PROVE TurnsKept'
  BY <1>10 DEF CanvasInv, TurnsKept, TypeOK, Registered, LoadedFresh, Quiet, Live, Interrupts,
     Mark, Goto, registry, runner
<1>11. ASSUME NEW r \in Run, Completes(r) PROVE TurnsKept'
  BY <1>11 DEF CanvasInv, TurnsKept, TypeOK, Registered, LoadedFresh, Quiet, Live, Completes,
     Goto, registry, stored, runner
<1>12. ASSUME NEW r \in Run, LoadSession(r) PROVE TurnsKept'
  BY <1>12 DEF CanvasInv, TurnsKept, TypeOK, Registered, LoadedFresh, Quiet, Live, LoadSession,
     Goto, registry, stored, runner
<1>13. ASSUME NEW r \in Run, SaveSession(r) PROVE TurnsKept'
  BY <1>13 DEF CanvasInv, TurnsKept, TypeOK, Registered, LoadedFresh, Quiet, Live, SaveSession,
     Goto, registry, runner
<1>14. ASSUME NEW r \in Run, Finish(r) PROVE TurnsKept'
  BY <1>14 DEF CanvasInv, TurnsKept, TypeOK, Registered, LoadedFresh, Quiet, Live, Finish, Mark,
     Goto, registry, runner
<1>15. ASSUME NEW r \in Run, RequestEnds(r) PROVE TurnsKept'
  BY <1>15 DEF CanvasInv, TurnsKept, TypeOK, Registered, LoadedFresh, Quiet, Live, RequestEnds,
     registry, stored, runner, worker
<1>16. CASE UNCHANGED vars
  BY <1>16 DEF CanvasInv, TurnsKept, TypeOK, Registered, LoadedFresh, Quiet, Live, vars,
     registry, stored, runner, worker
<1>17. QED
  BY <1>1, <1>2, <1>3, <1>4, <1>5, <1>6, <1>7, <1>8, <1>9, <1>10, <1>11, <1>12, <1>13, <1>14,
     <1>15, <1>16 DEF Next, RunnerStep, WorkerStep

(* Every way out of the RunFunc records the end of the run, or its context  *)
(* has ended.                                                               *)
LEMMA RunningIsRunStep ==
  ASSUME CanvasInv, [Next]_vars
  PROVE  RunningIsRun'
<1> USE RunAssumption
<1>1. ASSUME NEW r \in Run, NEW k \in Key, RunAgent(r, k) PROVE RunningIsRun'
  BY <1>1, CanvasOfKey DEF CanvasInv, RunningIsRun, TypeOK, Registered, Unrecorded, RunAgent,
     Supersede, stored, worker
<1>2. ASSUME NEW r \in Run, Invoke(r) PROVE RunningIsRun'
  BY <1>2 DEF CanvasInv, RunningIsRun, TypeOK, Registered, Unrecorded, Invoke, TakeInterruptID,
     stored
<1>3. ASSUME NEW r \in Run, Cancelled(r) PROVE RunningIsRun'
  BY <1>3 DEF CanvasInv, RunningIsRun, TypeOK, Registered, Unrecorded, Cancelled, registry,
     stored, worker
<1>4. ASSUME NEW r \in Run, Returned(r) PROVE RunningIsRun'
  BY <1>4 DEF CanvasInv, RunningIsRun, TypeOK, Registered, Unrecorded, Returned, stored, worker
<1>5. ASSUME NEW r \in Run, Close(r) PROVE RunningIsRun'
  BY <1>5 DEF CanvasInv, RunningIsRun, TypeOK, Registered, Unrecorded, Close, Forget, stored,
     worker
<1>6. ASSUME NEW r \in Run, Placeholder(r) PROVE RunningIsRun'
  BY <1>6 DEF CanvasInv, RunningIsRun, TypeOK, Registered, Unrecorded, Placeholder, Returns,
     Goto, registry, stored, runner
<1>7. ASSUME NEW r \in Run, Start(r) PROVE RunningIsRun'
  BY <1>7 DEF CanvasInv, RunningIsRun, TypeOK, Registered, Unrecorded, Start, Mark, Goto,
     registry, runner
<1>8. ASSUME NEW r \in Run, Fails(r) PROVE RunningIsRun'
  BY <1>8 DEF CanvasInv, RunningIsRun, TypeOK, Registered, Unrecorded, Fails, Mark, Returns,
     Goto, registry, runner
<1>9. ASSUME NEW r \in Run, Aborts(r) PROVE RunningIsRun'
  BY <1>9 DEF CanvasInv, RunningIsRun, TypeOK, Registered, Unrecorded, Aborts, Returns, Goto,
     registry, stored, runner
<1>10. ASSUME NEW r \in Run, Interrupts(r) PROVE RunningIsRun'
  BY <1>10 DEF CanvasInv, RunningIsRun, TypeOK, Registered, Unrecorded, Interrupts, Mark, Goto,
     registry, runner
<1>11. ASSUME NEW r \in Run, Completes(r) PROVE RunningIsRun'
  BY <1>11 DEF CanvasInv, RunningIsRun, TypeOK, Registered, Unrecorded, Completes, Goto,
     registry, stored, runner
<1>12. ASSUME NEW r \in Run, LoadSession(r) PROVE RunningIsRun'
  BY <1>12 DEF CanvasInv, RunningIsRun, TypeOK, Registered, Unrecorded, LoadSession, Goto,
     registry, stored, runner
<1>13. ASSUME NEW r \in Run, SaveSession(r) PROVE RunningIsRun'
  BY <1>13 DEF CanvasInv, RunningIsRun, TypeOK, Registered, Unrecorded, SaveSession, Goto,
     registry, runner
<1>14. ASSUME NEW r \in Run, Finish(r) PROVE RunningIsRun'
  BY <1>14 DEF CanvasInv, RunningIsRun, TypeOK, Registered, Unrecorded, Finish, Mark, Goto,
     registry, runner
<1>15. ASSUME NEW r \in Run, RequestEnds(r) PROVE RunningIsRun'
  BY <1>15 DEF CanvasInv, RunningIsRun, TypeOK, Registered, Unrecorded, RequestEnds, registry,
     stored, runner, worker
<1>16. CASE UNCHANGED vars
  BY <1>16 DEF CanvasInv, RunningIsRun, TypeOK, Registered, Unrecorded, vars, registry, stored,
     runner, worker
<1>17. QED
  BY <1>1, <1>2, <1>3, <1>4, <1>5, <1>6, <1>7, <1>8, <1>9, <1>10, <1>11, <1>12, <1>13, <1>14,
     <1>15, <1>16 DEF Next, RunnerStep, WorkerStep

(* The invariant of CanvasRuns, for any number of runs, canvases and        *)
(* sessions: Runner.Run's registry, the goroutines and the workers agree.   *)
THEOREM CanvasInvariant == Spec => []CanvasInv
<1>1. Init => CanvasInv
  BY RunAssumption DEF Init, CanvasInv, TypeOK, Registered, IdsKept, ResumedOnce, LoadedFresh,
     TurnsKept, RunningIsRun, Live
<1>2. CanvasInv /\ [Next]_vars => CanvasInv'
  BY TypeOKStep, RegisteredStep, IdsKeptStep, ResumedOnceStep, LoadedFreshStep, TurnsKeptStep,
     RunningIsRunStep DEF CanvasInv
<1>3. QED
  BY <1>1, <1>2, PTL DEF Spec

(* At most one run of a canvas is under way and not told to stop, however   *)
(* many requests Runner.Run is called for.                                  *)
THEOREM OneLiveRunAlways == Spec => []OneLiveRun
<1>1. CanvasInv => OneLiveRun
  BY DEF CanvasInv, Registered, Live, OneLiveRun
<1>2. QED
  BY <1>1, CanvasInvariant, PTL

(* getInterruptID gives an interrupt to one run only.                       *)
THEOREM ResumedOnceAlways == Spec => []ResumedOnce
<1>1. CanvasInv => ResumedOnce
  BY DEF CanvasInv
<1>2. QED
  BY <1>1, CanvasInvariant, PTL

(* RunTracker does not leave a session at running whose runs kept their     *)
(* clients, whichever of them replaced another.                             *)
THEOREM RunningIsRunAlways == Spec => []RunningIsRun
<1>1. CanvasInv => RunningIsRun
  BY DEF CanvasInv
<1>2. QED
  BY <1>1, CanvasInvariant, PTL

(* persistAgentRunSession loses no turn of a session none of whose runs was *)
(* replaced.                                                                *)
THEOREM TurnsKeptAlways == Spec => []TurnsKept
<1>1. CanvasInv => TurnsKept
  BY DEF CanvasInv
<1>2. QED
  BY <1>1, CanvasInvariant, PTL
==============================================================================
