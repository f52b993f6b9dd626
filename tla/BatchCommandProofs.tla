------------------------- MODULE BatchCommandProofs -------------------------
(***************************************************************************)
(* Proofs about BatchCommand, for every set of servers, concurrency, and   *)
(* output limit: the inductive invariant is one conjunct per resource a    *)
(* worker (runServer) holds, one per promise about the end of the task,    *)
(* and one for who may cancel.                                             *)
(***************************************************************************)
EXTENDS BatchCommand, FiniteSetTheorems, TLAPS

----------------------------------------------------------------------------
\* The inductive invariant.

\* Places of runServer before, inside and after what the semaphore guards.
Before == {"spawn", "sem"}
Inside == {"connecting", "lookup", "dial", "commit", "running", "start", "setSession", "collect"}
After  == {"release", "clear", "exited"}

\* A worker past the semaphore holds a place; one that waits or has left does not.
SlotInv ==
  \A s \in Servers :
    /\ pc[s] \in Inside => s \in slots
    /\ pc[s] \in Before \cup {"clear", "exited"} => s \notin slots

\* An open client has a place: its Close comes before the release.
ClientInv ==
  \A s \in Servers :
    s \in clients => s \in slots /\ pc[s] \notin {"connecting", "lookup", "dial", "release"}

\* The semaphore counts.
LimitInv == Cardinality(slots) <= Concurrency

\* A command ends with its client, a session leaves the task with its worker.
CommandInv ==
  \A s \in Servers :
    /\ command[s] = "started" => pc[s] \notin After
    /\ s \in sessions => pc[s] # "exited"

\* A worker that unwinds has a result that is over.
ResultInv == \A s \in Servers : pc[s] \in After \cup {"unwind"} => ~isActiveStatus(result[s])

\* The task is over when, and only when, finishTask ran; Clear comes later.
DoneInv ==
  /\ taskDone => \A s \in Servers : pc[s] = "exited"
  /\ ~isActiveStatus(taskStatus) <=> taskDone
  /\ registered \/ taskDone

\* The status of a finished task is that of its results.
VerdictInv ==
  taskDone => /\ taskStatus = "completed" <=> \A s \in Servers : result[s] = "completed"
              /\ \E s \in Servers : result[s] = taskStatus

\* Whatever a cancelling call has still to do was asked for; so was every
\* context that ended before its worker, and every "canceled" to publish.
CancelInv ==
  \A s \in Servers :
    /\ s \in toMark \cup toCancel => s \in asked \/ taskCanceled
    /\ s \in taskMark => taskCanceled
    /\ s \in serverCanceled => s \in asked \/ taskCanceled \/ pc[s] = "exited"
    /\ pc[s] = "finish" /\ out[s] = "canceled" => s \in asked \/ taskCanceled

IndInv == /\ TypeOK /\ SlotInv /\ ClientInv /\ LimitInv /\ CommandInv /\ ResultInv /\ DoneInv
          /\ VerdictInv /\ CancelInv /\ CanceledOnlyIfAsked

----------------------------------------------------------------------------
\* One lemma per conjunct, one step per action.

\* ErrorStatus is the status of a result that is over.
LEMMA ErrorStatusType == \A s \in Servers : ErrorStatus(s) \in EndStatus
BY DEF ErrorStatus, EndStatus

\* aggregateStatus is a status.
LEMMA AggregateType == aggregateStatus \in ActiveStatus \cup EndStatus
BY DEF aggregateStatus, ActiveStatus, EndStatus

\* Every step keeps the types.
LEMMA TypeStep ==
  ASSUME TypeOK, [Next]_vars
  PROVE  TypeOK'
<1>1. CASE UNCHANGED <<registered, taskStatus, taskCanceled, taskDone, result, pc, out, slots,
clients, expired, serverCanceled, serverCancels, sessions, command, output, truncated, asked,
taskClose, taskMark, toMark, toCancel, toClose>>
  BY <1>1 DEF TypeOK, taskVars, workVars, ctxVars, outputVars, callVars, PC, ActiveStatus,
     EndStatus, isActiveStatus
<1>2. ASSUME NEW s \in Servers, Spawn(s) PROVE TypeOK'
  BY <1>2 DEF Spawn, Goto, TypeOK, taskVars, workVars, ctxVars, outputVars, callVars, PC,
     ActiveStatus, EndStatus, isActiveStatus
<1>3. ASSUME NEW s \in Servers, AcquireSlot(s) PROVE TypeOK'
  BY <1>3 DEF AcquireSlot, Goto, TypeOK, taskVars, workVars, ctxVars, outputVars, callVars, PC,
     ActiveStatus, EndStatus, isActiveStatus
<1>4. ASSUME NEW s \in Servers, CanceledInQueue(s) PROVE TypeOK'
  BY <1>4 DEF CanceledInQueue, Decide, Goto, TypeOK, taskVars, workVars, ctxVars, outputVars,
     callVars, PC, ActiveStatus, EndStatus, isActiveStatus
<1>5. ASSUME NEW s \in Servers, ToConnecting(s) PROVE TypeOK'
  BY <1>5 DEF ToConnecting, transitionServer, Goto, TypeOK, taskVars, workVars, ctxVars,
     outputVars, callVars, PC, ActiveStatus, EndStatus, isActiveStatus
<1>6. ASSUME NEW s \in Servers, ToRunning(s) PROVE TypeOK'
  BY <1>6 DEF ToRunning, transitionServer, Goto, TypeOK, taskVars, workVars, ctxVars, outputVars,
     callVars, PC, ActiveStatus, EndStatus, isActiveStatus
<1>7. ASSUME NEW s \in Servers, Lookup(s) PROVE TypeOK'
  BY <1>7 DEF Lookup, Decide, Goto, TypeOK, taskVars, workVars, ctxVars, outputVars, callVars, PC,
     ActiveStatus, EndStatus, isActiveStatus
<1>8. ASSUME NEW s \in Servers, Dial(s) PROVE TypeOK'
  <2>1. ErrorStatus(s) \in EndStatus
    BY ErrorStatusType
  <2>2. out' \in [Servers -> EndStatus] /\ pc' \in [Servers -> PC]
    BY <1>8, <2>1 DEF Dial, Decide, Goto, TypeOK, PC, EndStatus
  <2>3. QED
    BY <1>8, <2>2 DEF Dial, Decide, TypeOK, taskVars, workVars, ctxVars, outputVars, callVars
<1>9. ASSUME NEW s \in Servers, Commit(s) PROVE TypeOK'
  BY <1>9 DEF Commit, Decide, Goto, TypeOK, taskVars, workVars, ctxVars, outputVars, callVars, PC,
     ActiveStatus, EndStatus, isActiveStatus
<1>10. ASSUME NEW s \in Servers, StartCommand(s) PROVE TypeOK'
  <2>1. ErrorStatus(s) \in EndStatus
    BY ErrorStatusType
  <2>2. out' \in [Servers -> EndStatus] /\ pc' \in [Servers -> PC]
    BY <1>10, <2>1 DEF StartCommand, Decide, Goto, TypeOK, PC, EndStatus
  <2>3. QED
    BY <1>10, <2>2 DEF StartCommand, Decide, TypeOK, taskVars, workVars, ctxVars, outputVars,
       callVars
<1>11. ASSUME NEW s \in Servers, setSession(s) PROVE TypeOK'
  BY <1>11 DEF setSession, Goto, TypeOK, taskVars, workVars, ctxVars, outputVars, callVars, PC,
     ActiveStatus, EndStatus, isActiveStatus
<1>12. ASSUME NEW s \in Servers, CollectAborted(s) PROVE TypeOK'
  BY <1>12 DEF CollectAborted, Decide, Goto, CloseCommand, TypeOK, taskVars, workVars, ctxVars,
     outputVars, callVars, PC, ActiveStatus, EndStatus, isActiveStatus
<1>13. ASSUME NEW s \in Servers, CollectEnds(s) PROVE TypeOK'
  <2>1. ErrorStatus(s) \in EndStatus
    BY ErrorStatusType
  <2>2. out' \in [Servers -> EndStatus] /\ pc' \in [Servers -> PC]
    BY <1>13, <2>1 DEF CollectEnds, Decide, Goto, TypeOK, PC, EndStatus
  <2>3. QED
    BY <1>13, <2>2 DEF CollectEnds, Decide, TypeOK, taskVars, workVars, ctxVars, outputVars,
       callVars
<1>14. ASSUME NEW s \in Servers, appendOutput(s) PROVE TypeOK'
  <2>1. output' \in [Servers -> 0..OutputLimit] /\ truncated' \subseteq Servers
    BY <1>14, OutputAssumption DEF appendOutput, TypeOK
  <2>2. QED
    BY <1>14, <2>1 DEF appendOutput, TypeOK, taskVars, workVars, ctxVars, outputVars, callVars
<1>15. ASSUME NEW s \in Servers, finishServer(s) PROVE TypeOK'
  BY <1>15 DEF finishServer, Goto, TypeOK, taskVars, workVars, ctxVars, outputVars, callVars, PC,
     ActiveStatus, EndStatus, isActiveStatus
<1>16. ASSUME NEW s \in Servers, Unwind(s) PROVE TypeOK'
  BY <1>16 DEF Unwind, Goto, TypeOK, taskVars, workVars, ctxVars, outputVars, callVars, PC,
     ActiveStatus, EndStatus, isActiveStatus
<1>17. ASSUME NEW s \in Servers, Release(s) PROVE TypeOK'
  BY <1>17 DEF Release, Goto, TypeOK, taskVars, workVars, ctxVars, outputVars, callVars, PC,
     ActiveStatus, EndStatus, isActiveStatus
<1>18. ASSUME NEW s \in Servers, clearServerRuntime(s) PROVE TypeOK'
  BY <1>18 DEF clearServerRuntime, Goto, TypeOK, taskVars, workVars, ctxVars, outputVars, callVars,
     PC, ActiveStatus, EndStatus, isActiveStatus
<1>19. ASSUME NEW s \in Servers, Deadline(s) PROVE TypeOK'
  BY <1>19 DEF Deadline, TypeOK, taskVars, workVars, ctxVars, outputVars, callVars, PC,
     ActiveStatus, EndStatus, isActiveStatus
<1>20. ASSUME NEW s \in Servers, CommandExits(s) PROVE TypeOK'
  BY <1>20 DEF CommandExits, TypeOK, taskVars, workVars, ctxVars, outputVars, callVars, PC,
     ActiveStatus, EndStatus, isActiveStatus
<1>21. ASSUME NEW s \in Servers, CancelServer(s) PROVE TypeOK'
  BY <1>21 DEF CancelServer, TypeOK, taskVars, workVars, ctxVars, outputVars, callVars, PC,
     ActiveStatus, EndStatus, isActiveStatus
<1>22. ASSUME NEW s \in Servers, cancelServer(s) PROVE TypeOK'
  BY <1>22 DEF cancelServer, TypeOK, taskVars, workVars, ctxVars, outputVars, callVars, PC,
     ActiveStatus, EndStatus, isActiveStatus
<1>23. ASSUME NEW s \in Servers, CallCancel(s) PROVE TypeOK'
  BY <1>23 DEF CallCancel, TypeOK, taskVars, workVars, ctxVars, outputVars, callVars, PC,
     ActiveStatus, EndStatus, isActiveStatus
<1>24. ASSUME NEW s \in Servers, CallClose(s) PROVE TypeOK'
  BY <1>24 DEF CallClose, CloseCommand, TypeOK, taskVars, workVars, ctxVars, outputVars, callVars,
     PC, ActiveStatus, EndStatus, isActiveStatus
<1>25. ASSUME NEW s \in Servers, CloseFound(s) PROVE TypeOK'
  BY <1>25 DEF CloseFound, CloseCommand, TypeOK, taskVars, workVars, ctxVars, outputVars, callVars,
     PC, ActiveStatus, EndStatus, isActiveStatus
<1>26. CASE CancelTask
  BY <1>26 DEF CancelTask, TypeOK, taskVars, workVars, ctxVars, outputVars, callVars, PC,
     ActiveStatus, EndStatus, isActiveStatus
<1>27. CASE Clear
  BY <1>27 DEF Clear, TypeOK, taskVars, workVars, ctxVars, outputVars, callVars, PC, ActiveStatus,
     EndStatus, isActiveStatus
<1>28. CASE finishTask
  <2>1. taskStatus' \in ActiveStatus \cup EndStatus
    BY <1>28, AggregateType DEF finishTask, TypeOK
  <2>2. QED
    BY <1>28, <2>1 DEF finishTask, TypeOK, taskVars, workVars, ctxVars, outputVars, callVars
<1>29. CASE UNCHANGED vars
  BY <1>1, <1>29 DEF vars, taskVars, workVars, ctxVars, outputVars, callVars
<1>30. QED
  BY <1>1, <1>2, <1>3, <1>4, <1>5, <1>6, <1>7, <1>8, <1>9, <1>10, <1>11, <1>12, <1>13, <1>14, <1>15,
     <1>16, <1>17, <1>18, <1>19, <1>20, <1>21, <1>22, <1>23, <1>24, <1>25, <1>26, <1>27, <1>28,
     <1>29
     DEF Next, Setup, Collect, Leave, Cancelling

\* sem: a place is taken once and given back by the deferred calls.
LEMMA SlotStep ==
  ASSUME TypeOK, SlotInv, [Next]_vars
  PROVE  SlotInv'
<1>0. pc \in [Servers -> PC]
  BY DEF TypeOK
<1>1. CASE UNCHANGED <<pc, slots>>
  BY <1>0, <1>1 DEF SlotInv, Before, Inside, After, workVars
<1>2. ASSUME NEW s \in Servers, Spawn(s) PROVE SlotInv'
  BY <1>0, <1>2 DEF Spawn, Goto, SlotInv, Before, Inside, After, workVars
<1>3. ASSUME NEW s \in Servers, AcquireSlot(s) PROVE SlotInv'
  BY <1>0, <1>3 DEF AcquireSlot, Goto, SlotInv, Before, Inside, After, workVars
<1>4. ASSUME NEW s \in Servers, CanceledInQueue(s) PROVE SlotInv'
  BY <1>0, <1>4 DEF CanceledInQueue, Decide, Goto, SlotInv, Before, Inside, After, workVars
<1>5. ASSUME NEW s \in Servers, ToConnecting(s) PROVE SlotInv'
  BY <1>0, <1>5 DEF ToConnecting, transitionServer, Goto, SlotInv, Before, Inside, After, workVars
<1>6. ASSUME NEW s \in Servers, ToRunning(s) PROVE SlotInv'
  BY <1>0, <1>6 DEF ToRunning, transitionServer, Goto, SlotInv, Before, Inside, After, workVars
<1>7. ASSUME NEW s \in Servers, Lookup(s) PROVE SlotInv'
  BY <1>0, <1>7 DEF Lookup, Decide, Goto, SlotInv, Before, Inside, After, workVars
<1>8. ASSUME NEW s \in Servers, Dial(s) PROVE SlotInv'
  BY <1>0, <1>8 DEF Dial, Decide, Goto, SlotInv, Before, Inside, After, workVars
<1>9. ASSUME NEW s \in Servers, Commit(s) PROVE SlotInv'
  BY <1>0, <1>9 DEF Commit, Decide, Goto, SlotInv, Before, Inside, After, workVars
<1>10. ASSUME NEW s \in Servers, StartCommand(s) PROVE SlotInv'
  BY <1>0, <1>10 DEF StartCommand, Decide, Goto, SlotInv, Before, Inside, After, workVars
<1>11. ASSUME NEW s \in Servers, setSession(s) PROVE SlotInv'
  BY <1>0, <1>11 DEF setSession, Goto, SlotInv, Before, Inside, After, workVars
<1>12. ASSUME NEW s \in Servers, CollectAborted(s) PROVE SlotInv'
  BY <1>0, <1>12 DEF CollectAborted, Decide, Goto, CloseCommand, SlotInv, Before, Inside, After,
     workVars
<1>13. ASSUME NEW s \in Servers, CollectEnds(s) PROVE SlotInv'
  BY <1>0, <1>13 DEF CollectEnds, Decide, Goto, SlotInv, Before, Inside, After, workVars
<1>14. ASSUME NEW s \in Servers, finishServer(s) PROVE SlotInv'
  BY <1>0, <1>14 DEF finishServer, Goto, SlotInv, Before, Inside, After, workVars
<1>15. ASSUME NEW s \in Servers, Unwind(s) PROVE SlotInv'
  BY <1>0, <1>15 DEF Unwind, Goto, SlotInv, Before, Inside, After, workVars
<1>16. ASSUME NEW s \in Servers, Release(s) PROVE SlotInv'
  BY <1>0, <1>16 DEF Release, Goto, SlotInv, Before, Inside, After, workVars
<1>17. ASSUME NEW s \in Servers, clearServerRuntime(s) PROVE SlotInv'
  BY <1>0, <1>17 DEF clearServerRuntime, Goto, SlotInv, Before, Inside, After, workVars
<1>18. ASSUME NEW s \in Servers, appendOutput(s) \/ Deadline(s) \/ CommandExits(s)
                                 \/ CancelServer(s) \/ cancelServer(s) \/ CallCancel(s)
                                 \/ CallClose(s) \/ CloseFound(s)
       PROVE  UNCHANGED <<pc, slots>>
  BY <1>18 DEF appendOutput, Deadline, CommandExits, CancelServer, cancelServer, CallCancel,
     CallClose, CloseFound, CloseCommand, taskVars, workVars, ctxVars, outputVars, callVars
<1>19. CASE CancelTask \/ Clear \/ finishTask \/ UNCHANGED vars
  BY <1>1, <1>19 DEF CancelTask, Clear, finishTask, vars, taskVars, workVars, ctxVars, outputVars,
     callVars
<1>20. QED
  BY <1>1, <1>2, <1>3, <1>4, <1>5, <1>6, <1>7, <1>8, <1>9, <1>10, <1>11, <1>12, <1>13, <1>14, <1>15,
     <1>16, <1>17, <1>18, <1>19
     DEF Next, Setup, Collect, Leave, Cancelling

\* The deferred calls close the client before they give the place back.
LEMMA ClientStep ==
  ASSUME TypeOK, ClientInv, SlotInv, [Next]_vars
  PROVE  ClientInv'
<1>0. pc \in [Servers -> PC]
  BY DEF TypeOK
<1>1. CASE UNCHANGED <<pc, slots, clients>>
  BY <1>0, <1>1 DEF ClientInv, SlotInv, Before, Inside, After, workVars
<1>2. ASSUME NEW s \in Servers, Spawn(s) PROVE ClientInv'
  BY <1>0, <1>2 DEF Spawn, Goto, ClientInv, SlotInv, Before, Inside, After, workVars
<1>3. ASSUME NEW s \in Servers, AcquireSlot(s) PROVE ClientInv'
  BY <1>0, <1>3 DEF AcquireSlot, Goto, ClientInv, SlotInv, Before, Inside, After, workVars
<1>4. ASSUME NEW s \in Servers, CanceledInQueue(s) PROVE ClientInv'
  BY <1>0, <1>4 DEF CanceledInQueue, Decide, Goto, ClientInv, SlotInv, Before, Inside, After,
     workVars
<1>5. ASSUME NEW s \in Servers, ToConnecting(s) PROVE ClientInv'
  BY <1>0, <1>5 DEF ToConnecting, transitionServer, Goto, ClientInv, SlotInv, Before, Inside,
     After, workVars
<1>6. ASSUME NEW s \in Servers, ToRunning(s) PROVE ClientInv'
  BY <1>0, <1>6 DEF ToRunning, transitionServer, Goto, ClientInv, SlotInv, Before, Inside, After,
     workVars
<1>7. ASSUME NEW s \in Servers, Lookup(s) PROVE ClientInv'
  BY <1>0, <1>7 DEF Lookup, Decide, Goto, ClientInv, SlotInv, Before, Inside, After, workVars
<1>8. ASSUME NEW s \in Servers, Dial(s) PROVE ClientInv'
  BY <1>0, <1>8 DEF Dial, Decide, Goto, ClientInv, SlotInv, Before, Inside, After, workVars
<1>9. ASSUME NEW s \in Servers, Commit(s) PROVE ClientInv'
  BY <1>0, <1>9 DEF Commit, Decide, Goto, ClientInv, SlotInv, Before, Inside, After, workVars
<1>10. ASSUME NEW s \in Servers, StartCommand(s) PROVE ClientInv'
  BY <1>0, <1>10 DEF StartCommand, Decide, Goto, ClientInv, SlotInv, Before, Inside, After, workVars
<1>11. ASSUME NEW s \in Servers, setSession(s) PROVE ClientInv'
  BY <1>0, <1>11 DEF setSession, Goto, ClientInv, SlotInv, Before, Inside, After, workVars
<1>12. ASSUME NEW s \in Servers, CollectAborted(s) PROVE ClientInv'
  BY <1>0, <1>12 DEF CollectAborted, Decide, Goto, CloseCommand, ClientInv, SlotInv, Before,
     Inside, After, workVars
<1>13. ASSUME NEW s \in Servers, CollectEnds(s) PROVE ClientInv'
  BY <1>0, <1>13 DEF CollectEnds, Decide, Goto, ClientInv, SlotInv, Before, Inside, After, workVars
<1>14. ASSUME NEW s \in Servers, finishServer(s) PROVE ClientInv'
  BY <1>0, <1>14 DEF finishServer, Goto, ClientInv, SlotInv, Before, Inside, After, workVars
<1>15. ASSUME NEW s \in Servers, Unwind(s) PROVE ClientInv'
  BY <1>0, <1>15 DEF Unwind, Goto, ClientInv, SlotInv, Before, Inside, After, workVars
<1>16. ASSUME NEW s \in Servers, Release(s) PROVE ClientInv'
  BY <1>0, <1>16 DEF Release, Goto, ClientInv, SlotInv, Before, Inside, After, workVars
<1>17. ASSUME NEW s \in Servers, clearServerRuntime(s) PROVE ClientInv'
  BY <1>0, <1>17 DEF clearServerRuntime, Goto, ClientInv, SlotInv, Before, Inside, After, workVars
<1>18. ASSUME NEW s \in Servers, appendOutput(s) \/ Deadline(s) \/ CommandExits(s)
                                 \/ CancelServer(s) \/ cancelServer(s) \/ CallCancel(s)
                                 \/ CallClose(s) \/ CloseFound(s)
       PROVE  UNCHANGED <<pc, slots, clients>>
  BY <1>18 DEF appendOutput, Deadline, CommandExits, CancelServer, cancelServer, CallCancel,
     CallClose, CloseFound, CloseCommand, taskVars, workVars, ctxVars, outputVars, callVars
<1>19. CASE CancelTask \/ Clear \/ finishTask \/ UNCHANGED vars
  BY <1>1, <1>19 DEF CancelTask, Clear, finishTask, vars, taskVars, workVars, ctxVars, outputVars,
     callVars
<1>20. QED
  BY <1>1, <1>2, <1>3, <1>4, <1>5, <1>6, <1>7, <1>8, <1>9, <1>10, <1>11, <1>12, <1>13, <1>14, <1>15,
     <1>16, <1>17, <1>18, <1>19
     DEF Next, Setup, Collect, Leave, Cancelling

\* client.Close ends the command, clearServerRuntime forgets the session.
LEMMA CommandStep ==
  ASSUME TypeOK, CommandInv, [Next]_vars
  PROVE  CommandInv'
<1>0. pc \in [Servers -> PC] /\ command \in [Servers -> {"none", "started", "ok", "error",
"closed"}]
  BY DEF TypeOK
<1>1. CASE UNCHANGED <<pc, command, sessions>>
  BY <1>0, <1>1 DEF CommandInv, Before, Inside, After, workVars, ctxVars
<1>2. ASSUME NEW s \in Servers, Spawn(s) PROVE CommandInv'
  BY <1>0, <1>2 DEF Spawn, Goto, CommandInv, Before, Inside, After, workVars, ctxVars
<1>3. ASSUME NEW s \in Servers, AcquireSlot(s) PROVE CommandInv'
  BY <1>0, <1>3 DEF AcquireSlot, Goto, CommandInv, Before, Inside, After, workVars, ctxVars
<1>4. ASSUME NEW s \in Servers, CanceledInQueue(s) PROVE CommandInv'
  BY <1>0, <1>4 DEF CanceledInQueue, Decide, Goto, CommandInv, Before, Inside, After, workVars,
     ctxVars
<1>5. ASSUME NEW s \in Servers, ToConnecting(s) PROVE CommandInv'
  BY <1>0, <1>5 DEF ToConnecting, transitionServer, Goto, CommandInv, Before, Inside, After,
     workVars, ctxVars
<1>6. ASSUME NEW s \in Servers, ToRunning(s) PROVE CommandInv'
  BY <1>0, <1>6 DEF ToRunning, transitionServer, Goto, CommandInv, Before, Inside, After, workVars,
     ctxVars
<1>7. ASSUME NEW s \in Servers, Lookup(s) PROVE CommandInv'
  BY <1>0, <1>7 DEF Lookup, Decide, Goto, CommandInv, Before, Inside, After, workVars, ctxVars
<1>8. ASSUME NEW s \in Servers, Dial(s) PROVE CommandInv'
  BY <1>0, <1>8 DEF Dial, Decide, Goto, CommandInv, Before, Inside, After, workVars, ctxVars
<1>9. ASSUME NEW s \in Servers, Commit(s) PROVE CommandInv'
  BY <1>0, <1>9 DEF Commit, Decide, Goto, CommandInv, Before, Inside, After, workVars, ctxVars
<1>10. ASSUME NEW s \in Servers, StartCommand(s) PROVE CommandInv'
  BY <1>0, <1>10 DEF StartCommand, Decide, Goto, CommandInv, Before, Inside, After, workVars,
     ctxVars
<1>11. ASSUME NEW s \in Servers, setSession(s) PROVE CommandInv'
  BY <1>0, <1>11 DEF setSession, Goto, CommandInv, Before, Inside, After, workVars, ctxVars
<1>12. ASSUME NEW s \in Servers, CollectAborted(s) PROVE CommandInv'
  BY <1>0, <1>12 DEF CollectAborted, Decide, Goto, CloseCommand, CommandInv, Before, Inside, After,
     workVars, ctxVars
<1>13. ASSUME NEW s \in Servers, CollectEnds(s) PROVE CommandInv'
  BY <1>0, <1>13 DEF CollectEnds, Decide, Goto, CommandInv, Before, Inside, After, workVars, ctxVars
<1>14. ASSUME NEW s \in Servers, finishServer(s) PROVE CommandInv'
  BY <1>0, <1>14 DEF finishServer, Goto, CommandInv, Before, Inside, After, workVars, ctxVars
<1>15. ASSUME NEW s \in Servers, Unwind(s) PROVE CommandInv'
  BY <1>0, <1>15 DEF Unwind, Goto, CommandInv, Before, Inside, After, workVars, ctxVars
<1>16. ASSUME NEW s \in Servers, Release(s) PROVE CommandInv'
  BY <1>0, <1>16 DEF Release, Goto, CommandInv, Before, Inside, After, workVars, ctxVars
<1>17. ASSUME NEW s \in Servers, clearServerRuntime(s) PROVE CommandInv'
  BY <1>0, <1>17 DEF clearServerRuntime, Goto, CommandInv, Before, Inside, After, workVars, ctxVars
<1>18. ASSUME NEW s \in Servers, CommandExits(s) PROVE CommandInv'
  BY <1>0, <1>18 DEF CommandExits, CommandInv, Before, Inside, After, workVars, ctxVars
<1>19. ASSUME NEW s \in Servers, CallClose(s) PROVE CommandInv'
  BY <1>0, <1>19 DEF CallClose, CloseCommand, CommandInv, Before, Inside, After, workVars, ctxVars
<1>20. ASSUME NEW s \in Servers, CloseFound(s) PROVE CommandInv'
  BY <1>0, <1>20 DEF CloseFound, CloseCommand, CommandInv, Before, Inside, After, workVars, ctxVars
<1>21. ASSUME NEW s \in Servers, appendOutput(s) \/ Deadline(s) \/ CancelServer(s)
                                 \/ cancelServer(s) \/ CallCancel(s)
       PROVE  UNCHANGED <<pc, command, sessions>>
  BY <1>21 DEF appendOutput, Deadline, CancelServer, cancelServer, CallCancel, taskVars, workVars,
     ctxVars, outputVars, callVars
<1>22. CASE CancelTask \/ Clear \/ finishTask \/ UNCHANGED vars
  BY <1>1, <1>22 DEF CancelTask, Clear, finishTask, vars, taskVars, workVars, ctxVars, outputVars,
     callVars
<1>23. QED
  BY <1>1, <1>2, <1>3, <1>4, <1>5, <1>6, <1>7, <1>8, <1>9, <1>10, <1>11, <1>12, <1>13, <1>14, <1>15,
     <1>16, <1>17, <1>18, <1>19, <1>20, <1>21, <1>22
     DEF Next, Setup, Collect, Leave, Cancelling

\* finishServer, or whoever ended the result before it, leaves a result that is over.
LEMMA ResultStep ==
  ASSUME TypeOK, ResultInv, DoneInv, [Next]_vars
  PROVE  ResultInv'
<1>0. pc \in [Servers -> PC] /\ result \in [Servers -> ActiveStatus \cup EndStatus] /\ out \in [Servers -> EndStatus]
  BY DEF TypeOK
<1>1. CASE UNCHANGED <<pc, result>>
  BY <1>0, <1>1 DEF ResultInv, DoneInv, Before, Inside, After, workVars, isActiveStatus,
     ActiveStatus, EndStatus
<1>2. ASSUME NEW s \in Servers, Spawn(s) PROVE ResultInv'
  BY <1>0, <1>2 DEF Spawn, Goto, ResultInv, DoneInv, Before, Inside, After, workVars,
     isActiveStatus, ActiveStatus, EndStatus
<1>3. ASSUME NEW s \in Servers, AcquireSlot(s) PROVE ResultInv'
  BY <1>0, <1>3 DEF AcquireSlot, Goto, ResultInv, DoneInv, Before, Inside, After, workVars,
     isActiveStatus, ActiveStatus, EndStatus
<1>4. ASSUME NEW s \in Servers, CanceledInQueue(s) PROVE ResultInv'
  BY <1>0, <1>4 DEF CanceledInQueue, Decide, Goto, ResultInv, DoneInv, Before, Inside, After,
     workVars, isActiveStatus, ActiveStatus, EndStatus
<1>5. ASSUME NEW s \in Servers, ToConnecting(s) PROVE ResultInv'
  BY <1>0, <1>5 DEF ToConnecting, transitionServer, Goto, ResultInv, DoneInv, Before, Inside,
     After, workVars, isActiveStatus, ActiveStatus, EndStatus
<1>6. ASSUME NEW s \in Servers, ToRunning(s) PROVE ResultInv'
  BY <1>0, <1>6 DEF ToRunning, transitionServer, Goto, ResultInv, DoneInv, Before, Inside, After,
     workVars, isActiveStatus, ActiveStatus, EndStatus
<1>7. ASSUME NEW s \in Servers, Lookup(s) PROVE ResultInv'
  BY <1>0, <1>7 DEF Lookup, Decide, Goto, ResultInv, DoneInv, Before, Inside, After, workVars,
     isActiveStatus, ActiveStatus, EndStatus
<1>8. ASSUME NEW s \in Servers, Dial(s) PROVE ResultInv'
  BY <1>0, <1>8 DEF Dial, Decide, Goto, ResultInv, DoneInv, Before, Inside, After, workVars,
     isActiveStatus, ActiveStatus, EndStatus
<1>9. ASSUME NEW s \in Servers, Commit(s) PROVE ResultInv'
  BY <1>0, <1>9 DEF Commit, Decide, Goto, ResultInv, DoneInv, Before, Inside, After, workVars,
     isActiveStatus, ActiveStatus, EndStatus
<1>10. ASSUME NEW s \in Servers, StartCommand(s) PROVE ResultInv'
  BY <1>0, <1>10 DEF StartCommand, Decide, Goto, ResultInv, DoneInv, Before, Inside, After,
     workVars, isActiveStatus, ActiveStatus, EndStatus
<1>11. ASSUME NEW s \in Servers, setSession(s) PROVE ResultInv'
  BY <1>0, <1>11 DEF setSession, Goto, ResultInv, DoneInv, Before, Inside, After, workVars,
     isActiveStatus, ActiveStatus, EndStatus
<1>12. ASSUME NEW s \in Servers, CollectAborted(s) PROVE ResultInv'
  BY <1>0, <1>12 DEF CollectAborted, Decide, Goto, CloseCommand, ResultInv, DoneInv, Before,
     Inside, After, workVars, isActiveStatus, ActiveStatus, EndStatus
<1>13. ASSUME NEW s \in Servers, CollectEnds(s) PROVE ResultInv'
  BY <1>0, <1>13 DEF CollectEnds, Decide, Goto, ResultInv, DoneInv, Before, Inside, After,
     workVars, isActiveStatus, ActiveStatus, EndStatus
<1>14. ASSUME NEW s \in Servers, finishServer(s) PROVE ResultInv'
  BY <1>0, <1>14 DEF finishServer, Goto, ResultInv, DoneInv, Before, Inside, After, workVars,
     isActiveStatus, ActiveStatus, EndStatus
<1>15. ASSUME NEW s \in Servers, Unwind(s) PROVE ResultInv'
  BY <1>0, <1>15 DEF Unwind, Goto, ResultInv, DoneInv, Before, Inside, After, workVars,
     isActiveStatus, ActiveStatus, EndStatus
<1>16. ASSUME NEW s \in Servers, Release(s) PROVE ResultInv'
  BY <1>0, <1>16 DEF Release, Goto, ResultInv, DoneInv, Before, Inside, After, workVars,
     isActiveStatus, ActiveStatus, EndStatus
<1>17. ASSUME NEW s \in Servers, clearServerRuntime(s) PROVE ResultInv'
  BY <1>0, <1>17 DEF clearServerRuntime, Goto, ResultInv, DoneInv, Before, Inside, After, workVars,
     isActiveStatus, ActiveStatus, EndStatus
<1>18. ASSUME NEW s \in Servers, cancelServer(s) PROVE ResultInv'
  BY <1>0, <1>18 DEF cancelServer, ResultInv, DoneInv, Before, Inside, After, workVars,
     isActiveStatus, ActiveStatus, EndStatus
<1>19. ASSUME NEW s \in Servers, appendOutput(s) \/ Deadline(s) \/ CommandExits(s)
                                 \/ CancelServer(s) \/ CallCancel(s) \/ CallClose(s)
                                 \/ CloseFound(s)
       PROVE  UNCHANGED <<pc, result>>
  BY <1>19 DEF appendOutput, Deadline, CommandExits, CancelServer, CallCancel, CallClose,
     CloseFound, CloseCommand, taskVars, workVars, ctxVars, outputVars, callVars
<1>20. CASE CancelTask \/ Clear \/ finishTask \/ UNCHANGED vars
  BY <1>1, <1>20 DEF CancelTask, Clear, finishTask, vars, taskVars, workVars, ctxVars, outputVars,
     callVars
<1>21. QED
  BY <1>1, <1>2, <1>3, <1>4, <1>5, <1>6, <1>7, <1>8, <1>9, <1>10, <1>11, <1>12, <1>13, <1>14, <1>15,
     <1>16, <1>17, <1>18, <1>19, <1>20
     DEF Next, Setup, Collect, Leave, Cancelling

\* select takes a place only if there is one.
LEMMA LimitStep ==
  ASSUME TypeOK, LimitInv, [Next]_vars
  PROVE  LimitInv'
<1>0. IsFiniteSet(slots) /\ Cardinality(slots) \in Nat
  BY ServersAssumption, FS_Subset, FS_CardinalityType DEF TypeOK
<1>1. CASE UNCHANGED <<slots>>
  BY <1>0, <1>1 DEF LimitInv
<1>2. ASSUME NEW s \in Servers, AcquireSlot(s) PROVE LimitInv'
  <2>1. slots' = slots \cup {s} /\ Cardinality(slots) < Concurrency
    BY <1>2 DEF AcquireSlot
  <2>2. Cardinality(slots') <= Cardinality(slots) + 1
    BY <1>0, <2>1, FS_AddElement
  <2>3. QED
    BY <1>0, <2>1, <2>2, FS_AddElement, ConcurrencyAssumption DEF LimitInv
<1>3. ASSUME NEW s \in Servers, Release(s) PROVE LimitInv'
  <2>1. slots' = slots \ {s}
    BY <1>3 DEF Release
  <2>2. Cardinality(slots') = IF s \in slots THEN Cardinality(slots) - 1 ELSE Cardinality(slots)
    BY <1>0, <2>1, FS_RemoveElement
  <2>3. QED
    BY <1>0, <2>2, ConcurrencyAssumption DEF LimitInv
<1>4. ASSUME NEW s \in Servers, Spawn(s) \/ CanceledInQueue(s) \/ ToConnecting(s)
                                \/ ToRunning(s) \/ Lookup(s) \/ Dial(s) \/ Commit(s)
                                \/ StartCommand(s) \/ setSession(s) \/ CollectAborted(s)
                                \/ CollectEnds(s) \/ appendOutput(s) \/ finishServer(s)
                                \/ Unwind(s) \/ clearServerRuntime(s) \/ Deadline(s)
                                \/ CommandExits(s) \/ CancelServer(s) \/ cancelServer(s)
                                \/ CallCancel(s) \/ CallClose(s) \/ CloseFound(s)
       PROVE  UNCHANGED <<slots>>
  BY <1>4 DEF Spawn, CanceledInQueue, ToConnecting, ToRunning, Lookup, Dial, Commit, StartCommand,
     setSession, CollectAborted, CollectEnds, appendOutput, finishServer, Unwind,
     clearServerRuntime, Deadline, CommandExits, CancelServer, cancelServer, CallCancel, CallClose,
     CloseFound, CloseCommand, Decide, Goto, transitionServer, taskVars, workVars, ctxVars,
     outputVars, callVars
<1>5. CASE CancelTask \/ Clear \/ finishTask \/ UNCHANGED vars
  BY <1>1, <1>5 DEF CancelTask, Clear, finishTask, vars, taskVars, workVars, ctxVars, outputVars,
     callVars
<1>6. QED
  BY <1>1, <1>2, <1>3, <1>4, <1>5
     DEF Next, Setup, Collect, Leave, Cancelling

\* What finishTask publishes for results that are over.
LEMMA AggregateVerdict ==
  ASSUME TypeOK, \A s \in Servers : ~isActiveStatus(result[s])
  PROVE  /\ ~isActiveStatus(aggregateStatus)
         /\ aggregateStatus = "completed" <=> \A s \in Servers : result[s] = "completed"
         /\ \E s \in Servers : result[s] = aggregateStatus
<1>1. \A s \in Servers : result[s] \in {"completed", "failed", "timeout", "canceled"}
  BY DEF TypeOK, isActiveStatus, EndStatus
<1>2. PICK w \in Servers : TRUE
  BY ServersAssumption
<1>3. QED
  BY <1>1, <1>2 DEF aggregateStatus, isActiveStatus, ActiveStatus

\* runTask waits for every worker before finishTask.
LEMMA DoneStep ==
  ASSUME TypeOK, DoneInv, ResultInv, [Next]_vars
  PROVE  DoneInv'
<1>0. pc \in [Servers -> PC]
  BY DEF TypeOK
<1>1. CASE UNCHANGED <<registered, pc, taskStatus, taskDone>>
  BY <1>0, <1>1 DEF DoneInv, isActiveStatus, ActiveStatus, workVars, taskVars
<1>2. ASSUME NEW s \in Servers, Spawn(s) PROVE DoneInv'
  BY <1>0, <1>2 DEF Spawn, Goto, DoneInv, isActiveStatus, ActiveStatus, workVars, taskVars
<1>3. ASSUME NEW s \in Servers, AcquireSlot(s) PROVE DoneInv'
  BY <1>0, <1>3 DEF AcquireSlot, Goto, DoneInv, isActiveStatus, ActiveStatus, workVars, taskVars
<1>4. ASSUME NEW s \in Servers, CanceledInQueue(s) PROVE DoneInv'
  BY <1>0, <1>4 DEF CanceledInQueue, Decide, Goto, DoneInv, isActiveStatus, ActiveStatus, workVars,
     taskVars
<1>5. ASSUME NEW s \in Servers, ToConnecting(s) PROVE DoneInv'
  BY <1>0, <1>5 DEF ToConnecting, transitionServer, Goto, DoneInv, isActiveStatus, ActiveStatus,
     workVars, taskVars
<1>6. ASSUME NEW s \in Servers, ToRunning(s) PROVE DoneInv'
  BY <1>0, <1>6 DEF ToRunning, transitionServer, Goto, DoneInv, isActiveStatus, ActiveStatus,
     workVars, taskVars
<1>7. ASSUME NEW s \in Servers, Lookup(s) PROVE DoneInv'
  BY <1>0, <1>7 DEF Lookup, Decide, Goto, DoneInv, isActiveStatus, ActiveStatus, workVars, taskVars
<1>8. ASSUME NEW s \in Servers, Dial(s) PROVE DoneInv'
  BY <1>0, <1>8 DEF Dial, Decide, Goto, DoneInv, isActiveStatus, ActiveStatus, workVars, taskVars
<1>9. ASSUME NEW s \in Servers, Commit(s) PROVE DoneInv'
  BY <1>0, <1>9 DEF Commit, Decide, Goto, DoneInv, isActiveStatus, ActiveStatus, workVars, taskVars
<1>10. ASSUME NEW s \in Servers, StartCommand(s) PROVE DoneInv'
  BY <1>0, <1>10 DEF StartCommand, Decide, Goto, DoneInv, isActiveStatus, ActiveStatus, workVars,
     taskVars
<1>11. ASSUME NEW s \in Servers, setSession(s) PROVE DoneInv'
  BY <1>0, <1>11 DEF setSession, Goto, DoneInv, isActiveStatus, ActiveStatus, workVars, taskVars
<1>12. ASSUME NEW s \in Servers, CollectAborted(s) PROVE DoneInv'
  BY <1>0, <1>12 DEF CollectAborted, Decide, Goto, CloseCommand, DoneInv, isActiveStatus,
     ActiveStatus, workVars, taskVars
<1>13. ASSUME NEW s \in Servers, CollectEnds(s) PROVE DoneInv'
  BY <1>0, <1>13 DEF CollectEnds, Decide, Goto, DoneInv, isActiveStatus, ActiveStatus, workVars,
     taskVars
<1>14. ASSUME NEW s \in Servers, finishServer(s) PROVE DoneInv'
  BY <1>0, <1>14 DEF finishServer, Goto, DoneInv, isActiveStatus, ActiveStatus, workVars, taskVars
<1>15. ASSUME NEW s \in Servers, Unwind(s) PROVE DoneInv'
  BY <1>0, <1>15 DEF Unwind, Goto, DoneInv, isActiveStatus, ActiveStatus, workVars, taskVars
<1>16. ASSUME NEW s \in Servers, Release(s) PROVE DoneInv'
  BY <1>0, <1>16 DEF Release, Goto, DoneInv, isActiveStatus, ActiveStatus, workVars, taskVars
<1>17. ASSUME NEW s \in Servers, clearServerRuntime(s) PROVE DoneInv'
  BY <1>0, <1>17 DEF clearServerRuntime, Goto, DoneInv, isActiveStatus, ActiveStatus, workVars,
     taskVars
<1>18. ASSUME NEW s \in Servers, appendOutput(s) \/ Deadline(s) \/ CommandExits(s)
                                 \/ CancelServer(s) \/ cancelServer(s) \/ CallCancel(s)
                                 \/ CallClose(s) \/ CloseFound(s)
       PROVE  UNCHANGED <<registered, pc, taskStatus, taskDone>>
  BY <1>18 DEF appendOutput, Deadline, CommandExits, CancelServer, cancelServer, CallCancel,
     CallClose, CloseFound, CloseCommand, taskVars, workVars, ctxVars, outputVars, callVars
<1>19. CASE Clear
  BY <1>0, <1>19 DEF Clear, DoneInv, isActiveStatus, ActiveStatus, workVars, taskVars
<1>20. CASE finishTask
  <2>1. \A s \in Servers : ~isActiveStatus(result[s])
    BY <1>20 DEF finishTask, ResultInv, After
  <2>2. ~isActiveStatus(aggregateStatus)
    BY <2>1, AggregateVerdict
  <2>3. registered
    BY <1>20 DEF finishTask, DoneInv
  <2>4. QED
    BY <1>20, <2>2, <2>3 DEF finishTask, DoneInv, workVars
<1>21. CASE CancelTask \/ UNCHANGED vars
  BY <1>1, <1>21 DEF CancelTask, vars, taskVars, workVars, ctxVars, outputVars, callVars
<1>22. QED
  BY <1>1, <1>2, <1>3, <1>4, <1>5, <1>6, <1>7, <1>8, <1>9, <1>10, <1>11, <1>12, <1>13, <1>14, <1>15,
     <1>16, <1>17, <1>18, <1>19, <1>20, <1>21
     DEF Next, Setup, Collect, Leave, Cancelling

\* No result changes after finishTask has summed them up.
LEMMA VerdictStep ==
  ASSUME TypeOK, VerdictInv, DoneInv, ResultInv, [Next]_vars
  PROVE  VerdictInv'
<1>0. pc \in [Servers -> PC] /\ result \in [Servers -> ActiveStatus \cup EndStatus]
  BY DEF TypeOK
<1>1. CASE UNCHANGED <<result, taskStatus, taskDone>>
  BY <1>0, <1>1 DEF VerdictInv, DoneInv, ResultInv, After, taskVars, isActiveStatus, ActiveStatus
<1>2. ASSUME NEW s \in Servers, ToConnecting(s) PROVE VerdictInv'
  BY <1>0, <1>2 DEF ToConnecting, transitionServer, Goto, VerdictInv, DoneInv, ResultInv, After,
     taskVars, isActiveStatus, ActiveStatus
<1>3. ASSUME NEW s \in Servers, ToRunning(s) PROVE VerdictInv'
  BY <1>0, <1>3 DEF ToRunning, transitionServer, Goto, VerdictInv, DoneInv, ResultInv, After,
     taskVars, isActiveStatus, ActiveStatus
<1>4. ASSUME NEW s \in Servers, finishServer(s) PROVE VerdictInv'
  BY <1>0, <1>4 DEF finishServer, Goto, VerdictInv, DoneInv, ResultInv, After, taskVars,
     isActiveStatus, ActiveStatus
<1>5. ASSUME NEW s \in Servers, cancelServer(s) PROVE VerdictInv'
  BY <1>0, <1>5 DEF cancelServer, VerdictInv, DoneInv, ResultInv, After, taskVars, isActiveStatus,
     ActiveStatus
<1>6. ASSUME NEW s \in Servers, Spawn(s) \/ AcquireSlot(s) \/ CanceledInQueue(s) \/ Lookup(s)
                                \/ Dial(s) \/ Commit(s) \/ StartCommand(s) \/ setSession(s)
                                \/ CollectAborted(s) \/ CollectEnds(s) \/ appendOutput(s)
                                \/ Unwind(s) \/ Release(s) \/ clearServerRuntime(s)
                                \/ Deadline(s) \/ CommandExits(s) \/ CancelServer(s)
                                \/ CallCancel(s) \/ CallClose(s) \/ CloseFound(s)
       PROVE  UNCHANGED <<result, taskStatus, taskDone>>
  BY <1>6 DEF Spawn, AcquireSlot, CanceledInQueue, Lookup, Dial, Commit, StartCommand, setSession,
     CollectAborted, CollectEnds, appendOutput, Unwind, Release, clearServerRuntime, Deadline,
     CommandExits, CancelServer, CallCancel, CallClose, CloseFound, CloseCommand, Decide, Goto,
     taskVars, workVars, ctxVars, outputVars, callVars
<1>7. CASE finishTask
  <2>1. \A s \in Servers : ~isActiveStatus(result[s])
    BY <1>7 DEF finishTask, ResultInv, After
  <2>2. registered
    BY <1>7 DEF finishTask, DoneInv
  <2>3. taskStatus' = aggregateStatus /\ result' = result
    BY <1>7, <2>2 DEF finishTask
  <2>4. QED
    BY <2>1, <2>3, AggregateVerdict DEF VerdictInv
<1>8. CASE CancelTask \/ Clear \/ UNCHANGED vars
  BY <1>1, <1>8 DEF CancelTask, Clear, vars, taskVars, workVars, ctxVars, outputVars, callVars
<1>9. QED
  BY <1>1, <1>2, <1>3, <1>4, <1>5, <1>6, <1>7, <1>8
     DEF Next, Setup, Collect, Leave, Cancelling

\* A context ends, and a "canceled" is decided, only after a call that asked for it.
LEMMA CancelStep ==
  ASSUME TypeOK, CancelInv, [Next]_vars
  PROVE  CancelInv'
<1>0. pc \in [Servers -> PC] /\ out \in [Servers -> EndStatus]
  BY DEF TypeOK
<1>1. CASE UNCHANGED <<pc, out, toMark, toCancel, asked, taskCanceled, taskMark, serverCanceled>>
  BY <1>0, <1>1 DEF CancelInv, ServerDone, CommandDone, workVars, taskVars, ctxVars, callVars
<1>2. ASSUME NEW s \in Servers, Spawn(s) PROVE CancelInv'
  BY <1>0, <1>2 DEF Spawn, Goto, CancelInv, ServerDone, CommandDone, workVars, taskVars, ctxVars,
     callVars
<1>3. ASSUME NEW s \in Servers, AcquireSlot(s) PROVE CancelInv'
  BY <1>0, <1>3 DEF AcquireSlot, Goto, CancelInv, ServerDone, CommandDone, workVars, taskVars,
     ctxVars, callVars
<1>4. ASSUME NEW s \in Servers, CanceledInQueue(s) PROVE CancelInv'
  BY <1>0, <1>4 DEF CanceledInQueue, Decide, Goto, CancelInv, ServerDone, CommandDone, workVars,
     taskVars, ctxVars, callVars
<1>5. ASSUME NEW s \in Servers, ToConnecting(s) PROVE CancelInv'
  BY <1>0, <1>5 DEF ToConnecting, transitionServer, Goto, CancelInv, ServerDone, CommandDone,
     workVars, taskVars, ctxVars, callVars
<1>6. ASSUME NEW s \in Servers, ToRunning(s) PROVE CancelInv'
  BY <1>0, <1>6 DEF ToRunning, transitionServer, Goto, CancelInv, ServerDone, CommandDone,
     workVars, taskVars, ctxVars, callVars
<1>7. ASSUME NEW s \in Servers, Lookup(s) PROVE CancelInv'
  BY <1>0, <1>7 DEF Lookup, Decide, Goto, CancelInv, ServerDone, CommandDone, workVars, taskVars,
     ctxVars, callVars
<1>8. ASSUME NEW s \in Servers, Dial(s) PROVE CancelInv'
  BY <1>0, <1>8 DEF Dial, Decide, Goto, ErrorStatus, CancelInv, ServerDone, CommandDone, workVars,
     taskVars, ctxVars, callVars
<1>9. ASSUME NEW s \in Servers, Commit(s) PROVE CancelInv'
  BY <1>0, <1>9 DEF Commit, Decide, Goto, CancelInv, ServerDone, CommandDone, workVars, taskVars,
     ctxVars, callVars
<1>10. ASSUME NEW s \in Servers, StartCommand(s) PROVE CancelInv'
  BY <1>0, <1>10 DEF StartCommand, Decide, Goto, ErrorStatus, CancelInv, ServerDone, CommandDone,
     workVars, taskVars, ctxVars, callVars
<1>11. ASSUME NEW s \in Servers, setSession(s) PROVE CancelInv'
  BY <1>0, <1>11 DEF setSession, Goto, CancelInv, ServerDone, CommandDone, workVars, taskVars,
     ctxVars, callVars
<1>12. ASSUME NEW s \in Servers, CollectAborted(s) PROVE CancelInv'
  BY <1>0, <1>12 DEF CollectAborted, Decide, Goto, CloseCommand, CancelInv, ServerDone,
     CommandDone, workVars, taskVars, ctxVars, callVars
<1>13. ASSUME NEW s \in Servers, CollectEnds(s) PROVE CancelInv'
  BY <1>0, <1>13 DEF CollectEnds, Decide, Goto, ErrorStatus, CancelInv, ServerDone, CommandDone,
     workVars, taskVars, ctxVars, callVars
<1>14. ASSUME NEW s \in Servers, finishServer(s) PROVE CancelInv'
  BY <1>0, <1>14 DEF finishServer, Goto, CancelInv, ServerDone, CommandDone, workVars, taskVars,
     ctxVars, callVars
<1>15. ASSUME NEW s \in Servers, Unwind(s) PROVE CancelInv'
  BY <1>0, <1>15 DEF Unwind, Goto, CancelInv, ServerDone, CommandDone, workVars, taskVars, ctxVars,
     callVars
<1>16. ASSUME NEW s \in Servers, Release(s) PROVE CancelInv'
  BY <1>0, <1>16 DEF Release, Goto, CancelInv, ServerDone, CommandDone, workVars, taskVars,
     ctxVars, callVars
<1>17. ASSUME NEW s \in Servers, clearServerRuntime(s) PROVE CancelInv'
  BY <1>0, <1>17 DEF clearServerRuntime, Goto, CancelInv, ServerDone, CommandDone, workVars,
     taskVars, ctxVars, callVars
<1>18. ASSUME NEW s \in Servers, CancelServer(s) PROVE CancelInv'
  BY <1>0, <1>18 DEF CancelServer, CancelInv, ServerDone, CommandDone, workVars, taskVars, ctxVars,
     callVars
<1>19. ASSUME NEW s \in Servers, cancelServer(s) PROVE CancelInv'
  BY <1>0, <1>19 DEF cancelServer, CancelInv, ServerDone, CommandDone, workVars, taskVars, ctxVars,
     callVars
<1>20. ASSUME NEW s \in Servers, CallCancel(s) PROVE CancelInv'
  BY <1>0, <1>20 DEF CallCancel, CancelInv, ServerDone, CommandDone, workVars, taskVars, ctxVars,
     callVars
<1>21. ASSUME NEW s \in Servers, appendOutput(s) \/ Deadline(s) \/ CommandExits(s)
                                 \/ CallClose(s) \/ CloseFound(s)
       PROVE  UNCHANGED <<pc, out, toMark, toCancel, asked, taskCanceled, taskMark, serverCanceled>>
  BY <1>21 DEF appendOutput, Deadline, CommandExits, CallClose, CloseFound, CloseCommand, taskVars,
     workVars, ctxVars, outputVars, callVars
<1>22. CASE CancelTask
  BY <1>0, <1>22 DEF CancelTask, CancelInv, ServerDone, CommandDone, workVars, taskVars, ctxVars,
     callVars
<1>23. CASE Clear \/ finishTask \/ UNCHANGED vars
  BY <1>1, <1>23 DEF Clear, finishTask, vars, taskVars, workVars, ctxVars, outputVars, callVars
<1>24. QED
  BY <1>1, <1>2, <1>3, <1>4, <1>5, <1>6, <1>7, <1>8, <1>9, <1>10, <1>11, <1>12, <1>13, <1>14, <1>15,
     <1>16, <1>17, <1>18, <1>19, <1>20, <1>21, <1>22, <1>23
     DEF Next, Setup, Collect, Leave, Cancelling

\* "canceled" is published by cancelServer, or by a worker whose context has ended.
LEMMA AskedStep ==
  ASSUME TypeOK, CanceledOnlyIfAsked, CancelInv, [Next]_vars
  PROVE  CanceledOnlyIfAsked'
<1>0. pc \in [Servers -> PC] /\ result \in [Servers -> ActiveStatus \cup EndStatus] /\ out \in [Servers -> EndStatus]
  BY DEF TypeOK
<1>1. CASE UNCHANGED <<result, asked, taskCanceled>>
  BY <1>0, <1>1 DEF CanceledOnlyIfAsked, CancelInv, taskVars, callVars
<1>2. ASSUME NEW s \in Servers, ToConnecting(s) PROVE CanceledOnlyIfAsked'
  BY <1>0, <1>2 DEF ToConnecting, transitionServer, Goto, CanceledOnlyIfAsked, CancelInv, taskVars,
     callVars
<1>3. ASSUME NEW s \in Servers, ToRunning(s) PROVE CanceledOnlyIfAsked'
  BY <1>0, <1>3 DEF ToRunning, transitionServer, Goto, CanceledOnlyIfAsked, CancelInv, taskVars,
     callVars
<1>4. ASSUME NEW s \in Servers, finishServer(s) PROVE CanceledOnlyIfAsked'
  BY <1>0, <1>4 DEF finishServer, Goto, CanceledOnlyIfAsked, CancelInv, taskVars, callVars
<1>5. ASSUME NEW s \in Servers, CancelServer(s) PROVE CanceledOnlyIfAsked'
  BY <1>0, <1>5 DEF CancelServer, CanceledOnlyIfAsked, CancelInv, taskVars, callVars
<1>6. ASSUME NEW s \in Servers, cancelServer(s) PROVE CanceledOnlyIfAsked'
  BY <1>0, <1>6 DEF cancelServer, CanceledOnlyIfAsked, CancelInv, taskVars, callVars
<1>7. ASSUME NEW s \in Servers, Spawn(s) \/ AcquireSlot(s) \/ CanceledInQueue(s) \/ Lookup(s)
                                \/ Dial(s) \/ Commit(s) \/ StartCommand(s) \/ setSession(s)
                                \/ CollectAborted(s) \/ CollectEnds(s) \/ appendOutput(s)
                                \/ Unwind(s) \/ Release(s) \/ clearServerRuntime(s)
                                \/ Deadline(s) \/ CommandExits(s) \/ CallCancel(s)
                                \/ CallClose(s) \/ CloseFound(s)
       PROVE  UNCHANGED <<result, asked, taskCanceled>>
  BY <1>7 DEF Spawn, AcquireSlot, CanceledInQueue, Lookup, Dial, Commit, StartCommand, setSession,
     CollectAborted, CollectEnds, appendOutput, Unwind, Release, clearServerRuntime, Deadline,
     CommandExits, CallCancel, CallClose, CloseFound, CloseCommand, Decide, Goto, taskVars,
     workVars, ctxVars, outputVars, callVars
<1>8. CASE CancelTask
  BY <1>0, <1>8 DEF CancelTask, CanceledOnlyIfAsked, CancelInv, taskVars, callVars
<1>9. CASE Clear \/ finishTask \/ UNCHANGED vars
  BY <1>1, <1>9 DEF Clear, finishTask, vars, taskVars, workVars, ctxVars, outputVars, callVars
<1>10. QED
  BY <1>1, <1>2, <1>3, <1>4, <1>5, <1>6, <1>7, <1>8, <1>9
     DEF Next, Setup, Collect, Leave, Cancelling

\* What ResultIsFinal says of a step.
ResultsKept ==
  \A s \in Servers : ~isActiveStatus(result[s]) =>
       /\ result'[s] = result[s]
       /\ output'[s] = output[s]
       /\ s \in truncated' <=> s \in truncated

\* A result that is over is left alone by every worker and every cancelling call.
LEMMA FinalStep ==
  ASSUME TypeOK, [Next]_vars
  PROVE  ResultsKept
<1>0. result \in [Servers -> ActiveStatus \cup EndStatus] /\ output \in [Servers -> 0..OutputLimit]
  BY DEF TypeOK
<1>1. CASE UNCHANGED <<result, output, truncated>>
  BY <1>0, <1>1 DEF ResultsKept, taskVars, outputVars, isActiveStatus, ActiveStatus, EndStatus
<1>2. ASSUME NEW s \in Servers, ToConnecting(s) PROVE ResultsKept
  BY <1>0, <1>2 DEF ToConnecting, transitionServer, Goto, ResultsKept, taskVars, outputVars,
     isActiveStatus, ActiveStatus, EndStatus
<1>3. ASSUME NEW s \in Servers, ToRunning(s) PROVE ResultsKept
  BY <1>0, <1>3 DEF ToRunning, transitionServer, Goto, ResultsKept, taskVars, outputVars,
     isActiveStatus, ActiveStatus, EndStatus
<1>4. ASSUME NEW s \in Servers, appendOutput(s) PROVE ResultsKept
  BY <1>0, <1>4 DEF appendOutput, ResultsKept, taskVars, outputVars, isActiveStatus, ActiveStatus,
     EndStatus
<1>5. ASSUME NEW s \in Servers, finishServer(s) PROVE ResultsKept
  BY <1>0, <1>5 DEF finishServer, Goto, ResultsKept, taskVars, outputVars, isActiveStatus,
     ActiveStatus, EndStatus
<1>6. ASSUME NEW s \in Servers, cancelServer(s) PROVE ResultsKept
  BY <1>0, <1>6 DEF cancelServer, ResultsKept, taskVars, outputVars, isActiveStatus, ActiveStatus,
     EndStatus
<1>7. ASSUME NEW s \in Servers, Spawn(s) \/ AcquireSlot(s) \/ CanceledInQueue(s) \/ Lookup(s)
                                \/ Dial(s) \/ Commit(s) \/ StartCommand(s) \/ setSession(s)
                                \/ CollectAborted(s) \/ CollectEnds(s) \/ Unwind(s)
                                \/ Release(s) \/ clearServerRuntime(s) \/ Deadline(s)
                                \/ CommandExits(s) \/ CancelServer(s) \/ CallCancel(s)
                                \/ CallClose(s) \/ CloseFound(s)
       PROVE  UNCHANGED <<result, output, truncated>>
  BY <1>7 DEF Spawn, AcquireSlot, CanceledInQueue, Lookup, Dial, Commit, StartCommand, setSession,
     CollectAborted, CollectEnds, Unwind, Release, clearServerRuntime, Deadline, CommandExits,
     CancelServer, CallCancel, CallClose, CloseFound, CloseCommand, Decide, Goto, taskVars,
     workVars, ctxVars, outputVars, callVars
<1>8. CASE CancelTask \/ Clear \/ finishTask \/ UNCHANGED vars
  BY <1>1, <1>8 DEF CancelTask, Clear, finishTask, vars, taskVars, workVars, ctxVars, outputVars,
     callVars
<1>9. QED
  BY <1>1, <1>2, <1>3, <1>4, <1>5, <1>6, <1>7, <1>8
     DEF Next, Setup, Collect, Leave, Cancelling

----------------------------------------------------------------------------
\* The theorems.

\* Start leaves a task whose workers have not begun.
LEMMA InitInv == Init => IndInv
<1> SUFFICES ASSUME Init PROVE IndInv
  OBVIOUS
<1> USE DEF Init
<1>1. TypeOK
  <2>1. 0 \in 0..OutputLimit /\ {} \subseteq Servers
    BY OutputAssumption
  <2>2. /\ registered \in BOOLEAN /\ taskCanceled \in BOOLEAN /\ taskDone \in BOOLEAN
        /\ taskStatus \in ActiveStatus \cup EndStatus
        /\ result \in [Servers -> ActiveStatus \cup EndStatus]
        /\ pc \in [Servers -> PC]
        /\ out \in [Servers -> EndStatus]
    BY DEF PC, ActiveStatus, EndStatus
  <2>3. /\ command \in [Servers -> {"none", "started", "ok", "error", "closed"}]
        /\ output \in [Servers -> 0..OutputLimit]
    BY <2>1
  <2>4. QED
    BY <2>1, <2>2, <2>3 DEF TypeOK
<1>2. SlotInv /\ ClientInv /\ CommandInv /\ ResultInv
  BY DEF SlotInv, ClientInv, CommandInv, ResultInv, Inside, After
<1>3. LimitInv
  BY FS_EmptySet, ConcurrencyAssumption DEF LimitInv
<1>4. DoneInv /\ VerdictInv /\ CancelInv /\ CanceledOnlyIfAsked
  BY DEF DoneInv, VerdictInv, CancelInv, CanceledOnlyIfAsked, isActiveStatus, ActiveStatus
<1>5. QED
  BY <1>1, <1>2, <1>3, <1>4 DEF IndInv

\* The invariant is inductive.
LEMMA InvStep == IndInv /\ [Next]_vars => IndInv'
BY TypeStep, SlotStep, ClientStep, LimitStep, CommandStep, ResultStep, DoneStep, VerdictStep,
   CancelStep,
   AskedStep DEF IndInv

\* Every state of the task that runServer, runTask and the cancelling calls can reach is in IndInv.
THEOREM Invariance == Spec => []IndInv
BY InitInv, InvStep, PTL DEF Spec

\* For any number of servers, at most Concurrency clients are open at a time (runTask's semaphore),
\* up to and including their Close, and every output is within its limit (appendOutput).
THEOREM LimitsKept == Spec => []WithinLimits
<1>1. IndInv => WithinLimits
  <2> SUFFICES ASSUME IndInv PROVE WithinLimits
    OBVIOUS
  <2>1. clients \subseteq slots
    BY DEF IndInv, TypeOK, ClientInv
  <2>2. IsFiniteSet(slots)
    BY ServersAssumption, FS_Subset DEF IndInv, TypeOK
  <2>3. Cardinality(clients) <= Cardinality(slots) /\ Cardinality(clients) \in Nat /\ Cardinality(slots) \in Nat
    BY <2>1, <2>2, FS_Subset, FS_CardinalityType
  <2>4. QED
    BY <2>3, ConcurrencyAssumption DEF IndInv, LimitInv, WithinLimits, ConcurrencyLimit
<1>2. QED
  BY <1>1, Invariance, PTL

\* A task that is over or cleared left no worker, client, session or command behind, says what its
\* results say (finishTask), and shows no server as canceled that nobody cancelled (cancelServer).
THEOREM VerdictsTrue == Spec => []VerdictsAreTrue
<1>1. IndInv => VerdictsAreTrue
  <2> SUFFICES ASSUME IndInv PROVE VerdictsAreTrue
    OBVIOUS
  <2>1. ~isActiveStatus(taskStatus) \/ ~registered \/ taskDone => taskDone
    BY DEF IndInv, DoneInv
  <2>2. ASSUME taskDone
        PROVE  \A s \in Servers : /\ pc[s] = "exited" /\ s \notin slots /\ s \notin clients
                                  /\ s \notin sessions /\ command[s] # "started"
                                  /\ result[s] \in EndStatus
    BY <2>2 DEF IndInv, DoneInv, SlotInv, ClientInv, CommandInv, ResultInv, After, TypeOK,
       isActiveStatus
  <2>3. slots \subseteq Servers /\ clients \subseteq Servers /\ sessions \subseteq Servers
    BY DEF IndInv, TypeOK
  <2>4. TaskVerdict
    BY <2>1, <2>2, <2>3 DEF IndInv, VerdictInv, TaskVerdict
  <2>5. QED
    BY <2>4 DEF IndInv, VerdictsAreTrue
<1>2. QED
  BY <1>1, Invariance, PTL

\* A result that is over never changes, whatever worker, chunk, deadline or cancel comes late
\* (transitionServer, appendOutput, finishServer, cancelServer).
THEOREM ResultsFinal == Spec => ResultIsFinal
<1>1. IndInv /\ [Next]_vars => [ResultsKept]_vars
  BY FinalStep DEF IndInv
<1>2. QED
  BY <1>1, Invariance, PTL DEF Spec, ResultIsFinal, ResultsKept
=============================================================================
