------------------------- MODULE SftpTransferProofs -------------------------
(***************************************************************************)
(* Proofs about SftpTransfer, for every number of transfers, of files and  *)
(* of chunks.  One inductive invariant, IndInv, carries all of them.       *)
(***************************************************************************)
EXTENDS SftpTransfer, TLAPS

----------------------------------------------------------------------------
\* The inductive invariant.

\* session.slot holds exactly the transfers whose worker is past the select.
SlotInv ==
  /\ \A t \in Transfers : t \in slot <=> t \in InSlot
  /\ \A t, u \in slot : t = u

\* The published status follows the worker: an outcome only after
\* finishTransfer, an active status only between startTransfer and it.
StatusInv ==
  \A t \in Transfers :
    /\ pc[t] \in {"idle", "resolve"} => status[t] = "none"
    /\ pc[t] \in {"release", "done"} => status[t] \in Terminal \cup {"none"}
    /\ pc[t] \notin {"idle", "resolve", "release", "done"} => status[t] \in Active
    /\ status[t] = "paused" => pc[t] \in {"parked", "finish"}

\* The resume channel: none until a worker parks; in the item exactly while
\* nobody has resumed the parked worker.
ChannelInv ==
  \A t \in Transfers :
    /\ pc[t] \notin {"parked", "finish", "release", "done"} => resumeCh[t] = "nil"
    /\ pc[t] = "parked" => resumeCh[t] # "nil"
    /\ pc[t] = "parked" => (resumeCh[t] = "open" <=> status[t] = "paused")

\* The counters: what the loop over the files has dealt with.
CountInv ==
  \A t \in Transfers :
    /\ err[t] => pc[t] \in {"finish", "release", "done"}
    /\ pc[t] \in {"idle", "resolve", "slot", "begin"} =>
         /\ moved[t] = 0 /\ skipped[t] = 0 /\ filesDone[t] = 0
         /\ failedFiles[t] = 0 /\ failedDirs[t] = 0
    /\ pc[t] \in {"plan", "loop", "file"} => Recursive(t)
    /\ pc[t] \in {"gate", "parked", "woken"} /\ gate[t] = "file" => Recursive(t)
    /\ pc[t] = "plan" \/ (pc[t] \in {"gate", "parked", "woken"} /\ gate[t] = "start") =>
         moved[t] = 0 /\ skipped[t] = 0 /\ failedFiles[t] = 0
    /\ Recursive(t) /\ pc[t] \notin {"release", "done"} =>
         moved[t] + skipped[t] + failedFiles[t] = filesDone[t]
    /\ Recursive(t) /\ pc[t] = "finish" /\ ~err[t] => filesDone[t] = filesTotal[t]
    /\ ~Recursive(t) =>
         /\ pc[t] \notin {"release", "done"} => skipped[t] = 0
         /\ failedFiles[t] = 0 /\ failedDirs[t] = 0
         /\ pc[t] \notin {"idle", "resolve", "done"} => filesTotal[t] = 1
         /\ pc[t] \notin {"finish", "release", "done"} => moved[t] = 0
         /\ pc[t] = "finish" /\ ~err[t] => moved[t] = 1

IndInv == TypeOK /\ SlotInv /\ StatusInv /\ ChannelInv /\ CountInv /\ OutcomeIsTrue

----------------------------------------------------------------------------

\* Every step keeps the types.
LEMMA TypeStep ==
  ASSUME TypeOK, [Next]_vars
  PROVE  TypeOK'
<1> USE BoundAssumption, KindAssumption DEF TypeOK, vars, ctlVars, itemVars, fileVars, Status, Active, Terminal, Channel, PC, Gate
<1>1. CASE CloseSession
  BY <1>1 DEF CloseSession
<1>2. ASSUME NEW t \in Transfers, Request(t) PROVE TypeOK'
  BY <1>2 DEF Request, Goto
<1>3. ASSUME NEW t \in Transfers, Reject(t) PROVE TypeOK'
  BY <1>3 DEF Reject, Goto
<1>4. ASSUME NEW t \in Transfers, Skip(t) PROVE TypeOK'
  BY <1>4 DEF Skip, Goto, SetStatus
<1>5. ASSUME NEW t \in Transfers, StartTransfer(t) PROVE TypeOK'
  BY <1>5 DEF StartTransfer, Goto, SetStatus
<1>6. ASSUME NEW t \in Transfers, PauseTransfer(t) PROVE TypeOK'
  BY <1>6 DEF PauseTransfer, SetStatus
<1>7. ASSUME NEW t \in Transfers, ResumeTransfer(t) PROVE TypeOK'
  BY <1>7 DEF ResumeTransfer, SetStatus
<1>8. ASSUME NEW t \in Transfers, CancelTransfer(t) PROVE TypeOK'
  BY <1>8 DEF CancelTransfer
<1>9. ASSUME NEW t \in Transfers, CloseResumeCh(t) PROVE TypeOK'
  BY <1>9 DEF CloseResumeCh
<1>10. ASSUME NEW t \in Transfers, AcquireSlot(t) PROVE TypeOK'
  BY <1>10 DEF AcquireSlot, Goto
<1>11. ASSUME NEW t \in Transfers, CanceledInQueue(t) PROVE TypeOK'
  BY <1>11 DEF CanceledInQueue, Goto, finishTransfer, SetStatus
<1>12. ASSUME NEW t \in Transfers, Begin(t) PROVE TypeOK'
  BY <1>12 DEF Begin, Fail, Goto, SetStatus
<1>13. ASSUME NEW t \in Transfers, PassGate(t) PROVE TypeOK'
  <2>1. CASE CtxDone(t)
    BY <1>13, <2>1 DEF PassGate, LeaveGate, AfterGate, Fail, Goto
  <2>2. CASE ~(CtxDone(t))
    BY <1>13, <2>2 DEF PassGate, LeaveGate, AfterGate, Fail, Goto
  <2>3. QED
    BY <2>1, <2>2
<1>14. ASSUME NEW t \in Transfers, Park(t) PROVE TypeOK'
  BY <1>14 DEF Park, Goto, SetStatus
<1>15. ASSUME NEW t \in Transfers, CanceledWhileParked(t) PROVE TypeOK'
  BY <1>15 DEF CanceledWhileParked, Fail, Goto
<1>16. ASSUME NEW t \in Transfers, Wake(t) PROVE TypeOK'
  BY <1>16 DEF Wake, Goto
<1>17. ASSUME NEW t \in Transfers, FinishResume(t) PROVE TypeOK'
  <2>1. CASE CtxDone(t)
    BY <1>17, <2>1 DEF FinishResume, LeaveGate, AfterGate, Fail, Goto, SetStatus
  <2>2. CASE ~(CtxDone(t))
    BY <1>17, <2>2 DEF FinishResume, LeaveGate, AfterGate, Fail, Goto, SetStatus
  <2>3. QED
    BY <2>1, <2>2
<1>18. ASSUME NEW t \in Transfers, ResumeRejected(t) PROVE TypeOK'
  <2>1. CASE Recursive(t) /\ ~CtxDone(t)
    BY <1>18, <2>1 DEF ResumeRejected, FileError, incrementTransferFailure, Fail, Goto, Inc
  <2>2. CASE ~(Recursive(t) /\ ~CtxDone(t))
    BY <1>18, <2>2 DEF ResumeRejected, FileError, incrementTransferFailure, Fail, Goto, Inc
  <2>3. QED
    BY <2>1, <2>2
<1>19. ASSUME NEW t \in Transfers, PlanFails(t) PROVE TypeOK'
  BY <1>19 DEF PlanFails, Fail, Goto
<1>20. ASSUME NEW t \in Transfers, Plan(t) PROVE TypeOK'
  BY <1>20 DEF Plan, Goto, SetStatus
<1>21. ASSUME NEW t \in Transfers, Loop(t) PROVE TypeOK'
  BY <1>21 DEF Loop, Fail, Goto
<1>22. ASSUME NEW t \in Transfers, OpenFile(t) PROVE TypeOK'
  BY <1>22 DEF OpenFile, Goto
<1>23. ASSUME NEW t \in Transfers, SkipFile(t) PROVE TypeOK'
  BY <1>23 DEF SkipFile, Goto, Inc
<1>24. ASSUME NEW t \in Transfers, ConflictFails(t) PROVE TypeOK'
  BY <1>24 DEF ConflictFails, incrementTransferFailure, Goto, Inc
<1>25. ASSUME NEW t \in Transfers, CheckCtx(t) PROVE TypeOK'
  <2>1. CASE CtxDone(t)
    BY <1>25, <2>1 DEF CheckCtx, Fail, Goto
  <2>2. CASE ~(CtxDone(t))
    BY <1>25, <2>2 DEF CheckCtx, Fail, Goto
  <2>3. QED
    BY <2>1, <2>2
<1>26. ASSUME NEW t \in Transfers, CopyChunk(t) PROVE TypeOK'
  BY <1>26 DEF CopyChunk, Goto, Inc
<1>27. ASSUME NEW t \in Transfers, EndOfFile(t) PROVE TypeOK'
  <2>1. CASE Recursive(t)
    BY <1>27, <2>1 DEF EndOfFile, Goto, Inc
  <2>2. CASE ~(Recursive(t))
    BY <1>27, <2>2 DEF EndOfFile, Goto, Inc
  <2>3. QED
    BY <2>1, <2>2
<1>28. ASSUME NEW t \in Transfers, IOError(t) PROVE TypeOK'
  <2>1. CASE Recursive(t) /\ ~CtxDone(t)
    BY <1>28, <2>1 DEF IOError, FileError, incrementTransferFailure, Fail, Goto, Inc
  <2>2. CASE ~(Recursive(t) /\ ~CtxDone(t))
    BY <1>28, <2>2 DEF IOError, FileError, incrementTransferFailure, Fail, Goto, Inc
  <2>3. QED
    BY <2>1, <2>2
<1>29. ASSUME NEW t \in Transfers, Finish(t) PROVE TypeOK'
  BY <1>29 DEF Finish, finishTransfer, Outcome, Goto, SetStatus
<1>30. ASSUME NEW t \in Transfers, Release(t) PROVE TypeOK'
  BY <1>30 DEF Release, Goto
<1>31. CASE UNCHANGED vars
  BY <1>31
<1>32. QED
  BY <1>1, <1>2, <1>3, <1>4, <1>5, <1>6, <1>7, <1>8, <1>9, <1>10, <1>11, <1>12, <1>13, <1>14, <1>15, <1>16, <1>17, <1>18, <1>19, <1>20, <1>21, <1>22, <1>23, <1>24, <1>25, <1>26, <1>27, <1>28, <1>29, <1>30, <1>31 DEF Next, User, Worker, File, IO

\* Every step keeps the slot in agreement with the workers.
LEMMA SlotStep ==
  ASSUME TypeOK, SlotInv, [Next]_vars
  PROVE  SlotInv'
<1> USE BoundAssumption, KindAssumption DEF TypeOK, SlotInv, InSlot, vars, ctlVars, itemVars, fileVars, Status, Active, Terminal, Channel, PC, Gate
<1>1. CASE CloseSession
  BY <1>1 DEF CloseSession
<1>2. ASSUME NEW t \in Transfers, Request(t) PROVE SlotInv'
  BY <1>2 DEF Request, Goto
<1>3. ASSUME NEW t \in Transfers, Reject(t) PROVE SlotInv'
  BY <1>3 DEF Reject, Goto
<1>4. ASSUME NEW t \in Transfers, Skip(t) PROVE SlotInv'
  BY <1>4 DEF Skip, Goto, SetStatus
<1>5. ASSUME NEW t \in Transfers, StartTransfer(t) PROVE SlotInv'
  BY <1>5 DEF StartTransfer, Goto, SetStatus
<1>6. ASSUME NEW t \in Transfers, PauseTransfer(t) PROVE SlotInv'
  BY <1>6 DEF PauseTransfer, SetStatus
<1>7. ASSUME NEW t \in Transfers, ResumeTransfer(t) PROVE SlotInv'
  BY <1>7 DEF ResumeTransfer, SetStatus
<1>8. ASSUME NEW t \in Transfers, CancelTransfer(t) PROVE SlotInv'
  BY <1>8 DEF CancelTransfer
<1>9. ASSUME NEW t \in Transfers, CloseResumeCh(t) PROVE SlotInv'
  BY <1>9 DEF CloseResumeCh
<1>10. ASSUME NEW t \in Transfers, AcquireSlot(t) PROVE SlotInv'
  BY <1>10 DEF AcquireSlot, Goto
<1>11. ASSUME NEW t \in Transfers, CanceledInQueue(t) PROVE SlotInv'
  BY <1>11 DEF CanceledInQueue, Goto, finishTransfer, SetStatus
<1>12. ASSUME NEW t \in Transfers, Begin(t) PROVE SlotInv'
  BY <1>12 DEF Begin, Fail, Goto, SetStatus
<1>13. ASSUME NEW t \in Transfers, PassGate(t) PROVE SlotInv'
  BY <1>13 DEF PassGate, LeaveGate, AfterGate, Fail, Goto
<1>14. ASSUME NEW t \in Transfers, Park(t) PROVE SlotInv'
  BY <1>14 DEF Park, Goto, SetStatus
<1>15. ASSUME NEW t \in Transfers, CanceledWhileParked(t) PROVE SlotInv'
  BY <1>15 DEF CanceledWhileParked, Fail, Goto
<1>16. ASSUME NEW t \in Transfers, Wake(t) PROVE SlotInv'
  BY <1>16 DEF Wake, Goto
<1>17. ASSUME NEW t \in Transfers, FinishResume(t) PROVE SlotInv'
  BY <1>17 DEF FinishResume, LeaveGate, AfterGate, Fail, Goto, SetStatus
<1>18. ASSUME NEW t \in Transfers, ResumeRejected(t) PROVE SlotInv'
  BY <1>18 DEF ResumeRejected, FileError, incrementTransferFailure, Fail, Goto, Inc
<1>19. ASSUME NEW t \in Transfers, PlanFails(t) PROVE SlotInv'
  BY <1>19 DEF PlanFails, Fail, Goto
<1>20. ASSUME NEW t \in Transfers, Plan(t) PROVE SlotInv'
  BY <1>20 DEF Plan, Goto, SetStatus
<1>21. ASSUME NEW t \in Transfers, Loop(t) PROVE SlotInv'
  BY <1>21 DEF Loop, Fail, Goto
<1>22. ASSUME NEW t \in Transfers, OpenFile(t) PROVE SlotInv'
  BY <1>22 DEF OpenFile, Goto
<1>23. ASSUME NEW t \in Transfers, SkipFile(t) PROVE SlotInv'
  BY <1>23 DEF SkipFile, Goto, Inc
<1>24. ASSUME NEW t \in Transfers, ConflictFails(t) PROVE SlotInv'
  BY <1>24 DEF ConflictFails, incrementTransferFailure, Goto, Inc
<1>25. ASSUME NEW t \in Transfers, CheckCtx(t) PROVE SlotInv'
  BY <1>25 DEF CheckCtx, Fail, Goto
<1>26. ASSUME NEW t \in Transfers, CopyChunk(t) PROVE SlotInv'
  BY <1>26 DEF CopyChunk, Goto, Inc
<1>27. ASSUME NEW t \in Transfers, EndOfFile(t) PROVE SlotInv'
  BY <1>27 DEF EndOfFile, Goto, Inc
<1>28. ASSUME NEW t \in Transfers, IOError(t) PROVE SlotInv'
  BY <1>28 DEF IOError, FileError, incrementTransferFailure, Fail, Goto, Inc
<1>29. ASSUME NEW t \in Transfers, Finish(t) PROVE SlotInv'
  BY <1>29 DEF Finish, finishTransfer, Outcome, Goto, SetStatus
<1>30. ASSUME NEW t \in Transfers, Release(t) PROVE SlotInv'
  BY <1>30 DEF Release, Goto
<1>31. CASE UNCHANGED vars
  BY <1>31
<1>32. QED
  BY <1>1, <1>2, <1>3, <1>4, <1>5, <1>6, <1>7, <1>8, <1>9, <1>10, <1>11, <1>12, <1>13, <1>14, <1>15, <1>16, <1>17, <1>18, <1>19, <1>20, <1>21, <1>22, <1>23, <1>24, <1>25, <1>26, <1>27, <1>28, <1>29, <1>30, <1>31 DEF Next, User, Worker, File, IO

\* A step keeps StatusInv: what the published status of a transfer says about
\* the place of its worker (a terminal status only after finishTransfer or a
\* skip, "paused" only while the worker waits or was cancelled out of the wait).
LEMMA StatusStep ==
  ASSUME TypeOK, StatusInv, ChannelInv, [Next]_vars
  PROVE  StatusInv'
<1> USE BoundAssumption, KindAssumption DEF TypeOK, StatusInv, ChannelInv, vars, ctlVars, itemVars, fileVars, Status, Active, Terminal, Channel, PC, Gate
<1>1. CASE CloseSession
  BY <1>1 DEF CloseSession
<1>2. ASSUME NEW t \in Transfers, Request(t) PROVE StatusInv'
  BY <1>2 DEF Request, Goto
<1>3. ASSUME NEW t \in Transfers, Reject(t) PROVE StatusInv'
  BY <1>3 DEF Reject, Goto
<1>4. ASSUME NEW t \in Transfers, Skip(t) PROVE StatusInv'
  BY <1>4 DEF Skip, Goto, SetStatus
<1>5. ASSUME NEW t \in Transfers, StartTransfer(t) PROVE StatusInv'
  BY <1>5 DEF StartTransfer, Goto, SetStatus
<1>6. ASSUME NEW t \in Transfers, PauseTransfer(t) PROVE StatusInv'
  BY <1>6 DEF PauseTransfer, SetStatus
<1>7. ASSUME NEW t \in Transfers, ResumeTransfer(t) PROVE StatusInv'
  BY <1>7 DEF ResumeTransfer, SetStatus
<1>8. ASSUME NEW t \in Transfers, CancelTransfer(t) PROVE StatusInv'
  BY <1>8 DEF CancelTransfer
<1>9. ASSUME NEW t \in Transfers, CloseResumeCh(t) PROVE StatusInv'
  BY <1>9 DEF CloseResumeCh
<1>10. ASSUME NEW t \in Transfers, AcquireSlot(t) PROVE StatusInv'
  BY <1>10 DEF AcquireSlot, Goto
<1>11. ASSUME NEW t \in Transfers, CanceledInQueue(t) PROVE StatusInv'
  BY <1>11 DEF CanceledInQueue, Goto, finishTransfer, SetStatus
<1>12. ASSUME NEW t \in Transfers, Begin(t) PROVE StatusInv'
  BY <1>12 DEF Begin, Fail, Goto, SetStatus
<1>13. ASSUME NEW t \in Transfers, PassGate(t) PROVE StatusInv'
  BY <1>13 DEF PassGate, LeaveGate, AfterGate, Fail, Goto
<1>14. ASSUME NEW t \in Transfers, Park(t) PROVE StatusInv'
  BY <1>14 DEF Park, Goto, SetStatus
<1>15. ASSUME NEW t \in Transfers, CanceledWhileParked(t) PROVE StatusInv'
  BY <1>15 DEF CanceledWhileParked, Fail, Goto
<1>16. ASSUME NEW t \in Transfers, Wake(t) PROVE StatusInv'
  BY <1>16 DEF Wake, Goto
<1>17. ASSUME NEW t \in Transfers, FinishResume(t) PROVE StatusInv'
  BY <1>17 DEF FinishResume, LeaveGate, AfterGate, Fail, Goto, SetStatus
<1>18. ASSUME NEW t \in Transfers, ResumeRejected(t) PROVE StatusInv'
  BY <1>18 DEF ResumeRejected, FileError, incrementTransferFailure, Fail, Goto, Inc
<1>19. ASSUME NEW t \in Transfers, PlanFails(t) PROVE StatusInv'
  BY <1>19 DEF PlanFails, Fail, Goto
<1>20. ASSUME NEW t \in Transfers, Plan(t) PROVE StatusInv'
  BY <1>20 DEF Plan, Goto, SetStatus
<1>21. ASSUME NEW t \in Transfers, Loop(t) PROVE StatusInv'
  BY <1>21 DEF Loop, Fail, Goto
<1>22. ASSUME NEW t \in Transfers, OpenFile(t) PROVE StatusInv'
  BY <1>22 DEF OpenFile, Goto
<1>23. ASSUME NEW t \in Transfers, SkipFile(t) PROVE StatusInv'
  BY <1>23 DEF SkipFile, Goto, Inc
<1>24. ASSUME NEW t \in Transfers, ConflictFails(t) PROVE StatusInv'
  BY <1>24 DEF ConflictFails, incrementTransferFailure, Goto, Inc
<1>25. ASSUME NEW t \in Transfers, CheckCtx(t) PROVE StatusInv'
  BY <1>25 DEF CheckCtx, Fail, Goto
<1>26. ASSUME NEW t \in Transfers, CopyChunk(t) PROVE StatusInv'
  BY <1>26 DEF CopyChunk, Goto, Inc
<1>27. ASSUME NEW t \in Transfers, EndOfFile(t) PROVE StatusInv'
  BY <1>27 DEF EndOfFile, Goto, Inc
<1>28. ASSUME NEW t \in Transfers, IOError(t) PROVE StatusInv'
  BY <1>28 DEF IOError, FileError, incrementTransferFailure, Fail, Goto, Inc
<1>29. ASSUME NEW t \in Transfers, Finish(t) PROVE StatusInv'
  BY <1>29 DEF Finish, finishTransfer, Outcome, Goto, SetStatus
<1>30. ASSUME NEW t \in Transfers, Release(t) PROVE StatusInv'
  BY <1>30 DEF Release, Goto
<1>31. CASE UNCHANGED vars
  BY <1>31
<1>32. QED
  BY <1>1, <1>2, <1>3, <1>4, <1>5, <1>6, <1>7, <1>8, <1>9, <1>10, <1>11, <1>12, <1>13, <1>14, <1>15, <1>16, <1>17, <1>18, <1>19, <1>20, <1>21, <1>22, <1>23, <1>24, <1>25, <1>26, <1>27, <1>28, <1>29, <1>30, <1>31 DEF Next, User, Worker, File, IO

\* A step keeps ChannelInv: a worker that waits in waitIfPaused has a channel,
\* and the channel is in the item exactly until ResumeTransfer takes it.
LEMMA ChannelStep ==
  ASSUME TypeOK, StatusInv, ChannelInv, [Next]_vars
  PROVE  ChannelInv'
<1> USE BoundAssumption, KindAssumption DEF TypeOK, StatusInv, ChannelInv, vars, ctlVars, itemVars, fileVars, Status, Active, Terminal, Channel, PC, Gate
<1>1. CASE CloseSession
  BY <1>1 DEF CloseSession
<1>2. ASSUME NEW t \in Transfers, Request(t) PROVE ChannelInv'
  BY <1>2 DEF Request, Goto
<1>3. ASSUME NEW t \in Transfers, Reject(t) PROVE ChannelInv'
  BY <1>3 DEF Reject, Goto
<1>4. ASSUME NEW t \in Transfers, Skip(t) PROVE ChannelInv'
  BY <1>4 DEF Skip, Goto, SetStatus
<1>5. ASSUME NEW t \in Transfers, StartTransfer(t) PROVE ChannelInv'
  BY <1>5 DEF StartTransfer, Goto, SetStatus
<1>6. ASSUME NEW t \in Transfers, PauseTransfer(t) PROVE ChannelInv'
  BY <1>6 DEF PauseTransfer, SetStatus
<1>7. ASSUME NEW t \in Transfers, ResumeTransfer(t) PROVE ChannelInv'
  BY <1>7 DEF ResumeTransfer, SetStatus
<1>8. ASSUME NEW t \in Transfers, CancelTransfer(t) PROVE ChannelInv'
  BY <1>8 DEF CancelTransfer
<1>9. ASSUME NEW t \in Transfers, CloseResumeCh(t) PROVE ChannelInv'
  BY <1>9 DEF CloseResumeCh
<1>10. ASSUME NEW t \in Transfers, AcquireSlot(t) PROVE ChannelInv'
  BY <1>10 DEF AcquireSlot, Goto
<1>11. ASSUME NEW t \in Transfers, CanceledInQueue(t) PROVE ChannelInv'
  BY <1>11 DEF CanceledInQueue, Goto, finishTransfer, SetStatus
<1>12. ASSUME NEW t \in Transfers, Begin(t) PROVE ChannelInv'
  BY <1>12 DEF Begin, Fail, Goto, SetStatus
<1>13. ASSUME NEW t \in Transfers, PassGate(t) PROVE ChannelInv'
  BY <1>13 DEF PassGate, LeaveGate, AfterGate, Fail, Goto
<1>14. ASSUME NEW t \in Transfers, Park(t) PROVE ChannelInv'
  BY <1>14 DEF Park, Goto, SetStatus
<1>15. ASSUME NEW t \in Transfers, CanceledWhileParked(t) PROVE ChannelInv'
  BY <1>15 DEF CanceledWhileParked, Fail, Goto
<1>16. ASSUME NEW t \in Transfers, Wake(t) PROVE ChannelInv'
  BY <1>16 DEF Wake, Goto
<1>17. ASSUME NEW t \in Transfers, FinishResume(t) PROVE ChannelInv'
  BY <1>17 DEF FinishResume, LeaveGate, AfterGate, Fail, Goto, SetStatus
<1>18. ASSUME NEW t \in Transfers, ResumeRejected(t) PROVE ChannelInv'
  BY <1>18 DEF ResumeRejected, FileError, incrementTransferFailure, Fail, Goto, Inc
<1>19. ASSUME NEW t \in Transfers, PlanFails(t) PROVE ChannelInv'
  BY <1>19 DEF PlanFails, Fail, Goto
<1>20. ASSUME NEW t \in Transfers, Plan(t) PROVE ChannelInv'
  BY <1>20 DEF Plan, Goto, SetStatus
<1>21. ASSUME NEW t \in Transfers, Loop(t) PROVE ChannelInv'
  BY <1>21 DEF Loop, Fail, Goto
<1>22. ASSUME NEW t \in Transfers, OpenFile(t) PROVE ChannelInv'
  BY <1>22 DEF OpenFile, Goto
<1>23. ASSUME NEW t \in Transfers, SkipFile(t) PROVE ChannelInv'
  BY <1>23 DEF SkipFile, Goto, Inc
<1>24. ASSUME NEW t \in Transfers, ConflictFails(t) PROVE ChannelInv'
  BY <1>24 DEF ConflictFails, incrementTransferFailure, Goto, Inc
<1>25. ASSUME NEW t \in Transfers, CheckCtx(t) PROVE ChannelInv'
  BY <1>25 DEF CheckCtx, Fail, Goto
<1>26. ASSUME NEW t \in Transfers, CopyChunk(t) PROVE ChannelInv'
  BY <1>26 DEF CopyChunk, Goto, Inc
<1>27. ASSUME NEW t \in Transfers, EndOfFile(t) PROVE ChannelInv'
  BY <1>27 DEF EndOfFile, Goto, Inc
<1>28. ASSUME NEW t \in Transfers, IOError(t) PROVE ChannelInv'
  BY <1>28 DEF IOError, FileError, incrementTransferFailure, Fail, Goto, Inc
<1>29. ASSUME NEW t \in Transfers, Finish(t) PROVE ChannelInv'
  BY <1>29 DEF Finish, finishTransfer, Outcome, Goto, SetStatus
<1>30. ASSUME NEW t \in Transfers, Release(t) PROVE ChannelInv'
  BY <1>30 DEF Release, Goto
<1>31. CASE UNCHANGED vars
  BY <1>31
<1>32. QED
  BY <1>1, <1>2, <1>3, <1>4, <1>5, <1>6, <1>7, <1>8, <1>9, <1>10, <1>11, <1>12, <1>13, <1>14, <1>15, <1>16, <1>17, <1>18, <1>19, <1>20, <1>21, <1>22, <1>23, <1>24, <1>25, <1>26, <1>27, <1>28, <1>29, <1>30, <1>31 DEF Next, User, Worker, File, IO

\* A step keeps CountInv: the counters of a transfer account for every file
\* that the loop of runTransfer has left behind.
LEMMA CountStep ==
  ASSUME TypeOK, CountInv, [Next]_vars
  PROVE  CountInv'
<1> USE BoundAssumption, KindAssumption DEF TypeOK, CountInv, Recursive, Kinds, vars, ctlVars, itemVars, fileVars, Status, Active, Terminal, Channel, PC, Gate
<1>1. CASE CloseSession
  BY <1>1 DEF CloseSession
<1>2. ASSUME NEW t \in Transfers, Request(t) PROVE CountInv'
  BY <1>2 DEF Request, Goto
<1>3. ASSUME NEW t \in Transfers, Reject(t) PROVE CountInv'
  BY <1>3 DEF Reject, Goto
<1>4. ASSUME NEW t \in Transfers, Skip(t) PROVE CountInv'
  BY <1>4 DEF Skip, Goto, SetStatus
<1>5. ASSUME NEW t \in Transfers, StartTransfer(t) PROVE CountInv'
  BY <1>5 DEF StartTransfer, Goto, SetStatus
<1>6. ASSUME NEW t \in Transfers, PauseTransfer(t) PROVE CountInv'
  BY <1>6 DEF PauseTransfer, SetStatus
<1>7. ASSUME NEW t \in Transfers, ResumeTransfer(t) PROVE CountInv'
  BY <1>7 DEF ResumeTransfer, SetStatus
<1>8. ASSUME NEW t \in Transfers, CancelTransfer(t) PROVE CountInv'
  BY <1>8 DEF CancelTransfer
<1>9. ASSUME NEW t \in Transfers, CloseResumeCh(t) PROVE CountInv'
  BY <1>9 DEF CloseResumeCh
<1>10. ASSUME NEW t \in Transfers, AcquireSlot(t) PROVE CountInv'
  BY <1>10 DEF AcquireSlot, Goto
<1>11. ASSUME NEW t \in Transfers, CanceledInQueue(t) PROVE CountInv'
  BY <1>11 DEF CanceledInQueue, Goto, finishTransfer, SetStatus
<1>12. ASSUME NEW t \in Transfers, Begin(t) PROVE CountInv'
  BY <1>12 DEF Begin, Fail, Goto, SetStatus
<1>13. ASSUME NEW t \in Transfers, PassGate(t) PROVE CountInv'
  <2>1. CASE CtxDone(t)
    BY <1>13, <2>1 DEF PassGate, LeaveGate, Fail, Goto
  <2>2. CASE ~CtxDone(t)
    <3>1. /\ pc[t] \in {"gate", "woken"}
          /\ pc' = [pc EXCEPT ![t] = AfterGate(t)]
          /\ UNCHANGED <<err, gate, fileVars>>
      BY <1>13, <2>2 DEF PassGate, LeaveGate, Goto
    <3>2. CASE gate[t] = "start"
      BY <3>1, <3>2 DEF AfterGate
    <3>3. CASE gate[t] = "file"
      BY <3>1, <3>3 DEF AfterGate
    <3>4. CASE gate[t] = "chunk"
      BY <3>1, <3>4 DEF AfterGate
    <3>5. QED
      BY <3>2, <3>3, <3>4
  <2>3. QED
    BY <2>1, <2>2
<1>14. ASSUME NEW t \in Transfers, Park(t) PROVE CountInv'
  BY <1>14 DEF Park, Goto, SetStatus
<1>15. ASSUME NEW t \in Transfers, CanceledWhileParked(t) PROVE CountInv'
  BY <1>15 DEF CanceledWhileParked, Fail, Goto
<1>16. ASSUME NEW t \in Transfers, Wake(t) PROVE CountInv'
  BY <1>16 DEF Wake, Goto
<1>17. ASSUME NEW t \in Transfers, FinishResume(t) PROVE CountInv'
  <2>1. CASE CtxDone(t)
    BY <1>17, <2>1 DEF FinishResume, LeaveGate, Fail, Goto
  <2>2. CASE ~CtxDone(t)
    <3>1. /\ pc[t] \in {"gate", "woken"}
          /\ pc' = [pc EXCEPT ![t] = AfterGate(t)]
          /\ UNCHANGED <<err, gate, fileVars>>
      BY <1>17, <2>2 DEF FinishResume, LeaveGate, Goto
    <3>2. CASE gate[t] = "start"
      BY <3>1, <3>2 DEF AfterGate
    <3>3. CASE gate[t] = "file"
      BY <3>1, <3>3 DEF AfterGate
    <3>4. CASE gate[t] = "chunk"
      BY <3>1, <3>4 DEF AfterGate
    <3>5. QED
      BY <3>2, <3>3, <3>4
  <2>3. QED
    BY <2>1, <2>2
<1>18. ASSUME NEW t \in Transfers, ResumeRejected(t) PROVE CountInv'
  <2>1. CASE Recursive(t) /\ ~CtxDone(t)
    <3>1. pc[t] \in {"woken", "io"} /\ incrementTransferFailure(t) /\ UNCHANGED <<gate, status>>
      BY <1>18, <2>1 DEF ResumeRejected, FileError
    <3>2. QED
      BY <2>1, <3>1 DEF incrementTransferFailure, Goto, Inc
  <2>2. CASE ~(Recursive(t) /\ ~CtxDone(t))
    BY <1>18, <2>2 DEF ResumeRejected, FileError, Fail, Goto
  <2>3. QED
    BY <2>1, <2>2
<1>19. ASSUME NEW t \in Transfers, PlanFails(t) PROVE CountInv'
  BY <1>19 DEF PlanFails, Fail, Goto
<1>20. ASSUME NEW t \in Transfers, Plan(t) PROVE CountInv'
  BY <1>20 DEF Plan, Goto, SetStatus
<1>21. ASSUME NEW t \in Transfers, Loop(t) PROVE CountInv'
  BY <1>21 DEF Loop, Fail, Goto
<1>22. ASSUME NEW t \in Transfers, OpenFile(t) PROVE CountInv'
  BY <1>22 DEF OpenFile, Goto
<1>23. ASSUME NEW t \in Transfers, SkipFile(t) PROVE CountInv'
  BY <1>23 DEF SkipFile, Goto, Inc
<1>24. ASSUME NEW t \in Transfers, ConflictFails(t) PROVE CountInv'
  BY <1>24 DEF ConflictFails, incrementTransferFailure, Goto, Inc
<1>25. ASSUME NEW t \in Transfers, CheckCtx(t) PROVE CountInv'
  <2>1. CASE CtxDone(t)
    BY <1>25, <2>1 DEF CheckCtx, Fail, Goto
  <2>2. CASE ~(CtxDone(t))
    BY <1>25, <2>2 DEF CheckCtx, Fail, Goto
  <2>3. QED
    BY <2>1, <2>2
<1>26. ASSUME NEW t \in Transfers, CopyChunk(t) PROVE CountInv'
  BY <1>26 DEF CopyChunk, Goto, Inc
<1>27. ASSUME NEW t \in Transfers, EndOfFile(t) PROVE CountInv'
  <2>1. CASE Recursive(t)
    BY <1>27, <2>1 DEF EndOfFile, Goto, Inc
  <2>2. CASE ~(Recursive(t))
    BY <1>27, <2>2 DEF EndOfFile, Goto, Inc
  <2>3. QED
    BY <2>1, <2>2
<1>28. ASSUME NEW t \in Transfers, IOError(t) PROVE CountInv'
  <2>1. CASE Recursive(t) /\ ~CtxDone(t)
    <3>1. pc[t] \in {"woken", "io"} /\ incrementTransferFailure(t) /\ UNCHANGED <<gate, status>>
      BY <1>28, <2>1 DEF IOError, FileError
    <3>2. QED
      BY <2>1, <3>1 DEF incrementTransferFailure, Goto, Inc
  <2>2. CASE ~(Recursive(t) /\ ~CtxDone(t))
    BY <1>28, <2>2 DEF IOError, FileError, Fail, Goto
  <2>3. QED
    BY <2>1, <2>2
<1>29. ASSUME NEW t \in Transfers, Finish(t) PROVE CountInv'
  BY <1>29 DEF Finish, finishTransfer, Outcome, Goto, SetStatus
<1>30. ASSUME NEW t \in Transfers, Release(t) PROVE CountInv'
  BY <1>30 DEF Release, Goto
<1>31. CASE UNCHANGED vars
  BY <1>31
<1>32. QED
  BY <1>1, <1>2, <1>3, <1>4, <1>5, <1>6, <1>7, <1>8, <1>9, <1>10, <1>11, <1>12, <1>13, <1>14, <1>15, <1>16, <1>17, <1>18, <1>19, <1>20, <1>21, <1>22, <1>23, <1>24, <1>25, <1>26, <1>27, <1>28, <1>29, <1>30, <1>31 DEF Next, User, Worker, File, IO

\* A step keeps OutcomeIsTrue: the outcome that finishTransfer publishes agrees
\* with the files moved, skipped and failed.
LEMMA OutcomeStep ==
  ASSUME TypeOK, StatusInv, CountInv, OutcomeIsTrue, [Next]_vars
  PROVE  OutcomeIsTrue'
<1> USE BoundAssumption, KindAssumption DEF TypeOK, StatusInv, CountInv, OutcomeIsTrue, vars, ctlVars, itemVars, fileVars, Status, Active, Terminal, Channel, PC, Gate
<1>1. CASE CloseSession
  BY <1>1 DEF CloseSession
<1>2. ASSUME NEW t \in Transfers, Request(t) PROVE OutcomeIsTrue'
  BY <1>2 DEF Request, Goto
<1>3. ASSUME NEW t \in Transfers, Reject(t) PROVE OutcomeIsTrue'
  BY <1>3 DEF Reject, Goto
<1>4. ASSUME NEW t \in Transfers, Skip(t) PROVE OutcomeIsTrue'
  BY <1>4 DEF Skip, Goto, SetStatus
<1>5. ASSUME NEW t \in Transfers, StartTransfer(t) PROVE OutcomeIsTrue'
  BY <1>5 DEF StartTransfer, Goto, SetStatus
<1>6. ASSUME NEW t \in Transfers, PauseTransfer(t) PROVE OutcomeIsTrue'
  BY <1>6 DEF PauseTransfer, SetStatus
<1>7. ASSUME NEW t \in Transfers, ResumeTransfer(t) PROVE OutcomeIsTrue'
  BY <1>7 DEF ResumeTransfer, SetStatus
<1>8. ASSUME NEW t \in Transfers, CancelTransfer(t) PROVE OutcomeIsTrue'
  BY <1>8 DEF CancelTransfer
<1>9. ASSUME NEW t \in Transfers, CloseResumeCh(t) PROVE OutcomeIsTrue'
  BY <1>9 DEF CloseResumeCh
<1>10. ASSUME NEW t \in Transfers, AcquireSlot(t) PROVE OutcomeIsTrue'
  BY <1>10 DEF AcquireSlot, Goto
<1>11. ASSUME NEW t \in Transfers, CanceledInQueue(t) PROVE OutcomeIsTrue'
  BY <1>11 DEF CanceledInQueue, Goto, finishTransfer, SetStatus
<1>12. ASSUME NEW t \in Transfers, Begin(t) PROVE OutcomeIsTrue'
  BY <1>12 DEF Begin, Fail, Goto, SetStatus
<1>13. ASSUME NEW t \in Transfers, PassGate(t) PROVE OutcomeIsTrue'
  <2>1. CASE CtxDone(t)
    BY <1>13, <2>1 DEF PassGate, LeaveGate, AfterGate, Fail, Goto
  <2>2. CASE ~(CtxDone(t))
    BY <1>13, <2>2 DEF PassGate, LeaveGate, AfterGate, Fail, Goto
  <2>3. QED
    BY <2>1, <2>2
<1>14. ASSUME NEW t \in Transfers, Park(t) PROVE OutcomeIsTrue'
  BY <1>14 DEF Park, Goto, SetStatus
<1>15. ASSUME NEW t \in Transfers, CanceledWhileParked(t) PROVE OutcomeIsTrue'
  BY <1>15 DEF CanceledWhileParked, Fail, Goto
<1>16. ASSUME NEW t \in Transfers, Wake(t) PROVE OutcomeIsTrue'
  BY <1>16 DEF Wake, Goto
<1>17. ASSUME NEW t \in Transfers, FinishResume(t) PROVE OutcomeIsTrue'
  <2>1. CASE CtxDone(t)
    BY <1>17, <2>1 DEF FinishResume, LeaveGate, AfterGate, Fail, Goto, SetStatus
  <2>2. CASE ~(CtxDone(t))
    BY <1>17, <2>2 DEF FinishResume, LeaveGate, AfterGate, Fail, Goto, SetStatus
  <2>3. QED
    BY <2>1, <2>2
<1>18. ASSUME NEW t \in Transfers, ResumeRejected(t) PROVE OutcomeIsTrue'
  <2>1. CASE Recursive(t) /\ ~CtxDone(t)
    <3>1. pc[t] \in {"woken", "io"} /\ incrementTransferFailure(t) /\ UNCHANGED <<gate, status>>
      BY <1>18, <2>1 DEF ResumeRejected, FileError
    <3>2. QED
      BY <2>1, <3>1 DEF incrementTransferFailure, Goto, Inc
  <2>2. CASE ~(Recursive(t) /\ ~CtxDone(t))
    BY <1>18, <2>2 DEF ResumeRejected, FileError, Fail, Goto
  <2>3. QED
    BY <2>1, <2>2
<1>19. ASSUME NEW t \in Transfers, PlanFails(t) PROVE OutcomeIsTrue'
  BY <1>19 DEF PlanFails, Fail, Goto
<1>20. ASSUME NEW t \in Transfers, Plan(t) PROVE OutcomeIsTrue'
  BY <1>20 DEF Plan, Goto, SetStatus
<1>21. ASSUME NEW t \in Transfers, Loop(t) PROVE OutcomeIsTrue'
  BY <1>21 DEF Loop, Fail, Goto
<1>22. ASSUME NEW t \in Transfers, OpenFile(t) PROVE OutcomeIsTrue'
  BY <1>22 DEF OpenFile, Goto
<1>23. ASSUME NEW t \in Transfers, SkipFile(t) PROVE OutcomeIsTrue'
  BY <1>23 DEF SkipFile, Goto, Inc
<1>24. ASSUME NEW t \in Transfers, ConflictFails(t) PROVE OutcomeIsTrue'
  BY <1>24 DEF ConflictFails, incrementTransferFailure, Goto, Inc
<1>25. ASSUME NEW t \in Transfers, CheckCtx(t) PROVE OutcomeIsTrue'
  <2>1. CASE CtxDone(t)
    BY <1>25, <2>1 DEF CheckCtx, Fail, Goto
  <2>2. CASE ~(CtxDone(t))
    BY <1>25, <2>2 DEF CheckCtx, Fail, Goto
  <2>3. QED
    BY <2>1, <2>2
<1>26. ASSUME NEW t \in Transfers, CopyChunk(t) PROVE OutcomeIsTrue'
  BY <1>26 DEF CopyChunk, Goto, Inc
<1>27. ASSUME NEW t \in Transfers, EndOfFile(t) PROVE OutcomeIsTrue'
  <2>1. CASE Recursive(t)
    BY <1>27, <2>1 DEF EndOfFile, Goto, Inc
  <2>2. CASE ~(Recursive(t))
    BY <1>27, <2>2 DEF EndOfFile, Goto, Inc
  <2>3. QED
    BY <2>1, <2>2
<1>28. ASSUME NEW t \in Transfers, IOError(t) PROVE OutcomeIsTrue'
  <2>1. CASE Recursive(t) /\ ~CtxDone(t)
    <3>1. pc[t] \in {"woken", "io"} /\ incrementTransferFailure(t) /\ UNCHANGED <<gate, status>>
      BY <1>28, <2>1 DEF IOError, FileError
    <3>2. QED
      BY <2>1, <3>1 DEF incrementTransferFailure, Goto, Inc
  <2>2. CASE ~(Recursive(t) /\ ~CtxDone(t))
    BY <1>28, <2>2 DEF IOError, FileError, Fail, Goto
  <2>3. QED
    BY <2>1, <2>2
<1>29. ASSUME NEW t \in Transfers, Finish(t) PROVE OutcomeIsTrue'
  <2>1. CASE Outcome(t) \in {"canceled", "failed"}
    BY <1>29, <2>1 DEF Finish, finishTransfer, Goto, SetStatus
  <2>2. CASE Outcome(t) = "partial_failed"
    <3>1. ~err[t] /\ failedFiles[t] + failedDirs[t] > 0
      BY <2>2 DEF Outcome
    <3>2. QED
      BY <1>29, <2>2, <3>1 DEF Finish, finishTransfer, Goto, SetStatus
  <2>3. CASE Outcome(t) = "completed"
    <3>0. failedFiles[t] \in Nat /\ failedDirs[t] \in Nat
      OBVIOUS
    <3>1. ~err[t] /\ ~(failedFiles[t] + failedDirs[t] > 0)
      BY <2>3, Zenon DEF Outcome
    <3>2. moved[t] + skipped[t] = filesTotal[t]
      <4>1. pc[t] = "finish" /\ failedFiles[t] = 0
        <5> HIDE DEF TypeOK, StatusInv, CountInv, OutcomeIsTrue
        <5>1. QED
          BY <1>29, <3>0, <3>1 DEF Finish
      <4>2. CASE Recursive(t)
        BY <3>1, <4>1, <4>2
      <4>3. CASE ~Recursive(t)
        BY <3>1, <4>1, <4>3
      <4>4. QED
        BY <4>2, <4>3
    <3>3. QED
      BY <1>29, <2>3, <3>0, <3>1, <3>2 DEF Finish, finishTransfer, Goto, SetStatus
  <2>4. QED
    BY <2>1, <2>2, <2>3 DEF Outcome
<1>30. ASSUME NEW t \in Transfers, Release(t) PROVE OutcomeIsTrue'
  BY <1>30 DEF Release, Goto
<1>31. CASE UNCHANGED vars
  BY <1>31
<1>32. QED
  BY <1>1, <1>2, <1>3, <1>4, <1>5, <1>6, <1>7, <1>8, <1>9, <1>10, <1>11, <1>12, <1>13, <1>14, <1>15, <1>16, <1>17, <1>18, <1>19, <1>20, <1>21, <1>22, <1>23, <1>24, <1>25, <1>26, <1>27, <1>28, <1>29, <1>30, <1>31 DEF Next, User, Worker, File, IO

----------------------------------------------------------------------------
\* The initial state of a session satisfies the invariant.
LEMMA InitInv == Init => IndInv
<1> SUFFICES ASSUME Init PROVE IndInv
  OBVIOUS
<1> USE DEF Init
<1>1. TypeOK
  BY DEF TypeOK, Status, Active, Terminal, Channel, PC, Gate
<1>2. SlotInv /\ StatusInv /\ ChannelInv
  BY DEF SlotInv, InSlot, StatusInv, ChannelInv
<1>3. CountInv /\ OutcomeIsTrue
  BY DEF CountInv, OutcomeIsTrue
<1>4. QED
  BY <1>1, <1>2, <1>3 DEF IndInv

\* The invariant is inductive.
LEMMA InvStep == IndInv /\ [Next]_vars => IndInv'
BY TypeStep, SlotStep, StatusStep, ChannelStep, CountStep, OutcomeStep DEF IndInv

\* IndInv holds in every state a session can reach.
THEOREM Invariance == Spec => []IndInv
BY InitInv, InvStep, PTL DEF Spec

\* Every variable keeps its type whatever the user, the workers and the session
\* do.
THEOREM TypeCorrect == Spec => []TypeOK
<1>1. IndInv => TypeOK
  BY DEF IndInv
<1>2. QED
  BY <1>1, Invariance, PTL

\* One transfer at a time: session.slot gives runTransfer mutual exclusion for
\* any number of transfers.
THEOREM MutualExclusion == Spec => []OneAtATime
<1>1. IndInv => OneAtATime
  BY DEF IndInv, SlotInv, OneAtATime, InSlot
<1>2. QED
  BY <1>1, Invariance, PTL

\* Pause and resume: a paused transfer is still, and a parked worker can be
\* resumed, however Pause and Resume calls race waitIfPaused.
THEOREM PauseSafe == Spec => []PausesAreSafe
<1>1. IndInv => PausedIsStill
  BY DEF IndInv, StatusInv, PausedIsStill
<1>2. IndInv => ParkedIsResumable
  BY DEF IndInv, TypeOK, ChannelInv, Channel, ParkedIsResumable
<1>3. QED
  BY <1>1, <1>2, Invariance, PTL DEF PausesAreSafe

\* The outcome runTransfer publishes tells whether every file arrived, for any
\* number of files and chunks.
THEOREM OutcomeCorrect == Spec => []OutcomeIsTrue
<1>1. IndInv => OutcomeIsTrue
  BY DEF IndInv
<1>2. QED
  BY <1>1, Invariance, PTL

\* No step changes what finishTransfer published.
LEMMA FinalStep ==
  ASSUME TypeOK, StatusInv, [Next]_vars
  PROVE  \A x \in Transfers : status[x] \in Terminal => status'[x] = status[x] /\ filesDone'[x] = filesDone[x]
<1> USE BoundAssumption, KindAssumption DEF TypeOK, StatusInv, vars, ctlVars, itemVars, fileVars, Status, Active, Terminal, Channel, PC, Gate
<1>1. CASE CloseSession
  BY <1>1 DEF CloseSession
<1>2. ASSUME NEW t \in Transfers, Request(t) PROVE \A x \in Transfers : status[x] \in Terminal => status'[x] = status[x] /\ filesDone'[x] = filesDone[x]
  BY <1>2 DEF Request, Goto
<1>3. ASSUME NEW t \in Transfers, Reject(t) PROVE \A x \in Transfers : status[x] \in Terminal => status'[x] = status[x] /\ filesDone'[x] = filesDone[x]
  BY <1>3 DEF Reject, Goto
<1>4. ASSUME NEW t \in Transfers, Skip(t) PROVE \A x \in Transfers : status[x] \in Terminal => status'[x] = status[x] /\ filesDone'[x] = filesDone[x]
  BY <1>4 DEF Skip, Goto, SetStatus
<1>5. ASSUME NEW t \in Transfers, StartTransfer(t) PROVE \A x \in Transfers : status[x] \in Terminal => status'[x] = status[x] /\ filesDone'[x] = filesDone[x]
  BY <1>5 DEF StartTransfer, Goto, SetStatus
<1>6. ASSUME NEW t \in Transfers, PauseTransfer(t) PROVE \A x \in Transfers : status[x] \in Terminal => status'[x] = status[x] /\ filesDone'[x] = filesDone[x]
  BY <1>6 DEF PauseTransfer, SetStatus
<1>7. ASSUME NEW t \in Transfers, ResumeTransfer(t) PROVE \A x \in Transfers : status[x] \in Terminal => status'[x] = status[x] /\ filesDone'[x] = filesDone[x]
  BY <1>7 DEF ResumeTransfer, SetStatus
<1>8. ASSUME NEW t \in Transfers, CancelTransfer(t) PROVE \A x \in Transfers : status[x] \in Terminal => status'[x] = status[x] /\ filesDone'[x] = filesDone[x]
  BY <1>8 DEF CancelTransfer
<1>9. ASSUME NEW t \in Transfers, CloseResumeCh(t) PROVE \A x \in Transfers : status[x] \in Terminal => status'[x] = status[x] /\ filesDone'[x] = filesDone[x]
  BY <1>9 DEF CloseResumeCh
<1>10. ASSUME NEW t \in Transfers, AcquireSlot(t) PROVE \A x \in Transfers : status[x] \in Terminal => status'[x] = status[x] /\ filesDone'[x] = filesDone[x]
  BY <1>10 DEF AcquireSlot, Goto
<1>11. ASSUME NEW t \in Transfers, CanceledInQueue(t) PROVE \A x \in Transfers : status[x] \in Terminal => status'[x] = status[x] /\ filesDone'[x] = filesDone[x]
  BY <1>11 DEF CanceledInQueue, Goto, finishTransfer, SetStatus
<1>12. ASSUME NEW t \in Transfers, Begin(t) PROVE \A x \in Transfers : status[x] \in Terminal => status'[x] = status[x] /\ filesDone'[x] = filesDone[x]
  BY <1>12 DEF Begin, Fail, Goto, SetStatus
<1>13. ASSUME NEW t \in Transfers, PassGate(t) PROVE \A x \in Transfers : status[x] \in Terminal => status'[x] = status[x] /\ filesDone'[x] = filesDone[x]
  BY <1>13 DEF PassGate, LeaveGate, AfterGate, Fail, Goto
<1>14. ASSUME NEW t \in Transfers, Park(t) PROVE \A x \in Transfers : status[x] \in Terminal => status'[x] = status[x] /\ filesDone'[x] = filesDone[x]
  BY <1>14 DEF Park, Goto, SetStatus
<1>15. ASSUME NEW t \in Transfers, CanceledWhileParked(t) PROVE \A x \in Transfers : status[x] \in Terminal => status'[x] = status[x] /\ filesDone'[x] = filesDone[x]
  BY <1>15 DEF CanceledWhileParked, Fail, Goto
<1>16. ASSUME NEW t \in Transfers, Wake(t) PROVE \A x \in Transfers : status[x] \in Terminal => status'[x] = status[x] /\ filesDone'[x] = filesDone[x]
  BY <1>16 DEF Wake, Goto
<1>17. ASSUME NEW t \in Transfers, FinishResume(t) PROVE \A x \in Transfers : status[x] \in Terminal => status'[x] = status[x] /\ filesDone'[x] = filesDone[x]
  BY <1>17 DEF FinishResume, LeaveGate, AfterGate, Fail, Goto, SetStatus
<1>18. ASSUME NEW t \in Transfers, ResumeRejected(t) PROVE \A x \in Transfers : status[x] \in Terminal => status'[x] = status[x] /\ filesDone'[x] = filesDone[x]
  BY <1>18 DEF ResumeRejected, FileError, incrementTransferFailure, Fail, Goto, Inc
<1>19. ASSUME NEW t \in Transfers, PlanFails(t) PROVE \A x \in Transfers : status[x] \in Terminal => status'[x] = status[x] /\ filesDone'[x] = filesDone[x]
  BY <1>19 DEF PlanFails, Fail, Goto
<1>20. ASSUME NEW t \in Transfers, Plan(t) PROVE \A x \in Transfers : status[x] \in Terminal => status'[x] = status[x] /\ filesDone'[x] = filesDone[x]
  BY <1>20 DEF Plan, Goto, SetStatus
<1>21. ASSUME NEW t \in Transfers, Loop(t) PROVE \A x \in Transfers : status[x] \in Terminal => status'[x] = status[x] /\ filesDone'[x] = filesDone[x]
  BY <1>21 DEF Loop, Fail, Goto
<1>22. ASSUME NEW t \in Transfers, OpenFile(t) PROVE \A x \in Transfers : status[x] \in Terminal => status'[x] = status[x] /\ filesDone'[x] = filesDone[x]
  BY <1>22 DEF OpenFile, Goto
<1>23. ASSUME NEW t \in Transfers, SkipFile(t) PROVE \A x \in Transfers : status[x] \in Terminal => status'[x] = status[x] /\ filesDone'[x] = filesDone[x]
  BY <1>23 DEF SkipFile, Goto, Inc
<1>24. ASSUME NEW t \in Transfers, ConflictFails(t) PROVE \A x \in Transfers : status[x] \in Terminal => status'[x] = status[x] /\ filesDone'[x] = filesDone[x]
  BY <1>24 DEF ConflictFails, incrementTransferFailure, Goto, Inc
<1>25. ASSUME NEW t \in Transfers, CheckCtx(t) PROVE \A x \in Transfers : status[x] \in Terminal => status'[x] = status[x] /\ filesDone'[x] = filesDone[x]
  BY <1>25 DEF CheckCtx, Fail, Goto
<1>26. ASSUME NEW t \in Transfers, CopyChunk(t) PROVE \A x \in Transfers : status[x] \in Terminal => status'[x] = status[x] /\ filesDone'[x] = filesDone[x]
  BY <1>26 DEF CopyChunk, Goto, Inc
<1>27. ASSUME NEW t \in Transfers, EndOfFile(t) PROVE \A x \in Transfers : status[x] \in Terminal => status'[x] = status[x] /\ filesDone'[x] = filesDone[x]
  BY <1>27 DEF EndOfFile, Goto, Inc
<1>28. ASSUME NEW t \in Transfers, IOError(t) PROVE \A x \in Transfers : status[x] \in Terminal => status'[x] = status[x] /\ filesDone'[x] = filesDone[x]
  BY <1>28 DEF IOError, FileError, incrementTransferFailure, Fail, Goto, Inc
<1>29. ASSUME NEW t \in Transfers, Finish(t) PROVE \A x \in Transfers : status[x] \in Terminal => status'[x] = status[x] /\ filesDone'[x] = filesDone[x]
  BY <1>29 DEF Finish, finishTransfer, Outcome, Goto, SetStatus
<1>30. ASSUME NEW t \in Transfers, Release(t) PROVE \A x \in Transfers : status[x] \in Terminal => status'[x] = status[x] /\ filesDone'[x] = filesDone[x]
  BY <1>30 DEF Release, Goto
<1>31. CASE UNCHANGED vars
  BY <1>31
<1>32. QED
  BY <1>1, <1>2, <1>3, <1>4, <1>5, <1>6, <1>7, <1>8, <1>9, <1>10, <1>11, <1>12, <1>13, <1>14, <1>15, <1>16, <1>17, <1>18, <1>19, <1>20, <1>21, <1>22, <1>23, <1>24, <1>25, <1>26, <1>27, <1>28, <1>29, <1>30, <1>31 DEF Next, User, Worker, File, IO

\* An outcome is final: no late call and no second finish changes it.
THEOREM OutcomeFinal == Spec => OutcomeIsFinal
<1>1. IndInv /\ [Next]_vars =>
        [\A t \in Transfers : status[t] \in Terminal =>
           status'[t] = status[t] /\ filesDone'[t] = filesDone[t]]_vars
  BY FinalStep DEF IndInv
<1>2. QED
  BY <1>1, Invariance, PTL DEF Spec, OutcomeIsFinal

----------------------------------------------------------------------------
\* The refinement of TransferQueue.

\* Places of the worker between the slot and the end, where it is not parked.
Working == PC \ {"idle", "resolve", "slot", "parked", "release", "done"}

\* The state of the queue that a state of the session stands for.
Mapped == [t \in Transfers |-> Place(t)]

\* The place of the worker decides where the transfer is for the queue, until its end,
\* when the published status does.
PlaceInv ==
  \A t \in Transfers :
    /\ pc[t] \in {"idle", "resolve"} => Place(t) = "absent"
    /\ pc[t] = "slot" => Place(t) = "waiting"
    /\ pc[t] = "parked" => Place(t) = "resting"
    /\ pc[t] \in Working => Place(t) = "moving"
    /\ pc[t] \in {"release", "done"} => Place(t) = IF status[t] = "none" THEN "absent" ELSE status[t]

\* So it is in every state of the invariant.
LEMMA PlaceOfWorker == IndInv => PlaceInv
BY DEF IndInv, TypeOK, StatusInv, PlaceInv, Place, Working, PC, Status, Active, Terminal

\* The other transfers keep their workers and their status.
Alone(t) == \A u \in Transfers \ {t} : pc'[u] = pc[u] /\ status'[u] = status[u]

\* A step of one transfer changes the queue at this transfer only.
LEMMA OthersStay ==
  ASSUME NEW t \in Transfers,
         Alone(t)
  PROVE  Mapped' = [Mapped EXCEPT ![t] = Place(t)']
<1>1. ASSUME NEW u \in Transfers \ {t} PROVE Place(u)' = Place(u)
  BY <1>1 DEF Place, Alone
<1>2. Mapped' = [u \in Transfers |-> Place(u)']
  BY DEF Mapped
<1>3. QED
  <2> HIDE DEF Place
  <2>1. QED
    BY <1>1, <1>2 DEF Mapped

\* What a step of a transfer may do to its place: nothing, or one move of the queue.
Moves(t) ==
  \/ Place(t)' = Place(t)
  \/ Place(t) = "absent" /\ Place(t)' \in {"waiting", "skipped"}
  \/ Place(t) = "waiting" /\ Place(t)' = "canceled"
  \/ /\ Place(t) = "waiting" /\ Place(t)' = "moving"
     /\ \A u \in Transfers : Place(u) \notin {"moving", "resting"}
  \/ Place(t) = "moving" /\ Place(t)' = "resting"
  \/ Place(t) = "resting" /\ Place(t)' = "moving"
  \/ Place(t) = "moving" /\ Place(t)' \in {"completed", "partial_failed", "failed", "canceled"}

\* What a change of place at one transfer is for the queue.
LEMMA QueueMove ==
  ASSUME NEW t \in Transfers,
         Alone(t), Moves(t)
  PROVE  Queue!Next \/ Mapped' = Mapped
<1> USE DEF Queue!Next, Queue!Accept, Queue!Take, Queue!Rest, Queue!GoOn, Queue!Drop, Queue!End,
            Queue!Becomes, Queue!Busy, Queue!Outcomes
<1>0. Mapped' = [Mapped EXCEPT ![t] = Place(t)'] /\ Mapped[t] = Place(t)
  BY OthersStay DEF Mapped
<1> HIDE DEF Place
<1>1. CASE Place(t)' = Place(t)
  BY <1>0, <1>1 DEF Mapped
<1>2. CASE Place(t) = "absent" /\ Place(t)' \in {"waiting", "skipped"}
  BY <1>0, <1>2 DEF Mapped
<1>3. CASE Place(t) = "waiting" /\ Place(t)' = "canceled"
  BY <1>0, <1>3 DEF Mapped
<1>4. CASE /\ Place(t) = "waiting" /\ Place(t)' = "moving"
           /\ \A u \in Transfers : Place(u) \notin {"moving", "resting"}
  BY <1>0, <1>4 DEF Mapped
<1>5. CASE Place(t) = "moving" /\ Place(t)' = "resting"
  BY <1>0, <1>5 DEF Mapped
<1>6. CASE Place(t) = "resting" /\ Place(t)' = "moving"
  BY <1>0, <1>6 DEF Mapped
<1>7. CASE Place(t) = "moving" /\ Place(t)' \in {"completed", "partial_failed", "failed", "canceled"}
  BY <1>0, <1>7 DEF Mapped
<1>8. QED
  BY <1>1, <1>2, <1>3, <1>4, <1>5, <1>6, <1>7 DEF Moves

\* Every step of the session is a step of the queue or leaves the queue as it is: of the
\* calls and of the steps of runTransfer only those that move a transfer are seen.
LEMMA QueueStep ==
  ASSUME IndInv, IndInv', PlaceInv, PlaceInv', [Next]_vars
  PROVE  Queue!Next \/ Mapped' = Mapped
<1>0. /\ pc \in [Transfers -> PC] /\ status \in [Transfers -> Status]
      /\ gate \in [Transfers -> Gate]
      /\ \A x \in Transfers : pc[x] \in {"idle", "resolve"} => status[x] = "none"
      /\ \A x \in Transfers : pc[x] \in {"release", "done"} => status[x] \in Terminal \cup {"none"}
      /\ \A x \in Transfers : x \in slot <=> pc[x] \notin {"idle", "resolve", "slot", "done"}
  BY DEF IndInv, TypeOK, StatusInv, SlotInv, InSlot
<1> HIDE DEF Place, Mapped
<1>1. CASE UNCHANGED <<pc, status>>
  BY <1>1 DEF Mapped, Place
<1>2. ASSUME NEW t \in Transfers, Request(t) PROVE Alone(t) /\ Moves(t)
  BY <1>0, <1>2 DEF Request, Alone, Moves, PlaceInv, Working, PC, Terminal, Status, Active, Goto, itemVars
<1>3. ASSUME NEW t \in Transfers, Reject(t) PROVE Alone(t) /\ Moves(t)
  BY <1>0, <1>3 DEF Reject, Alone, Moves, PlaceInv, Working, PC, Terminal, Status, Active, Goto, itemVars
<1>4. ASSUME NEW t \in Transfers, Skip(t) PROVE Alone(t) /\ Moves(t)
  BY <1>0, <1>4 DEF Skip, Alone, Moves, PlaceInv, Working, PC, Terminal, Status, Active, Goto, SetStatus, itemVars
<1>5. ASSUME NEW t \in Transfers, StartTransfer(t) PROVE Alone(t) /\ Moves(t)
  BY <1>0, <1>5 DEF StartTransfer, Alone, Moves, PlaceInv, Working, PC, Terminal, Status, Active, Goto, SetStatus, itemVars
<1>6. ASSUME NEW t \in Transfers, PauseTransfer(t) PROVE Alone(t) /\ Moves(t)
  BY <1>0, <1>6 DEF PauseTransfer, Alone, Moves, PlaceInv, Working, PC, Terminal, Status, Active, SetStatus, itemVars
<1>7. ASSUME NEW t \in Transfers, ResumeTransfer(t) PROVE Alone(t) /\ Moves(t)
  BY <1>0, <1>7 DEF ResumeTransfer, Alone, Moves, PlaceInv, Working, PC, Terminal, Status, Active, SetStatus, itemVars
<1>8. ASSUME NEW t \in Transfers, CancelTransfer(t) PROVE Alone(t) /\ Moves(t)
  BY <1>0, <1>8 DEF CancelTransfer, Alone, Moves, PlaceInv, Working, PC, Terminal, Status, Active, itemVars
<1>9. ASSUME NEW t \in Transfers, CloseResumeCh(t) PROVE Alone(t) /\ Moves(t)
  BY <1>0, <1>9 DEF CloseResumeCh, Alone, Moves, PlaceInv, Working, PC, Terminal, Status, Active, itemVars
<1>10. ASSUME NEW t \in Transfers, AcquireSlot(t) PROVE Alone(t) /\ Moves(t)
  BY <1>0, <1>10 DEF AcquireSlot, Alone, Moves, PlaceInv, Working, PC, Terminal, Status, Active, Goto, itemVars
<1>11. ASSUME NEW t \in Transfers, CanceledInQueue(t) PROVE Alone(t) /\ Moves(t)
  BY <1>0, <1>11 DEF CanceledInQueue, Alone, Moves, PlaceInv, Working, PC, Terminal, Status, Active, Goto, finishTransfer, SetStatus, itemVars
<1>12. ASSUME NEW t \in Transfers, Begin(t) PROVE Alone(t) /\ Moves(t)
  BY <1>0, <1>12 DEF Begin, Alone, Moves, PlaceInv, Working, PC, Terminal, Status, Active, Fail, Goto, SetStatus, itemVars
<1>13. ASSUME NEW t \in Transfers, PassGate(t) PROVE Alone(t) /\ Moves(t)
  <2>1. CASE CtxDone(t)
    BY <1>0, <1>13, <2>1 DEF PassGate, Alone, Moves, PlaceInv, Working, PC, Terminal, Status, Active, LeaveGate, AfterGate, Fail, Gate, Goto, itemVars
  <2>2. CASE ~CtxDone(t)
    BY <1>0, <1>13, <2>2 DEF PassGate, Alone, Moves, PlaceInv, Working, PC, Terminal, Status, Active, LeaveGate, AfterGate, Fail, Gate, Goto, itemVars
  <2>3. QED
    BY <2>1, <2>2
<1>14. ASSUME NEW t \in Transfers, Park(t) PROVE Alone(t) /\ Moves(t)
  BY <1>0, <1>14 DEF Park, Alone, Moves, PlaceInv, Working, PC, Terminal, Status, Active, Goto, SetStatus, itemVars
<1>15. ASSUME NEW t \in Transfers, CanceledWhileParked(t) PROVE Alone(t) /\ Moves(t)
  BY <1>0, <1>15 DEF CanceledWhileParked, Alone, Moves, PlaceInv, Working, PC, Terminal, Status, Active, Fail, Goto, itemVars
<1>16. ASSUME NEW t \in Transfers, Wake(t) PROVE Alone(t) /\ Moves(t)
  BY <1>0, <1>16 DEF Wake, Alone, Moves, PlaceInv, Working, PC, Terminal, Status, Active, Goto, itemVars
<1>17. ASSUME NEW t \in Transfers, FinishResume(t) PROVE Alone(t) /\ Moves(t)
  <2>1. CASE CtxDone(t)
    BY <1>0, <1>17, <2>1 DEF FinishResume, Alone, Moves, PlaceInv, Working, PC, Terminal, Status, Active, LeaveGate, AfterGate, Fail, Gate, Goto, SetStatus, itemVars
  <2>2. CASE ~CtxDone(t)
    BY <1>0, <1>17, <2>2 DEF FinishResume, Alone, Moves, PlaceInv, Working, PC, Terminal, Status, Active, LeaveGate, AfterGate, Fail, Gate, Goto, SetStatus, itemVars
  <2>3. QED
    BY <2>1, <2>2
<1>18. ASSUME NEW t \in Transfers, ResumeRejected(t) PROVE Alone(t) /\ Moves(t)
  BY <1>0, <1>18 DEF ResumeRejected, Alone, Moves, PlaceInv, Working, PC, Terminal, Status, Active, FileError, incrementTransferFailure, Fail, Goto, itemVars
<1>19. ASSUME NEW t \in Transfers, PlanFails(t) PROVE Alone(t) /\ Moves(t)
  BY <1>0, <1>19 DEF PlanFails, Alone, Moves, PlaceInv, Working, PC, Terminal, Status, Active, Fail, Goto, itemVars
<1>20. ASSUME NEW t \in Transfers, Plan(t) PROVE Alone(t) /\ Moves(t)
  BY <1>0, <1>20 DEF Plan, Alone, Moves, PlaceInv, Working, PC, Terminal, Status, Active, Goto, SetStatus, itemVars
<1>21. ASSUME NEW t \in Transfers, Loop(t) PROVE Alone(t) /\ Moves(t)
  BY <1>0, <1>21 DEF Loop, Alone, Moves, PlaceInv, Working, PC, Terminal, Status, Active, Fail, Goto, itemVars
<1>22. ASSUME NEW t \in Transfers, OpenFile(t) PROVE Alone(t) /\ Moves(t)
  BY <1>0, <1>22 DEF OpenFile, Alone, Moves, PlaceInv, Working, PC, Terminal, Status, Active, Goto, itemVars
<1>23. ASSUME NEW t \in Transfers, SkipFile(t) PROVE Alone(t) /\ Moves(t)
  BY <1>0, <1>23 DEF SkipFile, Alone, Moves, PlaceInv, Working, PC, Terminal, Status, Active, Goto, itemVars
<1>24. ASSUME NEW t \in Transfers, ConflictFails(t) PROVE Alone(t) /\ Moves(t)
  BY <1>0, <1>24 DEF ConflictFails, Alone, Moves, PlaceInv, Working, PC, Terminal, Status, Active, incrementTransferFailure, Goto, itemVars
<1>25. ASSUME NEW t \in Transfers, CheckCtx(t) PROVE Alone(t) /\ Moves(t)
  BY <1>0, <1>25 DEF CheckCtx, Alone, Moves, PlaceInv, Working, PC, Terminal, Status, Active, Fail, Goto, itemVars
<1>26. ASSUME NEW t \in Transfers, CopyChunk(t) PROVE Alone(t) /\ Moves(t)
  BY <1>0, <1>26 DEF CopyChunk, Alone, Moves, PlaceInv, Working, PC, Terminal, Status, Active, Goto, itemVars
<1>27. ASSUME NEW t \in Transfers, EndOfFile(t) PROVE Alone(t) /\ Moves(t)
  BY <1>0, <1>27 DEF EndOfFile, Alone, Moves, PlaceInv, Working, PC, Terminal, Status, Active, Goto, itemVars
<1>28. ASSUME NEW t \in Transfers, IOError(t) PROVE Alone(t) /\ Moves(t)
  BY <1>0, <1>28 DEF IOError, Alone, Moves, PlaceInv, Working, PC, Terminal, Status, Active, FileError, incrementTransferFailure, Fail, Goto, itemVars
<1>29. ASSUME NEW t \in Transfers, Finish(t) PROVE Alone(t) /\ Moves(t)
  BY <1>0, <1>29 DEF Finish, Alone, Moves, PlaceInv, Working, PC, Terminal, Status, Active, finishTransfer, Outcome, Goto, SetStatus, itemVars
<1>30. ASSUME NEW t \in Transfers, Release(t) PROVE Alone(t) /\ Moves(t)
  BY <1>0, <1>30 DEF Release, Alone, Moves, PlaceInv, Working, PC, Terminal, Status, Active, Goto, itemVars
<1>31. QED
  BY <1>1, <1>2, <1>3, <1>4, <1>5, <1>6, <1>7, <1>8, <1>9, <1>10, <1>11, <1>12, <1>13, <1>14, <1>15, <1>16, <1>17, <1>18, <1>19, <1>20, <1>21, <1>22, <1>23, <1>24, <1>25, <1>26, <1>27, <1>28, <1>29, <1>30, QueueMove DEF Next, User, Worker, File, IO, CloseSession, vars, itemVars

\* The transfers of a session implement the queue that TransferQueue promises, for any
\* number of transfers, files and chunks: runTransfer and waitIfPaused, whatever calls and
\* cancellations race them.
THEOREM QueueImplemented == Spec => ImplementsQueue
<1>1. Init => Queue!Init
  <2>1. ASSUME Init, NEW t \in Transfers PROVE Place(t) = "absent"
    <3>1. status[t] = "none"
      BY <2>1 DEF Init
    <3>2. QED
      BY <3>1 DEF Place, Terminal, Active
  <2>2. QED
    BY <2>1 DEF Queue!Init
<1>2. IndInv /\ IndInv' /\ [Next]_vars => Queue!Next \/ Mapped' = Mapped
  BY PlaceOfWorker, QueueStep, PTL
<1>3. IndInv /\ IndInv' /\ [Next]_vars => [Queue!Next]_Mapped
  BY <1>2
<1>4. QED
  BY <1>1, <1>3, Invariance, PTL DEF Spec, ImplementsQueue, Queue!Spec, Mapped
=============================================================================
