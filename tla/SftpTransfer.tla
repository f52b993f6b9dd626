---------------------------- MODULE SftpTransfer ----------------------------
(***************************************************************************)
(* The transfer queue of one SFTP/SCP session of internal/sftpmanager: the *)
(* user's Upload/Download, Pause, Resume and Cancel calls race the worker  *)
(* goroutine (runTransfer) of every transfer, and the session can close at *)
(* any moment.                                                             *)
(*                                                                         *)
(* A step is one critical section of item.mu, one channel operation or one *)
(* read/write of the stream.  pc is the place of the worker in its code;   *)
(* the other variables are fields of the transfer and of its session.      *)
(***************************************************************************)
EXTENDS Integers, FiniteSets

CONSTANTS
  Transfers,    \* transfers that may be requested on the session
  Kind,         \* what each one moves: see Kinds
  Files,        \* bound: files in a directory plan
  Chunks        \* bound: reads that deliver data, per file

Kinds == {"file", "dir", "scpFile", "scpDir"}

ASSUME KindAssumption  == Kind \in [Transfers -> Kinds]
ASSUME BoundAssumption == Files \in Nat /\ Chunks \in Nat

Recursive(t) == Kind[t] \in {"dir", "scpDir"}

\* Only the SFTP copy loops call pause(written) after every write: an SCP
\* stream can stop only between two files.
PausesInFile(t) == Kind[t] \in {"file", "dir"}

Active   == {"queued", "planning", "running", "pausing", "paused", "resuming"}
Terminal == {"completed", "partial_failed", "failed", "canceled", "skipped"}
Status   == {"none"} \cup Active \cup Terminal

\* item.resumeCh and the copy of it a parked worker waits on: "nil", "open"
\* (in the item), "taken" (a Resume removed it and has yet to close it),
\* "closed".
Channel == {"nil", "open", "taken", "closed"}

PC == {"idle", "resolve", "slot", "begin", "gate", "parked", "woken", "plan",
       "loop", "file", "copy", "io", "finish", "release", "done"}

\* Where waitIfPaused was called: before any work, before a file, after a write.
Gate == {"start", "file", "chunk"}

VARIABLES
  open,            \* the session's context is not cancelled
  canceled,        \* transfers whose own context was cancelled
  slot,            \* transfers holding session.slot, a channel of capacity 1
  status,          \* state.Status
  pauseRequested,  \* state.PauseRequested
  resumeCh,        \* item.resumeCh
  pc, gate,        \* control state of runTransfer
  err,             \* run... returned an error
  chunk,           \* chunks of the current file already written
  filesTotal,      \* state.FilesTotal
  filesDone,       \* state.FilesDone
  moved,           \* files copied to their last chunk
  skipped,         \* state.SkippedCount, files only
  failedFiles,     \* files counted in state.FailedCount
  failedDirs       \* directories counted in state.FailedCount

ctlVars  == <<open, canceled>>
itemVars == <<status, pauseRequested, resumeCh>>
fileVars == <<chunk, filesTotal, filesDone, moved, skipped, failedFiles, failedDirs>>
vars     == <<ctlVars, slot, itemVars, pc, gate, err, fileVars>>

TypeOK ==
  /\ open \in BOOLEAN
  /\ canceled \subseteq Transfers
  /\ slot \subseteq Transfers
  /\ status \in [Transfers -> Status]
  /\ pauseRequested \in [Transfers -> BOOLEAN]
  /\ resumeCh \in [Transfers -> Channel]
  /\ pc \in [Transfers -> PC]
  /\ gate \in [Transfers -> Gate]
  /\ err \in [Transfers -> BOOLEAN]
  /\ chunk \in [Transfers -> Nat]
  /\ filesTotal \in [Transfers -> Nat]
  /\ filesDone \in [Transfers -> Nat]
  /\ moved \in [Transfers -> Nat]
  /\ skipped \in [Transfers -> Nat]
  /\ failedFiles \in [Transfers -> Nat]
  /\ failedDirs \in [Transfers -> Nat]

Init ==
  /\ open = TRUE
  /\ canceled = {}
  /\ slot = {}
  /\ status = [t \in Transfers |-> "none"]
  /\ pauseRequested = [t \in Transfers |-> FALSE]
  /\ resumeCh = [t \in Transfers |-> "nil"]
  /\ pc = [t \in Transfers |-> "idle"]
  /\ gate = [t \in Transfers |-> "start"]
  /\ err = [t \in Transfers |-> FALSE]
  /\ chunk = [t \in Transfers |-> 0]
  /\ filesTotal = [t \in Transfers |-> 0]
  /\ filesDone = [t \in Transfers |-> 0]
  /\ moved = [t \in Transfers |-> 0]
  /\ skipped = [t \in Transfers |-> 0]
  /\ failedFiles = [t \in Transfers |-> 0]
  /\ failedDirs = [t \in Transfers |-> 0]

\* ctx.Err() # nil: the transfer's context derives from the session's.
CtxDone(t) == t \in canceled \/ ~open

Goto(t, where) == pc' = [pc EXCEPT ![t] = where]
SetStatus(t, s) == status' = [status EXCEPT ![t] = s]
Inc(f, t) == [f EXCEPT ![t] = @ + 1]

----------------------------------------------------------------------------
\* Calls of the user and of the session manager.

\* Upload, Download, UploadDirectory, DownloadDirectory: activeSession found
\* the session; the conflict check that follows runs without the lock.
Request(t) ==
  /\ pc[t] = "idle"
  /\ open
  /\ Goto(t, "resolve")
  /\ UNCHANGED <<ctlVars, slot, itemVars, gate, err, fileVars>>

\* The source is missing or the target cannot be resolved: no transfer.
Reject(t) ==
  /\ pc[t] = "resolve"
  /\ Goto(t, "done")
  /\ UNCHANGED <<ctlVars, slot, itemVars, gate, err, fileVars>>

\* skippedTransfer: registered as finished, no worker.
Skip(t) ==
  /\ pc[t] = "resolve"
  /\ SetStatus(t, "skipped")
  /\ filesTotal' = [filesTotal EXCEPT ![t] = 1]
  /\ filesDone' = [filesDone EXCEPT ![t] = 1]
  /\ skipped' = [skipped EXCEPT ![t] = 1]
  /\ Goto(t, "done")
  /\ UNCHANGED <<ctlVars, slot, pauseRequested, resumeCh, gate, err, chunk,
                 moved, failedFiles, failedDirs>>

\* startTransfer: the session may have closed since Request.
StartTransfer(t) ==
  /\ pc[t] = "resolve"
  /\ SetStatus(t, "queued")
  /\ filesTotal' = [filesTotal EXCEPT ![t] = IF Recursive(t) THEN 0 ELSE 1]
  /\ Goto(t, "slot")
  /\ UNCHANGED <<ctlVars, slot, pauseRequested, resumeCh, gate, err, chunk,
                 filesDone, moved, skipped, failedFiles, failedDirs>>

\* Faulty variant: the call forgets to look at the status.
PauseAnyTransfer(t) ==
  /\ status[t] # "none"
  /\ pauseRequested' = [pauseRequested EXCEPT ![t] = TRUE]
  /\ SetStatus(t, "pausing")
  /\ UNCHANGED <<ctlVars, slot, resumeCh, pc, gate, err, fileVars>>

\* PauseTransfer.  In the other states the call changes nothing.
PauseTransfer(t) ==
  /\ status[t] \in {"queued", "planning", "running", "resuming"}
  /\ pauseRequested' = [pauseRequested EXCEPT ![t] = TRUE]
  /\ SetStatus(t, "pausing")
  /\ UNCHANGED <<ctlVars, slot, resumeCh, pc, gate, err, fileVars>>

\* ResumeTransfer up to the unlock: what it does to the item.
ResumeTransfer(t) ==
  /\ status[t] \in Active
  /\ pauseRequested' = [pauseRequested EXCEPT ![t] = FALSE]
  /\ IF \/ status[t] = "paused"
        \/ status[t] = "pausing" /\ resumeCh[t] = "open"
       THEN /\ SetStatus(t, "resuming")
            /\ resumeCh' = [resumeCh EXCEPT ![t] = IF @ = "open" THEN "taken" ELSE @]
       ELSE /\ SetStatus(t, IF status[t] = "pausing" THEN "running" ELSE status[t])
            /\ UNCHANGED resumeCh
  /\ UNCHANGED <<ctlVars, slot, pc, gate, err, fileVars>>

\* The close(resumeCh) of ResumeTransfer, after the unlock.
CloseResumeCh(t) ==
  /\ resumeCh[t] = "taken"
  /\ resumeCh' = [resumeCh EXCEPT ![t] = "closed"]
  /\ UNCHANGED <<ctlVars, slot, status, pauseRequested, pc, gate, err, fileVars>>

\* CancelTransfer finds every registered transfer, finished ones too.
CancelTransfer(t) ==
  /\ status[t] # "none"
  /\ canceled' = canceled \cup {t}
  /\ UNCHANGED <<open, slot, itemVars, pc, gate, err, fileVars>>

\* Stop, Reconnect, keepalive failure, invalidateSession: the session's
\* context is cancelled.
CloseSession ==
  /\ open
  /\ open' = FALSE
  /\ UNCHANGED <<canceled, slot, itemVars, pc, gate, err, fileVars>>

----------------------------------------------------------------------------
\* The worker, runTransfer.

\* finishTransfer: one critical section that publishes the outcome.
finishTransfer(t, outcome) ==
  /\ SetStatus(t, outcome)
  /\ filesDone' = IF outcome \in {"completed", "partial_failed"}
                    THEN [filesDone EXCEPT ![t] = filesTotal[t]] ELSE filesDone
  /\ UNCHANGED <<ctlVars, pauseRequested, resumeCh, gate, err, chunk, filesTotal,
                 moved, skipped, failedFiles, failedDirs>>

\* Faulty variant: a slot of capacity two.
AcquireSecondSlot(t) ==
  /\ pc[t] = "slot"
  /\ Cardinality(slot) < 2
  /\ slot' = slot \cup {t}
  /\ Goto(t, "begin")
  /\ UNCHANGED <<ctlVars, itemVars, gate, err, fileVars>>

\* select: the slot was free.  Go picks any ready case, so the context may be
\* done as well.
AcquireSlot(t) ==
  /\ pc[t] = "slot"
  /\ slot = {}
  /\ slot' = {t}
  /\ Goto(t, "begin")
  /\ UNCHANGED <<ctlVars, itemVars, gate, err, fileVars>>

\* Faulty variant: whatever ends the wait is a failure.
FailedInQueue(t) ==
  /\ pc[t] = "slot"
  /\ CtxDone(t)
  /\ finishTransfer(t, "failed")
  /\ Goto(t, "done")
  /\ UNCHANGED slot

\* select: the context ended first; the slot was never taken.
CanceledInQueue(t) ==
  /\ pc[t] = "slot"
  /\ CtxDone(t)
  /\ finishTransfer(t, "canceled")
  /\ Goto(t, "done")
  /\ UNCHANGED slot

\* The run goes on to publish its outcome, err set.
Fail(t) == err' = [err EXCEPT ![t] = TRUE] /\ Goto(t, "finish")

\* The first update overwrites whatever status a Pause set in the queue; the
\* request itself is kept for the gate.
Begin(t) ==
  /\ pc[t] = "begin"
  /\ IF CtxDone(t)
       THEN Fail(t) /\ UNCHANGED <<status, gate>>
       ELSE /\ SetStatus(t, IF Recursive(t) THEN "planning" ELSE "running")
            /\ Goto(t, "gate")
            /\ gate' = [gate EXCEPT ![t] = "start"]
            /\ UNCHANGED err
  /\ UNCHANGED <<ctlVars, slot, pauseRequested, resumeCh, fileVars>>

\* What the caller of waitIfPaused does when it returns nil.
AfterGate(t) == CASE gate[t] = "start" -> IF Recursive(t) THEN "plan" ELSE "copy"
                  [] gate[t] = "file"  -> "file"
                  [] gate[t] = "chunk" -> "copy"

\* waitIfPaused returns ctx.Err().
LeaveGate(t) == IF CtxDone(t) THEN Fail(t) ELSE Goto(t, AfterGate(t)) /\ UNCHANGED err

\* waitIfPaused without a request.
PassGate(t) ==
  /\ pc[t] = "gate"
  /\ ~pauseRequested[t]
  /\ LeaveGate(t)
  /\ UNCHANGED <<ctlVars, slot, itemVars, gate, fileVars>>

\* Faulty variant: the channel to wait on is never made.
ParkWithoutChannel(t) ==
  /\ pc[t] = "gate"
  /\ pauseRequested[t]
  /\ SetStatus(t, "paused")
  /\ Goto(t, "parked")
  /\ UNCHANGED <<ctlVars, slot, pauseRequested, resumeCh, gate, err, fileVars>>

\* waitIfPaused with one: publish "paused" and wait on the channel.
Park(t) ==
  /\ pc[t] = "gate"
  /\ pauseRequested[t]
  /\ SetStatus(t, "paused")
  /\ resumeCh' = [resumeCh EXCEPT ![t] = IF @ = "nil" THEN "open" ELSE @]
  /\ Goto(t, "parked")
  /\ UNCHANGED <<ctlVars, slot, pauseRequested, gate, err, fileVars>>

CanceledWhileParked(t) ==
  /\ pc[t] = "parked"
  /\ CtxDone(t)
  /\ Fail(t)
  /\ UNCHANGED <<ctlVars, slot, itemVars, gate, fileVars>>

Wake(t) ==
  /\ pc[t] = "parked"
  /\ resumeCh[t] = "closed"
  /\ resumeCh' = [resumeCh EXCEPT ![t] = "nil"]
  /\ Goto(t, "woken")
  /\ UNCHANGED <<ctlVars, slot, status, pauseRequested, gate, err, fileVars>>

\* beforeResume succeeded: the update after the wait.  It clears the request
\* whatever happened since the Resume that closed the channel.
FinishResume(t) ==
  /\ pc[t] = "woken"
  /\ SetStatus(t, IF status[t] \in {"paused", "resuming"} THEN "running" ELSE status[t])
  /\ pauseRequested' = [pauseRequested EXCEPT ![t] = FALSE]
  /\ LeaveGate(t)
  /\ UNCHANGED <<ctlVars, slot, resumeCh, gate, fileVars>>

\* Faulty variant: the file is passed over and the failure not counted.
ignoreTransferFailure(t) ==
  /\ filesDone' = Inc(filesDone, t)
  /\ Goto(t, "loop")
  /\ UNCHANGED <<err, chunk, filesTotal, moved, skipped, failedFiles, failedDirs>>

\* A file of a directory failed: counted, and the loop goes on.
incrementTransferFailure(t) ==
  /\ failedFiles' = Inc(failedFiles, t)
  /\ filesDone' = Inc(filesDone, t)
  /\ Goto(t, "loop")
  /\ UNCHANGED <<err, chunk, filesTotal, moved, skipped, failedDirs>>

\* An error of the copy of one file: the end of a single-file transfer, one
\* failure of a directory's - unless the context is done.
FileError(t) ==
  IF Recursive(t) /\ ~CtxDone(t)
    THEN incrementTransferFailure(t)
    ELSE Fail(t) /\ UNCHANGED fileVars

\* beforeResume: the source or the target changed during the pause, or cannot
\* be positioned.
ResumeRejected(t) ==
  /\ pc[t] = "woken"
  /\ gate[t] = "chunk"
  /\ FileError(t)
  /\ UNCHANGED <<ctlVars, slot, itemVars, gate>>

PlanFails(t) ==
  /\ pc[t] = "plan"
  /\ Fail(t)
  /\ UNCHANGED <<ctlVars, slot, itemVars, gate, fileVars>>

\* Faulty variant: the root is taken off the number of files.
PlanOffByOne(t) ==
  /\ pc[t] = "plan"
  /\ SetStatus(t, "running")
  /\ \E n \in 0..Files : filesTotal' = [filesTotal EXCEPT ![t] = n - 1]
  /\ filesDone' = [filesDone EXCEPT ![t] = 0]
  /\ Goto(t, "loop")
  /\ UNCHANGED <<ctlVars, slot, pauseRequested, resumeCh, gate, err, chunk, moved,
                 skipped, failedFiles, failedDirs>>

\* applyRecursivePlan and the loop that creates the directories, some of
\* which may fail.
Plan(t) ==
  /\ pc[t] = "plan"
  /\ SetStatus(t, "running")
  /\ \E n \in 0..Files, bad \in 0..1 :
       /\ filesTotal' = [filesTotal EXCEPT ![t] = n]
       /\ failedDirs' = [failedDirs EXCEPT ![t] = bad]
  /\ filesDone' = [filesDone EXCEPT ![t] = 0]
  /\ Goto(t, "loop")
  /\ UNCHANGED <<ctlVars, slot, pauseRequested, resumeCh, gate, err, chunk, moved,
                 skipped, failedFiles>>

\* The head of the loop over plan.Files; the loop over plan.Directories before
\* it looks at the context too, so an empty plan may also end as cancelled.
Loop(t) ==
  /\ pc[t] = "loop"
  /\ \/ filesDone[t] = filesTotal[t] /\ Goto(t, "finish") /\ UNCHANGED <<err, gate>>
     \/ /\ filesDone[t] # filesTotal[t] \/ filesTotal[t] = 0
        /\ CtxDone(t)
        /\ Fail(t) /\ UNCHANGED gate
     \/ /\ filesDone[t] # filesTotal[t]
        /\ ~CtxDone(t)
        /\ Goto(t, "gate")
        /\ gate' = [gate EXCEPT ![t] = "file"]
        /\ UNCHANGED err
  /\ UNCHANGED <<ctlVars, slot, itemVars, fileVars>>

\* The conflict policy of the next file: copy it, skip it, or fail.
OpenFile(t) ==
  /\ pc[t] = "file"
  /\ chunk' = [chunk EXCEPT ![t] = 0]
  /\ Goto(t, "copy")
  /\ UNCHANGED <<ctlVars, slot, itemVars, gate, err, filesTotal, filesDone, moved,
                 skipped, failedFiles, failedDirs>>

SkipFile(t) ==
  /\ pc[t] = "file"
  /\ skipped' = Inc(skipped, t)
  /\ filesDone' = Inc(filesDone, t)
  /\ Goto(t, "loop")
  /\ UNCHANGED <<ctlVars, slot, itemVars, gate, err, chunk, filesTotal, moved,
                 failedFiles, failedDirs>>

ConflictFails(t) ==
  /\ pc[t] = "file"
  /\ incrementTransferFailure(t)
  /\ UNCHANGED <<ctlVars, slot, itemVars, gate>>

\* The head of the copy loop.
CheckCtx(t) ==
  /\ pc[t] = "copy"
  /\ IF CtxDone(t) THEN Fail(t) ELSE Goto(t, "io") /\ UNCHANGED err
  /\ UNCHANGED <<ctlVars, slot, itemVars, gate, fileVars>>

CopyChunk(t) ==
  /\ pc[t] = "io"
  /\ chunk[t] < Chunks
  /\ chunk' = Inc(chunk, t)
  /\ IF PausesInFile(t)
       THEN Goto(t, "gate") /\ gate' = [gate EXCEPT ![t] = "chunk"]
       ELSE Goto(t, "copy") /\ UNCHANGED gate
  /\ UNCHANGED <<ctlVars, slot, itemVars, err, filesTotal, filesDone, moved, skipped,
                 failedFiles, failedDirs>>

\* io.EOF: the file is complete; finishTransferFile for one of a directory.
EndOfFile(t) ==
  /\ pc[t] = "io"
  /\ chunk[t] = Chunks
  /\ moved' = Inc(moved, t)
  /\ IF Recursive(t)
       THEN Goto(t, "loop") /\ filesDone' = Inc(filesDone, t)
       ELSE Goto(t, "finish") /\ UNCHANGED filesDone
  /\ UNCHANGED <<ctlVars, slot, itemVars, gate, err, chunk, filesTotal, skipped,
                 failedFiles, failedDirs>>

\* Opening, reading or writing fails; after CloseSession the client is closed
\* and this is what the worker sees.
IOError(t) ==
  /\ pc[t] = "io"
  /\ FileError(t)
  /\ UNCHANGED <<ctlVars, slot, itemVars, gate>>

\* The end of runTransfer: an error of a cancelled context is "canceled".
Outcome(t) ==
  CASE err[t] /\ CtxDone(t)  -> "canceled"
    [] err[t] /\ ~CtxDone(t) -> "failed"
    [] ~err[t] /\ failedFiles[t] + failedDirs[t] > 0 -> "partial_failed"
    [] OTHER -> "completed"

Finish(t) ==
  /\ pc[t] = "finish"
  /\ finishTransfer(t, Outcome(t))
  /\ Goto(t, "release")
  /\ UNCHANGED slot

\* Faulty variant: the slot is given back only after a success.
ReleaseOnSuccess(t) ==
  /\ pc[t] = "release"
  /\ slot' = IF err[t] THEN slot ELSE slot \ {t}
  /\ Goto(t, "done")
  /\ UNCHANGED <<ctlVars, itemVars, gate, err, fileVars>>

\* The deferred receive from current.slot.
Release(t) ==
  /\ pc[t] = "release"
  /\ slot' = slot \ {t}
  /\ Goto(t, "done")
  /\ UNCHANGED <<ctlVars, itemVars, gate, err, fileVars>>

----------------------------------------------------------------------------

User(t) == \/ Request(t) \/ Reject(t) \/ Skip(t) \/ StartTransfer(t)
           \/ PauseTransfer(t) \/ ResumeTransfer(t) \/ CancelTransfer(t)

File(t) == OpenFile(t) \/ SkipFile(t) \/ ConflictFails(t)
IO(t)   == CopyChunk(t) \/ EndOfFile(t) \/ IOError(t)

Worker(t) ==
  \/ AcquireSlot(t) \/ CanceledInQueue(t) \/ Begin(t)
  \/ PassGate(t) \/ Park(t) \/ CanceledWhileParked(t) \/ Wake(t)
  \/ FinishResume(t) \/ ResumeRejected(t)
  \/ PlanFails(t) \/ Plan(t) \/ Loop(t) \/ File(t) \/ CheckCtx(t) \/ IO(t)
  \/ Finish(t) \/ Release(t)

Next == \/ CloseSession
        \/ \E t \in Transfers : User(t) \/ CloseResumeCh(t) \/ Worker(t)

Spec == Init /\ [][Next]_vars

\* A goroutine that can run does: the worker, and the Resume call between its
\* unlock and its close.  The user owes nothing.  Waiting for the slot needs no
\* more than weak fairness: only finitely many transfers ever hold it.
Fairness == \A t \in Transfers : WF_vars(Worker(t)) /\ WF_vars(CloseResumeCh(t))

FairSpec == Spec /\ Fairness

----------------------------------------------------------------------------
\* Properties.

\* Transfers a worker is moving, or has stopped in the middle of moving.
InSlot == {t \in Transfers : pc[t] \notin {"idle", "resolve", "slot", "done"}}

\* runTransfer moves one transfer of a session at a time: the stream and its
\* pauses are never shared.
OneAtATime == \A t, u \in InSlot : t = u

\* A transfer shown as paused does no I/O: its worker waits for a resume, or
\* was cancelled out of the wait.
PausedIsStill == \A t \in Transfers : status[t] = "paused" => pc[t] \in {"parked", "finish"}

\* No lost resume: a worker that waits on a channel still in the item is shown
\* as paused, so that ResumeTransfer takes and closes that channel.  (The
\* branch of ResumeTransfer for "pausing" with a channel is never needed.)
ParkedIsResumable ==
  \A t \in Transfers : pc[t] = "parked" =>
    \/ resumeCh[t] = "open" /\ status[t] = "paused"
    \/ resumeCh[t] \in {"taken", "closed"}

\* Pauses are safe on both sides: the worker does not go on, and it is not left behind.
PausesAreSafe == PausedIsStill /\ ParkedIsResumable

\* "completed" means every file of the transfer was copied to its end or
\* skipped by the conflict policy; "partial_failed" that something was not.
OutcomeIsTrue ==
  \A t \in Transfers :
    /\ status[t] = "completed" =>
         moved[t] + skipped[t] = filesTotal[t] /\ failedFiles[t] + failedDirs[t] = 0
    /\ status[t] = "partial_failed" => moved[t] + skipped[t] < filesTotal[t] \/ failedDirs[t] > 0

\* A finished transfer never changes again: no late Pause, Resume or Cancel
\* and no second finishTransfer touches its published outcome.
OutcomeIsFinal ==
  [][\A t \in Transfers : status[t] \in Terminal =>
       status'[t] = status[t] /\ filesDone'[t] = filesDone[t]]_vars

\* A cancelled transfer, or one whose session closed, ends: in the queue, in a
\* pause or in the middle of a file.
CancelEnds ==
  \A t \in Transfers : (status[t] \in Active /\ CtxDone(t)) ~> (status[t] \in Terminal)

\* A transfer that is neither paused nor behind a paused one ends.
TransferEnds ==
  \A t \in Transfers : (status[t] \in Active) ~>
    (status[t] \in Terminal \/ \E u \in Transfers : status[u] = "paused")

\* No transfer waits for ever, but for one that the user has paused (runTransfer,
\* waitIfPaused).
TransfersEnd == CancelEnds /\ TransferEnds

\* Where the transfer is for whoever looks at its status and its worker: parked or not,
\* and before the slot or behind it.
Place(t) ==
  CASE status[t] = "none" -> "absent"
    [] status[t] \in Terminal -> status[t]
    [] status[t] \in Active /\ pc[t] = "slot" -> "waiting"
    [] status[t] \in Active /\ pc[t] = "parked" -> "resting"
    [] OTHER -> "moving"

Queue == INSTANCE TransferQueue WITH state <- [t \in Transfers |-> Place(t)]

\* The workers, their pauses and cancellations implement the queue: one transfer behind
\* the slot at a time, also while it is paused, a transfer that is cancelled before its
\* turn never fails or completes, and no outcome is taken back (runTransfer, waitIfPaused).
ImplementsQueue == Queue!Spec

\* A pause that was accepted takes effect: while the transfer is shown as
\* pausing its worker does not pass waitIfPaused.  ("SCP mode pauses after the
\* current file" is what PauseTransfer tells the user.)
PauseTakesEffect ==
  [][\A t \in Transfers : status[t] = "pausing" /\ pc[t] = "gate" =>
       pc'[t] \in {"gate", "parked", "finish"}]_vars
=============================================================================
