------------------------------ MODULE TerminalIO ------------------------------
(***************************************************************************)
(* The data paths of one SSH terminal (internal/terminal/manager.go, from  *)
(* the shell on; sshclient/terminal.go): a bounded queue of input that     *)
(* refuses what does not fit, resizes that are debounced and always use    *)
(* the latest size, output that goes through a channel and a batch.        *)
(* ServerLifecycle has the life of the session around them.                *)
(***************************************************************************)
EXTENDS Naturals, Sequences

CONSTANTS Sizes,      \* terminal sizes
          QueueCap,   \* capacity of worker.input (128)
          ChunkCap,   \* capacity of the channel of chunks (64)
          BatchCap,   \* chunks that fill a batch (maxBatchBytes)
          MaxChunks   \* bound: chunks the remote shell prints

VARIABLES
  phase,      \* run: before the shell, with it, after stopIO, over
  live,        \* the context of the worker is live
  closing,    \* worker.closing
  shell,      \* the shell
  remote,     \* the remote end: it runs or has exited
  desired, applied,   \* worker.desiredSize, worker.appliedSize
  signal,     \* worker.resize has its element
  timer,      \* the debounce timer runs
  sizing,     \* the size resizeShell read and is applying
  io,         \* the loops that run
  queue,      \* the number of chunks in worker.input
  produced,   \* the number of chunks the remote shell has printed
  held,       \* the chunk readShell has read and not passed on
  chunks, batch,      \* the channel and the batch of emitBatches
  emitted     \* the output events, as the chunks they carried

vars == <<phase, live, closing, shell, remote, desired, applied, signal, timer, sizing, io, queue,
          produced, held, chunks, batch, emitted>>

Loops == {"read", "write", "resize", "wait", "emit"}

TypeOK ==
  /\ phase \in {"connect", "online", "stop", "over"}
  /\ live \in BOOLEAN /\ closing \in BOOLEAN /\ signal \in BOOLEAN /\ timer \in BOOLEAN
  /\ shell \in {"none", "open", "closed"} /\ remote \in {"alive", "exited"}
  /\ desired \in Sizes /\ applied \in Sizes
  /\ sizing \subseteq Sizes
  /\ io \subseteq Loops
  /\ queue \in 0..QueueCap /\ produced \in 0..MaxChunks
  /\ held \in Seq(Nat) /\ Len(held) <= 1
  /\ chunks \in Seq(Nat) /\ Len(chunks) <= ChunkCap
  /\ batch \in Seq(Nat) /\ Len(batch) <= BatchCap
  /\ emitted \in Seq(Nat)

Init ==
  /\ phase = "connect" /\ live = TRUE /\ closing = FALSE
  /\ shell = "none" /\ remote = "alive"
  /\ desired \in Sizes /\ applied = desired
  /\ signal = FALSE /\ timer = FALSE /\ sizing = {}
  /\ io = {} /\ queue = 0 /\ produced = 0
  /\ held = <<>> /\ chunks = <<>> /\ batch = <<>> /\ emitted = <<>>

resizeVars == <<desired, applied, signal, timer, sizing>>
outVars == <<produced, held, chunks, batch, emitted>>

\* Write: a full queue refuses the data, and the caller hears of it.
Write ==
  /\ phase # "over" /\ queue < QueueCap
  /\ queue' = queue + 1
  /\ UNCHANGED <<phase, live, closing, shell, remote, resizeVars, io, outVars>>

\* Faulty variant: the size is stored, a signal that is pending is waited out.

\* Resize with signalResize.
Resize(size) ==
  /\ phase # "over" /\ ~closing /\ desired # size
  /\ desired' = size
  /\ signal' = TRUE
  /\ UNCHANGED <<phase, live, closing, shell, remote, applied, timer, sizing, io, queue, outVars>>

\* OpenTerminal succeeds; needsResize; the four loops and emitBatches start.
ShellOpens ==
  /\ phase = "connect" /\ live
  /\ phase' = "online" /\ shell' = "open" /\ io' = Loops
  /\ signal' = (signal \/ desired # applied)
  /\ UNCHANGED <<live, closing, remote, desired, applied, timer, sizing, queue, outVars>>

\* Every path of run that ends without a shell.
ConnectEnds ==
  /\ phase = "connect"
  /\ phase' = "over" /\ closing' = TRUE
  /\ UNCHANGED <<live, shell, remote, resizeVars, io, queue, outVars>>

\* Close: the flag, cancel, and the shell if there is one.
Close ==
  /\ phase # "over"
  /\ closing' = TRUE /\ live' = FALSE
  /\ shell' = IF shell = "open" THEN "closed" ELSE shell
  /\ UNCHANGED <<phase, remote, resizeVars, io, queue, outVars>>

RemotePrints ==
  /\ remote = "alive" /\ shell = "open" /\ "read" \in io /\ held = <<>> /\ produced < MaxChunks
  /\ produced' = produced + 1 /\ held' = <<produced + 1>>
  /\ UNCHANGED <<phase, live, closing, shell, remote, resizeVars, io, queue, chunks, batch, emitted>>

RemoteExits ==
  /\ remote = "alive"
  /\ remote' = "exited"
  /\ UNCHANGED <<phase, live, closing, shell, resizeVars, io, queue, outVars>>

\* ioCtx: stopIO or the context of the worker.
IOStopped == ~live \/ phase = "stop"

\* readShell: pass the chunk on, or give up with the context; end with the shell.
readShell ==
  /\ "read" \in io
  /\ \/ /\ held # <<>> /\ Len(chunks) < ChunkCap
        /\ chunks' = chunks \o held /\ held' = <<>> /\ UNCHANGED io
     \/ /\ held # <<>> /\ IOStopped
        /\ io' = io \ {"read"} /\ held' = <<>> /\ UNCHANGED chunks
     \/ /\ held = <<>> /\ (shell = "closed" \/ remote = "exited")
        /\ io' = io \ {"read"} /\ UNCHANGED <<held, chunks>>
  /\ UNCHANGED <<phase, live, closing, shell, remote, resizeVars, queue, produced, batch, emitted>>

\* writeShell: a write fails on a shell that is closed, and may fail before.
writeShell ==
  /\ "write" \in io
  /\ \/ /\ queue > 0 /\ queue' = queue - 1
        /\ \/ shell = "open" /\ UNCHANGED io
           \/ io' = io \ {"write"}
     \/ IOStopped /\ io' = io \ {"write"} /\ UNCHANGED queue
  /\ UNCHANGED <<phase, live, closing, shell, remote, resizeVars, outVars>>

\* resizeShell: the signal starts the timer again.
ResizeSignalled ==
  /\ "resize" \in io /\ sizing = {} /\ signal
  /\ signal' = FALSE /\ timer' = TRUE
  /\ UNCHANGED <<phase, live, closing, shell, remote, desired, applied, sizing, io, queue, outVars>>

\* The timer: read the sizes, leave if the session is closing.
ResizeTimer ==
  /\ "resize" \in io /\ sizing = {} /\ timer
  /\ timer' = FALSE
  /\ io' = IF closing THEN io \ {"resize"} ELSE io
  /\ sizing' = IF closing \/ desired = applied THEN {} ELSE {desired}
  /\ UNCHANGED <<phase, live, closing, shell, remote, desired, applied, signal, queue, outVars>>

\* shell.Resize, then appliedSize; a failure ends the loop and the session.
ResizeApplied ==
  /\ "resize" \in io /\ sizing # {}
  /\ sizing' = {}
  /\ \/ shell = "open" /\ applied' \in sizing /\ UNCHANGED io
     \/ io' = io \ {"resize"} /\ UNCHANGED applied
  /\ UNCHANGED <<phase, live, closing, shell, remote, desired, signal, timer, queue, outVars>>

ResizeStops ==
  /\ "resize" \in io /\ sizing = {} /\ IOStopped
  /\ io' = io \ {"resize"}
  /\ UNCHANGED <<phase, live, closing, shell, remote, resizeVars, queue, outVars>>

\* shell.Wait.
WaitReturns ==
  /\ "wait" \in io /\ (remote = "exited" \/ shell = "closed")
  /\ io' = io \ {"wait"}
  /\ UNCHANGED <<phase, live, closing, shell, remote, resizeVars, queue, outVars>>

\* Faulty variant: a chunk that does not fit is sent ahead of the batch.
EmitOvertakes ==
  /\ "emit" \in io /\ chunks # <<>>
  /\ chunks' = Tail(chunks)
  /\ IF Len(batch) < BatchCap
       THEN batch' = Append(batch, Head(chunks)) /\ UNCHANGED emitted
       ELSE emitted' = Append(emitted, Head(chunks)) /\ UNCHANGED batch
  /\ UNCHANGED <<phase, live, closing, shell, remote, resizeVars, io, queue, produced, held>>

\* emitBatches: a chunk joins the batch, which is flushed first when it is full.
EmitChunk ==
  /\ "emit" \in io /\ chunks # <<>>
  /\ chunks' = Tail(chunks)
  /\ IF Len(batch) < BatchCap
       THEN batch' = Append(batch, Head(chunks)) /\ UNCHANGED emitted
       ELSE batch' = <<Head(chunks)>> /\ emitted' = emitted \o batch
  /\ UNCHANGED <<phase, live, closing, shell, remote, resizeVars, io, queue, produced, held>>

\* The ticker; a batch that is full at once.
EmitFlush ==
  /\ "emit" \in io /\ batch # <<>>
  /\ emitted' = emitted \o batch /\ batch' = <<>>
  /\ UNCHANGED <<phase, live, closing, shell, remote, resizeVars, io, queue, produced, held, chunks>>

\* The channel is closed by readShell and empty, or the context is done: what is
\* still in the channel then is lost.
EmitEnds ==
  /\ "emit" \in io
  /\ IOStopped \/ ("read" \notin io /\ chunks = <<>>)
  /\ emitted' = emitted \o batch /\ batch' = <<>>
  /\ io' = io \ {"emit"}
  /\ UNCHANGED <<phase, live, closing, shell, remote, resizeVars, queue, produced, held, chunks>>

\* The select of run: a loop returned or the context is done; stopIO, shell.Close.
StopIO ==
  /\ phase = "online"
  /\ ~live \/ ~(Loops \ {"emit"} \subseteq io)
  /\ phase' = "stop" /\ shell' = "closed"
  /\ UNCHANGED <<live, closing, remote, resizeVars, io, queue, outVars>>

\* ioWorkers.Wait and emitDone; the status event and the deferred clean-up.
RunEnds ==
  /\ phase = "stop" /\ io = {}
  /\ phase' = "over" /\ closing' = TRUE
  /\ UNCHANGED <<live, shell, remote, resizeVars, io, queue, outVars>>

EmitStep == EmitChunk \/ EmitFlush \/ EmitEnds
ResizeStep == ResizeSignalled \/ ResizeTimer \/ ResizeApplied \/ ResizeStops

Next ==
  \/ Write \/ (\E size \in Sizes : Resize(size)) \/ Close
  \/ ShellOpens \/ ConnectEnds \/ RemotePrints \/ RemoteExits
  \/ readShell \/ writeShell \/ ResizeStep \/ WaitReturns \/ EmitStep \/ StopIO \/ RunEnds

Spec == Init /\ [][Next]_vars

\* Goroutines run; the timer fires, and its expiry is not passed over for ever
\* by new signals (the user stops dragging); a closed shell fails a blocked write.
Fairness ==
  /\ WF_vars(ShellOpens \/ ConnectEnds) /\ WF_vars(StopIO) /\ WF_vars(RunEnds)
  /\ WF_vars(readShell) /\ WF_vars(IOStopped /\ writeShell) /\ WF_vars(WaitReturns)
  /\ WF_vars(ResizeSignalled) /\ WF_vars(ResizeTimer) /\ WF_vars(ResizeApplied) /\ WF_vars(ResizeStops)
  /\ WF_vars(EmitStep) /\ WF_vars(IOStopped /\ EmitEnds)

FairSpec == Spec /\ Fairness

-----------------------------------------------------------------------------
\* Properties.

\* The output events carry the output in order, without a gap: only a tail can
\* be missing, when the session ends.
OutputIsPrefix == \A i \in DOMAIN emitted : emitted[i] = i

\* A size that is asked for is applied in the end, whatever signals were merged
\* on the way, unless another one is asked for or the session ends.
ResizeConverges ==
  \A size \in Sizes :
    (desired = size /\ phase # "over") ~> (applied = size \/ desired # size \/ phase = "over")

\* A session that is closed, or whose remote shell has exited, ends: no loop is
\* left waiting for another.
SessionEnds == (~live \/ (phase = "online" /\ remote = "exited")) ~> phase = "over"

\* The queues keep to their limits and the output to its order (readShell, emitBatches).
OutputIsOrdered == TypeOK /\ OutputIsPrefix

\* What the user asks of a session happens: the last size is applied, the end comes.
SessionSettles == ResizeConverges /\ SessionEnds

=============================================================================
