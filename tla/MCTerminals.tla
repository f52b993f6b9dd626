----------------------------- MODULE MCTerminals -----------------------------
(***************************************************************************)
(* LocalTerminal and TerminalIO side by side.  They share no state, so a   *)
(* behaviour runs one of them while the other is in one of its final       *)
(* states: a local session whose Open failed, an SSH session that is over. *)
(***************************************************************************)
EXTENDS Naturals, Sequences

CONSTANTS Sessions, Writers, QueueCap, Sizes, ChunkCap, BatchCap, MaxChunks

\* The capacities are positive numbers in the code; a terminal has a size.
ASSUME CapAssumption ==
  /\ {QueueCap, ChunkCap, BatchCap, MaxChunks} \subseteq Nat /\ BatchCap > 0
  /\ Sizes # {}

VARIABLES platform, installed, open, status, shown, sessions, closed, ctx, pty, proc, run, loops, input, closer, early,
          writing, closeAll
VARIABLES phase, live, closing, shell, remote, desired, applied, signal, timer, sizing, io, queue,
          produced, held, chunks, batch, emitted

Local == INSTANCE LocalTerminal
IO == INSTANCE TerminalIO

localVars == <<platform, installed, open, status, shown, sessions, closed, ctx, pty, proc, run, loops, input, closer, early,
               writing, closeAll>>
sshVars == <<phase, live, closing, shell, remote, desired, applied, signal, timer, sizing, io, queue,
             produced, held, chunks, batch, emitted>>

LocalOver ==
  /\ open = [s \in Sessions |-> "failed"]
  /\ status = [s \in Sessions |-> "failed"] /\ shown = status
  /\ sessions = {} /\ early = {} /\ closeAll = {}
  /\ closed = [s \in Sessions |-> FALSE] /\ ctx = closed
  /\ pty = [s \in Sessions |-> "none"] /\ proc = pty
  /\ run = [s \in Sessions |-> "no"] /\ closer = run
  /\ loops = [s \in Sessions |-> {}]
  /\ input = [s \in Sessions |-> 0]
  /\ writing = [w \in Writers |-> {}]

IOOver ==
  /\ phase = "over" /\ live = TRUE /\ closing = TRUE
  /\ shell = "none" /\ remote = "exited"
  /\ desired = (CHOOSE z \in Sizes : TRUE) /\ applied = desired
  /\ signal = FALSE /\ timer = FALSE /\ sizing = {}
  /\ io = {} /\ queue = 0 /\ produced = 0
  /\ held = <<>> /\ chunks = <<>> /\ batch = <<>> /\ emitted = <<>>

Machine == platform = "windows" /\ installed = {"powershell", "cmd"}

\* One machine for the behaviours, every machine for the choice of the shell.
Init ==
  \/ Machine /\ Local!Init /\ IOOver
  \/ Machine /\ LocalOver /\ IO!Init
  \/ platform \in Local!Platforms /\ installed \in SUBSET Local!Programs /\ LocalOver /\ IOOver

Next ==
  \/ Local!Next /\ UNCHANGED sshVars
  \/ IO!Next /\ UNCHANGED localVars

FairSpec == Init /\ [][Next]_<<localVars, sshVars>> /\ Local!Fairness /\ IO!Fairness

\* The processes of local terminals: LocalTerminal.
ProcessesAreKnown == Local!ProcessesAreKnown

\* The output of an SSH terminal: TerminalIO.
OutputIsOrdered == IO!OutputIsOrdered

\* Callers of the local terminals come back (LocalTerminal: Write, Close, CloseAll), and an
\* SSH terminal gets the last size asked for and ends when it is closed (TerminalIO).
TerminalsSettle == Local!LocalCallsEnd /\ IO!SessionSettles
=============================================================================
