---------------------------- MODULE LocalTerminal ----------------------------
(***************************************************************************)
(* Terminals of the local machine (internal/localterminal,                 *)
(* app_local_terminal.go).  A session is registered before its process is  *)
(* started; Open, the goroutine run with its read and write loops, the     *)
(* watcher of the context and closeSession work on it without a common     *)
(* lock.  The choice of the shell is a part of its own, made of operators. *)
(***************************************************************************)
EXTENDS Naturals, Sequences, FiniteSets

CONSTANTS Sessions,   \* the session ids
          Writers,    \* the calls of Write that may be in progress
          QueueCap    \* capacity of the input channel (128)

-----------------------------------------------------------------------------
\* The shell.

Platforms == {"windows", "darwin", "linux"}
Programs == {"pwsh", "powershell", "cmd", "zsh", "bash", "sh"}
ShellKinds == {"cmd", "powershell", "local"}

\* In order of preference; $SHELL of darwin is one of the two.
shellCandidates(platform, preference) ==
  CASE platform = "windows" /\ preference = "auto" -> <<"pwsh", "powershell", "cmd">>
    [] platform = "windows" /\ preference = "powershell" -> <<"pwsh", "powershell">>
    [] platform = "darwin" /\ preference = "auto" -> <<"zsh", "bash">>
    [] platform = "linux" /\ preference = "auto" -> <<"bash", "zsh", "sh">>
    [] OTHER -> <<preference>>

\* resolveShellForPlatform: the first candidate that is installed.
FirstInstalled(candidates, installed) ==
  LET found == {i \in DOMAIN candidates : candidates[i] \in installed}
  IN  IF found = {} THEN "none" ELSE candidates[CHOOSE i \in found : \A j \in found : i <= j]

resolveShellKindForPlatform(platform, k, installed) ==
  CASE platform = "windows" /\ k = "cmd" -> FirstInstalled(<<"cmd">>, installed)
    [] platform = "windows" /\ k = "powershell" ->
         FirstInstalled(shellCandidates(platform, "powershell"), installed)
    [] platform = "darwin" /\ k = "local" ->
         FirstInstalled(shellCandidates(platform, "auto"), installed)
    [] OTHER -> "none"

shellKindFromPath(program) ==
  CASE program = "cmd" -> "cmd"
    [] program \in {"pwsh", "powershell"} -> "powershell"
    [] program \in {"zsh", "bash", "sh"} -> "local"
    [] OTHER -> "none"

shellResolverAvailable(platform, installed) ==
  IF platform = "darwin"
    THEN resolveShellKindForPlatform(platform, "local", installed) # "none"
    ELSE \E k \in {"cmd", "powershell"} : resolveShellKindForPlatform(platform, k, installed) # "none"

\* The kinds that CapabilitiesForPlatform offers, if the PTY is there.
localTerminalShellOptions(platform, installed) ==
  IF ~shellResolverAvailable(platform, installed) THEN {}
  ELSE IF platform = "darwin" THEN {"local"} ELSE {"cmd", "powershell"}

-----------------------------------------------------------------------------
\* The sessions.

VARIABLES
  platform, installed,   \* the machine
  open,      \* where Open is
  status,    \* session.state.Status
  shown,     \* the status of the last state event
  sessions,  \* m.sessions
  closed,    \* session.closed
  ctx,       \* the context of the session is live
  pty,       \* session.pty and whether it is open
  proc,      \* the process; "stuck": terminated in vain
  run,       \* where run is
  loops,     \* of "read" and "write", the loops that run
  input,     \* the number of chunks in session.input
  closer,    \* where closeSession is
  early,     \* history: closeSession began before the process was started
  writing,   \* the session a Write has looked up
  closeAll   \* the sessions CloseAll waits for

machine == <<platform, installed>>
vars == <<machine, open, status, shown, sessions, closed, ctx, pty, proc, run, loops, input, closer,
          early, writing, closeAll>>

Over == {"exited", "failed", "closed"}

TypeOK ==
  /\ platform \in Platforms /\ installed \subseteq Programs
  /\ open \in [Sessions -> {"no", "announce", "start", "fail", "mark", "show", "done", "failed"}]
  /\ status \in [Sessions -> {"none", "starting", "running"} \cup Over]
  /\ shown \in [Sessions -> {"none", "starting", "running"} \cup Over]
  /\ sessions \subseteq Sessions
  /\ closed \in [Sessions -> BOOLEAN]
  /\ ctx \in [Sessions -> BOOLEAN]
  /\ pty \in [Sessions -> {"none", "open", "closed"}]
  /\ proc \in [Sessions -> {"none", "alive", "dead", "stuck"}]
  /\ run \in [Sessions -> {"no", "wait", "join", "verdict", "show", "remove", "done"}]
  /\ loops \in [Sessions -> SUBSET {"read", "write"}]
  /\ input \in [Sessions -> 0..QueueCap]
  /\ closer \in [Sessions -> {"no", "remove", "mark", "kill", "show", "over"}]
  /\ early \subseteq Sessions
  /\ writing \in [Writers -> SUBSET Sessions]
  /\ closeAll \subseteq Sessions

Init ==
  /\ platform \in Platforms /\ installed \in SUBSET Programs
  /\ open = [s \in Sessions |-> "no"]
  /\ status = [s \in Sessions |-> "none"] /\ shown = status
  /\ sessions = {} /\ early = {} /\ closeAll = {}
  /\ closed = [s \in Sessions |-> FALSE]
  /\ ctx = [s \in Sessions |-> TRUE]
  /\ pty = [s \in Sessions |-> "none"] /\ proc = pty
  /\ run = [s \in Sessions |-> "no"]
  /\ loops = [s \in Sessions |-> {}]
  /\ input = [s \in Sessions |-> 0]
  /\ closer = [s \in Sessions |-> "no"]
  /\ writing = [w \in Writers |-> {}]

ioVars == <<loops, input, writing>>
ptyVars == <<machine, ctx, pty, proc>>

Done(s) == run[s] = "done" \/ open[s] = "failed"

\* Faulty variant: the session is registered when its process is there.
OpenUnregistered(s) ==
  /\ open[s] = "no"
  /\ open' = [open EXCEPT ![s] = "announce"]
  /\ status' = [status EXCEPT ![s] = "starting"]
  /\ UNCHANGED <<shown, sessions, closed, ptyVars, run, ioVars, closer, early, closeAll>>

\* OpenLocalTerminal and Open: resolveOpenShell finds a shell of the kind that was
\* chosen; the session is registered.
Open(s) ==
  /\ open[s] = "no"
  /\ \E k \in localTerminalShellOptions(platform, installed) :
       resolveShellKindForPlatform(platform, k, installed) # "none"
  /\ open' = [open EXCEPT ![s] = "announce"]
  /\ status' = [status EXCEPT ![s] = "starting"]
  /\ sessions' = sessions \cup {s}
  /\ UNCHANGED <<shown, closed, ptyVars, run, ioVars, closer, early, closeAll>>

\* emitState of a snapshot, before the process and after it was started; the
\* second one is followed by go run.
OpenEmits(s) ==
  /\ open[s] \in {"announce", "show"}
  /\ shown' = [shown EXCEPT ![s] = status[s]]
  /\ IF open[s] = "announce"
       THEN open' = [open EXCEPT ![s] = "start"] /\ UNCHANGED <<run, loops>>
       ELSE /\ open' = [open EXCEPT ![s] = "done"]
            /\ run' = [run EXCEPT ![s] = "wait"]
            /\ loops' = [loops EXCEPT ![s] = {"read", "write"}]
  /\ UNCHANGED <<status, sessions, closed, ptyVars, input, writing, closer, early, closeAll>>

\* factory.Start (startPlatformPTY, startDirectConPTY, startProcess).
FactoryStart(s) ==
  /\ open[s] = "start"
  /\ \/ /\ pty' = [pty EXCEPT ![s] = "open"]
        /\ proc' = [proc EXCEPT ![s] = "alive"]
        /\ open' = [open EXCEPT ![s] = "mark"]
     \/ open' = [open EXCEPT ![s] = "fail"] /\ UNCHANGED <<pty, proc>>
  /\ UNCHANGED <<machine, status, shown, sessions, closed, ctx, run, ioVars, closer, early, closeAll>>

OpenFails(s) ==
  /\ open[s] = "fail"
  /\ open' = [open EXCEPT ![s] = "failed"]
  /\ status' = [status EXCEPT ![s] = "failed"]
  /\ shown' = [shown EXCEPT ![s] = "failed"]
  /\ ctx' = [ctx EXCEPT ![s] = FALSE]
  /\ sessions' = sessions \ {s}
  /\ UNCHANGED <<machine, closed, pty, proc, run, ioVars, closer, early, closeAll>>

OpenMarksRunning(s) ==
  /\ open[s] = "mark"
  /\ open' = [open EXCEPT ![s] = "show"]
  /\ status' = [status EXCEPT ![s] = "running"]
  /\ UNCHANGED <<shown, sessions, closed, ptyVars, run, ioVars, closer, early, closeAll>>

\* conptySession.Close: the process is terminated, or survives that.
ClosePTY(s) ==
  /\ pty' = [pty EXCEPT ![s] = IF @ = "open" THEN "closed" ELSE @]
  /\ \E p \in {"dead", "stuck"} :
       proc' = [proc EXCEPT ![s] = IF @ = "alive" /\ pty[s] = "open" THEN p ELSE @]

\* The goroutine of startPlatformPTY.
ContextDone(s) ==
  /\ ~ctx[s] /\ pty[s] = "open"
  /\ ClosePTY(s)
  /\ UNCHANGED <<machine, open, status, shown, sessions, closed, ctx, run, ioVars, closer, early, closeAll>>

ProcessExits(s) ==
  /\ proc[s] \in {"alive", "stuck"}
  /\ proc' = [proc EXCEPT ![s] = "dead"]
  /\ UNCHANGED <<machine, open, status, shown, sessions, closed, ctx, pty, run, ioVars, closer, early,
                 closeAll>>

\* run: process.Wait, then cancel and pty.Close.
RunWaited(s) ==
  /\ run[s] = "wait" /\ proc[s] = "dead"
  /\ run' = [run EXCEPT ![s] = "join"]
  /\ ctx' = [ctx EXCEPT ![s] = FALSE]
  /\ ClosePTY(s)
  /\ UNCHANGED <<machine, open, status, shown, sessions, closed, ioVars, closer, early, closeAll>>

\* wg.Wait, then session.closed is read once.
RunJoined(s) ==
  /\ run[s] = "join" /\ loops[s] = {}
  /\ run' = [run EXCEPT ![s] = IF closed[s] THEN "remove" ELSE "verdict"]
  /\ UNCHANGED <<open, status, shown, sessions, closed, ptyVars, ioVars, closer, early, closeAll>>

RunVerdict(s) ==
  /\ run[s] = "verdict"
  /\ \E v \in {"exited", "failed"} : status' = [status EXCEPT ![s] = v]
  /\ run' = [run EXCEPT ![s] = "show"]
  /\ UNCHANGED <<open, shown, sessions, closed, ptyVars, ioVars, closer, early, closeAll>>

RunEmits(s) ==
  /\ run[s] = "show"
  /\ shown' = [shown EXCEPT ![s] = status[s]]
  /\ run' = [run EXCEPT ![s] = "remove"]
  /\ UNCHANGED <<open, status, sessions, closed, ptyVars, ioVars, closer, early, closeAll>>

\* The deferred delete, then close(done).
RunEnds(s) ==
  /\ run[s] = "remove"
  /\ sessions' = sessions \ {s}
  /\ run' = [run EXCEPT ![s] = "done"]
  /\ UNCHANGED <<open, status, shown, closed, ptyVars, ioVars, closer, early, closeAll>>

\* readLoop reads until the PTY is closed or the context is done.
readLoop(s) ==
  /\ "read" \in loops[s] /\ (pty[s] = "closed" \/ ~ctx[s])
  /\ loops' = [loops EXCEPT ![s] = @ \ {"read"}]
  /\ UNCHANGED <<open, status, shown, sessions, closed, ptyVars, run, input, writing, closer, early,
                 closeAll>>

\* writeLoop: a chunk is written, or the write fails and the loop is over.
writeLoop(s) ==
  /\ "write" \in loops[s]
  /\ \/ /\ input[s] > 0
        /\ input' = [input EXCEPT ![s] = @ - 1]
        /\ \/ pty[s] = "open" /\ UNCHANGED loops
           \/ loops' = [loops EXCEPT ![s] = @ \ {"write"}]
     \/ ~ctx[s] /\ loops' = [loops EXCEPT ![s] = @ \ {"write"}] /\ UNCHANGED input
  /\ UNCHANGED <<open, status, shown, sessions, closed, ptyVars, run, writing, closer, early, closeAll>>

writeRest == <<open, status, shown, sessions, closed, ptyVars, run, loops, closer, early, closeAll>>

Write(w, s) ==
  /\ writing[w] = {} /\ s \in sessions
  /\ writing' = [writing EXCEPT ![w] = {s}]
  /\ UNCHANGED <<writeRest, input>>

\* The select of Write waits for room or for the end of the session.
WriteSends(w, s) ==
  /\ writing[w] = {s}
  /\ \/ input[s] < QueueCap /\ input' = [input EXCEPT ![s] = @ + 1]
     \/ Done(s) /\ UNCHANGED input
  /\ writing' = [writing EXCEPT ![w] = {}]
  /\ UNCHANGED writeRest

closeRest == <<open, run, ioVars>>

\* Close, and each of CloseAll: closeSession once, whoever comes first.
Close(s) ==
  /\ s \in sessions /\ closer[s] = "no"
  /\ closed' = [closed EXCEPT ![s] = TRUE]
  /\ closer' = [closer EXCEPT ![s] = "remove"]
  /\ early' = IF pty[s] = "none" \/ open[s] # "done" THEN early \cup {s} ELSE early
  /\ UNCHANGED <<closeRest, status, shown, sessions, ptyVars, closeAll>>

CloseRemoves(s) ==
  /\ closer[s] = "remove"
  /\ sessions' = sessions \ {s}
  /\ closer' = [closer EXCEPT ![s] = "mark"]
  /\ UNCHANGED <<closeRest, status, shown, closed, ptyVars, early, closeAll>>

CloseMarks(s) ==
  /\ closer[s] = "mark"
  /\ status' = [status EXCEPT ![s] = "closed"]
  /\ closer' = [closer EXCEPT ![s] = "kill"]
  /\ UNCHANGED <<closeRest, shown, sessions, closed, ptyVars, early, closeAll>>

\* cancel, and pty.Close if there is one.
CloseKills(s) ==
  /\ closer[s] = "kill"
  /\ ctx' = [ctx EXCEPT ![s] = FALSE]
  /\ ClosePTY(s)
  /\ closer' = [closer EXCEPT ![s] = "show"]
  /\ UNCHANGED <<machine, closeRest, status, shown, sessions, closed, early, closeAll>>

CloseEmits(s) ==
  /\ closer[s] = "show"
  /\ shown' = [shown EXCEPT ![s] = status[s]]
  /\ closer' = [closer EXCEPT ![s] = "over"]
  /\ UNCHANGED <<closeRest, status, sessions, closed, ptyVars, early, closeAll>>

\* CloseAll takes the sessions there are, closes each and waits for done.
CloseAll ==
  /\ closeAll = {} /\ sessions # {}
  /\ closeAll' = sessions
  /\ UNCHANGED <<closeRest, status, shown, sessions, closed, ptyVars, closer, early>>

\* Faulty variant: only the end of run counts.
CloseAllWaitsForRun(s) ==
  /\ s \in closeAll
  /\ \/ /\ closer[s] = "no"
        /\ closed' = [closed EXCEPT ![s] = TRUE]
        /\ closer' = [closer EXCEPT ![s] = "remove"]
        /\ early' = IF pty[s] = "none" \/ open[s] # "done" THEN early \cup {s} ELSE early
        /\ UNCHANGED closeAll
     \/ /\ closer[s] = "over" /\ run[s] = "done"
        /\ closeAll' = closeAll \ {s}
        /\ UNCHANGED <<closed, closer, early>>
  /\ UNCHANGED <<closeRest, status, shown, sessions, ptyVars>>

CloseAllStep(s) ==
  /\ s \in closeAll
  /\ \/ /\ closer[s] = "no"
        /\ closed' = [closed EXCEPT ![s] = TRUE]
        /\ closer' = [closer EXCEPT ![s] = "remove"]
        /\ early' = IF pty[s] = "none" \/ open[s] # "done" THEN early \cup {s} ELSE early
        /\ UNCHANGED closeAll
     \/ /\ closer[s] = "over" /\ Done(s)
        /\ closeAll' = closeAll \ {s}
        /\ UNCHANGED <<closed, closer, early>>
  /\ UNCHANGED <<closeRest, status, shown, sessions, ptyVars>>

OpenStep(s) == OpenEmits(s) \/ FactoryStart(s) \/ OpenFails(s) \/ OpenMarksRunning(s)
RunStep(s) == RunWaited(s) \/ RunJoined(s) \/ RunVerdict(s) \/ RunEmits(s) \/ RunEnds(s)
CloseStep(s) == CloseRemoves(s) \/ CloseMarks(s) \/ CloseKills(s) \/ CloseEmits(s)

Next ==
  \/ \E s \in Sessions :
       \/ Open(s) \/ OpenStep(s) \/ ContextDone(s) \/ ProcessExits(s)
       \/ RunStep(s) \/ readLoop(s) \/ writeLoop(s) \/ Close(s) \/ CloseStep(s) \/ CloseAllStep(s)
       \/ \E w \in Writers : Write(w, s) \/ WriteSends(w, s)
  \/ CloseAll

Spec == Init /\ [][Next]_vars

\* Goroutines run; the PTY gives an error to a loop once it is closed.  Nothing
\* is assumed of the user or of the process.
Fairness ==
  /\ \A s \in Sessions :
       /\ WF_vars(OpenStep(s)) /\ WF_vars(RunStep(s)) /\ WF_vars(CloseStep(s))
       /\ WF_vars(CloseAllStep(s)) /\ WF_vars(ContextDone(s))
       /\ WF_vars(readLoop(s)) /\ WF_vars(~ctx[s] /\ writeLoop(s))
       /\ \A w \in Writers : WF_vars(WriteSends(w, s))

FairSpec == Spec /\ Fairness

-----------------------------------------------------------------------------
\* Properties.

\* Whatever the platform and whatever is installed: a machine with a shell that
\* some kind stands for opens at least one of the kinds it offers, and the shell
\* opened for a kind is of that kind.
OfferedOpens ==
  LET options == localTerminalShellOptions(platform, installed)
      shell(k) == resolveShellKindForPlatform(platform, k, installed)
      known == IF platform = "windows" THEN {"cmd", "pwsh", "powershell"}
               ELSE IF platform = "darwin" THEN {"zsh", "bash"} ELSE {}
  IN  /\ installed \cap known # {} => \E k \in options : shell(k) # "none"
      /\ \A k \in options : shell(k) = "none" \/ shellKindFromPath(shell(k)) = k

\* A process that runs can be found and closed: its session is registered, or
\* its Open goes on, or it is being ended.
NoOrphanProcess ==
  \A s \in Sessions : proc[s] = "alive" =>
    s \in sessions \/ closer[s] \in {"mark", "kill"} \/ ~ctx[s]

\* A session whose goroutine is over is shown as over.  The exception is one that
\* was closed before Open had shown it as running: Open shows "running" last.
EndedIsShown ==
  \A s \in Sessions : Done(s) /\ closer[s] \in {"no", "over"} => shown[s] \in Over \/ s \in early

\* CloseAll returns, unless a process survives its termination.
CloseAllEnds ==
  \A s \in Sessions : s \in closeAll ~> (s \notin closeAll \/ proc[s] = "stuck")

\* A Write that waits for room in the queue returns when the session ends.
WriteReturns ==
  \A w \in Writers, s \in Sessions : (writing[w] = {s} /\ Done(s)) ~> writing[w] # {s}

\* The processes of the local terminals can be found, their end is shown, and what is offered
\* opens (Open, run, closeSession, localTerminalShellOptions).
ProcessesAreKnown == TypeOK /\ NoOrphanProcess /\ EndedIsShown /\ OfferedOpens

\* No caller of the manager waits for ever (CloseAll, Write).
LocalCallsEnd == CloseAllEnds /\ WriteReturns

=============================================================================
