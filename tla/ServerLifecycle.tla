--------------------------- MODULE ServerLifecycle ---------------------------
(***************************************************************************)
(* One server, as the application sees it: the terminal sessions           *)
(* (internal/terminal) and the monitor (internal/monitor) that live on it, *)
(* the state tracker their events feed (internal/connectionstate), the     *)
(* calls that open them (app_terminal.go, app_connections.go) and the      *)
(* server-wide disconnect (internal/serverlifecycle).  No lock spans two   *)
(* of these, so every call is cut where it lets go of one.                 *)
(***************************************************************************)
EXTENDS Integers, FiniteSets

CONSTANTS
  Sessions,        \* terminal session ids
  Disconnectors,   \* concurrent DisconnectServer calls
  MaxOpens,        \* bound: workers started per session id
  MaxMonitors,     \* bound: monitor workers started
  MaxDisconnects,  \* bound: disconnects begun
  MaxOverlap       \* bound: monitor workers started while two disconnects run at once

ASSUME BoundAssumption == {MaxOpens, MaxMonitors, MaxDisconnects, MaxOverlap} \subseteq Nat

VARIABLES
  \* connectionstate.Tracker, the record of this server
  monitorStatus, monitorActive, terminals, lastError, disconnecting, blocked,
  \* history: sessions whose last event was ignored, or that were taken out by a disconnect
  ignored,
  \* terminal.Manager: phase and info.Status of the worker of a session, its
  \* context, and the number of workers the session has had
  phase, info, ctxDone, opens,
  \* OpenTerminal / ReconnectTerminal call in progress for a session
  call, waitOpen,
  \* monitor.Manager: workers started, the one in m.workers (0: none), the
  \* phase and context of each; the Connect call in progress
  monitors, monitorWorker, monitorPhase, monitorDone, connectCall,
  \* serverlifecycle.Coordinator: progress of each Disconnect, the worker it
  \* waits for, the sessions it still has to close, and what was alive when it
  \* began
  disc, waitMonitor, toClose, waitSession, before, disconnects

trackerVars == <<monitorStatus, monitorActive, terminals, lastError, disconnecting, blocked, ignored>>
workerVars  == <<phase, info, ctxDone, opens>>
callVars    == <<call, waitOpen>>
monitorVars == <<monitors, monitorWorker, monitorPhase, monitorDone, connectCall>>
discVars    == <<disc, waitMonitor, toClose, waitSession, before, disconnects>>
vars == <<trackerVars, workerVars, callVars, monitorVars, discVars>>

MonitorStatus == {"offline", "connecting", "reconnecting", "online", "disconnected", "error"}
MonitorIds    == 1..MaxMonitors

\* A terminal worker: "registered" (in m.workers, "connecting" not emitted),
\* "dialing", "opened" (shell open, "online" not emitted), "online", "closed"
\* or "failed" (final event not emitted), "ended" (emitted, still in
\* m.workers), "none".
Phases == {"none", "registered", "dialing", "opened", "online", "closed", "failed", "ended"}

\* A monitor worker: "start" (head of the loop), "dialing", "sampling", "retry"
\* (waiting), "return" (deferred function to run), "removed" (out of
\* m.workers, last publish to come), "none".
MonitorPhases == {"none", "start", "dialing", "sampling", "retry", "return", "removed", "finished"}

DiscSteps == {"idle", "monitor", "waitMonitor", "terminal", "close", "waitSession", "complete"}

TypeOK ==
  /\ monitorStatus \in MonitorStatus
  /\ monitorActive \in BOOLEAN
  /\ terminals \in [Sessions -> {"none", "connecting", "online"}]
  /\ lastError \in BOOLEAN
  /\ disconnecting \in BOOLEAN
  /\ blocked \in BOOLEAN
  /\ ignored \subseteq Sessions
  /\ phase \in [Sessions -> Phases]
  /\ info \in [Sessions -> {"connecting", "online", "error"}]
  /\ ctxDone \in [Sessions -> BOOLEAN]
  /\ opens \in [Sessions -> 0..MaxOpens]
  /\ call \in [Sessions -> {"idle", "begun", "checked", "wait", "reopen"}]
  /\ waitOpen \in [Sessions -> 0..MaxOpens]
  /\ monitors \in 0..MaxMonitors
  /\ monitorWorker \in 0..MaxMonitors
  /\ monitorPhase \in [MonitorIds -> MonitorPhases]
  /\ monitorDone \in [MonitorIds -> BOOLEAN]
  /\ connectCall \in {"idle", "begun"}
  /\ disc \in [Disconnectors -> DiscSteps]
  /\ waitMonitor \in [Disconnectors -> 0..MaxMonitors]
  /\ toClose \in [Disconnectors -> SUBSET Sessions]
  /\ waitSession \in [Disconnectors -> (Sessions \X (0..MaxOpens)) \cup {<<>>}]
  /\ before \in [Disconnectors -> SUBSET (Sessions \X (0..MaxOpens))]
  /\ disconnects \in 0..MaxDisconnects

Init ==
  /\ monitorStatus = "offline"
  /\ monitorActive = FALSE
  /\ terminals = [s \in Sessions |-> "none"]
  /\ lastError = FALSE
  /\ disconnecting = FALSE
  /\ blocked = FALSE
  /\ ignored = {}
  /\ phase = [s \in Sessions |-> "none"]
  /\ info = [s \in Sessions |-> "connecting"]
  /\ ctxDone = [s \in Sessions |-> FALSE]
  /\ opens = [s \in Sessions |-> 0]
  /\ call = [s \in Sessions |-> "idle"]
  /\ waitOpen = [s \in Sessions |-> 0]
  /\ monitors = 0
  /\ monitorWorker = 0
  /\ monitorPhase = [i \in MonitorIds |-> "none"]
  /\ monitorDone = [i \in MonitorIds |-> FALSE]
  /\ connectCall = "idle"
  /\ disc = [d \in Disconnectors |-> "idle"]
  /\ waitMonitor = [d \in Disconnectors |-> 0]
  /\ toClose = [d \in Disconnectors |-> {}]
  /\ waitSession = [d \in Disconnectors |-> <<>>]
  /\ before = [d \in Disconnectors |-> {}]
  /\ disconnects = 0

----------------------------------------------------------------------------
\* The tracker.  Each operation is one critical section; a blocked server
\* ignores every event.

UpdateMonitor(status, active, failed) ==
  /\ IF blocked THEN UNCHANGED <<monitorStatus, monitorActive, lastError>>
     ELSE /\ monitorStatus' = status
          /\ monitorActive' = active
          /\ lastError' = (failed \/ (lastError /\ status \notin {"connecting", "online"}))
  /\ UNCHANGED <<terminals, disconnecting, blocked, ignored>>

UpdateTerminal(s, status, failed) ==
  /\ IF blocked THEN UNCHANGED <<terminals, lastError>>
     ELSE /\ terminals' = [terminals EXCEPT ![s] =
                             IF status \in {"connecting", "online"} THEN status ELSE "none"]
          /\ lastError' = (failed \/ (lastError /\ status \notin {"connecting", "online"}))
  /\ ignored' = IF blocked THEN ignored \cup {s} ELSE ignored \ {s}
  /\ UNCHANGED <<monitorStatus, monitorActive, disconnecting, blocked>>

RecordFailure ==
  /\ lastError' = (lastError \/ ~blocked)
  /\ UNCHANGED <<monitorStatus, monitorActive, terminals, disconnecting, blocked, ignored>>

BeginConnect ==
  /\ blocked' = FALSE
  /\ disconnecting' = FALSE
  /\ lastError' = FALSE
  /\ UNCHANGED <<monitorStatus, monitorActive, terminals, ignored>>

BeginDisconnect ==
  /\ disconnecting' = TRUE
  /\ UNCHANGED <<monitorStatus, monitorActive, terminals, lastError, blocked, ignored>>

\* Faulty variant: the sessions' own events are trusted to clear them.

CompleteDisconnect ==
  /\ disconnecting' = FALSE
  /\ monitorActive' = FALSE
  /\ monitorStatus' = "disconnected"
  /\ terminals' = [s \in Sessions |-> "none"]
  /\ lastError' = FALSE
  /\ blocked' = TRUE
  /\ ignored' = ignored \cup {s \in Sessions : terminals[s] # "none"}

TerminalActive     == \E s \in Sessions : terminals[s] = "online"
TerminalConnecting == \E s \in Sessions : terminals[s] = "connecting"
HasActiveSession   == monitorActive \/ TerminalActive \/ TerminalConnecting

\* buildState: the status shown for the server.
RuntimeStatus ==
  CASE disconnecting -> "disconnecting"
    [] ~disconnecting /\ (TerminalActive \/ monitorStatus = "online") -> "online"
    [] OTHER ->
         CASE lastError -> "error"
           [] ~lastError /\ (TerminalConnecting \/
                (monitorActive /\ monitorStatus \in {"connecting", "reconnecting"})) -> "connecting"
           [] OTHER -> IF monitorStatus = "disconnected" THEN "disconnected" ELSE "offline"

----------------------------------------------------------------------------
\* Terminal sessions.

\* m.workers holds the session.
Registered(s) == phase[s] # "none"
HasConnecting == \E s \in Sessions : Registered(s) /\ info[s] = "connecting"

SetCall(s, c) == call' = [call EXCEPT ![s] = c]
SetPhase(s, p) == phase' = [phase EXCEPT ![s] = p]

\* OpenTerminal: BeginConnect, then the credentials are resolved.
OpenTerminal(s) ==
  /\ call[s] = "idle"
  /\ opens[s] = 0
  /\ BeginConnect
  /\ SetCall(s, "begun")
  /\ UNCHANGED <<workerVars, waitOpen, monitorVars, discVars>>

\* The credentials cannot be resolved.
OpenFails(s) ==
  /\ call[s] \in {"begun", "wait"}
  /\ call[s] = "wait" => waitOpen[s] = 0
  /\ RecordFailure
  /\ SetCall(s, "idle")
  /\ UNCHANGED <<workerVars, waitOpen, monitorVars, discVars>>

\* OpenTerminal asks the tracker and the manager whether a session is being
\* set up, and gives up if one is.
OpenCheck(s) ==
  /\ call[s] = "begun"
  /\ SetCall(s, IF TerminalConnecting \/ HasConnecting THEN "idle" ELSE "checked")
  /\ UNCHANGED <<trackerVars, workerVars, waitOpen, monitorVars, discVars>>

\* openWithID: registers the worker unless the id is taken or another session
\* of the server is connecting.
openWithID(s) ==
  /\ call[s] \in {"checked", "reopen"}
  /\ opens[s] < MaxOpens
  /\ SetCall(s, "idle")
  /\ IF Registered(s) \/ HasConnecting
       THEN UNCHANGED workerVars
       ELSE /\ SetPhase(s, "registered")
            /\ info' = [info EXCEPT ![s] = "connecting"]
            /\ ctxDone' = [ctxDone EXCEPT ![s] = FALSE]
            /\ opens' = [opens EXCEPT ![s] = @ + 1]
  /\ UNCHANGED <<trackerVars, waitOpen, monitorVars, discVars>>

\* ReconnectTerminal: BeginConnect; the credentials; then Close(s).
ReconnectTerminal(s) ==
  /\ call[s] = "idle"
  /\ opens[s] \in 1..(MaxOpens - 1)
  /\ BeginConnect
  /\ SetCall(s, "wait")
  /\ waitOpen' = [waitOpen EXCEPT ![s] = 0]
  /\ UNCHANGED <<workerVars, monitorVars, discVars>>

\* Close of Reconnect: cancels the worker it finds and waits for its end.
ReconnectClose(s) ==
  /\ call[s] = "wait"
  /\ waitOpen[s] = 0
  /\ IF Registered(s)
       THEN /\ ctxDone' = [ctxDone EXCEPT ![s] = TRUE]
            /\ waitOpen' = [waitOpen EXCEPT ![s] = opens[s]]
            /\ UNCHANGED call
       ELSE SetCall(s, "reopen") /\ UNCHANGED <<ctxDone, waitOpen>>
  /\ UNCHANGED <<trackerVars, phase, info, opens, monitorVars, discVars>>

\* A worker's done channel is closed: it left m.workers.
Done(s, n) == opens[s] > n \/ (opens[s] = n /\ ~Registered(s))

ReconnectClosed(s) ==
  /\ call[s] = "wait"
  /\ waitOpen[s] # 0
  /\ Done(s, waitOpen[s])
  /\ SetCall(s, "reopen")
  /\ UNCHANGED <<trackerVars, workerVars, waitOpen, monitorVars, discVars>>

\* CloseTerminal: cancels the worker (the wait for its end changes nothing).
CloseTerminal(s) ==
  /\ Registered(s)
  /\ ctxDone' = [ctxDone EXCEPT ![s] = TRUE]
  /\ UNCHANGED <<trackerVars, phase, info, opens, callVars, monitorVars, discVars>>

\* openWithID after the unlock: "connecting" is emitted before run starts.
EmitConnecting(s) ==
  /\ phase[s] = "registered"
  /\ UpdateTerminal(s, "connecting", FALSE)
  /\ SetPhase(s, "dialing")
  /\ UNCHANGED <<info, ctxDone, opens, callVars, monitorVars, discVars>>

\* run up to the open shell; cancellation may come too late to stop it.
ShellOpened(s) ==
  /\ phase[s] = "dialing"
  /\ SetPhase(s, "opened")
  /\ info' = [info EXCEPT ![s] = "online"]
  /\ UNCHANGED <<trackerVars, ctxDone, opens, callVars, monitorVars, discVars>>

EmitOnline(s) ==
  /\ phase[s] = "opened"
  /\ UpdateTerminal(s, "online", FALSE)
  /\ SetPhase(s, "online")
  /\ UNCHANGED <<info, ctxDone, opens, callVars, monitorVars, discVars>>

\* The dial is cancelled, or the session is: "closed", info keeps its status.
\* The remote shell exits: the same event.
SessionCloses(s) ==
  /\ \/ phase[s] = "dialing" /\ ctxDone[s]
     \/ phase[s] = "online"
  /\ SetPhase(s, "closed")
  /\ UNCHANGED <<trackerVars, info, ctxDone, opens, callVars, monitorVars, discVars>>

\* fail: dial, credential, shell or session error.
SessionFails(s) ==
  /\ phase[s] \in {"dialing", "online"}
  /\ phase[s] = "online" => ~ctxDone[s]
  /\ info' = [info EXCEPT ![s] = "error"]
  /\ SetPhase(s, "failed")
  /\ UNCHANGED <<trackerVars, ctxDone, opens, callVars, monitorVars, discVars>>

EmitFinal(s) ==
  /\ phase[s] \in {"closed", "failed"}
  /\ UpdateTerminal(s, "offline", phase[s] = "failed")
  /\ SetPhase(s, "ended")
  /\ UNCHANGED <<info, ctxDone, opens, callVars, monitorVars, discVars>>

\* The deferred function of run: out of m.workers, done closed.
WorkerEnds(s) ==
  /\ phase[s] = "ended"
  /\ SetPhase(s, "none")
  /\ UNCHANGED <<trackerVars, info, ctxDone, opens, callVars, monitorVars, discVars>>

Call(s) == \/ OpenFails(s) \/ OpenCheck(s) \/ openWithID(s)
           \/ ReconnectClose(s) \/ ReconnectClosed(s)

Session(s) == \/ EmitConnecting(s) \/ ShellOpened(s) \/ EmitOnline(s)
              \/ SessionCloses(s) \/ SessionFails(s) \/ EmitFinal(s) \/ WorkerEnds(s)

----------------------------------------------------------------------------
\* The monitor.

\* The disconnects in progress, and the monitor workers started or being started.
Disconnecting == {d \in Disconnectors : disc[d] # "idle"}
MonitorsUsed == monitors + (IF connectCall = "idle" THEN 0 ELSE 1)

\* Connect: BeginConnect, then the credentials.
Connect ==
  /\ connectCall = "idle"
  /\ monitors < MaxMonitors
  /\ Cardinality(Disconnecting) > 1 => MonitorsUsed < MaxOverlap
  /\ BeginConnect
  /\ connectCall' = "begun"
  /\ UNCHANGED <<workerVars, callVars, monitors, monitorWorker, monitorPhase, monitorDone, discVars>>

ConnectFails ==
  /\ connectCall = "begun"
  /\ RecordFailure
  /\ connectCall' = "idle"
  /\ UNCHANGED <<workerVars, callVars, monitors, monitorWorker, monitorPhase, monitorDone, discVars>>

\* Manager.Start: ErrAlreadyRunning while a worker is registered.
Start ==
  /\ connectCall = "begun"
  /\ connectCall' = "idle"
  /\ IF monitorWorker # 0
       THEN UNCHANGED <<monitors, monitorWorker, monitorPhase>>
       ELSE /\ monitors' = monitors + 1
            /\ monitorWorker' = monitors + 1
            /\ monitorPhase' = [monitorPhase EXCEPT ![monitors + 1] = "start"]
  /\ UNCHANGED <<trackerVars, workerVars, callVars, monitorDone, discVars>>

SetMonitor(i, p) == monitorPhase' = [monitorPhase EXCEPT ![i] = p]

\* Faulty variant: the loop does not look at the context.
MonitorLoopUnchecked(i) ==
  /\ monitorPhase[i] \in {"start", "retry"}
  /\ SetMonitor(i, "dialing")
  /\ UpdateMonitor(IF monitorPhase[i] = "start" THEN "connecting" ELSE "reconnecting", TRUE, FALSE)
  /\ UNCHANGED <<workerVars, callVars, monitors, monitorWorker, monitorDone, connectCall, discVars>>

\* Head of the loop of run: publish "connecting" or "reconnecting", unless the
\* context is done.
MonitorLoop(i) ==
  /\ monitorPhase[i] \in {"start", "retry"}
  /\ IF monitorDone[i]
       THEN SetMonitor(i, "return") /\ UNCHANGED trackerVars
       ELSE /\ SetMonitor(i, "dialing")
            /\ UpdateMonitor(IF monitorPhase[i] = "start" THEN "connecting" ELSE "reconnecting",
                             TRUE, FALSE)
  /\ UNCHANGED <<workerVars, callVars, monitors, monitorWorker, monitorDone, connectCall, discVars>>

\* A dial or credential error is published, retryable or final; so is an error
\* of a sample, the first one included, which is always retried - except after
\* a cancellation.
MonitorFails(i) ==
  /\ \E retryable \in BOOLEAN :
       \/ /\ monitorPhase[i] = "dialing"
          /\ UpdateMonitor("error", retryable, TRUE)
          /\ SetMonitor(i, IF retryable THEN "retry" ELSE "return")
       \/ /\ monitorPhase[i] \in {"dialing", "sampling"}
          /\ retryable
          /\ IF monitorDone[i] THEN UNCHANGED trackerVars
                               ELSE UpdateMonitor("reconnecting", TRUE, TRUE)
          /\ SetMonitor(i, "retry")
  /\ UNCHANGED <<workerVars, callVars, monitors, monitorWorker, monitorDone, connectCall, discVars>>

\* sampleLoop: connected, and a sample is published as "online", also one that
\* was taken when the cancellation came.
MonitorSample(i) ==
  /\ monitorPhase[i] \in {"dialing", "sampling"}
  /\ SetMonitor(i, "sampling")
  /\ UpdateMonitor("online", TRUE, FALSE)
  /\ UNCHANGED <<workerVars, callVars, monitors, monitorWorker, monitorDone, connectCall, discVars>>

\* The deferred function of run leaves m.workers first ...
MonitorRemoved(i) ==
  /\ monitorPhase[i] = "return"
  /\ monitorWorker' = IF monitorWorker = i THEN 0 ELSE monitorWorker
  /\ SetMonitor(i, "removed")
  /\ UNCHANGED <<trackerVars, workerVars, callVars, monitors, monitorDone, connectCall, discVars>>

\* Faulty variant: a cancelled worker ends without a last publish.
MonitorEndsSilently(i) ==
  /\ monitorPhase[i] = "removed"
  /\ SetMonitor(i, "finished")
  /\ UNCHANGED <<trackerVars, workerVars, callVars, monitors, monitorWorker, monitorDone,
                 connectCall, discVars>>

\* ... and publishes "disconnected" afterwards, if it was cancelled.
MonitorEnds(i) ==
  /\ monitorPhase[i] = "removed"
  /\ IF monitorDone[i] THEN UpdateMonitor("disconnected", FALSE, FALSE)
                       ELSE UNCHANGED trackerVars
  /\ SetMonitor(i, "finished")
  /\ UNCHANGED <<workerVars, callVars, monitors, monitorWorker, monitorDone, connectCall, discVars>>

MonitorLeaves(i) == MonitorLoop(i) \/ MonitorFails(i) \/ MonitorRemoved(i) \/ MonitorEnds(i)
Monitor(i) == MonitorSample(i) \/ MonitorLeaves(i)

----------------------------------------------------------------------------
\* Coordinator.Disconnect: the tracker, the monitor, the terminals, then the
\* other managers of the server (which keep no state of this module).

SetDisc(d, p) == disc' = [disc EXCEPT ![d] = p]

\* The calls are interchangeable: a new one takes any free place.
Disconnect(d) ==
  /\ disc[d] = "idle"
  /\ d = CHOOSE x \in Disconnectors : disc[x] = "idle"
  /\ disconnects < MaxDisconnects
  /\ Disconnecting # {} => MonitorsUsed <= MaxOverlap
  /\ disconnects' = disconnects + 1
  /\ BeginDisconnect
  /\ before' = [before EXCEPT ![d] = {<<s, opens[s]>> : s \in {x \in Sessions : Registered(x)}}]
  /\ SetDisc(d, "monitor")
  /\ UNCHANGED <<workerVars, callVars, monitorVars, waitMonitor, toClose, waitSession>>

\* monitor.Stop: cancel the registered worker and wait for its end.
StopMonitor(d) ==
  /\ disc[d] = "monitor"
  /\ IF monitorWorker = 0
       THEN SetDisc(d, "terminal") /\ UNCHANGED <<waitMonitor, monitorDone>>
       ELSE /\ waitMonitor' = [waitMonitor EXCEPT ![d] = monitorWorker]
            /\ monitorDone' = [monitorDone EXCEPT ![monitorWorker] = TRUE]
            /\ SetDisc(d, "waitMonitor")
  /\ UNCHANGED <<trackerVars, workerVars, callVars, monitors, monitorWorker, monitorPhase,
                 connectCall, toClose, waitSession, before, disconnects>>

MonitorStopped(d) ==
  /\ disc[d] = "waitMonitor"
  /\ monitorPhase[waitMonitor[d]] = "finished"
  /\ SetDisc(d, "terminal")
  /\ UNCHANGED <<trackerVars, workerVars, callVars, monitorVars, waitMonitor, toClose,
                 waitSession, before, disconnects>>

\* Faulty variant: only sessions that are online are looked for.
StopOnline(d) ==
  /\ disc[d] = "terminal"
  /\ toClose' = [toClose EXCEPT ![d] = {s \in Sessions : Registered(s) /\ info[s] = "online"}]
  /\ SetDisc(d, "close")
  /\ UNCHANGED <<trackerVars, workerVars, callVars, monitorVars, waitMonitor, waitSession,
                 before, disconnects>>

\* terminal.StopConnection: the ids registered now ...
StopConnection(d) ==
  /\ disc[d] = "terminal"
  /\ toClose' = [toClose EXCEPT ![d] = {s \in Sessions : Registered(s)}]
  /\ SetDisc(d, "close")
  /\ UNCHANGED <<trackerVars, workerVars, callVars, monitorVars, waitMonitor, waitSession,
                 before, disconnects>>

\* ... are closed one after the other, each looked up again by its id.
CloseNext(d) ==
  /\ disc[d] = "close"
  /\ \E s \in toClose[d] :
       /\ toClose' = [toClose EXCEPT ![d] = @ \ {s}]
       /\ IF Registered(s)
            THEN /\ ctxDone' = [ctxDone EXCEPT ![s] = TRUE]
                 /\ waitSession' = [waitSession EXCEPT ![d] = <<s, opens[s]>>]
                 /\ SetDisc(d, "waitSession")
            ELSE UNCHANGED <<ctxDone, waitSession, disc>>
  /\ UNCHANGED <<trackerVars, phase, info, opens, callVars, monitorVars, waitMonitor, before,
                 disconnects>>

SessionClosed(d) ==
  /\ disc[d] = "waitSession"
  /\ Done(waitSession[d][1], waitSession[d][2])
  /\ waitSession' = [waitSession EXCEPT ![d] = <<>>]
  /\ SetDisc(d, "close")
  /\ UNCHANGED <<trackerVars, workerVars, callVars, monitorVars, waitMonitor, toClose, before,
                 disconnects>>

\* StopConnection returned; so do the Stop calls of the other managers.
StopOthers(d) ==
  /\ disc[d] = "close"
  /\ toClose[d] = {}
  /\ SetDisc(d, "complete")
  /\ UNCHANGED <<trackerVars, workerVars, callVars, monitorVars, waitMonitor, toClose,
                 waitSession, before, disconnects>>

Complete(d) ==
  /\ disc[d] = "complete"
  /\ CompleteDisconnect
  /\ SetDisc(d, "idle")
  /\ before' = [before EXCEPT ![d] = {}]
  /\ waitMonitor' = [waitMonitor EXCEPT ![d] = 0]
  /\ UNCHANGED <<workerVars, callVars, monitorVars, toClose, waitSession, disconnects>>

Coordinator(d) == \/ StopMonitor(d) \/ MonitorStopped(d) \/ StopConnection(d) \/ CloseNext(d)
                  \/ SessionClosed(d) \/ StopOthers(d) \/ Complete(d)

----------------------------------------------------------------------------

User == \/ Connect
        \/ \E s \in Sessions : OpenTerminal(s) \/ ReconnectTerminal(s) \/ CloseTerminal(s)
        \/ \E d \in Disconnectors : Disconnect(d)

Next == \/ User
        \/ \E s \in Sessions : Call(s) \/ Session(s)
        \/ ConnectFails \/ Start
        \/ \E i \in MonitorIds : Monitor(i)
        \/ \E d \in Disconnectors : Coordinator(d)

Spec == Init /\ [][Next]_vars

\* Every goroutine that can run does; a cancelled dial, shell or sample
\* returns (so samples do not go on after a cancellation).  A live session, a
\* retry wait or a sample that nobody cancels may go on for ever, and the user
\* owes nothing.
Fairness ==
  /\ \A s \in Sessions :
       /\ WF_vars(Call(s))
       /\ WF_vars(EmitConnecting(s) \/ EmitOnline(s) \/ EmitFinal(s) \/ WorkerEnds(s))
       /\ WF_vars(phase[s] = "dialing" /\ Session(s))
       /\ WF_vars(ctxDone[s] /\ SessionCloses(s))
  /\ WF_vars(ConnectFails \/ Start)
  /\ \A i \in MonitorIds :
       /\ WF_vars(monitorPhase[i] # "sampling" /\ Monitor(i))
       /\ WF_vars(monitorDone[i] /\ MonitorLeaves(i))
  /\ \A d \in Disconnectors : WF_vars(Coordinator(d))

FairSpec == Spec /\ Fairness

----------------------------------------------------------------------------
\* Properties.

\* The tracker never shows a session that is over: what it says of a session
\* is withdrawn before the worker leaves the manager, and events the
\* disconnect filter swallowed leave nothing behind.  (A ghost "connecting"
\* would make OpenTerminal refuse for ever.)
NoGhostTerminal == \A s \in Sessions : phase[s] \in {"none", "registered", "ended"} =>
                     terminals[s] = "none"

\* The same for the monitor: a server shown with an active monitor has one.
NoGhostMonitor == monitorActive =>
  \E i \in MonitorIds : monitorPhase[i] \in {"dialing", "sampling", "retry"} \/
                        (monitorPhase[i] \in {"return", "removed"} /\ monitorDone[i])

\* openWithID: one session of a server is being set up at a time, however many
\* OpenTerminal and ReconnectTerminal calls passed their checks.
OneConnecting ==
  \A s, u \in Sessions : (phase[s] \in {"registered", "dialing"} /\ phase[u] \in {"registered", "dialing"})
                          => s = u

\* After an explicit disconnect no late event revives the server: until the
\* next BeginConnect it has no active session, no error and is not online.
DisconnectedIsQuiet ==
  blocked => ~HasActiveSession /\ ~lastError /\ RuntimeStatus \in {"disconnected", "disconnecting"}

\* A disconnect that is about to complete has ended every terminal worker that
\* was registered when it began, reconnects of the same id included.
DisconnectStopsEarlier ==
  \A d \in Disconnectors : disc[d] = "complete" => \A w \in before[d] : Done(w[1], w[2])

\* A disconnect always completes: nobody it waits for waits for it.
DisconnectEnds == \A d \in Disconnectors : disc[d] # "idle" ~> disc[d] = "idle"

\* A session that is online is shown as online when no disconnect is in progress, unless a
\* disconnect hid it: OpenTerminal calls BeginConnect and then resolves credentials, and a
\* disconnect that ends in between ignores the session's events, or removes what they said.
OnlineIsShown ==
  \A s \in Sessions \ ignored :
    phase[s] = "online" /\ ~ctxDone[s] /\ (\A d \in Disconnectors : disc[d] = "idle") =>
      terminals[s] = "online"

\* The record of a server and its terminal sessions agree: none that is over is kept, none
\* that is online is missing (UpdateTerminal, CompleteDisconnect).
TerminalsAreShown == TypeOK /\ NoGhostTerminal /\ OnlineIsShown

\* One session is set up at a time, and a disconnect misses none that was there when it
\* began (openWithID, StopConnection).
SessionsAreFound == OneConnecting /\ DisconnectStopsEarlier

\* Both: the tracker, the terminal manager and the disconnects agree on the sessions.
SessionsAreTracked == TerminalsAreShown /\ SessionsAreFound

\* Late events of monitor and terminals revive nothing: the monitor that is shown is there,
\* and a disconnected server stays so (UpdateMonitor, MonitorEnds).
MonitorIsShown == NoGhostMonitor /\ DisconnectedIsQuiet

=============================================================================
