---------------------------- MODULE BatchCommand ----------------------------
(***************************************************************************)
(* One task of internal/batchcommand: the same command on several servers, *)
(* a goroutine per server (runServer), at most Concurrency of them past    *)
(* the semaphore, a deadline for each, and CancelServer, StopServer,       *)
(* CancelTask and Clear arriving at any moment.                            *)
(*                                                                         *)
(* A step is one critical section of Manager.mu, one channel operation or  *)
(* one call of the remote side.  Names and hosts of the results, exit      *)
(* codes, times and events carry no control and are left out.              *)
(***************************************************************************)
EXTENDS Integers, FiniteSets

CONSTANTS
  Servers,       \* request.ServerIDs
  Cancelable,    \* bound: servers the user cancels one by one, each once
  Concurrency,   \* request.Concurrency
  OutputLimit,   \* outputLimitBytes / outputLimitLines, in units of output
  ChunkSizes     \* sizes of a read, in the same unit

ASSUME ServersAssumption     == IsFiniteSet(Servers) /\ Servers # {}
ASSUME CancelableAssumption  == Cancelable \subseteq Servers
ASSUME ConcurrencyAssumption == Concurrency \in Nat \ {0}
ASSUME OutputAssumption      == OutputLimit \in Nat /\ ChunkSizes \subseteq Nat \ {0}

ActiveStatus == {"queued", "connecting", "running"}
EndStatus    == {"completed", "failed", "timeout", "canceled"}

\* Where runServer is: what it does next.
PC == {"spawn", "sem", "connecting", "lookup", "dial", "commit", "running", "start",
       "setSession", "collect", "finish", "unwind", "release", "clear", "exited"}

VARIABLES
  registered,      \* m.tasks holds the task
  taskStatus,      \* task.Status
  taskCanceled,    \* taskCtx is cancelled
  taskDone,        \* current.done is closed
  result,          \* Results[..].Status
  pc, out,         \* place of runServer; the status it is about to publish
  slots,           \* servers holding a place in sem
  expired,         \* servers whose commandCtx passed its deadline
  serverCanceled,  \* servers whose serverCtx was cancelled
  serverCancels,   \* keys of current.serverCancels
  sessions,        \* keys of current.sessions
  clients,         \* servers with an open SSH client
  command,         \* the remote command
  output,          \* outputState.bytes / lines
  truncated,       \* outputState.truncated
  \* Cancelling calls in progress: the servers that CancelServer or StopServer
  \* was called for; the sessions cancelTask has still to close and the servers
  \* it has still to call cancelServer for; the servers whose cancelServer has
  \* still to lock, to call cancel, to call Close.
  asked, taskClose, taskMark, toMark, toCancel, toClose

taskVars   == <<registered, taskStatus, taskCanceled, taskDone>>
workVars   == <<pc, out, slots, clients>>
ctxVars    == <<expired, serverCanceled, serverCancels, sessions>>
outputVars == <<output, truncated>>
callVars   == <<asked, taskClose, taskMark, toMark, toCancel, toClose>>
vars == <<taskVars, result, workVars, ctxVars, command, outputVars, callVars>>

TypeOK ==
  /\ registered \in BOOLEAN
  /\ taskStatus \in ActiveStatus \cup EndStatus
  /\ taskCanceled \in BOOLEAN
  /\ taskDone \in BOOLEAN
  /\ result \in [Servers -> ActiveStatus \cup EndStatus]
  /\ pc \in [Servers -> PC]
  /\ out \in [Servers -> EndStatus]
  /\ command \in [Servers -> {"none", "started", "ok", "error", "closed"}]
  /\ output \in [Servers -> 0..OutputLimit]
  /\ \A S \in {slots, expired, serverCanceled, serverCancels, sessions, clients, truncated,
               asked, taskClose, taskMark, toMark, toCancel, toClose} : S \subseteq Servers

\* Start: the task is registered, all its results queued; runTask spawns.
Init ==
  /\ registered = TRUE
  /\ taskStatus = "queued"
  /\ taskCanceled = FALSE
  /\ taskDone = FALSE
  /\ result = [s \in Servers |-> "queued"]
  /\ pc = [s \in Servers |-> "spawn"]
  /\ out = [s \in Servers |-> "canceled"]
  /\ command = [s \in Servers |-> "none"]
  /\ output = [s \in Servers |-> 0]
  /\ slots = {} /\ expired = {} /\ serverCanceled = {} /\ serverCancels = {}
  /\ sessions = {} /\ clients = {} /\ truncated = {}
  /\ asked = {} /\ taskClose = {} /\ taskMark = {} /\ toMark = {} /\ toCancel = {} /\ toClose = {}

isActiveStatus(status) == status \in ActiveStatus

\* serverCtx.Err() # nil, and commandCtx.Err() # nil.
ServerDone(s)  == taskCanceled \/ s \in serverCanceled
CommandDone(s) == ServerDone(s) \/ s \in expired

Goto(s, where) == pc' = [pc EXCEPT ![s] = where]

\* session.Close, or the loss of the client below it.
CloseCommand(s) == command' = [command EXCEPT ![s] = IF @ = "started" THEN "closed" ELSE @]

----------------------------------------------------------------------------
\* Cancelling calls.

\* CancelServer and StopServer find an active result under the lock, release
\* it and call cancelServer.
CancelServer(s) ==
  /\ registered
  /\ isActiveStatus(result[s])
  /\ s \in Cancelable \ asked
  /\ asked' = asked \cup {s}
  /\ toMark' = toMark \cup {s}
  /\ UNCHANGED <<taskVars, result, workVars, ctxVars, command, outputVars, taskClose, taskMark,
                 toCancel, toClose>>

\* Faulty variant: the result is marked and the session closed, and the
\* context is left alone.
cancelWithoutContext(s) ==
  /\ \/ s \in toMark /\ toMark' = toMark \ {s} /\ UNCHANGED taskMark
     \/ /\ taskClose = {} /\ s \in taskMark
        /\ taskMark' = taskMark \ {s} /\ UNCHANGED toMark
  /\ result' = [result EXCEPT ![s] = IF isActiveStatus(@) THEN "canceled" ELSE @]
  /\ toClose' = toClose \cup ({s} \cap sessions)
  /\ UNCHANGED <<taskVars, workVars, ctxVars, command, outputVars, asked, taskClose, toCancel>>

\* cancelServer under the lock, for CancelServer or, once it has closed the
\* sessions it found, for cancelTask.
cancelServer(s) ==
  /\ \/ s \in toMark /\ toMark' = toMark \ {s} /\ UNCHANGED taskMark
     \/ /\ taskClose = {} /\ s \in taskMark
        /\ taskMark' = taskMark \ {s} /\ UNCHANGED toMark
  /\ IF registered
       THEN /\ result' = [result EXCEPT ![s] = IF isActiveStatus(@) THEN "canceled" ELSE @]
            /\ toCancel' = toCancel \cup ({s} \cap serverCancels)
            /\ toClose' = toClose \cup ({s} \cap sessions)
       ELSE UNCHANGED <<result, toCancel, toClose>>
  /\ UNCHANGED <<taskVars, workVars, ctxVars, command, outputVars, asked, taskClose>>

\* cancelServer after the unlock: cancel(), then session.Close().
CallCancel(s) ==
  /\ s \in toCancel
  /\ toCancel' = toCancel \ {s}
  /\ serverCanceled' = serverCanceled \cup {s}
  /\ UNCHANGED <<taskVars, result, workVars, expired, serverCancels, sessions, command, outputVars,
                 asked, taskClose, taskMark, toMark, toClose>>

CallClose(s) ==
  /\ s \in toClose
  /\ s \notin toCancel
  /\ toClose' = toClose \ {s}
  /\ CloseCommand(s)
  /\ UNCHANGED <<taskVars, result, workVars, ctxVars, outputVars, asked, taskClose, taskMark,
                 toMark, toCancel>>

\* cancelTask under the lock: the task's context ends, and every context of a
\* server with it.  StopAll, for an active task, is the same.
CancelTask ==
  /\ registered
  /\ ~taskCanceled           \* bound: once per task
  /\ taskCanceled' = TRUE
  /\ taskClose' = sessions
  /\ taskMark' = Servers
  /\ UNCHANGED <<registered, taskStatus, taskDone, result, workVars, ctxVars, command, outputVars,
                 asked, toMark, toCancel, toClose>>

\* cancelTask closes the sessions it found.
CloseFound(s) ==
  /\ s \in taskClose
  /\ taskClose' = taskClose \ {s}
  /\ CloseCommand(s)
  /\ UNCHANGED <<taskVars, result, workVars, ctxVars, outputVars, asked, taskMark, toMark,
                 toCancel, toClose>>

\* Clear: refused while the task is active.
Clear ==
  /\ registered
  /\ ~isActiveStatus(taskStatus)
  /\ registered' = FALSE
  /\ UNCHANGED <<taskStatus, taskCanceled, taskDone, result, workVars, ctxVars, command, outputVars,
                 callVars>>

----------------------------------------------------------------------------
\* runServer.

\* setServerCancel.
Spawn(s) ==
  /\ pc[s] = "spawn"
  /\ serverCancels' = IF registered THEN serverCancels \cup {s} ELSE serverCancels
  /\ Goto(s, "sem")
  /\ UNCHANGED <<taskVars, result, out, slots, clients, expired, serverCanceled, sessions, command,
                 outputVars, callVars>>

\* The end of runServer with a status to publish.
Decide(s, status) == out' = [out EXCEPT ![s] = status] /\ Goto(s, "finish")

\* select: a place in sem, or the end of the context; either if both.
AcquireSlot(s) ==
  /\ pc[s] = "sem"
  /\ Cardinality(slots) < Concurrency
  /\ slots' = slots \cup {s}
  /\ Goto(s, "connecting")
  /\ UNCHANGED <<taskVars, result, out, clients, ctxVars, command, outputVars, callVars>>

CanceledInQueue(s) ==
  /\ pc[s] = "sem"
  /\ ServerDone(s)
  /\ Decide(s, "canceled")
  /\ UNCHANGED <<taskVars, result, slots, clients, ctxVars, command, outputVars, callVars>>

\* transitionServer: nothing if the result is over; the worker then leaves.
transitionServer(s, status, next) ==
  /\ IF registered /\ isActiveStatus(result[s])
       THEN /\ result' = [result EXCEPT ![s] = status]
            /\ taskStatus' = IF taskStatus = "queued" THEN "running" ELSE taskStatus
            /\ Goto(s, next)
       ELSE Goto(s, "unwind") /\ UNCHANGED <<result, taskStatus>>
  /\ UNCHANGED <<registered, taskCanceled, taskDone, out, slots, clients, ctxVars, command,
                 outputVars, callVars>>

ToConnecting(s) == pc[s] = "connecting" /\ transitionServer(s, "connecting", "lookup")
ToRunning(s)    == pc[s] = "running" /\ transitionServer(s, "running", "start")

\* commandCtx, with its timer, is made after the transition to "connecting".
TimerRuns(s) == pc[s] \in {"lookup", "dial", "commit", "running", "start", "setSession", "collect"}

Deadline(s) ==
  /\ TimerRuns(s)
  /\ s \notin expired
  /\ expired' = expired \cup {s}
  /\ UNCHANGED <<taskVars, result, workVars, serverCanceled, serverCancels, sessions, command,
                 outputVars, callVars>>

\* getConn and auth: their errors are "failed" even after the deadline.
Lookup(s) ==
  /\ pc[s] = "lookup"
  /\ \/ Goto(s, "dial") /\ UNCHANGED out
     \/ Decide(s, IF ServerDone(s) THEN "canceled" ELSE "failed")
  /\ UNCHANGED <<taskVars, result, slots, clients, ctxVars, command, outputVars, callVars>>

\* What an error of the remote side is called.
ErrorStatus(s) == CASE ServerDone(s) -> "canceled"
                    [] ~ServerDone(s) /\ s \in expired -> "timeout"
                    [] OTHER -> "failed"

Dial(s) ==
  /\ pc[s] = "dial"
  /\ \/ clients' = clients \cup {s} /\ Goto(s, "commit") /\ UNCHANGED out
     \/ Decide(s, ErrorStatus(s)) /\ UNCHANGED clients
  /\ UNCHANGED <<taskVars, result, slots, ctxVars, command, outputVars, callVars>>

\* commitAuth: its error is "failed", whatever became of the context.
Commit(s) ==
  /\ pc[s] = "commit"
  /\ \/ Goto(s, "running") /\ UNCHANGED out
     \/ Decide(s, "failed")
  /\ UNCHANGED <<taskVars, result, slots, clients, ctxVars, command, outputVars, callVars>>

\* StartStreamingCommand.
StartCommand(s) ==
  /\ pc[s] = "start"
  /\ \/ command' = [command EXCEPT ![s] = "started"] /\ Goto(s, "setSession") /\ UNCHANGED out
     \/ Decide(s, ErrorStatus(s)) /\ UNCHANGED command
  /\ UNCHANGED <<taskVars, result, slots, clients, ctxVars, outputVars, callVars>>

setSession(s) ==
  /\ pc[s] = "setSession"
  /\ sessions' = IF registered THEN sessions \cup {s} ELSE sessions
  /\ Goto(s, "collect")
  /\ UNCHANGED <<taskVars, result, out, slots, clients, expired, serverCanceled, serverCancels,
                 command, outputVars, callVars>>

\* The remote command ends by itself.
CommandExits(s) ==
  /\ command[s] = "started"
  /\ \E how \in {"ok", "error"} : command' = [command EXCEPT ![s] = how]
  /\ UNCHANGED <<taskVars, result, workVars, ctxVars, outputVars, callVars>>

\* collectCommand receives a chunk: appendOutput.
appendOutput(s) ==
  /\ pc[s] = "collect"
  /\ registered
  /\ result[s] = "running"
  /\ s \notin truncated
  /\ \E n \in ChunkSizes :
       IF output[s] + n > OutputLimit
         THEN truncated' = truncated \cup {s} /\ UNCHANGED output
         ELSE output' = [output EXCEPT ![s] = @ + n] /\ UNCHANGED truncated
  /\ UNCHANGED <<taskVars, result, workVars, ctxVars, command, callVars>>

\* collectCommand sees the end of commandCtx: closeSession, at most three
\* seconds for the command, and the verdict.
CollectAborted(s) ==
  /\ pc[s] = "collect"
  /\ CommandDone(s)
  /\ IF s \in sessions THEN CloseCommand(s) ELSE UNCHANGED command
  /\ sessions' = sessions \ {s}
  /\ Decide(s, IF ServerDone(s) THEN "canceled" ELSE "timeout")
  /\ UNCHANGED <<taskVars, result, slots, clients, expired, serverCanceled, serverCancels,
                 outputVars, callVars>>

\* collectCommand has both ends of the output and the result of Wait.
CollectEnds(s) ==
  /\ pc[s] = "collect"
  /\ command[s] \in {"ok", "error", "closed"}
  /\ Decide(s, IF CommandDone(s) \/ command[s] # "ok" THEN ErrorStatus(s) ELSE "completed")
  /\ UNCHANGED <<taskVars, result, slots, clients, ctxVars, command, outputVars, callVars>>

\* Faulty variant: the last writer wins.
finishServerAlways(s) ==
  /\ pc[s] = "finish"
  /\ result' = [result EXCEPT ![s] = out[s]]
  /\ out' = [out EXCEPT ![s] = "canceled"]
  /\ Goto(s, "unwind")
  /\ UNCHANGED <<taskVars, slots, clients, ctxVars, command, outputVars, callVars>>

finishServer(s) ==
  /\ pc[s] = "finish"
  /\ result' = IF registered /\ isActiveStatus(result[s])
                 THEN [result EXCEPT ![s] = out[s]] ELSE result
  /\ out' = [out EXCEPT ![s] = "canceled"]     \* dead from here on
  /\ Goto(s, "unwind")
  /\ UNCHANGED <<taskVars, slots, clients, ctxVars, command, outputVars, callVars>>

\* Faulty variant: the place in sem is given back before the client is closed.
UnwindEarly(s) ==
  /\ pc[s] = "unwind"
  /\ command' = [command EXCEPT ![s] = "none"]
  /\ expired' = expired \ {s}
  /\ slots' = slots \ {s}
  /\ Goto(s, "release")
  /\ UNCHANGED <<taskVars, result, out, clients, serverCanceled, serverCancels, sessions,
                 outputVars, callVars>>

\* The deferred calls, last one first: client.Close, which ends the command
\* with its connection, and timeoutCancel ...
Unwind(s) ==
  /\ pc[s] = "unwind"
  /\ clients' = clients \ {s}
  /\ command' = [command EXCEPT ![s] = "none"]
  /\ expired' = expired \ {s}
  /\ Goto(s, "release")
  /\ UNCHANGED <<taskVars, result, out, slots, serverCanceled, serverCancels, sessions,
                 outputVars, callVars>>

\* ... the place in sem ...
Release(s) ==
  /\ pc[s] = "release"
  /\ slots' = slots \ {s}
  /\ Goto(s, "clear")
  /\ UNCHANGED <<taskVars, result, out, clients, ctxVars, command, outputVars, callVars>>

\* ... serverCancel and clearServerRuntime (whose Close finds nothing open).
clearServerRuntime(s) ==
  /\ pc[s] = "clear"
  /\ serverCanceled' = serverCanceled \cup {s}
  /\ serverCancels' = serverCancels \ {s}
  /\ sessions' = sessions \ {s}
  /\ Goto(s, "exited")
  /\ UNCHANGED <<taskVars, result, out, slots, clients, expired, command, outputVars, callVars>>

aggregateStatus ==
  LET all(st) == \A s \in Servers : result[s] = st
      some(st) == \E s \in Servers : result[s] = st
  IN CASE \E s \in Servers : isActiveStatus(result[s]) -> "running"
       [] all("completed") -> "completed"
       [] all("canceled") -> "canceled"
       [] OTHER -> CASE some("timeout") -> "timeout"
                     [] ~some("timeout") /\ some("failed") -> "failed"
                     [] OTHER -> "canceled"

\* Faulty variant: wg.Add inside the goroutine, so that Wait may miss it.
finishTaskEarly ==
  /\ ~taskDone
  /\ \A s \in Servers : pc[s] \in {"spawn", "exited"}
  /\ taskStatus' = IF registered THEN aggregateStatus ELSE taskStatus
  /\ taskDone' = TRUE
  /\ UNCHANGED <<registered, taskCanceled, result, workVars, ctxVars, command, outputVars, callVars>>

\* runTask after wg.Wait: finishTask.
finishTask ==
  /\ ~taskDone
  /\ \A s \in Servers : pc[s] = "exited"
  /\ taskStatus' = IF registered THEN aggregateStatus ELSE taskStatus
  /\ taskDone' = TRUE
  /\ UNCHANGED <<registered, taskCanceled, result, workVars, ctxVars, command, outputVars, callVars>>

----------------------------------------------------------------------------

Setup(s)  == \/ Spawn(s) \/ AcquireSlot(s) \/ CanceledInQueue(s) \/ ToConnecting(s) \/ Lookup(s)
             \/ Dial(s) \/ Commit(s) \/ ToRunning(s) \/ StartCommand(s) \/ setSession(s)
Collect(s) == CollectAborted(s) \/ CollectEnds(s)
Leave(s)  == finishServer(s) \/ Unwind(s) \/ Release(s) \/ clearServerRuntime(s)
Cancelling(s) == cancelServer(s) \/ CallCancel(s) \/ CallClose(s) \/ CloseFound(s)

Next == \/ CancelTask \/ Clear \/ finishTask
        \/ \E s \in Servers : \/ CancelServer(s) \/ Cancelling(s)
                              \/ Setup(s) \/ Collect(s) \/ appendOutput(s) \/ Leave(s)
                              \/ Deadline(s) \/ CommandExits(s)

Spec == Init /\ [][Next]_vars

\* Goroutines run: the workers, runTask, and a cancelling call once it was
\* made.  A remote command may run for ever; reads of output come or not.
Fairness == /\ WF_vars(finishTask)
            /\ \A s \in Servers : /\ WF_vars(Setup(s) \/ Collect(s) \/ Leave(s))
                                  /\ WF_vars(Cancelling(s))

FairSpec == Spec /\ Fairness

----------------------------------------------------------------------------
\* Properties.

\* The semaphore of runTask bounds what it is there for: SSH clients open at
\* the same time, up to and including their Close.
ConcurrencyLimit == Cardinality(clients) <= Concurrency

\* A result that is over never changes, nor does its output: not by the worker
\* that finishes after a cancel, a late chunk, a timeout or a second cancel.
ResultIsFinal ==
  [][\A s \in Servers : ~isActiveStatus(result[s]) =>
       /\ result'[s] = result[s]
       /\ output'[s] = output[s]
       /\ s \in truncated' <=> s \in truncated]_vars

\* A task that is finished, or that Clear has forgotten, left nothing behind:
\* every worker is gone, every result is over and no client or command is
\* open.  Its status says what its results say.
TaskVerdict ==
  ~isActiveStatus(taskStatus) \/ ~registered \/ taskDone =>
    /\ slots = {} /\ clients = {} /\ sessions = {}
    /\ \A s \in Servers : /\ pc[s] = "exited"
                          /\ result[s] \in EndStatus
                          /\ command[s] # "started"
    /\ taskStatus = "completed" <=> \A s \in Servers : result[s] = "completed"
    /\ \E s \in Servers : result[s] = taskStatus

\* One server's cancellation, failure or timeout does not cancel another.
CanceledOnlyIfAsked == \A s \in Servers : result[s] = "canceled" => s \in asked \/ taskCanceled

\* A server shown as canceled gives up its client, also one whose dial was
\* under way when the cancel came, and before any deadline.
CancelStops == \A s \in Servers : (result[s] = "canceled") ~> (s \notin clients)

\* CancelTask ends the task, deadlines or not: no worker waits for a place, a
\* session or another worker for ever.
CancelTaskEnds == taskCanceled ~> taskDone

\* Without any cancel, and whatever the commands do, the deadlines end the task:
\* if every timer that runs fires, the task is done.
TaskEnds == <>[](\A s \in Servers : TimerRuns(s) => s \in expired) => <>taskDone

\* Clients stay within the concurrency of the request and output within its limit
\* (runTask, appendOutput).
WithinLimits == TypeOK /\ ConcurrencyLimit

\* The verdicts of the task and of its servers are those of what happened to them.
VerdictsAreTrue == TaskVerdict /\ CanceledOnlyIfAsked

\* A task ends: a cancelled server gives up its client, a cancelled task is done, and without
\* a cancel the deadlines end it (cancelServer, CancelTask, runServer).
BatchEnds == CancelStops /\ CancelTaskEnds /\ TaskEnds

=============================================================================
