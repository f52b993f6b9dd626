-------------------------- MODULE NetworkDiagnostics --------------------------
(***************************************************************************)
(* ping, traceroute, DNS and TCP diagnostics on a server: StartNetwork-    *)
(* Diagnostic .. pruneDiagnosticsLocked of monitor/manager.go, the         *)
(* commands of networkdiag/commands.go and the tasks that server.ts shows. *)
(* A diagnostic runs on the connection of the monitor; its output, the end *)
(* of its command, its timeout, a cancel and a disconnect meet in one loop.*)
(***************************************************************************)
EXTENDS Naturals, FiniteSets

CONSTANTS Tasks,      \* task ids, 1, 2, ... in the order in which they start
          Calls,      \* calls that cancel or stop diagnostics
          Keep,       \* finished tasks that are kept, 20 in the code
          LineLimit,  \* output lines that are shown, 1000 in the code
          MaxActive,  \* bound: diagnostics whose goroutines are under way at a time
          MaxLists,   \* bound: list calls of the window
          None

VARIABLES
  task,       \* m.diagnostics and the goroutine of each task, see NewTask
  stored,     \* ids in m.diagnostics
  link,       \* the connection of the monitor works
  call,       \* call -> None or [todo, now, asked]
  shown,      \* window: id -> status in diagnosticTasks, or None
  answers,    \* starts whose answer the window has not got
  listing,    \* window: None or what a list call read
  lists,      \* list calls so far
  told,       \* history: id -> final states that the window was told
  overtaken   \* history: tasks whose end the window got before an older answer

vars == <<task, stored, link, call, shown, answers, listing, lists, told, overtaken>>

Final == {"completed", "failed", "canceled"}
Statuses == Final \cup {"running"}
Started == {t \in Tasks : task[t] # None}
Running(t) == task[t] # None /\ task[t].status = "running"
Done(t) == task[t].phase = "done"

\* phase: of runNetworkDiagnostic; canceled, expired: the contexts of the task and of
\* its command; session: the remote command, held: diagnosticTask.session; remote: what
\* the command does; exit: its status as read; verdict: the status to be set.
NewTask ==
  [status |-> "running", phase |-> "starting", canceled |-> FALSE, expired |-> FALSE,
   session |-> "none", held |-> FALSE, remote |-> "runs", lines |-> TRUE, waiting |-> TRUE,
   emitted |-> 0, marked |-> FALSE, exit |-> 0, verdict |-> None]

TaskRecord ==
  [status : Statuses, phase : {"starting", "reading", "finishing", "done"},
   canceled : BOOLEAN, expired : BOOLEAN,
   session : {"none", "open", "closed"}, held : BOOLEAN,
   remote : {"runs", "succeeds", "fails", "lost", "refused"},
   lines : BOOLEAN, waiting : BOOLEAN, emitted : 0..LineLimit, marked : BOOLEAN, exit : {0, 1},
   verdict : Final \cup {None}]
CallRecord == [todo : SUBSET Tasks, now : Tasks \cup {None}, asked : SUBSET Tasks]

TypeOK ==
  /\ stored \subseteq Started /\ answers \subseteq Started
  /\ \A t \in Started : task[t] \in TaskRecord
  /\ shown \in [Tasks -> Statuses \cup {None}]
  /\ \A k \in Calls : call[k] # None => call[k] \in CallRecord /\ call[k].todo \subseteq call[k].asked

Init ==
  /\ task = [t \in Tasks |-> None] /\ stored = {} /\ link = TRUE
  /\ call = [k \in Calls |-> None]
  /\ shown = [t \in Tasks |-> None] /\ answers = {} /\ listing = None /\ lists = 0
  /\ told = [t \in Tasks |-> 0] /\ overtaken = {}

\* commandCtx.Err() # nil: the task is cancelled or its time is over.
Ended(t) == task[t].canceled \/ task[t].expired

Becomes(t, r) == task' = [task EXCEPT ![t] = r]
window == <<shown, answers, listing, lists, overtaken>>

-----------------------------------------------------------------------------
\* pruneDiagnosticsLocked: of the tasks that have ended the Keep newest stay.
EndedOf(ids) == {t \in ids : task[t] # None /\ task[t].status \in Final}
Pruned(ids) == {t \in EndedOf(ids) : Cardinality({u \in EndedOf(ids) : u > t}) >= Keep}

\* StartNetworkDiagnostic: the running task is stored and shown before its goroutine starts.
StartNetworkDiagnostic(t) ==
  /\ link /\ task[t] = None /\ \A u \in Tasks : u < t => task[u] # None
  /\ Cardinality({u \in Started : ~Done(u)}) < MaxActive
  /\ Becomes(t, NewTask)
  /\ stored' = (stored \cup {t}) \ Pruned(stored)
  /\ shown' = [shown EXCEPT ![t] = "running"]
  /\ answers' = answers \cup {t}
  /\ UNCHANGED <<link, call, listing, lists, told, overtaken>>

\* finishDiagnostic: the first to end a task that still runs says how, and tells it.
FinishDiagnostic(t, status, r) ==
  IF t \in stored /\ task[t].status = "running"
  THEN /\ Becomes(t, [r EXCEPT !.status = status])
       /\ told' = [told EXCEPT ![t] = @ + 1]
       /\ shown' = [shown EXCEPT ![t] = status]
  ELSE Becomes(t, r) /\ UNCHANGED <<told, shown>>

\* The end of runNetworkDiagnostic: it sets the status, closes the session and is done.
Finish(t) ==
  /\ task[t] # None /\ task[t].phase = "finishing"
  /\ FinishDiagnostic(t, task[t].verdict,
       [task[t] EXCEPT !.phase = "done", !.verdict = None, !.held = FALSE,
                       !.session = IF task[t].held THEN "closed" ELSE @])
  /\ UNCHANGED <<stored, link, call, answers, listing, lists, overtaken>>

\* The loop is left with a verdict; what it knew of output and command is gone.
Decide(t, verdict) ==
  [task[t] EXCEPT !.phase = "finishing", !.verdict = verdict,
                  !.lines = FALSE, !.waiting = FALSE, !.emitted = 0, !.marked = FALSE, !.exit = 0]

\* StartStreamingCommand, which does not look at the context, and setSession ...
StartStreamingCommand(t) ==
  /\ task[t] # None /\ task[t].phase = "starting"
  /\ \/ /\ link
        /\ Becomes(t, [task[t] EXCEPT !.phase = "reading", !.session = "open", !.held = TRUE])
     \/ Becomes(t, [Decide(t, IF task[t].canceled THEN "canceled" ELSE "failed") EXCEPT !.remote = "refused"])
  /\ UNCHANGED <<stored, link, call, told, window>>

\* ... and its goroutine, which closes the session when the context ends.
SessionEnds(t) ==
  /\ task[t] # None /\ task[t].session = "open" /\ Ended(t)
  /\ Becomes(t, [task[t] EXCEPT !.session = "closed"])
  /\ UNCHANGED <<stored, link, call, told, window>>

\* CommandTimeout has passed.
Expires(t) ==
  /\ task[t] # None /\ task[t].phase \in {"starting", "reading"} /\ ~task[t].expired
  /\ Becomes(t, [task[t] EXCEPT !.expired = TRUE])
  /\ UNCHANGED <<stored, link, call, told, window>>

-----------------------------------------------------------------------------
\* The command prints its status as its last line (BuildCommand) and always exits with 0.
CommandEnds(t, how) ==
  /\ task[t] # None /\ task[t].session = "open" /\ task[t].remote = "runs"
  /\ Becomes(t, [task[t] EXCEPT !.remote = how])
  /\ UNCHANGED <<stored, link, call, told, window>>

\* The connection is lost, by a fault or because the monitor of the server is stopped.
LinkLost ==
  /\ link /\ link' = FALSE
  /\ task' = [t \in Tasks |->
       IF task[t] # None /\ task[t].session = "open" /\ task[t].remote = "runs"
       THEN [task[t] EXCEPT !.remote = "lost"] ELSE task[t]]
  /\ UNCHANGED <<stored, call, told, window>>

Reading(t) == task[t] # None /\ task[t].phase = "reading"

\* case <-lines: a line of output; above the limit lines are dropped, but not the status.
Line(t) ==
  /\ Reading(t) /\ task[t].lines /\ task[t].remote \in {"runs", "succeeds", "fails"} /\ ~task[t].marked
  /\ ~Ended(t) /\ task[t].emitted < LineLimit
  /\ Becomes(t, [task[t] EXCEPT !.emitted = @ + 1])
  /\ UNCHANGED <<stored, link, call, told, window>>

\* case <-lines: the line with the status, which a context that has ended leaves unread.
ExitMarker(t) ==
  /\ Reading(t) /\ task[t].lines /\ task[t].remote \in {"succeeds", "fails"} /\ ~task[t].marked
  /\ Becomes(t, [task[t] EXCEPT !.marked = TRUE,
                   !.exit = IF Ended(t) \/ task[t].remote = "succeeds" THEN 0 ELSE 1])
  /\ UNCHANGED <<stored, link, call, told, window>>

\* readDiagnosticStream ends at the end of the output or when the context ends.
LinesEnd(t) ==
  /\ Reading(t) /\ task[t].lines
  /\ task[t].marked \/ task[t].remote = "lost" \/ task[t].session = "closed" \/ Ended(t)
  /\ Becomes(t, [task[t] EXCEPT !.lines = FALSE])
  /\ UNCHANGED <<stored, link, call, told, window>>

\* case <-waitErr: an error ends the task unless its context has ended before.
IgnoresContext(t, err) ==
  /\ Reading(t) /\ task[t].waiting
  /\ \/ err /\ (task[t].remote = "lost" \/ (task[t].session = "closed" /\ task[t].remote = "runs"))
     \/ ~err /\ task[t].remote \in {"succeeds", "fails"}
  /\ Becomes(t, IF err THEN Decide(t, "failed") ELSE [task[t] EXCEPT !.waiting = FALSE])
  /\ UNCHANGED <<stored, link, call, told, window>>
WaitReturns(t, err) ==
  /\ Reading(t) /\ task[t].waiting
  /\ \/ err /\ (task[t].remote = "lost" \/ (task[t].session = "closed" /\ task[t].remote = "runs"))
     \/ ~err /\ task[t].remote \in {"succeeds", "fails"}
  /\ Becomes(t, IF err /\ ~Ended(t) THEN Decide(t, "failed") ELSE [task[t] EXCEPT !.waiting = FALSE])
  /\ UNCHANGED <<stored, link, call, told, window>>

\* case <-commandCtx.Done(): the session is closed, Wait gets 3 s (waitForDiagnosticDone).
ContextDone(t) ==
  /\ Reading(t) /\ Ended(t) /\ (task[t].lines \/ task[t].waiting)
  /\ Becomes(t, [Decide(t, IF task[t].canceled THEN "canceled" ELSE "failed") EXCEPT
                   !.held = FALSE, !.session = IF task[t].held THEN "closed" ELSE @])
  /\ UNCHANGED <<stored, link, call, told, window>>

\* Output and command have both ended.
LoopEnds(t) ==
  /\ Reading(t) /\ ~task[t].lines /\ ~task[t].waiting
  /\ Becomes(t, Decide(t, IF task[t].canceled THEN "canceled"
                          ELSE IF task[t].expired \/ task[t].exit # 0 THEN "failed" ELSE "completed"))
  /\ UNCHANGED <<stored, link, call, told, window>>

-----------------------------------------------------------------------------
\* CancelNetworkDiagnostic of a task, or StopDiagnostics of those that run.
AskStop(k, ts) ==
  /\ call[k] = None /\ ts # {} /\ \A t \in ts : t \in stored /\ Running(t)
  /\ Cardinality(ts) = 1 \/ ts = {t \in stored : Running(t)}
  /\ call' = [call EXCEPT ![k] = [todo |-> ts, now |-> None, asked |-> ts]]
  /\ UNCHANGED <<task, stored, link, told, window>>

\* cancelDiagnosticTask of the next task: cancelAndCloseSession if it still runs.
CancelAndCloseSession(t) ==
  Becomes(t, [task[t] EXCEPT !.canceled = TRUE, !.held = FALSE,
                !.session = IF task[t].held THEN "closed" ELSE @])

CancelNext(k, t) ==
  /\ call[k] # None /\ call[k].now = None /\ t \in call[k].todo
  /\ IF Running(t)
     THEN CancelAndCloseSession(t) /\ call' = [call EXCEPT ![k].todo = @ \ {t}, ![k].now = t]
     ELSE call' = [call EXCEPT ![k].todo = @ \ {t}] /\ UNCHANGED task
  /\ UNCHANGED <<stored, link, told, window>>

\* The goroutine of the task is done, or has not ended within 3 s: the task is then ended here.
CancelWaited(k, late) ==
  /\ call[k] # None /\ call[k].now # None
  /\ call' = [call EXCEPT ![k].now = None]
  /\ IF late THEN FinishDiagnostic(call[k].now, "canceled", task[call[k].now])
     ELSE Done(call[k].now) /\ UNCHANGED <<task, told, shown>>
  /\ UNCHANGED <<stored, link, answers, listing, lists, overtaken>>

-----------------------------------------------------------------------------
\* The window: the answer of a start shows the task as it was when it started, ...
StartAnswered(t) ==
  /\ t \in answers /\ answers' = answers \ {t}
  /\ shown' = [shown EXCEPT ![t] = "running"]
  /\ overtaken' = IF shown[t] \in Final THEN overtaken \cup {t} ELSE overtaken
  /\ UNCHANGED <<task, stored, link, call, listing, lists, told>>

\* ... and ListNetworkDiagnosticTasks replaces all by what it read.
List ==
  /\ listing = None /\ lists < MaxLists /\ lists' = lists + 1
  /\ listing' = [t \in Tasks |-> IF t \in stored THEN task[t].status ELSE None]
  /\ UNCHANGED <<task, stored, link, call, shown, answers, told, overtaken>>
Listed ==
  /\ listing # None /\ listing' = None /\ shown' = listing
  /\ overtaken' = (overtaken \ {t \in Tasks : listing[t] \in Final})
                    \cup {t \in stored : listing[t] # task[t].status}
  /\ UNCHANGED <<task, stored, link, call, answers, lists, told>>

Step(t) ==
  \/ StartStreamingCommand(t) \/ SessionEnds(t) \/ Expires(t)
  \/ \E how \in {"succeeds", "fails"} : CommandEnds(t, how)
  \/ Line(t) \/ ExitMarker(t) \/ LinesEnd(t) \/ ContextDone(t) \/ LoopEnds(t) \/ Finish(t)
  \/ \E err \in BOOLEAN : WaitReturns(t, err)

Next ==
  \/ \E t \in Tasks : StartNetworkDiagnostic(t) \/ Step(t) \/ StartAnswered(t)
  \/ LinkLost
  \/ \E k \in Calls :
       \/ \E ts \in SUBSET Tasks : AskStop(k, ts)
       \/ \E t \in Tasks : CancelNext(k, t)
       \/ \E late \in BOOLEAN : CancelWaited(k, late)
  \/ List \/ Listed

Spec == Init /\ [][Next]_vars

-----------------------------------------------------------------------------
\* How a task ended is true: completed if its command printed the status 0, failed if the
\* command failed, was not started, lost its connection or ran out of time, canceled if
\* somebody asked for it; what cancelling does to the command never counts as its failure.
StatusIsTrue ==
  \A t \in Started :
    /\ task[t].status = "completed" => task[t].remote = "succeeds"
    /\ task[t].status = "failed" => task[t].expired \/ task[t].remote \in {"fails", "lost", "refused"}
    /\ task[t].status = "canceled" => task[t].canceled

\* Goroutine and cancel can both end a task: the window is told once, and a task
\* whose goroutine is done has ended and left no session open.
EndsOnce ==
  \A t \in Started :
    /\ told[t] = IF Running(t) THEN 0 ELSE 1
    /\ Done(t) => ~Running(t) /\ task[t].session # "open"

\* A call that stops diagnostics leaves none of them running behind it.
StopsAll ==
  \A k \in Calls : call[k] # None =>
    \A t \in call[k].asked : t \in call[k].todo \/ t = call[k].now \/ ~Running(t)

\* The history of a server loses a task only to Keep newer ones that
\* had ended and the one that started then, and never one that runs.
NewestAreKept ==
  \A t \in Started :
    /\ Running(t) => t \in stored
    /\ t \notin stored => Cardinality({u \in stored : u > t}) > Keep

\* The window shows a task as it is, unless an answer read before its end came after it.
ShownIsTrue == \A t \in stored : shown[t] = task[t].status \/ t \in overtaken

\* Goroutine, cancel, timeout and disconnect agree on every diagnostic and the window is told
\* of its end (runNetworkDiagnostic, pruneDiagnosticsLocked).
DiagnosticsAreTrue == TypeOK /\ StatusIsTrue /\ EndsOnce /\ StopsAll /\ NewestAreKept /\ ShownIsTrue
=============================================================================
