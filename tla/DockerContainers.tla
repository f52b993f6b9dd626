--------------------------- MODULE DockerContainers ---------------------------
(***************************************************************************)
(* The containers of a server as dockermanager/manager.go starts, stops,   *)
(* restarts, removes and lists them, and as the window (DockerManager-     *)
(* Dialog.vue, docker.ts) offers them.  A call has one connection and one  *)
(* timeout for all its containers; between what it inspects and what it    *)
(* does the containers can change.  A command that the timeout cuts off    *)
(* may still take effect on the server.                                    *)
(***************************************************************************)
EXTENDS Naturals, FiniteSets

CONSTANTS Containers, Calls,
          MaxChanges,   \* bound: changes that others make to the containers
          MaxBegun,     \* bound: calls that the window makes
          None

VARIABLES
  remote,     \* container -> state of the Docker daemon, or "gone"
  call,       \* call -> None or what it does, see NewCall
  loose,      \* commands cut off by a timeout, [action, c]
  connected,  \* the server is connected: no StopServer since
  available,  \* window: availabilityByServerId
  listed,     \* window: containersByServerId: container -> state, or None
  changes,    \* changes by others so far
  begun,      \* calls so far
  touched,    \* history: containers that changed since `listed` was read
  excused,    \* history: containers that others changed, or whose calls overlapped or failed
  late        \* history: calls that were under way at StopServer

vars == <<remote, call, loose, connected, available, listed, changes, begun, touched, excused, late>>

States == {"created", "running", "paused", "restarting", "exited", "dead"}
Live == {"running", "paused", "restarting"}
Actions == {"start", "stop", "restart", "remove"}
Shown == {"running", "exited", "paused", "restarting", "dead", "unknown"}
Verdicts == {"success", "failed", "skipped"}
Existing == {c \in Containers : remote[c] # "gone"}

\* normalizeContainerState of an inspected container, ...
Inspected(s) == IF s \in Shown THEN s ELSE "unknown"

\* ... and of one in a list, whose status "Up ... (Paused)" starts as that of one that runs.
Listed(s) == IF s = "paused" THEN "running" ELSE Inspected(s)

\* A call for the containers cs.
CallRecord(cs) ==
  [op : Actions \cup {"check", "list"}, batch : BOOLEAN, asked : {cs}, todo : SUBSET cs,
   now : cs \cup {None}, phase : {"open", "inspect", "command", "answer", "list", "refresh"},
   verdict : [cs -> Verdicts \cup {None}], did : SUBSET cs, expired : BOOLEAN,
   stale : SUBSET Containers, read : [Containers -> Shown \cup {None}]]

TypeOK ==
  /\ remote \in [Containers -> States \cup {"gone"}]
  /\ listed \in [Containers -> Shown \cup {None}]
  /\ connected \in BOOLEAN /\ available \in BOOLEAN
  /\ \A k \in Calls : call[k] # None =>
       call[k].asked \subseteq Containers /\ call[k] \in CallRecord(call[k].asked)
  /\ loose \subseteq [action : Actions, c : Containers]

NewCall(op, batch, cs) ==
  [op |-> op, batch |-> batch, asked |-> cs, todo |-> cs, now |-> None, phase |-> "open",
   verdict |-> [c \in cs |-> None], did |-> {}, expired |-> FALSE,
   stale |-> cs \cap touched, read |-> [c \in Containers |-> None]]

Init ==
  /\ remote \in [Containers -> {"created", "running", "paused", "exited"}]
  /\ call = [k \in Calls |-> None]
  /\ loose = {} /\ connected = TRUE /\ available = TRUE
  /\ listed = [c \in Containers |-> Listed(remote[c])]
  /\ changes = 0 /\ begun = 0 /\ touched = {} /\ excused = {} /\ late = {}

\* docker start, stop, restart and rm, of the daemon.
Accepts(action, s) ==
  CASE action = "start" -> s \notin {"gone", "paused"}
    [] action = "stop" -> s # "gone"
    [] action = "restart" -> s # "gone"
    [] action = "remove" -> s \notin Live \cup {"gone"}
Result(action, s) ==
  CASE action \in {"start", "restart"} -> "running"
    [] action = "stop" -> IF s \in Live THEN "exited" ELSE s
    [] action = "remove" -> "gone"

Set(k, r) == call' = [call EXCEPT ![k] = r]
Stale(calls, c) == [k \in Calls |-> IF calls[k] = None THEN None ELSE [calls[k] EXCEPT !.stale = @ \cup {c}]]
Touch(c) ==
  /\ touched' = touched \cup {c} /\ excused' = excused \cup {c}
  /\ call' = Stale(call, c)

-----------------------------------------------------------------------------
\* Other users, restart policies and the containers themselves.
Changes(c, s) ==
  /\ changes < MaxChanges /\ remote[c] \notin {"gone", s}
  /\ remote' = [remote EXCEPT ![c] = s]
  /\ changes' = changes + 1
  /\ Touch(c)
  /\ UNCHANGED <<loose, connected, available, listed, begun, late>>

\* A command that was cut off takes effect, or is lost.
TakesEffect(x) ==
  /\ loose' = loose \ {x}
  /\ \/ /\ Accepts(x.action, remote[x.c])
        /\ remote' = [remote EXCEPT ![x.c] = Result(x.action, @)]
        /\ Touch(x.c)
     \/ UNCHANGED <<remote, touched, excused, call>>
  /\ UNCHANGED <<connected, available, listed, changes, begun, late>>

-----------------------------------------------------------------------------
\* eligibleForAction of the window.
Eligible(action, s) ==
  CASE action = "start" -> s \in {"exited", "dead"}
    [] action = "stop" -> s \in {"running", "restarting"}
    [] action = "restart" -> s = "running"
    [] action = "remove" -> s \in {"exited", "dead"}

Begin(k, op, batch, cs) ==
  /\ connected /\ call[k] = None
  /\ begun < MaxBegun /\ begun' = begun + 1
  /\ Set(k, NewCall(op, batch, cs))
  /\ excused' = IF \E j \in Calls : call[j] # None THEN Containers ELSE excused
  /\ UNCHANGED <<remote, loose, connected, available, listed, changes, touched, late>>

\* runBatchAction: of the selected containers those that the list says are eligible.
AskBatch(k, action, cs) ==
  /\ cs # {} /\ \A c \in cs : listed[c] # None /\ Eligible(action, listed[c])
  /\ Begin(k, action, TRUE, cs)

\* One container, from its row.
AskOne(k, action, c) == listed[c] # None /\ Eligible(action, listed[c]) /\ Begin(k, action, FALSE, {c})

\* Check and List.
AskCheck(k) == Begin(k, "check", FALSE, {})
AskList(k) == Begin(k, "list", FALSE, {})

\* markBatchFailed.
FailAll(r) == [r EXCEPT !.todo = {}, !.phase = "answer",
                        !.verdict = [c \in r.asked |-> IF r.verdict[c] = None THEN "failed" ELSE r.verdict[c]]]

\* The connection fails.
OpenFails(k) ==
  /\ call[k] # None /\ call[k].phase = "open"
  /\ IF call[k].op \in Actions THEN Set(k, FailAll(call[k])) /\ UNCHANGED available
       ELSE /\ Set(k, None)
            /\ available' = IF call[k].op = "check" THEN FALSE ELSE available
  /\ UNCHANGED <<remote, loose, connected, listed, changes, begun, touched, excused, late>>

\* The connection is there: a batch and a removal inspect first, other calls go ahead.
Open(k) ==
  /\ call[k] # None /\ call[k].phase = "open"
  /\ Set(k, [call[k] EXCEPT !.phase = CASE call[k].op \in {"list", "check"} -> "list"
                                        [] call[k].op \in Actions /\ (call[k].batch \/ call[k].op = "remove") -> "inspect"
                                        [] OTHER -> "command",
                            !.now = IF call[k].op \in Actions /\ ~call[k].batch /\ call[k].op # "remove"
                                      THEN CHOOSE c \in call[k].asked : TRUE ELSE None])
  /\ UNCHANGED <<remote, loose, connected, available, listed, changes, begun, touched, excused, late>>

\* The timeout of the whole call passes.
Expires(k) ==
  /\ call[k] # None /\ call[k].phase \in {"inspect", "command"} /\ ~call[k].expired
  /\ Set(k, [call[k] EXCEPT !.expired = TRUE])
  /\ UNCHANGED <<remote, loose, connected, available, listed, changes, begun, touched, excused, late>>

\* Faulty variant: the first failure ends the batch.
SetFirstResult(r, c, v) ==
  [r EXCEPT !.verdict[c] = v, !.todo = IF v = "failed" THEN {} ELSE @ \ {c}, !.now = None,
            !.phase = IF v = "failed" \/ r.todo = {c} THEN "answer" ELSE "inspect"]

\* setBatchResult, and on to the next container.
setBatchResult(r, c, v) ==
  [r EXCEPT !.verdict[c] = v, !.todo = @ \ {c}, !.now = None,
            !.phase = IF r.todo = {c} THEN "answer" ELSE "inspect"]

\* canBatchStartContainer, canBatchStopContainer, canBatchRestartContainer and the check
\* before a removal.
CanBatch(action, s) ==
  CASE action = "start" -> s \in {"exited", "dead"}
    [] action = "stop" -> s \in {"running", "restarting"}
    [] action = "restart" -> s = "running"
    [] action = "remove" -> s \notin Live

\* inspectWithTransport of the next container.
Inspect(k, c) ==
  /\ call[k] # None /\ call[k].phase = "inspect" /\ c \in call[k].todo
  /\ Set(k, IF call[k].expired \/ remote[c] = "gone" THEN setBatchResult(call[k], c, "failed")
            ELSE IF CanBatch(call[k].op, Inspected(remote[c])) THEN [call[k] EXCEPT !.now = c, !.phase = "command"]
            ELSE setBatchResult(call[k], c, "skipped"))
  /\ UNCHANGED <<remote, loose, connected, available, listed, changes, begun, touched, excused, late>>

\* The command of the container that was inspected; the daemon decides.
RunCommand(k) ==
  LET r == call[k] IN
  /\ r # None /\ r.phase = "command" /\ ~r.expired
  /\ IF Accepts(r.op, remote[r.now])
       THEN /\ remote' = [remote EXCEPT ![r.now] = Result(r.op, @)]
            /\ touched' = touched \cup {r.now}
            /\ call' = Stale([call EXCEPT ![k] = setBatchResult([r EXCEPT !.did = @ \cup {r.now}], r.now, "success")], r.now)
       ELSE UNCHANGED <<remote, touched>> /\ Set(k, setBatchResult(r, r.now, "failed"))
  /\ UNCHANGED <<loose, connected, available, listed, changes, begun, excused, late>>

\* The timeout cuts it off: it failed, and may take effect all the same.
CommandExpires(k) ==
  LET r == call[k] IN
  /\ r # None /\ r.phase = "command" /\ r.expired
  /\ Set(k, setBatchResult(r, r.now, "failed"))
  /\ loose' = loose \cup {[action |-> r.op, c |-> r.now]}
  /\ UNCHANGED <<remote, connected, available, listed, changes, begun, touched, excused, late>>

\* The answer; the window refreshes.  A single call that fails is an error: no refresh.
Answered(k) ==
  /\ call[k] # None /\ call[k].phase = "answer"
  /\ Set(k, IF call[k].batch \/ call[k].did # {} THEN [call[k] EXCEPT !.phase = "list", !.op = "list"] ELSE None)
  /\ UNCHANGED <<remote, loose, connected, available, listed, changes, begun, touched, excused, late>>

\* listWithTransport or checkWithTransport; the check says that there are no containers.
Read(k) ==
  /\ call[k] # None /\ call[k].phase = "list"
  /\ Set(k, [call[k] EXCEPT !.phase = "refresh", !.stale = {},
               !.read = [c \in Containers |-> IF call[k].op = "list" /\ remote[c] # "gone" THEN Listed(remote[c]) ELSE None]])
  /\ UNCHANGED <<remote, loose, connected, available, listed, changes, begun, touched, excused, late>>

ReadFails(k) ==
  /\ call[k] # None /\ call[k].phase = "list"
  /\ available' = IF call[k].op = "check" THEN FALSE ELSE available
  /\ excused' = excused \cup call[k].asked
  /\ Set(k, None)
  /\ UNCHANGED <<remote, loose, connected, listed, changes, begun, touched, late>>

\* emitContainers, emitState and the answer: acceptState and acceptContainers.
Refresh(k) ==
  /\ call[k] # None /\ call[k].phase = "refresh"
  /\ available' = TRUE /\ listed' = call[k].read
  /\ touched' = IF call[k].op = "list" THEN call[k].stale ELSE touched
  /\ Set(k, None)
  /\ UNCHANGED <<remote, loose, connected, changes, begun, excused, late>>

\* StopServer knows the streams and watches, and no calls.
StopServer ==
  /\ connected /\ connected' = FALSE
  /\ available' = FALSE
  /\ late' = {k \in Calls : call[k] # None}
  /\ UNCHANGED <<remote, call, loose, listed, changes, begun, touched, excused>>

Next ==
  \/ \E c \in Containers : \E s \in States : Changes(c, s)
  \/ \E x \in loose : TakesEffect(x)
  \/ \E k \in Calls :
       \/ \E action \in Actions : (\E cs \in SUBSET Containers : AskBatch(k, action, cs)) \/ \E c \in Containers : AskOne(k, action, c)
       \/ AskCheck(k) \/ AskList(k)
       \/ OpenFails(k) \/ Open(k) \/ Expires(k)
       \/ \E c \in Containers : Inspect(k, c)
       \/ RunCommand(k) \/ CommandExpires(k) \/ Answered(k)
       \/ Read(k) \/ ReadFails(k) \/ Refresh(k)
  \/ StopServer

Spec == Init /\ [][Next]_vars

-----------------------------------------------------------------------------
\* The result of a container is what happened to it: success if and only if the daemon did
\* it, unless the timeout cut the command off.
VerdictIsTrue ==
  \A k \in Calls : call[k] # None =>
    \A c \in call[k].asked : call[k].verdict[c] # None => (call[k].verdict[c] = "success") = (c \in call[k].did)

\* A batch answers for every container it was asked for, whichever step failed.
EveryVerdict ==
  \A k \in Calls : call[k] # None /\ call[k].phase = "answer" =>
    \A c \in call[k].asked : call[k].verdict[c] # None

\* What the window offers is not skipped by the manager, unless the container changed since
\* it was listed, or is paused: then the list says that it runs.
OfferedIsDone ==
  \A k \in Calls : call[k] # None /\ call[k].batch /\ call[k].op \in Actions =>
    \A c \in call[k].asked \ call[k].stale : call[k].verdict[c] = "skipped" => remote[c] = "paused"

\* When no call is under way the window shows every container as it is, except those that
\* others changed, or whose calls overlapped or failed.
ListIsFresh ==
  (\A k \in Calls : call[k] = None) =>
    \A c \in Containers \ excused : listed[c] \in {None, Listed(remote[c])}

\* After StopServer Docker is shown as available only by a call that was under way then.
UnavailableAfterStop == ~connected /\ available => late # {}

\* What is answered and shown of containers is true (batchContainerCommand, List, StopServer).
ContainersAreTrue ==
  TypeOK /\ VerdictIsTrue /\ EveryVerdict /\ OfferedIsDone /\ ListIsFresh /\ UnavailableAfterStop

=============================================================================
