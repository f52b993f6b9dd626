---------------------------- MODULE ServiceControl ----------------------------
(***************************************************************************)
(* The system services of a server: servicemanager/manager.go with what    *)
(* systemd.go, procd.go and parser.go read and offer.  Calls are           *)
(* registered in `operations`, an action under its unit; what the server's *)
(* init system is, is detected once and kept in `capabilities`.            *)
(***************************************************************************)
EXTENDS Naturals, FiniteSets

CONSTANTS Units, Calls,
          Protected,    \* units that no action may touch
          MaxBegun,     \* bound: calls that the user asks for
          None

VARIABLES
  init,        \* what the server runs: "systemd", "procd" or "other"
  remote,      \* unit -> [active, file] on the server
  call,        \* call -> None or what it does, see NewCall
  operations,  \* key -> call or None: calls by themselves, actions by unit
  cache,       \* capabilities[server]: None or the init system
  shown,       \* window: unit -> its row, or None
  begun,       \* calls that the user asked for so far
  misled,      \* history: the capability came from a detection that met an error
  touched      \* history: units that changed since the window's list was read

vars == <<init, remote, call, operations, cache, shown, begun, misled, touched>>

Actions == {"start", "stop", "restart", "enable", "disable"}
Found == [systemd |-> "systemd", procd |-> "procd", other |-> "unsupported"]
UnitStates == [active : {"active", "inactive", "failed"}, file : {"enabled", "disabled", "masked"}]

isProtectedService(u) == u \in Protected

\* decorateSummary: the actions that a row of systemd allows, ...
decorateSummary(u, s) ==
  {a \in Actions : ~isProtectedService(u) /\
     CASE a = "start" -> s.active # "active" /\ s.file # "masked"
       [] a = "stop" -> s.active = "active"
       [] a = "restart" -> s.active \in {"active", "failed"}
       [] a = "enable" -> s.file = "disabled"
       [] a = "disable" -> s.file = "enabled"}

\* ... and decorateProcdSummary.
decorateProcdSummary(u, s) ==
  {a \in Actions : ~isProtectedService(u) /\
     CASE a = "start" -> s.active # "active"
       [] a = "stop" -> s.active = "active"
       [] a = "restart" -> TRUE
       [] a = "enable" -> s.file # "enabled"
       [] a = "disable" -> s.file = "enabled"}

parseSystemdServiceList == [u \in Units |-> decorateSummary(u, remote[u])]

\* procd knows running or not, enabled or not.
parseProcdServiceList == [u \in Units |-> decorateProcdSummary(u, remote[u])]

\* listWithCapability.
Rows(capability) == IF capability = "systemd" THEN parseSystemdServiceList ELSE parseProcdServiceList

\* systemctl and the init scripts.
Accepts(action, s) == init = "procd" \/ s.file # "masked" \/ action \in {"stop", "disable"}
Result(action, s) ==
  CASE action \in {"start", "restart"} -> [s EXCEPT !.active = "active"]
    [] action = "stop" -> [s EXCEPT !.active = "inactive"]
    [] action = "enable" -> [s EXCEPT !.file = "enabled"]
    [] action = "disable" -> [s EXCEPT !.file = "disabled"]

Phases == {"asked", "open", "detect systemd", "detect procd", "work", "answer", "exclusive", "open action", "command"}
Goals == {"check", "list", "read", "action"}

TypeOK ==
  /\ remote \in [Units -> UnitStates]
  /\ operations \in [Units \cup Calls -> Calls \cup {None}]
  /\ cache \in {None, "systemd", "procd", "unsupported"}
  /\ \A k \in Calls : call[k] # None =>
       /\ call[k].goal \in Goals /\ call[k].phase \in Phases
       /\ call[k].phase = "work" => call[k].cap \in {"systemd", "procd"}
       /\ call[k].phase \in {"open action", "command"} => call[k].goal = "action" /\ call[k].unit \notin Protected

\* A call: its key among the operations, whether its context lives, whether StopServer came
\* since (old), and met it unregistered (missed), and the units that changed since it read the
\* list (behind): of an action, since its row was shown.
NewCall(goal, u, action) ==
  [goal |-> goal, unit |-> u, action |-> action, phase |-> "asked", key |-> None, live |-> TRUE,
   old |-> FALSE, missed |-> FALSE, erred |-> FALSE, cap |-> None, read |-> None, behind |-> touched \cap {u}]

Init ==
  /\ init \in DOMAIN Found
  /\ remote \in [Units -> {s \in UnitStates : init = "systemd" \/ (s.active \in {"active", "inactive"} /\ s.file \in {"enabled", "disabled"})}]
  /\ \A u \in Protected : remote[u] = [active |-> "active", file |-> "enabled"]
  /\ call = [k \in Calls |-> None]
  /\ operations = [x \in Units \cup Calls |-> None]
  /\ cache = None /\ shown = [u \in Units |-> None] /\ begun = 0 /\ misled = FALSE /\ touched = {}

Is(k, phase) == call[k] # None /\ call[k].phase = phase
Set(k, r) == call' = [call EXCEPT ![k] = r]
Moves(k, phase) == Set(k, [call[k] EXCEPT !.phase = phase])

\* Faulty variant: whoever holds the key is removed.
FinishAny(k) == operations' = [x \in Units \cup Calls |-> IF x = call[k].key THEN None ELSE operations[x]]

\* finishOperation: a call removes itself, never one that took its key since.
finishOperation(k) ==
  operations' = [x \in Units \cup Calls |-> IF x = call[k].key /\ operations[x] = k THEN None ELSE operations[x]]

\* The call ends and its connection is closed.
Ends(k) == finishOperation(k) /\ Set(k, None)

-----------------------------------------------------------------------------
\* The window asks: Check, List, Detail or Journal ("read").
Ask(k, goal) ==
  /\ call[k] = None /\ goal # "action"
  /\ begun < MaxBegun /\ begun' = begun + 1
  /\ Set(k, NewCall(goal, None, None))
  /\ UNCHANGED <<init, remote, operations, cache, shown, misled, touched>>

\* One of the actions that the row of the unit allows.
AskAction(k, u, action) ==
  /\ call[k] = None /\ shown[u] # None /\ action \in shown[u]
  /\ begun < MaxBegun /\ begun' = begun + 1
  /\ Set(k, NewCall("action", u, action))
  /\ UNCHANGED <<init, remote, operations, cache, shown, misled, touched>>

\* beginOperation; an action does so only to detect the capability.
BeginOperation(k) ==
  /\ Is(k, "asked") /\ (call[k].goal = "action" => cache = None)
  /\ operations' = [operations EXCEPT ![k] = k]
  /\ Set(k, [call[k] EXCEPT !.phase = "open", !.key = k])
  /\ UNCHANGED <<init, remote, cache, shown, begun, misled, touched>>

\* capabilityForAction when the capability is known.
CapabilityKnown(k) ==
  /\ Is(k, "asked") /\ call[k].goal = "action" /\ cache # None
  /\ Set(k, [call[k] EXCEPT !.phase = "exclusive", !.cap = cache])
  /\ UNCHANGED <<init, remote, operations, cache, shown, begun, misled, touched>>

\* What a call does once it knows the capability c.
Goes(k, c) ==
  \/ /\ call[k].goal = "action"
     /\ finishOperation(k) /\ Set(k, [call[k] EXCEPT !.phase = "exclusive", !.cap = c, !.key = None, !.erred = FALSE])
  \/ /\ call[k].goal = "check" \/ (call[k].goal # "action" /\ c = "unsupported")
     /\ Ends(k)
  \/ /\ call[k].goal \in {"list", "read"} /\ c # "unsupported"
     /\ UNCHANGED operations /\ Set(k, [call[k] EXCEPT !.phase = "work", !.cap = c, !.erred = FALSE])

\* open, and ensureCapability: a check always detects.
Opens(k) ==
  /\ Is(k, "open") /\ call[k].live
  /\ IF call[k].goal # "check" /\ cache # None THEN Goes(k, cache)
       ELSE Moves(k, "detect systemd") /\ UNCHANGED operations
  /\ UNCHANGED <<init, remote, cache, shown, begun, misled, touched>>

\* The connection fails, or a command of a read, or times out: the answer is an error.
Fails(k) ==
  /\ call[k] # None /\ call[k].phase \in {"open", "detect systemd", "detect procd", "work", "open action"}
  /\ Ends(k)
  /\ UNCHANGED <<init, remote, cache, shown, begun, misled, touched>>

\* cacheCapability.
Detected(k, c, erred) ==
  /\ cache' = c /\ misled' = erred
  /\ Goes(k, c)
  /\ UNCHANGED <<init, remote, shown, begun, touched>>

\* detectCapability, the first command.  An error that is no timeout (the context was
\* cancelled, the connection closed) counts as "no systemd".
DetectSystemd(k, erred) ==
  /\ Is(k, "detect systemd") /\ (~call[k].live => erred)
  /\ IF ~erred /\ init = "systemd" THEN Detected(k, "systemd", FALSE)
       ELSE /\ Set(k, [call[k] EXCEPT !.phase = "detect procd", !.erred = erred])
            /\ UNCHANGED <<init, remote, operations, cache, shown, begun, misled, touched>>

\* The second command: the same error here makes the server one of an unsupported kind.
DetectProcd(k, erred) ==
  /\ Is(k, "detect procd") /\ (~call[k].live => erred)
  /\ IF ~erred /\ init = "procd" THEN Detected(k, "procd", FALSE)
       ELSE Detected(k, "unsupported", erred \/ call[k].erred)

\* List, with the capability known.
Reads(k) ==
  /\ Is(k, "work") /\ call[k].goal = "list" /\ call[k].live
  /\ Set(k, [call[k] EXCEPT !.phase = "answer", !.cap = None, !.read = Rows(call[k].cap), !.behind = {}])
  /\ UNCHANGED <<init, remote, operations, cache, shown, begun, misled, touched>>

\* Detail and Journal: the window shows what it gets, nothing depends on it.
ReadsUnit(k) ==
  /\ Is(k, "work") /\ call[k].goal = "read" /\ call[k].live
  /\ Ends(k)
  /\ UNCHANGED <<init, remote, cache, shown, begun, misled, touched>>

\* The answer: the window replaces its list, which is out of date by what changed meanwhile.
Answers(k) ==
  /\ Is(k, "answer")
  /\ shown' = call[k].read
  /\ touched' = call[k].behind
  /\ Ends(k)
  /\ UNCHANGED <<init, remote, cache, begun, misled>>

-----------------------------------------------------------------------------
\* runAction after the capability: refused, or beginExclusiveAction.
beginExclusiveAction(k) ==
  /\ Is(k, "exclusive")
  /\ IF call[k].cap = "unsupported" \/ isProtectedService(call[k].unit) \/ operations[call[k].unit] # None
       THEN Ends(k)
       ELSE /\ operations' = [operations EXCEPT ![call[k].unit] = k]
            /\ Set(k, [call[k] EXCEPT !.phase = "open action", !.cap = None, !.key = call[k].unit])
  /\ UNCHANGED <<init, remote, cache, shown, begun, misled, touched>>

OpensAction(k) ==
  /\ Is(k, "open action") /\ call[k].live
  /\ Moves(k, "command")
  /\ UNCHANGED <<init, remote, operations, cache, shown, begun, misled, touched>>

\* The unit changes: what the window shows of it is out of date, and every call that has
\* read it, or was asked for it.
Touches(u, calls) ==
  /\ touched' = touched \cup {u}
  /\ call' = [k \in Calls |->
       IF calls[k] # None /\ (calls[k].phase = "answer" \/ calls[k].unit = u)
         THEN [calls[k] EXCEPT !.behind = @ \cup {u}] ELSE calls[k]]

\* Somebody else on the server masks a unit.
Masks(u) ==
  /\ init = "systemd" /\ u \notin Protected /\ remote[u].file # "masked"
  /\ remote' = [remote EXCEPT ![u].file = "masked"]
  /\ Touches(u, call)
  /\ UNCHANGED <<init, operations, cache, shown, begun, misled>>

\* The command does it.  runAction of the window then asks for the list.
CommandDone(k) ==
  LET u == call[k].unit IN
  /\ Is(k, "command") /\ Accepts(call[k].action, remote[u])
  /\ remote' = [remote EXCEPT ![u] = Result(call[k].action, @)]
  /\ finishOperation(k)
  /\ Touches(u, [call EXCEPT ![k] = IF call[k].live THEN NewCall("list", None, None) ELSE None])
  /\ UNCHANGED <<init, cache, shown, begun, misled>>

\* The init system refuses, the user lacks the privilege, or the time is over.
CommandFails(k) ==
  /\ Is(k, "command")
  /\ Ends(k)
  /\ UNCHANGED <<init, remote, cache, shown, begun, misled, touched>>

-----------------------------------------------------------------------------
\* Calls that lose their context, with the keys they were registered under.
Cancelled(keys) ==
  /\ operations' = [x \in Units \cup Calls |-> IF x \in keys THEN None ELSE operations[x]]
  /\ call' = [k \in Calls |-> IF call[k] # None /\ k \in {operations[x] : x \in keys} THEN [call[k] EXCEPT !.live = FALSE] ELSE call[k]]

\* CancelQueries, when the dialog closes or changes the server: every kind but "action".
CancelQueries ==
  /\ \E k \in Calls : operations[k] # None
  /\ Cancelled(Calls)
  /\ UNCHANGED <<init, remote, cache, shown, begun, misled, touched>>

\* Of a call that lives on, the history.
Outlived(keys) ==
  LET lives(k) == call[k].live /\ k \notin {operations[x] : x \in keys}
  IN  call' = [k \in Calls |-> IF call[k] = None THEN None ELSE
                 [call[k] EXCEPT !.live = lives(k), !.old = lives(k),
                                 !.missed = lives(k) /\ (@ \/ call[k].phase \in {"asked", "exclusive"})]]

\* StopServer: every registered call, and the capability.
StopServer ==
  /\ \E k \in Calls : call[k] # None
  /\ operations' = [x \in Units \cup Calls |-> None]
  /\ cache' = None /\ misled' = FALSE
  /\ Outlived(Units \cup Calls)
  /\ UNCHANGED <<init, remote, shown, begun, touched>>

Next ==
  \/ \E k \in Calls :
       \/ \E goal \in Goals : Ask(k, goal)
       \/ \E u \in Units, action \in Actions : AskAction(k, u, action)
       \/ BeginOperation(k) \/ CapabilityKnown(k) \/ Opens(k) \/ Fails(k)
       \/ \E erred \in BOOLEAN : DetectSystemd(k, erred) \/ DetectProcd(k, erred)
       \/ Reads(k) \/ ReadsUnit(k) \/ Answers(k)
       \/ beginExclusiveAction(k) \/ OpensAction(k) \/ CommandDone(k) \/ CommandFails(k)
  \/ CancelQueries \/ StopServer
  \/ \E u \in Units : Masks(u)

Spec == Init /\ [][Next]_vars

-----------------------------------------------------------------------------
\* A call that has begun and was not cancelled is the one its key names: nobody else's end
\* took it out of the operations, it can be cancelled, and no second action works on its
\* unit (beginExclusiveAction, finishOperation).
LiveIsRegistered ==
  \A k \in Calls : call[k] # None /\ call[k].live /\ call[k].key # None => operations[call[k].key] = k

\* The capability that is kept is that of the server, unless the detection that wrote it met
\* an error: a cancelled one says "unsupported", even after StopServer (detectCapability).
CapabilityIsOfServer == cache # None /\ ~misled => cache = Found[init]

\* StopServer ends every call that was under way, but the ones that were between two
\* registrations: before the first, or between an action's check and the action itself.
StopServerCancels == \A k \in Calls : call[k] # None /\ call[k].old /\ call[k].live => call[k].missed

\* What the list offers, the server does not refuse as impossible, unless the unit changed
\* since; a masked unit that runs is offered a restart all the same (decorateSummary).
OfferedIsPossible ==
  \A k \in Calls : Is(k, "command") /\ call[k].unit \notin call[k].behind =>
    \/ Accepts(call[k].action, remote[call[k].unit])
    \/ call[k].action = "restart" /\ remote[call[k].unit].file = "masked"

\* Operations can be cancelled and exclude each other, and what is known and offered of the
\* services is true (beginExclusiveAction, detectCapability, StopServer, decorateSummary).
ServicesAreSound ==
  TypeOK /\ LiveIsRegistered /\ CapabilityIsOfServer /\ StopServerCancels /\ OfferedIsPossible

=============================================================================
