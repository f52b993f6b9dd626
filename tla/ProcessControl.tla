---------------------------- MODULE ProcessControl ----------------------------
(***************************************************************************)
(* The process list of a server and the signals sent from it:              *)
(* processmanager/service.go with the strategies of linux.go and what      *)
(* parser.go makes of their output.  Processes come and go, and their PIDs *)
(* are reused, between the list, the check before a signal and the signal. *)
(***************************************************************************)
EXTENDS Naturals, FiniteSets, Sequences

CONSTANTS Pids,         \* PIDs other than that of init
          InitPid,      \* PID 1
          Programs,     \* what a process can be: [comm, name, kernel]
          MaxBorn,      \* bound: processes that are started
          None

VARIABLES
  works,     \* the strategies that the server's tools can do
  table,     \* PID -> the process: None or [born, prog]
  born,      \* processes started so far
  listing,   \* the list under way: None or [at, broken]
  rows,      \* window: PID -> None or [born, command, canSignal]
  signal,    \* the signal under way: None, or the row it is for, see AskSignal
  answer,    \* answer to the last signal
  hit,       \* history: None or the process that the last signal reached, see Kill
  failed     \* history: the last list failed: None, "all" or "time"

vars == <<works, table, born, listing, rows, signal, answer, hit, failed>>

\* listProcessCommands.
Strategies == <<"gnu_no_header", "gnu_header", "ps_aux", "busybox", "proc">>

Names == {q.comm : q \in Programs} \cup {q.name : q \in Programs}
Process == [born : Nat, prog : Programs]
Row == [born : Nat, command : Names, kernel : BOOLEAN, canSignal : BOOLEAN, byArgs : BOOLEAN]
Hit == [got : Nat, row : Row, checked : Nat, prog : Programs]

TypeOK ==
  /\ works \subseteq {Strategies[i] : i \in DOMAIN Strategies}
  /\ table \in [Pids \cup {InitPid} -> Process \cup {None}]
  /\ \A p \in Pids \cup {InitPid} : rows[p] # None =>
       rows[p] \in Row /\ rows[p].canSignal = ~(p = InitPid \/ rows[p].kernel)
  /\ listing # None => listing.at \in DOMAIN Strategies
  /\ signal # None => signal.phase \in {"detail", "kill"} /\ signal.pid # InitPid
  /\ answer \in {None, "sent", "failed", "changed", "protected", "gone"}

\* The command of a row: comm, or, where the format has no such column, commandName of the
\* arguments.  comm is cut after 15 characters, the program's name is not.
Command(strategy, prog) == IF strategy \in {"ps_aux", "busybox"} THEN prog.name ELSE prog.comm

Init ==
  /\ works \in SUBSET {"gnu_no_header", "ps_aux", "proc"}
  /\ table \in [Pids \cup {InitPid} -> {None} \cup [born : {0}, prog : Programs]]
  /\ table[InitPid] # None /\ ~table[InitPid].prog.kernel
  /\ born = 0 /\ listing = None /\ rows = [p \in Pids \cup {InitPid} |-> None]
  /\ signal = None /\ answer = None /\ hit = None /\ failed = None

-----------------------------------------------------------------------------
\* The processes of the server.
Spawns(p, prog) ==
  /\ born < MaxBorn /\ table[p] = None
  /\ born' = born + 1 /\ table' = [table EXCEPT ![p] = [born |-> born', prog |-> prog]]
  /\ UNCHANGED <<works, listing, rows, signal, answer, hit, failed>>

Exits(p) ==
  /\ table[p] # None
  /\ table' = [table EXCEPT ![p] = None]
  /\ UNCHANGED <<works, born, listing, rows, signal, answer, hit, failed>>

-----------------------------------------------------------------------------
\* List: the window refreshes, or a watch does.
AskList ==
  /\ listing = None
  /\ listing' = [at |-> 1, broken |-> FALSE]
  /\ UNCHANGED <<works, table, born, rows, signal, answer, hit, failed>>

\* listWithTransport: a strategy whose command or whose output is no use; on to the next.
NextStrategy ==
  /\ listing # None /\ Strategies[listing.at] \notin works
  /\ IF listing.at < Len(Strategies) THEN listing' = [listing EXCEPT !.at = @ + 1] /\ UNCHANGED failed
       ELSE listing' = None /\ failed' = IF listing.broken THEN "time" ELSE "all"
  /\ UNCHANGED <<works, table, born, rows, signal, answer, hit>>

\* A command fails all the same (the connection): the next one is tried.
StrategyBreaks ==
  /\ listing # None /\ Strategies[listing.at] \in works
  /\ IF listing.at < Len(Strategies) THEN listing' = [at |-> listing.at + 1, broken |-> TRUE] /\ UNCHANGED failed
       ELSE listing' = None /\ failed' = "time"
  /\ UNCHANGED <<works, table, born, rows, signal, answer, hit>>

\* The five seconds for all the strategies are over, or there is no connection.
ListFails ==
  /\ listing # None
  /\ listing' = None /\ failed' = "time"
  /\ UNCHANGED <<works, table, born, rows, signal, answer, hit>>

\* parseSingleProcessList, filterSortLimitProcesses, emitList: canSignal of every row.
Listed ==
  /\ listing # None /\ Strategies[listing.at] \in works
  /\ rows' = [p \in Pids \cup {InitPid} |-> IF table[p] = None THEN None ELSE
                [born |-> table[p].born, command |-> Command(Strategies[listing.at], table[p].prog),
                 kernel |-> table[p].prog.kernel, canSignal |-> p # InitPid /\ ~table[p].prog.kernel,
                 byArgs |-> Strategies[listing.at] \in {"ps_aux", "busybox"} /\ table[p].prog.name # table[p].prog.comm]]
  /\ listing' = None /\ failed' = None
  /\ UNCHANGED <<works, table, born, signal, answer, hit>>

-----------------------------------------------------------------------------
\* sendSignal of the window, with the command that it shows.
AskSignal(p) ==
  /\ signal = None /\ rows[p] # None /\ rows[p].canSignal
  /\ signal' = [pid |-> p, row |-> rows[p], phase |-> "detail", checked |-> None]
  /\ answer' = None /\ hit' = None
  /\ UNCHANGED <<works, table, born, listing, rows, failed>>

Refuse(why) == signal' = None /\ answer' = why
\* The connection or a command fails, or takes too long.
SignalFails ==
  /\ signal # None
  /\ Refuse("failed")
  /\ UNCHANGED <<works, table, born, listing, rows, hit, failed>>

\* Faulty variant: the expected command is not compared.
TargetExists(p, expected) == IF table[p].prog.kernel THEN "protected" ELSE None

\* validateSignalTarget, of what detailWithTransport read: None if the signal may be sent.
validateSignalTarget(p, expected) ==
  CASE p = InitPid \/ table[p].prog.kernel -> "protected"
    [] expected # table[p].prog.comm -> "changed"
    [] OTHER -> None

Detail ==
  /\ signal # None /\ signal.phase = "detail"
  /\ IF table[signal.pid] = None THEN Refuse("gone")
       ELSE LET why == validateSignalTarget(signal.pid, signal.row.command) IN
            IF why # None THEN Refuse(why)
            ELSE signal' = [signal EXCEPT !.phase = "kill", !.checked = table[signal.pid].born] /\ UNCHANGED answer
  /\ UNCHANGED <<works, table, born, listing, rows, hit, failed>>

\* signalCommand: whoever has the PID now.  The process may ignore a TERM.  The window
\* refreshes after a signal that was sent.
Kill ==
  /\ signal # None /\ signal.phase = "kill"
  /\ IF table[signal.pid] = None THEN Refuse("gone") /\ UNCHANGED <<table, hit, listing>>
       ELSE /\ hit' = [got |-> table[signal.pid].born, row |-> signal.row, checked |-> signal.checked, prog |-> table[signal.pid].prog]
            /\ table' \in {table, [table EXCEPT ![signal.pid] = None]}
            /\ Refuse("sent")
            /\ listing' = IF listing = None THEN [at |-> 1, broken |-> FALSE] ELSE listing
  /\ UNCHANGED <<works, born, rows, failed>>

Next ==
  \/ \E p \in Pids : (\E prog \in Programs : Spawns(p, prog)) \/ Exits(p)
  \/ AskList \/ NextStrategy \/ StrategyBreaks \/ ListFails \/ Listed
  \/ \E p \in Pids \cup {InitPid} : AskSignal(p)
  \/ SignalFails \/ Detail \/ Kill

Spec == Init /\ [][Next]_vars

-----------------------------------------------------------------------------
\* A signal reaches the process that the window showed, or one that took its PID: before the
\* check and with the same command, or between the check and the signal.
SignalsTheChosen ==
  hit # None /\ hit.got # hit.row.born =>
    hit.checked # hit.got \/ hit.prog.comm = hit.row.command

\* Kernel threads are never signalled, unless one took the PID after the check.
ProtectedIsSpared == hit # None /\ hit.prog.kernel => hit.checked # hit.got

\* "The process changed" is only said of one that did, or whose row came from a format
\* without the command column, by a name that differs from its comm.
RefusedHasChanged ==
  signal # None /\ signal.phase = "detail" /\ table[signal.pid] # None /\ table[signal.pid].born = signal.row.born
    => validateSignalTarget(signal.pid, signal.row.command) = None \/ signal.row.byArgs

\* "Sent" means that a process was there to get it.
SentIsReceived == answer = "sent" => hit # None

\* A list fails only when no strategy works, the time is over, or the connection broke.
FailsOnlyIfNone == failed = "all" => works = {}

\* A signal reaches the process the user chose or is refused with a true reason, and a list
\* fails only for want of a strategy (Signal, validateSignalTarget, List).
SignalsAreSafe ==
  TypeOK /\ SignalsTheChosen /\ ProtectedIsSpared /\ RefusedHasChanged /\ SentIsReceived /\ FailsOnlyIfNone

=============================================================================
