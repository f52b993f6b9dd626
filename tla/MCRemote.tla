------------------------------- MODULE MCRemote -------------------------------
(***************************************************************************)
(* What the window follows and does on a server, one component at a time:  *)
(* the components share no state, so a behaviour is one of the component   *)
(* that `part` names, and v1, v2, ... are the variables of this component. *)
(***************************************************************************)
EXTENDS Naturals, TLC

CONSTANTS
  Pair,                  \* streams, calls, containers and keys
  MaxStops, MaxCalls,    \* of RemoteWatches
  MaxFailures,           \* of SshClient
  Units, Protected, MaxBegun,  \* of ServiceControl
  MaxChanges, MaxAsked,  \* of DockerContainers
  MaxAlerts, MaxSessions, MaxPending, MaxLimit,  \* of AlertHistory
  MaxTasks, MaxKept, MaxLines,  \* of NetworkDiagnostics
  Callers, Pids, InitPid, None

\* None is told apart from what a variable that may be None holds.
ASSUME NameAssumption ==
  None \notin Pair \cup Units \cup {"log", "stats", "process", "journal", "systemd", "procd",
                                  "all", "sent", "changed", "protected"}
ASSUME UnitAssumption == Units \cap Pair = {}
ASSUME BoundAssumption == MaxFailures \in Nat \ {0} /\ MaxStops \in Nat

VARIABLES part, v1, v2, v3, v4, v5, v6, v7, v8, v9, v10, v11, v12, v13, v14

Symmetry == Permutations(Pair)

\* A program whose comm is its name, one whose comm was cut off, and a kernel thread.
Programs == {[comm |-> "sh", name |-> "sh", kernel |-> FALSE], [comm |-> "long", name |-> "longname", kernel |-> FALSE],
             [comm |-> "sh", name |-> "sh", kernel |-> TRUE]}

Watches == INSTANCE RemoteWatches WITH
  Ids <- Pair, MaxStops <- MaxStops, MaxCalls <- MaxCalls,
  kind <- v1, phase <- v2, transport <- v3, gen <- v4, registered <- v5, scope <- v6,
  generation <- v7, active <- v8, answer <- v9, calls <- v10, told <- v11, missed <- v12,
  crossed <- v13, overtaken <- v14

Docker == INSTANCE DockerContainers WITH
  Containers <- Pair, Calls <- Callers, MaxChanges <- MaxChanges, MaxBegun <- MaxAsked,
  loose <- v1, remote <- v2, call <- v3, connected <- v4, available <- v5, listed <- v6,
  begun <- v7, changes <- v8, touched <- v9, excused <- v10, late <- v11

ASSUME ContainerAssumption ==
  None \notin Docker!Verdicts /\ \A cs \in SUBSET Pair : None \notin Docker!CallRecord(cs)

Services == INSTANCE ServiceControl WITH
  Units <- Units, Protected <- Protected, Calls <- Pair, MaxBegun <- MaxBegun,
  init <- v1, remote <- v2, call <- v3, operations <- v4, cache <- v5, shown <- v6, begun <- v7,
  misled <- v8, touched <- v9

Processes == INSTANCE ProcessControl WITH
  Pids <- Pids, InitPid <- InitPid, MaxBorn <- 2,
  works <- v1, table <- v2, born <- v3, listing <- v4, rows <- v5, signal <- v6, hit <- v7,
  failed <- v8, answer <- v9

ASSUME HitAssumption == None \notin Processes!Hit

Ssh == INSTANCE SshClient WITH
  Keys <- Pair, MaxFailures <- MaxFailures,
  policy <- v1, enabled <- v2, stored <- v3, hostKey <- v4, known <- v5, observed <- v6,
  client <- v7, link <- v8, ctx <- v9, ka <- v10, told <- v11, missed <- v12, failures <- v13,
  run <- v14

\* One session with calls that overlap, or some sessions and limits with one call at a time.
Alerts(Starts, Waiting, Limits) == INSTANCE AlertHistory WITH
  MaxAlerts <- MaxAlerts, MaxSessions <- Starts, MaxPending <- Waiting,
  rows <- v1, view <- v2, firing <- v3, session <- v4, opening <- v5, listed <- v6,
  pending <- v7, raised <- v8, clock <- v9, limit <- v10, peak <- v11, seen <- v12,
  crossed <- v13

ASSUME AlertBounds == MaxAlerts \in Nat /\ MaxSessions \in Nat \ {0} /\ MaxLimit \in Nat \ {0}
ASSUME AlertAssumption ==
  /\ None \notin Alerts(MaxSessions, 1, 1..MaxLimit)!Row
  /\ None \notin Alerts(MaxSessions, 1, 1..MaxLimit)!Shown

\* One diagnostic that two calls cancel, or some in a row with a history of MaxKept.
Diagnostics(Tasks, Calls, MaxLists) == INSTANCE NetworkDiagnostics WITH
  Keep <- MaxKept, LineLimit <- MaxLines, MaxActive <- 1,
  task <- v1, stored <- v2, link <- v3, call <- v4, shown <- v5, answers <- v6, listing <- v7,
  lists <- v8, told <- v9, overtaken <- v10

\* What stands for no diagnostic and for no call is neither.
ASSUME KeptAssumption == MaxTasks \in Nat \ {0} /\ MaxKept \in Nat \ {0} /\ MaxLines \in Nat
ASSUME DiagnosticAssumption ==
  /\ None \notin 1..MaxTasks
  /\ None \notin Diagnostics(1..MaxTasks, Pair, 0)!TaskRecord
  /\ None \notin Diagnostics(1..MaxTasks, Pair, 0)!CallRecord

Text == INSTANCE RemoteText WITH
  MaxVersion <- 3, MaxGen <- 2, MaxSaves <- 2,
  mode <- v1, file <- v2, tmp <- v3, link <- v4, gen <- v5, view <- v6, draft <- v7,
  baseline <- v8, reading <- v9, save <- v10, made <- v11, excuse <- v12

\* A directory d with a directory s, a file s/b and a link l to the directory o, and o/x.
Delete == INSTANCE RemoteDelete WITH
  Nodes <- {"d", "s", "b", "l", "o", "x"},
  Above <- [d |-> {}, s |-> {"d"}, b |-> {"d", "s"}, l |-> {"d"}, o |-> {}, x |-> {"o"}],
  Kind <- [d |-> "dir", s |-> "dir", b |-> "file", l |-> "link", o |-> "dir", x |-> "file"],
  Target <- [l |-> "o"], Unsafe <- {"x"}, MaxChanges <- 1,
  mode <- v1, tree <- v2, phase <- v3, asked <- v4, todo <- v5, targets <- v6, stack <- v7,
  told <- v8, listed <- v9, added <- v10, removed <- v11, changes <- v12, fault <- v13

vars == <<part, v1, v2, v3, v4, v5, v6, v7, v8, v9, v10, v11, v12, v13, v14>>

Init ==
  \/ part = "watches" /\ Watches!Init
  \/ part = "containers" /\ Docker!Init /\ v12 = None /\ v13 = None /\ v14 = None
  \/ part = "services" /\ Services!Init /\ v10 = None /\ v11 = None /\ v12 = None /\ v13 = None /\ v14 = None
  \/ part = "processes" /\ Processes!Init /\ v10 = None /\ v11 = None /\ v12 = None /\ v13 = None /\ v14 = None
  \/ part = "ssh" /\ Ssh!Init
  \/ part = "alerts" /\ Alerts(1, MaxPending, {1})!Init /\ v14 = None
  \/ part = "sessions" /\ Alerts(MaxSessions, 1, 1..MaxLimit)!Init /\ v14 = None
  \/ part = "diagnostics" /\ Diagnostics(1..1, Pair, 1)!Init /\ v11 = None /\ v12 = None /\ v13 = None /\ v14 = None
  \/ part = "diagnosed" /\ Diagnostics(1..MaxTasks, {}, 0)!Init /\ v11 = None /\ v12 = None /\ v13 = None /\ v14 = None
  \/ part = "text" /\ Text!Init /\ v13 = None /\ v14 = None
  \/ part = "delete" /\ Delete!Init /\ v14 = None

Next ==
  \/ part = "watches" /\ Watches!Next /\ UNCHANGED part
  \/ part = "containers" /\ Docker!Next /\ UNCHANGED <<part, v12, v13, v14>>
  \/ part = "services" /\ Services!Next /\ UNCHANGED <<part, v10, v11, v12, v13, v14>>
  \/ part = "processes" /\ Processes!Next /\ UNCHANGED <<part, v10, v11, v12, v13, v14>>
  \/ part = "ssh" /\ Ssh!Next /\ UNCHANGED part
  \/ part = "alerts" /\ Alerts(1, MaxPending, {1})!Next /\ UNCHANGED <<part, v14>>
  \/ part = "sessions" /\ Alerts(MaxSessions, 1, 1..MaxLimit)!Next /\ UNCHANGED <<part, v14>>
  \/ part = "diagnostics" /\ Diagnostics(1..1, Pair, 1)!Next /\ UNCHANGED <<part, v11, v12, v13, v14>>
  \/ part = "diagnosed" /\ Diagnostics(1..MaxTasks, {}, 0)!Next /\ UNCHANGED <<part, v11, v12, v13, v14>>
  \/ part = "text" /\ Text!Next /\ UNCHANGED <<part, v13, v14>>
  \/ part = "delete" /\ Delete!Next /\ UNCHANGED <<part, v14>>

Spec == Init /\ [][Next]_vars

-----------------------------------------------------------------------------

\* A watch that runs is registered and known to the window, one that ended is not shown as
\* running, and StopServer leaves none but one that was being started (StartWatch, StopServer).
WatchesAreKnown == part = "watches" => Watches!WatchesAreKnown

\* The result of every container is what the daemon did, and the list shows the containers as
\* they are (batchContainerCommand, List).
ContainersAreTrue == part = "containers" => Docker!ContainersAreTrue

\* Operations on a unit exclude each other and can be cancelled, and what is known and offered
\* of the services is true (beginExclusiveAction, detectCapability, StopServer).
ServicesAreSound == part = "services" => Services!ServicesAreSound

\* A signal reaches the process that was chosen or is refused with a true reason, though PIDs
\* are reused (Signal, validateSignalTarget).
SignalsAreSafe == part = "processes" => Processes!SignalsAreSafe

\* A connection is given up only after enough failures, is watched while somebody waits on it,
\* and is opened to a known host under the strict policy (runKeepalive, Run, verifyHostKey).
ConnectionIsWatched == part = "ssh" => Ssh!ConnectionIsWatched

\* Alerts in the window and in the store agree, firing and read ones are kept and ended ones
\* bounded, across restarts (UpsertAlertHistoryEvent, pruneAlertHistoryTx, mergeHistory).
AlertsAreStored ==
  /\ part = "alerts" => Alerts(1, MaxPending, {1})!AlertsAreStored
  /\ part = "sessions" => Alerts(MaxSessions, 1, 1..MaxLimit)!AlertsAreStored

\* A diagnostic ends once, with the status of what happened, no stop leaves one running, and
\* the newest are kept and shown (runNetworkDiagnostic, cancelDiagnosticTask, pruneDiagnosticsLocked).
DiagnosticsAreTrue ==
  /\ part = "diagnostics" => Diagnostics(1..1, Pair, 1)!DiagnosticsAreTrue
  /\ part = "diagnosed" => Diagnostics(1..MaxTasks, {}, 0)!DiagnosticsAreTrue

\* A save loses no change by others, leaves a whole file and no temporary one, and a deletion
\* removes what was shown and nothing else (WriteTextFile, InspectDelete, Delete).
FilesAreSafe ==
  (part = "text" => Text!TextsAreSafe) /\ (part = "delete" => Delete!DeletesAreExact)
=============================================================================
