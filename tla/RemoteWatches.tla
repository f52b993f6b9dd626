---------------------------- MODULE RemoteWatches ----------------------------
(***************************************************************************)
(* What the managers of Docker, processes and services follow on a server: *)
(* container logs and statistics (dockermanager), the process list         *)
(* (processmanager) and the journal of a unit (servicemanager), each over  *)
(* a connection of its own, with the record the window keeps of it (the    *)
(* stores docker.ts, processes.ts and services.ts).  One server, one       *)
(* container and one unit: the kind of a watch is its key in the window.   *)
(* The stops that a manager makes under its lock are one step with the     *)
(* closing that follows: nobody else can find the watch in between.        *)
(***************************************************************************)
EXTENDS Naturals, FiniteSets

CONSTANTS Ids,       \* stream and watch ids, never used twice
          MaxStops,  \* bound: calls of StopServer
          MaxCalls,  \* bound: stops the window is waiting for
          None

VARIABLES
  kind,        \* watch -> Kinds, or None
  phase,       \* watch -> "unused", "dialing", "opened", "running", "held" or "over"
  transport,   \* watch -> "none", "open" or "closed"
  gen,         \* watch -> the generation read when it was created
  registered,  \* logStreams, statsWatchers, watchers and journalWatchers
  scope,       \* journalByScope: the watch of the unit, or None
  generation,  \* serverGeneration of the managers
  active,      \* window: kind -> activeLogStreams, ..., activeJournalWatchesByKey
  answer,      \* watch -> the answer to its start: "none", "sent" or "taken"
  calls,       \* window: stops it waits for, [kinds, ids]
  told,        \* watch -> completed events of a journal
  missed,      \* history: watches that were being started during a StopServer
  crossed,     \* history: watches whose calls overlapped with others of their kind
  overtaken    \* history: watches that ended before the answer to their start

managed == <<kind, phase, transport, gen, registered, scope, generation>>
window == <<active, answer, calls>>
history == <<told, missed, crossed, overtaken>>
vars == <<managed, window, history>>

Kinds == {"log", "stats", "process", "journal"}
Phases == {"unused", "dialing", "opened", "running", "held", "over"}

TypeOK ==
  /\ kind \in [Ids -> Kinds \cup {None}]
  /\ phase \in [Ids -> Phases]
  /\ transport \in [Ids -> {"none", "open", "closed"}]
  /\ gen \in [Ids -> 0..MaxStops] /\ generation \in 0..MaxStops
  /\ registered \subseteq {i \in Ids : phase[i] \in {"running", "held"}}
  /\ scope \in registered \cup {None}
  /\ active \in [Kinds -> Ids \cup {None}]
  /\ answer \in [Ids -> {"none", "sent", "taken"}]
  /\ \A i \in Ids : told[i] \in Nat

Init ==
  /\ kind = [i \in Ids |-> None] /\ phase = [i \in Ids |-> "unused"]
  /\ transport = [i \in Ids |-> "none"] /\ gen = [i \in Ids |-> 0]
  /\ registered = {} /\ scope = None /\ generation = 0
  /\ active = [k \in Kinds |-> None] /\ answer = [i \in Ids |-> "none"] /\ calls = {}
  /\ told = [i \in Ids |-> 0] /\ missed = {} /\ crossed = {} /\ overtaken = {}

Starting(k) == {i \in Ids : kind[i] = k /\ (phase[i] \in {"dialing", "opened"} \/ answer[i] = "sent")}
Stopping(k) == {c \in calls : k \in c.kinds}
Known(k) == {i \in Ids : kind[i] = k /\ phase[i] # "over"}

\* The window learns that the watches `ended` are over; it forgets those it has.
Hears(ended) == active' = [k \in Kinds |-> IF active[k] \in ended THEN None ELSE active[k]]

-----------------------------------------------------------------------------
\* startLogStream, startStatsWatch, startWatch and startJournalFollow of the window: the
\* first two do nothing while there is a watch, the others stop it first.
Request(i, k) ==
  /\ phase[i] = "unused" /\ active[k] = None
  /\ kind' = [kind EXCEPT ![i] = k]
  /\ phase' = [phase EXCEPT ![i] = "dialing"]
  /\ crossed' = IF Starting(k) # {} \/ Stopping(k) # {} THEN crossed \cup Known(k) \cup {i} ELSE crossed
  /\ UNCHANGED <<transport, gen, registered, scope, generation, window, told, missed, overtaken>>

\* The call fails: dial, or ...
DialFails(i) ==
  /\ phase[i] = "dialing"
  /\ phase' = [phase EXCEPT ![i] = "over"]
  /\ UNCHANGED <<kind, transport, gen, registered, scope, generation, window, history>>

\* ... the command of a stream, in every format and with sudo: startJournalStreaming.
CommandFails(i) ==
  /\ phase[i] = "dialing" /\ kind[i] \in {"log", "journal"}
  /\ transport' = [transport EXCEPT ![i] = "closed"]
  /\ phase' = [phase EXCEPT ![i] = "over"]
  /\ UNCHANGED <<kind, gen, registered, scope, generation, window, history>>

\* open, the command, and last the generation.
Opens(i) ==
  /\ phase[i] = "dialing"
  /\ transport' = [transport EXCEPT ![i] = "open"]
  /\ phase' = [phase EXCEPT ![i] = "opened"]
  /\ gen' = [gen EXCEPT ![i] = generation]
  /\ UNCHANGED <<kind, registered, scope, generation, window, history>>

Added(i) ==
  /\ phase[i] = "opened"
  /\ phase' = [phase EXCEPT ![i] = "running"]
  /\ answer' = [answer EXCEPT ![i] = "sent"]
  /\ UNCHANGED <<kind, gen, generation, calls, missed, crossed>>

\* The last steps of StartLogStream, ...
StartLogStream(i) ==
  /\ kind[i] = "log" /\ Added(i)
  /\ registered' = registered \cup {i}
  /\ UNCHANGED <<transport, scope, active, told, overtaken>>

StartStatsWatch(i) ==
  /\ kind[i] = "stats" /\ Added(i)
  /\ registered' = registered \cup {i}
  /\ UNCHANGED <<transport, scope, active, told, overtaken>>

StartWatch(i) ==
  /\ kind[i] = "process" /\ Added(i)
  /\ registered' = registered \cup {i}
  /\ UNCHANGED <<transport, scope, active, told, overtaken>>

\* registerJournalWatcher: one follow per unit, the one before is stopped.
registerJournalWatcher(i) ==
  LET previous == {scope} \ {None}
  IN  /\ registered' = (registered \ previous) \cup {i}
      /\ scope' = i
      /\ transport' = [j \in Ids |-> IF j \in previous THEN "closed" ELSE transport[j]]
      /\ told' = [j \in Ids |-> told[j] + (IF j \in previous THEN 1 ELSE 0)]
      /\ overtaken' = overtaken \cup {j \in previous : answer[j] = "sent"}
      /\ Hears(previous)

StartJournalFollow(i) == kind[i] = "journal" /\ Added(i) /\ registerJournalWatcher(i)

-----------------------------------------------------------------------------
\* A watch whose loop ends closes its connection and takes itself out of the map.
Gone(i) ==
  /\ phase' = [phase EXCEPT ![i] = "over"]
  /\ transport' = [transport EXCEPT ![i] = "closed"]
  /\ registered' = registered \ {i}
  /\ overtaken' = IF answer[i] = "sent" THEN overtaken \cup {i} ELSE overtaken
  /\ UNCHANGED <<kind, gen, generation, answer, calls, missed, crossed>>

\* runLogStream: the lines end, with the command or with the connection.
LogEnds(i) ==
  /\ kind[i] = "log" /\ phase[i] \in {"running", "held"}
  /\ Gone(i) /\ UNCHANGED <<scope, active, told>>

\* runStatsWatch: the first sample that fails ends it; the window is told of an error only.
StatsEnd(i) ==
  /\ kind[i] = "stats" /\ phase[i] = "running"
  /\ Gone(i) /\ UNCHANGED <<scope, active, told>>

\* runWatch: errors are told and the watch goes on; it ends when it is stopped or finds
\* that it is not isCurrent, and says so.
WatchEnds(i) ==
  /\ kind[i] = "process" /\ phase[i] = "running"
  /\ i \notin registered \/ gen[i] # generation
  /\ Gone(i) /\ Hears({i}) /\ UNCHANGED <<scope, told>>

\* Faulty variant: whoever stopped the follow, its end is told.
JournalEndsLoudly(i) ==
  /\ kind[i] = "journal" /\ phase[i] \in {"running", "held"}
  /\ Gone(i)
  /\ scope' = IF i \in registered THEN None ELSE scope
  /\ told' = [told EXCEPT ![i] = @ + 1]
  /\ Hears({i})

\* runJournalWatcher: removeJournalWatcher first, and only who is still in the map tells.
JournalEnds(i) ==
  /\ kind[i] = "journal" /\ phase[i] \in {"running", "held"}
  /\ Gone(i)
  /\ IF i \in registered
       THEN scope' = None /\ told' = [told EXCEPT ![i] = @ + 1] /\ Hears({i})
       ELSE UNCHANGED <<scope, told, active>>

\* A line is longer than the buffer of the scanner: the stream waits, silent, for the end
\* of a command whose output nobody reads.
TooLong(i) ==
  /\ kind[i] \in {"log", "journal"} /\ phase[i] = "running"
  /\ phase' = [phase EXCEPT ![i] = "held"]
  /\ UNCHANGED <<kind, transport, gen, registered, scope, generation, window, history>>

-----------------------------------------------------------------------------
\* StopLogStream, StopStatsWatch, StopWatch and StopJournalFollow: a watch that is not in
\* the map is left alone.
Stopped(i) ==
  /\ registered' = registered \ {i}
  /\ transport' = IF i \in registered THEN [transport EXCEPT ![i] = "closed"] ELSE transport
  /\ scope' = IF scope = i THEN None ELSE scope
  /\ told' = IF i \in registered /\ kind[i] = "journal" THEN [told EXCEPT ![i] = @ + 1] ELSE told
  /\ IF i \in registered /\ kind[i] = "journal" THEN Hears({i}) ELSE UNCHANGED active

\* StopServer of the three managers, which DisconnectServer calls one after the other: a
\* watch that is being started is in no map yet.
StopServer ==
  /\ generation < MaxStops
  /\ generation' = generation + 1
  /\ LET journals == {i \in registered : kind[i] = "journal"}
     IN  /\ told' = [i \in Ids |-> told[i] + (IF i \in journals THEN 1 ELSE 0)]
         /\ active' = [k \in Kinds |-> IF k = "process" \/ active[k] \in journals THEN None ELSE active[k]]
  /\ registered' = {} /\ scope' = None
  /\ transport' = [i \in Ids |-> IF i \in registered THEN "closed" ELSE transport[i]]
  /\ missed' = missed \cup {i \in Ids : phase[i] \in {"dialing", "opened"}}
  /\ overtaken' = overtaken \cup {i \in registered : answer[i] = "sent"}
  /\ UNCHANGED <<kind, phase, gen, answer, calls, crossed>>

-----------------------------------------------------------------------------
\* The answer to a start replaces what the window has.
Answer(i) ==
  /\ answer[i] = "sent"
  /\ answer' = [answer EXCEPT ![i] = "taken"]
  /\ active' = [active EXCEPT ![kind[i]] = i]
  /\ UNCHANGED <<managed, calls, history>>

Groups == {{"log", "stats"}} \cup {{k} : k \in Kinds}

\* The window stops one watch, or with stopServerRuntime all those of a dialog.
AskStop(ks) ==
  LET ids == {active[k] : k \in ks} \ {None}
  IN  /\ ids # {} /\ Cardinality(calls) < MaxCalls
      /\ \A c \in calls : c.kinds \cap ks = {}
      /\ calls' = calls \cup {[kinds |-> ks, ids |-> ids]}
      /\ crossed' = crossed \cup UNION {Known(k) : k \in {l \in ks : Starting(l) # {}}}
      /\ UNCHANGED <<managed, active, answer, told, missed, overtaken>>

\* One of its calls reaches the manager.
StopCall(c) ==
  \E i \in c.ids :
    /\ Stopped(i)
    /\ calls' = (calls \ {c}) \cup {[c EXCEPT !.ids = @ \ {i}]}
    /\ UNCHANGED <<kind, phase, gen, generation, answer, missed, crossed, overtaken>>

\* All of them have answered: what the window has of these kinds is deleted.
StopAnswered(c) ==
  /\ c.ids = {}
  /\ calls' = calls \ {c}
  /\ active' = [k \in Kinds |-> IF k \in c.kinds THEN None ELSE active[k]]
  /\ UNCHANGED <<managed, answer, history>>

Next ==
  \/ \E i \in Ids :
       \/ \E k \in Kinds : Request(i, k)
       \/ DialFails(i) \/ CommandFails(i) \/ Opens(i)
       \/ StartLogStream(i) \/ StartStatsWatch(i) \/ StartWatch(i) \/ StartJournalFollow(i)
       \/ LogEnds(i) \/ StatsEnd(i) \/ WatchEnds(i) \/ JournalEnds(i) \/ TooLong(i)
       \/ Answer(i)
  \/ StopServer
  \/ \E ks \in Groups : AskStop(ks)
  \/ \E c \in calls : StopCall(c) \/ StopAnswered(c)

Spec == Init /\ [][Next]_vars

-----------------------------------------------------------------------------
\* An open connection belongs to a start under way or to a watch in a map: no error, stop
\* or replacement leaves one that nobody can close.
NoLeakedTransport ==
  \A i \in Ids : transport[i] = "open" => phase[i] = "opened" \/ i \in registered

\* A watch that goes on after StopServer was started before and came into the map after it.
StopServerEnds == \A i \in registered : i \in missed \/ gen[i] = generation

\* A unit is followed once, and the journal that is found by unit is the one in the map.
OneFollow == \A i \in registered : kind[i] = "journal" => scope = i

\* The end of a journal is told once, by whoever took it out of the map.
EndIsToldOnce ==
  \A i \in Ids : kind[i] = "journal" /\ answer[i] # "none" => (told[i] = 1) = (i \notin registered)

\* A watch that runs is one that the window has, unless its calls crossed with others of
\* the same kind: nothing keeps on in the background.
RunningIsKnown ==
  \A i \in registered \ crossed :
    answer[i] = "taken" => active[kind[i]] = i

\* A process list or journal that the window has still runs, unless it ended before the
\* answer to its start.  Of containers the window never hears that a watch ended.
FollowedRuns ==
  \A k \in {"process", "journal"} :
    active[k] # None => phase[active[k]] # "over" \/ active[k] \in overtaken

\* Streams and watches, the window that shows them and StopServer agree on what runs
\* (StartLogStream, StartWatch, registerJournalWatcher, StopServer).
WatchesAreKnown ==
  TypeOK /\ NoLeakedTransport /\ StopServerEnds /\ OneFollow /\ EndIsToldOnce /\ RunningIsKnown /\ FollowedRuns

=============================================================================
