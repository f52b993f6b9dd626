----------------------------- MODULE RemoteProofs -----------------------------
(***************************************************************************)
(* Proofs about what the window follows and does on a server, side by side *)
(* as in MCRemote, for any names and bounds: the connection of a call and  *)
(* its keepalive (SshClient), the streams and watches (RemoteWatches), the *)
(* containers (DockerContainers), the system services (ServiceControl),    *)
(* the process list with the signals sent from it (ProcessControl), the    *)
(* diagnostics of the server (NetworkDiagnostics), and the history of the  *)
(* alerts (AlertHistory).                                                  *)
(***************************************************************************)
EXTENDS MCRemote, FiniteSetTheorems, Sequences, TLAPS

\* The variables of MCRemote, by the names that they have in the components.
kind == v1
policy == v1
init == v1
phase == v2
enabled == v2
remote == v2
transport == v3
stored == v3
call == v3
gen == v4
hostKey == v4
operations == v4
registered == v5
known == v5
cache == v5
scope == v6
observed == v6
shown == v6
generation == v7
client == v7
begun == v7
active == v8
link == v8
misled == v8
answer == v9
ctx == v9
touched == v9
calls == v10
ka == v10
told == v11
missed == v12
crossed == v13
failures == v13
overtaken == v14
run == v14
works == v1
table == v2
born == v3
listing == v4
rows == v5
signal == v6
hit == v7
failed == v8

USE DEF kind, policy, init, phase, enabled, remote, transport, stored, call, gen,
        hostKey, operations, registered, known, cache, scope, observed, shown,
        generation, client, begun, active, link, misled, answer, ctx, touched, calls,
        ka, told, missed, crossed, failures, overtaken, run, works, table, born, listing, rows,
        signal, hit, failed

----------------------------------------------------------------------------
\* A call over a connection of its own.

\* The keepalive counts no more than what went unanswered, and tells of a failure last.
CountInv ==
  /\ failures \in Nat /\ missed \in Nat /\ failures <= missed /\ missed <= MaxFailures
  /\ told => client = "closed" /\ ka = "ended" /\ missed = MaxFailures

\* The command starts on an open connection, with the keepalive.
BeginInv ==
  /\ run = "none" => ka = "off" /\ failures = 0
  /\ run # "none" => client \in {"open", "closed"}

SshInv == Ssh!ConnectionIsWatched /\ CountInv /\ BeginInv /\ hostKey \in Pair

\* Every step keeps the invariant.
LEMMA SshStep ==
  ASSUME SshInv, [Ssh!Next]_(Ssh!vars)
  PROVE  SshInv'
<1> USE NameAssumption, BoundAssumption DEF SshInv, Ssh!ConnectionIsWatched, Ssh!TypeOK, Ssh!FailureIsDeserved,
        Ssh!WaitingIsWatched,
        Ssh!StrictIsKnown, CountInv, BeginInv, Ssh!Running, Ssh!dialVars
<1>1. CASE UNCHANGED Ssh!vars
  BY <1>1 DEF Ssh!vars
<1>2. CASE Ssh!HostChanges
  BY <1>2 DEF Ssh!HostChanges
<1>3. CASE Ssh!Dials
  BY <1>3 DEF Ssh!Dials
<1>4. CASE Ssh!Handshake
  BY <1>4 DEF Ssh!Handshake, Ssh!Accepts
<1>5. CASE Ssh!Begins
  BY <1>5 DEF Ssh!Begins
<1>6. ASSUME NEW l \in {"up", "silent", "broken"}, Ssh!LinkChanges(l) PROVE SshInv'
  BY <1>6 DEF Ssh!LinkChanges
<1>7. CASE Ssh!KeepaliveAsks
  BY <1>7 DEF Ssh!KeepaliveAsks
<1>8. CASE Ssh!Replied
  BY <1>8 DEF Ssh!Replied
<1>9. CASE Ssh!RequestErrs
  BY <1>9 DEF Ssh!RequestErrs, Ssh!fail
<1>10. CASE Ssh!TimesOut
  BY <1>10 DEF Ssh!TimesOut, Ssh!fail
<1>11. CASE Ssh!KeepaliveStops
  BY <1>11 DEF Ssh!KeepaliveStops
<1>12. CASE Ssh!SessionOpens
  BY <1>12 DEF Ssh!SessionOpens
<1>13. CASE Ssh!RunEnds
  BY <1>13 DEF Ssh!RunEnds
<1>14. CASE Ssh!ContextEnds
  BY <1>14 DEF Ssh!ContextEnds
<1>15. CASE Ssh!Drains
  BY <1>15 DEF Ssh!Drains
<1>16. CASE Ssh!Drained
  BY <1>16 DEF Ssh!Drained
<1>17. CASE Ssh!Closes
  BY <1>17 DEF Ssh!Closes
<1>18. QED
  BY <1>1, <1>2, <1>3, <1>4, <1>5, <1>6, <1>7, <1>8, <1>9, <1>10, <1>11, <1>12, <1>13, <1>14, <1>15,
     <1>16, <1>17 DEF Ssh!Next

\* A connection is opened under the strict policy to a known host only, watched while a command
\* waits on it, and given up after MaxFailures failures in a row (verifyHostKey, runKeepalive).
THEOREM ConnectionWatched == Spec => []ConnectionIsWatched
<1> DEFINE Inv == part = "ssh" => SshInv
<1>1. Init => Inv
  <2>1. Ssh!Init => SshInv
    BY NameAssumption, BoundAssumption DEF Ssh!Init, SshInv, Ssh!ConnectionIsWatched, Ssh!TypeOK,
       Ssh!FailureIsDeserved, Ssh!WaitingIsWatched, Ssh!StrictIsKnown, CountInv, BeginInv, Ssh!Running
  <2>2. QED
    BY <2>1 DEF Init
<1>2. Inv /\ [Next]_vars => Inv'
  <2>1. [Next]_vars /\ part' = "ssh" => part = "ssh" /\ [Ssh!Next]_(Ssh!vars)
    BY DEF Next, vars, Ssh!vars
  <2>2. QED
    BY <2>1, SshStep
<1>3. Inv => ConnectionIsWatched
  BY DEF ConnectionIsWatched, SshInv
<1>4. QED
  BY <1>1, <1>2, <1>3, PTL DEF Spec

----------------------------------------------------------------------------
\* Streams and watches.

\* The bound is a number; None is no id and no kind.
WatchConstants == MaxStops \in Nat /\ None \notin Pair \cup Watches!Kinds

WatchFields ==
  /\ kind \in [Pair -> Watches!Kinds \cup {None}]
  /\ phase \in [Pair -> Watches!Phases]
  /\ transport \in [Pair -> {"none", "open", "closed"}]
  /\ gen \in [Pair -> 0..MaxStops] /\ generation \in 0..MaxStops
  /\ active \in [Watches!Kinds -> Pair \cup {None}]
  /\ answer \in [Pair -> {"none", "sent", "taken"}]
  /\ told \in [Pair -> Nat]

\* A map holds watches that run.
MapInv ==
  /\ registered \subseteq {i \in Pair : phase[i] \in {"running", "held"}}
  /\ scope \in registered \cup {None}

CallTypes == calls \subseteq [kinds : SUBSET Watches!Kinds, ids : SUBSET Pair]

WatchTypes == WatchConstants /\ WatchFields /\ MapInv /\ CallTypes

\* A watch has a kind once it is asked for, and an answer once it is registered.
PhaseInv ==
  \A i \in Pair :
    /\ phase[i] = "unused" <=> kind[i] = None
    /\ phase[i] \in {"unused", "dialing", "opened"} => answer[i] = "none"
    /\ phase[i] \in {"running", "held"} => answer[i] # "none"

\* A watch that is being started has read the generation of the last StopServer, or missed it.
StartedInv ==
  \A i \in Pair : phase[i] = "opened" \/ i \in registered => i \in missed \/ gen[i] = generation

\* The journal that is found by unit is the one in the map.
ScopeInv ==
  /\ Watches!OneFollow
  /\ scope # None => scope \in registered /\ kind[scope] = "journal"

\* The end of a journal is told when it leaves the map.
ToldInv ==
  \A i \in Pair :
    told[i] = IF kind[i] = "journal" /\ answer[i] # "none" /\ i \notin registered THEN 1 ELSE 0

\* A watch that can be, or become, registered, and one whose answer is still to come.
Live(i) == phase[i] \in {"dialing", "opened"} \/ i \in registered
Begun(i) == phase[i] \in {"dialing", "opened"} \/ answer[i] = "sent"

\* Two watches of a kind that are live at the same time have crossed if one is being started.
AloneInv ==
  \A i, j \in Pair : i # j /\ kind[i] = kind[j] /\ Begun(i) /\ Live(j) => j \in crossed

\* A stop asks for every watch of its kinds that did not cross it.
StopInv ==
  \A c \in calls, i \in Pair :
    kind[i] \in c.kinds /\ Live(i) /\ i \notin crossed => i \in registered /\ answer[i] = "taken" /\ i \in c.ids

\* What the window has was answered, and is of the kind it is filed under ...
FiledInv ==
  /\ \A k \in Watches!Kinds : active[k] # None => kind[active[k]] = k /\ answer[active[k]] = "taken"
  /\ \A c \in calls : \A i \in c.ids : answer[i] = "taken"

\* ... and what leaves the map before its answer is taken is remembered as overtaken.
OvertakenInv ==
  /\ \A i \in Pair : answer[i] = "sent" => i \in registered \/ i \in overtaken
  /\ active["journal"] # None => active["journal"] \in registered \/ active["journal"] \in overtaken
  /\ active["process"] # None => phase[active["process"]] # "over" \/ active["process"] \in overtaken

WatchInv ==
  /\ WatchTypes /\ PhaseInv /\ Watches!NoLeakedTransport /\ StartedInv /\ ScopeInv /\ ToldInv
  /\ AloneInv /\ Watches!RunningIsKnown /\ StopInv /\ FiledInv /\ OvertakenInv

\* Every step keeps the types ...
LEMMA FieldsStep ==
  ASSUME WatchTypes, WatchFields, [Watches!Next]_(Watches!vars)
  PROVE  WatchFields'
<1>0. /\ kind \in [Pair -> Watches!Kinds \cup {None}]
      /\ phase \in [Pair -> Watches!Phases]
      /\ transport \in [Pair -> {"none", "open", "closed"}]
      /\ gen \in [Pair -> 0..MaxStops] /\ generation \in 0..MaxStops
      /\ active \in [Watches!Kinds -> Pair \cup {None}]
      /\ answer \in [Pair -> {"none", "sent", "taken"}]
      /\ told \in [Pair -> Nat]
      /\ MaxStops \in Nat /\ None \notin Pair
      /\ calls \subseteq [kinds : SUBSET Watches!Kinds, ids : SUBSET Pair]
  BY DEF WatchTypes, WatchConstants, WatchFields, MapInv, CallTypes
<1>1. CASE UNCHANGED <<kind, phase, transport, gen, generation, active, answer, told>>
  BY <1>0, <1>1 DEF WatchFields, Watches!Phases
<1>2. ASSUME NEW i \in Pair, NEW k \in Watches!Kinds, Watches!Request(i, k) PROVE WatchFields'
  BY <1>0, <1>2
    DEF Watches!Request, WatchFields, Watches!Phases, Watches!managed, Watches!window,
      Watches!history
<1>3. ASSUME NEW i \in Pair, Watches!DialFails(i) PROVE WatchFields'
  BY <1>0, <1>3
    DEF Watches!DialFails, WatchFields, Watches!Phases, Watches!managed, Watches!window,
      Watches!history
<1>4. ASSUME NEW i \in Pair, Watches!CommandFails(i) PROVE WatchFields'
  BY <1>0, <1>4
    DEF Watches!CommandFails, WatchFields, Watches!Phases, Watches!managed, Watches!window,
      Watches!history
<1>5. ASSUME NEW i \in Pair, Watches!Opens(i) PROVE WatchFields'
  BY <1>0, <1>5
    DEF Watches!Opens, WatchFields, Watches!Phases, Watches!managed, Watches!window, Watches!history
<1>6. ASSUME NEW i \in Pair, Watches!StartLogStream(i) PROVE WatchFields'
  BY <1>0, <1>6
    DEF Watches!StartLogStream, Watches!Added, WatchFields, Watches!Phases, Watches!managed,
      Watches!window, Watches!history
<1>7. ASSUME NEW i \in Pair, Watches!StartStatsWatch(i) PROVE WatchFields'
  BY <1>0, <1>7
    DEF Watches!StartStatsWatch, Watches!Added, WatchFields, Watches!Phases, Watches!managed,
      Watches!window, Watches!history
<1>8. ASSUME NEW i \in Pair, Watches!StartWatch(i) PROVE WatchFields'
  BY <1>0, <1>8
    DEF Watches!StartWatch, Watches!Added, WatchFields, Watches!Phases, Watches!managed,
      Watches!window, Watches!history
<1>9. ASSUME NEW i \in Pair, Watches!StartJournalFollow(i) PROVE WatchFields'
  BY <1>0, <1>9
    DEF Watches!StartJournalFollow, Watches!Added, Watches!registerJournalWatcher, Watches!Hears,
      WatchFields, Watches!Phases, Watches!managed, Watches!window, Watches!history
<1>10. ASSUME NEW i \in Pair, Watches!LogEnds(i) PROVE WatchFields'
  BY <1>0, <1>10
    DEF Watches!LogEnds, Watches!Gone, WatchFields, Watches!Phases, Watches!managed, Watches!window,
      Watches!history
<1>11. ASSUME NEW i \in Pair, Watches!StatsEnd(i) PROVE WatchFields'
  BY <1>0, <1>11
    DEF Watches!StatsEnd, Watches!Gone, WatchFields, Watches!Phases, Watches!managed,
      Watches!window, Watches!history
<1>12. ASSUME NEW i \in Pair, Watches!WatchEnds(i) PROVE WatchFields'
  BY <1>0, <1>12
    DEF Watches!WatchEnds, Watches!Gone, Watches!Hears, WatchFields, Watches!Phases,
      Watches!managed, Watches!window, Watches!history
<1>13. ASSUME NEW i \in Pair, Watches!JournalEnds(i) PROVE WatchFields'
  BY <1>0, <1>13
    DEF Watches!JournalEnds, Watches!Gone, Watches!Hears, WatchFields, Watches!Phases,
      Watches!managed, Watches!window, Watches!history
<1>14. ASSUME NEW i \in Pair, Watches!TooLong(i) PROVE WatchFields'
  BY <1>0, <1>14
    DEF Watches!TooLong, WatchFields, Watches!Phases, Watches!managed, Watches!window,
      Watches!history
<1>15. ASSUME NEW i \in Pair, Watches!Answer(i) PROVE WatchFields'
  BY <1>0, <1>15
    DEF Watches!Answer, WatchFields, Watches!Phases, Watches!managed, Watches!window,
      Watches!history
<1>16. CASE Watches!StopServer
  BY <1>0, <1>16
    DEF Watches!StopServer, WatchFields, Watches!Phases, Watches!managed, Watches!window,
      Watches!history
<1>17. ASSUME NEW c \in calls, Watches!StopCall(c) PROVE WatchFields'
  <2>1. PICK i \in c.ids : Watches!Stopped(i) /\ calls' = (calls \ {c}) \cup {[c EXCEPT !.ids = @ \ {i}]}
    BY <1>17 DEF Watches!StopCall
  <2>2. UNCHANGED <<kind, phase, gen, generation, answer, missed, crossed, overtaken>>
    BY <1>17 DEF Watches!StopCall
  <2>3. /\ c \in [kinds : SUBSET Watches!Kinds, ids : SUBSET Pair] /\ i \in Pair /\ i \in c.ids
        /\ [c EXCEPT !.ids = @ \ {i}] \in [kinds : SUBSET Watches!Kinds, ids : SUBSET Pair]
        /\ [c EXCEPT !.ids = @ \ {i}].kinds = c.kinds /\ [c EXCEPT !.ids = @ \ {i}].ids = c.ids \ {i}
    BY <1>0, <2>1
  <2>4. told[i] + 1 \in Nat
    BY <1>0, <2>3
  <2>5. transport' \in [Pair -> {"none", "open", "closed"}]
    BY <1>0, <2>1 DEF Watches!Stopped
  <2>6. told' \in [Pair -> Nat]
    BY <1>0, <2>1, <2>4 DEF Watches!Stopped
  <2>7. active' \in [Watches!Kinds -> Pair \cup {None}]
    BY <1>0, <2>1 DEF Watches!Stopped, Watches!Hears
  <2>8. QED
    BY <1>0, <2>2, <2>5, <2>6, <2>7 DEF WatchFields
<1>18. ASSUME NEW c \in calls, Watches!StopAnswered(c) PROVE WatchFields'
  BY <1>0, <1>18
    DEF Watches!StopAnswered, WatchFields, Watches!Phases, Watches!managed, Watches!window,
      Watches!history
<1>19. ASSUME NEW ks \in Watches!Groups,
          Watches!AskStop(ks)
       PROVE  UNCHANGED <<kind, phase, transport, gen, generation, active, answer, told>>
  BY <1>19 DEF Watches!AskStop, Watches!managed, Watches!window, Watches!history
<1>20. CASE UNCHANGED Watches!vars
  BY <1>1, <1>20 DEF Watches!vars, Watches!managed, Watches!window, Watches!history
<1>21. QED
  BY <1>1, <1>2, <1>3, <1>4, <1>5, <1>6, <1>7, <1>8, <1>9, <1>10, <1>11, <1>12, <1>13, <1>14, <1>15,
     <1>16, <1>17, <1>18, <1>19, <1>20
    DEF Watches!Next

\* ... and a watch that ends leaves the map.
LEMMA MapStep ==
  ASSUME WatchTypes, MapInv, ScopeInv, [Watches!Next]_(Watches!vars)
  PROVE  MapInv'
<1>0. /\ kind \in [Pair -> Watches!Kinds \cup {None}]
      /\ phase \in [Pair -> Watches!Phases]
      /\ scope \in registered \cup {None} /\ None \notin Pair /\ None \notin Watches!Kinds
      /\ registered \subseteq {i \in Pair : phase[i] \in {"running", "held"}}
  BY DEF WatchTypes, WatchConstants, WatchFields, MapInv, CallTypes
<1>1. CASE UNCHANGED <<phase, registered, scope>>
  BY <1>0, <1>1 DEF MapInv, ScopeInv
<1>2. ASSUME NEW i \in Pair, NEW k \in Watches!Kinds, Watches!Request(i, k) PROVE MapInv'
  BY <1>0, <1>2
    DEF Watches!Request, MapInv, ScopeInv, Watches!managed, Watches!window, Watches!history
<1>3. ASSUME NEW i \in Pair, Watches!DialFails(i) PROVE MapInv'
  BY <1>0, <1>3
    DEF Watches!DialFails, MapInv, ScopeInv, Watches!managed, Watches!window, Watches!history
<1>4. ASSUME NEW i \in Pair, Watches!CommandFails(i) PROVE MapInv'
  BY <1>0, <1>4
    DEF Watches!CommandFails, MapInv, ScopeInv, Watches!managed, Watches!window, Watches!history
<1>5. ASSUME NEW i \in Pair, Watches!Opens(i) PROVE MapInv'
  BY <1>0, <1>5
    DEF Watches!Opens, MapInv, ScopeInv, Watches!managed, Watches!window, Watches!history
<1>6. ASSUME NEW i \in Pair, Watches!StartLogStream(i) PROVE MapInv'
  BY <1>0, <1>6
    DEF Watches!StartLogStream, Watches!Added, MapInv, ScopeInv, Watches!managed, Watches!window,
      Watches!history
<1>7. ASSUME NEW i \in Pair, Watches!StartStatsWatch(i) PROVE MapInv'
  BY <1>0, <1>7
    DEF Watches!StartStatsWatch, Watches!Added, MapInv, ScopeInv, Watches!managed, Watches!window,
      Watches!history
<1>8. ASSUME NEW i \in Pair, Watches!StartWatch(i) PROVE MapInv'
  BY <1>0, <1>8
    DEF Watches!StartWatch, Watches!Added, MapInv, ScopeInv, Watches!managed, Watches!window,
      Watches!history
<1>9. ASSUME NEW i \in Pair, Watches!StartJournalFollow(i) PROVE MapInv'
  BY <1>0, <1>9
    DEF Watches!StartJournalFollow, Watches!Added, Watches!registerJournalWatcher, Watches!Hears,
      MapInv, ScopeInv, Watches!managed, Watches!window, Watches!history
<1>10. ASSUME NEW i \in Pair, Watches!LogEnds(i) PROVE MapInv'
  BY <1>0, <1>10
    DEF Watches!LogEnds, Watches!Gone, MapInv, ScopeInv, Watches!managed, Watches!window,
      Watches!history
<1>11. ASSUME NEW i \in Pair, Watches!StatsEnd(i) PROVE MapInv'
  BY <1>0, <1>11
    DEF Watches!StatsEnd, Watches!Gone, MapInv, ScopeInv, Watches!managed, Watches!window,
      Watches!history
<1>12. ASSUME NEW i \in Pair, Watches!WatchEnds(i) PROVE MapInv'
  BY <1>0, <1>12
    DEF Watches!WatchEnds, Watches!Gone, Watches!Hears, MapInv, ScopeInv, Watches!managed,
      Watches!window, Watches!history
<1>13. ASSUME NEW i \in Pair, Watches!JournalEnds(i) PROVE MapInv'
  BY <1>0, <1>13
    DEF Watches!JournalEnds, Watches!Gone, Watches!Hears, MapInv, ScopeInv, Watches!managed,
      Watches!window, Watches!history
<1>14. ASSUME NEW i \in Pair, Watches!TooLong(i) PROVE MapInv'
  BY <1>0, <1>14
    DEF Watches!TooLong, MapInv, ScopeInv, Watches!managed, Watches!window, Watches!history
<1>15. CASE Watches!StopServer
  BY <1>0, <1>15
    DEF Watches!StopServer, MapInv, ScopeInv, Watches!managed, Watches!window, Watches!history
<1>16. ASSUME NEW c \in calls, Watches!StopCall(c) PROVE MapInv'
  BY <1>0, <1>16
    DEF Watches!StopCall, Watches!Stopped, Watches!Hears, MapInv, ScopeInv, Watches!managed,
      Watches!window, Watches!history
<1>17. ASSUME NEW i \in Pair,
          Watches!Answer(i)
       PROVE  UNCHANGED <<phase, registered, scope>>
  BY <1>17 DEF Watches!Answer, Watches!managed, Watches!window, Watches!history
<1>18. ASSUME NEW ks \in Watches!Groups,
          Watches!AskStop(ks)
       PROVE  UNCHANGED <<phase, registered, scope>>
  BY <1>18 DEF Watches!AskStop, Watches!managed, Watches!window, Watches!history
<1>19. ASSUME NEW c \in calls,
          Watches!StopAnswered(c)
       PROVE  UNCHANGED <<phase, registered, scope>>
  BY <1>19 DEF Watches!StopAnswered, Watches!managed, Watches!window, Watches!history
<1>20. CASE UNCHANGED Watches!vars
  BY <1>1, <1>20 DEF Watches!vars, Watches!managed, Watches!window, Watches!history
<1>21. QED
  BY <1>1, <1>2, <1>3, <1>4, <1>5, <1>6, <1>7, <1>8, <1>9, <1>10, <1>11, <1>12, <1>13, <1>14, <1>15,
     <1>16, <1>17, <1>18, <1>19, <1>20
    DEF Watches!Next

\* ... and the window asks for what it has.
LEMMA CallTypesStep ==
  ASSUME WatchTypes, CallTypes, [Watches!Next]_(Watches!vars)
  PROVE  CallTypes'
<1>0. /\ active \in [Watches!Kinds -> Pair \cup {None}]
      /\ calls \subseteq [kinds : SUBSET Watches!Kinds, ids : SUBSET Pair]
  BY DEF WatchTypes, WatchConstants, WatchFields, MapInv, CallTypes
<1>1. CASE UNCHANGED <<calls>>
  BY <1>0, <1>1 DEF CallTypes
<1>2. ASSUME NEW ks \in Watches!Groups, Watches!AskStop(ks) PROVE CallTypes'
  <2> DEFINE ids == {active[k] : k \in ks} \ {None}
             asked == [kinds |-> ks, ids |-> ids]
  <2>1. /\ calls' = calls \cup {asked} /\ ids # {}
        /\ crossed' = crossed \cup UNION {Watches!Known(k) : k \in {l \in ks : Watches!Starting(l) # {}}}
        /\ UNCHANGED <<kind, phase, transport, gen, registered, scope, generation, active, answer, told, missed,
                        overtaken>>
    BY <1>2 DEF Watches!AskStop, Watches!managed
  <2>2. ks \subseteq Watches!Kinds
    BY DEF Watches!Groups, Watches!Kinds
  <2>3. ids \subseteq Pair
    BY <1>0, <2>2
  <2>4. asked \in [kinds : SUBSET Watches!Kinds, ids : SUBSET Pair] /\ asked.kinds = ks /\ asked.ids = ids
    BY <2>2, <2>3
  <2>5. QED
    BY <1>0, <2>1, <2>4 DEF CallTypes
<1>3. ASSUME NEW c \in calls, Watches!StopCall(c) PROVE CallTypes'
  <2>1. PICK i \in c.ids : Watches!Stopped(i) /\ calls' = (calls \ {c}) \cup {[c EXCEPT !.ids = @ \ {i}]}
    BY <1>3 DEF Watches!StopCall
  <2>2. UNCHANGED <<kind, phase, gen, generation, answer, missed, crossed, overtaken>>
    BY <1>3 DEF Watches!StopCall
  <2>3. /\ c \in [kinds : SUBSET Watches!Kinds, ids : SUBSET Pair] /\ i \in Pair /\ i \in c.ids
        /\ [c EXCEPT !.ids = @ \ {i}] \in [kinds : SUBSET Watches!Kinds, ids : SUBSET Pair]
        /\ [c EXCEPT !.ids = @ \ {i}].kinds = c.kinds /\ [c EXCEPT !.ids = @ \ {i}].ids = c.ids \ {i}
    BY <1>0, <2>1
  <2>4. QED
    BY <1>0, <2>1, <2>3 DEF CallTypes
<1>4. ASSUME NEW c \in calls, Watches!StopAnswered(c) PROVE CallTypes'
  BY <1>0, <1>4
    DEF Watches!StopAnswered, CallTypes, Watches!managed, Watches!window, Watches!history
<1>5. ASSUME NEW i \in Pair, NEW k \in Watches!Kinds,
          Watches!Request(i, k)
       PROVE  UNCHANGED <<calls>>
  BY <1>5 DEF Watches!Request, Watches!managed, Watches!window, Watches!history
<1>6. ASSUME NEW i \in Pair,
          Watches!DialFails(i) \/ Watches!CommandFails(i)
          \/ Watches!Opens(i) \/ Watches!StartLogStream(i)
          \/ Watches!StartStatsWatch(i) \/ Watches!StartWatch(i)
          \/ Watches!StartJournalFollow(i) \/ Watches!LogEnds(i)
          \/ Watches!StatsEnd(i) \/ Watches!WatchEnds(i)
          \/ Watches!JournalEnds(i) \/ Watches!TooLong(i)
          \/ Watches!Answer(i)
       PROVE  UNCHANGED <<calls>>
  BY <1>6
    DEF Watches!DialFails, Watches!CommandFails, Watches!Opens, Watches!StartLogStream,
      Watches!StartStatsWatch, Watches!StartWatch, Watches!StartJournalFollow, Watches!LogEnds,
      Watches!StatsEnd, Watches!WatchEnds, Watches!JournalEnds, Watches!TooLong, Watches!Answer,
      Watches!Added, Watches!registerJournalWatcher, Watches!Hears, Watches!Gone, Watches!managed,
      Watches!window, Watches!history
<1>7. CASE Watches!StopServer \/ UNCHANGED Watches!vars
  BY <1>1, <1>7
    DEF Watches!StopServer, Watches!vars, Watches!managed, Watches!window, Watches!history
<1>8. QED
  BY <1>1, <1>2, <1>3, <1>4, <1>5, <1>6, <1>7 DEF Watches!Next

\* An answer is sent when the watch is registered.
LEMMA PhaseStep ==
  ASSUME WatchTypes, PhaseInv, [Watches!Next]_(Watches!vars)
  PROVE  PhaseInv'
<1>0. /\ kind \in [Pair -> Watches!Kinds \cup {None}]
      /\ phase \in [Pair -> Watches!Phases]
      /\ answer \in [Pair -> {"none", "sent", "taken"}]
      /\ scope \in registered \cup {None} /\ None \notin Pair /\ None \notin Watches!Kinds
  BY DEF WatchTypes, WatchConstants, WatchFields, MapInv, CallTypes
<1>1. CASE UNCHANGED <<kind, phase, answer>>
  BY <1>0, <1>1 DEF PhaseInv
<1>2. ASSUME NEW i \in Pair, NEW k \in Watches!Kinds, Watches!Request(i, k) PROVE PhaseInv'
  BY <1>0, <1>2 DEF Watches!Request, PhaseInv, Watches!managed, Watches!window, Watches!history
<1>3. ASSUME NEW i \in Pair, Watches!DialFails(i) PROVE PhaseInv'
  BY <1>0, <1>3 DEF Watches!DialFails, PhaseInv, Watches!managed, Watches!window, Watches!history
<1>4. ASSUME NEW i \in Pair, Watches!CommandFails(i) PROVE PhaseInv'
  BY <1>0, <1>4 DEF Watches!CommandFails, PhaseInv, Watches!managed, Watches!window, Watches!history
<1>5. ASSUME NEW i \in Pair, Watches!Opens(i) PROVE PhaseInv'
  BY <1>0, <1>5 DEF Watches!Opens, PhaseInv, Watches!managed, Watches!window, Watches!history
<1>6. ASSUME NEW i \in Pair, Watches!StartLogStream(i) PROVE PhaseInv'
  BY <1>0, <1>6
    DEF Watches!StartLogStream, Watches!Added, PhaseInv, Watches!managed, Watches!window,
      Watches!history
<1>7. ASSUME NEW i \in Pair, Watches!StartStatsWatch(i) PROVE PhaseInv'
  BY <1>0, <1>7
    DEF Watches!StartStatsWatch, Watches!Added, PhaseInv, Watches!managed, Watches!window,
      Watches!history
<1>8. ASSUME NEW i \in Pair, Watches!StartWatch(i) PROVE PhaseInv'
  BY <1>0, <1>8
    DEF Watches!StartWatch, Watches!Added, PhaseInv, Watches!managed, Watches!window,
      Watches!history
<1>9. ASSUME NEW i \in Pair, Watches!StartJournalFollow(i) PROVE PhaseInv'
  BY <1>0, <1>9
    DEF Watches!StartJournalFollow, Watches!Added, Watches!registerJournalWatcher, Watches!Hears,
      PhaseInv, Watches!managed, Watches!window, Watches!history
<1>10. ASSUME NEW i \in Pair, Watches!LogEnds(i) PROVE PhaseInv'
  BY <1>0, <1>10
    DEF Watches!LogEnds, Watches!Gone, PhaseInv, Watches!managed, Watches!window, Watches!history
<1>11. ASSUME NEW i \in Pair, Watches!StatsEnd(i) PROVE PhaseInv'
  BY <1>0, <1>11
    DEF Watches!StatsEnd, Watches!Gone, PhaseInv, Watches!managed, Watches!window, Watches!history
<1>12. ASSUME NEW i \in Pair, Watches!WatchEnds(i) PROVE PhaseInv'
  BY <1>0, <1>12
    DEF Watches!WatchEnds, Watches!Gone, Watches!Hears, PhaseInv, Watches!managed, Watches!window,
      Watches!history
<1>13. ASSUME NEW i \in Pair, Watches!JournalEnds(i) PROVE PhaseInv'
  BY <1>0, <1>13
    DEF Watches!JournalEnds, Watches!Gone, Watches!Hears, PhaseInv, Watches!managed, Watches!window,
      Watches!history
<1>14. ASSUME NEW i \in Pair, Watches!TooLong(i) PROVE PhaseInv'
  BY <1>0, <1>14 DEF Watches!TooLong, PhaseInv, Watches!managed, Watches!window, Watches!history
<1>15. ASSUME NEW i \in Pair, Watches!Answer(i) PROVE PhaseInv'
  BY <1>0, <1>15 DEF Watches!Answer, PhaseInv, Watches!managed, Watches!window, Watches!history
<1>16. ASSUME NEW ks \in Watches!Groups,
          Watches!AskStop(ks)
       PROVE  UNCHANGED <<kind, phase, answer>>
  BY <1>16 DEF Watches!AskStop, Watches!managed, Watches!window, Watches!history
<1>17. ASSUME NEW c \in calls,
          Watches!StopCall(c) \/ Watches!StopAnswered(c)
       PROVE  UNCHANGED <<kind, phase, answer>>
  BY <1>17
    DEF Watches!StopCall, Watches!StopAnswered, Watches!Stopped, Watches!Hears, Watches!managed,
      Watches!window, Watches!history
<1>18. CASE Watches!StopServer \/ UNCHANGED Watches!vars
  BY <1>1, <1>18
    DEF Watches!StopServer, Watches!vars, Watches!managed, Watches!window, Watches!history
<1>19. QED
  BY <1>1, <1>2, <1>3, <1>4, <1>5, <1>6, <1>7, <1>8, <1>9, <1>10, <1>11, <1>12, <1>13, <1>14, <1>15,
     <1>16, <1>17, <1>18
    DEF Watches!Next

\* Whoever ends a watch or takes it from the map closes its connection.
LEMMA LeakStep ==
  ASSUME WatchTypes, Watches!NoLeakedTransport, PhaseInv, [Watches!Next]_(Watches!vars)
  PROVE  Watches!NoLeakedTransport'
<1>0. /\ kind \in [Pair -> Watches!Kinds \cup {None}]
      /\ phase \in [Pair -> Watches!Phases]
      /\ transport \in [Pair -> {"none", "open", "closed"}]
      /\ registered \subseteq {i \in Pair : phase[i] \in {"running", "held"}}
      /\ scope \in registered \cup {None} /\ None \notin Pair /\ None \notin Watches!Kinds
  BY DEF WatchTypes, WatchConstants, WatchFields, MapInv, CallTypes
<1>1. CASE UNCHANGED <<phase, transport, registered>>
  BY <1>0, <1>1 DEF Watches!NoLeakedTransport
<1>2. ASSUME NEW i \in Pair, NEW k \in Watches!Kinds, Watches!Request(i, k) PROVE
       Watches!NoLeakedTransport'
  BY <1>0, <1>2
    DEF Watches!Request, Watches!NoLeakedTransport, Watches!managed, Watches!window, Watches!history
<1>3. ASSUME NEW i \in Pair, Watches!DialFails(i) PROVE Watches!NoLeakedTransport'
  BY <1>0, <1>3
    DEF Watches!DialFails, Watches!NoLeakedTransport, Watches!managed, Watches!window,
      Watches!history
<1>4. ASSUME NEW i \in Pair, Watches!CommandFails(i) PROVE Watches!NoLeakedTransport'
  BY <1>0, <1>4
    DEF Watches!CommandFails, Watches!NoLeakedTransport, Watches!managed, Watches!window,
      Watches!history
<1>5. ASSUME NEW i \in Pair, Watches!Opens(i) PROVE Watches!NoLeakedTransport'
  BY <1>0, <1>5
    DEF Watches!Opens, Watches!NoLeakedTransport, Watches!managed, Watches!window, Watches!history
<1>6. ASSUME NEW i \in Pair, Watches!StartLogStream(i) PROVE Watches!NoLeakedTransport'
  BY <1>0, <1>6
    DEF Watches!StartLogStream, Watches!Added, Watches!NoLeakedTransport, Watches!managed,
      Watches!window, Watches!history
<1>7. ASSUME NEW i \in Pair, Watches!StartStatsWatch(i) PROVE Watches!NoLeakedTransport'
  BY <1>0, <1>7
    DEF Watches!StartStatsWatch, Watches!Added, Watches!NoLeakedTransport, Watches!managed,
      Watches!window, Watches!history
<1>8. ASSUME NEW i \in Pair, Watches!StartWatch(i) PROVE Watches!NoLeakedTransport'
  BY <1>0, <1>8
    DEF Watches!StartWatch, Watches!Added, Watches!NoLeakedTransport, Watches!managed,
      Watches!window, Watches!history
<1>9. ASSUME NEW i \in Pair, Watches!StartJournalFollow(i) PROVE Watches!NoLeakedTransport'
  BY <1>0, <1>9
    DEF Watches!StartJournalFollow, Watches!Added, Watches!registerJournalWatcher, Watches!Hears,
      Watches!NoLeakedTransport, Watches!managed, Watches!window, Watches!history
<1>10. ASSUME NEW i \in Pair, Watches!LogEnds(i) PROVE Watches!NoLeakedTransport'
  BY <1>0, <1>10
    DEF Watches!LogEnds, Watches!Gone, Watches!NoLeakedTransport, Watches!managed, Watches!window,
      Watches!history
<1>11. ASSUME NEW i \in Pair, Watches!StatsEnd(i) PROVE Watches!NoLeakedTransport'
  BY <1>0, <1>11
    DEF Watches!StatsEnd, Watches!Gone, Watches!NoLeakedTransport, Watches!managed, Watches!window,
      Watches!history
<1>12. ASSUME NEW i \in Pair, Watches!WatchEnds(i) PROVE Watches!NoLeakedTransport'
  BY <1>0, <1>12
    DEF Watches!WatchEnds, Watches!Gone, Watches!Hears, Watches!NoLeakedTransport, Watches!managed,
      Watches!window, Watches!history
<1>13. ASSUME NEW i \in Pair, Watches!JournalEnds(i) PROVE Watches!NoLeakedTransport'
  BY <1>0, <1>13
    DEF Watches!JournalEnds, Watches!Gone, Watches!Hears, Watches!NoLeakedTransport,
      Watches!managed, Watches!window, Watches!history
<1>14. ASSUME NEW i \in Pair, Watches!TooLong(i) PROVE Watches!NoLeakedTransport'
  BY <1>0, <1>14
    DEF Watches!TooLong, Watches!NoLeakedTransport, Watches!managed, Watches!window, Watches!history
<1>15. CASE Watches!StopServer
  BY <1>0, <1>15
    DEF Watches!StopServer, Watches!NoLeakedTransport, Watches!managed, Watches!window,
      Watches!history
<1>16. ASSUME NEW c \in calls, Watches!StopCall(c) PROVE Watches!NoLeakedTransport'
  BY <1>0, <1>16
    DEF Watches!StopCall, Watches!Stopped, Watches!Hears, Watches!NoLeakedTransport,
      Watches!managed, Watches!window, Watches!history
<1>17. ASSUME NEW i \in Pair,
          Watches!Answer(i)
       PROVE  UNCHANGED <<phase, transport, registered>>
  BY <1>17 DEF Watches!Answer, Watches!managed, Watches!window, Watches!history
<1>18. ASSUME NEW ks \in Watches!Groups,
          Watches!AskStop(ks)
       PROVE  UNCHANGED <<phase, transport, registered>>
  BY <1>18 DEF Watches!AskStop, Watches!managed, Watches!window, Watches!history
<1>19. ASSUME NEW c \in calls,
          Watches!StopAnswered(c)
       PROVE  UNCHANGED <<phase, transport, registered>>
  BY <1>19 DEF Watches!StopAnswered, Watches!managed, Watches!window, Watches!history
<1>20. CASE UNCHANGED Watches!vars
  BY <1>1, <1>20 DEF Watches!vars, Watches!managed, Watches!window, Watches!history
<1>21. QED
  BY <1>1, <1>2, <1>3, <1>4, <1>5, <1>6, <1>7, <1>8, <1>9, <1>10, <1>11, <1>12, <1>13, <1>14, <1>15,
     <1>16, <1>17, <1>18, <1>19, <1>20
    DEF Watches!Next

\* StopServer takes what is registered and notes what is being started.
LEMMA StartedStep ==
  ASSUME WatchTypes, StartedInv, [Watches!Next]_(Watches!vars)
  PROVE  StartedInv'
<1>0. /\ kind \in [Pair -> Watches!Kinds \cup {None}]
      /\ phase \in [Pair -> Watches!Phases]
      /\ gen \in [Pair -> 0..MaxStops] /\ generation \in 0..MaxStops
      /\ registered \subseteq {i \in Pair : phase[i] \in {"running", "held"}}
  BY DEF WatchTypes, WatchConstants, WatchFields, MapInv, CallTypes
<1>1. CASE UNCHANGED <<phase, gen, generation, registered, missed>>
  BY <1>0, <1>1 DEF StartedInv
<1>2. ASSUME NEW i \in Pair, NEW k \in Watches!Kinds, Watches!Request(i, k) PROVE StartedInv'
  BY <1>0, <1>2 DEF Watches!Request, StartedInv, Watches!managed, Watches!window, Watches!history
<1>3. ASSUME NEW i \in Pair, Watches!DialFails(i) PROVE StartedInv'
  BY <1>0, <1>3 DEF Watches!DialFails, StartedInv, Watches!managed, Watches!window, Watches!history
<1>4. ASSUME NEW i \in Pair, Watches!CommandFails(i) PROVE StartedInv'
  BY <1>0, <1>4
    DEF Watches!CommandFails, StartedInv, Watches!managed, Watches!window, Watches!history
<1>5. ASSUME NEW i \in Pair, Watches!Opens(i) PROVE StartedInv'
  BY <1>0, <1>5 DEF Watches!Opens, StartedInv, Watches!managed, Watches!window, Watches!history
<1>6. ASSUME NEW i \in Pair, Watches!StartLogStream(i) PROVE StartedInv'
  BY <1>0, <1>6
    DEF Watches!StartLogStream, Watches!Added, StartedInv, Watches!managed, Watches!window,
      Watches!history
<1>7. ASSUME NEW i \in Pair, Watches!StartStatsWatch(i) PROVE StartedInv'
  BY <1>0, <1>7
    DEF Watches!StartStatsWatch, Watches!Added, StartedInv, Watches!managed, Watches!window,
      Watches!history
<1>8. ASSUME NEW i \in Pair, Watches!StartWatch(i) PROVE StartedInv'
  BY <1>0, <1>8
    DEF Watches!StartWatch, Watches!Added, StartedInv, Watches!managed, Watches!window,
      Watches!history
<1>9. ASSUME NEW i \in Pair, Watches!StartJournalFollow(i) PROVE StartedInv'
  BY <1>0, <1>9
    DEF Watches!StartJournalFollow, Watches!Added, Watches!registerJournalWatcher, Watches!Hears,
      StartedInv, Watches!managed, Watches!window, Watches!history
<1>10. ASSUME NEW i \in Pair, Watches!LogEnds(i) PROVE StartedInv'
  BY <1>0, <1>10
    DEF Watches!LogEnds, Watches!Gone, StartedInv, Watches!managed, Watches!window, Watches!history
<1>11. ASSUME NEW i \in Pair, Watches!StatsEnd(i) PROVE StartedInv'
  BY <1>0, <1>11
    DEF Watches!StatsEnd, Watches!Gone, StartedInv, Watches!managed, Watches!window, Watches!history
<1>12. ASSUME NEW i \in Pair, Watches!WatchEnds(i) PROVE StartedInv'
  BY <1>0, <1>12
    DEF Watches!WatchEnds, Watches!Gone, Watches!Hears, StartedInv, Watches!managed, Watches!window,
      Watches!history
<1>13. ASSUME NEW i \in Pair, Watches!JournalEnds(i) PROVE StartedInv'
  BY <1>0, <1>13
    DEF Watches!JournalEnds, Watches!Gone, Watches!Hears, StartedInv, Watches!managed,
      Watches!window, Watches!history
<1>14. ASSUME NEW i \in Pair, Watches!TooLong(i) PROVE StartedInv'
  BY <1>0, <1>14 DEF Watches!TooLong, StartedInv, Watches!managed, Watches!window, Watches!history
<1>15. CASE Watches!StopServer
  BY <1>0, <1>15
    DEF Watches!StopServer, StartedInv, Watches!managed, Watches!window, Watches!history
<1>16. ASSUME NEW c \in calls, Watches!StopCall(c) PROVE StartedInv'
  BY <1>0, <1>16
    DEF Watches!StopCall, Watches!Stopped, Watches!Hears, StartedInv, Watches!managed,
      Watches!window, Watches!history
<1>17. ASSUME NEW i \in Pair,
          Watches!Answer(i)
       PROVE  UNCHANGED <<phase, gen, generation, registered, missed>>
  BY <1>17 DEF Watches!Answer, Watches!managed, Watches!window, Watches!history
<1>18. ASSUME NEW ks \in Watches!Groups,
          Watches!AskStop(ks)
       PROVE  UNCHANGED <<phase, gen, generation, registered, missed>>
  BY <1>18 DEF Watches!AskStop, Watches!managed, Watches!window, Watches!history
<1>19. ASSUME NEW c \in calls,
          Watches!StopAnswered(c)
       PROVE  UNCHANGED <<phase, gen, generation, registered, missed>>
  BY <1>19 DEF Watches!StopAnswered, Watches!managed, Watches!window, Watches!history
<1>20. CASE UNCHANGED Watches!vars
  BY <1>1, <1>20 DEF Watches!vars, Watches!managed, Watches!window, Watches!history
<1>21. QED
  BY <1>1, <1>2, <1>3, <1>4, <1>5, <1>6, <1>7, <1>8, <1>9, <1>10, <1>11, <1>12, <1>13, <1>14, <1>15,
     <1>16, <1>17, <1>18, <1>19, <1>20
    DEF Watches!Next

\* The follow of the unit is replaced under the lock.
LEMMA ScopeStep ==
  ASSUME WatchTypes, ScopeInv, PhaseInv, [Watches!Next]_(Watches!vars)
  PROVE  ScopeInv'
<1>0. /\ kind \in [Pair -> Watches!Kinds \cup {None}]
      /\ phase \in [Pair -> Watches!Phases]
      /\ scope \in registered \cup {None} /\ None \notin Pair /\ None \notin Watches!Kinds
      /\ registered \subseteq {i \in Pair : phase[i] \in {"running", "held"}}
  BY DEF WatchTypes, WatchConstants, WatchFields, MapInv, CallTypes
<1>1. CASE UNCHANGED <<kind, registered, scope>>
  BY <1>0, <1>1 DEF ScopeInv, Watches!OneFollow
<1>2. ASSUME NEW i \in Pair, NEW k \in Watches!Kinds, Watches!Request(i, k) PROVE ScopeInv'
  BY <1>0, <1>2
    DEF Watches!Request, ScopeInv, Watches!OneFollow, Watches!managed, Watches!window,
      Watches!history
<1>3. ASSUME NEW i \in Pair, Watches!StartLogStream(i) PROVE ScopeInv'
  BY <1>0, <1>3
    DEF Watches!StartLogStream, Watches!Added, ScopeInv, Watches!OneFollow, Watches!managed,
      Watches!window, Watches!history
<1>4. ASSUME NEW i \in Pair, Watches!StartStatsWatch(i) PROVE ScopeInv'
  BY <1>0, <1>4
    DEF Watches!StartStatsWatch, Watches!Added, ScopeInv, Watches!OneFollow, Watches!managed,
      Watches!window, Watches!history
<1>5. ASSUME NEW i \in Pair, Watches!StartWatch(i) PROVE ScopeInv'
  BY <1>0, <1>5
    DEF Watches!StartWatch, Watches!Added, ScopeInv, Watches!OneFollow, Watches!managed,
      Watches!window, Watches!history
<1>6. ASSUME NEW i \in Pair, Watches!StartJournalFollow(i) PROVE ScopeInv'
  BY <1>0, <1>6
    DEF Watches!StartJournalFollow, Watches!Added, Watches!registerJournalWatcher, Watches!Hears,
      ScopeInv, Watches!OneFollow, Watches!managed, Watches!window, Watches!history
<1>7. ASSUME NEW i \in Pair, Watches!LogEnds(i) PROVE ScopeInv'
  BY <1>0, <1>7
    DEF Watches!LogEnds, Watches!Gone, ScopeInv, Watches!OneFollow, Watches!managed, Watches!window,
      Watches!history
<1>8. ASSUME NEW i \in Pair, Watches!StatsEnd(i) PROVE ScopeInv'
  BY <1>0, <1>8
    DEF Watches!StatsEnd, Watches!Gone, ScopeInv, Watches!OneFollow, Watches!managed,
      Watches!window, Watches!history
<1>9. ASSUME NEW i \in Pair, Watches!WatchEnds(i) PROVE ScopeInv'
  BY <1>0, <1>9
    DEF Watches!WatchEnds, Watches!Gone, Watches!Hears, ScopeInv, Watches!OneFollow,
      Watches!managed, Watches!window, Watches!history
<1>10. ASSUME NEW i \in Pair, Watches!JournalEnds(i) PROVE ScopeInv'
  BY <1>0, <1>10
    DEF Watches!JournalEnds, Watches!Gone, Watches!Hears, ScopeInv, Watches!OneFollow,
      Watches!managed, Watches!window, Watches!history
<1>11. CASE Watches!StopServer
  BY <1>0, <1>11
    DEF Watches!StopServer, ScopeInv, Watches!OneFollow, Watches!managed, Watches!window,
      Watches!history
<1>12. ASSUME NEW c \in calls, Watches!StopCall(c) PROVE ScopeInv'
  BY <1>0, <1>12
    DEF Watches!StopCall, Watches!Stopped, Watches!Hears, ScopeInv, Watches!OneFollow,
      Watches!managed, Watches!window, Watches!history
<1>13. ASSUME NEW i \in Pair,
          Watches!DialFails(i) \/ Watches!CommandFails(i)
          \/ Watches!Opens(i) \/ Watches!TooLong(i) \/ Watches!Answer(i)
       PROVE  UNCHANGED <<kind, registered, scope>>
  BY <1>13
    DEF Watches!DialFails, Watches!CommandFails, Watches!Opens, Watches!TooLong, Watches!Answer,
      Watches!managed, Watches!window, Watches!history
<1>14. ASSUME NEW ks \in Watches!Groups,
          Watches!AskStop(ks)
       PROVE  UNCHANGED <<kind, registered, scope>>
  BY <1>14 DEF Watches!AskStop, Watches!managed, Watches!window, Watches!history
<1>15. ASSUME NEW c \in calls,
          Watches!StopAnswered(c)
       PROVE  UNCHANGED <<kind, registered, scope>>
  BY <1>15 DEF Watches!StopAnswered, Watches!managed, Watches!window, Watches!history
<1>16. CASE UNCHANGED Watches!vars
  BY <1>1, <1>16 DEF Watches!vars, Watches!managed, Watches!window, Watches!history
<1>17. QED
  BY <1>1, <1>2, <1>3, <1>4, <1>5, <1>6, <1>7, <1>8, <1>9, <1>10, <1>11, <1>12, <1>13, <1>14, <1>15,
     <1>16
    DEF Watches!Next

\* Only who takes a journal out of the map tells.
LEMMA ToldStep ==
  ASSUME WatchTypes, ToldInv, PhaseInv, ScopeInv, [Watches!Next]_(Watches!vars)
  PROVE  ToldInv'
<1>0. /\ kind \in [Pair -> Watches!Kinds \cup {None}]
      /\ phase \in [Pair -> Watches!Phases]
      /\ answer \in [Pair -> {"none", "sent", "taken"}]
      /\ told \in [Pair -> Nat]
      /\ scope \in registered \cup {None} /\ None \notin Pair /\ None \notin Watches!Kinds
      /\ registered \subseteq {i \in Pair : phase[i] \in {"running", "held"}}
  BY DEF WatchTypes, WatchConstants, WatchFields, MapInv, CallTypes
<1>1. CASE UNCHANGED <<kind, registered, answer, told>>
  BY <1>0, <1>1 DEF ToldInv, PhaseInv, ScopeInv
<1>2. ASSUME NEW i \in Pair, NEW k \in Watches!Kinds, Watches!Request(i, k) PROVE ToldInv'
  BY <1>0, <1>2
    DEF Watches!Request, ToldInv, PhaseInv, ScopeInv, Watches!managed, Watches!window,
      Watches!history
<1>3. ASSUME NEW i \in Pair, Watches!StartLogStream(i) PROVE ToldInv'
  BY <1>0, <1>3
    DEF Watches!StartLogStream, Watches!Added, ToldInv, PhaseInv, ScopeInv, Watches!managed,
      Watches!window, Watches!history
<1>4. ASSUME NEW i \in Pair, Watches!StartStatsWatch(i) PROVE ToldInv'
  BY <1>0, <1>4
    DEF Watches!StartStatsWatch, Watches!Added, ToldInv, PhaseInv, ScopeInv, Watches!managed,
      Watches!window, Watches!history
<1>5. ASSUME NEW i \in Pair, Watches!StartWatch(i) PROVE ToldInv'
  BY <1>0, <1>5
    DEF Watches!StartWatch, Watches!Added, ToldInv, PhaseInv, ScopeInv, Watches!managed,
      Watches!window, Watches!history
<1>6. ASSUME NEW i \in Pair, Watches!StartJournalFollow(i) PROVE ToldInv'
  BY <1>0, <1>6
    DEF Watches!StartJournalFollow, Watches!Added, Watches!registerJournalWatcher, Watches!Hears,
      ToldInv, PhaseInv, ScopeInv, Watches!managed, Watches!window, Watches!history
<1>7. ASSUME NEW i \in Pair, Watches!LogEnds(i) PROVE ToldInv'
  BY <1>0, <1>7
    DEF Watches!LogEnds, Watches!Gone, ToldInv, PhaseInv, ScopeInv, Watches!managed, Watches!window,
      Watches!history
<1>8. ASSUME NEW i \in Pair, Watches!StatsEnd(i) PROVE ToldInv'
  BY <1>0, <1>8
    DEF Watches!StatsEnd, Watches!Gone, ToldInv, PhaseInv, ScopeInv, Watches!managed,
      Watches!window, Watches!history
<1>9. ASSUME NEW i \in Pair, Watches!WatchEnds(i) PROVE ToldInv'
  BY <1>0, <1>9
    DEF Watches!WatchEnds, Watches!Gone, Watches!Hears, ToldInv, PhaseInv, ScopeInv,
      Watches!managed, Watches!window, Watches!history
<1>10. ASSUME NEW i \in Pair, Watches!JournalEnds(i) PROVE ToldInv'
  BY <1>0, <1>10
    DEF Watches!JournalEnds, Watches!Gone, Watches!Hears, ToldInv, PhaseInv, ScopeInv,
      Watches!managed, Watches!window, Watches!history
<1>11. ASSUME NEW i \in Pair, Watches!Answer(i) PROVE ToldInv'
  BY <1>0, <1>11
    DEF Watches!Answer, ToldInv, PhaseInv, ScopeInv, Watches!managed, Watches!window,
      Watches!history
<1>12. CASE Watches!StopServer
  BY <1>0, <1>12
    DEF Watches!StopServer, ToldInv, PhaseInv, ScopeInv, Watches!managed, Watches!window,
      Watches!history
<1>13. ASSUME NEW c \in calls, Watches!StopCall(c) PROVE ToldInv'
  BY <1>0, <1>13
    DEF Watches!StopCall, Watches!Stopped, Watches!Hears, ToldInv, PhaseInv, ScopeInv,
      Watches!managed, Watches!window, Watches!history
<1>14. ASSUME NEW i \in Pair,
          Watches!DialFails(i) \/ Watches!CommandFails(i)
          \/ Watches!Opens(i) \/ Watches!TooLong(i)
       PROVE  UNCHANGED <<kind, registered, answer, told>>
  BY <1>14
    DEF Watches!DialFails, Watches!CommandFails, Watches!Opens, Watches!TooLong, Watches!managed,
      Watches!window, Watches!history
<1>15. ASSUME NEW ks \in Watches!Groups,
          Watches!AskStop(ks)
       PROVE  UNCHANGED <<kind, registered, answer, told>>
  BY <1>15 DEF Watches!AskStop, Watches!managed, Watches!window, Watches!history
<1>16. ASSUME NEW c \in calls,
          Watches!StopAnswered(c)
       PROVE  UNCHANGED <<kind, registered, answer, told>>
  BY <1>16 DEF Watches!StopAnswered, Watches!managed, Watches!window, Watches!history
<1>17. CASE UNCHANGED Watches!vars
  BY <1>1, <1>17 DEF Watches!vars, Watches!managed, Watches!window, Watches!history
<1>18. QED
  BY <1>1, <1>2, <1>3, <1>4, <1>5, <1>6, <1>7, <1>8, <1>9, <1>10, <1>11, <1>12, <1>13, <1>14, <1>15,
     <1>16, <1>17
    DEF Watches!Next

\* A request that meets another of its kind marks all of them.
LEMMA AloneStep ==
  ASSUME WatchTypes, AloneInv, PhaseInv, Watches!RunningIsKnown, [Watches!Next]_(Watches!vars)
  PROVE  AloneInv'
<1>0. /\ kind \in [Pair -> Watches!Kinds \cup {None}]
      /\ phase \in [Pair -> Watches!Phases]
      /\ answer \in [Pair -> {"none", "sent", "taken"}]
      /\ registered \subseteq {i \in Pair : phase[i] \in {"running", "held"}}
      /\ scope \in registered \cup {None} /\ None \notin Pair /\ None \notin Watches!Kinds
  BY DEF WatchTypes, WatchConstants, WatchFields, MapInv, CallTypes
<1>1. CASE UNCHANGED <<kind, phase, registered, answer, crossed>>
  BY <1>0, <1>1 DEF AloneInv, Begun, Live
<1>2. ASSUME NEW i \in Pair, NEW k \in Watches!Kinds, Watches!Request(i, k) PROVE AloneInv'
  <2>1. /\ phase[i] = "unused" /\ active[k] = None
        /\ kind' = [kind EXCEPT ![i] = k] /\ phase' = [phase EXCEPT ![i] = "dialing"]
        /\ UNCHANGED <<registered, answer, active>>
        /\ crossed \subseteq crossed'
        /\ Watches!Starting(k) # {} => crossed' = crossed \cup Watches!Known(k) \cup {i}
    BY <1>2 DEF Watches!Request, Watches!window
  <2>2. answer[i] = "none" /\ i \notin registered /\ kind[i] = None
    BY <1>0, <2>1 DEF PhaseInv
  <2>3. SUFFICES ASSUME NEW a \in Pair, NEW b \in Pair, a # b, kind'[a] = kind'[b], Begun(a)', Live(b)'
                 PROVE  b \in crossed'
    BY DEF AloneInv
  <2>4. CASE a # i /\ b # i
    BY <1>0, <2>1, <2>2, <2>3, <2>4 DEF AloneInv, Begun, Live
  <2>5. CASE b = i
    <3>1. a \in Watches!Starting(k)
      BY <1>0, <2>1, <2>2, <2>3, <2>5 DEF Begun, Watches!Starting
    <3>2. QED
      BY <2>1, <2>5, <3>1
  <2>6. CASE a = i
    <3>1. kind[b] = k /\ Live(b) /\ phase[b] # "over"
      BY <1>0, <2>1, <2>2, <2>3, <2>6 DEF Live
    <3>2. CASE Watches!Starting(k) # {}
      BY <2>1, <3>1, <3>2 DEF Watches!Known
    <3>3. CASE Watches!Starting(k) = {}
      <4>1. phase[b] \notin {"dialing", "opened"} /\ answer[b] # "sent"
        BY <3>1, <3>3 DEF Watches!Starting
      <4>2. b \in registered /\ answer[b] = "taken"
        BY <1>0, <3>1, <4>1 DEF Live, PhaseInv
      <4>3. active[kind[b]] # b
        BY <1>0, <2>1, <3>1
      <4>4. QED
        BY <2>1, <4>2, <4>3 DEF Watches!RunningIsKnown
    <3>4. QED
      BY <3>2, <3>3
  <2>7. QED
    BY <2>4, <2>5, <2>6
<1>3. ASSUME NEW i \in Pair, Watches!DialFails(i) PROVE AloneInv'
  BY <1>0, <1>3
    DEF Watches!DialFails, AloneInv, Begun, Live, Watches!managed, Watches!window, Watches!history
<1>4. ASSUME NEW i \in Pair, Watches!CommandFails(i) PROVE AloneInv'
  BY <1>0, <1>4
    DEF Watches!CommandFails, AloneInv, Begun, Live, Watches!managed, Watches!window,
      Watches!history
<1>5. ASSUME NEW i \in Pair, Watches!Opens(i) PROVE AloneInv'
  BY <1>0, <1>5
    DEF Watches!Opens, AloneInv, Begun, Live, Watches!managed, Watches!window, Watches!history
<1>6. ASSUME NEW i \in Pair, Watches!StartLogStream(i) PROVE AloneInv'
  BY <1>0, <1>6
    DEF Watches!StartLogStream, Watches!Added, AloneInv, Begun, Live, Watches!managed,
      Watches!window, Watches!history
<1>7. ASSUME NEW i \in Pair, Watches!StartStatsWatch(i) PROVE AloneInv'
  BY <1>0, <1>7
    DEF Watches!StartStatsWatch, Watches!Added, AloneInv, Begun, Live, Watches!managed,
      Watches!window, Watches!history
<1>8. ASSUME NEW i \in Pair, Watches!StartWatch(i) PROVE AloneInv'
  BY <1>0, <1>8
    DEF Watches!StartWatch, Watches!Added, AloneInv, Begun, Live, Watches!managed, Watches!window,
      Watches!history
<1>9. ASSUME NEW i \in Pair, Watches!StartJournalFollow(i) PROVE AloneInv'
  BY <1>0, <1>9
    DEF Watches!StartJournalFollow, Watches!Added, Watches!registerJournalWatcher, Watches!Hears,
      AloneInv, Begun, Live, Watches!managed, Watches!window, Watches!history
<1>10. ASSUME NEW i \in Pair, Watches!LogEnds(i) PROVE AloneInv'
  BY <1>0, <1>10
    DEF Watches!LogEnds, Watches!Gone, AloneInv, Begun, Live, Watches!managed, Watches!window,
      Watches!history
<1>11. ASSUME NEW i \in Pair, Watches!StatsEnd(i) PROVE AloneInv'
  BY <1>0, <1>11
    DEF Watches!StatsEnd, Watches!Gone, AloneInv, Begun, Live, Watches!managed, Watches!window,
      Watches!history
<1>12. ASSUME NEW i \in Pair, Watches!WatchEnds(i) PROVE AloneInv'
  BY <1>0, <1>12
    DEF Watches!WatchEnds, Watches!Gone, Watches!Hears, AloneInv, Begun, Live, Watches!managed,
      Watches!window, Watches!history
<1>13. ASSUME NEW i \in Pair, Watches!JournalEnds(i) PROVE AloneInv'
  BY <1>0, <1>13
    DEF Watches!JournalEnds, Watches!Gone, Watches!Hears, AloneInv, Begun, Live, Watches!managed,
      Watches!window, Watches!history
<1>14. ASSUME NEW i \in Pair, Watches!TooLong(i) PROVE AloneInv'
  BY <1>0, <1>14
    DEF Watches!TooLong, AloneInv, Begun, Live, Watches!managed, Watches!window, Watches!history
<1>15. ASSUME NEW i \in Pair, Watches!Answer(i) PROVE AloneInv'
  BY <1>0, <1>15
    DEF Watches!Answer, AloneInv, Begun, Live, Watches!managed, Watches!window, Watches!history
<1>16. CASE Watches!StopServer
  BY <1>0, <1>16
    DEF Watches!StopServer, AloneInv, Begun, Live, Watches!managed, Watches!window, Watches!history
<1>17. ASSUME NEW ks \in Watches!Groups, Watches!AskStop(ks) PROVE AloneInv'
  BY <1>0, <1>17
    DEF Watches!AskStop, AloneInv, Begun, Live, Watches!managed, Watches!window, Watches!history
<1>18. ASSUME NEW c \in calls, Watches!StopCall(c) PROVE AloneInv'
  BY <1>0, <1>18
    DEF Watches!StopCall, Watches!Stopped, Watches!Hears, AloneInv, Begun, Live, Watches!managed,
      Watches!window, Watches!history
<1>19. ASSUME NEW c \in calls,
          Watches!StopAnswered(c)
       PROVE  UNCHANGED <<kind, phase, registered, answer, crossed>>
  BY <1>19 DEF Watches!StopAnswered, Watches!managed, Watches!window, Watches!history
<1>20. CASE UNCHANGED Watches!vars
  BY <1>1, <1>20 DEF Watches!vars, Watches!managed, Watches!window, Watches!history
<1>21. QED
  BY <1>1, <1>2, <1>3, <1>4, <1>5, <1>6, <1>7, <1>8, <1>9, <1>10, <1>11, <1>12, <1>13, <1>14, <1>15,
     <1>16, <1>17, <1>18, <1>19, <1>20
    DEF Watches!Next

\* The window forgets only what is no more.
LEMMA RunningStep ==
  ASSUME WatchTypes, Watches!RunningIsKnown, PhaseInv, ScopeInv, AloneInv, StopInv, FiledInv, [Watches!Next]_(Watches!vars)
  PROVE  Watches!RunningIsKnown'
<1>0. /\ kind \in [Pair -> Watches!Kinds \cup {None}]
      /\ phase \in [Pair -> Watches!Phases]
      /\ answer \in [Pair -> {"none", "sent", "taken"}]
      /\ active \in [Watches!Kinds -> Pair \cup {None}]
      /\ registered \subseteq {i \in Pair : phase[i] \in {"running", "held"}}
      /\ scope \in registered \cup {None} /\ None \notin Pair /\ None \notin Watches!Kinds
      /\ calls \subseteq [kinds : SUBSET Watches!Kinds, ids : SUBSET Pair]
  BY DEF WatchTypes, WatchConstants, WatchFields, MapInv, CallTypes
<1>1. CASE UNCHANGED <<kind, registered, crossed, answer, active>>
  BY <1>0, <1>1 DEF Watches!RunningIsKnown, FiledInv
<1>2. ASSUME NEW i \in Pair, NEW k \in Watches!Kinds, Watches!Request(i, k) PROVE
       Watches!RunningIsKnown'
  BY <1>0, <1>2
    DEF Watches!Request, Watches!RunningIsKnown, FiledInv, Watches!managed, Watches!window,
      Watches!history
<1>3. ASSUME NEW i \in Pair, Watches!StartLogStream(i) PROVE Watches!RunningIsKnown'
  BY <1>0, <1>3
    DEF Watches!StartLogStream, Watches!Added, Watches!RunningIsKnown, FiledInv, Watches!managed,
      Watches!window, Watches!history
<1>4. ASSUME NEW i \in Pair, Watches!StartStatsWatch(i) PROVE Watches!RunningIsKnown'
  BY <1>0, <1>4
    DEF Watches!StartStatsWatch, Watches!Added, Watches!RunningIsKnown, FiledInv, Watches!managed,
      Watches!window, Watches!history
<1>5. ASSUME NEW i \in Pair, Watches!StartWatch(i) PROVE Watches!RunningIsKnown'
  BY <1>0, <1>5
    DEF Watches!StartWatch, Watches!Added, Watches!RunningIsKnown, FiledInv, Watches!managed,
      Watches!window, Watches!history
<1>6. ASSUME NEW i \in Pair, Watches!StartJournalFollow(i) PROVE Watches!RunningIsKnown'
  <2>1. /\ UNCHANGED <<kind, crossed>> /\ phase[i] = "opened"
        /\ answer' = [answer EXCEPT ![i] = "sent"]
        /\ registered' = (registered \ ({scope} \ {None})) \cup {i}
        /\ active' = [k \in Watches!Kinds |-> IF active[k] \in {scope} \ {None} THEN None ELSE active[k]]
    BY <1>6 DEF Watches!StartJournalFollow, Watches!Added, Watches!registerJournalWatcher, Watches!Hears
  <2>2. SUFFICES ASSUME NEW j \in Pair, j \in registered', j \notin crossed', answer'[j] = "taken"
                 PROVE  active'[kind'[j]] = j
    BY <1>0, <2>1 DEF Watches!RunningIsKnown
  <2>3. kind[j] \in Watches!Kinds /\ kind'[j] = kind[j]
    BY <1>0, <2>1, <2>2 DEF PhaseInv
  <2>4. j \in registered /\ j # i /\ answer[j] = "taken" /\ j \notin crossed
    BY <1>0, <2>1, <2>2
  <2>5. active[kind[j]] = j
    BY <2>4 DEF Watches!RunningIsKnown
  <2>9. QED
    BY <1>0, <2>1, <2>2, <2>3, <2>4, <2>5
<1>7. ASSUME NEW i \in Pair, Watches!LogEnds(i) PROVE Watches!RunningIsKnown'
  BY <1>0, <1>7
    DEF Watches!LogEnds, Watches!Gone, Watches!RunningIsKnown, FiledInv, Watches!managed,
      Watches!window, Watches!history
<1>8. ASSUME NEW i \in Pair, Watches!StatsEnd(i) PROVE Watches!RunningIsKnown'
  BY <1>0, <1>8
    DEF Watches!StatsEnd, Watches!Gone, Watches!RunningIsKnown, FiledInv, Watches!managed,
      Watches!window, Watches!history
<1>9. ASSUME NEW i \in Pair, Watches!WatchEnds(i) PROVE Watches!RunningIsKnown'
  <2>1. /\ UNCHANGED <<kind, crossed, answer>> /\ registered' = registered \ {i}
        /\ active' = [k \in Watches!Kinds |-> IF active[k] \in {i} THEN None ELSE active[k]]
    BY <1>9 DEF Watches!WatchEnds, Watches!Gone, Watches!Hears
  <2>2. SUFFICES ASSUME NEW j \in Pair, j \in registered', j \notin crossed', answer'[j] = "taken"
                 PROVE  active'[kind'[j]] = j
    BY <1>0, <2>1 DEF Watches!RunningIsKnown
  <2>3. kind[j] \in Watches!Kinds /\ kind'[j] = kind[j]
    BY <1>0, <2>1, <2>2 DEF PhaseInv
  <2>4. j \in registered /\ j # i /\ answer[j] = "taken" /\ j \notin crossed
    BY <1>0, <2>1, <2>2
  <2>5. active[kind[j]] = j
    BY <2>4 DEF Watches!RunningIsKnown
  <2>9. QED
    BY <1>0, <2>1, <2>2, <2>3, <2>4, <2>5
<1>10. ASSUME NEW i \in Pair, Watches!JournalEnds(i) PROVE Watches!RunningIsKnown'
  <2>1. /\ UNCHANGED <<kind, crossed, answer>> /\ registered' = registered \ {i}
        /\ \/ active' = [k \in Watches!Kinds |-> IF active[k] \in {i} THEN None ELSE active[k]]
           \/ active' = active
    BY <1>10 DEF Watches!JournalEnds, Watches!Gone, Watches!Hears
  <2>2. SUFFICES ASSUME NEW j \in Pair, j \in registered', j \notin crossed', answer'[j] = "taken"
                 PROVE  active'[kind'[j]] = j
    BY <1>0, <2>1 DEF Watches!RunningIsKnown
  <2>3. kind[j] \in Watches!Kinds /\ kind'[j] = kind[j]
    BY <1>0, <2>1, <2>2 DEF PhaseInv
  <2>4. j \in registered /\ j # i /\ answer[j] = "taken" /\ j \notin crossed
    BY <1>0, <2>1, <2>2
  <2>5. active[kind[j]] = j
    BY <2>4 DEF Watches!RunningIsKnown
  <2>9. QED
    BY <1>0, <2>1, <2>2, <2>3, <2>4, <2>5
<1>11. ASSUME NEW i \in Pair, Watches!Answer(i) PROVE Watches!RunningIsKnown'
  <2>1. /\ UNCHANGED <<kind, crossed, registered>> /\ answer[i] = "sent"
        /\ answer' = [answer EXCEPT ![i] = "taken"] /\ active' = [active EXCEPT ![kind[i]] = i]
    BY <1>11 DEF Watches!Answer, Watches!managed, Watches!history
  <2>2. SUFFICES ASSUME NEW j \in Pair, j \in registered', j \notin crossed', answer'[j] = "taken"
                 PROVE  active'[kind'[j]] = j
    BY <1>0, <2>1 DEF Watches!RunningIsKnown
  <2>3. kind[j] \in Watches!Kinds /\ kind'[j] = kind[j]
    BY <1>0, <2>1, <2>2 DEF PhaseInv
  <2>4. CASE j = i
    BY <1>0, <2>1, <2>3, <2>4
  <2>5. CASE j # i
    <3>1. kind[j] # kind[i]
      BY <2>1, <2>2, <2>5 DEF AloneInv, Begun, Live
    <3>2. active[kind[j]] = j
      BY <1>0, <2>1, <2>2, <2>5 DEF Watches!RunningIsKnown
    <3>3. QED
      BY <1>0, <2>1, <2>3, <3>1, <3>2
  <2>9. QED
    BY <2>4, <2>5
<1>12. CASE Watches!StopServer
  BY <1>0, <1>12
    DEF Watches!StopServer, Watches!RunningIsKnown, FiledInv, Watches!managed, Watches!window,
      Watches!history
<1>13. ASSUME NEW ks \in Watches!Groups, Watches!AskStop(ks) PROVE Watches!RunningIsKnown'
  BY <1>0, <1>13
    DEF Watches!AskStop, Watches!RunningIsKnown, FiledInv, Watches!managed, Watches!window,
      Watches!history
<1>14. ASSUME NEW c \in calls, Watches!StopCall(c) PROVE Watches!RunningIsKnown'
  <2>1. PICK i \in c.ids : Watches!Stopped(i) /\ calls' = (calls \ {c}) \cup {[c EXCEPT !.ids = @ \ {i}]}
    BY <1>14 DEF Watches!StopCall
  <2>2. UNCHANGED <<kind, phase, gen, generation, answer, missed, crossed, overtaken>>
    BY <1>14 DEF Watches!StopCall
  <2>3. /\ c \in [kinds : SUBSET Watches!Kinds, ids : SUBSET Pair] /\ i \in Pair /\ i \in c.ids
        /\ [c EXCEPT !.ids = @ \ {i}] \in [kinds : SUBSET Watches!Kinds, ids : SUBSET Pair]
        /\ [c EXCEPT !.ids = @ \ {i}].kinds = c.kinds /\ [c EXCEPT !.ids = @ \ {i}].ids = c.ids \ {i}
    BY <1>0, <2>1
  <2>4. \A k \in Watches!Kinds : active'[k] = active[k] \/ active[k] = i
    BY <1>0, <2>1 DEF Watches!Stopped, Watches!Hears
  <2>5. SUFFICES ASSUME NEW j \in Pair, j \in registered', j \notin crossed', answer'[j] = "taken"
                 PROVE  active'[kind'[j]] = j
    BY <1>0, <2>1, <2>3 DEF Watches!RunningIsKnown, Watches!Stopped
  <2>6. j \in registered /\ j # i /\ answer[j] = "taken" /\ j \notin crossed
    BY <2>1, <2>2, <2>5 DEF Watches!Stopped
  <2>7. kind[j] \in Watches!Kinds /\ kind'[j] = kind[j]
    BY <1>0, <2>2, <2>6 DEF PhaseInv
  <2>8. active[kind[j]] = j
    BY <2>6 DEF Watches!RunningIsKnown
  <2>9. QED
    BY <2>4, <2>6, <2>7, <2>8
<1>15. ASSUME NEW c \in calls, Watches!StopAnswered(c) PROVE Watches!RunningIsKnown'
  <2>1. /\ UNCHANGED <<kind, crossed, registered, answer>> /\ c.ids = {}
        /\ active' = [k \in Watches!Kinds |-> IF k \in c.kinds THEN None ELSE active[k]]
    BY <1>15 DEF Watches!StopAnswered, Watches!managed, Watches!history
  <2>2. SUFFICES ASSUME NEW j \in Pair, j \in registered', j \notin crossed', answer'[j] = "taken"
                 PROVE  active'[kind'[j]] = j
    BY <1>0, <2>1 DEF Watches!RunningIsKnown
  <2>3. kind[j] \in Watches!Kinds /\ kind'[j] = kind[j]
    BY <1>0, <2>1, <2>2 DEF PhaseInv
  <2>4. kind[j] \notin c.kinds
    BY <1>0, <2>1, <2>2 DEF StopInv, Live
  <2>5. active[kind[j]] = j
    BY <2>1, <2>2 DEF Watches!RunningIsKnown
  <2>9. QED
    BY <1>0, <2>1, <2>3, <2>4, <2>5
<1>16. ASSUME NEW i \in Pair,
          Watches!DialFails(i) \/ Watches!CommandFails(i)
          \/ Watches!Opens(i) \/ Watches!TooLong(i)
       PROVE  UNCHANGED <<kind, registered, crossed, answer, active>>
  BY <1>16
    DEF Watches!DialFails, Watches!CommandFails, Watches!Opens, Watches!TooLong, Watches!managed,
      Watches!window, Watches!history
<1>17. CASE UNCHANGED Watches!vars
  BY <1>1, <1>17 DEF Watches!vars, Watches!managed, Watches!window, Watches!history
<1>18. QED
  BY <1>1, <1>2, <1>3, <1>4, <1>5, <1>6, <1>7, <1>8, <1>9, <1>10, <1>11, <1>12, <1>13, <1>14, <1>15,
     <1>16, <1>17
    DEF Watches!Next

\* A stop is for what the window has when it asks.
LEMMA StopStep ==
  ASSUME WatchTypes, StopInv, PhaseInv, Watches!RunningIsKnown, [Watches!Next]_(Watches!vars)
  PROVE  StopInv'
<1>0. /\ kind \in [Pair -> Watches!Kinds \cup {None}]
      /\ phase \in [Pair -> Watches!Phases]
      /\ answer \in [Pair -> {"none", "sent", "taken"}]
      /\ active \in [Watches!Kinds -> Pair \cup {None}]
      /\ registered \subseteq {i \in Pair : phase[i] \in {"running", "held"}}
      /\ scope \in registered \cup {None} /\ None \notin Pair /\ None \notin Watches!Kinds
      /\ calls \subseteq [kinds : SUBSET Watches!Kinds, ids : SUBSET Pair]
  BY DEF WatchTypes, WatchConstants, WatchFields, MapInv, CallTypes
<1>1. CASE UNCHANGED <<kind, phase, registered, crossed, answer, calls>>
  BY <1>0, <1>1 DEF StopInv, Live
<1>2. ASSUME NEW i \in Pair, NEW k \in Watches!Kinds, Watches!Request(i, k) PROVE StopInv'
  <2>1. /\ phase[i] = "unused"
        /\ kind' = [kind EXCEPT ![i] = k] /\ phase' = [phase EXCEPT ![i] = "dialing"]
        /\ UNCHANGED <<registered, answer, calls>>
        /\ crossed \subseteq crossed'
        /\ Watches!Stopping(k) # {} => i \in crossed'
    BY <1>2 DEF Watches!Request, Watches!window
  <2>2. SUFFICES ASSUME NEW c \in calls, NEW j \in Pair, kind'[j] \in c.kinds, Live(j)', j \notin crossed'
                 PROVE  j \in registered' /\ answer'[j] = "taken" /\ j \in c.ids
    BY <2>1 DEF StopInv
  <2>3. j # i
    BY <1>0, <2>1, <2>2 DEF Watches!Stopping
  <2>4. QED
    BY <1>0, <2>1, <2>2, <2>3 DEF StopInv, Live
<1>3. ASSUME NEW i \in Pair, Watches!DialFails(i) PROVE StopInv'
  BY <1>0, <1>3
    DEF Watches!DialFails, StopInv, Live, Watches!managed, Watches!window, Watches!history
<1>4. ASSUME NEW i \in Pair, Watches!CommandFails(i) PROVE StopInv'
  BY <1>0, <1>4
    DEF Watches!CommandFails, StopInv, Live, Watches!managed, Watches!window, Watches!history
<1>5. ASSUME NEW i \in Pair, Watches!Opens(i) PROVE StopInv'
  BY <1>0, <1>5 DEF Watches!Opens, StopInv, Live, Watches!managed, Watches!window, Watches!history
<1>6. ASSUME NEW i \in Pair, Watches!StartLogStream(i) PROVE StopInv'
  BY <1>0, <1>6
    DEF Watches!StartLogStream, Watches!Added, StopInv, Live, Watches!managed, Watches!window,
      Watches!history
<1>7. ASSUME NEW i \in Pair, Watches!StartStatsWatch(i) PROVE StopInv'
  BY <1>0, <1>7
    DEF Watches!StartStatsWatch, Watches!Added, StopInv, Live, Watches!managed, Watches!window,
      Watches!history
<1>8. ASSUME NEW i \in Pair, Watches!StartWatch(i) PROVE StopInv'
  BY <1>0, <1>8
    DEF Watches!StartWatch, Watches!Added, StopInv, Live, Watches!managed, Watches!window,
      Watches!history
<1>9. ASSUME NEW i \in Pair, Watches!StartJournalFollow(i) PROVE StopInv'
  BY <1>0, <1>9
    DEF Watches!StartJournalFollow, Watches!Added, Watches!registerJournalWatcher, Watches!Hears,
      StopInv, Live, Watches!managed, Watches!window, Watches!history
<1>10. ASSUME NEW i \in Pair, Watches!LogEnds(i) PROVE StopInv'
  BY <1>0, <1>10
    DEF Watches!LogEnds, Watches!Gone, StopInv, Live, Watches!managed, Watches!window,
      Watches!history
<1>11. ASSUME NEW i \in Pair, Watches!StatsEnd(i) PROVE StopInv'
  BY <1>0, <1>11
    DEF Watches!StatsEnd, Watches!Gone, StopInv, Live, Watches!managed, Watches!window,
      Watches!history
<1>12. ASSUME NEW i \in Pair, Watches!WatchEnds(i) PROVE StopInv'
  BY <1>0, <1>12
    DEF Watches!WatchEnds, Watches!Gone, Watches!Hears, StopInv, Live, Watches!managed,
      Watches!window, Watches!history
<1>13. ASSUME NEW i \in Pair, Watches!JournalEnds(i) PROVE StopInv'
  BY <1>0, <1>13
    DEF Watches!JournalEnds, Watches!Gone, Watches!Hears, StopInv, Live, Watches!managed,
      Watches!window, Watches!history
<1>14. ASSUME NEW i \in Pair, Watches!TooLong(i) PROVE StopInv'
  BY <1>0, <1>14
    DEF Watches!TooLong, StopInv, Live, Watches!managed, Watches!window, Watches!history
<1>15. ASSUME NEW i \in Pair, Watches!Answer(i) PROVE StopInv'
  BY <1>0, <1>15 DEF Watches!Answer, StopInv, Live, Watches!managed, Watches!window, Watches!history
<1>16. CASE Watches!StopServer
  BY <1>0, <1>16
    DEF Watches!StopServer, StopInv, Live, Watches!managed, Watches!window, Watches!history
<1>17. ASSUME NEW ks \in Watches!Groups, Watches!AskStop(ks) PROVE StopInv'
  <2> DEFINE ids == {active[k] : k \in ks} \ {None}
             asked == [kinds |-> ks, ids |-> ids]
  <2>1. /\ calls' = calls \cup {asked} /\ ids # {}
        /\ crossed' = crossed \cup UNION {Watches!Known(k) : k \in {l \in ks : Watches!Starting(l) # {}}}
        /\ UNCHANGED <<kind, phase, transport, gen, registered, scope, generation, active, answer, told, missed,
                        overtaken>>
    BY <1>17 DEF Watches!AskStop, Watches!managed
  <2>2. ks \subseteq Watches!Kinds
    BY DEF Watches!Groups, Watches!Kinds
  <2>3. ids \subseteq Pair
    BY <1>0, <2>2
  <2>4. asked \in [kinds : SUBSET Watches!Kinds, ids : SUBSET Pair] /\ asked.kinds = ks /\ asked.ids = ids
    BY <2>2, <2>3
  <2>5. SUFFICES ASSUME NEW d \in calls', NEW j \in Pair, kind'[j] \in d.kinds, Live(j)', j \notin crossed'
                 PROVE  j \in registered' /\ answer'[j] = "taken" /\ j \in d.ids
    BY DEF StopInv
  <2>6. kind[j] \in d.kinds /\ Live(j) /\ j \notin crossed
    BY <2>1, <2>5 DEF Live
  <2>7. CASE d \in calls
    BY <2>1, <2>6, <2>7 DEF StopInv
  <2>8. CASE d = asked
    <3>1. kind[j] \in ks /\ phase[j] # "over"
      BY <1>0, <2>4, <2>6, <2>8 DEF Live
    <3>2. Watches!Starting(kind[j]) = {}
      BY <2>1, <2>5, <3>1 DEF Watches!Known
    <3>3. j \in registered /\ answer[j] = "taken"
      BY <1>0, <2>6, <3>2 DEF Watches!Starting, Live, PhaseInv
    <3>4. active[kind[j]] = j
      BY <2>6, <3>3 DEF Watches!RunningIsKnown
    <3>5. j \in ids
      BY <1>0, <3>1, <3>4
    <3>6. QED
      BY <2>1, <2>4, <2>8, <3>3, <3>5
  <2>9. QED
    BY <2>1, <2>7, <2>8
<1>18. ASSUME NEW c \in calls, Watches!StopCall(c) PROVE StopInv'
  BY <1>0, <1>18
    DEF Watches!StopCall, Watches!Stopped, Watches!Hears, StopInv, Live, Watches!managed,
      Watches!window, Watches!history
<1>19. ASSUME NEW c \in calls, Watches!StopAnswered(c) PROVE StopInv'
  BY <1>0, <1>19
    DEF Watches!StopAnswered, StopInv, Live, Watches!managed, Watches!window, Watches!history
<1>20. CASE UNCHANGED Watches!vars
  BY <1>1, <1>20 DEF Watches!vars, Watches!managed, Watches!window, Watches!history
<1>21. QED
  BY <1>1, <1>2, <1>3, <1>4, <1>5, <1>6, <1>7, <1>8, <1>9, <1>10, <1>11, <1>12, <1>13, <1>14, <1>15,
     <1>16, <1>17, <1>18, <1>19, <1>20
    DEF Watches!Next

\* Only an answer is filed, under the kind of its watch.
LEMMA FiledStep ==
  ASSUME WatchTypes, FiledInv, PhaseInv, [Watches!Next]_(Watches!vars)
  PROVE  FiledInv'
<1>0. /\ kind \in [Pair -> Watches!Kinds \cup {None}]
      /\ phase \in [Pair -> Watches!Phases]
      /\ answer \in [Pair -> {"none", "sent", "taken"}]
      /\ active \in [Watches!Kinds -> Pair \cup {None}]
      /\ scope \in registered \cup {None} /\ None \notin Pair /\ None \notin Watches!Kinds
      /\ calls \subseteq [kinds : SUBSET Watches!Kinds, ids : SUBSET Pair]
  BY DEF WatchTypes, WatchConstants, WatchFields, MapInv, CallTypes
<1>1. CASE UNCHANGED <<kind, answer, active, calls>>
  BY <1>0, <1>1 DEF FiledInv, PhaseInv
<1>2. ASSUME NEW i \in Pair, NEW k \in Watches!Kinds, Watches!Request(i, k) PROVE FiledInv'
  BY <1>0, <1>2
    DEF Watches!Request, FiledInv, PhaseInv, Watches!managed, Watches!window, Watches!history
<1>3. ASSUME NEW i \in Pair, Watches!StartLogStream(i) PROVE FiledInv'
  BY <1>0, <1>3
    DEF Watches!StartLogStream, Watches!Added, FiledInv, PhaseInv, Watches!managed, Watches!window,
      Watches!history
<1>4. ASSUME NEW i \in Pair, Watches!StartStatsWatch(i) PROVE FiledInv'
  BY <1>0, <1>4
    DEF Watches!StartStatsWatch, Watches!Added, FiledInv, PhaseInv, Watches!managed, Watches!window,
      Watches!history
<1>5. ASSUME NEW i \in Pair, Watches!StartWatch(i) PROVE FiledInv'
  BY <1>0, <1>5
    DEF Watches!StartWatch, Watches!Added, FiledInv, PhaseInv, Watches!managed, Watches!window,
      Watches!history
<1>6. ASSUME NEW i \in Pair, Watches!StartJournalFollow(i) PROVE FiledInv'
  BY <1>0, <1>6
    DEF Watches!StartJournalFollow, Watches!Added, Watches!registerJournalWatcher, Watches!Hears,
      FiledInv, PhaseInv, Watches!managed, Watches!window, Watches!history
<1>7. ASSUME NEW i \in Pair, Watches!WatchEnds(i) PROVE FiledInv'
  BY <1>0, <1>7
    DEF Watches!WatchEnds, Watches!Gone, Watches!Hears, FiledInv, PhaseInv, Watches!managed,
      Watches!window, Watches!history
<1>8. ASSUME NEW i \in Pair, Watches!JournalEnds(i) PROVE FiledInv'
  BY <1>0, <1>8
    DEF Watches!JournalEnds, Watches!Gone, Watches!Hears, FiledInv, PhaseInv, Watches!managed,
      Watches!window, Watches!history
<1>9. ASSUME NEW i \in Pair, Watches!Answer(i) PROVE FiledInv'
  BY <1>0, <1>9
    DEF Watches!Answer, FiledInv, PhaseInv, Watches!managed, Watches!window, Watches!history
<1>10. CASE Watches!StopServer
  BY <1>0, <1>10
    DEF Watches!StopServer, FiledInv, PhaseInv, Watches!managed, Watches!window, Watches!history
<1>11. ASSUME NEW ks \in Watches!Groups, Watches!AskStop(ks) PROVE FiledInv'
  <2> DEFINE ids == {active[k] : k \in ks} \ {None}
             asked == [kinds |-> ks, ids |-> ids]
  <2>1. /\ calls' = calls \cup {asked} /\ ids # {}
        /\ crossed' = crossed \cup UNION {Watches!Known(k) : k \in {l \in ks : Watches!Starting(l) # {}}}
        /\ UNCHANGED <<kind, phase, transport, gen, registered, scope, generation, active, answer, told, missed,
                        overtaken>>
    BY <1>11 DEF Watches!AskStop, Watches!managed
  <2>2. ks \subseteq Watches!Kinds
    BY DEF Watches!Groups, Watches!Kinds
  <2>3. ids \subseteq Pair
    BY <1>0, <2>2
  <2>4. asked \in [kinds : SUBSET Watches!Kinds, ids : SUBSET Pair] /\ asked.kinds = ks /\ asked.ids = ids
    BY <2>2, <2>3
  <2>5. \A j \in ids : answer[j] = "taken"
    BY <1>0, <2>2 DEF FiledInv
  <2>6. \A d \in calls' : \A j \in d.ids : answer[j] = "taken"
    BY <2>1, <2>4, <2>5 DEF FiledInv
  <2>7. QED
    BY <2>1, <2>6 DEF FiledInv
<1>12. ASSUME NEW c \in calls, Watches!StopCall(c) PROVE FiledInv'
  <2>1. PICK i \in c.ids : Watches!Stopped(i) /\ calls' = (calls \ {c}) \cup {[c EXCEPT !.ids = @ \ {i}]}
    BY <1>12 DEF Watches!StopCall
  <2>2. UNCHANGED <<kind, phase, gen, generation, answer, missed, crossed, overtaken>>
    BY <1>12 DEF Watches!StopCall
  <2>3. /\ c \in [kinds : SUBSET Watches!Kinds, ids : SUBSET Pair] /\ i \in Pair /\ i \in c.ids
        /\ [c EXCEPT !.ids = @ \ {i}] \in [kinds : SUBSET Watches!Kinds, ids : SUBSET Pair]
        /\ [c EXCEPT !.ids = @ \ {i}].kinds = c.kinds /\ [c EXCEPT !.ids = @ \ {i}].ids = c.ids \ {i}
    BY <1>0, <2>1
  <2>4. \A k \in Watches!Kinds : active'[k] \in {active[k], None}
    BY <1>0, <2>1 DEF Watches!Stopped, Watches!Hears
  <2>5. \A d \in calls' : \A j \in d.ids : answer[j] = "taken"
    BY <1>0, <2>1, <2>3 DEF FiledInv
  <2>6. QED
    BY <1>0, <2>2, <2>4, <2>5 DEF FiledInv
<1>13. ASSUME NEW c \in calls, Watches!StopAnswered(c) PROVE FiledInv'
  BY <1>0, <1>13
    DEF Watches!StopAnswered, FiledInv, PhaseInv, Watches!managed, Watches!window, Watches!history
<1>14. ASSUME NEW i \in Pair,
          Watches!DialFails(i) \/ Watches!CommandFails(i)
          \/ Watches!Opens(i) \/ Watches!LogEnds(i) \/ Watches!StatsEnd(i)
          \/ Watches!TooLong(i)
       PROVE  UNCHANGED <<kind, answer, active, calls>>
  BY <1>14
    DEF Watches!DialFails, Watches!CommandFails, Watches!Opens, Watches!LogEnds, Watches!StatsEnd,
      Watches!TooLong, Watches!Gone, Watches!managed, Watches!window, Watches!history
<1>15. CASE UNCHANGED Watches!vars
  BY <1>1, <1>15 DEF Watches!vars, Watches!managed, Watches!window, Watches!history
<1>16. QED
  BY <1>1, <1>2, <1>3, <1>4, <1>5, <1>6, <1>7, <1>8, <1>9, <1>10, <1>11, <1>12, <1>13, <1>14, <1>15
    DEF Watches!Next

\* What leaves the map is taken from the window, or noted.
LEMMA OvertakenStep ==
  ASSUME WatchTypes, OvertakenInv, PhaseInv, ScopeInv, FiledInv, [Watches!Next]_(Watches!vars)
  PROVE  OvertakenInv'
<1>0. /\ kind \in [Pair -> Watches!Kinds \cup {None}]
      /\ phase \in [Pair -> Watches!Phases]
      /\ answer \in [Pair -> {"none", "sent", "taken"}]
      /\ active \in [Watches!Kinds -> Pair \cup {None}]
      /\ scope \in registered \cup {None} /\ None \notin Pair /\ None \notin Watches!Kinds
      /\ registered \subseteq {i \in Pair : phase[i] \in {"running", "held"}}
      /\ calls \subseteq [kinds : SUBSET Watches!Kinds, ids : SUBSET Pair]
      /\ {"journal", "process"} \subseteq Watches!Kinds
  BY DEF WatchTypes, WatchConstants, WatchFields, MapInv, CallTypes, Watches!Kinds
<1>1. CASE UNCHANGED <<phase, registered, answer, active, overtaken>>
  BY <1>0, <1>1 DEF OvertakenInv, PhaseInv, FiledInv
<1>2. ASSUME NEW i \in Pair, NEW k \in Watches!Kinds, Watches!Request(i, k) PROVE OvertakenInv'
  BY <1>0, <1>2
    DEF Watches!Request, OvertakenInv, PhaseInv, FiledInv, Watches!managed, Watches!window,
      Watches!history
<1>3. ASSUME NEW i \in Pair, Watches!DialFails(i) PROVE OvertakenInv'
  BY <1>0, <1>3
    DEF Watches!DialFails, OvertakenInv, PhaseInv, FiledInv, Watches!managed, Watches!window,
      Watches!history
<1>4. ASSUME NEW i \in Pair, Watches!CommandFails(i) PROVE OvertakenInv'
  BY <1>0, <1>4
    DEF Watches!CommandFails, OvertakenInv, PhaseInv, FiledInv, Watches!managed, Watches!window,
      Watches!history
<1>5. ASSUME NEW i \in Pair, Watches!Opens(i) PROVE OvertakenInv'
  BY <1>0, <1>5
    DEF Watches!Opens, OvertakenInv, PhaseInv, FiledInv, Watches!managed, Watches!window,
      Watches!history
<1>6. ASSUME NEW i \in Pair, Watches!StartLogStream(i) PROVE OvertakenInv'
  BY <1>0, <1>6
    DEF Watches!StartLogStream, Watches!Added, OvertakenInv, PhaseInv, FiledInv, Watches!managed,
      Watches!window, Watches!history
<1>7. ASSUME NEW i \in Pair, Watches!StartStatsWatch(i) PROVE OvertakenInv'
  BY <1>0, <1>7
    DEF Watches!StartStatsWatch, Watches!Added, OvertakenInv, PhaseInv, FiledInv, Watches!managed,
      Watches!window, Watches!history
<1>8. ASSUME NEW i \in Pair, Watches!StartWatch(i) PROVE OvertakenInv'
  BY <1>0, <1>8
    DEF Watches!StartWatch, Watches!Added, OvertakenInv, PhaseInv, FiledInv, Watches!managed,
      Watches!window, Watches!history
<1>9. ASSUME NEW i \in Pair, Watches!StartJournalFollow(i) PROVE OvertakenInv'
  BY <1>0, <1>9
    DEF Watches!StartJournalFollow, Watches!Added, Watches!registerJournalWatcher, Watches!Hears,
      OvertakenInv, PhaseInv, FiledInv, Watches!managed, Watches!window, Watches!history
<1>10. ASSUME NEW i \in Pair, Watches!LogEnds(i) PROVE OvertakenInv'
  BY <1>0, <1>10
    DEF Watches!LogEnds, Watches!Gone, OvertakenInv, PhaseInv, FiledInv, Watches!managed,
      Watches!window, Watches!history
<1>11. ASSUME NEW i \in Pair, Watches!StatsEnd(i) PROVE OvertakenInv'
  BY <1>0, <1>11
    DEF Watches!StatsEnd, Watches!Gone, OvertakenInv, PhaseInv, FiledInv, Watches!managed,
      Watches!window, Watches!history
<1>12. ASSUME NEW i \in Pair, Watches!WatchEnds(i) PROVE OvertakenInv'
  BY <1>0, <1>12
    DEF Watches!WatchEnds, Watches!Gone, Watches!Hears, OvertakenInv, PhaseInv, FiledInv,
      Watches!managed, Watches!window, Watches!history
<1>13. ASSUME NEW i \in Pair, Watches!JournalEnds(i) PROVE OvertakenInv'
  BY <1>0, <1>13
    DEF Watches!JournalEnds, Watches!Gone, Watches!Hears, OvertakenInv, PhaseInv, FiledInv,
      Watches!managed, Watches!window, Watches!history
<1>14. ASSUME NEW i \in Pair, Watches!TooLong(i) PROVE OvertakenInv'
  BY <1>0, <1>14
    DEF Watches!TooLong, OvertakenInv, PhaseInv, FiledInv, Watches!managed, Watches!window,
      Watches!history
<1>15. ASSUME NEW i \in Pair, Watches!Answer(i) PROVE OvertakenInv'
  BY <1>0, <1>15
    DEF Watches!Answer, OvertakenInv, PhaseInv, FiledInv, Watches!managed, Watches!window,
      Watches!history
<1>16. CASE Watches!StopServer
  BY <1>0, <1>16
    DEF Watches!StopServer, OvertakenInv, PhaseInv, FiledInv, Watches!managed, Watches!window,
      Watches!history
<1>17. ASSUME NEW c \in calls, Watches!StopCall(c) PROVE OvertakenInv'
  BY <1>0, <1>17
    DEF Watches!StopCall, Watches!Stopped, Watches!Hears, OvertakenInv, PhaseInv, FiledInv,
      Watches!managed, Watches!window, Watches!history
<1>18. ASSUME NEW c \in calls, Watches!StopAnswered(c) PROVE OvertakenInv'
  BY <1>0, <1>18
    DEF Watches!StopAnswered, OvertakenInv, PhaseInv, FiledInv, Watches!managed, Watches!window,
      Watches!history
<1>19. ASSUME NEW ks \in Watches!Groups,
          Watches!AskStop(ks)
       PROVE  UNCHANGED <<phase, registered, answer, active, overtaken>>
  BY <1>19 DEF Watches!AskStop, Watches!managed, Watches!window, Watches!history
<1>20. CASE UNCHANGED Watches!vars
  BY <1>1, <1>20 DEF Watches!vars, Watches!managed, Watches!window, Watches!history
<1>21. QED
  BY <1>1, <1>2, <1>3, <1>4, <1>5, <1>6, <1>7, <1>8, <1>9, <1>10, <1>11, <1>12, <1>13, <1>14, <1>15,
     <1>16, <1>17, <1>18, <1>19, <1>20
    DEF Watches!Next

\* Every step keeps the invariant.
LEMMA WatchStep ==
  ASSUME WatchInv, [Watches!Next]_(Watches!vars)
  PROVE  WatchInv'
<1>1. /\ WatchTypes /\ PhaseInv /\ Watches!NoLeakedTransport /\ StartedInv /\ ScopeInv /\ ToldInv
      /\ AloneInv /\ Watches!RunningIsKnown /\ StopInv /\ FiledInv /\ OvertakenInv
  BY DEF WatchInv
<1>2. WatchTypes'
  <2>1. WatchFields /\ MapInv /\ CallTypes /\ WatchConstants
    BY <1>1 DEF WatchTypes
  <2>2. WatchFields' /\ MapInv' /\ CallTypes'
    BY <1>1, <2>1, FieldsStep, MapStep, CallTypesStep
  <2>3. WatchConstants'
    BY <2>1 DEF WatchConstants, Watches!Kinds
  <2>4. QED
    BY <2>2, <2>3 DEF WatchTypes
<1>3. PhaseInv' /\ Watches!NoLeakedTransport' /\ StartedInv' /\ ScopeInv'
  BY <1>1, PhaseStep, LeakStep, StartedStep, ScopeStep
<1>4. ToldInv' /\ AloneInv' /\ Watches!RunningIsKnown' /\ StopInv'
  BY <1>1, ToldStep, AloneStep, RunningStep, StopStep
<1>5. FiledInv' /\ OvertakenInv'
  BY <1>1, FiledStep, OvertakenStep
<1>6. QED
  BY <1>2, <1>3, <1>4, <1>5 DEF WatchInv

\* Of the streams and watches every connection can be found, the window knows what runs and
\* hears what ended, and the end of a journal is told once (StartWatch, StopServer,
\* registerJournalWatcher, runJournalWatcher).
THEOREM WatchesKnown == Spec => []WatchesAreKnown
<1> DEFINE Inv == part = "watches" => WatchInv
<1>1. Watches!Init => WatchInv
  <2>1. SUFFICES ASSUME Watches!Init PROVE WatchInv
    OBVIOUS
  <2>2. WatchTypes
    <3>0. WatchConstants
      BY NameAssumption, BoundAssumption DEF WatchConstants, Watches!Kinds
    <3>1. 0 \in 0..MaxStops /\ 0 \in Nat /\ "unused" \in Watches!Phases
      BY <3>0 DEF WatchConstants, Watches!Phases
    <3>2. QED
      BY <2>1, <3>0, <3>1 DEF Watches!Init, WatchTypes, WatchFields, MapInv, CallTypes
  <2>3. PhaseInv /\ Watches!NoLeakedTransport /\ StartedInv /\ ScopeInv /\ ToldInv
    BY <2>1 DEF Watches!Init, PhaseInv, Watches!NoLeakedTransport, StartedInv, ScopeInv,
       Watches!OneFollow, ToldInv
  <2>4. AloneInv /\ Watches!RunningIsKnown /\ StopInv
    BY <2>1 DEF Watches!Init, AloneInv, Begun, Live, Watches!RunningIsKnown, StopInv
  <2>5. FiledInv /\ OvertakenInv
    BY <2>1 DEF Watches!Init, FiledInv, OvertakenInv, Watches!Kinds
  <2>6. QED
    BY <2>2, <2>3, <2>4, <2>5 DEF WatchInv
<1>2. WatchInv /\ [Watches!Next]_(Watches!vars) => WatchInv'
  BY WatchStep
<1>3. WatchInv => Watches!WatchesAreKnown
  <2>1. SUFFICES ASSUME WatchInv PROVE Watches!WatchesAreKnown
    OBVIOUS
  <2>2. Watches!TypeOK
    BY <2>1 DEF WatchInv, WatchTypes, WatchFields, MapInv, Watches!TypeOK
  <2>3. Watches!StopServerEnds
    BY <2>1 DEF WatchInv, WatchTypes, MapInv, StartedInv, Watches!StopServerEnds
  <2>4. Watches!EndIsToldOnce
    BY <2>1 DEF WatchInv, ToldInv, Watches!EndIsToldOnce
  <2>5. Watches!FollowedRuns
    <3>1. \A i \in registered : phase[i] # "over"
      BY <2>1 DEF WatchInv, WatchTypes, MapInv
    <3>2. QED
      BY <2>1, <3>1 DEF WatchInv, OvertakenInv, Watches!FollowedRuns
  <2>6. Watches!NoLeakedTransport /\ Watches!OneFollow /\ Watches!RunningIsKnown
    BY <2>1 DEF WatchInv, ScopeInv
  <2>7. QED
    BY <2>2, <2>3, <2>4, <2>5, <2>6 DEF Watches!WatchesAreKnown
<1>4. Init => Inv
  BY <1>1 DEF Init
<1>5. Inv /\ [Next]_vars => Inv'
  <2>1. [Next]_vars /\ part' = "watches" => part = "watches" /\ [Watches!Next]_(Watches!vars)
    <3>1. UNCHANGED vars => part' = part /\ UNCHANGED Watches!vars
      BY DEF vars, Watches!vars, Watches!managed, Watches!window, Watches!history
    <3>2. Next /\ part' = "watches" => part = "watches" /\ Watches!Next
      BY DEF Next
    <3>3. QED
      BY <3>1, <3>2
  <2>2. QED
    BY <2>1, <1>2
<1>6. Inv => WatchesAreKnown
  BY <1>3 DEF WatchesAreKnown
<1>7. QED
  BY <1>4, <1>5, <1>6, PTL DEF Spec
----------------------------------------------------------------------------
\* System services.

\* A call, an action and a unit are told apart by their names; None is none of them.
ServiceConstants == Units \cap Pair = {} /\ None \notin Units \cup Pair \cup {"systemd", "procd"}

Capabilities == {None, "systemd", "procd", "unsupported"}

Record ==
  [goal : Services!Goals, unit : Units \cup {None}, action : Services!Actions \cup {None},
   phase : Services!Phases, key : Units \cup Pair \cup {None}, live : BOOLEAN, old : BOOLEAN,
   missed : BOOLEAN, erred : BOOLEAN, cap : Capabilities,
   read : [Units -> SUBSET Services!Actions] \cup {None}, behind : SUBSET Units]

ServerFields ==
  /\ init \in {"systemd", "procd", "other"}
  /\ remote \in [Units -> Services!UnitStates]
  /\ cache \in Capabilities
  /\ shown \in [Units -> (SUBSET Services!Actions) \cup {None}]
  /\ touched \subseteq Units

CallFields == call \in [Pair -> Record \cup {None}]
OperationFields == operations \in [Units \cup Pair -> Pair \cup {None}]

ServiceTypes == ServiceConstants /\ ServerFields /\ CallFields /\ OperationFields

\* What a call is, by its kind; the key it is registered under, by its phase; and what it knows
\* of the server.
Fits(k, r) ==
  /\ r.goal = "action" => r.unit \in Units /\ r.action \in Services!Actions
  /\ r.goal = "action" => r.phase \notin {"work", "answer"}
  /\ r.phase \in {"exclusive", "open action", "command"} => r.goal = "action"
  /\ r.phase \in {"open action", "command"} => r.unit \notin Protected
  /\ r.phase \in {"asked", "exclusive"} => r.key = None
  /\ r.phase \in {"open", "detect systemd", "detect procd", "work", "answer"} => r.key = k
  /\ r.phase \in {"open action", "command"} => r.key = r.unit
  /\ r.cap \in {"systemd", "procd"} => r.cap = init
  /\ r.phase = "work" => r.cap \in {"systemd", "procd"}
  /\ r.phase = "detect procd" /\ ~r.erred => init # "systemd"
  /\ r.phase = "answer" => r.read \in [Units -> SUBSET Services!Actions]

CallInv == \A k \in Pair : call[k] # None => Fits(k, call[k])

CapInv == cache \in {"systemd", "procd"} => cache = init

\* The actions that the server does not refuse as impossible, and a restart of a masked unit.
Possible(u) ==
  {a \in Services!Actions : Services!Accepts(a, remote[u]) \/ (a = "restart" /\ remote[u].file = "masked")}

\* What a list offers stays possible until the unit changes: in the window, in an answer that
\* is under way, and of the action that was chosen.
OfferInv ==
  /\ \A u \in Units : shown[u] # None /\ u \notin touched => shown[u] \subseteq Possible(u)
  /\ \A k \in Pair : call[k] # None =>
       /\ call[k].phase = "answer" => \A u \in Units \ call[k].behind : call[k].read[u] \subseteq Possible(u)
       /\ call[k].goal = "action" /\ call[k].unit \notin call[k].behind =>
            call[k].action \in Possible(call[k].unit)

ServiceInv ==
  /\ ServiceTypes /\ CallInv /\ CapInv /\ OfferInv
  /\ Services!LiveIsRegistered /\ Services!CapabilityIsOfServer /\ Services!StopServerCancels

\* A row offers what is possible.
LEMMA RowsOffer ==
  ASSUME ServiceTypes, NEW c \in {"systemd", "procd"}, c = init
  PROVE  /\ Services!Rows(c) \in [Units -> SUBSET Services!Actions]
         /\ \A u \in Units : Services!Rows(c)[u] \subseteq Possible(u)
<1>0. \A u \in Units :
        remote[u].active \in {"active", "inactive", "failed"} /\ remote[u].file \in {"enabled", "disabled", "masked"}
  BY DEF ServiceTypes, ServerFields, Services!UnitStates
<1>1. CASE c = "systemd"
  <2>1. Services!Rows(c) = [u \in Units |-> Services!decorateSummary(u, remote[u])]
    BY <1>1 DEF Services!Rows, Services!parseSystemdServiceList
  <2>2. ASSUME NEW u \in Units PROVE Services!decorateSummary(u, remote[u]) \subseteq Possible(u)
    BY <1>0 DEF Services!decorateSummary, Possible, Services!Accepts, Services!Actions
  <2>3. \A u \in Units : Possible(u) \subseteq Services!Actions
    BY DEF Possible
  <2>4. QED
    BY <2>1, <2>2, <2>3
<1>2. CASE c = "procd"
  <2>1. Services!Rows(c) = [u \in Units |-> Services!decorateProcdSummary(u, remote[u])]
    BY <1>2 DEF Services!Rows, Services!parseProcdServiceList
  <2>2. ASSUME NEW u \in Units PROVE Services!decorateProcdSummary(u, remote[u]) \subseteq Possible(u)
    BY <1>2 DEF Services!decorateProcdSummary, Possible, Services!Accepts
  <2>3. \A u \in Units : Possible(u) \subseteq Services!Actions
    BY DEF Possible
  <2>4. QED
    BY <2>1, <2>2, <2>3
<1>3. QED
  BY <1>1, <1>2

\* What a call stays the same in when it moves on, and what it shows of the server once it has
\* read the list.
Same(q, r) ==
  /\ r.goal = q.goal /\ r.unit = q.unit /\ r.action = q.action
  /\ r.live = q.live /\ r.old = q.old /\ r.missed = q.missed
  /\ r.goal = "action" => r.behind = q.behind
  /\ r.phase = "answer" => \A u \in Units : r.read[u] \subseteq Possible(u)

\* The call ends or goes on.
MovesOn(k) ==
  Services!Set(k, None) \/ \E r \in Record : Services!Set(k, r) /\ Fits(k, r) /\ Same(call[k], r)

\* A step that changes one call keeps what holds of the calls.
LEMMA OneCall ==
  ASSUME ServiceTypes, CallInv, init' = init, NEW k \in Pair, NEW r, Services!Set(k, r),
         r # None => r \in Record /\ Fits(k, r)
  PROVE  CallFields' /\ CallInv'
<1>1. \A j \in Pair : call'[j] = IF j = k THEN r ELSE call[j]
  BY DEF Services!Set, ServiceTypes, CallFields
<1>2. CallFields'
  BY DEF Services!Set, ServiceTypes, CallFields
<1>3. ASSUME NEW j \in Pair, call'[j] # None PROVE Fits(j, call[j])'
  <2>1. Fits(j, call'[j])
    BY <1>1, <1>3 DEF CallInv
  <2>2. QED
    BY <2>1 DEF Fits
<1>4. QED
  BY <1>2, <1>3 DEF CallInv

\* What Goes makes of a call that knows the capability.
LEMMA GoesOn ==
  ASSUME ServiceTypes, CallInv, NEW k \in Pair, call[k] # None,
         call[k].phase \in {"open", "detect systemd", "detect procd"},
         NEW c \in {"systemd", "procd", "unsupported"}, c \in {"systemd", "procd"} => c = init,
         Services!Goes(k, c)
  PROVE  MovesOn(k)
<1>0. call[k] \in Record /\ Fits(k, call[k])
  BY DEF ServiceTypes, CallFields, CallInv
<1>1. ASSUME Services!Ends(k) PROVE MovesOn(k)
  BY <1>1 DEF Services!Ends, MovesOn
<1>2. ASSUME call[k].goal = "action",
             Services!Set(k, [call[k] EXCEPT !.phase = "exclusive", !.cap = c, !.key = None, !.erred = FALSE])
      PROVE  MovesOn(k)
  <2> DEFINE r == [call[k] EXCEPT !.phase = "exclusive", !.cap = c, !.key = None, !.erred = FALSE]
  <2>1. /\ r = [call[k] EXCEPT !.phase = "exclusive", !.cap = c, !.key = None, !.erred = FALSE]
        /\ Services!Set(k, r)
        /\ call[k].goal = "action"
    BY <1>2
  <2> HIDE DEF r
  <2>2. /\ r \in Record /\ r.phase = "exclusive" /\ r.cap = c /\ r.key = None /\ r.erred = FALSE
        /\ r.goal = call[k].goal /\ r.unit = call[k].unit /\ r.action = call[k].action
        /\ r.live = call[k].live /\ r.old = call[k].old /\ r.missed = call[k].missed
        /\ r.read = call[k].read /\ r.behind = call[k].behind
    BY <1>0, <2>1 DEF Record, Services!Phases, Capabilities
  <2>3. Fits(k, r) /\ Same(call[k], r)
    BY <1>0, <2>1, <2>2 DEF Fits, Same
  <2>4. QED
    BY <2>1, <2>2, <2>3 DEF MovesOn
<1>3. ASSUME call[k].goal # "action", c # "unsupported",
             Services!Set(k, [call[k] EXCEPT !.phase = "work", !.cap = c, !.erred = FALSE])
      PROVE  MovesOn(k)
  <2> DEFINE r == [call[k] EXCEPT !.phase = "work", !.cap = c, !.erred = FALSE]
  <2>1. /\ r = [call[k] EXCEPT !.phase = "work", !.cap = c, !.erred = FALSE] /\ Services!Set(k, r)
        /\ call[k].goal # "action" /\ c # "unsupported"
    BY <1>3
  <2> HIDE DEF r
  <2>2. /\ r \in Record /\ r.phase = "work" /\ r.cap = c /\ r.erred = FALSE
        /\ r.goal = call[k].goal /\ r.unit = call[k].unit /\ r.action = call[k].action
        /\ r.key = call[k].key /\ r.live = call[k].live /\ r.old = call[k].old
        /\ r.missed = call[k].missed /\ r.read = call[k].read /\ r.behind = call[k].behind
    BY <1>0, <2>1 DEF Record, Services!Phases, Capabilities
  <2>3. Fits(k, r) /\ Same(call[k], r)
    BY <1>0, <2>1, <2>2 DEF Fits, Same
  <2>4. QED
    BY <2>1, <2>2, <2>3 DEF MovesOn
<1>4. QED
  BY <1>1, <1>2, <1>3 DEF Services!Goes

\* The steps of a call that change nothing on the server.
OneStep(k, erred) ==
  \/ Services!BeginOperation(k) \/ Services!CapabilityKnown(k) \/ Services!Opens(k)
  \/ Services!Fails(k) \/ Services!DetectSystemd(k, erred) \/ Services!DetectProcd(k, erred)
  \/ Services!Reads(k) \/ Services!ReadsUnit(k) \/ Services!Answers(k)
  \/ Services!beginExclusiveAction(k) \/ Services!OpensAction(k) \/ Services!CommandFails(k)

\* It ends or goes on.
LEMMA OneMoves ==
  ASSUME ServiceTypes, CallInv, CapInv, NEW k \in Pair, NEW erred \in BOOLEAN,
         OneStep(k, erred)
  PROVE  call[k] # None /\ MovesOn(k)
<1> USE DEF Services!Is, OneStep
<1>a. call[k] # None
  BY DEF Services!BeginOperation, Services!CapabilityKnown, Services!Opens, Services!Fails,
     Services!DetectSystemd,
         Services!DetectProcd, Services!Reads, Services!ReadsUnit, Services!Answers,
         Services!beginExclusiveAction,
         Services!OpensAction, Services!CommandFails
<1>s. SUFFICES MovesOn(k)
  BY <1>a
<1>0. call[k] \in Record /\ Fits(k, call[k])
  BY <1>a DEF ServiceTypes, CallFields, CallInv
<1>e. ASSUME Services!Ends(k) PROVE MovesOn(k)
  BY <1>e DEF Services!Ends, MovesOn
<1>1. CASE Services!BeginOperation(k)
  <2> DEFINE r == [call[k] EXCEPT !.phase = "open", !.key = k]
  <2>1. /\ r = [call[k] EXCEPT !.phase = "open", !.key = k] /\ Services!Set(k, r)
        /\ call[k].phase = "asked"
    BY <1>1 DEF Services!BeginOperation
  <2> HIDE DEF r
  <2>2. /\ r \in Record /\ r.phase = "open" /\ r.key = k
        /\ r.goal = call[k].goal /\ r.unit = call[k].unit /\ r.action = call[k].action
        /\ r.live = call[k].live /\ r.old = call[k].old /\ r.missed = call[k].missed
        /\ r.erred = call[k].erred /\ r.cap = call[k].cap /\ r.read = call[k].read
        /\ r.behind = call[k].behind
    BY <1>0, <2>1 DEF Record, Services!Phases, Capabilities
  <2>3. Fits(k, r) /\ Same(call[k], r)
    BY <1>0, <2>1, <2>2 DEF Fits, Same
  <2>4. QED
    BY <2>1, <2>2, <2>3 DEF MovesOn
<1>2. CASE Services!CapabilityKnown(k)
  <2> DEFINE r == [call[k] EXCEPT !.phase = "exclusive", !.cap = cache]
  <2>1. /\ r = [call[k] EXCEPT !.phase = "exclusive", !.cap = cache] /\ Services!Set(k, r)
        /\ call[k].phase = "asked" /\ call[k].goal = "action" /\ cache \in Capabilities
        /\ cache \in {"systemd", "procd"} => cache = init
    BY <1>2 DEF Services!CapabilityKnown, CapInv, ServiceTypes, ServerFields
  <2> HIDE DEF r
  <2>2. /\ r \in Record /\ r.phase = "exclusive" /\ r.cap = cache
        /\ r.goal = call[k].goal /\ r.unit = call[k].unit /\ r.action = call[k].action
        /\ r.key = call[k].key /\ r.live = call[k].live /\ r.old = call[k].old
        /\ r.missed = call[k].missed /\ r.erred = call[k].erred /\ r.read = call[k].read
        /\ r.behind = call[k].behind
    BY <1>0, <2>1 DEF Record, Services!Phases, Capabilities
  <2>3. Fits(k, r) /\ Same(call[k], r)
    BY <1>0, <2>1, <2>2 DEF Fits, Same
  <2>4. QED
    BY <2>1, <2>2, <2>3 DEF MovesOn
<1>3. CASE Services!Opens(k)
  <2>1. CASE call[k].goal # "check" /\ cache # None
    <3>1. cache \in {"systemd", "procd", "unsupported"} /\ (cache \in {"systemd", "procd"} => cache = init)
      BY <2>1 DEF ServiceTypes, ServerFields, Capabilities, CapInv
    <3>2. QED
      BY <1>3, <1>a, <2>1, <3>1, GoesOn DEF Services!Opens
  <2>2. CASE ~(call[k].goal # "check" /\ cache # None)
    <3> DEFINE r == [call[k] EXCEPT !.phase = "detect systemd"]
    <3>1. /\ r = [call[k] EXCEPT !.phase = "detect systemd"] /\ Services!Set(k, r)
          /\ call[k].phase = "open"
      BY <1>3, <2>2 DEF Services!Opens, Services!Moves
    <3> HIDE DEF r
    <3>2. /\ r \in Record /\ r.phase = "detect systemd"
          /\ r.goal = call[k].goal /\ r.unit = call[k].unit /\ r.action = call[k].action
          /\ r.key = call[k].key /\ r.live = call[k].live /\ r.old = call[k].old
          /\ r.missed = call[k].missed /\ r.erred = call[k].erred /\ r.cap = call[k].cap
          /\ r.read = call[k].read /\ r.behind = call[k].behind
      BY <1>0, <3>1 DEF Record, Services!Phases, Capabilities
    <3>3. Fits(k, r) /\ Same(call[k], r)
      BY <1>0, <3>1, <3>2 DEF Fits, Same
    <3>4. QED
      BY <3>1, <3>2, <3>3 DEF MovesOn
  <2>3. QED
    BY <2>1, <2>2
<1>4. CASE Services!Fails(k) \/ Services!ReadsUnit(k) \/ Services!Answers(k) \/ Services!CommandFails(k)
  BY <1>4, <1>e DEF Services!Fails, Services!ReadsUnit, Services!Answers, Services!CommandFails
<1>5. CASE Services!DetectSystemd(k, erred)
  <2>1. CASE ~erred /\ init = "systemd"
    BY <1>5, <1>a, <2>1, GoesOn DEF Services!DetectSystemd, Services!Detected
  <2>2. CASE ~(~erred /\ init = "systemd")
    <3> DEFINE r == [call[k] EXCEPT !.phase = "detect procd", !.erred = erred]
    <3>1. /\ r = [call[k] EXCEPT !.phase = "detect procd", !.erred = erred] /\ Services!Set(k, r)
          /\ call[k].phase = "detect systemd" /\ (erred \/ init # "systemd")
      BY <1>5, <2>2 DEF Services!DetectSystemd
    <3> HIDE DEF r
    <3>2. /\ r \in Record /\ r.phase = "detect procd" /\ r.erred = erred
          /\ r.goal = call[k].goal /\ r.unit = call[k].unit /\ r.action = call[k].action
          /\ r.key = call[k].key /\ r.live = call[k].live /\ r.old = call[k].old
          /\ r.missed = call[k].missed /\ r.cap = call[k].cap /\ r.read = call[k].read
          /\ r.behind = call[k].behind
      BY <1>0, <3>1 DEF Record, Services!Phases, Capabilities
    <3>3. Fits(k, r) /\ Same(call[k], r)
      BY <1>0, <3>1, <3>2 DEF Fits, Same
    <3>4. QED
      BY <3>1, <3>2, <3>3 DEF MovesOn
  <2>3. QED
    BY <2>1, <2>2
<1>6. CASE Services!DetectProcd(k, erred)
  <2>1. CASE ~erred /\ init = "procd"
    BY <1>6, <1>a, <2>1, GoesOn DEF Services!DetectProcd, Services!Detected
  <2>2. CASE ~(~erred /\ init = "procd")
    BY <1>6, <1>a, <2>2, GoesOn DEF Services!DetectProcd, Services!Detected
  <2>3. QED
    BY <2>1, <2>2
<1>7. CASE Services!Reads(k)
  <2> DEFINE offer == Services!Rows(call[k].cap)
             r == [call[k] EXCEPT !.phase = "answer", !.cap = None, !.read = offer, !.behind = {}]
  <2>1. /\ offer \in [Units -> SUBSET Services!Actions] /\ \A u \in Units : offer[u] \subseteq Possible(u)
        /\ call[k].phase = "work" /\ call[k].goal = "list"
    <3>1. call[k].phase = "work" /\ call[k].goal = "list"
      BY <1>7 DEF Services!Reads
    <3>2. call[k].cap \in {"systemd", "procd"} /\ call[k].cap = init
      BY <1>0, <3>1 DEF Fits
    <3>3. QED
      BY <3>1, <3>2, RowsOffer
  <2>2. Services!Set(k, r)
    BY <1>7 DEF Services!Reads
  <2> HIDE DEF offer
  <2>3. r = [call[k] EXCEPT !.phase = "answer", !.cap = None, !.read = offer, !.behind = {}]
    OBVIOUS
  <2> HIDE DEF r
  <2>4. /\ r \in Record /\ r.phase = "answer" /\ r.read = offer /\ r.behind = {} /\ r.cap = None
        /\ r.goal = call[k].goal /\ r.unit = call[k].unit /\ r.action = call[k].action
        /\ r.key = call[k].key
        /\ r.live = call[k].live /\ r.old = call[k].old /\ r.missed = call[k].missed
    BY <1>0, <2>1, <2>3 DEF Record, Services!Phases, Capabilities
  <2>5. Fits(k, r) /\ Same(call[k], r)
    BY <1>0, <2>1, <2>4 DEF Fits, Same, ServiceTypes, ServiceConstants
  <2>6. QED
    BY <2>2, <2>4, <2>5 DEF MovesOn
<1>8. CASE Services!beginExclusiveAction(k)
  <2> DEFINE Refused ==
        call[k].cap = "unsupported" \/ Services!isProtectedService(call[k].unit) \/ operations[call[k].unit] # None
  <2>1. CASE Refused
    BY <1>8, <1>e, <2>1 DEF Services!beginExclusiveAction
  <2>2. CASE ~Refused
    <3> DEFINE r == [call[k] EXCEPT !.phase = "open action", !.cap = None, !.key = call[k].unit]
    <3>1. /\ r = [call[k] EXCEPT !.phase = "open action", !.cap = None, !.key = call[k].unit]
          /\ Services!Set(k, r)
          /\ call[k].phase = "exclusive" /\ call[k].unit \notin Protected
      BY <1>8, <2>2 DEF Services!beginExclusiveAction, Services!isProtectedService
    <3> HIDE DEF r
    <3>2. /\ r \in Record /\ r.phase = "open action" /\ r.cap = None /\ r.key = call[k].unit
          /\ r.goal = call[k].goal /\ r.unit = call[k].unit /\ r.action = call[k].action
          /\ r.live = call[k].live /\ r.old = call[k].old /\ r.missed = call[k].missed
          /\ r.erred = call[k].erred /\ r.read = call[k].read /\ r.behind = call[k].behind
      BY <1>0, <3>1 DEF Record, Services!Phases, Capabilities
    <3>3. Fits(k, r) /\ Same(call[k], r)
      BY <1>0, <3>1, <3>2 DEF Fits, Same, ServiceTypes, ServiceConstants
    <3>4. QED
      BY <3>1, <3>2, <3>3 DEF MovesOn
  <2>3. QED
    BY <2>1, <2>2
<1>9. CASE Services!OpensAction(k)
  <2> DEFINE r == [call[k] EXCEPT !.phase = "command"]
  <2>1. /\ r = [call[k] EXCEPT !.phase = "command"] /\ Services!Set(k, r)
        /\ call[k].phase = "open action"
    BY <1>9 DEF Services!OpensAction, Services!Moves
  <2> HIDE DEF r
  <2>2. /\ r \in Record /\ r.phase = "command"
        /\ r.goal = call[k].goal /\ r.unit = call[k].unit /\ r.action = call[k].action
        /\ r.key = call[k].key /\ r.live = call[k].live /\ r.old = call[k].old
        /\ r.missed = call[k].missed /\ r.erred = call[k].erred /\ r.cap = call[k].cap
        /\ r.read = call[k].read /\ r.behind = call[k].behind
    BY <1>0, <2>1 DEF Record, Services!Phases, Capabilities
  <2>3. Fits(k, r) /\ Same(call[k], r)
    BY <1>0, <2>1, <2>2 DEF Fits, Same
  <2>4. QED
    BY <2>1, <2>2, <2>3 DEF MovesOn
<1>10. QED
  BY <1>1, <1>2, <1>3, <1>4, <1>5, <1>6, <1>7, <1>8, <1>9

\* Who is registered stays so when another call changes.
LEMMA OneRegistered ==
  ASSUME ServiceTypes, Services!LiveIsRegistered, NEW k \in Pair, NEW r, Services!Set(k, r), OperationFields',
         \A j \in Pair \ {k} :
           call[j] # None /\ call[j].key # None /\ operations[call[j].key] = j => operations'[call[j].key] = j,
         r # None /\ r.live /\ r.key # None => operations'[r.key] = k
  PROVE  OperationFields' /\ Services!LiveIsRegistered'
<1>1. \A j \in Pair : call'[j] = IF j = k THEN r ELSE call[j]
  BY DEF Services!Set, ServiceTypes, CallFields
<1>2. QED
  BY <1>1 DEF Services!LiveIsRegistered

\* Nobody else is taken out of the register by the end of a call.
LEMMA FinishRegistered ==
  ASSUME ServiceTypes, CallInv, Services!LiveIsRegistered, NEW k \in Pair, Services!finishOperation(k),
         NEW r, Services!Set(k, r), r = None \/ r.key = None
  PROVE  OperationFields' /\ Services!LiveIsRegistered'
<1>1. OperationFields'
  BY DEF Services!finishOperation, ServiceTypes, OperationFields
<1>2. ASSUME NEW j \in Pair \ {k}, call[j] # None, call[j].key # None, operations[call[j].key] = j
      PROVE  operations'[call[j].key] = j
  <2>1. call[j].key \in Units \cup Pair
    BY <1>2 DEF ServiceTypes, CallFields, Record
  <2>2. QED
    BY <1>2, <2>1 DEF Services!finishOperation
<1>3. QED
  BY <1>1, <1>2, OneRegistered

\* What Goes does to the register.
LEMMA GoesRegistered ==
  ASSUME ServiceTypes, CallInv, Services!LiveIsRegistered, NEW k \in Pair, call[k] # None, NEW c \in Capabilities,
         Services!Goes(k, c)
  PROVE  OperationFields' /\ Services!LiveIsRegistered'
<1>0. call[k] \in Record
  BY DEF ServiceTypes, CallFields
<1>1. ASSUME Services!Ends(k) PROVE OperationFields' /\ Services!LiveIsRegistered'
  BY <1>1, FinishRegistered DEF Services!Ends
<1>2. ASSUME Services!finishOperation(k),
             Services!Set(k, [call[k] EXCEPT !.phase = "exclusive", !.cap = c, !.key = None, !.erred = FALSE])
      PROVE  OperationFields' /\ Services!LiveIsRegistered'
  <2> DEFINE r == [call[k] EXCEPT !.phase = "exclusive", !.cap = c, !.key = None, !.erred = FALSE]
  <2>1. Services!Set(k, r) /\ r.key = None
    BY <1>0, <1>2 DEF Record
  <2> HIDE DEF r
  <2>2. QED
    BY <1>2, <2>1, FinishRegistered
<1>3. ASSUME UNCHANGED operations, Services!Set(k, [call[k] EXCEPT !.phase = "work", !.cap = c, !.erred = FALSE])
      PROVE  OperationFields' /\ Services!LiveIsRegistered'
  <2> DEFINE r == [call[k] EXCEPT !.phase = "work", !.cap = c, !.erred = FALSE]
  <2>1. Services!Set(k, r) /\ r.key = call[k].key /\ r.live = call[k].live
    BY <1>0, <1>3 DEF Record
  <2> HIDE DEF r
  <2>2. OperationFields'
    BY <1>3 DEF ServiceTypes, OperationFields
  <2>3. r.live /\ r.key # None => operations'[r.key] = k
    BY <1>3, <2>1 DEF Services!LiveIsRegistered
  <2>4. QED
    BY <1>3, <2>1, <2>2, <2>3, OneRegistered
<1>4. QED
  BY <1>1, <1>2, <1>3 DEF Services!Goes

\* A step of a call that changes nothing on the server keeps the register ...
LEMMA MovesRegistered ==
  ASSUME ServiceTypes, CallInv, Services!LiveIsRegistered, NEW k \in Pair, NEW erred \in BOOLEAN,
         OneStep(k, erred)
  PROVE  OperationFields' /\ Services!LiveIsRegistered'
<1> DEFINE Kept == OperationFields' /\ Services!LiveIsRegistered'
<1> USE DEF Services!Is, OneStep
<1>1. call[k] # None
  BY DEF Services!BeginOperation, Services!CapabilityKnown, Services!Opens, Services!Fails,
     Services!DetectSystemd,
         Services!DetectProcd, Services!Reads, Services!ReadsUnit, Services!Answers,
         Services!beginExclusiveAction,
         Services!OpensAction, Services!CommandFails
<1>2. /\ call[k] \in Record /\ Fits(k, call[k])
      /\ Units \cap Pair = {} /\ None \notin Units /\ None \notin Pair
      /\ operations \in [Units \cup Pair -> Pair \cup {None}]
  BY <1>1 DEF ServiceTypes, CallFields, CallInv, ServiceConstants, OperationFields
<1>3. ASSUME Services!Ends(k) PROVE Kept
  BY <1>3, FinishRegistered DEF Services!Ends
\* The register stays, and the call its key and its context.
<1>4. ASSUME UNCHANGED operations, NEW r, Services!Set(k, r), r.key = call[k].key, r.live = call[k].live PROVE Kept
  <2>1. OperationFields'
    BY <1>4 DEF ServiceTypes, OperationFields
  <2>2. r.live /\ r.key # None => operations'[r.key] = k
    BY <1>1, <1>4 DEF Services!LiveIsRegistered
  <2>3. QED
    BY <1>4, <2>1, <2>2, OneRegistered
<1>5. CASE Services!BeginOperation(k)
  <2> DEFINE r == [call[k] EXCEPT !.phase = "open", !.key = k]
  <2>1. /\ Services!Set(k, r) /\ r.key = k
        /\ OperationFields' /\ operations'[k] = k
        /\ \A x \in (Units \cup Pair) \ {k} : operations'[x] = operations[x]
    BY <1>2, <1>5 DEF Services!BeginOperation, Record, OperationFields
  <2> HIDE DEF r
  <2>2. ASSUME NEW j \in Pair \ {k}, call[j] # None, call[j].key # None, operations[call[j].key] = j
        PROVE  operations'[call[j].key] = j
    <3>1. call[j] \in Record /\ Fits(j, call[j])
      BY <2>2 DEF ServiceTypes, CallFields, CallInv
    <3>2. call[j].key \in (Units \cup Pair) \ {k}
      BY <1>2, <2>2, <3>1 DEF Fits, Record, Services!Phases, Services!Goals
    <3>3. QED
      BY <2>1, <2>2, <3>2
  <2>3. QED
    BY <2>1, <2>2, OneRegistered
<1>6. CASE Services!CapabilityKnown(k)
  <2> DEFINE r == [call[k] EXCEPT !.phase = "exclusive", !.cap = cache]
  <2>1. Services!Set(k, r) /\ r.key = call[k].key /\ r.live = call[k].live /\ UNCHANGED operations
    BY <1>2, <1>6 DEF Services!CapabilityKnown, Record
  <2> HIDE DEF r
  <2>2. QED
    BY <2>1, <1>4
<1>7. CASE Services!Opens(k)
  <2>1. CASE call[k].goal # "check" /\ cache # None
    <3>1. cache \in Capabilities
      BY DEF ServiceTypes, ServerFields
    <3>2. QED
      BY <1>1, <1>7, <2>1, <3>1, GoesRegistered DEF Services!Opens
  <2>2. CASE ~(call[k].goal # "check" /\ cache # None)
    <3> DEFINE r == [call[k] EXCEPT !.phase = "detect systemd"]
    <3>1. Services!Set(k, r) /\ r.key = call[k].key /\ r.live = call[k].live /\ UNCHANGED operations
      BY <1>2, <1>7, <2>2 DEF Services!Opens, Services!Moves, Record
    <3> HIDE DEF r
    <3>2. QED
      BY <3>1, <1>4
  <2>3. QED
    BY <2>1, <2>2
<1>8. CASE Services!Fails(k) \/ Services!ReadsUnit(k) \/ Services!Answers(k) \/ Services!CommandFails(k)
  BY <1>8, <1>3 DEF Services!Fails, Services!ReadsUnit, Services!Answers, Services!CommandFails
<1>9. CASE Services!DetectSystemd(k, erred)
  <2>1. CASE ~erred /\ init = "systemd"
    BY <1>9, <1>1, <2>1, GoesRegistered DEF Services!DetectSystemd, Services!Detected, Capabilities
  <2>2. CASE ~(~erred /\ init = "systemd")
    <3> DEFINE r == [call[k] EXCEPT !.phase = "detect procd", !.erred = erred]
    <3>1. Services!Set(k, r) /\ r.key = call[k].key /\ r.live = call[k].live /\ UNCHANGED operations
      BY <1>2, <1>9, <2>2 DEF Services!DetectSystemd, Record
    <3> HIDE DEF r
    <3>2. QED
      BY <3>1, <1>4
  <2>3. QED
    BY <2>1, <2>2
<1>10. CASE Services!DetectProcd(k, erred)
  <2>1. CASE ~erred /\ init = "procd"
    BY <1>10, <1>1, <2>1, GoesRegistered DEF Services!DetectProcd, Services!Detected, Capabilities
  <2>2. CASE ~(~erred /\ init = "procd")
    BY <1>10, <1>1, <2>2, GoesRegistered DEF Services!DetectProcd, Services!Detected, Capabilities
  <2>3. QED
    BY <2>1, <2>2
<1>11. CASE Services!Reads(k)
  <2> DEFINE r == [call[k] EXCEPT !.phase = "answer", !.cap = None,
                                !.read = Services!Rows(call[k].cap), !.behind = {}]
  <2>1. Services!Set(k, r) /\ r.key = call[k].key /\ r.live = call[k].live /\ UNCHANGED operations
    BY <1>2, <1>11 DEF Services!Reads, Record
  <2> HIDE DEF r
  <2>2. QED
    BY <2>1, <1>4
<1>12. CASE Services!beginExclusiveAction(k)
  <2> DEFINE Refused ==
        call[k].cap = "unsupported" \/ Services!isProtectedService(call[k].unit) \/ operations[call[k].unit] # None
  <2>1. CASE Refused
    BY <1>12, <1>3, <2>1 DEF Services!beginExclusiveAction
  <2>2. CASE ~Refused
    <3> DEFINE u == call[k].unit
               r == [call[k] EXCEPT !.phase = "open action", !.cap = None, !.key = u]
    <3>1. u \in Units
      BY <1>2, <1>12 DEF Services!beginExclusiveAction, Fits
    <3>2. /\ Services!Set(k, r) /\ r.key = u /\ operations[u] = None
          /\ OperationFields' /\ operations'[u] = k
          /\ \A x \in (Units \cup Pair) \ {u} : operations'[x] = operations[x]
      BY <1>2, <1>12, <2>2, <3>1 DEF Services!beginExclusiveAction, Record, OperationFields
    <3> HIDE DEF r, u
    <3>3. ASSUME NEW j \in Pair \ {k}, call[j] # None, call[j].key # None, operations[call[j].key] = j
          PROVE  operations'[call[j].key] = j
      <4>1. call[j] \in Record
        BY <3>3 DEF ServiceTypes, CallFields
      <4>2. call[j].key \in (Units \cup Pair) \ {u}
        BY <1>2, <3>2, <3>3, <4>1 DEF Record
      <4>3. QED
        BY <3>2, <3>3, <4>2
    <3>4. QED
      BY <3>2, <3>3, OneRegistered
  <2>3. QED
    BY <2>1, <2>2
<1>13. CASE Services!OpensAction(k)
  <2> DEFINE r == [call[k] EXCEPT !.phase = "command"]
  <2>1. Services!Set(k, r) /\ r.key = call[k].key /\ r.live = call[k].live /\ UNCHANGED operations
    BY <1>2, <1>13 DEF Services!OpensAction, Services!Moves, Record
  <2> HIDE DEF r
  <2>2. QED
    BY <2>1, <1>4
<1>14. QED
  BY <1>5, <1>6, <1>7, <1>8, <1>9, <1>10, <1>11, <1>12, <1>13

\* ... and the fields of the server, of which a detection without an error knows the truth ...
LEMMA OneStepFields ==
  ASSUME ServiceInv, NEW k \in Pair, NEW erred \in BOOLEAN, OneStep(k, erred)
  PROVE  ServerFields' /\ init' = init /\ remote' = remote /\ CapInv' /\ Services!CapabilityIsOfServer'
<1> USE DEF Services!Is
<1>1. /\ init \in {"systemd", "procd", "other"} /\ cache \in Capabilities
      /\ None \notin {"systemd", "procd"}
      /\ CapInv /\ Services!CapabilityIsOfServer /\ ServerFields
      /\ shown \in [Units -> (SUBSET Services!Actions) \cup {None}]
      /\ touched \subseteq Units
  BY DEF ServiceInv, ServiceTypes, ServerFields, ServiceConstants
<1>2. /\ UNCHANGED <<init, remote>>
      /\ \/ UNCHANGED <<shown, touched>>
         \/ Services!Answers(k)
  BY DEF OneStep, Services!BeginOperation, Services!CapabilityKnown, Services!Opens, Services!Fails,
     Services!DetectSystemd,
         Services!DetectProcd, Services!Detected, Services!Reads, Services!ReadsUnit, Services!Answers,
         Services!beginExclusiveAction,
         Services!OpensAction, Services!CommandFails
<1>3. \/ UNCHANGED <<cache, misled>>
      \/ cache' \in {"systemd", "procd"} /\ cache' = init
      \/ cache' = "unsupported" /\ misled'
      \/ cache' = "unsupported" /\ init = "other"
  <2>1. CASE Services!DetectSystemd(k, erred)
    BY <2>1 DEF Services!DetectSystemd, Services!Detected
  <2>2. CASE Services!DetectProcd(k, erred)
    <3>1. call[k] # None /\ call[k].phase = "detect procd"
      BY <2>2 DEF Services!DetectProcd
    <3>2. Fits(k, call[k]) /\ call[k].erred \in BOOLEAN
      BY <3>1 DEF ServiceInv, CallInv, ServiceTypes, CallFields, Record
    <3>3. CASE ~erred /\ init = "procd"
      BY <2>2, <3>3 DEF Services!DetectProcd, Services!Detected
    <3>4. CASE ~(~erred /\ init = "procd") /\ (erred \/ call[k].erred)
      BY <2>2, <3>4 DEF Services!DetectProcd, Services!Detected
    <3>5. CASE ~(~erred /\ init = "procd") /\ ~(erred \/ call[k].erred)
      <4>1. init = "other"
        BY <1>1, <3>1, <3>2, <3>5 DEF Fits
      <4>2. cache' = "unsupported"
        BY <2>2, <3>5 DEF Services!DetectProcd, Services!Detected
      <4>3. QED
        BY <4>1, <4>2
    <3>6. QED
      BY <3>3, <3>4, <3>5
  <2>3. QED
    BY <2>1, <2>2 DEF OneStep, Services!BeginOperation, Services!CapabilityKnown, Services!Opens,
       Services!Fails,
           Services!Reads, Services!ReadsUnit, Services!Answers, Services!beginExclusiveAction,
           Services!OpensAction,
           Services!CommandFails
<1>4. shown' \in [Units -> (SUBSET Services!Actions) \cup {None}] /\ touched' \subseteq Units
  <2>1. CASE Services!Answers(k)
    <3>1. call[k] # None /\ call[k].phase = "answer" /\ shown' = call[k].read /\ touched' = call[k].behind
      BY <2>1 DEF Services!Answers
    <3>2. Fits(k, call[k]) /\ call[k].behind \subseteq Units
      BY <3>1 DEF ServiceInv, CallInv, ServiceTypes, CallFields, Record
    <3>3. shown' \in [Units -> SUBSET Services!Actions]
      BY <3>1, <3>2 DEF Fits
    <3>4. QED
      BY <3>1, <3>2, <3>3
  <2>2. QED
    BY <1>1, <1>2, <2>1
<1>5. cache' \in Capabilities
  BY <1>1, <1>3 DEF Capabilities
<1>6. ServerFields'
  BY <1>1, <1>2, <1>4, <1>5 DEF ServerFields, Capabilities
<1>7. CapInv' /\ Services!CapabilityIsOfServer'
  BY <1>1, <1>2, <1>3 DEF CapInv, Services!CapabilityIsOfServer, Services!Found
<1>8. QED
  BY <1>2, <1>6, <1>7

\* ... and the whole invariant.
LEMMA OneStepKeeps ==
  ASSUME ServiceInv, NEW k \in Pair, NEW erred \in BOOLEAN, OneStep(k, erred)
  PROVE  ServiceInv'
<1>1. /\ ServiceTypes /\ CallInv /\ CapInv /\ OfferInv
      /\ Services!LiveIsRegistered /\ Services!StopServerCancels
  BY DEF ServiceInv
<1>2. ServerFields' /\ init' = init /\ remote' = remote /\ CapInv' /\ Services!CapabilityIsOfServer'
  BY OneStepFields
<1>3. OperationFields' /\ Services!LiveIsRegistered'
  BY <1>1, MovesRegistered
<1>4. call[k] # None /\ MovesOn(k)
  BY <1>1, OneMoves
<1>5. PICK r : Services!Set(k, r) /\ (r # None => r \in Record /\ Fits(k, r) /\ Same(call[k], r))
  <2> DEFINE P(r) == Services!Set(k, r) /\ (r # None => r \in Record /\ Fits(k, r) /\ Same(call[k], r))
  <2>1. ASSUME Services!Set(k, None) PROVE P(None)
    BY <2>1
  <2>2. ASSUME NEW r \in Record, Services!Set(k, r), Fits(k, r), Same(call[k], r) PROVE P(r)
    BY <2>2
  <2> HIDE DEF P
  <2>3. \E r : P(r)
    BY <1>4, <2>1, <2>2 DEF MovesOn
  <2>4. QED
    BY <2>3 DEF P
<1>6. CallFields' /\ CallInv'
  BY <1>1, <1>2, <1>5, OneCall
<1>7. \A j \in Pair : call'[j] = IF j = k THEN r ELSE call[j]
  BY <1>1, <1>5 DEF Services!Set, ServiceTypes, CallFields
<1>8. Services!StopServerCancels'
  BY <1>1, <1>4, <1>5, <1>7 DEF Services!StopServerCancels, Same
<1>9. \A u \in Units : Possible(u)' = Possible(u)
  BY <1>2 DEF Possible, Services!Accepts
<1>10. ASSUME NEW u \in Units, shown'[u] # None, u \notin touched' PROVE shown'[u] \subseteq Possible(u)
  <2>1. CASE Services!Answers(k)
    BY <1>1, <1>10, <2>1 DEF Services!Answers, Services!Is, OfferInv
  <2>2. CASE ~Services!Answers(k)
    <3>1. UNCHANGED <<shown, touched>>
      BY <2>2 DEF OneStep, Services!BeginOperation, Services!CapabilityKnown, Services!Opens,
         Services!Fails,
         Services!DetectSystemd, Services!DetectProcd, Services!Detected, Services!Reads,
         Services!ReadsUnit,
         Services!beginExclusiveAction, Services!OpensAction, Services!CommandFails
    <3>2. QED
      BY <1>1, <1>10, <3>1 DEF OfferInv
  <2>3. QED
    BY <2>1, <2>2
<1>11. ASSUME NEW j \in Pair, call'[j] # None
       PROVE  /\ call'[j].phase = "answer" => \A u \in Units \ call'[j].behind : call'[j].read[u] \subseteq Possible(u)
              /\ call'[j].goal = "action" /\ call'[j].unit \notin call'[j].behind =>
                   call'[j].action \in Possible(call'[j].unit)
  BY <1>1, <1>4, <1>5, <1>7, <1>11 DEF OfferInv, Same
<1>12. OfferInv'
  <2>1. \A j \in Pair : call'[j] # None /\ call'[j].goal = "action" => call'[j].unit \in Units
    BY <1>6 DEF CallInv, Fits
  <2>2. QED
    BY <1>9, <1>10, <1>11, <2>1 DEF OfferInv
<1>13. QED
  BY <1>1, <1>2, <1>3, <1>6, <1>8, <1>12 DEF ServiceInv, ServiceTypes, ServiceConstants

\* A call that is asked for begins as Ask and AskAction say.
Asked(k, g, u, a) ==
  /\ Services!Set(k, Services!NewCall(g, u, a))
  /\ g = "action" => u \in Units /\ a \in Services!Actions /\ (u \notin touched => a \in Possible(u))

\* The window asks.
LEMMA AskKeeps ==
  ASSUME ServiceInv, NEW k \in Pair,
         \/ \E goal \in Services!Goals : Services!Ask(k, goal)
         \/ \E u \in Units, action \in Services!Actions : Services!AskAction(k, u, action)
  PROVE  ServiceInv'
<1>1. /\ ServiceTypes /\ CallInv /\ CapInv /\ OfferInv
      /\ Services!LiveIsRegistered /\ Services!StopServerCancels /\ Services!CapabilityIsOfServer
  BY DEF ServiceInv
<1>2. UNCHANGED <<init, remote, operations, cache, shown, misled, touched>> /\ call[k] = None
  BY DEF Services!Ask, Services!AskAction
<1>3. PICK g2 \in Services!Goals, u2 \in Units \cup {None}, a2 \in Services!Actions \cup {None} :
        Asked(k, g2, u2, a2)
  <2>1. ASSUME NEW goal \in Services!Goals, Services!Ask(k, goal)
        PROVE  \E g2 \in Services!Goals, u2 \in Units \cup {None}, a2 \in Services!Actions \cup {None} :
                 Asked(k, g2, u2, a2)
    BY <2>1 DEF Services!Ask, Asked
  <2>2. ASSUME NEW u \in Units, NEW a \in Services!Actions, Services!AskAction(k, u, a)
        PROVE  \E g2 \in Services!Goals, u2 \in Units \cup {None}, a2 \in Services!Actions \cup {None} :
                 Asked(k, g2, u2, a2)
    <3>1. Services!Set(k, Services!NewCall("action", u, a)) /\ shown[u] # None /\ a \in shown[u]
      BY <2>2 DEF Services!AskAction
    <3>2. u \notin touched => a \in Possible(u)
      BY <1>1, <3>1 DEF OfferInv
    <3>3. "action" \in Services!Goals
      BY DEF Services!Goals
    <3>4. QED
      BY <3>1, <3>2, <3>3 DEF Asked
  <2>3. QED
    BY <2>1, <2>2
<1> DEFINE r == Services!NewCall(g2, u2, a2)
<1>a. /\ r = Services!NewCall(g2, u2, a2) /\ Services!Set(k, r)
      /\ g2 = "action" => u2 \in Units /\ a2 \in Services!Actions /\ (u2 \notin touched => a2 \in Possible(u2))
  BY <1>3 DEF Asked
<1> HIDE DEF r
<1>4. /\ r \in Record /\ r.goal = g2 /\ r.unit = u2 /\ r.action = a2 /\ r.phase = "asked"
      /\ r.key = None
      /\ r.live = TRUE /\ r.old = FALSE /\ r.missed = FALSE /\ r.erred = FALSE /\ r.cap = None
      /\ r.read = None /\ r.behind = touched \cap {u2} /\ Services!Set(k, r)
  BY <1>1, <1>3, <1>a DEF ServiceTypes, ServerFields, Services!NewCall, Record, Services!Phases,
     Capabilities
<1>5. Fits(k, r)
  BY <1>1, <1>3, <1>a, <1>4 DEF Fits, ServiceTypes, ServiceConstants
<1>6. CallFields' /\ CallInv'
  BY <1>1, <1>2, <1>4, <1>5, OneCall
<1>7. \A j \in Pair : call'[j] = IF j = k THEN r ELSE call[j]
  BY <1>1, <1>4 DEF Services!Set, ServiceTypes, CallFields
<1>8. OperationFields' /\ Services!LiveIsRegistered'
  <2>1. OperationFields'
    BY <1>1, <1>2 DEF ServiceTypes, OperationFields
  <2>2. QED
    BY <1>1, <1>2, <1>4, <2>1, OneRegistered
<1>9. Services!StopServerCancels'
  BY <1>1, <1>4, <1>7 DEF Services!StopServerCancels
<1>10. OfferInv'
  <2>1. \A x \in Units : Possible(x)' = Possible(x)
    BY <1>2 DEF Possible, Services!Accepts
  <2>2. ASSUME NEW x \in Units, shown'[x] # None, x \notin touched' PROVE shown'[x] \subseteq Possible(x)
    BY <1>1, <1>2, <2>2 DEF OfferInv
  <2>3. ASSUME NEW j \in Pair, call'[j] # None
       PROVE  /\ call'[j].phase = "answer" => \A x \in Units \ call'[j].behind : call'[j].read[x] \subseteq Possible(x)
              /\ call'[j].goal = "action" /\ call'[j].unit \notin call'[j].behind =>
                   call'[j].action \in Possible(call'[j].unit)
    BY <1>1, <1>3, <1>a, <1>4, <1>7, <2>3 DEF OfferInv
  <2>4. \A j \in Pair : call'[j] # None /\ call'[j].goal = "action" => call'[j].unit \in Units
    BY <1>6 DEF CallInv, Fits
  <2>5. QED
    BY <2>1, <2>2, <2>3, <2>4 DEF OfferInv
<1>11. ServerFields' /\ CapInv' /\ Services!CapabilityIsOfServer'
  BY <1>1, <1>2 DEF ServiceTypes, ServerFields, CapInv, Services!CapabilityIsOfServer
<1>12. QED
  BY <1>1, <1>6, <1>8, <1>9, <1>10, <1>11 DEF ServiceInv, ServiceTypes, ServiceConstants

\* What the calls of a step must be before the unit u changes.
CallsSound(c) ==
  /\ c \in [Pair -> Record \cup {None}]
  /\ \A j \in Pair : c[j] # None =>
       /\ Fits(j, c[j])
       /\ c[j].old /\ c[j].live => c[j].missed
       /\ c[j].phase = "answer" => \A x \in Units \ c[j].behind : c[j].read[x] \subseteq Possible(x)
       /\ c[j].goal = "action" /\ c[j].unit \notin c[j].behind => c[j].action \in Possible(c[j].unit)

\* Whoever has read the unit knows that it changed.
LEMMA TouchKeeps ==
  ASSUME ServiceInv, NEW u \in Units, NEW c, CallsSound(c), Services!Touches(u, c),
         UNCHANGED <<init, shown>>, \A x \in Units \ {u} : remote'[x] = remote[x]
  PROVE  /\ CallFields' /\ CallInv' /\ OfferInv' /\ Services!StopServerCancels'
         /\ touched' \subseteq Units
         /\ \A j \in Pair : call'[j] # None => c[j] # None /\ call'[j].key = c[j].key /\ call'[j].live = c[j].live
<1>0. touched \subseteq Units /\ touched' = touched \cup {u}
  BY DEF ServiceInv, ServiceTypes, ServerFields, Services!Touches
<1>1. ASSUME NEW j \in Pair, c[j] # None
      PROVE  /\ call'[j] \in Record /\ c[j] \in Record
             /\ call'[j].goal = c[j].goal /\ call'[j].unit = c[j].unit /\ call'[j].action = c[j].action
             /\ call'[j].phase = c[j].phase /\ call'[j].key = c[j].key /\ call'[j].live = c[j].live
             /\ call'[j].old = c[j].old /\ call'[j].missed = c[j].missed /\ call'[j].erred = c[j].erred
             /\ call'[j].cap = c[j].cap /\ call'[j].read = c[j].read
             /\ c[j].behind \subseteq call'[j].behind
             /\ c[j].phase = "answer" \/ c[j].unit = u => u \in call'[j].behind
  <2>1. c[j] \in Record
    BY <1>1 DEF CallsSound
  <2>2. CASE c[j].phase = "answer" \/ c[j].unit = u
    <3>1. call'[j] = [c[j] EXCEPT !.behind = @ \cup {u}]
      BY <1>1, <2>2 DEF Services!Touches
    <3>2. QED
      BY <2>1, <3>1 DEF Record
  <2>3. CASE ~(c[j].phase = "answer" \/ c[j].unit = u)
    BY <1>1, <2>1, <2>3 DEF Services!Touches
  <2>4. QED
    BY <2>2, <2>3
<1>2. \A j \in Pair : c[j] = None => call'[j] = None
  BY DEF Services!Touches
<1>3. CallFields'
  <2>1. call' = [j \in Pair |-> call'[j]]
    BY DEF Services!Touches
  <2>2. QED
    BY <1>1, <1>2, <2>1 DEF CallFields
<1>4. CallInv'
  <2>1. ASSUME NEW j \in Pair, call'[j] # None PROVE Fits(j, call[j])'
    <3>1. c[j] # None /\ Fits(j, c[j])
      BY <1>2, <2>1 DEF CallsSound
    <3>2. QED
      BY <1>1, <3>1 DEF Fits
  <2>2. QED
    BY <2>1 DEF CallInv
<1>5. Services!StopServerCancels'
  BY <1>1, <1>2 DEF CallsSound, Services!StopServerCancels
<1>6. \A x \in Units \ {u} : Possible(x)' = Possible(x)
  BY DEF Possible, Services!Accepts
<1>7. OfferInv'
  <2>1. ASSUME NEW x \in Units, shown'[x] # None, x \notin touched' PROVE shown'[x] \subseteq Possible(x)'
    BY <1>0, <1>6, <2>1 DEF OfferInv, ServiceInv
  <2>2. ASSUME NEW j \in Pair, call'[j] # None
       PROVE  /\ call'[j].phase = "answer" => \A x \in Units \ call'[j].behind : call'[j].read[x] \subseteq Possible(x)'
              /\ call'[j].goal = "action" /\ call'[j].unit \notin call'[j].behind =>
                   call'[j].action \in Possible(call[j].unit)'
    <3>1. c[j] # None /\ Fits(j, c[j])
      BY <1>2, <2>2 DEF CallsSound
    <3>2. call'[j].phase = "answer" => \A x \in Units \ call'[j].behind : call'[j].read[x] \subseteq Possible(x)'
      BY <1>1, <1>6, <3>1 DEF CallsSound
    <3>3. ASSUME call'[j].goal = "action", call'[j].unit \notin call'[j].behind
          PROVE  call'[j].action \in Possible(call[j].unit)'
      <4>1. c[j].unit \in Units \ {u} /\ c[j].action \in Possible(c[j].unit) /\ call'[j].unit = c[j].unit
        <5>1. c[j].goal = "action" /\ c[j].unit # u /\ c[j].unit \notin c[j].behind /\ call'[j].unit = c[j].unit
          BY <1>1, <3>1, <3>3
        <5>2. c[j].unit \in Units
          BY <3>1, <5>1 DEF Fits
        <5>3. QED
          BY <3>1, <5>1, <5>2 DEF CallsSound
      <4>2. Possible(c[j].unit)' = Possible(c[j].unit)
        BY <4>1 DEF Possible, Services!Accepts
      <4>3. QED
        BY <1>1, <3>1, <4>1, <4>2 DEF Possible, Services!Accepts
    <3>4. QED
      BY <3>2, <3>3
  <2>3. QED
    BY <2>1, <2>2 DEF OfferInv
<1>8. QED
  BY <1>0, <1>1, <1>2, <1>3, <1>4, <1>5, <1>7

\* Somebody else masks a unit.
LEMMA MaskKeeps ==
  ASSUME ServiceInv, NEW u \in Units, Services!Masks(u)
  PROVE  ServiceInv'
<1>1. /\ ServiceTypes /\ CallInv /\ CapInv /\ OfferInv
      /\ Services!LiveIsRegistered /\ Services!StopServerCancels /\ Services!CapabilityIsOfServer
  BY DEF ServiceInv
<1>2. UNCHANGED <<init, operations, cache, shown, begun, misled>> /\ Services!Touches(u, call)
  BY DEF Services!Masks
<1>3. CallsSound(call)
  BY <1>1 DEF CallsSound, ServiceTypes, CallFields, CallInv, OfferInv, Services!StopServerCancels
<1>4. remote \in [Units -> Services!UnitStates]
  BY <1>1 DEF ServiceTypes, ServerFields
<1>5. remote' \in [Units -> Services!UnitStates] /\ \A x \in Units \ {u} : remote'[x] = remote[x]
  BY <1>4 DEF Services!Masks, Services!UnitStates
<1>6. /\ CallFields' /\ CallInv' /\ OfferInv' /\ Services!StopServerCancels' /\ touched' \subseteq Units
      /\ \A j \in Pair : call'[j] # None => call[j] # None /\ call'[j].key = call[j].key /\ call'[j].live = call[j].live
  BY <1>2, <1>3, <1>5, TouchKeeps
<1>7. Services!LiveIsRegistered' /\ OperationFields'
  BY <1>1, <1>2, <1>6 DEF Services!LiveIsRegistered, ServiceTypes, OperationFields
<1>8. ServerFields' /\ CapInv' /\ Services!CapabilityIsOfServer'
  BY <1>1, <1>2, <1>5, <1>6 DEF ServiceTypes, ServerFields, CapInv, Services!CapabilityIsOfServer
<1>9. QED
  BY <1>1, <1>6, <1>7, <1>8 DEF ServiceInv, ServiceTypes, ServiceConstants

\* An action is done, and its window asks for the list again.
LEMMA CommandKeeps ==
  ASSUME ServiceInv, NEW k \in Pair, Services!CommandDone(k)
  PROVE  ServiceInv'
<1>1. /\ ServiceTypes /\ CallInv /\ CapInv /\ OfferInv
      /\ Services!LiveIsRegistered /\ Services!StopServerCancels /\ Services!CapabilityIsOfServer
  BY DEF ServiceInv
<1> DEFINE u == call[k].unit
           r == IF call[k].live THEN Services!NewCall("list", None, None) ELSE None
           c == [call EXCEPT ![k] = r]
<1>2. call[k] # None /\ call[k].phase = "command" /\ call[k] \in Record /\ Fits(k, call[k])
  BY <1>1 DEF Services!CommandDone, Services!Is, ServiceTypes, CallFields, CallInv
<1>3. u \in Units /\ call[k].goal = "action" /\ call[k].action \in Services!Actions
  BY <1>2 DEF Fits
<1>4. /\ UNCHANGED <<init, cache, shown, begun, misled>> /\ Services!Touches(u, c)
      /\ Services!finishOperation(k)
      /\ remote' = [remote EXCEPT ![u] = Services!Result(call[k].action, remote[u])]
  BY DEF Services!CommandDone
<1>5. r # None => r \in Record /\ Fits(k, r) /\ r.key = None /\ r.old = FALSE /\ r.phase = "asked" /\ r.goal = "list"
  BY <1>1 DEF ServiceTypes, ServerFields, Services!NewCall, Record, Services!Phases, Services!Goals,
     Capabilities, Fits, ServiceConstants
<1> HIDE DEF u, r
<1>6. CallsSound(c) /\ c[k] = r /\ \A j \in Pair \ {k} : c[j] = call[j]
  <2>1. /\ c \in [Pair -> Record \cup {None}] /\ c[k] = r /\ \A j \in Pair \ {k} : c[j] = call[j]
    BY <1>1, <1>5 DEF ServiceTypes, CallFields
  <2> HIDE DEF c
  <2>2. ASSUME NEW j \in Pair, c[j] # None
        PROVE  /\ Fits(j, c[j])
               /\ c[j].old /\ c[j].live => c[j].missed
               /\ c[j].phase = "answer" => \A x \in Units \ c[j].behind : c[j].read[x] \subseteq Possible(x)
               /\ c[j].goal = "action" /\ c[j].unit \notin c[j].behind =>
                    c[j].action \in Possible(c[j].unit)
    BY <1>1, <1>5, <2>1, <2>2 DEF CallInv, OfferInv, Services!StopServerCancels
  <2>3. QED
    BY <2>1, <2>2 DEF CallsSound
<1> HIDE DEF c
<1>7. remote' \in [Units -> Services!UnitStates] /\ \A x \in Units \ {u} : remote'[x] = remote[x]
  <2>1. remote \in [Units -> Services!UnitStates]
    BY <1>1 DEF ServiceTypes, ServerFields
  <2>2. Services!Result(call[k].action, remote[u]) \in Services!UnitStates
    BY <1>3, <2>1 DEF Services!Result, Services!Actions, Services!UnitStates
  <2>3. QED
    BY <1>3, <1>4, <2>1, <2>2
<1>8. /\ CallFields' /\ CallInv' /\ OfferInv' /\ Services!StopServerCancels' /\ touched' \subseteq Units
      /\ \A j \in Pair : call'[j] # None => c[j] # None /\ call'[j].key = c[j].key /\ call'[j].live = c[j].live
  BY <1>3, <1>4, <1>6, <1>7, TouchKeeps
<1>9. Services!LiveIsRegistered' /\ OperationFields'
  <2>1. OperationFields'
    BY <1>1, <1>4 DEF Services!finishOperation, ServiceTypes, OperationFields
  <2>2. ASSUME NEW j \in Pair, call'[j] # None, call'[j].live, call'[j].key # None
        PROVE  operations'[call'[j].key] = j
    <3>1. j # k /\ call[j] # None /\ call[j].live /\ call'[j].key = call[j].key /\ call[j].key # None
      BY <1>5, <1>6, <1>8, <2>2
    <3>2. operations[call[j].key] = j /\ call[j].key \in Units \cup Pair
      BY <1>1, <3>1 DEF Services!LiveIsRegistered, ServiceTypes, CallFields, Record
    <3>3. QED
      BY <1>4, <3>1, <3>2 DEF Services!finishOperation
  <2>3. QED
    BY <2>1, <2>2 DEF Services!LiveIsRegistered
<1>10. ServerFields' /\ CapInv' /\ Services!CapabilityIsOfServer'
  BY <1>1, <1>4, <1>7, <1>8 DEF ServiceTypes, ServerFields, CapInv, Services!CapabilityIsOfServer
<1>11. QED
  BY <1>1, <1>8, <1>9, <1>10 DEF ServiceInv, ServiceTypes, ServiceConstants

\* A call that loses its context, or sees StopServer, is the same otherwise.
LEMMA ContextsKeep ==
  ASSUME ServiceInv, UNCHANGED <<init, remote, shown, touched>>, call' = [j \in Pair |-> call'[j]],
         \A j \in Pair : IF call[j] = None THEN call'[j] = None
           ELSE /\ call'[j] \in Record
                /\ call'[j].goal = call[j].goal /\ call'[j].unit = call[j].unit
                /\ call'[j].action = call[j].action
                /\ call'[j].phase = call[j].phase /\ call'[j].key = call[j].key
                /\ call'[j].erred = call[j].erred
                /\ call'[j].cap = call[j].cap /\ call'[j].read = call[j].read
                /\ call'[j].behind = call[j].behind
  PROVE  CallFields' /\ CallInv' /\ OfferInv'
<1>1. ServiceTypes /\ CallInv /\ OfferInv
  BY DEF ServiceInv
<1>2. CallFields'
  BY DEF CallFields
<1>3. ASSUME NEW j \in Pair, call'[j] # None PROVE Fits(j, call[j])'
  <2>1. call[j] # None /\ Fits(j, call[j])
    BY <1>1, <1>3 DEF CallInv
  <2>2. QED
    BY <2>1 DEF Fits
<1>4. \A x \in Units : Possible(x)' = Possible(x)
  BY DEF Possible, Services!Accepts
<1>5. ASSUME NEW j \in Pair, call'[j] # None
      PROVE  /\ call'[j].phase = "answer" => \A x \in Units \ call'[j].behind : call'[j].read[x] \subseteq Possible(x)
             /\ call'[j].goal = "action" /\ call'[j].unit \notin call'[j].behind =>
                  call'[j].action \in Possible(call'[j].unit)
  BY <1>1, <1>5 DEF OfferInv
<1>6. \A j \in Pair : call'[j] # None /\ call'[j].goal = "action" => call'[j].unit \in Units
  BY <1>3 DEF Fits
<1>7. \A x \in Units : shown'[x] # None /\ x \notin touched' => shown'[x] \subseteq Possible(x)
  BY <1>1 DEF OfferInv
<1>8. OfferInv'
  BY <1>4, <1>5, <1>6, <1>7 DEF OfferInv
<1>9. QED
  BY <1>2, <1>3, <1>8 DEF CallInv

\* A cancelled query is out of the register and its context is over.
LEMMA CancelKeeps ==
  ASSUME ServiceInv, Services!CancelQueries
  PROVE  ServiceInv'
<1>1. /\ ServiceTypes /\ CallInv /\ CapInv /\ OfferInv
      /\ Services!LiveIsRegistered /\ Services!StopServerCancels /\ Services!CapabilityIsOfServer
  BY DEF ServiceInv
<1>2. /\ UNCHANGED <<init, remote, cache, shown, begun, misled, touched>>
      /\ operations' = [x \in Units \cup Pair |-> IF x \in Pair THEN None ELSE operations[x]]
      /\ call' = [j \in Pair |-> IF call[j] # None /\ j \in {operations[x] : x \in Pair}
                                    THEN [call[j] EXCEPT !.live = FALSE] ELSE call[j]]
  BY DEF Services!CancelQueries, Services!Cancelled
<1>3. call' = [j \in Pair |-> call'[j]]
  BY <1>2
<1>4. ASSUME NEW j \in Pair
      PROVE  /\ call[j] = None => call'[j] = None
             /\ call[j] # None =>
                  /\ call'[j] \in Record /\ call[j] \in Record
                  /\ call'[j].goal = call[j].goal /\ call'[j].unit = call[j].unit
                  /\ call'[j].action = call[j].action
                  /\ call'[j].phase = call[j].phase /\ call'[j].key = call[j].key
                  /\ call'[j].erred = call[j].erred
                  /\ call'[j].cap = call[j].cap /\ call'[j].read = call[j].read
                  /\ call'[j].behind = call[j].behind
                  /\ call'[j].old = call[j].old /\ call'[j].missed = call[j].missed
                  /\ call'[j].live => call[j].live /\ j \notin {operations[x] : x \in Pair}
  <2>1. CASE call[j] = None
    BY <1>2, <2>1
  <2>2. CASE call[j] # None
    <3>1. call[j] \in Record
      BY <1>1, <2>2 DEF ServiceTypes, CallFields
    <3>2. CASE j \in {operations[x] : x \in Pair}
      <4>1. call'[j] = [call[j] EXCEPT !.live = FALSE]
        BY <1>2, <2>2, <3>2
      <4>2. QED
        BY <2>2, <3>1, <4>1 DEF Record
    <3>3. CASE j \notin {operations[x] : x \in Pair}
      <4>1. call'[j] = call[j]
        BY <1>2, <2>2, <3>3
      <4>2. QED
        BY <2>2, <3>1, <3>3, <4>1
    <3>4. QED
      BY <3>2, <3>3
  <2>3. QED
    BY <2>1, <2>2
<1>5. CallFields' /\ CallInv' /\ OfferInv'
  BY <1>2, <1>3, <1>4, ContextsKeep
<1>6. Services!StopServerCancels'
  BY <1>1, <1>4 DEF Services!StopServerCancels
<1>7. OperationFields'
  BY <1>1, <1>2 DEF ServiceTypes, OperationFields
<1>8. Services!LiveIsRegistered'
  <2>1. ASSUME NEW j \in Pair, call'[j] # None, call'[j].live, call'[j].key # None
        PROVE  operations'[call'[j].key] = j
    <3>1. call[j] # None /\ call[j].live /\ call'[j].key = call[j].key /\ j \notin {operations[x] : x \in Pair}
      BY <1>4, <2>1
    <3>2. operations[call[j].key] = j /\ call[j].key \in Units \cup Pair
      BY <1>1, <2>1, <3>1 DEF Services!LiveIsRegistered, ServiceTypes, CallFields, Record
    <3>3. QED
      BY <1>2, <3>1, <3>2
  <2>2. QED
    BY <2>1 DEF Services!LiveIsRegistered
<1>9. ServerFields' /\ CapInv' /\ Services!CapabilityIsOfServer'
  BY <1>1, <1>2 DEF ServiceTypes, ServerFields, CapInv, Services!CapabilityIsOfServer
<1>10. QED
  BY <1>1, <1>5, <1>6, <1>7, <1>8, <1>9 DEF ServiceInv, ServiceTypes, ServiceConstants

\* StopServer empties the register: what it did not find there was between two registrations.
LEMMA StopServerKeeps ==
  ASSUME ServiceInv, Services!StopServer
  PROVE  ServiceInv'
<1>1. /\ ServiceTypes /\ CallInv /\ CapInv /\ OfferInv
      /\ Services!LiveIsRegistered /\ Services!StopServerCancels /\ Services!CapabilityIsOfServer
  BY DEF ServiceInv
<1> DEFINE gone == {operations[x] : x \in Units \cup Pair}
           Lives(j) == call[j].live /\ j \notin gone
<1>2. /\ UNCHANGED <<init, remote, shown, begun, touched>> /\ cache' = None /\ misled' = FALSE
      /\ operations' = [x \in Units \cup Pair |-> None]
      /\ call' = [j \in Pair |-> IF call[j] = None THEN None ELSE
                   [call[j] EXCEPT !.live = Lives(j), !.old = Lives(j),
                                   !.missed = Lives(j) /\ (@ \/ call[j].phase \in {"asked", "exclusive"})]]
  BY DEF Services!StopServer, Services!Outlived
<1>3. call' = [j \in Pair |-> call'[j]]
  BY <1>2
<1>4. ASSUME NEW j \in Pair
      PROVE  /\ call[j] = None => call'[j] = None
             /\ call[j] # None =>
                  /\ call'[j] \in Record /\ call[j] \in Record
                  /\ call'[j].goal = call[j].goal /\ call'[j].unit = call[j].unit
                  /\ call'[j].action = call[j].action
                  /\ call'[j].phase = call[j].phase /\ call'[j].key = call[j].key
                  /\ call'[j].erred = call[j].erred
                  /\ call'[j].cap = call[j].cap /\ call'[j].read = call[j].read
                  /\ call'[j].behind = call[j].behind
                  /\ call[j].phase \in {"asked", "exclusive"} /\ call'[j].live => call'[j].missed
                  /\ call'[j].live => call[j].live /\ j \notin gone
  <2>1. CASE call[j] = None
    BY <1>2, <2>1
  <2>2. CASE call[j] # None
    <3>1. call[j] \in Record
      BY <1>1, <2>2 DEF ServiceTypes, CallFields
    <3> DEFINE lives == Lives(j)
    <3>2. call'[j] = [call[j] EXCEPT !.live = lives, !.old = lives,
                                     !.missed = lives /\ (@ \/ call[j].phase \in {"asked", "exclusive"})]
      BY <1>2, <2>2
    <3>4. lives \in BOOLEAN /\ (lives => call[j].live /\ j \notin gone)
      BY <3>1 DEF Record
    <3> HIDE DEF lives, gone
    <3>3. QED
      BY <2>2, <3>1, <3>2, <3>4 DEF Record
  <2>3. QED
    BY <2>1, <2>2
<1>5. CallFields' /\ CallInv' /\ OfferInv'
  BY <1>2, <1>3, <1>4, ContextsKeep
\* A call that lives on was not registered.
<1>6. ASSUME NEW j \in Pair, call'[j] # None, call'[j].live PROVE call'[j].key = None /\ call'[j].missed
  <2>1. call[j] # None /\ call[j].live /\ call'[j].key = call[j].key /\ j \notin gone /\ call[j] \in Record
    BY <1>4, <1>6
  <2>2. call[j].key = None
    <3>1. SUFFICES ASSUME call[j].key # None PROVE FALSE
      OBVIOUS
    <3>2. operations[call[j].key] = j /\ call[j].key \in Units \cup Pair
      BY <1>1, <2>1, <3>1 DEF Services!LiveIsRegistered, Record
    <3>3. QED
      BY <2>1, <3>2
  <2>3. call[j].phase \in {"asked", "exclusive"}
    BY <1>1, <2>1, <2>2 DEF CallInv, Fits, ServiceTypes, ServiceConstants, Record, Services!Phases
  <2>4. QED
    BY <1>4, <1>6, <2>1, <2>2, <2>3
<1>7. Services!StopServerCancels' /\ Services!LiveIsRegistered'
  BY <1>6 DEF Services!StopServerCancels, Services!LiveIsRegistered
<1>8. OperationFields'
  BY <1>2 DEF OperationFields
<1>9. ServerFields' /\ CapInv' /\ Services!CapabilityIsOfServer'
  BY <1>1, <1>2 DEF ServiceTypes, ServiceConstants, ServerFields, Capabilities, CapInv,
     Services!CapabilityIsOfServer
<1>10. QED
  BY <1>1, <1>5, <1>7, <1>8, <1>9 DEF ServiceInv, ServiceTypes, ServiceConstants

\* Every step keeps the invariant, ...
LEMMA ServiceStep ==
  ASSUME ServiceInv, [Services!Next]_(Services!vars)
  PROVE  ServiceInv'
<1>1. CASE UNCHANGED Services!vars
  <2>1. UNCHANGED <<init, remote, call, operations, cache, shown, misled, touched>>
    BY <1>1 DEF Services!vars
  <2>2. ServiceTypes'
    BY <2>1 DEF ServiceInv, ServiceTypes, ServiceConstants, ServerFields, CallFields, OperationFields
  <2>3. CallInv' /\ CapInv'
    BY <2>1 DEF ServiceInv, CallInv, Fits, CapInv
  <2>4. OfferInv'
    BY <2>1 DEF ServiceInv, OfferInv, Possible, Services!Accepts
  <2>5. Services!LiveIsRegistered' /\ Services!CapabilityIsOfServer' /\ Services!StopServerCancels'
    BY <2>1 DEF ServiceInv, Services!LiveIsRegistered, Services!CapabilityIsOfServer,
       Services!StopServerCancels
  <2>6. QED
    BY <2>2, <2>3, <2>4, <2>5 DEF ServiceInv
<1>2. ASSUME NEW k \in Pair, NEW goal \in Services!Goals, Services!Ask(k, goal) PROVE ServiceInv'
  BY <1>2, AskKeeps
<1>3. ASSUME NEW k \in Pair, NEW u \in Units, NEW action \in Services!Actions, Services!AskAction(k, u, action)
      PROVE  ServiceInv'
  BY <1>3, AskKeeps
<1>4. ASSUME NEW k \in Pair, NEW erred \in BOOLEAN, OneStep(k, erred) PROVE ServiceInv'
  BY <1>4, OneStepKeeps
<1>5. ASSUME NEW k \in Pair, Services!CommandDone(k) PROVE ServiceInv'
  BY <1>5, CommandKeeps
<1>6. CASE Services!CancelQueries
  BY <1>6, CancelKeeps
<1>7. CASE Services!StopServer
  BY <1>7, StopServerKeeps
<1>8. ASSUME NEW u \in Units, Services!Masks(u) PROVE ServiceInv'
  BY <1>8, MaskKeeps
<1>9. CASE Services!Next
  BY <1>2, <1>3, <1>4, <1>5, <1>6, <1>7, <1>8, <1>9 DEF Services!Next, OneStep
<1>10. QED
  BY <1>1, <1>9

\* ... with which the component starts, ...
LEMMA ServiceInit ==
  ASSUME Services!Init
  PROVE  ServiceInv
<1>0. ServiceConstants
  BY NameAssumption, UnitAssumption DEF ServiceConstants
<1>1. /\ init \in {"systemd", "procd", "other"} /\ remote \in [Units -> Services!UnitStates]
      /\ call = [k \in Pair |-> None] /\ operations = [x \in Units \cup Pair |-> None]
      /\ cache = None /\ shown = [u \in Units |-> None] /\ misled = FALSE /\ touched = {}
  BY DEF Services!Init, Services!Found
<1>2. ServiceTypes
  BY <1>0, <1>1 DEF ServiceTypes, ServerFields, Capabilities, CallFields, OperationFields
<1>3. CallInv /\ CapInv /\ OfferInv
  BY <1>0, <1>1 DEF CallInv, CapInv, OfferInv, ServiceConstants
<1>4. Services!LiveIsRegistered /\ Services!CapabilityIsOfServer /\ Services!StopServerCancels
  BY <1>1 DEF Services!LiveIsRegistered, Services!CapabilityIsOfServer, Services!StopServerCancels
<1>5. QED
  BY <1>2, <1>3, <1>4 DEF ServiceInv

\* ... and from which the property follows.
LEMMA ServiceSound ==
  ASSUME ServiceInv
  PROVE  Services!ServicesAreSound
<1>1. Services!TypeOK
  BY DEF ServiceInv, ServiceTypes, ServerFields, Capabilities, CallFields, OperationFields, CallInv,
     Fits, Record, Services!TypeOK
<1>2. Services!OfferedIsPossible
  <2>1. ASSUME NEW k \in Pair, call[k] # None, call[k].phase = "command", call[k].unit \notin call[k].behind
        PROVE  \/ Services!Accepts(call[k].action, remote[call[k].unit])
               \/ call[k].action = "restart" /\ remote[call[k].unit].file = "masked"
    <3>1. call[k].goal = "action"
      BY <2>1 DEF ServiceInv, CallInv, Fits
    <3>2. call[k].action \in Possible(call[k].unit)
      BY <2>1, <3>1 DEF ServiceInv, OfferInv
    <3>3. QED
      BY <3>2 DEF Possible
  <2>2. QED
    BY <2>1 DEF Services!OfferedIsPossible, Services!Is
<1>3. QED
  BY <1>1, <1>2 DEF ServiceInv, Services!ServicesAreSound

\* Operations on a unit exclude each other and can be cancelled, the capability that is known is
\* the server's, StopServer ends every call but one between two registrations, and what a list
\* offers is possible until its unit changes (beginExclusiveAction, finishOperation,
\* detectCapability, StopServer, decorateSummary).
THEOREM ServicesSound == Spec => []ServicesAreSound
<1> DEFINE Inv == part = "services" => ServiceInv
<1>1. Init => Inv
  BY ServiceInit DEF Init
<1>2. Inv /\ [Next]_vars => Inv'
  <2>1. [Next]_vars /\ part' = "services" => part = "services" /\ [Services!Next]_(Services!vars)
    <3>1. UNCHANGED vars => part' = part /\ UNCHANGED Services!vars
      BY DEF vars, Services!vars
    <3>2. Next /\ part' = "services" => part = "services" /\ Services!Next
      BY DEF Next
    <3>3. QED
      BY <3>1, <3>2
  <2>2. QED
    BY <2>1, ServiceStep
<1>3. Inv => ServicesAreSound
  BY ServiceSound DEF ServicesAreSound
<1>4. QED
  BY <1>1, <1>2, <1>3, PTL DEF Spec
----------------------------------------------------------------------------
\* Processes and signals.

\* The strategies that came before have failed, unless the connection did.
ListInv ==
  /\ works \subseteq {"gnu_no_header", "gnu_header", "ps_aux", "busybox", "proc"}
  /\ listing # None =>
       /\ listing \in [at : 1..5, broken : BOOLEAN]
       /\ ~listing.broken => \A i \in 1..5 : i < listing.at => Processes!Strategies[i] \notin works
  /\ Processes!FailsOnlyIfNone

\* A process is told from an earlier one with its PID by when it was born.
TableInv ==
  /\ born \in Nat
  /\ table \in [Pids \cup {InitPid} -> Processes!Process \cup {None}]
  /\ \A p \in Pids \cup {InitPid} : table[p] # None => table[p].born <= born

\* What a row says of its process, if that is still there.
Describes(p, row) ==
  /\ row \in Processes!Row /\ row.born <= born
  /\ row.canSignal <=> p # InitPid /\ ~row.kernel
  /\ table[p] # None /\ table[p].born = row.born =>
       row.kernel = table[p].prog.kernel /\ (row.command = table[p].prog.comm \/ row.byArgs)

RowInv == \A p \in Pids \cup {InitPid} : rows[p] # None => Describes(p, rows[p])

\* The process that passed the check is no kernel thread and has the command of the row.
Passed(p, row, checked) ==
  /\ checked \in Nat /\ checked <= born
  /\ table[p] # None /\ table[p].born = checked => ~table[p].prog.kernel /\ table[p].prog.comm = row.command

SignalInv ==
  signal # None =>
    /\ signal \in [pid : Pids \cup {InitPid}, row : Processes!Row, phase : {"detail", "kill"},
                   checked : Nat \cup {None}]
    /\ signal.pid # InitPid /\ signal.row.canSignal /\ Describes(signal.pid, signal.row)
    /\ signal.phase = "kill" => Passed(signal.pid, signal.row, signal.checked)

\* What the last signal did, and what was answered.
HitInv ==
  /\ answer \in {None, "sent", "failed", "changed", "protected", "gone"}
  /\ Processes!SignalsTheChosen /\ Processes!ProtectedIsSpared /\ Processes!SentIsReceived

ProcessInv == ListInv /\ TableInv /\ RowInv /\ SignalInv /\ HitInv

\* What the strategies are.
LEMMA StrategyNames ==
  /\ Len(Processes!Strategies) = 5 /\ DOMAIN Processes!Strategies = 1..5
  /\ \A n \in {"gnu_no_header", "gnu_header", "ps_aux", "busybox", "proc"} :
       \E i \in 1..5 : Processes!Strategies[i] = n
<1>1. /\ Processes!Strategies[1] = "gnu_no_header" /\ Processes!Strategies[2] = "gnu_header"
      /\ Processes!Strategies[3] = "ps_aux" /\ Processes!Strategies[4] = "busybox"
      /\ Processes!Strategies[5] = "proc"
      /\ Len(Processes!Strategies) = 5 /\ DOMAIN Processes!Strategies = 1..5
  BY DEF Processes!Strategies
<1>2. QED
  BY <1>1

\* The list starts with the first strategy.
LEMMA FirstStrategy ==
  /\ [at |-> 1, broken |-> FALSE] \in [at : 1..5, broken : BOOLEAN]
  /\ \A i \in 1..5 : ~(i < [at |-> 1, broken |-> FALSE].at)
OBVIOUS

\* The list goes from a strategy to the next one or fails.
LEMMA ListKeeps ==
  ASSUME ProcessInv,
         \/ Processes!AskList \/ Processes!NextStrategy \/ Processes!StrategyBreaks \/ Processes!ListFails
  PROVE  ProcessInv'
<1>1. ListInv /\ TableInv /\ RowInv /\ SignalInv /\ HitInv
  BY DEF ProcessInv
<1>2. UNCHANGED <<works, table, born, rows, signal, answer, hit>>
  BY DEF Processes!AskList, Processes!NextStrategy, Processes!StrategyBreaks, Processes!ListFails
<1>3. TableInv' /\ RowInv' /\ SignalInv' /\ HitInv'
  BY <1>1, <1>2 DEF TableInv, RowInv, SignalInv, HitInv, Describes, Passed,
     Processes!SignalsTheChosen, Processes!ProtectedIsSpared, Processes!SentIsReceived
<1>4. CASE Processes!AskList
  <2>1. listing' = [at |-> 1, broken |-> FALSE] /\ failed' = failed
    BY <1>4 DEF Processes!AskList
  <2>2. ListInv'
    BY <1>1, <1>2, <2>1, FirstStrategy DEF ListInv, Processes!FailsOnlyIfNone
  <2>3. QED
    BY <1>3, <2>2 DEF ProcessInv
<1>5. CASE Processes!NextStrategy
  <2>1. /\ listing # None /\ listing \in [at : 1..5, broken : BOOLEAN]
        /\ Processes!Strategies[listing.at] \notin works
    BY <1>1, <1>5 DEF Processes!NextStrategy, ListInv
  <2>2. CASE listing.at < 5
    <3> DEFINE next == [listing EXCEPT !.at = @ + 1]
    <3>1. listing' = next /\ failed' = failed
      BY <1>5, <2>2, StrategyNames DEF Processes!NextStrategy
    <3>2. next \in [at : 1..5, broken : BOOLEAN] /\ next.at = listing.at + 1 /\ next.broken = listing.broken
      BY <2>1, <2>2
    <3> HIDE DEF next
    <3>3. ~next.broken => \A i \in 1..5 : i < next.at => Processes!Strategies[i] \notin works
      BY <1>1, <2>1, <3>2 DEF ListInv
    <3>4. ListInv'
      BY <1>1, <1>2, <3>1, <3>2, <3>3 DEF ListInv, Processes!FailsOnlyIfNone
    <3>5. QED
      BY <1>3, <3>4 DEF ProcessInv
  <2>3. CASE ~(listing.at < 5)
    <3>1. listing' = None /\ failed' = IF listing.broken THEN "time" ELSE "all"
      BY <1>5, <2>3, StrategyNames DEF Processes!NextStrategy
    <3>2. ~listing.broken => works = {}
      <4>1. listing.at = 5
        BY <2>1, <2>3
      <4>2. ~listing.broken => \A i \in 1..5 : Processes!Strategies[i] \notin works
        BY <1>1, <2>1, <4>1 DEF ListInv
      <4>3. QED
        BY <1>1, <4>2, StrategyNames DEF ListInv
    <3>3. ListInv'
      BY <1>1, <1>2, <3>1, <3>2 DEF ListInv, Processes!FailsOnlyIfNone
    <3>4. QED
      BY <1>3, <3>3 DEF ProcessInv
  <2>4. QED
    BY <2>2, <2>3
<1>6. CASE Processes!StrategyBreaks
  <2>1. listing # None /\ listing \in [at : 1..5, broken : BOOLEAN]
    BY <1>1, <1>6 DEF Processes!StrategyBreaks, ListInv
  <2>2. CASE listing.at < 5
    <3> DEFINE next == [at |-> listing.at + 1, broken |-> TRUE]
    <3>1. listing' = next /\ failed' = failed
      BY <1>6, <2>2, StrategyNames DEF Processes!StrategyBreaks
    <3>2. next \in [at : 1..5, broken : BOOLEAN] /\ next.broken
      BY <2>1, <2>2
    <3> HIDE DEF next
    <3>3. ListInv'
      BY <1>1, <1>2, <3>1, <3>2 DEF ListInv, Processes!FailsOnlyIfNone
    <3>4. QED
      BY <1>3, <3>3 DEF ProcessInv
  <2>3. CASE ~(listing.at < 5)
    <3>1. listing' = None /\ failed' = "time"
      BY <1>6, <2>3, StrategyNames DEF Processes!StrategyBreaks
    <3>2. ListInv'
      BY <1>1, <1>2, <3>1 DEF ListInv, Processes!FailsOnlyIfNone
    <3>3. QED
      BY <1>3, <3>2 DEF ProcessInv
  <2>4. QED
    BY <2>2, <2>3
<1>7. CASE Processes!ListFails
  <2>1. listing' = None /\ failed' = "time"
    BY <1>7 DEF Processes!ListFails
  <2>2. ListInv'
    BY <1>1, <1>2, <2>1 DEF ListInv, Processes!FailsOnlyIfNone
  <2>3. QED
    BY <1>3, <2>2 DEF ProcessInv
<1>8. QED
  BY <1>4, <1>5, <1>6, <1>7

\* One PID has another process, younger than every row, or none.
Changes(p) ==
  /\ UNCHANGED <<works, listing, rows, signal, answer, hit, failed>> /\ born' \in Nat /\ born' >= born
  /\ table' \in [Pids \cup {InitPid} -> Processes!Process \cup {None}]
  /\ \A q \in Pids \cup {InitPid} : q # p => table'[q] = table[q]
  /\ table'[p] # None => table'[p].born = born' /\ born' > born

\* A process is born or exits, and what is known of the others stays true.
LEMMA ServerKeeps ==
  ASSUME ProcessInv, NEW p \in Pids,
         (\E prog \in Programs : Processes!Spawns(p, prog)) \/ Processes!Exits(p)
  PROVE  ProcessInv'
<1>1. ListInv /\ TableInv /\ RowInv /\ SignalInv /\ HitInv
  BY DEF ProcessInv
<1>2. Changes(p)
  <2>1. CASE Processes!Exits(p)
    BY <1>1, <2>1 DEF Processes!Exits, TableInv, Changes
  <2>2. ASSUME NEW prog \in Programs, Processes!Spawns(p, prog)
        PROVE  Changes(p)
    <3> DEFINE new == [born |-> born + 1, prog |-> prog]
    <3>1. /\ born' = born + 1 /\ table' = [table EXCEPT ![p] = new]
          /\ UNCHANGED <<works, listing, rows, signal, answer, hit, failed>>
      BY <2>2 DEF Processes!Spawns
    <3>2. new \in Processes!Process /\ new.born = born + 1
      BY <1>1 DEF TableInv, Processes!Process
    <3> HIDE DEF new
    <3>3. QED
      BY <1>1, <3>1, <3>2 DEF TableInv, Changes
  <2>3. QED
    BY <2>1, <2>2
<1>3. ASSUME NEW q \in Pids \cup {InitPid}, NEW row, Describes(q, row)
      PROVE  /\ row.born <= born'
             /\ table'[q] # None /\ table'[q].born = row.born => table'[q] = table[q]
  BY <1>1, <1>2, <1>3 DEF Describes, Processes!Row, TableInv, Changes
<1>4. RowInv'
  <2>1. ASSUME NEW q \in Pids \cup {InitPid}, rows'[q] # None PROVE Describes(q, rows[q])'
    <3>1. rows' = rows /\ Describes(q, rows[q])
      BY <1>1, <1>2, <2>1 DEF RowInv, Changes
    <3>2. QED
      BY <1>3, <3>1 DEF Describes
  <2>2. QED
    BY <2>1 DEF RowInv
<1>5. SignalInv'
  <2>1. signal' = signal
    BY <1>2 DEF Changes
  <2>2. ASSUME signal # None PROVE Describes(signal.pid, signal.row)'
    <3>1. signal.pid \in Pids \cup {InitPid} /\ Describes(signal.pid, signal.row)
      BY <1>1, <2>2 DEF SignalInv
    <3>2. QED
      BY <1>3, <2>1, <3>1 DEF Describes
  <2>3. ASSUME signal # None, signal.phase = "kill" PROVE Passed(signal.pid, signal.row, signal.checked)'
    <3>1. signal.pid \in Pids \cup {InitPid} /\ Passed(signal.pid, signal.row, signal.checked)
      BY <1>1, <2>3 DEF SignalInv
    <3>2. QED
      BY <1>1, <1>2, <2>1, <3>1 DEF Passed, Changes, TableInv
  <2>4. QED
    BY <1>1, <2>1, <2>2, <2>3 DEF SignalInv
<1>6. ListInv' /\ HitInv'
  BY <1>1, <1>2 DEF ListInv, HitInv, Changes, Processes!FailsOnlyIfNone, Processes!SignalsTheChosen,
     Processes!ProtectedIsSpared, Processes!SentIsReceived
<1>7. TableInv'
  <2>1. ASSUME NEW q \in Pids \cup {InitPid}, table'[q] # None PROVE table'[q].born <= born'
    BY <1>1, <1>2, <2>1 DEF Changes, TableInv, Processes!Process
  <2>2. QED
    BY <1>2, <2>1 DEF Changes, TableInv
<1>8. QED
  BY <1>4, <1>5, <1>6, <1>7 DEF ProcessInv

\* The row of a process, as the window gets it.
RowOf(p, strategy) ==
  [born |-> table[p].born, command |-> Processes!Command(strategy, table[p].prog),
   kernel |-> table[p].prog.kernel, canSignal |-> p # InitPid /\ ~table[p].prog.kernel,
   byArgs |-> strategy \in {"ps_aux", "busybox"} /\ table[p].prog.name # table[p].prog.comm]

\* A row that is read describes its process.
LEMMA RowDescribes ==
  ASSUME TableInv, NEW p \in Pids \cup {InitPid}, table[p] # None, NEW strategy
  PROVE  Describes(p, RowOf(p, strategy))
<1>1. table[p] \in Processes!Process /\ table[p].born <= born
  BY DEF TableInv
<1>2. PICK b \in Nat, g \in Programs : b = table[p].born /\ g = table[p].prog
  BY <1>1 DEF Processes!Process
<1>3. g.kernel \in BOOLEAN /\ g.comm \in Processes!Names /\ g.name \in Processes!Names
  <2>1. ASSUME NEW q \in Programs PROVE q.kernel \in BOOLEAN
    <3>1. \/ q = [comm |-> "sh", name |-> "sh", kernel |-> FALSE]
          \/ q = [comm |-> "long", name |-> "longname", kernel |-> FALSE]
          \/ q = [comm |-> "sh", name |-> "sh", kernel |-> TRUE]
      BY <2>1, Zenon DEF Programs
    <3>2. CASE q = [comm |-> "sh", name |-> "sh", kernel |-> FALSE]
      BY <3>2
    <3>3. CASE q = [comm |-> "long", name |-> "longname", kernel |-> FALSE]
      BY <3>3
    <3>4. CASE q = [comm |-> "sh", name |-> "sh", kernel |-> TRUE]
      BY <3>4
    <3>5. QED
      BY <3>1, <3>2, <3>3, <3>4
  <2>2. QED
    BY <1>2, <2>1 DEF Processes!Names
<1> DEFINE c == Processes!Command(strategy, g)
           a == strategy \in {"ps_aux", "busybox"} /\ g.name # g.comm
           s == p # InitPid /\ ~g.kernel
           row == [born |-> b, command |-> c, kernel |-> g.kernel, canSignal |-> s, byArgs |-> a]
<1>4. RowOf(p, strategy) = row
  BY <1>2 DEF RowOf
<1>5. c \in Processes!Names /\ (c = g.comm \/ a)
  BY <1>3 DEF Processes!Command
<1>6. a \in BOOLEAN /\ s \in BOOLEAN /\ (s <=> p # InitPid /\ ~g.kernel)
  BY <1>3
<1> HIDE DEF c, a, s
<1>7. /\ row \in Processes!Row /\ row.born = b /\ row.command = c /\ row.kernel = g.kernel
      /\ row.canSignal = s /\ row.byArgs = a
  BY <1>2, <1>3, <1>5, <1>6 DEF Processes!Row
<1> HIDE DEF row
<1>8. QED
  BY <1>1, <1>2, <1>4, <1>5, <1>6, <1>7 DEF Describes

\* The list replaces the rows.
LEMMA ListedKeeps ==
  ASSUME ProcessInv, Processes!Listed
  PROVE  ProcessInv'
<1>1. ListInv /\ TableInv /\ RowInv /\ SignalInv /\ HitInv
  BY DEF ProcessInv
<1>2. /\ UNCHANGED <<works, table, born, signal, answer, hit>> /\ listing' = None /\ failed' = None
      /\ rows' = [p \in Pids \cup {InitPid} |->
                    IF table[p] = None THEN None ELSE RowOf(p, Processes!Strategies[listing.at])]
  BY DEF Processes!Listed, RowOf
<1>3. RowInv'
  <2>1. ASSUME NEW p \in Pids \cup {InitPid}, rows'[p] # None PROVE Describes(p, rows[p])'
    <3>1. table[p] # None /\ rows'[p] = RowOf(p, Processes!Strategies[listing.at])
      BY <1>2, <2>1
    <3>2. Describes(p, rows'[p])
      BY <1>1, <3>1, RowDescribes
    <3>3. QED
      BY <1>2, <3>2 DEF Describes
  <2>2. QED
    BY <2>1 DEF RowInv
<1>4. TableInv' /\ SignalInv' /\ HitInv'
  BY <1>1, <1>2 DEF TableInv, SignalInv, HitInv, Describes, Passed, Processes!SignalsTheChosen,
     Processes!ProtectedIsSpared, Processes!SentIsReceived
<1>5. ListInv'
  BY <1>1, <1>2, NameAssumption DEF ListInv, Processes!FailsOnlyIfNone
<1>6. QED
  BY <1>3, <1>4, <1>5 DEF ProcessInv

\* What does not touch a signal under way or the processes keeps what is known of them.
LEMMA RestKeeps ==
  ASSUME ProcessInv, UNCHANGED <<works, table, born, rows, failed>>
  PROVE  /\ TableInv' /\ RowInv'
         /\ listing' = listing \/ listing' = [at |-> 1, broken |-> FALSE] => ListInv'
<1>1. ListInv /\ TableInv /\ RowInv
  BY DEF ProcessInv
<1>2. TableInv' /\ RowInv'
  BY <1>1 DEF TableInv, RowInv, Describes
<1>3. CASE listing' = listing
  BY <1>1, <1>2, <1>3 DEF ListInv, Processes!FailsOnlyIfNone
<1>4. CASE listing' = [at |-> 1, broken |-> FALSE]
  BY <1>1, <1>2, <1>4, FirstStrategy DEF ListInv, Processes!FailsOnlyIfNone
<1>5. QED
  BY <1>2, <1>3, <1>4

\* A signal is asked for, with the row that is shown.
LEMMA AskSignalKeeps ==
  ASSUME ProcessInv, NEW p \in Pids \cup {InitPid}, Processes!AskSignal(p)
  PROVE  ProcessInv'
<1>1. ListInv /\ TableInv /\ RowInv /\ SignalInv /\ HitInv
  BY DEF ProcessInv
<1> DEFINE r == [pid |-> p, row |-> rows[p], phase |-> "detail", checked |-> None]
<1>2. /\ rows[p] # None /\ rows[p].canSignal /\ signal' = r /\ answer' = None /\ hit' = None
      /\ UNCHANGED <<works, table, born, listing, rows, failed>>
  BY DEF Processes!AskSignal
<1>3. /\ r.pid = p /\ r.row = rows[p] /\ r.phase = "detail"
      /\ r \in [pid : Pids \cup {InitPid}, row : Processes!Row, phase : {"detail", "kill"}, checked : Nat \cup {None}]
  <2>1. rows[p] \in Processes!Row
    BY <1>1, <1>2 DEF RowInv, Describes
  <2>2. QED
    BY <2>1
<1> HIDE DEF r
<1>4. TableInv' /\ RowInv' /\ ListInv'
  BY <1>2, RestKeeps
<1>5. SignalInv'
  <2>1. Describes(p, rows[p])
    BY <1>1, <1>2 DEF RowInv
  <2>2. p # InitPid
    BY <1>2, <2>1 DEF Describes
  <2>3. Describes(p, rows[p])'
    BY <1>2, <2>1 DEF Describes
  <2>4. QED
    BY <1>2, <1>3, <2>2, <2>3 DEF SignalInv
<1>6. HitInv'
  BY <1>2, NameAssumption DEF HitInv, Processes!SignalsTheChosen, Processes!ProtectedIsSpared,
     Processes!SentIsReceived
<1>7. QED
  BY <1>4, <1>5, <1>6 DEF ProcessInv

\* A signal that fails or is refused.
LEMMA RefuseKeeps ==
  ASSUME ProcessInv, UNCHANGED <<works, table, born, listing, rows, hit, failed>>,
         NEW why \in {"failed", "changed", "protected", "gone"}, Processes!Refuse(why)
  PROVE  ProcessInv'
<1>1. TableInv' /\ RowInv' /\ ListInv'
  BY RestKeeps
<1>2. signal' = None /\ answer' = why
  BY DEF Processes!Refuse
<1>3. HitInv' /\ SignalInv'
  BY <1>2 DEF ProcessInv, HitInv, SignalInv, Processes!SignalsTheChosen,
     Processes!ProtectedIsSpared, Processes!SentIsReceived
<1>4. QED
  BY <1>1, <1>3 DEF ProcessInv

\* The check before a signal.
LEMMA DetailKeeps ==
  ASSUME ProcessInv, Processes!Detail
  PROVE  ProcessInv'
<1>1. ListInv /\ TableInv /\ RowInv /\ SignalInv /\ HitInv
  BY DEF ProcessInv
<1>2. /\ UNCHANGED <<works, table, born, listing, rows, hit, failed>> /\ signal # None
  BY DEF Processes!Detail
<1> DEFINE p == signal.pid
           why == Processes!validateSignalTarget(p, signal.row.command)
<1>3. p \in Pids \cup {InitPid} /\ signal.row.canSignal /\ Describes(p, signal.row) /\ p # InitPid
  BY <1>1, <1>2 DEF SignalInv
<1>4. CASE table[p] = None
  BY <1>2, <1>4, RefuseKeeps DEF Processes!Detail
<1>5. CASE table[p] # None
  <2>1. IF why # None THEN Processes!Refuse(why)
          ELSE answer' = answer /\ signal' = [signal EXCEPT !.phase = "kill", !.checked = table[p].born]
    BY <1>5 DEF Processes!Detail
  <2>2. \/ why \in {"protected", "changed"}
        \/ why = None /\ ~table[p].prog.kernel /\ signal.row.command = table[p].prog.comm
    BY DEF Processes!validateSignalTarget
  <2>3. CASE why \in {"protected", "changed"}
    <3> HIDE DEF why
    <3>1. why # None
      BY <2>3, NameAssumption
    <3>2. QED
      BY <1>2, <2>1, <2>3, <3>1, RefuseKeeps
  <2>4. CASE why = None /\ ~table[p].prog.kernel /\ signal.row.command = table[p].prog.comm
    <3>1. answer' = answer /\ signal' = [signal EXCEPT !.phase = "kill", !.checked = table[p].born]
      BY <2>1, <2>4
    <3>2. TableInv' /\ RowInv' /\ ListInv'
      BY <1>2, RestKeeps
    <3>3. HitInv'
      BY <1>1, <1>2, <3>1 DEF HitInv, Processes!SignalsTheChosen, Processes!ProtectedIsSpared,
         Processes!SentIsReceived
    <3>4. Passed(p, signal.row, table[p].born)
      BY <1>1, <1>3, <1>5, <2>4 DEF Passed, TableInv, Processes!Process
    <3>5. table[p].born \in Nat
      BY <3>4 DEF Passed
    <3>6. signal \in [pid : Pids \cup {InitPid}, row : Processes!Row, phase : {"detail", "kill"}, checked : Nat \cup {None}]
      BY <1>1, <1>2 DEF SignalInv
    <3> DEFINE r == [signal EXCEPT !.phase = "kill", !.checked = table[p].born]
    <3>7. /\ r \in [pid : Pids \cup {InitPid}, row : Processes!Row, phase : {"detail", "kill"}, checked : Nat \cup {None}]
          /\ r.pid = p /\ r.row = signal.row /\ r.phase = "kill" /\ r.checked = table[p].born
      BY <3>5, <3>6
    <3>8. signal' = r
      BY <3>1
    <3> HIDE DEF r
    <3>9. SignalInv'
      BY <1>2, <1>3, <3>4, <3>7, <3>8 DEF SignalInv, Describes, Passed
    <3>10. QED
      BY <3>2, <3>3, <3>9 DEF ProcessInv
  <2>5. QED
    BY <2>2, <2>3, <2>4
<1>6. QED
  BY <1>4, <1>5

\* The signal reaches whoever has the PID now.
LEMMA KillKeeps ==
  ASSUME ProcessInv, Processes!Kill
  PROVE  ProcessInv'
<1>1. ListInv /\ TableInv /\ RowInv /\ SignalInv /\ HitInv
  BY DEF ProcessInv
<1> DEFINE p == signal.pid
<1>2. /\ UNCHANGED <<works, born, rows, failed>> /\ signal # None /\ signal.phase = "kill"
  BY DEF Processes!Kill
<1>3. /\ p \in Pids \cup {InitPid} /\ signal.row \in Processes!Row
      /\ Passed(p, signal.row, signal.checked) /\ signal.checked \in Nat
  BY <1>1, <1>2 DEF SignalInv, Passed
<1>4. CASE table[p] = None
  BY <1>2, <1>4, RefuseKeeps DEF Processes!Kill
<1>5. CASE table[p] # None
  <2> DEFINE h == [got |-> table[p].born, row |-> signal.row, checked |-> signal.checked, prog |-> table[p].prog]
  <2>1. /\ hit' = h /\ signal' = None /\ answer' = "sent"
        /\ table' = table \/ table' = [table EXCEPT ![p] = None]
        /\ listing' = listing \/ listing' = [at |-> 1, broken |-> FALSE]
    BY <1>5 DEF Processes!Kill, Processes!Refuse
  <2>2. table[p].born \in Nat /\ table[p].prog \in Programs
    BY <1>1, <1>3, <1>5 DEF TableInv, Processes!Process
  <2>3. h \in Processes!Hit
    BY <1>3, <2>2 DEF Processes!Hit
  <2>4. /\ h.got = table[p].born /\ h.row = signal.row /\ h.checked = signal.checked
        /\ h.prog = table[p].prog /\ h # None
    BY <2>3, HitAssumption
  <2> HIDE DEF h
  <2>5. HitInv'
    BY <1>3, <1>5, <2>1, <2>4 DEF HitInv, Passed, Processes!SignalsTheChosen,
       Processes!ProtectedIsSpared, Processes!SentIsReceived
  <2>6. /\ table' \in [Pids \cup {InitPid} -> Processes!Process \cup {None}]
        /\ \A q \in Pids \cup {InitPid} : table'[q] # None => table'[q] = table[q]
    BY <1>1, <1>3, <2>1 DEF TableInv
  <2>7. TableInv'
    BY <1>1, <1>2, <2>6 DEF TableInv
  <2>8. RowInv'
    BY <1>1, <1>2, <2>6 DEF RowInv, Describes
  <2>9. SignalInv'
    BY <2>1 DEF SignalInv
  <2>10. ListInv'
    <3>1. CASE listing' = listing
      BY <1>1, <1>2, <3>1 DEF ListInv, Processes!FailsOnlyIfNone
    <3>2. CASE listing' = [at |-> 1, broken |-> FALSE]
      BY <1>1, <1>2, <3>2, FirstStrategy DEF ListInv, Processes!FailsOnlyIfNone
    <3>3. QED
      BY <2>1, <3>1, <3>2
  <2>11. QED
    BY <2>5, <2>7, <2>8, <2>9, <2>10 DEF ProcessInv
<1>6. QED
  BY <1>4, <1>5

\* Every step keeps the invariant, ...
LEMMA ProcessStep ==
  ASSUME ProcessInv, [Processes!Next]_(Processes!vars)
  PROVE  ProcessInv'
<1>1. CASE UNCHANGED Processes!vars
  <2>1. UNCHANGED <<works, table, born, listing, rows, signal, answer, hit, failed>>
    BY <1>1 DEF Processes!vars
  <2>2. QED
    BY <2>1 DEF ProcessInv, ListInv, TableInv, RowInv, SignalInv, HitInv, Describes, Passed,
       Processes!FailsOnlyIfNone, Processes!SignalsTheChosen, Processes!ProtectedIsSpared,
       Processes!SentIsReceived
<1>2. ASSUME NEW p \in Pids, (\E prog \in Programs : Processes!Spawns(p, prog)) \/ Processes!Exits(p)
      PROVE  ProcessInv'
  BY <1>2, ServerKeeps
<1>3. CASE Processes!AskList \/ Processes!NextStrategy \/ Processes!StrategyBreaks \/ Processes!ListFails
  BY <1>3, ListKeeps
<1>4. CASE Processes!Listed
  BY <1>4, ListedKeeps
<1>5. ASSUME NEW p \in Pids \cup {InitPid}, Processes!AskSignal(p) PROVE ProcessInv'
  BY <1>5, AskSignalKeeps
<1>6. CASE Processes!SignalFails
  BY <1>6, RefuseKeeps DEF Processes!SignalFails
<1>7. CASE Processes!Detail
  BY <1>7, DetailKeeps
<1>8. CASE Processes!Kill
  BY <1>8, KillKeeps
<1>9. QED
  BY <1>1, <1>2, <1>3, <1>4, <1>5, <1>6, <1>7, <1>8 DEF Processes!Next

\* ... with which the component starts, ...
LEMMA ProcessInit ==
  ASSUME Processes!Init
  PROVE  ProcessInv
<1>1. /\ works \subseteq {"gnu_no_header", "ps_aux", "proc"}
      /\ table \in [Pids \cup {InitPid} -> {None} \cup [born : {0}, prog : Programs]]
      /\ born = 0 /\ listing = None /\ rows = [p \in Pids \cup {InitPid} |-> None]
      /\ signal = None /\ answer = None /\ hit = None /\ failed = None
  BY DEF Processes!Init
<1>2. TableInv
  <2>1. \A p \in Pids \cup {InitPid} : table[p] \in Processes!Process \cup {None} /\ (table[p] # None => table[p].born = 0)
    BY <1>1 DEF Processes!Process
  <2>2. table \in [Pids \cup {InitPid} -> Processes!Process \cup {None}]
    BY <1>1, <2>1
  <2>3. QED
    BY <1>1, <2>1, <2>2 DEF TableInv
<1>3. ListInv /\ RowInv /\ SignalInv /\ HitInv
  BY <1>1, NameAssumption DEF ListInv, RowInv, SignalInv, HitInv, Processes!FailsOnlyIfNone,
     Processes!SignalsTheChosen, Processes!ProtectedIsSpared, Processes!SentIsReceived
<1>4. QED
  BY <1>2, <1>3 DEF ProcessInv

\* ... and from which the property follows.
LEMMA ProcessSound ==
  ASSUME ProcessInv
  PROVE  Processes!SignalsAreSafe
<1>1. ListInv /\ TableInv /\ RowInv /\ SignalInv /\ HitInv
  BY DEF ProcessInv
<1>2. Processes!TypeOK
  <2>1. works \subseteq {Processes!Strategies[i] : i \in DOMAIN Processes!Strategies}
    BY <1>1, StrategyNames DEF ListInv
  <2>2. listing # None => listing.at \in DOMAIN Processes!Strategies
    BY <1>1, StrategyNames DEF ListInv
  <2>3. \A p \in Pids \cup {InitPid} : rows[p] # None =>
          rows[p] \in Processes!Row /\ rows[p].canSignal = ~(p = InitPid \/ rows[p].kernel)
    <3>1. ASSUME NEW p \in Pids \cup {InitPid}, rows[p] # None
          PROVE  rows[p] \in Processes!Row /\ rows[p].canSignal = ~(p = InitPid \/ rows[p].kernel)
      <4>1. /\ rows[p].canSignal <=> p # InitPid /\ ~rows[p].kernel
            /\ rows[p] \in Processes!Row
        BY <1>1, <3>1 DEF RowInv, Describes
      <4>2. rows[p].canSignal \in BOOLEAN /\ rows[p].kernel \in BOOLEAN
        BY <4>1 DEF Processes!Row
      <4>3. QED
        BY <4>1, <4>2
    <3>2. QED
      BY <3>1
  <2>4. QED
    BY <1>1, <2>1, <2>2, <2>3 DEF Processes!TypeOK, TableInv, SignalInv, HitInv
<1>3. Processes!RefusedHasChanged
  <2>1. SUFFICES ASSUME signal # None, table[signal.pid] # None, table[signal.pid].born = signal.row.born
                 PROVE  Processes!validateSignalTarget(signal.pid, signal.row.command) = None \/ signal.row.byArgs
    BY DEF Processes!RefusedHasChanged
  <2>2. signal.pid # InitPid /\ signal.row.canSignal /\ Describes(signal.pid, signal.row)
    BY <1>1, <2>1 DEF SignalInv
  <2>3. /\ signal.pid # InitPid /\ ~table[signal.pid].prog.kernel
        /\ signal.row.command = table[signal.pid].prog.comm \/ signal.row.byArgs
    BY <2>1, <2>2 DEF Describes
  <2>4. QED
    BY <2>3 DEF Processes!validateSignalTarget
<1>4. QED
  BY <1>1, <1>2, <1>3 DEF ListInv, HitInv, Processes!SignalsAreSafe

\* A signal reaches the process that was chosen, or one that took its PID with the same command or
\* after the check; it is refused with a true reason; and a list fails only if no strategy works,
\* the time is over or the connection broke (Signal, validateSignalTarget, listWithTransport).
THEOREM SignalsSafe == Spec => []SignalsAreSafe
<1> DEFINE Inv == part = "processes" => ProcessInv
<1>1. Init => Inv
  BY ProcessInit DEF Init
<1>2. Inv /\ [Next]_vars => Inv'
  <2>1. [Next]_vars /\ part' = "processes" => part = "processes" /\ [Processes!Next]_(Processes!vars)
    <3>1. UNCHANGED vars => part' = part /\ UNCHANGED Processes!vars
      BY DEF vars, Processes!vars
    <3>2. Next /\ part' = "processes" => part = "processes" /\ Processes!Next
      BY DEF Next
    <3>3. QED
      BY <3>1, <3>2
  <2>2. QED
    BY <2>1, ProcessStep
<1>3. Inv => SignalsAreSafe
  BY ProcessSound DEF SignalsAreSafe
<1>4. QED
  BY <1>1, <1>2, <1>3, PTL DEF Spec

-----------------------------------------------------------------------------
\* Of finitely many things with numbers one has the greatest.
LEMMA LastOne ==
  ASSUME NEW S, IsFiniteSet(S), S # {}, NEW f, \A x \in S : f[x] \in Nat
  PROVE  \E x \in S : \A y \in S : f[y] <= f[x]
<1> DEFINE Above(x) == {u \in S : f[u] > f[x]}
           T == {Above(x) : x \in S}
<1>1. IsWellFoundedOn(StrictSubsetOrdering(S), SUBSET S)
  BY FS_StrictSubsetOrderingWellFounded, FS_FiniteSubsetsOfFinite
<1>2. T \subseteq SUBSET S /\ T # {}
  OBVIOUS
<1>3. PICK A \in T : \A B \in T : ~(<<B, A>> \in StrictSubsetOrdering(S))
  <2> HIDE DEF T
  <2>1. QED
    BY <1>1, <1>2, WFMin
<1>4. PICK x \in S : A = Above(x)
  BY <1>3
<1>5. ASSUME NEW y \in S, f[y] > f[x]
      PROVE  FALSE
  <2>1. Above(y) \subseteq Above(x) /\ y \in Above(x) /\ y \notin Above(y)
    BY <1>5
  <2>2. Above(y) \in T
    OBVIOUS
  <2>3. <<Above(y), Above(x)>> \in StrictSubsetOrdering(S)
    BY <2>1 DEF StrictSubsetOrdering
  <2>4. QED
    BY <1>3, <1>4, <2>2, <2>3
<1>6. QED
  BY <1>5

\* What holds a set and one thing more counts more.
LEMMA CountMore ==
  ASSUME NEW N, IsFiniteSet(N), NEW S, S \subseteq N, NEW b \in N, b \notin S,
         NEW k \in Nat, Cardinality(S) >= k
  PROVE  Cardinality(N) > k
<1>1. IsFiniteSet(S) /\ Cardinality(S) \in Nat /\ Cardinality(N) \in Nat
  BY FS_Subset, FS_CardinalityType
<1>2. Cardinality(S \cup {b}) = Cardinality(S) + 1
  <2>1. Cardinality(S \cup {b}) = IF b \in S THEN Cardinality(S) ELSE Cardinality(S) + 1
    BY <1>1, FS_AddElement
  <2>2. QED
    BY <2>1
<1>3. Cardinality(S \cup {b}) <= Cardinality(N)
  <2>1. S \cup {b} \subseteq N
    OBVIOUS
  <2>2. QED
    BY <2>1, FS_Subset
<1>4. QED
  BY <1>1, <1>2, <1>3

-----------------------------------------------------------------------------
\* The diagnostics of a server, for any finite set Ts of tasks, any calls Cs and any m lists.
task == v1
kept == v2
worker == v3
stops == v4
window == v5
starts == v6
read == v7
ended == v9
late == v10
USE DEF task, kept, worker, stops, window, starts, read, ended, late

StopRec(Ts) == Diagnostics(Ts, {}, 0)!CallRecord
Verdicts == {"completed", "failed", "canceled"}
Shows == Verdicts \cup {"running"}
TaskRec == [status : Shows, phase : {"starting", "reading", "finishing", "done"},
            canceled : BOOLEAN, expired : BOOLEAN,
            session : {"none", "open", "closed"}, held : BOOLEAN,
            remote : {"runs", "succeeds", "fails", "lost", "refused"},
            lines : BOOLEAN, waiting : BOOLEAN, emitted : 0..MaxLines, marked : BOOLEAN, exit : {0, 1},
            verdict : Verdicts \cup {None}]

Sound(Ts) == Ts \subseteq Nat /\ IsFiniteSet(Ts) /\ None \notin Ts /\ None \notin StopRec(Ts) /\ None \notin TaskRec

\* What a verdict on a task says of it.
Truth(how, r) ==
  /\ how = "completed" => r.remote = "succeeds"
  /\ how = "failed" => r.expired \/ r.remote \in {"fails", "lost", "refused"}
  /\ how = "canceled" => r.canceled

Over(r) == r.canceled \/ r.expired

\* A task, by the phase of its goroutine: while it reads, what it has seen of output and command
\* is what the command did, unless its context has ended.
TaskOk(r) ==
  /\ r.status # "running" => Truth(r.status, r)
  /\ r.session = "open" => r.held
  /\ r.phase = "starting" => /\ r.session = "none" /\ ~r.held /\ r.remote = "runs"
                             /\ r.lines /\ r.waiting /\ ~r.marked /\ r.exit = 0
  /\ r.phase = "reading" =>
       /\ r.session = "closed" => Over(r)
       /\ ~r.waiting => r.remote \in {"succeeds", "fails"} \/ Over(r)
       /\ ~r.lines => r.marked \/ r.remote = "lost" \/ Over(r)
       /\ r.marked => r.remote \in {"succeeds", "fails"}
       /\ r.marked /\ r.exit = 0 => r.remote = "succeeds" \/ Over(r)
       /\ r.exit # 0 => r.remote = "fails"
  /\ r.phase = "finishing" => r.verdict \in Verdicts /\ Truth(r.verdict, r)
  /\ r.phase = "done" => r.session # "open" /\ r.status # "running"

Going(t) == task[t] # None /\ task[t].status = "running"

DiagTypes(Ts) ==
  /\ task \in [Ts -> TaskRec \cup {None}]
  /\ window \in [Ts -> Shows \cup {None}]
  /\ read # None => read \in [Ts -> Shows \cup {None}]
  /\ ended \in [Ts -> Nat]
  /\ kept \subseteq Ts /\ starts \subseteq Ts
  /\ \A t \in kept \cup starts : task[t] # None

TasksOk(Ts) == \A t \in Ts : task[t] # None => TaskOk(task[t])

\* Tasks start in their order.
OrderOk(Ts) == \A t, u \in Ts : task[t] # None /\ u < t => task[u] # None

\* The end of a task is told once, and one that runs is stored.
ToldOk(Ts) ==
  \A t \in Ts : /\ ended[t] = IF task[t] = None \/ task[t].status = "running" THEN 0 ELSE 1
                /\ Going(t) => t \in kept

\* A call has cancelled the task that it waits for, and looks after all that still run.
StopsOk(Ts, Cs) ==
  /\ stops \in [Cs -> StopRec(Ts) \cup {None}]
  /\ \A k \in Cs : stops[k] # None =>
       /\ stops[k].todo \subseteq stops[k].asked
       /\ \A t \in stops[k].asked : /\ task[t] # None
                                    /\ t \in stops[k].todo \/ t = stops[k].now \/ task[t].status # "running"
       /\ stops[k].now # None => task[stops[k].now] # None /\ task[stops[k].now].canceled

Newer(S, t) == {u \in S : u > t}
KeptOk(Ts) == \A t \in Ts : task[t] # None /\ t \notin kept => Cardinality(Newer(kept, t)) > MaxKept

ShownOk == \A t \in kept : window[t] = task[t].status \/ t \in late

TasksInv(Ts) == DiagTypes(Ts) /\ TasksOk(Ts) /\ OrderOk(Ts) /\ ToldOk(Ts) /\ KeptOk(Ts) /\ ShownOk
DiagInv(Ts, Cs) == TasksInv(Ts) /\ StopsOk(Ts, Cs)

\* No task is forgotten, runs again or is no longer cancelled.
Onward(Ts) ==
  \A t \in Ts : task[t] # None => /\ task'[t] # None
                                  /\ task[t].canceled => task'[t].canceled
                                  /\ task[t].status # "running" => task'[t].status # "running"

\* A call goes on with what it knows of the tasks.
LEMMA StopsFrame ==
  ASSUME NEW CONSTANT Ts, NEW CONSTANT Cs, StopsOk(Ts, Cs), Onward(Ts), UNCHANGED stops
  PROVE  StopsOk(Ts, Cs)'
<1> SUFFICES ASSUME NEW k \in Cs, stops[k] # None
             PROVE  /\ stops[k].todo \subseteq stops[k].asked
                    /\ \A u \in stops[k].asked :
                         /\ task'[u] # None
                         /\ u \in stops[k].todo \/ u = stops[k].now \/ task'[u].status # "running"
                    /\ stops[k].now # None => task'[stops[k].now] # None /\ task'[stops[k].now].canceled
  BY DEF StopsOk
<1>1. stops[k] \in StopRec(Ts)
  BY DEF StopsOk
<1>2. stops[k].asked \subseteq Ts /\ stops[k].now \in Ts \cup {None}
  BY <1>1 DEF StopRec, Diagnostics!CallRecord
<1>3. QED
  BY <1>2 DEF StopsOk, Onward

\* A step of tasks that leaves their statuses as they are.
LEMMA TasksMove ==
  ASSUME NEW CONSTANT Ts, TasksInv(Ts),
         task' \in [Ts -> TaskRec \cup {None}],
         \A u \in Ts : /\ task[u] = None <=> task'[u] = None
                       /\ task[u] # None => TaskOk(task'[u]) /\ task'[u].status = task[u].status,
         UNCHANGED <<kept, window, starts, read, ended, late>>
  PROVE  TasksInv(Ts)'
<1>1. DiagTypes(Ts)'
  BY DEF TasksInv, DiagTypes
<1>2. TasksOk(Ts)'
  BY DEF TasksInv, TasksOk
<1>3. OrderOk(Ts)'
  BY DEF TasksInv, OrderOk
<1>4. ToldOk(Ts)'
  BY DEF TasksInv, ToldOk, Going, DiagTypes
<1>5. KeptOk(Ts)'
  BY DEF TasksInv, KeptOk, Newer
<1>6. ShownOk'
  BY DEF TasksInv, ShownOk, DiagTypes
<1>7. QED
  BY <1>1, <1>2, <1>3, <1>4, <1>5, <1>6 DEF TasksInv

\* The same of one task.
LEMMA OneTask ==
  ASSUME NEW CONSTANT Ts, Sound(Ts), TasksInv(Ts),
         NEW CONSTANT t \in Ts, task[t] # None, NEW r, r \in TaskRec, TaskOk(r),
         r.status = task[t].status, task[t].canceled => r.canceled,
         task' = [task EXCEPT ![t] = r],
         UNCHANGED <<kept, window, starts, read, ended, late>>
  PROVE  TasksInv(Ts)' /\ Onward(Ts)
<1>1. /\ task \in [Ts -> TaskRec \cup {None}] /\ r # None
      /\ task' \in [Ts -> TaskRec \cup {None}]
      /\ \A u \in Ts : task'[u] = IF u = t THEN r ELSE task[u]
  BY DEF TasksInv, DiagTypes, Sound
<1>2. TasksInv(Ts)'
  BY <1>1, TasksMove DEF TasksInv, TasksOk
<1>3. QED
  BY <1>1, <1>2 DEF Onward

\* A task ends.
LEMMA OneEnds ==
  ASSUME NEW CONSTANT Ts, Sound(Ts), TasksInv(Ts),
         NEW CONSTANT t \in Ts, Going(t), NEW r, r \in TaskRec, TaskOk(r),
         r.status # "running", task[t].canceled => r.canceled,
         task' = [task EXCEPT ![t] = r],
         ended' = [ended EXCEPT ![t] = @ + 1], window' = [window EXCEPT ![t] = r.status],
         UNCHANGED <<kept, starts, read, late>>
  PROVE  TasksInv(Ts)' /\ Onward(Ts)
<1>1. /\ task \in [Ts -> TaskRec \cup {None}] /\ r # None
      /\ task' \in [Ts -> TaskRec \cup {None}]
      /\ \A u \in Ts : task'[u] = IF u = t THEN r ELSE task[u]
  BY DEF TasksInv, DiagTypes, Sound
<1>2. r.status \in Shows
  BY DEF TaskRec
<1>3. /\ ended \in [Ts -> Nat] /\ ended[t] = 0 /\ ended' \in [Ts -> Nat]
      /\ \A u \in Ts : ended'[u] = IF u = t THEN 1 ELSE ended[u]
  BY DEF TasksInv, DiagTypes, ToldOk, Going
<1>4. /\ window' \in [Ts -> Shows \cup {None}]
      /\ \A u \in Ts : window'[u] = IF u = t THEN r.status ELSE window[u]
  BY <1>2 DEF TasksInv, DiagTypes
<1>5. DiagTypes(Ts)'
  BY <1>1, <1>3, <1>4 DEF TasksInv, DiagTypes
<1>6. TasksOk(Ts)'
  BY <1>1 DEF TasksInv, TasksOk
<1>7. OrderOk(Ts)'
  BY <1>1 DEF TasksInv, OrderOk, Going
<1>8. ToldOk(Ts)'
  BY <1>1, <1>3 DEF TasksInv, ToldOk, Going, DiagTypes
<1>9. KeptOk(Ts)'
  BY <1>1 DEF TasksInv, KeptOk, Newer, Going
<1>10. ShownOk'
  BY <1>1, <1>4 DEF TasksInv, ShownOk, DiagTypes
<1>11. QED
  BY <1>1, <1>5, <1>6, <1>7, <1>8, <1>9, <1>10 DEF TasksInv, Onward

\* The records of tasks.
LEMMA TaskFields ==
  ASSUME NEW CONSTANT Ts, NEW CONSTANT Cs, NEW CONSTANT m
  PROVE  Diagnostics(Ts, Cs, m)!TaskRecord = TaskRec
  BY DEF TaskRec, Diagnostics!TaskRecord, Diagnostics!Statuses, Diagnostics!Final, Shows, Verdicts

\* How the loop is left.
LEMMA Decided ==
  ASSUME NEW CONSTANT Ts, NEW CONSTANT Cs, NEW CONSTANT m, NEW CONSTANT t, task[t] \in TaskRec, TaskOk(task[t]),
         task[t].phase \in {"starting", "reading"},
         NEW v \in Verdicts,
         NEW r, r = Diagnostics(Ts, Cs, m)!Decide(t, v)
  PROVE  /\ r \in TaskRec /\ (Truth(v, task[t]) => TaskOk(r)) /\ r.status = task[t].status /\ r.phase = "finishing"
         /\ r.canceled = task[t].canceled /\ r.expired = task[t].expired /\ r.remote = task[t].remote
         /\ r.held = task[t].held /\ r.session = task[t].session /\ r.verdict = v
<1>1. r = [task[t] EXCEPT !.phase = "finishing", !.verdict = v, !.lines = FALSE, !.waiting = FALSE,
                          !.emitted = 0, !.marked = FALSE, !.exit = 0]
  BY DEF Diagnostics!Decide
<1>2. r \in TaskRec
  <2> DEFINE s == [task[t] EXCEPT !.phase = "finishing", !.verdict = v, !.lines = FALSE, !.waiting = FALSE]
             u == [s EXCEPT !.emitted = 0]
  <2>1. s \in TaskRec
    BY DEF TaskRec
  <2>2. r = [u EXCEPT !.marked = FALSE, !.exit = 0]
    BY <1>1
  <2> HIDE DEF s
  <2>3. u \in TaskRec
    BY <2>1, KeptAssumption DEF TaskRec
  <2> HIDE DEF u
  <2>4. QED
    BY <2>2, <2>3 DEF TaskRec
<1>3. /\ r.status = task[t].status /\ r.phase = "finishing"
      /\ r.canceled = task[t].canceled /\ r.expired = task[t].expired /\ r.remote = task[t].remote
      /\ r.held = task[t].held /\ r.session = task[t].session /\ r.verdict = v
  BY <1>1 DEF TaskRec
<1>4. Truth(v, task[t]) => TaskOk(r)
  BY <1>3 DEF TaskOk, Truth
<1>5. QED
  BY <1>2, <1>3, <1>4

\* A task moves on, by itself, its command or its timeout.
LEMMA StepKeeps ==
  ASSUME NEW CONSTANT Ts, NEW CONSTANT Cs, NEW CONSTANT m, Sound(Ts), DiagInv(Ts, Cs),
         NEW CONSTANT t \in Ts, Diagnostics(Ts, Cs, m)!Step(t), ~Diagnostics(Ts, Cs, m)!Finish(t)
  PROVE  DiagInv(Ts, Cs)'
<1> DEFINE Moves(r) == r.status = task[t].status /\ (task[t].canceled => r.canceled)
           Takes(r) == /\ task' = [task EXCEPT ![t] = r]
                       /\ UNCHANGED <<kept, stops, window, starts, read, ended, late>>
<1>1. task[t] # None
  BY DEF Diagnostics!Step, Diagnostics!StartStreamingCommand, Diagnostics!SessionEnds, Diagnostics!Expires, Diagnostics!CommandEnds, Diagnostics!Line, Diagnostics!ExitMarker, Diagnostics!Reading, Diagnostics!LinesEnd, Diagnostics!ContextDone, Diagnostics!LoopEnds, Diagnostics!Finish, Diagnostics!WaitReturns
<1>2. task[t] \in TaskRec /\ TaskOk(task[t])
  BY <1>1 DEF DiagInv, TasksInv, DiagTypes, TasksOk
<1>3. ASSUME NEW r, r \in TaskRec, TaskOk(r), Moves(r), Takes(r)
      PROVE  DiagInv(Ts, Cs)'
  BY <1>1, <1>3, OneTask, StopsFrame DEF DiagInv, Takes
<1> HIDE DEF Takes
<1>4. CASE Diagnostics(Ts, Cs, m)!SessionEnds(t)
  <2> DEFINE r == [task[t] EXCEPT !.session = "closed"]
  <2>1. Takes(r)
    BY <1>4 DEF Takes, Over, Diagnostics!SessionEnds, Diagnostics!Ended, Diagnostics!Becomes, Diagnostics!window
  <2>2. r \in TaskRec
    BY <1>2 DEF TaskRec
  <2>3. /\ r.status = task[t].status /\ r.phase = task[t].phase /\ r.canceled = task[t].canceled /\ r.expired = task[t].expired /\ r.held = task[t].held /\ r.remote = task[t].remote /\ r.lines = task[t].lines /\ r.waiting = task[t].waiting /\ r.marked = task[t].marked /\ r.exit = task[t].exit /\ r.verdict = task[t].verdict
       /\ r.session = "closed"
    BY <1>2 DEF TaskRec
  <2> HIDE DEF r
  <2>4. TaskOk(r)
    BY <1>2, <1>4, <2>3 DEF TaskOk, Truth, Over, Diagnostics!SessionEnds, Diagnostics!Ended
  <2>5. QED
    BY <2>1, <2>2, <2>3, <2>4, <1>3
<1>5. CASE Diagnostics(Ts, Cs, m)!Expires(t)
  <2> DEFINE r == [task[t] EXCEPT !.expired = TRUE]
  <2>1. Takes(r)
    BY <1>5 DEF Takes, Over, Diagnostics!Expires, Diagnostics!Becomes, Diagnostics!window
  <2>2. r \in TaskRec
    BY <1>2 DEF TaskRec
  <2>3. /\ r.status = task[t].status /\ r.phase = task[t].phase /\ r.canceled = task[t].canceled /\ r.session = task[t].session /\ r.held = task[t].held /\ r.remote = task[t].remote /\ r.lines = task[t].lines /\ r.waiting = task[t].waiting /\ r.marked = task[t].marked /\ r.exit = task[t].exit /\ r.verdict = task[t].verdict
       /\ r.expired = TRUE
    BY <1>2 DEF TaskRec
  <2> HIDE DEF r
  <2>4. TaskOk(r)
    BY <1>2, <1>5, <2>3 DEF TaskOk, Truth, Over, Diagnostics!Expires
  <2>5. QED
    BY <2>1, <2>2, <2>3, <2>4, <1>3
<1>6. CASE Diagnostics(Ts, Cs, m)!Line(t)
  <2> DEFINE r == [task[t] EXCEPT !.emitted = @ + 1]
  <2>0. task[t].emitted + 1 \in 0..MaxLines
    BY <1>2, <1>6, KeptAssumption DEF Diagnostics!Line, TaskRec
  <2>1. Takes(r)
    BY <1>6 DEF Takes, Over, Diagnostics!Line, Diagnostics!Reading, Diagnostics!Ended, Diagnostics!Becomes, Diagnostics!window
  <2>2. r \in TaskRec
    BY <1>2, <2>0 DEF TaskRec
  <2>3. /\ r.status = task[t].status /\ r.phase = task[t].phase /\ r.canceled = task[t].canceled /\ r.expired = task[t].expired /\ r.session = task[t].session /\ r.held = task[t].held /\ r.remote = task[t].remote /\ r.lines = task[t].lines /\ r.waiting = task[t].waiting /\ r.marked = task[t].marked /\ r.exit = task[t].exit /\ r.verdict = task[t].verdict
    BY <1>2 DEF TaskRec
  <2> HIDE DEF r
  <2>4. TaskOk(r)
    BY <1>2, <1>6, <2>3 DEF TaskOk, Truth, Over, Diagnostics!Line, Diagnostics!Reading, Diagnostics!Ended
  <2>5. QED
    BY <2>1, <2>2, <2>3, <2>4, <1>3
<1>7. CASE Diagnostics(Ts, Cs, m)!ExitMarker(t)
  <2> DEFINE r == [task[t] EXCEPT !.marked = TRUE, !.exit = IF Diagnostics(Ts, Cs, m)!Ended(t) \/ task[t].remote = "succeeds" THEN 0 ELSE 1]
  <2>1. Takes(r)
    BY <1>7 DEF Takes, Over, Diagnostics!ExitMarker, Diagnostics!Reading, Diagnostics!Ended, Diagnostics!Becomes, Diagnostics!window
  <2>2. r \in TaskRec
    BY <1>2 DEF TaskRec
  <2>3. /\ r.status = task[t].status /\ r.phase = task[t].phase /\ r.canceled = task[t].canceled /\ r.expired = task[t].expired /\ r.session = task[t].session /\ r.held = task[t].held /\ r.remote = task[t].remote /\ r.lines = task[t].lines /\ r.waiting = task[t].waiting /\ r.verdict = task[t].verdict
       /\ r.marked = TRUE
       /\ r.exit = (IF Diagnostics(Ts, Cs, m)!Ended(t) \/ task[t].remote = "succeeds" THEN 0 ELSE 1)
    BY <1>2 DEF TaskRec
  <2> HIDE DEF r
  <2>4. TaskOk(r)
    BY <1>2, <1>7, <2>3 DEF TaskOk, Truth, Over, Diagnostics!ExitMarker, Diagnostics!Reading, Diagnostics!Ended
  <2>5. QED
    BY <2>1, <2>2, <2>3, <2>4, <1>3
<1>8. CASE Diagnostics(Ts, Cs, m)!LinesEnd(t)
  <2> DEFINE r == [task[t] EXCEPT !.lines = FALSE]
  <2>1. Takes(r)
    BY <1>8 DEF Takes, Over, Diagnostics!LinesEnd, Diagnostics!Reading, Diagnostics!Ended, Diagnostics!Becomes, Diagnostics!window
  <2>2. r \in TaskRec
    BY <1>2 DEF TaskRec
  <2>3. /\ r.status = task[t].status /\ r.phase = task[t].phase /\ r.canceled = task[t].canceled /\ r.expired = task[t].expired /\ r.session = task[t].session /\ r.held = task[t].held /\ r.remote = task[t].remote /\ r.waiting = task[t].waiting /\ r.marked = task[t].marked /\ r.exit = task[t].exit /\ r.verdict = task[t].verdict
       /\ r.lines = FALSE
    BY <1>2 DEF TaskRec
  <2> HIDE DEF r
  <2>4. TaskOk(r)
    BY <1>2, <1>8, <2>3 DEF TaskOk, Truth, Over, Diagnostics!LinesEnd, Diagnostics!Reading, Diagnostics!Ended
  <2>5. QED
    BY <2>1, <2>2, <2>3, <2>4, <1>3
<1>9. ASSUME NEW CONSTANT how \in {"succeeds", "fails"}, Diagnostics(Ts, Cs, m)!CommandEnds(t, how)
      PROVE  DiagInv(Ts, Cs)'
  <2> DEFINE r == [task[t] EXCEPT !.remote = how]
  <2>1. Takes(r)
    BY <1>9 DEF Takes, Over, Diagnostics!CommandEnds, Diagnostics!Becomes, Diagnostics!window
  <2>2. r \in TaskRec
    BY <1>2 DEF TaskRec
  <2>3. /\ r.status = task[t].status /\ r.phase = task[t].phase /\ r.canceled = task[t].canceled /\ r.expired = task[t].expired /\ r.session = task[t].session /\ r.held = task[t].held /\ r.lines = task[t].lines /\ r.waiting = task[t].waiting /\ r.marked = task[t].marked /\ r.exit = task[t].exit /\ r.verdict = task[t].verdict
       /\ r.remote = how
    BY <1>2 DEF TaskRec
  <2> HIDE DEF r
  <2>4. TaskOk(r)
    BY <1>2, <1>9, <2>3 DEF TaskOk, Truth, Over, Diagnostics!CommandEnds
  <2>5. QED
    BY <2>1, <2>2, <2>3, <2>4, <1>3
<1>10. CASE Diagnostics(Ts, Cs, m)!StartStreamingCommand(t) /\ task' = [task EXCEPT ![t] =
        [task[t] EXCEPT !.phase = "reading", !.session = "open", !.held = TRUE]]
  <2> DEFINE r == [task[t] EXCEPT !.phase = "reading", !.session = "open", !.held = TRUE]
  <2>1. Takes(r)
    BY <1>10 DEF Takes, Over, Diagnostics!StartStreamingCommand, Diagnostics!Becomes, Diagnostics!window
  <2>2. r \in TaskRec
    BY <1>2 DEF TaskRec
  <2>3. /\ r.status = task[t].status /\ r.canceled = task[t].canceled /\ r.expired = task[t].expired /\ r.remote = task[t].remote /\ r.lines = task[t].lines /\ r.waiting = task[t].waiting /\ r.marked = task[t].marked /\ r.exit = task[t].exit /\ r.verdict = task[t].verdict
       /\ r.phase = "reading"
       /\ r.session = "open"
       /\ r.held = TRUE
    BY <1>2 DEF TaskRec
  <2> HIDE DEF r
  <2>4. TaskOk(r)
    BY <1>2, <1>10, <2>3 DEF TaskOk, Truth, Over, Diagnostics!StartStreamingCommand
  <2>5. QED
    BY <2>1, <2>2, <2>3, <2>4, <1>3
<1>11. ASSUME NEW CONSTANT err \in BOOLEAN, Diagnostics(Ts, Cs, m)!WaitReturns(t, err), ~err \/ Over(task[t])
      PROVE  DiagInv(Ts, Cs)'
  <2> DEFINE r == [task[t] EXCEPT !.waiting = FALSE]
  <2>1. Takes(r)
    BY <1>11 DEF Takes, Over, Diagnostics!WaitReturns, Diagnostics!Reading, Diagnostics!Ended, Diagnostics!Becomes, Diagnostics!window
  <2>2. r \in TaskRec
    BY <1>2 DEF TaskRec
  <2>3. /\ r.status = task[t].status /\ r.phase = task[t].phase /\ r.canceled = task[t].canceled /\ r.expired = task[t].expired /\ r.session = task[t].session /\ r.held = task[t].held /\ r.remote = task[t].remote /\ r.lines = task[t].lines /\ r.marked = task[t].marked /\ r.exit = task[t].exit /\ r.verdict = task[t].verdict
       /\ r.waiting = FALSE
    BY <1>2 DEF TaskRec
  <2> HIDE DEF r
  <2>4. TaskOk(r)
    BY <1>2, <1>11, <2>3 DEF TaskOk, Truth, Over, Diagnostics!WaitReturns, Diagnostics!Reading, Diagnostics!Ended
  <2>5. QED
    BY <2>1, <2>2, <2>3, <2>4, <1>3
<1>12. ASSUME NEW CONSTANT err \in BOOLEAN, Diagnostics(Ts, Cs, m)!WaitReturns(t, err), err, ~Over(task[t])
      PROVE  DiagInv(Ts, Cs)'
  <2> DEFINE v == "failed"
             d == Diagnostics(Ts, Cs, m)!Decide(t, v)
             r == d
  <2>1. v \in Verdicts /\ Truth(v, task[t]) /\ task[t].phase \in {"starting", "reading"}
    BY <1>2, <1>12 DEF Verdicts, Truth, TaskOk, TaskRec, Over, Diagnostics!WaitReturns, Diagnostics!Reading, Diagnostics!Ended
  <2>2. Takes(r)
    BY <1>12 DEF Takes, Over, Diagnostics!WaitReturns, Diagnostics!Reading, Diagnostics!Ended, Diagnostics!Becomes, Diagnostics!window
  <2> HIDE DEF v
  <2>3. /\ d \in TaskRec /\ TaskOk(d) /\ d.status = task[t].status /\ d.phase = "finishing"
        /\ d.canceled = task[t].canceled /\ d.expired = task[t].expired /\ d.remote = task[t].remote
        /\ d.held = task[t].held /\ d.session = task[t].session /\ d.verdict = v
    BY <1>2, <2>1, Decided
  <2>4. QED
    BY <1>3, <2>2, <2>3
<1>13. CASE Diagnostics(Ts, Cs, m)!LoopEnds(t)
  <2> DEFINE v == IF task[t].canceled THEN "canceled" ELSE IF task[t].expired \/ task[t].exit # 0 THEN "failed" ELSE "completed"
             d == Diagnostics(Ts, Cs, m)!Decide(t, v)
             r == d
  <2>1. v \in Verdicts /\ Truth(v, task[t]) /\ task[t].phase \in {"starting", "reading"}
    BY <1>2, <1>13 DEF Verdicts, Truth, TaskOk, TaskRec, Over, Diagnostics!LoopEnds, Diagnostics!Reading
  <2>2. Takes(r)
    BY <1>13 DEF Takes, Over, Diagnostics!LoopEnds, Diagnostics!Reading, Diagnostics!Becomes, Diagnostics!window
  <2> HIDE DEF v
  <2>3. /\ d \in TaskRec /\ TaskOk(d) /\ d.status = task[t].status /\ d.phase = "finishing"
        /\ d.canceled = task[t].canceled /\ d.expired = task[t].expired /\ d.remote = task[t].remote
        /\ d.held = task[t].held /\ d.session = task[t].session /\ d.verdict = v
    BY <1>2, <2>1, Decided
  <2>4. QED
    BY <1>3, <2>2, <2>3
<1>14. CASE Diagnostics(Ts, Cs, m)!ContextDone(t)
  <2> DEFINE v == IF task[t].canceled THEN "canceled" ELSE "failed"
             d == Diagnostics(Ts, Cs, m)!Decide(t, v)
             r == [d EXCEPT !.held = FALSE, !.session = IF task[t].held THEN "closed" ELSE @]
  <2>1. v \in Verdicts /\ Truth(v, task[t]) /\ task[t].phase \in {"starting", "reading"}
    BY <1>2, <1>14 DEF Verdicts, Truth, TaskOk, TaskRec, Over, Diagnostics!ContextDone, Diagnostics!Reading, Diagnostics!Ended
  <2>2. Takes(r)
    BY <1>14 DEF Takes, Over, Diagnostics!ContextDone, Diagnostics!Reading, Diagnostics!Ended, Diagnostics!Becomes, Diagnostics!window
  <2> HIDE DEF v
  <2>3. /\ d \in TaskRec /\ TaskOk(d) /\ d.status = task[t].status /\ d.phase = "finishing"
        /\ d.canceled = task[t].canceled /\ d.expired = task[t].expired /\ d.remote = task[t].remote
        /\ d.held = task[t].held /\ d.session = task[t].session /\ d.verdict = v
    BY <1>2, <2>1, Decided
  <2> HIDE DEF d
  <2>4. r \in TaskRec /\ r.status = d.status /\ r.canceled = d.canceled /\ r.expired = d.expired
        /\ r.phase = d.phase /\ r.verdict = d.verdict /\ r.remote = d.remote /\ r.held = FALSE /\ r.session = (IF task[t].held THEN "closed" ELSE d.session)
    BY <2>3 DEF TaskRec
  <2> HIDE DEF r
  <2>5. TaskOk(r)
    BY <1>2, <1>14, <2>1, <2>3, <2>4 DEF TaskOk, Truth, Over
  <2>6. QED
    BY <1>3, <2>2, <2>3, <2>4, <2>5
<1>15. CASE Diagnostics(Ts, Cs, m)!StartStreamingCommand(t) /\ task' # [task EXCEPT ![t] =
        [task[t] EXCEPT !.phase = "reading", !.session = "open", !.held = TRUE]]
  <2> DEFINE v == IF task[t].canceled THEN "canceled" ELSE "failed"
             d == Diagnostics(Ts, Cs, m)!Decide(t, v)
             r == [d EXCEPT !.remote = "refused"]
  <2>1. v \in Verdicts /\  task[t].phase \in {"starting", "reading"}
    BY <1>2, <1>15 DEF Verdicts, Truth, TaskOk, TaskRec, Over, Diagnostics!StartStreamingCommand
  <2>2. Takes(r)
    BY <1>15 DEF Takes, Over, Diagnostics!StartStreamingCommand, Diagnostics!Becomes, Diagnostics!window
  <2> HIDE DEF v
  <2>3. /\ d \in TaskRec /\ d.status = task[t].status /\ d.phase = "finishing"
        /\ d.canceled = task[t].canceled /\ d.expired = task[t].expired /\ d.remote = task[t].remote
        /\ d.held = task[t].held /\ d.session = task[t].session /\ d.verdict = v
    BY <1>2, <2>1, Decided
  <2> HIDE DEF d
  <2>4. r \in TaskRec /\ r.status = d.status /\ r.canceled = d.canceled /\ r.expired = d.expired
        /\ r.phase = d.phase /\ r.verdict = d.verdict /\ r.remote = "refused" /\ r.held = d.held /\ r.session = d.session
    BY <2>3 DEF TaskRec
  <2> HIDE DEF r
  <2>5. TaskOk(r)
    BY <1>2, <1>15, <2>1, <2>3, <2>4 DEF TaskOk, Truth, Over, v, Diagnostics!StartStreamingCommand
  <2>6. QED
    BY <1>3, <2>2, <2>3, <2>4, <2>5
<1>16. QED
  BY <1>4, <1>5, <1>6, <1>7, <1>8, <1>9, <1>10, <1>11, <1>12, <1>13, <1>14, <1>15 DEF Diagnostics!Step

\* finishDiagnostic ends a task that still runs, and only such a one.
LEMMA FinishKeeps ==
  ASSUME NEW CONSTANT Ts, NEW CONSTANT Cs, NEW CONSTANT m, Sound(Ts), TasksInv(Ts),
         NEW CONSTANT t \in Ts, task[t] # None, NEW v \in Verdicts, NEW r \in TaskRec,
         r.status = task[t].status, task[t].canceled => r.canceled,
         Going(t) => TaskOk([r EXCEPT !.status = v]), ~Going(t) => TaskOk(r),
         Diagnostics(Ts, Cs, m)!FinishDiagnostic(t, v, r), UNCHANGED <<kept, starts, read, late>>
  PROVE  TasksInv(Ts)' /\ Onward(Ts) /\ task'[t].status # "running"
<1> DEFINE q == [r EXCEPT !.status = v]
<1>1. /\ q \in TaskRec /\ q.status = v /\ q.canceled = r.canceled /\ v # "running"
  BY DEF TaskRec, Shows, Verdicts
<1>2. task \in [Ts -> TaskRec \cup {None}] /\ (Going(t) => t \in kept)
  BY DEF TasksInv, DiagTypes, ToldOk
<1>3. CASE Going(t)
  <2>1. /\ task' = [task EXCEPT ![t] = q]
        /\ ended' = [ended EXCEPT ![t] = @ + 1] /\ window' = [window EXCEPT ![t] = v]
    BY <1>2, <1>3 DEF Going, Diagnostics!FinishDiagnostic, Diagnostics!Becomes
  <2>2. TaskOk(q)
    BY <1>3
  <2> HIDE DEF q
  <2>3. TasksInv(Ts)' /\ Onward(Ts)
    BY <1>1, <1>3, <2>1, <2>2, OneEnds
  <2>4. QED
    BY <1>1, <1>2, <2>1, <2>3
<1>4. CASE ~Going(t)
  <2>1. task' = [task EXCEPT ![t] = r] /\ UNCHANGED <<ended, window>>
    BY <1>4 DEF Going, Diagnostics!FinishDiagnostic, Diagnostics!Becomes
  <2>2. TasksInv(Ts)' /\ Onward(Ts)
    BY <1>4, <2>1, OneTask
  <2>3. QED
    BY <1>2, <1>4, <2>1, <2>2 DEF Going
<1>5. QED
  BY <1>3, <1>4

\* The end of runNetworkDiagnostic.
LEMMA FinishStep ==
  ASSUME NEW CONSTANT Ts, NEW CONSTANT Cs, NEW CONSTANT m, Sound(Ts), DiagInv(Ts, Cs),
         NEW CONSTANT t \in Ts, Diagnostics(Ts, Cs, m)!Finish(t)
  PROVE  DiagInv(Ts, Cs)'
<1> DEFINE r == [task[t] EXCEPT !.phase = "done", !.verdict = None, !.held = FALSE,
                                !.session = IF task[t].held THEN "closed" ELSE @]
           v == task[t].verdict
<1>1. task[t] # None /\ task[t].phase = "finishing"
  BY DEF Diagnostics!Finish
<1>2. task[t] \in TaskRec /\ TaskOk(task[t])
  BY <1>1 DEF DiagInv, TasksInv, DiagTypes, TasksOk
<1>3. v \in Verdicts /\ Truth(v, task[t])
  BY <1>1, <1>2 DEF TaskOk
<1>4. Diagnostics(Ts, Cs, m)!FinishDiagnostic(t, v, r) /\ UNCHANGED <<kept, stops, starts, read, late>>
  BY DEF Diagnostics!Finish
<1> HIDE DEF v
<1>5. /\ r \in TaskRec /\ r.status = task[t].status /\ r.canceled = task[t].canceled /\ r.phase = "done"
      /\ r.expired = task[t].expired /\ r.remote = task[t].remote /\ ~r.held /\ r.session # "open"
  BY <1>2 DEF TaskRec, TaskOk
<1> HIDE DEF r
<1> DEFINE q == [r EXCEPT !.status = v]
<1>6. /\ q.status = v /\ q.canceled = task[t].canceled /\ q.phase = "done"
      /\ q.expired = task[t].expired /\ q.remote = task[t].remote /\ ~q.held /\ q.session # "open"
  BY <1>5 DEF TaskRec
<1>7. TaskOk(q)
  <2> HIDE DEF q
  <2>1. QED
    BY <1>3, <1>6 DEF TaskOk, Truth, Verdicts
<1>8. task[t].status # "running" => TaskOk(r)
  BY <1>2, <1>5 DEF TaskOk, Truth
<1>9. TasksInv(Ts)' /\ Onward(Ts)
  BY <1>1, <1>3, <1>4, <1>5, <1>7, <1>8, FinishKeeps DEF DiagInv, Going
<1>10. QED
  BY <1>4, <1>9, StopsFrame DEF DiagInv

\* A stop that waited 3 s in vain ends the task itself.
LEMMA WaitedKeeps ==
  ASSUME NEW CONSTANT Ts, NEW CONSTANT Cs, NEW CONSTANT m, Sound(Ts), DiagInv(Ts, Cs),
         NEW CONSTANT k \in Cs, NEW CONSTANT slow \in BOOLEAN, Diagnostics(Ts, Cs, m)!CancelWaited(k, slow)
  PROVE  DiagInv(Ts, Cs)'
<1> DEFINE t == stops[k].now
           c == [stops[k] EXCEPT !.now = None]
<1>1. /\ stops[k] # None /\ t # None /\ stops' = [stops EXCEPT ![k].now = None]
      /\ UNCHANGED <<kept, starts, read, late>>
  BY DEF Diagnostics!CancelWaited
<1>2. /\ stops \in [Cs -> StopRec(Ts) \cup {None}] /\ stops[k] \in StopRec(Ts)
      /\ t \in Ts /\ task[t] # None /\ task[t].canceled
  BY <1>1 DEF DiagInv, StopsOk, StopRec, Diagnostics!CallRecord
<1>3. c \in StopRec(Ts) /\ c.todo = stops[k].todo /\ c.asked = stops[k].asked /\ c.now = None /\ stops' = [stops EXCEPT ![k] = c]
  BY <1>1, <1>2 DEF StopRec, Diagnostics!CallRecord
<1>4. task[t] \in TaskRec /\ TaskOk(task[t])
  BY <1>2 DEF DiagInv, TasksInv, DiagTypes, TasksOk
<1> HIDE DEF c
<1>5. TasksInv(Ts)' /\ Onward(Ts) /\ task'[t].status # "running"
  <2>1. CASE slow
    <3> DEFINE q == [task[t] EXCEPT !.status = "canceled"]
    <3>1. /\ q.status = "canceled"
          /\ q.phase = task[t].phase /\ q.canceled = task[t].canceled /\ q.expired = task[t].expired
          /\ q.session = task[t].session /\ q.held = task[t].held /\ q.remote = task[t].remote
          /\ q.lines = task[t].lines /\ q.waiting = task[t].waiting /\ q.marked = task[t].marked
          /\ q.exit = task[t].exit /\ q.verdict = task[t].verdict
      BY <1>4 DEF TaskRec
    <3>2. TaskOk(q)
      <4> HIDE DEF q
      <4>1. QED
        BY <1>2, <1>4, <3>1 DEF TaskOk, Truth, Over
    <3>3. Diagnostics(Ts, Cs, m)!FinishDiagnostic(t, "canceled", task[t])
      BY <2>1 DEF Diagnostics!CancelWaited
    <3>4. QED
      BY <1>1, <1>2, <1>4, <3>2, <3>3, FinishKeeps DEF DiagInv, Verdicts
  <2>2. CASE ~slow
    <3>1. task[t].phase = "done" /\ UNCHANGED <<task, ended, window>>
      BY <2>2 DEF Diagnostics!CancelWaited, Diagnostics!Done
    <3>2. QED
      BY <1>1, <1>4, <3>1, OneTask DEF DiagInv, TaskOk, Onward, TasksInv, DiagTypes, TasksOk, OrderOk, ToldOk, Going, KeptOk, Newer, ShownOk
  <2>3. QED
    BY <2>1, <2>2
<1>6. StopsOk(Ts, Cs)'
  <2>1. /\ stops' \in [Cs -> StopRec(Ts) \cup {None}]
        /\ \A j \in Cs : stops'[j] = IF j = k THEN c ELSE stops[j]
    BY <1>2, <1>3
  <2>2. ASSUME NEW j \in Cs, stops'[j] # None
        PROVE  /\ stops'[j].todo \subseteq stops'[j].asked
               /\ \A u \in stops'[j].asked :
                    /\ task'[u] # None
                    /\ u \in stops'[j].todo \/ u = stops'[j].now \/ task'[u].status # "running"
               /\ stops'[j].now # None => task'[stops'[j].now] # None /\ task'[stops'[j].now].canceled
    <3>1. stops[j] \in StopRec(Ts)
      BY <1>1, <2>1, <2>2 DEF DiagInv, StopsOk
    <3>2. stops[j].asked \subseteq Ts /\ stops[j].now \in Ts \cup {None}
      BY <3>1 DEF StopRec, Diagnostics!CallRecord
    <3>3. stops[j] # None
      BY <1>1, <2>1, <2>2
    <3>4. QED
      BY <1>3, <1>5, <2>1, <3>2, <3>3 DEF DiagInv, StopsOk, Onward
  <2>3. QED
    BY <2>1, <2>2 DEF StopsOk
<1>7. QED
  BY <1>5, <1>6 DEF DiagInv

\* The calls that stop diagnostics.
LEMMA AskStopKeeps ==
  ASSUME NEW CONSTANT Ts, NEW CONSTANT Cs, NEW CONSTANT m, Sound(Ts), DiagInv(Ts, Cs),
         NEW CONSTANT k \in Cs, NEW CONSTANT ts \in SUBSET Ts, Diagnostics(Ts, Cs, m)!AskStop(k, ts)
  PROVE  DiagInv(Ts, Cs)'
<1> DEFINE c == [todo |-> ts, now |-> None, asked |-> ts]
<1>1. /\ stops' = [stops EXCEPT ![k] = c] /\ UNCHANGED <<task, kept, window, starts, read, ended, late>>
      /\ \A t \in ts : task[t] # None
  BY DEF Diagnostics!AskStop, Diagnostics!Running, Diagnostics!window
<1>2. c \in StopRec(Ts) /\ c.todo = ts /\ c.now = None /\ c.asked = ts
  BY DEF StopRec, Diagnostics!CallRecord
<1> HIDE DEF c
<1>3. /\ stops' \in [Cs -> StopRec(Ts) \cup {None}]
      /\ \A j \in Cs : stops'[j] = IF j = k THEN c ELSE stops[j]
  BY <1>1, <1>2 DEF DiagInv, StopsOk
<1>4. StopsOk(Ts, Cs)'
  BY <1>1, <1>2, <1>3 DEF DiagInv, StopsOk
<1>5. TasksInv(Ts)'
  BY <1>1 DEF DiagInv, TasksInv, DiagTypes, TasksOk, OrderOk, ToldOk, Going, KeptOk, Newer, ShownOk
<1>6. QED
  BY <1>4, <1>5 DEF DiagInv

\* pruneDiagnosticsLocked drops a task only for newer ones that have ended.
LEMMA PruneKeeps ==
  ASSUME NEW CONSTANT Ts, Sound(Ts), NEW K \in SUBSET Ts, NEW E \in SUBSET K,
         NEW new \in Ts \ K, NEW P, P = {u \in E : Cardinality({w \in E : w > u}) >= MaxKept},
         NEW x \in Ts, x < new, x \in P \/ (x \notin K /\ Cardinality(Newer(K, x)) > MaxKept)
  PROVE  Cardinality(Newer((K \cup {new}) \ P, x)) > MaxKept
<1> DEFINE U == {u \in E : u > x}
           N == Newer((K \cup {new}) \ P, x)
<1>1. /\ Ts \subseteq Nat /\ IsFiniteSet(Ts) /\ IsFiniteSet(K) /\ IsFiniteSet(E) /\ IsFiniteSet(U)
      /\ N \subseteq Ts /\ IsFiniteSet(N)
  <2>1. N \subseteq Ts /\ Ts \subseteq Nat /\ IsFiniteSet(Ts)
    BY DEF Newer, Sound
  <2>2. QED
    BY <2>1, FS_Subset
<1>2. new \in N
  BY DEF Newer
<1>3. ASSUME U \cap P # {}
      PROVE  Cardinality(N) > MaxKept
  <2> DEFINE f == [u \in Nat |-> u]
             V == U \cap P
  <2>1. IsFiniteSet(V) /\ \A u \in V : f[u] \in Nat
    BY <1>1, FS_Subset
  <2>2. PICK y \in V : \A u \in V : f[u] <= f[y]
    <3> HIDE DEF V, f
    <3>1. QED
      BY <1>3, <2>1, LastOne DEF V
  <2> DEFINE W == {w \in E : w > y}
  <2>3. Cardinality(W) >= MaxKept
    OBVIOUS
  <2>4. ASSUME NEW w \in W, w \in P
        PROVE  FALSE
    <3>1. w \in Nat /\ y \in Nat /\ x \in Nat /\ y > x /\ w > y
      BY <1>1
    <3>2. w \in V
      BY <2>4, <3>1
    <3>3. f[w] = w /\ f[y] = y
      BY <3>1
    <3>4. f[w] <= f[y]
      <4> HIDE DEF V, f
      <4>1. QED
        BY <2>2, <3>2
    <3>5. QED
      BY <3>1, <3>3, <3>4
  <2>5. W \subseteq N /\ new \notin W
    <3>1. ASSUME NEW w \in W
          PROVE  w \in K /\ w > x
      BY <1>1
    <3>2. QED
      BY <2>4, <3>1 DEF Newer
  <2> HIDE DEF W, N
  <2>6. QED
    BY <1>1, <1>2, <2>3, <2>5, CountMore, KeptAssumption
<1>4. ASSUME U \cap P = {} /\ x \in P
      PROVE  Cardinality(N) > MaxKept
  <2>1. Cardinality(U) >= MaxKept
    BY <1>4
  <2>2. U \subseteq N /\ new \notin U
    BY <1>4 DEF Newer
  <2> HIDE DEF U, N
  <2>3. QED
    BY <1>1, <1>2, <2>1, <2>2, CountMore, KeptAssumption
<1>5. ASSUME U \cap P = {} /\ x \notin P
      PROVE  Cardinality(N) > MaxKept
  <2>1. Newer(K, x) \subseteq N
    BY <1>5 DEF Newer
  <2>2. Cardinality(Newer(K, x)) <= Cardinality(N) /\ Cardinality(N) \in Nat /\ Cardinality(Newer(K, x)) \in Nat
    <3>1. IsFiniteSet(Newer(K, x))
      BY <1>1, <2>1, FS_Subset
    <3>2. QED
      BY <1>1, <2>1, <3>1, FS_Subset, FS_CardinalityType
  <2>3. QED
    BY <1>5, <2>2, KeptAssumption
<1>6. QED
  BY <1>3, <1>4, <1>5

\* The cardinality of the component is the one of the theorems.
LEMMA SameCount ==
  ASSUME NEW CONSTANT Ts, NEW CONSTANT Cs, NEW CONSTANT m, NEW S
  PROVE  Diagnostics(Ts, Cs, m)!Cardinality(S) = Cardinality(S)
  BY DEF Diagnostics!Cardinality, Cardinality, Diagnostics!IsFiniteSet, IsFiniteSet

\* A new task is stored and shown, and others are dropped for it.
LEMMA StartKeeps ==
  ASSUME NEW CONSTANT Ts, NEW CONSTANT Cs, NEW CONSTANT m, Sound(Ts), DiagInv(Ts, Cs),
         NEW CONSTANT t \in Ts, Diagnostics(Ts, Cs, m)!StartNetworkDiagnostic(t)
  PROVE  DiagInv(Ts, Cs)'
<1> DEFINE r == Diagnostics(Ts, Cs, m)!NewTask
           E == {u \in kept : task[u] # None /\ task[u].status \in Verdicts}
           P == {u \in E : Cardinality({w \in E : w > u}) >= MaxKept}
<1>0. Diagnostics(Ts, Cs, m)!Pruned(kept) = P
  <2>1. Diagnostics(Ts, Cs, m)!EndedOf(kept) = E
    BY DEF Diagnostics!EndedOf, Diagnostics!Final, Verdicts
  <2>2. Diagnostics(Ts, Cs, m)!Pruned(kept) = {u \in E : Cardinality({w \in E : w > u}) >= MaxKept}
    <3> HIDE DEF E
    <3>1. QED
      BY <2>1, SameCount DEF Diagnostics!Pruned
  <2>3. QED
    BY <2>2
<1>1. /\ task[t] = None /\ \A u \in Ts : u < t => task[u] # None
      /\ task' = [task EXCEPT ![t] = r] /\ kept' = (kept \cup {t}) \ P
      /\ window' = [window EXCEPT ![t] = "running"] /\ starts' = starts \cup {t}
      /\ UNCHANGED <<stops, read, ended, late>>
  BY <1>0 DEF Diagnostics!StartNetworkDiagnostic, Diagnostics!Becomes
<1>2. r \in TaskRec /\ TaskOk(r) /\ r.status = "running"
  BY KeptAssumption DEF Diagnostics!NewTask, TaskRec, TaskOk, Shows, Verdicts
<1> HIDE DEF r
<1>3. /\ task \in [Ts -> TaskRec \cup {None}] /\ task' \in [Ts -> TaskRec \cup {None}] /\ r # None
      /\ \A u \in Ts : task'[u] = IF u = t THEN r ELSE task[u]
  BY <1>1, <1>2 DEF DiagInv, TasksInv, DiagTypes, Sound
<1>4. /\ kept \subseteq Ts /\ t \notin kept /\ t \notin P /\ P \subseteq kept
      /\ \A u \in P : task[u].status # "running"
  BY <1>1 DEF DiagInv, TasksInv, DiagTypes, Verdicts
<1>5. DiagTypes(Ts)'
  BY <1>1, <1>2, <1>3, <1>4 DEF DiagInv, TasksInv, DiagTypes, Shows
<1>6. TasksOk(Ts)'
  BY <1>2, <1>3 DEF DiagInv, TasksInv, TasksOk
<1>7. OrderOk(Ts)'
  BY <1>1, <1>3 DEF DiagInv, TasksInv, OrderOk
<1>8. ToldOk(Ts)'
  BY <1>1, <1>2, <1>3, <1>4 DEF DiagInv, TasksInv, ToldOk, Going
<1>9. ASSUME NEW x \in Ts, task'[x] # None, x \notin kept'
      PROVE  Cardinality(Newer(kept', x)) > MaxKept
  <2>1. x # t /\ task[x] # None
    BY <1>1, <1>3, <1>4, <1>9
  <2>2. x < t
    <3>1. Ts \subseteq Nat
      BY DEF Sound
    <3>2. ~(t < x)
      BY <1>1, <2>1 DEF DiagInv, TasksInv, OrderOk
    <3>3. QED
      BY <2>1, <3>1, <3>2
  <2>3. x \in P \/ (x \notin kept /\ Cardinality(Newer(kept, x)) > MaxKept)
    BY <1>1, <1>9, <2>1 DEF DiagInv, TasksInv, KeptOk
  <2>4. E \subseteq kept
    OBVIOUS
  <2> DEFINE p == P
  <2>5. p = {u \in E : Cardinality({w \in E : w > u}) >= MaxKept}
    OBVIOUS
  <2> HIDE DEF E, p
  <2>6. Cardinality(Newer((kept \cup {t}) \ p, x)) > MaxKept
    BY <1>4, <2>2, <2>3, <2>4, <2>5, PruneKeeps
  <2>7. QED
    BY <1>1, <2>5, <2>6
<1> HIDE DEF P
<1>10. KeptOk(Ts)'
  BY <1>9 DEF KeptOk
<1>11. ShownOk'
  BY <1>1, <1>2, <1>3, <1>4 DEF DiagInv, TasksInv, DiagTypes, ShownOk
<1>12. Onward(Ts)
  BY <1>1, <1>3 DEF Onward
<1>13. QED
  BY <1>1, <1>5, <1>6, <1>7, <1>8, <1>10, <1>11, <1>12, StopsFrame DEF DiagInv, TasksInv

\* A stop goes on to its next task, and cancels it if it still runs.
LEMMA CancelNextKeeps ==
  ASSUME NEW CONSTANT Ts, NEW CONSTANT Cs, NEW CONSTANT m, Sound(Ts), DiagInv(Ts, Cs),
         NEW CONSTANT k \in Cs, NEW CONSTANT t \in Ts, Diagnostics(Ts, Cs, m)!CancelNext(k, t)
  PROVE  DiagInv(Ts, Cs)'
<1> DEFINE c == [stops[k] EXCEPT !.todo = @ \ {t}, !.now = t]
           d == [stops[k] EXCEPT !.todo = @ \ {t}]
           r == [task[t] EXCEPT !.canceled = TRUE, !.held = FALSE,
                                !.session = IF task[t].held THEN "closed" ELSE @]
<1>1. /\ stops[k] # None /\ stops[k].now = None /\ t \in stops[k].todo
      /\ UNCHANGED <<kept, window, starts, read, ended, late>>
  BY DEF Diagnostics!CancelNext, Diagnostics!window
<1>2. stops \in [Cs -> StopRec(Ts) \cup {None}] /\ stops[k] \in StopRec(Ts)
  BY <1>1 DEF DiagInv, StopsOk
<1>3. /\ c \in StopRec(Ts) /\ c.todo = stops[k].todo \ {t} /\ c.now = t /\ c.asked = stops[k].asked
      /\ d \in StopRec(Ts) /\ d.todo = stops[k].todo \ {t} /\ d.now = None /\ d.asked = stops[k].asked
  BY <1>1, <1>2 DEF StopRec, Diagnostics!CallRecord
<1>4. task[t] # None /\ task[t] \in TaskRec /\ TaskOk(task[t])
  BY <1>1 DEF DiagInv, TasksInv, DiagTypes, TasksOk, StopsOk
<1>5. \/ /\ Going(t) /\ task' = [task EXCEPT ![t] = r] /\ stops' = [stops EXCEPT ![k] = c]
      \/ /\ ~Going(t) /\ task' = task /\ stops' = [stops EXCEPT ![k] = d]
  BY <1>1, <1>2 DEF Diagnostics!CancelNext, Diagnostics!Running, Going, Diagnostics!CancelAndCloseSession, Diagnostics!Becomes
<1> HIDE DEF c, d
<1>6. /\ r \in TaskRec /\ r.status = task[t].status /\ r.canceled
      /\ r.phase = task[t].phase /\ r.expired = task[t].expired
      /\ ~r.held /\ r.session = (IF task[t].held THEN "closed" ELSE task[t].session) /\ r.remote = task[t].remote
      /\ r.lines = task[t].lines /\ r.waiting = task[t].waiting /\ r.marked = task[t].marked
      /\ r.exit = task[t].exit /\ r.verdict = task[t].verdict
  BY <1>4 DEF TaskRec
<1> HIDE DEF r
<1>7. TaskOk(r)
  BY <1>4, <1>6 DEF TaskOk, Truth, Over
<1>8. ASSUME NEW q \in StopRec(Ts), stops' = [stops EXCEPT ![k] = q], q.todo = stops[k].todo \ {t},
             q.asked = stops[k].asked, q.now = t \/ (q.now = None /\ ~Going(t)),
             q.now = t => task'[t].canceled, Onward(Ts)
      PROVE  StopsOk(Ts, Cs)'
  <2>1. /\ stops' \in [Cs -> StopRec(Ts) \cup {None}]
        /\ \A j \in Cs : stops'[j] = IF j = k THEN q ELSE stops[j]
    BY <1>2, <1>8
  <2>2. ASSUME NEW j \in Cs, stops'[j] # None
        PROVE  /\ stops'[j].todo \subseteq stops'[j].asked
               /\ \A u \in stops'[j].asked :
                    /\ task'[u] # None
                    /\ u \in stops'[j].todo \/ u = stops'[j].now \/ task'[u].status # "running"
               /\ stops'[j].now # None => task'[stops'[j].now] # None /\ task'[stops'[j].now].canceled
    <3>1. stops[j] # None /\ stops[j] \in StopRec(Ts)
      BY <1>1, <1>2, <2>1, <2>2
    <3>2. stops[j].asked \subseteq Ts /\ stops[j].now \in Ts \cup {None}
      BY <3>1 DEF StopRec, Diagnostics!CallRecord
    <3>3. CASE j = k
      <4>1. stops'[j] = q /\ q.asked = stops[k].asked /\ q.todo = stops[k].todo \ {t} /\ q.todo \subseteq q.asked
        BY <1>1, <1>8, <2>1, <3>3 DEF DiagInv, StopsOk
      <4>2. ASSUME NEW u \in q.asked
            PROVE  task'[u] # None /\ (u \in q.todo \/ u = q.now \/ task'[u].status # "running")
        <5>1. u \in Ts /\ task[u] # None /\ (u \in stops[k].todo \/ task[u].status # "running")
          BY <1>1, <3>2, <3>3, <4>1, <4>2 DEF DiagInv, StopsOk, Sound
        <5>2. CASE u \in q.todo \/ task[u].status # "running"
          BY <1>8, <5>1, <5>2 DEF Onward
        <5>3. CASE u = t
          BY <1>8, <5>1, <5>3 DEF Onward, Going
        <5>4. QED
          BY <4>1, <5>1, <5>2, <5>3
      <4>3. q.now # None => task'[q.now] # None /\ task'[q.now].canceled
        BY <1>4, <1>8 DEF Onward
      <4>4. QED
        BY <4>1, <4>2, <4>3
    <3>4. CASE j # k
      BY <2>1, <3>1, <3>2, <3>4, <1>8 DEF DiagInv, StopsOk, Onward
    <3>5. QED
      BY <3>3, <3>4
  <2>3. QED
    BY <2>1, <2>2 DEF StopsOk
<1>9. CASE Going(t)
  <2>1. task' = [task EXCEPT ![t] = r] /\ stops' = [stops EXCEPT ![k] = c]
    BY <1>5, <1>9
  <2>2. TasksInv(Ts)' /\ Onward(Ts)
    BY <1>1, <1>4, <1>6, <1>7, <2>1, OneTask DEF DiagInv
  <2>3. task'[t].canceled
    BY <1>6, <2>1 DEF DiagInv, TasksInv, DiagTypes
  <2>4. StopsOk(Ts, Cs)'
    BY <1>3, <1>8, <2>1, <2>2, <2>3
  <2>5. QED
    BY <2>2, <2>4 DEF DiagInv
<1>10. CASE ~Going(t)
  <2>1. task' = task /\ stops' = [stops EXCEPT ![k] = d]
    BY <1>5, <1>10
  <2>2. TasksInv(Ts)' /\ Onward(Ts)
    BY <1>1, <2>1 DEF DiagInv, TasksInv, DiagTypes, TasksOk, OrderOk, ToldOk, Going, KeptOk, Newer, ShownOk, Onward
  <2>3. t # None
    BY DEF Sound
  <2>4. StopsOk(Ts, Cs)'
    BY <1>3, <1>8, <1>10, <2>1, <2>2, <2>3
  <2>5. QED
    BY <2>2, <2>4 DEF DiagInv
<1>11. QED
  BY <1>9, <1>10

\* The connection is lost, under every command that runs.
LEMMA LostKeeps ==
  ASSUME NEW CONSTANT Ts, NEW CONSTANT Cs, NEW CONSTANT m, Sound(Ts), DiagInv(Ts, Cs),
         Diagnostics(Ts, Cs, m)!LinkLost
  PROVE  DiagInv(Ts, Cs)'
<1> DEFINE cut(t) == [task[t] EXCEPT !.remote = "lost"]
           struck(t) == task[t] # None /\ task[t].session = "open" /\ task[t].remote = "runs"
<1>1. /\ task' = [t \in Ts |-> IF struck(t) THEN cut(t) ELSE task[t]]
      /\ UNCHANGED <<kept, stops, window, starts, read, ended, late>>
  BY DEF Diagnostics!LinkLost, Diagnostics!window
<1>2. task \in [Ts -> TaskRec \cup {None}]
  BY DEF DiagInv, TasksInv, DiagTypes
<1>3. ASSUME NEW t \in Ts
      PROVE  /\ task'[t] \in TaskRec \cup {None} /\ (task[t] = None <=> task'[t] = None)
             /\ task[t] # None => TaskOk(task'[t]) /\ task'[t].status = task[t].status /\ (task[t].canceled => task'[t].canceled)
  <2>1. CASE struck(t)
    <3> DEFINE r == cut(t)
    <3>1. task'[t] = r
      BY <1>1, <2>1
    <3>2. task[t] \in TaskRec /\ TaskOk(task[t])
      BY <1>2, <2>1 DEF DiagInv, TasksInv, TasksOk
    <3>3. /\ r \in TaskRec /\ r.status = task[t].status /\ r.canceled = task[t].canceled
          /\ r.phase = task[t].phase /\ r.expired = task[t].expired
          /\ r.held = task[t].held /\ r.session = task[t].session /\ r.remote = "lost"
          /\ r.lines = task[t].lines /\ r.waiting = task[t].waiting /\ r.marked = task[t].marked
          /\ r.exit = task[t].exit /\ r.verdict = task[t].verdict
      BY <3>2 DEF TaskRec
    <3> HIDE DEF r
    <3>4. TaskOk(r)
      BY <2>1, <3>2, <3>3 DEF TaskOk, Truth, Over
    <3>5. QED
      BY <2>1, <3>1, <3>3, <3>4 DEF Sound
  <2>2. CASE ~struck(t)
    <3>1. task'[t] = task[t]
      BY <1>1, <2>2
    <3>2. QED
      BY <1>2, <3>1 DEF DiagInv, TasksInv, TasksOk
  <2>3. QED
    BY <2>1, <2>2
<1>4. task' = [t \in Ts |-> task'[t]]
  BY <1>1
<1>5. task' \in [Ts -> TaskRec \cup {None}]
  <2>1. \A t \in Ts : task'[t] \in TaskRec \cup {None}
    BY <1>3
  <2>2. QED
    BY <1>4, <2>1
<1>6. TasksInv(Ts)'
  BY <1>1, <1>3, <1>5, TasksMove DEF DiagInv
<1>7. Onward(Ts)
  BY <1>3 DEF Onward
<1>8. QED
  BY <1>1, <1>6, <1>7, StopsFrame DEF DiagInv

\* The window hears of starts and reads the list.
LEMMA WindowKeeps ==
  ASSUME NEW CONSTANT Ts, NEW CONSTANT Cs, NEW CONSTANT m, Sound(Ts), DiagInv(Ts, Cs),
         \/ \E t \in Ts : Diagnostics(Ts, Cs, m)!StartAnswered(t)
         \/ Diagnostics(Ts, Cs, m)!List \/ Diagnostics(Ts, Cs, m)!Listed
  PROVE  DiagInv(Ts, Cs)'
<1>1. UNCHANGED <<task, kept, stops, ended>>
  BY DEF Diagnostics!StartAnswered, Diagnostics!List, Diagnostics!Listed
<1>2. StopsOk(Ts, Cs)' /\ TasksOk(Ts)' /\ OrderOk(Ts)' /\ ToldOk(Ts)' /\ KeptOk(Ts)'
  BY <1>1 DEF DiagInv, TasksInv, StopsOk, TasksOk, OrderOk, ToldOk, Going, KeptOk, Newer
<1>3. task \in [Ts -> TaskRec \cup {None}] /\ kept \subseteq Ts /\ (\A t \in kept : task[t] # None /\ task[t].status \in Shows)
  BY DEF DiagInv, TasksInv, DiagTypes, TaskRec
<1>4. ASSUME NEW t \in Ts, Diagnostics(Ts, Cs, m)!StartAnswered(t)
      PROVE  DiagTypes(Ts)' /\ ShownOk'
  <2>1. /\ window' = [window EXCEPT ![t] = "running"] /\ starts' = starts \ {t} /\ UNCHANGED read
        /\ late' = IF window[t] \in Verdicts THEN late \cup {t} ELSE late
    BY <1>4 DEF Diagnostics!StartAnswered, Diagnostics!Final, Verdicts
  <2>2. window' \in [Ts -> Shows \cup {None}] /\ \A u \in Ts : window'[u] = IF u = t THEN "running" ELSE window[u]
    BY <2>1 DEF DiagInv, TasksInv, DiagTypes, Shows
  <2>3. DiagTypes(Ts)'
    BY <1>1, <2>1, <2>2 DEF DiagInv, TasksInv, DiagTypes
  <2>4. ShownOk'
    BY <1>1, <1>3, <2>1, <2>2 DEF DiagInv, TasksInv, ShownOk, Shows, Verdicts
  <2>5. QED
    BY <2>3, <2>4
<1>5. ASSUME Diagnostics(Ts, Cs, m)!List
      PROVE  DiagTypes(Ts)' /\ ShownOk'
  <2>1. /\ UNCHANGED <<window, starts, late>>
        /\ read' = [t \in Ts |-> IF t \in kept THEN task[t].status ELSE None]
    BY <1>5 DEF Diagnostics!List
  <2>2. read' \in [Ts -> Shows \cup {None}]
    BY <1>3, <2>1
  <2>3. read' # None => read' \in [Ts -> Shows \cup {None}]
    BY <2>2
  <2>4. UNCHANGED <<window, starts, late>>
    BY <2>1
  <2>5. QED
    BY <1>1, <2>3, <2>4 DEF DiagInv, TasksInv, DiagTypes, ShownOk
<1>6. ASSUME Diagnostics(Ts, Cs, m)!Listed
      PROVE  DiagTypes(Ts)' /\ ShownOk'
  <2>1. /\ read # None /\ read' = None /\ window' = read /\ UNCHANGED starts
        /\ \A t \in kept : read[t] # task[t].status => t \in late'
    BY <1>6 DEF Diagnostics!Listed
  <2>2. read \in [Ts -> Shows \cup {None}]
    BY <2>1 DEF DiagInv, TasksInv, DiagTypes
  <2>3. DiagTypes(Ts)'
    BY <1>1, <2>1, <2>2 DEF DiagInv, TasksInv, DiagTypes
  <2>4. ShownOk'
    BY <1>1, <2>1 DEF DiagInv, TasksInv, ShownOk
  <2>5. QED
    BY <2>3, <2>4
<1>7. QED
  BY <1>2, <1>4, <1>5, <1>6 DEF DiagInv, TasksInv

\* Every step of the diagnostics.
LEMMA DiagStep ==
  ASSUME NEW CONSTANT Ts, NEW CONSTANT Cs, NEW CONSTANT m, Sound(Ts), DiagInv(Ts, Cs),
         [Diagnostics(Ts, Cs, m)!Next]_<<v1, v2, v3, v4, v5, v6, v7, v8, v9, v10>>
  PROVE  DiagInv(Ts, Cs)'
<1>1. CASE UNCHANGED <<v1, v2, v3, v4, v5, v6, v7, v8, v9, v10>>
  BY <1>1 DEF DiagInv, StopsOk, TasksInv, DiagTypes, TasksOk, OrderOk, ToldOk, Going, KeptOk, Newer, ShownOk
<1>2. ASSUME NEW CONSTANT t \in Ts, Diagnostics(Ts, Cs, m)!Step(t)
      PROVE  DiagInv(Ts, Cs)'
  BY <1>2, StepKeeps, FinishStep
<1>3. ASSUME NEW CONSTANT t \in Ts, Diagnostics(Ts, Cs, m)!StartNetworkDiagnostic(t)
      PROVE  DiagInv(Ts, Cs)'
  BY <1>3, StartKeeps
<1>4. ASSUME NEW CONSTANT k \in Cs, NEW CONSTANT t \in Ts, Diagnostics(Ts, Cs, m)!CancelNext(k, t)
      PROVE  DiagInv(Ts, Cs)'
  BY <1>4, CancelNextKeeps
<1>5. ASSUME NEW CONSTANT k \in Cs, NEW CONSTANT ts \in SUBSET Ts, Diagnostics(Ts, Cs, m)!AskStop(k, ts)
      PROVE  DiagInv(Ts, Cs)'
  BY <1>5, AskStopKeeps
<1>6. ASSUME NEW CONSTANT k \in Cs, NEW CONSTANT slow \in BOOLEAN, Diagnostics(Ts, Cs, m)!CancelWaited(k, slow)
      PROVE  DiagInv(Ts, Cs)'
  BY <1>6, WaitedKeeps
<1>7. CASE Diagnostics(Ts, Cs, m)!LinkLost
  BY <1>7, LostKeeps
<1>8. CASE \/ \E t \in Ts : Diagnostics(Ts, Cs, m)!StartAnswered(t)
           \/ Diagnostics(Ts, Cs, m)!List \/ Diagnostics(Ts, Cs, m)!Listed
  BY <1>8, WindowKeeps
<1>9. QED
  BY <1>1, <1>2, <1>3, <1>4, <1>5, <1>6, <1>7, <1>8 DEF Diagnostics!Next

\* No diagnostic at the start.
LEMMA DiagInit ==
  ASSUME NEW CONSTANT Ts, NEW CONSTANT Cs, NEW CONSTANT m, Sound(Ts), Diagnostics(Ts, Cs, m)!Init
  PROVE  DiagInv(Ts, Cs)
<1>1. /\ task = [t \in Ts |-> None] /\ kept = {} /\ stops = [k \in Cs |-> None]
      /\ window = [t \in Ts |-> None] /\ starts = {} /\ read = None /\ ended = [t \in Ts |-> 0]
  BY DEF Diagnostics!Init
<1>2. TasksInv(Ts)
  BY <1>1 DEF TasksInv, DiagTypes, TasksOk, OrderOk, ToldOk, Going, KeptOk, ShownOk
<1>3. StopsOk(Ts, Cs)
  BY <1>1 DEF StopsOk
<1>4. QED
  BY <1>2, <1>3 DEF DiagInv

\* What the invariant says of the diagnostics.
LEMMA DiagSound ==
  ASSUME NEW CONSTANT Ts, NEW CONSTANT Cs, NEW CONSTANT m, Sound(Ts), DiagInv(Ts, Cs)
  PROVE  Diagnostics(Ts, Cs, m)!DiagnosticsAreTrue
<1>1. Diagnostics(Ts, Cs, m)!TypeOK
  BY TaskFields DEF DiagInv, TasksInv, DiagTypes, StopsOk, StopRec, Diagnostics!TypeOK, Diagnostics!Started,
     Diagnostics!CallRecord, Diagnostics!Statuses, Diagnostics!Final, Shows, Verdicts
<1>2. Diagnostics(Ts, Cs, m)!StatusIsTrue
  BY DEF DiagInv, TasksInv, TasksOk, TaskOk, Truth, Diagnostics!StatusIsTrue, Diagnostics!Started
<1>3. Diagnostics(Ts, Cs, m)!EndsOnce
  BY DEF DiagInv, TasksInv, TasksOk, TaskOk, ToldOk, Going, Diagnostics!EndsOnce, Diagnostics!Started, Diagnostics!Running, Diagnostics!Done
<1>4. Diagnostics(Ts, Cs, m)!StopsAll
  BY DEF DiagInv, StopsOk, Diagnostics!StopsAll, Diagnostics!Running
<1>5. Diagnostics(Ts, Cs, m)!NewestAreKept
  BY SameCount DEF DiagInv, TasksInv, ToldOk, KeptOk, Newer, Going, Diagnostics!NewestAreKept, Diagnostics!Started, Diagnostics!Running
<1>6. Diagnostics(Ts, Cs, m)!ShownIsTrue
  BY DEF DiagInv, TasksInv, ShownOk, Diagnostics!ShownIsTrue
<1>7. QED
  BY <1>1, <1>2, <1>3, <1>4, <1>5, <1>6 DEF Diagnostics!DiagnosticsAreTrue

\* The tasks of the two instances and what stands for no task.
LEMMA TasksSound == Sound(1..1) /\ Sound(1..MaxTasks)
<1>1. TaskRec = Diagnostics(1..MaxTasks, Pair, 0)!TaskRecord
  BY TaskFields
<1>2. StopRec(1..MaxTasks) = Diagnostics(1..MaxTasks, Pair, 0)!CallRecord
  BY DEF StopRec, Diagnostics!CallRecord
<1>3. StopRec(1..1) \subseteq StopRec(1..MaxTasks)
  <2>1. 1..1 \subseteq 1..MaxTasks
    BY KeptAssumption
  <2>2. \A A, B : A \subseteq B => StopRec(A) \subseteq StopRec(B)
    BY DEF StopRec, Diagnostics!CallRecord
  <2>3. QED
    BY <2>1, <2>2
<1>4. IsFiniteSet(1..1) /\ IsFiniteSet(1..MaxTasks)
  <2>1. \A i, j \in Int : IsFiniteSet(i..j)
    BY FS_Interval
  <2>2. 1 \in Int /\ MaxTasks \in Int
    BY KeptAssumption
  <2>3. QED
    BY <2>1, <2>2, Zenon
<1>5. 1..1 \subseteq 1..MaxTasks /\ 1..MaxTasks \subseteq Nat
  BY KeptAssumption
<1>6. QED
  BY <1>1, <1>2, <1>3, <1>4, <1>5, DiagnosticAssumption DEF Sound

\* THEOREM: goroutine, cancel, timeout and disconnect agree on every diagnostic, a call that stops
\* diagnostics leaves none behind, the history keeps the newest, and the window shows how each ended
\* (runNetworkDiagnostic, cancelDiagnosticTask and pruneDiagnosticsLocked of monitor/manager.go).
THEOREM DiagnosticsTrue == Spec => []DiagnosticsAreTrue
<1> DEFINE Inv == /\ part = "diagnostics" => DiagInv(1..1, Pair)
                  /\ part = "diagnosed" => DiagInv(1..MaxTasks, {})
<1>1. Init => Inv
  <2>1. Init /\ part = "diagnostics" => Diagnostics(1..1, Pair, 1)!Init
    BY DEF Init
  <2>2. Init /\ part = "diagnosed" => Diagnostics(1..MaxTasks, {}, 0)!Init
    BY DEF Init
  <2>3. QED
    BY <2>1, <2>2, DiagInit, TasksSound
<1>2. Inv /\ [Next]_vars => Inv'
  <2>1. [Next]_vars /\ part' = "diagnostics"
          => part = "diagnostics" /\ [Diagnostics(1..1, Pair, 1)!Next]_<<v1, v2, v3, v4, v5, v6, v7, v8, v9, v10>>
    <3>1. UNCHANGED vars => part' = part /\ UNCHANGED <<v1, v2, v3, v4, v5, v6, v7, v8, v9, v10>>
      BY DEF vars
    <3>2. Next /\ part' = "diagnostics" => part = "diagnostics" /\ Diagnostics(1..1, Pair, 1)!Next
      BY DEF Next
    <3>3. QED
      BY <3>1, <3>2
  <2>2. [Next]_vars /\ part' = "diagnosed"
          => part = "diagnosed" /\ [Diagnostics(1..MaxTasks, {}, 0)!Next]_<<v1, v2, v3, v4, v5, v6, v7, v8, v9, v10>>
    <3>1. UNCHANGED vars => part' = part /\ UNCHANGED <<v1, v2, v3, v4, v5, v6, v7, v8, v9, v10>>
      BY DEF vars
    <3>2. Next /\ part' = "diagnosed" => part = "diagnosed" /\ Diagnostics(1..MaxTasks, {}, 0)!Next
      BY DEF Next
    <3>3. QED
      BY <3>1, <3>2
  <2>3. QED
    BY <2>1, <2>2, DiagStep, TasksSound
<1>3. Inv => DiagnosticsAreTrue
  BY DiagSound, TasksSound DEF DiagnosticsAreTrue
<1>4. QED
  BY <1>1, <1>2, <1>3, PTL DEF Spec

-----------------------------------------------------------------------------
\* The containers of a server.
loose == v1
connected == v4
available == v5
listed == v6
changed == v9
excused == v10
behind == v11
USE DEF loose, connected, available, listed, changed, excused, behind

Daemon == {"created", "running", "paused", "restarting", "exited", "dead", "gone"}
Acts == {"start", "stop", "restart", "remove"}
Visible == {"running", "exited", "paused", "restarting", "dead", "unknown"} \cup {None}
Ends == {"success", "failed", "skipped"} \cup {None}
CallRec(cs) ==
  [op : Acts \cup {"check", "list"}, batch : BOOLEAN, asked : {cs}, todo : SUBSET cs,
   now : cs \cup {None}, phase : {"open", "inspect", "command", "answer", "list", "refresh"},
   verdict : [cs -> Ends], did : SUBSET cs, expired : BOOLEAN,
   stale : SUBSET Pair, read : [Pair -> Visible]]
AnyCall == UNION {CallRec(cs) : cs \in SUBSET Pair}

\* What a list shows of a container in the state s.
True(shows, s) == shows \in {None, Docker!Listed(s)}

\* A call in itself: what it has done of the containers that it was asked for.
Course(r) ==
  /\ \A c \in r.asked : /\ c \in r.todo <=> r.verdict[c] = None
                        /\ c \in r.did <=> r.verdict[c] = "success"
  /\ r.phase = "open" => r.todo = r.asked /\ r.did = {}
  /\ r.op \in Acts => r.asked # {}
  /\ r.phase \in {"inspect", "command", "answer"} => r.op \in Acts
  /\ r.phase \in {"list", "refresh"} => r.op \in {"list", "check"}
  /\ r.phase = "command" => r.now \in r.todo
  /\ r.phase = "answer" => r.todo = {}
  /\ r.phase = "refresh" /\ r.op = "check" => \A c \in Pair : r.read[c] = None

\* A call and the daemon: what has not changed is as it was offered or read.
Knows(r, rem, exc) ==
  /\ r.op \in Acts =>
       \A c \in r.asked \ r.stale : /\ Docker!Eligible(r.op, Docker!Listed(rem[c]))
                                    /\ r.verdict[c] = "skipped" => rem[c] = "paused"
  /\ r.phase = "refresh" =>
       \A c \in Pair : True(r.read[c], rem[c]) \/ (c \in r.stale /\ c \in exc)

CallsOk(cl, rem, exc) ==
  /\ cl \in [Callers -> AnyCall \cup {None}]
  /\ \A k \in Callers : cl[k] # None => Course(cl[k]) /\ Knows(cl[k], rem, exc)
  /\ \A j, k \in Callers : cl[j] # None /\ cl[k] # None /\ j # k => exc = Pair

\* The list of the window: what it does not show as it is has changed, and will be read again.
ListOk(cl, rem, exc) ==
  \A c \in Pair : \/ True(listed[c], rem[c])
                  \/ c \in exc
                  \/ \E k \in Callers : cl[k] # None /\ c \in cl[k].did
SeenOk == \A c \in Pair : c \in changed \/ True(listed[c], remote[c])
LateOk == ~connected => /\ \A k \in Callers : call[k] # None => k \in behind
                        /\ available => behind # {}
DockerTypes ==
  /\ remote \in [Pair -> Daemon]
  /\ listed \in [Pair -> Visible]
  /\ connected \in BOOLEAN /\ available \in BOOLEAN
  /\ loose \subseteq [action : Acts, c : Pair]
  /\ excused \subseteq Pair /\ changed \subseteq Pair

DockerInv ==
  DockerTypes /\ CallsOk(call, remote, excused) /\ ListOk(call, remote, excused) /\ SeenOk /\ LateOk

\* The records of calls.
LEMMA CallParts ==
  ASSUME NEW CONSTANT r, r \in AnyCall
  PROVE  r.asked \subseteq Pair /\ r \in CallRec(r.asked) /\ r # None
<1>1. PICK cs \in SUBSET Pair : r \in CallRec(cs)
  BY DEF AnyCall
<1>2. r.asked = cs
  BY <1>1 DEF CallRec
<1>3. CallRec(cs) = Docker!CallRecord(cs)
  BY DEF CallRec, Docker!CallRecord, Docker!Actions, Docker!Shown, Docker!Verdicts, Acts, Ends, Visible
<1>4. QED
  BY <1>1, <1>2, <1>3, ContainerAssumption

\* A call of some containers is a call.
LEMMA CallKind ==
  ASSUME NEW CONSTANT cs \in SUBSET Pair, NEW CONSTANT r \in CallRec(cs)
  PROVE  r \in AnyCall /\ r # None
<1>1. r \in AnyCall
  BY DEF AnyCall
<1>2. QED
  BY <1>1, CallParts

\* What is offered, and has not changed, is skipped only if it is paused.
LEMMA OnlyPaused ==
  ASSUME NEW CONSTANT action \in Acts, NEW CONSTANT s \in Daemon,
         Docker!Eligible(action, Docker!Listed(s)), ~Docker!CanBatch(action, Docker!Inspected(s))
  PROVE  s = "paused"
  BY DEF Acts, Daemon, Docker!Eligible, Docker!CanBatch, Docker!Listed, Docker!Inspected, Docker!Shown, Docker!Live

\* What the daemon makes of a container, and what is shown of it.
LEMMA DaemonStates ==
  ASSUME NEW CONSTANT s \in Daemon
  PROVE  /\ \A action \in Acts : Docker!Result(action, s) \in Daemon
         /\ Docker!Listed(s) \in Visible
  BY DEF Acts, Daemon, Visible, Docker!Result, Docker!Live, Docker!Listed, Docker!Inspected, Docker!Shown

\* One call goes on or ends.
LEMMA OneDockerCall ==
  ASSUME NEW cl, NEW rem, NEW exc, NEW exz, CallsOk(cl, rem, exc), exc \subseteq exz, exz \subseteq Pair,
         NEW k \in Callers, NEW r \in AnyCall \cup {None}, r # None => Course(r) /\ Knows(r, rem, exz),
         r = None \/ cl[k] # None \/ exz = Pair \/ (\A j \in Callers : cl[j] = None),
         NEW cm, cm = [cl EXCEPT ![k] = r]
  PROVE  CallsOk(cm, rem, exz)
<1>1. cl \in [Callers -> AnyCall \cup {None}]
  BY DEF CallsOk
<1>2. /\ cm \in [Callers -> AnyCall \cup {None}]
      /\ \A j \in Callers : cm[j] = IF j = k THEN r ELSE cl[j]
  BY <1>1
<1>3. ASSUME NEW j \in Callers, cm[j] # None
      PROVE  Course(cm[j]) /\ Knows(cm[j], rem, exz)
  <2>1. CASE j = k
    BY <1>2, <1>3, <2>1
  <2>2. CASE j # k
    <3>1. cm[j] = cl[j] /\ Course(cl[j]) /\ Knows(cl[j], rem, exc)
      BY <1>2, <1>3, <2>2 DEF CallsOk
    <3>2. QED
      BY <3>1 DEF Knows
  <2>3. QED
    BY <2>1, <2>2
<1>4. \A j, i \in Callers : cm[j] # None /\ cm[i] # None /\ j # i => exz = Pair
  BY <1>2 DEF CallsOk
<1>5. QED
  BY <1>2, <1>3, <1>4 DEF CallsOk

\* A call that is under way, by itself.
LEMMA TheCall ==
  ASSUME NEW CONSTANT k \in Callers, DockerInv, call[k] # None
  PROVE  /\ call[k] \in CallRec(call[k].asked) /\ call[k].asked \subseteq Pair
         /\ Course(call[k]) /\ Knows(call[k], remote, excused)
<1>1. call[k] \in AnyCall
  BY DEF DockerInv, CallsOk
<1>2. QED
  BY <1>1, CallParts DEF DockerInv, CallsOk

\* A call goes on, and nothing else changes but the commands that were cut off.
LEMMA CallGoes ==
  ASSUME DockerInv, NEW CONSTANT k \in Callers, call[k] # None,
         NEW r, r \in CallRec(call[k].asked), Course(r), Knows(r, remote, excused),
         call[k].did \subseteq r.did,
         call' = [call EXCEPT ![k] = r], loose' \subseteq [action : Acts, c : Pair],
         UNCHANGED <<remote, connected, available, listed, changed, excused, behind>>
  PROVE  DockerInv'
<1>1. r \in AnyCall /\ r # None
  BY TheCall, CallKind
<1>2. /\ call \in [Callers -> AnyCall \cup {None}] /\ excused \subseteq Pair
      /\ \A j \in Callers : call'[j] = IF j = k THEN r ELSE call[j]
  BY DEF DockerInv, CallsOk, DockerTypes
<1>3. CallsOk(call, remote, excused)'
  <2>1. CallsOk(call', remote, excused)
    BY <1>1, <1>2, OneDockerCall DEF DockerInv
  <2>2. QED
    BY <2>1
<1>4. ListOk(call, remote, excused)'
  BY <1>1, <1>2 DEF DockerInv, ListOk
<1>5. DockerTypes' /\ SeenOk'
  BY DEF DockerInv, DockerTypes, SeenOk
<1>6. LateOk'
  BY <1>2 DEF DockerInv, LateOk
<1>7. QED
  BY <1>3, <1>4, <1>5, <1>6 DEF DockerInv

\* A call ends and leaves a list that is true, but for what is excused.
LEMMA CallLeaves ==
  ASSUME DockerInv, NEW CONSTANT k \in Callers, call[k] # None,
         call' = [call EXCEPT ![k] = None], UNCHANGED <<remote, loose, connected, behind>>,
         excused \subseteq excused', excused' \subseteq Pair, changed' \subseteq Pair,
         available' \in BOOLEAN, listed' \in [Pair -> Visible], SeenOk',
         \A c \in Pair : \/ c \in excused' \/ True(listed'[c], remote[c])
                         \/ (listed'[c] = listed[c] /\ c \notin call[k].did)
  PROVE  DockerInv'
<1>1. call \in [Callers -> AnyCall \cup {None}] /\ \A j \in Callers : call'[j] = IF j = k THEN None ELSE call[j]
  BY DEF DockerInv, CallsOk, DockerTypes
<1>2. CallsOk(call, remote, excused)'
  <2>1. CallsOk(call', remote, excused')
    BY <1>1, OneDockerCall DEF DockerInv
  <2>2. QED
    BY <2>1
<1>3. ListOk(call, remote, excused)'
  BY <1>1 DEF DockerInv, ListOk
<1>4. DockerTypes'
  BY DEF DockerInv, DockerTypes
<1>5. LateOk'
  BY <1>1 DEF DockerInv, LateOk
<1>6. QED
  BY <1>2, <1>3, <1>4, <1>5 DEF DockerInv

\* All calls know that a container has changed.
LEMMA Staled ==
  ASSUME NEW cl, NEW rem, NEW exc, NEW exz, CallsOk(cl, rem, exc), exc \subseteq exz, exz \subseteq Pair,
         NEW c \in Pair, rem \in [Pair -> Daemon], NEW s \in Daemon, NEW ren, ren = [rem EXCEPT ![c] = s],
         \A k \in Callers : cl[k] # None /\ cl[k].phase = "refresh" => c \in exz,
         NEW cm, cm = Docker!Stale(cl, c)
  PROVE  CallsOk(cm, ren, exz)
<1>1. cl \in [Callers -> AnyCall \cup {None}]
  BY DEF CallsOk
<1>2. cm = [k \in Callers |-> IF cl[k] = None THEN None ELSE [cl[k] EXCEPT !.stale = @ \cup {c}]]
  BY DEF Docker!Stale
<1>3. ren \in [Pair -> Daemon] /\ \A d \in Pair : ren[d] = IF d = c THEN s ELSE rem[d]
  OBVIOUS
<1>4. ASSUME NEW k \in Callers, cl[k] # None
      PROVE  /\ cm[k] \in AnyCall /\ cm[k] # None /\ cm[k].did = cl[k].did
             /\ Course(cm[k]) /\ Knows(cm[k], ren, exz)
  <2> DEFINE q == cl[k]
             r == [q EXCEPT !.stale = @ \cup {c}]
  <2>1. cm[k] = r
    BY <1>2, <1>4
  <2>2. q \in CallRec(q.asked) /\ q.asked \subseteq Pair /\ Course(q) /\ Knows(q, rem, exc)
    BY <1>1, <1>4, CallParts DEF CallsOk
  <2>3. q.phase = "refresh" => c \in exz
    BY <1>4
  <2>0. cl[k] = q
    OBVIOUS
  <2> HIDE DEF q
  <2>4. /\ r \in CallRec(q.asked) /\ r.op = q.op /\ r.asked = q.asked /\ r.todo = q.todo /\ r.now = q.now
        /\ r.phase = q.phase /\ r.verdict = q.verdict /\ r.did = q.did /\ r.read = q.read
        /\ r.stale = q.stale \cup {c}
    BY <2>2 DEF CallRec
  <2> HIDE DEF r
  <2>5. Course(r)
    BY <2>2, <2>4 DEF Course
  <2>6. Knows(r, ren, exz)
    <3>1. r.op \in Acts =>
            \A d \in r.asked \ r.stale : /\ Docker!Eligible(r.op, Docker!Listed(ren[d]))
                                         /\ r.verdict[d] = "skipped" => ren[d] = "paused"
      <4>1. SUFFICES ASSUME r.op \in Acts, NEW d \in r.asked \ r.stale
                     PROVE  /\ Docker!Eligible(r.op, Docker!Listed(ren[d]))
                            /\ r.verdict[d] = "skipped" => ren[d] = "paused"
        OBVIOUS
      <4>2. d \in Pair /\ d # c /\ d \in q.asked \ q.stale /\ ren[d] = rem[d]
        BY <1>3, <2>2, <2>4
      <4>3. QED
        BY <2>2, <2>4, <4>1, <4>2 DEF Knows
    <3>2. r.phase = "refresh" =>
            \A d \in Pair : True(r.read[d], ren[d]) \/ (d \in r.stale /\ d \in exz)
      BY <1>3, <2>2, <2>3, <2>4 DEF Knows
    <3>3. QED
      BY <3>1, <3>2 DEF Knows
  <2>7. QED
    BY <2>0, <2>1, <2>2, <2>4, <2>5, <2>6, CallKind
<1>5. \A k \in Callers : cl[k] = None => cm[k] = None
  BY <1>2
<1>6. cm \in [Callers -> AnyCall \cup {None}]
  <2>1. \A k \in Callers : cm[k] \in AnyCall \cup {None}
    BY <1>4, <1>5
  <2>2. cm = [k \in Callers |-> cm[k]]
    BY <1>2
  <2>3. QED
    BY <2>1, <2>2
<1>7. \A j, i \in Callers : cm[j] # None /\ cm[i] # None /\ j # i => exz = Pair
  BY <1>5 DEF CallsOk
<1>8. QED
  BY <1>4, <1>5, <1>6, <1>7 DEF CallsOk

\* It is all that they learn.
LEMMA StaleOnly ==
  ASSUME NEW cl, cl \in [Callers -> AnyCall \cup {None}], NEW c \in Pair
  PROVE  \A k \in Callers : /\ cl[k] = None => Docker!Stale(cl, c)[k] = None
                            /\ cl[k] # None => Docker!Stale(cl, c)[k] # None /\ Docker!Stale(cl, c)[k].did = cl[k].did
<1>1. SUFFICES ASSUME NEW k \in Callers, cl[k] # None
               PROVE  Docker!Stale(cl, c)[k] # None /\ Docker!Stale(cl, c)[k].did = cl[k].did
  BY DEF Docker!Stale
<1> DEFINE q == cl[k]
           r == [q EXCEPT !.stale = @ \cup {c}]
<1>2. Docker!Stale(cl, c)[k] = r
  BY <1>1 DEF Docker!Stale
<1>3. cl[k] = q /\ q \in CallRec(q.asked)
  BY <1>1, CallParts
<1> HIDE DEF q
<1>4. r \in CallRec(q.asked) /\ q.asked \subseteq Pair /\ r.did = q.did
  BY <1>3, <1>1, CallParts DEF CallRec, q
<1> HIDE DEF r
<1>5. QED
  BY <1>2, <1>3, <1>4, CallKind

\* A container changes; what had to be excused for it is.
LEMMA Changing ==
  ASSUME DockerInv, NEW cl, CallsOk(cl, remote, excused), NEW CONSTANT c \in Pair, NEW CONSTANT s \in Daemon,
         \A k \in Callers : call[k] # None <=> cl[k] # None,
         \A k \in Callers : cl[k] # None => call[k].did \subseteq cl[k].did,
         \A k \in Callers : cl[k] # None /\ cl[k].phase = "refresh" => c \in excused',
         c \in excused' \/ \E k \in Callers : cl[k] # None /\ c \in cl[k].did,
         remote' = [remote EXCEPT ![c] = s], changed' = changed \cup {c},
         call' = Docker!Stale(cl, c), excused \subseteq excused', excused' \subseteq Pair,
         loose' \subseteq loose, UNCHANGED <<connected, available, listed, behind>>
  PROVE  DockerInv'
<1>1. remote \in [Pair -> Daemon]
  BY DEF DockerInv, DockerTypes
<1>2. remote' \in [Pair -> Daemon] /\ \A d \in Pair : remote'[d] = IF d = c THEN s ELSE remote[d]
  BY <1>1
<1>3. /\ CallsOk(call', remote', excused')
      /\ \A k \in Callers : cl[k] = None => call'[k] = None
      /\ \A k \in Callers : cl[k] # None => call'[k] # None /\ call'[k].did = cl[k].did
  <2>1. CallsOk(call', remote', excused')
    BY <1>1, Staled
  <2>2. cl \in [Callers -> AnyCall \cup {None}]
    BY DEF CallsOk
  <2>3. QED
    BY <2>1, <2>2, StaleOnly
<1>4. CallsOk(call, remote, excused)'
  BY <1>3
<1>5. ListOk(call, remote, excused)'
  <2>1. SUFFICES ASSUME NEW d \in Pair
                 PROVE  \/ True(listed[d], remote'[d])
                        \/ d \in excused'
                        \/ \E k \in Callers : call'[k] # None /\ d \in call'[k].did
    BY DEF ListOk
  <2>2. CASE d = c
    BY <1>3, <2>2
  <2>3. CASE d # c
    BY <1>2, <1>3, <2>3 DEF DockerInv, ListOk
  <2>4. QED
    BY <2>2, <2>3
<1>6. DockerTypes' /\ SeenOk'
  BY <1>2 DEF DockerInv, DockerTypes, SeenOk
<1>7. LateOk'
  BY <1>3 DEF DockerInv, LateOk
<1>8. QED
  BY <1>4, <1>5, <1>6, <1>7 DEF DockerInv

\* The result of a container: setBatchResult.
LEMMA Judged ==
  ASSUME NEW CONSTANT cs \in SUBSET Pair, NEW CONSTANT r \in CallRec(cs), Course(r), r.op \in Acts,
         r.phase \in {"inspect", "command"},
         NEW CONSTANT c \in r.todo, NEW CONSTANT v \in {"success", "failed", "skipped"},
         NEW CONSTANT s \in CallRec(cs), s.op = r.op, s.asked = r.asked, s.todo = r.todo, s.verdict = r.verdict,
         s.stale = r.stale, s.did = (IF v = "success" THEN r.did \cup {c} ELSE r.did),
         NEW CONSTANT q, q = Docker!setBatchResult(s, c, v)
  PROVE  /\ q \in CallRec(cs) /\ Course(q) /\ q.op = r.op /\ q.asked = r.asked /\ q.stale = r.stale
         /\ q.did = s.did /\ q.phase \in {"answer", "inspect"}
         /\ \A d \in q.asked : q.verdict[d] = IF d = c THEN v ELSE r.verdict[d]
<1>1. c \in cs /\ r.asked = cs
  BY DEF CallRec
<1> DEFINE w == [s.verdict EXCEPT ![c] = v]
           t == s.todo \ {c}
           p == IF s.todo = {c} THEN "answer" ELSE "inspect"
<1>2. q = [s EXCEPT !.verdict = w, !.todo = t, !.now = None, !.phase = p]
  BY DEF Docker!setBatchResult, CallRec
<1>3. w \in [cs -> Ends] /\ t \in SUBSET cs /\ p \in {"answer", "inspect"}
      /\ \A d \in cs : w[d] = IF d = c THEN v ELSE r.verdict[d]
  BY <1>1 DEF CallRec, Ends
<1>4. t = r.todo \ {c} /\ (p = "answer" => t = {})
  OBVIOUS
<1> HIDE DEF w, t, p
<1>5. /\ q \in CallRec(cs) /\ q.op = s.op /\ q.asked = s.asked /\ q.stale = s.stale
      /\ q.did = s.did /\ q.phase = p /\ q.todo = t /\ q.verdict = w
  BY <1>2, <1>3 DEF CallRec
<1>6. Course(q)
  <2>1. \A d \in q.asked : /\ d \in q.todo <=> q.verdict[d] = None
                           /\ d \in q.did <=> q.verdict[d] = "success"
    <3>1. SUFFICES ASSUME NEW d \in cs
                   PROVE  /\ d \in t <=> w[d] = None
                          /\ d \in s.did <=> w[d] = "success"
      BY <1>1, <1>5
    <3>2. v # None /\ None # "success"
      BY ContainerAssumption DEF Docker!Verdicts
    <3>3. CASE d = c
      <4>1. c \notin r.did
        BY <1>1, <3>2 DEF Course
      <4>2. c \notin t /\ w[c] = v
        BY <1>1, <1>3, <1>4
      <4>3. QED
        BY <3>2, <3>3, <4>1, <4>2
    <3>4. CASE d # c
      BY <1>1, <1>3, <1>4, <3>4 DEF Course
    <3>5. QED
      BY <3>3, <3>4
  <2>2. QED
    BY <1>1, <1>3, <1>4, <1>5, <2>1 DEF Course, Acts
<1>7. QED
  BY <1>1, <1>3, <1>5, <1>6

\* The result of a container, of a call.
LEMMA Judging ==
  ASSUME DockerInv, NEW CONSTANT k \in Callers, call[k] # None, call[k].phase \in {"inspect", "command"},
         NEW CONSTANT c, c \in call[k].todo, NEW CONSTANT v \in {"success", "failed", "skipped"},
         v = "skipped" => remote[c] = "paused" \/ c \in call[k].stale,
         NEW s, s \in CallRec(call[k].asked), s.op = call[k].op, s.asked = call[k].asked, s.todo = call[k].todo,
         s.verdict = call[k].verdict, s.stale = call[k].stale,
         s.did = (IF v = "success" THEN call[k].did \cup {c} ELSE call[k].did),
         NEW q, q = Docker!setBatchResult(s, c, v)
  PROVE  /\ q \in CallRec(call[k].asked) /\ Course(q) /\ Knows(q, remote, excused)
         /\ q.did = s.did /\ q.phase \in {"answer", "inspect"}
<1> DEFINE r == call[k]
<1>1. r \in CallRec(r.asked) /\ r.asked \subseteq Pair /\ Course(r) /\ Knows(r, remote, excused)
  BY TheCall
<1>2. r.op \in Acts
  BY <1>1 DEF Course
<1>3. /\ q \in CallRec(r.asked) /\ Course(q) /\ q.op = r.op /\ q.asked = r.asked /\ q.stale = r.stale
      /\ q.did = s.did /\ q.phase \in {"answer", "inspect"}
      /\ \A d \in q.asked : q.verdict[d] = IF d = c THEN v ELSE r.verdict[d]
  <2>1. /\ r.phase \in {"inspect", "command"} /\ c \in r.todo
        /\ s \in CallRec(r.asked) /\ s.op = r.op /\ s.asked = r.asked /\ s.todo = r.todo
        /\ s.verdict = r.verdict /\ s.stale = r.stale
        /\ s.did = (IF v = "success" THEN r.did \cup {c} ELSE r.did)
    OBVIOUS
  <2> HIDE DEF r
  <2>2. QED
    BY <1>1, <1>2, <2>1, Judged
<1>4. Knows(q, remote, excused)
  <2>1. v = "skipped" => remote[c] = "paused" \/ c \in r.stale
    OBVIOUS
  <2> HIDE DEF r
  <2>2. ASSUME NEW d \in q.asked \ q.stale
        PROVE  /\ Docker!Eligible(q.op, Docker!Listed(remote[d]))
               /\ q.verdict[d] = "skipped" => remote[d] = "paused"
    BY <1>1, <1>2, <1>3, <2>1, <2>2 DEF Knows
  <2>3. QED
    BY <1>3, <2>2 DEF Knows
<1>5. QED
  BY <1>3, <1>4

\* Others change a container.
LEMMA ChangeKeeps ==
  ASSUME DockerInv, NEW CONSTANT c \in Pair, NEW CONSTANT s, Docker!Changes(c, s), s \in Docker!States
  PROVE  DockerInv'
<1>1. /\ remote' = [remote EXCEPT ![c] = s] /\ changed' = changed \cup {c} /\ excused' = excused \cup {c}
      /\ call' = Docker!Stale(call, c) /\ UNCHANGED <<loose, connected, available, listed, behind>>
  BY DEF Docker!Changes, Docker!Touch
<1>2. s \in Daemon /\ CallsOk(call, remote, excused) /\ excused \subseteq Pair
  BY DEF Docker!States, Daemon, DockerInv, DockerTypes
<1>3. QED
  BY <1>1, <1>2, Changing

\* A command that was cut off takes effect or not.
LEMMA EffectKeeps ==
  ASSUME DockerInv, NEW CONSTANT x, x \in loose, Docker!TakesEffect(x)
  PROVE  DockerInv'
<1>1. x.action \in Acts /\ x.c \in Pair /\ remote[x.c] \in Daemon
  BY DEF DockerInv, DockerTypes
<1>2. CASE Docker!Touch(x.c) /\ remote' = [remote EXCEPT ![x.c] = Docker!Result(x.action, @)]
  <2> DEFINE s == Docker!Result(x.action, remote[x.c])
             c == x.c
  <2>1. /\ remote' = [remote EXCEPT ![c] = s] /\ changed' = changed \cup {c} /\ excused' = excused \cup {c}
        /\ call' = Docker!Stale(call, c) /\ UNCHANGED <<connected, available, listed, behind>>
        /\ loose' \subseteq loose
    BY <1>2 DEF Docker!TakesEffect, Docker!Touch
  <2>2. s \in Daemon /\ c \in Pair /\ CallsOk(call, remote, excused) /\ excused \subseteq Pair
    BY <1>1, DaemonStates DEF DockerInv, DockerTypes
  <2> HIDE DEF s, c
  <2>3. QED
    BY <2>1, <2>2, Changing
<1>3. CASE UNCHANGED <<remote, changed, excused, call>>
  <2>1. loose' \subseteq loose /\ UNCHANGED <<remote, changed, excused, call, connected, available, listed, behind>>
    BY <1>3 DEF Docker!TakesEffect
  <2>2. QED
    BY <2>1 DEF DockerInv, DockerTypes, CallsOk, ListOk, SeenOk, LateOk
<1>4. QED
  BY <1>2, <1>3 DEF Docker!TakesEffect

\* A call begins, for containers that the list offers.
LEMMA BeginKeeps ==
  ASSUME DockerInv, NEW CONSTANT k \in Callers, NEW CONSTANT op \in Acts \cup {"check", "list"},
         NEW CONSTANT batch \in BOOLEAN, NEW CONSTANT cs \in SUBSET Pair,
         op \in Acts => cs # {} /\ \A c \in cs : listed[c] # None /\ Docker!Eligible(op, listed[c]),
         Docker!Begin(k, op, batch, cs)
  PROVE  DockerInv'
<1> DEFINE r == Docker!NewCall(op, batch, cs)
<1>1. /\ connected /\ call[k] = None /\ call' = [call EXCEPT ![k] = r]
      /\ excused' = (IF \E j \in Callers : call[j] # None THEN Pair ELSE excused)
      /\ UNCHANGED <<remote, loose, connected, available, listed, changed, behind>>
  BY DEF Docker!Begin, Docker!Set
<1>2. /\ r \in CallRec(cs) /\ r.op = op /\ r.asked = cs /\ r.todo = cs /\ r.phase = "open" /\ r.did = {}
      /\ r.verdict = [c \in cs |-> None] /\ r.stale = cs \cap changed
  BY DEF Docker!NewCall, CallRec, DockerInv, DockerTypes, Ends, Visible
<1> HIDE DEF r
<1>3. Course(r)
  BY <1>2, ContainerAssumption DEF Course, Docker!Verdicts
<1>4. Knows(r, remote, excused')
  <2>1. ASSUME op \in Acts, NEW c \in cs \ changed
        PROVE  Docker!Eligible(op, Docker!Listed(remote[c])) /\ r.verdict[c] # "skipped"
    <3>1. listed[c] = Docker!Listed(remote[c]) /\ Docker!Eligible(op, listed[c])
      BY <2>1 DEF DockerInv, SeenOk, True
    <3>2. r.verdict[c] # "skipped"
      BY <1>2, <2>1, ContainerAssumption DEF Docker!Verdicts
    <3>3. QED
      BY <3>1, <3>2
  <2>2. QED
    BY <1>2, <2>1 DEF Knows
<1>5. r \in AnyCall /\ r # None
  BY <1>2, CallKind
<1>6. excused \subseteq excused' /\ excused' \subseteq Pair
  BY <1>1 DEF DockerInv, DockerTypes
<1>7. CallsOk(call, remote, excused)'
  <2>1. CallsOk(call', remote, excused')
    <3> DEFINE exz == excused'
    <3>1. /\ excused \subseteq exz /\ exz \subseteq Pair /\ Knows(r, remote, exz)
          /\ exz = Pair \/ \A j \in Callers : call[j] = None
      BY <1>1, <1>4, <1>6
    <3> HIDE DEF exz
    <3>2. CallsOk([call EXCEPT ![k] = r], remote, exz)
      BY <1>3, <1>5, <3>1, OneDockerCall DEF DockerInv
    <3>3. QED
      BY <1>1, <3>2 DEF exz
  <2>2. QED
    BY <1>1, <2>1
<1>8. call \in [Callers -> AnyCall \cup {None}] /\ \A j \in Callers : call'[j] = IF j = k THEN r ELSE call[j]
  BY <1>1 DEF DockerInv, CallsOk
<1>9. ListOk(call, remote, excused)'
  <2>1. SUFFICES ASSUME NEW c \in Pair
                 PROVE  \/ True(listed[c], remote[c]) \/ c \in excused'
                        \/ \E j \in Callers : call'[j] # None /\ c \in call'[j].did
    BY <1>1 DEF ListOk
  <2>2. QED
    BY <1>1, <1>6, <1>8 DEF DockerInv, ListOk
<1>10. DockerTypes' /\ SeenOk' /\ LateOk'
  BY <1>1, <1>6 DEF DockerInv, DockerTypes, SeenOk, LateOk
<1>11. QED
  BY <1>7, <1>9, <1>10 DEF DockerInv

\* The window asks.
LEMMA AskContainersKeeps ==
  ASSUME DockerInv, NEW CONSTANT k \in Callers,
         \/ \E action \in Docker!Actions : \/ \E cs \in SUBSET Pair : Docker!AskBatch(k, action, cs)
                                           \/ \E c \in Pair : Docker!AskOne(k, action, c)
         \/ Docker!AskCheck(k) \/ Docker!AskList(k)
  PROVE  DockerInv'
<1>0. Docker!Actions = Acts
  BY DEF Docker!Actions, Acts
<1>1. ASSUME NEW action \in Acts, NEW cs \in SUBSET Pair, Docker!AskBatch(k, action, cs)
      PROVE  DockerInv'
  BY <1>1, BeginKeeps DEF Docker!AskBatch
<1>2. ASSUME NEW action \in Acts, NEW c \in Pair, Docker!AskOne(k, action, c)
      PROVE  DockerInv'
  <2> DEFINE cs == {c}
  <2>1. /\ Docker!Begin(k, action, FALSE, cs) /\ cs # {} /\ cs \in SUBSET Pair
        /\ \A d \in cs : listed[d] # None /\ Docker!Eligible(action, listed[d])
    BY <1>2 DEF Docker!AskOne
  <2> HIDE DEF cs
  <2>2. QED
    BY <2>1, BeginKeeps
<1>3. CASE Docker!AskCheck(k) \/ Docker!AskList(k)
  <2> DEFINE cs == {}
  <2>1. cs \in SUBSET Pair /\ (Docker!Begin(k, "check", FALSE, cs) \/ Docker!Begin(k, "list", FALSE, cs))
    BY <1>3 DEF Docker!AskCheck, Docker!AskList
  <2> HIDE DEF cs
  <2>2. "check" \notin Acts /\ "list" \notin Acts
    BY DEF Acts
  <2>3. QED
    BY <2>1, <2>2, BeginKeeps
<1>4. QED
  BY <1>0, <1>1, <1>2, <1>3

\* The connection of a call fails.
LEMMA OpenFailsKeeps ==
  ASSUME DockerInv, NEW CONSTANT k \in Callers, Docker!OpenFails(k)
  PROVE  DockerInv'
<1> DEFINE r == call[k]
           q == Docker!FailAll(r)
<1>1. /\ r # None /\ r.phase = "open"
      /\ UNCHANGED <<remote, loose, connected, listed, changed, excused, behind>>
  BY DEF Docker!OpenFails
<1>2. r \in CallRec(r.asked) /\ r.asked \subseteq Pair /\ Course(r) /\ Knows(r, remote, excused)
  BY <1>1, TheCall
<1>3. CASE r.op \in Acts
  <2>1. call' = [call EXCEPT ![k] = q] /\ UNCHANGED available
    BY <1>3 DEF Docker!OpenFails, Docker!Set, Docker!Actions, Acts
  <2> DEFINE w == [c \in r.asked |-> IF r.verdict[c] = None THEN "failed" ELSE r.verdict[c]]
  <2>2. q = [r EXCEPT !.todo = {}, !.phase = "answer", !.verdict = w]
    BY DEF Docker!FailAll
  <2>0. call[k] = r
    OBVIOUS
  <2> HIDE DEF q, r
  <2>3. /\ w \in [r.asked -> Ends] /\ \A c \in r.asked : w[c] = "failed" /\ c \notin r.did
    BY <1>1, <1>2 DEF CallRec, Course, Ends
  <2> HIDE DEF w
  <2>4. /\ q \in CallRec(r.asked) /\ q.op = r.op /\ q.asked = r.asked /\ q.todo = {} /\ q.did = r.did
        /\ q.phase = "answer" /\ q.verdict = w /\ q.stale = r.stale
    BY <1>2, <2>2, <2>3 DEF CallRec
  <2>5. Course(q)
    BY <1>2, <1>3, <2>3, <2>4, ContainerAssumption DEF Course, Docker!Verdicts
  <2>6. Knows(q, remote, excused)
    BY <1>2, <2>3, <2>4 DEF Knows
  <2>7. QED
    BY <1>1, <2>0, <2>1, <2>4, <2>5, <2>6, CallGoes DEF DockerInv, DockerTypes
<1>4. CASE r.op \notin Acts
  <2>1. call' = [call EXCEPT ![k] = None] /\ available' \in BOOLEAN
    BY <1>4 DEF Docker!OpenFails, Docker!Set, Docker!Actions, Acts, DockerInv, DockerTypes
  <2>2. r.did = {}
    BY <1>1, <1>2 DEF Course
  <2>3. QED
    BY <1>1, <2>1, <2>2, CallLeaves DEF DockerInv, DockerTypes, SeenOk
<1>5. QED
  BY <1>3, <1>4

\* The connection is there.
LEMMA OpenKeeps ==
  ASSUME DockerInv, NEW CONSTANT k \in Callers, Docker!Open(k)
  PROVE  DockerInv'
<1> DEFINE r == call[k]
           p == CASE r.op \in {"list", "check"} -> "list"
                  [] r.op \in Docker!Actions /\ (r.batch \/ r.op = "remove") -> "inspect"
                  [] OTHER -> "command"
           n == IF r.op \in Docker!Actions /\ ~r.batch /\ r.op # "remove" THEN CHOOSE c \in r.asked : TRUE ELSE None
           q == [r EXCEPT !.phase = p, !.now = n]
<1>0. call[k] = r
  OBVIOUS
<1>1. /\ r # None /\ r.phase = "open" /\ call' = [call EXCEPT ![k] = q]
      /\ UNCHANGED <<remote, loose, connected, available, listed, changed, excused, behind>>
  BY DEF Docker!Open, Docker!Set
<1>2. r \in CallRec(r.asked) /\ r.asked \subseteq Pair /\ Course(r) /\ Knows(r, remote, excused)
  BY <1>1, TheCall
<1> HIDE DEF r
<1>3. r.op \in Acts \cup {"check", "list"} /\ r.batch \in BOOLEAN
  BY <1>2 DEF CallRec
<1>4. /\ p \in {"list", "inspect", "command"} /\ (p = "list" <=> r.op \notin Acts)
      /\ p = "command" => r.op \in Acts /\ ~r.batch /\ r.op # "remove"
  <2>1. CASE r.op \in {"list", "check"}
    <3>1. p = "list"
      BY <2>1 DEF Docker!Actions
    <3>0. r.op \notin Acts
      BY <2>1 DEF Acts
    <3>2. QED
      BY <2>1, <3>0, <3>1
  <2>2. CASE r.op \in Acts /\ (r.batch \/ r.op = "remove")
    <3>1. r.op \notin {"list", "check"} /\ p = "inspect"
      BY <2>2 DEF Acts, Docker!Actions
    <3>2. QED
      BY <2>2, <3>1
  <2>3. CASE r.op \in Acts /\ ~r.batch /\ r.op # "remove"
    <3>1. r.op \notin {"list", "check"} /\ p = "command"
      BY <2>3 DEF Acts, Docker!Actions
    <3>2. QED
      BY <2>3, <3>1
  <2>4. QED
    BY <1>3, <2>1, <2>2, <2>3
<1>5. n \in r.asked \cup {None} /\ (p = "command" => n \in r.asked)
  <2>1. r.op \in Acts => r.asked # {}
    BY <1>2 DEF Course
  <2>2. r.op \in Acts => (CHOOSE c \in r.asked : TRUE) \in r.asked
    BY <2>1
  <2>3. Docker!Actions = Acts
    BY DEF Docker!Actions, Acts
  <2> HIDE DEF p
  <2>4. QED
    BY <1>4, <2>2, <2>3
<1> HIDE DEF p, n
<1>6. /\ q \in CallRec(r.asked) /\ q.op = r.op /\ q.asked = r.asked /\ q.todo = r.todo /\ q.did = r.did
      /\ q.phase = p /\ q.verdict = r.verdict /\ q.stale = r.stale /\ q.now = n
  BY <1>2, <1>4, <1>5 DEF CallRec
<1> HIDE DEF q
<1>7. Course(q)
  BY <1>1, <1>2, <1>3, <1>4, <1>5, <1>6 DEF Course
<1>8. Knows(q, remote, excused)
  BY <1>2, <1>4, <1>6 DEF Knows
<1>9. QED
  BY <1>0, <1>1, <1>6, <1>7, <1>8, CallGoes DEF DockerInv, DockerTypes

\* The timeout of a call passes.
LEMMA ExpireKeeps ==
  ASSUME DockerInv, NEW CONSTANT k \in Callers, Docker!Expires(k)
  PROVE  DockerInv'
<1> DEFINE r == call[k]
           q == [r EXCEPT !.expired = TRUE]
<1>0. call[k] = r
  OBVIOUS
<1>1. /\ r # None /\ r.phase \in {"inspect", "command"} /\ call' = [call EXCEPT ![k] = q]
      /\ UNCHANGED <<remote, loose, connected, available, listed, changed, excused, behind>>
  BY DEF Docker!Expires, Docker!Set
<1>2. r \in CallRec(r.asked) /\ r.asked \subseteq Pair /\ Course(r) /\ Knows(r, remote, excused)
  BY <1>1, TheCall
<1> HIDE DEF r
<1>3. /\ q \in CallRec(r.asked) /\ q.op = r.op /\ q.asked = r.asked /\ q.todo = r.todo /\ q.did = r.did
      /\ q.phase = r.phase /\ q.verdict = r.verdict /\ q.stale = r.stale /\ q.now = r.now
  BY <1>2 DEF CallRec
<1> HIDE DEF q
<1>4. Course(q) /\ Knows(q, remote, excused)
  BY <1>1, <1>2, <1>3 DEF Course, Knows
<1>5. QED
  BY <1>0, <1>1, <1>3, <1>4, CallGoes DEF DockerInv, DockerTypes

\* A container is inspected.
LEMMA InspectKeeps ==
  ASSUME DockerInv, NEW CONSTANT k \in Callers, NEW CONSTANT c \in Pair, Docker!Inspect(k, c)
  PROVE  DockerInv'
<1> DEFINE r == call[k]
<1>0. call[k] = r
  OBVIOUS
<1>1. /\ r # None /\ r.phase = "inspect" /\ c \in r.todo
      /\ UNCHANGED <<remote, loose, connected, available, listed, changed, excused, behind>>
  BY DEF Docker!Inspect
<1>2. r \in CallRec(r.asked) /\ r.asked \subseteq Pair /\ Course(r) /\ Knows(r, remote, excused)
  BY <1>1, TheCall
<1>3. ASSUME NEW v \in {"failed", "skipped"}, v = "skipped" => ~Docker!CanBatch(r.op, Docker!Inspected(remote[c])),
             call' = [call EXCEPT ![k] = Docker!setBatchResult(r, c, v)]
      PROVE  DockerInv'
  <2> DEFINE q == Docker!setBatchResult(r, c, v)
  <2>1. c \in r.asked /\ r.op \in Acts /\ remote[c] \in Daemon
    BY <1>1, <1>2 DEF CallRec, Course, DockerInv, DockerTypes
  <2>2. v = "skipped" => remote[c] = "paused" \/ c \in r.stale
    BY <1>2, <1>3, <2>1, OnlyPaused DEF Knows
  <2>3. r.did = (IF v = "success" THEN r.did \cup {c} ELSE r.did)
    BY <1>3
  <2>4. /\ q \in CallRec(r.asked) /\ Course(q) /\ Knows(q, remote, excused) /\ q.did = r.did
    <3> DEFINE s == r
    <3>1. /\ s \in CallRec(call[k].asked) /\ s.op = call[k].op /\ s.asked = call[k].asked /\ s.todo = call[k].todo
          /\ s.verdict = call[k].verdict /\ s.stale = call[k].stale /\ c \in call[k].todo
          /\ s.did = (IF v = "success" THEN call[k].did \cup {c} ELSE call[k].did)
          /\ q = Docker!setBatchResult(s, c, v) /\ call[k].phase \in {"inspect", "command"}
          /\ v \in {"success", "failed", "skipped"} /\ call[k] # None
      BY <1>1, <1>2, <2>3
    <3> HIDE DEF q, s
    <3>2. QED
      BY <2>2, <3>1, Judging DEF s
  <2>5. call' = [call EXCEPT ![k] = q] /\ call[k].did \subseteq q.did
    BY <1>3, <2>4
  <2> HIDE DEF q
  <2>6. QED
    BY <1>1, <2>4, <2>5, CallGoes DEF DockerInv, DockerTypes
<1>4. ASSUME call' = [call EXCEPT ![k] = [r EXCEPT !.now = c, !.phase = "command"]]
      PROVE  DockerInv'
  <2> DEFINE q == [r EXCEPT !.now = c, !.phase = "command"]
  <2>1. call' = [call EXCEPT ![k] = q]
    BY <1>4
  <2> HIDE DEF r
  <2>2. /\ q \in CallRec(r.asked) /\ q.op = r.op /\ q.asked = r.asked /\ q.todo = r.todo /\ q.did = r.did
        /\ q.phase = "command" /\ q.verdict = r.verdict /\ q.stale = r.stale /\ q.now = c
    BY <1>1, <1>2 DEF CallRec
  <2> HIDE DEF q
  <2>3. Course(q) /\ Knows(q, remote, excused)
    BY <1>1, <1>2, <2>2 DEF Course, Knows
  <2>4. QED
    BY <1>0, <1>1, <2>1, <2>2, <2>3, CallGoes DEF DockerInv, DockerTypes
<1>5. \/ call' = [call EXCEPT ![k] = Docker!setBatchResult(r, c, "failed")]
      \/ ~Docker!CanBatch(r.op, Docker!Inspected(remote[c])) /\ call' = [call EXCEPT ![k] = Docker!setBatchResult(r, c, "skipped")]
      \/ call' = [call EXCEPT ![k] = [r EXCEPT !.now = c, !.phase = "command"]]
  BY DEF Docker!Inspect, Docker!Set
<1>6. QED
  BY <1>3, <1>4, <1>5

\* The command runs and the daemon decides.
LEMMA RunKeeps ==
  ASSUME DockerInv, NEW CONSTANT k \in Callers, Docker!RunCommand(k)
  PROVE  DockerInv'
<1> DEFINE r == call[k]
           c == r.now
<1>0. call[k] = r
  OBVIOUS
<1>1. /\ r # None /\ r.phase = "command"
      /\ UNCHANGED <<loose, connected, available, listed, excused, behind>>
  BY DEF Docker!RunCommand
<1>2. r \in CallRec(r.asked) /\ r.asked \subseteq Pair /\ Course(r) /\ Knows(r, remote, excused)
  BY <1>1, TheCall
<1>3. c \in r.todo /\ c \in r.asked /\ c \in Pair /\ r.op \in Acts /\ remote[c] \in Daemon
  BY <1>1, <1>2 DEF Course, CallRec, DockerInv, DockerTypes
<1>4. CASE Docker!Accepts(r.op, remote[r.now])
  <2> DEFINE s == [r EXCEPT !.did = @ \cup {c}]
             q == Docker!setBatchResult(s, c, "success")
             cl == [call EXCEPT ![k] = q]
             new == Docker!Result(r.op, remote[c])
  <2>1. /\ remote' = [remote EXCEPT ![c] = new] /\ changed' = changed \cup {c}
        /\ call' = Docker!Stale(cl, c)
    BY <1>4 DEF Docker!RunCommand
  <2>2. new \in Daemon
    BY <1>3, DaemonStates
  <2>3. /\ s \in CallRec(r.asked) /\ s.op = r.op /\ s.asked = r.asked /\ s.todo = r.todo
        /\ s.verdict = r.verdict /\ s.stale = r.stale /\ s.did = r.did \cup {c}
    <3> HIDE DEF r
    <3>1. c \in r.asked
      BY <1>3
    <3> HIDE DEF c
    <3>2. QED
      BY <1>2, <3>1 DEF CallRec
  <2>4. /\ q \in CallRec(r.asked) /\ Course(q) /\ Knows(q, remote, excused)
        /\ q.did = r.did \cup {c} /\ q.phase \in {"answer", "inspect"}
    <3>1. /\ s \in CallRec(call[k].asked) /\ s.op = call[k].op /\ s.asked = call[k].asked /\ s.todo = call[k].todo
          /\ s.verdict = call[k].verdict /\ s.stale = call[k].stale /\ c \in call[k].todo
          /\ s.did = (IF "success" = "success" THEN call[k].did \cup {c} ELSE call[k].did)
          /\ q = Docker!setBatchResult(s, c, "success") /\ call[k].phase \in {"inspect", "command"} /\ call[k] # None
      BY <1>1, <1>3, <2>3
    <3> HIDE DEF q, s, c
    <3>2. QED
      BY <3>1, Judging
  <2> HIDE DEF s, q, new, c
  <2>5. q \in AnyCall /\ q # None
    BY <1>2, <2>4, CallKind
  <2>6. call \in [Callers -> AnyCall \cup {None}] /\ excused \subseteq Pair
    BY DEF DockerInv, CallsOk, DockerTypes
  <2>7. CallsOk(cl, remote, excused)
    BY <1>1, <2>4, <2>5, <2>6, OneDockerCall DEF DockerInv
  <2>8. \A j \in Callers : cl[j] = IF j = k THEN q ELSE call[j]
    BY <2>6
  <2>9. \A j \in Callers : cl[j] # None /\ cl[j].phase = "refresh" => c \in excused
    BY <1>0, <1>1, <1>3, <2>4, <2>8 DEF DockerInv, CallsOk
  <2>10. /\ \A j \in Callers : call[j] # None <=> cl[j] # None
         /\ \A j \in Callers : cl[j] # None => call[j].did \subseteq cl[j].did
         /\ \E j \in Callers : cl[j] # None /\ c \in cl[j].did
    BY <1>0, <1>1, <2>4, <2>5, <2>8
  <2> HIDE DEF cl
  <2>11. QED
    BY <1>1, <1>3, <2>1, <2>2, <2>6, <2>7, <2>9, <2>10, Changing
<1>5. CASE ~Docker!Accepts(r.op, remote[r.now])
  <2> DEFINE q == Docker!setBatchResult(r, c, "failed")
  <2>1. UNCHANGED <<remote, changed>> /\ call' = [call EXCEPT ![k] = q]
    BY <1>5 DEF Docker!RunCommand, Docker!Set
  <2>2. q \in CallRec(r.asked) /\ Course(q) /\ Knows(q, remote, excused) /\ q.did = r.did
    <3> DEFINE s == r
    <3>1. /\ s \in CallRec(call[k].asked) /\ s.op = call[k].op /\ s.asked = call[k].asked /\ s.todo = call[k].todo
          /\ s.verdict = call[k].verdict /\ s.stale = call[k].stale /\ c \in call[k].todo
          /\ s.did = (IF "failed" = "success" THEN call[k].did \cup {c} ELSE call[k].did)
          /\ q = Docker!setBatchResult(s, c, "failed") /\ call[k].phase \in {"inspect", "command"} /\ call[k] # None
          /\ s.did = r.did
      BY <1>1, <1>2, <1>3
    <3> HIDE DEF q, s, c
    <3>2. QED
      BY <3>1, Judging DEF r
  <2> HIDE DEF q
  <2>3. QED
    BY <1>1, <2>1, <2>2, CallGoes DEF DockerInv, DockerTypes
<1>6. QED
  BY <1>4, <1>5

\* The timeout cuts a command off.
LEMMA CutKeeps ==
  ASSUME DockerInv, NEW CONSTANT k \in Callers, Docker!CommandExpires(k)
  PROVE  DockerInv'
<1> DEFINE r == call[k]
           c == r.now
           q == Docker!setBatchResult(r, c, "failed")
<1>1. /\ r # None /\ r.phase = "command" /\ call' = [call EXCEPT ![k] = q]
      /\ loose' = loose \cup {[action |-> r.op, c |-> r.now]}
      /\ UNCHANGED <<remote, connected, available, listed, changed, excused, behind>>
  BY DEF Docker!CommandExpires, Docker!Set
<1>2. r \in CallRec(r.asked) /\ r.asked \subseteq Pair /\ Course(r) /\ Knows(r, remote, excused)
  BY <1>1, TheCall
<1>3. c \in r.todo /\ c \in r.asked /\ c \in Pair /\ r.op \in Acts
  BY <1>1, <1>2 DEF Course, CallRec
<1>4. loose' \subseteq [action : Acts, c : Pair]
  BY <1>1, <1>3 DEF DockerInv, DockerTypes
<1>5. q \in CallRec(r.asked) /\ Course(q) /\ Knows(q, remote, excused) /\ q.did = r.did
  <2> DEFINE s == r
  <2>1. /\ s \in CallRec(call[k].asked) /\ s.op = call[k].op /\ s.asked = call[k].asked /\ s.todo = call[k].todo
        /\ s.verdict = call[k].verdict /\ s.stale = call[k].stale /\ c \in call[k].todo
        /\ s.did = (IF "failed" = "success" THEN call[k].did \cup {c} ELSE call[k].did)
        /\ q = Docker!setBatchResult(s, c, "failed") /\ call[k].phase \in {"inspect", "command"} /\ call[k] # None
        /\ s.did = r.did
    BY <1>1, <1>2, <1>3
  <2> HIDE DEF q, s, c
  <2>2. QED
    BY <2>1, Judging DEF r
<1> HIDE DEF q
<1>6. QED
  BY <1>1, <1>4, <1>5, CallGoes

\* A call is answered.
LEMMA AnswerKeeps ==
  ASSUME DockerInv, NEW CONSTANT k \in Callers, Docker!Answered(k)
  PROVE  DockerInv'
<1> DEFINE r == call[k]
           q == [r EXCEPT !.phase = "list", !.op = "list"]
<1>0. call[k] = r
  OBVIOUS
<1>1. /\ r # None /\ r.phase = "answer"
      /\ UNCHANGED <<remote, loose, connected, available, listed, changed, excused, behind>>
      /\ \/ call' = [call EXCEPT ![k] = q]
         \/ r.did = {} /\ call' = [call EXCEPT ![k] = None]
  BY DEF Docker!Answered, Docker!Set
<1>2. r \in CallRec(r.asked) /\ r.asked \subseteq Pair /\ Course(r) /\ Knows(r, remote, excused)
  BY <1>1, TheCall
<1>3. CASE call' = [call EXCEPT ![k] = q]
  <2> HIDE DEF r
  <2>1. /\ q \in CallRec(r.asked) /\ q.op = "list" /\ q.asked = r.asked /\ q.todo = r.todo /\ q.did = r.did
        /\ q.phase = "list" /\ q.verdict = r.verdict
    BY <1>2 DEF CallRec
  <2>2. call' = [call EXCEPT ![k] = q]
    BY <1>3
  <2> HIDE DEF q
  <2>3. Course(q) /\ Knows(q, remote, excused)
    BY <1>2, <2>1 DEF Course, Knows, Acts
  <2>4. QED
    BY <1>0, <1>1, <2>1, <2>2, <2>3, CallGoes DEF DockerInv, DockerTypes
<1>4. CASE r.did = {} /\ call' = [call EXCEPT ![k] = None]
  BY <1>1, <1>4, CallLeaves DEF DockerInv, DockerTypes, SeenOk
<1>5. QED
  BY <1>1, <1>3, <1>4

\* A call reads the list.
LEMMA ReadKeeps ==
  ASSUME DockerInv, NEW CONSTANT k \in Callers, Docker!Read(k)
  PROVE  DockerInv'
<1> DEFINE r == call[k]
           saw == [c \in Pair |-> IF r.op = "list" /\ remote[c] # "gone" THEN Docker!Listed(remote[c]) ELSE None]
           q == [r EXCEPT !.phase = "refresh", !.stale = {}, !.read = saw]
<1>0. call[k] = r
  OBVIOUS
<1>1. /\ r # None /\ r.phase = "list" /\ call' = [call EXCEPT ![k] = q]
      /\ UNCHANGED <<remote, loose, connected, available, listed, changed, excused, behind>>
  BY DEF Docker!Read, Docker!Set
<1>2. r \in CallRec(r.asked) /\ r.asked \subseteq Pair /\ Course(r) /\ Knows(r, remote, excused)
  BY <1>1, TheCall
<1>3. /\ saw \in [Pair -> Visible] /\ \A c \in Pair : True(saw[c], remote[c])
      /\ r.op = "check" => \A c \in Pair : saw[c] = None
  <2>1. \A c \in Pair : remote[c] \in Daemon
    BY DEF DockerInv, DockerTypes
  <2>2. QED
    BY <2>1, DaemonStates DEF Visible, True
<1> HIDE DEF r, saw
<1>4. /\ q \in CallRec(r.asked) /\ q.op = r.op /\ q.asked = r.asked /\ q.todo = r.todo /\ q.did = r.did
      /\ q.phase = "refresh" /\ q.verdict = r.verdict /\ q.read = saw
  BY <1>2, <1>3 DEF CallRec
<1> HIDE DEF q
<1>5. r.op \in {"list", "check"}
  BY <1>1, <1>2 DEF Course
<1>6. Course(q) /\ Knows(q, remote, excused)
  BY <1>1, <1>2, <1>3, <1>4, <1>5 DEF Course, Knows, Acts
<1>7. QED
  BY <1>0, <1>1, <1>4, <1>6, CallGoes DEF DockerInv, DockerTypes

\* The list cannot be read.
LEMMA ReadFailsKeeps ==
  ASSUME DockerInv, NEW CONSTANT k \in Callers, Docker!ReadFails(k)
  PROVE  DockerInv'
<1> DEFINE r == call[k]
<1>1. /\ r # None /\ call' = [call EXCEPT ![k] = None] /\ excused' = excused \cup r.asked
      /\ available' = (IF r.op = "check" THEN FALSE ELSE available)
      /\ UNCHANGED <<remote, loose, connected, listed, changed, behind>>
  BY DEF Docker!ReadFails, Docker!Set
<1>2. r.asked \subseteq Pair /\ r.did \subseteq r.asked
  BY <1>1, TheCall DEF CallRec
<1>3. excused \subseteq excused' /\ excused' \subseteq Pair /\ available' \in BOOLEAN
  BY <1>1, <1>2 DEF DockerInv, DockerTypes
<1>4. \A c \in Pair : c \in excused' \/ c \notin r.did
  BY <1>1, <1>2
<1>5. QED
  BY <1>1, <1>3, <1>4, CallLeaves DEF DockerInv, DockerTypes, SeenOk

\* The window takes the list.
LEMMA RefreshKeeps ==
  ASSUME DockerInv, NEW CONSTANT k \in Callers, Docker!Refresh(k)
  PROVE  DockerInv'
<1> DEFINE r == call[k]
<1>1. /\ r # None /\ r.phase = "refresh" /\ call' = [call EXCEPT ![k] = None]
      /\ available' = TRUE /\ listed' = r.read
      /\ changed' = (IF r.op = "list" THEN r.stale ELSE changed)
      /\ UNCHANGED <<remote, loose, connected, excused, behind>>
  BY DEF Docker!Refresh, Docker!Set
<1>2. r \in CallRec(r.asked) /\ r.asked \subseteq Pair /\ Course(r) /\ Knows(r, remote, excused)
  BY <1>1, TheCall
<1>3. /\ \A c \in Pair : True(r.read[c], remote[c]) \/ (c \in r.stale /\ c \in excused)
      /\ r.op \in {"list", "check"} /\ (r.op = "check" => \A c \in Pair : r.read[c] = None)
  BY <1>1, <1>2 DEF Course, Knows
<1>4. r.read \in [Pair -> Visible] /\ r.stale \subseteq Pair
  BY <1>2 DEF CallRec
<1> HIDE DEF r
<1>5. SeenOk'
  BY <1>1, <1>3 DEF SeenOk, True
<1>6. changed' \subseteq Pair /\ listed' \in [Pair -> Visible] /\ available' \in BOOLEAN /\ excused' \subseteq Pair
  BY <1>1, <1>4 DEF DockerInv, DockerTypes
<1>7. \A c \in Pair : c \in excused' \/ True(listed'[c], remote[c])
  BY <1>1, <1>3
<1>8. QED
  BY <1>1, <1>5, <1>6, <1>7, CallLeaves DEF r

\* The server is disconnected.
LEMMA StopKeeps ==
  ASSUME DockerInv, Docker!StopServer
  PROVE  DockerInv'
<1>1. /\ connected' = FALSE /\ available' = FALSE /\ behind' = {k \in Callers : call[k] # None}
      /\ UNCHANGED <<remote, call, loose, listed, changed, excused>>
  BY DEF Docker!StopServer
<1>2. QED
  BY <1>1 DEF DockerInv, DockerTypes, CallsOk, ListOk, SeenOk, LateOk

\* Every step of the containers.
LEMMA DockerStep ==
  ASSUME DockerInv, [Docker!Next]_(Docker!vars)
  PROVE  DockerInv'
<1>1. CASE UNCHANGED Docker!vars
  BY <1>1 DEF Docker!vars, DockerInv, DockerTypes, CallsOk, ListOk, SeenOk, LateOk
<1>2. ASSUME NEW CONSTANT c \in Pair, NEW CONSTANT s \in Docker!States, Docker!Changes(c, s)
      PROVE  DockerInv'
  BY <1>2, ChangeKeeps
<1>3. ASSUME NEW x \in loose, Docker!TakesEffect(x)
      PROVE  DockerInv'
  BY <1>3, EffectKeeps
<1>4. ASSUME NEW CONSTANT k \in Callers,
             \/ \E action \in Docker!Actions : \/ \E cs \in SUBSET Pair : Docker!AskBatch(k, action, cs)
                                               \/ \E c \in Pair : Docker!AskOne(k, action, c)
             \/ Docker!AskCheck(k) \/ Docker!AskList(k)
      PROVE  DockerInv'
  BY <1>4, AskContainersKeeps
<1>5. ASSUME NEW CONSTANT k \in Callers, NEW CONSTANT c \in Pair, Docker!Inspect(k, c)
      PROVE  DockerInv'
  BY <1>5, InspectKeeps
<1>6. ASSUME NEW CONSTANT k \in Callers,
             \/ Docker!OpenFails(k) \/ Docker!Open(k) \/ Docker!Expires(k)
             \/ Docker!RunCommand(k) \/ Docker!CommandExpires(k) \/ Docker!Answered(k)
             \/ Docker!Read(k) \/ Docker!ReadFails(k) \/ Docker!Refresh(k)
      PROVE  DockerInv'
  BY <1>6, OpenFailsKeeps, OpenKeeps, ExpireKeeps, RunKeeps, CutKeeps, AnswerKeeps, ReadKeeps, ReadFailsKeeps, RefreshKeeps
<1>7. CASE Docker!StopServer
  BY <1>7, StopKeeps
<1>8. QED
  BY <1>1, <1>2, <1>3, <1>4, <1>5, <1>6, <1>7 DEF Docker!Next

\* The list is true at the start, and no call is under way.
LEMMA DockerInit ==
  ASSUME Docker!Init
  PROVE  DockerInv
<1>1. /\ remote \in [Pair -> {"created", "running", "paused", "exited"}]
      /\ call = [k \in Callers |-> None] /\ loose = {} /\ connected = TRUE /\ available = TRUE
      /\ listed = [c \in Pair |-> Docker!Listed(remote[c])]
      /\ changed = {} /\ excused = {} /\ behind = {}
  BY DEF Docker!Init
<1>2. remote \in [Pair -> Daemon]
  BY <1>1 DEF Daemon
<1>3. listed \in [Pair -> Visible] /\ \A c \in Pair : True(listed[c], remote[c])
  BY <1>1, <1>2, DaemonStates DEF True
<1>4. DockerTypes /\ SeenOk /\ LateOk /\ ListOk(call, remote, excused)
  BY <1>1, <1>2, <1>3 DEF DockerTypes, SeenOk, LateOk, ListOk
<1>5. CallsOk(call, remote, excused)
  BY <1>1 DEF CallsOk
<1>6. QED
  BY <1>4, <1>5 DEF DockerInv

\* What the invariant says of the containers.
LEMMA DockerSound ==
  ASSUME DockerInv
  PROVE  Docker!ContainersAreTrue
<1>1. \A k \in Callers : call[k] # None => /\ call[k] \in CallRec(call[k].asked) /\ call[k].asked \subseteq Pair
                                           /\ Course(call[k]) /\ Knows(call[k], remote, excused)
  BY TheCall
<1>2. Docker!TypeOK
  <2>1. \A cs : CallRec(cs) = Docker!CallRecord(cs)
    BY DEF CallRec, Docker!CallRecord, Docker!Actions, Docker!Shown, Docker!Verdicts, Acts, Ends, Visible
  <2>2. /\ remote \in [Pair -> Docker!States \cup {"gone"}] /\ listed \in [Pair -> Docker!Shown \cup {None}]
        /\ loose \subseteq [action : Docker!Actions, c : Pair]
    BY DEF DockerInv, DockerTypes, Daemon, Docker!States, Visible, Docker!Shown, Acts, Docker!Actions
  <2>3. QED
    BY <1>1, <2>1, <2>2 DEF DockerInv, DockerTypes, Docker!TypeOK
<1>3. Docker!VerdictIsTrue
  BY <1>1 DEF Course, Docker!VerdictIsTrue
<1>4. Docker!EveryVerdict
  BY <1>1 DEF Course, Docker!EveryVerdict
<1>5. Docker!OfferedIsDone
  BY <1>1 DEF Knows, Docker!OfferedIsDone, Docker!Actions, Acts
<1>6. Docker!ListIsFresh
  BY DEF DockerInv, ListOk, True, Docker!ListIsFresh
<1>7. Docker!UnavailableAfterStop
  BY DEF DockerInv, LateOk, Docker!UnavailableAfterStop
<1>8. QED
  BY <1>2, <1>3, <1>4, <1>5, <1>6, <1>7 DEF Docker!ContainersAreTrue

\* THEOREM: the result of every container is what the daemon did, what the window offers is skipped
\* only if it changed or is paused, and without a call under way the list shows every container as
\* it is, but for those that others changed (batchContainerCommand, List, StopServer).
THEOREM ContainersTrue == Spec => []ContainersAreTrue
<1> DEFINE Inv == part = "containers" => DockerInv
<1>1. Init => Inv
  BY DockerInit DEF Init
<1>2. Inv /\ [Next]_vars => Inv'
  <2>1. [Next]_vars /\ part' = "containers" => part = "containers" /\ [Docker!Next]_(Docker!vars)
    <3>1. UNCHANGED vars => part' = part /\ UNCHANGED Docker!vars
      BY DEF vars, Docker!vars
    <3>2. Next /\ part' = "containers" => part = "containers" /\ Docker!Next
      BY DEF Next
    <3>3. QED
      BY <3>1, <3>2
  <2>2. QED
    BY <2>1, DockerStep
<1>3. Inv => ContainersAreTrue
  BY DockerSound DEF ContainersAreTrue
<1>4. QED
  BY <1>1, <1>2, <1>3, PTL DEF Spec

\* Of finitely many things with numbers one has the least.
LEMMA FirstOne ==
  ASSUME NEW S, IsFiniteSet(S), S # {}, NEW f, \A x \in S : f[x] \in Nat
  PROVE  \E x \in S : \A y \in S : f[x] <= f[y]
<1> DEFINE Below(x) == {u \in S : f[u] < f[x]}
           T == {Below(x) : x \in S}
<1>1. IsWellFoundedOn(StrictSubsetOrdering(S), SUBSET S)
  BY FS_StrictSubsetOrderingWellFounded, FS_FiniteSubsetsOfFinite
<1>2. T \subseteq SUBSET S /\ T # {}
  OBVIOUS
<1>3. PICK A \in T : \A B \in T : ~(<<B, A>> \in StrictSubsetOrdering(S))
  <2> HIDE DEF T
  <2>1. QED
    BY <1>1, <1>2, WFMin
<1>4. PICK x \in S : A = Below(x)
  BY <1>3
<1>5. ASSUME NEW y \in S, f[y] < f[x]
      PROVE  FALSE
  <2>1. Below(y) \subseteq Below(x) /\ y \in Below(x) /\ y \notin Below(y)
    BY <1>5
  <2>2. Below(y) \in T
    OBVIOUS
  <2>3. <<Below(y), Below(x)>> \in StrictSubsetOrdering(S)
    BY <2>1 DEF StrictSubsetOrdering
  <2>4. QED
    BY <1>3, <1>4, <2>2, <2>3
<1>6. QED
  BY <1>5

\* Of things with different numbers, at most `n` have fewer than `n` that are greater.
LEMMA FewAreLast ==
  ASSUME NEW S, IsFiniteSet(S), NEW f, \A x \in S : f[x] \in Nat,
         \A x, y \in S : f[x] = f[y] => x = y, NEW n \in Nat,
         NEW K, K \subseteq S, \A x \in K : Cardinality({y \in S : f[y] > f[x]}) < n
  PROVE  Cardinality(K) <= n
<1>1. IsFiniteSet(K) /\ Cardinality(K) \in Nat
  BY FS_Subset, FS_CardinalityType
<1>2. CASE K = {}
  BY <1>2, FS_EmptySet
<1>3. CASE K # {}
  <2>1. \A x \in K : f[x] \in Nat
    OBVIOUS
  <2>2. PICK x \in K : \A y \in K : f[x] <= f[y]
    BY <1>1, <1>3, <2>1, FirstOne
  <2> DEFINE G == {y \in S : f[y] > f[x]}
  <2>3. IsFiniteSet(G) /\ Cardinality(G) \in Nat /\ Cardinality(G) < n
    <3>1. G \subseteq S
      OBVIOUS
    <3>2. IsFiniteSet(G) /\ Cardinality(G) \in Nat
      BY <3>1, FS_Subset, FS_CardinalityType
    <3>3. QED
      BY <3>2
  <2>4. K \ {x} \subseteq G
    BY <2>2
  <2>5. Cardinality(K \ {x}) <= Cardinality(G)
    <3> HIDE DEF G
    <3>1. QED
      BY <2>3, <2>4, FS_Subset
  <2>6. Cardinality(K \ {x}) = Cardinality(K) - 1
    <3>1. Cardinality(K \ {x}) = IF x \in K THEN Cardinality(K) - 1 ELSE Cardinality(K)
      BY <1>1, FS_RemoveElement
    <3>2. QED
      BY <3>1
  <2> HIDE DEF G
  <2>7. QED
    BY <1>1, <2>3, <2>5, <2>6
<1>4. QED
  BY <1>2, <1>3

-----------------------------------------------------------------------------
\* The variables of AlertHistory.
entries == v1
view == v2
firing == v3
session == v4
opening == v5
pending == v7
raised == v8
clock == v9
limit == v10
peak == v11
seen == v12

USE DEF entries, view, firing, session, opening, pending, raised, clock, limit, peak, seen

AlertIds == 1..MaxAlerts
Moments == 1..2 * MaxAlerts
Past == {"resolved", "interrupted"}
Stored(S) == [state : {"firing"} \cup Past, session : 1..S, read : BOOLEAN, at : Moments]
OnView == [state : {"firing"} \cup Past, read : BOOLEAN, at : Moments]
Sizes(S, L) ==
  /\ S \in Nat \ {0} /\ 1 \in L /\ L \subseteq Nat \ {0}
  /\ None \notin Stored(S) /\ None \notin OnView

Concerns(p, a) == p.alert \in {0, a}
Writes(p, a) == p.kind = "persist" /\ p.alert = a

\* Every alert has at most two moments, so the clock stays within its bound.
CountOk(fr, ra, cl) ==
  /\ ra \in 0..MaxAlerts /\ cl \in Nat
  /\ fr \subseteq 1..ra /\ IsFiniteSet(fr) /\ cl + Cardinality(fr) <= 2 * ra
RowsOk(rs, se, S) ==
  /\ rs \in [AlertIds -> Stored(S) \cup {None}] /\ se \in 1..S
  /\ \A a \in AlertIds : rs[a] # None => rs[a].session <= se
ShownTypes(vw, ls, S) == vw \in [AlertIds -> OnView \cup {None}] /\ ls \in [AlertIds -> Stored(S) \cup {None}]
BoundsOk(li, pk, L) == li \in L /\ pk \in L /\ li <= pk
SentOk(pn, ra, cl, pk, L) ==
  \A p \in pn : p.kind = "persist" =>
    /\ p.alert \in 1..ra /\ p.state \in {"firing", "resolved"} /\ p.at \in 1..cl
    /\ p.limit \in L /\ p.limit <= pk

\* A moment belongs to one alert, in its row or in a call that will write it.
Stamp(rs, pn, a, t) ==
  \/ rs[a] # None /\ rs[a].at = t
  \/ \E p \in pn : Writes(p, a) /\ p.at = t
StampsOk(rs, pn, cl) ==
  \A a \in AlertIds : \A t \in Nat : Stamp(rs, pn, a, t) =>
    t <= cl /\ \A b \in AlertIds : Stamp(rs, pn, b, t) => a = b

EndedIn(rs) == {a \in AlertIds : rs[a] # None /\ rs[a].state \in Past}
EndedOk(rs, pk) == Cardinality(EndedIn(rs)) <= pk

\* An alert that fires is stored as such, or will be.
FiringOk(fr, rs, pn, se) ==
  \A a \in fr :
    /\ \/ rs[a] # None /\ rs[a].state = "firing" /\ rs[a].session = se
       \/ \E p \in pn : Writes(p, a)
    /\ \A p \in pn : Writes(p, a) => p.state = "firing"
OldOk(op, rs, se) ==
  op # "begin" => \A a \in AlertIds : rs[a] # None /\ rs[a].state = "firing" => rs[a].session = se
SeenAlerts(sn, rs) == \A a \in sn : a \in AlertIds /\ rs[a] # None /\ rs[a].read

\* Of an alert whose calls did not overlap one call at a time is under way, ...
SoloOk(pn, cr) ==
  \A a \in AlertIds \ cr : \A p, q \in pn : Concerns(p, a) /\ Concerns(q, a) => p = q
\* ... what it will write, or else the row, is what the window shows, ...
MatchOk(op, vw, rs, pn, cr) ==
  op = "done" => \A a \in AlertIds \ cr : vw[a] # None =>
    \/ \E p \in pn : Writes(p, a) /\ p.state = vw[a].state
    \/ (\A p \in pn : ~Writes(p, a)) /\ (rs[a] # None => rs[a].state = vw[a].state)
\* ... and it is idle while the window reads the rows.
QuietOk(op, pn, cr) == op = "merge" => \A a \in AlertIds \ cr : \A p \in pn : ~Concerns(p, a)
ReadOk(op, rs, ls, cr) ==
  op = "merge" => \A a \in AlertIds \ cr : rs[a] # None => ls[a] # None /\ ls[a].state = rs[a].state

AlertTypes(S, L) ==
  /\ CountOk(firing, raised, clock) /\ RowsOk(entries, session, S) /\ ShownTypes(view, listed, S)
  /\ BoundsOk(limit, peak, L) /\ SentOk(pending, raised, clock, peak, L)
  /\ opening \in {"begin", "list", "merge", "done"}
AlertInv(S, L) ==
  /\ AlertTypes(S, L)
  /\ StampsOk(entries, pending, clock) /\ EndedOk(entries, peak)
  /\ FiringOk(firing, entries, pending, session) /\ OldOk(opening, entries, session)
  /\ SeenAlerts(seen, entries)
  /\ SoloOk(pending, crossed) /\ MatchOk(opening, view, entries, pending, crossed)
  /\ QuietOk(opening, pending, crossed) /\ ReadOk(opening, entries, listed, crossed)

\* Rows of which some that ended were dropped and some marked as read.
Thin(rs, rt, S) ==
  /\ rt \in [AlertIds -> Stored(S) \cup {None}]
  /\ \A a \in AlertIds :
       /\ rt[a] # None => /\ rs[a] # None /\ rt[a].state = rs[a].state
                          /\ rt[a].session = rs[a].session /\ rt[a].at = rs[a].at
                          /\ rs[a].read => rt[a].read
       /\ rs[a] # None /\ rs[a].state = "firing" => rt[a] # None

\* What is said of rows holds of thinner ones.
LEMMA ThinRows ==
  ASSUME NEW S, NEW rs, NEW rt, Thin(rs, rt, S), NEW se, RowsOk(rs, se, S)
  PROVE  RowsOk(rt, se, S)
BY DEF Thin, RowsOk
\* Dropping and marking stamps nothing.
LEMMA ThinStamps ==
  ASSUME NEW S, NEW rs, NEW rt, Thin(rs, rt, S), NEW pn, NEW cl, StampsOk(rs, pn, cl)
  PROVE  StampsOk(rt, pn, cl)
<1>1. \A a \in AlertIds : \A t : Stamp(rt, pn, a, t) => Stamp(rs, pn, a, t)
  BY DEF Thin, Stamp
<1>2. QED
  BY <1>1 DEF StampsOk
\* No alert that fires is dropped.
LEMMA ThinFiring ==
  ASSUME NEW S, NEW rs, NEW rt, Thin(rs, rt, S), NEW pn, NEW fr, fr \subseteq AlertIds, NEW se, FiringOk(fr, rs, pn, se)
  PROVE  FiringOk(fr, rt, pn, se)
BY DEF Thin, FiringOk
\* No row fires that did not.
LEMMA ThinOld ==
  ASSUME NEW S, NEW rs, NEW rt, Thin(rs, rt, S), NEW op, NEW se, OldOk(op, rs, se)
  PROVE  OldOk(op, rt, se)
BY DEF Thin, OldOk
\* The states that the window shows stay those of the rows.
LEMMA ThinMatch ==
  ASSUME NEW S, NEW rs, NEW rt, Thin(rs, rt, S), NEW op, NEW vw, NEW pn, NEW cr, MatchOk(op, vw, rs, pn, cr)
  PROVE  MatchOk(op, vw, rt, pn, cr)
BY DEF Thin, MatchOk
\* An answer that is under way stays true of the rows.
LEMMA ThinRead ==
  ASSUME NEW S, NEW rs, NEW rt, Thin(rs, rt, S), NEW op, NEW ls, NEW cr, ReadOk(op, rs, ls, cr)
  PROVE  ReadOk(op, rt, ls, cr)
BY DEF Thin, ReadOk
\* Thinner rows of thinner rows.
LEMMA ThinTwice ==
  ASSUME NEW S, NEW rs, NEW rt, NEW ru, Thin(rs, rt, S), Thin(rt, ru, S)
  PROVE  Thin(rs, ru, S)
BY DEF Thin

\* A call that was executed and wrote nothing leaves what it does not concern.
LEMMA DoneStamps ==
  ASSUME NEW rs, NEW pn, NEW p \in pn, NEW cl, StampsOk(rs, pn, cl)
  PROVE  StampsOk(rs, pn \ {p}, cl)
<1>1. \A a \in AlertIds : \A t : Stamp(rs, pn \ {p}, a, t) => Stamp(rs, pn, a, t)
  BY DEF Stamp
<1>2. QED
  BY <1>1 DEF StampsOk
\* What is still to be written of an alert that fires was no work of this call.
LEMMA DoneFiring ==
  ASSUME NEW rs, NEW pn, NEW p \in pn, p.kind # "persist", NEW fr, NEW se, FiringOk(fr, rs, pn, se)
  PROVE  FiringOk(fr, rs, pn \ {p}, se)
<1>1. \A a : (\E q \in pn : Writes(q, a)) => \E q \in pn \ {p} : Writes(q, a)
  BY DEF Writes
<1>2. QED
  BY <1>1 DEF FiringOk
\* Nor was what the window shows.
LEMMA DoneMatch ==
  ASSUME NEW op, NEW vw, NEW rs, NEW cr, NEW pn, NEW p \in pn, p.kind # "persist", MatchOk(op, vw, rs, pn, cr)
  PROVE  MatchOk(op, vw, rs, pn \ {p}, cr)
<1>1. \A a, s : (\E q \in pn : Writes(q, a) /\ q.state = s) => \E q \in pn \ {p} : Writes(q, a) /\ q.state = s
  BY DEF Writes
<1>2. QED
  BY <1>1 DEF MatchOk
\* One call less overlaps nothing.
LEMMA DoneCalls ==
  ASSUME NEW pn, NEW p \in pn, NEW op, NEW cr
  PROVE  /\ SoloOk(pn, cr) => SoloOk(pn \ {p}, cr)
         /\ QuietOk(op, pn, cr) => QuietOk(op, pn \ {p}, cr)
BY DEF SoloOk, QuietOk
\* The calls that are left are as before.
LEMMA DoneSent ==
  ASSUME NEW pn, NEW p, NEW ra, NEW cl, NEW pk, NEW L, SentOk(pn, ra, cl, pk, L)
  PROVE  SentOk(pn \ {p}, ra, cl, pk, L)
BY DEF SentOk

\* A call that is sent marks what it overlaps.
Marks(op, pn, cr, c) ==
  cr \cup {a \in AlertIds : Concerns(c, a) /\ (op # "done" \/ \E p \in pn \ {c} : Concerns(p, a))}
\* Of what was not marked, the call is the only one.
LEMMA SendSolo ==
  ASSUME NEW op, NEW pn, NEW cr, NEW c, SoloOk(pn, cr)
  PROVE  SoloOk(pn \cup {c}, Marks(op, pn, cr, c))
<1> SUFFICES ASSUME NEW a \in AlertIds \ Marks(op, pn, cr, c), NEW p \in pn \cup {c}, NEW q \in pn \cup {c},
                    Concerns(p, a), Concerns(q, a)
             PROVE  p = q
  BY DEF SoloOk
<1>1. a \notin cr /\ (Concerns(c, a) => \A u \in pn \ {c} : ~Concerns(u, a))
  BY DEF Marks
<1>2. QED
  BY <1>1 DEF SoloOk
\* While the window reads the rows every call marks what it concerns.
LEMMA SendQuiet ==
  ASSUME NEW op, NEW pn, NEW cr, NEW c, QuietOk(op, pn, cr)
  PROVE  QuietOk(op, pn \cup {c}, Marks(op, pn, cr, c))
<1> SUFFICES ASSUME op = "merge", NEW a \in AlertIds \ Marks(op, pn, cr, c), NEW p \in pn \cup {c}
             PROVE  ~Concerns(p, a)
  BY DEF QuietOk
<1>1. a \notin cr /\ ~Concerns(c, a)
  BY DEF Marks
<1>2. QED
  BY <1>1 DEF QuietOk
\* A marked alert may differ.
LEMMA SendRead ==
  ASSUME NEW op, NEW pn, NEW cr, NEW c, NEW rs, NEW ls, ReadOk(op, rs, ls, cr)
  PROVE  ReadOk(op, rs, ls, Marks(op, pn, cr, c))
BY DEF ReadOk, Marks
\* One that writes nothing leaves what is written.
LEMMA SendStamps ==
  ASSUME NEW rs, NEW pn, NEW c, c.kind # "persist", NEW cl, StampsOk(rs, pn, cl)
  PROVE  StampsOk(rs, pn \cup {c}, cl)
<1>1. \A a \in AlertIds : \A t : Stamp(rs, pn \cup {c}, a, t) => Stamp(rs, pn, a, t)
  BY DEF Stamp, Writes
<1>2. QED
  BY <1>1 DEF StampsOk
\* An alert that fires stays so.
LEMMA SendFiring ==
  ASSUME NEW rs, NEW pn, NEW c, c.kind # "persist", NEW fr, NEW se, FiringOk(fr, rs, pn, se)
  PROVE  FiringOk(fr, rs, pn \cup {c}, se)
BY DEF FiringOk, Writes
\* The calls that write are as before.
LEMMA SendSent ==
  ASSUME NEW pn, NEW c, c.kind # "persist", NEW ra, NEW cl, NEW pk, NEW L, SentOk(pn, ra, cl, pk, L)
  PROVE  SentOk(pn \cup {c}, ra, cl, pk, L)
BY DEF SentOk
\* What is to be written is shown, as before.
LEMMA SendMatch ==
  ASSUME NEW op, NEW vw, NEW rs, NEW cr, NEW pn, NEW c, c.kind # "persist", MatchOk(op, vw, rs, pn, cr)
  PROVE  MatchOk(op, vw, rs, pn \cup {c}, Marks(op, pn, cr, c))
BY DEF MatchOk, Writes, Marks

\* What the window drops, or marks as read, it does not show otherwise.
Dimmed(vw, vx) ==
  /\ vx \in [AlertIds -> OnView \cup {None}]
  /\ \A a \in AlertIds : vx[a] # None => vw[a] # None /\ vx[a].state = vw[a].state
\* Showing less of what is stored leaves the rest true.
LEMMA DimMatch ==
  ASSUME NEW op, NEW vw, NEW vx, Dimmed(vw, vx), NEW rs, NEW pn, NEW cr, MatchOk(op, vw, rs, pn, cr)
  PROVE  MatchOk(op, vx, rs, pn, cr)
BY DEF MatchOk, Dimmed

\* A call that writes a new moment of an alert.
LEMMA WriteStamps ==
  ASSUME NEW rs, NEW pn, NEW c, NEW cl \in Nat, StampsOk(rs, pn, cl),
         c.kind = "persist", c.alert \in AlertIds, c.at = cl + 1
  PROVE  StampsOk(rs, pn \cup {c}, cl + 1)
<1>1. \A a \in AlertIds : \A t \in Nat :
        Stamp(rs, pn \cup {c}, a, t) <=> (Stamp(rs, pn, a, t) \/ (a = c.alert /\ t = cl + 1))
  BY DEF Stamp, Writes
<1>2. \A a \in AlertIds : ~Stamp(rs, pn, a, cl + 1)
  BY DEF StampsOk
<1> SUFFICES ASSUME NEW a \in AlertIds, NEW t \in Nat, Stamp(rs, pn \cup {c}, a, t)
             PROVE  t <= cl + 1 /\ \A b \in AlertIds : Stamp(rs, pn \cup {c}, b, t) => a = b
  BY DEF StampsOk
<1>3. CASE t = cl + 1
  <2>1. \A b \in AlertIds : Stamp(rs, pn \cup {c}, b, t) => b = c.alert
    BY <1>1, <1>2, <1>3
  <2>2. QED
    BY <1>3, <2>1
<1>4. CASE t # cl + 1
  <2>1. Stamp(rs, pn, a, t) /\ \A b \in AlertIds : Stamp(rs, pn \cup {c}, b, t) => Stamp(rs, pn, b, t)
    BY <1>1, <1>4
  <2>2. t <= cl /\ \A b \in AlertIds : Stamp(rs, pn, b, t) => a = b
    BY <2>1 DEF StampsOk
  <2>3. QED
    BY <2>1, <2>2
<1>5. QED
  BY <1>3, <1>4

\* Rows after the call `p` has written its own.
Stores(rs, rt, p, se, S) ==
  /\ p.kind = "persist" /\ p.alert \in AlertIds
  /\ rt \in [AlertIds -> Stored(S) \cup {None}]
  /\ \A a \in AlertIds : a # p.alert => rt[a] = rs[a]
  /\ rt[p.alert] # None /\ rt[p.alert].state = p.state /\ rt[p.alert].session = se /\ rt[p.alert].at = p.at
  /\ rs[p.alert] # None /\ rs[p.alert].read => rt[p.alert].read

\* The row that is written is of this session.
LEMMA StoresRows ==
  ASSUME NEW rs, NEW rt, NEW p, NEW se \in Nat, NEW S, Stores(rs, rt, p, se, S), RowsOk(rs, se, S)
  PROVE  RowsOk(rt, se, S)
BY DEF Stores, RowsOk
\* It takes the moment of the call.
LEMMA StoresStamps ==
  ASSUME NEW rs, NEW rt, NEW pn, NEW p \in pn, NEW se, NEW S, Stores(rs, rt, p, se, S), NEW cl, StampsOk(rs, pn, cl)
  PROVE  StampsOk(rt, pn \ {p}, cl)
<1>1. \A a \in AlertIds : \A t : Stamp(rt, pn \ {p}, a, t) => Stamp(rs, pn, a, t)
  <2> SUFFICES ASSUME NEW a \in AlertIds, NEW t, Stamp(rt, pn \ {p}, a, t)
               PROVE  Stamp(rs, pn, a, t)
    OBVIOUS
  <2>1. CASE a = p.alert
    BY <2>1 DEF Stores, Stamp, Writes
  <2>2. CASE a # p.alert
    BY <2>2 DEF Stores, Stamp
  <2>3. QED
    BY <2>1, <2>2
<1>2. QED
  BY <1>1 DEF StampsOk
\* An alert that fires has its row by that call, if it had none.
LEMMA StoresFiring ==
  ASSUME NEW rs, NEW rt, NEW pn, NEW p \in pn, NEW se, NEW S, Stores(rs, rt, p, se, S),
         NEW fr, fr \subseteq AlertIds, FiringOk(fr, rs, pn, se)
  PROVE  FiringOk(fr, rt, pn \ {p}, se)
<1> SUFFICES ASSUME NEW a \in fr
             PROVE  /\ \/ rt[a] # None /\ rt[a].state = "firing" /\ rt[a].session = se
                       \/ \E q \in pn \ {p} : Writes(q, a)
                    /\ \A q \in pn \ {p} : Writes(q, a) => q.state = "firing"
  BY DEF FiringOk
<1>1. CASE a = p.alert
  BY <1>1 DEF Stores, FiringOk, Writes
<1>2. CASE a # p.alert
  <2>1. rt[a] = rs[a] /\ ~Writes(p, a)
    BY <1>2 DEF Stores, Writes
  <2>2. QED
    BY <2>1 DEF FiringOk
<1>3. QED
  BY <1>1, <1>2
\* A row of this session is not old.
LEMMA StoresOld ==
  ASSUME NEW rs, NEW rt, NEW p, NEW se, NEW S, Stores(rs, rt, p, se, S), NEW op, OldOk(op, rs, se)
  PROVE  OldOk(op, rt, se)
BY DEF Stores, OldOk
\* It has the state that the window shows.
LEMMA StoresMatch ==
  ASSUME NEW rs, NEW rt, NEW pn, NEW p \in pn, NEW se, NEW S, Stores(rs, rt, p, se, S), 0 \notin AlertIds,
         NEW op, NEW vw, NEW cr, SoloOk(pn, cr), MatchOk(op, vw, rs, pn, cr)
  PROVE  MatchOk(op, vw, rt, pn \ {p}, cr)
<1> SUFFICES ASSUME op = "done", NEW a \in AlertIds \ cr, vw[a] # None
             PROVE  \/ \E q \in pn \ {p} : Writes(q, a) /\ q.state = vw[a].state
                    \/ (\A q \in pn \ {p} : ~Writes(q, a)) /\ (rt[a] # None => rt[a].state = vw[a].state)
  BY DEF MatchOk
<1>1. CASE a = p.alert
  <2>1. Writes(p, a) /\ \A q \in pn : Writes(q, a) => q = p
    BY <1>1 DEF SoloOk, Writes, Concerns, Stores
  <2>2. p.state = vw[a].state
    BY <2>1 DEF MatchOk
  <2>3. QED
    BY <1>1, <2>1, <2>2 DEF Stores
<1>2. CASE a # p.alert
  <2>1. rt[a] = rs[a] /\ ~Writes(p, a)
    BY <1>2 DEF Stores, Writes
  <2>2. QED
    BY <2>1 DEF MatchOk
<1>3. QED
  BY <1>1, <1>2
\* While the window reads the rows, the call concerns a marked alert.
LEMMA StoresRead ==
  ASSUME NEW rs, NEW rt, NEW pn, NEW p \in pn, NEW se, NEW S, Stores(rs, rt, p, se, S),
         NEW op, NEW ls, NEW cr, QuietOk(op, pn, cr), ReadOk(op, rs, ls, cr)
  PROVE  ReadOk(op, rt, ls, cr)
<1>1. op = "merge" => p.alert \in cr
  BY DEF Stores, QuietOk, Concerns
<1>2. QED
  BY <1>1 DEF Stores, ReadOk

\* What the component counts and what it calls the last alerts.
LEMMA SameAlertCount ==
  ASSUME NEW CONSTANT S, NEW CONSTANT W, NEW CONSTANT L, NEW T
  PROVE  Alerts(S, W, L)!Cardinality(T) = Cardinality(T)
BY DEF Alerts!Cardinality, Cardinality, Alerts!IsFiniteSet, IsFiniteSet
\* There are finitely many alerts, and 0 names all of them.
LEMMA AlertsFinite == IsFiniteSet(AlertIds) /\ 0 \notin AlertIds /\ AlertIds \subseteq Nat
<1>1. MaxAlerts \in Nat
  BY AlertBounds
<1>2. \A i, j \in Int : IsFiniteSet(i..j)
  BY FS_Interval
<1>3. 1 \in Int /\ MaxAlerts \in Int
  BY <1>1
<1>4. IsFiniteSet(1..MaxAlerts)
  BY <1>2, <1>3, Zenon
<1>5. QED
  BY <1>1, <1>4 DEF AlertIds

\* pruneAlertHistory drops what ended only, and keeps at most `n` of that.
LEMMA PruneRows ==
  ASSUME NEW CONSTANT S, NEW CONSTANT W, NEW CONSTANT L, NEW rs, NEW rt, NEW n,
         rs \in [AlertIds -> Stored(S) \cup {None}],
         rt = Alerts(S, W, L)!pruneAlertHistory(rs, n)
  PROVE  /\ Thin(rs, rt, S)
         /\ \A a \in EndedIn(rt) : a \in EndedIn(rs) /\ ~(Cardinality({b \in EndedIn(rs) : rs[b].at > rs[a].at}) >= n)
<1> DEFINE E == Alerts(S, W, L)!EndedOf(rs)
           C(a) == Alerts(S, W, L)!Cardinality({b \in E : rs[b].at > rs[a].at})
<1>1. E = EndedIn(rs)
  BY DEF Alerts!EndedOf, Alerts!Alerts, Alerts!Ended, EndedIn, AlertIds, Past
<1>2. rt = [a \in AlertIds |-> IF a \in E /\ C(a) >= n THEN None ELSE rs[a]]
  BY DEF Alerts!pruneAlertHistory, Alerts!Alerts, AlertIds
<1>3. \A a : C(a) = Cardinality({b \in EndedIn(rs) : rs[b].at > rs[a].at})
  <2> HIDE DEF E
  <2>1. QED
    BY <1>1, SameAlertCount
<1> HIDE DEF C, E
<1>4. Thin(rs, rt, S)
  BY <1>1, <1>2 DEF Thin, EndedIn, Past
<1>5. \A a \in EndedIn(rt) : a \in EndedIn(rs) /\ ~(C(a) >= n)
  BY <1>1, <1>2 DEF EndedIn
<1>6. QED
  BY <1>3, <1>4, <1>5

\* It keeps within any bound of `n`, because no two alerts have the same moment.
LEMMA PruneEnded ==
  ASSUME NEW CONSTANT S, NEW CONSTANT W, NEW CONSTANT L, NEW rs, NEW rt, NEW n \in Nat,
         rs \in [AlertIds -> Stored(S) \cup {None}], None \notin Stored(S),
         rt = Alerts(S, W, L)!pruneAlertHistory(rs, n),
         NEW pn, NEW cl, StampsOk(rs, pn, cl), NEW pk \in Nat, n <= pk
  PROVE  EndedOk(rt, pk)
<1> DEFINE E == EndedIn(rs)
           K == EndedIn(rt)
           f == [a \in E |-> rs[a].at]
<1>1. \A a \in K : a \in E /\ ~(Cardinality({b \in E : rs[b].at > rs[a].at}) >= n)
  BY PruneRows
<1>2. \A a \in E : f[a] \in Nat
  BY AlertBounds DEF EndedIn, Stored, Moments
<1>3. \A a, b \in E : f[a] = f[b] => a = b
  <2> SUFFICES ASSUME NEW a \in E, NEW b \in E, f[a] = f[b]
               PROVE  a = b
    OBVIOUS
  <2>1. a \in AlertIds /\ b \in AlertIds /\ Stamp(rs, pn, a, f[a]) /\ Stamp(rs, pn, b, f[a])
    BY DEF EndedIn, Stamp
  <2>2. QED
    BY <1>2, <2>1 DEF StampsOk
<1>4. IsFiniteSet(E) /\ K \subseteq E
  <2>1. E \subseteq AlertIds
    BY DEF EndedIn
  <2>2. QED
    BY <1>1, <2>1, AlertsFinite, FS_Subset
<1>5. \A a \in K : Cardinality({b \in E : f[b] > f[a]}) < n
  <2> SUFFICES ASSUME NEW a \in K
               PROVE  Cardinality({b \in E : f[b] > f[a]}) < n
    OBVIOUS
  <2> DEFINE G == {b \in E : rs[b].at > rs[a].at}
  <2>1. G = {b \in E : f[b] > f[a]}
    BY <1>1
  <2>2. ~(Cardinality(G) >= n)
    BY <1>1
  <2>3. IsFiniteSet(G) /\ Cardinality(G) \in Nat
    <3>1. G \subseteq E
      OBVIOUS
    <3>2. QED
      BY <1>4, <3>1, FS_Subset, FS_CardinalityType
  <2>4. Cardinality(G) < n
    <3> HIDE DEF G
    <3>1. QED
      BY <2>2, <2>3
  <2>5. QED
    BY <2>1, <2>4
<1>6. Cardinality(K) <= n /\ Cardinality(K) \in Nat
  <2> HIDE DEF E, K, f
  <2>1. Cardinality(K) <= n
    BY <1>2, <1>3, <1>4, <1>5, FewAreLast
  <2>2. QED
    BY <1>4, <2>1, FS_Subset, FS_CardinalityType
<1>7. QED
  BY <1>6 DEF EndedOk

\* trimResolvedHistory only drops alerts.
LEMMA TrimView ==
  ASSUME NEW CONSTANT S, NEW CONSTANT W, NEW CONSTANT L, NEW v, NEW vx, NEW n,
         v \in [AlertIds -> OnView \cup {None}], vx = Alerts(S, W, L)!Trimmed(v, n)
  PROVE  Dimmed(v, vx)
<1>1. /\ DOMAIN vx = AlertIds /\ vx = [a \in AlertIds |-> vx[a]]
      /\ \A a \in AlertIds : vx[a] = None \/ vx[a] = v[a]
  BY Zenon DEF Alerts!Trimmed, Alerts!Alerts, AlertIds
<1>2. QED
  BY <1>1 DEF Dimmed

\* A call that the window sends for what it marks as read or clears.
LEMMA NoteKeeps ==
  ASSUME NEW CONSTANT S, NEW CONSTANT L, AlertInv(S, L), NEW CONSTANT c, c.kind # "persist",
         pending' = pending \cup {c}, crossed' = Marks(opening, pending, crossed, c), Dimmed(view, view'),
         UNCHANGED <<entries, firing, session, opening, listed, raised, clock, limit, peak, seen>>
  PROVE  AlertInv(S, L)'
<1>1. AlertTypes(S, L)'
  <2>1. SentOk(pending', raised', clock', peak', L)
    BY SendSent DEF AlertInv, AlertTypes
  <2>2. ShownTypes(view', listed', S)
    BY DEF AlertInv, AlertTypes, ShownTypes, Dimmed
  <2>3. QED
    BY <2>1, <2>2 DEF AlertInv, AlertTypes
<1>2. StampsOk(entries', pending', clock') /\ FiringOk(firing', entries', pending', session')
  BY SendStamps, SendFiring DEF AlertInv
<1>3. SoloOk(pending', crossed') /\ QuietOk(opening', pending', crossed') /\ ReadOk(opening', entries', listed', crossed')
  BY SendSolo, SendQuiet, SendRead DEF AlertInv
<1>4. MatchOk(opening', view', entries', pending', crossed')
  <2>1. MatchOk(opening, view, entries, pending', crossed')
    BY SendMatch DEF AlertInv
  <2>2. QED
    BY <2>1, DimMatch
<1>5. EndedOk(entries', peak') /\ OldOk(opening', entries', session') /\ SeenAlerts(seen', entries')
  BY DEF AlertInv
<1>6. QED
  BY <1>1, <1>2, <1>3, <1>4, <1>5 DEF AlertInv

\* MarkRead, MarkAllRead and ClearResolved.
LEMMA AsksKeep ==
  ASSUME NEW CONSTANT S, NEW CONSTANT W, NEW CONSTANT L, Sizes(S, L), AlertInv(S, L),
         \/ \E a \in AlertIds : Alerts(S, W, L)!MarkRead(a)
         \/ Alerts(S, W, L)!MarkAllRead \/ Alerts(S, W, L)!ClearResolved
  PROVE  AlertInv(S, L)'
<1>0. view \in [AlertIds -> OnView \cup {None}] /\ None \notin OnView
  BY DEF AlertInv, AlertTypes, ShownTypes, Sizes
<1>1. ASSUME NEW a \in AlertIds, Alerts(S, W, L)!MarkRead(a)
      PROVE  AlertInv(S, L)'
  <2> DEFINE c == Alerts(S, W, L)!Call("read", a)
  <2>1. c.kind = "read"
    BY DEF Alerts!Call
  <2> HIDE DEF c
  <2>2. pending' = pending \cup {c} /\ crossed' = Marks(opening, pending, crossed, c)
    BY <1>1 DEF c, Alerts!MarkRead, Alerts!Send, Alerts!Touches, Marks, Concerns, Alerts!Alerts, AlertIds
  <2>3. UNCHANGED <<entries, firing, session, opening, listed, raised, clock, limit, peak, seen>>
    BY <1>1 DEF Alerts!MarkRead
  <2>4. Dimmed(view, view')
    <3>1. view[a] # None /\ view' = [view EXCEPT ![a] = [view[a] EXCEPT !.read = TRUE]]
      BY <1>1 DEF Alerts!MarkRead
    <3> DEFINE r == [view[a] EXCEPT !.read = TRUE]
    <3>2. r \in OnView /\ r.state = view[a].state
      BY <1>0, <3>1 DEF OnView
    <3> HIDE DEF r
    <3>3. view' = [view EXCEPT ![a] = r]
      BY <3>1 DEF r
    <3>4. QED
      BY <1>0, <3>1, <3>2, <3>3 DEF Dimmed
  <2>5. QED
    BY <2>1, <2>2, <2>3, <2>4, NoteKeeps
<1>2. ASSUME Alerts(S, W, L)!MarkAllRead
      PROVE  AlertInv(S, L)'
  <2> DEFINE c == Alerts(S, W, L)!Call("readAll", 0)
  <2>1. c.kind = "readAll"
    BY DEF Alerts!Call
  <2> HIDE DEF c
  <2>2. pending' = pending \cup {c} /\ crossed' = Marks(opening, pending, crossed, c)
    BY <1>2 DEF c, Alerts!MarkAllRead, Alerts!Send, Alerts!Touches, Marks, Concerns, Alerts!Alerts, AlertIds
  <2>3. UNCHANGED <<entries, firing, session, opening, listed, raised, clock, limit, peak, seen>>
    BY <1>2 DEF Alerts!MarkAllRead
  <2>4. Dimmed(view, view')
    <3>1. view' = [a \in AlertIds |-> IF view[a] = None THEN None ELSE [view[a] EXCEPT !.read = TRUE]]
      BY <1>2 DEF Alerts!MarkAllRead, Alerts!Alerts, AlertIds
    <3>2. \A r \in OnView : [r EXCEPT !.read = TRUE] \in OnView /\ [r EXCEPT !.read = TRUE].state = r.state
      BY DEF OnView
    <3>3. QED
      BY <1>0, <3>1, <3>2 DEF Dimmed
  <2>5. QED
    BY <2>1, <2>2, <2>3, <2>4, NoteKeeps
<1>3. ASSUME Alerts(S, W, L)!ClearResolved
      PROVE  AlertInv(S, L)'
  <2> DEFINE c == Alerts(S, W, L)!Call("clear", 0)
  <2>1. c.kind = "clear"
    BY DEF Alerts!Call
  <2> HIDE DEF c
  <2>2. pending' = pending \cup {c} /\ crossed' = Marks(opening, pending, crossed, c)
    BY <1>3 DEF c, Alerts!ClearResolved, Alerts!Send, Alerts!Touches, Marks, Concerns, Alerts!Alerts, AlertIds
  <2>3. UNCHANGED <<entries, firing, session, opening, listed, raised, clock, limit, peak, seen>>
    BY <1>3 DEF Alerts!ClearResolved
  <2>4. Dimmed(view, view')
    <3>1. view' = [a \in AlertIds |-> IF view[a] # None /\ view[a].state = "firing" THEN view[a] ELSE None]
      BY <1>3 DEF Alerts!ClearResolved, Alerts!Alerts, AlertIds
    <3>2. QED
      BY <1>0, <3>1 DEF Dimmed
  <2>5. QED
    BY <2>1, <2>2, <2>3, <2>4, NoteKeeps
<1>4. QED
  BY <1>1, <1>2, <1>3

\* A call that writes an alert, and what the window shows of that since.
LEMMA WriteMatch ==
  ASSUME NEW op, NEW vw, NEW vx, NEW rs, NEW pn, NEW cr, MatchOk(op, vw, rs, pn, cr),
         NEW c, c.kind = "persist",
         \A a \in AlertIds : vx[a] # None =>
           IF a = c.alert THEN vx[a].state = c.state ELSE vw[a] # None /\ vx[a].state = vw[a].state
  PROVE  MatchOk(op, vx, rs, pn \cup {c}, Marks(op, pn, cr, c))
<1> SUFFICES ASSUME op = "done", NEW a \in AlertIds \ cr, vx[a] # None
             PROVE  \/ \E q \in pn \cup {c} : Writes(q, a) /\ q.state = vx[a].state
                    \/ (\A q \in pn \cup {c} : ~Writes(q, a)) /\ (rs[a] # None => rs[a].state = vx[a].state)
  BY DEF MatchOk, Marks
<1>1. CASE a = c.alert
  BY <1>1 DEF Writes
<1>2. CASE a # c.alert
  <2>1. ~Writes(c, a) /\ vw[a] # None /\ vx[a].state = vw[a].state
    BY <1>2 DEF Writes
  <2>2. QED
    BY <2>1 DEF MatchOk
<1>3. QED
  BY <1>1, <1>2

\* The evaluator raises an alert.
LEMMA FireKeeps ==
  ASSUME NEW CONSTANT S, NEW CONSTANT W, NEW CONSTANT L, Sizes(S, L), AlertInv(S, L), Alerts(S, W, L)!Fire
  PROVE  AlertInv(S, L)'
<1> DEFINE b == raised + 1
           t == clock + 1
           c == Alerts(S, W, L)!Persist(b, "firing", t)
           e == [state |-> "firing", read |-> FALSE, at |-> t]
<1>1. /\ CountOk(firing, raised, clock) /\ ShownTypes(view, listed, S) /\ SentOk(pending, raised, clock, peak, L)
      /\ BoundsOk(limit, peak, L) /\ MaxAlerts \in Nat
  BY AlertBounds DEF AlertInv, AlertTypes
<1>2. raised < MaxAlerts /\ raised' = b /\ clock' = t /\ firing' = firing \cup {b} /\ view' = [view EXCEPT ![b] = e]
  BY DEF Alerts!Fire
<1>3. UNCHANGED <<entries, session, opening, listed, limit, peak, seen>>
  BY DEF Alerts!Fire
<1>4. pending' = pending \cup {c} /\ crossed' = Marks(opening, pending, crossed, c)
  BY DEF Alerts!Fire, Alerts!Send, Alerts!Touches, Marks, Concerns, Alerts!Alerts, AlertIds
<1>5. c.kind = "persist" /\ c.alert = b /\ c.state = "firing" /\ c.at = t /\ c.limit = limit
  BY DEF Alerts!Persist
<1> HIDE DEF c
<1>6. CountOk(firing', raised', clock') /\ b \in AlertIds /\ t \in Moments
  <2>1. b \notin firing /\ IsFiniteSet(firing) /\ raised \in Nat /\ firing \subseteq 1..raised
    BY <1>1 DEF CountOk
  <2>2. IsFiniteSet(firing \cup {b}) /\ Cardinality(firing \cup {b}) = Cardinality(firing) + 1
    <3>1. /\ IsFiniteSet(firing \cup {b})
          /\ Cardinality(firing \cup {b}) = IF b \in firing THEN Cardinality(firing) ELSE Cardinality(firing) + 1
      BY <2>1, FS_AddElement
    <3>2. QED
      BY <2>1, <3>1
  <2>3. Cardinality(firing) \in Nat
    BY <2>1, FS_CardinalityType
  <2>4. firing \cup {b} \subseteq 1..b
    BY <2>1
  <2> HIDE DEF b, t
  <2>5. b = raised + 1 /\ t = clock + 1
    BY DEF b, t
  <2>6. QED
    BY <1>1, <1>2, <2>2, <2>3, <2>4, <2>5 DEF CountOk, AlertIds, Moments
<1>7. e \in OnView /\ e.state = "firing"
  BY <1>6 DEF OnView
<1> HIDE DEF e
<1>8. ShownTypes(view', listed', S)
  BY <1>1, <1>2, <1>3, <1>7 DEF ShownTypes
<1>9. SentOk(pending', raised', clock', peak', L)
  BY <1>1, <1>2, <1>3, <1>4, <1>5 DEF SentOk, CountOk, BoundsOk
<1>10. AlertTypes(S, L)'
  BY <1>3, <1>6, <1>8, <1>9 DEF AlertInv, AlertTypes
<1>11. StampsOk(entries', pending', clock')
  BY <1>1, <1>2, <1>3, <1>4, <1>5, <1>6, WriteStamps DEF AlertInv, CountOk
<1>12. FiringOk(firing', entries', pending', session')
  <2>1. \A p \in pending : ~Writes(p, b)
    BY <1>1 DEF SentOk, Writes, CountOk
  <2>2. \A a \in firing : a # b /\ ~Writes(c, a)
    BY <1>1, <1>5 DEF CountOk, Writes
  <2>3. Writes(c, b)
    BY <1>5 DEF Writes
  <2> HIDE DEF b
  <2>4. FiringOk(firing, entries, pending, session)
    BY DEF AlertInv
  <2>5. QED
    BY <1>2, <1>3, <1>4, <1>5, <2>1, <2>2, <2>3, <2>4 DEF FiringOk
<1>13. SoloOk(pending', crossed') /\ QuietOk(opening', pending', crossed') /\ ReadOk(opening', entries', listed', crossed')
  BY <1>3, <1>4, SendSolo, SendQuiet, SendRead DEF AlertInv
<1>14. MatchOk(opening', view', entries', pending', crossed')
  <2>1. \A a \in AlertIds : view'[a] = IF a = b THEN e ELSE view[a]
    BY <1>1, <1>2 DEF ShownTypes
  <2>2. MatchOk(opening, view, entries, pending, crossed)
    BY DEF AlertInv
  <2> HIDE DEF b
  <2>3. QED
    BY <1>3, <1>4, <1>5, <1>7, <2>1, <2>2, WriteMatch
<1>15. EndedOk(entries', peak') /\ OldOk(opening', entries', session') /\ SeenAlerts(seen', entries')
  BY <1>3 DEF AlertInv
<1>16. QED
  BY <1>10, <1>11, <1>12, <1>13, <1>14, <1>15 DEF AlertInv

\* One that fires no more leaves a moment for its recovery.
LEMMA CountDown ==
  ASSUME NEW fr, NEW ra, NEW cl, CountOk(fr, ra, cl), NEW a \in fr
  PROVE  /\ CountOk(fr \ {a}, ra, cl) /\ CountOk(fr \ {a}, ra, cl + 1)
         /\ cl + 1 \in Moments /\ a \in AlertIds
<1>1. /\ IsFiniteSet(fr) /\ Cardinality(fr) \in Nat /\ IsFiniteSet(fr \ {a}) /\ Cardinality(fr \ {a}) \in Nat
  BY FS_CardinalityType, FS_RemoveElement DEF CountOk
<1>2. Cardinality(fr \ {a}) = Cardinality(fr) - 1
  <2>1. Cardinality(fr \ {a}) = IF a \in fr THEN Cardinality(fr) - 1 ELSE Cardinality(fr)
    BY <1>1, FS_RemoveElement
  <2>2. QED
    BY <2>1
<1>3. QED
  BY <1>1, <1>2, AlertBounds DEF CountOk, Moments, AlertIds

\* An alert recovers, and the window hears of it.
LEMMA ResolveKeeps ==
  ASSUME NEW CONSTANT S, NEW CONSTANT W, NEW CONSTANT L, Sizes(S, L), AlertInv(S, L),
         NEW CONSTANT b, Alerts(S, W, L)!Resolve(b, TRUE)
  PROVE  AlertInv(S, L)'
<1> DEFINE t == clock + 1
           c == Alerts(S, W, L)!Persist(b, "resolved", t)
           e == [state |-> "resolved", read |-> FALSE, at |-> t]
           w == [view EXCEPT ![b] = e]
<1>1. /\ CountOk(firing, raised, clock) /\ ShownTypes(view, listed, S) /\ SentOk(pending, raised, clock, peak, L)
      /\ BoundsOk(limit, peak, L)
  BY DEF AlertInv, AlertTypes
<1>2. b \in firing /\ clock' = t /\ firing' = firing \ {b} /\ view' = Alerts(S, W, L)!Trimmed(w, limit)
  BY DEF Alerts!Resolve
<1>3. UNCHANGED <<entries, session, opening, listed, raised, limit, peak, seen>>
  BY DEF Alerts!Resolve
<1>4. pending' = pending \cup {c} /\ crossed' = Marks(opening, pending, crossed, c)
  BY DEF Alerts!Resolve, Alerts!Send, Alerts!Touches, Marks, Concerns, Alerts!Alerts, AlertIds
<1>5. c.kind = "persist" /\ c.alert = b /\ c.state = "resolved" /\ c.at = t /\ c.limit = limit
  BY DEF Alerts!Persist
<1> HIDE DEF c
<1>6. CountOk(firing', raised', clock') /\ b \in AlertIds /\ t \in Moments
  BY <1>1, <1>2, <1>3, CountDown
<1>7. e \in OnView /\ e.state = "resolved"
  BY <1>6 DEF OnView, Past
<1> HIDE DEF e
<1>8. w \in [AlertIds -> OnView \cup {None}] /\ \A a \in AlertIds : w[a] = IF a = b THEN e ELSE view[a]
  BY <1>1, <1>6, <1>7 DEF ShownTypes
<1> HIDE DEF w
<1>9. Dimmed(w, view')
  BY <1>2, <1>8, TrimView
<1>10. ShownTypes(view', listed', S)
  BY <1>1, <1>3, <1>9 DEF ShownTypes, Dimmed
<1>11. SentOk(pending', raised', clock', peak', L)
  BY <1>1, <1>2, <1>3, <1>4, <1>5 DEF SentOk, CountOk, BoundsOk
<1>12. AlertTypes(S, L)'
  BY <1>3, <1>6, <1>10, <1>11 DEF AlertInv, AlertTypes
<1>13. StampsOk(entries', pending', clock')
  BY <1>1, <1>2, <1>3, <1>4, <1>5, <1>6, WriteStamps DEF AlertInv, CountOk
<1>14. FiringOk(firing', entries', pending', session')
  <2>1. \A a \in firing \ {b} : ~Writes(c, a)
    BY <1>5 DEF Writes
  <2>2. FiringOk(firing, entries, pending, session)
    BY DEF AlertInv
  <2>3. QED
    BY <1>2, <1>3, <1>4, <2>1, <2>2 DEF FiringOk
<1>15. SoloOk(pending', crossed') /\ QuietOk(opening', pending', crossed') /\ ReadOk(opening', entries', listed', crossed')
  BY <1>3, <1>4, SendSolo, SendQuiet, SendRead DEF AlertInv
<1>16. MatchOk(opening', view', entries', pending', crossed')
  <2>1. MatchOk(opening, view, entries, pending, crossed)
    BY DEF AlertInv
  <2>2. MatchOk(opening', w, entries', pending', crossed')
    BY <1>3, <1>4, <1>5, <1>7, <1>8, <2>1, WriteMatch
  <2>3. QED
    BY <1>9, <2>2, DimMatch
<1>17. EndedOk(entries', peak') /\ OldOk(opening', entries', session') /\ SeenAlerts(seen', entries')
  BY <1>3 DEF AlertInv
<1>18. QED
  BY <1>12, <1>13, <1>14, <1>15, <1>16, <1>17 DEF AlertInv

\* One recovers unheard, or its server is deleted.
LEMMA QuietKeeps ==
  ASSUME NEW CONSTANT S, NEW CONSTANT W, NEW CONSTANT L, Sizes(S, L), AlertInv(S, L),
         NEW CONSTANT b, Alerts(S, W, L)!Resolve(b, FALSE) \/ Alerts(S, W, L)!RemoveServer(b)
  PROVE  AlertInv(S, L)'
<1>1. CountOk(firing, raised, clock) /\ ShownTypes(view, listed, S)
  BY DEF AlertInv, AlertTypes
<1>2. /\ b \in firing /\ firing' = firing \ {b}
      /\ UNCHANGED <<entries, session, opening, listed, pending, raised, clock, limit, peak, seen, crossed>>
  BY DEF Alerts!Resolve, Alerts!RemoveServer
<1>3. view' = view \/ view' = [view EXCEPT ![b] = None]
  BY DEF Alerts!Resolve, Alerts!RemoveServer
<1>4. CountOk(firing', raised', clock')
  BY <1>1, <1>2, CountDown
<1>5. Dimmed(view, view')
  BY <1>1, <1>3 DEF Dimmed, ShownTypes
<1>6. AlertTypes(S, L)'
  BY <1>2, <1>4, <1>5 DEF AlertInv, AlertTypes, ShownTypes, Dimmed
<1>7. FiringOk(firing', entries', pending', session')
  BY <1>2 DEF AlertInv, FiringOk
<1>8. MatchOk(opening', view', entries', pending', crossed')
  BY <1>2, <1>5, DimMatch DEF AlertInv
<1>9. /\ StampsOk(entries', pending', clock') /\ EndedOk(entries', peak')
      /\ OldOk(opening', entries', session') /\ SeenAlerts(seen', entries')
      /\ SoloOk(pending', crossed')
      /\ QuietOk(opening', pending', crossed') /\ ReadOk(opening', entries', listed', crossed')
  BY <1>2 DEF AlertInv
<1>10. QED
  BY <1>6, <1>7, <1>8, <1>9 DEF AlertInv

\* A greater limit bounds the limits of the calls, too.
LEMMA SentMore ==
  ASSUME NEW pn, NEW ra, NEW cl, NEW pk \in Nat, NEW qk \in Nat, pk <= qk, NEW L, \A m \in L : m \in Nat,
         SentOk(pn, ra, cl, pk, L)
  PROVE  SentOk(pn, ra, cl, qk, L)
<1> SUFFICES ASSUME NEW p \in pn, p.kind = "persist"
             PROVE  /\ p.alert \in 1..ra /\ p.state \in {"firing", "resolved"} /\ p.at \in 1..cl
                    /\ p.limit \in L /\ p.limit <= qk
  BY DEF SentOk
<1>1. /\ p.alert \in 1..ra /\ p.state \in {"firing", "resolved"} /\ p.at \in 1..cl
      /\ p.limit \in L /\ p.limit <= pk
  BY DEF SentOk
<1>2. p.limit \in Nat
  BY <1>1
<1>3. p.limit <= qk
  BY <1>1, <1>2
<1>4. QED
  BY <1>1, <1>3

\* The settings are saved with another limit of the history.
LEMMA SaveKeeps ==
  ASSUME NEW CONSTANT S, NEW CONSTANT W, NEW CONSTANT L, Sizes(S, L), AlertInv(S, L),
         NEW CONSTANT n \in L, Alerts(S, W, L)!SaveSettings(n)
  PROVE  AlertInv(S, L)'
<1>1. /\ CountOk(firing, raised, clock) /\ RowsOk(entries, session, S) /\ ShownTypes(view, listed, S)
      /\ BoundsOk(limit, peak, L) /\ SentOk(pending, raised, clock, peak, L)
      /\ opening \in {"begin", "list", "merge", "done"}
  BY DEF AlertInv, AlertTypes
<1>2. /\ limit' = n /\ peak' = Alerts(S, W, L)!Max({n, peak}) /\ entries' = Alerts(S, W, L)!pruneAlertHistory(entries, n)
      /\ seen' = seen \cap {a \in AlertIds : entries'[a] # None} /\ view' = Alerts(S, W, L)!Trimmed(view, n)
      /\ opening' = IF opening = "done" THEN "list" ELSE opening
      /\ UNCHANGED <<firing, session, listed, pending, raised, clock, crossed>>
  BY DEF Alerts!SaveSettings, Alerts!Alerts, AlertIds
<1>3. n \in Nat /\ peak \in Nat /\ peak' \in L /\ n <= peak' /\ peak <= peak'
  <2>1. n \in Nat /\ peak \in Nat /\ n \in L /\ peak \in L
    BY <1>1 DEF BoundsOk, Sizes
  <2> DEFINE m == IF n <= peak THEN peak ELSE n
  <2>2. m \in {n, peak} /\ \A y \in {n, peak} : m >= y
    BY <2>1
  <2>3. peak' \in {n, peak} /\ \A y \in {n, peak} : peak' >= y
    BY <1>2, <2>2 DEF Alerts!Max
  <2>4. QED
    BY <2>1, <2>3
<1>4. Thin(entries, entries', S)
  BY <1>1, <1>2, PruneRows DEF RowsOk
<1>5. Dimmed(view, view')
  BY <1>1, <1>2, TrimView DEF ShownTypes
<1>6. AlertTypes(S, L)'
  <2>1. SentOk(pending', raised', clock', peak', L)
    <3>1. \A m \in L : m \in Nat
      BY DEF Sizes
    <3>2. SentOk(pending, raised, clock, peak', L)
      <4>1. peak' \in Nat
        BY <1>3, <3>1
      <4>2. QED
        BY <1>1, <1>3, <3>1, <4>1, SentMore
    <3>3. QED
      BY <1>2, <3>2
  <2>2. RowsOk(entries', session', S)
    BY <1>1, <1>2, <1>4, ThinRows
  <2>3. ShownTypes(view', listed', S) /\ BoundsOk(limit', peak', L) /\ CountOk(firing', raised', clock')
    BY <1>1, <1>2, <1>3, <1>5 DEF ShownTypes, BoundsOk, Dimmed
  <2>4. QED
    BY <1>1, <1>2, <2>1, <2>2, <2>3 DEF AlertTypes
<1>7. StampsOk(entries', pending', clock') /\ FiringOk(firing', entries', pending', session')
  <2>1. firing \subseteq AlertIds
    BY <1>1, AlertBounds DEF CountOk, AlertIds
  <2>2. QED
    BY <1>2, <1>4, <2>1, ThinStamps, ThinFiring DEF AlertInv
<1>8. EndedOk(entries', peak')
  <2>1. peak' \in Nat /\ None \notin Stored(S) /\ StampsOk(entries, pending, clock)
    BY <1>3 DEF Sizes, AlertInv
  <2>2. entries \in [AlertIds -> Stored(S) \cup {None}]
    BY <1>1 DEF RowsOk
  <2>3. QED
    BY <1>2, <1>3, <2>1, <2>2, PruneEnded
<1>9. OldOk(opening', entries', session')
  <2>1. OldOk(opening, entries', session)
    BY <1>4, ThinOld DEF AlertInv
  <2>2. QED
    BY <1>2, <2>1 DEF OldOk
<1>10. SeenAlerts(seen', entries')
  BY <1>2, <1>4 DEF AlertInv, SeenAlerts, Thin
<1>11. ReadOk(opening', entries', listed', crossed')
  <2>1. ReadOk(opening, entries', listed, crossed)
    BY <1>4, ThinRead DEF AlertInv
  <2>2. QED
    BY <1>2, <2>1 DEF ReadOk
<1>12. QuietOk(opening', pending', crossed') /\ SoloOk(pending', crossed') /\ MatchOk(opening', view', entries', pending', crossed')
  BY <1>2 DEF AlertInv, QuietOk, MatchOk
<1>13. QED
  BY <1>6, <1>7, <1>8, <1>9, <1>10, <1>11, <1>12 DEF AlertInv

\* A call that marks or drops rows, and is done with that.
LEMMA ThinDone ==
  ASSUME NEW CONSTANT S, NEW CONSTANT L, Sizes(S, L), AlertInv(S, L),
         NEW CONSTANT c \in pending, c.kind # "persist", pending' = pending \ {c},
         Thin(entries, entries', S), EndedOk(entries', peak), SeenAlerts(seen', entries'),
         UNCHANGED <<view, firing, session, opening, listed, raised, clock, limit, peak, crossed>>
  PROVE  AlertInv(S, L)'
<1>1. CountOk(firing, raised, clock) /\ RowsOk(entries, session, S)
  BY DEF AlertInv, AlertTypes
<1>2. AlertTypes(S, L)'
  <2>1. SentOk(pending', raised', clock', peak', L)
    BY DoneSent DEF AlertInv, AlertTypes
  <2>2. RowsOk(entries', session', S)
    BY <1>1, ThinRows
  <2>3. QED
    BY <2>1, <2>2 DEF AlertInv, AlertTypes
<1>3. StampsOk(entries', pending', clock')
  <2>1. StampsOk(entries', pending, clock)
    BY ThinStamps DEF AlertInv
  <2>2. QED
    BY <2>1, DoneStamps
<1>4. FiringOk(firing', entries', pending', session')
  <2>1. firing \subseteq AlertIds
    BY <1>1, AlertBounds DEF CountOk, AlertIds
  <2>2. FiringOk(firing, entries', pending, session)
    BY <2>1, ThinFiring DEF AlertInv
  <2>3. QED
    BY <2>2, DoneFiring
<1>5. MatchOk(opening', view', entries', pending', crossed')
  <2>1. MatchOk(opening, view, entries', pending, crossed)
    BY ThinMatch DEF AlertInv
  <2>2. QED
    BY <2>1, DoneMatch
<1>6. SoloOk(pending', crossed') /\ QuietOk(opening', pending', crossed')
  BY DoneCalls DEF AlertInv
<1>7. OldOk(opening', entries', session') /\ ReadOk(opening', entries', listed', crossed')
  BY ThinOld, ThinRead DEF AlertInv
<1>8. QED
  BY <1>2, <1>3, <1>4, <1>5, <1>6, <1>7 DEF AlertInv

\* MarkAlertHistoryRead and ClearResolvedAlertHistory.
LEMMA MarkKeeps ==
  ASSUME NEW CONSTANT S, NEW CONSTANT W, NEW CONSTANT L, Sizes(S, L), AlertInv(S, L),
         NEW CONSTANT c \in pending, pending' = pending \ {c},
         Alerts(S, W, L)!MarkAlertHistoryRead(c) \/ Alerts(S, W, L)!ClearResolvedAlertHistory(c),
         UNCHANGED <<view, firing, session, opening, listed, raised, clock, limit, peak, crossed>>
  PROVE  AlertInv(S, L)'
<1>1. entries \in [AlertIds -> Stored(S) \cup {None}] /\ None \notin Stored(S)
  BY DEF AlertInv, AlertTypes, RowsOk, Sizes
<1>2. CASE Alerts(S, W, L)!MarkAlertHistoryRead(c)
  <2>1. /\ c.kind \in {"read", "readAll"}
        /\ entries' = [a \in AlertIds |-> IF Concerns(c, a) /\ entries[a] # None
                                            THEN [entries[a] EXCEPT !.read = TRUE] ELSE entries[a]]
        /\ seen' = seen \cup {a \in AlertIds : Concerns(c, a) /\ entries[a] # None}
    BY <1>2 DEF Alerts!MarkAlertHistoryRead, Alerts!Touches, Concerns, Alerts!Alerts, AlertIds
  <2> DEFINE Marked(r) == [r EXCEPT !.read = TRUE]
  <2>2. \A r \in Stored(S) : /\ Marked(r) \in Stored(S) /\ Marked(r).state = r.state /\ Marked(r).at = r.at
                             /\ Marked(r).session = r.session /\ Marked(r).read
    BY DEF Stored
  <2>3. \A a \in AlertIds : entries'[a] = IF Concerns(c, a) /\ entries[a] # None THEN Marked(entries[a]) ELSE entries[a]
    BY <2>1
  <2> HIDE DEF Marked
  <2>4. /\ entries' \in [AlertIds -> Stored(S) \cup {None}]
        /\ \A a \in AlertIds : entries'[a] # None <=> entries[a] # None
    <3>1. entries' = [a \in AlertIds |-> entries'[a]]
      BY <2>1
    <3>2. \A a \in AlertIds : entries'[a] \in Stored(S) \cup {None} /\ (entries'[a] # None <=> entries[a] # None)
      BY <1>1, <2>2, <2>3
    <3>3. QED
      BY <3>1, <3>2
  <2>5. \A a \in AlertIds : entries[a] # None =>
          /\ entries'[a].state = entries[a].state /\ entries'[a].at = entries[a].at
          /\ entries'[a].session = entries[a].session
          /\ entries[a].read \/ Concerns(c, a) => entries'[a].read
    BY <1>1, <2>2, <2>3
  <2>6. Thin(entries, entries', S)
    BY <2>4, <2>5 DEF Thin
  <2>7. EndedOk(entries', peak)
    <3>1. EndedIn(entries') = EndedIn(entries)
      BY <2>4, <2>5 DEF EndedIn
    <3>2. QED
      BY <3>1 DEF AlertInv, EndedOk
  <2>8. SeenAlerts(seen', entries')
    BY <2>1, <2>4, <2>5 DEF AlertInv, SeenAlerts
  <2>9. QED
    BY <2>1, <2>6, <2>7, <2>8, ThinDone
<1>3. CASE Alerts(S, W, L)!ClearResolvedAlertHistory(c)
  <2>1. Alerts(S, W, L)!EndedOf(entries) = EndedIn(entries)
    BY DEF Alerts!EndedOf, Alerts!Alerts, Alerts!Ended, EndedIn, AlertIds, Past
  <2>2. /\ c.kind = "clear" /\ seen' = seen \ EndedIn(entries)
        /\ entries' = [a \in AlertIds |-> IF a \in EndedIn(entries) THEN None ELSE entries[a]]
    BY <1>3, <2>1 DEF Alerts!ClearResolvedAlertHistory, Alerts!Alerts, AlertIds
  <2>3. Thin(entries, entries', S)
    BY <1>1, <2>2 DEF Thin, EndedIn, Past
  <2>4. EndedOk(entries', peak)
    <3>1. EndedIn(entries') = {}
      BY <2>2 DEF EndedIn
    <3>2. peak \in Nat
      BY DEF AlertInv, AlertTypes, BoundsOk, Sizes
    <3>3. QED
      BY <3>1, <3>2, FS_EmptySet DEF EndedOk
  <2>5. SeenAlerts(seen', entries')
    BY <2>2 DEF AlertInv, SeenAlerts
  <2>6. QED
    BY <2>2, <2>3, <2>4, <2>5, ThinDone
<1>4. QED
  BY <1>2, <1>3

\* UpsertAlertHistoryEvent.
LEMMA UpsertKeeps ==
  ASSUME NEW CONSTANT S, NEW CONSTANT W, NEW CONSTANT L, Sizes(S, L), AlertInv(S, L),
         NEW CONSTANT c \in pending, pending' = pending \ {c},
         Alerts(S, W, L)!UpsertAlertHistoryEvent(c),
         UNCHANGED <<view, firing, session, opening, listed, raised, clock, limit, peak, crossed>>
  PROVE  AlertInv(S, L)'
<1> DEFINE b == c.alert
           r == [state |-> c.state, session |-> session, at |-> c.at, read |-> entries[b] # None /\ entries[b].read]
           mid == [entries EXCEPT ![b] = r]
<1>1. /\ CountOk(firing, raised, clock) /\ RowsOk(entries, session, S) /\ BoundsOk(limit, peak, L)
      /\ SentOk(pending, raised, clock, peak, L)
      /\ entries \in [AlertIds -> Stored(S) \cup {None}] /\ None \notin Stored(S) /\ session \in 1..S /\ session \in Nat
  BY DEF AlertInv, AlertTypes, RowsOk, Sizes
<1>2. /\ c.kind = "persist" /\ entries' = Alerts(S, W, L)!pruneAlertHistory(mid, c.limit)
      /\ seen' = seen \cap {a \in AlertIds : entries'[a] # None}
  BY DEF Alerts!UpsertAlertHistoryEvent, Alerts!Upserted, Alerts!Alerts, AlertIds
<1>3. /\ b \in AlertIds /\ c.state \in {"firing", "resolved"} /\ c.at \in Moments
      /\ c.limit \in Nat /\ c.limit <= peak /\ peak \in Nat
  <2>1. /\ b \in 1..raised /\ c.state \in {"firing", "resolved"} /\ c.at \in 1..clock
        /\ c.limit \in L /\ c.limit <= peak
    BY <1>1, <1>2 DEF SentOk
  <2>2. raised \in 0..MaxAlerts /\ clock <= 2 * MaxAlerts /\ clock \in Nat
    <3>1. Cardinality(firing) \in Nat
      BY <1>1, FS_CardinalityType DEF CountOk
    <3>2. QED
      BY <1>1, <3>1, AlertBounds DEF CountOk
  <2>3. peak \in Nat /\ c.limit \in Nat
    BY <1>1, <2>1 DEF BoundsOk, Sizes
  <2>4. b \in AlertIds /\ c.at \in Moments
    <3> HIDE DEF b
    <3>1. QED
      BY <2>1, <2>2, AlertBounds DEF AlertIds, Moments
  <2>5. QED
    BY <2>1, <2>3, <2>4
<1>4. /\ r.state = c.state /\ r.session = session /\ r.at = c.at
      /\ entries[b] # None /\ entries[b].read => r.read
  OBVIOUS
<1>5. r \in Stored(S)
  BY <1>1, <1>3 DEF Stored, Past
<1> HIDE DEF r
<1>6. mid \in [AlertIds -> Stored(S) \cup {None}] /\ \A a \in AlertIds : mid[a] = IF a = b THEN r ELSE entries[a]
  BY <1>1, <1>3, <1>5
<1> HIDE DEF mid
<1>7. Stores(entries, mid, c, session, S)
  BY <1>1, <1>2, <1>3, <1>4, <1>5, <1>6 DEF Stores
<1>8. Thin(mid, entries', S)
  BY <1>2, <1>6, PruneRows
<1>9. firing \subseteq AlertIds /\ 0 \notin AlertIds
  BY <1>1, AlertBounds, AlertsFinite DEF CountOk, AlertIds
<1>10. StampsOk(mid, pending', clock)
  BY <1>7, StoresStamps DEF AlertInv
<1>11. AlertTypes(S, L)'
  <2>1. SentOk(pending', raised', clock', peak', L)
    BY <1>1, DoneSent
  <2>2. RowsOk(entries', session', S)
    BY <1>1, <1>7, <1>8, StoresRows, ThinRows
  <2>3. QED
    BY <2>1, <2>2 DEF AlertInv, AlertTypes
<1>12. StampsOk(entries', pending', clock')
  BY <1>8, <1>10, ThinStamps
<1>13. EndedOk(entries', peak')
  BY <1>1, <1>2, <1>3, <1>6, <1>10, PruneEnded
<1>14. FiringOk(firing', entries', pending', session')
  <2>1. FiringOk(firing, mid, pending', session)
    BY <1>7, <1>9, StoresFiring DEF AlertInv
  <2>2. QED
    BY <1>8, <1>9, <2>1, ThinFiring
<1>15. OldOk(opening', entries', session')
  BY <1>7, <1>8, StoresOld, ThinOld DEF AlertInv
<1>16. SeenAlerts(seen', entries')
  BY <1>2, <1>7, <1>8 DEF AlertInv, SeenAlerts, Thin, Stores
<1>17. SoloOk(pending', crossed') /\ QuietOk(opening', pending', crossed')
  BY DoneCalls DEF AlertInv
<1>18. MatchOk(opening', view', entries', pending', crossed')
  <2>1. MatchOk(opening, view, mid, pending', crossed)
    BY <1>7, <1>9, StoresMatch DEF AlertInv
  <2>2. QED
    BY <1>8, <2>1, ThinMatch
<1>19. ReadOk(opening', entries', listed', crossed')
  <2>1. ReadOk(opening, mid, listed, crossed)
    BY <1>7, StoresRead DEF AlertInv
  <2>2. QED
    BY <1>8, <2>1, ThinRead
<1>20. QED
  BY <1>11, <1>12, <1>13, <1>14, <1>15, <1>16, <1>17, <1>18, <1>19 DEF AlertInv

\* BeginAlertSession: what fired before was interrupted.
LEMMA SessionKeeps ==
  ASSUME NEW CONSTANT S, NEW CONSTANT W, NEW CONSTANT L, Sizes(S, L), AlertInv(S, L),
         Alerts(S, W, L)!BeginAlertSession
  PROVE  AlertInv(S, L)'
<1> DEFINE Cut(r) == [r EXCEPT !.state = "interrupted"]
           Left(a) == entries[a] # None /\ entries[a].state = "firing" /\ entries[a].session # session
           mid == [a \in AlertIds |-> IF Left(a) THEN Cut(entries[a]) ELSE entries[a]]
<1>1. /\ CountOk(firing, raised, clock) /\ RowsOk(entries, session, S) /\ BoundsOk(limit, peak, L)
      /\ entries \in [AlertIds -> Stored(S) \cup {None}] /\ None \notin Stored(S)
      /\ limit \in Nat /\ peak \in Nat /\ limit <= peak
  BY DEF AlertInv, AlertTypes, RowsOk, BoundsOk, Sizes
<1>2. /\ opening = "begin" /\ opening' = "list" /\ entries' = Alerts(S, W, L)!pruneAlertHistory(mid, limit)
      /\ seen' = seen \cap {a \in AlertIds : entries'[a] # None}
      /\ UNCHANGED <<view, firing, session, listed, pending, raised, clock, limit, peak, crossed>>
  BY DEF Alerts!BeginAlertSession, Alerts!Alerts, AlertIds
<1>3. \A r \in Stored(S) : /\ Cut(r) \in Stored(S) /\ Cut(r).state = "interrupted" /\ Cut(r).at = r.at
                           /\ Cut(r).session = r.session /\ Cut(r).read = r.read
  BY DEF Stored, Past
<1>4. \A a \in AlertIds : mid[a] = IF Left(a) THEN Cut(entries[a]) ELSE entries[a]
  OBVIOUS
<1>5. mid = [a \in AlertIds |-> mid[a]]
  OBVIOUS
<1> HIDE DEF Cut, mid
<1>6. \A a \in AlertIds : /\ mid[a] \in Stored(S) \cup {None} /\ (mid[a] # None <=> entries[a] # None)
                          /\ Left(a) => mid[a].state = "interrupted"
                          /\ ~Left(a) => mid[a] = entries[a]
  BY <1>1, <1>3, <1>4
<1>7. \A a \in AlertIds : entries[a] # None =>
        mid[a].at = entries[a].at /\ mid[a].session = entries[a].session /\ mid[a].read = entries[a].read
  BY <1>1, <1>3, <1>4
<1>8. mid \in [AlertIds -> Stored(S) \cup {None}]
  BY <1>5, <1>6
<1>9. Thin(mid, entries', S)
  BY <1>2, <1>8, PruneRows
<1>10. StampsOk(mid, pending, clock)
  <2>1. \A a \in AlertIds : \A t : Stamp(mid, pending, a, t) => Stamp(entries, pending, a, t)
    BY <1>6, <1>7 DEF Stamp
  <2>2. QED
    BY <2>1 DEF AlertInv, StampsOk
<1>11. firing \subseteq AlertIds
  BY <1>1, AlertBounds DEF CountOk, AlertIds
<1>12. AlertTypes(S, L)'
  <2>1. RowsOk(mid, session, S)
    BY <1>1, <1>6, <1>7, <1>8 DEF RowsOk
  <2>2. RowsOk(entries', session', S)
    BY <1>2, <1>9, <2>1, ThinRows
  <2>3. QED
    BY <1>2, <2>2 DEF AlertInv, AlertTypes
<1>13. StampsOk(entries', pending', clock')
  BY <1>2, <1>9, <1>10, ThinStamps
<1>14. EndedOk(entries', peak')
  BY <1>1, <1>2, <1>8, <1>10, PruneEnded
<1>15. FiringOk(firing', entries', pending', session')
  <2>1. FiringOk(firing, mid, pending, session)
    BY <1>6, <1>11 DEF AlertInv, FiringOk
  <2>2. QED
    BY <1>2, <1>9, <1>11, <2>1, ThinFiring
<1>16. OldOk(opening', entries', session')
  <2>1. OldOk("list", mid, session)
    BY <1>6 DEF OldOk
  <2>2. QED
    BY <1>2, <1>9, <2>1, ThinOld
<1>17. SeenAlerts(seen', entries')
  BY <1>2, <1>6, <1>7, <1>9 DEF AlertInv, SeenAlerts, Thin
<1>18. /\ SoloOk(pending', crossed') /\ MatchOk(opening', view', entries', pending', crossed')
       /\ QuietOk(opening', pending', crossed') /\ ReadOk(opening', entries', listed', crossed')
  BY <1>2 DEF AlertInv, MatchOk, QuietOk, ReadOk
<1>19. QED
  BY <1>12, <1>13, <1>14, <1>15, <1>16, <1>17, <1>18 DEF AlertInv

\* ListAlertHistory reads the rows.
LEMMA AlertListKeeps ==
  ASSUME NEW CONSTANT S, NEW CONSTANT W, NEW CONSTANT L, Sizes(S, L), AlertInv(S, L),
         Alerts(S, W, L)!ListAlertHistory
  PROVE  AlertInv(S, L)'
<1>1. /\ opening = "list" /\ opening' = "merge" /\ listed' = entries
      /\ crossed' = crossed \cup {a \in AlertIds : \E p \in pending : Concerns(p, a)}
      /\ UNCHANGED <<entries, view, firing, session, pending, raised, clock, limit, peak, seen>>
  BY DEF Alerts!ListAlertHistory, Alerts!Alerts, AlertIds, Alerts!Touches, Concerns
<1>2. AlertTypes(S, L)'
  BY <1>1 DEF AlertInv, AlertTypes, ShownTypes, RowsOk
<1>3. SoloOk(pending', crossed')
  BY <1>1 DEF AlertInv, SoloOk
<1>4. QuietOk(opening', pending', crossed') /\ ReadOk(opening', entries', listed', crossed')
  BY <1>1 DEF QuietOk, ReadOk
<1>5. MatchOk(opening', view', entries', pending', crossed') /\ OldOk(opening', entries', session')
  BY <1>1 DEF AlertInv, MatchOk, OldOk
<1>6. /\ StampsOk(entries', pending', clock') /\ EndedOk(entries', peak')
      /\ FiringOk(firing', entries', pending', session') /\ SeenAlerts(seen', entries')
  BY <1>1 DEF AlertInv
<1>7. QED
  BY <1>2, <1>3, <1>4, <1>5, <1>6 DEF AlertInv

\* mergeHistory of the answer.
LEMMA MergeKeeps ==
  ASSUME NEW CONSTANT S, NEW CONSTANT W, NEW CONSTANT L, Sizes(S, L), AlertInv(S, L),
         Alerts(S, W, L)!MergeHistory
  PROVE  AlertInv(S, L)'
<1> DEFINE Of(r) == [state |-> r.state, read |-> r.read, at |-> r.at]
           w == [a \in AlertIds |-> IF listed[a] = None THEN view[a] ELSE Of(listed[a])]
<1>1. /\ ShownTypes(view, listed, S) /\ None \notin OnView /\ None \notin Stored(S)
  BY DEF AlertInv, AlertTypes, Sizes
<1>2. /\ opening = "merge" /\ opening' = "done" /\ view' = Alerts(S, W, L)!Trimmed(w, limit)
      /\ listed' = [a \in AlertIds |-> None]
      /\ UNCHANGED <<entries, firing, session, pending, raised, clock, limit, peak, seen, crossed>>
  BY DEF Alerts!MergeHistory, Alerts!Alerts, AlertIds
<1>3. \A r \in Stored(S) : Of(r) \in OnView /\ Of(r).state = r.state
  BY DEF Stored, OnView
<1>4. \A a \in AlertIds : w[a] = IF listed[a] = None THEN view[a] ELSE Of(listed[a])
  OBVIOUS
<1>5. w = [a \in AlertIds |-> w[a]]
  OBVIOUS
<1> HIDE DEF Of, w
<1>6. w \in [AlertIds -> OnView \cup {None}]
  BY <1>1, <1>3, <1>4, <1>5 DEF ShownTypes
<1>7. Dimmed(w, view')
  BY <1>2, <1>6, TrimView
<1>8. AlertTypes(S, L)'
  BY <1>2, <1>7 DEF AlertInv, AlertTypes, ShownTypes, Dimmed
<1>9. MatchOk(opening', view', entries', pending', crossed')
  <2>1. \A a \in AlertIds \ crossed : \A p \in pending : ~Writes(p, a)
    BY <1>2 DEF AlertInv, QuietOk, Concerns, Writes
  <2>2. \A a \in AlertIds \ crossed : entries[a] # None => w[a].state = entries[a].state
    BY <1>1, <1>2, <1>3, <1>4 DEF AlertInv, ReadOk, ShownTypes
  <2>3. MatchOk("done", w, entries, pending, crossed)
    BY <2>1, <2>2 DEF MatchOk
  <2>4. QED
    BY <1>2, <1>7, <2>3, DimMatch
<1>10. OldOk(opening', entries', session') /\ QuietOk(opening', pending', crossed') /\ ReadOk(opening', entries', listed', crossed')
  BY <1>2 DEF AlertInv, OldOk, QuietOk, ReadOk
<1>11. /\ StampsOk(entries', pending', clock') /\ EndedOk(entries', peak') /\ SoloOk(pending', crossed')
       /\ FiringOk(firing', entries', pending', session') /\ SeenAlerts(seen', entries')
  BY <1>2 DEF AlertInv
<1>12. QED
  BY <1>8, <1>9, <1>10, <1>11 DEF AlertInv

\* The program ends, and starts again.
LEMMA RestartKeeps ==
  ASSUME NEW CONSTANT S, NEW CONSTANT W, NEW CONSTANT L, Sizes(S, L), AlertInv(S, L),
         Alerts(S, W, L)!Restart
  PROVE  AlertInv(S, L)'
<1>1. /\ session < S /\ session' = session + 1 /\ opening' = "begin" /\ pending' = {} /\ firing' = {}
      /\ view' = [a \in AlertIds |-> None] /\ listed' = [a \in AlertIds |-> None] /\ crossed' = {}
      /\ UNCHANGED <<entries, raised, clock, limit, peak, seen>>
  BY DEF Alerts!Restart, Alerts!Alerts, AlertIds
<1>2. CountOk(firing', raised', clock')
  <2>1. CountOk(firing, raised, clock)
    BY DEF AlertInv, AlertTypes
  <2>2. Cardinality(firing) \in Nat
    BY <2>1, FS_CardinalityType DEF CountOk
  <2>3. Cardinality({}) = 0 /\ IsFiniteSet({})
    BY FS_EmptySet
  <2>4. QED
    BY <1>1, <2>1, <2>2, <2>3, AlertBounds DEF CountOk
<1>3. RowsOk(entries', session', S)
  <2>1. RowsOk(entries, session, S) /\ S \in Nat /\ None \notin Stored(S)
    BY DEF AlertInv, AlertTypes, Sizes
  <2>2. \A a \in AlertIds : entries[a] # None => entries[a].session \in Int
    BY <2>1 DEF RowsOk, Stored
  <2>3. QED
    BY <1>1, <2>1, <2>2 DEF RowsOk
<1>4. AlertTypes(S, L)'
  <2>1. SentOk(pending', raised', clock', peak', L) /\ ShownTypes(view', listed', S)
    BY <1>1 DEF SentOk, ShownTypes
  <2>2. QED
    BY <1>1, <1>2, <1>3, <2>1 DEF AlertInv, AlertTypes
<1>5. StampsOk(entries', pending', clock')
  <2>1. \A a \in AlertIds : \A t : Stamp(entries, {}, a, t) => Stamp(entries, pending, a, t)
    BY DEF Stamp
  <2>2. QED
    BY <1>1, <2>1 DEF AlertInv, StampsOk
<1>6. /\ FiringOk(firing', entries', pending', session') /\ OldOk(opening', entries', session')
      /\ SoloOk(pending', crossed') /\ MatchOk(opening', view', entries', pending', crossed')
      /\ QuietOk(opening', pending', crossed') /\ ReadOk(opening', entries', listed', crossed')
  BY <1>1 DEF FiringOk, OldOk, SoloOk, MatchOk, QuietOk, ReadOk
<1>7. EndedOk(entries', peak') /\ SeenAlerts(seen', entries')
  BY <1>1 DEF AlertInv
<1>8. QED
  BY <1>4, <1>5, <1>6, <1>7 DEF AlertInv

\* Every step of the component keeps the invariant.
LEMMA AlertKeeps ==
  ASSUME NEW CONSTANT S, NEW CONSTANT W, NEW CONSTANT L, Sizes(S, L), AlertInv(S, L), Alerts(S, W, L)!Next
  PROVE  AlertInv(S, L)'
<1>1. ASSUME NEW b \in AlertIds, NEW quiet \in BOOLEAN, Alerts(S, W, L)!Resolve(b, quiet)
      PROVE  AlertInv(S, L)'
  <2>1. CASE quiet = TRUE
    BY <1>1, <2>1, ResolveKeeps
  <2>2. CASE quiet = FALSE
    BY <1>1, <2>2, QuietKeeps
  <2>3. QED
    BY <2>1, <2>2
<1>2. ASSUME NEW b \in AlertIds, Alerts(S, W, L)!RemoveServer(b)
      PROVE  AlertInv(S, L)'
  BY <1>2, QuietKeeps
<1>3. ASSUME NEW c \in pending, Alerts(S, W, L)!Execute(c)
      PROVE  AlertInv(S, L)'
  <2>1. /\ pending' = pending \ {c}
        /\ UNCHANGED <<view, firing, session, opening, listed, raised, clock, limit, peak, crossed>>
    BY <1>3 DEF Alerts!Execute
  <2>2. CASE Alerts(S, W, L)!UpsertAlertHistoryEvent(c)
    BY <2>1, <2>2, UpsertKeeps
  <2>3. CASE Alerts(S, W, L)!MarkAlertHistoryRead(c) \/ Alerts(S, W, L)!ClearResolvedAlertHistory(c)
    BY <2>1, <2>3, MarkKeeps
  <2>4. QED
    BY <1>3, <2>2, <2>3 DEF Alerts!Execute
<1>4. ASSUME NEW n \in L, Alerts(S, W, L)!SaveSettings(n)
      PROVE  AlertInv(S, L)'
  BY <1>4, SaveKeeps
<1>5. QED
  BY <1>1, <1>2, <1>3, <1>4, AsksKeep, FireKeeps, SessionKeeps, AlertListKeeps, MergeKeeps, RestartKeeps
     DEF Alerts!Next, Alerts!Alerts, AlertIds

\* It holds at the start.
LEMMA AlertsBegin ==
  ASSUME NEW CONSTANT S, NEW CONSTANT W, NEW CONSTANT L, Sizes(S, L), Alerts(S, W, L)!Init
  PROVE  AlertInv(S, L)
<1>1. /\ entries = [a \in AlertIds |-> None] /\ view = [a \in AlertIds |-> None] /\ firing = {} /\ session = 1
      /\ opening = "begin" /\ listed = entries /\ pending = {} /\ raised = 0 /\ clock = 0
      /\ limit = Alerts(S, W, L)!Min(L) /\ peak = limit /\ seen = {} /\ crossed = {}
  BY DEF Alerts!Init, Alerts!Alerts, AlertIds
<1>2. limit \in L /\ limit \in Nat
  <2>1. 1 \in L /\ \A y \in L : 1 <= y
    BY DEF Sizes
  <2>2. limit \in L
    BY <1>1, <2>1 DEF Alerts!Min
  <2>3. QED
    BY <2>2 DEF Sizes
<1>3. Cardinality({}) = 0 /\ IsFiniteSet({})
  BY FS_EmptySet
<1>4. AlertTypes(S, L)
  BY <1>1, <1>2, <1>3, AlertBounds DEF AlertTypes, CountOk, RowsOk, ShownTypes, BoundsOk, SentOk, Sizes
<1>5. StampsOk(entries, pending, clock) /\ FiringOk(firing, entries, pending, session) /\ OldOk(opening, entries, session)
  BY <1>1 DEF StampsOk, Stamp, FiringOk, OldOk
<1>6. EndedOk(entries, peak)
  <2>1. EndedIn(entries) = {}
    BY <1>1 DEF EndedIn
  <2>2. QED
    BY <1>1, <1>2, <1>3, <2>1 DEF EndedOk
<1>7. /\ SeenAlerts(seen, entries) /\ SoloOk(pending, crossed) /\ MatchOk(opening, view, entries, pending, crossed)
      /\ QuietOk(opening, pending, crossed) /\ ReadOk(opening, entries, listed, crossed)
  BY <1>1 DEF SeenAlerts, SoloOk, MatchOk, QuietOk, ReadOk
<1>8. QED
  BY <1>4, <1>5, <1>6, <1>7 DEF AlertInv

\* What the invariant says of the rows and of the window.
LEMMA AlertsSay ==
  ASSUME NEW CONSTANT S, NEW CONSTANT W, NEW CONSTANT L, Sizes(S, L), AlertInv(S, L)
  PROVE  Alerts(S, W, L)!AlertsAreStored
<1>1. Alerts(S, W, L)!TypeOK
  <2>1. /\ Alerts(S, W, L)!Alerts = AlertIds /\ Alerts(S, W, L)!Row = Stored(S) /\ Alerts(S, W, L)!Shown = OnView
    BY DEF Alerts!Alerts, Alerts!Row, Alerts!Shown, Alerts!Ended, Alerts!Times, AlertIds, Stored, OnView, Past, Moments
  <2>2. QED
    BY <2>1 DEF Alerts!TypeOK, AlertInv, AlertTypes, CountOk, RowsOk, ShownTypes, BoundsOk
<1>2. Alerts(S, W, L)!EndedWithinLimit
  <2>1. Alerts(S, W, L)!EndedOf(entries) = EndedIn(entries)
    BY DEF Alerts!EndedOf, Alerts!Alerts, Alerts!Ended, EndedIn, AlertIds, Past
  <2>2. QED
    BY <2>1, SameAlertCount DEF Alerts!EndedWithinLimit, AlertInv, EndedOk
<1>3. Alerts(S, W, L)!FiringIsStored
  BY DEF Alerts!FiringIsStored, Alerts!Touches, AlertInv, FiringOk, Writes
<1>4. Alerts(S, W, L)!NoOldFiring /\ Alerts(S, W, L)!ReadStays
  BY DEF Alerts!NoOldFiring, Alerts!ReadStays, Alerts!Alerts, AlertIds, AlertInv, OldOk, SeenAlerts
<1>5. Alerts(S, W, L)!ShownIsStored
  BY DEF Alerts!ShownIsStored, Alerts!Alerts, AlertIds, AlertInv, MatchOk
<1>6. QED
  BY <1>1, <1>2, <1>3, <1>4, <1>5 DEF Alerts!AlertsAreStored

\* The sizes of the two instances.
LEMMA AlertSizes == Sizes(1, {1}) /\ Sizes(MaxSessions, 1..MaxLimit)
<1>1. /\ 1 \in Nat \ {0} /\ MaxSessions \in Nat \ {0} /\ MaxLimit \in Nat \ {0}
      /\ 1 \in {1} /\ {1} \subseteq Nat \ {0} /\ 1 \in 1..MaxLimit /\ 1..MaxLimit \subseteq Nat \ {0}
  BY AlertBounds
<1>2. None \notin Stored(MaxSessions) /\ None \notin OnView
  BY AlertAssumption DEF Alerts!Row, Alerts!Shown, Alerts!Ended, Alerts!Times, Stored, OnView, Past, Moments
<1>3. Stored(1) \subseteq Stored(MaxSessions)
  BY <1>1 DEF Stored
<1>4. QED
  BY <1>1, <1>2, <1>3 DEF Sizes

\* THEOREM: not more alerts that have ended are kept than the largest limit, one that fires is stored
\* as such and none of an earlier session, what was read stays so, and the window shows the stored
\* states, unless calls overlapped (UpsertAlertHistoryEvent, pruneAlertHistoryTx, BeginAlertSession,
\* mergeHistory).
THEOREM AlertsSound == Spec => []AlertsAreStored
<1> DEFINE Inv == /\ part = "alerts" => AlertInv(1, {1})
                  /\ part = "sessions" => AlertInv(MaxSessions, 1..MaxLimit)
<1>1. Init => Inv
  BY AlertSizes, AlertsBegin DEF Init
<1>2. Inv /\ [Next]_vars => Inv'
  <2> SUFFICES ASSUME Inv, [Next]_vars
               PROVE  Inv'
    OBVIOUS
  <2>1. CASE UNCHANGED vars
    <3>1. UNCHANGED <<part, entries, view, firing, session, opening, listed, pending, raised, clock, limit, peak, seen, crossed>>
      BY <2>1 DEF vars
    <3>2. AlertTypes(1, {1})' = AlertTypes(1, {1}) /\ AlertTypes(MaxSessions, 1..MaxLimit)' = AlertTypes(MaxSessions, 1..MaxLimit)
      BY <3>1 DEF AlertTypes
    <3>3. QED
      BY <3>1, <3>2 DEF AlertInv
  <2>2. CASE part = "alerts" /\ Next
    <3>1. part' = "alerts" /\ Alerts(1, MaxPending, {1})!Next
      BY <2>2 DEF Next
    <3>2. QED
      BY <2>2, <3>1, AlertSizes, AlertKeeps
  <2>3. CASE part = "sessions" /\ Next
    <3>1. part' = "sessions" /\ Alerts(MaxSessions, 1, 1..MaxLimit)!Next
      BY <2>3 DEF Next
    <3>2. QED
      BY <2>3, <3>1, AlertSizes, AlertKeeps
  <2>4. CASE part \notin {"alerts", "sessions"} /\ Next
    BY <2>4 DEF Next
  <2>5. QED
    BY <2>1, <2>2, <2>3, <2>4
<1>3. Inv => AlertsAreStored
  BY AlertSizes, AlertsSay DEF AlertsAreStored
<1>4. QED
  BY <1>1, <1>2, <1>3, PTL DEF Spec
=============================================================================
