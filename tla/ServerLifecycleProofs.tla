------------------------- MODULE ServerLifecycleProofs -------------------------
(***************************************************************************)
(* Proofs about ServerLifecycle, for every set of sessions, any number of  *)
(* disconnects at the same time, and every bound: what the tracker says of *)
(* terminals and monitors is backed by their workers, one session is set   *)
(* up at a time, and a disconnect misses no session.                       *)
(***************************************************************************)
EXTENDS ServerLifecycle, TLAPS

----------------------------------------------------------------------------
\* The inductive invariant.

\* A server that was disconnected shows nothing but that.
QuietInv ==
  blocked => /\ ~monitorActive /\ monitorStatus = "disconnected" /\ ~lastError
             /\ \A s \in Sessions : terminals[s] = "none"

\* What is said of a session that is online is withdrawn by a disconnect only.
OnlineInv == \A s \in Sessions \ ignored : phase[s] = "online" => terminals[s] = "online"

\* A session that is set up says so to openWithID.
InfoInv == \A s \in Sessions : phase[s] \in {"registered", "dialing"} => info[s] = "connecting"

\* Monitor workers are numbered in the order of their start.
FreshInv == /\ \A i \in MonitorIds : i > monitors => monitorPhase[i] = "none"
            /\ connectCall = "begun" => monitors < MaxMonitors

\* The worker of a session that a disconnect found had started when it began.
BeforeInv == \A d \in Disconnectors : \A w \in before[d] : w[2] <= opens[w[1]]

\* What StopConnection found and is not over is still to be closed or waited for.
WorkInv ==
  \A d \in Disconnectors : disc[d] \in {"close", "waitSession"} =>
    \A w \in before[d] :
      \/ Done(w[1], w[2])
      \/ w[1] \in toClose[d]
      \/ disc[d] = "waitSession" /\ waitSession[d] = w

IndInv == /\ TypeOK /\ QuietInv /\ OnlineInv /\ NoGhostTerminal /\ InfoInv /\ OneConnecting
          /\ FreshInv /\ NoGhostMonitor /\ BeforeInv /\ WorkInv /\ DisconnectStopsEarlier

----------------------------------------------------------------------------
\* One lemma per conjunct, one step per action.

\* Every step keeps the types.
LEMMA TypeStep ==
  ASSUME TypeOK, FreshInv, [Next]_vars
  PROVE  TypeOK'
<1>0. MaxOpens \in Nat /\ MaxMonitors \in Nat /\ MaxDisconnects \in Nat
  BY BoundAssumption
<1>1. CASE UNCHANGED <<monitorStatus, monitorActive, terminals, lastError, disconnecting, blocked,
       ignored, phase, info, ctxDone, opens, call, waitOpen, monitors, monitorWorker, monitorPhase,
       monitorDone, connectCall, disc, waitMonitor, toClose, waitSession, before, disconnects>>
  BY <1>0, <1>1 DEF TypeOK, MonitorIds, MonitorStatus, Phases, MonitorPhases, DiscSteps
<1>2. ASSUME NEW s \in Sessions, OpenTerminal(s) PROVE TypeOK'
  BY <1>0, <1>2
    DEF OpenTerminal, BeginConnect, SetCall, TypeOK, MonitorIds, MonitorStatus, Phases,
      MonitorPhases, DiscSteps, trackerVars, workerVars, callVars, monitorVars, discVars
<1>3. ASSUME NEW s \in Sessions, ReconnectTerminal(s) PROVE TypeOK'
  <2>1. 0 \in 0..MaxOpens
    BY <1>0
  <2>2. waitOpen' \in [Sessions -> 0..MaxOpens]
    BY <2>1, <1>3 DEF ReconnectTerminal, TypeOK
  <2>3. call' \in [Sessions -> {"idle", "begun", "checked", "wait", "reopen"}]
    BY <1>3 DEF ReconnectTerminal, SetCall, TypeOK
  <2>4. QED
    BY <2>2, <2>3, <1>3
      DEF ReconnectTerminal, BeginConnect, TypeOK, workerVars, monitorVars, discVars
<1>4. ASSUME NEW s \in Sessions, OpenFails(s) PROVE TypeOK'
  BY <1>0, <1>4
    DEF OpenFails, RecordFailure, SetCall, TypeOK, MonitorIds, MonitorStatus, Phases, MonitorPhases,
      DiscSteps, trackerVars, workerVars, callVars, monitorVars, discVars
<1>5. ASSUME NEW s \in Sessions, OpenCheck(s) PROVE TypeOK'
  BY <1>0, <1>5
    DEF OpenCheck, SetCall, TypeOK, MonitorIds, MonitorStatus, Phases, MonitorPhases, DiscSteps,
      trackerVars, workerVars, callVars, monitorVars, discVars
<1>6. ASSUME NEW s \in Sessions, openWithID(s) PROVE TypeOK'
  <2>1. opens \in [Sessions -> 0..MaxOpens]
    BY DEF TypeOK
  <2>2. CASE Registered(s) \/ HasConnecting
    BY <2>2, <1>6 DEF openWithID, SetCall, TypeOK, trackerVars, workerVars, monitorVars, discVars
  <2>3. CASE ~(Registered(s) \/ HasConnecting)
    <3>1. opens' = [opens EXCEPT ![s] = opens[s] + 1] /\ opens[s] < MaxOpens
      BY <2>3, <1>6 DEF openWithID
    <3>2. opens[s] + 1 \in 0..MaxOpens
      BY <1>0, <2>1, <3>1
    <3>3. opens' \in [Sessions -> 0..MaxOpens]
      BY <2>1, <3>1, <3>2
    <3>4. QED
      BY <2>3, <3>3, <1>6
        DEF openWithID, SetCall, SetPhase, TypeOK, Phases, trackerVars, monitorVars, discVars
  <2>4. QED
    BY <2>2, <2>3
<1>7. ASSUME NEW s \in Sessions, ReconnectClose(s) PROVE TypeOK'
  <2>1. /\ call \in [Sessions -> {"idle", "begun", "checked", "wait", "reopen"}]
        /\ ctxDone \in [Sessions -> BOOLEAN]
        /\ waitOpen \in [Sessions -> 0..MaxOpens]
        /\ opens \in [Sessions -> 0..MaxOpens]
    BY DEF TypeOK
  <2>2. /\ call' \in [Sessions -> {"idle", "begun", "checked", "wait", "reopen"}]
        /\ ctxDone' \in [Sessions -> BOOLEAN]
        /\ waitOpen' \in [Sessions -> 0..MaxOpens]
        /\ opens' \in [Sessions -> 0..MaxOpens]
    BY <1>0, <2>1, <1>7 DEF ReconnectClose, SetCall, Registered
  <2>3. QED
    BY <2>2, <1>7
      DEF ReconnectClose, SetCall, Registered, TypeOK, trackerVars, workerVars, monitorVars,
        discVars
<1>8. ASSUME NEW s \in Sessions, ReconnectClosed(s) PROVE TypeOK'
  BY <1>0, <1>8
    DEF ReconnectClosed, SetCall, TypeOK, MonitorIds, MonitorStatus, Phases, MonitorPhases,
      DiscSteps, trackerVars, workerVars, callVars, monitorVars, discVars
<1>9. ASSUME NEW s \in Sessions, CloseTerminal(s) PROVE TypeOK'
  BY <1>0, <1>9
    DEF CloseTerminal, Registered, TypeOK, MonitorIds, MonitorStatus, Phases, MonitorPhases,
      DiscSteps, trackerVars, workerVars, callVars, monitorVars, discVars
<1>10. ASSUME NEW s \in Sessions, EmitConnecting(s) PROVE TypeOK'
  BY <1>0, <1>10
    DEF EmitConnecting, UpdateTerminal, SetPhase, TypeOK, MonitorIds, MonitorStatus, Phases,
      MonitorPhases, DiscSteps, trackerVars, workerVars, callVars, monitorVars, discVars
<1>11. ASSUME NEW s \in Sessions, ShellOpened(s) PROVE TypeOK'
  BY <1>0, <1>11
    DEF ShellOpened, SetPhase, TypeOK, MonitorIds, MonitorStatus, Phases, MonitorPhases, DiscSteps,
      trackerVars, workerVars, callVars, monitorVars, discVars
<1>12. ASSUME NEW s \in Sessions, EmitOnline(s) PROVE TypeOK'
  BY <1>0, <1>12
    DEF EmitOnline, UpdateTerminal, SetPhase, TypeOK, MonitorIds, MonitorStatus, Phases,
      MonitorPhases, DiscSteps, trackerVars, workerVars, callVars, monitorVars, discVars
<1>13. ASSUME NEW s \in Sessions, SessionCloses(s) PROVE TypeOK'
  BY <1>0, <1>13
    DEF SessionCloses, SetPhase, TypeOK, MonitorIds, MonitorStatus, Phases, MonitorPhases,
      DiscSteps, trackerVars, workerVars, callVars, monitorVars, discVars
<1>14. ASSUME NEW s \in Sessions, SessionFails(s) PROVE TypeOK'
  BY <1>0, <1>14
    DEF SessionFails, SetPhase, TypeOK, MonitorIds, MonitorStatus, Phases, MonitorPhases, DiscSteps,
      trackerVars, workerVars, callVars, monitorVars, discVars
<1>15. ASSUME NEW s \in Sessions, EmitFinal(s) PROVE TypeOK'
  BY <1>0, <1>15
    DEF EmitFinal, UpdateTerminal, SetPhase, TypeOK, MonitorIds, MonitorStatus, Phases,
      MonitorPhases, DiscSteps, trackerVars, workerVars, callVars, monitorVars, discVars
<1>16. ASSUME NEW s \in Sessions, WorkerEnds(s) PROVE TypeOK'
  BY <1>0, <1>16
    DEF WorkerEnds, SetPhase, TypeOK, MonitorIds, MonitorStatus, Phases, MonitorPhases, DiscSteps,
      trackerVars, workerVars, callVars, monitorVars, discVars
<1>17. CASE Connect
  BY <1>0, <1>17
    DEF Connect, BeginConnect, TypeOK, MonitorIds, MonitorStatus, Phases, MonitorPhases, DiscSteps,
      trackerVars, workerVars, callVars, monitorVars, discVars
<1>18. CASE ConnectFails
  BY <1>0, <1>18
    DEF ConnectFails, RecordFailure, TypeOK, MonitorIds, MonitorStatus, Phases, MonitorPhases,
      DiscSteps, trackerVars, workerVars, callVars, monitorVars, discVars
<1>19. CASE Start
  <2>1. monitors' \in 0..MaxMonitors /\ monitorWorker' \in 0..MaxMonitors
    BY <1>0, <1>19 DEF Start, FreshInv, TypeOK
  <2>2. monitorPhase' \in [MonitorIds -> MonitorPhases]
    BY <1>19 DEF Start, TypeOK, MonitorIds, MonitorPhases
  <2>3. QED
    BY <2>1, <2>2, <1>19 DEF Start, TypeOK, trackerVars, workerVars, callVars, discVars
<1>20. ASSUME NEW i \in MonitorIds, MonitorLoop(i) PROVE TypeOK'
  <2>1. /\ monitorStatus \in MonitorStatus
        /\ monitorActive \in BOOLEAN
        /\ lastError \in BOOLEAN
        /\ monitorPhase \in [MonitorIds -> MonitorPhases]
    BY DEF TypeOK
  <2>2. /\ monitorStatus' \in MonitorStatus
        /\ monitorActive' \in BOOLEAN
        /\ lastError' \in BOOLEAN
        /\ monitorPhase' \in [MonitorIds -> MonitorPhases]
    BY <1>0, <2>1, <1>20
      DEF MonitorLoop, UpdateMonitor, SetMonitor, MonitorStatus, MonitorPhases, trackerVars
  <2>3. QED
    BY <2>2, <1>20
      DEF MonitorLoop, UpdateMonitor, SetMonitor, TypeOK, MonitorStatus, MonitorPhases, trackerVars,
        trackerVars, workerVars, callVars, monitorVars, discVars
<1>21. ASSUME NEW i \in MonitorIds, MonitorFails(i) PROVE TypeOK'
  <2>1. /\ monitorStatus \in MonitorStatus
        /\ monitorActive \in BOOLEAN
        /\ lastError \in BOOLEAN
        /\ monitorPhase \in [MonitorIds -> MonitorPhases]
    BY DEF TypeOK
  <2>2. /\ monitorStatus' \in MonitorStatus
        /\ monitorActive' \in BOOLEAN
        /\ lastError' \in BOOLEAN
        /\ monitorPhase' \in [MonitorIds -> MonitorPhases]
    BY <1>0, <2>1, <1>21
      DEF MonitorFails, UpdateMonitor, SetMonitor, MonitorStatus, MonitorPhases, trackerVars
  <2>3. QED
    BY <2>2, <1>21
      DEF MonitorFails, UpdateMonitor, SetMonitor, TypeOK, MonitorStatus, MonitorPhases,
        trackerVars, trackerVars, workerVars, callVars, monitorVars, discVars
<1>22. ASSUME NEW i \in MonitorIds, MonitorSample(i) PROVE TypeOK'
  BY <1>0, <1>22
    DEF MonitorSample, UpdateMonitor, SetMonitor, TypeOK, MonitorIds, MonitorStatus, Phases,
      MonitorPhases, DiscSteps, trackerVars, workerVars, callVars, monitorVars, discVars
<1>23. ASSUME NEW i \in MonitorIds, MonitorRemoved(i) PROVE TypeOK'
  BY <1>0, <1>23
    DEF MonitorRemoved, SetMonitor, TypeOK, MonitorIds, MonitorStatus, Phases, MonitorPhases,
      DiscSteps, trackerVars, workerVars, callVars, monitorVars, discVars
<1>24. ASSUME NEW i \in MonitorIds, MonitorEnds(i) PROVE TypeOK'
  BY <1>0, <1>24
    DEF MonitorEnds, UpdateMonitor, SetMonitor, TypeOK, MonitorIds, MonitorStatus, Phases,
      MonitorPhases, DiscSteps, trackerVars, workerVars, callVars, monitorVars, discVars
<1>25. ASSUME NEW d \in Disconnectors, Disconnect(d) PROVE TypeOK'
  <2>1. disconnects' \in 0..MaxDisconnects
    BY <1>0, <1>25 DEF Disconnect, TypeOK
  <2>2. \A s \in Sessions : <<s, opens[s]>> \in Sessions \X (0..MaxOpens)
    BY DEF TypeOK
  <2>3. {<<s, opens[s]>> : s \in {x \in Sessions : Registered(x)}} \subseteq Sessions \X (0..MaxOpens)
    BY <2>2
  <2>4. before' \in [Disconnectors -> SUBSET (Sessions \X (0..MaxOpens))]
    BY <2>3, <1>25 DEF Disconnect, TypeOK
  <2>5. QED
    BY <2>1, <2>4, <1>25 DEF Disconnect, BeginDisconnect, SetDisc, TypeOK, DiscSteps, workerVars, callVars, monitorVars
<1>26. ASSUME NEW d \in Disconnectors, StopMonitor(d) PROVE TypeOK'
  <2>1. waitMonitor' \in [Disconnectors -> 0..MaxMonitors]
    BY <1>26 DEF StopMonitor, TypeOK
  <2>2. monitorDone' \in [MonitorIds -> BOOLEAN]
    BY <1>26 DEF StopMonitor, TypeOK, MonitorIds
  <2>3. QED
    BY <2>1, <2>2, <1>26 DEF StopMonitor, SetDisc, TypeOK, DiscSteps, trackerVars, workerVars, callVars
<1>27. ASSUME NEW d \in Disconnectors, MonitorStopped(d) PROVE TypeOK'
  BY <1>0, <1>27
    DEF MonitorStopped, SetDisc, TypeOK, MonitorIds, MonitorStatus, Phases, MonitorPhases,
      DiscSteps, trackerVars, workerVars, callVars, monitorVars, discVars
<1>28. ASSUME NEW d \in Disconnectors, StopConnection(d) PROVE TypeOK'
  BY <1>0, <1>28
    DEF StopConnection, SetDisc, Registered, TypeOK, MonitorIds, MonitorStatus, Phases,
      MonitorPhases, DiscSteps, trackerVars, workerVars, callVars, monitorVars, discVars
<1>29. ASSUME NEW d \in Disconnectors, CloseNext(d) PROVE TypeOK'
  <2>1. PICK s \in toClose[d] :
          /\ toClose' = [toClose EXCEPT ![d] = @ \ {s}]
          /\ IF Registered(s)
               THEN /\ ctxDone' = [ctxDone EXCEPT ![s] = TRUE]
                    /\ waitSession' = [waitSession EXCEPT ![d] = <<s, opens[s]>>]
                    /\ SetDisc(d, "waitSession")
               ELSE UNCHANGED <<ctxDone, waitSession, disc>>
    BY <1>29 DEF CloseNext
  <2>2. s \in Sessions
    BY DEF TypeOK
  <2>3. ctxDone' \in [Sessions -> BOOLEAN] /\ disc' \in [Disconnectors -> DiscSteps]
    BY <2>1, <2>2 DEF SetDisc, TypeOK, DiscSteps
  <2>4. toClose' \in [Disconnectors -> SUBSET Sessions]
    BY <2>1 DEF TypeOK
  <2>5. waitSession' \in [Disconnectors -> (Sessions \X (0..MaxOpens)) \cup {<<>>}]
    <3>1. <<s, opens[s]>> \in Sessions \X (0..MaxOpens)
      BY <2>2 DEF TypeOK
    <3>2. QED
      BY <2>1, <3>1 DEF TypeOK
  <2>6. QED
    BY <2>3, <2>4, <2>5, <1>29 DEF CloseNext, TypeOK, trackerVars, callVars, monitorVars
<1>30. ASSUME NEW d \in Disconnectors, SessionClosed(d) PROVE TypeOK'
  BY <1>0, <1>30
    DEF SessionClosed, SetDisc, TypeOK, MonitorIds, MonitorStatus, Phases, MonitorPhases, DiscSteps,
      trackerVars, workerVars, callVars, monitorVars, discVars
<1>31. ASSUME NEW d \in Disconnectors, StopOthers(d) PROVE TypeOK'
  BY <1>0, <1>31
    DEF StopOthers, SetDisc, TypeOK, MonitorIds, MonitorStatus, Phases, MonitorPhases, DiscSteps,
      trackerVars, workerVars, callVars, monitorVars, discVars
<1>32. ASSUME NEW d \in Disconnectors, Complete(d) PROVE TypeOK'
  <2>1. /\ terminals' \in [Sessions -> {"none", "connecting", "online"}]
        /\ ignored' \subseteq Sessions
    BY <1>32 DEF Complete, CompleteDisconnect, TypeOK
  <2>2. 0 \in 0..MaxMonitors
    BY <1>0
  <2>3. waitMonitor' \in [Disconnectors -> 0..MaxMonitors]
    BY <2>2, <1>32 DEF Complete, TypeOK
  <2>4. before' \in [Disconnectors -> SUBSET (Sessions \X (0..MaxOpens))]
    BY <1>32 DEF Complete, TypeOK
  <2>5. QED
    BY <2>1, <2>3, <2>4, <1>32
      DEF Complete, CompleteDisconnect, SetDisc, TypeOK, DiscSteps, MonitorStatus, workerVars,
          callVars, monitorVars
<1>33. CASE UNCHANGED vars
  BY <1>1, <1>33 DEF vars, trackerVars, workerVars, callVars, monitorVars, discVars
<1>34. QED
  BY <1>1, <1>2, <1>3, <1>4, <1>5, <1>6, <1>7, <1>8, <1>9, <1>10, <1>11, <1>12, <1>13, <1>14, <1>15,
     <1>16, <1>17, <1>18, <1>19, <1>20, <1>21, <1>22, <1>23, <1>24, <1>25, <1>26, <1>27, <1>28,
     <1>29, <1>30, <1>31, <1>32, <1>33
    DEF Next, User, Call, Session, Monitor, MonitorLeaves, Coordinator

\* A blocked server ignores every event, until BeginConnect.
LEMMA QuietStep ==
  ASSUME TypeOK, QuietInv, [Next]_vars
  PROVE  QuietInv'
<1>0. terminals \in [Sessions -> {"none", "connecting", "online"}]
  BY DEF TypeOK
<1>1. CASE UNCHANGED <<blocked, monitorStatus, monitorActive, lastError, terminals>>
  BY <1>0, <1>1 DEF QuietInv
<1>2. ASSUME NEW s \in Sessions, OpenTerminal(s) PROVE QuietInv'
  BY <1>0, <1>2 DEF OpenTerminal, BeginConnect, SetCall, QuietInv, trackerVars
<1>3. ASSUME NEW s \in Sessions, ReconnectTerminal(s) PROVE QuietInv'
  BY <1>0, <1>3 DEF ReconnectTerminal, BeginConnect, SetCall, QuietInv, trackerVars
<1>4. ASSUME NEW s \in Sessions, OpenFails(s) PROVE QuietInv'
  BY <1>0, <1>4 DEF OpenFails, RecordFailure, SetCall, QuietInv, trackerVars
<1>5. ASSUME NEW s \in Sessions, EmitConnecting(s) PROVE QuietInv'
  BY <1>0, <1>5 DEF EmitConnecting, UpdateTerminal, SetPhase, QuietInv, trackerVars
<1>6. ASSUME NEW s \in Sessions, EmitOnline(s) PROVE QuietInv'
  BY <1>0, <1>6 DEF EmitOnline, UpdateTerminal, SetPhase, QuietInv, trackerVars
<1>7. ASSUME NEW s \in Sessions, EmitFinal(s) PROVE QuietInv'
  BY <1>0, <1>7 DEF EmitFinal, UpdateTerminal, SetPhase, QuietInv, trackerVars
<1>8. CASE Connect
  BY <1>0, <1>8 DEF Connect, BeginConnect, QuietInv, trackerVars
<1>9. CASE ConnectFails
  BY <1>0, <1>9 DEF ConnectFails, RecordFailure, QuietInv, trackerVars
<1>10. ASSUME NEW i \in MonitorIds, MonitorLoop(i) PROVE QuietInv'
  BY <1>0, <1>10 DEF MonitorLoop, UpdateMonitor, SetMonitor, QuietInv, trackerVars
<1>11. ASSUME NEW i \in MonitorIds, MonitorFails(i) PROVE QuietInv'
  BY <1>0, <1>11 DEF MonitorFails, UpdateMonitor, SetMonitor, QuietInv, trackerVars
<1>12. ASSUME NEW i \in MonitorIds, MonitorSample(i) PROVE QuietInv'
  BY <1>0, <1>12 DEF MonitorSample, UpdateMonitor, SetMonitor, QuietInv, trackerVars
<1>13. ASSUME NEW i \in MonitorIds, MonitorEnds(i) PROVE QuietInv'
  BY <1>0, <1>13 DEF MonitorEnds, UpdateMonitor, SetMonitor, QuietInv, trackerVars
<1>14. ASSUME NEW d \in Disconnectors, Complete(d) PROVE QuietInv'
  BY <1>0, <1>14 DEF Complete, CompleteDisconnect, SetDisc, QuietInv, trackerVars
<1>15. ASSUME NEW s \in Sessions, OpenCheck(s) \/ openWithID(s) \/ ReconnectClose(s)
                                 \/ ReconnectClosed(s) \/ CloseTerminal(s) \/ ShellOpened(s)
                                 \/ SessionCloses(s) \/ SessionFails(s) \/ WorkerEnds(s)
       PROVE  UNCHANGED <<blocked, monitorStatus, monitorActive, lastError, terminals>>
  BY <1>15
    DEF OpenCheck, openWithID, ReconnectClose, ReconnectClosed, CloseTerminal, ShellOpened,
      SessionCloses, SessionFails, WorkerEnds, trackerVars
<1>16. ASSUME NEW i \in MonitorIds, MonitorRemoved(i)
       PROVE  UNCHANGED <<blocked, monitorStatus, monitorActive, lastError, terminals>>
  BY <1>16 DEF MonitorRemoved, trackerVars
<1>17. ASSUME NEW d \in Disconnectors, Disconnect(d) \/ StopMonitor(d) \/ MonitorStopped(d)
                                 \/ StopConnection(d) \/ CloseNext(d) \/ SessionClosed(d)
                                 \/ StopOthers(d)
       PROVE  UNCHANGED <<blocked, monitorStatus, monitorActive, lastError, terminals>>
  BY <1>17
    DEF Disconnect, StopMonitor, MonitorStopped, StopConnection, CloseNext, SessionClosed,
      StopOthers, BeginDisconnect, trackerVars
<1>18. CASE Start \/ UNCHANGED vars
  BY <1>1, <1>18 DEF Start, vars, trackerVars
<1>19. QED
  BY <1>1, <1>2, <1>3, <1>4, <1>5, <1>6, <1>7, <1>8, <1>9, <1>10, <1>11, <1>12, <1>13, <1>14, <1>15,
     <1>16, <1>17, <1>18
    DEF Next, User, Call, Session, Monitor, MonitorLeaves, Coordinator

\* EmitOnline shows the session or is ignored; so is what CompleteDisconnect takes out.
LEMMA OnlineStep ==
  ASSUME TypeOK, OnlineInv, [Next]_vars
  PROVE  OnlineInv'
<1>0. terminals \in [Sessions -> {"none", "connecting", "online"}] /\ phase \in [Sessions -> Phases]
  BY DEF TypeOK
<1>1. CASE UNCHANGED <<phase, terminals, ignored>>
  BY <1>0, <1>1 DEF OnlineInv
<1>2. ASSUME NEW s \in Sessions, openWithID(s) PROVE OnlineInv'
  BY <1>0, <1>2
    DEF openWithID, SetCall, SetPhase, Registered, HasConnecting, OnlineInv, trackerVars, workerVars
<1>3. ASSUME NEW s \in Sessions, EmitConnecting(s) PROVE OnlineInv'
  BY <1>0, <1>3 DEF EmitConnecting, UpdateTerminal, SetPhase, OnlineInv, trackerVars, workerVars
<1>4. ASSUME NEW s \in Sessions, ShellOpened(s) PROVE OnlineInv'
  BY <1>0, <1>4 DEF ShellOpened, SetPhase, OnlineInv, trackerVars, workerVars
<1>5. ASSUME NEW s \in Sessions, EmitOnline(s) PROVE OnlineInv'
  BY <1>0, <1>5 DEF EmitOnline, UpdateTerminal, SetPhase, OnlineInv, trackerVars, workerVars
<1>6. ASSUME NEW s \in Sessions, SessionCloses(s) PROVE OnlineInv'
  BY <1>0, <1>6 DEF SessionCloses, SetPhase, OnlineInv, trackerVars, workerVars
<1>7. ASSUME NEW s \in Sessions, SessionFails(s) PROVE OnlineInv'
  BY <1>0, <1>7 DEF SessionFails, SetPhase, OnlineInv, trackerVars, workerVars
<1>8. ASSUME NEW s \in Sessions, EmitFinal(s) PROVE OnlineInv'
  BY <1>0, <1>8 DEF EmitFinal, UpdateTerminal, SetPhase, OnlineInv, trackerVars, workerVars
<1>9. ASSUME NEW s \in Sessions, WorkerEnds(s) PROVE OnlineInv'
  BY <1>0, <1>9 DEF WorkerEnds, SetPhase, OnlineInv, trackerVars, workerVars
<1>10. ASSUME NEW d \in Disconnectors, Complete(d) PROVE OnlineInv'
  BY <1>0, <1>10 DEF Complete, CompleteDisconnect, SetDisc, OnlineInv, trackerVars, workerVars
<1>11. ASSUME NEW s \in Sessions, OpenTerminal(s) \/ ReconnectTerminal(s) \/ OpenFails(s)
                                 \/ OpenCheck(s) \/ ReconnectClose(s) \/ ReconnectClosed(s)
                                 \/ CloseTerminal(s)
       PROVE  UNCHANGED <<phase, terminals, ignored>>
  BY <1>11
    DEF OpenTerminal, ReconnectTerminal, OpenFails, OpenCheck, ReconnectClose, ReconnectClosed,
      CloseTerminal, BeginConnect, RecordFailure, trackerVars, workerVars
<1>12. ASSUME NEW i \in MonitorIds, MonitorLoop(i) \/ MonitorFails(i) \/ MonitorSample(i)
                                 \/ MonitorRemoved(i) \/ MonitorEnds(i)
       PROVE  UNCHANGED <<phase, terminals, ignored>>
  BY <1>12
    DEF MonitorLoop, MonitorFails, MonitorSample, MonitorRemoved, MonitorEnds, UpdateMonitor,
      trackerVars, workerVars
<1>13. ASSUME NEW d \in Disconnectors, Disconnect(d) \/ StopMonitor(d) \/ MonitorStopped(d)
                                 \/ StopConnection(d) \/ CloseNext(d) \/ SessionClosed(d)
                                 \/ StopOthers(d)
       PROVE  UNCHANGED <<phase, terminals, ignored>>
  BY <1>13
    DEF Disconnect, StopMonitor, MonitorStopped, StopConnection, CloseNext, SessionClosed,
      StopOthers, BeginDisconnect, trackerVars, workerVars
<1>14. CASE Connect \/ ConnectFails \/ Start \/ UNCHANGED vars
  BY <1>1, <1>14
    DEF Connect, ConnectFails, Start, BeginConnect, RecordFailure, vars, trackerVars, workerVars
<1>15. QED
  BY <1>1, <1>2, <1>3, <1>4, <1>5, <1>6, <1>7, <1>8, <1>9, <1>10, <1>11, <1>12, <1>13, <1>14
    DEF Next, User, Call, Session, Monitor, MonitorLeaves, Coordinator

\* The last event of a session comes before its worker leaves the manager.
LEMMA GhostStep ==
  ASSUME TypeOK, NoGhostTerminal, QuietInv, [Next]_vars
  PROVE  NoGhostTerminal'
<1>0. terminals \in [Sessions -> {"none", "connecting", "online"}] /\ phase \in [Sessions -> Phases]
  BY DEF TypeOK
<1>1. CASE UNCHANGED <<phase, terminals>>
  BY <1>0, <1>1 DEF NoGhostTerminal, QuietInv
<1>2. ASSUME NEW s \in Sessions, openWithID(s) PROVE NoGhostTerminal'
  BY <1>0, <1>2
    DEF openWithID, SetCall, SetPhase, Registered, HasConnecting, NoGhostTerminal, QuietInv,
      trackerVars, workerVars
<1>3. ASSUME NEW s \in Sessions, EmitConnecting(s) PROVE NoGhostTerminal'
  BY <1>0, <1>3
    DEF EmitConnecting, UpdateTerminal, SetPhase, NoGhostTerminal, QuietInv, trackerVars, workerVars
<1>4. ASSUME NEW s \in Sessions, ShellOpened(s) PROVE NoGhostTerminal'
  BY <1>0, <1>4 DEF ShellOpened, SetPhase, NoGhostTerminal, QuietInv, trackerVars, workerVars
<1>5. ASSUME NEW s \in Sessions, EmitOnline(s) PROVE NoGhostTerminal'
  BY <1>0, <1>5
    DEF EmitOnline, UpdateTerminal, SetPhase, NoGhostTerminal, QuietInv, trackerVars, workerVars
<1>6. ASSUME NEW s \in Sessions, SessionCloses(s) PROVE NoGhostTerminal'
  BY <1>0, <1>6 DEF SessionCloses, SetPhase, NoGhostTerminal, QuietInv, trackerVars, workerVars
<1>7. ASSUME NEW s \in Sessions, SessionFails(s) PROVE NoGhostTerminal'
  BY <1>0, <1>7 DEF SessionFails, SetPhase, NoGhostTerminal, QuietInv, trackerVars, workerVars
<1>8. ASSUME NEW s \in Sessions, EmitFinal(s) PROVE NoGhostTerminal'
  BY <1>0, <1>8
    DEF EmitFinal, UpdateTerminal, SetPhase, NoGhostTerminal, QuietInv, trackerVars, workerVars
<1>9. ASSUME NEW s \in Sessions, WorkerEnds(s) PROVE NoGhostTerminal'
  BY <1>0, <1>9 DEF WorkerEnds, SetPhase, NoGhostTerminal, QuietInv, trackerVars, workerVars
<1>10. ASSUME NEW d \in Disconnectors, Complete(d) PROVE NoGhostTerminal'
  BY <1>0, <1>10
    DEF Complete, CompleteDisconnect, SetDisc, NoGhostTerminal, QuietInv, trackerVars, workerVars
<1>11. ASSUME NEW s \in Sessions, OpenTerminal(s) \/ ReconnectTerminal(s) \/ OpenFails(s)
                                 \/ OpenCheck(s) \/ ReconnectClose(s) \/ ReconnectClosed(s)
                                 \/ CloseTerminal(s)
       PROVE  UNCHANGED <<phase, terminals>>
  BY <1>11
    DEF OpenTerminal, ReconnectTerminal, OpenFails, OpenCheck, ReconnectClose, ReconnectClosed,
      CloseTerminal, BeginConnect, RecordFailure, trackerVars, workerVars
<1>12. ASSUME NEW i \in MonitorIds, MonitorLoop(i) \/ MonitorFails(i) \/ MonitorSample(i)
                                 \/ MonitorRemoved(i) \/ MonitorEnds(i)
       PROVE  UNCHANGED <<phase, terminals>>
  BY <1>12
    DEF MonitorLoop, MonitorFails, MonitorSample, MonitorRemoved, MonitorEnds, UpdateMonitor,
      trackerVars, workerVars
<1>13. ASSUME NEW d \in Disconnectors, Disconnect(d) \/ StopMonitor(d) \/ MonitorStopped(d)
                                 \/ StopConnection(d) \/ CloseNext(d) \/ SessionClosed(d)
                                 \/ StopOthers(d)
       PROVE  UNCHANGED <<phase, terminals>>
  BY <1>13
    DEF Disconnect, StopMonitor, MonitorStopped, StopConnection, CloseNext, SessionClosed,
      StopOthers, BeginDisconnect, trackerVars, workerVars
<1>14. CASE Connect \/ ConnectFails \/ Start \/ UNCHANGED vars
  BY <1>1, <1>14
    DEF Connect, ConnectFails, Start, BeginConnect, RecordFailure, vars, trackerVars, workerVars
<1>15. QED
  BY <1>1, <1>2, <1>3, <1>4, <1>5, <1>6, <1>7, <1>8, <1>9, <1>10, <1>11, <1>12, <1>13, <1>14
    DEF Next, User, Call, Session, Monitor, MonitorLeaves, Coordinator

\* info changes with the phase.
LEMMA InfoStep ==
  ASSUME TypeOK, InfoInv, [Next]_vars
  PROVE  InfoInv'
<1>0. info \in [Sessions -> {"connecting", "online", "error"}] /\ phase \in [Sessions -> Phases]
  BY DEF TypeOK
<1>1. CASE UNCHANGED <<phase, info>>
  BY <1>0, <1>1 DEF InfoInv
<1>2. ASSUME NEW s \in Sessions, openWithID(s) PROVE InfoInv'
  BY <1>0, <1>2 DEF openWithID, SetCall, SetPhase, Registered, HasConnecting, InfoInv, workerVars
<1>3. ASSUME NEW s \in Sessions, EmitConnecting(s) PROVE InfoInv'
  BY <1>0, <1>3 DEF EmitConnecting, UpdateTerminal, SetPhase, InfoInv, workerVars
<1>4. ASSUME NEW s \in Sessions, ShellOpened(s) PROVE InfoInv'
  BY <1>0, <1>4 DEF ShellOpened, SetPhase, InfoInv, workerVars
<1>5. ASSUME NEW s \in Sessions, EmitOnline(s) PROVE InfoInv'
  BY <1>0, <1>5 DEF EmitOnline, UpdateTerminal, SetPhase, InfoInv, workerVars
<1>6. ASSUME NEW s \in Sessions, SessionCloses(s) PROVE InfoInv'
  BY <1>0, <1>6 DEF SessionCloses, SetPhase, InfoInv, workerVars
<1>7. ASSUME NEW s \in Sessions, SessionFails(s) PROVE InfoInv'
  BY <1>0, <1>7 DEF SessionFails, SetPhase, InfoInv, workerVars
<1>8. ASSUME NEW s \in Sessions, EmitFinal(s) PROVE InfoInv'
  BY <1>0, <1>8 DEF EmitFinal, UpdateTerminal, SetPhase, InfoInv, workerVars
<1>9. ASSUME NEW s \in Sessions, WorkerEnds(s) PROVE InfoInv'
  BY <1>0, <1>9 DEF WorkerEnds, SetPhase, InfoInv, workerVars
<1>10. ASSUME NEW s \in Sessions, OpenTerminal(s) \/ ReconnectTerminal(s) \/ OpenFails(s)
                                 \/ OpenCheck(s) \/ ReconnectClose(s) \/ ReconnectClosed(s)
                                 \/ CloseTerminal(s)
       PROVE  UNCHANGED <<phase, info>>
  BY <1>10
    DEF OpenTerminal, ReconnectTerminal, OpenFails, OpenCheck, ReconnectClose, ReconnectClosed,
      CloseTerminal, BeginConnect, RecordFailure, workerVars
<1>11. ASSUME NEW i \in MonitorIds, MonitorLoop(i) \/ MonitorFails(i) \/ MonitorSample(i)
                                 \/ MonitorRemoved(i) \/ MonitorEnds(i)
       PROVE  UNCHANGED <<phase, info>>
  BY <1>11
    DEF MonitorLoop, MonitorFails, MonitorSample, MonitorRemoved, MonitorEnds, UpdateMonitor,
      workerVars
<1>12. ASSUME NEW d \in Disconnectors, Disconnect(d) \/ StopMonitor(d) \/ MonitorStopped(d)
                                 \/ StopConnection(d) \/ CloseNext(d) \/ SessionClosed(d)
                                 \/ StopOthers(d) \/ Complete(d)
       PROVE  UNCHANGED <<phase, info>>
  BY <1>12
    DEF Disconnect, StopMonitor, MonitorStopped, StopConnection, CloseNext, SessionClosed,
      StopOthers, Complete, BeginDisconnect, CompleteDisconnect, workerVars
<1>13. CASE Connect \/ ConnectFails \/ Start \/ UNCHANGED vars
  BY <1>1, <1>13 DEF Connect, ConnectFails, Start, BeginConnect, RecordFailure, vars, workerVars
<1>14. QED
  BY <1>1, <1>2, <1>3, <1>4, <1>5, <1>6, <1>7, <1>8, <1>9, <1>10, <1>11, <1>12, <1>13
    DEF Next, User, Call, Session, Monitor, MonitorLeaves, Coordinator

\* openWithID finds a session that is being set up by its info.
LEMMA OneStep ==
  ASSUME TypeOK, OneConnecting, InfoInv, [Next]_vars
  PROVE  OneConnecting'
<1>0. phase \in [Sessions -> Phases]
  BY DEF TypeOK
<1>1. CASE UNCHANGED <<phase>>
  BY <1>0, <1>1 DEF OneConnecting, InfoInv
<1>2. ASSUME NEW s \in Sessions, openWithID(s) PROVE OneConnecting'
  BY <1>0, <1>2
    DEF openWithID, SetCall, SetPhase, Registered, HasConnecting, OneConnecting, InfoInv, workerVars
<1>3. ASSUME NEW s \in Sessions, EmitConnecting(s) PROVE OneConnecting'
  BY <1>0, <1>3 DEF EmitConnecting, UpdateTerminal, SetPhase, OneConnecting, InfoInv, workerVars
<1>4. ASSUME NEW s \in Sessions, ShellOpened(s) PROVE OneConnecting'
  BY <1>0, <1>4 DEF ShellOpened, SetPhase, OneConnecting, InfoInv, workerVars
<1>5. ASSUME NEW s \in Sessions, EmitOnline(s) PROVE OneConnecting'
  BY <1>0, <1>5 DEF EmitOnline, UpdateTerminal, SetPhase, OneConnecting, InfoInv, workerVars
<1>6. ASSUME NEW s \in Sessions, SessionCloses(s) PROVE OneConnecting'
  BY <1>0, <1>6 DEF SessionCloses, SetPhase, OneConnecting, InfoInv, workerVars
<1>7. ASSUME NEW s \in Sessions, SessionFails(s) PROVE OneConnecting'
  BY <1>0, <1>7 DEF SessionFails, SetPhase, OneConnecting, InfoInv, workerVars
<1>8. ASSUME NEW s \in Sessions, EmitFinal(s) PROVE OneConnecting'
  BY <1>0, <1>8 DEF EmitFinal, UpdateTerminal, SetPhase, OneConnecting, InfoInv, workerVars
<1>9. ASSUME NEW s \in Sessions, WorkerEnds(s) PROVE OneConnecting'
  BY <1>0, <1>9 DEF WorkerEnds, SetPhase, OneConnecting, InfoInv, workerVars
<1>10. ASSUME NEW s \in Sessions, OpenTerminal(s) \/ ReconnectTerminal(s) \/ OpenFails(s)
                                 \/ OpenCheck(s) \/ ReconnectClose(s) \/ ReconnectClosed(s)
                                 \/ CloseTerminal(s)
       PROVE  UNCHANGED <<phase>>
  BY <1>10
    DEF OpenTerminal, ReconnectTerminal, OpenFails, OpenCheck, ReconnectClose, ReconnectClosed,
      CloseTerminal, BeginConnect, RecordFailure, workerVars
<1>11. ASSUME NEW i \in MonitorIds, MonitorLoop(i) \/ MonitorFails(i) \/ MonitorSample(i)
                                 \/ MonitorRemoved(i) \/ MonitorEnds(i)
       PROVE  UNCHANGED <<phase>>
  BY <1>11
    DEF MonitorLoop, MonitorFails, MonitorSample, MonitorRemoved, MonitorEnds, UpdateMonitor,
      workerVars
<1>12. ASSUME NEW d \in Disconnectors, Disconnect(d) \/ StopMonitor(d) \/ MonitorStopped(d)
                                 \/ StopConnection(d) \/ CloseNext(d) \/ SessionClosed(d)
                                 \/ StopOthers(d) \/ Complete(d)
       PROVE  UNCHANGED <<phase>>
  BY <1>12
    DEF Disconnect, StopMonitor, MonitorStopped, StopConnection, CloseNext, SessionClosed,
      StopOthers, Complete, BeginDisconnect, CompleteDisconnect, workerVars
<1>13. CASE Connect \/ ConnectFails \/ Start \/ UNCHANGED vars
  BY <1>1, <1>13 DEF Connect, ConnectFails, Start, BeginConnect, RecordFailure, vars, workerVars
<1>14. QED
  BY <1>1, <1>2, <1>3, <1>4, <1>5, <1>6, <1>7, <1>8, <1>9, <1>10, <1>11, <1>12, <1>13
    DEF Next, User, Call, Session, Monitor, MonitorLeaves, Coordinator

\* Start takes the next number.
LEMMA FreshStep ==
  ASSUME TypeOK, FreshInv, [Next]_vars
  PROVE  FreshInv'
<1>0. monitorPhase \in [MonitorIds -> MonitorPhases] /\ monitors \in Nat
  BY DEF TypeOK
<1>1. CASE UNCHANGED <<monitors, monitorPhase, connectCall>>
  BY <1>0, <1>1 DEF FreshInv, MonitorIds
<1>2. CASE Connect
  BY <1>0, <1>2 DEF Connect, BeginConnect, FreshInv, MonitorIds, monitorVars
<1>3. CASE ConnectFails
  BY <1>0, <1>3 DEF ConnectFails, RecordFailure, FreshInv, MonitorIds, monitorVars
<1>4. CASE Start
  <2>0. MaxMonitors \in Nat
    BY BoundAssumption
  <2>1. monitors' \in Nat /\ monitors' >= monitors /\ connectCall' = "idle"
    BY <1>0, <1>4 DEF Start
  <2>2. \A i \in MonitorIds : i > monitors' => monitorPhase'[i] = monitorPhase[i]
    BY <1>0, <2>0, <1>4 DEF Start, MonitorIds
  <2>3. \A i \in MonitorIds : i > monitors' => i > monitors
    BY <1>0, <2>1 DEF MonitorIds
  <2>4. QED
    BY <2>1, <2>2, <2>3 DEF FreshInv
<1>5. ASSUME NEW i \in MonitorIds, MonitorLoop(i) PROVE FreshInv'
  BY <1>0, <1>5 DEF MonitorLoop, UpdateMonitor, SetMonitor, FreshInv, MonitorIds, monitorVars
<1>6. ASSUME NEW i \in MonitorIds, MonitorFails(i) PROVE FreshInv'
  BY <1>0, <1>6 DEF MonitorFails, UpdateMonitor, SetMonitor, FreshInv, MonitorIds, monitorVars
<1>7. ASSUME NEW i \in MonitorIds, MonitorSample(i) PROVE FreshInv'
  BY <1>0, <1>7 DEF MonitorSample, UpdateMonitor, SetMonitor, FreshInv, MonitorIds, monitorVars
<1>8. ASSUME NEW i \in MonitorIds, MonitorRemoved(i) PROVE FreshInv'
  BY <1>0, <1>8 DEF MonitorRemoved, SetMonitor, FreshInv, MonitorIds, monitorVars
<1>9. ASSUME NEW i \in MonitorIds, MonitorEnds(i) PROVE FreshInv'
  BY <1>0, <1>9 DEF MonitorEnds, UpdateMonitor, SetMonitor, FreshInv, MonitorIds, monitorVars
<1>10. ASSUME NEW s \in Sessions, OpenTerminal(s) \/ ReconnectTerminal(s) \/ OpenFails(s)
                                 \/ OpenCheck(s) \/ openWithID(s) \/ ReconnectClose(s)
                                 \/ ReconnectClosed(s) \/ CloseTerminal(s) \/ EmitConnecting(s)
                                 \/ ShellOpened(s) \/ EmitOnline(s) \/ SessionCloses(s)
                                 \/ SessionFails(s) \/ EmitFinal(s) \/ WorkerEnds(s)
       PROVE  UNCHANGED <<monitors, monitorPhase, connectCall>>
  BY <1>10
    DEF OpenTerminal, ReconnectTerminal, OpenFails, OpenCheck, openWithID, ReconnectClose,
      ReconnectClosed, CloseTerminal, EmitConnecting, ShellOpened, EmitOnline, SessionCloses,
      SessionFails, EmitFinal, WorkerEnds, BeginConnect, RecordFailure, UpdateTerminal, monitorVars
<1>11. ASSUME NEW d \in Disconnectors, Disconnect(d) \/ StopMonitor(d) \/ MonitorStopped(d)
                                 \/ StopConnection(d) \/ CloseNext(d) \/ SessionClosed(d)
                                 \/ StopOthers(d) \/ Complete(d)
       PROVE  UNCHANGED <<monitors, monitorPhase, connectCall>>
  BY <1>11
    DEF Disconnect, StopMonitor, MonitorStopped, StopConnection, CloseNext, SessionClosed,
      StopOthers, Complete, BeginDisconnect, CompleteDisconnect, monitorVars
<1>12. CASE UNCHANGED vars
  BY <1>1, <1>12 DEF vars, monitorVars
<1>13. QED
  BY <1>1, <1>2, <1>3, <1>4, <1>5, <1>6, <1>7, <1>8, <1>9, <1>10, <1>11, <1>12
    DEF Next, User, Call, Session, Monitor, MonitorLeaves, Coordinator

\* A worker that backs what the tracker says of the monitor.
Backs(i) == \/ monitorPhase[i] \in {"dialing", "sampling", "retry"}
            \/ monitorPhase[i] \in {"return", "removed"} /\ monitorDone[i]

\* NoGhostMonitor, by the worker that backs it.
LEMMA GhostDef == /\ NoGhostMonitor <=> (monitorActive => \E i \in MonitorIds : Backs(i))
                  /\ NoGhostMonitor' <=> (monitorActive' => \E i \in MonitorIds : Backs(i)')
BY DEF NoGhostMonitor, Backs

\* A worker that leaves publishes "disconnected" last, if it was cancelled, and an error if not.
LEMMA MonitorStep ==
  ASSUME TypeOK, NoGhostMonitor, QuietInv, FreshInv, [Next]_vars
  PROVE  NoGhostMonitor'
<1>0. monitorPhase \in [MonitorIds -> MonitorPhases] /\ monitorDone \in [MonitorIds -> BOOLEAN]
  BY DEF TypeOK
<1>1. CASE UNCHANGED <<monitorPhase, monitorActive, monitorDone>>
  BY <1>0, <1>1 DEF NoGhostMonitor, Backs
<1>2. CASE Start
  <2>1. \A x \in MonitorIds : Backs(x) => x # monitors + 1
    BY DEF FreshInv, Backs, TypeOK, MonitorIds
  <2>2. \A x \in MonitorIds : Backs(x) => Backs(x)'
    BY <1>0, <2>1, <1>2 DEF Start, Backs
  <2>3. QED
    BY <2>2, <1>2, GhostDef DEF Start, trackerVars
<1>3. ASSUME NEW i \in MonitorIds, MonitorLoop(i) PROVE NoGhostMonitor'
  BY <1>0, <1>3
    DEF MonitorLoop, UpdateMonitor, SetMonitor, NoGhostMonitor, Backs, trackerVars, monitorVars
<1>4. ASSUME NEW i \in MonitorIds, MonitorFails(i) PROVE NoGhostMonitor'
  <2>1. monitorActive' => monitorPhase'[i] = "retry"
    <3>1. PICK r \in BOOLEAN :
            \/ UpdateMonitor("error", r, TRUE) /\ SetMonitor(i, IF r THEN "retry" ELSE "return")
            \/ SetMonitor(i, "retry")
      BY <1>4 DEF MonitorFails
    <3>2. CASE r
      BY <1>0, <3>1, <3>2 DEF SetMonitor
    <3>3. CASE ~r
      BY <1>0, <3>1, <3>3 DEF SetMonitor, UpdateMonitor, QuietInv
    <3>4. QED
      BY <3>2, <3>3
  <2>2. QED
    BY <2>1, GhostDef DEF Backs
<1>5. ASSUME NEW i \in MonitorIds, MonitorSample(i) PROVE NoGhostMonitor'
  BY <1>0, <1>5
    DEF MonitorSample, UpdateMonitor, SetMonitor, NoGhostMonitor, Backs, trackerVars, monitorVars
<1>6. ASSUME NEW i \in MonitorIds, MonitorRemoved(i) PROVE NoGhostMonitor'
  BY <1>0, <1>6 DEF MonitorRemoved, SetMonitor, NoGhostMonitor, Backs, trackerVars, monitorVars
<1>7. ASSUME NEW i \in MonitorIds, MonitorEnds(i) PROVE NoGhostMonitor'
  <2>1. monitorActive' => monitorActive /\ ~monitorDone[i]
    BY <1>7 DEF MonitorEnds, UpdateMonitor, QuietInv, trackerVars
  <2>2. \A x \in MonitorIds : Backs(x) /\ ~monitorDone[i] => Backs(x)'
    BY <1>0, <1>7 DEF MonitorEnds, SetMonitor, Backs
  <2>3. QED
    BY <2>1, <2>2, GhostDef
<1>8. ASSUME NEW d \in Disconnectors, StopMonitor(d) PROVE NoGhostMonitor'
  <2>1. \A x \in MonitorIds : Backs(x) => Backs(x)'
    BY <1>0, <1>8 DEF StopMonitor, Backs
  <2>2. QED
    BY <2>1, GhostDef, <1>8 DEF StopMonitor, trackerVars
<1>9. ASSUME NEW d \in Disconnectors, Complete(d) PROVE NoGhostMonitor'
  BY <1>0, <1>9
    DEF Complete, CompleteDisconnect, SetDisc, NoGhostMonitor, Backs, trackerVars, monitorVars
<1>10. ASSUME NEW s \in Sessions, OpenTerminal(s) \/ ReconnectTerminal(s) \/ OpenFails(s)
                                 \/ OpenCheck(s) \/ openWithID(s) \/ ReconnectClose(s)
                                 \/ ReconnectClosed(s) \/ CloseTerminal(s) \/ EmitConnecting(s)
                                 \/ ShellOpened(s) \/ EmitOnline(s) \/ SessionCloses(s)
                                 \/ SessionFails(s) \/ EmitFinal(s) \/ WorkerEnds(s)
       PROVE  UNCHANGED <<monitorPhase, monitorActive, monitorDone>>
  BY <1>10
    DEF OpenTerminal, ReconnectTerminal, OpenFails, OpenCheck, openWithID, ReconnectClose,
      ReconnectClosed, CloseTerminal, EmitConnecting, ShellOpened, EmitOnline, SessionCloses,
      SessionFails, EmitFinal, WorkerEnds, BeginConnect, RecordFailure, UpdateTerminal, trackerVars,
      monitorVars
<1>11. ASSUME NEW d \in Disconnectors, Disconnect(d) \/ MonitorStopped(d) \/ StopConnection(d)
                                 \/ CloseNext(d) \/ SessionClosed(d) \/ StopOthers(d)
       PROVE  UNCHANGED <<monitorPhase, monitorActive, monitorDone>>
  BY <1>11
    DEF Disconnect, MonitorStopped, StopConnection, CloseNext, SessionClosed, StopOthers,
      BeginDisconnect, trackerVars, monitorVars
<1>12. CASE Connect \/ ConnectFails \/ UNCHANGED vars
  BY <1>1, <1>12
    DEF Connect, ConnectFails, BeginConnect, RecordFailure, vars, trackerVars, monitorVars
<1>13. QED
  BY <1>1, <1>2, <1>3, <1>4, <1>5, <1>6, <1>7, <1>8, <1>9, <1>10, <1>11, <1>12
    DEF Next, User, Call, Session, Monitor, MonitorLeaves, Coordinator

\* A worker that a disconnect found is a session and a number.
LEMMA BeforeType ==
  ASSUME TypeOK
  PROVE  \A d \in Disconnectors : \A w \in before[d] :
           w[1] \in Sessions /\ w[2] \in Nat /\ w = <<w[1], w[2]>>
BY BoundAssumption DEF TypeOK

\* A worker that is over stays so: opens only grows.
LEMMA DoneStays ==
  ASSUME TypeOK, NEW u \in Sessions, NEW n \in Nat, Done(u, n), [Next]_vars
  PROVE  Done(u, n)'
<1>0. opens \in [Sessions -> Nat] /\ phase \in [Sessions -> Phases]
  BY BoundAssumption DEF TypeOK
<1>1. CASE UNCHANGED <<opens, phase>>
  BY <1>0, <1>1 DEF Done, Registered
<1>2. ASSUME NEW s \in Sessions, openWithID(s) PROVE Done(u, n)'
  <2>1. CASE Registered(s) \/ HasConnecting
    BY <2>1, <1>2 DEF openWithID, workerVars, discVars, Done, Registered
  <2>2. CASE ~(Registered(s) \/ HasConnecting)
    <3>1. /\ opens' = [opens EXCEPT ![s] = opens[s] + 1]
          /\ phase' = [phase EXCEPT ![s] = "registered"] /\ ~Registered(s)
      BY <2>2, <1>2 DEF openWithID, SetPhase
    <3>2. QED
      BY <1>0, <3>1, <1>2 DEF openWithID, Registered, discVars, Done, Registered
  <2>3. QED
    BY <2>1, <2>2
<1>3. ASSUME NEW s \in Sessions, EmitConnecting(s) PROVE Done(u, n)'
  BY <1>0, <1>3 DEF EmitConnecting, UpdateTerminal, SetPhase, Done, Registered, workerVars
<1>4. ASSUME NEW s \in Sessions, ShellOpened(s) PROVE Done(u, n)'
  BY <1>0, <1>4 DEF ShellOpened, SetPhase, Done, Registered, workerVars
<1>5. ASSUME NEW s \in Sessions, EmitOnline(s) PROVE Done(u, n)'
  BY <1>0, <1>5 DEF EmitOnline, UpdateTerminal, SetPhase, Done, Registered, workerVars
<1>6. ASSUME NEW s \in Sessions, SessionCloses(s) PROVE Done(u, n)'
  BY <1>0, <1>6 DEF SessionCloses, SetPhase, Done, Registered, workerVars
<1>7. ASSUME NEW s \in Sessions, SessionFails(s) PROVE Done(u, n)'
  BY <1>0, <1>7 DEF SessionFails, SetPhase, Done, Registered, workerVars
<1>8. ASSUME NEW s \in Sessions, EmitFinal(s) PROVE Done(u, n)'
  BY <1>0, <1>8 DEF EmitFinal, UpdateTerminal, SetPhase, Done, Registered, workerVars
<1>9. ASSUME NEW s \in Sessions, WorkerEnds(s) PROVE Done(u, n)'
  BY <1>0, <1>9 DEF WorkerEnds, SetPhase, Done, Registered, workerVars
<1>10. ASSUME NEW s \in Sessions, OpenTerminal(s) \/ ReconnectTerminal(s) \/ OpenFails(s)
                                 \/ OpenCheck(s) \/ ReconnectClose(s) \/ ReconnectClosed(s)
                                 \/ CloseTerminal(s)
       PROVE  UNCHANGED <<opens, phase>>
  BY <1>10
    DEF OpenTerminal, ReconnectTerminal, OpenFails, OpenCheck, ReconnectClose, ReconnectClosed,
      CloseTerminal, BeginConnect, RecordFailure, workerVars
<1>11. ASSUME NEW i \in MonitorIds, MonitorLoop(i) \/ MonitorFails(i) \/ MonitorSample(i)
                                 \/ MonitorRemoved(i) \/ MonitorEnds(i)
       PROVE  UNCHANGED <<opens, phase>>
  BY <1>11
    DEF MonitorLoop, MonitorFails, MonitorSample, MonitorRemoved, MonitorEnds, UpdateMonitor,
      workerVars
<1>12. ASSUME NEW d \in Disconnectors, Disconnect(d) \/ StopMonitor(d) \/ MonitorStopped(d)
                                 \/ StopConnection(d) \/ CloseNext(d) \/ SessionClosed(d)
                                 \/ StopOthers(d) \/ Complete(d)
       PROVE  UNCHANGED <<opens, phase>>
  BY <1>12
    DEF Disconnect, StopMonitor, MonitorStopped, StopConnection, CloseNext, SessionClosed,
      StopOthers, Complete, BeginDisconnect, CompleteDisconnect, workerVars
<1>13. CASE Connect \/ ConnectFails \/ Start \/ UNCHANGED vars
  BY <1>1, <1>13 DEF Connect, ConnectFails, Start, BeginConnect, RecordFailure, vars, workerVars
<1>14. QED
  BY <1>1, <1>2, <1>3, <1>4, <1>5, <1>6, <1>7, <1>8, <1>9, <1>10, <1>11, <1>12, <1>13
    DEF Next, User, Call, Session, Monitor, MonitorLeaves, Coordinator

\* opens only grows.
LEMMA BeforeStep ==
  ASSUME TypeOK, BeforeInv, [Next]_vars
  PROVE  BeforeInv'
<1>0. opens \in [Sessions -> Nat] /\ before \in [Disconnectors -> SUBSET (Sessions \X (0..MaxOpens))]
  BY DEF TypeOK
<1>b. \A d \in Disconnectors : \A w \in before[d] : w[1] \in Sessions /\ w[2] \in Nat
  BY BeforeType
<1>1. CASE UNCHANGED <<before, opens>>
  BY <1>0, <1>b, <1>1 DEF BeforeInv
<1>2. ASSUME NEW s \in Sessions, openWithID(s) PROVE BeforeInv'
  <2>1. CASE Registered(s) \/ HasConnecting
    BY <2>1, <1>b, <1>2 DEF openWithID, workerVars, discVars, BeforeInv
  <2>2. CASE ~(Registered(s) \/ HasConnecting)
    <3>1. /\ opens' = [opens EXCEPT ![s] = opens[s] + 1]
          /\ phase' = [phase EXCEPT ![s] = "registered"] /\ ~Registered(s)
      BY <2>2, <1>2 DEF openWithID, SetPhase
    <3>2. QED
      BY <1>0, <1>b, <3>1, <1>2 DEF openWithID, Registered, discVars, BeforeInv
  <2>3. QED
    BY <2>1, <2>2
<1>3. ASSUME NEW d \in Disconnectors, Disconnect(d) PROVE BeforeInv'
  BY <1>0, <1>b, <1>3 DEF Disconnect, BeginDisconnect, SetDisc, BeforeInv, workerVars, discVars
<1>4. ASSUME NEW d \in Disconnectors, Complete(d) PROVE BeforeInv'
  BY <1>0, <1>b, <1>4 DEF Complete, CompleteDisconnect, SetDisc, BeforeInv, workerVars, discVars
<1>5. ASSUME NEW s \in Sessions, OpenTerminal(s) \/ ReconnectTerminal(s) \/ OpenFails(s)
                                 \/ OpenCheck(s) \/ ReconnectClose(s) \/ ReconnectClosed(s)
                                 \/ CloseTerminal(s) \/ EmitConnecting(s) \/ ShellOpened(s)
                                 \/ EmitOnline(s) \/ SessionCloses(s) \/ SessionFails(s)
                                 \/ EmitFinal(s) \/ WorkerEnds(s)
       PROVE  UNCHANGED <<before, opens>>
  BY <1>5
    DEF OpenTerminal, ReconnectTerminal, OpenFails, OpenCheck, ReconnectClose, ReconnectClosed,
      CloseTerminal, EmitConnecting, ShellOpened, EmitOnline, SessionCloses, SessionFails,
      EmitFinal, WorkerEnds, BeginConnect, RecordFailure, UpdateTerminal, workerVars, discVars
<1>6. ASSUME NEW i \in MonitorIds, MonitorLoop(i) \/ MonitorFails(i) \/ MonitorSample(i)
                                 \/ MonitorRemoved(i) \/ MonitorEnds(i)
       PROVE  UNCHANGED <<before, opens>>
  BY <1>6
    DEF MonitorLoop, MonitorFails, MonitorSample, MonitorRemoved, MonitorEnds, UpdateMonitor,
      workerVars, discVars
<1>7. ASSUME NEW d \in Disconnectors, StopMonitor(d) \/ MonitorStopped(d) \/ StopConnection(d)
                                 \/ CloseNext(d) \/ SessionClosed(d) \/ StopOthers(d)
       PROVE  UNCHANGED <<before, opens>>
  BY <1>7
    DEF StopMonitor, MonitorStopped, StopConnection, CloseNext, SessionClosed, StopOthers,
      workerVars, discVars
<1>8. CASE Connect \/ ConnectFails \/ Start \/ UNCHANGED vars
  BY <1>1, <1>8
    DEF Connect, ConnectFails, Start, BeginConnect, RecordFailure, vars, workerVars, discVars
<1>9. QED
  BY <1>1, <1>2, <1>3, <1>4, <1>5, <1>6, <1>7, <1>8
    DEF Next, User, Call, Session, Monitor, MonitorLeaves, Coordinator

\* StopConnection and CloseNext miss nothing that began before the disconnect.
LEMMA WorkStep ==
  ASSUME TypeOK, WorkInv, BeforeInv, [Next]_vars
  PROVE  WorkInv'
<1>0. /\ disc \in [Disconnectors -> DiscSteps]
      /\ toClose \in [Disconnectors -> SUBSET Sessions]
      /\ before \in [Disconnectors -> SUBSET (Sessions \X (0..MaxOpens))]
      /\ waitSession \in [Disconnectors -> (Sessions \X (0..MaxOpens)) \cup {<<>>}]
  BY DEF TypeOK
<1>b. \A d \in Disconnectors : \A w \in before[d] :
        w[1] \in Sessions /\ w[2] \in Nat /\ w = <<w[1], w[2]>>
  BY BeforeType
<1>d. \A d \in Disconnectors : \A w \in before[d] : Done(w[1], w[2]) => Done(w[1], w[2])'
  BY <1>b, DoneStays
<1>e. \A d \in Disconnectors : \A w \in before[d] :
        Done(w[1], w[2]) \/ (Registered(w[1]) /\ w[2] = opens[w[1]])
  <2>1. \A s \in Sessions : opens[s] \in Nat
    BY BoundAssumption DEF TypeOK
  <2>2. QED
    BY <1>b, <2>1 DEF BeforeInv, Done
<1>1. CASE UNCHANGED <<disc, before, toClose, waitSession>>
  BY <1>0, <1>d, <1>1 DEF WorkInv
<1>2. ASSUME NEW d \in Disconnectors, Disconnect(d) PROVE WorkInv'
  BY <1>0, <1>d, <1>2 DEF Disconnect, BeginDisconnect, SetDisc, WorkInv, discVars
<1>3. ASSUME NEW d \in Disconnectors, StopMonitor(d) PROVE WorkInv'
  BY <1>0, <1>d, <1>3 DEF StopMonitor, SetDisc, WorkInv, discVars
<1>4. ASSUME NEW d \in Disconnectors, MonitorStopped(d) PROVE WorkInv'
  BY <1>0, <1>d, <1>4 DEF MonitorStopped, SetDisc, WorkInv, discVars
<1>5. ASSUME NEW d \in Disconnectors, StopConnection(d) PROVE WorkInv'
  <2>1. /\ toClose' = [toClose EXCEPT ![d] = {s \in Sessions : Registered(s)}]
        /\ disc' = [disc EXCEPT ![d] = "close"]
        /\ UNCHANGED <<before, waitSession>>
    BY <1>5 DEF StopConnection, SetDisc
  <2>2. \A w \in before[d] : Done(w[1], w[2]) \/ w[1] \in toClose'[d]
    BY <1>0, <1>b, <1>e, <2>1
  <2>3. QED
    BY <1>0, <1>d, <2>1, <2>2 DEF WorkInv
<1>6. ASSUME NEW d \in Disconnectors, CloseNext(d) PROVE WorkInv'
  <2>1. PICK s \in toClose[d] :
          /\ toClose' = [toClose EXCEPT ![d] = @ \ {s}]
          /\ IF Registered(s)
               THEN /\ waitSession' = [waitSession EXCEPT ![d] = <<s, opens[s]>>]
                    /\ disc' = [disc EXCEPT ![d] = "waitSession"]
               ELSE UNCHANGED <<waitSession, disc>>
    BY <1>6 DEF CloseNext, SetDisc
  <2>2. disc[d] = "close" /\ before' = before
    BY <1>6 DEF CloseNext
  <2>3. \A w \in before[d] : Done(w[1], w[2]) \/ w[1] \in toClose[d]
    BY <2>2 DEF WorkInv
  <2>4. CASE Registered(s)
    <3>1. \A w \in before[d] : Done(w[1], w[2]) \/ w[1] \in toClose'[d] \/ waitSession'[d] = w
      BY <1>0, <1>b, <1>e, <2>1, <2>3, <2>4
    <3>2. QED
      BY <1>0, <1>d, <2>1, <2>2, <2>4, <3>1 DEF WorkInv
  <2>5. CASE ~Registered(s)
    <3>1. \A w \in before[d] : Done(w[1], w[2]) \/ w[1] \in toClose'[d]
      BY <1>0, <1>b, <1>e, <2>1, <2>3, <2>5
    <3>2. QED
      BY <1>0, <1>d, <2>1, <2>2, <2>5, <3>1 DEF WorkInv
  <2>6. QED
    BY <2>4, <2>5
<1>7. ASSUME NEW d \in Disconnectors, SessionClosed(d) PROVE WorkInv'
  BY <1>0, <1>d, <1>7 DEF SessionClosed, SetDisc, WorkInv, discVars
<1>8. ASSUME NEW d \in Disconnectors, StopOthers(d) PROVE WorkInv'
  BY <1>0, <1>d, <1>8 DEF StopOthers, SetDisc, WorkInv, discVars
<1>9. ASSUME NEW d \in Disconnectors, Complete(d) PROVE WorkInv'
  BY <1>0, <1>d, <1>9 DEF Complete, CompleteDisconnect, SetDisc, WorkInv, discVars
<1>10. ASSUME NEW s \in Sessions, OpenTerminal(s) \/ ReconnectTerminal(s) \/ OpenFails(s)
                                 \/ OpenCheck(s) \/ openWithID(s) \/ ReconnectClose(s)
                                 \/ ReconnectClosed(s) \/ CloseTerminal(s) \/ EmitConnecting(s)
                                 \/ ShellOpened(s) \/ EmitOnline(s) \/ SessionCloses(s)
                                 \/ SessionFails(s) \/ EmitFinal(s) \/ WorkerEnds(s)
       PROVE  UNCHANGED <<disc, before, toClose, waitSession>>
  BY <1>10
    DEF OpenTerminal, ReconnectTerminal, OpenFails, OpenCheck, openWithID, ReconnectClose,
      ReconnectClosed, CloseTerminal, EmitConnecting, ShellOpened, EmitOnline, SessionCloses,
      SessionFails, EmitFinal, WorkerEnds, BeginConnect, RecordFailure, UpdateTerminal, discVars
<1>11. ASSUME NEW i \in MonitorIds, MonitorLoop(i) \/ MonitorFails(i) \/ MonitorSample(i)
                                 \/ MonitorRemoved(i) \/ MonitorEnds(i)
       PROVE  UNCHANGED <<disc, before, toClose, waitSession>>
  BY <1>11
    DEF MonitorLoop, MonitorFails, MonitorSample, MonitorRemoved, MonitorEnds, UpdateMonitor,
      discVars
<1>12. CASE Connect \/ ConnectFails \/ Start \/ UNCHANGED vars
  BY <1>1, <1>12 DEF Connect, ConnectFails, Start, BeginConnect, RecordFailure, vars, discVars
<1>13. QED
  BY <1>1, <1>2, <1>3, <1>4, <1>5, <1>6, <1>7, <1>8, <1>9, <1>10, <1>11, <1>12
    DEF Next, User, Call, Session, Monitor, MonitorLeaves, Coordinator

\* StopConnection returns when nothing is left to close.
LEMMA StopsStep ==
  ASSUME TypeOK, DisconnectStopsEarlier, WorkInv, [Next]_vars
  PROVE  DisconnectStopsEarlier'
<1>0. disc \in [Disconnectors -> DiscSteps] /\ before \in [Disconnectors -> SUBSET (Sessions \X (0..MaxOpens))]
  BY DEF TypeOK
<1>b. \A d \in Disconnectors : \A w \in before[d] :
        w[1] \in Sessions /\ w[2] \in Nat /\ w = <<w[1], w[2]>>
  BY BeforeType
<1>d. \A d \in Disconnectors : \A w \in before[d] : Done(w[1], w[2]) => Done(w[1], w[2])'
  BY <1>b, DoneStays
<1>1. CASE UNCHANGED <<disc, before>>
  BY <1>0, <1>d, <1>1 DEF DisconnectStopsEarlier
<1>2. ASSUME NEW d \in Disconnectors, Disconnect(d) PROVE DisconnectStopsEarlier'
  BY <1>0, <1>d, <1>2 DEF Disconnect, BeginDisconnect, SetDisc, DisconnectStopsEarlier, discVars
<1>3. ASSUME NEW d \in Disconnectors, StopMonitor(d) PROVE DisconnectStopsEarlier'
  BY <1>0, <1>d, <1>3 DEF StopMonitor, SetDisc, DisconnectStopsEarlier, discVars
<1>4. ASSUME NEW d \in Disconnectors, MonitorStopped(d) PROVE DisconnectStopsEarlier'
  BY <1>0, <1>d, <1>4 DEF MonitorStopped, SetDisc, DisconnectStopsEarlier, discVars
<1>5. ASSUME NEW d \in Disconnectors, StopConnection(d) PROVE DisconnectStopsEarlier'
  BY <1>0, <1>d, <1>5 DEF StopConnection, SetDisc, Registered, DisconnectStopsEarlier, discVars
<1>6. ASSUME NEW d \in Disconnectors, CloseNext(d) PROVE DisconnectStopsEarlier'
  BY <1>0, <1>d, <1>6 DEF CloseNext, SetDisc, Registered, DisconnectStopsEarlier, discVars
<1>7. ASSUME NEW d \in Disconnectors, SessionClosed(d) PROVE DisconnectStopsEarlier'
  BY <1>0, <1>d, <1>7 DEF SessionClosed, SetDisc, DisconnectStopsEarlier, discVars
<1>8. ASSUME NEW d \in Disconnectors, StopOthers(d) PROVE DisconnectStopsEarlier'
  BY <1>0, <1>d, <1>8 DEF StopOthers, SetDisc, WorkInv, DisconnectStopsEarlier, discVars
<1>9. ASSUME NEW d \in Disconnectors, Complete(d) PROVE DisconnectStopsEarlier'
  BY <1>0, <1>d, <1>9 DEF Complete, CompleteDisconnect, SetDisc, DisconnectStopsEarlier, discVars
<1>10. ASSUME NEW s \in Sessions, OpenTerminal(s) \/ ReconnectTerminal(s) \/ OpenFails(s)
                                 \/ OpenCheck(s) \/ openWithID(s) \/ ReconnectClose(s)
                                 \/ ReconnectClosed(s) \/ CloseTerminal(s) \/ EmitConnecting(s)
                                 \/ ShellOpened(s) \/ EmitOnline(s) \/ SessionCloses(s)
                                 \/ SessionFails(s) \/ EmitFinal(s) \/ WorkerEnds(s)
       PROVE  UNCHANGED <<disc, before>>
  BY <1>10
    DEF OpenTerminal, ReconnectTerminal, OpenFails, OpenCheck, openWithID, ReconnectClose,
      ReconnectClosed, CloseTerminal, EmitConnecting, ShellOpened, EmitOnline, SessionCloses,
      SessionFails, EmitFinal, WorkerEnds, BeginConnect, RecordFailure, UpdateTerminal, discVars
<1>11. ASSUME NEW i \in MonitorIds, MonitorLoop(i) \/ MonitorFails(i) \/ MonitorSample(i)
                                 \/ MonitorRemoved(i) \/ MonitorEnds(i)
       PROVE  UNCHANGED <<disc, before>>
  BY <1>11
    DEF MonitorLoop, MonitorFails, MonitorSample, MonitorRemoved, MonitorEnds, UpdateMonitor,
      discVars
<1>12. CASE Connect \/ ConnectFails \/ Start \/ UNCHANGED vars
  BY <1>1, <1>12 DEF Connect, ConnectFails, Start, BeginConnect, RecordFailure, vars, discVars
<1>13. QED
  BY <1>1, <1>2, <1>3, <1>4, <1>5, <1>6, <1>7, <1>8, <1>9, <1>10, <1>11, <1>12
    DEF Next, User, Call, Session, Monitor, MonitorLeaves, Coordinator

----------------------------------------------------------------------------
\* The invariant.

LEMMA InitInv == Init => IndInv
<1> SUFFICES ASSUME Init PROVE IndInv
  OBVIOUS
<1>1. MaxOpens \in Nat /\ MaxMonitors \in Nat /\ MaxDisconnects \in Nat
  BY BoundAssumption
<1>2. 0 \in 0..MaxOpens /\ 0 \in 0..MaxMonitors /\ 0 \in 0..MaxDisconnects
  BY <1>1
<1>3. TypeOK
  BY <1>2 DEF Init, TypeOK, MonitorStatus, Phases, MonitorPhases, DiscSteps
<1>4. /\ QuietInv /\ OnlineInv /\ NoGhostTerminal /\ InfoInv /\ OneConnecting
      /\ FreshInv /\ NoGhostMonitor /\ BeforeInv /\ WorkInv /\ DisconnectStopsEarlier
  BY DEF Init, QuietInv, OnlineInv, NoGhostTerminal, InfoInv, OneConnecting, FreshInv, MonitorIds,
     NoGhostMonitor, BeforeInv, WorkInv, DisconnectStopsEarlier
<1>5. QED
  BY <1>3, <1>4 DEF IndInv

LEMMA NextInv == IndInv /\ [Next]_vars => IndInv'
BY TypeStep, QuietStep, OnlineStep, GhostStep, InfoStep, OneStep, FreshStep, MonitorStep,
   BeforeStep, WorkStep, StopsStep
   DEF IndInv

\* Every reachable state satisfies the inductive invariant.
THEOREM Invariance == Spec => []IndInv
BY InitInv, NextInv, PTL DEF Spec

\* The record of a server and its terminal sessions agree, one session is set up at a time
\* (openWithID) and a disconnect misses none that was there when it began (StopConnection).
THEOREM SessionsTracked == Spec => []SessionsAreTracked
<1>1. IndInv => SessionsAreTracked
  BY DEF IndInv, SessionsAreTracked, TerminalsAreShown, SessionsAreFound, OnlineInv, OnlineIsShown
<1>2. QED
  BY <1>1, Invariance, PTL

\* A monitor that is shown as active is there, and after CompleteDisconnect no late event
\* shows anything until the next BeginConnect.
THEOREM MonitorShown == Spec => []MonitorIsShown
<1>1. QuietInv => DisconnectedIsQuiet
  BY DEF QuietInv, DisconnectedIsQuiet, HasActiveSession, TerminalActive, TerminalConnecting,
     RuntimeStatus
<1>2. IndInv => MonitorIsShown
  BY <1>1 DEF IndInv, MonitorIsShown
<1>3. QED
  BY <1>2, Invariance, PTL

=============================================================================
