---------------------------- MODULE TunnelManager ----------------------------
(***************************************************************************)
(* Port forwards of one server (internal/tunnelmanager, app_tunnel.go).    *)
(* Every tunnel is started from one saved profile, so all the local and    *)
(* dynamic ones want the same local port, all the remote ones the same     *)
(* port of the server.  A tunnel is a worker with a listener and an SSH    *)
(* transport; it is registered only when Start is nearly over.  Stop,      *)
(* StopServer, DeleteTunnelProfile, EnableRemoteForwardAccessAndStop,      *)
(* CheckRemoteListen and the keepalive close a worker, each with its own   *)
(* sequence of critical sections, and meet on it in any order.             *)
(***************************************************************************)
EXTENDS Naturals, FiniteSets

CONSTANTS Tunnels,   \* the workers that may be started, each once
          Calls,     \* the calls that may be in progress at a time
          Kinds      \* the kinds of tunnel there are in this instance

ASSUME KindsAssumption == Kinds \subseteq {"local", "dynamic", "remote"} /\ Kinds # {}

VARIABLES
  kind,       \* request.Type
  profile,    \* the row of tunnel_profiles is there
  start,      \* where StartTunnel is
  status,     \* worker.state.Status
  stopping,   \* worker.stopping
  listener,   \* worker.listener
  transport,  \* worker.transport
  workers,    \* m.workers
  accept,     \* acceptLoop
  conn,       \* a connection through the tunnel; one at a time
  call,       \* the calls in progress
  early       \* history: keepalive closed the worker before it was registered

vars == <<kind, profile, start, status, stopping, listener, transport, workers, accept, conn, call,
          early>>

resVars == <<stopping, listener, transport, conn, early>>

NoCall == [op |-> "none", pc |-> "idle", t |-> {}, queue |-> {}, found |-> {}, holds |-> FALSE]

Ops == {"stop", "server", "profile", "access", "check", "keepalive"}

\* The calls of stopWorker; those that verify that the port is released.
StopOps == {"stop", "server", "profile"}
Verified == {"stop", "profile", "access"}

TypeOK ==
  /\ kind \in [Tunnels -> Kinds]
  /\ profile \in BOOLEAN
  /\ start \in [Tunnels -> {"no", "listen", "dial", "remoteListen", "check", "mark", "register",
                            "commit", "done", "abort", "failed"}]
  /\ status \in [Tunnels -> {"none", "starting", "running", "stopping", "stopped", "failed"}]
  /\ stopping \in [Tunnels -> BOOLEAN]
  /\ listener \in [Tunnels -> {"none", "open", "closed"}]
  /\ transport \in [Tunnels -> {"none", "open", "closed"}]
  /\ workers \subseteq Tunnels
  /\ accept \in [Tunnels -> {"no", "run", "failing", "done"}]
  /\ conn \in [Tunnels -> {"none", "handshake", "dial", "pair", "cut"}]
  /\ early \subseteq Tunnels
  /\ call \in [Calls -> [op: Ops \cup {"none"},
                         pc: {"idle", "next", "probe", "mark", "take", "close", "verify", "final",
                              "drop", "end"},
                         t: SUBSET Tunnels, queue: SUBSET Tunnels, found: SUBSET Tunnels,
                         holds: BOOLEAN]]

Init ==
  /\ kind \in [Tunnels -> Kinds]
  /\ profile = TRUE
  /\ start = [t \in Tunnels |-> "no"]
  /\ status = [t \in Tunnels |-> "none"]
  /\ stopping = [t \in Tunnels |-> FALSE]
  /\ listener = [t \in Tunnels |-> "none"]
  /\ transport = [t \in Tunnels |-> "none"]
  /\ workers = {}
  /\ accept = [t \in Tunnels |-> "no"]
  /\ conn = [t \in Tunnels |-> "none"]
  /\ call = [c \in Calls |-> NoCall]
  /\ early = {}

IsLocal(t) == kind[t] # "remote"

\* Somebody listens on the port of t: the others of the same side share it.
PortOpen(t) == \E u \in Tunnels : IsLocal(u) = IsLocal(t) /\ listener[u] = "open"

Free(c) == call[c].pc = "idle"
Begin(c, o, p, ts) == call' = [call EXCEPT ![c] = [NoCall EXCEPT !.op = o, !.pc = p, !.t = ts]]
On(c, t) == call[c].t = {t}
Goto(c, p) == call' = [call EXCEPT ![c].pc = p]
Return(c) == call' = [call EXCEPT ![c] = NoCall]

-----------------------------------------------------------------------------
\* Start.

\* StartTunnel reads the profile and the credentials; Start publishes "starting".
StartTunnel(t) ==
  /\ start[t] = "no" /\ profile
  /\ start' = [start EXCEPT ![t] = IF IsLocal(t) THEN "listen" ELSE "dial"]
  /\ status' = [status EXCEPT ![t] = "starting"]
  /\ UNCHANGED <<kind, profile, resVars, workers, accept, call>>

\* setup: the local listener before the dial, the remote one after it.
SetupListen(t) ==
  /\ start[t] \in {"listen", "remoteListen"}
  /\ \/ /\ ~PortOpen(t)
        /\ listener' = [listener EXCEPT ![t] = "open"]
        /\ start' = [start EXCEPT ![t] = IF IsLocal(t) THEN "dial" ELSE "check"]
     \/ /\ start' = [start EXCEPT ![t] = "abort"]
        /\ UNCHANGED listener
  /\ UNCHANGED <<kind, profile, status, stopping, transport, workers, accept, conn, call, early>>

\* The dial, and for a local tunnel startKeepalive right after it.
SetupDial(t) ==
  /\ start[t] = "dial"
  /\ \/ /\ transport' = [transport EXCEPT ![t] = "open"]
        /\ start' = [start EXCEPT ![t] = IF IsLocal(t) THEN "mark" ELSE "remoteListen"]
     \/ /\ start' = [start EXCEPT ![t] = "abort"]
        /\ UNCHANGED transport
  /\ UNCHANGED <<kind, profile, status, stopping, listener, workers, accept, conn, call, early>>

\* The keepalive runs from startKeepalive until the context is cancelled.
KeepaliveRuns(t) == start[t] \in {"check", "mark", "register", "commit", "done"} /\ transport[t] = "open"

\* Classes of the addresses the probe lists for the port.
HostClasses == {"any", "loopback", "other"}

\* parseRemoteListenOutput with listenHostsForPort, chooseEffectiveHost and
\* classifyRemoteListenExposure: what the listed addresses mean.
parseRemoteListenOutput(hosts) ==
  IF hosts = {} THEN "notFound"
  ELSE IF hosts \ {"loopback"} = {} THEN "loopback" ELSE "listening"

\* checkRemoteListen: a probe that fails, or finds no tool, is "unknown".  It
\* lists no port nobody listens on, and may miss one sshd said it listens on:
\* that is what the code looks for.
checkRemoteListen(t) ==
  {"unknown"} \cup
    (IF transport[t] # "open" THEN {}
     ELSE {parseRemoteListenOutput(hosts) :
             hosts \in IF PortOpen(t) THEN SUBSET HostClasses ELSE {{}}})

StartCheck(t) ==
  /\ start[t] = "check"
  /\ \E r \in checkRemoteListen(t) :
       start' = [start EXCEPT ![t] = IF r = "notFound" THEN "abort" ELSE "mark"]
  /\ UNCHANGED <<kind, profile, status, resVars, workers, accept, call>>

StartMark(t) ==
  /\ start[t] = "mark"
  /\ status' = [status EXCEPT ![t] = "running"]
  /\ start' = [start EXCEPT ![t] = "register"]
  /\ UNCHANGED <<kind, profile, resVars, workers, accept, call>>

\* m.workers, then go acceptLoop.
StartRegister(t) ==
  /\ start[t] = "register"
  /\ workers' = workers \cup {t}
  /\ accept' = [accept EXCEPT ![t] = "run"]
  /\ start' = [start EXCEPT ![t] = "commit"]
  /\ UNCHANGED <<kind, profile, status, resVars, call>>

\* cancel, closeResources and "failed".
StartFails(t) ==
  /\ start[t] = "abort"
  /\ start' = [start EXCEPT ![t] = "failed"]
  /\ status' = [status EXCEPT ![t] = "failed"]
  /\ stopping' = [stopping EXCEPT ![t] = TRUE]
  /\ listener' = [listener EXCEPT ![t] = IF stopping[t] \/ @ = "none" THEN @ ELSE "closed"]
  /\ transport' = [transport EXCEPT ![t] = IF stopping[t] \/ @ = "none" THEN @ ELSE "closed"]
  /\ UNCHANGED <<kind, profile, workers, accept, conn, call, early>>

\* StartTunnel saves the credentials, and stops the tunnel if that fails.
CommitSuccessful(t) ==
  /\ start[t] = "commit"
  /\ start' = [start EXCEPT ![t] = "done"]
  /\ \/ UNCHANGED call
     \/ t \in workers /\ \E c \in Calls : Free(c) /\ Begin(c, "stop", "mark", {t})
  /\ UNCHANGED <<kind, profile, status, resVars, workers, accept>>

-----------------------------------------------------------------------------
\* The calls that end a tunnel.

\* Stop; the first half of RestartTunnel.
Stop(c, t) ==
  /\ Free(c) /\ t \in workers
  /\ Begin(c, "stop", "mark", {t})
  /\ UNCHANGED <<kind, profile, start, status, resVars, workers, accept>>

\* StopServer and StopAll; DeleteTunnelProfile with StopProfile.  They take the
\* workers there are and stop them one by one.
StopMany(c, o) ==
  /\ Free(c) /\ o \in {"server", "profile"} /\ (o = "profile" => profile)
  /\ call' = [call EXCEPT ![c] = [NoCall EXCEPT !.op = o, !.pc = "next", !.queue = workers,
                                                !.found = workers]]
  /\ UNCHANGED <<kind, profile, start, status, resVars, workers, accept>>

StopNext(c) ==
  /\ call[c].pc = "next"
  /\ \E t \in call[c].queue :
       call' = [call EXCEPT ![c].pc = "mark", ![c].t = {t}, ![c].queue = @ \ {t}]
  /\ UNCHANGED <<kind, profile, start, status, resVars, workers, accept>>

\* The loop is over; DeleteTunnelProfile deletes the row.
StopManyEnds(c) ==
  /\ call[c].pc = "next" /\ call[c].queue = {}
  /\ profile' = (profile /\ call[c].op # "profile")
  /\ Return(c)
  /\ UNCHANGED <<kind, start, status, resVars, workers, accept>>

\* EnableRemoteForwardAccessAndStop: remoteAccessWorker and startRequest.
EnableRemoteForwardAccessAndStop(c, t) ==
  /\ Free(c) /\ t \in workers /\ ~IsLocal(t) /\ ~stopping[t]
  /\ Begin(c, "access", "mark", {t})
  /\ UNCHANGED <<kind, profile, start, status, resVars, workers, accept>>

CheckRemoteListen(c, t) ==
  /\ Free(c) /\ t \in workers /\ ~IsLocal(t)
  /\ Begin(c, "check", "probe", {t})
  /\ UNCHANGED <<kind, profile, start, status, resVars, workers, accept>>

\* Only "not found" has an effect: "failed", then closeResources.
CheckResult(c, t) ==
  /\ call[c].pc = "probe" /\ On(c, t)
  /\ \/ checkRemoteListen(t) \ {"notFound"} # {} /\ Return(c) /\ UNCHANGED status
     \/ /\ "notFound" \in checkRemoteListen(t)
        /\ Goto(c, "take")
        /\ status' = [status EXCEPT ![t] = "failed"]
  /\ UNCHANGED <<kind, profile, start, resVars, workers, accept>>

handleKeepaliveFailure(c, t) ==
  /\ Free(c) /\ KeepaliveRuns(t)
  /\ \A d \in Calls : ~(On(d, t) /\ call[d].op = "keepalive")
  /\ Begin(c, "keepalive", "take", {t})
  /\ UNCHANGED <<kind, profile, start, status, resVars, workers, accept>>

\* stopWorker and the access call publish "stopping" first.
MarkStopping(c, t) ==
  /\ call[c].pc = "mark" /\ On(c, t)
  /\ status' = [status EXCEPT ![t] = "stopping"]
  /\ Goto(c, "take")
  /\ UNCHANGED <<kind, profile, start, resVars, workers, accept>>

\* closeRuntimeResources, under the lock: only the first call gets anything.
\* The pairs there are now are the ones it will close ("cut").
closeRuntimeResources(c, t) ==
  /\ call[c].pc = "take" /\ On(c, t) /\ ~stopping[t]
  /\ stopping' = [stopping EXCEPT ![t] = TRUE]
  /\ early' = IF call[c].op = "keepalive" /\ t \notin workers THEN early \cup {t} ELSE early
  /\ call' = [call EXCEPT ![c].pc = "close", ![c].holds = TRUE]
  /\ conn' = [conn EXCEPT ![t] = IF @ = "pair" THEN "cut" ELSE @]
  /\ UNCHANGED <<kind, profile, start, status, listener, transport, workers, accept>>

\* The others: Stop goes on with no transport, access gives up, keepalive goes
\* on to "failed", check is over.
AlreadyStopping(c, t) ==
  /\ call[c].pc = "take" /\ On(c, t) /\ stopping[t]
  /\ status' = [status EXCEPT ![t] = IF call[c].op = "access" THEN "failed" ELSE @]
  /\ \/ call[c].op \in StopOps /\ Goto(c, IF call[c].op \in Verified THEN "verify" ELSE "final")
     \/ call[c].op = "keepalive" /\ Goto(c, "final")
     \/ call[c].op \in {"access", "check"} /\ Return(c)
  /\ UNCHANGED <<kind, profile, start, resVars, workers, accept>>

\* ... and after the unlock: cancel, the listener, those pairs, and
\* for keepalive and check the transport.
CloseRuntime(c, t) ==
  /\ call[c].pc = "close" /\ On(c, t)
  /\ listener' = [listener EXCEPT ![t] = "closed"]
  /\ IF call[c].op \in {"keepalive", "check"}
       THEN transport' = [transport EXCEPT ![t] = "closed"]
       ELSE UNCHANGED transport
  /\ \/ call[c].op = "check" /\ Return(c)
     \/ call[c].op \in {"keepalive", "server"} /\ Goto(c, "final")
     \/ call[c].op \in Verified /\ Goto(c, "verify")
  /\ UNCHANGED <<kind, profile, start, status, stopping, workers, accept, conn, early>>

\* Faulty variants: no check without a transport; a wait without a timeout.
PortTrusted(c, t) == call[c].holds => ~PortOpen(t)
PortAwaited(c, t) == accept[t] = "done" /\ ~PortOpen(t)

\* After the wait for acceptLoop (2 s at most) verifyTunnelPortReleased: the
\* local port is dialed; a remote one is probed, if there is a transport.
PortReleased(c, t) ==
  IF IsLocal(t) THEN ~PortOpen(t) ELSE call[c].holds => "notFound" \in checkRemoteListen(t)

\* A remote probe can also fail, or find no tool.
ReleaseFails(c, t) == IF IsLocal(t) THEN PortOpen(t) ELSE call[c].holds

VerifyReleased(c, t) ==
  /\ call[c].pc = "verify" /\ On(c, t)
  /\ PortReleased(c, t)
  /\ Goto(c, "final")
  /\ UNCHANGED <<kind, profile, start, status, resVars, workers, accept>>

\* "failed", the worker stays, and StopProfile ends here: the row stays too.
VerifyFails(c, t) ==
  /\ call[c].pc = "verify" /\ On(c, t)
  /\ ReleaseFails(c, t)
  /\ status' = [status EXCEPT ![t] = "failed"]
  /\ transport' = [transport EXCEPT ![t] = IF call[c].holds THEN "closed" ELSE @]
  /\ Return(c)
  /\ UNCHANGED <<kind, profile, start, stopping, listener, workers, accept, conn, early>>

FinalStatus(c, t) ==
  /\ call[c].pc = "final" /\ On(c, t)
  /\ status' = [status EXCEPT ![t] = IF call[c].op = "keepalive" THEN "failed" ELSE "stopped"]
  /\ Goto(c, "drop")
  /\ UNCHANGED <<kind, profile, start, resVars, workers, accept>>

\* delete(m.workers): ids are not used again.
Drop(c, t) ==
  /\ call[c].pc = "drop" /\ On(c, t)
  /\ workers' = workers \ {t}
  /\ Goto(c, "end")
  /\ UNCHANGED <<kind, profile, start, status, resVars, accept>>

\* Faulty variant: the transport is not closed.
EndCallForgets(c, t) ==
  /\ call[c].pc = "end" /\ On(c, t)
  /\ IF call[c].op \in {"server", "profile"}
       THEN call' = [call EXCEPT ![c].pc = "next", ![c].t = {}, ![c].holds = FALSE]
       ELSE Return(c)
  /\ UNCHANGED <<kind, profile, start, status, resVars, workers, accept>>

\* The deferred transport.Close; StopServer and StopProfile take the next one.
EndCall(c, t) ==
  /\ call[c].pc = "end" /\ On(c, t)
  /\ transport' = [transport EXCEPT ![t] = IF call[c].holds THEN "closed" ELSE @]
  /\ \/ call[c].op \in {"server", "profile"}
        /\ call' = [call EXCEPT ![c].pc = "next", ![c].t = {}, ![c].holds = FALSE]
     \/ call[c].op \notin {"server", "profile"} /\ Return(c)
  /\ UNCHANGED <<kind, profile, start, status, stopping, listener, workers, accept, conn, early>>

CallStep(c, t) ==
  \/ CheckResult(c, t) \/ MarkStopping(c, t) \/ closeRuntimeResources(c, t) \/ AlreadyStopping(c, t)
  \/ CloseRuntime(c, t) \/ VerifyReleased(c, t) \/ VerifyFails(c, t)
  \/ FinalStatus(c, t) \/ Drop(c, t) \/ EndCall(c, t)

-----------------------------------------------------------------------------
\* acceptLoop and the connections.

AcceptConn(t) ==
  /\ accept[t] = "run" /\ listener[t] = "open" /\ conn[t] = "none"
  /\ conn' = [conn EXCEPT ![t] = IF kind[t] = "dynamic" THEN "handshake" ELSE "dial"]
  /\ UNCHANGED <<kind, profile, start, status, stopping, listener, transport, workers, accept, call,
                 early>>

\* Accept fails when the listener is closed, or with the transport.
AcceptError(t) ==
  /\ accept[t] = "run"
  /\ accept' = [accept EXCEPT ![t] = IF stopping[t] THEN "done" ELSE "failing"]
  /\ UNCHANGED <<kind, profile, start, status, resVars, workers, call>>

AcceptFailed(t) ==
  /\ accept[t] = "failing"
  /\ status' = [status EXCEPT ![t] = "failed"]
  /\ accept' = [accept EXCEPT ![t] = "done"]
  /\ UNCHANGED <<kind, profile, start, resVars, workers, call>>

connRest == <<kind, profile, start, status, stopping, listener, transport, workers, accept, call,
              early>>

\* readSocksConnect waits for the client, without a deadline.
Handshake(t) ==
  /\ conn[t] = "handshake"
  /\ \E p \in {"dial", "none"} : conn' = [conn EXCEPT ![t] = p]
  /\ UNCHANGED connRest

\* handleLocalConn, handleSocksConn, handleRemoteConn: the other side is dialed,
\* through the transport or, for a remote tunnel, from here with a timeout.
DialTarget(t) ==
  /\ conn[t] = "dial"
  /\ \/ (IsLocal(t) => transport[t] = "open") /\ conn' = [conn EXCEPT ![t] = "pair"]
     \/ conn' = [conn EXCEPT ![t] = "none"]
  /\ UNCHANGED connRest

\* proxyPair: one side ends, both are closed.
PairEnds(t) ==
  /\ conn[t] \in {"pair", "cut"}
  /\ conn' = [conn EXCEPT ![t] = "none"]
  /\ UNCHANGED connRest

-----------------------------------------------------------------------------
StartStep(t) ==
  \/ SetupListen(t) \/ SetupDial(t) \/ StartCheck(t) \/ StartMark(t)
  \/ StartRegister(t) \/ StartFails(t) \/ CommitSuccessful(t)

ConnStep(t) == AcceptConn(t) \/ AcceptError(t) \/ AcceptFailed(t) \/ Handshake(t) \/ DialTarget(t) \/ PairEnds(t)

Next ==
  \/ \E t \in Tunnels : StartTunnel(t) \/ StartStep(t) \/ ConnStep(t)
  \/ \E c \in Calls, t \in Tunnels :
       \/ Stop(c, t) \/ EnableRemoteForwardAccessAndStop(c, t) \/ CheckRemoteListen(c, t)
       \/ handleKeepaliveFailure(c, t) \/ CallStep(c, t)
  \/ \E c \in Calls : (\E o \in Ops : StopMany(c, o)) \/ StopNext(c) \/ StopManyEnds(c)

Spec == Init /\ [][Next]_vars

\* A call that was begun goes on, its waits are bounded; a pair ends when one of
\* its sides is closed.  Nothing is assumed of the user, of a live connection
\* or of a SOCKS client that does not speak.
Fairness ==
  /\ \A c \in Calls : WF_vars(StopNext(c) \/ StopManyEnds(c) \/ \E t \in Tunnels : CallStep(c, t))
  /\ \A t \in Tunnels :
       /\ WF_vars(StartStep(t))
       /\ WF_vars(DialTarget(t))
       /\ WF_vars((conn[t] = "cut" \/ transport[t] = "closed") /\ PairEnds(t))

FairSpec == Spec /\ Fairness

-----------------------------------------------------------------------------
\* Properties.

\* The call c will close what the worker t has.
WillClose(c, t) == On(c, t) /\ call[c].holds

Starting(t) == start[t] \notin {"no", "done", "failed"}

\* Every listener and every transport belongs to a Start in progress, to a
\* registered worker, which a stop can find, or to a call that will close it.
NoLeak ==
  \A t \in Tunnels : "open" \in {listener[t], transport[t]} =>
    Starting(t) \/ t \in workers \/ \E c \in Calls : WillClose(c, t)

\* A registered tunnel that no longer listens, with no call at work on it, is
\* shown as "failed"; except one whose keepalive failed while it was starting,
\* which Start then shows as "running".
DeadIsShown ==
  \A t \in workers :
    listener[t] = "open" \/ status[t] = "failed" \/ t \in early \/ \E c \in Calls : On(c, t)

\* DeleteTunnelProfile goes past a local tunnel it found only when the tunnel
\* does not listen any more, however many others are stopping it.
DeletedIsReleased ==
  \A c \in Calls : call[c].op = "profile" =>
    \A t \in call[c].found \ (call[c].queue \cup call[c].t) : IsLocal(t) => listener[t] = "closed"

\* StopServer and StopProfile leave none of the workers they found registered.
StopManyRemoves ==
  \A c \in Calls : call[c].found \cap workers \subseteq call[c].queue \cup call[c].t

\* Of all the calls that end a tunnel one closes its transport: no two hold it.
OneHolder ==
  \A c, d \in Calls, t \in Tunnels : WillClose(c, t) /\ WillClose(d, t) => c = d

\* Every call ends.
CallsEnd == \A c \in Calls : call[c].op # "none" ~> call[c].op = "none"

\* When the transport is closed, the connections that were being dialed or
\* served end.
ConnectionsEnd ==
  \A t \in Tunnels :
    transport[t] = "closed" /\ conn[t] \in {"dial", "pair", "cut"} ~> conn[t] = "none"

\* Listeners and transports always have one owner that closes them (Start, stopWorker,
\* closeRuntimeResources).
ResourcesAreHeld == TypeOK /\ NoLeak /\ OneHolder

\* A stop is complete for whoever asked for it, and what died by itself is shown (StopServer,
\* StopProfile, handleKeepaliveFailure).
StopsAreComplete == DeadIsShown /\ DeletedIsReleased /\ StopManyRemoves

\* Calls and connections end: nobody waits for a port, a worker or a pair for ever.
TunnelsEnd == CallsEnd /\ ConnectionsEnd

=============================================================================
