------------------------ MODULE TunnelManagerProofs ------------------------
(***************************************************************************)
(* Proofs about TunnelManager, for every set of tunnels and every number   *)
(* of calls at work on them.  First what each step does to the calls,      *)
(* field by field; then one lemma per conjunct of the inductive invariant, *)
(* one step per action.                                                    *)
(***************************************************************************)
EXTENDS TunnelManager, TLAPS

----------------------------------------------------------------------------
\* The inductive invariant.

StartPlaces == {"no", "listen", "dial", "remoteListen", "check", "mark", "register", "commit",
                "done", "abort", "failed"}

\* Start before the keepalive, after it, and with the worker registered.
Early   == {"no", "listen", "dial", "remoteListen"}
Checked == {"check", "mark", "register"}
Started == {"commit", "done"}

\* The call c has yet to close the listener of t; it has found that t does not
\* listen; it will show the end of t, or remove it.
Closing(c, t) == On(c, t) /\ call[c].pc = "close"
Checks(c, t)  == On(c, t) /\ call[c].op = "check" /\ call[c].pc # "probe"
Cares(c, t)   == On(c, t) /\ call[c].op # "check" /\ call[c].pc # "end"

\* Which calls are where, and what they have with them.
CallShape ==
  \A c \in Calls :
    /\ call[c].pc = "idle" => call[c] = NoCall
    /\ call[c].pc = "next" =>
         call[c].t = {} /\ call[c].op \in {"server", "profile"} /\ ~call[c].holds
    /\ call[c].pc \notin {"idle", "next"} => \E t \in Tunnels : On(c, t)
    /\ call[c].op = "none" => call[c].pc = "idle"
    /\ call[c].op = "check" => call[c].pc \in {"probe", "take", "close"}
    /\ call[c].op = "keepalive" => call[c].pc \notin {"mark", "probe", "verify"}
    /\ call[c].op = "server" => call[c].pc # "verify"
    /\ call[c].op # "check" => call[c].pc # "probe"
    /\ call[c].op \notin {"server", "profile"} => call[c].found = {} /\ call[c].queue = {}
    /\ call[c].pc = "close" => call[c].holds
    /\ call[c].holds => call[c].pc \in {"close", "verify", "final", "drop", "end"}

\* Past closeRuntimeResources the worker is stopping.  Only the keepalive comes
\* before StartTunnel has registered the worker.
OwnerInv ==
  \A c \in Calls, t \in Tunnels : On(c, t) =>
    /\ call[c].pc \in {"close", "verify", "final", "drop", "end"} => stopping[t]
    /\ IF call[c].op = "keepalive" THEN start[t] \notin Early ELSE start[t] \in Started

\* m.workers and the lists taken from it hold tunnels that were registered.
ListInv ==
  /\ \A t \in workers : start[t] \in Started
  /\ \A c \in Calls : \A t \in call[c].queue \cup call[c].found : start[t] \in Started

\* What Start has done by where it is.
StartInv ==
  \A t \in Tunnels :
    /\ start[t] \in Early => ~stopping[t]
    /\ start[t] = "no" => listener[t] = "none" /\ transport[t] = "none"
    /\ start[t] = "failed" => stopping[t]
    /\ start[t] \in Started => stopping[t] \/ t \in workers

\* A listener is made once, and is open until the worker stops.
ListenInv ==
  \A t \in Tunnels :
    /\ start[t] \in {"listen", "remoteListen"} => (IsLocal(t) <=> start[t] = "listen")
    /\ start[t] \in Checked \cup Started \/ (start[t] = "dial" /\ IsLocal(t)) =>
         listener[t] # "none" /\ (listener[t] = "open" \/ stopping[t])

\* What a stopping worker still has open, a call has taken and will close.
ListenerInv ==
  \A t \in Tunnels : stopping[t] /\ listener[t] = "open" => \E c \in Calls : Closing(c, t)

TransportInv ==
  \A t \in Tunnels : stopping[t] /\ transport[t] = "open" => \E c \in Calls : WillClose(c, t)

\* Before Start has registered the worker only its keepalive stops it.
EarlyInv == \A t \in Tunnels : stopping[t] /\ start[t] \in Checked => t \in early

\* A registered worker that stops, or was found not to listen, is shown as
\* "failed", or a call is on its way that will show it or remove it.
ShownInv ==
  \A t \in workers \ early :
    stopping[t] \/ (\E c \in Calls : Checks(c, t)) =>
      status[t] = "failed" \/ \E c \in Calls : Cares(c, t)

\* After its Drop a call has removed the worker for good.
EndInv ==
  \A c \in Calls, t \in Tunnels :
    On(c, t) /\ call[c].pc = "end" => t \notin workers \/ (t \in early /\ call[c].op = "keepalive")

\* Past verifyTunnelPortReleased a local tunnel does not listen.
ReleasedInv ==
  \A c \in Calls, t \in Tunnels :
    On(c, t) /\ call[c].op = "profile" /\ call[c].pc \in {"final", "drop", "end"} /\ IsLocal(t) =>
      listener[t] = "closed"

IndInv == /\ TypeOK /\ CallShape /\ OwnerInv /\ ListInv /\ StartInv /\ ListenInv /\ ListenerInv
          /\ TransportInv /\ EarlyInv /\ ShownInv /\ EndInv /\ ReleasedInv /\ OneHolder
          /\ DeletedIsReleased /\ StopManyRemoves

----------------------------------------------------------------------------
\* What the steps of a call do, field by field.

Places == {"idle", "next", "probe", "mark", "take", "close", "verify", "final", "drop", "end"}
CallType == [op: Ops \cup {"none"}, pc: Places, t: SUBSET Tunnels, queue: SUBSET Tunnels,
             found: SUBSET Tunnels, holds: BOOLEAN]
CallOK == call \in [Calls -> CallType]

\* The other calls are where they were.
Others(c) == \A d \in Calls : d # c => call'[d] = call[d]

\* A call that goes on with the same worker, is over, or begins with one worker.
Moved(c, p) == /\ Others(c)
               /\ call'[c].pc = p /\ call'[c].op = call[c].op /\ call'[c].t = call[c].t
               /\ call'[c].queue = call[c].queue /\ call'[c].found = call[c].found
               /\ call'[c].holds <=> call[c].holds

Ended(c) == Others(c) /\ call'[c] = NoCall

Begun(c, o, p, t) == /\ Others(c)
                     /\ call'[c].pc = p /\ call'[c].op = o /\ call'[c].t = {t}
                     /\ call'[c].queue = {} /\ call'[c].found = {} /\ ~call'[c].holds

\* Goto, Return and Begin do that.
LEMMA GotoEffect ==
  ASSUME CallOK, NEW c \in Calls, NEW p \in Places, Goto(c, p)
  PROVE  CallOK' /\ Moved(c, p)
BY DEF CallOK, CallType, Goto, Moved, Others

\* See GotoEffect.
LEMMA ReturnEffect ==
  ASSUME CallOK, NEW c \in Calls, Return(c)
  PROVE  CallOK' /\ Ended(c)
<1>1. NoCall \in CallType
  BY DEF NoCall, CallType, Places
<1>2. QED
  BY <1>1 DEF CallOK, Return, Ended, Others

\* See GotoEffect.
LEMMA BeginEffect ==
  ASSUME CallOK, NEW c \in Calls, NEW o \in Ops, NEW p \in Places, NEW t \in Tunnels, Begin(c, o,
  p, {t})
  PROVE  CallOK' /\ Begun(c, o, p, t)
<1> DEFINE r == [NoCall EXCEPT !.op = o, !.pc = p, !.t = {t}]
<1>1. NoCall \in CallType
  BY DEF NoCall, CallType, Places
<1>2. r \in CallType
  BY <1>1 DEF CallType
<1>3. r.op = o /\ r.pc = p /\ r.t = {t} /\ r.queue = {} /\ r.found = {} /\ ~r.holds
  BY <1>1 DEF CallType, NoCall
<1>4. call' = [call EXCEPT ![c] = r]
  BY DEF Begin
<1> HIDE DEF r
<1>5. QED
  BY <1>2, <1>3, <1>4 DEF CallOK, Begun, Others

\* The state that the invariant speaks of, without the calls.
core == <<kind, start, status, stopping, listener, transport, workers, early>>

\* Stop, EnableRemoteForwardAccessAndStop and CheckRemoteListen begin with a registered worker.
LEMMA UserBegins ==
  ASSUME CallOK, NEW c \in Calls, NEW t \in Tunnels,
         Stop(c, t) \/ EnableRemoteForwardAccessAndStop(c, t) \/ CheckRemoteListen(c, t)
  PROVE  /\ CallOK' /\ UNCHANGED <<core, profile, accept, conn>>
         /\ call[c].pc = "idle" /\ t \in workers
         /\ \/ Begun(c, "stop", "mark", t)
            \/ Begun(c, "access", "mark", t)
            \/ Begun(c, "check", "probe", t)
<1>1. CASE Stop(c, t)
  BY <1>1, BeginEffect DEF Stop, Free, core, resVars, Ops, Places
<1>2. CASE EnableRemoteForwardAccessAndStop(c, t)
  BY <1>2, BeginEffect DEF EnableRemoteForwardAccessAndStop, Free, core, resVars, Ops, Places
<1>3. CASE CheckRemoteListen(c, t)
  BY <1>3, BeginEffect DEF CheckRemoteListen, Free, core, resVars, Ops, Places
<1>4. QED
  BY <1>1, <1>2, <1>3

\* The keepalive of a tunnel whose Start has dialled gives up.
LEMMA KeepaliveBegins ==
  ASSUME CallOK, NEW c \in Calls, NEW t \in Tunnels, handleKeepaliveFailure(c, t)
  PROVE  /\ CallOK' /\ UNCHANGED <<core, profile, accept, conn>>
         /\ call[c].pc = "idle" /\ start[t] \in Checked \cup Started
         /\ Begun(c, "keepalive", "take", t)
BY BeginEffect DEF handleKeepaliveFailure, KeepaliveRuns, Free, core, resVars, Ops, Places,
   Checked, Started

\* StartTunnel is done, or stops the tunnel.
LEMMA CommitEnds ==
  ASSUME CallOK, start \in [Tunnels -> StartPlaces], NEW t \in Tunnels, CommitSuccessful(t)
  PROVE  /\ CallOK' /\ UNCHANGED <<kind, status, stopping, listener, transport, workers, early,
                                   profile, accept, conn>>
         /\ start[t] = "commit" /\ start' = [start EXCEPT ![t] = "done"]
         /\ \/ UNCHANGED call
            \/ \E c \in Calls : call[c].pc = "idle" /\ t \in workers /\ Begun(c, "stop", "mark", t)
<1>1. CASE UNCHANGED call
  BY <1>1 DEF CommitSuccessful, resVars, CallOK
<1>2. ASSUME NEW c \in Calls, t \in workers, Free(c), Begin(c, "stop", "mark", {t})
      PROVE  CallOK' /\ call[c].pc = "idle" /\ Begun(c, "stop", "mark", t)
  BY <1>2, BeginEffect DEF Free, Ops, Places
<1>3. QED
  BY <1>1, <1>2 DEF CommitSuccessful, resVars

\* StopServer, StopAll and StopProfile take a list of the workers.
LEMMA ManyBegins ==
  ASSUME CallOK, workers \subseteq Tunnels, NEW c \in Calls, NEW o \in Ops, StopMany(c, o)
  PROVE  /\ CallOK' /\ UNCHANGED <<core, profile, accept, conn>>
         /\ call[c].pc = "idle" /\ Others(c)
         /\ call'[c].op = o /\ o \in {"server", "profile"}
         /\ call'[c].pc = "next" /\ call'[c].t = {}
         /\ call'[c].queue = workers /\ call'[c].found = workers /\ ~call'[c].holds
<1> DEFINE r == [NoCall EXCEPT !.op = o, !.pc = "next", !.queue = workers, !.found = workers]
<1>1. NoCall \in CallType
  BY DEF NoCall, CallType, Places
<1>2. r \in CallType
  BY <1>1 DEF CallType, Places
<1>3. /\ r.op = o /\ r.pc = "next" /\ r.t = {} /\ r.queue = workers /\ r.found = workers /\ ~r.holds
  BY <1>1 DEF CallType, NoCall
<1>4. call' = [call EXCEPT ![c] = r]
  BY DEF StopMany
<1> HIDE DEF r
<1>5. QED
  BY <1>2, <1>3, <1>4 DEF CallOK, Others, StopMany, Free, core, resVars

\* The next worker of the list.
LEMMA NextBegins ==
  ASSUME CallOK, NEW c \in Calls, StopNext(c)
  PROVE  /\ CallOK' /\ UNCHANGED <<core, profile, accept, conn>>
         /\ call[c].pc = "next" /\ Others(c)
         /\ \E t \in call[c].queue \cap Tunnels : call'[c].t = {t} /\ call'[c].queue = call[c].queue \ {t}
         /\ call'[c].op = call[c].op /\ call'[c].pc = "mark" /\ call'[c].found = call[c].found
         /\ call'[c].holds <=> call[c].holds
<1>1. PICK t \in call[c].queue :
        call' = [call EXCEPT ![c].pc = "mark", ![c].t = {t}, ![c].queue = @ \ {t}]
  BY DEF StopNext
<1>2. t \in Tunnels
  BY DEF CallOK, CallType
<1> DEFINE r == [call[c] EXCEPT !.pc = "mark", !.t = {t}, !.queue = @ \ {t}]
<1>3. call' = [call EXCEPT ![c] = r]
  BY <1>1
<1>4. call[c] \in CallType
  BY DEF CallOK
<1>5. r \in CallType
  BY <1>2, <1>4 DEF CallType, Places
<1>6. /\ r.pc = "mark" /\ r.t = {t} /\ r.queue = call[c].queue \ {t} /\ r.op = call[c].op /\ r.found = call[c].found
      /\ r.holds <=> call[c].holds
  BY <1>4 DEF CallType
<1> HIDE DEF r
<1>7. CallOK' /\ Others(c) /\ call'[c] = r
  BY <1>3, <1>5 DEF CallOK, Others
<1>8. UNCHANGED <<core, profile, accept, conn>> /\ call[c].pc = "next"
  BY DEF StopNext, core, resVars
<1>9. QED
  BY <1>2, <1>6, <1>7, <1>8

\* The list is empty.
LEMMA ManyEnds ==
  ASSUME CallOK, NEW c \in Calls, StopManyEnds(c)
  PROVE  CallOK' /\ UNCHANGED <<core, accept, conn>> /\ call[c].pc = "next" /\ Ended(c)
BY ReturnEffect DEF StopManyEnds, core, resVars

\* CheckRemoteListen only acts on "not found".
LEMMA CheckEffect ==
  ASSUME TypeOK, CallOK, NEW c \in Calls, NEW t \in Tunnels, CheckResult(c, t)
  PROVE  /\ CallOK' /\ UNCHANGED <<kind, start, stopping, listener, transport, workers, early,
                                   profile, accept, conn>>
         /\ call[c].pc = "probe" /\ On(c, t)
         /\ \/ Ended(c) /\ UNCHANGED status
            \/ Moved(c, "take") /\ status' = [status EXCEPT ![t] = "failed"]
BY GotoEffect, ReturnEffect DEF CheckResult, resVars, Places

\* "stopping" comes first.
LEMMA MarkEffect ==
  ASSUME CallOK, NEW c \in Calls, NEW t \in Tunnels, MarkStopping(c, t)
  PROVE  /\ CallOK' /\ UNCHANGED <<kind, start, stopping, listener, transport, workers, early,
                                   profile, accept, conn>>
         /\ call[c].pc = "mark" /\ On(c, t) /\ Moved(c, "take")
         /\ status' = [status EXCEPT ![t] = "stopping"]
BY GotoEffect DEF MarkStopping, resVars, Places

\* Only one call takes the resources of a worker.
LEMMA TakeEffect ==
  ASSUME CallOK, NEW c \in Calls, NEW t \in Tunnels, closeRuntimeResources(c, t)
  PROVE  /\ CallOK' /\ UNCHANGED <<kind, start, status, listener, transport, workers, profile,
                                   accept>>
         /\ call[c].pc = "take" /\ On(c, t) /\ ~stopping[t]
         /\ stopping' = [stopping EXCEPT ![t] = TRUE]
         /\ early' = IF call[c].op = "keepalive" /\ t \notin workers THEN early \cup {t} ELSE early
         /\ Others(c) /\ call'[c].pc = "close" /\ call'[c].op = call[c].op /\ call'[c].t = call[c].t
         /\ call'[c].queue = call[c].queue /\ call'[c].found = call[c].found /\ call'[c].holds
<1> DEFINE r == [call[c] EXCEPT !.pc = "close", !.holds = TRUE]
<1>1. call' = [call EXCEPT ![c] = r]
  BY DEF closeRuntimeResources
<1>2. call[c] \in CallType
  BY DEF CallOK
<1>3. r \in CallType
  BY <1>2 DEF CallType, Places
<1>4. /\ r.pc = "close" /\ r.t = call[c].t /\ r.queue = call[c].queue /\ r.op = call[c].op /\ r.found = call[c].found
      /\ r.holds
  BY <1>2 DEF CallType
<1> HIDE DEF r
<1>5. CallOK' /\ Others(c) /\ call'[c] = r
  BY <1>1, <1>3 DEF CallOK, Others
<1>6. QED
  BY <1>4, <1>5 DEF closeRuntimeResources

\* The calls that come second.
LEMMA SecondEffect ==
  ASSUME CallOK, NEW c \in Calls, NEW t \in Tunnels, AlreadyStopping(c, t)
  PROVE  /\ CallOK' /\ UNCHANGED <<kind, start, stopping, listener, transport, workers, early,
                                   profile, accept, conn>>
         /\ call[c].pc = "take" /\ On(c, t) /\ stopping[t]
         /\ status' = [status EXCEPT ![t] = IF call[c].op = "access" THEN "failed" ELSE @]
         /\ \/ call[c].op \in {"stop", "profile"} /\ Moved(c, "verify")
            \/ call[c].op \in {"server", "keepalive"} /\ Moved(c, "final")
            \/ call[c].op \in {"access", "check"} /\ Ended(c)
<1>1. CASE call[c].op \in {"stop", "profile"}
  BY <1>1, GotoEffect DEF AlreadyStopping, StopOps, Verified, resVars, Places
<1>2. CASE call[c].op \in {"server", "keepalive"}
  BY <1>2, GotoEffect DEF AlreadyStopping, StopOps, Verified, resVars, Places
<1>3. CASE call[c].op \in {"access", "check"}
  BY <1>3, ReturnEffect DEF AlreadyStopping, StopOps, Verified, resVars, Places
<1>4. QED
  BY <1>1, <1>2, <1>3 DEF AlreadyStopping, StopOps

\* The listener is closed, and the transport by a call that does not verify.
LEMMA CloseEffect ==
  ASSUME CallOK, NEW c \in Calls, NEW t \in Tunnels, CloseRuntime(c, t)
  PROVE  /\ CallOK' /\ UNCHANGED <<kind, start, status, stopping, workers, early, profile, accept,
                                   conn>>
         /\ call[c].pc = "close" /\ On(c, t)
         /\ listener' = [listener EXCEPT ![t] = "closed"]
         /\ transport' = IF call[c].op \in {"keepalive", "check"}
                          THEN [transport EXCEPT ![t] = "closed"] ELSE transport
         /\ \/ call[c].op = "check" /\ Ended(c)
            \/ call[c].op \in {"keepalive", "server"} /\ Moved(c, "final")
            \/ call[c].op \in {"stop", "profile", "access"} /\ Moved(c, "verify")
<1>1. CASE call[c].op = "check"
  BY <1>1, ReturnEffect DEF CloseRuntime, Verified
<1>2. CASE call[c].op \in {"server", "keepalive"}
  BY <1>2, GotoEffect DEF CloseRuntime, Verified, Places
<1>3. CASE call[c].op \in {"stop", "profile", "access"}
  BY <1>3, GotoEffect DEF CloseRuntime, Verified, Places
<1>4. QED
  BY <1>1, <1>2, <1>3 DEF CloseRuntime, Verified

\* A local tunnel that is found released does not listen.
LEMMA VerifiedEffect ==
  ASSUME CallOK, NEW c \in Calls, NEW t \in Tunnels, VerifyReleased(c, t)
  PROVE  /\ CallOK' /\ UNCHANGED <<core, profile, accept, conn>>
         /\ call[c].pc = "verify" /\ On(c, t) /\ Moved(c, "final")
         /\ IsLocal(t) => listener[t] # "open"
<1>1. IsLocal(t) => listener[t] # "open"
  BY DEF VerifyReleased, PortReleased, PortOpen
<1>2. QED
  BY <1>1, GotoEffect DEF VerifyReleased, core, resVars, Places

\* A stop that gives up closes what it holds.
LEMMA GivesUpEffect ==
  ASSUME CallOK, NEW c \in Calls, NEW t \in Tunnels, VerifyFails(c, t)
  PROVE  /\ CallOK' /\ UNCHANGED <<kind, start, stopping, listener, workers, early, profile,
                                   accept, conn>>
         /\ call[c].pc = "verify" /\ On(c, t) /\ Ended(c)
         /\ status' = [status EXCEPT ![t] = "failed"]
         /\ transport' = [transport EXCEPT ![t] = IF call[c].holds THEN "closed" ELSE @]
BY ReturnEffect DEF VerifyFails

\* "stopped", or "failed" after a keepalive.
LEMMA FinalEffect ==
  ASSUME CallOK, NEW c \in Calls, NEW t \in Tunnels, FinalStatus(c, t)
  PROVE  /\ CallOK' /\ UNCHANGED <<kind, start, stopping, listener, transport, workers, early,
                                   profile, accept, conn>>
         /\ call[c].pc = "final" /\ On(c, t) /\ Moved(c, "drop")
         /\ status' = [status EXCEPT ![t] = IF call[c].op = "keepalive" THEN "failed" ELSE "stopped"]
BY GotoEffect DEF FinalStatus, resVars, Places

\* The worker leaves the map.
LEMMA DropEffect ==
  ASSUME CallOK, NEW c \in Calls, NEW t \in Tunnels, Drop(c, t)
  PROVE  /\ CallOK' /\ UNCHANGED <<kind, start, status, stopping, listener, transport, early,
                                   profile, accept, conn>>
         /\ call[c].pc = "drop" /\ On(c, t) /\ Moved(c, "end") /\ workers' = workers \ {t}
BY GotoEffect DEF Drop, resVars, Places

\* The deferred Close; the list goes on or the call is over.
LEMMA EndEffect ==
  ASSUME CallOK, NEW c \in Calls, NEW t \in Tunnels, EndCall(c, t)
  PROVE  /\ CallOK' /\ UNCHANGED <<kind, start, status, stopping, listener, workers, early,
                                   profile, accept, conn>>
         /\ call[c].pc = "end" /\ On(c, t)
         /\ transport' = [transport EXCEPT ![t] = IF call[c].holds THEN "closed" ELSE @]
         /\ \/ /\ call[c].op \in {"server", "profile"}
               /\ Others(c) /\ call'[c].pc = "next" /\ call'[c].op = call[c].op /\ call'[c].t = {}
               /\ call'[c].queue = call[c].queue /\ call'[c].found = call[c].found /\ ~call'[c].holds
            \/ Ended(c)
<1>1. CASE call[c].op \in {"server", "profile"}
  <2> DEFINE r == [call[c] EXCEPT !.pc = "next", !.t = {}, !.holds = FALSE]
  <2>1. call' = [call EXCEPT ![c] = r]
    BY <1>1 DEF EndCall
  <2>2. call[c] \in CallType
    BY DEF CallOK
  <2>3. r \in CallType
    BY <2>2 DEF CallType, Places
  <2>4. /\ r.pc = "next" /\ r.t = {} /\ r.queue = call[c].queue /\ r.op = call[c].op /\ r.found = call[c].found
        /\ ~r.holds
    BY <2>2 DEF CallType
  <2> HIDE DEF r
  <2>5. CallOK' /\ Others(c) /\ call'[c] = r
    BY <2>1, <2>3 DEF CallOK, Others
  <2>6. QED
    BY <1>1, <2>4, <2>5 DEF EndCall
<1>2. CASE call[c].op \notin {"server", "profile"}
  BY <1>2, ReturnEffect DEF EndCall
<1>3. QED
  BY <1>1, <1>2

----------------------------------------------------------------------------
\* Types.

\* TypeOK without the calls.
RestOK ==
  /\ kind \in [Tunnels -> Kinds]
  /\ profile \in BOOLEAN
  /\ start \in [Tunnels -> StartPlaces]
  /\ status \in [Tunnels -> {"none", "starting", "running", "stopping", "stopped", "failed"}]
  /\ stopping \in [Tunnels -> BOOLEAN]
  /\ listener \in [Tunnels -> {"none", "open", "closed"}]
  /\ transport \in [Tunnels -> {"none", "open", "closed"}]
  /\ workers \subseteq Tunnels
  /\ accept \in [Tunnels -> {"no", "run", "failing", "done"}]
  /\ conn \in [Tunnels -> {"none", "handshake", "dial", "pair", "cut"}]
  /\ early \subseteq Tunnels

\* The types of the tunnels and of the calls.
LEMMA TypeParts == TypeOK <=> RestOK /\ CallOK
BY DEF TypeOK, RestOK, CallOK, CallType, Places, StartPlaces

\* A call works on at most one tunnel.
LEMMA Single == \A t, u \in Tunnels : ({t} = {u} => t = u) /\ {t} # {}
OBVIOUS

\* Every step keeps the types of the tunnels.
LEMMA RestStep ==
  ASSUME RestOK, CallOK, [Next]_vars
  PROVE  RestOK'
<1>1. CASE UNCHANGED <<kind, profile, start, status, stopping, listener, transport, workers,
                       accept, conn, early>>
  BY <1>1 DEF RestOK
<1>2. ASSUME NEW t \in Tunnels, StartTunnel(t) PROVE RestOK'
  BY <1>2 DEF StartTunnel, resVars, RestOK, StartPlaces
<1>3. ASSUME NEW t \in Tunnels, SetupListen(t) PROVE RestOK'
  BY <1>3 DEF SetupListen, RestOK, StartPlaces
<1>4. ASSUME NEW t \in Tunnels, SetupDial(t) PROVE RestOK'
  BY <1>4 DEF SetupDial, RestOK, StartPlaces
<1>5. ASSUME NEW t \in Tunnels, StartCheck(t) PROVE RestOK'
  BY <1>5 DEF StartCheck, resVars, RestOK, StartPlaces
<1>6. ASSUME NEW t \in Tunnels, StartMark(t) PROVE RestOK'
  BY <1>6 DEF StartMark, resVars, RestOK, StartPlaces
<1>7. ASSUME NEW t \in Tunnels, StartRegister(t) PROVE RestOK'
  BY <1>7 DEF StartRegister, resVars, RestOK, StartPlaces
<1>8. ASSUME NEW t \in Tunnels, StartFails(t) PROVE RestOK'
  BY <1>8 DEF StartFails, RestOK, StartPlaces
<1>9. ASSUME NEW t \in Tunnels, CommitSuccessful(t) PROVE RestOK'
  BY <1>9 DEF CommitSuccessful, resVars, RestOK, StartPlaces
<1>10. ASSUME NEW t \in Tunnels, AcceptConn(t) PROVE RestOK'
  BY <1>10 DEF AcceptConn, resVars, RestOK, StartPlaces
<1>11. ASSUME NEW t \in Tunnels, AcceptError(t) PROVE RestOK'
  BY <1>11 DEF AcceptError, resVars, RestOK, StartPlaces
<1>12. ASSUME NEW t \in Tunnels, AcceptFailed(t) PROVE RestOK'
  BY <1>12 DEF AcceptFailed, resVars, RestOK, StartPlaces
<1>13. ASSUME NEW t \in Tunnels, Handshake(t) PROVE RestOK'
  BY <1>13 DEF Handshake, connRest, resVars, RestOK, StartPlaces
<1>14. ASSUME NEW t \in Tunnels, DialTarget(t) PROVE RestOK'
  BY <1>14 DEF DialTarget, connRest, resVars, RestOK, StartPlaces
<1>15. ASSUME NEW t \in Tunnels, PairEnds(t) PROVE RestOK'
  BY <1>15 DEF PairEnds, connRest, resVars, RestOK, StartPlaces
<1>16. ASSUME NEW c \in Calls, NEW t \in Tunnels, CheckResult(c, t) PROVE RestOK'
  BY <1>16 DEF CheckResult, resVars, RestOK, StartPlaces
<1>17. ASSUME NEW c \in Calls, NEW t \in Tunnels, MarkStopping(c, t) PROVE RestOK'
  BY <1>17 DEF MarkStopping, resVars, RestOK, StartPlaces
<1>18. ASSUME NEW c \in Calls, NEW t \in Tunnels, closeRuntimeResources(c, t) PROVE RestOK'
  BY <1>18 DEF closeRuntimeResources, resVars, RestOK, StartPlaces
<1>19. ASSUME NEW c \in Calls, NEW t \in Tunnels, AlreadyStopping(c, t) PROVE RestOK'
  BY <1>19 DEF AlreadyStopping, resVars, RestOK, StartPlaces
<1>20. ASSUME NEW c \in Calls, NEW t \in Tunnels, CloseRuntime(c, t) PROVE RestOK'
  BY <1>20 DEF CloseRuntime, resVars, RestOK, StartPlaces
<1>21. ASSUME NEW c \in Calls, NEW t \in Tunnels, VerifyFails(c, t) PROVE RestOK'
  BY <1>21 DEF VerifyFails, resVars, RestOK, StartPlaces
<1>22. ASSUME NEW c \in Calls, NEW t \in Tunnels, FinalStatus(c, t) PROVE RestOK'
  BY <1>22 DEF FinalStatus, resVars, RestOK, StartPlaces
<1>23. ASSUME NEW c \in Calls, NEW t \in Tunnels, Drop(c, t) PROVE RestOK'
  BY <1>23 DEF Drop, resVars, RestOK, StartPlaces
<1>24. ASSUME NEW c \in Calls, NEW t \in Tunnels, EndCall(c, t) PROVE RestOK'
  BY <1>24 DEF EndCall, resVars, RestOK, StartPlaces
<1>25. ASSUME NEW c \in Calls, StopManyEnds(c) PROVE RestOK'
  BY <1>25 DEF StopManyEnds, resVars, RestOK, StartPlaces
<1>26. ASSUME NEW c \in Calls, NEW t \in Tunnels, Stop(c, t) \/ EnableRemoteForwardAccessAndStop(c,
                                                  t) \/ CheckRemoteListen(c, t)
                                                  \/ handleKeepaliveFailure(c, t)
                                                  \/ VerifyReleased(c, t)
       PROVE  UNCHANGED <<kind, profile, start, status, stopping, listener, transport, workers,
                          accept, conn, early>>
  BY <1>26 DEF Stop, EnableRemoteForwardAccessAndStop, CheckRemoteListen, handleKeepaliveFailure,
     VerifyReleased, resVars
<1>27. ASSUME NEW c \in Calls, NEW o \in Ops, StopMany(c, o)
       PROVE  UNCHANGED <<kind, profile, start, status, stopping, listener, transport, workers,
                          accept, conn, early>>
  BY <1>27 DEF StopMany, resVars
<1>28. ASSUME NEW c \in Calls, StopNext(c)
       PROVE  UNCHANGED <<kind, profile, start, status, stopping, listener, transport, workers,
                          accept, conn, early>>
  BY <1>28 DEF StopNext, resVars
<1>29. CASE UNCHANGED vars
  BY <1>1, <1>29 DEF vars
<1>30. QED
  BY <1>1, <1>2, <1>3, <1>4, <1>5, <1>6, <1>7, <1>8, <1>9, <1>10, <1>11, <1>12, <1>13, <1>14,
     <1>15, <1>16, <1>17, <1>18, <1>19, <1>20, <1>21, <1>22, <1>23, <1>24, <1>25, <1>26, <1>27,
     <1>28, <1>29
     DEF Next, StartStep, ConnStep, CallStep

\* Every step keeps the types of the calls.
LEMMA CallStepType ==
  ASSUME TypeOK, [Next]_vars
  PROVE  CallOK'
<1>c. CallOK
  BY TypeParts
<1>z0. start \in [Tunnels -> StartPlaces] /\ workers \subseteq Tunnels
  BY DEF TypeOK, StartPlaces
<1>1. CASE UNCHANGED <<call>>
  BY <1>z0, <1>1, <1>c DEF CallOK
<1>2. ASSUME NEW c \in Calls, NEW t \in Tunnels, Stop(c, t) \/ EnableRemoteForwardAccessAndStop(c,
                                                 t) \/ CheckRemoteListen(c, t) PROVE CallOK'
  BY <1>c, <1>2, UserBegins DEF TypeOK, StartPlaces
<1>3. ASSUME NEW c \in Calls, NEW t \in Tunnels, handleKeepaliveFailure(c, t) PROVE CallOK'
  BY <1>c, <1>3, KeepaliveBegins DEF TypeOK, StartPlaces
<1>4. ASSUME NEW t \in Tunnels, CommitSuccessful(t) PROVE CallOK'
  BY <1>c, <1>4, CommitEnds DEF TypeOK, StartPlaces
<1>5. ASSUME NEW c \in Calls, NEW o \in Ops, StopMany(c, o) PROVE CallOK'
  BY <1>c, <1>5, ManyBegins DEF TypeOK, StartPlaces
<1>6. ASSUME NEW c \in Calls, StopNext(c) PROVE CallOK'
  BY <1>c, <1>6, NextBegins DEF TypeOK, StartPlaces
<1>7. ASSUME NEW c \in Calls, StopManyEnds(c) PROVE CallOK'
  BY <1>c, <1>7, ManyEnds DEF TypeOK, StartPlaces
<1>8. ASSUME NEW c \in Calls, NEW t \in Tunnels, CheckResult(c, t) PROVE CallOK'
  BY <1>c, <1>8, CheckEffect DEF TypeOK, StartPlaces
<1>9. ASSUME NEW c \in Calls, NEW t \in Tunnels, MarkStopping(c, t) PROVE CallOK'
  BY <1>c, <1>9, MarkEffect DEF TypeOK, StartPlaces
<1>10. ASSUME NEW c \in Calls, NEW t \in Tunnels, closeRuntimeResources(c, t) PROVE CallOK'
  BY <1>c, <1>10, TakeEffect DEF TypeOK, StartPlaces
<1>11. ASSUME NEW c \in Calls, NEW t \in Tunnels, AlreadyStopping(c, t) PROVE CallOK'
  BY <1>c, <1>11, SecondEffect DEF TypeOK, StartPlaces
<1>12. ASSUME NEW c \in Calls, NEW t \in Tunnels, CloseRuntime(c, t) PROVE CallOK'
  BY <1>c, <1>12, CloseEffect DEF TypeOK, StartPlaces
<1>13. ASSUME NEW c \in Calls, NEW t \in Tunnels, VerifyReleased(c, t) PROVE CallOK'
  BY <1>c, <1>13, VerifiedEffect DEF TypeOK, StartPlaces
<1>14. ASSUME NEW c \in Calls, NEW t \in Tunnels, VerifyFails(c, t) PROVE CallOK'
  BY <1>c, <1>14, GivesUpEffect DEF TypeOK, StartPlaces
<1>15. ASSUME NEW c \in Calls, NEW t \in Tunnels, FinalStatus(c, t) PROVE CallOK'
  BY <1>c, <1>15, FinalEffect DEF TypeOK, StartPlaces
<1>16. ASSUME NEW c \in Calls, NEW t \in Tunnels, Drop(c, t) PROVE CallOK'
  BY <1>c, <1>16, DropEffect DEF TypeOK, StartPlaces
<1>17. ASSUME NEW c \in Calls, NEW t \in Tunnels, EndCall(c, t) PROVE CallOK'
  BY <1>c, <1>17, EndEffect DEF TypeOK, StartPlaces
<1>18. ASSUME NEW t \in Tunnels, StartTunnel(t) \/ SetupListen(t) \/ SetupDial(t)
                                 \/ StartCheck(t) \/ StartMark(t) \/ StartRegister(t)
                                 \/ StartFails(t) \/ AcceptConn(t) \/ AcceptError(t)
                                 \/ AcceptFailed(t) \/ Handshake(t) \/ DialTarget(t) \/ PairEnds(t)
       PROVE  UNCHANGED <<call>>
  BY <1>18 DEF StartTunnel, SetupListen, SetupDial, StartCheck, StartMark, StartRegister,
     StartFails, AcceptConn, AcceptError, AcceptFailed, Handshake, DialTarget, PairEnds, connRest,
     resVars
<1>19. CASE UNCHANGED vars
  BY <1>1, <1>19 DEF vars
<1>20. QED
  BY <1>1, <1>2, <1>3, <1>4, <1>5, <1>6, <1>7, <1>8, <1>9, <1>10, <1>11, <1>12, <1>13, <1>14,
     <1>15, <1>16, <1>17, <1>18, <1>19
     DEF Next, StartStep, ConnStep, CallStep

\* A call takes its sections in their order.
LEMMA CallShapeStep ==
  ASSUME TypeOK, CallShape, [Next]_vars
  PROVE  CallShape'
<1>c. CallOK
  BY TypeParts
<1>z0. start \in [Tunnels -> StartPlaces] /\ workers \subseteq Tunnels
  BY DEF TypeOK, StartPlaces
<1>1. CASE UNCHANGED <<call>>
  BY <1>z0, Single, <1>1 DEF CallShape, On
<1>2. ASSUME NEW c \in Calls, NEW t \in Tunnels, Stop(c, t) \/ EnableRemoteForwardAccessAndStop(c,
                                                 t) \/ CheckRemoteListen(c, t) PROVE CallShape'
  BY <1>z0, Single, <1>c, <1>2, UserBegins DEF CallShape, On, Moved, Ended, Begun, Others, NoCall,
     core
<1>3. ASSUME NEW c \in Calls, NEW t \in Tunnels, handleKeepaliveFailure(c, t) PROVE CallShape'
  BY <1>z0, Single, <1>c, <1>3, KeepaliveBegins DEF CallShape, On, Moved, Ended, Begun, Others,
     NoCall, core
<1>4. ASSUME NEW t \in Tunnels, CommitSuccessful(t) PROVE CallShape'
  BY <1>z0, Single, <1>c, <1>4, CommitEnds DEF CallShape, On, Moved, Ended, Begun, Others, NoCall,
     core
<1>5. ASSUME NEW c \in Calls, NEW o \in Ops, StopMany(c, o) PROVE CallShape'
  BY <1>z0, Single, <1>c, <1>5, ManyBegins DEF CallShape, On, Moved, Ended, Begun, Others, NoCall,
     core
<1>6. ASSUME NEW c \in Calls, StopNext(c) PROVE CallShape'
  BY <1>z0, Single, <1>c, <1>6, NextBegins DEF CallShape, On, Moved, Ended, Begun, Others, NoCall,
     core
<1>7. ASSUME NEW c \in Calls, StopManyEnds(c) PROVE CallShape'
  BY <1>z0, Single, <1>c, <1>7, ManyEnds DEF CallShape, On, Moved, Ended, Begun, Others, NoCall,
     core
<1>8. ASSUME NEW c \in Calls, NEW t \in Tunnels, CheckResult(c, t) PROVE CallShape'
  BY <1>z0, Single, <1>c, <1>8, CheckEffect DEF CallShape, On, Moved, Ended, Begun, Others, NoCall,
     core
<1>9. ASSUME NEW c \in Calls, NEW t \in Tunnels, MarkStopping(c, t) PROVE CallShape'
  BY <1>z0, Single, <1>c, <1>9, MarkEffect DEF CallShape, On, Moved, Ended, Begun, Others, NoCall,
     core
<1>10. ASSUME NEW c \in Calls, NEW t \in Tunnels, closeRuntimeResources(c, t) PROVE CallShape'
  BY <1>z0, Single, <1>c, <1>10, TakeEffect DEF CallShape, On, Moved, Ended, Begun, Others, NoCall,
     core
<1>11. ASSUME NEW c \in Calls, NEW t \in Tunnels, AlreadyStopping(c, t) PROVE CallShape'
  BY <1>z0, Single, <1>c, <1>11, SecondEffect DEF CallShape, On, Moved, Ended, Begun, Others,
     NoCall, core
<1>12. ASSUME NEW c \in Calls, NEW t \in Tunnels, CloseRuntime(c, t) PROVE CallShape'
  BY <1>z0, Single, <1>c, <1>12, CloseEffect DEF CallShape, On, Moved, Ended, Begun, Others,
     NoCall, core
<1>13. ASSUME NEW c \in Calls, NEW t \in Tunnels, VerifyReleased(c, t) PROVE CallShape'
  BY <1>z0, Single, <1>c, <1>13, VerifiedEffect DEF CallShape, On, Moved, Ended, Begun, Others,
     NoCall, core
<1>14. ASSUME NEW c \in Calls, NEW t \in Tunnels, VerifyFails(c, t) PROVE CallShape'
  BY <1>z0, Single, <1>c, <1>14, GivesUpEffect DEF CallShape, On, Moved, Ended, Begun, Others,
     NoCall, core
<1>15. ASSUME NEW c \in Calls, NEW t \in Tunnels, FinalStatus(c, t) PROVE CallShape'
  BY <1>z0, Single, <1>c, <1>15, FinalEffect DEF CallShape, On, Moved, Ended, Begun, Others,
     NoCall, core
<1>16. ASSUME NEW c \in Calls, NEW t \in Tunnels, Drop(c, t) PROVE CallShape'
  BY <1>z0, Single, <1>c, <1>16, DropEffect DEF CallShape, On, Moved, Ended, Begun, Others, NoCall,
     core
<1>17. ASSUME NEW c \in Calls, NEW t \in Tunnels, EndCall(c, t) PROVE CallShape'
  BY <1>z0, Single, <1>c, <1>17, EndEffect DEF CallShape, On, Moved, Ended, Begun, Others, NoCall,
     core
<1>18. ASSUME NEW t \in Tunnels, StartTunnel(t) \/ SetupListen(t) \/ SetupDial(t)
                                 \/ StartCheck(t) \/ StartMark(t) \/ StartRegister(t)
                                 \/ StartFails(t) \/ AcceptConn(t) \/ AcceptError(t)
                                 \/ AcceptFailed(t) \/ Handshake(t) \/ DialTarget(t) \/ PairEnds(t)
       PROVE  UNCHANGED <<call>>
  BY <1>18 DEF StartTunnel, SetupListen, SetupDial, StartCheck, StartMark, StartRegister,
     StartFails, AcceptConn, AcceptError, AcceptFailed, Handshake, DialTarget, PairEnds, connRest,
     resVars
<1>19. CASE UNCHANGED vars
  BY <1>1, <1>19 DEF vars
<1>20. QED
  BY <1>1, <1>2, <1>3, <1>4, <1>5, <1>6, <1>7, <1>8, <1>9, <1>10, <1>11, <1>12, <1>13, <1>14,
     <1>15, <1>16, <1>17, <1>18, <1>19
     DEF Next, StartStep, ConnStep, CallStep

\* A call begins with a registered worker, the keepalive with a dialled one.
LEMMA OwnerStep ==
  ASSUME TypeOK, OwnerInv, CallShape, ListInv, [Next]_vars
  PROVE  OwnerInv'
<1>c. CallOK
  BY TypeParts
<1>z0. start \in [Tunnels -> StartPlaces] /\ stopping \in [Tunnels -> BOOLEAN] /\ workers \subseteq Tunnels
  BY DEF TypeOK, StartPlaces
<1>1. CASE UNCHANGED <<call, stopping, start>>
  BY <1>z0, Single, <1>1 DEF OwnerInv, CallShape, ListInv, Early, Checked, Started, On
<1>2. ASSUME NEW t \in Tunnels, StartTunnel(t) PROVE OwnerInv'
  BY <1>z0, Single, <1>2 DEF StartTunnel, resVars, OwnerInv, CallShape, ListInv, Early, Checked,
     Started, On
<1>3. ASSUME NEW t \in Tunnels, SetupListen(t) PROVE OwnerInv'
  BY <1>z0, Single, <1>3 DEF SetupListen, OwnerInv, CallShape, ListInv, Early, Checked, Started, On
<1>4. ASSUME NEW t \in Tunnels, SetupDial(t) PROVE OwnerInv'
  BY <1>z0, Single, <1>4 DEF SetupDial, OwnerInv, CallShape, ListInv, Early, Checked, Started, On
<1>5. ASSUME NEW t \in Tunnels, StartCheck(t) PROVE OwnerInv'
  BY <1>z0, Single, <1>5 DEF StartCheck, resVars, OwnerInv, CallShape, ListInv, Early, Checked,
     Started, On
<1>6. ASSUME NEW t \in Tunnels, StartMark(t) PROVE OwnerInv'
  BY <1>z0, Single, <1>6 DEF StartMark, resVars, OwnerInv, CallShape, ListInv, Early, Checked,
     Started, On
<1>7. ASSUME NEW t \in Tunnels, StartRegister(t) PROVE OwnerInv'
  BY <1>z0, Single, <1>7 DEF StartRegister, resVars, OwnerInv, CallShape, ListInv, Early, Checked,
     Started, On
<1>8. ASSUME NEW t \in Tunnels, StartFails(t) PROVE OwnerInv'
  BY <1>z0, Single, <1>8 DEF StartFails, OwnerInv, CallShape, ListInv, Early, Checked, Started, On
<1>9. ASSUME NEW c \in Calls, NEW t \in Tunnels, Stop(c, t) \/ EnableRemoteForwardAccessAndStop(c,
                                                 t) \/ CheckRemoteListen(c, t) PROVE OwnerInv'
  BY <1>z0, Single, <1>c, <1>9, UserBegins DEF OwnerInv, CallShape, ListInv, Early, Checked,
     Started, On, Moved, Ended, Begun, Others, NoCall, core
<1>10. ASSUME NEW c \in Calls, NEW t \in Tunnels, handleKeepaliveFailure(c, t) PROVE OwnerInv'
  BY <1>z0, Single, <1>c, <1>10, KeepaliveBegins DEF OwnerInv, CallShape, ListInv, Early, Checked,
     Started, On, Moved, Ended, Begun, Others, NoCall, core
<1>11. ASSUME NEW t \in Tunnels, CommitSuccessful(t) PROVE OwnerInv'
  BY <1>z0, Single, <1>c, <1>11, CommitEnds DEF OwnerInv, CallShape, ListInv, Early, Checked,
     Started, On, Moved, Ended, Begun, Others, NoCall, core
<1>12. ASSUME NEW c \in Calls, NEW o \in Ops, StopMany(c, o) PROVE OwnerInv'
  BY <1>z0, Single, <1>c, <1>12, ManyBegins DEF OwnerInv, CallShape, ListInv, Early, Checked,
     Started, On, Moved, Ended, Begun, Others, NoCall, core
<1>13. ASSUME NEW c \in Calls, StopNext(c) PROVE OwnerInv'
  BY <1>z0, Single, <1>c, <1>13, NextBegins DEF OwnerInv, CallShape, ListInv, Early, Checked,
     Started, On, Moved, Ended, Begun, Others, NoCall, core
<1>14. ASSUME NEW c \in Calls, StopManyEnds(c) PROVE OwnerInv'
  BY <1>z0, Single, <1>c, <1>14, ManyEnds DEF OwnerInv, CallShape, ListInv, Early, Checked,
     Started, On, Moved, Ended, Begun, Others, NoCall, core
<1>15. ASSUME NEW c \in Calls, NEW t \in Tunnels, CheckResult(c, t) PROVE OwnerInv'
  BY <1>z0, Single, <1>c, <1>15, CheckEffect DEF OwnerInv, CallShape, ListInv, Early, Checked,
     Started, On, Moved, Ended, Begun, Others, NoCall, core
<1>16. ASSUME NEW c \in Calls, NEW t \in Tunnels, MarkStopping(c, t) PROVE OwnerInv'
  BY <1>z0, Single, <1>c, <1>16, MarkEffect DEF OwnerInv, CallShape, ListInv, Early, Checked,
     Started, On, Moved, Ended, Begun, Others, NoCall, core
<1>17. ASSUME NEW c \in Calls, NEW t \in Tunnels, closeRuntimeResources(c, t) PROVE OwnerInv'
  BY <1>z0, Single, <1>c, <1>17, TakeEffect DEF OwnerInv, CallShape, ListInv, Early, Checked,
     Started, On, Moved, Ended, Begun, Others, NoCall, core
<1>18. ASSUME NEW c \in Calls, NEW t \in Tunnels, AlreadyStopping(c, t) PROVE OwnerInv'
  BY <1>z0, Single, <1>c, <1>18, SecondEffect DEF OwnerInv, CallShape, ListInv, Early, Checked,
     Started, On, Moved, Ended, Begun, Others, NoCall, core
<1>19. ASSUME NEW c \in Calls, NEW t \in Tunnels, CloseRuntime(c, t) PROVE OwnerInv'
  <2>1. \A d \in Calls, u \in Tunnels :
          On(d, u)' => /\ On(d, u) /\ call'[d].op = call[d].op
                       /\ d # c => call'[d].pc = call[d].pc
    BY <1>c, <1>19, CloseEffect, Single DEF On, Moved, Ended, Others, NoCall
  <2>2. On(c, t) /\ stopping[t] /\ UNCHANGED <<stopping, start>>
    BY <1>c, <1>19, CloseEffect DEF OwnerInv
  <2>3. \A u \in Tunnels : On(c, u) => u = t
    BY <2>2, Single DEF On
  <2>4. QED
    BY <2>1, <2>2, <2>3 DEF OwnerInv
<1>20. ASSUME NEW c \in Calls, NEW t \in Tunnels, VerifyReleased(c, t) PROVE OwnerInv'
  BY <1>z0, Single, <1>c, <1>20, VerifiedEffect DEF OwnerInv, CallShape, ListInv, Early, Checked,
     Started, On, Moved, Ended, Begun, Others, NoCall, core
<1>21. ASSUME NEW c \in Calls, NEW t \in Tunnels, VerifyFails(c, t) PROVE OwnerInv'
  BY <1>z0, Single, <1>c, <1>21, GivesUpEffect DEF OwnerInv, CallShape, ListInv, Early, Checked,
     Started, On, Moved, Ended, Begun, Others, NoCall, core
<1>22. ASSUME NEW c \in Calls, NEW t \in Tunnels, FinalStatus(c, t) PROVE OwnerInv'
  BY <1>z0, Single, <1>c, <1>22, FinalEffect DEF OwnerInv, CallShape, ListInv, Early, Checked,
     Started, On, Moved, Ended, Begun, Others, NoCall, core
<1>23. ASSUME NEW c \in Calls, NEW t \in Tunnels, Drop(c, t) PROVE OwnerInv'
  BY <1>z0, Single, <1>c, <1>23, DropEffect DEF OwnerInv, CallShape, ListInv, Early, Checked,
     Started, On, Moved, Ended, Begun, Others, NoCall, core
<1>24. ASSUME NEW c \in Calls, NEW t \in Tunnels, EndCall(c, t) PROVE OwnerInv'
  BY <1>z0, Single, <1>c, <1>24, EndEffect DEF OwnerInv, CallShape, ListInv, Early, Checked,
     Started, On, Moved, Ended, Begun, Others, NoCall, core
<1>25. ASSUME NEW t \in Tunnels, AcceptConn(t) \/ AcceptError(t) \/ AcceptFailed(t)
                                 \/ Handshake(t) \/ DialTarget(t) \/ PairEnds(t)
       PROVE  UNCHANGED <<call, stopping, start>>
  BY <1>25 DEF AcceptConn, AcceptError, AcceptFailed, Handshake, DialTarget, PairEnds, connRest,
     resVars
<1>26. CASE UNCHANGED vars
  BY <1>1, <1>26 DEF vars
<1>27. QED
  BY <1>1, <1>2, <1>3, <1>4, <1>5, <1>6, <1>7, <1>8, <1>9, <1>10, <1>11, <1>12, <1>13, <1>14,
     <1>15, <1>16, <1>17, <1>18, <1>19, <1>20, <1>21, <1>22, <1>23, <1>24, <1>25, <1>26
     DEF Next, StartStep, ConnStep, CallStep

\* StartRegister registers a worker when its Start is nearly over.
LEMMA ListStep ==
  ASSUME TypeOK, ListInv, [Next]_vars
  PROVE  ListInv'
<1>c. CallOK
  BY TypeParts
<1>z0. start \in [Tunnels -> StartPlaces] /\ workers \subseteq Tunnels
  BY DEF TypeOK, StartPlaces
<1>z1. \A c \in Calls : call[c].queue \subseteq Tunnels /\ call[c].found \subseteq Tunnels
  BY DEF TypeOK, StartPlaces
<1>1. CASE UNCHANGED <<call, start, workers>>
  BY <1>z0, <1>z1, <1>1 DEF ListInv, Started
<1>2. ASSUME NEW t \in Tunnels, StartTunnel(t) PROVE ListInv'
  BY <1>z0, <1>z1, <1>2 DEF StartTunnel, resVars, ListInv, Started
<1>3. ASSUME NEW t \in Tunnels, SetupListen(t) PROVE ListInv'
  BY <1>z0, <1>z1, <1>3 DEF SetupListen, ListInv, Started
<1>4. ASSUME NEW t \in Tunnels, SetupDial(t) PROVE ListInv'
  BY <1>z0, <1>z1, <1>4 DEF SetupDial, ListInv, Started
<1>5. ASSUME NEW t \in Tunnels, StartCheck(t) PROVE ListInv'
  BY <1>z0, <1>z1, <1>5 DEF StartCheck, resVars, ListInv, Started
<1>6. ASSUME NEW t \in Tunnels, StartMark(t) PROVE ListInv'
  BY <1>z0, <1>z1, <1>6 DEF StartMark, resVars, ListInv, Started
<1>7. ASSUME NEW t \in Tunnels, StartRegister(t) PROVE ListInv'
  BY <1>z0, <1>z1, <1>7 DEF StartRegister, resVars, ListInv, Started
<1>8. ASSUME NEW t \in Tunnels, StartFails(t) PROVE ListInv'
  BY <1>z0, <1>z1, <1>8 DEF StartFails, ListInv, Started
<1>9. ASSUME NEW c \in Calls, NEW t \in Tunnels, Stop(c, t) \/ EnableRemoteForwardAccessAndStop(c,
                                                 t) \/ CheckRemoteListen(c, t) PROVE ListInv'
  BY <1>z0, <1>z1, <1>c, <1>9, UserBegins DEF ListInv, Started, Moved, Ended, Begun, Others,
     NoCall, core
<1>10. ASSUME NEW c \in Calls, NEW t \in Tunnels, handleKeepaliveFailure(c, t) PROVE ListInv'
  BY <1>z0, <1>z1, <1>c, <1>10, KeepaliveBegins DEF ListInv, Started, Moved, Ended, Begun, Others,
     NoCall, core
<1>11. ASSUME NEW t \in Tunnels, CommitSuccessful(t) PROVE ListInv'
  BY <1>z0, <1>z1, <1>c, <1>11, CommitEnds DEF ListInv, Started, Moved, Ended, Begun, Others,
     NoCall, core
<1>12. ASSUME NEW c \in Calls, NEW o \in Ops, StopMany(c, o) PROVE ListInv'
  BY <1>z0, <1>z1, <1>c, <1>12, ManyBegins DEF ListInv, Started, Moved, Ended, Begun, Others,
     NoCall, core
<1>13. ASSUME NEW c \in Calls, StopNext(c) PROVE ListInv'
  BY <1>z0, <1>z1, <1>c, <1>13, NextBegins DEF ListInv, Started, Moved, Ended, Begun, Others,
     NoCall, core
<1>14. ASSUME NEW c \in Calls, StopManyEnds(c) PROVE ListInv'
  BY <1>z0, <1>z1, <1>c, <1>14, ManyEnds DEF ListInv, Started, Moved, Ended, Begun, Others, NoCall,
     core
<1>15. ASSUME NEW c \in Calls, NEW t \in Tunnels, CheckResult(c, t) PROVE ListInv'
  BY <1>z0, <1>z1, <1>c, <1>15, CheckEffect DEF ListInv, Started, Moved, Ended, Begun, Others,
     NoCall, core
<1>16. ASSUME NEW c \in Calls, NEW t \in Tunnels, MarkStopping(c, t) PROVE ListInv'
  BY <1>z0, <1>z1, <1>c, <1>16, MarkEffect DEF ListInv, Started, Moved, Ended, Begun, Others,
     NoCall, core
<1>17. ASSUME NEW c \in Calls, NEW t \in Tunnels, closeRuntimeResources(c, t) PROVE ListInv'
  BY <1>z0, <1>z1, <1>c, <1>17, TakeEffect DEF ListInv, Started, Moved, Ended, Begun, Others,
     NoCall, core
<1>18. ASSUME NEW c \in Calls, NEW t \in Tunnels, AlreadyStopping(c, t) PROVE ListInv'
  BY <1>z0, <1>z1, <1>c, <1>18, SecondEffect DEF ListInv, Started, Moved, Ended, Begun, Others,
     NoCall, core
<1>19. ASSUME NEW c \in Calls, NEW t \in Tunnels, CloseRuntime(c, t) PROVE ListInv'
  BY <1>z0, <1>z1, <1>c, <1>19, CloseEffect DEF ListInv, Started, Moved, Ended, Begun, Others,
     NoCall, core
<1>20. ASSUME NEW c \in Calls, NEW t \in Tunnels, VerifyReleased(c, t) PROVE ListInv'
  BY <1>z0, <1>z1, <1>c, <1>20, VerifiedEffect DEF ListInv, Started, Moved, Ended, Begun, Others,
     NoCall, core
<1>21. ASSUME NEW c \in Calls, NEW t \in Tunnels, VerifyFails(c, t) PROVE ListInv'
  BY <1>z0, <1>z1, <1>c, <1>21, GivesUpEffect DEF ListInv, Started, Moved, Ended, Begun, Others,
     NoCall, core
<1>22. ASSUME NEW c \in Calls, NEW t \in Tunnels, FinalStatus(c, t) PROVE ListInv'
  BY <1>z0, <1>z1, <1>c, <1>22, FinalEffect DEF ListInv, Started, Moved, Ended, Begun, Others,
     NoCall, core
<1>23. ASSUME NEW c \in Calls, NEW t \in Tunnels, Drop(c, t) PROVE ListInv'
  BY <1>z0, <1>z1, <1>c, <1>23, DropEffect DEF ListInv, Started, Moved, Ended, Begun, Others,
     NoCall, core
<1>24. ASSUME NEW c \in Calls, NEW t \in Tunnels, EndCall(c, t) PROVE ListInv'
  BY <1>z0, <1>z1, <1>c, <1>24, EndEffect DEF ListInv, Started, Moved, Ended, Begun, Others,
     NoCall, core
<1>25. ASSUME NEW t \in Tunnels, AcceptConn(t) \/ AcceptError(t) \/ AcceptFailed(t)
                                 \/ Handshake(t) \/ DialTarget(t) \/ PairEnds(t)
       PROVE  UNCHANGED <<call, start, workers>>
  BY <1>25 DEF AcceptConn, AcceptError, AcceptFailed, Handshake, DialTarget, PairEnds, connRest,
     resVars
<1>26. CASE UNCHANGED vars
  BY <1>1, <1>26 DEF vars
<1>27. QED
  BY <1>1, <1>2, <1>3, <1>4, <1>5, <1>6, <1>7, <1>8, <1>9, <1>10, <1>11, <1>12, <1>13, <1>14,
     <1>15, <1>16, <1>17, <1>18, <1>19, <1>20, <1>21, <1>22, <1>23, <1>24, <1>25, <1>26
     DEF Next, StartStep, ConnStep, CallStep

\* setup, StartFails and the calls: nothing is stopped before there is a keepalive.
LEMMA StartInvStep ==
  ASSUME TypeOK, StartInv, OwnerInv, CallShape, [Next]_vars
  PROVE  StartInv'
<1>c. CallOK
  BY TypeParts
<1>z0. start \in [Tunnels -> StartPlaces] /\ stopping \in [Tunnels -> BOOLEAN] /\ listener \in [Tunnels -> {"none", "open", "closed"}] /\ transport \in [Tunnels -> {"none", "open", "closed"}] /\ workers \subseteq Tunnels
  BY DEF TypeOK, StartPlaces
<1>1. CASE UNCHANGED <<start, stopping, listener, transport, workers>>
  BY <1>z0, <1>1 DEF StartInv, OwnerInv, CallShape, Early, Checked, Started, On
<1>2. ASSUME NEW t \in Tunnels, StartTunnel(t) PROVE StartInv'
  BY <1>z0, <1>2 DEF StartTunnel, resVars, StartInv, OwnerInv, CallShape, Early, Checked, Started,
     On
<1>3. ASSUME NEW t \in Tunnels, SetupListen(t) PROVE StartInv'
  BY <1>z0, <1>3 DEF SetupListen, StartInv, OwnerInv, CallShape, Early, Checked, Started, On
<1>4. ASSUME NEW t \in Tunnels, SetupDial(t) PROVE StartInv'
  BY <1>z0, <1>4 DEF SetupDial, StartInv, OwnerInv, CallShape, Early, Checked, Started, On
<1>5. ASSUME NEW t \in Tunnels, StartCheck(t) PROVE StartInv'
  BY <1>z0, <1>5 DEF StartCheck, resVars, StartInv, OwnerInv, CallShape, Early, Checked, Started, On
<1>6. ASSUME NEW t \in Tunnels, StartMark(t) PROVE StartInv'
  BY <1>z0, <1>6 DEF StartMark, resVars, StartInv, OwnerInv, CallShape, Early, Checked, Started, On
<1>7. ASSUME NEW t \in Tunnels, StartRegister(t) PROVE StartInv'
  BY <1>z0, <1>7 DEF StartRegister, resVars, StartInv, OwnerInv, CallShape, Early, Checked,
     Started, On
<1>8. ASSUME NEW t \in Tunnels, StartFails(t) PROVE StartInv'
  BY <1>z0, <1>8 DEF StartFails, StartInv, OwnerInv, CallShape, Early, Checked, Started, On
<1>9. ASSUME NEW t \in Tunnels, CommitSuccessful(t) PROVE StartInv'
  BY <1>z0, <1>c, <1>9, CommitEnds DEF StartInv, OwnerInv, CallShape, Early, Checked, Started, On,
     core
<1>10. ASSUME NEW c \in Calls, NEW t \in Tunnels, closeRuntimeResources(c, t) PROVE StartInv'
  BY <1>z0, <1>c, <1>10, TakeEffect DEF StartInv, OwnerInv, CallShape, Early, Checked, Started, On,
     core
<1>11. ASSUME NEW c \in Calls, NEW t \in Tunnels, CloseRuntime(c, t) PROVE StartInv'
  BY <1>z0, <1>c, <1>11, CloseEffect DEF StartInv, OwnerInv, CallShape, Early, Checked, Started,
     On, core
<1>12. ASSUME NEW c \in Calls, NEW t \in Tunnels, VerifyFails(c, t) PROVE StartInv'
  BY <1>z0, <1>c, <1>12, GivesUpEffect DEF StartInv, OwnerInv, CallShape, Early, Checked, Started,
     On, core
<1>13. ASSUME NEW c \in Calls, NEW t \in Tunnels, Drop(c, t) PROVE StartInv'
  BY <1>z0, <1>c, <1>13, DropEffect DEF StartInv, OwnerInv, CallShape, Early, Checked, Started, On,
     core
<1>14. ASSUME NEW c \in Calls, NEW t \in Tunnels, EndCall(c, t) PROVE StartInv'
  BY <1>z0, <1>c, <1>14, EndEffect DEF StartInv, OwnerInv, CallShape, Early, Checked, Started, On,
     core
<1>15. ASSUME NEW t \in Tunnels, AcceptConn(t) \/ AcceptError(t) \/ AcceptFailed(t)
                                 \/ Handshake(t) \/ DialTarget(t) \/ PairEnds(t)
       PROVE  UNCHANGED <<start, stopping, listener, transport, workers>>
  BY <1>15 DEF AcceptConn, AcceptError, AcceptFailed, Handshake, DialTarget, PairEnds, connRest,
     resVars
<1>16. ASSUME NEW c \in Calls, NEW t \in Tunnels, Stop(c, t) \/ EnableRemoteForwardAccessAndStop(c,
                                                  t) \/ CheckRemoteListen(c, t)
                                                  \/ handleKeepaliveFailure(c, t) \/ CheckResult(c,
                                                  t) \/ MarkStopping(c, t) \/ AlreadyStopping(c,
                                                  t) \/ VerifyReleased(c, t) \/ FinalStatus(c, t)
       PROVE  UNCHANGED <<start, stopping, listener, transport, workers>>
  BY <1>16 DEF Stop, EnableRemoteForwardAccessAndStop, CheckRemoteListen, handleKeepaliveFailure,
     CheckResult, MarkStopping, AlreadyStopping, VerifyReleased, FinalStatus, Begin, Goto, Return,
     resVars
<1>17. ASSUME NEW c \in Calls, NEW o \in Ops, StopMany(c, o)
       PROVE  UNCHANGED <<start, stopping, listener, transport, workers>>
  BY <1>17 DEF StopMany, resVars
<1>18. ASSUME NEW c \in Calls, StopNext(c) \/ StopManyEnds(c)
       PROVE  UNCHANGED <<start, stopping, listener, transport, workers>>
  BY <1>18 DEF StopNext, StopManyEnds, Return, resVars
<1>19. CASE UNCHANGED vars
  BY <1>1, <1>19 DEF vars
<1>20. QED
  BY <1>1, <1>2, <1>3, <1>4, <1>5, <1>6, <1>7, <1>8, <1>9, <1>10, <1>11, <1>12, <1>13, <1>14,
     <1>15, <1>16, <1>17, <1>18, <1>19
     DEF Next, StartStep, ConnStep, CallStep

\* setup makes the listener before Start goes on.
LEMMA ListenStep ==
  ASSUME TypeOK, ListenInv, OwnerInv, StartInv, [Next]_vars
  PROVE  ListenInv'
<1>c. CallOK
  BY TypeParts
<1>z0. start \in [Tunnels -> StartPlaces] /\ stopping \in [Tunnels -> BOOLEAN] /\ listener \in [Tunnels -> {"none", "open", "closed"}] /\ workers \subseteq Tunnels
  BY DEF TypeOK, StartPlaces
<1>1. CASE UNCHANGED <<kind, start, stopping, listener>>
  BY <1>z0, <1>1 DEF ListenInv, StartInv, OwnerInv, IsLocal, Checked, Started, Early
<1>2. ASSUME NEW t \in Tunnels, StartTunnel(t) PROVE ListenInv'
  BY <1>z0, <1>2 DEF StartTunnel, resVars, ListenInv, StartInv, OwnerInv, IsLocal, Checked,
     Started, Early
<1>3. ASSUME NEW t \in Tunnels, SetupListen(t) PROVE ListenInv'
  BY <1>z0, <1>3 DEF SetupListen, ListenInv, StartInv, OwnerInv, IsLocal, Checked, Started, Early
<1>4. ASSUME NEW t \in Tunnels, SetupDial(t) PROVE ListenInv'
  BY <1>z0, <1>4 DEF SetupDial, ListenInv, StartInv, OwnerInv, IsLocal, Checked, Started, Early
<1>5. ASSUME NEW t \in Tunnels, StartCheck(t) PROVE ListenInv'
  BY <1>z0, <1>5 DEF StartCheck, resVars, ListenInv, StartInv, OwnerInv, IsLocal, Checked, Started,
     Early
<1>6. ASSUME NEW t \in Tunnels, StartMark(t) PROVE ListenInv'
  BY <1>z0, <1>6 DEF StartMark, resVars, ListenInv, StartInv, OwnerInv, IsLocal, Checked, Started,
     Early
<1>7. ASSUME NEW t \in Tunnels, StartRegister(t) PROVE ListenInv'
  BY <1>z0, <1>7 DEF StartRegister, resVars, ListenInv, StartInv, OwnerInv, IsLocal, Checked,
     Started, Early
<1>8. ASSUME NEW t \in Tunnels, StartFails(t) PROVE ListenInv'
  BY <1>z0, <1>8 DEF StartFails, ListenInv, StartInv, OwnerInv, IsLocal, Checked, Started, Early
<1>9. ASSUME NEW t \in Tunnels, CommitSuccessful(t) PROVE ListenInv'
  BY <1>z0, <1>c, <1>9, CommitEnds DEF ListenInv, StartInv, OwnerInv, IsLocal, Checked, Started,
     Early, core
<1>10. ASSUME NEW c \in Calls, NEW t \in Tunnels, closeRuntimeResources(c, t) PROVE ListenInv'
  BY <1>z0, <1>c, <1>10, TakeEffect DEF ListenInv, StartInv, OwnerInv, IsLocal, Checked, Started,
     Early, core
<1>11. ASSUME NEW c \in Calls, NEW t \in Tunnels, CloseRuntime(c, t) PROVE ListenInv'
  BY <1>z0, <1>c, <1>11, CloseEffect DEF ListenInv, StartInv, OwnerInv, IsLocal, Checked, Started,
     Early, core
<1>12. ASSUME NEW t \in Tunnels, AcceptConn(t) \/ AcceptError(t) \/ AcceptFailed(t)
                                 \/ Handshake(t) \/ DialTarget(t) \/ PairEnds(t)
       PROVE  UNCHANGED <<kind, start, stopping, listener>>
  BY <1>12 DEF AcceptConn, AcceptError, AcceptFailed, Handshake, DialTarget, PairEnds, connRest,
     resVars
<1>13. ASSUME NEW c \in Calls, NEW t \in Tunnels, Stop(c, t) \/ EnableRemoteForwardAccessAndStop(c,
                                                  t) \/ CheckRemoteListen(c, t)
                                                  \/ handleKeepaliveFailure(c, t) \/ CheckResult(c,
                                                  t) \/ MarkStopping(c, t) \/ AlreadyStopping(c,
                                                  t) \/ VerifyReleased(c, t) \/ VerifyFails(c,
                                                  t) \/ FinalStatus(c, t) \/ Drop(c, t)
                                                  \/ EndCall(c, t)
       PROVE  UNCHANGED <<kind, start, stopping, listener>>
  BY <1>13 DEF Stop, EnableRemoteForwardAccessAndStop, CheckRemoteListen, handleKeepaliveFailure,
     CheckResult, MarkStopping, AlreadyStopping, VerifyReleased, VerifyFails, FinalStatus, Drop,
     EndCall, Begin, Goto, Return, resVars
<1>14. ASSUME NEW c \in Calls, NEW o \in Ops, StopMany(c, o)
       PROVE  UNCHANGED <<kind, start, stopping, listener>>
  BY <1>14 DEF StopMany, resVars
<1>15. ASSUME NEW c \in Calls, StopNext(c) \/ StopManyEnds(c)
       PROVE  UNCHANGED <<kind, start, stopping, listener>>
  BY <1>15 DEF StopNext, StopManyEnds, Return, resVars
<1>16. CASE UNCHANGED vars
  BY <1>1, <1>16 DEF vars
<1>17. QED
  BY <1>1, <1>2, <1>3, <1>4, <1>5, <1>6, <1>7, <1>8, <1>9, <1>10, <1>11, <1>12, <1>13, <1>14,
     <1>15, <1>16
     DEF Next, StartStep, ConnStep, CallStep

\* The listeners that are open and have been given up have the call that closes them.
ListenerKept ==
  /\ \A u \in Tunnels : stopping'[u] /\ listener'[u] = "open" => stopping[u] /\ listener[u] = "open"
  /\ \A d \in Calls, u \in Tunnels : Closing(d, u) /\ listener'[u] = "open" => Closing(d, u)'

\* The same for the transports.
TransportKept ==
  /\ \A u \in Tunnels : stopping'[u] /\ transport'[u] = "open" => stopping[u] /\ transport[u] = "open"
  /\ \A d \in Calls, u \in Tunnels : WillClose(d, u) /\ transport'[u] = "open" => WillClose(d, u)'

\* Every listener keeps its call.
LEMMA ListenerKeeps == ListenerInv /\ ListenerKept => ListenerInv'
BY DEF ListenerInv, ListenerKept

\* Every transport keeps its call.
LEMMA TransportKeeps == TransportInv /\ TransportKept => TransportInv'
BY DEF TransportInv, TransportKept

\* Whoever takes a listener closes it next (closeRuntimeResources).
LEMMA ListenerStep ==
  ASSUME TypeOK, ListenerInv, CallShape, StartInv, [Next]_vars
  PROVE  ListenerInv'
<1>c. CallOK
  BY TypeParts
<1>z0. start \in [Tunnels -> StartPlaces] /\ stopping \in [Tunnels -> BOOLEAN] /\ listener \in [Tunnels -> {"none", "open", "closed"}] /\ workers \subseteq Tunnels
  BY DEF TypeOK, StartPlaces
<1>1. CASE UNCHANGED <<start, stopping, listener, call>>
  BY <1>z0, <1>1 DEF ListenerInv, Closing, On
<1>2. ASSUME NEW t \in Tunnels, StartTunnel(t) PROVE ListenerInv'
  <2>1. ListenerKept
    BY <1>z0, Single, <1>2 DEF StartTunnel, resVars, ListenerKept, Closing, On, StartInv, Early
  <2>2. QED
    BY <2>1, ListenerKeeps
<1>3. ASSUME NEW t \in Tunnels, SetupListen(t) PROVE ListenerInv'
  <2>1. ListenerKept
    BY <1>z0, Single, <1>3 DEF SetupListen, ListenerKept, Closing, On, StartInv, Early
  <2>2. QED
    BY <2>1, ListenerKeeps
<1>4. ASSUME NEW t \in Tunnels, SetupDial(t) PROVE ListenerInv'
  <2>1. ListenerKept
    BY <1>z0, Single, <1>4 DEF SetupDial, ListenerKept, Closing, On, StartInv, Early
  <2>2. QED
    BY <2>1, ListenerKeeps
<1>5. ASSUME NEW t \in Tunnels, StartCheck(t) PROVE ListenerInv'
  <2>1. ListenerKept
    BY <1>z0, Single, <1>5 DEF StartCheck, resVars, ListenerKept, Closing, On, StartInv, Early
  <2>2. QED
    BY <2>1, ListenerKeeps
<1>6. ASSUME NEW t \in Tunnels, StartMark(t) PROVE ListenerInv'
  <2>1. ListenerKept
    BY <1>z0, Single, <1>6 DEF StartMark, resVars, ListenerKept, Closing, On, StartInv, Early
  <2>2. QED
    BY <2>1, ListenerKeeps
<1>7. ASSUME NEW t \in Tunnels, StartRegister(t) PROVE ListenerInv'
  <2>1. ListenerKept
    BY <1>z0, Single, <1>7 DEF StartRegister, resVars, ListenerKept, Closing, On, StartInv, Early
  <2>2. QED
    BY <2>1, ListenerKeeps
<1>8. ASSUME NEW t \in Tunnels, StartFails(t) PROVE ListenerInv'
  <2>1. ListenerKept
    BY <1>z0, Single, <1>8 DEF StartFails, ListenerKept, Closing, On, StartInv, Early
  <2>2. QED
    BY <2>1, ListenerKeeps
<1>9. ASSUME NEW c \in Calls, NEW t \in Tunnels, Stop(c, t) \/ EnableRemoteForwardAccessAndStop(c,
                                                 t) \/ CheckRemoteListen(c, t) PROVE ListenerInv'
  <2>1. ListenerKept
    BY <1>z0, Single, <1>c, <1>9, UserBegins DEF ListenerKept, Closing, On, CallShape, Moved,
       Ended, Begun, Others, NoCall, core
  <2>2. QED
    BY <2>1, ListenerKeeps
<1>10. ASSUME NEW c \in Calls, NEW t \in Tunnels, handleKeepaliveFailure(c, t) PROVE ListenerInv'
  <2>1. ListenerKept
    BY <1>z0, Single, <1>c, <1>10, KeepaliveBegins DEF ListenerKept, Closing, On, CallShape, Moved,
       Ended, Begun, Others, NoCall, core
  <2>2. QED
    BY <2>1, ListenerKeeps
<1>11. ASSUME NEW t \in Tunnels, CommitSuccessful(t) PROVE ListenerInv'
  <2>1. ListenerKept
    BY <1>z0, Single, <1>c, <1>11, CommitEnds DEF ListenerKept, Closing, On, CallShape, Moved,
       Ended, Begun, Others, NoCall, core
  <2>2. QED
    BY <2>1, ListenerKeeps
<1>12. ASSUME NEW c \in Calls, NEW o \in Ops, StopMany(c, o) PROVE ListenerInv'
  <2>1. ListenerKept
    BY <1>z0, Single, <1>c, <1>12, ManyBegins DEF ListenerKept, Closing, On, CallShape, Moved,
       Ended, Begun, Others, NoCall, core
  <2>2. QED
    BY <2>1, ListenerKeeps
<1>13. ASSUME NEW c \in Calls, StopNext(c) PROVE ListenerInv'
  <2>1. ListenerKept
    BY <1>z0, Single, <1>c, <1>13, NextBegins DEF ListenerKept, Closing, On, CallShape, Moved,
       Ended, Begun, Others, NoCall, core
  <2>2. QED
    BY <2>1, ListenerKeeps
<1>14. ASSUME NEW c \in Calls, StopManyEnds(c) PROVE ListenerInv'
  <2>1. ListenerKept
    BY <1>z0, Single, <1>c, <1>14, ManyEnds DEF ListenerKept, Closing, On, CallShape, Moved, Ended,
       Begun, Others, NoCall, core
  <2>2. QED
    BY <2>1, ListenerKeeps
<1>15. ASSUME NEW c \in Calls, NEW t \in Tunnels, CheckResult(c, t) PROVE ListenerInv'
  <2>1. ListenerKept
    BY <1>z0, Single, <1>c, <1>15, CheckEffect DEF ListenerKept, Closing, On, CallShape, Moved,
       Ended, Begun, Others, NoCall, core
  <2>2. QED
    BY <2>1, ListenerKeeps
<1>16. ASSUME NEW c \in Calls, NEW t \in Tunnels, MarkStopping(c, t) PROVE ListenerInv'
  <2>1. ListenerKept
    BY <1>z0, Single, <1>c, <1>16, MarkEffect DEF ListenerKept, Closing, On, CallShape, Moved,
       Ended, Begun, Others, NoCall, core
  <2>2. QED
    BY <2>1, ListenerKeeps
<1>17. ASSUME NEW c \in Calls, NEW t \in Tunnels, closeRuntimeResources(c, t) PROVE ListenerInv'
  <2>1. \A u \in Tunnels : u # t /\ stopping'[u] => stopping[u]
    BY <1>z0, <1>c, <1>17, TakeEffect
  <2>2. \A d \in Calls, u \in Tunnels : Closing(d, u) => Closing(d, u)'
    BY <1>c, <1>17, TakeEffect DEF Closing, On, Others, CallShape
  <2>3. Closing(c, t)'
    BY <1>c, <1>17, TakeEffect DEF Closing, On
  <2>4. listener' = listener
    BY <1>c, <1>17, TakeEffect
  <2>5. QED
    BY <2>1, <2>2, <2>3, <2>4 DEF ListenerInv
<1>18. ASSUME NEW c \in Calls, NEW t \in Tunnels, AlreadyStopping(c, t) PROVE ListenerInv'
  <2>1. ListenerKept
    BY <1>z0, Single, <1>c, <1>18, SecondEffect DEF ListenerKept, Closing, On, CallShape, Moved,
       Ended, Begun, Others, NoCall, core
  <2>2. QED
    BY <2>1, ListenerKeeps
<1>19. ASSUME NEW c \in Calls, NEW t \in Tunnels, CloseRuntime(c, t) PROVE ListenerInv'
  <2>1. ListenerKept
    BY <1>z0, Single, <1>c, <1>19, CloseEffect DEF ListenerKept, Closing, On, CallShape, Moved,
       Ended, Begun, Others, NoCall, core
  <2>2. QED
    BY <2>1, ListenerKeeps
<1>20. ASSUME NEW c \in Calls, NEW t \in Tunnels, VerifyReleased(c, t) PROVE ListenerInv'
  <2>1. ListenerKept
    BY <1>z0, Single, <1>c, <1>20, VerifiedEffect DEF ListenerKept, Closing, On, CallShape, Moved,
       Ended, Begun, Others, NoCall, core
  <2>2. QED
    BY <2>1, ListenerKeeps
<1>21. ASSUME NEW c \in Calls, NEW t \in Tunnels, VerifyFails(c, t) PROVE ListenerInv'
  <2>1. ListenerKept
    BY <1>z0, Single, <1>c, <1>21, GivesUpEffect DEF ListenerKept, Closing, On, CallShape, Moved,
       Ended, Begun, Others, NoCall, core
  <2>2. QED
    BY <2>1, ListenerKeeps
<1>22. ASSUME NEW c \in Calls, NEW t \in Tunnels, FinalStatus(c, t) PROVE ListenerInv'
  <2>1. ListenerKept
    BY <1>z0, Single, <1>c, <1>22, FinalEffect DEF ListenerKept, Closing, On, CallShape, Moved,
       Ended, Begun, Others, NoCall, core
  <2>2. QED
    BY <2>1, ListenerKeeps
<1>23. ASSUME NEW c \in Calls, NEW t \in Tunnels, Drop(c, t) PROVE ListenerInv'
  <2>1. ListenerKept
    BY <1>z0, Single, <1>c, <1>23, DropEffect DEF ListenerKept, Closing, On, CallShape, Moved,
       Ended, Begun, Others, NoCall, core
  <2>2. QED
    BY <2>1, ListenerKeeps
<1>24. ASSUME NEW c \in Calls, NEW t \in Tunnels, EndCall(c, t) PROVE ListenerInv'
  <2>1. ListenerKept
    BY <1>z0, Single, <1>c, <1>24, EndEffect DEF ListenerKept, Closing, On, CallShape, Moved,
       Ended, Begun, Others, NoCall, core
  <2>2. QED
    BY <2>1, ListenerKeeps
<1>25. ASSUME NEW t \in Tunnels, AcceptConn(t) \/ AcceptError(t) \/ AcceptFailed(t)
                                 \/ Handshake(t) \/ DialTarget(t) \/ PairEnds(t)
       PROVE  UNCHANGED <<start, stopping, listener, call>>
  BY <1>25 DEF AcceptConn, AcceptError, AcceptFailed, Handshake, DialTarget, PairEnds, connRest,
     resVars
<1>26. CASE UNCHANGED vars
  BY <1>1, <1>26 DEF vars
<1>27. QED
  BY <1>1, <1>2, <1>3, <1>4, <1>5, <1>6, <1>7, <1>8, <1>9, <1>10, <1>11, <1>12, <1>13, <1>14,
     <1>15, <1>16, <1>17, <1>18, <1>19, <1>20, <1>21, <1>22, <1>23, <1>24, <1>25, <1>26
     DEF Next, StartStep, ConnStep, CallStep

\* Whoever takes a transport closes it before the call is over, also one that gives up.
LEMMA TransportStep ==
  ASSUME TypeOK, TransportInv, CallShape, StartInv, [Next]_vars
  PROVE  TransportInv'
<1>c. CallOK
  BY TypeParts
<1>z0. start \in [Tunnels -> StartPlaces] /\ stopping \in [Tunnels -> BOOLEAN] /\ transport \in [Tunnels -> {"none", "open", "closed"}] /\ workers \subseteq Tunnels
  BY DEF TypeOK, StartPlaces
<1>1. CASE UNCHANGED <<start, stopping, transport, call>>
  BY <1>z0, <1>1 DEF TransportInv, WillClose, On
<1>2. ASSUME NEW t \in Tunnels, StartTunnel(t) PROVE TransportInv'
  <2>1. TransportKept
    BY <1>z0, Single, <1>2 DEF StartTunnel, resVars, TransportKept, WillClose, On, StartInv, Early
  <2>2. QED
    BY <2>1, TransportKeeps
<1>3. ASSUME NEW t \in Tunnels, SetupListen(t) PROVE TransportInv'
  <2>1. TransportKept
    BY <1>z0, Single, <1>3 DEF SetupListen, TransportKept, WillClose, On, StartInv, Early
  <2>2. QED
    BY <2>1, TransportKeeps
<1>4. ASSUME NEW t \in Tunnels, SetupDial(t) PROVE TransportInv'
  <2>1. TransportKept
    BY <1>z0, Single, <1>4 DEF SetupDial, TransportKept, WillClose, On, StartInv, Early
  <2>2. QED
    BY <2>1, TransportKeeps
<1>5. ASSUME NEW t \in Tunnels, StartCheck(t) PROVE TransportInv'
  <2>1. TransportKept
    BY <1>z0, Single, <1>5 DEF StartCheck, resVars, TransportKept, WillClose, On, StartInv, Early
  <2>2. QED
    BY <2>1, TransportKeeps
<1>6. ASSUME NEW t \in Tunnels, StartMark(t) PROVE TransportInv'
  <2>1. TransportKept
    BY <1>z0, Single, <1>6 DEF StartMark, resVars, TransportKept, WillClose, On, StartInv, Early
  <2>2. QED
    BY <2>1, TransportKeeps
<1>7. ASSUME NEW t \in Tunnels, StartRegister(t) PROVE TransportInv'
  <2>1. TransportKept
    BY <1>z0, Single, <1>7 DEF StartRegister, resVars, TransportKept, WillClose, On, StartInv, Early
  <2>2. QED
    BY <2>1, TransportKeeps
<1>8. ASSUME NEW t \in Tunnels, StartFails(t) PROVE TransportInv'
  <2>1. TransportKept
    BY <1>z0, Single, <1>8 DEF StartFails, TransportKept, WillClose, On, StartInv, Early
  <2>2. QED
    BY <2>1, TransportKeeps
<1>9. ASSUME NEW c \in Calls, NEW t \in Tunnels, Stop(c, t) \/ EnableRemoteForwardAccessAndStop(c,
                                                 t) \/ CheckRemoteListen(c, t) PROVE TransportInv'
  <2>1. TransportKept
    BY <1>z0, Single, <1>c, <1>9, UserBegins DEF TransportKept, WillClose, On, CallShape, Moved,
       Ended, Begun, Others, NoCall, core
  <2>2. QED
    BY <2>1, TransportKeeps
<1>10. ASSUME NEW c \in Calls, NEW t \in Tunnels, handleKeepaliveFailure(c, t) PROVE TransportInv'
  <2>1. TransportKept
    BY <1>z0, Single, <1>c, <1>10, KeepaliveBegins DEF TransportKept, WillClose, On, CallShape,
       Moved, Ended, Begun, Others, NoCall, core
  <2>2. QED
    BY <2>1, TransportKeeps
<1>11. ASSUME NEW t \in Tunnels, CommitSuccessful(t) PROVE TransportInv'
  <2>1. TransportKept
    BY <1>z0, Single, <1>c, <1>11, CommitEnds DEF TransportKept, WillClose, On, CallShape, Moved,
       Ended, Begun, Others, NoCall, core
  <2>2. QED
    BY <2>1, TransportKeeps
<1>12. ASSUME NEW c \in Calls, NEW o \in Ops, StopMany(c, o) PROVE TransportInv'
  <2>1. TransportKept
    BY <1>z0, Single, <1>c, <1>12, ManyBegins DEF TransportKept, WillClose, On, CallShape, Moved,
       Ended, Begun, Others, NoCall, core
  <2>2. QED
    BY <2>1, TransportKeeps
<1>13. ASSUME NEW c \in Calls, StopNext(c) PROVE TransportInv'
  <2>1. TransportKept
    BY <1>z0, Single, <1>c, <1>13, NextBegins DEF TransportKept, WillClose, On, CallShape, Moved,
       Ended, Begun, Others, NoCall, core
  <2>2. QED
    BY <2>1, TransportKeeps
<1>14. ASSUME NEW c \in Calls, StopManyEnds(c) PROVE TransportInv'
  <2>1. TransportKept
    BY <1>z0, Single, <1>c, <1>14, ManyEnds DEF TransportKept, WillClose, On, CallShape, Moved,
       Ended, Begun, Others, NoCall, core
  <2>2. QED
    BY <2>1, TransportKeeps
<1>15. ASSUME NEW c \in Calls, NEW t \in Tunnels, CheckResult(c, t) PROVE TransportInv'
  <2>1. TransportKept
    BY <1>z0, Single, <1>c, <1>15, CheckEffect DEF TransportKept, WillClose, On, CallShape, Moved,
       Ended, Begun, Others, NoCall, core
  <2>2. QED
    BY <2>1, TransportKeeps
<1>16. ASSUME NEW c \in Calls, NEW t \in Tunnels, MarkStopping(c, t) PROVE TransportInv'
  <2>1. TransportKept
    BY <1>z0, Single, <1>c, <1>16, MarkEffect DEF TransportKept, WillClose, On, CallShape, Moved,
       Ended, Begun, Others, NoCall, core
  <2>2. QED
    BY <2>1, TransportKeeps
<1>17. ASSUME NEW c \in Calls, NEW t \in Tunnels, closeRuntimeResources(c, t) PROVE TransportInv'
  <2>1. \A u \in Tunnels : u # t /\ stopping'[u] => stopping[u]
    BY <1>z0, <1>c, <1>17, TakeEffect
  <2>2. \A d \in Calls, u \in Tunnels : WillClose(d, u) => WillClose(d, u)'
    BY <1>c, <1>17, TakeEffect DEF WillClose, On, Others, CallShape
  <2>3. WillClose(c, t)'
    BY <1>c, <1>17, TakeEffect DEF WillClose, On
  <2>4. transport' = transport
    BY <1>c, <1>17, TakeEffect
  <2>5. QED
    BY <2>1, <2>2, <2>3, <2>4 DEF TransportInv
<1>18. ASSUME NEW c \in Calls, NEW t \in Tunnels, AlreadyStopping(c, t) PROVE TransportInv'
  <2>1. TransportKept
    BY <1>z0, Single, <1>c, <1>18, SecondEffect DEF TransportKept, WillClose, On, CallShape, Moved,
       Ended, Begun, Others, NoCall, core
  <2>2. QED
    BY <2>1, TransportKeeps
<1>19. ASSUME NEW c \in Calls, NEW t \in Tunnels, CloseRuntime(c, t) PROVE TransportInv'
  <2>1. TransportKept
    BY <1>z0, Single, <1>c, <1>19, CloseEffect DEF TransportKept, WillClose, On, CallShape, Moved,
       Ended, Begun, Others, NoCall, core
  <2>2. QED
    BY <2>1, TransportKeeps
<1>20. ASSUME NEW c \in Calls, NEW t \in Tunnels, VerifyReleased(c, t) PROVE TransportInv'
  <2>1. TransportKept
    BY <1>z0, Single, <1>c, <1>20, VerifiedEffect DEF TransportKept, WillClose, On, CallShape,
       Moved, Ended, Begun, Others, NoCall, core
  <2>2. QED
    BY <2>1, TransportKeeps
<1>21. ASSUME NEW c \in Calls, NEW t \in Tunnels, VerifyFails(c, t) PROVE TransportInv'
  <2>1. TransportKept
    BY <1>z0, Single, <1>c, <1>21, GivesUpEffect DEF TransportKept, WillClose, On, CallShape,
       Moved, Ended, Begun, Others, NoCall, core
  <2>2. QED
    BY <2>1, TransportKeeps
<1>22. ASSUME NEW c \in Calls, NEW t \in Tunnels, FinalStatus(c, t) PROVE TransportInv'
  <2>1. TransportKept
    BY <1>z0, Single, <1>c, <1>22, FinalEffect DEF TransportKept, WillClose, On, CallShape, Moved,
       Ended, Begun, Others, NoCall, core
  <2>2. QED
    BY <2>1, TransportKeeps
<1>23. ASSUME NEW c \in Calls, NEW t \in Tunnels, Drop(c, t) PROVE TransportInv'
  <2>1. TransportKept
    BY <1>z0, Single, <1>c, <1>23, DropEffect DEF TransportKept, WillClose, On, CallShape, Moved,
       Ended, Begun, Others, NoCall, core
  <2>2. QED
    BY <2>1, TransportKeeps
<1>24. ASSUME NEW c \in Calls, NEW t \in Tunnels, EndCall(c, t) PROVE TransportInv'
  <2>1. TransportKept
    BY <1>z0, Single, <1>c, <1>24, EndEffect DEF TransportKept, WillClose, On, CallShape, Moved,
       Ended, Begun, Others, NoCall, core
  <2>2. QED
    BY <2>1, TransportKeeps
<1>25. ASSUME NEW t \in Tunnels, AcceptConn(t) \/ AcceptError(t) \/ AcceptFailed(t)
                                 \/ Handshake(t) \/ DialTarget(t) \/ PairEnds(t)
       PROVE  UNCHANGED <<start, stopping, transport, call>>
  BY <1>25 DEF AcceptConn, AcceptError, AcceptFailed, Handshake, DialTarget, PairEnds, connRest,
     resVars
<1>26. CASE UNCHANGED vars
  BY <1>1, <1>26 DEF vars
<1>27. QED
  BY <1>1, <1>2, <1>3, <1>4, <1>5, <1>6, <1>7, <1>8, <1>9, <1>10, <1>11, <1>12, <1>13, <1>14,
     <1>15, <1>16, <1>17, <1>18, <1>19, <1>20, <1>21, <1>22, <1>23, <1>24, <1>25, <1>26
     DEF Next, StartStep, ConnStep, CallStep

\* The keepalive that fails before the worker is registered is in the history.
LEMMA EarlyStep ==
  ASSUME TypeOK, EarlyInv, OwnerInv, ListInv, StartInv, [Next]_vars
  PROVE  EarlyInv'
<1>c. CallOK
  BY TypeParts
<1>z0. start \in [Tunnels -> StartPlaces] /\ stopping \in [Tunnels -> BOOLEAN] /\ workers \subseteq Tunnels
  BY DEF TypeOK, StartPlaces
<1>1. CASE UNCHANGED <<start, stopping, early>>
  BY <1>z0, <1>1 DEF EarlyInv, StartInv, OwnerInv, ListInv, Early, Checked, Started
<1>2. ASSUME NEW t \in Tunnels, StartTunnel(t) PROVE EarlyInv'
  BY <1>z0, <1>2 DEF StartTunnel, resVars, EarlyInv, StartInv, OwnerInv, ListInv, Early, Checked,
     Started
<1>3. ASSUME NEW t \in Tunnels, SetupListen(t) PROVE EarlyInv'
  BY <1>z0, <1>3 DEF SetupListen, EarlyInv, StartInv, OwnerInv, ListInv, Early, Checked, Started
<1>4. ASSUME NEW t \in Tunnels, SetupDial(t) PROVE EarlyInv'
  BY <1>z0, <1>4 DEF SetupDial, EarlyInv, StartInv, OwnerInv, ListInv, Early, Checked, Started
<1>5. ASSUME NEW t \in Tunnels, StartCheck(t) PROVE EarlyInv'
  BY <1>z0, <1>5 DEF StartCheck, resVars, EarlyInv, StartInv, OwnerInv, ListInv, Early, Checked,
     Started
<1>6. ASSUME NEW t \in Tunnels, StartMark(t) PROVE EarlyInv'
  BY <1>z0, <1>6 DEF StartMark, resVars, EarlyInv, StartInv, OwnerInv, ListInv, Early, Checked,
     Started
<1>7. ASSUME NEW t \in Tunnels, StartRegister(t) PROVE EarlyInv'
  BY <1>z0, <1>7 DEF StartRegister, resVars, EarlyInv, StartInv, OwnerInv, ListInv, Early, Checked,
     Started
<1>8. ASSUME NEW t \in Tunnels, StartFails(t) PROVE EarlyInv'
  BY <1>z0, <1>8 DEF StartFails, EarlyInv, StartInv, OwnerInv, ListInv, Early, Checked, Started
<1>9. ASSUME NEW t \in Tunnels, CommitSuccessful(t) PROVE EarlyInv'
  BY <1>z0, <1>c, <1>9, CommitEnds DEF EarlyInv, StartInv, OwnerInv, ListInv, Early, Checked,
     Started, core
<1>10. ASSUME NEW c \in Calls, NEW t \in Tunnels, closeRuntimeResources(c, t) PROVE EarlyInv'
  BY <1>z0, <1>c, <1>10, TakeEffect DEF EarlyInv, StartInv, OwnerInv, ListInv, Early, Checked,
     Started, core
<1>11. ASSUME NEW t \in Tunnels, AcceptConn(t) \/ AcceptError(t) \/ AcceptFailed(t)
                                 \/ Handshake(t) \/ DialTarget(t) \/ PairEnds(t)
       PROVE  UNCHANGED <<start, stopping, early>>
  BY <1>11 DEF AcceptConn, AcceptError, AcceptFailed, Handshake, DialTarget, PairEnds, connRest,
     resVars
<1>12. ASSUME NEW c \in Calls, NEW t \in Tunnels, Stop(c, t) \/ EnableRemoteForwardAccessAndStop(c,
                                                  t) \/ CheckRemoteListen(c, t)
                                                  \/ handleKeepaliveFailure(c, t) \/ CheckResult(c,
                                                  t) \/ MarkStopping(c, t) \/ AlreadyStopping(c,
                                                  t) \/ CloseRuntime(c, t) \/ VerifyReleased(c,
                                                  t) \/ VerifyFails(c, t) \/ FinalStatus(c, t)
                                                  \/ Drop(c, t) \/ EndCall(c, t)
       PROVE  UNCHANGED <<start, stopping, early>>
  BY <1>12 DEF Stop, EnableRemoteForwardAccessAndStop, CheckRemoteListen, handleKeepaliveFailure,
     CheckResult, MarkStopping, AlreadyStopping, CloseRuntime, VerifyReleased, VerifyFails,
     FinalStatus, Drop, EndCall, Begin, Goto, Return, resVars
<1>13. ASSUME NEW c \in Calls, NEW o \in Ops, StopMany(c, o)
       PROVE  UNCHANGED <<start, stopping, early>>
  BY <1>13 DEF StopMany, resVars
<1>14. ASSUME NEW c \in Calls, StopNext(c) \/ StopManyEnds(c)
       PROVE  UNCHANGED <<start, stopping, early>>
  BY <1>14 DEF StopNext, StopManyEnds, Return, resVars
<1>15. CASE UNCHANGED vars
  BY <1>1, <1>15 DEF vars
<1>16. QED
  BY <1>1, <1>2, <1>3, <1>4, <1>5, <1>6, <1>7, <1>8, <1>9, <1>10, <1>11, <1>12, <1>13, <1>14, <1>15
     DEF Next, StartStep, ConnStep, CallStep

\* Of the tunnel u nothing is new that would have to be shown, or it is shown.
Quiet(u) ==
  \/ ~stopping'[u] /\ \A d \in Calls : ~Checks(d, u)'
  \/ /\ u \in workers \ early
     /\ stopping'[u] => stopping[u]
     /\ \A d \in Calls : Checks(d, u)' => Checks(d, u)
     /\ status[u] = "failed" => status'[u] = "failed"
     /\ \A d \in Calls : Cares(d, u) => Cares(d, u)'

\* What is shown stays shown.
LEMMA ShownKeeps ==
  ASSUME ShownInv,
         \A u \in workers' \ early' : \/ Quiet(u)
                                      \/ status'[u] = "failed"
                                      \/ \E c \in Calls : Cares(c, u)'
  PROVE  ShownInv'
BY DEF ShownInv, Quiet

\* No call leaves a registered worker that stops without "failed".
LEMMA ShownStep ==
  ASSUME TypeOK, ShownInv, CallShape, OwnerInv, ListInv, EarlyInv, [Next]_vars
  PROVE  ShownInv'
<1>c. CallOK
  BY TypeParts
<1>z0. start \in [Tunnels -> StartPlaces] /\ stopping \in [Tunnels -> BOOLEAN] /\ status \in [Tunnels -> {"none", "starting", "running", "stopping", "stopped", "failed"}] /\ workers \subseteq Tunnels
  BY DEF TypeOK, StartPlaces
<1>1. CASE UNCHANGED <<status, stopping, workers, early, call>>
  BY <1>z0, <1>1 DEF ShownInv, Checks, Cares, On
<1>2. ASSUME NEW t \in Tunnels, StartTunnel(t) PROVE ShownInv'
  <2>1. \A u \in workers' \ early' : Quiet(u) \/ status'[u] = "failed"
    BY <1>z0, <1>2 DEF StartTunnel, resVars, Quiet, Checks, Cares, On, ListInv, Started
  <2>2. QED
    BY <2>1, ShownKeeps
<1>3. ASSUME NEW t \in Tunnels, StartMark(t) PROVE ShownInv'
  <2>1. \A u \in workers' \ early' : Quiet(u) \/ status'[u] = "failed"
    BY <1>z0, <1>3 DEF StartMark, resVars, Quiet, Checks, Cares, On, ListInv, Started
  <2>2. QED
    BY <2>1, ShownKeeps
<1>4. ASSUME NEW t \in Tunnels, StartRegister(t) PROVE ShownInv'
  <2>1. \A u \in workers' \ early' : u # t => Quiet(u)
    BY <1>z0, <1>4 DEF StartRegister, resVars, Quiet, Checks, Cares, On
  <2>2. t \notin early => ~stopping[t]
    BY <1>4 DEF StartRegister, EarlyInv, Checked
  <2>3. \A d \in Calls : ~Checks(d, t)
    BY <1>4 DEF StartRegister, OwnerInv, Checks, Started
  <2>4. UNCHANGED <<stopping, early, call>>
    BY <1>4 DEF StartRegister, resVars
  <2>5. t \notin early' => Quiet(t)
    BY <2>2, <2>3, <2>4 DEF Quiet, Checks, On
  <2>6. QED
    BY <2>1, <2>5, ShownKeeps
<1>5. ASSUME NEW t \in Tunnels, StartFails(t) PROVE ShownInv'
  <2>1. \A u \in workers' \ early' : Quiet(u) \/ status'[u] = "failed"
    BY <1>z0, <1>5 DEF StartFails, Quiet, Checks, Cares, On, ListInv, Started
  <2>2. QED
    BY <2>1, ShownKeeps
<1>6. ASSUME NEW t \in Tunnels, AcceptFailed(t) PROVE ShownInv'
  <2>1. \A u \in workers' \ early' : Quiet(u) \/ status'[u] = "failed"
    BY <1>z0, <1>6 DEF AcceptFailed, resVars, Quiet, Checks, Cares, On, ListInv, Started
  <2>2. QED
    BY <2>1, ShownKeeps
<1>7. ASSUME NEW c \in Calls, NEW t \in Tunnels, Stop(c, t) \/ EnableRemoteForwardAccessAndStop(c,
                                                 t) \/ CheckRemoteListen(c, t) PROVE ShownInv'
  <2>1. /\ UNCHANGED core /\ call[c].pc = "idle" /\ Others(c) /\ call'[c].pc \in {"mark", "probe"}
        /\ call'[c].op = "check" => call'[c].pc = "probe"
    BY <1>c, <1>7, UserBegins DEF Begun
  <2>2. \A d \in Calls, u \in Tunnels : Checks(d, u)' => Checks(d, u)
    BY <2>1 DEF Checks, On, Others
  <2>3. \A d \in Calls, u \in Tunnels : Cares(d, u) => Cares(d, u)'
    <3>1. call[c].t = {}
      BY <2>1 DEF CallShape, NoCall
    <3>2. QED
      BY <2>1, <3>1, Single DEF Cares, On, Others
  <2>4. \A u \in workers' \ early' : Quiet(u)
    BY <1>z0, <2>1, <2>2, <2>3 DEF Quiet, core
  <2>5. QED
    BY <2>4, ShownKeeps
<1>8. ASSUME NEW c \in Calls, NEW t \in Tunnels, handleKeepaliveFailure(c, t) PROVE ShownInv'
  <2>1. \A u \in workers' \ early' : Quiet(u) \/ status'[u] = "failed"
    BY <1>z0, Single, <1>c, <1>8, KeepaliveBegins DEF Quiet, Checks, Cares, On, CallShape, Moved,
       Ended, Begun, Others, NoCall, core
  <2>2. QED
    BY <2>1, ShownKeeps
<1>9. ASSUME NEW t \in Tunnels, CommitSuccessful(t) PROVE ShownInv'
  <2>1. \A u \in workers' \ early' : Quiet(u) \/ status'[u] = "failed"
    BY <1>z0, Single, <1>c, <1>9, CommitEnds DEF Quiet, Checks, Cares, On, CallShape, Moved, Ended,
       Begun, Others, NoCall, core
  <2>2. QED
    BY <2>1, ShownKeeps
<1>10. ASSUME NEW c \in Calls, NEW o \in Ops, StopMany(c, o) PROVE ShownInv'
  <2>1. \A u \in workers' \ early' : Quiet(u) \/ status'[u] = "failed"
    BY <1>z0, Single, <1>c, <1>10, ManyBegins DEF Quiet, Checks, Cares, On, CallShape, Moved,
       Ended, Begun, Others, NoCall, core
  <2>2. QED
    BY <2>1, ShownKeeps
<1>11. ASSUME NEW c \in Calls, StopNext(c) PROVE ShownInv'
  <2>1. \A u \in workers' \ early' : Quiet(u) \/ status'[u] = "failed"
    BY <1>z0, Single, <1>c, <1>11, NextBegins DEF Quiet, Checks, Cares, On, CallShape, Moved,
       Ended, Begun, Others, NoCall, core
  <2>2. QED
    BY <2>1, ShownKeeps
<1>12. ASSUME NEW c \in Calls, StopManyEnds(c) PROVE ShownInv'
  <2>1. \A u \in workers' \ early' : Quiet(u) \/ status'[u] = "failed"
    BY <1>z0, Single, <1>c, <1>12, ManyEnds DEF Quiet, Checks, Cares, On, CallShape, Moved, Ended,
       Begun, Others, NoCall, core
  <2>2. QED
    BY <2>1, ShownKeeps
<1>13. ASSUME NEW c \in Calls, NEW t \in Tunnels, CheckResult(c, t) PROVE ShownInv'
  <2>1. \A u \in workers' \ early' : Quiet(u) \/ status'[u] = "failed"
    BY <1>z0, Single, <1>c, <1>13, CheckEffect DEF Quiet, Checks, Cares, On, CallShape, Moved,
       Ended, Begun, Others, NoCall, core
  <2>2. QED
    BY <2>1, ShownKeeps
<1>14. ASSUME NEW c \in Calls, NEW t \in Tunnels, MarkStopping(c, t) PROVE ShownInv'
  <2>1. \A u \in workers' \ early' : u # t => Quiet(u)
    BY <1>z0, Single, <1>c, <1>14, MarkEffect DEF Quiet, Checks, Cares, On, Moved, Others
  <2>2. call[c].op # "check"
    BY <1>c, <1>14, MarkEffect DEF CallShape
  <2>3. Cares(c, t)'
    BY <1>c, <1>14, <2>2, MarkEffect DEF Cares, On, Moved
  <2>4. QED
    BY <2>1, <2>3, ShownKeeps
<1>15. ASSUME NEW c \in Calls, NEW t \in Tunnels, closeRuntimeResources(c, t) PROVE ShownInv'
  <2>1. \A u \in workers' \ early' : u # t => Quiet(u)
    BY <1>z0, Single, <1>c, <1>15, TakeEffect DEF Quiet, Checks, Cares, On, Others
  <2>2. CASE call[c].op # "check"
    <3>1. Cares(c, t)'
      BY <1>c, <1>15, <2>2, TakeEffect DEF Cares, On
    <3>2. QED
      BY <2>1, <3>1, ShownKeeps
  <2>3. CASE call[c].op = "check"
    <3>1. Checks(c, t) /\ early' = early /\ workers' = workers /\ status' = status
      BY <1>c, <1>15, <2>3, TakeEffect DEF Checks
    <3>2. t \in workers \ early => status[t] = "failed" \/ \E d \in Calls : Cares(d, t)
      BY <3>1 DEF ShownInv
    <3>3. \A d \in Calls : Cares(d, t) => Cares(d, t)'
      BY <1>c, <1>15, TakeEffect DEF Cares, On, Others
    <3>4. QED
      BY <2>1, <3>1, <3>2, <3>3, ShownKeeps
  <2>4. QED
    BY <2>2, <2>3
<1>16. ASSUME NEW c \in Calls, NEW t \in Tunnels, AlreadyStopping(c, t) PROVE ShownInv'
  <2>1. \A u \in workers' \ early' : Quiet(u) \/ status'[u] = "failed"
    BY <1>z0, Single, <1>c, <1>16, SecondEffect DEF Quiet, Checks, Cares, On, CallShape, Moved,
       Ended, Begun, Others, NoCall, core
  <2>2. QED
    BY <2>1, ShownKeeps
<1>17. ASSUME NEW c \in Calls, NEW t \in Tunnels, CloseRuntime(c, t) PROVE ShownInv'
  <2>1. \A u \in workers' \ early' : Quiet(u) \/ status'[u] = "failed"
    BY <1>z0, Single, <1>c, <1>17, CloseEffect DEF Quiet, Checks, Cares, On, CallShape, Moved,
       Ended, Begun, Others, NoCall, core
  <2>2. QED
    BY <2>1, ShownKeeps
<1>18. ASSUME NEW c \in Calls, NEW t \in Tunnels, VerifyReleased(c, t) PROVE ShownInv'
  <2>1. \A u \in workers' \ early' : Quiet(u) \/ status'[u] = "failed"
    BY <1>z0, Single, <1>c, <1>18, VerifiedEffect DEF Quiet, Checks, Cares, On, CallShape, Moved,
       Ended, Begun, Others, NoCall, core
  <2>2. QED
    BY <2>1, ShownKeeps
<1>19. ASSUME NEW c \in Calls, NEW t \in Tunnels, VerifyFails(c, t) PROVE ShownInv'
  <2>1. \A u \in workers' \ early' : u # t => Quiet(u)
    BY <1>z0, Single, <1>c, <1>19, GivesUpEffect DEF Quiet, Checks, Cares, On, Moved, Ended,
       Others, NoCall, core
  <2>2. status'[t] = "failed"
    BY <1>z0, <1>c, <1>19, GivesUpEffect
  <2>3. QED
    BY <2>1, <2>2, ShownKeeps
<1>20. ASSUME NEW c \in Calls, NEW t \in Tunnels, FinalStatus(c, t) PROVE ShownInv'
  <2>1. \A u \in workers' \ early' : u # t => Quiet(u)
    BY <1>z0, Single, <1>c, <1>20, FinalEffect DEF Quiet, Checks, Cares, On, Moved, Others
  <2>2. call[c].op # "check"
    BY <1>c, <1>20, FinalEffect DEF CallShape
  <2>3. Cares(c, t)'
    BY <1>c, <1>20, <2>2, FinalEffect DEF Cares, On, Moved
  <2>4. QED
    BY <2>1, <2>3, ShownKeeps
<1>21. ASSUME NEW c \in Calls, NEW t \in Tunnels, Drop(c, t) PROVE ShownInv'
  <2>1. \A u \in workers' \ early' : u # t => Quiet(u)
    BY <1>z0, Single, <1>c, <1>21, DropEffect DEF Quiet, Checks, Cares, On, Moved, Ended, Others,
       NoCall, core
  <2>2. t \notin workers'
    BY <1>z0, <1>c, <1>21, DropEffect
  <2>3. QED
    BY <2>1, <2>2, ShownKeeps
<1>22. ASSUME NEW c \in Calls, NEW t \in Tunnels, EndCall(c, t) PROVE ShownInv'
  <2>1. \A u \in workers' \ early' : Quiet(u) \/ status'[u] = "failed"
    BY <1>z0, Single, <1>c, <1>22, EndEffect DEF Quiet, Checks, Cares, On, CallShape, Moved, Ended,
       Begun, Others, NoCall, core
  <2>2. QED
    BY <2>1, ShownKeeps
<1>23. ASSUME NEW t \in Tunnels, SetupListen(t) \/ SetupDial(t) \/ StartCheck(t)
                                 \/ AcceptConn(t) \/ AcceptError(t) \/ Handshake(t)
                                 \/ DialTarget(t) \/ PairEnds(t)
       PROVE  UNCHANGED <<status, stopping, workers, early, call>>
  BY <1>23 DEF SetupListen, SetupDial, StartCheck, AcceptConn, AcceptError, Handshake, DialTarget,
     PairEnds, connRest, resVars
<1>24. CASE UNCHANGED vars
  BY <1>1, <1>24 DEF vars
<1>25. QED
  BY <1>1, <1>2, <1>3, <1>4, <1>5, <1>6, <1>7, <1>8, <1>9, <1>10, <1>11, <1>12, <1>13, <1>14,
     <1>15, <1>16, <1>17, <1>18, <1>19, <1>20, <1>21, <1>22, <1>23, <1>24
     DEF Next, StartStep, ConnStep, CallStep

\* Ids are not used again: a worker that was removed is not registered a second time.
LEMMA EndStep ==
  ASSUME TypeOK, EndInv, CallShape, OwnerInv, ListInv, EarlyInv, [Next]_vars
  PROVE  EndInv'
<1>c. CallOK
  BY TypeParts
<1>z0. start \in [Tunnels -> StartPlaces] /\ stopping \in [Tunnels -> BOOLEAN] /\ workers \subseteq Tunnels
  BY DEF TypeOK, StartPlaces
<1>1. CASE UNCHANGED <<workers, early, call>>
  BY <1>z0, Single, <1>1 DEF EndInv, OwnerInv, ListInv, CallShape, EarlyInv, On, Early, Checked,
     Started
<1>2. ASSUME NEW t \in Tunnels, StartRegister(t) PROVE EndInv'
  BY <1>z0, Single, <1>2 DEF StartRegister, resVars, EndInv, OwnerInv, ListInv, CallShape,
     EarlyInv, On, Early, Checked, Started
<1>3. ASSUME NEW c \in Calls, NEW t \in Tunnels, Stop(c, t) \/ EnableRemoteForwardAccessAndStop(c,
                                                 t) \/ CheckRemoteListen(c, t) PROVE EndInv'
  BY <1>z0, Single, <1>c, <1>3, UserBegins DEF EndInv, OwnerInv, ListInv, CallShape, EarlyInv, On,
     Early, Checked, Started, Moved, Ended, Begun, Others, NoCall, core
<1>4. ASSUME NEW c \in Calls, NEW t \in Tunnels, handleKeepaliveFailure(c, t) PROVE EndInv'
  BY <1>z0, Single, <1>c, <1>4, KeepaliveBegins DEF EndInv, OwnerInv, ListInv, CallShape, EarlyInv,
     On, Early, Checked, Started, Moved, Ended, Begun, Others, NoCall, core
<1>5. ASSUME NEW t \in Tunnels, CommitSuccessful(t) PROVE EndInv'
  BY <1>z0, Single, <1>c, <1>5, CommitEnds DEF EndInv, OwnerInv, ListInv, CallShape, EarlyInv, On,
     Early, Checked, Started, Moved, Ended, Begun, Others, NoCall, core
<1>6. ASSUME NEW c \in Calls, NEW o \in Ops, StopMany(c, o) PROVE EndInv'
  BY <1>z0, Single, <1>c, <1>6, ManyBegins DEF EndInv, OwnerInv, ListInv, CallShape, EarlyInv, On,
     Early, Checked, Started, Moved, Ended, Begun, Others, NoCall, core
<1>7. ASSUME NEW c \in Calls, StopNext(c) PROVE EndInv'
  BY <1>z0, Single, <1>c, <1>7, NextBegins DEF EndInv, OwnerInv, ListInv, CallShape, EarlyInv, On,
     Early, Checked, Started, Moved, Ended, Begun, Others, NoCall, core
<1>8. ASSUME NEW c \in Calls, StopManyEnds(c) PROVE EndInv'
  BY <1>z0, Single, <1>c, <1>8, ManyEnds DEF EndInv, OwnerInv, ListInv, CallShape, EarlyInv, On,
     Early, Checked, Started, Moved, Ended, Begun, Others, NoCall, core
<1>9. ASSUME NEW c \in Calls, NEW t \in Tunnels, CheckResult(c, t) PROVE EndInv'
  BY <1>z0, Single, <1>c, <1>9, CheckEffect DEF EndInv, OwnerInv, ListInv, CallShape, EarlyInv, On,
     Early, Checked, Started, Moved, Ended, Begun, Others, NoCall, core
<1>10. ASSUME NEW c \in Calls, NEW t \in Tunnels, MarkStopping(c, t) PROVE EndInv'
  BY <1>z0, Single, <1>c, <1>10, MarkEffect DEF EndInv, OwnerInv, ListInv, CallShape, EarlyInv, On,
     Early, Checked, Started, Moved, Ended, Begun, Others, NoCall, core
<1>11. ASSUME NEW c \in Calls, NEW t \in Tunnels, closeRuntimeResources(c, t) PROVE EndInv'
  BY <1>z0, Single, <1>c, <1>11, TakeEffect DEF EndInv, OwnerInv, ListInv, CallShape, EarlyInv, On,
     Early, Checked, Started, Moved, Ended, Begun, Others, NoCall, core
<1>12. ASSUME NEW c \in Calls, NEW t \in Tunnels, AlreadyStopping(c, t) PROVE EndInv'
  BY <1>z0, Single, <1>c, <1>12, SecondEffect DEF EndInv, OwnerInv, ListInv, CallShape, EarlyInv,
     On, Early, Checked, Started, Moved, Ended, Begun, Others, NoCall, core
<1>13. ASSUME NEW c \in Calls, NEW t \in Tunnels, CloseRuntime(c, t) PROVE EndInv'
  BY <1>z0, Single, <1>c, <1>13, CloseEffect DEF EndInv, OwnerInv, ListInv, CallShape, EarlyInv,
     On, Early, Checked, Started, Moved, Ended, Begun, Others, NoCall, core
<1>14. ASSUME NEW c \in Calls, NEW t \in Tunnels, VerifyReleased(c, t) PROVE EndInv'
  BY <1>z0, Single, <1>c, <1>14, VerifiedEffect DEF EndInv, OwnerInv, ListInv, CallShape, EarlyInv,
     On, Early, Checked, Started, Moved, Ended, Begun, Others, NoCall, core
<1>15. ASSUME NEW c \in Calls, NEW t \in Tunnels, VerifyFails(c, t) PROVE EndInv'
  BY <1>z0, Single, <1>c, <1>15, GivesUpEffect DEF EndInv, OwnerInv, ListInv, CallShape, EarlyInv,
     On, Early, Checked, Started, Moved, Ended, Begun, Others, NoCall, core
<1>16. ASSUME NEW c \in Calls, NEW t \in Tunnels, FinalStatus(c, t) PROVE EndInv'
  BY <1>z0, Single, <1>c, <1>16, FinalEffect DEF EndInv, OwnerInv, ListInv, CallShape, EarlyInv,
     On, Early, Checked, Started, Moved, Ended, Begun, Others, NoCall, core
<1>17. ASSUME NEW c \in Calls, NEW t \in Tunnels, Drop(c, t) PROVE EndInv'
  BY <1>z0, Single, <1>c, <1>17, DropEffect DEF EndInv, OwnerInv, ListInv, CallShape, EarlyInv, On,
     Early, Checked, Started, Moved, Ended, Begun, Others, NoCall, core
<1>18. ASSUME NEW c \in Calls, NEW t \in Tunnels, EndCall(c, t) PROVE EndInv'
  BY <1>z0, Single, <1>c, <1>18, EndEffect DEF EndInv, OwnerInv, ListInv, CallShape, EarlyInv, On,
     Early, Checked, Started, Moved, Ended, Begun, Others, NoCall, core
<1>19. ASSUME NEW t \in Tunnels, StartTunnel(t) \/ SetupListen(t) \/ SetupDial(t)
                                 \/ StartCheck(t) \/ StartMark(t) \/ StartFails(t)
                                 \/ AcceptConn(t) \/ AcceptError(t) \/ AcceptFailed(t)
                                 \/ Handshake(t) \/ DialTarget(t) \/ PairEnds(t)
       PROVE  UNCHANGED <<workers, early, call>>
  BY <1>19 DEF StartTunnel, SetupListen, SetupDial, StartCheck, StartMark, StartFails, AcceptConn,
     AcceptError, AcceptFailed, Handshake, DialTarget, PairEnds, connRest, resVars
<1>20. CASE UNCHANGED vars
  BY <1>1, <1>20 DEF vars
<1>21. QED
  BY <1>1, <1>2, <1>3, <1>4, <1>5, <1>6, <1>7, <1>8, <1>9, <1>10, <1>11, <1>12, <1>13, <1>14,
     <1>15, <1>16, <1>17, <1>18, <1>19, <1>20
     DEF Next, StartStep, ConnStep, CallStep

\* StopProfile goes on only when the port was found released.
LEMMA ReleasedStep ==
  ASSUME TypeOK, ReleasedInv, CallShape, OwnerInv, ListenInv, [Next]_vars
  PROVE  ReleasedInv'
<1>c. CallOK
  BY TypeParts
<1>z0. start \in [Tunnels -> StartPlaces] /\ stopping \in [Tunnels -> BOOLEAN] /\ listener \in [Tunnels -> {"none", "open", "closed"}] /\ workers \subseteq Tunnels
  BY DEF TypeOK, StartPlaces
<1>1. CASE UNCHANGED <<kind, listener, call>>
  BY <1>z0, Single, <1>1 DEF ReleasedInv, OwnerInv, ListenInv, CallShape, IsLocal, On, Checked,
     Started
<1>2. ASSUME NEW t \in Tunnels, SetupListen(t) PROVE ReleasedInv'
  BY <1>z0, Single, <1>2 DEF SetupListen, ReleasedInv, OwnerInv, ListenInv, CallShape, IsLocal, On,
     Checked, Started
<1>3. ASSUME NEW t \in Tunnels, StartFails(t) PROVE ReleasedInv'
  BY <1>z0, Single, <1>3 DEF StartFails, ReleasedInv, OwnerInv, ListenInv, CallShape, IsLocal, On,
     Checked, Started
<1>4. ASSUME NEW c \in Calls, NEW t \in Tunnels, Stop(c, t) \/ EnableRemoteForwardAccessAndStop(c,
                                                 t) \/ CheckRemoteListen(c, t) PROVE ReleasedInv'
  BY <1>z0, Single, <1>c, <1>4, UserBegins DEF ReleasedInv, OwnerInv, ListenInv, CallShape,
     IsLocal, On, Checked, Started, Moved, Ended, Begun, Others, NoCall, core
<1>5. ASSUME NEW c \in Calls, NEW t \in Tunnels, handleKeepaliveFailure(c, t) PROVE ReleasedInv'
  BY <1>z0, Single, <1>c, <1>5, KeepaliveBegins DEF ReleasedInv, OwnerInv, ListenInv, CallShape,
     IsLocal, On, Checked, Started, Moved, Ended, Begun, Others, NoCall, core
<1>6. ASSUME NEW t \in Tunnels, CommitSuccessful(t) PROVE ReleasedInv'
  BY <1>z0, Single, <1>c, <1>6, CommitEnds DEF ReleasedInv, OwnerInv, ListenInv, CallShape,
     IsLocal, On, Checked, Started, Moved, Ended, Begun, Others, NoCall, core
<1>7. ASSUME NEW c \in Calls, NEW o \in Ops, StopMany(c, o) PROVE ReleasedInv'
  BY <1>z0, Single, <1>c, <1>7, ManyBegins DEF ReleasedInv, OwnerInv, ListenInv, CallShape,
     IsLocal, On, Checked, Started, Moved, Ended, Begun, Others, NoCall, core
<1>8. ASSUME NEW c \in Calls, StopNext(c) PROVE ReleasedInv'
  BY <1>z0, Single, <1>c, <1>8, NextBegins DEF ReleasedInv, OwnerInv, ListenInv, CallShape,
     IsLocal, On, Checked, Started, Moved, Ended, Begun, Others, NoCall, core
<1>9. ASSUME NEW c \in Calls, StopManyEnds(c) PROVE ReleasedInv'
  BY <1>z0, Single, <1>c, <1>9, ManyEnds DEF ReleasedInv, OwnerInv, ListenInv, CallShape, IsLocal,
     On, Checked, Started, Moved, Ended, Begun, Others, NoCall, core
<1>10. ASSUME NEW c \in Calls, NEW t \in Tunnels, CheckResult(c, t) PROVE ReleasedInv'
  BY <1>z0, Single, <1>c, <1>10, CheckEffect DEF ReleasedInv, OwnerInv, ListenInv, CallShape,
     IsLocal, On, Checked, Started, Moved, Ended, Begun, Others, NoCall, core
<1>11. ASSUME NEW c \in Calls, NEW t \in Tunnels, MarkStopping(c, t) PROVE ReleasedInv'
  BY <1>z0, Single, <1>c, <1>11, MarkEffect DEF ReleasedInv, OwnerInv, ListenInv, CallShape,
     IsLocal, On, Checked, Started, Moved, Ended, Begun, Others, NoCall, core
<1>12. ASSUME NEW c \in Calls, NEW t \in Tunnels, closeRuntimeResources(c, t) PROVE ReleasedInv'
  BY <1>z0, Single, <1>c, <1>12, TakeEffect DEF ReleasedInv, OwnerInv, ListenInv, CallShape,
     IsLocal, On, Checked, Started, Moved, Ended, Begun, Others, NoCall, core
<1>13. ASSUME NEW c \in Calls, NEW t \in Tunnels, AlreadyStopping(c, t) PROVE ReleasedInv'
  BY <1>z0, Single, <1>c, <1>13, SecondEffect DEF ReleasedInv, OwnerInv, ListenInv, CallShape,
     IsLocal, On, Checked, Started, Moved, Ended, Begun, Others, NoCall, core
<1>14. ASSUME NEW c \in Calls, NEW t \in Tunnels, CloseRuntime(c, t) PROVE ReleasedInv'
  BY <1>z0, Single, <1>c, <1>14, CloseEffect DEF ReleasedInv, OwnerInv, ListenInv, CallShape,
     IsLocal, On, Checked, Started, Moved, Ended, Begun, Others, NoCall, core
<1>15. ASSUME NEW c \in Calls, NEW t \in Tunnels, VerifyReleased(c, t) PROVE ReleasedInv'
  <2>1. /\ UNCHANGED core /\ call[c].pc = "verify" /\ On(c, t) /\ Moved(c, "final")
        /\ IsLocal(t) => listener[t] # "open"
    BY <1>c, <1>15, VerifiedEffect
  <2>2. call[c].op # "keepalive"
    BY <1>c, <2>1 DEF CallShape
  <2>3. start[t] \in Started
    BY <2>1, <2>2 DEF OwnerInv
  <2>4. IsLocal(t) => listener[t] = "closed"
    BY <1>z0, <2>1, <2>3 DEF ListenInv
  <2>5. QED
    BY Single, <1>c, <2>1, <2>4 DEF ReleasedInv, IsLocal, On, Moved, Others, core
<1>16. ASSUME NEW c \in Calls, NEW t \in Tunnels, VerifyFails(c, t) PROVE ReleasedInv'
  BY <1>z0, Single, <1>c, <1>16, GivesUpEffect DEF ReleasedInv, OwnerInv, ListenInv, CallShape,
     IsLocal, On, Checked, Started, Moved, Ended, Begun, Others, NoCall, core
<1>17. ASSUME NEW c \in Calls, NEW t \in Tunnels, FinalStatus(c, t) PROVE ReleasedInv'
  BY <1>z0, Single, <1>c, <1>17, FinalEffect DEF ReleasedInv, OwnerInv, ListenInv, CallShape,
     IsLocal, On, Checked, Started, Moved, Ended, Begun, Others, NoCall, core
<1>18. ASSUME NEW c \in Calls, NEW t \in Tunnels, Drop(c, t) PROVE ReleasedInv'
  BY <1>z0, Single, <1>c, <1>18, DropEffect DEF ReleasedInv, OwnerInv, ListenInv, CallShape,
     IsLocal, On, Checked, Started, Moved, Ended, Begun, Others, NoCall, core
<1>19. ASSUME NEW c \in Calls, NEW t \in Tunnels, EndCall(c, t) PROVE ReleasedInv'
  BY <1>z0, Single, <1>c, <1>19, EndEffect DEF ReleasedInv, OwnerInv, ListenInv, CallShape,
     IsLocal, On, Checked, Started, Moved, Ended, Begun, Others, NoCall, core
<1>20. ASSUME NEW t \in Tunnels, StartTunnel(t) \/ SetupDial(t) \/ StartCheck(t) \/ StartMark(t)
                                 \/ StartRegister(t) \/ AcceptConn(t) \/ AcceptError(t)
                                 \/ AcceptFailed(t) \/ Handshake(t) \/ DialTarget(t) \/ PairEnds(t)
       PROVE  UNCHANGED <<kind, listener, call>>
  BY <1>20 DEF StartTunnel, SetupDial, StartCheck, StartMark, StartRegister, AcceptConn,
     AcceptError, AcceptFailed, Handshake, DialTarget, PairEnds, connRest, resVars
<1>21. CASE UNCHANGED vars
  BY <1>1, <1>21 DEF vars
<1>22. QED
  BY <1>1, <1>2, <1>3, <1>4, <1>5, <1>6, <1>7, <1>8, <1>9, <1>10, <1>11, <1>12, <1>13, <1>14,
     <1>15, <1>16, <1>17, <1>18, <1>19, <1>20, <1>21
     DEF Next, StartStep, ConnStep, CallStep

\* stopping is set by the first call only (closeRuntimeResources).
LEMMA HolderStep ==
  ASSUME TypeOK, OneHolder, CallShape, OwnerInv, [Next]_vars
  PROVE  OneHolder'
<1>c. CallOK
  BY TypeParts
<1>z0. start \in [Tunnels -> StartPlaces] /\ stopping \in [Tunnels -> BOOLEAN] /\ workers \subseteq Tunnels
  BY DEF TypeOK, StartPlaces
<1>1. CASE UNCHANGED <<call>>
  BY <1>z0, Single, <1>1 DEF OneHolder, WillClose, OwnerInv, CallShape, On
<1>2. ASSUME NEW c \in Calls, NEW t \in Tunnels, Stop(c, t) \/ EnableRemoteForwardAccessAndStop(c,
                                                 t) \/ CheckRemoteListen(c, t) PROVE OneHolder'
  BY <1>z0, Single, <1>c, <1>2, UserBegins DEF OneHolder, WillClose, OwnerInv, CallShape, On,
     Moved, Ended, Begun, Others, NoCall, core
<1>3. ASSUME NEW c \in Calls, NEW t \in Tunnels, handleKeepaliveFailure(c, t) PROVE OneHolder'
  BY <1>z0, Single, <1>c, <1>3, KeepaliveBegins DEF OneHolder, WillClose, OwnerInv, CallShape, On,
     Moved, Ended, Begun, Others, NoCall, core
<1>4. ASSUME NEW t \in Tunnels, CommitSuccessful(t) PROVE OneHolder'
  BY <1>z0, Single, <1>c, <1>4, CommitEnds DEF OneHolder, WillClose, OwnerInv, CallShape, On,
     Moved, Ended, Begun, Others, NoCall, core
<1>5. ASSUME NEW c \in Calls, NEW o \in Ops, StopMany(c, o) PROVE OneHolder'
  BY <1>z0, Single, <1>c, <1>5, ManyBegins DEF OneHolder, WillClose, OwnerInv, CallShape, On,
     Moved, Ended, Begun, Others, NoCall, core
<1>6. ASSUME NEW c \in Calls, StopNext(c) PROVE OneHolder'
  BY <1>z0, Single, <1>c, <1>6, NextBegins DEF OneHolder, WillClose, OwnerInv, CallShape, On,
     Moved, Ended, Begun, Others, NoCall, core
<1>7. ASSUME NEW c \in Calls, StopManyEnds(c) PROVE OneHolder'
  BY <1>z0, Single, <1>c, <1>7, ManyEnds DEF OneHolder, WillClose, OwnerInv, CallShape, On, Moved,
     Ended, Begun, Others, NoCall, core
<1>8. ASSUME NEW c \in Calls, NEW t \in Tunnels, CheckResult(c, t) PROVE OneHolder'
  BY <1>z0, Single, <1>c, <1>8, CheckEffect DEF OneHolder, WillClose, OwnerInv, CallShape, On,
     Moved, Ended, Begun, Others, NoCall, core
<1>9. ASSUME NEW c \in Calls, NEW t \in Tunnels, MarkStopping(c, t) PROVE OneHolder'
  BY <1>z0, Single, <1>c, <1>9, MarkEffect DEF OneHolder, WillClose, OwnerInv, CallShape, On,
     Moved, Ended, Begun, Others, NoCall, core
<1>10. ASSUME NEW c \in Calls, NEW t \in Tunnels, closeRuntimeResources(c, t) PROVE OneHolder'
  BY <1>z0, Single, <1>c, <1>10, TakeEffect DEF OneHolder, WillClose, OwnerInv, CallShape, On,
     Moved, Ended, Begun, Others, NoCall, core
<1>11. ASSUME NEW c \in Calls, NEW t \in Tunnels, AlreadyStopping(c, t) PROVE OneHolder'
  BY <1>z0, Single, <1>c, <1>11, SecondEffect DEF OneHolder, WillClose, OwnerInv, CallShape, On,
     Moved, Ended, Begun, Others, NoCall, core
<1>12. ASSUME NEW c \in Calls, NEW t \in Tunnels, CloseRuntime(c, t) PROVE OneHolder'
  BY <1>z0, Single, <1>c, <1>12, CloseEffect DEF OneHolder, WillClose, OwnerInv, CallShape, On,
     Moved, Ended, Begun, Others, NoCall, core
<1>13. ASSUME NEW c \in Calls, NEW t \in Tunnels, VerifyReleased(c, t) PROVE OneHolder'
  BY <1>z0, Single, <1>c, <1>13, VerifiedEffect DEF OneHolder, WillClose, OwnerInv, CallShape, On,
     Moved, Ended, Begun, Others, NoCall, core
<1>14. ASSUME NEW c \in Calls, NEW t \in Tunnels, VerifyFails(c, t) PROVE OneHolder'
  BY <1>z0, Single, <1>c, <1>14, GivesUpEffect DEF OneHolder, WillClose, OwnerInv, CallShape, On,
     Moved, Ended, Begun, Others, NoCall, core
<1>15. ASSUME NEW c \in Calls, NEW t \in Tunnels, FinalStatus(c, t) PROVE OneHolder'
  BY <1>z0, Single, <1>c, <1>15, FinalEffect DEF OneHolder, WillClose, OwnerInv, CallShape, On,
     Moved, Ended, Begun, Others, NoCall, core
<1>16. ASSUME NEW c \in Calls, NEW t \in Tunnels, Drop(c, t) PROVE OneHolder'
  BY <1>z0, Single, <1>c, <1>16, DropEffect DEF OneHolder, WillClose, OwnerInv, CallShape, On,
     Moved, Ended, Begun, Others, NoCall, core
<1>17. ASSUME NEW c \in Calls, NEW t \in Tunnels, EndCall(c, t) PROVE OneHolder'
  BY <1>z0, Single, <1>c, <1>17, EndEffect DEF OneHolder, WillClose, OwnerInv, CallShape, On,
     Moved, Ended, Begun, Others, NoCall, core
<1>18. ASSUME NEW t \in Tunnels, StartTunnel(t) \/ SetupListen(t) \/ SetupDial(t)
                                 \/ StartCheck(t) \/ StartMark(t) \/ StartRegister(t)
                                 \/ StartFails(t) \/ AcceptConn(t) \/ AcceptError(t)
                                 \/ AcceptFailed(t) \/ Handshake(t) \/ DialTarget(t) \/ PairEnds(t)
       PROVE  UNCHANGED <<call>>
  BY <1>18 DEF StartTunnel, SetupListen, SetupDial, StartCheck, StartMark, StartRegister,
     StartFails, AcceptConn, AcceptError, AcceptFailed, Handshake, DialTarget, PairEnds, connRest,
     resVars
<1>19. CASE UNCHANGED vars
  BY <1>1, <1>19 DEF vars
<1>20. QED
  BY <1>1, <1>2, <1>3, <1>4, <1>5, <1>6, <1>7, <1>8, <1>9, <1>10, <1>11, <1>12, <1>13, <1>14,
     <1>15, <1>16, <1>17, <1>18, <1>19
     DEF Next, StartStep, ConnStep, CallStep

\* StopProfile goes to the next tunnel only past verifyTunnelPortReleased.
LEMMA DeletedStep ==
  ASSUME TypeOK, DeletedIsReleased, CallShape, ReleasedInv, ListInv, [Next]_vars
  PROVE  DeletedIsReleased'
<1>c. CallOK
  BY TypeParts
<1>z0. /\ start \in [Tunnels -> StartPlaces]
       /\ listener \in [Tunnels -> {"none", "open", "closed"}]
       /\ workers \subseteq Tunnels
  BY DEF TypeOK, StartPlaces
<1>z1. \A c \in Calls : call[c].queue \subseteq Tunnels /\ call[c].found \subseteq Tunnels
  BY DEF TypeOK, StartPlaces
<1>1. CASE UNCHANGED <<kind, listener, call>>
  BY <1>z0, <1>z1, Single, <1>1 DEF DeletedIsReleased, ReleasedInv, ListInv, CallShape, IsLocal,
     On, Started
<1>2. ASSUME NEW t \in Tunnels, SetupListen(t) PROVE DeletedIsReleased'
  BY <1>z0, <1>z1, Single, <1>2 DEF SetupListen, DeletedIsReleased, ReleasedInv, ListInv,
     CallShape, IsLocal, On, Started
<1>3. ASSUME NEW t \in Tunnels, StartFails(t) PROVE DeletedIsReleased'
  BY <1>z0, <1>z1, Single, <1>3 DEF StartFails, DeletedIsReleased, ReleasedInv, ListInv, CallShape,
     IsLocal, On, Started
<1>4. ASSUME NEW c \in Calls, NEW t \in Tunnels, Stop(c, t) \/ EnableRemoteForwardAccessAndStop(c,
                                                 t) \/ CheckRemoteListen(c,
                                                 t) PROVE DeletedIsReleased'
  BY <1>z0, <1>z1, Single, <1>c, <1>4, UserBegins DEF DeletedIsReleased, ReleasedInv, ListInv,
     CallShape, IsLocal, On, Started, Moved, Ended, Begun, Others, NoCall, core
<1>5. ASSUME NEW c \in Calls, NEW t \in Tunnels, handleKeepaliveFailure(c,
                                                 t) PROVE DeletedIsReleased'
  BY <1>z0, <1>z1, Single, <1>c, <1>5, KeepaliveBegins DEF DeletedIsReleased, ReleasedInv, ListInv,
     CallShape, IsLocal, On, Started, Moved, Ended, Begun, Others, NoCall, core
<1>6. ASSUME NEW t \in Tunnels, CommitSuccessful(t) PROVE DeletedIsReleased'
  BY <1>z0, <1>z1, Single, <1>c, <1>6, CommitEnds DEF DeletedIsReleased, ReleasedInv, ListInv,
     CallShape, IsLocal, On, Started, Moved, Ended, Begun, Others, NoCall, core
<1>7. ASSUME NEW c \in Calls, NEW o \in Ops, StopMany(c, o) PROVE DeletedIsReleased'
  BY <1>z0, <1>z1, Single, <1>c, <1>7, ManyBegins DEF DeletedIsReleased, ReleasedInv, ListInv,
     CallShape, IsLocal, On, Started, Moved, Ended, Begun, Others, NoCall, core
<1>8. ASSUME NEW c \in Calls, StopNext(c) PROVE DeletedIsReleased'
  BY <1>z0, <1>z1, Single, <1>c, <1>8, NextBegins DEF DeletedIsReleased, ReleasedInv, ListInv,
     CallShape, IsLocal, On, Started, Moved, Ended, Begun, Others, NoCall, core
<1>9. ASSUME NEW c \in Calls, StopManyEnds(c) PROVE DeletedIsReleased'
  BY <1>z0, <1>z1, Single, <1>c, <1>9, ManyEnds DEF DeletedIsReleased, ReleasedInv, ListInv,
     CallShape, IsLocal, On, Started, Moved, Ended, Begun, Others, NoCall, core
<1>10. ASSUME NEW c \in Calls, NEW t \in Tunnels, CheckResult(c, t) PROVE DeletedIsReleased'
  BY <1>z0, <1>z1, Single, <1>c, <1>10, CheckEffect DEF DeletedIsReleased, ReleasedInv, ListInv,
     CallShape, IsLocal, On, Started, Moved, Ended, Begun, Others, NoCall, core
<1>11. ASSUME NEW c \in Calls, NEW t \in Tunnels, MarkStopping(c, t) PROVE DeletedIsReleased'
  BY <1>z0, <1>z1, Single, <1>c, <1>11, MarkEffect DEF DeletedIsReleased, ReleasedInv, ListInv,
     CallShape, IsLocal, On, Started, Moved, Ended, Begun, Others, NoCall, core
<1>12. ASSUME NEW c \in Calls, NEW t \in Tunnels, closeRuntimeResources(c,
                                                  t) PROVE DeletedIsReleased'
  BY <1>z0, <1>z1, Single, <1>c, <1>12, TakeEffect DEF DeletedIsReleased, ReleasedInv, ListInv,
     CallShape, IsLocal, On, Started, Moved, Ended, Begun, Others, NoCall, core
<1>13. ASSUME NEW c \in Calls, NEW t \in Tunnels, AlreadyStopping(c, t) PROVE DeletedIsReleased'
  BY <1>z0, <1>z1, Single, <1>c, <1>13, SecondEffect DEF DeletedIsReleased, ReleasedInv, ListInv,
     CallShape, IsLocal, On, Started, Moved, Ended, Begun, Others, NoCall, core
<1>14. ASSUME NEW c \in Calls, NEW t \in Tunnels, CloseRuntime(c, t) PROVE DeletedIsReleased'
  BY <1>z0, <1>z1, Single, <1>c, <1>14, CloseEffect DEF DeletedIsReleased, ReleasedInv, ListInv,
     CallShape, IsLocal, On, Started, Moved, Ended, Begun, Others, NoCall, core
<1>15. ASSUME NEW c \in Calls, NEW t \in Tunnels, VerifyReleased(c, t) PROVE DeletedIsReleased'
  BY <1>z0, <1>z1, Single, <1>c, <1>15, VerifiedEffect DEF DeletedIsReleased, ReleasedInv, ListInv,
     CallShape, IsLocal, On, Started, Moved, Ended, Begun, Others, NoCall, core
<1>16. ASSUME NEW c \in Calls, NEW t \in Tunnels, VerifyFails(c, t) PROVE DeletedIsReleased'
  BY <1>z0, <1>z1, Single, <1>c, <1>16, GivesUpEffect DEF DeletedIsReleased, ReleasedInv, ListInv,
     CallShape, IsLocal, On, Started, Moved, Ended, Begun, Others, NoCall, core
<1>17. ASSUME NEW c \in Calls, NEW t \in Tunnels, FinalStatus(c, t) PROVE DeletedIsReleased'
  BY <1>z0, <1>z1, Single, <1>c, <1>17, FinalEffect DEF DeletedIsReleased, ReleasedInv, ListInv,
     CallShape, IsLocal, On, Started, Moved, Ended, Begun, Others, NoCall, core
<1>18. ASSUME NEW c \in Calls, NEW t \in Tunnels, Drop(c, t) PROVE DeletedIsReleased'
  BY <1>z0, <1>z1, Single, <1>c, <1>18, DropEffect DEF DeletedIsReleased, ReleasedInv, ListInv,
     CallShape, IsLocal, On, Started, Moved, Ended, Begun, Others, NoCall, core
<1>19. ASSUME NEW c \in Calls, NEW t \in Tunnels, EndCall(c, t) PROVE DeletedIsReleased'
  BY <1>z0, <1>z1, Single, <1>c, <1>19, EndEffect DEF DeletedIsReleased, ReleasedInv, ListInv,
     CallShape, IsLocal, On, Started, Moved, Ended, Begun, Others, NoCall, core
<1>20. ASSUME NEW t \in Tunnels, StartTunnel(t) \/ SetupDial(t) \/ StartCheck(t) \/ StartMark(t)
                                 \/ StartRegister(t) \/ AcceptConn(t) \/ AcceptError(t)
                                 \/ AcceptFailed(t) \/ Handshake(t) \/ DialTarget(t) \/ PairEnds(t)
       PROVE  UNCHANGED <<kind, listener, call>>
  BY <1>20 DEF StartTunnel, SetupDial, StartCheck, StartMark, StartRegister, AcceptConn,
     AcceptError, AcceptFailed, Handshake, DialTarget, PairEnds, connRest, resVars
<1>21. CASE UNCHANGED vars
  BY <1>1, <1>21 DEF vars
<1>22. QED
  BY <1>1, <1>2, <1>3, <1>4, <1>5, <1>6, <1>7, <1>8, <1>9, <1>10, <1>11, <1>12, <1>13, <1>14,
     <1>15, <1>16, <1>17, <1>18, <1>19, <1>20, <1>21
     DEF Next, StartStep, ConnStep, CallStep

\* StopServer and StopProfile go to the next tunnel only past the delete.
LEMMA RemovesStep ==
  ASSUME TypeOK, StopManyRemoves, CallShape, EndInv, ListInv, OwnerInv, [Next]_vars
  PROVE  StopManyRemoves'
<1>c. CallOK
  BY TypeParts
<1>z0. start \in [Tunnels -> StartPlaces] /\ workers \subseteq Tunnels
  BY DEF TypeOK, StartPlaces
<1>1. CASE UNCHANGED <<workers, call>>
  BY <1>z0, Single, <1>1 DEF StopManyRemoves, EndInv, ListInv, CallShape, OwnerInv, On, Started
<1>2. ASSUME NEW t \in Tunnels, StartRegister(t) PROVE StopManyRemoves'
  BY <1>z0, Single, <1>2 DEF StartRegister, resVars, StopManyRemoves, EndInv, ListInv, CallShape,
     OwnerInv, On, Started
<1>3. ASSUME NEW c \in Calls, NEW t \in Tunnels, Stop(c, t) \/ EnableRemoteForwardAccessAndStop(c,
                                                 t) \/ CheckRemoteListen(c,
                                                 t) PROVE StopManyRemoves'
  BY <1>z0, Single, <1>c, <1>3, UserBegins DEF StopManyRemoves, EndInv, ListInv, CallShape,
     OwnerInv, On, Started, Moved, Ended, Begun, Others, NoCall, core
<1>4. ASSUME NEW c \in Calls, NEW t \in Tunnels, handleKeepaliveFailure(c, t) PROVE StopManyRemoves'
  BY <1>z0, Single, <1>c, <1>4, KeepaliveBegins DEF StopManyRemoves, EndInv, ListInv, CallShape,
     OwnerInv, On, Started, Moved, Ended, Begun, Others, NoCall, core
<1>5. ASSUME NEW t \in Tunnels, CommitSuccessful(t) PROVE StopManyRemoves'
  BY <1>z0, Single, <1>c, <1>5, CommitEnds DEF StopManyRemoves, EndInv, ListInv, CallShape,
     OwnerInv, On, Started, Moved, Ended, Begun, Others, NoCall, core
<1>6. ASSUME NEW c \in Calls, NEW o \in Ops, StopMany(c, o) PROVE StopManyRemoves'
  BY <1>z0, Single, <1>c, <1>6, ManyBegins DEF StopManyRemoves, EndInv, ListInv, CallShape,
     OwnerInv, On, Started, Moved, Ended, Begun, Others, NoCall, core
<1>7. ASSUME NEW c \in Calls, StopNext(c) PROVE StopManyRemoves'
  BY <1>z0, Single, <1>c, <1>7, NextBegins DEF StopManyRemoves, EndInv, ListInv, CallShape,
     OwnerInv, On, Started, Moved, Ended, Begun, Others, NoCall, core
<1>8. ASSUME NEW c \in Calls, StopManyEnds(c) PROVE StopManyRemoves'
  BY <1>z0, Single, <1>c, <1>8, ManyEnds DEF StopManyRemoves, EndInv, ListInv, CallShape, OwnerInv,
     On, Started, Moved, Ended, Begun, Others, NoCall, core
<1>9. ASSUME NEW c \in Calls, NEW t \in Tunnels, CheckResult(c, t) PROVE StopManyRemoves'
  BY <1>z0, Single, <1>c, <1>9, CheckEffect DEF StopManyRemoves, EndInv, ListInv, CallShape,
     OwnerInv, On, Started, Moved, Ended, Begun, Others, NoCall, core
<1>10. ASSUME NEW c \in Calls, NEW t \in Tunnels, MarkStopping(c, t) PROVE StopManyRemoves'
  BY <1>z0, Single, <1>c, <1>10, MarkEffect DEF StopManyRemoves, EndInv, ListInv, CallShape,
     OwnerInv, On, Started, Moved, Ended, Begun, Others, NoCall, core
<1>11. ASSUME NEW c \in Calls, NEW t \in Tunnels, closeRuntimeResources(c, t) PROVE StopManyRemoves'
  BY <1>z0, Single, <1>c, <1>11, TakeEffect DEF StopManyRemoves, EndInv, ListInv, CallShape,
     OwnerInv, On, Started, Moved, Ended, Begun, Others, NoCall, core
<1>12. ASSUME NEW c \in Calls, NEW t \in Tunnels, AlreadyStopping(c, t) PROVE StopManyRemoves'
  BY <1>z0, Single, <1>c, <1>12, SecondEffect DEF StopManyRemoves, EndInv, ListInv, CallShape,
     OwnerInv, On, Started, Moved, Ended, Begun, Others, NoCall, core
<1>13. ASSUME NEW c \in Calls, NEW t \in Tunnels, CloseRuntime(c, t) PROVE StopManyRemoves'
  BY <1>z0, Single, <1>c, <1>13, CloseEffect DEF StopManyRemoves, EndInv, ListInv, CallShape,
     OwnerInv, On, Started, Moved, Ended, Begun, Others, NoCall, core
<1>14. ASSUME NEW c \in Calls, NEW t \in Tunnels, VerifyReleased(c, t) PROVE StopManyRemoves'
  BY <1>z0, Single, <1>c, <1>14, VerifiedEffect DEF StopManyRemoves, EndInv, ListInv, CallShape,
     OwnerInv, On, Started, Moved, Ended, Begun, Others, NoCall, core
<1>15. ASSUME NEW c \in Calls, NEW t \in Tunnels, VerifyFails(c, t) PROVE StopManyRemoves'
  BY <1>z0, Single, <1>c, <1>15, GivesUpEffect DEF StopManyRemoves, EndInv, ListInv, CallShape,
     OwnerInv, On, Started, Moved, Ended, Begun, Others, NoCall, core
<1>16. ASSUME NEW c \in Calls, NEW t \in Tunnels, FinalStatus(c, t) PROVE StopManyRemoves'
  BY <1>z0, Single, <1>c, <1>16, FinalEffect DEF StopManyRemoves, EndInv, ListInv, CallShape,
     OwnerInv, On, Started, Moved, Ended, Begun, Others, NoCall, core
<1>17. ASSUME NEW c \in Calls, NEW t \in Tunnels, Drop(c, t) PROVE StopManyRemoves'
  BY <1>z0, Single, <1>c, <1>17, DropEffect DEF StopManyRemoves, EndInv, ListInv, CallShape,
     OwnerInv, On, Started, Moved, Ended, Begun, Others, NoCall, core
<1>18. ASSUME NEW c \in Calls, NEW t \in Tunnels, EndCall(c, t) PROVE StopManyRemoves'
  BY <1>z0, Single, <1>c, <1>18, EndEffect DEF StopManyRemoves, EndInv, ListInv, CallShape,
     OwnerInv, On, Started, Moved, Ended, Begun, Others, NoCall, core
<1>19. ASSUME NEW t \in Tunnels, StartTunnel(t) \/ SetupListen(t) \/ SetupDial(t)
                                 \/ StartCheck(t) \/ StartMark(t) \/ StartFails(t)
                                 \/ AcceptConn(t) \/ AcceptError(t) \/ AcceptFailed(t)
                                 \/ Handshake(t) \/ DialTarget(t) \/ PairEnds(t)
       PROVE  UNCHANGED <<workers, call>>
  BY <1>19 DEF StartTunnel, SetupListen, SetupDial, StartCheck, StartMark, StartFails, AcceptConn,
     AcceptError, AcceptFailed, Handshake, DialTarget, PairEnds, connRest, resVars
<1>20. CASE UNCHANGED vars
  BY <1>1, <1>20 DEF vars
<1>21. QED
  BY <1>1, <1>2, <1>3, <1>4, <1>5, <1>6, <1>7, <1>8, <1>9, <1>10, <1>11, <1>12, <1>13, <1>14,
     <1>15, <1>16, <1>17, <1>18, <1>19, <1>20
     DEF Next, StartStep, ConnStep, CallStep

----------------------------------------------------------------------------
\* The theorems.

\* Every step keeps the types.
LEMMA TypeStep == TypeOK /\ [Next]_vars => TypeOK'
<1>1. RestOK' /\ CallOK' => TypeOK'
  BY TypeParts, PTL
<1>2. QED
  BY <1>1, TypeParts, RestStep, CallStepType

\* Before the first Start there is nothing to hold.
LEMMA InitInv == Init => IndInv
<1> SUFFICES ASSUME Init PROVE IndInv
  OBVIOUS
<1>1. \A c \in Calls : call[c] = NoCall
  BY DEF Init
<1>2. \A c \in Calls : /\ call[c].op = "none" /\ call[c].pc = "idle" /\ call[c].t = {}
                       /\ call[c].queue = {} /\ call[c].found = {} /\ ~call[c].holds
  BY <1>1 DEF NoCall
<1>3. \A c \in Calls, t \in Tunnels : ~On(c, t)
  BY <1>2 DEF On
<1>4. TypeOK
  <2>1. NoCall \in CallType
    BY DEF NoCall, CallType, Places
  <2>2. CallOK
    BY <2>1 DEF Init, CallOK
  <2>3. RestOK
    BY DEF Init, RestOK, StartPlaces
  <2>4. QED
    BY <2>2, <2>3, TypeParts
<1>5. CallShape
  BY <1>1, <1>2 DEF CallShape
<1>6. OwnerInv /\ EndInv /\ ReleasedInv /\ OneHolder
  BY <1>3 DEF OwnerInv, EndInv, ReleasedInv, OneHolder, WillClose
<1>7. ListInv /\ DeletedIsReleased /\ StopManyRemoves
  BY <1>2 DEF Init, ListInv, DeletedIsReleased, StopManyRemoves
<1>8. StartInv /\ ListenInv /\ EarlyInv
  BY DEF Init, StartInv, ListenInv, EarlyInv, Early, Checked, Started
<1>9. ListenerInv /\ TransportInv /\ ShownInv
  BY DEF Init, ListenerInv, TransportInv, ShownInv
<1>10. QED
  BY <1>4, <1>5, <1>6, <1>7, <1>8, <1>9 DEF IndInv

\* The invariant is inductive.
LEMMA InvStep == IndInv /\ [Next]_vars => IndInv'
<1> SUFFICES ASSUME IndInv, [Next]_vars PROVE IndInv'
  OBVIOUS
<1> USE DEF IndInv
<1>1. TypeOK' /\ CallShape' /\ OwnerInv' /\ ListInv'
  BY TypeStep, CallShapeStep, OwnerStep, ListStep
<1>2. StartInv' /\ ListenInv' /\ ListenerInv' /\ TransportInv'
  BY StartInvStep, ListenStep, ListenerStep, TransportStep
<1>3. EarlyInv' /\ ShownInv' /\ EndInv' /\ ReleasedInv'
  BY EarlyStep, ShownStep, EndStep, ReleasedStep
<1>4. OneHolder' /\ DeletedIsReleased' /\ StopManyRemoves'
  BY HolderStep, DeletedStep, RemovesStep
<1>5. QED
  BY <1>1, <1>2, <1>3, <1>4

\* Whatever Start, the stopping calls and the keepalive do to each other stays in IndInv.
THEOREM Invariance == Spec => []IndInv
BY InitInv, InvStep, PTL DEF Spec

\* For any number of tunnels and calls: every open listener and transport belongs to a Start in
\* progress, a registered worker or a call that will close it, and to one call only
\* (closeRuntimeResources, stopWorker).
THEOREM ResourcesHeld == Spec => []ResourcesAreHeld
<1>1. IndInv => NoLeak
  <2> SUFFICES ASSUME IndInv, NEW t \in Tunnels, "open" \in {listener[t], transport[t]}
               PROVE  Starting(t) \/ t \in workers \/ \E c \in Calls : WillClose(c, t)
    BY DEF NoLeak
  <2>1. CASE stopping[t]
    <3>1. \A c \in Calls : Closing(c, t) => WillClose(c, t)
      BY DEF IndInv, CallShape, Closing, WillClose
    <3>2. QED
      BY <2>1, <3>1 DEF IndInv, ListenerInv, TransportInv
  <2>2. CASE ~stopping[t]
    <3>1. start[t] # "no" /\ start[t] # "failed"
      BY <2>2 DEF IndInv, StartInv
    <3>2. start[t] = "done" => t \in workers
      BY <2>2 DEF IndInv, StartInv, Started
    <3>3. QED
      BY <3>1, <3>2 DEF Starting
  <2>3. QED
    BY <2>1, <2>2
<1>2. IndInv => ResourcesAreHeld
  BY <1>1 DEF IndInv, ResourcesAreHeld
<1>3. QED
  BY <1>2, Invariance, PTL

\* For any number of tunnels and calls: a registered tunnel that died is shown as "failed",
\* DeleteTunnelProfile passes a local tunnel only when its port is released, and StopServer and
\* StopProfile leave none of the workers they found (handleKeepaliveFailure, StopProfile).
THEOREM StopsComplete == Spec => []StopsAreComplete
<1>1. IndInv => DeadIsShown
  <2> SUFFICES ASSUME IndInv, NEW t \in workers
               PROVE  listener[t] = "open" \/ status[t] = "failed" \/ t \in early
               \/ \E c \in Calls : On(c, t)
    BY DEF DeadIsShown
  <2>1. t \in Tunnels
    BY DEF IndInv, TypeOK
  <2>2. listener[t] = "open" \/ stopping[t]
    BY <2>1 DEF IndInv, ListInv, ListenInv
  <2>3. stopping[t] /\ t \notin early => status[t] = "failed" \/ \E c \in Calls : Cares(c, t)
    BY DEF IndInv, ShownInv
  <2>4. QED
    BY <2>2, <2>3 DEF Cares
<1>2. IndInv => StopsAreComplete
  BY <1>1 DEF IndInv, StopsAreComplete
<1>3. QED
  BY <1>2, Invariance, PTL
=============================================================================
