----------------------------- MODULE SftpSession -----------------------------
(***************************************************************************)
(* The SFTP sessions of one server: internal/sftpmanager keeps one per     *)
(* context (a terminal tab), each open attempt under a new generation      *)
(* number; app_sftp.go calls it, its state events feed the server's record *)
(* in internal/connectionstate, and serverlifecycle stops all of them.     *)
(*                                                                         *)
(* A step is one critical section of Manager.mu with the events sent under *)
(* it, one later event, or one call of the remote side.  A session is      *)
(* named by its context and the generation it was opened under.  Paths,    *)
(* modes (SFTP or SCP) and messages carry no control and are left out; the *)
(* transfers of a session are in SftpTransfer, where its end is an action. *)
(***************************************************************************)
EXTENDS Integers

CONSTANTS
  Contexts,        \* context ids
  DefaultContext,  \* normalizeContextID(server, "")
  MaxGeneration,   \* bound: generations per context (the first open has 2)
  Reconnects,      \* bound: ReconnectSftp calls
  Lists            \* bound: List calls at the same time

ASSUME ContextAssumption == DefaultContext \in Contexts
ASSUME BoundAssumption   == MaxGeneration \in Nat

Gens == 1..MaxGeneration

\* An open attempt: dialing; "opened" (transport and client open, session not
\* installed); "failing" (failOpen to run); "emit" (its event to send); over.
Attempts == {"none", "dialing", "opened", "failing", "emit", "over"}

VARIABLES
  generation,   \* m.generations, 0: no entry
  session,      \* m.sessions: the generation of the installed session, 0: none
  status,       \* m.states[..].Status, "none": no entry
  stateGen,     \* m.states[..].Generation
  opening,      \* contexts with an OpenSftp call that has yet to reach open
  attempt,      \* the open attempt of a context and generation
  conn,         \* the transport and client it opened
  closing,      \* sessions taken out of m.sessions and not closed yet
  list,         \* List calls: phase, context, generation of their session
  reconnect,    \* Reconnect calls: phase, context, session they closed or attempt
  blocked,      \* tracker: events of the server are ignored
  sftpActive,   \* tracker: record.sftpActive
  disconnect,   \* Coordinator.Disconnect is at or past its sftp.Stop ...
  taken,        \* ... which took these sessions
  stopped,      \* history: the generation at the last Stop or StopContext
  late,         \* history: context and generation a listing of a stopped session made online
  dropped       \* history: open sessions whose entry a forced open deleted

stateVars == <<status, stateGen>>
discVars  == <<disconnect, taken>>
trackVars == <<blocked, sftpActive, discVars>>
history == <<stopped, late, dropped>>
vars == <<generation, session, stateVars, opening, attempt, conn, closing, list, reconnect,
          trackVars, history>>

Idle == [phase |-> "idle", c |-> DefaultContext, g |-> 0]
CallType(phases) == [phase : phases, c : Contexts, g : 0..MaxGeneration]

TypeOK ==
  /\ generation \in [Contexts -> 0..MaxGeneration]
  /\ session \in [Contexts -> 0..MaxGeneration]
  /\ status \in [Contexts -> {"none", "connecting", "online", "error", "offline"}]
  /\ stateGen \in [Contexts -> 0..MaxGeneration]
  /\ opening \subseteq Contexts
  /\ attempt \in [Contexts \X Gens -> Attempts]
  /\ conn \in [Contexts \X Gens -> {"none", "open", "closed"}]
  /\ closing \subseteq Contexts \X Gens
  /\ list \in [Lists -> CallType({"idle", "reading", "checked"})]
  /\ reconnect \in [Reconnects -> CallType({"idle", "stopped", "reopened"})]
  /\ blocked \in BOOLEAN
  /\ sftpActive \in BOOLEAN
  /\ disconnect \in BOOLEAN
  /\ taken \subseteq Contexts \X Gens
  /\ stopped \in [Contexts -> 0..MaxGeneration]
  /\ late \subseteq Contexts \X (0..MaxGeneration) /\ dropped \subseteq Contexts \X Gens

Init ==
  /\ generation = [c \in Contexts |-> 0]
  /\ session = [c \in Contexts |-> 0]
  /\ status = [c \in Contexts |-> "none"]
  /\ stateGen = [c \in Contexts |-> 0]
  /\ opening = {}
  /\ attempt = [x \in Contexts \X Gens |-> "none"]
  /\ conn = [x \in Contexts \X Gens |-> "none"]
  /\ closing = {}
  /\ list = [l \in Lists |-> Idle]
  /\ reconnect = [r \in Reconnects |-> Idle]
  /\ blocked = FALSE
  /\ sftpActive = FALSE
  /\ disconnect = FALSE
  /\ taken = {}
  /\ stopped = [c \in Contexts |-> 0]
  /\ late = {} /\ dropped = {}

----------------------------------------------------------------------------
\* The parts the operations share.

\* nextGenerationLocked, for the contexts of a set (the bound is a guard).
nextGeneration(C) ==
  /\ \A c \in C : generation[c] < MaxGeneration
  /\ generation' = [c \in Contexts |-> IF c \in C THEN generation[c] + 1 ELSE generation[c]]

\* Tracker.UpdateSFTP: keyed by the server; neither the context nor the
\* generation of the event is looked at.
UpdateSFTP(newStatus) ==
  sftpActive' = IF blocked THEN sftpActive ELSE newStatus \in {"connecting", "online"}

\* setStateLocked with the generation that nextGeneration gave: the state is
\* stored and its event sent under the lock.
setState(C, newStatus) ==
  /\ status' = [c \in Contexts |-> IF c \in C THEN newStatus ELSE status[c]]
  /\ stateGen' = [c \in Contexts |-> IF c \in C THEN generation'[c] ELSE stateGen[c]]
  /\ UpdateSFTP(newStatus)

isCurrentSession(c, g) == session[c] = g /\ generation[c] = g

\* The installed sessions of a set of contexts.
Installed(C) == {<<c, session[c]>> : c \in {d \in C : session[d] # 0}}

\* StopContext and Stop under the lock: no session, a new generation, and the
\* sessions to close after the unlock.
StopContexts(C) ==
  /\ nextGeneration(C)
  /\ setState(C, "offline")
  /\ session' = [c \in Contexts |-> IF c \in C THEN 0 ELSE session[c]]
  /\ closing' = closing \cup Installed(C)
  /\ stopped' = [c \in Contexts |-> IF c \in C THEN generation'[c] ELSE stopped[c]]
  /\ UNCHANGED <<opening, attempt, conn, blocked, late, dropped>>

\* invalidateSession and handleKeepaliveFailure, for a current session.
dropSession(c) ==
  /\ nextGeneration({c})
  /\ setState({c}, "error")
  /\ session' = [session EXCEPT ![c] = 0]
  /\ closing' = closing \cup Installed({c})
  /\ UNCHANGED <<opening, attempt, conn, blocked, discVars, history>>

\* closeSession, after the unlock of whoever took the session out.
closeSession(x) ==
  /\ x \in closing
  /\ closing' = closing \ {x}
  /\ conn' = [conn EXCEPT ![x] = "closed"]
  /\ UNCHANGED <<generation, session, stateVars, opening, attempt, list, reconnect, trackVars,
                 history>>

----------------------------------------------------------------------------
\* Open and Reconnect.

\* open up to the dial.  generationLocked makes a missing generation 1 before
\* the next one is taken.
generationLocked(c) == IF generation[c] > 0 THEN generation[c] ELSE 1

beginAttempt(c) ==
  /\ generationLocked(c) < MaxGeneration
  /\ generation' = [generation EXCEPT ![c] = generationLocked(c) + 1]
  /\ setState({c}, "connecting")
  /\ attempt' = [attempt EXCEPT ![<<c, generation'[c]>>] = "dialing"]
  /\ UNCHANGED <<session, conn, closing, blocked, discVars, history>>

\* OpenSftp: BeginConnect, then the credentials.
OpenSftp(c) ==
  /\ c \notin opening
  /\ opening' = opening \cup {c}
  /\ blocked' = FALSE
  /\ UNCHANGED <<generation, session, stateVars, attempt, conn, closing, list, reconnect,
                 sftpActive, discVars, history>>

\* The credentials cannot be resolved, or open (not forced) finds the context
\* online, connecting or with a session, and returns its state.
OpenNothing(c) ==
  /\ c \in opening
  /\ opening' = opening \ {c}
  /\ UNCHANGED <<generation, session, stateVars, attempt, conn, closing, list, reconnect, trackVars,
                 history>>

Open(c) ==
  /\ c \in opening
  /\ session[c] = 0
  /\ ~(status[c] = "connecting" /\ stateGen[c] = generation[c])
  /\ opening' = opening \ {c}
  /\ beginAttempt(c)
  /\ UNCHANGED <<list, reconnect>>

\* ReconnectSftp: StopContext of Reconnect; there is no BeginConnect.
Reconnect(r, c) ==
  /\ reconnect[r].phase = "idle"
  /\ StopContexts({c})
  /\ reconnect' = [reconnect EXCEPT ![r] = [phase |-> "stopped", c |-> c, g |-> session[c]]]
  /\ UNCHANGED <<list, discVars>>

\* The forced open of Reconnect, when StopContext has closed what it took.
Reopen(r) ==
  LET c == reconnect[r].c IN
  /\ reconnect[r].phase = "stopped"
  /\ <<c, reconnect[r].g>> \notin closing
  /\ beginAttempt(c)
  /\ reconnect' = [reconnect EXCEPT ![r].phase = "reopened", ![r].g = generation'[c]]
  /\ UNCHANGED <<opening, list>>

\* The dial and OpenSFTP, or the SCP fallback.
Dial(c, g) ==
  /\ attempt[<<c, g>>] = "dialing"
  /\ attempt' = [attempt EXCEPT ![<<c, g>>] = "opened"]
  /\ conn' = [conn EXCEPT ![<<c, g>>] = "open"]
  /\ UNCHANGED <<generation, session, stateVars, opening, closing, list, reconnect, trackVars,
                 history>>

\* Faulty variant: an error return that does not call failOpen.
AttemptGivesUp(c, g) ==
  /\ attempt[<<c, g>>] \in {"dialing", "opened"}
  /\ attempt' = [attempt EXCEPT ![<<c, g>>] = "over"]
  /\ conn' = [conn EXCEPT ![<<c, g>>] = IF @ = "open" THEN "closed" ELSE @]
  /\ UNCHANGED <<generation, session, stateVars, opening, closing, list, reconnect, trackVars,
                 history>>

\* Either fails, or commitAuth does: what is open is closed.
AttemptFails(c, g) ==
  /\ attempt[<<c, g>>] \in {"dialing", "opened"}
  /\ attempt' = [attempt EXCEPT ![<<c, g>>] = "failing"]
  /\ conn' = [conn EXCEPT ![<<c, g>>] = IF @ = "open" THEN "closed" ELSE @]
  /\ UNCHANGED <<generation, session, stateVars, opening, closing, list, reconnect, trackVars,
                 history>>

\* Faulty variants: the generation is not compared; the dial is repeated.
failOpenLate(c, g) ==
  /\ attempt[<<c, g>>] = "failing"
  /\ attempt' = [attempt EXCEPT ![<<c, g>>] = "emit"]
  /\ status' = [status EXCEPT ![c] = "error"]
  /\ stateGen' = [stateGen EXCEPT ![c] = g]
  /\ session' = [session EXCEPT ![c] = 0]
  /\ UNCHANGED <<generation, opening, conn, closing, list, reconnect, trackVars, history>>

failOpenRetries(c, g) ==
  /\ attempt[<<c, g>>] = "failing"
  /\ attempt' = [attempt EXCEPT ![<<c, g>>] = IF generation[c] = g THEN "dialing" ELSE "emit"]
  /\ UNCHANGED <<generation, session, stateVars, opening, conn, closing, list, reconnect, trackVars,
                 history>>

\* failOpen under the lock: of a current attempt only.  The entry of
\* m.sessions is deleted; nothing is closed.
failOpen(c, g) ==
  /\ attempt[<<c, g>>] = "failing"
  /\ attempt' = [attempt EXCEPT ![<<c, g>>] = "emit"]
  /\ IF generation[c] = g
       THEN /\ status' = [status EXCEPT ![c] = "error"]
            /\ stateGen' = [stateGen EXCEPT ![c] = g]
            /\ session' = [session EXCEPT ![c] = 0]
            /\ dropped' = dropped \cup Installed({c})
       ELSE UNCHANGED <<stateVars, session, dropped>>
  /\ UNCHANGED <<generation, opening, conn, closing, list, reconnect, trackVars, stopped, late>>

\* failOpen after the unlock: the event is sent, current or not.
EmitFailure(c, g) ==
  /\ attempt[<<c, g>>] = "emit"
  /\ attempt' = [attempt EXCEPT ![<<c, g>>] = "over"]
  /\ UpdateSFTP("error")
  /\ UNCHANGED <<generation, session, stateVars, opening, conn, closing, list, reconnect, blocked,
                 discVars, history>>

\* Faulty variant: the generation is not compared.
InstallLate(c, g) ==
  /\ attempt[<<c, g>>] = "opened"
  /\ attempt' = [attempt EXCEPT ![<<c, g>>] = "over"]
  /\ session' = [session EXCEPT ![c] = g]
  /\ status' = [status EXCEPT ![c] = "online"]
  /\ UpdateSFTP("online")
  /\ UNCHANGED <<generation, stateGen, conn, opening, closing, list, reconnect, blocked,
                 discVars, history>>

\* The end of open: the session goes in, the one it replaces is closed on the
\* spot; an attempt that is not current any more closes what it opened.
Install(c, g) ==
  /\ attempt[<<c, g>>] = "opened"
  /\ attempt' = [attempt EXCEPT ![<<c, g>>] = "over"]
  /\ UNCHANGED generation
  /\ IF generation[c] = g
       THEN /\ session' = [session EXCEPT ![c] = g]
            /\ conn' = [x \in Contexts \X Gens |->
                          IF x = <<c, session[c]>> THEN "closed" ELSE conn[x]]
            /\ setState({c}, "online")
            /\ UNCHANGED closing
       ELSE closing' = closing \cup {<<c, g>>} /\ UNCHANGED <<session, conn, stateVars, sftpActive>>
  /\ UNCHANGED <<opening, list, reconnect, blocked, discVars, history>>

Attempt(c, g) == \/ Dial(c, g) \/ AttemptFails(c, g) \/ failOpen(c, g) \/ EmitFailure(c, g)
                 \/ Install(c, g)

----------------------------------------------------------------------------
\* The end of a session.

\* CloseSftpContext.
StopContext(c) ==
  /\ StopContexts({c})
  /\ UNCHANGED <<list, reconnect, discVars>>

\* Stop: every context with a session or a state; the default one if none.
Known == {c \in Contexts : session[c] # 0 \/ status[c] # "none"}

Stop == StopContexts(IF Known = {} THEN {DefaultContext} ELSE Known) /\ UNCHANGED <<list, reconnect>>

\* CloseSftp; and the Stop of Coordinator.Disconnect, whose last step follows
\* when the sessions it took are closed.  Bound: one Disconnect at a time.
CloseSftp == Stop /\ UNCHANGED discVars

DisconnectStop ==
  /\ ~disconnect
  /\ Stop
  /\ disconnect' = TRUE
  /\ taken' = Installed(Contexts)

CompleteDisconnect ==
  /\ disconnect
  /\ taken \cap closing = {}
  /\ disconnect' = FALSE
  /\ taken' = {}
  /\ blocked' = TRUE
  /\ sftpActive' = FALSE
  /\ UNCHANGED <<generation, session, stateVars, opening, attempt, conn, closing, list, reconnect,
                 history>>

\* The keepalive of a session gives up; a session that is not current is left.
handleKeepaliveFailure(c) ==
  /\ session[c] # 0
  /\ isCurrentSession(c, session[c])
  /\ dropSession(c)
  /\ UNCHANGED <<list, reconnect>>

----------------------------------------------------------------------------
\* List, and Home and Parent, which call it.

\* activeSession.
ListBegins(l, c) ==
  /\ list[l].phase = "idle"
  /\ session[c] # 0
  /\ conn[<<c, session[c]>>] = "open"
  /\ list' = [list EXCEPT ![l] = [phase |-> "reading", c |-> c, g |-> session[c]]]
  /\ UNCHANGED <<generation, session, stateVars, opening, attempt, conn, closing, reconnect,
                 trackVars, history>>

\* The read fails: an error of a closed transport invalidates the session.
ListFails(l) ==
  LET c == list[l].c IN
  /\ list[l].phase = "reading"
  /\ list' = [list EXCEPT ![l] = Idle]
  /\ \/ isCurrentSession(c, list[l].g) /\ dropSession(c)
     \/ UNCHANGED <<generation, session, stateVars, opening, attempt, conn, closing, trackVars,
                    history>>
  /\ UNCHANGED reconnect

\* The read ends: isCurrentSession, then the lock is released ...
ListChecks(l) ==
  /\ list[l].phase = "reading"
  /\ list' = [list EXCEPT ![l] = IF isCurrentSession(@.c, @.g) THEN [@ EXCEPT !.phase = "checked"]
                                                              ELSE Idle]
  /\ UNCHANGED <<generation, session, stateVars, opening, attempt, conn, closing, reconnect,
                 trackVars, history>>

\* ... and taken again to make the state, whatever it is now, online.
ListApplies(l) ==
  /\ list[l].phase = "checked"
  /\ list' = [list EXCEPT ![l] = Idle]
  /\ status' = [status EXCEPT ![list[l].c] = "online"]
  /\ late' = late \cup ({<<list[l].c, stateGen[list[l].c]>>} \ {<<c, stateGen[c]>> : c \in {d \in Contexts : session[d] # 0}})
  /\ UpdateSFTP("online")
  /\ UNCHANGED <<generation, session, stateGen, opening, attempt, conn, closing, reconnect, blocked,
                 discVars, stopped, dropped>>

----------------------------------------------------------------------------

Next ==
  \/ \E c \in Contexts : \/ OpenSftp(c) \/ OpenNothing(c) \/ Open(c)
                         \/ StopContext(c) \/ handleKeepaliveFailure(c)
                         \/ \E g \in Gens : Attempt(c, g)
                         \/ \E r \in Reconnects : Reconnect(r, c)
                         \/ \E l \in Lists : ListBegins(l, c)
  \/ \E r \in Reconnects : Reopen(r)
  \/ \E l \in Lists : ListFails(l) \/ ListChecks(l) \/ ListApplies(l)
  \/ \E x \in closing : closeSession(x)
  \/ CloseSftp \/ DisconnectStop \/ CompleteDisconnect

Spec == Init /\ [][Next]_vars

\* An attempt goes on: its context has a timeout.  So do the calls in progress.
Fairness == /\ \A c \in Contexts, g \in Gens : WF_vars(Attempt(c, g)) /\ WF_vars(closeSession(<<c, g>>))
            /\ \A r \in Reconnects : WF_vars(Reopen(r))
            /\ \A l \in Lists : WF_vars(ListChecks(l) \/ ListApplies(l))
            /\ WF_vars(CompleteDisconnect)

FairSpec == Spec /\ Fairness

----------------------------------------------------------------------------
\* Properties.

\* Stop means stop: an open that was under way when Stop or StopContext ran,
\* however late its dial returns, is not installed afterwards.
StopIsFinal == \A c \in Contexts : session[c] # 0 => session[c] > stopped[c]

\* What is published about a context never goes back to an older generation:
\* not by a late failure, a late directory or a slow stop.
StateNeverGoesBack == [][\A c \in Contexts : stateGen'[c] >= stateGen[c]]_vars

\* A context shown as connecting is being connected: Open returns at once for
\* such a context, so a "connecting" nobody works on would lock it.
ConnectingIsAttempted ==
  \A c \in Contexts : status[c] = "connecting" =>
    /\ stateGen[c] = generation[c]
    /\ attempt[<<c, generation[c]>>] \in {"dialing", "opened", "failing"}

\* activeSession hands out open sessions: whoever closes a session took it out
\* of m.sessions before.
InstalledIsOpen == \A c \in Contexts : session[c] # 0 => conn[<<c, session[c]>>] = "open"

\* Every transport and client that was opened is installed, about to be, or
\* about to be closed: none is lost.  The exception is a session installed
\* between the two halves of a Reconnect, whose forced open then fails: failOpen
\* deletes its entry and nobody closes it.
NoLeakedSession ==
  \A c \in Contexts, g \in Gens : conn[<<c, g>>] = "open" =>
    session[c] = g \/ attempt[<<c, g>>] = "opened" \/ <<c, g>> \in closing \/ <<c, g>> \in dropped

\* An attempt comes to an end that is shown.
ConnectingEnds == \A c \in Contexts : (status[c] = "connecting") ~> (status[c] # "connecting")

\* A context shown as online has a session.  The exception is a List that was
\* checked before a stop and writes "online" after it.
OnlineHasSession ==
  \A c \in Contexts : status[c] = "online" => session[c] # 0 \/ <<c, stateGen[c]>> \in late

\* The record of the server never shows an SFTP session that no context backs:
\* some context is connecting or online, or the event that says otherwise is
\* on its way.  (One flag stands for all contexts: the converse is not true.)
NoGhostSftp == sftpActive => \/ \E c \in Contexts : status[c] \in {"connecting", "online"}
                             \/ \E c \in Contexts, g \in Gens : attempt[<<c, g>>] = "emit"

\* The sessions of the manager: an open that was stopped is never installed, what is
\* installed is open, and what is open can be found (Open, StopContext, failOpen).
SessionsAreSound == TypeOK /\ StopIsFinal /\ InstalledIsOpen /\ NoLeakedSession

\* What is shown of a context and of its server is backed: "connecting" by an attempt,
\* "online" by a session, the flag of the server by a context (emitState, UpdateSFTP).
ShownIsBacked == ConnectingIsAttempted /\ OnlineHasSession /\ NoGhostSftp

=============================================================================
