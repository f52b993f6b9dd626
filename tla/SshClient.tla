------------------------------- MODULE SshClient -------------------------------
(***************************************************************************)
(* A call over a connection of its own, as the managers make them: dial    *)
(* and check the host key (sshclient/client.go), persist it, start the     *)
(* keepalive (keepalive.go) under the call's context, run a command, close.*)
(* The server may fall silent at any time: then only the keepalive, or the *)
(* operating system after a long time, ends what waits for it.             *)
(***************************************************************************)
EXTENDS Naturals

CONSTANTS Keys,          \* host keys
          MaxFailures,   \* policy.MaxFailures
          None

VARIABLES
  policy,    \* HostKeyPolicy: "strict" or "auto_update"
  enabled,   \* policy.Enabled of the keepalive
  stored,    \* the fingerprint in the store, or None
  hostKey,   \* the key of the server
  known,     \* the fingerprint of the connection that was dialled
  observed,  \* the fingerprint that the handshake saw
  client,    \* "none", "tcp", "open", "closed"
  link,      \* "up", "silent", "broken"
  ctx,       \* the context of the call lives
  ka,        \* keepalive: "off", "idle", "pending", "late", "ended"
  failures,  \* its counter
  run,       \* the command: "none", "session", "running", "draining", "done"
  told,      \* onFailure was called
  missed     \* history: requests and intervals without an answer since the last one

vars == <<policy, enabled, stored, hostKey, known, observed, client, link, ctx, ka, failures, run, told, missed>>
dialVars == <<policy, enabled, stored, hostKey, known, observed>>

Running == {"idle", "pending", "late"}

TypeOK ==
  /\ client \in {"none", "tcp", "open", "closed"} /\ link \in {"up", "silent", "broken"}
  /\ ka \in {"off", "ended"} \cup Running
  /\ ka \in Running => failures < MaxFailures
  /\ run \in {"none", "session", "running", "draining", "done"}
  /\ run \in {"session", "running", "draining"} => client # "none"

Init ==
  /\ policy \in {"strict", "auto_update"} /\ enabled \in BOOLEAN
  /\ stored \in Keys \cup {None} /\ hostKey \in Keys
  /\ known = stored /\ observed = None
  /\ client = "none" /\ link = "up" /\ ctx = TRUE
  /\ ka = "off" /\ failures = 0 /\ run = "none" /\ told = FALSE /\ missed = 0

-----------------------------------------------------------------------------
\* The server gets another key, somebody else stores the one that is seen now.
HostChanges ==
  /\ client \in {"none", "tcp"}
  /\ \/ \E key \in Keys : hostKey' = key /\ stored' = stored
     \/ hostKey' = hostKey /\ stored' = hostKey
  /\ UNCHANGED <<policy, enabled, known, observed, client, link, ctx, ka, failures, run, told, missed>>

\* dialDirect: the TCP connection.
Dials ==
  /\ client = "none" /\ ctx
  /\ client' = "tcp"
  /\ UNCHANGED <<dialVars, link, ctx, ka, failures, run, told, missed>>

\* ApplyHostKeyPolicy and verifyHostKey.
Accepts == policy = "auto_update" \/ hostKey = known

\* DialOnConn; the connection is closed if the key is refused, or the user is.
Handshake ==
  /\ client = "tcp"
  /\ observed' = hostKey
  /\ \/ Accepts /\ client' = "open"
     \/ client' = "closed"
  /\ UNCHANGED <<policy, enabled, stored, hostKey, known, link, ctx, ka, failures, run, told, missed>>

\* persistHostKey and startKeepalive of the managers, then the first session is asked for.
Begins ==
  /\ client = "open" /\ run = "none"
  /\ stored' = IF policy = "auto_update" /\ observed # known THEN observed ELSE stored
  /\ ka' = IF enabled THEN "idle" ELSE "off"
  /\ run' = "session"
  /\ UNCHANGED <<policy, enabled, hostKey, known, observed, client, link, ctx, failures, told, missed>>

-----------------------------------------------------------------------------
\* The network.
LinkChanges(l) ==
  /\ client = "open" /\ link # "broken" /\ l # link
  /\ link' = l
  /\ UNCHANGED <<dialVars, client, ctx, ka, failures, run, told, missed>>

-----------------------------------------------------------------------------
\* startRequest.
KeepaliveAsks ==
  /\ ka = "idle"
  /\ ka' = "pending"
  /\ UNCHANGED <<dialVars, client, link, ctx, failures, run, told, missed>>

\* Faulty variant: what was counted stays.
RepliedStill ==
  /\ ka \in {"pending", "late"} /\ link = "up" /\ client = "open"
  /\ ka' = "idle" /\ failures' = failures /\ missed' = 0
  /\ UNCHANGED <<dialVars, client, link, ctx, run, told>>

\* An answer, a late one too, or a refusal: the server is there.
Replied ==
  /\ ka \in {"pending", "late"} /\ link = "up" /\ client = "open"
  /\ ka' = "idle" /\ failures' = 0 /\ missed' = 0
  /\ UNCHANGED <<dialVars, client, link, ctx, run, told>>

\* fail: at the limit the failure is told and the connection closed.
fail(n, next) ==
  /\ failures' = n
  /\ IF n < MaxFailures THEN ka' = next /\ UNCHANGED <<client, told>>
       ELSE ka' = "ended" /\ told' = TRUE /\ client' = "closed"

\* An error: counted, unless the request was counted when it timed out.
RequestErrs ==
  /\ ka \in {"pending", "late"} /\ (link = "broken" \/ client = "closed")
  /\ fail(IF ka = "late" THEN failures ELSE failures + 1, "idle")
  /\ missed' = IF missed = MaxFailures \/ ka = "late" THEN missed ELSE missed + 1
  /\ UNCHANGED <<dialVars, link, ctx, run>>

\* timeoutC: after the timeout, and again after every interval.
TimesOut ==
  /\ ka \in {"pending", "late"} /\ (link = "up" => ka = "pending")
  /\ fail(failures + 1, "late")
  /\ missed' = IF missed = MaxFailures THEN missed ELSE missed + 1
  /\ UNCHANGED <<dialVars, link, ctx, run>>

\* The handle is stopped by Close, or the context ends.
KeepaliveStops ==
  /\ ka \in Running /\ (~ctx \/ client = "closed")
  /\ ka' = "ended"
  /\ UNCHANGED <<dialVars, client, link, ctx, failures, run, told, missed>>

-----------------------------------------------------------------------------
\* Run: NewSession does not look at the context.
SessionOpens ==
  /\ run = "session"
  /\ \/ link = "up" /\ client = "open" /\ run' = "running"
     \/ (link = "broken" \/ client = "closed") /\ run' = "done"
  /\ UNCHANGED <<dialVars, client, link, ctx, ka, failures, told, missed>>

\* The command ends, or its connection.
RunEnds ==
  /\ run = "running" /\ (link # "silent" \/ client = "closed")
  /\ run' = "done"
  /\ UNCHANGED <<dialVars, client, link, ctx, ka, failures, told, missed>>

\* The timeout of the call, or its cancellation.
ContextEnds ==
  /\ ctx
  /\ ctx' = FALSE
  /\ UNCHANGED <<dialVars, client, link, ka, failures, run, told, missed>>

\* The session is closed, and the end of the command awaited.
Drains ==
  /\ run = "running" /\ ~ctx
  /\ run' = "draining"
  /\ UNCHANGED <<dialVars, client, link, ctx, ka, failures, told, missed>>

Drained ==
  /\ run = "draining" /\ (link # "silent" \/ client = "closed")
  /\ run' = "done"
  /\ UNCHANGED <<dialVars, client, link, ctx, ka, failures, told, missed>>

\* Client.Close: by the call when it is done, or by StopServer before.
Closes ==
  /\ client \in {"tcp", "open"} /\ (run \in {"none", "done"} => run = "done" \/ ~ctx)
  /\ client' = "closed"
  /\ UNCHANGED <<dialVars, link, ctx, ka, failures, run, told, missed>>

Next ==
  \/ HostChanges \/ Dials \/ Handshake \/ Begins
  \/ \E l \in {"up", "silent", "broken"} : LinkChanges(l)
  \/ KeepaliveAsks \/ Replied \/ RequestErrs \/ TimesOut \/ KeepaliveStops
  \/ SessionOpens \/ RunEnds \/ ContextEnds \/ Drains \/ Drained \/ Closes

Spec == Init /\ [][Next]_vars

-----------------------------------------------------------------------------
\* The keepalive gives a connection up only after MaxFailures requests or intervals without
\* an answer: an answer in between, even a late one, starts the count again.
FailureIsDeserved == told => missed >= MaxFailures

\* While a call waits for its command, somebody will notice that the server is silent: the
\* keepalive runs until the connection is closed.  Two exceptions: it is disabled, or the
\* call's context has ended and stopped it, though Run still waits for the command.
WaitingIsWatched ==
  run \in {"session", "running", "draining"} /\ client = "open" /\ enabled /\ ctx => ka \in Running

\* Under the strict policy no connection is open to a host whose key was not stored when it
\* was dialled, whatever happens to the key in between (verifyHostKey).
StrictIsKnown == policy = "strict" /\ client = "open" => observed = known /\ known # None

\* A connection is opened to the host it should, watched while somebody waits on it, and given
\* up for a reason (Dial, verifyHostKey, runKeepalive, Run).
ConnectionIsWatched == TypeOK /\ FailureIsDeserved /\ WaitingIsWatched /\ StrictIsKnown

=============================================================================
