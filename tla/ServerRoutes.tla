----------------------------- MODULE ServerRoutes -----------------------------
(***************************************************************************)
(* The servers of the database (persistence/store.go) and the connections  *)
(* that are made to them, directly or through a jump host                  *)
(* (app_ssh_route.go, sshclient/client.go).  A statement of the database   *)
(* is atomic, and so is a transaction; SaveConnection and a dial are made  *)
(* of several statements each, and others run in between.                  *)
(* The key of a host is identified with the host.                          *)
(***************************************************************************)
EXTENDS Naturals, FiniteSets

CONSTANTS Servers,   \* the ids of the table; AUTOINCREMENT uses none twice
          Hosts,     \* addresses
          Savers,    \* calls of SaveConnection that may be in progress
          Dialers,   \* calls of Dial that may be in progress
          None

VARIABLES
  policy,   \* HostKeyPolicy of the settings
  rows,     \* the rows of connections
  gone,     \* the ids of rows that were deleted
  route,    \* "direct", or the jump server of a row with mode "jump" (None: NULL)
  host,     \* the address of a row
  fp,       \* host_key_fingerprint of a row
  save,     \* the calls of SaveConnection
  dial,     \* the calls of Dial, with the connection as they have read it
  clients,  \* the SSH clients of a dial that are open
  raced     \* history: the address of the row changed while a dial was using it

vars == <<policy, rows, gone, route, host, fp, save, dial, clients, raced>>

Routes == Servers \cup {"direct", None}
NoSave == [step |-> "idle", server |-> None, route |-> "direct", host |-> None, keep |-> None]
NoDial == [step |-> "idle", server |-> None, route |-> "direct", host |-> None, expect |-> None,
           via |-> None, viaHost |-> None, viaExpect |-> None]

TypeOK ==
  /\ policy \in {"strict", "auto_update"}
  /\ rows \subseteq Servers /\ gone \subseteq Servers /\ rows \cap gone = {}
  /\ route \in [Servers -> Routes]
  /\ host \in [Servers -> Hosts \cup {None}] /\ fp \in [Servers -> Hosts \cup {None}]
  /\ save \in [Savers -> [step : {"idle", "read", "write"}, server : Servers \cup {None},
                          route : Routes, host : Hosts \cup {None}, keep : Hosts \cup {None}]]
  /\ \A d \in Dialers : dial[d].step \in {"idle", "route", "jump", "jumpKey", "commit", "target",
                                          "key", "open", "failed"}
  /\ clients \in [Dialers -> SUBSET {"jump", "target"}]
  /\ raced \subseteq Servers

Init ==
  /\ policy \in {"strict", "auto_update"}
  /\ rows = {} /\ gone = {} /\ raced = {}
  /\ route = [s \in Servers |-> "direct"]
  /\ host = [s \in Servers |-> None] /\ fp = host
  /\ save = [c \in Savers |-> NoSave]
  /\ dial = [d \in Dialers |-> NoDial]
  /\ clients = [d \in Dialers |-> {}]

dialVars == <<dial, clients>>
tables == <<policy, rows, gone, route, host, fp>>

-----------------------------------------------------------------------------
\* SaveConnection

\* normalizeConnectionRoute: a jump host is another server, and direct itself.
normalizeConnectionRoute(s, r) ==
  r = "direct" \/ (r \in rows \ {s} /\ route[r] = "direct")

\* The checks; s is None for a new server.
SaveConnection(c, s, r, h) ==
  /\ save[c] = NoSave
  /\ normalizeConnectionRoute(s, r)
  /\ save' = [save EXCEPT ![c] = [step |-> IF s = None THEN "write" ELSE "read", server |-> s,
                                  route |-> r, host |-> h, keep |-> None]]
  /\ UNCHANGED <<tables, dialVars, raced>>

\* Faulty variant: the fingerprint is kept whatever the address is.
SaveReadsAny(c) ==
  /\ save[c].step = "read"
  /\ save' = [save EXCEPT ![c] = IF save[c].server \in rows
                THEN [@ EXCEPT !.step = "write", !.keep = fp[save[c].server]]
                ELSE NoSave]
  /\ UNCHANGED <<tables, dialVars, raced>>

\* GetConnection of the row that is there; another address loses the fingerprint.
SaveReads(c) ==
  /\ save[c].step = "read"
  /\ save' = [save EXCEPT ![c] =
       IF @.server \notin rows THEN NoSave
       ELSE [@ EXCEPT !.step = "write",
                      !.keep = IF host[save[c].server] = save[c].host THEN fp[save[c].server] ELSE None]]
  /\ UNCHANGED <<tables, dialVars, raced>>

\* The dials that work on what they have read of row s.
Using(s) == \E d \in Dialers : dial[d].step \notin {"idle", "open", "failed"} /\ s \in {dial[d].server, dial[d].via}

\* The INSERT or UPDATE; a jump server or a row that has gone fails it.
SaveWrites(c) ==
  LET r == save[c] IN
  /\ r.step = "write"
  /\ save' = [save EXCEPT ![c] = NoSave]
  /\ \/ /\ r.route \in rows \cup {"direct"}
        /\ \E s \in Servers :
             /\ IF r.server = None THEN s \notin rows \cup gone ELSE s = r.server /\ s \in rows
             /\ rows' = rows \cup {s}
             /\ route' = [route EXCEPT ![s] = r.route]
             /\ host' = [host EXCEPT ![s] = r.host]
             /\ fp' = [fp EXCEPT ![s] = r.keep]
             /\ raced' = IF Using(s) /\ host[s] # r.host THEN raced \cup {s} ELSE raced
     \/ /\ r.route \notin rows \cup {"direct"} \/ (r.server # None /\ r.server \notin rows)
        /\ UNCHANGED <<rows, route, host, fp, raced>>
  /\ UNCHANGED <<policy, gone, dialVars>>

\* DeleteConnection: one transaction; the routes through s lose their jump server.
DeleteConnection(s) ==
  /\ s \in rows
  /\ rows' = rows \ {s} /\ gone' = gone \cup {s}
  /\ route' = [t \in Servers |-> IF t = s THEN "direct" ELSE IF route[t] = s THEN None ELSE route[t]]
  /\ host' = [host EXCEPT ![s] = None] /\ fp' = [fp EXCEPT ![s] = None]
  /\ UNCHANGED <<policy, save, dialVars, raced>>

ClearHostKey(s) ==
  /\ s \in rows
  /\ fp' = [fp EXCEPT ![s] = None]
  /\ UNCHANGED <<policy, rows, gone, route, host, save, dialVars, raced>>

-----------------------------------------------------------------------------
\* Dial

dialRest == <<policy, rows, gone, route, host, save, raced>>

\* The manager reads the connection and calls Dial.
Dial(d, s) ==
  /\ dial[d].step = "idle" /\ s \in rows
  /\ dial' = [dial EXCEPT ![d] = [NoDial EXCEPT !.step = "route", !.server = s, !.route = route[s],
                                                !.host = host[s], !.expect = fp[s]]]
  /\ UNCHANGED <<dialRest, fp, clients>>

\* The route dialer: the jump server must be there and be direct.
DialRoute(d) ==
  LET r == dial[d] IN
  /\ r.step = "route"
  /\ dial' = [dial EXCEPT ![d] =
       CASE r.route = "direct" -> [@ EXCEPT !.step = "target"]
         [] r.route \in rows /\ route[r.route] = "direct" ->
              [@ EXCEPT !.step = "jump", !.via = r.route, !.viaHost = host[r.route],
                        !.viaExpect = fp[r.route]]
         [] OTHER -> [@ EXCEPT !.step = "failed"]]
  /\ UNCHANGED <<dialRest, fp, clients>>

\* verifyHostKey under the flags of ApplyHostKeyPolicy.
verifyHostKey(expect, observed) == policy = "auto_update" \/ expect = observed
ShouldPersistObservedHostKey(expect, observed) == policy = "auto_update" /\ expect # observed

\* resolver.Resolve and the dial of the jump host: each may fail.
DialJump(d) ==
  /\ dial[d].step = "jump"
  /\ \/ /\ verifyHostKey(dial[d].viaExpect, dial[d].viaHost)
        /\ dial' = [dial EXCEPT ![d].step = "jumpKey"]
        /\ clients' = [clients EXCEPT ![d] = {"jump"}]
     \/ dial' = [dial EXCEPT ![d].step = "failed"] /\ UNCHANGED clients
  /\ UNCHANGED <<dialRest, fp>>

\* UpdateHostKey: no row, no change.
UpdateHostKey(s, observed) ==
  fp' = IF s \in rows THEN [fp EXCEPT ![s] = observed] ELSE fp

\* The observed key of the jump host; a failure closes the client.
DialJumpKey(d) ==
  /\ dial[d].step = "jumpKey"
  /\ IF ShouldPersistObservedHostKey(dial[d].viaExpect, dial[d].viaHost)
       THEN \/ /\ UpdateHostKey(dial[d].via, dial[d].viaHost)
               /\ dial' = [dial EXCEPT ![d].step = "commit"] /\ UNCHANGED clients
            \/ /\ dial' = [dial EXCEPT ![d].step = "failed"]
               /\ clients' = [clients EXCEPT ![d] = {}] /\ UNCHANGED fp
       ELSE dial' = [dial EXCEPT ![d].step = "commit"] /\ UNCHANGED <<fp, clients>>
  /\ UNCHANGED dialRest

\* CommitSuccessful of the jump host's credentials; a failure closes the client.
DialCommit(d) ==
  /\ dial[d].step = "commit"
  /\ \/ dial' = [dial EXCEPT ![d].step = "target"] /\ UNCHANGED clients
     \/ /\ dial' = [dial EXCEPT ![d].step = "failed"]
        /\ clients' = [clients EXCEPT ![d] = {}]
  /\ UNCHANGED <<dialRest, fp>>

\* dialDirect or DialThrough: a failure or the end of the context closes the jump
\* client too.
DialThrough(d) ==
  /\ dial[d].step = "target"
  /\ \/ /\ verifyHostKey(dial[d].expect, dial[d].host)
        /\ dial' = [dial EXCEPT ![d].step = "key"]
        /\ clients' = [clients EXCEPT ![d] = @ \cup {"target"}]
     \/ /\ dial' = [dial EXCEPT ![d].step = "failed"]
        /\ clients' = [clients EXCEPT ![d] = {}]
  /\ UNCHANGED <<dialRest, fp>>

\* The manager saves the observed key; its failure is only logged.
DialKey(d) ==
  /\ dial[d].step = "key"
  /\ dial' = [dial EXCEPT ![d].step = "open"]
  /\ \/ /\ ShouldPersistObservedHostKey(dial[d].expect, dial[d].host)
        /\ UpdateHostKey(dial[d].server, dial[d].host)
     \/ UNCHANGED fp
  /\ UNCHANGED <<dialRest, clients>>

\* Client.Close with its cleanup, and the end of a dial that failed.
Close(d) ==
  /\ dial[d].step \in {"open", "failed"}
  /\ dial' = [dial EXCEPT ![d] = NoDial]
  /\ clients' = [clients EXCEPT ![d] = IF dial[d].step = "open" THEN {} ELSE @]
  /\ UNCHANGED <<dialRest, fp>>

DialStep(d) ==
  DialRoute(d) \/ DialJump(d) \/ DialJumpKey(d) \/ DialCommit(d) \/ DialThrough(d) \/ DialKey(d) \/ Close(d)

Next ==
  \/ \E c \in Savers, s \in rows \cup {None}, r \in rows \cup {"direct"}, h \in Hosts : SaveConnection(c, s, r, h)
  \/ \E c \in Savers : SaveReads(c) \/ SaveWrites(c)
  \/ \E s \in Servers : DeleteConnection(s) \/ ClearHostKey(s)
  \/ \E d \in Dialers : (\E s \in rows : Dial(d, s)) \/ DialStep(d)

Spec == Init /\ [][Next]_vars

-----------------------------------------------------------------------------
\* A route never names a server that was deleted, whatever SaveConnection had
\* checked before the deletion.
JumpExists == \A s \in rows : route[s] \in rows \cup {"direct", None}

\* A fingerprint that is saved is the one of the row's address, so that strict
\* checking never refuses the right host; the exception is an address that was
\* edited while a dial to the old one was under way, which saves its key later.
FingerprintIsOfHost == \A s \in rows : fp[s] \in {None, host[s]} \/ s \in raced

\* A dial that has failed or is over holds no SSH client, the one of the jump host
\* included.
NoClientLeft == \A d \in Dialers : dial[d].step \in {"idle", "failed"} => clients[d] = {}

\* Servers, their routes and host keys stay consistent under calls that overlap
\* (SaveConnection, DeleteConnection, dialSSHConnection).
RoutesAreSound == TypeOK /\ JumpExists /\ FingerprintIsOfHost /\ NoClientLeft

=============================================================================
