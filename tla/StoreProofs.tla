----------------------------- MODULE StoreProofs ------------------------------
(***************************************************************************)
(* Proofs about what the program stores, side by side as in MCStore, for   *)
(* any names: the servers with their routes and host keys and the dials to *)
(* them (ServerRoutes), the terminal profiles with the settings that name  *)
(* the default one (TerminalProfiles), the saved passwords with their      *)
(* references (Credentials), and the history of commands (CommandHistory). *)
(***************************************************************************)
EXTENDS MCStore, FiniteSetTheorems, SequenceTheorems, TLAPS

\* The variables of MCStore, by the names that they have in the components.
policy == v1
rows == v2
gone == v3
route == v4
host == v5
fp == v6
save == v7
dial == v8
clients == v9
raced == v10
profiles == v1
default == v2
cache == v3
form == v4
assigned == v5
request == v6
stale == v7
overlap == v8

USE DEF policy, rows, gone, route, host, fp, save, dial, clients, raced,
        profiles, default, cache, form, assigned, request, stale, overlap

-----------------------------------------------------------------------------
\* Servers, their routes and host keys.

DialRecord ==
  [step : {"idle", "route", "jump", "jumpKey", "commit", "target", "key", "open", "failed"},
   server : Servers \cup {None}, route : Routes!Routes, host : Pair \cup {None}, expect : Pair \cup {None},
   via : Servers \cup {None}, viaHost : Pair \cup {None}, viaExpect : Pair \cup {None}]

RouteTypes == Routes!TypeOK /\ dial \in [Dialers -> DialRecord]

\* A fingerprint that a save keeps is the one of the address it writes.
KeepInv ==
  \A c \in Savers :
    /\ save[c].step = "read" => save[c].server # None
    /\ save[c].step = "write" => save[c].keep \in {None, save[c].host} \/ save[c].server \in raced

\* An address that a dial has read is still the row's, unless it was edited or the row deleted.
Read(s, h) == s \in rows \cup gone /\ (h = host[s] \/ s \in raced \cup gone)

AddressInv ==
  \A d \in Dialers : dial[d].step \notin {"idle", "open", "failed"} =>
    /\ Read(dial[d].server, dial[d].host)
    /\ dial[d].via # None => Read(dial[d].via, dial[d].viaHost)

\* A dial has a jump server while it works on one, and clients only after it.
JumpInv ==
  \A d \in Dialers :
    /\ dial[d].step \in {"jump", "jumpKey"} => dial[d].via # None
    /\ dial[d].step \in {"route", "jump"} => clients[d] = {}

RouteInv ==
  /\ RouteTypes /\ Routes!JumpExists /\ Routes!FingerprintIsOfHost /\ Routes!NoClientLeft
  /\ KeepInv /\ AddressInv /\ JumpInv

\* The tables and the calls, with their types.
LEMMA RouteFields ==
  ASSUME RouteTypes
  PROVE  /\ policy \in {"strict", "auto_update"}
         /\ rows \subseteq Servers /\ gone \subseteq Servers /\ rows \cap gone = {}
         /\ route \in [Servers -> Servers \cup {"direct", None}]
         /\ host \in [Servers -> Pair \cup {None}] /\ fp \in [Servers -> Pair \cup {None}]
         /\ save \in [Savers -> [step : {"idle", "read", "write"}, server : Servers \cup {None},
                                 route : Servers \cup {"direct", None}, host : Pair \cup {None}, keep : Pair \cup {None}]]
         /\ dial \in [Dialers -> DialRecord]
         /\ clients \in [Dialers -> SUBSET {"jump", "target"}]
         /\ raced \subseteq Servers
  BY DEF RouteTypes, Routes!TypeOK, Routes!Routes

\* SaveConnection begins.
LEMMA SaveConnectionKeeps ==
  ASSUME RouteInv, NEW c \in Savers, NEW s \in rows \cup {None}, NEW r \in rows \cup {"direct"},
         NEW h \in Pair, Routes!SaveConnection(c, s, r, h)
  PROVE  RouteInv'
<1> DEFINE w == [step |-> IF s = None THEN "write" ELSE "read", server |-> s, route |-> r, host |-> h, keep |-> None]
<1>1. /\ save' = [save EXCEPT ![c] = w]
      /\ UNCHANGED <<policy, rows, gone, route, host, fp, dial, clients, raced>>
  BY DEF Routes!SaveConnection, Routes!tables, Routes!dialVars
<1>2. RouteTypes /\ Routes!JumpExists /\ Routes!FingerprintIsOfHost /\ Routes!NoClientLeft /\ KeepInv /\ AddressInv /\ JumpInv
  BY DEF RouteInv
<1>3. /\ w \in [step : {"idle", "read", "write"}, server : Servers \cup {None},
                route : Routes!Routes, host : Pair \cup {None}, keep : Pair \cup {None}]
      /\ w.step = "read" => w.server # None
      /\ w.keep = None
  BY <1>2, RouteFields DEF Routes!Routes
<1> HIDE DEF w
<1>4. RouteTypes'
  BY <1>1, <1>2, <1>3 DEF RouteTypes, Routes!TypeOK
<1>5. KeepInv'
  BY <1>1, <1>2, <1>3, RouteFields DEF KeepInv
<1>6. Routes!JumpExists' /\ Routes!FingerprintIsOfHost' /\ Routes!NoClientLeft' /\ AddressInv' /\ JumpInv'
  BY <1>1, <1>2 DEF Routes!JumpExists, Routes!FingerprintIsOfHost, Routes!NoClientLeft, AddressInv, Read, JumpInv
<1>7. QED
  BY <1>4, <1>5, <1>6 DEF RouteInv

\* It reads the row that is there.
LEMMA SaveReadsKeeps ==
  ASSUME RouteInv, NEW c \in Savers, Routes!SaveReads(c)
  PROVE  RouteInv'
<1> DEFINE keep == IF host[save[c].server] = save[c].host THEN fp[save[c].server] ELSE None
           w == [save[c] EXCEPT !.step = "write", !.keep = keep]
           v == IF save[c].server \notin rows THEN Routes!NoSave ELSE w
<1>1. /\ save[c].step = "read" /\ save' = [save EXCEPT ![c] = v]
      /\ UNCHANGED <<policy, rows, gone, route, host, fp, dial, clients, raced>>
  BY DEF Routes!SaveReads, Routes!tables, Routes!dialVars
<1>2. RouteTypes /\ Routes!JumpExists /\ Routes!FingerprintIsOfHost /\ Routes!NoClientLeft /\ KeepInv /\ AddressInv /\ JumpInv
  BY DEF RouteInv
<1>3. /\ save[c] \in [step : {"idle", "read", "write"}, server : Servers \cup {None},
                      route : Routes!Routes, host : Pair \cup {None}, keep : Pair \cup {None}]
      /\ save[c].server # None
  BY <1>1, <1>2 DEF KeepInv, RouteTypes, Routes!TypeOK
<1>4. save[c].server \in rows => keep \in Pair \cup {None} /\ (keep \in {None, save[c].host} \/ save[c].server \in raced)
  BY <1>2, <1>3, RouteFields DEF Routes!FingerprintIsOfHost
<1> HIDE DEF keep
<1>5. /\ v \in [step : {"idle", "read", "write"}, server : Servers \cup {None},
                route : Routes!Routes, host : Pair \cup {None}, keep : Pair \cup {None}]
      /\ v.step \in {"idle", "write"}
      /\ v.step = "write" => v.keep \in {None, v.host} \/ v.server \in raced
  <2>1. CASE save[c].server \notin rows
    BY <2>1 DEF Routes!NoSave, Routes!Routes
  <2>2. CASE save[c].server \in rows
    <3>1. v = w /\ w.step = "write" /\ w.keep = keep /\ w.host = save[c].host /\ w.server = save[c].server
      BY <2>2, <1>3
    <3>2. w \in [step : {"idle", "read", "write"}, server : Servers \cup {None},
                 route : Routes!Routes, host : Pair \cup {None}, keep : Pair \cup {None}]
      BY <1>3, <1>4, <2>2
    <3> HIDE DEF w, v
    <3>3. QED
      BY <3>1, <3>2, <1>4, <2>2
  <2>3. QED
    BY <2>1, <2>2
<1> HIDE DEF v
<1>6. RouteTypes'
  BY <1>1, <1>2, <1>5 DEF RouteTypes, Routes!TypeOK
<1>7. KeepInv'
  BY <1>1, <1>2, <1>5, RouteFields DEF KeepInv
<1>8. Routes!JumpExists' /\ Routes!FingerprintIsOfHost' /\ Routes!NoClientLeft' /\ AddressInv' /\ JumpInv'
  BY <1>1, <1>2 DEF Routes!JumpExists, Routes!FingerprintIsOfHost, Routes!NoClientLeft, AddressInv, Read, JumpInv
<1>9. QED
  BY <1>6, <1>7, <1>8 DEF RouteInv

\* It writes the row, which may be a new one; or a server has gone meanwhile.
LEMMA SaveWritesKeeps ==
  ASSUME RouteInv, NEW c \in Savers, Routes!SaveWrites(c)
  PROVE  RouteInv'
<1>1. RouteTypes /\ Routes!JumpExists /\ Routes!FingerprintIsOfHost /\ Routes!NoClientLeft /\ KeepInv /\ AddressInv /\ JumpInv
  BY DEF RouteInv
<1>2. /\ save[c].step = "write" /\ save' = [save EXCEPT ![c] = Routes!NoSave]
      /\ UNCHANGED <<policy, gone, dial, clients>>
  BY DEF Routes!SaveWrites, Routes!dialVars
<1>3. Routes!NoSave \in [step : {"idle", "read", "write"}, server : Servers \cup {None},
                         route : Routes!Routes, host : Pair \cup {None}, keep : Pair \cup {None}]
  BY DEF Routes!NoSave, Routes!Routes
<1>4. CASE UNCHANGED <<rows, route, host, fp, raced>>
  <2>1. RouteTypes'
    BY <1>1, <1>2, <1>3, <1>4 DEF RouteTypes, Routes!TypeOK
  <2>2. KeepInv'
    BY <1>1, <1>2, <1>4, RouteFields DEF KeepInv, Routes!NoSave
  <2>3. Routes!JumpExists' /\ Routes!FingerprintIsOfHost' /\ Routes!NoClientLeft' /\ AddressInv' /\ JumpInv'
    BY <1>1, <1>2, <1>4 DEF Routes!JumpExists, Routes!FingerprintIsOfHost, Routes!NoClientLeft, AddressInv, Read, JumpInv
  <2>4. QED
    BY <2>1, <2>2, <2>3 DEF RouteInv
<1>5. ASSUME save[c].route \in rows \cup {"direct"}, NEW s \in Servers,
             IF save[c].server = None THEN s \notin rows \cup gone ELSE s = save[c].server /\ s \in rows,
             rows' = rows \cup {s},
             route' = [route EXCEPT ![s] = save[c].route],
             host' = [host EXCEPT ![s] = save[c].host],
             fp' = [fp EXCEPT ![s] = save[c].keep],
             raced' = IF Routes!Using(s) /\ host[s] # save[c].host THEN raced \cup {s} ELSE raced
      PROVE  RouteInv'
  <2>1. /\ save[c].host \in Pair \cup {None} /\ save[c].keep \in Pair \cup {None}
        /\ save[c].route \in Servers \cup {"direct", None}
        /\ save[c].keep \in {None, save[c].host} \/ s \in raced
        /\ raced \subseteq raced' /\ raced' \subseteq raced \cup {s}
        /\ s \notin gone
    BY <1>1, <1>2, <1>5, RouteFields, NameAssumption DEF KeepInv
  <2>2. RouteTypes'
    <3>1. /\ rows' \subseteq Servers /\ rows' \cap gone = {} /\ raced' \subseteq Servers
          /\ route' \in [Servers -> Routes!Routes]
          /\ host' \in [Servers -> Pair \cup {None}] /\ fp' \in [Servers -> Pair \cup {None}]
      BY <1>1, <1>5, <2>1, RouteFields DEF Routes!Routes
    <3>2. save' \in [Savers -> [step : {"idle", "read", "write"}, server : Servers \cup {None},
                                route : Routes!Routes, host : Pair \cup {None}, keep : Pair \cup {None}]]
      BY <1>1, <1>2, <1>3 DEF RouteTypes, Routes!TypeOK
    <3>3. QED
      BY <1>1, <1>2, <3>1, <3>2 DEF RouteTypes, Routes!TypeOK
  <2>3. KeepInv'
    BY <1>1, <1>2, <2>1, RouteFields DEF KeepInv, Routes!NoSave
  <2>4. Routes!JumpExists'
    BY <1>1, <1>5, RouteFields DEF Routes!JumpExists
  <2>5. Routes!FingerprintIsOfHost'
    BY <1>1, <1>5, <2>1, RouteFields DEF Routes!FingerprintIsOfHost
  <2>6. AddressInv'
    <3>1. ASSUME NEW t, NEW h, Read(t, h), host[s] = save[c].host \/ t # s \/ s \in raced' PROVE Read(t, h)'
      BY <1>2, <1>5, <2>1, <3>1, RouteFields, <1>1 DEF Read
    <3>2. ASSUME NEW d \in Dialers, dial[d].step \notin {"idle", "open", "failed"}, NEW t \in {dial[d].server, dial[d].via}
          PROVE  host[s] = save[c].host \/ t # s \/ s \in raced'
      BY <1>5, <3>2 DEF Routes!Using
    <3>3. QED
      BY <1>1, <1>2, <3>1, <3>2 DEF AddressInv
  <2>7. Routes!NoClientLeft' /\ JumpInv'
    BY <1>1, <1>2 DEF Routes!NoClientLeft, JumpInv
  <2>8. QED
    BY <2>2, <2>3, <2>4, <2>5, <2>6, <2>7 DEF RouteInv
<1>6. QED
  BY <1>4, <1>5 DEF Routes!SaveWrites

\* A server is deleted, with its key and the routes through it.
LEMMA DeleteConnectionKeeps ==
  ASSUME RouteInv, NEW s \in Servers, Routes!DeleteConnection(s)
  PROVE  RouteInv'
<1>1. RouteTypes /\ Routes!JumpExists /\ Routes!FingerprintIsOfHost /\ Routes!NoClientLeft /\ KeepInv /\ AddressInv /\ JumpInv
  BY DEF RouteInv
<1>2. /\ s \in rows /\ rows' = rows \ {s} /\ gone' = gone \cup {s}
      /\ route' = [t \in Servers |-> IF t = s THEN "direct" ELSE IF route[t] = s THEN None ELSE route[t]]
      /\ host' = [host EXCEPT ![s] = None] /\ fp' = [fp EXCEPT ![s] = None]
      /\ UNCHANGED <<policy, save, dial, clients, raced>>
  BY DEF Routes!DeleteConnection, Routes!dialVars
<1>3. RouteTypes'
  <2>1. /\ rows' \subseteq Servers /\ gone' \subseteq Servers /\ rows' \cap gone' = {}
        /\ route' \in [Servers -> Routes!Routes]
        /\ host' \in [Servers -> Pair \cup {None}] /\ fp' \in [Servers -> Pair \cup {None}]
    BY <1>1, <1>2, RouteFields DEF Routes!Routes
  <2>2. QED
    BY <1>1, <1>2, <2>1 DEF RouteTypes, Routes!TypeOK
<1>4. Routes!JumpExists'
  BY <1>1, <1>2, RouteFields DEF Routes!JumpExists
<1>5. Routes!FingerprintIsOfHost'
  BY <1>1, <1>2, RouteFields DEF Routes!FingerprintIsOfHost
<1>6. AddressInv'
  <2>1. ASSUME NEW t, NEW h, Read(t, h) PROVE Read(t, h)'
    BY <1>1, <1>2, <2>1, RouteFields DEF Read
  <2>2. QED
    BY <1>1, <1>2, <2>1 DEF AddressInv
<1>7. KeepInv' /\ Routes!NoClientLeft' /\ JumpInv'
  BY <1>1, <1>2 DEF KeepInv, Routes!NoClientLeft, JumpInv
<1>8. QED
  BY <1>3, <1>4, <1>5, <1>6, <1>7 DEF RouteInv

\* A fingerprint that is cleared, or saved for the row's address.
LEMMA FingerprintKeeps ==
  ASSUME RouteTypes, Routes!FingerprintIsOfHost, NEW s \in Servers, NEW k \in Pair \cup {None},
         k \in {None, host[s]} \/ s \in raced \/ s \notin rows,
         fp' = [fp EXCEPT ![s] = k], UNCHANGED <<rows, host, raced>>
  PROVE  fp' \in [Servers -> Pair \cup {None}] /\ Routes!FingerprintIsOfHost'
BY RouteFields DEF Routes!FingerprintIsOfHost

\* The user forgets the key of a server.
LEMMA ClearHostKeyKeeps ==
  ASSUME RouteInv, NEW s \in Servers, Routes!ClearHostKey(s)
  PROVE  RouteInv'
<1>1. RouteTypes /\ Routes!JumpExists /\ Routes!FingerprintIsOfHost /\ Routes!NoClientLeft /\ KeepInv /\ AddressInv /\ JumpInv
  BY DEF RouteInv
<1>2. fp' = [fp EXCEPT ![s] = None] /\ UNCHANGED <<policy, rows, gone, route, host, save, dial, clients, raced>>
  BY DEF Routes!ClearHostKey, Routes!dialVars
<1>3. fp' \in [Servers -> Pair \cup {None}] /\ Routes!FingerprintIsOfHost'
  BY <1>1, <1>2, FingerprintKeeps
<1>4. RouteTypes'
  BY <1>1, <1>2, <1>3 DEF RouteTypes, Routes!TypeOK
<1>5. Routes!JumpExists' /\ Routes!NoClientLeft' /\ KeepInv' /\ AddressInv' /\ JumpInv'
  BY <1>1, <1>2 DEF Routes!JumpExists, Routes!NoClientLeft, KeepInv, AddressInv, Read, JumpInv
<1>6. QED
  BY <1>3, <1>4, <1>5 DEF RouteInv

\* A dial takes a step that is allowed with what it has read.
LEMMA DialKeeps ==
  ASSUME RouteInv, NEW d \in Dialers, NEW r \in DialRecord, NEW k \in SUBSET {"jump", "target"},
         dial' = [dial EXCEPT ![d] = r], clients' = [clients EXCEPT ![d] = k],
         fp' \in [Servers -> Pair \cup {None}], Routes!FingerprintIsOfHost',
         UNCHANGED <<policy, rows, gone, route, host, save, raced>>,
         r.step \notin {"idle", "open", "failed"} => Read(r.server, r.host) /\ (r.via # None => Read(r.via, r.viaHost)),
         r.step \in {"jump", "jumpKey"} => r.via # None,
         r.step \in {"idle", "route", "jump", "failed"} => k = {}
  PROVE  RouteInv'
<1>1. RouteTypes /\ Routes!JumpExists /\ Routes!NoClientLeft /\ KeepInv /\ AddressInv /\ JumpInv
  BY DEF RouteInv
<1>2. dial' \in [Dialers -> DialRecord] /\ clients' \in [Dialers -> SUBSET {"jump", "target"}]
  BY <1>1, RouteFields
<1>3. RouteTypes'
  <2>1. \A e \in Dialers : dial'[e].step \in {"idle", "route", "jump", "jumpKey", "commit", "target", "key", "open", "failed"}
    BY <1>2 DEF DialRecord
  <2>2. QED
    BY <1>1, <1>2, <2>1 DEF RouteTypes, Routes!TypeOK
<1>4. Routes!JumpExists' /\ KeepInv'
  BY <1>1 DEF Routes!JumpExists, KeepInv
<1>5. Routes!NoClientLeft' /\ JumpInv'
  BY <1>1, RouteFields DEF Routes!NoClientLeft, JumpInv
<1>6. AddressInv'
  <2>1. \A t, h : Read(t, h) => Read(t, h)'
    BY DEF Read
  <2>2. QED
    BY <1>1, <2>1, RouteFields DEF AddressInv
<1>7. QED
  BY <1>3, <1>4, <1>5, <1>6 DEF RouteInv

\* What is known of a dial.
LEMMA DialKnown ==
  ASSUME RouteInv, NEW d \in Dialers
  PROVE  /\ dial[d] \in DialRecord /\ clients[d] \in SUBSET {"jump", "target"}
         /\ fp \in [Servers -> Pair \cup {None}] /\ Routes!FingerprintIsOfHost
         /\ dial[d].step \notin {"idle", "open", "failed"} =>
              /\ Read(dial[d].server, dial[d].host)
              /\ dial[d].via # None => Read(dial[d].via, dial[d].viaHost)
         /\ dial[d].step \in {"jump", "jumpKey"} => dial[d].via # None
         /\ dial[d].step \in {"route", "jump", "idle", "failed"} => clients[d] = {}
<1>1. RouteTypes /\ Routes!FingerprintIsOfHost /\ Routes!NoClientLeft /\ AddressInv /\ JumpInv
  BY DEF RouteInv
<1>2. QED
  BY <1>1, RouteFields DEF Routes!NoClientLeft, AddressInv, JumpInv

\* A dial goes on with what it has read, or fails with its clients closed.
LEMMA StepKeeps ==
  ASSUME RouteInv, NEW d \in Dialers, NEW s \in {"jumpKey", "commit", "target", "key", "open", "failed"},
         NEW k \in SUBSET {"jump", "target"},
         dial' = [dial EXCEPT ![d].step = s], clients' = [clients EXCEPT ![d] = k],
         fp' \in [Servers -> Pair \cup {None}], Routes!FingerprintIsOfHost',
         UNCHANGED <<policy, rows, gone, route, host, save, raced>>,
         dial[d].step \notin {"idle", "open", "failed"}, s = "jumpKey" => dial[d].step = "jump",
         s = "failed" => k = {}
  PROVE  RouteInv'
<1> DEFINE r == [dial[d] EXCEPT !.step = s]
<1>1. dial' = [dial EXCEPT ![d] = r]
  OBVIOUS
<1>2. /\ r \in DialRecord /\ r.step = s /\ r.server = dial[d].server /\ r.host = dial[d].host
      /\ r.via = dial[d].via /\ r.viaHost = dial[d].viaHost
  BY DialKnown DEF DialRecord
<1> HIDE DEF r
<1>3. QED
  BY <1>1, <1>2, DialKnown, DialKeeps

\* A connection is read and dialled.
LEMMA DialBegins ==
  ASSUME RouteInv, NEW d \in Dialers, NEW s \in rows, Routes!Dial(d, s)
  PROVE  RouteInv'
<1> DEFINE r == [Routes!NoDial EXCEPT !.step = "route", !.server = s, !.route = route[s],
                                     !.host = host[s], !.expect = fp[s]]
<1>1. /\ dial[d].step = "idle" /\ dial' = [dial EXCEPT ![d] = r]
      /\ UNCHANGED <<policy, rows, gone, route, host, fp, save, raced, clients>>
  BY DEF Routes!Dial, Routes!dialRest
<1>2. RouteTypes
  BY DEF RouteInv
<1>3. s \in Servers /\ route[s] \in Routes!Routes /\ host[s] \in Pair \cup {None} /\ fp[s] \in Pair \cup {None}
  BY <1>2, RouteFields DEF Routes!Routes
<1>4. /\ r \in DialRecord /\ r.step = "route" /\ r.server = s /\ r.host = host[s] /\ r.via = None
  BY <1>3 DEF Routes!NoDial, DialRecord
<1> HIDE DEF r
<1>5. clients' = [clients EXCEPT ![d] = clients[d]]
  BY <1>1, <1>2, RouteFields
<1>6. Read(r.server, r.host)
  BY <1>4 DEF Read
<1>7. fp' \in [Servers -> Pair \cup {None}] /\ Routes!FingerprintIsOfHost'
  BY <1>1, DialKnown DEF Routes!FingerprintIsOfHost
<1>8. QED
  BY <1>1, <1>4, <1>5, <1>6, <1>7, DialKnown, DialKeeps

\* The route dialer looks for the jump server.
LEMMA DialRouteKeeps ==
  ASSUME RouteInv, NEW d \in Dialers, Routes!DialRoute(d)
  PROVE  RouteInv'
<1> DEFINE j == dial[d].route
           r == [dial[d] EXCEPT !.step = "jump", !.via = j, !.viaHost = host[j], !.viaExpect = fp[j]]
<1>0. RouteTypes /\ "direct" \notin rows
  BY RouteFields, NameAssumption DEF RouteInv
<1>1. /\ dial[d].step = "route"
      /\ UNCHANGED <<policy, rows, gone, route, host, fp, save, raced, clients>>
  BY DEF Routes!DialRoute, Routes!dialRest
<1>2. \/ dial' = [dial EXCEPT ![d].step = "target"]
      \/ dial' = [dial EXCEPT ![d].step = "failed"]
      \/ j \in rows /\ dial' = [dial EXCEPT ![d] = r]
  <2>1. CASE j = "direct"
    BY <1>0, <2>1 DEF Routes!DialRoute
  <2>2. CASE j # "direct" /\ j \in rows /\ route[j] = "direct"
    BY <2>2 DEF Routes!DialRoute
  <2>3. CASE j # "direct" /\ ~(j \in rows /\ route[j] = "direct")
    BY <2>3 DEF Routes!DialRoute
  <2>4. QED
    BY <2>1, <2>2, <2>3
<1>4. clients' = [clients EXCEPT ![d] = {}] /\ fp' \in [Servers -> Pair \cup {None}] /\ Routes!FingerprintIsOfHost'
  BY <1>0, <1>1, DialKnown, RouteFields DEF Routes!FingerprintIsOfHost
<1>5. CASE dial' = [dial EXCEPT ![d].step = "target"] \/ dial' = [dial EXCEPT ![d].step = "failed"]
  BY <1>1, <1>4, <1>5, StepKeeps
<1>6. CASE j \in rows /\ dial' = [dial EXCEPT ![d] = r]
  <2>1. j \in Servers /\ j # None /\ host[j] \in Pair \cup {None} /\ fp[j] \in Pair \cup {None}
    BY <1>0, <1>6, RouteFields, NameAssumption
  <2>2. /\ r \in DialRecord /\ r.step = "jump" /\ r.server = dial[d].server /\ r.host = dial[d].host
        /\ r.via = j /\ r.viaHost = host[j]
    BY <2>1, DialKnown DEF DialRecord
  <2> HIDE DEF r
  <2>3. Read(r.via, r.viaHost)
    BY <1>6, <2>2 DEF Read
  <2>4. QED
    BY <1>1, <1>4, <1>6, <2>1, <2>2, <2>3, DialKnown, DialKeeps
<1>7. QED
  BY <1>2, <1>5, <1>6

\* The key of a host is saved, if the row is still there.
LEMMA UpdateHostKeyKeeps ==
  ASSUME RouteInv, NEW s, NEW h \in Pair \cup {None}, Read(s, h), Routes!UpdateHostKey(s, h),
         UNCHANGED <<rows, host, raced>>
  PROVE  fp' \in [Servers -> Pair \cup {None}] /\ Routes!FingerprintIsOfHost'
<1>1. RouteTypes /\ Routes!FingerprintIsOfHost
  BY DEF RouteInv
<1>2. CASE s \in rows
  <2>1. s \in Servers /\ fp' = [fp EXCEPT ![s] = h] /\ (h = host[s] \/ s \in raced)
    BY <1>1, <1>2, RouteFields DEF Routes!UpdateHostKey, Read
  <2>2. QED
    BY <1>1, <2>1, FingerprintKeeps
<1>3. CASE s \notin rows
  BY <1>1, <1>3, RouteFields DEF Routes!UpdateHostKey, Routes!FingerprintIsOfHost
<1>4. QED
  BY <1>2, <1>3

\* The steps of a dial after its route.
LEMMA DialStepKeeps ==
  ASSUME RouteInv, NEW d \in Dialers,
         \/ Routes!DialJump(d) \/ Routes!DialJumpKey(d) \/ Routes!DialCommit(d)
         \/ Routes!DialThrough(d) \/ Routes!DialKey(d)
  PROVE  RouteInv'
<1> DEFINE Same == fp' \in [Servers -> Pair \cup {None}] /\ Routes!FingerprintIsOfHost'
<1>1. UNCHANGED <<policy, rows, gone, route, host, save, raced>>
  BY DEF Routes!DialJump, Routes!DialJumpKey, Routes!DialCommit, Routes!DialThrough, Routes!DialKey, Routes!dialRest
<1>2. fp' = fp => Same
  BY <1>1, DialKnown DEF Routes!FingerprintIsOfHost
<1>3. RouteTypes
  BY DEF RouteInv
<1>4. clients' = clients => clients' = [clients EXCEPT ![d] = clients[d]]
  BY <1>3, RouteFields
<1>5. ASSUME NEW k \in SUBSET {"jump", "target"}, clients' = [clients EXCEPT ![d] = k], Same,
             dial[d].step \notin {"idle", "open", "failed"},
             NEW s \in {"jumpKey", "commit", "target", "key", "open", "failed"}, dial' = [dial EXCEPT ![d].step = s],
             s = "jumpKey" => dial[d].step = "jump", s = "failed" => k = {}
      PROVE  RouteInv'
  BY <1>1, <1>5, StepKeeps
<1> HIDE DEF Same
<1>6. CASE Routes!DialJump(d)
  <2>1. dial[d].step = "jump" /\ Same /\ clients[d] = {}
    BY <1>2, <1>6, DialKnown DEF Routes!DialJump
  <2>2. \/ dial' = [dial EXCEPT ![d].step = "jumpKey"] /\ clients' = [clients EXCEPT ![d] = {"jump"}]
        \/ dial' = [dial EXCEPT ![d].step = "failed"] /\ clients' = [clients EXCEPT ![d] = {}]
    BY <1>4, <1>6, <2>1 DEF Routes!DialJump
  <2>3. QED
    BY <1>5, <2>1, <2>2
<1>7. CASE Routes!DialJumpKey(d)
  <2>1. dial[d].step = "jumpKey" /\ clients[d] \in SUBSET {"jump", "target"}
    BY <1>7, DialKnown DEF Routes!DialJumpKey
  <2>2. \/ dial' = [dial EXCEPT ![d].step = "commit"] /\ clients' = clients
        \/ dial' = [dial EXCEPT ![d].step = "failed"] /\ clients' = [clients EXCEPT ![d] = {}]
    BY <1>7 DEF Routes!DialJumpKey
  <2>3. Routes!UpdateHostKey(dial[d].via, dial[d].viaHost) \/ fp' = fp
    BY <1>7 DEF Routes!DialJumpKey
  <2>4. Read(dial[d].via, dial[d].viaHost) /\ dial[d].viaHost \in Pair \cup {None}
    BY <2>1, DialKnown DEF DialRecord
  <2>5. Same
    BY <1>1, <1>2, <2>3, <2>4, UpdateHostKeyKeeps DEF Same
  <2>6. QED
    BY <1>4, <1>5, <2>1, <2>2, <2>5
<1>8. CASE Routes!DialCommit(d)
  <2>1. dial[d].step = "commit" /\ Same /\ clients[d] \in SUBSET {"jump", "target"}
    BY <1>2, <1>8, DialKnown DEF Routes!DialCommit
  <2>2. \/ dial' = [dial EXCEPT ![d].step = "target"] /\ clients' = clients
        \/ dial' = [dial EXCEPT ![d].step = "failed"] /\ clients' = [clients EXCEPT ![d] = {}]
    BY <1>8 DEF Routes!DialCommit
  <2>3. QED
    BY <1>4, <1>5, <2>1, <2>2
<1>9. CASE Routes!DialThrough(d)
  <2>1. dial[d].step = "target" /\ Same /\ clients[d] \in SUBSET {"jump", "target"}
    BY <1>2, <1>9, DialKnown DEF Routes!DialThrough
  <2>2. \/ dial' = [dial EXCEPT ![d].step = "key"] /\ clients' = [clients EXCEPT ![d] = clients[d] \cup {"target"}]
        \/ dial' = [dial EXCEPT ![d].step = "failed"] /\ clients' = [clients EXCEPT ![d] = {}]
    BY <1>9 DEF Routes!DialThrough
  <2>3. clients[d] \cup {"target"} \in SUBSET {"jump", "target"}
    BY <2>1
  <2>4. QED
    BY <1>5, <2>1, <2>2, <2>3
<1>10. CASE Routes!DialKey(d)
  <2>1. dial[d].step = "key" /\ dial' = [dial EXCEPT ![d].step = "open"] /\ clients' = clients
    BY <1>10 DEF Routes!DialKey
  <2>2. Routes!UpdateHostKey(dial[d].server, dial[d].host) \/ fp' = fp
    BY <1>10 DEF Routes!DialKey
  <2>3. Read(dial[d].server, dial[d].host) /\ dial[d].host \in Pair \cup {None} /\ clients[d] \in SUBSET {"jump", "target"}
    BY <2>1, DialKnown DEF DialRecord
  <2>4. Same
    BY <1>1, <1>2, <2>2, <2>3, UpdateHostKeyKeeps DEF Same
  <2>5. QED
    BY <1>4, <1>5, <2>1, <2>3, <2>4
<1>11. QED
  BY <1>6, <1>7, <1>8, <1>9, <1>10

\* A connection is closed, or a dial that failed is over.
LEMMA CloseKeeps ==
  ASSUME RouteInv, NEW d \in Dialers, Routes!Close(d)
  PROVE  RouteInv'
<1>1. /\ dial[d].step \in {"open", "failed"} /\ dial' = [dial EXCEPT ![d] = Routes!NoDial]
      /\ clients' = [clients EXCEPT ![d] = IF dial[d].step = "open" THEN {} ELSE clients[d]]
      /\ UNCHANGED <<policy, rows, gone, route, host, fp, save, raced>>
  BY DEF Routes!Close, Routes!dialRest
<1>2. clients' = [clients EXCEPT ![d] = {}]
  BY <1>1, DialKnown
<1>3. Routes!NoDial \in DialRecord /\ Routes!NoDial.step = "idle"
  BY DEF Routes!NoDial, DialRecord, Routes!Routes
<1>4. fp' \in [Servers -> Pair \cup {None}] /\ Routes!FingerprintIsOfHost'
  BY <1>1, DialKnown DEF Routes!FingerprintIsOfHost
<1>5. QED
  BY <1>1, <1>2, <1>3, <1>4, DialKeeps

\* Every step keeps the invariant.
LEMMA RouteStep ==
  ASSUME RouteInv, [Routes!Next]_(Routes!vars)
  PROVE  RouteInv'
<1>1. CASE UNCHANGED Routes!vars
  BY <1>1 DEF Routes!vars, RouteInv, RouteTypes, Routes!TypeOK, Routes!JumpExists, Routes!FingerprintIsOfHost,
     Routes!NoClientLeft, KeepInv, AddressInv, Read, JumpInv
<1>2. CASE \E c \in Savers, s \in rows \cup {None}, r \in rows \cup {"direct"}, h \in Pair : Routes!SaveConnection(c, s, r, h)
  BY <1>2, SaveConnectionKeeps
<1>3. CASE \E c \in Savers : Routes!SaveReads(c) \/ Routes!SaveWrites(c)
  BY <1>3, SaveReadsKeeps, SaveWritesKeeps
<1>4. CASE \E s \in Servers : Routes!DeleteConnection(s) \/ Routes!ClearHostKey(s)
  BY <1>4, DeleteConnectionKeeps, ClearHostKeyKeeps
<1>5. CASE \E d \in Dialers : (\E s \in rows : Routes!Dial(d, s)) \/ Routes!DialStep(d)
  BY <1>5, DialBegins, DialRouteKeeps, DialStepKeeps, CloseKeeps DEF Routes!DialStep
<1>6. QED
  BY <1>1, <1>2, <1>3, <1>4, <1>5 DEF Routes!Next

\* It holds of an empty database.
LEMMA RouteInit ==
  ASSUME Routes!Init
  PROVE  RouteInv
<1>1. /\ rows = {} /\ gone = {} /\ raced = {} /\ policy \in {"strict", "auto_update"}
      /\ route \in [Servers -> Routes!Routes]
      /\ host \in [Servers -> Pair \cup {None}] /\ fp \in [Servers -> Pair \cup {None}]
      /\ clients = [d \in Dialers |-> {}]
  BY DEF Routes!Init, Routes!Routes
<1>2. /\ \A c \in Savers : save[c].step = "idle"
      /\ save \in [Savers -> [step : {"idle", "read", "write"}, server : Servers \cup {None},
                              route : Routes!Routes, host : Pair \cup {None}, keep : Pair \cup {None}]]
  BY DEF Routes!Init, Routes!NoSave, Routes!Routes
<1>3. (\A d \in Dialers : dial[d].step = "idle") /\ dial \in [Dialers -> DialRecord]
  BY DEF Routes!Init, Routes!NoDial, DialRecord, Routes!Routes
<1>4. RouteTypes
  BY <1>1, <1>2, <1>3 DEF RouteTypes, Routes!TypeOK
<1>5. Routes!JumpExists /\ Routes!FingerprintIsOfHost /\ Routes!NoClientLeft /\ KeepInv /\ AddressInv /\ JumpInv
  BY <1>1, <1>2, <1>3 DEF Routes!JumpExists, Routes!FingerprintIsOfHost, Routes!NoClientLeft, KeepInv, AddressInv, JumpInv
<1>6. QED
  BY <1>4, <1>5 DEF RouteInv

\* A route names a server that exists, a fingerprint is of the row's host unless its address was
\* edited under a dial, and a dial that failed or ended holds no client, the one of the jump
\* host included (SaveConnection, DeleteConnection, dialSSHConnection).
THEOREM RoutesSound == Spec => []RoutesAreSound
<1> DEFINE Inv == part = "routes" => RouteInv
<1>1. Init => Inv
  BY RouteInit DEF Init
<1>2. Inv /\ [Next]_vars => Inv'
  <2>1. [Next]_vars /\ part' = "routes" => part = "routes" /\ [Routes!Next]_(Routes!vars)
    BY DEF Next, vars, Routes!vars
  <2>2. QED
    BY <2>1, RouteStep
<1>3. Inv => RoutesAreSound
  BY DEF RoutesAreSound, Routes!RoutesAreSound, RouteInv, RouteTypes
<1>4. QED
  BY <1>1, <1>2, <1>3, PTL DEF Spec

-----------------------------------------------------------------------------
\* Terminal profiles.

RequestRecord ==
  [step : {"idle", "default", "reload", "cache", "assign"},
   profile : Profiles!All \cup {None}, server : Machines \cup {None}]

\* A call that writes a profile has one to write, and a server to assign it to.
RequestInv ==
  \A r \in Pair :
    /\ request[r].step \in {"default", "cache", "assign"} => request[r].profile \in Profiles!All
    /\ request[r].step = "assign" => request[r].server \in Machines

\* The default is a profile that exists, but for one that had gone when it was written.
DefaultInv == default \in profiles \/ stale

\* Without an overlap one call at a time changes the settings, and the service has the stored
\* ones, or that call is about to give them to it.
Changes(r) == request[r].step \in {"default", "reload", "cache"}

ChangeInv ==
  ~overlap =>
    /\ \A q, r \in Pair : Changes(q) /\ Changes(r) => q = r
    /\ \A r \in Pair : request[r].step = "cache" => request[r].profile = default
    /\ (\A r \in Pair : request[r].step \notin {"reload", "cache"}) => cache = default

ProfileInv == Profiles!TypeOK /\ RequestInv /\ DefaultInv /\ ChangeInv

\* A call goes on: what it has to write is a profile, and it is in nobody's way.
LEMMA RequestKeeps ==
  ASSUME ProfileInv, NEW r \in Pair, NEW w \in RequestRecord, request' = [request EXCEPT ![r] = w],
         w.step \in {"default", "cache", "assign"} => w.profile \in Profiles!All,
         w.step = "assign" => w.server \in Machines
  PROVE  request' \in [Pair -> RequestRecord] /\ RequestInv'
<1>1. request \in [Pair -> RequestRecord] /\ RequestInv
  BY DEF ProfileInv, Profiles!TypeOK, RequestRecord
<1>2. \A q \in Pair : request'[q] = IF q = r THEN w ELSE request[q]
  BY <1>1
<1>3. request' \in [Pair -> RequestRecord]
  BY <1>1
<1>4. RequestInv'
  <2>1. SUFFICES ASSUME NEW q \in Pair
                 PROVE  /\ request'[q].step \in {"default", "cache", "assign"} => request'[q].profile \in Profiles!All
                        /\ request'[q].step = "assign" => request'[q].server \in Machines
    BY DEF RequestInv, Profiles!All
  <2>2. QED
    BY <1>1, <1>2 DEF RequestInv
<1>5. QED
  BY <1>3, <1>4

\* A profile is created or deleted.
LEMMA TableKeeps ==
  ASSUME ProfileInv, NEW p \in Servers,
         Profiles!CreateTerminalProfile(p) \/ \E force \in BOOLEAN : Profiles!DeleteTerminalProfile(p, force)
  PROVE  ProfileInv'
<1>1. Profiles!TypeOK /\ RequestInv /\ DefaultInv /\ ChangeInv /\ p \in Profiles!All
  BY DEF ProfileInv, Profiles!All
<1>2. UNCHANGED <<default, cache, form, request, stale, overlap>>
  BY DEF Profiles!CreateTerminalProfile, Profiles!DeleteTerminalProfile, Profiles!settings
<1>3. \/ profiles' = profiles \cup {p} /\ assigned' = assigned
      \/ /\ p # "default" /\ p # default /\ profiles' = profiles \ {p}
         /\ assigned' = [s \in Machines |-> IF assigned[s] = p THEN None ELSE assigned[s]]
  BY DEF Profiles!CreateTerminalProfile, Profiles!DeleteTerminalProfile
<1>4. /\ profiles' \subseteq Profiles!All /\ "default" \in profiles' /\ assigned' \in [Machines -> profiles' \cup {None}]
      /\ default' \in profiles' \/ stale'
  BY <1>1, <1>2, <1>3 DEF Profiles!TypeOK, DefaultInv
<1>5. Profiles!TypeOK' /\ DefaultInv'
  BY <1>1, <1>2, <1>4 DEF Profiles!TypeOK, DefaultInv, Profiles!All
<1>6. RequestInv' /\ ChangeInv'
  BY <1>1, <1>2 DEF RequestInv, ChangeInv, Changes, Profiles!All
<1>7. QED
  BY <1>5, <1>6 DEF ProfileInv

\* The view reads the settings.
LEMMA FormKeeps ==
  ASSUME ProfileInv, Profiles!GetSettings
  PROVE  ProfileInv'
<1>1. Profiles!TypeOK /\ RequestInv /\ DefaultInv /\ ChangeInv
  BY DEF ProfileInv
<1>2. form' = cache /\ UNCHANGED <<profiles, default, cache, assigned, request, stale, overlap>>
  BY DEF Profiles!GetSettings
<1>3. Profiles!TypeOK' /\ DefaultInv'
  BY <1>1, <1>2 DEF Profiles!TypeOK, DefaultInv, Profiles!All
<1>4. RequestInv' /\ ChangeInv'
  BY <1>1, <1>2 DEF RequestInv, ChangeInv, Changes, Profiles!All
<1>5. QED
  BY <1>3, <1>4 DEF ProfileInv

\* A call takes a step that leaves the table of profiles.
LEMMA CallKeeps ==
  ASSUME ProfileInv, NEW r \in Pair, NEW w \in RequestRecord, request' = [request EXCEPT ![r] = w],
         w.step \in {"default", "cache", "assign"} => w.profile \in Profiles!All,
         w.step = "assign" => w.server \in Machines,
         UNCHANGED <<profiles, form>>,
         assigned' \in [Machines -> profiles \cup {None}],
         default' \in Profiles!All, cache' \in Profiles!All, stale' \in BOOLEAN, overlap' \in BOOLEAN,
         DefaultInv', ChangeInv'
  PROVE  ProfileInv'
<1>1. request' \in [Pair -> RequestRecord] /\ RequestInv'
  BY RequestKeeps
<1>2. Profiles!TypeOK'
  BY <1>1 DEF ProfileInv, Profiles!TypeOK, RequestRecord, Profiles!All
<1>3. QED
  BY <1>1, <1>2 DEF ProfileInv

\* What is known of the calls and the settings.
LEMMA ProfileFields ==
  ASSUME ProfileInv
  PROVE  /\ profiles \subseteq Profiles!All /\ default \in Profiles!All /\ cache \in Profiles!All /\ form \in Profiles!All
         /\ assigned \in [Machines -> profiles \cup {None}]
         /\ request \in [Pair -> RequestRecord]
         /\ stale \in BOOLEAN /\ overlap \in BOOLEAN
         /\ RequestInv /\ DefaultInv /\ ChangeInv
  BY DEF ProfileInv, Profiles!TypeOK, RequestRecord

\* A profile is looked up, to be the default or to be assigned.
LEMMA LookUpKeeps ==
  ASSUME ProfileInv, NEW r \in Pair, NEW p \in Profiles!All,
         \/ Profiles!SetDefaultTerminalProfile(r, p)
         \/ \E s \in Machines : Profiles!AssignServerTerminalProfile(r, s, p)
  PROVE  ProfileInv'
<1>1. CASE Profiles!SetDefaultTerminalProfile(r, p)
  <2> DEFINE w == [Profiles!Idle EXCEPT !.step = "default", !.profile = p]
  <2>1. /\ request' = [request EXCEPT ![r] = w] /\ overlap' = (overlap \/ Profiles!Overlaps)
        /\ UNCHANGED <<profiles, default, cache, form, assigned, stale>>
    BY <1>1 DEF Profiles!SetDefaultTerminalProfile
  <2>2. w \in RequestRecord /\ w.step = "default" /\ w.profile = p
    BY DEF Profiles!Idle, RequestRecord
  <2> HIDE DEF w
  <2>3. overlap' \in BOOLEAN /\ (~overlap' => ~overlap /\ \A q \in Pair : ~Changes(q))
    BY <2>1, ProfileFields DEF Profiles!Overlaps, Changes
  <2>4. ChangeInv'
    <3>1. \A q \in Pair : request'[q] = IF q = r THEN w ELSE request[q]
      BY <2>1, ProfileFields
    <3>2. QED
      BY <2>1, <2>2, <2>3, <3>1, ProfileFields DEF ChangeInv, Changes
  <2>5. DefaultInv'
    BY <2>1, ProfileFields DEF DefaultInv
  <2>6. QED
    BY <2>1, <2>2, <2>3, <2>4, <2>5, ProfileFields, CallKeeps
<1>2. ASSUME NEW s \in Machines, Profiles!AssignServerTerminalProfile(r, s, p) PROVE ProfileInv'
  <2> DEFINE w == [step |-> "assign", profile |-> p, server |-> s]
  <2>1. /\ request[r] = Profiles!Idle /\ request' = [request EXCEPT ![r] = w]
        /\ UNCHANGED <<profiles, default, cache, form, assigned, stale, overlap>>
    BY <1>2 DEF Profiles!AssignServerTerminalProfile, Profiles!settings
  <2>2. w \in RequestRecord /\ w.step = "assign" /\ w.profile = p /\ w.server = s
    BY DEF RequestRecord
  <2> HIDE DEF w
  <2>3. request[r].step = "idle"
    BY <2>1 DEF Profiles!Idle
  <2>4. ChangeInv'
    <3>1. \A q \in Pair : request'[q] = IF q = r THEN w ELSE request[q]
      BY <2>1, ProfileFields
    <3>2. QED
      BY <2>1, <2>2, <2>3, <3>1, ProfileFields DEF ChangeInv, Changes
  <2>5. DefaultInv'
    BY <2>1, ProfileFields DEF DefaultInv
  <2>6. QED
    BY <2>1, <2>2, <2>4, <2>5, ProfileFields, CallKeeps
<1>3. QED
  BY <1>1, <1>2

\* The default is written; the settings of the form are.
LEMMA WriteKeeps ==
  ASSUME ProfileInv, NEW r \in Pair, Profiles!SetDefaultWrites(r) \/ Profiles!SaveSettings(r)
  PROVE  ProfileInv'
<1>1. CASE Profiles!SetDefaultWrites(r)
  <2> DEFINE w == [Profiles!Idle EXCEPT !.step = "reload"]
  <2>1. /\ request[r].step = "default" /\ request' = [request EXCEPT ![r] = w]
        /\ default' = request[r].profile /\ stale' = (stale \/ request[r].profile \notin profiles)
        /\ UNCHANGED <<profiles, cache, form, assigned, overlap>>
    BY <1>1 DEF Profiles!SetDefaultWrites
  <2>2. w \in RequestRecord /\ w.step = "reload"
    BY DEF Profiles!Idle, RequestRecord
  <2> HIDE DEF w
  <2>3. default' \in Profiles!All /\ stale' \in BOOLEAN /\ DefaultInv'
    BY <2>1, ProfileFields DEF DefaultInv, RequestInv
  <2>4. ChangeInv'
    <3>1. \A q \in Pair : request'[q] = IF q = r THEN w ELSE request[q]
      BY <2>1, ProfileFields
    <3>2. QED
      BY <2>1, <2>2, <3>1, ProfileFields DEF ChangeInv, Changes
  <2>5. QED
    BY <2>1, <2>2, <2>3, <2>4, ProfileFields, CallKeeps
<1>2. CASE Profiles!SaveSettings(r)
  <2> DEFINE w == [Profiles!Idle EXCEPT !.step = "cache", !.profile = form]
  <2>1. /\ request' = [request EXCEPT ![r] = w] /\ overlap' = (overlap \/ Profiles!Overlaps)
        /\ default' = form /\ stale' = (stale \/ form \notin profiles)
        /\ UNCHANGED <<profiles, cache, form, assigned>>
    BY <1>2 DEF Profiles!SaveSettings
  <2>2. w \in RequestRecord /\ w.step = "cache" /\ w.profile = form
    BY ProfileFields DEF Profiles!Idle, RequestRecord
  <2> HIDE DEF w
  <2>3. overlap' \in BOOLEAN /\ (~overlap' => \A q \in Pair : ~Changes(q))
    BY <2>1, ProfileFields DEF Profiles!Overlaps, Changes
  <2>4. ChangeInv'
    <3>1. \A q \in Pair : request'[q] = IF q = r THEN w ELSE request[q]
      BY <2>1, ProfileFields
    <3>2. QED
      BY <2>1, <2>2, <2>3, <3>1 DEF ChangeInv, Changes
  <2>5. stale' \in BOOLEAN /\ DefaultInv'
    BY <2>1, ProfileFields DEF DefaultInv
  <2>6. QED
    BY <2>1, <2>2, <2>3, <2>4, <2>5, ProfileFields, CallKeeps
<1>3. QED
  BY <1>1, <1>2

\* The service reads the settings and keeps them; a profile is assigned if it is still there.
LEMMA FinishKeeps ==
  ASSUME ProfileInv, NEW r \in Pair, Profiles!Reload(r) \/ Profiles!KeepValue(r) \/ Profiles!AssignWrites(r)
  PROVE  ProfileInv'
<1>1. CASE Profiles!Reload(r)
  <2> DEFINE w == [Profiles!Idle EXCEPT !.step = "cache", !.profile = default]
  <2>1. /\ request[r].step = "reload" /\ request' = [request EXCEPT ![r] = w]
        /\ UNCHANGED <<profiles, default, cache, form, assigned, stale, overlap>>
    BY <1>1 DEF Profiles!Reload, Profiles!settings
  <2>2. w \in RequestRecord /\ w.step = "cache" /\ w.profile = default
    BY ProfileFields DEF Profiles!Idle, RequestRecord
  <2> HIDE DEF w
  <2>3. ChangeInv'
    <3>1. \A q \in Pair : request'[q] = IF q = r THEN w ELSE request[q]
      BY <2>1, ProfileFields
    <3>2. QED
      BY <2>1, <2>2, <3>1, ProfileFields DEF ChangeInv, Changes
  <2>4. DefaultInv'
    BY <2>1, ProfileFields DEF DefaultInv
  <2>5. QED
    BY <2>1, <2>2, <2>3, <2>4, ProfileFields, CallKeeps
<1>2. CASE Profiles!KeepValue(r)
  <2>1. /\ request[r].step = "cache" /\ request' = [request EXCEPT ![r] = Profiles!Idle]
        /\ cache' = request[r].profile
        /\ UNCHANGED <<profiles, default, form, assigned, stale, overlap>>
    BY <1>2 DEF Profiles!KeepValue
  <2>2. Profiles!Idle \in RequestRecord /\ Profiles!Idle.step = "idle"
    BY DEF Profiles!Idle, RequestRecord
  <2>3. cache' \in Profiles!All
    BY <2>1, ProfileFields DEF RequestInv
  <2>4. ChangeInv'
    <3>1. \A q \in Pair : request'[q] = IF q = r THEN Profiles!Idle ELSE request[q]
      BY <2>1, ProfileFields
    <3>2. QED
      BY <2>1, <2>2, <3>1, ProfileFields DEF ChangeInv, Changes
  <2>5. DefaultInv'
    BY <2>1, ProfileFields DEF DefaultInv
  <2>6. QED
    BY <2>1, <2>2, <2>3, <2>4, <2>5, ProfileFields, CallKeeps
<1>3. CASE Profiles!AssignWrites(r)
  <2>1. /\ request[r].step = "assign" /\ request' = [request EXCEPT ![r] = Profiles!Idle]
        /\ assigned' = IF request[r].profile \in profiles
                         THEN [assigned EXCEPT ![request[r].server] = request[r].profile] ELSE assigned
        /\ UNCHANGED <<profiles, default, cache, form, stale, overlap>>
    BY <1>3 DEF Profiles!AssignWrites, Profiles!settings
  <2>2. Profiles!Idle \in RequestRecord /\ Profiles!Idle.step = "idle"
    BY DEF Profiles!Idle, RequestRecord
  <2>3. assigned' \in [Machines -> profiles \cup {None}]
    BY <2>1, ProfileFields DEF RequestInv
  <2>4. ChangeInv'
    <3>1. \A q \in Pair : request'[q] = IF q = r THEN Profiles!Idle ELSE request[q]
      BY <2>1, ProfileFields
    <3>2. QED
      BY <2>1, <2>2, <3>1, ProfileFields DEF ChangeInv, Changes
  <2>5. DefaultInv'
    BY <2>1, ProfileFields DEF DefaultInv
  <2>6. QED
    BY <2>1, <2>2, <2>3, <2>4, <2>5, ProfileFields, CallKeeps
<1>4. QED
  BY <1>1, <1>2, <1>3

\* Every step keeps the invariant.
LEMMA ProfileStep ==
  ASSUME ProfileInv, [Profiles!Next]_(Profiles!vars)
  PROVE  ProfileInv'
<1>1. CASE UNCHANGED Profiles!vars
  BY <1>1 DEF Profiles!vars, ProfileInv, Profiles!TypeOK, RequestInv, DefaultInv, ChangeInv, Changes, Profiles!All
<1>2. CASE \E p \in Servers : Profiles!CreateTerminalProfile(p) \/ \E force \in BOOLEAN : Profiles!DeleteTerminalProfile(p, force)
  BY <1>2, TableKeeps
<1>3. CASE Profiles!GetSettings
  BY <1>3, FormKeeps
<1>4. ASSUME NEW r \in Pair, NEW p \in Profiles!All,
             Profiles!SetDefaultTerminalProfile(r, p) \/ \E s \in Machines : Profiles!AssignServerTerminalProfile(r, s, p)
      PROVE  ProfileInv'
  BY <1>4, LookUpKeeps
<1>5. ASSUME NEW r \in Pair, \/ Profiles!SetDefaultWrites(r) \/ Profiles!Reload(r) \/ Profiles!KeepValue(r)
                             \/ Profiles!SaveSettings(r) \/ Profiles!AssignWrites(r)
      PROVE  ProfileInv'
  BY <1>5, WriteKeeps, FinishKeeps
<1>6. QED
  BY <1>1, <1>2, <1>3, <1>4, <1>5 DEF Profiles!Next

\* Every server resolves to a profile that exists, unless the default had gone when it was
\* written, and the service has the stored settings unless two calls that change them
\* overlapped (DeleteTerminalProfile, SetDefaultTerminalProfile, Reload).
THEOREM ProfilesSound == Spec => []ProfilesAreSound
<1> DEFINE Inv == part = "profiles" => ProfileInv
<1>1. Init => Inv
  <2>1. SUFFICES ASSUME Profiles!Init PROVE ProfileInv
    BY DEF Init
  <2>2. /\ profiles = {"default"} /\ default = "default" /\ cache = "default" /\ form = "default"
        /\ assigned = [s \in Machines |-> None] /\ stale = FALSE /\ overlap = FALSE
        /\ request \in [Pair -> RequestRecord] /\ \A r \in Pair : request[r].step = "idle"
    BY <2>1 DEF Profiles!Init, Profiles!Idle, RequestRecord
  <2>3. Profiles!TypeOK
    BY <2>2 DEF Profiles!TypeOK, Profiles!All, RequestRecord
  <2>4. RequestInv /\ DefaultInv /\ ChangeInv
    BY <2>2 DEF RequestInv, DefaultInv, ChangeInv, Changes
  <2>5. QED
    BY <2>3, <2>4 DEF ProfileInv
<1>2. Inv /\ [Next]_vars => Inv'
  <2>1. [Next]_vars /\ part' = "profiles" => part = "profiles" /\ [Profiles!Next]_(Profiles!vars)
    BY DEF Next, vars, Profiles!vars
  <2>2. QED
    BY <2>1, ProfileStep
<1>3. Inv => ProfilesAreSound
  <2>1. ProfileInv => Profiles!ResolvedExists
    BY DEF ProfileInv, Profiles!TypeOK, DefaultInv, Profiles!ResolvedExists, Profiles!GetResolvedTerminalProfile
  <2>2. ProfileInv => Profiles!CacheIsStored
    BY DEF ProfileInv, ChangeInv, Profiles!CacheIsStored, Profiles!Overlaps
  <2>3. QED
    BY <2>1, <2>2 DEF ProfilesAreSound, Profiles!ProfilesAreSound, ProfileInv
<1>4. QED
  BY <1>1, <1>2, <1>3, PTL DEF Spec

-----------------------------------------------------------------------------
\* Saved passwords and passphrases.

row == v1
ref == v2
secrets == v3
bound == v4
call == v5
saved == v6
forgot == v7
failed == v8
crossed == v9

HIDE DEF policy, rows, gone, route, host, fp, save, dial, clients, raced,
         profiles, default, cache, form, assigned, request, stale, overlap
USE DEF row, ref, secrets, bound, call, saved, forgot, failed, crossed

Owners == Lone \cup Vault
Slots == {"canonical", "legacy"}
Saving == {"set", "ref", "recover", "copy", "link"}
Deleting == {"forget", "clear", "row", "drop", "unbind", "sweep"}

\* What a call has still to delete: names of secrets, one at most but for ClearKind.
One == {<<>>, <<"canonical">>, <<"legacy">>}
Todos == One \cup {<<"canonical", "legacy">>, <<"legacy", "canonical">>}
Has(q, s) == \E i \in 1..Len(q) : q[i] = s

CallRecord == [step : Saving \cup Deleting \cup {"idle"}, owner : Owners \cup {None}, had : BOOLEAN,
               value : {"old", "new", None}, todo : Todos]

\* A call at a step has an owner of the kind that the step is for, and its arguments.
CallOk(r) ==
  /\ r.owner = None <=> r.step = "idle"
  /\ r.step \in {"recover", "copy", "link", "forget", "clear", "row"} => r.owner \in Lone
  /\ r.step \in {"drop", "unbind", "sweep"} => r.owner \in Vault
  /\ r.step = "set" => r.value = "new"
  /\ r.step = "copy" => r.value # None
  /\ r.step = "link" => r.todo \in One /\ r.todo # <<>>
  /\ r.step \in {"clear", "drop", "unbind", "sweep"} => r.todo \in One
  /\ r.step = "row" => r.todo = <<>>

SecretTables ==
  /\ row \in [Owners -> {"absent", "there", "gone"}]
  /\ ref \in [Owners -> {"canonical", "legacy", None}]
  /\ \A o \in Owners : ref[o] # None => row[o] = "there"
  /\ secrets \in [Owners -> [Slots -> {"old", "new", None}]]
  /\ bound \in [Lone -> Vault \cup {None}]
  /\ \A c \in Lone : bound[c] # None => row[bound[c]] = "there"
  /\ saved \subseteq Owners /\ forgot \subseteq Owners /\ failed \subseteq Owners
  /\ crossed \in [Owners -> {"no", "saves", "deletes"}]

CallTypes == call \in [Pair -> CallRecord] /\ \A t \in Pair : CallOk(call[t])

On(t, o) == call[t].owner = o

\* Two calls on an owner are noticed, and so is whether one of them deletes.
CrossOk(o) ==
  \A t, u \in Pair : t # u /\ On(t, o) /\ On(u, o) =>
    crossed[o] # "no" /\ (crossed[o] # "deletes" => call[t].step \in Saving)

\* The old name stays in use only after a failure.
LegacyOk(o) ==
  /\ ref[o] = "legacy" => o \in failed
  /\ \A t \in Pair : On(t, o) /\ call[t].step = "link" /\ call[t].todo[1] = "legacy" => o \in failed

\* What a call that saves or recovers has found or done so far, ...
SaveOk(o) ==
  crossed[o] # "deletes" =>
    \A t \in Pair : On(t, o) =>
      /\ call[t].step \in Saving => row[o] = "there"
      /\ call[t].step = "ref" => secrets[o]["canonical"] # None
      /\ call[t].step = "copy" => secrets[o]["legacy"] # None
      /\ call[t].step = "set" /\ call[t].had => ref[o] # None
      /\ call[t].step = "link" => secrets[o][call[t].todo[1]] # None

\* ... and one that deletes.
DeleteOk(o) ==
  crossed[o] # "deletes" =>
    \A t \in Pair : On(t, o) =>
      /\ call[t].step \in {"forget", "sweep", "row"} => ref[o] = None
      /\ call[t].step = "forget" => \A s \in Slots : secrets[o][s] = None \/ Has(call[t].todo, s)
      /\ call[t].step \in {"clear", "drop", "unbind"} /\ call[t].todo # <<>> => ref[o] = call[t].todo[1]
      /\ call[t].step = "unbind" /\ call[t].todo = <<>> => ref[o] = None
      /\ call[t].step \in {"clear", "drop", "row"} /\ call[t].todo = <<>> =>
           secrets[o]["canonical"] = None \/ o \in failed

\* A reference has its secret, unless a call is about to remove it; a secret has its reference,
\* unless a call is about to write it, or to delete the secret.
LinkOk(o) ==
  crossed[o] # "deletes" =>
    /\ ref[o] # None => \/ secrets[o][ref[o]] # None
                        \/ \E t \in Pair : On(t, o) /\ call[t].step \in {"clear", "drop"} /\ call[t].todo = <<>>
    /\ ref[o] = None /\ o \notin failed /\ secrets[o]["canonical"] # None =>
         \E t \in Pair : On(t, o) /\ \/ call[t].step \in {"ref", "link"}
                                     \/ call[t].step \in {"forget", "sweep"} /\ Has(call[t].todo, "canonical")

\* A secret that was saved is under the present name, and a recovery finds no other.
SavedOk(o) ==
  crossed[o] = "no" =>
    /\ \A t \in Pair : On(t, o) /\ call[t].step = "ref" => secrets[o]["canonical"] = "new"
    /\ o \in saved \ failed =>
         /\ secrets[o]["canonical"] \in {None, "new"}
         /\ o \in Lone /\ row[o] = "there" /\ ref[o] = None /\ secrets[o]["legacy"] # None =>
              \E t \in Pair : On(t, o) /\ (call[t].step = "row" \/ (call[t].step = "forget" /\ Has(call[t].todo, "legacy")))
         /\ \A t \in Pair : On(t, o) => call[t].step # "copy"

\* What was deleted is nowhere, until the next call.
ForgotOk(o) ==
  o \in forgot => /\ o \in Lone
                  /\ crossed[o] # "deletes" => /\ \A t \in Pair : ~On(t, o)
                                               /\ ref[o] = None /\ \A s \in Slots : secrets[o][s] = None

OwnerOk(o) ==
  CrossOk(o) /\ LegacyOk(o) /\ SaveOk(o) /\ DeleteOk(o) /\ LinkOk(o) /\ SavedOk(o) /\ ForgotOk(o)

SecretInv == SecretTables /\ CallTypes /\ \A o \in Owners : OwnerOk(o)

\* What there is to delete, one name after the other.
LEMMA TodoFacts ==
  /\ <<>> \in One /\ One \subseteq Todos /\ <<"canonical", "legacy">> \in Todos /\ <<"legacy", "canonical">> \in Todos
  /\ \A s \in Slots : <<s>> \in One /\ <<s>> # <<>> /\ <<s>>[1] = s /\ Has(<<s>>, s) /\ ~Has(<<>>, s)
  /\ \A s \in Slots : Has(<<"canonical", "legacy">>, s) /\ Has(<<"legacy", "canonical">>, s)
  /\ \A q \in Todos \ {<<>>} :
       /\ Head(q) \in Slots /\ q[1] = Head(q) /\ Tail(q) \in One
       /\ \A s \in Slots : Has(q, s) => s = Head(q) \/ Has(Tail(q), s)
  /\ \A q \in One \ {<<>>} : Tail(q) = <<>>
<1>1. /\ <<>> \in One /\ One \subseteq Todos /\ <<"canonical", "legacy">> \in Todos /\ <<"legacy", "canonical">> \in Todos
  BY DEF One, Todos
<1>2. ASSUME NEW s \in Slots
      PROVE  <<s>> \in One /\ <<s>> # <<>> /\ <<s>>[1] = s /\ Has(<<s>>, s) /\ ~Has(<<>>, s)
  BY DEF One, Has, Slots
<1>3. ASSUME NEW s \in Slots
      PROVE  Has(<<"canonical", "legacy">>, s) /\ Has(<<"legacy", "canonical">>, s)
  BY DEF Has, Slots
<1>4. ASSUME NEW q \in Todos \ {<<>>}
      PROVE  /\ Head(q) \in Slots /\ q[1] = Head(q) /\ Tail(q) \in One
             /\ \A s \in Slots : Has(q, s) => s = Head(q) \/ Has(Tail(q), s)
  <2>1. CASE q = <<"canonical">>
    BY <2>1 DEF Has, Slots, One
  <2>2. CASE q = <<"legacy">>
    BY <2>2 DEF Has, Slots, One
  <2>3. CASE q = <<"canonical", "legacy">>
    BY <2>3 DEF Has, Slots, One
  <2>4. CASE q = <<"legacy", "canonical">>
    BY <2>4 DEF Has, Slots, One
  <2>5. QED
    BY <1>4, <2>1, <2>2, <2>3, <2>4 DEF Todos, One
<1>5. ASSUME NEW q \in One \ {<<>>}
      PROVE  Tail(q) = <<>>
  <2>1. \A s \in Slots : <<s>> \in Seq(Slots) /\ Len(<<s>>) = 1
    OBVIOUS
  <2>2. q = <<"canonical">> \/ q = <<"legacy">>
    BY <1>5 DEF One
  <2>3. q \in Seq(Slots) /\ q # <<>> /\ Len(q) = 1
    BY <1>5, <2>1, <2>2 DEF Slots
  <2>4. Tail(q) \in Seq(Slots) /\ Len(Tail(q)) = 0
    BY <2>3, HeadTailProperties
  <2>5. QED
    BY <2>4, EmptySeq
<1>6. QED
  BY <1>1, <1>2, <1>3, <1>4, <1>5

\* A call changes its owner only.
LEMMA SecretKeeps ==
  ASSUME SecretInv, NEW t \in Pair, NEW o \in Owners, NEW r \in CallRecord, CallOk(r),
         call' = [call EXCEPT ![t] = r], call[t].owner \in {o, None}, r.owner \in {o, None},
         SecretTables', OwnerOk(o)',
         \A p \in Owners \ {o} : /\ row'[p] = row[p] /\ ref'[p] = ref[p] /\ secrets'[p] = secrets[p] /\ crossed'[p] = crossed[p]
                                 /\ p \in saved' <=> p \in saved
                                 /\ p \in forgot' <=> p \in forgot
                                 /\ p \in failed' <=> p \in failed
  PROVE  SecretInv'
<1>1. SecretTables /\ CallTypes /\ \A p \in Owners : OwnerOk(p)
  BY DEF SecretInv
<1>2. \A u \in Pair : call'[u] = IF u = t THEN r ELSE call[u]
  BY <1>1 DEF CallTypes
<1>3. CallTypes'
  <2>1. call' \in [Pair -> CallRecord]
    BY <1>1 DEF CallTypes
  <2>2. \A u \in Pair : CallOk(call'[u])
    BY <1>1, <1>2 DEF CallTypes
  <2>3. QED
    BY <2>1, <2>2 DEF CallTypes, CallOk
<1>4. ASSUME NEW p \in Owners \ {o}
      PROVE  OwnerOk(p)'
  <2>1. \A u \in Pair : On(u, p)' <=> On(u, p)
    BY <1>2, NameAssumption DEF On, Owners
  <2>2. \A u \in Pair : On(u, p) => call'[u] = call[u]
    BY <1>2, NameAssumption DEF On, Owners
  <2>3. OwnerOk(p)
    BY <1>1
  <2>4. CrossOk(p)' /\ LegacyOk(p)'
    BY <2>1, <2>2, <2>3 DEF OwnerOk, CrossOk, LegacyOk
  <2>5. SaveOk(p)' /\ DeleteOk(p)'
    BY <2>1, <2>2, <2>3 DEF OwnerOk, SaveOk, DeleteOk
  <2>6. LinkOk(p)'
    BY <2>1, <2>2, <2>3 DEF OwnerOk, LinkOk
  <2>7. SavedOk(p)' /\ ForgotOk(p)'
    BY <2>1, <2>2, <2>3 DEF OwnerOk, SavedOk, ForgotOk
  <2>8. QED
    BY <2>4, <2>5, <2>6, <2>7 DEF OwnerOk
<1>5. QED
  BY <1>3, <1>4 DEF SecretInv

\* A call begins: what is noted of it and of the others on its owner.
Crossing(o, step) ==
  LET beside == {call[u].step : u \in {w \in Pair : call[w].owner = o}} IN
    IF beside = {} THEN crossed[o]
    ELSE IF (beside \cup {step}) \subseteq Saving /\ crossed[o] # "deletes" THEN "saves" ELSE "deletes"

Begun(t, o, r) ==
  /\ call[t] = Secrets!Idle /\ call' = [call EXCEPT ![t] = r]
  /\ forgot' = forgot \ {o}
  /\ crossed' = [crossed EXCEPT ![o] = Crossing(o, r.step)]

\* What it means that nothing is noted, or only that calls save.
LEMMA BeginFacts ==
  ASSUME SecretInv, NEW t \in Pair, NEW o \in Owners, NEW r \in CallRecord, Begun(t, o, r)
  PROVE  /\ call[t].owner = None
         /\ crossed' \in [Owners -> {"no", "saves", "deletes"}]
         /\ \A p \in Owners \ {o} : crossed'[p] = crossed[p]
         /\ crossed'[o] = "no" => crossed[o] = "no" /\ \A u \in Pair : ~On(u, o)
         /\ crossed'[o] # "deletes" => /\ crossed[o] # "deletes"
                                       /\ \A u \in Pair : On(u, o) => {r.step, call[u].step} \subseteq Saving
<1>1. call \in [Pair -> CallRecord] /\ crossed \in [Owners -> {"no", "saves", "deletes"}]
  BY DEF SecretInv, SecretTables, CallTypes
<1> DEFINE c == Crossing(o, r.step)
<1>2. call[t] = Secrets!Idle /\ crossed' = [crossed EXCEPT ![o] = c]
  BY DEF Begun
<1>3. c \in {"no", "saves", "deletes"}
  BY <1>1 DEF Crossing
<1>4. c = "no" => crossed[o] = "no" /\ \A u \in Pair : ~On(u, o)
  BY <1>1 DEF On, Crossing
<1>5. c # "deletes" => crossed[o] # "deletes" /\ \A u \in Pair : On(u, o) => {r.step, call[u].step} \subseteq Saving
  BY <1>1 DEF On, Crossing
<1> HIDE DEF c
<1>6. /\ crossed' \in [Owners -> {"no", "saves", "deletes"}] /\ crossed'[o] = c
      /\ \A p \in Owners \ {o} : crossed'[p] = crossed[p]
  BY <1>1, <1>2, <1>3
<1>7. QED
  BY <1>2, <1>4, <1>5, <1>6 DEF Secrets!Idle

\* A call begins.  It has found a row, and if it deletes, what there is to delete; a clearing or
\* a new key file have taken the reference away already.
LEMMA BeginKeeps ==
  ASSUME SecretInv, NEW t \in Pair, NEW o \in Owners, NEW r \in CallRecord, CallOk(r), r.owner = o,
         Begun(t, o, r),
         r.step \in {"set", "recover", "forget", "clear", "drop", "unbind", "sweep"},
         UNCHANGED <<row, secrets, bound, saved, failed>>, row[o] = "there",
         r.step \in {"forget", "sweep"} => ref' = [ref EXCEPT ![o] = None],
         r.step \notin {"forget", "sweep"} => ref' = ref,
         r.step = "set" /\ r.had => ref[o] # None,
         r.step = "forget" => \A s \in Slots : Has(r.todo, s),
         r.step \in {"clear", "drop", "unbind"} => r.todo = IF ref[o] = None THEN <<>> ELSE <<ref[o]>>,
         r.step = "sweep" => ref[o] # None /\ r.todo = <<ref[o]>>
  PROVE  SecretInv'
<1>1. SecretTables /\ CallTypes /\ OwnerOk(o)
  BY DEF SecretInv
<1>2. /\ call[t].owner = None /\ forgot' = forgot \ {o}
      /\ call' = [call EXCEPT ![t] = r]
      /\ crossed' \in [Owners -> {"no", "saves", "deletes"}]
      /\ \A p \in Owners \ {o} : crossed'[p] = crossed[p]
      /\ crossed'[o] = "no" => crossed[o] = "no" /\ \A u \in Pair : ~On(u, o)
      /\ crossed'[o] # "deletes" => /\ crossed[o] # "deletes"
                                    /\ \A u \in Pair : On(u, o) => {r.step, call[u].step} \subseteq Saving
  <2>1. call' = [call EXCEPT ![t] = r] /\ forgot' = forgot \ {o}
    BY DEF Begun
  <2>2. QED
    BY <2>1, BeginFacts
<1>3. \A u \in Pair : call'[u] = IF u = t THEN r ELSE call[u]
  BY <1>1, <1>2 DEF CallTypes
<1>4. \A u \in Pair : On(u, o)' <=> u = t \/ On(u, o)
  BY <1>3 DEF On
<1>5. ~On(t, o) /\ o # None
  BY <1>2, NameAssumption DEF On, Owners
<1>6. ref'[o] \in {ref[o], None} /\ ref[o] \in {"canonical", "legacy", None} /\ None \notin Slots
  BY <1>1, NameAssumption DEF SecretTables, Slots
<1>7. SecretTables'
  BY <1>1, <1>2 DEF SecretTables
<1>8. CrossOk(o)'
  BY <1>1, <1>2, <1>3, <1>4, <1>5 DEF OwnerOk, CrossOk
<1>9. LegacyOk(o)'
  BY <1>1, <1>3, <1>4, <1>6, NameAssumption DEF OwnerOk, LegacyOk
<1>10. SaveOk(o)'
  BY <1>1, <1>2, <1>3, <1>4, <1>5 DEF OwnerOk, SaveOk, Saving
<1>11. DeleteOk(o)'
  <2>1. SUFFICES ASSUME crossed'[o] # "deletes" PROVE DeleteOk(o)'
    BY DEF DeleteOk
  <2>2. ASSUME NEW u \in Pair, u # t, On(u, o)
        PROVE  call[u].step \in Saving
    BY <1>2, <2>1, <2>2
  <2>3. r.step \in {"clear", "drop"} /\ ref[o] = None => secrets[o]["canonical"] = None \/ o \in failed
    BY <1>1, <1>2, <2>1 DEF OwnerOk, LinkOk, Saving
  <2>4. ASSUME NEW u \in Pair, u # t, On(u, o)
        PROVE  call'[u].step \in Saving
    BY <1>3, <2>2, <2>4
  <2>5. /\ r.step \in {"forget", "sweep", "row"} => ref'[o] = None
        /\ r.step = "forget" => \A s \in Slots : secrets'[o][s] = None \/ Has(r.todo, s)
        /\ r.step \in {"clear", "drop", "row"} /\ r.todo = <<>> => secrets'[o]["canonical"] = None \/ o \in failed'
        /\ r.step = "unbind" /\ r.todo = <<>> => ref'[o] = None
    BY <1>1, <1>6, <2>3, TodoFacts DEF SecretTables, Slots
  <2>6. r.step \in {"clear", "drop", "unbind"} /\ r.todo # <<>> => ref'[o] = r.todo[1]
    BY <1>6, TodoFacts DEF Slots
  <2>7. QED
    BY <1>3, <1>4, <2>4, <2>5, <2>6 DEF DeleteOk, Saving
<1>12. LinkOk(o)'
  <2>1. SUFFICES ASSUME crossed'[o] # "deletes" PROVE LinkOk(o)'
    BY DEF LinkOk
  <2>2. ref'[o] # None => \/ secrets'[o][ref'[o]] # None
                          \/ \E u \in Pair : On(u, o)' /\ call'[u].step \in {"clear", "drop"} /\ call'[u].todo = <<>>
    BY <1>1, <1>2, <1>3, <1>4, <1>5, <1>6, <2>1 DEF OwnerOk, LinkOk
  <2>3. ASSUME ref'[o] = None, o \notin failed', secrets'[o]["canonical"] # None
        PROVE  \E u \in Pair : On(u, o)' /\ \/ call'[u].step \in {"ref", "link"}
                                            \/ call'[u].step \in {"forget", "sweep"} /\ Has(call'[u].todo, "canonical")
    <3>1. CASE r.step \in {"forget", "sweep"}
      <4>1. Has(r.todo, "canonical")
        BY <1>1, <1>6, <2>3, <3>1, TodoFacts DEF OwnerOk, LegacyOk, Slots
      <4>2. QED
        BY <1>3, <1>4, <3>1, <4>1
    <3>2. CASE r.step \notin {"forget", "sweep"}
      <4>1. PICK u \in Pair : On(u, o) /\ \/ call[u].step \in {"ref", "link"}
                                          \/ call[u].step \in {"forget", "sweep"} /\ Has(call[u].todo, "canonical")
        BY <1>1, <1>2, <2>1, <2>3, <3>2 DEF OwnerOk, LinkOk
      <4>2. u # t /\ On(u, o)' /\ call'[u] = call[u]
        BY <1>3, <1>4, <1>5, <4>1
      <4>3. QED
        BY <4>1, <4>2
    <3>3. QED
      BY <3>1, <3>2
  <2>4. QED
    BY <2>2, <2>3 DEF LinkOk
<1>13. SavedOk(o)'
  <2>1. SUFFICES ASSUME crossed'[o] = "no" PROVE SavedOk(o)'
    BY DEF SavedOk
  <2>2. crossed[o] = "no" /\ \A u \in Pair : On(u, o)' <=> u = t
    BY <1>2, <1>4, <2>1
  <2>3. call'[t] = r /\ r.step \notin {"ref", "copy"}
    BY <1>3
  <2>4. ASSUME o \in saved \ failed
        PROVE  /\ secrets[o]["canonical"] \in {None, "new"}
               /\ o \in Lone /\ ref'[o] = None /\ secrets[o]["legacy"] # None => r.step = "forget" /\ Has(r.todo, "legacy")
    <3>1. /\ secrets[o]["canonical"] \in {None, "new"}
          /\ o \in Lone /\ ref[o] = None /\ secrets[o]["legacy"] # None => FALSE
      BY <1>1, <1>2, <2>1, <2>2, <2>4 DEF OwnerOk, SavedOk
    <3>2. o \in Lone => r.step # "sweep"
      BY NameAssumption DEF CallOk
    <3>3. QED
      BY <3>1, <3>2 DEF Slots
  <2>5. QED
    BY <2>2, <2>3, <2>4 DEF SavedOk
<1>14. ForgotOk(o)'
  BY <1>2 DEF ForgotOk
<1>15. OwnerOk(o)'
  BY <1>8, <1>9, <1>10, <1>11, <1>12, <1>13, <1>14 DEF OwnerOk
<1>16. \A p \in Owners \ {o} : ref'[p] = ref[p]
  BY <1>1 DEF SecretTables
<1>17. QED
  BY <1>2, <1>3, <1>7, <1>15, <1>16, SecretKeeps

\* A call goes on or ends: who else is there.
LEMMA GoesOnFacts ==
  ASSUME SecretInv, NEW t \in Pair, NEW o \in Owners, NEW r \in CallRecord, On(t, o),
         call' = [call EXCEPT ![t] = r], r.owner \in {o, None}, UNCHANGED crossed,
         call[t].step \in Saving => r.step \in Saving \cup {"idle"}, CallOk(r)
  PROVE  /\ o # None
         /\ \A u \in Pair : call'[u] = IF u = t THEN r ELSE call[u]
         /\ \A u \in Pair : On(u, o)' <=> IF u = t THEN r.owner = o ELSE On(u, o)
         /\ crossed[o] # "deletes" =>
              \A u \in Pair : u # t /\ On(u, o) => call[t].step \in Saving /\ call[u].step \in Saving
         /\ crossed[o] = "no" => \A u \in Pair : On(u, o) => u = t
         /\ CrossOk(o)'
<1>1. o # None /\ call \in [Pair -> CallRecord] /\ CrossOk(o)
  BY NameAssumption DEF SecretInv, CallTypes, OwnerOk, Owners
<1>2. \A u \in Pair : call'[u] = IF u = t THEN r ELSE call[u]
  BY <1>1
<1>3. \A u \in Pair : On(u, o)' <=> IF u = t THEN r.owner = o ELSE On(u, o)
  BY <1>2 DEF On
<1>4. crossed[o] # "deletes" =>
        \A u \in Pair : u # t /\ On(u, o) => call[t].step \in Saving /\ call[u].step \in Saving
  BY <1>1 DEF CrossOk
<1>5. crossed[o] = "no" => \A u \in Pair : On(u, o) => u = t
  BY <1>1 DEF CrossOk
<1>6. r.owner = o => r.step # "idle"
  BY <1>1 DEF CallOk
<1>7. CrossOk(o)'
  BY <1>1, <1>2, <1>3, <1>4, <1>6 DEF CrossOk
<1>8. QED
  BY <1>1, <1>2, <1>3, <1>4, <1>5, <1>7

\* A call changes what is stored of its owner only.
Frame(o) ==
  /\ ref' \in [Owners -> Slots \cup {None}] /\ secrets' \in [Owners -> [Slots -> {"old", "new", None}]]
  /\ \A p \in Owners \ {o} : ref'[p] = ref[p] /\ secrets'[p] = secrets[p]

\* A secret is written under the present name, ...
LEMMA PresentFrame ==
  ASSUME SecretTables, NEW o \in Owners, NEW v \in {"old", "new", None},
         secrets' = [secrets EXCEPT ![o]["canonical"] = v], ref' = ref
  PROVE  /\ Frame(o) /\ ref'[o] = ref[o] /\ secrets'[o]["canonical"] = v
         /\ secrets'[o]["legacy"] = secrets[o]["legacy"]
BY DEF SecretTables, Frame, Slots

\* ... a reference is, ...
LEMMA ReferFrame ==
  ASSUME SecretTables, NEW o \in Owners, NEW x \in Slots \cup {None}, ref' = [ref EXCEPT ![o] = x], secrets' = secrets
  PROVE  Frame(o) /\ ref'[o] = x /\ secrets'[o] = secrets[o]
BY DEF SecretTables, Frame, Slots

\* ... or neither.
LEMMA SameFrame ==
  ASSUME SecretTables, NEW o \in Owners, UNCHANGED <<ref, secrets>>
  PROVE  Frame(o) /\ ref'[o] = ref[o] /\ secrets'[o] = secrets[o]
BY DEF SecretTables, Frame, Slots

\* A call that saves or recovers goes on or ends.  Unless a deletion is beside it, it takes
\* nothing away, and leaves a reference with its secret.
LEMMA SavingKeeps ==
  ASSUME SecretInv, NEW t \in Pair, NEW o \in Owners, NEW r \in CallRecord, CallOk(r), On(t, o),
         call[t].step \in Saving, r.step \in {"ref", "copy", "link", "idle"}, r.owner \in {o, None},
         call' = [call EXCEPT ![t] = r],
         Frame(o), secrets'[o]["legacy"] = secrets[o]["legacy"],
         ref'[o] # ref[o] => ref'[o] # None /\ row[o] = "there",
         UNCHANGED <<row, bound, forgot, crossed>>,
         saved' \in {saved, saved \cup {o}}, failed' \in {failed, failed \cup {o}},
         ref'[o] = "legacy" => o \in failed',
         r.step = "link" /\ r.todo[1] = "legacy" => o \in failed',
         crossed[o] # "deletes" =>
           /\ secrets[o]["canonical"] # None \/ r.step = "ref" => secrets'[o]["canonical"] # None
           /\ r.step = "copy" => secrets[o]["legacy"] # None
           /\ r.step = "link" => secrets'[o][r.todo[1]] # None
           /\ ref'[o] # ref[o] => secrets'[o][ref'[o]] # None
           /\ ref'[o] = None /\ o \notin failed' /\ secrets'[o]["canonical"] # None => r.step \in {"ref", "link"},
         crossed[o] = "no" =>
           /\ r.step = "ref" => secrets'[o]["canonical"] = "new"
           /\ o \in saved' \ failed' => secrets'[o]["canonical"] \in {None, "new"} /\ r.step # "copy" /\ (o \in saved \/ ref'[o] # None)
  PROVE  SecretInv'
<1>1. SecretTables /\ CallTypes /\ OwnerOk(o)
  BY DEF SecretInv
<1>2. /\ o # None
      /\ \A u \in Pair : call'[u] = IF u = t THEN r ELSE call[u]
      /\ \A u \in Pair : On(u, o)' <=> IF u = t THEN r.owner = o ELSE On(u, o)
      /\ crossed[o] # "deletes" =>
           \A u \in Pair : u # t /\ On(u, o) => call[t].step \in Saving /\ call[u].step \in Saving
      /\ crossed[o] = "no" => \A u \in Pair : On(u, o) => u = t
      /\ CrossOk(o)'
  <2>1. call[t].step \in Saving => r.step \in Saving \cup {"idle"}
    BY DEF Saving
  <2>2. QED
    BY <2>1, GoesOnFacts
<1>3. /\ ref[o] \in Slots \cup {None} /\ None \notin Slots
      /\ secrets[o] \in [Slots -> {"old", "new", None}]
      /\ crossed'[o] = crossed[o] /\ row'[o] = row[o]
  BY <1>1, NameAssumption DEF SecretTables, Slots
<1>4. SecretTables'
  <2>1. ref' \in [Owners -> {"canonical", "legacy", None}] /\ \A p \in Owners : ref'[p] # None => row[p] = "there"
    BY <1>1, <1>3 DEF SecretTables, Slots, Frame
  <2>2. secrets' \in [Owners -> [Slots -> {"old", "new", None}]]
    BY DEF Frame
  <2>3. QED
    BY <1>1, <2>1, <2>2 DEF SecretTables
<1>5. LegacyOk(o)'
  BY <1>1, <1>2, <1>3 DEF OwnerOk, LegacyOk
<1>6. SaveOk(o)'
  <2>1. SUFFICES ASSUME crossed[o] # "deletes", NEW u \in Pair, On(u, o)'
                 PROVE  /\ call'[u].step \in Saving => row'[o] = "there"
                        /\ call'[u].step = "ref" => secrets'[o]["canonical"] # None
                        /\ call'[u].step = "copy" => secrets'[o]["legacy"] # None
                        /\ call'[u].step = "set" /\ call'[u].had => ref'[o] # None
                        /\ call'[u].step = "link" => secrets'[o][call'[u].todo[1]] # None
    BY <1>3 DEF SaveOk
  <2>2. row[o] = "there"
    BY <1>1, <2>1 DEF OwnerOk, SaveOk
  <2>3. CASE u = t
    BY <1>2, <1>3, <2>1, <2>2, <2>3
  <2>4. CASE u # t
    <3>1. On(u, o) /\ call'[u] = call[u]
      BY <1>2, <2>1, <2>4
    <3>2. call[u].step = "link" => call[u].todo[1] \in Slots
      BY <1>1, TodoFacts DEF CallTypes, CallOk
    <3>3. QED
      BY <1>1, <1>3, <2>1, <2>2, <3>1, <3>2 DEF OwnerOk, SaveOk, Slots
  <2>5. QED
    BY <2>3, <2>4
<1>7. DeleteOk(o)'
  <2>1. SUFFICES ASSUME crossed[o] # "deletes" PROVE DeleteOk(o)'
    BY <1>3 DEF DeleteOk
  <2>2. \A u \in Pair : On(u, o)' => call'[u].step \in Saving
    BY <1>2, <2>1 DEF Saving, CallOk
  <2>3. QED
    BY <2>2 DEF DeleteOk, Saving
<1>8. LinkOk(o)'
  <2>1. SUFFICES ASSUME crossed[o] # "deletes" PROVE LinkOk(o)'
    BY <1>3 DEF LinkOk
  <2>2. \A u \in Pair : On(u, o) => call[u].step \in Saving
    BY <1>2, <2>1
  <2>3. ref[o] # None => secrets[o][ref[o]] # None
    BY <1>1, <2>1, <2>2 DEF OwnerOk, LinkOk, Saving
  <2>4. ref'[o] # None => secrets'[o][ref'[o]] # None
    BY <1>3, <2>1, <2>3 DEF Slots
  <2>5. ref'[o] = None /\ o \notin failed' /\ secrets'[o]["canonical"] # None => On(t, o)' /\ call'[t].step \in {"ref", "link"}
    BY <1>2, <1>3, <2>1 DEF CallOk
  <2>6. QED
    BY <2>4, <2>5 DEF LinkOk
<1>9. SavedOk(o)'
  <2>1. SUFFICES ASSUME crossed[o] = "no" PROVE SavedOk(o)'
    BY <1>3 DEF SavedOk
  <2>2. \A u \in Pair : On(u, o)' => u = t /\ call'[u] = r
    BY <1>2, <2>1
  <2>3. ASSUME o \in saved \ failed, o \in Lone, row[o] = "there", ref[o] = None
        PROVE  secrets[o]["legacy"] = None
    BY <1>1, <1>2, <2>1, <2>3 DEF OwnerOk, SavedOk, Saving
  <2>4. o \in saved' \ failed' /\ o \in Lone /\ row[o] = "there" /\ ref'[o] = None => secrets[o]["legacy"] = None
    BY <1>3, <2>1, <2>3
  <2>5. QED
    BY <1>3, <2>1, <2>2, <2>4 DEF SavedOk
<1>10. ForgotOk(o)'
  BY <1>1, <1>2, <1>3 DEF OwnerOk, ForgotOk
<1>11. OwnerOk(o)'
  BY <1>2, <1>5, <1>6, <1>7, <1>8, <1>9, <1>10 DEF OwnerOk
<1>12. QED
  BY <1>4, <1>11, SecretKeeps DEF On, Frame

\* A call that deletes goes on or ends.  It only takes away; unless another call is beside it,
\* it leaves no reference without its secret, but for the step before the reference goes, and no
\* secret without a reference, but for what it has still to delete.
LEMMA DeletingKeeps ==
  ASSUME SecretInv, NEW t \in Pair, NEW o \in Owners, NEW r \in CallRecord, CallOk(r), On(t, o),
         call[t].step \in Deleting, r.step \in Deleting \cup {"idle"}, r.owner \in {o, None},
         call' = [call EXCEPT ![t] = r],
         Frame(o), ref'[o] \in {ref[o], None}, \A s \in Slots : secrets'[o][s] \in {None, secrets[o][s]},
         \A p \in Owners \ {o} : row'[p] = row[p],
         SecretTables', UNCHANGED <<saved, crossed>>,
         forgot' \in {forgot, forgot \cup {o}}, failed' \in {failed, failed \cup {o}},
         crossed[o] # "deletes" =>
           /\ r.step \in {"forget", "sweep", "row"} => ref'[o] = None
           /\ r.step = "forget" => \A s \in Slots : secrets'[o][s] = None \/ Has(r.todo, s)
           /\ r.step \in {"clear", "drop"} => r.todo = <<>>
           /\ r.step \in {"clear", "drop", "row"} => secrets'[o]["canonical"] = None \/ o \in failed'
           /\ r.step # "unbind"
           /\ ref'[o] # None => secrets'[o][ref'[o]] # None \/ (r.step \in {"clear", "drop"} /\ r.todo = <<>>)
           /\ ref'[o] = None /\ o \notin failed' /\ secrets'[o]["canonical"] # None => r.step \in {"forget", "sweep"} /\ Has(r.todo, "canonical")
           /\ o \in Lone /\ o \notin failed' /\ row'[o] = "there" /\ ref'[o] = None /\ secrets'[o]["legacy"] # None =>
                r.step = "row" \/ (r.step = "forget" /\ Has(r.todo, "legacy")),
         o \in forgot' \ forgot =>
           o \in Lone /\ r.owner = None /\ (crossed[o] # "deletes" => ref'[o] = None /\ \A s \in Slots : secrets'[o][s] = None)
  PROVE  SecretInv'
<1>1. SecretTables /\ CallTypes /\ OwnerOk(o)
  BY DEF SecretInv
<1>2. /\ o # None
      /\ \A u \in Pair : call'[u] = IF u = t THEN r ELSE call[u]
      /\ \A u \in Pair : On(u, o)' <=> IF u = t THEN r.owner = o ELSE On(u, o)
      /\ crossed[o] # "deletes" =>
           \A u \in Pair : u # t /\ On(u, o) => call[t].step \in Saving /\ call[u].step \in Saving
      /\ crossed[o] = "no" => \A u \in Pair : On(u, o) => u = t
      /\ CrossOk(o)'
  <2>1. call[t].step \in Saving => r.step \in Saving \cup {"idle"}
    BY DEF Saving, Deleting
  <2>2. QED
    BY <2>1, GoesOnFacts
<1>3. /\ ref'[o] \in Slots \cup {None} /\ None \notin Slots /\ crossed'[o] = crossed[o]
      /\ ref'[o] = "legacy" => ref[o] = "legacy"
  BY <1>1, NameAssumption DEF SecretTables, Slots
<1>4. crossed[o] # "deletes" => \A u \in Pair : On(u, o)' => u = t /\ call'[u] = r /\ r.step \in Deleting
  BY <1>2 DEF Saving, Deleting, CallOk
<1>5. LegacyOk(o)'
  <2>1. \A u \in Pair : On(u, o)' /\ call'[u].step = "link" => On(u, o) /\ call'[u] = call[u]
    BY <1>2 DEF Deleting
  <2>2. QED
    BY <1>1, <1>3, <2>1 DEF OwnerOk, LegacyOk
<1>6. SaveOk(o)'
  BY <1>3, <1>4 DEF SaveOk, Saving, Deleting
<1>7. DeleteOk(o)'
  BY <1>3, <1>4 DEF DeleteOk
<1>8. LinkOk(o)'
  <2>1. SUFFICES ASSUME crossed[o] # "deletes" PROVE LinkOk(o)'
    BY <1>3 DEF LinkOk
  <2>2. r.step \in Deleting => On(t, o)' /\ call'[t] = r
    BY <1>2 DEF CallOk, Deleting
  <2>3. ref'[o] # None => secrets'[o][ref'[o]] # None \/ \E u \in Pair : On(u, o)' /\ call'[u].step \in {"clear", "drop"} /\ call'[u].todo = <<>>
    BY <2>1, <2>2 DEF Deleting
  <2>4. ref'[o] = None /\ o \notin failed' /\ secrets'[o]["canonical"] # None =>
          \E u \in Pair : On(u, o)' /\ call'[u].step \in {"forget", "sweep"} /\ Has(call'[u].todo, "canonical")
    BY <2>1, <2>2 DEF Deleting
  <2>5. QED
    BY <1>3, <2>3, <2>4 DEF LinkOk
<1>9. SavedOk(o)'
  <2>1. SUFFICES ASSUME crossed[o] = "no" PROVE SavedOk(o)'
    BY <1>3 DEF SavedOk
  <2>2. \A u \in Pair : On(u, o)' => call'[u].step \in Deleting
    BY <1>4, <2>1
  <2>3. o \in saved \ failed => secrets[o]["canonical"] \in {None, "new"}
    BY <1>1, <2>1 DEF OwnerOk, SavedOk
  <2>4. secrets'[o]["canonical"] \in {None, secrets[o]["canonical"]}
    BY DEF Slots
  <2>5. r.step \in Deleting => On(t, o)' /\ call'[t] = r
    BY <1>2 DEF CallOk, Deleting
  <2>6. o \in Lone /\ o \notin failed' /\ row'[o] = "there" /\ ref'[o] = None /\ secrets'[o]["legacy"] # None =>
          \E u \in Pair : On(u, o)' /\ (call'[u].step = "row" \/ (call'[u].step = "forget" /\ Has(call'[u].todo, "legacy")))
    BY <2>1, <2>5 DEF Deleting
  <2>7. QED
    BY <1>3, <2>2, <2>3, <2>4, <2>6 DEF SavedOk, Deleting
<1>10. ForgotOk(o)'
  BY <1>1, <1>2, <1>3, <1>4 DEF OwnerOk, ForgotOk
<1>11. OwnerOk(o)'
  BY <1>2, <1>5, <1>6, <1>7, <1>8, <1>9, <1>10 DEF OwnerOk
<1>12. QED
  BY <1>11, SecretKeeps DEF On, Frame

\* The calls that begin.
LEMMA BeginStep ==
  ASSUME SecretInv, NEW t \in Pair, NEW o \in Owners,
         \/ \E explicit \in BOOLEAN : Secrets!Save(t, o, explicit)
         \/ Secrets!Recover(t, o) \/ Secrets!ClearKind(t, o) \/ Secrets!DeleteConnection(t, o)
         \/ Secrets!DeleteKeyVaultPassphrase(t, o) \/ Secrets!DeleteKeyVaultEntry(t, o) \/ Secrets!UpdateKeyVaultEntry(t, o)
  PROVE  SecretInv'
<1> DEFINE left == IF ref[o] = None THEN <<>> ELSE <<ref[o]>>
<1>1. /\ ref \in [Owners -> {"canonical", "legacy", None}] /\ LegacyOk(o) /\ o # None
      /\ None \notin {"canonical", "legacy", "old", "new"}
  BY NameAssumption DEF SecretInv, SecretTables, OwnerOk, Owners
<1>2. <<>> \in Todos /\ left \in One /\ left \in Todos
  BY <1>1, TodoFacts DEF Slots
<1>3. ASSUME NEW explicit \in BOOLEAN, Secrets!Save(t, o, explicit)
      PROVE  SecretInv'
  <2> DEFINE h == explicit /\ o \in Lone /\ ref[o] # None
             d == [Secrets!Idle EXCEPT !.value = "new", !.had = h]
             r == [d EXCEPT !.step = "set", !.owner = o]
  <2>1. r \in CallRecord /\ r.owner = o /\ r.step = "set" /\ (r.had => ref[o] # None)
    BY <1>2 DEF CallRecord, Saving, Secrets!Idle
  <2>2. CallOk(r)
    BY <1>1 DEF CallOk
  <2>3. Secrets!Begin(t, o, "set", d) /\ UNCHANGED <<row, ref, secrets, bound, saved, failed>> /\ row[o] = "there"
    BY <1>3 DEF Secrets!Save
  <2> HIDE DEF d
  <2>4. Begun(t, o, r)
    BY <2>1, <2>3 DEF Begun, Crossing, Secrets!Begin, Secrets!Saving, Saving
  <2> HIDE DEF h
  <2> HIDE DEF r
  <2>5. QED
    BY <2>1, <2>2, <2>3, <2>4, BeginKeeps
<1>4. CASE Secrets!Recover(t, o)
  <2> DEFINE d == Secrets!Idle
             r == [d EXCEPT !.step = "recover", !.owner = o]
  <2>1. o \in Lone /\ row[o] = "there" /\ ref[o] = None /\ UNCHANGED <<row, ref, secrets, bound, saved, failed>>
    BY <1>4 DEF Secrets!Recover
  <2>2. r \in CallRecord /\ r.owner = o /\ r.step = "recover"
    BY <1>2 DEF CallRecord, Saving, Secrets!Idle
  <2>3. CallOk(r)
    BY <1>1, <2>1 DEF CallOk
  <2>4. Secrets!Begin(t, o, "recover", d)
    BY <1>4 DEF Secrets!Recover
  <2> HIDE DEF d
  <2>5. Begun(t, o, r)
    BY <2>2, <2>4 DEF Begun, Crossing, Secrets!Begin, Secrets!Saving, Saving
  <2> HIDE DEF r
  <2>6. QED
    BY <2>1, <2>2, <2>3, <2>5, BeginKeeps
<1>5. CASE Secrets!ClearKind(t, o)
  <2> DEFINE q == IF ref[o] = "legacy" THEN <<"legacy", "canonical">> ELSE <<"canonical", "legacy">>
             d == [Secrets!Idle EXCEPT !.todo = q]
             r == [d EXCEPT !.step = "forget", !.owner = o]
  <2>1. /\ o \in Lone /\ row[o] = "there" /\ ref' = [ref EXCEPT ![o] = None]
        /\ UNCHANGED <<row, secrets, bound, saved, failed>>
    BY <1>5 DEF Secrets!ClearKind, Secrets!Refer
  <2>2. q \in Todos /\ \A s \in Slots : Has(q, s)
    BY TodoFacts
  <2>3. r \in CallRecord /\ r.owner = o /\ r.step = "forget" /\ r.todo = q
    BY <2>2 DEF CallRecord, Deleting, Secrets!Idle
  <2>4. CallOk(r)
    BY <1>1, <2>1 DEF CallOk
  <2>5. Secrets!Begin(t, o, "forget", d)
    BY <1>5 DEF Secrets!ClearKind
  <2> HIDE DEF d, q
  <2>6. Begun(t, o, r)
    BY <2>3, <2>5 DEF Begun, Crossing, Secrets!Begin, Secrets!Saving, Saving
  <2> HIDE DEF r
  <2>7. QED
    BY <2>1, <2>2, <2>3, <2>4, <2>6, BeginKeeps
<1>6. CASE Secrets!DeleteConnection(t, o) \/ Secrets!DeleteKeyVaultPassphrase(t, o) \/ Secrets!DeleteKeyVaultEntry(t, o)
  <2>1. PICK s \in {"clear", "drop", "unbind"} :
          /\ (IF s = "clear" THEN o \in Lone ELSE o \in Vault) /\ row[o] = "there"
          /\ Secrets!Begin(t, o, s, [Secrets!Idle EXCEPT !.todo = left])
          /\ UNCHANGED <<row, ref, secrets, bound, saved, failed>>
    BY <1>6 DEF Secrets!DeleteConnection, Secrets!DeleteKeyVaultPassphrase, Secrets!DeleteKeyVaultEntry
  <2> DEFINE d == [Secrets!Idle EXCEPT !.todo = left]
             r == [d EXCEPT !.step = s, !.owner = o]
  <2>2. r \in CallRecord /\ r.owner = o /\ r.step = s /\ r.todo = left
    BY <1>2 DEF CallRecord, Deleting, Secrets!Idle
  <2>3. CallOk(r)
    BY <1>1, <1>2, <2>1 DEF CallOk
  <2>4. Secrets!Begin(t, o, s, d)
    BY <2>1
  <2> HIDE DEF d
  <2>5. Begun(t, o, r)
    BY <2>2, <2>4 DEF Begun, Crossing, Secrets!Begin, Secrets!Saving, Saving
  <2> HIDE DEF r
  <2>6. QED
    BY <2>1, <2>2, <2>3, <2>5, BeginKeeps
<1>7. CASE Secrets!UpdateKeyVaultEntry(t, o)
  <2> DEFINE d == [Secrets!Idle EXCEPT !.todo = <<ref[o]>>]
             r == [d EXCEPT !.step = "sweep", !.owner = o]
  <2>1. /\ o \in Vault /\ row[o] = "there" /\ ref[o] # None /\ ref' = [ref EXCEPT ![o] = None]
        /\ UNCHANGED <<row, secrets, bound, saved, failed>>
    BY <1>7 DEF Secrets!UpdateKeyVaultEntry, Secrets!Refer
  <2>2. r \in CallRecord /\ r.owner = o /\ r.step = "sweep" /\ r.todo = <<ref[o]>> /\ r.todo \in One
    BY <1>2, <2>1 DEF CallRecord, Deleting, Secrets!Idle
  <2>3. CallOk(r)
    BY <1>1, <2>1, <2>2 DEF CallOk
  <2>4. Secrets!Begin(t, o, "sweep", d)
    BY <1>7 DEF Secrets!UpdateKeyVaultEntry
  <2> HIDE DEF d
  <2>5. Begun(t, o, r)
    BY <2>2, <2>4 DEF Begun, Crossing, Secrets!Begin, Secrets!Saving, Saving
  <2> HIDE DEF r
  <2>6. QED
    BY <2>1, <2>2, <2>3, <2>5, BeginKeeps
<1>8. QED
  BY <1>3, <1>4, <1>5, <1>6, <1>7

\* A call that is in progress, its record and its owner.
LEMMA CallFacts ==
  ASSUME SecretInv, NEW t \in Pair, call[t].step # "idle"
  PROVE  /\ call[t] \in CallRecord /\ CallOk(call[t]) /\ call[t].owner \in Owners
         /\ SecretTables /\ OwnerOk(call[t].owner)
BY DEF SecretInv, CallTypes, CallRecord, CallOk

\* No call.
LEMMA IdleFacts ==
  /\ Secrets!Idle \in CallRecord /\ CallOk(Secrets!Idle)
  /\ Secrets!Idle.step = "idle" /\ Secrets!Idle.owner = None
<1>1. <<>> \in Todos
  BY TodoFacts
<1>2. QED
  BY <1>1, NameAssumption DEF Secrets!Idle, CallRecord, CallOk, Owners

\* The steps of a call that saves.
LEMMA SaveStep ==
  ASSUME SecretInv, NEW t \in Pair, Secrets!SaveSets(t) \/ Secrets!SaveRefers(t)
  PROVE  SecretInv'
<1> DEFINE o == call[t].owner
           idle == Secrets!Idle
<1>1. /\ idle \in CallRecord /\ CallOk(idle) /\ idle.step = "idle" /\ idle.owner = None
      /\ None \notin {"canonical", "legacy", "old", "new"}
  BY IdleFacts, NameAssumption
<1>2. call[t].step \in {"set", "ref"}
  BY DEF Secrets!SaveSets, Secrets!SaveRefers, Secrets!At
<1>3. call[t] \in CallRecord /\ CallOk(call[t]) /\ o \in Owners /\ o # None /\ SecretTables /\ OwnerOk(o) /\ On(t, o)
  BY <1>2, CallFacts, NameAssumption DEF On, Owners
<1>4. /\ ref[o] \in Slots \cup {None} /\ secrets[o]["canonical"] \in {"old", "new", None}
      /\ ref[o] = "legacy" => o \in failed
  BY <1>3 DEF SecretTables, OwnerOk, LegacyOk, Slots
<1>5. crossed[o] # "deletes" => /\ row[o] = "there"
                                /\ call[t].step = "ref" => secrets[o]["canonical"] # None
                                /\ call[t].step = "set" /\ call[t].had => ref[o] # None
  BY <1>2, <1>3 DEF OwnerOk, SaveOk, Saving
<1>6. CASE Secrets!SaveSets(t)
  <2>1. call[t].step = "set" /\ call[t].value = "new" /\ UNCHANGED <<row, ref, bound, forgot, crossed>>
    BY <1>3, <1>6 DEF Secrets!SaveSets, Secrets!At, CallOk
  <2>2. CASE /\ secrets' = [secrets EXCEPT ![o]["canonical"] = "new"] /\ call[t].had
             /\ call' = [call EXCEPT ![t] = idle] /\ saved' = saved \cup {o} /\ failed' = failed
    <3> HIDE DEF idle, o
    <3>1. /\ Frame(o) /\ ref'[o] = ref[o] /\ secrets'[o]["canonical"] = "new"
           /\ secrets'[o]["legacy"] = secrets[o]["legacy"]
      BY <1>3, <2>1, <2>2, PresentFrame
    <3>2. QED
      BY <1>1, <1>3, <1>4, <1>5, <2>1, <2>2, <3>1, SavingKeeps DEF Saving
  <2>3. CASE /\ secrets' = [secrets EXCEPT ![o]["canonical"] = "new"]
             /\ call' = [call EXCEPT ![t].step = "ref"] /\ saved' = saved /\ failed' = failed
    <3> DEFINE r == [call[t] EXCEPT !.step = "ref"]
    <3>1. r \in CallRecord /\ r.step = "ref" /\ r.owner = o /\ r.had = call[t].had /\ call' = [call EXCEPT ![t] = r]
      BY <1>3, <2>3 DEF CallRecord, Saving
    <3>2. CallOk(r)
      BY <1>3, <2>1, <3>1 DEF CallOk
    <3>3. crossed[o] = "no" /\ o \in saved \ failed => o \in saved
      OBVIOUS
    <3> HIDE DEF idle, o, r
    <3>4. /\ Frame(o) /\ ref'[o] = ref[o] /\ secrets'[o]["canonical"] = "new"
           /\ secrets'[o]["legacy"] = secrets[o]["legacy"]
      BY <1>3, <2>1, <2>3, PresentFrame
    <3>5. QED
      BY <1>1, <1>3, <1>4, <1>5, <2>1, <2>3, <3>1, <3>2, <3>4, SavingKeeps DEF Saving
  <2>4. CASE /\ call' = [call EXCEPT ![t] = idle] /\ failed' = failed \cup {o} /\ UNCHANGED <<secrets, saved>>
    <3> HIDE DEF idle, o
    <3>1. Frame(o) /\ ref'[o] = ref[o] /\ secrets'[o] = secrets[o]
      BY <1>3, <2>1, <2>4, SameFrame
    <3>2. QED
      BY <1>1, <1>3, <1>4, <1>5, <2>1, <2>4, <3>1, SavingKeeps DEF Saving
  <2>5. QED
    BY <1>6, <2>1, <2>2, <2>3, <2>4 DEF Secrets!SaveSets, Secrets!Store, Secrets!Return, Secrets!Goto
<1>7. CASE Secrets!SaveRefers(t)
  <2>1. call[t].step = "ref" /\ call' = [call EXCEPT ![t] = idle] /\ UNCHANGED <<row, bound, forgot, crossed>>
    BY <1>7 DEF Secrets!SaveRefers, Secrets!At, Secrets!Return
  <2>2. crossed[o] = "no" => secrets[o]["canonical"] = "new"
    BY <1>3, <2>1 DEF OwnerOk, SavedOk
  <2>3. CASE row[o] = "there" /\ ref' = [ref EXCEPT ![o] = "canonical"] /\ saved' = saved \cup {o} /\ UNCHANGED <<secrets, failed>>
    <3> HIDE DEF idle, o
    <3>1. Frame(o) /\ ref'[o] = "canonical" /\ secrets'[o] = secrets[o]
      BY <1>3, <2>3, ReferFrame DEF Slots
    <3>2. QED
      BY <1>1, <1>3, <1>4, <1>5, <2>1, <2>2, <2>3, <3>1, SavingKeeps DEF Saving, Slots
  <2>4. CASE row[o] # "there" /\ UNCHANGED <<ref, saved>> /\ secrets' = [secrets EXCEPT ![o]["canonical"] = None] /\ failed' = failed
    <3> HIDE DEF idle, o
    <3>1. /\ Frame(o) /\ ref'[o] = ref[o] /\ secrets'[o]["canonical"] = None
           /\ secrets'[o]["legacy"] = secrets[o]["legacy"]
      BY <1>3, <2>4, PresentFrame
    <3>2. QED
      BY <1>1, <1>3, <1>4, <1>5, <2>1, <2>4, <3>1, SavingKeeps DEF Saving
  <2>5. CASE row[o] # "there" /\ UNCHANGED <<ref, saved>> /\ failed' = failed \cup {o} /\ secrets' = secrets
    <3> HIDE DEF idle, o
    <3>1. Frame(o) /\ ref'[o] = ref[o] /\ secrets'[o] = secrets[o]
      BY <1>3, <2>5, SameFrame
    <3>2. QED
      BY <1>1, <1>3, <1>4, <1>5, <2>1, <2>5, <3>1, SavingKeeps DEF Saving
  <2>6. QED
    BY <1>7, <2>3, <2>4, <2>5 DEF Secrets!SaveRefers, Secrets!Store, Secrets!Refer
<1>8. QED
  BY <1>6, <1>7

\* The steps of a recovery.
LEMMA RecoverStep ==
  ASSUME SecretInv, NEW t \in Pair, Secrets!RecoverReads(t) \/ Secrets!RecoverCopies(t) \/ Secrets!RecoverLinks(t)
  PROVE  SecretInv'
<1> DEFINE o == call[t].owner
           idle == Secrets!Idle
<1>1. /\ idle \in CallRecord /\ CallOk(idle) /\ idle.step = "idle" /\ idle.owner = None
      /\ None \notin {"canonical", "legacy", "old", "new"}
  BY IdleFacts, NameAssumption
<1>2. call[t].step \in {"recover", "copy", "link"}
  BY DEF Secrets!RecoverReads, Secrets!RecoverCopies, Secrets!RecoverLinks, Secrets!At
<1>3. call[t] \in CallRecord /\ CallOk(call[t]) /\ o \in Lone /\ o \in Owners /\ o # None /\ SecretTables /\ OwnerOk(o) /\ On(t, o)
  BY <1>2, CallFacts, NameAssumption DEF On, CallOk, Owners
<1>4. /\ ref[o] \in Slots \cup {None} /\ \A s \in Slots : secrets[o][s] \in {"old", "new", None}
      /\ ref[o] = "legacy" => o \in failed
  BY <1>3 DEF SecretTables, OwnerOk, LegacyOk, Slots
<1>5. crossed[o] # "deletes" => /\ row[o] = "there"
                                /\ call[t].step = "copy" => secrets[o]["legacy"] # None
                                /\ call[t].step = "link" => secrets[o][call[t].todo[1]] # None
  BY <1>2, <1>3 DEF OwnerOk, SaveOk, Saving
<1>6. crossed[o] = "no" /\ o \in saved \ failed => secrets[o]["canonical"] \in {None, "new"} /\ call[t].step # "copy"
  BY <1>3 DEF OwnerOk, SavedOk
<1>7. CASE Secrets!RecoverReads(t)
  <2>1. call[t].step = "recover" /\ UNCHANGED <<row, ref, secrets, bound, saved, forgot, failed, crossed>>
    BY <1>7 DEF Secrets!RecoverReads, Secrets!At
  <2>2. crossed[o] = "no" /\ o \in saved \ failed /\ secrets[o]["canonical"] = None => secrets[o]["legacy"] = None
    <3>1. SUFFICES ASSUME crossed[o] = "no", o \in saved \ failed, secrets[o]["canonical"] = None
                   PROVE  secrets[o]["legacy"] = None
      OBVIOUS
    <3>2. \A u \in Pair : On(u, o) => u = t
      BY <1>3, <3>1 DEF OwnerOk, CrossOk
    <3>3. ref[o] # None => secrets[o][ref[o]] # None
      BY <1>3, <2>1, <3>1, <3>2 DEF OwnerOk, LinkOk
    <3>4. ref[o] = None
      BY <1>4, <3>1, <3>3 DEF Slots
    <3>5. QED
      BY <1>3, <1>5, <2>1, <3>1, <3>2, <3>4 DEF OwnerOk, SavedOk
  <2>3. CASE secrets[o]["canonical"] # None /\ call' = [call EXCEPT ![t] = [@ EXCEPT !.step = "link", !.todo = <<"canonical">>]]
    <3> DEFINE r == [call[t] EXCEPT !.step = "link", !.todo = <<"canonical">>]
    <3>1. <<"canonical">> \in One /\ <<"canonical">> \in Todos /\ <<"canonical">> # <<>> /\ <<"canonical">>[1] = "canonical"
      BY TodoFacts DEF Slots
    <3>2. r \in CallRecord /\ r.step = "link" /\ r.owner = o /\ r.todo = <<"canonical">> /\ call' = [call EXCEPT ![t] = r]
      BY <1>3, <2>3, <3>1 DEF CallRecord, Saving
    <3>3. CallOk(r)
      BY <1>1, <1>3, <3>1, <3>2 DEF CallOk, Owners
    <3> HIDE DEF idle, o, r
    <3>4. Frame(o) /\ ref'[o] = ref[o] /\ secrets'[o] = secrets[o] /\ r.todo[1] = "canonical"
      BY <1>3, <2>1, <3>1, <3>2, SameFrame
    <3>5. QED
      BY <1>1, <1>3, <1>4, <1>6, <2>1, <2>3, <3>2, <3>3, <3>4, SavingKeeps DEF Saving, Slots
  <2>4. CASE /\ secrets[o]["canonical"] = None /\ secrets[o]["legacy"] # None
             /\ call' = [call EXCEPT ![t] = [@ EXCEPT !.step = "copy", !.value = secrets[o]["legacy"]]]
    <3> DEFINE r == [call[t] EXCEPT !.step = "copy", !.value = secrets[o]["legacy"]]
    <3>1. secrets[o]["legacy"] \in {"old", "new", None}
      BY <1>4 DEF Slots
    <3>2. r \in CallRecord /\ r.step = "copy" /\ r.owner = o /\ r.value = secrets[o]["legacy"] /\ call' = [call EXCEPT ![t] = r]
      BY <1>3, <2>4, <3>1 DEF CallRecord, Saving
    <3>3. CallOk(r)
      BY <1>1, <1>3, <2>4, <3>2 DEF CallOk, Owners
    <3> HIDE DEF idle, o, r
    <3>4. Frame(o) /\ ref'[o] = ref[o] /\ secrets'[o] = secrets[o]
      BY <1>3, <2>1, SameFrame
    <3>5. QED
      BY <1>1, <1>3, <1>4, <2>1, <2>2, <2>4, <3>2, <3>3, <3>4, SavingKeeps DEF Saving, Slots
  <2>5. CASE secrets[o]["canonical"] = None /\ secrets[o]["legacy"] = None /\ call' = [call EXCEPT ![t] = idle]
    <3> HIDE DEF idle, o
    <3>1. Frame(o) /\ ref'[o] = ref[o] /\ secrets'[o] = secrets[o]
      BY <1>3, <2>1, SameFrame
    <3>2. QED
      BY <1>1, <1>3, <1>4, <2>1, <2>5, <3>1, SavingKeeps DEF Saving, Slots
  <2>6. QED
    BY <1>7, <2>3, <2>4, <2>5 DEF Secrets!RecoverReads
<1>8. CASE Secrets!RecoverCopies(t)
  <2>1. /\ call[t].step = "copy" /\ call[t].value \in {"old", "new"}
        /\ UNCHANGED <<row, ref, bound, saved, forgot, crossed>>
    BY <1>3, <1>8 DEF Secrets!RecoverCopies, Secrets!At, CallOk, CallRecord
  <2>2. PICK s \in Slots :
          /\ call' = [call EXCEPT ![t] = [@ EXCEPT !.step = "link", !.todo = <<s>>]]
          /\ \/ s = "canonical" /\ secrets' = [secrets EXCEPT ![o]["canonical"] = call[t].value] /\ failed' = failed
             \/ s = "legacy" /\ secrets' = secrets /\ failed' = failed \cup {o}
    BY <1>8 DEF Secrets!RecoverCopies, Secrets!Store, Slots
  <2> DEFINE r == [call[t] EXCEPT !.step = "link", !.todo = <<s>>]
  <2>3. <<s>> \in One /\ <<s>> \in Todos /\ <<s>> # <<>> /\ <<s>>[1] = s
    BY TodoFacts
  <2>4. r \in CallRecord /\ r.step = "link" /\ r.owner = o /\ r.todo = <<s>> /\ call' = [call EXCEPT ![t] = r]
    BY <1>3, <2>2, <2>3 DEF CallRecord, Saving
  <2>5. CallOk(r)
    BY <1>1, <1>3, <2>3, <2>4 DEF CallOk, Owners
  <2>6. CASE s = "canonical"
    <3>1. secrets' = [secrets EXCEPT ![o]["canonical"] = call[t].value] /\ failed' = failed /\ r.todo[1] = "canonical"
      BY <2>2, <2>3, <2>4, <2>6
    <3>2. secrets'[o]["canonical"] = call[t].value
      BY <1>3, <3>1 DEF SecretTables, Slots
    <3> HIDE DEF idle, o, r
    <3>3. /\ Frame(o) /\ ref'[o] = ref[o] /\ secrets'[o]["canonical"] = call[t].value
           /\ secrets'[o]["legacy"] = secrets[o]["legacy"]
      BY <1>3, <2>1, <3>1, PresentFrame
    <3>4. QED
      BY <1>1, <1>3, <1>4, <1>6, <2>1, <2>4, <2>5, <3>1, <3>2, <3>3, SavingKeeps DEF Saving, Slots
  <2>7. CASE s = "legacy"
    <3>1. secrets' = secrets /\ failed' = failed \cup {o} /\ r.todo[1] = "legacy"
      BY <2>2, <2>3, <2>4, <2>7
    <3>2. secrets[o]["canonical"] \in {"old", "new", None}
      BY <1>4 DEF Slots
    <3> HIDE DEF idle, o, r
    <3>3. Frame(o) /\ ref'[o] = ref[o] /\ secrets'[o] = secrets[o]
      BY <1>3, <2>1, <3>1, SameFrame
    <3>4. QED
      BY <1>1, <1>3, <1>4, <1>5, <2>1, <2>4, <2>5, <3>1, <3>2, <3>3, SavingKeeps DEF Saving
  <2>8. QED
    BY <2>6, <2>7 DEF Slots
<1>9. CASE Secrets!RecoverLinks(t)
  <2>1. /\ call[t].step = "link" /\ call' = [call EXCEPT ![t] = idle]
        /\ UNCHANGED <<row, secrets, bound, saved, forgot, failed, crossed>>
        /\ IF row[o] = "there" THEN ref' = [ref EXCEPT ![o] = call[t].todo[1]] ELSE ref' = ref
    BY <1>9 DEF Secrets!RecoverLinks, Secrets!At, Secrets!Return, Secrets!Refer
  <2>2. call[t].todo[1] \in Slots /\ (call[t].todo[1] = "legacy" => o \in failed)
    <3>1. call[t].todo[1] \in Slots
      BY <1>3, <2>1, TodoFacts DEF CallOk
    <3>2. call[t].todo[1] = "legacy" => o \in failed
      BY <1>3, <2>1 DEF OwnerOk, LegacyOk
    <3>3. QED
      BY <3>1, <3>2
  <2>3. secrets[o]["canonical"] \in {"old", "new", None}
    BY <1>4 DEF Slots
  <2>4. CASE row[o] = "there"
    <3>1. ref' = [ref EXCEPT ![o] = call[t].todo[1]] /\ call[t].todo[1] # None
      BY <1>1, <2>1, <2>2, <2>4 DEF Slots
    <3> HIDE DEF idle, o
    <3>2. Frame(o) /\ ref'[o] = call[t].todo[1] /\ secrets'[o] = secrets[o]
      BY <1>3, <2>1, <2>2, <3>1, ReferFrame DEF Slots
    <3>3. QED
      BY <1>1, <1>3, <1>4, <1>5, <1>6, <2>1, <2>2, <2>3, <2>4, <3>1, <3>2, SavingKeeps DEF Saving
  <2>5. CASE row[o] # "there"
    <3>1. ref' = ref /\ crossed[o] = "deletes"
      <4>1. crossed[o] \in {"no", "saves", "deletes"}
        BY <1>3 DEF SecretTables
      <4>2. QED
        BY <1>5, <2>1, <2>5, <4>1
    <3> HIDE DEF idle, o
    <3>2. Frame(o) /\ ref'[o] = ref[o] /\ secrets'[o] = secrets[o]
      BY <1>3, <2>1, <3>1, SameFrame
    <3>3. QED
      BY <1>1, <1>3, <1>4, <2>1, <2>3, <3>1, <3>2, SavingKeeps DEF Saving
  <2>6. QED
    BY <2>4, <2>5
<1>10. QED
  BY <1>7, <1>8, <1>9

\* What is known of a call that deletes: nobody is beside it, or that has been noted.
LEMMA DeletingFacts ==
  ASSUME SecretInv, NEW t \in Pair, NEW o \in Owners, On(t, o), call[t].step \in Deleting, crossed[o] # "deletes"
  PROVE  /\ ref[o] # None => secrets[o][ref[o]] # None \/ (call[t].step \in {"clear", "drop"} /\ call[t].todo = <<>>)
         /\ ref[o] = None /\ o \notin failed /\ secrets[o]["canonical"] # None =>
              call[t].step \in {"forget", "sweep"} /\ Has(call[t].todo, "canonical")
         /\ call[t].step \in {"forget", "sweep", "row"} => ref[o] = None
         /\ call[t].step = "forget" => \A s \in Slots : secrets[o][s] = None \/ Has(call[t].todo, s)
         /\ call[t].step \in {"clear", "drop", "unbind"} /\ call[t].todo # <<>> => ref[o] = call[t].todo[1]
         /\ call[t].step = "unbind" /\ call[t].todo = <<>> => ref[o] = None
         /\ call[t].step \in {"clear", "drop", "row"} /\ call[t].todo = <<>> =>
              secrets[o]["canonical"] = None \/ o \in failed
<1>1. OwnerOk(o)
  BY DEF SecretInv
<1>2. \A u \in Pair : On(u, o) => u = t
  BY <1>1 DEF OwnerOk, CrossOk, Deleting, Saving
<1>3. LinkOk(o) /\ DeleteOk(o)
  BY <1>1 DEF OwnerOk
<1>4. /\ ref[o] # None => secrets[o][ref[o]] # None \/ (call[t].step \in {"clear", "drop"} /\ call[t].todo = <<>>)
      /\ ref[o] = None /\ o \notin failed /\ secrets[o]["canonical"] # None =>
           call[t].step \in {"forget", "sweep"} /\ Has(call[t].todo, "canonical")
  BY <1>2, <1>3 DEF LinkOk, Deleting
<1>5. QED
  BY <1>3, <1>4 DEF DeleteOk

\* A secret is deleted.
LEMMA DeleteStep ==
  ASSUME SecretInv, NEW t \in Pair, Secrets!DeleteSecret(t)
  PROVE  SecretInv'
<1> DEFINE o == call[t].owner
           q == call[t].todo
           s == Head(q)
           idle == Secrets!Idle
<1>1. /\ idle \in CallRecord /\ CallOk(idle) /\ idle.step = "idle" /\ idle.owner = None
      /\ None \notin {"canonical", "legacy", "old", "new"}
  BY IdleFacts, NameAssumption
<1>2. call[t].step \in {"forget", "clear", "drop", "sweep"} /\ q # <<>> /\ UNCHANGED <<row, ref, bound, saved, forgot, crossed>>
  BY DEF Secrets!DeleteSecret
<1>3. call[t] \in CallRecord /\ CallOk(call[t]) /\ o \in Owners /\ o # None /\ SecretTables /\ OwnerOk(o) /\ On(t, o)
  BY <1>2, CallFacts, NameAssumption DEF On, Owners
<1>4. /\ q \in Todos /\ s \in Slots /\ q[1] = s /\ Tail(q) \in One /\ Tail(q) \in Todos
      /\ \A p \in Slots : Has(q, p) => p = s \/ Has(Tail(q), p)
      /\ call[t].step # "forget" => Tail(q) = <<>>
  <2>1. q \in Todos
    BY <1>3 DEF CallRecord
  <2>2. call[t].step # "forget" => q \in One
    BY <1>2, <1>3 DEF CallOk
  <2>3. QED
    BY <1>2, <2>1, <2>2, TodoFacts
<1>5. crossed[o] # "deletes" =>
        /\ ref[o] # None => secrets[o][ref[o]] # None
        /\ ref[o] = None /\ o \notin failed /\ secrets[o]["canonical"] # None =>
             call[t].step \in {"forget", "sweep"} /\ Has(q, "canonical")
        /\ call[t].step \in {"forget", "sweep"} => ref[o] = None
        /\ call[t].step = "forget" => \A p \in Slots : secrets[o][p] = None \/ Has(q, p)
        /\ call[t].step \in {"clear", "drop"} => ref[o] = s
  BY <1>2, <1>3, <1>4, DeletingFacts DEF Deleting
<1>6. ref[o] = "legacy" => o \in failed
  BY <1>3 DEF OwnerOk, LegacyOk
<1>7. CASE secrets' = [secrets EXCEPT ![o][s] = None] /\ failed' = failed /\ call' = [call EXCEPT ![t].todo = Tail(@)]
  <2> DEFINE r == [call[t] EXCEPT !.todo = Tail(q)]
  <2>1. r \in CallRecord /\ r.step = call[t].step /\ r.owner = o /\ r.todo = Tail(q) /\ call' = [call EXCEPT ![t] = r]
    BY <1>3, <1>4, <1>7 DEF CallRecord
  <2>2. CallOk(r)
    BY <1>2, <1>3, <1>4, <2>1 DEF CallOk
  <2>3. /\ Frame(o) /\ ref'[o] = ref[o] /\ secrets'[o][s] = None
        /\ \A p \in Slots \ {s} : secrets'[o][p] = secrets[o][p]
    <3>1. SecretTables /\ o \in Owners /\ s \in Slots /\ ref' = ref /\ secrets' = [secrets EXCEPT ![o][s] = None]
      BY <1>2, <1>3, <1>4, <1>7
    <3> HIDE DEF o, s, q
    <3>2. QED
      BY <3>1 DEF SecretTables, Frame, Slots
  <2>4. SecretTables'
    BY <1>2, <1>3, <1>7, <2>3 DEF SecretTables, Frame, Slots
  <2>5. crossed[o] # "deletes" =>
          /\ r.step = "forget" => \A p \in Slots : secrets'[o][p] = None \/ Has(r.todo, p)
          /\ r.step \in {"clear", "drop"} => r.todo = <<>> /\ (secrets'[o]["canonical"] = None \/ o \in failed')
          /\ ref'[o] # None => r.step \in {"clear", "drop"} /\ r.todo = <<>>
    <3> HIDE DEF r, q, s, o
    <3>1. QED
      BY <1>1, <1>2, <1>4, <1>5, <1>6, <1>7, <2>1, <2>3 DEF Slots
  <2>6. crossed[o] # "deletes" =>
          /\ ref'[o] = None /\ o \notin failed' /\ secrets'[o]["canonical"] # None =>
               r.step \in {"forget", "sweep"} /\ Has(r.todo, "canonical")
          /\ ref'[o] = None /\ secrets'[o]["legacy"] # None /\ o \in Lone => r.step = "forget" /\ Has(r.todo, "legacy")
    <3>1. o \in Lone => call[t].step \in {"forget", "clear"}
      BY <1>2, <1>3, NameAssumption DEF CallOk
    <3> HIDE DEF r, q, s, o
    <3>2. QED
      BY <1>1, <1>2, <1>4, <1>5, <1>6, <1>7, <2>1, <2>3, <3>1 DEF Slots
  <2>7. \A p \in Slots : secrets'[o][p] \in {None, secrets[o][p]}
    BY <2>3
  <2> HIDE DEF r, q, s, o, idle
  <2>8. crossed[o] # "deletes" =>
          /\ r.step \in {"forget", "sweep", "row"} => ref'[o] = None
          /\ r.step = "forget" => \A p \in Slots : secrets'[o][p] = None \/ Has(r.todo, p)
          /\ r.step \in {"clear", "drop"} => r.todo = <<>>
          /\ r.step \in {"clear", "drop", "row"} => secrets'[o]["canonical"] = None \/ o \in failed'
          /\ r.step # "unbind"
          /\ ref'[o] # None => secrets'[o][ref'[o]] # None \/ (r.step \in {"clear", "drop"} /\ r.todo = <<>>)
          /\ ref'[o] = None /\ o \notin failed' /\ secrets'[o]["canonical"] # None =>
               r.step \in {"forget", "sweep"} /\ Has(r.todo, "canonical")
          /\ o \in Lone /\ o \notin failed' /\ row'[o] = "there" /\ ref'[o] = None /\ secrets'[o]["legacy"] # None =>
               r.step = "row" \/ (r.step = "forget" /\ Has(r.todo, "legacy"))
    BY <1>2, <2>1, <2>5, <2>6
  <2>9. /\ call[t].step \in Deleting /\ r.step \in Deleting \cup {"idle"} /\ r.owner \in {o, None}
        /\ ref'[o] \in {ref[o], None} /\ \A p \in Owners \ {o} : row'[p] = row[p]
        /\ UNCHANGED <<saved, crossed>> /\ forgot' = forgot /\ failed' = failed
    BY <1>2, <1>7, <2>1, <2>3 DEF Deleting
  <2>10. QED
    BY <1>3, <2>1, <2>2, <2>3, <2>4, <2>7, <2>8, <2>9, DeletingKeeps
<1>8. CASE failed' = failed \cup {o} /\ secrets' = secrets /\ call' = [call EXCEPT ![t] = idle]
  <2>1. Frame(o) /\ ref'[o] = ref[o] /\ secrets'[o] = secrets[o]
    BY <1>2, <1>3, <1>8, SameFrame
  <2>2. SecretTables'
    BY <1>2, <1>3, <1>8 DEF SecretTables
  <2> HIDE DEF q, s, o, idle
  <2>3. QED
    BY <1>1, <1>2, <1>3, <1>5, <1>8, <2>1, <2>2, DeletingKeeps DEF Deleting
<1>9. QED
  BY <1>7, <1>8 DEF Secrets!DeleteSecret, Secrets!Store, Secrets!Return

\* A deletion ends, or goes on to the database.
LEMMA EndStep ==
  ASSUME SecretInv, NEW t \in Pair, Secrets!Deleted(t) \/ Secrets!Unrefer(t) \/ Secrets!DropConnection(t)
  PROVE  SecretInv'
<1> DEFINE o == call[t].owner
           idle == Secrets!Idle
<1>1. /\ idle \in CallRecord /\ CallOk(idle) /\ idle.step = "idle" /\ idle.owner = None
      /\ None \notin {"canonical", "legacy", "old", "new"}
  BY IdleFacts, NameAssumption
<1>2. call[t].step \in {"forget", "clear", "drop", "sweep", "row"} /\ UNCHANGED <<secrets, saved, failed, crossed>>
  BY DEF Secrets!Deleted, Secrets!Unrefer, Secrets!DropConnection, Secrets!At
<1>3. call[t] \in CallRecord /\ CallOk(call[t]) /\ o \in Owners /\ o # None /\ SecretTables /\ OwnerOk(o) /\ On(t, o)
  BY <1>2, CallFacts, NameAssumption DEF On, Owners
<1>4. call[t].todo = <<>>
  BY <1>3 DEF Secrets!Deleted, Secrets!Unrefer, Secrets!DropConnection, Secrets!At, CallOk
<1>5. crossed[o] # "deletes" =>
        /\ secrets[o]["canonical"] = None \/ o \in failed \/ ref[o] # None
        /\ call[t].step \in {"clear", "drop"} => secrets[o]["canonical"] = None \/ o \in failed
        /\ call[t].step \in {"forget", "sweep", "row"} => ref[o] = None
        /\ call[t].step = "forget" => \A s \in Slots : secrets[o][s] = None
  BY <1>2, <1>3, <1>4, DeletingFacts, TodoFacts DEF Deleting, Slots
<1>6. secrets[o]["legacy"] = None \/ secrets[o]["legacy"] # None
  OBVIOUS
<1>7. o \in Lone => call[t].step \in {"forget", "clear", "row"}
  BY <1>2, <1>3, NameAssumption DEF CallOk
<1>8. CASE Secrets!Deleted(t)
  <2>1. /\ call[t].step \in {"forget", "sweep"} /\ call' = [call EXCEPT ![t] = idle] /\ UNCHANGED <<row, ref, bound>>
        /\ forgot' = IF call[t].step = "forget" THEN forgot \cup {o} ELSE forgot
    BY <1>8 DEF Secrets!Deleted, Secrets!Return, Secrets!At
  <2>2. Frame(o) /\ ref'[o] = ref[o] /\ secrets'[o] = secrets[o]
    BY <1>2, <1>3, <2>1, SameFrame
  <2>3. SecretTables'
    BY <1>2, <1>3, <2>1 DEF SecretTables
  <2>4. call[t].step = "forget" => o \in Lone
    BY <1>3 DEF CallOk
  <2>5. crossed[o] # "deletes" /\ o \in Lone => secrets[o]["legacy"] = None
    BY <1>5, <1>7, <2>1 DEF Slots
  <2> HIDE DEF o, idle
  <2>6. QED
    BY <1>1, <1>2, <1>3, <1>5, <2>1, <2>2, <2>3, <2>4, <2>5, DeletingKeeps DEF Deleting
<1>9. CASE Secrets!Unrefer(t)
  <2>1. /\ call[t].step \in {"clear", "drop"} /\ ref' = [ref EXCEPT ![o] = None] /\ UNCHANGED <<row, bound, forgot>>
        /\ call' = IF call[t].step = "clear" THEN [call EXCEPT ![t].step = "row"] ELSE [call EXCEPT ![t] = idle]
    BY <1>9 DEF Secrets!Unrefer, Secrets!Return, Secrets!Goto, Secrets!Refer, Secrets!At
  <2>2. Frame(o) /\ ref'[o] = None /\ secrets'[o] = secrets[o]
    BY <1>2, <1>3, <2>1, ReferFrame
  <2>3. SecretTables'
    BY <1>2, <1>3, <2>1 DEF SecretTables
  <2>4. CASE call[t].step = "clear"
    <3> DEFINE r == [call[t] EXCEPT !.step = "row"]
    <3>1. r \in CallRecord /\ r.step = "row" /\ r.owner = o /\ r.todo = <<>> /\ call' = [call EXCEPT ![t] = r]
      BY <1>3, <1>4, <2>1, <2>4 DEF CallRecord, Deleting
    <3>2. CallOk(r)
      BY <1>3, <2>4, <3>1 DEF CallOk
    <3> HIDE DEF o, idle, r
    <3>3. QED
      BY <1>1, <1>2, <1>3, <1>5, <2>1, <2>2, <2>3, <3>1, <3>2, DeletingKeeps DEF Deleting
  <2>5. CASE call[t].step = "drop"
    <3>1. call' = [call EXCEPT ![t] = idle] /\ o \notin Lone
      BY <1>7, <2>1, <2>5
    <3> HIDE DEF o, idle
    <3>2. QED
      BY <1>1, <1>2, <1>3, <1>5, <2>1, <2>2, <2>3, <3>1, DeletingKeeps DEF Deleting
  <2>6. QED
    BY <2>1, <2>4, <2>5
<1>10. CASE Secrets!DropConnection(t)
  <2>1. /\ call[t].step = "row" /\ ref' = [ref EXCEPT ![o] = None] /\ row' = [row EXCEPT ![o] = "gone"]
        /\ bound' = [bound EXCEPT ![o] = None] /\ forgot' = forgot /\ call' = [call EXCEPT ![t] = idle]
    BY <1>10 DEF Secrets!DropConnection, Secrets!Return, Secrets!Refer, Secrets!At
  <2>2. Frame(o) /\ ref'[o] = None /\ secrets'[o] = secrets[o]
    BY <1>2, <1>3, <2>1, ReferFrame
  <2>3. o \in Lone /\ o \notin Vault
    BY <1>3, <2>1, NameAssumption DEF CallOk
  <2>4. SecretTables'
    <3>1. row' \in [Owners -> {"absent", "there", "gone"}] /\ bound' \in [Lone -> Vault \cup {None}]
      BY <1>3, <2>1, <2>3 DEF SecretTables
    <3>2. \A p \in Owners : ref'[p] # None => row'[p] = "there"
      BY <1>3, <2>1, <2>2 DEF SecretTables, Frame
    <3>3. \A c \in Lone : bound'[c] # None => row'[bound'[c]] = "there"
      BY <1>3, <2>1, <2>3, <3>1 DEF SecretTables, Owners
    <3>4. QED
      BY <1>2, <1>3, <2>1, <2>2, <3>1, <3>2, <3>3 DEF SecretTables, Frame, Slots
  <2>5. row'[o] = "gone" /\ \A p \in Owners \ {o} : row'[p] = row[p]
    BY <1>3, <2>1 DEF SecretTables
  <2> HIDE DEF o, idle
  <2>6. QED
    BY <1>1, <1>2, <1>3, <1>5, <2>1, <2>2, <2>4, <2>5, DeletingKeeps DEF Deleting
<1>11. QED
  BY <1>8, <1>9, <1>10

\* A key leaves the vault, unless a server uses it.
LEMMA UnbindStep ==
  ASSUME SecretInv, NEW t \in Pair, NEW force \in BOOLEAN, Secrets!DeleteKeyVaultEntryWithUnbind(t, force)
  PROVE  SecretInv'
<1> DEFINE o == call[t].owner
           idle == Secrets!Idle
<1>1. /\ idle \in CallRecord /\ CallOk(idle) /\ idle.step = "idle" /\ idle.owner = None
      /\ None \notin {"canonical", "legacy", "old", "new"}
  BY IdleFacts, NameAssumption
<1>2. call[t].step = "unbind" /\ UNCHANGED <<secrets, saved, forgot, failed, crossed>>
  BY DEF Secrets!DeleteKeyVaultEntryWithUnbind, Secrets!At
<1>3. call[t] \in CallRecord /\ CallOk(call[t]) /\ o \in Owners /\ o # None /\ SecretTables /\ OwnerOk(o) /\ On(t, o)
  BY <1>2, CallFacts, NameAssumption DEF On, Owners
<1>4. o \in Vault /\ o \notin Lone /\ call[t].todo \in One
  BY <1>2, <1>3, NameAssumption DEF CallOk
<1>5. crossed[o] # "deletes" =>
        /\ ref[o] # None => secrets[o][ref[o]] # None
        /\ ref[o] = None => secrets[o]["canonical"] = None \/ o \in failed
        /\ IF call[t].todo = <<>> THEN ref[o] = None ELSE ref[o] = call[t].todo[1]
  BY <1>2, <1>3, DeletingFacts DEF Deleting
<1>6. ref[o] = "legacy" => o \in failed
  BY <1>3 DEF OwnerOk, LegacyOk
<1>7. CASE /\ row' = [row EXCEPT ![o] = "gone"] /\ ref' = [ref EXCEPT ![o] = None]
           /\ bound' = [c \in Lone |-> IF bound[c] = o THEN None ELSE bound[c]]
           /\ call' = [call EXCEPT ![t].step = "sweep"]
  <2> DEFINE r == [call[t] EXCEPT !.step = "sweep"]
  <2>1. r \in CallRecord /\ r.step = "sweep" /\ r.owner = o /\ r.todo = call[t].todo /\ call' = [call EXCEPT ![t] = r]
    BY <1>3, <1>7 DEF CallRecord, Deleting
  <2>2. CallOk(r)
    BY <1>3, <1>4, <2>1 DEF CallOk
  <2>3. Frame(o) /\ ref'[o] = None /\ secrets'[o] = secrets[o]
    BY <1>2, <1>3, <1>7, ReferFrame
  <2>4. SecretTables'
    <3>1. row' \in [Owners -> {"absent", "there", "gone"}] /\ bound' \in [Lone -> Vault \cup {None}]
      BY <1>3, <1>7 DEF SecretTables
    <3>2. \A p \in Owners : ref'[p] # None => row'[p] = "there"
      BY <1>3, <1>7, <2>3 DEF SecretTables, Frame
    <3>3. \A c \in Lone : bound'[c] # None => row'[bound'[c]] = "there"
      BY <1>3, <1>4, <1>7 DEF SecretTables, Owners
    <3>4. QED
      BY <1>2, <1>3, <2>3, <3>1, <3>2, <3>3 DEF SecretTables, Frame, Slots
  <2>5. \A p \in Owners \ {o} : row'[p] = row[p]
    BY <1>3, <1>7 DEF SecretTables
  <2>6. crossed[o] # "deletes" /\ o \notin failed' /\ secrets'[o]["canonical"] # None => Has(r.todo, "canonical")
    <3>1. SUFFICES ASSUME crossed[o] # "deletes", o \notin failed, secrets[o]["canonical"] # None
                   PROVE  Has(r.todo, "canonical")
      BY <1>2, <2>3
    <3>2. ref[o] # None /\ call[t].todo # <<>> /\ ref[o] = call[t].todo[1] /\ ref[o] # "legacy"
      BY <1>5, <1>6, <3>1
    <3>3. call[t].todo = <<"canonical">>
      BY <1>4, <3>2, TodoFacts DEF One, Slots
    <3>4. QED
      BY <2>1, <3>3, TodoFacts DEF Slots
  <2> HIDE DEF o, idle, r
  <2>7. QED
    BY <1>1, <1>2, <1>3, <1>4, <2>1, <2>2, <2>3, <2>4, <2>5, <2>6, DeletingKeeps DEF Deleting
<1>8. CASE call' = [call EXCEPT ![t] = idle] /\ UNCHANGED <<row, ref, bound>>
  <2>1. Frame(o) /\ ref'[o] = ref[o] /\ secrets'[o] = secrets[o]
    BY <1>2, <1>3, <1>8, SameFrame
  <2>2. SecretTables'
    BY <1>2, <1>3, <1>8 DEF SecretTables
  <2> HIDE DEF o, idle
  <2>3. QED
    BY <1>1, <1>2, <1>3, <1>4, <1>5, <1>8, <2>1, <2>2, DeletingKeeps DEF Deleting
<1>9. QED
  BY <1>7, <1>8 DEF Secrets!DeleteKeyVaultEntryWithUnbind, Secrets!Return, Secrets!Goto, Secrets!Refer

\* A key is created, or a server takes one.
LEMMA VaultStep ==
  ASSUME SecretInv,
         \E k \in Vault : Secrets!CreateKeyVaultEntry(k) \/ \E c \in Lone : Secrets!Bind(c, k)
  PROVE  SecretInv'
<1>1. SecretTables /\ CallTypes /\ \A o \in Owners : OwnerOk(o)
  BY DEF SecretInv
<1>2. UNCHANGED <<ref, secrets, call, saved, forgot, failed, crossed>>
  BY DEF Secrets!CreateKeyVaultEntry, Secrets!Bind
<1>3. \A o \in Owners : row'[o] = row[o] \/ (row[o] = "absent" /\ row'[o] = "there" /\ o \in Vault)
  BY <1>1 DEF Secrets!CreateKeyVaultEntry, Secrets!Bind, SecretTables
<1>4. SecretTables'
  <2>1. PICK k \in Vault : Secrets!CreateKeyVaultEntry(k) \/ \E c \in Lone : Secrets!Bind(c, k)
    OBVIOUS
  <2>2. row' \in [Owners -> {"absent", "there", "gone"}] /\ bound' \in [Lone -> Vault \cup {None}]
    BY <1>1, <2>1 DEF Secrets!CreateKeyVaultEntry, Secrets!Bind, SecretTables, Owners
  <2>3. \A c \in Lone : bound'[c] # None => row'[bound'[c]] = "there"
    BY <1>1, <2>1 DEF Secrets!CreateKeyVaultEntry, Secrets!Bind, SecretTables, Owners
  <2>4. QED
    BY <1>1, <1>2, <1>3, <2>2, <2>3 DEF SecretTables
<1>5. CallTypes'
  BY <1>1, <1>2 DEF CallTypes, CallOk
<1>6. ASSUME NEW o \in Owners
      PROVE  OwnerOk(o)'
  <2>1. OwnerOk(o) /\ (row[o] = "there" => row'[o] = "there") /\ (o \in Lone => row'[o] = row[o])
    BY <1>1, <1>3, NameAssumption DEF Owners
  <2>2. CrossOk(o)' /\ LegacyOk(o)' /\ SaveOk(o)' /\ DeleteOk(o)'
    BY <1>2, <2>1 DEF OwnerOk, On, CrossOk, LegacyOk, SaveOk, DeleteOk
  <2>3. LinkOk(o)' /\ SavedOk(o)' /\ ForgotOk(o)'
    BY <1>2, <2>1 DEF OwnerOk, On, LinkOk, SavedOk, ForgotOk
  <2>4. QED
    BY <2>2, <2>3 DEF OwnerOk
<1>7. QED
  BY <1>4, <1>5, <1>6 DEF SecretInv

\* Every step keeps the invariant.
LEMMA SecretStep ==
  ASSUME SecretInv, [Secrets!Next]_(Secrets!vars)
  PROVE  SecretInv'
<1>1. CASE UNCHANGED Secrets!vars
  BY <1>1 DEF Secrets!vars, SecretInv, SecretTables, CallTypes, CallOk, OwnerOk, On, CrossOk, LegacyOk, SaveOk, DeleteOk,
              LinkOk, SavedOk, ForgotOk
<1>2. ASSUME NEW t \in Pair, NEW o \in Owners,
             \/ \E explicit \in BOOLEAN : Secrets!Save(t, o, explicit)
             \/ Secrets!Recover(t, o) \/ Secrets!ClearKind(t, o) \/ Secrets!DeleteConnection(t, o)
             \/ Secrets!DeleteKeyVaultPassphrase(t, o) \/ Secrets!DeleteKeyVaultEntry(t, o) \/ Secrets!UpdateKeyVaultEntry(t, o)
      PROVE  SecretInv'
  BY <1>2, BeginStep
<1>3. ASSUME NEW t \in Pair,
             \/ Secrets!SaveSets(t) \/ Secrets!SaveRefers(t)
             \/ Secrets!RecoverReads(t) \/ Secrets!RecoverCopies(t) \/ Secrets!RecoverLinks(t)
             \/ Secrets!DeleteSecret(t) \/ Secrets!Deleted(t) \/ Secrets!Unrefer(t) \/ Secrets!DropConnection(t)
             \/ \E force \in BOOLEAN : Secrets!DeleteKeyVaultEntryWithUnbind(t, force)
      PROVE  SecretInv'
  BY <1>3, SaveStep, RecoverStep, DeleteStep, EndStep, UnbindStep
<1>4. CASE \E k \in Vault : Secrets!CreateKeyVaultEntry(k) \/ \E c \in Lone : Secrets!Bind(c, k)
  BY <1>4, VaultStep
<1>5. QED
  BY <1>1, <1>2, <1>3, <1>4 DEF Secrets!Next, Secrets!Owners, Owners

\* A secret that is shown as saved can be read, and is the one saved; one that was deleted with
\* success is under neither of its names, and a server or key that has gone leaves none, however
\* saves, recoveries and deletions overlap and whichever calls the system's store refuses, as
\* long as no deletion has run beside another call on the same owner.
THEOREM SecretsSound == Spec => []SecretsAreKept
<1> DEFINE Inv == part = "credentials" => SecretInv
<1>1. Init => Inv
  <2>1. SUFFICES ASSUME Secrets!Init PROVE SecretInv
    BY DEF Init
  <2>2. /\ row = [o \in Owners |-> IF o \in Lone THEN "there" ELSE "absent"] /\ ref = [o \in Owners |-> None]
        /\ bound = [c \in Lone |-> None] /\ call = [t \in Pair |-> Secrets!Idle]
        /\ saved = {} /\ forgot = {} /\ failed = {} /\ crossed = [o \in Owners |-> "no"]
        /\ secrets \in [Owners -> {Secrets!NoSecret, [Secrets!NoSecret EXCEPT !["legacy"] = "old"]}]
    BY <2>1 DEF Secrets!Init, Secrets!Owners, Owners
  <2>3. secrets \in [Owners -> [Slots -> {"old", "new", None}]] /\ \A o \in Owners : secrets[o]["canonical"] = None
    BY <2>2, NameAssumption DEF Secrets!NoSecret, Secrets!Slots, Slots
  <2>4. SecretTables
    BY <2>2, <2>3 DEF SecretTables
  <2>5. CallTypes /\ \A t \in Pair : call[t].owner = None
    BY <2>2, IdleFacts DEF CallTypes
  <2>6. ASSUME NEW o \in Owners
        PROVE  OwnerOk(o)
    <3>1. \A t \in Pair : ~On(t, o)
      BY <2>5, NameAssumption DEF On, Owners
    <3>2. ref[o] = None /\ secrets[o]["canonical"] = None
      BY <2>2, <2>3
    <3>3. QED
      BY <2>2, <3>1, <3>2, NameAssumption DEF OwnerOk, CrossOk, LegacyOk, SaveOk, DeleteOk, LinkOk, SavedOk, ForgotOk
  <2>7. QED
    BY <2>4, <2>5, <2>6 DEF SecretInv
<1>2. Inv /\ [Next]_vars => Inv'
  <2>1. [Next]_vars /\ part' = "credentials" => part = "credentials" /\ [Secrets!Next]_(Secrets!vars)
    BY DEF Next, vars, Secrets!vars
  <2>2. QED
    BY <2>1, SecretStep
<1>3. Inv => SecretsAreKept
  <2>1. SUFFICES ASSUME SecretInv PROVE Secrets!SecretsAreKept
    BY DEF SecretsAreKept
  <2>2. SecretTables /\ CallTypes /\ \A o \in Owners : OwnerOk(o)
    BY <2>1 DEF SecretInv
  <2>3. Secrets!TypeOK
    BY <2>2 DEF SecretTables, CallTypes, CallRecord, Secrets!TypeOK, Secrets!Owners, Owners, Secrets!Slots, Slots, Secrets!Values
  <2>4. \A o \in Owners : ref[o] \in Slots \cup {None} /\ None \notin Slots
    BY <2>2, NameAssumption DEF SecretTables, Slots
  <2>5. Secrets!SavedIsUsable
    BY <2>2 DEF OwnerOk, LinkOk, On, Secrets!SavedIsUsable, Secrets!Settled, Secrets!Quiet, Secrets!Owners, Owners
  <2>6. Secrets!SavedIsUsed
    <3>1. SUFFICES ASSUME NEW o \in saved, Secrets!Quiet(o), crossed[o] = "no", o \notin failed, ref[o] # None
                   PROVE  secrets[o][ref[o]] = "new"
      BY DEF Secrets!SavedIsUsed
    <3>2. o \in Owners /\ OwnerOk(o) /\ \A t \in Pair : ~On(t, o)
      BY <2>2, <3>1 DEF SecretTables, Secrets!Quiet, On
    <3>3. ref[o] = "canonical"
      BY <2>4, <3>1, <3>2 DEF OwnerOk, LegacyOk, Slots
    <3>4. secrets[o]["canonical"] # None /\ secrets[o]["canonical"] \in {None, "new"}
      BY <3>1, <3>2, <3>3 DEF OwnerOk, LinkOk, SavedOk
    <3>5. QED
      BY <3>3, <3>4
  <2>7. Secrets!ForgottenStays
    <3>1. SUFFICES ASSUME NEW c \in Lone, c \in forgot, crossed[c] # "deletes"
                   PROVE  ref[c] = None /\ secrets[c] = Secrets!NoSecret
      BY DEF Secrets!ForgottenStays, Secrets!Settled
    <3>2. c \in Owners /\ OwnerOk(c) /\ secrets[c] \in [Slots -> {"old", "new", None}]
      BY <2>2 DEF SecretTables, Owners
    <3>3. ref[c] = None /\ \A s \in Slots : secrets[c][s] = None
      BY <3>1, <3>2 DEF OwnerOk, ForgotOk
    <3>4. QED
      BY <3>2, <3>3 DEF Secrets!NoSecret, Secrets!Slots, Slots
  <2>8. Secrets!GoneIsForgotten
    <3>1. SUFFICES ASSUME NEW o \in Owners \ failed, Secrets!Quiet(o), crossed[o] # "deletes", row[o] = "gone"
                   PROVE  secrets[o]["canonical"] = None
      BY DEF Secrets!GoneIsForgotten, Secrets!Settled, Secrets!Owners, Owners
    <3>2. OwnerOk(o) /\ ref[o] = None
      BY <2>2, <3>1 DEF SecretTables
    <3>3. QED
      BY <3>1, <3>2 DEF OwnerOk, LinkOk, On, Secrets!Quiet
  <2>9. QED
    BY <2>3, <2>5, <2>6, <2>7, <2>8 DEF Secrets!SecretsAreKept
<1>4. QED
  BY <1>1, <1>2, <1>3, PTL DEF Spec

\* Of finitely many things with numbers one has the least.
LEMMA FirstOne ==
  ASSUME NEW S, IsFiniteSet(S), S # {}, NEW f, \A x \in S : f[x] \in Int
  PROVE  \E x \in S : \A y \in S : f[x] <= f[y]
<1> DEFINE Below(x) == {u \in S : f[u] < f[x]}
           T == {Below(x) : x \in S}
<1>1. IsWellFoundedOn(StrictSubsetOrdering(S), SUBSET S)
  BY FS_StrictSubsetOrderingWellFounded, FS_FiniteSubsetsOfFinite
<1>2. T \subseteq SUBSET S /\ T # {}
  OBVIOUS
<1>3. PICK A \in T : \A B \in T : ~(<<B, A>> \in StrictSubsetOrdering(S))
  <2> HIDE DEF T
  <2>1. QED
    BY <1>1, <1>2, WFMin
<1>4. PICK x \in S : A = Below(x)
  BY <1>3
<1>5. ASSUME NEW y \in S, f[y] < f[x]
      PROVE  FALSE
  <2>1. Below(y) \subseteq Below(x) /\ y \in Below(x) /\ y \notin Below(y)
    BY <1>5
  <2>2. Below(y) \in T
    OBVIOUS
  <2>3. <<Below(y), Below(x)>> \in StrictSubsetOrdering(S)
    BY <2>1 DEF StrictSubsetOrdering
  <2>4. QED
    BY <1>3, <1>4, <2>2, <2>3
<1>6. QED
  BY <1>5

\* And one the greatest.
LEMMA LastOne ==
  ASSUME NEW S, IsFiniteSet(S), S # {}, NEW f, \A x \in S : f[x] \in Int
  PROVE  \E x \in S : \A y \in S : f[y] <= f[x]
<1> DEFINE g == [x \in S |-> 0 - f[x]]
<1>1. \A x \in S : g[x] \in Int /\ g[x] = 0 - f[x]
  OBVIOUS
<1> HIDE DEF g
<1>2. PICK x \in S : \A y \in S : g[x] <= g[y]
  BY <1>1, FirstOne
<1>3. \A y \in S : f[y] <= f[x]
  BY <1>1, <1>2
<1>4. QED
  BY <1>3

\* Of things with different numbers, at most `n` have fewer than `n` that are greater.
LEMMA FewAreLast ==
  ASSUME NEW S, IsFiniteSet(S), NEW f, \A x \in S : f[x] \in Nat,
         \A x, y \in S : f[x] = f[y] => x = y, NEW n \in Nat,
         NEW K, K \subseteq S, \A x \in K : Cardinality({y \in S : f[y] > f[x]}) < n
  PROVE  Cardinality(K) <= n
<1>1. IsFiniteSet(K) /\ Cardinality(K) \in Nat
  BY FS_Subset, FS_CardinalityType
<1>2. CASE K = {}
  BY <1>2, FS_EmptySet
<1>3. CASE K # {}
  <2>1. \A x \in K : f[x] \in Nat
    OBVIOUS
  <2>2. PICK x \in K : \A y \in K : f[x] <= f[y]
    BY <1>1, <1>3, <2>1, FirstOne
  <2> DEFINE G == {y \in S : f[y] > f[x]}
  <2>3. IsFiniteSet(G) /\ Cardinality(G) \in Nat /\ Cardinality(G) < n
    <3>1. G \subseteq S
      OBVIOUS
    <3>2. IsFiniteSet(G) /\ Cardinality(G) \in Nat
      BY <3>1, FS_Subset, FS_CardinalityType
    <3>3. QED
      BY <3>2
  <2>4. K \ {x} \subseteq G
    BY <2>2
  <2>5. Cardinality(K \ {x}) <= Cardinality(G)
    <3> HIDE DEF G
    <3>1. QED
      BY <2>3, <2>4, FS_Subset
  <2>6. Cardinality(K \ {x}) = Cardinality(K) - 1
    <3>1. Cardinality(K \ {x}) = IF x \in K THEN Cardinality(K) - 1 ELSE Cardinality(K)
      BY <1>1, FS_RemoveElement
    <3>2. QED
      BY <3>1
  <2> HIDE DEF G
  <2>7. QED
    BY <1>1, <2>3, <2>5, <2>6
<1>4. QED
  BY <1>2, <1>3


\* An image has no more members than its domain.
LEMMA ImageSize ==
  ASSUME NEW S, IsFiniteSet(S), NEW f
  PROVE  IsFiniteSet({f[x] : x \in S}) /\ Cardinality({f[x] : x \in S}) <= Cardinality(S)
<1> DEFINE T == {f[x] : x \in S}
           g == [x \in S |-> f[x]]
<1>1. g \in [S -> T] /\ \A t \in T : \E x \in S : g[x] = t
  OBVIOUS
<1>2. g \in Surjection(S, T)
  BY <1>1 DEF Surjection
<1>3. QED
  BY <1>2, FS_Surjection

-----------------------------------------------------------------------------
\* The history of commands.

servers == v1
history == v2
batch == v3
targets == v4
clock == v5
limit == v6
work == v7
peak == v8
unpruned == v9
twice == v10
latest == v11

USE DEF servers, history, batch, targets, clock, limit, work, peak, unpruned, twice, latest

Workers == Savers \cup Dialers
WorkRec(H) ==
  [step : {"idle", "read", "write", "prune", "batch"}, server : H \cup {None}, command : Pair \cup {None},
   at : Nat, row : Nat, alone : BOOLEAN]
Entry(H) == [id : Nat, server : H, command : Pair, at : Nat]
BatchEntry(H, D) == [id : Nat, submission : D, command : Pair, sent : SUBSET H]

\* A call that records a command, and one that has a moment which no row has yet.
Working(w) == w.step \in {"read", "write", "prune"}
Waiting(w) == w.step \in {"read", "write"}
WorkOk(w, H) == IF Working(w) THEN w.server \in H /\ w.command \in Pair ELSE w.server = None

EntryTypes(hi, se, H) == hi \subseteq Entry(H) /\ IsFiniteSet(hi) /\ \A e \in hi : e.server \in se
WorkTypes(wk, H) == wk \in [Workers -> WorkRec(H)] /\ \A c \in Workers : WorkOk(wk[c], H)
LimitTypes(li, pk) == li \in 1..MaxLimit /\ pk \in 1..MaxLimit /\ li <= pk

HistoryTypes(H, D, T) ==
  /\ T \in Nat /\ None \notin H /\ clock \in 0..T /\ servers \subseteq H
  /\ EntryTypes(history, servers, H) /\ batch \subseteq BatchEntry(H, D)
  /\ LimitTypes(limit, peak) /\ WorkTypes(work, H)
  /\ unpruned \in [H -> Nat] /\ latest = [s \in H |-> latest[s]]

\* A moment belongs to one entry, batch entry or call.
MomentsOk(hi, ba, wk, cl) ==
  /\ \A e \in hi : e.id \in 1..cl /\ e.at \in 1..cl
  /\ \A b \in ba : b.id \in 1..cl
  /\ \A e, f \in hi : e.id \in {f.id, f.at} \/ e.at = f.at => e = f
  /\ \A e \in hi : \A b \in ba : b.id # e.id /\ b.id # e.at
  /\ \A c \in Workers : Waiting(wk[c]) =>
       /\ wk[c].at \in 1..cl
       /\ \A e \in hi : wk[c].at # e.id /\ wk[c].at # e.at
       /\ \A b \in ba : wk[c].at # b.id
       /\ \A d \in Workers : Waiting(wk[d]) /\ wk[c].at = wk[d].at => c = d

\* The row that a call has found is of its server, and of its command if it is alone.
RowOk(hi, wk, cl) ==
  \A c \in Workers : wk[c].step = "write" /\ wk[c].row # 0 =>
    /\ wk[c].row <= cl
    /\ \A e \in hi : e.id = wk[c].row =>
         e.server = wk[c].server /\ (wk[c].alone => e.command = wk[c].command)
    /\ \A d \in Workers : Waiting(wk[d]) => wk[d].at # wk[c].row

\* What is there twice, or will be, was recorded by two calls at once, or edited.
UniqueOk(hi, wk, tw) ==
  /\ \A e, f \in hi : e.server = f.server /\ e.command = f.command /\ <<e.server, e.command>> \notin tw => e = f
  /\ \A c \in Workers : wk[c].step = "write" /\ wk[c].row = 0 /\ <<wk[c].server, wk[c].command>> \notin tw =>
       \A e \in hi : ~(e.server = wk[c].server /\ e.command = wk[c].command)
  /\ \A c, d \in Workers :
       Working(wk[c]) /\ Working(wk[d]) /\ wk[c].server = wk[d].server /\ wk[c].command = wk[d].command
       /\ <<wk[c].server, wk[c].command>> \notin tw => c = d

\* The entries of a server and the calls that have still to prune them.
EntriesOf(hi, s) == {e \in hi : e.server = s}
Pruners(wk, s) == {c \in Workers : wk[c].step = "prune" /\ wk[c].server = s}
BoundOk(hi, wk, un, pk, H) ==
  \A s \in H : /\ IsFiniteSet(Pruners(wk, s))
               /\ Cardinality(EntriesOf(hi, s)) <= pk + un[s] + Cardinality(Pruners(wk, s))

\* What is in the list of a server, and what heads it.
Tells(hi, ba, ta, s, x, t) ==
  \/ \E e \in hi : e.server = s /\ e.command = x /\ e.at = t
  \/ \E b \in ba : <<b.id, s>> \in ta /\ b.command = x /\ b.id = t
UpTo(hi, ba, ta, s, t) == \A y : \A u \in Nat : Tells(hi, ba, ta, s, y, u) => u <= t
Head1(hi, ba, ta, s, x) == \E t \in Nat : Tells(hi, ba, ta, s, x, t) /\ UpTo(hi, ba, ta, s, t)
HeadRow(hi, ba, ta, s, x) == \E e \in hi : e.server = s /\ e.command = x /\ UpTo(hi, ba, ta, s, e.at)
Free(wk, s) == \A c \in Workers : wk[c].server # s
LatestOk(hi, ba, ta, wk, la, H) ==
  \A s \in H : la[s] # None => Free(wk, s) /\ Head1(hi, ba, ta, s, la[s])

\* A call that is alone on its server is newer than all of its list.
AloneOk(hi, ba, ta, wk) ==
  \A c \in Workers : Working(wk[c]) /\ wk[c].alone =>
    /\ \A d \in Workers : d # c => wk[d].server # wk[c].server
    /\ Waiting(wk[c]) => UpTo(hi, ba, ta, wk[c].server, wk[c].at)
    /\ wk[c].step = "prune" => HeadRow(hi, ba, ta, wk[c].server, wk[c].command)

\* The targets of a batch entry are those it was sent to that still exist.
BatchOk(ba, ta, se) ==
  /\ \A b, x \in ba : b.id = x.id \/ b.submission = x.submission => b = x
  /\ \A b \in ba : b.sent # {} /\ \A s : <<b.id, s>> \in ta <=> s \in b.sent /\ s \in se
  /\ \A t \in ta : \E b \in ba : \E s \in se : t = <<b.id, s>>

HistoryInv(H, D, T) ==
  /\ HistoryTypes(H, D, T)
  /\ MomentsOk(history, batch, work, clock) /\ RowOk(history, work, clock) /\ UniqueOk(history, work, twice)
  /\ BoundOk(history, work, unpruned, peak, H)
  /\ LatestOk(history, batch, targets, work, latest, H) /\ AloneOk(history, batch, targets, work)
  /\ BatchOk(batch, targets, servers)


\* Calls of which some have ended, or record nothing more, and some are no longer alone.
Calms(wq, wk) ==
  \A d \in Workers :
    \/ ~Working(wq[d]) /\ wq[d].server = None
    \/ /\ wq[d].step = wk[d].step /\ wq[d].server = wk[d].server /\ wq[d].command = wk[d].command
       /\ wq[d].at = wk[d].at /\ wq[d].row = wk[d].row
       /\ wq[d].alone => wk[d].alone

\* Fewer calls and entries have moments of their own.
LEMMA MomentsLess ==
  ASSUME NEW hi, NEW ba, NEW wk, NEW cl \in Nat, MomentsOk(hi, ba, wk, cl),
         NEW h2, h2 \subseteq hi, NEW b2, \A b \in b2 : \E x \in ba : x.id = b.id,
         NEW wq, Calms(wq, wk), NEW c2 \in Nat, cl <= c2
  PROVE  MomentsOk(h2, b2, wq, c2)
<1>1. \A c \in Workers : Waiting(wq[c]) => Waiting(wk[c]) /\ wq[c].at = wk[c].at
  BY DEF Calms, Waiting, Working
<1>2. \A n \in 1..cl : n \in 1..c2
  OBVIOUS
<1>3. \A e \in h2 : e.id \in 1..c2 /\ e.at \in 1..c2
  BY <1>2 DEF MomentsOk
<1>4. \A b \in b2 : b.id \in 1..c2
  BY <1>2 DEF MomentsOk
<1>5. /\ \A e, f \in h2 : e.id \in {f.id, f.at} \/ e.at = f.at => e = f
      /\ \A e \in h2 : \A b \in b2 : b.id # e.id /\ b.id # e.at
  BY DEF MomentsOk
<1>6. \A c \in Workers : Waiting(wq[c]) =>
        /\ wq[c].at \in 1..c2
        /\ \A e \in h2 : wq[c].at # e.id /\ wq[c].at # e.at
        /\ \A b \in b2 : wq[c].at # b.id
        /\ \A d \in Workers : Waiting(wq[d]) /\ wq[c].at = wq[d].at => c = d
  BY <1>1, <1>2 DEF MomentsOk
<1>7. QED
  BY <1>3, <1>4, <1>5, <1>6 DEF MomentsOk

\* They have found their rows.
LEMMA RowLess ==
  ASSUME NEW hi, NEW wk, NEW cl \in Nat, RowOk(hi, wk, cl), \A c \in Workers : wk[c].row \in Nat,
         NEW h2, h2 \subseteq hi, NEW wq, Calms(wq, wk), NEW c2 \in Nat, cl <= c2
  PROVE  RowOk(h2, wq, c2)
<1> SUFFICES ASSUME NEW c \in Workers, wq[c].step = "write", wq[c].row # 0
             PROVE  /\ wq[c].row <= c2
                    /\ \A e \in h2 : e.id = wq[c].row =>
                         e.server = wq[c].server /\ (wq[c].alone => e.command = wq[c].command)
                    /\ \A d \in Workers : Waiting(wq[d]) => wq[d].at # wq[c].row
  BY DEF RowOk
<1>1. /\ wk[c].step = "write" /\ wk[c].server = wq[c].server /\ wk[c].command = wq[c].command
      /\ wk[c].row = wq[c].row /\ (wq[c].alone => wk[c].alone)
  BY DEF Calms, Working
<1>2. \A d \in Workers : Waiting(wq[d]) => Waiting(wk[d]) /\ wq[d].at = wk[d].at
  BY DEF Calms, Waiting, Working
<1>3. wq[c].row <= c2
  BY <1>1 DEF RowOk
<1>4. QED
  BY <1>1, <1>2, <1>3 DEF RowOk

\* Nothing is there twice for that.
LEMMA UniqueLess ==
  ASSUME NEW hi, NEW wk, NEW tw, UniqueOk(hi, wk, tw), NEW h2, h2 \subseteq hi,
         NEW wq, Calms(wq, wk), NEW t2, tw \subseteq t2
  PROVE  UniqueOk(h2, wq, t2)
<1>1. \A c \in Workers : Working(wq[c]) =>
        Working(wk[c]) /\ wq[c].server = wk[c].server /\ wq[c].command = wk[c].command
        /\ wq[c].step = wk[c].step /\ wq[c].row = wk[c].row
  BY DEF Calms, Working
<1>2. /\ \A e, f \in h2 : e.server = f.server /\ e.command = f.command /\ <<e.server, e.command>> \notin t2 => e = f
      /\ \A c \in Workers : wq[c].step = "write" /\ wq[c].row = 0 /\ <<wq[c].server, wq[c].command>> \notin t2 =>
           \A e \in h2 : ~(e.server = wq[c].server /\ e.command = wq[c].command)
  BY <1>1 DEF UniqueOk, Working
<1>3. \A c, d \in Workers :
       Working(wq[c]) /\ Working(wq[d]) /\ wq[c].server = wq[d].server /\ wq[c].command = wq[d].command
       /\ <<wq[c].server, wq[c].command>> \notin t2 => c = d
  BY <1>1 DEF UniqueOk
<1>4. QED
  BY <1>2, <1>3 DEF UniqueOk

\* The list of a server has nothing new, and all of its own entries.
Lesser(h2, b2, t2, hi, ba, ta, s) ==
  /\ \A e \in hi : e.server = s => e \in h2
  /\ \A y : \A u \in Nat : Tells(h2, b2, t2, s, y, u) => Tells(hi, ba, ta, s, y, u)

\* A call that is alone is still so.
LEMMA AloneLess ==
  ASSUME NEW hi, NEW ba, NEW ta, NEW wk, AloneOk(hi, ba, ta, wk), \A c \in Workers : wk[c].server = None => ~Working(wk[c]),
         NEW h2, NEW b2, NEW t2, NEW wq, Calms(wq, wk),
         \A c \in Workers : Working(wq[c]) /\ wq[c].alone => Lesser(h2, b2, t2, hi, ba, ta, wq[c].server)
  PROVE  AloneOk(h2, b2, t2, wq)
<1> SUFFICES ASSUME NEW c \in Workers, Working(wq[c]), wq[c].alone
             PROVE  /\ \A d \in Workers : d # c => wq[d].server # wq[c].server
                    /\ Waiting(wq[c]) => UpTo(h2, b2, t2, wq[c].server, wq[c].at)
                    /\ wq[c].step = "prune" => HeadRow(h2, b2, t2, wq[c].server, wq[c].command)
  BY DEF AloneOk
<1>1. /\ Working(wk[c]) /\ wk[c].alone /\ wq[c].step = wk[c].step /\ wq[c].server = wk[c].server
      /\ wq[c].command = wk[c].command /\ wq[c].at = wk[c].at
  BY DEF Calms, Working
<1>2. \A d \in Workers : wq[d].server \in {None, wk[d].server}
  BY DEF Calms
<1>3. \A d \in Workers : d # c => wq[d].server # wq[c].server
  BY <1>1, <1>2 DEF AloneOk
<1>4. \A t : UpTo(hi, ba, ta, wq[c].server, t) => UpTo(h2, b2, t2, wq[c].server, t)
  BY DEF Lesser, UpTo
<1>5. Waiting(wq[c]) => UpTo(h2, b2, t2, wq[c].server, wq[c].at)
  BY <1>1, <1>4 DEF AloneOk, Waiting
<1>6. wq[c].step = "prune" => HeadRow(h2, b2, t2, wq[c].server, wq[c].command)
  BY <1>1, <1>4 DEF AloneOk, HeadRow, Lesser
<1>7. QED
  BY <1>3, <1>5, <1>6

\* A list that is the same has the same head.
LEMMA LatestLess ==
  ASSUME NEW hi, NEW ba, NEW ta, NEW wk, NEW la, NEW H, None \notin H, LatestOk(hi, ba, ta, wk, la, H),
         NEW h2, NEW b2, NEW t2, NEW wq, Calms(wq, wk), NEW l2,
         \A s \in H : l2[s] # None => /\ l2[s] = la[s]
                                      /\ \A y : \A u \in Nat : Tells(h2, b2, t2, s, y, u) <=> Tells(hi, ba, ta, s, y, u)
  PROVE  LatestOk(h2, b2, t2, wq, l2, H)
<1> SUFFICES ASSUME NEW s \in H, l2[s] # None
             PROVE  Free(wq, s) /\ Head1(h2, b2, t2, s, l2[s])
  BY DEF LatestOk
<1>1. Free(wk, s) /\ Head1(hi, ba, ta, s, la[s]) /\ l2[s] = la[s]
  BY DEF LatestOk
<1>2. \A y : \A u \in Nat : Tells(h2, b2, t2, s, y, u) <=> Tells(hi, ba, ta, s, y, u)
  OBVIOUS
<1>3. Free(wq, s)
  BY <1>1 DEF Free, Calms
<1>4. Head1(h2, b2, t2, s, la[s])
  BY <1>1, <1>2 DEF Head1, UpTo
<1>5. QED
  BY <1>1, <1>3, <1>4

\* An entry that all others are older than heads the list.
LEMMA HeadOfRow ==
  ASSUME NEW hi, NEW ba, NEW ta, NEW s, NEW x, HeadRow(hi, ba, ta, s, x), \A e \in hi : e.at \in Nat
  PROVE  Head1(hi, ba, ta, s, x)
BY DEF HeadRow, Head1, Tells

\* Another row of another server changes nothing for this one.
LEMMA SameCalms == ASSUME NEW wk PROVE Calms(wk, wk)
BY DEF Calms


\* A call that begins to record the command `x` on `s`, at the next moment.
Starts1(wq, wk, c, s, x, cl) ==
  /\ c \in Workers /\ wk[c].step = "idle"
  /\ wq[c].step = "read" /\ wq[c].server = s /\ wq[c].command = x /\ wq[c].at = cl + 1 /\ wq[c].row = 0
  /\ wq[c].alone => \A d \in Workers : wk[d].server # s
  /\ \A d \in Workers : d # c =>
       /\ wq[d].step = wk[d].step /\ wq[d].server = wk[d].server /\ wq[d].command = wk[d].command
       /\ wq[d].at = wk[d].at /\ wq[d].row = wk[d].row
       /\ wq[d].alone => wk[d].alone /\ wk[d].server # s

\* Its moment is new.
LEMMA MomentsStart ==
  ASSUME NEW hi, NEW ba, NEW wk, NEW cl \in Nat, MomentsOk(hi, ba, wk, cl),
         NEW wq, NEW c, NEW s, NEW x, Starts1(wq, wk, c, s, x, cl)
  PROVE  MomentsOk(hi, ba, wq, cl + 1)
<1>1. \A d \in Workers : d # c /\ Waiting(wq[d]) => Waiting(wk[d]) /\ wq[d].at = wk[d].at /\ wk[d].at \in 1..cl
  BY DEF Starts1, Waiting, MomentsOk
<1>2. wq[c].at = cl + 1 /\ cl + 1 \in 1..(cl + 1) /\ \A n \in 1..cl : n \in 1..(cl + 1) /\ n # cl + 1
  BY DEF Starts1
<1>3. /\ \A e \in hi : e.id \in 1..cl /\ e.at \in 1..cl
      /\ \A b \in ba : b.id \in 1..cl
  BY DEF MomentsOk
<1>4. /\ \A e, f \in hi : e.id \in {f.id, f.at} \/ e.at = f.at => e = f
      /\ \A e \in hi : \A b \in ba : b.id # e.id /\ b.id # e.at
  BY DEF MomentsOk
<1>5. ASSUME NEW d \in Workers, Waiting(wq[d])
      PROVE  /\ wq[d].at \in 1..(cl + 1)
             /\ \A e \in hi : wq[d].at # e.id /\ wq[d].at # e.at
             /\ \A b \in ba : wq[d].at # b.id
             /\ \A g \in Workers : Waiting(wq[g]) /\ wq[d].at = wq[g].at => d = g
  <2>1. CASE d = c
    BY <1>1, <1>2, <1>3, <2>1
  <2>2. CASE d # c
    <3>1. Waiting(wk[d]) /\ wq[d].at = wk[d].at /\ wk[d].at \in 1..cl
      BY <1>1, <1>5, <2>2
    <3>2. \A g \in Workers : Waiting(wq[g]) /\ wq[d].at = wq[g].at => d = g
      <4>1. ASSUME NEW g \in Workers, Waiting(wq[g]), wq[d].at = wq[g].at
            PROVE  d = g
        <5>1. g # c
          BY <1>2, <3>1, <4>1
        <5>2. QED
          BY <1>1, <3>1, <4>1, <5>1 DEF MomentsOk
      <4>2. QED
        BY <4>1
    <3>3. QED
      BY <1>2, <3>1, <3>2 DEF MomentsOk
  <2>3. QED
    BY <2>1, <2>2
<1>6. \A e \in hi : e.id \in 1..(cl + 1) /\ e.at \in 1..(cl + 1)
  BY <1>2, <1>3
<1>7. \A b \in ba : b.id \in 1..(cl + 1)
  BY <1>2, <1>3
<1>8. QED
  BY <1>4, <1>5, <1>6, <1>7 DEF MomentsOk

\* Rows that were found are older.
LEMMA RowStart ==
  ASSUME NEW hi, NEW wk, NEW cl \in Nat, RowOk(hi, wk, cl), \A d \in Workers : wk[d].row \in Nat,
         NEW wq, NEW c, NEW s, NEW x, Starts1(wq, wk, c, s, x, cl)
  PROVE  RowOk(hi, wq, cl + 1)
<1> SUFFICES ASSUME NEW d \in Workers, wq[d].step = "write", wq[d].row # 0
             PROVE  /\ wq[d].row <= cl + 1
                    /\ \A e \in hi : e.id = wq[d].row =>
                         e.server = wq[d].server /\ (wq[d].alone => e.command = wq[d].command)
                    /\ \A g \in Workers : Waiting(wq[g]) => wq[g].at # wq[d].row
  BY DEF RowOk
<1>1. /\ d # c /\ wk[d].step = "write" /\ wk[d].server = wq[d].server /\ wk[d].command = wq[d].command
      /\ wk[d].row = wq[d].row /\ (wq[d].alone => wk[d].alone)
  BY DEF Starts1
<1>2. wk[d].row <= cl /\ wk[d].row \in Nat
  BY <1>1 DEF RowOk
<1>3. \A g \in Workers : Waiting(wq[g]) => wq[g].at # wq[d].row
  <2>1. \A g \in Workers : g # c /\ Waiting(wq[g]) => Waiting(wk[g]) /\ wq[g].at = wk[g].at
    BY DEF Starts1, Waiting
  <2>2. wq[c].at # wq[d].row
    <3>1. wq[c].at = cl + 1
      BY DEF Starts1
    <3>2. QED
      BY <1>1, <1>2, <3>1
  <2>3. QED
    BY <1>1, <2>1, <2>2 DEF RowOk
<1>4. wq[d].row <= cl + 1
  BY <1>1, <1>2
<1>5. QED
  BY <1>1, <1>3, <1>4 DEF RowOk

\* Two calls with one command are noted.
LEMMA UniqueStart ==
  ASSUME NEW hi, NEW wk, NEW tw, UniqueOk(hi, wk, tw), NEW cl,
         NEW wq, NEW c, NEW s, NEW x, Starts1(wq, wk, c, s, x, cl),
         NEW t2, tw \subseteq t2, (\E d \in Workers : wk[d].server = s /\ wk[d].command = x) => <<s, x>> \in t2
  PROVE  UniqueOk(hi, wq, t2)
<1>1. /\ \A d \in Workers : d # c => wq[d].step = wk[d].step /\ wq[d].server = wk[d].server
                                  /\ wq[d].command = wk[d].command /\ wq[d].row = wk[d].row
      /\ wq[c].step = "read" /\ wq[c].server = s /\ wq[c].command = x
  BY DEF Starts1
<1>2. \A e, f \in hi : e.server = f.server /\ e.command = f.command /\ <<e.server, e.command>> \notin t2 => e = f
  BY DEF UniqueOk
<1>3. \A d \in Workers : wq[d].step = "write" /\ wq[d].row = 0 /\ <<wq[d].server, wq[d].command>> \notin t2 =>
        \A e \in hi : ~(e.server = wq[d].server /\ e.command = wq[d].command)
  BY <1>1 DEF UniqueOk
<1>4. ASSUME NEW d \in Workers, NEW g \in Workers, Working(wq[d]), Working(wq[g]), wq[d].server = wq[g].server,
             wq[d].command = wq[g].command, <<wq[d].server, wq[d].command>> \notin t2
      PROVE  d = g
  <2>1. CASE d = c \/ g = c
    BY <1>1, <1>4, <2>1
  <2>2. CASE d # c /\ g # c
    <3>1. Working(wk[d]) /\ Working(wk[g])
      BY <1>1, <1>4, <2>2 DEF Working
    <3>2. QED
      BY <1>1, <1>4, <2>2, <3>1 DEF UniqueOk
  <2>3. QED
    BY <2>1, <2>2
<1>5. QED
  BY <1>2, <1>3, <1>4 DEF UniqueOk

\* All that is in a list is of an earlier moment.
LEMMA ListsUpTo ==
  ASSUME NEW hi, NEW ba, NEW ta, NEW wk, NEW cl \in Nat, MomentsOk(hi, ba, wk, cl), NEW s
  PROVE  UpTo(hi, ba, ta, s, cl) /\ UpTo(hi, ba, ta, s, cl + 1)
<1>1. \A y : \A u \in Nat : Tells(hi, ba, ta, s, y, u) => u \in 1..cl
  <2>1. (\A e \in hi : e.at \in 1..cl) /\ (\A b \in ba : b.id \in 1..cl)
    BY DEF MomentsOk
  <2>2. QED
    BY <2>1 DEF Tells
<1>2. \A u \in 1..cl : u <= cl /\ u <= cl + 1
  OBVIOUS
<1>3. QED
  BY <1>1, <1>2 DEF UpTo

\* The call that begins is newer than the list of its server.
LEMMA AloneStart ==
  ASSUME NEW hi, NEW ba, NEW ta, NEW wk, AloneOk(hi, ba, ta, wk), NEW cl \in Nat, MomentsOk(hi, ba, wk, cl),
         NEW wq, NEW c, NEW s, NEW x, Starts1(wq, wk, c, s, x, cl)
  PROVE  AloneOk(hi, ba, ta, wq)
<1> SUFFICES ASSUME NEW d \in Workers, Working(wq[d]), wq[d].alone
             PROVE  /\ \A g \in Workers : g # d => wq[g].server # wq[d].server
                    /\ Waiting(wq[d]) => UpTo(hi, ba, ta, wq[d].server, wq[d].at)
                    /\ wq[d].step = "prune" => HeadRow(hi, ba, ta, wq[d].server, wq[d].command)
  BY DEF AloneOk
<1>1. \A g \in Workers : g # c => wq[g].server = wk[g].server
  BY DEF Starts1
<1>2. CASE d = c
  <2>1. wq[c].step = "read" /\ wq[c].server = s /\ wq[c].at = cl + 1 /\ \A g \in Workers : wk[g].server # s
    BY <1>2 DEF Starts1
  <2>2. UpTo(hi, ba, ta, s, cl + 1)
    BY ListsUpTo
  <2>3. QED
    BY <1>1, <1>2, <2>1, <2>2
<1>3. CASE d # c
  <2>1. /\ wk[d].alone /\ wk[d].server # s /\ wq[c].server = s
        /\ wq[d].step = wk[d].step /\ wq[d].server = wk[d].server /\ wq[d].command = wk[d].command
        /\ wq[d].at = wk[d].at
    BY <1>3 DEF Starts1
  <2>2. Working(wk[d]) /\ (Waiting(wq[d]) => Waiting(wk[d]))
    BY <2>1 DEF Working, Waiting
  <2>3. \A g \in Workers : g # d => wq[g].server # wq[d].server
    BY <1>1, <2>1, <2>2 DEF AloneOk
  <2>4. QED
    BY <2>1, <2>2, <2>3 DEF AloneOk
<1>4. QED
  BY <1>2, <1>3

\* The last command of its server is no longer certain.
LEMMA LatestStart ==
  ASSUME NEW hi, NEW ba, NEW ta, NEW wk, NEW la, NEW H, LatestOk(hi, ba, ta, wk, la, H),
         NEW wq, NEW c, NEW s, NEW x, NEW cl, Starts1(wq, wk, c, s, x, cl), NEW l2,
         \A z \in H : l2[z] # None => z # s /\ l2[z] = la[z]
  PROVE  LatestOk(hi, ba, ta, wq, l2, H)
<1> SUFFICES ASSUME NEW z \in H, l2[z] # None
             PROVE  Free(wq, z) /\ Head1(hi, ba, ta, z, l2[z])
  BY DEF LatestOk
<1>1. Free(wk, z) /\ Head1(hi, ba, ta, z, l2[z]) /\ z # s
  BY DEF LatestOk
<1>2. Free(wq, z)
  BY <1>1 DEF Free, Starts1
<1>3. QED
  BY <1>1, <1>2


\* The call `c` has found the row of its command, or none.
Finds1(wq, wk, c, hi) ==
  /\ c \in Workers /\ wk[c].step = "read" /\ wq[c].step = "write"
  /\ \A d \in Workers :
       /\ wq[d].server = wk[d].server /\ wq[d].command = wk[d].command /\ wq[d].at = wk[d].at /\ wq[d].alone = wk[d].alone
       /\ d # c => wq[d].step = wk[d].step /\ wq[d].row = wk[d].row
  /\ \/ wq[c].row = 0 /\ \A e \in hi : ~(e.server = wk[c].server /\ e.command = wk[c].command)
     \/ \E e \in hi : e.server = wk[c].server /\ e.command = wk[c].command /\ wq[c].row = e.id

\* It waits as before.
LEMMA FindsWaits ==
  ASSUME NEW wk, NEW wq, NEW c, NEW hi, Finds1(wq, wk, c, hi)
  PROVE  /\ \A d \in Workers : Waiting(wq[d]) <=> Waiting(wk[d])
         /\ \A d \in Workers : Working(wq[d]) <=> Working(wk[d])
         /\ \A d \in Workers : wq[d].step = "prune" <=> wk[d].step = "prune"
BY DEF Finds1, Waiting, Working

\* No moment is new.
LEMMA MomentsFind ==
  ASSUME NEW hi, NEW ba, NEW wk, NEW cl, MomentsOk(hi, ba, wk, cl), NEW wq, NEW c, Finds1(wq, wk, c, hi)
  PROVE  MomentsOk(hi, ba, wq, cl)
<1>1. \A d \in Workers : (Waiting(wq[d]) <=> Waiting(wk[d])) /\ wq[d].at = wk[d].at
  BY FindsWaits DEF Finds1
<1>2. QED
  BY <1>1 DEF MomentsOk

\* The row is of the server and the command of the call.
LEMMA RowFind ==
  ASSUME NEW hi, NEW ba, NEW wk, NEW cl \in Nat, MomentsOk(hi, ba, wk, cl), RowOk(hi, wk, cl),
         NEW wq, NEW c, Finds1(wq, wk, c, hi)
  PROVE  RowOk(hi, wq, cl)
<1>1. \A d \in Workers : (Waiting(wq[d]) <=> Waiting(wk[d])) /\ wq[d].at = wk[d].at
  <2>1. \A d \in Workers : Waiting(wq[d]) <=> Waiting(wk[d])
    BY FindsWaits
  <2>2. QED
    BY <2>1 DEF Finds1
<1> SUFFICES ASSUME NEW d \in Workers, wq[d].step = "write", wq[d].row # 0
             PROVE  /\ wq[d].row <= cl
                    /\ \A e \in hi : e.id = wq[d].row =>
                         e.server = wq[d].server /\ (wq[d].alone => e.command = wq[d].command)
                    /\ \A g \in Workers : Waiting(wq[g]) => wq[g].at # wq[d].row
  BY DEF RowOk
<1>2. CASE d = c
  <2>1. PICK e \in hi : e.server = wk[c].server /\ e.command = wk[c].command /\ wq[c].row = e.id
    BY <1>2 DEF Finds1
  <2>2. e.id \in 1..cl
    BY DEF MomentsOk
  <2>3. e.id <= cl
    BY <2>2
  <2>4. \A f \in hi : f.id = e.id => f = e
    BY DEF MomentsOk
  <2>5. \A g \in Workers : Waiting(wq[g]) => wq[g].at # e.id
    BY <1>1 DEF MomentsOk
  <2>6. wq[c].server = wk[c].server /\ wq[c].command = wk[c].command
    BY DEF Finds1
  <2>7. QED
    BY <1>2, <2>1, <2>3, <2>4, <2>5, <2>6
<1>3. CASE d # c
  <2>1. /\ wk[d].step = "write" /\ wk[d].row = wq[d].row /\ wk[d].server = wq[d].server
        /\ wk[d].command = wq[d].command /\ wk[d].alone = wq[d].alone
    BY <1>3 DEF Finds1
  <2>2. QED
    BY <1>1, <2>1 DEF RowOk
<1>4. QED
  BY <1>2, <1>3

\* Without a row there is no entry.
LEMMA UniqueFind ==
  ASSUME NEW hi, NEW ba, NEW wk, NEW cl, MomentsOk(hi, ba, wk, cl), NEW tw, UniqueOk(hi, wk, tw),
         NEW wq, NEW c, Finds1(wq, wk, c, hi)
  PROVE  UniqueOk(hi, wq, tw)
<1>1. \A d \in Workers : (Working(wq[d]) <=> Working(wk[d])) /\ wq[d].server = wk[d].server /\ wq[d].command = wk[d].command
  BY FindsWaits DEF Finds1
<1>2. \A e \in hi : e.id # 0
  <2>1. \A e \in hi : e.id \in 1..cl
    BY DEF MomentsOk
  <2>2. 0 \notin 1..cl
    OBVIOUS
  <2>3. QED
    BY <2>1, <2>2
<1>3. \A d \in Workers : wq[d].step = "write" /\ wq[d].row = 0 /\ <<wq[d].server, wq[d].command>> \notin tw =>
        \A e \in hi : ~(e.server = wq[d].server /\ e.command = wq[d].command)
  BY <1>1, <1>2 DEF UniqueOk, Finds1
<1>4. QED
  BY <1>1, <1>3 DEF UniqueOk

\* Lists and calls are as they were.
LEMMA AloneFind ==
  ASSUME NEW hi, NEW ba, NEW ta, NEW wk, AloneOk(hi, ba, ta, wk), NEW wq, NEW c, Finds1(wq, wk, c, hi)
  PROVE  AloneOk(hi, ba, ta, wq)
<1>1. \A d \in Workers : /\ Working(wq[d]) <=> Working(wk[d])
                         /\ Waiting(wq[d]) <=> Waiting(wk[d])
                         /\ wq[d].step = "prune" <=> wk[d].step = "prune"
                         /\ wq[d].server = wk[d].server /\ wq[d].command = wk[d].command /\ wq[d].at = wk[d].at
                         /\ wq[d].alone = wk[d].alone
  BY FindsWaits DEF Finds1
<1>2. QED
  BY <1>1 DEF AloneOk

\* The same holds for the last commands.
LEMMA LatestFind ==
  ASSUME NEW hi, NEW ba, NEW ta, NEW wk, NEW la, NEW H, LatestOk(hi, ba, ta, wk, la, H),
         NEW wq, NEW c, Finds1(wq, wk, c, hi)
  PROVE  LatestOk(hi, ba, ta, wq, la, H)
BY DEF LatestOk, Free, Finds1

-----------------------------------------------------------------------------

\* An entry whose call is recorded again.
Moved(e, n, t) == IF e.id = n THEN [e EXCEPT !.at = t] ELSE e

\* The fields of it.
LEMMA MovedFields ==
  ASSUME NEW H, NEW e \in Entry(H), NEW n, NEW t \in Nat
  PROVE  /\ Moved(e, n, t) \in Entry(H)
         /\ Moved(e, n, t).id = e.id /\ Moved(e, n, t).server = e.server /\ Moved(e, n, t).command = e.command
         /\ Moved(e, n, t).at = IF e.id = n THEN t ELSE e.at
BY DEF Moved, Entry

\* The entries after a call of `c` has been recorded at its row.
Moves(h2, hi, wq, wk, c, H) ==
  /\ hi \subseteq Entry(H)
  /\ c \in Workers /\ wk[c].step = "write" /\ wk[c].row # 0 /\ wk[c].at \in Nat
  /\ h2 = {Moved(e, wk[c].row, wk[c].at) : e \in hi}
  /\ ~Working(wq[c]) /\ wq[c].server = None
  /\ \A d \in Workers : d # c => wq[d] = wk[d]

\* Each is one that was there, at its moment or at that of the call.
LEMMA MovesFields ==
  ASSUME NEW H, NEW h2, NEW hi, NEW wq, NEW wk, NEW c, Moves(h2, hi, wq, wk, c, H)
  PROVE  /\ h2 \subseteq Entry(H)
         /\ \A g \in h2 : \E e \in hi : /\ g = Moved(e, wk[c].row, wk[c].at)
                                        /\ g.id = e.id /\ g.server = e.server /\ g.command = e.command
                                        /\ g.at = IF e.id = wk[c].row THEN wk[c].at ELSE e.at
         /\ \A e \in hi : \E g \in h2 : /\ g.id = e.id /\ g.server = e.server /\ g.command = e.command
                                        /\ g.at = IF e.id = wk[c].row THEN wk[c].at ELSE e.at
BY MovedFields DEF Moves

\* It frees the moment of the call.
LEMMA MovesCalms ==
  ASSUME NEW H, NEW h2, NEW hi, NEW wq, NEW wk, NEW c, Moves(h2, hi, wq, wk, c, H)
  PROVE  Calms(wq, wk) /\ Waiting(wk[c]) /\ Working(wk[c])
BY DEF Moves, Calms, Waiting, Working

\* Moments stay apart.
LEMMA MomentsMove ==
  ASSUME NEW H, NEW h2, NEW hi, NEW wq, NEW wk, NEW c, Moves(h2, hi, wq, wk, c, H),
         NEW ba, NEW cl \in Nat, MomentsOk(hi, ba, wk, cl)
  PROVE  MomentsOk(h2, ba, wq, cl)
<1> DEFINE t == wk[c].at
<1>1. /\ t \in 1..cl
      /\ \A e \in hi : t # e.id /\ t # e.at
      /\ \A b \in ba : t # b.id
      /\ \A d \in Workers : d # c /\ Waiting(wk[d]) => wk[d].at # t
  <2>1. Waiting(wk[c]) /\ c \in Workers
    BY MovesCalms DEF Moves
  <2>2. QED
    BY <2>1 DEF MomentsOk
<1>2. \A g \in h2 : \E e \in hi : g.id = e.id /\ g.at \in {e.at, t} /\ (e.id = wk[c].row => g.at = t)
                                  /\ (e.id # wk[c].row => g.at = e.at) /\ g = Moved(e, wk[c].row, t)
  BY MovesFields
<1> HIDE DEF t
<1>3. \A g \in h2 : g.id \in 1..cl /\ g.at \in 1..cl /\ \A b \in ba : b.id # g.id /\ b.id # g.at
  BY <1>1, <1>2 DEF MomentsOk
<1>4. ASSUME NEW g \in h2, NEW k \in h2, g.id \in {k.id, k.at} \/ g.at = k.at
      PROVE  g = k
  <2>1. PICK e \in hi : g.id = e.id /\ g.at \in {e.at, t} /\ (e.id = wk[c].row => g.at = t)
                                  /\ (e.id # wk[c].row => g.at = e.at) /\ g = Moved(e, wk[c].row, t)
    BY <1>2
  <2>2. PICK f \in hi : k.id = f.id /\ k.at \in {f.at, t} /\ (f.id = wk[c].row => k.at = t)
                                  /\ (f.id # wk[c].row => k.at = f.at) /\ k = Moved(f, wk[c].row, t)
    BY <1>2
  <2>3. e = f
    <3>1. CASE e.id \in {f.id, f.at} \/ e.at = f.at
      BY <3>1 DEF MomentsOk
    <3>2. CASE ~(e.id \in {f.id, f.at} \/ e.at = f.at)
      <4>1. t # e.id /\ t # e.at /\ t # f.id /\ t # f.at
        BY <1>1
      <4>2. g.id = k.at \/ g.at = k.at
        BY <1>4, <2>1, <2>2, <3>2
      <4>3. QED
        BY <2>1, <2>2, <3>2, <4>1, <4>2
    <3>3. QED
      BY <3>1, <3>2
  <2>4. QED
    BY <2>1, <2>2, <2>3
<1>5. \A d \in Workers : Waiting(wq[d]) => d # c /\ wq[d] = wk[d] /\ Waiting(wk[d])
  BY DEF Moves, Waiting, Working
<1>6. \A d \in Workers : Waiting(wq[d]) =>
        /\ wq[d].at \in 1..cl
        /\ \A g \in h2 : wq[d].at # g.id /\ wq[d].at # g.at
        /\ \A b \in ba : wq[d].at # b.id
        /\ \A g \in Workers : Waiting(wq[g]) /\ wq[d].at = wq[g].at => d = g
  <2>1. ASSUME NEW d \in Workers, Waiting(wq[d])
        PROVE  /\ wq[d].at \in 1..cl
               /\ \A g \in h2 : wq[d].at # g.id /\ wq[d].at # g.at
               /\ \A b \in ba : wq[d].at # b.id
               /\ \A g \in Workers : Waiting(wq[g]) /\ wq[d].at = wq[g].at => d = g
    <3>1. d # c /\ wq[d] = wk[d] /\ Waiting(wk[d]) /\ wk[d].at # t
      BY <1>1, <1>5, <2>1
    <3>2. \A g \in h2 : wq[d].at # g.id /\ wq[d].at # g.at
      BY <1>2, <3>1 DEF MomentsOk
    <3>3. QED
      BY <1>5, <3>1, <3>2 DEF MomentsOk
  <2>2. QED
    BY <2>1
<1>7. QED
  BY <1>3, <1>4, <1>6 DEF MomentsOk

\* Rows are of the same server and command.
LEMMA RowMove ==
  ASSUME NEW H, NEW h2, NEW hi, NEW wq, NEW wk, NEW c, Moves(h2, hi, wq, wk, c, H),
         NEW cl, RowOk(hi, wk, cl)
  PROVE  RowOk(h2, wq, cl)
<1>1. \A d \in Workers : wq[d].step = "write" \/ Waiting(wq[d]) => wq[d] = wk[d]
  BY DEF Moves, Waiting, Working
<1>2. \A g \in h2 : \E e \in hi : g.id = e.id /\ g.server = e.server /\ g.command = e.command
  BY MovesFields
<1>3. QED
  BY <1>1, <1>2 DEF RowOk

\* Each comes once as before.
LEMMA UniqueMove ==
  ASSUME NEW H, NEW h2, NEW hi, NEW wq, NEW wk, NEW c, Moves(h2, hi, wq, wk, c, H),
         NEW tw, UniqueOk(hi, wk, tw)
  PROVE  UniqueOk(h2, wq, tw)
<1>1. \A d \in Workers : Working(wq[d]) => wq[d] = wk[d]
  BY DEF Moves
<1>2. \A g \in h2 : \E e \in hi : g.server = e.server /\ g.command = e.command /\ g = Moved(e, wk[c].row, wk[c].at)
  BY MovesFields
<1>3. \A g, k \in h2 : g.server = k.server /\ g.command = k.command /\ <<g.server, g.command>> \notin tw => g = k
  <2>1. ASSUME NEW g \in h2, NEW k \in h2, g.server = k.server, g.command = k.command, <<g.server, g.command>> \notin tw
        PROVE  g = k
    <3>1. PICK e \in hi : g.server = e.server /\ g.command = e.command /\ g = Moved(e, wk[c].row, wk[c].at)
      BY <1>2
    <3>2. PICK f \in hi : k.server = f.server /\ k.command = f.command /\ k = Moved(f, wk[c].row, wk[c].at)
      BY <1>2
    <3>3. e = f
      BY <2>1, <3>1, <3>2 DEF UniqueOk
    <3>4. QED
      BY <3>1, <3>2, <3>3
  <2>2. QED
    BY <2>1
<1>4. \A d \in Workers : wq[d].step = "write" => Working(wq[d])
  BY DEF Working
<1>5. \A d \in Workers : wq[d].step = "write" /\ wq[d].row = 0 /\ <<wq[d].server, wq[d].command>> \notin tw =>
        \A g \in h2 : ~(g.server = wq[d].server /\ g.command = wq[d].command)
  BY <1>1, <1>2, <1>4 DEF UniqueOk
<1>6. \A d, g \in Workers :
       Working(wq[d]) /\ Working(wq[g]) /\ wq[d].server = wq[g].server /\ wq[d].command = wq[g].command
       /\ <<wq[d].server, wq[d].command>> \notin tw => d = g
  BY <1>1 DEF UniqueOk
<1>7. QED
  BY <1>3, <1>5, <1>6 DEF UniqueOk

\* A server has no more entries than before.
LEMMA BoundMove ==
  ASSUME NEW H, NEW h2, NEW hi, NEW wq, NEW wk, NEW c, Moves(h2, hi, wq, wk, c, H), IsFiniteSet(hi),
         NEW un \in [H -> Nat], NEW pk \in Nat, BoundOk(hi, wk, un, pk, H)
  PROVE  IsFiniteSet(h2) /\ BoundOk(h2, wq, un, pk, H)
<1> DEFINE m == [e \in hi |-> Moved(e, wk[c].row, wk[c].at)]
<1>1. IsFiniteSet(h2)
  <2>1. h2 = {m[e] : e \in hi}
    BY DEF Moves
  <2> HIDE DEF m
  <2>2. QED
    BY <2>1, ImageSize
<1>2. ASSUME NEW s \in H
      PROVE  /\ IsFiniteSet(Pruners(wq, s))
             /\ Cardinality(EntriesOf(h2, s)) <= pk + un[s] + Cardinality(Pruners(wq, s))
  <2>1. Pruners(wq, s) = Pruners(wk, s)
    BY DEF Moves, Pruners, Working
  <2>2. IsFiniteSet(EntriesOf(hi, s))
    BY FS_Subset DEF EntriesOf
  <2>3. EntriesOf(h2, s) = {m[e] : e \in EntriesOf(hi, s)}
    <3>1. \A e \in hi : m[e].server = e.server
      BY MovedFields DEF Moves
    <3>2. h2 = {m[e] : e \in hi}
      BY DEF Moves
    <3> HIDE DEF m
    <3>3. QED
      BY <3>1, <3>2 DEF EntriesOf
  <2>4. Cardinality(EntriesOf(h2, s)) <= Cardinality(EntriesOf(hi, s)) /\ IsFiniteSet(EntriesOf(h2, s))
    <3> HIDE DEF m
    <3>1. QED
      BY <2>2, <2>3, ImageSize
  <2>5. /\ Cardinality(EntriesOf(h2, s)) \in Nat /\ Cardinality(EntriesOf(hi, s)) \in Nat
        /\ Cardinality(Pruners(wk, s)) \in Nat /\ IsFiniteSet(Pruners(wk, s)) /\ un[s] \in Nat
    BY <2>2, <2>4, FS_CardinalityType DEF BoundOk
  <2>6. Cardinality(EntriesOf(hi, s)) <= pk + un[s] + Cardinality(Pruners(wk, s))
    BY DEF BoundOk
  <2>7. Cardinality(EntriesOf(h2, s)) <= pk + un[s] + Cardinality(Pruners(wk, s))
    BY <2>4, <2>5, <2>6
  <2>8. QED
    BY <2>1, <2>5, <2>7
<1>3. QED
  BY <1>1, <1>2 DEF BoundOk

\* The other servers have the list that they had.
LEMMA MovesLists ==
  ASSUME NEW H, NEW h2, NEW hi, NEW wq, NEW wk, NEW c, Moves(h2, hi, wq, wk, c, H), NEW cl, RowOk(hi, wk, cl),
         NEW ba, NEW ta, NEW z, z # wk[c].server
  PROVE  /\ \A y : \A u \in Nat : Tells(h2, ba, ta, z, y, u) <=> Tells(hi, ba, ta, z, y, u)
         /\ Lesser(h2, ba, ta, hi, ba, ta, z)
<1>1. \A e \in hi : e.id = wk[c].row => e.server # z
  BY DEF Moves, RowOk
<1>2. h2 = {Moved(e, wk[c].row, wk[c].at) : e \in hi}
  BY DEF Moves
<1>3. \A e \in hi : e.server = z => Moved(e, wk[c].row, wk[c].at) = e
  BY <1>1 DEF Moved
<1>4. \A e \in hi : Moved(e, wk[c].row, wk[c].at).server = e.server
  BY MovedFields DEF Moves
<1>5. \A e : e.server = z => (e \in h2 <=> e \in hi)
  BY <1>2, <1>3, <1>4
<1>6. \A y : \A u \in Nat : Tells(h2, ba, ta, z, y, u) <=> Tells(hi, ba, ta, z, y, u)
  BY <1>5 DEF Tells
<1>7. QED
  BY <1>5, <1>6 DEF Lesser

\* So the calls there see no change, and the others are not alone.
LEMMA AloneMove ==
  ASSUME NEW H, None \notin H, NEW h2, NEW hi, NEW wq, NEW wk, NEW c, Moves(h2, hi, wq, wk, c, H), NEW cl, RowOk(hi, wk, cl),
         WorkTypes(wk, H), NEW ba, NEW ta, AloneOk(hi, ba, ta, wk)
  PROVE  AloneOk(h2, ba, ta, wq)
<1>1. Calms(wq, wk)
  BY MovesCalms
<1>2. \A d \in Workers : wk[d].server = None => ~Working(wk[d])
  BY DEF WorkTypes, WorkOk
<1>3. ASSUME NEW d \in Workers, Working(wq[d]), wq[d].alone
      PROVE  Lesser(h2, ba, ta, hi, ba, ta, wq[d].server)
  <2>1. d # c /\ wq[d] = wk[d] /\ c \in Workers
    BY <1>3 DEF Moves
  <2>2. wk[c].server # wq[d].server
    BY <1>3, <2>1 DEF AloneOk
  <2>3. QED
    BY <2>2, MovesLists
<1>4. QED
  BY <1>1, <1>2, <1>3, AloneLess

\* The command of a call that was alone heads the list.
LEMMA LatestMove ==
  ASSUME NEW H, None \notin H, NEW h2, NEW hi, NEW wq, NEW wk, NEW c, Moves(h2, hi, wq, wk, c, H), NEW cl, RowOk(hi, wk, cl),
         WorkTypes(wk, H), NEW ba, NEW ta, AloneOk(hi, ba, ta, wk), NEW la, LatestOk(hi, ba, ta, wk, la, H),
         NEW l2, \A s \in H : l2[s] # la[s] =>
                   /\ s = wk[c].server /\ l2[s] = wk[c].command /\ wk[c].alone
                   /\ \E e \in hi : e.id = wk[c].row
  PROVE  LatestOk(h2, ba, ta, wq, l2, H)
<1> SUFFICES ASSUME NEW s \in H, l2[s] # None
             PROVE  Free(wq, s) /\ Head1(h2, ba, ta, s, l2[s])
  BY DEF LatestOk
<1>1. CASE l2[s] # la[s]
  <2>1. PICK e \in hi : e.id = wk[c].row
    BY <1>1
  <2>2. s = wk[c].server /\ l2[s] = wk[c].command /\ wk[c].alone
    BY <1>1
  <2>3. e.server = s /\ e.command = l2[s] /\ c \in Workers /\ wk[c].at \in Nat
    BY <2>1, <2>2 DEF Moves, RowOk
  <2>4. Working(wk[c]) /\ Waiting(wk[c])
    BY MovesCalms
  <2>5. Free(wq, s)
    <3>1. \A d \in Workers : d # c => wk[d].server # s
      BY <2>2, <2>3, <2>4 DEF AloneOk
    <3>2. QED
      BY <3>1 DEF Free, Moves
  <2>6. UpTo(hi, ba, ta, s, wk[c].at)
    BY <2>2, <2>3, <2>4 DEF AloneOk
  <2>7. UpTo(h2, ba, ta, s, wk[c].at)
    <3>1. \A g \in h2 : \E f \in hi : g.server = f.server /\ g.command = f.command /\ g.at \in {f.at, wk[c].at}
      BY MovesFields
    <3>2. \A y : \A u \in Nat : Tells(h2, ba, ta, s, y, u) => u = wk[c].at \/ Tells(hi, ba, ta, s, y, u)
      BY <3>1 DEF Tells
    <3>3. QED
      BY <2>3, <2>6, <3>2 DEF UpTo
  <2>8. Tells(h2, ba, ta, s, l2[s], wk[c].at)
    <3>1. \E g \in h2 : g.server = e.server /\ g.command = e.command /\ g.at = wk[c].at
      BY <2>1, MovesFields
    <3>2. QED
      BY <2>3, <3>1 DEF Tells
  <2>9. QED
    BY <2>3, <2>5, <2>7, <2>8 DEF Head1
<1>2. CASE l2[s] = la[s]
  <2>1. Free(wk, s) /\ Head1(hi, ba, ta, s, l2[s])
    BY <1>2 DEF LatestOk
  <2>2. wk[c].server # s /\ Free(wq, s)
    BY <2>1 DEF Free, Moves
  <2>3. \A y : \A u \in Nat : Tells(h2, ba, ta, s, y, u) <=> Tells(hi, ba, ta, s, y, u)
    BY <2>2, MovesLists
  <2>4. QED
    BY <2>1, <2>2, <2>3 DEF Head1, UpTo
<1>3. QED
  BY <1>1, <1>2

-----------------------------------------------------------------------------

\* A call of `c` has inserted its entry.
Inserts(h2, hi, wq, wk, c, e) ==
  /\ h2 = hi \cup {e}
  /\ c \in Workers /\ wk[c].step = "write" /\ wk[c].row = 0 /\ wk[c].at \in Nat
  /\ e.id = wk[c].at /\ e.at = wk[c].at /\ e.server = wk[c].server /\ e.command = wk[c].command
  /\ wq[c].step = "prune" /\ wq[c].server = wk[c].server /\ wq[c].command = wk[c].command /\ wq[c].alone = wk[c].alone
  /\ \A d \in Workers : d # c => wq[d] = wk[d]

\* The entry has the moment of the call.
LEMMA MomentsInsert ==
  ASSUME NEW h2, NEW hi, NEW wq, NEW wk, NEW c, NEW e, Inserts(h2, hi, wq, wk, c, e),
         NEW ba, NEW cl \in Nat, MomentsOk(hi, ba, wk, cl)
  PROVE  MomentsOk(h2, ba, wq, cl)
<1>1. /\ e.id \in 1..cl
      /\ \A f \in hi : e.id # f.id /\ e.id # f.at
      /\ \A b \in ba : e.id # b.id
      /\ \A d \in Workers : d # c /\ Waiting(wk[d]) => wk[d].at # e.id
  BY DEF Inserts, Waiting, MomentsOk
<1>2. e.at = e.id /\ h2 = hi \cup {e}
  BY DEF Inserts
<1>3. \A d \in Workers : Waiting(wq[d]) => d # c /\ wq[d] = wk[d] /\ Waiting(wk[d])
  BY DEF Inserts, Waiting
<1>4. /\ \A f \in h2 : f.id \in 1..cl /\ f.at \in 1..cl
      /\ \A b \in ba : b.id \in 1..cl
  BY <1>1, <1>2 DEF MomentsOk
<1>5. /\ \A g, f \in h2 : g.id \in {f.id, f.at} \/ g.at = f.at => g = f
      /\ \A f \in h2 : \A b \in ba : b.id # f.id /\ b.id # f.at
  BY <1>1, <1>2 DEF MomentsOk
<1>6. \A d \in Workers : Waiting(wq[d]) =>
        /\ wq[d].at \in 1..cl
        /\ \A f \in h2 : wq[d].at # f.id /\ wq[d].at # f.at
        /\ \A b \in ba : wq[d].at # b.id
        /\ \A g \in Workers : Waiting(wq[g]) /\ wq[d].at = wq[g].at => d = g
  BY <1>1, <1>2, <1>3 DEF MomentsOk
<1>7. QED
  BY <1>4, <1>5, <1>6 DEF MomentsOk

\* It is not the row that another has found.
LEMMA RowInsert ==
  ASSUME NEW h2, NEW hi, NEW wq, NEW wk, NEW c, NEW e, Inserts(h2, hi, wq, wk, c, e), NEW cl, RowOk(hi, wk, cl)
  PROVE  RowOk(h2, wq, cl)
<1>1. \A d \in Workers : wq[d].step = "write" \/ Waiting(wq[d]) => wq[d] = wk[d]
  BY DEF Inserts, Waiting
<1>2. \A d \in Workers : wk[d].step = "write" /\ wk[d].row # 0 => wk[d].row # e.id
  BY DEF RowOk, Inserts, Waiting
<1>3. QED
  BY <1>1, <1>2 DEF RowOk, Inserts

\* No other entry has its command, and no other call.
LEMMA UniqueInsert ==
  ASSUME NEW h2, NEW hi, NEW wq, NEW wk, NEW c, NEW e, Inserts(h2, hi, wq, wk, c, e), NEW tw, UniqueOk(hi, wk, tw)
  PROVE  UniqueOk(h2, wq, tw)
<1>1. \A d \in Workers : /\ Working(wq[d]) <=> Working(wk[d])
                         /\ wq[d].server = wk[d].server /\ wq[d].command = wk[d].command
                         /\ wq[d].step = "write" => d # c /\ wq[d] = wk[d] /\ Working(wk[d])
  BY DEF Inserts, Working
<1>2. /\ h2 = hi \cup {e} /\ e.server = wk[c].server /\ e.command = wk[c].command
      /\ c \in Workers /\ wk[c].step = "write" /\ wk[c].row = 0 /\ Working(wk[c])
  BY DEF Inserts, Working
<1>3. <<e.server, e.command>> \notin tw => \A f \in hi : ~(f.server = e.server /\ f.command = e.command)
  BY <1>2 DEF UniqueOk
<1>4. \A f, g \in h2 : f.server = g.server /\ f.command = g.command /\ <<f.server, f.command>> \notin tw => f = g
  BY <1>2, <1>3 DEF UniqueOk
<1>5. \A d \in Workers : wq[d].step = "write" /\ wq[d].row = 0 /\ <<wq[d].server, wq[d].command>> \notin tw =>
        \A f \in h2 : ~(f.server = wq[d].server /\ f.command = wq[d].command)
  BY <1>1, <1>2 DEF UniqueOk
<1>6. \A d, g \in Workers :
       Working(wq[d]) /\ Working(wq[g]) /\ wq[d].server = wq[g].server /\ wq[d].command = wq[g].command
       /\ <<wq[d].server, wq[d].command>> \notin tw => d = g
  BY <1>1 DEF UniqueOk
<1>7. QED
  BY <1>4, <1>5, <1>6 DEF UniqueOk

\* The call has still to prune.
LEMMA BoundInsert ==
  ASSUME NEW h2, NEW hi, NEW wq, NEW wk, NEW c, NEW e, Inserts(h2, hi, wq, wk, c, e), e \notin hi, IsFiniteSet(hi),
         NEW H, NEW un \in [H -> Nat], NEW pk \in Nat, BoundOk(hi, wk, un, pk, H)
  PROVE  IsFiniteSet(h2) /\ BoundOk(h2, wq, un, pk, H)
<1>1. IsFiniteSet(h2)
  BY FS_AddElement DEF Inserts
<1>2. ASSUME NEW s \in H
      PROVE  /\ IsFiniteSet(Pruners(wq, s))
             /\ Cardinality(EntriesOf(h2, s)) <= pk + un[s] + Cardinality(Pruners(wq, s))
  <2>1. /\ IsFiniteSet(Pruners(wk, s)) /\ Cardinality(EntriesOf(hi, s)) <= pk + un[s] + Cardinality(Pruners(wk, s))
        /\ IsFiniteSet(EntriesOf(hi, s))
    <3>1. EntriesOf(hi, s) \subseteq hi
      BY DEF EntriesOf
    <3>2. QED
      BY <3>1, FS_Subset DEF BoundOk
  <2>2. Cardinality(Pruners(wk, s)) \in Nat /\ Cardinality(EntriesOf(hi, s)) \in Nat /\ un[s] \in Nat
    BY <2>1, FS_CardinalityType
  <2>3. CASE s = wk[c].server
    <3>1. EntriesOf(h2, s) = EntriesOf(hi, s) \cup {e} /\ e \notin EntriesOf(hi, s)
      BY <2>3 DEF Inserts, EntriesOf
    <3>2. Pruners(wq, s) = Pruners(wk, s) \cup {c} /\ c \notin Pruners(wk, s)
      BY <2>3 DEF Inserts, Pruners
    <3>3. Cardinality(EntriesOf(hi, s) \cup {e}) = Cardinality(EntriesOf(hi, s)) + 1
      BY <2>1, <3>1, FS_AddElement
    <3>4. IsFiniteSet(Pruners(wk, s) \cup {c}) /\ Cardinality(Pruners(wk, s) \cup {c}) = Cardinality(Pruners(wk, s)) + 1
      BY <2>1, <3>2, FS_AddElement
    <3>5. QED
      BY <2>1, <2>2, <3>1, <3>2, <3>3, <3>4
  <2>4. CASE s # wk[c].server
    <3>1. EntriesOf(h2, s) = EntriesOf(hi, s) /\ Pruners(wq, s) = Pruners(wk, s)
      BY <2>4 DEF Inserts, EntriesOf, Pruners
    <3>2. QED
      BY <2>1, <3>1
  <2>5. QED
    BY <2>3, <2>4
<1>3. QED
  BY <1>1, <1>2 DEF BoundOk

\* The lists of the other servers have nothing new.
LEMMA InsertLists ==
  ASSUME NEW h2, NEW hi, NEW wq, NEW wk, NEW c, NEW e, Inserts(h2, hi, wq, wk, c, e),
         NEW ba, NEW ta, NEW z, z # wk[c].server
  PROVE  /\ \A y : \A u \in Nat : Tells(h2, ba, ta, z, y, u) <=> Tells(hi, ba, ta, z, y, u)
         /\ \A t : UpTo(hi, ba, ta, z, t) => UpTo(h2, ba, ta, z, t)
<1>1. h2 = hi \cup {e} /\ e.server # z
  BY DEF Inserts
<1>2. \A y : \A u \in Nat : Tells(h2, ba, ta, z, y, u) <=> Tells(hi, ba, ta, z, y, u)
  BY <1>1 DEF Tells
<1>3. QED
  BY <1>2 DEF UpTo

\* The entry of a call that is alone is the newest.
LEMMA AloneInsert ==
  ASSUME NEW h2, NEW hi, NEW wq, NEW wk, NEW c, NEW e, Inserts(h2, hi, wq, wk, c, e),
         NEW ba, NEW ta, AloneOk(hi, ba, ta, wk)
  PROVE  AloneOk(h2, ba, ta, wq)
<1> SUFFICES ASSUME NEW d \in Workers, Working(wq[d]), wq[d].alone
             PROVE  /\ \A g \in Workers : g # d => wq[g].server # wq[d].server
                    /\ Waiting(wq[d]) => UpTo(h2, ba, ta, wq[d].server, wq[d].at)
                    /\ wq[d].step = "prune" => HeadRow(h2, ba, ta, wq[d].server, wq[d].command)
  BY DEF AloneOk
<1>1. \A g \in Workers : wq[g].server = wk[g].server
  BY DEF Inserts
<1>2. Working(wk[d]) /\ wk[d].alone
  BY DEF Inserts, Working
<1>3. \A g \in Workers : g # d => wq[g].server # wq[d].server
  BY <1>1, <1>2 DEF AloneOk
<1>4. CASE d = c
  <2>1. UpTo(hi, ba, ta, wk[c].server, wk[c].at)
    BY <1>2, <1>4 DEF AloneOk, Inserts, Waiting
  <2>2. e.at = wk[c].at /\ e.server = wk[c].server /\ e.command = wk[c].command /\ h2 = hi \cup {e} /\ wk[c].at \in Nat
    BY DEF Inserts
  <2>3. \A y : \A u \in Nat : Tells(h2, ba, ta, wk[c].server, y, u) => Tells(hi, ba, ta, wk[c].server, y, u) \/ u = wk[c].at
    BY <2>2 DEF Tells
  <2>4. UpTo(h2, ba, ta, wk[c].server, e.at)
    <3>1. UpTo(h2, ba, ta, wk[c].server, wk[c].at)
      <4>1. wk[c].at \in Nat /\ wk[c].at <= wk[c].at
        BY <2>2
      <4>2. \A y : \A u \in Nat : Tells(hi, ba, ta, wk[c].server, y, u) => u <= wk[c].at
        BY <2>1 DEF UpTo
      <4>3. \A y : \A u \in Nat : Tells(h2, ba, ta, wk[c].server, y, u) => u <= wk[c].at
        BY <2>3, <4>1, <4>2
      <4>4. QED
        BY <4>3 DEF UpTo
    <3>2. QED
      BY <2>2, <3>1
  <2>5. wq[c].server = e.server /\ wq[c].command = e.command /\ ~Waiting(wq[c])
    BY DEF Inserts, Waiting
  <2>6. HeadRow(h2, ba, ta, wq[c].server, wq[c].command)
    BY <2>2, <2>4, <2>5 DEF HeadRow
  <2>7. QED
    BY <1>3, <1>4, <2>5, <2>6
<1>5. CASE d # c
  <2>1. wq[d] = wk[d] /\ c \in Workers
    BY <1>5 DEF Inserts
  <2>2. wq[d].server # wk[c].server
    BY <1>1, <1>3, <1>5, <2>1
  <2>3. \A t : UpTo(hi, ba, ta, wq[d].server, t) => UpTo(h2, ba, ta, wq[d].server, t)
    BY <2>2, InsertLists
  <2>4. Waiting(wq[d]) => UpTo(h2, ba, ta, wq[d].server, wq[d].at)
    BY <1>2, <2>1, <2>3 DEF AloneOk
  <2>5. wq[d].step = "prune" => HeadRow(h2, ba, ta, wq[d].server, wq[d].command)
    BY <1>2, <2>1, <2>3 DEF AloneOk, HeadRow, Inserts
  <2>6. QED
    BY <1>3, <2>4, <2>5
<1>6. QED
  BY <1>4, <1>5

\* Where the last command is known, no call was.
LEMMA LatestInsert ==
  ASSUME NEW h2, NEW hi, NEW wq, NEW wk, NEW c, NEW e, Inserts(h2, hi, wq, wk, c, e),
         NEW ba, NEW ta, NEW la, NEW H, LatestOk(hi, ba, ta, wk, la, H)
  PROVE  LatestOk(h2, ba, ta, wq, la, H)
<1> SUFFICES ASSUME NEW s \in H, la[s] # None
             PROVE  Free(wq, s) /\ Head1(h2, ba, ta, s, la[s])
  BY DEF LatestOk
<1>1. Free(wk, s) /\ Head1(hi, ba, ta, s, la[s])
  BY DEF LatestOk
<1>2. wk[c].server # s /\ Free(wq, s)
  BY <1>1 DEF Free, Inserts
<1>3. \A y : \A u \in Nat : Tells(h2, ba, ta, s, y, u) <=> Tells(hi, ba, ta, s, y, u)
  BY <1>2, InsertLists
<1>4. QED
  BY <1>1, <1>2, <1>3 DEF Head1, UpTo


-----------------------------------------------------------------------------

\* A call of `c` has pruned the entries of its server.
Prunes(h2, hi, wq, wk, c, li) ==
  LET E == EntriesOf(hi, wk[c].server) IN
  /\ c \in Workers /\ wk[c].step = "prune"
  /\ h2 = (hi \ E) \cup {e \in E : Cardinality({f \in E : f.at > e.at}) < li}
  /\ ~Working(wq[c]) /\ wq[c].server = None
  /\ \A d \in Workers : d # c => wq[d] = wk[d]

\* It may take entries of its server away.
LEMMA PrunesFields ==
  ASSUME NEW h2, NEW hi, NEW wq, NEW wk, NEW c, NEW li, Prunes(h2, hi, wq, wk, c, li)
  PROVE  /\ h2 \subseteq hi /\ \A e \in hi : e.server # wk[c].server => e \in h2
         /\ Calms(wq, wk) /\ Working(wk[c]) /\ c \in Workers
BY DEF Prunes, EntriesOf, Calms, Working

\* No server has more of them than the limit and those that were not pruned.
LEMMA BoundPrune ==
  ASSUME NEW h2, NEW hi, NEW wq, NEW wk, NEW c, NEW li \in Nat, Prunes(h2, hi, wq, wk, c, li),
         NEW ba, NEW cl, MomentsOk(hi, ba, wk, cl), IsFiniteSet(hi), NEW H, None \notin H,
         NEW un \in [H -> Nat], NEW pk \in Nat, li <= pk, BoundOk(hi, wk, un, pk, H)
  PROVE  IsFiniteSet(h2) /\ BoundOk(h2, wq, [un EXCEPT ![wk[c].server] = 0], pk, H)
<1> DEFINE u2 == [un EXCEPT ![wk[c].server] = 0]
<1>1. IsFiniteSet(h2)
  BY PrunesFields, FS_Subset
<1>2. ASSUME NEW s \in H
      PROVE  /\ IsFiniteSet(Pruners(wq, s))
             /\ Cardinality(EntriesOf(h2, s)) <= pk + u2[s] + Cardinality(Pruners(wq, s))
  <2>1. IsFiniteSet(Pruners(wk, s)) /\ Cardinality(EntriesOf(hi, s)) <= pk + un[s] + Cardinality(Pruners(wk, s))
    BY DEF BoundOk
  <2>2. Pruners(wq, s) \subseteq Pruners(wk, s)
    BY DEF Prunes, Pruners, Working
  <2>3. IsFiniteSet(Pruners(wq, s)) /\ Cardinality(Pruners(wq, s)) \in Nat
    BY <2>1, <2>2, FS_Subset, FS_CardinalityType
  <2>4. CASE s = wk[c].server
    <3> DEFINE E == EntriesOf(hi, s)
               at == [e \in E |-> e.at]
    <3>1. E \subseteq hi /\ IsFiniteSet(E)
      <4>1. E \subseteq hi
        BY DEF EntriesOf
      <4>2. QED
        BY <4>1, FS_Subset
    <3>2. EntriesOf(h2, s) = {e \in E : Cardinality({f \in E : f.at > e.at}) < li}
      BY <2>4 DEF Prunes, EntriesOf
    <3>3. \A e \in E : at[e] = e.at
      OBVIOUS
    <3>4. \A e \in E : e.at \in Nat
      BY <3>1 DEF MomentsOk
    <3>5. \A e, f \in E : e.at = f.at => e = f
      BY <3>1 DEF MomentsOk
    <3> HIDE DEF E, at
    <3>6. \A e \in E : {f \in E : f.at > e.at} = {f \in E : at[f] > at[e]}
      BY <3>3
    <3>7. EntriesOf(h2, s) \subseteq E /\ \A e \in EntriesOf(h2, s) : Cardinality({f \in E : at[f] > at[e]}) < li
      BY <3>2, <3>6
    <3>8. (\A e \in E : at[e] \in Nat) /\ (\A e, f \in E : at[e] = at[f] => e = f)
      BY <3>3, <3>4, <3>5
    <3>9. Cardinality(EntriesOf(h2, s)) <= li
      BY <3>1, <3>7, <3>8, FewAreLast
    <3>10. Cardinality(EntriesOf(h2, s)) \in Nat
      BY <3>1, <3>7, FS_Subset, FS_CardinalityType
    <3>11. u2[s] = 0
      BY <2>4
    <3>12. QED
      BY <2>3, <3>9, <3>10, <3>11
  <2>5. CASE s # wk[c].server
    <3>1. EntriesOf(h2, s) = EntriesOf(hi, s)
      BY <2>5, PrunesFields DEF EntriesOf
    <3>2. Pruners(wq, s) = Pruners(wk, s)
      BY <2>5 DEF Prunes, Pruners, Working
    <3>3. u2[s] = un[s]
      BY <2>5
    <3>4. QED
      BY <2>1, <3>1, <3>2, <3>3
  <2>6. QED
    BY <2>4, <2>5
<1>3. QED
  BY <1>1, <1>2 DEF BoundOk

\* The lists of the other servers are the same.
LEMMA PruneLists ==
  ASSUME NEW h2, NEW hi, NEW wq, NEW wk, NEW c, NEW li, Prunes(h2, hi, wq, wk, c, li),
         NEW ba, NEW ta, NEW z, z # wk[c].server
  PROVE  /\ \A y : \A u \in Nat : Tells(h2, ba, ta, z, y, u) <=> Tells(hi, ba, ta, z, y, u)
         /\ Lesser(h2, ba, ta, hi, ba, ta, z)
<1>1. h2 \subseteq hi /\ \A e \in hi : e.server = z => e \in h2
  BY PrunesFields
<1>2. QED
  BY <1>1 DEF Tells, Lesser

\* The calls on them are alone as before.
LEMMA AlonePrune ==
  ASSUME NEW h2, NEW hi, NEW wq, NEW wk, NEW c, NEW li, Prunes(h2, hi, wq, wk, c, li),
         NEW H, None \notin H, WorkTypes(wk, H), NEW ba, NEW ta, AloneOk(hi, ba, ta, wk)
  PROVE  AloneOk(h2, ba, ta, wq)
<1>1. Calms(wq, wk)
  BY PrunesFields
<1>2. \A d \in Workers : wk[d].server = None => ~Working(wk[d])
  BY DEF WorkTypes, WorkOk
<1>3. ASSUME NEW d \in Workers, Working(wq[d]), wq[d].alone
      PROVE  Lesser(h2, ba, ta, hi, ba, ta, wq[d].server)
  <2>1. d # c /\ wq[d] = wk[d] /\ c \in Workers
    BY <1>3 DEF Prunes
  <2>2. wk[c].server # wq[d].server
    BY <1>3, <2>1 DEF AloneOk
  <2>3. QED
    BY <2>2, PruneLists
<1>4. QED
  BY <1>1, <1>2, <1>3, AloneLess

\* The newest entry is kept: the command of a call that was alone heads the list.
LEMMA LatestPrune ==
  ASSUME NEW h2, NEW hi, NEW wq, NEW wk, NEW c, NEW li \in Nat, Prunes(h2, hi, wq, wk, c, li), li > 0,
         \A e \in hi : e.at \in Nat, NEW H, None \notin H, NEW ba, NEW ta, AloneOk(hi, ba, ta, wk),
         NEW la, LatestOk(hi, ba, ta, wk, la, H),
         NEW l2, \A s \in H : l2[s] # la[s] => s = wk[c].server /\ l2[s] = wk[c].command /\ wk[c].alone
  PROVE  LatestOk(h2, ba, ta, wq, l2, H)
<1> SUFFICES ASSUME NEW s \in H, l2[s] # None
             PROVE  Free(wq, s) /\ Head1(h2, ba, ta, s, l2[s])
  BY DEF LatestOk
<1>1. h2 \subseteq hi /\ Working(wk[c]) /\ c \in Workers
  BY PrunesFields
<1>2. CASE l2[s] # la[s]
  <2>1. s = wk[c].server /\ l2[s] = wk[c].command /\ wk[c].alone /\ wk[c].step = "prune"
    BY <1>2 DEF Prunes
  <2>2. Free(wq, s)
    <3>1. \A d \in Workers : d # c => wk[d].server # s
      BY <1>1, <2>1 DEF AloneOk
    <3>2. QED
      BY <3>1 DEF Free, Prunes
  <2>3. PICK e \in hi : e.server = s /\ e.command = l2[s] /\ UpTo(hi, ba, ta, s, e.at)
    BY <1>1, <2>1 DEF AloneOk, HeadRow
  <2>4. \A f \in hi : f.server = s => f.at <= e.at
    BY <2>3 DEF UpTo, Tells
  <2>5. {f \in EntriesOf(hi, s) : f.at > e.at} = {}
    BY <2>4 DEF EntriesOf
  <2>6. e \in EntriesOf(hi, s) /\ Cardinality({f \in EntriesOf(hi, s) : f.at > e.at}) < li
    <3>1. Cardinality({}) = 0
      BY FS_EmptySet
    <3>2. QED
      BY <2>3, <2>5, <3>1 DEF EntriesOf
  <2>7. e \in h2
    BY <2>1, <2>6 DEF Prunes
  <2>8. \A y : \A u \in Nat : Tells(h2, ba, ta, s, y, u) => Tells(hi, ba, ta, s, y, u)
    BY <1>1 DEF Tells
  <2>9. HeadRow(h2, ba, ta, s, l2[s])
    BY <2>3, <2>7, <2>8 DEF HeadRow, UpTo
  <2>10. \A g \in h2 : g.at \in Nat
    BY <1>1
  <2>11. QED
    BY <2>2, <2>9, <2>10, HeadOfRow
<1>3. CASE l2[s] = la[s]
  <2>1. Free(wk, s) /\ Head1(hi, ba, ta, s, l2[s])
    BY <1>3 DEF LatestOk
  <2>2. wk[c].server # s /\ Free(wq, s)
    BY <1>1, <2>1 DEF Free, Prunes
  <2>3. \A y : \A u \in Nat : Tells(h2, ba, ta, s, y, u) <=> Tells(hi, ba, ta, s, y, u)
    BY <2>2, PruneLists
  <2>4. QED
    BY <2>1, <2>2, <2>3 DEF Head1, UpTo
<1>4. QED
  BY <1>2, <1>3

\* A call of `c` that ends, and may leave its entries unpruned.
Ended1(wq, wk, c) ==
  /\ ~Working(wq[c]) /\ wq[c].server = None
  /\ \A d \in Workers : d # c => wq[d] = wk[d]
LeftBy(u2, un, wk, c, H) ==
  \A s \in H : u2[s] = IF wk[c].step = "prune" /\ wk[c].server = s THEN un[s] + 1 ELSE un[s]

\* They are counted.
LEMMA BoundEnds ==
  ASSUME NEW hi, NEW wk, NEW wq, NEW c \in Workers, Ended1(wq, wk, c),
         NEW H, NEW un \in [H -> Nat], NEW pk \in Nat, BoundOk(hi, wk, un, pk, H), IsFiniteSet(hi),
         NEW u2 \in [H -> Nat], LeftBy(u2, un, wk, c, H)
  PROVE  BoundOk(hi, wq, u2, pk, H)
<1>1. ASSUME NEW s \in H
      PROVE  /\ IsFiniteSet(Pruners(wq, s))
             /\ Cardinality(EntriesOf(hi, s)) <= pk + u2[s] + Cardinality(Pruners(wq, s))
  <2>1. IsFiniteSet(Pruners(wk, s)) /\ Cardinality(EntriesOf(hi, s)) <= pk + un[s] + Cardinality(Pruners(wk, s))
    BY DEF BoundOk
  <2>2. Pruners(wq, s) = Pruners(wk, s) \ {c}
    BY DEF Pruners, Working, Ended1
  <2>3. IsFiniteSet(Pruners(wq, s)) /\ Cardinality(Pruners(wk, s)) \in Nat /\ un[s] \in Nat
    BY <2>1, <2>2, FS_Subset, FS_CardinalityType
  <2>4. Cardinality(Pruners(wk, s) \ {c}) =
          IF c \in Pruners(wk, s) THEN Cardinality(Pruners(wk, s)) - 1 ELSE Cardinality(Pruners(wk, s))
    BY <2>1, FS_RemoveElement
  <2>5. c \in Pruners(wk, s) <=> wk[c].step = "prune" /\ wk[c].server = s
    BY DEF Pruners
  <2>6. pk + u2[s] + Cardinality(Pruners(wq, s)) = pk + un[s] + Cardinality(Pruners(wk, s))
    BY <2>2, <2>3, <2>4, <2>5 DEF LeftBy
  <2>7. QED
    BY <2>1, <2>3, <2>6
<1>2. QED
  BY <1>1 DEF BoundOk

\* Fewer entries, while the same calls have to prune.
LEMMA BoundLess ==
  ASSUME NEW hi, NEW wk, NEW H, NEW un \in [H -> Nat], NEW pk \in Nat, BoundOk(hi, wk, un, pk, H), IsFiniteSet(hi),
         NEW h2, h2 \subseteq hi, NEW wq, \A s \in H : Pruners(wq, s) = Pruners(wk, s), NEW qk \in Nat, pk <= qk
  PROVE  IsFiniteSet(h2) /\ BoundOk(h2, wq, un, qk, H)
<1>1. IsFiniteSet(h2)
  BY FS_Subset
<1>2. ASSUME NEW s \in H
      PROVE  /\ IsFiniteSet(Pruners(wq, s))
             /\ Cardinality(EntriesOf(h2, s)) <= qk + un[s] + Cardinality(Pruners(wq, s))
  <2>1. IsFiniteSet(Pruners(wk, s)) /\ Cardinality(EntriesOf(hi, s)) <= pk + un[s] + Cardinality(Pruners(wk, s))
    BY DEF BoundOk
  <2>2. EntriesOf(h2, s) \subseteq EntriesOf(hi, s) /\ EntriesOf(hi, s) \subseteq hi
    BY DEF EntriesOf
  <2>3. IsFiniteSet(EntriesOf(hi, s))
    BY <2>2, FS_Subset
  <2>4. IsFiniteSet(EntriesOf(h2, s)) /\ Cardinality(EntriesOf(h2, s)) <= Cardinality(EntriesOf(hi, s))
    BY <2>2, <2>3, FS_Subset
  <2>5. /\ Cardinality(EntriesOf(hi, s)) \in Nat /\ Cardinality(EntriesOf(h2, s)) \in Nat
        /\ Cardinality(Pruners(wk, s)) \in Nat /\ un[s] \in Nat
    BY <2>1, <2>3, <2>4, FS_CardinalityType
  <2>6. Cardinality(EntriesOf(h2, s)) <= qk + un[s] + Cardinality(Pruners(wk, s))
    BY <2>1, <2>4, <2>5
  <2>7. QED
    BY <2>1, <2>6
<1>3. QED
  BY <1>1, <1>2 DEF BoundOk


-----------------------------------------------------------------------------

\* A batch command whose targets all exist has an entry of its moment.
Sends(b2, t2, wq, ba, ta, wk, c, b, cl) ==
  /\ c \in Workers /\ wk[c].step = "idle" /\ b.id = cl + 1
  /\ b2 = ba \cup {b} /\ t2 = ta \cup ({b.id} \X b.sent)
  /\ ~Working(wq[c]) /\ wq[c].server = None
  /\ \A d \in Workers : d # c =>
       /\ wq[d].step = wk[d].step /\ wq[d].server = wk[d].server /\ wq[d].command = wk[d].command
       /\ wq[d].at = wk[d].at /\ wq[d].row = wk[d].row
       /\ wq[d].alone => wk[d].alone /\ wk[d].server \notin b.sent

\* No call records anything for it.
LEMMA SendsCalms ==
  ASSUME NEW b2, NEW t2, NEW wq, NEW ba, NEW ta, NEW wk, NEW c, NEW b, NEW cl, Sends(b2, t2, wq, ba, ta, wk, c, b, cl)
  PROVE  Calms(wq, wk)
BY DEF Sends, Calms

\* The moment is new.
LEMMA MomentsSend ==
  ASSUME NEW b2, NEW t2, NEW wq, NEW ba, NEW ta, NEW wk, NEW c, NEW b, NEW cl \in Nat, Sends(b2, t2, wq, ba, ta, wk, c, b, cl),
         NEW hi, MomentsOk(hi, ba, wk, cl)
  PROVE  MomentsOk(hi, b2, wq, cl + 1)
<1>1. Calms(wq, wk)
  BY SendsCalms
<1>2. \A x \in ba : \E y \in ba : y.id = x.id
  OBVIOUS
<1>3. cl <= cl + 1 /\ cl + 1 \in Nat
  OBVIOUS
<1>4. MomentsOk(hi, ba, wq, cl + 1)
  BY <1>1, <1>2, <1>3, MomentsLess
<1>5. b.id = cl + 1 /\ b2 = ba \cup {b}
  BY DEF Sends
<1>6. /\ cl + 1 \in 1..(cl + 1)
      /\ \A n \in 1..cl : n # cl + 1
  OBVIOUS
<1>7. \A e \in hi : e.id \in 1..cl /\ e.at \in 1..cl
  BY DEF MomentsOk
<1>8. \A d \in Workers : Waiting(wq[d]) => wq[d].at \in 1..cl
  <2>1. \A d \in Workers : Waiting(wq[d]) => Waiting(wk[d]) /\ wq[d].at = wk[d].at
    BY <1>1 DEF Calms, Waiting, Working
  <2>2. QED
    BY <2>1 DEF MomentsOk
<1>9. /\ b.id \in 1..(cl + 1)
      /\ \A e \in hi : b.id # e.id /\ b.id # e.at
      /\ \A d \in Workers : Waiting(wq[d]) => wq[d].at # b.id
  BY <1>5, <1>6, <1>7, <1>8
<1>10. \A e \in hi : e.id \in 1..(cl + 1) /\ e.at \in 1..(cl + 1)
  BY <1>4 DEF MomentsOk
<1>11. \A x \in b2 : x.id \in 1..(cl + 1)
  BY <1>4, <1>5, <1>9 DEF MomentsOk
<1>12. \A e \in hi : \A x \in b2 : x.id # e.id /\ x.id # e.at
  BY <1>4, <1>5, <1>9 DEF MomentsOk
<1>13. \A d \in Workers : Waiting(wq[d]) =>
       /\ wq[d].at \in 1..(cl + 1)
       /\ \A e \in hi : wq[d].at # e.id /\ wq[d].at # e.at
       /\ \A x \in b2 : wq[d].at # x.id
       /\ \A g \in Workers : Waiting(wq[g]) /\ wq[d].at = wq[g].at => d = g
  BY <1>4, <1>5, <1>9 DEF MomentsOk
<1>14. \A e, f \in hi : e.id \in {f.id, f.at} \/ e.at = f.at => e = f
  BY DEF MomentsOk
<1>15. QED
  BY <1>10, <1>11, <1>12, <1>13, <1>14 DEF MomentsOk

\* Its targets are those that it was sent to.
LEMMA BatchSend ==
  ASSUME NEW b2, NEW t2, NEW wq, NEW ba, NEW ta, NEW wk, NEW c, NEW b, NEW cl \in Nat, Sends(b2, t2, wq, ba, ta, wk, c, b, cl),
         NEW se, b.sent \subseteq se, b.sent # {}, \A x \in ba : x.id \in 1..cl /\ x.submission # b.submission,
         BatchOk(ba, ta, se)
  PROVE  BatchOk(b2, t2, se)
<1>1. b2 = ba \cup {b} /\ t2 = ta \cup ({b.id} \X b.sent) /\ \A x \in ba : x.id # b.id
  <2>1. b.id = cl + 1 /\ \A n \in 1..cl : n # cl + 1
    BY DEF Sends
  <2>2. QED
    BY <2>1 DEF Sends
<1>2. \A t \in ta : \E x \in ba : \E s \in se : t = <<x.id, s>>
  BY DEF BatchOk
<1>3. \A s : <<b.id, s>> \in t2 <=> s \in b.sent
  BY <1>1, <1>2
<1>4. \A x \in ba : \A s : <<x.id, s>> \in t2 <=> <<x.id, s>> \in ta
  BY <1>1
<1>5. \A x, y \in b2 : x.id = y.id \/ x.submission = y.submission => x = y
  BY <1>1 DEF BatchOk
<1>6. \A x \in b2 : x.sent # {} /\ \A s : <<x.id, s>> \in t2 <=> s \in x.sent /\ s \in se
  BY <1>1, <1>3, <1>4 DEF BatchOk
<1>7. \A t \in t2 : \E x \in b2 : \E s \in se : t = <<x.id, s>>
  <2>1. \A t \in {b.id} \X b.sent : \E s \in se : t = <<b.id, s>>
    OBVIOUS
  <2>2. QED
    BY <1>1, <1>2, <2>1
<1>8. QED
  BY <1>5, <1>6, <1>7 DEF BatchOk

\* The other servers have the list that they had.
LEMMA SendLists ==
  ASSUME NEW b2, NEW t2, NEW wq, NEW ba, NEW ta, NEW wk, NEW c, NEW b, NEW cl \in Nat, Sends(b2, t2, wq, ba, ta, wk, c, b, cl),
         NEW se, NEW hi, BatchOk(ba, ta, se), \A x \in ba : x.id \in 1..cl, NEW z, z \notin b.sent
  PROVE  /\ \A y : \A u \in Nat : Tells(hi, b2, t2, z, y, u) <=> Tells(hi, ba, ta, z, y, u)
         /\ Lesser(hi, b2, t2, hi, ba, ta, z)
<1>1. b2 = ba \cup {b} /\ t2 = ta \cup ({b.id} \X b.sent) /\ \A x \in ba : x.id # b.id
  <2>1. b.id = cl + 1 /\ \A n \in 1..cl : n # cl + 1
    BY DEF Sends
  <2>2. QED
    BY <2>1 DEF Sends
<1>2. <<b.id, z>> \notin t2
  <2>1. <<b.id, z>> \notin ta
    BY <1>1 DEF BatchOk
  <2>2. QED
    BY <1>1, <2>1
<1>3. \A x \in ba : <<x.id, z>> \in t2 <=> <<x.id, z>> \in ta
  BY <1>1
<1>4. \A y : \A u \in Nat : Tells(hi, b2, t2, z, y, u) <=> Tells(hi, ba, ta, z, y, u)
  BY <1>1, <1>2, <1>3 DEF Tells
<1>5. QED
  BY <1>4 DEF Lesser

\* Their calls are alone as before.
LEMMA AloneSend ==
  ASSUME NEW b2, NEW t2, NEW wq, NEW ba, NEW ta, NEW wk, NEW c, NEW b, NEW cl \in Nat, Sends(b2, t2, wq, ba, ta, wk, c, b, cl),
         NEW se, NEW hi, BatchOk(ba, ta, se), \A x \in ba : x.id \in 1..cl,
         NEW H, None \notin H, WorkTypes(wk, H), AloneOk(hi, ba, ta, wk)
  PROVE  AloneOk(hi, b2, t2, wq)
<1>1. Calms(wq, wk)
  BY SendsCalms
<1>2. \A d \in Workers : wk[d].server = None => ~Working(wk[d])
  BY DEF WorkTypes, WorkOk
<1>3. ASSUME NEW d \in Workers, Working(wq[d]), wq[d].alone
      PROVE  Lesser(hi, b2, t2, hi, ba, ta, wq[d].server)
  <2>1. d # c /\ wq[d].server = wk[d].server /\ wk[d].server \notin b.sent
    BY <1>3 DEF Sends
  <2>2. QED
    BY <2>1, SendLists
<1>4. QED
  BY <1>1, <1>2, <1>3, AloneLess

\* It heads the list of each server that it was sent to.
LEMMA LatestSend ==
  ASSUME NEW b2, NEW t2, NEW wq, NEW ba, NEW ta, NEW wk, NEW c, NEW b, NEW cl \in Nat, Sends(b2, t2, wq, ba, ta, wk, c, b, cl),
         NEW se, NEW hi, BatchOk(ba, ta, se), MomentsOk(hi, ba, wk, cl), NEW H, None \notin H, NEW la, LatestOk(hi, ba, ta, wk, la, H),
         NEW l2, \A s \in H : l2[s] # None =>
                   \/ s \notin b.sent /\ l2[s] = la[s]
                   \/ s \in b.sent /\ l2[s] = b.command /\ Free(wk, s)
  PROVE  LatestOk(hi, b2, t2, wq, l2, H)
<1> SUFFICES ASSUME NEW s \in H, l2[s] # None
             PROVE  Free(wq, s) /\ Head1(hi, b2, t2, s, l2[s])
  BY DEF LatestOk
<1>1. Calms(wq, wk)
  BY SendsCalms
<1>2. CASE s \notin b.sent /\ l2[s] = la[s]
  <2>1. Free(wk, s) /\ Head1(hi, ba, ta, s, l2[s])
    BY <1>2 DEF LatestOk
  <2>2. Free(wq, s)
    BY <1>1, <2>1 DEF Free, Calms
  <2>3. \A x \in ba : x.id \in 1..cl
    BY DEF MomentsOk
  <2>4. \A y : \A u \in Nat : Tells(hi, b2, t2, s, y, u) <=> Tells(hi, ba, ta, s, y, u)
    BY <1>2, <2>3, SendLists
  <2>5. QED
    BY <2>1, <2>2, <2>4 DEF Head1, UpTo
<1>3. CASE s \in b.sent /\ l2[s] = b.command /\ Free(wk, s)
  <2>1. Free(wq, s)
    BY <1>1, <1>3 DEF Free, Calms
  <2>2. UpTo(hi, ba, ta, s, cl + 1)
    BY ListsUpTo
  <2>3. b2 = ba \cup {b} /\ t2 = ta \cup ({b.id} \X b.sent) /\ b.id = cl + 1
    BY DEF Sends
  <2>4. \A x \in ba : x.id # cl + 1
    <3>1. \A x \in ba : x.id \in 1..cl
      BY DEF MomentsOk
    <3>2. cl + 1 \notin 1..cl
      OBVIOUS
    <3>3. QED
      BY <3>1, <3>2
  <2>5. \A x \in ba : <<x.id, s>> \in t2 => <<x.id, s>> \in ta
    BY <2>3, <2>4
  <2>6. \A y : \A u \in Nat : Tells(hi, b2, t2, s, y, u) => Tells(hi, ba, ta, s, y, u) \/ u = cl + 1
    BY <2>3, <2>5 DEF Tells
  <2>7. UpTo(hi, b2, t2, s, cl + 1)
    <3>1. \A y : \A u \in Nat : Tells(hi, ba, ta, s, y, u) => u <= cl + 1
      BY <2>2 DEF UpTo
    <3>2. cl + 1 <= cl + 1
      OBVIOUS
    <3>3. \A y : \A u \in Nat : Tells(hi, b2, t2, s, y, u) => u <= cl + 1
      BY <2>6, <3>1, <3>2
    <3>4. QED
      BY <3>3 DEF UpTo
  <2>8. Tells(hi, b2, t2, s, l2[s], cl + 1)
    BY <1>3, <2>3 DEF Tells
  <2>9. cl + 1 \in Nat
    OBVIOUS
  <2>10. QED
    BY <2>1, <2>7, <2>8, <2>9 DEF Head1
<1>4. QED
  BY <1>2, <1>3


-----------------------------------------------------------------------------

\* Some batch entries go with their targets.
Drops(b2, t2, ba, ta) ==
  b2 \subseteq ba /\ t2 = {t \in ta : \E b \in b2 : t[1] = b.id}

\* The others keep theirs.
LEMMA BatchDrop ==
  ASSUME NEW b2, NEW t2, NEW ba, NEW ta, Drops(b2, t2, ba, ta), NEW se, BatchOk(ba, ta, se)
  PROVE  BatchOk(b2, t2, se)
<1>1. \A b \in b2 : b \in ba /\ \A s : <<b.id, s>> \in t2 <=> <<b.id, s>> \in ta
  BY DEF Drops
<1>2. \A b \in b2 : b.sent # {} /\ \A s : <<b.id, s>> \in t2 <=> s \in b.sent /\ s \in se
  BY <1>1 DEF BatchOk
<1>3. \A b, x \in b2 : b.id = x.id \/ b.submission = x.submission => b = x
  BY <1>1 DEF BatchOk
<1>4. \A t \in t2 : \E b \in b2 : \E s \in se : t = <<b.id, s>>
  <2>1. ASSUME NEW t \in t2
        PROVE  \E b \in b2 : \E s \in se : t = <<b.id, s>>
    <3>1. t \in ta /\ \E b \in b2 : t[1] = b.id
      BY DEF Drops
    <3>2. PICK x \in ba, s \in se : t = <<x.id, s>>
      BY <3>1 DEF BatchOk
    <3>3. QED
      BY <3>1, <3>2
  <2>2. QED
    BY <2>1
<1>5. QED
  BY <1>2, <1>3, <1>4 DEF BatchOk

\* The list of a server that loses no target is the same.
LEMMA DropLists ==
  ASSUME NEW b2, NEW t2, NEW ba, NEW ta, Drops(b2, t2, ba, ta), NEW se, BatchOk(ba, ta, se), NEW hi, NEW z
  PROVE  /\ \A y : \A u \in Nat : Tells(hi, b2, t2, z, y, u) => Tells(hi, ba, ta, z, y, u)
         /\ Lesser(hi, b2, t2, hi, ba, ta, z)
         /\ (\A t \in ta \ t2 : t[2] # z) => \A y : \A u \in Nat : Tells(hi, b2, t2, z, y, u) <=> Tells(hi, ba, ta, z, y, u)
<1>1. b2 \subseteq ba /\ \A b \in b2 : <<b.id, z>> \in t2 <=> <<b.id, z>> \in ta
  BY DEF Drops
<1>2. \A y : \A u \in Nat : Tells(hi, b2, t2, z, y, u) => Tells(hi, ba, ta, z, y, u)
  BY <1>1 DEF Tells
<1>3. ASSUME \A t \in ta \ t2 : t[2] # z
      PROVE  \A y : \A u \in Nat : Tells(hi, ba, ta, z, y, u) => Tells(hi, b2, t2, z, y, u)
  <2>1. \A b \in ba : <<b.id, z>> \in ta => b \in b2 /\ <<b.id, z>> \in t2
    <3>1. ASSUME NEW b \in ba, <<b.id, z>> \in ta
          PROVE  b \in b2 /\ <<b.id, z>> \in t2
      <4>1. <<b.id, z>> \in t2
        BY <1>3, <3>1
      <4>2. \E x \in b2 : x.id = b.id
        BY <4>1 DEF Drops
      <4>3. QED
        BY <1>1, <4>1, <4>2 DEF BatchOk
    <3>2. QED
      BY <3>1
  <2>2. QED
    BY <2>1 DEF Tells
<1>4. QED
  BY <1>2, <1>3 DEF Lesser

\* An entry, or a batch entry, whose command is edited.
Edited(e, i, x) == IF e.id = i THEN [e EXCEPT !.command = x] ELSE e

\* The fields of them.
LEMMA EditedFields ==
  ASSUME NEW H, NEW D, NEW i, NEW x \in Pair
  PROVE  /\ \A e \in Entry(H) :
              /\ Edited(e, i, x) \in Entry(H)
              /\ Edited(e, i, x).id = e.id /\ Edited(e, i, x).server = e.server /\ Edited(e, i, x).at = e.at
              /\ Edited(e, i, x).command = IF e.id = i THEN x ELSE e.command
         /\ \A b \in BatchEntry(H, D) :
              /\ Edited(b, i, x) \in BatchEntry(H, D)
              /\ Edited(b, i, x).id = b.id /\ Edited(b, i, x).submission = b.submission /\ Edited(b, i, x).sent = b.sent
<1>1. ASSUME NEW e \in Entry(H)
      PROVE  /\ Edited(e, i, x) \in Entry(H)
             /\ Edited(e, i, x).id = e.id /\ Edited(e, i, x).server = e.server /\ Edited(e, i, x).at = e.at
             /\ Edited(e, i, x).command = IF e.id = i THEN x ELSE e.command
  BY DEF Edited, Entry
<1>2. ASSUME NEW b \in BatchEntry(H, D)
      PROVE  /\ Edited(b, i, x) \in BatchEntry(H, D)
             /\ Edited(b, i, x).id = b.id /\ Edited(b, i, x).submission = b.submission /\ Edited(b, i, x).sent = b.sent
  BY DEF Edited, BatchEntry
<1>3. QED
  BY <1>1, <1>2

\* All entries after an edit, which no call is alone with.
Edits(h2, b2, wq, hi, ba, wk, i, x, H, D) ==
  /\ hi \subseteq Entry(H) /\ ba \subseteq BatchEntry(H, D) /\ x \in Pair
  /\ h2 = {Edited(e, i, x) : e \in hi} /\ b2 = {Edited(b, i, x) : b \in ba}
  /\ Calms(wq, wk) /\ \A c \in Workers : Working(wq[c]) => ~wq[c].alone

\* Each is one that was there.
LEMMA EditsFields ==
  ASSUME NEW h2, NEW b2, NEW wq, NEW hi, NEW ba, NEW wk, NEW i, NEW x, NEW H, NEW D, Edits(h2, b2, wq, hi, ba, wk, i, x, H, D)
  PROVE  /\ \A g \in h2 : g \in Entry(H) /\ \E e \in hi :
              /\ g = Edited(e, i, x) /\ g.id = e.id /\ g.server = e.server /\ g.at = e.at
              /\ g.command = IF e.id = i THEN x ELSE e.command
         /\ \A y \in b2 : y \in BatchEntry(H, D) /\ \E b \in ba :
              /\ y = Edited(b, i, x) /\ y.id = b.id /\ y.submission = b.submission /\ y.sent = b.sent
         /\ \A b \in ba : \E y \in b2 : y.id = b.id
BY EditedFields DEF Edits

\* Moments stay where they are.
LEMMA MomentsEdit ==
  ASSUME NEW h2, NEW b2, NEW wq, NEW hi, NEW ba, NEW wk, NEW i, NEW x, NEW H, NEW D, Edits(h2, b2, wq, hi, ba, wk, i, x, H, D),
         NEW cl \in Nat, MomentsOk(hi, ba, wk, cl)
  PROVE  MomentsOk(h2, b2, wq, cl)
<1>1. MomentsOk(hi, ba, wq, cl)
  BY MomentsLess DEF Edits
<1>2. \A g \in h2 : \E e \in hi : g = Edited(e, i, x) /\ g.id = e.id /\ g.at = e.at
  BY EditsFields
<1>3. \A y \in b2 : \E b \in ba : y.id = b.id
  BY EditsFields
<1>4. \A g, k \in h2 : g.id \in {k.id, k.at} \/ g.at = k.at => g = k
  <2>1. ASSUME NEW g \in h2, NEW k \in h2, g.id \in {k.id, k.at} \/ g.at = k.at
        PROVE  g = k
    <3>1. PICK e \in hi : g = Edited(e, i, x) /\ g.id = e.id /\ g.at = e.at
      BY <1>2
    <3>2. PICK f \in hi : k = Edited(f, i, x) /\ k.id = f.id /\ k.at = f.at
      BY <1>2
    <3>3. e = f
      BY <1>1, <2>1, <3>1, <3>2 DEF MomentsOk
    <3>4. QED
      BY <3>1, <3>2, <3>3
  <2>2. QED
    BY <2>1
<1>5. /\ \A g \in h2 : g.id \in 1..cl /\ g.at \in 1..cl
      /\ \A y \in b2 : y.id \in 1..cl
      /\ \A g \in h2 : \A y \in b2 : y.id # g.id /\ y.id # g.at
  BY <1>1, <1>2, <1>3 DEF MomentsOk
<1>6. \A c \in Workers : Waiting(wq[c]) =>
       /\ wq[c].at \in 1..cl
       /\ \A g \in h2 : wq[c].at # g.id /\ wq[c].at # g.at
       /\ \A y \in b2 : wq[c].at # y.id
       /\ \A d \in Workers : Waiting(wq[d]) /\ wq[c].at = wq[d].at => c = d
  BY <1>1, <1>2, <1>3 DEF MomentsOk
<1>7. QED
  BY <1>4, <1>5, <1>6 DEF MomentsOk

\* Rows are of the same server.
LEMMA RowEdit ==
  ASSUME NEW h2, NEW b2, NEW wq, NEW hi, NEW ba, NEW wk, NEW i, NEW x, NEW H, NEW D, Edits(h2, b2, wq, hi, ba, wk, i, x, H, D),
         NEW cl \in Nat, RowOk(hi, wk, cl), \A c \in Workers : wk[c].row \in Nat
  PROVE  RowOk(h2, wq, cl)
<1>1. RowOk(hi, wq, cl)
  BY RowLess DEF Edits
<1>2. \A c \in Workers : wq[c].step = "write" => ~wq[c].alone
  BY DEF Edits, Working
<1>3. \A g \in h2 : \E e \in hi : g.id = e.id /\ g.server = e.server
  BY EditsFields
<1>4. QED
  BY <1>1, <1>2, <1>3 DEF RowOk

\* What the edit makes equal is noted.
LEMMA UniqueEdit ==
  ASSUME NEW h2, NEW b2, NEW wq, NEW hi, NEW ba, NEW wk, NEW i, NEW x, NEW H, NEW D, Edits(h2, b2, wq, hi, ba, wk, i, x, H, D),
         NEW tw, UniqueOk(hi, wk, tw), NEW t2, t2 = tw \cup {<<e.server, x>> : e \in {y \in hi : y.id = i}}
  PROVE  UniqueOk(h2, wq, t2)
<1>1. UniqueOk(hi, wq, t2)
  BY UniqueLess DEF Edits
<1>2. \A g \in h2 : <<g.server, g.command>> \notin t2 => g \in hi
  <2>1. ASSUME NEW g \in h2, <<g.server, g.command>> \notin t2
        PROVE  g \in hi
    <3>1. PICK e \in hi : /\ g = Edited(e, i, x) /\ g.server = e.server
                          /\ g.command = IF e.id = i THEN x ELSE e.command
      BY EditsFields
    <3>2. e.id # i
      BY <2>1, <3>1
    <3>3. QED
      BY <3>1, <3>2 DEF Edited
  <2>2. QED
    BY <2>1
<1>3. \A f, g \in h2 : f.server = g.server /\ f.command = g.command /\ <<f.server, f.command>> \notin t2 => f = g
  <2>1. ASSUME NEW f \in h2, NEW g \in h2, f.server = g.server, f.command = g.command, <<f.server, f.command>> \notin t2
        PROVE  f = g
    <3>1. f \in hi /\ g \in hi
      BY <1>2, <2>1
    <3>2. QED
      BY <1>1, <2>1, <3>1 DEF UniqueOk
  <2>2. QED
    BY <2>1
<1>4. \A c \in Workers : wq[c].step = "write" /\ wq[c].row = 0 /\ <<wq[c].server, wq[c].command>> \notin t2 =>
        \A g \in h2 : ~(g.server = wq[c].server /\ g.command = wq[c].command)
  <2>1. ASSUME NEW c \in Workers, wq[c].step = "write", wq[c].row = 0, <<wq[c].server, wq[c].command>> \notin t2,
               NEW g \in h2, g.server = wq[c].server, g.command = wq[c].command
        PROVE  FALSE
    <3>1. g \in hi
      BY <1>2, <2>1
    <3>2. QED
      BY <1>1, <2>1, <3>1 DEF UniqueOk
  <2>2. QED
    BY <2>1
<1>5. QED
  BY <1>1, <1>3, <1>4 DEF UniqueOk

\* A server has no more entries than before.
LEMMA BoundEdit ==
  ASSUME NEW h2, NEW b2, NEW wq, NEW hi, NEW ba, NEW wk, NEW i, NEW x, NEW H, NEW D, Edits(h2, b2, wq, hi, ba, wk, i, x, H, D),
         IsFiniteSet(hi), NEW un \in [H -> Nat], NEW pk \in Nat, BoundOk(hi, wk, un, pk, H),
         \A s \in H : Pruners(wq, s) = Pruners(wk, s)
  PROVE  IsFiniteSet(h2) /\ BoundOk(h2, wq, un, pk, H)
<1> DEFINE m == [e \in hi |-> Edited(e, i, x)]
<1>1. IsFiniteSet(h2)
  <2>1. h2 = {m[e] : e \in hi}
    BY DEF Edits
  <2> HIDE DEF m
  <2>2. QED
    BY <2>1, ImageSize
<1>2. ASSUME NEW s \in H
      PROVE  /\ IsFiniteSet(Pruners(wq, s))
             /\ Cardinality(EntriesOf(h2, s)) <= pk + un[s] + Cardinality(Pruners(wq, s))
  <2>1. IsFiniteSet(Pruners(wk, s)) /\ Cardinality(EntriesOf(hi, s)) <= pk + un[s] + Cardinality(Pruners(wk, s))
    BY DEF BoundOk
  <2>2. IsFiniteSet(EntriesOf(hi, s))
    BY FS_Subset DEF EntriesOf
  <2>3. EntriesOf(h2, s) = {m[e] : e \in EntriesOf(hi, s)}
    <3>1. \A e \in hi : m[e].server = e.server
      BY EditedFields DEF Edits
    <3>2. h2 = {m[e] : e \in hi}
      BY DEF Edits
    <3> HIDE DEF m
    <3>3. QED
      BY <3>1, <3>2 DEF EntriesOf
  <2>4. Cardinality(EntriesOf(h2, s)) <= Cardinality(EntriesOf(hi, s)) /\ IsFiniteSet(EntriesOf(h2, s))
    <3> HIDE DEF m
    <3>1. QED
      BY <2>2, <2>3, ImageSize
  <2>5. /\ Cardinality(EntriesOf(h2, s)) \in Nat /\ Cardinality(EntriesOf(hi, s)) \in Nat
        /\ Cardinality(Pruners(wk, s)) \in Nat /\ un[s] \in Nat
    BY <2>1, <2>2, <2>4, FS_CardinalityType
  <2>6. Cardinality(EntriesOf(h2, s)) <= pk + un[s] + Cardinality(Pruners(wk, s))
    BY <2>1, <2>4, <2>5
  <2>7. QED
    BY <2>1, <2>6
<1>3. QED
  BY <1>1, <1>2 DEF BoundOk

\* The targets are those of the batch entries as before.
LEMMA BatchEdit ==
  ASSUME NEW h2, NEW b2, NEW wq, NEW hi, NEW ba, NEW wk, NEW i, NEW x, NEW H, NEW D, Edits(h2, b2, wq, hi, ba, wk, i, x, H, D),
         NEW ta, NEW se, BatchOk(ba, ta, se)
  PROVE  BatchOk(b2, ta, se)
<1>1. \A y \in b2 : \E b \in ba : y = Edited(b, i, x) /\ y.id = b.id /\ y.submission = b.submission /\ y.sent = b.sent
  BY EditsFields
<1>2. \A b \in ba : \E y \in b2 : y.id = b.id
  BY EditsFields
<1>3. \A y, z \in b2 : y.id = z.id \/ y.submission = z.submission => y = z
  <2>1. ASSUME NEW y \in b2, NEW z \in b2, y.id = z.id \/ y.submission = z.submission
        PROVE  y = z
    <3>1. PICK b \in ba : y = Edited(b, i, x) /\ y.id = b.id /\ y.submission = b.submission
      BY <1>1
    <3>2. PICK f \in ba : z = Edited(f, i, x) /\ z.id = f.id /\ z.submission = f.submission
      BY <1>1
    <3>3. b = f
      BY <2>1, <3>1, <3>2 DEF BatchOk
    <3>4. QED
      BY <3>1, <3>2, <3>3
  <2>2. QED
    BY <2>1
<1>4. \A y \in b2 : y.sent # {} /\ \A s : <<y.id, s>> \in ta <=> s \in y.sent /\ s \in se
  BY <1>1 DEF BatchOk
<1>5. \A t \in ta : \E y \in b2 : \E s \in se : t = <<y.id, s>>
  BY <1>2 DEF BatchOk
<1>6. QED
  BY <1>3, <1>4, <1>5 DEF BatchOk

-----------------------------------------------------------------------------

\* The entries of the server `s` go, and it is no target any more.
Leaves(h2, t2, hi, ta, s) ==
  h2 = hi \ EntriesOf(hi, s) /\ t2 = {t \in ta : t[2] # s}

\* The batch entries with a target that is left, and the others that they were sent to.
Cleared(ba, ta, s) == {[b EXCEPT !.sent = @ \ {s}] : b \in {x \in ba : \E t \in ta : t[1] = x.id /\ t[2] # s}}

\* They keep these.
LEMMA BatchClear ==
  ASSUME NEW H, NEW D, NEW ba, ba \subseteq BatchEntry(H, D), NEW ta, NEW se, BatchOk(ba, ta, se), NEW s,
         NEW h2, NEW hi, NEW t2, Leaves(h2, t2, hi, ta, s), NEW b2, b2 = Cleared(ba, ta, s)
  PROVE  b2 \subseteq BatchEntry(H, D) /\ (\A y \in b2 : \E b \in ba : b.id = y.id) /\ BatchOk(b2, t2, se)
<1> DEFINE less(b) == [b EXCEPT !.sent = @ \ {s}]
           kept == {b \in ba : \E t \in ta : t[1] = b.id /\ t[2] # s}
<1>1. \A b \in ba : /\ less(b) \in BatchEntry(H, D) /\ less(b).id = b.id /\ less(b).submission = b.submission
                    /\ less(b).sent = b.sent \ {s}
  BY DEF BatchEntry
<1>2. b2 = {less(b) : b \in kept} /\ kept \subseteq ba
  BY DEF Cleared
<1>3. \A b \in kept : \E z : <<b.id, z>> \in ta /\ z # s
  <2>1. ASSUME NEW b \in kept
        PROVE  \E z : <<b.id, z>> \in ta /\ z # s
    <3>1. PICK t \in ta : t[1] = b.id /\ t[2] # s
      BY <2>1
    <3>2. PICK x \in ba, z \in se : t = <<x.id, z>>
      BY DEF BatchOk
    <3>3. QED
      BY <3>1, <3>2
  <2>2. QED
    BY <2>1
<1>4. \A b \in ba : \A z : <<b.id, z>> \in t2 <=> <<b.id, z>> \in ta /\ z # s
  BY DEF Leaves
<1>5. \A b \in ba : (\E z : <<b.id, z>> \in ta /\ z # s) => b \in kept
  OBVIOUS
<1> HIDE DEF less, kept
<1>6. b2 \subseteq BatchEntry(H, D) /\ (\A y \in b2 : \E b \in ba : b.id = y.id)
  BY <1>1, <1>2
<1>7. \A y, z \in b2 : y.id = z.id \/ y.submission = z.submission => y = z
  <2>1. ASSUME NEW y \in b2, NEW z \in b2, y.id = z.id \/ y.submission = z.submission
        PROVE  y = z
    <3>1. PICK b \in kept : y = less(b)
      BY <1>2
    <3>2. PICK f \in kept : z = less(f)
      BY <1>2
    <3>3. b = f
      BY <1>1, <1>2, <2>1, <3>1, <3>2 DEF BatchOk
    <3>4. QED
      BY <3>1, <3>2, <3>3
  <2>2. QED
    BY <2>1
<1>8. \A y \in b2 : y.sent # {} /\ \A z : <<y.id, z>> \in t2 <=> z \in y.sent /\ z \in se
  <2>1. ASSUME NEW y \in b2
        PROVE  y.sent # {} /\ \A z : <<y.id, z>> \in t2 <=> z \in y.sent /\ z \in se
    <3>1. PICK b \in kept : y = less(b)
      BY <1>2
    <3>2. b \in ba /\ y.id = b.id /\ y.sent = b.sent \ {s}
      BY <1>1, <1>2, <3>1
    <3>3. \A z : <<b.id, z>> \in ta <=> z \in b.sent /\ z \in se
      BY <3>2 DEF BatchOk
    <3>4. y.sent # {}
      BY <1>3, <3>2, <3>3
    <3>5. QED
      BY <1>4, <3>2, <3>3, <3>4
  <2>2. QED
    BY <2>1
<1>9. \A t \in t2 : \E y \in b2 : \E z \in se : t = <<y.id, z>>
  <2>1. ASSUME NEW t \in t2
        PROVE  \E y \in b2 : \E z \in se : t = <<y.id, z>>
    <3>1. t \in ta /\ t[2] # s
      BY DEF Leaves
    <3>2. PICK b \in ba, z \in se : t = <<b.id, z>>
      BY <3>1 DEF BatchOk
    <3>3. b \in kept
      BY <1>5, <3>1, <3>2
    <3>4. less(b) \in b2 /\ less(b).id = b.id
      BY <1>1, <1>2, <3>3
    <3>5. QED
      BY <3>2, <3>4
  <2>2. QED
    BY <2>1
<1>10. QED
  BY <1>6, <1>7, <1>8, <1>9 DEF BatchOk

\* Without the server, all of them stay.
LEMMA BatchLeave ==
  ASSUME NEW ba, NEW ta, NEW se, BatchOk(ba, ta, se), NEW s, NEW h2, NEW hi, NEW t2, Leaves(h2, t2, hi, ta, s)
  PROVE  BatchOk(ba, t2, se \ {s})
<1>1. \A b \in ba : \A z : <<b.id, z>> \in t2 <=> <<b.id, z>> \in ta /\ z # s
  BY DEF Leaves
<1>2. \A t \in t2 : \E b \in ba : \E z \in se \ {s} : t = <<b.id, z>>
  <2>1. ASSUME NEW t \in t2
        PROVE  \E b \in ba : \E z \in se \ {s} : t = <<b.id, z>>
    <3>1. t \in ta /\ t[2] # s
      BY DEF Leaves
    <3>2. PICK b \in ba, z \in se : t = <<b.id, z>>
      BY <3>1 DEF BatchOk
    <3>3. QED
      BY <3>1, <3>2
  <2>2. QED
    BY <2>1
<1>3. \A b \in ba : b.sent # {} /\ \A z : <<b.id, z>> \in t2 <=> z \in b.sent /\ z \in se \ {s}
  BY <1>1 DEF BatchOk
<1>4. \A b, x \in ba : b.id = x.id \/ b.submission = x.submission => b = x
  BY DEF BatchOk
<1>5. QED
  BY <1>2, <1>3, <1>4 DEF BatchOk

\* The other servers have the list that they had.
LEMMA LeaveLists ==
  ASSUME NEW ba, NEW ta, NEW se, BatchOk(ba, ta, se), NEW s, NEW h2, NEW hi, NEW t2, Leaves(h2, t2, hi, ta, s),
         NEW b2, NEW z, z # s,
         b2 = ba \/ b2 = Cleared(ba, ta, s),
         NEW H, NEW D, ba \subseteq BatchEntry(H, D)
  PROVE  /\ \A y : \A u \in Nat : Tells(h2, b2, t2, z, y, u) <=> Tells(hi, ba, ta, z, y, u)
         /\ Lesser(h2, b2, t2, hi, ba, ta, z)
<1>1. \A e : e.server = z => (e \in h2 <=> e \in hi)
  BY DEF Leaves, EntriesOf
<1>2. \A b \in ba : <<b.id, z>> \in t2 <=> <<b.id, z>> \in ta
  BY DEF Leaves
<1>3. \A y, u : (\E b \in b2 : <<b.id, z>> \in t2 /\ b.command = y /\ b.id = u)
                  <=> (\E b \in ba : <<b.id, z>> \in ta /\ b.command = y /\ b.id = u)
  <2>1. CASE b2 = ba
    BY <1>2, <2>1
  <2>2. CASE b2 = Cleared(ba, ta, s)
    <3> DEFINE less(b) == [b EXCEPT !.sent = @ \ {s}]
               kept == {b \in ba : \E t \in ta : t[1] = b.id /\ t[2] # s}
    <3>1. b2 = {less(b) : b \in kept} /\ kept \subseteq ba
      BY <2>2 DEF Cleared
    <3>2. \A b \in ba : less(b).id = b.id /\ less(b).command = b.command
      BY DEF BatchEntry
    <3>3. \A b \in ba : <<b.id, z>> \in ta => b \in kept
      OBVIOUS
    <3> HIDE DEF less, kept
    <3>4. \A y, u : (\E b \in b2 : <<b.id, z>> \in t2 /\ b.command = y /\ b.id = u)
                      => (\E b \in ba : <<b.id, z>> \in ta /\ b.command = y /\ b.id = u)
      BY <1>2, <3>1, <3>2
    <3>5. ASSUME NEW b \in ba, <<b.id, z>> \in ta
          PROVE  \E x \in b2 : <<x.id, z>> \in t2 /\ x.command = b.command /\ x.id = b.id
      <4>1. less(b) \in b2 /\ less(b).id = b.id /\ less(b).command = b.command /\ <<b.id, z>> \in t2
        BY <1>2, <3>1, <3>2, <3>3, <3>5
      <4>2. QED
        BY <4>1
    <3>6. ASSUME NEW y, NEW u, \E b \in ba : <<b.id, z>> \in ta /\ b.command = y /\ b.id = u
          PROVE  \E b \in b2 : <<b.id, z>> \in t2 /\ b.command = y /\ b.id = u
      <4>1. PICK b \in ba : <<b.id, z>> \in ta /\ b.command = y /\ b.id = u
        BY <3>6
      <4>2. PICK x \in b2 : <<x.id, z>> \in t2 /\ x.command = b.command /\ x.id = b.id
        BY <3>5, <4>1
      <4>3. QED
        BY <4>1, <4>2
    <3>7. QED
      BY <3>4, <3>6
  <2>3. QED
    BY <2>1, <2>2
<1>4. \A y, u : (\E e \in h2 : e.server = z /\ e.command = y /\ e.at = u) <=> (\E e \in hi : e.server = z /\ e.command = y /\ e.at = u)
  BY <1>1
<1>5. \A y : \A u \in Nat : Tells(h2, b2, t2, z, y, u) <=> Tells(hi, ba, ta, z, y, u)
  <2>1. ASSUME NEW y, NEW u \in Nat
        PROVE  Tells(h2, b2, t2, z, y, u) <=> Tells(hi, ba, ta, z, y, u)
    <3>1. (\E b \in b2 : <<b.id, z>> \in t2 /\ b.command = y /\ b.id = u)
            <=> (\E b \in ba : <<b.id, z>> \in ta /\ b.command = y /\ b.id = u)
      BY <1>3
    <3>2. (\E e \in h2 : e.server = z /\ e.command = y /\ e.at = u) <=> (\E e \in hi : e.server = z /\ e.command = y /\ e.at = u)
      BY <1>4
    <3>3. QED
      BY <3>1, <3>2, Zenon DEF Tells
  <2>2. QED
    BY <2>1
<1>6. QED
  BY <1>1, <1>5 DEF Lesser


-----------------------------------------------------------------------------

\* The module counts as FiniteSets does.
LEMMA HistoryCount ==
  ASSUME NEW CONSTANT H, NEW CONSTANT D, NEW CONSTANT T, NEW S
  PROVE  History(H, D, T)!Cardinality(S) = Cardinality(S)
BY DEF History!Cardinality, Cardinality, History!IsFiniteSet, IsFiniteSet

\* What the invariant says of the types.
LEMMA HistoryFacts ==
  ASSUME NEW CONSTANT H, NEW CONSTANT D, NEW CONSTANT T, HistoryInv(H, D, T)
  PROVE  /\ T \in Nat /\ clock \in Nat /\ clock <= T /\ None \notin H
         /\ limit \in Nat /\ limit > 0 /\ peak \in Nat /\ limit <= peak /\ peak \in 1..MaxLimit /\ limit \in 1..MaxLimit
         /\ IsFiniteSet(history) /\ history \subseteq Entry(H) /\ batch \subseteq BatchEntry(H, D)
         /\ WorkTypes(work, H) /\ unpruned \in [H -> Nat]
         /\ \A e \in history : e.id \in Nat /\ e.at \in Nat
         /\ \A b \in batch : b.id \in 1..clock
<1>1. /\ T \in Nat /\ clock \in 0..T /\ None \notin H /\ EntryTypes(history, servers, H) /\ batch \subseteq BatchEntry(H, D)
      /\ LimitTypes(limit, peak) /\ WorkTypes(work, H) /\ unpruned \in [H -> Nat]
  BY DEF HistoryInv, HistoryTypes
<1>2. clock \in Nat /\ clock <= T
  BY <1>1
<1>3. limit \in Nat /\ limit > 0 /\ peak \in Nat /\ limit <= peak /\ peak \in 1..MaxLimit /\ limit \in 1..MaxLimit
  BY <1>1, HistoryAssumption DEF LimitTypes
<1>4. IsFiniteSet(history) /\ history \subseteq Entry(H)
  BY <1>1 DEF EntryTypes
<1>5. \A e \in history : e.id \in Nat /\ e.at \in Nat
  BY <1>4 DEF Entry
<1>6. \A b \in batch : b.id \in 1..clock
  BY DEF HistoryInv, MomentsOk
<1>7. QED
  BY <1>1, <1>2, <1>3, <1>4, <1>5, <1>6

\* And of the calls.
LEMMA WorkFacts ==
  ASSUME NEW H, None \notin H, NEW wk, WorkTypes(wk, H)
  PROVE  /\ wk \in [Workers -> WorkRec(H)]
         /\ \A d \in Workers : wk[d].row \in Nat /\ wk[d].at \in Nat /\ wk[d] \in WorkRec(H)
         /\ \A d \in Workers : wk[d].server = None => ~Working(wk[d])
         /\ \A d \in Workers : Working(wk[d]) => wk[d].server \in H /\ wk[d].command \in Pair
         /\ \A d \in Workers : ~Working(wk[d]) => wk[d].server = None
         /\ \A d \in Workers : wk[d].server \in H => wk[d].step # "idle"
<1>1. wk \in [Workers -> WorkRec(H)] /\ \A d \in Workers : WorkOk(wk[d], H)
  BY DEF WorkTypes
<1>2. \A d \in Workers : wk[d] \in WorkRec(H)
  BY <1>1
<1>3. \A d \in Workers : wk[d].row \in Nat /\ wk[d].at \in Nat
  BY <1>2 DEF WorkRec
<1>4. /\ \A d \in Workers : wk[d].server = None => ~Working(wk[d])
      /\ \A d \in Workers : Working(wk[d]) => wk[d].server \in H /\ wk[d].command \in Pair
      /\ \A d \in Workers : ~Working(wk[d]) => wk[d].server = None
  BY <1>1 DEF WorkOk
<1>5. \A d \in Workers : wk[d].server \in H => wk[d].step # "idle"
  BY <1>4 DEF Working
<1>6. QED
  BY <1>1, <1>2, <1>3, <1>4, <1>5
\* No call.
NoCall == [step |-> "idle", server |-> None, command |-> None, at |-> 0, row |-> 0, alone |-> FALSE]

\* It is named so in the module.
LEMMA IdleIs ==
  ASSUME NEW CONSTANT H, NEW CONSTANT D, NEW CONSTANT T
  PROVE  History(H, D, T)!Idle = NoCall
BY DEF History!Idle, NoCall

\* The others go on.
LEMMA EndsFacts ==
  ASSUME NEW H, None \notin H, NEW wk, WorkTypes(wk, H), NEW c \in Workers, NEW wq, wq = [wk EXCEPT ![c] = NoCall]
  PROVE  WorkTypes(wq, H) /\ Ended1(wq, wk, c) /\ Calms(wq, wk)
<1>1. NoCall \in WorkRec(H) /\ NoCall.step = "idle" /\ NoCall.server = None
  BY DEF WorkRec, NoCall
<1>2. wk \in [Workers -> WorkRec(H)]
  BY WorkFacts
<1>3. wq \in [Workers -> WorkRec(H)] /\ wq[c] = NoCall /\ \A d \in Workers : d # c => wq[d] = wk[d]
  BY <1>1, <1>2
<1>4. ~Working(wq[c]) /\ wq[c].server = None
  BY <1>1, <1>3 DEF Working
<1>5. WorkTypes(wq, H)
  BY <1>3, <1>4 DEF WorkTypes, WorkOk
<1>6. Calms(wq, wk)
  BY <1>3, <1>4 DEF Calms
<1>7. QED
  BY <1>3, <1>4, <1>5, <1>6 DEF Ended1
\* No call to a server of `S` is alone any more.
Disturbed(wq, wk, S) ==
  wq = [d \in Workers |-> IF wk[d].server \in S THEN [wk[d] EXCEPT !.alone = FALSE] ELSE wk[d]]

\* Calls that are no longer alone.
LEMMA NotAloneFacts ==
  ASSUME NEW H, None \notin H, NEW wk, WorkTypes(wk, H), NEW S, NEW wq, Disturbed(wq, wk, S)
  PROVE  /\ WorkTypes(wq, H) /\ Calms(wq, wk)
         /\ \A d \in Workers : /\ wq[d].step = wk[d].step /\ wq[d].server = wk[d].server /\ wq[d].command = wk[d].command
                               /\ wq[d].at = wk[d].at /\ wq[d].row = wk[d].row
                               /\ wq[d].alone => wk[d].alone /\ wk[d].server \notin S
         /\ \A s : Pruners(wq, s) = Pruners(wk, s)
<1>1. wq = [d \in Workers |-> IF wk[d].server \in S THEN [wk[d] EXCEPT !.alone = FALSE] ELSE wk[d]]
  BY DEF Disturbed
<1>2. \A d \in Workers : wk[d] \in WorkRec(H)
  BY WorkFacts
<1>3. \A d \in Workers : [wk[d] EXCEPT !.alone = FALSE] \in WorkRec(H)
  BY <1>2 DEF WorkRec
<1>4. wq \in [Workers -> WorkRec(H)]
  BY <1>1, <1>2, <1>3
<1>5. \A d \in Workers : /\ wq[d].step = wk[d].step /\ wq[d].server = wk[d].server /\ wq[d].command = wk[d].command
                         /\ wq[d].at = wk[d].at /\ wq[d].row = wk[d].row
                         /\ wq[d].alone => wk[d].alone /\ wk[d].server \notin S
  BY <1>1, <1>2 DEF WorkRec
<1>6. WorkTypes(wq, H)
  BY <1>4, <1>5 DEF WorkTypes, WorkOk, Working
<1>7. Calms(wq, wk)
  BY <1>5 DEF Calms
<1>8. \A s : Pruners(wq, s) = Pruners(wk, s)
  BY <1>5 DEF Pruners
<1>9. QED
  BY <1>5, <1>6, <1>7, <1>8

\* RecordHistory
LEMMA RecordKeeps ==
  ASSUME NEW CONSTANT H, NEW CONSTANT D, NEW CONSTANT T, HistoryInv(H, D, T),
         NEW CONSTANT c \in Workers, NEW CONSTANT s \in H, NEW CONSTANT x \in Pair, History(H, D, T)!RecordHistory(c, s, x)
  PROVE  HistoryInv(H, D, T)'
<1> DEFINE al == ~History(H, D, T)!Busy(s)
           nq == History(H, D, T)!NotAlone(work, {s})
           r == [step |-> "read", server |-> s, command |-> x, at |-> clock + 1, row |-> 0, alone |-> al]
<1>1. /\ T \in Nat /\ clock \in Nat /\ None \notin H /\ WorkTypes(work, H) /\ None \notin H
      /\ IsFiniteSet(history) /\ unpruned \in [H -> Nat] /\ peak \in Nat
  BY HistoryFacts
<1>2. /\ work[c].step = "idle" /\ clock < T /\ clock' = clock + 1 /\ work' = [nq EXCEPT ![c] = r]
      /\ twice' = IF \E d \in Workers : work[d].server = s /\ work[d].command = x THEN twice \cup {<<s, x>>} ELSE twice
      /\ latest' = [z \in H |-> IF z \in {s} THEN None ELSE latest[z]]
      /\ UNCHANGED <<servers, history, batch, targets, limit, peak, unpruned>>
  BY DEF History!RecordHistory, History!Idle, History!Uncertain, Workers
<1>3. al \in BOOLEAN /\ (al => \A d \in Workers : work[d].server # s)
  <2>1. \A d \in Workers : work[d].server = s => work[d].step # "idle"
    BY <1>1, WorkFacts
  <2>2. QED
    BY <2>1 DEF History!Busy, Workers
<1>4. /\ WorkTypes(nq, H)
      /\ \A d \in Workers : /\ nq[d].step = work[d].step /\ nq[d].server = work[d].server /\ nq[d].command = work[d].command
                            /\ nq[d].at = work[d].at /\ nq[d].row = work[d].row
                            /\ nq[d].alone => work[d].alone /\ work[d].server \notin {s}
  <2>1. Disturbed(nq, work, {s})
    BY DEF Disturbed, History!NotAlone, Workers
  <2> HIDE DEF nq
  <2>2. QED
    BY <1>1, <2>1, NotAloneFacts
<1> HIDE DEF al, nq
<1>5. r \in WorkRec(H) /\ r.step = "read" /\ r.server = s /\ r.command = x /\ r.at = clock + 1 /\ r.row = 0 /\ r.alone = al
  BY <1>1, <1>3 DEF WorkRec
<1> HIDE DEF r
<1>6. nq \in [Workers -> WorkRec(H)] /\ \A d \in Workers : WorkOk(nq[d], H)
  BY <1>4 DEF WorkTypes
<1>7. work' \in [Workers -> WorkRec(H)] /\ work'[c] = r /\ \A d \in Workers : d # c => work'[d] = nq[d]
  BY <1>2, <1>5, <1>6
<1>8. Starts1(work', work, c, s, x, clock)
  BY <1>2, <1>3, <1>4, <1>5, <1>7 DEF Starts1
<1>9. WorkTypes(work', H)
  BY <1>5, <1>6, <1>7 DEF WorkTypes, WorkOk, Working
<1>10. HistoryTypes(H, D, T)'
  <2>1. clock' \in 0..T
    BY <1>1, <1>2
  <2>2. latest' = [z \in H |-> latest'[z]]
    BY <1>2
  <2>3. QED
    BY <1>2, <1>9, <2>1, <2>2 DEF HistoryInv, HistoryTypes
<1>11. MomentsOk(history, batch, work, clock)'
  BY <1>1, <1>2, <1>8, MomentsStart DEF HistoryInv
<1>12. RowOk(history, work, clock)'
  <2>1. \A d \in Workers : work[d].row \in Nat
    BY <1>1, WorkFacts
  <2>2. QED
    BY <1>1, <1>2, <1>8, <2>1, RowStart DEF HistoryInv
<1>13. UniqueOk(history, work, twice)'
  <2>1. twice \subseteq twice' /\ ((\E d \in Workers : work[d].server = s /\ work[d].command = x) => <<s, x>> \in twice')
    BY <1>2
  <2>2. QED
    BY <1>2, <1>8, <2>1, UniqueStart DEF HistoryInv
<1>14. BoundOk(history, work, unpruned, peak, H)'
  <2>1. \A z \in H : Pruners(work', z) = Pruners(work, z)
    BY <1>8 DEF Starts1, Pruners
  <2>2. history \subseteq history /\ peak <= peak
    BY <1>1
  <2>3. QED
    BY <1>1, <1>2, <2>1, <2>2, BoundLess DEF HistoryInv
<1>15. LatestOk(history, batch, targets, work, latest, H)'
  <2>1. \A z \in H : latest'[z] # None => z # s /\ latest'[z] = latest[z]
    BY <1>2
  <2>2. QED
    BY <1>2, <1>8, <2>1, LatestStart DEF HistoryInv
<1>16. AloneOk(history, batch, targets, work)'
  BY <1>1, <1>2, <1>8, AloneStart DEF HistoryInv
<1>17. BatchOk(batch, targets, servers)'
  BY <1>2 DEF HistoryInv
<1>18. QED
  BY <1>10, <1>11, <1>12, <1>13, <1>14, <1>15, <1>16, <1>17 DEF HistoryInv

\* Find
LEMMA FindKeeps ==
  ASSUME NEW CONSTANT H, NEW CONSTANT D, NEW CONSTANT T, HistoryInv(H, D, T),
         NEW CONSTANT c \in Workers, History(H, D, T)!Find(c)
  PROVE  HistoryInv(H, D, T)'
<1> DEFINE S == {e \in EntriesOf(history, work[c].server) : e.command = work[c].command}
           N == {e \in S : Cardinality({f \in S : f.at > e.at}) < 1}
           n == IF N = {} THEN 0 ELSE (CHOOSE e \in N : TRUE).id
<1>1. /\ T \in Nat /\ clock \in Nat /\ None \notin H /\ WorkTypes(work, H)
      /\ IsFiniteSet(history) /\ unpruned \in [H -> Nat] /\ peak \in Nat
      /\ \A e \in history : e.id \in Nat /\ e.at \in Nat
  BY HistoryFacts
<1>2. {e \in History(H, D, T)!Of(work[c].server) : e.command = work[c].command} = S /\ History(H, D, T)!Newest(S, 1) = N
  <2>1. {e \in History(H, D, T)!Of(work[c].server) : e.command = work[c].command} = S
    BY DEF History!Of, EntriesOf
  <2>2. \A e : History(H, D, T)!Cardinality({f \in S : f.at > e.at}) = Cardinality({f \in S : f.at > e.at})
    BY HistoryCount
  <2>3. History(H, D, T)!Newest(S, 1) = N
    BY <2>2 DEF History!Newest
  <2>4. QED
    BY <2>1, <2>3
<1>3. /\ work[c].step = "read" /\ work' = [work EXCEPT ![c].step = "write", ![c].row = n]
      /\ UNCHANGED <<servers, history, batch, targets, clock, limit, peak, unpruned, twice, latest>>
  <2> DEFINE M == History(H, D, T)!Newest({e \in History(H, D, T)!Of(work[c].server) : e.command = work[c].command}, 1)
  <2>1. /\ work[c].step = "read"
        /\ work' = [work EXCEPT ![c].step = "write", ![c].row = IF M = {} THEN 0 ELSE (CHOOSE e \in M : TRUE).id]
        /\ UNCHANGED <<servers, history, batch, targets, clock, limit, peak, unpruned, twice, latest>>
    BY DEF History!Find, History!hvars
  <2>2. M = N
    BY <1>2
  <2> HIDE DEF M, N
  <2>3. QED
    BY <2>1, <2>2
<1>4. S \subseteq history /\ IsFiniteSet(S)
  <2>1. S \subseteq history
    BY DEF EntriesOf
  <2>2. QED
    BY <1>1, <2>1, FS_Subset
<1>5. S # {} => N # {}
  <2> SUFFICES ASSUME S # {} PROVE N # {}
    OBVIOUS
  <2> DEFINE at == [e \in S |-> e.at]
  <2>1. \A e \in S : at[e] = e.at /\ at[e] \in Int
    BY <1>1, <1>4
  <2> HIDE DEF at, S
  <2>2. PICK e \in S : \A f \in S : at[f] <= at[e]
    BY <1>4, <2>1, LastOne
  <2>3. {f \in S : f.at > e.at} = {}
    BY <2>1, <2>2
  <2>4. Cardinality({}) = 0
    BY FS_EmptySet
  <2>5. e \in N
    BY <2>3, <2>4
  <2>6. QED
    BY <2>5
<1>6. \/ n = 0 /\ \A e \in history : ~(e.server = work[c].server /\ e.command = work[c].command)
      \/ \E e \in history : e.server = work[c].server /\ e.command = work[c].command /\ n = e.id
  <2>1. CASE N = {}
    <3>1. S = {} /\ n = 0
      BY <1>5, <2>1
    <3>2. QED
      BY <3>1 DEF EntriesOf
  <2>2. CASE N # {}
    <3>1. (CHOOSE e \in N : TRUE) \in N /\ n = (CHOOSE e \in N : TRUE).id
      BY <2>2
    <3>2. QED
      BY <3>1 DEF EntriesOf
  <2>3. QED
    BY <2>1, <2>2
<1> HIDE DEF S, N, n
<1>7. n \in Nat
  BY <1>1, <1>6
<1> DEFINE r == [work[c] EXCEPT !.step = "write", !.row = n]
<1>8. work \in [Workers -> WorkRec(H)] /\ work[c] \in WorkRec(H) /\ \A d \in Workers : WorkOk(work[d], H)
  BY <1>1 DEF WorkTypes
<1>9. /\ r \in WorkRec(H) /\ r.step = "write" /\ r.row = n /\ r.server = work[c].server
      /\ r.command = work[c].command /\ r.at = work[c].at /\ r.alone = work[c].alone
  BY <1>7, <1>8 DEF WorkRec
<1>10. work' = [work EXCEPT ![c] = r]
  BY <1>3, <1>8
<1> HIDE DEF r
<1>11. work' \in [Workers -> WorkRec(H)] /\ work'[c] = r /\ \A d \in Workers : d # c => work'[d] = work[d]
  BY <1>8, <1>9, <1>10
<1>12. Finds1(work', work, c, history)
  BY <1>3, <1>6, <1>9, <1>11 DEF Finds1
<1>13. WorkTypes(work', H)
  BY <1>3, <1>8, <1>9, <1>11 DEF WorkTypes, WorkOk, Working
<1>14. HistoryTypes(H, D, T)'
  BY <1>3, <1>13 DEF HistoryInv, HistoryTypes
<1>15. MomentsOk(history, batch, work, clock)'
  BY <1>3, <1>12, MomentsFind DEF HistoryInv
<1>16. RowOk(history, work, clock)'
  BY <1>1, <1>3, <1>12, RowFind DEF HistoryInv
<1>17. UniqueOk(history, work, twice)'
  BY <1>3, <1>12, UniqueFind DEF HistoryInv
<1>18. BoundOk(history, work, unpruned, peak, H)'
  <2>1. \A z \in H : Pruners(work', z) = Pruners(work, z)
    BY <1>12 DEF Finds1, Pruners
  <2>2. history \subseteq history /\ peak <= peak
    BY <1>1
  <2>3. BoundOk(history, work, unpruned, peak, H)
    BY DEF HistoryInv
  <2>4. BoundOk(history, work', unpruned, peak, H)
    BY <1>1, <2>1, <2>2, <2>3, BoundLess
  <2>5. QED
    BY <1>3, <2>4
<1>19. LatestOk(history, batch, targets, work, latest, H)'
  BY <1>3, <1>12, LatestFind DEF HistoryInv
<1>20. AloneOk(history, batch, targets, work)'
  BY <1>3, <1>12, AloneFind DEF HistoryInv
<1>21. BatchOk(batch, targets, servers)'
  BY <1>3 DEF HistoryInv
<1>22. QED
  BY <1>14, <1>15, <1>16, <1>17, <1>18, <1>19, <1>20, <1>21 DEF HistoryInv


\* UpdateCommandHistoryExecution
LEMMA UpdateKeeps ==
  ASSUME NEW CONSTANT H, NEW CONSTANT D, NEW CONSTANT T, HistoryInv(H, D, T),
         NEW CONSTANT c \in Workers, History(H, D, T)!UpdateCommandHistoryExecution(c)
  PROVE  HistoryInv(H, D, T)'
<1>1. /\ T \in Nat /\ clock \in Nat /\ None \notin H /\ WorkTypes(work, H)
      /\ IsFiniteSet(history) /\ history \subseteq Entry(H) /\ unpruned \in [H -> Nat] /\ peak \in Nat
  BY HistoryFacts
<1>2. /\ work[c].step = "write" /\ work[c].row # 0
      /\ history' = {IF e.id = work[c].row THEN [e EXCEPT !.at = work[c].at] ELSE e : e \in history}
      /\ work' = [work EXCEPT ![c] = NoCall]
      /\ latest' = IF (\E e \in history : e.id = work[c].row) /\ work[c].alone
                     THEN [latest EXCEPT ![work[c].server] = work[c].command] ELSE latest
      /\ UNCHANGED <<servers, batch, targets, clock, limit, peak, unpruned, twice>>
  BY IdleIs DEF History!UpdateCommandHistoryExecution, History!Returns
<1>3. /\ WorkTypes(work', H) /\ ~Working(work'[c]) /\ work'[c].server = None
      /\ \A d \in Workers : d # c => work'[d] = work[d]
  <2>1. WorkTypes(work', H) /\ Ended1(work', work, c) /\ Calms(work', work)
    BY <1>1, <1>2, EndsFacts
  <2>2. QED
    BY <2>1 DEF Ended1
<1>4. work[c].at \in Nat /\ Working(work[c]) /\ work[c].server \in H
  BY <1>1, <1>2, WorkFacts DEF Working
<1>5. Moves(history', history, work', work, c, H)
  BY <1>1, <1>2, <1>3, <1>4 DEF Moves, Moved
<1>6. IsFiniteSet(history') /\ BoundOk(history', work', unpruned, peak, H)
  <2>1. BoundOk(history, work, unpruned, peak, H)
    BY DEF HistoryInv
  <2>2. QED
    BY <1>1, <1>5, <2>1, BoundMove
<1>7. HistoryTypes(H, D, T)'
  <2>1. \A e \in history' : e \in Entry(H) /\ e.server \in servers
    <3>1. history' \subseteq Entry(H) /\ \A g \in history' : \E e \in history : g.server = e.server
      BY <1>5, MovesFields
    <3>2. \A e \in history : e.server \in servers
      BY DEF HistoryInv, HistoryTypes, EntryTypes
    <3>3. QED
      BY <3>1, <3>2
  <2>2. EntryTypes(history', servers, H)
    BY <1>6, <2>1 DEF EntryTypes
  <2>3. latest' = [s \in H |-> latest'[s]]
    <3>1. latest = [s \in H |-> latest[s]]
      BY DEF HistoryInv, HistoryTypes
    <3>2. QED
      BY <1>2, <3>1
  <2>4. QED
    BY <1>2, <1>3, <2>2, <2>3 DEF HistoryInv, HistoryTypes
<1>8. MomentsOk(history', batch, work', clock)
  BY <1>1, <1>5, MomentsMove DEF HistoryInv
<1>9. RowOk(history', work', clock)
  BY <1>5, RowMove DEF HistoryInv
<1>10. UniqueOk(history', work', twice)
  BY <1>5, UniqueMove DEF HistoryInv
<1>11. /\ RowOk(history, work, clock) /\ AloneOk(history, batch, targets, work)
       /\ LatestOk(history, batch, targets, work, latest, H)
  BY DEF HistoryInv
<1>12. LatestOk(history', batch, targets, work', latest', H)
  <2>1. \A s \in H : latest'[s] # latest[s] =>
          /\ s = work[c].server /\ latest'[s] = work[c].command /\ work[c].alone
          /\ \E e \in history : e.id = work[c].row
    <3>1. latest = [s \in H |-> latest[s]]
      BY DEF HistoryInv, HistoryTypes
    <3>2. QED
      BY <1>2, <3>1
  <2>2. QED
    BY <1>1, <1>5, <1>11, <2>1, LatestMove
<1>13. AloneOk(history', batch, targets, work')
  BY <1>1, <1>5, <1>11, AloneMove
<1>14. BatchOk(batch, targets, servers)'
  BY <1>2 DEF HistoryInv
<1>15. QED
  BY <1>2, <1>6, <1>7, <1>8, <1>9, <1>10, <1>12, <1>13, <1>14 DEF HistoryInv

\* InsertCommandHistory
LEMMA InsertKeeps ==
  ASSUME NEW CONSTANT H, NEW CONSTANT D, NEW CONSTANT T, HistoryInv(H, D, T),
         NEW CONSTANT c \in Workers, History(H, D, T)!InsertCommandHistory(c)
  PROVE  HistoryInv(H, D, T)'
<1> DEFINE e == [id |-> work[c].at, server |-> work[c].server, command |-> work[c].command, at |-> work[c].at]
<1>1. /\ T \in Nat /\ clock \in Nat /\ None \notin H /\ WorkTypes(work, H)
      /\ IsFiniteSet(history) /\ history \subseteq Entry(H) /\ unpruned \in [H -> Nat] /\ peak \in Nat
  BY HistoryFacts
<1>2. /\ work[c].step = "write" /\ work[c].row = 0
      /\ UNCHANGED <<servers, batch, targets, clock, limit, peak, unpruned, twice, latest>>
  BY DEF History!InsertCommandHistory, History!hvars
<1>3. work[c].at \in Nat /\ Working(work[c]) /\ work[c].server \in H /\ work[c].command \in Pair
  BY <1>1, <1>2, WorkFacts DEF Working
<1>4. CASE work[c].server \in servers
  <2> DEFINE r == [work[c] EXCEPT !.step = "prune"]
  <2>1. history' = history \cup {e} /\ work' = [work EXCEPT ![c].step = "prune"]
    BY <1>4 DEF History!InsertCommandHistory
  <2>2. work \in [Workers -> WorkRec(H)] /\ work[c] \in WorkRec(H) /\ \A d \in Workers : WorkOk(work[d], H)
    BY <1>1 DEF WorkTypes
  <2>3. /\ r \in WorkRec(H) /\ r.step = "prune" /\ r.server = work[c].server /\ r.command = work[c].command
        /\ r.alone = work[c].alone
    BY <2>2 DEF WorkRec
  <2>4. work' = [work EXCEPT ![c] = r]
    BY <2>1, <2>2
  <2>5. e \in Entry(H) /\ e.id = work[c].at /\ e.at = work[c].at /\ e.server = work[c].server /\ e.command = work[c].command
    BY <1>3 DEF Entry
  <2> HIDE DEF r, e
  <2>6. work' \in [Workers -> WorkRec(H)] /\ work'[c] = r /\ \A d \in Workers : d # c => work'[d] = work[d]
    BY <2>2, <2>3, <2>4
  <2>7. Inserts(history', history, work', work, c, e)
    BY <1>2, <1>3, <2>1, <2>3, <2>5, <2>6 DEF Inserts
  <2>8. e \notin history
    BY <1>2, <2>5 DEF HistoryInv, MomentsOk, Waiting
  <2>9. IsFiniteSet(history') /\ BoundOk(history', work', unpruned, peak, H)
    <3>1. BoundOk(history, work, unpruned, peak, H)
      BY DEF HistoryInv
    <3>2. QED
      BY <1>1, <2>7, <2>8, <3>1, BoundInsert
  <2>10. WorkTypes(work', H)
    BY <1>3, <2>2, <2>3, <2>6 DEF WorkTypes, WorkOk, Working
  <2>11. HistoryTypes(H, D, T)'
    <3>1. \A f \in history : f.server \in servers
      BY DEF HistoryInv, HistoryTypes, EntryTypes
    <3>2. EntryTypes(history', servers, H)
      BY <1>1, <1>4, <2>1, <2>5, <2>9, <3>1 DEF EntryTypes
    <3>3. QED
      BY <1>2, <2>10, <3>2 DEF HistoryInv, HistoryTypes
  <2>12. MomentsOk(history', batch, work', clock)
    BY <1>1, <2>7, MomentsInsert DEF HistoryInv
  <2>13. RowOk(history', work', clock)
    BY <2>7, RowInsert DEF HistoryInv
  <2>14. UniqueOk(history', work', twice)
    BY <2>7, UniqueInsert DEF HistoryInv
  <2>15. AloneOk(history', batch, targets, work')
    BY <2>7, AloneInsert DEF HistoryInv
  <2>16. LatestOk(history', batch, targets, work', latest, H)
    BY <2>7, LatestInsert DEF HistoryInv
  <2>17. BatchOk(batch, targets, servers)'
    BY <1>2 DEF HistoryInv
  <2>18. QED
    BY <1>2, <2>9, <2>11, <2>12, <2>13, <2>14, <2>15, <2>16, <2>17 DEF HistoryInv
<1>5. CASE work[c].server \notin servers
  <2>1. history' = history /\ work' = [work EXCEPT ![c] = NoCall]
    BY <1>5, IdleIs DEF History!InsertCommandHistory
  <2>2. WorkTypes(work', H) /\ Calms(work', work) /\ ~Working(work'[c]) /\ \A d \in Workers : d # c => work'[d] = work[d]
    <3>1. WorkTypes(work', H) /\ Ended1(work', work, c) /\ Calms(work', work)
      BY <1>1, <2>1, EndsFacts
    <3>2. QED
      BY <3>1 DEF Ended1
  <2>3. \A z \in H : Pruners(work', z) = Pruners(work, z)
    BY <1>2, <2>2 DEF Pruners, Working
  <2>4. HistoryTypes(H, D, T)'
    BY <1>2, <2>1, <2>2 DEF HistoryInv, HistoryTypes
  <2>5. MomentsOk(history, batch, work', clock)
    <3>1. (\A b \in batch : \E x \in batch : x.id = b.id) /\ clock <= clock /\ history \subseteq history
      BY <1>1
    <3>2. QED
      BY <1>1, <2>2, <3>1, MomentsLess DEF HistoryInv
  <2>6. RowOk(history, work', clock)
    <3>1. (\A d \in Workers : work[d].row \in Nat) /\ clock <= clock /\ history \subseteq history
      BY <1>1, WorkFacts
    <3>2. QED
      BY <1>1, <2>2, <3>1, RowLess DEF HistoryInv
  <2>7. UniqueOk(history, work', twice)
    BY <2>2, UniqueLess DEF HistoryInv
  <2>8. BoundOk(history, work', unpruned, peak, H)
    <3>1. BoundOk(history, work, unpruned, peak, H) /\ history \subseteq history /\ peak <= peak
      BY <1>1 DEF HistoryInv
    <3>2. QED
      BY <1>1, <2>3, <3>1, BoundLess
  <2>9. LatestOk(history, batch, targets, work', latest, H)
    <3>1. LatestOk(history, batch, targets, work, latest, H)
      BY DEF HistoryInv
    <3>2. QED
      BY <1>1, <2>2, <3>1, LatestLess
  <2>10. AloneOk(history, batch, targets, work')
    <3>1. AloneOk(history, batch, targets, work)
      BY DEF HistoryInv
    <3>2. \A d \in Workers : work[d].server = None => ~Working(work[d])
      BY <1>1, WorkFacts
    <3>3. \A d \in Workers : Lesser(history, batch, targets, history, batch, targets, work'[d].server)
      BY DEF Lesser
    <3>4. QED
      BY <2>2, <3>1, <3>2, <3>3, AloneLess
  <2>11. BatchOk(batch, targets, servers)'
    BY <1>2 DEF HistoryInv
  <2>12. QED
    BY <1>2, <2>1, <2>4, <2>5, <2>6, <2>7, <2>8, <2>9, <2>10, <2>11 DEF HistoryInv
<1>6. QED
  BY <1>4, <1>5

\* PruneCommandHistory
LEMMA PruneKeeps ==
  ASSUME NEW CONSTANT H, NEW CONSTANT D, NEW CONSTANT T, HistoryInv(H, D, T),
         NEW CONSTANT c \in Workers, History(H, D, T)!PruneCommandHistory(c)
  PROVE  HistoryInv(H, D, T)'
<1> DEFINE s == work[c].server
<1>1. /\ T \in Nat /\ clock \in Nat /\ None \notin H /\ WorkTypes(work, H)
      /\ IsFiniteSet(history) /\ unpruned \in [H -> Nat] /\ peak \in Nat /\ limit \in Nat /\ limit > 0 /\ limit <= peak
      /\ \A e \in history : e.id \in Nat /\ e.at \in Nat
  BY HistoryFacts
<1>2. /\ work[c].step = "prune"
      /\ history' = (history \ EntriesOf(history, s)) \cup History(H, D, T)!Newest(EntriesOf(history, s), limit)
      /\ unpruned' = [unpruned EXCEPT ![s] = 0]
      /\ work' = [work EXCEPT ![c] = NoCall]
      /\ latest' = IF work[c].alone THEN [latest EXCEPT ![s] = work[c].command] ELSE latest
      /\ UNCHANGED <<servers, batch, targets, clock, limit, peak, twice>>
  <2>1. EntriesOf(history, s) = History(H, D, T)!Of(s)
    BY DEF History!Of, EntriesOf
  <2>2. QED
    BY <2>1, IdleIs DEF History!PruneCommandHistory, History!Returns
<1>3. /\ WorkTypes(work', H) /\ ~Working(work'[c]) /\ work'[c].server = None
      /\ \A d \in Workers : d # c => work'[d] = work[d]
  <2>1. WorkTypes(work', H) /\ Ended1(work', work, c) /\ Calms(work', work)
    BY <1>1, <1>2, EndsFacts
  <2>2. QED
    BY <2>1 DEF Ended1
<1>4. s \in H
  BY <1>1, <1>2, WorkFacts DEF Working
<1>5. Prunes(history', history, work', work, c, limit)
  <2>1. History(H, D, T)!Newest(EntriesOf(history, s), limit)
          = {e \in EntriesOf(history, s) : Cardinality({f \in EntriesOf(history, s) : f.at > e.at}) < limit}
    BY HistoryCount DEF History!Newest
  <2>2. QED
    BY <1>2, <1>3, <2>1 DEF Prunes
<1>6. history' \subseteq history /\ Calms(work', work)
  BY <1>5, PrunesFields
<1>7. MomentsOk(history, batch, work, clock) /\ AloneOk(history, batch, targets, work) /\ BoundOk(history, work, unpruned, peak, H)
      /\ LatestOk(history, batch, targets, work, latest, H)
  BY DEF HistoryInv
<1>8. IsFiniteSet(history') /\ BoundOk(history', work', unpruned', peak, H)
  BY <1>1, <1>2, <1>5, <1>7, BoundPrune
<1>9. HistoryTypes(H, D, T)'
  <2>1. EntryTypes(history', servers, H)
    BY <1>6, <1>8 DEF HistoryInv, HistoryTypes, EntryTypes
  <2>2. latest = [z \in H |-> latest[z]]
    BY DEF HistoryInv, HistoryTypes
  <2>3. latest' = [z \in H |-> latest'[z]] /\ unpruned' \in [H -> Nat]
    BY <1>1, <1>2, <2>2
  <2>4. QED
    BY <1>2, <1>3, <2>1, <2>3 DEF HistoryInv, HistoryTypes
<1>10. MomentsOk(history', batch, work', clock)
  <2>1. (\A b \in batch : \E x \in batch : x.id = b.id) /\ clock <= clock
    BY <1>1
  <2>2. QED
    BY <1>1, <1>6, <1>7, <2>1, MomentsLess
<1>11. RowOk(history', work', clock)
  <2>1. (\A d \in Workers : work[d].row \in Nat) /\ clock <= clock
    BY <1>1, WorkFacts
  <2>2. QED
    BY <1>1, <1>6, <2>1, RowLess DEF HistoryInv
<1>12. UniqueOk(history', work', twice)
  BY <1>6, UniqueLess DEF HistoryInv
<1>13. AloneOk(history', batch, targets, work')
  BY <1>1, <1>5, <1>7, AlonePrune
<1>14. LatestOk(history', batch, targets, work', latest', H)
  <2>1. \A z \in H : latest'[z] # latest[z] => z = work[c].server /\ latest'[z] = work[c].command /\ work[c].alone
    <3>1. latest = [z \in H |-> latest[z]]
      BY DEF HistoryInv, HistoryTypes
    <3>2. QED
      BY <1>2, <3>1
  <2>2. QED
    BY <1>1, <1>5, <1>7, <2>1, LatestPrune
<1>15. BatchOk(batch, targets, servers)'
  BY <1>2 DEF HistoryInv
<1>16. QED
  BY <1>2, <1>8, <1>9, <1>10, <1>11, <1>12, <1>13, <1>14, <1>15 DEF HistoryInv

\* CutOff
LEMMA CutOffKeeps ==
  ASSUME NEW CONSTANT H, NEW CONSTANT D, NEW CONSTANT T, HistoryInv(H, D, T),
         NEW CONSTANT c \in Workers, History(H, D, T)!CutOff(c)
  PROVE  HistoryInv(H, D, T)'
<1>1. /\ T \in Nat /\ clock \in Nat /\ None \notin H /\ WorkTypes(work, H)
      /\ IsFiniteSet(history) /\ unpruned \in [H -> Nat] /\ peak \in Nat
  BY HistoryFacts
<1>2. /\ unpruned' = IF work[c].step = "prune" THEN [unpruned EXCEPT ![work[c].server] = @ + 1] ELSE unpruned
      /\ work' = [work EXCEPT ![c] = NoCall]
      /\ UNCHANGED <<servers, history, batch, targets, clock, limit, peak, twice, latest>>
  BY IdleIs DEF History!CutOff
<1>3. WorkTypes(work', H) /\ Ended1(work', work, c) /\ Calms(work', work)
  BY <1>1, <1>2, EndsFacts
<1>4. work[c].step = "prune" => work[c].server \in H
  BY <1>1, WorkFacts DEF Working
<1>5. /\ unpruned' \in [H -> Nat]
      /\ LeftBy(unpruned', unpruned, work, c, H)
  BY <1>1, <1>2, <1>4 DEF LeftBy
<1>6. HistoryTypes(H, D, T)'
  BY <1>2, <1>3, <1>5 DEF HistoryInv, HistoryTypes
<1>7. MomentsOk(history, batch, work', clock)
  <2>1. (\A b \in batch : \E x \in batch : x.id = b.id) /\ clock <= clock /\ history \subseteq history
    BY <1>1
  <2>2. QED
    BY <1>1, <1>3, <2>1, MomentsLess DEF HistoryInv
<1>8. RowOk(history, work', clock)
  <2>1. (\A d \in Workers : work[d].row \in Nat) /\ clock <= clock /\ history \subseteq history
    BY <1>1, WorkFacts
  <2>2. QED
    BY <1>1, <1>3, <2>1, RowLess DEF HistoryInv
<1>9. UniqueOk(history, work', twice)
  BY <1>3, UniqueLess DEF HistoryInv
<1>10. BoundOk(history, work', unpruned', peak, H)
  <2>1. BoundOk(history, work, unpruned, peak, H)
    BY DEF HistoryInv
  <2>2. QED
    BY <1>1, <1>3, <1>5, <2>1, BoundEnds
<1>11. LatestOk(history, batch, targets, work', latest, H)
  <2>1. LatestOk(history, batch, targets, work, latest, H)
    BY DEF HistoryInv
  <2>2. QED
    BY <1>1, <1>3, <2>1, LatestLess
<1>12. AloneOk(history, batch, targets, work')
  <2>1. AloneOk(history, batch, targets, work)
    BY DEF HistoryInv
  <2>2. \A d \in Workers : work[d].server = None => ~Working(work[d])
    BY <1>1, WorkFacts
  <2>3. \A d \in Workers : Lesser(history, batch, targets, history, batch, targets, work'[d].server)
    BY DEF Lesser
  <2>4. QED
    BY <1>3, <2>1, <2>2, <2>3, AloneLess
<1>13. BatchOk(batch, targets, servers)'
  BY <1>2 DEF HistoryInv
<1>14. QED
  BY <1>2, <1>6, <1>7, <1>8, <1>9, <1>10, <1>11, <1>12, <1>13 DEF HistoryInv


\* RecordBatchHistory
LEMMA BatchCall ==
  ASSUME NEW CONSTANT H, NEW CONSTANT D, NEW CONSTANT T, HistoryInv(H, D, T), NEW CONSTANT c \in Workers,
         NEW CONSTANT u \in D, NEW CONSTANT x \in Pair, NEW CONSTANT S \in SUBSET H, History(H, D, T)!RecordBatchHistory(c, u, x, S)
  PROVE  /\ work[c].step = "idle" /\ WorkTypes(work', H) /\ Calms(work', work)
         /\ ~Working(work'[c]) /\ work'[c].server = None
         /\ \A d \in Workers : d # c =>
              /\ work'[d].step = work[d].step /\ work'[d].server = work[d].server /\ work'[d].command = work[d].command
              /\ work'[d].at = work[d].at /\ work'[d].row = work[d].row
              /\ work'[d].alone => work[d].alone /\ work[d].server \notin S
         /\ \A z \in H : Pruners(work', z) = Pruners(work, z)
<1> DEFINE nq == History(H, D, T)!NotAlone(work, S)
           st == IF S \subseteq servers THEN "batch" ELSE "idle"
           r == [nq[c] EXCEPT !.step = st]
<1>1. None \notin H /\ WorkTypes(work, H)
  BY HistoryFacts
<1>2. work[c] = NoCall /\ work' = [nq EXCEPT ![c].step = st]
  BY IdleIs DEF History!RecordBatchHistory
<1>3. work[c].step = "idle" /\ work[c].server = None
  BY <1>2 DEF NoCall
<1>4. /\ WorkTypes(nq, H)
      /\ \A d \in Workers : /\ nq[d].step = work[d].step /\ nq[d].server = work[d].server /\ nq[d].command = work[d].command
                            /\ nq[d].at = work[d].at /\ nq[d].row = work[d].row
                            /\ nq[d].alone => work[d].alone /\ work[d].server \notin S
  <2>1. Disturbed(nq, work, S)
    BY DEF Disturbed, History!NotAlone, Workers
  <2> HIDE DEF nq
  <2>2. QED
    BY <1>1, <2>1, NotAloneFacts
<1>5. st \in {"batch", "idle"}
  OBVIOUS
<1> HIDE DEF nq, st
<1>6. nq \in [Workers -> WorkRec(H)] /\ nq[c] \in WorkRec(H) /\ \A d \in Workers : WorkOk(nq[d], H)
  BY <1>4 DEF WorkTypes
<1>7. r \in WorkRec(H) /\ r.step = st /\ r.server = nq[c].server
  BY <1>5, <1>6 DEF WorkRec
<1>8. work' = [nq EXCEPT ![c] = r]
  BY <1>2, <1>6
<1> HIDE DEF r
<1>9. work' \in [Workers -> WorkRec(H)] /\ work'[c] = r /\ \A d \in Workers : d # c => work'[d] = nq[d]
  BY <1>6, <1>7, <1>8
<1>10. ~Working(work'[c]) /\ work'[c].server = None /\ work'[c].step # "prune"
  BY <1>3, <1>4, <1>5, <1>7, <1>9 DEF Working
<1>11. \A d \in Workers : d # c =>
         /\ work'[d].step = work[d].step /\ work'[d].server = work[d].server /\ work'[d].command = work[d].command
         /\ work'[d].at = work[d].at /\ work'[d].row = work[d].row
         /\ work'[d].alone => work[d].alone /\ work[d].server \notin S
  BY <1>4, <1>9
<1>12. WorkTypes(work', H)
  BY <1>6, <1>9, <1>10 DEF WorkTypes, WorkOk
<1>13. Calms(work', work)
  BY <1>10, <1>11 DEF Calms
<1>14. \A z \in H : Pruners(work', z) = Pruners(work, z)
  BY <1>3, <1>10, <1>11 DEF Pruners
<1>15. QED
  BY <1>3, <1>10, <1>11, <1>12, <1>13, <1>14

\* It keeps the invariant.
LEMMA RecordBatchKeeps ==
  ASSUME NEW CONSTANT H, NEW CONSTANT D, NEW CONSTANT T, HistoryInv(H, D, T), NEW CONSTANT c \in Workers,
         NEW CONSTANT u \in D, NEW CONSTANT x \in Pair, NEW CONSTANT S \in SUBSET H, History(H, D, T)!RecordBatchHistory(c, u, x, S)
  PROVE  HistoryInv(H, D, T)'
<1>1. /\ T \in Nat /\ clock \in Nat /\ None \notin H /\ WorkTypes(work, H)
      /\ IsFiniteSet(history) /\ unpruned \in [H -> Nat] /\ peak \in Nat /\ batch \subseteq BatchEntry(H, D)
      /\ \A b \in batch : b.id \in 1..clock
  BY HistoryFacts
<1>2. /\ clock < T /\ S # {} /\ clock' = clock + 1
      /\ latest' = [s \in H |-> IF s \notin S THEN latest[s]
                                ELSE IF batch' # batch /\ ~History(H, D, T)!Busy(s) THEN x ELSE None]
      /\ UNCHANGED <<servers, history, limit, peak, unpruned, twice>>
  BY DEF History!RecordBatchHistory
<1>3. /\ work[c].step = "idle" /\ WorkTypes(work', H) /\ Calms(work', work)
      /\ ~Working(work'[c]) /\ work'[c].server = None
      /\ \A d \in Workers : d # c =>
           /\ work'[d].step = work[d].step /\ work'[d].server = work[d].server /\ work'[d].command = work[d].command
           /\ work'[d].at = work[d].at /\ work'[d].row = work[d].row
           /\ work'[d].alone => work[d].alone /\ work[d].server \notin S
      /\ \A z \in H : Pruners(work', z) = Pruners(work, z)
  BY BatchCall
<1>4. /\ MomentsOk(history, batch, work, clock) /\ RowOk(history, work, clock) /\ UniqueOk(history, work, twice)
      /\ BoundOk(history, work, unpruned, peak, H)
      /\ LatestOk(history, batch, targets, work, latest, H) /\ AloneOk(history, batch, targets, work)
      /\ BatchOk(batch, targets, servers)
  BY DEF HistoryInv
<1>5. clock' \in 0..T /\ clock + 1 \in Nat /\ clock <= clock + 1
  BY <1>1, <1>2
<1>6. BoundOk(history, work', unpruned, peak, H)
  <2>1. history \subseteq history /\ peak <= peak
    BY <1>1
  <2>2. \A z \in H : Pruners(work', z) = Pruners(work, z)
    BY <1>3
  <2>3. QED
    BY <1>1, <1>4, <2>1, <2>2, BoundLess
<1>7. RowOk(history, work', clock + 1)
  <2>1. (\A d \in Workers : work[d].row \in Nat) /\ history \subseteq history
    BY <1>1, WorkFacts
  <2>2. QED
    BY <1>1, <1>3, <1>4, <1>5, <2>1, RowLess
<1>8. UniqueOk(history, work', twice)
  BY <1>3, <1>4, UniqueLess
<1>9. latest' = [s \in H |-> latest'[s]]
  BY <1>2
<1>10. CASE (\E b \in batch : b.submission = u) \/ ~(S \subseteq servers)
  <2>1. batch' = batch /\ targets' = targets
    BY <1>10 DEF History!RecordBatchHistory, History!InsertBatchCommandHistory
  <2>2. HistoryTypes(H, D, T)'
    BY <1>2, <1>3, <1>5, <1>9, <2>1 DEF HistoryInv, HistoryTypes
  <2>3. MomentsOk(history, batch, work', clock + 1)
    <3>1. \A b \in batch : \E y \in batch : y.id = b.id
      OBVIOUS
    <3>2. history \subseteq history
      OBVIOUS
    <3>3. QED
      BY <1>1, <1>3, <1>4, <1>5, <3>1, <3>2, MomentsLess
  <2>4. LatestOk(history, batch, targets, work', latest', H)
    <3>1. \A s \in H : latest'[s] # None => latest'[s] = latest[s]
      BY <1>2, <2>1
    <3>2. QED
      BY <1>1, <1>3, <1>4, <3>1, LatestLess
  <2>5. AloneOk(history, batch, targets, work')
    <3>1. \A d \in Workers : work[d].server = None => ~Working(work[d])
      BY <1>1, WorkFacts
    <3>2. \A d \in Workers : Lesser(history, batch, targets, history, batch, targets, work'[d].server)
      BY DEF Lesser
    <3>3. QED
      BY <1>3, <1>4, <3>1, <3>2, AloneLess
  <2>6. QED
    BY <1>2, <1>4, <1>6, <1>7, <1>8, <2>1, <2>2, <2>3, <2>4, <2>5 DEF HistoryInv
<1>11. CASE (\A b \in batch : b.submission # u) /\ S \subseteq servers
  <2> DEFINE b == [id |-> clock + 1, submission |-> u, command |-> x, sent |-> S]
  <2>1. batch' = batch \cup {b} /\ targets' = targets \cup ({clock + 1} \X S)
    BY <1>11 DEF History!RecordBatchHistory, History!InsertBatchCommandHistory
  <2>2. b \in BatchEntry(H, D) /\ b.id = clock + 1 /\ b.submission = u /\ b.command = x /\ b.sent = S
    BY <1>5 DEF BatchEntry
  <2> HIDE DEF b
  <2>3. Sends(batch', targets', work', batch, targets, work, c, b, clock)
    BY <1>3, <2>1, <2>2 DEF Sends
  <2>4. HistoryTypes(H, D, T)'
    <3>1. batch' \subseteq BatchEntry(H, D)
      BY <1>1, <2>1, <2>2
    <3>2. QED
      BY <1>2, <1>3, <1>5, <1>9, <3>1 DEF HistoryInv, HistoryTypes
  <2>5. MomentsOk(history, batch', work', clock + 1)
    BY <1>1, <1>4, <2>3, MomentsSend
  <2>6. BatchOk(batch', targets', servers)
    <3>1. b.sent \subseteq servers /\ b.sent # {} /\ \A y \in batch : y.id \in 1..clock /\ y.submission # b.submission
      BY <1>1, <1>2, <1>11, <2>2
    <3>2. QED
      BY <1>1, <1>4, <2>3, <3>1, BatchSend
  <2>7. AloneOk(history, batch', targets', work')
    <3>1. \A y \in batch : y.id \in 1..clock
      BY <1>1
    <3>2. QED
      BY <1>1, <1>4, <2>3, <3>1, AloneSend
  <2>8. LatestOk(history, batch', targets', work', latest', H)
    <3>1. \A s \in H : latest'[s] # None =>
            \/ s \notin b.sent /\ latest'[s] = latest[s]
            \/ s \in b.sent /\ latest'[s] = b.command /\ Free(work, s)
      <4>1. ASSUME NEW s \in H, ~History(H, D, T)!Busy(s)
            PROVE  Free(work, s)
        <5>1. \A d \in Workers : work[d].server = s => work[d].step # "idle"
          BY <1>1, WorkFacts
        <5>2. QED
          BY <4>1, <5>1 DEF History!Busy, Workers, Free
      <4>2. QED
        BY <1>2, <2>2, <4>1
    <3>2. QED
      BY <1>1, <1>4, <2>3, <3>1, LatestSend
  <2>9. QED
    BY <1>2, <1>6, <1>7, <1>8, <2>4, <2>5, <2>6, <2>7, <2>8 DEF HistoryInv
<1>12. QED
  BY <1>10, <1>11

\* PruneBatchCommandHistory
LEMMA PruneBatchKeeps ==
  ASSUME NEW CONSTANT H, NEW CONSTANT D, NEW CONSTANT T, HistoryInv(H, D, T),
         NEW CONSTANT c \in Workers, History(H, D, T)!PruneBatchCommandHistory(c)
  PROVE  HistoryInv(H, D, T)'
<1>1. /\ T \in Nat /\ clock \in Nat /\ None \notin H /\ WorkTypes(work, H)
      /\ IsFiniteSet(history) /\ unpruned \in [H -> Nat] /\ peak \in Nat /\ batch \subseteq BatchEntry(H, D)
  BY HistoryFacts
<1>2. /\ work[c].step = "batch" /\ batch' \subseteq batch
      /\ targets' = {t \in targets : t[1] \in {b.id : b \in batch'}}
      /\ work' = [work EXCEPT ![c] = NoCall]
      /\ latest' = [s \in H |-> IF s \in {z \in H : \E t \in targets \ targets' : t[2] = z} THEN None ELSE latest[s]]
      /\ UNCHANGED <<servers, history, clock, limit, peak, unpruned, twice>>
  BY IdleIs DEF History!PruneBatchCommandHistory, History!Uncertain
<1>3. WorkTypes(work', H) /\ Ended1(work', work, c) /\ Calms(work', work)
  BY <1>1, <1>2, EndsFacts
<1>4. /\ MomentsOk(history, batch, work, clock) /\ RowOk(history, work, clock) /\ UniqueOk(history, work, twice)
      /\ BoundOk(history, work, unpruned, peak, H)
      /\ LatestOk(history, batch, targets, work, latest, H) /\ AloneOk(history, batch, targets, work)
      /\ BatchOk(batch, targets, servers)
  BY DEF HistoryInv
<1>5. Drops(batch', targets', batch, targets)
  BY <1>2 DEF Drops
<1>6. HistoryTypes(H, D, T)'
  <2>1. batch' \subseteq BatchEntry(H, D) /\ latest' = [s \in H |-> latest'[s]]
    BY <1>1, <1>2
  <2>2. QED
    BY <1>2, <1>3, <2>1 DEF HistoryInv, HistoryTypes
<1>7. MomentsOk(history, batch', work', clock)
  <2>1. (\A b \in batch' : \E y \in batch : y.id = b.id) /\ clock <= clock /\ history \subseteq history
    BY <1>1, <1>2
  <2>2. QED
    BY <1>1, <1>3, <1>4, <2>1, MomentsLess
<1>8. RowOk(history, work', clock)
  <2>1. (\A d \in Workers : work[d].row \in Nat) /\ clock <= clock /\ history \subseteq history
    BY <1>1, WorkFacts
  <2>2. QED
    BY <1>1, <1>3, <1>4, <2>1, RowLess
<1>9. UniqueOk(history, work', twice)
  BY <1>3, <1>4, UniqueLess
<1>10. BoundOk(history, work', unpruned, peak, H)
  <2>1. LeftBy(unpruned, unpruned, work, c, H)
    BY <1>2 DEF LeftBy
  <2>2. QED
    BY <1>1, <1>3, <1>4, <2>1, BoundEnds
<1>11. LatestOk(history, batch', targets', work', latest', H)
  <2>1. ASSUME NEW s \in H, latest'[s] # None
        PROVE  /\ latest'[s] = latest[s]
               /\ \A y : \A u \in Nat : Tells(history, batch', targets', s, y, u) <=> Tells(history, batch, targets, s, y, u)
    <3>1. latest'[s] = latest[s] /\ \A t \in targets \ targets' : t[2] # s
      BY <1>2, <2>1
    <3>2. QED
      BY <1>4, <1>5, <3>1, DropLists
  <2>2. QED
    BY <1>1, <1>3, <1>4, <2>1, LatestLess
<1>12. AloneOk(history, batch', targets', work')
  <2>1. \A d \in Workers : work[d].server = None => ~Working(work[d])
    BY <1>1, WorkFacts
  <2>2. \A d \in Workers : Lesser(history, batch', targets', history, batch, targets, work'[d].server)
    BY <1>4, <1>5, DropLists
  <2>3. QED
    BY <1>3, <1>4, <2>1, <2>2, AloneLess
<1>13. BatchOk(batch', targets', servers)
  BY <1>4, <1>5, BatchDrop
<1>14. QED
  BY <1>2, <1>6, <1>7, <1>8, <1>9, <1>10, <1>11, <1>12, <1>13 DEF HistoryInv

\* SaveSettings
LEMMA SetLimitKeeps ==
  ASSUME NEW CONSTANT H, NEW CONSTANT D, NEW CONSTANT T, HistoryInv(H, D, T),
         NEW CONSTANT n \in 1..MaxLimit, History(H, D, T)!SetLimit(n)
  PROVE  HistoryInv(H, D, T)'
<1>1. /\ IsFiniteSet(history) /\ unpruned \in [H -> Nat] /\ peak \in Nat /\ limit \in Nat /\ peak \in 1..MaxLimit
  BY HistoryFacts
<1>2. n \in Nat /\ MaxLimit \in Nat
  BY HistoryAssumption
<1>3. /\ limit' = n /\ peak' = History(H, D, T)!Max({n, peak})
      /\ UNCHANGED <<servers, history, batch, targets, clock, work, unpruned, twice, latest>>
  BY DEF History!SetLimit
<1>4. peak' \in {n, peak} /\ n <= peak' /\ peak <= peak'
  <2> DEFINE m == IF n <= peak THEN peak ELSE n
  <2>1. m \in {n, peak} /\ \A y \in {n, peak} : m >= y
    BY <1>1, <1>2
  <2>2. \A z \in {n, peak} : (\A y \in {n, peak} : z >= y) => n <= z /\ peak <= z
    BY <1>1, <1>2
  <2> HIDE DEF m
  <2>3. peak' \in {n, peak} /\ \A y \in {n, peak} : peak' >= y
    BY <1>3, <2>1 DEF History!Max
  <2>4. QED
    BY <2>2, <2>3
<1>5. LimitTypes(limit', peak')
  BY <1>1, <1>2, <1>3, <1>4 DEF LimitTypes
<1>6. BoundOk(history, work, unpruned, peak', H)
  <2>1. BoundOk(history, work, unpruned, peak, H) /\ history \subseteq history
    BY DEF HistoryInv
  <2>2. peak' \in Nat
    BY <1>1, <1>2, <1>4
  <2>3. QED
    BY <1>1, <1>4, <2>1, <2>2, BoundLess
<1>7. HistoryTypes(H, D, T)'
  BY <1>3, <1>5 DEF HistoryInv, HistoryTypes
<1>8. QED
  BY <1>3, <1>6, <1>7 DEF HistoryInv


\* What is kept where calls are disturbed and entries go.
LEMMA LessKeeps ==
  ASSUME NEW CONSTANT H, NEW CONSTANT D, NEW CONSTANT T, HistoryInv(H, D, T), NEW CONSTANT S,
         work' = History(H, D, T)!NotAlone(work, S), history' \subseteq history,
         \A b \in batch' : \E y \in batch : y.id = b.id,
         UNCHANGED <<clock, limit, peak, unpruned, twice>>
  PROVE  /\ WorkTypes(work', H) /\ Calms(work', work) /\ IsFiniteSet(history')
         /\ \A d \in Workers : work'[d].alone => work[d].server \notin S /\ work'[d].server = work[d].server
         /\ MomentsOk(history', batch', work', clock') /\ RowOk(history', work', clock') /\ UniqueOk(history', work', twice')
         /\ BoundOk(history', work', unpruned', peak', H)
<1>1. /\ clock \in Nat /\ None \notin H /\ WorkTypes(work, H)
      /\ IsFiniteSet(history) /\ unpruned \in [H -> Nat] /\ peak \in Nat
  BY HistoryFacts
<1>2. /\ WorkTypes(work', H) /\ Calms(work', work)
      /\ \A d \in Workers : work'[d].alone => work[d].server \notin S /\ work'[d].server = work[d].server
      /\ \A s : Pruners(work', s) = Pruners(work, s)
  <2>1. Disturbed(work', work, S)
    BY DEF Disturbed, History!NotAlone, Workers
  <2>2. QED
    BY <1>1, <2>1, NotAloneFacts
<1>3. /\ MomentsOk(history, batch, work, clock) /\ RowOk(history, work, clock) /\ UniqueOk(history, work, twice)
      /\ BoundOk(history, work, unpruned, peak, H)
  BY DEF HistoryInv
<1>4. MomentsOk(history', batch', work', clock)
  <2>1. clock <= clock
    BY <1>1
  <2>2. QED
    BY <1>1, <1>2, <1>3, <2>1, MomentsLess
<1>5. RowOk(history', work', clock)
  <2>1. (\A d \in Workers : work[d].row \in Nat) /\ clock <= clock
    BY <1>1, WorkFacts
  <2>2. QED
    BY <1>1, <1>2, <1>3, <2>1, RowLess
<1>6. UniqueOk(history', work', twice)
  BY <1>2, <1>3, UniqueLess
<1>7. IsFiniteSet(history') /\ BoundOk(history', work', unpruned, peak, H)
  <2>1. (\A z \in H : Pruners(work', z) = Pruners(work, z)) /\ peak <= peak
    BY <1>1, <1>2
  <2>2. QED
    BY <1>1, <1>3, <2>1, BoundLess
<1>8. QED
  BY <1>2, <1>4, <1>5, <1>6, <1>7

\* Where no call is alone and no last command known, nothing is claimed of them.
LEMMA NoneAlone ==
  ASSUME NEW hi, NEW ba, NEW ta, NEW wk, NEW la, NEW H, \A c \in Workers : Working(wk[c]) => ~wk[c].alone,
         \A s \in H : la[s] = None
  PROVE  AloneOk(hi, ba, ta, wk) /\ LatestOk(hi, ba, ta, wk, la, H)
BY DEF AloneOk, LatestOk

\* DeleteHistory
LEMMA DeleteHistoryKeeps ==
  ASSUME NEW CONSTANT H, NEW CONSTANT D, NEW CONSTANT T, HistoryInv(H, D, T),
         NEW CONSTANT i, History(H, D, T)!DeleteHistory(i)
  PROVE  HistoryInv(H, D, T)'
<1>1. /\ None \notin H /\ WorkTypes(work, H) /\ batch \subseteq BatchEntry(H, D)
  BY HistoryFacts
<1>2. /\ history' = {e \in history : e.id # i} /\ batch' = {b \in batch : b.id # i} /\ targets' = {t \in targets : t[1] # i}
      /\ latest' = [s \in H |-> IF s \in H THEN None ELSE latest[s]]
      /\ work' = History(H, D, T)!NotAlone(work, H)
      /\ UNCHANGED <<servers, clock, limit, peak, unpruned, twice>>
  BY DEF History!DeleteHistory, History!Uncertain
<1>3. /\ WorkTypes(work', H) /\ Calms(work', work) /\ IsFiniteSet(history')
      /\ \A d \in Workers : work'[d].alone => work[d].server \notin H /\ work'[d].server = work[d].server
      /\ MomentsOk(history', batch', work', clock') /\ RowOk(history', work', clock') /\ UniqueOk(history', work', twice')
      /\ BoundOk(history', work', unpruned', peak', H)
  <2>1. history' \subseteq history /\ \A b \in batch' : \E y \in batch : y.id = b.id
    BY <1>2
  <2>2. UNCHANGED <<clock, limit, peak, unpruned, twice>>
    BY <1>2
  <2>3. work' = History(H, D, T)!NotAlone(work, H)
    BY <1>2
  <2>4. QED
    BY <2>1, <2>2, <2>3, LessKeeps
<1>4. HistoryTypes(H, D, T)'
  <2>1. EntryTypes(history', servers, H) /\ batch' \subseteq BatchEntry(H, D) /\ latest' = [s \in H |-> latest'[s]]
    BY <1>1, <1>2, <1>3 DEF HistoryInv, HistoryTypes, EntryTypes
  <2>2. QED
    BY <1>2, <1>3, <2>1 DEF HistoryInv, HistoryTypes
<1>5. BatchOk(batch', targets', servers)
  <2>1. BatchOk(batch, targets, servers)
    BY DEF HistoryInv
  <2>2. \A t \in targets : \E b \in batch : t[1] = b.id
    BY <2>1 DEF BatchOk
  <2>3. Drops(batch', targets', batch, targets)
    BY <1>2, <2>2 DEF Drops
  <2>4. QED
    BY <2>1, <2>3, BatchDrop
<1>6. AloneOk(history', batch', targets', work') /\ LatestOk(history', batch', targets', work', latest', H)
  <2>1. \A d \in Workers : Working(work'[d]) => ~work'[d].alone
    BY <1>1, <1>3, WorkFacts
  <2>2. \A s \in H : latest'[s] = None
    BY <1>2
  <2>3. QED
    BY <2>1, <2>2, NoneAlone
<1>7. QED
  BY <1>2, <1>3, <1>4, <1>5, <1>6 DEF HistoryInv

\* UpdateHistory
LEMMA UpdateHistoryKeeps ==
  ASSUME NEW CONSTANT H, NEW CONSTANT D, NEW CONSTANT T, HistoryInv(H, D, T),
         NEW CONSTANT i, NEW CONSTANT x \in Pair, History(H, D, T)!UpdateHistory(i, x)
  PROVE  HistoryInv(H, D, T)'
<1>1. /\ None \notin H /\ WorkTypes(work, H) /\ batch \subseteq BatchEntry(H, D) /\ history \subseteq Entry(H)
      /\ IsFiniteSet(history) /\ unpruned \in [H -> Nat] /\ peak \in Nat /\ clock \in Nat
  BY HistoryFacts
<1>2. /\ history' = {Edited(e, i, x) : e \in history} /\ batch' = {Edited(b, i, x) : b \in batch}
      /\ twice' = twice \cup {<<e.server, x>> : e \in {y \in history : y.id = i}}
      /\ latest' = [s \in H |-> IF s \in H THEN None ELSE latest[s]]
      /\ work' = History(H, D, T)!NotAlone(work, H)
      /\ UNCHANGED <<servers, targets, clock, limit, peak, unpruned>>
  BY DEF History!UpdateHistory, History!Uncertain, Edited
<1>3. /\ WorkTypes(work', H) /\ Calms(work', work)
      /\ \A d \in Workers : work'[d].alone => work[d].server \notin H /\ work'[d].server = work[d].server
      /\ \A s : Pruners(work', s) = Pruners(work, s)
  <2>1. work' = History(H, D, T)!NotAlone(work, H)
    BY <1>2
  <2>2. /\ WorkTypes(work', H) /\ Calms(work', work)
        /\ \A d \in Workers : /\ work'[d].step = work[d].step /\ work'[d].server = work[d].server
                              /\ work'[d].command = work[d].command
                              /\ work'[d].at = work[d].at /\ work'[d].row = work[d].row
                              /\ work'[d].alone => work[d].alone /\ work[d].server \notin H
        /\ \A s : Pruners(work', s) = Pruners(work, s)
    <3>1. None \notin H /\ WorkTypes(work, H)
      BY <1>1
    <3>2. PICK S : S = H
      OBVIOUS
    <3>3. Disturbed(work', work, S)
      BY <2>1, <3>2 DEF Disturbed, History!NotAlone, Workers
    <3>4. /\ WorkTypes(work', H) /\ Calms(work', work)
          /\ \A d \in Workers : /\ work'[d].step = work[d].step /\ work'[d].server = work[d].server
                                /\ work'[d].command = work[d].command
                                /\ work'[d].at = work[d].at /\ work'[d].row = work[d].row
                                /\ work'[d].alone => work[d].alone /\ work[d].server \notin S
          /\ \A s : Pruners(work', s) = Pruners(work, s)
      BY <3>1, <3>3, NotAloneFacts
    <3>5. QED
      BY <3>2, <3>4
  <2>3. QED
    BY <2>2
<1>4. \A d \in Workers : Working(work'[d]) => ~work'[d].alone
  BY <1>1, <1>3, WorkFacts
<1>5. Edits(history', batch', work', history, batch, work, i, x, H, D)
  BY <1>1, <1>2, <1>3, <1>4 DEF Edits
<1>6. /\ MomentsOk(history, batch, work, clock) /\ RowOk(history, work, clock) /\ UniqueOk(history, work, twice)
      /\ BoundOk(history, work, unpruned, peak, H) /\ BatchOk(batch, targets, servers)
  BY DEF HistoryInv
<1>7. MomentsOk(history', batch', work', clock)
  BY <1>1, <1>5, <1>6, MomentsEdit
<1>8. RowOk(history', work', clock)
  <2>1. \A d \in Workers : work[d].row \in Nat
    BY <1>1, WorkFacts
  <2>2. QED
    BY <1>1, <1>5, <1>6, <2>1, RowEdit
<1>9. UniqueOk(history', work', twice')
  BY <1>2, <1>5, <1>6, UniqueEdit
<1>10. IsFiniteSet(history') /\ BoundOk(history', work', unpruned, peak, H)
  <2>1. \A s \in H : Pruners(work', s) = Pruners(work, s)
    BY <1>3
  <2>2. QED
    BY <1>1, <1>5, <1>6, <2>1, BoundEdit
<1>11. BatchOk(batch', targets, servers)
  BY <1>5, <1>6, BatchEdit
<1>12. AloneOk(history', batch', targets, work') /\ LatestOk(history', batch', targets, work', latest', H)
  <2>1. \A s \in H : latest'[s] = None
    BY <1>2
  <2>2. QED
    BY <1>4, <2>1, NoneAlone
<1>13. HistoryTypes(H, D, T)'
  <2>1. (\A g \in history' : g \in Entry(H) /\ \E e \in history : g.server = e.server) /\ batch' \subseteq BatchEntry(H, D)
    BY <1>5, EditsFields
  <2>2. \A e \in history : e.server \in servers
    BY DEF HistoryInv, HistoryTypes, EntryTypes
  <2>3. EntryTypes(history', servers, H) /\ latest' = [s \in H |-> latest'[s]]
    BY <1>2, <1>10, <2>1, <2>2 DEF EntryTypes
  <2>4. QED
    BY <1>2, <1>3, <2>1, <2>3 DEF HistoryInv, HistoryTypes
<1>14. QED
  BY <1>2, <1>7, <1>8, <1>9, <1>10, <1>11, <1>12, <1>13 DEF HistoryInv

\* What is kept where the entries and the targets of a server go.
LEMMA LeavesKeeps ==
  ASSUME NEW CONSTANT H, NEW CONSTANT D, NEW CONSTANT T, HistoryInv(H, D, T), NEW CONSTANT s,
         Leaves(history', targets', history, targets, s),
         batch' = batch \/ batch' = Cleared(batch, targets, s),
         latest' = [z \in H |-> IF z \in {s} THEN None ELSE latest[z]],
         Calms(work', work), \A d \in Workers : work'[d].alone => work[d].server # s /\ work'[d].server = work[d].server
  PROVE  AloneOk(history', batch', targets', work') /\ LatestOk(history', batch', targets', work', latest', H)
<1>1. None \notin H /\ WorkTypes(work, H) /\ batch \subseteq BatchEntry(H, D)
  BY HistoryFacts
<1>2. AloneOk(history, batch, targets, work) /\ LatestOk(history, batch, targets, work, latest, H) /\ BatchOk(batch, targets, servers)
  BY DEF HistoryInv
<1>3. ASSUME NEW z, z # s
      PROVE  /\ \A y : \A u \in Nat : Tells(history', batch', targets', z, y, u) <=> Tells(history, batch, targets, z, y, u)
             /\ Lesser(history', batch', targets', history, batch, targets, z)
  BY <1>1, <1>2, <1>3, LeaveLists
<1>4. AloneOk(history', batch', targets', work')
  <2>1. \A d \in Workers : work[d].server = None => ~Working(work[d])
    BY <1>1, WorkFacts
  <2>2. \A d \in Workers : Working(work'[d]) /\ work'[d].alone =>
          Lesser(history', batch', targets', history, batch, targets, work'[d].server)
    BY <1>3
  <2>3. QED
    BY <1>2, <2>1, <2>2, AloneLess
<1>5. LatestOk(history', batch', targets', work', latest', H)
  <2>1. \A z \in H : latest'[z] # None =>
          /\ latest'[z] = latest[z]
          /\ \A y : \A u \in Nat : Tells(history', batch', targets', z, y, u) <=> Tells(history, batch, targets, z, y, u)
    BY <1>3
  <2>2. QED
    BY <1>1, <1>2, <2>1, LatestLess
<1>6. QED
  BY <1>4, <1>5

\* ClearHistory
LEMMA ClearKeeps ==
  ASSUME NEW CONSTANT H, NEW CONSTANT D, NEW CONSTANT T, HistoryInv(H, D, T),
         NEW CONSTANT s, History(H, D, T)!ClearHistory(s)
  PROVE  HistoryInv(H, D, T)'
<1>1. /\ None \notin H /\ WorkTypes(work, H) /\ batch \subseteq BatchEntry(H, D)
  BY HistoryFacts
<1>2. /\ history' = history \ EntriesOf(history, s) /\ targets' = {t \in targets : t[2] # s}
      /\ batch' = Cleared(batch, targets, s)
      /\ latest' = [z \in H |-> IF z \in {s} THEN None ELSE latest[z]]
      /\ work' = History(H, D, T)!NotAlone(work, {s})
      /\ UNCHANGED <<servers, clock, limit, peak, unpruned, twice>>
  BY DEF History!ClearHistory, History!Uncertain, History!Of, EntriesOf, Cleared
<1>3. Leaves(history', targets', history, targets, s) /\ history' \subseteq history
  BY <1>2 DEF Leaves
<1>4. batch' \subseteq BatchEntry(H, D) /\ (\A y \in batch' : \E b \in batch : b.id = y.id) /\ BatchOk(batch', targets', servers)
  <2>1. BatchOk(batch, targets, servers)
    BY DEF HistoryInv
  <2>2. batch' = Cleared(batch, targets, s)
    BY <1>2
  <2>3. QED
    BY <1>1, <1>3, <2>1, <2>2, BatchClear
<1>5. /\ WorkTypes(work', H) /\ Calms(work', work) /\ IsFiniteSet(history')
      /\ \A d \in Workers : work'[d].alone => work[d].server \notin {s} /\ work'[d].server = work[d].server
      /\ MomentsOk(history', batch', work', clock') /\ RowOk(history', work', clock') /\ UniqueOk(history', work', twice')
      /\ BoundOk(history', work', unpruned', peak', H)
  <2>1. UNCHANGED <<clock, limit, peak, unpruned, twice>> /\ work' = History(H, D, T)!NotAlone(work, {s})
    BY <1>2
  <2>2. QED
    BY <1>3, <1>4, <2>1, LessKeeps
<1>6. AloneOk(history', batch', targets', work') /\ LatestOk(history', batch', targets', work', latest', H)
  <2>1. \A d \in Workers : work'[d].alone => work[d].server # s /\ work'[d].server = work[d].server
    BY <1>5
  <2>2. QED
    BY <1>2, <1>3, <1>5, <2>1, LeavesKeeps
<1>7. HistoryTypes(H, D, T)'
  <2>1. EntryTypes(history', servers, H) /\ latest' = [z \in H |-> latest'[z]]
    BY <1>2, <1>3, <1>5 DEF HistoryInv, HistoryTypes, EntryTypes
  <2>2. QED
    BY <1>2, <1>4, <1>5, <2>1 DEF HistoryInv, HistoryTypes
<1>8. QED
  BY <1>2, <1>4, <1>5, <1>6, <1>7 DEF HistoryInv

\* DeleteServer
LEMMA DeleteServerKeeps ==
  ASSUME NEW CONSTANT H, NEW CONSTANT D, NEW CONSTANT T, HistoryInv(H, D, T),
         NEW CONSTANT s, History(H, D, T)!DeleteServer(s)
  PROVE  HistoryInv(H, D, T)'
<1>1. /\ None \notin H /\ WorkTypes(work, H) /\ batch \subseteq BatchEntry(H, D)
  BY HistoryFacts
<1>2. /\ servers' = servers \ {s}
      /\ history' = history \ EntriesOf(history, s) /\ targets' = {t \in targets : t[2] # s}
      /\ latest' = [z \in H |-> IF z \in {s} THEN None ELSE latest[z]]
      /\ work' = History(H, D, T)!NotAlone(work, {s})
      /\ UNCHANGED <<batch, clock, limit, peak, unpruned, twice>>
  BY DEF History!DeleteServer, History!Uncertain, History!Of, EntriesOf
<1>3. Leaves(history', targets', history, targets, s) /\ history' \subseteq history
  BY <1>2 DEF Leaves
<1>4. BatchOk(batch', targets', servers')
  <2>1. BatchOk(batch, targets, servers)
    BY DEF HistoryInv
  <2>2. BatchOk(batch, targets', servers \ {s})
    BY <1>3, <2>1, BatchLeave
  <2>3. QED
    BY <1>2, <2>2
<1>5. /\ WorkTypes(work', H) /\ Calms(work', work) /\ IsFiniteSet(history')
      /\ \A d \in Workers : work'[d].alone => work[d].server \notin {s} /\ work'[d].server = work[d].server
      /\ MomentsOk(history', batch', work', clock') /\ RowOk(history', work', clock') /\ UniqueOk(history', work', twice')
      /\ BoundOk(history', work', unpruned', peak', H)
  <2>1. UNCHANGED <<clock, limit, peak, unpruned, twice>> /\ work' = History(H, D, T)!NotAlone(work, {s})
    BY <1>2
  <2>2. \A b \in batch' : \E y \in batch : y.id = b.id
    BY <1>2
  <2>3. QED
    BY <1>3, <2>1, <2>2, LessKeeps
<1>6. AloneOk(history', batch', targets', work') /\ LatestOk(history', batch', targets', work', latest', H)
  <2>1. \A d \in Workers : work'[d].alone => work[d].server # s /\ work'[d].server = work[d].server
    BY <1>5
  <2>2. QED
    BY <1>2, <1>3, <1>5, <2>1, LeavesKeeps
<1>7. HistoryTypes(H, D, T)'
  <2>1. EntryTypes(history, servers, H) /\ servers \subseteq H
    BY DEF HistoryInv, HistoryTypes
  <2>2. EntryTypes(history', servers', H)
    BY <1>2, <1>5, <2>1 DEF EntryTypes, EntriesOf
  <2>3. latest' = [z \in H |-> latest'[z]] /\ servers' \subseteq H
    BY <1>2, <2>1
  <2>4. QED
    BY <1>2, <1>5, <2>2, <2>3 DEF HistoryInv, HistoryTypes
<1>8. QED
  BY <1>2, <1>4, <1>5, <1>6, <1>7 DEF HistoryInv


\* Every step keeps it.
LEMMA HistoryStep ==
  ASSUME NEW CONSTANT H, NEW CONSTANT D, NEW CONSTANT T, HistoryInv(H, D, T), History(H, D, T)!Next
  PROVE  HistoryInv(H, D, T)'
<1>1. ASSUME NEW c \in Workers, NEW s \in H, NEW x \in Pair, History(H, D, T)!RecordHistory(c, s, x)
      PROVE  HistoryInv(H, D, T)'
  BY <1>1, RecordKeeps
<1>2. ASSUME NEW c \in Workers, History(H, D, T)!Find(c)
      PROVE  HistoryInv(H, D, T)'
  BY <1>2, FindKeeps
<1>3. ASSUME NEW c \in Workers, History(H, D, T)!UpdateCommandHistoryExecution(c)
      PROVE  HistoryInv(H, D, T)'
  BY <1>3, UpdateKeeps
<1>4. ASSUME NEW c \in Workers, History(H, D, T)!InsertCommandHistory(c)
      PROVE  HistoryInv(H, D, T)'
  BY <1>4, InsertKeeps
<1>5. ASSUME NEW c \in Workers, History(H, D, T)!PruneCommandHistory(c)
      PROVE  HistoryInv(H, D, T)'
  BY <1>5, PruneKeeps
<1>6. ASSUME NEW c \in Workers, History(H, D, T)!CutOff(c)
      PROVE  HistoryInv(H, D, T)'
  BY <1>6, CutOffKeeps
<1>7. ASSUME NEW c \in Workers, NEW u \in D, NEW x \in Pair, NEW S \in SUBSET H,
             History(H, D, T)!RecordBatchHistory(c, u, x, S)
      PROVE  HistoryInv(H, D, T)'
  BY <1>7, RecordBatchKeeps
<1>8. ASSUME NEW c \in Workers, History(H, D, T)!PruneBatchCommandHistory(c)
      PROVE  HistoryInv(H, D, T)'
  BY <1>8, PruneBatchKeeps
<1>9. ASSUME NEW i, History(H, D, T)!DeleteHistory(i)
      PROVE  HistoryInv(H, D, T)'
  BY <1>9, DeleteHistoryKeeps
<1>10. ASSUME NEW i, NEW x \in Pair, History(H, D, T)!UpdateHistory(i, x)
       PROVE  HistoryInv(H, D, T)'
  BY <1>10, UpdateHistoryKeeps
<1>11. ASSUME NEW s, History(H, D, T)!ClearHistory(s)
       PROVE  HistoryInv(H, D, T)'
  BY <1>11, ClearKeeps
<1>12. ASSUME NEW s, History(H, D, T)!DeleteServer(s)
       PROVE  HistoryInv(H, D, T)'
  BY <1>12, DeleteServerKeeps
<1>13. ASSUME NEW n \in 1..MaxLimit, History(H, D, T)!SetLimit(n)
       PROVE  HistoryInv(H, D, T)'
  BY <1>13, SetLimitKeeps
<1>14. QED
  BY <1>1, <1>2, <1>3, <1>4, <1>5, <1>6, <1>7, <1>8, <1>9, <1>10, <1>11, <1>12, <1>13 DEF History!Next, Workers

\* It holds at the start.
LEMMA HistoryBegins ==
  ASSUME NEW CONSTANT H, NEW CONSTANT D, NEW CONSTANT T, T \in Nat, None \notin H, History(H, D, T)!Init
  PROVE  HistoryInv(H, D, T)
<1>1. /\ servers = H /\ history = {} /\ batch = {} /\ targets = {} /\ clock = 0 /\ limit \in 1..MaxLimit /\ peak = limit
      /\ work = [c \in Workers |-> NoCall] /\ unpruned = [s \in H |-> 0] /\ twice = {} /\ latest = [s \in H |-> None]
  BY IdleIs DEF History!Init, Workers
<1>2. NoCall \in WorkRec(H) /\ NoCall.step = "idle" /\ NoCall.server = None
  BY DEF WorkRec, NoCall
<1>3. WorkTypes(work, H)
  BY <1>1, <1>2 DEF WorkTypes, WorkOk, Working
<1>4. LimitTypes(limit, peak) /\ limit \in Nat
  BY <1>1, HistoryAssumption DEF LimitTypes
<1>5. IsFiniteSet({}) /\ Cardinality({}) = 0
  BY FS_EmptySet
<1>6. HistoryTypes(H, D, T)
  <2>1. EntryTypes(history, servers, H) /\ batch \subseteq BatchEntry(H, D)
    BY <1>1, <1>5 DEF EntryTypes
  <2>2. clock \in 0..T /\ unpruned \in [H -> Nat] /\ latest = [s \in H |-> latest[s]]
    BY <1>1
  <2>3. QED
    BY <1>1, <1>3, <1>4, <2>1, <2>2 DEF HistoryTypes
<1>7. \A c \in Workers : ~Working(work[c]) /\ ~Waiting(work[c]) /\ work[c].step = "idle"
  BY <1>1, <1>2 DEF Working, Waiting
<1>8. MomentsOk(history, batch, work, clock) /\ RowOk(history, work, clock) /\ UniqueOk(history, work, twice)
  BY <1>1, <1>7 DEF MomentsOk, RowOk, UniqueOk
<1>9. BoundOk(history, work, unpruned, peak, H)
  <2>1. \A s \in H : EntriesOf(history, s) = {} /\ Pruners(work, s) = {} /\ unpruned[s] = 0
    BY <1>1, <1>7 DEF EntriesOf, Pruners
  <2>2. QED
    BY <1>1, <1>4, <1>5, <2>1 DEF BoundOk
<1>10. AloneOk(history, batch, targets, work) /\ LatestOk(history, batch, targets, work, latest, H)
  BY <1>1, <1>7, NoneAlone
<1>11. BatchOk(batch, targets, servers)
  BY <1>1 DEF BatchOk
<1>12. QED
  BY <1>6, <1>8, <1>9, <1>10, <1>11 DEF HistoryInv

\* What it says of the history.
LEMMA HistorySays ==
  ASSUME NEW CONSTANT H, NEW CONSTANT D, NEW CONSTANT T, HistoryInv(H, D, T)
  PROVE  History(H, D, T)!HistoryIsSound
<1>1. /\ T \in Nat /\ clock \in Nat /\ clock <= T /\ None \notin H
      /\ limit \in Nat /\ limit > 0 /\ peak \in 1..MaxLimit /\ limit \in 1..MaxLimit
      /\ history \subseteq Entry(H) /\ batch \subseteq BatchEntry(H, D)
      /\ \A e \in history : e.id \in Nat /\ e.at \in Nat
      /\ \A b \in batch : b.id \in 1..clock
  BY HistoryFacts
<1>2. /\ MomentsOk(history, batch, work, clock) /\ UniqueOk(history, work, twice) /\ BoundOk(history, work, unpruned, peak, H)
      /\ LatestOk(history, batch, targets, work, latest, H) /\ BatchOk(batch, targets, servers)
  BY DEF HistoryInv
<1>3. History(H, D, T)!TypeOK
  <2>1. servers \subseteq H /\ \A e \in history : e.server \in servers
    BY DEF HistoryInv, HistoryTypes, EntryTypes
  <2>2. \A n \in 1..clock : n \in 1..T
    BY <1>1
  <2>3. history \subseteq History(H, D, T)!Entries
    <3>1. \A e \in history : e.id \in 1..T /\ e.at \in 1..T
      BY <1>2, <2>2 DEF MomentsOk
    <3>2. \A e \in Entry(H) : e.id \in 1..T /\ e.at \in 1..T => e \in History(H, D, T)!Entries
      BY DEF Entry, History!Entries, History!Times
    <3>3. QED
      BY <1>1, <3>1, <3>2
  <2>4. batch \subseteq History(H, D, T)!BatchEntries
    <3>1. \A b \in batch : b.id \in 1..T
      BY <1>1, <2>2
    <3>2. \A b \in BatchEntry(H, D) : b.id \in 1..T => b \in History(H, D, T)!BatchEntries
      BY DEF BatchEntry, History!BatchEntries, History!Times
    <3>3. QED
      BY <1>1, <3>1, <3>2
  <2>5. targets \subseteq {b.id : b \in batch} \X servers
    BY <1>2 DEF BatchOk
  <2>6. \A e, f \in history \cup batch : e.id = f.id => e = f
    BY <1>2 DEF MomentsOk, BatchOk
  <2>7. \A b, c \in batch : b.submission = c.submission => b = c
    BY <1>2 DEF BatchOk
  <2>8. clock \in 0..T
    BY <1>1
  <2>9. QED
    BY <1>1, <2>1, <2>3, <2>4, <2>5, <2>6, <2>7, <2>8 DEF History!TypeOK
<1>4. History(H, D, T)!WithinLimit
  <2>1. \A s \in H : /\ History(H, D, T)!Of(s) = EntriesOf(history, s)
                     /\ {c \in Savers \cup Dialers : work[c].step = "prune" /\ work[c].server = s} = Pruners(work, s)
    BY DEF History!Of, EntriesOf, Pruners, Workers
  <2>2. QED
    BY <1>2, <2>1, HistoryCount DEF History!WithinLimit, BoundOk
<1>5. History(H, D, T)!NoDuplicates
  BY <1>2 DEF History!NoDuplicates, UniqueOk
<1>6. History(H, D, T)!RecordedIsFirst
  <2> SUFFICES ASSUME NEW s \in H, latest[s] # None
               PROVE  \E e \in History(H, D, T)!ListHistory(s) :
                        /\ e.command = latest[s]
                        /\ \A f \in History(H, D, T)!ListHistory(s) : f.at <= e.at
    BY DEF History!RecordedIsFirst
  <2> DEFINE sent == {[id |-> b.id, server |-> s, command |-> b.command, at |-> b.id] :
                        b \in {x \in batch : <<x.id, s>> \in targets}}
             L == EntriesOf(history, s) \cup sent
  <2>1. History(H, D, T)!ListHistory(s) = {e \in L : Cardinality({f \in L : f.at > e.at}) < limit}
    <3>1. History(H, D, T)!Of(s) \cup History(H, D, T)!Sent(s) = L
      BY DEF History!Of, History!Sent, EntriesOf
    <3>2. \A e : History(H, D, T)!Cardinality({f \in L : f.at > e.at}) = Cardinality({f \in L : f.at > e.at})
      BY HistoryCount
    <3> HIDE DEF L
    <3>3. History(H, D, T)!Newest(L, limit) = {e \in L : Cardinality({f \in L : f.at > e.at}) < limit}
      BY <3>2 DEF History!Newest
    <3>4. QED
      BY <3>1, <3>3 DEF History!ListHistory
  <2>10. \A e \in sent : \E b \in batch : <<b.id, s>> \in targets /\ e.command = b.command /\ e.at = b.id
    OBVIOUS
  <2>2. \A y, u : Tells(history, batch, targets, s, y, u) <=> \E e \in L : e.command = y /\ e.at = u
    <3>1. \A y, u : (\E e \in history : e.server = s /\ e.command = y /\ e.at = u)
                      <=> (\E e \in EntriesOf(history, s) : e.command = y /\ e.at = u)
      BY DEF EntriesOf
    <3>2. \A y, u : (\E b \in batch : <<b.id, s>> \in targets /\ b.command = y /\ b.id = u)
                      <=> (\E e \in sent : e.command = y /\ e.at = u)
      <4>1. \A b \in batch : <<b.id, s>> \in targets =>
              [id |-> b.id, server |-> s, command |-> b.command, at |-> b.id] \in sent
        OBVIOUS
      <4>3. ASSUME NEW y, NEW u, NEW b \in batch, <<b.id, s>> \in targets, b.command = y, b.id = u
            PROVE  \E e \in sent : e.command = y /\ e.at = u
        <5> DEFINE e == [id |-> b.id, server |-> s, command |-> b.command, at |-> b.id]
        <5>1. e \in sent
          BY <4>1, <4>3
        <5>2. e.command = y /\ e.at = u
          BY <4>3
        <5> HIDE DEF e, sent
        <5>3. QED
          BY <5>1, <5>2
      <4> HIDE DEF sent
      <4>4. ASSUME NEW y, NEW u, NEW e \in sent, e.command = y, e.at = u
            PROVE  \E b \in batch : <<b.id, s>> \in targets /\ b.command = y /\ b.id = u
        BY <2>10, <4>4
      <4>5. ASSUME NEW y, NEW u
            PROVE  (\E b \in batch : <<b.id, s>> \in targets /\ b.command = y /\ b.id = u)
                     <=> (\E e \in sent : e.command = y /\ e.at = u)
        <5>1. ASSUME \E b \in batch : <<b.id, s>> \in targets /\ b.command = y /\ b.id = u
              PROVE  \E e \in sent : e.command = y /\ e.at = u
          <6>1. PICK b \in batch : <<b.id, s>> \in targets /\ b.command = y /\ b.id = u
            BY <5>1
          <6>2. QED
            BY <4>3, <6>1
        <5>2. ASSUME \E e \in sent : e.command = y /\ e.at = u
              PROVE  \E b \in batch : <<b.id, s>> \in targets /\ b.command = y /\ b.id = u
          BY <4>4, <5>2
        <5>3. QED
          BY <5>1, <5>2
      <4>6. QED
        BY <4>5
    <3> HIDE DEF sent
    <3>3. ASSUME NEW y, NEW u
          PROVE  Tells(history, batch, targets, s, y, u) <=> \E e \in L : e.command = y /\ e.at = u
      <4>1. (\E e \in L : e.command = y /\ e.at = u)
              <=> (\E e \in EntriesOf(history, s) : e.command = y /\ e.at = u) \/ (\E e \in sent : e.command = y /\ e.at = u)
        OBVIOUS
      <4>2. Tells(history, batch, targets, s, y, u)
              <=> \/ \E e \in history : e.server = s /\ e.command = y /\ e.at = u
                  \/ \E b \in batch : <<b.id, s>> \in targets /\ b.command = y /\ b.id = u
        BY DEF Tells
      <4>3. (\E e \in history : e.server = s /\ e.command = y /\ e.at = u)
              <=> (\E e \in EntriesOf(history, s) : e.command = y /\ e.at = u)
        BY <3>1
      <4>4. (\E b \in batch : <<b.id, s>> \in targets /\ b.command = y /\ b.id = u)
              <=> (\E e \in sent : e.command = y /\ e.at = u)
        BY <3>2
      <4>5. QED
        BY <4>1, <4>2, <4>3, <4>4, Zenon
    <3>4. QED
      BY <3>3
  <2>3. \A e \in L : e.at \in Nat
    <3>1. \A e \in EntriesOf(history, s) : e.at \in Nat
      BY <1>1 DEF EntriesOf
    <3>2. \A b \in batch : b.id \in Nat
      BY <1>1
    <3> HIDE DEF sent
    <3>3. \A e \in sent : e.at \in Nat
      BY <2>10, <3>2
    <3>4. QED
      BY <3>1, <3>3
  <2> HIDE DEF L, sent
  <2>4. PICK t \in Nat : Tells(history, batch, targets, s, latest[s], t) /\ UpTo(history, batch, targets, s, t)
    BY <1>2 DEF LatestOk, Head1
  <2>5. PICK e \in L : e.command = latest[s] /\ e.at = t
    BY <2>2, <2>4
  <2>6. \A f \in L : f.at <= e.at
    BY <2>2, <2>3, <2>4, <2>5 DEF UpTo
  <2>7. {f \in L : f.at > e.at} = {}
    BY <2>3, <2>6
  <2>8. Cardinality({f \in L : f.at > e.at}) < limit
    BY <1>1, <2>7, FS_EmptySet
  <2>9. QED
    BY <2>1, <2>5, <2>6, <2>8
<1>7. History(H, D, T)!BatchIsListed
  <2> SUFFICES ASSUME NEW b \in batch
               PROVE  (\E t \in targets : t[1] = b.id) \/ (b.sent # {} /\ b.sent \cap servers = {})
    BY DEF History!BatchIsListed
  <2>1. b.sent # {} /\ \A s : <<b.id, s>> \in targets <=> s \in b.sent /\ s \in servers
    BY <1>2 DEF BatchOk
  <2>2. CASE b.sent \cap servers = {}
    BY <2>1, <2>2
  <2>3. CASE b.sent \cap servers # {}
    <3>1. PICK s : s \in b.sent /\ s \in servers
      BY <2>3
    <3>2. <<b.id, s>> \in targets /\ <<b.id, s>>[1] = b.id
      BY <2>1, <3>1
    <3>3. QED
      BY <3>2
  <2>4. QED
    BY <2>2, <2>3
<1>8. QED
  BY <1>3, <1>4, <1>5, <1>6, <1>7 DEF History!HistoryIsSound

\* THEOREM: the history of a server is bounded by the largest limit but for what was not pruned, has each

\* command once unless calls overlapped or an entry was edited, has the last command first until another
\* call, and no batch entry is hidden (RecordHistory, PruneCommandHistory, RecordBatchHistory,
\* PruneBatchCommandHistory, ClearHistory).
THEOREM HistorySound == Spec => []HistoryIsSound
<1> DEFINE Inv == /\ part = "history" => HistoryInv(Servers, Pair, FewCalls)
                  /\ part = "one history" => HistoryInv(Lone, Machines, MoreCalls)
<1>1. None \notin Servers /\ None \notin Lone /\ FewCalls \in Nat /\ MoreCalls \in Nat
  BY NameAssumption, HistoryAssumption
<1>2. Init => Inv
  BY <1>1, HistoryBegins DEF Init
<1>3. Inv /\ [Next]_vars => Inv'
  <2> SUFFICES ASSUME Inv, [Next]_vars
               PROVE  Inv'
    OBVIOUS
  <2>1. CASE UNCHANGED vars
    <3>1. UNCHANGED <<part, servers, history, batch, targets, clock, limit, work, peak, unpruned, twice, latest>>
      BY <2>1 DEF vars
    <3>2. /\ HistoryTypes(Servers, Pair, FewCalls)' = HistoryTypes(Servers, Pair, FewCalls)
          /\ HistoryTypes(Lone, Machines, MoreCalls)' = HistoryTypes(Lone, Machines, MoreCalls)
      BY <3>1 DEF HistoryTypes
    <3>3. QED
      BY <3>1, <3>2 DEF HistoryInv
  <2>2. CASE part = "history" /\ Next
    <3>1. part' = "history" /\ History(Servers, Pair, FewCalls)!Next
      BY <2>2 DEF Next
    <3>2. QED
      BY <2>2, <3>1, HistoryStep
  <2>3. CASE part = "one history" /\ Next
    <3>1. part' = "one history" /\ History(Lone, Machines, MoreCalls)!Next
      BY <2>3 DEF Next
    <3>2. QED
      BY <2>3, <3>1, HistoryStep
  <2>4. CASE part \notin {"history", "one history"} /\ Next
    BY <2>4 DEF Next
  <2>5. QED
    BY <2>1, <2>2, <2>3, <2>4
<1>4. Inv => HistoryIsSound
  BY HistorySays DEF HistoryIsSound
<1>5. QED
  BY <1>2, <1>3, <1>4, PTL DEF Spec

=============================================================================
