-------------------------------- MODULE Backup --------------------------------
(***************************************************************************)
(* Import of a backup file into a database that may hold other servers     *)
(* (backup/service.go, persistence/backup.go).  The rows come in one       *)
(* transaction; the secrets are then written one by one to the system      *)
(* store, which may refuse, and their references in a second transaction.  *)
(* A key is identified with its fingerprint, by which the import finds it; *)
(* all servers with a key have the same one.  A server has at most one     *)
(* saved secret and one tunnel profile.  Groups and terminal profiles are  *)
(* left out: they are found, or made, by name.  One import is followed,    *)
(* and compared with a second one.                                         *)
(***************************************************************************)
EXTENDS Naturals, Sequences, FiniteSets, SequencesExt

CONSTANTS Ends,      \* host, port and user of a server
          MaxOwn,    \* the servers that a database or a backup has before the import
          Direct, None

Sources == 1..MaxOwn          \* ids of the backup
Ids == 1..(2 * MaxOwn)        \* ids of the database

VARIABLES
  backup,   \* the file
  rows,     \* the servers of the database
  key,      \* the key of the vault: not there, without material, or complete
  tunnels,  \* the servers with a tunnel profile
  manual,   \* dashboard_manual_server_order
  ref,      \* the servers with a reference to a secret
  vault,    \* the secrets of the system store: of this machine, or of the backup
  restore,  \* the import that is restoring secrets
  wrote,    \* history: backup ids and their servers after the last import, and its options
  undone    \* history: servers whose secret a failed import has deleted

vars == <<backup, rows, key, tunnels, manual, ref, vault, restore, wrote, undone>>

NoRestore == [step |-> "none", todo |-> <<>>, done |-> <<>>]
NoImport == [map |-> <<>>, servers |-> FALSE, keys |-> FALSE]

Dom(f) == DOMAIN f

\* A row: where it is, how it is reached, whether it uses the key.
Row(ids) == [end : Ends, jump : ids \cup {Direct, None}, key : BOOLEAN]

TypeOK ==
  /\ Dom(rows) \subseteq Ids
  /\ \A s \in Dom(rows) : rows[s] \in Row(Dom(rows) \ {s})
  /\ key \in {"none", "empty", "full"}
  /\ \A s \in Dom(rows) : rows[s].key => key # "none"
  /\ tunnels \subseteq Dom(rows) /\ ref \subseteq Dom(rows)
  /\ IsInjective(manual)
  /\ vault \in [Ids -> {"mine", "backup", None}]
  /\ restore.step \in {"none", "set", "apply"}

-----------------------------------------------------------------------------
\* ExportBackupPayload and exportSecrets, which fail if a reference has no secret.
\* A jump server is another server of the file, and not one that jumps back.
Exported ==
  {[server |-> f, full |-> full, tunnels |-> Dom(f), manual |-> SetToSeq(Dom(f))] :
     f \in UNION {[1..n -> Row(1..n)] : n \in Sources},
     full \in BOOLEAN}
ExportBackupPayload ==
  {b \in Exported : \A s \in Dom(b.server) : LET j == b.server[s].jump IN
     j \in Dom(b.server) => j # s /\ b.server[j].jump # s}

\* A database of a machine: each of its servers has a secret or none of them.
Init ==
  /\ backup \in ExportBackupPayload
  /\ \E n \in 0..MaxOwn :
       /\ rows \in [1..n -> Row({Direct})]
       /\ ref \in {{}, 1..n} /\ tunnels = {}
  /\ key \in {"none", "empty", "full"} /\ \A s \in Dom(rows) : rows[s].key = (key # "none")
  /\ manual = SetToSeq(Dom(rows))
  /\ vault = [s \in Ids |-> IF s \in ref THEN "mine" ELSE None]
  /\ restore = NoRestore /\ wrote = NoImport /\ undone = {}

-----------------------------------------------------------------------------
\* The transaction of the import

Least(S) == CHOOSE s \in S : \A t \in S : s <= t
NextId(r) == Cardinality(Dom(r)) + 1   \* no row is deleted in between

\* Faulty variant: a row is matched by its id.
upsertById(acc, i, options) ==
  LET c == backup.server[i]
      id == IF i \in Dom(acc.rows) THEN i ELSE NextId(acc.rows)
      r == [end |-> c.end, jump |-> IF c.jump = Direct THEN Direct ELSE None,
            key |-> c.key /\ options.keys]
  IN  [rows |-> [s \in Dom(acc.rows) \cup {id} |-> IF s = id THEN r ELSE acc.rows[s]],
       map |-> Append(acc.map, id)]

\* upsertConnectionTx: the first row with the host, port and user, or a new one; the
\* jump server comes later.
upsertConnection(acc, i, options) ==
  LET c == backup.server[i]
      found == {s \in Dom(acc.rows) : acc.rows[s].end = c.end}
      id == IF found # {} THEN Least(found) ELSE NextId(acc.rows)
      r == [end |-> c.end, jump |-> IF c.jump = Direct THEN Direct ELSE None,
            key |-> c.key /\ options.keys]
  IN  [rows |-> [s \in Dom(acc.rows) \cup {id} |-> IF s = id THEN r ELSE acc.rows[s]],
       map |-> Append(acc.map, id)]

\* restoreBackupJumpRoutesTx: the last server of the backup that jumps and has come
\* to a row decides; a route to the row itself is dropped.
restoreBackupJumpRoutes(r, map) ==
  LET Jump(i) == LET j == backup.server[i].jump IN
                 IF j = None \/ map[j] = map[i] THEN None ELSE map[j]
  IN [s \in Dom(r) |->
       LET of == {i \in Dom(map) : map[i] = s /\ backup.server[i].jump # Direct} IN
       IF of = {} THEN r[s] ELSE [r[s] EXCEPT !.jump = Jump(CHOOSE i \in of : \A j \in of : j <= i)]]

Distinct(seq) == SelectSeq([k \in 1..Len(seq) |-> IF \E l \in 1..(k - 1) : seq[l] = seq[k] THEN 0 ELSE seq[k]],
                           LAMBDA s : s # 0)

\* remapDashboardManualServerOrderTx: without servers to map, the ids are taken as
\* they are if such rows exist.
remapDashboardManualServerOrder(r, map, options) ==
  IF options.servers THEN Distinct([k \in Dom(backup.manual) |-> map[backup.manual[k]]])
  ELSE SelectSeq(backup.manual, LAMBDA s : s \in Dom(r))

\* What importBackupPayloadTx makes of the database; a key that is there is left as it is,
\* a new one has its material if the backup has it.
Imported(options) ==
  LET done == IF options.servers
                THEN FoldLeft(LAMBDA acc, i : upsertConnection(acc, i, options),
                              [rows |-> rows, map |-> <<>>], [i \in Dom(backup.server) |-> i])
                ELSE [rows |-> rows, map |-> <<>>]
  IN
  [rows |-> restoreBackupJumpRoutes(done.rows, done.map),
   map |-> done.map,
   key |-> IF ~options.keys \/ key # "none" \/ \A i \in Dom(backup.server) : ~backup.server[i].key THEN key ELSE IF backup.full THEN "full" ELSE "empty",
   tunnels |-> tunnels \cup {done.map[i] : i \in backup.tunnels \cap Dom(done.map)},
   manual |-> remapDashboardManualServerOrder(done.rows, done.map, options)]

\* The parts of the backup that the user has chosen.
Options == [servers : BOOLEAN, keys : BOOLEAN]

ImportBackupPayload(options) ==
  LET db == Imported(options) IN
  /\ wrote = NoImport
  /\ rows' = db.rows /\ key' = db.key /\ tunnels' = db.tunnels /\ manual' = db.manual
  /\ wrote' = [map |-> db.map, servers |-> options.servers, keys |-> options.keys]
  /\ restore' = IF backup.full /\ db.map # <<>> THEN [NoRestore EXCEPT !.step = "set", !.todo = db.map]
                ELSE NoRestore
  /\ UNCHANGED <<backup, ref, vault, undone>>

-----------------------------------------------------------------------------
\* restoreSecrets

table == <<backup, rows, key, tunnels, manual, wrote>>

\* secrets.Set: a refusal is a warning.
SetSecret ==
  LET s == Head(restore.todo) IN
  /\ restore.step = "set" /\ restore.todo # <<>>
  /\ \/ /\ vault' = [vault EXCEPT ![s] = "backup"]
        /\ restore' = [restore EXCEPT !.todo = Tail(@), !.done = Append(@, s)]
     \/ restore' = [restore EXCEPT !.todo = Tail(@)] /\ UNCHANGED vault
  /\ UNCHANGED <<table, ref, undone>>

SecretsSet ==
  /\ restore.step = "set" /\ restore.todo = <<>>
  /\ restore' = IF restore.done = <<>> THEN NoRestore ELSE [restore EXCEPT !.step = "apply"]
  /\ UNCHANGED <<table, ref, vault, undone>>

\* ApplyBackupSecretRefs: all references or, if one of the servers has gone meanwhile,
\* none; then everything that was written is deleted, what it replaced included.
ApplyBackupSecretRefs ==
  LET all == ToSet(restore.done) IN
  /\ restore.step = "apply" /\ restore' = NoRestore
  /\ IF all \subseteq Dom(rows)
       THEN ref' = ref \cup all /\ UNCHANGED <<vault, undone>>
       ELSE /\ vault' = [s \in Ids |-> IF s \in all THEN None ELSE vault[s]]
            /\ undone' = undone \cup (all \cap ref) /\ UNCHANGED ref
  /\ UNCHANGED table

\* The user deletes a server while the secrets are being restored.
DeleteConnection(s) ==
  /\ restore.step # "none" /\ s \in Dom(rows)
  /\ rows' = [t \in Dom(rows) \ {s} |-> IF rows[t].jump = s THEN [rows[t] EXCEPT !.jump = None] ELSE rows[t]]
  /\ tunnels' = tunnels \ {s} /\ ref' = ref \ {s}
  /\ vault' = IF s \in ref THEN [vault EXCEPT ![s] = None] ELSE vault
  /\ UNCHANGED <<backup, key, manual, restore, wrote, undone>>

Next ==
  \/ \E o \in Options : ImportBackupPayload(o)
  \/ SetSecret \/ SecretsSet \/ ApplyBackupSecretRefs
  \/ \E s \in Ids : DeleteConnection(s)

Spec == Init /\ [][Next]_vars

-----------------------------------------------------------------------------
\* A server of the database with a saved secret still has it after an import,
\* whatever part of it failed; the exception is a server whose secret was replaced
\* by an import that then failed as a whole.
SecretsSurvive ==
  restore = NoRestore => \A s \in ref : vault[s] # None \/ s \in undone

\* An import leaves the servers that are not in the backup alone.
OthersAreKept ==
  wrote = NoImport => \A o \in Options :
    LET db == Imported(o) IN
    \A s \in Dom(rows) :
      (\A i \in Dom(backup.server) : backup.server[i].end # rows[s].end) => db.rows[s] = rows[s]

\* Directly after an import every server is reached as in the backup: through the row
\* of the same jump server.  Two servers of the backup with one host, port and user
\* become one row, which may follow either.
RoutesAreRestored ==
  \A i \in Dom(wrote.map) :
    (restore.step = "set" /\ Len(restore.todo) = Len(wrote.map) /\ wrote.map[i] \in Dom(rows)
      /\ \A j \in Dom(wrote.map) \ {i} : wrote.map[j] # wrote.map[i])
    => LET j == backup.server[i].jump IN
       rows[wrote.map[i]].jump \in
         IF j \in {Direct, None} THEN {j} ELSE {wrote.map[j], None} \ (IF wrote.map[j] \in Dom(rows) THEN {None} ELSE {})

\* The same import again changes nothing: what it writes does not depend on the ids that
\* the rows have got, and no server or tunnel profile comes twice.
ImportIsIdempotent ==
  wrote # NoImport /\ ToSet(wrote.map) \subseteq Dom(rows) =>
    LET db == Imported([servers |-> wrote.servers, keys |-> wrote.keys]) IN
    /\ db.map = wrote.map
    /\ db.rows = rows /\ db.key = key /\ db.tunnels = tunnels /\ db.manual = manual

\* An import is safe: it takes nothing away, restores the routes and can be repeated
\* (ImportBackupPayload, restoreBackupJumpRoutes, ApplyBackupSecretRefs).
ImportsAreSafe == TypeOK /\ SecretsSurvive /\ OthersAreKept /\ RoutesAreRestored /\ ImportIsIdempotent

=============================================================================
