------------------------------- MODULE MCStore -------------------------------
(***************************************************************************)
(* What the program stores, one component at a time: the components share  *)
(* no state, so a behaviour is one of the component that `part` names, and *)
(* the variables v1, v2, ... are those of this component.                  *)
(***************************************************************************)
EXTENDS Naturals, Sequences, TLC

CONSTANTS
  Pair,              \* hosts, requests, calls, and what else comes in twos
  Servers, Lone,     \* servers; a lone one is enough where the calls are many
  Vault,             \* entries of the key vault
  Machines,          \* servers with a profile, groups, submissions
  Savers, Dialers,   \* calls that may be in progress
  MaxLimit, FewCalls, MoreCalls,  \* of CommandHistory
  Direct, None

\* A server is told apart from none and from a key, a route through one from a direct route,
\* and a secret or a name of one from none.
ASSUME NameAssumption ==
  /\ None \notin Servers \cup Lone \cup Vault \cup {"canonical", "legacy", "old", "new"}
  /\ "direct" \notin Servers /\ Lone \cap Vault = {}

ASSUME HistoryAssumption == MaxLimit \in Nat \ {0} /\ FewCalls \in Nat /\ MoreCalls \in Nat

VARIABLES part, v1, v2, v3, v4, v5, v6, v7, v8, v9, v10, v11

Symmetry == Permutations(Pair) \cup Permutations(Servers)

\* Commands in lower case, and what they begin with.
Lower(c) == IF c = "LS" THEN "ls" ELSE c
Starts(c, typed) == typed \in {"", c} \/ (typed = "l" /\ c \in {"ls", "LS"})

Routes == INSTANCE ServerRoutes WITH
  Servers <- Servers, Hosts <- Pair, Savers <- Savers, Dialers <- Dialers,
  policy <- v1, rows <- v2, gone <- v3, route <- v4, host <- v5, fp <- v6, save <- v7,
  dial <- v8, clients <- v9, raced <- v10

Order == INSTANCE ServerOrder WITH
  Ids <- 1..3, Groups <- Machines,
  ids <- v1, used <- v2, groups <- v3, group <- v4, order <- v5, wish <- v6

Profiles == INSTANCE TerminalProfiles WITH
  Profiles <- Servers, Machines <- Machines, Requests <- Pair,
  profiles <- v1, default <- v2, cache <- v3, form <- v4, assigned <- v5, request <- v6,
  stale <- v7, overlap <- v8

Upgrade == INSTANCE SettingsUpgrade WITH
  LegacyCompletion <- FALSE,
  schema <- v1, version <- v2, stored <- v3, app <- v4, kept <- v5, last <- v6

Secrets == INSTANCE Credentials WITH
  Conns <- Lone, Keys <- Vault, Calls <- Pair,
  row <- v1, ref <- v2, secrets <- v3, bound <- v4, call <- v5, saved <- v6, forgot <- v7,
  failed <- v8, crossed <- v9

Import == INSTANCE Backup WITH
  Ends <- Pair, MaxOwn <- 2,
  backup <- v1, rows <- v2, key <- v3, tunnels <- v4, manual <- v5, ref <- v6, vault <- v7,
  restore <- v8, wrote <- v9, undone <- v10

\* Two servers and few calls, or one server and more of them.
History(Homes, Sendings, MaxTime) == INSTANCE CommandHistory WITH
  Servers <- Homes, Commands <- Pair, Submissions <- Sendings, Limits <- 1..MaxLimit,
  Calls <- Savers \cup Dialers, MaxTime <- MaxTime,
  servers <- v1, history <- v2, batch <- v3, targets <- v4, clock <- v5, limit <- v6,
  work <- v7, peak <- v8, unpruned <- v9, twice <- v10, latest <- v11

Suggestions == INSTANCE CommandSuggestions WITH
  Servers <- Lone, Groups <- Machines, Ids <- Pair, Commands <- {"ls", "LS", "du", "token="},
  Builtins <- {"ls"}, Sensitive <- {"token="}, FoldedCommand <- Lower,
  Typed <- {"", "l", "token="}, HasPrefix <- Starts, MaxListed <- 2, MaxUses <- 1,
  servers <- v1, groups <- v2, groupOf <- v3, favorites <- v4, past <- v5, editor <- v6,
  used <- v7

vars == <<part, v1, v2, v3, v4, v5, v6, v7, v8, v9, v10, v11>>

Init ==
  \/ part = "routes" /\ Routes!Init
       /\ v11 = None
  \/ part = "order" /\ Order!Init
       /\ v7 = None /\ v8 = None /\ v9 = None /\ v10 = None /\ v11 = None
  \/ part = "profiles" /\ Profiles!Init
       /\ v9 = None /\ v10 = None /\ v11 = None
  \/ part = "settings" /\ Upgrade!Init
       /\ v7 = None /\ v8 = None /\ v9 = None /\ v10 = None /\ v11 = None
  \/ part = "credentials" /\ Secrets!Init
       /\ v10 = None /\ v11 = None
  \/ part = "backup" /\ Import!Init
       /\ v11 = None
  \/ part = "history" /\ History(Servers, Pair, FewCalls)!Init
  \/ part = "one history" /\ History(Lone, Machines, MoreCalls)!Init
  \/ part = "suggestions" /\ Suggestions!Init
       /\ v8 = None /\ v9 = None /\ v10 = None /\ v11 = None

Next ==
  \/ part = "routes" /\ Routes!Next /\ UNCHANGED <<part, v11>>
  \/ part = "order" /\ Order!Next /\ UNCHANGED <<part, v7, v8, v9, v10, v11>>
  \/ part = "profiles" /\ Profiles!Next /\ UNCHANGED <<part, v9, v10, v11>>
  \/ part = "settings" /\ Upgrade!Next /\ UNCHANGED <<part, v7, v8, v9, v10, v11>>
  \/ part = "credentials" /\ Secrets!Next /\ UNCHANGED <<part, v10, v11>>
  \/ part = "backup" /\ Import!Next /\ UNCHANGED <<part, v11>>
  \/ part = "history" /\ History(Servers, Pair, FewCalls)!Next /\ UNCHANGED part
  \/ part = "one history" /\ History(Lone, Machines, MoreCalls)!Next /\ UNCHANGED part
  \/ part = "suggestions" /\ Suggestions!Next /\ UNCHANGED <<part, v8, v9, v10, v11>>

Spec == Init /\ [][Next]_vars

-----------------------------------------------------------------------------

\* A route names a server that exists, a stored fingerprint is of the row's host, and a dial
\* that failed holds no client, under saves and deletions (SaveConnection, dialSSHConnection).
RoutesAreSound == part = "routes" => Routes!RoutesAreSound

\* A server lands where it was dropped, a new one at the end, and no other two change places
\* (ReorderServers, DeleteGroup, nextConnectionSortOrder).
OrderIsKept == [][part = "order" => Order!Arranges]_vars

\* Every server resolves to a profile that exists, and the service keeps the settings that
\* are stored (DeleteTerminalProfile, SetDefaultTerminalProfile, Reload).
ProfilesAreSound == part = "profiles" => Profiles!ProfilesAreSound

\* After an upgrade, also one that was interrupted, or an import the program starts with
\* settings that are complete and the user's own (migrate, normalize, Validate).
SettingsAreKept == [][part = "settings" => Upgrade!Upgrades]_vars

\* A secret that is shown as saved can be read and is the one saved, and a deleted one is gone
\* from both stores (SaveExplicit, recoverCanonicalSecret, ClearKind).
SecretsAreKept == part = "credentials" => Secrets!SecretsAreKept

\* An import takes no secret and no other server away, restores the routes and can be repeated
\* (ImportBackupPayload, restoreSecrets).
ImportsAreSafe == part = "backup" => Import!ImportsAreSafe

\* The history of a server is bounded, has each command once and the last one first, and hides
\* no batch entry (RecordHistory, PruneCommandHistory, RecordBatchHistory).
HistoryIsSound ==
  /\ part = "history" => History(Servers, Pair, FewCalls)!HistoryIsSound
  /\ part = "one history" => History(Lone, Machines, MoreCalls)!HistoryIsSound

\* Nothing sensitive or twice is suggested, sources keep their order, and no use of a favorite
\* is lost (ListSuggestions, dedupeSuggestions, IncrementFavoriteUse).
SuggestionsAreSound == part = "suggestions" => Suggestions!SuggestionsAreSound
=============================================================================
