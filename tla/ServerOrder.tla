----------------------------- MODULE ServerOrder -----------------------------
(***************************************************************************)
(* The groups of the server list and the order in them                     *)
(* (persistence/store.go).  Every operation is one statement or one        *)
(* transaction.  sort_order is counted in units of 1000.                   *)
(***************************************************************************)
EXTENDS Naturals, Sequences, FiniteSets, SequencesExt

CONSTANTS Ids,      \* ids of servers, numbers: they settle a tie, as the names do
          Groups,   \* ids of groups
          None      \* no group, no neighbour

VARIABLES
  ids,      \* the rows of connections
  used,     \* the ids that were given so far
  groups,   \* the rows of groups
  group,    \* group_id of a server
  order,    \* sort_order of a server
  wish      \* history: the last ReorderServers, until something else happens

vars == <<ids, used, groups, group, order, wish>>

NoWish == [moving |-> None, before |-> None, after |-> None]

TypeOK ==
  /\ ids \subseteq used /\ used \subseteq Ids
  /\ groups \subseteq Groups
  /\ group \in [Ids -> Groups \cup {None}] /\ \A i \in ids : group[i] \in groups \cup {None}
  /\ order \in [Ids -> 0..(2 * Cardinality(Ids))]

Init ==
  /\ ids = {} /\ used = {} /\ groups = {}
  /\ group = [i \in Ids |-> None] /\ order = [i \in Ids |-> 0]
  /\ wish = NoWish

Members(g) == {i \in ids : group[i] = g}
IsBefore(i, j) == order[i] < order[j] \/ (order[i] = order[j] /\ i < j)

\* connectionIDsForGroupTx, and a group of ListConnections.
connectionIDsForGroup(g, excluding) == SetToSortSeq(Members(g) \ {excluding}, IsBefore)

\* SaveGroup of a new group; a new name changes nothing here.
SaveGroup(g) ==
  /\ g \notin groups
  /\ groups' = groups \cup {g} /\ wish' = NoWish
  /\ UNCHANGED <<ids, used, group, order>>

\* ON DELETE SET NULL.
DeleteGroup(g) ==
  /\ g \in groups
  /\ groups' = groups \ {g}
  /\ group' = [i \in Ids |-> IF group[i] = g THEN None ELSE group[i]]
  /\ wish' = NoWish
  /\ UNCHANGED <<ids, used, order>>

\* Faulty variant: the place is the number of servers.
CountSortOrder(g) == Cardinality(Members(g)) + 1

nextConnectionSortOrder(g) ==
  IF Members(g) = {} THEN 1
  ELSE 1 + CHOOSE n \in {order[i] : i \in Members(g)} : \A i \in Members(g) : order[i] <= n

\* SaveConnection: a new server goes to the end of its group; one that is there keeps
\* its sort_order, also in another group.
SaveConnection(i, g) ==
  /\ g \in groups \cup {None}
  /\ IF i \in ids THEN UNCHANGED <<ids, used, order>>
     ELSE /\ i \notin used /\ \A j \in used : j < i
          /\ ids' = ids \cup {i} /\ used' = used \cup {i}
          /\ order' = [order EXCEPT ![i] = nextConnectionSortOrder(g)]
  /\ group' = [group EXCEPT ![i] = g]
  /\ wish' = NoWish
  /\ UNCHANGED groups

DeleteConnection(i) ==
  /\ i \in ids
  /\ ids' = ids \ {i} /\ group' = [group EXCEPT ![i] = None] /\ order' = [order EXCEPT ![i] = 0]
  /\ wish' = NoWish
  /\ UNCHANGED <<used, groups>>

IndexOf(list, i) == CHOOSE k \in 1..Len(list) : list[k] = i

insertConnectionID(list, moving, before, after) ==
  LET at == IF before # None THEN IndexOf(list, before) - 1
            ELSE IF after # None THEN IndexOf(list, after) ELSE Len(list)
  IN  SubSeq(list, 1, at) \o <<moving>> \o SubSeq(list, at + 1, Len(list))

\* compactConnectionGroupTx: the place of a server in the list.
Compacted(list, i) == IF i \in ToSet(list) THEN IndexOf(list, i) ELSE order[i]

\* ReorderServers; before wins over after, a neighbour must be in the target group.
ReorderServers(i, g, before, after) ==
  LET target == insertConnectionID(connectionIDsForGroup(g, i), i, before, after)
      source == IF g = group[i] THEN <<>> ELSE connectionIDsForGroup(group[i], i)
  IN
  /\ i \in ids /\ g \in groups \cup {None}
  /\ before = None \/ before \in Members(g) \ {i}
  /\ before # None \/ after = None \/ after \in Members(g) \ {i}
  /\ group' = [j \in Ids |-> IF j \in ToSet(target) THEN g ELSE group[j]]
  /\ order' = [j \in Ids |-> IF j \in ToSet(target) THEN IndexOf(target, j) ELSE Compacted(source, j)]
  /\ wish' = [moving |-> i, before |-> before, after |-> IF before = None THEN after ELSE None]
  /\ UNCHANGED <<ids, used, groups>>

Next ==
  \/ \E g \in Groups : SaveGroup(g) \/ DeleteGroup(g)
  \/ \E i \in Ids, g \in Groups \cup {None} : SaveConnection(i, g)
  \/ \E i \in Ids : DeleteConnection(i)
  \/ \E i \in Ids, g \in Groups \cup {None}, b, a \in Ids \cup {None} : ReorderServers(i, g, b, a)

Spec == Init /\ [][Next]_vars

-----------------------------------------------------------------------------
\* ReorderServers puts the server next to the neighbour that was named, or to the
\* end of the group, in what ListConnections returns.
MovedIsPlaced ==
  wish.moving # None =>
    LET list == connectionIDsForGroup(group[wish.moving], None)
        at == IndexOf(list, wish.moving)
    IN  CASE wish.before # None -> at < Len(list) /\ list[at + 1] = wish.before
          [] wish.after # None -> at > 1 /\ list[at - 1] = wish.after
          [] OTHER -> at = Len(list)

\* Of two servers that stay together, none overtakes the other, unless it is the one
\* ReorderServers moves: a compacted or dissolved group keeps its order.
KeepsOrder ==
  \A i, j \in ids \cap ids' :
    (group[i] = group[j] /\ group'[i] = group'[j] /\ wish'.moving \notin {i, j} /\ IsBefore(i, j))
      => (order'[i] < order'[j] \/ (order'[i] = order'[j] /\ i < j))

\* A new server is the last one of its group.
AppendsNew == \A i \in ids' \ ids : \A j \in ids : group[j] = group'[i] => order[j] < order'[i]

\* The list of servers is the one the user has arranged (ReorderServers, SaveConnection,
\* DeleteGroup).
Arranges == TypeOK' /\ MovedIsPlaced' /\ KeepsOrder /\ AppendsNew
OrderIsKept == [][Arranges]_vars

=============================================================================
