----------------------------- MODULE AlertHistory -----------------------------
(***************************************************************************)
(* The alert history (persistence/alert_history.go, app_monitor.go) and    *)
(* the view of it in the window (frontend/src/stores/alerts.ts).  The      *)
(* window does not wait for its calls and each runs in a goroutine of its  *)
(* own: the calls under way are a set, and take effect in any order, one   *)
(* transaction each.  An alert is named by its number, later alerts having *)
(* greater ones.  The end of the program loses the calls under way.        *)
(***************************************************************************)
EXTENDS Naturals, FiniteSets, FiniteSetsExt

CONSTANTS MaxAlerts,    \* bound: alerts raised
          MaxSessions,  \* bound: starts of the program
          MaxPending,   \* bound: calls under way
          Limits,       \* history limits that can be configured
          None

VARIABLES
  rows,      \* alert_history: alert -> None or [state, session, read, at]; at: resolved_at or started_at
  view,      \* events of the window: alert -> None or [state, read, at]
  firing,    \* activeEvents of the evaluator
  session,   \* sessionID
  opening,   \* initialize: "begin", "list", "merge" or "done"
  listed,    \* the answer of ListAlertHistory that is under way
  pending,   \* the calls under way
  raised,    \* the alerts so far
  clock,     \* the last moment an alert was raised or recovered
  limit,     \* historyLimit of the settings
  peak,      \* history: the largest limit so far
  seen,      \* history: alerts with a row that was marked as read
  crossed    \* history: alerts whose calls, or a list of the rows, overlapped

vars == <<rows, view, firing, session, opening, listed, pending, raised, clock, limit, peak, seen, crossed>>

Alerts == 1..MaxAlerts
Times == 1..2 * MaxAlerts
Ended == {"resolved", "interrupted"}
Row == [state : {"firing"} \cup Ended, session : 1..MaxSessions, read : BOOLEAN, at : Times]
Shown == [state : {"firing"} \cup Ended, read : BOOLEAN, at : Times]

TypeOK ==
  /\ rows \in [Alerts -> Row \cup {None}]
  /\ view \in [Alerts -> Shown \cup {None}]
  /\ firing \subseteq 1..raised
  /\ session \in 1..MaxSessions
  /\ \A a \in Alerts : rows[a] # None => rows[a].session <= session
  /\ limit \in Limits /\ peak \in Limits

Init ==
  /\ rows = [a \in Alerts |-> None] /\ view = [a \in Alerts |-> None]
  /\ firing = {} /\ session = 1 /\ opening = "begin" /\ listed = rows
  /\ pending = {} /\ raised = 0 /\ clock = 0
  /\ limit = Min(Limits) /\ peak = limit
  /\ seen = {} /\ crossed = {}

EndedOf(r) == {a \in Alerts : r[a] # None /\ r[a].state \in Ended}

\* Faulty variant: every alert counts towards the limit, and can be dropped.
PruneAny(r, n) ==
  LET all == {a \in Alerts : r[a] # None}
  IN  [a \in Alerts |-> IF a \in all /\ Cardinality({b \in all : r[b].at > r[a].at}) >= n THEN None ELSE r[a]]

\* pruneAlertHistoryTx: of the alerts that have ended, the last `n` stay; one that was
\* interrupted counts from its start.
pruneAlertHistory(r, n) ==
  LET old == EndedOf(r)
  IN  [a \in Alerts |-> IF a \in old /\ Cardinality({b \in old : r[b].at > r[a].at}) >= n THEN None ELSE r[a]]

\* A call is sent; it overlaps with those under way on the same alerts.
Touches(call, a) == call.alert \in {0, a}
Send(call) ==
  /\ Cardinality(pending) < MaxPending
  /\ pending' = pending \cup {call}
  /\ crossed' = crossed \cup {a \in Alerts : Touches(call, a) /\ (opening # "done" \/ \E p \in pending \ {call} : Touches(p, a))}

Persist(a, state, at) ==
  [kind |-> "persist", alert |-> a, state |-> state, at |-> at, limit |-> limit]
Call(kind, a) == [kind |-> kind, alert |-> a, state |-> None, at |-> 0, limit |-> 0]

-----------------------------------------------------------------------------
\* The evaluator raises an alert: applyNotifications; one of a muted server is not modelled.
Fire ==
  /\ raised < MaxAlerts
  /\ raised' = raised + 1 /\ clock' = clock + 1
  /\ firing' = firing \cup {raised + 1}
  /\ view' = [view EXCEPT ![raised + 1] = [state |-> "firing", read |-> FALSE, at |-> clock + 1]]
  /\ Send(Persist(raised + 1, "firing", clock + 1))
  /\ UNCHANGED <<rows, session, opening, listed, limit, peak, seen>>

\* trimResolvedHistory of the window: first what recovered, what is unread and what is new.
Trimmed(v, n) ==
  LET old == EndedOf(v)
      Rank(a) == <<IF v[a].state = "resolved" THEN 0 ELSE 1, IF v[a].read THEN 1 ELSE 0>>
      Before(a, b) ==
        \/ Rank(b)[1] < Rank(a)[1]
        \/ Rank(b)[1] = Rank(a)[1] /\ Rank(b)[2] < Rank(a)[2]
        \/ Rank(b) = Rank(a) /\ v[b].at > v[a].at
  IN  [a \in Alerts |-> IF a \in old /\ Cardinality({b \in old : Before(a, b)}) >= n THEN None ELSE v[a]]

\* An alert recovers; with notifyRecovery off nobody hears of it.
Resolve(a, notify) ==
  /\ a \in firing
  /\ firing' = firing \ {a}
  /\ IF notify
       THEN /\ clock' = clock + 1
            /\ view' = Trimmed([view EXCEPT ![a] = [state |-> "resolved", read |-> FALSE, at |-> clock + 1]], limit)
            /\ Send(Persist(a, "resolved", clock + 1))
       ELSE UNCHANGED <<clock, view, pending, crossed>>
  /\ UNCHANGED <<rows, session, opening, listed, raised, limit, peak, seen>>

MarkRead(a) ==
  /\ view[a] # None
  /\ view' = [view EXCEPT ![a].read = TRUE]
  /\ Send(Call("read", a))
  /\ UNCHANGED <<rows, firing, session, opening, listed, raised, clock, limit, peak, seen>>

MarkAllRead ==
  /\ view' = [a \in Alerts |-> IF view[a] = None THEN None ELSE [view[a] EXCEPT !.read = TRUE]]
  /\ Send(Call("readAll", 0))
  /\ UNCHANGED <<rows, firing, session, opening, listed, raised, clock, limit, peak, seen>>

ClearResolved ==
  /\ view' = [a \in Alerts |-> IF view[a] # None /\ view[a].state = "firing" THEN view[a] ELSE None]
  /\ Send(Call("clear", 0))
  /\ UNCHANGED <<rows, firing, session, opening, listed, raised, clock, limit, peak, seen>>

\* SaveSettings prunes with the new settings; configure and reloadHistory follow.
SaveSettings(n) ==
  /\ n # limit
  /\ limit' = n /\ peak' = Max({n, peak})
  /\ rows' = pruneAlertHistory(rows, n)
  /\ seen' = seen \cap {a \in Alerts : rows'[a] # None}
  /\ view' = Trimmed(view, n)
  /\ opening' = IF opening = "done" THEN "list" ELSE opening
  /\ UNCHANGED <<firing, session, listed, pending, raised, clock, crossed>>

\* removeServer of the alerts of a server that was deleted.
RemoveServer(a) ==
  /\ a \in firing
  /\ firing' = firing \ {a}
  /\ view' = [view EXCEPT ![a] = None]
  /\ UNCHANGED <<rows, session, opening, listed, pending, raised, clock, limit, peak, seen, crossed>>

-----------------------------------------------------------------------------

\* INSERT ... ON CONFLICT DO UPDATE: an alert that was read stays so.
Upserted(a, call) ==
  [rows EXCEPT ![a] = [state |-> call.state, session |-> session, at |-> call.at,
                       read |-> rows[a] # None /\ rows[a].read]]

UpsertAlertHistoryEvent(call) ==
  /\ call.kind = "persist"
  /\ rows' = pruneAlertHistory(Upserted(call.alert, call), call.limit)
  /\ seen' = seen \cap {a \in Alerts : rows'[a] # None}

\* MarkAlertHistoryRead, MarkAllAlertHistoryRead: rows that are not there stay away.
MarkAlertHistoryRead(call) ==
  /\ call.kind \in {"read", "readAll"}
  /\ rows' = [a \in Alerts |-> IF Touches(call, a) /\ rows[a] # None THEN [rows[a] EXCEPT !.read = TRUE] ELSE rows[a]]
  /\ seen' = seen \cup {a \in Alerts : Touches(call, a) /\ rows[a] # None}

ClearResolvedAlertHistory(call) ==
  /\ call.kind = "clear"
  /\ rows' = [a \in Alerts |-> IF a \in EndedOf(rows) THEN None ELSE rows[a]]
  /\ seen' = seen \ EndedOf(rows)

\* A call takes effect.
Execute(call) ==
  /\ call \in pending
  /\ pending' = pending \ {call}
  /\ UpsertAlertHistoryEvent(call) \/ MarkAlertHistoryRead(call) \/ ClearResolvedAlertHistory(call)
  /\ UNCHANGED <<view, firing, session, opening, listed, raised, clock, limit, peak, crossed>>

\* BeginAlertSession: what fired in earlier sessions was interrupted.
BeginAlertSession ==
  /\ opening = "begin" /\ opening' = "list"
  /\ rows' = pruneAlertHistory(
               [a \in Alerts |-> IF rows[a] # None /\ rows[a].state = "firing" /\ rows[a].session # session
                                   THEN [rows[a] EXCEPT !.state = "interrupted"] ELSE rows[a]], limit)
  /\ seen' = seen \cap {a \in Alerts : rows'[a] # None}
  /\ UNCHANGED <<view, firing, session, listed, pending, raised, clock, limit, peak, crossed>>

\* initialize and reloadHistory: ListAlertHistory, ...
ListAlertHistory ==
  /\ opening = "list" /\ opening' = "merge"
  /\ listed' = rows
  /\ crossed' = crossed \cup {a \in Alerts : \E p \in pending : Touches(p, a)}
  /\ UNCHANGED <<rows, view, firing, session, pending, raised, clock, limit, peak, seen>>

\* ... and mergeHistory of the answer, which replaces what the window has.
MergeHistory ==
  /\ opening = "merge" /\ opening' = "done"
  /\ view' = Trimmed([a \in Alerts |-> IF listed[a] = None THEN view[a]
                                         ELSE [state |-> listed[a].state, read |-> listed[a].read, at |-> listed[a].at]], limit)
  /\ listed' = [a \in Alerts |-> None]
  /\ UNCHANGED <<rows, firing, session, pending, raised, clock, limit, peak, seen, crossed>>

\* The program ends, and starts again.
Restart ==
  /\ session < MaxSessions
  /\ session' = session + 1
  /\ opening' = "begin" /\ pending' = {} /\ firing' = {}
  /\ view' = [a \in Alerts |-> None] /\ listed' = [a \in Alerts |-> None]
  /\ crossed' = {}
  /\ UNCHANGED <<rows, raised, clock, limit, peak, seen>>

Next ==
  \/ Fire
  \/ \E a \in Alerts : MarkRead(a) \/ RemoveServer(a) \/ \E notify \in BOOLEAN : Resolve(a, notify)
  \/ MarkAllRead \/ ClearResolved \/ \E n \in Limits : SaveSettings(n)
  \/ \E call \in pending : Execute(call)
  \/ BeginAlertSession \/ ListAlertHistory \/ MergeHistory \/ Restart

Spec == Init /\ [][Next]_vars

-----------------------------------------------------------------------------
\* Not more alerts that have ended are kept than the limit ever was, however the calls
\* that end and drop them are ordered.
EndedWithinLimit == Cardinality(EndedOf(rows)) <= peak

\* An alert that fires in this session is in the history as such, unless its calls
\* overtook each other: no limit, clearing or start of a session takes it out.
FiringIsStored ==
  \A a \in firing : (a \notin crossed /\ ~\E p \in pending : Touches(p, a)) =>
                      rows[a] # None /\ rows[a].state = "firing"

\* After the start no alert of an earlier session fires any more in the history.
NoOldFiring ==
  opening # "begin" => \A a \in Alerts : rows[a] # None /\ rows[a].state = "firing" => rows[a].session = session

\* An alert that was marked as read stays so, whatever is stored of it later.
ReadStays == \A a \in seen : rows[a] # None /\ rows[a].read

\* What the window shows of an alert is what is stored, when no call is under way and
\* none overtook another; one of them may keep an alert that the other dropped.
ShownIsStored ==
  pending = {} /\ opening = "done" =>
    \A a \in Alerts \ crossed : view[a] # None /\ rows[a] # None => view[a].state = rows[a].state

\* Alerts in the window and in the store agree, within the limit, across restarts
\* (BeginAlertSession, UpsertAlertHistoryEvent, pruneAlertHistoryTx, mergeHistory).
AlertsAreStored == TypeOK /\ EndedWithinLimit /\ FiringIsStored /\ NoOldFiring /\ ReadStays /\ ShownIsStored

=============================================================================
