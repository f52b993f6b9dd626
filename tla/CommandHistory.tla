---------------------------- MODULE CommandHistory ----------------------------
(***************************************************************************)
(* The command history (commands/service.go, persistence/commands.go): the *)
(* commands of a server's terminals, and batch commands with the servers   *)
(* they were sent to.  A call of RecordHistory is three statements that    *)
(* other calls may come between; what it reads is one step here, since the *)
(* entry that LatestCommandHistory finds is the one that                   *)
(* FindCommandHistoryByHash would.  An entry is named by the moment of the *)
(* call that made it.                                                      *)
(***************************************************************************)
EXTENDS Naturals, FiniteSets, FiniteSetsExt

CONSTANTS Servers, Commands, Submissions,
          Limits,      \* history limits that can be configured
          Calls,       \* calls that may be in progress
          MaxTime,     \* bound: calls that record something
          None

VARIABLES
  servers,    \* the rows of connections
  history,    \* command_history
  batch,      \* command_history_batch_entries; sent: the targets that were not cleared
  targets,    \* command_history_batch_targets: <<entry, server>>
  clock,      \* the moment of the last call
  limit,      \* commandHistoryMaxEntries of the settings
  work,       \* the calls: their next step, what they record and when
  peak,       \* history: the largest limit so far
  unpruned,   \* history: entries of a server whose call was cut off before its prune
  twice,      \* history: server and command of overlapping calls, or of an edited entry
  latest      \* history: the command of the last call on a server, if it was alone

vars == <<servers, history, batch, targets, clock, limit, work, peak, unpruned, twice, latest>>
hvars == <<peak, unpruned, twice, latest>>

Times == 1..MaxTime
Idle == [step |-> "idle", server |-> None, command |-> None, at |-> 0, row |-> 0, alone |-> FALSE]

Entries == [id : Times, server : Servers, command : Commands, at : Times]
BatchEntries == [id : Times, submission : Submissions, command : Commands, sent : SUBSET Servers]

TypeOK ==
  /\ servers \subseteq Servers
  /\ history \subseteq Entries /\ \A e \in history : e.server \in servers
  /\ batch \subseteq BatchEntries
  /\ targets \subseteq {b.id : b \in batch} \X servers
  /\ \A e, f \in history \cup batch : e.id = f.id => e = f
  /\ \A b, c \in batch : b.submission = c.submission => b = c
  /\ clock \in 0..MaxTime /\ limit \in Limits /\ peak \in Limits

Init ==
  /\ servers = Servers /\ history = {} /\ batch = {} /\ targets = {}
  /\ clock = 0
  /\ limit \in Limits /\ peak = limit
  /\ work = [c \in Calls |-> Idle]
  /\ unpruned = [s \in Servers |-> 0]
  /\ twice = {}
  /\ latest = [s \in Servers |-> None]

Of(s) == {e \in history : e.server = s}
Newest(E, n) == {e \in E : Cardinality({f \in E : f.at > e.at}) < n}

\* ListHistory and ListCommandHistory of one server: its entries and the batch entries it
\* is a target of, ordered by their moments; the newest ones up to the limit.
Sent(s) ==
  {[id |-> b.id, server |-> s, command |-> b.command, at |-> b.id] : b \in {x \in batch : <<x.id, s>> \in targets}}
ListHistory(s) == Newest(Of(s) \cup Sent(s), limit)

\* Another call on the server makes its last command uncertain.
Busy(s) == \E c \in Calls : work[c].step # "idle" /\ work[c].server = s
Uncertain(S) == latest' = [s \in Servers |-> IF s \in S THEN None ELSE latest[s]]
NotAlone(w, S) == [c \in Calls |-> IF w[c].server \in S THEN [w[c] EXCEPT !.alone = FALSE] ELSE w[c]]

-----------------------------------------------------------------------------
\* RecordHistory of a command that CheckCommandSafety accepts; the others end here.
RecordHistory(c, s, command) ==
  /\ work[c] = Idle /\ clock < MaxTime
  /\ clock' = clock + 1
  /\ work' = [NotAlone(work, {s}) EXCEPT ![c] =
               [step |-> "read", server |-> s, command |-> command, at |-> clock + 1, row |-> 0, alone |-> ~Busy(s)]]
  /\ twice' = IF \E d \in Calls : work[d].server = s /\ work[d].command = command
                THEN twice \cup {<<s, command>>} ELSE twice
  /\ Uncertain({s})
  /\ UNCHANGED <<servers, history, batch, targets, limit, peak, unpruned>>

\* Faulty variant: only the last command of the server is compared.
FindLatest(c) ==
  LET w == work[c]
      last == Newest(Of(w.server), 1)
  IN
  /\ w.step = "read"
  /\ work' = [work EXCEPT ![c].step = "write",
                          ![c].row = IF \E e \in last : e.command = w.command THEN (CHOOSE e \in last : TRUE).id ELSE 0]
  /\ UNCHANGED <<servers, history, batch, targets, clock, limit, hvars>>

\* LatestCommandHistory, FindCommandHistoryByHash: the newest entry of the command.
Find(c) ==
  LET w == work[c]
      same == Newest({e \in Of(w.server) : e.command = w.command}, 1)
  IN
  /\ w.step = "read"
  /\ work' = [work EXCEPT ![c].step = "write", ![c].row = IF same = {} THEN 0 ELSE (CHOOSE e \in same : TRUE).id]
  /\ UNCHANGED <<servers, history, batch, targets, clock, limit, hvars>>

Returns(c, known) ==
  /\ work' = [work EXCEPT ![c] = Idle]
  /\ latest' = IF known /\ work[c].alone THEN [latest EXCEPT ![work[c].server] = work[c].command] ELSE latest

\* UpdateCommandHistoryExecution: an entry that has gone is an error.
UpdateCommandHistoryExecution(c) ==
  LET w == work[c] IN
  /\ w.step = "write" /\ w.row # 0
  /\ history' = {IF e.id = w.row THEN [e EXCEPT !.at = w.at] ELSE e : e \in history}
  /\ Returns(c, \E e \in history : e.id = w.row)
  /\ UNCHANGED <<servers, batch, targets, clock, limit, peak, unpruned, twice>>

\* InsertCommandHistory: the foreign key refuses a server that has gone.
InsertCommandHistory(c) ==
  LET w == work[c] IN
  /\ w.step = "write" /\ w.row = 0
  /\ IF w.server \in servers
       THEN /\ history' = history \cup {[id |-> w.at, server |-> w.server, command |-> w.command, at |-> w.at]}
            /\ work' = [work EXCEPT ![c].step = "prune"]
       ELSE work' = [work EXCEPT ![c] = Idle] /\ UNCHANGED history
  /\ UNCHANGED <<servers, batch, targets, clock, limit, hvars>>

\* PruneCommandHistory with the limit of the moment.
PruneCommandHistory(c) ==
  LET s == work[c].server IN
  /\ work[c].step = "prune"
  /\ history' = (history \ Of(s)) \cup Newest(Of(s), limit)
  /\ unpruned' = [unpruned EXCEPT ![s] = 0]
  /\ Returns(c, TRUE)
  /\ UNCHANGED <<servers, batch, targets, clock, limit, peak, twice>>

\* The program ends, or the database fails, between two statements.
CutOff(c) ==
  /\ work[c].step # "idle"
  /\ unpruned' = IF work[c].step = "prune" THEN [unpruned EXCEPT ![work[c].server] = @ + 1] ELSE unpruned
  /\ work' = [work EXCEPT ![c] = Idle]
  /\ UNCHANGED <<servers, history, batch, targets, clock, limit, peak, twice, latest>>

-----------------------------------------------------------------------------

\* InsertBatchCommandHistory: a submission that is there is returned as it is; one
\* server that has gone fails the whole entry.
InsertBatchCommandHistory(id, submission, command, sent) ==
  IF (\E b \in batch : b.submission = submission) \/ ~(sent \subseteq servers)
    THEN UNCHANGED <<batch, targets>>
    ELSE /\ batch' = batch \cup {[id |-> id, submission |-> submission, command |-> command, sent |-> sent]}
         /\ targets' = targets \cup ({id} \X sent)

\* RecordBatchHistory with servers that the command was sent to ...
RecordBatchHistory(c, submission, command, sent) ==
  /\ work[c] = Idle /\ clock < MaxTime /\ sent # {}
  /\ clock' = clock + 1
  /\ InsertBatchCommandHistory(clock + 1, submission, command, sent)
  /\ latest' = [s \in Servers |->
                 IF s \notin sent THEN latest[s]
                 ELSE IF batch' # batch /\ ~Busy(s) THEN command ELSE None]
  /\ work' = [NotAlone(work, sent) EXCEPT ![c].step = IF sent \subseteq servers THEN "batch" ELSE "idle"]
  /\ UNCHANGED <<servers, history, limit, peak, unpruned, twice>>

\* ... and its prune, which counts the entries of all servers together.
PruneBatchCommandHistory(c) ==
  /\ work[c].step = "batch"
  /\ batch' = {b \in batch : Cardinality({x \in batch : x.id > b.id}) < limit}
  /\ targets' = {t \in targets : t[1] \in {b.id : b \in batch'}}
  /\ work' = [work EXCEPT ![c] = Idle]
  /\ Uncertain({s \in Servers : \E t \in targets \ targets' : t[2] = s})
  /\ UNCHANGED <<servers, history, clock, limit, peak, unpruned, twice>>

\* UpdateHistory: the command of an entry is edited.
UpdateHistory(id, command) ==
  /\ \E e \in history \cup batch : e.id = id
  /\ history' = {IF e.id = id THEN [e EXCEPT !.command = command] ELSE e : e \in history}
  /\ batch' = {IF b.id = id THEN [b EXCEPT !.command = command] ELSE b : b \in batch}
  /\ twice' = twice \cup {<<e.server, command>> : e \in {x \in history : x.id = id}}
  /\ Uncertain(Servers)
  /\ work' = NotAlone(work, Servers)
  /\ UNCHANGED <<servers, targets, clock, limit, peak, unpruned>>

\* DeleteHistory; the targets go with a batch entry.
DeleteHistory(id) ==
  /\ \E e \in history \cup batch : e.id = id
  /\ history' = {e \in history : e.id # id}
  /\ batch' = {b \in batch : b.id # id}
  /\ targets' = {t \in targets : t[1] # id}
  /\ Uncertain(Servers)
  /\ work' = NotAlone(work, Servers)
  /\ UNCHANGED <<servers, clock, limit, peak, unpruned, twice>>

\* ClearHistory: one transaction.
ClearHistory(s) ==
  /\ history' = history \ Of(s)
  /\ targets' = {t \in targets : t[2] # s}
  /\ batch' = {[b EXCEPT !.sent = @ \ {s}] : b \in {x \in batch : \E t \in targets : t[1] = x.id /\ t[2] # s}}
  /\ Uncertain({s})
  /\ work' = NotAlone(work, {s})
  /\ UNCHANGED <<servers, clock, limit, peak, unpruned, twice>>

\* The foreign keys: the rows of the server go, a batch entry stays.
DeleteServer(s) ==
  /\ s \in servers
  /\ servers' = servers \ {s}
  /\ history' = history \ Of(s)
  /\ targets' = {t \in targets : t[2] # s}
  /\ Uncertain({s})
  /\ work' = NotAlone(work, {s})
  /\ UNCHANGED <<batch, clock, limit, peak, unpruned, twice>>

\* SaveSettings; nothing is pruned until the next entry.
SetLimit(n) ==
  /\ n # limit
  /\ limit' = n /\ peak' = Max({n, peak})
  /\ UNCHANGED <<servers, history, batch, targets, clock, work, unpruned, twice, latest>>

Next ==
  \/ \E c \in Calls :
       \/ \E s \in Servers, x \in Commands : RecordHistory(c, s, x)
       \/ Find(c) \/ UpdateCommandHistoryExecution(c) \/ InsertCommandHistory(c)
       \/ PruneCommandHistory(c) \/ CutOff(c)
       \/ \E u \in Submissions, x \in Commands, S \in SUBSET Servers : RecordBatchHistory(c, u, x, S)
       \/ PruneBatchCommandHistory(c)
  \/ \E i \in Times : DeleteHistory(i) \/ \E x \in Commands : UpdateHistory(i, x)
  \/ \E s \in Servers : ClearHistory(s) \/ DeleteServer(s)
  \/ \E n \in Limits : SetLimit(n)

Spec == Init /\ [][Next]_vars

-----------------------------------------------------------------------------
\* A server keeps no more entries than the limit ever was, but for the calls that have
\* inserted one and not pruned yet, or never did.
WithinLimit ==
  \A s \in Servers :
    Cardinality(Of(s)) <= peak + unpruned[s] + Cardinality({c \in Calls : work[c].step = "prune" /\ work[c].server = s})

\* A command comes once in the history of a server, however often it is recorded;
\* unless two calls recorded it at the same time, or an entry was edited to it.
NoDuplicates ==
  \A e, f \in history : (e.server = f.server /\ e.command = f.command /\ <<e.server, e.command>> \notin twice) => e = f

\* The command that was recorded last heads the list of its server, until another call; or
\* until batch commands of other servers push it out.
RecordedIsFirst ==
  \A s \in Servers : latest[s] # None =>
    \E e \in ListHistory(s) : e.command = latest[s] /\ \A f \in ListHistory(s) : f.at <= e.at

\* Every batch entry is in the list of a server, where it can be edited or deleted,
\* except one whose remaining servers were deleted: it stays, unlisted, until some
\* history is cleared.
BatchIsListed ==
  \A b \in batch : (\E t \in targets : t[1] = b.id) \/ (b.sent # {} /\ b.sent \cap servers = {})

\* The history of a server: bounded, without duplicates, the last command first, and nothing
\* in it that no list shows (RecordHistory, RecordBatchHistory, PruneCommandHistory).
HistoryIsSound == TypeOK /\ WithinLimit /\ NoDuplicates /\ RecordedIsFirst /\ BatchIsListed

=============================================================================
