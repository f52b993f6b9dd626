-------------------------- MODULE CommandSuggestions --------------------------
(***************************************************************************)
(* Favorite commands, and the suggestions made from them, from the history *)
(* of a server and from the built-in commands (commands/service.go,        *)
(* persistence/commands.go).  A favorite is used and edited at the same    *)
(* time: the editor (CommandFavoriteEditor.vue) holds what it was opened   *)
(* with.  A score is kept to the parts the order depends on: the rank of   *)
(* the source outweighs the age (20000 of 100000) and the uses (at most    *)
(* 1000 of 10 each) together.                                              *)
(***************************************************************************)
EXTENDS Naturals, FiniteSets, Sequences, FiniteSetsExt, SequencesExt

CONSTANTS Servers, Groups, Ids, Commands,
          Builtins,         \* builtinCommandSuggestions
          Sensitive,        \* commands that CheckCommandSafety refuses
          FoldedCommand(_), \* a command in lower case
          Typed, HasPrefix(_, _),  \* what may be typed so far
          MaxListed,        \* the limit of a list of suggestions
          MaxUses,          \* bound: uses of a favorite
          None

VARIABLES
  servers, groups,
  groupOf,     \* group_id of a server
  favorites,   \* command_favorites
  past,        \* commands in the history of a server
  editor,      \* the favorite in the editor, and the server it was opened for
  used         \* history: uses of a favorite

vars == <<servers, groups, groupOf, favorites, past, editor, used>>

Scopes == {"global", "group", "server"}
Favorite == [command : Commands, scope : Scopes, server : Servers \cup {None}, group : Groups \cup {None}, uses : 0..MaxUses]

\* The foreign keys of command_favorites hold, and the id that the scope needs is there.
TypeOK ==
  /\ servers \subseteq Servers /\ groups \subseteq Groups
  /\ groupOf \in [Servers -> groups \cup {None}]
  /\ favorites \in [Ids -> Favorite \cup {None}]
  /\ \A i \in Ids : favorites[i] # None =>
       /\ favorites[i].server \in servers \cup {None} /\ favorites[i].group \in groups \cup {None}
       /\ favorites[i].scope = "server" => favorites[i].server # None
       /\ favorites[i].scope = "group" => favorites[i].group # None
  /\ past \in [Servers -> SUBSET (Commands \ Sensitive)]

Init ==
  /\ servers = Servers /\ groups = Groups
  /\ groupOf \in [Servers -> Groups \cup {None}]
  /\ favorites = [i \in Ids |-> None]
  /\ past = [s \in Servers |-> {}]
  /\ editor = None
  /\ used = [i \in Ids |-> 0]

-----------------------------------------------------------------------------
\* Suggestions.

Rank(source) ==
  CASE source = "history" -> 1 [] source = "server" -> 3 [] source = "group" -> 4
    [] source = "global" -> 5 [] source = "builtin" -> 6

\* scoreSuggestion, suggestionScopeRank.
scoreSuggestion(source, uses, known) ==
  (10 - Rank(source)) * 4 + (IF known THEN 2 ELSE 0) + (IF uses > 0 THEN 1 ELSE 0)

suggestionCommandFiltered(command, prefix) == command \in Sensitive \/ ~HasPrefix(command, prefix)

\* ListFavorites for a server and its group.
ListFavorites(s) ==
  {favorites[i] : i \in {j \in Ids : /\ favorites[j] # None
                                     /\ \/ favorites[j].scope = "global"
                                        \/ favorites[j].scope = "group" /\ favorites[j].group = groupOf[s]
                                        \/ favorites[j].scope = "server" /\ favorites[j].server = s}}

Candidates(s, prefix) ==
  LET all == {[command |-> f.command, source |-> f.scope, score |-> scoreSuggestion(f.scope, f.uses, f.uses > 0)] : f \in ListFavorites(s)}
               \cup {[command |-> c, source |-> "history", score |-> scoreSuggestion("history", 0, TRUE)] : c \in past[s]}
               \cup {[command |-> c, source |-> "builtin", score |-> scoreSuggestion("builtin", 0, FALSE)] : c \in Builtins}
  IN  {c \in all : ~suggestionCommandFiltered(c.command, prefix)}

\* Faulty variant: of equal commands the last candidate is kept, not the best.
DedupeKeepsLast(input) ==
  {CHOOSE c \in input : FoldedCommand(c.command) = k /\ \A d \in input : FoldedCommand(d.command) = k => Rank(d.source) <= Rank(c.source) :
     k \in {FoldedCommand(c.command) : c \in input}}

\* dedupeSuggestions: the best one of the commands that differ in case only.
dedupeSuggestions(input) ==
  {CHOOSE c \in input : FoldedCommand(c.command) = k /\ \A d \in input : FoldedCommand(d.command) = k => d.score <= c.score :
     k \in {FoldedCommand(c.command) : c \in input}}

\* ListSuggestions: the best ones in order; there are none for a prefix that looks sensitive.
ListSuggestions(s, prefix) ==
  LET sorted == SetToSortSeq(dedupeSuggestions(Candidates(s, prefix)), LAMBDA c, d : c.score > d.score)
  IN  IF prefix \in Sensitive THEN <<>> ELSE SubSeq(sorted, 1, Min({Len(sorted), MaxListed}))

-----------------------------------------------------------------------------
\* The editor is opened for a server, for a new favorite (id None) or one that is there.
OpenEditor(i, s) ==
  /\ editor = None /\ s \in servers
  /\ i # None => favorites[i] # None
  /\ editor' = [id |-> i, server |-> s, was |-> IF i = None THEN None ELSE favorites[i]]
  /\ UNCHANGED <<servers, groups, groupOf, favorites, past, used>>

\* The request of the editor has the id of its scope only.
Request(scope) ==
  [server |-> IF scope = "server" THEN editor.server ELSE None,
   group |-> IF scope = "group" THEN groupOf[editor.server] ELSE None]

\* The row that CreateCommandFavorite or UpdateCommandFavorite leaves: uses are kept.
Row(i, command, scope) ==
  [command |-> command, scope |-> scope, server |-> Request(scope).server, group |-> Request(scope).group,
   uses |-> IF favorites[i] = None THEN 0 ELSE favorites[i].uses]

\* CreateFavorite and UpdateFavorite.  A sensitive command is asked about, and saved with
\* allowSensitive, or not at all.  A favorite that has gone is an error, and so is a
\* server or a group that has gone: the foreign keys refuse it.
SaveFavorite(i, command, scope) ==
  /\ editor # None
  /\ IF editor.id = None THEN favorites[i] = None ELSE i = editor.id
  /\ scope = "group" => groupOf[editor.server] # None
  /\ editor' = None
  /\ favorites' = IF /\ editor.id # None => favorites[i] # None
                     /\ Request(scope).server \in servers \cup {None}
                     /\ Request(scope).group \in groups \cup {None}
                    THEN [favorites EXCEPT ![i] = Row(i, command, scope)] ELSE favorites
  /\ used' = IF editor.id = None THEN [used EXCEPT ![i] = 0] ELSE used
  /\ UNCHANGED <<servers, groups, groupOf, past>>

CancelEditor ==
  /\ editor # None /\ editor' = None
  /\ UNCHANGED <<servers, groups, groupOf, favorites, past, used>>

DeleteFavorite(i) ==
  /\ favorites[i] # None
  /\ favorites' = [favorites EXCEPT ![i] = None]
  /\ UNCHANGED <<servers, groups, groupOf, past, editor, used>>

\* IncrementFavoriteUse: one statement.
IncrementFavoriteUse(i) ==
  /\ favorites[i] # None /\ favorites[i].uses < MaxUses
  /\ favorites' = [favorites EXCEPT ![i].uses = @ + 1]
  /\ used' = [used EXCEPT ![i] = @ + 1]
  /\ UNCHANGED <<servers, groups, groupOf, past, editor>>

\* RecordHistory of a command that is not sensitive.
Run(s, command) ==
  /\ s \in servers /\ command \notin Sensitive
  /\ past' = [past EXCEPT ![s] = @ \cup {command}]
  /\ UNCHANGED <<servers, groups, groupOf, favorites, editor, used>>

\* DeleteGroup: ON DELETE SET NULL of its servers, ON DELETE CASCADE of its favorites.
DeleteGroup(g) ==
  /\ g \in groups
  /\ groups' = groups \ {g}
  /\ groupOf' = [s \in Servers |-> IF groupOf[s] = g THEN None ELSE groupOf[s]]
  /\ favorites' = [i \in Ids |-> IF favorites[i] # None /\ favorites[i].group = g THEN None ELSE favorites[i]]
  /\ UNCHANGED <<servers, past, editor, used>>

\* DeleteConnection: ON DELETE CASCADE of its favorites and its history.
DeleteServer(s) ==
  /\ s \in servers
  /\ servers' = servers \ {s}
  /\ groupOf' = [groupOf EXCEPT ![s] = None]
  /\ past' = [past EXCEPT ![s] = {}]
  /\ favorites' = [i \in Ids |-> IF favorites[i] # None /\ favorites[i].server = s THEN None ELSE favorites[i]]
  /\ UNCHANGED <<groups, editor, used>>

Next ==
  \/ \E s \in Servers : \E i \in Ids \cup {None} : OpenEditor(i, s)
  \/ \E i \in Ids, c \in Commands, scope \in Scopes : SaveFavorite(i, c, scope)
  \/ CancelEditor
  \/ \E i \in Ids : DeleteFavorite(i) \/ IncrementFavoriteUse(i)
  \/ \E s \in Servers : DeleteServer(s) \/ \E c \in Commands : Run(s, c)
  \/ \E g \in Groups : DeleteGroup(g)

Spec == Init /\ [][Next]_vars

-----------------------------------------------------------------------------
\* What is suggested was never refused as sensitive, though a favorite may be.
NothingSensitive ==
  \A s \in servers, p \in Typed :
    LET list == ListSuggestions(s, p) IN \A i \in DOMAIN list : list[i].command \notin Sensitive

\* A command is suggested once, whatever its case and however many sources have it.
SuggestedOnce ==
  \A s \in servers, p \in Typed :
    LET list == ListSuggestions(s, p)
    IN  \A i, j \in DOMAIN list : FoldedCommand(list[i].command) = FoldedCommand(list[j].command) => i = j

\* Suggestions come in the order of their sources: what was run on the server first,
\* then its own favorites, those of its group, the global ones and the built-in ones,
\* however often a favorite was used.
BySource ==
  \A s \in servers, p \in Typed :
    LET list == ListSuggestions(s, p)
    IN  \A i, j \in DOMAIN list : i < j => Rank(list[i].source) <= Rank(list[j].source)

\* A command that was run on the server is not hidden behind the same command from
\* another source: it, or one that differs in case, comes from the history.
RunIsSuggested ==
  \A s \in servers, p \in Typed \ Sensitive :
    LET list == ListSuggestions(s, p)
    IN  \A c \in {d \in past[s] : HasPrefix(d, p)} :
          \/ \E i \in DOMAIN list : list[i].source = "history" /\ FoldedCommand(list[i].command) = FoldedCommand(c)
          \/ Len(list) = MaxListed

\* No use is lost, also when the favorite is edited while it is used.
UsesAreCounted == \A i \in Ids : favorites[i] # None => favorites[i].uses = used[i]

\* The list of suggestions: nothing sensitive, nothing twice, by source, nothing that was run
\* left out, and its counts true (ListSuggestions, dedupeSuggestions, SaveFavorite).
SuggestionsAreSound ==
  TypeOK /\ NothingSensitive /\ SuggestedOnce /\ BySource /\ RunIsSuggested /\ UsesAreCounted

=============================================================================
