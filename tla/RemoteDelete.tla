----------------------------- MODULE RemoteDelete -----------------------------
(***************************************************************************)
(* Deleting remote files and directories: InspectDelete and Delete of      *)
(* sftpmanager/recursive_delete.go, their scripts of the SCP mode          *)
(* (scp_shell_compat.go), and the window, which shows what InspectDelete   *)
(* counted and asks before it deletes (useSftpDeleteFlow.ts).  Every       *)
(* remote operation can fail; others add and remove entries in between.    *)
(***************************************************************************)
EXTENDS Naturals, Sequences, FiniteSets

CONSTANTS Nodes,      \* the entries that can be there
          Above,      \* entry -> the directories it is in, at any depth
          Kind,       \* entry -> "file", "dir" or "link"
          Target,     \* link -> the directory it leads to
          Unsafe,     \* entries whose names safeRemoteChildName refuses
          MaxChanges, \* bound: entries that others add or remove
          None

VARIABLES
  mode,       \* "sftp" or "scp"
  tree,       \* the entries that are there
  phase,      \* of the window and of its call
  asked,      \* the selected entries
  todo,       \* entries to inspect, or targets still to be stated or deleted
  targets,    \* the targets that were stated
  stack,      \* directories being deleted: sequence of [dir, entries]
  told,       \* None, "done" or "failed": what the window was told last
  listed,     \* history: entries that the preview counted or warned of
  added,      \* history: entries that others added since the preview began
  removed,    \* history: entries that Delete removed
  changes,    \* changes by others so far
  fault       \* history: an operation failed or others interfered; "hidden": and nobody was told

vars == <<mode, tree, phase, asked, todo, targets, stack, told, listed, added, removed, changes, fault>>

Below(n) == {m \in Nodes : n \in Above[m]}

\* What ReadDir of a path gives: a link leads on to its target.
Entries(n) ==
  LET dir == IF Kind[n] = "link" THEN Target[n] ELSE n
  IN  {m \in tree : Above[m] = Above[dir] \cup {dir}}
IsDir(n) == Kind[n] = "dir"

TypeOK ==
  /\ tree \subseteq Nodes /\ asked \subseteq Nodes /\ todo \subseteq Nodes
  /\ phase \in {"idle", "inspect", "confirm", "stat", "delete", "script"}
  /\ told \in {None, "done", "failed"} /\ fault \in {"no", "yes", "hidden"}

Init ==
  /\ mode \in {"sftp", "scp"}
  /\ tree \in {t \in SUBSET Nodes : \A n \in t : Above[n] \subseteq t}
  /\ phase = "idle" /\ asked = {} /\ todo = {} /\ targets = {} /\ stack = <<>> /\ told = None
  /\ listed = {} /\ added = {} /\ removed = {} /\ changes = 0 /\ fault = "no"

Faulty == fault' = IF fault = "hidden" THEN fault ELSE "yes"
History == <<listed, added, removed, changes>>

\* Others add an entry to a directory that is there, or remove one that holds nothing.
OthersChange(n) ==
  /\ asked # {} /\ changes < MaxChanges /\ changes' = changes + 1
  /\ \/ n \notin tree /\ Above[n] \subseteq tree /\ tree' = tree \cup {n} /\ added' = added \cup {n}
     \/ n \in tree /\ Entries(n) = {} /\ tree' = tree \ {n} /\ UNCHANGED added
  /\ Faulty
  /\ UNCHANGED <<mode, phase, asked, todo, targets, stack, told, listed, removed>>

-----------------------------------------------------------------------------
\* normalizeDeletePaths: an entry below another selected one is left to that.
Collapsed(ns) == {n \in ns : Above[n] \cap ns = {}}

\* removeSelected of the window: InspectDelete of the selection.  One deletion is enough to
\* look at: the next one finds a tree as Init has them.
AskDelete(ns) ==
  /\ phase = "idle" /\ asked = {} /\ ns # {} /\ ns \subseteq tree
  /\ phase' = "inspect" /\ asked' = ns /\ todo' = Collapsed(ns)
  /\ UNCHANGED <<mode, tree, targets, stack, told, History, fault>>

\* The call ends with an error: because of what it met, or because an operation was refused,
\* the connection broke or the 30 s of the call were over.
Ends(how) == phase' = "idle" /\ told' = how /\ todo' = {} /\ targets' = {} /\ stack' = <<>>

\* inspectDeleteEntry: links are counted, not followed; a directory below a selected one that
\* cannot be read and a name that is not safe are warned of; the find of the SCP mode is alike.
Inspect(n) ==
  /\ phase = "inspect" /\ n \in todo
  /\ \/ /\ n \in tree
        /\ listed' = listed \cup {n} \cup (IF IsDir(n) THEN Entries(n) \cap Unsafe ELSE {})
        /\ todo' = (todo \ {n}) \cup (IF IsDir(n) THEN Entries(n) \ Unsafe ELSE {})
        /\ UNCHANGED <<phase, told, targets, stack, fault>>
     \/ /\ n \notin tree /\ (n \notin Collapsed(asked) \/ mode = "scp")
        /\ todo' = todo \ {n} /\ UNCHANGED <<listed, phase, told, targets, stack, fault>>
     \/ /\ n \notin Collapsed(asked) /\ IsDir(n)
        /\ listed' = listed \cup {n} \cup Below(n) /\ todo' = todo \ {n} /\ Faulty
        /\ UNCHANGED <<phase, told, targets, stack>>
     \/ Ends("failed") /\ Faulty /\ UNCHANGED listed
  /\ UNCHANGED <<mode, tree, asked, added, removed, changes>>
Inspected ==
  /\ phase = "inspect" /\ todo = {} /\ phase' = "confirm"
  /\ UNCHANGED <<mode, tree, asked, todo, targets, stack, told, History, fault>>

\* The user confirms, and Delete begins; or not.
Confirm(yes) ==
  /\ phase = "confirm"
  /\ IF yes THEN /\ phase' = (IF mode = "scp" THEN "script" ELSE "stat") /\ todo' = Collapsed(asked)
                 /\ UNCHANGED <<targets, stack, told>>
     ELSE Ends(None)
  /\ UNCHANGED <<mode, tree, asked, History, fault>>

Fails(met) == Ends("failed") /\ IF met THEN UNCHANGED fault ELSE Faulty

-----------------------------------------------------------------------------
\* Delete first looks at every target, and deletes nothing if one is missing.
StatTarget(n) ==
  /\ phase = "stat" /\ n \in todo
  /\ \/ /\ n \in tree /\ todo' = todo \ {n} /\ targets' = targets \cup {n}
        /\ UNCHANGED <<phase, stack, told, fault>>
     \/ Fails(n \notin tree)
  /\ UNCHANGED <<mode, tree, asked, History>>
StatsDone ==
  /\ phase = "stat" /\ todo = {} /\ phase' = "delete"
  /\ UNCHANGED <<mode, tree, asked, todo, targets, stack, told, History, fault>>

\* Remove and RemoveDirectory: a directory must be empty.
Removable(n) == n \in tree /\ (IsDir(n) => Entries(n) = {})
Remove(n) ==
  /\ Removable(n)
  /\ tree' = tree \ {n} /\ removed' = removed \cup {n}

FollowsLinks(n) == Kind[n] \in {"dir", "link"}
Descends(n) == IsDir(n)

\* The next target: a file or link is removed, a directory is read (deleteDirectoryRecursive).
DeleteTarget(n) ==
  /\ phase = "delete" /\ stack = <<>> /\ n \in targets
  /\ \/ /\ ~Descends(n) /\ Remove(n) /\ targets' = targets \ {n}
        /\ UNCHANGED <<phase, todo, stack, told, fault>>
     \/ /\ Descends(n) /\ n \in tree
        /\ stack' = <<[dir |-> n, entries |-> Entries(n)]>> /\ targets' = targets \ {n}
        /\ UNCHANGED <<tree, removed, phase, todo, told, fault>>
     \/ Fails(n \notin tree) /\ UNCHANGED <<tree, removed>>
  /\ UNCHANGED <<mode, asked, listed, added, changes>>

\* The next entry of the innermost directory, as ReadDir gave it; an unsafe name ends all.
Top == stack[Len(stack)]
DeleteEntry(n) ==
  /\ phase = "delete" /\ stack # <<>> /\ n \in Top.entries
  /\ LET rest == [stack EXCEPT ![Len(stack)].entries = @ \ {n}]
     IN  \/ /\ n \notin Unsafe /\ ~Descends(n) /\ Remove(n) /\ stack' = rest
            /\ UNCHANGED <<phase, todo, targets, told, fault>>
         \/ /\ n \notin Unsafe /\ Descends(n) /\ n \in tree
            /\ stack' = Append(rest, [dir |-> n, entries |-> Entries(n)])
            /\ UNCHANGED <<tree, removed, phase, todo, targets, told, fault>>
         \/ Fails(n \in Unsafe \/ n \notin tree) /\ UNCHANGED <<tree, removed>>
  /\ UNCHANGED <<mode, asked, listed, added, changes>>

\* The directory itself, which must be empty by now.
DeleteDirectory ==
  /\ phase = "delete" /\ stack # <<>> /\ Top.entries = {}
  /\ \/ /\ Remove(Top.dir) /\ stack' = SubSeq(stack, 1, Len(stack) - 1)
        /\ UNCHANGED <<phase, todo, targets, told, fault>>
     \/ Fails(~Removable(Top.dir)) /\ UNCHANGED <<tree, removed>>
  /\ UNCHANGED <<mode, asked, listed, added, changes>>

DeleteDone ==
  /\ phase = "delete" /\ stack = <<>> /\ targets = {}
  /\ Ends("done")
  /\ UNCHANGED <<mode, tree, asked, History, fault>>

\* SCP mode: a script removes target after target (rm -rf, rm -f, rmdir) and exits with the
\* status of the last; what could not be removed of an earlier one stays, and nobody is told.
Script(n, gone) ==
  /\ phase = "script" /\ n \in todo /\ gone \subseteq tree \cap ({n} \cup Below(n))
  /\ \A m \in gone : Below(m) \cap tree \subseteq gone
  /\ IsDir(n) \/ gone = {} \/ gone = {n}
  /\ tree' = tree \ gone /\ removed' = removed \cup gone
  /\ LET whole == n \notin tree \ gone
     IN  IF todo = {n} THEN /\ Ends(IF whole THEN "done" ELSE "failed")
                            /\ IF whole THEN UNCHANGED fault ELSE Faulty
         ELSE /\ todo' = todo \ {n} /\ UNCHANGED <<phase, told, targets, stack>>
              /\ IF whole THEN UNCHANGED fault ELSE fault' = "hidden"
  /\ UNCHANGED <<mode, asked, listed, added, changes>>
ScriptCut ==
  /\ phase = "script" /\ Ends("failed") /\ Faulty
  /\ UNCHANGED <<mode, tree, asked, History>>

Next ==
  \/ \E ns \in SUBSET Nodes : AskDelete(ns)
  \/ \E n \in Nodes :
       \/ OthersChange(n) \/ Inspect(n) \/ StatTarget(n) \/ DeleteTarget(n) \/ DeleteEntry(n)
       \/ \E gone \in SUBSET ({n} \cup Below(n)) : Script(n, gone)
  \/ Inspected \/ StatsDone \/ DeleteDirectory \/ DeleteDone \/ ScriptCut
  \/ \E yes \in BOOLEAN : Confirm(yes)

Spec == Init /\ [][Next]_vars

-----------------------------------------------------------------------------
\* Nothing outside the selection is removed: links are removed, not followed.
InSelection == \A n \in removed : n \in asked \/ Above[n] \cap asked # {}

\* What is removed was in the preview that the user confirmed, or was added after it began.
PreviewCovers == removed \subseteq listed \cup added

\* "Deleted" is told when every selected entry is gone, unless others put one back or the
\* SCP script hid that it could not remove one.
DoneIsTrue == told = "done" => asked \cap tree \subseteq added \/ fault = "hidden"

\* A deletion that nothing disturbs succeeds, also with nested entries selected; only an
\* entry with an unsafe name below a selected directory makes it fail by itself.
FailsForAReason ==
  told = "failed" /\ fault = "no" => \E n \in Unsafe \cap tree : Above[n] \cap asked # {}

\* A deletion removes what the user confirmed and no more, and its answer is true
\* (InspectDelete, Delete, useSftpDeleteFlow.ts).
DeletesAreExact == TypeOK /\ InSelection /\ PreviewCovers /\ DoneIsTrue /\ FailsForAReason
=============================================================================
