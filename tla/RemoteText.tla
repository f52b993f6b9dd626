------------------------------ MODULE RemoteText ------------------------------
(***************************************************************************)
(* A remote text file in the editor: ReadTextFile and WriteTextFile of     *)
(* sftpmanager/manager_text.go, their shell versions of the SCP mode       *)
(* (scp_shell_compat.go), and the window (useSftpRemoteText.ts).  A save   *)
(* is a chain of remote operations: each can be refused, and at each the   *)
(* connection can break, with the operation done or not; others write the  *)
(* file in between.  A content is a version number; size and second of the *)
(* last change are one `stamp`, and a change may leave it as it was.       *)
(***************************************************************************)
EXTENDS Naturals

CONSTANTS MaxVersion,   \* bound: contents, of the user's edits and of the others' changes
          MaxGen,       \* bound: connections, each with its generation
          MaxSaves,     \* bound: calls of WriteTextFile
          None

VARIABLES
  mode,      \* "sftp" or "scp"
  file,      \* remote file: None or [ver, whole, stamp]
  tmp,       \* the temporary file of a save: None or [ver, whole]
  link,      \* the connection of the current generation works
  gen,       \* session.generation
  view,      \* window, viewerFile: None or [hash, stamp, gen, fresh]
  draft,     \* window: version in viewerDraft
  baseline,  \* window: version in viewerBaseline
  reading,   \* window: None or the stamp that ReadTextFile got from Stat
  save,      \* window: None or the save under way, see NewSave
  made,      \* <<versions, saves>> so far
  excuse     \* history: see Init

vars == <<mode, file, tmp, link, gen, view, draft, baseline, reading, save, made, excuse>>

Stamps == {0, 1}
Checks == {"stat", "hash"}                              \* before anything is written
Writes == {"create", "write", "rename", "direct", "pipe", "after"}
Content(v, w) == [ver |-> v, whole |-> w]
Versions == 0..MaxVersion

TypeOK ==
  /\ mode \in {"sftp", "scp"} /\ link \in BOOLEAN /\ gen \in 1..MaxGen
  /\ file # None => file.ver \in Versions /\ file.whole \in BOOLEAN /\ file.stamp \in Stamps
  /\ tmp # None => tmp \in [ver : Versions, whole : BOOLEAN]
  /\ draft \in Versions /\ baseline \in Versions /\ reading \in Stamps \cup {None}
  /\ save # None => save.phase \in Checks \cup Writes \cup {"clean", "conflict", "reconnect"}

\* touched: the file changed since the window knew it, by others or by a save that failed;
\* broken: a write of the file itself was cut off; typed: an edit was made during a save that
\* succeeded; left: a temporary file could not be removed; lost: see Replaced.
Init ==
  /\ mode \in {"sftp", "scp"}
  /\ file \in {None, [ver |-> 0, whole |-> TRUE, stamp |-> 0]}
  /\ tmp = None /\ link = TRUE /\ gen = 1
  /\ view = None /\ draft = 0 /\ baseline = 0 /\ reading = None /\ save = None
  /\ made = <<0, 0>>
  /\ excuse = [touched |-> FALSE, broken |-> FALSE, typed |-> FALSE, left |-> FALSE, lost |-> FALSE]

Remote == <<file, tmp>>
Session == <<mode, link, gen>>
Window == <<view, draft, baseline, reading>>

-----------------------------------------------------------------------------
\* Others write or remove the file; a save whose checks are over cannot notice it.
Race == save' = IF save # None /\ save.phase \notin Checks THEN [save EXCEPT !.raced = TRUE] ELSE save
OthersWrite(stamp) ==
  /\ made[1] < MaxVersion /\ made' = [made EXCEPT ![1] = @ + 1]
  /\ file' = [ver |-> made[1] + 1, whole |-> TRUE, stamp |-> stamp]
  /\ excuse' = [excuse EXCEPT !.touched = TRUE]
  /\ Race
  /\ UNCHANGED <<tmp, Session, Window>>
OthersRemove ==
  /\ file # None /\ file' = None
  /\ excuse' = [excuse EXCEPT !.touched = TRUE]
  /\ Race
  /\ UNCHANGED <<tmp, Session, Window, made>>

\* The connection breaks while nothing is asked of it; the panel connects again.
Breaks ==
  /\ link /\ gen < MaxGen /\ link' = FALSE
  /\ UNCHANGED <<Remote, mode, gen, Window, save, made, excuse>>
Reconnects ==
  /\ save = None /\ ~link /\ gen < MaxGen
  /\ link' = TRUE /\ gen' = gen + 1
  /\ UNCHANGED <<Remote, mode, Window, save, made, excuse>>

-----------------------------------------------------------------------------
\* openTextFile, ReadTextFile: Stat ...
ReadStat ==
  /\ reading = None /\ save = None /\ link /\ file # None
  /\ reading' = file.stamp
  /\ UNCHANGED <<Remote, Session, view, draft, baseline, save, made, excuse>>

\* ... and then the content, of which the hash is taken; or an error.
ReadContent ==
  /\ reading # None /\ reading' = None
  /\ \/ /\ link /\ file # None
        /\ view' = [hash |-> file.ver, stamp |-> reading, gen |-> gen, fresh |-> FALSE]
        /\ draft' = file.ver /\ baseline' = file.ver
        /\ excuse' = [excuse EXCEPT !.touched = FALSE, !.typed = FALSE]
     \/ UNCHANGED <<view, draft, baseline, excuse>>
  /\ UNCHANGED <<Remote, Session, save, made>>

\* createNewTextFileDraft: an editor without a file.
NewDraft ==
  /\ view = None /\ reading = None
  /\ view' = [hash |-> None, stamp |-> None, gen |-> gen, fresh |-> TRUE]
  /\ draft' = 0 /\ baseline' = 0
  /\ UNCHANGED <<Remote, Session, reading, save, made, excuse>>

\* The user types; the editor takes input while a save is under way, too.
Type ==
  /\ view # None /\ reading = None
  /\ made[1] < MaxVersion /\ made' = [made EXCEPT ![1] = @ + 1]
  /\ draft' = made[1] + 1
  /\ UNCHANGED <<Remote, Session, view, baseline, reading, save, excuse>>

-----------------------------------------------------------------------------
\* A call of WriteTextFile: what it sends, what it expects, whether it may overwrite
\* (force) and whether the window tries again once after a new connection (retry).
NewSave(force, retry, g) ==
  [phase |-> "stat", ver |-> draft, create |-> view.fresh, hash |-> view.hash, stamp |-> view.stamp,
   force |-> force, retry |-> retry, raced |-> FALSE, gen |-> g]

\* saveTextFile and validate_generation: a view of an older connection is refused, and retried.
Begin(force, retry, g) ==
  /\ made[2] < MaxSaves /\ made' = [made EXCEPT ![2] = @ + 1]
  /\ save' = IF g = gen THEN NewSave(force, retry, g)
             ELSE IF retry THEN [NewSave(force, retry, g) EXCEPT !.phase = "reconnect"] ELSE None
Save ==
  /\ view # None /\ reading = None /\ save = None
  /\ view.fresh \/ draft # baseline
  /\ Begin(FALSE, TRUE, view.gen)
  /\ UNCHANGED <<Remote, Session, Window, excuse>>

To(phase) == save' = [save EXCEPT !.phase = phase]

\* A remote operation works, is refused, or meets a connection that breaks.
Works == link /\ UNCHANGED Session
Refused == link /\ UNCHANGED Session
Cut == link' = FALSE /\ UNCHANGED <<mode, gen>>

\* An error before anything was written: after a new connection once more, else shown.
CheckFails ==
  save' = IF save.retry THEN [save EXCEPT !.phase = "reconnect"] ELSE None

\* Stat: a missing file is right for a new one only, a present one for an old one, and
\* size and second must be those of the read (fileChangedSinceRead); overwriting skips it.
StatAnswer ==
  IF file = None THEN (IF save.create THEN "create" ELSE "failed")
  ELSE IF save.force THEN "create"
  ELSE IF save.create \/ file.stamp # save.stamp THEN "conflict"
  ELSE "hash"
SaveStat ==
  /\ save # None /\ save.phase = "stat"
  /\ \/ /\ Works
        /\ LET a == IF StatAnswer = "create" /\ mode = "scp" THEN "pipe" ELSE StatAnswer
           IN  IF a = "failed" THEN save' = None \/ CheckFails ELSE To(a)
     \/ Refused /\ (save' = None \/ CheckFails)
     \/ Cut /\ CheckFails
  /\ UNCHANGED <<Remote, Window, made, excuse>>

\* currentSFTPTextHash, currentSCPTextHash: the whole content is compared.
MatchesStamp == file.stamp = save.stamp
HashMatches == file.ver = save.hash /\ file.whole
SaveHash ==
  /\ save # None /\ save.phase = "hash"
  /\ \/ /\ Works /\ file # None
        /\ To(IF ~HashMatches THEN "conflict" ELSE IF mode = "scp" THEN "pipe" ELSE "create")
     \/ Refused /\ (save' = None \/ CheckFails)
     \/ Cut /\ CheckFails
  /\ UNCHANGED <<Remote, Window, made, excuse>>

\* canRetrySaveBeforeWrite: connect again, take its generation and save again, or give up.
SaveReconnects ==
  /\ save # None /\ save.phase = "reconnect"
  /\ \/ /\ gen < MaxGen /\ gen' = gen + 1 /\ link' = TRUE
        /\ view' = [view EXCEPT !.gen = gen + 1]
        /\ made[2] < MaxSaves /\ made' = [made EXCEPT ![2] = @ + 1]
        /\ save' = NewSave(save.force, FALSE, gen + 1)
     \/ save' = None /\ UNCHANGED <<gen, link, view, made>>
  /\ UNCHANGED <<Remote, mode, draft, baseline, reading, excuse>>

\* SFTP_SAVE_CONFLICT: the user overwrites, or gives up; then he can read again.
SaveConflict ==
  /\ save # None /\ save.phase = "conflict"
  /\ \/ Begin(TRUE, TRUE, view.gen)
     \/ save' = None /\ UNCHANGED made
  /\ UNCHANGED <<Remote, Session, Window, excuse>>

-----------------------------------------------------------------------------
\* The file gets a content of the save, which learns of it or not (known).  What it had is
\* lost if the window has not read it, nobody said to overwrite it and the checks could see it.
Replaced(content, stamp, known) ==
  /\ file' = [ver |-> content.ver, whole |-> content.whole, stamp |-> stamp]
  /\ excuse' = [excuse EXCEPT
       !.lost = @ \/ (file # None /\ file.ver # save.hash /\ ~save.force /\ ~save.raced),
       !.touched = ~known, !.broken = @ \/ (save.phase \in {"direct", "pipe"} /\ ~content.whole)]
SaveEnds == save' = None

\* Create, writeAll and Close of the temporary file.
CreateTemp ==
  /\ save # None /\ save.phase = "create"
  /\ \/ Works /\ tmp' = Content(save.ver, FALSE) /\ To("write") /\ UNCHANGED excuse
     \/ Refused /\ SaveEnds /\ UNCHANGED <<tmp, excuse>>
     \/ Cut /\ SaveEnds /\ UNCHANGED <<tmp, excuse>>
     \/ link /\ Cut /\ SaveEnds /\ tmp' = Content(save.ver, FALSE)
             /\ excuse' = [excuse EXCEPT !.left = TRUE]
  /\ UNCHANGED <<file, Window, made>>
WriteTemp ==
  /\ save # None /\ save.phase = "write"
  /\ \/ Works /\ tmp' = Content(save.ver, TRUE) /\ To("rename")
     \/ (Refused \/ Cut) /\ UNCHANGED tmp /\ To("clean")
  /\ UNCHANGED <<file, Window, made, excuse>>

\* replaceSavedTextFile: PosixRename or Rename, ...
RenameTemp(stamp) ==
  /\ save # None /\ save.phase = "rename"
  /\ \/ Works /\ Replaced(tmp, stamp, TRUE) /\ tmp' = None /\ To("after")
     \/ Refused /\ To("direct") /\ UNCHANGED <<Remote, excuse>>
     \/ Cut /\ To("clean") /\ UNCHANGED <<Remote, excuse>>
     \/ link /\ Cut /\ To("clean") /\ tmp' = None /\ Replaced(tmp, stamp, FALSE)
  /\ UNCHANGED <<Window, made>>

\* ... or else the file itself is truncated and written.
DirectWrite(stamp) ==
  /\ save # None /\ save.phase = "direct"
  /\ \/ Works /\ file # None /\ Replaced(Content(save.ver, TRUE), stamp, TRUE) /\ To("after")
     \/ Refused /\ To("clean") /\ UNCHANGED <<file, excuse>>
     \/ Cut /\ To("clean") /\ UNCHANGED <<file, excuse>>
     \/ link /\ (Refused \/ Cut) /\ file # None /\ Replaced(Content(save.ver, FALSE), stamp, FALSE) /\ To("clean")
  /\ IF save'.phase = "after" THEN tmp' \in {None, tmp} ELSE UNCHANGED tmp
  /\ UNCHANGED <<Window, made>>

\* SCP mode: `cat > tmp && chmod && mv -f tmp file` gets the content on its input.  When the
\* connection breaks the shell may go on: what it has got counts as all there was.
Pipe(stamp) ==
  /\ save # None /\ save.phase = "pipe"
  /\ \/ Works /\ Replaced(Content(save.ver, TRUE), stamp, TRUE) /\ tmp' = None /\ To("after")
     \/ Refused /\ tmp' \in {None, Content(save.ver, FALSE), Content(save.ver, TRUE)}
               /\ To("clean") /\ UNCHANGED <<file, excuse>>
     \/ link /\ Cut /\ tmp' \in {None, Content(save.ver, FALSE)} /\ To("clean") /\ UNCHANGED <<file, excuse>>
     \/ /\ link /\ Cut /\ tmp' = None /\ To("clean")
        /\ \E whole \in BOOLEAN : Replaced(Content(save.ver, whole), stamp, FALSE)
     \/ ~link /\ SaveEnds /\ UNCHANGED <<Session, Remote, excuse>>
  /\ UNCHANGED <<Window, made>>

\* cleanupTempFile: its own failure is only logged; the error of the save is shown.
CleanTemp ==
  /\ save # None /\ save.phase = "clean"
  /\ \/ Works /\ tmp' = None /\ UNCHANGED excuse
     \/ (Refused \/ Cut) /\ UNCHANGED tmp /\ excuse' = [excuse EXCEPT !.left = tmp # None \/ @]
  /\ SaveEnds
  /\ UNCHANGED <<file, Window, made>>

\* stat_after_save and acceptSavedTextResult; without the stat the save is shown as failed.
Accepted(stamp) ==
  /\ view' = [hash |-> save.ver, stamp |-> stamp, gen |-> gen, fresh |-> FALSE]
  /\ baseline' = draft
StatAfter ==
  /\ save # None /\ save.phase = "after"
  /\ \/ /\ Works /\ file # None /\ Accepted(file.stamp)
        /\ excuse' = [excuse EXCEPT !.typed = draft # save.ver, !.left = @ \/ tmp # None]
     \/ (Refused \/ Cut) /\ excuse' = [excuse EXCEPT !.touched = TRUE, !.left = @ \/ tmp # None]
                         /\ UNCHANGED <<view, baseline>>
  /\ SaveEnds
  /\ UNCHANGED <<Remote, draft, reading, made>>

Next ==
  \/ \E stamp \in Stamps : OthersWrite(stamp) \/ RenameTemp(stamp) \/ DirectWrite(stamp) \/ Pipe(stamp)
  \/ OthersRemove \/ Breaks \/ Reconnects
  \/ ReadStat \/ ReadContent \/ NewDraft \/ Type
  \/ Save \/ SaveStat \/ SaveHash \/ SaveReconnects \/ SaveConflict
  \/ CreateTemp \/ WriteTemp \/ CleanTemp \/ StatAfter

Spec == Init /\ [][Next]_vars

-----------------------------------------------------------------------------
\* A content is written beside the file and moved over it: the file is a whole content, of
\* the user or of others, unless a write of the file itself (fallback_direct_write) or the
\* input of the SCP command was cut off.
FileIsWhole == file # None => file.whole \/ excuse.broken

\* No change by others is overwritten that the user has not seen, unless he said so or it
\* came after the checks, even if it left size and second of the file as they were.
NothingIsLost == ~excuse.lost

\* What the window takes for the file is the file, unless others changed it since or a save
\* ended in an error after its checks.
ViewIsCurrent ==
  view # None /\ ~view.fresh /\ ~excuse.touched /\ (save # None => save.phase # "after") =>
    file # None /\ file.ver = view.hash

\* An editor without unsaved changes shows what was read or saved, unless the user typed
\* during a save that then succeeded: such an edit is taken for saved.
EditsAreKept == view # None /\ draft = baseline => view.fresh \/ draft = view.hash \/ excuse.typed

\* A save leaves its temporary file behind only if it could not remove it.
TempIsRemoved == save = None /\ tmp # None => excuse.left

\* Saving a text keeps the changes of others, the user's edits and a whole file, wherever the
\* connection breaks (ReadTextFile, WriteTextFile, useSftpRemoteText.ts).
TextsAreSafe == TypeOK /\ FileIsWhole /\ NothingIsLost /\ ViewIsCurrent /\ EditsAreKept /\ TempIsRemoved
=============================================================================
