--------------------------- MODULE MCSftpTransfer ---------------------------
(* Two transfers of one session: a directory behind or ahead of a file. *)
EXTENDS SftpTransfer

CONSTANTS t1, t2, firstKind, secondKind

MCTransfers == {t1, t2}
MCKind == [t \in MCTransfers |-> IF t = t1 THEN firstKind ELSE secondKind]
=============================================================================
