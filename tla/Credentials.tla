------------------------------ MODULE Credentials ------------------------------
(***************************************************************************)
(* Saved passwords and passphrases (credential/resolver.go,                *)
(* app_connections.go, app_keyvault.go).  The database holds a reference,  *)
(* the system's credential store the secret; no transaction spans both.    *)
(* An owner of a secret is a server or an entry of the key vault.  A       *)
(* server's secret may still be stored under the name an older version     *)
(* gave it.  Every call of the system store may fail.                      *)
(***************************************************************************)
EXTENDS Naturals, Sequences

CONSTANTS Conns,    \* servers
          Keys,     \* entries of the key vault
          Calls,    \* calls that may be in progress
          None

Owners == Conns \cup Keys
Slots == {"canonical", "legacy"}
Values == {"old", "new"}   \* what the older version has stored, and what is saved now

VARIABLES
  row,      \* whether the owner is in the database
  ref,      \* its reference: credential_refs, or passphrase_credential_ref
  secrets,  \* what the system store holds under its two names
  bound,    \* the key of a server, if it uses the vault
  call,     \* the calls in progress
  saved,    \* history: owners with a secret that was saved with success
  forgot,   \* history: owners whose last call has deleted the secret with success
  failed,   \* history: owners for which the system store refused a call
  crossed   \* history: owners with two calls at a time, one of them a deletion or not

vars == <<row, ref, secrets, bound, call, saved, forgot, failed, crossed>>

Idle == [step |-> "idle", owner |-> None, had |-> FALSE, value |-> None, todo |-> <<>>]
NoSecret == [s \in Slots |-> None]

TypeOK ==
  /\ row \in [Owners -> {"absent", "there", "gone"}]
  /\ ref \in [Owners -> Slots \cup {None}]
  /\ \A o \in Owners : ref[o] # None => row[o] = "there"
  /\ secrets \in [Owners -> [Slots -> Values \cup {None}]]
  /\ bound \in [Conns -> Keys \cup {None}]
  /\ \A c \in Conns : bound[c] # None => row[bound[c]] = "there"
  /\ \A t \in Calls : call[t].owner \in Owners \cup {None}
  /\ saved \subseteq Owners
  /\ forgot \subseteq Owners /\ failed \subseteq Owners
  /\ crossed \in [Owners -> {"no", "saves", "deletes"}]

Init ==
  /\ row = [o \in Owners |-> IF o \in Conns THEN "there" ELSE "absent"]
  /\ ref = [o \in Owners |-> None]
  /\ secrets \in {f \in [Owners -> {NoSecret, [NoSecret EXCEPT !["legacy"] = "old"]}] :
                    \A k \in Keys : f[k] = NoSecret}
  /\ bound = [c \in Conns |-> None]
  /\ call = [t \in Calls |-> Idle]
  /\ saved = {} /\ forgot = {} /\ failed = {}
  /\ crossed = [o \in Owners |-> "no"]

Saving == {"set", "ref", "recover", "copy", "link"}

\* Call t begins at step for owner o.
Begin(t, o, step, r) ==
  /\ call[t] = Idle
  /\ call' = [call EXCEPT ![t] = [r EXCEPT !.step = step, !.owner = o]]
  /\ LET beside == {call[u].step : u \in {w \in Calls : call[w].owner = o}} IN
       crossed' = [crossed EXCEPT ![o] =
         IF beside = {} THEN @
         ELSE IF (beside \cup {step}) \subseteq Saving /\ @ # "deletes" THEN "saves" ELSE "deletes"]
  /\ forgot' = forgot \ {o}

Goto(t, step) == call' = [call EXCEPT ![t].step = step]
Return(t) == call' = [call EXCEPT ![t] = Idle]
Store(o, slot, v) == secrets' = [secrets EXCEPT ![o][slot] = v]
Refer(o, r) == ref' = [ref EXCEPT ![o] = r]
At(t, step) == call[t].step = step

-----------------------------------------------------------------------------
\* CommitSuccessful after a login (explicit = FALSE), SaveExplicit from the dialog, and
\* the passphrase of a key: CreateKeyVaultEntry, UpdateKeyVaultPassphrase and the like.
Save(t, o, explicit) ==
  /\ row[o] = "there"
  /\ Begin(t, o, "set", [Idle EXCEPT !.value = "new", !.had = (explicit /\ o \in Conns /\ ref[o] # None)])
  /\ UNCHANGED <<row, ref, secrets, bound, saved, failed>>

\* secrets.Set; SaveExplicit leaves a reference that it has found.
SaveSets(t) ==
  LET o == call[t].owner IN
  /\ At(t, "set")
  /\ \/ /\ Store(o, "canonical", call[t].value)
        /\ IF call[t].had THEN Return(t) /\ saved' = saved \cup {o}
                          ELSE Goto(t, "ref") /\ UNCHANGED saved
        /\ UNCHANGED failed
     \/ Return(t) /\ failed' = failed \cup {o} /\ UNCHANGED <<secrets, saved>>
  /\ UNCHANGED <<row, ref, bound, forgot, crossed>>

\* SetCredentialRef or SetKeyVaultPassphraseRef; without a row they fail and the secret
\* is deleted, which may fail too.
SaveRefers(t) ==
  LET o == call[t].owner IN
  /\ At(t, "ref") /\ Return(t)
  /\ \/ /\ row[o] = "there" /\ Refer(o, "canonical")
        /\ saved' = saved \cup {o}
        /\ UNCHANGED <<secrets, failed>>
     \/ /\ row[o] # "there" /\ UNCHANGED <<ref, saved>>
        /\ \/ Store(o, "canonical", None) /\ UNCHANGED failed
           \/ failed' = failed \cup {o} /\ UNCHANGED secrets
  /\ UNCHANGED <<row, bound, forgot, crossed>>

-----------------------------------------------------------------------------
\* savedSecret of a server without a reference: recoverCanonicalSecret.
Recover(t, c) ==
  /\ c \in Conns /\ row[c] = "there" /\ ref[c] = None
  /\ Begin(t, c, "recover", Idle)
  /\ UNCHANGED <<row, ref, secrets, bound, saved, failed>>

\* Faulty variant: what is recovered is not read first.
RecoverBlindly(t) ==
  /\ At(t, "recover")
  /\ call' = [call EXCEPT ![t] = [@ EXCEPT !.step = "link", !.todo = <<"canonical">>]]
  /\ UNCHANGED <<row, ref, secrets, bound, saved, forgot, failed, crossed>>

\* secretByReference of the canonical name, then of the legacy one.
RecoverReads(t) ==
  LET s == secrets[call[t].owner] IN
  /\ At(t, "recover")
  /\ call' = [call EXCEPT ![t] =
       CASE s["canonical"] # None -> [@ EXCEPT !.step = "link", !.todo = <<"canonical">>]
         [] s["canonical"] = None /\ s["legacy"] # None ->
              [@ EXCEPT !.step = "copy", !.value = s["legacy"]]
         [] OTHER -> Idle]
  /\ UNCHANGED <<row, ref, secrets, bound, saved, forgot, failed, crossed>>

\* The copy under the canonical name; if it fails the legacy name is used.
RecoverCopies(t) ==
  LET o == call[t].owner IN
  /\ At(t, "copy")
  /\ \/ /\ Store(o, "canonical", call[t].value) /\ UNCHANGED failed
        /\ call' = [call EXCEPT ![t] = [@ EXCEPT !.step = "link", !.todo = <<"canonical">>]]
     \/ /\ failed' = failed \cup {o} /\ UNCHANGED secrets
        /\ call' = [call EXCEPT ![t] = [@ EXCEPT !.step = "link", !.todo = <<"legacy">>]]
  /\ UNCHANGED <<row, ref, bound, saved, forgot, crossed>>

\* SetCredentialRef; without a row it fails and the copy stays.
RecoverLinks(t) ==
  LET o == call[t].owner IN
  /\ At(t, "link") /\ Return(t)
  /\ IF row[o] = "there" THEN Refer(o, call[t].todo[1]) ELSE UNCHANGED ref
  /\ UNCHANGED <<row, secrets, bound, saved, forgot, failed, crossed>>

-----------------------------------------------------------------------------
\* Deletion of secrets

\* ClearKind: the reference goes first, then the secret under every name.
ClearKind(t, c) ==
  /\ c \in Conns /\ row[c] = "there"
  /\ Begin(t, c, "forget", [Idle EXCEPT !.todo =
       IF ref[c] = "legacy" THEN <<"legacy", "canonical">> ELSE <<"canonical", "legacy">>])
  /\ Refer(c, None)
  /\ UNCHANGED <<row, secrets, bound, saved, failed>>

\* Clear of DeleteConnection lists the references ...
DeleteConnection(t, c) ==
  /\ c \in Conns /\ row[c] = "there"
  /\ Begin(t, c, "clear", [Idle EXCEPT !.todo = IF ref[c] = None THEN <<>> ELSE <<ref[c]>>])
  /\ UNCHANGED <<row, ref, secrets, bound, saved, failed>>

\* ... as DeleteKeyVaultPassphrase does with the one of a key ...
DeleteKeyVaultPassphrase(t, k) ==
  /\ k \in Keys /\ row[k] = "there"
  /\ Begin(t, k, "drop", [Idle EXCEPT !.todo = IF ref[k] = None THEN <<>> ELSE <<ref[k]>>])
  /\ UNCHANGED <<row, ref, secrets, bound, saved, failed>>

\* ... and DeleteKeyVaultEntry (sweep: what is deleted after the row has gone).
DeleteKeyVaultEntry(t, k) ==
  /\ k \in Keys /\ row[k] = "there"
  /\ Begin(t, k, "unbind", [Idle EXCEPT !.todo = IF ref[k] = None THEN <<>> ELSE <<ref[k]>>])
  /\ UNCHANGED <<row, ref, secrets, bound, saved, failed>>

\* UpdateKeyVaultEntry with another key file: the row loses the reference first.
UpdateKeyVaultEntry(t, k) ==
  /\ k \in Keys /\ row[k] = "there" /\ ref[k] # None
  /\ Begin(t, k, "sweep", [Idle EXCEPT !.todo = <<ref[k]>>])
  /\ Refer(k, None)
  /\ UNCHANGED <<row, secrets, bound, saved, failed>>

\* secrets.Delete; a failure ends the call, except in a sweep where it is only a warning.
DeleteSecret(t) ==
  LET o == call[t].owner IN
  /\ call[t].step \in {"forget", "clear", "drop", "sweep"} /\ call[t].todo # <<>>
  /\ \/ /\ Store(o, Head(call[t].todo), None) /\ UNCHANGED failed
        /\ call' = [call EXCEPT ![t].todo = Tail(@)]
     \/ /\ failed' = failed \cup {o} /\ UNCHANGED secrets
        /\ Return(t)
  /\ UNCHANGED <<row, ref, bound, saved, forgot, crossed>>

\* The end of ClearKind or of a sweep.
Deleted(t) ==
  /\ call[t].step \in {"forget", "sweep"} /\ call[t].todo = <<>> /\ Return(t)
  /\ forgot' = IF At(t, "forget") THEN forgot \cup {call[t].owner} ELSE forgot
  /\ UNCHANGED <<row, ref, secrets, bound, saved, failed, crossed>>

\* DeleteCredentialRefs, and DeleteKeyVaultPassphrase's last statement.
Unrefer(t) ==
  /\ call[t].step \in {"clear", "drop"} /\ call[t].todo = <<>>
  /\ Refer(call[t].owner, None)
  /\ IF At(t, "clear") THEN Goto(t, "row") ELSE Return(t)
  /\ UNCHANGED <<row, secrets, bound, saved, forgot, failed, crossed>>

\* The transaction of DeleteConnection; references that came back go with the row.
DropConnection(t) ==
  LET c == call[t].owner IN
  /\ At(t, "row") /\ Return(t)
  /\ row' = [row EXCEPT ![c] = "gone"]
  /\ Refer(c, None)
  /\ bound' = [bound EXCEPT ![c] = None]
  /\ UNCHANGED <<secrets, saved, forgot, failed, crossed>>

\* DeleteKeyVaultEntryWithUnbind: one transaction; servers that use the key keep it
\* unless the user insists.
DeleteKeyVaultEntryWithUnbind(t, force) ==
  LET k == call[t].owner IN
  /\ At(t, "unbind")
  /\ IF row[k] = "there" /\ (force \/ \A c \in Conns : bound[c] # k)
       THEN /\ row' = [row EXCEPT ![k] = "gone"] /\ Refer(k, None)
            /\ bound' = [c \in Conns |-> IF bound[c] = k THEN None ELSE bound[c]]
            /\ Goto(t, "sweep")
       ELSE Return(t) /\ UNCHANGED <<row, ref, bound>>
  /\ UNCHANGED <<secrets, saved, forgot, failed, crossed>>

\* CreateEncryptedKeyVaultEntry.
CreateKeyVaultEntry(k) ==
  /\ row[k] = "absent"
  /\ row' = [row EXCEPT ![k] = "there"]
  /\ UNCHANGED <<ref, secrets, bound, call, saved, forgot, failed, crossed>>

\* SaveConnection with a key of the vault.
Bind(c, k) ==
  /\ row[c] = "there" /\ row[k] = "there" /\ bound[c] # k
  /\ bound' = [bound EXCEPT ![c] = k]
  /\ UNCHANGED <<row, ref, secrets, call, saved, forgot, failed, crossed>>

Next ==
  \/ \E t \in Calls, o \in Owners :
       \/ \E explicit \in BOOLEAN : Save(t, o, explicit)
       \/ Recover(t, o) \/ ClearKind(t, o) \/ DeleteConnection(t, o)
       \/ DeleteKeyVaultPassphrase(t, o) \/ DeleteKeyVaultEntry(t, o) \/ UpdateKeyVaultEntry(t, o)
  \/ \E t \in Calls :
       \/ SaveSets(t) \/ SaveRefers(t)
       \/ RecoverReads(t) \/ RecoverCopies(t) \/ RecoverLinks(t)
       \/ DeleteSecret(t) \/ Deleted(t) \/ Unrefer(t) \/ DropConnection(t)
       \/ \E force \in BOOLEAN : DeleteKeyVaultEntryWithUnbind(t, force)
  \/ \E k \in Keys : CreateKeyVaultEntry(k) \/ \E c \in Conns : Bind(c, k)

Spec == Init /\ [][Next]_vars

-----------------------------------------------------------------------------
\* No call on the owner is in progress, and none was beside another, or only saves were.
Quiet(o) == \A t \in Calls : call[t].owner # o
Settled(o) == Quiet(o) /\ crossed[o] # "deletes"

\* A server or key that is shown with a saved secret has one, whatever the system
\* store refused and in whatever order saves and recoveries overlap (the dialog shows
\* the reference, credential_saved; a login needs the secret).
SavedIsUsable ==
  \A o \in Owners : Settled(o) /\ ref[o] # None => secrets[o][ref[o]] # None

\* What a login reads is what the user saved, not what the older version had stored.
\* If the system store has refused a call the old name may stay in use, and
\* SaveExplicit writes under the other one; and a recovery beside a save copies the
\* old secret over the new one.
SavedIsUsed ==
  \A o \in saved : Quiet(o) /\ crossed[o] = "no" /\ o \notin failed /\ ref[o] # None
                     => secrets[o][ref[o]] = "new"

\* A password the user has deleted with success is in the system store no more, under
\* neither name: recoverCanonicalSecret finds nothing to bring back.
ForgottenStays ==
  \A c \in Conns \cap forgot : Settled(c) => ref[c] = None /\ secrets[c] = NoSecret

\* A server or key that was deleted leaves no secret under its present name.
GoneIsForgotten ==
  \A o \in Owners \ failed : Settled(o) /\ row[o] = "gone" => secrets[o]["canonical"] = None

\* What is saved can be used, what is deleted is gone, under both of the names a secret may
\* have (SaveExplicit, CommitSuccessful, recoverCanonicalSecret, ClearKind).
SecretsAreKept == TypeOK /\ SavedIsUsable /\ SavedIsUsed /\ ForgottenStays /\ GoneIsForgotten

=============================================================================
