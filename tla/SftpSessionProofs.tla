-------------------------- MODULE SftpSessionProofs --------------------------
(***************************************************************************)
(* Proofs about SftpSession, for every number of contexts (tabs),          *)
(* generations, Reconnect and List calls.  Two inductive invariants, one   *)
(* for what the manager holds and one for what it shows.                   *)
(***************************************************************************)
EXTENDS SftpSession, TLAPS

----------------------------------------------------------------------------
\* The inductive invariants.

\* A generation number is used once: by an attempt or by a stop, and nothing
\* is younger than m.generations.
GenerationInv ==
  \A c \in Contexts :
    /\ session[c] <= generation[c] /\ stateGen[c] <= generation[c] /\ stopped[c] <= generation[c]
    /\ \A g \in Gens : attempt[<<c, g>>] # "none" => g <= generation[c] /\ g # stopped[c]

\* An attempt whose dial succeeded holds an open client.
OpenedInv ==
  \A c \in Contexts, g \in Gens : attempt[<<c, g>>] = "opened" => conn[<<c, g>>] = "open"

\* What is given to closeSession belongs to no attempt any more.
ClosingInv ==
  \A c \in Contexts, g \in Gens : <<c, g>> \in closing => attempt[<<c, g>>] = "over"

\* An installed session is nobody else's.
InstalledInv ==
  \A c \in Contexts : session[c] # 0 =>
    attempt[<<c, session[c]>>] = "over" /\ <<c, session[c]>> \notin closing

HeldInv ==
  GenerationInv /\ OpenedInv /\ ClosingInv /\ InstalledInv /\ StopIsFinal /\ InstalledIsOpen /\ NoLeakedSession

\* An event of the server that is ignored leaves no flag behind.
BlockedInv == blocked => ~sftpActive

\* A context that connects has had a generation.
ConnectingInv == \A c \in Contexts : status[c] = "connecting" => generation[c] # 0

ShownInv == BlockedInv /\ ConnectingInv /\ ConnectingIsAttempted /\ OnlineHasSession /\ NoGhostSftp

----------------------------------------------------------------------------
\* Functions of pairs.

\* A function of pairs, changed at one pair.
LEMMA PairUpdate ==
  ASSUME NEW S, NEW T, NEW V, NEW f \in [S \X T -> V], NEW a \in S, NEW b \in T, NEW v \in V
  PROVE  /\ [f EXCEPT ![<<a, b>>] = v] \in [S \X T -> V]
         /\ \A x \in S, y \in T :
              [f EXCEPT ![<<a, b>>] = v][<<x, y>>] = IF x = a /\ y = b THEN v ELSE f[<<x, y>>]
OBVIOUS

\* The number of an installed session is a generation.
LEMMA SessionIsGen == TypeOK => \A d \in Contexts : session[d] # 0 => session[d] \in Gens
BY BoundAssumption DEF TypeOK, Gens

----------------------------------------------------------------------------
\* What the manager holds.

\* A step of the dial or of failOpen moves one attempt and its client.
LEMMA AttemptHeld ==
  ASSUME TypeOK, HeldInv, NEW c \in Contexts, NEW g \in Gens,
         attempt[<<c, g>>] \notin {"none", "over"}, attempt'[<<c, g>>] # "none",
         attempt'[<<c, g>>] = "opened" => conn'[<<c, g>>] = "open",
         conn'[<<c, g>>] = "open" =>
            attempt'[<<c, g>>] = "opened" \/ (conn[<<c, g>>] = "open" /\ attempt[<<c, g>>] # "opened"),
         \A d \in Contexts, h \in Gens : d # c \/ h # g =>
            attempt'[<<d, h>>] = attempt[<<d, h>>] /\ conn'[<<d, h>>] = conn[<<d, h>>],
         UNCHANGED <<generation, session, stateGen, stopped, closing, dropped>>
  PROVE  HeldInv'
<1>1. GenerationInv'
  BY DEF HeldInv, GenerationInv
<1>2. OpenedInv'
  BY DEF HeldInv, OpenedInv
<1>3. ClosingInv'
  BY DEF HeldInv, ClosingInv
<1>4. InstalledInv'
  BY SessionIsGen DEF HeldInv, InstalledInv
<1>5. StopIsFinal'
  BY DEF HeldInv, StopIsFinal
<1>6. InstalledIsOpen'
  BY SessionIsGen DEF HeldInv, InstalledIsOpen, InstalledInv
<1>7. NoLeakedSession'
  BY DEF HeldInv, NoLeakedSession
<1>8. QED
  BY <1>1, <1>2, <1>3, <1>4, <1>5, <1>6, <1>7 DEF HeldInv

\* StopContext and Stop take sessions out and close the book on what is under way.
LEMMA StopHeld ==
  ASSUME TypeOK, HeldInv, NEW C \in SUBSET Contexts, StopContexts(C)
  PROVE  HeldInv'
<1>1. \A d \in Contexts :
        /\ generation'[d] = IF d \in C THEN generation[d] + 1 ELSE generation[d]
        /\ session'[d] = IF d \in C THEN 0 ELSE session[d]
        /\ stateGen'[d] = IF d \in C THEN generation'[d] ELSE stateGen[d]
        /\ stopped'[d] = IF d \in C THEN generation'[d] ELSE stopped[d]
  BY DEF StopContexts, nextGeneration, setState
<1>2. UNCHANGED <<attempt, conn, dropped>> /\ closing' = closing \cup Installed(C)
  BY DEF StopContexts
<1>3. \A d \in Contexts, h \in Gens :
        <<d, h>> \in closing' <=> <<d, h>> \in closing \/ (d \in C /\ session[d] = h /\ h # 0)
  BY <1>2 DEF Installed
<1>4. \A d \in Contexts : generation[d] \in Nat /\ session[d] \in Nat /\ stopped[d] \in Nat /\ stateGen[d] \in Nat
  BY BoundAssumption DEF TypeOK
<1>5. \A h \in Gens : h \in Nat \ {0}
  BY BoundAssumption DEF Gens
<1>6. GenerationInv'
  BY <1>1, <1>2, <1>3, <1>4, <1>5 DEF HeldInv, GenerationInv
<1>7. OpenedInv'
  BY <1>1, <1>2, <1>3, <1>4, <1>5 DEF HeldInv, OpenedInv
<1>8. ClosingInv'
  BY <1>1, <1>2, <1>3, <1>4, <1>5 DEF HeldInv, ClosingInv, InstalledInv
<1>9. InstalledInv'
  BY <1>1, <1>2, <1>3, <1>4, <1>5, SessionIsGen DEF HeldInv, InstalledInv
<1>10. StopIsFinal'
  BY <1>1, <1>2, <1>3, <1>4, <1>5 DEF HeldInv, StopIsFinal
<1>11. InstalledIsOpen'
  BY <1>1, <1>2, <1>3, <1>4, <1>5, SessionIsGen DEF HeldInv, InstalledIsOpen, InstalledInv
<1>12. NoLeakedSession'
  BY <1>1, <1>2, <1>3, <1>4, <1>5 DEF HeldInv, NoLeakedSession
<1>13. QED
  BY <1>6, <1>7, <1>8, <1>9, <1>10, <1>11, <1>12 DEF HeldInv

\* A dead session is taken out by invalidateSession or handleKeepaliveFailure.
LEMMA DropHeld ==
  ASSUME TypeOK, HeldInv, NEW c \in Contexts, dropSession(c)
  PROVE  HeldInv'
<1>1. \A d \in Contexts :
        /\ generation'[d] = IF d = c THEN generation[d] + 1 ELSE generation[d]
        /\ session'[d] = IF d = c THEN 0 ELSE session[d]
        /\ stateGen'[d] = IF d = c THEN generation'[d] ELSE stateGen[d]
  BY DEF dropSession, nextGeneration, setState, TypeOK
<1>2. UNCHANGED <<attempt, conn, stopped, dropped>> /\ closing' = closing \cup Installed({c})
  BY DEF dropSession, history
<1>3. \A d \in Contexts, h \in Gens :
        <<d, h>> \in closing' <=> <<d, h>> \in closing \/ (d = c /\ session[d] = h /\ h # 0)
  BY <1>2 DEF Installed
<1>4. \A d \in Contexts : generation[d] \in Nat /\ session[d] \in Nat /\ stopped[d] \in Nat /\ stateGen[d] \in Nat
  BY BoundAssumption DEF TypeOK
<1>5. \A h \in Gens : h \in Nat \ {0}
  BY BoundAssumption DEF Gens
<1>6. \A h \in Gens : session[c] = h => attempt[<<c, h>>] = "over"
  BY <1>5 DEF HeldInv, InstalledInv
<1>7. GenerationInv'
  BY <1>1, <1>2, <1>3, <1>4, <1>5, <1>6 DEF HeldInv, GenerationInv
<1>8. OpenedInv'
  BY <1>1, <1>2, <1>3, <1>4, <1>5, <1>6 DEF HeldInv, OpenedInv
<1>9. ClosingInv'
  BY <1>1, <1>2, <1>3, <1>4, <1>5, <1>6 DEF HeldInv, ClosingInv
<1>10. InstalledInv'
  BY <1>1, <1>2, <1>3, <1>4, <1>5, <1>6, SessionIsGen DEF HeldInv, InstalledInv
<1>11. StopIsFinal'
  BY <1>1, <1>2, <1>3, <1>4, <1>5, <1>6 DEF HeldInv, StopIsFinal
<1>12. InstalledIsOpen'
  BY <1>1, <1>2, <1>3, <1>4, <1>5, <1>6, SessionIsGen DEF HeldInv, InstalledIsOpen, InstalledInv
<1>13. NoLeakedSession'
  BY <1>1, <1>2, <1>3, <1>4, <1>5, <1>6 DEF HeldInv, NoLeakedSession
<1>14. QED
  BY <1>7, <1>8, <1>9, <1>10, <1>11, <1>12, <1>13 DEF HeldInv

\* open starts the attempt of the generation it takes.
LEMMA BeginsAttempt ==
  ASSUME TypeOK, NEW c \in Contexts, beginAttempt(c)
  PROVE  /\ generation'[c] \in Gens
         /\ attempt' \in [Contexts \X Gens -> Attempts]
         /\ \A d \in Contexts, h \in Gens :
              attempt'[<<d, h>>] = IF d = c /\ h = generation'[c] THEN "dialing" ELSE attempt[<<d, h>>]
<1> DEFINE n == generation'[c]
<1>1. n \in Gens
  BY BoundAssumption DEF beginAttempt, generationLocked, TypeOK, Gens
<1>2. attempt \in [Contexts \X Gens -> Attempts] /\ "dialing" \in Attempts
  BY DEF TypeOK, Attempts
<1>3. attempt' = [attempt EXCEPT ![<<c, n>>] = "dialing"]
  BY DEF beginAttempt
<1> HIDE DEF n
<1>4. /\ attempt' \in [Contexts \X Gens -> Attempts]
      /\ \A d \in Contexts, h \in Gens :
           attempt'[<<d, h>>] = IF d = c /\ h = n THEN "dialing" ELSE attempt[<<d, h>>]
  BY <1>1, <1>2, <1>3, PairUpdate
<1>5. QED
  BY <1>1, <1>4 DEF n

\* open takes a generation nobody has used.
LEMMA BeginHeld ==
  ASSUME TypeOK, HeldInv, NEW c \in Contexts, beginAttempt(c)
  PROVE  HeldInv'
<1> DEFINE n == generation'[c]
<1>1. n \in Gens /\ n > generation[c]
  BY BoundAssumption DEF beginAttempt, generationLocked, TypeOK, Gens
<1>2. \A d \in Contexts :
        /\ generation'[d] = IF d = c THEN n ELSE generation[d]
        /\ stateGen'[d] = IF d = c THEN n ELSE stateGen[d]
  BY DEF beginAttempt, setState, TypeOK
<1>3. \A d \in Contexts, h \in Gens :
        attempt'[<<d, h>>] = IF d = c /\ h = n THEN "dialing" ELSE attempt[<<d, h>>]
  BY BeginsAttempt
<1>4. UNCHANGED <<session, conn, closing, stopped, dropped>>
  BY DEF beginAttempt, history
<1>5. \A d \in Contexts : generation[d] \in Nat /\ session[d] \in Nat /\ stopped[d] \in Nat /\ stateGen[d] \in Nat
  BY BoundAssumption DEF TypeOK
<1>6. attempt[<<c, n>>] = "none" /\ n \in Nat
  BY <1>1, <1>5, BoundAssumption DEF HeldInv, GenerationInv, Gens
<1> HIDE DEF n
<1>7. GenerationInv'
  BY <1>1, <1>2, <1>3, <1>4, <1>5, <1>6 DEF HeldInv, GenerationInv
<1>8. OpenedInv'
  BY <1>1, <1>2, <1>3, <1>4, <1>5, <1>6 DEF HeldInv, OpenedInv
<1>9. ClosingInv'
  BY <1>1, <1>2, <1>3, <1>4, <1>5, <1>6 DEF HeldInv, ClosingInv
<1>10. InstalledInv'
  BY <1>1, <1>2, <1>3, <1>4, <1>5, <1>6, SessionIsGen DEF HeldInv, InstalledInv
<1>11. StopIsFinal'
  BY <1>1, <1>2, <1>3, <1>4, <1>5, <1>6 DEF HeldInv, StopIsFinal
<1>12. InstalledIsOpen'
  BY <1>1, <1>2, <1>3, <1>4, <1>5, <1>6, SessionIsGen DEF HeldInv, InstalledIsOpen, InstalledInv
<1>13. NoLeakedSession'
  BY <1>1, <1>2, <1>3, <1>4, <1>5, <1>6 DEF HeldInv, NoLeakedSession
<1>14. QED
  BY <1>7, <1>8, <1>9, <1>10, <1>11, <1>12, <1>13 DEF HeldInv

\* failOpen of a current attempt deletes the entry of m.sessions.
LEMMA FailHeld ==
  ASSUME TypeOK, HeldInv, NEW c \in Contexts, NEW g \in Gens, failOpen(c, g)
  PROVE  HeldInv'
<1>1. /\ attempt[<<c, g>>] = "failing"
      /\ \A d \in Contexts, h \in Gens :
           attempt'[<<d, h>>] = IF d = c /\ h = g THEN "emit" ELSE attempt[<<d, h>>]
  BY PairUpdate DEF failOpen, TypeOK, Attempts
<1>2. \A d \in Contexts :
        /\ session'[d] = IF d = c /\ generation[c] = g THEN 0 ELSE session[d]
        /\ stateGen'[d] = IF d = c /\ generation[c] = g THEN g ELSE stateGen[d]
  BY DEF failOpen, stateVars, TypeOK
<1>3. UNCHANGED <<generation, conn, closing, stopped>>
  BY DEF failOpen
<1>4. \A d \in Contexts, h \in Gens :
        <<d, h>> \in dropped \/ (d = c /\ generation[c] = g /\ session[d] = h /\ h # 0) => <<d, h>> \in dropped'
  BY DEF failOpen, Installed
<1>5. \A d \in Contexts : generation[d] \in Nat
  BY BoundAssumption DEF TypeOK
<1>6. \A h \in Gens : h \in Nat \ {0}
  BY BoundAssumption DEF Gens
<1>7. GenerationInv'
  BY <1>1, <1>2, <1>3, <1>4, <1>5, <1>6 DEF HeldInv, GenerationInv
<1>8. OpenedInv'
  BY <1>1, <1>2, <1>3, <1>4, <1>5, <1>6 DEF HeldInv, OpenedInv
<1>9. ClosingInv'
  BY <1>1, <1>2, <1>3, <1>4, <1>5, <1>6 DEF HeldInv, ClosingInv
<1>10. InstalledInv'
  BY <1>1, <1>2, <1>3, <1>4, <1>5, <1>6, SessionIsGen DEF HeldInv, InstalledInv
<1>11. StopIsFinal'
  BY <1>1, <1>2, <1>3, <1>4, <1>5, <1>6 DEF HeldInv, StopIsFinal
<1>12. InstalledIsOpen'
  BY <1>1, <1>2, <1>3, <1>4, <1>5, <1>6, SessionIsGen DEF HeldInv, InstalledIsOpen, InstalledInv
<1>13. NoLeakedSession'
  BY <1>1, <1>2, <1>3, <1>4, <1>5, <1>6 DEF HeldInv, NoLeakedSession
<1>14. QED
  BY <1>7, <1>8, <1>9, <1>10, <1>11, <1>12, <1>13 DEF HeldInv

\* The end of open: the session of a current attempt goes in and the one it
\* replaces is closed; a late one is closed itself.
LEMMA InstallHeld ==
  ASSUME TypeOK, HeldInv, NEW c \in Contexts, NEW g \in Gens, Install(c, g)
  PROVE  HeldInv'
<1>1. /\ attempt[<<c, g>>] = "opened"
      /\ \A d \in Contexts, h \in Gens :
           attempt'[<<d, h>>] = IF d = c /\ h = g THEN "over" ELSE attempt[<<d, h>>]
  BY PairUpdate DEF Install, TypeOK, Attempts
<1>2. UNCHANGED <<generation, stopped, dropped>>
  BY DEF Install, history
<1>3. \A d \in Contexts :
        /\ session'[d] = IF d = c /\ generation[c] = g THEN g ELSE session[d]
        /\ stateGen'[d] = IF d = c /\ generation[c] = g THEN g ELSE stateGen[d]
  BY DEF Install, stateVars, setState, TypeOK
<1>4. \A d \in Contexts, h \in Gens :
        conn'[<<d, h>>] = IF d = c /\ h = session[c] /\ generation[c] = g THEN "closed" ELSE conn[<<d, h>>]
  BY DEF Install
<1>5. \A d \in Contexts, h \in Gens :
        <<d, h>> \in closing' <=> <<d, h>> \in closing \/ (d = c /\ h = g /\ generation[c] # g)
  BY DEF Install
<1>6. \A d \in Contexts : generation[d] \in Nat /\ stopped[d] \in Nat
  BY BoundAssumption DEF TypeOK
<1>7. \A h \in Gens : h \in Nat \ {0}
  BY BoundAssumption DEF Gens
<1>8. session[c] # g
  BY <1>1, <1>7 DEF HeldInv, InstalledInv
<1>9. GenerationInv'
  BY <1>1, <1>2, <1>3, <1>4, <1>5, <1>6, <1>7, <1>8 DEF HeldInv, GenerationInv
<1>10. OpenedInv'
  BY <1>1, <1>2, <1>3, <1>4, <1>5, <1>6, <1>7, <1>8 DEF HeldInv, OpenedInv, InstalledInv
<1>11. ClosingInv'
  BY <1>1, <1>2, <1>3, <1>4, <1>5, <1>6, <1>7, <1>8 DEF HeldInv, ClosingInv
<1>12. InstalledInv'
  BY <1>1, <1>2, <1>3, <1>4, <1>5, <1>6, <1>7, <1>8, SessionIsGen DEF HeldInv, InstalledInv, ClosingInv
<1>13. StopIsFinal'
  BY <1>1, <1>2, <1>3, <1>4, <1>5, <1>6, <1>7, <1>8 DEF HeldInv, StopIsFinal, GenerationInv
<1>14. InstalledIsOpen'
  BY <1>1, <1>2, <1>3, <1>4, <1>5, <1>6, <1>7, <1>8, SessionIsGen DEF HeldInv, InstalledIsOpen, InstalledInv, OpenedInv
<1>15. NoLeakedSession'
  BY <1>1, <1>2, <1>3, <1>4, <1>5, <1>6, <1>7, <1>8 DEF HeldInv, NoLeakedSession
<1>16. QED
  BY <1>9, <1>10, <1>11, <1>12, <1>13, <1>14, <1>15 DEF HeldInv

\* closeSession closes what nobody can reach.
LEMMA CloseHeld ==
  ASSUME TypeOK, HeldInv, NEW x \in closing, closeSession(x)
  PROVE  HeldInv'
<1>1. PICK c \in Contexts, g \in Gens : x = <<c, g>>
  BY DEF TypeOK
<1>2. \A d \in Contexts, h \in Gens :
        conn'[<<d, h>>] = IF d = c /\ h = g THEN "closed" ELSE conn[<<d, h>>]
  <2>1. conn \in [Contexts \X Gens -> {"none", "open", "closed"}]
    BY DEF TypeOK
  <2>2. conn' = [conn EXCEPT ![<<c, g>>] = "closed"]
    BY <1>1 DEF closeSession
  <2>3. QED
    BY <2>1, <2>2, PairUpdate
<1>3. \A d \in Contexts, h \in Gens :
        <<d, h>> \in closing' <=> <<d, h>> \in closing /\ ~(d = c /\ h = g)
  BY <1>1 DEF closeSession
<1>4. UNCHANGED <<generation, session, stateGen, attempt, stopped, dropped>>
  BY DEF closeSession, stateVars, history
<1>5. <<c, g>> \in closing
  BY <1>1
<1>6. GenerationInv'
  BY <1>2, <1>3, <1>4, <1>5 DEF HeldInv, GenerationInv
<1>7. OpenedInv'
  BY <1>2, <1>3, <1>4, <1>5 DEF HeldInv, OpenedInv, ClosingInv
<1>8. ClosingInv'
  BY <1>2, <1>3, <1>4, <1>5 DEF HeldInv, ClosingInv
<1>9. InstalledInv'
  BY <1>2, <1>3, <1>4, <1>5, SessionIsGen DEF HeldInv, InstalledInv
<1>10. StopIsFinal'
  BY <1>2, <1>3, <1>4, <1>5 DEF HeldInv, StopIsFinal
<1>11. InstalledIsOpen'
  BY <1>2, <1>3, <1>4, <1>5, SessionIsGen DEF HeldInv, InstalledIsOpen, InstalledInv
<1>12. NoLeakedSession'
  BY <1>2, <1>3, <1>4, <1>5 DEF HeldInv, NoLeakedSession
<1>13. QED
  BY <1>6, <1>7, <1>8, <1>9, <1>10, <1>11, <1>12 DEF HeldInv

----------------------------------------------------------------------------
\* What the manager and the tracker show.

\* Stop and StopContext show "offline" and say so.
LEMMA StopShown ==
  ASSUME TypeOK, ShownInv, NEW C \in SUBSET Contexts, StopContexts(C)
  PROVE  ShownInv'
<1>1. \A d \in Contexts :
        /\ status'[d] = IF d \in C THEN "offline" ELSE status[d]
        /\ generation'[d] = IF d \in C THEN generation[d] + 1 ELSE generation[d]
        /\ session'[d] = IF d \in C THEN 0 ELSE session[d]
        /\ stateGen'[d] = IF d \in C THEN generation'[d] ELSE stateGen[d]
  BY DEF StopContexts, nextGeneration, setState
<1>2. UNCHANGED <<attempt, late, blocked>> /\ (blocked => sftpActive' = sftpActive) /\ (~blocked => ~sftpActive')
  BY DEF StopContexts, setState, UpdateSFTP
<1>3. \A d \in Contexts : generation[d] # 0 => generation[d] \in Gens
  BY BoundAssumption DEF TypeOK, Gens
<1>4. BlockedInv'
  BY <1>1, <1>2, <1>3 DEF ShownInv, BlockedInv
<1>5. ConnectingInv'
  BY <1>1, <1>2, <1>3 DEF ShownInv, ConnectingInv
<1>6. ConnectingIsAttempted'
  BY <1>1, <1>2, <1>3 DEF ShownInv, ConnectingIsAttempted, ConnectingInv
<1>7. OnlineHasSession'
  BY <1>1, <1>2, <1>3 DEF ShownInv, OnlineHasSession
<1>8. NoGhostSftp'
  BY <1>1, <1>2, <1>3 DEF ShownInv, NoGhostSftp, BlockedInv
<1>9. QED
  BY <1>4, <1>5, <1>6, <1>7, <1>8 DEF ShownInv

\* A session that is taken out is shown as an error.
LEMMA DropShown ==
  ASSUME TypeOK, ShownInv, NEW c \in Contexts, dropSession(c)
  PROVE  ShownInv'
<1>1. \A d \in Contexts :
        /\ status'[d] = IF d = c THEN "error" ELSE status[d]
        /\ generation'[d] = IF d = c THEN generation[d] + 1 ELSE generation[d]
        /\ session'[d] = IF d = c THEN 0 ELSE session[d]
        /\ stateGen'[d] = IF d = c THEN generation'[d] ELSE stateGen[d]
  BY DEF dropSession, nextGeneration, setState, TypeOK
<1>2. UNCHANGED <<attempt, late, blocked>> /\ (blocked => sftpActive' = sftpActive) /\ (~blocked => ~sftpActive')
  BY DEF dropSession, setState, UpdateSFTP, history
<1>3. \A d \in Contexts : generation[d] # 0 => generation[d] \in Gens
  BY BoundAssumption DEF TypeOK, Gens
<1>4. BlockedInv'
  BY <1>1, <1>2, <1>3 DEF ShownInv, BlockedInv
<1>5. ConnectingInv'
  BY <1>1, <1>2, <1>3 DEF ShownInv, ConnectingInv
<1>6. ConnectingIsAttempted'
  BY <1>1, <1>2, <1>3 DEF ShownInv, ConnectingIsAttempted, ConnectingInv
<1>7. OnlineHasSession'
  BY <1>1, <1>2, <1>3 DEF ShownInv, OnlineHasSession
<1>8. NoGhostSftp'
  BY <1>1, <1>2, <1>3 DEF ShownInv, NoGhostSftp, BlockedInv
<1>9. QED
  BY <1>4, <1>5, <1>6, <1>7, <1>8 DEF ShownInv

\* open shows "connecting" with the attempt that it starts.
LEMMA BeginShown ==
  ASSUME TypeOK, ShownInv, NEW c \in Contexts, beginAttempt(c)
  PROVE  ShownInv'
<1> DEFINE n == generation'[c]
<1>1. n \in Gens
  BY BoundAssumption DEF beginAttempt, generationLocked, TypeOK, Gens
<1>2. \A d \in Contexts :
        /\ status'[d] = IF d = c THEN "connecting" ELSE status[d]
        /\ generation'[d] = IF d = c THEN n ELSE generation[d]
        /\ stateGen'[d] = IF d = c THEN n ELSE stateGen[d]
  BY DEF beginAttempt, setState, TypeOK
<1>3. \A d \in Contexts, h \in Gens :
        attempt'[<<d, h>>] = IF d = c /\ h = n THEN "dialing" ELSE attempt[<<d, h>>]
  BY BeginsAttempt
<1>4. UNCHANGED <<session, late, blocked>> /\ (blocked => sftpActive' = sftpActive)
  BY DEF beginAttempt, setState, UpdateSFTP, history
<1> HIDE DEF n
<1>5. n # 0
  BY <1>1, BoundAssumption DEF Gens
<1>6. \A d \in Contexts : generation[d] # 0 => generation[d] \in Gens
  BY BoundAssumption DEF TypeOK, Gens
<1>7. BlockedInv'
  BY <1>1, <1>2, <1>3, <1>4, <1>5, <1>6 DEF ShownInv, BlockedInv
<1>8. ConnectingInv'
  BY <1>1, <1>2, <1>3, <1>4, <1>5, <1>6 DEF ShownInv, ConnectingInv
<1>9. ConnectingIsAttempted'
  BY <1>1, <1>2, <1>3, <1>4, <1>5, <1>6 DEF ShownInv, ConnectingIsAttempted, ConnectingInv
<1>10. OnlineHasSession'
  BY <1>1, <1>2, <1>3, <1>4, <1>5, <1>6 DEF ShownInv, OnlineHasSession
<1>11. NoGhostSftp'
  BY <1>1, <1>2, <1>3, <1>4, <1>5, <1>6 DEF ShownInv, NoGhostSftp
<1>12. QED
  BY <1>7, <1>8, <1>9, <1>10, <1>11 DEF ShownInv

\* A dial that goes on, or fails, leaves what is shown.
LEMMA AttemptShown ==
  ASSUME TypeOK, ShownInv, NEW c \in Contexts, NEW g \in Gens, NEW v \in {"opened", "failing"},
         attempt[<<c, g>>] \in {"dialing", "opened"},
         \A d \in Contexts, h \in Gens :
            attempt'[<<d, h>>] = IF d = c /\ h = g THEN v ELSE attempt[<<d, h>>],
         UNCHANGED <<generation, session, status, stateGen, late, blocked, sftpActive>>
  PROVE  ShownInv'
<1>1. \A d \in Contexts : generation[d] # 0 => generation[d] \in Gens
  BY BoundAssumption DEF TypeOK, Gens
<1>2. BlockedInv'
  BY <1>1 DEF ShownInv, BlockedInv
<1>3. ConnectingInv'
  BY <1>1 DEF ShownInv, ConnectingInv
<1>4. ConnectingIsAttempted'
  BY <1>1 DEF ShownInv, ConnectingIsAttempted, ConnectingInv
<1>5. OnlineHasSession'
  BY <1>1 DEF ShownInv, OnlineHasSession
<1>6. NoGhostSftp'
  BY <1>1 DEF ShownInv, NoGhostSftp
<1>7. QED
  BY <1>2, <1>3, <1>4, <1>5, <1>6 DEF ShownInv

\* failOpen shows the error of a current attempt; its event follows.
LEMMA FailShown ==
  ASSUME TypeOK, ShownInv, NEW c \in Contexts, NEW g \in Gens, failOpen(c, g)
  PROVE  ShownInv'
<1>1. /\ attempt[<<c, g>>] = "failing"
      /\ \A d \in Contexts, h \in Gens :
           attempt'[<<d, h>>] = IF d = c /\ h = g THEN "emit" ELSE attempt[<<d, h>>]
  BY PairUpdate DEF failOpen, TypeOK, Attempts
<1>2. \A d \in Contexts :
        /\ session'[d] = IF d = c /\ generation[c] = g THEN 0 ELSE session[d]
        /\ status'[d] = IF d = c /\ generation[c] = g THEN "error" ELSE status[d]
        /\ stateGen'[d] = IF d = c /\ generation[c] = g THEN g ELSE stateGen[d]
  BY DEF failOpen, stateVars, TypeOK
<1>3. UNCHANGED <<generation, late, blocked, sftpActive>>
  BY DEF failOpen, trackVars
<1>4. \A d \in Contexts : generation[d] # 0 => generation[d] \in Gens
  BY BoundAssumption DEF TypeOK, Gens
<1>5. BlockedInv'
  BY <1>1, <1>2, <1>3, <1>4 DEF ShownInv, BlockedInv
<1>6. ConnectingInv'
  BY <1>1, <1>2, <1>3, <1>4 DEF ShownInv, ConnectingInv
<1>7. ConnectingIsAttempted'
  BY <1>1, <1>2, <1>3, <1>4 DEF ShownInv, ConnectingIsAttempted, ConnectingInv
<1>8. OnlineHasSession'
  BY <1>1, <1>2, <1>3, <1>4 DEF ShownInv, OnlineHasSession
<1>9. NoGhostSftp'
  BY <1>1, <1>2, <1>3, <1>4 DEF ShownInv, NoGhostSftp
<1>10. QED
  BY <1>5, <1>6, <1>7, <1>8, <1>9 DEF ShownInv

\* The event of a failure, current or not, takes the flag down.
LEMMA EmitShown ==
  ASSUME TypeOK, ShownInv, NEW c \in Contexts, NEW g \in Gens, EmitFailure(c, g)
  PROVE  ShownInv'
<1>1. /\ attempt[<<c, g>>] = "emit"
      /\ \A d \in Contexts, h \in Gens :
           attempt'[<<d, h>>] = IF d = c /\ h = g THEN "over" ELSE attempt[<<d, h>>]
  BY PairUpdate DEF EmitFailure, TypeOK, Attempts
<1>2. /\ UNCHANGED <<generation, session, status, stateGen, late, blocked>>
      /\ (blocked => sftpActive' = sftpActive) /\ (~blocked => ~sftpActive')
  BY DEF EmitFailure, UpdateSFTP, stateVars, history
<1>3. \A d \in Contexts : generation[d] # 0 => generation[d] \in Gens
  BY BoundAssumption DEF TypeOK, Gens
<1>4. BlockedInv'
  BY <1>1, <1>2, <1>3 DEF ShownInv, BlockedInv
<1>5. ConnectingInv'
  BY <1>1, <1>2, <1>3 DEF ShownInv, ConnectingInv
<1>6. ConnectingIsAttempted'
  BY <1>1, <1>2, <1>3 DEF ShownInv, ConnectingIsAttempted, ConnectingInv
<1>7. OnlineHasSession'
  BY <1>1, <1>2, <1>3 DEF ShownInv, OnlineHasSession
<1>8. NoGhostSftp'
  BY <1>1, <1>2, <1>3 DEF ShownInv, NoGhostSftp, BlockedInv
<1>9. QED
  BY <1>4, <1>5, <1>6, <1>7, <1>8 DEF ShownInv

\* The end of open shows a session that is there.
LEMMA InstallShown ==
  ASSUME TypeOK, ShownInv, NEW c \in Contexts, NEW g \in Gens, Install(c, g)
  PROVE  ShownInv'
<1>1. /\ attempt[<<c, g>>] = "opened"
      /\ \A d \in Contexts, h \in Gens :
           attempt'[<<d, h>>] = IF d = c /\ h = g THEN "over" ELSE attempt[<<d, h>>]
  BY PairUpdate DEF Install, TypeOK, Attempts
<1>2. UNCHANGED <<generation, late, blocked>>
  BY DEF Install, history
<1>3. \A d \in Contexts :
        /\ session'[d] = IF d = c /\ generation[c] = g THEN g ELSE session[d]
        /\ status'[d] = IF d = c /\ generation[c] = g THEN "online" ELSE status[d]
        /\ stateGen'[d] = IF d = c /\ generation[c] = g THEN g ELSE stateGen[d]
  BY DEF Install, stateVars, setState, TypeOK
<1>4. generation[c] # g \/ blocked => sftpActive' = sftpActive
  BY DEF Install, setState, UpdateSFTP
<1>5. g # 0
  BY BoundAssumption DEF Gens
<1>6. \A d \in Contexts : generation[d] # 0 => generation[d] \in Gens
  BY BoundAssumption DEF TypeOK, Gens
<1>7. BlockedInv'
  BY <1>1, <1>2, <1>3, <1>4, <1>5, <1>6 DEF ShownInv, BlockedInv
<1>8. ConnectingInv'
  BY <1>1, <1>2, <1>3, <1>4, <1>5, <1>6 DEF ShownInv, ConnectingInv
<1>9. ConnectingIsAttempted'
  BY <1>1, <1>2, <1>3, <1>4, <1>5, <1>6 DEF ShownInv, ConnectingIsAttempted, ConnectingInv
<1>10. OnlineHasSession'
  BY <1>1, <1>2, <1>3, <1>4, <1>5, <1>6 DEF ShownInv, OnlineHasSession
<1>11. NoGhostSftp'
  BY <1>1, <1>2, <1>3, <1>4, <1>5, <1>6 DEF ShownInv, NoGhostSftp
<1>12. QED
  BY <1>7, <1>8, <1>9, <1>10, <1>11 DEF ShownInv

\* A listing shows "online"; late tells when no session backs it.
LEMMA ListShown ==
  ASSUME TypeOK, ShownInv, NEW l \in Lists, ListApplies(l)
  PROVE  ShownInv'
<1> DEFINE c == list[l].c
<1>1. c \in Contexts
  BY DEF TypeOK, CallType
<1>2. \A d \in Contexts : status'[d] = IF d = c THEN "online" ELSE status[d]
  BY DEF ListApplies, TypeOK
<1>3. /\ UNCHANGED <<generation, session, stateGen, attempt, blocked>>
      /\ (blocked => sftpActive' = sftpActive)
  BY DEF ListApplies, UpdateSFTP
<1>4. late \subseteq late' /\ (session[c] = 0 => <<c, stateGen[c]>> \in late')
  BY DEF ListApplies
<1> HIDE DEF c
<1>5. \A d \in Contexts : generation[d] # 0 => generation[d] \in Gens
  BY BoundAssumption DEF TypeOK, Gens
<1>6. BlockedInv'
  BY <1>1, <1>2, <1>3, <1>4, <1>5 DEF ShownInv, BlockedInv
<1>7. ConnectingInv'
  BY <1>1, <1>2, <1>3, <1>4, <1>5 DEF ShownInv, ConnectingInv
<1>8. ConnectingIsAttempted'
  BY <1>1, <1>2, <1>3, <1>4, <1>5 DEF ShownInv, ConnectingIsAttempted, ConnectingInv
<1>9. OnlineHasSession'
  BY <1>1, <1>2, <1>3, <1>4, <1>5 DEF ShownInv, OnlineHasSession
<1>10. NoGhostSftp'
  BY <1>1, <1>2, <1>3, <1>4, <1>5 DEF ShownInv, NoGhostSftp
<1>11. QED
  BY <1>6, <1>7, <1>8, <1>9, <1>10 DEF ShownInv

----------------------------------------------------------------------------
\* Types.

CallsOK ==
  /\ list \in [Lists -> CallType({"idle", "reading", "checked"})]
  /\ reconnect \in [Reconnects -> CallType({"idle", "stopped", "reopened"})]

CoreOK ==
  /\ generation \in [Contexts -> 0..MaxGeneration]
  /\ session \in [Contexts -> 0..MaxGeneration]
  /\ status \in [Contexts -> {"none", "connecting", "online", "error", "offline"}]
  /\ stateGen \in [Contexts -> 0..MaxGeneration]
  /\ opening \subseteq Contexts
  /\ attempt \in [Contexts \X Gens -> Attempts]
  /\ conn \in [Contexts \X Gens -> {"none", "open", "closed"}]
  /\ closing \subseteq Contexts \X Gens
  /\ blocked \in BOOLEAN
  /\ sftpActive \in BOOLEAN
  /\ stopped \in [Contexts -> 0..MaxGeneration]
  /\ late \subseteq Contexts \X (0..MaxGeneration) /\ dropped \subseteq Contexts \X Gens

DiscOK == disconnect \in BOOLEAN /\ taken \subseteq Contexts \X Gens

\* The types of the manager, of the calls in progress and of Disconnect.
LEMMA TypeParts == TypeOK <=> CoreOK /\ CallsOK /\ DiscOK
BY DEF TypeOK, CoreOK, CallsOK, DiscOK

\* A new generation is within the bound.
LEMMA NextGeneration ==
  ASSUME CoreOK, NEW C \in SUBSET Contexts, nextGeneration(C)
  PROVE  generation' \in [Contexts -> 0..MaxGeneration]
BY BoundAssumption DEF CoreOK, nextGeneration

\* Installed sessions have a generation.
LEMMA InstalledType ==
  ASSUME CoreOK, NEW C \in SUBSET Contexts
  PROVE  Installed(C) \subseteq Contexts \X Gens
BY BoundAssumption DEF CoreOK, Installed, Gens

\* Stop and StopContext keep the types.
LEMMA StopTypes ==
  ASSUME CoreOK, NEW C \in SUBSET Contexts, StopContexts(C)
  PROVE  CoreOK'
<1>1. generation' \in [Contexts -> 0..MaxGeneration]
  BY NextGeneration DEF StopContexts
<1>2. closing' \subseteq Contexts \X Gens
  BY InstalledType DEF StopContexts, CoreOK
<1>3. QED
  BY <1>1, <1>2, BoundAssumption DEF StopContexts, setState, UpdateSFTP, CoreOK

\* A session that is dropped keeps the types.
LEMMA DropTypes ==
  ASSUME CoreOK, NEW c \in Contexts, dropSession(c)
  PROVE  CoreOK'
<1>1. generation' \in [Contexts -> 0..MaxGeneration]
  BY NextGeneration DEF dropSession
<1>2. closing' \subseteq Contexts \X Gens
  BY InstalledType DEF dropSession, CoreOK
<1>3. session' \in [Contexts -> 0..MaxGeneration]
  BY BoundAssumption DEF dropSession, CoreOK
<1>4. /\ status' \in [Contexts -> {"none", "connecting", "online", "error", "offline"}]
      /\ stateGen' \in [Contexts -> 0..MaxGeneration]
  BY <1>1 DEF dropSession, setState, CoreOK
<1>5. sftpActive' \in BOOLEAN
  BY DEF dropSession, setState, UpdateSFTP, CoreOK
<1>6. QED
  BY <1>1, <1>2, <1>3, <1>4, <1>5 DEF dropSession, CoreOK, history

\* The beginning of open keeps the types.
LEMMA BeginTypes ==
  ASSUME TypeOK, NEW c \in Contexts, beginAttempt(c), opening' \subseteq Contexts
  PROVE  CoreOK'
<1>1. CoreOK
  BY TypeParts
<1>2. generation' \in [Contexts -> 0..MaxGeneration]
  BY BoundAssumption, <1>1 DEF beginAttempt, generationLocked, CoreOK
<1>3. attempt' \in [Contexts \X Gens -> Attempts]
  BY BeginsAttempt
<1>4. QED
  BY <1>1, <1>2, <1>3 DEF beginAttempt, setState, UpdateSFTP, CoreOK, history

\* Every step keeps the types of the manager and of the tracker.
LEMMA CoreStep ==
  ASSUME TypeOK, [Next]_vars
  PROVE  CoreOK'
<1>0. CoreOK
  BY TypeParts
<1> USE BoundAssumption DEF stateVars, discVars, trackVars, history
<1>1. ASSUME NEW c \in Contexts, OpenSftp(c) PROVE CoreOK'
  BY <1>0, <1>1 DEF OpenSftp, CoreOK
<1>2. ASSUME NEW c \in Contexts, OpenNothing(c) PROVE CoreOK'
  BY <1>0, <1>2 DEF OpenNothing, CoreOK
<1>3. ASSUME NEW c \in Contexts, Open(c) PROVE CoreOK'
  BY <1>0, <1>3, BeginTypes DEF Open, CoreOK
<1>4. ASSUME NEW c \in Contexts, StopContext(c) PROVE CoreOK'
  BY <1>0, <1>4, StopTypes DEF StopContext
<1>5. ASSUME NEW c \in Contexts, handleKeepaliveFailure(c) PROVE CoreOK'
  BY <1>0, <1>5, DropTypes DEF handleKeepaliveFailure
<1>6. ASSUME NEW c \in Contexts, NEW g \in Gens, Dial(c, g) PROVE CoreOK'
  <2>1. attempt' \in [Contexts \X Gens -> Attempts]
    BY <1>0, <1>6, PairUpdate DEF Dial, CoreOK, Attempts
  <2>2. conn' \in [Contexts \X Gens -> {"none", "open", "closed"}]
    BY <1>0, <1>6, PairUpdate DEF Dial, CoreOK
  <2>3. QED
    BY <1>0, <1>6, <2>1, <2>2 DEF Dial, CoreOK
<1>7. ASSUME NEW c \in Contexts, NEW g \in Gens, AttemptFails(c, g) PROVE CoreOK'
  <2>1. attempt' \in [Contexts \X Gens -> Attempts]
    BY <1>0, <1>7, PairUpdate DEF AttemptFails, CoreOK, Attempts
  <2>2. conn' \in [Contexts \X Gens -> {"none", "open", "closed"}]
    BY <1>0, <1>7, PairUpdate DEF AttemptFails, CoreOK
  <2>3. QED
    BY <1>0, <1>7, <2>1, <2>2 DEF AttemptFails, CoreOK
<1>8. ASSUME NEW c \in Contexts, NEW g \in Gens, failOpen(c, g) PROVE CoreOK'
  <2>1. attempt' \in [Contexts \X Gens -> Attempts]
    BY <1>0, <1>8, PairUpdate DEF failOpen, CoreOK, Attempts
  <2>2. g \in 0..MaxGeneration /\ Installed({c}) \subseteq Contexts \X Gens
    BY <1>0, InstalledType DEF Gens
  <2>3. session' \in [Contexts -> 0..MaxGeneration]
    BY <1>0, <1>8 DEF failOpen, CoreOK
  <2>4. /\ status' \in [Contexts -> {"none", "connecting", "online", "error", "offline"}]
        /\ stateGen' \in [Contexts -> 0..MaxGeneration]
    BY <1>0, <1>8, <2>2 DEF failOpen, CoreOK
  <2>5. dropped' \subseteq Contexts \X Gens
    BY <1>0, <1>8, <2>2 DEF failOpen, CoreOK
  <2>6. QED
    BY <1>0, <1>8, <2>1, <2>3, <2>4, <2>5 DEF failOpen, CoreOK
<1>9. ASSUME NEW c \in Contexts, NEW g \in Gens, EmitFailure(c, g) PROVE CoreOK'
  <2>1. attempt' \in [Contexts \X Gens -> Attempts]
    BY <1>0, <1>9, PairUpdate DEF EmitFailure, CoreOK, Attempts
  <2>2. QED
    BY <1>0, <1>9, <2>1 DEF EmitFailure, UpdateSFTP, CoreOK
<1>10. ASSUME NEW c \in Contexts, NEW g \in Gens, Install(c, g) PROVE CoreOK'
  <2>1. attempt' \in [Contexts \X Gens -> Attempts]
    BY <1>0, <1>10, PairUpdate DEF Install, CoreOK, Attempts
  <2>2. g \in 0..MaxGeneration
    BY DEF Gens
  <2>3. conn' \in [Contexts \X Gens -> {"none", "open", "closed"}]
    BY <1>0, <1>10 DEF Install, CoreOK
  <2>4. session' \in [Contexts -> 0..MaxGeneration]
    BY <1>0, <1>10, <2>2 DEF Install, CoreOK
  <2>5. /\ status' \in [Contexts -> {"none", "connecting", "online", "error", "offline"}]
        /\ stateGen' \in [Contexts -> 0..MaxGeneration]
    BY <1>0, <1>10, <2>2 DEF Install, setState, CoreOK
  <2>6. closing' \subseteq Contexts \X Gens
    BY <1>0, <1>10 DEF Install, CoreOK
  <2>7. sftpActive' \in BOOLEAN
    <3>1. UNCHANGED sftpActive \/ UpdateSFTP("online")
      BY <1>10 DEF Install, setState
    <3>2. QED
      BY <1>0, <3>1 DEF UpdateSFTP, CoreOK
  <2>8. QED
    BY <1>0, <1>10, <2>1, <2>3, <2>4, <2>5, <2>6, <2>7 DEF Install, CoreOK
<1>11. ASSUME NEW c \in Contexts, NEW r \in Reconnects, Reconnect(r, c) PROVE CoreOK'
  BY <1>0, <1>11, StopTypes DEF Reconnect
<1>12. ASSUME NEW r \in Reconnects, Reopen(r) PROVE CoreOK'
  <2>1. reconnect[r].c \in Contexts
    BY DEF TypeOK, CallType
  <2>2. QED
    BY <1>0, <1>12, <2>1, BeginTypes DEF Reopen, CoreOK
<1>13. ASSUME NEW c \in Contexts, NEW l \in Lists, ListBegins(l, c) PROVE CoreOK'
  BY <1>0, <1>13 DEF ListBegins, CoreOK
<1>14. ASSUME NEW l \in Lists, ListFails(l) PROVE CoreOK'
  <2>1. list[l].c \in Contexts
    BY DEF TypeOK, CallType
  <2>2. CASE dropSession(list[l].c)
    BY <1>0, <2>1, <2>2, DropTypes
  <2>3. CASE ~dropSession(list[l].c)
    BY <1>0, <1>14, <2>3 DEF ListFails, CoreOK
  <2>4. QED
    BY <2>2, <2>3
<1>15. ASSUME NEW l \in Lists, ListChecks(l) PROVE CoreOK'
  BY <1>0, <1>15 DEF ListChecks, CoreOK
<1>16. ASSUME NEW l \in Lists, ListApplies(l) PROVE CoreOK'
  <2>1. list[l].c \in Contexts
    BY DEF TypeOK, CallType
  <2>2. late' \subseteq Contexts \X (0..MaxGeneration)
    BY <1>0, <1>16, <2>1 DEF ListApplies, CoreOK
  <2>3. QED
    BY <1>0, <1>16, <2>1, <2>2 DEF ListApplies, UpdateSFTP, CoreOK
<1>17. ASSUME NEW x \in closing, closeSession(x) PROVE CoreOK'
  <2>1. x \in Contexts \X Gens
    BY <1>0 DEF CoreOK
  <2>2. QED
    BY <1>0, <1>17, <2>1 DEF closeSession, CoreOK
<1>18. CASE CloseSftp
  BY <1>0, <1>18, StopTypes, ContextAssumption DEF CloseSftp, Stop, Known
<1>19. CASE DisconnectStop
  BY <1>0, <1>19, StopTypes, ContextAssumption DEF DisconnectStop, Stop, Known
<1>20. CASE CompleteDisconnect
  BY <1>0, <1>20 DEF CompleteDisconnect, CoreOK
<1>21. CASE UNCHANGED vars
  BY <1>0, <1>21 DEF vars, CoreOK
<1>22. QED
  BY <1>1, <1>2, <1>3, <1>4, <1>5, <1>6, <1>7, <1>8, <1>9, <1>10, <1>11, <1>12, <1>13, <1>14, <1>15, <1>16, <1>17, <1>18, <1>19, <1>20, <1>21 DEF Next, Attempt

\* Every step keeps the types of the calls in progress.
LEMMA CallsStep ==
  ASSUME TypeOK, [Next]_vars
  PROVE  CallsOK' /\ DiscOK'
<1>0. CallsOK /\ DiscOK
  BY TypeParts
<1>1. \A C \in SUBSET Contexts : Installed(C) \subseteq Contexts \X Gens
  BY TypeParts, InstalledType
<1> USE DEF discVars, trackVars
<1>2. ASSUME NEW c \in Contexts, NEW r \in Reconnects, Reconnect(r, c) PROVE CallsOK' /\ DiscOK'
  <2>1. session[c] \in 0..MaxGeneration
    BY DEF TypeOK
  <2>2. QED
    BY <1>0, <1>2, <2>1 DEF Reconnect, CallsOK, DiscOK, CallType
<1>3. ASSUME NEW r \in Reconnects, Reopen(r) PROVE CallsOK' /\ DiscOK'
  <2>1. reconnect[r].c \in Contexts
    BY <1>0 DEF CallsOK, CallType
  <2>2. generation'[reconnect[r].c] \in 0..MaxGeneration
    BY <1>3, <2>1, BeginsAttempt, BoundAssumption DEF Reopen, Gens
  <2>3. QED
    BY <1>0, <1>3, <2>2 DEF Reopen, beginAttempt, CallsOK, DiscOK, CallType
<1>4. ASSUME NEW c \in Contexts, NEW l \in Lists, ListBegins(l, c) PROVE CallsOK' /\ DiscOK'
  <2>1. session[c] \in 0..MaxGeneration
    BY DEF TypeOK
  <2>2. QED
    BY <1>0, <1>4, <2>1 DEF ListBegins, CallsOK, DiscOK, CallType
<1>5. Idle \in CallType({"idle", "reading", "checked"})
  BY ContextAssumption, BoundAssumption DEF Idle, CallType
<1>6. ASSUME NEW l \in Lists, ListFails(l) PROVE CallsOK' /\ DiscOK'
  BY <1>0, <1>5, <1>6 DEF ListFails, dropSession, CallsOK, DiscOK
<1>7. ASSUME NEW l \in Lists, ListChecks(l) PROVE CallsOK' /\ DiscOK'
  <2>1. list[l] \in CallType({"idle", "reading", "checked"})
    BY <1>0 DEF CallsOK
  <2>2. [list[l] EXCEPT !.phase = "checked"] \in CallType({"idle", "reading", "checked"})
    BY <2>1 DEF CallType
  <2>3. QED
    BY <1>0, <1>5, <1>7, <2>2 DEF ListChecks, CallsOK, DiscOK
<1>8. ASSUME NEW l \in Lists, ListApplies(l) PROVE CallsOK' /\ DiscOK'
  BY <1>0, <1>5, <1>8 DEF ListApplies, CallsOK, DiscOK
<1>9. CASE UNCHANGED <<list, reconnect>> /\ (UNCHANGED discVars \/ (disconnect' \in BOOLEAN /\ taken' \subseteq Contexts \X Gens))
  BY <1>0, <1>9 DEF CallsOK, DiscOK
<1>10. CASE DisconnectStop
  BY <1>0, <1>1, <1>10 DEF DisconnectStop, Stop, CallsOK, DiscOK
<1>11. CASE CompleteDisconnect
  BY <1>0, <1>11 DEF CompleteDisconnect, CallsOK, DiscOK
<1>12. QED
  BY <1>2, <1>3, <1>4, <1>6, <1>7, <1>8, <1>9, <1>10, <1>11
     DEF Next, Attempt, OpenSftp, OpenNothing, Open, beginAttempt, StopContext, handleKeepaliveFailure, dropSession,
         Dial, AttemptFails, failOpen, EmitFailure, Install, closeSession, CloseSftp, Stop, vars

\* Every step keeps the types.
LEMMA TypeStep == TypeOK /\ [Next]_vars => TypeOK'
<1>1. CoreOK' /\ CallsOK' /\ DiscOK' => TypeOK'
  BY TypeParts, PTL
<1>2. QED
  BY <1>1, CoreStep, CallsStep

----------------------------------------------------------------------------
\* The steps put together.

\* Every step keeps what the manager holds.
LEMMA HeldStep ==
  ASSUME TypeOK, HeldInv, [Next]_vars
  PROVE  HeldInv'
<1> DEFINE heldVars == <<generation, session, stateGen, stopped, attempt, conn, closing, dropped>>
<1>1. CASE UNCHANGED heldVars
  BY <1>1 DEF HeldInv, GenerationInv, OpenedInv, ClosingInv, InstalledInv, StopIsFinal, InstalledIsOpen,
              NoLeakedSession
<1>2. ASSUME NEW c \in Contexts, beginAttempt(c) PROVE HeldInv'
  BY <1>2, BeginHeld
<1>3. ASSUME NEW r \in Reconnects, Reopen(r) PROVE HeldInv'
  <2>1. reconnect[r].c \in Contexts
    BY DEF TypeOK, CallType
  <2>2. QED
    BY <1>3, <2>1, BeginHeld DEF Reopen
<1>4. ASSUME NEW C \in SUBSET Contexts, StopContexts(C) PROVE HeldInv'
  BY <1>4, StopHeld
<1>5. CASE Stop
  BY <1>5, StopHeld, ContextAssumption DEF Stop, Known
<1>6. ASSUME NEW c \in Contexts, dropSession(c) PROVE HeldInv'
  BY <1>6, DropHeld
<1>7. ASSUME NEW l \in Lists, ListFails(l) PROVE HeldInv'
  <2>1. list[l].c \in Contexts
    BY DEF TypeOK, CallType
  <2>2. dropSession(list[l].c) \/ UNCHANGED heldVars
    BY <1>7 DEF ListFails, stateVars, history
  <2>3. QED
    BY <1>1, <1>6, <2>1, <2>2
<1>8. ASSUME NEW c \in Contexts, NEW g \in Gens, Dial(c, g) PROVE HeldInv'
  <2>1. /\ attempt[<<c, g>>] = "dialing"
        /\ \A d \in Contexts, h \in Gens :
             attempt'[<<d, h>>] = IF d = c /\ h = g THEN "opened" ELSE attempt[<<d, h>>]
    BY <1>8, PairUpdate DEF Dial, TypeOK, Attempts
  <2>2. \A d \in Contexts, h \in Gens :
          conn'[<<d, h>>] = IF d = c /\ h = g THEN "open" ELSE conn[<<d, h>>]
    <3>1. conn \in [Contexts \X Gens -> {"none", "open", "closed"}]
      BY DEF TypeOK
    <3>2. conn' = [conn EXCEPT ![<<c, g>>] = "open"]
      BY <1>8 DEF Dial
    <3>3. QED
      BY <3>1, <3>2, PairUpdate
  <2>3. UNCHANGED <<generation, session, stateGen, stopped, closing, dropped>>
    BY <1>8 DEF Dial, stateVars, history
  <2>4. QED
    BY <2>1, <2>2, <2>3, AttemptHeld
<1>9. ASSUME NEW c \in Contexts, NEW g \in Gens, AttemptFails(c, g) PROVE HeldInv'
  <2> DEFINE w == IF conn[<<c, g>>] = "open" THEN "closed" ELSE conn[<<c, g>>]
  <2>1. /\ attempt[<<c, g>>] \in {"dialing", "opened"}
        /\ \A d \in Contexts, h \in Gens :
             attempt'[<<d, h>>] = IF d = c /\ h = g THEN "failing" ELSE attempt[<<d, h>>]
    BY <1>9, PairUpdate DEF AttemptFails, TypeOK, Attempts
  <2>2. \A d \in Contexts, h \in Gens :
          conn'[<<d, h>>] = IF d = c /\ h = g THEN w ELSE conn[<<d, h>>]
    <3>1. conn \in [Contexts \X Gens -> {"none", "open", "closed"}]
      BY DEF TypeOK
    <3>2. conn' = [conn EXCEPT ![<<c, g>>] = w] /\ w \in {"none", "open", "closed"}
      BY <1>9, <3>1 DEF AttemptFails
    <3> HIDE DEF w
    <3>3. QED
      BY <3>1, <3>2, PairUpdate
  <2>3. UNCHANGED <<generation, session, stateGen, stopped, closing, dropped>>
    BY <1>9 DEF AttemptFails, stateVars, history
  <2>4. w # "open"
    OBVIOUS
  <2> HIDE DEF w
  <2>5. QED
    BY <2>1, <2>2, <2>3, <2>4, AttemptHeld
<1>10. ASSUME NEW c \in Contexts, NEW g \in Gens, EmitFailure(c, g) PROVE HeldInv'
  <2>1. /\ attempt[<<c, g>>] = "emit"
        /\ \A d \in Contexts, h \in Gens :
             attempt'[<<d, h>>] = IF d = c /\ h = g THEN "over" ELSE attempt[<<d, h>>]
    BY <1>10, PairUpdate DEF EmitFailure, TypeOK, Attempts
  <2>2. UNCHANGED <<generation, session, stateGen, stopped, closing, dropped, conn>>
    BY <1>10 DEF EmitFailure, stateVars, history
  <2>3. QED
    BY <2>1, <2>2, AttemptHeld
<1>11. ASSUME NEW c \in Contexts, NEW g \in Gens, failOpen(c, g) PROVE HeldInv'
  BY <1>11, FailHeld
<1>12. ASSUME NEW c \in Contexts, NEW g \in Gens, Install(c, g) PROVE HeldInv'
  BY <1>12, InstallHeld
<1>13. ASSUME NEW x \in closing, closeSession(x) PROVE HeldInv'
  BY <1>13, CloseHeld
<1>14. ASSUME NEW l \in Lists, ListApplies(l) PROVE UNCHANGED heldVars
  BY <1>14 DEF ListApplies
<1>15. CASE CompleteDisconnect \/ UNCHANGED vars
  BY <1>1, <1>15 DEF CompleteDisconnect, vars, stateVars, history
<1>16. ASSUME NEW c \in Contexts, NEW l \in Lists, OpenSftp(c) \/ OpenNothing(c) \/ ListBegins(l, c) \/ ListChecks(l)
       PROVE  UNCHANGED heldVars
  BY <1>16 DEF OpenSftp, OpenNothing, ListBegins, ListChecks, stateVars, history
<1>17. ASSUME NEW c \in Contexts, OpenSftp(c) \/ OpenNothing(c) PROVE UNCHANGED heldVars
  BY <1>17 DEF OpenSftp, OpenNothing, stateVars, history
<1>18. QED
  BY <1>1, <1>2, <1>3, <1>4, <1>5, <1>6, <1>7, <1>8, <1>9, <1>10, <1>11, <1>12, <1>13, <1>14, <1>15, <1>16, <1>17,
     ContextAssumption
     DEF Next, Attempt, Open, StopContext, handleKeepaliveFailure, Reconnect, CloseSftp, DisconnectStop


\* Every step keeps what is shown.
LEMMA ShownStep ==
  ASSUME TypeOK, ShownInv, [Next]_vars
  PROVE  ShownInv'
<1> DEFINE shownVars == <<generation, session, status, stateGen, attempt, late, blocked, sftpActive>>
<1>1. CASE UNCHANGED shownVars
  BY <1>1 DEF ShownInv, BlockedInv, ConnectingInv, ConnectingIsAttempted, OnlineHasSession, NoGhostSftp
<1>2. ASSUME NEW c \in Contexts, beginAttempt(c) PROVE ShownInv'
  BY <1>2, BeginShown
<1>3. ASSUME NEW r \in Reconnects, Reopen(r) PROVE ShownInv'
  <2>1. reconnect[r].c \in Contexts
    BY DEF TypeOK, CallType
  <2>2. QED
    BY <1>3, <2>1, BeginShown DEF Reopen
<1>4. ASSUME NEW C \in SUBSET Contexts, StopContexts(C) PROVE ShownInv'
  BY <1>4, StopShown
<1>5. CASE Stop
  BY <1>5, StopShown, ContextAssumption DEF Stop, Known
<1>6. ASSUME NEW c \in Contexts, dropSession(c) PROVE ShownInv'
  BY <1>6, DropShown
<1>7. ASSUME NEW l \in Lists, ListFails(l) PROVE ShownInv'
  <2>1. list[l].c \in Contexts
    BY DEF TypeOK, CallType
  <2>2. dropSession(list[l].c) \/ UNCHANGED shownVars
    BY <1>7 DEF ListFails, stateVars, history, trackVars
  <2>3. QED
    BY <1>1, <1>6, <2>1, <2>2
<1>8. ASSUME NEW c \in Contexts, NEW g \in Gens, Dial(c, g) PROVE ShownInv'
  <2>1. /\ attempt[<<c, g>>] = "dialing"
        /\ \A d \in Contexts, h \in Gens :
             attempt'[<<d, h>>] = IF d = c /\ h = g THEN "opened" ELSE attempt[<<d, h>>]
    BY <1>8, PairUpdate DEF Dial, TypeOK, Attempts
  <2>2. UNCHANGED <<generation, session, status, stateGen, late, blocked, sftpActive>>
    BY <1>8 DEF Dial, stateVars, history, trackVars
  <2>3. QED
    BY <2>1, <2>2, AttemptShown
<1>9. ASSUME NEW c \in Contexts, NEW g \in Gens, AttemptFails(c, g) PROVE ShownInv'
  <2>1. /\ attempt[<<c, g>>] \in {"dialing", "opened"}
        /\ \A d \in Contexts, h \in Gens :
             attempt'[<<d, h>>] = IF d = c /\ h = g THEN "failing" ELSE attempt[<<d, h>>]
    BY <1>9, PairUpdate DEF AttemptFails, TypeOK, Attempts
  <2>2. UNCHANGED <<generation, session, status, stateGen, late, blocked, sftpActive>>
    BY <1>9 DEF AttemptFails, stateVars, history, trackVars
  <2>3. QED
    BY <2>1, <2>2, AttemptShown
<1>10. ASSUME NEW c \in Contexts, NEW g \in Gens, EmitFailure(c, g) PROVE ShownInv'
  BY <1>10, EmitShown
<1>11. ASSUME NEW c \in Contexts, NEW g \in Gens, failOpen(c, g) PROVE ShownInv'
  BY <1>11, FailShown
<1>12. ASSUME NEW c \in Contexts, NEW g \in Gens, Install(c, g) PROVE ShownInv'
  BY <1>12, InstallShown
<1>13. ASSUME NEW x \in closing, closeSession(x) PROVE UNCHANGED shownVars
  BY <1>13 DEF closeSession, stateVars, history, trackVars
<1>14. ASSUME NEW l \in Lists, ListApplies(l) PROVE ShownInv'
  BY <1>14, ListShown
<1>15. ASSUME NEW l \in Lists, ListChecks(l) PROVE UNCHANGED shownVars
  BY <1>15 DEF ListChecks, stateVars, history, trackVars
<1>16. ASSUME NEW c \in Contexts, NEW l \in Lists, ListBegins(l, c) PROVE UNCHANGED shownVars
  BY <1>16 DEF ListBegins, stateVars, history, trackVars
<1>17. ASSUME NEW c \in Contexts, OpenNothing(c) PROVE UNCHANGED shownVars
  BY <1>17 DEF OpenNothing, stateVars, history, trackVars
<1>18. ASSUME NEW c \in Contexts, OpenSftp(c) PROVE ShownInv'
  <2>1. UNCHANGED <<generation, session, status, stateGen, attempt, late, sftpActive>> /\ ~blocked'
    BY <1>18 DEF OpenSftp, stateVars, history
  <2>2. QED
    BY <2>1 DEF ShownInv, BlockedInv, ConnectingInv, ConnectingIsAttempted, OnlineHasSession, NoGhostSftp
<1>19. CASE CompleteDisconnect
  <2>1. UNCHANGED <<generation, session, status, stateGen, attempt, late>> /\ ~sftpActive'
    BY <1>19 DEF CompleteDisconnect, stateVars, history
  <2>2. QED
    BY <2>1 DEF ShownInv, BlockedInv, ConnectingInv, ConnectingIsAttempted, OnlineHasSession, NoGhostSftp
<1>20. CASE UNCHANGED vars
  BY <1>1, <1>20 DEF vars, stateVars, history, trackVars
<1>21. QED
  BY <1>1, <1>2, <1>3, <1>4, <1>5, <1>6, <1>7, <1>8, <1>9, <1>10, <1>11, <1>12, <1>13, <1>14, <1>15, <1>16, <1>17,
     <1>18, <1>19, <1>20
     DEF Next, Attempt, Open, StopContext, handleKeepaliveFailure, Reconnect, CloseSftp, DisconnectStop

\* No context shows an older generation than before.
Forward == \A d \in Contexts : stateGen'[d] >= stateGen[d]

\* The generation of what is shown never falls.
LEMMA GenerationStep ==
  ASSUME TypeOK, GenerationInv, [Next]_vars
  PROVE  Forward
<1> USE DEF Forward
<1>0. \A d \in Contexts : generation[d] \in Nat /\ stateGen[d] \in Nat /\ stateGen[d] <= generation[d]
  BY BoundAssumption DEF TypeOK, GenerationInv
<1>1. CASE UNCHANGED stateGen
  BY <1>0, <1>1
<1>2. ASSUME NEW c \in Contexts, beginAttempt(c) PROVE Forward
  <2>1. \A d \in Contexts : stateGen'[d] = IF d = c THEN generation'[d] ELSE stateGen[d]
    BY <1>2 DEF beginAttempt, setState, TypeOK
  <2>2. generation'[c] \in Nat /\ generation'[c] > generation[c]
    BY <1>0, <1>2 DEF beginAttempt, generationLocked, TypeOK
  <2>3. QED
    BY <1>0, <2>1, <2>2
<1>3. ASSUME NEW r \in Reconnects, Reopen(r) PROVE Forward
  <2>1. reconnect[r].c \in Contexts
    BY DEF TypeOK, CallType
  <2>2. QED
    BY <1>2, <1>3, <2>1 DEF Reopen
<1>4. ASSUME NEW C \in SUBSET Contexts, nextGeneration(C), NEW s, setState(C, s) PROVE Forward
  <2>1. \A d \in Contexts :
          /\ stateGen'[d] = IF d \in C THEN generation'[d] ELSE stateGen[d]
          /\ d \in C => generation'[d] = generation[d] + 1
    BY <1>4 DEF nextGeneration, setState
  <2>2. QED
    BY <1>0, <2>1
<1>5. ASSUME NEW C \in SUBSET Contexts, StopContexts(C) PROVE Forward
  BY <1>4, <1>5 DEF StopContexts
<1>6. CASE Stop
  BY <1>5, <1>6, ContextAssumption DEF Stop, Known
<1>7. ASSUME NEW c \in Contexts, dropSession(c) PROVE Forward
  BY <1>4, <1>7 DEF dropSession
<1>8. ASSUME NEW l \in Lists, ListFails(l) PROVE Forward
  <2>1. list[l].c \in Contexts
    BY DEF TypeOK, CallType
  <2>2. dropSession(list[l].c) \/ UNCHANGED stateGen
    BY <1>8 DEF ListFails, stateVars
  <2>3. QED
    BY <1>1, <1>7, <2>1, <2>2
<1>9. ASSUME NEW c \in Contexts, NEW g \in Gens, failOpen(c, g) PROVE Forward
  <2>1. \A d \in Contexts : stateGen'[d] = IF d = c /\ generation[c] = g THEN g ELSE stateGen[d]
    BY <1>9 DEF failOpen, stateVars, TypeOK
  <2>2. QED
    BY <1>0, <2>1
<1>10. ASSUME NEW c \in Contexts, NEW g \in Gens, Install(c, g) PROVE Forward
  <2>1. \A d \in Contexts : stateGen'[d] = IF d = c /\ generation[c] = g THEN g ELSE stateGen[d]
    BY <1>10 DEF Install, stateVars, setState, TypeOK
  <2>2. QED
    BY <1>0, <2>1
<1>11. ASSUME NEW c \in Contexts, NEW g \in Gens, Dial(c, g) \/ AttemptFails(c, g) \/ EmitFailure(c, g)
       PROVE  UNCHANGED stateGen
  BY <1>11 DEF Dial, AttemptFails, EmitFailure, stateVars
<1>12. ASSUME NEW x \in closing, closeSession(x) PROVE UNCHANGED stateGen
  BY <1>12 DEF closeSession, stateVars
<1>13. ASSUME NEW l \in Lists, ListApplies(l) \/ ListChecks(l) PROVE UNCHANGED stateGen
  BY <1>13 DEF ListApplies, ListChecks, stateVars
<1>14. ASSUME NEW c \in Contexts, NEW l \in Lists, ListBegins(l, c) PROVE UNCHANGED stateGen
  BY <1>14 DEF ListBegins, stateVars
<1>15. ASSUME NEW c \in Contexts, OpenNothing(c) \/ OpenSftp(c) PROVE UNCHANGED stateGen
  BY <1>15 DEF OpenNothing, OpenSftp, stateVars
<1>16. CASE CompleteDisconnect \/ UNCHANGED vars
  BY <1>1, <1>16 DEF CompleteDisconnect, vars, stateVars
<1> HIDE DEF Forward
<1>17. QED
  BY <1>1, <1>2, <1>3, <1>5, <1>6, <1>7, <1>8, <1>9, <1>10, <1>11, <1>12, <1>13, <1>14, <1>15, <1>16
     DEF Next, Attempt, Open, StopContext, handleKeepaliveFailure, Reconnect, CloseSftp, DisconnectStop

----------------------------------------------------------------------------
\* The theorems.

IndInv == TypeOK /\ HeldInv /\ ShownInv

\* The manager starts with nothing held and nothing shown.
LEMMA InitInv == Init => IndInv
<1> SUFFICES ASSUME Init PROVE IndInv
  OBVIOUS
<1> USE DEF Init
<1>1. TypeOK
  <2>1. 0 \in 0..MaxGeneration
    BY BoundAssumption
  <2>2. CoreOK /\ DiscOK
    BY <2>1 DEF CoreOK, DiscOK, Attempts
  <2>3. Idle \in CallType({"idle", "reading", "checked"}) /\ Idle \in CallType({"idle", "stopped", "reopened"})
    BY <2>1, ContextAssumption DEF CallType, Idle
  <2>4. CallsOK
    BY <2>3 DEF CallsOK
  <2>5. QED
    BY <2>2, <2>4, TypeParts
<1>2. GenerationInv /\ OpenedInv /\ ClosingInv /\ InstalledInv
  BY DEF GenerationInv, OpenedInv, ClosingInv, InstalledInv
<1>3. StopIsFinal /\ InstalledIsOpen /\ NoLeakedSession
  BY DEF StopIsFinal, InstalledIsOpen, NoLeakedSession
<1>4. ShownInv
  BY DEF ShownInv, BlockedInv, ConnectingInv, ConnectingIsAttempted, OnlineHasSession, NoGhostSftp
<1>5. QED
  BY <1>1, <1>2, <1>3, <1>4 DEF IndInv, HeldInv

\* The invariant is inductive.
LEMMA InvStep == IndInv /\ [Next]_vars => IndInv'
BY TypeStep, HeldStep, ShownStep DEF IndInv

\* IndInv holds in every state the manager can reach.
THEOREM Invariance == Spec => []IndInv
BY InitInv, InvStep, PTL DEF Spec

\* For any number of tabs, calls and generations: an open that Stop or StopContext has
\* overtaken is never installed, what activeSession hands out is open, and no client that a
\* dial opened is lost.
THEOREM SessionsSound == Spec => []SessionsAreSound
<1>1. IndInv => SessionsAreSound
  BY DEF IndInv, HeldInv, SessionsAreSound
<1>2. QED
  BY <1>1, Invariance, PTL

\* For any number of tabs: "connecting" has an attempt behind it, "online" a session (but for a
\* listing that was overtaken), and the flag of the server a tab or an event on its way.
THEOREM ShownBacked == Spec => []ShownIsBacked
<1>1. IndInv => ShownIsBacked
  BY DEF IndInv, ShownInv, ShownIsBacked
<1>2. QED
  BY <1>1, Invariance, PTL

\* Events of a tab are in the order of its generations: no late failure, stop or listing puts an
\* older state back (setStateLocked, failOpen).
THEOREM StateForward == Spec => StateNeverGoesBack
<1>1. IndInv /\ [Next]_vars => [\A c \in Contexts : stateGen'[c] >= stateGen[c]]_vars
  BY GenerationStep DEF IndInv, HeldInv, Forward
<1>2. QED
  BY <1>1, Invariance, PTL DEF Spec, StateNeverGoesBack
=============================================================================
