---------------------------- MODULE TerminalsProofs ----------------------------
(***************************************************************************)
(* Proofs about the two kinds of terminals, side by side as in             *)
(* MCTerminals, for every set of sessions, every capacity and any output:  *)
(* a process of a local terminal can be found and its end is shown         *)
(* (LocalTerminal), and an SSH terminal gives its output in order          *)
(* (TerminalIO).                                                           *)
(***************************************************************************)
EXTENDS MCTerminals, SequenceTheorems, TLAPS

----------------------------------------------------------------------------
\* The inductive invariant of local terminals.

\* A session whose Open goes on or succeeded is registered or being ended.
KnownInv ==
  \A s \in Sessions :
    /\ open[s] \in {"announce", "start", "mark", "show", "done"} =>
         s \in sessions \/ closer[s] \in {"mark", "kill"} \/ ~ctx[s]
    /\ closer[s] \in {"show", "over"} => ~ctx[s]
    /\ run[s] \notin {"no", "wait"} => ~ctx[s]
    /\ proc[s] = "alive" => open[s] \in {"mark", "show", "done"}

\* How far Open, run and closeSession have come with a session.
StageInv ==
  \A s \in Sessions :
    /\ closed[s] => closer[s] # "no"
    /\ run[s] # "no" => open[s] = "done"
    /\ closer[s] # "no" => open[s] = "done" \/ s \in early

\* Whoever ends a session leaves an end to be shown, and shows it.
EndInv ==
  \A s \in Sessions :
    /\ open[s] = "failed" => status[s] \in Local!Over /\ shown[s] \in Local!Over
    /\ closer[s] \in {"kill", "show", "over"} => status[s] \in Local!Over \/ s \in early
    /\ closer[s] = "over" => shown[s] \in Local!Over \/ s \in early
    /\ closer[s] = "no" /\ run[s] \in {"show", "remove", "done"} => status[s] \in Local!Over
    /\ closer[s] = "no" /\ run[s] \in {"remove", "done"} => shown[s] \in Local!Over

LocalInv == Local!TypeOK /\ KnownInv /\ StageInv /\ EndInv

----------------------------------------------------------------------------
\* The inductive invariant of the output of an SSH terminal.

\* Before there is a shell there is no output.
StartInv ==
  phase = "connect" => /\ io = {} /\ produced = 0
                       /\ held = <<>> /\ chunks = <<>> /\ batch = <<>> /\ emitted = <<>>

\* What emitBatches has emitted, its batch and the channel are one run of chunks ...
EmitInv ==
  "emit" \in io =>
    /\ \A i \in 1..Len(batch) : batch[i] = Len(emitted) + i
    /\ \A i \in 1..Len(chunks) : chunks[i] = Len(emitted) + Len(batch) + i

\* ... that goes on with what readShell holds and ends with the newest, as long
\* as both loops run.
ReadInv ==
  "emit" \in io /\ "read" \in io =>
    /\ produced = Len(emitted) + Len(batch) + Len(chunks) + Len(held)
    /\ \A i \in 1..Len(held) : held[i] = Len(emitted) + Len(batch) + Len(chunks) + i

OutputInv == IO!TypeOK /\ StartInv /\ EmitInv /\ ReadInv /\ IO!OutputIsPrefix

IndInv == LocalInv /\ OutputInv

----------------------------------------------------------------------------
\* Local terminals: one lemma per conjunct, one step per action.

\* Every step keeps the types.
LEMMA LocalTypeStep ==
  ASSUME Local!TypeOK, [Local!Next]_(Local!vars)
  PROVE  Local!TypeOK'
<1>1. CASE UNCHANGED <<platform, installed, open, status, shown, sessions, closed, ctx, pty, proc,
       run, loops, input, closer, early, writing, closeAll>>
  BY <1>1 DEF Local!TypeOK, Local!Over
<1>2. ASSUME NEW s \in Sessions, Local!Open(s) PROVE Local!TypeOK'
  BY <1>2
    DEF Local!Open, Local!TypeOK, Local!Over, Local!machine, Local!ioVars, Local!ptyVars,
      Local!writeRest, Local!closeRest
<1>3. ASSUME NEW s \in Sessions, Local!OpenEmits(s) PROVE Local!TypeOK'
  BY <1>3
    DEF Local!OpenEmits, Local!TypeOK, Local!Over, Local!machine, Local!ioVars, Local!ptyVars,
      Local!writeRest, Local!closeRest
<1>4. ASSUME NEW s \in Sessions, Local!FactoryStart(s) PROVE Local!TypeOK'
  BY <1>4
    DEF Local!FactoryStart, Local!TypeOK, Local!Over, Local!machine, Local!ioVars, Local!ptyVars,
      Local!writeRest, Local!closeRest
<1>5. ASSUME NEW s \in Sessions, Local!OpenFails(s) PROVE Local!TypeOK'
  BY <1>5
    DEF Local!OpenFails, Local!TypeOK, Local!Over, Local!machine, Local!ioVars, Local!ptyVars,
      Local!writeRest, Local!closeRest
<1>6. ASSUME NEW s \in Sessions, Local!OpenMarksRunning(s) PROVE Local!TypeOK'
  BY <1>6
    DEF Local!OpenMarksRunning, Local!TypeOK, Local!Over, Local!machine, Local!ioVars,
      Local!ptyVars, Local!writeRest, Local!closeRest
<1>7. ASSUME NEW s \in Sessions, Local!ContextDone(s) PROVE Local!TypeOK'
  BY <1>7
    DEF Local!ContextDone, Local!ClosePTY, Local!TypeOK, Local!Over, Local!machine, Local!ioVars,
      Local!ptyVars, Local!writeRest, Local!closeRest
<1>8. ASSUME NEW s \in Sessions, Local!ProcessExits(s) PROVE Local!TypeOK'
  BY <1>8
    DEF Local!ProcessExits, Local!TypeOK, Local!Over, Local!machine, Local!ioVars, Local!ptyVars,
      Local!writeRest, Local!closeRest
<1>9. ASSUME NEW s \in Sessions, Local!RunWaited(s) PROVE Local!TypeOK'
  BY <1>9
    DEF Local!RunWaited, Local!ClosePTY, Local!TypeOK, Local!Over, Local!machine, Local!ioVars,
      Local!ptyVars, Local!writeRest, Local!closeRest
<1>10. ASSUME NEW s \in Sessions, Local!RunJoined(s) PROVE Local!TypeOK'
  BY <1>10
    DEF Local!RunJoined, Local!TypeOK, Local!Over, Local!machine, Local!ioVars, Local!ptyVars,
      Local!writeRest, Local!closeRest
<1>11. ASSUME NEW s \in Sessions, Local!RunVerdict(s) PROVE Local!TypeOK'
  BY <1>11
    DEF Local!RunVerdict, Local!TypeOK, Local!Over, Local!machine, Local!ioVars, Local!ptyVars,
      Local!writeRest, Local!closeRest
<1>12. ASSUME NEW s \in Sessions, Local!RunEmits(s) PROVE Local!TypeOK'
  BY <1>12
    DEF Local!RunEmits, Local!TypeOK, Local!Over, Local!machine, Local!ioVars, Local!ptyVars,
      Local!writeRest, Local!closeRest
<1>13. ASSUME NEW s \in Sessions, Local!RunEnds(s) PROVE Local!TypeOK'
  BY <1>13
    DEF Local!RunEnds, Local!TypeOK, Local!Over, Local!machine, Local!ioVars, Local!ptyVars,
      Local!writeRest, Local!closeRest
<1>14. ASSUME NEW s \in Sessions, Local!readLoop(s) PROVE Local!TypeOK'
  BY <1>14
    DEF Local!readLoop, Local!TypeOK, Local!Over, Local!machine, Local!ioVars, Local!ptyVars,
      Local!writeRest, Local!closeRest
<1>15. ASSUME NEW s \in Sessions, Local!writeLoop(s) PROVE Local!TypeOK'
  <2>1. input \in [Sessions -> 0..QueueCap] /\ loops \in [Sessions -> SUBSET {"read", "write"}]
    BY DEF Local!TypeOK
  <2>2. input' \in [Sessions -> 0..QueueCap]
    <3>1. CASE UNCHANGED input
      BY <2>1, <3>1
    <3>2. CASE input[s] > 0 /\ input' = [input EXCEPT ![s] = @ - 1]
      <4>1. input[s] - 1 \in 0..QueueCap
        BY <2>1, <3>2, CapAssumption
      <4>2. QED
        BY <2>1, <3>2, <4>1
    <3>3. QED
      BY <3>1, <3>2, <1>15 DEF Local!writeLoop
  <2>3. loops' \in [Sessions -> SUBSET {"read", "write"}]
    BY <2>1, <1>15 DEF Local!writeLoop
  <2>4. QED
    BY <2>2, <2>3, <1>15 DEF Local!writeLoop, Local!TypeOK, Local!ptyVars, Local!machine
<1>16. ASSUME NEW s \in Sessions, Local!Close(s) PROVE Local!TypeOK'
  BY <1>16
    DEF Local!Close, Local!TypeOK, Local!Over, Local!machine, Local!ioVars, Local!ptyVars,
      Local!writeRest, Local!closeRest
<1>17. ASSUME NEW s \in Sessions, Local!CloseRemoves(s) PROVE Local!TypeOK'
  BY <1>17
    DEF Local!CloseRemoves, Local!TypeOK, Local!Over, Local!machine, Local!ioVars, Local!ptyVars,
      Local!writeRest, Local!closeRest
<1>18. ASSUME NEW s \in Sessions, Local!CloseMarks(s) PROVE Local!TypeOK'
  BY <1>18
    DEF Local!CloseMarks, Local!TypeOK, Local!Over, Local!machine, Local!ioVars, Local!ptyVars,
      Local!writeRest, Local!closeRest
<1>19. ASSUME NEW s \in Sessions, Local!CloseKills(s) PROVE Local!TypeOK'
  BY <1>19
    DEF Local!CloseKills, Local!ClosePTY, Local!TypeOK, Local!Over, Local!machine, Local!ioVars,
      Local!ptyVars, Local!writeRest, Local!closeRest
<1>20. ASSUME NEW s \in Sessions, Local!CloseEmits(s) PROVE Local!TypeOK'
  BY <1>20
    DEF Local!CloseEmits, Local!TypeOK, Local!Over, Local!machine, Local!ioVars, Local!ptyVars,
      Local!writeRest, Local!closeRest
<1>21. ASSUME NEW s \in Sessions, Local!CloseAllStep(s) PROVE Local!TypeOK'
  <2>1. /\ closed' \in [Sessions -> BOOLEAN]
        /\ closer' \in [Sessions -> {"no", "remove", "mark", "kill", "show", "over"}]
    <3>1. \/ closed' = [closed EXCEPT ![s] = TRUE] /\ closer' = [closer EXCEPT ![s] = "remove"]
          \/ UNCHANGED <<closed, closer>>
      BY <1>21 DEF Local!CloseAllStep
    <3>2. /\ closed \in [Sessions -> BOOLEAN]
          /\ closer \in [Sessions -> {"no", "remove", "mark", "kill", "show", "over"}]
      BY DEF Local!TypeOK
    <3>3. QED
      BY <3>1, <3>2
  <2>2. early' \subseteq Sessions /\ closeAll' \subseteq Sessions
    BY <1>21 DEF Local!CloseAllStep, Local!TypeOK
  <2>3. QED
    BY <2>1, <2>2, <1>21
      DEF Local!CloseAllStep, Local!TypeOK, Local!closeRest, Local!ioVars, Local!ptyVars, Local!machine
<1>22. ASSUME NEW w \in Writers, NEW s \in Sessions, Local!Write(w, s) PROVE Local!TypeOK'
  BY <1>22
    DEF Local!Write, Local!TypeOK, Local!Over, Local!machine, Local!ioVars, Local!ptyVars,
      Local!writeRest, Local!closeRest
<1>23. ASSUME NEW w \in Writers, NEW s \in Sessions, Local!WriteSends(w, s) PROVE Local!TypeOK'
  <2>1. input \in [Sessions -> 0..QueueCap] /\ writing \in [Writers -> SUBSET Sessions]
    BY DEF Local!TypeOK
  <2>2. input' \in [Sessions -> 0..QueueCap]
    <3>1. CASE UNCHANGED input
      BY <2>1, <3>1
    <3>2. CASE input[s] < QueueCap /\ input' = [input EXCEPT ![s] = @ + 1]
      <4>1. input[s] + 1 \in 0..QueueCap
        BY <2>1, <3>2, CapAssumption
      <4>2. QED
        BY <2>1, <3>2, <4>1
    <3>3. QED
      BY <3>1, <3>2, <1>23 DEF Local!WriteSends
  <2>3. writing' \in [Writers -> SUBSET Sessions]
    BY <2>1, <1>23 DEF Local!WriteSends
  <2>4. QED
    BY <2>2, <2>3, <1>23
      DEF Local!WriteSends, Local!TypeOK, Local!writeRest, Local!ptyVars, Local!machine
<1>24. CASE Local!CloseAll
  BY <1>24
    DEF Local!CloseAll, Local!TypeOK, Local!Over, Local!machine, Local!ioVars, Local!ptyVars,
      Local!writeRest, Local!closeRest
<1>25. CASE UNCHANGED Local!vars
  BY <1>1, <1>25
    DEF Local!vars, Local!machine, Local!ioVars, Local!ptyVars, Local!writeRest, Local!closeRest
<1>26. QED
  BY <1>1, <1>2, <1>3, <1>4, <1>5, <1>6, <1>7, <1>8, <1>9, <1>10, <1>11, <1>12, <1>13, <1>14, <1>15,
     <1>16, <1>17, <1>18, <1>19, <1>20, <1>21, <1>22, <1>23, <1>24, <1>25
    DEF Local!Next, Local!OpenStep, Local!RunStep, Local!CloseStep

\* Who takes a session out of the manager ends its process, or has found it dead.
LEMMA KnownStep ==
  ASSUME Local!TypeOK, KnownInv, StageInv, [Local!Next]_(Local!vars)
  PROVE  KnownInv'
<1>0. /\ open \in [Sessions -> {"no", "announce", "start", "fail", "mark", "show", "done", "failed"}]
      /\ closer \in [Sessions -> {"no", "remove", "mark", "kill", "show", "over"}]
      /\ run \in [Sessions -> {"no", "wait", "join", "verdict", "show", "remove", "done"}]
      /\ ctx \in [Sessions -> BOOLEAN]
      /\ proc \in [Sessions -> {"none", "alive", "dead", "stuck"}]
  BY DEF Local!TypeOK
<1>1. CASE UNCHANGED <<open, sessions, closer, ctx, run, proc>>
  BY <1>0, <1>1 DEF KnownInv
<1>2. ASSUME NEW s \in Sessions, Local!Open(s) PROVE KnownInv'
  BY <1>0, <1>2 DEF Local!Open, KnownInv, Local!ptyVars, Local!writeRest, Local!closeRest
<1>3. ASSUME NEW s \in Sessions, Local!OpenEmits(s) PROVE KnownInv'
  BY <1>0, <1>3 DEF Local!OpenEmits, KnownInv, Local!ptyVars, Local!writeRest, Local!closeRest
<1>4. ASSUME NEW s \in Sessions, Local!FactoryStart(s) PROVE KnownInv'
  BY <1>0, <1>4 DEF Local!FactoryStart, KnownInv, Local!ptyVars, Local!writeRest, Local!closeRest
<1>5. ASSUME NEW s \in Sessions, Local!OpenFails(s) PROVE KnownInv'
  BY <1>0, <1>5 DEF Local!OpenFails, KnownInv, Local!ptyVars, Local!writeRest, Local!closeRest
<1>6. ASSUME NEW s \in Sessions, Local!OpenMarksRunning(s) PROVE KnownInv'
  BY <1>0, <1>6
    DEF Local!OpenMarksRunning, KnownInv, Local!ptyVars, Local!writeRest, Local!closeRest
<1>7. ASSUME NEW s \in Sessions, Local!ContextDone(s) PROVE KnownInv'
  BY <1>0, <1>7
    DEF Local!ContextDone, Local!ClosePTY, KnownInv, Local!ptyVars, Local!writeRest, Local!closeRest
<1>8. ASSUME NEW s \in Sessions, Local!ProcessExits(s) PROVE KnownInv'
  BY <1>0, <1>8 DEF Local!ProcessExits, KnownInv, Local!ptyVars, Local!writeRest, Local!closeRest
<1>9. ASSUME NEW s \in Sessions, Local!RunWaited(s) PROVE KnownInv'
  BY <1>0, <1>9
    DEF Local!RunWaited, Local!ClosePTY, KnownInv, Local!ptyVars, Local!writeRest, Local!closeRest
<1>10. ASSUME NEW s \in Sessions, Local!RunJoined(s) PROVE KnownInv'
  BY <1>0, <1>10 DEF Local!RunJoined, KnownInv, Local!ptyVars, Local!writeRest, Local!closeRest
<1>11. ASSUME NEW s \in Sessions, Local!RunVerdict(s) PROVE KnownInv'
  BY <1>0, <1>11 DEF Local!RunVerdict, KnownInv, Local!ptyVars, Local!writeRest, Local!closeRest
<1>12. ASSUME NEW s \in Sessions, Local!RunEmits(s) PROVE KnownInv'
  BY <1>0, <1>12 DEF Local!RunEmits, KnownInv, Local!ptyVars, Local!writeRest, Local!closeRest
<1>13. ASSUME NEW s \in Sessions, Local!RunEnds(s) PROVE KnownInv'
  BY <1>0, <1>13 DEF Local!RunEnds, KnownInv, Local!ptyVars, Local!writeRest, Local!closeRest
<1>14. ASSUME NEW s \in Sessions, Local!Close(s) PROVE KnownInv'
  BY <1>0, <1>14 DEF Local!Close, KnownInv, Local!ptyVars, Local!writeRest, Local!closeRest
<1>15. ASSUME NEW s \in Sessions, Local!CloseRemoves(s) PROVE KnownInv'
  BY <1>0, <1>15 DEF Local!CloseRemoves, KnownInv, Local!ptyVars, Local!writeRest, Local!closeRest
<1>16. ASSUME NEW s \in Sessions, Local!CloseMarks(s) PROVE KnownInv'
  BY <1>0, <1>16 DEF Local!CloseMarks, KnownInv, Local!ptyVars, Local!writeRest, Local!closeRest
<1>17. ASSUME NEW s \in Sessions, Local!CloseKills(s) PROVE KnownInv'
  BY <1>0, <1>17
    DEF Local!CloseKills, Local!ClosePTY, KnownInv, Local!ptyVars, Local!writeRest, Local!closeRest
<1>18. ASSUME NEW s \in Sessions, Local!CloseEmits(s) PROVE KnownInv'
  BY <1>0, <1>18 DEF Local!CloseEmits, KnownInv, Local!ptyVars, Local!writeRest, Local!closeRest
<1>19. ASSUME NEW s \in Sessions, Local!CloseAllStep(s) PROVE KnownInv'
  BY <1>0, <1>19 DEF Local!CloseAllStep, KnownInv, Local!ptyVars, Local!writeRest, Local!closeRest
<1>20. ASSUME NEW s \in Sessions,
          Local!readLoop(s) \/ Local!writeLoop(s)
       PROVE  UNCHANGED <<open, sessions, closer, ctx, run, proc>>
  BY <1>20 DEF Local!readLoop, Local!writeLoop, Local!ptyVars, Local!writeRest, Local!closeRest
<1>21. ASSUME NEW w \in Writers, NEW s \in Sessions,
          Local!Write(w, s) \/ Local!WriteSends(w, s)
       PROVE  UNCHANGED <<open, sessions, closer, ctx, run, proc>>
  BY <1>21 DEF Local!Write, Local!WriteSends, Local!ptyVars, Local!writeRest, Local!closeRest
<1>22. CASE Local!CloseAll \/ UNCHANGED Local!vars
  BY <1>1, <1>22 DEF Local!CloseAll, Local!vars, Local!ptyVars, Local!writeRest, Local!closeRest
<1>23. QED
  BY <1>1, <1>2, <1>3, <1>4, <1>5, <1>6, <1>7, <1>8, <1>9, <1>10, <1>11, <1>12, <1>13, <1>14, <1>15,
     <1>16, <1>17, <1>18, <1>19, <1>20, <1>21, <1>22
    DEF Local!Next, Local!OpenStep, Local!RunStep, Local!CloseStep

\* run starts last in Open; closeSession sets the flag first.
LEMMA StageStep ==
  ASSUME Local!TypeOK, StageInv, [Local!Next]_(Local!vars)
  PROVE  StageInv'
<1>0. /\ open \in [Sessions -> {"no", "announce", "start", "fail", "mark", "show", "done", "failed"}]
      /\ closer \in [Sessions -> {"no", "remove", "mark", "kill", "show", "over"}]
      /\ run \in [Sessions -> {"no", "wait", "join", "verdict", "show", "remove", "done"}]
      /\ closed \in [Sessions -> BOOLEAN]
  BY DEF Local!TypeOK
<1>1. CASE UNCHANGED <<open, closed, closer, run, early>>
  BY <1>0, <1>1 DEF StageInv
<1>2. ASSUME NEW s \in Sessions, Local!Open(s) PROVE StageInv'
  BY <1>0, <1>2 DEF Local!Open, StageInv, Local!writeRest, Local!closeRest
<1>3. ASSUME NEW s \in Sessions, Local!OpenEmits(s) PROVE StageInv'
  BY <1>0, <1>3 DEF Local!OpenEmits, StageInv, Local!writeRest, Local!closeRest
<1>4. ASSUME NEW s \in Sessions, Local!FactoryStart(s) PROVE StageInv'
  BY <1>0, <1>4 DEF Local!FactoryStart, StageInv, Local!writeRest, Local!closeRest
<1>5. ASSUME NEW s \in Sessions, Local!OpenFails(s) PROVE StageInv'
  BY <1>0, <1>5 DEF Local!OpenFails, StageInv, Local!writeRest, Local!closeRest
<1>6. ASSUME NEW s \in Sessions, Local!OpenMarksRunning(s) PROVE StageInv'
  BY <1>0, <1>6 DEF Local!OpenMarksRunning, StageInv, Local!writeRest, Local!closeRest
<1>7. ASSUME NEW s \in Sessions, Local!RunWaited(s) PROVE StageInv'
  BY <1>0, <1>7 DEF Local!RunWaited, Local!ClosePTY, StageInv, Local!writeRest, Local!closeRest
<1>8. ASSUME NEW s \in Sessions, Local!RunJoined(s) PROVE StageInv'
  BY <1>0, <1>8 DEF Local!RunJoined, StageInv, Local!writeRest, Local!closeRest
<1>9. ASSUME NEW s \in Sessions, Local!RunVerdict(s) PROVE StageInv'
  BY <1>0, <1>9 DEF Local!RunVerdict, StageInv, Local!writeRest, Local!closeRest
<1>10. ASSUME NEW s \in Sessions, Local!RunEmits(s) PROVE StageInv'
  BY <1>0, <1>10 DEF Local!RunEmits, StageInv, Local!writeRest, Local!closeRest
<1>11. ASSUME NEW s \in Sessions, Local!RunEnds(s) PROVE StageInv'
  BY <1>0, <1>11 DEF Local!RunEnds, StageInv, Local!writeRest, Local!closeRest
<1>12. ASSUME NEW s \in Sessions, Local!Close(s) PROVE StageInv'
  BY <1>0, <1>12 DEF Local!Close, StageInv, Local!writeRest, Local!closeRest
<1>13. ASSUME NEW s \in Sessions, Local!CloseRemoves(s) PROVE StageInv'
  BY <1>0, <1>13 DEF Local!CloseRemoves, StageInv, Local!writeRest, Local!closeRest
<1>14. ASSUME NEW s \in Sessions, Local!CloseMarks(s) PROVE StageInv'
  BY <1>0, <1>14 DEF Local!CloseMarks, StageInv, Local!writeRest, Local!closeRest
<1>15. ASSUME NEW s \in Sessions, Local!CloseKills(s) PROVE StageInv'
  BY <1>0, <1>15 DEF Local!CloseKills, Local!ClosePTY, StageInv, Local!writeRest, Local!closeRest
<1>16. ASSUME NEW s \in Sessions, Local!CloseEmits(s) PROVE StageInv'
  BY <1>0, <1>16 DEF Local!CloseEmits, StageInv, Local!writeRest, Local!closeRest
<1>17. ASSUME NEW s \in Sessions, Local!CloseAllStep(s) PROVE StageInv'
  BY <1>0, <1>17 DEF Local!CloseAllStep, StageInv, Local!writeRest, Local!closeRest
<1>18. ASSUME NEW s \in Sessions,
          Local!ContextDone(s) \/ Local!ProcessExits(s)
          \/ Local!readLoop(s) \/ Local!writeLoop(s)
       PROVE  UNCHANGED <<open, closed, closer, run, early>>
  BY <1>18
    DEF Local!ContextDone, Local!ProcessExits, Local!readLoop, Local!writeLoop, Local!ClosePTY,
      Local!writeRest, Local!closeRest
<1>19. ASSUME NEW w \in Writers, NEW s \in Sessions,
          Local!Write(w, s) \/ Local!WriteSends(w, s)
       PROVE  UNCHANGED <<open, closed, closer, run, early>>
  BY <1>19 DEF Local!Write, Local!WriteSends, Local!writeRest, Local!closeRest
<1>20. CASE Local!CloseAll \/ UNCHANGED Local!vars
  BY <1>1, <1>20 DEF Local!CloseAll, Local!vars, Local!writeRest, Local!closeRest
<1>21. QED
  BY <1>1, <1>2, <1>3, <1>4, <1>5, <1>6, <1>7, <1>8, <1>9, <1>10, <1>11, <1>12, <1>13, <1>14, <1>15,
     <1>16, <1>17, <1>18, <1>19, <1>20
    DEF Local!Next, Local!OpenStep, Local!RunStep, Local!CloseStep

\* The last status that is shown is one of a session that is over.
LEMMA EndStep ==
  ASSUME Local!TypeOK, EndInv, StageInv, [Local!Next]_(Local!vars)
  PROVE  EndInv'
<1>0. /\ open \in [Sessions -> {"no", "announce", "start", "fail", "mark", "show", "done", "failed"}]
      /\ closer \in [Sessions -> {"no", "remove", "mark", "kill", "show", "over"}]
      /\ run \in [Sessions -> {"no", "wait", "join", "verdict", "show", "remove", "done"}]
      /\ status \in [Sessions -> {"none", "starting", "running"} \cup Local!Over]
      /\ shown \in [Sessions -> {"none", "starting", "running"} \cup Local!Over]
  BY DEF Local!TypeOK
<1>1. CASE UNCHANGED <<open, status, shown, closer, run, early>>
  BY <1>0, <1>1 DEF EndInv, Local!Over
<1>2. ASSUME NEW s \in Sessions, Local!Open(s) PROVE EndInv'
  BY <1>0, <1>2 DEF Local!Open, StageInv, EndInv, Local!Over, Local!closeRest
<1>3. ASSUME NEW s \in Sessions, Local!OpenEmits(s) PROVE EndInv'
  BY <1>0, <1>3 DEF Local!OpenEmits, EndInv, Local!Over, Local!writeRest, Local!closeRest
<1>4. ASSUME NEW s \in Sessions, Local!FactoryStart(s) PROVE EndInv'
  BY <1>0, <1>4 DEF Local!FactoryStart, EndInv, Local!Over, Local!writeRest, Local!closeRest
<1>5. ASSUME NEW s \in Sessions, Local!OpenFails(s) PROVE EndInv'
  BY <1>0, <1>5 DEF Local!OpenFails, EndInv, Local!Over, Local!writeRest, Local!closeRest
<1>6. ASSUME NEW s \in Sessions, Local!OpenMarksRunning(s) PROVE EndInv'
  BY <1>0, <1>6 DEF Local!OpenMarksRunning, StageInv, EndInv, Local!Over, Local!closeRest
<1>7. ASSUME NEW s \in Sessions, Local!RunWaited(s) PROVE EndInv'
  BY <1>0, <1>7
    DEF Local!RunWaited, Local!ClosePTY, EndInv, Local!Over, Local!writeRest, Local!closeRest
<1>8. ASSUME NEW s \in Sessions, Local!RunJoined(s) PROVE EndInv'
  BY <1>0, <1>8 DEF Local!RunJoined, StageInv, EndInv, Local!Over, Local!closeRest
<1>9. ASSUME NEW s \in Sessions, Local!RunVerdict(s) PROVE EndInv'
  BY <1>0, <1>9 DEF Local!RunVerdict, EndInv, Local!Over, Local!writeRest, Local!closeRest
<1>10. ASSUME NEW s \in Sessions, Local!RunEmits(s) PROVE EndInv'
  BY <1>0, <1>10 DEF Local!RunEmits, EndInv, Local!Over, Local!writeRest, Local!closeRest
<1>11. ASSUME NEW s \in Sessions, Local!RunEnds(s) PROVE EndInv'
  BY <1>0, <1>11 DEF Local!RunEnds, EndInv, Local!Over, Local!writeRest, Local!closeRest
<1>12. ASSUME NEW s \in Sessions, Local!Close(s) PROVE EndInv'
  BY <1>0, <1>12 DEF Local!Close, EndInv, Local!Over, Local!writeRest, Local!closeRest
<1>13. ASSUME NEW s \in Sessions, Local!CloseRemoves(s) PROVE EndInv'
  BY <1>0, <1>13 DEF Local!CloseRemoves, EndInv, Local!Over, Local!writeRest, Local!closeRest
<1>14. ASSUME NEW s \in Sessions, Local!CloseMarks(s) PROVE EndInv'
  BY <1>0, <1>14 DEF Local!CloseMarks, EndInv, Local!Over, Local!writeRest, Local!closeRest
<1>15. ASSUME NEW s \in Sessions, Local!CloseKills(s) PROVE EndInv'
  BY <1>0, <1>15
    DEF Local!CloseKills, Local!ClosePTY, EndInv, Local!Over, Local!writeRest, Local!closeRest
<1>16. ASSUME NEW s \in Sessions, Local!CloseEmits(s) PROVE EndInv'
  BY <1>0, <1>16 DEF Local!CloseEmits, EndInv, Local!Over, Local!writeRest, Local!closeRest
<1>17. ASSUME NEW s \in Sessions, Local!CloseAllStep(s) PROVE EndInv'
  BY <1>0, <1>17 DEF Local!CloseAllStep, EndInv, Local!Over, Local!writeRest, Local!closeRest
<1>18. ASSUME NEW s \in Sessions,
          Local!ContextDone(s) \/ Local!ProcessExits(s)
          \/ Local!readLoop(s) \/ Local!writeLoop(s)
       PROVE  UNCHANGED <<open, status, shown, closer, run, early>>
  BY <1>18
    DEF Local!ContextDone, Local!ProcessExits, Local!readLoop, Local!writeLoop, Local!ClosePTY,
      Local!writeRest, Local!closeRest
<1>19. ASSUME NEW w \in Writers, NEW s \in Sessions,
          Local!Write(w, s) \/ Local!WriteSends(w, s)
       PROVE  UNCHANGED <<open, status, shown, closer, run, early>>
  BY <1>19 DEF Local!Write, Local!WriteSends, Local!writeRest, Local!closeRest
<1>20. CASE Local!CloseAll \/ UNCHANGED Local!vars
  BY <1>1, <1>20 DEF Local!CloseAll, Local!vars, Local!writeRest, Local!closeRest
<1>21. QED
  BY <1>1, <1>2, <1>3, <1>4, <1>5, <1>6, <1>7, <1>8, <1>9, <1>10, <1>11, <1>12, <1>13, <1>14, <1>15,
     <1>16, <1>17, <1>18, <1>19, <1>20
    DEF Local!Next, Local!OpenStep, Local!RunStep, Local!CloseStep

----------------------------------------------------------------------------
\* The output of an SSH terminal.

\* Two sequences, one after the other.
LEMMA Joined ==
  ASSUME NEW s \in Seq(Nat), NEW t \in Seq(Nat)
  PROVE  /\ s \o t \in Seq(Nat) /\ Len(s \o t) = Len(s) + Len(t)
         /\ \A i \in 1..(Len(s) + Len(t)) : (s \o t)[i] = IF i <= Len(s) THEN s[i] ELSE t[i - Len(s)]
BY ConcatProperties

\* What EmitChunk does with the first chunk of the channel.
LEMMA ChunkEffect ==
  ASSUME IO!TypeOK, IO!EmitChunk
  PROVE  /\ chunks' \in Seq(Nat) /\ batch' \in Seq(Nat) /\ emitted' \in Seq(Nat)
         /\ Len(chunks) > 0 /\ Len(chunks') = Len(chunks) - 1
         /\ \A i \in 1..Len(chunks') : chunks'[i] = chunks[i + 1]
         /\ \/ /\ emitted' = emitted /\ Len(batch) < BatchCap
               /\ Len(batch') = Len(batch) + 1
               /\ \A i \in 1..Len(batch) : batch'[i] = batch[i]
               /\ batch'[Len(batch) + 1] = chunks[1]
            \/ /\ emitted' = emitted \o batch
               /\ Len(batch') = 1 /\ batch'[1] = chunks[1]
<1>1. /\ chunks \in Seq(Nat) /\ batch \in Seq(Nat) /\ emitted \in Seq(Nat)
      /\ chunks # <<>> /\ chunks' = Tail(chunks)
  BY DEF IO!TypeOK, IO!EmitChunk
<1>2. /\ chunks' \in Seq(Nat) /\ Len(chunks') = Len(chunks) - 1 /\ Len(chunks) > 0
      /\ \A i \in 1..Len(chunks') : chunks'[i] = chunks[i + 1]
      /\ Head(chunks) = chunks[1] /\ Head(chunks) \in Nat
  BY <1>1, HeadTailProperties
<1>3. CASE Len(batch) < BatchCap
  <2>1. batch' = Append(batch, Head(chunks)) /\ emitted' = emitted
    BY <1>3 DEF IO!EmitChunk
  <2>2. /\ batch' \in Seq(Nat) /\ Len(batch') = Len(batch) + 1
        /\ \A i \in 1..Len(batch) : batch'[i] = batch[i]
        /\ batch'[Len(batch) + 1] = chunks[1]
    BY <1>1, <1>2, <2>1, AppendProperties
  <2>3. QED
    BY <1>1, <1>2, <1>3, <2>1, <2>2
<1>4. CASE ~(Len(batch) < BatchCap)
  <2>1. batch' = <<Head(chunks)>> /\ emitted' = emitted \o batch
    BY <1>4 DEF IO!EmitChunk
  <2>2. batch' \in Seq(Nat) /\ Len(batch') = 1 /\ batch'[1] = chunks[1]
    BY <1>2, <2>1
  <2>3. QED
    BY <1>1, <1>2, <2>1, <2>2, Joined
<1>5. QED
  BY <1>3, <1>4

\* What readShell holds goes to the end of the channel.
LEMMA ReadEffect ==
  ASSUME IO!TypeOK, IO!readShell
  PROVE  \/ chunks' = chunks /\ held' = <<>> /\ "read" \notin io'
         \/ /\ held' = <<>> /\ io' = io /\ Len(held) = 1 /\ Len(chunks) < ChunkCap
            /\ chunks' \in Seq(Nat) /\ Len(chunks') = Len(chunks) + 1
            /\ \A i \in 1..Len(chunks) : chunks'[i] = chunks[i]
            /\ chunks'[Len(chunks) + 1] = held[1]
<1>1. held \in Seq(Nat) /\ chunks \in Seq(Nat) /\ Len(held) <= 1
  BY DEF IO!TypeOK
<1>2. CASE "read" \notin io' /\ held' = <<>> /\ chunks' = chunks
  BY <1>2
<1>3. CASE held # <<>> /\ Len(chunks) < ChunkCap /\ chunks' = chunks \o held /\ held' = <<>> /\ io' = io
  <2>1. Len(held) \in Nat /\ Len(held) # 0
    BY <1>1, <1>3, LenProperties, EmptySeq
  <2>2. Len(held) = 1
    <3>1. \A n \in Nat : n # 0 /\ n <= 1 => n = 1
      OBVIOUS
    <3>2. Len(held) <= 1
      BY <1>1
    <3>3. QED
      BY <2>1, <3>1, <3>2, Zenon
  <2>3. /\ chunks' \in Seq(Nat) /\ Len(chunks') = Len(chunks) + 1
        /\ \A i \in 1..(Len(chunks) + 1) :
             chunks'[i] = IF i <= Len(chunks) THEN chunks[i] ELSE held[i - Len(chunks)]
    BY <1>1, <1>3, <2>2, Joined
  <2>4. Len(chunks) \in Nat
    BY <1>1, LenProperties
  <2>5. \A i \in 1..Len(chunks) : chunks'[i] = chunks[i]
    BY <2>3, <2>4
  <2>6. chunks'[Len(chunks) + 1] = held[1]
    BY <2>3, <2>4
  <2>7. QED
    BY <1>3, <2>2, <2>3, <2>5, <2>6
<1>4. QED
  BY <1>2, <1>3 DEF IO!readShell

\* Every step keeps the types and the capacities.
LEMMA OutputTypeStep ==
  ASSUME IO!TypeOK, [IO!Next]_(IO!vars)
  PROVE  IO!TypeOK'
<1>1. CASE UNCHANGED <<phase, live, closing, shell, remote, desired, applied, signal, timer, sizing,
       io, queue, produced, held, chunks, batch, emitted>>
  BY <1>1 DEF IO!TypeOK, IO!Loops
<1>2. CASE IO!Write
  <2>1. queue' \in 0..QueueCap
    BY <1>2, CapAssumption DEF IO!Write, IO!TypeOK
  <2>2. QED
    BY <2>1, <1>2 DEF IO!Write, IO!TypeOK, IO!resizeVars, IO!outVars
<1>3. CASE IO!ShellOpens
  BY <1>3 DEF IO!ShellOpens, IO!TypeOK, IO!Loops, IO!resizeVars, IO!outVars
<1>4. CASE IO!ConnectEnds
  BY <1>4 DEF IO!ConnectEnds, IO!TypeOK, IO!Loops, IO!resizeVars, IO!outVars
<1>5. CASE IO!Close
  BY <1>5 DEF IO!Close, IO!TypeOK, IO!Loops, IO!resizeVars, IO!outVars
<1>6. CASE IO!RemotePrints
  <2>1. produced' \in 0..MaxChunks /\ produced' \in Nat
    BY <1>6, CapAssumption DEF IO!RemotePrints, IO!TypeOK
  <2>2. held' \in Seq(Nat) /\ Len(held') <= 1
    BY <2>1, <1>6 DEF IO!RemotePrints
  <2>3. QED
    BY <2>1, <2>2, <1>6 DEF IO!RemotePrints, IO!TypeOK, IO!resizeVars
<1>7. CASE IO!RemoteExits
  BY <1>7 DEF IO!RemoteExits, IO!TypeOK, IO!Loops, IO!resizeVars, IO!outVars
<1>8. CASE IO!readShell
  <2>1. /\ held' \in Seq(Nat) /\ Len(held') <= 1
        /\ chunks' \in Seq(Nat) /\ Len(chunks') <= ChunkCap
    <3>1. /\ chunks \in Seq(Nat) /\ Len(chunks) \in Nat /\ Len(chunks) <= ChunkCap /\ ChunkCap \in Nat
          /\ <<>> \in Seq(Nat) /\ Len(<<>>) = 0 /\ held \in Seq(Nat) /\ Len(held) <= 1
      BY CapAssumption, LenProperties DEF IO!TypeOK
    <3>2. CASE chunks' = chunks /\ held' = <<>>
      BY <3>1, <3>2
    <3>3. CASE /\ held' = <<>> /\ Len(chunks) < ChunkCap
               /\ chunks' \in Seq(Nat) /\ Len(chunks') = Len(chunks) + 1
      BY <3>1, <3>3
    <3>4. QED
      BY <3>2, <3>3, ReadEffect, <1>8
  <2>2. io' \subseteq IO!Loops
    BY <1>8 DEF IO!readShell, IO!TypeOK
  <2>3. QED
    BY <2>1, <2>2, <1>8 DEF IO!readShell, IO!TypeOK, IO!resizeVars
<1>9. CASE IO!writeShell
  <2>1. queue' \in 0..QueueCap
    BY <1>9, CapAssumption DEF IO!writeShell, IO!TypeOK
  <2>2. io' \subseteq IO!Loops
    BY <1>9 DEF IO!writeShell, IO!TypeOK
  <2>3. QED
    BY <2>1, <2>2, <1>9 DEF IO!writeShell, IO!TypeOK, IO!resizeVars, IO!outVars
<1>10. CASE IO!ResizeSignalled
  BY <1>10 DEF IO!ResizeSignalled, IO!TypeOK, IO!Loops, IO!resizeVars, IO!outVars
<1>11. CASE IO!ResizeTimer
  BY <1>11 DEF IO!ResizeTimer, IO!TypeOK, IO!Loops, IO!resizeVars, IO!outVars
<1>12. CASE IO!ResizeApplied
  BY <1>12 DEF IO!ResizeApplied, IO!TypeOK, IO!Loops, IO!resizeVars, IO!outVars
<1>13. CASE IO!ResizeStops
  BY <1>13 DEF IO!ResizeStops, IO!TypeOK, IO!Loops, IO!resizeVars, IO!outVars
<1>14. CASE IO!WaitReturns
  BY <1>14 DEF IO!WaitReturns, IO!TypeOK, IO!Loops, IO!resizeVars, IO!outVars
<1>15. CASE IO!EmitChunk
  <2>1. /\ chunks' \in Seq(Nat) /\ batch' \in Seq(Nat) /\ emitted' \in Seq(Nat)
        /\ Len(chunks') <= ChunkCap /\ Len(batch') <= BatchCap
    <3>1. /\ Len(chunks) \in Nat /\ Len(chunks) <= ChunkCap /\ ChunkCap \in Nat
          /\ Len(batch) \in Nat /\ Len(batch) <= BatchCap /\ BatchCap \in Nat /\ BatchCap > 0
      BY CapAssumption, LenProperties DEF IO!TypeOK
    <3>2. /\ chunks' \in Seq(Nat) /\ batch' \in Seq(Nat) /\ emitted' \in Seq(Nat)
          /\ Len(chunks') = Len(chunks) - 1
          /\ Len(batch') = 1 \/ (Len(batch) < BatchCap /\ Len(batch') = Len(batch) + 1)
      BY <1>15, ChunkEffect
    <3>3. Len(chunks') <= ChunkCap
      BY <3>1, <3>2
    <3>4. Len(batch') <= BatchCap
      <4>1. CASE Len(batch') = 1
        BY <3>1, <4>1
      <4>2. CASE Len(batch) < BatchCap /\ Len(batch') = Len(batch) + 1
        BY <3>1, <4>2
      <4>3. QED
        BY <3>2, <4>1, <4>2
    <3>5. QED
      BY <3>2, <3>3, <3>4
  <2>2. QED
    BY <2>1, <1>15 DEF IO!EmitChunk, IO!TypeOK, IO!resizeVars
<1>16. CASE IO!EmitFlush
  <2>1. batch' = <<>> /\ Len(batch') = 0 /\ batch' \in Seq(Nat) /\ emitted' \in Seq(Nat)
    BY <1>16, Joined DEF IO!EmitFlush, IO!TypeOK
  <2>2. QED
    BY <2>1, <1>16, CapAssumption DEF IO!EmitFlush, IO!TypeOK, IO!resizeVars
<1>17. CASE IO!EmitEnds
  <2>1. batch' = <<>> /\ Len(batch') = 0 /\ batch' \in Seq(Nat) /\ emitted' \in Seq(Nat)
    BY <1>17, Joined DEF IO!EmitEnds, IO!TypeOK
  <2>2. QED
    BY <2>1, <1>17, CapAssumption DEF IO!EmitEnds, IO!TypeOK, IO!resizeVars
<1>18. CASE IO!StopIO
  BY <1>18 DEF IO!StopIO, IO!TypeOK, IO!Loops, IO!resizeVars, IO!outVars
<1>19. CASE IO!RunEnds
  BY <1>19 DEF IO!RunEnds, IO!TypeOK, IO!Loops, IO!resizeVars, IO!outVars
<1>20. ASSUME NEW size \in Sizes, IO!Resize(size) PROVE IO!TypeOK'
  BY <1>20 DEF IO!Resize, IO!TypeOK, IO!Loops, IO!resizeVars, IO!outVars
<1>21. CASE UNCHANGED IO!vars
  BY <1>1, <1>21 DEF IO!vars, IO!resizeVars, IO!outVars
<1>22. QED
  BY <1>1, <1>2, <1>3, <1>4, <1>5, <1>6, <1>7, <1>8, <1>9, <1>10, <1>11, <1>12, <1>13, <1>14, <1>15,
     <1>16, <1>17, <1>18, <1>19, <1>20, <1>21
    DEF IO!Next, IO!EmitStep, IO!ResizeStep

\* The loops start with the shell.
LEMMA StartStep ==
  ASSUME IO!TypeOK, StartInv, [IO!Next]_(IO!vars)
  PROVE  StartInv'
<1>1. CASE UNCHANGED <<phase, io, produced, held, chunks, batch, emitted>>
  BY <1>1 DEF StartInv
<1>2. CASE IO!ShellOpens
  BY <1>2 DEF IO!ShellOpens, StartInv, IO!outVars
<1>3. CASE IO!ConnectEnds
  BY <1>3 DEF IO!ConnectEnds, StartInv, IO!outVars
<1>4. CASE IO!RemotePrints
  BY <1>4 DEF IO!RemotePrints, StartInv, IO!outVars
<1>5. CASE IO!readShell
  BY <1>5 DEF IO!readShell, StartInv, IO!outVars
<1>6. CASE IO!writeShell
  BY <1>6 DEF IO!writeShell, StartInv, IO!outVars
<1>7. CASE IO!ResizeTimer
  BY <1>7 DEF IO!ResizeTimer, StartInv, IO!outVars
<1>8. CASE IO!ResizeApplied
  BY <1>8 DEF IO!ResizeApplied, StartInv, IO!outVars
<1>9. CASE IO!ResizeStops
  BY <1>9 DEF IO!ResizeStops, StartInv, IO!outVars
<1>10. CASE IO!WaitReturns
  BY <1>10 DEF IO!WaitReturns, StartInv, IO!outVars
<1>11. CASE IO!EmitChunk
  BY <1>11 DEF IO!EmitChunk, StartInv, IO!outVars
<1>12. CASE IO!EmitFlush
  BY <1>12 DEF IO!EmitFlush, StartInv, IO!outVars
<1>13. CASE IO!EmitEnds
  BY <1>13 DEF IO!EmitEnds, StartInv, IO!outVars
<1>14. CASE IO!StopIO
  BY <1>14 DEF IO!StopIO, StartInv, IO!outVars
<1>15. CASE IO!RunEnds
  BY <1>15 DEF IO!RunEnds, StartInv, IO!outVars
<1>16. ASSUME NEW size \in Sizes,
          IO!Resize(size)
       PROVE  UNCHANGED <<phase, io, produced, held, chunks, batch, emitted>>
  BY <1>16 DEF IO!Resize, IO!outVars
<1>17. CASE IO!Write \/ IO!Close \/ IO!RemoteExits \/ IO!ResizeSignalled \/ UNCHANGED IO!vars
  BY <1>1, <1>17 DEF IO!Write, IO!Close, IO!RemoteExits, IO!ResizeSignalled, IO!vars, IO!outVars
<1>18. QED
  BY <1>1, <1>2, <1>3, <1>4, <1>5, <1>6, <1>7, <1>8, <1>9, <1>10, <1>11, <1>12, <1>13, <1>14, <1>15,
     <1>16, <1>17
    DEF IO!Next, IO!EmitStep, IO!ResizeStep

\* emitBatches passes the chunks on in the order of the channel.
LEMMA EmitStepInv ==
  ASSUME IO!TypeOK, EmitInv, StartInv, ReadInv, [IO!Next]_(IO!vars)
  PROVE  EmitInv'
<1>0. held \in Seq(Nat) /\ chunks \in Seq(Nat) /\ batch \in Seq(Nat) /\ emitted \in Seq(Nat) /\ Len(held) <= 1
  BY DEF IO!TypeOK
<1>1. CASE UNCHANGED <<io, held, chunks, batch, emitted>>
  BY <1>0, <1>1 DEF EmitInv
<1>2. CASE IO!ShellOpens
  BY <1>2 DEF IO!ShellOpens, IO!outVars, StartInv, EmitInv
<1>3. CASE IO!RemotePrints
  BY <1>0, <1>3 DEF IO!RemotePrints, EmitInv, IO!outVars
<1>4. CASE IO!readShell
  <2>1. CASE chunks' = chunks /\ "read" \notin io'
    BY <1>0, <2>1, <1>4 DEF IO!readShell, EmitInv
  <2>2. CASE io' = io /\ "read" \in io /\ Len(held) = 1
    <3>1. /\ Len(chunks) \in Nat /\ Len(batch) \in Nat /\ Len(emitted) \in Nat
          /\ UNCHANGED <<batch, emitted>>
      BY <1>0, <1>4, LenProperties DEF IO!readShell
    <3>2. /\ Len(chunks') = Len(chunks) + 1
          /\ \A i \in 1..Len(chunks) : chunks'[i] = chunks[i]
          /\ chunks'[Len(chunks) + 1] = held[1]
      BY <2>2, <1>4, ReadEffect
    <3>3. QED
      BY <2>2, <3>1, <3>2 DEF EmitInv, ReadInv
  <2>3. QED
    BY <2>1, <2>2, ReadEffect, <1>4 DEF IO!readShell
<1>5. CASE IO!writeShell
  BY <1>0, <1>5 DEF IO!writeShell, EmitInv, IO!outVars
<1>6. CASE IO!ResizeTimer
  BY <1>0, <1>6 DEF IO!ResizeTimer, EmitInv, IO!outVars
<1>7. CASE IO!ResizeApplied
  BY <1>0, <1>7 DEF IO!ResizeApplied, EmitInv, IO!outVars
<1>8. CASE IO!ResizeStops
  BY <1>0, <1>8 DEF IO!ResizeStops, EmitInv, IO!outVars
<1>9. CASE IO!WaitReturns
  BY <1>0, <1>9 DEF IO!WaitReturns, EmitInv, IO!outVars
<1>10. CASE IO!EmitChunk
  <2>1. "emit" \in io /\ io' = io /\ UNCHANGED <<held, produced>>
    BY <1>10 DEF IO!EmitChunk
  <2>2. /\ Len(chunks) \in Nat /\ Len(batch) \in Nat /\ Len(emitted) \in Nat /\ Len(held) \in Nat
        /\ Len(emitted \o batch) = Len(emitted) + Len(batch)
        /\ \A i \in 1..(Len(emitted) + Len(batch)) :
             (emitted \o batch)[i] = IF i <= Len(emitted) THEN emitted[i] ELSE batch[i - Len(emitted)]
    BY <1>0, LenProperties, Joined
  <2>3. Len(chunks) > 0 /\ Len(chunks') = Len(chunks) - 1 /\ \A i \in 1..Len(chunks') : chunks'[i] = chunks[i + 1]
    BY <1>10, ChunkEffect
  <2>4. CASE /\ emitted' = emitted /\ Len(batch) < BatchCap
             /\ Len(batch') = Len(batch) + 1
             /\ \A i \in 1..Len(batch) : batch'[i] = batch[i]
             /\ batch'[Len(batch) + 1] = chunks[1]
    <3>1. /\ \A i \in 1..Len(batch) : batch[i] = Len(emitted) + i
          /\ \A i \in 1..Len(chunks) : chunks[i] = Len(emitted) + Len(batch) + i
      BY <2>1 DEF EmitInv
    <3>2. chunks[1] = Len(emitted) + Len(batch) + 1
      BY <2>2, <2>3, <3>1
    <3>3. \A i \in 1..Len(batch') : batch'[i] = Len(emitted') + i
      <4>1. \A i \in 1..Len(batch') : i \in 1..Len(batch) \/ i = Len(batch) + 1
        BY <2>2, <2>4
      <4>2. \A i \in 1..Len(batch) : batch'[i] = Len(emitted') + i
        BY <2>4, <3>1
      <4>3. batch'[Len(batch) + 1] = Len(emitted') + (Len(batch) + 1)
        BY <2>2, <2>4, <3>2
      <4>4. QED
        BY <4>1, <4>2, <4>3
    <3>4. \A i \in 1..Len(chunks') : chunks'[i] = Len(emitted') + Len(batch') + i
      BY <2>2, <2>3, <2>4, <3>1
    <3>5. QED
      BY <2>1, <2>2, <2>3, <2>4, <3>3, <3>4 DEF EmitInv
  <2>5. CASE /\ emitted' = emitted \o batch
             /\ Len(batch') = 1 /\ batch'[1] = chunks[1]
    BY <1>0, <2>1, <2>2, <2>3, <2>5 DEF EmitInv
  <2>6. QED
    BY <1>10, <2>4, <2>5, ChunkEffect
<1>11. CASE IO!EmitFlush
  BY <1>0, <1>11 DEF IO!EmitFlush, EmitInv, IO!outVars
<1>12. CASE IO!EmitEnds
  BY <1>0, <1>12 DEF IO!EmitEnds, EmitInv, IO!outVars
<1>13. ASSUME NEW size \in Sizes,
          IO!Resize(size)
       PROVE  UNCHANGED <<io, held, chunks, batch, emitted>>
  BY <1>13 DEF IO!Resize, IO!outVars
<1>14. CASE IO!Write \/ IO!ConnectEnds \/ IO!Close \/ IO!RemoteExits \/ IO!ResizeSignalled \/
       IO!StopIO \/ IO!RunEnds \/ UNCHANGED IO!vars
  BY <1>1, <1>14
    DEF IO!Write, IO!ConnectEnds, IO!Close, IO!RemoteExits, IO!ResizeSignalled, IO!StopIO,
      IO!RunEnds, IO!vars, IO!outVars
<1>15. QED
  BY <1>1, <1>2, <1>3, <1>4, <1>5, <1>6, <1>7, <1>8, <1>9, <1>10, <1>11, <1>12, <1>13, <1>14
    DEF IO!Next, IO!EmitStep, IO!ResizeStep

\* readShell passes on what it holds before it reads again.
LEMMA ReadStep ==
  ASSUME IO!TypeOK, ReadInv, StartInv, EmitInv, [IO!Next]_(IO!vars)
  PROVE  ReadInv'
<1>0. held \in Seq(Nat) /\ chunks \in Seq(Nat) /\ batch \in Seq(Nat) /\ emitted \in Seq(Nat) /\ Len(held) <= 1 /\ produced \in Nat
  BY DEF IO!TypeOK
<1>1. CASE UNCHANGED <<io, produced, held, chunks, batch, emitted>>
  BY <1>0, <1>1 DEF ReadInv
<1>2. CASE IO!ShellOpens
  BY <1>2 DEF IO!ShellOpens, IO!outVars, StartInv, ReadInv
<1>3. CASE IO!RemotePrints
  BY <1>0, <1>3 DEF IO!RemotePrints, ReadInv, IO!outVars
<1>4. CASE IO!readShell
  BY <1>0, <1>4 DEF IO!readShell, ReadInv, IO!outVars
<1>5. CASE IO!writeShell
  BY <1>0, <1>5 DEF IO!writeShell, ReadInv, IO!outVars
<1>6. CASE IO!ResizeTimer
  BY <1>0, <1>6 DEF IO!ResizeTimer, ReadInv, IO!outVars
<1>7. CASE IO!ResizeApplied
  BY <1>0, <1>7 DEF IO!ResizeApplied, ReadInv, IO!outVars
<1>8. CASE IO!ResizeStops
  BY <1>0, <1>8 DEF IO!ResizeStops, ReadInv, IO!outVars
<1>9. CASE IO!WaitReturns
  BY <1>0, <1>9 DEF IO!WaitReturns, ReadInv, IO!outVars
<1>10. CASE IO!EmitChunk
  <2>1. "emit" \in io /\ io' = io /\ UNCHANGED <<held, produced>>
    BY <1>10 DEF IO!EmitChunk
  <2>2. /\ Len(chunks) \in Nat /\ Len(batch) \in Nat /\ Len(emitted) \in Nat /\ Len(held) \in Nat
        /\ Len(emitted \o batch) = Len(emitted) + Len(batch)
        /\ \A i \in 1..(Len(emitted) + Len(batch)) :
             (emitted \o batch)[i] = IF i <= Len(emitted) THEN emitted[i] ELSE batch[i - Len(emitted)]
    BY <1>0, LenProperties, Joined
  <2>3. Len(chunks) > 0 /\ Len(chunks') = Len(chunks) - 1 /\ \A i \in 1..Len(chunks') : chunks'[i] = chunks[i + 1]
    BY <1>10, ChunkEffect
  <2>4. CASE /\ emitted' = emitted /\ Len(batch) < BatchCap
             /\ Len(batch') = Len(batch) + 1
             /\ \A i \in 1..Len(batch) : batch'[i] = batch[i]
             /\ batch'[Len(batch) + 1] = chunks[1]
    <3>1. /\ \A i \in 1..Len(batch) : batch[i] = Len(emitted) + i
          /\ \A i \in 1..Len(chunks) : chunks[i] = Len(emitted) + Len(batch) + i
      BY <2>1 DEF EmitInv
    <3>2. chunks[1] = Len(emitted) + Len(batch) + 1
      BY <2>2, <2>3, <3>1
    <3>3. \A i \in 1..Len(batch') : batch'[i] = Len(emitted') + i
      <4>1. \A i \in 1..Len(batch') : i \in 1..Len(batch) \/ i = Len(batch) + 1
        BY <2>2, <2>4
      <4>2. \A i \in 1..Len(batch) : batch'[i] = Len(emitted') + i
        BY <2>4, <3>1
      <4>3. batch'[Len(batch) + 1] = Len(emitted') + (Len(batch) + 1)
        BY <2>2, <2>4, <3>2
      <4>4. QED
        BY <4>1, <4>2, <4>3
    <3>4. \A i \in 1..Len(chunks') : chunks'[i] = Len(emitted') + Len(batch') + i
      BY <2>2, <2>3, <2>4, <3>1
    <3>5. QED
      BY <2>1, <2>2, <2>3, <2>4, <3>3, <3>4 DEF ReadInv
  <2>5. CASE /\ emitted' = emitted \o batch
             /\ Len(batch') = 1 /\ batch'[1] = chunks[1]
    BY <1>0, <2>1, <2>2, <2>3, <2>5 DEF ReadInv
  <2>6. QED
    BY <1>10, <2>4, <2>5, ChunkEffect
<1>11. CASE IO!EmitFlush
  BY <1>0, <1>11 DEF IO!EmitFlush, ReadInv, IO!outVars
<1>12. CASE IO!EmitEnds
  BY <1>0, <1>12 DEF IO!EmitEnds, ReadInv, IO!outVars
<1>13. ASSUME NEW size \in Sizes,
          IO!Resize(size)
       PROVE  UNCHANGED <<io, produced, held, chunks, batch, emitted>>
  BY <1>13 DEF IO!Resize, IO!outVars
<1>14. CASE IO!Write \/ IO!ConnectEnds \/ IO!Close \/ IO!RemoteExits \/ IO!ResizeSignalled \/
       IO!StopIO \/ IO!RunEnds \/ UNCHANGED IO!vars
  BY <1>1, <1>14
    DEF IO!Write, IO!ConnectEnds, IO!Close, IO!RemoteExits, IO!ResizeSignalled, IO!StopIO,
      IO!RunEnds, IO!vars, IO!outVars
<1>15. QED
  BY <1>1, <1>2, <1>3, <1>4, <1>5, <1>6, <1>7, <1>8, <1>9, <1>10, <1>11, <1>12, <1>13, <1>14
    DEF IO!Next, IO!EmitStep, IO!ResizeStep

\* What is emitted joins what was emitted before.
LEMMA PrefixStep ==
  ASSUME IO!TypeOK, IO!OutputIsPrefix, EmitInv, [IO!Next]_(IO!vars)
  PROVE  IO!OutputIsPrefix'
<1>0. held \in Seq(Nat) /\ chunks \in Seq(Nat) /\ batch \in Seq(Nat) /\ emitted \in Seq(Nat) /\ Len(held) <= 1
  BY DEF IO!TypeOK
<1>1. CASE UNCHANGED <<io, batch, emitted>>
  BY <1>0, <1>1 DEF IO!OutputIsPrefix, EmitInv
<1>2. CASE IO!ShellOpens
  BY <1>0, <1>2 DEF IO!ShellOpens, IO!OutputIsPrefix, EmitInv, IO!outVars
<1>3. CASE IO!readShell
  BY <1>0, <1>3 DEF IO!readShell, IO!OutputIsPrefix, EmitInv, IO!outVars
<1>4. CASE IO!writeShell
  BY <1>0, <1>4 DEF IO!writeShell, IO!OutputIsPrefix, EmitInv, IO!outVars
<1>5. CASE IO!ResizeTimer
  BY <1>0, <1>5 DEF IO!ResizeTimer, IO!OutputIsPrefix, EmitInv, IO!outVars
<1>6. CASE IO!ResizeApplied
  BY <1>0, <1>6 DEF IO!ResizeApplied, IO!OutputIsPrefix, EmitInv, IO!outVars
<1>7. CASE IO!ResizeStops
  BY <1>0, <1>7 DEF IO!ResizeStops, IO!OutputIsPrefix, EmitInv, IO!outVars
<1>8. CASE IO!WaitReturns
  BY <1>0, <1>8 DEF IO!WaitReturns, IO!OutputIsPrefix, EmitInv, IO!outVars
<1>9. CASE IO!EmitChunk
  <2>1. "emit" \in io /\ io' = io /\ UNCHANGED <<held, produced>>
    BY <1>9 DEF IO!EmitChunk
  <2>2. /\ Len(chunks) \in Nat /\ Len(batch) \in Nat /\ Len(emitted) \in Nat /\ Len(held) \in Nat
        /\ Len(emitted \o batch) = Len(emitted) + Len(batch)
        /\ \A i \in 1..(Len(emitted) + Len(batch)) :
             (emitted \o batch)[i] = IF i <= Len(emitted) THEN emitted[i] ELSE batch[i - Len(emitted)]
    BY <1>0, LenProperties, Joined
  <2>3. Len(chunks) > 0 /\ Len(chunks') = Len(chunks) - 1 /\ \A i \in 1..Len(chunks') : chunks'[i] = chunks[i + 1]
    BY <1>9, ChunkEffect
  <2>4. CASE /\ emitted' = emitted /\ Len(batch) < BatchCap
             /\ Len(batch') = Len(batch) + 1
             /\ \A i \in 1..Len(batch) : batch'[i] = batch[i]
             /\ batch'[Len(batch) + 1] = chunks[1]
    <3>1. /\ \A i \in 1..Len(batch) : batch[i] = Len(emitted) + i
          /\ \A i \in 1..Len(chunks) : chunks[i] = Len(emitted) + Len(batch) + i
      BY <2>1 DEF EmitInv
    <3>2. chunks[1] = Len(emitted) + Len(batch) + 1
      BY <2>2, <2>3, <3>1
    <3>3. \A i \in 1..Len(batch') : batch'[i] = Len(emitted') + i
      <4>1. \A i \in 1..Len(batch') : i \in 1..Len(batch) \/ i = Len(batch) + 1
        BY <2>2, <2>4
      <4>2. \A i \in 1..Len(batch) : batch'[i] = Len(emitted') + i
        BY <2>4, <3>1
      <4>3. batch'[Len(batch) + 1] = Len(emitted') + (Len(batch) + 1)
        BY <2>2, <2>4, <3>2
      <4>4. QED
        BY <4>1, <4>2, <4>3
    <3>4. \A i \in 1..Len(chunks') : chunks'[i] = Len(emitted') + Len(batch') + i
      BY <2>2, <2>3, <2>4, <3>1
    <3>5. QED
      BY <2>1, <2>2, <2>3, <2>4, <3>3, <3>4 DEF EmitInv, IO!OutputIsPrefix
  <2>5. CASE /\ emitted' = emitted \o batch
             /\ Len(batch') = 1 /\ batch'[1] = chunks[1]
    BY <1>0, <2>1, <2>2, <2>3, <2>5 DEF EmitInv, IO!OutputIsPrefix
  <2>6. QED
    BY <1>9, <2>4, <2>5, ChunkEffect
<1>10. CASE IO!EmitFlush
  BY <1>0, <1>10 DEF IO!EmitFlush, IO!OutputIsPrefix, EmitInv, IO!outVars
<1>11. CASE IO!EmitEnds
  BY <1>0, <1>11 DEF IO!EmitEnds, IO!OutputIsPrefix, EmitInv, IO!outVars
<1>12. ASSUME NEW size \in Sizes,
          IO!Resize(size)
       PROVE  UNCHANGED <<io, batch, emitted>>
  BY <1>12 DEF IO!Resize, IO!outVars
<1>13. CASE IO!Write \/ IO!ConnectEnds \/ IO!Close \/ IO!RemotePrints \/ IO!RemoteExits \/
       IO!ResizeSignalled \/ IO!StopIO \/ IO!RunEnds \/ UNCHANGED IO!vars
  BY <1>1, <1>13
    DEF IO!Write, IO!ConnectEnds, IO!Close, IO!RemotePrints, IO!RemoteExits, IO!ResizeSignalled,
      IO!StopIO, IO!RunEnds, IO!vars, IO!outVars
<1>14. QED
  BY <1>1, <1>2, <1>3, <1>4, <1>5, <1>6, <1>7, <1>8, <1>9, <1>10, <1>11, <1>12, <1>13
    DEF IO!Next, IO!EmitStep, IO!ResizeStep

----------------------------------------------------------------------------
\* The choice of the shell.

\* A candidate that is alone is found if it is installed.
LEMMA FirstOfOne ==
  ASSUME NEW p, NEW found
  PROVE  Local!FirstInstalled(<<p>>, found) = IF p \in found THEN p ELSE "none"
<1> DEFINE at == {i \in DOMAIN <<p>> : <<p>>[i] \in found}
<1>1. at = IF p \in found THEN {1} ELSE {}
  OBVIOUS
<1>2. Local!FirstInstalled(<<p>>, found) =
        IF at = {} THEN "none" ELSE <<p>>[CHOOSE i \in at : \A j \in at : i <= j]
  BY DEF Local!FirstInstalled
<1>3. CASE p \in found
  <2>1. at = {1}
    BY <1>1, <1>3
  <2>2. (CHOOSE i \in {1} : \A j \in {1} : i <= j) = 1
    OBVIOUS
  <2>3. QED
    BY <1>2, <1>3, <2>1, <2>2
<1>4. CASE p \notin found
  BY <1>1, <1>2, <1>4
<1>5. QED
  BY <1>3, <1>4

\* Of two candidates the first that is installed is found.
LEMMA FirstOfTwo ==
  ASSUME NEW p, NEW q, NEW found
  PROVE  Local!FirstInstalled(<<p, q>>, found) =
           IF p \in found THEN p ELSE IF q \in found THEN q ELSE "none"
<1> DEFINE at == {i \in DOMAIN <<p, q>> : <<p, q>>[i] \in found}
<1>1. /\ p \in found /\ q \in found => at = {1, 2}
      /\ p \in found /\ q \notin found => at = {1}
      /\ p \notin found /\ q \in found => at = {2}
      /\ p \notin found /\ q \notin found => at = {}
  OBVIOUS
<1>2. Local!FirstInstalled(<<p, q>>, found) =
        IF at = {} THEN "none" ELSE <<p, q>>[CHOOSE i \in at : \A j \in at : i <= j]
  BY DEF Local!FirstInstalled
<1>3. /\ (CHOOSE i \in {1, 2} : \A j \in {1, 2} : i <= j) = 1
      /\ (CHOOSE i \in {1} : \A j \in {1} : i <= j) = 1
      /\ (CHOOSE i \in {2} : \A j \in {2} : i <= j) = 2
  <2>1. \E i \in {1, 2} : \A j \in {1, 2} : i <= j
    OBVIOUS
  <2>2. \A i \in {1, 2} : (\A j \in {1, 2} : i <= j) => i = 1
    OBVIOUS
  <2>3. (CHOOSE i \in {1, 2} : \A j \in {1, 2} : i <= j) = 1
    BY <2>1, <2>2
  <2>4. QED
    BY <2>3
<1> HIDE DEF at
<1>4. CASE p \in found
  <2>1. at = {1, 2} \/ at = {1}
    BY <1>1, <1>4
  <2>2. (CHOOSE i \in at : \A j \in at : i <= j) = 1
    BY <1>3, <2>1
  <2>3. QED
    BY <1>2, <1>4, <2>1, <2>2
<1>5. CASE p \notin found /\ q \in found
  <2>1. at = {2}
    BY <1>1, <1>5
  <2>2. (CHOOSE i \in at : \A j \in at : i <= j) = 2
    BY <1>3, <2>1
  <2>3. QED
    BY <1>2, <1>5, <2>1, <2>2
<1>6. CASE p \notin found /\ q \notin found
  BY <1>1, <1>2, <1>6
<1>7. QED
  BY <1>4, <1>5, <1>6

\* Every machine: of what is offered something opens, and it is what was asked for.
LEMMA WhatIsOffered ==
  ASSUME Local!TypeOK
  PROVE  Local!OfferedOpens
<1> DEFINE first(p, q) == IF p \in installed THEN p ELSE IF q \in installed THEN q ELSE "none"
           program(k) == Local!resolveShellKindForPlatform(platform, k, installed)
           options == Local!localTerminalShellOptions(platform, installed)
           cmd == IF "cmd" \in installed THEN "cmd" ELSE "none"
<1>1. platform \in {"windows", "darwin", "linux"}
  BY DEF Local!TypeOK, Local!Platforms
<1>2. CASE platform = "windows"
  <2>1. program("cmd") = cmd
    BY <1>2, FirstOfOne DEF Local!resolveShellKindForPlatform
  <2>2. program("powershell") = first("pwsh", "powershell")
    <3>1. Local!shellCandidates("windows", "powershell") = <<"pwsh", "powershell">>
      BY DEF Local!shellCandidates
    <3>2. program("powershell") = Local!FirstInstalled(<<"pwsh", "powershell">>, installed)
      BY <1>2, <3>1 DEF Local!resolveShellKindForPlatform
    <3>3. QED
      BY <3>2, FirstOfTwo
  <2>3. options = IF program("cmd") = "none" /\ program("powershell") = "none" THEN {} ELSE {"cmd", "powershell"}
    BY <1>2 DEF Local!localTerminalShellOptions, Local!shellResolverAvailable
  <2>4. installed \cap {"cmd", "pwsh", "powershell"} # {} => \E k \in options : program(k) # "none"
    BY <2>1, <2>2, <2>3
  <2>5. \A k \in options : program(k) = "none" \/ Local!shellKindFromPath(program(k)) = k
    BY <2>1, <2>2, <2>3 DEF Local!shellKindFromPath
  <2>6. QED
    BY <1>2, <2>4, <2>5 DEF Local!OfferedOpens
<1>3. CASE platform = "darwin"
  <2>1. program("local") = first("zsh", "bash")
    <3>1. Local!shellCandidates("darwin", "auto") = <<"zsh", "bash">>
      BY DEF Local!shellCandidates
    <3>2. program("local") = Local!FirstInstalled(<<"zsh", "bash">>, installed)
      BY <1>3, <3>1 DEF Local!resolveShellKindForPlatform
    <3>3. QED
      BY <3>2, FirstOfTwo
  <2>2. options = IF program("local") = "none" THEN {} ELSE {"local"}
    BY <1>3 DEF Local!localTerminalShellOptions, Local!shellResolverAvailable
  <2>3. installed \cap {"zsh", "bash"} # {} => \E k \in options : program(k) # "none"
    BY <2>1, <2>2
  <2>4. \A k \in options : program(k) = "none" \/ Local!shellKindFromPath(program(k)) = k
    BY <2>1, <2>2 DEF Local!shellKindFromPath
  <2>5. QED
    BY <1>3, <2>3, <2>4 DEF Local!OfferedOpens
<1>4. CASE platform = "linux"
  <2>1. \A k : program(k) = "none"
    BY <1>4 DEF Local!resolveShellKindForPlatform
  <2>2. QED
    BY <1>4, <2>1 DEF Local!OfferedOpens
<1>5. QED
  BY <1>1, <1>2, <1>3, <1>4

----------------------------------------------------------------------------
\* Both kinds of terminals.

\* A behaviour begins with the invariant, whichever of the two kinds runs.
LEMMA InitInv ==
  ASSUME Init
  PROVE  IndInv
<1>1. LocalInv
  <2>1. CASE Local!Init
    BY <2>1, CapAssumption DEF LocalInv, Local!Init, Local!TypeOK, KnownInv, StageInv, EndInv, Local!Over
  <2>2. CASE LocalOver /\ platform \in Local!Platforms /\ installed \in SUBSET Local!Programs
    BY <2>2, CapAssumption DEF LocalInv, LocalOver, Local!TypeOK, KnownInv, StageInv, EndInv, Local!Over
  <2>3. Machine => platform \in Local!Platforms /\ installed \in SUBSET Local!Programs
    BY DEF Machine, Local!Platforms, Local!Programs
  <2>4. QED
    BY <2>1, <2>2, <2>3 DEF Init
<1>2. OutputInv
  <2>1. <<>> \in Seq(Nat) /\ Len(<<>>) = 0 /\ DOMAIN <<>> = {}
    OBVIOUS
  <2>2. /\ (CHOOSE z \in Sizes : TRUE) \in Sizes
        /\ 0 \in 0..QueueCap /\ 0 \in 0..MaxChunks /\ 0 <= ChunkCap /\ 0 <= BatchCap
    BY CapAssumption
  <2>3. IO!TypeOK /\ StartInv /\ io = {} /\ emitted = <<>>
    <3>1. CASE IO!Init
      <4>1. /\ held \in Seq(Nat) /\ Len(held) <= 1 /\ chunks \in Seq(Nat) /\ Len(chunks) <= ChunkCap
            /\ batch \in Seq(Nat) /\ Len(batch) <= BatchCap /\ emitted \in Seq(Nat)
        BY <2>1, <2>2, <3>1 DEF IO!Init
      <4>2. desired \in Sizes /\ applied \in Sizes /\ sizing \subseteq Sizes /\ io \subseteq IO!Loops
        BY <2>2, <3>1 DEF IO!Init
      <4>3. QED
        BY <2>2, <3>1, <4>1, <4>2 DEF IO!Init, IO!TypeOK, StartInv
    <3>2. CASE IOOver
      <4>1. /\ held \in Seq(Nat) /\ Len(held) <= 1 /\ chunks \in Seq(Nat) /\ Len(chunks) <= ChunkCap
            /\ batch \in Seq(Nat) /\ Len(batch) <= BatchCap /\ emitted \in Seq(Nat)
        BY <2>1, <2>2, <3>2 DEF IOOver
      <4>2. desired \in Sizes /\ applied \in Sizes /\ sizing \subseteq Sizes /\ io \subseteq IO!Loops
        BY <2>2, <3>2 DEF IOOver
      <4>3. QED
        BY <2>2, <3>2, <4>1, <4>2 DEF IOOver, IO!TypeOK, StartInv
    <3>3. QED
      BY <3>1, <3>2 DEF Init
  <2>4. QED
    BY <2>1, <2>3 DEF OutputInv, EmitInv, ReadInv, IO!OutputIsPrefix
<1>3. QED
  BY <1>1, <1>2 DEF IndInv

\* A step of either kind keeps it.
LEMMA StepInv ==
  ASSUME IndInv, [Next]_<<localVars, sshVars>>
  PROVE  IndInv'
<1>1. [Local!Next]_(Local!vars) /\ [IO!Next]_(IO!vars)
  BY DEF Next, localVars, sshVars, Local!vars, Local!machine, IO!vars
<1>2. LocalInv'
  <2>1. Local!TypeOK /\ KnownInv /\ StageInv /\ EndInv
    BY DEF IndInv, LocalInv
  <2>2. QED
    BY <1>1, <2>1, LocalTypeStep, KnownStep, StageStep, EndStep DEF LocalInv
<1>3. OutputInv'
  <2>1. IO!TypeOK /\ StartInv /\ EmitInv /\ ReadInv /\ IO!OutputIsPrefix
    BY DEF IndInv, OutputInv
  <2>2. QED
    BY <1>1, <2>1, OutputTypeStep, StartStep, EmitStepInv, ReadStep, PrefixStep DEF OutputInv
<1>4. QED
  BY <1>2, <1>3 DEF IndInv

\* The inductive invariant of the terminals (localterminal and terminal managers).
THEOREM Invariance == FairSpec => []IndInv
<1>1. Init => IndInv
  BY InitInv
<1>2. IndInv /\ [Next]_<<localVars, sshVars>> => IndInv'
  BY StepInv
<1>3. QED
  BY <1>1, <1>2, PTL DEF FairSpec

\* A process of a local terminal can be found and ended, a session that is over is shown as
\* over, and of the shells that are offered one opens (Open, run, closeSession).
THEOREM ProcessesKnown == FairSpec => []ProcessesAreKnown
<1>1. IndInv => ProcessesAreKnown
  <2>1. SUFFICES ASSUME IndInv PROVE ProcessesAreKnown
    OBVIOUS
  <2>2. Local!TypeOK /\ KnownInv /\ StageInv /\ EndInv
    BY <2>1 DEF IndInv, LocalInv
  <2>3. Local!NoOrphanProcess
    BY <2>2 DEF KnownInv, Local!NoOrphanProcess
  <2>4. Local!EndedIsShown
    BY <2>2 DEF StageInv, EndInv, Local!TypeOK, Local!EndedIsShown, Local!Done
  <2>5. QED
    BY <2>2, <2>3, <2>4, WhatIsOffered DEF ProcessesAreKnown, Local!ProcessesAreKnown
<1>2. QED
  BY <1>1, Invariance, PTL

\* Every queue keeps to its limit, and the output that is shown is a prefix of what the remote
\* shell printed (readShell, emitBatches).
THEOREM OutputOrdered == FairSpec => []OutputIsOrdered
<1>1. IndInv => OutputIsOrdered
  BY DEF IndInv, OutputInv, OutputIsOrdered, IO!OutputIsOrdered
<1>2. QED
  BY <1>1, Invariance, PTL
=============================================================================
