--------------------------- MODULE StreamTurnProofs ---------------------------
(***************************************************************************)
(* Theorems about StreamTurn, for any sets of requests and background      *)
(* tasks.                                                                  *)
(***************************************************************************)
EXTENDS StreamTurn, TLAPS

-----------------------------------------------------------------------------
(* Type correctness.                                                       *)

\* The head of a pipe is one of its lines and the rest is a pipe.
LEMMA PipeTypes ==
    ASSUME NEW S, NEW q \in Seq(S), q # <<>>
    PROVE  Head(q) \in S /\ Tail(q) \in Seq(S)
  OBVIOUS

LEMMA TypeInit == Init => TypeOK
<1> SUFFICES ASSUME Init PROVE TypeOK
  OBVIOUS
<1>1. stdin \in Seq(Turns) /\ stdout \in Seq(Line)
  BY DEF Init
<1>2. heard \in [Turns -> Seq(Line)]
  BY DEF Init
<1>3. turn \in [Turns -> TurnState] /\ intr \in [Interrupts -> IntrState]
  BY DEF Init, TurnState, IntrState
<1> QED  BY <1>1, <1>2, <1>3 DEF Init, TypeOK, DrainState

LEMMA TypeTurn ==
    ASSUME TypeOK, NEW t \in Turns,
           \/ SendRefused(t) \/ SendAccepted(t) \/ SendToDeadProc(t)
           \/ Generator(t) \/ Hangup(t)
    PROVE  TypeOK'
<1> USE DEF TypeOK, TurnState, DrainState, IntrState, session, pipes, harness, outcome
<1>1. CASE SendRefused(t)
  BY <1>1 DEF SendRefused
<1>2. CASE SendAccepted(t)
  BY <1>2 DEF SendAccepted
<1>3. CASE SendToDeadProc(t)
  BY <1>3 DEF SendToDeadProc, CancelDrain, Unwait
<1>4. CASE AcquireLock(t)
  BY <1>4 DEF AcquireLock
<1>5. CASE FlushLine(t)
  <2>1. Head(stdout) \in Line /\ Tail(stdout) \in Seq(Line)
    BY <1>5, PipeTypes DEF FlushLine, LineReady
  <2> QED  BY <1>5, <2>1 DEF FlushLine, RoutePush
<1>6. CASE FlushDoneAndWrite(t)
  BY <1>6 DEF FlushDoneAndWrite, Unwait
<1>7. CASE Sent(t)
  BY <1>7 DEF Sent, LoopOrFinish, FinishTurn
<1>8. CASE StreamLine(t)
  <2>1. Head(stdout) \in Line /\ Tail(stdout) \in Seq(Line)
    BY <1>8, PipeTypes DEF StreamLine, LineReady
  <2>2. Append(heard[t], Head(stdout)) \in Seq(Line)
    BY <2>1
  <2> QED  BY <1>8, <2>1, <2>2 DEF StreamLine
<1>9. CASE ResumeAfterYield(t)
  BY <1>9 DEF ResumeAfterYield, LoopOrFinish, FinishTurn
<1>10. CASE StopReading(t)
  BY <1>10 DEF StopReading, FinishTurn, Unwait
<1>11. CASE Hangup(t)
  BY <1>11 DEF Hangup, FinishTurn, Unwait
<1> QED
  BY <1>1, <1>2, <1>3, <1>4, <1>5, <1>6, <1>7, <1>8, <1>9, <1>10, <1>11 DEF Generator

LEMMA TypeDrain == ASSUME TypeOK, IdleDrain PROVE TypeOK'
<1> USE DEF TypeOK, DrainState, session, pipes, harness, outcome
<1>1. CASE DrainEnter  BY <1>1 DEF DrainEnter
<1>2. CASE DrainGranted  BY <1>2 DEF DrainGranted
<1>3. CASE DrainBacksOff  BY <1>3 DEF DrainBacksOff, LeaveLock
<1>4. CASE DrainLine
  <2>1. Head(stdout) \in Line /\ Tail(stdout) \in Seq(Line)
    BY <1>4, PipeTypes DEF DrainLine, LineReady
  <2> QED  BY <1>4, <2>1 DEF DrainLine, RoutePush, LeaveLock
<1>5. CASE DrainQuiet  BY <1>5 DEF DrainQuiet, LeaveLock, Unwait
<1>6. CASE DrainEof  BY <1>6 DEF DrainEof, LeaveLock
<1>7. CASE DrainClash  BY <1>7 DEF DrainClash, LeaveLock
<1> QED  BY <1>1, <1>2, <1>3, <1>4, <1>5, <1>6, <1>7 DEF IdleDrain

LEMMA TypeInterrupt ==
    ASSUME TypeOK, NEW i \in Interrupts,
           InterruptNoop(i) \/ InterruptSignals(i) \/ Interrupting(i)
    PROVE  TypeOK'
<1> USE DEF TypeOK, IntrState, session, pipes, harness, outcome
<1>1. CASE InterruptNoop(i)  BY <1>1 DEF InterruptNoop
<1>2. CASE InterruptSignals(i)  BY <1>2 DEF InterruptSignals
<1>3. CASE InterruptStopsWaiting(i)  BY <1>3 DEF InterruptStopsWaiting
<1>4. CASE InterruptLine(i)
  <2>1. Head(stdout) \in Line /\ Tail(stdout) \in Seq(Line)
    BY <1>4, PipeTypes DEF InterruptLine, LineReady
  <2> QED  BY <1>4, <2>1 DEF InterruptLine
<1>5. CASE InterruptDone(i)  BY <1>5 DEF InterruptDone, Unwait
<1> QED  BY <1>1, <1>2, <1>3, <1>4, <1>5 DEF Interrupting

LEMMA TypeHarness ==
    ASSUME TypeOK, Harness \/ HarnessExits \/ \E b \in Background : HarnessWakes(b)
    PROVE  TypeOK'
<1> USE DEF TypeOK, session, pipes, harness, outcome
<1>1. CASE HarnessTakes
  <2>1. Head(stdin) \in Turns /\ Tail(stdin) \in Seq(Turns)
    BY <1>1, PipeTypes DEF HarnessTakes
  <2> QED  BY <1>1, <2>1 DEF HarnessTakes, Sources
<1>2. CASE HarnessSays
  <2>1. [from |-> working, kind |-> "text"] \in Line
    BY <1>2 DEF HarnessSays, Line
  <2>2. stdout' \in Seq(Line)
    BY <1>2, <2>1 DEF HarnessSays, Emit
  <2> QED  BY <1>2, <2>2 DEF HarnessSays, Emit
<1>3. CASE HarnessFinishes
  <2>1. [from |-> working, kind |-> "result"] \in Line
    BY <1>3 DEF HarnessFinishes, Line
  <2>2. stdout' \in Seq(Line)
    BY <1>3, <2>1 DEF HarnessFinishes, Emit
  <2> QED  BY <1>3, <2>2 DEF HarnessFinishes, Emit
<1>4. CASE HarnessExits  BY <1>4 DEF HarnessExits
<1>5. CASE \E b \in Background : HarnessWakes(b)
  BY <1>5 DEF HarnessWakes, Sources
<1> QED  BY <1>1, <1>2, <1>3, <1>4, <1>5 DEF Harness

LEMMA TypeStep == TypeOK /\ [Next]_vars => TypeOK'
<1> SUFFICES ASSUME TypeOK, [Next]_vars PROVE TypeOK'
  OBVIOUS
<1>1. CASE \E r \in Readers : BlockInRead(r)
  BY <1>1 DEF BlockInRead, TypeOK, session, harness, outcome
<1>2. CASE Teardown
  BY <1>2 DEF Teardown, CancelDrain, Unwait, TypeOK, DrainState, outcome
<1>3. CASE UNCHANGED vars
  BY <1>3 DEF vars, TypeOK, session, pipes, harness, outcome
<1> QED
  BY <1>1, <1>2, <1>3, TypeTurn, TypeDrain, TypeInterrupt, TypeHarness DEF Next

\* The state stays in its types, whatever clients and harness do.
THEOREM TypeCorrect == Spec => []TypeOK
  BY TypeInit, TypeStep, PTL DEF Spec

-----------------------------------------------------------------------------
(* What every execution keeps.                                             *)

LEMMA BusyStep == TypeOK /\ BusyHasTurn /\ [Next]_vars => BusyHasTurn'
<1> SUFFICES ASSUME TypeOK, BusyHasTurn, [Next]_vars PROVE BusyHasTurn'
  OBVIOUS
<1> USE DEF BusyHasTurn, Live
<1>1. ASSUME NEW t \in Turns, Generator(t) \/ Hangup(t) PROVE BusyHasTurn'
  <2> USE <1>1 DEF TypeOK, TurnState, session
  <2>1. CASE AcquireLock(t)  BY <2>1 DEF AcquireLock
  <2>2. CASE FlushLine(t)  BY <2>2 DEF FlushLine
  <2>3. CASE FlushDoneAndWrite(t)  BY <2>3 DEF FlushDoneAndWrite
  <2>4. CASE Sent(t)  BY <2>4 DEF Sent, LoopOrFinish, FinishTurn
  <2>5. CASE StreamLine(t)  BY <2>5 DEF StreamLine
  <2>6. CASE ResumeAfterYield(t)  BY <2>6 DEF ResumeAfterYield, LoopOrFinish, FinishTurn
  <2>7. CASE StopReading(t)  BY <2>7 DEF StopReading, FinishTurn
  <2>8. CASE Hangup(t)  BY <2>8 DEF Hangup, FinishTurn
  <2> QED
    BY <2>1, <2>2, <2>3, <2>4, <2>5, <2>6, <2>7, <2>8 DEF Generator
<1>2. ASSUME NEW t \in Turns, SendRefused(t) \/ SendAccepted(t) \/ SendToDeadProc(t)
      PROVE  BusyHasTurn'
  BY <1>2 DEF SendRefused, SendAccepted, SendToDeadProc, TypeOK, TurnState, session
<1>3. CASE IdleDrain
  BY <1>3 DEF IdleDrain, DrainEnter, DrainGranted, DrainBacksOff, DrainLine, DrainQuiet,
              DrainEof, DrainClash, LeaveLock
<1>4. ASSUME NEW i \in Interrupts, InterruptNoop(i) \/ InterruptSignals(i) \/ Interrupting(i)
      PROVE  BusyHasTurn'
  BY <1>4 DEF InterruptNoop, InterruptSignals, Interrupting, InterruptStopsWaiting,
              InterruptLine, InterruptDone, session
<1>5. CASE Teardown \/ UNCHANGED vars \/ \E r \in Readers : BlockInRead(r)
  BY <1>5 DEF Teardown, BlockInRead, session, vars
<1>6. CASE Harness \/ HarnessExits \/ \E b \in Background : HarnessWakes(b)
  BY <1>6 DEF Harness, HarnessTakes, HarnessSays, HarnessFinishes, HarnessExits,
              HarnessWakes, session
<1> QED  BY <1>1, <1>2, <1>3, <1>4, <1>5, <1>6 DEF Next

\* A session never stays busy with no generator left to free it.
THEOREM BusyCorrect == Spec => []BusyHasTurn
<1>1. Init => BusyHasTurn
  BY DEF Init, BusyHasTurn
<1> QED  BY <1>1, BusyStep, TypeCorrect, PTL DEF Spec

LEMMA LockStep == TypeOK /\ LockHasHolder /\ [Next]_vars => LockHasHolder'
<1> SUFFICES ASSUME TypeOK, LockHasHolder, [Next]_vars PROVE LockHasHolder'
  OBVIOUS
<1> USE DEF LockHasHolder, Holding, DrainHolds
<1>1. ASSUME NEW t \in Turns, Generator(t) \/ Hangup(t) PROVE LockHasHolder'
  <2> USE <1>1 DEF TypeOK, TurnState, session
  <2>1. CASE AcquireLock(t)  BY <2>1 DEF AcquireLock
  <2>2. CASE FlushLine(t)  BY <2>2 DEF FlushLine
  <2>3. CASE FlushDoneAndWrite(t)  BY <2>3 DEF FlushDoneAndWrite
  <2>4. CASE Sent(t)  BY <2>4 DEF Sent, LoopOrFinish, FinishTurn
  <2>5. CASE StreamLine(t)  BY <2>5 DEF StreamLine
  <2>6. CASE ResumeAfterYield(t)  BY <2>6 DEF ResumeAfterYield, LoopOrFinish, FinishTurn
  <2>7. CASE StopReading(t)  BY <2>7 DEF StopReading, FinishTurn
  <2>8. CASE Hangup(t)  BY <2>8 DEF Hangup, FinishTurn
  <2> QED
    BY <2>1, <2>2, <2>3, <2>4, <2>5, <2>6, <2>7, <2>8 DEF Generator
<1>2. ASSUME NEW t \in Turns, SendRefused(t) \/ SendAccepted(t) \/ SendToDeadProc(t)
      PROVE  LockHasHolder'
  BY <1>2 DEF SendRefused, SendAccepted, SendToDeadProc, CancelDrain, TypeOK, TurnState, session
<1>3. CASE IdleDrain
  BY <1>3 DEF IdleDrain, DrainEnter, DrainGranted, DrainBacksOff, DrainLine, DrainQuiet,
              DrainEof, DrainClash, LeaveLock
<1>4. ASSUME NEW i \in Interrupts, InterruptNoop(i) \/ InterruptSignals(i) \/ Interrupting(i)
      PROVE  LockHasHolder'
  BY <1>4 DEF InterruptNoop, InterruptSignals, Interrupting, InterruptStopsWaiting,
              InterruptLine, InterruptDone, session
<1>5. CASE Teardown
  BY <1>5 DEF Teardown, CancelDrain
<1>6. CASE UNCHANGED vars \/ \E r \in Readers : BlockInRead(r)
  BY <1>6 DEF BlockInRead, session, vars
<1>7. CASE Harness \/ HarnessExits \/ \E b \in Background : HarnessWakes(b)
  BY <1>7 DEF Harness, HarnessTakes, HarnessSays, HarnessFinishes, HarnessExits,
              HarnessWakes, session
<1> QED  BY <1>1, <1>2, <1>3, <1>4, <1>5, <1>6, <1>7 DEF Next

\* The stdout lock is never left locked with nobody inside.
THEOREM LockCorrect == Spec => []LockHasHolder
<1>1. Init => LockHasHolder
  BY DEF Init, LockHasHolder
<1> QED  BY <1>1, LockStep, TypeCorrect, PTL DEF Spec

LEMMA CancelStep == TypeOK /\ CancelHasInterrupt /\ [Next]_vars => CancelHasInterrupt'
<1> SUFFICES ASSUME TypeOK, CancelHasInterrupt, [Next]_vars PROVE CancelHasInterrupt'
  OBVIOUS
<1> USE DEF CancelHasInterrupt
<1>1. ASSUME NEW i \in Interrupts, InterruptNoop(i) \/ InterruptSignals(i) \/ Interrupting(i)
      PROVE  CancelHasInterrupt'
  <2> USE DEF TypeOK, IntrState, session
  <2>1. CASE InterruptNoop(i)  BY <2>1 DEF InterruptNoop
  <2>2. CASE InterruptSignals(i)  BY <2>2 DEF InterruptSignals
  <2>3. CASE InterruptStopsWaiting(i)  BY <2>3 DEF InterruptStopsWaiting
  <2>4. CASE InterruptLine(i)  BY <2>4 DEF InterruptLine
  <2>5. CASE InterruptDone(i)  BY <2>5 DEF InterruptDone
  <2> QED  BY <1>1, <2>1, <2>2, <2>3, <2>4, <2>5 DEF Interrupting
<1>2. ASSUME NEW t \in Turns, Generator(t) \/ Hangup(t) PROVE CancelHasInterrupt'
  BY <1>2 DEF Generator, Hangup, AcquireLock, FlushLine, FlushDoneAndWrite, Sent, StreamLine,
              ResumeAfterYield, StopReading, LoopOrFinish, FinishTurn, session
<1>3. ASSUME NEW t \in Turns, SendRefused(t) \/ SendAccepted(t) \/ SendToDeadProc(t)
      PROVE  CancelHasInterrupt'
  BY <1>3 DEF SendRefused, SendAccepted, SendToDeadProc, session
<1>4. CASE IdleDrain
  BY <1>4 DEF IdleDrain, DrainEnter, DrainGranted, DrainBacksOff, DrainLine, DrainQuiet,
              DrainEof, DrainClash, LeaveLock
<1>5. CASE Teardown \/ UNCHANGED vars \/ \E r \in Readers : BlockInRead(r)
  BY <1>5 DEF Teardown, BlockInRead, session, vars
<1>6. CASE Harness \/ HarnessExits \/ \E b \in Background : HarnessWakes(b)
  BY <1>6 DEF Harness, HarnessTakes, HarnessSays, HarnessFinishes, HarnessExits,
              HarnessWakes, session
<1> QED  BY <1>1, <1>2, <1>3, <1>4, <1>5, <1>6 DEF Next

\* The cancel event never outlives the interrupts that set it.
THEOREM CancelCorrect == Spec => []CancelHasInterrupt
<1>1. Init => CancelHasInterrupt
  BY DEF Init, CancelHasInterrupt
<1> QED  BY <1>1, CancelStep, TypeCorrect, PTL DEF Spec

LEMMA WaiterStep == TypeOK /\ WaiterIsReading /\ [Next]_vars => WaiterIsReading'
<1> SUFFICES ASSUME TypeOK, WaiterIsReading, [Next]_vars PROVE WaiterIsReading'
  OBVIOUS
<1> USE StreamAssumption DEF WaiterIsReading, Reading, Readers
<1>1. ASSUME NEW t \in Turns, Generator(t) \/ Hangup(t) PROVE WaiterIsReading'
  <2> USE <1>1 DEF TypeOK, TurnState, session, pipes, harness
  <2>1. CASE AcquireLock(t)  BY <2>1 DEF AcquireLock
  <2>2. CASE FlushLine(t)  BY <2>2 DEF FlushLine, LineReady
  <2>3. CASE FlushDoneAndWrite(t)  BY <2>3 DEF FlushDoneAndWrite, Unwait
  <2>4. CASE Sent(t)  BY <2>4 DEF Sent, LoopOrFinish, FinishTurn
  <2>5. CASE StreamLine(t)  BY <2>5 DEF StreamLine, LineReady
  <2>6. CASE ResumeAfterYield(t)  BY <2>6 DEF ResumeAfterYield, LoopOrFinish, FinishTurn
  <2>7. CASE StopReading(t)  BY <2>7 DEF StopReading, FinishTurn, Unwait
  <2>8. CASE Hangup(t)  BY <2>8 DEF Hangup, FinishTurn, Unwait
  <2> QED
    BY <2>1, <2>2, <2>3, <2>4, <2>5, <2>6, <2>7, <2>8 DEF Generator
<1>2. ASSUME NEW t \in Turns, SendRefused(t) \/ SendAccepted(t) \/ SendToDeadProc(t)
      PROVE  WaiterIsReading'
  <2> USE DEF TypeOK, TurnState, pipes, harness
  <2>1. CASE SendRefused(t)  BY <2>1 DEF SendRefused
  <2>2. CASE SendAccepted(t)  BY <2>2 DEF SendAccepted
  <2>3. CASE SendToDeadProc(t)  BY <2>3 DEF SendToDeadProc, CancelDrain, Unwait
  <2> QED  BY <1>2, <2>1, <2>2, <2>3
<1>3. CASE IdleDrain
  <2> USE DEF TypeOK, DrainState, pipes, harness
  <2>1. CASE DrainEnter  BY <2>1 DEF DrainEnter
  <2>2. CASE DrainGranted  BY <2>2 DEF DrainGranted
  <2>3. CASE DrainBacksOff  BY <2>3 DEF DrainBacksOff, LeaveLock
  <2>4. CASE DrainLine  BY <2>4 DEF DrainLine, LineReady
  <2>5. CASE DrainQuiet  BY <2>5 DEF DrainQuiet, LeaveLock, Unwait, TimesOut
  <2>6. CASE DrainEof  BY <2>6 DEF DrainEof, AtEof, LeaveLock
  <2>7. CASE DrainClash  BY <2>7 DEF DrainClash, Clash, LeaveLock
  <2> QED  BY <1>3, <2>1, <2>2, <2>3, <2>4, <2>5, <2>6, <2>7 DEF IdleDrain
<1>4. ASSUME NEW i \in Interrupts, InterruptNoop(i) \/ InterruptSignals(i) \/ Interrupting(i)
      PROVE  WaiterIsReading'
  <2> USE DEF TypeOK, IntrState, pipes, harness
  <2>1. CASE InterruptNoop(i)  BY <2>1 DEF InterruptNoop
  <2>2. CASE InterruptSignals(i)  BY <2>2 DEF InterruptSignals
  <2>3. CASE InterruptStopsWaiting(i)  BY <2>3 DEF InterruptStopsWaiting
  <2>4. CASE InterruptLine(i)  BY <2>4 DEF InterruptLine, LineReady
  <2>5. CASE InterruptDone(i)  BY <2>5 DEF InterruptDone, Unwait
  <2> QED  BY <1>4, <2>1, <2>2, <2>3, <2>4, <2>5 DEF Interrupting
<1>5. ASSUME NEW r \in Readers, BlockInRead(r) PROVE WaiterIsReading'
  BY <1>5 DEF BlockInRead, harness
<1>6. CASE Teardown
  BY <1>6 DEF Teardown, CancelDrain, Unwait, TypeOK, DrainState
<1>7. CASE Harness \/ HarnessExits \/ \E b \in Background : HarnessWakes(b)
  BY <1>7 DEF Harness, HarnessTakes, HarnessSays, HarnessFinishes, HarnessExits,
              HarnessWakes, Emit, pipes
<1>8. CASE UNCHANGED vars
  BY <1>8 DEF vars, pipes, harness
<1> QED  BY <1>1, <1>2, <1>3, <1>4, <1>5, <1>6, <1>7, <1>8 DEF Next

\* No readline leaves its registration behind.
THEOREM WaiterCorrect == Spec => []WaiterIsReading
<1>1. Init => WaiterIsReading
  BY DEF Init, WaiterIsReading
<1> QED  BY <1>1, WaiterStep, TypeCorrect, PTL DEF Spec

\* Nothing is left set by a coroutine that is no longer there to clear it.
THEOREM NothingLeftCorrect == Spec => []NothingLeftSet
<1>1. BusyHasTurn /\ LockHasHolder /\ CancelHasInterrupt /\ WaiterIsReading => NothingLeftSet
  BY DEF NothingLeftSet
<1> QED  BY <1>1, BusyCorrect, LockCorrect, CancelCorrect, WaiterCorrect, PTL

LEMMA ResultStep == TypeOK /\ ResultIsLast /\ [Next]_vars => ResultIsLast'
<1> SUFFICES ASSUME TypeOK, ResultIsLast, [Next]_vars PROVE ResultIsLast'
  OBVIOUS
<1> USE DEF ResultIsLast
<1>1. ASSUME NEW t \in Turns, Generator(t) \/ Hangup(t) PROVE ResultIsLast'
  <2> USE <1>1 DEF TypeOK, TurnState, outcome
  <2>1. CASE AcquireLock(t)  BY <2>1 DEF AcquireLock
  <2>2. CASE FlushLine(t)  BY <2>2 DEF FlushLine
  <2>3. CASE FlushDoneAndWrite(t)  BY <2>3 DEF FlushDoneAndWrite
  <2>4. CASE Sent(t)  BY <2>4 DEF Sent, LoopOrFinish, FinishTurn
  <2>5. CASE StreamLine(t)
    <3>1. \A n \in DOMAIN heard[t] : heard[t][n] \notin Results
      BY <2>5 DEF StreamLine
    <3>2. Head(stdout) \in Line
      BY <2>5, PipeTypes DEF StreamLine, LineReady
    <3>3. heard'[t] = Append(heard[t], Head(stdout)) /\ turn'[t] = "yield"
      BY <2>5 DEF StreamLine
    <3>4. \A u \in Turns \ {t} : heard'[u] = heard[u] /\ turn'[u] = turn[u]
      BY <2>5 DEF StreamLine
    <3>5. \A n \in DOMAIN heard'[t] : heard'[t][n] \in Results => n = Len(heard'[t])
      <4>1. heard[t] \in Seq(Line)
        OBVIOUS
      <4>2. \A n \in DOMAIN heard'[t] : n # Len(heard'[t]) =>
                n \in DOMAIN heard[t] /\ heard'[t][n] = heard[t][n]
        BY <3>2, <3>3, <4>1
      <4> QED  BY <3>1, <4>2
    <3> QED  BY <3>3, <3>4, <3>5
  <2>6. CASE ResumeAfterYield(t)
    <3>1. \A u \in Turns \ {t} : heard'[u] = heard[u] /\ turn'[u] = turn[u]
      BY <2>6 DEF ResumeAfterYield, LoopOrFinish, FinishTurn
    <3>2. heard'[t] = heard[t]
      BY <2>6 DEF ResumeAfterYield
    <3>3. \/ turn'[t] = "ended"
          \/ heard[t][Len(heard[t])] \notin Results
      BY <2>6 DEF ResumeAfterYield, FinishTurn
    <3> QED  BY <3>1, <3>2, <3>3
  <2>7. CASE StopReading(t)  BY <2>7 DEF StopReading, FinishTurn
  <2>8. CASE Hangup(t)  BY <2>8 DEF Hangup, FinishTurn
  <2> QED
    BY <2>1, <2>2, <2>3, <2>4, <2>5, <2>6, <2>7, <2>8 DEF Generator
<1>2. ASSUME NEW t \in Turns, SendRefused(t) \/ SendAccepted(t) \/ SendToDeadProc(t)
      PROVE  ResultIsLast'
  BY <1>2 DEF SendRefused, SendAccepted, SendToDeadProc, TypeOK, TurnState, outcome
<1>3. CASE IdleDrain
  BY <1>3 DEF IdleDrain, DrainEnter, DrainGranted, DrainBacksOff, DrainLine, DrainQuiet,
              DrainEof, DrainClash, outcome
<1>4. ASSUME NEW i \in Interrupts, InterruptNoop(i) \/ InterruptSignals(i) \/ Interrupting(i)
      PROVE  ResultIsLast'
  BY <1>4 DEF InterruptNoop, InterruptSignals, Interrupting, InterruptStopsWaiting,
              InterruptLine, InterruptDone, outcome
<1>5. CASE Teardown \/ UNCHANGED vars \/ \E r \in Readers : BlockInRead(r)
  BY <1>5 DEF Teardown, BlockInRead, outcome, vars
<1>6. CASE Harness \/ HarnessExits \/ \E b \in Background : HarnessWakes(b)
  BY <1>6 DEF Harness, HarnessTakes, HarnessSays, HarnessFinishes, HarnessExits,
              HarnessWakes, outcome
<1> QED  BY <1>1, <1>2, <1>3, <1>4, <1>5, <1>6 DEF Next

\* Nothing is streamed on a turn after its result.
THEOREM ResultCorrect == Spec => []ResultIsLast
<1>1. Init => ResultIsLast
  BY DEF Init, ResultIsLast
<1> QED  BY <1>1, ResultStep, TypeCorrect, PTL DEF Spec

-----------------------------------------------------------------------------
(* Sessions no client hangs up on.                                         *)

\* A reader inside holds the lock, so that no other gets in.
PatientInv == /\ OneReaderInside
              /\ \A t \in Turns : Holding(t) => locked
              /\ DrainHolds => locked

LEMMA PatientStep ==
    ASSUME Impatient = {}, TypeOK, PatientInv, [Next]_vars
    PROVE  PatientInv'
<1> USE DEF PatientInv, OneReaderInside, Holding, DrainHolds
<1>1. ASSUME NEW t \in Turns, Generator(t) PROVE PatientInv'
  <2> USE <1>1 DEF TypeOK, TurnState, session
  <2>1. CASE AcquireLock(t)  BY <2>1 DEF AcquireLock
  <2>2. CASE FlushLine(t)  BY <2>2 DEF FlushLine
  <2>3. CASE FlushDoneAndWrite(t)  BY <2>3 DEF FlushDoneAndWrite
  <2>4. CASE Sent(t)  BY <2>4 DEF Sent, LoopOrFinish, FinishTurn
  <2>5. CASE StreamLine(t)  BY <2>5 DEF StreamLine
  <2>6. CASE ResumeAfterYield(t)  BY <2>6 DEF ResumeAfterYield, LoopOrFinish, FinishTurn
  <2>7. CASE StopReading(t)  BY <2>7 DEF StopReading, FinishTurn
  <2> QED
    BY <2>1, <2>2, <2>3, <2>4, <2>5, <2>6, <2>7 DEF Generator
<1>2. ASSUME NEW t \in Turns, SendRefused(t) \/ SendAccepted(t) \/ SendToDeadProc(t)
      PROVE  PatientInv'
  BY <1>2 DEF SendRefused, SendAccepted, SendToDeadProc, CancelDrain, TypeOK, TurnState, session
<1>3. CASE IdleDrain
  <2> USE DEF TypeOK, DrainState, session
  <2>1. CASE DrainEnter  BY <2>1 DEF DrainEnter
  <2>2. CASE DrainGranted  BY <2>2 DEF DrainGranted
  <2>3. CASE DrainBacksOff  BY <2>3 DEF DrainBacksOff, LeaveLock
  <2>4. CASE DrainLine  BY <2>4 DEF DrainLine, LeaveLock
  <2>5. CASE DrainQuiet  BY <2>5 DEF DrainQuiet, LeaveLock
  <2>6. CASE DrainEof  BY <2>6 DEF DrainEof, LeaveLock
  <2>7. CASE DrainClash  BY <2>7 DEF DrainClash, LeaveLock
  <2> QED  BY <1>3, <2>1, <2>2, <2>3, <2>4, <2>5, <2>6, <2>7 DEF IdleDrain
<1>4. ASSUME NEW i \in Interrupts, InterruptNoop(i) \/ InterruptSignals(i) \/ Interrupting(i)
      PROVE  PatientInv'
  BY <1>4 DEF InterruptNoop, InterruptSignals, Interrupting, InterruptStopsWaiting,
              InterruptLine, InterruptDone, session
<1>5. CASE Teardown
  BY <1>5 DEF Teardown, CancelDrain
<1>6. CASE UNCHANGED vars \/ \E r \in Readers : BlockInRead(r)
  BY <1>6 DEF BlockInRead, session, vars
<1>7. CASE Harness \/ HarnessExits \/ \E b \in Background : HarnessWakes(b)
  BY <1>7 DEF Harness, HarnessTakes, HarnessSays, HarnessFinishes, HarnessExits,
              HarnessWakes, session
<1> QED  BY <1>1, <1>2, <1>3, <1>4, <1>5, <1>6, <1>7 DEF Next, Hangup

LEMMA PatientInvariance == ASSUME Impatient = {} PROVE Spec => []PatientInv
<1>1. Init => PatientInv
  BY DEF Init, PatientInv, OneReaderInside, Holding, DrainHolds
<1>2. TypeOK /\ PatientInv /\ [Next]_vars => PatientInv'
  BY PatientStep
<1> QED  BY <1>1, <1>2, TypeCorrect, PTL DEF Spec

\* As long as clients stay on the line, the lock keeps the readers of turns
\* and the idle drain apart, through any number of interrupts.
THEOREM OneReaderCorrect == ASSUME Impatient = {} PROVE Spec => []OneReaderInside
<1>1. PatientInv => OneReaderInside
  BY DEF PatientInv
<1> QED  BY <1>1, PatientInvariance, PTL

LEMMA DrainStep ==
    ASSUME Impatient = {}, Interrupts = {}, TypeOK, PatientInv, WaiterIsReading,
           DrainSurvives, [Next]_vars
    PROVE  DrainSurvives'
<1> USE DEF DrainSurvives
<1>1. CASE IdleDrain
  <2>1. drain = "read" => ~Clash(Drain)
    BY DEF PatientInv, OneReaderInside, Holding, DrainHolds, WaiterIsReading, Reading, Clash
  <2>2. drain \in {"hold", "read"} => locked
    BY DEF PatientInv, DrainHolds
  <2> QED
    BY <1>1, <2>1, <2>2 DEF IdleDrain, DrainEnter, DrainGranted, DrainBacksOff, DrainLine,
       DrainQuiet, DrainEof, DrainClash, LeaveLock
<1>2. ASSUME NEW t \in Turns, Generator(t) \/ SendRefused(t) \/ SendAccepted(t) \/ SendToDeadProc(t)
      PROVE  DrainSurvives'
  BY <1>2 DEF Generator, AcquireLock, FlushLine, FlushDoneAndWrite, Sent, StreamLine,
              ResumeAfterYield, StopReading, SendRefused, SendAccepted, SendToDeadProc, CancelDrain
<1>3. CASE Teardown \/ UNCHANGED vars \/ \E r \in Readers : BlockInRead(r)
  BY <1>3 DEF Teardown, CancelDrain, BlockInRead, vars
<1>4. CASE Harness \/ HarnessExits \/ \E b \in Background : HarnessWakes(b)
  BY <1>4 DEF Harness, HarnessTakes, HarnessSays, HarnessFinishes, HarnessExits, HarnessWakes
<1> QED  BY <1>1, <1>2, <1>3, <1>4 DEF Next, Hangup

\* With neither hangups nor interrupts the idle drain never meets another
\* reader: no RuntimeError can end it before its session does.
THEOREM DrainCorrect ==
    ASSUME Impatient = {}, Interrupts = {} PROVE Spec => []DrainSurvives
<1>1. Init => DrainSurvives
  BY DEF Init, DrainSurvives
<1>2. TypeOK /\ PatientInv /\ WaiterIsReading /\ DrainSurvives /\ [Next]_vars => DrainSurvives'
  BY DrainStep
<1> QED
  BY <1>1, <1>2, TypeCorrect, PatientInvariance, WaiterCorrect, PTL DEF Spec

\* The two readers of stdout share it, if no client hangs up and nobody interrupts.
THEOREM SharedCorrect ==
    ASSUME Impatient = {}, Interrupts = {} PROVE Spec => []StdoutIsShared
<1> QED
  BY OneReaderCorrect, DrainCorrect, PTL DEF StdoutIsShared

-----------------------------------------------------------------------------
(* Sessions nobody interrupts, and the promise of POST message.            *)

\* in_flight is up for as long as a generator is alive.
UninterruptedInv == /\ OneTurnAtATime
                    /\ \A t \in Turns : Live(t) => inFlight

LEMMA UninterruptedStep ==
    ASSUME Interrupts = {}, TypeOK, UninterruptedInv, [Next]_vars
    PROVE  UninterruptedInv'
<1> USE DEF UninterruptedInv, OneTurnAtATime, Live
<1>1. ASSUME NEW t \in Turns, Generator(t) \/ Hangup(t) PROVE UninterruptedInv'
  <2> USE <1>1 DEF TypeOK, TurnState, session
  <2>1. CASE AcquireLock(t)  BY <2>1 DEF AcquireLock
  <2>2. CASE FlushLine(t)  BY <2>2 DEF FlushLine
  <2>3. CASE FlushDoneAndWrite(t)  BY <2>3 DEF FlushDoneAndWrite
  <2>4. CASE Sent(t)  BY <2>4 DEF Sent, LoopOrFinish, FinishTurn
  <2>5. CASE StreamLine(t)  BY <2>5 DEF StreamLine
  <2>6. CASE ResumeAfterYield(t)  BY <2>6 DEF ResumeAfterYield, LoopOrFinish, FinishTurn
  <2>7. CASE StopReading(t)  BY <2>7 DEF StopReading, FinishTurn
  <2>8. CASE Hangup(t)  BY <2>8 DEF Hangup, FinishTurn
  <2> QED
    BY <2>1, <2>2, <2>3, <2>4, <2>5, <2>6, <2>7, <2>8 DEF Generator
<1>2. ASSUME NEW t \in Turns, SendRefused(t) \/ SendAccepted(t) \/ SendToDeadProc(t)
      PROVE  UninterruptedInv'
  BY <1>2 DEF SendRefused, SendAccepted, SendToDeadProc, TypeOK, TurnState, session
<1>3. CASE IdleDrain
  BY <1>3 DEF IdleDrain, DrainEnter, DrainGranted, DrainBacksOff, DrainLine, DrainQuiet,
              DrainEof, DrainClash, LeaveLock
<1>4. CASE Teardown \/ UNCHANGED vars \/ \E r \in Readers : BlockInRead(r)
  BY <1>4 DEF Teardown, BlockInRead, session, vars
<1>5. CASE Harness \/ HarnessExits \/ \E b \in Background : HarnessWakes(b)
  BY <1>5 DEF Harness, HarnessTakes, HarnessSays, HarnessFinishes, HarnessExits,
              HarnessWakes, session
<1> QED  BY <1>1, <1>2, <1>3, <1>4, <1>5 DEF Next

LEMMA UninterruptedInvariance == ASSUME Interrupts = {} PROVE Spec => []UninterruptedInv
<1>1. Init => UninterruptedInv
  BY DEF Init, UninterruptedInv, OneTurnAtATime, Live
<1>2. TypeOK /\ UninterruptedInv /\ [Next]_vars => UninterruptedInv'
  BY UninterruptedStep
<1> QED  BY <1>1, <1>2, TypeCorrect, PTL DEF Spec

\* The 409 guard keeps turns apart as long as no interrupt overrides in_flight,
\* whichever clients hang up.
THEOREM OneTurnCorrect == ASSUME Interrupts = {} PROVE Spec => []OneTurnAtATime
<1>1. UninterruptedInv => OneTurnAtATime
  BY DEF UninterruptedInv
<1> QED  BY <1>1, UninterruptedInvariance, PTL

\* The abstract phases move with the program counters of the generators.
PhaseNow == [t \in Turns |-> Phase(t)]

LEMMA PhaseSame ==
    ASSUME TypeOK, TypeOK', \A t \in Turns : (Live(t) /\ Live(t)') \/ turn'[t] = turn[t]
    PROVE  PhaseNow' = PhaseNow
  BY DEF PhaseNow, Phase, Live

LEMMA PhaseMoves ==
    ASSUME TypeOK, NEW t \in Turns, NEW p \in TurnState,
           turn' = [turn EXCEPT ![t] = p]
    PROVE  PhaseNow' = [PhaseNow EXCEPT ![t] =
                          IF p \in {"acquire", "flush", "send", "read", "yield"} THEN "open"
                          ELSE IF p = "ended" THEN "closed" ELSE p]
<1>1. \A u \in Turns \ {t} : turn'[u] = turn[u]
  BY DEF TypeOK
<1>2. turn'[t] = p
  BY DEF TypeOK
<1> QED  BY <1>1, <1>2 DEF PhaseNow, Phase, Live

LEMMA FinishCloses ==
    ASSUME TypeOK, NEW t \in Turns, Live(t), FinishTurn(t), UNCHANGED heard
    PROVE  Service!Close(t)
<1>1. PhaseNow' = [PhaseNow EXCEPT ![t] = "closed"]
  BY PhaseMoves DEF FinishTurn, TurnState
<1> QED  BY <1>1 DEF Service!Close, FinishTurn, PhaseNow, Phase

LEMMA ServiceTurn ==
    ASSUME Interrupts = {}, TypeOK, TypeOK', BusyHasTurn, UninterruptedInv, ResultIsLast,
           NEW t \in Turns,
           \/ SendRefused(t) \/ SendAccepted(t) \/ SendToDeadProc(t)
           \/ Generator(t) \/ Hangup(t)
    PROVE  [Service!Next]_(Service!vars)
<1> DEFINE Stutters == PhaseNow' = PhaseNow /\ UNCHANGED <<heard, registered>>
<1>0. Stutters => UNCHANGED Service!vars
  BY DEF Service!vars, PhaseNow
<1>1. CASE SendRefused(t)
  <2>1. PhaseNow' = [PhaseNow EXCEPT ![t] = "refused"] /\ PhaseNow[t] = "new"
    BY <1>1, PhaseMoves DEF SendRefused, TurnState, PhaseNow, Phase, Live
  <2>2. inFlight => Service!Busy
    BY DEF BusyHasTurn, Service!Busy, Phase
  <2> QED  BY <1>1, <2>1, <2>2 DEF SendRefused, Service!Refuse, Service!Next, PhaseNow, session, outcome
<1>2. CASE SendAccepted(t)
  <2>1. PhaseNow' = [PhaseNow EXCEPT ![t] = "open"] /\ PhaseNow[t] = "new"
    BY <1>2, PhaseMoves DEF SendAccepted, TurnState, PhaseNow, Phase, Live
  <2>2. ~Service!Busy
    BY <1>2 DEF SendAccepted, UninterruptedInv, Service!Busy, Phase, TypeOK, TurnState
  <2> QED  BY <1>2, <2>1, <2>2 DEF SendAccepted, Service!Accept, Service!Next, PhaseNow, outcome
<1>3. CASE SendToDeadProc(t)
  <2>1. PhaseNow' = [PhaseNow EXCEPT ![t] = "refused"] /\ PhaseNow[t] = "new"
    BY <1>3, PhaseMoves DEF SendToDeadProc, TurnState, PhaseNow, Phase, Live
  <2> QED  BY <1>3, <2>1 DEF SendToDeadProc, Service!Refuse, Service!Next, PhaseNow, outcome
<1>4. CASE AcquireLock(t) \/ FlushLine(t) \/ FlushDoneAndWrite(t)
  <2>1. \A u \in Turns : (Live(u) /\ Live(u)') \/ turn'[u] = turn[u]
    BY <1>4 DEF AcquireLock, FlushLine, FlushDoneAndWrite, Live, TypeOK
  <2> QED
    BY <1>0, <1>4, <2>1, PhaseSame
    DEF AcquireLock, FlushLine, FlushDoneAndWrite, session, outcome
<1>5. CASE Sent(t) \/ ResumeAfterYield(t)
  <2>1. Live(t) /\ UNCHANGED heard
    BY <1>5 DEF Sent, ResumeAfterYield, Live, outcome
  <2>2. CASE FinishTurn(t)
    BY <2>1, <2>2, FinishCloses DEF Service!Next
  <2>3. CASE ~FinishTurn(t)
    <3>1. turn' = [turn EXCEPT ![t] = "read"] /\ UNCHANGED registered
      BY <1>5, <2>3 DEF Sent, ResumeAfterYield, LoopOrFinish, session
    <3>2. \A u \in Turns : (Live(u) /\ Live(u)') \/ turn'[u] = turn[u]
      BY <2>1, <3>1 DEF Live, TypeOK
    <3> QED  BY <1>0, <2>1, <3>1, <3>2, PhaseSame
  <2> QED  BY <2>2, <2>3
<1>6. CASE StreamLine(t)
  <2>1. \A u \in Turns : (Live(u) /\ Live(u)') \/ turn'[u] = turn[u]
    BY <1>6 DEF StreamLine, Live, TypeOK
  <2>2. PhaseNow' = PhaseNow /\ PhaseNow[t] = "open"
    BY <1>6, <2>1, PhaseSame DEF StreamLine, PhaseNow, Phase, Live
  <2>3. Head(stdout) \in Line
    BY <1>6, PipeTypes DEF StreamLine, LineReady, TypeOK
  <2>4. ~Service!Finished(t)
    BY <1>6 DEF StreamLine, ResultIsLast, Service!Finished
  <2>5. UNCHANGED registered
    BY <1>6 DEF StreamLine, session
  <2>6. heard' = [heard EXCEPT ![t] = Append(@, Head(stdout))]
    BY <1>6 DEF StreamLine
  <2> QED  BY <2>2, <2>3, <2>4, <2>5, <2>6 DEF Service!Stream, Service!Next, PhaseNow
<1>7. CASE StopReading(t) \/ Hangup(t)
  <2>1. Live(t) /\ FinishTurn(t) /\ UNCHANGED heard
    BY <1>7 DEF StopReading, Hangup, Live, outcome
  <2> QED  BY <2>1, FinishCloses DEF Service!Next
<1> QED
  BY <1>1, <1>2, <1>3, <1>4, <1>5, <1>6, <1>7 DEF Generator

LEMMA ServiceStep ==
    ASSUME Interrupts = {}, TypeOK, TypeOK', BusyHasTurn, UninterruptedInv, ResultIsLast,
           [Next]_vars
    PROVE  [Service!Next]_(Service!vars)
<1>1. ASSUME UNCHANGED <<turn, heard, registered>> PROVE UNCHANGED Service!vars
  BY <1>1, PhaseSame DEF Service!vars, PhaseNow
<1>2. CASE Teardown
  <2>1. PhaseNow' = PhaseNow
    BY <1>2, PhaseSame DEF Teardown
  <2> QED  BY <1>2, <2>1 DEF Teardown, Service!Withdraw, Service!Next, PhaseNow, outcome
<1>3. CASE IdleDrain
  BY <1>1, <1>3 DEF IdleDrain, DrainEnter, DrainGranted, DrainBacksOff, DrainLine, DrainQuiet,
                    DrainEof, DrainClash, LeaveLock, outcome
<1>4. CASE UNCHANGED vars \/ \E r \in Readers : BlockInRead(r)
  BY <1>1, <1>4 DEF BlockInRead, session, outcome, vars
<1>5. CASE Harness \/ HarnessExits \/ \E b \in Background : HarnessWakes(b)
  BY <1>1, <1>5 DEF Harness, HarnessTakes, HarnessSays, HarnessFinishes, HarnessExits,
                    HarnessWakes, session, outcome
<1> QED  BY <1>2, <1>3, <1>4, <1>5, ServiceTurn DEF Next

\* Without interrupts the handlers implement the promise of POST message.
THEOREM ServiceCorrect == ASSUME Interrupts = {} PROVE Spec => ServiceSpec
<1>1. Init => Service!Init
  BY DEF Init, Service!Init, Phase, Live
<1>2. TypeOK /\ TypeOK' /\ BusyHasTurn /\ UninterruptedInv /\ ResultIsLast /\ [Next]_vars
      => [Service!Next]_(Service!vars)
  BY ServiceStep
<1> QED
  BY <1>1, <1>2, TypeCorrect, BusyCorrect, UninterruptedInvariance, ResultCorrect, PTL
  DEF Spec, ServiceSpec, Service!Spec

-----------------------------------------------------------------------------
(* Sessions whose clients neither hang up nor interrupt.                   *)

Text(t)   == [from |-> t, kind |-> "text"]
Result(t) == [from |-> t, kind |-> "result"]
Asked(t)  == turn[t] \in {"send", "read", "yield"}

\* Nothing is on its way between the handlers and the harness.
Quiet == stdin = <<>> /\ stdout = <<>> /\ working = None /\ ~said

\* How far the answer of turn t is: not begun, its text written, or finished;
\* and what of it the client has been streamed.
NotBegun(t) == /\ ~said /\ heard[t] = <<>> /\ stdout = <<>>
               /\ (stdin = <<t>> /\ working = None) \/ (stdin = <<>> /\ working = t)
HalfSaid(t) == /\ said /\ stdin = <<>> /\ working = t
               /\ \/ heard[t] = <<>> /\ stdout = <<Text(t)>>
                  \/ heard[t] = <<Text(t)>> /\ stdout = <<>>
AllSaid(t)  == /\ ~said /\ stdin = <<>> /\ working = None
               /\ \/ heard[t] = <<>> /\ stdout = <<Text(t), Result(t)>>
                  \/ heard[t] = <<Text(t)>> /\ stdout = <<Result(t)>>
                  \/ heard[t] = <<Text(t), Result(t)>> /\ stdout = <<>>
Served(t) == NotBegun(t) \/ HalfSaid(t) \/ AllSaid(t)

Streamed(t) == /\ Asked(t) => Served(t)
               /\ turn[t] = "yield" => heard[t] # <<>>
               /\ turn[t] \in {"new", "acquire", "flush", "refused"} => heard[t] = <<>>
               /\ turn[t] = "ended" => heard[t] = <<Text(t), Result(t)>>

Unasked == woken = {} /\ proc # "gone"

\* While the harness only does what it is asked, the pipes hold the rest of the
\* one answer that is under way and nothing else.
AnswerInv == Unasked => /\ ~sigint
                        /\ (\A t \in Turns : ~Asked(t)) => Quiet
                        /\ \A t \in Turns : Streamed(t)

Undisturbed == /\ TypeOK /\ PatientInv /\ WaiterIsReading /\ CancelHasInterrupt

\* Streaming the first line of a pipe of one or two lines.
LEMMA OneLine ==
    ASSUME NEW S, NEW a \in S
    PROVE  /\ Head(<<a>>) = a /\ Tail(<<a>>) = <<>> /\ Append(<<>>, a) = <<a>>
           /\ <<a>> # <<>> /\ Len(<<a>>) = 1 /\ <<a>>[1] = a
  OBVIOUS

LEMMA TwoLines ==
    ASSUME NEW S, NEW a \in S, NEW b \in S
    PROVE  /\ Head(<<a, b>>) = a /\ Tail(<<a, b>>) = <<b>> /\ Append(<<a>>, b) = <<a, b>>
           /\ <<a, b>> # <<>> /\ Len(<<a, b>>) = 2 /\ <<a, b>>[2] = b
<1>1. <<a, b>> # <<>> /\ Len(<<a, b>>) = 2 /\ <<a, b>>[2] = b /\ Head(<<a, b>>) = a
  OBVIOUS
<1>2. Append(<<a>>, b) = <<a, b>>
  <2>1. /\ Append(<<a>>, b) \in Seq(S) /\ Len(Append(<<a>>, b)) = 2
        /\ Append(<<a>>, b)[1] = a /\ Append(<<a>>, b)[2] = b
    OBVIOUS
  <2>2. <<a, b>> \in Seq(S) /\ <<a, b>>[1] = a
    OBVIOUS
  <2>3. \A n \in 1..2 : n = 1 \/ n = 2
    OBVIOUS
  <2>4. \A n \in 1..2 : Append(<<a>>, b)[n] = <<a, b>>[n]
    BY <1>1, <2>1, <2>2, <2>3
  <2> DEFINE p == Append(<<a>>, b)  q == <<a, b>>
  <2>5. p \in Seq(S) /\ q \in Seq(S) /\ Len(p) = Len(q) /\ \A n \in 1..Len(p) : p[n] = q[n]
    BY <1>1, <2>1, <2>2, <2>4
  <2> HIDE DEF p, q
  <2>6. p = q
    BY <2>5
  <2> QED  BY <2>6 DEF p, q
<1>3. Tail(<<a, b>>) = <<b>>
  <2>1. Tail(<<a, b>>) \in Seq(S) /\ Len(Tail(<<a, b>>)) = 1 /\ Tail(<<a, b>>)[1] = b
    OBVIOUS
  <2>2. <<b>> \in Seq(S) /\ Len(<<b>>) = 1 /\ <<b>>[1] = b
    OBVIOUS
  <2> QED  BY <2>1, <2>2
<1> QED  BY <1>1, <1>2, <1>3

LEMMA AnswerLines ==
    ASSUME NEW t \in Turns
    PROVE  /\ Text(t) \in Line /\ Result(t) \in Line
           /\ Text(t) \notin Results /\ Result(t) \in Results
  BY DEF Text, Result, Line, Results, Sources

\* The one turn that is inside keeps every other reader out.
LEMMA AloneInside ==
    ASSUME Interrupts = {}, Undisturbed, Unasked, NEW t \in Turns, Holding(t)
    PROVE  /\ ~DrainHolds
           /\ \A u \in Turns \ {t} : ~Asked(u) /\ turn[u] # "flush"
           /\ turn[t] \in {"flush", "read"} => ~Clash(t)
           /\ ~AtEof /\ ~cancel
<1> USE DEF Undisturbed, PatientInv, OneReaderInside, Holding, DrainHolds, Asked
<1>1. ~DrainHolds /\ \A u \in Turns \ {t} : ~Asked(u) /\ turn[u] # "flush"
  OBVIOUS
<1>2. turn[t] \in {"flush", "read"} => ~Clash(t)
  BY <1>1 DEF WaiterIsReading, Reading, Clash, Readers
<1>3. ~AtEof /\ ~cancel
  BY DEF Unasked, AtEof, CancelHasInterrupt
<1> QED  BY <1>1, <1>2, <1>3

\* A step of one turn leaves the answers of the others as they were.
LEMMA OthersStay ==
    ASSUME TypeOK, NEW t \in Turns, \A u \in Turns \ {t} : ~Asked(u) /\ Streamed(u),
           NEW p \in TurnState, turn' = [turn EXCEPT ![t] = p],
           \A u \in Turns \ {t} : heard'[u] = heard[u]
    PROVE  \A u \in Turns \ {t} : ~Asked(u)' /\ Streamed(u)'
<1> TAKE u \in Turns \ {t}
<1>1. turn'[u] = turn[u] /\ heard'[u] = heard[u]
  BY DEF TypeOK
<1> QED  BY <1>1 DEF Asked, Streamed

LEMMA AnswerTurn ==
    ASSUME Impatient = {}, Interrupts = {}, Undisturbed, AnswerInv, Unasked', 
           NEW t \in Turns, Generator(t)
    PROVE  AnswerInv'
<1>0. Unasked
  BY DEF Unasked, Generator, AcquireLock, FlushLine, FlushDoneAndWrite, Sent, StreamLine,
         ResumeAfterYield, StopReading, harness
<1>1. sigint' = sigint /\ ~sigint
  BY <1>0 DEF AnswerInv, Generator, AcquireLock, FlushLine, FlushDoneAndWrite, Sent, StreamLine,
         ResumeAfterYield, StopReading, harness
<1>2. \A u \in Turns : Streamed(u)
  BY <1>0 DEF AnswerInv
<1>t. TypeOK /\ t \in DOMAIN turn /\ t \in DOMAIN heard
  BY DEF Undisturbed, TypeOK
<1>n. <<>> \notin {<<Text(t)>>, <<Text(t), Result(t)>>}
  BY OneLine, TwoLines, AnswerLines
<1> USE DEF session, pipes, harness, outcome
<1>3. CASE AcquireLock(t)
  <2>1. turn' = [turn EXCEPT ![t] = "flush"] /\ turn[t] = "acquire" /\ UNCHANGED <<heard, stdin, stdout, working, said>>
    BY <1>3 DEF AcquireLock
  <2>2. \A u \in Turns : Asked(u)' = Asked(u) /\ Streamed(u)'
    BY <1>2, <1>t, <2>1 DEF Asked, Streamed, Served, NotBegun, HalfSaid, AllSaid
  <2> QED  BY <1>0, <1>1, <2>1, <2>2 DEF AnswerInv, Quiet
<1> SUFFICES ASSUME Generator(t), ~AcquireLock(t) PROVE AnswerInv'
  BY <1>3
<1>4. Holding(t)
  BY DEF Generator, FlushLine, FlushDoneAndWrite, Sent, StreamLine,
         ResumeAfterYield, StopReading, Holding
<1>5. /\ \A u \in Turns \ {t} : ~Asked(u)
      /\ turn[t] \in {"flush", "read"} => ~Clash(t)
      /\ ~AtEof /\ ~cancel
  BY <1>0, <1>4, AloneInside
<1>6. turn[t] = "flush" => Quiet
  BY <1>0, <1>5 DEF AnswerInv, Asked
<1>7. ~FlushLine(t) /\ ~StopReading(t)
  BY <1>5, <1>6 DEF FlushLine, StopReading, LineReady, Quiet
<1>8. CASE FlushDoneAndWrite(t)
  <2>1. Quiet /\ heard[t] = <<>>
    BY <1>2, <1>6, <1>8 DEF FlushDoneAndWrite, Streamed
  <2>2. /\ stdin' = Append(<<>>, t) /\ turn' = [turn EXCEPT ![t] = "send"]
        /\ UNCHANGED <<heard, stdout, working, said>>
    BY <1>0, <1>8, <2>1 DEF FlushDoneAndWrite, Unasked, Quiet
  <2>3. Append(<<>>, t) = <<t>>
    BY OneLine
  <2>4. NotBegun(t)'
    BY <2>1, <2>2, <2>3 DEF NotBegun, Quiet
  <2>5. Asked(t)' /\ Streamed(t)'
    BY <1>t, <2>2, <2>4 DEF Asked, Streamed, Served
  <2>6. \A u \in Turns \ {t} : ~Asked(u)' /\ Streamed(u)'
    BY <1>2, <1>5, <1>t, <2>2, OthersStay DEF TurnState
  <2> QED  BY <1>1, <2>5, <2>6 DEF AnswerInv
<1>9. CASE Sent(t)
  <2>1. /\ turn[t] = "send" /\ turn' = [turn EXCEPT ![t] = "read"]
        /\ UNCHANGED <<heard, stdin, stdout, working, said>>
    BY <1>5, <1>9 DEF Sent, LoopOrFinish
  <2>2. Served(t)' = Served(t)
    BY <2>1 DEF Served, NotBegun, HalfSaid, AllSaid
  <2>3. Asked(t)' /\ Streamed(t)'
    BY <1>2, <1>t, <2>1, <2>2 DEF Asked, Streamed
  <2>4. \A u \in Turns \ {t} : ~Asked(u)' /\ Streamed(u)'
    BY <1>2, <1>5, <1>t, <2>1, OthersStay DEF TurnState
  <2> QED  BY <1>1, <2>3, <2>4 DEF AnswerInv
<1>10. CASE StreamLine(t)
  <2>1. /\ turn[t] = "read" /\ turn' = [turn EXCEPT ![t] = "yield"] /\ stdout # <<>>
        /\ heard' = [heard EXCEPT ![t] = Append(heard[t], Head(stdout))] /\ stdout' = Tail(stdout)
        /\ UNCHANGED <<stdin, working, said>>
    BY <1>10 DEF StreamLine, LineReady
  <2>2. heard'[t] = Append(heard[t], Head(stdout))
    BY <1>t, <2>1
  <2>3. Served(t)
    BY <1>2, <2>1 DEF Streamed, Asked
  <2>4. ASSUME heard[t] = <<>> /\ stdout = <<Text(t)>>
       PROVE  Served(t)'
    <3>1. heard'[t] = <<Text(t)>> /\ stdout' = <<>>
      BY <2>1, <2>2, <2>4, OneLine, AnswerLines
    <3>2. HalfSaid(t)
      BY <1>n, <2>3, <2>4, OneLine, TwoLines, AnswerLines DEF Served, NotBegun, AllSaid
    <3> QED  BY <1>n, <2>1, <3>1, <3>2 DEF Served, HalfSaid
  <2>5. ASSUME heard[t] = <<>> /\ stdout = <<Text(t), Result(t)>>
       PROVE  Served(t)'
    <3>1. heard'[t] = <<Text(t)>> /\ stdout' = <<Result(t)>>
      BY <2>1, <2>2, <2>5, OneLine, TwoLines, AnswerLines
    <3>2. AllSaid(t)
      BY <1>n, <2>3, <2>5, OneLine, TwoLines, AnswerLines DEF Served, NotBegun, HalfSaid
    <3> QED  BY <1>n, <2>1, <3>1, <3>2 DEF Served, AllSaid
  <2>6. ASSUME heard[t] = <<Text(t)>> /\ stdout = <<Result(t)>>
       PROVE  Served(t)'
    <3>1. heard'[t] = <<Text(t), Result(t)>> /\ stdout' = <<>>
      BY <2>1, <2>2, <2>6, OneLine, TwoLines, AnswerLines
    <3>2. AllSaid(t)
      BY <1>n, <2>3, <2>6, OneLine, TwoLines, AnswerLines DEF Served, NotBegun, HalfSaid
    <3> QED  BY <1>n, <2>1, <3>1, <3>2 DEF Served, AllSaid
  <2>7. Served(t)' /\ heard'[t] # <<>>
    <3>1. \/ heard[t] = <<>> /\ stdout = <<Text(t)>>
          \/ heard[t] = <<>> /\ stdout = <<Text(t), Result(t)>>
          \/ heard[t] = <<Text(t)>> /\ stdout = <<Result(t)>>
      BY <2>1, <2>3 DEF Served, NotBegun, HalfSaid, AllSaid
    <3>2. Append(heard[t], Head(stdout)) # <<>>
      BY <1>t, <2>1, PipeTypes DEF TypeOK
    <3>3. Served(t)'
      BY <2>4, <2>5, <2>6, <3>1 DEF Served
    <3> QED  BY <2>2, <3>2, <3>3
  <2>8. Asked(t)' /\ Streamed(t)'
    BY <1>t, <2>1, <2>7 DEF Asked, Streamed
  <2>9. \A u \in Turns \ {t} : ~Asked(u)' /\ Streamed(u)'
    <3>1. \A u \in Turns \ {t} : heard'[u] = heard[u]
      BY <1>t, <2>1 DEF TypeOK
    <3> QED  BY <1>2, <1>5, <1>t, <2>1, <3>1, OthersStay DEF TurnState
  <2> QED  BY <1>1, <2>8, <2>9 DEF AnswerInv
<1>11. CASE ResumeAfterYield(t)
  <2>1. turn[t] = "yield" /\ heard[t] # <<>> /\ Served(t) /\ UNCHANGED <<heard, stdin, stdout, working, said>>
    BY <1>2, <1>11 DEF ResumeAfterYield, Streamed, Asked
  <2>2. CASE heard[t] = <<Text(t), Result(t)>>
    <3>1. heard[t][Len(heard[t])] \in Results
      BY <2>2, TwoLines, AnswerLines
    <3>2. turn' = [turn EXCEPT ![t] = "ended"]
      BY <1>11, <3>1 DEF ResumeAfterYield, FinishTurn
    <3>3. Quiet
      BY <2>1, <2>2, <1>n, OneLine, TwoLines, AnswerLines DEF Served, NotBegun, HalfSaid, AllSaid, Quiet
    <3>4. ~Asked(t)' /\ Streamed(t)' /\ Quiet'
      BY <1>t, <2>1, <2>2, <3>2, <3>3 DEF Asked, Streamed, Quiet
    <3>5. \A u \in Turns \ {t} : ~Asked(u)' /\ Streamed(u)'
      BY <1>2, <1>5, <1>t, <2>1, <3>2, OthersStay DEF TurnState
    <3> QED  BY <1>1, <3>4, <3>5 DEF AnswerInv
  <2>3. CASE heard[t] = <<Text(t)>>
    <3>1. heard[t][Len(heard[t])] \notin Results
      BY <2>3, OneLine, AnswerLines
    <3>2. turn' = [turn EXCEPT ![t] = "read"]
      BY <1>5, <1>11, <3>1 DEF ResumeAfterYield, LoopOrFinish
    <3>3. Served(t)'
      BY <2>1 DEF Served, NotBegun, HalfSaid, AllSaid
    <3>4. Asked(t)' /\ Streamed(t)'
      BY <1>t, <3>2, <3>3 DEF Asked, Streamed
    <3>5. \A u \in Turns \ {t} : ~Asked(u)' /\ Streamed(u)'
      BY <1>2, <1>5, <1>t, <2>1, <3>2, OthersStay DEF TurnState
    <3> QED  BY <1>1, <3>4, <3>5 DEF AnswerInv
  <2> QED  BY <2>1, <2>2, <2>3 DEF Served, NotBegun, HalfSaid, AllSaid
<1> QED  BY <1>7, <1>8, <1>9, <1>10, <1>11 DEF Generator

\* A step that touches neither the pipes nor the turns.
LEMMA AnswerStays ==
    ASSUME AnswerInv, Unasked' => Unasked, UNCHANGED <<turn, heard, stdin, stdout, working, said>>,
           Unasked => sigint' = sigint
    PROVE  AnswerInv'
<1>1. \A t \in Turns : Asked(t)' = Asked(t) /\ Streamed(t)' = Streamed(t)
  BY DEF Asked, Streamed, Served, NotBegun, HalfSaid, AllSaid
<1>2. Quiet' = Quiet
  BY DEF Quiet
<1> QED  BY <1>1, <1>2 DEF AnswerInv

LEMMA AnswerRequest ==
    ASSUME Undisturbed, AnswerInv, NEW t \in Turns, SendRefused(t) \/ SendAccepted(t)
    PROVE  AnswerInv'
<1>1. /\ turn[t] = "new" /\ turn' \in {[turn EXCEPT ![t] = "refused"], [turn EXCEPT ![t] = "acquire"]}
      /\ UNCHANGED <<heard, stdin, stdout, working, said, sigint, woken, proc>>
  BY DEF SendRefused, SendAccepted, pipes, harness, outcome, session
<1>2. /\ ~Asked(t) /\ turn'[t] \in {"acquire", "refused"}
      /\ \A u \in Turns \ {t} : turn'[u] = turn[u]
  BY <1>1 DEF Asked, Undisturbed, TypeOK
<1>3. \A u \in Turns : Asked(u)' = Asked(u) /\ (Streamed(u) => Streamed(u)')
  BY <1>1, <1>2 DEF Asked, Streamed, Served, NotBegun, HalfSaid, AllSaid
<1>4. Quiet' = Quiet /\ Unasked' = Unasked
  BY <1>1 DEF Quiet, Unasked
<1> QED  BY <1>1, <1>3, <1>4 DEF AnswerInv

LEMMA AnswerDrain ==
    ASSUME Undisturbed, AnswerInv, IdleDrain
    PROVE  AnswerInv'
<1> USE DEF session, pipes, harness, outcome
<1>1. Unasked => ~DrainLine
  BY DEF Undisturbed, PatientInv, OneReaderInside, Holding, DrainHolds, AnswerInv, Quiet, Asked,
         DrainLine, LineReady
<1>2. CASE DrainLine
  BY <1>1, <1>2 DEF DrainLine, AnswerInv, Unasked
<1>3. CASE ~DrainLine
  <2>1. UNCHANGED <<turn, heard, stdin, stdout, working, said, sigint, woken, proc>>
    BY <1>3 DEF IdleDrain, DrainEnter, DrainGranted, DrainBacksOff, DrainQuiet, DrainEof, DrainClash
  <2> QED  BY <2>1, AnswerStays DEF Unasked
<1> QED  BY <1>2, <1>3

LEMMA AnswerHarness ==
    ASSUME Undisturbed, AnswerInv, Unasked, Harness
    PROVE  AnswerInv'
<1> USE DEF session, pipes, harness, outcome
<1>1. PICK t \in Turns : Asked(t)
  BY DEF AnswerInv, Quiet, Harness, HarnessTakes, HarnessSays, HarnessFinishes
<1>2. /\ \A u \in Turns \ {t} : ~Asked(u)
      /\ Served(t) /\ ~sigint /\ \A u \in Turns : Streamed(u)
  BY <1>1 DEF Undisturbed, PatientInv, OneReaderInside, Holding, Asked, AnswerInv, Streamed
<1>3. UNCHANGED <<turn, heard>>
  BY DEF Harness, HarnessTakes, HarnessSays, HarnessFinishes
<1>4. ASSUME Served(t)', ~sigint' PROVE AnswerInv'
  <2>1. \A u \in Turns : Asked(u)' = Asked(u) /\ Streamed(u)'
    BY <1>1, <1>2, <1>3, <1>4 DEF Asked, Streamed
  <2> QED  BY <1>1, <1>4, <2>1 DEF AnswerInv
<1>5. t # None /\ Text(t) \in Line /\ Result(t) \in Line
  BY AnswerLines, StreamAssumption DEF Sources
<1>6. CASE HarnessTakes
  <2>1. NotBegun(t) /\ stdin = <<t>>
    BY <1>2, <1>6 DEF HarnessTakes, Served, NotBegun, HalfSaid, AllSaid
  <2>2. Head(<<t>>) = t /\ Tail(<<t>>) = <<>>
    BY OneLine
  <2>3. NotBegun(t)' /\ ~sigint'
    BY <1>2, <1>6, <2>1, <2>2 DEF HarnessTakes, NotBegun
  <2> QED  BY <1>4, <2>3 DEF Served
<1>7. CASE HarnessSays
  <2>1. NotBegun(t) /\ working = t /\ stdin = <<>>
    BY <1>2, <1>7 DEF HarnessSays, Served, NotBegun, HalfSaid, AllSaid
  <2>2. stdout' = Append(<<>>, Text(t))
    BY <1>7, <2>1 DEF HarnessSays, Emit, NotBegun, Text
  <2>3. stdout' = <<Text(t)>>
    BY <1>5, <2>2, OneLine
  <2>4. HalfSaid(t)' /\ ~sigint'
    BY <1>2, <1>7, <2>1, <2>3 DEF HarnessSays, HalfSaid, NotBegun
  <2> QED  BY <1>4, <2>4 DEF Served
<1>8. CASE HarnessFinishes
  <2>1. HalfSaid(t) /\ working = t
    BY <1>2, <1>8 DEF HarnessFinishes, Served, NotBegun, HalfSaid, AllSaid
  <2>2. stdout' = Append(stdout, Result(t))
    BY <1>8, <2>1 DEF HarnessFinishes, Emit, Result
  <2>3. /\ Append(<<>>, Result(t)) = <<Result(t)>>
        /\ Append(<<Text(t)>>, Result(t)) = <<Text(t), Result(t)>>
    BY <1>5, OneLine, TwoLines
  <2>4. ~said' /\ stdin' = <<>> /\ working' = None /\ ~sigint'
    BY <1>8, <2>1 DEF HarnessFinishes, HalfSaid
  <2>5. AllSaid(t)'
    BY <1>3, <2>1, <2>2, <2>3, <2>4 DEF AllSaid, HalfSaid
  <2> QED  BY <1>4, <2>4, <2>5 DEF Served
<1> QED  BY <1>6, <1>7, <1>8 DEF Harness

LEMMA AnswerStep ==
    ASSUME Impatient = {}, Interrupts = {}, Undisturbed, AnswerInv, [Next]_vars
    PROVE  AnswerInv'
<1> USE DEF session, pipes, harness, outcome
<1>1. ASSUME NEW t \in Turns, Generator(t) PROVE AnswerInv'
  <2>1. CASE Unasked'  BY <1>1, <2>1, AnswerTurn
  <2>2. CASE ~Unasked'  BY <2>2 DEF AnswerInv
  <2> QED  BY <2>1, <2>2
<1>2. ASSUME NEW t \in Turns, SendToDeadProc(t) PROVE AnswerInv'
  BY <1>2 DEF SendToDeadProc, AnswerInv, Unasked
<1>3. CASE Teardown
  <2>1. /\ UNCHANGED <<turn, heard, stdin, stdout, working, said, sigint, woken>>
        /\ proc' # "gone" => proc # "gone"
    BY <1>3 DEF Teardown
  <2> QED  BY <2>1, AnswerStays DEF Unasked
<1>4. CASE UNCHANGED vars \/ \E r \in Readers : BlockInRead(r)
  <2>1. UNCHANGED <<turn, heard, stdin, stdout, working, said, sigint, woken, proc>>
    BY <1>4 DEF BlockInRead, vars
  <2> QED  BY <2>1, AnswerStays DEF Unasked
<1>5. CASE HarnessExits \/ \E b \in Background : HarnessWakes(b)
  BY <1>5 DEF HarnessExits, HarnessWakes, AnswerInv, Unasked
<1>6. CASE Harness
  <2>1. CASE Unasked  BY <1>6, <2>1, AnswerHarness
  <2>2. CASE ~Unasked
    BY <1>6, <2>2 DEF Harness, HarnessTakes, HarnessSays, HarnessFinishes, AnswerInv, Unasked
  <2> QED  BY <2>1, <2>2
<1> QED
  BY <1>1, <1>2, <1>3, <1>4, <1>5, <1>6, AnswerRequest, AnswerDrain DEF Next, Hangup

\* A client that stays on the line of a session nobody interrupts is streamed
\* the whole answer of its turn before the stream ends, in order and once,
\* until the harness starts a turn of its own or is gone.
THEOREM AnswersComplete ==
    ASSUME Impatient = {}, Interrupts = {} PROVE Spec => []AnswerComplete
<1>1. Init => AnswerInv
  BY StreamAssumption DEF Init, AnswerInv, Asked, Quiet, Streamed
<1>2. TypeOK /\ PatientInv /\ WaiterIsReading /\ CancelHasInterrupt /\ AnswerInv /\ [Next]_vars
      => AnswerInv'
  BY AnswerStep DEF Undisturbed
<1>3. AnswerInv => AnswerComplete
  BY DEF AnswerInv, AnswerComplete, Unasked, Streamed, Text, Result
<1> QED
  BY <1>1, <1>2, <1>3, TypeCorrect, PatientInvariance, WaiterCorrect, CancelCorrect, PTL DEF Spec

=============================================================================
