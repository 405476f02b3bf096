------------------------- MODULE CodexThreadsProofs -------------------------
(***************************************************************************)
(* Theorems about CodexThreads, for any messages and any bounds.           *)
(***************************************************************************)
EXTENDS CodexThreads, TLAPS

-----------------------------------------------------------------------------
(* Type correctness.                                                       *)

\* A pipe stays a pipe when an event is taken from it or written to it.
LEMMA PipeTypes ==
    ASSUME NEW q \in Seq(Event)
    PROVE  /\ q # <<>> => Tail(q) \in Seq(Event)
           /\ \A e \in Event : Append(q, e) \in Seq(Event)
  OBVIOUS

LEMMA KnownType ==
    ASSUME TypeOK, NEW h \in Reported
    PROVE  Known(h) \in Threads \union {None}
  BY CodexAssumption DEF TypeOK, Reported, Known, Threads

LEMMA TypeInit == Init => TypeOK
<1> SUFFICES ASSUME Init PROVE TypeOK
  OBVIOUS
<1>1. out \in [Messages -> Seq(Event)]
  BY DEF Init
<1>2. made \in 0 .. MaxSpawns /\ minted \in 0 .. MaxThreads /\ rollouts \subseteq 1 .. minted
  BY CodexAssumption DEF Init
<1>3. /\ current \in Spawns \union {None} /\ inFlight \subseteq Spawns
      /\ thread \in [Spawns -> Threads \union {None}]
      /\ proc \in [Spawns -> Messages \union {None}]
      /\ threads \in Threads \union {None}
  BY DEF Init
<1>4. /\ turn \in [Messages -> {"new", "spawning", "writing", "reading", "exiting", "ended"}]
      /\ of \in [Messages -> Spawns \union {None}]
      /\ resumes \in [Messages -> Threads \union {None}]
      /\ codex \in [Messages -> {"none", "up", "working", "done", "gone"}]
      /\ on \in [Messages -> Threads \union {None}]
  BY DEF Init
<1>5. /\ escaped \subseteq Messages /\ unanswered \subseteq Messages
      /\ pane \in BOOLEAN /\ watched \in BOOLEAN
  BY DEF Init
<1> QED  BY <1>1, <1>2, <1>3, <1>4, <1>5 DEF TypeOK

LEMMA MintTypes ==
    ASSUME TypeOK, Mint
    PROVE  /\ minted' \in 0 .. MaxThreads /\ rollouts' \subseteq 1 .. minted'
           /\ minted + 1 \in Threads
  BY CodexAssumption DEF TypeOK, Mint, Threads

LEMMA TypeService ==
    ASSUME TypeOK,
           \/ \E h \in Reported : Create(h) \/ OpenTerminal(h)
           \/ Kill \/ Restart \/ TerminalMints \/ TerminalRecords \/ TerminalCloses
    PROVE  TypeOK'
<1> USE CodexAssumption DEF TypeOK, session, generator, exec, disk, terminal
<1>1. CASE \E h \in Reported : Create(h)
  <2> PICK h \in Reported : Create(h)  BY <1>1
  <2>1. made + 1 \in Spawns /\ Known(h) \in Threads \union {None}
    BY KnownType DEF Create, Spawns
  <2> QED  BY <2>1 DEF Create, Spawns
<1>2. CASE \E h \in Reported : OpenTerminal(h)
  <2> PICK h \in Reported : OpenTerminal(h)  BY <1>2
  <2> QED  BY KnownType DEF OpenTerminal
<1>3. CASE Kill  BY <1>3 DEF Kill
<1>4. CASE Restart
  <2>1. out' \in [Messages -> Seq(Event)]  BY <1>4 DEF Restart
  <2> QED  BY <1>4, <2>1 DEF Restart
<1>5. CASE TerminalMints  BY <1>5, MintTypes DEF TerminalMints
<1>6. CASE TerminalRecords  BY <1>6 DEF TerminalRecords, Threads
<1>7. CASE TerminalCloses  BY <1>7 DEF TerminalCloses
<1> QED  BY <1>1, <1>2, <1>3, <1>4, <1>5, <1>6, <1>7

LEMMA TypeMessage ==
    ASSUME TypeOK, NEW m \in Messages, Refused(m) \/ Send(m) \/ Generator(m)
    PROVE  TypeOK'
<1> USE DEF TypeOK, session, generator, exec, disk, terminal
<1>1. CASE Refused(m)  BY <1>1 DEF Refused
<1>2. CASE Send(m)  BY <1>2 DEF Send
<1>3. CASE Spawned(m)  BY <1>3 DEF Spawned
<1>4. CASE SpawnRaises(m)  BY <1>4 DEF SpawnRaises
<1>5. CASE ReadStarted(m)
  <2>1. Tail(out[m]) \in Seq(Event)  BY <1>5, PipeTypes DEF ReadStarted, Reads
  <2> QED  BY <1>5, <2>1 DEF ReadStarted
<1>6. CASE ReadCompleted(m)  BY <1>6 DEF ReadCompleted
<1>7. CASE ReadFailed(m)  BY <1>7 DEF ReadFailed, ResetThread
<1>8. CASE ReadTimesOut(m)  BY <1>8 DEF ReadTimesOut, ResetThread, Reap
<1>9. CASE ReadRaises(m)  BY <1>9 DEF ReadRaises, Reap
<1>10. CASE TurnEnds(m)
  <2>1. <<>> \in Seq(Event)  OBVIOUS
  <2> QED  BY <1>10, <2>1 DEF TurnEnds
<1>11. CASE Written(m)  BY <1>11 DEF Written
<1>12. CASE WriteRaises(m)  BY <1>12 DEF WriteRaises
<1> QED
  BY <1>1, <1>2, <1>3, <1>4, <1>5, <1>6, <1>7, <1>8, <1>9, <1>10, <1>11, <1>12 DEF Generator

LEMMA TypeCodex ==
    ASSUME TypeOK, NEW m \in Messages,
           CodexTakes(m) \/ CodexFinishes(m) \/ CodexGarbles(m) \/ CodexExits(m)
    PROVE  TypeOK'
<1> USE DEF TypeOK, session, generator, exec, disk, terminal
<1>0. \A e \in Event : Append(out[m], e) \in Seq(Event)
  BY PipeTypes
<1> USE <1>0 DEF Event, Write
<1>1. CASE CodexTakes(m)
  <2>1. on' \in [Messages -> Threads \union {None}]
    BY <1>1, MintTypes DEF CodexTakes, Threads
  <2>2. minted' \in 0 .. MaxThreads /\ rollouts' \subseteq 1 .. minted'
    BY <1>1, MintTypes DEF CodexTakes
  <2>3. out' \in [Messages -> Seq(Event)]
    BY <1>1 DEF CodexTakes
  <2> QED  BY <1>1, <2>1, <2>2, <2>3 DEF CodexTakes
<1>2. CASE CodexFinishes(m)  BY <1>2 DEF CodexFinishes
<1>3. CASE CodexGarbles(m)  BY <1>3 DEF CodexGarbles
<1>4. CASE CodexExits(m)  BY <1>4 DEF CodexExits
<1> QED  BY <1>1, <1>2, <1>3, <1>4

LEMMA TypeStep == TypeOK /\ [Next]_vars => TypeOK'
<1> SUFFICES ASSUME TypeOK, [Next]_vars PROVE TypeOK'
  OBVIOUS
<1>1. CASE UNCHANGED vars
  BY <1>1 DEF vars, TypeOK, session, generator, exec, disk, terminal
<1> QED  BY <1>1, TypeService, TypeMessage, TypeCodex DEF Next

\* The state stays in its types, whatever clients, terminal and codex do.
THEOREM TypeCorrect == Spec => []TypeOK
  BY TypeInit, TypeStep, PTL DEF Spec

-----------------------------------------------------------------------------
(* One live harness process.                                               *)

Active(m) == turn[m] \in {"spawning", "writing", "reading", "exiting"}

\* A turn under way keeps its session busy, and no other is under way there.
OwnsSession ==
    \A m \in Messages : Active(m) =>
        /\ of[m] \in inFlight
        /\ \A n \in Messages : Active(n) /\ of[n] = of[m] => n = m

\* A process is in its state while its generator is at it, and not without it.
InItsState ==
    \A m \in Messages :
        /\ turn[m] \in {"new", "spawning"} => codex[m] = "none"
        /\ turn[m] = "writing" => codex[m] \in {"up", "gone"}
        /\ turn[m] \in {"writing", "reading", "exiting"} => proc[of[m]] = m
        /\ Alive(m) => turn[m] \in {"writing", "reading", "exiting"}

\* What a state has for its process is that of a turn of it, which has ended if
\* its message could not be written.
ProcHasTurn ==
    \A s \in Spawns : proc[s] # None =>
        turn[proc[s]] \in {"writing", "reading", "exiting", "ended"} /\ of[proc[s]] = s

\* A turn whose session is gone has no process, or has escaped its kill.
DiesWithSession ==
    \A m \in Messages : Alive(m) \/ turn[m] = "spawning" => of[m] = current \/ m \in escaped

\* The two surfaces of a session exclude one another.
OneSurface == current = None \/ ~pane

HarnessInv == OwnsSession /\ InItsState /\ ProcHasTurn /\ DiesWithSession /\ OneSurface

LEMMA HarnessStep == TypeOK /\ HarnessInv /\ [Next]_vars => HarnessInv'
<1> SUFFICES ASSUME TypeOK, HarnessInv, [Next]_vars PROVE HarnessInv'
  OBVIOUS
<1> USE CodexAssumption DEF TypeOK, HarnessInv, OwnsSession, InItsState, ProcHasTurn, DiesWithSession,
        OneSurface, Active, Alive, session, generator, exec, disk, terminal
<1>1. ASSUME NEW h \in Reported, Create(h) \/ OpenTerminal(h) PROVE HarnessInv'
  <2>1. CASE Create(h)
    <3>1. None \notin Spawns  BY DEF Spawns
    <3>2. DiesWithSession'  BY <2>1, <3>1 DEF Create
    <3> QED  BY <2>1, <3>2 DEF Create
  <2>2. CASE OpenTerminal(h)  BY <2>2 DEF OpenTerminal
  <2> QED  BY <1>1, <2>1, <2>2
<1>2. CASE Kill
  <2>1. current \in Spawns  BY <1>2 DEF Kill
  <2>2. OwnsSession' /\ ProcHasTurn' /\ OneSurface'  BY <1>2 DEF Kill
  <2>3. InItsState'  BY <1>2, <2>1 DEF Kill
  <2>4. DiesWithSession'  BY <1>2, <2>1 DEF Kill
  <2> QED  BY <2>2, <2>3, <2>4
<1>3. CASE Restart
  BY <1>3 DEF Restart
<1>4. ASSUME NEW m \in Messages, Refused(m) \/ Send(m) PROVE HarnessInv'
  <2>1. CASE Refused(m)  BY <2>1 DEF Refused
  <2>2. CASE Send(m)
    <3>1. OwnsSession' /\ InItsState' /\ OneSurface'  BY <2>2 DEF Send
    <3>2. ProcHasTurn'  BY <2>2 DEF Send
    <3>3. DiesWithSession'  BY <2>2 DEF Send
    <3> QED  BY <3>1, <3>2, <3>3
  <2> QED  BY <1>4, <2>1, <2>2
<1>5. ASSUME NEW m \in Messages, Generator(m) PROVE HarnessInv'
  <2>1. CASE Spawned(m)  BY <2>1 DEF Spawned
  <2>2. CASE SpawnRaises(m)  BY <2>2 DEF SpawnRaises
  <2>3. CASE ReadStarted(m)  BY <2>3 DEF ReadStarted
  <2>4. CASE ReadCompleted(m)  BY <2>4 DEF ReadCompleted, Reads
  <2>5. CASE ReadFailed(m)  BY <2>5 DEF ReadFailed, Reads, ResetThread
  <2>6. CASE ReadTimesOut(m)  BY <2>6 DEF ReadTimesOut, ResetThread, Reap
  <2>7. CASE ReadRaises(m)  BY <2>7 DEF ReadRaises, Reads, Reap
  <2>8. CASE TurnEnds(m)  BY <2>8 DEF TurnEnds
  <2>9. CASE Written(m)  BY <2>9 DEF Written
  <2>10. CASE WriteRaises(m)  BY <2>10 DEF WriteRaises
  <2> QED
    BY <1>5, <2>1, <2>2, <2>3, <2>4, <2>5, <2>6, <2>7, <2>8, <2>9, <2>10 DEF Generator
<1>6. ASSUME NEW m \in Messages,
             CodexTakes(m) \/ CodexFinishes(m) \/ CodexGarbles(m) \/ CodexExits(m)
      PROVE  HarnessInv'
  BY <1>6 DEF CodexTakes, CodexFinishes, CodexGarbles, CodexExits
<1>7. CASE TerminalMints \/ TerminalRecords \/ TerminalCloses \/ UNCHANGED vars
  BY <1>7 DEF TerminalMints, Mint, TerminalRecords, TerminalCloses, vars
<1> QED  BY <1>1, <1>2, <1>3, <1>4, <1>5, <1>6, <1>7 DEF Next

LEMMA HarnessAlways == Spec => []HarnessInv
<1>1. Init => HarnessInv
  BY DEF Init, HarnessInv, OwnsSession, InItsState, ProcHasTurn, DiesWithSession, OneSurface, Active, Alive
<1> QED  BY <1>1, HarnessStep, TypeCorrect, PTL DEF Spec

\* A conversation has one live harness process, but for a turn whose session
\* was killed while its process was being spawned.
THEOREM OneHarnessCorrect == Spec => []OneHarness
<1>1. TypeOK /\ HarnessInv => OneHarness
  BY CodexAssumption DEF TypeOK, HarnessInv, OwnsSession, InItsState, ProcHasTurn, DiesWithSession, OneSurface,
     OneHarness, Active, Alive, Spawns
<1> QED  BY <1>1, HarnessAlways, TypeCorrect, PTL

-----------------------------------------------------------------------------
(* Unanswered turns.                                                       *)

\* Spawns are numbered as they are made, and a process is of one of them.
MadeBefore ==
    /\ current \in 1 .. made \union {None} /\ inFlight \subseteq 1 .. made
    /\ \A m \in Messages : of[m] \in 1 .. made \union {None}

\* A codex that has not taken its message has written nothing and is on no
\* thread, and its generator writes or reads.
NothingTaken ==
    \A m \in Messages : codex[m] \in {"none", "up"} \/ turn[m] = "writing" =>
        /\ out[m] = <<>> /\ on[m] = None /\ m \notin unanswered
        /\ codex[m] = "up" => turn[m] \in {"writing", "reading"}

\* A message without its answer is on a thread that was minted, and no
\* completion of it is in the pipe.
TakenUnanswered ==
    \A m \in unanswered :
        /\ on[m] \in 1 .. minted /\ of[m] # None
        /\ \A i \in 1 .. Len(out[m]) : out[m][i] # "completed"

\* A line that send() cannot read comes in the turns it may come in.
GarbledOnly ==
    \A m \in Messages : \A i \in 1 .. Len(out[m]) : out[m][i] = "garbled" => m \in Garbled

\* No turn whose reader is through has left its thread to the state it was
\* of, nor to a turn of that state that is to resume it or is on it.
Settled(m) == m \in unanswered \ Garbled /\ turn[m] \in {"exiting", "ended"}
NotRejoined ==
    \A m \in Messages : Settled(m) =>
        /\ on[m] # thread[of[m]]
        /\ \A n \in Messages : turn[n] \in {"spawning", "writing", "reading"} /\ of[n] = of[m] =>
             on[m] # resumes[n] /\ on[m] # on[n]

AnsweredInv == MadeBefore /\ NothingTaken /\ TakenUnanswered /\ GarbledOnly /\ NotRejoined

LEMMA AnsweredInit == Init => AnsweredInv
  BY CodexAssumption DEF Init, AnsweredInv, MadeBefore, NothingTaken, TakenUnanswered, GarbledOnly,
     NotRejoined, Settled

\* What a step of the service or the terminal leaves.
LEMMA AnsweredService ==
    ASSUME TypeOK, HarnessInv, AnsweredInv,
           \/ \E h \in Reported : Create(h) \/ OpenTerminal(h)
           \/ Kill \/ Restart \/ TerminalMints \/ TerminalRecords \/ TerminalCloses
           \/ UNCHANGED vars
    PROVE  AnsweredInv'
<1> USE CodexAssumption DEF TypeOK, AnsweredInv, MadeBefore, NothingTaken, TakenUnanswered,
        GarbledOnly, NotRejoined, Settled, session, generator, exec, disk, terminal
<1>1. CASE \E h \in Reported : Create(h)
  <2> PICK h \in Reported : Create(h)  BY <1>1
  <2>1. MadeBefore' /\ NothingTaken' /\ TakenUnanswered' /\ GarbledOnly'  BY DEF Create
  <2>2. \A m \in Messages : m \in unanswered => thread'[of[m]] = thread[of[m]]
    BY DEF Create, Spawns
  <2>3. NotRejoined'  BY <2>2 DEF Create
  <2> QED  BY <2>1, <2>3
<1>2. CASE \E h \in Reported : OpenTerminal(h)  BY <1>2 DEF OpenTerminal
<1>3. CASE Kill
  <2>1. MadeBefore' /\ TakenUnanswered' /\ GarbledOnly' /\ NotRejoined'  BY <1>3 DEF Kill
  <2>2. NothingTaken'  BY <1>3 DEF Kill
  <2> QED  BY <2>1, <2>2
<1>4. CASE Restart
  <2>1. MadeBefore'  BY <1>4 DEF Restart
  <2>2. NothingTaken'  BY <1>4 DEF Restart
  <2>3. TakenUnanswered' /\ GarbledOnly'  BY <1>4 DEF Restart
  <2>4. NotRejoined'  BY <1>4 DEF Restart, Spawns
  <2> QED  BY <2>1, <2>2, <2>3, <2>4
<1>5. CASE TerminalMints
  <2>1. minted' = minted + 1  BY <1>5 DEF TerminalMints, Mint
  <2> QED  BY <1>5, <2>1 DEF TerminalMints
<1>6. CASE TerminalRecords  BY <1>6 DEF TerminalRecords
<1>7. CASE TerminalCloses  BY <1>7 DEF TerminalCloses
<1>8. CASE UNCHANGED vars  BY <1>8 DEF vars
<1> QED  BY <1>1, <1>2, <1>3, <1>4, <1>5, <1>6, <1>7, <1>8

\* A turn that begins resumes its state's thread, which no settled turn is on.
LEMMA AnsweredBegins ==
    ASSUME TypeOK, HarnessInv, AnsweredInv, NEW m \in Messages,
           Refused(m) \/ Send(m) \/ Spawned(m) \/ SpawnRaises(m)
    PROVE  AnsweredInv'
<1> USE CodexAssumption DEF TypeOK, AnsweredInv, MadeBefore, NothingTaken, TakenUnanswered,
        GarbledOnly, NotRejoined, Settled, session, generator, exec, disk, terminal
<1>1. turn[m] \in {"new", "spawning"} /\ codex[m] = "none" /\ m \notin unanswered /\ on[m] = None
  BY DEF HarnessInv, InItsState, Refused, Send, Spawned, SpawnRaises
<1>2. CASE Refused(m)  BY <1>1, <1>2 DEF Refused
<1>3. CASE Send(m)
  <2>1. MadeBefore' /\ NothingTaken' /\ TakenUnanswered' /\ GarbledOnly'  BY <1>1, <1>3 DEF Send
  <2>2. NotRejoined'  BY <1>1, <1>3 DEF Send, Threads
  <2> QED  BY <2>1, <2>2
<1>4. CASE Spawned(m)
  <2>1. MadeBefore' /\ NothingTaken' /\ TakenUnanswered' /\ GarbledOnly'  BY <1>1, <1>4 DEF Spawned
  <2>2. NotRejoined'  BY <1>1, <1>4 DEF Spawned
  <2> QED  BY <2>1, <2>2
<1>5. CASE SpawnRaises(m)
  <2>1. MadeBefore'  BY <1>1, <1>5 DEF SpawnRaises
  <2>3. NothingTaken'  BY <1>1, <1>5 DEF SpawnRaises
  <2>4. TakenUnanswered' /\ GarbledOnly'  BY <1>1, <1>5 DEF SpawnRaises
  <2>2. NotRejoined'  BY <1>1, <1>5 DEF SpawnRaises
  <2> QED  BY <2>1, <2>2, <2>3, <2>4
<1> QED  BY <1>2, <1>3, <1>4, <1>5

\* A message that has been written, or that could not be.
LEMMA AnsweredWrites ==
    ASSUME TypeOK, HarnessInv, AnsweredInv, NEW m \in Messages, Written(m) \/ WriteRaises(m)
    PROVE  AnsweredInv'
<1> USE CodexAssumption DEF TypeOK, AnsweredInv, MadeBefore, NothingTaken, TakenUnanswered,
        GarbledOnly, NotRejoined, Settled, session, exec, disk, terminal
<1>1. CASE Written(m)
  <2>1. MadeBefore' /\ NothingTaken' /\ TakenUnanswered' /\ GarbledOnly'  BY <1>1 DEF Written
  <2>2. NotRejoined'  BY <1>1 DEF Written
  <2> QED  BY <2>1, <2>2
<1>2. CASE WriteRaises(m)
  <2>1. /\ turn[m] = "writing" /\ codex[m] = "gone" /\ of[m] \in inFlight
        /\ \A n \in Messages : Active(n) /\ of[n] = of[m] => n = m
    BY <1>2 DEF WriteRaises, HarnessInv, OwnsSession, Active
  <2>2. MadeBefore' /\ NothingTaken'
    BY <1>2, ZenonT(60) DEF WriteRaises
  <2>3. TakenUnanswered' /\ GarbledOnly'
    BY <1>2 DEF WriteRaises
  <2>4. m \notin unanswered
    BY <2>1
  <2>5. NotRejoined'  BY <1>2, <2>1, <2>4 DEF WriteRaises
  <2> QED  BY <2>2, <2>3, <2>5
<1> QED  BY <1>1, <1>2

LEMMA TailHolds ==
    ASSUME NEW q \in Seq(Event), q # <<>>, NEW i \in 1 .. Len(Tail(q))
    PROVE  i + 1 \in 1 .. Len(q) /\ Tail(q)[i] = q[i + 1]
  OBVIOUS

\* A reader that is through has answered its message, or has left a state
\* without a thread.
LEMMA AnsweredReads ==
    ASSUME TypeOK, HarnessInv, AnsweredInv, NEW m \in Messages,
           \/ ReadStarted(m) \/ ReadCompleted(m) \/ ReadFailed(m) \/ ReadTimesOut(m)
           \/ ReadRaises(m) \/ TurnEnds(m)
    PROVE  AnsweredInv'
<1> USE CodexAssumption DEF TypeOK, AnsweredInv, MadeBefore, NothingTaken, TakenUnanswered,
        GarbledOnly, NotRejoined, Settled, session, generator, exec, disk, terminal
<1>1. /\ of[m] \in inFlight /\ turn[m] \in {"reading", "exiting"}
      /\ \A n \in Messages : turn[n] \in {"spawning", "writing", "reading", "exiting"} /\ of[n] = of[m] => n = m
  BY DEF HarnessInv, OwnsSession, Active, ReadStarted, ReadCompleted, ReadFailed, ReadTimesOut,
     ReadRaises, TurnEnds, Reads
<1>2. CASE ReadStarted(m)
  <2>1. \A i \in 1 .. Len(out'[m]) : i + 1 \in 1 .. Len(out[m]) /\ out'[m][i] = out[m][i + 1]
    BY <1>2, TailHolds DEF ReadStarted, Reads
  <2>2. MadeBefore' /\ NothingTaken'  BY <1>2 DEF ReadStarted, Reads
  <2>3. TakenUnanswered' /\ GarbledOnly'  BY <1>2, <2>1 DEF ReadStarted, Reads
  <2>4. NotRejoined'  BY <1>1, <1>2 DEF ReadStarted, Reads
  <2> QED  BY <2>2, <2>3, <2>4
<1>3. CASE ReadCompleted(m)
  <2>1. 1 \in 1 .. Len(out[m]) /\ out[m][1] = "completed" /\ m \notin unanswered
    BY <1>3 DEF ReadCompleted, Reads
  <2>2. codex[m] # "up"  BY <1>3 DEF ReadCompleted, Reads
  <2> QED  BY <1>1, <1>3, <2>1, <2>2 DEF ReadCompleted, Reads
<1>4. CASE ReadFailed(m) \/ ReadTimesOut(m)
  <2>1. /\ thread' = [thread EXCEPT ![of[m]] = None] /\ turn' = [turn EXCEPT ![m] = "exiting"]
        /\ turn[m] = "reading" /\ codex'[m] \notin {"none", "up"}
        /\ \A n \in Messages \ {m} : codex'[n] = codex[n]
        /\ UNCHANGED <<current, made, inFlight, of, resumes, out, on, unanswered, minted>>
    <3>1. CASE ReadFailed(m)
      <4>1. codex[m] \notin {"none", "up"}
        BY <3>1 DEF ReadFailed, Reads
      <4> QED  BY <3>1, <4>1 DEF ReadFailed, ResetThread, Reads
    <3>2. CASE ReadTimesOut(m)  BY <3>2 DEF ReadTimesOut, ResetThread, Reap
    <3> QED  BY <1>4, <3>1, <3>2
  <2>2. MadeBefore' /\ TakenUnanswered' /\ GarbledOnly'  BY <2>1
  <2>3. NothingTaken'  BY <2>1
  <2>4. NotRejoined'  BY <1>1, <2>1 DEF Threads
  <2> QED  BY <2>2, <2>3, <2>4
<1>5. CASE ReadRaises(m)
  <2>1. m \in Garbled  BY <1>5 DEF ReadRaises, Reads
  <2> QED  BY <1>1, <1>5, <2>1 DEF ReadRaises, Reads, Reap
<1>6. CASE TurnEnds(m)
  <2>0. out' = [out EXCEPT ![m] = <<>>] /\ Len(<<>>) = 0  BY <1>6 DEF TurnEnds
  <2>1. MadeBefore'  BY <1>6 DEF TurnEnds
  <2>5. NothingTaken'  BY <1>6, <2>0 DEF TurnEnds
  <2>3. \A n \in Messages : out'[n] = out[n] \/ Len(out'[n]) = 0  BY <2>0
  <2>4. TakenUnanswered' /\ GarbledOnly'  BY <1>6, <2>3 DEF TurnEnds
  <2>2. NotRejoined'  BY <1>1, <1>6 DEF TurnEnds
  <2> QED  BY <2>1, <2>2, <2>4, <2>5
<1> QED  BY <1>2, <1>3, <1>4, <1>5, <1>6

LEMMA AppendHolds ==
    ASSUME NEW q \in Seq(Event), NEW e \in Event, NEW i \in 1 .. Len(Append(q, e))
    PROVE  Append(q, e)[i] = e \/ (i \in 1 .. Len(q) /\ Append(q, e)[i] = q[i])
  OBVIOUS

\* codex takes a message to the thread its turn resumes, or to a new one; what
\* it leaves without an answer is of a turn that is still read.
LEMMA AnsweredCodex ==
    ASSUME TypeOK, HarnessInv, AnsweredInv, NEW m \in Messages,
           CodexTakes(m) \/ CodexFinishes(m) \/ CodexGarbles(m) \/ CodexExits(m)
    PROVE  AnsweredInv'
<1> USE CodexAssumption DEF TypeOK, AnsweredInv, MadeBefore, NothingTaken, TakenUnanswered,
        GarbledOnly, NotRejoined, Settled, session, generator, exec, disk, terminal
<1>0. \A e \in Event : \A i \in 1 .. Len(Append(out[m], e)) :
        Append(out[m], e)[i] = e \/ (i \in 1 .. Len(out[m]) /\ Append(out[m], e)[i] = out[m][i])
  BY AppendHolds
<1>1. CASE CodexTakes(m)
  <2>1. /\ turn[m] = "reading" /\ m \notin unanswered /\ out[m] = <<>>
        /\ of[m] \in inFlight
        /\ minted' \in {minted, minted + 1}
        /\ codex' = [codex EXCEPT ![m] = "working"]
        /\ out' = [out EXCEPT ![m] = Append(out[m], "started")]
        /\ on' = [on EXCEPT ![m] = on'[m]]
        /\ UNCHANGED <<current, made, inFlight, thread, of, resumes, turn>>
        /\ unanswered' = unanswered \union {m}
    BY <1>1 DEF CodexTakes, Mint, Write, HarnessInv, OwnsSession, Active
  <2>2. on'[m] = resumes[m] \/ on'[m] = minted + 1
    BY <1>1 DEF CodexTakes
  <2>3. on'[m] \in 1 .. minted'
    <3>1. CASE resumes[m] \in rollouts /\ on'[m] = resumes[m] /\ UNCHANGED disk
      BY <3>1
    <3>2. CASE on'[m] = minted + 1 /\ Mint
      BY <3>2 DEF Mint
    <3> QED  BY <1>1, <3>1, <3>2 DEF CodexTakes
  <2>4. \A i \in 1 .. Len(out'[m]) : out'[m][i] = "started"
    BY <1>0, <2>1 DEF Event
  <2>5. MadeBefore' /\ NothingTaken'  BY <2>1
  <2>6. ASSUME NEW n \in unanswered'
        PROVE  /\ on'[n] \in 1 .. minted' /\ of'[n] # None
               /\ \A i \in 1 .. Len(out'[n]) : out'[n][i] # "completed"
    <3>1. CASE n = m
      <4>0. None \notin 1 .. made  OBVIOUS
      <4>1. of'[m] # None
        <5>1. of[m] \in 1 .. made  BY <2>1
        <5> QED  BY <2>1, <4>0, <5>1
      <4> QED  BY <2>3, <2>4, <3>1, <4>1
    <3>2. CASE n # m
      <4>1. n \in unanswered /\ on'[n] = on[n] /\ out'[n] = out[n]  BY <2>1, <2>6, <3>2
      <4> QED  BY <2>1, <4>1
    <3> QED  BY <3>1, <3>2
  <2>7. GarbledOnly'  BY <2>1, <2>4
  <2>8. NotRejoined'  BY <2>1, <2>2
  <2> QED  BY <2>5, <2>6, <2>7, <2>8
<1>2. CASE (CodexFinishes(m) \/ CodexGarbles(m)) /\ ~UNCHANGED <<out, unanswered>>
  <2>1. /\ codex' = [codex EXCEPT ![m] = "done"]
        /\ \E e \in Event : /\ out' = [out EXCEPT ![m] = Append(out[m], e)]
                            /\ e = "completed" => m \notin unanswered'
                            /\ e = "garbled" => m \in Garbled
        /\ unanswered' \subseteq unanswered
        /\ UNCHANGED <<current, made, inFlight, thread, of, resumes, turn, on, minted>>
    BY <1>2 DEF CodexFinishes, CodexGarbles, Write, Event
  <2>2. PICK e \in Event : /\ out' = [out EXCEPT ![m] = Append(out[m], e)]
                           /\ e = "completed" => m \notin unanswered'
                           /\ e = "garbled" => m \in Garbled
    BY <2>1
  <2>3. \A i \in 1 .. Len(out'[m]) : out'[m][i] = e \/ (i \in 1 .. Len(out[m]) /\ out'[m][i] = out[m][i])
    BY <1>0, <2>2
  <2>4. MadeBefore' /\ NotRejoined'  BY <2>1
  <2>5. NothingTaken'
    <3>1. turn[m] # "writing"
      BY <1>2 DEF HarnessInv, InItsState, CodexFinishes, CodexGarbles
    <3> QED  BY <2>1, <2>2, <3>1
  <2>6. TakenUnanswered'  BY <2>1, <2>2, <2>3
  <2>7. GarbledOnly'  BY <2>2, <2>3
  <2> QED  BY <2>4, <2>5, <2>6, <2>7
<1>3. CASE CodexExits(m)  BY <1>3 DEF CodexExits
<1>4. CASE CodexFinishes(m) /\ UNCHANGED <<out, unanswered>>
  BY <1>4 DEF CodexFinishes
<1>5. CASE CodexGarbles(m) /\ UNCHANGED <<out, unanswered>>
  BY <1>5 DEF CodexGarbles
<1> QED  BY <1>1, <1>2, <1>3, <1>4, <1>5

LEMMA AnsweredStep == TypeOK /\ HarnessInv /\ AnsweredInv /\ [Next]_vars => AnsweredInv'
  BY AnsweredService, AnsweredBegins, AnsweredWrites, AnsweredReads, AnsweredCodex DEF Next, Generator

\* The turns of a state that were not answered are not on its thread, once it
\* is free to take a message, but for those that an unreadable line ended.
THEOREM OwnTurnsCorrect == Spec => []OwnTurnsAnswered
<1>1. TypeOK /\ HarnessInv /\ AnsweredInv => OwnTurnsAnswered
  BY DEF TypeOK, HarnessInv, OwnsSession, Active, AnsweredInv, InItsState, NothingTaken, NotRejoined,
     Settled, OwnTurnsAnswered, Answered
<1> QED  BY <1>1, AnsweredInit, AnsweredStep, HarnessAlways, TypeCorrect, PTL DEF Spec
=============================================================================
