-------------------------- MODULE TelegramChatProofs --------------------------
(***************************************************************************)
(* Theorems about TelegramChat, for any messages and jobs.                 *)
(***************************************************************************)
EXTENDS TelegramChat, SequenceTheorems, TLAPS

\* A sequence without repetitions followed by another, with none in common.
LEMMA ConcatInjective ==
    ASSUME NEW S, NEW s \in Seq(S), NEW t \in Seq(S), IsInjective(s), IsInjective(t),
           \A m \in 1 .. Len(s), n \in 1 .. Len(t) : s[m] # t[n]
    PROVE  IsInjective(s \o t)
<1>1. DOMAIN s = 1 .. Len(s) /\ DOMAIN t = 1 .. Len(t) /\ Len(s) \in Nat /\ Len(t) \in Nat
  OBVIOUS
<1>2. s \o t \in Seq(S) /\ Len(s \o t) = Len(s) + Len(t)
  BY ConcatProperties
<1>3. \A i \in 1 .. Len(s) + Len(t) :
          (s \o t)[i] = IF i <= Len(s) THEN s[i] ELSE t[i - Len(s)]
  BY ConcatProperties
<1>4. DOMAIN (s \o t) = 1 .. Len(s) + Len(t)
  BY <1>2
<1>5. SUFFICES ASSUME NEW a \in 1 .. Len(s) + Len(t), NEW b \in 1 .. Len(s) + Len(t),
                      (s \o t)[a] = (s \o t)[b]
               PROVE  a = b
  BY <1>4 DEF IsInjective
<1>6. CASE a <= Len(s) /\ b <= Len(s)
  BY <1>1, <1>3, <1>5, <1>6 DEF IsInjective
<1>7. CASE a > Len(s) /\ b > Len(s)
  <2>1. a - Len(s) \in DOMAIN t /\ b - Len(s) \in DOMAIN t /\ t[a - Len(s)] = t[b - Len(s)]
    BY <1>1, <1>3, <1>5, <1>7
  <2>2. a - Len(s) = b - Len(s)
    BY <2>1 DEF IsInjective
  <2> QED  BY <1>1, <2>2
<1>8. CASE a <= Len(s) /\ b > Len(s)
  BY <1>1, <1>3, <1>5, <1>8
<1>9. CASE a > Len(s) /\ b <= Len(s)
  BY <1>1, <1>3, <1>5, <1>9
<1> QED  BY <1>1, <1>6, <1>7, <1>8, <1>9

-----------------------------------------------------------------------------
\* A handler that reaches the lock leaves the state in its types.
LEMMA TypeAcquire ==
    ASSUME ChatTypeOK, NEW h \in Handlers, Acquire(h), UNCHANGED <<queue, promised>>
    PROVE  ChatTypeOK'
<1>1. asked \o <<h>> \in Seq(Handlers) /\ Append(waiters, h) \in Seq(Handlers)
  BY DEF ChatTypeOK
<1> QED  BY <1>1 DEF Acquire, StartTurn, ChatTypeOK

\* So does one that lets go of it.
LEMMA TypeRelease ==
    ASSUME ChatTypeOK, NEW h \in Handlers, Release(h), UNCHANGED <<waiters, queue, asked, promised>>
    PROVE  ChatTypeOK'
BY DEF Release, ChatTypeOK

\* And one that is told how its turn ended, whatever it does next.
LEMMA TypeMessageTurnEnds ==
    ASSUME ChatTypeOK, NEW m \in Messages, MessageTurnEnds(m)
    PROVE  ChatTypeOK'
<1>1. m \in Handlers
  BY DEF Handlers
<1>2. CASE queue = <<>>
  BY <1>1, <1>2, TypeRelease DEF MessageTurnEnds, DrainOrRelease
<1>3. CASE queue # <<>>
  <2>1. queue \in Seq(Handlers)
    BY DEF ChatTypeOK, Handlers
  <2>2. asked \o queue \in Seq(Handlers)
    BY <2>1 DEF ChatTypeOK
  <2>3. <<>> \in Seq(Messages)
    BY EmptySeq
  <2> QED  BY <1>1, <1>3, <2>2, <2>3 DEF MessageTurnEnds, DrainOrRelease, StartTurn, ChatTypeOK
<1> QED  BY <1>2, <1>3

\* Every handler's step stays in the types.
LEMMA TypeStep == ChatTypeOK /\ [ChatNext]_chatVars => ChatTypeOK'
<1> SUFFICES ASSUME ChatTypeOK, [ChatNext]_chatVars PROVE ChatTypeOK'
  OBVIOUS
<1>1. ASSUME NEW m \in Messages, MessageQueues(m) PROVE ChatTypeOK'
  BY <1>1 DEF MessageQueues, ChatTypeOK, Handlers
<1>2. ASSUME NEW m \in Messages, MessageStarts(m) PROVE ChatTypeOK'
  BY <1>2, TypeAcquire DEF MessageStarts, Handlers
<1>3. ASSUME NEW j \in Jobs, JobArrives(j) PROVE ChatTypeOK'
  BY <1>3, TypeAcquire DEF JobArrives, Handlers
<1>4. ASSUME NEW h \in Handlers, Granted(h) PROVE ChatTypeOK'
  <2>1. asked \o <<h>> \in Seq(Handlers) /\ Tail(waiters) \in Seq(Handlers)
    BY <1>4 DEF ChatTypeOK, Granted
  <2> QED  BY <1>4, <2>1 DEF Granted, StartTurn, ChatTypeOK
<1>5. ASSUME NEW m \in Messages, MessageTurnEnds(m) PROVE ChatTypeOK'
  BY <1>5, TypeMessageTurnEnds
<1>6. ASSUME NEW m \in Messages, MessageFails(m) PROVE ChatTypeOK'
  BY <1>6, TypeRelease DEF MessageFails, Handlers
<1>7. ASSUME NEW j \in Jobs, JobTurnEnds(j) PROVE ChatTypeOK'
  BY <1>7, TypeRelease DEF JobTurnEnds, Handlers
<1>8. CASE UNCHANGED chatVars
  BY <1>8 DEF chatVars, ChatTypeOK
<1> QED  BY <1>1, <1>2, <1>3, <1>4, <1>5, <1>6, <1>7, <1>8 DEF ChatNext, Arrives, Proceeds

\* The state of the chat stays in its types.
THEOREM TypeCorrect == ChatSpec => []ChatTypeOK
<1>1. ChatInit => ChatTypeOK
  <2>1. <<>> \in Seq(Messages) /\ <<>> \in Seq(Handlers)
    BY EmptySeq
  <2> QED  BY <2>1 DEF ChatInit, ChatTypeOK
<1> QED  BY <1>1, TypeStep, PTL DEF ChatSpec

-----------------------------------------------------------------------------
(* One turn at a time.                                                     *)

\* Whoever is in line is waiting, and is in line once: a released lock goes
\* to one handler.
WaitersWait == \A n \in 1 .. Len(waiters) : handler[waiters[n]] = "wait"
WaitersOnce == \A k, n \in 1 .. Len(waiters) : waiters[k] = waiters[n] => k = n

TurnInv == OneTurnAtATime /\ LockHasTurn /\ WaitersWait /\ WaitersOnce

\* A new handler takes the lock or its place in line.
LEMMA TurnAcquire ==
    ASSUME ChatTypeOK, TurnInv, NEW h \in Handlers, handler[h] = "new", Acquire(h)
    PROVE  TurnInv'
<1>1. CASE ~locked /\ waiters = <<>>
  <2>1. locked' = TRUE /\ waiters' = waiters /\ handler' = [handler EXCEPT ![h] = "turn"]
    BY <1>1 DEF Acquire
  <2>2. \A g \in Handlers : handler'[g] = IF g = h THEN "turn" ELSE handler[g]
    BY <2>1 DEF ChatTypeOK
  <2>3. \A g \in Handlers : handler'[g] \in {"turn", "drain"} <=> g = h
    BY <1>1, <2>2 DEF TurnInv, LockHasTurn, Holding
  <2>4. OneTurnAtATime' /\ LockHasTurn'
    BY <2>1, <2>3 DEF OneTurnAtATime, LockHasTurn, Holding
  <2>5. Len(waiters') = 0
    BY <1>1, <2>1
  <2> QED  BY <2>4, <2>5 DEF TurnInv, WaitersWait, WaitersOnce
<1>2. CASE ~(~locked /\ waiters = <<>>)
  <2>1. locked' = locked /\ waiters' = Append(waiters, h) /\ handler' = [handler EXCEPT ![h] = "wait"]
    BY <1>2 DEF Acquire
  <2>2. \A g \in Handlers : handler'[g] = IF g = h THEN "wait" ELSE handler[g]
    BY <2>1 DEF ChatTypeOK
  <2>3. OneTurnAtATime' /\ LockHasTurn'
    BY <2>1, <2>2 DEF TurnInv, OneTurnAtATime, LockHasTurn, Holding
  <2>4. waiters \in Seq(Handlers) /\ Len(waiters) \in Nat
    BY DEF ChatTypeOK
  <2>5. /\ Len(waiters') = Len(waiters) + 1
        /\ \A n \in 1 .. Len(waiters) : /\ waiters[n] \in Handlers
                                        /\ waiters'[n] = waiters[n]
        /\ waiters'[Len(waiters) + 1] = h
    BY <2>1, <2>4
  <2>6. \A n \in 1 .. Len(waiters) : waiters[n] # h
    BY DEF TurnInv, WaitersWait
  <2>7. WaitersWait'
    BY <2>2, <2>4, <2>5 DEF TurnInv, WaitersWait
  <2>8. WaitersOnce'
    BY <2>4, <2>5, <2>6 DEF TurnInv, WaitersOnce
  <2> QED  BY <2>3, <2>7, <2>8 DEF TurnInv
<1> QED  BY <1>1, <1>2

LEMMA TurnGranted ==
    ASSUME ChatTypeOK, TurnInv, NEW h \in Handlers, Granted(h)
    PROVE  TurnInv'
<1>1. ~locked /\ locked' = TRUE /\ waiters' = Tail(waiters) /\ waiters[1] = h /\ waiters # <<>>
      /\ handler' = [handler EXCEPT ![h] = "turn"]
  BY DEF Granted, ChatTypeOK
<1>2. \A g \in Handlers : handler'[g] = IF g = h THEN "turn" ELSE handler[g]
  BY <1>1 DEF ChatTypeOK
<1>3. \A g \in Handlers : handler'[g] \in {"turn", "drain"} <=> g = h
  BY <1>1, <1>2 DEF TurnInv, LockHasTurn, Holding
<1>4. OneTurnAtATime' /\ LockHasTurn'
  BY <1>1, <1>3 DEF OneTurnAtATime, LockHasTurn, Holding
<1>5. /\ Len(waiters) \in Nat /\ Len(waiters) > 0
      /\ Len(waiters') = Len(waiters) - 1
      /\ \A n \in 1 .. Len(waiters) - 1 : waiters'[n] = waiters[n + 1] /\ waiters[n + 1] \in Handlers
  BY <1>1 DEF ChatTypeOK
<1>6. \A n \in 1 .. Len(waiters) - 1 : n + 1 \in 1 .. Len(waiters) /\ 1 \in 1 .. Len(waiters) /\ n + 1 # 1
  BY <1>5
<1>7. \A n \in 1 .. Len(waiters) - 1 : waiters[n + 1] # h
  BY <1>1, <1>6 DEF TurnInv, WaitersOnce
<1>8. WaitersWait'
  BY <1>2, <1>5, <1>6, <1>7 DEF TurnInv, WaitersWait
<1>9. WaitersOnce'
  BY <1>5, <1>6 DEF TurnInv, WaitersOnce
<1> QED  BY <1>4, <1>8, <1>9 DEF TurnInv

\* The one whose turn it was goes on, or lets go of the lock.
LEMMA TurnRelease ==
    ASSUME ChatTypeOK, TurnInv, NEW h \in Handlers, Holding(h), UNCHANGED waiters,
           NEW s \in {"drain", "done"}, handler' = [handler EXCEPT ![h] = s],
           locked' = (s = "drain")
    PROVE  TurnInv'
<1>1. \A g \in Handlers : handler'[g] = IF g = h THEN s ELSE handler[g]
  BY DEF ChatTypeOK
<1>2. \A g \in Handlers : handler'[g] \in {"turn", "drain"} <=> g = h /\ s = "drain"
  BY <1>1 DEF TurnInv, OneTurnAtATime, Holding
<1>3. OneTurnAtATime' /\ LockHasTurn'
  BY <1>2 DEF OneTurnAtATime, LockHasTurn, Holding
<1>4. \A n \in 1 .. Len(waiters) : waiters[n] \in Handlers
  BY DEF ChatTypeOK
<1>5. WaitersWait'
  BY <1>1, <1>4 DEF TurnInv, WaitersWait, Holding
<1> QED  BY <1>3, <1>5 DEF TurnInv, WaitersOnce

\* No step breaks the agreement of the lock, its line and the turn under way.
LEMMA TurnStep == ChatTypeOK /\ TurnInv /\ [ChatNext]_chatVars => TurnInv'
<1> SUFFICES ASSUME ChatTypeOK, TurnInv, [ChatNext]_chatVars PROVE TurnInv'
  OBVIOUS
<1>1. ASSUME NEW m \in Messages, MessageQueues(m) PROVE TurnInv'
  <2>1. \A g \in Handlers : handler'[g] = IF g = m THEN "queued" ELSE handler[g]
    BY <1>1 DEF MessageQueues, ChatTypeOK
  <2>2. UNCHANGED <<locked, waiters>> /\ handler[m] = "new"
    BY <1>1 DEF MessageQueues
  <2>3. OneTurnAtATime' /\ LockHasTurn'
    BY <2>1, <2>2 DEF TurnInv, OneTurnAtATime, LockHasTurn, Holding
  <2>4. \A n \in 1 .. Len(waiters) : waiters[n] \in Handlers
    BY DEF ChatTypeOK
  <2>5. WaitersWait'
    BY <2>1, <2>2, <2>4 DEF TurnInv, WaitersWait
  <2> QED  BY <2>2, <2>3, <2>5 DEF TurnInv, WaitersOnce
<1>2. ASSUME NEW m \in Messages, MessageStarts(m) PROVE TurnInv'
  BY <1>2, TurnAcquire DEF MessageStarts, Handlers
<1>3. ASSUME NEW j \in Jobs, JobArrives(j) PROVE TurnInv'
  BY <1>3, TurnAcquire DEF JobArrives, Handlers
<1>4. ASSUME NEW h \in Handlers, Granted(h) PROVE TurnInv'
  BY <1>4, TurnGranted
<1>5. ASSUME NEW m \in Messages, MessageTurnEnds(m) PROVE TurnInv'
  <2>1. m \in Handlers /\ Holding(m) /\ UNCHANGED waiters /\ locked = TRUE
    BY <1>5 DEF MessageTurnEnds, Handlers, TurnInv, LockHasTurn, ChatTypeOK
  <2>2. CASE queue = <<>>
    <3>1. handler' = [handler EXCEPT ![m] = "done"] /\ locked' = ("done" = "drain")
      BY <1>5, <2>2 DEF MessageTurnEnds, DrainOrRelease, Release
    <3> QED  BY <2>1, <3>1, TurnRelease
  <2>3. CASE queue # <<>>
    <3>1. handler' = [handler EXCEPT ![m] = "drain"] /\ locked' = ("drain" = "drain")
      BY <1>5, <2>1, <2>3 DEF MessageTurnEnds, DrainOrRelease
    <3> QED  BY <2>1, <3>1, TurnRelease
  <2> QED  BY <2>2, <2>3
<1>6. ASSUME NEW m \in Messages, MessageFails(m) PROVE TurnInv'
  <2>1. handler' = [handler EXCEPT ![m] = "done"] /\ locked' = ("done" = "drain")
    BY <1>6 DEF MessageFails, Release
  <2> QED  BY <1>6, <2>1, TurnRelease DEF MessageFails, Handlers
<1>7. ASSUME NEW j \in Jobs, JobTurnEnds(j) PROVE TurnInv'
  <2>1. handler' = [handler EXCEPT ![j] = "done"] /\ locked' = ("done" = "drain")
    BY <1>7 DEF JobTurnEnds, Release
  <2> QED  BY <1>7, <2>1, TurnRelease DEF JobTurnEnds, Handlers
<1>8. CASE UNCHANGED chatVars
  BY <1>8 DEF chatVars, TurnInv, OneTurnAtATime, LockHasTurn, Holding, WaitersWait, WaitersOnce
<1> QED  BY <1>1, <1>2, <1>3, <1>4, <1>5, <1>6, <1>7, <1>8 DEF ChatNext, Arrives, Proceeds

\* The lock and the turns agree in every state.
LEMMA TurnAlways == ChatSpec => [](ChatTypeOK /\ TurnInv)
<1>1. ChatInit => TurnInv
  BY DEF ChatInit, TurnInv, OneTurnAtATime, LockHasTurn, Holding, WaitersWait, WaitersOnce
<1> QED  BY <1>1, TurnStep, TypeCorrect, PTL DEF ChatSpec

\* Two handlers of a chat are never in a turn together.
THEOREM OneTurnCorrect == ChatSpec => []OneTurnAtATime
<1>1. TurnInv => OneTurnAtATime
  BY DEF TurnInv
<1> QED  BY <1>1, TurnAlways, PTL

\* The chat's lock is held exactly while a turn is under way.
THEOREM LockCorrect == ChatSpec => []LockHasTurn
<1>1. TurnInv => LockHasTurn
  BY DEF TurnInv
<1> QED  BY <1>1, TurnAlways, PTL

-----------------------------------------------------------------------------
(* What is asked, and what is left on the queue.                           *)

\* The words on the queue are those of handlers that have left, and no turn
\* was about them; a turn is only about handlers that were heard.
AskedBegun  == \A n \in 1 .. Len(asked) : handler[asked[n]] \notin {"new", "wait"}
QueuedLeft  == \A n \in 1 .. Len(queue) : handler[queue[n]] = "queued"
QueuedApart == \A k \in 1 .. Len(asked), n \in 1 .. Len(queue) : asked[k] # queue[n]

AskedInv == /\ AskedBegun /\ QueuedLeft /\ QueuedApart
            /\ IsInjective(asked) /\ IsInjective(queue)

\* Neither sequence changes, and no handler goes back.
LEMMA AskedSame ==
    ASSUME ChatTypeOK, AskedInv, UNCHANGED <<asked, queue>>,
           \A g \in Handlers : /\ handler[g] = "queued" => handler'[g] = "queued"
                               /\ handler'[g] \in {"new", "wait"} => handler[g] \in {"new", "wait"}
    PROVE  AskedInv'
<1>1. /\ \A n \in 1 .. Len(asked) : asked[n] \in Handlers
      /\ \A n \in 1 .. Len(queue) : queue[n] \in Handlers
  BY DEF ChatTypeOK, Handlers
<1> QED  BY <1>1 DEF AskedInv, AskedBegun, QueuedLeft, QueuedApart

\* A turn starts about a handler's own words.
LEMMA AskedOwn ==
    ASSUME ChatTypeOK, AskedInv, UNCHANGED queue, NEW h \in Handlers, handler[h] \in {"new", "wait"},
           handler' = [handler EXCEPT ![h] = "turn"], asked' = asked \o <<h>>
    PROVE  AskedInv'
<1>1. \A g \in Handlers : handler'[g] = IF g = h THEN "turn" ELSE handler[g]
  BY DEF ChatTypeOK
<1>2. /\ asked \in Seq(Handlers) /\ <<h>> \in Seq(Handlers) /\ Len(<<h>>) = 1 /\ Len(asked) \in Nat
      /\ \A n \in 1 .. Len(asked) : asked[n] \in Handlers
      /\ \A n \in 1 .. Len(queue) : queue[n] \in Handlers
  BY DEF ChatTypeOK, Handlers
<1>3. /\ Len(asked') = Len(asked) + 1
      /\ \A n \in 1 .. Len(asked) : asked'[n] = asked[n]
      /\ asked'[Len(asked) + 1] = h
  BY <1>2, ConcatProperties
<1>4. \A n \in 1 .. Len(asked) : asked[n] # h
  BY DEF AskedInv, AskedBegun
<1>5. \A n \in 1 .. Len(queue) : queue[n] # h
  BY DEF AskedInv, QueuedLeft
<1>6. AskedBegun' /\ QueuedLeft' /\ QueuedApart'
  BY <1>1, <1>2, <1>3, <1>4, <1>5 DEF AskedInv, AskedBegun, QueuedLeft, QueuedApart
<1>7. IsInjective(asked')
  <2>1. IsInjective(<<h>>) /\ \A m \in 1 .. Len(asked), n \in 1 .. Len(<<h>>) : asked[m] # <<h>>[n]
    BY <1>2, <1>4 DEF IsInjective
  <2> QED  BY <1>2, <2>1, ConcatInjective DEF AskedInv
<1> QED  BY <1>6, <1>7 DEF AskedInv

\* A turn starts about all that is queued.
LEMMA AskedBatch ==
    ASSUME ChatTypeOK, AskedInv, NEW m \in Messages, Holding(m),
           handler' = [handler EXCEPT ![m] = "drain"], asked' = asked \o queue, queue' = <<>>
    PROVE  AskedInv'
<1>1. \A g \in Handlers : handler'[g] = IF g = m THEN "drain" ELSE handler[g]
  BY DEF ChatTypeOK
<1>2. /\ asked \in Seq(Handlers) /\ queue \in Seq(Handlers) /\ Len(asked) \in Nat /\ Len(queue) \in Nat
      /\ \A n \in 1 .. Len(asked) : asked[n] \in Handlers
      /\ \A n \in 1 .. Len(queue) : queue[n] \in Handlers
  BY DEF ChatTypeOK, Handlers
<1>3. /\ Len(asked') = Len(asked) + Len(queue)
      /\ \A n \in 1 .. Len(asked') :
             asked'[n] = IF n <= Len(asked) THEN asked[n] ELSE queue[n - Len(asked)]
  BY <1>2, ConcatProperties
<1>4. AskedBegun'
  BY <1>1, <1>2, <1>3 DEF AskedInv, AskedBegun, QueuedLeft
<1>5. Len(queue') = 0 /\ DOMAIN queue' = {}
  OBVIOUS
<1>6. IsInjective(asked')
  BY <1>2, ConcatInjective DEF AskedInv, QueuedApart
<1> QED  BY <1>4, <1>5, <1>6 DEF AskedInv, QueuedLeft, QueuedApart, IsInjective

\* A message leaves its words on the queue.
LEMMA AskedQueues ==
    ASSUME ChatTypeOK, AskedInv, NEW m \in Messages, MessageQueues(m)
    PROVE  AskedInv'
<1>1. /\ handler[m] = "new" /\ asked' = asked /\ queue' = queue \o <<m>>
      /\ \A g \in Handlers : handler'[g] = IF g = m THEN "queued" ELSE handler[g]
  <2>1. Append(queue, m) = queue \o <<m>>
    BY AppendIsConcat DEF ChatTypeOK
  <2> QED  BY <2>1 DEF MessageQueues, ChatTypeOK
<1>2. /\ queue \in Seq(Messages) /\ <<m>> \in Seq(Messages) /\ Len(<<m>>) = 1 /\ Len(queue) \in Nat
      /\ \A n \in 1 .. Len(asked) : asked[n] \in Handlers
      /\ \A n \in 1 .. Len(queue) : queue[n] \in Handlers
  BY DEF ChatTypeOK, Handlers
<1>3. /\ Len(queue') = Len(queue) + 1
      /\ \A n \in 1 .. Len(queue) : queue'[n] = queue[n]
      /\ queue'[Len(queue) + 1] = m
  BY <1>1, <1>2, ConcatProperties
<1>4. \A n \in 1 .. Len(asked) : asked[n] # m
  BY <1>1 DEF AskedInv, AskedBegun
<1>5. \A n \in 1 .. Len(queue) : queue[n] # m
  BY <1>1 DEF AskedInv, QueuedLeft
<1>6. m \in Handlers
  BY DEF Handlers
<1>7. AskedBegun' /\ QueuedLeft' /\ QueuedApart'
  BY <1>1, <1>2, <1>3, <1>4, <1>6 DEF AskedInv, AskedBegun, QueuedLeft, QueuedApart
<1>8. IsInjective(queue')
  <2>1. IsInjective(<<m>>) /\ \A k \in 1 .. Len(queue), n \in 1 .. Len(<<m>>) : queue[k] # <<m>>[n]
    BY <1>2, <1>5 DEF IsInjective
  <2> QED  BY <1>1, <1>2, <2>1, ConcatInjective DEF AskedInv
<1> QED  BY <1>1, <1>7, <1>8 DEF AskedInv

\* A new handler starts its turn, or waits for it.
LEMMA AskedAcquire ==
    ASSUME ChatTypeOK, AskedInv, NEW h \in Handlers, handler[h] = "new", Acquire(h), UNCHANGED queue
    PROVE  AskedInv'
<1>1. CASE ~locked /\ waiters = <<>>
  BY <1>1, AskedOwn DEF Acquire, StartTurn
<1>2. CASE ~(~locked /\ waiters = <<>>)
  <2>1. handler' = [handler EXCEPT ![h] = "wait"] /\ UNCHANGED asked
    BY <1>2 DEF Acquire
  <2>2. \A g \in Handlers : handler'[g] = IF g = h THEN "wait" ELSE handler[g]
    BY <2>1 DEF ChatTypeOK
  <2> QED  BY <2>1, <2>2, AskedSame
<1> QED  BY <1>1, <1>2

\* A turn ends, and the lock is let go.
LEMMA AskedRelease ==
    ASSUME ChatTypeOK, AskedInv, NEW h \in Handlers, Holding(h), Release(h), UNCHANGED <<asked, queue>>
    PROVE  AskedInv'
<1>1. \A g \in Handlers : handler'[g] = IF g = h THEN "done" ELSE handler[g]
  BY DEF Release, ChatTypeOK
<1> QED  BY <1>1, AskedSame DEF Holding

\* No step asks about a message again or queues it twice.
LEMMA AskedStep == ChatTypeOK /\ TurnInv /\ AskedInv /\ [ChatNext]_chatVars => AskedInv'
<1> SUFFICES ASSUME ChatTypeOK, TurnInv, AskedInv, [ChatNext]_chatVars PROVE AskedInv'
  OBVIOUS
<1>1. ASSUME NEW m \in Messages, MessageQueues(m) PROVE AskedInv'
  BY <1>1, AskedQueues
<1>2. ASSUME NEW m \in Messages, MessageStarts(m) PROVE AskedInv'
  BY <1>2, AskedAcquire DEF MessageStarts, Handlers
<1>3. ASSUME NEW j \in Jobs, JobArrives(j) PROVE AskedInv'
  BY <1>3, AskedAcquire DEF JobArrives, Handlers
<1>4. ASSUME NEW h \in Handlers, Granted(h) PROVE AskedInv'
  <2>1. handler[h] = "wait"
    BY <1>4 DEF Granted, ChatTypeOK, TurnInv, WaitersWait
  <2> QED  BY <1>4, <2>1, AskedOwn DEF Granted, StartTurn
<1>5. ASSUME NEW m \in Messages, MessageTurnEnds(m) PROVE AskedInv'
  <2>1. CASE queue = <<>>
    BY <1>5, <2>1, AskedRelease DEF MessageTurnEnds, DrainOrRelease, Handlers
  <2>2. CASE queue # <<>>
    BY <1>5, <2>2, AskedBatch DEF MessageTurnEnds, DrainOrRelease, StartTurn
  <2> QED  BY <2>1, <2>2
<1>6. ASSUME NEW m \in Messages, MessageFails(m) PROVE AskedInv'
  BY <1>6, AskedRelease DEF MessageFails, Handlers
<1>7. ASSUME NEW j \in Jobs, JobTurnEnds(j) PROVE AskedInv'
  BY <1>7, AskedRelease DEF JobTurnEnds, Handlers
<1>8. CASE UNCHANGED chatVars
  BY <1>8 DEF chatVars, AskedInv, AskedBegun, QueuedLeft, QueuedApart
<1> QED  BY <1>1, <1>2, <1>3, <1>4, <1>5, <1>6, <1>7, <1>8 DEF ChatNext, Arrives, Proceeds

\* What was asked about and what is queued stay apart in every state.
LEMMA AskedAlways == ChatSpec => []AskedInv
<1>1. ChatInit => AskedInv
  BY DEF ChatInit, AskedInv, AskedBegun, QueuedLeft, QueuedApart, IsInjective
<1> QED  BY <1>1, AskedStep, TurnAlways, PTL DEF ChatSpec

\* No message is asked about twice, or asked about and still queued.
THEOREM AskedOnceCorrect == ChatSpec => []AskedOnce
<1>1. ChatTypeOK /\ AskedInv => AskedOnce
  <2> SUFFICES ASSUME ChatTypeOK, AskedInv PROVE AskedOnce
    OBVIOUS
  <2>1. asked \in Seq(Handlers) /\ queue \in Seq(Handlers)
    BY DEF ChatTypeOK, Handlers
  <2> QED  BY <2>1, ConcatInjective DEF AskedInv, AskedOnce, QueuedApart
<1> QED  BY <1>1, AskedAlways, TypeCorrect, PTL

\* A step that leaves the queue and those who account for it as they are.
LEMMA DrainerStays ==
    ASSUME QueueHasDrainer, queue' = queue,
           \A h \in Handlers : \/ Holding(h) => Holding(h)'
                               \/ h \in Jobs \union Unanswerable /\ handler'[h] = "done",
           \A h \in Handlers : handler[h] = "done" => handler'[h] = "done"
    PROVE  QueueHasDrainer'
<1> SUFFICES ASSUME queue # <<>> PROVE QueueHasDrainer'
  BY DEF QueueHasDrainer
<1>1. Jobs \subseteq Handlers /\ Messages \subseteq Handlers /\ Unanswerable \subseteq Messages
      /\ Messages \intersect Jobs = {}
  BY ChatAssumption DEF Handlers
<1>2. CASE \E m \in Messages : Holding(m)
  BY <1>1, <1>2 DEF QueueHasDrainer
<1>3. CASE \E j \in Jobs : Holding(j) \/ handler[j] = "done"
  BY <1>1, <1>3 DEF QueueHasDrainer
<1>4. CASE \E m \in Unanswerable : handler[m] = "done"
  BY <1>1, <1>4 DEF QueueHasDrainer
<1> QED  BY <1>2, <1>3, <1>4 DEF QueueHasDrainer

\* Whoever holds the lock will still look at the queue, unless it is a job, or
\* a message that failed first.
THEOREM DrainerCorrect == ChatSpec => []QueueHasDrainer
<1>1. ChatTypeOK /\ TurnInv /\ QueueHasDrainer /\ [ChatNext]_chatVars => QueueHasDrainer'
  <2> SUFFICES ASSUME ChatTypeOK, TurnInv, QueueHasDrainer, [ChatNext]_chatVars PROVE QueueHasDrainer'
    OBVIOUS
  <2>1. Jobs \subseteq Handlers /\ Messages \subseteq Handlers /\ Unanswerable \subseteq Messages
    BY ChatAssumption DEF Handlers
  <2>2. ASSUME NEW h \in Handlers, handler[h] = "new", Acquire(h), queue' = queue
        PROVE  QueueHasDrainer'
    <3>1. \A g \in Handlers \ {h} : handler'[g] = handler[g]
      BY <2>2 DEF Acquire, ChatTypeOK
    <3>2. ~Holding(h) /\ handler[h] # "done"
      BY <2>2 DEF Holding
    <3> QED  BY <2>2, <3>1, <3>2, DrainerStays DEF Holding
  <2>3. ASSUME NEW m \in Messages, MessageQueues(m) PROVE QueueHasDrainer'
    <3>1. PICK h \in Handlers : Holding(h)
      BY <2>3 DEF MessageQueues, TurnInv, LockHasTurn
    <3>2. handler'[h] = handler[h]
      BY <2>1, <2>3, <3>1 DEF MessageQueues, Holding, ChatTypeOK
    <3> QED  BY <3>1, <3>2 DEF QueueHasDrainer, Holding, Handlers
  <2>4. ASSUME NEW m \in Messages, MessageStarts(m) PROVE QueueHasDrainer'
    BY <2>1, <2>2, <2>4 DEF MessageStarts
  <2>5. ASSUME NEW j \in Jobs, JobArrives(j) PROVE QueueHasDrainer'
    BY <2>1, <2>2, <2>5 DEF JobArrives
  <2>6. ASSUME NEW h \in Handlers, Granted(h) PROVE QueueHasDrainer'
    <3>1. handler'[h] = "turn" /\ \A g \in Handlers \ {h} : handler'[g] = handler[g]
      BY <2>6 DEF Granted, ChatTypeOK
    <3>2. waiters[1] = h /\ 1 \in 1 .. Len(waiters) /\ queue' = queue
      BY <2>6 DEF Granted, ChatTypeOK
    <3>3. handler[h] = "wait"
      BY <3>2 DEF TurnInv, WaitersWait
    <3> QED  BY <3>1, <3>2, <3>3, DrainerStays DEF Holding
  <2>7. ASSUME NEW m \in Messages, MessageTurnEnds(m) PROVE QueueHasDrainer'
    BY <2>7 DEF MessageTurnEnds, DrainOrRelease, QueueHasDrainer
  <2>8. ASSUME NEW m \in Messages, MessageFails(m) PROVE QueueHasDrainer'
    <3>1. m \in Unanswerable /\ handler'[m] = "done"
      BY <2>1, <2>8 DEF MessageFails, Release, ChatTypeOK
    <3> QED  BY <3>1 DEF QueueHasDrainer
  <2>9. ASSUME NEW j \in Jobs, JobTurnEnds(j) PROVE QueueHasDrainer'
    <3>1. handler'[j] = "done"
      BY <2>1, <2>9 DEF JobTurnEnds, Release, ChatTypeOK
    <3> QED  BY <3>1 DEF QueueHasDrainer
  <2>10. CASE UNCHANGED chatVars
    BY <2>10 DEF chatVars, QueueHasDrainer, Holding
  <2> QED
    BY <2>1, <2>3, <2>4, <2>5, <2>6, <2>7, <2>8, <2>9, <2>10 DEF ChatNext, Arrives, Proceeds
<1>2. ChatInit => QueueHasDrainer
  BY DEF ChatInit, QueueHasDrainer
<1> QED  BY <1>1, <1>2, TurnAlways, PTL DEF ChatSpec

\* A chat takes turns and loses no queued message without one to look for it.
THEOREM TurnsCorrect == ChatSpec => []ChatTakesTurns
<1> QED  BY OneTurnCorrect, AskedOnceCorrect, DrainerCorrect, PTL DEF ChatTakesTurns

-----------------------------------------------------------------------------
(* What is queued first is asked about first.                              *)

\* What is heard in a chat: what was asked about, then what is queued.
LEMMA HeardIs ==
    ASSUME ChatTypeOK
    PROVE  /\ asked \in Seq(Handlers) /\ queue \in Seq(Handlers)
           /\ Len(asked) \in Nat /\ Len(queue) \in Nat
           /\ Len(asked \o queue) = Len(asked) + Len(queue)
           /\ \A n \in 1 .. Len(asked) + Len(queue) :
                (asked \o queue)[n] = IF n <= Len(asked) THEN asked[n] ELSE queue[n - Len(asked)]
<1>1. asked \in Seq(Handlers) /\ queue \in Seq(Handlers)
  BY DEF ChatTypeOK, Handlers
<1> QED  BY <1>1, ConcatProperties

\* The order survives whatever keeps the order of what was heard.
LEMMA OrderKept ==
    ASSUME QueuedInOrder, promised' = promised,
           NEW f,
           \A n \in 1 .. Len(asked \o queue) :
             /\ f[n] \in 1 .. Len((asked \o queue)')
             /\ (asked \o queue)'[f[n]] = (asked \o queue)[n],
           \A k, l \in 1 .. Len(asked \o queue) : k < l => f[k] < f[l]
    PROVE  QueuedInOrder'
<1> DEFINE heard == asked \o queue
<1>1. SUFFICES ASSUME NEW i \in 1 .. Len(promised), NEW j \in 1 .. Len(promised), i <= j
               PROVE  \E k, l \in 1 .. Len(heard') :
                        heard'[k] = promised[i] /\ heard'[l] = promised[j] /\ (i < j => k < l)
  BY DEF QueuedInOrder
<1>2. PICK k \in 1 .. Len(heard), l \in 1 .. Len(heard) :
        heard[k] = promised[i] /\ heard[l] = promised[j] /\ (i < j => k < l)
  BY <1>1 DEF QueuedInOrder
<1>3. /\ f[k] \in 1 .. Len(heard') /\ f[l] \in 1 .. Len(heard')
      /\ heard'[f[k]] = promised[i] /\ heard'[f[l]] = promised[j]
      /\ i < j => f[k] < f[l]
  BY <1>2
<1> HIDE DEF heard
<1> QED  BY <1>3

\* A turn about a handler's own words goes between what was asked and what is
\* queued.
LEMMA OrderOwn ==
    ASSUME ChatTypeOK, QueuedInOrder, NEW h \in Handlers, UNCHANGED <<queue, promised>>,
           asked' = asked \o <<h>>
    PROVE  QueuedInOrder'
<1> DEFINE A == Len(asked)
           Q == Len(queue)
           f == [n \in 1 .. A + Q |-> IF n <= A THEN n ELSE n + 1]
<1>1. /\ asked \in Seq(Handlers) /\ queue \in Seq(Handlers) /\ A \in Nat /\ Q \in Nat
      /\ Len(asked \o queue) = A + Q
      /\ \A n \in 1 .. A + Q :
           (asked \o queue)[n] = IF n <= A THEN asked[n] ELSE queue[n - A]
  BY HeardIs
<1>2. /\ asked' \in Seq(Handlers) /\ Len(asked') = A + 1
      /\ \A n \in 1 .. A : asked'[n] = asked[n]
  BY <1>1
<1>3. /\ Len((asked \o queue)') = A + 1 + Q
      /\ \A n \in 1 .. A + 1 + Q :
           (asked \o queue)'[n] = IF n <= A + 1 THEN asked'[n] ELSE queue[n - (A + 1)]
  BY <1>1, <1>2, ConcatProperties
<1> HIDE DEF A, Q
<1>4. ASSUME NEW n \in 1 .. A + Q
      PROVE  f[n] \in 1 .. A + 1 + Q /\ (asked \o queue)'[f[n]] = (asked \o queue)[n]
  <2>1. CASE n <= A
    BY <1>1, <1>2, <1>3, <2>1
  <2>2. CASE n > A
    <3>1. f[n] = n + 1 /\ n + 1 \in 1 .. A + 1 + Q /\ (n + 1) - (A + 1) = n - A
      BY <1>1, <2>2
    <3> QED  BY <1>1, <1>3, <2>2, <3>1
  <2> QED  BY <1>1, <2>1, <2>2
<1>5. \A k, l \in 1 .. A + Q : k < l => f[k] < f[l]
  BY <1>1
<1> HIDE DEF f
<1> QED  BY <1>1, <1>3, <1>4, <1>5, OrderKept

\* What is queued is asked about as it is.
LEMMA OrderBatch ==
    ASSUME ChatTypeOK, QueuedInOrder, UNCHANGED promised, asked' = asked \o queue, queue' = <<>>
    PROVE  QueuedInOrder'
<1>1. (asked \o queue)' = asked \o queue
  <2>1. asked \o queue \in Seq(Handlers)
    BY HeardIs
  <2> QED  BY <2>1, ConcatEmptySeq
<1> DEFINE f == [n \in 1 .. Len(asked \o queue) |-> n]
<1>2. \A n \in 1 .. Len(asked \o queue) :
        f[n] \in 1 .. Len((asked \o queue)') /\ (asked \o queue)'[f[n]] = (asked \o queue)[n]
  BY <1>1
<1>3. \A k, l \in 1 .. Len(asked \o queue) : k < l => f[k] < f[l]
  OBVIOUS
<1> HIDE DEF f
<1> QED  BY <1>2, <1>3, OrderKept

\* A message that is told it is queued is the last that was.
LEMMA OrderQueues ==
    ASSUME ChatTypeOK, QueuedInOrder, NEW m \in Messages, MessageQueues(m)
    PROVE  QueuedInOrder'
<1> DEFINE A == Len(asked)
           Q == Len(queue)
           P == Len(promised)
           heard == asked \o queue
<1>1. /\ asked \in Seq(Handlers) /\ queue \in Seq(Handlers) /\ A \in Nat /\ Q \in Nat
      /\ Len(heard) = A + Q
      /\ \A n \in 1 .. A + Q : heard[n] = IF n <= A THEN asked[n] ELSE queue[n - A]
  BY HeardIs
<1>2. /\ asked' = asked /\ queue' = Append(queue, m) /\ promised' = Append(promised, m)
      /\ m \in Handlers /\ promised \in Seq(Messages)
  BY DEF MessageQueues, ChatTypeOK, Handlers
<1>3. /\ queue' \in Seq(Handlers) /\ Len(queue') = Q + 1 /\ queue'[Q + 1] = m
      /\ \A n \in 1 .. Q : queue'[n] = queue[n]
  BY <1>1, <1>2
<1>4. /\ Len(heard') = A + Q + 1
      /\ \A n \in 1 .. A + Q + 1 :
           heard'[n] = IF n <= A THEN asked[n] ELSE queue'[n - A]
  <2>1. heard' = asked \o queue'
    BY <1>2
  <2>2. /\ Len(asked \o queue') = Len(asked) + Len(queue')
        /\ \A n \in 1 .. Len(asked) + Len(queue') :
             (asked \o queue')[n] = IF n <= Len(asked) THEN asked[n] ELSE queue'[n - Len(asked)]
    <3>1. asked \in Seq(Handlers) /\ queue' \in Seq(Handlers)
      BY <1>1, <1>3
    <3> QED  BY <3>1, ConcatProperties
  <2> HIDE DEF heard
  <2>3. Len(asked) + Len(queue') = A + Q + 1
    BY <1>1, <1>3
  <2> QED  BY <2>1, <2>2, <2>3
<1>5. /\ P \in Nat /\ Len(promised') = P + 1 /\ promised'[P + 1] = m
      /\ \A n \in 1 .. P : promised'[n] = promised[n]
  BY <1>2
<1>o. \A i, j \in 1 .. P : i <= j =>
        \E k, l \in 1 .. A + Q : heard[k] = promised[i] /\ heard[l] = promised[j] /\ (i < j => k < l)
  <2>1. \A i, j \in 1 .. Len(promised) : i <= j =>
          \E k, l \in 1 .. Len(heard) :
            heard[k] = promised[i] /\ heard[l] = promised[j] /\ (i < j => k < l)
    BY Zenon DEF QueuedInOrder
  <2>2. Len(heard) = A + Q
    BY <1>1
  <2> HIDE DEF heard, A, Q
  <2> QED  BY <2>1, <2>2
<1> HIDE DEF A, Q, P, heard
<1>6. heard'[A + Q + 1] = m
  BY <1>1, <1>3, <1>4
<1>7. ASSUME NEW n \in 1 .. A + Q  PROVE heard'[n] = heard[n]
  <2>1. CASE n <= A
    BY <1>1, <1>4, <2>1
  <2>2. CASE n > A
    <3>1. n - A \in 1 .. Q
      BY <1>1, <2>2
    <3> QED  BY <1>1, <1>3, <1>4, <2>2, <3>1, SMTT(60)
  <2> QED  BY <1>1, <2>1, <2>2
<1>8. ASSUME NEW i \in 1 .. P + 1, NEW j \in 1 .. P + 1, i <= j
      PROVE  \E k, l \in 1 .. A + Q + 1 :
               heard'[k] = promised'[i] /\ heard'[l] = promised'[j] /\ (i < j => k < l)
  <2>1. CASE i = P + 1
    <3>1. j = P + 1 /\ A + Q + 1 \in 1 .. A + Q + 1
      BY <1>1, <1>5, <1>8, <2>1
    <3> QED  BY <1>5, <1>6, <2>1, <3>1
  <2>2. CASE i \in 1 .. P /\ j = P + 1
    <3>1. PICK k \in 1 .. A + Q : heard[k] = promised[i]
      <4>1. i <= i
        BY <1>5, <2>2
      <4> QED  BY <1>o, <2>2, <4>1
    <3>2. k \in 1 .. A + Q + 1 /\ A + Q + 1 \in 1 .. A + Q + 1 /\ k < A + Q + 1
      BY <1>1
    <3> QED  BY <1>5, <1>6, <1>7, <2>2, <3>1, <3>2
  <2>3. CASE i \in 1 .. P /\ j \in 1 .. P
    <3>1. PICK k \in 1 .. A + Q, l \in 1 .. A + Q :
            heard[k] = promised[i] /\ heard[l] = promised[j] /\ (i < j => k < l)
      BY <1>o, <1>8, <2>3
    <3>2. k \in 1 .. A + Q + 1 /\ l \in 1 .. A + Q + 1
      BY <1>1
    <3> QED  BY <1>5, <1>7, <2>3, <3>1, <3>2
  <2> QED  BY <1>5, <1>8, <2>1, <2>2, <2>3
<1>9. SUFFICES ASSUME NEW i \in 1 .. Len(promised'), NEW j \in 1 .. Len(promised'), i <= j
               PROVE  \E k, l \in 1 .. Len(heard') :
                        heard'[k] = promised'[i] /\ heard'[l] = promised'[j] /\ (i < j => k < l)
  BY DEF QueuedInOrder, heard
<1>10. i \in 1 .. P + 1 /\ j \in 1 .. P + 1
  BY <1>5
<1>11. PICK k \in 1 .. A + Q + 1, l \in 1 .. A + Q + 1 :
         heard'[k] = promised'[i] /\ heard'[l] = promised'[j] /\ (i < j => k < l)
  BY <1>8, <1>9, <1>10
<1>12. k \in 1 .. Len(heard') /\ l \in 1 .. Len(heard')
  BY <1>4
<1> QED  BY <1>11, <1>12

\* Nothing is heard in another order than it was promised in.
LEMMA OrderStep == ChatTypeOK /\ QueuedInOrder /\ [ChatNext]_chatVars => QueuedInOrder'
<1> SUFFICES ASSUME ChatTypeOK, QueuedInOrder, [ChatNext]_chatVars PROVE QueuedInOrder'
  OBVIOUS
<1>0. Jobs \subseteq Handlers /\ Messages \subseteq Handlers
  BY DEF Handlers
<1>1. ASSUME UNCHANGED <<asked, queue, promised>>  PROVE QueuedInOrder'
  BY <1>1 DEF QueuedInOrder
<1>2. ASSUME NEW h \in Handlers, Acquire(h), UNCHANGED <<queue, promised>>  PROVE QueuedInOrder'
  BY <1>1, <1>2, OrderOwn DEF Acquire, StartTurn
<1>3. ASSUME NEW m \in Messages, MessageQueues(m)  PROVE QueuedInOrder'
  BY <1>3, OrderQueues
<1>4. ASSUME NEW m \in Messages, MessageStarts(m)  PROVE QueuedInOrder'
  BY <1>0, <1>2, <1>4 DEF MessageStarts
<1>5. ASSUME NEW j \in Jobs, JobArrives(j)  PROVE QueuedInOrder'
  BY <1>0, <1>2, <1>5 DEF JobArrives
<1>6. ASSUME NEW h \in Handlers, Granted(h)  PROVE QueuedInOrder'
  BY <1>6, OrderOwn DEF Granted, StartTurn
<1>7. ASSUME NEW m \in Messages, MessageTurnEnds(m)  PROVE QueuedInOrder'
  BY <1>1, <1>7, OrderBatch DEF MessageTurnEnds, DrainOrRelease, StartTurn
<1>8. ASSUME NEW m \in Messages, MessageFails(m)  PROVE QueuedInOrder'
  BY <1>1, <1>8 DEF MessageFails
<1>9. ASSUME NEW j \in Jobs, JobTurnEnds(j)  PROVE QueuedInOrder'
  BY <1>1, <1>9 DEF JobTurnEnds
<1>10. CASE UNCHANGED chatVars
  BY <1>1, <1>10 DEF chatVars
<1> QED  BY <1>3, <1>4, <1>5, <1>6, <1>7, <1>8, <1>9, <1>10 DEF ChatNext, Arrives, Proceeds

\* The mind hears what was queued in the order in which it was promised, and
\* all of it that is not still queued, for any messages and jobs.
THEOREM OrderCorrect == ChatSpec => []QueuedInOrder
<1>1. ChatInit => QueuedInOrder
  <2>1. ChatInit => Len(promised) = 0
    BY DEF ChatInit
  <2> QED  BY <2>1 DEF QueuedInOrder
<1> QED  BY <1>1, OrderStep, TypeCorrect, PTL DEF ChatSpec

=============================================================================
