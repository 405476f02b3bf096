---------------------------- MODULE TelegramChat ----------------------------
(***************************************************************************)
(* One Telegram chat: the lock and the queue of bots/bot_utils.py, and the *)
(* handlers of telegram_bot.py that share them.  A text, a voice note and  *)
(* an unknown command are messages: one that finds the lock taken leaves   *)
(* its words on the queue, and one that holds it empties the queue before  *)
(* it lets go.  A photo, /skill, /suspend and a tapped button are jobs:    *)
(* they wait for the lock, do their one turn and let go.                   *)
(*                                                                         *)
(* The handlers are coroutines of one loop, and an action is what happens  *)
(* between two awaits.  The lock is asyncio's: released, it is free until  *)
(* the first waiter runs, and whoever asks in between waits behind it.     *)
(* A turn is a call of the gateway and ends well or raises.                *)
(***************************************************************************)
EXTENDS Naturals, FiniteSets, SequencesExt

CONSTANTS
    Messages,    \* inbound messages that queue when the chat is busy
    Jobs,        \* inbound work that waits for the lock instead
    Unanswerable \* the messages whose error reply Telegram refuses as well

Handlers == Messages \union Jobs

ASSUME ChatAssumption ==
    /\ Messages \intersect Jobs = {}
    /\ Unanswerable \subseteq Messages

VARIABLES
    handler,  \* where each handler is
    locked,   \* lock.locked()
    waiters,  \* the handlers waiting for the lock, in order
    queue,    \* the words queued, each named by its message
    asked,    \* history: the messages a turn was asked about, in order
    promised  \* history: the messages told that they are queued, in order

chatVars == <<handler, locked, waiters, queue, asked, promised>>

ChatTypeOK ==
    /\ handler \in [Handlers -> {"new", "wait", "turn", "drain", "queued", "done"}]
    /\ locked \in BOOLEAN
    /\ waiters \in Seq(Handlers)
    /\ queue \in Seq(Messages)
    /\ asked \in Seq(Handlers)
    /\ promised \in Seq(Messages)

ChatInit ==
    /\ handler = [h \in Handlers |-> "new"]
    /\ locked = FALSE /\ waiters = <<>> /\ queue = <<>>
    /\ asked = <<>> /\ promised = <<>>

Holding(h) == handler[h] \in {"turn", "drain"}

-----------------------------------------------------------------------------
(* The lock, and a turn under it.                                          *)

StartTurn(words) == asked' = asked \o words

\* asyncio.Lock.acquire: at once if it is free and nobody waits, else in line.
\* Mutant: the turn starts whether or not the lock is free.
AcquireUnlocked(h) ==
    /\ locked' = locked
    /\ handler' = [handler EXCEPT ![h] = "turn"]
    /\ StartTurn(<<h>>)
    /\ UNCHANGED waiters

Acquire(h) ==
    IF ~locked /\ waiters = <<>>
    THEN /\ locked' = TRUE
         /\ handler' = [handler EXCEPT ![h] = "turn"]
         /\ StartTurn(<<h>>)
         /\ UNCHANGED waiters
    ELSE /\ waiters' = Append(waiters, h)
         /\ handler' = [handler EXCEPT ![h] = "wait"]
         /\ UNCHANGED <<locked, asked>>

Granted(h) ==
    /\ ~locked /\ waiters # <<>> /\ Head(waiters) = h
    /\ locked' = TRUE
    /\ waiters' = Tail(waiters)
    /\ handler' = [handler EXCEPT ![h] = "turn"]
    /\ StartTurn(<<h>>)
    /\ UNCHANGED <<queue, promised>>

Release(h) ==
    /\ locked' = FALSE
    /\ handler' = [handler EXCEPT ![h] = "done"]

-----------------------------------------------------------------------------
(* handle_text, handle_voice, handle_unknown_command.                      *)

\* Mutant: the newest message is put before those that wait.
MessageJumpsQueue(m) ==
    /\ handler[m] = "new" /\ locked
    /\ queue' = <<m>> \o queue
    /\ promised' = Append(promised, m)
    /\ handler' = [handler EXCEPT ![m] = "queued"]
    /\ UNCHANGED <<locked, waiters, asked>>

MessageQueues(m) ==
    /\ handler[m] = "new" /\ locked
    /\ queue' = Append(queue, m)
    /\ promised' = Append(promised, m)
    /\ handler' = [handler EXCEPT ![m] = "queued"]
    /\ UNCHANGED <<locked, waiters, asked>>

MessageStarts(m) ==
    /\ handler[m] = "new" /\ ~locked
    /\ Acquire(m)
    /\ UNCHANGED <<queue, promised>>

\* The turn is over, answered or not.  What is queued goes into one more, and
\* the lock is let go in the same step that finds the queue empty.
DrainOrRelease(m) ==
    IF queue = <<>>
    THEN Release(m) /\ UNCHANGED <<queue, asked>>
    ELSE /\ StartTurn(queue)
         /\ queue' = <<>>
         /\ handler' = [handler EXCEPT ![m] = "drain"]
         /\ UNCHANGED locked

\* A mutant: one batch and no more.
MessageDrainsOnce(m) ==
    /\ handler[m] \in {"turn", "drain"}
    /\ IF handler[m] = "drain" THEN Release(m) /\ UNCHANGED <<queue, asked>>
       ELSE DrainOrRelease(m)
    /\ UNCHANGED <<waiters, promised>>
MessageTurnEnds(m) ==
    /\ Holding(m)
    /\ DrainOrRelease(m)
    /\ UNCHANGED <<waiters, promised>>

\* The error reply raises in turn: the handler is left, its lock with it.
MessageFails(m) ==
    /\ m \in Unanswerable /\ Holding(m)
    /\ Release(m)
    /\ UNCHANGED <<waiters, queue, asked, promised>>

-----------------------------------------------------------------------------
(* handle_photo, cmd_skill, cmd_suspend, on_session_button.                *)

JobArrives(j) ==
    /\ handler[j] = "new"
    /\ Acquire(j)
    /\ UNCHANGED <<queue, promised>>

JobTurnEnds(j) ==
    /\ Holding(j)
    /\ Release(j)
    /\ UNCHANGED <<waiters, queue, asked, promised>>

-----------------------------------------------------------------------------
Arrives == \/ \E m \in Messages : MessageQueues(m) \/ MessageStarts(m)
           \/ \E j \in Jobs : JobArrives(j)

Proceeds(h) == \/ Granted(h)
               \/ h \in Messages /\ (MessageTurnEnds(h) \/ MessageFails(h))
               \/ h \in Jobs /\ JobTurnEnds(h)

ChatNext == Arrives \/ \E h \in Handlers : Proceeds(h)

ChatSpec == ChatInit /\ [][ChatNext]_chatVars

\* The loop runs its handlers, and every turn ends.  No message need arrive.
ChatFairness == \A h \in Handlers : WF_chatVars(Proceeds(h))

ChatFairSpec == ChatSpec /\ ChatFairness

-----------------------------------------------------------------------------
\* One turn at a time in a chat: two messages never start the mind in
\* parallel (bot_utils.py 1-6, telegram_bot.py 675-679).
OneTurnAtATime == \A g, h \in Handlers : Holding(g) /\ Holding(h) => g = h

\* The lock is held by the one whose turn it is, and by nobody else.
LockHasTurn == locked <=> \E h \in Handlers : Holding(h)

\* Words on the queue have a handler at work whose last look at the queue is
\* still to come, unless a job has held the lock, which never looks, or a
\* message is over that may have failed before its last look.
QueueHasDrainer ==
    queue # <<>> => \/ \E m \in Messages : Holding(m)
                    \/ \E j \in Jobs : Holding(j) \/ handler[j] = "done"
                    \/ \E m \in Unanswerable : handler[m] = "done"

\* A message is asked about once at most, and never both queued and asked.
AskedOnce == IsInjective(asked \o queue)

\* A chat takes turns: one at a time, each message in one of them, and words on
\* the queue have a handler that will look at it.
ChatTakesTurns == OneTurnAtATime /\ AskedOnce /\ QueueHasDrainer

\* What was queued first is asked about first, and none of it is left out: a
\* batch keeps the order in which the messages were told that they are queued.
QueuedInOrder ==
    LET heard == asked \o queue IN
    \A i, j \in 1 .. Len(promised) : i <= j =>
        \E k, l \in 1 .. Len(heard) :
            heard[k] = promised[i] /\ heard[l] = promised[j] /\ (i < j => k < l)

\* Words that are queued while a message has its turn are put to the mind,
\* however many more arrive in the meantime and whatever waits for the lock.
HeldQueueIsAsked ==
    \A m \in Messages :
        m \in ToSet(queue) /\ (\E h \in Messages \ Unanswerable : Holding(h))
            ~> m \in ToSet(asked)

\* A message told that it is queued is put to the mind in the end.
QueuedIsAsked == \A m \in Messages : handler[m] = "queued" ~> m \in ToSet(asked)

=============================================================================
