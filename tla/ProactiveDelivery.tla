-------------------------- MODULE ProactiveDelivery --------------------------
(***************************************************************************)
(* Getting an answer in front of the operator: _deliver in the Telegram    *)
(* bot's handlers, the proactive queue of bots/proactive.py, the consumer  *)
(* that empties it, and the bot's shutdown, all on one event loop.         *)
(*                                                                         *)
(* A text is named; what it says is left out but for its chunks.  Chunking *)
(* what remains of a text gives the chunks that remained, so a text is the *)
(* number of its chunks not known to be sent.  The queue is ordered by due *)
(* time: an item put back with a delay comes due later, behind what is due *)
(* by then, and an item put in without one is due at once.                 *)
(***************************************************************************)
EXTENDS Naturals, FiniteSets, SequencesExt

CONSTANTS
    Answers,         \* texts a handler delivers with _deliver
    Unasked,         \* texts the idle drain puts on the queue
    Blocked,         \* the texts whose chat refuses every message
    Ambiguous,       \* the texts whose sends may arrive and still time out
    Chunks,          \* chunks of a text
    DeliverAttempts, \* _DELIVER_ATTEMPTS
    MaxAttempts,     \* _PROACTIVE_MAX_ATTEMPTS
    NoText

Texts == Answers \union Unasked

ASSUME DeliveryAssumption ==
    /\ Answers \intersect Unasked = {} /\ NoText \notin Texts
    /\ Blocked \subseteq Texts /\ Ambiguous \subseteq Texts
    /\ Chunks \in Nat \ {0} /\ DeliverAttempts \in Nat \ {0} /\ MaxAttempts \in Nat \ {0}

VARIABLES
    accepted,  \* the texts somebody wants delivered
    sending,   \* the texts a _deliver is at work on
    tries,     \* the attempts of each _deliver
    left,      \* the chunks of each text not known to be sent
    ready,     \* the queue's items that are due, in order
    delayed,   \* the queue's items that are not due yet
    attempts,  \* the consumer's attempts, carried by the item
    hand,      \* the text the consumer has taken, or NoText
    journal,   \* the texts written to the log because they were given up
    phase,     \* of the bot: "up", "stopping" or "stopped"
    landed,    \* history: the chunks each chat received, in order
    ahead      \* history: what was due already when a text was put back

bot   == <<sending, tries>>
queueVars == <<ready, delayed, attempts>>
deliveryVars == <<accepted, bot, left, queueVars, hand, journal, phase, landed, ahead>>

DeliveryTypeOK ==
    /\ accepted \subseteq Texts /\ sending \subseteq Answers
    /\ tries \in [Answers -> 0 .. DeliverAttempts]
    /\ left \in [Texts -> 0 .. Chunks]
    /\ ready \in Seq(Texts) /\ delayed \subseteq Texts
    /\ attempts \in [Texts -> 0 .. MaxAttempts]
    /\ hand \in Texts \union {NoText}
    /\ journal \subseteq Texts
    /\ phase \in {"up", "stopping", "stopped"}
    /\ landed \in [Texts -> Seq(1 .. Chunks)]
    /\ ahead \in [Texts -> SUBSET Texts]

DeliveryInit ==
    /\ accepted = {} /\ sending = {} /\ tries = [t \in Answers |-> 0]
    /\ left = [t \in Texts |-> Chunks]
    /\ ready = <<>> /\ delayed = {} /\ attempts = [t \in Texts |-> 0]
    /\ hand = NoText /\ journal = {} /\ phase = "up"
    /\ landed = [t \in Texts |-> <<>>] /\ ahead = [t \in Texts |-> {}]

-----------------------------------------------------------------------------
(* Telegram: a message is taken, refused, or taken with its answer lost.   *)

Chunk(t) == Chunks - left[t] + 1      \* the one that is sent next

Taken(t) == /\ t \notin Blocked
            /\ landed' = [landed EXCEPT ![t] = Append(@, Chunk(t))]
            /\ left' = [left EXCEPT ![t] = @ - 1]

Raises(t) == /\ UNCHANGED left
             /\ \/ UNCHANGED landed
                \/ /\ t \in Ambiguous \ Blocked
                   /\ landed' = [landed EXCEPT ![t] = Append(@, Chunk(t))]

-----------------------------------------------------------------------------
(* bots/proactive.py.                                                      *)

Enqueue(t) == ready' = Append(ready, t) /\ UNCHANGED delayed

ComesDue(t) ==
    /\ t \in delayed
    /\ delayed' = delayed \ {t}
    /\ ready' = Append(ready, t)
    /\ UNCHANGED <<accepted, bot, left, attempts, hand, journal, phase, landed, ahead>>

\* The idle drain of mind_server, which the bot's shutdown does not stop.
UnaskedArrives(t) ==
    /\ t \in Unasked \ accepted
    /\ accepted' = accepted \union {t}
    /\ Enqueue(t)
    /\ UNCHANGED <<bot, left, attempts, hand, journal, phase, landed, ahead>>

-----------------------------------------------------------------------------
(* _deliver.                                                               *)

AnswerStarts(t) ==
    /\ t \in Answers \ accepted /\ phase # "stopped"
    /\ accepted' = accepted \union {t}
    /\ sending' = sending \union {t}
    /\ UNCHANGED <<tries, left, queueVars, hand, journal, phase, landed, ahead>>

DeliverSends(t) ==
    /\ t \in sending
    /\ Taken(t)
    /\ sending' = IF left'[t] = 0 THEN sending \ {t} ELSE sending
    /\ UNCHANGED <<accepted, tries, queueVars, hand, journal, phase, ahead>>

\* Mutants: each attempt starts over, or the text is dropped after the last.
DeliverStartsOver(t) ==
    /\ t \in sending
    /\ tries' = [tries EXCEPT ![t] = @ + 1]
    /\ left' = [left EXCEPT ![t] = Chunks] /\ UNCHANGED landed
    /\ IF tries'[t] < DeliverAttempts THEN UNCHANGED <<sending, ready, delayed>>
       ELSE sending' = sending \ {t} /\ Enqueue(t)
    /\ UNCHANGED <<accepted, attempts, hand, journal, phase, ahead>>
DeliverGivesUp(t) ==
    /\ t \in sending
    /\ tries' = [tries EXCEPT ![t] = @ + 1]
    /\ Raises(t)
    /\ sending' = IF tries'[t] < DeliverAttempts THEN sending ELSE sending \ {t}
    /\ UNCHANGED <<accepted, queueVars, hand, journal, phase, ahead>>

\* What has not landed is tried again, and after the last attempt queued.
DeliverFails(t) ==
    /\ t \in sending
    /\ tries' = [tries EXCEPT ![t] = @ + 1]
    /\ Raises(t)
    /\ IF tries'[t] < DeliverAttempts
       THEN UNCHANGED <<sending, ready, delayed>>
       ELSE sending' = sending \ {t} /\ Enqueue(t)
    /\ UNCHANGED <<accepted, attempts, hand, journal, phase, ahead>>

-----------------------------------------------------------------------------
(* _proactive_consumer.                                                    *)

ConsumerTakes ==
    /\ phase = "up" /\ hand = NoText /\ ready # <<>>
    /\ hand' = Head(ready)
    /\ ready' = Tail(ready)
    /\ ahead' = [t \in Texts |-> ahead[t] \ {hand'}]
    /\ UNCHANGED <<accepted, bot, left, delayed, attempts, journal, phase, landed>>

ConsumerSends ==
    /\ hand # NoText
    /\ Taken(hand)
    /\ hand' = IF left'[hand] = 0 THEN NoText ELSE hand
    /\ UNCHANGED <<accepted, bot, queueVars, journal, phase, ahead>>

\* Mutants: a text that failed goes first, or is tried in place for ever.
ConsumerPutsFirst ==
    /\ hand # NoText
    /\ Raises(hand)
    /\ attempts' = [attempts EXCEPT ![hand] = @ + 1]
    /\ hand' = NoText
    /\ IF attempts'[hand] >= MaxAttempts
       THEN journal' = journal \union {hand} /\ UNCHANGED <<ready, delayed, ahead>>
       ELSE /\ ready' = <<hand>> \o ready
            /\ ahead' = [ahead EXCEPT ![hand] = ToSet(ready)]
            /\ UNCHANGED <<journal, delayed>>
    /\ UNCHANGED <<accepted, bot, phase>>
ConsumerRetriesInPlace ==
    /\ hand # NoText
    /\ Raises(hand)
    /\ UNCHANGED <<accepted, bot, queueVars, hand, journal, phase, ahead>>
ConsumerFails ==
    /\ hand # NoText
    /\ Raises(hand)
    /\ attempts' = [attempts EXCEPT ![hand] = @ + 1]
    /\ hand' = NoText
    /\ IF attempts'[hand] >= MaxAttempts
       THEN journal' = journal \union {hand} /\ UNCHANGED <<delayed, ahead>>
       ELSE /\ delayed' = delayed \union {hand}
            /\ ahead' = [ahead EXCEPT ![hand] = ToSet(ready)]
            /\ UNCHANGED journal
    /\ UNCHANGED <<accepted, bot, ready, phase>>

-----------------------------------------------------------------------------
(* run_telegram_bot's finally block, and _on_shutdown.                     *)

StopConsumer ==
    /\ phase = "up"
    /\ phase' = "stopping"
    /\ hand' = NoText
    /\ IF hand = NoText THEN UNCHANGED <<ready, delayed>> ELSE Enqueue(hand)
    /\ UNCHANGED <<accepted, bot, left, attempts, journal, landed, ahead>>

\* Mutant: only what is due is written down.
ShutdownWritesDue ==
    /\ phase = "stopping" /\ sending = {}
    /\ phase' = "stopped"
    /\ journal' = journal \union ToSet(ready)
    /\ ready' = <<>>
    /\ UNCHANGED <<accepted, bot, left, delayed, attempts, hand, landed, ahead>>

\* The handlers are waited for, and what is queued is written to the log.
Shutdown ==
    /\ phase = "stopping" /\ sending = {}
    /\ phase' = "stopped"
    /\ journal' = journal \union ToSet(ready) \union delayed
    /\ ready' = <<>> /\ delayed' = {}
    /\ UNCHANGED <<accepted, bot, left, attempts, hand, landed, ahead>>

-----------------------------------------------------------------------------
Deliver(t) == DeliverSends(t) \/ DeliverFails(t)
Consumer   == ConsumerTakes \/ ConsumerSends \/ ConsumerFails

DeliveryNext == \/ \E t \in Texts : \/ AnswerStarts(t) \/ UnaskedArrives(t)
                            \/ Deliver(t) \/ ComesDue(t)
        \/ Consumer \/ StopConsumer \/ Shutdown

DeliverySpec == DeliveryInit /\ [][DeliveryNext]_deliveryVars

\* The loop runs what is ready, and time passes.  No send is obliged to work.
DeliveryFairness == /\ \A t \in Texts : WF_deliveryVars(Deliver(t)) /\ WF_deliveryVars(ComesDue(t))
            /\ WF_deliveryVars(Consumer) /\ WF_deliveryVars(Shutdown)

DeliveryFairSpec == DeliverySpec /\ DeliveryFairness

-----------------------------------------------------------------------------
Places == {"sending", "ready", "delayed", "hand", "journal"}

In(t, p) == \/ p = "sending" /\ t \in sending
            \/ p = "ready" /\ t \in ToSet(ready)
            \/ p = "delayed" /\ t \in delayed
            \/ p = "hand" /\ hand = t
            \/ p = "journal" /\ t \in journal

\* A text is never silently lost, nor held by two who would both send it:
\* until all of it has landed it is in exactly one place, through retries,
\* handover to the queue, cancellation and shutdown (telegram_bot.py 204-222).
NothingLost ==
    /\ \A t \in accepted :
           IF left[t] = 0 THEN \A p \in Places : ~In(t, p)
           ELSE \E p \in Places : \A q \in Places : In(t, q) <=> q = p
    /\ IsInjective(ready)

\* What already landed is not sent again, and nothing is skipped: the chat
\* gets the chunks in order, once each (telegram_bot.py 226-232, 1701-1714).
LandedOnce == \A t \in Texts : landed[t] = [n \in 1 .. Chunks - left[t] |-> n]

\* A text that could not be delivered does not hold up the others: it is not
\* tried again before every text that was due when it failed (proactive.py 11-18).
RetryWaitsItsTurn == hand # NoText => ahead[hand] = {}

\* A bot that shuts down has delivered everything it was given until then, or
\* writes it to the log (telegram_bot.py 1556-1568).
ShutdownLosesNothing ==
    [][phase # "stopped" /\ phase' = "stopped" =>
           \A t \in accepted' : left'[t] = 0 \/ t \in journal']_deliveryVars

\* And so has one that is shut down: it owes nothing any more.
StoppedOwesNothing ==
    phase = "stopped" => \A t \in accepted : left[t] = 0 \/ t \in journal

\* Every text is delivered or given up in the end, whichever chats are blocked.
Settles == \A t \in Texts : t \in accepted ~> left[t] = 0 \/ t \in journal \/ phase = "stopped"

=============================================================================
