----------------------------- MODULE StreamTurn -----------------------------
(***************************************************************************)
(* One session of mind_server.py over one harness process: the handlers of *)
(* POST message, POST interrupt and the teardown of the process, the       *)
(* generator that streams a turn, and the idle drain.                      *)
(*                                                                         *)
(* All of them are coroutines of one event loop: an action here is what    *)
(* the code does between two awaits.  They share the session's dict        *)
(* (in_flight, cancel_event, stdout_lock) and one StreamReader, the        *)
(* process's stdout.  A StreamReader admits one waiting readline: a second *)
(* coroutine that has to wait gets a RuntimeError.  The lock's FIFO order  *)
(* is abstracted: any waiter may be granted a free lock.  Time is          *)
(* abstracted: a readline that waits may time out at any moment.           *)
(***************************************************************************)
EXTENDS Naturals, Sequences

CONSTANTS
    Turns,         \* POST message requests
    Impatient,     \* the turns whose client may hang up on the stream
    Interrupts,    \* POST interrupt requests
    Background,    \* turns the harness starts unasked (a background task ends)
    ChatTakesPush, \* the session's client_ref is a Telegram chat id
    Drain,         \* the idle drain, as a reader of stdout
    None

Sources == Turns \union Background
Readers == Turns \union Interrupts \union {Drain}

ASSUME StreamAssumption ==
    /\ Impatient \subseteq Turns
    /\ ChatTakesPush \in BOOLEAN
    /\ Turns \intersect Interrupts = {}
    /\ Turns \intersect Background = {}
    /\ Drain \notin Turns \union Interrupts
    /\ None \notin Readers \union Sources

Line    == [from : Sources, kind : {"text", "result"}]
Results == {l \in Line : l.kind = "result"}

VARIABLES
    \* the session's dict
    registered,  \* it is in _sessions
    inFlight,    \* session["in_flight"]
    cancel,      \* session["cancel_event"].is_set()
    locked,      \* session["stdout_lock"].locked()
    \* where each coroutine is
    turn,        \* of the generator of each turn
    drain,       \* of _idle_drain
    intr,        \* of each interrupt
    \* the pipes to the harness
    waiter,      \* the reader registered in the StreamReader, or None
    stdin,       \* messages written and not yet taken
    stdout,      \* lines written and not yet read
    \* the harness process
    proc,        \* "up", "dying" (terminated) or "gone"
    working,     \* the turn it is on, or None
    said,        \* it has written this turn's text
    sigint,      \* it has been told to stop this turn
    woken,       \* background turns it has started
    \* where each line of text went
    heard,       \* lines streamed to each turn's client, in order
    pushed,      \* texts handed to the proactive queue
    discarded    \* texts read and thrown away

session == <<registered, inFlight, cancel, locked>>
pipes   == <<waiter, stdin, stdout>>
harness == <<proc, working, said, sigint, woken>>
outcome == <<heard, pushed, discarded>>
vars    == <<session, turn, drain, intr, pipes, harness, outcome>>

TurnState  == {"new", "acquire", "flush", "send", "read", "yield", "ended", "refused"}
DrainState == {"top", "acquire", "hold", "read", "crashed", "ended"}
IntrState  == {"new", "wait", "drain", "ended"}

Live(t)     == turn[t] \in {"acquire", "flush", "send", "read", "yield"}
Holding(t)  == turn[t] \in {"flush", "send", "read", "yield"}
DrainHolds  == drain \in {"hold", "read"}

TypeOK ==
    /\ registered \in BOOLEAN /\ inFlight \in BOOLEAN
    /\ cancel \in BOOLEAN /\ locked \in BOOLEAN
    /\ turn \in [Turns -> TurnState]
    /\ drain \in DrainState
    /\ intr \in [Interrupts -> IntrState]
    /\ waiter \in Readers \union {None}
    /\ stdin \in Seq(Turns)
    /\ stdout \in Seq(Line)
    /\ proc \in {"up", "dying", "gone"}
    /\ working \in Sources \union {None}
    /\ said \in BOOLEAN /\ sigint \in BOOLEAN
    /\ woken \in SUBSET Background
    /\ heard \in [Turns -> Seq(Line)]
    /\ pushed \in SUBSET Line
    /\ discarded \in SUBSET Line

Init ==
    /\ registered = TRUE /\ inFlight = FALSE /\ cancel = FALSE /\ locked = FALSE
    /\ turn = [t \in Turns |-> "new"]
    /\ drain = "top"
    /\ intr = [i \in Interrupts |-> "new"]
    /\ waiter = None /\ stdin = <<>> /\ stdout = <<>>
    /\ proc = "up" /\ working = None /\ said = FALSE /\ sigint = FALSE
    /\ woken = {}
    /\ heard = [t \in Turns |-> <<>>] /\ pushed = {} /\ discarded = {}

-----------------------------------------------------------------------------
(* The StreamReader: the four ways a readline with a timeout can go.       *)

LineReady == stdout # <<>>
AtEof     == stdout = <<>> /\ proc = "gone"
TimesOut(r) == waiter = r
Clash(r)  == stdout = <<>> /\ proc # "gone" /\ waiter \notin {None, r}

\* A readline that finds no line registers its future and waits.
Reading(r) == \/ r \in Turns /\ turn[r] \in {"flush", "read"}
              \/ r \in Interrupts /\ intr[r] = "drain"
              \/ r = Drain /\ drain = "read"

BlockInRead(r) ==
    /\ Reading(r)
    /\ stdout = <<>> /\ proc # "gone" /\ waiter = None
    /\ waiter' = r
    /\ UNCHANGED <<session, turn, drain, intr, stdin, stdout, harness, outcome>>

\* A coroutine that stops waiting takes its future with it.
Unwait(r) == waiter' = IF waiter = r THEN None ELSE waiter

\* Mutant: the text is dropped when there is a chat to push it to.
RouteNowhere(line) == UNCHANGED <<pushed, discarded>>

\* A line nobody asked for: its text is pushed to the chat, if there is one.
RoutePush(line) ==
    IF line.kind # "text" THEN UNCHANGED <<pushed, discarded>>
    ELSE IF ChatTakesPush
         THEN pushed' = pushed \union {line} /\ UNCHANGED discarded
         ELSE discarded' = discarded \union {line} /\ UNCHANGED pushed

-----------------------------------------------------------------------------
(* POST message and the generator that streams the turn.                   *)

SendRefused(t) ==       \* 404 for an unknown session, 409 for a busy one
    /\ turn[t] = "new"
    /\ ~registered \/ inFlight
    /\ turn' = [turn EXCEPT ![t] = "refused"]
    /\ UNCHANGED <<session, drain, intr, pipes, harness, outcome>>

\* Mutant: the turn-bleed guard is dropped.
SendUnguarded(t) ==
    /\ turn[t] = "new" /\ registered /\ proc # "gone"
    /\ inFlight' = TRUE
    /\ turn' = [turn EXCEPT ![t] = "acquire"]
    /\ UNCHANGED <<registered, cancel, locked, drain, intr, pipes, harness, outcome>>

SendAccepted(t) ==
    /\ turn[t] = "new"
    /\ registered /\ ~inFlight /\ proc # "gone"
    /\ inFlight' = TRUE
    /\ turn' = [turn EXCEPT ![t] = "acquire"]
    /\ UNCHANGED <<registered, cancel, locked, drain, intr, pipes, harness, outcome>>

\* task.cancel() on the idle drain, which leaves its `async with` on the way.
CancelDrain ==
    IF drain \in {"crashed", "ended"}
    THEN UNCHANGED <<drain, locked, waiter>>
    ELSE /\ drain' = "ended"
         /\ locked' = (locked /\ ~DrainHolds)
         /\ Unwait(Drain)

SendToDeadProc(t) ==    \* _dead_proc_response: 404, and the session is gone
    /\ turn[t] = "new"
    /\ registered /\ ~inFlight /\ proc = "gone"
    /\ registered' = FALSE
    /\ turn' = [turn EXCEPT ![t] = "refused"]
    /\ CancelDrain
    /\ UNCHANGED <<inFlight, cancel, intr, stdin, stdout, harness, outcome>>

\* Mutant: the finally block forgets in_flight.
FinishStillBusy(t) ==
    turn' = [turn EXCEPT ![t] = "ended"] /\ locked' = FALSE
    /\ UNCHANGED <<registered, cancel, inFlight>>

\* The generator's finally block.  It releases the lock if it is locked,
\* whoever holds it, and clears in_flight, whoever set it.
FinishTurn(t) ==
    /\ turn' = [turn EXCEPT ![t] = "ended"]
    /\ locked' = FALSE
    /\ inFlight' = FALSE
    /\ UNCHANGED <<registered, cancel>>

\* The head of the read loop: `while not cancel_event.is_set()`.
LoopOrFinish(t) ==
    IF cancel THEN FinishTurn(t)
    ELSE turn' = [turn EXCEPT ![t] = "read"] /\ UNCHANGED session

AcquireLock(t) ==
    /\ turn[t] = "acquire" /\ ~locked
    /\ locked' = TRUE
    /\ turn' = [turn EXCEPT ![t] = "flush"]
    /\ UNCHANGED <<registered, inFlight, cancel, drain, intr, pipes, harness, outcome>>

FlushLine(t) ==
    /\ turn[t] = "flush" /\ LineReady
    /\ RoutePush(Head(stdout))
    /\ stdout' = Tail(stdout)
    /\ UNCHANGED <<session, turn, drain, intr, waiter, stdin, harness, heard>>

FlushDoneAndWrite(t) ==
    /\ turn[t] = "flush" /\ (TimesOut(t) \/ AtEof)
    /\ Unwait(t)
    /\ stdin' = IF proc = "gone" THEN stdin ELSE Append(stdin, t)
    /\ turn' = [turn EXCEPT ![t] = "send"]
    /\ UNCHANGED <<session, drain, intr, stdout, harness, outcome>>

Sent(t) ==              \* `await stdin.drain()` is over
    /\ turn[t] = "send"
    /\ LoopOrFinish(t)
    /\ UNCHANGED <<drain, intr, pipes, harness, outcome>>

StreamLine(t) ==        \* readline returns, and the line is yielded
    /\ turn[t] = "read" /\ LineReady
    /\ heard' = [heard EXCEPT ![t] = Append(@, Head(stdout))]
    /\ stdout' = Tail(stdout)
    /\ turn' = [turn EXCEPT ![t] = "yield"]
    /\ UNCHANGED <<session, drain, intr, waiter, stdin, harness, pushed, discarded>>

\* A mutant: any line ends the turn.
ResumeEndsOnText(t) ==
    /\ turn[t] = "yield" /\ FinishTurn(t)
    /\ UNCHANGED <<drain, intr, pipes, harness, outcome>>
ResumeAfterYield(t) ==  \* a result ends the turn
    /\ turn[t] = "yield"
    /\ IF heard[t][Len(heard[t])] \in Results THEN FinishTurn(t) ELSE LoopOrFinish(t)
    /\ UNCHANGED <<drain, intr, pipes, harness, outcome>>

\* The turn ends without a result: cancelled (seen at the next timeout),
\* the process exited, or its readline raised.
StopReading(t) ==
    /\ \/ turn[t] = "read" /\ (AtEof \/ (TimesOut(t) /\ cancel))
       \/ turn[t] \in {"flush", "read"} /\ Clash(t)
    /\ Unwait(t)
    /\ FinishTurn(t)
    /\ UNCHANGED <<drain, intr, stdin, stdout, harness, outcome>>

Hangup(t) ==            \* the client disconnects: the generator is cancelled
    /\ t \in Impatient /\ Live(t)
    /\ Unwait(t)
    /\ FinishTurn(t)
    /\ UNCHANGED <<drain, intr, stdin, stdout, harness, outcome>>

-----------------------------------------------------------------------------
(* _idle_drain.                                                            *)

\* Leaving `async with lock`: releasing a lock that is not locked raises.
LeaveLock(next) ==
    /\ locked' = FALSE
    /\ drain' = IF locked THEN next ELSE "crashed"
    /\ UNCHANGED <<registered, inFlight, cancel>>

\* Mutant: the drain reads as soon as nothing is in flight, lock or no lock.
DrainBargesIn ==
    /\ drain = "top" /\ ~inFlight
    /\ drain' = "read"
    /\ UNCHANGED <<session, turn, intr, pipes, harness, outcome>>

DrainEnter ==           \* backs off, without the lock, while a turn is in flight
    /\ drain = "top" /\ ~inFlight
    /\ IF locked THEN drain' = "acquire" /\ UNCHANGED locked
                 ELSE drain' = "read" /\ locked' = TRUE
    /\ UNCHANGED <<registered, inFlight, cancel, turn, intr, pipes, harness, outcome>>

DrainGranted ==         \* and looks at in_flight again once it has the lock
    /\ drain = "acquire" /\ ~locked
    /\ locked' = TRUE
    /\ drain' = IF inFlight THEN "hold" ELSE "read"
    /\ UNCHANGED <<registered, inFlight, cancel, turn, intr, pipes, harness, outcome>>

DrainBacksOff ==
    /\ drain = "hold"
    /\ LeaveLock("top")
    /\ UNCHANGED <<turn, intr, pipes, harness, outcome>>

DrainLine ==
    /\ drain = "read" /\ LineReady
    /\ RoutePush(Head(stdout))
    /\ stdout' = Tail(stdout)
    /\ LeaveLock("top")
    /\ UNCHANGED <<turn, intr, waiter, stdin, harness, heard>>

DrainQuiet ==
    /\ drain = "read" /\ TimesOut(Drain)
    /\ Unwait(Drain)
    /\ LeaveLock("top")
    /\ UNCHANGED <<turn, intr, stdin, stdout, harness, outcome>>

DrainEof ==
    /\ drain = "read" /\ AtEof
    /\ LeaveLock("ended")
    /\ UNCHANGED <<turn, intr, pipes, harness, outcome>>

DrainClash ==           \* nothing catches the RuntimeError: the task is over
    /\ drain = "read" /\ Clash(Drain)
    /\ LeaveLock("crashed")
    /\ UNCHANGED <<turn, intr, pipes, harness, outcome>>

-----------------------------------------------------------------------------
(* POST interrupt.                                                         *)

InterruptNoop(i) ==     \* 404, or nothing is running
    /\ intr[i] = "new"
    /\ ~registered \/ ~inFlight
    /\ intr' = [intr EXCEPT ![i] = "ended"]
    /\ UNCHANGED <<session, turn, drain, pipes, harness, outcome>>

InterruptSignals(i) ==
    /\ intr[i] = "new"
    /\ registered /\ inFlight
    /\ cancel' = TRUE
    /\ sigint' = (sigint \/ (proc # "gone" /\ working # None))
    /\ intr' = [intr EXCEPT ![i] = "wait"]
    /\ UNCHANGED <<registered, inFlight, locked, turn, drain, pipes,
                   proc, working, said, woken, outcome>>

\* The wait is over when a poll sees in_flight clear, or after 3 seconds.  Only
\* a generator held up by its client, by the process's stdin or by a flush that
\* keeps finding lines outlasts those.
WaitOver ==
    \/ ~inFlight
    \/ \E t \in Turns : turn[t] \in {"send", "yield"} \/ (turn[t] = "flush" /\ LineReady)

InterruptStopsWaiting(i) ==
    /\ intr[i] = "wait" /\ WaitOver
    /\ inFlight' = FALSE
    /\ IF proc # "gone"
       THEN intr' = [intr EXCEPT ![i] = "drain"] /\ UNCHANGED cancel
       ELSE intr' = [intr EXCEPT ![i] = "ended"] /\ cancel' = FALSE
    /\ UNCHANGED <<registered, locked, turn, drain, pipes, harness, outcome>>

InterruptLine(i) ==     \* read without the lock, and thrown away
    /\ intr[i] = "drain" /\ LineReady
    /\ discarded' = IF Head(stdout).kind = "text"
                    THEN discarded \union {Head(stdout)} ELSE discarded
    /\ stdout' = Tail(stdout)
    /\ UNCHANGED <<session, turn, drain, intr, waiter, stdin, harness, heard, pushed>>

InterruptDone(i) ==
    /\ intr[i] = "drain" /\ (TimesOut(i) \/ AtEof \/ Clash(i))
    /\ Unwait(i)
    /\ cancel' = FALSE
    /\ intr' = [intr EXCEPT ![i] = "ended"]
    /\ UNCHANGED <<registered, inFlight, locked, turn, drain, stdin, stdout, harness, outcome>>

-----------------------------------------------------------------------------
(* _teardown_stream_process: kill, release surface=stream.                 *)

Teardown ==
    /\ registered
    /\ registered' = FALSE
    /\ CancelDrain
    /\ proc' = IF proc = "up" THEN "dying" ELSE proc
    /\ UNCHANGED <<inFlight, cancel, turn, intr, stdin, stdout,
                   working, said, sigint, woken, outcome>>

-----------------------------------------------------------------------------
(* The harness process (the claude CLI, not in the repository).  It works  *)
(* on one turn at a time, in the order asked, starts turns of its own when *)
(* a background task ends, and may exit at any time.                       *)

HarnessTakes ==
    /\ proc # "gone" /\ working = None /\ stdin # <<>>
    /\ working' = Head(stdin)
    /\ stdin' = Tail(stdin)
    /\ UNCHANGED <<session, turn, drain, intr, waiter, stdout, proc, said, sigint, woken, outcome>>

HarnessWakes(b) ==
    /\ proc # "gone" /\ working = None /\ b \notin woken
    /\ working' = b
    /\ woken' = woken \union {b}
    /\ UNCHANGED <<session, turn, drain, intr, pipes, proc, said, sigint, outcome>>

\* A line on the pipe wakes the readline that waits for one.
Emit(kind) == /\ stdout' = Append(stdout, [from |-> working, kind |-> kind])
              /\ waiter' = None

HarnessSays ==
    /\ proc # "gone" /\ working # None /\ ~said /\ ~sigint
    /\ Emit("text")
    /\ said' = TRUE
    /\ UNCHANGED <<session, turn, drain, intr, stdin, proc, working, sigint, woken, outcome>>

HarnessFinishes ==
    /\ proc # "gone" /\ working # None /\ (said \/ sigint)
    /\ Emit("result")
    /\ working' = None /\ said' = FALSE /\ sigint' = FALSE
    /\ UNCHANGED <<session, turn, drain, intr, stdin, proc, woken, outcome>>

HarnessExits ==
    /\ proc # "gone"
    /\ proc' = "gone"
    /\ working' = None /\ said' = FALSE /\ sigint' = FALSE
    /\ waiter' = None
    /\ UNCHANGED <<session, turn, drain, intr, stdin, stdout, woken, outcome>>

-----------------------------------------------------------------------------
Generator(t) ==
    \/ AcquireLock(t) \/ FlushLine(t) \/ FlushDoneAndWrite(t) \/ Sent(t)
    \/ StreamLine(t) \/ ResumeAfterYield(t) \/ StopReading(t)

IdleDrain == DrainEnter \/ DrainGranted \/ DrainBacksOff \/ DrainLine
             \/ DrainQuiet \/ DrainEof \/ DrainClash

Interrupting(i) == InterruptStopsWaiting(i) \/ InterruptLine(i) \/ InterruptDone(i)

Harness == HarnessTakes \/ HarnessSays \/ HarnessFinishes

Next ==
    \/ \E t \in Turns : \/ SendRefused(t) \/ SendAccepted(t) \/ SendToDeadProc(t)
                        \/ Generator(t) \/ Hangup(t)
    \/ \E r \in Readers : BlockInRead(r)
    \/ IdleDrain
    \/ \E i \in Interrupts : InterruptNoop(i) \/ InterruptSignals(i) \/ Interrupting(i)
    \/ Teardown
    \/ Harness \/ HarnessExits
    \/ \E b \in Background : HarnessWakes(b)

Spec == Init /\ [][Next]_vars

\* asyncio resumes every ready coroutine and grants the lock in turn, a
\* terminated process is waited for and then killed, and the harness is taken
\* to answer what it is asked.  Nothing obliges a client, an interrupt, a
\* background task or a crash to happen.
Fairness ==
    /\ \A t \in Turns : /\ WF_vars(Generator(t) \/ BlockInRead(t))
                        /\ SF_vars(AcquireLock(t))
    /\ WF_vars(IdleDrain \/ BlockInRead(Drain))
    /\ \A i \in Interrupts : WF_vars(Interrupting(i) \/ BlockInRead(i))
    /\ WF_vars(Harness)
    /\ WF_vars(proc = "dying" /\ HarnessExits)

FairSpec == Spec /\ Fairness

-----------------------------------------------------------------------------
(* Safety.                                                                 *)

\* A session that reports itself busy has a generator that will report it
\* free again: no path leaves in_flight set with nobody to clear it, which
\* would answer every later message with 409 (lines 1864, 2008, 2057).
BusyHasTurn == inFlight => \E t \in Turns : Live(t)

\* A locked stdout_lock has a reader inside that will release it, whatever
\* releases the finally block of another turn made in between (line 2004).
LockHasHolder == locked => DrainHolds \/ \E t \in Turns : Holding(t)

\* cancel_event is set only while an interrupt is at work: it never survives
\* one to stop a turn nobody interrupted (lines 2040, 2074).
CancelHasInterrupt == cancel => \E i \in Interrupts : intr[i] \in {"wait", "drain"}

\* stdout_lock serialises the reader of the live request and the idle drain:
\* at most one of them is inside (line 1807).
OneReaderInside ==
    /\ \A t, u \in Turns : Holding(t) /\ Holding(u) => t = u
    /\ \A t \in Turns : Holding(t) => ~DrainHolds

\* A conversation has one turn at a time: the 409 guard lets no second
\* generator start before the first has finished (lines 1858-1869).
OneTurnAtATime == \A t, u \in Turns : Live(t) /\ Live(u) => t = u

\* Until the harness starts a turn of its own, no client is streamed a line
\* of another client's turn (lines 1858-1863).
NoTurnBleed == woken = {} => \A t \in Turns : \A n \in DOMAIN heard[t] :
                  heard[t][n].from \in Turns => heard[t][n].from = t

\* A request closed by a result was closed by its own: not by one already in
\* the pipe, whose real answer would go to the next request (lines 1958-1962).
OwnResultEndsTurn == \A t \in Turns : \A n \in DOMAIN heard[t] :
                        heard[t][n] \in Results => heard[t][n].from = t

\* Until the harness starts a turn of its own, a turn that is over while the
\* process still runs was streamed its whole answer, in order and once: the
\* text and then the result of that turn.
AnswerComplete ==
    woken = {} => \A t \in Turns : turn[t] = "ended" /\ proc # "gone" =>
        heard[t] = <<[from |-> t, kind |-> "text"], [from |-> t, kind |-> "result"]>>

\* A result is the last line of its turn: nothing is streamed after it, on a
\* stream that goes no further than handing it over (lines 1976-1985).
ResultIsLast ==
    \A t \in Turns : \A n \in DOMAIN heard[t] :
        heard[t][n] \in Results => n = Len(heard[t]) /\ turn[t] \in {"yield", "ended"}

\* Only a coroutine inside readline is registered with the StreamReader, and
\* only while it has to wait: one that was cancelled, timed out or was woken
\* leaves nothing behind for the next reader to trip over.
WaiterIsReading ==
    waiter # None => Reading(waiter) /\ stdout = <<>> /\ proc # "gone"

\* Whatever hangs up, interrupts, dies or is torn down in between, nothing a
\* coroutine sets is left set without one that will clear it: not in_flight, not
\* the lock, not cancel_event, not a future in the StreamReader.
NothingLeftSet == BusyHasTurn /\ LockHasHolder /\ CancelHasInterrupt /\ WaiterIsReading

\* The idle drain runs for the lifetime of its session (line 1576): it ends
\* by being cancelled or at the end of its pipe, never by an exception.
DrainSurvives == drain # "crashed"

\* Both readers of stdout live with each other: never inside together, and the
\* drain outlives every turn.
StdoutIsShared == OneReaderInside /\ DrainSurvives

\* Every turn starts clean: none is accepted under the cancel_event of an
\* interrupt of an earlier one (line 2072).
TurnsStartClean ==
    [][\A t \in Turns : turn[t] = "new" /\ turn'[t] = "acquire" => ~cancel]_vars

-----------------------------------------------------------------------------
(* Liveness.                                                               *)

\* Every accepted turn ends, whatever the idle drain and the harness's own
\* turns do in the meantime.
TurnsEnd == \A t \in Turns : turn[t] = "acquire" ~> turn[t] = "ended"

Waiting(line) == \E n \in DOMAIN stdout : stdout[n] = line
Told(line)    == line \in pushed \/ \E t \in Turns : \E n \in DOMAIN heard[t] : heard[t][n] = line

\* What the harness says unasked reaches the user, pushed to the chat or on
\* the stream of a turn, unless the session is ended first (lines 1574-1580).
UnaskedTextArrives ==
    \A b \in Background : LET line == [from |-> b, kind |-> "text"]
                          IN Waiting(line) ~> Told(line) \/ ~registered

\* Nobody waits for ever: not the client for its turn's end, nor the user for
\* what the harness says unasked.
TurnsAndTextArrive == TurnsEnd /\ UnaskedTextArrives

-----------------------------------------------------------------------------
(* The promise of POST message (module TurnService).                       *)

Phase(t) == IF Live(t) THEN "open"
            ELSE IF turn[t] = "ended" THEN "closed" ELSE turn[t]

Service == INSTANCE TurnService WITH
    Lines <- Line, phase <- [t \in Turns |-> Phase(t)], said <- heard, open <- registered

\* Without interrupts, the handlers keep that promise through every hangup,
\* crash, teardown and turn of the harness's own.
ServiceSpec == Service!Spec

=============================================================================
