---------------------------- MODULE CodexThreads ----------------------------
(***************************************************************************)
(* One session of a mind on the codex harness (mind_templates/codex_cli.py *)
(* under mind_server.py).  A message is a `codex exec` process of its own; *)
(* what makes the messages one conversation is the thread each resumes.    *)
(* Codex mints its threads itself, so the session's is recorded as it      *)
(* turns up, in four places: the state of the spawn that runs the turns    *)
(* (state["thread_id"]), the map THREADS with its file, the gateway's row  *)
(* (harness_sid) and the terminal that happens to be on it.                *)
(*                                                                         *)
(* An action is what a coroutine does between two awaits.  The gateway     *)
(* runs one surface of a session at a time: it spawns with no terminal     *)
(* open and opens a terminal with none spawned.  What it is told of the    *)
(* threads may be late, lost or overtaken, so the harness_sid it sends is  *)
(* any thread there has been, or none.  Abstracted: texts, providers,      *)
(* seeds; the file of THREADS is its map (both change under one lock, the  *)
(* file by a rename); a SIGKILL is obeyed at once.  The terminal is coarse:*)
(* while there has been one, any thread it finds may end up in the map.    *)
(***************************************************************************)
EXTENDS Naturals, Sequences

CONSTANTS
    Messages,   \* POST message requests
    Garbled,    \* those in whose turn codex prints a line send() cannot read
    MaxSpawns,  \* bounds the POST /sessions requests
    MaxThreads, \* bounds the threads codex mints
    None

Spawns  == 1 .. MaxSpawns   \* the state dicts of the requests, in their order
Threads == 1 .. MaxThreads  \* in the order they are minted

ASSUME CodexAssumption ==
    /\ Garbled \subseteq Messages
    /\ MaxSpawns \in Nat /\ MaxThreads \in Nat
    /\ None \notin Messages \union Nat

VARIABLES
    \* mind_server's and the implementation's _sessions[session_id]
    current,     \* the spawn whose state is registered, or None
    made,        \* how many were spawned so far
    inFlight,    \* the spawns whose session has in_flight set
    thread,      \* state["thread_id"] of each spawn
    proc,        \* state["proc"] of each spawn: the message it is for
    threads,     \* THREADS[session_id]
    \* send()
    turn,        \* where the generator of each message is
    of,          \* the spawn whose state it holds
    resumes,     \* the thread on its command line, or None
    escaped,     \* messages whose session was killed while they were spawned
    \* codex exec
    codex,       \* each process: "none", "up", "working", "done" or "gone"
    out,         \* its events written and not yet read
    on,          \* the thread it works on
    unanswered,  \* messages their thread holds without an answer
    \* CODEX_HOME
    minted,      \* how many threads were ever minted
    rollouts,    \* threads with a rollout file
    \* the terminal
    pane,        \* the tmux session is there
    watched      \* a terminal has been started since the service was

session  == <<current, made, inFlight, thread, proc>>
generator == <<turn, of, resumes, escaped>>
exec     == <<codex, out, on, unanswered>>
disk     == <<minted, rollouts>>
terminal == <<pane, watched>>
vars     == <<session, threads, generator, exec, disk, terminal>>

Event == {"started", "completed", "failed", "garbled"}
Alive(m) == codex[m] \in {"up", "working", "done"}

TypeOK ==
    /\ current \in Spawns \union {None} /\ made \in 0 .. MaxSpawns
    /\ inFlight \subseteq Spawns
    /\ thread \in [Spawns -> Threads \union {None}]
    /\ proc \in [Spawns -> Messages \union {None}]
    /\ threads \in Threads \union {None}
    /\ turn \in [Messages -> {"new", "spawning", "writing", "reading", "exiting", "ended"}]
    /\ of \in [Messages -> Spawns \union {None}]
    /\ resumes \in [Messages -> Threads \union {None}]
    /\ escaped \subseteq Messages
    /\ codex \in [Messages -> {"none", "up", "working", "done", "gone"}]
    /\ out \in [Messages -> Seq(Event)]
    /\ on \in [Messages -> Threads \union {None}]
    /\ unanswered \subseteq Messages
    /\ minted \in 0 .. MaxThreads /\ rollouts \subseteq 1 .. minted
    /\ pane \in BOOLEAN /\ watched \in BOOLEAN

Init ==
    /\ current = None /\ made = 0 /\ inFlight = {}
    /\ thread = [s \in Spawns |-> None] /\ proc = [s \in Spawns |-> None]
    /\ threads = None
    /\ turn = [m \in Messages |-> "new"] /\ of = [m \in Messages |-> None]
    /\ resumes = [m \in Messages |-> None] /\ escaped = {}
    /\ codex = [m \in Messages |-> "none"] /\ out = [m \in Messages |-> <<>>]
    /\ on = [m \in Messages |-> None] /\ unanswered = {}
    /\ minted = 0 /\ rollouts = {}
    /\ pane = FALSE /\ watched = FALSE

-----------------------------------------------------------------------------
(* POST /sessions, its end by DELETE or release, and a restart.            *)

\* The threads a request may come with, and the one it is for: harness_sid
\* wins over THREADS, and is remembered in it.
Reported == (1 .. minted) \union {None}
Known(harness_sid) == IF harness_sid # None THEN harness_sid ELSE threads

Create(harness_sid) ==
    /\ current = None /\ made < MaxSpawns /\ ~pane
    /\ made' = made + 1
    /\ current' = made + 1
    /\ threads' = Known(harness_sid)
    /\ thread' = [thread EXCEPT ![made + 1] = Known(harness_sid)]
    /\ UNCHANGED <<inFlight, proc, generator, exec, disk, terminal>>

\* impl.kill: the process is the one send() has put in the state by then.
Kill ==
    /\ current # None
    /\ current' = None
    /\ threads' = None
    /\ codex' = [m \in Messages |-> IF m = proc[current] THEN "gone" ELSE codex[m]]
    /\ escaped' = escaped \union {m \in Messages : turn[m] = "spawning" /\ of[m] = current}
    /\ UNCHANGED <<made, inFlight, thread, proc, turn, of, resumes, out, on, unanswered,
                   disk, terminal>>

\* The service is restarted, and every process of it ended: THREADS comes
\* back from its file, the rollouts unless CODEX_HOME is on a new volume.
Restart ==
    /\ current' = None /\ inFlight' = {}
    /\ thread' = [s \in Spawns |-> None] /\ proc' = [s \in Spawns |-> None]
    /\ turn' = [m \in Messages |-> IF turn[m] = "new" THEN "new" ELSE "ended"]
    /\ codex' = [m \in Messages |-> IF codex[m] = "none" THEN "none" ELSE "gone"]
    /\ out' = [m \in Messages |-> <<>>]
    /\ pane' = FALSE /\ watched' = FALSE
    /\ rollouts' \in {rollouts, {}}
    /\ resumes' = [m \in Messages |-> None]
    /\ UNCHANGED <<made, threads, of, escaped, on, unanswered, minted>>

-----------------------------------------------------------------------------
(* POST message, and send().                                               *)

Refused(m) ==           \* 404 for an unknown session, 409 for a busy one
    /\ turn[m] = "new"
    /\ current = None \/ current \in inFlight
    /\ turn' = [turn EXCEPT ![m] = "ended"]
    /\ UNCHANGED <<session, threads, of, resumes, escaped, exec, disk, terminal>>

Send(m) ==
    /\ turn[m] = "new"
    /\ current # None /\ current \notin inFlight
    /\ inFlight' = inFlight \union {current}
    /\ of' = [of EXCEPT ![m] = current]
    /\ resumes' = [resumes EXCEPT ![m] = thread[current]]
    /\ turn' = [turn EXCEPT ![m] = "spawning"]
    /\ UNCHANGED <<current, made, thread, proc, threads, escaped, exec, disk, terminal>>

\* Mutant: the process is not put in the state.
SpawnedUnrecorded(m) ==
    /\ turn[m] = "spawning"
    /\ codex' = [codex EXCEPT ![m] = "up"]
    /\ turn' = [turn EXCEPT ![m] = "writing"]
    /\ UNCHANGED <<session, threads, of, resumes, escaped, out, on, unanswered, disk, terminal>>

\* create_subprocess_exec returns; the message is being written to codex.
Spawned(m) ==
    /\ turn[m] = "spawning"
    /\ codex' = [codex EXCEPT ![m] = "up"]
    /\ proc' = [proc EXCEPT ![of[m]] = m]
    /\ turn' = [turn EXCEPT ![m] = "writing"]
    /\ UNCHANGED <<current, made, inFlight, thread, threads, of, resumes, escaped, out, on,
                   unanswered, disk, terminal>>

SpawnRaises(m) ==
    /\ turn[m] = "spawning"
    /\ inFlight' = inFlight \ {of[m]}
    /\ turn' = [turn EXCEPT ![m] = "ended"]
    /\ resumes' = [resumes EXCEPT ![m] = None]
    /\ UNCHANGED <<current, made, thread, proc, threads, of, escaped, exec, disk, terminal>>

\* drain() returns once codex has read what the pipe does not hold.
Written(m) ==
    /\ turn[m] = "writing"
    /\ turn' = [turn EXCEPT ![m] = "reading"]
    /\ UNCHANGED <<session, threads, of, resumes, escaped, exec, disk, terminal>>

\* The pipe of a codex that is gone is broken: past the finally of send_message,
\* but not that of send, so the state keeps the process.
WriteRaises(m) ==
    /\ turn[m] = "writing" /\ codex[m] = "gone"
    /\ inFlight' = inFlight \ {of[m]}
    /\ turn' = [turn EXCEPT ![m] = "ended"]
    /\ resumes' = [resumes EXCEPT ![m] = None]
    /\ escaped' = escaped \ {m}
    /\ UNCHANGED <<current, made, thread, proc, threads, of, exec, disk, terminal>>

Reads(m, e) == turn[m] = "reading" /\ out[m] # <<>> /\ Head(out[m]) = e

ReadStarted(m) ==
    /\ Reads(m, "started")
    /\ out' = [out EXCEPT ![m] = Tail(@)]
    /\ thread' = [thread EXCEPT ![of[m]] = on[m]]
    /\ threads' = on[m]
    /\ UNCHANGED <<current, made, inFlight, proc, generator, codex, on, unanswered, disk,
                   terminal>>

ReadCompleted(m) ==
    /\ Reads(m, "completed")
    /\ turn' = [turn EXCEPT ![m] = "exiting"]
    /\ UNCHANGED <<session, threads, of, resumes, escaped, exec, disk, terminal>>

\* _reset_thread: the session's next turn must not resume this thread.
ResetThread(m) ==
    /\ thread' = [thread EXCEPT ![of[m]] = None]
    /\ threads' = None

\* turn.failed, or the end of the output without a turn.completed
ReadFailed(m) ==
    /\ \/ Reads(m, "failed")
       \/ turn[m] = "reading" /\ out[m] = <<>> /\ codex[m] \in {"done", "gone"}
    /\ ResetThread(m)
    /\ turn' = [turn EXCEPT ![m] = "exiting"]
    /\ UNCHANGED <<current, made, inFlight, proc, of, resumes, escaped, exec, disk, terminal>>

Reap(m) == codex' = [codex EXCEPT ![m] = "gone"]

\* Mutants: the watchdog keeps the thread, or leaves the process to itself.
ReadTimesOutKeeps(m) ==
    /\ turn[m] = "reading" /\ out[m] = <<>> /\ codex[m] \in {"up", "working"}
    /\ Reap(m)
    /\ turn' = [turn EXCEPT ![m] = "exiting"]
    /\ UNCHANGED <<session, threads, of, resumes, escaped, out, on, unanswered, disk, terminal>>
ReadTimesOutWaits(m) ==
    /\ turn[m] = "reading" /\ out[m] = <<>> /\ codex[m] \in {"up", "working"}
    /\ ResetThread(m)
    /\ turn' = [turn EXCEPT ![m] = "exiting"]
    /\ UNCHANGED <<current, made, inFlight, proc, of, resumes, escaped, exec, disk, terminal>>

ReadTimesOut(m) ==      \* nothing for TURN_IDLE_TIMEOUT seconds
    /\ turn[m] = "reading" /\ out[m] = <<>> /\ codex[m] \in {"up", "working"}
    /\ ResetThread(m)
    /\ Reap(m)
    /\ turn' = [turn EXCEPT ![m] = "exiting"]
    /\ UNCHANGED <<current, made, inFlight, proc, of, resumes, escaped, out, on, unanswered,
                   disk, terminal>>

\* A line past the reader's limit, or not UTF-8: the exception passes through.
ReadRaises(m) ==
    /\ Reads(m, "garbled")
    /\ Reap(m)
    /\ turn' = [turn EXCEPT ![m] = "exiting"]
    /\ UNCHANGED <<session, threads, of, resumes, escaped, out, on, unanswered, disk,
                   terminal>>

\* The process has exited, and the finally blocks of send and send_message.
TurnEnds(m) ==
    /\ turn[m] = "exiting" /\ codex[m] = "gone"
    /\ proc' = [proc EXCEPT ![of[m]] = None]
    /\ inFlight' = inFlight \ {of[m]}
    /\ turn' = [turn EXCEPT ![m] = "ended"]
    /\ out' = [out EXCEPT ![m] = <<>>]
    /\ resumes' = [resumes EXCEPT ![m] = None]
    /\ escaped' = escaped \ {m}
    /\ UNCHANGED <<current, made, thread, threads, of, codex, on, unanswered, disk, terminal>>

Generator(m) == \/ Spawned(m) \/ SpawnRaises(m) \/ Written(m) \/ WriteRaises(m)
                \/ ReadStarted(m) \/ ReadCompleted(m) \/ ReadFailed(m) \/ ReadTimesOut(m)
                \/ ReadRaises(m) \/ TurnEnds(m)

-----------------------------------------------------------------------------
(* The process of a message (the codex CLI, not in the repository).        *)

Write(m, e) == out' = [out EXCEPT ![m] = Append(@, e)]

Mint == /\ minted < MaxThreads
        /\ minted' = minted + 1
        /\ rollouts' = rollouts \union {minted + 1}

\* The message has been read to its end and joins the thread: the one resumed,
\* if its rollout is there, or a new one.
CodexTakes(m) ==
    /\ codex[m] = "up" /\ turn[m] # "writing"
    /\ \/ /\ resumes[m] \in rollouts
          /\ on' = [on EXCEPT ![m] = resumes[m]]
          /\ UNCHANGED disk
       \/ /\ resumes[m] = None
          /\ on' = [on EXCEPT ![m] = minted + 1]
          /\ Mint
    /\ codex' = [codex EXCEPT ![m] = "working"]
    /\ unanswered' = unanswered \union {m}
    /\ Write(m, "started")
    /\ UNCHANGED <<session, threads, generator, terminal>>

\* It says how its turn ended, or closes its output without a word.
CodexFinishes(m) ==
    /\ codex[m] = "working"
    /\ \/ Write(m, "completed") /\ unanswered' = unanswered \ {m}
       \/ Write(m, "failed") /\ UNCHANGED unanswered
       \/ UNCHANGED <<out, unanswered>>
    /\ codex' = [codex EXCEPT ![m] = "done"]
    /\ UNCHANGED <<session, threads, generator, on, disk, terminal>>

CodexGarbles(m) ==
    /\ m \in Garbled /\ codex[m] = "working"
    /\ Write(m, "garbled")
    /\ codex' = [codex EXCEPT ![m] = "done"]
    /\ UNCHANGED <<session, threads, generator, on, unanswered, disk, terminal>>

CodexExits(m) ==
    /\ Alive(m)
    /\ codex' = [codex EXCEPT ![m] = "gone"]
    /\ UNCHANGED <<session, threads, generator, out, on, unanswered, disk, terminal>>

-----------------------------------------------------------------------------
(* The terminal.                                                           *)

\* A cold terminal resumes the known thread, if its rollout is there; else the
\* thread is forgotten, and the terminal starts bare and is watched.
OpenTerminal(harness_sid) ==
    /\ IF pane THEN threads' = Known(harness_sid)
       ELSE /\ current = None
            /\ threads' = IF Known(harness_sid) \in rollouts THEN Known(harness_sid) ELSE None
    /\ pane' = TRUE /\ watched' = TRUE
    /\ UNCHANGED <<session, generator, exec, disk>>

TerminalMints ==        \* by the first turn in a bare terminal
    /\ pane
    /\ Mint
    /\ UNCHANGED <<session, threads, generator, exec, terminal>>

\* A watcher adopts a rollout, which need not be its own and may come late; a
\* rotation forgets the thread.
TerminalRecords ==
    /\ watched
    /\ threads' \in rollouts \union {None}
    /\ UNCHANGED <<session, generator, exec, disk, terminal>>

TerminalCloses ==       \* codex exits, or the terminal is released
    /\ pane
    /\ pane' = FALSE
    /\ UNCHANGED <<session, threads, generator, exec, disk, watched>>

-----------------------------------------------------------------------------
Next ==
    \/ \E h \in Reported : Create(h) \/ OpenTerminal(h)
    \/ Kill \/ Restart
    \/ \E m \in Messages : \/ Refused(m) \/ Send(m) \/ Generator(m)
                          \/ CodexTakes(m) \/ CodexFinishes(m) \/ CodexGarbles(m)
                          \/ CodexExits(m)
    \/ TerminalMints \/ TerminalRecords \/ TerminalCloses

Spec == Init /\ [][Next]_vars

\* asyncio runs the generators and times out a readline that waits. What waits
\* for codex without a timeout: drain(), for it to read its stdin, and wait(), for
\* it to exit when its turn is over.
Undrained(m) == turn[m] = "writing" /\ Alive(m)
Lingers(m) == turn[m] = "exiting" /\ codex[m] = "done"

Fairness == \A m \in Messages : WF_vars(Generator(m) /\ ~Undrained(m))

FairSpec == Spec /\ Fairness

-----------------------------------------------------------------------------
\* A conversation has one live harness process: two turns, or a turn and a
\* terminal, never run together, but for a turn whose session was killed
\* while its process was being spawned (mind_server.py 2132-2135).
OneHarness ==
    \A m \in Messages : Alive(m) /\ m \notin escaped =>
        /\ ~pane
        /\ \A n \in Messages : Alive(n) /\ n \notin escaped => n = m

\* The same without the exception.
OneHarnessEver ==
    \A m \in Messages : Alive(m) =>
        ~pane /\ \A n \in Messages : Alive(n) => n = m

\* The turns of a state that were not answered are not on its thread, once it
\* is free to take a message: that one would get their answer, and every one
\* after it the answer of the one before (lines 491-495).
Answered(turns) ==
    \A s \in Spawns \ inFlight : \A m \in turns :
        of[m] = s /\ m \in unanswered => on[m] # thread[s]

\* Whatever a turn ends in, but for an exception out of its reader.
OwnTurnsAnswered == Answered(Messages \ Garbled)

\* The same with the exception.
AnsweredEver == Answered(Messages)

\* A session at rest has its thread in the map, so that a respawn "rejoins its
\* thread instead of silently starting a second one" (lines 81-83).
MapHasThread ==
    current \in Spawns \ inFlight => threads = thread[current]

\* A session takes messages again, and is not left answering 409 for good
\* (lines 65-66, 500-504): by a codex that falls silent, fails, dies, closes its
\* output or says nothing at all, but for one that never reads its stdin, or never
\* exits once its turn is over, for which send() waits.
FreedAgain ==
    \A s \in Spawns :
        []<>(s \notin inFlight \/ \E m \in Messages : of[m] = s /\ (Undrained(m) \/ Lingers(m)))

\* "Without this [...] the session never frees" (lines 500-504): with it, and
\* whatever codex does. Not kept, as the exceptions of FreedAgain are real.
FreedEver == \A s \in Spawns : []<>(s \notin inFlight)

=============================================================================
