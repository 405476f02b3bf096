--------------------------- MODULE CodexTerminal ---------------------------
(***************************************************************************)
(* Codex in the browser terminals of one mind: a pane starts without a       *)
(* thread, codex writes a rollout when the first turn begins, and a watcher  *)
(* takes a rollout that is new since it was started for its session's        *)
(* (spawn_pty, rotate_pty_session, _watch_for_new_thread). All panes share   *)
(* one directory of rollouts. Codex, tmux and the gateway are external.      *)
(***************************************************************************)
EXTENDS Integers, FiniteSets

CONSTANTS
  Terminals,   \* sessions with a terminal
  MaxThreads,  \* bound: threads that ever exist
  MaxEras      \* bound: conversations begun without a thread, by any two sessions

ASSUME TerminalsAssumption == MaxThreads \in Nat /\ MaxEras \in Nat

VARIABLES
  pane,      \* "none", "bare" (no turn yet) or the thread it runs
  thread,    \* THREADS, also on disk: the thread of each session, or 0
  gateway,   \* the thread the gateway holds for it, or 0
  rollouts,  \* rollouts on disk
  minted,    \* threads so far
  watchers,  \* each with its session, its conversation and the rollouts it began with
  reports,   \* threads on their way to the gateway, each with its session
  era,       \* ghost: counts the conversations of a session begun without a thread
  origin,    \* ghost: the session and conversation that minted each thread
  mixed,     \* ghost: sessions with a watcher or a report of one conversation in another
  refused    \* ghost: sessions with a pane that tmux would not respawn

terminalVars == <<pane, thread, gateway, rollouts, minted, watchers, reports, era, origin, mixed, refused>>

NoThread == 0
Bare == -1
NoPane == -2
Threads == 1 .. MaxThreads

TerminalTypeOK ==
  /\ pane \in [Terminals -> Threads \cup {Bare, NoPane}]
  /\ thread \in [Terminals -> Threads \cup {NoThread}]
  /\ gateway \in [Terminals -> Threads \cup {NoThread}]
  /\ rollouts \subseteq Threads
  /\ minted \in 0 .. MaxThreads
  /\ watchers \subseteq [of : Terminals, era : 0 .. MaxEras, before : SUBSET Threads]
  /\ era \in [Terminals -> 0 .. MaxEras]
  /\ origin \in [Threads -> (Terminals \X (0 .. MaxEras)) \cup {<< >>}]
  /\ reports \subseteq [of : Terminals, thread : Threads]
  /\ mixed \subseteq Terminals
  /\ refused \subseteq Terminals

TerminalInit ==
  /\ pane = [s \in Terminals |-> NoPane]
  /\ thread = [s \in Terminals |-> NoThread]
  /\ gateway = [s \in Terminals |-> NoThread]
  /\ rollouts = {}
  /\ minted = 0
  /\ watchers = {}
  /\ reports = {}
  /\ era = [s \in Terminals |-> 0]
  /\ origin = [t \in Threads |-> << >>]
  /\ mixed = {}
  /\ refused = {}

Watched(s) == {w \in watchers : w.of = s}
Reporting(s) == {p \in reports : p.of = s}
Watcher(s, before) == [of |-> s, era |-> era[s] + 1, before |-> before]

\* A conversation begins in s without a thread, while the watcher of the one
\* before may still poll or report; codex is started bare and watched.
BeginsBare(s, before) ==
  /\ era[s] < MaxEras /\ \A r \in Terminals \ {s} : era[s] + era[r] < MaxEras
  /\ era' = [era EXCEPT ![s] = @ + 1]
  /\ pane' = [pane EXCEPT ![s] = Bare]
  /\ watchers' = watchers \cup {Watcher(s, before)}
  /\ mixed' = IF Watched(s) \cup Reporting(s) = {} THEN mixed ELSE mixed \cup {s}
  /\ refused' = refused \ {s}

\* What a cold terminal resumes: the gateway's thread before the one on disk,
\* if its rollout is there.
Wanted(s) == IF gateway[s] # NoThread THEN gateway[s] ELSE thread[s]

OpenResumed(s) ==
  /\ pane[s] = NoPane
  /\ Wanted(s) \in rollouts
  /\ pane' = [pane EXCEPT ![s] = Wanted(s)]
  /\ thread' = [thread EXCEPT ![s] = Wanted(s)]
  /\ gateway' \in {gateway, [gateway EXCEPT ![s] = Wanted(s)]}
  /\ UNCHANGED <<rollouts, minted, watchers, reports, era, origin, mixed, refused>>

\* Mutant: what was there before is not looked at.
OpenBareUnlooked(s) ==
  /\ pane[s] = NoPane
  /\ Wanted(s) \notin rollouts
  /\ thread' = [thread EXCEPT ![s] = NoThread]
  /\ BeginsBare(s, {})
  /\ UNCHANGED <<gateway, rollouts, minted, reports, origin>>

\* A thread without its rollout is discarded.
OpenBare(s) ==
  /\ pane[s] = NoPane
  /\ Wanted(s) \notin rollouts
  /\ thread' = [thread EXCEPT ![s] = NoThread]
  /\ BeginsBare(s, rollouts)
  /\ UNCHANGED <<gateway, rollouts, minted, reports, origin>>

\* A tile comes back to a live pane with the gateway's thread in hand.
Reattach(s) ==
  /\ pane[s] # NoPane
  /\ gateway[s] # NoThread
  /\ thread' = [thread EXCEPT ![s] = gateway[s]]
  /\ UNCHANGED <<pane, gateway, rollouts, minted, watchers, reports, era, origin, mixed, refused>>

\* Mutant: the old thread is kept until the new one is known.
RotateRemembering(s) ==
  /\ pane[s] # NoPane
  /\ gateway' = [gateway EXCEPT ![s] = NoThread]
  /\ BeginsBare(s, rollouts)
  /\ UNCHANGED <<thread, rollouts, minted, reports, origin>>

\* rotate_pty_session; the gateway has begun a conversation without a thread.
Rotate(s) ==
  /\ pane[s] # NoPane
  /\ thread' = [thread EXCEPT ![s] = NoThread]
  /\ gateway' = [gateway EXCEPT ![s] = NoThread]
  /\ BeginsBare(s, rollouts)
  /\ UNCHANGED <<rollouts, minted, reports, origin>>

\* tmux will not respawn the pane, which goes on as it was; the thread has been
\* forgotten by then, and no watcher is started.
RotateRefused(s) ==
  /\ pane[s] # NoPane
  /\ thread' = [thread EXCEPT ![s] = NoThread]
  /\ gateway' \in {gateway, [gateway EXCEPT ![s] = NoThread]}
  /\ refused' = refused \cup {s}
  /\ UNCHANGED <<pane, rollouts, minted, watchers, reports, era, origin, mixed>>

\* codex writes the rollout. Every watcher that did not begin with it sees it.
FirstTurn(s) ==
  LET t == minted + 1 IN
  /\ pane[s] = Bare
  /\ minted < MaxThreads
  /\ minted' = t
  /\ rollouts' = rollouts \cup {t}
  /\ pane' = [pane EXCEPT ![s] = t]
  /\ origin' = [origin EXCEPT ![t] = <<s, era[s]>>]
  /\ mixed' = mixed \cup {w.of : w \in {w \in watchers : w.of # s}}
  /\ UNCHANGED <<thread, gateway, watchers, reports, era, refused>>

\* The pane ends: it is killed, or codex exits.
PaneEnds(s) ==
  /\ pane[s] # NoPane
  /\ pane' = [pane EXCEPT ![s] = NoPane]
  /\ refused' = refused \ {s}
  /\ UNCHANGED <<thread, gateway, rollouts, minted, watchers, reports, era, origin, mixed>>

\* Mutant: a watcher looks once.
WatchOnce(w) ==
  /\ w \in watchers
  /\ watchers' = watchers \ {w}
  /\ \/ /\ pane[w.of] # NoPane
        /\ \E t \in rollouts \ w.before : /\ thread' = [thread EXCEPT ![w.of] = t]
                                         /\ reports' = reports \cup {[of |-> w.of, thread |-> t]}
     \/ (pane[w.of] = NoPane \/ rollouts \ w.before = {}) /\ UNCHANGED <<thread, reports>>
  /\ UNCHANGED <<pane, gateway, rollouts, minted, era, origin, mixed, refused>>

\* A poll that ends a watcher: any rollout that is new to it is remembered, to
\* be reported; or there is no terminal left.
Watch(w) ==
  /\ w \in watchers
  /\ watchers' = watchers \ {w}
  /\ \/ /\ pane[w.of] # NoPane
        /\ \E t \in rollouts \ w.before : /\ thread' = [thread EXCEPT ![w.of] = t]
                                         /\ reports' = reports \cup {[of |-> w.of, thread |-> t]}
     \/ pane[w.of] = NoPane /\ UNCHANGED <<thread, reports>>
  /\ UNCHANGED <<pane, gateway, rollouts, minted, era, origin, mixed, refused>>

\* _report_thread: the gateway has it, however late, or is not there.
Report(p) ==
  /\ p \in reports
  /\ reports' = reports \ {p}
  /\ gateway' \in {gateway, [gateway EXCEPT ![p.of] = p.thread]}
  /\ UNCHANGED <<pane, thread, rollouts, minted, watchers, era, origin, mixed, refused>>

\* Another volume: the rollouts are gone.
Redeployed ==
  /\ \A s \in Terminals : pane[s] = NoPane
  /\ rollouts # {}
  /\ rollouts' = {}
  /\ UNCHANGED <<pane, thread, gateway, minted, watchers, reports, era, origin, mixed, refused>>

TerminalNext ==
  \/ \E s \in Terminals :
       OpenResumed(s) \/ OpenBare(s) \/ Reattach(s) \/ Rotate(s) \/ RotateRefused(s)
       \/ FirstTurn(s) \/ PaneEnds(s)
  \/ \E w \in watchers : Watch(w)
  \/ \E p \in reports : Report(p)
  \/ Redeployed

\* The watchers poll; nobody has to type.
TerminalFair == \A s \in Terminals : WF_terminalVars(\E w \in Watched(s) : Watch(w))

TerminalSpec == TerminalInit /\ [][TerminalNext]_terminalVars

-----------------------------------------------------------------------------
(* Properties *)

\* A thread that can be resumed and is on record for a session is that of its
\* conversation of now, so that a later attach resumes that one and no rotation
\* is undone; through rotations, respawns that fail, panes that die, reports that
\* are late or lost and a change of volume. Except that no first turn of another
\* session may begin while a watcher polls, and no rotation come while one polls or
\* reports: the code does not tell a rollout of one from that of another.
RecordedIsOwn ==
  \A s \in Terminals \ mixed :
    thread[s] \in rollouts => origin[thread[s]] = <<s, era[s]>>

\* Without the exception: "a later reattach [...] resumes the real conversation"
\* (codex_cli.py 867-870). Not kept.
RecordedEver ==
  \A s \in Terminals :
    thread[s] \in rollouts => origin[thread[s]] = <<s, era[s]>>

\* A conversation that has its thread gets it on record while its pane lives, if
\* its pane was not to be rotated and tmux refused: that one's is forgotten.
TurnIsRecorded ==
  \A s \in Terminals :
    pane[s] \in Threads ~> thread[s] # NoThread \/ pane[s] \notin Threads \/ s \in refused

\* Not kept: the thread of a conversation that was rotated away stays forgotten
\* ("a later reattach that resumed it would undo the rotation").
RotationStays ==
  [][\A s \in Terminals :
       LET t == thread'[s] IN
       /\ t \notin {NoThread, thread[s]}
       /\ origin[t] # << >>
       /\ origin[t][1] = s
       => origin[t][2] = era[s]]_terminalVars
=============================================================================
