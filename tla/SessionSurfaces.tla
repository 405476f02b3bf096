-------------------------- MODULE SessionSurfaces --------------------------
(***************************************************************************)
(* The two surfaces of one conversation in mind_server: the stream process   *)
(* that create_session registers and the terminal that attach_pty opens,     *)
(* ended by release and kill, by themselves or by a restart of the server.   *)
(* An action is what a route does between two awaits. The routes are the     *)
(* gateway's to call; it is external, as tmux and the harness are.           *)
(***************************************************************************)
EXTENDS Integers, FiniteSets

CONSTANTS
  Calls,  \* route calls; a stream process is named by the create that began it
  NoProcess

ASSUME CallsAssumption == NoProcess \notin Calls

VARIABLES
  entry,    \* _sessions[session_id]: the process registered, or NoProcess
  live,     \* stream processes that run
  handle,   \* _ptys has the session
  tmux,     \* its tmux session is there
  call,     \* where each call is
  ending,   \* the process it ends
  left,     \* ghost: that tmux session was left by a teardown, as no handle was
            \* found for it or its kill failed, and no tile has attached since
  owner,    \* ghost: the surface the gateway takes for the live one
  crossed   \* ghost: the gateway did not hand over as release asks it to

surfaceVars == <<entry, live, handle, tmux, call, ending, left, owner, crossed>>

Opening == {"spawning", "fetching"}
SurfacesTypeOK ==
  /\ entry \in Calls \cup {NoProcess}
  /\ live \subseteq Calls
  /\ handle \in BOOLEAN
  /\ tmux \in BOOLEAN
  /\ call \in [Calls -> {"new", "ending", "done"} \cup Opening]
  /\ ending \in [Calls -> Calls \cup {NoProcess}]
  /\ left \in BOOLEAN
  /\ owner \in {"none", "stream", "terminal"}
  /\ crossed \in BOOLEAN

SurfacesInit ==
  /\ entry = NoProcess
  /\ live = {}
  /\ handle = FALSE
  /\ tmux = FALSE
  /\ call = [c \in Calls |-> "new"]
  /\ ending = [c \in Calls |-> NoProcess]
  /\ left = FALSE
  /\ owner = "none"
  /\ crossed = FALSE

UnderWay(phases) == \E c \in Calls : call[c] \in phases

\* The gateway opens a surface once the other one was released and nothing else
\* is under way but tiles that come together.
OpensFor(surface, among) ==
  /\ owner' = surface
  /\ crossed' = (crossed \/ owner \notin among \/ UnderWay({"spawning", "ending"})
                   \/ (surface = "stream" /\ UnderWay(Opening)))

\* It closes what it has opened, not what is still being opened.
Closes(surfaces) ==
  /\ owner' = IF owner \in surfaces THEN "none" ELSE owner
  /\ crossed' = (crossed \/ UnderWay(Opening))

-----------------------------------------------------------------------------
(* The stream process.                                                       *)

CreateSession(c) ==
  /\ call[c] = "new"
  /\ call' = [call EXCEPT ![c] = "spawning"]
  /\ OpensFor("stream", {"none"})
  /\ UNCHANGED <<entry, live, handle, tmux, ending, left>>

\* The entry is replaced, whatever was there; a spawn may also fail.
Created(c) ==
  /\ call[c] = "spawning"
  /\ call' = [call EXCEPT ![c] = "done"]
  /\ \/ entry' = c /\ live' = live \cup {c}
     \/ UNCHANGED <<entry, live>>
  /\ UNCHANGED <<handle, tmux, ending, left, owner, crossed>>

\* _teardown_stream_process up to its await.
PopStream(c) ==
  /\ entry' = NoProcess
  /\ ending' = [ending EXCEPT ![c] = entry]
  /\ call' = [call EXCEPT ![c] = IF entry = NoProcess THEN "done" ELSE "ending"]

ReleaseStream(c) ==
  /\ call[c] = "new"
  /\ PopStream(c)
  /\ Closes({"stream"})
  /\ UNCHANGED <<live, handle, tmux, left>>

\* Mutant: the process is left to end when it likes.
StreamForgotten(c) ==
  /\ call[c] = "ending"
  /\ call' = [call EXCEPT ![c] = "done"]
  /\ ending' = [ending EXCEPT ![c] = NoProcess]
  /\ UNCHANGED <<entry, live, handle, tmux, left, owner, crossed>>

\* SIGTERM, SIGKILL after 5 s, and the process is waited for.
StreamEnded(c) ==
  /\ call[c] = "ending"
  /\ call' = [call EXCEPT ![c] = "done"]
  /\ live' = live \ {ending[c]}
  /\ ending' = [ending EXCEPT ![c] = NoProcess]
  /\ UNCHANGED <<entry, handle, tmux, left, owner, crossed>>

-----------------------------------------------------------------------------
(* The terminal.                                                             *)

\* _open_pty_session: the handle is there or made, the pane as well.
OpenTerminal == handle' = TRUE /\ tmux' = TRUE /\ left' = FALSE

AttachToPane(c) ==
  /\ call[c] = "new"
  /\ tmux
  /\ OpenTerminal
  /\ call' = [call EXCEPT ![c] = "done"]
  /\ OpensFor("terminal", {"none", "terminal"})
  /\ UNCHANGED <<entry, live, ending>>

AttachToNone(c) ==
  /\ call[c] = "new"
  /\ ~tmux
  /\ call' = [call EXCEPT ![c] = "fetching"]
  /\ OpensFor("terminal", {"none", "terminal"})
  /\ UNCHANGED <<entry, live, handle, tmux, ending, left>>

\* The carry-forward has come, or not; tmux may refuse.
Fetched(c) ==
  /\ call[c] = "fetching"
  /\ call' = [call EXCEPT ![c] = "done"]
  /\ OpenTerminal \/ (handle' = TRUE /\ left' = FALSE /\ UNCHANGED tmux)
  /\ UNCHANGED <<entry, live, ending, owner, crossed>>

\* Mutant: the handle is dropped and the tmux session left to its viewers.
TeardownHandle == handle' = FALSE /\ UNCHANGED <<tmux, left>>

\* The handle goes; the tmux session stays if there was none to go by, or if
\* its kill fails: the answer of kill_pty_session is not looked at.
TeardownPty ==
  /\ handle' = FALSE
  /\ \/ handle /\ tmux' = FALSE /\ left' = FALSE
     \/ UNCHANGED tmux /\ left' = tmux

\* tmux cannot be run: the route ends here, its handle popped.
TeardownRaises ==
  /\ handle
  /\ handle' = FALSE
  /\ UNCHANGED tmux /\ left' = tmux

ReleaseTerminal(c) ==
  /\ call[c] = "new"
  /\ call' = [call EXCEPT ![c] = "done"]
  /\ \/ TeardownPty /\ Closes({"terminal"})
     \/ TeardownRaises /\ UNCHANGED <<owner, crossed>>
  /\ UNCHANGED <<entry, live, ending>>

\* kill_session: the terminal, then the stream process.
KillSession(c) ==
  /\ call[c] = "new"
  /\ TeardownPty
  /\ PopStream(c)
  /\ Closes({"stream", "terminal"})
  /\ UNCHANGED live

KillRaises(c) ==
  /\ call[c] = "new"
  /\ TeardownRaises
  /\ call' = [call EXCEPT ![c] = "done"]
  /\ UNCHANGED <<entry, live, ending, owner, crossed>>

\* _reap_dead_ptys.
Reap ==
  /\ handle
  /\ ~tmux
  /\ handle' = FALSE
  /\ UNCHANGED <<entry, live, tmux, call, ending, left, owner, crossed>>

-----------------------------------------------------------------------------
(* What ends by itself.                                                      *)

HarnessEnds ==
  /\ \/ tmux' = FALSE /\ tmux /\ left' = FALSE /\ UNCHANGED live
     \/ \E c \in live : live' = live \ {c} /\ UNCHANGED <<tmux, left>>
  /\ UNCHANGED <<entry, handle, call, ending, owner, crossed>>

\* The registries are gone and stream processes read the end of their stdin;
\* a tmux session may stay, and is then found by an attach only.
ServerRestarts ==
  /\ entry' = NoProcess
  /\ live' = {}
  /\ handle' = FALSE
  /\ \/ tmux' = FALSE /\ left' = FALSE
     \/ UNCHANGED <<tmux, left>>
  /\ call' = [c \in Calls |-> IF call[c] = "new" THEN "new" ELSE "done"]
  /\ ending' = [c \in Calls |-> NoProcess]
  /\ UNCHANGED <<owner, crossed>>

SurfacesNext ==
  \/ \E c \in Calls :
       \/ CreateSession(c) \/ Created(c) \/ ReleaseStream(c) \/ StreamEnded(c)
       \/ AttachToPane(c) \/ AttachToNone(c) \/ Fetched(c) \/ ReleaseTerminal(c) \/ KillSession(c)
       \/ KillRaises(c)
  \/ Reap \/ HarnessEnds \/ ServerRestarts

SurfacesSpec == SurfacesInit /\ [][SurfacesNext]_surfaceVars

-----------------------------------------------------------------------------
(* Properties *)

\* "A conversation may only ever have one live harness process": through
\* handovers between terminal and stream, tiles that open it together, kills,
\* failed spawns, exits and restarts of the server, if the gateway hands over
\* one call at a time and does not take a call that raised for done. A terminal
\* that a teardown left, with no handle after a restart or with its kill refused,
\* is not counted until a tile attaches to it: nothing knows of it.
OneOwner ==
  ~crossed => /\ \A p, q \in live : p = q
              /\ tmux /\ ~left => live = {}

\* Not kept: the same of any calls. A create replaces the entry of a process it
\* does not end; what is opened across a release or a kill is registered after it.
OneOwnerEver == (\A p, q \in live : p = q) /\ (tmux => live = {})
=============================================================================
