------------------------------ MODULE PtyAttach ------------------------------
(***************************************************************************)
(* The browser terminal of one hive session: the registry of _PtyHandle in *)
(* mind_server.py, the sockets of the tiles that attach to it, the tmux    *)
(* session that owns the harness, and the rotation of its conversation.    *)
(*                                                                         *)
(* Terminals of different sessions share nothing, so one is modelled.  The *)
(* event loop runs everything here but the respawn of a rotation, which is *)
(* on a thread; an action is what happens between two awaits.  A handle is *)
(* named by the tile whose attach created it, a tmux client by the tile it *)
(* was spawned for, and the output queue of an attachment by its tile.     *)
(* Terminal bytes are left out: a queue holds the sentinels put on it.     *)
(***************************************************************************)
EXTENDS Naturals, Sequences

CONSTANTS
    Tiles,      \* attach requests, each a browser tile's socket
    Rotations,  \* rotations, each named by the conversation it moves to
    First,      \* the conversation the session starts on
    None

Conversations == Rotations \union {First}

ASSUME PtyAssumption == First \notin Rotations /\ None \notin Tiles \union Conversations

VARIABLES
    reg,        \* _ptys[session_id]: the registered handle, or None
    queue,      \* handle.queue: the attachment a handle serves
    client,     \* handle.proc and handle.master_fd: its tmux client
    reader,     \* the loop watches handle.master_fd
    sid,        \* handle.claude_sid
    tile,       \* where each attach_pty coroutine is
    asked,      \* the resume_sid it came with
    mine,       \* the handle it holds
    inbox,      \* the sentinels on its queue
    told,       \* the reason its socket was closed with
    pane,       \* the conversation of the tmux pane, or None without a session
    clients,    \* the tmux clients attached to it
    current,    \* the conversation the gateway has for the session
    rotation,   \* where each rotation is
    rotating,   \* the handle a rotation holds
    ended,      \* history: the tiles the terminal ended or was torn down under
    unkilled    \* history: the pane that is there outlived a teardown

handles == <<reg, queue, client, reader, sid>>
sockets == <<tile, asked, mine, inbox, told>>
tmux    == <<pane, clients>>
turning == <<current, rotation, rotating>>
history == <<ended, unkilled>>
vars    == <<handles, sockets, tmux, turning, history>>

TypeOK ==
    /\ reg \in Tiles \union {None}
    /\ queue \in [Tiles -> Tiles \union {None}]
    /\ client \in [Tiles -> Tiles \union {None}]
    /\ reader \in [Tiles -> BOOLEAN]
    /\ sid \in [Tiles -> Conversations \union {None}]
    /\ tile \in [Tiles -> {"new", "fetching", "attached", "closing", "closed"}]
    /\ asked \in [Tiles -> Conversations \union {None}]
    /\ mine \in [Tiles -> Tiles \union {None}]
    /\ inbox \in [Tiles -> Seq({"exited", "evicted"})]
    /\ told \in [Tiles -> {"nothing", "exited", "evicted", "failed", "left"}]
    /\ pane \in Conversations \union {None}
    /\ clients \in SUBSET Tiles
    /\ current \in Conversations
    /\ rotation \in [Rotations -> {"new", "asked", "respawning", "respawned", "done"}]
    /\ rotating \in [Rotations -> Tiles \union {None}]
    /\ ended \in SUBSET Tiles
    /\ unkilled \in BOOLEAN

Init ==
    /\ reg = None
    /\ queue = [h \in Tiles |-> None] /\ client = [h \in Tiles |-> None]
    /\ reader = [h \in Tiles |-> FALSE] /\ sid = [h \in Tiles |-> None]
    /\ tile = [t \in Tiles |-> "new"] /\ asked = [t \in Tiles |-> None]
    /\ mine = [t \in Tiles |-> None] /\ inbox = [t \in Tiles |-> <<>>]
    /\ told = [t \in Tiles |-> "nothing"]
    /\ pane = None /\ clients = {}
    /\ current = First
    /\ rotation = [r \in Rotations |-> "new"] /\ rotating = [r \in Rotations |-> None]
    /\ ended = {} /\ unkilled = FALSE

Open(t) == tile[t] \in {"attached", "closing"}      \* its receive loop runs
Watching == {t \in Tiles : Open(t)}

-----------------------------------------------------------------------------
(* The handle: _PtyHandle.signal, _detach_client, _register_pty_reader.    *)

Signal(h, sentinel) ==
    inbox' = IF queue[h] = None THEN inbox
             ELSE [inbox EXCEPT ![queue[h]] = Append(@, sentinel)]

\* Mutant: the client process is not terminated.
StillAttached(h) == clients

\* The client ends with its fd closed and no longer watched; tmux keeps the pane.
Detached(h) == clients \ {client[h]}
DetachClient(h) == /\ client' = [client EXCEPT ![h] = None]
                   /\ reader' = [reader EXCEPT ![h] = FALSE]

\* Mutant: the reader stops watching and tells nobody.
ReaderStopsSilently(h) ==
    /\ reader[h] /\ client[h] \notin clients
    /\ reader' = [reader EXCEPT ![h] = FALSE]
    /\ UNCHANGED <<reg, queue, client, sid, sockets, tmux, turning, history>>

\* The watched fd reads empty: its client is gone, and the socket is told.
ReaderSeesEof(h) ==
    /\ reader[h] /\ client[h] \notin clients
    /\ reader' = [reader EXCEPT ![h] = FALSE]
    /\ Signal(h, "exited")
    /\ UNCHANGED <<reg, queue, client, sid, tile, asked, mine, told, tmux, turning, history>>

-----------------------------------------------------------------------------
(* attach_pty and _open_pty_session.                                       *)

\* impl.spawn_pty: starts the pane if there is none, and attaches the one
\* client there may be.
Started(conversation) == IF pane = None THEN conversation ELSE pane

SpawnClient(t, h, conversation) ==
    /\ pane' = Started(conversation)
    /\ clients' = {t}
    /\ client' = [client EXCEPT ![h] = t]
    /\ reader' = [reader EXCEPT ![h] = TRUE]
    /\ queue' = [queue EXCEPT ![h] = t]
    /\ mine' = [mine EXCEPT ![t] = h]
    /\ tile' = [tile EXCEPT ![t] = "attached"]
    /\ UNCHANGED told

SpawnFails(t, h, conversation) ==   \* before or after it has a pane
    /\ pane' \in {pane, Started(conversation)}
    /\ clients' = Detached(h)
    /\ DetachClient(h)
    /\ tile' = [tile EXCEPT ![t] = "closed"]
    /\ told' = [told EXCEPT ![t] = "failed"]
    /\ UNCHANGED <<queue, mine>>

SpawnPty(t, h, conversation) == SpawnClient(t, h, conversation) \/ SpawnFails(t, h, conversation)

\* A mutant: the displaced tile is not told.
OpenUnannounced(t, conversation) ==
    /\ reg' = IF reg = None THEN t ELSE reg
    /\ sid' = IF reg = None THEN [sid EXCEPT ![t] = conversation] ELSE sid
    /\ SpawnPty(t, reg', conversation)
    /\ UNCHANGED <<inbox, turning, history>>
\* A registered handle is taken over: its tile is told before its client dies.
OpenSession(t, conversation) ==
    /\ IF reg = None
       THEN /\ reg' = t
            /\ sid' = [sid EXCEPT ![t] = conversation]
            /\ SpawnPty(t, t, conversation)
            /\ UNCHANGED inbox
       ELSE /\ Signal(reg, "evicted")
            /\ SpawnPty(t, reg, conversation)
            /\ UNCHANGED <<reg, sid>>
    /\ UNCHANGED <<turning, history>>

AttachToLive(t) ==
    /\ tile[t] = "new" /\ pane # None
    /\ asked' = [asked EXCEPT ![t] = current]
    /\ OpenSession(t, current)

\* Without a live terminal the carry-forward is fetched first, from comms.
AttachToCold(t) ==
    /\ tile[t] = "new" /\ pane = None
    /\ asked' = [asked EXCEPT ![t] = current]
    /\ tile' = [tile EXCEPT ![t] = "fetching"]
    /\ UNCHANGED <<handles, mine, inbox, told, tmux, turning, history>>

AttachFetched(t) ==
    /\ tile[t] = "fetching"
    /\ OpenSession(t, asked[t])
    /\ UNCHANGED asked

\* What the receive loop writes to and resizes: whatever client the handle has.
TypesInto(t) == client[mine[t]]

\* The finally block: detach, if the handle still serves this attachment.
LeaveHandle(t) ==
    IF queue[mine[t]] = t
    THEN /\ queue' = [queue EXCEPT ![mine[t]] = None]
         /\ clients' = Detached(mine[t])
         /\ DetachClient(mine[t])
    ELSE UNCHANGED <<queue, clients, client, reader>>

PumpCloses(t) ==        \* pump_to_ws closes the socket with the reason
    /\ tile[t] = "attached" /\ inbox[t] # <<>>
    /\ told' = [told EXCEPT ![t] = Head(inbox[t])]
    /\ tile' = [tile EXCEPT ![t] = "closing"]
    /\ UNCHANGED <<handles, asked, mine, inbox, tmux, turning, history>>

ClosedByServer(t) ==
    /\ tile[t] = "closing"
    /\ tile' = [tile EXCEPT ![t] = "closed"]
    /\ LeaveHandle(t)
    /\ UNCHANGED <<reg, sid, asked, mine, inbox, told, pane, turning, history>>

ClosedByBrowser(t) ==
    /\ tile[t] = "attached"
    /\ tile' = [tile EXCEPT ![t] = "closed"]
    /\ told' = [told EXCEPT ![t] = "left"]
    /\ LeaveHandle(t)
    /\ UNCHANGED <<reg, sid, asked, mine, inbox, pane, turning, history>>

-----------------------------------------------------------------------------
(* _teardown_pty, and the two that call it: an explicit close, the reaper. *)

\* Mutant: only the viewers are ended.
PaneDetached == UNCHANGED <<pane, unkilled>> /\ clients' = {}

\* kill-session ends the pane and its clients.
PaneEnds == pane' = None /\ clients' = {} /\ unkilled' = FALSE

\* kill-session is refused, which _teardown_pty does not look at, or tmux cannot
\* be run, which raises: the handle is popped and its client gone, the pane stays.
KillFails == /\ UNCHANGED pane
             /\ clients' = Detached(reg)
             /\ unkilled' = (pane # None)

TeardownPty ==
    /\ reg # None
    /\ reg' = None
    /\ Signal(reg, "exited")
    /\ DetachClient(reg)
    /\ PaneEnds \/ KillFails
    /\ ended' = ended \union Watching
    /\ UNCHANGED <<queue, sid, tile, asked, mine, told, turning>>

CloseTerminal == TeardownPty

Reap == pane = None /\ TeardownPty

-----------------------------------------------------------------------------
(* rotate_pty, with rotate_pty_session on a thread.                        *)

GatewayRotates(r) ==    \* comms moves the session's pointer and asks the mind
    /\ rotation[r] = "new"
    /\ current' = r
    /\ rotation' = [rotation EXCEPT ![r] = "asked"]
    /\ UNCHANGED <<handles, sockets, tmux, rotating, history>>

RotateRequest(r) ==
    /\ rotation[r] = "asked"
    /\ rotating' = [rotating EXCEPT ![r] = reg]
    /\ rotation' = [rotation EXCEPT ![r] = IF reg = None THEN "done" ELSE "respawning"]
    /\ UNCHANGED <<handles, sockets, tmux, current, history>>

RotateRespawn(r) ==     \* the pane's process is replaced, its clients stay
    /\ rotation[r] = "respawning" /\ pane # None
    /\ pane' = r
    /\ rotation' = [rotation EXCEPT ![r] = "respawned"]
    /\ UNCHANGED <<handles, sockets, clients, current, rotating, history>>

RotateNothing(r) ==     \* no live terminal, or tmux refuses
    /\ rotation[r] = "respawning"
    /\ rotation' = [rotation EXCEPT ![r] = "done"]
    /\ UNCHANGED <<handles, sockets, tmux, current, rotating, history>>

RotateReturns(r) ==     \* on the handle it started with, registered or not
    /\ rotation[r] = "respawned"
    /\ sid' = [sid EXCEPT ![rotating[r]] = r]
    /\ rotation' = [rotation EXCEPT ![r] = "done"]
    /\ UNCHANGED <<reg, queue, client, reader, sockets, tmux, current, rotating, history>>

-----------------------------------------------------------------------------
\* The harness exits (the user leaves it, or it crashes), and its tmux session
\* and clients with it.
HarnessExits ==
    /\ pane # None
    /\ PaneEnds
    /\ ended' = ended \union Watching
    /\ UNCHANGED <<handles, sockets, turning>>

Attaching(t) == \/ AttachToLive(t) \/ AttachToCold(t) \/ AttachFetched(t)
                \/ PumpCloses(t) \/ ClosedByServer(t) \/ ClosedByBrowser(t)

Rotating(r) == \/ GatewayRotates(r) \/ RotateRequest(r) \/ RotateRespawn(r)
               \/ RotateNothing(r) \/ RotateReturns(r)

Next == \/ \E t \in Tiles : Attaching(t) \/ ReaderSeesEof(t)
        \/ \E r \in Rotations : Rotating(r)
        \/ CloseTerminal \/ Reap \/ HarnessExits

Spec == Init /\ [][Next]_vars

\* The loop runs what is ready: readers, pumps and the ends of coroutines.
Fairness == \A t \in Tiles : /\ WF_vars(ReaderSeesEof(t))
                             /\ WF_vars(PumpCloses(t) \/ ClosedByServer(t))

FairSpec == Spec /\ Fairness

-----------------------------------------------------------------------------
\* A live terminal can be reached: its session has a handle, by which it can
\* be rotated and killed (lines 1003-1008). The one exception is a pane whose
\* kill tmux refused: it has none until a tile attaches again.
LiveTerminalReachable == pane # None => reg # None \/ unkilled

\* "End a session's terminal for good" (line 1003): what has been torn down
\* is gone, whatever tmux answers. Not kept: see KillFails.
TornDownIsGone == pane # None => reg # None

\* A tmux client is always the one its session's handle holds: none is left
\* attached to the pane with nobody to end it (lines 983-999).
NoOrphanClient == \A c \in clients : reg # None /\ client[reg] = c

\* Whatever is spawned, displaced, torn down, reaped and rotated, and in any
\* order, _ptys accounts for all of tmux: the pane and its clients.
RegistryHolds == LiveTerminalReachable /\ NoOrphanClient

\* One conversation, one keyboard: an open socket types into the client
\* spawned for it, or into none (lines 1272-1275, 1332-1334).
OneKeyboard == \A t \in Tiles : Open(t) => TypesInto(t) \in {t, None}

\* A tile that does not have the keyboard has been told so: the reason is on
\* its queue from the moment another tile's client takes the handle over.
DisplacedIsTold ==
    \A t \in Tiles : tile[t] = "attached" /\ inbox[t] = <<>> =>
        /\ mine[t] = reg /\ queue[reg] = t /\ client[reg] = t

\* A tile is told that its terminal exited only when it did, or was torn down:
\* being replaced or detached never looks like it (lines 1272-1275, 1448-1451).
ExitIsReal == \A t \in Tiles : told[t] = "exited" => t \in ended

\* handle.queue answers "is anyone looking at this": it is set only while the
\* socket it belongs to is open (lines 1144-1147).
WatchedIsOpen == \A h \in Tiles : queue[h] # None => Open(queue[h]) /\ mine[queue[h]] = h

\* What a tile is told and what it holds agree: it has the keyboard or a reason
\* on its queue, an exit it is told of is one, and a queue has an open socket.
TilesAreTold == DisplacedIsTold /\ ExitIsReal /\ WatchedIsOpen

\* The handle names the conversation its pane is on, so that the voice sweep
\* publishes "each terminal's prose" (lines 1101-1118, 2216-2222), but while a
\* rotation is about to return. Not kept: a tile that comes before the reaper
\* starts the pane on its conversation under the handle of the one before.
HandleFollowsPane ==
    reg # None /\ pane # None /\ ~unkilled /\ (\A r \in Rotations : rotation[r] # "respawned")
        => sid[reg] = pane

\* A tile whose client is gone is closed: no socket stays open on a terminal
\* that will never paint it again.
NoDeadTile == \A t \in Tiles : tile[t] = "attached" /\ t \notin clients ~> tile[t] = "closed"

=============================================================================
