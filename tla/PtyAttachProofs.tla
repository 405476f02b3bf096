--------------------------- MODULE PtyAttachProofs ---------------------------
(***************************************************************************)
(* Theorems about PtyAttach, for any set of tiles and rotations.           *)
(***************************************************************************)
EXTENDS PtyAttach, TLAPS

\* Putting a sentinel on the queue of a handle, or on no queue.
LEMMA SignalType ==
    ASSUME TypeOK, NEW h \in Tiles, NEW s \in {"exited", "evicted"}, Signal(h, s)
    PROVE  inbox' \in [Tiles -> Seq({"exited", "evicted"})]
<1>1. CASE queue[h] = None
  BY <1>1 DEF Signal, TypeOK
<1>2. CASE queue[h] # None
  <2>1. queue[h] \in Tiles
    BY <1>2 DEF TypeOK
  <2>2. Append(inbox[queue[h]], s) \in Seq({"exited", "evicted"})
    BY <2>1 DEF TypeOK
  <2> QED  BY <1>2, <2>1, <2>2 DEF Signal, TypeOK
<1> QED  BY <1>1, <1>2

LEMMA TypeSpawn ==
    ASSUME TypeOK, NEW t \in Tiles, NEW h \in Tiles,
           NEW c \in Conversations \union {None}, SpawnPty(t, h, c)
    PROVE  /\ queue' \in [Tiles -> Tiles \union {None}]
           /\ client' \in [Tiles -> Tiles \union {None}]
           /\ reader' \in [Tiles -> BOOLEAN]
           /\ tile' \in [Tiles -> {"new", "fetching", "attached", "closing", "closed"}]
           /\ mine' \in [Tiles -> Tiles \union {None}]
           /\ told' \in [Tiles -> {"nothing", "exited", "evicted", "failed", "left"}]
           /\ pane' \in Conversations \union {None}
           /\ clients' \in SUBSET Tiles
<1>1. CASE SpawnClient(t, h, c)
  BY <1>1 DEF SpawnClient, Started, TypeOK
<1>2. CASE SpawnFails(t, h, c)
  <2>1. pane' \in Conversations \union {None} /\ clients' \in SUBSET Tiles
    BY <1>2 DEF SpawnFails, Started, Detached, TypeOK
  <2>2. UNCHANGED <<queue, mine>>
        /\ tile' = [tile EXCEPT ![t] = "closed"] /\ told' = [told EXCEPT ![t] = "failed"]
    BY <1>2 DEF SpawnFails
  <2>3. DetachClient(h)
    BY <1>2 DEF SpawnFails
  <2> QED  BY <2>1, <2>2, <2>3 DEF DetachClient, TypeOK
<1> QED  BY <1>1, <1>2 DEF SpawnPty

LEMMA TypeOpen ==
    ASSUME TypeOK, NEW t \in Tiles, NEW c \in Conversations \union {None}, OpenSession(t, c),
           asked' \in [Tiles -> Conversations \union {None}]
    PROVE  TypeOK'
<1>1. PICK h \in Tiles : SpawnPty(t, h, c)
  BY DEF OpenSession, TypeOK
<1>2. inbox' \in [Tiles -> Seq({"exited", "evicted"})]
  <2>1. CASE reg = None  BY <2>1 DEF OpenSession, TypeOK
  <2>2. CASE reg # None
    <3>1. reg \in Tiles /\ Signal(reg, "evicted")
      BY <2>2 DEF OpenSession, TypeOK
    <3> QED  BY <3>1, SignalType
  <2> QED  BY <2>1, <2>2
<1>3. reg' \in Tiles \union {None} /\ sid' \in [Tiles -> Conversations \union {None}]
  BY DEF OpenSession, TypeOK
<1>4. UNCHANGED <<current, rotation, rotating, ended, unkilled>>
  BY DEF OpenSession, turning, history
<1>5. current \in Conversations /\ ended \in SUBSET Tiles /\ unkilled \in BOOLEAN
      /\ rotation \in [Rotations -> {"new", "asked", "respawning", "respawned", "done"}]
      /\ rotating \in [Rotations -> Tiles \union {None}]
  BY DEF TypeOK
<1> QED  BY <1>1, <1>2, <1>3, <1>4, <1>5, TypeSpawn DEF TypeOK

LEMMA TypeStep == TypeOK /\ [Next]_vars => TypeOK'
<1> SUFFICES ASSUME TypeOK, [Next]_vars PROVE TypeOK'
  OBVIOUS
<1>1. ASSUME NEW t \in Tiles, Attaching(t) \/ ReaderSeesEof(t) PROVE TypeOK'
  <2>1. CASE AttachToLive(t)
    <3>1. asked' \in [Tiles -> Conversations \union {None}] /\ current \in Conversations
      BY <2>1 DEF AttachToLive, TypeOK
    <3> QED  BY <2>1, <3>1, TypeOpen DEF AttachToLive
  <2>2. CASE AttachToCold(t)
    BY <2>2 DEF AttachToCold, TypeOK, handles, tmux, turning, history
  <2>3. CASE AttachFetched(t)
    <3>1. asked' \in [Tiles -> Conversations \union {None}]
      BY <2>3 DEF AttachFetched, TypeOK
    <3>2. asked[t] \in Conversations \union {None} /\ OpenSession(t, asked[t])
      BY <2>3 DEF AttachFetched, TypeOK
    <3> QED  BY <3>1, <3>2, TypeOpen
  <2>4. CASE PumpCloses(t)
    <3>1. Head(inbox[t]) \in {"exited", "evicted"}
      BY <2>4 DEF PumpCloses, TypeOK
    <3> QED  BY <2>4, <3>1 DEF PumpCloses, TypeOK, handles, tmux, turning, history
  <2>5. CASE ClosedByServer(t)
    BY <2>5 DEF ClosedByServer, LeaveHandle, Detached, DetachClient, TypeOK, turning, history
  <2>6. CASE ClosedByBrowser(t)
    BY <2>6 DEF ClosedByBrowser, LeaveHandle, Detached, DetachClient, TypeOK, turning, history
  <2>7. CASE ReaderSeesEof(t)
    <3>1. inbox' \in [Tiles -> Seq({"exited", "evicted"})]
      BY <2>7, SignalType DEF ReaderSeesEof
    <3> QED  BY <2>7, <3>1 DEF ReaderSeesEof, TypeOK, tmux, turning, history
  <2> QED  BY <1>1, <2>1, <2>2, <2>3, <2>4, <2>5, <2>6, <2>7 DEF Attaching
<1>2. ASSUME NEW r \in Rotations, Rotating(r) PROVE TypeOK'
  <2> USE DEF TypeOK, Conversations, handles, sockets, tmux, history
  <2>1. CASE GatewayRotates(r)  BY <2>1 DEF GatewayRotates
  <2>2. CASE RotateRequest(r)  BY <2>2 DEF RotateRequest
  <2>3. CASE RotateRespawn(r)  BY <2>3 DEF RotateRespawn
  <2>4. CASE RotateNothing(r)  BY <2>4 DEF RotateNothing
  <2>5. CASE RotateReturns(r)  BY <2>5 DEF RotateReturns
  <2> QED  BY <1>2, <2>1, <2>2, <2>3, <2>4, <2>5 DEF Rotating
<1>3. CASE TeardownPty
  <2>1. inbox' \in [Tiles -> Seq({"exited", "evicted"})]
    BY <1>3, SignalType DEF TeardownPty, TypeOK
  <2>2. pane' \in Conversations \union {None} /\ clients' \in SUBSET Tiles /\ unkilled' \in BOOLEAN
    BY <1>3 DEF TeardownPty, PaneEnds, KillFails, Detached, TypeOK
  <2> QED  BY <1>3, <2>1, <2>2 DEF TeardownPty, DetachClient, Watching, TypeOK, turning
<1>4. CASE HarnessExits
  BY <1>4 DEF HarnessExits, PaneEnds, Watching, TypeOK, handles, sockets, turning
<1>5. CASE UNCHANGED vars
  BY <1>5 DEF vars, TypeOK, handles, sockets, tmux, turning, history
<1> QED  BY <1>1, <1>2, <1>3, <1>4, <1>5 DEF Next, CloseTerminal, Reap

\* The state stays in its types.
THEOREM TypeCorrect == Spec => []TypeOK
<1>1. Init => TypeOK
  <2> SUFFICES ASSUME Init PROVE TypeOK
    OBVIOUS
  <2>1. inbox \in [Tiles -> Seq({"exited", "evicted"})]
    BY DEF Init
  <2> QED  BY <2>1 DEF Init, TypeOK, Conversations
<1> QED  BY <1>1, TypeStep, PTL DEF Spec

-----------------------------------------------------------------------------
(* The invariant.  A handle's queue, client, reader and holder change at   *)
(* different places; these say how they stay in step.                      *)

\* An open socket holds a handle, and while it has been told nothing it is
\* the one that the registered handle serves.
HoldsHandle == \A t \in Tiles : Open(t) => mine[t] \in Tiles
Serves == \A t \in Tiles : tile[t] = "attached" /\ inbox[t] = <<>> =>
            mine[t] = reg /\ queue[reg] = t /\ client[reg] = t

\* Only the registered handle has a client, and its reader watches that
\* client for the socket the handle serves.
OnlyRegistered == \A h \in Tiles : client[h] # None => h = reg
ReaderServes == \A h \in Tiles : reader[h] => client[h] \in Tiles /\ queue[h] = client[h]

\* A watched client that is gone, and an exit on a queue, follow from an end.
EofIsEnd == \A h \in Tiles : reader[h] /\ client[h] \notin clients => client[h] \in ended
ExitQueued == \A t \in Tiles : \A i \in 1 .. Len(inbox[t]) : inbox[t][i] = "exited" => t \in ended

Inv == /\ LiveTerminalReachable /\ NoOrphanClient /\ WatchedIsOpen
       /\ HoldsHandle /\ Serves /\ OnlyRegistered /\ ReaderServes /\ EofIsEnd
       /\ ExitQueued /\ ExitIsReal

\* A sentinel reaches the socket the handle serves and no other.
LEMMA SignalAdds ==
    ASSUME TypeOK, NEW h \in Tiles, NEW s \in {"exited", "evicted"}, Signal(h, s), NEW u \in Tiles
    PROVE  /\ u # queue[h] => inbox'[u] = inbox[u]
           /\ u = queue[h] => inbox'[u] = Append(inbox[u], s) /\ inbox'[u] # <<>>
<1>1. queue[h] \in Tiles \union {None} /\ None \notin Tiles /\ inbox \in [Tiles -> Seq({"exited", "evicted"})]
  BY PtyAssumption DEF TypeOK
<1>2. CASE u # queue[h]  BY <1>1, <1>2 DEF Signal
<1>3. CASE u = queue[h]
  <2>1. inbox'[u] = Append(inbox[u], s) /\ inbox[u] \in Seq({"exited", "evicted"})
    BY <1>1, <1>3 DEF Signal
  <2>2. Append(inbox[u], s) # <<>>
    BY <2>1
  <2> QED  BY <1>3, <2>1, <2>2
<1> QED  BY <1>2, <1>3

\* An exit may be announced to a socket the terminal ended under.
LEMMA SignalKeeps ==
    ASSUME TypeOK, ExitQueued, NEW h \in Tiles, NEW s \in {"exited", "evicted"}, Signal(h, s),
           ended \subseteq ended', s = "exited" /\ queue[h] # None => queue[h] \in ended'
    PROVE  ExitQueued'
<1> SUFFICES ASSUME NEW u \in Tiles, NEW i \in 1 .. Len(inbox'[u]), inbox'[u][i] = "exited"
             PROVE  u \in ended'
  BY DEF ExitQueued
<1>1. CASE u # queue[h]
  BY <1>1, SignalAdds DEF ExitQueued
<1>2. CASE u = queue[h]
  <2>1. inbox[u] \in Seq({"exited", "evicted"}) /\ inbox'[u] = Append(inbox[u], s)
    BY <1>2, SignalAdds DEF TypeOK
  <2>2. CASE i = Len(inbox[u]) + 1
    BY <1>2, <2>1, <2>2, PtyAssumption
  <2>3. CASE i \in 1 .. Len(inbox[u])
    BY <2>1, <2>3 DEF ExitQueued
  <2> QED  BY <2>1, <2>2, <2>3
<1> QED  BY <1>1, <1>2

\* Taking the terminal over, or failing to.
LEMMA OpenKeeps ==
    ASSUME TypeOK, Inv, NEW t \in Tiles, NEW c, OpenSession(t, c), ~Open(t)
    PROVE  Inv'
<1> USE PtyAssumption DEF Open
<1>1. PICK h \in Tiles : /\ SpawnPty(t, h, c) /\ reg' = h
                         /\ reg # None => h = reg /\ Signal(h, "evicted")
                         /\ reg = None => UNCHANGED inbox
  BY DEF OpenSession, TypeOK
<1>2. ended' = ended /\ unkilled' = unkilled
  BY DEF OpenSession, history
<1>3. ExitQueued'
  <2>1. CASE reg = None  BY <1>1, <1>2, <2>1 DEF Inv, ExitQueued
  <2>2. CASE reg # None  BY <1>1, <1>2, <2>2, SignalKeeps DEF Inv
  <2> QED  BY <2>1, <2>2
<1>4. \A u \in Tiles : inbox'[u] = <<>> => inbox[u] = <<>> /\ (reg # None => u # queue[h])
  <2>1. CASE reg = None  BY <1>1, <2>1
  <2>2. CASE reg # None  BY <1>1, <2>2, SignalAdds
  <2> QED  BY <2>1, <2>2
<1>5. \A u \in Tiles : u # t /\ tile[u] = "attached" => inbox'[u] # <<>>
  BY <1>1, <1>4 DEF Inv, Serves, HoldsHandle, TypeOK
<1>6. \A g \in Tiles : g # h => client[g] = None /\ ~reader[g]
  BY <1>1 DEF Inv, OnlyRegistered, ReaderServes, TypeOK
<1>7. CASE SpawnClient(t, h, c)
  <2> USE <1>7 DEF SpawnClient
  <2>1. LiveTerminalReachable' /\ NoOrphanClient'
    BY <1>1 DEF LiveTerminalReachable, NoOrphanClient, TypeOK
  <2>2. WatchedIsOpen' /\ HoldsHandle'
    BY DEF Inv, WatchedIsOpen, HoldsHandle, TypeOK
  <2>3. Serves'
    BY <1>1, <1>5 DEF Serves, TypeOK
  <2>4. OnlyRegistered' /\ ReaderServes' /\ EofIsEnd'
    BY <1>1, <1>6 DEF OnlyRegistered, ReaderServes, EofIsEnd, TypeOK
  <2>5. ExitIsReal'
    BY <1>2 DEF Inv, ExitIsReal
  <2> QED  BY <1>3, <2>1, <2>2, <2>3, <2>4, <2>5 DEF Inv
<1>8. CASE SpawnFails(t, h, c)
  <2> USE <1>8 DEF SpawnFails, DetachClient
  <2>1. LiveTerminalReachable' /\ NoOrphanClient'
    BY <1>1, <1>6 DEF Inv, LiveTerminalReachable, NoOrphanClient, Detached, TypeOK
  <2>2. WatchedIsOpen' /\ HoldsHandle'
    BY DEF Inv, WatchedIsOpen, HoldsHandle, TypeOK
  <2>3. Serves'
    BY <1>1, <1>5 DEF Serves, TypeOK
  <2>4. OnlyRegistered' /\ ReaderServes' /\ EofIsEnd'
    BY <1>1, <1>6 DEF OnlyRegistered, ReaderServes, EofIsEnd, TypeOK
  <2>5. ExitIsReal'
    BY <1>2 DEF Inv, ExitIsReal, TypeOK
  <2> QED  BY <1>3, <2>1, <2>2, <2>3, <2>4, <2>5 DEF Inv
<1> QED  BY <1>1, <1>7, <1>8 DEF SpawnPty

\* The end of a socket's coroutine, told s or closed by the browser.
LEMMA LeaveKeeps ==
    ASSUME TypeOK, Inv, NEW t \in Tiles, Open(t), LeaveHandle(t),
           tile' = [tile EXCEPT ![t] = "closed"],
           \A u \in Tiles : told'[u] = "exited" => told[u] = "exited",
           UNCHANGED <<reg, mine, inbox, pane, ended, unkilled>>
    PROVE  Inv'
<1> USE PtyAssumption DEF Open
<1>1. mine[t] \in Tiles
  BY DEF Inv, HoldsHandle
<1>2. LiveTerminalReachable' /\ HoldsHandle' /\ ExitQueued' /\ ExitIsReal'
  BY DEF Inv, LiveTerminalReachable, HoldsHandle, ExitQueued, ExitIsReal, TypeOK
<1>3. CASE queue[mine[t]] = t
  <2> DEFINE h == mine[t]
  <2>1. h \in Tiles /\ queue[h] = t
    BY <1>1, <1>3
  <2>2. queue'[h] = None /\ client'[h] = None /\ reader'[h] = FALSE /\ clients' = clients \ {client[h]}
    BY <1>1, <1>3 DEF LeaveHandle, DetachClient, Detached, TypeOK
  <2>3. \A g \in Tiles : g # h => queue'[g] = queue[g] /\ client'[g] = client[g] /\ reader'[g] = reader[g]
    BY <1>1, <1>3 DEF LeaveHandle, DetachClient, TypeOK
  <2>4. \A u \in Tiles : u # t => tile'[u] = tile[u]
    BY DEF TypeOK
  <2>5. tile'[t] = "closed"
    BY DEF TypeOK
  <2> HIDE DEF h
  <2>6. NoOrphanClient'
    <3>1. CASE h = reg  BY <2>2, <3>1 DEF Inv, NoOrphanClient, TypeOK
    <3>2. CASE h # reg  BY <2>2, <2>3, <3>2 DEF Inv, NoOrphanClient, TypeOK
    <3> QED  BY <3>1, <3>2
  <2>7. WatchedIsOpen'
    <3>1. \A g \in Tiles : g # h => queue[g] # t
      BY DEF Inv, WatchedIsOpen, h
    <3> SUFFICES ASSUME NEW g \in Tiles, queue'[g] # None
                 PROVE  tile'[queue'[g]] \in {"attached", "closing"} /\ mine'[queue'[g]] = g
      BY DEF WatchedIsOpen
    <3>2. g # h /\ queue'[g] = queue[g] /\ queue[g] \in Tiles /\ queue[g] # t
      BY <2>2, <2>3, <3>1 DEF TypeOK
    <3>3. tile[queue[g]] \in {"attached", "closing"} /\ mine[queue[g]] = g
      BY <3>2 DEF Inv, WatchedIsOpen
    <3> QED  BY <2>4, <3>2, <3>3
  <2>8. Serves'
    <3> SUFFICES ASSUME NEW u \in Tiles, tile'[u] = "attached", inbox[u] = <<>>
                 PROVE  mine[u] = reg /\ queue'[reg] = u /\ client'[reg] = u
      BY DEF Serves
    <3>1. u # t /\ tile[u] = "attached"
      BY <2>4, <2>5
    <3>2. mine[u] = reg /\ reg \in Tiles /\ queue[reg] = u /\ client[reg] = u
      BY <3>1 DEF Inv, Serves, HoldsHandle
    <3> QED  BY <2>1, <2>3, <3>1, <3>2
  <2>9. OnlyRegistered' /\ ReaderServes'
    BY <2>2, <2>3 DEF Inv, OnlyRegistered, ReaderServes, TypeOK
  <2>10. EofIsEnd'
    <3> SUFFICES ASSUME NEW g \in Tiles, reader'[g], client'[g] \notin clients'
                 PROVE  client'[g] \in ended
      BY DEF EofIsEnd
    <3>1. g # h /\ client'[g] = client[g] /\ reader[g]
      BY <2>2, <2>3
    <3>2. client[g] \in Tiles /\ g = reg
      BY <3>1 DEF Inv, OnlyRegistered, ReaderServes
    <3>3. client[h] = None
      BY <2>1, <3>1, <3>2 DEF Inv, OnlyRegistered
    <3> QED  BY <2>2, <3>1, <3>2, <3>3 DEF Inv, EofIsEnd
  <2> QED  BY <1>2, <2>6, <2>7, <2>8, <2>9, <2>10 DEF Inv
<1>4. CASE queue[mine[t]] # t
  <2> USE <1>1, <1>4 DEF LeaveHandle
  <2>1. WatchedIsOpen'
    BY DEF Inv, WatchedIsOpen, TypeOK
  <2>2. NoOrphanClient' /\ Serves' /\ OnlyRegistered' /\ ReaderServes' /\ EofIsEnd'
    BY DEF Inv, NoOrphanClient, Serves, OnlyRegistered, ReaderServes, EofIsEnd, TypeOK
  <2> QED  BY <1>2, <2>1, <2>2 DEF Inv
<1> QED  BY <1>3, <1>4

\* Every step keeps the invariant.
LEMMA InvStep == TypeOK /\ Inv /\ [Next]_vars => Inv'
<1> SUFFICES ASSUME TypeOK, Inv, [Next]_vars PROVE Inv'
  OBVIOUS
<1> USE PtyAssumption
<1>1. ASSUME NEW t \in Tiles, Attaching(t) \/ ReaderSeesEof(t) PROVE Inv'
  <2>1. CASE AttachToLive(t)
    <3>1. ~Open(t) /\ OpenSession(t, current)
      BY <2>1 DEF AttachToLive, Open
    <3> QED  BY <3>1, OpenKeeps
  <2>2. CASE AttachToCold(t)
    <3>1. \A u \in Tiles : Open(u)' <=> Open(u)
      BY <2>2 DEF AttachToCold, Open, TypeOK
    <3>2. UNCHANGED <<handles, mine, inbox, told, tmux, ended, unkilled>>
      BY <2>2 DEF AttachToCold, history
    <3>3. Serves'
      BY <2>2, <3>2 DEF AttachToCold, Inv, Serves, TypeOK, handles
    <3>4. WatchedIsOpen' /\ HoldsHandle'
      BY <3>1, <3>2 DEF Inv, WatchedIsOpen, HoldsHandle, TypeOK, handles
    <3> QED
      BY <3>2, <3>3, <3>4
      DEF Inv, LiveTerminalReachable, NoOrphanClient, OnlyRegistered, ReaderServes, EofIsEnd,
          ExitQueued, ExitIsReal, handles, tmux
  <2>3. CASE AttachFetched(t)
    <3>1. ~Open(t) /\ OpenSession(t, asked[t])
      BY <2>3 DEF AttachFetched, Open
    <3> QED  BY <3>1, OpenKeeps
  <2>4. CASE PumpCloses(t)
    <3>1. \A u \in Tiles : Open(u)' <=> Open(u)
      BY <2>4 DEF PumpCloses, Open, TypeOK
    <3>2. UNCHANGED <<handles, mine, inbox, tmux, ended, unkilled>>
      BY <2>4 DEF PumpCloses, history
    <3>3. Serves'
      BY <2>4, <3>2 DEF PumpCloses, Inv, Serves, TypeOK, handles
    <3>4. WatchedIsOpen' /\ HoldsHandle'
      BY <3>1, <3>2 DEF Inv, WatchedIsOpen, HoldsHandle, TypeOK, handles
    <3>5. ExitIsReal'
      <4>1. inbox[t] \in Seq({"exited", "evicted"}) /\ inbox[t] # <<>>
        BY <2>4 DEF PumpCloses, TypeOK
      <4>2. 1 \in 1 .. Len(inbox[t]) /\ Head(inbox[t]) = inbox[t][1]
        BY <4>1
      <4> QED  BY <2>4, <3>2, <4>2 DEF PumpCloses, Inv, ExitQueued, ExitIsReal, TypeOK
    <3> QED
      BY <3>2, <3>3, <3>4, <3>5
      DEF Inv, LiveTerminalReachable, NoOrphanClient, OnlyRegistered, ReaderServes, EofIsEnd,
          ExitQueued, handles, tmux
  <2>5. CASE ClosedByServer(t)
    BY <2>5, LeaveKeeps DEF ClosedByServer, Open, history
  <2>6. CASE ClosedByBrowser(t)
    <3>1. \A u \in Tiles : told'[u] = "exited" => told[u] = "exited"
      BY <2>6 DEF ClosedByBrowser, TypeOK
    <3> QED  BY <2>6, <3>1, LeaveKeeps DEF ClosedByBrowser, Open, history
  <2>7. CASE ReaderSeesEof(t)
    <3>1. /\ reader[t] /\ client[t] \notin clients /\ Signal(t, "exited")
          /\ reader' = [reader EXCEPT ![t] = FALSE]
          /\ UNCHANGED <<reg, queue, client, tile, mine, told, pane, clients, ended, unkilled>>
      BY <2>7 DEF ReaderSeesEof, tmux, history
    <3>2. queue[t] \in ended
      BY <3>1 DEF Inv, ReaderServes, EofIsEnd
    <3>3. ExitQueued'
      BY <3>1, <3>2, SignalKeeps DEF Inv
    <3>4. Serves'
      <4>1. \A u \in Tiles : inbox'[u] = <<>> => inbox[u] = <<>>
        BY <3>1, SignalAdds
      <4> QED  BY <3>1, <4>1 DEF Inv, Serves
    <3>5. WatchedIsOpen' /\ HoldsHandle'
      BY <3>1 DEF Inv, WatchedIsOpen, HoldsHandle, Open
    <3>6. ReaderServes' /\ EofIsEnd'
      BY <3>1 DEF Inv, ReaderServes, EofIsEnd, TypeOK
    <3> QED
      BY <3>1, <3>3, <3>4, <3>5, <3>6
      DEF Inv, LiveTerminalReachable, NoOrphanClient, OnlyRegistered, ExitIsReal
  <2> QED  BY <1>1, <2>1, <2>2, <2>3, <2>4, <2>5, <2>6, <2>7 DEF Attaching
<1>2. ASSUME NEW r \in Rotations, Rotating(r) PROVE Inv'
  <2>1. /\ UNCHANGED <<reg, queue, client, reader, tile, mine, inbox, told, clients, ended, unkilled>>
        /\ pane = None => pane' = None
    BY <1>2
    DEF Rotating, GatewayRotates, RotateRequest, RotateRespawn, RotateNothing, RotateReturns,
        handles, sockets, tmux, history
  <2> QED
    BY <2>1
    DEF Inv, LiveTerminalReachable, NoOrphanClient, WatchedIsOpen, HoldsHandle, Serves, Open,
        OnlyRegistered, ReaderServes, EofIsEnd, ExitQueued, ExitIsReal
<1>3. CASE TeardownPty
  <2>1. /\ reg \in Tiles /\ reg' = None /\ Signal(reg, "exited") /\ (PaneEnds \/ KillFails)
        /\ client' = [client EXCEPT ![reg] = None] /\ reader' = [reader EXCEPT ![reg] = FALSE]
        /\ ended' = ended \union Watching /\ UNCHANGED <<queue, tile, mine, told>>
    BY <1>3 DEF TeardownPty, DetachClient, TypeOK
  <2>2. clients' = {} /\ (pane' # None => unkilled')
    <3>1. CASE PaneEnds  BY <3>1 DEF PaneEnds
    <3>2. CASE KillFails  BY <3>2 DEF KillFails, Detached, Inv, NoOrphanClient, TypeOK
    <3> QED  BY <2>1, <3>1, <3>2
  <2>3. queue[reg] # None => queue[reg] \in ended'
    BY <2>1 DEF Inv, WatchedIsOpen, Watching, TypeOK
  <2>4. ExitQueued'
    BY <2>1, <2>3, SignalKeeps DEF Inv
  <2>5. Serves'
    <3> SUFFICES ASSUME NEW u \in Tiles, tile[u] = "attached" PROVE inbox'[u] # <<>>
      BY <2>1 DEF Serves
    <3>1. CASE u = queue[reg]  BY <2>1, <3>1, SignalAdds
    <3>2. CASE u # queue[reg]
      BY <2>1, <3>2, SignalAdds DEF Inv, Serves
    <3> QED  BY <3>1, <3>2
  <2>6. WatchedIsOpen' /\ HoldsHandle'
    BY <2>1 DEF Inv, WatchedIsOpen, HoldsHandle, Open
  <2>7. OnlyRegistered' /\ ReaderServes' /\ EofIsEnd'
    BY <2>1, <2>2 DEF Inv, OnlyRegistered, ReaderServes, EofIsEnd, TypeOK
  <2>8. LiveTerminalReachable' /\ NoOrphanClient' /\ ExitIsReal'
    BY <2>1, <2>2 DEF Inv, LiveTerminalReachable, NoOrphanClient, ExitIsReal
  <2> QED  BY <2>4, <2>5, <2>6, <2>7, <2>8 DEF Inv
<1>4. CASE HarnessExits
  <2>1. /\ pane' = None /\ clients' = {} /\ ended' = ended \union Watching
        /\ UNCHANGED <<reg, queue, client, reader, tile, mine, inbox, told>>
    BY <1>4 DEF HarnessExits, PaneEnds, handles, sockets
  <2>2. EofIsEnd'
    <3> SUFFICES ASSUME NEW h \in Tiles, reader[h] PROVE client[h] \in ended'
      BY <2>1 DEF EofIsEnd
    <3>1. client[h] \in Tiles /\ queue[h] = client[h]
      BY DEF Inv, ReaderServes
    <3>2. Open(client[h])
      BY <3>1 DEF Inv, WatchedIsOpen
    <3> QED  BY <2>1, <3>1, <3>2 DEF Watching
  <2> QED
    BY <2>1, <2>2
    DEF Inv, LiveTerminalReachable, NoOrphanClient, WatchedIsOpen, HoldsHandle, Serves, Open,
        OnlyRegistered, ReaderServes, ExitQueued, ExitIsReal
<1>5. CASE UNCHANGED vars
  BY <1>5
  DEF vars, Inv, LiveTerminalReachable, NoOrphanClient, WatchedIsOpen, HoldsHandle, Serves, Open,
      OnlyRegistered, ReaderServes, EofIsEnd, ExitQueued, ExitIsReal, handles, sockets, tmux, history
<1> QED  BY <1>1, <1>2, <1>3, <1>4, <1>5 DEF Next, CloseTerminal, Reap

LEMMA InvAlways == Spec => [](TypeOK /\ Inv)
<1>1. Init => Inv
  BY PtyAssumption
  DEF Init, Inv, LiveTerminalReachable, NoOrphanClient, WatchedIsOpen, HoldsHandle, Serves, Open,
      OnlyRegistered, ReaderServes, EofIsEnd, ExitQueued, ExitIsReal
<1> QED  BY <1>1, InvStep, TypeCorrect, PTL DEF Spec

\* Every live terminal has a registered handle, by which it can be rotated
\* and killed, but one whose kill tmux refused.
THEOREM ReachableCorrect == Spec => []LiveTerminalReachable
<1>1. Inv => LiveTerminalReachable
  BY DEF Inv
<1> QED  BY <1>1, InvAlways, PTL

\* No tmux client is left attached without the handle that ends it.
THEOREM ClientCorrect == Spec => []NoOrphanClient
<1>1. Inv => NoOrphanClient
  BY DEF Inv
<1> QED  BY <1>1, InvAlways, PTL

\* _ptys accounts for the pane and for every client of it.
THEOREM RegistryCorrect == Spec => []RegistryHolds
<1>1. LiveTerminalReachable /\ NoOrphanClient => RegistryHolds
  BY DEF RegistryHolds
<1> QED  BY <1>1, ReachableCorrect, ClientCorrect, PTL

\* A socket that no longer has the terminal has been told so.
THEOREM DisplacedCorrect == Spec => []DisplacedIsTold
<1>1. Inv => DisplacedIsTold
  BY DEF Inv, Serves, DisplacedIsTold
<1> QED  BY <1>1, InvAlways, PTL

\* A socket is told of an exit only if its terminal ended, or was torn down, under it.
THEOREM ExitCorrect == Spec => []ExitIsReal
<1>1. Inv => ExitIsReal
  BY DEF Inv
<1> QED  BY <1>1, InvAlways, PTL

\* A handle's queue is that of an open socket that holds the handle.
THEOREM WatchedCorrect == Spec => []WatchedIsOpen
<1>1. Inv => WatchedIsOpen
  BY DEF Inv
<1> QED  BY <1>1, InvAlways, PTL

\* What the tiles are told and hold agrees with the terminal.
THEOREM ToldCorrect == Spec => []TilesAreTold
<1> QED  BY DisplacedCorrect, ExitCorrect, WatchedCorrect, PTL DEF TilesAreTold

=============================================================================
