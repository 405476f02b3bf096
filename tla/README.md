# hive-edge-minds in TLA+

hive-edge-minds runs one *mind*: a FastAPI server (`mind_server.py`) that keeps
harness processes (the `claude` or `codex` CLI) for conversations a gateway
(hive-comms, another repository) owns, and the chat bots that bring an
operator's messages to that gateway and its answers back. This directory is a
verification project for that program: TLA+ modules translated from the source,
TLC configurations that check them on small instances, and TLAPS proofs of what
matters most for every instance.

`PROJECT.json` lists, per definition, the lines it models (`map`), every run and
what it checks, every hazard found while reading the code, and the theorems.

## The system: inventory

| component | state it keeps | operations | hard behaviour |
|---|---|---|---|
| stream sessions (`mind_server.py` 1527-2124) | `_sessions`: the process, `in_flight`, `cancel_event`, `stdout_lock`, the drain task | message, interrupt, teardown, idle drain | three coroutines read one pipe; a client may hang up at any await; the harness speaks unasked |
| browser terminal (`mind_server.py` 885-1456, 2164-2226; `claude_cli.py` 388-653) | `_ptys`: a handle per session with its tmux client, queue and reader; the tmux session itself | attach, displace, leave, release, kill, reap, rotate | tiles displace each other across awaits; the reader runs as a callback; rotation awaits a thread |
| proactive delivery (`bots/proactive.py`, `telegram_bot.py` 201-253, 1544-1571, 1686-1737) | a queue ordered by due time, attempts, what is left of a text | deliver, enqueue, consume, retry, shut down | sends fail half way, retries, cancellation mid-send |
| Telegram chat (`bots/bot_utils.py` 111-141, the handlers of `telegram_bot.py`) | a lock and a queue per chat | text, voice, photo, commands, buttons | asked-then-acted checks of the lock, messages arriving during the drain of the queue |
| commands and pickers (`telegram_bot.py` 500-1016, `session_picker.py`, `rename_prompt.py`, `bot_utils.py` 18-110) | claimed buttons, in memory and on disk | draw, tap, claim, suspend, rename, new, switch | a tap delivered again after a restart; what is asked before a call and told after it |
| chunking (`discord_bot.py` 168-216, `telegram_bot.py` 151-173) | none | cut a long answer | lines longer than the limit, code blocks at a cut, characters of two units |
| Discord bot (`discord_bot.py`) | a lock per channel, a voice client per server | message, `/skill`, slash commands, speak, `/join`, `/leave` | channels share one voice client, each across awaits; a playback may time out |
| gateway client (`gateway_client.py`) | none but the state of one stream | HTTP calls, the event stream | lines cut anywhere, a delegate's frames between the mind's, text that comes twice |
| session surfaces (`mind_server.py` 1730-1844, 2080-2160, 2230-2254) | `_sessions`, `_ptys` | create, release, kill, attach | two surfaces of one conversation, opened and ended across awaits |
| registration (`mind_server.py` 169-304) | the back-off delay | register, retry, heartbeat | an unreachable or refusing gateway, a registration that arrives late |
| session token (`runtime_config.py` 196-295) | the token file, a cache | mint, adopt, reclaim | a crash between creating the file and writing it |
| wake word listener (`voice/wake_word*.py`) | the worker's thread, its stop and pause events, the follow-up window, a queue of reports | start, stop, mute, poll, capture, dispatch | two threads and a queue between them: a report is late by up to a poll |
| codex harness (`codex_cli.py`) | a state per session with its thread, `THREADS` and its file, rollouts | spawn, send, kill, open a terminal, watch, rotate | codex mints its own threads and says so late; a turn may be cut off in one |
| terminal voice (`pty_voice.py`) | an offset and a partial line per transcript | sweep, retarget, forget | a file that grows while read, a read that ends inside a character |
| file editor (`mind_files.py`) | files on disk | list, read, save | a save against another writer; a listing that sees only the beginning of a file |
| skills sync (`skills_sync.py`) | installed copies | install, write back, remove | threads that copy, delete and save one skill; a crash half way |
| everything else | little or none | one call each | listed in PROJECT.json with the reason it is left out |

How they interact: the launcher runs the server and the bots on one event loop;
the bots call the gateway, the gateway calls the mind server's routes; the idle
drain of a stream session puts unasked text straight on the proactive queue of
the bot in the same process; the terminal and the stream process of a session
append to the same transcript and never run together unless a caller asks for it.

## Modules

| module | models | extends |
|---|---|---|
| `StreamTurn` | one stream session | |
| `TurnService` | what POST message promises its caller (abstract) | |
| `PtyAttach` | one session's terminal | |
| `SessionSurfaces` | the stream process and the terminal of one conversation | |
| `ProactiveDelivery` | getting texts in front of the operator | |
| `TelegramChat` | one chat's lock and queue | |
| `ChatCommands` | pickers, buttons and commands of one chat | |
| `AnswerStream` | one answer from the gateway's event stream to the chat | |
| `MessageChunks` | cutting a long answer, for Discord and for Telegram | |
| `DiscordChannel` | the channels and the voice client of one server | |
| `WakeListener` | the wake-word window and its worker | |
| `CodexThreads` | one session on the codex harness | |
| `CodexTerminal` | the codex terminals of a mind and the watchers of their threads | |
| `VoiceTailer` | the voice of one terminal: its transcripts as they grow | |
| `MindIdentity` | the session token and its registration with the gateway | |
| `HarnessFiles` | one skill on disk: copies, removals and an editor | |
| `FileText` | when a file is text, for the listing and for the editor | |
| `MCTalk`, `MCParts`, `MCProgress` | parts that share no state, in one configuration each | the modules named below |
| other `MC*` | model values and symmetry for TLC | the module they are named for |
| `*Proofs` | theorems and their proofs (`PartsProofs` of `MCParts`, `ProgressProofs` of `MCProgress`) | the module they are named for |

An action is what a coroutine does between two awaits; that is exactly what
asyncio makes atomic. An await shows as two actions with a program counter value
in between.

### StreamTurn

`registered`, `inFlight`, `cancel` and `locked` are the session's dict; `turn`,
`drain` and `intr` say where each generator, the idle drain and each interrupt is;
`stdin` and `stdout` are the pipes and `waiter` is the future a blocked `readline`
registers with the `StreamReader`, which admits one: a second reader that has to
wait gets a RuntimeError (`Clash`). The harness answers what it is asked in order
and starts turns of its own (`HarnessWakes`). `heard`, `pushed`, `discarded` record
where every line went.

Abstracted: a line is its turn and its kind (text or result); time is a choice (a
readline may time out whenever it waits, the 3-second wait of an interrupt ends
early only when something can really hold a generator up that long, `WaitOver`);
the lock grants any waiter, not the first; a woken reader may run late; cancelling
a task is one step. Each of these allows more than the code does.

`TurnService` is what a caller of POST message may rely on: a message is refused,
or accepted while no other is open, is streamed lines that end with the first
result, and closes. `StreamTurn` is shown to implement it (`ServiceSpec`).

### PtyAttach

`reg` is `_ptys[session_id]`; each handle has the `queue`, `client`, `reader` and
`sid` of the code's `_PtyHandle`; `tile` and `inbox` are the coroutine of a socket
and the queue it pumps from; `pane` is the tmux session and the conversation it is
on, `clients` the tmux clients attached to it. Attaching to a cold terminal is two
steps, because the code awaits the carry-forward in between; a rotation is four. A
teardown pops the handle and then kills the pane (`PaneEnds`) or does not, because tmux
refuses or cannot be run (`KillFails`): `unkilled` remembers such a pane until a tile
attaches or it ends. The answer of tmux to whether a session is there is taken as right.
Not modelled: the bytes, resizing, and a restart of `mind_server`.

### ProactiveDelivery

A text is the number of its chunks not known to be sent (`left`). It is in the
hands of a `_deliver` (`sending`), on the queue and due (`ready`), on the queue and
not due (`delayed`), in the consumer's hands (`hand`), written to the log
(`journal`), or done. A send is taken, or raises; `Ambiguous` names the texts for
which it may do both, as a timeout does. `landed` is the history of what a chat
received, `ahead` what was due when a text was put back.

### TelegramChat

Handlers are messages (text, voice, unknown command), which queue when the lock is
taken, and jobs (photo, `/skill`, `/suspend`, a button), which wait for it. The lock
is asyncio's: released, it stays free until its first waiter runs, and whoever asks
meanwhile goes behind that waiter.

### WakeListener

`ui` is what the window shows, `events` the reports it has not polled, `stop` and
`pause` the two events it sets, `pc` and `wasPaused` where the worker thread is in its
loop and `window` the controller's follow-up window. What the
operator says is an utterance of a kind (`Utterances`): a wake phrase with or
without a command, a cancel phrase, other words. An action of the worker is what it
does between two looks at shared state.

### CodexThreads

A message is a `codex exec` process (`codex`, its unread output `out`, the thread it
is `on`) and the generator that reads it (`turn`, `of` the spawn whose state it
holds). `thread` and `proc` are the entries of the state dicts, `current` the one
registered, `threads` the session's entry in `THREADS`, `rollouts` the threads on
disk. The harness_sid of a request is any thread minted so far, or none: what the
gateway was told may be late or lost. A turn is `"writing"` while its message is on the
way into codex's stdin (`drain()`, before the `try` whose `finally` resets the state), then
`"reading"`, then `"exiting"` while its process is waited for. The terminal is coarse: while
there has been one, any thread may be written to the map.

### CodexTerminal

Codex names a conversation's thread itself, by the rollout it writes when the first turn
begins. `pane` is what each session's tmux runs, `thread` its entry in `THREADS`, `gateway`
what the gateway holds, `watchers` the threads of `_watch_for_new_thread`, each with the
rollouts it began with, and `reports` what they have remembered and not yet told the gateway,
which may be long after, over a rotation, or never. A rotation whose respawn tmux refuses has
forgotten the thread all the same (`RotateRefused`). `era`, `origin`, `mixed` and `refused`
are history: which conversation minted which thread, which sessions had a watcher or a report
of one conversation in another, and which have a pane that was not respawned.

### SessionSurfaces

`entry` and `handle` are the session in `_sessions` and `_ptys`; `live` and `tmux` the
processes behind them, which may outlive or precede their entry. Each `call` of the gateway
is a create, an attach, a release or a kill, cut at its awaits. `OpensFor` and `Closes`
record whether the gateway kept to one call at a time (`crossed`), which is what the routes
rely on and do not enforce. A release or a kill whose tmux fails answers as if it had not,
or raises with the handle gone (`TeardownRaises`); the gateway is taken not to count a call
that raised as done. `left` is a tmux session that a teardown left in one of these ways.

### MindIdentity

`proc` is where each process of the mind is in minting the token, `tokenFile` what is on
disk, `aged` that the window for a writer has passed; `known` is the token the gateway would
present and `late` the registrations given up on that may still arrive. Time is a choice:
the window may pass while its writer is alive (`contested`).

### ChatCommands

`job` is each tap and typed command with what it asked (`was`) and told; `spent` and `disk`
the claims; `status` and `active` are the gateway's. A tap whose handler had not finished
when the bot was restarted may be delivered again, or be lost. The 512 remembered claims are
`MaxSpent`.

### AnswerStream, MessageChunks

`reader` holds `query_stream`'s local variables (`saw_partial_text`, `tail_newlines`, the
block it is in) while frames come in chunks cut anywhere; `said` is what was yielded. A
chunk's text is letters numbered by their place, so that losing, doubling and reordering are
told apart; Discord's goes by lines and fences, which have a text of their own that is sent
again with the fence (`lang`), Telegram's by UTF-16 units. A cut character that makes
`chunk.decode()` raise is one of the ways in which a stream breaks.

### DiscordChannel

`req` is each message or command with its channel and its voice client, `lock` each
channel's lock, `entry` the server's entry in `_voice_clients`, `link` the client Discord has
connected, `audio` whose audio plays and `over` whose player has called back.

### VoiceTailer

A transcript is its size in bytes; a line has four, of which a wide line's middle two are one
character. `tailer` holds `_offset` and `_pending`; a read that ends inside a character
decodes it to a replacement, whose length is counted in another encoding (`Counted`). `heard`
are the lines read, which a sweep hands to two channels: each line of the conversation's own
to the speaker, all of them in one post to the column. `posted` is what reached each, `lost`
what the posts that failed, or had nowhere to go, dropped.

### HarnessFiles, FileText

`tree` is what the files of a skill hold under the repository's root and the harness's;
`op` a copy or removal, which is a step per call to the file system, as it runs in a thread;
`ed` an editor with the text it shows and its revision. `FileText` builds any file byte by
byte and compares the two decisions on it.

## Runs

| run | instance | shows |
|---|---|---|
| `StreamTurn_every` | 2 turns (one client may hang up), 1 interrupt, 1 background turn | flags, lock and the reader's future never outlive their owner (`NothingLeftSet`: `BusyHasTurn`, `LockHasHolder`, `CancelHasInterrupt`, `WaiterIsReading`) |
| `StreamTurn_patient` | 2 turns, 2 background turns, no hangup, no interrupt, fair | one reader inside the lock and a drain that survives (`StdoutIsShared`), an answer is whole, accepted turns end and unasked text arrives (`TurnsAndTextArrive`), refinement of `TurnService` |
| `StreamTurn_hangup_bleeds` | 2 turns, one hangs up | violation of `NoTurnBleed` |
| `PtyAttach_every` | 2 tiles, 2 rotations, fair | a live terminal can be reached, but for one whose kill failed, and no client is orphaned (`RegistryHolds`), who is displaced or told of an exit is so rightly (`TilesAreTold`), no tile stays open on a client that is gone |
| `PtyAttach_kill_refused` | 2 tiles, 1 rotation | violation of `TornDownIsGone` |
| `Talk_every` | each part of `MCTalk` by itself, fair: 4 messages (one whose error reply fails) and 2 jobs; 2 answers (one to a blocked chat), 1 unasked text, 2 chunks, 3 attempts; up to 8 reports between two polls of the listener's window, any utterances | handlers take turns and ask once (`ChatTakesTurns`), queue order kept, what is queued during a message's turn is asked; nothing is lost or held twice, chunks land once and in order, a failing text waits its turn, shutdown loses nothing, everything settles; the window tells the truth (`WindowIsTrue`: a microphone that may record can be stopped, Muted means deaf, the end is shown), only invited words are dispatched, Stop and Mute take effect |
| `TelegramChat_stranded_by_job` | | violation of `QueuedIsAsked` |
| `CodexThreads_every` | 2 messages (one whose output cannot be read), 2 spawns, 2 threads, fair | one live harness process, an unanswered turn is not resumed, a session takes messages again, unless its codex does not read or does not exit |
| `CodexThreads_never_freed` | 2 messages, 1 spawn | violation of `FreedEver` |
| `Parts_every` | each part of `MCParts` by itself: 2 copies and 1 editor; files of up to 7 bytes, 4 of them read by the listing; 3 lines, one of them wide; 4 calls; 2 taps, 1 command, 2 pickers, 1 restart, 1 remembered claim; 4 frames; 4 lines of 0 to 21 letters or fences of 0, 2 or 8 for a limit of 10, 8 characters for a limit of 5 | a skill is whole or not there and can be repaired, an accepted save replaced what its author saw, what is listed as text opens, every line is read once and in order and costs nothing but itself when its post fails, one surface owns a conversation, a picker acts once and every tap is told, what is told is what happened, an answer reads as it was said, chunks keep the text and send nothing again but that of a fence |
| `Progress_every` | each part of `MCProgress` by itself, fair: 2 processes; 2 codex terminals, 3 threads, 3 conversations between them; 3 requests in 2 channels | one token, no process waits for a dead writer, the gateway comes to know the token; a recorded thread is its own conversation's and is recorded; a channel has one turn, nobody waits for an audio that will not play, and a channel is freed though its audio never ends |
| `MessageChunks_fit` | 4 lines | violation of `ChunksFit` |

`MCTalk`, `MCParts` and `MCProgress` compose nothing: a behaviour is one of a single part, chosen at
the start, and the others stay as they begin. The parts have no state in common in the code
either, so nothing is lost by it.

Why the bounds are enough: every queue in the code is unbounded and every guard is
about one other party, so two of each kind show every pair; three turns are there
for the refinement because a refusal, an abandoned turn and its successor can meet.
Two codex threads are the one a turn was cut off in and another to resume instead.
3 attempts are the code's own. One
remembered claim stands for 512: the second drops the first. A rotation
needs a conversation before and one after, and a thread that is neither's (3 threads, 3
conversations between two sessions: one rotated twice, or one rotated and the other's). Two processes meet at every step of the token file, and the third party of a
reclaim is one that died. Two requests meet in a channel, and a third in another reaches
their voice client. Limits of 10 and 5 in place of 2000 and 4096 change no comparison: the
lines considered are empty, short, one shorter and one longer than what is left, and longer
than two chunks; a fence is bare, fits twice in a chunk, or overflows with its newline. 8 reports hold the last of one run of the
listener, the first of the next and a click between two polls. Deadlock is not checked: clients need not ask, and
every request ends.

Fairness: weak fairness on what the event loop runs (each coroutine's own steps,
timers, tmux's readers) and strong fairness on the grant of `stdout_lock`, whose FIFO
queue the model abstracts. In `WakeListener` the worker's steps, the poll and what
`start()` has begun are fair (the recorder it starts, which has no timeout of its own, is
taken to end, `wake_word_app.py` 318); in `CodexThreads` the generators, and nothing of codex:
`FreedAgain` excepts a codex that does not read its stdin and one that does not exit once its
turn is over, for which `send()` waits without a timeout. In
`MindIdentity` the processes run and the window passes, and nothing is assumed of the
gateway; in `CodexTerminal` the watchers poll and nobody has to type; in `DiscordChannel` the
steps of a request that has begun, with the timeouts of a connection, a synthesis and a
playback, while an audio may never end. None on clients, the
operator, interrupts, background turns, crashes, expiry, shutdown or a successful send. The harness is taken to answer what it is asked;
liveness of turns says nothing about a harness that does not.

## Proofs

| module | property | argument |
|---|---|---|
| `StreamTurnProofs` | the four parts of `NothingLeftSet`, `ResultIsLast` | each is inductive together with `TypeOK` |
| | `StdoutIsShared` (no client hangs up and nobody interrupts) | `PatientInv` adds that the lock is held whenever a reader is inside; with `WaiterIsReading` the one inside is the only one who can wait |
| | `OneTurnAtATime` (no interrupts) | `UninterruptedInv` adds that a live turn has `inFlight` set |
| | `AnswerComplete` (no client hangs up and nobody interrupts) | `AnswerInv`: the pipes hold the rest of the one answer under way and nothing else (`Served`: not begun, half said, all said) |
| | `ServiceSpec` (no interrupts) | step by step from the above: every action is a `TurnService` action or a stutter |
| `PtyAttachProofs` | `RegistryHolds`, `TilesAreTold` | one invariant: who holds a handle, serves it and is registered (`HoldsHandle`, `Serves`, `OnlyRegistered`), a reader belongs to its client (`ReaderServes`), an end on a queue means an end (`EofIsEnd`, `ExitQueued`); a kill may fail at every teardown |
| `ProactiveDeliveryProofs` | `NothingLost`, `ShutdownLosesNothing` | `PlaceInv`: an accepted text is in exactly one place, unheard ones in none, the attempts below their limit |
| | `LandedOnce` (no ambiguous sends) | what landed is what is not left |
| | `RetryWaitsItsTurn` | `AheadInv`: what was due when a text failed is before it in the queue |
| `TelegramChatProofs` | `LockHasTurn`, `ChatTakesTurns` | `TurnInv`: the lock is held by the one whose turn it is, waiters wait and wait once; `AskedInv`: what was asked about and what is queued stay apart |
| | `QueuedInOrder` | inductive with `ChatTypeOK`: each way the queue moves keeps the order of places (`OrderKept`) |
| `WakeListenerProofs` | `WindowIsTrue`, `DispatchIsInvited` | `ShownInv`: what the window will show once it has taken the waiting reports (`RunningAfter`, `MutedAfter`), by their places in the queue: `Runs`, `NoOldMute`, `StartsUnmuted`, `Unmutes`, `Ends` |
| `CodexThreadsProofs` | `OneHarness` | `HarnessInv`: a turn under way keeps its session busy, its process is in that session's state and nothing else is, and a turn without its session has no process or escaped the kill |
| | `OwnTurnsAnswered` | `AnsweredInv`: an unanswered turn whose reader is through is on a thread that its state does not hold and that no turn of that state resumes or is on (`NotRejoined`); behind it, what the pipe of a codex may hold (`NothingTaken`, `TakenUnanswered`, `GarbledOnly`) |
| `PartsProofs` | `OpensAsListed` | a character that ends within a prefix is one of the prefix (`CharacterInPrefix`), so what a prefix of a text leaves undecoded is near its end (`UndecodedNearEnd`) |
| | `OneOwner` | `Handover`, while nothing crossed: the owner the gateway takes for live is the only one that runs or is being opened or ended (`NoneOwns`, `StreamOwns`, `TerminalOwns`), and one call at a time ends or spawns (`OneRuns`); a terminal whose kill failed is `left` until it ends or a tile attaches, and no step of a stream process makes it anyone's |
| | `TapsAreSettled` | `ClaimsRemembered`: a list of claims, in memory or on disk, holds the last of them as far back as it is long, but for those that were not written |
| | `ToldWhatHappened` | `AskedIsActive`: what a handler asked is still so when it acts, or it was crossed |
| | `SkillsAreWhole` | `DirsAreWhole` and `CopiesAreWhole`: what is put in place is whole, and where it is not someone is known to be deleting; `RepairInv`: how far a copy that is alone has come at each of its stages |
| | `SaveReplacesWhatItSaw` | `SavesSee`: a console's revision is of the text it shows, and one that was compared is still the file's |
| | `AnswerIsWhole` | `AnswerInv`: what the reader's variables say of the frames read (`ReaderKnows`), and where each word and newline stands in what was yielded (`SaidInOrder`) |
| | `ChunksKeepText` | `ChunksInv`: the chunks sent off hold the letters up to some letter, the current one those after it (`Cut`), and its kept width is its units (`Within`); the fence that opened the block is already shown when it is sent again (`FenceShown`) |
| | `VoiceIsTrue` | `VoiceInv`: what a tailer holds back lies between the lines it has read and its offset (`Reads`), and unless a character broke it is half a line or nothing and those lines are the whole ones (`Follows`); what reached a channel is of them, rising, without what its failed posts lost (`Carries`) |
| `ProgressProofs` | `TokensAgree` | `OneToken`, while nobody contested: what is served is on disk, a process that is to fill the file finds it empty, so that nobody serves then, and it is the only one (`ServedIsOnDisk`, `FilledIsEmpty`, `OneFills`) |
| | `RecordedIsOwn` | `OwnOnly`: what can be resumed, at the mind or at the gateway, what is on its way there and what a watcher may still take is of the session's conversation of now; `MintedFirst` |
| | `SpokenInTurn` | `DiscordInv`: a message holds its channel's lock to its end, one client connects at a time and only where none is linked (`OneConnects`), and what plays has not been called back (`PlayersWait`) |

Each of these modules also proves the type invariants of its components, on which the rest
stands; `PartsProofs` and `ProgressProofs` extend the configurations' own modules, prove a
theorem per part about that part's specification, and at last that `TypeOK` of each
composite holds of its `Spec` (`PartsRun`: a step of the composite is a step
of one part or of none). The bounds of the runs are not hypotheses: the theorems hold for
transcripts, texts, streams and files of any length.

The assumptions of each theorem are the named ASSUME of its module (identifiers of
different kinds are different, sizes are naturals) and the condition in parentheses, which
the theorem states with ASSUME ... PROVE. `AnswerComplete` has its other condition in its
statement: it speaks of turns until the harness starts one of its own.

Where a proof needs an induction on a length (the cuts of one long line, the lines of one
read), it takes the least number for which the claim fails, by the well-foundedness of the
naturals (`NatMin`, `NatMax`). The statements of `ChunksKeepText`, `VoiceIsTrue` and
`QueuedInOrder` say by quantifiers over positions what a filter or a fold would compute:
those are defined by recursion, about which the provers know nothing.

Every invariant and every action property that a passing run checks has a theorem, and so
has the refinement of `TurnService`. Only model-checked: liveness, which is out of the
prover's reach (`TurnsAndTextArrive`, `NoDeadTile`, `Settles`, `HeldQueueIsAsked`,
`ButtonsAreObeyed`, `FreedAgain`, `TokenSettles`, `GatewayLearns`, `TurnIsRecorded`,
`ChannelFrees`), and the violations below.

## Known divergences

Found while modelling. Five are runs (`NoTurnBleed`, `QueuedIsAsked`, `ChunksFit`,
`TornDownIsGone`, `FreedEver`); the others that name a property can be had by adding it to a
configuration of its module (`HandleFollowsPane` and `RecordedEver` fail in the instances of
`PtyAttach_every` and of two terminals with two threads and two conversations each).

* a client that hangs up frees the session while the harness still generates: the
  next client is streamed the old turn (`NoTurnBleed`)
* an interrupt reads stdout without the lock and can end the idle drain for good
  (`DrainSurvives`)
* a displaced tile types into its successor's terminal until its socket is closed
  (`OneKeyboard`)
* a message queued behind a job stays on the queue (`QueuedIsAsked`)
* a background turn that finishes after the flush closes the request with its own
  result (`OwnResultEndsTurn`, one background turn)
* a turn accepted while an interrupt drains stdout starts with `cancel_event` set
  (`TurnsStartClean`, one interrupt)
* a generator cancelled while it waits for the lock releases the lock of another
  (`OneReaderInside`, one impatient client)
* a handle reused for a pane on another conversation keeps the old one, and a rotation
  writes the handle it read before its await (`HandleFollowsPane`)
* a terminal whose kill tmux refuses or fails has lost its handle: the release or kill
  answers as done, or raises, and it lives on with nobody to end it (`TornDownIsGone`)
* a send that arrived and timed out is sent again (`LandedOnce`, one ambiguous text)
* a text enqueued by the idle drain after shutdown is lost (`StoppedOwesNothing`)
* a listener muted while it records still dispatches what it hears
  (`MutedDispatchesNothing`; `wake_word_app.py` 524-525 say no)
* a Stop pressed after the worker's last report, or a start whose worker ends at once,
  leaves the window on a listener that has ended (`DeadIsOffline`)
* a dispatch has no timeout, a gateway error in it ends the listener, and every result
  of a listener is kept until it stops
* a codex session killed while its process is being spawned leaves that process running
  (`OneHarnessEver`; `mind_server.py` 2132 allows one)
* a line of codex that send() cannot read ends the turn without the reset of its thread
  (`AnsweredEver`; `codex_cli.py` 492-493)
* a turn that ends after its session was killed, or a watcher that takes another's rollout,
  leaves the map without the thread of the session (`MapHasThread`; `codex_cli.py` 81-83)
* the write of a message to codex's stdin and the waits for codex to exit have no timeout: a
  codex that does neither holds its session for good (`FreedEver`; `codex_cli.py` 65-66)
* an interrupt of a codex session fails: its `proc` is a dict without `send_signal`
  (`mind_server.py` 2044-2047)
* two Discord chunks that Discord refuses: empty lines before a line longer than the limit
  are an empty chunk, and a fence added at a cut may exceed the limit (`ChunksFit`). The whole
  line of a fence is sent again at the head of the next chunk, and twice if it does not fit
  itself: `KeepText` lets the text of a fence come again, and nothing else (`Ordinary`)
* a create for a session that is there replaces its entry and leaves its process
  running; a create's spawn or a cold open that a release or a kill overtakes is registered
  after it; a tmux session left by a restart is not found by a release or a kill until a
  tile attaches (`OneOwnerEver`; `mind_server.py` 2132)
* a save is compared and renamed in two calls, and a file's text and its revision are two
  reads: another writer may come between (`SaveNeverClobbers`). A write-back during an
  install may copy half a skill, and half a skill without SKILL.md can only be reinstalled
* a typed `/switch` or `/new` takes no lock: between what a suspend asked and its call it
  makes the told sentence false (`crossed`); a command that raises is told nothing (`Raised`)
* `tail_newlines` counts those of the last piece only, so a break between blocks may have
  three newlines (`gateway_client.py` 287-290 says two); a message that comes only whole
  after any delta is dropped (344)
* a Discord playback that times out stops whatever plays by then; `/skill` and the slash
  commands take no lock; `ensure_session` (`gateway_client.py` 75-115) asks and then creates,
  so two first messages of a chat without a lock make two conversations
* a line whose post to the gateway fails is dropped, by the speaker, the column or both: the
  offset is past it (`lost`)
* a transcript read that breaks a character swallows or repeats bytes (`torn`); delegates'
  files are voiced again after a restart or a reopened terminal; the last lines of a
  conversation that was rotated away are not voiced after its last sweep
* a codex watcher takes any new rollout for its session's: that of another terminal, or of a
  conversation rotated away, also by a report that was on its way (`RecordedEver`, and
  `RotationStays`; `codex_cli.py` 868-870, 952-953). A rotation that tmux refuses leaves a pane
  whose thread is forgotten and never recorded again (`refused`). A thread `spawn_pty` discards
  is not reported to the gateway, so that a reattach remembers it again

## Not modelled

* The launcher: a `gather` of uvicorn and the bots; how they end is asyncio's and uvicorn's.
* The voice server, host metrics, code symbols, the models list, logging, remote admin, the
  stateless tools, configuration and the scripts of the skills: a request, one call or one
  read each, with no state that outlives it but short caches. The wake-word routes of the
  voice server call the controller that `WakeListener` models.
* The example mind on the SDK is a template; the minds on the CLIs are modelled instead.
* Of modelled components: the bytes, sizes and repaints of a terminal; command lines,
  environments, seeds and providers of the harnesses; the SDK branch of `send_message`; the
  texts of commands and what only reads; the checks of paths in the file editor; the editing of
  runtime.yaml. These compute one value from another without a step in between that
  something else could take.
* The gateway (hive-comms), tmux, the harness CLIs, Telegram and Discord are external: each
  module makes of them what the code relies on, and lets them fail, exit, delay and repeat.
