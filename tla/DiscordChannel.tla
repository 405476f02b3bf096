--------------------------- MODULE DiscordChannel ---------------------------
(***************************************************************************)
(* The Discord bot in one server: messages that take their channel's lock or *)
(* are refused, slash commands, which take none, and the voice channel in    *)
(* which answers are spoken one over the other. A voice client goes by the   *)
(* request that connected it. Discord and the audio player are external.     *)
(***************************************************************************)
EXTENDS Integers, FiniteSets

CONSTANTS
  Requests,  \* messages and commands
  Channels,  \* text channels of the server
  Nothing    \* no request, no voice client

ASSUME NothingAssumption == Nothing \notin Requests

VARIABLES
  req,      \* each request: where it is, what it is, its channel, the voice client it has
  lock,     \* each channel's lock: its holder
  entry,    \* _voice_clients of the server
  link,     \* the voice client Discord has connected
  opening,  \* the request that is connecting one
  audio,    \* the request whose audio is playing
  over      \* requests whose player has called back (done.set)

discordVars == <<req, lock, entry, link, opening, audio, over>>
voiceVars == <<entry, link, opening, audio, over>>

RequestKinds == {"message", "skill", "slash", "join"}
Ended == {"refused", "done"}

DiscordTypeOK ==
  /\ req \in [Requests -> [pc : {"new", "turn", "speak", "join", "connect", "tts", "playing",
                                  "stopping"} \cup Ended,
                           kind : RequestKinds \cup {"any"}, chan : Channels \cup {Nothing},
                           vc : Requests \cup {Nothing}]]
  /\ lock \in [Channels -> Requests \cup {Nothing}]
  /\ {entry, link, opening, audio} \subseteq Requests \cup {Nothing}
  /\ over \subseteq Requests

Anything(pc) == [pc |-> pc, kind |-> "any", chan |-> Nothing, vc |-> Nothing]

DiscordInit ==
  /\ req = [r \in Requests |-> Anything("new")]
  /\ lock = [c \in Channels |-> Nothing]
  /\ entry = Nothing /\ link = Nothing /\ opening = Nothing
  /\ audio = Nothing /\ over = {}

At(r, pc) == req[r].pc = pc
Moves(r, pc) == req' = [req EXCEPT ![r].pc = pc]

Begins(r, kind, c, pc) ==
  /\ At(r, "new")
  /\ req' = [req EXCEPT ![r].pc = pc, ![r].kind = kind, ![r].chan = c]

\* A request is over; a message leaves its channel's lock.
Released(r) == [c \in Channels |-> IF lock[c] = r THEN Nothing ELSE lock[c]]
Finishes(r) == req' = [req EXCEPT ![r] = Anything("done")] /\ lock' = Released(r)

-----------------------------------------------------------------------------
(* on_message, cmd_skill and the other slash commands                       *)

\* Mutant: a message does not look whether its channel is busy.
OnMessageRegardless(r, c) ==
  /\ Begins(r, "message", c, "turn")
  /\ lock' = [lock EXCEPT ![c] = r]
  /\ UNCHANGED voiceVars

\* lock.locked() and the acquisition have no await between them.
OnMessage(r, c) ==
  /\ IF lock[c] # Nothing
       THEN At(r, "new") /\ req' = [req EXCEPT ![r] = Anything("refused")] /\ UNCHANGED lock
       ELSE Begins(r, "message", c, "turn") /\ lock' = [lock EXCEPT ![c] = r]
  /\ UNCHANGED voiceVars

OnSkill(r, c) ==
  /\ Begins(r, "skill", c, "turn")
  /\ UNCHANGED <<lock, voiceVars>>

\* The commands that are one call to the gateway; a message may be one, too.
OnSlash(r, c) ==
  /\ Begins(r, "slash", c, "turn")
  /\ UNCHANGED <<lock, voiceVars>>

CommandAnswered(r) ==
  /\ At(r, "turn") /\ req[r].kind \in {"message", "slash"}
  /\ Finishes(r)
  /\ UNCHANGED voiceVars

\* The answer has been shown (query_stream, _stream_to_message).
Answered(r) ==
  /\ At(r, "turn") /\ req[r].kind \in {"message", "skill"}
  /\ Moves(r, "speak")
  /\ UNCHANGED <<lock, voiceVars>>

\* Anything the gateway, Discord or the voice server refuses before the end.
Raises(r) ==
  /\ req[r].pc \in {"turn", "tts"}
  /\ Finishes(r)
  /\ UNCHANGED voiceVars

-----------------------------------------------------------------------------
(* _play_tts_for_member, cmd_join, cmd_leave                                *)

\* Nobody to speak to, or the client cannot be moved to their channel.
SpeakToNobody(r) ==
  /\ At(r, "speak")
  /\ Finishes(r)
  /\ UNCHANGED voiceVars

Connected == entry # Nothing /\ link = entry
WantsVoice(r) == At(r, "speak") \/ At(r, "join")

\* What a request does with its client: /join has it, an answer is to be
\* synthesised.
WithClient(r, vc) ==
  req' = [req EXCEPT ![r] = IF req[r].kind = "join" THEN Anything("done")
                            ELSE [@ EXCEPT !.pc = "tts", !.vc = vc]]

Join(r, c) ==
  /\ Begins(r, "join", c, "join")
  /\ UNCHANGED <<lock, voiceVars>>

\* The client there is, moved to the member's channel if need be.
UseVoice(r) ==
  /\ WantsVoice(r)
  /\ Connected
  /\ WithClient(r, entry)
  /\ UNCHANGED <<lock, voiceVars>>

\* connect(): Discord takes one client of a server at a time, also one that is
\* still connecting.
OpenVoice(r) ==
  /\ WantsVoice(r)
  /\ ~Connected
  /\ IF link = Nothing /\ opening = Nothing
       THEN Moves(r, "connect") /\ opening' = r /\ UNCHANGED lock
       ELSE Finishes(r) /\ UNCHANGED opening
  /\ UNCHANGED <<entry, link, audio, over>>

VoiceOpened(r) ==
  /\ At(r, "connect")
  /\ opening' = Nothing
  /\ \/ /\ link' = r /\ entry' = r
        /\ WithClient(r, r)
        /\ UNCHANGED lock
     \/ Finishes(r) /\ UNCHANGED <<link, entry>>
  /\ UNCHANGED <<audio, over>>

\* Who was playing is called back.
Stopped == IF audio = Nothing THEN over ELSE over \cup {audio}

\* Mutant: what plays is not stopped first, and the player is replaced.
PlayOver(r) ==
  /\ At(r, "tts")
  /\ IF req[r].vc = link
       THEN /\ audio' = r
            /\ Moves(r, "playing")
            /\ UNCHANGED <<lock, over>>
       ELSE Finishes(r) /\ UNCHANGED <<audio, over>>
  /\ UNCHANGED <<entry, link, opening>>

\* is_playing, stop and play have no await between them. A client that is no
\* longer connected raises.
Play(r) ==
  /\ At(r, "tts")
  /\ IF req[r].vc = link
       THEN /\ audio' = r /\ over' = Stopped
            /\ Moves(r, "playing")
            /\ UNCHANGED lock
       ELSE Finishes(r) /\ UNCHANGED <<audio, over>>
  /\ UNCHANGED <<entry, link, opening>>

\* Mutant: the wait has no timeout.
PlaybackNeverTimesOut(r) ==
  /\ At(r, "playing") /\ r \in over
  /\ Finishes(r)
  /\ UNCHANGED voiceVars

Played(r) ==
  /\ At(r, "playing") /\ r \in over
  /\ Finishes(r)
  /\ over' = over \ {r}
  /\ UNCHANGED <<entry, link, opening, audio>>

\* wait_for's 120 s; vc.stop() stops whatever the client plays.
PlaybackTimesOut(r) ==
  /\ At(r, "playing")
  /\ Finishes(r)
  /\ IF req[r].vc = link THEN audio' = Nothing /\ over' = Stopped \ {r}
     ELSE audio' = audio /\ over' = over \ {r}
  /\ UNCHANGED <<entry, link, opening>>

\* cmd_leave takes the client out first, then disconnects it.
Leave(r) ==
  /\ At(r, "new")
  /\ entry' = Nothing
  /\ req' = [req EXCEPT ![r] = IF Connected THEN [Anything("stopping") EXCEPT !.vc = entry]
                               ELSE Anything("done")]
  /\ UNCHANGED <<lock, link, opening, audio, over>>

Unlinks ==
  /\ link' = Nothing
  /\ audio' = Nothing /\ over' = Stopped

Disconnect(r) ==
  /\ At(r, "stopping")
  /\ IF link = req[r].vc THEN Unlinks ELSE UNCHANGED <<link, audio, over>>
  /\ req' = [req EXCEPT ![r] = Anything("done")]
  /\ UNCHANGED <<lock, entry, opening>>

\* The audio comes to its end, or never does.
AudioEnds ==
  /\ audio # Nothing
  /\ audio' = Nothing /\ over' = Stopped
  /\ UNCHANGED <<req, lock, entry, link, opening>>

\* The bot is moved out of the voice channel, or Discord drops it.
VoiceDrops ==
  /\ link # Nothing
  /\ Unlinks
  /\ UNCHANGED <<req, lock, entry, opening>>

Speaks(r) ==
  \/ SpeakToNobody(r) \/ UseVoice(r) \/ OpenVoice(r) \/ VoiceOpened(r)
  \/ Play(r) \/ Played(r) \/ PlaybackTimesOut(r) \/ (At(r, "tts") /\ Raises(r))

DiscordNext ==
  \/ \E r \in Requests :
       \/ \E c \in Channels : OnMessage(r, c) \/ OnSkill(r, c) \/ OnSlash(r, c) \/ Join(r, c)
       \/ CommandAnswered(r) \/ Answered(r) \/ Raises(r) \/ Leave(r) \/ Disconnect(r) \/ Speaks(r)
  \/ AudioEnds \/ VoiceDrops

\* The bot's own steps, with the timeouts of a connection, a synthesis and a
\* playback; the audio may never end, nor a turn at the gateway.
DiscordFair == \A r \in Requests : WF_discordVars(req[r].pc # "new" /\ Speaks(r))

DiscordSpec == DiscordInit /\ [][DiscordNext]_discordVars

-----------------------------------------------------------------------------
(* Properties *)

\* The messages of a channel have one turn at a time, until the last word is
\* spoken.
OneMessageEach ==
  \A r, q \in Requests :
    r # q /\ req[r].chan = req[q].chan =>
      req[r].kind # "message" \/ req[q].kind # "message"

\* Audio plays on the connected client for a request that is still there for
\* it; one that waits without its audio has been called back. So through
\* answers spoken over each other, /join, /leave, a dropped connection and a
\* timeout.
NobodyWaitsInVain ==
  /\ audio # Nothing => At(audio, "playing") /\ req[audio].vc = link
  /\ \A r \in Requests : At(r, "playing") => audio = r \/ r \in over

\* The channel and the voice of a server.
SpokenInTurn == OneMessageEach /\ NobodyWaitsInVain

\* An answer that is being spoken leaves its channel's lock, though its audio
\* may never end.
ChannelFrees ==
  \A r \in Requests : At(r, "speak") ~> At(r, "done")
=============================================================================
