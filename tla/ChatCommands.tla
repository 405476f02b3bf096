---------------------------- MODULE ChatCommands ----------------------------
(***************************************************************************)
(* The commands of a Telegram chat on its conversations: pickers and their  *)
(* buttons (on_session_button), /suspend, /rename and the commands that are *)
(* one call (/new, /switch). A picker is single use: its claim is taken in  *)
(* memory and on disk (bot_utils.claim_picker). Telegram keeps a tap until  *)
(* the bot has it and may deliver it again to the next process. The gateway *)
(* is what the handlers make of it.                                         *)
(***************************************************************************)
EXTENDS Integers, Sequences

CONSTANTS
  Taps,      \* taps on buttons
  Commands,  \* typed commands
  Pickers,   \* pickers that may be drawn
  MaxConvs,  \* bound: conversations that ever exist
  MaxRestarts, \* bound: restarts of the bot
  MaxSpent   \* claims remembered (512)

ASSUME CommandsAssumption ==
  MaxConvs \in Nat \ {0} /\ MaxRestarts \in Nat /\ MaxSpent \in Nat \ {0} /\ Taps \cap Commands = {}

VARIABLES
  status,    \* each conversation at the gateway
  active,    \* the one this chat is in, or 0
  convs,     \* how many there have been
  picker,    \* each picker: not drawn yet, with its buttons, or without
  spent,     \* claims in memory, the oldest first (_spent_pickers)
  disk,      \* claims on disk
  job,       \* each handler
  restarts,  \* restarts of the bot so far
  holder,    \* the handler that holds the chat's lock, if one does
  claims,    \* ghost: every claim taken, in order
  forgotten  \* ghost: claims a process died with

commandVars == <<status, active, convs, picker, spent, disk, job, holder, claims, forgotten,
                 restarts>>
gatewaySide == <<status, active, convs>>
claimVars == <<spent, disk, claims, forgotten, restarts>>

Jobs == Taps \cup Commands
Free == {}
Convs == 1 .. MaxConvs
Nobody == 0

Kinds == {"tapNew", "tapSwitch", "suspend", "rename", "new", "switch"}
Asking == {"tapNew", "suspend", "rename"}
Words == {"", "spent", "gone", "fails", "done"}

CommandsTypeOK ==
  /\ status \in [Convs -> {"none", "live", "suspended", "closed"}]
  /\ active \in Convs \cup {Nobody}
  /\ convs \in 0 .. MaxConvs
  /\ picker \in [Pickers -> {"none", "open", "bare"}]
  /\ spent \in Seq(Pickers) /\ Len(spent) <= MaxSpent
  /\ disk \in Seq(Pickers) /\ Len(disk) <= MaxSpent
  /\ job \in [Jobs -> [pc : {"new", "queued", "claimed", "waiting", "locked",
                             "acting", "answer", "done", "lost"},
                       kind : Kinds, on : Pickers \cup {Nobody}, target : Convs \cup {Nobody},
                       was : Convs \cup {Nobody}, crossed : BOOLEAN, told : Words]]
  /\ holder \in SUBSET Jobs
  /\ claims \in Seq(Pickers)
  /\ forgotten \in SUBSET Pickers
  /\ restarts \in 0 .. MaxRestarts

\* A handler as it begins, and one that only has to answer or is over.
Over(pc, word) ==
  [pc |-> pc, kind |-> "new", on |-> Nobody, target |-> Nobody, was |-> Nobody,
   crossed |-> FALSE, told |-> word]

CommandsInit ==
  /\ status = [c \in Convs |-> IF c = 1 THEN "live" ELSE "none"]
  /\ active = 1
  /\ convs = 1
  /\ picker = [m \in Pickers |-> "none"]
  /\ spent = << >>
  /\ disk = << >>
  /\ job = [j \in Jobs |-> Over("new", "")]
  /\ holder = Free
  /\ claims = << >>
  /\ forgotten = {}
  /\ restarts = 0

-----------------------------------------------------------------------------
(* Pickers and taps                                                         *)

\* _send_session_picker.
Drawn(m) ==
  /\ picker[m] = "none"
  /\ picker' = [picker EXCEPT ![m] = "open"]

SessionsCommand(m) ==
  /\ Drawn(m)
  /\ UNCHANGED <<gatewaySide, claimVars, job, holder>>

\* The operator taps while there are buttons: a new session, or a conversation
\* that was reachable when the list was drawn, whatever has become of it.
Tap(t, m) ==
  /\ job[t].pc = "new"
  /\ picker[m] = "open"
  /\ \E c \in 0 .. convs :
       job' = [job EXCEPT ![t].pc = "queued", ![t].on = m, ![t].target = c,
                          ![t].kind = IF c = Nobody THEN "tapNew" ELSE "tapSwitch"]
  /\ UNCHANGED <<gatewaySide, picker, claimVars, holder>>

\* Mutant: every claim is remembered for ever.
AllSpent(s) == s

LastSpent(s) == IF Len(s) > MaxSpent THEN Tail(s) ELSE s

Spent(s, m) == \E i \in 1 .. Len(s) : s[i] = m

\* Mutant: the claims stay in memory.
ClaimInMemory(t) ==
  LET m == job[t].on IN
  /\ job[t].pc = "queued"
  /\ ~Spent(spent, m)
  /\ spent' = LastSpent(Append(spent, m))
  /\ claims' = Append(claims, m)
  /\ job' = [job EXCEPT ![t].pc = "claimed"]
  /\ UNCHANGED <<gatewaySide, picker, holder, disk, forgotten, restarts>>

\* claim_picker: no await inside. Writing to disk may fail, and that is not
\* fatal (_persist).
Claim(t) ==
  LET m == job[t].on IN
  /\ job[t].pc = "queued"
  /\ ~Spent(spent, m)
  /\ spent' = LastSpent(Append(spent, m))
  /\ claims' = Append(claims, m)
  /\ disk' \in {spent', disk}
  /\ forgotten' = IF disk' = spent' THEN forgotten ELSE forgotten \cup {m}
  /\ job' = [job EXCEPT ![t].pc = "claimed"]
  /\ UNCHANGED <<gatewaySide, picker, holder, restarts>>

\* Mutant: a tap on a used picker is dropped.
ClaimRefusedQuietly(t) ==
  /\ job[t].pc = "queued"
  /\ Spent(spent, job[t].on)
  /\ job' = [job EXCEPT ![t] = Over("done", "")]
  /\ UNCHANGED <<gatewaySide, picker, claimVars, holder>>

ClaimRefused(t) ==
  /\ job[t].pc = "queued"
  /\ Spent(spent, job[t].on)
  /\ job' = [job EXCEPT ![t] = Over("done", "spent")]
  /\ UNCHANGED <<gatewaySide, picker, claimVars, holder>>

\* The keyboard goes before the work, if Telegram takes the edit.
ClearKeyboard(t) ==
  /\ job[t].pc = "claimed"
  /\ picker' \in {picker, [picker EXCEPT ![job[t].on] = "bare"]}
  /\ job' = [job EXCEPT ![t].pc = "waiting"]
  /\ UNCHANGED <<gatewaySide, claimVars, holder>>

-----------------------------------------------------------------------------
(* Commands. What is asked of the gateway first is read at one await and    *)
(* used after the next.                                                     *)

\* cmd_suspend: an id, or the conversation the chat is in.
Suspend(c) ==
  /\ job[c].pc = "new"
  /\ \E s \in Convs : status[s] # "none" /\
       job' = [job EXCEPT ![c].pc = "waiting", ![c].kind = "suspend", ![c].target = s]
  /\ UNCHANGED <<gatewaySide, picker, claimVars, holder>>

\* cmd_rename, or a reply to its prompt: the conversation of that moment.
AskName(c) ==
  /\ job[c].pc = "new"
  /\ job' = [job EXCEPT ![c] = IF active = Nobody
               THEN Over("done", "gone")
               ELSE [@ EXCEPT !.pc = "acting", !.kind = "rename", !.target = active,
                              !.was = active]]
  /\ UNCHANGED <<gatewaySide, picker, claimVars, holder>>

\* cmd_new and cmd_switch do not take the chat's lock.
Typed(c) ==
  /\ job[c].pc = "new"
  /\ \E s \in Convs \cup {Nobody} :
       job' = [job EXCEPT ![c].pc = "acting", ![c].target = s,
                          ![c].kind = IF s = Nobody THEN "new" ELSE "switch"]
  /\ UNCHANGED <<gatewaySide, picker, claimVars, holder>>

TakeLock(j) ==
  /\ job[j].pc = "waiting"
  /\ holder = Free
  /\ holder' = {j}
  /\ job' = [job EXCEPT ![j].pc = IF job[j].kind \in Asking THEN "locked" ELSE "acting"]
  /\ UNCHANGED <<gatewaySide, picker, claimVars>>

\* Mutant: what is said of the chat's conversation is not asked under the lock.
AskNothing(j) ==
  /\ job[j].pc = "locked"
  /\ job' = [job EXCEPT ![j].pc = "acting"]
  /\ UNCHANGED <<gatewaySide, picker, claimVars, holder>>

\* find_active_session.
AskActive(j) ==
  /\ job[j].pc = "locked"
  /\ job' = [job EXCEPT ![j].pc = "acting", ![j].was = active]
  /\ UNCHANGED <<gatewaySide, picker, claimVars, holder>>

\* What the gateway does when it does it: /new closes the chat's conversation
\* and creates one, /switch binds one that is not closed, suspending the one
\* the chat is in leaves the chat in none, renaming changes only a name.
Closed(c) == IF c = Nobody THEN status ELSE [status EXCEPT ![c] = "closed"]

GatewayNew ==
  /\ convs < MaxConvs
  /\ convs' = convs + 1
  /\ status' = [Closed(active) EXCEPT ![convs + 1] = "live"]
  /\ active' = convs + 1

GatewaySwitch(c) ==
  /\ status[c] \in {"live", "suspended"}
  /\ status' = [status EXCEPT ![c] = "live"]
  /\ active' = c
  /\ UNCHANGED convs

GatewaySuspend(c) ==
  /\ status[c] \in {"live", "suspended"}
  /\ status' = [status EXCEPT ![c] = "suspended"]
  /\ active' = IF active = c THEN Nobody ELSE active
  /\ UNCHANGED convs

GatewayRename(c) ==
  /\ status[c] \in {"live", "suspended"}
  /\ UNCHANGED gatewaySide

GatewayDoes(j) ==
  CASE job[j].kind \in {"tapNew", "new"} -> GatewayNew
    [] job[j].kind \in {"tapSwitch", "switch"} -> GatewaySwitch(job[j].target)
    [] job[j].kind = "suspend" -> GatewaySuspend(job[j].target)
    [] OTHER -> GatewayRename(job[j].target)

\* What is said when the call raises: a tap and a rename catch it, another
\* command leaves it to _on_error, which tells nobody.
Raised(j) == IF job[j].kind \in {"tapNew", "tapSwitch", "rename"} THEN "fails" ELSE ""

After(j, word) ==
  IF j \in Taps THEN Over("answer", word) ELSE Over("done", word)

\* Another handler has asked which conversation is active and has yet to act.
Crossed == [j \in Jobs |-> [job[j] EXCEPT !.crossed = @ \/ (job[j].pc = "acting" /\
                                                            active' # active)]]

Acts(j) ==
  /\ job[j].pc = "acting"
  /\ GatewayDoes(j)
  /\ \E word \in {"done", Raised(j)} :
       job' = [Crossed EXCEPT ![j] = After(j, word)]
  /\ holder' = holder \ {j}
  /\ UNCHANGED <<picker, claimVars>>

\* An error from the gateway, or no answer at all.
Fails(j) ==
  /\ job[j].pc = "acting"
  /\ \E word \in {"fails", Raised(j)} : job' = [job EXCEPT ![j] = After(j, word)]
  /\ holder' = holder \ {j}
  /\ UNCHANGED <<gatewaySide, picker, claimVars>>

\* The caption and the delivered sentence; a tap that failed gets a new list,
\* if one can be drawn.
AnswerTap(t) ==
  /\ job[t].pc = "answer"
  /\ job' = [job EXCEPT ![t].pc = "done"]
  /\ \/ UNCHANGED picker
     \/ job[t].told = "fails" /\ \E m \in Pickers : Drawn(m)
  /\ UNCHANGED <<gatewaySide, claimVars, holder>>

\* The bot is restarted: its handlers are gone, the taps it had not confirmed
\* are delivered again, the claims are read back from disk.
BotRestarts ==
  /\ \E again \in SUBSET {t \in Taps : job[t].pc \notin {"new", "queued", "lost", "answer", "done"}} :
       job' = [j \in Jobs |->
                 IF j \in again THEN [job[j] EXCEPT !.pc = "queued", !.was = Nobody,
                                                    !.crossed = FALSE]
                 ELSE IF job[j].pc \in {"new", "queued", "done"} THEN job[j]
                 ELSE Over("lost", "")]
  /\ restarts < MaxRestarts
  /\ restarts' = restarts + 1
  /\ spent' = disk
  /\ holder' = Free
  /\ UNCHANGED <<gatewaySide, picker, disk, claims, forgotten>>

TapStep(t) ==
  Claim(t) \/ ClaimRefused(t) \/ ClearKeyboard(t) \/ AnswerTap(t)

Asks(c) == Suspend(c) \/ AskName(c) \/ Typed(c)

CommandsNext ==
  \/ \E m \in Pickers : SessionsCommand(m)
  \/ \E t \in Taps : (\E m \in Pickers : Tap(t, m)) \/ TapStep(t)
  \/ \E c \in Commands : Asks(c)
  \/ \E j \in Jobs : TakeLock(j) \/ AskActive(j) \/ Acts(j) \/ Fails(j)
  \/ BotRestarts

CommandsSpec == CommandsInit /\ [][CommandsNext]_commandVars

-----------------------------------------------------------------------------
(* Properties *)

\* A picker acts once, over restarts and taps delivered again, until so many
\* others have been used that its claim is dropped; but for a claim that could
\* not be written down.
PickerActsOnce ==
  \A i, k \in 1 .. Len(claims) :
    i < k /\ claims[i] = claims[k] => k - i > MaxSpent \/ claims[i] \in forgotten

\* The operator is told that the chat's conversation was ended, or suspended,
\* exactly when it was, though which one that is is asked before the call and
\* other taps wait for the same chat; but when a command that takes no lock
\* comes between.
ToldWhatHappened ==
  [][\A j \in Jobs :
       job[j].pc = "acting" /\ ~job[j].crossed /\ job'[j].told = "done" =>
         CASE job[j].kind = "tapNew" -> (job[j].was = Nobody) = (active = Nobody)
           [] job[j].kind = "suspend" -> (job[j].was = job[j].target) = (active = job[j].target)
           [] OTHER -> TRUE]_commandVars

\* A tap that has come to its end was answered in the chat, whatever failed on
\* the way; only a restart ends one without a word.
EveryTapIsTold ==
  \A t \in Taps : job[t].pc \in {"answer", "done"} => job[t].told # ""

\* The taps of a chat: each picker once, and none without a word.
TapsAreSettled == PickerActsOnce /\ EveryTapIsTold
=============================================================================
