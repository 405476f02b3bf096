---------------------------- MODULE WakeListener ----------------------------
(***************************************************************************)
(* The wake-word listener: the desktop window's thread (wake_word_window),  *)
(* the worker thread that records, transcribes and dispatches               *)
(* (wake_word_app), the follow-up window of the controller (wake_word) and  *)
(* the queue of events through which the worker reports to the window.      *)
(* What is said is one of a few kinds of utterance; time is the expiry of   *)
(* the follow-up window at any moment.                                      *)
(***************************************************************************)
EXTENDS Integers, Sequences

CONSTANT MaxQueue    \* bound: events waiting for the window's next poll

ASSUME MaxQueueAssumption == MaxQueue \in Nat

VARIABLES
  pc,         \* where the worker thread is
  stop,       \* the stop event of the latest start
  pause,      \* its pause event
  wasPaused,  \* was_paused of the worker's loop
  window,     \* the follow-up window is open (_active_until)
  invited,    \* ghost: a wake phrase was heard in this run and not cancelled
  events,     \* the controller's queue of events
  ui,         \* running and muted of WakeWordWindowState, as rendered
  uiPc,       \* what the window's thread is in the middle of
  late        \* ghost: an event says "running" though the worker had ended

wakeVars == <<pc, stop, pause, wasPaused, window, invited, events, ui, uiPc, late>>
workerVars == <<wasPaused, window, invited>>
flags == <<stop, pause>>
windowVars == <<ui, uiPc, late>>

\* Threads that are in the loop of run_microphone_wake_word_app_with_events.
Hearing == {"capture", "transcribe", "dispatch"}
Looping == Hearing \cup {"top", "paused"}
Ended == {"exiting", "dead"}
PCs == Looping \cup Ended \cup {"none", "boot", "ending"}

Kinds == {"starting", "ready", "muted", "capture", "silence", "idle", "error",
          "transcript", "processed", "dispatching", "response",
          "stopping", "crashed", "stopped"}

\* Utterances by what process_transcript makes of them: a wake phrase alone,
\* with a command, with too short a command or with a cancel phrase; a cancel
\* phrase, a command or too short a command without a wake phrase.
Utterances == {"wake", "wakeCommand", "wakeShort", "wakeCancel",
               "cancel", "command", "short"}

WakeTypeOK ==
  /\ pc \in PCs
  /\ stop \in BOOLEAN
  /\ pause \in BOOLEAN
  /\ wasPaused \in BOOLEAN
  /\ window \in BOOLEAN
  /\ invited \in BOOLEAN
  /\ events \in Seq(Kinds)
  /\ ui \in [running : BOOLEAN, muted : BOOLEAN]
  /\ uiPc \in {"idle", "starting", "closing", "gone"}
  /\ late \in BOOLEAN

WakeInit ==
  /\ pc = "none"
  /\ stop = FALSE
  /\ pause = FALSE
  /\ wasPaused = FALSE
  /\ window = FALSE
  /\ invited = FALSE
  /\ events = << >>
  /\ ui = [running |-> FALSE, muted |-> FALSE]
  /\ uiPc = "idle"
  /\ late = FALSE

-----------------------------------------------------------------------------
(* What a drain of the queue makes of the window's state (_apply_event).    *)

SaysRunning == {"starting", "ready", "muted", "capture", "silence",
                "transcript", "processed", "dispatching", "response",
                "stopping", "crashed"}
SaysUnmuted == {"ready", "silence", "stopped"}

\* running: an event says so after the last "stopped", or it was so before.
RunningAfter ==
  \/ \E i \in 1 .. Len(events) :
       /\ events[i] \in SaysRunning
       /\ \A j \in i + 1 .. Len(events) : events[j] # "stopped"
  \/ /\ ui.running
     /\ \A i \in 1 .. Len(events) : events[i] # "stopped"

\* muted: the last event that decides it says so, or none does and it was so.
MutedAfter ==
  \/ \E i \in 1 .. Len(events) :
       /\ events[i] = "muted"
       /\ \A j \in i + 1 .. Len(events) : events[j] \notin SaysUnmuted
  \/ /\ ui.muted
     /\ \A i \in 1 .. Len(events) : events[i] \notin SaysUnmuted

-----------------------------------------------------------------------------
(* The window's thread. A button works while the rendered state enables it. *)

Alive == uiPc # "gone"

\* The bound: the worker always finds room for the events of one step unless
\* its own are still waiting; a click leaves that room.
WorkerRoom == Len(events) + 3 <= MaxQueue
ClickRoom == Len(events) + 4 <= MaxQueue

\* _render_state: Start is offered while the listener is shown offline, Stop
\* and Mute while it is shown running; the thread handles one call at a time.
Offline == uiPc = "idle" /\ ~ui.running
Online == uiPc = "idle" /\ ui.running

\* start() up to the new state: fresh events, a new thread that runs at once.
StartThread ==
  /\ Offline
  /\ pc \in {"none", "dead"}
  /\ pc' = "boot"
  /\ stop' = FALSE
  /\ pause' = FALSE
  /\ ui' = [running |-> TRUE, muted |-> FALSE]
  /\ uiPc' = "starting"
  /\ late' = FALSE
  /\ UNCHANGED <<workerVars, events>>

\* Mutant: start() reports nothing.
StartSilent ==
  /\ uiPc = "starting"
  /\ uiPc' = "idle"
  /\ UNCHANGED <<pc, flags, workerVars, events, ui, late>>

\* The rest of start(): by now the thread may have reported, or have ended.
StartReports ==
  /\ uiPc = "starting"
  /\ events' = Append(events, "starting")
  /\ uiPc' = "idle"
  /\ late' = (late \/ pc \in Ended)
  /\ UNCHANGED <<pc, flags, workerVars, ui>>

StopClicked ==
  /\ Online
  /\ ClickRoom
  /\ stop' = TRUE
  /\ events' = Append(events, "stopping")
  /\ late' = (late \/ pc \in Ended)
  /\ UNCHANGED <<pc, pause, workerVars, ui, uiPc>>

\* The button turns the pause event over, whatever its label says.
MuteClicked ==
  /\ Online
  /\ pause' = ~pause
  /\ UNCHANGED <<pc, stop, workerVars, events, windowVars>>

\* _poll_events: the whole queue, then the buttons.
Poll ==
  /\ uiPc = "idle"
  /\ events # << >>
  /\ ui' = [running |-> RunningAfter, muted |-> MutedAfter]
  /\ events' = << >>
  /\ UNCHANGED <<pc, flags, workerVars, uiPc, late>>

\* Closing the window asks for a stop and waits two seconds at most; the
\* worker is a daemon thread and ends with the process, wherever it is.
CloseClicked ==
  /\ uiPc = "idle"
  /\ pc # "none"
  /\ ClickRoom
  /\ stop' = TRUE
  /\ events' = Append(events, "stopping")
  /\ uiPc' = "closing"
  /\ late' = (late \/ pc \in Ended)
  /\ UNCHANGED <<pc, pause, workerVars, ui>>

Quit ==
  /\ uiPc = "closing"
  /\ uiPc' = "gone"
  /\ pc' = "dead"
  /\ UNCHANGED <<flags, workerVars, events, ui, late>>

-----------------------------------------------------------------------------
(* The worker thread.                                                       *)

Worker(at) == pc = at /\ Alive /\ WorkerRoom

Emits(s) == events' = events \o s

\* Mutant: the controller of the run before is kept, its window open.
BootsOldController ==
  /\ Worker("boot")
  /\ pc' = "top"
  /\ wasPaused' = FALSE
  /\ window' = window
  /\ invited' = FALSE
  /\ Emits(<<"ready">>)
  /\ UNCHANGED <<flags, windowVars>>

\* Configuration read, a new controller and an http session: ready.
Boots ==
  /\ Worker("boot")
  /\ pc' = "top"
  /\ wasPaused' = FALSE
  /\ window' = FALSE
  /\ invited' = FALSE
  /\ Emits(<<"ready">>)
  /\ UNCHANGED <<flags, windowVars>>

\* An exception nobody catches, in the configuration, in a WAV file or an
\* answer of the voice server that does not parse, or in the mind's answer.
Crashes ==
  /\ \E p \in Hearing \cup {"boot"} : Worker(p)
  /\ pc' = "ending"
  /\ Emits(<<"crashed">>)
  /\ UNCHANGED <<flags, workerVars, windowVars>>

SeesStop ==
  /\ Worker("top")
  /\ stop
  /\ pc' = "ending"
  /\ Emits(<<"stopped">>)
  /\ UNCHANGED <<flags, workerVars, windowVars>>

\* Mutant: the pause event is looked at before the stop event.
SeesPauseFirst ==
  /\ Worker("top")
  /\ pause
  /\ pc' = "paused"
  /\ wasPaused' = TRUE
  /\ Emits(IF wasPaused THEN << >> ELSE <<"muted">>)
  /\ UNCHANGED <<flags, window, invited, windowVars>>

SeesPause ==
  /\ Worker("top")
  /\ ~stop
  /\ pause
  /\ pc' = "paused"
  /\ wasPaused' = TRUE
  /\ Emits(IF wasPaused THEN << >> ELSE <<"muted">>)
  /\ UNCHANGED <<flags, window, invited, windowVars>>

WakesUp ==
  /\ Worker("paused")
  /\ pc' = "top"
  /\ UNCHANGED <<flags, workerVars, events, windowVars>>

StartsCapture ==
  /\ Worker("top")
  /\ ~stop
  /\ ~pause
  /\ pc' = "capture"
  /\ wasPaused' = FALSE
  /\ Emits(IF wasPaused THEN <<"ready", "capture">> ELSE <<"capture">>)
  /\ UNCHANGED <<flags, window, invited, windowVars>>

\* Silence, no audio, or a failed capture: an empty transcript, processed.
CapturesNothing ==
  /\ Worker("capture")
  /\ pc' = "top"
  /\ \E said \in {"silence", "idle", "error"} : Emits(<<said, "processed">>)
  /\ UNCHANGED <<flags, workerVars, windowVars>>

CapturesSpeech ==
  /\ Worker("capture")
  /\ pc' = "transcribe"
  /\ UNCHANGED <<flags, workerVars, events, windowVars>>

TranscribesNothing ==
  /\ Worker("transcribe")
  /\ pc' = "top"
  /\ \E said \in {"idle", "error"} : Emits(<<said, "processed">>)
  /\ UNCHANGED <<flags, workerVars, windowVars>>

\* process_transcript, as the open or closed window has it.
Triggered(u) == u \in {"wake", "wakeCommand", "wakeShort", "wakeCancel"}
Canceled(u) == u = "wakeCancel" \/ (u = "cancel" /\ window)
Dispatches(u) == u = "wakeCommand" \/ (u = "command" /\ window)

Transcribes(u) ==
  /\ Worker("transcribe")
  /\ window' = (~Canceled(u) /\ (Triggered(u) \/ window))
  /\ invited' = (~Canceled(u) /\ (Triggered(u) \/ invited))
  /\ pc' = IF Dispatches(u) THEN "dispatch" ELSE "top"
  /\ Emits(IF Dispatches(u)
             THEN <<"transcript", "processed", "dispatching">>
             ELSE <<"transcript", "processed">>)
  /\ UNCHANGED <<flags, wasPaused, windowVars>>

\* The gateway has streamed the whole answer. Nothing bounds how long it takes.
MindAnswers ==
  /\ Worker("dispatch")
  /\ pc' = "top"
  /\ Emits(<<"response">>)
  /\ UNCHANGED <<flags, workerVars, windowVars>>

\* The finally clause of the thread reports the end, a second time on a stop.
ReportsEnd ==
  /\ Worker("ending")
  /\ pc' = "exiting"
  /\ Emits(<<"stopped">>)
  /\ UNCHANGED <<flags, workerVars, windowVars>>

Exits ==
  /\ Worker("exiting")
  /\ pc' = "dead"
  /\ UNCHANGED <<flags, workerVars, events, windowVars>>

\* _is_session_active: the seconds of the follow-up window are over.
WindowExpires ==
  /\ Alive
  /\ window
  /\ window' = FALSE
  /\ UNCHANGED <<pc, flags, wasPaused, invited, events, windowVars>>

WindowThread ==
  \/ StartThread \/ StartReports \/ StopClicked \/ MuteClicked
  \/ Poll \/ CloseClicked \/ Quit

WorkerMoves ==
  \/ Boots \/ SeesStop \/ SeesPause \/ WakesUp \/ StartsCapture
  \/ CapturesNothing \/ CapturesSpeech \/ TranscribesNothing
  \/ \E u \in Utterances : Transcribes(u)
  \/ ReportsEnd \/ Exits

WakeNext == WindowThread \/ WorkerMoves \/ Crashes \/ MindAnswers \/ WindowExpires

WakeSpec == WakeInit /\ [][WakeNext]_wakeVars

\* The worker's own steps end (a capture lasts a fixed time, a transcription
\* times out); the window polls on a timer and finishes what it began. The
\* user, the expiry and the gateway owe nothing.
WakeFairSpec ==
  /\ WakeSpec
  /\ WF_wakeVars(WorkerMoves)
  /\ WF_wakeVars(Poll)
  /\ WF_wakeVars(StartReports)
  /\ WF_wakeVars(Quit)

-----------------------------------------------------------------------------
(* Properties.                                                              *)

\* While the listener may record, its Stop and Mute buttons can be pressed,
\* also after a restart whose predecessor's last report is still waiting: the
\* order of "starting" and the old "stopped" in the queue (start, line 77).
HotMicCanBeStopped == pc \in Looping \cup {"boot"} => ui.running

\* A window that shows Muted has a worker that neither records nor dispatches,
\* or it is about to be told otherwise (was_paused and its two events).
MutedMeansDeaf ==
  ui.muted /\ pc \in Hearing =>
    \E i \in 1 .. Len(events) : events[i] = "ready"

\* Once the worker has ended, on a stop or in a crash, the window's next poll
\* shows it offline, unless a click or start() reported after the end.
OfflineIsShown == pc = "dead" /\ Alive /\ ~late => ~RunningAfter

\* What the window shows of the worker: it offers Stop and Mute while the worker
\* may record, says Muted of one that does not, and shows the end of one.
WindowIsTrue == HotMicCanBeStopped /\ MutedMeansDeaf /\ OfflineIsShown

\* A command reaches the mind only after a wake phrase of the same run that
\* no cancel phrase has taken back (process_transcript).
DispatchIsInvited == [][pc # "dispatch" /\ pc' = "dispatch" => invited']_wakeVars

\* Stop ends the worker, from standby too, unless it waits for the mind's
\* answer, for which the code has no timeout.
StopIsObeyed == stop ~> pc \in {"dead", "dispatch"}

\* A mute that is left on comes to be shown, unless the worker ends or waits
\* for the mind's answer.
MuteIsShown == pause ~> (ui.muted \/ ~pause \/ pc \in Ended \cup {"dispatch"})

\* Both buttons take effect in the end.
ButtonsAreObeyed == StopIsObeyed /\ MuteIsShown

\* Nothing is dispatched while the pause event is set (docstring of
\* run_microphone_wake_word_app_with_events). Not so: the event is looked at
\* between two captures only.
MutedDispatchesNothing == [][pause => ~(pc # "dispatch" /\ pc' = "dispatch")]_wakeVars

\* The window never stays on a listener that has ended. Not so: a second
\* press of Stop between the worker's end and the next poll, or a start whose
\* thread ends at once, leaves it running, with Start disabled, for good.
DeadIsOffline == pc = "dead" /\ uiPc = "idle" /\ events = << >> => ~ui.running

=============================================================================
