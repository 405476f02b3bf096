------------------------- MODULE WakeListenerProofs -------------------------
(***************************************************************************)
(* Theorems about WakeListener, for a queue of any size.                   *)
(***************************************************************************)
EXTENDS WakeListener, SequenceTheorems, TLAPS

\* What the queue holds after more events are put in, by their places.
LEMMA Emitted ==
  ASSUME events \in Seq(Kinds), NEW s \in Seq(Kinds), events' = events \o s
  PROVE  /\ events' \in Seq(Kinds)
         /\ Len(events) \in Nat /\ Len(s) \in Nat
         /\ Len(events') = Len(events) + Len(s)
         /\ \A i \in 1 .. Len(events) : events'[i] = events[i]
         /\ \A i \in Len(events) + 1 .. Len(events') :
              i - Len(events) \in 1 .. Len(s) /\ events'[i] = s[i - Len(events)]
OBVIOUS

\* An Append is a concatenation of one event.
LEMMA Appended ==
  ASSUME events \in Seq(Kinds), NEW k \in Kinds
  PROVE  /\ <<k>> \in Seq(Kinds) /\ Len(<<k>>) = 1 /\ <<k>>[1] = k
         /\ Append(events, k) = events \o <<k>>
OBVIOUS

\* Events none of which is "stopped" leave a listener that is shown running so.
LEMMA StaysRunning ==
  ASSUME events \in Seq(Kinds), NEW s \in Seq(Kinds), events' = events \o s,
         \A i \in 1 .. Len(s) : s[i] # "stopped",
         ui' = ui, RunningAfter
  PROVE  RunningAfter'
<1>1. /\ Len(events) \in Nat /\ Len(s) \in Nat
      /\ Len(events') = Len(events) + Len(s)
      /\ \A i \in 1 .. Len(events) : events'[i] = events[i]
      /\ \A i \in Len(events) + 1 .. Len(events') : events'[i] # "stopped"
  BY Emitted
<1>2. \A i \in 1 .. Len(events') :
        i \in 1 .. Len(events) \/ i \in Len(events) + 1 .. Len(events')
  BY <1>1
<1>3. CASE ui.running /\ \A i \in 1 .. Len(events) : events[i] # "stopped"
  BY <1>1, <1>2, <1>3 DEF RunningAfter
<1>4. ASSUME NEW i \in 1 .. Len(events), events[i] \in SaysRunning,
             \A j \in i + 1 .. Len(events) : events[j] # "stopped"
      PROVE  RunningAfter'
  <2>1. i \in 1 .. Len(events') /\ events'[i] \in SaysRunning
    BY <1>1, <1>4
  <2>2. ASSUME NEW j \in i + 1 .. Len(events') PROVE events'[j] # "stopped"
    <3>1. j \in i + 1 .. Len(events) \/ j \in Len(events) + 1 .. Len(events')
      BY <1>1
    <3> QED  BY <1>1, <1>4, <3>1
  <2> QED  BY <2>1, <2>2 DEF RunningAfter, SaysRunning
<1> QED  BY <1>3, <1>4 DEF RunningAfter

\* Events none of which is "muted" leave a listener that is shown unmuted so.
LEMMA StaysUnmuted ==
  ASSUME events \in Seq(Kinds), NEW s \in Seq(Kinds), events' = events \o s,
         \A i \in 1 .. Len(s) : s[i] # "muted",
         ui' = ui, ~MutedAfter
  PROVE  ~MutedAfter'
<1>1. /\ Len(events) \in Nat /\ Len(s) \in Nat
      /\ Len(events') = Len(events) + Len(s)
      /\ \A i \in 1 .. Len(events) : events'[i] = events[i]
      /\ \A i \in Len(events) + 1 .. Len(events') : events'[i] # "muted"
  BY Emitted
<1>2. ASSUME ui.muted, \A i \in 1 .. Len(events') : events'[i] \notin SaysUnmuted
      PROVE  FALSE
  BY <1>1, <1>2 DEF MutedAfter
<1>3. ASSUME NEW i \in 1 .. Len(events'), events'[i] = "muted",
             \A j \in i + 1 .. Len(events') : events'[j] \notin SaysUnmuted
      PROVE  FALSE
  <2>1. i \in 1 .. Len(events)
    BY <1>1, <1>3
  <2>2. events[i] = "muted" /\ \A j \in i + 1 .. Len(events) : events[j] \notin SaysUnmuted
    BY <1>1, <1>3, <2>1
  <2> QED  BY <2>1, <2>2 DEF MutedAfter
<1> QED  BY <1>2, <1>3 DEF MutedAfter, SaysUnmuted

\* No event waiting says muted; one says ready.
NoMuted == \A i \in 1 .. Len(events) : events[i] # "muted"
SaysReady == \E i \in 1 .. Len(events) : events[i] = "ready"

\* What else stays when the events put in say neither muted nor ready.
LEMMA StaysSaid ==
  ASSUME events \in Seq(Kinds), NEW s \in Seq(Kinds), events' = events \o s
  PROVE  /\ SaysReady => SaysReady'
         /\ NoMuted /\ (\A i \in 1 .. Len(s) : s[i] # "muted") => NoMuted'
<1>1. /\ Len(events) \in Nat /\ Len(s) \in Nat
      /\ Len(events') = Len(events) + Len(s)
      /\ \A i \in 1 .. Len(events) : events'[i] = events[i]
      /\ \A i \in Len(events) + 1 .. Len(events') :
           i - Len(events) \in 1 .. Len(s) /\ events'[i] = s[i - Len(events)]
  BY Emitted
<1>2. \A i \in 1 .. Len(events) : i \in 1 .. Len(events')
  BY <1>1
<1>3. \A i \in 1 .. Len(events') :
        i \in 1 .. Len(events) \/ i \in Len(events) + 1 .. Len(events')
  BY <1>1
<1>4. SaysReady => SaysReady'
  BY <1>1, <1>2 DEF SaysReady
<1>5. NoMuted /\ (\A i \in 1 .. Len(s) : s[i] # "muted") => NoMuted'
  BY <1>1, <1>3 DEF NoMuted
<1> QED  BY <1>4, <1>5

\* A report that is neither stopped nor muted, as the worker and a click put in.
LEMMA Reported ==
  ASSUME events \in Seq(Kinds), NEW s \in Seq(Kinds), events' = events \o s, ui' = ui,
         \A i \in 1 .. Len(s) : s[i] \notin {"stopped", "muted"}
  PROVE  /\ RunningAfter => RunningAfter'
         /\ ~MutedAfter => ~MutedAfter'
         /\ SaysReady => SaysReady'
         /\ NoMuted => NoMuted'
<1>1. RunningAfter => RunningAfter'
  BY StaysRunning
<1>2. ~MutedAfter => ~MutedAfter'
  BY StaysUnmuted
<1> QED  BY <1>1, <1>2, StaysSaid

\* After a last "stopped" the window shows no running listener, after a last
\* "starting" it does.
LEMMA LastSays ==
  ASSUME events \in Seq(Kinds), NEW k \in {"stopped", "starting"}, events' = Append(events, k)
  PROVE  /\ k = "stopped" => ~RunningAfter'
         /\ k = "starting" => RunningAfter'
<1>1. /\ Len(events) \in Nat /\ Len(events') = Len(events) + 1
      /\ events'[Len(events')] = k
  OBVIOUS
<1>2. Len(events') \in 1 .. Len(events')
  BY <1>1
<1>3. ASSUME k = "stopped" PROVE ~RunningAfter'
  <2>1. ASSUME NEW i \in 1 .. Len(events'), events'[i] \in SaysRunning,
               \A j \in i + 1 .. Len(events') : events'[j] # "stopped"
        PROVE  FALSE
    <3>1. i = Len(events') \/ Len(events') \in i + 1 .. Len(events')
      BY <1>1
    <3> QED  BY <1>1, <1>3, <2>1, <3>1 DEF SaysRunning
  <2> QED  BY <1>1, <1>2, <1>3, <2>1 DEF RunningAfter
<1>4. ASSUME k = "starting" PROVE RunningAfter'
  <2>1. Len(events') + 1 .. Len(events') = {}
    BY <1>1
  <2> QED  BY <1>1, <1>2, <1>4, <2>1 DEF RunningAfter, SaysRunning
<1> QED  BY <1>3, <1>4

\* A pause that ends is reported: the window will show the listener unmuted.
LEMMA ReadyUnmutes ==
  ASSUME events \in Seq(Kinds), events' = events \o <<"ready", "capture">>
  PROVE  ~MutedAfter' /\ SaysReady'
<1>1. <<"ready", "capture">> \in Seq(Kinds)
  BY DEF Kinds
<1>2. /\ Len(events) \in Nat /\ Len(events') = Len(events) + 2
      /\ events'[Len(events) + 1] = "ready" /\ events'[Len(events) + 2] = "capture"
  BY <1>1
<1>3. Len(events) + 1 \in 1 .. Len(events') /\ Len(events) + 2 \in 1 .. Len(events')
  BY <1>2
<1>4. SaysReady'
  BY <1>2, <1>3 DEF SaysReady
<1>5. ASSUME NEW i \in 1 .. Len(events'), events'[i] = "muted",
             \A j \in i + 1 .. Len(events') : events'[j] \notin SaysUnmuted
      PROVE  FALSE
  <2>1. i # Len(events) + 1 /\ i # Len(events) + 2
    BY <1>2, <1>5
  <2>2. Len(events) + 1 \in i + 1 .. Len(events')
    BY <1>2, <1>5, <2>1
  <2> QED  BY <1>2, <1>5, <2>2 DEF SaysUnmuted
<1> QED  BY <1>2, <1>3, <1>4, <1>5 DEF MutedAfter, SaysUnmuted

\* With no event waiting the window shows what it showed.
LEMMA NothingWaits ==
  ASSUME events' = << >>
  PROVE  /\ RunningAfter' <=> ui'.running
         /\ MutedAfter' <=> ui'.muted
         /\ NoMuted'
<1>1. Len(events') = 0 /\ 1 .. 0 = {}
  OBVIOUS
<1> QED  BY <1>1 DEF RunningAfter, MutedAfter, NoMuted

-----------------------------------------------------------------------------
(* What the window shows, and what it will show after its next poll.        *)

\* A worker that has not reported its end is shown running, now and after.
Runs == pc \in Looping \cup {"boot"} => ui.running /\ (uiPc = "idle" => RunningAfter)

\* A mute of an earlier run is neither shown nor waiting when a run begins.
NoOldMute == ~ui.running \/ pc \in {"none", "boot"} => NoMuted
StartsUnmuted == pc \in {"none", "boot"} => ~ui.muted

\* was_paused is what the window will show; until then "ready" is waiting.
Unmutes ==
  /\ pc \in Hearing => ~wasPaused
  /\ pc \in Looping /\ ~wasPaused => ~MutedAfter /\ (ui.muted => SaysReady)

\* An ended worker will be shown offline.
Ends == pc \in Ended /\ Alive /\ ~late => ~RunningAfter

ShownInv == WakeTypeOK /\ Runs /\ NoOldMute /\ StartsUnmuted /\ Unmutes /\ Ends

\* At first nothing runs and nothing is shown.
LEMMA ShownInit == WakeInit => ShownInv
<1> SUFFICES ASSUME WakeInit PROVE ShownInv
  OBVIOUS
<1>1. events \in Seq(Kinds) /\ Len(events) = 0 /\ 1 .. 0 = {}
  BY DEF WakeInit
<1>2. WakeTypeOK
  BY <1>1 DEF WakeInit, WakeTypeOK, PCs
<1> QED
  BY <1>1, <1>2 DEF WakeInit, ShownInv, Runs, NoOldMute, StartsUnmuted, Unmutes, Ends,
     NoMuted, Looping, Hearing, Ended

\* What ShownInv says of the parts the steps below look at.
LEMMA ShownFacts ==
  ASSUME ShownInv
  PROVE  /\ events \in Seq(Kinds) /\ pc \in PCs
         /\ WakeTypeOK /\ Runs /\ NoOldMute /\ StartsUnmuted /\ Unmutes /\ Ends
BY DEF ShownInv, WakeTypeOK

\* A step that puts in reports which are neither stopped nor muted, changes
\* nothing the window shows, and leaves the worker looping keeps ShownInv.
LEMMA WorkerReports ==
  ASSUME ShownInv, NEW s \in Seq(Kinds), events' = events \o s,
         \A i \in 1 .. Len(s) : s[i] \notin {"stopped", "muted"},
         UNCHANGED <<flags, windowVars>>, pc \in Looping, pc' \in Looping,
         wasPaused' = wasPaused, pc' \in Hearing => ~wasPaused,
         window' \in BOOLEAN, invited' \in BOOLEAN
  PROVE  ShownInv'
<1> USE ShownFacts
<1>1. /\ RunningAfter => RunningAfter'
      /\ ~MutedAfter => ~MutedAfter'
      /\ SaysReady => SaysReady'
      /\ NoMuted => NoMuted'
  BY Reported DEF windowVars
<1>2. events' \in Seq(Kinds)
  BY Emitted
<1>3. WakeTypeOK'
  BY <1>2 DEF WakeTypeOK, PCs, flags, windowVars
<1>4. pc' \notin Ended /\ pc' \notin {"none", "boot"}
  BY DEF Looping, Hearing, Ended
<1>5. Runs'
  BY <1>1 DEF Runs, windowVars
<1>6. NoOldMute' /\ StartsUnmuted'
  BY <1>1, <1>4 DEF NoOldMute, StartsUnmuted, windowVars
<1>7. Unmutes'
  BY <1>1 DEF Unmutes, windowVars
<1>8. Ends'
  BY <1>4 DEF Ends
<1> QED  BY <1>3, <1>5, <1>6, <1>7, <1>8 DEF ShownInv

\* The steps of a looping worker.
LEMMA ShownLooping ==
  ASSUME ShownInv,
         \/ WakesUp \/ CapturesNothing \/ CapturesSpeech \/ TranscribesNothing
         \/ MindAnswers \/ \E u \in Utterances : Transcribes(u)
  PROVE  ShownInv'
<1> USE ShownFacts
<1>1. events \o << >> = events /\ << >> \in Seq(Kinds) /\ Len(<< >>) = 0 /\ 1 .. 0 = {}
  OBVIOUS
<1>2. window \in BOOLEAN /\ invited \in BOOLEAN
  BY DEF WakeTypeOK
<1>3. pc \in Hearing => ~wasPaused
  BY DEF Unmutes
<1>4. CASE WakesUp
  BY <1>1, <1>2, <1>4, WorkerReports DEF WakesUp, Worker, workerVars, Looping, Hearing
<1>5. CASE CapturesSpeech
  BY <1>1, <1>2, <1>3, <1>5, WorkerReports
     DEF CapturesSpeech, Worker, workerVars, Looping, Hearing
<1>6. CASE CapturesNothing
  <2>1. PICK said \in {"silence", "idle", "error"} : events' = events \o <<said, "processed">>
    BY <1>6 DEF CapturesNothing, Emits
  <2>2. /\ <<said, "processed">> \in Seq(Kinds)
        /\ \A i \in 1 .. Len(<<said, "processed">>) :
             <<said, "processed">>[i] \notin {"stopped", "muted"}
    BY <2>1 DEF Kinds
  <2> QED
    BY <1>2, <1>3, <1>6, <2>1, <2>2, WorkerReports
       DEF CapturesNothing, Worker, workerVars, Looping, Hearing
<1>7. CASE TranscribesNothing
  <2>1. PICK said \in {"idle", "error"} : events' = events \o <<said, "processed">>
    BY <1>7 DEF TranscribesNothing, Emits
  <2>2. /\ <<said, "processed">> \in Seq(Kinds)
        /\ \A i \in 1 .. Len(<<said, "processed">>) :
             <<said, "processed">>[i] \notin {"stopped", "muted"}
    BY <2>1 DEF Kinds
  <2> QED
    BY <1>2, <1>3, <1>7, <2>1, <2>2, WorkerReports
       DEF TranscribesNothing, Worker, workerVars, Looping, Hearing
<1>8. CASE MindAnswers
  <2>1. /\ <<"response">> \in Seq(Kinds)
        /\ \A i \in 1 .. Len(<<"response">>) : <<"response">>[i] \notin {"stopped", "muted"}
    BY DEF Kinds
  <2> QED
    BY <1>2, <1>3, <1>8, <2>1, WorkerReports
       DEF MindAnswers, Emits, Worker, workerVars, Looping, Hearing
<1>9. ASSUME NEW u \in Utterances, Transcribes(u) PROVE ShownInv'
  <2> DEFINE s == IF Dispatches(u)
                    THEN <<"transcript", "processed", "dispatching">>
                    ELSE <<"transcript", "processed">>
  <2>1. /\ s \in Seq(Kinds)
        /\ \A i \in 1 .. Len(s) : s[i] \notin {"stopped", "muted"}
    <3>1. CASE Dispatches(u)
      BY <3>1 DEF Kinds
    <3>2. CASE ~Dispatches(u)
      BY <3>2 DEF Kinds
    <3> QED  BY <3>1, <3>2
  <2>2. /\ events' = events \o s
        /\ pc = "transcribe" /\ pc' \in {"dispatch", "top"}
        /\ window' \in BOOLEAN /\ invited' \in BOOLEAN
        /\ wasPaused' = wasPaused /\ UNCHANGED <<flags, windowVars>>
    BY <1>9 DEF Transcribes, Emits, Worker
  <2> HIDE DEF s
  <2> QED
    BY <1>3, <2>1, <2>2, WorkerReports DEF Looping, Hearing
<1> QED  BY <1>4, <1>5, <1>6, <1>7, <1>8, <1>9

\* The window's thread.
LEMMA ShownWindowThread == ASSUME ShownInv, WindowThread PROVE ShownInv'
<1> USE ShownFacts
<1>1. CASE StartThread
  <2>1. NoMuted'
    BY <1>1 DEF StartThread, Offline, NoOldMute, NoMuted
  <2>2. WakeTypeOK'
    BY <1>1 DEF StartThread, WakeTypeOK, PCs, workerVars
  <2> QED
    BY <1>1, <2>1, <2>2 DEF StartThread, ShownInv, Runs, NoOldMute, StartsUnmuted,
       Unmutes, Ends, Looping, Hearing, Ended
<1>2. CASE StartReports
  <2>1. events' = Append(events, "starting") /\ events' = events \o <<"starting">>
        /\ <<"starting">> \in Seq(Kinds) /\ Len(<<"starting">>) = 1
        /\ <<"starting">>[1] = "starting" /\ ui' = ui
    BY <1>2, Appended DEF StartReports, Kinds
  <2>2. \A i \in 1 .. Len(<<"starting">>) : <<"starting">>[i] \notin {"stopped", "muted"}
    BY <2>1
  <2>3. /\ RunningAfter'
        /\ ~MutedAfter => ~MutedAfter'
        /\ SaysReady => SaysReady'
        /\ NoMuted => NoMuted'
    BY <2>1, <2>2, Reported, LastSays
  <2>4. WakeTypeOK'
    BY <1>2, <2>1, Emitted DEF StartReports, WakeTypeOK, workerVars, flags
  <2> QED
    BY <1>2, <2>3, <2>4 DEF StartReports, workerVars, ShownInv, Runs, NoOldMute,
       StartsUnmuted, Unmutes, Ends
<1>3. CASE StopClicked \/ CloseClicked
  <2>1. events' = events \o <<"stopping">>
        /\ <<"stopping">> \in Seq(Kinds) /\ Len(<<"stopping">>) = 1
        /\ <<"stopping">>[1] = "stopping" /\ ui' = ui
    BY <1>3, Appended DEF StopClicked, CloseClicked, Kinds
  <2>2. \A i \in 1 .. Len(<<"stopping">>) : <<"stopping">>[i] \notin {"stopped", "muted"}
    BY <2>1
  <2>3. /\ RunningAfter => RunningAfter'
        /\ ~MutedAfter => ~MutedAfter'
        /\ SaysReady => SaysReady'
        /\ NoMuted => NoMuted'
    BY <2>1, <2>2, Reported
  <2>4. WakeTypeOK'
    BY <1>3, <2>1, Emitted DEF StopClicked, CloseClicked, WakeTypeOK, workerVars
  <2>5. /\ pc' = pc /\ wasPaused' = wasPaused
        /\ uiPc = "idle"
        /\ late' = (late \/ pc \in Ended)
    BY <1>3 DEF StopClicked, CloseClicked, Online, workerVars
  <2>6. Ends'
    BY <2>5 DEF Ends
  <2> QED
    BY <2>1, <2>3, <2>4, <2>5, <2>6 DEF ShownInv, Runs, NoOldMute, StartsUnmuted, Unmutes
<1>4. CASE MuteClicked
  BY <1>4 DEF MuteClicked, WakeTypeOK, ShownInv, Runs, NoOldMute, StartsUnmuted, Unmutes,
     Ends, workerVars, windowVars, RunningAfter, MutedAfter, SaysReady, NoMuted, Alive
<1>5. CASE Poll
  <2>1. /\ events' = << >> /\ uiPc = "idle" /\ uiPc' = uiPc
        /\ ui' = [running |-> RunningAfter, muted |-> MutedAfter]
        /\ pc' = pc /\ wasPaused' = wasPaused /\ late' = late
    BY <1>5 DEF Poll, workerVars
  <2>2. /\ RunningAfter' <=> RunningAfter
        /\ MutedAfter' <=> MutedAfter
        /\ NoMuted'
        /\ ui'.running = RunningAfter /\ ui'.muted = MutedAfter
    BY <2>1, NothingWaits
  <2>3. ui' \in [running : BOOLEAN, muted : BOOLEAN]
    BY <2>1 DEF RunningAfter, MutedAfter
  <2>4. WakeTypeOK'
    BY <1>5, <2>3 DEF Poll, WakeTypeOK, workerVars, flags
  <2>5. pc \in {"none", "boot"} => ~MutedAfter
    BY DEF NoOldMute, StartsUnmuted, NoMuted, MutedAfter
  <2>6. Runs' /\ NoOldMute' /\ StartsUnmuted'
    BY <2>1, <2>2, <2>5 DEF Runs, NoOldMute, StartsUnmuted
  <2>7. Unmutes'
    BY <2>1, <2>2 DEF Unmutes
  <2>8. Ends'
    BY <2>1, <2>2 DEF Ends, Alive
  <2> QED  BY <2>4, <2>6, <2>7, <2>8 DEF ShownInv
<1>6. CASE Quit
  BY <1>6 DEF Quit, WakeTypeOK, PCs, Ended, ShownInv, Runs, NoOldMute, StartsUnmuted, Unmutes,
     Ends, Alive, Looping, Hearing, workerVars, flags, NoMuted
<1> QED
  BY <1>1, <1>2, <1>3, <1>4, <1>5, <1>6 DEF WindowThread

\* The first and the last steps of a worker, and those that look at the flags.
LEMMA ShownBounds ==
  ASSUME ShownInv, Boots \/ Crashes \/ SeesStop \/ ReportsEnd \/ Exits
  PROVE  ShownInv'
<1> USE ShownFacts
<1>1. CASE Boots
  <2>1. /\ events' = events \o <<"ready">> /\ ui' = ui
        /\ <<"ready">> \in Seq(Kinds)
        /\ \A i \in 1 .. Len(<<"ready">>) : <<"ready">>[i] \notin {"stopped", "muted"}
    BY <1>1 DEF Boots, Emits, windowVars, Kinds
  <2>2. /\ RunningAfter => RunningAfter'
        /\ ~MutedAfter => ~MutedAfter'
        /\ NoMuted => NoMuted'
    BY <2>1, Reported
  <2>3. pc = "boot" /\ pc' = "top" /\ UNCHANGED windowVars
    BY <1>1 DEF Boots, Worker
  <2>4. ~MutedAfter /\ ~ui.muted /\ ui.running
    BY <2>3 DEF NoOldMute, StartsUnmuted, NoMuted, MutedAfter, Runs
  <2>5. WakeTypeOK'
    BY <1>1, <2>1, Emitted DEF Boots, WakeTypeOK, PCs, Looping, flags, windowVars
  <2> QED
    BY <2>2, <2>3, <2>4, <2>5 DEF ShownInv, Runs, NoOldMute, StartsUnmuted, Unmutes, Ends,
       Looping, Hearing, Ended, windowVars
<1>2. CASE Crashes \/ SeesStop
  <2>1. PICK k \in {"crashed", "stopped"} : events' = events \o <<k>>
    BY <1>2 DEF Crashes, SeesStop, Emits
  <2>2. <<k>> \in Seq(Kinds) /\ Len(<<k>>) = 1 /\ <<k>>[1] = k
    BY <2>1 DEF Kinds
  <2>3. NoMuted => NoMuted'
    <3>1. \A i \in 1 .. Len(<<k>>) : <<k>>[i] # "muted"
      BY <2>1, <2>2
    <3> QED  BY <2>1, <2>2, <3>1, StaysSaid
  <2>4. pc' = "ending" /\ UNCHANGED <<flags, workerVars, windowVars>>
    BY <1>2 DEF Crashes, SeesStop
  <2>5. WakeTypeOK'
    BY <2>1, <2>2, <2>4, Emitted DEF WakeTypeOK, PCs, flags, workerVars, windowVars
  <2>6. ui.running
    BY <1>2 DEF Crashes, SeesStop, Worker, Runs, Looping
  <2> QED
    BY <2>3, <2>4, <2>5, <2>6 DEF ShownInv, Runs, NoOldMute, StartsUnmuted, Unmutes, Ends,
       Looping, Hearing, Ended, windowVars
<1>3. CASE ReportsEnd
  <2>1. events' = events \o <<"stopped">> /\ ui' = ui
        /\ events' = Append(events, "stopped")
        /\ <<"stopped">> \in Seq(Kinds) /\ Len(<<"stopped">>) = 1 /\ <<"stopped">>[1] = "stopped"
    BY <1>3, Appended DEF ReportsEnd, Emits, windowVars, Kinds
  <2>2. (NoMuted => NoMuted') /\ ~RunningAfter'
    <3>1. \A i \in 1 .. Len(<<"stopped">>) : <<"stopped">>[i] # "muted"
      BY <2>1
    <3> QED  BY <2>1, <3>1, StaysSaid, LastSays
  <2>3. pc' = "exiting" /\ UNCHANGED <<flags, workerVars, windowVars>>
    BY <1>3 DEF ReportsEnd
  <2>4. WakeTypeOK'
    BY <2>1, <2>3, Emitted DEF WakeTypeOK, PCs, Ended, flags, workerVars, windowVars
  <2>5. pc = "ending"
    BY <1>3 DEF ReportsEnd, Worker
  <2> QED
    BY <2>1, <2>2, <2>3, <2>4, <2>5 DEF ShownInv, Runs, NoOldMute, StartsUnmuted, Unmutes, Ends,
       Looping, Hearing, Ended, windowVars
<1>4. CASE Exits
  BY <1>4 DEF Exits, Worker, WakeTypeOK, PCs, Ended, ShownInv, Runs, NoOldMute, StartsUnmuted,
     Unmutes, Ends, Alive, Looping, Hearing, flags, workerVars, windowVars, NoMuted, RunningAfter
<1> QED  BY <1>1, <1>2, <1>3, <1>4

\* The worker looks at the pause event.
LEMMA ShownPause ==
  ASSUME ShownInv, SeesPause \/ StartsCapture
  PROVE  ShownInv'
<1> USE ShownFacts
<1>1. pc = "top" /\ ui.running /\ UNCHANGED <<flags, window, invited, windowVars>>
  BY DEF SeesPause, StartsCapture, Worker, Runs, Looping
<1>2. CASE SeesPause
  <2> DEFINE s == IF wasPaused THEN << >> ELSE <<"muted">>
  <2>1. s \in Seq(Kinds) /\ \A i \in 1 .. Len(s) : s[i] # "stopped"
    <3>1. CASE wasPaused
      BY <3>1
    <3>2. CASE ~wasPaused
      BY <3>2 DEF Kinds
    <3> QED  BY <3>1, <3>2
  <2>2. events' = events \o s /\ pc' = "paused" /\ wasPaused' = TRUE /\ ui' = ui
    BY <1>2 DEF SeesPause, Emits, windowVars
  <2> HIDE DEF s
  <2>3. RunningAfter => RunningAfter'
    BY <2>1, <2>2, StaysRunning
  <2>4. WakeTypeOK'
    BY <1>1, <2>1, <2>2, Emitted DEF WakeTypeOK, PCs, Looping, flags, windowVars
  <2> QED
    BY <1>1, <2>2, <2>3, <2>4 DEF ShownInv, Runs, NoOldMute, StartsUnmuted, Unmutes, Ends,
       Looping, Hearing, Ended, windowVars
<1>3. CASE StartsCapture
  <2> DEFINE s == IF wasPaused THEN <<"ready", "capture">> ELSE <<"capture">>
  <2>1. s \in Seq(Kinds) /\ \A i \in 1 .. Len(s) : s[i] \notin {"stopped", "muted"}
    <3>1. CASE wasPaused
      BY <3>1 DEF Kinds
    <3>2. CASE ~wasPaused
      BY <3>2 DEF Kinds
    <3> QED  BY <3>1, <3>2
  <2>2. events' = events \o s /\ pc' = "capture" /\ wasPaused' = FALSE /\ ui' = ui
    BY <1>3 DEF StartsCapture, Emits, windowVars
  <2>3. wasPaused => ~MutedAfter' /\ SaysReady'
    BY <2>2, ReadyUnmutes
  <2> HIDE DEF s
  <2>4. /\ RunningAfter => RunningAfter'
        /\ ~MutedAfter => ~MutedAfter'
        /\ SaysReady => SaysReady'
    BY <2>1, <2>2, Reported
  <2>5. WakeTypeOK'
    BY <1>1, <2>1, <2>2, Emitted DEF WakeTypeOK, PCs, Looping, Hearing, flags, windowVars
  <2>6. Unmutes'
    BY <1>1, <2>2, <2>3, <2>4 DEF Unmutes, Looping, Hearing
  <2> QED
    BY <1>1, <2>2, <2>4, <2>5, <2>6 DEF ShownInv, Runs, NoOldMute, StartsUnmuted, Ends,
       Looping, Hearing, Ended, windowVars
<1> QED  BY <1>2, <1>3

\* Every step keeps ShownInv.
LEMMA ShownNext == ASSUME ShownInv, [WakeNext]_wakeVars PROVE ShownInv'
<1>1. CASE WindowThread
  BY <1>1, ShownWindowThread
<1>2. CASE WorkerMoves
  BY <1>2, ShownBounds, ShownLooping, ShownPause DEF WorkerMoves
<1>3. CASE Crashes
  BY <1>3, ShownBounds
<1>4. CASE MindAnswers
  BY <1>4, ShownLooping
<1>5. CASE WindowExpires
  BY <1>5 DEF WindowExpires, WakeTypeOK, ShownInv, Runs, NoOldMute, StartsUnmuted, Unmutes,
     Ends, flags, windowVars, RunningAfter, MutedAfter, SaysReady, NoMuted, Alive
<1>6. CASE UNCHANGED wakeVars
  BY <1>6 DEF wakeVars, workerVars, flags, windowVars, WakeTypeOK, ShownInv, Runs, NoOldMute,
     StartsUnmuted, Unmutes, Ends, RunningAfter, MutedAfter, SaysReady, NoMuted, Alive
<1> QED  BY <1>1, <1>2, <1>3, <1>4, <1>5, <1>6 DEF WakeNext

LEMMA Shown == WakeSpec => []ShownInv
BY ShownInit, ShownNext, PTL DEF WakeSpec

-----------------------------------------------------------------------------
(* The theorems.                                                            *)

\* The listener's state is of its type, for a queue of any size.
THEOREM TypeCorrect == WakeSpec => []WakeTypeOK
<1>1. ShownInv => WakeTypeOK
  BY DEF ShownInv
<1> QED  BY <1>1, Shown, PTL

\* A listener that may record can be stopped and muted from its window.
THEOREM HotMicStops == WakeSpec => []HotMicCanBeStopped
<1>1. ShownInv => HotMicCanBeStopped
  BY DEF ShownInv, Runs, HotMicCanBeStopped
<1> QED  BY <1>1, Shown, PTL

\* A window that shows Muted has a deaf worker, or is about to be told.
THEOREM MutedIsDeaf == WakeSpec => []MutedMeansDeaf
<1>1. ShownInv => MutedMeansDeaf
  BY DEF ShownInv, Unmutes, SaysReady, MutedMeansDeaf, Looping
<1> QED  BY <1>1, Shown, PTL

\* An ended worker is shown offline from the next poll on.
THEOREM EndIsShown == WakeSpec => []OfflineIsShown
<1>1. ShownInv => OfflineIsShown
  BY DEF ShownInv, Ends, Ended, OfflineIsShown
<1> QED  BY <1>1, Shown, PTL

\* The follow-up window is open only after a wake phrase not taken back.
OpenIsInvited == window => invited

\* Every step keeps it, and a command dispatched was said into such a window
\* or after a wake phrase of its own.
LEMMA InvitedNext ==
  ASSUME OpenIsInvited, [WakeNext]_wakeVars
  PROVE  OpenIsInvited' /\ (pc # "dispatch" /\ pc' = "dispatch" => invited')
<1>1. CASE WindowThread
  BY <1>1 DEF WindowThread, StartThread, StartReports, StopClicked, MuteClicked, Poll,
     CloseClicked, Quit, workerVars, OpenIsInvited
<1>2. ASSUME NEW u \in Utterances, Transcribes(u)
      PROVE  OpenIsInvited' /\ (pc' = "dispatch" => invited')
  BY <1>2 DEF Transcribes, Dispatches, Canceled, Triggered, OpenIsInvited
<1>3. CASE WorkerMoves
  BY <1>2, <1>3 DEF WorkerMoves, Boots, SeesStop, SeesPause, WakesUp, StartsCapture,
     CapturesNothing, CapturesSpeech, TranscribesNothing, ReportsEnd, Exits,
     workerVars, OpenIsInvited
<1>4. CASE Crashes \/ MindAnswers \/ WindowExpires \/ UNCHANGED wakeVars
  BY <1>4 DEF Crashes, MindAnswers, WindowExpires, wakeVars, workerVars, OpenIsInvited
<1> QED  BY <1>1, <1>3, <1>4 DEF WakeNext

\* No command reaches the mind uninvited.
THEOREM DispatchInvited == WakeSpec => DispatchIsInvited
<1>1. WakeInit => OpenIsInvited
  BY DEF WakeInit, OpenIsInvited
<1>2. OpenIsInvited /\ [WakeNext]_wakeVars => OpenIsInvited'
  BY InvitedNext
<1>3. OpenIsInvited /\ [WakeNext]_wakeVars => [pc # "dispatch" /\ pc' = "dispatch" => invited']_wakeVars
  BY InvitedNext
<1> QED  BY <1>1, <1>2, <1>3, PTL DEF WakeSpec, DispatchIsInvited

\* The window shows the truth of the worker.
THEOREM WindowCorrect == WakeSpec => []WindowIsTrue
<1> QED  BY HotMicStops, MutedIsDeaf, EndIsShown, PTL DEF WindowIsTrue

=============================================================================
