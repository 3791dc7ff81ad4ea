------------------------------ MODULE Microphone ------------------------------
(***************************************************************************)
(* The capture thread of the microphone (src/audio/microphone.c) and the   *)
(* beep that pauses it (src/audio/audio.c).  USB, the switch of the status *)
(* bar and entropy collection set flags and wake the thread; the beep runs *)
(* in the system work queue.  Samples, the ring buffer and the silence in  *)
(* its place are left out.                                                 *)
(***************************************************************************)
EXTENDS Naturals

CONSTANT Rates           \* sample rates of the USB interface

ASSUME MicrophoneAssumption == Rates # {}

VARIABLES
  enabled, usb, entropy, paused, rate, \* the flags and microphone_sample_rate
  changed, stopped,      \* the semaphores microphone_state_changed and microphone_stopped
  running,               \* microphone_running
  thread,                \* "wait", "start", "started", "read", "stop", "stopping" or "retry"
  active, again,         \* the thread's active_sample_rate and capture_requested
  capturing,             \* the codec and I2S are started
  beep                   \* "idle", "reset", "query", "wait" or "play"

requestVars == <<enabled, usb, entropy, rate>>
threadVars == <<running, thread, active, again, capturing>>
vars == <<requestVars, paused, changed, stopped, threadVars, beep>>

Init ==
  /\ enabled = FALSE /\ usb = FALSE /\ entropy = FALSE /\ paused = FALSE /\ rate \in Rates
  /\ changed = FALSE /\ stopped = FALSE
  /\ running = FALSE /\ thread = "wait" /\ active = rate /\ again = FALSE /\ capturing = FALSE
  /\ beep = "idle"

Wanted == (enabled /\ usb) \/ entropy

\* microphone_should_run()
ShouldRun == Wanted /\ ~paused

-----------------------------------------------------------------------------
(* Requests.                                                               *)

Wake == changed' = TRUE

SetEnabled ==
  /\ enabled' \in BOOLEAN /\ Wake
  /\ UNCHANGED <<usb, entropy, rate, paused, stopped, threadVars, beep>>

TerminalUpdate ==
  /\ usb' \in BOOLEAN /\ Wake
  /\ UNCHANGED <<enabled, entropy, rate, paused, stopped, threadVars, beep>>

SetSampleRate ==
  /\ rate' \in Rates \ {rate} /\ Wake
  /\ UNCHANGED <<enabled, usb, entropy, paused, stopped, threadVars, beep>>

\* app_microphone_entropy_start(), app_microphone_entropy_stop()
EntropyRequest ==
  /\ entropy' \in BOOLEAN /\ Wake
  /\ UNCHANGED <<enabled, usb, rate, paused, stopped, threadVars, beep>>

Request == SetEnabled \/ TerminalUpdate \/ SetSampleRate \/ EntropyRequest

-----------------------------------------------------------------------------
(* microphone_capture_thread()                                             *)

Awake ==
  /\ thread = "wait" /\ changed /\ changed' = FALSE
  /\ thread' = IF ShouldRun THEN "start" ELSE "wait"
  /\ UNCHANGED <<requestVars, paused, stopped, running, active, again, capturing, beep>>

\* microphone_capture_start(), which blocks on the codec's bus before it reports that it runs.
Start ==
  /\ thread = "start" /\ active' = rate
  /\ \/ capturing' = TRUE /\ thread' = "started"
     \/ thread' = "retry" /\ UNCHANGED capturing
  /\ UNCHANGED <<requestVars, paused, changed, stopped, running, again, beep>>

Started ==
  /\ thread = "started" /\ running' = TRUE /\ thread' = "read"
  /\ UNCHANGED <<requestVars, paused, changed, stopped, active, again, capturing, beep>>

\* After a block, or after 100 ms without one.
MustStop == ~ShouldRun \/ active # rate

Stopping == thread' = "stop" /\ again' = ShouldRun

Read ==
  /\ thread = "read" /\ MustStop /\ Stopping
  /\ UNCHANGED <<requestVars, paused, changed, stopped, running, active, capturing, beep>>

ReadFails ==
  /\ thread = "read" /\ Stopping
  /\ UNCHANGED <<requestVars, paused, changed, stopped, running, active, capturing, beep>>

\* microphone_capture_stop()
Stop ==
  /\ thread = "stop" /\ running' = FALSE /\ thread' = "stopping"
  /\ UNCHANGED <<requestVars, paused, changed, stopped, active, again, capturing, beep>>

\* Faulty variant: the thread waits to be woken, whatever is requested.
AfterStopWaiting == "wait"

\* A thread that is still wanted wakes itself.
AfterStop == IF again THEN "retry" ELSE "wait"

Stopped ==
  /\ thread = "stopping" /\ capturing' = FALSE /\ stopped' = TRUE /\ thread' = AfterStop
  /\ UNCHANGED <<requestVars, paused, changed, running, active, again, beep>>

Retry ==
  /\ thread = "retry" /\ Wake /\ thread' = "wait"
  /\ UNCHANGED <<requestVars, paused, stopped, running, active, again, capturing, beep>>

CaptureThread == Awake \/ Start \/ Started \/ Read \/ Stop \/ Stopped \/ Retry

-----------------------------------------------------------------------------
(* audio_beep_work_handler()                                               *)

\* app_microphone_pause()
Pause ==
  /\ beep = "idle" /\ beep' = "reset" /\ paused' = TRUE
  /\ UNCHANGED <<requestVars, changed, stopped, threadVars>>

ResetStopped ==
  /\ beep = "reset" /\ beep' = "query" /\ stopped' = FALSE
  /\ UNCHANGED <<requestVars, paused, changed, threadVars>>

AskStop ==
  /\ beep = "query"
  /\ \/ ~running /\ beep' = "play" /\ UNCHANGED changed
     \/ running /\ beep' = "wait" /\ Wake
  /\ UNCHANGED <<requestVars, paused, stopped, threadVars>>

SeesStopped ==
  /\ beep = "wait" /\ stopped /\ stopped' = FALSE /\ beep' = "play"
  /\ UNCHANGED <<requestVars, paused, changed, threadVars>>

\* 250 ms have passed: the beep is skipped, and the pause stays.
GivesUp ==
  /\ beep = "wait" /\ ~stopped /\ beep' = "idle"
  /\ UNCHANGED <<requestVars, paused, changed, stopped, threadVars>>

\* app_microphone_resume()
Resume == paused' = FALSE /\ Wake

Played ==
  /\ beep = "play" /\ beep' = "idle" /\ Resume
  /\ UNCHANGED <<requestVars, stopped, threadVars>>

Beep == Pause \/ ResetStopped \/ AskStop \/ SeesStopped \/ GivesUp \/ Played

Next == Request \/ CaptureThread \/ ReadFails \/ Beep

\* The capture thread runs, and a beep that plays ends.
Spec == Init /\ [][Next]_vars /\ WF_vars(CaptureThread) /\ WF_vars(ResetStopped \/ AskStop \/ SeesStopped \/ Played)

-----------------------------------------------------------------------------
\* The type invariant of the capture thread and the beep.
TypeOK ==
  /\ {enabled, usb, entropy, paused, changed, stopped, running, again, capturing} \subseteq BOOLEAN
  /\ {rate, active} \subseteq Rates
  /\ thread \in {"wait", "start", "started", "read", "stop", "stopping", "retry"}
  /\ beep \in {"idle", "reset", "query", "wait", "play"}

\* Capture that is wanted starts, or is tried again for ever: no request is lost between the flags
\* and the semaphore, nor after a beep or a change of the rate
\* (src/audio/microphone.c:100-106, 266-284, 304-314; audio.c:276).
CaptureServed == ShouldRun ~> ~ShouldRun \/ running \/ thread = "retry"

Unwanted == ~ShouldRun \/ active # rate

\* Capture stops when nobody wants it any more, when a beep pauses it and when its rate is not the
\* selected one (src/audio/microphone.c:296-304, docs/board/esp32s3-lichuang-audio.md:52-54).
CaptureStops == capturing /\ Unwanted ~> ~(capturing /\ Unwanted)

\* Both, while every variable keeps its range: capture follows what is asked of it.
CaptureFollows == []TypeOK /\ CaptureServed /\ CaptureStops

\* "Playing a local notification sound pauses capture"
\* (docs/board/esp32s3-lichuang-audio.md:55; src/audio/microphone.c:444-454).
PlayingPausesCapture == beep = "play" => ~capturing
=============================================================================
