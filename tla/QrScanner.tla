------------------------------ MODULE QrScanner ------------------------------
(***************************************************************************)
(* The QR scanner: the page that opens and leaves sessions (ui_qr.c), the  *)
(* scanner thread that films for the current session (qr_scanner.c), the   *)
(* decoder thread that works on one frame at a time and may report a code  *)
(* long after its session (qr_decoder.c), and the entropy thread that      *)
(* wants the same camera (camera.c).                                       *)
(*                                                                         *)
(* The page's callbacks and its events run under the LVGL lock, one at a   *)
(* time, but each atomic of a callback is a step of its own: scanner_lock  *)
(* excludes only other callbacks, and the priorities of the threads are    *)
(* configuration.  A frame is the number of the session it was filmed in.  *)
(***************************************************************************)
EXTENDS Camera

CONSTANT MaxSessions     \* bound on scanner_session

ASSUME ScannerAssumption == MaxSessions \in Nat

VARIABLES
  requested,     \* scanner_requested
  state,         \* scanner_state
  session,       \* scanner_session
  wake,          \* scanner_control, a semaphore of limit 1
  result,        \* result_session and the frame result_code was decoded from
  lock,          \* result_lock: held by the decoder across steps
  preview,       \* frame in preview_snapshot, 0 while preview_generation is 0
  tPc, tSession, \* scanner thread: step and session
  tRet,          \* its verdict: "ok", "error", "RESULT" or "STOPPED"
  dPc, dFrame,   \* decoder: "idle", "ready", "decode", "found" or "locked"; its frame
  page, uiSession, \* the page is open; its scanner_session
  uiPc, uiState, \* step of a callback of the page, and the state a stop has read
  event, marked, \* pending_qr_event, and whether the event thread is to see it
  previewing,    \* preview_timer runs
  pixels,        \* frame in preview_buffer, which outlives its page; 0 before the first copy
  copied,        \* the page's preview_generation is not 0: it has copied a frame
  screen         \* what the page shows: its label, whether preview_object is there, and the
                 \* frame of the result

previewVars == <<previewing, pixels, copied>>
pageVars    == <<page, uiSession, uiPc, uiState, previewVars, screen>>
eventVars   == <<event, marked>>
sharedVars  == <<requested, session, wake, result, lock>>
threadVars  == <<tPc, tSession, tRet>>
decoderVars == <<dPc, dFrame>>
vars == <<cameraVars, sharedVars, state, preview, threadVars, decoderVars, eventVars, pageVars>>

NoResult == [session |-> 0, frame |-> 0]
Blank == [label |-> "Starting", image |-> FALSE, result |-> 0]

\* scanner_publish(): the state first, then the event, which the UI's listener copies.
Announce(s, n) == event' = [state |-> s, session |-> n] /\ marked' = TRUE

-----------------------------------------------------------------------------
(* The page: ui_qr_render() and app_qr_scanner_start().                    *)

Open ==
  /\ uiPc = "idle" /\ ~page
  /\ page' = TRUE /\ screen' = Blank /\ copied' = FALSE
  /\ IF state \in {"STARTING", "RUNNING", "STOPPING"}
     THEN UNCHANGED <<session, uiSession, uiPc>>
     ELSE /\ session < MaxSessions
          /\ session' = session + 1 /\ uiSession' = session + 1 /\ uiPc' = "reset"
  /\ UNCHANGED <<cameraVars, requested, wake, result, lock, state, preview, threadVars,
                 decoderVars, eventVars, uiState, previewing, pixels>>

OpenReset ==
  /\ uiPc = "reset" /\ ~lock
  /\ result' = NoResult /\ uiPc' = "request"
  /\ UNCHANGED <<cameraVars, requested, session, wake, lock, state, preview, threadVars,
                 decoderVars, eventVars, page, uiSession, uiState, previewVars, screen>>

OpenRequest ==
  /\ uiPc = "request"
  /\ requested' = TRUE /\ uiPc' = "publish"
  /\ UNCHANGED <<cameraVars, session, wake, result, lock, state, preview, threadVars,
                 decoderVars, eventVars, page, uiSession, uiState, previewVars, screen>>

OpenState ==
  /\ uiPc = "publish"
  /\ state' = "STARTING" /\ uiPc' = "give"
  /\ UNCHANGED <<cameraVars, sharedVars, preview, threadVars, decoderVars, eventVars,
                 page, uiSession, uiState, previewVars, screen>>

OpenGive ==
  /\ uiPc = "give"
  /\ Announce("STARTING", uiSession) /\ wake' = TRUE /\ uiPc' = "idle"
  /\ UNCHANGED <<cameraVars, requested, session, result, lock, state, preview, threadVars,
                 decoderVars, page, uiSession, uiState, previewVars, screen>>

(* ui_qr_leave() and app_qr_scanner_stop().                                *)

Leave ==
  /\ uiPc = "idle" /\ page
  /\ uiState' = state /\ previewing' = FALSE
  /\ uiPc' = IF state \in {"STOPPED", "ERROR"} THEN "left" ELSE "stop"
  /\ UNCHANGED <<cameraVars, sharedVars, state, preview, threadVars, decoderVars, eventVars,
                 page, uiSession, pixels, copied, screen>>

LeaveStop ==
  /\ uiPc = "stop"
  /\ requested' = FALSE
  /\ uiPc' = IF uiState \in {"STARTING", "RUNNING"} THEN "stopping" ELSE "left"
  /\ UNCHANGED <<cameraVars, session, wake, result, lock, state, preview, threadVars,
                 decoderVars, eventVars, page, uiSession, uiState, previewVars, screen>>

LeaveState ==
  /\ uiPc = "stopping"
  /\ state' = "STOPPING" /\ uiPc' = "stopped"
  /\ UNCHANGED <<cameraVars, sharedVars, preview, threadVars, decoderVars, eventVars,
                 page, uiSession, uiState, previewVars, screen>>

LeaveAnnounce ==
  /\ uiPc = "stopped"
  /\ Announce("STOPPING", session) /\ uiPc' = "left"
  /\ UNCHANGED <<cameraVars, sharedVars, state, preview, threadVars, decoderVars,
                 page, uiSession, uiState, previewVars, screen>>

Left ==
  /\ uiPc = "left"
  /\ page' = FALSE /\ uiSession' = 0 /\ uiPc' = "idle" /\ screen' = Blank /\ uiState' = "STOPPED"
  /\ UNCHANGED <<cameraVars, sharedVars, state, preview, threadVars, decoderVars, eventVars,
                 previewVars>>

(* Events and the preview's timer.                                         *)

\* app_qr_scanner_result_copy(): only the result of the session that ended with one.
Copied(n) == IF result.session = n /\ state = "RESULT" THEN result.frame ELSE 0

\* preview_prepare(): an image of the buffer, which still holds what earlier pages copied, and a
\* timer, with the generation reset; there may be no memory for the first buffer, or for the timer.
PreparePreview ==
  \E image \in {screen.image, TRUE}, timer \in {previewing, TRUE} :
    /\ pixels # 0 \/ timer => image
    /\ previewing' = timer /\ copied' = (copied /\ previewing)
    /\ screen' = [screen EXCEPT !.image = image,
                                !.label = IF timer THEN "RUNNING" ELSE "NoPreview"]

\* The result, or that there is none; the image stays, but is copied to no more.
ShowResult ==
  /\ previewing' = FALSE /\ UNCHANGED copied
  /\ screen' = IF Copied(uiSession) = 0
               THEN [screen EXCEPT !.label = "Unavailable"]
               ELSE [screen EXCEPT !.label = "RESULT", !.result = Copied(uiSession)]

\* ui_qr_event(), from the event thread of ui_controller.c.
HandleEvent ==
  /\ uiPc = "idle" /\ marked /\ ~lock
  /\ marked' = FALSE
  /\ \/ /\ page /\ event.session = uiSession
        /\ \/ event.state = "RUNNING" /\ PreparePreview
           \/ event.state = "RESULT" /\ ShowResult
           \/ /\ event.state \notin {"RUNNING", "RESULT"}
              /\ screen' = [screen EXCEPT !.label = event.state]
              /\ UNCHANGED <<previewing, copied>>
     \/ /\ ~(page /\ event.session = uiSession)
        /\ UNCHANGED <<previewing, copied, screen>>
  /\ UNCHANGED <<cameraVars, sharedVars, state, preview, threadVars, decoderVars, event,
                 page, uiSession, uiPc, uiState, pixels>>

\* preview_tick(): copies the snapshot, unless there is none yet, into the buffer of the image.
PreviewTick ==
  /\ uiPc = "idle" /\ previewing /\ screen.image /\ preview # 0
  /\ pixels' = preview /\ copied' = TRUE
  /\ UNCHANGED <<cameraVars, sharedVars, state, preview, threadVars, decoderVars, eventVars,
                 page, uiSession, uiPc, uiState, previewing, screen>>

PageCallback == OpenReset \/ OpenRequest \/ OpenState \/ OpenGive
                \/ LeaveStop \/ LeaveState \/ LeaveAnnounce \/ Left

-----------------------------------------------------------------------------
(* The scanner thread.                                                     *)

Thread(pc) == tPc' = pc /\ UNCHANGED <<tSession, tRet>>
Verdict(pc, ret) == tPc' = pc /\ tRet' = ret /\ UNCHANGED tSession

Waiting == tPc' = "wait" /\ tSession' = 0 /\ tRet' = "ok"

Take ==
  /\ tPc = "wait" /\ wake
  /\ wake' = FALSE /\ tSession' = session /\ tPc' = "check" /\ UNCHANGED tRet
  /\ UNCHANGED <<cameraVars, requested, session, result, lock, state, preview, decoderVars,
                 eventVars, pageVars>>

Check ==
  /\ tPc = "check"
  /\ IF requested THEN Thread("start") ELSE Verdict("state", "STOPPED")
  /\ UNCHANGED <<cameraVars, sharedVars, state, preview, decoderVars, eventVars, pageVars>>

\* scanner_capture() until the stream runs.
StartCamera ==
  /\ \/ tPc = "start" /\ Claim("scanner") /\ Thread("starting")
     \/ tPc = "start" /\ Busy("scanner") /\ Verdict("end", "error")
     \/ tPc = "starting" /\ NotStarted("scanner") /\ Verdict("end", "error")
     \/ tPc = "starting" /\ Started("scanner") /\ Thread("prepare")
  /\ UNCHANGED <<sharedVars, state, preview, decoderVars, eventVars, pageVars>>

\* Faulty variant: the generation of the previous session's preview is kept.
PrepareKeeping ==
  /\ tPc = "prepare"
  /\ Thread("running") \/ Verdict("stop", "error")
  /\ UNCHANGED <<cameraVars, sharedVars, state, preview, decoderVars, eventVars, pageVars>>

\* Snapshot and decoder, which may be unavailable; then the first preview is waited for.
Prepare ==
  /\ tPc = "prepare"
  /\ \/ preview' = 0 /\ Thread("running")
     \/ Verdict("stop", "error") /\ UNCHANGED preview
  /\ UNCHANGED <<cameraVars, sharedVars, state, decoderVars, eventVars, pageVars>>

RunningState ==
  /\ tPc = "running"
  /\ state' = "RUNNING" /\ Verdict("announce", "ok")
  /\ UNCHANGED <<cameraVars, sharedVars, preview, decoderVars, eventVars, pageVars>>

RunningAnnounce ==
  /\ tPc = "announce"
  /\ Announce("RUNNING", tSession) /\ Thread("loop")
  /\ UNCHANGED <<cameraVars, sharedVars, state, preview, decoderVars, pageVars>>

\* Faulty variant: the loop asks only whether there is a newer session.
WantedSession == tSession = session

Wanted == requested /\ tSession = session

Loop ==
  /\ tPc = "loop"
  /\ Thread(IF Wanted THEN "frame" ELSE "stop")
  /\ UNCHANGED <<cameraVars, sharedVars, state, preview, decoderVars, eventVars, pageVars>>

\* The first frame goes into the preview at once, later ones every 100 ms; the decoder gets one if
\* it is idle and due.
Frame ==
  /\ tPc = "frame"
  /\ \/ /\ preview' = tSession
        /\ \/ dPc = "idle" /\ dPc' = "ready" /\ dFrame' = tSession
           \/ UNCHANGED decoderVars
        /\ Thread("loop") \/ Verdict("stop", "error")
     \/ /\ Thread("loop") \/ Verdict("stop", "error")
        /\ UNCHANGED <<preview, decoderVars>>
  /\ UNCHANGED <<cameraVars, sharedVars, state, eventVars, pageVars>>

StopCamera ==
  /\ tPc = "stop"
  /\ \/ Stopped("scanner") /\ Thread("end")
     \/ StopFailed("scanner") /\ Verdict("end", "error")
  /\ UNCHANGED <<sharedVars, state, preview, decoderVars, eventVars, pageVars>>

End ==
  /\ tPc = "end"
  /\ requested' = FALSE
  /\ Thread(IF tRet = "error" THEN "state" ELSE "judge")
  /\ UNCHANGED <<cameraVars, session, wake, result, lock, state, preview, decoderVars,
                 eventVars, pageVars>>

Judge ==
  /\ tPc = "judge" /\ ~lock
  /\ Verdict("state", IF result.session = tSession THEN "RESULT" ELSE "STOPPED")
  /\ UNCHANGED <<cameraVars, sharedVars, state, preview, decoderVars, eventVars, pageVars>>

Final == IF tRet = "error" THEN "ERROR" ELSE tRet

FinalState ==
  /\ tPc = "state"
  /\ state' = Final /\ Thread("final")
  /\ UNCHANGED <<cameraVars, sharedVars, preview, decoderVars, eventVars, pageVars>>

\* Faulty variant: wake-ups that came during the session are discarded with it.
FinalAnnounceDraining ==
  /\ tPc = "final"
  /\ Announce(Final, tSession) /\ wake' = FALSE /\ Waiting
  /\ UNCHANGED <<cameraVars, requested, session, result, lock, state, preview, decoderVars, pageVars>>

FinalAnnounce ==
  /\ tPc = "final"
  /\ Announce(Final, tSession) /\ Waiting
  /\ UNCHANGED <<cameraVars, sharedVars, state, preview, decoderVars, pageVars>>

ScannerThread ==
  \/ Take \/ Check \/ StartCamera \/ Prepare \/ RunningState \/ RunningAnnounce \/ Loop
  \/ Frame \/ StopCamera \/ End \/ Judge \/ FinalState \/ FinalAnnounce

-----------------------------------------------------------------------------
(* The decoder thread, and scanner_qr_found(), its callback.               *)

Decoder(pc) == dPc' = pc /\ UNCHANGED dFrame

Decode ==
  /\ dPc = "ready" /\ Decoder("decode")
  /\ UNCHANGED <<cameraVars, sharedVars, state, preview, threadVars, eventVars, pageVars>>

\* The next code of the frame, or no more: a code is reported for the session of its frame.
Decoded ==
  /\ dPc = "decode" /\ (Decoder("found") \/ Decoder("idle"))
  /\ UNCHANGED <<cameraVars, sharedVars, state, preview, threadVars, eventVars, pageVars>>

\* Faulty variant: a code is taken for whatever session is running.
AnyWelcome == requested

Welcome == dFrame = session /\ requested

Found ==
  /\ dPc = "found"
  /\ IF Welcome THEN ~lock /\ lock' = TRUE /\ Decoder("locked")
                ELSE UNCHANGED lock /\ Decoder("decode")
  /\ UNCHANGED <<cameraVars, requested, session, wake, result, state, preview, threadVars,
                 eventVars, pageVars>>

\* The second look under the lock, and the result.
FoundLocked ==
  /\ dPc = "locked"
  /\ IF Welcome THEN Decoder("store") /\ UNCHANGED lock ELSE lock' = FALSE /\ Decoder("decode")
  /\ UNCHANGED <<cameraVars, requested, session, wake, result, state, preview, threadVars,
                 eventVars, pageVars>>

FoundStored ==
  /\ dPc = "store"
  /\ result' = [session |-> dFrame, frame |-> dFrame] /\ Decoder("unrequest")
  /\ UNCHANGED <<cameraVars, requested, session, wake, lock, state, preview, threadVars,
                 eventVars, pageVars>>

FoundUnrequest ==
  /\ dPc = "unrequest"
  /\ requested' = FALSE /\ lock' = FALSE /\ Decoder("decode")
  /\ UNCHANGED <<cameraVars, session, wake, result, state, preview, threadVars, eventVars, pageVars>>

DecoderThread == Decode \/ Decoded \/ Found \/ FoundLocked \/ FoundStored \/ FoundUnrequest

-----------------------------------------------------------------------------
Init ==
  /\ CameraStart
  /\ requested = FALSE /\ state = "STOPPED" /\ session = 0 /\ wake = FALSE
  /\ result = NoResult /\ lock = FALSE /\ preview = 0
  /\ tPc = "wait" /\ tSession = 0 /\ tRet = "ok"
  /\ dPc = "idle" /\ dFrame = 0
  /\ page = FALSE /\ uiSession = 0 /\ uiPc = "idle" /\ uiState = "STOPPED"
  /\ event = [state |-> "STOPPED", session |-> 0] /\ marked = FALSE
  /\ previewing = FALSE /\ pixels = 0 /\ copied = FALSE /\ screen = Blank

EntropyThread ==
  /\ EntropyFilms
  /\ UNCHANGED <<sharedVars, state, preview, threadVars, decoderVars, eventVars, pageVars>>

Next ==
  \/ Open \/ Leave \/ PageCallback \/ HandleEvent \/ PreviewTick
  \/ ScannerThread \/ DecoderThread \/ EntropyThread

\* Every thread runs when it can; nobody has to open or leave the page.  A mutex that is given
\* back goes to the thread that waits for it.
Fairness ==
  /\ WF_vars(PageCallback) /\ WF_vars(HandleEvent)
  /\ WF_vars(DecoderThread)
  /\ WF_vars(ScannerThread) /\ SF_vars(Judge)

Spec == Init /\ [][Next]_vars /\ Fairness

-----------------------------------------------------------------------------
(* Properties                                                              *)

\* The type invariant of the scanner, its page, its decoder and the camera.
TypeOK ==
  /\ {requested, wake, lock, inUse, buffers, page, marked, previewing, copied,
      screen.image} \subseteq BOOLEAN
  /\ cam \in [CameraUsers -> {"off", "starting", "on"}]
  /\ {state, uiState, event.state} \subseteq
       {"STOPPED", "STARTING", "RUNNING", "STOPPING", "RESULT", "ERROR"}
  /\ {session, result.session, result.frame, preview, tSession, dFrame, uiSession, event.session,
      pixels, screen.result} \subseteq 0..MaxSessions
  /\ tPc \in {"wait", "check", "start", "starting", "prepare", "running", "announce", "loop",
              "frame", "stop", "end", "judge", "state", "final"}
  /\ tRet \in {"ok", "error", "RESULT", "STOPPED"}
  /\ dPc \in {"idle", "ready", "decode", "found", "locked", "store", "unrequest"}
  /\ uiPc \in {"idle", "reset", "request", "publish", "give", "stop", "stopping", "stopped", "left"}

\* "The camera service uses an atomic occupancy flag so QR scanning and entropy collection cannot
\* start the video stream simultaneously" (docs/mnemonic-entropy.md:56).
OneCameraUser == Cardinality({u \in CameraUsers : cam[u] # "off"}) <= 1

\* What the page copies is of its own session: a code that the decoder reports late never appears
\* on a page opened since, and a page that has copied a frame shows no other session's, although the
\* snapshot it is copied from still holds the last one of the session before when the page is opened.
\* Until its first copy a page may show an earlier page's frame, since nothing clears preview_buffer
\* (camera/qr_scanner.c:55-75, 147-149, 305-319; ui_qr.c:27-46, 93-103).
CopiesAreCurrent ==
  /\ TypeOK
  /\ page => screen.result \in {0, uiSession}
  /\ page /\ copied => pixels = uiSession

\* A session ends for a reason of its own while its page is open: it is never reported as
\* stopped, and a result that is announced can be read, although the codes, the stop and the end
\* of the session before it may still be under way when it starts (qr_scanner.c:197-216, 235-243).
NothingEndsIt == screen.label \notin {"STOPPED", "Unavailable"}

\* A page that got a session sees it run, with or without a preview, give a result or fail, unless
\* it is left before (qr_scanner.c:195-218, 241-243; ui_controller.c:388-395, 473-483).
SessionServed ==
  \A n \in 1..MaxSessions :
    (uiSession = n) ~> (uiSession # n \/ screen.label \in {"RUNNING", "NoPreview", "RESULT", "ERROR"})

\* Once the page has been left the scanner stops filming (qr_scanner.c:155-156, 184, 258).
LeavingStopsFilming == (~page /\ cam["scanner"] = "on") ~> cam["scanner"] # "on"
=============================================================================
