--------------------------- MODULE QrScannerProofs ---------------------------
(***************************************************************************)
(* Three properties of QrScanner for any number of sessions: one user of   *)
(* the camera at a time, a page that copies nothing of another session, and*)
(* a session that ends only for a reason of its own.                       *)
(*                                                                         *)
(* OneUser holds because the flag is held by whoever is not off.  What is  *)
(* copied is current because the number of a session travels with all that *)
(* can be: once the start of the present session has been announced  *)
(* (Announced), the thread works for no other session and the preview      *)
(* holds no other session's frame, so that whatever the page's own buffer  *)
(* held, a copy makes it current.  A session ends by itself because the    *)
(* sessions follow one another (Turns), so that a code still being stored  *)
(* for an earlier one is out of the way before the next is requested       *)
(* (Codes), and the request is then withdrawn only for a result (Served).  *)
(***************************************************************************)
EXTENDS QrScanner, FiniteSetTheorems, TLAPS

States == {"STOPPED", "STARTING", "RUNNING", "STOPPING", "RESULT", "ERROR"}

Labels == States \cup {"Starting", "NoPreview", "Unavailable"}

\* The types that TypeOK implies, of whole records.
Types ==
  /\ session \in 0..MaxSessions /\ tSession \in 0..MaxSessions /\ dFrame \in 0..MaxSessions
  /\ preview \in 0..MaxSessions /\ uiSession \in 0..MaxSessions
  /\ result \in [session : 0..MaxSessions, frame : 0..MaxSessions]
  /\ event \in [state : States, session : 0..MaxSessions]
  /\ screen \in [label : Labels, image : BOOLEAN, result : 0..MaxSessions]
  /\ pixels \in 0..MaxSessions
  /\ state \in States /\ uiState \in States

Steps ==
  /\ tPc \in {"wait", "check", "start", "starting", "prepare", "running", "announce", "loop",
              "frame", "stop", "end", "judge", "state", "final"}
  /\ tRet \in {"ok", "error", "RESULT", "STOPPED"}
  /\ tPc \in {"state", "final"} => tRet # "ok"
  /\ dPc \in {"idle", "ready", "decode", "found", "locked", "store", "unrequest"}
  /\ uiPc \in {"idle", "reset", "request", "publish", "give", "stop", "stopping", "stopped", "left"}

Flags ==
  /\ requested \in BOOLEAN /\ wake \in BOOLEAN /\ lock \in BOOLEAN
  /\ page \in BOOLEAN /\ marked \in BOOLEAN /\ previewing \in BOOLEAN /\ copied \in BOOLEAN

\* The camera: its flag is set while one of its users is not off, and only one is.
CameraHeld ==
  /\ inUse \in BOOLEAN /\ buffers \in BOOLEAN
  /\ cam \in [CameraUsers -> {"off", "starting", "on"}]
  /\ \A u \in CameraUsers : cam[u] # "off" => inUse
  /\ \A u, v \in CameraUsers : cam[u] # "off" /\ cam[v] # "off" => u = v

\* The start of the present session has been announced, or its preview is being drawn.
Announced == previewing \/ (event.state = "RUNNING" /\ event.session = session)

Filming == {"running", "announce", "loop", "frame"}

\* Who names which session.
Numbers ==
  /\ uiSession # 0 => page /\ uiSession = session
  /\ tSession <= session /\ event.session <= session
  /\ wake \/ uiPc \in {"reset", "request", "publish", "give"} => session # 0
  /\ tPc # "wait" => tSession # 0
  /\ event.state = "RUNNING" => event.session # 0

\* What may reach the screen.
Current ==
  /\ result.frame = result.session
  /\ previewing => page /\ uiPc = "idle" /\ uiSession # 0
  /\ tPc \in Filming => preview \in {0, tSession}
  /\ Announced => preview \in {0, session} /\ tSession \in {0, session}
  /\ page => screen.result \in {0, uiSession}
  /\ page /\ copied => pixels = uiSession

IInv == Types /\ Steps /\ Flags /\ CameraHeld /\ Numbers /\ Current

-----------------------------------------------------------------------------
(* The camera.                                                             *)

\* No step of either user takes the camera from the other.
LEMMA CameraSteps ==
  ASSUME CameraHeld, NEW u \in CameraUsers,
         \/ Claim(u) \/ Busy(u) \/ Started(u) \/ NotStarted(u) \/ Stopped(u) \/ StopFailed(u)
  PROVE  CameraHeld'
<1>1. CASE Claim(u)
  BY <1>1 DEF CameraHeld, Claim, CameraUsers
<1>2. CASE Busy(u)
  BY <1>2 DEF CameraHeld, Busy, cameraVars
<1>3. CASE Started(u)
  BY <1>3 DEF CameraHeld, Started, CameraUsers
<1>4. CASE NotStarted(u)
  BY <1>4 DEF CameraHeld, NotStarted, CameraUsers
<1>5. CASE Stopped(u)
  BY <1>5 DEF CameraHeld, Stopped, CameraUsers
<1>6. CASE StopFailed(u)
  BY <1>6 DEF CameraHeld, StopFailed, CameraUsers
<1> QED
  BY <1>1, <1>2, <1>3, <1>4, <1>5, <1>6

\* A set of users without two different ones has one element at most.
LEMMA HeldByOne == CameraHeld => OneCameraUser
<1> SUFFICES ASSUME CameraHeld PROVE OneCameraUser
  OBVIOUS
<1> DEFINE S == {u \in CameraUsers : cam[u] # "off"}
<1>1. CASE S = {}
  BY <1>1, FS_EmptySet DEF OneCameraUser
<1>2. CASE \E u \in S : TRUE
  <2>1. PICK u \in S : TRUE
    BY <1>2
  <2>2. S = {u}
    BY <2>1 DEF CameraHeld
  <2>3. Cardinality({u}) = 1
    BY FS_Singleton
  <2> QED
    BY <2>2, <2>3 DEF OneCameraUser
<1> QED
  BY <1>1, <1>2

-----------------------------------------------------------------------------
(* The inductive invariant.                                                *)

LEMMA InitInv == Init => IInv
<1> SUFFICES ASSUME Init PROVE IInv
  OBVIOUS
<1> USE ScannerAssumption DEF Init, CameraStart, NoResult, Blank
<1>1. Types
  <2>1. screen \in [label : Labels, image : BOOLEAN, result : 0..MaxSessions]
    BY DEF Labels
  <2> QED
    BY <2>1 DEF Types, States
<1>2. Steps
  BY DEF Steps
<1>3. Flags
  BY DEF Flags
<1>4. CameraHeld
  BY DEF CameraHeld, CameraUsers
<1>5. Numbers
  BY DEF Numbers
<1>6. Current
  BY DEF Current, Announced, Filming
<1> QED
  BY <1>1, <1>2, <1>3, <1>4, <1>5, <1>6 DEF IInv

\* What the page's callbacks leave alone.
LEMMA PageSteps ==
  ASSUME IInv, Open \/ Leave \/ PageCallback
  PROVE  IInv'
<1> USE ScannerAssumption DEF IInv, Types, Steps, Flags, CameraHeld, Numbers, Current, Announced, States, Labels, Filming,
        cameraVars, threadVars, decoderVars, eventVars, sharedVars, pageVars, previewVars
<1>1. CASE Open
  <2>0. screen' \in [label : Labels, image : BOOLEAN, result : 0..MaxSessions]
    BY <1>1 DEF Open, Blank
  <2>11. Types'
    BY <1>1, <2>0 DEF Open, Blank
  <2>12. Steps'
    BY <1>1, <2>0 DEF Open, Blank
  <2>13. Flags'
    BY <1>1, <2>0 DEF Open, Blank
  <2>14. CameraHeld'
    BY <1>1, <2>0 DEF Open, Blank
  <2>15. Numbers'
    BY <1>1, <2>0 DEF Open, Blank
  <2>16. Current'
    BY <1>1, <2>0 DEF Open, Blank
  <2> QED
    BY <2>11, <2>12, <2>13, <2>14, <2>15, <2>16
<1>2. CASE OpenReset
  BY <1>2 DEF OpenReset, NoResult
<1>3. CASE OpenRequest
  BY <1>3 DEF OpenRequest
<1>4. CASE OpenState
  BY <1>4 DEF OpenState
<1>5. CASE OpenGive
  BY <1>5 DEF OpenGive, Announce
<1>6. CASE Leave
  <2>1. Types'
    BY <1>6 DEF Leave
  <2>5. Steps'
    BY <1>6 DEF Leave
  <2>6. Flags'
    BY <1>6 DEF Leave
  <2>2. CameraHeld'
    BY <1>6 DEF Leave
  <2>3. Numbers'
    BY <1>6 DEF Leave
  <2>4. Current'
    BY <1>6 DEF Leave
  <2> QED
    BY <2>1, <2>2, <2>3, <2>4, <2>5, <2>6
<1>7. CASE LeaveStop
  <2>1. Types'
    BY <1>7 DEF LeaveStop
  <2>5. Steps'
    BY <1>7 DEF LeaveStop
  <2>6. Flags'
    BY <1>7 DEF LeaveStop
  <2>2. CameraHeld'
    BY <1>7 DEF LeaveStop
  <2>3. Numbers'
    BY <1>7 DEF LeaveStop
  <2>4. Current'
    BY <1>7 DEF LeaveStop
  <2> QED
    BY <2>1, <2>2, <2>3, <2>4, <2>5, <2>6
<1>8. CASE LeaveState
  BY <1>8 DEF LeaveState
<1>9. CASE LeaveAnnounce
  BY <1>9 DEF LeaveAnnounce, Announce
<1>10. CASE Left
  <2>1. Types'
    BY <1>10 DEF Left, Blank
  <2>5. Steps'
    BY <1>10 DEF Left, Blank
  <2>6. Flags'
    BY <1>10 DEF Left, Blank
  <2>2. CameraHeld'
    BY <1>10 DEF Left, Blank
  <2>3. Numbers'
    BY <1>10 DEF Left, Blank
  <2>4. Current'
    BY <1>10 DEF Left, Blank
  <2> QED
    BY <2>1, <2>2, <2>3, <2>4, <2>5, <2>6
<1> QED
  BY <1>1, <1>2, <1>3, <1>4, <1>5, <1>6, <1>7, <1>8, <1>9, <1>10 DEF PageCallback

\* An event is drawn only for its own session, and the preview's timer runs only for that.
LEMMA DrawingSteps ==
  ASSUME IInv, HandleEvent \/ PreviewTick
  PROVE  IInv'
<1> USE ScannerAssumption DEF IInv, Types, Steps, Flags, CameraHeld, Numbers, Current, Announced, States, Labels, Filming,
        cameraVars, threadVars, decoderVars, eventVars, sharedVars, previewVars
<1>1. CASE HandleEvent
  <2>1. CASE page /\ event.session = uiSession /\ event.state = "RUNNING"
    <3>1. PICK image \in {screen.image, TRUE}, timer \in {previewing, TRUE} :
            /\ previewing' = timer /\ copied' = (copied /\ previewing)
            /\ screen' = [screen EXCEPT !.image = image, !.label = IF timer THEN "RUNNING" ELSE "NoPreview"]
      <4>1. PreparePreview
        BY <1>1, <2>1 DEF HandleEvent
      <4> QED
        BY <4>1, Zenon DEF PreparePreview
    <3>2. screen' \in [label : Labels, image : BOOLEAN, result : 0..MaxSessions] /\ screen'.result = screen.result
      BY <3>1
    <3>3. /\ previewing' \in BOOLEAN /\ copied' \in BOOLEAN /\ (copied' => copied)
          /\ uiPc = "idle" /\ uiSession # 0 /\ (previewing' => previewing \/ (event.session = session))
      BY <1>1, <2>1, <3>1 DEF HandleEvent
    <3>11. Types'
      BY <1>1, <2>1, <3>2, <3>3 DEF HandleEvent
    <3>12. Steps'
      BY <1>1, <2>1, <3>2, <3>3 DEF HandleEvent
    <3>13. Flags'
      BY <1>1, <2>1, <3>2, <3>3 DEF HandleEvent
    <3>14. CameraHeld'
      BY <1>1, <2>1, <3>2, <3>3 DEF HandleEvent
    <3>15. Numbers'
      BY <1>1, <2>1, <3>2, <3>3 DEF HandleEvent
    <3>16. Current'
      BY <1>1, <2>1, <3>2, <3>3 DEF HandleEvent
    <3> QED
      BY <3>11, <3>12, <3>13, <3>14, <3>15, <3>16
  <2>2. CASE page /\ event.session = uiSession /\ event.state = "RESULT"
    <3>1. Copied(uiSession) \in {0, uiSession}
      BY DEF Copied
    <3>2. /\ previewing' = FALSE /\ copied' = copied
          /\ screen' = IF Copied(uiSession) = 0 THEN [screen EXCEPT !.label = "Unavailable"]
                       ELSE [screen EXCEPT !.label = "RESULT", !.result = Copied(uiSession)]
      BY <1>1, <2>2 DEF HandleEvent, ShowResult
    <3>3. /\ screen' \in [label : Labels, image : BOOLEAN, result : 0..MaxSessions]
          /\ screen'.result \in {screen.result, 0, uiSession}
      BY <3>1, <3>2
    <3>11. Types'
      BY <1>1, <2>2, <3>2, <3>3 DEF HandleEvent
    <3>12. Steps'
      BY <1>1, <2>2, <3>2, <3>3 DEF HandleEvent
    <3>13. Flags'
      BY <1>1, <2>2, <3>2, <3>3 DEF HandleEvent
    <3>14. CameraHeld'
      BY <1>1, <2>2, <3>2, <3>3 DEF HandleEvent
    <3>15. Numbers'
      BY <1>1, <2>2, <3>2, <3>3 DEF HandleEvent
    <3>16. Current'
      BY <1>1, <2>2, <3>2, <3>3 DEF HandleEvent
    <3> QED
      BY <3>11, <3>12, <3>13, <3>14, <3>15, <3>16
  <2>3. CASE page /\ event.session = uiSession /\ event.state \notin {"RUNNING", "RESULT"}
    <3>1. screen' = [screen EXCEPT !.label = event.state] /\ UNCHANGED <<previewing, copied>>
      BY <1>1, <2>3 DEF HandleEvent
    <3>2. screen' \in [label : Labels, image : BOOLEAN, result : 0..MaxSessions] /\ screen'.result = screen.result
      BY <3>1
    <3>11. Types'
      BY <1>1, <2>3, <3>1, <3>2 DEF HandleEvent
    <3>12. Steps'
      BY <1>1, <2>3, <3>1, <3>2 DEF HandleEvent
    <3>13. Flags'
      BY <1>1, <2>3, <3>1, <3>2 DEF HandleEvent
    <3>14. CameraHeld'
      BY <1>1, <2>3, <3>1, <3>2 DEF HandleEvent
    <3>15. Numbers'
      BY <1>1, <2>3, <3>1, <3>2 DEF HandleEvent
    <3>16. Current'
      BY <1>1, <2>3, <3>1, <3>2 DEF HandleEvent
    <3> QED
      BY <3>11, <3>12, <3>13, <3>14, <3>15, <3>16
  <2>4. CASE ~(page /\ event.session = uiSession)
    <3>11. Types'
      BY <1>1, <2>4 DEF HandleEvent
    <3>12. Steps'
      BY <1>1, <2>4 DEF HandleEvent
    <3>13. Flags'
      BY <1>1, <2>4 DEF HandleEvent
    <3>14. CameraHeld'
      BY <1>1, <2>4 DEF HandleEvent
    <3>15. Numbers'
      BY <1>1, <2>4 DEF HandleEvent
    <3>16. Current'
      BY <1>1, <2>4 DEF HandleEvent
    <3> QED
      BY <3>11, <3>12, <3>13, <3>14, <3>15, <3>16
  <2> QED
    BY <2>1, <2>2, <2>3, <2>4
<1>2. CASE PreviewTick
  BY <1>2 DEF PreviewTick
<1> QED
  BY <1>1, <1>2

\* The scanner thread works for the session it took.
LEMMA ThreadSteps ==
  ASSUME IInv, ScannerThread
  PROVE  IInv'
<1> USE ScannerAssumption DEF IInv, Types, Steps, Flags, Numbers, Current, Announced, States, Labels, Filming,
        Thread, Verdict, threadVars, decoderVars, eventVars, sharedVars, pageVars, previewVars
<1>1. CASE Take
  <2>1. Types'
    BY <1>1 DEF Take, CameraHeld, cameraVars
  <2>5. Steps'
    BY <1>1 DEF Take, CameraHeld, cameraVars
  <2>6. Flags'
    BY <1>1 DEF Take, CameraHeld, cameraVars
  <2>2. CameraHeld'
    BY <1>1 DEF Take, CameraHeld, cameraVars
  <2>3. Numbers'
    BY <1>1 DEF Take, CameraHeld, cameraVars
  <2>4. Current'
    BY <1>1 DEF Take, CameraHeld, cameraVars
  <2> QED
    BY <2>1, <2>2, <2>3, <2>4, <2>5, <2>6
<1>2. CASE Check
  BY <1>2 DEF Check, CameraHeld, cameraVars
<1>3. CASE StartCamera
  <2>1. CameraHeld'
    BY <1>3, CameraSteps DEF StartCamera, CameraUsers
  <2> QED
    BY <1>3, <2>1 DEF StartCamera
<1>4. CASE Prepare
  BY <1>4 DEF Prepare, CameraHeld, cameraVars
<1>5. CASE RunningState
  BY <1>5 DEF RunningState, CameraHeld, cameraVars
<1>6. CASE RunningAnnounce
  BY <1>6 DEF RunningAnnounce, Announce, CameraHeld, cameraVars
<1>7. CASE Loop
  BY <1>7 DEF Loop, CameraHeld, cameraVars
<1>8. CASE Frame
  BY <1>8 DEF Frame, CameraHeld, cameraVars
<1>9. CASE StopCamera
  <2>1. CameraHeld'
    BY <1>9, CameraSteps DEF StopCamera, CameraUsers
  <2> QED
    BY <1>9, <2>1 DEF StopCamera
<1>10. CASE End
  <2>1. Types'
    BY <1>10 DEF End, CameraHeld, cameraVars
  <2>5. Steps'
    BY <1>10 DEF End, CameraHeld, cameraVars
  <2>6. Flags'
    BY <1>10 DEF End, CameraHeld, cameraVars
  <2>2. CameraHeld'
    BY <1>10 DEF End, CameraHeld, cameraVars
  <2>3. Numbers'
    BY <1>10 DEF End, CameraHeld, cameraVars
  <2>4. Current'
    BY <1>10 DEF End, CameraHeld, cameraVars
  <2> QED
    BY <2>1, <2>2, <2>3, <2>4, <2>5, <2>6
<1>11. CASE Judge
  BY <1>11 DEF Judge, CameraHeld, cameraVars
<1>12. CASE FinalState
  <2>1. Types'
    BY <1>12 DEF FinalState, Final, CameraHeld, cameraVars
  <2>5. Steps'
    BY <1>12 DEF FinalState, Final, CameraHeld, cameraVars
  <2>6. Flags'
    BY <1>12 DEF FinalState, Final, CameraHeld, cameraVars
  <2>2. CameraHeld'
    BY <1>12 DEF FinalState, Final, CameraHeld, cameraVars
  <2>3. Numbers'
    BY <1>12 DEF FinalState, Final, CameraHeld, cameraVars
  <2>4. Current'
    BY <1>12 DEF FinalState, Final, CameraHeld, cameraVars
  <2> QED
    BY <2>1, <2>2, <2>3, <2>4, <2>5, <2>6
<1>13. CASE FinalAnnounce
  <2>1. Types'
    BY <1>13 DEF FinalAnnounce, Announce, Waiting, Final, CameraHeld, cameraVars
  <2>5. Steps'
    BY <1>13 DEF FinalAnnounce, Announce, Waiting, Final, CameraHeld, cameraVars
  <2>6. Flags'
    BY <1>13 DEF FinalAnnounce, Announce, Waiting, Final, CameraHeld, cameraVars
  <2>2. CameraHeld'
    BY <1>13 DEF FinalAnnounce, Announce, Waiting, Final, CameraHeld, cameraVars
  <2>3. Numbers'
    BY <1>13 DEF FinalAnnounce, Announce, Waiting, Final, CameraHeld, cameraVars
  <2>4. Current'
    BY <1>13 DEF FinalAnnounce, Announce, Waiting, Final, CameraHeld, cameraVars
  <2> QED
    BY <2>1, <2>2, <2>3, <2>4, <2>5, <2>6
<1> QED
  BY <1>1, <1>2, <1>3, <1>4, <1>5, <1>6, <1>7, <1>8, <1>9, <1>10, <1>11, <1>12, <1>13
     DEF ScannerThread

\* The decoder stores a code with the session of its frame.
LEMMA DecoderSteps ==
  ASSUME IInv, DecoderThread
  PROVE  IInv'
<1> USE ScannerAssumption DEF IInv, Types, Steps, Flags, CameraHeld, Numbers, Current, Announced, States, Labels, Filming,
        Decoder, cameraVars, threadVars, eventVars, pageVars, previewVars
<1>1. CASE Decode
  BY <1>1 DEF Decode, sharedVars
<1>2. CASE Decoded
  BY <1>2 DEF Decoded, sharedVars
<1>3. CASE Found
  <2>1. Types'
    BY <1>3 DEF Found
  <2>5. Steps'
    BY <1>3 DEF Found
  <2>6. Flags'
    BY <1>3 DEF Found
  <2>2. CameraHeld'
    BY <1>3 DEF Found
  <2>3. Numbers'
    BY <1>3 DEF Found
  <2>4. Current'
    BY <1>3 DEF Found
  <2> QED
    BY <2>1, <2>2, <2>3, <2>4, <2>5, <2>6
<1>4. CASE FoundLocked
  <2>1. Types'
    BY <1>4 DEF FoundLocked
  <2>5. Steps'
    BY <1>4 DEF FoundLocked
  <2>6. Flags'
    BY <1>4 DEF FoundLocked
  <2>2. CameraHeld'
    BY <1>4 DEF FoundLocked
  <2>3. Numbers'
    BY <1>4 DEF FoundLocked
  <2>4. Current'
    BY <1>4 DEF FoundLocked
  <2> QED
    BY <2>1, <2>2, <2>3, <2>4, <2>5, <2>6
<1>5. CASE FoundStored
  BY <1>5 DEF FoundStored
<1>6. CASE FoundUnrequest
  <2>1. Types'
    BY <1>6 DEF FoundUnrequest
  <2>5. Steps'
    BY <1>6 DEF FoundUnrequest
  <2>6. Flags'
    BY <1>6 DEF FoundUnrequest
  <2>2. CameraHeld'
    BY <1>6 DEF FoundUnrequest
  <2>3. Numbers'
    BY <1>6 DEF FoundUnrequest
  <2>4. Current'
    BY <1>6 DEF FoundUnrequest
  <2> QED
    BY <2>1, <2>2, <2>3, <2>4, <2>5, <2>6
<1> QED
  BY <1>1, <1>2, <1>3, <1>4, <1>5, <1>6 DEF DecoderThread

\* The entropy thread only competes for the camera.
LEMMA EntropySteps ==
  ASSUME IInv, EntropyThread
  PROVE  IInv'
<1>1. CameraHeld'
  BY CameraSteps DEF IInv, EntropyThread, EntropyFilms, CameraUsers
<1> QED
  BY <1>1 DEF EntropyThread, IInv, Types, Steps, Flags, Numbers, Current, Announced, States, Labels, Filming,
     threadVars, decoderVars, eventVars, sharedVars, pageVars, previewVars

LEMMA NextInv == IInv /\ [Next]_vars => IInv'
<1> SUFFICES ASSUME IInv, [Next]_vars PROVE IInv'
  OBVIOUS
<1>1. CASE Open \/ Leave \/ PageCallback
  BY <1>1, PageSteps
<1>2. CASE HandleEvent \/ PreviewTick
  BY <1>2, DrawingSteps
<1>3. CASE ScannerThread
  BY <1>3, ThreadSteps
<1>4. CASE DecoderThread
  BY <1>4, DecoderSteps
<1>5. CASE EntropyThread
  BY <1>5, EntropySteps
<1>6. CASE UNCHANGED vars
  BY <1>6 DEF vars, IInv, Types, Steps, Flags, CameraHeld, Numbers, Current, Announced, Filming,
     cameraVars, threadVars, decoderVars, eventVars, sharedVars, pageVars, previewVars
<1> QED
  BY <1>1, <1>2, <1>3, <1>4, <1>5, <1>6 DEF Next

LEMMA Invariant == Spec => []IInv
BY InitInv, NextInv, PTL DEF Spec

-----------------------------------------------------------------------------
(* Nothing but itself ends a session.                                      *)

Opening == uiPc \in {"reset", "request", "publish", "give"}
Working == tPc \notin {"wait", "final"}
Unfinished == {"STARTING", "RUNNING", "STOPPING"}

\* The page has a session and has not withdrawn its request for it.
Alive == uiSession # 0 /\ uiPc \notin {"stopping", "stopped", "left"}

\* A session is first opened, then waits to be taken, then worked for: one at a time, since the
\* next is opened only in a state that the thread sets last.
Turns ==
  /\ Working => state \in Unfinished /\ tSession = session /\ ~wake
  /\ wake => state \in Unfinished
  /\ Opening => ~Working /\ ~wake /\ uiSession # 0
  /\ uiPc = "give" => state \in Unfinished
  /\ tPc = "final" /\ tSession = session => ~wake /\ ~Opening
  /\ state \in Unfinished \/ uiState \in {"STARTING", "RUNNING"} \/ uiPc \in {"stopping", "stopped"} => session # 0
  /\ marked => event.session # 0
  /\ ~(tPc \in {"state", "final"}) => tRet \in {"ok", "error"}
  /\ tPc = "judge" => tRet = "ok"

\* Until the first frame of a session nothing can be decoded from it; a code of an earlier session
\* that is being stored holds up the reset of the result.
Codes ==
  /\ lock <=> dPc \in {"locked", "store", "unrequest"}
  /\ dFrame <= session /\ result.session <= session
  /\ dPc = "unrequest" => result.session = dFrame
  /\ dPc \in {"store", "unrequest"} /\ dFrame # session => uiPc = "reset"
  /\ Opening \/ wake \/ tPc \in {"check", "start", "starting", "prepare", "running", "announce"} =>
       dFrame # session /\ result.session # session

\* While the page keeps its session it stays requested until there is a result, which is then
\* what the thread judges, publishes and announces.
Served ==
  /\ Alive =>
       /\ uiPc \in {"publish", "give"} \/ wake \/ tPc \in Filming \cup {"check", "start", "starting", "prepare"} =>
            requested \/ result.session = session
       /\ tPc \in {"stop", "end", "judge"} /\ tRet = "ok" => result.session = session
       /\ tPc \in {"state", "final"} /\ tSession = session =>
            tRet # "STOPPED" /\ (tRet = "RESULT" => result.session = session)
       /\ tPc = "final" /\ tSession = session => state = Final
       /\ event.session = session =>
            event.state # "STOPPED" /\ (event.state = "RESULT" => state = "RESULT" /\ result.session = session)
  /\ event.session = session /\ event.state = "RESULT" => tPc = "wait" /\ ~wake /\ ~Opening

\* A session that nothing but itself ends.
Lasting == Turns /\ Codes /\ Served /\ NothingEndsIt

\* At the start there is no session.
LEMMA InitLasts == Init => Lasting
BY DEF Init, Lasting, Turns, Codes, Served, NothingEndsIt, Opening, Working, Unfinished, Alive, Filming,
   NoResult, Blank

\* The page opens a session when none is unfinished, and withdraws only its own.
LEMMA PageLasts ==
  ASSUME IInv, IInv', Lasting, Open \/ Leave \/ PageCallback
  PROVE  Lasting'
<1> USE ScannerAssumption DEF Lasting, Turns, Codes, Served, NothingEndsIt, Opening, Working, Unfinished, Alive,
        IInv, Types, Steps, Flags, Numbers, States, Labels, Filming, Final, Thread, Verdict,
        cameraVars, threadVars, decoderVars, eventVars, sharedVars, pageVars, previewVars
<1>1. CASE Open
  BY <1>1 DEF Open, Blank
<1>2. CASE OpenReset
  BY <1>2 DEF OpenReset, NoResult
<1>3. CASE OpenRequest
  BY <1>3 DEF OpenRequest
<1>4. CASE OpenState
  BY <1>4 DEF OpenState
<1>5. CASE OpenGive
  BY <1>5 DEF OpenGive, Announce
<1>6. CASE Leave
  BY <1>6 DEF Leave
<1>7. CASE LeaveStop
  BY <1>7 DEF LeaveStop
<1>8. CASE LeaveState
  BY <1>8 DEF LeaveState
<1>9. CASE LeaveAnnounce
  BY <1>9 DEF LeaveAnnounce, Announce
<1>10. CASE Left
  BY <1>10 DEF Left, Blank
<1> QED
  BY <1>1, <1>2, <1>3, <1>4, <1>5, <1>6, <1>7, <1>8, <1>9, <1>10
     DEF PageCallback

\* What is drawn of the page's own session is never that it was stopped.
LEMMA DrawingLasts ==
  ASSUME IInv, IInv', Lasting, HandleEvent \/ PreviewTick
  PROVE  Lasting'
<1> USE ScannerAssumption DEF Lasting, Turns, Codes, Served, NothingEndsIt, Opening, Working, Unfinished, Alive,
        IInv, Types, Steps, Flags, Numbers, States, Labels, Filming, Final, Thread, Verdict,
        cameraVars, threadVars, decoderVars, eventVars, sharedVars, pageVars, previewVars
<1>1. CASE HandleEvent
  <2>1. Turns'
    BY <1>1 DEF HandleEvent, PreparePreview, ShowResult, Copied, Current
  <2>2. Codes'
    BY <1>1 DEF HandleEvent, PreparePreview, ShowResult, Copied, Current
  <2>3. Served'
    BY <1>1 DEF HandleEvent, PreparePreview, ShowResult, Copied, Current
  <2>4. NothingEndsIt'
    BY <1>1 DEF HandleEvent, PreparePreview, ShowResult, Copied, Current
  <2> QED
    BY <2>1, <2>2, <2>3, <2>4
<1>2. CASE PreviewTick
  BY <1>2 DEF PreviewTick
<1> QED
  BY <1>1, <1>2

\* The thread stops a session that the page keeps only when there is a result.
LEMMA ThreadLasts ==
  ASSUME IInv, IInv', Lasting, ScannerThread
  PROVE  Lasting'
<1> USE ScannerAssumption DEF Lasting, Turns, Codes, Served, NothingEndsIt, Opening, Working, Unfinished, Alive,
        IInv, Types, Steps, Flags, Numbers, States, Labels, Filming, Final, Thread, Verdict,
        cameraVars, threadVars, decoderVars, eventVars, sharedVars, pageVars, previewVars
<1>1. CASE Take
  BY <1>1 DEF Take
<1>2. CASE Check
  BY <1>2 DEF Check
<1>3. CASE StartCamera
  BY <1>3 DEF StartCamera
<1>4. CASE Prepare
  BY <1>4 DEF Prepare
<1>5. CASE RunningState
  BY <1>5 DEF RunningState
<1>6. CASE RunningAnnounce
  BY <1>6 DEF RunningAnnounce, Announce
<1>7. CASE Loop
  BY <1>7 DEF Loop, Wanted
<1>8. CASE Frame
  BY <1>8 DEF Frame
<1>9. CASE StopCamera
  BY <1>9 DEF StopCamera
<1>10. CASE End
  BY <1>10 DEF End
<1>11. CASE Judge
  BY <1>11 DEF Judge
<1>12. CASE FinalState
  BY <1>12 DEF FinalState
<1>13. CASE FinalAnnounce
  BY <1>13 DEF FinalAnnounce, Announce, Waiting
<1> QED
  BY <1>1, <1>2, <1>3, <1>4, <1>5, <1>6, <1>7, <1>8, <1>9, <1>10, <1>11, <1>12, <1>13
     DEF ScannerThread

\* The decoder withdraws the request only for the result it has stored.
LEMMA DecoderLasts ==
  ASSUME IInv, IInv', Lasting, DecoderThread
  PROVE  Lasting'
<1> USE ScannerAssumption DEF Lasting, Turns, Codes, Served, NothingEndsIt, Opening, Working, Unfinished, Alive,
        IInv, Types, Steps, Flags, Numbers, States, Labels, Filming, Final, Thread, Verdict,
        cameraVars, threadVars, decoderVars, eventVars, sharedVars, pageVars, previewVars
<1>1. CASE Decode
  BY <1>1 DEF Decode, Decoder
<1>2. CASE Decoded
  BY <1>2 DEF Decoded, Decoder
<1>3. CASE Found
  BY <1>3 DEF Found, Decoder, Welcome
<1>4. CASE FoundLocked
  <2>1. Turns'
    BY <1>4 DEF FoundLocked, Decoder, Welcome
  <2>2. Codes'
    BY <1>4 DEF FoundLocked, Decoder, Welcome
  <2>3. Served'
    BY <1>4 DEF FoundLocked, Decoder, Welcome
  <2>4. NothingEndsIt'
    BY <1>4 DEF FoundLocked, Decoder, Welcome
  <2> QED
    BY <2>1, <2>2, <2>3, <2>4
<1>5. CASE FoundStored
  BY <1>5 DEF FoundStored, Decoder
<1>6. CASE FoundUnrequest
  BY <1>6 DEF FoundUnrequest, Decoder
<1> QED
  BY <1>1, <1>2, <1>3, <1>4, <1>5, <1>6
     DEF DecoderThread

\* No step of any thread breaks it.
LEMMA NextLasts == IInv /\ IInv' /\ Lasting /\ [Next]_vars => Lasting'
<1> SUFFICES ASSUME IInv, IInv', Lasting, [Next]_vars PROVE Lasting'
  OBVIOUS
<1>1. CASE Open \/ Leave \/ PageCallback
  BY <1>1, PageLasts
<1>2. CASE HandleEvent \/ PreviewTick
  BY <1>2, DrawingLasts
<1>3. CASE ScannerThread
  BY <1>3, ThreadLasts
<1>4. CASE DecoderThread
  BY <1>4, DecoderLasts
<1>5. CASE EntropyThread \/ UNCHANGED vars
  BY <1>5 DEF EntropyThread, vars, Lasting, Turns, Codes, Served, NothingEndsIt, Opening, Working,
     Unfinished, Alive, Final, Filming, threadVars, decoderVars, eventVars, sharedVars, pageVars, previewVars
<1> QED
  BY <1>1, <1>2, <1>3, <1>4, <1>5 DEF Next

-----------------------------------------------------------------------------
\* The QR scanner and the entropy thread never use the camera at the same time, whatever fails
\* (camera.c:123, 230).
THEOREM CameraExclusive == Spec => []OneCameraUser
<1>1. IInv => OneCameraUser
  BY HeldByOne DEF IInv
<1> QED
  BY <1>1, Invariant, PTL

\* Whatever the decoder reports late, and whatever snapshot and buffer still hold, a page shows no
\* result but its own, and no frame but its own once it has copied one, for any number of sessions
\* (qr_scanner.c:55-75, 147-149, 305-319; ui_qr.c:27-46).
THEOREM PageCopiesItsSession == Spec => []CopiesAreCurrent
<1>1. IInv => CopiesAreCurrent
  BY DEF IInv, Types, Steps, Flags, CameraHeld, Current, CopiesAreCurrent, TypeOK, States, Labels
<1> QED
  BY <1>1, Invariant, PTL

\* A page that keeps its session is never told that it was stopped, and can read the result it
\* is told of, whatever the decoder still does for earlier sessions (qr_scanner.c:197-216, 235-243).
THEOREM SessionsEndThemselves == Spec => []NothingEndsIt
<1>1. Spec => []Lasting
  BY InitLasts, NextLasts, Invariant, PTL DEF Spec
<1>2. Lasting => NothingEndsIt
  BY DEF Lasting
<1> QED
  BY <1>1, <1>2, PTL
=============================================================================
