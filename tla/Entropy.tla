------------------------------- MODULE Entropy -------------------------------
(***************************************************************************)
(* Collection of auxiliary entropy for a mnemonic (src/entropy/entropy.c): *)
(* a hierarchical state machine under one lock, that visits the selected   *)
(* sources in order and keeps one digest record per completed source.  Its *)
(* events come from the UI thread, the IMU thread, the microphone thread   *)
(* and the camera thread, which all act on a session number or a snapshot  *)
(* they read earlier.                                                      *)
(*                                                                         *)
(* The context of the machine is one record, and an operator per event     *)
(* gives the contexts the event may lead to: hashing and starting a source *)
(* may fail.  Digests are not modelled, only that a hash is running.       *)
(***************************************************************************)
EXTENDS Integers, Sequences, FiniteSets

CONSTANTS MaxSessions,   \* bound on the sessions begun
          Target         \* target_units, the same for every source

ASSUME EntropyAssumption == MaxSessions \in Nat /\ Target \in Nat \ {0}

Touch == 1
Imu == 2
Camera == 3
Microphone == 4
Sources == {Touch, Imu, Camera, Microphone}   \* in the order of their bits
Sensors == {Imu, Microphone}                  \* fed by the thread of a driver
NoSource == 0

VARIABLES
  c,             \* struct entropy_context, and what its actions start and stop
  uiSession,     \* ui.entropy_session, 0 if the collection page is not open
  sampled,       \* sensor -> session its thread read in a snapshot and acts on next, or 0
  camPc,         \* camera thread: "wait", "open", "frame", "feed", "release", "stop", "fail"
  camSession,    \* snapshot.session of the camera thread
  camRet         \* ret of its loop: "ok", "end" or "error"

vars == <<c, uiSession, sampled, camPc, camSession, camRet>>
camVars == <<camPc, camSession, camRet>>

Idle == [leaf |-> "Idle", session |-> 0, selected |-> {}, completed |-> {}, skipped |-> {},
         current |-> NoSource, units |-> 0, hashing |-> FALSE, records |-> <<>>,
         running |-> {}, request |-> FALSE]

-----------------------------------------------------------------------------
(* The state machine, under entropy_lock.                                  *)

\* Faulty variant: a source that was skipped is still to be collected.
MissingSkipped(x) == x.selected \ x.completed

\* entropy_next_source_locked(): what is left to collect, taken in the order of the bits.
Missing(x) == x.selected \ (x.completed \cup x.skipped)

\* Faulty variant: the camera thread is not woken again when its source is retried.
EntryUnwoken(x, s) ==
  LET entered == [x EXCEPT !.current = s, !.units = 0]
  IN  { [entered EXCEPT !.leaf = "Source", !.hashing = TRUE,
                        !.running = IF s \in Sensors THEN @ \cup {s} ELSE @,
                        !.request = @ \/ (s = Camera /\ x.leaf # "Error")],
        [entered EXCEPT !.leaf = "Error", !.hashing = FALSE, !.running = @ \ {s}] }

\* entropy_source_entry(): the source is started, or the hash or its start fails and the exit
\* action stops it again.  Starting the camera only wakes its thread.
Entry(x, s) ==
  LET entered == [x EXCEPT !.current = s, !.units = 0]
  IN  { [entered EXCEPT !.leaf = "Source", !.hashing = TRUE,
                        !.running = IF s \in Sensors THEN @ \cup {s} ELSE @,
                        !.request = @ \/ s = Camera],
        [entered EXCEPT !.leaf = "Error", !.hashing = FALSE, !.running = @ \ {s}] }

\* Faulty variant: a source that is left keeps running.
ExitRunning(x) == [x EXCEPT !.hashing = FALSE, !.units = 0]

\* entropy_source_exit()
Exit(x) == [x EXCEPT !.hashing = FALSE, !.units = 0, !.running = @ \ {x.current}]

Left(x) == IF x.leaf = "Source" THEN Exit(x) ELSE x

\* entropy_transition_next_locked(): the next selected source, or the end of the collection.
Advance(x) ==
  LET y == Left(x)
  IN  IF Missing(y) = {}
      THEN {[y EXCEPT !.leaf = "Ready", !.current = NoSource, !.units = 0]}
      ELSE Entry(y, CHOOSE s \in Missing(y) : \A t \in Missing(y) : s <= t)

Failed(x) == [Left(x) EXCEPT !.leaf = "Error"]

\* entropy_complete_source_locked(): a record at the index POPCOUNT(completed).
Recorded(x) ==
  [x EXCEPT !.records = SubSeq(@, 1, Cardinality(x.completed))
                        \o <<[source |-> x.current, units |-> x.units]>>,
            !.completed = @ \cup {x.current},
            !.hashing = FALSE]

Collecting(x, session, s) == x.leaf = "Source" /\ session = x.session /\ s = x.current

Outcome(x, ret) == [ctx |-> x, ret |-> ret]

\* entropy_source_run(): a feed of another session or source changes nothing; the hash may fail
\* on the data or at the end, and then there is no record.
Feed(x, session, s, n) ==
  IF ~Collecting(x, session, s) THEN {Outcome(x, "canceled")}
  ELSE LET y == [x EXCEPT !.units = @ + n]
       IN  {Outcome(Failed(x), "error")}
           \cup (IF y.units < Target THEN {Outcome(y, "more")}
                 ELSE {Outcome(z, "done") : z \in Advance(Recorded(y))})

Fail(x, session, s) == IF Collecting(x, session, s) THEN Failed(x) ELSE x

Retry(x, session) ==
  IF x.leaf = "Error" /\ session = x.session THEN Entry(x, x.current) ELSE {x}

Skip(x, session) ==
  IF x.leaf \in {"Source", "Error"} /\ session = x.session
  THEN Advance([x EXCEPT !.skipped = @ \cup {x.current}])
  ELSE {x}

\* app_entropy_cancel(): the entry of the idle state wipes the session, not its number.
Cancel(x, session) ==
  IF x.leaf # "Idle" /\ session = x.session
  THEN [Idle EXCEPT !.session = x.session, !.running = Left(x).running, !.request = x.request]
  ELSE x

Start(x, chosen) ==
  IF x.leaf = "Idle" THEN Advance([x EXCEPT !.session = @ + 1, !.selected = chosen]) ELSE {}

-----------------------------------------------------------------------------
(* The user (src/display/ui_entropy.c).                                    *)

BeginSession(chosen) ==
  /\ uiSession = 0 /\ c.session < MaxSessions
  /\ c' \in Start(c, chosen)
  /\ uiSession' = c'.session
  /\ UNCHANGED <<sampled, camVars>>

TouchFeed ==
  /\ uiSession # 0 /\ \E o \in Feed(c, uiSession, Touch, 1) : c' = o.ctx
  /\ UNCHANGED <<uiSession, sampled, camVars>>

RetryClicked ==
  /\ uiSession # 0 /\ c' \in Retry(c, uiSession)
  /\ UNCHANGED <<uiSession, sampled, camVars>>

SkipClicked ==
  /\ uiSession # 0 /\ c' \in Skip(c, uiSession)
  /\ UNCHANGED <<uiSession, sampled, camVars>>

\* Leaving the page, or submitting the transcript of a collection that is ready.
Leave ==
  /\ uiSession # 0 /\ c' = Cancel(c, uiSession) /\ uiSession' = 0
  /\ UNCHANGED <<sampled, camVars>>

-----------------------------------------------------------------------------
(* The IMU and microphone threads: a snapshot, then an event for its session. *)

\* app_entropy_snapshot_get() shows that this source is being collected.
Snapshot(s) ==
  /\ sampled[s] = 0 /\ c.leaf = "Source" /\ c.current = s
  /\ s = Microphone => s \in c.running
  /\ sampled' = [sampled EXCEPT ![s] = c.session]
  /\ UNCHANGED <<c, uiSession, camVars>>

SensorFeed(s) ==
  /\ sampled[s] # 0
  /\ \E n \in 1..Target : \E o \in Feed(c, sampled[s], s, n) : c' = o.ctx
  /\ sampled' = [sampled EXCEPT ![s] = 0]
  /\ UNCHANGED <<uiSession, camVars>>

SensorFail(s) ==
  /\ sampled[s] # 0
  /\ c' = Fail(c, sampled[s], s)
  /\ sampled' = [sampled EXCEPT ![s] = 0]
  /\ UNCHANGED <<uiSession, camVars>>

-----------------------------------------------------------------------------
(* The camera thread (entropy_camera_thread).                              *)

CamGoto(pc, ret) == camPc' = pc /\ camRet' = ret

\* A request that is out of date when the thread gets to it is dropped.
CamRequest ==
  /\ camPc = "wait" /\ c.request
  /\ c' = [c EXCEPT !.request = FALSE]
  /\ IF c.leaf = "Source" /\ c.current = Camera
     THEN CamGoto("open", "ok") /\ camSession' = c.session
     ELSE UNCHANGED camVars
  /\ UNCHANGED <<uiSession, sampled>>

\* Selecting the format and starting the stream, which another user of the camera may hold.
CamOpen ==
  /\ camPc = "open"
  /\ CamGoto("frame", "ok") \/ CamGoto("fail", "error")
  /\ UNCHANGED <<c, uiSession, sampled, camSession>>

\* A frame; -EAGAIN after 250 ms only goes round the loop.
CamFrame ==
  /\ camPc = "frame" /\ CamGoto("feed", "ok")
  /\ UNCHANGED <<c, uiSession, sampled, camSession>>

CamFrameFails ==
  /\ camPc = "frame" /\ CamGoto("stop", "error")
  /\ UNCHANGED <<c, uiSession, sampled, camSession>>

\* Faulty variant: the thread goes on filming after its session was cancelled.
EndsWhenDone(ret) == ret = "done"

Ends(ret) == ret \in {"done", "canceled"}

CamFeed ==
  /\ camPc = "feed"
  /\ \E o \in Feed(c, camSession, Camera, 1) :
       /\ c' = o.ctx
       /\ CamGoto("release", IF o.ret = "error" THEN "error" ELSE IF Ends(o.ret) THEN "end" ELSE "ok")
  /\ UNCHANGED <<uiSession, sampled, camSession>>

\* A frame within 200 ms of the last sample is only released.
CamTooEarly ==
  /\ camPc = "feed" /\ CamGoto("release", "ok")
  /\ UNCHANGED <<c, uiSession, sampled, camSession>>

CamRelease ==
  /\ camPc = "release"
  /\ \/ CamGoto(IF camRet = "ok" THEN "frame" ELSE "stop", camRet)
     \/ CamGoto("stop", "error")
  /\ UNCHANGED <<c, uiSession, sampled, camSession>>

CamStop ==
  /\ camPc = "stop"
  /\ \/ CamGoto(IF camRet = "error" THEN "fail" ELSE "wait", camRet)
     \/ CamGoto("fail", "error")
  /\ UNCHANGED <<c, uiSession, sampled, camSession>>

CamFail ==
  /\ camPc = "fail"
  /\ c' = Fail(c, camSession, Camera)
  /\ CamGoto("wait", "ok")
  /\ UNCHANGED <<uiSession, sampled, camSession>>

CameraThread ==
  \/ CamRequest \/ CamOpen \/ CamFrame \/ CamFrameFails \/ CamFeed \/ CamTooEarly
  \/ CamRelease \/ CamStop \/ CamFail

-----------------------------------------------------------------------------
Init ==
  /\ c = Idle /\ uiSession = 0 /\ sampled = [s \in Sensors |-> 0]
  /\ camPc = "wait" /\ camSession = 0 /\ camRet = "ok"

User == (\E chosen \in SUBSET Sources \ {{}} : BeginSession(chosen))
        \/ TouchFeed \/ RetryClicked \/ SkipClicked \/ Leave

SensorThread(s) == Snapshot(s) \/ SensorFeed(s) \/ SensorFail(s)

Next == User \/ (\E s \in Sensors : SensorThread(s)) \/ CameraThread

\* The camera thread is scheduled, frames keep coming, and one is due for sampling now and then.
Fairness == WF_vars(CameraThread) /\ SF_vars(CamFrame) /\ SF_vars(CamFeed)

Spec == Init /\ [][Next]_vars /\ Fairness

-----------------------------------------------------------------------------
(* Properties                                                              *)

\* The type invariant; records[] is written at the index POPCOUNT(completed), so that index never
\* runs ahead of what has been written nor past the four records there are.
TypeOK ==
  /\ c.leaf \in {"Idle", "Source", "Error", "Ready"} /\ c.session \in 0..MaxSessions
  /\ {c.selected, c.completed, c.skipped, c.running} \subseteq SUBSET Sources
  /\ c.current \in Sources \cup {NoSource} /\ c.units \in 0..Target
  /\ c.hashing \in BOOLEAN /\ c.request \in BOOLEAN
  /\ c.records \in Seq([source : Sources, units : 1..(2 * Target)])
  /\ Len(c.records) = Cardinality(c.completed)
  /\ uiSession \in 0..MaxSessions /\ sampled \in [Sensors -> 0..MaxSessions]
  /\ camPc \in {"wait", "open", "frame", "feed", "release", "stop", "fail"}
  /\ camSession \in 0..MaxSessions /\ camRet \in {"ok", "end", "error"}

\* What the Rust core demands of the transcript (docs/mnemonic-entropy.md:76-80), at the moment
\* it can be read: its records are in strict source order, one for each completed source and
\* backed by enough units, and every selected source is completed or skipped, never both.
TranscriptCanonical ==
  /\ TypeOK
  /\ c.leaf = "Ready" =>
       /\ \A i \in 1..(Len(c.records) - 1) : c.records[i].source < c.records[i + 1].source
       /\ {c.records[i].source : i \in DOMAIN c.records} = c.completed
       /\ \A i \in DOMAIN c.records : c.records[i].units >= Target
       /\ c.completed \cap c.skipped = {} /\ c.completed \cup c.skipped = c.selected

\* A sensor samples for this service only while its source is the one being collected, and a
\* digest is computed only then: neither survives a failure, a skip or a cancellation
\* (src/entropy/entropy.c:285-303).
OnlyCurrentRuns ==
  /\ c.running = IF c.leaf = "Source" THEN {c.current} \cap Sensors ELSE {}
  /\ c.hashing = (c.leaf = "Source")

\* When the camera is the source to be collected its thread serves that very session: it ends,
\* is skipped or fails, even if the thread was still filming for an earlier session or had
\* dropped an earlier request (src/entropy/entropy.c:744-812).
CameraServed ==
  \A n \in 1..MaxSessions :
    (c.leaf = "Source" /\ c.current = Camera /\ c.session = n)
      ~> ~(c.leaf = "Source" /\ c.current = Camera /\ c.session = n)

\* The camera stream is given back when its frames are not wanted any more, so that the QR
\* scanner can use it (src/entropy/entropy.c:791-812).
CameraReleased ==
  (camPc \in {"frame", "feed", "release"} /\ ~Collecting(c, camSession, Camera))
    ~> camPc \notin {"frame", "feed", "release"}
=============================================================================
