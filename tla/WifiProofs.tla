------------------------------ MODULE WifiProofs ------------------------------
(***************************************************************************)
(* Proofs about Wifi, for all builds, and about WifiScan, for all names,   *)
(* strengths and capacities.                                               *)
(*                                                                         *)
(* The station: a result is posted once and before its loss (Queue), so    *)
(* that it is enough to say which results are on the way, to the queue or  *)
(* between check and effect (Results), and that a state which is not that  *)
(* of the link is about to be put right by one of them, or by the work     *)
(* queue that has given the attempt up (Station).  The access point is     *)
(* with one at a time (AccessPoint).                                       *)
(***************************************************************************)
EXTENDS Wifi, WifiScan, SequenceTheorems, TLAPS

-----------------------------------------------------------------------------
(* The station and the access point.                                       *)

\* What the driver posts, and what of it is about the station once its check is passed.
Events == {"connected", "failed", "DISCONNECT", "apOn", "apOff"}
StationResults == {"connected", "failed", "lost"}

\* The types that TypeOK states, with the pair of threads as a record.
Flags ==
  /\ display \in BOOLEAN /\ saved \in BOOLEAN /\ apNet \in BOOLEAN /\ timer \in BOOLEAN
  /\ headless \in BOOLEAN /\ refused \in BOOLEAN /\ uncancelled \in BOOLEAN

Ranges ==
  /\ sta \in {"OFF", "DISCONNECTED", "CONNECTING", "CONNECTED"}
  /\ ap \in {"OFF", "STARTING", "ACTIVE"}
  /\ pc \in [main : {"start", "ap", "starting", "request", "stop", "sta", "connect",
                     "connectRequest", "arm", "done"},
             work : {"idle", "giveUp", "disconnect", "ap", "starting", "request", "stop"}]
  /\ handling \in {"none", "connected", "failed", "lost", "apOn", "apOff"}
  /\ link \in {"idle", "connecting", "up"} /\ radioAp \in {"off", "asked", "on"}

Queued(e) == \E i \in DOMAIN events : events[i] = e

\* An event is posted once at most before it is handled, and the connection before its loss.
Queue ==
  /\ events \in Seq(Events)
  /\ \A i, j \in DOMAIN events : events[i] = events[j] => i = j
  /\ \A i, j \in DOMAIN events : events[i] = "connected" /\ events[j] = "DISCONNECT" => i < j

\* Before the attempt nothing of the station has happened, and the work queue is idle.
Untried ==
  /\ link = "idle" /\ ~timer /\ ~headless /\ ~uncancelled /\ pc.work = "idle"
  /\ ~Queued("connected") /\ ~Queued("failed") /\ ~Queued("DISCONNECT")
  /\ handling \notin StationResults

Sequence ==
  /\ pc.main \in {"start", "ap", "starting", "request", "stop", "sta"} => sta = "OFF"
  /\ pc.main = "connect" => sta = "DISCONNECTED" /\ Untried
  /\ pc.main = "connectRequest" => sta = "CONNECTING" /\ Untried
  /\ pc.main = "arm" => sta # "OFF"
  /\ sta = "OFF" => Untried

\* What is on its way from the driver to the station's state.
Results ==
  /\ Queued("connected") \/ handling = "connected" =>
       /\ sta \in {"CONNECTING", "DISCONNECTED"} /\ link # "connecting"
       /\ link = "idle" => Queued("DISCONNECT")
       /\ ~Queued("failed")
  /\ ~(Queued("connected") /\ handling = "connected")
  /\ Queued("failed") \/ handling = "failed" =>
       link = "idle" /\ sta \in {"CONNECTING", "DISCONNECTED"} /\ ~Queued("DISCONNECT")
  /\ Queued("failed") => handling \notin StationResults
  /\ Queued("DISCONNECT") \/ handling = "lost" => link = "idle"
  /\ handling \in {"lost", "failed"} =>
       ~Queued("connected") /\ ~Queued("failed") /\ ~Queued("DISCONNECT")
  /\ link = "connecting" => handling # "connected"

\* A state of the station that is not that of the link is about to be put right.
Station ==
  /\ pc.work = "disconnect" => sta # "CONNECTING"
  /\ link = "connecting" =>
       /\ sta \in {"CONNECTING", "DISCONNECTED"}
       /\ sta = "DISCONNECTED" => pc.work = "disconnect" \/ uncancelled
  /\ link = "up" =>
       /\ sta = "CONNECTING" => Queued("connected") \/ handling = "connected"
       /\ sta = "DISCONNECTED" => handling = "connected" \/ pc.work = "disconnect" \/ uncancelled
  /\ link = "idle" =>
       /\ sta = "CONNECTED" => Queued("DISCONNECT") \/ handling = "lost"
       /\ sta = "CONNECTING" => \/ pc.main = "connectRequest" \/ Queued("failed") \/ Queued("DISCONNECT")
                                \/ handling \in {"lost", "failed"}

ApIsSettled == ~Queued("apOn") /\ ~Queued("apOff") /\ handling \notin {"apOn", "apOff"}

\* The access point is with one at a time: the thread that starts it, the driver, or its answer.
AccessPoint ==
  /\ \A t \in {"main", "work"} :
       /\ pc[t] \in {"starting", "stop"} => ap = "OFF" /\ apNet
       /\ pc[t] = "request" => ap = "STARTING" /\ apNet /\ radioAp = "off" /\ ApIsSettled
  /\ ap = "OFF" =>
       /\ radioAp = "off" /\ ApIsSettled
       /\ apNet => \E t \in {"main", "work"} : pc[t] \in {"starting", "stop"}
  /\ ap = "ACTIVE" => radioAp = "on" /\ apNet /\ ApIsSettled
  /\ radioAp = "asked" => apNet /\ ap = "STARTING" /\ ApIsSettled
  /\ Queued("apOn") => apNet /\ radioAp = "on" /\ ~Queued("apOff") /\ handling \notin {"apOn", "apOff"}
  /\ Queued("apOff") => apNet /\ radioAp = "off" /\ handling \notin {"apOn", "apOff"}
  /\ handling = "apOn" => apNet /\ radioAp = "on"
  /\ handling = "apOff" => ~apNet /\ radioAp = "off"
  /\ ap = "STARTING" => \/ radioAp = "asked" \/ ~ApIsSettled \/ pc.main = "request" \/ pc.work = "request"

IInv == Flags /\ Ranges /\ Queue /\ Sequence /\ Results /\ Station /\ AccessPoint

\* What is queued stays so while nothing is posted or taken.
Same == \A e \in Events : Queued(e)' = Queued(e)

LEMMA QueueKept ==
  ASSUME Queue, UNCHANGED events
  PROVE  Queue' /\ Same
BY DEF Queue, Same, Queued

\* An event that is posted once is queued with the others, behind them.
LEMMA QueuePosted ==
  ASSUME Queue, NEW x \in Events, Posted(x), ~Queued(x),
         x = "connected" => ~Queued("DISCONNECT")
  PROVE  Queue' /\ \A e \in Events : Queued(e)' <=> Queued(e) \/ e = x
<1>1. /\ events' \in Seq(Events) /\ Len(events') = Len(events) + 1
      /\ \A i \in 1..Len(events) : events'[i] = events[i]
      /\ events'[Len(events) + 1] = x
  BY AppendProperties DEF Queue, Posted
<1>2. /\ Len(events) \in Nat /\ DOMAIN events = 1..Len(events)
      /\ DOMAIN events' = 1..(Len(events) + 1)
  BY <1>1, LenProperties DEF Queue
<1>3. \A i \in DOMAIN events : events[i] # x
  BY DEF Queued
<1>4. Queue'
  <2>1. \A i, j \in DOMAIN events' : events'[i] = events'[j] => i = j
    BY <1>1, <1>2, <1>3 DEF Queue
  <2>2. ASSUME NEW i \in DOMAIN events', NEW j \in DOMAIN events',
               events'[i] = "connected", events'[j] = "DISCONNECT"
        PROVE  i < j
    <3>1. CASE x = "connected"
      BY <2>2, <3>1, <1>1, <1>2 DEF Queued
    <3>2. CASE x # "connected"
      <4>1. i \in 1..Len(events)
        BY <2>2, <3>2, <1>1, <1>2
      <4>2. CASE j \in 1..Len(events)
        BY <2>2, <4>1, <4>2, <1>1, <1>2 DEF Queue
      <4> QED
        BY <4>1, <4>2, <1>2
    <3> QED
      BY <3>1, <3>2
  <2> QED
    BY <1>1, <2>1, <2>2 DEF Queue
<1> QED
  BY <1>1, <1>2, <1>4 DEF Queued

\* The event that is taken is no longer queued; a loss is taken after its connection.
LEMMA QueueTaken ==
  ASSUME Queue, events # <<>>, events' = Tail(events)
  PROVE  /\ Queue' /\ Head(events) \in Events /\ Queued(Head(events))
         /\ \A e \in Events : Queued(e)' <=> Queued(e) /\ e # Head(events)
         /\ Head(events) = "DISCONNECT" => ~Queued("connected")
<1>1. /\ events' \in Seq(Events) /\ Len(events') = Len(events) - 1
      /\ \A i \in 1..(Len(events) - 1) : events'[i] = events[i + 1]
  BY HeadTailProperties DEF Queue
<1>2. /\ Len(events) \in Nat /\ Len(events) # 0 /\ DOMAIN events = 1..Len(events)
      /\ DOMAIN events' = 1..(Len(events) - 1) /\ Head(events) = events[1]
  BY <1>1, LenProperties, EmptySeq, HeadTailProperties DEF Queue
<1>3. Head(events) \in Events /\ Queued(Head(events))
  BY <1>2, ElementOfSeq DEF Queue, Queued
<1>4. Queue'
  BY <1>1, <1>2 DEF Queue
<1>5. ASSUME NEW e \in Events PROVE Queued(e)' <=> Queued(e) /\ e # Head(events)
  <2>1. ASSUME Queued(e), e # Head(events) PROVE Queued(e)'
    <3>1. PICK i \in 1..Len(events) : events[i] = e
      BY <2>1, <1>2 DEF Queued
    <3>2. i - 1 \in 1..(Len(events) - 1) /\ (i - 1) + 1 = i
      BY <3>1, <2>1, <1>2
    <3> QED
      BY <3>1, <3>2, <1>1, <1>2 DEF Queued
  <2>2. ASSUME Queued(e)' PROVE Queued(e) /\ e # Head(events)
    <3>1. PICK i \in 1..(Len(events) - 1) : events[i + 1] = e
      BY <2>2, <1>1, <1>2 DEF Queued
    <3>2. i + 1 \in DOMAIN events /\ 1 \in DOMAIN events /\ i + 1 # 1
      BY <1>2
    <3> QED
      BY <3>1, <3>2, <1>2 DEF Queued, Queue
  <2> QED
    BY <2>1, <2>2
<1>6. Head(events) = "DISCONNECT" => ~Queued("connected")
  BY <1>2 DEF Queued, Queue
<1> QED
  BY <1>3, <1>4, <1>5, <1>6

\* enable_ap_mode(), in whichever thread: nobody else is at the access point meanwhile.
LEMMA ApSteps ==
  ASSUME IInv, NEW t \in {"main", "work"}, EnableApMode(t)
  PROVE  IInv'
<1>0. Flags /\ Ranges /\ Queue /\ Sequence /\ Results /\ Station /\ AccessPoint
  BY DEF IInv
<1> USE <1>0 DEF Flags, Ranges, Sequence, Results, Station, AccessPoint, Untried, ApIsSettled, StationResults,
        Go, HeadlessFallback, station, accessPoint, build, Events
<1>1. CASE EnableAp(t)
  <2>q. Queue' /\ Same
    BY <1>1, QueueKept DEF EnableAp, ApDone
  <2>1. Flags'
    BY <1>1, <2>q DEF Same, EnableAp, ApDone
  <2>2. Ranges'
    BY <1>1, <2>q DEF Same, EnableAp, ApDone
  <2>3. Sequence' /\ Results' /\ Station' /\ AccessPoint'
    BY <1>1, <2>q DEF Same, EnableAp, ApDone
  <2> QED
    BY <2>q, <2>1, <2>2, <2>3 DEF IInv
<1>2. CASE ApStarting(t)
  <2>q. Queue' /\ Same
    BY <1>2, QueueKept DEF ApStarting
  <2> QED
    BY <1>2, <2>q DEF IInv, Same, ApStarting
<1>3. CASE ApRequest(t)
  <2>q. Queue' /\ Same
    BY <1>3, QueueKept DEF ApRequest, ApDone
  <2>1. Flags'
    BY <1>3, <2>q DEF Same, ApRequest, ApDone
  <2>2. Ranges'
    BY <1>3, <2>q DEF Same, ApRequest, ApDone
  <2>3. Sequence' /\ Results' /\ Station' /\ AccessPoint'
    BY <1>3, <2>q DEF Same, ApRequest, ApDone
  <2> QED
    BY <2>q, <2>1, <2>2, <2>3 DEF IInv
<1>4. CASE ApStop(t)
  <2>q. Queue' /\ Same
    BY <1>4, QueueKept DEF ApStop, ApDone
  <2>1. Flags'
    BY <1>4, <2>q DEF Same, ApStop, ApDone
  <2>2. Ranges'
    BY <1>4, <2>q DEF Same, ApStop, ApDone
  <2>3. Sequence' /\ Results' /\ Station' /\ AccessPoint'
    BY <1>4, <2>q DEF Same, ApStop, ApDone
  <2> QED
    BY <2>q, <2>1, <2>2, <2>3 DEF IInv
<1> QED
  BY <1>1, <1>2, <1>3, <1>4
     DEF EnableApMode

\* The main thread: nothing of the station has happened before its request.
LEMMA MainSteps ==
  ASSUME IInv, MainThread, ~EnableApMode("main")
  PROVE  IInv'
<1>0. Flags /\ Ranges /\ Queue /\ Sequence /\ Results /\ Station /\ AccessPoint
  BY DEF IInv
<1> USE <1>0 DEF Flags, Ranges, Sequence, Results, Station, AccessPoint, Untried, ApIsSettled, StationResults,
        Go, HeadlessFallback, station, accessPoint, build, Events
<1>1. CASE Start
  <2>q. Queue' /\ Same
    BY <1>1, QueueKept DEF Start, WantsAp
  <2> QED
    BY <1>1, <2>q DEF IInv, Same, Start, WantsAp
<1>2. CASE StartSta
  <2>q. Queue' /\ Same
    BY <1>2, QueueKept DEF StartSta, WantsSta
  <2> QED
    BY <1>2, <2>q DEF IInv, Same, StartSta, WantsSta
<1>3. CASE Connecting
  <2>q. Queue' /\ Same
    BY <1>3, QueueKept DEF Connecting
  <2> QED
    BY <1>3, <2>q DEF IInv, Same, Connecting
<1>4. CASE ConnectRequest
  <2>q. Queue' /\ Same
    BY <1>4, QueueKept DEF ConnectRequest
  <2> QED
    BY <1>4, <2>q DEF IInv, Same, ConnectRequest
<1>5. CASE ArmTimer
  <2>q. Queue' /\ Same
    BY <1>5, QueueKept DEF ArmTimer
  <2> QED
    BY <1>5, <2>q DEF IInv, Same, ArmTimer
<1> QED
  BY <1>1, <1>2, <1>3, <1>4, <1>5
     DEF MainThread

\* The work queue gives up an attempt before it disconnects.
LEMMA WorkSteps ==
  ASSUME IInv, WorkQueue, ~EnableApMode("work"), ~CancelAttempt
  PROVE  IInv'
<1>0. Flags /\ Ranges /\ Queue /\ Sequence /\ Results /\ Station /\ AccessPoint
  BY DEF IInv
<1> USE <1>0 DEF Flags, Ranges, Sequence, Results, Station, AccessPoint, Untried, ApIsSettled, StationResults,
        Go, HeadlessFallback, station, accessPoint, build, Events
<1>1. CASE TimeOut
  <2>q. Queue' /\ Same
    BY <1>1, QueueKept DEF TimeOut
  <2>1. Flags'
    BY <1>1, <2>q DEF Same, TimeOut
  <2>2. Ranges'
    BY <1>1, <2>q DEF Same, TimeOut
  <2>3. Sequence' /\ Results' /\ Station' /\ AccessPoint'
    BY <1>1, <2>q DEF Same, TimeOut
  <2> QED
    BY <2>q, <2>1, <2>2, <2>3 DEF IInv
<1>2. CASE GiveUp
  <2>q. Queue' /\ Same
    BY <1>2, QueueKept DEF GiveUp, ConnectionFailed
  <2>1. Flags'
    BY <1>2, <2>q DEF Same, GiveUp, ConnectionFailed
  <2>2. Ranges'
    BY <1>2, <2>q DEF Same, GiveUp, ConnectionFailed
  <2>3. Sequence' /\ Results' /\ Station' /\ AccessPoint'
    BY <1>2, <2>q DEF Same, GiveUp, ConnectionFailed
  <2> QED
    BY <2>q, <2>1, <2>2, <2>3 DEF IInv
<1>3. CASE HeadlessAp
  <2>q. Queue' /\ Same
    BY <1>3, QueueKept DEF HeadlessAp
  <2>1. Flags'
    BY <1>3, <2>q DEF Same, HeadlessAp
  <2>2. Ranges'
    BY <1>3, <2>q DEF Same, HeadlessAp
  <2>3. Sequence' /\ Results' /\ Station' /\ AccessPoint'
    BY <1>3, <2>q DEF Same, HeadlessAp
  <2> QED
    BY <2>q, <2>1, <2>2, <2>3 DEF IInv
<1> QED
  BY <1>1, <1>2, <1>3
     DEF WorkQueue

\* A disconnection ends the link and is told, or fails and is remembered.
LEMMA CancelSteps ==
  ASSUME IInv, CancelAttempt
  PROVE  IInv'
<1>0. Flags /\ Ranges /\ Queue /\ Sequence /\ Results /\ Station /\ AccessPoint
  BY DEF IInv
<1> USE <1>0 DEF Flags, Ranges, Sequence, Results, Station, AccessPoint, Untried, ApIsSettled, StationResults,
        Go, HeadlessFallback, station, accessPoint, build, Events
<1>1. CASE CancelAttempt
  <2>1. CASE link # "idle" /\ link' = "idle" /\ Posted("DISCONNECT")
    <3>q. Queue' /\ \A e \in Events : Queued(e)' <=> Queued(e) \/ e = "DISCONNECT"
      BY <2>1, <1>1, QueuePosted DEF CancelAttempt
    <3> QED
      BY <2>1, <1>1, <3>q DEF IInv, Same, CancelAttempt
  <2>2. CASE UNCHANGED <<link, events>>
    <3>q. Queue' /\ Same
      BY <2>2, <1>1, QueueKept DEF CancelAttempt
    <3>1. Flags'
      BY <2>2, <1>1, <3>q DEF Same, CancelAttempt
    <3>2. Ranges'
      BY <2>2, <1>1, <3>q DEF Same, CancelAttempt
    <3>3. Sequence' /\ Results' /\ Station' /\ AccessPoint'
      BY <2>2, <1>1, <3>q DEF Same, CancelAttempt
    <3> QED
      BY <3>q, <3>1, <3>2, <3>3 DEF IInv
  <2> QED
    BY <1>1, <2>1, <2>2 DEF CancelAttempt
<1> QED
  BY <1>1

\* The driver posts each of its results once.
LEMMA DriverSteps ==
  ASSUME IInv, Driver
  PROVE  IInv'
<1>0. Flags /\ Ranges /\ Queue /\ Sequence /\ Results /\ Station /\ AccessPoint
  BY DEF IInv
<1> USE <1>0 DEF Flags, Ranges, Sequence, Results, Station, AccessPoint, Untried, ApIsSettled, StationResults,
        Go, HeadlessFallback, station, accessPoint, build, Events
<1>1. CASE AttemptEnds
  <2>1. CASE link' = "up" /\ Posted("connected")
    <3>q. Queue' /\ \A e \in Events : Queued(e)' <=> Queued(e) \/ e = "connected"
      BY <2>1, <1>1, QueuePosted DEF AttemptEnds
    <3> QED
      BY <2>1, <1>1, <3>q DEF IInv, Same, AttemptEnds
  <2>2. CASE link' = "idle" /\ Posted("failed")
    <3>q. Queue' /\ \A e \in Events : Queued(e)' <=> Queued(e) \/ e = "failed"
      BY <2>2, <1>1, QueuePosted DEF AttemptEnds
    <3> QED
      BY <2>2, <1>1, <3>q DEF IInv, Same, AttemptEnds
  <2>3. CASE link' = "idle" /\ Posted("DISCONNECT")
    <3>q. Queue' /\ \A e \in Events : Queued(e)' <=> Queued(e) \/ e = "DISCONNECT"
      BY <2>3, <1>1, QueuePosted DEF AttemptEnds
    <3> QED
      BY <2>3, <1>1, <3>q DEF IInv, Same, AttemptEnds
  <2> QED
    BY <1>1, <2>1, <2>2, <2>3 DEF AttemptEnds
<1>2. CASE LinkDrops
  <2>1. CASE Posted("DISCONNECT")
    <3>q. Queue' /\ \A e \in Events : Queued(e)' <=> Queued(e) \/ e = "DISCONNECT"
      BY <2>1, <1>2, QueuePosted DEF LinkDrops
    <3> QED
      BY <2>1, <1>2, <3>q DEF IInv, Same, LinkDrops
  <2> QED
    BY <1>2, <2>1 DEF LinkDrops
<1>3. CASE ApAnswered
  <2>1. CASE radioAp' = "on" /\ Posted("apOn")
    <3>q. Queue' /\ \A e \in Events : Queued(e)' <=> Queued(e) \/ e = "apOn"
      BY <2>1, <1>3, QueuePosted DEF ApAnswered
    <3> QED
      BY <2>1, <1>3, <3>q DEF IInv, Same, ApAnswered
  <2>2. CASE radioAp' = "off" /\ Posted("apOff")
    <3>q. Queue' /\ \A e \in Events : Queued(e)' <=> Queued(e) \/ e = "apOff"
      BY <2>2, <1>3, QueuePosted DEF ApAnswered
    <3> QED
      BY <2>2, <1>3, <3>q DEF IInv, Same, ApAnswered
  <2> QED
    BY <1>3, <2>1, <2>2 DEF ApAnswered
<1> QED
  BY <1>1, <1>2, <1>3 DEF Driver

\* The event thread: a result is dropped, or its effect follows the check.
LEMMA EventSteps ==
  ASSUME IInv, EventThread
  PROVE  IInv'
<1>0. Flags /\ Ranges /\ Queue /\ Sequence /\ Results /\ Station /\ AccessPoint
  BY DEF IInv
<1> USE <1>0 DEF Flags, Ranges, Sequence, Results, Station, AccessPoint, Untried, ApIsSettled, StationResults,
        Go, HeadlessFallback, station, accessPoint, build, Events
<1>1. CASE Check
  <2>q. /\ Queue' /\ Head(events) \in Events /\ Queued(Head(events))
        /\ \A e \in Events : Queued(e)' <=> Queued(e) /\ e # Head(events)
        /\ Head(events) = "DISCONNECT" => ~Queued("connected")
    BY <1>1, QueueTaken DEF Check
  <2>1. CASE Head(events) = "DISCONNECT" /\ LostLink
    <3>1. Flags'
      BY <2>1, <1>1, <2>q DEF Check, Checked, Ignored, LostLink
    <3>2. Ranges'
      BY <2>1, <1>1, <2>q DEF Check, Checked, Ignored, LostLink
    <3>3. Sequence' /\ Results' /\ Station' /\ AccessPoint'
      BY <2>1, <1>1, <2>q DEF Check, Checked, Ignored, LostLink
    <3> QED
      BY <2>q, <3>1, <3>2, <3>3 DEF IInv
  <2>2. CASE Head(events) = "connected" /\ ConnectResult("connected")
    <3>1. Flags'
      BY <2>2, <1>1, <2>q DEF Check, Checked, Ignored, ConnectResult
    <3>2. Ranges'
      BY <2>2, <1>1, <2>q DEF Check, Checked, Ignored, ConnectResult
    <3>3. Sequence' /\ Results' /\ Station' /\ AccessPoint'
      BY <2>2, <1>1, <2>q DEF Check, Checked, Ignored, ConnectResult
    <3> QED
      BY <2>q, <3>1, <3>2, <3>3 DEF IInv
  <2>3. CASE Head(events) = "failed" /\ ConnectResult("failed")
    <3>1. Flags'
      BY <2>3, <1>1, <2>q DEF Check, Checked, Ignored, ConnectResult
    <3>2. Ranges'
      BY <2>3, <1>1, <2>q DEF Check, Checked, Ignored, ConnectResult
    <3>3. Sequence' /\ Results' /\ Station' /\ AccessPoint'
      BY <2>3, <1>1, <2>q DEF Check, Checked, Ignored, ConnectResult
    <3> QED
      BY <2>q, <3>1, <3>2, <3>3 DEF IInv
  <2>4. CASE Head(events) = "apOn" /\ ApResult("apOn")
    <3> QED
      BY <2>4, <1>1, <2>q DEF IInv, Check, Checked, Ignored, ApResult
  <2>5. CASE Head(events) = "apOff" /\ ApResult("apOff")
    <3>1. Flags'
      BY <2>5, <1>1, <2>q DEF Check, Checked, Ignored, ApResult
    <3>2. Ranges'
      BY <2>5, <1>1, <2>q DEF Check, Checked, Ignored, ApResult
    <3>3. Sequence' /\ Results' /\ Station' /\ AccessPoint'
      BY <2>5, <1>1, <2>q DEF Check, Checked, Ignored, ApResult
    <3> QED
      BY <2>q, <3>1, <3>2, <3>3 DEF IInv
  <2> QED
    BY <1>1, <2>1, <2>2, <2>3, <2>4, <2>5 DEF Check
<1>2. CASE Act
  <2>q. Queue' /\ Same
    BY <1>2, QueueKept DEF Act
  <2>1. CASE Lost
    <3> QED
      BY <2>1, <1>2, <2>q DEF IInv, Act, Same, Lost
  <2>2. CASE Failed
    <3>1. Flags'
      BY <2>2, <1>2, <2>q DEF Act, Same, Failed, ConnectionFailed
    <3>2. Ranges'
      BY <2>2, <1>2, <2>q DEF Act, Same, Failed, ConnectionFailed
    <3>3. Sequence' /\ Results' /\ Station' /\ AccessPoint'
      BY <2>2, <1>2, <2>q DEF Act, Same, Failed, ConnectionFailed
    <3> QED
      BY <2>q, <3>1, <3>2, <3>3 DEF IInv
  <2>3. CASE handling = "connected" /\ sta' = "CONNECTED" /\ UNCHANGED <<headless, ap, refused>>
    <3> QED
      BY <2>3, <1>2, <2>q DEF IInv, Act, Same
  <2>4. CASE handling = "apOn" /\ ap' = "ACTIVE" /\ UNCHANGED <<sta, headless, refused>>
    <3> QED
      BY <2>4, <1>2, <2>q DEF IInv, Act, Same
  <2>5. CASE handling = "apOff" /\ ap' = "OFF" /\ refused' = TRUE /\ UNCHANGED <<sta, headless>>
    <3> QED
      BY <2>5, <1>2, <2>q DEF IInv, Act, Same
  <2> QED
    BY <1>2, <2>1, <2>2, <2>3, <2>4, <2>5 DEF Act
<1> QED
  BY <1>1, <1>2 DEF EventThread

\* Nothing has happened yet.
LEMMA InitInv == Init => IInv
<1> SUFFICES ASSUME Init PROVE IInv
  OBVIOUS
<1>1. Queue /\ \A e \in Events : ~Queued(e)
  BY EmptySeq DEF Init, Queue, Queued
<1>2. Flags /\ Ranges
  BY DEF Init, Flags, Ranges
<1>3. Sequence /\ Results /\ Station /\ AccessPoint
  BY <1>1 DEF Init, Sequence, Results, Station, AccessPoint, Untried, ApIsSettled, StationResults, Events
<1> QED
  BY <1>1, <1>2, <1>3 DEF IInv

\* No step breaks it.
LEMMA NextInv == IInv /\ [Next]_vars => IInv'
<1> SUFFICES ASSUME IInv, [Next]_vars PROVE IInv'
  OBVIOUS
<1>1. CASE EnableApMode("main") \/ EnableApMode("work")
  BY <1>1, ApSteps
<1>2. CASE MainThread /\ ~EnableApMode("main")
  BY <1>2, MainSteps
<1>3. CASE WorkQueue /\ ~EnableApMode("work") /\ ~CancelAttempt
  BY <1>3, WorkSteps
<1>4. CASE CancelAttempt
  BY <1>4, CancelSteps
<1>5. CASE EventThread
  BY <1>5, EventSteps
<1>6. CASE Driver
  BY <1>6, DriverSteps
<1>7. CASE UNCHANGED vars
  BY <1>7 DEF vars, station, accessPoint, build, IInv, Flags, Ranges, Queue, Queued, Sequence, Results, Station,
     AccessPoint, Untried, ApIsSettled
<1> QED
  BY <1>1, <1>2, <1>3, <1>4, <1>5, <1>6, <1>7 DEF Next

LEMMA Invariance == Spec => []IInv
BY InitInv, NextInv, PTL DEF Spec

\* When everything is handled the states of station and access point are those of the radio, in
\* whatever order timer, results, losses and disconnections reach the threads
\* (src/net/wifi.c:565-586, 688-725).
THEOREM StateIsRight == Spec => []StateTellsRadio
<1>1. IInv => TypeOK
  BY DEF IInv, Flags, Ranges, Queue, Events, TypeOK
<1>2. ASSUME IInv, Quiet
      PROVE  /\ ~uncancelled => (sta = "CONNECTED" <=> link = "up") /\ (sta = "CONNECTING" <=> link = "connecting")
             /\ (ap = "ACTIVE" <=> radioAp = "on") /\ (ap = "OFF" <=> ~apNet)
  <2> USE <1>2 DEF IInv, Quiet
  <2>1. \A e \in Events : ~Queued(e)
    BY DEF Queued
  <2>2. ~uncancelled => (sta = "CONNECTED" <=> link = "up") /\ (sta = "CONNECTING" <=> link = "connecting")
    BY <2>1 DEF Flags, Ranges, Sequence, Results, Station, Untried, StationResults, Events
  <2>3. (ap = "ACTIVE" <=> radioAp = "on") /\ (ap = "OFF" <=> ~apNet)
    BY <2>1 DEF Flags, Ranges, AccessPoint, ApIsSettled, Events
  <2> QED
    BY <2>2, <2>3
<1>3. IInv => StateTellsRadio
  BY <1>1, <1>2 DEF StateTellsRadio
<1> QED
  BY <1>3, Invariance, PTL

-----------------------------------------------------------------------------
(* Scans.                                                                  *)

\* What the list relies on between the steps of a scan.
Claims ==
  /\ scanning => active /\ caller = "idle"
  /\ caller # "idle" => active
  /\ caller = "request" => networks = <<>>

ScanInv ==
  /\ ScanTypeOK /\ Claims
  /\ ListedOnce /\ StrongestKept
  /\ ~active /\ event = "idle" => StrongestFirst

USE WifiScanAssumption

-----------------------------------------------------------------------------
(* The two changes of the list.                                            *)

\* Replacing an entry keeps the type and the length.
LEMMA ReplaceType ==
  ASSUME ScanTypeOK, NEW result \in Network, NEW i \in DOMAIN networks, Replace(i, result)
  PROVE  /\ networks' \in Seq(Network) /\ Len(networks') = Len(networks)
         /\ DOMAIN networks' = DOMAIN networks
         /\ networks'[i] = result
         /\ \A j \in DOMAIN networks : j # i => networks'[j] = networks[j]
BY ExceptSeq DEF ScanTypeOK, Replace

LEMMA AppendType ==
  ASSUME ScanTypeOK, NEW result \in Network, networks' = Append(networks, result)
  PROVE  /\ networks' \in Seq(Network) /\ Len(networks') = Len(networks) + 1
         /\ DOMAIN networks' = DOMAIN networks \cup {Len(networks) + 1}
         /\ networks'[Len(networks) + 1] = result
         /\ \A j \in DOMAIN networks : networks'[j] = networks[j]
<1>1. networks \in Seq(Network) BY DEF ScanTypeOK
<1>2. DOMAIN networks = 1..Len(networks) /\ Len(networks) \in Nat BY <1>1, LenProperties
<1>3. DOMAIN networks' = 1..Len(networks') BY <1>1, AppendProperties, LenProperties
<1> QED BY <1>1, <1>2, <1>3, AppendProperties

\* A result is added: the list stays within its capacity, lists every network once, and keeps
\* the strongest of what has been seen.
LEMMA AddKeeps ==
  ASSUME ScanTypeOK, ListedOnce, StrongestKept,
         NEW result \in Network, Add(result), seen' = seen \cup {result}
  PROVE  /\ networks' \in Seq(Network) /\ Len(networks') <= Capacity
         /\ ListedOnce' /\ StrongestKept'
<1>t. /\ networks \in Seq(Network) /\ Len(networks) \in Nat /\ Len(networks) <= Capacity
      /\ DOMAIN networks = 1..Len(networks)
  BY LenProperties DEF ScanTypeOK
<1>i. /\ \A i \in DOMAIN networks : networks[i] \in Network /\ networks[i].rssi \in Int
      /\ result.rssi \in Int /\ \A r \in seen : r \in Network /\ r.rssi \in Int
  <2>1. \A r \in Network : r.rssi \in Int BY DEF Network
  <2>2. \A i \in DOMAIN networks : networks[i] \in Network BY <1>t, ElementOfSeq
  <2> QED BY <2>1, <2>2 DEF ScanTypeOK
<1>1. CASE UNCHANGED networks /\ \E i \in DOMAIN networks : networks[i].ssid = result.ssid /\ networks[i].rssi >= result.rssi
  BY <1>1, <1>t DEF ListedOnce, StrongestKept
<1>2. CASE UNCHANGED networks /\ Len(networks) = Capacity /\ \A i \in DOMAIN networks : networks[i].rssi >= result.rssi
  BY <1>2, <1>t DEF ListedOnce, StrongestKept
<1>3. CASE \E i \in DOMAIN networks :
             networks[i].ssid = result.ssid /\ networks[i].rssi < result.rssi /\ Replace(i, result)
  <2>1. PICK i \in DOMAIN networks :
          networks[i].ssid = result.ssid /\ networks[i].rssi < result.rssi /\ Replace(i, result)
    BY <1>3
  <2>2. /\ networks' \in Seq(Network) /\ Len(networks') = Len(networks)
        /\ DOMAIN networks' = DOMAIN networks /\ networks'[i] = result
        /\ \A j \in DOMAIN networks : j # i => networks'[j] = networks[j]
    BY <2>1, ReplaceType
  <2>3. ListedOnce' BY <2>1, <2>2 DEF ListedOnce
  <2>4. \A j \in DOMAIN networks' : networks'[j] \in seen' BY <2>2 DEF StrongestKept
  <2>5. \A j \in DOMAIN networks : networks'[j].ssid = networks[j].ssid /\ networks'[j].rssi >= networks[j].rssi
    BY <2>1, <2>2, <1>i
  <2>6. ASSUME NEW r \in seen'
        PROVE  \/ \E j \in DOMAIN networks' : networks'[j].ssid = r.ssid /\ networks'[j].rssi >= r.rssi
               \/ Len(networks') = Capacity /\ \A j \in DOMAIN networks' : networks'[j].rssi >= r.rssi
    <3>1. CASE r = result
      <4>1. networks'[i].ssid = r.ssid /\ networks'[i].rssi >= r.rssi BY <3>1, <2>2, <1>i
      <4> QED BY <4>1, <2>2
    <3>2. CASE r \in seen
      <4>1. \A j \in DOMAIN networks : networks'[j].rssi \in Int BY <2>2, <1>i
      <4>2. r.rssi \in Int /\ \A j \in DOMAIN networks : networks[j].rssi \in Int BY <3>2, <1>i
      <4>3. CASE \E j \in DOMAIN networks : networks[j].ssid = r.ssid /\ networks[j].rssi >= r.rssi
        <5>1. PICK j \in DOMAIN networks : networks[j].ssid = r.ssid /\ networks[j].rssi >= r.rssi
          BY <4>3
        <5>2. networks'[j].ssid = r.ssid /\ networks'[j].rssi >= r.rssi BY <5>1, <4>1, <4>2, <2>5
        <5> QED BY <5>2, <2>2
      <4>4. CASE Len(networks) = Capacity /\ \A j \in DOMAIN networks : networks[j].rssi >= r.rssi
        <5>1. \A j \in DOMAIN networks : networks'[j].rssi >= r.rssi BY <4>1, <4>2, <4>4, <2>5
        <5> QED BY <5>1, <4>4, <2>2
      <4> QED BY <3>2, <4>3, <4>4 DEF StrongestKept
    <3> QED BY <3>1, <3>2
  <2> QED BY <2>2, <2>3, <2>4, <2>6, <1>t DEF StrongestKept
<1>4. CASE ~IsKnown(result) /\ Len(networks) < Capacity /\ networks' = Append(networks, result)
  <2>0. Len(networks) # Capacity
    <3>1. \A n, c \in Nat : n < c => n # c OBVIOUS
    <3> QED BY <3>1, <1>4, <1>t
  <2>1. /\ networks' \in Seq(Network) /\ Len(networks') = Len(networks) + 1
        /\ DOMAIN networks' = DOMAIN networks \cup {Len(networks) + 1}
        /\ networks'[Len(networks) + 1] = result
        /\ \A j \in DOMAIN networks : networks'[j] = networks[j]
    BY <1>4, AppendType
  <2>2. ListedOnce' BY <1>4, <2>1 DEF ListedOnce, IsKnown
  <2>3. \A j \in DOMAIN networks' : networks'[j] \in seen' BY <2>1 DEF StrongestKept
  <2>4. ASSUME NEW r \in seen'
        PROVE  \E j \in DOMAIN networks' : networks'[j].ssid = r.ssid /\ networks'[j].rssi >= r.rssi
    <3>1. CASE r = result
      <4>1. result.rssi >= r.rssi BY <3>1, <1>i
      <4> QED BY <3>1, <4>1, <2>1
    <3>2. CASE r \in seen
      <4>1. PICK j \in DOMAIN networks : networks[j].ssid = r.ssid /\ networks[j].rssi >= r.rssi
        BY <3>2, <2>0 DEF StrongestKept
      <4> QED BY <4>1, <2>1
    <3> QED BY <3>1, <3>2
  <2>5. StrongestKept' BY <2>3, <2>4 DEF StrongestKept
  <2> QED BY <1>4, <2>1, <2>2, <2>5, <1>t
<1>5. CASE /\ ~IsKnown(result) /\ Len(networks) = Capacity
           /\ \E i \in DOMAIN networks :
                IsWeakest(i) /\ networks[i].rssi < result.rssi /\ Replace(i, result)
  <2>1. PICK i \in DOMAIN networks : IsWeakest(i) /\ networks[i].rssi < result.rssi /\ Replace(i, result)
    BY <1>5
  <2>2. /\ networks' \in Seq(Network) /\ Len(networks') = Len(networks)
        /\ DOMAIN networks' = DOMAIN networks /\ networks'[i] = result
        /\ \A j \in DOMAIN networks : j # i => networks'[j] = networks[j]
    BY <2>1, ReplaceType
  <2>3. ListedOnce' BY <1>5, <2>2 DEF ListedOnce, IsKnown
  <2>4. \A j \in DOMAIN networks' : networks'[j] \in seen' BY <2>2 DEF StrongestKept
  <2>5. \A j \in DOMAIN networks : networks'[j].rssi \in Int /\ networks'[j].rssi >= networks[i].rssi
    BY <2>1, <2>2, <1>i DEF IsWeakest
  <2>6. ASSUME NEW r \in seen'
        PROVE  \/ \E j \in DOMAIN networks' : networks'[j].ssid = r.ssid /\ networks'[j].rssi >= r.rssi
               \/ Len(networks') = Capacity /\ \A j \in DOMAIN networks' : networks'[j].rssi >= r.rssi
    <3>1. CASE r = result
      <4>1. networks'[i].ssid = r.ssid /\ networks'[i].rssi >= r.rssi BY <3>1, <2>2, <1>i
      <4> QED BY <4>1, <2>2
    <3>2. CASE r \in seen /\ networks[i].rssi >= r.rssi BY <3>2, <1>5, <2>2, <2>5, <1>i
    <3>3. CASE r \in seen /\ ~(networks[i].rssi >= r.rssi)
      <4>1. PICK j \in DOMAIN networks : networks[j].ssid = r.ssid /\ networks[j].rssi >= r.rssi
        BY <3>3 DEF StrongestKept
      <4>2. j # i BY <4>1, <3>3
      <4> QED BY <4>1, <4>2, <2>2
    <3> QED BY <3>1, <3>2, <3>3
  <2> QED BY <1>5, <2>2, <2>3, <2>4, <2>6, <1>t DEF StrongestKept
<1> QED
  <2>1. CASE IsKnown(result) /\ Improve(result) BY <2>1, <1>1, <1>3, <1>i DEF Improve
  <2>2. CASE ~IsKnown(result) /\ Len(networks) = Capacity /\ Displace(result)
    BY <2>2, <1>2, <1>5, <1>i DEF Displace, IsWeakest
  <2> QED BY <1>4, <2>1, <2>2 DEF Add

\* Sorting permutes the list and puts the strongest first.
LEMMA SortKeeps ==
  ASSUME ScanTypeOK, ListedOnce, StrongestKept, Sort, seen' = seen
  PROVE  /\ networks' \in Seq(Network) /\ Len(networks') = Len(networks)
         /\ ListedOnce' /\ StrongestKept' /\ StrongestFirst'
<1>t. networks \in Seq(Network) /\ Len(networks) \in Nat /\ DOMAIN networks = 1..Len(networks)
  BY LenProperties DEF ScanTypeOK
<1>i. \A i \in DOMAIN networks : networks[i] \in Network /\ networks[i].rssi \in Int
  <2>1. \A r \in Network : r.rssi \in Int BY DEF Network
  <2>2. \A i \in DOMAIN networks : networks[i] \in Network BY <1>t, ElementOfSeq
  <2> QED BY <2>1, <2>2
<1>1. PICK p \in [DOMAIN networks -> DOMAIN networks] :
        /\ Range(p) = DOMAIN networks
        /\ \A i, j \in DOMAIN networks : i < j => Precedes(p[i], p[j])
        /\ networks' = [i \in DOMAIN networks |-> networks[p[i]]]
  BY DEF Sort
<1>2. /\ DOMAIN networks' = DOMAIN networks
      /\ \A i \in DOMAIN networks : p[i] \in DOMAIN networks /\ networks'[i] = networks[p[i]]
  BY <1>1
<1>3. networks' \in Seq(Network) /\ Len(networks') = Len(networks)
  <2>1. networks' \in [1..Len(networks) -> Network] BY <1>1, <1>t, <1>i
  <2> QED BY <2>1, <1>t, SeqDef, LenProperties
<1>4. \A i \in DOMAIN networks : \E k \in DOMAIN networks : p[k] = i BY <1>1 DEF Range
<1>5. ListedOnce'
  <2> SUFFICES ASSUME NEW i \in DOMAIN networks, NEW j \in DOMAIN networks,
                      networks'[i].ssid = networks'[j].ssid
               PROVE  i = j
    BY <1>2 DEF ListedOnce
  <2>1. p[i] = p[j] BY <1>2 DEF ListedOnce
  <2>2. i \in Int /\ j \in Int /\ p[i] \in Int BY <1>t, <1>2
  <2>3. ~Precedes(p[i], p[i]) BY <1>2, <1>i, <2>2 DEF Precedes
  <2> QED BY <1>1, <2>1, <2>2, <2>3
<1>6. StrongestKept'
  <2>1. \A i \in DOMAIN networks' : networks'[i] \in seen' BY <1>2 DEF StrongestKept
  <2>2. ASSUME NEW r \in seen'
        PROVE  \/ \E j \in DOMAIN networks' : networks'[j].ssid = r.ssid /\ networks'[j].rssi >= r.rssi
               \/ Len(networks') = Capacity /\ \A j \in DOMAIN networks' : networks'[j].rssi >= r.rssi
    <3>1. CASE \E i \in DOMAIN networks : networks[i].ssid = r.ssid /\ networks[i].rssi >= r.rssi
      BY <3>1, <1>2, <1>4
    <3>2. CASE Len(networks) = Capacity /\ \A i \in DOMAIN networks : networks[i].rssi >= r.rssi
      BY <3>2, <1>2, <1>3
    <3> QED BY <3>1, <3>2 DEF StrongestKept
  <2> QED BY <2>1, <2>2 DEF StrongestKept
<1>7. StrongestFirst' BY <1>1, <1>2, <1>i DEF StrongestFirst, Precedes
<1> QED BY <1>3, <1>5, <1>6, <1>7

-----------------------------------------------------------------------------
(* The invariant.                                                          *)

LEMMA EmptyList ==
  ASSUME networks' = <<>>, seen' = {}
  PROVE  /\ networks' \in Seq(Network) /\ Len(networks') = 0
         /\ ListedOnce' /\ StrongestKept' /\ StrongestFirst'
BY DEF ListedOnce, StrongestKept, StrongestFirst

LEMMA ScanInitInv == ScanInit => ScanInv
<1> SUFFICES ASSUME ScanInit PROVE ScanInv OBVIOUS
<1>1. networks = <<>> /\ seen = {} BY DEF ScanInit
<1>2. networks \in Seq(Network) /\ Len(networks) = 0 BY <1>1, EmptySeq
<1>4. ScanTypeOK
  <2>1. active \in BOOLEAN /\ scanning \in BOOLEAN BY DEF ScanInit
  <2>2. Len(networks) <= Capacity BY <1>2
  <2>3. /\ state \in {"IDLE", "SCANNING", "READY", "ERROR"} /\ seen \subseteq Network
        /\ caller \in {"idle", "reset", "request"} /\ event \in {"idle", "finish"}
    BY DEF ScanInit
  <2> QED BY <1>2, <2>1, <2>2, <2>3 DEF ScanTypeOK
<1>3. ListedOnce /\ StrongestKept /\ StrongestFirst
  BY <1>1 DEF ListedOnce, StrongestKept, StrongestFirst
<1> QED BY <1>1, <1>3, <1>4 DEF ScanInit, ScanInv, Claims

LEMMA ScanNextInv == ScanInv /\ [ScanNext]_scanVars => ScanInv'
<1> SUFFICES ASSUME ScanInv, [ScanNext]_scanVars PROVE ScanInv' OBVIOUS
<1>u. ASSUME UNCHANGED <<networks, seen>>
      PROVE  /\ networks' \in Seq(Network) /\ Len(networks') <= Capacity /\ seen' \subseteq Network
             /\ ListedOnce' /\ StrongestKept' /\ (StrongestFirst => StrongestFirst')
  BY <1>u DEF ScanInv, ScanTypeOK, ListedOnce, StrongestKept, StrongestFirst
<1>1. CASE Claim BY <1>1, <1>u DEF Claim, ScanInv, ScanTypeOK, Claims
<1>2. CASE Reset
  <2>1. networks' = <<>> /\ seen' = {} BY <1>2 DEF Reset
  <2>2. ScanTypeOK' BY <1>2, <2>1, EmptyList DEF Reset, ScanInv, ScanTypeOK
  <2>3. Claims' BY <1>2, <2>1 DEF Reset, ScanInv, Claims
  <2> QED BY <2>1, <2>2, <2>3, EmptyList DEF ScanInv
<1>3. CASE Request
  <2>1. networks = <<>> /\ networks' = <<>> BY <1>3 DEF Request, ScanInv, Claims
  <2>2. StrongestFirst' BY <2>1 DEF StrongestFirst
  <2>3. /\ networks' \in Seq(Network) /\ Len(networks') <= Capacity /\ seen' \subseteq Network
        /\ ListedOnce' /\ StrongestKept'
    BY <1>3, <1>u DEF Request
  <2>4. caller' = "idle" BY <1>3 DEF Request
  <2>5. active' \in BOOLEAN /\ scanning' \in BOOLEAN /\ (scanning' => active')
    <3>1. CASE Refused BY <3>1, <1>3 DEF Refused, Request, ScanInv, ScanTypeOK, Claims
    <3>2. CASE scanning' = TRUE /\ UNCHANGED <<active, state>>
      BY <3>2, <1>3 DEF Request, ScanInv, ScanTypeOK, Claims
    <3> QED BY <3>1, <3>2, <1>3 DEF Request
  <2>6. state' \in {"IDLE", "SCANNING", "READY", "ERROR"}
    BY <1>3 DEF Request, Refused, ScanInv, ScanTypeOK
  <2> QED BY <1>3, <2>1, <2>2, <2>3, <2>4, <2>5, <2>6 DEF Request, ScanInv, ScanTypeOK, Claims
<1>4. CASE Result
  <2>1. PICK result \in Network : Add(result) /\ seen' = seen \cup {result}
    BY <1>4 DEF Result
  <2>2. /\ networks' \in Seq(Network) /\ Len(networks') <= Capacity
        /\ ListedOnce' /\ StrongestKept'
    BY <2>1, AddKeeps DEF ScanInv
  <2>3. ScanTypeOK' BY <1>4, <2>1, <2>2 DEF Result, ScanInv, ScanTypeOK
  <2>4. Claims' BY <1>4 DEF Result, ScanInv, Claims
  <2> QED BY <1>4, <2>2, <2>3, <2>4 DEF Result, ScanInv
<1>5. CASE Done BY <1>5, <1>u DEF Done, ScanInv, ScanTypeOK, Claims
<1>6. CASE Finish
  <2>1. /\ networks' \in Seq(Network) /\ Len(networks') = Len(networks)
        /\ ListedOnce' /\ StrongestKept' /\ StrongestFirst'
    BY <1>6, SortKeeps DEF Finish, ScanInv
  <2>2. ScanTypeOK' BY <1>6, <2>1 DEF Finish, ScanInv, ScanTypeOK
  <2>3. Claims'
    <3>1. networks = <<>> => networks' = <<>> BY <2>1, EmptySeq, LenProperties
    <3> QED BY <1>6, <3>1 DEF Finish, ScanInv, Claims
  <2> QED BY <2>1, <2>2, <2>3 DEF ScanInv
<1>7. CASE UNCHANGED scanVars BY <1>7, <1>u DEF scanVars, ScanInv, ScanTypeOK, Claims
<1> QED BY <1>1, <1>2, <1>3, <1>4, <1>5, <1>6, <1>7 DEF ScanNext

LEMMA ScanInvariance == ScanSpec => []ScanInv
BY ScanInitInv, ScanNextInv, PTL DEF ScanSpec

\* The scanner's variables keep their types, its list its capacity.
THEOREM ScanTypeCorrect == ScanSpec => []ScanTypeOK
<1>1. ScanInv => ScanTypeOK BY DEF ScanInv
<1> QED BY <1>1, ScanInvariance, PTL

\* Between two scans the list is that of the last one: each network once, the strongest of all
\* that were seen, the strongest first (src/net/wifi.c:588-662, 675-685).
THEOREM ListIsRight == ScanSpec => []ListIsStrongest
<1>1. ScanInv => ListIsStrongest BY DEF ScanInv, ListIsStrongest
<1> QED BY <1>1, ScanInvariance, PTL
=============================================================================
