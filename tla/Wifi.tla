--------------------------------- MODULE Wifi ---------------------------------
(***************************************************************************)
(* The station and the access point (src/net/wifi.c) in one run of the     *)
(* device: wifi_start() connects once to the saved network, within 45      *)
(* seconds, and a device without a display falls back to its access point. *)
(* The main thread, the event thread of network management and the system  *)
(* work queue write the two states.  Only what each does with a test and   *)
(* an assignment is cut in two; preferences, credentials, addresses and    *)
(* the published copies are left out.                                      *)
(***************************************************************************)
EXTENDS Naturals, Sequences

VARIABLES
  display, saved,        \* CONFIG_OSKEY_DISPLAY, and credentials are stored
  sta, ap,               \* sta_state, ap_state
  apNet,                 \* ap_addr_configured and dhcp_server_started
  timer, headless,       \* connection_timeout and headless_ap_work are scheduled
  pc,                    \* what the main thread and the work queue are about to do
  events, handling,      \* events not handled yet; what the event thread is about to do
  link, radioAp,         \* driver: "idle", "connecting" or "up"; "off", "asked" or "on"
  refused, uncancelled   \* the access point, or Wi-Fi, failed; a time-out could not disconnect (history)

station == <<sta, link, timer, uncancelled>>
accessPoint == <<ap, apNet, radioAp, refused>>
build == <<display, saved>>
vars == <<station, accessPoint, build, headless, pc, events, handling>>

\* wifi_start(): preferences count on a device with a display only.
WantsAp == IF display THEN BOOLEAN ELSE {~saved}
WantsSta == IF display THEN BOOLEAN ELSE {saved}

Init ==
  /\ display \in BOOLEAN /\ saved \in BOOLEAN
  /\ sta = "OFF" /\ link = "idle" /\ timer = FALSE /\ uncancelled = FALSE
  /\ ap = "OFF" /\ apNet = FALSE /\ radioAp = "off" /\ refused = FALSE
  /\ headless = FALSE /\ pc = [main |-> "start", work |-> "idle"]
  /\ events = <<>> /\ handling = "none"

Go(t, next) == pc' = [pc EXCEPT ![t] = next]
Posted(event) == events' = Append(events, event)

\* headless_fallback()
HeadlessFallback == headless' = (headless \/ ~display)

-----------------------------------------------------------------------------
(* enable_ap_mode(), run by the main thread or by the work queue.          *)

ApDone(t) == Go(t, IF t = "main" THEN "sta" ELSE "idle")

\* The check, and start_ap_network(), which undoes what it did if it fails.
EnableAp(t) ==
  /\ pc[t] = "ap"
  /\ \/ ap # "OFF" /\ ApDone(t) /\ UNCHANGED accessPoint
     \/ ap = "OFF" /\ apNet' = TRUE /\ Go(t, "starting") /\ UNCHANGED <<ap, radioAp, refused>>
     \/ ap = "OFF" /\ refused' = TRUE /\ ApDone(t) /\ UNCHANGED <<ap, apNet, radioAp>>
  /\ UNCHANGED <<station, build, headless, events, handling>>

ApStarting(t) ==
  /\ pc[t] = "starting" /\ ap' = "STARTING" /\ Go(t, "request")
  /\ UNCHANGED <<station, apNet, radioAp, refused, build, headless, events, handling>>

ApRequest(t) ==
  /\ pc[t] = "request"
  /\ \/ radioAp' = "asked" /\ ApDone(t) /\ UNCHANGED <<ap, refused>>
     \/ ap' = "OFF" /\ refused' = TRUE /\ Go(t, "stop") /\ UNCHANGED radioAp
  /\ UNCHANGED <<station, apNet, build, headless, events, handling>>

\* stop_ap_network() after a refused request.
ApStop(t) ==
  /\ pc[t] = "stop" /\ apNet' = FALSE /\ ApDone(t)
  /\ UNCHANGED <<station, ap, radioAp, refused, build, headless, events, handling>>

EnableApMode(t) == EnableAp(t) \/ ApStarting(t) \/ ApRequest(t) \/ ApStop(t)

-----------------------------------------------------------------------------
(* The main thread: wifi_start().                                          *)

Start ==
  /\ pc.main = "start"
  /\ \/ \E wanted \in WantsAp : Go("main", IF wanted THEN "ap" ELSE "sta") /\ UNCHANGED refused
     \/ refused' = TRUE /\ Go("main", "done")
  /\ UNCHANGED <<station, ap, apNet, radioAp, build, headless, events, handling>>

StartSta ==
  /\ pc.main = "sta"
  /\ \E wanted \in WantsSta :
       IF wanted THEN sta' = "DISCONNECTED" /\ Go("main", IF saved THEN "connect" ELSE "done")
                 ELSE Go("main", "done") /\ UNCHANGED sta
  /\ UNCHANGED <<link, timer, uncancelled, accessPoint, build, headless, events, handling>>

\* connect_to_stored_wifi() up to the request.
Connecting ==
  /\ pc.main = "connect" /\ sta' = "CONNECTING" /\ Go("main", "connectRequest")
  /\ UNCHANGED <<link, timer, uncancelled, accessPoint, build, headless, events, handling>>

ConnectRequest ==
  /\ pc.main = "connectRequest"
  /\ \/ link' = "connecting" /\ Go("main", "arm") /\ UNCHANGED <<sta, headless>>
     \/ sta' = "DISCONNECTED" /\ HeadlessFallback /\ Go("main", "done") /\ UNCHANGED link
  /\ UNCHANGED <<timer, uncancelled, accessPoint, build, events, handling>>

\* k_work_reschedule(), when the result may have come already.
ArmTimer ==
  /\ pc.main = "arm" /\ timer' = TRUE /\ Go("main", "done")
  /\ UNCHANGED <<sta, link, uncancelled, accessPoint, build, headless, events, handling>>

MainThread == Start \/ StartSta \/ Connecting \/ ConnectRequest \/ ArmTimer \/ EnableApMode("main")

-----------------------------------------------------------------------------
(* The system work queue.                                                  *)

\* connection_timeout_handler(), its check.
TimeOut ==
  /\ pc.work = "idle" /\ timer /\ timer' = FALSE
  /\ Go("work", IF sta = "CONNECTING" THEN "giveUp" ELSE "idle")
  /\ UNCHANGED <<sta, link, uncancelled, accessPoint, build, headless, events, handling>>

\* connection_failed(): whoever finds the attempt running ends it.
ConnectionFailed ==
  IF sta = "CONNECTING" THEN sta' = "DISCONNECTED" /\ HeadlessFallback
                        ELSE UNCHANGED <<sta, headless>>

GiveUp ==
  /\ pc.work = "giveUp" /\ ConnectionFailed /\ Go("work", "disconnect")
  /\ UNCHANGED <<link, timer, uncancelled, accessPoint, build, events, handling>>

\* Faulty variant: an attempt that has timed out is left to itself.
CancelNothing ==
  /\ pc.work = "disconnect" /\ Go("work", "idle")
  /\ UNCHANGED <<station, accessPoint, build, headless, events, handling>>

\* NET_REQUEST_WIFI_DISCONNECT, which is sent whoever ended the attempt.
CancelAttempt ==
  /\ pc.work = "disconnect" /\ Go("work", "idle")
  /\ \/ link = "idle" /\ UNCHANGED <<link, events, uncancelled>>
     \/ link # "idle" /\ link' = "idle" /\ Posted("DISCONNECT") /\ UNCHANGED uncancelled
     \/ link # "idle" /\ uncancelled' = TRUE /\ UNCHANGED <<link, events>>
  /\ UNCHANGED <<sta, timer, accessPoint, build, headless, handling>>

\* headless_ap_handler()
HeadlessAp ==
  /\ pc.work = "idle" /\ headless /\ headless' = FALSE /\ Go("work", "ap")
  /\ UNCHANGED <<station, accessPoint, build, events, handling>>

WorkQueue == TimeOut \/ GiveUp \/ CancelAttempt \/ HeadlessAp \/ EnableApMode("work")

-----------------------------------------------------------------------------
(* The event thread: wifi_event_handler(), its checks and then its effects. *)

Checked(next) == handling' = next /\ UNCHANGED <<sta, link, uncancelled, ap, radioAp, refused>>
Ignored == Checked("none") /\ UNCHANGED <<timer, apNet>>

LostLink ==
  IF sta \in {"CONNECTING", "CONNECTED"}
  THEN Checked("lost") /\ timer' = FALSE /\ UNCHANGED apNet ELSE Ignored

ConnectResult(verdict) ==
  IF sta = "CONNECTING" THEN Checked(verdict) /\ timer' = FALSE /\ UNCHANGED apNet ELSE Ignored

ApResult(verdict) ==
  IF ap = "STARTING"
  THEN Checked(verdict) /\ apNet' = (apNet /\ verdict = "apOn") /\ UNCHANGED timer
  ELSE Ignored

Check ==
  /\ handling = "none" /\ events # <<>> /\ events' = Tail(events)
  /\ LET event == Head(events) IN
       \/ event = "DISCONNECT" /\ LostLink
       \/ event \in {"connected", "failed"} /\ ConnectResult(event)
       \/ event \in {"apOn", "apOff"} /\ ApResult(event)
  /\ UNCHANGED <<build, headless, pc>>

\* Faulty variant: a lost link is not followed by the access point.
LostSilently == handling = "lost" /\ sta' = "DISCONNECTED" /\ UNCHANGED <<headless, ap, refused>>

Lost == handling = "lost" /\ sta' = "DISCONNECTED" /\ HeadlessFallback /\ UNCHANGED <<ap, refused>>

\* Faulty variant: a failed attempt is logged, after its timer was cancelled.
FailedSilently == handling = "failed" /\ UNCHANGED <<sta, headless, ap, refused>>

Failed == handling = "failed" /\ ConnectionFailed /\ UNCHANGED <<ap, refused>>

Act ==
  /\ handling' = "none"
  /\ \/ Lost \/ Failed
     \/ handling = "connected" /\ sta' = "CONNECTED" /\ UNCHANGED <<headless, ap, refused>>
     \/ handling = "apOn" /\ ap' = "ACTIVE" /\ UNCHANGED <<sta, headless, refused>>
     \/ handling = "apOff" /\ ap' = "OFF" /\ refused' = TRUE /\ UNCHANGED <<sta, headless>>
  /\ UNCHANGED <<link, timer, uncancelled, apNet, radioAp, build, pc, events>>

EventThread == Check \/ Act

-----------------------------------------------------------------------------
(* The driver and the air: an attempt may take for ever.                   *)

AttemptEnds ==
  /\ link = "connecting"
  /\ \/ link' = "up" /\ Posted("connected")
     \/ link' = "idle" /\ (Posted("failed") \/ Posted("DISCONNECT"))
  /\ UNCHANGED <<sta, timer, uncancelled, accessPoint, build, headless, pc, handling>>

LinkDrops ==
  /\ link = "up" /\ link' = "idle" /\ Posted("DISCONNECT")
  /\ UNCHANGED <<sta, timer, uncancelled, accessPoint, build, headless, pc, handling>>

ApAnswered ==
  /\ radioAp = "asked"
  /\ \/ radioAp' = "on" /\ Posted("apOn")
     \/ radioAp' = "off" /\ Posted("apOff")
  /\ UNCHANGED <<station, ap, apNet, refused, build, headless, pc, handling>>

Driver == AttemptEnds \/ LinkDrops \/ ApAnswered

Next == MainThread \/ WorkQueue \/ EventThread \/ Driver

\* The firmware's threads run, and timers expire; the driver owes nothing.
Spec == Init /\ [][Next]_vars /\ WF_vars(MainThread) /\ WF_vars(WorkQueue) /\ WF_vars(EventThread)

-----------------------------------------------------------------------------
\* The type invariant of the two states, the timer and the driver.
TypeOK ==
  /\ {display, saved, apNet, timer, headless, refused, uncancelled} \subseteq BOOLEAN
  /\ sta \in {"OFF", "DISCONNECTED", "CONNECTING", "CONNECTED"}
  /\ ap \in {"OFF", "STARTING", "ACTIVE"}
  /\ pc.main \in {"start", "ap", "starting", "request", "stop", "sta", "connect", "connectRequest", "arm", "done"}
  /\ pc.work \in {"idle", "giveUp", "disconnect", "ap", "starting", "request", "stop"}
  /\ events \in Seq({"connected", "failed", "DISCONNECT", "apOn", "apOff"})
  /\ handling \in {"none", "connected", "failed", "lost", "apOn", "apOff"}
  /\ link \in {"idle", "connecting", "up"} /\ radioAp \in {"off", "asked", "on"}

Quiet ==
  pc.main = "done" /\ pc.work = "idle" /\ ~headless /\ handling = "none" /\ events = <<>>

\* When everything is handled the two states say what the radio does, although timer, results and
\* disconnections overtake one another and not every write of the state is a compare-and-swap
\* (src/net/wifi.c:565-586, 688-725).
StateTellsRadio ==
  /\ TypeOK
  /\ Quiet =>
       /\ ~uncancelled => (sta = "CONNECTED" <=> link = "up") /\ (sta = "CONNECTING" <=> link = "connecting")
       /\ (ap = "ACTIVE" <=> radioAp = "on") /\ (ap = "OFF" <=> ~apNet)

\* An attempt ends, whatever the driver does: its timer is not cancelled without a verdict
\* (src/net/wifi.c:551, 574-586, 692-700).
AttemptHasEnd == sta = "CONNECTING" ~> sta # "CONNECTING"

\* A device without a display is not left unreachable: whenever it is not connected it turns to
\* its access point, unless that was refused (src/net/wifi.c:511-526, 549, 571, 708, 779-791).
HeadlessReachable == TRUE ~> display \/ sta = "CONNECTED" \/ ap # "OFF" \/ refused
=============================================================================
