------------------------------- MODULE WifiScan -------------------------------
(***************************************************************************)
(* Scans for networks (src/net/wifi.c).  Who asks for one claims it, clears *)
(* the list and requests it from the driver; the event thread adds results *)
(* to a list of bounded length, releases the claim and then sorts.  Another *)
(* scan may be claimed before the sorting: it then meets a list that has   *)
(* just been cleared, or is cleared after it.                              *)
(*                                                                         *)
(* The check of the station's state before a scan, generation numbers, the *)
(* security of a network and the published copies are left out.            *)
(***************************************************************************)
EXTENDS Integers, Sequences, Functions

CONSTANTS Ssid, Rssi,    \* names and signal strengths of networks
          Capacity       \* APP_WIFI_SCAN_MAX_NETWORKS

ASSUME WifiScanAssumption == Rssi \subseteq Int /\ Capacity \in Nat \ {0}

VARIABLES
  active,                \* scan_active
  networks, state,       \* scan: its list and its state
  caller,                \* start_scan(): "idle", "reset" or "request"
  event,                 \* event thread: "idle" or "finish"
  scanning,              \* the driver is scanning
  seen                   \* results of the scan the list is about (history)

scanVars == <<active, networks, state, caller, event, scanning, seen>>

Network == [ssid : Ssid, rssi : Rssi]

ScanInit ==
  /\ active = FALSE /\ networks = <<>> /\ state = "IDLE"
  /\ caller = "idle" /\ event = "idle" /\ scanning = FALSE /\ seen = {}

-----------------------------------------------------------------------------
(* start_scan()                                                            *)

Claim ==
  /\ caller = "idle" /\ ~active /\ active' = TRUE /\ caller' = "reset"
  /\ UNCHANGED <<networks, state, event, scanning, seen>>

Reset ==
  /\ caller = "reset" /\ caller' = "request"
  /\ networks' = <<>> /\ seen' = {} /\ state' = "SCANNING"
  /\ UNCHANGED <<active, event, scanning>>

\* Faulty variant: a refused scan keeps the claim.
RefusedClaimed == state' = "ERROR" /\ UNCHANGED <<active, scanning>>

Refused == state' = "ERROR" /\ active' = FALSE /\ UNCHANGED scanning

Request ==
  /\ caller = "request" /\ caller' = "idle"
  /\ (scanning' = TRUE /\ UNCHANGED <<active, state>>) \/ Refused
  /\ UNCHANGED <<networks, event, seen>>

-----------------------------------------------------------------------------
(* wifi_event_handler()                                                    *)

Replace(i, result) == networks' = [networks EXCEPT ![i] = result]

IsKnown(result) == \E i \in DOMAIN networks : networks[i].ssid = result.ssid

\* A stronger result of a known network.
Improve(result) ==
  \E i \in DOMAIN networks :
    /\ networks[i].ssid = result.ssid
    /\ IF networks[i].rssi < result.rssi THEN Replace(i, result) ELSE UNCHANGED networks

\* The first of the weakest networks.
IsWeakest(i) ==
  \A j \in DOMAIN networks :
    networks[i].rssi < networks[j].rssi \/ (networks[i].rssi = networks[j].rssi /\ i <= j)

\* Faulty variant: the last network gives way.
DisplaceLast(result) ==
  LET i == Len(networks) IN
    IF networks[i].rssi < result.rssi THEN Replace(i, result) ELSE UNCHANGED networks

\* A full list: the weakest network gives way to a stronger one.
Displace(result) ==
  \E i \in DOMAIN networks :
    /\ IsWeakest(i)
    /\ IF networks[i].rssi < result.rssi THEN Replace(i, result) ELSE UNCHANGED networks

\* scan_result_add()
Add(result) ==
  \/ IsKnown(result) /\ Improve(result)
  \/ ~IsKnown(result) /\ Len(networks) < Capacity /\ networks' = Append(networks, result)
  \/ ~IsKnown(result) /\ Len(networks) = Capacity /\ Displace(result)

Result ==
  /\ scanning /\ event = "idle" /\ active
  /\ \E result \in Network : Add(result) /\ seen' = seen \cup {result}
  /\ UNCHANGED <<active, state, caller, event, scanning>>

Done ==
  /\ scanning /\ event = "idle" /\ scanning' = FALSE
  /\ active /\ active' = FALSE /\ event' = "finish"
  /\ UNCHANGED <<networks, state, caller, seen>>

\* scan_sort(), an insertion sort: the strongest first, equals in the order they were in.
Precedes(i, j) ==
  networks[i].rssi > networks[j].rssi \/ (networks[i].rssi = networks[j].rssi /\ i < j)

Sort ==
  \E p \in [DOMAIN networks -> DOMAIN networks] :
    /\ Range(p) = DOMAIN networks
    /\ \A i, j \in DOMAIN networks : i < j => Precedes(p[i], p[j])
    /\ networks' = [i \in DOMAIN networks |-> networks[p[i]]]

Finish ==
  /\ event = "finish" /\ event' = "idle"
  /\ Sort /\ state' \in {"READY", "ERROR"}
  /\ UNCHANGED <<active, caller, scanning, seen>>

ScanNext == Claim \/ Reset \/ Request \/ Result \/ Done \/ Finish

\* Threads run, and the driver ends a scan it has accepted.
ScanFairness == WF_scanVars(Reset \/ Request) /\ WF_scanVars(Done) /\ WF_scanVars(Finish)

ScanSpec == ScanInit /\ [][ScanNext]_scanVars /\ ScanFairness

-----------------------------------------------------------------------------
\* The type invariant of the scanner.
ScanTypeOK ==
  /\ active \in BOOLEAN /\ scanning \in BOOLEAN
  /\ networks \in Seq(Network) /\ Len(networks) <= Capacity /\ seen \subseteq Network
  /\ state \in {"IDLE", "SCANNING", "READY", "ERROR"}
  /\ caller \in {"idle", "reset", "request"} /\ event \in {"idle", "finish"}

\* Networks are listed once, as the strongest result says.
ListedOnce ==
  \A i, j \in DOMAIN networks : networks[i].ssid = networks[j].ssid => i = j

\* The list holds a result of this scan for each of the strongest networks that were seen.
StrongestKept ==
  /\ \A i \in DOMAIN networks : networks[i] \in seen
  /\ \A result \in seen :
       \/ \E i \in DOMAIN networks :
            networks[i].ssid = result.ssid /\ networks[i].rssi >= result.rssi
       \/ /\ Len(networks) = Capacity
          /\ \A i \in DOMAIN networks : networks[i].rssi >= result.rssi

StrongestFirst == \A i, j \in DOMAIN networks : i < j => networks[i].rssi >= networks[j].rssi

\* When no scan is running the list is that of the last scan alone: every network once, the
\* strongest that were seen, sorted, in whatever order results come, with more networks than fit,
\* and when a scan is claimed before the one before it is sorted
\* (src/net/wifi.c:588-662, 675-685).
ListIsStrongest == ~active /\ event = "idle" => ListedOnce /\ StrongestKept /\ StrongestFirst

\* A scan that was claimed ends, refused ones too, so that another can start
\* (src/net/wifi.c:592-608, 676).
ScanEnds == active ~> ~active
=============================================================================
