------------------------------- MODULE Bluetooth -------------------------------
(***************************************************************************)
(* The Bluetooth transport (src/bluetooth/bluetooth.c).  One connection    *)
(* object serves one link after another; what tells the links apart is     *)
(* the session number.  The host's receive thread runs the callbacks and   *)
(* waits for room in the command queue, the system work queue ends links   *)
(* and advertises, and the core thread sends answers in several parts,     *)
(* holding a reference so that the object is not reused under it.          *)
(*                                                                         *)
(* The host stack is external: the object's life is what the callbacks     *)
(* and bt_conn_ref() rely on.  Published states and pairing are left out.  *)
(***************************************************************************)
EXTENDS Protocol

CONSTANTS MaxLinks,      \* bound on the links that are made
          MaxRequests,   \* bound on the requests received
          MaxParts       \* parts of an answer

ASSUME BluetoothAssumption == MaxLinks \in Nat /\ MaxRequests \in Nat /\ MaxParts \in Nat \ {0}

VARIABLES
  advertising,   \* the device can be connected to
  conn,          \* the object: "free", "up", "down" (the link is lost), "dead" (its end was told)
  link,          \* number of the link the object serves or served last
  secure,        \* the link has BT_SECURITY_L4
  active,        \* active_conn is set, with a reference
  session,       \* active_session_id
  sequence,      \* session_sequence
  rx, rxSession, \* receive thread: "idle", "connected" or "submit"; session it submits for
  received,      \* requests received
  sys,           \* system work queue: "idle", "advertise" or "disconnected"
  held,          \* the core thread holds a reference
  sending, parts \* session it answers, and the parts left

linkVars == <<advertising, conn, link, secure>>
activeVars == <<active, session, sequence>>
rxVars == <<rx, rxSession, received>>
sendVars == <<held, sending, parts>>
bluetoothVars == <<linkVars, activeVars, rxVars, sys, sendVars>>

BluetoothStart ==
  /\ advertising = FALSE /\ conn = "free" /\ link = 0 /\ secure = FALSE
  /\ active = FALSE /\ session = 0 /\ sequence = 0
  /\ rx = "idle" /\ rxSession = 0 /\ received = 0 /\ sys = "advertise"
  /\ held = FALSE /\ sending = 0 /\ parts = 0

-----------------------------------------------------------------------------
(* Links.                                                                  *)

\* start_advertising(), at the start and whenever the object is free again; nobody tries twice.
StartAdvertising ==
  /\ sys = "advertise" /\ sys' = "idle" /\ advertising' \in BOOLEAN
  /\ UNCHANGED <<protocolVars, conn, link, secure, activeVars, rxVars, sendVars>>

Connect ==
  /\ advertising /\ conn = "free" /\ rx = "idle" /\ link < MaxLinks
  /\ advertising' = FALSE /\ conn' = "up" /\ link' = link + 1 /\ secure' = FALSE
  /\ rx' = "connected"
  /\ UNCHANGED <<protocolVars, activeVars, rxSession, received, sys, sendVars>>

\* connected() with an error: the object goes back, and is recycled.
ConnectFailed ==
  /\ advertising /\ conn = "free" /\ rx = "idle"
  /\ advertising' = FALSE /\ sys = "idle" /\ sys' = "advertise"
  /\ UNCHANGED <<protocolVars, conn, link, secure, activeVars, rxVars, sendVars>>

\* connected(): set_active_conn(), then bt_conn_set_security(), which disconnects if it fails.
Connected ==
  /\ rx = "connected" /\ rx' = "idle"
  /\ active' = TRUE /\ sequence' = sequence + 1 /\ session' = sequence + 1
  /\ conn' \in {conn, "down"}
  /\ UNCHANGED <<protocolVars, advertising, link, secure, rxSession, received, sys, sendVars>>

\* security_changed(): the level is reached, or the link is given up.
SecurityChanged ==
  /\ conn = "up" /\ rx = "idle" /\ ~secure
  /\ \/ secure' = TRUE /\ UNCHANGED conn
     \/ conn' = "down" /\ UNCHANGED secure
  /\ UNCHANGED <<protocolVars, advertising, link, activeVars, rxVars, sys, sendVars>>

LinkLost ==
  /\ conn = "up" /\ conn' = "down"
  /\ UNCHANGED <<protocolVars, advertising, link, secure, activeVars, rxVars, sys, sendVars>>

\* The receive thread meets the end of the link, and has it handled.
LinkEnds ==
  /\ conn = "down" /\ rx = "idle" /\ sys = "idle" /\ sys' = "disconnected"
  /\ UNCHANGED <<protocolVars, linkVars, activeVars, rxVars, sendVars>>

\* clear_active_conn(), which gives the reference back.
ClearActive == active' = FALSE /\ session' = 0

\* disconnected(); the host's own reference goes when it returns.
Disconnected ==
  /\ sys = "disconnected" /\ sys' = "idle"
  /\ ClearActive /\ conn' = "dead"
  /\ UNCHANGED <<protocolVars, advertising, link, secure, sequence, rxVars, sendVars>>

\* The last reference is given back: the host recycles the object and says so.
Recycled ==
  /\ conn = "dead" /\ ~active /\ ~held /\ sys = "idle"
  /\ conn' = "free" /\ sys' = "advertise"
  /\ UNCHANGED <<protocolVars, advertising, link, secure, activeVars, rxVars, sendVars>>

-----------------------------------------------------------------------------
(* Requests and answers.                                                   *)

\* nus_received(): the session is read before the wait for room in the queue.
Receive ==
  /\ rx = "idle" /\ conn \in {"up", "down"} /\ sys # "disconnected"
  /\ received < MaxRequests /\ received' = received + 1
  /\ secure /\ active
  /\ rx' = "submit" /\ rxSession' = session
  /\ UNCHANGED <<protocolVars, linkVars, activeVars, sys, sendVars>>

ReceiveSubmit ==
  /\ rx = "submit" /\ Submit(rxSession)
  /\ rx' = "idle" /\ rxSession' = 0
  /\ UNCHANGED <<cpc, owed, linkVars, activeVars, received, sys, sendVars>>

\* Faulty variant: the connection is used without a reference to it.
AcquireUnheld(s) == active /\ session = s /\ UNCHANGED held

\* get_active_conn(): only the session that asked, and with a reference.
Acquire(s) == active /\ session = s /\ held' = TRUE

\* oskey_bt_send() of an answer; after the session it is lost.
SendStart ==
  /\ cpc = "route"
  /\ \E s \in owed :
       /\ owed' = owed \ {s}
       /\ \/ /\ Acquire(s) /\ cpc' = "send" /\ sending' = s /\ parts' \in 1..MaxParts
          \/ ~(active /\ session = s) /\ UNCHANGED <<cpc, sendVars>>
  /\ UNCHANGED <<queue, linkVars, activeVars, rxVars, sys>>

SendDone == cpc' = "route" /\ sending' = 0 /\ parts' = 0

\* Faulty variant: an error leaves without giving the reference back.
SendFailedHolding == SendDone /\ UNCHANGED held

\* No security, a small MTU or bt_gatt_notify() says no.
SendFailed == SendDone /\ held' = FALSE

\* bt_gatt_notify() of the next part, which needs the link.
SendPart ==
  /\ cpc = "send"
  /\ \/ /\ conn = "up" /\ secure
        /\ IF parts = 1 THEN SendDone /\ held' = FALSE
                        ELSE parts' = parts - 1 /\ UNCHANGED <<cpc, held, sending>>
     \/ SendFailed
  /\ UNCHANGED <<queue, owed, linkVars, activeVars, rxVars, sys>>

HostStep ==
  \/ StartAdvertising \/ Connected \/ LinkEnds \/ Disconnected \/ Recycled \/ ReceiveSubmit

Radio == Connect \/ ConnectFailed \/ SecurityChanged \/ LinkLost \/ Receive
=============================================================================
