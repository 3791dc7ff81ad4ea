------------------------------ MODULE Transports ------------------------------
(***************************************************************************)
(* The UART and Bluetooth on one command queue, with the core thread that  *)
(* takes their requests and sends the answers.                             *)
(***************************************************************************)
EXTENDS Uart, Bluetooth

vars == <<protocolVars, uartVars, bluetoothVars>>

Init == ProtocolStart /\ UartStart /\ BluetoothStart

CoreThread ==
  \/ (Execute \/ Routed) /\ UNCHANGED <<uartVars, bluetoothVars>>
  \/ (SendStart \/ SendPart) /\ UNCHANGED uartVars

UartPort == UartStep /\ UNCHANGED bluetoothVars
BluetoothHost == (HostStep \/ Radio) /\ UNCHANGED uartVars

Next == CoreThread \/ UartPort \/ BluetoothHost

\* Threads, work items and interrupts run; peers need not send, connect or stay.
Fairness ==
  /\ WF_vars(CoreThread)
  /\ WF_vars(RxHandler /\ UNCHANGED bluetoothVars)
  /\ WF_vars(RxResume /\ UNCHANGED bluetoothVars)
  /\ WF_vars((Connected \/ LinkEnds \/ ReceiveSubmit) /\ UNCHANGED uartVars)
  /\ WF_vars((StartAdvertising \/ Disconnected \/ Recycled) /\ UNCHANGED uartVars)

Spec == Init /\ [][Next]_vars /\ Fairness

-----------------------------------------------------------------------------
\* The type invariant of the two transports and the core thread between them.
TypeOK ==
  /\ queue \in Seq(0..MaxLinks) /\ Len(queue) <= QueueDepth
  /\ cpc \in {"wait", "route", "send"} /\ owed \subseteq 1..MaxLinks
  /\ arrived \in 0..MaxBlocks /\ pending \in 0..MaxBlocks
  /\ {rxIrq, resume, advertising, secure, active, held} \subseteq BOOLEAN
  /\ conn \in {"free", "up", "down", "dead"}
  /\ {link, session, sequence, rxSession, sending} \subseteq 0..MaxLinks
  /\ rx \in {"idle", "connected", "submit"} /\ received \in 0..MaxRequests
  /\ sys \in {"idle", "advertise", "disconnected"} /\ parts \in 0..MaxParts

\* Bytes reach the bus once and in order, although the bus refuses them at times and more
\* arrive meanwhile (src/uart.c:21-69).
UartInOrder ==
  /\ TypeOK
  /\ accepted \o (IF pending = 0 THEN <<>> ELSE <<pending>>) \o fifo = [i \in 1..arrived |-> i]

\* The receive interrupt does not stay off (src/uart.c:29-36, 57-66).
UartReadsAgain == ~rxIrq ~> rxIrq

\* An answer that is being sent goes to the link of the session that asked, from its first part
\* to its last: never to the next one, which uses the same connection object and may be made
\* while the core thread sends (src/bluetooth/bluetooth.c:101-111, 355-398).
AnswersStayInSession == cpc = "send" /\ conn = "up" => link = sending

\* A link that is lost leaves the device ready for the next one: no error path keeps a reference
\* to the connection (src/bluetooth/bluetooth.c:73-88, 136-147, 199, 395-397).
ReachableAgain == conn = "down" ~> sys = "advertise"
=============================================================================
