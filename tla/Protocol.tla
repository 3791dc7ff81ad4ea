------------------------------- MODULE Protocol -------------------------------
(***************************************************************************)
(* What the transports see of the bus and of the core thread: the command  *)
(* queue (src/bus.c, modelled with its pools in WalletCore) and answers,   *)
(* each routed to the transport and the session that asked.  The runtime   *)
(* may owe the answer to a request, while its user is asked, for longer    *)
(* than the session lives.                                                 *)
(***************************************************************************)
EXTENDS Naturals, Sequences

CONSTANT QueueDepth      \* APP_BUS_QUEUE_DEPTH

ASSUME ProtocolAssumption == QueueDepth \in Nat \ {0}

VARIABLES
  queue,         \* sessions of the protocol commands in the queue, 0 for the UART
  cpc,           \* core thread: "wait", "route" or "send"
  owed           \* Bluetooth sessions the runtime owes an answer

protocolVars == <<queue, cpc, owed>>

ProtocolStart == queue = <<>> /\ cpc = "wait" /\ owed = {}

Uart == 0

\* app_core_submit_protocol() with room in the queue.
Submit(route) == Len(queue) < QueueDepth /\ queue' = Append(queue, route)

\* The core thread executes the next command; the answer may come at once, later or never.
Execute ==
  /\ cpc = "wait" /\ queue # <<>>
  /\ queue' = Tail(queue) /\ cpc' = "route"
  /\ owed' \in {owed, owed \cup ({Head(queue)} \ {Uart})}

\* The effects of the command are routed.
Routed == cpc = "route" /\ cpc' = "wait" /\ UNCHANGED <<queue, owed>>
=============================================================================
