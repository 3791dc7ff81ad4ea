--------------------------- MODULE TransportsProofs ---------------------------
(***************************************************************************)
(* The order of the UART's bytes and the addressee of Bluetooth's answers, *)
(* for every depth of the queue and of the FIFO and any number of blocks,  *)
(* links, requests and parts.                                              *)
(*                                                                         *)
(* The UART: what was accepted, what is pending and what the hardware      *)
(* holds are consecutive (Order), and no block arrives over a pending one  *)
(* because the interrupt is off then.  Bluetooth: the object stays with    *)
(* one link as long as a session or the core thread refers to it (Links).  *)
(***************************************************************************)
EXTENDS Transports, SequenceTheorems, TLAPS

-----------------------------------------------------------------------------
(* The inductive invariant.                                                *)

Bus ==
  /\ queue \in Seq(0..MaxLinks) /\ Len(queue) <= QueueDepth
  /\ cpc \in {"wait", "route", "send"} /\ owed \subseteq 1..MaxLinks

Waits == IF pending = 0 THEN 0 ELSE 1

Order ==
  /\ accepted \in Seq(Nat) /\ fifo \in Seq(Nat) /\ pending \in Nat
  /\ \A i \in 1..Len(accepted) : accepted[i] = i
  /\ pending # 0 => pending = Len(accepted) + 1
  /\ \A i \in 1..Len(fifo) : fifo[i] = Len(accepted) + Waits + i
  /\ arrived = Len(accepted) + Waits + Len(fifo) /\ arrived <= MaxBlocks

Port == rxIrq \in BOOLEAN /\ resume \in BOOLEAN /\ (rxIrq => pending = 0) /\ Order

Ranges ==
  /\ advertising \in BOOLEAN /\ secure \in BOOLEAN /\ active \in BOOLEAN /\ held \in BOOLEAN
  /\ conn \in {"free", "up", "down", "dead"} /\ link \in 0..MaxLinks
  /\ session \in 0..MaxLinks /\ rxSession \in 0..MaxLinks /\ sending \in 0..MaxLinks
  /\ rx \in {"idle", "connected", "submit"} /\ received \in 0..MaxRequests
  /\ sys \in {"idle", "advertise", "disconnected"} /\ parts \in 0..MaxParts

\* Whoever refers to the object keeps it with its link.
Links ==
  /\ sequence \in 0..MaxLinks /\ (rx = "connected" => link = sequence + 1)
  /\ rx # "connected" => link = sequence
  /\ active => session = link /\ conn \in {"up", "down"}
  /\ rx = "connected" => conn \in {"up", "down"} /\ sys # "disconnected"
  /\ sys = "disconnected" => conn = "down"
  /\ cpc = "send" => held /\ sending = link /\ conn # "free" /\ parts # 0
  /\ held => cpc = "send"

IInv == Bus /\ Port /\ Ranges /\ Links

-----------------------------------------------------------------------------
(* The queue.                                                              *)

LEMMA Submitted ==
  ASSUME Bus, NEW route \in 0..MaxLinks, Submit(route), cpc' = cpc, owed' = owed
  PROVE  Bus'
BY AppendProperties, LenProperties, ProtocolAssumption DEF Bus, Submit

\* Several blocks of the UART at once.
LEMMA SubmittedBlocks ==
  ASSUME Bus, NEW n \in Nat, n <= QueueDepth - Len(queue),
         queue' = queue \o [i \in 1..n |-> Uart], cpc' = cpc, owed' = owed
  PROVE  Bus'
<1> DEFINE blocks == [i \in 1..n |-> Uart]
<1>1. Uart \in 0..MaxLinks
  BY BluetoothAssumption DEF Uart
<1>2. blocks \in [1..n -> 0..MaxLinks]
  BY <1>1
<1>3. blocks \in Seq(0..MaxLinks) /\ Len(blocks) = n
  <2>1. blocks \in Seq(0..MaxLinks)
    BY <1>2
  <2>2. DOMAIN blocks = 1..n
    BY <1>2
  <2> QED
    BY <2>1, <2>2, LenProperties
<1> HIDE DEF blocks
<1>4. queue \in Seq(0..MaxLinks) /\ queue' = queue \o blocks
  BY DEF Bus, blocks
<1>5. queue' \in Seq(0..MaxLinks) /\ Len(queue') = Len(queue) + n
  BY <1>3, <1>4, ConcatProperties
<1>6. Len(queue) \in Nat
  BY <1>4, LenProperties
<1> QED
  BY <1>5, <1>6, ProtocolAssumption DEF Bus

-----------------------------------------------------------------------------
(* The UART.                                                               *)

LEMMA TakenBounds ==
  ASSUME Bus, Order
  PROVE  Taken \in Nat /\ Taken <= Len(fifo) /\ Taken <= QueueDepth - Len(queue)
<1> DEFINE a == Len(fifo)
           b == QueueDepth - Len(queue)
<1>1. a \in Nat /\ b \in Nat
  BY LenProperties, ProtocolAssumption DEF Bus, Order
<1>2. Taken = CHOOSE x \in {a, b} : \A y \in {a, b} : x <= y
  BY DEF Taken, Min
<1> HIDE DEF a, b
<1>3. \E x \in {a, b} : \A y \in {a, b} : x <= y
  BY <1>1
<1>4. Taken \in {a, b} /\ Taken <= a /\ Taken <= b
  BY <1>2, <1>3
<1> QED
  BY <1>1, <1>4 DEF a, b

\* What the interrupt submits is the beginning of the FIFO.
LEMMA AcceptedGrows ==
  ASSUME Order, pending = 0, NEW n \in Nat, n <= Len(fifo),
         accepted' = accepted \o SubSeq(fifo, 1, n)
  PROVE  /\ accepted' \in Seq(Nat) /\ Len(accepted') = Len(accepted) + n
         /\ \A i \in 1..Len(accepted') : accepted'[i] = i
<1> DEFINE front == SubSeq(fifo, 1, n)
<1>1. /\ accepted \in Seq(Nat) /\ fifo \in Seq(Nat) /\ Len(accepted) \in Nat /\ Len(fifo) \in Nat
      /\ \A i \in 1..Len(fifo) : fifo[i] = Len(accepted) + i
  BY LenProperties DEF Order, Waits
<1>2. \A i \in 1..n : fifo[i] \in Nat
  BY <1>1
<1>3. /\ front \in Seq(Nat) /\ Len(front) = n
      /\ \A i \in 1..n : front[i] = fifo[i]
  <2>1. 1 \in Int /\ n \in Int
    OBVIOUS
  <2>2. /\ front \in Seq(Nat) /\ Len(front) = (IF 1 <= n THEN n - 1 + 1 ELSE 0)
        /\ \A i \in 1..(n - 1 + 1) : front[i] = fifo[1 + i - 1]
    BY <1>2, <2>1, SubSeqProperties
  <2> HIDE DEF front
  <2> QED
    BY <2>2
<1> HIDE DEF front
<1>4. /\ accepted' \in Seq(Nat) /\ Len(accepted') = Len(accepted) + n
      /\ \A i \in 1..(Len(accepted) + n) :
           accepted'[i] = IF i <= Len(accepted) THEN accepted[i] ELSE front[i - Len(accepted)]
  <2>1. accepted' = accepted \o front
    BY DEF front
  <2> QED
    BY <1>1, <1>3, <2>1, ConcatProperties
<1>5. ASSUME NEW i \in 1..(Len(accepted) + n) PROVE accepted'[i] = i
  <2>1. CASE i <= Len(accepted)
    BY <1>1, <1>4, <2>1 DEF Order
  <2>2. CASE ~(i <= Len(accepted))
    <3>1. i - Len(accepted) \in 1..n /\ i - Len(accepted) \in 1..Len(fifo)
      BY <1>1, <2>2
    <3>2. accepted'[i] = fifo[i - Len(accepted)]
      BY <1>3, <1>4, <2>2, <3>1
    <3>3. fifo[i - Len(accepted)] = Len(accepted) + (i - Len(accepted))
      BY <1>1, <3>1
    <3> QED
      BY <1>1, <3>2, <3>3
  <2> QED
    BY <2>1, <2>2
<1> QED
  BY <1>4, <1>5

LEMMA ArriveKeeps ==
  ASSUME Port, Arrive
  PROVE  Port'
<1>1. /\ accepted \in Seq(Nat) /\ fifo \in Seq(Nat) /\ Len(accepted) \in Nat /\ Len(fifo) \in Nat
      /\ arrived \in Nat /\ Waits \in Nat /\ pending \in Nat
  BY LenProperties DEF Port, Order, Waits
<1>2. /\ fifo' \in Seq(Nat) /\ Len(fifo') = Len(fifo) + 1
      /\ \A i \in 1..Len(fifo) : fifo'[i] = fifo[i]
      /\ fifo'[Len(fifo) + 1] = arrived + 1
  BY <1>1, AppendProperties DEF Arrive
<1>3. /\ accepted' = accepted /\ pending' = pending /\ rxIrq' = rxIrq /\ resume' = resume
      /\ arrived' = arrived + 1 /\ arrived < MaxBlocks /\ Waits' = Waits
  BY DEF Arrive, Waits
<1>4. ASSUME NEW i \in 1..Len(fifo') PROVE fifo'[i] = Len(accepted) + Waits + i
  <2>1. CASE i \in 1..Len(fifo)
    BY <1>2, <2>1 DEF Port, Order
  <2>2. CASE i = Len(fifo) + 1
    <3>1. arrived = Len(accepted) + Waits + Len(fifo)
      BY DEF Port, Order
    <3> QED
      BY <1>1, <1>2, <2>2, <3>1
  <2> QED
    BY <1>1, <1>2, <2>1, <2>2
<1>5. Order'
  BY <1>1, <1>2, <1>3, <1>4, UartAssumption DEF Port, Order
<1> QED
  BY <1>3, <1>5 DEF Port

LEMMA RxHandlerKeeps ==
  ASSUME Bus, Port, RxHandler
  PROVE  Bus' /\ Port'
<1>1. pending = 0 /\ Order /\ Waits = 0
  BY DEF Port, RxHandler, Waits
<1>2. Taken \in Nat /\ Taken <= Len(fifo) /\ Taken <= QueueDepth - Len(queue)
  BY <1>1, TakenBounds
<1>3. Bus'
  BY <1>2, SubmittedBlocks DEF RxHandler
<1>4. /\ accepted' \in Seq(Nat) /\ Len(accepted') = Len(accepted) + Taken
      /\ \A i \in 1..Len(accepted') : accepted'[i] = i
  BY <1>1, <1>2, AcceptedGrows DEF RxHandler
<1>5. /\ fifo \in Seq(Nat) /\ Len(fifo) \in Nat /\ Len(accepted) \in Nat
      /\ arrived = Len(accepted) + Len(fifo) /\ arrived <= MaxBlocks
      /\ \A i \in 1..Len(fifo) : fifo[i] = Len(accepted) + i
  BY <1>1, LenProperties DEF Order
<1>6. arrived' = arrived
  BY DEF RxHandler
<1>7. CASE Taken = Len(fifo)
  <2>1. fifo' = << >> /\ pending' = 0 /\ rxIrq' = rxIrq /\ resume' = resume
    BY <1>1, <1>7 DEF RxHandler
  <2>2. fifo' \in Seq(Nat) /\ Len(fifo') = 0 /\ Waits' = 0
    BY <2>1, EmptySeq DEF Waits
  <2>3. Order'
    BY <1>4, <1>5, <1>6, <1>7, <2>1, <2>2 DEF Order
  <2> QED
    BY <1>3, <2>1, <2>3 DEF Port
<1>8. CASE Taken # Len(fifo)
  <2> DEFINE rest == SubSeq(fifo, Taken + 2, Len(fifo))
  <2>1. fifo' = rest /\ pending' = fifo[Taken + 1] /\ rxIrq' = FALSE /\ resume' = TRUE
    BY <1>8 DEF RxHandler
  <2>2. /\ rest \in Seq(Nat) /\ Len(rest) = Len(fifo) - Taken - 1
        /\ \A i \in 1..Len(rest) : rest[i] = fifo[Taken + 1 + i]
    <3>1. Taken + 2 \in Int /\ Len(fifo) \in Int /\ \A i \in (Taken + 2)..Len(fifo) : fifo[i] \in Nat
      BY <1>2, <1>5
    <3>2. /\ rest \in Seq(Nat)
          /\ Len(rest) = (IF Taken + 2 <= Len(fifo) THEN Len(fifo) - (Taken + 2) + 1 ELSE 0)
          /\ \A i \in 1..(Len(fifo) - (Taken + 2) + 1) : rest[i] = fifo[Taken + 2 + i - 1]
      BY <3>1, SubSeqProperties
    <3> HIDE DEF rest
    <3>3. Len(rest) = Len(fifo) - Taken - 1
      BY <1>2, <1>5, <1>8, <3>2
    <3>4. ASSUME NEW i \in 1..Len(rest) PROVE rest[i] = fifo[Taken + 1 + i]
      <4>1. Taken + 2 + i - 1 = Taken + 1 + i
        BY <1>2
      <4>2. i \in 1..(Len(fifo) - (Taken + 2) + 1)
        BY <1>2, <1>5, <3>3
      <4> QED
        BY <3>2, <4>1, <4>2
    <3> QED
      BY <3>2, <3>3, <3>4
  <2> HIDE DEF rest
  <2>3. pending' = Len(accepted') + 1 /\ Waits' = 1
    <3>1. Taken + 1 \in 1..Len(fifo)
      BY <1>2, <1>5, <1>8
    <3>2. pending' = Len(accepted) + (Taken + 1)
      BY <1>5, <2>1, <3>1
    <3> QED
      BY <1>2, <1>4, <1>5, <3>2 DEF Waits
  <2>4. \A i \in 1..Len(fifo') : fifo'[i] = Len(accepted') + Waits' + i
    <3> SUFFICES ASSUME NEW i \in 1..Len(rest) PROVE rest[i] = Len(accepted') + 1 + i
      BY <2>1, <2>3
    <3>1. Taken + 1 + i \in 1..Len(fifo)
      BY <1>2, <1>5, <2>2
    <3> QED
      BY <1>2, <1>4, <1>5, <2>2, <3>1
  <2>5. pending' \in Nat
    BY <1>2, <1>4, <1>5, <2>3
  <2>6. arrived' = Len(accepted') + Waits' + Len(fifo')
    BY <1>2, <1>4, <1>5, <1>6, <2>1, <2>2, <2>3
  <2>7. Order'
    BY <1>4, <1>5, <1>6, <2>1, <2>2, <2>3, <2>4, <2>5, <2>6 DEF Order
  <2> QED
    BY <1>3, <2>1, <2>7 DEF Port
<1> QED
  BY <1>7, <1>8

LEMMA RxResumeKeeps ==
  ASSUME Bus, Port, RxResume
  PROVE  Bus' /\ Port'
<1>1. fifo' = fifo /\ arrived' = arrived /\ cpc' = cpc /\ owed' = owed
  BY DEF RxResume
<1>2. CASE /\ pending # 0 /\ Submit(Uart)
           /\ accepted' = Append(accepted, pending) /\ pending' = 0
           /\ rxIrq' = TRUE /\ resume' = FALSE
  <2>1. Uart \in 0..MaxLinks
    BY BluetoothAssumption DEF Uart
  <2>2. Bus'
    BY <1>1, <1>2, <2>1, Submitted
  <2>3. /\ accepted \in Seq(Nat) /\ Len(accepted) \in Nat /\ pending \in Nat /\ Waits = 1
        /\ fifo \in Seq(Nat) /\ Len(fifo) \in Nat /\ pending = Len(accepted) + 1
    BY <1>2, LenProperties DEF Port, Order, Waits
  <2>4. /\ accepted' \in Seq(Nat) /\ Len(accepted') = Len(accepted) + 1
        /\ \A i \in 1..Len(accepted) : accepted'[i] = accepted[i]
        /\ accepted'[Len(accepted) + 1] = pending
    BY <1>2, <2>3, AppendProperties
  <2>5. Waits' = 0
    BY <1>2 DEF Waits
  <2>6. ASSUME NEW i \in 1..Len(accepted') PROVE accepted'[i] = i
    <3>1. CASE i \in 1..Len(accepted)
      BY <2>4, <3>1 DEF Port, Order
    <3>2. CASE i = Len(accepted) + 1
      BY <2>3, <2>4, <3>2
    <3> QED
      BY <2>3, <2>4, <3>1, <3>2
  <2>7. \A i \in 1..Len(fifo) : fifo[i] = Len(accepted') + 0 + i
    BY <2>3, <2>4 DEF Port, Order
  <2>8. Order'
    BY <1>1, <1>2, <2>3, <2>4, <2>5, <2>6, <2>7 DEF Port, Order
  <2> QED
    BY <1>2, <2>2, <2>8 DEF Port
<1>3. CASE pending # 0 /\ Len(queue) = QueueDepth /\ Retry
  BY <1>1, <1>3 DEF Retry, Bus, Port, Order, Waits
<1>4. CASE pending = 0 /\ rxIrq' = TRUE /\ resume' = FALSE /\ UNCHANGED <<queue, pending, accepted>>
  BY <1>1, <1>4 DEF Bus, Port, Order, Waits
<1> QED
  BY <1>2, <1>3, <1>4 DEF RxResume

LEMMA PortSteps ==
  ASSUME IInv, UartPort
  PROVE  IInv'
<1>1. Ranges' /\ (cpc' = cpc => Links')
  BY DEF IInv, UartPort, Ranges, Links, bluetoothVars, linkVars, activeVars, rxVars, sendVars
<1>2. CASE Arrive
  <2>1. Bus' /\ cpc' = cpc
    BY <1>2 DEF Arrive, protocolVars, IInv, Bus
  <2> QED
    BY <1>1, <1>2, <2>1, ArriveKeeps DEF IInv
<1>3. CASE RxHandler
  <2>1. cpc' = cpc
    BY <1>3 DEF RxHandler
  <2> QED
    BY <1>1, <1>3, <2>1, RxHandlerKeeps DEF IInv
<1>4. CASE RxResume
  <2>1. cpc' = cpc
    BY <1>4 DEF RxResume
  <2> QED
    BY <1>1, <1>4, <2>1, RxResumeKeeps DEF IInv
<1> QED
  BY <1>2, <1>3, <1>4 DEF UartPort, UartStep

-----------------------------------------------------------------------------
(* Bluetooth and the core thread.                                          *)

\* What leaves the UART alone keeps it.
LEMMA PortKept ==
  ASSUME Port, UNCHANGED uartVars
  PROVE  Port'
BY DEF Port, Order, Waits, uartVars

\* The host's steps; only the submission of a request touches the bus.
LEMMA HostSteps ==
  ASSUME IInv, BluetoothHost
  PROVE  IInv'
<1>1. Port'
  BY PortKept DEF IInv, BluetoothHost
<1> USE BluetoothAssumption DEF IInv, Ranges, Links, protocolVars, linkVars, activeVars, rxVars, sendVars
<1>2. CASE StartAdvertising
  BY <1>1, <1>2 DEF StartAdvertising, Bus
<1>3. CASE Connected
  <2>1. sequence + 1 \in 0..MaxLinks
    BY <1>3 DEF Connected
  <2> QED
    BY <1>1, <1>3, <2>1 DEF Connected, Bus
<1>4. CASE LinkEnds
  BY <1>1, <1>4 DEF LinkEnds, Bus
<1>5. CASE Disconnected
  <2>1. 0 \in 0..MaxLinks
    OBVIOUS
  <2>2. active' = FALSE /\ session' = 0 /\ sys' = "idle" /\ conn' = "dead" /\ rx # "connected"
    BY <1>5 DEF Disconnected, ClearActive
  <2> QED
    BY <1>1, <1>5, <2>1, <2>2 DEF Disconnected, Bus
<1>6. CASE Recycled
  BY <1>1, <1>6 DEF Recycled, Bus
<1>7. CASE ReceiveSubmit
  <2>1. Bus'
    BY <1>7, Submitted DEF ReceiveSubmit
  <2> QED
    BY <1>1, <1>7, <2>1 DEF ReceiveSubmit
<1>8. CASE Connect
  <2>1. link + 1 \in 0..MaxLinks
    BY <1>8 DEF Connect
  <2> QED
    BY <1>1, <1>8, <2>1 DEF Connect, Bus
<1>9. CASE ConnectFailed
  BY <1>1, <1>9 DEF ConnectFailed, Bus
<1>10. CASE SecurityChanged
  BY <1>1, <1>10 DEF SecurityChanged, Bus
<1>11. CASE LinkLost
  BY <1>1, <1>11 DEF LinkLost, Bus
<1>12. CASE Receive
  <2>1. received + 1 \in 0..MaxRequests
    BY <1>12 DEF Receive
  <2> QED
    BY <1>1, <1>12, <2>1 DEF Receive, Bus
<1> QED
  BY <1>2, <1>3, <1>4, <1>5, <1>6, <1>7, <1>8, <1>9, <1>10, <1>11, <1>12
     DEF BluetoothHost, HostStep, Radio

LEMMA CoreSteps ==
  ASSUME IInv, CoreThread
  PROVE  IInv'
<1>1. Port'
  BY PortKept DEF IInv, CoreThread
<1> USE BluetoothAssumption DEF IInv, linkVars, activeVars, rxVars, sendVars
<1>2. CASE Execute /\ UNCHANGED bluetoothVars
  <2>1. queue \in Seq(0..MaxLinks) /\ queue # << >> /\ Len(queue) \in Nat
    BY <1>2, LenProperties DEF Execute, Bus
  <2>2. Head(queue) \in 0..MaxLinks /\ queue' \in Seq(0..MaxLinks) /\ Len(queue') = Len(queue) - 1
    BY <1>2, <2>1, HeadTailProperties DEF Execute
  <2>3. {Head(queue)} \ {Uart} \subseteq 1..MaxLinks
    BY <2>2 DEF Uart
  <2>4. Bus'
    BY <1>2, <2>1, <2>2, <2>3, ProtocolAssumption DEF Execute, Bus
  <2>5. cpc # "send" /\ cpc' # "send"
    BY <1>2 DEF Execute
  <2> QED
    BY <1>1, <1>2, <2>4, <2>5 DEF Ranges, Links, bluetoothVars
<1>3. CASE Routed /\ UNCHANGED bluetoothVars
  BY <1>1, <1>3 DEF Routed, Bus, Ranges, Links, bluetoothVars
<1>4. CASE SendStart
  <2>1. PICK s \in owed :
          /\ owed' = owed \ {s}
          /\ \/ /\ Acquire(s) /\ cpc' = "send" /\ sending' = s /\ parts' \in 1..MaxParts
             \/ ~(active /\ session = s) /\ UNCHANGED <<cpc, sendVars>>
    BY <1>4 DEF SendStart
  <2>2. /\ s \in 0..MaxLinks /\ owed' \subseteq 1..MaxLinks /\ cpc = "route"
        /\ queue' = queue /\ UNCHANGED <<linkVars, activeVars, rxVars, sys>>
    BY <1>4, <2>1 DEF SendStart, Bus
  <2>3. CASE Acquire(s) /\ cpc' = "send" /\ sending' = s /\ parts' \in 1..MaxParts
    <3>1. active /\ session = s /\ held' = TRUE
      BY <2>3 DEF Acquire
    <3> QED
      BY <1>1, <2>2, <2>3, <3>1 DEF Bus, Ranges, Links
  <2>4. CASE UNCHANGED <<cpc, sendVars>>
    BY <1>1, <2>2, <2>4 DEF Bus, Ranges, Links
  <2> QED
    BY <2>1, <2>3, <2>4
<1>5. CASE SendPart
  <2>1. 0 \in 0..MaxLinks /\ 0 \in 0..MaxParts /\ parts \in 0..MaxParts /\ cpc = "send" /\ parts # 0
    BY <1>5 DEF SendPart, Ranges, Links
  <2>2. CASE SendDone /\ held' = FALSE
    BY <1>1, <1>5, <2>1, <2>2 DEF SendPart, SendDone, Bus, Ranges, Links
  <2>3. CASE parts # 1 /\ parts' = parts - 1 /\ UNCHANGED <<cpc, held, sending>>
    <3>1. parts' \in 0..MaxParts /\ parts' # 0
      BY <2>1, <2>3
    <3> QED
      BY <1>1, <1>5, <2>1, <2>3, <3>1 DEF SendPart, Bus, Ranges, Links
  <2> QED
    BY <1>5, <2>2, <2>3 DEF SendPart, SendFailed
<1> QED
  BY <1>2, <1>3, <1>4, <1>5 DEF CoreThread

-----------------------------------------------------------------------------
LEMMA InitInv == Init => IInv
<1> SUFFICES ASSUME Init PROVE IInv
  OBVIOUS
<1>1. 0 \in 0..MaxLinks /\ 0 \in 0..MaxRequests /\ 0 \in 0..MaxParts
  BY BluetoothAssumption
<1>2. << >> \in Seq(0..MaxLinks) /\ << >> \in Seq(Nat) /\ Len(<< >>) = 0
  BY EmptySeq
<1>3. Bus
  BY <1>2, ProtocolAssumption DEF Init, ProtocolStart, Bus
<1>4. Port
  <2>1. /\ accepted = << >> /\ fifo = << >> /\ pending = 0 /\ arrived = 0
        /\ rxIrq = FALSE /\ resume = TRUE
    BY DEF Init, UartStart
  <2>2. Waits = 0
    BY <2>1 DEF Waits
  <2>3. Order
    BY <1>2, <2>1, <2>2, UartAssumption DEF Order
  <2> QED
    BY <2>1, <2>3 DEF Port
<1>5. Ranges /\ Links
  BY <1>1 DEF Init, BluetoothStart, ProtocolStart, Ranges, Links
<1> QED
  BY <1>3, <1>4, <1>5 DEF IInv

LEMMA NextInv == IInv /\ [Next]_vars => IInv'
<1> SUFFICES ASSUME IInv, [Next]_vars PROVE IInv'
  OBVIOUS
<1>1. CASE UNCHANGED vars
  <2>1. Port'
    BY <1>1, PortKept DEF IInv, vars
  <2> QED
    BY <1>1, <2>1 DEF vars, protocolVars, bluetoothVars, linkVars, activeVars, rxVars, sendVars,
       IInv, Bus, Ranges, Links
<1> QED
  BY <1>1, PortSteps, HostSteps, CoreSteps DEF Next

LEMMA Invariant == Spec => []IInv
BY InitInv, NextInv, PTL DEF Spec

-----------------------------------------------------------------------------
\* No byte of the UART is lost, repeated or overtaken, however often the bus refuses, for every
\* depth of FIFO and queue (uart.c:21-69).
THEOREM BytesInOrder == Spec => []UartInOrder
<1>1. IInv => UartInOrder
  <2> SUFFICES ASSUME IInv PROVE UartInOrder
    OBVIOUS
  <2> DEFINE waiting == IF pending = 0 THEN <<>> ELSE <<pending>>
             line == accepted \o waiting
             whole == line \o fifo
             count == [i \in 1..arrived |-> i]
  <2>1. /\ accepted \in Seq(Nat) /\ Len(accepted) \in Nat /\ fifo \in Seq(Nat) /\ Len(fifo) \in Nat
        /\ Waits \in 0..1 /\ pending \in Nat
    BY LenProperties DEF IInv, Port, Order, Waits
  <2>2. arrived \in 0..MaxBlocks /\ pending \in 0..MaxBlocks
    BY <2>1, UartAssumption DEF IInv, Port, Order, Waits
  <2>3. TypeOK
    BY <2>2 DEF IInv, Bus, Port, Ranges, Links, TypeOK
  <2>4. waiting \in Seq(Nat) /\ Len(waiting) = Waits /\ (Waits = 1 => waiting[1] = pending)
    <3>1. CASE pending = 0
      BY <3>1, EmptySeq DEF Waits
    <3>2. CASE pending # 0
      BY <2>1, <3>2 DEF Waits
    <3> QED
      BY <3>1, <3>2
  <2> HIDE DEF waiting
  <2>5. /\ line \in Seq(Nat) /\ Len(line) = Len(accepted) + Waits
        /\ \A i \in 1..(Len(accepted) + Waits) : line[i] = i
    <3>1. /\ line \in Seq(Nat) /\ Len(line) = Len(accepted) + Len(waiting)
          /\ \A i \in 1..(Len(accepted) + Len(waiting)) :
               line[i] = IF i <= Len(accepted) THEN accepted[i] ELSE waiting[i - Len(accepted)]
      BY <2>1, <2>4, ConcatProperties
    <3> HIDE DEF line
    <3>2. ASSUME NEW i \in 1..(Len(accepted) + Waits) PROVE line[i] = i
      <4>1. CASE i <= Len(accepted)
        <5>1. i \in 1..Len(accepted) /\ line[i] = accepted[i]
          BY <2>1, <2>4, <3>1, <4>1
        <5> QED
          BY <5>1 DEF IInv, Port, Order
      <4>2. CASE ~(i <= Len(accepted))
        <5>1. i = Len(accepted) + 1 /\ Waits = 1 /\ i - Len(accepted) = 1
          BY <2>1, <4>2
        <5>2. line[i] = pending /\ pending # 0
          BY <2>4, <3>1, <4>2, <5>1 DEF Waits
        <5> QED
          BY <5>1, <5>2 DEF IInv, Port, Order
      <4> QED
        BY <4>1, <4>2
    <3> QED
      BY <2>4, <3>1, <3>2
  <2> HIDE DEF line
  <2>6. arrived = Len(accepted) + Waits + Len(fifo) /\ arrived \in Nat
    BY <2>2 DEF IInv, Port, Order
  <2>7. /\ whole \in Seq(Nat) /\ Len(whole) = arrived
        /\ \A i \in 1..arrived : whole[i] = i
    <3>1. /\ whole \in Seq(Nat) /\ Len(whole) = Len(line) + Len(fifo)
          /\ \A i \in 1..(Len(line) + Len(fifo)) :
               whole[i] = IF i <= Len(line) THEN line[i] ELSE fifo[i - Len(line)]
      BY <2>1, <2>5, ConcatProperties
    <3> HIDE DEF whole
    <3>2. ASSUME NEW i \in 1..arrived PROVE whole[i] = i
      <4>1. CASE i <= Len(line)
        BY <2>1, <2>5, <2>6, <3>1, <4>1
      <4>2. CASE ~(i <= Len(line))
        <5>1. i - Len(line) \in 1..Len(fifo) /\ whole[i] = fifo[i - Len(line)]
          BY <2>1, <2>5, <2>6, <3>1, <4>2
        <5>2. fifo[i - Len(line)] = Len(line) + (i - Len(line))
          BY <2>5, <5>1 DEF IInv, Port, Order
        <5> QED
          BY <2>1, <2>5, <5>1, <5>2
      <4> QED
        BY <4>1, <4>2
    <3> QED
      BY <2>5, <2>6, <3>1, <3>2
  <2>8. count \in Seq(Nat) /\ Len(count) = arrived /\ \A i \in 1..arrived : count[i] = i
    <3>1. count \in [1..arrived -> Nat] /\ DOMAIN count = 1..arrived
      OBVIOUS
    <3>2. count \in Seq(Nat)
      BY <2>6, <3>1
    <3> QED
      BY <2>6, <3>1, <3>2, LenProperties
  <2> HIDE DEF whole, count
  <2>9. whole = count
    BY <2>7, <2>8, SeqEqual
  <2> QED
    BY <2>3, <2>9 DEF UartInOrder, whole, line, waiting, count
<1> QED
  BY <1>1, Invariant, PTL

\* Every part of an answer goes to the link of the session that asked, for any number of links
\* and parts (bluetooth.c:101-111, 355-398).
THEOREM AnswersReachTheirOwn == Spec => []AnswersStayInSession
<1>1. IInv => AnswersStayInSession
  BY DEF IInv, Links, AnswersStayInSession
<1> QED
  BY <1>1, Invariant, PTL
=============================================================================
