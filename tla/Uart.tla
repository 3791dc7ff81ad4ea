--------------------------------- MODULE Uart ---------------------------------
(***************************************************************************)
(* The UART receiver (src/uart.c).  The interrupt reads blocks of at most  *)
(* 32 bytes and submits them; a block the bus refuses is kept, and the     *)
(* interrupt stays off until a work item has submitted it.  Blocks are     *)
(* numbered in the order they arrive.                                      *)
(***************************************************************************)
EXTENDS Protocol, FiniteSetsExt

CONSTANTS MaxBlocks,     \* bound on the blocks that arrive
          FifoDepth      \* blocks the hardware's FIFO holds

ASSUME UartAssumption == MaxBlocks \in Nat /\ FifoDepth \in Nat \ {0}

VARIABLES
  arrived,       \* blocks that have arrived
  fifo,          \* blocks in the hardware
  pending,       \* pending[], 0 while pending_len is 0
  rxIrq,         \* the receive interrupt is enabled
  resume,        \* app_uart_rx_resume_work is scheduled
  accepted       \* blocks the bus has taken (history)

uartVars == <<arrived, fifo, pending, rxIrq, resume, accepted>>

UartStart ==
  /\ arrived = 0 /\ fifo = <<>> /\ pending = 0 /\ rxIrq = FALSE /\ resume = TRUE
  /\ accepted = <<>>

\* The host sends as long as the hardware can take it.
Arrive ==
  /\ arrived < MaxBlocks /\ Len(fifo) < FifoDepth
  /\ arrived' = arrived + 1 /\ fifo' = Append(fifo, arrived + 1)
  /\ UNCHANGED <<protocolVars, pending, rxIrq, resume, accepted>>

\* Blocks the bus takes from one run of the interrupt.
Taken == Min({Len(fifo), QueueDepth - Len(queue)})

\* Faulty variant: the interrupt stays on while a block is pending.
RxHandlerDeaf ==
  /\ rxIrq /\ fifo # <<>>
  /\ queue' = queue \o [i \in 1..Taken |-> Uart] /\ accepted' = accepted \o SubSeq(fifo, 1, Taken)
  /\ IF Taken = Len(fifo)
     THEN fifo' = <<>> /\ UNCHANGED <<pending, resume>>
     ELSE /\ pending' = fifo[Taken + 1] /\ fifo' = SubSeq(fifo, Taken + 2, Len(fifo))
          /\ resume' = TRUE
  /\ UNCHANGED <<cpc, owed, arrived, rxIrq>>

\* app_uart_rx_handler(): no thread runs in between.
RxHandler ==
  /\ rxIrq /\ fifo # <<>>
  /\ queue' = queue \o [i \in 1..Taken |-> Uart] /\ accepted' = accepted \o SubSeq(fifo, 1, Taken)
  /\ IF Taken = Len(fifo)
     THEN fifo' = <<>> /\ UNCHANGED <<pending, rxIrq, resume>>
     ELSE /\ pending' = fifo[Taken + 1] /\ fifo' = SubSeq(fifo, Taken + 2, Len(fifo))
          /\ rxIrq' = FALSE /\ resume' = TRUE
  /\ UNCHANGED <<cpc, owed, arrived>>

\* Faulty variant: a retry that is refused is the last one.
RetryOnce == resume' = FALSE /\ UNCHANGED <<queue, pending, rxIrq, accepted>>

\* k_work_reschedule(): two milliseconds later once more.
Retry == UNCHANGED <<queue, pending, rxIrq, resume, accepted>>

\* app_uart_rx_resume()
RxResume ==
  /\ resume
  /\ \/ /\ pending # 0 /\ Submit(Uart)
        /\ accepted' = Append(accepted, pending) /\ pending' = 0
        /\ rxIrq' = TRUE /\ resume' = FALSE
     \/ pending # 0 /\ Len(queue) = QueueDepth /\ Retry
     \/ pending = 0 /\ rxIrq' = TRUE /\ resume' = FALSE /\ UNCHANGED <<queue, pending, accepted>>
  /\ UNCHANGED <<cpc, owed, arrived, fifo>>

UartStep == Arrive \/ RxHandler \/ RxResume
=============================================================================
