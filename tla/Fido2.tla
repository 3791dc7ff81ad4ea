-------------------------------- MODULE Fido2 --------------------------------
(***************************************************************************)
(* The FIDO2 side of the wallet (src/usb/fido2.c): the CTAP thread sends   *)
(* one request at a time to the core thread and waits for its result with  *)
(* a deadline, and the transport may cancel the wait for user presence     *)
(* from a thread of its own.  Results of requests that were given up stay  *)
(* in the result queue until the next request skips them.                  *)
(*                                                                         *)
(* Register stands for the requests that carry an answer and need no user  *)
(* (Register, Validate, Sign); Confirm is the user presence of             *)
(* fido2_up_wait().  There is one CTAP thread, so the compare-and-swap on  *)
(* active_request_id never finds another request.                          *)
(***************************************************************************)
EXTENDS WalletCore

CONSTANT MaxRequests     \* bound on request_sequence

ASSUME FidoAssumption == MaxRequests \in Nat

VARIABLES
  sequence,      \* request_sequence
  activeReq,     \* active_request_id
  fpc,           \* request(): "idle", "submit", "await" or "cancel"
  request,       \* kind and id of the request
  reply,         \* what the last request returned
  cancelled      \* fido2_up_cancel(): the id it read and has not submitted yet, or 0

fidoVars == <<sequence, activeReq, fpc, request, reply, cancelled>>

Kinds == {"Confirm", "Register"}
NoRequest == [kind |-> "none", id |-> 0]

Return(out) ==
  /\ activeReq' = 0 /\ fpc' = "idle"
  /\ reply' = [kind |-> request.kind, id |-> request.id, out |-> out]

\* request_id_next() and the compare-and-swap that claims the only request slot.
Begin(kind) ==
  /\ fpc = "idle" /\ sequence < MaxRequests /\ activeReq = 0
  /\ sequence' = sequence + 1 /\ activeReq' = sequence + 1
  /\ request' = [kind |-> kind, id |-> sequence + 1]
  /\ fpc' = "submit"
  /\ UNCHANGED <<coreVars, reply, cancelled>>

Submitted == Fido(request.kind, request.id, 1)

\* Faulty variant: a request the bus refuses keeps the request slot.
SubmitHolding ==
  /\ fpc = "submit"
  /\ \/ Enqueue(Submitted) /\ fpc' = "await" /\ UNCHANGED <<activeReq, reply>>
     \/ Refused(Submitted) /\ fpc' = "idle" /\ UNCHANGED <<activeReq, reply>>
  /\ UNCHANGED <<ready, resVars, execVars, runtimeVars, consented, confVars, walletChan,
                 sequence, request, cancelled>>

Submit ==
  /\ fpc = "submit"
  /\ \/ Enqueue(Submitted) /\ fpc' = "await" /\ UNCHANGED <<activeReq, reply>>
     \/ Refused(Submitted) /\ Return("Refused")
  /\ UNCHANGED <<ready, resVars, execVars, runtimeVars, consented, confVars, walletChan,
                 sequence, request, cancelled>>

\* Faulty variant: any result answers the request.
AnyMine(result) == TRUE

Mine(result) == result.id = request.id

TakeResult ==
  /\ fpc = "await" /\ fidoq # <<>>
  /\ fidoq' = Tail(fidoq)
  /\ resFree' = resFree + Head(fidoq).frags
  /\ UNCHANGED <<ready, busVars, localq, execVars, runtimeVars, consented, confVars, walletChan,
                 sequence, request, cancelled>>

\* A result of a request given up earlier: only its payload is released.
Skip == TakeResult /\ ~Mine(Head(fidoq)) /\ UNCHANGED <<activeReq, fpc, reply>>

Answer == TakeResult /\ Mine(Head(fidoq)) /\ Return(Head(fidoq).status)

\* Faulty variant: the confirmation of a request that timed out is left on the device.
TimeOutSilently ==
  /\ fpc = "await" /\ fidoq = <<>>
  /\ Return("TimedOut")
  /\ UNCHANGED <<coreVars, sequence, request, cancelled>>

\* The deadline: k_msgq_get() still returns a result that is there, so the queue is empty.
TimeOut ==
  /\ fpc = "await" /\ fidoq = <<>>
  /\ IF request.kind = "Confirm" THEN fpc' = "cancel" /\ UNCHANGED <<activeReq, reply>>
                                 ELSE Return("TimedOut")
  /\ UNCHANGED <<coreVars, sequence, request, cancelled>>

Cancellation(id) == Fido("CancelConfirmation", id, 0)

\* confirmation_cancel() waits for room in the command queue, however long that takes.
CancelTimedOut ==
  /\ fpc = "cancel" /\ Enqueue(Cancellation(request.id)) /\ Return("TimedOut")
  /\ UNCHANGED <<ready, resVars, execVars, runtimeVars, consented, confVars, walletChan,
                 sequence, request, cancelled>>

\* fido2_up_cancel(): the request may end, or be submitted, between the read and the cancel.
UpCancel ==
  /\ cancelled = 0 /\ activeReq # 0
  /\ cancelled' = activeReq
  /\ UNCHANGED <<coreVars, sequence, activeReq, fpc, request, reply>>

UpCancelSubmit ==
  /\ cancelled # 0 /\ Enqueue(Cancellation(cancelled))
  /\ cancelled' = 0
  /\ UNCHANGED <<ready, resVars, execVars, runtimeVars, consented, confVars, walletChan,
                 sequence, activeReq, fpc, request, reply>>

FidoClient == Submit \/ Skip \/ Answer \/ TimeOut \/ CancelTimedOut

FidoStep == (\E kind \in Kinds : Begin(kind)) \/ FidoClient \/ UpCancel \/ UpCancelSubmit

FidoStart ==
  /\ sequence = 0 /\ activeReq = 0 /\ fpc = "idle" /\ request = NoRequest
  /\ reply = [kind |-> "none", id |-> 0, out |-> "none"] /\ cancelled = 0
=============================================================================
