------------------------------- MODULE Wallet -------------------------------
(***************************************************************************)
(* The wallet firmware's core thread with its clients: the transports, the *)
(* FIDO2 service, the user button and the touch UI.  Every client is a     *)
(* thread, a work item or an interrupt of its own; they share the command  *)
(* queue, the two payload pools, the result queues and the confirmation.   *)
(***************************************************************************)
EXTENDS Fido2, Button, Display, FiniteSets

CONSTANTS HasDisplay,    \* CONFIG_OSKEY_DISPLAY
          HasButton,     \* the board has an sw0 button
          HasTransport   \* UART or Bluetooth carries protocol requests

ASSUME WalletAssumption == {HasDisplay, HasButton, HasTransport} \subseteq BOOLEAN

vars == <<coreVars, fidoVars, buttonVars, uiVars>>

Init == CoreStart /\ FidoStart /\ ButtonStart /\ UiStart

\* A protocol chunk of a transport, refused or not (app_core_submit_protocol).
Chunk ==
  /\ HasTransport /\ (Enqueue(Protocol(1)) \/ Refused(Protocol(1)))
  /\ UNCHANGED <<ready, resVars, execVars, runtimeVars, consented, confVars, walletChan>>

\* Publications of the core thread run the UI's listener before they return.
Core ==
  /\ CoreInit \/ CoreStep
  /\ IF HasDisplay THEN Notice ELSE UNCHANGED <<events, sem>>
  /\ UNCHANGED <<fidoVars, buttonVars, uiInit, initial, uiPc, work, next, confirmation, busy>>

Fido2Service == FidoStep /\ UNCHANGED <<buttonVars, uiVars>>
UserButton   == HasButton /\ ButtonStep /\ UNCHANGED <<fidoVars, uiVars>>
TouchUi      == HasDisplay /\ UiStep /\ UNCHANGED <<fidoVars, buttonVars>>
Transport    == Chunk /\ UNCHANGED <<fidoVars, buttonVars, uiVars>>

Next == Core \/ Fido2Service \/ UserButton \/ TouchUi \/ Transport

\* The scheduler runs every ready thread; nobody has to touch the device or send anything.  A
\* thread that waits in k_msgq_put() gets the next free slot before any later caller.
Fairness ==
  /\ WF_vars(Core)
  /\ WF_vars(FidoClient /\ UNCHANGED <<buttonVars, uiVars>>)
  /\ SF_vars(CancelTimedOut /\ UNCHANGED <<buttonVars, uiVars>>)
  /\ SF_vars(UpCancelSubmit /\ UNCHANGED <<buttonVars, uiVars>>)
  /\ WF_vars(HasButton /\ ButtonWork /\ UNCHANGED <<fidoVars, uiVars>>)
  /\ WF_vars(HasDisplay /\ UiStarting /\ UNCHANGED <<fidoVars, buttonVars>>)
  /\ WF_vars(HasDisplay /\ UiThread /\ UNCHANGED <<fidoVars, buttonVars>>)

Spec == Init /\ [][Next]_vars /\ Fairness

-----------------------------------------------------------------------------
(* Safety                                                                  *)

ConfIds == 0..MaxConfirmations
ReqIds  == 0..MaxRequests
Sizes   == 0..1

CommandType ==
  [kind : {"none", "Fido", "Confirm", "Local", "Protocol"},
   req : {"none", "Confirm", "Register", "CancelConfirmation", "Approve", "Reject", "Lock", "Unlock"},
   id : Nat, frags : Sizes]
EffectType ==
  [type : {"Required", "Completed", "Fido", "Local", "State"}, id : Nat,
   what : {"none", "Approved", "Rejected", "Cancelled", "Success", "Failed", "Busy", "Ready"},
   frags : Sizes]
ResultType == [id : ReqIds, status : {"none", "Success", "Cancelled", "Failed"}, frags : Sizes]

\* Every fragment of the two pools (src/bus.c:87,93) is free, in a queued message or, for
\* commands, in the one the core thread holds: none is lost on an error path or given back twice.
PayloadsAccounted ==
  /\ cmdFree + Fragments(cmdq) + command.frags = PoolSize
  /\ resFree + Fragments(fidoq) + Fragments(localq) = PoolSize

\* The type invariant of the bus, the core thread and its clients, with the account of the pools.
TypeOK ==
  /\ ready \in BOOLEAN /\ walletChan \in {"Setup", "Ready", "Busy"}
  /\ cmdq \in Seq(CommandType) /\ Len(cmdq) <= QueueDepth /\ cmdFree \in 0..PoolSize
  /\ fidoq \in Seq(ResultType) /\ Len(fidoq) <= QueueDepth
  /\ localq \in Seq(ResultType) /\ Len(localq) <= QueueDepth /\ resFree \in 0..PoolSize
  /\ corePc \in {"wait", "execute", "drain", "publish", "clear"}
  /\ command \in CommandType /\ effects \in Seq(EffectType) /\ reject \in ConfIds
  /\ pending \in [id : ConfIds, fido : ReqIds, fits : BOOLEAN]
  /\ asked \in Seq([fido : ReqIds, outcome : {"none", "Approved", "Rejected", "Cancelled"}])
  /\ consented \subseteq ConfIds
  /\ channel \in [id : ConfIds, phase : {"IDLE", "REQUIRED", "COMPLETED"}]
  /\ snapshot \in ConfIds /\ activeConf \in ConfIds
  /\ {sequence, activeReq, request.id, cancelled} \subseteq ReqIds
  /\ fpc \in {"idle", "submit", "await", "cancel"}
  /\ {pressed, approving, confirmation} \subseteq ConfIds
  /\ uiPc \in {"wait", "scan", "local", "confirm", "apply"} /\ {sem, busy} \subseteq BOOLEAN
  /\ PayloadsAccounted

\* Between two commands the three copies of "a confirmation is open" agree with the runtime
\* (src/core.c:114-134): what it waits for is published, can be read and can be approved by the
\* button; when it waits for nothing, all three are gone.  A confirmation that could not be
\* copied has been rejected by then, so the runtime never waits for one that nobody can see.
ConfirmationCoherent ==
  corePc = "wait" =>
    /\ snapshot = pending.id /\ activeConf = pending.id
    /\ IF pending = NoConf THEN channel.phase # "REQUIRED"
                           ELSE channel = [id |-> pending.id, phase |-> "REQUIRED"]

\* No confirmation is settled as approved unless the user approved that very confirmation, with
\* the button while it was active or on the page that showed it; a press that is submitted late
\* never approves the next one (src/gpio.c:44-66, src/display/ui_confirmation.c:24-31).
ApprovalIsConsent ==
  \A i \in DOMAIN asked : asked[i].outcome = "Approved" => i \in consented

\* fido2_up_wait() reports user presence only for a confirmation of its own request that the
\* user approved, whatever stale results of earlier requests it met (src/usb/fido2.c:107-143).
PresenceIsReal ==
  reply.kind = "Confirm" /\ reply.out = "Success" =>
    \E i \in consented : asked[i].fido = reply.id /\ asked[i].outcome = "Approved"

\* The present FIDO2 request was told of the user's presence (src/usb/fido2.c:107-143).
Present == IF reply.kind = "Confirm" /\ reply.out = "Success" THEN reply.id ELSE 0

Promise == INSTANCE Consent WITH
  Requests <- ReqIds, open <- pending.id, approved <- consented, present <- Present

\* The wallet implements the contract with its user: queues, late results, cancellations and
\* presses in flight change nothing about who is asked, what is approved and what is reported.
ImplementsConsent == Promise!Promised

-----------------------------------------------------------------------------
(* Liveness                                                                *)

\* The request slot is given back whatever becomes of the request, so that FIDO2 is not busy
\* for ever (src/usb/fido2.c:90-160).
RequestEnds == activeReq # 0 ~> activeReq = 0

\* When the CTAP thread has given a request up, the device stops asking the user about it
\* (src/usb/fido2.c:154-158).
GivenUpIsForgotten ==
  \A r \in 1..MaxRequests :
    (pending.fido = r /\ activeReq # r) ~> pending.fido # r

\* A confirmation the core waits for gets on the screen, whatever events the UI was woken for
\* or missed, and even when it was asked for before the UI was started
\* (src/display/ui_controller.c:434-541).
ConfirmationGetsShown ==
  \A i \in 1..MaxConfirmations :
    channel = [id |-> i, phase |-> "REQUIRED"] ~> (confirmation = i \/ channel.id # i
                                                    \/ channel.phase # "REQUIRED")

\* The busy overlay goes away: a choice or a local request that the bus accepted is answered
\* by an event (src/display/ui_confirmation.c:24-31, src/display/ui.c:628-644).
OverlayGoesAway == busy ~> ~busy
=============================================================================
