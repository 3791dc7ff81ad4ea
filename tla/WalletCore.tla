----------------------------- MODULE WalletCore -----------------------------
(***************************************************************************)
(* The command and result bus (src/bus.c) and the core thread (src/core.c, *)
(* src/rs/ffi.rs).  Clients put commands with fragment payloads from one   *)
(* fixed pool into one queue; the core thread executes them one at a time  *)
(* on the wallet runtime and routes the effects it returns: results into   *)
(* two bounded queues that share a second pool, the pending confirmation   *)
(* as a locked snapshot and a published channel state.                     *)
(*                                                                         *)
(* The runtime is a library outside this repository: Handle gives what     *)
(* ffi.rs can observe of it.  Payload bytes are abstracted to a number of  *)
(* fragments; protocol answers change no state here and are left out.      *)
(***************************************************************************)
EXTENDS Integers, Sequences

CONSTANTS QueueDepth,        \* APP_BUS_QUEUE_DEPTH, of each of the three queues
          PoolSize,          \* CONFIG_OSKEY_BUS_PAYLOAD_COUNT, of each of the two pools
          MaxConfirmations   \* bound on the confirmations the runtime asks for

ASSUME CoreAssumption ==
  QueueDepth \in Nat \ {0} /\ PoolSize \in Nat \ {0} /\ MaxConfirmations \in Nat

VARIABLES
  ready,         \* core_ready
  cmdq, cmdFree, \* command queue, free fragments of its pool
  fidoq, localq, resFree, \* result queues, free fragments of their pool
  corePc,        \* "wait", "execute", "drain", "publish" or "clear"
  command,       \* command being executed
  effects,       \* effects of the runtime not routed yet; the first one is current
  reject,        \* confirmation that could not be shown, 0 if none
  pending,       \* confirmation the runtime waits for
  asked,         \* confirmations the runtime has asked for: [fido, outcome]
  consented,     \* confirmations the user has approved on the device (history)
  channel,       \* app_confirmation_state_chan
  snapshot,      \* id of the locked copy the UI reads, 0 when it is wiped
  activeConf,    \* active_confirmation of the button (gpio.c)
  walletChan     \* app_wallet_state_chan

busVars  == <<cmdq, cmdFree>>
resVars  == <<fidoq, localq, resFree>>
execVars == <<corePc, command, effects, reject>>
confVars == <<channel, snapshot, activeConf>>
runtimeVars == <<pending, asked>>
coreVars == <<ready, busVars, resVars, execVars, runtimeVars, consented, confVars, walletChan>>

NoConf == [id |-> 0, fido |-> 0, fits |-> TRUE]
NoCommand == [kind |-> "none", req |-> "none", id |-> 0, frags |-> 0]
NoChannel == [id |-> 0, phase |-> "IDLE"]

Fragments(q) == LET sum[i \in 0..Len(q)] == IF i = 0 THEN 0 ELSE sum[i - 1] + q[i].frags
                IN  sum[Len(q)]

Fido(req, id, frags) == [kind |-> "Fido", req |-> req, id |-> id, frags |-> frags]
Confirm(choice, id)  == [kind |-> "Confirm", req |-> choice, id |-> id, frags |-> 0]
Local(req, frags)    == [kind |-> "Local", req |-> req, id |-> 0, frags |-> frags]
Protocol(frags)      == [kind |-> "Protocol", req |-> "none", id |-> 0, frags |-> frags]

-----------------------------------------------------------------------------
(* bus.c: app_core_submit_*.  A refused command gives its payload back.    *)

HasRoom(c) == ready /\ c.frags <= cmdFree /\ Len(cmdq) < QueueDepth

Enqueue(c) ==
  /\ HasRoom(c)
  /\ cmdq' = Append(cmdq, c)
  /\ cmdFree' = cmdFree - c.frags

\* Faulty variant: a full queue refuses the command but keeps its payload.
RefusedLeaking(c) ==
  /\ ~HasRoom(c)
  /\ cmdFree' = IF ready /\ c.frags <= cmdFree THEN cmdFree - c.frags ELSE cmdFree
  /\ UNCHANGED cmdq

\* -ENOTSUP, -ENOMEM or -EAGAIN: queue_put() releases what payload_create() allocated.
Refused(c) == ~HasRoom(c) /\ UNCHANGED busVars

-----------------------------------------------------------------------------
(* The wallet runtime, as its caller sees it.                              *)

Effect(type, id, what, frags) == [type |-> type, id |-> id, what |-> what, frags |-> frags]
Required(id)       == Effect("Required", id, "none", 0)
Completed(id, out) == Effect("Completed", id, out, 0)
State(s)           == Effect("State", 0, s, 0)
LocalResult        == Effect("Local", 0, "none", 1)

\* What the runtime does with a command: its pending confirmation, how it settled the one it
\* had ("none": it did not), and the effects it wants routed.
Reaction(p, outcome, es) == [pending |-> p, outcome |-> outcome, effects |-> es]
Keep(es) == Reaction(pending, "none", es)

\* A confirmation for FIDO request r (0: for a protocol request); it may not fit the copy.
CanAsk == pending = NoConf /\ Len(asked) < MaxConfirmations
Ask(r) == LET id == Len(asked) + 1
          IN  { Reaction([id |-> id, fido |-> r, fits |-> f], "none",
                         <<Required(id), State("Busy")>>) : f \in BOOLEAN }

\* The pending confirmation ends; a FIDO request is told.
End(outcome) ==
  Reaction(NoConf, outcome,
    <<Completed(pending.id, outcome)>>
    \o (IF pending.fido = 0 THEN <<>>
        ELSE <<Effect("Fido", pending.fido, IF outcome = "Approved" THEN "Success" ELSE "Cancelled", 0)>>)
    \o <<State("Ready")>>)

Handle(c) ==
  CASE c.kind = "Fido" /\ c.req = "Confirm" ->
         IF CanAsk THEN Ask(c.id) ELSE {Keep(<<Effect("Fido", c.id, "Failed", 0)>>)}
    [] c.kind = "Fido" /\ c.req = "CancelConfirmation" ->
         {IF pending # NoConf /\ pending.fido = c.id THEN End("Cancelled") ELSE Keep(<<>>)}
    [] c.kind = "Fido" /\ c.req = "Register" ->
         {Keep(<<Effect("Fido", c.id, "Success", 1)>>), Keep(<<Effect("Fido", c.id, "Failed", 0)>>)}
    [] c.kind = "Confirm" ->
         {IF pending # NoConf /\ pending.id = c.id
          THEN End(IF c.req = "Approve" THEN "Approved" ELSE "Rejected") ELSE Keep(<<>>)}
    [] c.kind = "Local" ->
         {IF c.req = "Lock" /\ pending # NoConf
          THEN LET e == End("Cancelled") IN [e EXCEPT !.effects = @ \o <<LocalResult>>]
          ELSE Keep(<<LocalResult>>)}
    [] OTHER -> {Keep(<<>>)} \cup (IF CanAsk THEN Ask(0) ELSE {})

-----------------------------------------------------------------------------
(* core.c: the core thread.                                                *)

\* app_core_init(): publish the wallet state, start the thread, accept commands.
CoreInit ==
  /\ ~ready
  /\ ready' = TRUE /\ walletChan' = "Ready"
  /\ UNCHANGED <<busVars, resVars, execVars, runtimeVars, consented, confVars>>

CommandGet ==
  /\ ready /\ corePc = "wait" /\ cmdq # <<>>
  /\ command' = Head(cmdq) /\ cmdq' = Tail(cmdq)
  /\ corePc' = "execute"
  /\ UNCHANGED <<ready, cmdFree, resVars, effects, reject, runtimeVars, consented, confVars, walletChan>>

\* app_core_execute_rs() takes a command only when every effect of the last one was routed;
\* the payload is released either way.  The reject of an unshown confirmation comes here too.
Execute ==
  /\ corePc = "execute"
  /\ effects = <<>>
  /\ \E h \in Handle(command) :
       /\ pending' = h.pending /\ effects' = h.effects
       /\ asked' = IF h.outcome # "none" THEN [asked EXCEPT ![pending.id].outcome = h.outcome]
                   ELSE IF h.pending # pending
                   THEN Append(asked, [fido |-> h.pending.fido, outcome |-> "none"])
                   ELSE asked
  /\ cmdFree' = cmdFree + command.frags
  /\ command' = NoCommand /\ reject' = 0
  /\ corePc' = "drain"
  /\ UNCHANGED <<ready, cmdq, resVars, consented, confVars, walletChan>>

NextEffect(pc) == effects' = Tail(effects) /\ corePc' = pc

\* drain_effects() is over: go on with the reject of a confirmation nobody could see.
Drained ==
  /\ corePc = "drain" /\ effects = <<>>
  /\ IF reject # 0 THEN command' = Confirm("Reject", reject) /\ corePc' = "execute"
                   ELSE command' = NoCommand /\ corePc' = "wait"
  /\ UNCHANGED <<ready, busVars, resVars, effects, reject, runtimeVars, consented, confVars, walletChan>>

ResultRoom(q, e) == e.frags <= resFree /\ Len(q) < QueueDepth
Result(e) == [id |-> e.id, status |-> e.what, frags |-> e.frags]

\* app_fido_result_submit(), app_local_result_submit(): after 100 ms without room it is lost.
RouteResult ==
  /\ corePc = "drain" /\ effects # <<>>
  /\ LET e == Head(effects)
     IN  \/ /\ e.type = "Fido" /\ ResultRoom(fidoq, e)
            /\ fidoq' = Append(fidoq, Result(e)) /\ resFree' = resFree - e.frags
            /\ UNCHANGED localq
         \/ /\ e.type = "Local" /\ ResultRoom(localq, e)
            /\ localq' = Append(localq, Result(e)) /\ resFree' = resFree - e.frags
            /\ UNCHANGED fidoq
         \/ /\ \/ e.type = "Fido" /\ ~ResultRoom(fidoq, e)
               \/ e.type = "Local" /\ ~ResultRoom(localq, e)
            /\ UNCHANGED resVars
  /\ NextEffect("drain")
  /\ UNCHANGED <<ready, busVars, command, reject, runtimeVars, consented, confVars, walletChan>>

RouteState ==
  /\ corePc = "drain" /\ effects # <<>> /\ Head(effects).type = "State"
  /\ walletChan' = Head(effects).what
  /\ NextEffect("drain")
  /\ UNCHANGED <<ready, busVars, resVars, command, reject, runtimeVars, consented, confVars>>

\* Faulty variant: a confirmation that cannot be copied is logged and forgotten.
StoreForgetting ==
  /\ corePc = "drain" /\ effects # <<>> /\ Head(effects).type = "Required"
  /\ LET id == Head(effects).id
     IN  IF pending.id = id /\ pending.fits
         THEN snapshot' = id /\ corePc' = "publish" /\ UNCHANGED effects
         ELSE snapshot' = 0 /\ NextEffect("drain")
  /\ UNCHANGED <<ready, busVars, resVars, command, reject, runtimeVars, consented, channel, activeConf, walletChan>>

\* confirmation_store(): the copy is taken under the lock; what does not fit is rejected later.
Store ==
  /\ corePc = "drain" /\ effects # <<>> /\ Head(effects).type = "Required"
  /\ LET id == Head(effects).id
     IN  IF pending.id = id /\ pending.fits
         THEN snapshot' = id /\ corePc' = "publish" /\ UNCHANGED <<effects, reject>>
         ELSE snapshot' = 0 /\ reject' = id /\ NextEffect("drain")
  /\ UNCHANGED <<ready, busVars, resVars, command, runtimeVars, consented, channel, activeConf, walletChan>>

\* confirmation_changed() of gpio.c: a listener, run inside zbus_chan_pub().
ButtonListener(c) ==
  activeConf' = IF c.phase = "REQUIRED" THEN c.id
                ELSE IF c.phase = "IDLE" \/ activeConf = c.id THEN 0 ELSE activeConf

Publish(c) == channel' = c /\ ButtonListener(c)

PublishRequired ==
  /\ corePc = "publish"
  /\ Publish([id |-> Head(effects).id, phase |-> "REQUIRED"])
  /\ NextEffect("drain")
  /\ UNCHANGED <<ready, busVars, resVars, command, reject, runtimeVars, consented, snapshot, walletChan>>

PublishCompleted ==
  /\ corePc = "drain" /\ effects # <<>> /\ Head(effects).type = "Completed"
  /\ Publish([id |-> Head(effects).id, phase |-> "COMPLETED"])
  /\ corePc' = "clear"
  /\ UNCHANGED <<ready, busVars, resVars, command, effects, reject, runtimeVars, consented, snapshot, walletChan>>

\* confirmation_clear(): only the copy of this confirmation is wiped.
Clear ==
  /\ corePc = "clear"
  /\ snapshot' = IF snapshot = Head(effects).id THEN 0 ELSE snapshot
  /\ NextEffect("drain")
  /\ UNCHANGED <<ready, busVars, resVars, command, reject, runtimeVars, consented, channel, activeConf, walletChan>>

CoreStep ==
  \/ CommandGet \/ Execute \/ Drained \/ RouteResult \/ RouteState \/ Store
  \/ PublishRequired \/ PublishCompleted \/ Clear

CoreStart ==
  /\ ready = FALSE
  /\ cmdq = <<>> /\ cmdFree = PoolSize /\ fidoq = <<>> /\ localq = <<>> /\ resFree = PoolSize
  /\ corePc = "wait" /\ command = NoCommand /\ effects = <<>> /\ reject = 0
  /\ pending = NoConf /\ asked = <<>> /\ consented = {}
  /\ channel = NoChannel /\ snapshot = 0 /\ activeConf = 0 /\ walletChan = "Setup"
=============================================================================
