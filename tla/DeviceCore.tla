----------------------------- MODULE DeviceCore -----------------------------
(***************************************************************************)
(* The device under its touch UI: the start-up of main.c and boot.c, the   *)
(* reset of app.c, flash and secure element (Platform), and the core       *)
(* thread that serves the local user.  Power may fail in every state.      *)
(*                                                                         *)
(* The wallet runtime is a library outside this repository; React gives    *)
(* what this code can observe of it.  How commands, results and            *)
(* confirmations travel is the subject of WalletCore and Display: here a   *)
(* command is served in one step, and its result and the new wallet state  *)
(* are routed in either order after it.                                    *)
(***************************************************************************)
EXTENDS Platform, UiController

CONSTANTS Builds,            \* subset of BOOLEAN: with (TRUE) or without the secure element
          QueueDepth,        \* bound on the commands and on the results of the local user
          MaxConfirmations   \* bound on the confirmations asked for between two resets

ASSUME DeviceAssumption ==
  Builds \subseteq BOOLEAN /\ QueueDepth \in Nat \ {0} /\ MaxConfirmations \in Nat

VARIABLES
  main,     \* how far main() has come
  nxp,      \* app_nxp_enabled()
  store,    \* the flash store (Storage)
  se,       \* the secure element (Platform)
  credit,   \* the request for an update in flash has not been honoured yet (history)
  core,     \* core thread and runtime: see CoreOff
  channel,  \* app_confirmation_state_chan
  cmdq, localq,        \* commands of the local user; results for the UI
  ui,       \* struct ui_context (Ui)
  timer,    \* startup_timer
  events, work, next   \* pending_events, the set the event thread took, the confirmation it read

memory   == <<nxp, store, se, credit>>
coreVars == <<core, channel, cmdq, localq>>
uiVars   == <<ui, timer, events, work, next>>
vars     == <<main, memory, coreVars, uiVars>>

-----------------------------------------------------------------------------
(* Reset: what survives is the flash, the element and nothing else.        *)

\* pending: id of the pending confirmation; prepared: its key is available; due: the result not
\* routed yet; erasing: where app_storage_reset() is.
CoreOff == [wallet |-> "Disabled", walletChan |-> "Disabled", pending |-> 0, prepared |-> TRUE,
            asked |-> 0, due |-> "none", erasing |-> "no"]
NoConfirmation == [id |-> 0, phase |-> "IDLE"]

DeviceStart ==
  /\ main = "storage" /\ nxp \in Builds /\ credit = FALSE
  \* A build with the secure element may find the seed of a firmware that had none.
  /\ \E seed \in IF nxp THEN {"none", "pin"} ELSE {"none"} :
       store = [flash |-> [EmptyFlash EXCEPT !["seed"] = seed],
                fs |-> FALSE, ready |-> FALSE, chan |-> "INITIALIZING"]
  /\ se = [chip |-> "none", scanned |-> FALSE, report |-> "UNAVAILABLE"]
  /\ core = CoreOff /\ channel = NoConfirmation /\ cmdq = <<>> /\ localq = <<>>
  /\ ui = UiStart("Disabled", "INITIALIZING") /\ timer = FALSE
  /\ events = {} /\ work = {} /\ next = NoConfirmation

\* sys_reboot(), or the power is lost, with s and e in flash and element.
Rebooted(s, e) ==
  /\ main' = "storage" /\ store' = PoweredOff(s) /\ se' = ElementOff(e)
  /\ core' = CoreOff /\ channel' = NoConfirmation /\ cmdq' = <<>> /\ localq' = <<>>
  /\ ui' = UiStart("Disabled", "INITIALIZING") /\ timer' = FALSE
  /\ events' = {} /\ work' = {} /\ next' = NoConfirmation
Reset(s, e) == Rebooted(s, e) /\ credit' = (credit /\ Holds(s, "update")) /\ UNCHANGED nxp

PowerLoss == main # "storage" /\ Reset(store, se)

-----------------------------------------------------------------------------
(* ui_bus_changed(): the listeners of the channels.                        *)

StorageEvent == IF store'.chan # store.chan THEN {"STATUS"} ELSE {}
WalletEvent  == IF core'.walletChan # core.walletChan THEN {"STATUS"} ELSE {}
Notify(more) == events' = events \cup StorageEvent \cup WalletEvent \cup more

-----------------------------------------------------------------------------
(* main()                                                                  *)

StorageStart ==
  /\ main = "storage" /\ main' = "take"
  /\ \E o \in StorageInit(store) : store' = o.store
  /\ UNCHANGED core /\ Notify({})
  /\ UNCHANGED <<nxp, se, credit, channel, cmdq, localq, ui, timer, work, next>>

EnterUpdate(s) == main' = "update" /\ credit' = FALSE /\ store' = s
NoUpdate(s)    == main' = "load" /\ credit' = (credit /\ Holds(s, "update")) /\ store' = s

\* Faulty variant: update mode is entered although the request could not be deleted.
UpdateModeTakeAnyway ==
  /\ main = "take"
  /\ \E read \in Read(store, "update") :
       IF read.ret <= 0 THEN NoUpdate(read.store)
       ELSE \E deleted \in Delete(read.store, "update") : EnterUpdate(deleted.store)
  /\ UNCHANGED core /\ Notify({})
  /\ UNCHANGED <<nxp, se, channel, cmdq, localq, ui, timer, work, next>>

\* app_update_mode_take(): the request is deleted before it is honoured.
UpdateModeTake ==
  /\ main = "take"
  /\ \E read \in Read(store, "update") :
       IF read.ret <= 0 THEN NoUpdate(read.store)
       ELSE \E deleted \in Delete(read.store, "update") :
              IF deleted.ret = 0 THEN EnterUpdate(deleted.store) ELSE NoUpdate(deleted.store)
  /\ UNCHANGED core /\ Notify({})
  /\ UNCHANGED <<nxp, se, channel, cmdq, localq, ui, timer, work, next>>

LoadSettings ==
  /\ main = "load" /\ main' = "core"
  /\ IF store.ready THEN \E o \in SettingsLoad(store) : store' = o.store ELSE UNCHANGED store
  /\ UNCHANGED core /\ Notify({})
  /\ UNCHANGED <<nxp, se, credit, channel, cmdq, localq, ui, timer, work, next>>

\* app_core_create_rs(): the runtime is locked when a seed exists, disabled when nobody can tell.
Classified(ret) == CASE ret < 0 -> "Disabled" [] ret = 0 -> "Setup" [] OTHER -> "Locked"

\* app_core_init()
CoreInit ==
  /\ main = "core" /\ main' = "display"
  /\ \E f \in SeedExists(nxp, store, se) :
       /\ store' = f.store /\ se' = f.se
       /\ core' = [core EXCEPT !.wallet = Classified(f.ret), !.walletChan = Classified(f.ret)]
  /\ Notify({})
  /\ UNCHANGED <<nxp, credit, channel, cmdq, localq, ui, timer, work, next>>

\* What a page reads while it is drawn.
X(legacyClear) == [nxp |-> nxp, legacyClear |-> legacyClear, report |-> se.report,
                   prepared |-> core.prepared, copy |-> core.pending]

\* app_init_display(), ui_controller_init(): what was published before it is still pending.
DisplayInit ==
  /\ main = "display" /\ main' = "run"
  /\ \E t \in BOOLEAN :
       timer' = t /\ ui' = ControllerInit(X(FALSE), core.walletChan, store.chan, t)
  /\ UNCHANGED <<memory, coreVars, events, work, next>>

-----------------------------------------------------------------------------
(* The core thread.                                                        *)

Published(c) == IF c.pending # 0 THEN "Busy" ELSE c.wallet
CoreFree == main = "run" /\ core.due = "none" /\ core.erasing = "no" /\ core.walletChan = Published(core)

\* The confirmation effects of a command are routed with it: the copy first, then the channel.
Announce(c) ==
  LET asks  == c.pending # 0 /\ (c.pending # core.pending \/ c.prepared # core.prepared)
      ended == core.pending # 0 /\ c.pending = 0
  IN  /\ core' = c
      /\ channel' = IF asks THEN [id |-> c.pending, phase |-> "REQUIRED"]
                    ELSE IF ended THEN [id |-> core.pending, phase |-> "COMPLETED"] ELSE channel
      /\ Notify(IF asks \/ ended THEN {"CONFIRMATION"} ELSE {})

Ended(c) == [c EXCEPT !.pending = 0, !.prepared = TRUE]
Reacts(s, e, c, result) == [store |-> s, se |-> e, core |-> [c EXCEPT !.due = result]]
Same(result) == Reacts(store, se, core, result)
Became(f, wallet, result) == Reacts(f.store, f.se, [core EXCEPT !.wallet = wallet], result)

\* The answer to a confirmation: a key that was withheld may be asked for once more.
Decided(r) ==
  IF core.pending = 0 \/ core.pending # r.id THEN {Same("none")}
  ELSE {Reacts(store, se, Ended(core), "none")}
       \cup (IF r.req = "Approve" /\ ~core.prepared
             THEN {Reacts(store, se, [core EXCEPT !.prepared = TRUE], "none")} ELSE {})

\* What an idle runtime makes of a request, as far as ui.c and platform.rs can see it.  It may
\* refuse what it is asked, and it is not relied on to refuse an empty PIN.
Granted(r) ==
  CASE r.req = "InitCustom" /\ core.wallet = "Setup" ->
         {Same("Error")} \cup {IF f.ok THEN Became(f, "Ready", "Ready") ELSE Became(f, core.wallet, "Error")
                               : f \in InitializeSeed(nxp, store, se, r.arg)}
    [] r.req = "Unlock" /\ core.wallet \in {"Locked", "Ready"} ->
         UNION {IF f.ok THEN {Became(f, "Ready", "Ready")}
                ELSE {Became(f, w, "Error") : w \in {core.wallet, "Locked"}}
                : f \in UnlockSeed(nxp, store, se, r.arg = "good")}
    [] r.req = "Refresh" ->
         {IF f.ok THEN Became(f, IF f.se.report = "READY" THEN "Locked" ELSE "Setup", "Updated")
          ELSE Became(f, "Disabled", "Error") : f \in RefreshSeed(nxp, store, se)}
    [] r.req \in {"Generate", "Custom", "Mixed"} -> {Same("Mnemonic"), Same("Error")}
    [] OTHER -> {Same("Error")}

\* A lock ends the pending confirmation; anything else has to wait for its answer.
React(r) ==
  IF r.req \in {"Approve", "Reject"} THEN Decided(r)
  ELSE IF r.req = "Lock" THEN {Reacts(store, se, [Ended(core) EXCEPT !.wallet = "Locked"], "Updated")}
  ELSE IF core.pending # 0 THEN {Same("Error")} ELSE Granted(r)

\* execute()
Serve ==
  /\ CoreFree /\ cmdq # <<>> /\ Head(cmdq).req \notin {"Restart", "ResetStorage"}
  /\ cmdq' = Tail(cmdq)
  /\ \E r \in React(Head(cmdq)) : store' = r.store /\ se' = r.se /\ Announce(r.core)
  /\ UNCHANGED <<main, nxp, credit, localq, ui, timer, work, next>>

\* LocalRequest Restart
Restart == CoreFree /\ cmdq # <<>> /\ Head(cmdq).req = "Restart" /\ Reset(store, se)

\* app_storage_reset(): the secure element first, where there is one.
BeginReset ==
  /\ CoreFree /\ cmdq # <<>> /\ Head(cmdq).req = "ResetStorage"
  /\ cmdq' = Tail(cmdq)
  /\ core' = IF core.pending # 0 THEN [core EXCEPT !.due = "Error"]
             ELSE [core EXCEPT !.erasing = IF nxp THEN "element" ELSE "flash"]
  /\ UNCHANGED <<main, memory, channel, localq, uiVars>>

\* Faulty variant: the answer of the secure element is not looked at.
EraseElementAnyway ==
  /\ core.erasing = "element"
  /\ \E a \in NxpErase(se) : se' = a.se
  /\ core' = [core EXCEPT !.erasing = "flash"]
  /\ UNCHANGED <<main, nxp, store, credit, channel, cmdq, localq, uiVars>>

EraseElement ==
  /\ core.erasing = "element"
  /\ \E a \in NxpErase(se) :
       /\ se' = a.se
       /\ core' = IF a.ok THEN [core EXCEPT !.erasing = "flash"]
                  ELSE [core EXCEPT !.erasing = "no", !.due = "Error"]
  /\ UNCHANGED <<main, nxp, store, credit, channel, cmdq, localq, uiVars>>

EraseStore ==
  /\ core.erasing = "flash"
  /\ \E o \in EraseFlash(store) :
       IF o.ret = 0 THEN Reset(o.store, se)
       ELSE /\ store' = o.store
            /\ core' = [core EXCEPT !.erasing = "no", !.due = "Error"]
            /\ Notify({})
            /\ UNCHANGED <<main, nxp, se, credit, channel, cmdq, localq, ui, timer, work, next>>

\* app_local_result_submit(): lost when the UI has not made room in time.
RouteResult ==
  /\ core.due # "none" /\ core' = [core EXCEPT !.due = "none"]
  /\ IF Len(localq) < QueueDepth
     THEN localq' = Append(localq, core.due) /\ events' = events \cup {"LOCAL_RESULT"}
     ELSE UNCHANGED <<localq, events>>
  /\ UNCHANGED <<main, memory, channel, cmdq, ui, timer, work, next>>

\* publish_wallet_state()
PublishWallet ==
  /\ core.walletChan # Published(core) /\ main = "run"
  /\ core' = [core EXCEPT !.walletChan = Published(core)]
  /\ UNCHANGED store /\ Notify({})
  /\ UNCHANGED <<main, nxp, se, credit, channel, cmdq, localq, ui, timer, work, next>>

-----------------------------------------------------------------------------
(* Hosts, and the button.                                                  *)

\* A host asks for a signature.
Ask ==
  /\ CoreFree /\ core.wallet = "Ready" /\ core.pending = 0 /\ core.asked < MaxConfirmations
  /\ UNCHANGED store
  /\ \E p \in BOOLEAN :
       Announce([core EXCEPT !.pending = core.asked + 1, !.asked = @ + 1, !.prepared = p])
  /\ UNCHANGED <<main, nxp, se, credit, cmdq, localq, ui, timer, work, next>>

\* The button decides, or the host gives up.
Settle ==
  /\ CoreFree /\ core.pending # 0 /\ UNCHANGED store /\ Announce(Ended(core))
  /\ UNCHANGED <<main, nxp, se, credit, cmdq, localq, ui, timer, work, next>>

\* A host asks for the status, which looks for a seed.
Probe ==
  /\ CoreFree
  /\ \E f \in SeedExists(nxp, store, se) : store' = f.store /\ se' = f.se
  /\ UNCHANGED core /\ Notify({})
  /\ UNCHANGED <<main, nxp, credit, channel, cmdq, localq, ui, timer, work, next>>

\* app_update_request(): once the request is written, the device reboots.
UpdateRequest ==
  /\ CoreFree /\ store.ready
  /\ \E o \in Write(store, "update", "set") :
       /\ credit' = (credit \/ Holds(o.store, "update"))
       /\ IF o.ret = 0 THEN Rebooted(o.store, se)
          ELSE /\ store' = o.store
               /\ UNCHANGED core /\ Notify({})
               /\ UNCHANGED <<main, se, channel, cmdq, localq, ui, timer, work, next>>
  /\ UNCHANGED nxp

CoreStep == \/ Serve \/ Restart \/ BeginReset \/ EraseElement \/ EraseStore
            \/ RouteResult \/ PublishWallet \/ Ask \/ Settle \/ Probe \/ UpdateRequest
=============================================================================
