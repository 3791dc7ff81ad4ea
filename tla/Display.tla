------------------------------- MODULE Display -------------------------------
(***************************************************************************)
(* The touch UI as a client of the core (src/display/ui_controller.c,      *)
(* ui_confirmation.c, ui_submit() of ui.c).  A listener that runs inside   *)
(* the publisher only marks what changed and gives a semaphore; the event  *)
(* thread takes the marks under the LVGL lock and re-reads the channel, so *)
(* it may see a newer state than the one it was woken for.  While the busy *)
(* overlay is shown the user can touch nothing.                            *)
(***************************************************************************)
EXTENDS WalletCore

VARIABLES
  uiInit,        \* ui_controller_init(): "read", "apply" or "done" (ui_initialized)
  initial,       \* initial_confirmation
  events,        \* pending_events
  sem,           \* event_sem, a semaphore of limit 1
  uiPc,          \* event thread: "wait", "scan", "local", "confirm" or "apply"
  work,          \* the marks the event thread has taken
  next,          \* next_confirmation
  confirmation,  \* ui.confirmation_id
  busy           \* the busy overlay is shown

uiVars == <<uiInit, initial, events, sem, uiPc, work, next, confirmation, busy>>

\* ui_bus_changed(), run by the publisher of a confirmation state or of a local result.
Notified(evs) == events' = events \cup evs /\ sem' = (sem \/ evs # {})

Notice ==
  Notified((IF channel' # channel THEN {"CONFIRMATION"} ELSE {})
           \cup (IF Len(localq') > Len(localq) THEN {"LOCAL_RESULT"} ELSE {}))

\* Faulty variant: the end of a confirmation leaves the overlay of the choice on the screen.
ApplyStaying(state) ==
  IF state.phase = "REQUIRED"
  THEN /\ busy' = FALSE
       /\ confirmation' = IF snapshot = state.id THEN state.id ELSE 0
  ELSE confirmation' = 0 /\ UNCHANGED busy

\* apply_confirmation(): a confirmation whose copy is gone already cannot be rendered.
Apply(state) ==
  IF state.phase = "REQUIRED"
  THEN /\ busy' = FALSE
       /\ confirmation' = IF snapshot = state.id THEN state.id ELSE 0
  ELSE /\ busy' = (busy /\ confirmation = 0)
       /\ confirmation' = 0

InitRead ==
  /\ uiInit = "read"
  /\ initial' = channel /\ uiInit' = "apply"
  /\ UNCHANGED <<coreVars, events, sem, uiPc, work, next, confirmation, busy>>

\* Faulty variant: the event thread is not woken for what happened during the start.
InitUnwoken ==
  /\ uiInit = "apply"
  /\ Apply(initial) /\ uiInit' = "done"
  /\ UNCHANGED <<coreVars, initial, events, sem, uiPc, work, next>>

InitApply ==
  /\ uiInit = "apply"
  /\ Apply(initial) /\ uiInit' = "done" /\ sem' = TRUE
  /\ UNCHANGED <<coreVars, initial, events, uiPc, work, next>>

Wake ==
  /\ uiPc = "wait" /\ sem
  /\ sem' = FALSE
  /\ uiPc' = IF uiInit = "done" THEN "scan" ELSE "wait"
  /\ UNCHANGED <<coreVars, uiInit, initial, events, work, next, confirmation, busy>>

Scan ==
  /\ uiPc = "scan"
  /\ work' = events /\ events' = {}
  /\ uiPc' = IF events = {} THEN "wait" ELSE "local"
  /\ UNCHANGED <<coreVars, uiInit, initial, sem, next, confirmation, busy>>

\* process_local_results(): one result, or the end of the loop.
LocalResults ==
  /\ uiPc = "local"
  /\ IF "LOCAL_RESULT" \in work /\ localq # <<>>
     THEN /\ localq' = Tail(localq) /\ resFree' = resFree + Head(localq).frags
          /\ busy' = FALSE /\ UNCHANGED uiPc
     ELSE uiPc' = "confirm" /\ UNCHANGED <<localq, resFree, busy>>
  /\ UNCHANGED <<ready, busVars, fidoq, execVars, runtimeVars, consented, confVars, walletChan,
                 uiInit, initial, events, sem, work, next, confirmation>>

ReadChannel ==
  /\ uiPc = "confirm"
  /\ IF "CONFIRMATION" \in work THEN next' = channel /\ uiPc' = "apply"
                                ELSE uiPc' = "scan" /\ UNCHANGED next
  /\ UNCHANGED <<coreVars, uiInit, initial, events, sem, work, confirmation, busy>>

ApplyNext ==
  /\ uiPc = "apply"
  /\ Apply(next) /\ uiPc' = "scan"
  /\ UNCHANGED <<coreVars, uiInit, initial, events, sem, work, next>>

Touchable == uiInit = "done" /\ uiPc = "wait" /\ ~busy

\* Faulty variant: the choice is submitted for the confirmation published last, not the shown one.
ChooseLatest(choice) ==
  /\ Touchable /\ confirmation # 0
  /\ LET c == Confirm(choice, channel.id)
     IN  \/ /\ Enqueue(c) /\ busy' = TRUE
            /\ consented' = IF choice = "Approve" THEN consented \cup {confirmation} ELSE consented
         \/ Refused(c) /\ UNCHANGED <<busy, consented>>
  /\ UNCHANGED <<ready, resVars, execVars, runtimeVars, confVars, walletChan,
                 uiInit, initial, events, sem, uiPc, work, next, confirmation>>

\* submit_choice(): approve or reject what the page shows; a full queue is an error dialog.
Choose(choice) ==
  /\ Touchable /\ confirmation # 0
  /\ LET c == Confirm(choice, confirmation)
     IN  \/ /\ Enqueue(c) /\ busy' = TRUE
            /\ consented' = IF choice = "Approve" THEN consented \cup {confirmation} ELSE consented
         \/ Refused(c) /\ UNCHANGED <<busy, consented>>
  /\ UNCHANGED <<ready, resVars, execVars, runtimeVars, confVars, walletChan,
                 uiInit, initial, events, sem, uiPc, work, next, confirmation>>

\* ui_submit(): a request of the local user.
Request(req) ==
  /\ Touchable
  /\ \/ Enqueue(Local(req, 1)) /\ busy' = TRUE
     \/ Refused(Local(req, 1)) /\ UNCHANGED busy
  /\ UNCHANGED <<ready, resVars, execVars, runtimeVars, consented, confVars, walletChan,
                 uiInit, initial, events, sem, uiPc, work, next, confirmation>>

UiThread == Wake \/ Scan \/ LocalResults \/ ReadChannel \/ ApplyNext

UiStarting == InitRead \/ InitApply

UiStep ==
  \/ UiStarting \/ UiThread
  \/ \E choice \in {"Approve", "Reject"} : Choose(choice)
  \/ \E req \in {"Lock", "Unlock"} : Request(req)

UiStart ==
  /\ uiInit = "read" /\ initial = NoChannel /\ events = {} /\ sem = FALSE
  /\ uiPc = "wait" /\ work = {} /\ next = NoChannel /\ confirmation = 0 /\ busy = FALSE
=============================================================================
