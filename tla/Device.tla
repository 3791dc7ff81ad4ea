------------------------------- MODULE Device -------------------------------
(***************************************************************************)
(* The touch UI over DeviceCore: the user's fingers, the deferred calls    *)
(* and timers of LVGL, and the event thread of ui_controller.c.  All of    *)
(* them hold the LVGL lock for a whole step; the event thread also keeps   *)
(* it from taking pending_events until it has handled all it took.         *)
(***************************************************************************)
EXTENDS DeviceCore

\* The event thread does not hold the lock.
Unlocked == main = "run" /\ work = {} /\ next = NoConfirmation

\* A page is drawn: the one of the secure element asks the flash for a seed.
Draw(Page(_), inPlace) ==
  \E o \in Exists(store, "seed") :
    LET v == Page(X(o.ret = 0))
    IN  /\ ui' = v
        /\ store' = IF v.page = "NXP" /\ (ui.page # "NXP" \/ inPlace) THEN o.store ELSE store

Drawing(Page(_)) ==
  /\ Draw(Page, FALSE)
  /\ UNCHANGED core /\ Notify({})
  /\ UNCHANGED <<main, nxp, se, credit, channel, cmdq, localq, timer, work, next>>

-----------------------------------------------------------------------------
(* Touches.                                                                *)

\* ui_submit(), app_core_submit_confirmation(): a full queue only shows a notice.
Submitted(step) ==
  IF step.request = NoRequest \/ Len(cmdq) = QueueDepth THEN step.u
  ELSE LET v == IF step.request.req = "Mixed" THEN Generated(step.u) ELSE step.u
       IN  [v EXCEPT !.busy = TRUE]
Queued(step) == IF step.request = NoRequest \/ Len(cmdq) = QueueDepth THEN cmdq
                ELSE Append(cmdq, step.request)

Submitting(Do(_)) ==
  /\ LET Page(x) == Submitted(Do(x)) IN Draw(Page, FALSE)
  /\ cmdq' = Queued(Do(X(FALSE)))
  /\ UNCHANGED core /\ Notify({})
  /\ UNCHANGED <<main, nxp, se, credit, channel, localq, timer, work, next>>

\* Neither the overlay of a busy UI nor a dialog is in the way.
Touchable == Unlocked /\ ~ui.busy /\ ui.dialog = "none"

Tap == Touchable /\ \E row \in ui.rows \ {"toggle", "collect", "skip"} :
         LET Do(x) == TapRow(ui, x, row) IN Submitting(Do)
ToggleSource == Touchable /\ "toggle" \in ui.rows /\ \E s \in Sources :
                  LET Page(x) == Toggle(ui, x, s) IN Drawing(Page)
Collect == Touchable /\ "collect" \in ui.rows /\
             LET Page(x) == CollectionBegin(ui, x) IN Drawing(Page)
SkipSource == Touchable /\ "skip" \in ui.rows /\ \E c \in {"capturing", "error", "ready"} :
                LET Page(x) == Skip(ui, x, c) IN Drawing(Page)

DialogButton == Unlocked /\ ~ui.busy /\ ui.dialog # "none" /\ \E confirmed \in BOOLEAN :
                  LET Do(x) == DialogClicked(ui, x, confirmed) IN Submitting(Do)

BackArrow == Touchable /\ ui.shown \notin NavigationNone /\ LET Page(x) == Back(ui, x) IN Drawing(Page)
Icon == Touchable /\ ui.shown # "SPLASH" /\ \E page \in Icons :
          LET Page(x) == StatusIcon(ui, x, page) IN Drawing(Page)

\* The field, the cancel key and the OK key of the keyboard, or the row under the field.
Field  == Touchable /\ ui.kb # "none" /\ LET Page(x) == KeyboardShow(ui) IN Drawing(Page)
Cancel == Touchable /\ ui.kb = "open" /\ LET Page(x) == KeyboardHide(ui) IN Drawing(Page)
Submit == Touchable /\ ui.kb # "none" /\ LET Page(x) == InputSubmit(ui)  IN Drawing(Page)

\* Deferred calls: not touches, so a busy UI runs them too.
Deferred ==
  /\ Unlocked
  /\ \/ "show" \in ui.async /\ LET Page(x) == ShowDeferred(ui) IN Drawing(Page)
     \/ "hide" \in ui.async /\ LET Page(x) == HideDeferred(ui) IN Drawing(Page)
     \/ "submit" \in ui.async /\ \E text \in {"good", "bad", "empty"} :
          LET Do(x) == InputHandler(ui, x, text) IN Submitting(Do)

\* startup_expired()
StartupExpired ==
  /\ Unlocked /\ timer /\ timer' = FALSE
  /\ LET Page(x) == ShowStartup(ui, x) IN Draw(Page, FALSE)
  /\ UNCHANGED core /\ Notify({})
  /\ UNCHANGED <<main, nxp, se, credit, channel, cmdq, localq, work, next>>

\* The collector's camera or microphone is done, or fails (Entropy).
CollectorMoves ==
  /\ main = "run" /\ ui.collector = "capturing"
  /\ \E c \in {"error", "ready"} : ui' = [ui EXCEPT !.collector = c]
  /\ UNCHANGED <<main, memory, coreVars, timer, events, work, next>>

EntropyTick == /\ Unlocked /\ ui.drawn = "capturing" /\ ui.collector # "capturing"
               /\ LET Page(x) == Tick(ui, x) IN Drawing(Page)

Touch == Tap \/ ToggleSource \/ Collect \/ SkipSource \/ DialogButton \/ BackArrow \/ Icon
         \/ Field \/ Cancel \/ Submit
Lvgl  == Deferred \/ StartupExpired \/ CollectorMoves \/ EntropyTick

-----------------------------------------------------------------------------
(* ui_event_thread()                                                       *)

Take ==
  /\ main = "run" /\ work = {} /\ next = NoConfirmation /\ events # {}
  /\ work' = events /\ events' = {}
  /\ UNCHANGED <<main, memory, coreVars, ui, timer, next>>

HandleStatus ==
  /\ "STATUS" \in work /\ work' = work \ {"STATUS"}
  /\ LET Page(x) == ApplyStatus(ui, x, core.walletChan, store.chan)
     IN  Draw(Page, ui.wallet # core.walletChan)
  /\ UNCHANGED core /\ Notify({})
  /\ UNCHANGED <<main, nxp, se, credit, channel, cmdq, localq, timer, next>>

\* Wi-Fi, its scan or its public address: published at any time, whatever else was taken.
HandleNetwork ==
  /\ main = "run" /\ next = NoConfirmation /\ "WIFI" \in Features
  /\ LET Page(x) == NetworkEvents(ui, x) IN Drawing(Page)

\* process_local_results(): every result that is there, each of them cancel_startup() first.
HandleLocalResult ==
  /\ "LOCAL_RESULT" \in work /\ "STATUS" \notin work
  /\ IF localq = <<>>
     THEN work' = work \ {"LOCAL_RESULT"} /\ UNCHANGED <<localq, ui, timer, store>>
     ELSE /\ localq' = Tail(localq) /\ timer' = FALSE /\ UNCHANGED work
          /\ \E recovered \in BOOLEAN :
               LET Page(x) == HandleResult(ui, x, Head(localq), recovered)
               IN  Draw(Page, Head(localq) = "Updated")
  /\ UNCHANGED core /\ Notify({})
  /\ UNCHANGED <<main, nxp, se, credit, channel, cmdq, next>>

ReadConfirmation ==
  /\ work = {"CONFIRMATION"} /\ work' = {}
  /\ next' = channel
  /\ UNCHANGED <<main, memory, coreVars, ui, timer, events>>

\* The confirmation may be gone by the time it is drawn.
HandleConfirmation ==
  /\ next # NoConfirmation /\ next' = NoConfirmation
  /\ timer' = (timer /\ next.phase # "REQUIRED")
  /\ LET Page(x) == ApplyConfirmation(ui, x, next) IN Draw(Page, FALSE)
  /\ UNCHANGED core /\ Notify({})
  /\ UNCHANGED <<main, nxp, se, credit, channel, cmdq, localq, work>>

EventThread == Take \/ HandleStatus \/ HandleNetwork \/ HandleLocalResult \/ ReadConfirmation \/ HandleConfirmation

-----------------------------------------------------------------------------
Init == DeviceStart
Boot == StorageStart \/ UpdateModeTake \/ LoadSettings \/ CoreInit \/ DisplayInit
Next == PowerLoss \/ Boot \/ CoreStep \/ Touch \/ Lvgl \/ EventThread
Spec == Init /\ [][Next]_vars

-----------------------------------------------------------------------------
(* Properties.                                                             *)

\* The type invariant of memory, core thread and UI.
TypeOK ==
  /\ main \in {"storage", "take", "load", "core", "display", "update", "run"}
  /\ nxp \in Builds /\ credit \in BOOLEAN /\ store \in Stores /\ se \in Elements
  /\ {core.wallet, core.walletChan, ui.wallet} \subseteq {"Disabled", "Setup", "Locked", "Ready", "Busy"}
  /\ {core.pending, core.asked, channel.id, next.id, ui.confirmation} \subseteq 0..MaxConfirmations
  /\ core.due \in {"none", "Updated", "Ready", "Mnemonic", "Error"} /\ core.erasing \in {"no", "element", "flash"}
  /\ Len(cmdq) <= QueueDepth /\ Len(localq) <= QueueDepth
  /\ {ui.page, ui.shown} \subseteq Pages \cup {"NONE"} /\ ui.dialog \in Dialogs \cup {"none"}
  /\ ui.history \in Seq(Pages) /\ Len(ui.history) <= HistoryDepth
  /\ ui.held \subseteq Secrets /\ ui.sources \subseteq Sources /\ ui.async \subseteq {"show", "hide", "submit"}
  /\ ui.kb \in {"none", "hidden", "open"} /\ ui.collector \in {"idle", "capturing", "error", "ready"}
  /\ (events \cup work) \subseteq {"STATUS", "LOCAL_RESULT", "CONFIRMATION"}

\* No wallet is ever stored under the empty PIN, although forgetting the PIN of a setup that goes
\* on is what half of the pages do, and the runtime is not relied on to refuse it; and a seed in
\* flash is never joined by one in the secure element (platform.rs).
WalletHasPin == store.flash["seed"] # "open"
OneSeed == nxp => (store.flash["seed"] = "none" \/ se.chip = "none")
SeedAtRest == WalletHasPin /\ OneSeed

\* What a setup holds ends with it: the PIN, the recovery phrase and the passphrase are gone on the
\* pages outside of one, however they were reached, and the collector captures only for the page
\* that started it.
SecretsLeave == ui.shown \in Clearing => ui.held = {} /\ ui.sources = {}
CollectorOwned == ui.collector # "idle" => ui.page = "ENTROPY_COLLECT" /\ ui.session
SetupEnds == SecretsLeave /\ CollectorOwned

\* A page without a way back is one of the roots or a confirmation; what Back leads to can be
\* drawn again; the screen shows the page the UI believes in, unless a confirmation was withdrawn
\* while the keyboard was open.
BackLeadsSomewhere == main = "run" => ui.history # <<>> \/ ui.page \in Roots \cup {"CONFIRMATION"}
NothingDead == \A i \in DOMAIN ui.history : ui.history[i] \notin {"NONE", "SPLASH"}
ScreenIsPage == main = "run" => ui.shown = ui.page \/ (ui.page = "CONFIRMATION" /\ ui.confirmation = 0)
NavigationSound == TypeOK /\ BackLeadsSomewhere /\ NothingDead /\ ScreenIsPage

\* Update mode is entered at most once for a request: whatever fails, and whenever the power does,
\* a device that was asked once does not come up in update mode again and again.
UpdateModeOnce == [][main' = "update" /\ main # "update" => credit]_vars

\* The flash is erased only when the secure element is already empty: no reset leaves a wallet
\* in the element without the settings and passkeys that go with it.
EraseOrder == nxp /\ core.erasing = "flash" => se.chip = "none"

=============================================================================
