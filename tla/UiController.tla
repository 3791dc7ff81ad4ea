---------------------------- MODULE UiController ----------------------------
(***************************************************************************)
(* What the user's touches and the events of the bus do to the UI, as      *)
(* functions of u and x: the rows and dialogs of the pages, the input      *)
(* handlers (ui_pages.c, ui_hw.c, ui_entropy.c, ui_dialog.c) and the       *)
(* handlers of src/display/ui_controller.c.  A function that may submit a  *)
(* request to the core gives the request along with the new u.             *)
(***************************************************************************)
EXTENDS Ui

\* A request of the local user; arg tells what the core makes of it, id names a confirmation.
Request(req, arg, id) == [req |-> req, arg |-> arg, id |-> id]
NoRequest == Request("none", "none", 0)
Step(u, request) == [u |-> u, request |-> request]

Dialogs == {"restart", "erase", "norng", "key", "forget"}
Plain == {"Refresh", "Lock", "Generate", "Custom", "Mixed", "Restart"}

\* submit_wallet(): the PIN the UI holds, or an empty one.
SubmitWallet(u) == Step(u, Request("InitCustom", IF "pin" \in u.held THEN "pin" ELSE "open", 0))

\* submit_choice()
Choice(u, choice) == Step(u, Request(choice, "none", u.confirmation))

-----------------------------------------------------------------------------
(* A row, or the button of a dialog.                                       *)

\* What the callbacks of the rows do beside navigating and submitting.
LocalRow(u, x, row) ==
  CASE row = "ENTROPY_SOURCES" -> Push([u EXCEPT !.sources = Sources], x, row)
    [] row = "retry"   -> Refresh([u EXCEPT !.collector = "capturing"], x)
    [] row = "privacy" -> Refresh(u, x)
    [] OTHER           -> Push(u, x, row)

\* navigate(), confirm_*(), generate_mnemonic(), nxp_*(), generate_standard(), entropy_finish() ...
TapRow(u, x, row) ==
  CASE row \in Dialogs -> Step(ShowDialog(u, row), NoRequest)
    [] row \in Plain   -> Step(u, Request(row, "none", 0))
    [] row \in {"Approve", "Reject"} -> Choice(u, row)
    [] OTHER           -> Step(LocalRow(u, x, row), NoRequest)

\* entropy_source_toggle()
Toggle(u, x, source) ==
  Refresh([u EXCEPT !.sources = IF source \in @ THEN @ \ {source} ELSE @ \cup {source}], x)

\* entropy_collection_begin(): refused while the collector serves a session.
CollectionBegin(u, x) ==
  IF u.collector # "idle" THEN u
  ELSE Push([u EXCEPT !.session = TRUE, !.collector = "capturing"], x, "ENTROPY_COLLECT")

\* entropy_skip_clicked(): the next source, or the end of the collection.
Skip(u, x, collector) == Refresh([u EXCEPT !.collector = collector], x)

\* entropy_generate_clicked(), once the request is queued.
Generated(u) == [u EXCEPT !.drawn = "idle", !.session = FALSE, !.collector = "idle"]

\* entropy_tick(): draws the page again when the collector has moved on.
Tick(u, x) == Refresh(u, x)

\* dialog_clicked(): the dialog closes before its action runs.
DialogAction(u, x, d) ==
  CASE d = "restart" -> Step(u, Request("Restart", "none", 0))
    [] d = "erase"   -> Step(u, Request("ResetStorage", "none", 0))
    [] d = "key"     -> Choice(u, "Approve")
    [] d = "norng"   -> Step(Push(u, x, "LENGTH"), NoRequest)
    [] OTHER         -> Step(u, NoRequest)

DialogClicked(u, x, confirmed) ==
  IF confirmed THEN DialogAction(CloseDialog(u), x, u.dialog) ELSE Step(CloseDialog(u), NoRequest)

-----------------------------------------------------------------------------
(* The text of an input page: "good", "bad" or "empty".                    *)

\* submit_current_input(): a text compared with what is held is "good" when it is the same.
CurrentInput(u, x, text) ==
  LET stay == Step(u, NoRequest)
      next(v, page) == Step(Push(v, x, page), NoRequest)
      kept(what) == [u EXCEPT !.held = IF text = "empty" THEN @ \ {what} ELSE @ \cup {what}]
  IN  CASE u.page \in {"LOCKED", "FIDO_PIN_RECOVER"} -> Step(u, Request("Unlock", text, 0))
        [] u.page = "PIN_NEW"     -> IF text = "good" THEN next(kept("pin"), "PIN_CONFIRM") ELSE stay
        [] u.page = "PIN_CONFIRM" -> IF text = "good" THEN next(u, "SOURCE") ELSE stay
        [] u.page = "IMPORT"      -> next(kept("mnemonic"), "PASSPHRASE")
        [] u.page = "VERIFY"      -> IF text = "good" THEN next(u, "PASSPHRASE") ELSE stay
        [] u.page = "PASSPHRASE"  -> IF text = "empty" THEN SubmitWallet(kept("passphrase"))
                                     ELSE next(kept("passphrase"), "PASSPHRASE_CONFIRM")
        [] u.page = "PASSPHRASE_CONFIRM" -> IF text = "good" THEN SubmitWallet(u) ELSE stay
        [] OTHER -> stay

\* ui_wifi_password_submit(): the handler of its page, whatever ui.page is by then.
WifiPassword(u, x, text) == Step(IF text = "good" THEN Back(u, x) ELSE u, NoRequest)

\* input_submit_deferred()
InputHandler(u, x, text) ==
  LET v == SubmitDeferred(u)
  IN  IF u.shown = "WIFI_PASSWORD" THEN WifiPassword(v, x, text) ELSE CurrentInput(v, x, text)

-----------------------------------------------------------------------------
(* ui_controller.c                                                         *)

ActivePages == {"WIFI", "BLUETOOTH", "USB", "CAMERA"}
CameraPages == {"CAMERA", "QR_SCANNER"}

\* apply_status(): the page of the secure element only ever draws itself again.
ApplyStatus(u, x, wallet, storage) ==
  LET v == [u EXCEPT !.wallet = wallet, !.storage = storage]
      w == IF u.page \in ActivePages THEN Refresh(v, x) ELSE v
  IN  IF x.nxp /\ u.page = "NXP" THEN IF u.wallet # wallet THEN Refresh(v, x) ELSE v
      ELSE IF u.storage # "ERROR" /\ storage = "ERROR" /\ u.page \notin CameraPages
      THEN Open(w, x, "STORAGE_ERROR")
      ELSE IF u.wallet # "Locked" /\ wallet = "Locked" THEN Open(w, x, "LOCKED") ELSE w

\* process_network_events(), apply_wifi_scan(), apply_wifi_config(): the Wi-Fi page is drawn again.
NetworkEvents(u, x) == IF u.page \in ActivePages THEN Refresh(u, x) ELSE u

\* apply_confirmation() after cancel_startup(): the splash screen makes way first.
ApplyConfirmation(u, x, state) ==
  LET v == IF u.page = "SPLASH" THEN ShowStartup(u, x) ELSE u
  IN  IF state.phase = "REQUIRED" THEN ShowConfirmation([v EXCEPT !.busy = FALSE], x, state.id)
      ELSE DismissConfirmation(u, x)

\* handle_local_result(); recovered: app_fido_pin_retries() > 0.
HandleResult(u, x, result, recovered) ==
  LET v == [u EXCEPT !.busy = FALSE]
      collected == u.page = "ENTROPY_COLLECT"
      phrase == [v EXCEPT !.held = @ \cup {"mnemonic"}]
  IN  CASE result = "Updated"  -> Refresh(v, x)
        [] result = "Ready"    -> IF u.page # "FIDO_PIN_RECOVER" THEN Open(v, x, "HOME")
                                  ELSE IF recovered THEN Back(v, x) ELSE v
        [] result = "Mnemonic" -> IF collected THEN Replace(phrase, x, "MNEMONIC")
                                               ELSE Push(phrase, x, "MNEMONIC")
        [] OTHER               -> IF collected THEN Back(v, x) ELSE v

\* ui_controller_init(): the splash screen, and the timer that ends it if one could be made.
ControllerInit(x, wallet, storage, timer) ==
  LET u == Open(UiStart(wallet, storage), x, "SPLASH")
  IN  IF timer THEN u ELSE ShowStartup(u, x)

=============================================================================
