--------------------------------- MODULE Ui ---------------------------------
(***************************************************************************)
(* Pages and navigation of the touch UI (src/display/ui.c, ui_pages.c,     *)
(* ui_hw.c, ui_entropy.c, ui_dialog.c, ui_status.c, ui_confirmation.c) as  *)
(* functions of the record u, the `struct ui_context ui' that the LVGL     *)
(* lock protects, and of x, what a page reads while it is drawn: whether   *)
(* the flash holds no seed, the report of the secure element, and the      *)
(* confirmation whose copy can be read.  A page is the set of rows it      *)
(* offers, a row the callback behind it; texts, colours and layout are     *)
(* left out.                                                               *)
(***************************************************************************)
EXTENDS Integers, Sequences, FiniteSetsExt

CONSTANTS HistoryDepth,  \* UI_NAVIGATION_DEPTH, 8 in the firmware
          Features,      \* build options: "FIDO2", "FILES", "WIFI", "BLUETOOTH", "USB", "QR"
          Icons,         \* pages whose icon in the status bar is tapped
          HardwareRng,   \* app_hardware_rng_available()
          Sources        \* auxiliary entropy sources: app_entropy_capabilities()

ASSUME UiAssumption ==
  /\ HistoryDepth \in Nat \ {0} /\ HardwareRng \in BOOLEAN
  /\ Icons \subseteq {"WIFI", "BLUETOOTH", "USB", "CAMERA", "AUDIO", "IMU"}

Roots == {"SPLASH", "CAPABILITIES", "LOCKED", "HOME", "STORAGE_ERROR"}
StatusPages == {"WIFI", "BLUETOOTH", "USB", "CAMERA", "AUDIO", "IMU", "QR_SCANNER"}
InputPages == {"LOCKED", "PIN_NEW", "PIN_CONFIRM", "FIDO_PIN_RECOVER", "IMPORT", "VERIFY",
               "PASSPHRASE", "PASSPHRASE_CONFIRM", "WIFI_PASSWORD"}
Pages == Roots \cup StatusPages \cup InputPages
         \cup {"NXP", "SETTINGS", "FILES", "SOURCE", "LENGTH", "ENTROPY_METHOD",
               "ENTROPY_SOURCES", "ENTROPY_COLLECT", "MNEMONIC", "ENTROPY", "CONFIRMATION"}
Secrets == {"pin", "mnemonic", "passphrase"}

\* ui_page_begin(..., UI_NAVIGATION_NONE): no back arrow.
NavigationNone == Roots \cup {"CONFIRMATION"}

\* Pages whose rendering calls ui_clear_sensitive().
Clearing == {"CAPABILITIES", "HOME", "NXP", "SETTINGS"}

\* ui_init(): no page yet, nothing held, the states as read from the channels.
UiStart(wallet, storage) ==
  [page |-> "NONE", shown |-> "NONE", rows |-> {}, history |-> <<>>,
   kb |-> "none",            \* ui.keyboard: "none", "hidden" or "open"
   async |-> {},             \* deferred calls: "show", "hide", "submit"
   dialog |-> "none", busy |-> FALSE, held |-> {}, confirmation |-> 0,
   sources |-> {},           \* ui.entropy_sources
   session |-> FALSE,        \* ui.entropy_session is not 0
   collector |-> "idle",     \* the session of the collector (Entropy), as its snapshot tells it
   drawn |-> "idle",         \* rendered_snapshot while entropy_timer runs
   wallet |-> wallet, storage |-> storage]

-----------------------------------------------------------------------------
(* What each page offers.                                                  *)

If(condition, rows) == IF condition THEN rows ELSE {}
NxpEntry(x) == If(x.nxp, {"NXP"})

CapabilitiesRows(u, x) == NxpEntry(x) \cup If(u.wallet # "Disabled", {"PIN_NEW"})
HomeRows == {"SETTINGS"}

NxpRows(u, x) ==
  {"Refresh", "erase"}
  \cup If(x.legacyClear /\ x.report = "EMPTY", {"PIN_NEW"})
  \cup If(x.legacyClear /\ x.report = "READY",
          IF u.wallet = "Ready" THEN {"Lock"} ELSE {"LOCKED"})

SettingsRows(x) == NxpEntry(x) \cup (Features \cap {"FILES", "WIFI", "BLUETOOTH", "USB"})
                   \cup {"restart", "erase"}
SourceRows == {"IMPORT", IF HardwareRng THEN "LENGTH" ELSE "norng"}
LengthRows == {"ENTROPY_METHOD"}
MethodRows == {"Generate", "ENTROPY"} \cup If(HardwareRng /\ Sources # {}, {"ENTROPY_SOURCES"})
SourcesRows(u) == {"toggle"} \cup If(u.sources # {}, {"collect"})

\* ui_entropy_collect_render(): a session that is not the page's own offers nothing.
CollectRows(u) ==
  IF ~u.session THEN {}
  ELSE CASE u.collector = "idle"      -> {}
         [] u.collector = "capturing" -> {"skip"}
         [] u.collector = "error"     -> {"retry", "skip"}
         [] OTHER                     -> {"Mixed"}

MnemonicRows == {"VERIFY"}
EntropyRows == {"Custom"}
StorageErrorRows(x) == NxpEntry(x) \cup {"restart", "erase"}

\* What the radio published last decides which of these are drawn, and it may change at any time.
WifiRows == {"Restart", "forget", "WIFI_PASSWORD"}
BluetoothRows == {"privacy"}
\* Offered while the host has used up the attempts of the FIDO PIN, which it may do at any time.
UsbRows == If("FIDO2" \in Features, {"FIDO_PIN_RECOVER"})
CameraRows == If("QR" \in Features, {"QR_SCANNER"})
ConfirmationRows == {"Approve", "Reject"}

\* ui_render(): the page's own function; an input page adds its submit row to what it offers.
Rows(u, x) ==
  CASE u.page = "CAPABILITIES" -> CapabilitiesRows(u, x)
    [] u.page = "HOME"     -> HomeRows
    [] u.page = "NXP"      -> NxpRows(u, x)
    [] u.page = "SETTINGS" -> SettingsRows(x)
    [] u.page = "SOURCE"   -> SourceRows
    [] u.page = "LENGTH"   -> LengthRows
    [] u.page = "ENTROPY_METHOD"  -> MethodRows
    [] u.page = "ENTROPY_SOURCES" -> SourcesRows(u)
    [] u.page = "ENTROPY_COLLECT" -> CollectRows(u)
    [] u.page = "MNEMONIC" -> MnemonicRows
    [] u.page = "ENTROPY"  -> EntropyRows
    [] u.page = "STORAGE_ERROR" -> StorageErrorRows(x)
    [] u.page = "WIFI"      -> WifiRows
    [] u.page = "BLUETOOTH" -> BluetoothRows
    [] u.page = "USB"       -> UsbRows
    [] u.page = "CAMERA"    -> CameraRows
    [] u.page = "CONFIRMATION" -> ConfirmationRows
    [] u.page = "LOCKED"    -> NxpEntry(x)
    [] OTHER -> {}

-----------------------------------------------------------------------------
(* Drawing a page.                                                         *)

\* ui_clear_sensitive(): forgets the session, and does not cancel it.
Clear(u) == [u EXCEPT !.held = {}, !.session = FALSE, !.sources = {}]

\* ui_dialog_show() and ui_dialog_close()
ShowDialog(u, d) == [u EXCEPT !.dialog = d]
CloseDialog(u)   == [u EXCEPT !.dialog = "none"]

\* input_reset(): the deferred calls and the keyboard of the previous page go.
InputReset(u) == [u EXCEPT !.kb = "none", !.async = {}]

\* ui_page_begin(): an open dialog and the old input are gone, and a new page is on the screen.
PageBegin(u) == [InputReset(CloseDialog(u)) EXCEPT !.shown = u.page]

\* ui_input_page(): the keyboard waits hidden.
InputPage(u) == IF u.page \in InputPages THEN [u EXCEPT !.kb = "hidden"] ELSE u

\* entropy_timer: only a session that captures is polled.
CollectTimer(u) ==
  [u EXCEPT !.drawn = IF u.page = "ENTROPY_COLLECT" /\ u.session /\ u.collector = "capturing"
                      THEN "capturing" ELSE "idle"]

\* A confirmation that needs the private key first asks for it in a dialog.
KeyDialog(u, x) ==
  IF u.page = "CONFIRMATION" /\ ~x.prepared THEN ShowDialog(u, "key") ELSE u

\* ui_render() of a page that draws itself.
Drawn(u, x) ==
  LET c == IF u.page \in Clearing THEN Clear(u) ELSE u
  IN  KeyDialog(CollectTimer([InputPage(PageBegin(c)) EXCEPT !.rows = Rows(c, x)]), x)

-----------------------------------------------------------------------------
(* The keyboard.  Its callbacks run inside LVGL events, so they only post  *)
(* deferred calls.                                                         *)

\* keyboard_show(), posted by a tap on the field.
KeyboardShow(u) ==
  IF u.kb = "none" THEN u ELSE [u EXCEPT !.async = (@ \ {"hide"}) \cup {"show"}]

\* keyboard_hide(): what it does, and its result.
KeyboardTaken(u) == u.kb # "none" /\ ("show" \in u.async \/ u.kb = "open")
KeyboardHide(u) ==
  IF u.kb = "none" THEN u
  ELSE [u EXCEPT !.async = (@ \ {"show"}) \cup If(u.kb = "open", {"hide"})]

\* keyboard_show_deferred() and keyboard_hide_deferred()
ShowDeferred(u) == [u EXCEPT !.async = @ \ {"show"}, !.kb = IF @ = "hidden" THEN "open" ELSE @]
HideDeferred(u) == [u EXCEPT !.async = @ \ {"hide"}, !.kb = IF @ = "open" THEN "hidden" ELSE @]

\* input_submit(), posted by the OK key or by the row under the field.
InputSubmit(u) == IF u.kb = "none" THEN u ELSE [u EXCEPT !.async = @ \cup {"submit"}]

\* input_submit_deferred(), before it calls the handler of the page.
SubmitDeferred(u) == KeyboardHide([u EXCEPT !.async = @ \ {"submit"}])

-----------------------------------------------------------------------------
(* Navigation.                                                             *)

\* Faulty variant: leaving forgets to cancel the collector's session.
LeaveRunning(u) == IF u.page = "ENTROPY_COLLECT" THEN [u EXCEPT !.drawn = "idle"] ELSE u

\* ui_page_leave(), ui_entropy_collect_leave()
Leave(u) ==
  IF u.page # "ENTROPY_COLLECT" THEN u
  ELSE [u EXCEPT !.drawn = "idle", !.session = FALSE,
                 !.collector = IF u.session THEN "idle" ELSE @]

\* ui_render_confirmation(): app_core_confirmation_get() finds the copy of the shown confirmation.
Showable(u, x) == u.confirmation # 0 /\ x.copy = u.confirmation
CanDraw(u, x, page) == page # "CONFIRMATION" \/ Showable(u, x)

\* Faulty variant: a full history makes room for the new page by dropping the oldest.
RememberedNewest(u) ==
  IF u.page = "NONE" THEN u.history
  ELSE Append(IF Len(u.history) < HistoryDepth THEN u.history ELSE Tail(u.history), u.page)

Remembered(u) ==
  IF Len(u.history) < HistoryDepth /\ u.page # "NONE" THEN Append(u.history, u.page) ELSE u.history

Wiped(page) == CASE page = "MNEMONIC" -> {"mnemonic"}
                 [] page \in {"PASSPHRASE", "PASSPHRASE_CONFIRM"} -> {"passphrase"}
                 [] OTHER -> {}

\* The last page of the history that can be drawn: a confirmation that is gone draws the one before.
Previous(u, x) ==
  LET drawable == {i \in DOMAIN u.history : CanDraw(u, x, u.history[i])}
  IN  IF drawable = {} THEN 0 ELSE Max(drawable)

\* ui_back(): an open keyboard takes the first one.
Back(u, x) ==
  LET i == Previous(u, x)
      v == [Leave(u) EXCEPT !.held = @ \ Wiped(u.page),
                            !.confirmation = IF i < Len(u.history) THEN 0 ELSE @]
  IN  IF KeyboardTaken(u) THEN KeyboardHide(u)
      ELSE IF u.history = <<>> THEN u
      ELSE IF i = 0 THEN [v EXCEPT !.page = "CONFIRMATION", !.history = <<>>]
      ELSE Drawn([v EXCEPT !.page = u.history[i], !.history = SubSeq(u.history, 1, i - 1)], x)

\* ui_render(): a confirmation whose copy is gone goes back at once.
Render(u, x) ==
  IF CanDraw(u, x, u.page) THEN Drawn(u, x) ELSE Back([u EXCEPT !.confirmation = 0], x)

Refresh(u, x) == Render(u, x)

Replace(u, x, page) == IF u.page = page THEN u ELSE Render([Leave(u) EXCEPT !.page = page], x)

\* ui_open()
Open(u, x, page) ==
  LET v == IF u.page # page THEN Leave(u) ELSE u
      w == IF page \in {"LOCKED", "STORAGE_ERROR"} THEN Clear(v) ELSE v
  IN  Render([w EXCEPT !.page = page, !.history = <<>>], x)

\* ui_push(): a full history drops the page silently.
Push(u, x, page) ==
  IF u.page = page THEN u
  ELSE Render([Leave(u) EXCEPT !.page = page, !.history = Remembered(u)], x)

\* ui_show_startup()
StartupPage(u) == IF u.storage = "ERROR" THEN "STORAGE_ERROR"
                  ELSE CASE u.wallet = "Locked" -> "LOCKED"
                         [] u.wallet = "Ready"  -> "HOME"
                         [] OTHER               -> "CAPABILITIES"
ShowStartup(u, x) == Open(u, x, StartupPage(u))

\* status_clicked(): the icons lead somewhere only while the wallet is unlocked.
StatusIcon(u, x, page) ==
  IF u.wallet # "Ready" THEN u
  ELSE IF u.page \in StatusPages THEN Replace(u, x, page) ELSE Push(u, x, page)

\* ui_show_confirmation() and ui_dismiss_confirmation()
ShowConfirmation(u, x, id) ==
  LET v == [CloseDialog(u) EXCEPT !.confirmation = id]
  IN  IF u.page = "CONFIRMATION" THEN Render(v, x) ELSE Push(v, x, "CONFIRMATION")

DismissConfirmation(u, x) ==
  LET v == [CloseDialog(u) EXCEPT !.confirmation = 0, !.busy = FALSE]
  IN  IF u.confirmation = 0 THEN u
      ELSE IF u.page = "CONFIRMATION" THEN Back(v, x) ELSE v

=============================================================================
