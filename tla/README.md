# A TLA+ model of the OSKey firmware

OSKey is a hardware wallet: a Zephyr application in C (`src/src`) around a wallet runtime in
Rust (the `oskey-action` library, an empty submodule here, reached through `src/src/rs`). It keeps
a seed in an A5000 secure element or in flash, asks its user to confirm what it signs on a touch
display or with a button, acts as a FIDO2 authenticator, and collects auxiliary entropy for a new
mnemonic from touch, motion, camera and microphone. This directory holds TLA+ modules that model
its control logic, TLC configurations that check them, and proofs checked by TLAPS.

Contents: [inventory](#inventory) · [modules](#modules) · [runs](#runs) ·
[fairness](#fairness) · [proofs](#proofs) · [only model-checked](#only-model-checked) ·
[not modelled](#not-modelled) · [plan](#plan)

## Inventory

Paths are below `src/src`. "Hard" is what a unit test would hardly reach; the same hazards are
listed one by one, each at its line, under `hazards` in `PROJECT.json`.

| Component | State | Operations | Talks to | Hard | Correct when |
|---|---|---|---|---|---|
| Secure element store (`security/nxp`) | chip: salt, PIN UserID, seed, reset UserID, failure counter; MCU: `state`, `scanned`, the open session | refresh, exists, initialize, unlock, erase | the chip (I2C), the runtime's seed backend | lost answers, power loss between two writes, a counter that must not be spent twice | success is a fact of the chip; the snapshot is truthful; one PIN costs one attempt; no dead end |
| Message bus (`bus.c`) | a command queue, two result queues, two payload pools, channels for states | submit protocol, local, FIDO2, confirmation; get | every client, the core thread | full queues and pools, payloads on error paths | no payload is lost or given back twice |
| Core thread (`core.c`, `rs/ffi.rs`) | the runtime, its effects not routed yet, the copy of the pending confirmation, `active_confirmation` | execute a command, route its effects | all | a confirmation nobody can see; readers of a copy that is replaced | the published state agrees with what the runtime waits for |
| FIDO2 service (`usb/fido2.c`) | `active_request_id`, `request_sequence` | make, validate, sign, wait for presence, cancel | CTAP library, bus | deadline against late result; cancel against the end of the request | presence only for a confirmed request; the slot is given back |
| User button (`gpio.c`) | `pressed_confirmation`, a work item | press | bus, confirmation channel | the work item runs after the confirmation changed | a press approves what was active at the press |
| Display controller (`display/ui_controller.c`, `ui_confirmation.c`) | event marks, a semaphore, `ui.confirmation_id`, busy overlay | start, events, choose, submit | all channels, bus | a listener inside the publisher, re-read channels, events before the start | every confirmation gets shown, the overlay goes away |
| UI pages (`display/ui*.c`) | the page, its history, dialogs, a keyboard with deferred calls, PIN and phrases that are held | tap, back, icon, confirm, enter | controller, entropy, storage | late results and withdrawn confirmations on a page the user has left; a full history | no secret outlives its setup, no page without a way on, what is drawn is what is believed |
| Entropy (`entropy/entropy.c`) | a hierarchical state machine: session, sources, records; the camera thread | begin, feed, fail, retry, skip, cancel, transcript | UI, IMU, microphone, camera | feeds of cancelled sessions, partial failures of start and hash, the camera thread's wake-ups | the transcript is canonical, only the current source runs |
| Camera and QR (`camera`) | `camera_in_use`, buffers, the scanner's state, session and decoder slot | start, stop, capture, decode | UI, entropy | stop against the thread, codes of an older session | exclusive use, the result of the current session |
| IMU (`imu`, `drivers/sensor/qmi8658a_fifo`) | clients, error count, time of the last sample on both sides | request, release, start, poll, read, restart | entropy, UI | restart after an error, sample times that are computed backwards | no batch of a working sensor is refused; it runs exactly while somebody wants it |
| Microphone and audio (`audio`) | pause and stop flags, a stream, playback | record, pause, play | entropy, codec | pausing with a time limit | the codec has one user |
| UART (`uart.c`) | a pending buffer, an interrupt mask | receive, retry | bus | more bytes while the bus refuses | no byte lost or out of order |
| Bluetooth (`bluetooth`) | a connection, a session, MTU | connect, receive, notify | bus | an answer after the disconnection | an answer goes to its own session |
| USB (`usb`) | bulk buffers, HID for FIDO2 | receive, send | bus, CTAP | buffer reuse | one owner of a buffer |
| Wi-Fi (`net/wifi.c`, portal) | connection state, attempt, scan, AP | connect, cancel, scan, AP on and off | UI, settings | a timer against a result | one verdict per attempt |
| HTTP and MQTT (`net`) | a socket, a request, a session | request, publish, reconnect | Wi-Fi, runtime | loss of link in a request | one answer per request |
| Storage, boot, reset (`storage.c`, `boot.c`, `app.c`, `main.c`, `rs/platform.rs`) | seed and update request in flash, `fs`, `storage_initialized`, the published state | init, read, write, delete, erase, reset, restart into update mode | chip, flash, runtime | every access may fail, with or without effect; power loss between chip and flash | no seed under an empty PIN or in two places; the order of a reset; one update mode per request |
| Media and start-up (`app.c`, media) | mounted card | mount, init | – | order of start | – |
| Drivers (`src/drivers`, patches) | registers, DMA | – | hardware | – | – |

How they interact. Clients never call the runtime. They put a *command*, with its payload in
fragments of a fixed pool, into one queue; the core thread takes one command at a time, gives it to
the runtime, and *routes* each effect the runtime returns: a FIDO2 or local result into a bounded
queue, a state into a zbus channel, a protocol answer to its transport. A confirmation is an
effect of its own: the core thread copies it under a lock, publishes its number in a channel, and
the button (a listener inside the publication) and the touch UI (an event thread that wakes up
later and re-reads the channel) offer it to the user; their choice comes back as a command. The
sensors, the camera and the entropy service share locks and sessions instead: whoever delivers
data names the session it read earlier.

## Modules

| Module | Models | Instance |
|---|---|---|
| `SecureSeed` | abstract promise of the seed store | `NxpStore!Vault` |
| `Consent` | abstract contract between the wallet and its user | `Wallet!Promise` |
| `NxpStore` | `security/nxp/store.c` over `device.c` | `MCNxpStore` |
| `WalletCore` | `bus.c`, `core.c`, what `rs/ffi.rs` sees of the runtime | in `Wallet` |
| `Fido2`, `Button`, `Display` | `usb/fido2.c`, `gpio.c`, `ui_controller.c` with `ui_confirmation.c` | in `Wallet` |
| `Wallet` | the core thread composed with its clients | `MCWalletFido`, `MCWalletUi` |
| `Storage` | `storage.c` over ZMS, as functions of one record | in `Platform` |
| `Platform` | `rs/platform.rs` over the flash and an abstract secure element | in `DeviceCore` |
| `Ui`, `UiController` | pages, rows, dialogs, keyboard and navigation (`display/ui*.c`); what touches and events do to them | in `DeviceCore` |
| `DeviceCore` | `main.c`, `boot.c`, `app.c`; the core thread and the runtime as the local user meets them; loss of power | in `Device` |
| `Device` | the touch UI over all that: fingers, deferred calls and timers of LVGL, the event thread | `MCDevice` |
| `Entropy` | `entropy/entropy.c` with its four kinds of callers | `MCEntropy` |
| `Camera` | `camera/camera.c`, shared by its two users | in `QrScanner` |
| `QrScanner` | `camera/qr_scanner.c`, `camera/qr_decoder.c`, `display/ui_qr.c` | `MCQrScanner` |
| `Imu` | `imu/imu.c` over the driver `qmi8658a_fifo.c` | `MCImu` |
| `Protocol` | what `bus.c` and `core.c` are to a transport | in `Transports` |
| `Uart`, `Bluetooth` | `uart.c`, `bluetooth/bluetooth.c` | in `Transports` |
| `Transports` | both on one command queue | `MCTransports` |
| `Wifi`, `WifiScan` | `net/wifi.c`: one boot's connection and access point; scans | `MCWifi`, `MCWifiScan` |
| `Microphone` | `audio/microphone.c`, and the beep of `audio/audio.c` | `MCMicrophone` |
| `NxpStoreProofs`, `WalletProofs`, `WifiProofs` (with `WifiScan`), `ImuProofs`, `QrScannerProofs`, `EntropyProofs`, `TransportsProofs`, `DeviceProofs` | proofs about the module of that name | – |

Definitions named "Faulty variant" are not part of any `Next`: each is a plausible bug that
refutes one of the properties when it takes the place of the definition after it. They document
what each property is able to notice.

### NxpStore

One action per entry point (`Refresh`, `SeedExists`, `Initialize`, `Unlock`, `Erase`) and one per
protected exchange with the chip. The MCU side (`state`, `scanned`, `user`, `authId`) is what the
statics of `store.c` and `device.c` hold; the chip side (`chipSalt`, `chipPin`, `chipSeed`,
`chipReset`, `failures`) survives `PowerLoss`, which may come between any two steps. An exchange is
answered, or executed with its answer lost, or never arrives (`Replies`); a call is marked healthy
or not when it starts, so that `Recoverable` can speak of a link that works. The credential
HMAC(PIN key, salt) is the pair of its inputs. Session creation and verification of one
`nxp_device_auth` are one exchange, and so are the read-only queries of one scan: nothing else
talks to the chip in between, and `state` is written when they are over. The applet's behaviour
(refusing to replace an object, counting failures) is outside the repository; it is modelled from
how `device.c` uses it.

`SecureSeed` says the same without links and calls: a vault, a bounded number of wrong PINs, a
seed released in the session of an accepted PIN. `Vault` in `NxpStore` is the refinement mapping.

### Wallet

`WalletCore` keeps the queues and pools as they are, a payload being a number of fragments. Its
actions are the steps of the core thread between which another thread can observe a difference:
taking a command, executing it, routing one effect (three for a confirmation: copy, publish, and,
at its end, wipe). `Handle` is the one external piece: which effects the runtime may return for a
command, as far as `ffi.rs` can tell them apart. It may ask for one confirmation at a time, which
may be too long to be copied (`fits`).

`Fido2` is `request()` of `fido2.c` cut where it can be overtaken: claim the slot, submit, take
or skip a result, deadline, cancellation; `UpCancel` is the transport's own thread, which submits
with the id it read before. `Button` separates the interrupt from the work item. `Display` has
the listener (`Notice`, a part of the core thread's step), the event thread (wake, take the marks,
local results, re-read the channel, apply) and the user's choices, which LVGL's lock allows only
while the event thread is not inside. `consented` is a history variable: the confirmations the
user has approved, by pressing the button while they were active or on their page.

`Consent` says what all this is for, in five actions without a thread or a queue: one question at a
time, settled once; as approved only when the user approved that question; and a request told of the
user's presence only for such a question. `Promise` in `Wallet` is the refinement mapping: the open
question is the one the runtime waits for, and the presence told is the result the FIDO2 client holds.

`Chunk` stands for a protocol request of a transport; UART, Bluetooth and USB are not modelled
further. The refused submissions of clients that wait are taken as refused after their time limit,
at any moment when there is no room; publications with `K_FOREVER` do not fail.

### Device

`Device` is the one model in which a whole device lives through several boots. It is built of
functions, because everything but the power and the event thread happens under one lock:

* `Storage` and `Platform` give for each operation the *set of its outcomes*. ZMS may fail at any
  access, and a write or delete that failed may have taken effect; the first failure other than "no
  such entry" closes the store for good, as `storage_runtime_result` does. The flash holds a seed
  (none, under a PIN, or under an empty one) and the update request. The secure element is its
  contents and the two statics of `store.c`; the exchanges inside an entry point are the subject of
  `NxpStore`.
* `Ui` draws: for each page the rows it offers, given the UI's state `u` and what the page reads
  while it is drawn (`x`), and the navigation of `ui.c`: push, replace, root, back, a history of
  `HistoryDepth`. `UiController` acts: what the row, the dialog's button, the keyboard's deferred
  calls and each event of `ui_controller.c` do to `u`, and which request they submit. Texts, colours
  and layout are left out; a typed text is good, bad or empty; of the file browser only its row is kept.
* `DeviceCore` is `main()` in its order, `boot.c`, the reset of `app.c` and the core thread. `React`
  is what this code can observe of the runtime, as `Handle` is in `WalletCore`: a result that is due
  and a new wallet state are routed in either order, and confirmations come and go. The state of the
  wallet is read in the channel, which may be older than the runtime's.
* `Device` adds the actors. The event thread takes all marks at once and then handles them one by
  one while it keeps the lock; the confirmation it read may be gone when it draws it. A touch needs
  a UI that is neither busy nor behind a dialog; LVGL's deferred calls and the start-up timer do
  not. `PowerLoss` may come in every state, between any two steps of a reset.

`credit` is a history variable: a request for the update mode is in flash and has not been honoured.
The composition abstracts what other modules have in detail: the queue holds `QueueDepth` commands,
each served in one step, the collector is the three states its page distinguishes, and the delay of
250 ms before the restart into update mode is not a step of its own.

### Imu

A sample is its time and whether it follows a gap. `SourceBatch` and `Respread` are the arithmetic of
the driver: the time of reading minus the span of the FIFO, and, where that would precede the last
sample, an even distribution over what is left, or a gap. `Accepted` is the check of the acquisition
thread, on its own copy of the last time. The thread's loop is cut at its semaphore, at the bus
accesses and where it looks at the clients again; every start and every reading may fail. Clients are
bits that anybody may set and clear at any time. The clock is an action, so that a thread may be
late by any amount.

### Entropy

The machine's context is one record and every event an operator that gives the set of contexts it
may lead to, because hashing and starting a source may fail. Actions belong to five kinds of
threads. The user begins a session with any set of sources, and touches, retries, skips and leaves
as long as the page is open: a superset of what the page's buttons allow, as the page shows a
state up to 100 ms old. The IMU and microphone threads read a snapshot and act on it later
(`sampled`). The camera thread is modelled step by step. Units may be fed several at a time by
the sensors; `Target` is the same for each source. Digests are only "running or not".

### Camera and QrScanner

`Camera` is the occupancy flag of `camera.c` with the failures of a start and of a stop; it is cut
after the compare-and-swap, where another thread may come in. In `QrScanner` four threads meet:
the page's callbacks (opening, leaving, its events and its timer, under the LVGL lock), the scanner
thread, the decoder thread, and the entropy thread, which only competes for the camera. Every
access to one of the scanner's atomics is a step of its own, because `scanner_lock` is taken by the
page's callbacks only. A frame and a decoded code are the number of the session they were filmed
in, which is what the code itself compares; formats and pixels are left out. The page's preview is an
image (`screen.image`) of a buffer (`pixels`, the frame in `preview_buffer`), and the buffer is a static:
neither leaving nor opening the page changes what it holds, only a copy does, after which the page's
`preview_generation` is not 0 (`copied`). The scanner thread's locals go back to their initial values when its loop starts again.

### Transports

`Protocol` is the command queue and the core thread once more, as far as a transport sees them:
requests with the session they came from, and answers that the runtime may *owe* for longer than
the session lives. The payload pool is left to `WalletCore`. The interrupt handler of `Uart` is
one action, because no thread runs during it; it reads the hardware's FIFO in blocks of at most 32
bytes, and a block is a number. In `Bluetooth` one connection object serves link after link
(`BT_MAX_CONN` is 1), so that link and session get the same numbers and a mistake between them
shows. The host's receive thread runs `connected`, `security_changed` and `nus_received`, which
waits for room in the queue; the system work queue runs `disconnected` and the advertising work;
the core thread sends answers part by part with a reference to the object, which is recycled only
when the last reference is gone. Published states, pairing and privacy are left out, and so is the
32-bit session number's return to 1.

### Wifi and WifiScan

`Wifi` is one boot: `wifi_start` tries the saved network once, and the main thread, the event
thread of network management and the system work queue write `sta_state` and `ap_state`. A handler
is cut between its check of a state and its assignment, because only some of the assignments are
compare-and-swaps. The driver posts its events in order; its answers are not owed. Which of
station and access point is started is any combination on a device with a display, where they are
preferences, and follows from the saved network on one without. A start of the access point may
fail at each of its steps; so may `wifi_start` before it, which the model notes as `refused`.

`WifiScan` is the list of `start_scan`, `scan_result_add` and `scan_sort`. The event thread
releases the claim on the scan before it sorts, so that the next scan may be claimed and its list
cleared in between. Clearing during the sort is one of the two orders: the sort leaves an element
only at an index below the count it read, and those indices are overwritten before they count
again. Networks with an empty name are skipped by the code and not among the results.

### Microphone

The five flags, the two semaphores and the capture thread's locals. Setting a flag and giving the
semaphore are one step: the thread reads the flags after it has taken the semaphore, and between
the two a second taking finds the same flags. `Start` and `Started` are two because the start
blocks on the codec's bus; so are `Stop` and `Stopped`. The 250 ms of the pause may be over at any
moment before the thread has stopped.

## Runs

| Run | Question | Bounds, and why they suffice | Distinct states |
|---|---|---|---|
| `NxpStore` | Do lost replies, failing steps and power loss ever make the store lie, lose attempts or get stuck? Does it implement the vault? | Two PIN keys, seeds and salts: right and wrong, stored and new, old and fresh. Limit 3: below, at and past exhaustion. Number of calls and crashes unbounded. | 7,165 |
| `WalletFido` | FIDO2 requests with deadlines, late results, cancellations; button; no display | Two requests and two confirmations: an old result or press meets a new request. Queues of 2, pools of 2: they fill up. | 186,763 |
| `WalletUi` | Does the touch UI show what is pending, in spite of its start and its late reads? Does its overlay go away? | Two confirmations: one can replace another between wake-up and read. Transport and UI compete for one fragment; FIDO2 requests, which would take from the same pool, are in `WalletFido`. | 238,100 |
| `QrScanner` | Page, scanner, decoder and entropy thread in every order, with a camera that may fail: does a page ever copy what is not its own, does a stop, a code or an end of the session before end the present one, is a page left waiting, does filming end? | Two sessions: thread, decoder and events are late with the first while the second starts. The invariants were checked once by hand with three sessions (750,028 states). | 251,937 |
| `Transports` | Does the UART keep its bytes in order while the bus refuses some; can an answer reach another link than the one that asked; does a lost link leave the device unreachable? | Two links and two requests: an answer of the first link meets the second, which uses the same object. Two parts: the link may change within an answer. Queue and FIFO of 2, four blocks: both fill up, and the queue is shared. | 28,725 |
| `Wifi` | Timer, results and disconnections of one attempt in every order: do the states say what the radio does, does an attempt end, does a device without a display stay reachable? | None: finite as it is, over all builds and preferences. | 1,118 |
| `WifiScan` | Which networks does the list keep? | Three networks of three strengths for two places: known, stronger, equal and displaced networks. | 17,489 |
| `Microphone` | Is a request lost between flags and semaphore, does capture stop when it must? | Two rates, to change between. | 4,794 |
| `MicrophoneBeep` | Does a beep pause capture? It expects a violation, see below. | The same instance. | – |
| `Entropy` | Do threads with old session numbers, failures, retries and cancellations corrupt the transcript, leave a source running, or starve or hog the camera? | Three sessions: the camera thread may be two behind. Target 2: a first and a last unit. All sets of sources. | 118,012 |
| `Imu` | Does the driver ever compute times that its own reader refuses? Does a request get lost, or the sensor stay on? | Threshold 2 instead of 5: a failure that is tolerated and one that is not. Batches of up to 3, period 3: the division in `Respread` leaves a remainder, and less than a tick per sample. The clock stands still at 9, after three periods; nothing else stops there. | 84,280 |
| `Device` | Boots, resets, failing flash and chip, loss of power, a core thread that answers late, and a user who taps anything: where does the seed end up, what do pages hold and lead to, in which order is erased, how often is the update mode entered? | History of 4 instead of 8: every way of filling it is shorter. One source, one icon that toggles a page, one confirmation between two resets, one command and one result. Both builds. Two constraints (below). | 1,083,317 |

The constraints of `MCDevice` cut what multiplies without meeting: `OneFailure` stops where, while the
firmware runs, flash and chip have both failed or a failed flash holds an update request, and
`FlashConfirms` leaves confirmations to the build without the secure element (their interplay with
pages is the same in both). Neither hides a loss of power: that is possible in every state explored.

`CHECK_DEADLOCK FALSE` is stated where the model may stop for a reason the program has or a bound
of the model: in `WalletFido`, when no request is left to be made; in `Entropy`, when the sessions
are used up; in `Transports`, when links, requests and blocks are; in `Wifi`, when nothing more happens to the
device.

Each property says, in the comment before it, which code it is about. In short:

* `NxpStore`: `SnapshotTruthful` (the UI's snapshot between calls), `HonestResults` (return
  codes and the released seed), `OneVerification` (attempts), `Recoverable` (no dead end over a
  working link), `ImplementsSecureSeed` (refinement).
* `Wallet`: `ApprovalIsConsent`, `PresenceIsReal`, `ConfirmationCoherent`, `PayloadsAccounted`
  (a part of `TypeOK`), `ImplementsConsent` (refinement, on `WalletFido`), and the liveness properties `RequestEnds`, `GivenUpIsForgotten`,
  `ConfirmationGetsShown`, `OverlayGoesAway`.
* `Device`: `SeedAtRest` (no seed under an empty PIN, none in flash besides one in the chip),
  `SetupEnds` (a setup takes its PIN, phrase and passphrase with it; the collector captures for its
  own page only), `NavigationSound` (no page without a way back but the roots, nothing in the history
  that cannot be drawn, the screen shows the page the UI believes in), `EraseOrder`, and the action
  property `UpdateModeOnce`.
* `Entropy`: `TranscriptCanonical` (what the Rust core demands of a transcript),
  `OnlyCurrentRuns`, and the liveness properties `CameraServed`, `CameraReleased`.
* `QrScanner`: `OneCameraUser` (the promise of `docs/mnemonic-entropy.md:56`), `CopiesAreCurrent`,
  `NothingEndsIt`, and the liveness properties `SessionServed`, `LeavingStopsFilming`.
* `Imu`: `BatchAccepted`, and the liveness property `AcquisitionFollows`.
* `Transports`: `UartInOrder`, `AnswersStayInSession`, and the liveness properties
  `UartReadsAgain`, `ReachableAgain`.
* `Wifi`: `StateTellsRadio`, and the liveness properties `AttemptHasEnd`, `HeadlessReachable`.
  `WifiScan`: `ListIsStrongest`, and the liveness property `ScanEnds`.
* `Microphone`: the liveness property `CaptureFollows`.

Type invariants are not listed again: each module has one, and it is a conjunct of the first property
of its run (`TranscriptCanonical`, `UartInOrder`, `CopiesAreCurrent`, `StateTellsRadio`,
`NavigationSound`, `BatchAccepted`, `CaptureFollows`).

Two of `Device`'s properties are narrower than one would wish, and say so in their comments.
`SeedAtRest` claims a PIN for seeds in flash only: in a build with the secure element a result that
is late may submit a wallet with an empty PIN, and it is the runtime that refuses. `SetupEnds` speaks
of the pages that clear; `LOCKED` and the storage error page are not among them.

One run found the code in disagreement with its documents. `docs/board/esp32s3-lichuang-audio.md:55`
says that a local notification sound pauses capture. `app_microphone_pause` takes
`microphone_running = 0` for "stopped" (`microphone.c:439`), but the capture thread reports that it
runs only when its start is over (`:240`): a beep in that window is played while capture starts and
runs. `MicrophoneBeep` refutes `PlayingPausesCapture` with such an order; the overlap ends when the thread has read a block.

Other behaviours met on the way contradict no document but are worth a look. Start and stop:

* `app_qr_scanner_stop` reads the scanner's state (`qr_scanner.c:251`) and publishes `STOPPING`
  later (`:260`). If the scanner thread ends its session in between, `STOPPING` is the last state
  published, and nothing ever changes it: each later start is refused as already running. The
  order is reachable in `QrScanner`; on a device it depends on priorities and time slicing.
* `preview_buffer` is zeroed when it is allocated (`ui_qr.c:71`) and never again: `RUNNING` makes an image
  of it (`:93-97`) that shows the last frame an earlier page copied, until the first copy 100 ms later or, if
  a result stops the timer before that (`:154-157`), until the page is left. `QrScanner` reaches both.
  `CopiesAreCurrent` therefore speaks of the time from the first copy on.
* A camera stop that fails keeps `camera_in_use` (`camera.c`), and nobody tries again: the camera
  is taken until the next start of the device.
* The entropy camera loop with no frames at all never asks whether its session still exists.
* The IMU reports a failure only when its count *equals* the threshold (`imu.c:339`). While starts
  go on failing the count stays above, so that a later Tilt page or collection sees no error, although
  `docs/mnemonic-entropy.md` lets a failed source be retried or skipped.
* Advertising that fails to start is not tried again: `start_advertising` (`bluetooth.c`) runs at
  the start and when a connection object is recycled, and without a connection none is.
* A pause of the microphone that takes longer than 250 ms skips the beep and is not taken back
  (`audio.c:267-270`): capture stays off until the next beep has played.
* A Wi-Fi scan that is claimed between the end of the scan before and its sort may be shown as
  ready, with an empty list, while it runs (`wifi.c:676-683`); its own end corrects this. A headless
  access point that fails is not tried again.

The touch UI and reset:

* `busy` is one boolean for all outstanding requests. A confirmation that is withdrawn clears it, so
  that a second request may be submitted, and the late result of the first pushes the phrase's page
  after the PIN of the setup was cleared.
* A confirmation withdrawn between its reading and its drawing while the keyboard is open leaves the
  UI on the page CONFIRMATION with the page before on the screen.
* A full history drops the page, not the push: Back then skips a page, which may be the one that
  would have cleared what is held. The setup reached over the secure element's page is longer than the
  eight places.
* The page after a lock that was asked for on the secure element's page has no arrow, while a lock
  elsewhere leaves Settings or Home reachable by Back.
* The storage error page is not shown over the camera, the QR scanner or the secure element's page,
  and covers a confirmation that waits. Its "Erase" always ends with `-ENODEV` when `storage_init`
  had failed, because `fs` is not set.
* A power loss, or a failed erasure, between chip and flash leaves passkeys and settings beside an
  empty chip; after a failure the runtime still says Ready. `EraseOrder` shows that it is never the
  other way round.
* The import page accepts an empty phrase; the runtime refuses it.

## Fairness

* A thread of the firmware that can take a step takes it: Zephyr's scheduler runs every ready
  thread, and each of them blocks between its steps (`WF` on the core thread, the FIDO2 client,
  the button's work item, the UI's event thread and start, the camera thread).
* Nobody has to use the device: the user's choices, requests, touches, transports, and the
  steps of a sensor's thread have no fairness.
* `SF` on the submissions of a FIDO2 cancellation. They wait in `k_msgq_put()`; Zephyr hands a
  freed slot to the thread that waits, before any later caller can take it, so a waiter is not
  overtaken for ever.
* `SF` on `CamFrame` and `CamFeed`: while the camera runs, frames arrive, and sooner or later one
  is due for sampling (200 ms after the last). If frames stop for ever `video_dequeue` gives
  `-EAGAIN` for ever and the camera is held; the hazard list says so.
* `SF` on `Judge` of `QrScanner`: the scanner thread waits for `result_lock`, which the decoder
  takes and gives back; Zephyr hands a mutex to its waiter. Everything else of the scanner is `WF`
  per thread: `video_dequeue` waits 200 ms at most, so the loop turns whether frames come or not.
* In `Transports` the core thread, the UART's interrupt and work item, the receive thread and the
  system work queue are `WF`; peers need not connect, stay or send. `bt_gatt_notify` returns. The
  UART retries every two milliseconds while the core thread empties the queue; it is not kept
  out for ever because only a bounded number of Bluetooth requests compete (`MaxRequests`).
* In `Wifi` the three threads are `WF`, which includes that an armed timer expires; the driver has no
  fairness, it may never answer. In `WifiScan` the driver ends a scan it has accepted: the code has
  no timer for it and relies on this.
* In `Microphone` the capture thread is `WF` (`i2s_read` returns after 100 ms at most) and so is a
  beep that was begun; requests and read errors are not.
* In `Imu` the acquisition thread and the timer it starts are `WF`; clients and the clock owe nothing.
* `NxpStore` states fairness of a running call only; its checked properties are safety. `Device`
  states none: every property of it is one of safety.

## Proofs

`NxpStoreProofs` proves, for every set of PIN keys, seeds and salts and every attempt limit
(assumption `NxpAssumption`: the limit is positive, and the absent value differs from the others):

| Theorem | States |
|---|---|
| `TypeCorrect` | `Spec => []TypeOK` |
| `SnapshotIsTruthful` | `Spec => []SnapshotTruthful` |
| `ResultsAreHonest` | `Spec => []HonestResults` |
| `AtMostOneVerification` | `Spec => []OneVerification` |
| `AlwaysRecoverable` | `Spec => []Recoverable` |
| `Refinement` | `Spec => ImplementsSecureSeed`: every step of the store is a step of the vault or a stutter |

None of the safety properties is inductive: they speak of moments between calls, or of
results. `IInv` adds what holds in the middle of one: what each step of a call may rely on (which
objects exist at which `pc`, that a PIN session belongs to the credential on the chip with a
cleared counter, that the snapshot is `INCOMPLETE` from the first write on, that the attempt
counter is untouched before the chip holds a PIN). The proof has one lemma per action, and
`NextInv` combines them. The refinement uses `IInv` to rule out, for example, a session that is
open when the next PIN is judged.

`Recoverable` needs two more facts of the way through a call (`Path`): that the reset object is
looked for before it is verified, and that an erasure over a working link comes to its last scan with an
empty chip, whatever an earlier call left there.

`WalletProofs` proves, for every queue depth, pool size and number of requests and confirmations,
and for every combination of display, button and transport:

| Theorem | States |
|---|---|
| `ApprovalNeedsConsent` | `Spec => []ApprovalIsConsent` |
| `PresenceNeedsConsent` | `Spec => []PresenceIsReal` |
| `ConfirmationsCoherent` | `Spec => []ConfirmationCoherent` |
| `TypeCorrect` | `Spec => []TypeOK`, with the accounts of both pools |
| `WalletKeepsItsPromise` | `Spec => ImplementsConsent`: every step is one of `Consent` or a stutter |

The first two are not inductive, because a choice travels: a press waits in the button, then in the command
queue, then with the core thread; the success of a FIDO2 request waits among the runtime's effects,
then in the result queue, behind results of requests that were given up. `IInv` says of each of
these places that it holds only *good* items: an approval names a confirmation in `consented`, a
FIDO2 command names a request that was made, and a success for the present request for user
presence is backed by a confirmation of it that was settled as approved. `Grows` and `Newer` say
how histories and request numbers may change in a step; `GoodStays` shows that then everything
good stays good, so that each action has to account only for the item it adds. `HandleCases`
reduces the runtime's reactions to three: the pending confirmation is kept, a new one is asked
for, or the pending one ends. `Publishing` keeps the effect that is being published at the head.
The theorems rest on the model of the runtime in `Handle`, and on no assumption on the constants
but `FidoAssumption` (there is a highest number of requests).

`ConfirmationCoherent` speaks of the moment between two commands; `ConfInv` says what the four copies
of a confirmation (the runtime's, the one for the UI, the button's and the published state) are at every
stage of the core thread. Only the first effect of a command may announce a confirmation or its end
(`Shapes`), so that it is enough to follow that one: while a confirmation is announced the copies appear in
their order (`Asking`), at its end they disappear (`Ending`), and otherwise all of them agree or the
confirmation is about to be rejected (`Settling`).

The pools are accounted for by a sum over each queue, and that the sum of a queue grows and shrinks by
the payload that comes and goes needs induction over its length. `SetInduction` states induction for a
*set* of naturals instead of a predicate, which keeps it first-order; `SumExists`, `SumUnique` and
`FragmentsIs` say with it that the recursive function in `Fragments` is a sum at all, `FragmentsAppend` and
`FragmentsTail` what the queues' operations do to it. `PoolInv` adds what the threads hold themselves.

The refinement follows from all of these: `CoreImplements` maps the core thread's execution to
`Ask`, `Settle` or nothing, `ClientImplements` an approval and the taking of a result to `Approve`, `Report`
and `Withdraw`. It is `PresenceIsReal` that makes a taken success a permitted `Report`.

`WifiProofs` proves, for all builds and preferences, and for every capacity of the list and all names
and strengths:

| Theorem | States |
|---|---|
| `StateIsRight` | `Spec => []StateTellsRadio` of `Wifi`, with its types |
| `ScanTypeCorrect` | `ScanSpec => []ScanTypeOK`: the list never exceeds its capacity |
| `ListIsRight` | `ScanSpec => []ListIsStrongest` |

`StateTellsRadio` speaks of a device on which everything is handled. In between, a published state may
differ from the radio's, and the invariant says who will put it right: `Queue` that each event is posted
once and a connection before its loss; `Results` which results can be on the way together, in the queue or
between a handler's check and its assignment; `Station` that a state of the station that is not the link's
has such a result on the way, or the work queue that has given up and is about to disconnect, unless that
disconnection was refused; `AccessPoint` that one thread at most is starting it and its events are not
contradictory; `Sequence` how far `wifi_start` has come.

`ListIsStrongest` speaks of the time between scans. `ScanInv` has two of its parts, `ListedOnce` and
`StrongestKept`, at every moment, and knows in `Claims` that a scan that is being requested has an
empty list, which is why a refused request leaves a sorted one. `AddKeeps` shows the two parts for
each of the ways a result is added, `SortKeeps` for the permutation of the sort.

`QrScannerProofs` proves, for every number of sessions:

| Theorem | States |
|---|---|
| `CameraExclusive` | `Spec => []OneCameraUser` |
| `PageCopiesItsSession` | `Spec => []CopiesAreCurrent` |
| `SessionsEndThemselves` | `Spec => []NothingEndsIt` |

`OneCameraUser` becomes inductive with "the flag is set while a user is not off" (`CameraHeld`).
`CopiesAreCurrent` needs to know where session numbers can be: `Numbers` relates page, thread and event
to the present session, and `Announced` says that once this session's start has been announced, the
thread works for no other one and the snapshot holds no other one's frame. The event is what
carries the fact from the thread to the page, so the invariant speaks of the event even after a newer
one has taken its place (`previewing`). The page's own buffer may hold anything before the first copy;
a copy makes it the session's.

`NothingEndsIt` relates three things that are written one after the other by three threads: the request,
the state and the result. `Turns` says whose turn it is: the thread works only for the present session, once
it has taken the semaphore, and the page opens one only when none is unfinished. `Codes` follows the
decoder, which may still store a code of an earlier session: it does so under the lock that holds up the
reset of the result, and until the first frame of a session nothing can be decoded from it. `Served`
is the promise itself: a session that its page keeps stays requested until there is a result of it, and that
result is what the thread judges, publishes and announces.

`EntropyProofs` proves, for every target and number of sessions:

| Theorem | States |
|---|---|
| `TranscriptIsCanonical` | `Spec => []TranscriptCanonical` |
| `NothingElseRuns` | `Spec => []OnlyCurrentRuns` |

Both follow from `Good`, a predicate of one context, because events are functions of it: `Books` says
that records and completed sources agree and that everything missing comes after everything done;
`AtSource` that the current source is the first that is missing. `LeftIsOff`, `EntryGood` and
`AdvanceGood` treat the transitions, and one lemma per event (`FeedGood`, `FailGood`, `RetryGood`,
`SkipGood`, `CancelGood`, `StartGood`) shows that it keeps a context good *whatever session it names*,
which is why the threads' old numbers do not appear in the invariant at all.

`TransportsProofs` proves, for every depth of queue and FIFO and all numbers of blocks, links,
requests and parts:

| Theorem | States |
|---|---|
| `BytesInOrder` | `Spec => []UartInOrder` |
| `AnswersReachTheirOwn` | `Spec => []AnswersStayInSession` |

`Order` says element by element what `UartInOrder` says of a concatenation, and `Port` that the
interrupt is off while a block is pending, without which a second one would overwrite it. `Links`
says that a session, the receive thread or the core thread keeps the object with its link; the
answer's addressee follows, because links change only on a free object.

`ImuProofs` proves `BatchesAccepted`, `Spec => []BatchAccepted`, for every batch size, period,
threshold and set of clients. The inductive part is that while the source runs the thread's last
time is the driver's; `SamplesAccepted`, `SamplesFit` and `SourceBatchFits` are the arithmetic.

`DeviceProofs` proves, for every build, history depth, queue depth and choice of features:

| Theorem | States |
|---|---|
| `ResetInOrder` | `Spec => []EraseOrder` |
| `UpdateModeEnteredOnce` | `Spec => UpdateModeOnce` |
| `NavigationIsSound` | `Spec => []NavigationSound`, with `Device`'s types |
| `SetupsEnd` | `Spec => []SetupEnds` |
| `SeedsAtRest` | `Spec => []SeedAtRest` |

For the first two, the first half of the proof shows of each operation of `Storage` that it writes no update request
(`Harmless`), so that the flag is in flash only while there is `credit`. The second half shows that
nothing but an initialization writes the chip, that one needs a command with a PIN or an empty one,
and that the core thread serves no command while it erases.

The next two are about the functions of `Ui` and `UiController`, and so is most of their proof. A UI
`u` is *sound* when it is of the right types (`Uis`), a history that is not empty starts at a root and a page
without one is a root (`Trail`), the collector is on only for a session and a session only on its page
(`Collecting`), keyboard, rows and deferred calls belong to the page that is drawn (`Offered`), and that page
is the one the UI believes in, the clearing pages holding nothing (`Matching`). The last part alone may fail
for a moment, while a page is being prepared or a confirmation has been withdrawn, and drawing restores it
whatever was there (`DrawnSound`): hence `Base`, which is `Sound` without `Matching`. One lemma per
function of the code shows that it takes a sound UI to a sound one and never to the splash screen (`Turned`),
or asks the core to mix only from a page that offers nothing else (`Stepped`); `PreviousIs` shows that Back
always finds a page that can be drawn, because the first of the history is a root and thus no confirmation.
Above the functions, `Navigable` adds the queues and marks (`Limits`) and that nothing is asked of the core
before the first page (`Calm`), without which a result could find the splash screen.

`SeedsAtRest` needs both. That a seed in flash has a PIN is decided long before it is written: the storage
takes whatever PIN the request brings, and the request takes what the UI holds when the last page of a setup
is left. `RestInv`, the third layer over `IInv` and `Navigable`, follows the PIN there. While a device is
`Fresh` (it runs, has no secure element, an open store and nothing set up):

* `Setup` says where the UI may be. Its `Place` is one of the pages of a setup, and beyond the first PIN page the
  PIN is held, on every page it can go back to as well (`WaysBack`); its `Face` offers nothing that leaves them;
  while it is `Waiting` for the core no submission is deferred.
* `Unasked` says that no confirmation was ever asked for, nor an erasure: either would take the setup off the
  screen.
* `Flight` says that at most one request of the setup, or its result, is on its way, and that a request to
  store a seed carries the PIN (`Proper`).

The lemmas about the storage (`InitializeRests`) say the rest: with the element the seed goes to flash in no case,
and to the element only if flash has none; without, a failure closes the store, after which nothing is written
until the next start. `Honest` ties the two descriptions of an open store together. A wallet that is
set up is no longer `Fresh`, which is why nothing need be said about the pages of one. `RestInv` was also
evaluated on every state of `MCDevice`'s instance, where `Fresh` devices with a request to store a seed occur.

## Only model-checked

Every invariant that a run checks is stated by a theorem, or is a part of one that is.

`MCMicrophone`'s `CaptureFollows` and all other liveness properties stay with TLC: liveness under
fairness and `ENABLED` are out of the prover's reach.

## Not modelled

Each component without a module is in `PROJECT.json` with its reason. In general: bytes, key
derivation, APDU and CBOR encoding, rendering, register programming; the wallet runtime, the NXP
applet, Zephyr and LVGL, which are outside `src/src` and appear only as what the code here can
observe of them; answers of the protocol to a transport, which change no state of the core.

In particular:

* Update mode itself: the change of firmware, its confirmation after a healthy start (`boot.c`), and
  the counters of unlocking and of FIDO2 signatures in flash.
* Wi-Fi settings: storing and deleting credentials and preferences, where `network_configure` may
  store a network and then fail on the preference, and a full list of credentials is emptied; and the
  copies published for the UI, which may be older than the state.
* HTTP, MQTT and the portal. They are sequences of socket calls around library clients; what could
  interleave is in those libraries.
* The microphone's ring buffer and USB audio packets: data that was captured before a stop may be
  read after it.
* The file browser, clock, battery and the texts of the status bar.
* The USB bulk layer, which belongs to a test build, and mass storage.
* Drivers of boards: codecs, touch controllers, panels. The one driver with an algorithm of its own,
  `qmi8658a_fifo`, is in `Imu`.

## Plan

What would come next, in order of importance:

1. An abstract specification of a session of the entropy collection that `Entropy` implements: sources chosen,
   each done, failed or skipped once, a transcript at the end.
2. The same for the QR scanner: one session, one verdict.
3. Wi-Fi credentials and preferences over `Storage`; then the portal.
4. The update: two images, the trial start, its confirmation and the loss of power in between.
