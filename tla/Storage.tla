------------------------------- MODULE Storage -------------------------------
(***************************************************************************)
(* The flash store of src/storage.c over ZMS (its CONFIG_OSKEY_STORAGE     *)
(* variant) as functions of a record s: what the flash holds, which        *)
(* survives a reset, and the statics `fs', `storage_initialized' and the   *)
(* published app_storage_state_chan, which do not.  Any ZMS call may fail  *)
(* at any time, and a failed write or delete may have taken effect: an     *)
(* operation is the set of its outcomes [store, ret].                      *)
(***************************************************************************)
EXTENDS Integers

\* Return values; a wallet in flash is protected by a PIN ("pin") or by an empty one ("open").
ENOENT == -2
EIO    == -5
ENODEV == -19
Ids    == {"seed", "update"}
Values == {"none", "open", "pin", "set"}
Stores == [flash : [Ids -> Values], fs : BOOLEAN, ready : BOOLEAN,
           chan : {"INITIALIZING", "READY", "ERROR"}]

Outcome(s, ret) == [store |-> s, ret |-> ret]
Holds(s, id) == s.flash[id] # "none"
EmptyFlash == [id \in Ids |-> "none"]

\* What a reset leaves: the flash.
PoweredOff(s) == [s EXCEPT !.fs = FALSE, !.ready = FALSE, !.chan = "INITIALIZING"]

InitResult(s, ret) ==
  Outcome([s EXCEPT !.ready = (ret >= 0), !.chan = IF ret < 0 THEN "ERROR" ELSE "READY"], ret)

\* Faulty variant: the failure is published, and the store stays open.
RuntimeResultOpen(s, ret) ==
  Outcome(IF ret < 0 /\ ret # ENOENT THEN [s EXCEPT !.chan = "ERROR"] ELSE s, ret)

\* storage_runtime_result(): a failure other than "no such entry" closes the store.
RuntimeResult(s, ret) ==
  Outcome(IF ret < 0 /\ ret # ENOENT THEN [s EXCEPT !.ready = FALSE, !.chan = "ERROR"] ELSE s,
          ret)

\* storage_init(): a failure leaves fs NULL.
StorageInit(s) == {InitResult(s, EIO), InitResult([s EXCEPT !.fs = TRUE], 0)}

SettingsLoad(s) == {RuntimeResult(s, ret) : ret \in {0, EIO}}

Exists(s, id) ==
  IF ~s.ready THEN {Outcome(s, ENODEV)}
  ELSE {Outcome(s, IF Holds(s, id) THEN 1 ELSE 0), RuntimeResult(s, EIO)}

Write(s, id, value) ==
  LET done == [s EXCEPT !.flash[id] = value]
  IN  IF ~s.ready THEN {Outcome(s, ENODEV)}
      ELSE {Outcome(done, 0), RuntimeResult(done, EIO), RuntimeResult(s, EIO)}

Read(s, id) ==
  IF ~s.ready THEN {Outcome(s, ENODEV)}
  ELSE {RuntimeResult(s, IF Holds(s, id) THEN 1 ELSE ENOENT), RuntimeResult(s, EIO)}

Delete(s, id) ==
  LET done == [s EXCEPT !.flash[id] = "none"]
  IN  IF ~s.ready THEN {Outcome(s, ENODEV)}
      ELSE {RuntimeResult(done, 0), RuntimeResult(done, EIO), RuntimeResult(s, EIO)}

\* storage_erase_flash(): closes the store even when nothing could be erased.
EraseFlash(s) ==
  LET closed == [s EXCEPT !.ready = FALSE]
      erased == [closed EXCEPT !.flash = EmptyFlash]
  IN  IF ~s.fs THEN {Outcome(s, ENODEV)}
      ELSE {Outcome(erased, 0)} \cup {Outcome([t EXCEPT !.chan = "ERROR"], EIO) : t \in {closed, erased}}

=============================================================================
