------------------------------ MODULE NxpStore ------------------------------
(***************************************************************************)
(* The seed store on the A5000 secure element: src/security/nxp/store.c    *)
(* over the APDU layer src/security/nxp/device.c.  One call runs at a time *)
(* (nxp_store_mutex); a call is a sequence of protected exchanges with the *)
(* chip, each of which may be lost before the chip acts or after it did.   *)
(* Power may be lost between any two steps: the chip objects and the       *)
(* failure counter persist, every static of the MCU is reset.              *)
(*                                                                         *)
(* Abstracted: key bytes (members of small sets), the credential           *)
(* HMAC(pin_key, salt) as the pair of its inputs, APDU encoding, and the   *)
(* read-only exchanges of one scan, merged because nothing else talks to   *)
(* the chip and `state' is written only when they are over.                *)
(***************************************************************************)
EXTENDS Naturals

CONSTANTS PinKeys,   \* PIN-derived keys a caller may submit
          Seeds,     \* wallet seeds a caller may store
          Salts,     \* values the random generator may return
          Limit,     \* NXP_PIN_LIMIT, 10 in the firmware
          NoValue    \* an absent object, a wiped buffer

ASSUME NxpAssumption ==
  /\ Limit \in Nat \ {0}
  /\ NoValue \notin PinKeys \cup Seeds \cup Salts \cup (PinKeys \X Salts) \cup {"PIN", "RESET"}

VARIABLES
  chipPin, chipSeed, chipSalt,  \* the three wallet objects on the chip
  chipReset,   \* factory reset UserID: "absent", "ours", "other" credential
  failures,    \* chip's persistent count of rejected PIN verifications
  configured,  \* nxp_credentials_load() finds provisioned keys
  state,       \* MCU snapshot, enum nxp_state
  scanned,     \* MCU flag: state was read from the chip once since reset
  user,        \* object of the open user session (in_user_session)
  authId,      \* authenticated_id
  pc, op,      \* step and entry point of the running call
  pin, seed,   \* the caller's arguments
  salt,        \* salt generated or read by the running call
  healthy,     \* no exchange or crypto call of the running call fails
  verifies,    \* PIN verifications the chip executed for this call (history)
  out, rc      \* the caller's seed buffer and the return value

chipVars == <<chipPin, chipSeed, chipSalt, chipReset, failures>>
mcuVars  == <<state, scanned>>
linkVars == <<user, authId>>
argVars  == <<op, pin, seed, healthy>>
vars == <<chipVars, configured, mcuVars, linkVars, argVars, pc, salt, verifies, out, rc>>

Ops    == {"refresh", "exists", "initialize", "unlock", "erase"}
States == {"UNCONFIGURED", "UNAVAILABLE", "EMPTY", "READY", "AUTH_REJECTED", "INCOMPLETE"}
Results == {"none", "OK", "ERROR", "PIN_REJECTED", "ABSENT", "PRESENT"}
Steps  == {"idle", "scan", "eraseOpen", "resetUser", "resetVerify", "initOpen", "writeSalt",
           "writePin", "writeSeed", "readSalt", "verify", "readSeed", "deleteAll"}
Credentials == PinKeys \X Salts

\* What an exchange may do: be answered, be executed with the answer lost, or never arrive.
Replies == IF healthy THEN {"ok"} ELSE {"ok", "lost", "undelivered"}

Wallet == <<chipPin, chipSeed, chipSalt>>
ChipEmpty == chipPin = NoValue /\ chipSeed = NoValue /\ chipSalt = NoValue
ChipFull  == chipPin # NoValue /\ chipSeed # NoValue /\ chipSalt # NoValue

\* scan(): the state the three existence answers stand for.
ScanState == IF ChipEmpty THEN "EMPTY" ELSE IF ChipFull THEN "READY" ELSE "INCOMPLETE"

\* app_nxp_seed_exists(): the answer given from the snapshot.
ExistsResult(s) == IF s = "EMPTY" THEN "ABSENT"
                   ELSE IF s \in {"READY", "AUTH_REJECTED"} THEN "PRESENT" ELSE "ERROR"

\* `done:' of every entry point: close the channel, wipe, unlock the mutex, return.
Return(result, st, buffer) ==
  /\ pc' = "idle"
  /\ rc' = result
  /\ state' = st
  /\ out' = buffer
  /\ scanned' = (scanned \/ op # "unlock")
  /\ user' = NoValue /\ authId' = NoValue /\ salt' = NoValue
  /\ UNCHANGED <<argVars, verifies>>

\* The error exits: provisioning leaves INCOMPLETE, everything else UNAVAILABLE.
Provisioning == op = "initialize" /\ pc \in {"writeSalt", "writePin", "writeSeed", "verify", "readSeed"}
Fail == Return("ERROR", IF Provisioning THEN state ELSE "UNAVAILABLE", NoValue)

Goto(step) ==
  /\ pc' = step
  /\ UNCHANGED <<argVars, mcuVars, out, rc, verifies>>

-----------------------------------------------------------------------------
(* Entry points.                                                           *)

Call(o, k, s, h) ==
  /\ pc = "idle"
  /\ op' = o /\ pin' = k /\ seed' = s /\ healthy' = h
  /\ out' = NoValue /\ rc' = "none" /\ verifies' = 0
  /\ pc' = IF o = "erase" THEN "eraseOpen" ELSE "scan"
  /\ UNCHANGED <<chipVars, configured, mcuVars, linkVars, salt>>

Refresh    == \E h \in BOOLEAN : Call("refresh", NoValue, NoValue, h)
Initialize == \E k \in PinKeys, s \in Seeds, h \in BOOLEAN : Call("initialize", k, s, h)
Unlock     == \E k \in PinKeys, h \in BOOLEAN : Call("unlock", k, NoValue, h)
Erase      == \E h \in BOOLEAN : Call("erase", NoValue, NoValue, h)

\* app_nxp_seed_exists(): a scan the first time, afterwards only the snapshot.
SeedExists ==
  \/ ~scanned /\ \E h \in BOOLEAN : Call("exists", NoValue, NoValue, h)
  \/ /\ scanned /\ pc = "idle"
     /\ op' = "exists" /\ pin' = NoValue /\ seed' = NoValue /\ healthy' = TRUE
     /\ rc' = ExistsResult(state) /\ out' = NoValue /\ verifies' = 0
     /\ UNCHANGED <<chipVars, configured, mcuVars, linkVars, pc, salt>>

-----------------------------------------------------------------------------
(* Steps of a call.                                                        *)

\* Where a call goes once scan() has read all three objects.
ScanRead ==
  CASE op = "initialize" /\ ChipEmpty ->
         /\ pc' = "resetUser" /\ state' = "EMPTY"
         /\ user' = NoValue /\ authId' = NoValue
         /\ UNCHANGED <<argVars, scanned, salt, verifies, out, rc>>
    [] op = "unlock" /\ ChipFull ->
         /\ pc' = "readSalt" /\ state' = "READY"
         /\ user' = NoValue /\ authId' = NoValue
         /\ UNCHANGED <<argVars, scanned, salt, verifies, out, rc>>
    [] op = "refresh" ->
         Return(IF ScanState = "INCOMPLETE" THEN "ERROR" ELSE "OK", ScanState, NoValue)
    [] op = "exists" -> Return(ExistsResult(ScanState), ScanState, NoValue)
    [] op = "erase" ->
         IF ChipEmpty THEN Return("OK", "EMPTY", NoValue)
                      ELSE Return("ERROR", "UNAVAILABLE", NoValue)
    [] OTHER -> Return("ERROR", ScanState, NoValue)

\* scan() failed: open or one of the existence queries.
ScanFailed ==
  LET st == IF configured \/ op = "erase" THEN "UNAVAILABLE" ELSE "UNCONFIGURED"
  IN  Return(IF op = "exists" THEN ExistsResult(st) ELSE "ERROR", st, NoValue)

Scan ==
  /\ pc = "scan"
  /\ \/ configured /\ ScanRead
     \/ (~configured \/ ~healthy) /\ ScanFailed
  /\ UNCHANGED <<chipVars, configured>>

\* Opening a channel drops the user session of the previous one.
EraseOpen ==
  /\ pc = "eraseOpen"
  /\ \/ /\ configured
        /\ user' = NoValue /\ authId' = NoValue
        /\ Goto("resetUser") /\ UNCHANGED salt
     \/ (~configured \/ ~healthy) /\ Fail
  /\ UNCHANGED <<chipVars, configured>>

\* Faulty variant: a missing reset UserID is never created.
ResetUserNeverCreates ==
  /\ pc = "resetUser"
  /\ IF chipReset # "absent" THEN Goto("resetVerify") /\ UNCHANGED <<linkVars, salt>> ELSE Fail
  /\ UNCHANGED <<chipVars, configured>>

\* nxp_device_reset_auth(), first half: create the reset UserID when it is missing.
ResetUser ==
  /\ pc = "resetUser"
  /\ \E r \in Replies :
       /\ chipReset' = IF chipReset = "absent" /\ r # "undelivered" THEN "ours" ELSE chipReset
       /\ IF r = "ok" THEN Goto("resetVerify") /\ UNCHANGED <<linkVars, salt>> ELSE Fail
  /\ UNCHANGED <<chipPin, chipSeed, chipSalt, failures, configured>>

\* Second half: nxp_device_auth(NXP_RESET_ID), which needs a channel with no user session.
ResetVerify ==
  /\ pc = "resetVerify"
  /\ \E r \in Replies :
       IF r = "ok" /\ user = NoValue /\ chipReset = "ours"
       THEN /\ user' = "RESET" /\ authId' = "RESET"
            /\ Goto(IF op = "erase" THEN "deleteAll" ELSE "initOpen")
            /\ UNCHANGED salt
       ELSE Fail
  /\ UNCHANGED <<chipVars, configured>>

\* Faulty variant: the snapshot is not marked INCOMPLETE before the first write.
InitOpenUnmarked ==
  /\ pc = "initOpen"
  /\ \/ \E s \in Salts :
          /\ pc' = "writeSalt" /\ salt' = s
          /\ user' = NoValue /\ authId' = NoValue
          /\ UNCHANGED <<argVars, mcuVars, verifies, out, rc>>
     \/ ~healthy /\ Fail
  /\ UNCHANGED <<chipVars, configured>>

\* A fresh channel, a random salt and the credential; from here on a failure is INCOMPLETE.
InitOpen ==
  /\ pc = "initOpen"
  /\ \/ \E s \in Salts :
          /\ pc' = "writeSalt" /\ salt' = s /\ state' = "INCOMPLETE"
          /\ user' = NoValue /\ authId' = NoValue
          /\ UNCHANGED <<argVars, scanned, verifies, out, rc>>
     \/ ~healthy /\ Fail
  /\ UNCHANGED <<chipVars, configured>>

\* An object is never replaced: the chip refuses to write one that exists.
Stored(object, value, r) == IF object = NoValue /\ r # "undelivered" THEN value ELSE object

WriteSalt ==
  /\ pc = "writeSalt"
  /\ \E r \in Replies :
       /\ chipSalt' = Stored(chipSalt, salt, r)
       /\ IF r = "ok" /\ chipSalt = NoValue
          THEN Goto("writePin") /\ UNCHANGED <<linkVars, salt>> ELSE Fail
  /\ UNCHANGED <<chipPin, chipSeed, chipReset, failures, configured>>

WritePin ==
  /\ pc = "writePin"
  /\ \E r \in Replies :
       /\ chipPin' = Stored(chipPin, <<pin, salt>>, r)
       /\ failures' = IF chipPin' # chipPin THEN 0 ELSE failures
       /\ IF r = "ok" /\ chipPin = NoValue
          THEN Goto("writeSeed") /\ UNCHANGED <<linkVars, salt>> ELSE Fail
  /\ UNCHANGED <<chipSeed, chipSalt, chipReset, configured>>

WriteSeed ==
  /\ pc = "writeSeed"
  /\ \E r \in Replies :
       /\ chipSeed' = Stored(chipSeed, seed, r)
       /\ IF r = "ok" /\ chipSeed = NoValue
          THEN Goto("verify") /\ UNCHANGED <<linkVars, salt>> ELSE Fail
  /\ UNCHANGED <<chipPin, chipSalt, chipReset, failures, configured>>

ReadSalt ==
  /\ pc = "readSalt"
  /\ \/ /\ salt' = chipSalt
        /\ Goto("verify") /\ UNCHANGED linkVars
     \/ ~healthy /\ Fail
  /\ UNCHANGED <<chipVars, configured>>

\* The chip's verdict on a PIN: an exhausted counter rejects even the right one.
PinAccepted == failures < Limit /\ chipPin = <<pin, salt>>

\* Faulty variant: a verification whose answer is lost is sent again.
VerifyAgain ==
  /\ pc = "verify" /\ ~PinAccepted
  /\ failures' = IF failures < Limit THEN failures + 1 ELSE failures
  /\ verifies' = verifies + 1
  /\ UNCHANGED <<chipPin, chipSeed, chipSalt, chipReset, configured, mcuVars, linkVars, argVars,
                 pc, salt, out, rc>>

\* Faulty variant: any answered verification counts as accepted.
VerifyAnswered ==
  /\ pc = "verify"
  /\ failures' = IF PinAccepted THEN 0 ELSE IF failures < Limit THEN failures + 1 ELSE failures
  /\ verifies' = verifies + 1 /\ user' = "PIN" /\ authId' = "PIN" /\ pc' = "readSeed"
  /\ UNCHANGED <<chipPin, chipSeed, chipSalt, chipReset, configured, argVars, mcuVars, salt, out, rc>>

\* nxp_device_auth(NXP_PIN_ID): one verification, whatever becomes of its answer.
Verify ==
  /\ pc = "verify"
  /\ \E r \in Replies :
       LET arrives  == user = NoValue /\ r # "undelivered"
           accepted == arrives /\ PinAccepted
       IN  /\ failures' = IF accepted THEN 0
                          ELSE IF arrives /\ failures < Limit THEN failures + 1 ELSE failures
           /\ verifies' = IF arrives THEN verifies + 1 ELSE verifies
           /\ IF r = "ok" /\ accepted
              THEN /\ user' = "PIN" /\ authId' = "PIN" /\ pc' = "readSeed"
                   /\ UNCHANGED <<argVars, mcuVars, salt, out, rc>>
              ELSE LET rejected == r = "ok" /\ arrives /\ op = "unlock"
                   IN  /\ pc' = "idle"
                       /\ rc' = IF rejected THEN "PIN_REJECTED" ELSE "ERROR"
                       /\ state' = IF rejected THEN "AUTH_REJECTED"
                                   ELSE IF Provisioning THEN state ELSE "UNAVAILABLE"
                       /\ out' = NoValue
                       /\ scanned' = (scanned \/ op # "unlock")
                       /\ user' = NoValue /\ authId' = NoValue /\ salt' = NoValue
                       /\ UNCHANGED argVars
  /\ UNCHANGED <<chipPin, chipSeed, chipSalt, chipReset, configured>>

\* nxp_device_read(NXP_SEED_ID) needs a PIN session.  initialize compares what it reads with
\* the caller's seed and reports success; unlock hands it to the caller.
ReadSeed ==
  /\ pc = "readSeed"
  /\ \/ /\ authId = "PIN"
        /\ CASE op = "unlock"                       -> Return("OK", state, chipSeed)
             [] op = "initialize" /\ chipSeed = seed -> Return("OK", "READY", NoValue)
             [] OTHER                               -> Fail
     \/ (~healthy \/ authId # "PIN") /\ Fail
  /\ UNCHANGED <<chipVars, configured>>

\* Faulty variant: erase reports success without looking at the chip again.
DeleteAllTrusted ==
  /\ pc = "deleteAll"
  /\ \E r \in Replies :
       IF r # "undelivered"
       THEN /\ chipPin' = NoValue /\ chipSeed' = NoValue /\ chipSalt' = NoValue
            /\ chipReset' = "absent" /\ failures' = 0
       ELSE UNCHANGED chipVars
  /\ Return("OK", "EMPTY", NoValue)
  /\ UNCHANGED configured

\* The answer of DeleteAll proves nothing: scan again over a fresh channel.
DeleteAll ==
  /\ pc = "deleteAll"
  /\ \E r \in Replies :
       IF authId = "RESET" /\ r # "undelivered"
       THEN /\ chipPin' = NoValue /\ chipSeed' = NoValue /\ chipSalt' = NoValue
            /\ chipReset' \in {"absent", "ours"}
            /\ failures' = 0
       ELSE UNCHANGED chipVars
  /\ Goto("scan")
  /\ UNCHANGED <<linkVars, salt, configured>>

\* Power is lost: the chip keeps its objects and counter, the MCU starts over.
PowerLoss ==
  /\ pc' = "idle" /\ op' = "refresh" /\ pin' = NoValue /\ seed' = NoValue /\ healthy' = TRUE
  /\ state' = "UNAVAILABLE" /\ scanned' = FALSE
  /\ user' = NoValue /\ authId' = NoValue /\ salt' = NoValue
  /\ out' = NoValue /\ rc' = "none" /\ verifies' = 0
  /\ UNCHANGED <<chipVars, configured>>

Init ==
  /\ chipPin = NoValue /\ chipSeed = NoValue /\ chipSalt = NoValue
  /\ chipReset \in {"absent", "ours", "other"} /\ failures = 0
  /\ configured \in BOOLEAN
  /\ state = "UNAVAILABLE" /\ scanned = FALSE
  /\ user = NoValue /\ authId = NoValue
  /\ pc = "idle" /\ op = "refresh" /\ pin = NoValue /\ seed = NoValue /\ salt = NoValue
  /\ healthy = TRUE /\ verifies = 0 /\ out = NoValue /\ rc = "none"

Step ==
  \/ Scan \/ EraseOpen \/ ResetUser \/ ResetVerify \/ InitOpen \/ WriteSalt \/ WritePin
  \/ WriteSeed \/ ReadSalt \/ Verify \/ ReadSeed \/ DeleteAll

Next ==
  \/ Refresh \/ SeedExists \/ Initialize \/ Unlock \/ Erase
  \/ Step
  \/ PowerLoss

\* A call that started keeps running: the core thread owns it and every exchange times out.
Spec == Init /\ [][Next]_vars /\ WF_vars(Step)

-----------------------------------------------------------------------------
(* Properties.                                                             *)

FlagsOK == configured \in BOOLEAN /\ healthy \in BOOLEAN /\ scanned \in BOOLEAN
DataOK ==
  /\ chipPin \in Credentials \cup {NoValue}
  /\ chipSeed \in Seeds \cup {NoValue}
  /\ chipSalt \in Salts \cup {NoValue}
  /\ chipReset \in {"absent", "ours", "other"}
  /\ failures \in 0..Limit
  /\ state \in States /\ pc \in Steps /\ op \in Ops
  /\ user \in {NoValue, "PIN", "RESET"} /\ authId \in {NoValue, "PIN", "RESET"}
  /\ pin \in PinKeys \cup {NoValue} /\ seed \in Seeds \cup {NoValue}
  /\ salt \in Salts \cup {NoValue}
  /\ verifies \in Nat
  /\ out \in Seeds \cup {NoValue} /\ rc \in Results

\* Every variable keeps its range (statics of store.c and device.c, objects of the chip).
TypeOK == FlagsOK /\ DataOK

\* Between calls the snapshot the UI reads never claims a wallet that is not complete on the
\* chip, nor an empty chip that holds an object, whatever replies were lost (store.c:30-33,
\* 89, 104, 139, 172).
SnapshotTruthful ==
  pc = "idle" => /\ state \in {"READY", "AUTH_REJECTED"} => ChipFull
                 /\ state = "EMPTY" => ChipEmpty

\* A reported success is a fact of the chip: a created wallet is stored with the caller's PIN
\* and seed; a seed is released only as stored, to its PIN, with the counter reset; an erased
\* chip holds none of the three objects; "absent" means empty (store.c:97-105, 137-149, 167).
HonestResults ==
  /\ op = "initialize" /\ rc = "OK" =>
       chipSeed = seed /\ chipSalt # NoValue /\ chipPin = <<pin, chipSalt>>
  /\ out # NoValue =>
       op = "unlock" /\ rc = "OK" /\ out = chipSeed /\ chipPin = <<pin, chipSalt>> /\ failures = 0
  /\ op = "unlock" /\ rc = "OK" => out # NoValue
  /\ (op = "erase" /\ rc = "OK") \/ rc = "ABSENT" => ChipEmpty /\ failures = 0

\* A submitted PIN costs at most one verification, and "rejected" is never said of the right
\* PIN of a wallet with attempts left (store.c:135-141; nxp-a5000.md: one authentication per
\* submission, never repeated after a timeout).
OneVerification ==
  /\ verifies <= 1
  /\ rc = "PIN_REJECTED" => verifies = 1 /\ (failures = Limit \/ chipPin # <<pin, chipSalt>>)

\* No reachable chip is a dead end for the owner of the reset credential: over a link that
\* works, erase succeeds, then provisioning of an empty chip does, and unlocking a complete
\* wallet ends with the seed or a rejection (store.c:75-105, 127-142, 161-168).
Recoverable ==
  pc = "idle" /\ healthy /\ configured /\ rc = "ERROR" =>
    /\ op \in {"erase", "initialize"} /\ ~ChipFull => chipReset = "other" \/ ~ChipEmpty
    /\ op = "erase" => chipReset = "other"
    /\ op = "unlock" => ~ChipFull

Stage == IF ChipEmpty THEN "empty" ELSE IF ChipFull THEN "full" ELSE "partial"

Vault == INSTANCE SecureSeed
           WITH stage <- Stage, owner <- IF ChipFull THEN chipPin[1] ELSE NoValue,
                content <- IF ChipFull THEN chipSeed ELSE NoValue, tries <- failures,
                session <- (authId = "PIN"), released <- out

\* The store with its faults, lost replies and power losses implements the abstract vault.
ImplementsSecureSeed == Vault!Spec
=============================================================================
