--------------------------- MODULE NxpStoreProofs ---------------------------
(***************************************************************************)
(* Safety of the secure element store for every PIN, seed, salt and limit. *)
(* The properties of NxpStore are not inductive: a reply that is lost      *)
(* leaves facts on the chip that only the step of the call remembers.      *)
(* IInv says, for each step, what the chip already holds and which session *)
(* is open; the properties follow from it between calls.                   *)
(***************************************************************************)
EXTENDS NxpStore, TLAPS

\* Which entry points can stand at a step.
StepOfOp ==
  /\ pc = "eraseOpen" \/ pc = "deleteAll" => op = "erase"
  /\ pc = "resetUser" \/ pc = "resetVerify" => op \in {"initialize", "erase"}
  /\ pc \in {"initOpen", "writeSalt", "writePin", "writeSeed"} => op = "initialize"
  /\ pc = "readSalt" => op = "unlock"
  /\ pc = "verify" \/ pc = "readSeed" => op \in {"initialize", "unlock"}
  /\ op = "initialize" => pin \in PinKeys /\ seed \in Seeds
  /\ op = "unlock" => pin \in PinKeys

\* How far provisioning has come on the chip, and what unlocking relies on.
Progress ==
  /\ op = "initialize" /\ pc \in {"resetUser", "resetVerify", "initOpen", "writeSalt"} => ChipEmpty
  /\ pc = "writeSalt" \/ pc = "writePin" \/ pc = "writeSeed" =>
       state = "INCOMPLETE" /\ salt \in Salts
  /\ pc = "writePin" => chipSalt = salt /\ chipPin = NoValue /\ chipSeed = NoValue
  /\ pc = "writeSeed" => chipSalt = salt /\ chipPin = <<pin, salt>> /\ chipSeed = NoValue /\ failures = 0
  /\ pc = "verify" \/ pc = "readSeed" => salt = chipSalt /\ ChipFull
  /\ op = "initialize" /\ (pc = "verify" \/ pc = "readSeed") =>
       state = "INCOMPLETE" /\ chipPin = <<pin, salt>> /\ chipSeed = seed
  /\ op = "unlock" /\ (pc = "readSalt" \/ pc = "verify" \/ pc = "readSeed") =>
       state = "READY" /\ ChipFull
  /\ pc = "readSeed" => chipPin = <<pin, salt>> /\ failures = 0

\* The user session open at each step, and the verifications spent so far.
Sessions ==
  /\ pc \in {"writeSalt", "writePin", "writeSeed", "readSalt", "verify"} => user = NoValue
  /\ authId = "PIN" <=> pc = "readSeed"
  /\ pc # "idle" /\ pc # "readSeed" => verifies = 0
  /\ pc = "readSeed" => verifies = 1
  /\ verifies <= 1

\* Results exist only between calls; attempts are counted only against a PIN object.
Quiet ==
  /\ pc # "idle" => out = NoValue /\ rc = "none"
  /\ chipPin = NoValue => failures = 0

IInv ==
  /\ TypeOK /\ StepOfOp /\ Progress /\ Sessions /\ Quiet
  /\ SnapshotTruthful /\ HonestResults /\ OneVerification

-----------------------------------------------------------------------------
(* The invariant holds initially and every step keeps it.                  *)

LEMMA InitInv == Init => IInv
  <1> SUFFICES ASSUME Init PROVE IInv
    OBVIOUS
  <1> USE DEF Init
  <1>0. FlagsOK
    BY DEF FlagsOK
  <1>1. DataOK
    BY NxpAssumption DEF DataOK, States, Steps, Ops, Results, NxpAssumption
  <1>2. StepOfOp /\ Progress /\ Quiet
    BY DEF StepOfOp, Progress, Quiet
  <1>3. Sessions
    BY NxpAssumption DEF Sessions, NxpAssumption
  <1>4. SnapshotTruthful /\ HonestResults /\ OneVerification
    BY DEF SnapshotTruthful, HonestResults, OneVerification, ChipEmpty, ChipFull
  <1> QED
    BY <1>0, <1>1, <1>2, <1>3, <1>4 DEF IInv, TypeOK

LEMMA RefreshInv == IInv /\ Refresh => IInv'
  <1> SUFFICES ASSUME IInv, Refresh PROVE IInv'
    OBVIOUS
  <1> USE NxpAssumption DEF Refresh, Call, chipVars, mcuVars, linkVars, argVars
  <1>0. FlagsOK'
    BY DEF IInv, TypeOK, FlagsOK
  <1>1. DataOK'
    BY DEF IInv, TypeOK, DataOK, StepOfOp, Progress, States, Steps, Ops, Results, Credentials, NxpAssumption
  <1> USE DEF IInv, StepOfOp, Progress, Sessions, Quiet, ChipEmpty, ChipFull, NxpAssumption
  <1>2. StepOfOp' /\ Progress'
    BY DEF TypeOK, DataOK
  <1>3. Sessions' /\ Quiet'
    BY DEF TypeOK, DataOK
  <1>4. SnapshotTruthful' /\ HonestResults' /\ OneVerification'
    BY DEF TypeOK, DataOK, SnapshotTruthful, HonestResults, OneVerification
  <1> QED
    BY <1>0, <1>1, <1>2, <1>3, <1>4 DEF TypeOK

LEMMA SeedExistsInv == IInv /\ SeedExists => IInv'
  <1> SUFFICES ASSUME IInv, SeedExists PROVE IInv'
    OBVIOUS
  <1> USE NxpAssumption DEF SeedExists, Call, ExistsResult, chipVars, mcuVars, linkVars, argVars
  <1>0. FlagsOK'
    BY DEF IInv, TypeOK, FlagsOK
  <1>1. DataOK'
    BY DEF IInv, TypeOK, DataOK, StepOfOp, Progress, States, Steps, Ops, Results, Credentials, NxpAssumption
  <1> USE DEF IInv, StepOfOp, Progress, Sessions, Quiet, ChipEmpty, ChipFull, NxpAssumption
  <1>2. StepOfOp' /\ Progress'
    BY DEF TypeOK, DataOK
  <1>3. Sessions' /\ Quiet'
    BY DEF TypeOK, DataOK
  <1>4. SnapshotTruthful' /\ HonestResults' /\ OneVerification'
    BY DEF TypeOK, DataOK, SnapshotTruthful, HonestResults, OneVerification
  <1> QED
    BY <1>0, <1>1, <1>2, <1>3, <1>4 DEF TypeOK

LEMMA InitializeInv == IInv /\ Initialize => IInv'
  <1> SUFFICES ASSUME IInv, Initialize PROVE IInv'
    OBVIOUS
  <1> USE NxpAssumption DEF Initialize, Call, chipVars, mcuVars, linkVars, argVars
  <1>0. FlagsOK'
    BY DEF IInv, TypeOK, FlagsOK
  <1>1. DataOK'
    BY DEF IInv, TypeOK, DataOK, StepOfOp, Progress, States, Steps, Ops, Results, Credentials, NxpAssumption
  <1> USE DEF IInv, StepOfOp, Progress, Sessions, Quiet, ChipEmpty, ChipFull, NxpAssumption
  <1>2. StepOfOp' /\ Progress'
    BY DEF TypeOK, DataOK
  <1>3. Sessions' /\ Quiet'
    BY DEF TypeOK, DataOK
  <1>4. SnapshotTruthful' /\ HonestResults' /\ OneVerification'
    BY DEF TypeOK, DataOK, SnapshotTruthful, HonestResults, OneVerification
  <1> QED
    BY <1>0, <1>1, <1>2, <1>3, <1>4 DEF TypeOK

LEMMA UnlockInv == IInv /\ Unlock => IInv'
  <1> SUFFICES ASSUME IInv, Unlock PROVE IInv'
    OBVIOUS
  <1> USE NxpAssumption DEF Unlock, Call, chipVars, mcuVars, linkVars, argVars
  <1>0. FlagsOK'
    BY DEF IInv, TypeOK, FlagsOK
  <1>1. DataOK'
    BY DEF IInv, TypeOK, DataOK, StepOfOp, Progress, States, Steps, Ops, Results, Credentials, NxpAssumption
  <1> USE DEF IInv, StepOfOp, Progress, Sessions, Quiet, ChipEmpty, ChipFull, NxpAssumption
  <1>2. StepOfOp' /\ Progress'
    BY DEF TypeOK, DataOK
  <1>3. Sessions' /\ Quiet'
    BY DEF TypeOK, DataOK
  <1>4. SnapshotTruthful' /\ HonestResults' /\ OneVerification'
    BY DEF TypeOK, DataOK, SnapshotTruthful, HonestResults, OneVerification
  <1> QED
    BY <1>0, <1>1, <1>2, <1>3, <1>4 DEF TypeOK

LEMMA EraseInv == IInv /\ Erase => IInv'
  <1> SUFFICES ASSUME IInv, Erase PROVE IInv'
    OBVIOUS
  <1> USE NxpAssumption DEF Erase, Call, chipVars, mcuVars, linkVars, argVars
  <1>0. FlagsOK'
    BY DEF IInv, TypeOK, FlagsOK
  <1>1. DataOK'
    BY DEF IInv, TypeOK, DataOK, StepOfOp, Progress, States, Steps, Ops, Results, Credentials, NxpAssumption
  <1> USE DEF IInv, StepOfOp, Progress, Sessions, Quiet, ChipEmpty, ChipFull, NxpAssumption
  <1>2. StepOfOp' /\ Progress'
    BY DEF TypeOK, DataOK
  <1>3. Sessions' /\ Quiet'
    BY DEF TypeOK, DataOK
  <1>4. SnapshotTruthful' /\ HonestResults' /\ OneVerification'
    BY DEF TypeOK, DataOK, SnapshotTruthful, HonestResults, OneVerification
  <1> QED
    BY <1>0, <1>1, <1>2, <1>3, <1>4 DEF TypeOK

LEMMA ScanInv == IInv /\ Scan => IInv'
  <1> SUFFICES ASSUME IInv, Scan PROVE IInv'
    OBVIOUS
  <1> USE NxpAssumption DEF Scan, ScanRead, ScanFailed, Return, ScanState, ExistsResult, chipVars, mcuVars, linkVars, argVars
  <1>0. FlagsOK'
    BY DEF IInv, TypeOK, FlagsOK
  <1>1. DataOK'
    BY DEF IInv, TypeOK, DataOK, StepOfOp, Progress, States, Steps, Ops, Results, Credentials, NxpAssumption
  <1> USE DEF IInv, StepOfOp, Progress, Sessions, Quiet, ChipEmpty, ChipFull, NxpAssumption
  <1>2. StepOfOp' /\ Progress'
    BY DEF TypeOK, DataOK
  <1>3. Sessions' /\ Quiet'
    BY DEF TypeOK, DataOK
  <1>4. SnapshotTruthful' /\ HonestResults' /\ OneVerification'
    BY DEF TypeOK, DataOK, SnapshotTruthful, HonestResults, OneVerification
  <1> QED
    BY <1>0, <1>1, <1>2, <1>3, <1>4 DEF TypeOK

LEMMA EraseOpenInv == IInv /\ EraseOpen => IInv'
  <1> SUFFICES ASSUME IInv, EraseOpen PROVE IInv'
    OBVIOUS
  <1> USE NxpAssumption DEF EraseOpen, Goto, Fail, Return, Provisioning, chipVars, mcuVars, linkVars, argVars
  <1>0. FlagsOK'
    BY DEF IInv, TypeOK, FlagsOK
  <1>1. DataOK'
    BY DEF IInv, TypeOK, DataOK, StepOfOp, Progress, States, Steps, Ops, Results, Credentials, NxpAssumption
  <1> USE DEF IInv, StepOfOp, Progress, Sessions, Quiet, ChipEmpty, ChipFull, NxpAssumption
  <1>2. StepOfOp' /\ Progress'
    BY DEF TypeOK, DataOK
  <1>3. Sessions' /\ Quiet'
    BY DEF TypeOK, DataOK
  <1>4. SnapshotTruthful' /\ HonestResults' /\ OneVerification'
    BY DEF TypeOK, DataOK, SnapshotTruthful, HonestResults, OneVerification
  <1> QED
    BY <1>0, <1>1, <1>2, <1>3, <1>4 DEF TypeOK

LEMMA ResetUserInv == IInv /\ ResetUser => IInv'
  <1> SUFFICES ASSUME IInv, ResetUser PROVE IInv'
    OBVIOUS
  <1> USE NxpAssumption DEF ResetUser, Goto, Fail, Return, Replies, Provisioning, chipVars, mcuVars, linkVars, argVars
  <1>0. FlagsOK'
    BY DEF IInv, TypeOK, FlagsOK
  <1>1. DataOK'
    BY DEF IInv, TypeOK, DataOK, StepOfOp, Progress, States, Steps, Ops, Results, Credentials, NxpAssumption
  <1> USE DEF IInv, StepOfOp, Progress, Sessions, Quiet, ChipEmpty, ChipFull, NxpAssumption
  <1>2. StepOfOp' /\ Progress'
    BY DEF TypeOK, DataOK
  <1>3. Sessions' /\ Quiet'
    BY DEF TypeOK, DataOK
  <1>4. SnapshotTruthful' /\ HonestResults' /\ OneVerification'
    BY DEF TypeOK, DataOK, SnapshotTruthful, HonestResults, OneVerification
  <1> QED
    BY <1>0, <1>1, <1>2, <1>3, <1>4 DEF TypeOK

LEMMA ResetVerifyInv == IInv /\ ResetVerify => IInv'
  <1> SUFFICES ASSUME IInv, ResetVerify PROVE IInv'
    OBVIOUS
  <1> USE NxpAssumption DEF ResetVerify, Goto, Fail, Return, Replies, Provisioning, chipVars, mcuVars, linkVars, argVars
  <1>0. FlagsOK'
    BY DEF IInv, TypeOK, FlagsOK
  <1>1. DataOK'
    BY DEF IInv, TypeOK, DataOK, StepOfOp, Progress, States, Steps, Ops, Results, Credentials, NxpAssumption
  <1> USE DEF IInv, StepOfOp, Progress, Sessions, Quiet, ChipEmpty, ChipFull, NxpAssumption
  <1>2. StepOfOp' /\ Progress'
    BY DEF TypeOK, DataOK
  <1>3. Sessions' /\ Quiet'
    BY DEF TypeOK, DataOK
  <1>4. SnapshotTruthful' /\ HonestResults' /\ OneVerification'
    BY DEF TypeOK, DataOK, SnapshotTruthful, HonestResults, OneVerification
  <1> QED
    BY <1>0, <1>1, <1>2, <1>3, <1>4 DEF TypeOK

LEMMA InitOpenInv == IInv /\ InitOpen => IInv'
  <1> SUFFICES ASSUME IInv, InitOpen PROVE IInv'
    OBVIOUS
  <1> USE NxpAssumption DEF InitOpen, Fail, Return, Provisioning, chipVars, mcuVars, linkVars, argVars
  <1>0. FlagsOK'
    BY DEF IInv, TypeOK, FlagsOK
  <1>1. DataOK'
    BY DEF IInv, TypeOK, DataOK, StepOfOp, Progress, States, Steps, Ops, Results, Credentials, NxpAssumption
  <1> USE DEF IInv, StepOfOp, Progress, Sessions, Quiet, ChipEmpty, ChipFull, NxpAssumption
  <1>2. StepOfOp' /\ Progress'
    BY DEF TypeOK, DataOK
  <1>3. Sessions' /\ Quiet'
    BY DEF TypeOK, DataOK
  <1>4. SnapshotTruthful' /\ HonestResults' /\ OneVerification'
    BY DEF TypeOK, DataOK, SnapshotTruthful, HonestResults, OneVerification
  <1> QED
    BY <1>0, <1>1, <1>2, <1>3, <1>4 DEF TypeOK

LEMMA WriteSaltInv == IInv /\ WriteSalt => IInv'
  <1> SUFFICES ASSUME IInv, WriteSalt PROVE IInv'
    OBVIOUS
  <1> USE NxpAssumption DEF WriteSalt, Stored, Goto, Fail, Return, Replies, Provisioning, chipVars, mcuVars, linkVars, argVars
  <1>0. FlagsOK'
    BY DEF IInv, TypeOK, FlagsOK
  <1>1. DataOK'
    BY DEF IInv, TypeOK, DataOK, StepOfOp, Progress, States, Steps, Ops, Results, Credentials, NxpAssumption
  <1> USE DEF IInv, StepOfOp, Progress, Sessions, Quiet, ChipEmpty, ChipFull, NxpAssumption
  <1>2. StepOfOp' /\ Progress'
    BY DEF TypeOK, DataOK
  <1>3. Sessions' /\ Quiet'
    BY DEF TypeOK, DataOK
  <1>4. SnapshotTruthful' /\ HonestResults' /\ OneVerification'
    BY DEF TypeOK, DataOK, SnapshotTruthful, HonestResults, OneVerification
  <1> QED
    BY <1>0, <1>1, <1>2, <1>3, <1>4 DEF TypeOK

LEMMA WritePinInv == IInv /\ WritePin => IInv'
  <1> SUFFICES ASSUME IInv, WritePin PROVE IInv'
    OBVIOUS
  <1> USE NxpAssumption DEF WritePin, Stored, Goto, Fail, Return, Replies, Provisioning, chipVars, mcuVars, linkVars, argVars
  <1>0. FlagsOK'
    BY DEF IInv, TypeOK, FlagsOK
  <1>1. DataOK'
    BY DEF IInv, TypeOK, DataOK, StepOfOp, Progress, States, Steps, Ops, Results, Credentials, NxpAssumption
  <1> USE DEF IInv, StepOfOp, Progress, Sessions, Quiet, ChipEmpty, ChipFull, NxpAssumption
  <1>2. StepOfOp' /\ Progress'
    BY DEF TypeOK, DataOK
  <1>3. Sessions' /\ Quiet'
    BY DEF TypeOK, DataOK
  <1>4. SnapshotTruthful' /\ HonestResults' /\ OneVerification'
    BY DEF TypeOK, DataOK, SnapshotTruthful, HonestResults, OneVerification
  <1> QED
    BY <1>0, <1>1, <1>2, <1>3, <1>4 DEF TypeOK

LEMMA WriteSeedInv == IInv /\ WriteSeed => IInv'
  <1> SUFFICES ASSUME IInv, WriteSeed PROVE IInv'
    OBVIOUS
  <1> USE NxpAssumption DEF WriteSeed, Stored, Goto, Fail, Return, Replies, Provisioning, chipVars, mcuVars, linkVars, argVars
  <1>0. FlagsOK'
    BY DEF IInv, TypeOK, FlagsOK
  <1>1. DataOK'
    BY DEF IInv, TypeOK, DataOK, StepOfOp, Progress, States, Steps, Ops, Results, Credentials, NxpAssumption
  <1> USE DEF IInv, StepOfOp, Progress, Sessions, Quiet, ChipEmpty, ChipFull, NxpAssumption
  <1>2. StepOfOp' /\ Progress'
    BY DEF TypeOK, DataOK
  <1>3. Sessions' /\ Quiet'
    BY DEF TypeOK, DataOK
  <1>4. SnapshotTruthful' /\ HonestResults' /\ OneVerification'
    BY DEF TypeOK, DataOK, SnapshotTruthful, HonestResults, OneVerification
  <1> QED
    BY <1>0, <1>1, <1>2, <1>3, <1>4 DEF TypeOK

LEMMA ReadSaltInv == IInv /\ ReadSalt => IInv'
  <1> SUFFICES ASSUME IInv, ReadSalt PROVE IInv'
    OBVIOUS
  <1> USE NxpAssumption DEF ReadSalt, Goto, Fail, Return, Provisioning, chipVars, mcuVars, linkVars, argVars
  <1>0. FlagsOK'
    BY DEF IInv, TypeOK, FlagsOK
  <1>1. DataOK'
    BY DEF IInv, TypeOK, DataOK, StepOfOp, Progress, States, Steps, Ops, Results, Credentials, NxpAssumption
  <1> USE DEF IInv, StepOfOp, Progress, Sessions, Quiet, ChipEmpty, ChipFull, NxpAssumption
  <1>2. StepOfOp' /\ Progress'
    BY DEF TypeOK, DataOK
  <1>3. Sessions' /\ Quiet'
    BY DEF TypeOK, DataOK
  <1>4. SnapshotTruthful' /\ HonestResults' /\ OneVerification'
    BY DEF TypeOK, DataOK, SnapshotTruthful, HonestResults, OneVerification
  <1> QED
    BY <1>0, <1>1, <1>2, <1>3, <1>4 DEF TypeOK

LEMMA VerifyInv == IInv /\ Verify => IInv'
  <1> SUFFICES ASSUME IInv, Verify PROVE IInv'
    OBVIOUS
  <1> USE NxpAssumption DEF Verify, Replies, PinAccepted, Provisioning, chipVars, mcuVars, linkVars, argVars
  <1>0. FlagsOK'
    BY DEF IInv, TypeOK, FlagsOK
  <1>1. DataOK'
    BY DEF IInv, TypeOK, DataOK, StepOfOp, Progress, States, Steps, Ops, Results, Credentials, NxpAssumption
  <1> USE DEF IInv, StepOfOp, Progress, Sessions, Quiet, ChipEmpty, ChipFull, NxpAssumption
  <1>2. StepOfOp' /\ Progress'
    BY DEF TypeOK, DataOK
  <1>3. Sessions' /\ Quiet'
    BY DEF TypeOK, DataOK
  <1>4. SnapshotTruthful' /\ HonestResults' /\ OneVerification'
    BY DEF TypeOK, DataOK, SnapshotTruthful, HonestResults, OneVerification
  <1> QED
    BY <1>0, <1>1, <1>2, <1>3, <1>4 DEF TypeOK

LEMMA ReadSeedInv == IInv /\ ReadSeed => IInv'
  <1> SUFFICES ASSUME IInv, ReadSeed PROVE IInv'
    OBVIOUS
  <1> USE NxpAssumption DEF ReadSeed, Fail, Return, Provisioning, chipVars, mcuVars, linkVars, argVars
  <1>0. FlagsOK'
    BY DEF IInv, TypeOK, FlagsOK
  <1>1. DataOK'
    BY DEF IInv, TypeOK, DataOK, StepOfOp, Progress, States, Steps, Ops, Results, Credentials, NxpAssumption
  <1> USE DEF IInv, StepOfOp, Progress, Sessions, Quiet, ChipEmpty, ChipFull, NxpAssumption
  <1>2. StepOfOp' /\ Progress'
    BY DEF TypeOK, DataOK
  <1>3. Sessions' /\ Quiet'
    BY DEF TypeOK, DataOK
  <1>4. SnapshotTruthful' /\ HonestResults' /\ OneVerification'
    BY DEF TypeOK, DataOK, SnapshotTruthful, HonestResults, OneVerification
  <1> QED
    BY <1>0, <1>1, <1>2, <1>3, <1>4 DEF TypeOK

LEMMA DeleteAllInv == IInv /\ DeleteAll => IInv'
  <1> SUFFICES ASSUME IInv, DeleteAll PROVE IInv'
    OBVIOUS
  <1> USE NxpAssumption DEF DeleteAll, Goto, Replies, chipVars, mcuVars, linkVars, argVars
  <1>0. FlagsOK'
    BY DEF IInv, TypeOK, FlagsOK
  <1>1. DataOK'
    BY DEF IInv, TypeOK, DataOK, StepOfOp, Progress, States, Steps, Ops, Results, Credentials, NxpAssumption
  <1> USE DEF IInv, StepOfOp, Progress, Sessions, Quiet, ChipEmpty, ChipFull, NxpAssumption
  <1>2. StepOfOp' /\ Progress'
    BY DEF TypeOK, DataOK
  <1>3. Sessions' /\ Quiet'
    BY DEF TypeOK, DataOK
  <1>4. SnapshotTruthful' /\ HonestResults' /\ OneVerification'
    BY DEF TypeOK, DataOK, SnapshotTruthful, HonestResults, OneVerification
  <1> QED
    BY <1>0, <1>1, <1>2, <1>3, <1>4 DEF TypeOK

LEMMA PowerLossInv == IInv /\ PowerLoss => IInv'
  <1> SUFFICES ASSUME IInv, PowerLoss PROVE IInv'
    OBVIOUS
  <1> USE NxpAssumption DEF PowerLoss, chipVars, mcuVars, linkVars, argVars
  <1>0. FlagsOK'
    BY DEF IInv, TypeOK, FlagsOK
  <1>1. DataOK'
    BY DEF IInv, TypeOK, DataOK, StepOfOp, Progress, States, Steps, Ops, Results, Credentials, NxpAssumption
  <1> USE DEF IInv, StepOfOp, Progress, Sessions, Quiet, ChipEmpty, ChipFull, NxpAssumption
  <1>2. StepOfOp' /\ Progress'
    BY DEF TypeOK, DataOK
  <1>3. Sessions' /\ Quiet'
    BY DEF TypeOK, DataOK
  <1>4. SnapshotTruthful' /\ HonestResults' /\ OneVerification'
    BY DEF TypeOK, DataOK, SnapshotTruthful, HonestResults, OneVerification
  <1> QED
    BY <1>0, <1>1, <1>2, <1>3, <1>4 DEF TypeOK

LEMMA NextInv == IInv /\ [Next]_vars => IInv'
  <1>1. IInv /\ UNCHANGED vars => IInv'
    <2> SUFFICES ASSUME IInv, UNCHANGED vars PROVE IInv'
      OBVIOUS
    <2> USE DEF vars, chipVars, mcuVars, linkVars, argVars
    <2>1. FlagsOK' /\ DataOK' /\ SnapshotTruthful' /\ HonestResults' /\ OneVerification'
      BY DEF IInv, TypeOK, FlagsOK, DataOK, SnapshotTruthful, HonestResults, OneVerification,
             ChipEmpty, ChipFull
    <2>2. StepOfOp' /\ Progress' /\ Sessions' /\ Quiet'
      BY DEF IInv, StepOfOp, Progress, Sessions, Quiet, ChipEmpty, ChipFull
    <2> QED
      BY <2>1, <2>2 DEF IInv, TypeOK
  <1> QED
    BY <1>1, RefreshInv, SeedExistsInv, InitializeInv, UnlockInv, EraseInv, ScanInv,
       EraseOpenInv, ResetUserInv, ResetVerifyInv, InitOpenInv, WriteSaltInv, WritePinInv,
       WriteSeedInv, ReadSaltInv, VerifyInv, ReadSeedInv, DeleteAllInv, PowerLossInv DEF Next, Step

LEMMA Invariant == Spec => []IInv
  BY InitInv, NextInv, PTL DEF Spec

\* Every variable of the store stays in its range for every PIN, seed, salt and limit.
THEOREM TypeCorrect == Spec => []TypeOK
  <1>1. IInv => TypeOK
    BY DEF IInv
  <1> QED
    BY Invariant, <1>1, PTL

\* The UI's snapshot of the chip is truthful between calls (store.c:30-33, 89, 104, 172).
THEOREM SnapshotIsTruthful == Spec => []SnapshotTruthful
  <1>1. IInv => SnapshotTruthful
    BY DEF IInv
  <1> QED
    BY Invariant, <1>1, PTL

\* Every success reported by a call of store.c is a fact of the chip.
THEOREM ResultsAreHonest == Spec => []HonestResults
  <1>1. IInv => HonestResults
    BY DEF IInv
  <1> QED
    BY Invariant, <1>1, PTL

\* One submission costs at most one verification, and a rejection is deserved.
THEOREM AtMostOneVerification == Spec => []OneVerification
  <1>1. IInv => OneVerification
    BY DEF IInv
  <1> QED
    BY Invariant, <1>1, PTL

-----------------------------------------------------------------------------
(* No dead end.                                                            *)

\* What a call over a link that works can rely on when the next exchange could end it in an error:
\* the reset UserID is there before it is verified, a new wallet has all its attempts, and the
\* channel carries the session that the chip demands.
Path ==
  /\ pc \in {"resetUser", "resetVerify"} => user = NoValue
  /\ pc = "resetVerify" => chipReset # "absent"
  /\ pc = "deleteAll" => authId = "RESET"
  /\ op = "initialize" /\ pc = "verify" => failures = 0
  /\ op = "erase" /\ pc = "scan" /\ healthy => ChipEmpty

\* A call starts from where the last one left the chip.
LEMMA CallPath ==
  ASSUME IInv, Path, Recoverable, Refresh \/ SeedExists \/ Initialize \/ Unlock \/ Erase
  PROVE  Path' /\ Recoverable'
  <1> USE DEF Path, Recoverable, ChipEmpty, ChipFull, chipVars, mcuVars, linkVars, argVars
  <1>1. CASE \E o \in Ops : \E k, s, h : Call(o, k, s, h)
    BY <1>1 DEF Call
  <1>2. CASE SeedExists /\ UNCHANGED pc
    BY <1>2 DEF SeedExists, Call
  <1> QED
    BY <1>1, <1>2 DEF Refresh, SeedExists, Initialize, Unlock, Erase, Ops

\* Every step of a call that finds no error goes on.
LEMMA StepPath ==
  ASSUME IInv, Path, Recoverable, Step
  PROVE  Path' /\ Recoverable'
  <1> USE NxpAssumption DEF NxpAssumption, IInv, Path, Recoverable, StepOfOp, Progress, Sessions, Quiet, ChipEmpty, ChipFull, chipVars, mcuVars,
          linkVars, argVars
  <1>1. CASE Scan
    BY <1>1 DEF Scan, ScanRead, ScanFailed, Return, ScanState, ExistsResult
  <1>2. CASE EraseOpen
    BY <1>2 DEF EraseOpen, Goto, Fail, Return
  <1>3. CASE ResetUser
    BY <1>3 DEF ResetUser, Goto, Fail, Return, Replies
  <1>4. CASE ResetVerify
    BY <1>4 DEF ResetVerify, Goto, Fail, Return, Replies, TypeOK, DataOK
  <1>5. CASE InitOpen
    BY <1>5 DEF InitOpen, Fail, Return
  <1>6. CASE WriteSalt
    BY <1>6 DEF WriteSalt, Goto, Fail, Return, Replies
  <1>7. CASE WritePin
    BY <1>7 DEF WritePin, Goto, Fail, Return, Replies
  <1>8. CASE WriteSeed
    BY <1>8 DEF WriteSeed, Goto, Fail, Return, Replies
  <1>9. CASE ReadSalt
    BY <1>9 DEF ReadSalt, Goto, Fail, Return
  <1>10. CASE Verify
    BY <1>10 DEF Verify, Replies, PinAccepted
  <1>11. CASE ReadSeed
    BY <1>11 DEF ReadSeed, Fail, Return
  <1>12. CASE DeleteAll
    BY <1>12 DEF DeleteAll, Goto, Replies
  <1> QED
    BY <1>1, <1>2, <1>3, <1>4, <1>5, <1>6, <1>7, <1>8, <1>9, <1>10, <1>11, <1>12 DEF Step

\* No reachable chip is a dead end for the owner of the reset credential, whatever replies were lost
\* and wherever the power failed before: over a link that works, erase succeeds, provisioning of
\* an empty chip succeeds and unlocking a complete wallet ends with the seed or a rejection
\* (store.c:75-105, 127-142, 161-168).
THEOREM AlwaysRecoverable == Spec => []Recoverable
  <1>1. Init => Path /\ Recoverable
    BY DEF Init, Path, Recoverable
  <1>2. IInv /\ Path /\ Recoverable /\ [Next]_vars => Path' /\ Recoverable'
    <2> SUFFICES ASSUME IInv, Path, Recoverable, [Next]_vars PROVE Path' /\ Recoverable'
      OBVIOUS
    <2>1. CASE PowerLoss
      BY <2>1 DEF PowerLoss, Path, Recoverable
    <2>2. CASE UNCHANGED vars
      BY <2>2 DEF vars, Path, Recoverable, ChipEmpty, ChipFull, chipVars, linkVars, argVars
    <2> QED
      BY <2>1, <2>2, CallPath, StepPath DEF Next
  <1> QED
    BY Invariant, <1>1, <1>2, PTL DEF Spec

-----------------------------------------------------------------------------
(* Refinement: each step is a step of SecureSeed or leaves the vault alone. *)

LEMMA InitVault == Init => Vault!Init
  BY NxpAssumption DEF Init, Vault!Init, Stage, ChipEmpty, ChipFull, NxpAssumption

LEMMA StepVault == IInv /\ IInv' /\ [Next]_vars => [Vault!Next]_(Vault!svars)
  <1> SUFFICES ASSUME IInv, IInv', [Next]_vars PROVE [Vault!Next]_(Vault!svars)
    OBVIOUS
  <1> USE NxpAssumption DEF Stage, ChipEmpty, ChipFull, chipVars, mcuVars, linkVars, argVars,
                            Vault!Next, Vault!svars, Vault!vault
  <1> USE DEF IInv, StepOfOp, Progress, Sessions, Quiet, NxpAssumption
  <1>1. CASE Refresh \/ SeedExists \/ Initialize \/ Unlock \/ Erase
    <2>1. Vault!Forget
      BY <1>1 DEF Refresh, SeedExists, Initialize, Unlock, Erase, Call, Vault!Forget
    <2> QED
      BY <2>1
  <1>2. CASE Scan \/ EraseOpen \/ ResetUser \/ ResetVerify \/ InitOpen \/ ReadSalt \/ PowerLoss
    <2>1. CASE Scan
      BY <2>1 DEF Scan, ScanRead, ScanFailed, Return, Vault!Forget
    <2>2. CASE EraseOpen \/ ResetUser \/ ResetVerify \/ InitOpen \/ ReadSalt
      BY <2>2 DEF EraseOpen, ResetUser, ResetVerify, InitOpen, ReadSalt, Goto, Fail, Return,
                  Vault!Forget
    <2>3. CASE PowerLoss
      BY <2>3 DEF PowerLoss, Vault!Forget
    <2> QED
      BY <1>2, <2>1, <2>2, <2>3
  <1>3. CASE WriteSalt \/ WritePin \/ WriteSeed
    <2>1. authId # "PIN" /\ authId' # "PIN" /\ out' = out
      BY <1>3 DEF WriteSalt, WritePin, WriteSeed, Goto, Fail, Return
    <2>2. failures = 0 /\ failures' = 0 /\ ~ChipFull
      BY <1>3 DEF WriteSalt, WritePin, WriteSeed
    <2>3. chipPin' \in Credentials \cup {NoValue} /\ chipSeed' \in Seeds \cup {NoValue}
      BY DEF TypeOK, DataOK
    <2>4. CASE ChipFull'
      BY <2>1, <2>2, <2>3, <2>4 DEF Credentials, Vault!Provision
    <2>5. CASE ~ChipFull' /\ ~ChipEmpty'
      BY <2>1, <2>2, <2>5 DEF Vault!Provision
    <2>6. CASE ChipEmpty'
      BY <1>3, <2>1, <2>2, <2>6 DEF WriteSalt, WritePin, WriteSeed, Stored
    <2> QED
      BY <2>4, <2>5, <2>6
  <1>4. CASE Verify
    <2>1. ChipFull /\ authId # "PIN" /\ out' = out /\ UNCHANGED <<chipPin, chipSeed, chipSalt>>
      BY <1>4 DEF Verify
    <2>2. \/ failures' = 0 /\ failures < Limit
          \/ failures' = failures + 1 /\ failures < Limit /\ authId' # "PIN"
          \/ failures' = failures /\ authId' # "PIN"
      BY <1>4 DEF Verify, PinAccepted
    <2> QED
      BY <2>1, <2>2 DEF Vault!Accept, Vault!Reject
  <1>5. CASE ReadSeed
    BY <1>5 DEF ReadSeed, Fail, Return, Vault!Release, Vault!Forget
  <1>6. CASE DeleteAll
    BY <1>6 DEF DeleteAll, Goto, Vault!Wipe
  <1>7. CASE UNCHANGED vars
    BY <1>7 DEF vars
  <1> QED
    BY <1>1, <1>2, <1>3, <1>4, <1>5, <1>6, <1>7 DEF Next, Step

\* The store, with its lost replies and power losses, implements the abstract vault.
THEOREM Refinement == Spec => ImplementsSecureSeed
  BY InitVault, StepVault, Invariant, PTL DEF Spec, ImplementsSecureSeed, Vault!Spec
=============================================================================
