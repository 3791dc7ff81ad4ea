----------------------------- MODULE DeviceProofs -----------------------------
(***************************************************************************)
(* Five promises of the device, for every build, every choice of the       *)
(* parameters and any number of failures and losses of power: the update   *)
(* mode is entered once for a request; the flash is erased only when the   *)
(* secure element is empty; every page leads back to one that can be       *)
(* drawn, and only what is on the screen can be tapped; what a setup       *)
(* holds does not outlive it; no seed lies in flash under an empty PIN,    *)
(* nor beside one in the element.  The first two follow from IInv (start-  *)
(* up, reset and the store), the next two from Navigable (the UI, the      *)
(* queues and the events), the last from AtRest over both.                 *)
(***************************************************************************)
EXTENDS Device, SequenceTheorems, WellFoundedInduction, TLAPS

-----------------------------------------------------------------------------
(* Storage: no operation but the request's own writes an update request.   *)

\* What an operation that does not write a request may make of the store s.
Harmless(s, t) == t \in Stores /\ (Holds(t, "update") => Holds(s, "update"))

LEMMA StoreFields ==
  ASSUME NEW s \in Stores, NEW ready \in BOOLEAN, NEW fs \in BOOLEAN,
         NEW chan \in {"INITIALIZING", "READY", "ERROR"}
  PROVE  /\ Harmless(s, s)
         /\ Harmless(s, [s EXCEPT !.chan = chan])
         /\ Harmless(s, [s EXCEPT !.ready = ready])
         /\ Harmless(s, [s EXCEPT !.fs = fs])
  BY DEF Harmless, Stores, Holds

LEMMA RuntimeResultKeeps ==
  ASSUME NEW s \in Stores, NEW ret
  PROVE  Harmless(s, RuntimeResult(s, ret).store)
<1>1. RuntimeResult(s, ret).store \in {s, [s EXCEPT !.ready = FALSE, !.chan = "ERROR"]}
  BY DEF RuntimeResult, Outcome
<1>2. Harmless(s, s) /\ Harmless(s, [s EXCEPT !.ready = FALSE, !.chan = "ERROR"])
  BY DEF Harmless, Stores, Holds
<1> QED  BY <1>1, <1>2, Zenon

LEMMA InitResultKeeps ==
  ASSUME NEW s \in Stores, NEW ret \in Int
  PROVE  Harmless(s, InitResult(s, ret).store)
<1> DEFINE done == [s EXCEPT !.ready = (ret >= 0), !.chan = IF ret < 0 THEN "ERROR" ELSE "READY"]
<1>1. InitResult(s, ret).store = done
  BY DEF InitResult, Outcome
<1>2. (ret >= 0) \in BOOLEAN
  OBVIOUS
<1>3. (IF ret < 0 THEN "ERROR" ELSE "READY") \in {"INITIALIZING", "READY", "ERROR"}
  OBVIOUS
<1>4. ASSUME NEW ready \in BOOLEAN, NEW chan \in {"INITIALIZING", "READY", "ERROR"}
      PROVE  Harmless(s, [s EXCEPT !.ready = ready, !.chan = chan])
  BY DEF Harmless, Stores, Holds
<1> QED  BY <1>1, <1>2, <1>3, <1>4, Zenon

LEMMA ExistsKeeps ==
  ASSUME NEW s \in Stores, NEW id, NEW o \in Exists(s, id)
  PROVE  Harmless(s, o.store)
<1>1. o.store = s \/ o = RuntimeResult(s, EIO)
  BY DEF Exists, Outcome
<1>2. Harmless(s, s)
  BY DEF Harmless
<1> QED  BY <1>1, <1>2, RuntimeResultKeeps, Zenon

LEMMA ReadKeeps ==
  ASSUME NEW s \in Stores, NEW id, NEW o \in Read(s, id)
  PROVE  /\ Harmless(s, o.store)
         /\ ~(o.ret <= 0) => Holds(s, id)
<1>1. CASE ~s.ready
  <2>1. o = Outcome(s, ENODEV)
    BY <1>1 DEF Read
  <2>2. Harmless(s, s)
    BY DEF Harmless
  <2> QED  BY <2>1, <2>2 DEF Outcome, ENODEV
<1>2. CASE s.ready
  <2>1. o \in {RuntimeResult(s, IF Holds(s, id) THEN 1 ELSE ENOENT), RuntimeResult(s, EIO)}
    BY <1>2 DEF Read
  <2>2. Harmless(s, o.store)
    BY <2>1, RuntimeResultKeeps, Zenon
  <2>3. ~(o.ret <= 0) => Holds(s, id)
    BY <2>1 DEF RuntimeResult, Outcome, ENOENT, EIO
  <2> QED  BY <2>2, <2>3
<1> QED  BY <1>1, <1>2

LEMMA WriteSeedKeeps ==
  ASSUME NEW s \in Stores, NEW value \in Values, NEW o \in Write(s, "seed", value)
  PROVE  Harmless(s, o.store)
<1> DEFINE done == [s EXCEPT !.flash["seed"] = value]
<1>1. Harmless(s, s) /\ Harmless(s, done)
  BY DEF Harmless, Stores, Holds, Ids
<1>2. done \in Stores
  BY <1>1 DEF Harmless
<1> HIDE DEF done
<1>3. Harmless(done, RuntimeResult(done, EIO).store) /\ Harmless(s, RuntimeResult(s, EIO).store)
  BY <1>2, RuntimeResultKeeps, Zenon
<1>4. o.store = s \/ o.store = done \/ o.store = RuntimeResult(done, EIO).store \/ o.store = RuntimeResult(s, EIO).store
  BY DEF Write, Outcome, done
<1> QED  BY <1>1, <1>3, <1>4 DEF Harmless

LEMMA WriteRequestKeeps ==
  ASSUME NEW s \in Stores, NEW o \in Write(s, "update", "set")
  PROVE  o.store \in Stores
<1> DEFINE done == [s EXCEPT !.flash["update"] = "set"]
<1>1. done \in Stores
  BY DEF Stores, Ids, Values
<1> HIDE DEF done
<1>2. Harmless(done, RuntimeResult(done, EIO).store) /\ Harmless(s, RuntimeResult(s, EIO).store)
  BY <1>1, RuntimeResultKeeps, Zenon
<1>3. o.store = s \/ o.store = done \/ o.store = RuntimeResult(done, EIO).store \/ o.store = RuntimeResult(s, EIO).store
  BY DEF Write, Outcome, done
<1> QED  BY <1>1, <1>2, <1>3, Zenon DEF Harmless

LEMMA DeleteKeeps ==
  ASSUME NEW s \in Stores, NEW o \in Delete(s, "update")
  PROVE  Harmless(s, o.store) /\ (o.ret = 0 => ~Holds(o.store, "update"))
<1> DEFINE done == [s EXCEPT !.flash["update"] = "none"]
<1>1. Harmless(s, s) /\ Harmless(s, done)
  BY DEF Harmless, Stores, Holds, Ids, Values
<1>2. done \in Stores
  BY <1>1 DEF Harmless
<1> HIDE DEF done
<1>3. /\ Harmless(done, RuntimeResult(done, EIO).store) /\ Harmless(done, RuntimeResult(done, 0).store)
      /\ Harmless(s, RuntimeResult(s, EIO).store)
  BY <1>2, RuntimeResultKeeps, Zenon
<1>4. \/ o = Outcome(s, ENODEV) \/ o = RuntimeResult(done, 0)
      \/ o = RuntimeResult(done, EIO) \/ o = RuntimeResult(s, EIO)
  BY DEF Delete, done
<1>5. Outcome(s, ENODEV).store = s
  BY DEF Outcome
<1>6. Harmless(s, o.store)
  BY <1>1, <1>3, <1>4, <1>5 DEF Harmless
<1>7. /\ RuntimeResult(done, 0).store = done /\ ~Holds(done, "update")
      /\ Outcome(s, ENODEV).ret # 0 /\ RuntimeResult(done, EIO).ret # 0 /\ RuntimeResult(s, EIO).ret # 0
  BY DEF RuntimeResult, Outcome, ENODEV, EIO, done, Holds, Stores, Ids
<1> QED  BY <1>4, <1>6, <1>7

LEMMA EraseFlashKeeps ==
  ASSUME NEW s \in Stores, NEW o \in EraseFlash(s)
  PROVE  Harmless(s, o.store)
<1> DEFINE closed == [s EXCEPT !.ready = FALSE]
           erased == [closed EXCEPT !.flash = EmptyFlash]
<1>1. closed \in Stores /\ Harmless(s, closed)
  BY DEF Harmless, Stores, Holds
<1>2. EmptyFlash \in [Ids -> Values] /\ EmptyFlash["update"] = "none"
  BY DEF EmptyFlash, Ids, Values
<1> HIDE DEF closed
<1>3. erased \in Stores /\ Harmless(s, erased)
  BY <1>1, <1>2 DEF Harmless, Stores, Holds
<1> HIDE DEF erased
<1>4. /\ Harmless(s, s) /\ Harmless(closed, [closed EXCEPT !.chan = "ERROR"])
      /\ Harmless(erased, [erased EXCEPT !.chan = "ERROR"])
  BY <1>1, <1>3, StoreFields
<1>5. \/ o.store = s \/ o.store = erased
      \/ o.store = [closed EXCEPT !.chan = "ERROR"] \/ o.store = [erased EXCEPT !.chan = "ERROR"]
  BY DEF EraseFlash, Outcome, closed, erased
<1> QED  BY <1>1, <1>3, <1>4, <1>5 DEF Harmless

LEMMA StartKeeps ==
  ASSUME NEW s \in Stores
  PROVE  /\ \A o \in StorageInit(s) : Harmless(s, o.store)
         /\ \A o \in SettingsLoad(s) : Harmless(s, o.store)
         /\ Harmless(s, PoweredOff(s))
<1>1. ASSUME NEW o \in StorageInit(s) PROVE Harmless(s, o.store)
  <2> DEFINE opened == [s EXCEPT !.fs = TRUE]
  <2>1. opened \in Stores /\ Harmless(s, opened)
    BY DEF Harmless, Stores, Holds
  <2> HIDE DEF opened
  <2>2. Harmless(s, InitResult(s, EIO).store) /\ Harmless(opened, InitResult(opened, 0).store)
    BY <2>1, InitResultKeeps DEF EIO
  <2>3. o = InitResult(s, EIO) \/ o = InitResult(opened, 0)
    BY Zenon DEF StorageInit, opened
  <2> QED  BY <2>1, <2>2, <2>3 DEF Harmless
<1>2. ASSUME NEW o \in SettingsLoad(s) PROVE Harmless(s, o.store)
  BY RuntimeResultKeeps, Zenon DEF SettingsLoad
<1>3. Harmless(s, PoweredOff(s))
  BY DEF PoweredOff, Harmless, Stores, Holds
<1> QED  BY <1>1, <1>2, <1>3

-----------------------------------------------------------------------------
(* The platform.                                                           *)

LEMMA ScanKeeps ==
  ASSUME NEW e \in Elements, NEW f \in Scanned(e)
  PROVE  f \in Elements /\ f.chip = e.chip
  BY DEF Scanned, ScanReport, Elements

LEMMA NxpSeedExistsKeeps ==
  ASSUME NEW e \in Elements, NEW a \in NxpSeedExists(e)
  PROVE  a.se \in Elements /\ a.se.chip = e.chip
<1>1. a.se = e \/ a.se \in Scanned(e)
  BY DEF NxpSeedExists
<1> QED  BY <1>1, ScanKeeps, Zenon

LEMMA SeedExistsKeeps ==
  ASSUME NEW s \in Stores, NEW e \in Elements, NEW build, NEW f \in SeedExists(build, s, e)
  PROVE  Harmless(s, f.store) /\ f.se \in Elements /\ f.se.chip = e.chip
<1>1. PICK o \in Exists(s, "seed") :
        f.store = o.store /\ (f.se = e \/ \E a \in NxpSeedExists(e) : f.se = a.se)
  BY DEF SeedExists
<1> QED  BY <1>1, ExistsKeeps, NxpSeedExistsKeeps, Zenon

LEMMA NxpInitializeKeeps ==
  ASSUME NEW e \in Elements, NEW pin \in {"open", "pin"}, NEW a \in NxpInitialize(e, pin)
  PROVE  a.se \in Elements
<1>1. PICK f \in Scanned(e) :
        \/ a.se = f \/ a.se = [f EXCEPT !.chip = pin, !.report = "READY"]
        \/ a.se = [f EXCEPT !.report = "UNAVAILABLE"]
        \/ \E c \in {"partial", pin} : a.se = [f EXCEPT !.chip = c, !.report = "UNAVAILABLE"]
  <2>1. PICK f \in Scanned(e) :
          a \in IF f.report # "EMPTY" THEN {Answer(f, FALSE)}
                ELSE {Answer([f EXCEPT !.chip = pin, !.report = "READY"], TRUE),
                      Answer([f EXCEPT !.report = "UNAVAILABLE"], FALSE)}
                     \cup {Answer([f EXCEPT !.chip = c, !.report = "UNAVAILABLE"], FALSE) : c \in {"partial", pin}}
    BY Zenon DEF NxpInitialize
  <2>2. \/ a = Answer(f, FALSE)
        \/ a = Answer([f EXCEPT !.chip = pin, !.report = "READY"], TRUE)
        \/ a = Answer([f EXCEPT !.report = "UNAVAILABLE"], FALSE)
        \/ \E c \in {"partial", pin} : a = Answer([f EXCEPT !.chip = c, !.report = "UNAVAILABLE"], FALSE)
    <3>1. CASE f.report # "EMPTY"
      BY <2>1, <3>1, Zenon
    <3>2. CASE f.report = "EMPTY"
      BY <2>1, <3>2, Zenon
    <3> QED  BY <3>1, <3>2
  <2>3. \/ a.se = f \/ a.se = [f EXCEPT !.chip = pin, !.report = "READY"]
        \/ a.se = [f EXCEPT !.report = "UNAVAILABLE"]
        \/ \E c \in {"partial", pin} : a.se = [f EXCEPT !.chip = c, !.report = "UNAVAILABLE"]
    BY <2>2 DEF Answer
  <2> QED  BY <2>1, <2>3, Zenon
<1>2. f \in Elements
  BY ScanKeeps, Zenon
<1> QED  BY <1>1, <1>2 DEF Elements

LEMMA NxpUnlockKeeps ==
  ASSUME NEW e \in Elements, NEW right, NEW a \in NxpUnlock(e, right)
  PROVE  a.se \in Elements
<1>1. PICK f \in Scanned(e) :
        \/ a.se = [f EXCEPT !.scanned = e.scanned]
        \/ \E r \in {"READY", "UNAVAILABLE"} : a.se = [e EXCEPT !.report = r]
  <2>1. PICK f \in Scanned(e) :
          a \in IF f.report # "READY" THEN {Answer([f EXCEPT !.scanned = e.scanned], FALSE)}
                ELSE {Answer([e EXCEPT !.report = r], FALSE) : r \in {"READY", "UNAVAILABLE"}}
                     \cup (IF right THEN {Answer([e EXCEPT !.report = "READY"], TRUE)} ELSE {})
    BY Zenon DEF NxpUnlock
  <2>2. \/ a = Answer([f EXCEPT !.scanned = e.scanned], FALSE)
        \/ a = Answer([e EXCEPT !.report = "READY"], TRUE)
        \/ \E r \in {"READY", "UNAVAILABLE"} : a = Answer([e EXCEPT !.report = r], FALSE)
    BY <2>1, Zenon
  <2> QED  BY <2>2 DEF Answer
<1>2. f \in Elements
  BY ScanKeeps, Zenon
<1> QED  BY <1>1, <1>2 DEF Elements

LEMMA NxpEraseKeeps ==
  ASSUME NEW e \in Elements, NEW a \in NxpErase(e)
  PROVE  a.se \in Elements /\ (a.ok => a.se.chip = "none")
<1>1. \/ a = Answer([e EXCEPT !.scanned = TRUE, !.chip = "none", !.report = "EMPTY"], TRUE)
      \/ \E c \in {e.chip, "none"} :
           a = Answer([e EXCEPT !.scanned = TRUE, !.chip = c, !.report = "UNAVAILABLE"], FALSE)
  BY Zenon DEF NxpErase
<1>2. e.chip \in {"none", "partial", "open", "pin"}
  BY DEF Elements
<1>3. CASE a = Answer([e EXCEPT !.scanned = TRUE, !.chip = "none", !.report = "EMPTY"], TRUE)
  BY <1>3 DEF Answer, Elements
<1>4. ASSUME NEW c \in {"none", "partial", "open", "pin"},
             a = Answer([e EXCEPT !.scanned = TRUE, !.chip = c, !.report = "UNAVAILABLE"], FALSE)
      PROVE  a.se \in Elements /\ ~a.ok
  <2>1. a.se = [e EXCEPT !.scanned = TRUE, !.chip = c, !.report = "UNAVAILABLE"] /\ a.ok = FALSE
    BY <1>4 DEF Answer
  <2> QED  BY <2>1 DEF Elements
<1> QED  BY <1>1, <1>2, <1>3, <1>4, Zenon

\* The runtime writes and unlocks seeds, and refreshes the element.
LEMMA InitializeSeedKeeps ==
  ASSUME NEW s \in Stores, NEW e \in Elements, NEW build, NEW pin \in {"open", "pin"},
         NEW f \in InitializeSeed(build, s, e, pin)
  PROVE  Harmless(s, f.store) /\ f.se \in Elements
<1>1. CASE build
  <2>1. PICK o \in Exists(s, "seed") :
          f.store = o.store /\ (f.se = e \/ \E a \in NxpInitialize(e, pin) : f.se = a.se)
    BY <1>1 DEF InitializeSeed, Effect
  <2> QED  BY <2>1, ExistsKeeps, NxpInitializeKeeps, Zenon
<1>2. CASE ~build
  <2>1. PICK o \in Write(s, "seed", pin) : f.store = o.store /\ f.se = e
    BY <1>2 DEF InitializeSeed, Effect
  <2>2. pin \in Values
    BY DEF Values
  <2> QED  BY <2>1, <2>2, WriteSeedKeeps, Zenon
<1> QED  BY <1>1, <1>2

LEMMA UnlockSeedKeeps ==
  ASSUME NEW s \in Stores, NEW e \in Elements, NEW build, NEW right, NEW f \in UnlockSeed(build, s, e, right)
  PROVE  Harmless(s, f.store) /\ f.se \in Elements
<1>1. \/ f.store = s /\ \E a \in NxpUnlock(e, right) : f.se = a.se
      \/ f.se = e /\ \E o \in Read(s, "seed") : f.store = o.store
  BY DEF UnlockSeed, Effect
<1>2. Harmless(s, s)
  BY DEF Harmless
<1> QED  BY <1>1, <1>2, NxpUnlockKeeps, ReadKeeps, Zenon

LEMMA RefreshSeedKeeps ==
  ASSUME NEW s \in Stores, NEW e \in Elements, NEW build, NEW f \in RefreshSeed(build, s, e)
  PROVE  Harmless(s, f.store) /\ f.se \in Elements
<1>1. \/ f.se = e /\ f.store = s
      \/ \E a \in NxpRefresh(e) : f.se = a.se /\ (f.store = s \/ \E o \in Exists(s, "seed") : f.store = o.store)
  BY DEF RefreshSeed, Effect
<1>2. \A a \in NxpRefresh(e) : a.se \in Scanned(e)
  BY DEF NxpRefresh, Answer
<1>3. Harmless(s, s)
  BY DEF Harmless
<1> QED  BY <1>1, <1>2, <1>3, ExistsKeeps, ScanKeeps, Zenon

-----------------------------------------------------------------------------
(* The inductive invariant.                                                *)

Results == {"none", "Updated", "Ready", "Mnemonic", "Error"}
Wallets == {"Disabled", "Setup", "Locked", "Ready", "Busy"}
Cores == [wallet : Wallets, walletChan : Wallets, pending : Nat, prepared : BOOLEAN, asked : Nat,
          due : Results, erasing : {"no", "element", "flash"}]

\* A request in flash is one that has not been honoured.
CreditGiven == credit \in BOOLEAN /\ (Holds(store, "update") => credit)

\* The wallet of a setup comes with a PIN, or with an empty one.
GoodRequest(r) == r.req = "InitCustom" => r.arg \in {"open", "pin"}
CommandsGood == \E S : cmdq \in Seq(S) /\ \A r \in S : GoodRequest(r)

Memory == store \in Stores /\ se \in Elements /\ core \in Cores
IInv == Memory /\ CommandsGood /\ CreditGiven /\ EraseOrder

\* What a step that does not reset the device keeps.
LEMMA Stay ==
  ASSUME IInv, Harmless(store, store'), se' \in Elements, core' \in Cores, UNCHANGED <<nxp, credit>>, CommandsGood',
         nxp /\ core'.erasing = "flash" => se'.chip = "none"
  PROVE  IInv'
<1>1. store' \in Stores /\ CreditGiven'
  BY DEF IInv, Memory, CreditGiven, Harmless, Holds
<1>2. EraseOrder'
  BY DEF EraseOrder
<1> QED  BY <1>1, <1>2 DEF IInv, Memory

LEMMA Offline ==
  ASSUME NEW e \in Elements
  PROVE  ElementOff(e) \in Elements /\ CoreOff \in Cores /\ CoreOff.erasing = "no"
<1>1. ElementOff(e) \in Elements
  BY DEF ElementOff, Elements
<1>2. CoreOff \in Cores /\ CoreOff.erasing = "no"
  BY DEF CoreOff, Cores, Wallets, Results
<1> QED  BY <1>1, <1>2

LEMMA EmptyGood ==
  /\ cmdq = <<>> => CommandsGood
  /\ cmdq' = <<>> => CommandsGood'
<1>1. <<>> \in Seq({}) /\ \A r \in {} : GoodRequest(r)
  BY EmptySeq
<1>2. ASSUME NEW c, c = <<>>
      PROVE  \E S : c \in Seq(S) /\ \A r \in S : GoodRequest(r)
  BY <1>1, <1>2
<1>3. cmdq = <<>> => CommandsGood
  BY <1>2 DEF CommandsGood
<1>4. cmdq' = <<>> => CommandsGood'
  BY <1>2 DEF CommandsGood
<1> QED  BY <1>3, <1>4

LEMMA AppendGood ==
  ASSUME CommandsGood, NEW r, GoodRequest(r), cmdq' = Append(cmdq, r)
  PROVE  CommandsGood'
<1>1. PICK S : cmdq \in Seq(S) /\ \A q \in S : GoodRequest(q)
  BY DEF CommandsGood
<1> DEFINE T == S \cup {r}
<1>2. Len(cmdq) \in Nat /\ cmdq \in [1..Len(cmdq) -> S]
  BY <1>1, LenProperties
<1>3. cmdq \in [1..Len(cmdq) -> T]
  BY <1>2
<1>4. cmdq \in Seq(T)
  BY <1>2, <1>3
<1>5. \A q \in T : GoodRequest(q)
  BY <1>1
<1>6. r \in T
  OBVIOUS
<1> HIDE DEF T
<1>7. cmdq' \in Seq(T)
  BY <1>4, <1>6, AppendProperties
<1> QED  BY <1>5, <1>7 DEF CommandsGood

LEMMA TailGood ==
  ASSUME CommandsGood, cmdq # <<>>
  PROVE  GoodRequest(Head(cmdq)) /\ (cmdq' = Tail(cmdq) => CommandsGood')
<1>1. PICK S : cmdq \in Seq(S) /\ \A q \in S : GoodRequest(q)
  BY DEF CommandsGood
<1>2. Head(cmdq) \in S /\ Tail(cmdq) \in Seq(S)
  BY <1>1, HeadTailProperties
<1> QED  BY <1>1, <1>2, Zenon DEF CommandsGood

LEMMA SameGood ==
  ASSUME CommandsGood, cmdq' = cmdq
  PROVE  CommandsGood'
  BY DEF CommandsGood

LEMMA RebootKeeps ==
  ASSUME NEW s \in Stores, NEW e \in Elements, Rebooted(s, e), UNCHANGED nxp,
         credit' \in BOOLEAN, Holds(s, "update") => credit'
  PROVE  IInv'
<1>1. store' = PoweredOff(s) /\ se' = ElementOff(e) /\ core' = CoreOff
  BY DEF Rebooted
<1>2. Harmless(s, store')
  BY <1>1, StartKeeps
<1>3. store' \in Stores /\ CreditGiven'
  BY <1>2 DEF Harmless, CreditGiven, Holds
<1>4. se' \in Elements /\ core' \in Cores /\ core'.erasing = "no"
  BY <1>1, Offline
<1>5. EraseOrder'
  BY <1>4 DEF EraseOrder
<1>6. CommandsGood'
  BY EmptyGood DEF Rebooted
<1> QED  BY <1>3, <1>4, <1>5, <1>6 DEF IInv, Memory

LEMMA ResetKeeps ==
  ASSUME IInv, NEW s \in Stores, NEW e \in Elements, Harmless(store, s), Reset(s, e)
  PROVE  IInv'
<1>1. credit' = (credit /\ Holds(s, "update")) /\ Rebooted(s, e) /\ UNCHANGED nxp
  BY DEF Reset
<1>2. credit' \in BOOLEAN /\ (Holds(s, "update") => credit')
  BY <1>1, Zenon DEF IInv, Memory, CreditGiven, Harmless
<1> QED  BY <1>1, <1>2, RebootKeeps

LEMMA InitIInv == Init => IInv
<1> SUFFICES ASSUME Init PROVE IInv
  OBVIOUS
<1>1. PICK seed \in {"none", "pin"} :
        store = [flash |-> [EmptyFlash EXCEPT !["seed"] = seed], fs |-> FALSE, ready |-> FALSE, chan |-> "INITIALIZING"]
  BY DEF Init, DeviceStart
<1>2. store \in Stores /\ ~Holds(store, "update")
  BY <1>1 DEF Stores, Holds, EmptyFlash, Ids, Values
<1>3. se \in Elements /\ credit = FALSE /\ core = CoreOff
  BY DEF Init, DeviceStart, Elements
<1>4. core \in Cores /\ core.erasing = "no"
  BY <1>3, Offline
<1>5. CommandsGood
  BY EmptyGood DEF Init, DeviceStart
<1> QED  BY <1>2, <1>3, <1>4, <1>5 DEF IInv, Memory, CreditGiven, EraseOrder

-----------------------------------------------------------------------------
(* Start-up.                                                               *)

LEMMA UpdateModeTakeKeeps ==
  ASSUME IInv, UpdateModeTake
  PROVE  IInv' /\ (main' = "update" => credit)
<1> USE DEF IInv, Memory
<1>1. UNCHANGED <<nxp, se, core>> /\ CommandsGood'
  BY SameGood DEF UpdateModeTake
<1>2. PICK read \in Read(store, "update") :
        IF read.ret <= 0 THEN NoUpdate(read.store)
        ELSE \E deleted \in Delete(read.store, "update") :
               IF deleted.ret = 0 THEN EnterUpdate(deleted.store) ELSE NoUpdate(deleted.store)
  BY Zenon DEF UpdateModeTake
<1>3. Harmless(store, read.store) /\ (~(read.ret <= 0) => credit)
  BY ReadKeeps DEF CreditGiven
<1>4. read.store \in Stores
  BY <1>3 DEF Harmless
<1>5. ASSUME NEW s, Harmless(store, s), NoUpdate(s)
      PROVE  IInv' /\ main' # "update"
  <2>1. store' = s /\ credit' = (credit /\ Holds(s, "update")) /\ main' # "update"
    BY <1>5 DEF NoUpdate
  <2>2. store' \in Stores /\ CreditGiven'
    BY <1>5, <2>1, Zenon DEF Harmless, CreditGiven
  <2>3. EraseOrder'
    BY <1>1 DEF EraseOrder
  <2> QED  BY <1>1, <2>1, <2>2, <2>3
<1>6. CASE read.ret <= 0
  BY <1>2, <1>3, <1>5, <1>6
<1>7. CASE ~(read.ret <= 0)
  <2>1. PICK deleted \in Delete(read.store, "update") :
          IF deleted.ret = 0 THEN EnterUpdate(deleted.store) ELSE NoUpdate(deleted.store)
    BY <1>2, <1>7
  <2>2. Harmless(store, deleted.store) /\ (deleted.ret = 0 => ~Holds(deleted.store, "update"))
    BY <1>3, <1>4, <2>1, DeleteKeeps DEF Harmless
  <2>3. CASE deleted.ret = 0
    <3>1. credit' = FALSE /\ store' = deleted.store
      BY <2>1, <2>3, Zenon DEF EnterUpdate
    <3>2. store' \in Stores /\ CreditGiven'
      BY <2>2, <2>3, <3>1, Zenon DEF Harmless, CreditGiven
    <3>3. EraseOrder'
      BY <1>1 DEF EraseOrder
    <3> QED  BY <1>1, <1>3, <1>7, <3>2, <3>3
  <2>4. CASE deleted.ret # 0
    BY <1>5, <2>1, <2>2, <2>4, Zenon
  <2> QED  BY <2>3, <2>4
<1> QED  BY <1>6, <1>7

LEMMA BootKeeps ==
  ASSUME IInv, StorageStart \/ LoadSettings \/ CoreInit \/ DisplayInit
  PROVE  IInv' /\ main' # "update"
<1> USE DEF IInv, Memory
<1>1. UNCHANGED <<nxp, credit, cmdq>> /\ main' # "update"
  BY Zenon DEF StorageStart, LoadSettings, CoreInit, DisplayInit, memory, coreVars
<1>2. CommandsGood'
  BY <1>1, SameGood
<1>3. Harmless(store, store)
  BY DEF Harmless
<1>4. CASE StorageStart \/ LoadSettings \/ DisplayInit
  <2>1. UNCHANGED <<se, core>>
    BY <1>4, Zenon DEF StorageStart, LoadSettings, DisplayInit, memory, coreVars
  <2>2. \/ store' = store \/ \E o \in StorageInit(store) : store' = o.store
        \/ \E o \in SettingsLoad(store) : store' = o.store
    BY <1>4, Zenon DEF StorageStart, LoadSettings, DisplayInit, memory
  <2>3. Harmless(store, store')
    BY <1>3, <2>2, StartKeeps, Zenon
  <2>4. nxp /\ core'.erasing = "flash" => se'.chip = "none"
    BY <2>1 DEF EraseOrder
  <2>5. se' \in Elements /\ core' \in Cores
    BY <2>1
  <2> QED  BY <1>1, <1>2, <2>3, <2>4, <2>5, Stay
<1>5. CASE CoreInit
  <2>1. PICK f \in SeedExists(nxp, store, se) :
          /\ store' = f.store /\ se' = f.se
          /\ core' = [core EXCEPT !.wallet = Classified(f.ret), !.walletChan = Classified(f.ret)]
    BY <1>5, Zenon DEF CoreInit
  <2>2. Harmless(store, store') /\ se' \in Elements /\ se'.chip = se.chip
    BY <2>1, SeedExistsKeeps
  <2>3. Classified(f.ret) \in Wallets
    BY DEF Classified, Wallets
  <2>4. core' \in Cores /\ core'.erasing = core.erasing
    BY <2>1, <2>3 DEF Cores
  <2>5. nxp /\ core'.erasing = "flash" => se'.chip = "none"
    BY <2>2, <2>4 DEF EraseOrder
  <2> QED  BY <1>1, <1>2, <2>2, <2>4, <2>5, Stay
<1> QED  BY <1>1, <1>4, <1>5

-----------------------------------------------------------------------------
(* The core thread.                                                        *)

\* The runtime touches store and element through the platform only, and never a reset's progress.
LEMMA ReactKeeps ==
  ASSUME Memory, NEW q, GoodRequest(q), NEW r \in React(q)
  PROVE  /\ Harmless(store, r.store) /\ r.se \in Elements
         /\ r.core \in Cores /\ r.core.erasing = core.erasing
<1> DEFINE Kept(c) == c \in Cores /\ c.erasing = core.erasing
           Good(t) == Harmless(store, t.store) /\ t.se \in Elements /\ Kept(t.core)
<1> USE DEF Memory
<1>1. Harmless(store, store) /\ Kept(core)
  BY DEF Harmless
<1>2. ASSUME NEW s, NEW e, NEW c, NEW result \in Results, Harmless(store, s), e \in Elements, Kept(c)
      PROVE  Good(Reacts(s, e, c, result))
  BY <1>2 DEF Reacts, Cores
<1>3. ASSUME NEW result \in Results PROVE Good(Same(result))
  BY <1>1, <1>2, <1>3 DEF Same
<1>4. Kept(Ended(core)) /\ Kept([Ended(core) EXCEPT !.wallet = "Locked"]) /\ Kept([core EXCEPT !.prepared = TRUE])
  BY DEF Ended, Cores, Wallets
<1>5. ASSUME NEW f, NEW wallet \in Wallets, NEW result \in Results, Harmless(store, f.store), f.se \in Elements
      PROVE  Good(Became(f, wallet, result))
  <2>1. Kept([core EXCEPT !.wallet = wallet])
    BY DEF Cores
  <2> QED  BY <1>2, <1>5, <2>1 DEF Became
<1>6. core.wallet \in Wallets
  BY DEF Cores
<1>7. {"none", "Updated", "Ready", "Mnemonic", "Error"} \subseteq Results
  BY DEF Results
<1> HIDE DEF Good, Kept
<1>8. CASE r \in Decided(q)
  <2>1. \/ r = Same("none") \/ r = Reacts(store, se, Ended(core), "none")
        \/ r = Reacts(store, se, [core EXCEPT !.prepared = TRUE], "none")
    BY <1>8, Zenon DEF Decided
  <2>2. Good(r)
    BY <1>1, <1>2, <1>3, <1>4, <1>7, <2>1
  <2> QED  BY <2>2 DEF Good, Kept
<1>9. CASE q.req = "Lock" /\ r = Reacts(store, se, [Ended(core) EXCEPT !.wallet = "Locked"], "Updated")
  <2>1. Good(r)
    BY <1>1, <1>2, <1>4, <1>7, <1>9
  <2> QED  BY <2>1 DEF Good, Kept
<1>10. CASE r = Same("Error") \/ r = Same("Mnemonic")
  <2>1. Good(r)
    BY <1>3, <1>7, <1>10
  <2> QED  BY <2>1 DEF Good, Kept
<1>11. CASE q.req = "InitCustom" /\ \E f \in InitializeSeed(nxp, store, se, q.arg) :
              r = Became(f, "Ready", "Ready") \/ r = Became(f, core.wallet, "Error")
  <2>1. PICK f \in InitializeSeed(nxp, store, se, q.arg) :
          r = Became(f, "Ready", "Ready") \/ r = Became(f, core.wallet, "Error")
    BY <1>11
  <2>2. q.arg \in {"open", "pin"}
    BY <1>11 DEF GoodRequest
  <2>3. Harmless(store, f.store) /\ f.se \in Elements
    BY <2>2, InitializeSeedKeeps
  <2>4. Good(r)
    BY <1>5, <1>6, <1>7, <2>1, <2>3 DEF Wallets
  <2> QED  BY <2>4 DEF Good, Kept
<1>12. CASE \E f \in UnlockSeed(nxp, store, se, q.arg = "good") :
              r = Became(f, "Ready", "Ready") \/ \E w \in {core.wallet, "Locked"} : r = Became(f, w, "Error")
  <2>1. PICK f \in UnlockSeed(nxp, store, se, q.arg = "good") :
              r = Became(f, "Ready", "Ready") \/ r = Became(f, core.wallet, "Error") \/ r = Became(f, "Locked", "Error")
    BY <1>12
  <2>2. Harmless(store, f.store) /\ f.se \in Elements
    BY UnlockSeedKeeps
  <2>3. Good(r)
    BY <1>5, <1>6, <1>7, <2>1, <2>2 DEF Wallets
  <2> QED  BY <2>3 DEF Good, Kept
<1>13. CASE \E f \in RefreshSeed(nxp, store, se) :
              \/ r = Became(f, "Locked", "Updated") \/ r = Became(f, "Setup", "Updated")
              \/ r = Became(f, "Disabled", "Error")
  <2>1. PICK f \in RefreshSeed(nxp, store, se) :
              \/ r = Became(f, "Locked", "Updated") \/ r = Became(f, "Setup", "Updated")
              \/ r = Became(f, "Disabled", "Error")
    BY <1>13
  <2>2. Harmless(store, f.store) /\ f.se \in Elements
    BY RefreshSeedKeeps
  <2>3. Good(r)
    BY <1>5, <1>7, <2>1, <2>2 DEF Wallets
  <2> QED  BY <2>3 DEF Good, Kept
<1>14. CASE r \in Granted(q)
  <2>1. CASE q.req = "InitCustom"
    BY <1>10, <1>11, <1>14, <2>1 DEF Granted
  <2>2. CASE q.req = "Unlock"
    BY <1>10, <1>12, <1>14, <2>2 DEF Granted
  <2>3. CASE q.req = "Refresh"
    BY <1>10, <1>13, <1>14, <2>3 DEF Granted
  <2>4. CASE q.req \notin {"InitCustom", "Unlock", "Refresh"}
    BY <1>10, <1>14, <2>4 DEF Granted
  <2> QED  BY <2>1, <2>2, <2>3, <2>4
<1> QED  BY <1>8, <1>9, <1>10, <1>14, Zenon DEF React

LEMMA ServeKeeps ==
  ASSUME IInv, Serve
  PROVE  IInv' /\ main' = main
<1> USE DEF IInv
<1>1. cmdq # <<>> /\ core.erasing = "no" /\ cmdq' = Tail(cmdq) /\ UNCHANGED <<main, nxp, credit>>
  BY Zenon DEF Serve, CoreFree
<1>2. GoodRequest(Head(cmdq)) /\ CommandsGood'
  BY <1>1, TailGood
<1>3. PICK r \in React(Head(cmdq)) : store' = r.store /\ se' = r.se /\ core' = r.core
  BY Zenon DEF Serve, Announce
<1>4. Harmless(store, store') /\ se' \in Elements /\ core' \in Cores /\ core'.erasing = "no"
  BY <1>1, <1>2, <1>3, ReactKeeps
<1> QED  BY <1>1, <1>2, <1>4, Stay

LEMMA ResetStepsKeep ==
  ASSUME IInv, BeginReset \/ EraseElement \/ EraseStore \/ Restart \/ PowerLoss
  PROVE  IInv' /\ (main' = main \/ main' = "storage")
<1> USE DEF IInv, Memory
<1>1. Harmless(store, store)
  BY DEF Harmless
<1>2. CASE BeginReset
  <2>1. cmdq # <<>> /\ cmdq' = Tail(cmdq) /\ UNCHANGED <<main, nxp, store, se, credit>>
    BY <1>2, Zenon DEF BeginReset, memory
  <2>2. CommandsGood'
    BY <2>1, TailGood
  <2>3. /\ core.erasing = "no"
        /\ core' = IF core.pending # 0 THEN [core EXCEPT !.due = "Error"]
                   ELSE [core EXCEPT !.erasing = IF nxp THEN "element" ELSE "flash"]
    BY <1>2, Zenon DEF BeginReset, CoreFree
  <2>4. core' \in Cores /\ (nxp => core'.erasing # "flash")
    BY <2>3 DEF Cores, Results
  <2> QED  BY <1>1, <2>1, <2>2, <2>4, Stay
<1>3. CASE EraseElement
  <2>1. UNCHANGED <<main, nxp, store, credit, cmdq>>
    BY <1>3, Zenon DEF EraseElement
  <2>2. CommandsGood'
    BY <2>1, SameGood
  <2>3. PICK a \in NxpErase(se) :
          /\ se' = a.se
          /\ core' = IF a.ok THEN [core EXCEPT !.erasing = "flash"]
                     ELSE [core EXCEPT !.erasing = "no", !.due = "Error"]
    BY <1>3, Zenon DEF EraseElement
  <2>4. se' \in Elements /\ (a.ok => se'.chip = "none")
    BY <2>3, NxpEraseKeeps
  <2>5. core' \in Cores /\ (~a.ok => core'.erasing = "no")
    BY <2>3 DEF Cores, Results
  <2> QED  BY <1>1, <2>1, <2>2, <2>4, <2>5, Stay
<1>4. CASE EraseStore
  <2>1. PICK o \in EraseFlash(store) :
          IF o.ret = 0 THEN Reset(o.store, se)
          ELSE /\ store' = o.store /\ core' = [core EXCEPT !.erasing = "no", !.due = "Error"]
               /\ UNCHANGED <<main, nxp, se, credit, cmdq>>
    BY <1>4, Zenon DEF EraseStore
  <2>2. Harmless(store, o.store) /\ o.store \in Stores
    BY EraseFlashKeeps DEF Harmless
  <2>3. CASE o.ret = 0
    <3>1. Reset(o.store, se)
      BY <2>1, <2>3
    <3>2. main' = "storage"
      BY <3>1, Zenon DEF Reset, Rebooted
    <3> QED  BY <2>2, <3>1, <3>2, ResetKeeps
  <2>4. CASE o.ret # 0
    <3>1. store' = o.store /\ core' = [core EXCEPT !.erasing = "no", !.due = "Error"] /\ UNCHANGED <<main, nxp, se, credit, cmdq>>
      BY <2>1, <2>4
    <3>2. core' \in Cores /\ core'.erasing = "no"
      BY <3>1 DEF Cores, Results
    <3> QED  BY <2>2, <3>1, <3>2, SameGood, Stay
  <2> QED  BY <2>3, <2>4
<1>5. CASE Restart \/ PowerLoss
  <2>1. Reset(store, se)
    BY <1>5, Zenon DEF Restart, PowerLoss
  <2>2. main' = "storage"
    BY <2>1, Zenon DEF Reset, Rebooted
  <2> QED  BY <1>1, <2>1, <2>2, ResetKeeps
<1> QED  BY <1>2, <1>3, <1>4, <1>5

LEMMA RoutingKeeps ==
  ASSUME IInv, RouteResult \/ PublishWallet \/ Ask \/ Settle
  PROVE  IInv' /\ main' = main
<1> USE DEF IInv, Memory
<1>1. UNCHANGED <<main, nxp, store, se, credit, cmdq>>
  BY Zenon DEF RouteResult, PublishWallet, Ask, Settle, memory
<1>2. CommandsGood' /\ Harmless(store, store')
  BY <1>1, SameGood DEF Harmless
<1>3. core' \in Cores /\ core'.erasing = core.erasing
  <2>1. CASE RouteResult
    <3>1. core' = [core EXCEPT !.due = "none"]
      BY <2>1, Zenon DEF RouteResult
    <3> QED  BY <3>1 DEF Cores, Results
  <2>2. CASE PublishWallet
    <3>1. core' = [core EXCEPT !.walletChan = Published(core)]
      BY <2>2, Zenon DEF PublishWallet
    <3>2. Published(core) \in Wallets
      BY DEF Published, Cores, Wallets
    <3> QED  BY <3>1, <3>2 DEF Cores
  <2>3. CASE Ask
    <3>1. PICK p \in BOOLEAN : core' = [core EXCEPT !.pending = core.asked + 1, !.asked = @ + 1, !.prepared = p]
      BY <2>3, Zenon DEF Ask, Announce
    <3>2. core.asked + 1 \in Nat
      BY DEF Cores
    <3>3. core' = [core EXCEPT !.pending = core.asked + 1, !.asked = core.asked + 1, !.prepared = p]
      BY <3>1
    <3> QED  BY <3>2, <3>3 DEF Cores
  <2>4. CASE Settle
    <3>1. core' = Ended(core)
      BY <2>4, Zenon DEF Settle, Announce
    <3> QED  BY <3>1 DEF Ended, Cores
  <2> QED  BY <2>1, <2>2, <2>3, <2>4
<1>4. nxp /\ core'.erasing = "flash" => se'.chip = "none"
  BY <1>1, <1>3 DEF EraseOrder
<1> QED  BY <1>1, <1>2, <1>3, <1>4, Stay

LEMMA ProbeKeeps ==
  ASSUME IInv, Probe
  PROVE  IInv' /\ main' = main
<1> USE DEF IInv, Memory
<1>1. UNCHANGED <<main, nxp, core, credit, cmdq>>
  BY Zenon DEF Probe
<1>2. PICK f \in SeedExists(nxp, store, se) : store' = f.store /\ se' = f.se
  BY Zenon DEF Probe
<1>3. Harmless(store, store') /\ se' \in Elements /\ se'.chip = se.chip
  BY <1>2, SeedExistsKeeps
<1>4. nxp /\ core'.erasing = "flash" => se'.chip = "none"
  BY <1>1, <1>3 DEF EraseOrder
<1> QED  BY <1>1, <1>3, <1>4, SameGood, Stay

LEMMA UpdateRequestKeeps ==
  ASSUME IInv, UpdateRequest
  PROVE  IInv' /\ (main' = main \/ main' = "storage")
<1> USE DEF IInv, Memory
<1>1. UNCHANGED nxp
  BY Zenon DEF UpdateRequest
<1>2. PICK o \in Write(store, "update", "set") :
        /\ credit' = (credit \/ Holds(o.store, "update"))
        /\ \/ Rebooted(o.store, se)
           \/ store' = o.store /\ UNCHANGED <<main, se, core, cmdq>>
  BY Zenon DEF UpdateRequest
<1>3. o.store \in Stores
  BY WriteRequestKeeps
<1>4. credit' \in BOOLEAN /\ (Holds(o.store, "update") => credit')
  BY <1>2, Zenon DEF CreditGiven, Holds
<1>5. CASE Rebooted(o.store, se)
  <2>1. main' = "storage"
    BY <1>5, Zenon DEF Rebooted
  <2> QED  BY <1>1, <1>3, <1>4, <1>5, <2>1, RebootKeeps
<1>6. CASE store' = o.store /\ UNCHANGED <<main, se, core, cmdq>>
  <2>1. store' \in Stores /\ CreditGiven' /\ EraseOrder' /\ CommandsGood'
    BY <1>1, <1>3, <1>4, <1>6, SameGood DEF CreditGiven, EraseOrder, Holds
  <2> QED  BY <1>6, <2>1
<1> QED  BY <1>2, <1>5, <1>6

-----------------------------------------------------------------------------
(* The touch UI: it reads the flash, and queues requests.                  *)

\* What a step of the UI leaves alone.
UiStepShape ==
  /\ UNCHANGED <<main, nxp, se, credit, core>>
  /\ store' = store \/ \E o \in Exists(store, "seed") : store' = o.store
  /\ cmdq' = cmdq \/ \E r : GoodRequest(r) /\ cmdq' = Append(cmdq, r)

LEMMA UiStepKeeps ==
  ASSUME IInv, UiStepShape
  PROVE  IInv' /\ main' = main
<1> USE DEF IInv, Memory, UiStepShape
<1>1. CommandsGood'
  <2>1. CASE cmdq' = cmdq
    BY <2>1, SameGood
  <2>2. CASE \E r : GoodRequest(r) /\ cmdq' = Append(cmdq, r)
    BY <2>2, AppendGood
  <2> QED  BY <2>1, <2>2
<1>2. Harmless(store, store')
  <2>1. Harmless(store, store)
    BY DEF Harmless
  <2> QED  BY <2>1, ExistsKeeps, Zenon
<1>3. nxp /\ core'.erasing = "flash" => se'.chip = "none"
  BY DEF EraseOrder
<1> QED  BY <1>1, <1>2, <1>3, Stay

LEMMA RequestsGood ==
  ASSUME NEW u, NEW x
  PROVE  /\ \A row : GoodRequest(TapRow(u, x, row).request)
         /\ \A confirmed : GoodRequest(DialogClicked(u, x, confirmed).request)
         /\ \A text : GoodRequest(InputHandler(u, x, text).request)
<1> DEFINE Good(step) == GoodRequest(step.request)
<1>1. ASSUME NEW v PROVE Good(Step(v, NoRequest))
  BY DEF Step, NoRequest, Request, GoodRequest
<1>2. ASSUME NEW v, NEW c \in {"Approve", "Reject"} PROVE Good(Choice(v, c))
  BY DEF Choice, Step, Request, GoodRequest
<1>3. ASSUME NEW v PROVE Good(SubmitWallet(v))
  BY DEF SubmitWallet, Step, Request, GoodRequest
<1>4. ASSUME NEW v, NEW req \in Plain \cup {"ResetStorage", "Unlock"}, NEW arg PROVE Good(Step(v, Request(req, arg, 0)))
  BY DEF Step, Request, GoodRequest, Plain
<1> HIDE DEF Good
<1>5. ASSUME NEW row PROVE Good(TapRow(u, x, row))
  BY <1>1, <1>2, <1>4 DEF TapRow
<1>6. ASSUME NEW confirmed PROVE Good(DialogClicked(u, x, confirmed))
  BY <1>1, <1>2, <1>4 DEF DialogClicked, DialogAction, Plain
<1>7. ASSUME NEW v, NEW text PROVE Good(CurrentInput(v, x, text))
  BY <1>1, <1>3, <1>4 DEF CurrentInput
<1>8. ASSUME NEW text PROVE Good(InputHandler(u, x, text))
  BY <1>1, <1>7 DEF InputHandler, WifiPassword
<1> QED  BY <1>5, <1>6, <1>8 DEF Good

LEMMA QueuedGood ==
  ASSUME NEW step, GoodRequest(step.request), cmdq' = Queued(step)
  PROVE  cmdq' = cmdq \/ \E r : GoodRequest(r) /\ cmdq' = Append(cmdq, r)
  BY DEF Queued

LEMMA TouchShape ==
  ASSUME Touch
  PROVE  UiStepShape
<1>1. CASE Tap
  <2>1. PICK row \in ui.rows : LET Do(x) == TapRow(ui, x, row) IN Submitting(Do)
    BY <1>1, Zenon DEF Tap
  <2>2. cmdq' = Queued(TapRow(ui, X(FALSE), row))
    BY <2>1 DEF Submitting
  <2>3. cmdq' = cmdq \/ \E r : GoodRequest(r) /\ cmdq' = Append(cmdq, r)
    BY <2>2, RequestsGood, QueuedGood
  <2> QED  BY <2>1, <2>3 DEF UiStepShape, Submitting, Draw
<1>2. CASE DialogButton
  <2>1. PICK confirmed \in BOOLEAN : LET Do(x) == DialogClicked(ui, x, confirmed) IN Submitting(Do)
    BY <1>2, Zenon DEF DialogButton
  <2>2. cmdq' = Queued(DialogClicked(ui, X(FALSE), confirmed))
    BY <2>1 DEF Submitting
  <2>3. cmdq' = cmdq \/ \E r : GoodRequest(r) /\ cmdq' = Append(cmdq, r)
    BY <2>2, RequestsGood, QueuedGood
  <2> QED  BY <2>1, <2>3 DEF UiStepShape, Submitting, Draw
<1>3. CASE ToggleSource
  BY <1>3 DEF ToggleSource, Drawing, Draw, UiStepShape
<1>4. CASE Collect
  BY <1>4 DEF Collect, Drawing, Draw, UiStepShape
<1>5. CASE SkipSource
  BY <1>5 DEF SkipSource, Drawing, Draw, UiStepShape
<1>6. CASE BackArrow
  BY <1>6 DEF BackArrow, Drawing, Draw, UiStepShape
<1>7. CASE Icon
  BY <1>7 DEF Icon, Drawing, Draw, UiStepShape
<1>8. CASE Field \/ Cancel
  BY <1>8 DEF Field, Cancel, Drawing, Draw, UiStepShape
<1>9. CASE Submit
  BY <1>9 DEF Submit, Drawing, Draw, UiStepShape
<1> QED  BY <1>1, <1>2, <1>3, <1>4, <1>5, <1>6, <1>7, <1>8, <1>9, Zenon DEF Touch

LEMMA LvglShape ==
  ASSUME Lvgl
  PROVE  UiStepShape
<1>1. CASE Deferred
  <2>1. /\ UNCHANGED <<main, nxp, se, credit, core>>
        /\ store' = store \/ \E o \in Exists(store, "seed") : store' = o.store
    BY <1>1 DEF Deferred, Drawing, Submitting, Draw
  <2>2. cmdq' = cmdq \/ \E text : cmdq' = Queued(InputHandler(ui, X(FALSE), text))
    BY <1>1 DEF Deferred, Drawing, Submitting
  <2>3. cmdq' = cmdq \/ \E r : GoodRequest(r) /\ cmdq' = Append(cmdq, r)
    BY <2>2, RequestsGood, QueuedGood
  <2> QED  BY <2>1, <2>3 DEF UiStepShape
<1>2. CASE StartupExpired
  BY <1>2 DEF StartupExpired, Draw, UiStepShape
<1>3. CASE CollectorMoves
  BY <1>3 DEF CollectorMoves, memory, coreVars, UiStepShape
<1>4. CASE EntropyTick
  BY <1>4 DEF EntropyTick, Drawing, Draw, UiStepShape
<1> QED  BY <1>1, <1>2, <1>3, <1>4, Zenon DEF Lvgl

LEMMA EventShape ==
  ASSUME EventThread
  PROVE  UiStepShape
<1>1. CASE Take \/ ReadConfirmation
  BY <1>1 DEF Take, ReadConfirmation, memory, coreVars, UiStepShape
<1>2. CASE HandleStatus
  BY <1>2 DEF HandleStatus, Draw, UiStepShape
<1>3. CASE HandleNetwork
  BY <1>3 DEF HandleNetwork, Drawing, Draw, UiStepShape
<1>4. CASE HandleLocalResult
  BY <1>4 DEF HandleLocalResult, Draw, UiStepShape
<1>5. CASE HandleConfirmation
  BY <1>5 DEF HandleConfirmation, Draw, UiStepShape
<1> QED  BY <1>1, <1>2, <1>3, <1>4, <1>5, Zenon DEF EventThread

-----------------------------------------------------------------------------
(* The theorems.                                                           *)

LEMMA NextIInv ==
  ASSUME IInv, [Next]_vars
  PROVE  IInv' /\ (main' = "update" /\ main # "update" => credit)
<1>1. CASE UpdateModeTake
  BY <1>1, UpdateModeTakeKeeps
<1>2. CASE StorageStart \/ LoadSettings \/ CoreInit \/ DisplayInit
  BY <1>2, BootKeeps
<1>3. CASE Serve
  BY <1>3, ServeKeeps
<1>4. CASE BeginReset \/ EraseElement \/ EraseStore \/ Restart \/ PowerLoss
  BY <1>4, ResetStepsKeep
<1>5. CASE RouteResult \/ PublishWallet \/ Ask \/ Settle
  BY <1>5, RoutingKeeps
<1>6. CASE Probe
  BY <1>6, ProbeKeeps
<1>7. CASE UpdateRequest
  BY <1>7, UpdateRequestKeeps
<1>8. CASE Touch \/ Lvgl \/ EventThread
  <2>1. UiStepShape
    BY <1>8, TouchShape, LvglShape, EventShape
  <2> QED  BY <2>1, UiStepKeeps
<1>9. CASE UNCHANGED vars
  <2>1. UNCHANGED <<main, nxp, store, se, credit, core, cmdq>>
    BY <1>9, Zenon DEF vars, memory, coreVars
  <2>2. UiStepShape
    BY <2>1, Zenon DEF UiStepShape
  <2> QED  BY <2>2, UiStepKeeps
<1> QED  BY <1>1, <1>2, <1>3, <1>4, <1>5, <1>6, <1>7, <1>8, <1>9, Zenon DEF Next, Boot, CoreStep

\* The flash is erased only once the secure element is empty (app.c:104-114).
THEOREM ResetInOrder == Spec => []EraseOrder
<1>1. Init => IInv
  BY InitIInv
<1>2. IInv /\ [Next]_vars => IInv'
  BY NextIInv
<1>3. IInv => EraseOrder
  BY Zenon DEF IInv
<1> QED  BY <1>1, <1>2, <1>3, PTL DEF Spec

\* Update mode is entered at most once for a request (boot.c:36-51).
THEOREM UpdateModeEnteredOnce == Spec => UpdateModeOnce
<1>1. Init => IInv
  BY InitIInv
<1>2. IInv /\ [Next]_vars => IInv'
  BY NextIInv
<1>3. IInv /\ [Next]_vars => [main' = "update" /\ main # "update" => credit]_vars
  BY NextIInv
<1> QED  BY <1>1, <1>2, <1>3, PTL DEF Spec, UpdateModeOnce

-----------------------------------------------------------------------------
(* The pages: what is on the screen, what leads back, what is held.        *)

\* The rows a page can offer, the pages a history can hold, and the records the UI's state is one of.
RowNames == (Pages \ {"SPLASH", "CONFIRMATION"}) \cup Dialogs \cup Plain
            \cup {"Approve", "Reject", "toggle", "collect", "skip", "retry", "privacy"}
Stops == Pages \ {"SPLASH"}
Uis == [page : Pages \cup {"NONE"}, shown : Pages \cup {"NONE"}, rows : SUBSET RowNames,
        history : Seq(Stops), kb : {"none", "hidden", "open"}, async : SUBSET {"show", "hide", "submit"},
        dialog : Dialogs \cup {"none"}, busy : BOOLEAN, held : SUBSET Secrets,
        confirmation : 0..MaxConfirmations, sources : SUBSET Sources, session : BOOLEAN,
        collector : {"idle", "capturing", "error", "ready"}, drawn : {"idle", "capturing"},
        wallet : Wallets, storage : {"INITIALIZING", "READY", "ERROR"}]

\* What leads back, and what collects.
Trail(u) ==
  /\ Len(u.history) <= HistoryDepth
  /\ u.history # <<>> => u.history[1] \in Roots
  /\ u.history = <<>> => u.page \in Roots
  /\ u.page # "NONE" /\ (u.page = "SPLASH" => u.history = <<>>)
Collecting(u) == (u.collector # "idle" => u.session) /\ (u.session => u.page = "ENTROPY_COLLECT")

\* What is on the screen.
Offered(u) ==
  /\ u.kb # "none" => u.shown \in InputPages
  /\ u.kb = "none" => u.async = {}
  /\ u.rows \cap {"toggle", "collect"} # {} => u.shown = "ENTROPY_SOURCES"
  /\ u.rows \cap {"retry", "skip"} # {} => u.shown = "ENTROPY_COLLECT"
  /\ "Mixed" \in u.rows => u.rows = {"Mixed"}
Base(u) == u \in Uis /\ Trail(u) /\ Collecting(u) /\ Offered(u)
Matching(u) ==
  /\ u.shown = u.page \/ (u.page = "CONFIRMATION" /\ u.confirmation = 0 /\ u.shown \in InputPages)
  /\ u.page = "SPLASH" => u.rows = {} /\ u.dialog = "none" /\ u.kb = "none"
  /\ u.rows \cap {"retry", "skip"} # {} => u.session
  /\ u.shown \in Clearing => u.held = {} /\ u.sources = {}
Sound(u) == Base(u) /\ Matching(u)

\* No page but the two of the collection offers what belongs to it.
Ordinary == RowNames \ {"toggle", "collect", "retry", "skip", "Mixed"}

\* Every page's rows but those of the collection are ordinary ones (ui_pages.c, ui_hw.c, ui_nxp.c).
LEMMA OrdinaryRows ==
  ASSUME NEW u, NEW x
  PROVE  /\ CapabilitiesRows(u, x) \subseteq Ordinary /\ NxpRows(u, x) \subseteq Ordinary
         /\ SettingsRows(x) \subseteq Ordinary /\ StorageErrorRows(x) \subseteq Ordinary
         /\ NxpEntry(x) \subseteq Ordinary
         /\ {HomeRows, SourceRows, LengthRows, MethodRows, MnemonicRows, EntropyRows, WifiRows, BluetoothRows,
             UsbRows, CameraRows, ConfirmationRows, {}} \subseteq SUBSET Ordinary
<1> USE DEF If, Ordinary, RowNames, Pages, Roots, StatusPages, InputPages, Dialogs, Plain
<1>1. {"NXP", "PIN_NEW", "Refresh", "erase", "Lock", "LOCKED", "FILES", "WIFI", "BLUETOOTH", "USB", "restart",
       "SETTINGS", "IMPORT", "LENGTH", "norng", "ENTROPY_METHOD", "Generate", "ENTROPY", "ENTROPY_SOURCES",
       "VERIFY", "Custom", "Restart", "forget", "WIFI_PASSWORD", "privacy", "FIDO_PIN_RECOVER", "QR_SCANNER",
       "Approve", "Reject"} \subseteq Ordinary
  OBVIOUS
<1> HIDE DEF Ordinary
<1>2. NxpEntry(x) \subseteq Ordinary
  BY <1>1 DEF NxpEntry
<1>3. CapabilitiesRows(u, x) \subseteq Ordinary /\ StorageErrorRows(x) \subseteq Ordinary
  BY <1>1, <1>2 DEF CapabilitiesRows, StorageErrorRows
<1>4. SettingsRows(x) \subseteq Ordinary
  BY <1>1, <1>2 DEF SettingsRows
<1>5. NxpRows(u, x) \subseteq Ordinary
  BY <1>1 DEF NxpRows
<1>6. {HomeRows, SourceRows, LengthRows, MnemonicRows, EntropyRows, WifiRows, BluetoothRows, ConfirmationRows, {}}
      \subseteq SUBSET Ordinary
  BY <1>1 DEF HomeRows, SourceRows, LengthRows, MnemonicRows, EntropyRows, WifiRows, BluetoothRows, ConfirmationRows
<1>7. {MethodRows, UsbRows, CameraRows} \subseteq SUBSET Ordinary
  BY <1>1 DEF MethodRows, UsbRows, CameraRows
<1> QED  BY <1>2, <1>3, <1>4, <1>5, <1>6, <1>7

\* Which rows a page can offer; the splash screen offers none.
LEMMA RowsType ==
  ASSUME NEW u, NEW x
  PROVE  /\ u.page \notin {"ENTROPY_SOURCES", "ENTROPY_COLLECT"} => Rows(u, x) \subseteq Ordinary
         /\ u.page = "ENTROPY_SOURCES" => Rows(u, x) \subseteq {"toggle", "collect"}
         /\ u.page = "ENTROPY_COLLECT" => IF u.session THEN Rows(u, x) \subseteq {"retry", "skip"} \/ Rows(u, x) = {"Mixed"}
                                         ELSE Rows(u, x) = {}
         /\ u.page = "SPLASH" => Rows(u, x) = {}
<1>1. CASE u.page \in {"ENTROPY_SOURCES", "SPLASH"}
  BY <1>1 DEF Rows, SourcesRows, If
<1>2. CASE u.page = "ENTROPY_COLLECT"
  <2>1. Rows(u, x) = CollectRows(u)
    BY <1>2 DEF Rows
  <2> QED  BY <1>2, <2>1 DEF CollectRows
<1>3. CASE u.page \notin {"ENTROPY_SOURCES", "ENTROPY_COLLECT"}
  <2>1. Rows(u, x) \in {CapabilitiesRows(u, x), NxpRows(u, x), SettingsRows(x), StorageErrorRows(x), NxpEntry(x),
                        HomeRows, SourceRows, LengthRows, MethodRows, MnemonicRows, EntropyRows, WifiRows,
                        BluetoothRows, UsbRows, CameraRows, ConfirmationRows, {}}
    BY <1>3 DEF Rows
  <2>2. Rows(u, x) \subseteq Ordinary
    BY <2>1, OrdinaryRows
  <2> QED  BY <1>1, <1>3, <2>2
<1> QED  BY <1>1, <1>2, <1>3

\* Drawing, one part after the other.
LEMMA BegunFields ==
  ASSUME NEW u \in Uis
  PROVE  /\ Clear(u) \in Uis /\ Clear(u) = [u EXCEPT !.held = {}, !.session = FALSE, !.sources = {}]
         /\ InputPage(PageBegin(u)) \in Uis
         /\ InputPage(PageBegin(u)) =
              [u EXCEPT !.dialog = "none", !.async = {}, !.shown = u.page,
                        !.kb = IF u.page \in InputPages THEN "hidden" ELSE "none"]
<1>1. Clear(u) \in Uis
  BY DEF Clear, Uis
<1>2. PageBegin(u) \in Uis
  BY DEF PageBegin, InputReset, CloseDialog, Uis
<1>3. PageBegin(u) = [u EXCEPT !.dialog = "none", !.async = {}, !.shown = u.page, !.kb = "none"]
  BY DEF PageBegin, InputReset, CloseDialog, Uis
<1>4. InputPage(PageBegin(u)) \in Uis
  <2>1. ASSUME NEW v \in Uis PROVE [v EXCEPT !.kb = "hidden"] \in Uis
    BY DEF Uis
  <2> QED  BY <1>2, <2>1 DEF InputPage
<1>5. InputPage(PageBegin(u)) =
              [u EXCEPT !.dialog = "none", !.async = {}, !.shown = u.page,
                        !.kb = IF u.page \in InputPages THEN "hidden" ELSE "none"]
  BY <1>3 DEF InputPage, Uis
<1> QED  BY <1>1, <1>4, <1>5 DEF Clear

\* What drawing a page sets and what it leaves (ui_begin_page and the draw functions).
LEMMA DrawnFields ==
  ASSUME NEW u \in Uis, NEW x
  PROVE  LET v == Drawn(u, x)
             c == IF u.page \in Clearing THEN Clear(u) ELSE u
         IN  /\ v \in Uis
             /\ v.page = u.page /\ v.shown = u.page /\ v.rows = Rows(c, x)
             /\ v.history = u.history /\ v.async = {} /\ v.busy = u.busy /\ v.confirmation = u.confirmation
             /\ v.kb = IF u.page \in InputPages THEN "hidden" ELSE "none"
             /\ v.dialog = "none" \/ (v.dialog = "key" /\ u.page = "CONFIRMATION")
             /\ v.held = c.held /\ v.sources = c.sources /\ v.session = c.session
             /\ v.collector = u.collector /\ v.wallet = u.wallet /\ v.storage = u.storage
<1> DEFINE c == IF u.page \in Clearing THEN Clear(u) ELSE u
           b == InputPage(PageBegin(c))
           d == [b EXCEPT !.rows = Rows(c, x)]
           Alike(v) == /\ v.page = u.page /\ v.shown = u.page /\ v.rows = Rows(c, x)
                       /\ v.history = u.history /\ v.async = {} /\ v.busy = u.busy /\ v.confirmation = u.confirmation
                       /\ v.kb = IF u.page \in InputPages THEN "hidden" ELSE "none"
                       /\ v.held = c.held /\ v.sources = c.sources /\ v.session = c.session
                       /\ v.collector = u.collector /\ v.wallet = u.wallet /\ v.storage = u.storage
<1>1. /\ c \in Uis /\ c.page = u.page /\ c.history = u.history /\ c.busy = u.busy /\ c.confirmation = u.confirmation
      /\ c.collector = u.collector /\ c.wallet = u.wallet /\ c.storage = u.storage
  <2>1. CASE u.page \in Clearing
    <3>1. c = Clear(u)
      BY <2>1
    <3>2. c \in Uis
      BY <3>1, BegunFields
    <3> QED  BY <3>1, <3>2 DEF Clear, Uis
  <2>2. CASE u.page \notin Clearing
    BY <2>2
  <2> QED  BY <2>1, <2>2
<1> HIDE DEF c
<1>2. Rows(c, x) \in SUBSET RowNames
  <2>1. Ordinary \subseteq RowNames /\ {"retry", "skip", "Mixed", "toggle", "collect"} \subseteq RowNames
    BY DEF Ordinary, RowNames, Plain
  <2> QED  BY <2>1, RowsType
<1>3. b \in Uis /\ b = [c EXCEPT !.dialog = "none", !.async = {}, !.shown = c.page,
                                  !.kb = IF c.page \in InputPages THEN "hidden" ELSE "none"]
  BY <1>1, BegunFields
<1> HIDE DEF b
<1>4. d \in Uis
  <2>1. ASSUME NEW v \in Uis, NEW r \in SUBSET RowNames PROVE [v EXCEPT !.rows = r] \in Uis
    BY DEF Uis
  <2> QED  BY <1>2, <1>3, <2>1
<1>5. Alike(d) /\ d.dialog = "none"
  BY <1>1, <1>3, <1>4 DEF Uis
<1> HIDE DEF d
<1>6. CollectTimer(d) \in Uis /\ Alike(CollectTimer(d)) /\ CollectTimer(d).dialog = "none"
  <2> DEFINE w == IF d.page = "ENTROPY_COLLECT" /\ d.session /\ d.collector = "capturing" THEN "capturing" ELSE "idle"
  <2>1. CollectTimer(d) = [d EXCEPT !.drawn = w] /\ w \in {"idle", "capturing"}
    BY DEF CollectTimer
  <2> HIDE DEF w
  <2>2. [d EXCEPT !.drawn = w] \in Uis
    BY <1>4, <2>1 DEF Uis
  <2>3. /\ Alike([d EXCEPT !.drawn = w]) /\ [d EXCEPT !.drawn = w].dialog = "none"
    BY <1>4, <1>5, <2>2 DEF Uis
  <2> QED  BY <2>1, <2>2, <2>3
<1> DEFINE t == CollectTimer(d)
<1>7. Drawn(u, x) = KeyDialog(t, x)
  BY DEF Drawn, c, b, d
<1> HIDE DEF t
<1>8. t \in Uis /\ Alike(t) /\ t.dialog = "none"
  BY <1>6 DEF t
<1>9. \/ Drawn(u, x) = t
      \/ Drawn(u, x) = [t EXCEPT !.dialog = "key"] /\ u.page = "CONFIRMATION"
  BY <1>7, <1>8 DEF KeyDialog, ShowDialog
<1>10. [t EXCEPT !.dialog = "key"] \in Uis /\ Alike([t EXCEPT !.dialog = "key"]) /\ [t EXCEPT !.dialog = "key"].dialog = "key"
  BY <1>8 DEF Uis, Dialogs
<1> QED  BY <1>8, <1>9, <1>10 DEF c

\* A page that is drawn is on the screen, with its own rows and keyboard, whatever was there before.
LEMMA DrawnSound ==
  ASSUME NEW u, Base(u), NEW x
  PROVE  Sound(Drawn(u, x)) /\ Drawn(u, x).page = u.page
<1> DEFINE c == IF u.page \in Clearing THEN Clear(u) ELSE u
           v == Drawn(u, x)
<1>1. u \in Uis
  BY DEF Base
<1>2. c.page = u.page /\ (u.page \in Clearing => c.held = {} /\ c.sources = {} /\ c.session = FALSE) /\ (u.page \notin Clearing => c = u)
  BY <1>1 DEF Clear, Uis
<1> HIDE DEF c
<1>3. /\ v \in Uis
      /\ v.page = u.page /\ v.shown = u.page /\ v.rows = Rows(c, x)
      /\ v.history = u.history /\ v.async = {} /\ v.busy = u.busy /\ v.confirmation = u.confirmation
      /\ v.kb = IF u.page \in InputPages THEN "hidden" ELSE "none"
      /\ v.dialog = "none" \/ (v.dialog = "key" /\ u.page = "CONFIRMATION")
      /\ v.held = c.held /\ v.sources = c.sources /\ v.session = c.session
      /\ v.collector = u.collector
  BY <1>1, DrawnFields DEF c
<1> HIDE DEF v
<1>4. "ENTROPY_COLLECT" \notin Clearing /\ "SPLASH" \notin InputPages
  BY DEF Clearing, InputPages
<1>5. Trail(v)
  BY <1>3 DEF Base, Trail
<1>6. Collecting(v)
  BY <1>1, <1>2, <1>3, <1>4 DEF Base, Collecting, Uis
<1>7. Offered(v) /\ Matching(v)
  <2>1. Rows(c, x) \cap {"toggle", "collect"} # {} => u.page = "ENTROPY_SOURCES"
    BY <1>2, RowsType DEF Ordinary
  <2>2. Rows(c, x) \cap {"retry", "skip"} # {} => u.page = "ENTROPY_COLLECT" /\ c.session
    BY <1>2, RowsType DEF Ordinary
  <2>3. "Mixed" \in Rows(c, x) => Rows(c, x) = {"Mixed"}
    BY <1>2, RowsType DEF Ordinary
  <2>4. Offered(v)
    BY <1>3, <2>1, <2>2, <2>3 DEF Offered
  <2>5. u.page = "SPLASH" => Rows(c, x) = {}
    BY <1>2, RowsType
  <2>6. Matching(v)
    BY <1>2, <1>3, <1>4, <2>2, <2>5 DEF Matching
  <2> QED  BY <2>4, <2>6
<1> QED  BY <1>3, <1>5, <1>6, <1>7 DEF Sound, Base, v

\* A nonempty set of positions has its last.
LEMMA MaxExists ==
  ASSUME NEW n \in Nat, NEW S \in SUBSET (0..n), S # {}
  PROVE  Max(S) \in S /\ \A i \in S : i <= Max(S)
<1> DEFINE T == {n - i : i \in S}
           R == {ss \in Nat \X Nat : ss[1] < ss[2]}
<1>1. T \subseteq Nat /\ T # {}
  <2>1. \A i \in S : i \in Nat /\ n - i \in Nat
    OBVIOUS
  <2>2. PICK i \in S : TRUE
    OBVIOUS
  <2> QED  BY <2>1, <2>2
<1>2. PICK j \in T : \A y \in T : ~(<<y, j>> \in R)
  <2> HIDE DEF T
  <2>1. IsWellFoundedOn(R, Nat)
    BY NatLessThanWellFounded DEF OpToRel
  <2> QED  BY <1>1, <2>1, WFMin
<1>3. \A y \in T : j <= y
  <2>1. j \in Nat /\ \A y \in T : y \in Nat
    BY <1>1
  <2> HIDE DEF T
  <2>2. \A y \in T : ~(y < j)
    BY <1>2, <2>1
  <2> QED  BY <2>1, <2>2
<1>4. n - j \in S /\ \A i \in S : n - j >= i
  BY <1>3
<1>5. \E m \in S : \A i \in S : m >= i
  BY <1>4
<1>6. Max(S) \in S /\ \A i \in S : Max(S) >= i
  BY <1>5, Zenon DEF Max
<1> QED  BY <1>6

\* A history has a page that can be drawn: its first is a root.
LEMMA PreviousIs ==
  ASSUME NEW u, u.history \in Seq(Stops), Trail(u), u.history # <<>>, NEW x
  PROVE  Previous(u, x) \in 1..Len(u.history)
<1> DEFINE drawable == {i \in DOMAIN u.history : CanDraw(u, x, u.history[i])}
<1>1. Len(u.history) \in Nat /\ DOMAIN u.history = 1..Len(u.history) /\ Len(u.history) # 0
  BY LenProperties, EmptySeq
<1>2. u.history[1] # "CONFIRMATION"
  BY DEF Trail, Roots
<1>3. 1 \in drawable
  BY <1>1, <1>2 DEF CanDraw
<1>4. drawable \subseteq 1..Len(u.history)
  BY <1>1
<1> HIDE DEF drawable
<1>5. Max(drawable) \in drawable
  <2>1. drawable \in SUBSET (0..Len(u.history)) /\ drawable # {}
    BY <1>1, <1>3, <1>4
  <2> QED  BY <1>1, <2>1, MaxExists
<1>6. Previous(u, x) = IF drawable = {} THEN 0 ELSE Max(drawable)
  BY DEF Previous, drawable
<1> QED  BY <1>3, <1>4, <1>5, <1>6

\* Deferred calls of an input page come and go.
LEMMA AsyncKeeps ==
  ASSUME NEW u \in Uis, u.kb # "none", NEW a \in SUBSET {"show", "hide", "submit"}
  PROVE  LET v == [u EXCEPT !.async = a]
         IN  /\ Base(u) => Base(v)
             /\ Matching(u) => Matching(v)
             /\ v.page = u.page /\ v.shown = u.shown /\ v.confirmation = u.confirmation /\ v.kb = u.kb /\ v.rows = u.rows
             /\ v.history = u.history
<1> DEFINE v == [u EXCEPT !.async = a]
<1>1. v \in Uis
  BY DEF Uis
<1>2. /\ v.page = u.page /\ v.shown = u.shown /\ v.confirmation = u.confirmation /\ v.kb = u.kb /\ v.rows = u.rows
      /\ v.history = u.history /\ v.session = u.session /\ v.collector = u.collector /\ v.dialog = u.dialog
      /\ v.held = u.held /\ v.sources = u.sources
  BY DEF Uis
<1> HIDE DEF v
<1>3. Base(u) => Base(v)
  BY <1>1, <1>2 DEF Base, Trail, Collecting, Offered
<1>4. Matching(u) => Matching(v)
  BY <1>2 DEF Matching
<1> QED  BY <1>2, <1>3, <1>4 DEF v

\* Hiding the keyboard defers a call and changes nothing else.
LEMMA KeyboardHideKeeps ==
  ASSUME NEW u \in Uis
  PROVE  LET v == KeyboardHide(u)
         IN  /\ Base(u) => Base(v)
             /\ Matching(u) => Matching(v)
             /\ v.page = u.page /\ v.shown = u.shown /\ v.confirmation = u.confirmation /\ v.kb = u.kb /\ v.rows = u.rows
             /\ v.history = u.history
<1>1. CASE u.kb = "none"
  BY <1>1 DEF KeyboardHide
<1>2. CASE u.kb # "none"
  <2> DEFINE a == (u.async \ {"show"}) \cup If(u.kb = "open", {"hide"})
  <2>1. a \in SUBSET {"show", "hide", "submit"}
    BY DEF Uis, If
  <2>2. KeyboardHide(u) = [u EXCEPT !.async = a]
    BY <1>2 DEF KeyboardHide
  <2> HIDE DEF a
  <2> QED  BY <1>2, <2>1, <2>2, AsyncKeeps
<1> QED  BY <1>1, <1>2

\* Leaving a page ends the collection and changes nothing else.
LEMMA LeaveFields ==
  ASSUME NEW u \in Uis, Collecting(u)
  PROVE  LET v == Leave(u)
         IN  /\ v \in Uis /\ v.session = FALSE /\ v.collector = "idle"
             /\ v.page = u.page /\ v.shown = u.shown /\ v.rows = u.rows /\ v.history = u.history /\ v.kb = u.kb
             /\ v.async = u.async /\ v.dialog = u.dialog /\ v.busy = u.busy /\ v.held = u.held
             /\ v.confirmation = u.confirmation /\ v.sources = u.sources /\ v.wallet = u.wallet /\ v.storage = u.storage
<1>1. CASE u.page # "ENTROPY_COLLECT"
  BY <1>1 DEF Leave, Collecting, Uis
<1>2. CASE u.page = "ENTROPY_COLLECT"
  <2>1. Leave(u) = [u EXCEPT !.drawn = "idle", !.session = FALSE, !.collector = "idle"]
    BY <1>2 DEF Leave, Collecting, Uis
  <2>2. Leave(u) \in Uis
    BY <2>1 DEF Uis
  <2> QED  BY <2>1, <2>2 DEF Uis
<1> QED  BY <1>1, <1>2

\* What stays on the screen while another page is prepared.
SameScreen(u, v) == v.shown = u.shown /\ v.rows = u.rows /\ v.kb = u.kb /\ v.async = u.async

\* The screen's part of Base follows the screen alone.
LEMMA PreparedBase ==
  ASSUME NEW u, Base(u), NEW v \in Uis, SameScreen(u, v), Trail(v), Collecting(v)
  PROVE  Base(v)
  BY DEF Base, SameScreen, Offered

\* The way to a page: the splash screen is never gone to.
Turned(u, v) == Sound(v) /\ (v.page = "SPLASH" => u.page = "SPLASH")

\* Back closes the keyboard, or goes to the latest page of the history that can be drawn.
LEMMA BackTurns ==
  ASSUME NEW u, Base(u), Matching(u) \/ (u.page = "CONFIRMATION" /\ u.confirmation = 0), NEW x
  PROVE  Turned(u, Back(u, x))
<1> DEFINE i == Previous(u, x)
           held == u.held \ Wiped(u.page)
           confirmation == IF i < Len(u.history) THEN 0 ELSE u.confirmation
           h == SubSeq(u.history, 1, i - 1)
<1>1. u \in Uis /\ u.history \in Seq(Stops)
  BY DEF Base, Uis
<1>2. CASE KeyboardTaken(u)
  <2> DEFINE v == KeyboardHide(u)
  <2>1. Back(u, x) = v /\ u.kb # "none"
    BY <1>2 DEF Back, KeyboardTaken
  <2>2. /\ Base(v) /\ (Matching(u) => Matching(v))
        /\ v.page = u.page /\ v.shown = u.shown /\ v.confirmation = u.confirmation /\ v.kb = u.kb /\ v.rows = u.rows
    BY <1>1, KeyboardHideKeeps
  <2> HIDE DEF v
  <2>3. u.shown \in InputPages
    BY <2>1 DEF Base, Offered
  <2>4. u.shown \notin Clearing \cup {"ENTROPY_COLLECT"}
    BY <2>3 DEF InputPages, Clearing
  <2>5. u.page = "CONFIRMATION" /\ u.confirmation = 0 => Matching(v)
    BY <2>2, <2>3, <2>4 DEF Matching, Base, Offered
  <2> QED  BY <2>1, <2>2, <2>5 DEF Turned, Sound
<1>3. CASE ~KeyboardTaken(u) /\ u.history = <<>>
  <2>1. Back(u, x) = u
    BY <1>3 DEF Back
  <2>2. u.page # "CONFIRMATION"
    BY <1>3 DEF Base, Trail, Roots
  <2> QED  BY <2>1, <2>2 DEF Turned, Sound
<1>4. CASE ~KeyboardTaken(u) /\ u.history # <<>>
  <2>1. Len(u.history) \in Nat /\ i \in 1..Len(u.history)
    BY <1>1, <1>4, LenProperties, PreviousIs DEF Base
  <2> HIDE DEF i
  <2>2. u.history[i] \in Stops
    BY <1>1, <2>1, ElementOfSeq
  <2>3. h \in Seq(Stops) /\ Len(h) = i - 1 /\ \A j \in 1..(i - 1) : h[j] = u.history[j]
    <3>1. \A j \in 1..(i - 1) : u.history[j] \in Stops
      BY <1>1, <2>1, ElementOfSeq
    <3>2. /\ h \in Seq(Stops) /\ Len(h) = IF 1 <= i - 1 THEN i - 1 - 1 + 1 ELSE 0
          /\ \A j \in 1..(i - 1 - 1 + 1) : h[j] = u.history[1 + j - 1]
      BY <2>1, <3>1, SubSeqProperties
    <3> HIDE DEF h
    <3> QED  BY <2>1, <3>2
  <2> HIDE DEF h
  <2>4. (h = <<>> => i = 1) /\ (h # <<>> => i - 1 >= 1)
    BY <2>1, <2>3, EmptySeq
  <2>5. u.history[1] \in Roots /\ Len(u.history) <= HistoryDepth /\ HistoryDepth \in Nat
    BY <1>4, UiAssumption DEF Base, Trail
  <2>6. h # <<>> => h[1] \in Roots
    BY <2>1, <2>3, <2>4, <2>5
  <2>7. held \in SUBSET Secrets /\ confirmation \in 0..MaxConfirmations
    BY <1>1, DeviceAssumption DEF Uis
  <2> DEFINE l == Leave(u)
             v == [l EXCEPT !.held = @ \ Wiped(u.page), !.confirmation = IF i < Len(u.history) THEN 0 ELSE @]
             w == [v EXCEPT !.page = u.history[i], !.history = h]
  <2>8. Back(u, x) = Drawn(w, x)
    BY <1>4, <2>1 DEF Back, i, h
  <2>9. /\ l \in Uis /\ l.held = u.held /\ l.confirmation = u.confirmation
        /\ l.session = FALSE /\ l.collector = "idle" /\ SameScreen(u, l)
    BY <1>1, LeaveFields DEF Base, SameScreen
  <2> HIDE DEF l
  <2>10. v = [l EXCEPT !.held = held, !.confirmation = confirmation]
    BY <2>9 DEF Uis
  <2> HIDE DEF held, confirmation, v
  <2>11. v \in Uis /\ v.session = FALSE /\ v.collector = "idle" /\ SameScreen(u, v)
    BY <2>7, <2>9, <2>10 DEF Uis, SameScreen
  <2>12. u.history[i] \in Pages \cup {"NONE"} /\ u.history[i] # "NONE" /\ u.history[i] # "SPLASH"
    BY <2>2 DEF Stops, Pages, Roots, StatusPages, InputPages
  <2>13. /\ w \in Uis /\ w.session = FALSE /\ w.collector = "idle" /\ SameScreen(u, w)
         /\ w.page = u.history[i] /\ w.history = h
    BY <2>3, <2>11, <2>12 DEF Uis, SameScreen
  <2> HIDE DEF w
  <2>14. Trail(w) /\ Collecting(w)
    <3>1. Len(h) <= HistoryDepth
      BY <2>1, <2>3, <2>5
    <3>2. h = <<>> => u.history[i] \in Roots
      BY <2>4, <2>5
    <3> QED  BY <2>6, <2>12, <2>13, <3>1, <3>2 DEF Trail, Collecting
  <2>15. Base(w)
    BY <2>13, <2>14, PreparedBase
  <2> QED  BY <2>8, <2>12, <2>13, <2>15, DrawnSound DEF Turned
<1> QED  BY <1>2, <1>3, <1>4

\* A page is drawn, or the one before it where its confirmation is gone.
LEMMA RenderTurns ==
  ASSUME NEW u, Base(u), NEW x
  PROVE  Turned(u, Render(u, x))
<1>1. CASE CanDraw(u, x, u.page)
  BY <1>1, DrawnSound DEF Render, Turned
<1>2. CASE ~CanDraw(u, x, u.page)
  <2> DEFINE v == [u EXCEPT !.confirmation = 0]
  <2>1. u.page = "CONFIRMATION"
    BY <1>2 DEF CanDraw
  <2>2. 0 \in 0..MaxConfirmations
    BY DeviceAssumption
  <2>3. v \in Uis /\ v.confirmation = 0 /\ v.page = u.page
    BY <2>2 DEF Base, Uis
  <2>4. Base(v)
    BY <2>3 DEF Base, Trail, Collecting, Offered, Uis
  <2> HIDE DEF v
  <2>5. Turned(v, Back(v, x))
    BY <2>1, <2>3, <2>4, BackTurns
  <2> QED  BY <1>2, <2>3, <2>5 DEF Render, Turned, v
<1> QED  BY <1>1, <1>2

\* Where a confirmation of the history is gone, another page is drawn, and never the splash screen.
LEMMA PreparedTurns ==
  ASSUME NEW u, Offered(u), NEW v \in Uis, SameScreen(u, v), Trail(v), Collecting(v), NEW x
  PROVE  Sound(Render(v, x)) /\ (Render(v, x).page = "SPLASH" => v.page = "SPLASH")
<1>1. Base(v)
  BY DEF Base, SameScreen, Offered
<1> QED  BY <1>1, RenderTurns DEF Turned

\* A root page starts a history of its own.
LEMMA OpenTurns ==
  ASSUME NEW u \in Uis, Collecting(u), Offered(u), NEW page \in Roots, NEW x
  PROVE  Sound(Open(u, x, page)) /\ (Open(u, x, page).page = "SPLASH" => page = "SPLASH")
<1> DEFINE v == IF u.page # page THEN Leave(u) ELSE u
           w == IF page \in {"LOCKED", "STORAGE_ERROR"} THEN Clear(v) ELSE v
           z == [w EXCEPT !.page = page, !.history = <<>>]
<1>1. v \in Uis /\ v.session = FALSE /\ v.collector = "idle" /\ SameScreen(u, v)
  <2>1. u.page = page => u.session = FALSE /\ u.collector = "idle"
    BY DEF Collecting, Roots, Uis
  <2> QED  BY <2>1, LeaveFields DEF SameScreen
<1> HIDE DEF v
<1>2. w \in Uis /\ w.session = FALSE /\ w.collector = "idle" /\ SameScreen(u, w)
  <2>1. Clear(v) \in Uis /\ Clear(v) = [v EXCEPT !.held = {}, !.session = FALSE, !.sources = {}]
    BY <1>1, BegunFields
  <2>2. Clear(v).session = FALSE /\ Clear(v).collector = "idle" /\ SameScreen(u, Clear(v))
    BY <1>1, <2>1 DEF Uis, SameScreen
  <2> QED  BY <1>1, <2>1, <2>2
<1> HIDE DEF w
<1>3. page \in Pages /\ page # "NONE" /\ <<>> \in Seq(Stops)
  BY EmptySeq DEF Pages, Roots
<1>4. z \in Uis /\ z.page = page /\ z.history = <<>> /\ z.session = FALSE /\ z.collector = "idle" /\ SameScreen(u, z)
  BY <1>2, <1>3 DEF Uis, SameScreen
<1> HIDE DEF z
<1>5. Trail(z) /\ Collecting(z)
  <2>1. Len(<<>>) <= HistoryDepth
    BY EmptySeq, UiAssumption
  <2> QED  BY <1>3, <1>4, <2>1 DEF Trail, Collecting
<1>6. Open(u, x, page) = Render(z, x)
  BY DEF Open, v, w, z
<1> QED  BY <1>4, <1>5, <1>6, PreparedTurns

\* The page left is remembered as long as there is room, so a history that is not empty starts at a root.
LEMMA RememberedIs ==
  ASSUME NEW u \in Uis, Trail(u), u.page # "SPLASH"
  PROVE  LET h == Remembered(u)
         IN  h \in Seq(Stops) /\ Len(h) <= HistoryDepth /\ h # <<>> /\ h[1] \in Roots
<1>1. u.history \in Seq(Stops) /\ u.page \in Stops
  BY DEF Uis, Trail, Stops
<1>2. Len(u.history) \in Nat /\ Len(u.history) <= HistoryDepth /\ HistoryDepth \in Nat \ {0}
  BY <1>1, LenProperties, UiAssumption DEF Trail
<1> DEFINE a == Append(u.history, u.page)
<1>3. /\ a \in Seq(Stops) /\ a # <<>> /\ Len(a) = Len(u.history) + 1
      /\ \A i \in 1..Len(u.history) : a[i] = u.history[i]
  BY <1>1, AppendProperties
<1>4. a[1] \in Roots
  <2>1. CASE u.history = <<>>
    <3>1. a[1] = u.page
      BY <2>1
    <3> QED  BY <2>1, <3>1 DEF Trail
  <2>2. CASE u.history # <<>>
    <3>1. 1 \in 1..Len(u.history)
      BY <1>1, <1>2, <2>2, EmptySeq
    <3> HIDE DEF a
    <3> QED  BY <1>3, <2>2, <3>1 DEF Trail
  <2> QED  BY <2>1, <2>2
<1> HIDE DEF a
<1>5. Len(u.history) < HistoryDepth => Remembered(u) = a
  BY DEF Remembered, Trail, a
<1>6. ~(Len(u.history) < HistoryDepth) => Remembered(u) = u.history /\ u.history # <<>>
  BY <1>2, EmptySeq DEF Remembered
<1> QED  BY <1>1, <1>2, <1>3, <1>4, <1>5, <1>6 DEF Trail

\* A page is pushed, or takes the place of another.
LEMMA PushedSound ==
  ASSUME NEW u \in Uis, Trail(u), Offered(u), u.page # "SPLASH", NEW page \in Stops,
         NEW l \in Uis, SameScreen(u, l), l.collector # "idle" => l.session, l.session => page = "ENTROPY_COLLECT",
         NEW h \in {u.history, Remembered(u)}, h # <<>>, NEW x
  PROVE  LET v == Render([l EXCEPT !.page = page, !.history = h], x)
         IN  Sound(v) /\ v.page # "SPLASH"
<1> DEFINE w == [l EXCEPT !.page = page, !.history = h]
<1>1. h \in Seq(Stops) /\ Len(h) <= HistoryDepth /\ h[1] \in Roots
  <2>1. u.history \in Seq(Stops)
    BY DEF Uis
  <2> QED  BY <2>1, RememberedIs DEF Trail
<1>2. page \in Pages /\ page \notin {"SPLASH", "NONE"}
  BY DEF Stops, Pages, Roots, StatusPages, InputPages
<1>3. w \in Uis /\ w.page = page /\ w.history = h /\ w.session = l.session /\ w.collector = l.collector /\ SameScreen(u, w)
  BY <1>1, <1>2 DEF Uis, SameScreen
<1> HIDE DEF w
<1>4. Trail(w) /\ Collecting(w)
  BY <1>1, <1>2, <1>3 DEF Trail, Collecting
<1>5. Sound(Render(w, x)) /\ (Render(w, x).page = "SPLASH" => w.page = "SPLASH")
  BY <1>3, <1>4, PreparedTurns
<1> QED  BY <1>2, <1>3, <1>5 DEF w

\* Pushing a page goes to it, with a way back.
LEMMA PushTurns ==
  ASSUME NEW u, Base(u), u.page # "SPLASH", NEW page \in Stops, u.page = page => Matching(u), NEW x
  PROVE  Sound(Push(u, x, page)) /\ Push(u, x, page).page # "SPLASH"
<1>1. CASE u.page = page
  BY <1>1 DEF Push, Sound
<1>2. CASE u.page # page
  <2> DEFINE l == Leave(u)
             h == Remembered(u)
  <2>1. u \in Uis /\ Trail(u) /\ Offered(u) /\ Collecting(u)
    BY DEF Base
  <2>2. l \in Uis /\ SameScreen(u, l) /\ l.session = FALSE /\ l.collector = "idle"
    BY <2>1, LeaveFields DEF SameScreen
  <2>3. h # <<>>
    BY <2>1, RememberedIs
  <2>4. Push(u, x, page) = Render([l EXCEPT !.page = page, !.history = h], x)
    BY <1>2 DEF Push
  <2> HIDE DEF l
  <2>5. h \in {u.history, Remembered(u)}
    OBVIOUS
  <2> HIDE DEF h
  <2> QED  BY <2>1, <2>2, <2>3, <2>4, <2>5, PushedSound
<1> QED  BY <1>1, <1>2

\* Replacing a page keeps the way back.
LEMMA ReplaceTurns ==
  ASSUME NEW u, Base(u), u.page # "SPLASH", u.history # <<>>, NEW page \in Stops, u.page = page => Matching(u), NEW x
  PROVE  Sound(Replace(u, x, page)) /\ Replace(u, x, page).page # "SPLASH"
<1>1. CASE u.page = page
  BY <1>1 DEF Replace, Sound
<1>2. CASE u.page # page
  <2> DEFINE l == Leave(u)
  <2>1. u \in Uis /\ Trail(u) /\ Offered(u) /\ Collecting(u)
    BY DEF Base
  <2>2. l \in Uis /\ SameScreen(u, l) /\ l.session = FALSE /\ l.collector = "idle" /\ l.history = u.history
    BY <2>1, LeaveFields DEF SameScreen
  <2>3. Replace(u, x, page) = Render([l EXCEPT !.page = page], x)
    BY <1>2 DEF Replace
  <2> HIDE DEF l
  <2> DEFINE v == Render([l EXCEPT !.page = page, !.history = u.history], x)
  <2>4. u.history \in {u.history, Remembered(u)}
    OBVIOUS
  <2>5. Sound(v) /\ v.page # "SPLASH"
    BY <2>1, <2>2, <2>4, PushedSound
  <2>6. [l EXCEPT !.page = page] = [l EXCEPT !.page = page, !.history = u.history]
    BY <2>2 DEF Uis
  <2> QED  BY <2>3, <2>5, <2>6
<1> QED  BY <1>1, <1>2

-----------------------------------------------------------------------------
(* What is not a page of its own.                                          *)

\* Fields that are neither the page, its way back nor its screen.
SamePlace(u, v) == SameScreen(u, v) /\ v.page = u.page /\ v.history = u.history

\* A step that stays in place and starts no collection keeps Base.
LEMMA SamePlaceBase ==
  ASSUME NEW u, Base(u), NEW v \in Uis, SamePlace(u, v), Collecting(v)
  PROVE  Base(v)
  BY DEF Base, SamePlace, SameScreen, Offered, Trail

\* A step that stays in place is sound where it clears what it must.
LEMMA SamePlaceSound ==
  ASSUME NEW u, Sound(u), NEW v \in Uis, SamePlace(u, v), v.session = u.session, v.collector # "idle" => v.session,
         \/ v.confirmation = u.confirmation \/ v.confirmation = 0 \/ u.page # "CONFIRMATION",
         v.dialog \in {"none", u.dialog} \/ u.page # "SPLASH",
         (v.held = u.held /\ v.sources = u.sources) \/ u.shown \notin Clearing
  PROVE  Sound(v) /\ Turned(u, v)
<1>1. Collecting(v) /\ Base(u) /\ Matching(u)
  BY DEF Sound, Base, Collecting, SamePlace
<1>2. Base(v)
  BY <1>1, SamePlaceBase
<1>3. Matching(v)
  BY <1>1 DEF Matching, SamePlace, SameScreen
<1> QED  BY <1>2, <1>3 DEF Sound, Turned, SamePlace

\* The assignments to a single field that the handlers make.
LEMMA Quiet ==
  ASSUME NEW u, Sound(u)
  PROVE  /\ \A b \in BOOLEAN : LET v == [u EXCEPT !.busy = b] IN Sound(v) /\ SamePlace(u, v)
         /\ LET v == CloseDialog(u) IN Sound(v) /\ SamePlace(u, v)
         /\ \A d \in Dialogs : u.page # "SPLASH" => Sound(ShowDialog(u, d)) /\ SamePlace(u, ShowDialog(u, d))
         /\ \A h \in SUBSET Secrets : u.shown \notin Clearing =>
              LET v == [u EXCEPT !.held = h] IN Sound(v) /\ SamePlace(u, v)
         /\ \A s \in SUBSET Sources : u.shown \notin Clearing =>
              LET v == [u EXCEPT !.sources = s] IN Sound(v) /\ SamePlace(u, v)
         /\ \A c \in {"idle", "capturing", "error", "ready"} : u.session =>
              LET v == [u EXCEPT !.collector = c] IN Sound(v) /\ SamePlace(u, v)
<1>1. u \in Uis /\ (u.collector # "idle" => u.session)
  BY DEF Sound, Base, Collecting
<1>2. ASSUME NEW b \in BOOLEAN
      PROVE  LET v == [u EXCEPT !.busy = b] IN Sound(v) /\ SamePlace(u, v)
  <2> DEFINE v == [u EXCEPT !.busy = b]
  <2>1. /\ v \in Uis /\ SamePlace(u, v) /\ v.session = u.session /\ v.collector = u.collector
        /\ v.confirmation = u.confirmation /\ v.dialog = u.dialog /\ v.held = u.held /\ v.sources = u.sources
    BY <1>1 DEF Uis, SamePlace, SameScreen
  <2> HIDE DEF v
  <2> QED  BY <1>1, <2>1, SamePlaceSound DEF v
<1>3. Sound(CloseDialog(u)) /\ SamePlace(u, CloseDialog(u))
  <2> DEFINE v == CloseDialog(u)
  <2>1. /\ v \in Uis /\ SamePlace(u, v) /\ v.session = u.session /\ v.collector = u.collector
        /\ v.confirmation = u.confirmation /\ v.dialog = "none" /\ v.held = u.held /\ v.sources = u.sources
    BY <1>1 DEF Uis, SamePlace, SameScreen, CloseDialog
  <2> HIDE DEF v
  <2> QED  BY <1>1, <2>1, SamePlaceSound DEF v
<1>4. ASSUME NEW d \in Dialogs, u.page # "SPLASH"
      PROVE  Sound(ShowDialog(u, d)) /\ SamePlace(u, ShowDialog(u, d))
  <2> DEFINE v == ShowDialog(u, d)
  <2>1. /\ v \in Uis /\ SamePlace(u, v) /\ v.session = u.session /\ v.collector = u.collector
        /\ v.confirmation = u.confirmation /\ v.held = u.held /\ v.sources = u.sources
    BY <1>1 DEF Uis, SamePlace, SameScreen, ShowDialog
  <2> HIDE DEF v
  <2> QED  BY <1>1, <1>4, <2>1, SamePlaceSound DEF v
<1>5. ASSUME NEW h \in SUBSET Secrets, u.shown \notin Clearing
      PROVE  LET v == [u EXCEPT !.held = h] IN Sound(v) /\ SamePlace(u, v)
  <2> DEFINE v == [u EXCEPT !.held = h]
  <2>1. /\ v \in Uis /\ SamePlace(u, v) /\ v.session = u.session /\ v.collector = u.collector
        /\ v.confirmation = u.confirmation /\ v.dialog = u.dialog
    BY <1>1 DEF Uis, SamePlace, SameScreen
  <2> HIDE DEF v
  <2> QED  BY <1>1, <1>5, <2>1, SamePlaceSound DEF v
<1>6. ASSUME NEW s \in SUBSET Sources, u.shown \notin Clearing
      PROVE  LET v == [u EXCEPT !.sources = s] IN Sound(v) /\ SamePlace(u, v)
  <2> DEFINE v == [u EXCEPT !.sources = s]
  <2>1. /\ v \in Uis /\ SamePlace(u, v) /\ v.session = u.session /\ v.collector = u.collector
        /\ v.confirmation = u.confirmation /\ v.dialog = u.dialog
    BY <1>1 DEF Uis, SamePlace, SameScreen
  <2> HIDE DEF v
  <2> QED  BY <1>1, <1>6, <2>1, SamePlaceSound DEF v
<1>7. ASSUME NEW c \in {"idle", "capturing", "error", "ready"}, u.session
      PROVE  LET v == [u EXCEPT !.collector = c] IN Sound(v) /\ SamePlace(u, v)
  <2> DEFINE v == [u EXCEPT !.collector = c]
  <2>1. /\ v \in Uis /\ SamePlace(u, v) /\ v.session = u.session
        /\ v.confirmation = u.confirmation /\ v.dialog = u.dialog /\ v.held = u.held /\ v.sources = u.sources
    BY <1>1 DEF Uis, SamePlace, SameScreen
  <2> HIDE DEF v
  <2> QED  BY <1>7, <2>1, SamePlaceSound DEF v
<1> QED  BY <1>2, <1>3, <1>4, <1>5, <1>6, <1>7

\* The deferred calls of an input page.
LEMMA AsyncTurns ==
  ASSUME NEW u, Sound(u)
  PROVE  /\ Turned(u, KeyboardShow(u)) /\ Turned(u, KeyboardHide(u)) /\ Turned(u, InputSubmit(u))
         /\ "show" \in u.async => Turned(u, ShowDeferred(u))
         /\ "hide" \in u.async => Turned(u, HideDeferred(u))
         /\ "submit" \in u.async => LET v == SubmitDeferred(u) IN Sound(v) /\ v.page = u.page /\ v.history = u.history /\ v.shown = u.shown
<1>1. u \in Uis /\ Base(u) /\ Matching(u)
  BY DEF Sound, Base
<1>2. Turned(u, u)
  BY DEF Turned
<1>3. ASSUME NEW a \in SUBSET {"show", "hide", "submit"}, u.kb # "none"
      PROVE  LET v == [u EXCEPT !.async = a]
             IN  Sound(v) /\ v.page = u.page /\ v.history = u.history /\ v.shown = u.shown /\ Turned(u, v)
  BY <1>1, <1>3, AsyncKeeps DEF Sound, Turned
<1>4. Turned(u, KeyboardShow(u))
  <2>1. (u.async \ {"hide"}) \cup {"show"} \in SUBSET {"show", "hide", "submit"}
    BY <1>1 DEF Uis
  <2> QED  BY <1>2, <1>3, <2>1 DEF KeyboardShow
<1>5. Turned(u, KeyboardHide(u))
  BY <1>1, KeyboardHideKeeps DEF Turned, Sound
<1>6. Turned(u, InputSubmit(u))
  <2>1. u.async \cup {"submit"} \in SUBSET {"show", "hide", "submit"}
    BY <1>1 DEF Uis
  <2> QED  BY <1>2, <1>3, <2>1 DEF InputSubmit
<1>7. u.async # {} => u.kb # "none" /\ u.shown \in InputPages
  BY <1>1 DEF Base, Offered
<1>8. ASSUME NEW a \in SUBSET {"show", "hide", "submit"}, NEW kb \in {"hidden", "open"}, u.kb # "none"
      PROVE  Turned(u, [u EXCEPT !.async = a, !.kb = kb])
  <2> DEFINE v == [u EXCEPT !.async = a, !.kb = kb]
  <2>1. v \in Uis
    BY <1>1 DEF Uis
  <2>2. /\ v.page = u.page /\ v.shown = u.shown /\ v.confirmation = u.confirmation /\ v.kb # "none" /\ v.rows = u.rows
        /\ v.history = u.history /\ v.session = u.session /\ v.collector = u.collector /\ v.dialog = u.dialog
        /\ v.held = u.held /\ v.sources = u.sources
    BY <1>1 DEF Uis
  <2> HIDE DEF v
  <2>3. Base(v)
    BY <1>1, <1>8, <2>1, <2>2 DEF Base, Trail, Collecting, Offered
  <2>4. Matching(v)
    BY <1>1, <1>8, <2>2 DEF Matching
  <2> QED  BY <2>2, <2>3, <2>4 DEF Turned, Sound, v
<1>9. ASSUME "show" \in u.async PROVE Turned(u, ShowDeferred(u))
  <2> DEFINE a == u.async \ {"show"}
             kb == IF u.kb = "hidden" THEN "open" ELSE u.kb
  <2>1. a \in SUBSET {"show", "hide", "submit"} /\ kb \in {"hidden", "open"} /\ u.kb # "none"
    BY <1>1, <1>7, <1>9 DEF Uis
  <2>2. ShowDeferred(u) = [u EXCEPT !.async = a, !.kb = kb]
    BY <1>1 DEF ShowDeferred, Uis
  <2> HIDE DEF a, kb
  <2>3. Turned(u, [u EXCEPT !.async = a, !.kb = kb])
    BY <1>8, <2>1
  <2> QED  BY <2>2, <2>3
<1>10. ASSUME "hide" \in u.async PROVE Turned(u, HideDeferred(u))
  <2> DEFINE a == u.async \ {"hide"}
             kb == IF u.kb = "open" THEN "hidden" ELSE u.kb
  <2>1. a \in SUBSET {"show", "hide", "submit"} /\ kb \in {"hidden", "open"} /\ u.kb # "none"
    BY <1>1, <1>7, <1>10 DEF Uis
  <2>2. HideDeferred(u) = [u EXCEPT !.async = a, !.kb = kb]
    BY <1>1 DEF HideDeferred, Uis
  <2> HIDE DEF a, kb
  <2>3. Turned(u, [u EXCEPT !.async = a, !.kb = kb])
    BY <1>8, <2>1
  <2> QED  BY <2>2, <2>3
<1>11. ASSUME "submit" \in u.async
       PROVE  LET v == SubmitDeferred(u) IN Sound(v) /\ v.page = u.page /\ v.history = u.history /\ v.shown = u.shown
  <2> DEFINE v == [u EXCEPT !.async = u.async \ {"submit"}]
  <2>1. u.async \ {"submit"} \in SUBSET {"show", "hide", "submit"} /\ u.kb # "none"
    BY <1>1, <1>7, <1>11 DEF Uis
  <2>2. Sound(v) /\ v.page = u.page /\ v.history = u.history /\ v.shown = u.shown
    BY <1>3, <2>1
  <2>3. SubmitDeferred(u) = KeyboardHide(v)
    BY DEF SubmitDeferred
  <2> HIDE DEF v
  <2> QED  BY <2>2, <2>3, KeyboardHideKeeps DEF Sound, Base
<1> QED  BY <1>4, <1>5, <1>6, <1>9, <1>10, <1>11

-----------------------------------------------------------------------------
(* The handlers.                                                           *)

\* The screen and the page part only while a confirmation is withdrawn.
LEMMA ShownPage ==
  ASSUME NEW u, Sound(u)
  PROVE  /\ u \in Uis /\ Base(u) /\ Matching(u)
         /\ u.shown = "SPLASH" <=> u.page = "SPLASH"
         /\ u.shown \notin InputPages => u.shown = u.page
         /\ u.page \notin Roots => u.history # <<>>
  BY DEF Sound, Base, Matching, Trail, InputPages

\* Refreshing draws the page that is open.
LEMMA RefreshTurns ==
  ASSUME NEW u, Sound(u), NEW x
  PROVE  Turned(u, Refresh(u, x))
  BY RenderTurns DEF Refresh, Sound

\* The start-up page is a root and not the splash screen.
LEMMA ShowStartupTurns ==
  ASSUME NEW u \in Uis, Collecting(u), Offered(u), NEW x
  PROVE  Sound(ShowStartup(u, x)) /\ ShowStartup(u, x).page # "SPLASH"
<1>1. StartupPage(u) \in Roots /\ StartupPage(u) # "SPLASH"
  BY DEF StartupPage, Roots
<1> QED  BY <1>1, OpenTurns DEF ShowStartup

\* An icon of the status bar opens its page.
LEMMA StatusIconTurns ==
  ASSUME NEW u, Sound(u), u.page # "SPLASH", NEW page \in Icons, NEW x
  PROVE  Turned(u, StatusIcon(u, x, page))
<1>1. page \in Stops
  BY UiAssumption DEF Stops, Pages, StatusPages
<1>2. u.page \in StatusPages => u.history # <<>>
  BY ShownPage DEF StatusPages, Roots
<1>3. /\ u.page \in StatusPages => Turned(u, Replace(u, x, page))
      /\ Turned(u, Push(u, x, page))
  BY <1>1, <1>2, ReplaceTurns, PushTurns DEF Turned, Sound
<1> QED  BY <1>3 DEF StatusIcon, Turned

\* A confirmation is shown or dismissed.
LEMMA ConfirmationTurns ==
  ASSUME NEW u, Sound(u), NEW x
  PROVE  /\ \A id \in 0..MaxConfirmations : u.page # "SPLASH" => Turned(u, ShowConfirmation(u, x, id))
         /\ Turned(u, DismissConfirmation(u, x))
<1>1. u \in Uis /\ Base(u) /\ Matching(u)
  BY ShownPage
<1>2. ASSUME NEW id \in 0..MaxConfirmations, u.page # "SPLASH"
      PROVE  Turned(u, ShowConfirmation(u, x, id))
  <2> DEFINE v == [CloseDialog(u) EXCEPT !.confirmation = id]
  <2>1. v \in Uis /\ SamePlace(u, v) /\ v.session = u.session /\ v.collector = u.collector
    BY <1>1 DEF CloseDialog, Uis, SamePlace, SameScreen
  <2>2. ShowConfirmation(u, x, id) = IF u.page = "CONFIRMATION" THEN Render(v, x) ELSE Push(v, x, "CONFIRMATION")
    BY DEF ShowConfirmation
  <2> HIDE DEF v
  <2>3. v.page = u.page
    BY <2>1 DEF SamePlace
  <2>4. Base(v)
    BY <1>1, <2>1, <2>3, SamePlaceBase DEF Collecting, Base
  <2>5. "CONFIRMATION" \in Stops
    BY DEF Stops, Pages
  <2>6. u.page # "CONFIRMATION" => Turned(u, Push(v, x, "CONFIRMATION"))
    BY <1>2, <2>3, <2>4, <2>5, PushTurns DEF Turned
  <2>7. Turned(u, Render(v, x))
    BY <2>3, <2>4, RenderTurns DEF Turned
  <2> QED  BY <2>2, <2>6, <2>7
<1>3. Turned(u, DismissConfirmation(u, x))
  <2> DEFINE v == [CloseDialog(u) EXCEPT !.confirmation = 0, !.busy = FALSE]
  <2>1. 0 \in 0..MaxConfirmations
    BY DeviceAssumption
  <2>2. /\ v \in Uis /\ SamePlace(u, v) /\ v.session = u.session /\ v.collector = u.collector /\ v.confirmation = 0
        /\ v.dialog = "none" /\ v.held = u.held /\ v.sources = u.sources
    BY <1>1, <2>1 DEF CloseDialog, Uis, SamePlace, SameScreen
  <2>3. DismissConfirmation(u, x) = IF u.confirmation = 0 THEN u ELSE IF u.page = "CONFIRMATION" THEN Back(v, x) ELSE v
    BY DEF DismissConfirmation
  <2> HIDE DEF v
  <2>4. Sound(v) /\ v.page = u.page
    BY <1>1, <2>2, SamePlaceSound DEF SamePlace, Base, Collecting
  <2>5. Turned(u, Back(v, x)) /\ Turned(u, v) /\ Turned(u, u)
    BY <2>4, BackTurns DEF Turned, Sound
  <2> QED  BY <2>3, <2>5
<1> QED  BY <1>2, <1>3

\* A step that may ask the core for something: only a filled page of the collection asks to mix.
Stepped(u, step) ==
  /\ Turned(u, step.u)
  /\ step.request.req = "Mixed" => step.u.rows = {"Mixed"}

\* A turn with no request, or with any request but to mix, is a step.
LEMMA JustStepped ==
  ASSUME NEW u, NEW v, Turned(u, v)
  PROVE  /\ Stepped(u, Step(v, NoRequest))
         /\ \A req, arg, id : req # "Mixed" => Stepped(u, Step(v, Request(req, arg, id)))
         /\ Stepped(u, SubmitWallet(v)) /\ \A c \in {"Approve", "Reject"} : Stepped(u, Choice(v, c))
<1>1. ASSUME NEW req, NEW arg, NEW id, req # "Mixed"
      PROVE  Stepped(u, Step(v, Request(req, arg, id)))
  BY <1>1 DEF Stepped, Step, Request
<1> QED  BY <1>1 DEF NoRequest, SubmitWallet, Choice

\* A submitted request sets the page busy; only a filled page of the collection is wiped first.
LEMMA SubmittedTurns ==
  ASSUME NEW u, NEW step, Stepped(u, step)
  PROVE  Turned(u, Submitted(step))
<1> DEFINE w == step.u
           v == IF step.request.req = "Mixed" THEN Generated(w) ELSE w
<1>1. Sound(w) /\ (w.page = "SPLASH" => u.page = "SPLASH")
  BY DEF Stepped, Turned
<1>2. Sound(v) /\ v.page = w.page
  <2>1. CASE step.request.req = "Mixed"
    <3> DEFINE g == Generated(w)
    <3>1. w \in Uis /\ Base(w) /\ Matching(w)
      BY <1>1, ShownPage
    <3>2. /\ g \in Uis /\ g.session = FALSE /\ g.collector = "idle" /\ SamePlace(w, g)
          /\ g.dialog = w.dialog /\ g.confirmation = w.confirmation /\ g.held = w.held /\ g.sources = w.sources
      BY <3>1 DEF Generated, Uis, SamePlace, SameScreen
    <3>3. w.rows = {"Mixed"}
      BY <2>1 DEF Stepped
    <3> HIDE DEF g
    <3>4. Base(g)
      BY <3>1, <3>2, SamePlaceBase DEF Collecting
    <3>5. Matching(g)
      BY <3>1, <3>2, <3>3 DEF Matching, SamePlace, SameScreen
    <3> QED  BY <2>1, <3>2, <3>4, <3>5 DEF Sound, SamePlace, g
  <2> QED  BY <1>1, <2>1
<1> HIDE DEF w, v
<1>3. Turned(u, w) /\ Turned(u, [v EXCEPT !.busy = TRUE])
  BY <1>1, <1>2, Quiet DEF Turned, SamePlace
<1> QED  BY <1>3 DEF Submitted, w, v

\* Going to a page asks for nothing.
LEMMA PushStepped ==
  ASSUME NEW u, Sound(u), u.page # "SPLASH", NEW v, Sound(v), SamePlace(u, v), NEW page \in Stops, NEW x
  PROVE  Stepped(u, Step(Push(v, x, page), NoRequest)) /\ Turned(u, Push(v, x, page))
<1>1. Turned(u, Push(v, x, page))
  BY PushTurns DEF Turned, Sound, SamePlace
<1> QED  BY <1>1, JustStepped

\* A tap on any row of the page.
LEMMA TapRowStepped ==
  ASSUME NEW u, Sound(u), NEW row \in u.rows \ {"toggle", "collect", "skip"}, NEW x
  PROVE  u.page # "SPLASH" /\ Stepped(u, TapRow(u, x, row))
<1>1. u \in Uis /\ Base(u) /\ Matching(u) /\ row \in RowNames
  BY ShownPage DEF Uis
<1>2. u.page # "SPLASH" /\ Turned(u, u)
  BY <1>1 DEF Matching, Turned
<1>3. CASE row \in Dialogs
  <2>1. TapRow(u, x, row) = Step(ShowDialog(u, row), NoRequest)
    BY <1>3 DEF TapRow, Plain, Dialogs
  <2>2. Turned(u, ShowDialog(u, row))
    BY <1>2, <1>3, Quiet DEF Turned, SamePlace
  <2> QED  BY <1>2, <2>1, <2>2, JustStepped
<1>4. CASE row \in Plain
  <2>1. TapRow(u, x, row) = Step(u, Request(row, "none", 0))
    BY <1>4 DEF TapRow, Plain, Dialogs
  <2>2. row = "Mixed" => u.rows = {"Mixed"}
    BY <1>1 DEF Base, Offered
  <2> QED  BY <1>2, <2>1, <2>2 DEF Stepped, Step, Request
<1>5. CASE row \in {"Approve", "Reject"}
  <2>1. TapRow(u, x, row) = Choice(u, row)
    BY <1>5 DEF TapRow, Plain, Dialogs
  <2> QED  BY <1>2, <1>5, <2>1, JustStepped
<1>6. CASE row \notin Dialogs \cup Plain \cup {"Approve", "Reject"}
  <2>1. TapRow(u, x, row) = Step(LocalRow(u, x, row), NoRequest)
    BY <1>6 DEF TapRow
  <2>2. CASE row = "ENTROPY_SOURCES"
    <3> DEFINE v == [u EXCEPT !.sources = Sources]
    <3>1. v \in Uis /\ SamePlace(u, v) /\ v.session = u.session /\ v.collector = u.collector
      BY <1>1 DEF Uis, SamePlace, SameScreen
    <3>2. Base(v)
      <4>1. Collecting(u)
        BY <1>1 DEF Base
      <4>2. Collecting(v)
        BY <3>1, <4>1 DEF Collecting, SamePlace
      <4> HIDE DEF v
      <4> QED  BY <1>1, <3>1, <4>2, SamePlaceBase
    <3>3. u.page = row => u.shown \notin Clearing
      BY <1>1, <2>2, ShownPage DEF Matching, Clearing
    <3>4. u.page = row => Matching(v)
      BY <3>3, Quiet DEF Sound
    <3>5. LocalRow(u, x, row) = Push(v, x, row)
      BY <2>2 DEF LocalRow
    <3> HIDE DEF v
    <3>6. row \in Stops
      BY <2>2 DEF Stops, Pages
    <3>7. Turned(u, LocalRow(u, x, row))
      BY <1>2, <3>1, <3>2, <3>4, <3>5, <3>6, PushTurns DEF SamePlace, Turned
    <3> QED  BY <1>2, <2>1, <3>7, JustStepped
  <2>3. CASE row = "retry"
    <3>1. u.session
      BY <1>1, <2>3 DEF Matching
    <3> DEFINE v == [u EXCEPT !.collector = "capturing"]
    <3>2. Sound(v) /\ v.page = u.page
      BY <3>1, Quiet DEF SamePlace
    <3>3. LocalRow(u, x, row) = Refresh(v, x)
      BY <2>3 DEF LocalRow
    <3> HIDE DEF v
    <3>4. Turned(u, LocalRow(u, x, row))
      BY <3>2, <3>3, RefreshTurns DEF Turned
    <3> QED  BY <1>2, <2>1, <3>4, JustStepped
  <2>4. CASE row = "privacy"
    <3>1. Turned(u, LocalRow(u, x, row))
      BY <2>4, RefreshTurns DEF LocalRow
    <3> QED  BY <1>2, <2>1, <3>1, JustStepped
  <2>5. CASE row \notin {"ENTROPY_SOURCES", "retry", "privacy"}
    <3>1. LocalRow(u, x, row) = Push(u, x, row)
      BY <2>5 DEF LocalRow
    <3>2. row \in Stops
      BY <1>1, <1>6, <2>5 DEF RowNames, Stops
    <3>3. Turned(u, LocalRow(u, x, row))
      BY <1>1, <1>2, <3>1, <3>2, PushTurns DEF Turned
    <3> QED  BY <1>2, <2>1, <3>3, JustStepped
  <2> QED  BY <2>2, <2>3, <2>4, <2>5
<1> QED  BY <1>2, <1>3, <1>4, <1>5, <1>6

\* The taps of the collection: a source chosen, the collection begun, a source skipped or retried.
LEMMA CollectionTurns ==
  ASSUME NEW u, Sound(u), NEW x
  PROVE  /\ "toggle" \in u.rows => \A s \in Sources : Turned(u, Toggle(u, x, s))
         /\ "collect" \in u.rows => Turned(u, CollectionBegin(u, x))
         /\ "skip" \in u.rows => \A c \in {"capturing", "error", "ready"} : Turned(u, Skip(u, x, c))
<1>1. u \in Uis /\ Base(u) /\ Matching(u) /\ Turned(u, u)
  BY ShownPage DEF Turned
<1>2. ASSUME "toggle" \in u.rows, NEW s \in Sources
      PROVE  Turned(u, Toggle(u, x, s))
  <2> DEFINE t == IF s \in u.sources THEN u.sources \ {s} ELSE u.sources \cup {s}
             v == [u EXCEPT !.sources = t]
  <2>1. u.shown \notin Clearing /\ t \in SUBSET Sources
    BY <1>1, <1>2 DEF Base, Offered, Clearing, Uis
  <2>2. Toggle(u, x, s) = Refresh(v, x)
    BY <1>1 DEF Toggle, Uis
  <2> HIDE DEF t
  <2>3. Sound(v) /\ v.page = u.page
    BY <2>1, Quiet DEF SamePlace
  <2> HIDE DEF v
  <2> QED  BY <2>2, <2>3, RefreshTurns DEF Turned
<1>3. ASSUME "collect" \in u.rows
      PROVE  Turned(u, CollectionBegin(u, x))
  <2>1. u.page = "ENTROPY_SOURCES"
    BY <1>1, <1>3, ShownPage DEF Base, Offered, InputPages
  <2> DEFINE w == [u EXCEPT !.session = TRUE, !.collector = "capturing"]
  <2>2. w \in Uis /\ w.session = TRUE /\ w.page = u.page /\ w.history = u.history /\ SameScreen(u, w)
    BY <1>1 DEF Uis, SameScreen
  <2>3. CollectionBegin(u, x) = u \/ CollectionBegin(u, x) = Push(w, x, "ENTROPY_COLLECT")
    BY DEF CollectionBegin
  <2> HIDE DEF w
  <2>4. Push(w, x, "ENTROPY_COLLECT") = Render([w EXCEPT !.page = "ENTROPY_COLLECT", !.history = Remembered(w)], x)
    BY <2>1, <2>2 DEF Push, Leave
  <2>5. Trail(w) /\ Offered(w) /\ SameScreen(w, w)
    BY <1>1, <2>2 DEF Base, Trail, Offered, SameScreen
  <2>6. Remembered(w) \in {w.history, Remembered(w)} /\ Remembered(w) # <<>>
    BY <2>1, <2>2, <2>5, RememberedIs
  <2>7. "ENTROPY_COLLECT" \in Stops
    BY DEF Stops, Pages
  <2> DEFINE h == Remembered(w)
  <2>8. h \in {w.history, Remembered(w)} /\ h # <<>>
    BY <2>6
  <2>9. Push(w, x, "ENTROPY_COLLECT") = Render([w EXCEPT !.page = "ENTROPY_COLLECT", !.history = h], x)
    BY <2>4
  <2> HIDE DEF h
  <2>10. Sound(Push(w, x, "ENTROPY_COLLECT")) /\ Push(w, x, "ENTROPY_COLLECT").page # "SPLASH"
    BY <2>1, <2>2, <2>5, <2>7, <2>8, <2>9, PushedSound
  <2> QED  BY <1>1, <2>3, <2>10 DEF Turned
<1>4. ASSUME "skip" \in u.rows, NEW c \in {"capturing", "error", "ready"}
      PROVE  Turned(u, Skip(u, x, c))
  <2>1. u.session
    BY <1>1, <1>4 DEF Matching
  <2> DEFINE v == [u EXCEPT !.collector = c]
  <2>2. Sound(v) /\ v.page = u.page
    BY <2>1, Quiet DEF SamePlace
  <2> HIDE DEF v
  <2>3. Skip(u, x, c) = Refresh(v, x)
    BY DEF Skip, v
  <2> QED  BY <2>2, <2>3, RefreshTurns DEF Turned
<1> QED  BY <1>2, <1>3, <1>4

\* The buttons of a dialog.
LEMMA DialogStepped ==
  ASSUME NEW u, Sound(u), u.dialog # "none", NEW confirmed \in BOOLEAN, NEW x
  PROVE  u.page # "SPLASH" /\ Stepped(u, DialogClicked(u, x, confirmed))
<1>1. u \in Uis /\ Base(u) /\ Matching(u)
  BY ShownPage
<1>2. u.page # "SPLASH"
  BY <1>1 DEF Matching
<1> DEFINE v == CloseDialog(u)
<1>3. Sound(v) /\ SamePlace(u, v) /\ v.page = u.page /\ Turned(u, v)
  BY Quiet DEF SamePlace, Turned
<1> HIDE DEF v
<1>4. "LENGTH" \in Stops
  BY DEF Stops, Pages
<1>5. Stepped(u, DialogAction(v, x, u.dialog))
  <2>1. Stepped(u, Step(Push(v, x, "LENGTH"), NoRequest))
    BY <1>2, <1>3, <1>4, PushStepped
  <2>2. /\ Stepped(u, Step(v, Request("Restart", "none", 0))) /\ Stepped(u, Step(v, Request("ResetStorage", "none", 0)))
        /\ Stepped(u, Choice(v, "Approve")) /\ Stepped(u, Step(v, NoRequest))
    BY <1>3, JustStepped
  <2> QED  BY <2>1, <2>2 DEF DialogAction
<1>6. Stepped(u, Step(v, NoRequest))
  BY <1>3, JustStepped
<1> QED  BY <1>2, <1>5, <1>6 DEF DialogClicked, v

\* A secret is kept or dropped.
LEMMA HeldBase ==
  ASSUME NEW u, Sound(u), NEW h \in SUBSET Secrets
  PROVE  LET v == [u EXCEPT !.held = h]
         IN  Base(v) /\ SamePlace(u, v) /\ (u.shown \notin Clearing => Sound(v))
<1> DEFINE v == [u EXCEPT !.held = h]
<1>1. u \in Uis /\ Base(u) /\ Collecting(u)
  BY ShownPage DEF Base
<1>2. v \in Uis /\ SamePlace(u, v) /\ v.session = u.session /\ v.collector = u.collector
  BY <1>1 DEF Uis, SamePlace, SameScreen
<1> HIDE DEF v
<1>3. Collecting(v)
  BY <1>1, <1>2 DEF Collecting, SamePlace
<1>4. Base(v)
  BY <1>1, <1>2, <1>3, SamePlaceBase
<1>5. u.shown \notin Clearing => Sound(v)
  BY Quiet DEF v
<1> QED  BY <1>2, <1>4, <1>5 DEF v

\* The handler of the input page that is open, for any text.
LEMMA CurrentInputStepped ==
  ASSUME NEW u, Sound(u), u.page # "SPLASH", NEW x, NEW text
  PROVE  Stepped(u, CurrentInput(u, x, text))
<1> DEFINE Kept(what) == [u EXCEPT !.held = IF text = "empty" THEN @ \ {what} ELSE @ \cup {what}]
<1>1. u \in Uis /\ Base(u) /\ Matching(u) /\ Turned(u, u)
  BY ShownPage DEF Turned
<1>2. u.page \in InputPages => u.shown = u.page
  BY <1>1 DEF Matching, InputPages
<1>3. ASSUME NEW what \in Secrets, u.page \in InputPages
      PROVE  Sound(Kept(what)) /\ SamePlace(u, Kept(what)) /\ Turned(u, Kept(what))
  <2> DEFINE h == IF text = "empty" THEN u.held \ {what} ELSE u.held \cup {what}
  <2>1. h \in SUBSET Secrets /\ u.shown \notin Clearing
    BY <1>1, <1>2, <1>3 DEF Uis, InputPages, Clearing
  <2>2. Kept(what) = [u EXCEPT !.held = h]
    BY <1>1 DEF Uis
  <2> HIDE DEF h
  <2>3. Sound([u EXCEPT !.held = h]) /\ SamePlace(u, [u EXCEPT !.held = h])
    BY <2>1, HeldBase
  <2>4. Sound(Kept(what)) /\ SamePlace(u, Kept(what))
    BY <2>2, <2>3
  <2> HIDE DEF Kept
  <2> QED  BY <2>4 DEF SamePlace, Turned
<1>4. ASSUME NEW page \in {"PIN_CONFIRM", "SOURCE", "PASSPHRASE", "PASSPHRASE_CONFIRM"}, NEW v, Sound(v), SamePlace(u, v)
      PROVE  Stepped(u, Step(Push(v, x, page), NoRequest))
  <2>1. page \in Stops
    BY <1>4 DEF Stops, Pages, InputPages
  <2> QED  BY <1>4, <2>1, PushStepped
<1>5. SamePlace(u, u)
  BY DEF SamePlace, SameScreen
<1>6. {"pin", "mnemonic", "passphrase"} \subseteq Secrets
  BY DEF Secrets
<1>7. CASE u.page \in {"LOCKED", "FIDO_PIN_RECOVER"}
  BY <1>1, <1>7, JustStepped DEF CurrentInput
<1>8. CASE u.page = "PIN_NEW"
  <2>1. Stepped(u, Step(Push(Kept("pin"), x, "PIN_CONFIRM"), NoRequest))
    BY <1>3, <1>4, <1>6, <1>8 DEF InputPages
  <2>2. Stepped(u, Step(u, NoRequest))
    BY <1>1, JustStepped
  <2> QED  BY <1>8, <2>1, <2>2 DEF CurrentInput
<1>9. CASE u.page \in {"PIN_CONFIRM", "VERIFY"}
  <2>1. /\ Stepped(u, Step(Push(u, x, "SOURCE"), NoRequest)) /\ Stepped(u, Step(Push(u, x, "PASSPHRASE"), NoRequest))
        /\ Stepped(u, Step(u, NoRequest))
    BY <1>1, <1>4, <1>5, JustStepped
  <2> QED  BY <1>9, <2>1 DEF CurrentInput
<1>10. CASE u.page = "IMPORT"
  <2>1. Stepped(u, Step(Push(Kept("mnemonic"), x, "PASSPHRASE"), NoRequest))
    BY <1>3, <1>4, <1>6, <1>10 DEF InputPages
  <2> QED  BY <1>10, <2>1 DEF CurrentInput
<1>11. CASE u.page = "PASSPHRASE"
  <2>1. Sound(Kept("passphrase")) /\ SamePlace(u, Kept("passphrase")) /\ Turned(u, Kept("passphrase"))
    BY <1>3, <1>6, <1>11 DEF InputPages
  <2>2. Stepped(u, Step(Push(Kept("passphrase"), x, "PASSPHRASE_CONFIRM"), NoRequest))
    BY <1>4, <2>1
  <2>3. Stepped(u, SubmitWallet(Kept("passphrase")))
    BY <2>1, JustStepped
  <2> QED  BY <1>11, <2>2, <2>3 DEF CurrentInput
<1>12. CASE u.page \notin {"LOCKED", "FIDO_PIN_RECOVER", "PIN_NEW", "PIN_CONFIRM", "VERIFY", "IMPORT", "PASSPHRASE"}
  <2>1. Stepped(u, SubmitWallet(u)) /\ Stepped(u, Step(u, NoRequest))
    BY <1>1, JustStepped
  <2> QED  BY <1>12, <2>1 DEF CurrentInput
<1> QED  BY <1>7, <1>8, <1>9, <1>10, <1>11, <1>12

\* A deferred submission runs on the input page that asked for it.
LEMMA InputStepped ==
  ASSUME NEW u, Sound(u), "submit" \in u.async, NEW x, NEW text
  PROVE  u.page # "SPLASH" /\ Stepped(u, InputHandler(u, x, text))
<1>1. u \in Uis /\ Base(u) /\ Matching(u)
  BY ShownPage
<1>2. u.page # "SPLASH"
  BY <1>1 DEF Matching, Base, Offered
<1> DEFINE v == SubmitDeferred(u)
<1>3. Sound(v) /\ v.page = u.page
  BY AsyncTurns
<1> HIDE DEF v
<1>4. Turned(u, v) /\ Turned(u, Back(v, x))
  BY <1>2, <1>3, BackTurns DEF Turned, Sound
<1>5. Stepped(u, WifiPassword(v, x, text))
  BY <1>4, JustStepped DEF WifiPassword
<1>6. Stepped(u, CurrentInput(v, x, text))
  BY <1>2, <1>3, CurrentInputStepped DEF Stepped, Turned
<1> QED  BY <1>2, <1>5, <1>6 DEF InputHandler, v

-----------------------------------------------------------------------------
(* The events.                                                             *)

\* A status, or news of the network.
LEMMA StatusTurns ==
  ASSUME NEW u, Sound(u), NEW wallet \in Wallets, NEW storage \in {"INITIALIZING", "READY", "ERROR"}, NEW x
  PROVE  Turned(u, ApplyStatus(u, x, wallet, storage)) /\ Turned(u, NetworkEvents(u, x))
<1> DEFINE v == [u EXCEPT !.wallet = wallet, !.storage = storage]
           w == IF u.page \in ActivePages THEN Refresh(v, x) ELSE v
<1>1. u \in Uis /\ Base(u) /\ Matching(u) /\ Turned(u, u)
  BY ShownPage DEF Turned
<1>2. /\ v \in Uis /\ SamePlace(u, v) /\ v.session = u.session /\ v.collector = u.collector
      /\ v.confirmation = u.confirmation /\ v.dialog = u.dialog /\ v.held = u.held /\ v.sources = u.sources
  BY <1>1 DEF Uis, SamePlace, SameScreen
<1> HIDE DEF v
<1>3. Turned(u, v) /\ Sound(v) /\ v.page = u.page
  BY <1>1, <1>2, SamePlaceSound DEF Base, Collecting, SamePlace
<1>4. Turned(u, Refresh(v, x))
  BY <1>3, RefreshTurns DEF Turned
<1>5. Turned(u, w) /\ Sound(w)
  BY <1>3, <1>4 DEF Turned
<1> HIDE DEF w
<1>6. Turned(u, Open(w, x, "STORAGE_ERROR")) /\ Turned(u, Open(w, x, "LOCKED"))
  <2>1. w \in Uis /\ Collecting(w) /\ Offered(w) /\ {"STORAGE_ERROR", "LOCKED"} \subseteq Roots
    BY <1>5 DEF Sound, Base, Roots
  <2> QED  BY <2>1, OpenTurns DEF Turned
<1>7. Turned(u, ApplyStatus(u, x, wallet, storage))
  BY <1>3, <1>4, <1>5, <1>6 DEF ApplyStatus, v, w
<1>8. Turned(u, NetworkEvents(u, x))
  BY <1>1, RefreshTurns DEF NetworkEvents
<1> QED  BY <1>7, <1>8

\* A confirmation is announced.
LEMMA ApplyConfirmationTurns ==
  ASSUME NEW u, Sound(u), NEW state, state.id \in 0..MaxConfirmations, NEW x
  PROVE  Turned(u, ApplyConfirmation(u, x, state))
<1> DEFINE v == IF u.page = "SPLASH" THEN ShowStartup(u, x) ELSE u
           w == [v EXCEPT !.busy = FALSE]
<1>1. Sound(v) /\ v.page # "SPLASH"
  BY ShowStartupTurns DEF Sound, Base
<1> HIDE DEF v
<1>2. Sound(w) /\ w.page # "SPLASH"
  BY <1>1, Quiet DEF SamePlace
<1> HIDE DEF w
<1>3. Turned(u, ShowConfirmation(w, x, state.id)) /\ Turned(u, DismissConfirmation(u, x))
  BY <1>2, ConfirmationTurns DEF Turned
<1> QED  BY <1>3 DEF ApplyConfirmation, v, w

\* A result of the core, where the splash screen is gone.
LEMMA ResultTurns ==
  ASSUME NEW u, Sound(u), u.page # "SPLASH", NEW result, NEW recovered, NEW x
  PROVE  Turned(u, HandleResult(u, x, result, recovered))
<1> DEFINE v == [u EXCEPT !.busy = FALSE]
           h == v.held \cup {"mnemonic"}
           phrase == [v EXCEPT !.held = h]
<1>1. Sound(v) /\ v.page = u.page /\ v.history = u.history
  BY Quiet DEF SamePlace
<1> HIDE DEF v
<1>2. v \in Uis /\ Base(v) /\ Matching(v) /\ (v.page \notin Roots => v.history # <<>>) /\ (v.shown \notin InputPages => v.shown = v.page)
  BY <1>1, ShownPage
<1>3. Turned(u, Refresh(v, x)) /\ Turned(u, Back(v, x)) /\ Turned(u, v)
  BY <1>1, <1>2, RefreshTurns, BackTurns DEF Turned
<1>4. Turned(u, Open(v, x, "HOME"))
  <2>1. "HOME" \in Roots
    BY DEF Roots
  <2> QED  BY <1>2, <2>1, OpenTurns DEF Turned, Base
<1>5. /\ Base(phrase) /\ phrase.page = u.page /\ phrase.history = u.history
      /\ u.page = "MNEMONIC" => Matching(phrase)
  <2>1. h \in SUBSET Secrets
    BY <1>2 DEF Uis, Secrets
  <2> HIDE DEF h
  <2>2. Base(phrase) /\ SamePlace(v, phrase) /\ (v.shown \notin Clearing => Sound(phrase))
    BY <1>1, <2>1, HeldBase
  <2>3. u.page = "MNEMONIC" => v.shown \notin Clearing
    BY <1>1, <1>2 DEF Matching, Clearing
  <2> HIDE DEF phrase
  <2> QED  BY <1>1, <2>2, <2>3 DEF SamePlace, Sound
<1>6. phrase = [v EXCEPT !.held = @ \cup {"mnemonic"}]
  BY <1>2 DEF Uis
<1> HIDE DEF phrase, h
<1>7. "MNEMONIC" \in Stops
  BY DEF Stops, Pages
<1>8. Turned(u, Push(phrase, x, "MNEMONIC"))
  BY <1>5, <1>7, PushTurns DEF Turned
<1>9. u.page = "ENTROPY_COLLECT" => Turned(u, Replace(phrase, x, "MNEMONIC"))
  <2>1. u.page = "ENTROPY_COLLECT" => phrase.history # <<>>
    BY <1>1, <1>2, <1>5 DEF Roots
  <2> QED  BY <1>5, <1>7, <2>1, ReplaceTurns DEF Turned
<1> QED  BY <1>3, <1>4, <1>6, <1>8, <1>9 DEF HandleResult, v

\* The controller starts on a page of its own, with nothing held.
LEMMA ControllerInitSound ==
  ASSUME NEW wallet \in Wallets, NEW storage \in {"INITIALIZING", "READY", "ERROR"}, NEW t \in BOOLEAN, NEW x
  PROVE  Sound(ControllerInit(x, wallet, storage, t))
<1> DEFINE s == UiStart(wallet, storage)
           u == Open(s, x, "SPLASH")
<1>1. s \in Uis
  <2>1. <<>> \in Seq(Stops) /\ 0 \in 0..MaxConfirmations
    BY EmptySeq, DeviceAssumption
  <2> QED  BY <2>1 DEF UiStart, Uis
<1>2. Collecting(s) /\ Offered(s)
  BY DEF Collecting, Offered, UiStart
<1>3. "SPLASH" \in Roots
  BY DEF Roots
<1> HIDE DEF s
<1>4. Sound(u)
  BY <1>1, <1>2, <1>3, OpenTurns
<1> HIDE DEF u
<1>5. Sound(ShowStartup(u, x))
  BY <1>4, ShowStartupTurns DEF Sound, Base
<1> QED  BY <1>4, <1>5 DEF ControllerInit, s, u

-----------------------------------------------------------------------------
(* The UI on the device.                                                   *)

Confirmations == [id : 0..MaxConfirmations, phase : {"IDLE", "REQUIRED", "COMPLETED"}]
Events == {"STATUS", "LOCAL_RESULT", "CONFIRMATION"}

Screen == IF main = "run" THEN Sound(ui)
          ELSE ui = UiStart("Disabled", "INITIALIZING") /\ work = {} /\ next = NoConfirmation
Limits ==
  /\ main \in {"storage", "take", "load", "core", "display", "update", "run"} /\ nxp \in Builds
  /\ core.pending \in 0..MaxConfirmations /\ core.asked \in 0..MaxConfirmations
  /\ channel \in Confirmations /\ next \in Confirmations
  /\ Len(cmdq) <= QueueDepth /\ localq \in Seq(Results) /\ Len(localq) <= QueueDepth
  /\ events \subseteq Events /\ work \subseteq Events

\* Nothing was asked for before there was a page to ask on.
Calm == main # "run" \/ ui.page = "SPLASH" =>
          cmdq = <<>> /\ localq = <<>> /\ core.due = "none" /\ core.erasing = "no"
Navigable == Screen /\ Limits /\ Calm

\* Power-on and every restart.
LEMMA StartNavigable ==
  /\ Init => Navigable
  /\ \A s, e : Rebooted(s, e) /\ nxp \in Builds /\ UNCHANGED nxp => Navigable'
<1> USE DEF CoreOff, NoConfirmation, Confirmations
<1>1. 0 \in 0..MaxConfirmations /\ <<>> \in Seq(Results) /\ Len(<<>>) = 0 /\ Len(<<>>) <= QueueDepth
  BY EmptySeq, DeviceAssumption
<1>2. ASSUME Init PROVE Navigable
  <2>1. Screen
    BY <1>2 DEF Init, DeviceStart, Screen
  <2>2. Limits
    BY <1>1, <1>2 DEF Init, DeviceStart, Limits
  <2>3. Calm
    BY <1>2 DEF Init, DeviceStart, Calm
  <2> QED  BY <2>1, <2>2, <2>3 DEF Navigable
<1>3. ASSUME NEW s, NEW e, Rebooted(s, e), nxp \in Builds, UNCHANGED nxp PROVE Navigable'
  <2>1. Screen'
    BY <1>3 DEF Rebooted, Screen
  <2>2. Limits'
    BY <1>1, <1>3 DEF Rebooted, Limits
  <2>3. Calm'
    BY <1>3 DEF Rebooted, Calm
  <2> QED  BY <2>1, <2>2, <2>3 DEF Navigable
<1> QED  BY <1>2, <1>3

\* Only known events are marked.
LEMMA Notified ==
  ASSUME NEW more \in SUBSET Events, Notify(more), events \subseteq Events
  PROVE  events' \subseteq Events
  BY DEF Notify, StorageEvent, WalletEvent, Events

\* The threads of start-up, up to the display.
LEMMA BootNavigable ==
  ASSUME IInv, Navigable, Boot
  PROVE  Navigable'
<1>1. {} \in SUBSET Events /\ events \subseteq Events
  BY DEF Navigable, Limits
<1>2. CASE StorageStart \/ UpdateModeTake \/ LoadSettings \/ CoreInit
  <2>1. /\ main # "run" /\ main' \in {"take", "update", "load", "core", "display"}
        /\ UNCHANGED <<nxp, channel, cmdq, localq, ui, work, next>> /\ Notify({})
    BY <1>2 DEF StorageStart, UpdateModeTake, LoadSettings, CoreInit, EnterUpdate, NoUpdate
  <2>2. core'.pending = core.pending /\ core'.asked = core.asked /\ core'.due = core.due /\ core'.erasing = core.erasing
    BY <1>2 DEF StorageStart, UpdateModeTake, LoadSettings, CoreInit, IInv, Memory, Cores
  <2>3. events' \subseteq Events
    BY <1>1, <2>1, Notified
  <2>4. Screen'
    BY <2>1 DEF Navigable, Screen
  <2>5. Limits'
    BY <2>1, <2>2, <2>3 DEF Navigable, Limits
  <2>6. Calm'
    BY <2>1, <2>2 DEF Navigable, Calm
  <2> QED  BY <2>4, <2>5, <2>6 DEF Navigable
<1>3. CASE DisplayInit
  <2>1. /\ main = "display" /\ main' = "run" /\ UNCHANGED <<nxp, store, core, channel, cmdq, localq, events, work, next>>
        /\ \E t \in BOOLEAN : ui' = ControllerInit(X(FALSE), core.walletChan, store.chan, t)
    BY <1>3 DEF DisplayInit, memory, coreVars
  <2>2. core.walletChan \in Wallets /\ store.chan \in {"INITIALIZING", "READY", "ERROR"}
    BY DEF IInv, Memory, Cores, Stores
  <2>3. Sound(ui')
    BY <2>1, <2>2, ControllerInitSound
  <2>4. Screen'
    BY <2>1, <2>3 DEF Screen, Sound, Base, Trail, Collecting, Offered, Matching, Uis
  <2>5. Limits' /\ Calm'
    BY <2>1 DEF Navigable, Limits, Calm
  <2> QED  BY <2>4, <2>5 DEF Navigable
<1> QED  BY <1>2, <1>3 DEF Boot

\* The core thread and what surrounds it leave the UI alone.
LEMMA CoreNavigable ==
  ASSUME Navigable, UNCHANGED <<main, nxp, ui, work, next>>, Limits',
         cmdq # <<>> \/ core.due # "none" \/ core.erasing # "no" \/
           (cmdq' = cmdq /\ localq' = localq /\ core'.due = core.due /\ core'.erasing = core.erasing)
  PROVE  Navigable'
<1>1. Screen'
  BY DEF Navigable, Screen, Sound, Base, Trail, Collecting, Offered, Matching
<1>2. Calm'
  BY DEF Navigable, Calm
<1> QED  BY <1>1, <1>2 DEF Navigable

\* The announcement of a confirmation stays within the parameters.
LEMMA AnnounceLimits ==
  ASSUME Navigable, core \in Cores, NEW c, c.pending \in 0..MaxConfirmations, Announce(c)
  PROVE  core' = c /\ channel' \in Confirmations /\ events' \subseteq Events
<1>1. core' = c
  BY DEF Announce
<1>2. channel' \in Confirmations
  BY DEF Announce, Confirmations, Navigable, Limits
<1>3. \E more \in {{}, {"CONFIRMATION"}} : Notify(more)
  BY DEF Announce
<1>4. events' \subseteq Events
  BY <1>3, Notified DEF Events, Navigable, Limits
<1> QED  BY <1>1, <1>2, <1>4

\* The runtime ends a confirmation or leaves it as it is.
LEMMA ReactPending ==
  ASSUME core \in Cores, NEW q, NEW r \in React(q)
  PROVE  r.core.pending \in {0, core.pending} /\ r.core.asked = core.asked
<1> DEFINE Kept(c) == c \in Cores /\ c.pending \in {0, core.pending} /\ c.asked = core.asked
           Good(t) == t.core.pending \in {0, core.pending} /\ t.core.asked = core.asked
<1>1. ASSUME NEW s, NEW e, NEW c, NEW result, Kept(c) PROVE Good(Reacts(s, e, c, result))
  BY <1>1 DEF Reacts, Cores
<1>2. /\ Kept(core) /\ Kept(Ended(core)) /\ Kept([core EXCEPT !.prepared = TRUE])
      /\ \A w \in Wallets : Kept([core EXCEPT !.wallet = w]) /\ Kept([Ended(core) EXCEPT !.wallet = w])
  BY DEF Ended, Cores
<1>3. core.wallet \in Wallets /\ {"Ready", "Locked", "Setup", "Disabled"} \subseteq Wallets
  BY DEF Cores, Wallets
<1> HIDE DEF Good, Kept
<1>4. ASSUME NEW f, NEW w \in Wallets, NEW result PROVE Good(Became(f, w, result)) /\ Good(Same(result))
  BY <1>1, <1>2 DEF Became, Same
<1>5. CASE r \in Decided(q)
  <2>1. \/ r = Same("none") \/ r = Reacts(store, se, Ended(core), "none")
        \/ r = Reacts(store, se, [core EXCEPT !.prepared = TRUE], "none")
    BY <1>5, Zenon DEF Decided
  <2>2. Good(r)
    BY <1>1, <1>2, <1>3, <1>4, <2>1
  <2> QED  BY <2>2 DEF Good
<1>6. CASE r = Reacts(store, se, [Ended(core) EXCEPT !.wallet = "Locked"], "Updated")
  <2>1. Good(r)
    BY <1>1, <1>2, <1>3, <1>6
  <2> QED  BY <2>1 DEF Good
<1>7. CASE r = Same("Error") \/ r \in Granted(q)
  <2>1. \/ \E result : r = Same(result)
        \/ \E f, result : \E w \in {core.wallet, "Ready", "Locked", "Setup", "Disabled"} : r = Became(f, w, result)
    <3>1. CASE r = Same("Error")
      BY <3>1
    <3>2. CASE r \in Granted(q)
      BY <3>2 DEF Granted
    <3> QED  BY <1>7, <3>1, <3>2
  <2>2. Good(r)
    BY <1>3, <1>4, <2>1
  <2> QED  BY <2>2 DEF Good
<1> QED  BY <1>5, <1>6, <1>7, Zenon DEF React

\* A queue that is taken from is shorter.
LEMMA TailShorter ==
  ASSUME CommandsGood, cmdq # <<>>, cmdq' = Tail(cmdq), Len(cmdq) <= QueueDepth
  PROVE  Len(cmdq') <= QueueDepth
<1>1. PICK S : cmdq \in Seq(S)
  BY DEF CommandsGood
<1>2. Len(Tail(cmdq)) = Len(cmdq) - 1 /\ Len(cmdq) \in Nat
  BY <1>1, HeadTailProperties, LenProperties
<1> QED  BY <1>2, DeviceAssumption

\* Every step of the core, its queue and its watches.
LEMMA CoreStepNavigable ==
  ASSUME IInv, Navigable, CoreStep \/ PowerLoss
  PROVE  Navigable'
<1> USE DEF IInv, Memory
<1>1. /\ nxp \in Builds /\ {} \in SUBSET Events /\ events \subseteq Events /\ Limits
      /\ core.pending \in 0..MaxConfirmations /\ 0 \in 0..MaxConfirmations
  BY DeviceAssumption DEF Navigable, Limits
<1>2. CASE Serve
  <2>1. cmdq # <<>> /\ cmdq' = Tail(cmdq) /\ UNCHANGED <<main, nxp, localq, ui, work, next>>
    BY <1>2, Zenon DEF Serve
  <2>2. PICK r \in React(Head(cmdq)) : Announce(r.core)
    BY <1>2, Zenon DEF Serve
  <2>3. r.core.pending \in 0..MaxConfirmations /\ r.core.asked = core.asked
    BY <1>1, ReactPending
  <2>4. core' = r.core /\ channel' \in Confirmations /\ events' \subseteq Events
    BY <2>2, <2>3, AnnounceLimits
  <2>5. Limits'
    BY <1>1, <2>1, <2>3, <2>4, TailShorter DEF Limits
  <2> QED  BY <2>1, <2>5, CoreNavigable
<1>3. CASE Restart \/ PowerLoss
  <2>1. Rebooted(store, se) /\ UNCHANGED nxp
    BY <1>3 DEF Restart, PowerLoss, Reset
  <2> QED  BY <1>1, <2>1, StartNavigable
<1>4. CASE BeginReset
  <2>1. cmdq # <<>> /\ cmdq' = Tail(cmdq) /\ UNCHANGED <<main, nxp, channel, localq, ui, events, work, next>>
    BY <1>4, Zenon DEF BeginReset, uiVars, memory
  <2>2. core'.pending = core.pending /\ core'.asked = core.asked
    BY <1>4 DEF BeginReset, Cores
  <2>3. Limits'
    BY <1>1, <2>1, <2>2, TailShorter DEF Limits
  <2> QED  BY <2>1, <2>3, CoreNavigable
<1>5. CASE EraseElement
  <2>1. core.erasing # "no" /\ UNCHANGED <<main, nxp, channel, cmdq, localq, ui, events, work, next>>
    BY <1>5 DEF EraseElement, uiVars
  <2>2. core'.pending = core.pending /\ core'.asked = core.asked
    BY <1>5 DEF EraseElement, Cores
  <2>3. Limits'
    BY <1>1, <2>1, <2>2 DEF Limits
  <2> QED  BY <2>1, <2>3, CoreNavigable
<1>6. CASE EraseStore
  <2>1. PICK o \in EraseFlash(store) :
          IF o.ret = 0 THEN Reset(o.store, se)
          ELSE /\ core' = [core EXCEPT !.erasing = "no", !.due = "Error"] /\ Notify({})
               /\ UNCHANGED <<main, nxp, channel, cmdq, localq, ui, work, next>>
    BY <1>6, Zenon DEF EraseStore
  <2>2. CASE o.ret = 0
    <3>1. Rebooted(o.store, se) /\ UNCHANGED nxp
      BY <2>1, <2>2 DEF Reset
    <3> QED  BY <1>1, <3>1, StartNavigable
  <2>3. CASE o.ret # 0
    <3>1. core.erasing # "no"
      BY <1>6 DEF EraseStore
    <3>2. core'.pending = core.pending /\ core'.asked = core.asked /\ events' \subseteq Events
      BY <1>1, <2>1, <2>3, Notified DEF Cores
    <3>3. Limits'
      BY <1>1, <2>1, <2>3, <3>2 DEF Limits
    <3> QED  BY <2>1, <2>3, <3>1, <3>3, CoreNavigable
  <2> QED  BY <2>2, <2>3
<1>7. CASE RouteResult
  <2>1. core.due # "none" /\ core' = [core EXCEPT !.due = "none"] /\ UNCHANGED <<main, nxp, channel, cmdq, ui, work, next>>
    BY <1>7, Zenon DEF RouteResult, memory
  <2>2. core'.pending = core.pending /\ core'.asked = core.asked /\ core.due \in Results
    BY <2>1 DEF Cores
  <2>3. localq' = localq \/ (localq' = Append(localq, core.due) /\ Len(localq) < QueueDepth)
    BY <1>7, Zenon DEF RouteResult
  <2>4. localq' \in Seq(Results) /\ Len(localq') <= QueueDepth
    <3>1. localq \in Seq(Results) /\ Len(localq) \in Nat /\ Len(localq) <= QueueDepth
      BY <1>1, LenProperties DEF Limits
    <3>2. Append(localq, core.due) \in Seq(Results) /\ Len(Append(localq, core.due)) = Len(localq) + 1
      BY <2>2, <3>1, AppendProperties
    <3> QED  BY <2>3, <3>1, <3>2, DeviceAssumption
  <2>5. events' \subseteq Events
    BY <1>1, <1>7 DEF RouteResult, Events
  <2>6. Limits'
    BY <1>1, <2>1, <2>2, <2>4, <2>5 DEF Limits
  <2> QED  BY <2>1, <2>6, CoreNavigable
<1>8. CASE PublishWallet \/ Probe
  <2>1. UNCHANGED <<main, nxp, channel, cmdq, localq, ui, work, next>> /\ Notify({})
    BY <1>8 DEF PublishWallet, Probe
  <2>2. core'.pending = core.pending /\ core'.asked = core.asked /\ core'.due = core.due /\ core'.erasing = core.erasing
    BY <1>8 DEF PublishWallet, Probe, Cores
  <2>3. Limits'
    BY <1>1, <2>1, <2>2, Notified DEF Limits
  <2> QED  BY <2>1, <2>2, <2>3, CoreNavigable
<1>9. CASE Ask \/ Settle
  <2>1. UNCHANGED <<main, nxp, cmdq, localq, ui, work, next>>
    BY <1>9, Zenon DEF Ask, Settle
  <2>2. PICK c : Announce(c) /\ c.pending \in 0..MaxConfirmations /\ c.asked \in 0..MaxConfirmations
                 /\ c.due = core.due /\ c.erasing = core.erasing
    <3>1. CASE Ask
      <4>1. core.asked < MaxConfirmations
        BY <3>1, Zenon DEF Ask
      <4>2. PICK p \in BOOLEAN : Announce([core EXCEPT !.pending = core.asked + 1, !.asked = @ + 1, !.prepared = p])
        BY <3>1, Zenon DEF Ask
      <4> DEFINE c == [core EXCEPT !.pending = core.asked + 1, !.asked = @ + 1, !.prepared = p]
      <4>3. c.pending = core.asked + 1 /\ c.asked = core.asked + 1 /\ c.due = core.due /\ c.erasing = core.erasing
        BY DEF Cores
      <4>4. core.asked + 1 \in 0..MaxConfirmations
        BY <1>1, <4>1, DeviceAssumption DEF Limits
      <4>5. Announce(c)
        BY <4>2
      <4> HIDE DEF c
      <4> QED  BY <4>3, <4>4, <4>5
    <3>2. CASE Settle
      <4>1. Announce(Ended(core))
        BY <3>2, Zenon DEF Settle
      <4>2. Ended(core).pending = 0 /\ Ended(core).asked = core.asked /\ Ended(core).due = core.due /\ Ended(core).erasing = core.erasing
        BY DEF Ended, Cores
      <4> QED  BY <1>1, <4>1, <4>2 DEF Limits
    <3> QED  BY <1>9, <3>1, <3>2
  <2>3. core' = c /\ channel' \in Confirmations /\ events' \subseteq Events
    BY <2>2, AnnounceLimits
  <2>4. Limits'
    BY <1>1, <2>1, <2>2, <2>3 DEF Limits
  <2> QED  BY <2>1, <2>2, <2>3, <2>4, CoreNavigable
<1>10. CASE UpdateRequest
  <2>1. UNCHANGED nxp
    BY <1>10, Zenon DEF UpdateRequest
  <2>2. PICK o : \/ Rebooted(o.store, se)
                 \/ UNCHANGED core /\ Notify({}) /\ UNCHANGED <<main, channel, cmdq, localq, ui, work, next>>
    BY <1>10, Zenon DEF UpdateRequest
  <2>3. CASE Rebooted(o.store, se)
    BY <1>1, <2>1, <2>3, StartNavigable
  <2>4. CASE UNCHANGED core /\ Notify({}) /\ UNCHANGED <<main, channel, cmdq, localq, ui, work, next>>
    <3>1. Limits'
      BY <1>1, <2>1, <2>4, Notified DEF Limits
    <3> QED  BY <2>1, <2>4, <3>1, CoreNavigable
  <2> QED  BY <2>2, <2>3, <2>4
<1> QED  BY <1>2, <1>3, <1>4, <1>5, <1>6, <1>7, <1>8, <1>9, <1>10, Zenon DEF CoreStep

\* A UI that stays sound and does not go back to the splash screen.
LEMMA UiNavigable ==
  ASSUME Navigable, main = "run", UNCHANGED <<main, nxp, core, channel>>, Turned(ui, ui'), Limits',
         ui.page = "SPLASH" => UNCHANGED <<cmdq, localq>>
  PROVE  Navigable'
<1>1. Screen'
  BY DEF Screen, Turned, Sound, Base, Trail, Collecting, Offered, Matching, Uis
<1>2. Calm'
  BY DEF Navigable, Calm, Turned
<1> QED  BY <1>1, <1>2 DEF Navigable

\* A step of the display thread that asks for nothing.
LEMMA DrawingNavigable ==
  ASSUME Navigable, main = "run", UNCHANGED <<main, nxp, core, channel, cmdq, localq, work, next>>, Notify({}), Turned(ui, ui')
  PROVE  Navigable'
<1>1. {} \in SUBSET Events /\ events \subseteq Events
  BY DEF Navigable, Limits
<1>2. Limits'
  BY <1>1, Notified DEF Navigable, Limits
<1> QED  BY <1>2, UiNavigable

\* A request is queued where there is room.
LEMMA SubmittingNavigable ==
  ASSUME CommandsGood, Navigable, main = "run", UNCHANGED <<main, nxp, core, channel, localq, work, next>>, Notify({}),
         ui.page # "SPLASH", Turned(ui, ui'), NEW step, cmdq' = Queued(step)
  PROVE  Navigable'
<1>1. {} \in SUBSET Events /\ events \subseteq Events /\ Len(cmdq) <= QueueDepth
  BY DEF Navigable, Limits
<1>2. Len(cmdq') <= QueueDepth
  <2>1. PICK S : cmdq \in Seq(S)
    BY DEF CommandsGood
  <2> DEFINE T == S \cup {step.request}
  <2>2. Len(cmdq) \in Nat /\ Len(Append(cmdq, step.request)) = Len(cmdq) + 1
    BY <2>1, LenProperties
  <2> QED  BY <1>1, <2>2, DeviceAssumption DEF Queued
<1>3. Limits'
  BY <1>1, <1>2, Notified DEF Navigable, Limits
<1> QED  BY <1>3, UiNavigable

\* Every touch.
LEMMA TouchNavigable ==
  ASSUME IInv, Navigable, Touch
  PROVE  Navigable'
<1>1. main = "run" /\ Sound(ui) /\ CommandsGood
  BY Zenon DEF IInv, Navigable, Screen, Touch, Tap, ToggleSource, Collect, SkipSource, DialogButton, BackArrow, Icon, Field, Cancel,
     Submit, Touchable, Unlocked
<1>2. ui \in Uis /\ Base(ui) /\ Matching(ui) /\ (ui.shown = "SPLASH" <=> ui.page = "SPLASH")
  BY <1>1, ShownPage
<1>3. CASE Tap
  <2>1. PICK row \in ui.rows \ {"toggle", "collect", "skip"} : LET Do(x) == TapRow(ui, x, row) IN Submitting(Do)
    BY <1>3, Zenon DEF Tap
  <2>2. PICK b \in BOOLEAN : ui' = Submitted(TapRow(ui, X(b), row))
    BY <2>1 DEF Submitting, Draw
  <2>3. /\ UNCHANGED <<main, nxp, core, channel, localq, work, next>> /\ Notify({})
        /\ cmdq' = Queued(TapRow(ui, X(FALSE), row))
    BY <2>1 DEF Submitting
  <2>4. ui.page # "SPLASH" /\ Turned(ui, ui')
    BY <1>1, <2>2, TapRowStepped, SubmittedTurns
  <2> QED  BY <1>1, <2>3, <2>4, SubmittingNavigable
<1>4. CASE ToggleSource
  <2>1. PICK s \in Sources, b \in BOOLEAN : ui' = Toggle(ui, X(b), s)
    BY <1>4 DEF ToggleSource, Drawing, Draw
  <2>2. UNCHANGED <<main, nxp, core, channel, cmdq, localq, work, next>> /\ Notify({}) /\ "toggle" \in ui.rows
    BY <1>4 DEF ToggleSource, Drawing
  <2>3. Turned(ui, ui')
    BY <1>1, <2>1, <2>2, CollectionTurns
  <2> QED  BY <1>1, <2>2, <2>3, DrawingNavigable
<1>5. CASE Collect
  <2>1. PICK b \in BOOLEAN : ui' = CollectionBegin(ui, X(b))
    BY <1>5 DEF Collect, Drawing, Draw
  <2>2. UNCHANGED <<main, nxp, core, channel, cmdq, localq, work, next>> /\ Notify({}) /\ "collect" \in ui.rows
    BY <1>5 DEF Collect, Drawing
  <2>3. Turned(ui, ui')
    BY <1>1, <2>1, <2>2, CollectionTurns
  <2> QED  BY <1>1, <2>2, <2>3, DrawingNavigable
<1>6. CASE SkipSource
  <2>1. PICK c \in {"capturing", "error", "ready"}, b \in BOOLEAN : ui' = Skip(ui, X(b), c)
    BY <1>6 DEF SkipSource, Drawing, Draw
  <2>2. UNCHANGED <<main, nxp, core, channel, cmdq, localq, work, next>> /\ Notify({}) /\ "skip" \in ui.rows
    BY <1>6 DEF SkipSource, Drawing
  <2>3. Turned(ui, ui')
    BY <1>1, <2>1, <2>2, CollectionTurns
  <2> QED  BY <1>1, <2>2, <2>3, DrawingNavigable
<1>7. CASE DialogButton
  <2>1. PICK confirmed \in BOOLEAN : LET Do(x) == DialogClicked(ui, x, confirmed) IN Submitting(Do)
    BY <1>7, Zenon DEF DialogButton
  <2>2. PICK b \in BOOLEAN : ui' = Submitted(DialogClicked(ui, X(b), confirmed))
    BY <2>1 DEF Submitting, Draw
  <2>3. /\ UNCHANGED <<main, nxp, core, channel, localq, work, next>> /\ Notify({})
        /\ cmdq' = Queued(DialogClicked(ui, X(FALSE), confirmed))
    BY <2>1 DEF Submitting
  <2>4. ui.dialog # "none"
    BY <1>7, Zenon DEF DialogButton
  <2>5. ui.page # "SPLASH" /\ Turned(ui, ui')
    BY <1>1, <2>2, <2>4, DialogStepped, SubmittedTurns
  <2> QED  BY <1>1, <2>3, <2>5, SubmittingNavigable
<1>8. CASE BackArrow
  <2>1. PICK b \in BOOLEAN : ui' = Back(ui, X(b))
    BY <1>8 DEF BackArrow, Drawing, Draw
  <2>2. UNCHANGED <<main, nxp, core, channel, cmdq, localq, work, next>> /\ Notify({})
    BY <1>8 DEF BackArrow, Drawing
  <2>3. Turned(ui, ui')
    BY <1>2, <2>1, BackTurns
  <2> QED  BY <1>1, <2>2, <2>3, DrawingNavigable
<1>9. CASE Icon
  <2>1. PICK page \in Icons, b \in BOOLEAN : ui' = StatusIcon(ui, X(b), page)
    BY <1>9 DEF Icon, Drawing, Draw
  <2>2. UNCHANGED <<main, nxp, core, channel, cmdq, localq, work, next>> /\ Notify({}) /\ ui.shown # "SPLASH"
    BY <1>9 DEF Icon, Drawing
  <2>3. Turned(ui, ui')
    BY <1>1, <1>2, <2>1, <2>2, StatusIconTurns
  <2> QED  BY <1>1, <2>2, <2>3, DrawingNavigable
<1>10. CASE Field \/ Cancel \/ Submit
  <2>1. ui' \in {KeyboardShow(ui), KeyboardHide(ui), InputSubmit(ui)}
    BY <1>10 DEF Field, Cancel, Submit, Drawing, Draw
  <2>2. UNCHANGED <<main, nxp, core, channel, cmdq, localq, work, next>> /\ Notify({})
    BY <1>10 DEF Field, Cancel, Submit, Drawing
  <2>3. Turned(ui, ui')
    BY <1>1, <2>1, AsyncTurns
  <2> QED  BY <1>1, <2>2, <2>3, DrawingNavigable
<1> QED  BY <1>3, <1>4, <1>5, <1>6, <1>7, <1>8, <1>9, <1>10, Zenon DEF Touch

\* What the display thread deferred or is told by the cameras.
LEMMA LvglNavigable ==
  ASSUME IInv, Navigable, Lvgl
  PROVE  Navigable'
<1>1. main = "run" /\ Sound(ui) /\ CommandsGood
  BY Zenon DEF IInv, Navigable, Screen, Lvgl, Deferred, StartupExpired, CollectorMoves, EntropyTick, Unlocked
<1>2. ui \in Uis /\ Base(ui)
  BY <1>1, ShownPage
<1>3. CASE Deferred
  <2>1. CASE "show" \in ui.async /\ LET Page(x) == ShowDeferred(ui) IN Drawing(Page)
    <3>1. ui' = ShowDeferred(ui) /\ UNCHANGED <<main, nxp, core, channel, cmdq, localq, work, next>> /\ Notify({})
      BY <2>1 DEF Drawing, Draw
    <3>2. Turned(ui, ui')
      BY <1>1, <2>1, <3>1, AsyncTurns
    <3> QED  BY <1>1, <3>1, <3>2, DrawingNavigable
  <2>2. CASE "hide" \in ui.async /\ LET Page(x) == HideDeferred(ui) IN Drawing(Page)
    <3>1. ui' = HideDeferred(ui) /\ UNCHANGED <<main, nxp, core, channel, cmdq, localq, work, next>> /\ Notify({})
      BY <2>2 DEF Drawing, Draw
    <3>2. Turned(ui, ui')
      BY <1>1, <2>2, <3>1, AsyncTurns
    <3> QED  BY <1>1, <3>1, <3>2, DrawingNavigable
  <2>3. CASE "submit" \in ui.async /\ \E text \in {"good", "bad", "empty"} :
               LET Do(x) == InputHandler(ui, x, text) IN Submitting(Do)
    <3>1. PICK text \in {"good", "bad", "empty"} : LET Do(x) == InputHandler(ui, x, text) IN Submitting(Do)
      BY <2>3, Zenon
    <3>2. PICK b \in BOOLEAN : ui' = Submitted(InputHandler(ui, X(b), text))
      BY <3>1 DEF Submitting, Draw
    <3>3. /\ UNCHANGED <<main, nxp, core, channel, localq, work, next>> /\ Notify({})
          /\ cmdq' = Queued(InputHandler(ui, X(FALSE), text))
      BY <3>1 DEF Submitting
    <3>4. ui.page # "SPLASH" /\ Turned(ui, ui')
      BY <1>1, <2>3, <3>2, InputStepped, SubmittedTurns
    <3> QED  BY <1>1, <3>3, <3>4, SubmittingNavigable
  <2> QED  BY <1>3, <2>1, <2>2, <2>3, Zenon DEF Deferred
<1>4. CASE StartupExpired
  <2>1. PICK b \in BOOLEAN : ui' = ShowStartup(ui, X(b))
    BY <1>4 DEF StartupExpired, Draw
  <2>2. UNCHANGED <<main, nxp, core, channel, cmdq, localq, work, next>> /\ Notify({})
    BY <1>4 DEF StartupExpired
  <2>3. Turned(ui, ui')
    BY <1>2, <2>1, ShowStartupTurns DEF Turned, Base
  <2> QED  BY <1>1, <2>2, <2>3, DrawingNavigable
<1>5. CASE CollectorMoves
  <2>1. PICK c \in {"error", "ready"} : ui' = [ui EXCEPT !.collector = c]
    BY <1>5 DEF CollectorMoves
  <2>2. UNCHANGED <<main, nxp, core, channel, cmdq, localq, events, work, next>> /\ ui.collector = "capturing"
    BY <1>5 DEF CollectorMoves, memory, coreVars
  <2>3. ui.session
    BY <1>2, <2>2 DEF Base, Collecting
  <2> DEFINE v == [ui EXCEPT !.collector = c]
  <2>4. Turned(ui, ui')
    <3>1. Sound(v) /\ SamePlace(ui, v)
      BY <1>1, <2>3, Quiet
    <3>2. ui' = v
      BY <2>1
    <3> HIDE DEF v
    <3> QED  BY <3>1, <3>2 DEF Turned, SamePlace
  <2>5. Limits'
    BY <2>2 DEF Navigable, Limits
  <2> QED  BY <1>1, <2>2, <2>4, <2>5, UiNavigable
<1>6. CASE EntropyTick
  <2>1. PICK b \in BOOLEAN : ui' = Tick(ui, X(b))
    BY <1>6 DEF EntropyTick, Drawing, Draw
  <2>2. UNCHANGED <<main, nxp, core, channel, cmdq, localq, work, next>> /\ Notify({})
    BY <1>6 DEF EntropyTick, Drawing
  <2>3. Turned(ui, ui')
    BY <1>1, <2>1, RefreshTurns DEF Tick
  <2> QED  BY <1>1, <2>2, <2>3, DrawingNavigable
<1> QED  BY <1>3, <1>4, <1>5, <1>6, Zenon DEF Lvgl

\* The events of the core, in the order the thread takes them.
LEMMA EventNavigable ==
  ASSUME IInv, Navigable, EventThread
  PROVE  Navigable'
<1>1. Limits /\ Screen /\ Calm /\ {} \in SUBSET Events /\ events \subseteq Events
  BY DEF Navigable, Limits
<1>2. main # "run" => work = {} /\ next = NoConfirmation
  BY <1>1 DEF Screen
<1>3. main = "run" => Sound(ui) /\ ui \in Uis /\ Base(ui)
  BY <1>1, ShownPage DEF Screen
<1>4. CASE Take
  <2>1. main = "run" /\ UNCHANGED <<main, nxp, core, channel, cmdq, localq, ui, next>> /\ work' = events /\ events' = {}
    BY <1>4 DEF Take, memory, coreVars
  <2>2. Turned(ui, ui')
    BY <1>3, <2>1 DEF Turned
  <2>3. Limits'
    BY <1>1, <2>1 DEF Limits
  <2> QED  BY <2>1, <2>2, <2>3, UiNavigable
<1>5. CASE HandleStatus
  <2>1. main = "run"
    BY <1>2, <1>5 DEF HandleStatus
  <2>2. PICK b \in BOOLEAN : ui' = ApplyStatus(ui, X(b), core.walletChan, store.chan)
    BY <1>5 DEF HandleStatus, Draw
  <2>3. core.walletChan \in Wallets /\ store.chan \in {"INITIALIZING", "READY", "ERROR"}
    BY DEF IInv, Memory, Cores, Stores
  <2>4. Turned(ui, ui')
    BY <1>3, <2>1, <2>2, <2>3, StatusTurns
  <2>5. UNCHANGED <<main, nxp, core, channel, cmdq, localq, next>> /\ Notify({}) /\ work' \subseteq work
    BY <1>5 DEF HandleStatus
  <2>6. Limits'
    BY <1>1, <2>5, Notified DEF Limits
  <2> QED  BY <2>1, <2>4, <2>5, <2>6, UiNavigable
<1>6. CASE HandleNetwork
  <2>1. PICK b \in BOOLEAN : ui' = NetworkEvents(ui, X(b))
    BY <1>6 DEF HandleNetwork, Drawing, Draw
  <2>2. main = "run" /\ UNCHANGED <<main, nxp, core, channel, cmdq, localq, work, next>> /\ Notify({})
    BY <1>6 DEF HandleNetwork, Drawing
  <2>3. core.walletChan \in Wallets /\ store.chan \in {"INITIALIZING", "READY", "ERROR"}
    BY DEF IInv, Memory, Cores, Stores
  <2>4. Turned(ui, ui')
    BY <1>3, <2>1, <2>2, <2>3, StatusTurns
  <2> QED  BY <2>2, <2>4, DrawingNavigable
<1>7. CASE HandleLocalResult
  <2>1. /\ UNCHANGED <<main, nxp, core, channel, cmdq, next>> /\ Notify({}) /\ work' \subseteq work
    BY <1>7 DEF HandleLocalResult
  <2>2. main = "run"
    BY <1>2, <1>7 DEF HandleLocalResult
  <2>3. CASE localq = <<>>
    <3>1. UNCHANGED <<localq, ui>>
      BY <1>7, <2>3 DEF HandleLocalResult
    <3>2. Turned(ui, ui')
      BY <1>3, <2>2, <3>1 DEF Turned
    <3>3. Limits'
      BY <1>1, <2>1, <3>1, Notified DEF Limits
    <3> QED  BY <2>1, <2>2, <3>1, <3>2, <3>3, UiNavigable
  <2>4. CASE localq # <<>>
    <3>1. localq' = Tail(localq) /\ \E recovered, b \in BOOLEAN : ui' = HandleResult(ui, X(b), Head(localq), recovered)
      BY <1>7, <2>4 DEF HandleLocalResult, Draw
    <3>2. ui.page # "SPLASH"
      BY <1>1, <2>4 DEF Calm
    <3>3. Turned(ui, ui')
      BY <1>3, <2>2, <3>1, <3>2, ResultTurns
    <3>4. localq' \in Seq(Results) /\ Len(localq') <= QueueDepth
      <4>1. localq \in Seq(Results) /\ Len(localq) \in Nat /\ Len(localq) <= QueueDepth
        BY <1>1, LenProperties DEF Limits
      <4> QED  BY <2>4, <3>1, <4>1, HeadTailProperties, DeviceAssumption
    <3>5. Limits'
      BY <1>1, <2>1, <3>4, Notified DEF Limits
    <3> QED  BY <2>1, <2>2, <3>2, <3>3, <3>5, UiNavigable
  <2> QED  BY <2>3, <2>4
<1>8. CASE ReadConfirmation
  <2>1. UNCHANGED <<main, nxp, core, channel, cmdq, localq, ui, events>> /\ work' = {} /\ next' = channel /\ work # {}
    BY <1>8 DEF ReadConfirmation, memory, coreVars
  <2>2. main = "run" /\ Turned(ui, ui')
    BY <1>2, <1>3, <2>1 DEF Turned
  <2>3. Limits'
    BY <1>1, <2>1 DEF Limits
  <2> QED  BY <2>1, <2>2, <2>3, UiNavigable
<1>9. CASE HandleConfirmation
  <2>1. PICK b \in BOOLEAN : ui' = ApplyConfirmation(ui, X(b), next)
    BY <1>9 DEF HandleConfirmation, Draw
  <2>2. UNCHANGED <<main, nxp, core, channel, cmdq, localq, work>> /\ Notify({}) /\ next # NoConfirmation /\ next' = NoConfirmation
    BY <1>9 DEF HandleConfirmation
  <2>3. main = "run" /\ next.id \in 0..MaxConfirmations
    BY <1>1, <1>2, <2>2 DEF Limits, Confirmations
  <2>4. Turned(ui, ui')
    BY <1>3, <2>1, <2>3, ApplyConfirmationTurns
  <2>5. NoConfirmation \in Confirmations
    BY DeviceAssumption DEF NoConfirmation, Confirmations
  <2>6. Limits'
    BY <1>1, <2>2, <2>5, Notified DEF Limits
  <2> QED  BY <2>2, <2>3, <2>4, <2>6, UiNavigable
<1> QED  BY <1>4, <1>5, <1>6, <1>7, <1>8, <1>9, Zenon DEF EventThread

\* Every step.
LEMMA NextNavigable ==
  ASSUME IInv, Navigable, [Next]_vars
  PROVE  Navigable'
<1>1. CASE UNCHANGED vars
  BY <1>1, Zenon DEF vars, memory, coreVars, uiVars, Navigable, Screen, Limits, Calm, Sound, Base, Trail, Collecting, Offered, Matching
<1> QED  BY <1>1, BootNavigable, CoreStepNavigable, TouchNavigable, LvglNavigable, EventNavigable, Zenon DEF Next

\* What the invariants say of the UI.
LEMMA NavigableIs ==
  ASSUME IInv, Navigable
  PROVE  NavigationSound /\ SetupEnds
<1>1. CASE main = "run"
  <2>1. Sound(ui) /\ ui \in Uis /\ Base(ui) /\ Matching(ui) /\ ui.history \in Seq(Stops)
    BY <1>1, ShownPage DEF Navigable, Screen, Uis
  <2>2. TypeOK
    <3>1. ui.history \in Seq(Pages)
      BY <2>1, SeqMonotonic DEF Stops
    <3>2. /\ ui.wallet \in Wallets /\ ui.confirmation \in 0..MaxConfirmations /\ {ui.page, ui.shown} \subseteq Pages \cup {"NONE"}
          /\ ui.dialog \in Dialogs \cup {"none"} /\ Len(ui.history) <= HistoryDepth
          /\ ui.held \subseteq Secrets /\ ui.sources \subseteq Sources /\ ui.async \subseteq {"show", "hide", "submit"}
          /\ ui.kb \in {"none", "hidden", "open"} /\ ui.collector \in {"idle", "capturing", "error", "ready"}
      BY <2>1 DEF Uis, Base, Trail
    <3>3. {core.wallet, core.walletChan} \subseteq Wallets /\ core.due \in Results /\ core.erasing \in {"no", "element", "flash"}
      BY DEF IInv, Memory, Cores
    <3>4. channel.id \in 0..MaxConfirmations /\ next.id \in 0..MaxConfirmations
      BY DEF Navigable, Limits, Confirmations
    <3> QED  BY <3>1, <3>2, <3>3, <3>4 DEF TypeOK, Navigable, Limits, IInv, Memory, CreditGiven, Wallets, Results, Events
  <2>3. BackLeadsSomewhere /\ ScreenIsPage /\ SetupEnds
    BY <2>1 DEF BackLeadsSomewhere, ScreenIsPage, SetupEnds, SecretsLeave, CollectorOwned, Base, Trail, Matching, Collecting
  <2>4. NothingDead
    <3>1. \A i \in DOMAIN ui.history : ui.history[i] \in Stops
      BY <2>1, LenProperties, ElementOfSeq
    <3> QED  BY <3>1 DEF NothingDead, Stops, Pages, Roots, StatusPages, InputPages
  <2> QED  BY <2>2, <2>3, <2>4 DEF NavigationSound
<1>2. CASE main # "run"
  <2>1. ui = UiStart("Disabled", "INITIALIZING")
    BY <1>2 DEF Navigable, Screen
  <2>2. TypeOK
    <3>1. <<>> \in Seq(Pages) /\ Len(<<>>) <= HistoryDepth /\ 0 \in 0..MaxConfirmations
      BY EmptySeq, UiAssumption, DeviceAssumption
    <3>2. {core.wallet, core.walletChan} \subseteq Wallets /\ core.due \in Results /\ core.erasing \in {"no", "element", "flash"}
      BY DEF IInv, Memory, Cores
    <3>3. channel.id \in 0..MaxConfirmations /\ next.id \in 0..MaxConfirmations
      BY DEF Navigable, Limits, Confirmations
    <3> QED  BY <2>1, <3>1, <3>2, <3>3 DEF TypeOK, UiStart, Navigable, Limits, IInv, Memory, CreditGiven, Wallets, Results, Events
  <2>3. BackLeadsSomewhere /\ ScreenIsPage /\ SetupEnds
    BY <1>2, <2>1 DEF BackLeadsSomewhere, ScreenIsPage, SetupEnds, SecretsLeave, CollectorOwned, UiStart, Clearing
  <2>4. NothingDead
    BY <2>1 DEF NothingDead, UiStart
  <2> QED  BY <2>2, <2>3, <2>4 DEF NavigationSound
<1> QED  BY <1>1, <1>2

\* The screen, the way back and the types, whatever is touched and whatever happens meanwhile (ui.c:106-260).
THEOREM NavigationIsSound == Spec => []NavigationSound
<1>1. Init => IInv /\ Navigable
  BY InitIInv, StartNavigable
<1>2. IInv /\ Navigable /\ [Next]_vars => (IInv /\ Navigable)'
  BY NextIInv, NextNavigable
<1>3. IInv /\ Navigable => NavigationSound
  BY NavigableIs
<1> QED  BY <1>1, <1>2, <1>3, PTL DEF Spec

\* Secrets and collector do not outlive a setup (ui.c:42-71, ui_entropy.c).
THEOREM SetupsEnd == Spec => []SetupEnds
<1>1. Init => IInv /\ Navigable
  BY InitIInv, StartNavigable
<1>2. IInv /\ Navigable /\ [Next]_vars => (IInv /\ Navigable)'
  BY NextIInv, NextNavigable
<1>3. IInv /\ Navigable => SetupEnds
  BY NavigableIs
<1> QED  BY <1>1, <1>2, <1>3, PTL DEF Spec

-----------------------------------------------------------------------------
(* The seed at rest: what the store and the element may make of it.        *)

\* A store that is open says so; t holds no seed that s did not, and is not open where s was not.
Honest(s) == s.ready => s.chan = "READY"
Fewer(s, t) ==
  /\ t.flash["seed"] \in {s.flash["seed"], "none"}
  /\ t.ready => s.ready
  /\ Honest(s) => Honest(t)

\* A failure closes the store and says so.
LEMMA ClosedFewer ==
  ASSUME NEW s \in Stores
  PROVE  /\ Fewer(s, s) /\ Fewer(s, PoweredOff(s))
         /\ \A ret : Fewer(s, RuntimeResult(s, ret).store)
         /\ \A ret \in {EIO, ENODEV} : RuntimeResult(s, ret).ret = ret
         /\ RuntimeResult(s, EIO).store.ready = FALSE /\ RuntimeResult(s, EIO).store.flash = s.flash
<1>1. Fewer(s, s)
  BY DEF Fewer
<1>2. Fewer(s, PoweredOff(s))
  BY DEF Fewer, Honest, PoweredOff, Stores
<1>3. ASSUME NEW ret PROVE Fewer(s, RuntimeResult(s, ret).store)
  <2> DEFINE t == [s EXCEPT !.ready = FALSE, !.chan = "ERROR"]
  <2>1. Fewer(s, t)
    BY DEF Fewer, Honest, Stores
  <2>2. RuntimeResult(s, ret).store = t \/ RuntimeResult(s, ret).store = s
    BY DEF RuntimeResult, Outcome
  <2> HIDE DEF t
  <2> QED  BY <1>1, <2>1, <2>2
<1>4. \A ret \in {EIO, ENODEV} : RuntimeResult(s, ret).ret = ret
  BY DEF RuntimeResult, Outcome
<1>5. RuntimeResult(s, EIO).store.ready = FALSE /\ RuntimeResult(s, EIO).store.flash = s.flash
  <2>1. EIO < 0 /\ EIO # ENOENT
    BY DEF EIO, ENOENT
  <2>2. RuntimeResult(s, EIO).store = [s EXCEPT !.ready = FALSE, !.chan = "ERROR"]
    BY <2>1 DEF RuntimeResult, Outcome
  <2> QED  BY <2>2 DEF Stores
<1> QED  BY <1>1, <1>2, <1>3, <1>4, <1>5

\* A look for an entry adds none, and "no seed" is true.
LEMMA LookFewer ==
  ASSUME NEW s \in Stores, NEW id \in Ids
  PROVE  /\ \A o \in Exists(s, id) : Fewer(s, o.store) /\ (o.ret = 0 => s.flash[id] = "none")
         /\ \A o \in Read(s, id) : Fewer(s, o.store)
         /\ \A o \in SettingsLoad(s) : Fewer(s, o.store)
<1>0. Fewer(s, s) /\ \A ret : Fewer(s, RuntimeResult(s, ret).store)
  BY ClosedFewer
<1>1. ASSUME NEW o \in Exists(s, id) PROVE Fewer(s, o.store) /\ (o.ret = 0 => s.flash[id] = "none")
  <2>1. \/ o = Outcome(s, ENODEV) \/ o = RuntimeResult(s, EIO)
        \/ o = Outcome(s, IF Holds(s, id) THEN 1 ELSE 0)
    BY DEF Exists
  <2>2. CASE o = Outcome(s, ENODEV)
    BY <1>0, <2>2 DEF Outcome, ENODEV
  <2>3. CASE o = RuntimeResult(s, EIO)
    <3>1. o.ret = EIO
      BY <2>3, ClosedFewer
    <3> QED  BY <1>0, <2>3, <3>1 DEF EIO
  <2>4. CASE o = Outcome(s, IF Holds(s, id) THEN 1 ELSE 0)
    BY <1>0, <2>4 DEF Outcome, Holds
  <2> QED  BY <2>1, <2>2, <2>3, <2>4
<1>2. ASSUME NEW o \in Read(s, id) PROVE Fewer(s, o.store)
  <2>1. o = Outcome(s, ENODEV) \/ \E ret : o = RuntimeResult(s, ret)
    BY DEF Read
  <2> QED  BY <1>0, <2>1 DEF Outcome
<1>3. ASSUME NEW o \in SettingsLoad(s) PROVE Fewer(s, o.store)
  BY <1>0 DEF SettingsLoad
<1> QED  BY <1>1, <1>2, <1>3

\* The request for an update is written and deleted beside the seed.
LEMMA RequestFewer ==
  ASSUME NEW s \in Stores
  PROVE  /\ \A o \in Delete(s, "update") : Fewer(s, o.store)
         /\ \A o \in Write(s, "update", "set") : Fewer(s, o.store)
<1>1. ASSUME NEW value \in Values
      PROVE  LET d == [s EXCEPT !.flash["update"] = value] IN d \in Stores /\ Fewer(s, d)
  BY DEF Fewer, Honest, Stores, Ids
<1>2. ASSUME NEW a \in Stores, Fewer(s, a), NEW ret
      PROVE  Fewer(s, RuntimeResult(a, ret).store)
  BY <1>2, ClosedFewer DEF Fewer
<1>3. Fewer(s, s)
  BY ClosedFewer
<1>4. ASSUME NEW o \in Delete(s, "update") PROVE Fewer(s, o.store)
  <2> DEFINE d == [s EXCEPT !.flash["update"] = "none"]
  <2>1. d \in Stores /\ Fewer(s, d)
    BY <1>1 DEF Values
  <2>2. \/ o = Outcome(s, ENODEV) \/ \E ret : o = RuntimeResult(d, ret) \/ o = RuntimeResult(s, ret)
    BY DEF Delete
  <2> HIDE DEF d
  <2> QED  BY <1>2, <1>3, <2>1, <2>2 DEF Outcome
<1>5. ASSUME NEW o \in Write(s, "update", "set") PROVE Fewer(s, o.store)
  <2> DEFINE d == [s EXCEPT !.flash["update"] = "set"]
  <2>1. d \in Stores /\ Fewer(s, d)
    BY <1>1 DEF Values
  <2>2. \/ o = Outcome(s, ENODEV) \/ o = Outcome(d, 0) \/ \E ret : o = RuntimeResult(d, ret) \/ o = RuntimeResult(s, ret)
    BY DEF Write
  <2> HIDE DEF d
  <2> QED  BY <1>2, <1>3, <2>1, <2>2 DEF Outcome
<1> QED  BY <1>4, <1>5

\* An erase leaves the seed or nothing, and a store that is closed; a start reads what there is.
LEMMA EraseFewer ==
  ASSUME NEW s \in Stores
  PROVE  /\ \A o \in EraseFlash(s) : Fewer(s, o.store)
         /\ \A o \in StorageInit(s) : o.store.flash = s.flash /\ Honest(o.store)
<1>1. ASSUME NEW o \in EraseFlash(s) PROVE Fewer(s, o.store)
  <2> DEFINE closed == [s EXCEPT !.ready = FALSE]
             erased == [closed EXCEPT !.flash = EmptyFlash]
  <2>1. \/ o = Outcome(s, ENODEV) \/ o = Outcome(erased, 0)
        \/ o = Outcome([closed EXCEPT !.chan = "ERROR"], EIO) \/ o = Outcome([erased EXCEPT !.chan = "ERROR"], EIO)
    BY DEF EraseFlash
  <2>2. Fewer(s, erased) /\ Fewer(s, [closed EXCEPT !.chan = "ERROR"]) /\ Fewer(s, [erased EXCEPT !.chan = "ERROR"])
    BY DEF Fewer, Honest, Stores, EmptyFlash, Ids
  <2>3. Fewer(s, s)
    BY ClosedFewer
  <2> HIDE DEF closed, erased
  <2> QED  BY <2>1, <2>2, <2>3 DEF Outcome
<1>2. ASSUME NEW o \in StorageInit(s) PROVE o.store.flash = s.flash /\ Honest(o.store)
  <2> DEFINE opened == [s EXCEPT !.fs = TRUE]
  <2>1. s \in Stores /\ opened \in Stores /\ opened.flash = s.flash
    BY DEF Stores
  <2>2. o = InitResult(s, EIO) \/ o = InitResult(opened, 0)
    BY Zenon DEF StorageInit
  <2> HIDE DEF opened
  <2>3. ASSUME NEW t \in Stores, NEW ready \in BOOLEAN, NEW chan, ready => chan = "READY"
        PROVE  [t EXCEPT !.ready = ready, !.chan = chan].flash = t.flash /\ Honest([t EXCEPT !.ready = ready, !.chan = chan])
    BY <2>3 DEF Honest, Stores
  <2>4. ASSUME NEW t \in Stores, NEW ret \in Int
        PROVE  InitResult(t, ret).store.flash = t.flash /\ Honest(InitResult(t, ret).store)
    <3> DEFINE ready == ret >= 0
               chan == IF ret < 0 THEN "ERROR" ELSE "READY"
    <3>1. ready \in BOOLEAN /\ (ready => chan = "READY")
      OBVIOUS
    <3>2. InitResult(t, ret).store = [t EXCEPT !.ready = ready, !.chan = chan]
      BY DEF InitResult, Outcome
    <3> HIDE DEF ready, chan
    <3>3. [t EXCEPT !.ready = ready, !.chan = chan].flash = t.flash /\ Honest([t EXCEPT !.ready = ready, !.chan = chan])
      BY <2>3, <3>1, Zenon
    <3> QED  BY <3>2, <3>3, Zenon
  <2>5. EIO \in Int
    BY DEF EIO
  <2> QED  BY <2>1, <2>2, <2>4, <2>5
<1> QED  BY <1>1, <1>2

\* A seed is written as it is given, or not at all; a write that failed has closed the store.
LEMMA SeedWritten ==
  ASSUME NEW s \in Stores, NEW pin \in {"open", "pin"}, NEW o \in Write(s, "seed", pin)
  PROVE  /\ ~s.ready => o.store = s
         /\ o.store.flash["seed"] \in {s.flash["seed"], pin}
         /\ o.store.ready => s.ready
         /\ Honest(s) => Honest(o.store)
         /\ o.ret = 0 \/ ~o.store.ready
<1> DEFINE d == [s EXCEPT !.flash["seed"] = pin]
<1>1. d \in Stores /\ d.flash["seed"] = pin /\ d.ready = s.ready /\ d.chan = s.chan
  BY DEF Stores, Ids, Values
<1>2. \/ ~s.ready /\ o = Outcome(s, ENODEV)
      \/ s.ready /\ (o = Outcome(d, 0) \/ o = RuntimeResult(d, EIO) \/ o = RuntimeResult(s, EIO))
  BY DEF Write
<1> HIDE DEF d
<1>3. CASE ~s.ready /\ o = Outcome(s, ENODEV)
  BY <1>3 DEF Outcome
<1>4. CASE s.ready /\ o = Outcome(d, 0)
  BY <1>1, <1>4 DEF Outcome, Honest
<1>5. CASE s.ready /\ o = RuntimeResult(d, EIO)
  BY <1>1, <1>5, ClosedFewer DEF Honest
<1>6. CASE s.ready /\ o = RuntimeResult(s, EIO)
  BY <1>6, ClosedFewer DEF Honest
<1> QED  BY <1>2, <1>3, <1>4, <1>5, <1>6

-----------------------------------------------------------------------------
(* The seed at rest: the platform.                                         *)

\* What every call but the one that stores a seed makes of flash and element.
Rests(s, e, f) == Fewer(s, f.store) /\ f.se.chip \in {e.chip, "none"}

\* A look for a seed, a try of the PIN and a refresh store nothing; an erase leaves the element as it was or empty.
LEMMA PlatformRests ==
  ASSUME NEW s \in Stores, NEW e \in Elements, NEW build
  PROVE  /\ \A f \in SeedExists(build, s, e) : Rests(s, e, f)
         /\ \A right : \A f \in UnlockSeed(build, s, e, right) : Rests(s, e, f)
         /\ \A f \in RefreshSeed(build, s, e) : Rests(s, e, f)
         /\ \A a \in NxpErase(e) : a.se.chip \in {e.chip, "none"}
<1>1. Fewer(s, s) /\ "seed" \in Ids
  BY ClosedFewer DEF Ids
<1>2. ASSUME NEW f \in SeedExists(build, s, e) PROVE Rests(s, e, f)
  <2>1. PICK o \in Exists(s, "seed") : f.store = o.store
    BY DEF SeedExists
  <2> QED  BY <1>1, <2>1, LookFewer, SeedExistsKeeps DEF Rests
<1>3. ASSUME NEW right, NEW f \in UnlockSeed(build, s, e, right) PROVE Rests(s, e, f)
  <2>1. \/ f.store = s /\ \E a \in NxpUnlock(e, right) : f.se = a.se
        \/ f.se = e /\ \E o \in Read(s, "seed") : f.store = o.store
    BY DEF UnlockSeed, Effect
  <2>2. ASSUME NEW a \in NxpUnlock(e, right) PROVE a.se.chip = e.chip
    <3>1. PICK g \in Scanned(e) :
            \/ a.se = [g EXCEPT !.scanned = e.scanned]
            \/ \E r \in {"READY", "UNAVAILABLE"} : a.se = [e EXCEPT !.report = r]
      <4>1. PICK g \in Scanned(e) :
              a \in IF g.report # "READY" THEN {Answer([g EXCEPT !.scanned = e.scanned], FALSE)}
                    ELSE {Answer([e EXCEPT !.report = r], FALSE) : r \in {"READY", "UNAVAILABLE"}}
                         \cup (IF right THEN {Answer([e EXCEPT !.report = "READY"], TRUE)} ELSE {})
        BY Zenon DEF NxpUnlock
      <4>2. \/ a = Answer([g EXCEPT !.scanned = e.scanned], FALSE)
            \/ a = Answer([e EXCEPT !.report = "READY"], TRUE)
            \/ \E r \in {"READY", "UNAVAILABLE"} : a = Answer([e EXCEPT !.report = r], FALSE)
        BY <4>1, Zenon
      <4>3. a.se = [g EXCEPT !.scanned = e.scanned] \/ \E r \in {"READY", "UNAVAILABLE"} : a.se = [e EXCEPT !.report = r]
        BY <4>2 DEF Answer
      <4> QED  BY <4>1, <4>3, Zenon
    <3>2. g \in Elements /\ g.chip = e.chip
      BY ScanKeeps
    <3> QED  BY <3>1, <3>2 DEF Elements
  <2> QED  BY <1>1, <2>1, <2>2, LookFewer DEF Rests
<1>4. ASSUME NEW f \in RefreshSeed(build, s, e) PROVE Rests(s, e, f)
  <2>1. \/ f.se = e /\ f.store = s
        \/ \E a \in NxpRefresh(e) : f.se = a.se /\ (f.store = s \/ \E o \in Exists(s, "seed") : f.store = o.store)
    BY DEF RefreshSeed, Effect
  <2>2. \A a \in NxpRefresh(e) : a.se \in Scanned(e)
    BY DEF NxpRefresh, Answer
  <2> QED  BY <1>1, <2>1, <2>2, LookFewer, ScanKeeps DEF Rests
<1>5. ASSUME NEW a \in NxpErase(e) PROVE a.se.chip \in {e.chip, "none"}
  <2>1. \/ a = Answer([e EXCEPT !.scanned = TRUE, !.chip = "none", !.report = "EMPTY"], TRUE)
        \/ \E c \in {e.chip, "none"} :
             a = Answer([e EXCEPT !.scanned = TRUE, !.chip = c, !.report = "UNAVAILABLE"], FALSE)
    BY Zenon DEF NxpErase
  <2>2. \/ a.se = [e EXCEPT !.scanned = TRUE, !.chip = "none", !.report = "EMPTY"]
        \/ \E c \in {e.chip, "none"} : a.se = [e EXCEPT !.scanned = TRUE, !.chip = c, !.report = "UNAVAILABLE"]
    BY <2>1 DEF Answer
  <2> QED  BY <2>2 DEF Elements
<1> QED  BY <1>2, <1>3, <1>4, <1>5

\* The element takes a seed only where the flash has none, and then the flash takes none; without
\* an element the flash takes the seed as it is given, where the store is open.
TakenByElement(s, e, f) == Fewer(s, f.store) /\ (f.se.chip = e.chip \/ s.flash["seed"] = "none")
TakenByFlash(s, e, pin, f) ==
  /\ f.se = e /\ f.store.flash["seed"] \in {s.flash["seed"], pin} /\ (~s.ready => f.store = s)
  /\ (f.store.ready => s.ready) /\ (Honest(s) => Honest(f.store)) /\ (f.ok \/ ~f.store.ready)

\* Setting a seed up is one or the other.
LEMMA InitializeRests ==
  ASSUME NEW s \in Stores, NEW e \in Elements, NEW pin \in {"open", "pin"}
  PROVE  /\ \A f \in InitializeSeed(TRUE, s, e, pin) : TakenByElement(s, e, f)
         /\ \A f \in InitializeSeed(FALSE, s, e, pin) : TakenByFlash(s, e, pin, f)
<1>1. ASSUME NEW f \in InitializeSeed(TRUE, s, e, pin)
      PROVE  TakenByElement(s, e, f)
  <2>1. PICK o \in Exists(s, "seed") : f.store = o.store /\ (f.se = e \/ o.ret = 0)
    BY DEF InitializeSeed, Effect
  <2>2. "seed" \in Ids
    BY DEF Ids
  <2> QED  BY <2>1, <2>2, LookFewer DEF TakenByElement
<1>2. ASSUME NEW f \in InitializeSeed(FALSE, s, e, pin)
      PROVE  TakenByFlash(s, e, pin, f)
  <2>1. PICK o \in Write(s, "seed", pin) : f = Effect(o.store, e, o.ret = 0)
    BY DEF InitializeSeed
  <2>2. f.store = o.store /\ f.se = e /\ (o.ret = 0 => f.ok)
    BY <2>1 DEF Effect
  <2>3. /\ ~s.ready => o.store = s
        /\ o.store.flash["seed"] \in {s.flash["seed"], pin}
        /\ o.store.ready => s.ready
        /\ Honest(s) => Honest(o.store)
        /\ o.ret = 0 \/ ~o.store.ready
    BY SeedWritten
  <2> QED  BY <2>2, <2>3, Zenon DEF TakenByFlash
<1> QED  BY <1>1, <1>2

-----------------------------------------------------------------------------
(* The seed at rest: the way through a setup.                              *)

\* The pages of a setup whose PIN has been entered, and what can be tapped on them.
Flow == {"PIN_CONFIRM", "SOURCE", "IMPORT", "LENGTH", "ENTROPY_METHOD", "ENTROPY", "ENTROPY_SOURCES",
         "ENTROPY_COLLECT", "MNEMONIC", "VERIFY", "PASSPHRASE", "PASSPHRASE_CONFIRM"}
MayTap == Flow \cup {"PIN_NEW", "Generate", "Custom", "Mixed", "norng", "toggle", "collect", "skip", "retry"}
SetupPages == {"SPLASH", "CAPABILITIES", "PIN_NEW"} \cup Flow

\* While nothing is set up: where the UI is and what leads back, what is on the screen, and what
\* waits for the core.  Beyond the first PIN page the PIN is held.
Began(u, page) == page = "PIN_NEW" \/ (page \in Flow /\ "pin" \in u.held)
WaysBack(u) == \A i \in DOMAIN u.history : Began(u, u.history[i]) \/ (i = 1 /\ u.history[i] = "CAPABILITIES")
Place(u) ==
  /\ u.wallet = "Setup" /\ u.storage # "ERROR" /\ u.confirmation = 0
  /\ IF u.page \in {"SPLASH", "CAPABILITIES"} THEN u.history = <<>> ELSE Began(u, u.page)
  /\ WaysBack(u)
Face(u) ==
  /\ u.rows \subseteq MayTap
  /\ u.page \in Flow \/ (u.rows \subseteq {"PIN_NEW"} /\ u.dialog = "none")
  /\ u.dialog \in {"none", "norng"}
  /\ u.kb # "none" => u.rows = {} /\ u.dialog = "none"
Waiting(u) == u.busy => u.page \in Flow /\ "submit" \notin u.async
Setup(u) == Place(u) /\ Face(u) /\ Waiting(u)

\* The pages of a setup are neither roots nor confirmations nor pages of the network.
LEMMA FlowPages ==
  /\ Flow \subseteq Stops /\ "PIN_NEW" \in Stops /\ "SPLASH" \notin Flow /\ "CAPABILITIES" \notin Flow /\ "PIN_NEW" \notin Flow
  /\ Flow \cap (Clearing \cup ActivePages \cup CameraPages \cup Dialogs \cup Plain) = {}
  /\ SetupPages \cap (ActivePages \cup CameraPages \cup {"CONFIRMATION", "NXP", "NONE"}) = {}
  BY DEF Flow, SetupPages, Stops, Pages, Roots, StatusPages, InputPages, Clearing, ActivePages, CameraPages, Dialogs, Plain

\* Where a setup may be, and that beyond the first PIN page the PIN is held.
LEMMA PlacePage ==
  ASSUME NEW u, Place(u)
  PROVE  u.page \in SetupPages /\ (u.page \in Flow => "pin" \in u.held) /\ u.page # "CONFIRMATION"
  BY FlowPages DEF Place, Began, SetupPages

\* Without a secure element each page of a setup offers the next ones, and an input page none.
LEMMA RowsInSetup ==
  ASSUME NEW u, NEW x, ~x.nxp, u.page \in SetupPages
  PROVE  /\ Rows(u, x) \subseteq MayTap
         /\ u.page \notin Flow => Rows(u, x) \subseteq {"PIN_NEW"}
         /\ u.page \in InputPages => Rows(u, x) = {}
<1> USE DEF SetupPages, Flow, MayTap, If, InputPages
<1>1. CASE u.page \in {"SPLASH", "PIN_NEW", "PIN_CONFIRM", "IMPORT", "VERIFY", "PASSPHRASE", "PASSPHRASE_CONFIRM"}
  <2>1. Rows(u, x) = {}
    BY <1>1 DEF Rows
  <2> QED  BY <2>1
<1>2. CASE u.page = "CAPABILITIES"
  <2>1. Rows(u, x) = CapabilitiesRows(u, x)
    BY <1>2 DEF Rows
  <2> QED  BY <1>2, <2>1 DEF CapabilitiesRows, NxpEntry
<1>3. CASE u.page \in {"SOURCE", "LENGTH", "MNEMONIC", "ENTROPY"}
  <2>1. Rows(u, x) \in {SourceRows, LengthRows, MnemonicRows, EntropyRows}
    BY <1>3 DEF Rows
  <2> QED  BY <1>3, <2>1 DEF SourceRows, LengthRows, MnemonicRows, EntropyRows
<1>4. CASE u.page \in {"ENTROPY_METHOD", "ENTROPY_SOURCES"}
  <2>1. Rows(u, x) \in {MethodRows, SourcesRows(u)}
    BY <1>4 DEF Rows
  <2> QED  BY <1>4, <2>1 DEF MethodRows, SourcesRows
<1>5. CASE u.page = "ENTROPY_COLLECT"
  <2>1. Rows(u, x) = CollectRows(u)
    BY <1>5 DEF Rows
  <2>2. Rows(u, x) \subseteq {"skip", "retry", "Mixed"}
    BY <2>1 DEF CollectRows
  <2> QED  BY <1>5, <2>2
<1> QED  BY <1>1, <1>2, <1>3, <1>4, <1>5

\* The place follows from the page, the way back, the states and the PIN.
LEMMA PlaceStays ==
  ASSUME NEW u, NEW v, v.page = u.page, v.history = u.history, v.wallet = u.wallet, v.storage = u.storage,
         v.confirmation = u.confirmation, "pin" \in u.held => "pin" \in v.held
  PROVE  Place(u) => Place(v)
  BY DEF Place, WaysBack, Began

\* The face follows from the page and what is on the screen.
LEMMA FaceStays ==
  ASSUME NEW u, NEW v, v.page = u.page, v.rows = u.rows, v.dialog = u.dialog, v.kb = u.kb
  PROVE  Face(u) => Face(v)
  BY DEF Face

\* A page of a setup is drawn with what leads on.
LEMMA SetupDrawn ==
  ASSUME NEW u \in Uis, Place(u), u.busy => u.page \in Flow, NEW x, ~x.nxp
  PROVE  LET v == Render(u, x) IN Setup(v) /\ v.page = u.page /\ v.busy = u.busy
<1> DEFINE v == Drawn(u, x)
           c == IF u.page \in Clearing THEN Clear(u) ELSE u
<1>1. u.page \in SetupPages /\ Render(u, x) = v
  BY PlacePage DEF Render, CanDraw
<1>2. /\ v.page = u.page /\ v.rows = Rows(c, x)
      /\ v.history = u.history /\ v.async = {} /\ v.busy = u.busy /\ v.confirmation = u.confirmation
      /\ v.kb = IF u.page \in InputPages THEN "hidden" ELSE "none"
      /\ v.dialog = "none" \/ (v.dialog = "key" /\ u.page = "CONFIRMATION")
      /\ v.held = c.held /\ v.wallet = u.wallet /\ v.storage = u.storage
  BY DrawnFields
<1>3. c.page = u.page /\ (u.page \notin Clearing => c = u)
  BY DEF Clear, Uis
<1> HIDE DEF v, c
<1>4. /\ Rows(c, x) \subseteq MayTap
      /\ u.page \notin Flow => Rows(c, x) \subseteq {"PIN_NEW"}
      /\ u.page \in InputPages => Rows(c, x) = {}
  BY <1>1, <1>3, RowsInSetup
<1>5. v.dialog = "none"
  BY <1>2, PlacePage
<1>6. Face(v) /\ Waiting(v)
  BY <1>2, <1>4, <1>5 DEF Face, Waiting
<1>7. Place(v)
  <2>1. CASE u.page \in {"SPLASH", "CAPABILITIES"}
    <3>1. v.history = <<>> /\ DOMAIN v.history = {}
      BY <1>2, <2>1 DEF Place
    <3> QED  BY <1>2, <2>1, <3>1 DEF Place, WaysBack
  <2>2. CASE u.page \notin {"SPLASH", "CAPABILITIES"}
    <3>1. u.page \notin Clearing
      BY <1>1, <2>2, FlowPages DEF SetupPages, Clearing
    <3> QED  BY <1>2, <1>3, <3>1, PlaceStays
  <2> QED  BY <2>1, <2>2
<1> QED  BY <1>1, <1>2, <1>6, <1>7 DEF Setup

\* What leads back after a page is pushed.
LEMMA RememberedBack ==
  ASSUME NEW u \in Uis, Place(u), u.page # "SPLASH", NEW h \in {u.history, Remembered(u)}
  PROVE  h \in Seq(Stops) /\ \A i \in DOMAIN h : Began(u, h[i]) \/ (i = 1 /\ h[i] = "CAPABILITIES")
<1>1. u.history \in Seq(Stops) /\ u.page \in Stops
  <2>1. u.page \in SetupPages
    BY PlacePage
  <2>2. u.page \in Stops
    BY <2>1, FlowPages DEF SetupPages, Stops, Pages, Roots
  <2> QED  BY <2>2 DEF Uis
<1>2. CASE h = u.history
  BY <1>1, <1>2 DEF Place, WaysBack
<1> DEFINE a == Append(u.history, u.page)
<1>3. CASE h = a
  <2>1. /\ a \in Seq(Stops) /\ Len(a) = Len(u.history) + 1 /\ Len(u.history) \in Nat
        /\ \A i \in 1..Len(u.history) : a[i] = u.history[i]
        /\ a[Len(u.history) + 1] = u.page
    BY <1>1, AppendProperties, LenProperties
  <2> HIDE DEF a
  <2>2. ASSUME NEW i \in DOMAIN h PROVE Began(u, h[i]) \/ (i = 1 /\ h[i] = "CAPABILITIES")
    <3>1. i \in 1..(Len(u.history) + 1)
      BY <1>3, <2>1, LenProperties
    <3>2. CASE i \in 1..Len(u.history)
      <4>1. i \in DOMAIN u.history
        BY <1>1, <3>2, LenProperties
      <4> QED  BY <1>3, <2>1, <3>2, <4>1 DEF Place, WaysBack
    <3>3. CASE i = Len(u.history) + 1
      <4>1. h[i] = u.page
        BY <1>3, <2>1, <3>3
      <4>2. CASE u.page = "CAPABILITIES"
        <5>1. u.history = <<>> /\ Len(u.history) = 0
          BY <4>2, EmptySeq DEF Place
        <5> QED  BY <3>3, <4>1, <4>2, <5>1
      <4>3. CASE u.page # "CAPABILITIES"
        BY <4>1, <4>3 DEF Place
      <4> QED  BY <4>2, <4>3
    <3> QED  BY <2>1, <3>1, <3>2, <3>3
  <2> QED  BY <1>3, <2>1, <2>2
<1>4. h = u.history \/ h = a
  BY DEF Remembered
<1> QED  BY <1>2, <1>3, <1>4

\* Leaving a page keeps where the UI is.
LEMMA LeavePlace ==
  ASSUME NEW u \in Uis
  PROVE  LET l == Leave(u)
         IN  /\ l \in Uis /\ l.page = u.page /\ l.history = u.history /\ l.busy = u.busy /\ l.held = u.held
             /\ l.wallet = u.wallet /\ l.storage = u.storage /\ l.confirmation = u.confirmation
<1> DEFINE c == IF u.session THEN "idle" ELSE u.collector
           l == [u EXCEPT !.drawn = "idle", !.session = FALSE, !.collector = c]
<1>1. c \in {"idle", "capturing", "error", "ready"}
  BY DEF Uis
<1>2. Leave(u) = u \/ Leave(u) = l
  BY DEF Leave, Uis
<1> HIDE DEF c
<1>3. /\ l \in Uis /\ l.page = u.page /\ l.history = u.history /\ l.busy = u.busy /\ l.held = u.held
      /\ l.wallet = u.wallet /\ l.storage = u.storage /\ l.confirmation = u.confirmation
  BY <1>1 DEF Uis
<1> HIDE DEF l
<1> QED  BY <1>2, <1>3

\* u with another page and another way back.
Gone(u, page, h) == [Leave(u) EXCEPT !.page = page, !.history = h]

\* A page of the setup is gone to: pushed, or in the place of another.
LEMMA SetupGone ==
  ASSUME NEW u \in Uis, Place(u), u.page # "SPLASH", NEW page, Began(u, page), u.busy => page \in Flow, NEW x, ~x.nxp,
         NEW h \in {u.history, Remembered(u)}
  PROVE  LET v == Render(Gone(u, page, h), x)
         IN  Setup(v) /\ v.page = page /\ v.busy = u.busy
<1> DEFINE l == Leave(u)
           w == [l EXCEPT !.page = page, !.history = h]
<1>1. /\ l \in Uis /\ l.page = u.page /\ l.history = u.history /\ l.busy = u.busy /\ l.held = u.held
      /\ l.wallet = u.wallet /\ l.storage = u.storage /\ l.confirmation = u.confirmation
  BY LeavePlace
<1>2. h \in Seq(Stops) /\ \A i \in DOMAIN h : Began(u, h[i]) \/ (i = 1 /\ h[i] = "CAPABILITIES")
  BY RememberedBack
<1>3. page \in Pages \cup {"NONE"}
  BY FlowPages DEF Began, Stops
<1> HIDE DEF l
<1>4. /\ w \in Uis /\ w.page = page /\ w.history = h /\ w.busy = u.busy /\ w.held = u.held
      /\ w.wallet = u.wallet /\ w.storage = u.storage /\ w.confirmation = u.confirmation
  BY <1>1, <1>2, <1>3 DEF Uis
<1> HIDE DEF w
<1>5. page \notin {"SPLASH", "CAPABILITIES"}
  BY FlowPages DEF Began
<1>6. Place(w)
  BY <1>2, <1>4, <1>5 DEF Place, WaysBack, Began
<1>7. Setup(Render(w, x)) /\ Render(w, x).page = page /\ Render(w, x).busy = u.busy
  BY <1>4, <1>6, SetupDrawn
<1> QED  BY <1>7 DEF Gone, w, l

\* Push and Replace in a setup.
LEMMA SetupPushed ==
  ASSUME NEW u \in Uis, Place(u), u.page # "SPLASH", NEW page, Began(u, page), u.busy => page \in Flow, NEW x, ~x.nxp
  PROVE  /\ LET v == Push(u, x, page) IN u.page # page => Setup(v) /\ v.page = page /\ v.busy = u.busy
         /\ LET v == Replace(u, x, page) IN u.page # page => Setup(v) /\ v.page = page /\ v.busy = u.busy
         /\ u.page = page => Push(u, x, page) = u /\ Replace(u, x, page) = u
<1>1. CASE u.page = page
  BY <1>1 DEF Push, Replace
<1>2. CASE u.page # page
  <2>1. Push(u, x, page) = Render(Gone(u, page, Remembered(u)), x)
    BY <1>2 DEF Push, Gone
  <2>2. Replace(u, x, page) = Render(Gone(u, page, u.history), x)
    <3>1. Leave(u) \in Uis /\ Leave(u).history = u.history
      BY LeavePlace
    <3>2. [Leave(u) EXCEPT !.page = page] = [Leave(u) EXCEPT !.page = page, !.history = u.history]
      BY <3>1 DEF Uis
    <3> QED  BY <1>2, <3>2 DEF Replace, Gone
  <2>3. ASSUME NEW h \in {u.history, Remembered(u)}
        PROVE  LET v == Render(Gone(u, page, h), x) IN Setup(v) /\ v.page = page /\ v.busy = u.busy
    BY SetupGone
  <2>4. /\ Setup(Push(u, x, page)) /\ Push(u, x, page).page = page /\ Push(u, x, page).busy = u.busy
    BY <2>1, <2>3
  <2>5. /\ Setup(Replace(u, x, page)) /\ Replace(u, x, page).page = page /\ Replace(u, x, page).busy = u.busy
    BY <2>2, <2>3
  <2> QED  BY <1>2, <2>4, <2>5
<1> QED  BY <1>1, <1>2

\* Deferred calls come and go in place.
LEMMA AsyncSetup ==
  ASSUME NEW u \in Uis, Setup(u), NEW a, ~u.busy \/ "submit" \notin a
  PROVE  LET v == [u EXCEPT !.async = a] IN Setup(v) /\ v.page = u.page /\ v.busy = u.busy
<1> DEFINE v == [u EXCEPT !.async = a]
<1>1. /\ v.page = u.page /\ v.history = u.history /\ v.wallet = u.wallet /\ v.storage = u.storage /\ v.rows = u.rows
      /\ v.confirmation = u.confirmation /\ v.held = u.held /\ v.dialog = u.dialog /\ v.kb = u.kb /\ v.busy = u.busy
      /\ v.async = a
  BY DEF Uis
<1> HIDE DEF v
<1>2. Place(v) /\ Face(v)
  BY <1>1, PlaceStays, FaceStays DEF Setup
<1>3. Waiting(v)
  BY <1>1 DEF Setup, Waiting
<1> QED  BY <1>1, <1>2, <1>3 DEF Setup, v

\* Back leads through the setup to its start.
LEMMA SetupBack ==
  ASSUME NEW u, Base(u), Setup(u), ~u.busy, NEW x, ~x.nxp
  PROVE  LET v == Back(u, x) IN Setup(v) /\ ~v.busy /\ (v.page = "SPLASH" <=> u.page = "SPLASH")
<1> DEFINE i == Previous(u, x)
           c == IF i < Len(u.history) THEN 0 ELSE u.confirmation
           h == SubSeq(u.history, 1, i - 1)
           l == Leave(u)
           held == u.held \ Wiped(u.page)
<1>1. u \in Uis /\ u.history \in Seq(Stops) /\ Place(u)
  BY DEF Base, Uis, Setup
<1>2. CASE KeyboardTaken(u)
  <2> DEFINE a == (u.async \ {"show"}) \cup If(u.kb = "open", {"hide"})
  <2>1. Back(u, x) = [u EXCEPT !.async = a]
    BY <1>2 DEF Back, KeyboardTaken, KeyboardHide
  <2> HIDE DEF a
  <2> QED  BY <1>1, <2>1, AsyncSetup
<1>3. CASE ~KeyboardTaken(u) /\ u.history = <<>>
  BY <1>3 DEF Back
<1>4. CASE ~KeyboardTaken(u) /\ u.history # <<>>
  <2>1. Len(u.history) \in Nat /\ i \in 1..Len(u.history) /\ i \in DOMAIN u.history
    BY <1>1, <1>4, LenProperties, PreviousIs DEF Base
  <2> DEFINE v == [l EXCEPT !.held = @ \ Wiped(u.page), !.confirmation = IF i < Len(u.history) THEN 0 ELSE @]
             w == [v EXCEPT !.page = u.history[i], !.history = h]
  <2>2. Back(u, x) = Drawn(w, x)
    BY <1>4, <2>1 DEF Back
  <2> HIDE DEF i
  <2>3. u.history[i] \in Stops /\ u.history[i] \in Pages
    BY <1>1, <2>1, ElementOfSeq DEF Stops
  <2>4. Began(u, u.history[i]) \/ (i = 1 /\ u.history[i] = "CAPABILITIES")
    BY <1>1, <2>1 DEF Place, WaysBack
  <2>5. h \in Seq(Stops) /\ Len(h) = i - 1 /\ \A j \in 1..(i - 1) : h[j] = u.history[j]
    <3>1. \A j \in 1..(i - 1) : u.history[j] \in Stops
      BY <1>1, <2>1, ElementOfSeq
    <3>2. /\ h \in Seq(Stops) /\ Len(h) = IF 1 <= i - 1 THEN i - 1 - 1 + 1 ELSE 0
          /\ \A j \in 1..(i - 1 - 1 + 1) : h[j] = u.history[1 + j - 1]
      BY <2>1, <3>1, SubSeqProperties
    <3> HIDE DEF h
    <3> QED  BY <2>1, <3>2
  <2> HIDE DEF h
  <2>6. DOMAIN h = 1..(i - 1) /\ (i = 1 => h = <<>>)
    BY <2>1, <2>5, LenProperties, EmptySeq
  <2>7. \A j \in DOMAIN h : Began(u, h[j]) \/ (j = 1 /\ h[j] = "CAPABILITIES")
    <3>1. DOMAIN u.history = 1..Len(u.history)
      BY <1>1, LenProperties
    <3>2. \A j \in DOMAIN h : j \in DOMAIN u.history /\ h[j] = u.history[j]
      BY <2>1, <2>5, <2>6, <3>1
    <3> QED  BY <1>1, <3>2 DEF Place, WaysBack
  <2>8. /\ l \in Uis /\ l.busy = u.busy /\ l.held = u.held
        /\ l.wallet = u.wallet /\ l.storage = u.storage /\ l.confirmation = u.confirmation
    BY <1>1, LeavePlace
  <2> HIDE DEF l
  <2>9. c = 0 /\ held \in SUBSET Secrets /\ ("pin" \in u.held => "pin" \in held)
    BY <1>1 DEF Place, Uis, Wiped
  <2>10. v = [l EXCEPT !.held = held, !.confirmation = c]
    BY <2>8 DEF Uis
  <2> HIDE DEF held, c, v
  <2>11. /\ v \in Uis /\ v.busy = u.busy /\ v.held = held /\ v.wallet = u.wallet /\ v.storage = u.storage /\ v.confirmation = 0
    <3>1. l \in Uis /\ held \in SUBSET Secrets /\ c \in 0..MaxConfirmations
      BY <2>8, <2>9, DeviceAssumption
    <3>2. [l EXCEPT !.held = held, !.confirmation = c] \in Uis
      BY <3>1 DEF Uis
    <3>3. LET t == [l EXCEPT !.held = held, !.confirmation = c]
          IN  t.busy = l.busy /\ t.held = held /\ t.wallet = l.wallet /\ t.storage = l.storage /\ t.confirmation = c
      BY <3>1 DEF Uis
    <3> QED  BY <2>8, <2>9, <2>10, <3>2, <3>3
  <2>12. /\ w \in Uis /\ w.busy = u.busy /\ w.held = held /\ w.wallet = u.wallet /\ w.storage = u.storage
         /\ w.confirmation = 0 /\ w.page = u.history[i] /\ w.history = h
    BY <2>3, <2>5, <2>11 DEF Uis
  <2> HIDE DEF w
  <2>13. WaysBack(w)
    BY <2>7, <2>9, <2>12 DEF WaysBack, Began
  <2>14. /\ u.history[i] \notin {"SPLASH", "CAPABILITIES"} => Began(w, w.page)
         /\ u.history[i] \in {"SPLASH", "CAPABILITIES"} => h = <<>> /\ u.history[i] = "CAPABILITIES"
    BY <2>4, <2>6, <2>9, <2>12, FlowPages DEF Began
  <2>15. Place(w)
    BY <1>1, <2>12, <2>13, <2>14 DEF Place
  <2>16. Setup(Render(w, x)) /\ Render(w, x).page = w.page /\ Render(w, x).busy = w.busy
    BY <2>12, <2>15, SetupDrawn
  <2>17. Render(w, x) = Drawn(w, x)
    BY <2>15, PlacePage DEF Render, CanDraw
  <2>18. u.page # "SPLASH"
    BY <1>1, <1>4 DEF Place
  <2> QED  BY <2>2, <2>12, <2>14, <2>16, <2>17, <2>18
<1> QED  BY <1>2, <1>3, <1>4

\* The splash screen and the first page after it.
LEMMA SetupOpened ==
  ASSUME NEW u \in Uis, u.wallet = "Setup", u.storage # "ERROR", u.confirmation = 0, ~u.busy,
         NEW page \in {"SPLASH", "CAPABILITIES"}, NEW x, ~x.nxp
  PROVE  /\ Setup(Open(u, x, page)) /\ Open(u, x, page).page = page /\ ~Open(u, x, page).busy
         /\ ShowStartup(u, x) = Open(u, x, "CAPABILITIES")
<1> DEFINE l == IF u.page # page THEN Leave(u) ELSE u
           w == [l EXCEPT !.page = page, !.history = <<>>]
<1>1. /\ l \in Uis /\ l.busy = u.busy
      /\ l.wallet = u.wallet /\ l.storage = u.storage /\ l.confirmation = u.confirmation
  BY LeavePlace
<1>2. Open(u, x, page) = Render(w, x)
  BY DEF Open
<1> HIDE DEF l
<1>3. page \in Pages /\ <<>> \in Seq(Stops)
  BY EmptySeq DEF Pages, Roots
<1>4. /\ w \in Uis /\ w.busy = FALSE /\ w.wallet = "Setup" /\ w.storage # "ERROR" /\ w.confirmation = 0
      /\ w.page = page /\ w.history = <<>>
  <2>1. l \in Uis /\ page \in Pages \cup {"NONE"} /\ <<>> \in Seq(Stops)
    BY <1>1, <1>3
  <2>2. w \in Uis /\ w.busy = l.busy /\ w.wallet = l.wallet /\ w.storage = l.storage /\ w.confirmation = l.confirmation
        /\ w.page = page /\ w.history = <<>>
    BY <2>1 DEF Uis
  <2>3. l.busy = FALSE
    <3>1. u.busy \in BOOLEAN
      BY DEF Uis
    <3> QED  BY <1>1, <3>1
  <2> QED  BY <1>1, <2>2, <2>3
<1> HIDE DEF w
<1>5. Place(w)
  BY <1>4 DEF Place, WaysBack
<1>6. Setup(Render(w, x)) /\ Render(w, x).page = page /\ Render(w, x).busy = FALSE
  BY <1>4, <1>5, SetupDrawn
<1>7. ShowStartup(u, x) = Open(u, x, "CAPABILITIES")
  BY DEF ShowStartup, StartupPage
<1> QED  BY <1>2, <1>6, <1>7

\* The controller of an empty device starts on its splash screen, or where that leads.
LEMMA ControllerSetup ==
  ASSUME NEW t \in BOOLEAN, NEW storage \in {"INITIALIZING", "READY"}, NEW x, ~x.nxp
  PROVE  LET v == ControllerInit(x, "Setup", storage, t)
         IN  Setup(v) /\ ~v.busy /\ (t => v.page = "SPLASH")
<1> DEFINE s == UiStart("Setup", storage)
           u == Open(s, x, "SPLASH")
<1>1. /\ s \in Uis /\ s.wallet = "Setup" /\ s.storage # "ERROR" /\ s.confirmation = 0 /\ ~s.busy
  <2>1. <<>> \in Seq(Stops) /\ 0 \in 0..MaxConfirmations
    BY EmptySeq, DeviceAssumption
  <2> QED  BY <2>1 DEF UiStart, Uis, Wallets
<1>2. Collecting(s) /\ Offered(s)
  BY DEF Collecting, Offered, UiStart
<1> HIDE DEF s
<1>3. Setup(u) /\ u.page = "SPLASH" /\ ~u.busy
  BY <1>1, SetupOpened
<1>4. u \in Uis
  <2>1. "SPLASH" \in Roots
    BY DEF Roots
  <2> QED  BY <1>1, <1>2, <2>1, OpenTurns DEF Sound, Base
<1> HIDE DEF u
<1>5. Setup(ShowStartup(u, x)) /\ ~ShowStartup(u, x).busy
  BY <1>3, <1>4, SetupOpened DEF Setup, Place
<1> QED  BY <1>3, <1>5 DEF ControllerInit, s, u

-----------------------------------------------------------------------------
(* The seed at rest: what is tapped and entered in a setup.                *)

\* v is on u's page with u's screen, and has not lost the PIN.
Kin(u, v) ==
  /\ v.page = u.page /\ v.history = u.history /\ v.wallet = u.wallet /\ v.storage = u.storage
  /\ v.confirmation = u.confirmation /\ v.rows = u.rows /\ v.dialog = u.dialog /\ v.kb = u.kb
  /\ v.async = u.async /\ v.busy = u.busy /\ ("pin" \in u.held => "pin" \in v.held)

\* Kin of a setup is a setup.
LEMMA KinStays ==
  ASSUME NEW u, NEW v, Kin(u, v)
  PROVE  /\ Place(u) => Place(v)
         /\ Setup(u) => Setup(v)
<1>1. (Place(u) => Place(v)) /\ (Face(u) => Face(v))
  BY PlaceStays, FaceStays DEF Kin
<1>2. Waiting(u) => Waiting(v)
  BY DEF Waiting, Kin
<1> QED  BY <1>1, <1>2 DEF Setup

\* What the pages of a setup change beside where they lead.
LEMMA Kins ==
  ASSUME NEW u \in Uis
  PROVE  /\ \A s \in SUBSET Sources : LET v == [u EXCEPT !.sources = s] IN v \in Uis /\ Kin(u, v)
         /\ \A c \in {"idle", "capturing", "error", "ready"} :
              LET v == [u EXCEPT !.collector = c] IN v \in Uis /\ Kin(u, v)
         /\ LET v == [u EXCEPT !.session = TRUE, !.collector = "capturing"] IN v \in Uis /\ Kin(u, v)
         /\ LET v == Generated(u) IN v \in Uis /\ Kin(u, v)
         /\ \A h \in SUBSET Secrets : ("pin" \in u.held => "pin" \in h) =>
              LET v == [u EXCEPT !.held = h] IN v \in Uis /\ Kin(u, v) /\ v.held = h
<1>1. ASSUME NEW s \in SUBSET Sources PROVE LET v == [u EXCEPT !.sources = s] IN v \in Uis /\ Kin(u, v)
  BY DEF Uis, Kin
<1>2. ASSUME NEW c \in {"idle", "capturing", "error", "ready"}
      PROVE  LET v == [u EXCEPT !.collector = c] IN v \in Uis /\ Kin(u, v)
  BY DEF Uis, Kin
<1>3. LET v == [u EXCEPT !.session = TRUE, !.collector = "capturing"] IN v \in Uis /\ Kin(u, v)
  BY DEF Uis, Kin
<1>4. LET v == Generated(u) IN v \in Uis /\ Kin(u, v)
  BY DEF Uis, Kin, Generated
<1>5. ASSUME NEW h \in SUBSET Secrets, "pin" \in u.held => "pin" \in h
      PROVE  LET v == [u EXCEPT !.held = h] IN v \in Uis /\ Kin(u, v) /\ v.held = h
  BY <1>5 DEF Uis, Kin
<1> QED  BY <1>1, <1>2, <1>3, <1>4, <1>5

\* A dialog comes and goes, and the UI waits or goes on.
LEMMA DialogSetup ==
  ASSUME NEW u \in Uis, Setup(u)
  PROVE  /\ LET v == CloseDialog(u)
            IN  v \in Uis /\ Setup(v) /\ v.page = u.page /\ v.busy = u.busy /\ v.async = u.async /\ v.kb = u.kb /\ v.held = u.held
         /\ u.page \in Flow /\ u.kb = "none" =>
              LET v == ShowDialog(u, "norng") IN Setup(v) /\ v.page = u.page /\ v.busy = u.busy
         /\ LET v == [u EXCEPT !.busy = FALSE]
            IN  v \in Uis /\ Setup(v) /\ v.page = u.page /\ v.busy = FALSE /\ v.held = u.held
         /\ u.page \in Flow /\ "submit" \notin u.async => Setup([u EXCEPT !.busy = TRUE])
<1> DEFINE c == CloseDialog(u)
<1>1. /\ c \in Uis /\ c.page = u.page /\ c.history = u.history /\ c.wallet = u.wallet /\ c.storage = u.storage
      /\ c.confirmation = u.confirmation /\ c.rows = u.rows /\ c.dialog = "none" /\ c.kb = u.kb
      /\ c.async = u.async /\ c.busy = u.busy /\ c.held = u.held
  BY DEF CloseDialog, Uis
<1> HIDE DEF c
<1>2. Setup(c)
  BY <1>1 DEF Setup, Place, WaysBack, Began, Face, Waiting
<1>3. ASSUME u.page \in Flow, u.kb = "none"
      PROVE  LET v == ShowDialog(u, "norng") IN Setup(v) /\ v.page = u.page /\ v.busy = u.busy
  <2> DEFINE v == ShowDialog(u, "norng")
  <2>1. /\ v.page = u.page /\ v.history = u.history /\ v.wallet = u.wallet /\ v.storage = u.storage
        /\ v.confirmation = u.confirmation /\ v.rows = u.rows /\ v.dialog = "norng" /\ v.kb = u.kb
        /\ v.async = u.async /\ v.busy = u.busy /\ v.held = u.held
    BY DEF ShowDialog, Uis
  <2> HIDE DEF v
  <2>2. Place(v) /\ Waiting(v)
    BY <2>1 DEF Setup, Place, WaysBack, Began, Waiting
  <2>3. Face(v)
    BY <1>3, <2>1 DEF Setup, Face
  <2> QED  BY <2>1, <2>2, <2>3 DEF Setup, v
<1>4. ASSUME NEW b \in BOOLEAN, b => u.page \in Flow /\ "submit" \notin u.async
      PROVE  LET v == [u EXCEPT !.busy = b] IN v \in Uis /\ Setup(v) /\ v.page = u.page /\ v.busy = b /\ v.held = u.held
  <2> DEFINE v == [u EXCEPT !.busy = b]
  <2>1. /\ v \in Uis /\ v.page = u.page /\ v.history = u.history /\ v.wallet = u.wallet /\ v.storage = u.storage
        /\ v.confirmation = u.confirmation /\ v.rows = u.rows /\ v.dialog = u.dialog /\ v.kb = u.kb
        /\ v.async = u.async /\ v.held = u.held
    BY DEF Uis
  <2>2. v.busy = b
    BY DEF Uis
  <2> HIDE DEF v
  <2>3. Place(v) /\ Face(v)
    BY <2>1, PlaceStays, FaceStays DEF Setup
  <2>4. Waiting(v)
    BY <1>4, <2>1, <2>2 DEF Waiting
  <2> QED  BY <2>1, <2>2, <2>3, <2>4 DEF Setup, v
<1> QED
  <2>1. LET v == [u EXCEPT !.busy = FALSE]
        IN  v \in Uis /\ Setup(v) /\ v.page = u.page /\ v.busy = FALSE /\ v.held = u.held
    BY <1>4
  <2>2. ASSUME u.page \in Flow, "submit" \notin u.async PROVE Setup([u EXCEPT !.busy = TRUE])
    BY <1>4, <2>2
  <2> QED  BY <1>1, <1>2, <1>3, <2>1, <2>2 DEF c

\* A page that is drawn again.
LEMMA SetupRefreshed ==
  ASSUME NEW u \in Uis, Setup(u), NEW v \in Uis, Kin(u, v), NEW x, ~x.nxp
  PROVE  LET w == Refresh(v, x) IN Setup(w) /\ w.page = u.page /\ w.busy = u.busy
<1>1. Place(v) /\ (v.busy => v.page \in Flow) /\ v.page = u.page /\ v.busy = u.busy
  BY KinStays DEF Setup, Waiting, Kin
<1>2. Setup(Render(v, x)) /\ Render(v, x).page = v.page /\ Render(v, x).busy = v.busy
  BY <1>1, SetupDrawn
<1> QED  BY <1>1, <1>2 DEF Refresh

\* What a setup asks of the core: a recovery phrase, or a wallet with the PIN that is held.
Proper(r) == r.req \in {"Generate", "Custom", "Mixed"} \/ (r.req = "InitCustom" /\ r.arg = "pin")
InSetup(step) ==
  /\ Setup(step.u) /\ ~step.u.busy
  /\ step.request = NoRequest \/ (step.u.page \in Flow /\ "submit" \notin step.u.async /\ Proper(step.request))

\* A page that is pushed from one that a setup may be on.
LEMMA PushedInSetup ==
  ASSUME NEW u \in Uis, Setup(u), ~u.busy, u.page # "SPLASH", NEW v \in Uis, Kin(u, v), NEW page, Began(v, page), NEW x, ~x.nxp
  PROVE  /\ Setup(Push(v, x, page)) /\ ~Push(v, x, page).busy
         /\ InSetup(Step(Push(v, x, page), NoRequest))
<1>1. Setup(v) /\ Place(v) /\ ~v.busy /\ v.page # "SPLASH"
  BY KinStays DEF Kin, Setup
<1>2. /\ v.page # page => Setup(Push(v, x, page)) /\ Push(v, x, page).busy = v.busy
      /\ v.page = page => Push(v, x, page) = v
  BY <1>1, SetupPushed
<1>3. Setup(Push(v, x, page)) /\ ~Push(v, x, page).busy
  BY <1>1, <1>2
<1> QED  BY <1>3 DEF InSetup, Step

\* A row of a setup leads on through it, or asks for a recovery phrase.
LEMMA TapInSetup ==
  ASSUME NEW u, Sound(u), Setup(u), ~u.busy, NEW row \in u.rows \ {"toggle", "collect", "skip"}, NEW x, ~x.nxp
  PROVE  u.page # "SPLASH" /\ InSetup(TapRow(u, x, row))
<1>1. u \in Uis /\ Base(u) /\ Matching(u) /\ u.page # "SPLASH"
  BY ShownPage DEF Matching
<1>2. /\ row \in Flow \cup {"PIN_NEW", "Generate", "Custom", "Mixed", "norng", "retry"}
      /\ u.kb = "none" /\ u.async = {}
  BY <1>1 DEF Setup, Face, MayTap, Base, Offered
<1>3. row # "PIN_NEW" => u.page \in Flow
  BY DEF Setup, Face
<1>4. row # "PIN_NEW" => "pin" \in u.held
  BY <1>3, PlacePage DEF Setup
<1>5. Kin(u, u)
  BY DEF Kin
<1>6. CASE row = "norng"
  <2>1. TapRow(u, x, row) = Step(ShowDialog(u, "norng"), NoRequest)
    BY <1>6 DEF TapRow, Plain, Dialogs
  <2>2. Setup(ShowDialog(u, "norng")) /\ ShowDialog(u, "norng").busy = u.busy
    BY <1>1, <1>2, <1>3, <1>6, DialogSetup
  <2> QED  BY <1>1, <2>1, <2>2 DEF InSetup, Step
<1>7. CASE row \in {"Generate", "Custom", "Mixed"}
  <2>1. TapRow(u, x, row) = Step(u, Request(row, "none", 0))
    BY <1>7 DEF TapRow, Plain, Dialogs
  <2> QED  BY <1>1, <1>2, <1>3, <1>7, <2>1 DEF InSetup, Step, Request, Proper
<1>8. CASE row \in Flow \cup {"PIN_NEW", "retry"}
  <2>1. row \notin Dialogs \cup Plain \cup {"Approve", "Reject", "privacy"}
    BY <1>8 DEF Dialogs, Plain, Flow
  <2>2. TapRow(u, x, row) = Step(LocalRow(u, x, row), NoRequest)
    BY <2>1 DEF TapRow
  <2>3. CASE row = "ENTROPY_SOURCES"
    <3> DEFINE v == [u EXCEPT !.sources = Sources]
    <3>1. v \in Uis /\ Kin(u, v)
      BY <1>1, Kins
    <3>2. LocalRow(u, x, row) = Push(v, x, row)
      BY <2>3 DEF LocalRow
    <3> HIDE DEF v
    <3>3. Began(v, row)
      BY <1>4, <2>3, <3>1 DEF Began, Flow, Kin
    <3>4. InSetup(Step(Push(v, x, row), NoRequest))
      BY <1>1, <3>1, <3>3, PushedInSetup
    <3> QED  BY <1>1, <2>2, <3>2, <3>4
  <2>4. CASE row = "retry"
    <3> DEFINE v == [u EXCEPT !.collector = "capturing"]
    <3>1. v \in Uis /\ Kin(u, v)
      BY <1>1, Kins
    <3>2. LocalRow(u, x, row) = Refresh(v, x)
      BY <2>4 DEF LocalRow
    <3> HIDE DEF v
    <3>3. Setup(Refresh(v, x)) /\ Refresh(v, x).busy = u.busy
      BY <1>1, <3>1, SetupRefreshed
    <3> QED  BY <1>1, <2>2, <3>2, <3>3 DEF InSetup, Step
  <2>5. CASE row \notin {"ENTROPY_SOURCES", "retry"}
    <3>1. LocalRow(u, x, row) = Push(u, x, row)
      BY <2>1, <2>5 DEF LocalRow
    <3>2. Began(u, row)
      BY <1>4, <1>8, <2>5 DEF Began
    <3>3. InSetup(Step(Push(u, x, row), NoRequest))
      BY <1>1, <1>5, <3>2, PushedInSetup
    <3> QED  BY <1>1, <2>2, <3>1, <3>3
  <2> QED  BY <2>3, <2>4, <2>5
<1> QED  BY <1>2, <1>6, <1>7, <1>8

\* The only dialog of a setup leads on to the length of the phrase.
LEMMA DialogInSetup ==
  ASSUME NEW u, Sound(u), Setup(u), ~u.busy, u.dialog # "none", NEW confirmed \in BOOLEAN, NEW x, ~x.nxp
  PROVE  u.page # "SPLASH" /\ InSetup(DialogClicked(u, x, confirmed))
<1>1. u \in Uis /\ Matching(u) /\ u.page # "SPLASH"
  BY ShownPage DEF Matching
<1>2. u.dialog = "norng" /\ u.page \in Flow /\ "pin" \in u.held
  BY PlacePage DEF Setup, Face
<1> DEFINE v == CloseDialog(u)
<1>3. v \in Uis /\ Setup(v) /\ v.page = u.page /\ v.busy = u.busy /\ v.held = u.held
  BY <1>1, DialogSetup
<1>4. DialogClicked(u, x, confirmed) \in {Step(v, NoRequest), Step(Push(v, x, "LENGTH"), NoRequest)}
  BY <1>2 DEF DialogClicked, DialogAction
<1> HIDE DEF v
<1>5. InSetup(Step(v, NoRequest))
  BY <1>3 DEF InSetup, Step
<1>6. Began(v, "LENGTH") /\ Kin(v, v)
  BY <1>2, <1>3 DEF Began, Flow, Kin
<1>7. InSetup(Step(Push(v, x, "LENGTH"), NoRequest))
  BY <1>1, <1>3, <1>6, PushedInSetup
<1> QED  BY <1>1, <1>4, <1>5, <1>7

\* What is entered on a page of a setup.
LEMMA CurrentInSetup ==
  ASSUME NEW u \in Uis, Setup(u), ~u.busy, u.page \in InputPages, "submit" \notin u.async, NEW text, NEW x, ~x.nxp
  PROVE  InSetup(CurrentInput(u, x, text))
<1> DEFINE Kept(what) == [u EXCEPT !.held = IF text = "empty" THEN @ \ {what} ELSE @ \cup {what}]
<1>1. /\ u.page \in {"PIN_NEW", "PIN_CONFIRM", "IMPORT", "VERIFY", "PASSPHRASE", "PASSPHRASE_CONFIRM"}
      /\ u.page # "PIN_NEW" => u.page \in Flow /\ "pin" \in u.held
      /\ u.page # "SPLASH"
  BY PlacePage DEF Setup, SetupPages, Flow, InputPages
<1>2. ASSUME NEW what \in Secrets, what # "pin" \/ text # "empty"
      PROVE  /\ Kept(what) \in Uis /\ Kin(u, Kept(what))
             /\ text # "empty" => what \in Kept(what).held
  <2> DEFINE h == IF text = "empty" THEN u.held \ {what} ELSE u.held \cup {what}
  <2>1. h \in SUBSET Secrets /\ ("pin" \in u.held => "pin" \in h) /\ (text # "empty" => what \in h)
    BY <1>2 DEF Uis
  <2>2. Kept(what) = [u EXCEPT !.held = h]
    BY DEF Uis
  <2> HIDE DEF h
  <2>3. [u EXCEPT !.held = h] \in Uis /\ Kin(u, [u EXCEPT !.held = h]) /\ [u EXCEPT !.held = h].held = h
    BY <2>1, Kins
  <2> HIDE DEF Kept
  <2> QED  BY <2>1, <2>2, <2>3
<1>3. ASSUME NEW page, NEW v \in Uis, Kin(u, v), Began(v, page)
      PROVE  InSetup(Step(Push(v, x, page), NoRequest))
  BY <1>1, <1>3, PushedInSetup
<1>4. InSetup(Step(u, NoRequest)) /\ Kin(u, u)
  BY DEF InSetup, Step, Kin
<1>5. Secrets = {"pin", "mnemonic", "passphrase"}
  BY DEF Secrets
<1>6. CASE u.page = "PIN_NEW"
  <2>1. CASE text = "good"
    <3>1. Kept("pin") \in Uis /\ Kin(u, Kept("pin")) /\ "pin" \in Kept("pin").held
      BY <1>2, <1>5, <2>1
    <3>2. CurrentInput(u, x, text) = Step(Push(Kept("pin"), x, "PIN_CONFIRM"), NoRequest)
      BY <1>6, <2>1 DEF CurrentInput
    <3> HIDE DEF Kept
    <3>3. Began(Kept("pin"), "PIN_CONFIRM")
      BY <3>1 DEF Began, Flow
    <3> QED  BY <1>3, <3>1, <3>2, <3>3
  <2>2. CASE text # "good"
    BY <1>4, <1>6, <2>2 DEF CurrentInput
  <2> QED  BY <2>1, <2>2
<1>7. CASE u.page \in {"PIN_CONFIRM", "VERIFY"}
  <2>1. InSetup(Step(Push(u, x, "SOURCE"), NoRequest)) /\ InSetup(Step(Push(u, x, "PASSPHRASE"), NoRequest))
    BY <1>1, <1>3, <1>4, <1>7 DEF Began, Flow
  <2> QED  BY <1>4, <1>7, <2>1 DEF CurrentInput
<1>8. CASE u.page = "IMPORT"
  <2>1. Kept("mnemonic") \in Uis /\ Kin(u, Kept("mnemonic"))
    BY <1>2, <1>5
  <2>2. CurrentInput(u, x, text) = Step(Push(Kept("mnemonic"), x, "PASSPHRASE"), NoRequest)
    BY <1>8 DEF CurrentInput
  <2> HIDE DEF Kept
  <2>3. Began(Kept("mnemonic"), "PASSPHRASE")
    BY <1>1, <1>8, <2>1 DEF Began, Flow, Kin
  <2> QED  BY <1>3, <2>1, <2>2, <2>3
<1>9. CASE u.page = "PASSPHRASE"
  <2>1. Kept("passphrase") \in Uis /\ Kin(u, Kept("passphrase"))
    BY <1>2, <1>5
  <2>2. CurrentInput(u, x, text) \in {SubmitWallet(Kept("passphrase")),
                                      Step(Push(Kept("passphrase"), x, "PASSPHRASE_CONFIRM"), NoRequest)}
    BY <1>9 DEF CurrentInput
  <2> HIDE DEF Kept
  <2>3. "pin" \in Kept("passphrase").held
    BY <1>1, <1>9, <2>1 DEF Kin
  <2>4. Began(Kept("passphrase"), "PASSPHRASE_CONFIRM")
    BY <2>3 DEF Began, Flow
  <2>5. Setup(Kept("passphrase")) /\ ~Kept("passphrase").busy /\ Kept("passphrase").page \in Flow /\ "submit" \notin Kept("passphrase").async
    BY <1>1, <1>9, <2>1, KinStays DEF Kin
  <2>6. InSetup(SubmitWallet(Kept("passphrase")))
    BY <2>3, <2>5 DEF InSetup, SubmitWallet, Step, Request, Proper
  <2> QED  BY <1>3, <2>1, <2>2, <2>4, <2>6
<1>10. CASE u.page = "PASSPHRASE_CONFIRM"
  <2>1. InSetup(SubmitWallet(u))
    BY <1>1, <1>10 DEF InSetup, SubmitWallet, Step, Request, Proper
  <2> QED  BY <1>4, <1>10, <2>1 DEF CurrentInput
<1> QED  BY <1>1, <1>6, <1>7, <1>8, <1>9, <1>10

\* A deferred submission in a setup: the UI does not wait for the core when it runs.
LEMMA InputInSetup ==
  ASSUME NEW u, Sound(u), Setup(u), "submit" \in u.async, NEW text, NEW x, ~x.nxp
  PROVE  u.page # "SPLASH" /\ ~u.busy /\ InSetup(InputHandler(u, x, text))
<1>1. u \in Uis /\ Base(u) /\ Matching(u) /\ u.page # "CONFIRMATION" /\ u.busy \in BOOLEAN
  BY ShownPage, PlacePage DEF Setup, Uis
<1>2. u.kb # "none" /\ u.shown = u.page /\ u.page \in InputPages /\ u.page # "SPLASH"
  BY <1>1 DEF Matching, Base, Offered
<1>3. u.page # "WIFI_PASSWORD"
  BY PlacePage DEF Setup, SetupPages, Flow
<1>4. ~u.busy
  BY <1>1 DEF Setup, Waiting
<1> DEFINE a == ((u.async \ {"submit"}) \ {"show"}) \cup If(u.kb = "open", {"hide"})
           s == [u EXCEPT !.async = u.async \ {"submit"}]
           v == [u EXCEPT !.async = a]
<1>5. SubmitDeferred(u) = v
  <2>1. s.kb = u.kb /\ s.async = u.async \ {"submit"}
    BY <1>1 DEF Uis
  <2>2. KeyboardHide(s) = [s EXCEPT !.async = (s.async \ {"show"}) \cup If(s.kb = "open", {"hide"})]
    BY <1>1, <1>2, <2>1 DEF KeyboardHide, Uis
  <2>3. [s EXCEPT !.async = (s.async \ {"show"}) \cup If(s.kb = "open", {"hide"})] = [s EXCEPT !.async = a]
    BY <2>1
  <2>4. [s EXCEPT !.async = a] = v
    BY <1>1 DEF Uis
  <2> QED  BY <2>2, <2>3, <2>4 DEF SubmitDeferred
<1>6. a \in SUBSET {"show", "hide", "submit"} /\ "submit" \notin a
  BY <1>1 DEF Uis, If
<1> HIDE DEF a
<1>7. v \in Uis /\ v.async = a /\ v.page = u.page
  BY <1>1, <1>6 DEF Uis
<1>8. Setup(v) /\ v.busy = u.busy
  BY <1>1, <1>4, AsyncSetup
<1> HIDE DEF v
<1>9. InSetup(CurrentInput(v, x, text))
  BY <1>2, <1>4, <1>6, <1>7, <1>8, CurrentInSetup
<1> QED  BY <1>2, <1>3, <1>4, <1>5, <1>9 DEF InputHandler

\* What is submitted does not depend on what the page reads while it is drawn.
LEMMA SameRequest ==
  ASSUME NEW u, NEW x, NEW y
  PROVE  /\ \A row : TapRow(u, x, row).request = TapRow(u, y, row).request
         /\ \A confirmed : DialogClicked(u, x, confirmed).request = DialogClicked(u, y, confirmed).request
         /\ \A text : InputHandler(u, x, text).request = InputHandler(u, y, text).request
<1>1. ASSUME NEW row PROVE TapRow(u, x, row).request = TapRow(u, y, row).request
  <2>1. CASE row \in Dialogs \cup Plain \cup {"Approve", "Reject"}
    <3>1. TapRow(u, x, row) = TapRow(u, y, row)
      BY <2>1 DEF TapRow, Dialogs, Plain
    <3> QED  BY <3>1
  <2>2. CASE row \notin Dialogs \cup Plain \cup {"Approve", "Reject"}
    <3>1. TapRow(u, x, row) = Step(LocalRow(u, x, row), NoRequest) /\ TapRow(u, y, row) = Step(LocalRow(u, y, row), NoRequest)
      BY <2>2 DEF TapRow
    <3> QED  BY <3>1 DEF Step
  <2> QED  BY <2>1, <2>2
<1>2. ASSUME NEW confirmed, NEW v, NEW d
      PROVE  DialogAction(v, x, d).request = DialogAction(v, y, d).request
  <2>1. CASE d = "norng"
    BY <2>1 DEF DialogAction, Step
  <2>2. CASE d # "norng"
    <3>1. DialogAction(v, x, d) = DialogAction(v, y, d)
      BY <2>2 DEF DialogAction
    <3> QED  BY <3>1
  <2> QED  BY <2>1, <2>2
<1>3. ASSUME NEW confirmed PROVE DialogClicked(u, x, confirmed).request = DialogClicked(u, y, confirmed).request
  BY <1>2 DEF DialogClicked
<1>4. ASSUME NEW v, NEW text PROVE CurrentInput(v, x, text).request = CurrentInput(v, y, text).request
  <2>1. \A w, z : Step(w, NoRequest).request = Step(z, NoRequest).request
    BY DEF Step
  <2>2. CASE v.page \in {"PIN_NEW", "PIN_CONFIRM", "IMPORT", "VERIFY"}
    <3>1. (\E w : CurrentInput(v, x, text) = Step(w, NoRequest)) /\ \E w : CurrentInput(v, y, text) = Step(w, NoRequest)
      BY <2>2 DEF CurrentInput
    <3> QED  BY <2>1, <3>1
  <2>3. CASE v.page = "PASSPHRASE"
    <3>1. CASE text = "empty"
      <4>1. CurrentInput(v, x, text) = CurrentInput(v, y, text)
        BY <2>3, <3>1 DEF CurrentInput
      <4> QED  BY <4>1
    <3>2. CASE text # "empty"
      <4>1. (\E w : CurrentInput(v, x, text) = Step(w, NoRequest)) /\ \E w : CurrentInput(v, y, text) = Step(w, NoRequest)
        BY <2>3, <3>2 DEF CurrentInput
      <4> QED  BY <2>1, <4>1
    <3> QED  BY <3>1, <3>2
  <2>4. CASE v.page \notin {"PIN_NEW", "PIN_CONFIRM", "IMPORT", "VERIFY", "PASSPHRASE"}
    <3>1. CurrentInput(v, x, text) = CurrentInput(v, y, text)
      BY <2>4 DEF CurrentInput
    <3> QED  BY <3>1
  <2> QED  BY <2>2, <2>3, <2>4
<1>5. ASSUME NEW text PROVE InputHandler(u, x, text).request = InputHandler(u, y, text).request
  BY <1>4 DEF InputHandler, WifiPassword, Step
<1> QED  BY <1>1, <1>3, <1>5

\* What the steps that ask the core nothing make of a setup: it goes on, and the splash screen stays.
Goes(u, v) == Setup(v) /\ v.busy = u.busy /\ (u.page = "SPLASH" => v.page = "SPLASH")

\* The keyboard, and its deferred calls.
LEMMA KeyboardGoes ==
  ASSUME NEW u \in Uis, Setup(u)
  PROVE  /\ Goes(u, KeyboardShow(u)) /\ Goes(u, KeyboardHide(u)) /\ Goes(u, ShowDeferred(u)) /\ Goes(u, HideDeferred(u))
         /\ ~u.busy => Goes(u, InputSubmit(u))
<1>1. Goes(u, u)
  BY DEF Goes
<1>2. ASSUME NEW a, ~u.busy \/ "submit" \notin a PROVE Goes(u, [u EXCEPT !.async = a])
  BY <1>2, AsyncSetup DEF Goes
<1>3. ASSUME NEW a, ~u.busy \/ "submit" \notin a, NEW kb \in {"hidden", "open"}, u.kb # "none"
      PROVE  Goes(u, [u EXCEPT !.async = a, !.kb = kb])
  <2> DEFINE v == [u EXCEPT !.async = a, !.kb = kb]
  <2>1. /\ v.page = u.page /\ v.history = u.history /\ v.wallet = u.wallet /\ v.storage = u.storage /\ v.rows = u.rows
        /\ v.confirmation = u.confirmation /\ v.held = u.held /\ v.dialog = u.dialog /\ v.kb = kb /\ v.busy = u.busy
        /\ v.async = a
    BY DEF Uis
  <2> HIDE DEF v
  <2>2. Place(v) /\ Waiting(v)
    BY <1>3, <2>1, PlaceStays DEF Setup, Waiting
  <2>3. Face(v)
    BY <1>3, <2>1 DEF Setup, Face
  <2> QED  BY <2>1, <2>2, <2>3 DEF Goes, Setup, v
<1>4. u.busy \in BOOLEAN /\ (~u.busy \/ "submit" \notin u.async)
  BY DEF Setup, Waiting, Uis
<1>5. Goes(u, KeyboardShow(u))
  <2>1. ~u.busy \/ "submit" \notin (u.async \ {"hide"}) \cup {"show"}
    BY <1>4
  <2>2. KeyboardShow(u) = u \/ KeyboardShow(u) = [u EXCEPT !.async = (u.async \ {"hide"}) \cup {"show"}]
    BY DEF KeyboardShow, Uis
  <2> QED  BY <1>1, <1>2, <2>1, <2>2
<1>6. Goes(u, KeyboardHide(u))
  <2>1. ~u.busy \/ "submit" \notin (u.async \ {"show"}) \cup If(u.kb = "open", {"hide"})
    BY <1>4 DEF If
  <2>2. KeyboardHide(u) = u \/ KeyboardHide(u) = [u EXCEPT !.async = (u.async \ {"show"}) \cup If(u.kb = "open", {"hide"})]
    BY DEF KeyboardHide, Uis
  <2> QED  BY <1>1, <1>2, <2>1, <2>2
<1>7. Goes(u, ShowDeferred(u)) /\ Goes(u, HideDeferred(u))
  <2>1. /\ ShowDeferred(u) = [u EXCEPT !.async = u.async \ {"show"}]
           \/ (u.kb = "hidden" /\ ShowDeferred(u) = [u EXCEPT !.async = u.async \ {"show"}, !.kb = "open"])
        /\ HideDeferred(u) = [u EXCEPT !.async = u.async \ {"hide"}]
           \/ (u.kb = "open" /\ HideDeferred(u) = [u EXCEPT !.async = u.async \ {"hide"}, !.kb = "hidden"])
    BY DEF ShowDeferred, HideDeferred, Uis
  <2> QED  BY <1>2, <1>3, <1>4, <2>1
<1>8. ASSUME ~u.busy PROVE Goes(u, InputSubmit(u))
  <2>1. InputSubmit(u) = u \/ InputSubmit(u) = [u EXCEPT !.async = u.async \cup {"submit"}]
    BY DEF InputSubmit, Uis
  <2> QED  BY <1>1, <1>2, <1>8, <2>1
<1> QED  BY <1>5, <1>6, <1>7, <1>8

\* Navigation, and the collection of a setup.
LEMMA PagesGo ==
  ASSUME NEW u, Sound(u), Setup(u), NEW x, ~x.nxp
  PROVE  /\ Goes(u, Tick(u, x)) /\ Goes(u, NetworkEvents(u, x))
         /\ \A page : Goes(u, StatusIcon(u, x, page))
         /\ ~u.busy => Goes(u, Back(u, x))
         /\ "toggle" \in u.rows => \A s \in Sources : Goes(u, Toggle(u, x, s))
         /\ "collect" \in u.rows /\ ~u.busy => Goes(u, CollectionBegin(u, x))
         /\ \A c \in {"capturing", "error", "ready"} : Goes(u, Skip(u, x, c)) /\ Goes(u, [u EXCEPT !.collector = c])
<1>1. u \in Uis /\ Base(u) /\ Matching(u) /\ Goes(u, u) /\ Kin(u, u)
  BY ShownPage DEF Goes, Kin
<1>2. ASSUME NEW v \in Uis, Kin(u, v) PROVE Goes(u, Refresh(v, x))
  BY <1>1, <1>2, SetupRefreshed DEF Goes
<1>3. Goes(u, Tick(u, x))
  BY <1>1, <1>2 DEF Tick
<1>4. Goes(u, NetworkEvents(u, x))
  <2>1. u.page \notin ActivePages
    BY PlacePage, FlowPages DEF Setup
  <2> QED  BY <1>1, <2>1 DEF NetworkEvents
<1>5. ASSUME NEW page PROVE Goes(u, StatusIcon(u, x, page))
  <2>1. StatusIcon(u, x, page) = u
    BY DEF Setup, Place, StatusIcon
  <2> QED  BY <1>1, <2>1
<1>6. ASSUME ~u.busy PROVE Goes(u, Back(u, x))
  <2>1. Setup(Back(u, x)) /\ ~Back(u, x).busy /\ (Back(u, x).page = "SPLASH" <=> u.page = "SPLASH")
    BY <1>1, <1>6, SetupBack
  <2>2. Back(u, x).busy \in BOOLEAN /\ u.busy \in BOOLEAN
    <3>1. Back(u, x) \in Uis
      BY <1>1, BackTurns DEF Turned, Sound, Base
    <3> QED  BY <1>1, <3>1 DEF Uis
  <2> QED  BY <1>6, <2>1, <2>2 DEF Goes
<1>7. ASSUME NEW s \in Sources PROVE Goes(u, Toggle(u, x, s))
  <2> DEFINE t == IF s \in u.sources THEN u.sources \ {s} ELSE u.sources \cup {s}
  <2>1. t \in SUBSET Sources
    BY <1>1 DEF Uis
  <2>2. Toggle(u, x, s) = Refresh([u EXCEPT !.sources = t], x)
    BY <1>1 DEF Toggle, Uis
  <2> HIDE DEF t
  <2>3. [u EXCEPT !.sources = t] \in Uis /\ Kin(u, [u EXCEPT !.sources = t])
    BY <1>1, <2>1, Kins
  <2> QED  BY <1>2, <2>2, <2>3
<1>8. ASSUME "collect" \in u.rows, ~u.busy PROVE Goes(u, CollectionBegin(u, x))
  <2>1. u.page \in Flow /\ u.page # "SPLASH" /\ "pin" \in u.held
    BY <1>8, PlacePage, FlowPages DEF Setup, Face
  <2> DEFINE v == [u EXCEPT !.session = TRUE, !.collector = "capturing"]
  <2>2. v \in Uis /\ Kin(u, v)
    BY <1>1, Kins
  <2>3. CollectionBegin(u, x) = u \/ CollectionBegin(u, x) = Push(v, x, "ENTROPY_COLLECT")
    BY DEF CollectionBegin
  <2> HIDE DEF v
  <2>4. Began(v, "ENTROPY_COLLECT")
    BY <2>1, <2>2 DEF Began, Flow, Kin
  <2>5. Setup(Push(v, x, "ENTROPY_COLLECT")) /\ ~Push(v, x, "ENTROPY_COLLECT").busy
    BY <1>1, <1>8, <2>1, <2>2, <2>4, PushedInSetup
  <2>6. Setup(v) /\ Place(v) /\ v.page # "SPLASH" /\ v.busy = u.busy
    BY <2>1, <2>2, KinStays DEF Kin, Setup
  <2>7. Push(v, x, "ENTROPY_COLLECT").busy = u.busy
    BY <2>2, <2>4, <2>6, <1>8, SetupPushed
  <2> QED  BY <1>1, <2>1, <2>3, <2>5, <2>7 DEF Goes
<1>9. ASSUME NEW c \in {"capturing", "error", "ready"} PROVE Goes(u, Skip(u, x, c)) /\ Goes(u, [u EXCEPT !.collector = c])
  <2>1. [u EXCEPT !.collector = c] \in Uis /\ Kin(u, [u EXCEPT !.collector = c])
    BY <1>1, Kins
  <2>2. Goes(u, [u EXCEPT !.collector = c])
    <3> DEFINE v == [u EXCEPT !.collector = c]
    <3>1. v \in Uis /\ Kin(u, v)
      BY <2>1
    <3> HIDE DEF v
    <3>2. Goes(u, v)
      BY <3>1, KinStays DEF Goes, Kin
    <3> QED  BY <3>2 DEF v
  <2> QED  BY <1>2, <2>1, <2>2 DEF Skip
<1> QED  BY <1>3, <1>4, <1>5, <1>6, <1>7, <1>8, <1>9

\* A status that still tells of no wallet.
LEMMA StatusGoes ==
  ASSUME NEW u \in Uis, Setup(u), NEW storage \in {"INITIALIZING", "READY"}, NEW x, ~x.nxp
  PROVE  Goes(u, ApplyStatus(u, x, "Setup", storage))
<1> DEFINE v == [u EXCEPT !.wallet = "Setup", !.storage = storage]
<1>1. u.page \notin ActivePages
  BY PlacePage, FlowPages DEF Setup
<1>2. ApplyStatus(u, x, "Setup", storage) = v
  BY <1>1 DEF ApplyStatus
<1>3. /\ v.page = u.page /\ v.history = u.history /\ v.wallet = "Setup" /\ v.storage = storage /\ v.rows = u.rows
      /\ v.confirmation = u.confirmation /\ v.held = u.held /\ v.dialog = u.dialog /\ v.kb = u.kb /\ v.busy = u.busy
      /\ v.async = u.async
  BY DEF Uis
<1> HIDE DEF v
<1>4. Place(v)
  BY <1>3 DEF Setup, Place, WaysBack, Began
<1>5. Face(v) /\ Waiting(v)
  BY <1>3, FaceStays DEF Setup, Waiting
<1> QED  BY <1>2, <1>3, <1>4, <1>5 DEF Goes, Setup

\* The answer to what a setup asked for: a recovery phrase to write down, or a failure.
LEMMA ResultInSetup ==
  ASSUME NEW u, Sound(u), Setup(u), u.busy, NEW result \in {"Mnemonic", "Error"}, NEW recovered, NEW x, ~x.nxp
  PROVE  LET v == HandleResult(u, x, result, recovered) IN Setup(v) /\ ~v.busy
<1> DEFINE v == [u EXCEPT !.busy = FALSE]
           phrase == [v EXCEPT !.held = v.held \cup {"mnemonic"}]
<1>1. u \in Uis /\ u.page \in Flow /\ u.page # "SPLASH" /\ "pin" \in u.held
  BY ShownPage, PlacePage, FlowPages DEF Setup, Waiting
<1>2. v \in Uis /\ Setup(v) /\ v.page = u.page /\ ~v.busy /\ v.held = u.held /\ Base(v)
  <2>1. v \in Uis /\ Setup(v) /\ v.page = u.page /\ v.busy = FALSE /\ v.held = u.held
    BY <1>1, DialogSetup
  <2>2. Base(v)
    BY Quiet DEF Sound
  <2> QED  BY <2>1, <2>2
<1>3. HandleResult(u, x, result, recovered) \in
        {v, Back(v, x), Replace(phrase, x, "MNEMONIC"), Push(phrase, x, "MNEMONIC")}
  BY DEF HandleResult
<1> HIDE DEF v
<1>4. phrase \in Uis /\ Kin(v, phrase)
  <2> DEFINE h == v.held \cup {"mnemonic"}
  <2>1. h \in SUBSET Secrets /\ "pin" \in h
    BY <1>1, <1>2 DEF Uis, Secrets
  <2> HIDE DEF h
  <2>2. [v EXCEPT !.held = h] \in Uis /\ Kin(v, [v EXCEPT !.held = h])
    BY <1>2, <2>1, Kins
  <2> QED  BY <2>2 DEF h
<1> HIDE DEF phrase
<1>5. Setup(phrase) /\ Place(phrase) /\ phrase.page # "SPLASH" /\ ~phrase.busy
  BY <1>1, <1>2, <1>4, KinStays DEF Kin, Setup
<1>6. Began(phrase, "MNEMONIC")
  BY <1>1, <1>2, <1>4 DEF Kin, Began, Flow
<1>7. /\ LET w == Push(phrase, x, "MNEMONIC") IN Setup(w) /\ ~w.busy
      /\ LET w == Replace(phrase, x, "MNEMONIC") IN Setup(w) /\ ~w.busy
  BY <1>4, <1>5, <1>6, SetupPushed
<1>8. Setup(Back(v, x)) /\ ~Back(v, x).busy
  BY <1>2, SetupBack
<1> QED  BY <1>2, <1>3, <1>7, <1>8

\* A request that is submitted while none is under way is queued, and the UI waits.
LEMMA SubmittedInSetup ==
  ASSUME NEW step, step.u \in Uis, InSetup(step), cmdq = <<>>
  PROVE  /\ Setup(Submitted(step))
         /\ step.request = NoRequest => Submitted(step) = step.u /\ Queued(step) = cmdq
         /\ step.request # NoRequest => Submitted(step).busy /\ Queued(step) = <<step.request>> /\ Proper(step.request)
<1>1. Len(cmdq) # QueueDepth
  BY EmptySeq, DeviceAssumption
<1>2. CASE step.request = NoRequest
  BY <1>2 DEF Submitted, Queued, InSetup
<1>3. CASE step.request # NoRequest
  <2> DEFINE v == IF step.request.req = "Mixed" THEN Generated(step.u) ELSE step.u
             w == [v EXCEPT !.busy = TRUE]
  <2>1. Submitted(step) = w
    BY <1>1, <1>3 DEF Submitted
  <2>2. v \in Uis /\ Kin(step.u, v)
    <3>1. Generated(step.u) \in Uis /\ Kin(step.u, Generated(step.u)) /\ Kin(step.u, step.u)
      BY Kins DEF Kin
    <3> QED  BY <3>1
  <2> HIDE DEF v
  <2>3. v \in Uis /\ Setup(v) /\ v.page \in Flow /\ "submit" \notin v.async
    BY <1>3, <2>2, KinStays DEF InSetup, Kin
  <2>4. Setup(w)
    BY <2>3, DialogSetup
  <2>5. w.busy = TRUE
    BY <2>3 DEF Uis
  <2>6. Queued(step) = <<step.request>>
    BY <1>1, <1>3 DEF Queued
  <2> QED  BY <1>3, <2>1, <2>4, <2>5, <2>6 DEF InSetup
<1> QED  BY <1>2, <1>3

-----------------------------------------------------------------------------
(* The seed at rest: the device.                                           *)

\* A device without a secure element, with an open store and nothing set up: while it is so, no
\* confirmation was ever asked for, and what is on its way is one request of the setup or its result.
Fresh == main = "run" /\ ~nxp /\ core.wallet = "Setup" /\ store.ready
Unasked ==
  /\ core.walletChan = "Setup" /\ core.pending = 0 /\ core.erasing = "no" /\ core.due \in {"none", "Mnemonic", "Error"}
  /\ channel = NoConfirmation /\ next = NoConfirmation /\ (timer => ui.page = "SPLASH")
Flight ==
  /\ ~ui.busy => cmdq = <<>> /\ core.due = "none" /\ localq = <<>>
  /\ cmdq = <<>> \/ \E r : Proper(r) /\ cmdq = <<r>> /\ core.due = "none" /\ localq = <<>>
  /\ core.due # "none" => localq = <<>>
  /\ localq = <<>> \/ \E r \in {"Mnemonic", "Error"} : localq = <<r>>
Virgin == Fresh => Setup(ui) /\ Unasked /\ Flight

\* Before the display starts, nothing was asked for either.
Idle == main # "run" => core.walletChan = core.wallet /\ core.pending = 0 /\ channel = NoConfirmation /\ ~timer
AtRest == SeedAtRest /\ Honest(store)
RestInv == AtRest /\ Idle /\ Virgin

\* A sequence of one.
LEMMA OneElement ==
  ASSUME NEW r
  PROVE  <<r>> # <<>> /\ Head(<<r>>) = r /\ Tail(<<r>>) = <<>> /\ Append(<<>>, r) = <<r>>
  OBVIOUS

\* A step that stores no seed where there was none leaves the seed at rest.
LEMMA RestStays ==
  ASSUME AtRest, Fewer(store, store'), se'.chip \in {se.chip, "none"}, UNCHANGED nxp
  PROVE  AtRest'
  BY DEF AtRest, SeedAtRest, WalletHasPin, OneSeed, Fewer

\* Start-up reads what there is.
LEMMA BootRests ==
  ASSUME IInv, AtRest, Boot
  PROVE  AtRest'
<1> USE DEF IInv, Memory
<1>1. UNCHANGED nxp /\ Fewer(store, store)
  BY ClosedFewer, Zenon DEF Boot, StorageStart, UpdateModeTake, LoadSettings, CoreInit, DisplayInit, memory
<1>2. CASE StorageStart
  <2>1. PICK o \in StorageInit(store) : store' = o.store
    BY <1>2, Zenon DEF StorageStart
  <2>2. store'.flash = store.flash /\ Honest(store') /\ se' = se
    BY <1>2, <2>1, EraseFewer DEF StorageStart
  <2> QED  BY <1>1, <2>2 DEF AtRest, SeedAtRest, WalletHasPin, OneSeed
<1>3. CASE UpdateModeTake
  <2>1. PICK read \in Read(store, "update") :
          IF read.ret <= 0 THEN NoUpdate(read.store)
          ELSE \E deleted \in Delete(read.store, "update") :
                 IF deleted.ret = 0 THEN EnterUpdate(deleted.store) ELSE NoUpdate(deleted.store)
    BY <1>3, Zenon DEF UpdateModeTake
  <2>2. "update" \in Ids
    BY DEF Ids
  <2>3. read.store \in Stores /\ Fewer(store, read.store)
    BY <2>2, ReadKeeps, LookFewer DEF Harmless
  <2>4. store' = read.store \/ \E deleted \in Delete(read.store, "update") : store' = deleted.store
    BY <2>1 DEF NoUpdate, EnterUpdate
  <2>5. Fewer(store, store')
    BY <2>3, <2>4, RequestFewer DEF Fewer
  <2> QED  BY <1>1, <1>3, <2>5, RestStays DEF UpdateModeTake
<1>4. CASE LoadSettings
  <2>1. store' = store \/ \E o \in SettingsLoad(store) : store' = o.store
    BY <1>4, Zenon DEF LoadSettings
  <2>2. "seed" \in Ids
    BY DEF Ids
  <2>3. Fewer(store, store')
    BY <1>1, <2>1, <2>2, LookFewer
  <2> QED  BY <1>1, <1>4, <2>3, RestStays DEF LoadSettings
<1>5. CASE CoreInit
  <2>1. PICK f \in SeedExists(nxp, store, se) : store' = f.store /\ se' = f.se
    BY <1>5, Zenon DEF CoreInit
  <2>2. Rests(store, se, f)
    BY <2>1, PlatformRests
  <2> QED  BY <1>1, <2>1, <2>2, RestStays DEF Rests
<1>6. CASE DisplayInit
  BY <1>1, <1>6, RestStays DEF DisplayInit, memory
<1> QED  BY <1>2, <1>3, <1>4, <1>5, <1>6, Zenon DEF Boot

\* Every other step but one the runtime serves.
LEMMA StepRests ==
  ASSUME IInv, AtRest, (CoreStep /\ ~Serve) \/ PowerLoss \/ UiStepShape
  PROVE  AtRest' /\ Fewer(store, store') /\ UNCHANGED nxp
<1> USE DEF IInv, Memory
<1>1. Fewer(store, store) /\ Fewer(store, PoweredOff(store)) /\ "seed" \in Ids
  BY ClosedFewer DEF Ids
<1>2. ASSUME NEW s \in Stores, Fewer(store, s), Rebooted(s, se)
      PROVE  Fewer(store, store') /\ se'.chip = se.chip
  <2>1. store' = PoweredOff(s) /\ se' = ElementOff(se)
    BY <1>2, Zenon DEF Rebooted
  <2>2. Fewer(s, PoweredOff(s))
    BY ClosedFewer
  <2>3. Fewer(store, store')
    BY <1>2, <2>1, <2>2 DEF Fewer
  <2> QED  BY <2>1, <2>3 DEF ElementOff, Elements
<1>3. UNCHANGED nxp /\ Fewer(store, store') /\ se'.chip \in {se.chip, "none"}
  <2>1. CASE Restart \/ PowerLoss
    <3>1. Rebooted(store, se) /\ UNCHANGED nxp
      BY <2>1 DEF Restart, PowerLoss, Reset
    <3> QED  BY <1>1, <1>2, <3>1
  <2>2. CASE BeginReset \/ RouteResult \/ PublishWallet \/ Ask \/ Settle
    <3>1. UNCHANGED <<nxp, store, se>>
      BY <2>2, Zenon DEF BeginReset, RouteResult, PublishWallet, Ask, Settle, memory
    <3> QED  BY <1>1, <3>1
  <2>3. CASE EraseElement
    <3>1. UNCHANGED <<nxp, store>> /\ \E a \in NxpErase(se) : se' = a.se
      BY <2>3, Zenon DEF EraseElement
    <3> QED  BY <1>1, <3>1, PlatformRests
  <2>4. CASE EraseStore
    <3>1. PICK o \in EraseFlash(store) : IF o.ret = 0 THEN Reset(o.store, se) ELSE store' = o.store /\ UNCHANGED <<nxp, se>>
      BY <2>4, Zenon DEF EraseStore
    <3>2. o.store \in Stores /\ Fewer(store, o.store)
      BY EraseFlashKeeps, EraseFewer DEF Harmless
    <3>3. (Rebooted(o.store, se) /\ UNCHANGED nxp) \/ (store' = o.store /\ UNCHANGED <<nxp, se>>)
      BY <3>1 DEF Reset
    <3> QED  BY <1>2, <3>2, <3>3
  <2>5. CASE Probe
    <3>1. UNCHANGED nxp /\ \E f \in SeedExists(nxp, store, se) : store' = f.store /\ se' = f.se
      BY <2>5, Zenon DEF Probe
    <3> QED  BY <3>1, PlatformRests DEF Rests
  <2>6. CASE UpdateRequest
    <3>1. UNCHANGED nxp
      BY <2>6, Zenon DEF UpdateRequest
    <3>2. PICK o \in Write(store, "update", "set") : Rebooted(o.store, se) \/ (store' = o.store /\ UNCHANGED se)
      BY <2>6, Zenon DEF UpdateRequest
    <3>3. o.store \in Stores /\ Fewer(store, o.store)
      BY WriteRequestKeeps, RequestFewer
    <3> QED  BY <1>2, <3>1, <3>2, <3>3
  <2>7. CASE UiStepShape
    <3>1. UNCHANGED <<nxp, se>> /\ (store' = store \/ \E o \in Exists(store, "seed") : store' = o.store)
      BY <2>7, Zenon DEF UiStepShape
    <3> QED  BY <1>1, <3>1, LookFewer
  <2> QED  BY <2>1, <2>2, <2>3, <2>4, <2>5, <2>6, <2>7, Zenon DEF CoreStep
<1> QED  BY <1>3, RestStays

\* What the runtime makes of a request: it stores a seed only when it is asked to while nothing is
\* set up, and nothing is set up any more by a request only with the secure element.
LEMMA ReactRests ==
  ASSUME Memory, NEW q, GoodRequest(q), NEW r \in React(q)
  PROVE  /\ \/ Fewer(store, r.store) /\ r.se.chip \in {se.chip, "none"}
            \/ /\ q.req = "InitCustom" /\ core.wallet = "Setup"
               /\ \E f \in InitializeSeed(nxp, store, se, q.arg) : r.store = f.store /\ r.se = f.se
         /\ ~nxp /\ r.core.wallet = "Setup" => core.wallet = "Setup"
<1> USE DEF Memory
<1> DEFINE Resting(t) == Fewer(store, t.store) /\ t.se.chip \in {se.chip, "none"}
           Sets(t) == \E f \in InitializeSeed(nxp, store, se, q.arg) : t.store = f.store /\ t.se = f.se
           Still(t) == ~nxp /\ t.core.wallet = "Setup" => core.wallet = "Setup"
<1>1. Fewer(store, store)
  BY ClosedFewer
<1>2. ASSUME NEW c \in Cores, NEW result PROVE Reacts(store, se, c, result).core.wallet = c.wallet /\ Resting(Reacts(store, se, c, result))
  BY <1>1 DEF Reacts, Cores
<1>3. ASSUME NEW result PROVE Resting(Same(result)) /\ Still(Same(result))
  BY <1>2 DEF Same
<1>4. ASSUME NEW f, NEW wallet, NEW result
      PROVE  LET t == Became(f, wallet, result) IN t.store = f.store /\ t.se = f.se /\ t.core.wallet = wallet
  BY DEF Became, Reacts, Cores
<1> HIDE DEF Resting, Still, Sets
<1>5. CASE r \in Decided(q)
  <2>1. \/ r = Same("none") \/ r = Reacts(store, se, Ended(core), "none")
        \/ r = Reacts(store, se, [core EXCEPT !.prepared = TRUE], "none")
    BY <1>5, Zenon DEF Decided
  <2>2. /\ Ended(core) \in Cores /\ Ended(core).wallet = core.wallet
        /\ [core EXCEPT !.prepared = TRUE] \in Cores /\ [core EXCEPT !.prepared = TRUE].wallet = core.wallet
    BY DEF Ended, Cores
  <2>3. ASSUME NEW c \in Cores, c.wallet = core.wallet
        PROVE  Resting(Reacts(store, se, c, "none")) /\ Still(Reacts(store, se, c, "none"))
    BY <1>2, <2>3 DEF Still
  <2>4. Resting(r) /\ Still(r)
    BY <1>3, <2>1, <2>2, <2>3
  <2> QED  BY <2>4 DEF Resting, Still
<1>6. CASE r = Reacts(store, se, [Ended(core) EXCEPT !.wallet = "Locked"], "Updated")
  <2>1. [Ended(core) EXCEPT !.wallet = "Locked"] \in Cores /\ [Ended(core) EXCEPT !.wallet = "Locked"].wallet = "Locked"
    BY DEF Ended, Cores, Wallets
  <2>2. Resting(r) /\ Still(r)
    BY <1>2, <1>6, <2>1 DEF Still
  <2> QED  BY <2>2 DEF Resting, Still
<1>7. CASE r \in {Same("Error"), Same("Mnemonic")}
  <2>1. Resting(r) /\ Still(r)
    BY <1>3, <1>7
  <2> QED  BY <2>1 DEF Resting, Still
<1>8. CASE q.req = "InitCustom" /\ core.wallet = "Setup" /\ \E f \in InitializeSeed(nxp, store, se, q.arg) :
              r = Became(f, "Ready", "Ready") \/ r = Became(f, core.wallet, "Error")
  BY <1>4, <1>8
<1>9. CASE \E f \in UnlockSeed(nxp, store, se, q.arg = "good") :
              r = Became(f, "Ready", "Ready") \/ \E w \in {core.wallet, "Locked"} : r = Became(f, w, "Error")
  <2>1. PICK f \in UnlockSeed(nxp, store, se, q.arg = "good") :
              r = Became(f, "Ready", "Ready") \/ r = Became(f, core.wallet, "Error") \/ r = Became(f, "Locked", "Error")
    BY <1>9
  <2>2. Rests(store, se, f)
    BY PlatformRests
  <2> QED  BY <1>4, <2>1, <2>2 DEF Rests
<1>10. CASE \E f \in RefreshSeed(nxp, store, se) :
              \/ f.ok /\ (r = Became(f, "Locked", "Updated") \/ r = Became(f, "Setup", "Updated"))
              \/ r = Became(f, "Disabled", "Error")
  <2>1. PICK f \in RefreshSeed(nxp, store, se) :
              \/ f.ok /\ (r = Became(f, "Locked", "Updated") \/ r = Became(f, "Setup", "Updated"))
              \/ r = Became(f, "Disabled", "Error")
    BY <1>10
  <2>2. Rests(store, se, f)
    BY PlatformRests
  <2>3. ~nxp => f = Effect(store, se, FALSE)
    BY DEF RefreshSeed
  <2>4. ~nxp => ~f.ok
    BY <2>3 DEF Effect
  <2> QED  BY <1>4, <2>1, <2>2, <2>4 DEF Rests
<1>11. CASE r \in Granted(q)
  <2>1. CASE q.req = "InitCustom"
    BY <1>7, <1>8, <1>11, <2>1 DEF Granted
  <2>2. CASE q.req = "Unlock"
    BY <1>7, <1>9, <1>11, <2>2 DEF Granted
  <2>3. CASE q.req = "Refresh"
    BY <1>7, <1>10, <1>11, <2>3 DEF Granted
  <2>4. CASE q.req \notin {"InitCustom", "Unlock", "Refresh"}
    BY <1>7, <1>11, <2>4 DEF Granted
  <2> QED  BY <2>1, <2>2, <2>3, <2>4
<1> QED  BY <1>5, <1>6, <1>7, <1>11, Zenon DEF React

\* A request of a setup is answered, or sets the wallet up, or finds the store closed.
LEMMA ReactProper ==
  ASSUME Memory, ~nxp, core.wallet = "Setup", core.pending = 0, NEW q, Proper(q), NEW r \in React(q)
  PROVE  \/ \E result \in {"Mnemonic", "Error"} : r = Same(result)
         \/ r.core.wallet = "Ready" \/ ~r.store.ready
<1>1. r \in Granted(q)
  BY DEF React, Proper
<1>2. ASSUME NEW f, NEW wallet, NEW result
      PROVE  LET t == Became(f, wallet, result) IN t.store = f.store /\ t.core.wallet = wallet
  BY DEF Became, Reacts, Cores, Memory
<1>3. CASE q.req = "InitCustom" /\ q.arg = "pin"
  <2>1. \/ r = Same("Error")
        \/ \E f \in InitializeSeed(nxp, store, se, "pin") :
             r = Became(f, "Ready", "Ready") \/ (~f.ok /\ r = Became(f, core.wallet, "Error"))
    BY <1>1, <1>3 DEF Granted
  <2>2. \A f \in InitializeSeed(nxp, store, se, "pin") : f.ok \/ ~f.store.ready
    <3>1. nxp = FALSE
      BY DEF InitializeSeed
    <3> QED  BY <3>1, InitializeRests DEF Memory, TakenByFlash
  <2> QED  BY <1>2, <2>1, <2>2
<1>4. CASE q.req \in {"Generate", "Custom", "Mixed"}
  BY <1>1, <1>4 DEF Granted
<1> QED  BY <1>3, <1>4 DEF Proper

\* A request is served: only a setup that holds its PIN sets a wallet up.
LEMMA ServeRests ==
  ASSUME IInv, Navigable, RestInv, Serve
  PROVE  RestInv'
<1>1. /\ main = "run" /\ cmdq # <<>> /\ cmdq' = Tail(cmdq) /\ UNCHANGED <<main, nxp, localq, ui, timer, next>>
      /\ nxp \in BOOLEAN /\ Memory /\ CommandsGood
  BY Zenon, DeviceAssumption DEF Serve, CoreFree, Navigable, Limits, IInv
<1> DEFINE q == Head(cmdq)
<1>2. PICK r \in React(q) : store' = r.store /\ se' = r.se /\ Announce(r.core)
  BY Zenon DEF Serve
<1>3. core' = r.core
  BY <1>2 DEF Announce
<1>4. GoodRequest(q)
  BY <1>1, TailGood
<1> HIDE DEF q
<1>5. Fresh => Proper(q) /\ cmdq = <<q>> /\ localq = <<>> /\ Setup(ui) /\ Unasked /\ Flight
  <2>1. ASSUME Fresh PROVE Proper(q) /\ cmdq = <<q>> /\ localq = <<>>
    <3>1. PICK p : Proper(p) /\ cmdq = <<p>> /\ localq = <<>>
      BY <1>1, <2>1 DEF RestInv, Virgin, Flight
    <3>2. q = p
      BY <3>1, OneElement DEF q
    <3> QED  BY <3>1, <3>2
  <2> QED  BY <2>1 DEF RestInv, Virgin
<1>6. /\ \/ Fewer(store, r.store) /\ r.se.chip \in {se.chip, "none"}
         \/ /\ q.req = "InitCustom" /\ core.wallet = "Setup"
            /\ \E f \in InitializeSeed(nxp, store, se, q.arg) : r.store = f.store /\ r.se = f.se
      /\ ~nxp /\ r.core.wallet = "Setup" => core.wallet = "Setup"
  BY <1>1, <1>2, <1>4, ReactRests
<1>7. AtRest' /\ (~nxp /\ store'.ready => store.ready)
  <2>1. CASE Fewer(store, r.store) /\ r.se.chip \in {se.chip, "none"}
    BY <1>1, <1>2, <2>1, RestStays DEF RestInv, Fewer
  <2>2. CASE /\ q.req = "InitCustom" /\ core.wallet = "Setup"
             /\ \E f \in InitializeSeed(nxp, store, se, q.arg) : r.store = f.store /\ r.se = f.se
    <3>1. PICK f \in InitializeSeed(nxp, store, se, q.arg) : r.store = f.store /\ r.se = f.se
      BY <2>2
    <3>2. q.arg \in {"open", "pin"} /\ store \in Stores /\ se \in Elements
      BY <1>1, <1>4, <2>2 DEF GoodRequest, Memory
    <3>3. PICK pin \in {"open", "pin"} : pin = q.arg
      BY <3>2
    <3>4. CASE nxp = TRUE
      <4>1. f \in InitializeSeed(TRUE, store, se, pin)
        BY <3>1, <3>3, <3>4, Zenon
      <4>2. TakenByElement(store, se, f)
        BY <3>2, <4>1, InitializeRests
      <4>3. Fewer(store, store') /\ (se'.chip = se.chip \/ store.flash["seed"] = "none")
        BY <1>2, <3>1, <4>2 DEF TakenByElement
      <4> QED  BY <1>1, <3>4, <4>3 DEF RestInv, AtRest, SeedAtRest, WalletHasPin, OneSeed, Fewer
    <3>5. CASE nxp = FALSE
      <4>1. f \in InitializeSeed(FALSE, store, se, pin)
        BY <3>1, <3>3, <3>5, Zenon
      <4>2. TakenByFlash(store, se, pin, f)
        BY <3>2, <4>1, InitializeRests
      <4>3. /\ store'.flash["seed"] \in {store.flash["seed"], pin} /\ (~store.ready => store' = store)
            /\ (store'.ready => store.ready) /\ (Honest(store) => Honest(store'))
        BY <1>2, <3>1, <4>2 DEF TakenByFlash
      <4>4. store.ready => pin = "pin"
        BY <1>1, <1>5, <2>2, <3>3, <3>5 DEF Fresh, Proper
      <4>5. WalletHasPin' /\ Honest(store')
        BY <4>3, <4>4 DEF RestInv, AtRest, SeedAtRest, WalletHasPin
      <4>6. OneSeed'
        BY <1>1, <3>5 DEF OneSeed
      <4> QED  BY <4>3, <4>5, <4>6 DEF AtRest, SeedAtRest
    <3> QED  BY <1>1, <3>4, <3>5
  <2> QED  BY <1>6, <2>1, <2>2
<1>8. ASSUME Fresh' PROVE (Setup(ui) /\ Unasked /\ Flight)'
  <2>1. Fresh /\ ~nxp /\ core.wallet = "Setup" /\ r.core.wallet = "Setup" /\ r.store.ready
    BY <1>1, <1>2, <1>3, <1>6, <1>7, <1>8 DEF Fresh
  <2>2. Proper(q) /\ cmdq = <<q>> /\ localq = <<>> /\ Setup(ui) /\ Unasked /\ Flight
    BY <1>5, <2>1
  <2>3. PICK result \in {"Mnemonic", "Error"} : r = Same(result)
    <3>1. core.pending = 0
      BY <2>2 DEF Unasked
    <3> QED  BY <1>1, <1>2, <2>1, <2>2, <3>1, ReactProper
  <2>4. core' = [core EXCEPT !.due = result] /\ core \in Cores
    BY <1>1, <1>3, <2>3 DEF Same, Reacts, Memory
  <2>5. /\ core'.walletChan = core.walletChan /\ core'.pending = core.pending /\ core'.erasing = core.erasing
        /\ core'.due = result
    BY <2>4 DEF Cores
  <2>6. channel' = channel
    BY <1>2, <1>3, <2>2, <2>5 DEF Announce, Unasked
  <2>7. Unasked'
    BY <1>1, <2>2, <2>5, <2>6 DEF Unasked
  <2>8. cmdq' = <<>> /\ localq' = <<>> /\ ui' = ui /\ ui.busy
    BY <1>1, <2>2, OneElement DEF Flight
  <2>9. Flight'
    BY <2>8 DEF Flight
  <2> QED  BY <2>2, <2>7, <2>8, <2>9
<1> QED  BY <1>1, <1>7, <1>8 DEF RestInv, Idle, Virgin

\* The rest of the core: its resets start over, and what it does beside serving leaves a setup alone.
LEMMA CoreRests ==
  ASSUME IInv, Navigable, RestInv, (CoreStep /\ ~Serve) \/ PowerLoss
  PROVE  RestInv'
<1>1. AtRest' /\ Fewer(store, store') /\ UNCHANGED nxp /\ Calm /\ core \in Cores
  BY StepRests DEF RestInv, Navigable, IInv, Memory
<1>2. ASSUME NEW s, Rebooted(s, se) PROVE RestInv'
  <2>1. main' = "storage" /\ core' = CoreOff /\ channel' = NoConfirmation /\ timer' = FALSE
    BY <1>2, Zenon DEF Rebooted
  <2> QED  BY <1>1, <2>1 DEF RestInv, Idle, Virgin, Fresh, CoreOff
<1>3. ASSUME UNCHANGED <<main, ui, timer, next>>, main = "run", core'.wallet = core.wallet,
             Fresh => (Unasked /\ Flight)'
      PROVE  RestInv'
  <2>1. Fresh' => Fresh
    BY <1>1, <1>3 DEF Fresh, Fewer
  <2>2. Virgin'
    BY <1>3, <2>1 DEF RestInv, Virgin
  <2> QED  BY <1>1, <1>3, <2>2 DEF RestInv, Idle
<1>4. Fresh => Setup(ui) /\ Unasked /\ Flight
  BY DEF RestInv, Virgin
<1>5. CASE Restart \/ PowerLoss
  <2>1. Rebooted(store, se)
    BY <1>5 DEF Restart, PowerLoss, Reset
  <2> QED  BY <1>2, <2>1
<1>6. CASE BeginReset
  <2>1. main = "run" /\ UNCHANGED <<main, ui, timer, next>> /\ cmdq # <<>> /\ Head(cmdq).req = "ResetStorage"
    BY <1>6, Zenon DEF BeginReset, CoreFree, uiVars
  <2>2. core'.wallet = core.wallet
    BY <1>1, <1>6 DEF BeginReset, Cores
  <2>3. ~Fresh
    <3>1. ASSUME Fresh PROVE FALSE
      <4>1. PICK p : Proper(p) /\ cmdq = <<p>>
        BY <1>4, <2>1, <3>1 DEF Flight
      <4> QED  BY <2>1, <4>1, OneElement DEF Proper
    <3> QED  BY <3>1
  <2> QED  BY <1>3, <2>1, <2>2, <2>3
<1>7. CASE EraseElement
  <2>1. core.erasing # "no" /\ UNCHANGED <<main, ui, timer, next>>
    BY <1>7 DEF EraseElement, uiVars
  <2>2. core'.wallet = core.wallet
    BY <1>1, <1>7 DEF EraseElement, Cores
  <2>3. main = "run" /\ ~Fresh
    BY <1>1, <1>4, <2>1 DEF Calm, Unasked
  <2> QED  BY <1>3, <2>1, <2>2, <2>3
<1>8. CASE EraseStore
  <2>1. PICK o \in EraseFlash(store) :
          IF o.ret = 0 THEN Reset(o.store, se)
          ELSE core' = [core EXCEPT !.erasing = "no", !.due = "Error"] /\ UNCHANGED <<main, ui, timer, next>>
    BY <1>8, Zenon DEF EraseStore
  <2>2. CASE o.ret = 0
    <3>1. Rebooted(o.store, se)
      BY <2>1, <2>2 DEF Reset
    <3> QED  BY <1>2, <3>1
  <2>3. CASE o.ret # 0
    <3>1. core.erasing # "no"
      BY <1>8 DEF EraseStore
    <3>2. core'.wallet = core.wallet /\ UNCHANGED <<main, ui, timer, next>>
      BY <1>1, <2>1, <2>3 DEF Cores
    <3>3. main = "run" /\ ~Fresh
      BY <1>1, <1>4, <3>1 DEF Calm, Unasked
    <3> QED  BY <1>3, <3>2, <3>3
  <2> QED  BY <2>2, <2>3
<1>9. CASE RouteResult
  <2>1. core.due # "none" /\ core' = [core EXCEPT !.due = "none"] /\ UNCHANGED <<main, channel, cmdq, ui, timer, next>>
    BY <1>9, Zenon DEF RouteResult, memory
  <2>2. /\ core'.wallet = core.wallet /\ core'.walletChan = core.walletChan /\ core'.pending = core.pending
        /\ core'.erasing = core.erasing /\ core'.due = "none"
    BY <1>1, <2>1 DEF Cores
  <2>3. main = "run"
    BY <1>1, <2>1 DEF Calm
  <2>4. ASSUME Fresh PROVE (Unasked /\ Flight)'
    <3>1. Unasked'
      BY <1>4, <2>1, <2>2, <2>4 DEF Unasked
    <3>2. localq = <<>> /\ cmdq = <<>> /\ ui.busy /\ core.due \in {"Mnemonic", "Error"}
      BY <1>4, <2>1, <2>4 DEF Flight, Unasked
    <3>3. localq' = <<>> \/ localq' = <<core.due>>
      BY <1>9, <3>2, OneElement, Zenon DEF RouteResult
    <3>4. Flight'
      BY <2>1, <2>2, <3>2, <3>3 DEF Flight
    <3> QED  BY <3>1, <3>4
  <2> QED  BY <1>3, <2>1, <2>2, <2>3, <2>4
<1>10. CASE PublishWallet
  <2>1. main = "run" /\ UNCHANGED <<main, ui, timer, next>> /\ core.walletChan # Published(core)
    BY <1>10, Zenon DEF PublishWallet
  <2>2. core'.wallet = core.wallet
    BY <1>1, <1>10 DEF PublishWallet, Cores
  <2>3. ~Fresh
    BY <1>4, <2>1 DEF Unasked, Published, Fresh
  <2> QED  BY <1>3, <2>1, <2>2, <2>3
<1>11. CASE Ask \/ Settle
  <2>1. main = "run" /\ UNCHANGED <<main, ui, timer, next>> /\ (core.wallet = "Ready" \/ core.pending # 0)
    BY <1>11, Zenon DEF Ask, Settle, CoreFree
  <2>2. core'.wallet = core.wallet
    BY <1>1, <1>11 DEF Ask, Settle, Announce, Ended, Cores
  <2>3. ~Fresh
    BY <1>4, <2>1 DEF Unasked, Fresh
  <2> QED  BY <1>3, <2>1, <2>2, <2>3
<1>12. ASSUME UNCHANGED <<main, core, channel, cmdq, localq, ui, timer, next>>, main = "run" PROVE RestInv'
  <2>1. Fresh => (Unasked /\ Flight)'
    BY <1>4, <1>12 DEF Unasked, Flight
  <2> QED  BY <1>3, <1>12, <2>1
<1>13. CASE Probe
  <2>1. main = "run" /\ UNCHANGED <<main, core, channel, cmdq, localq, ui, timer, next>>
    BY <1>13, Zenon DEF Probe, CoreFree
  <2> QED  BY <1>12, <2>1
<1>14. CASE UpdateRequest
  <2>1. main = "run"
    BY <1>14, Zenon DEF UpdateRequest, CoreFree
  <2>2. PICK o : Rebooted(o.store, se) \/ UNCHANGED <<main, core, channel, cmdq, localq, ui, timer, next>>
    BY <1>14, Zenon DEF UpdateRequest
  <2> QED  BY <1>2, <1>12, <2>1, <2>2
<1> QED  BY <1>5, <1>6, <1>7, <1>8, <1>9, <1>10, <1>11, <1>13, <1>14, Zenon DEF CoreStep

\* A step of the UI that asks the core nothing.
LEMMA GoesVirgin ==
  ASSUME RestInv, main = "run", AtRest', Fewer(store, store'), UNCHANGED <<main, nxp, core, channel, cmdq, localq>>,
         next' \in {next, NoConfirmation}, timer' => timer, Fresh => Goes(ui, ui')
  PROVE  RestInv'
<1>1. Fresh' => Fresh
  BY DEF Fresh, Fewer
<1>2. ASSUME Fresh PROVE (Setup(ui) /\ Unasked /\ Flight)'
  <2>1. Setup(ui) /\ Unasked /\ Flight /\ Goes(ui, ui')
    BY <1>2 DEF RestInv, Virgin
  <2>2. Unasked'
    BY <2>1 DEF Unasked, Goes
  <2>3. Flight'
    BY <2>1 DEF Flight, Goes
  <2> QED  BY <2>1, <2>2, <2>3 DEF Goes
<1> QED  BY <1>1, <1>2 DEF RestInv, Idle, Virgin

\* A step of the UI that may ask the core for something.
LEMMA SubmittingVirgin ==
  ASSUME RestInv, main = "run", AtRest', Fewer(store, store'), UNCHANGED <<main, nxp, core, channel, localq, timer, next>>,
         NEW step, NEW other, other.request = step.request, ui' = Submitted(step), cmdq' = Queued(other),
         Fresh => ui.page # "SPLASH" /\ ~ui.busy /\ step.u \in Uis /\ InSetup(step)
  PROVE  RestInv'
<1>1. Fresh' => Fresh
  BY DEF Fresh, Fewer
<1>2. Queued(other) = Queued(step)
  BY DEF Queued
<1>3. ASSUME Fresh PROVE (Setup(ui) /\ Unasked /\ Flight)'
  <2>1. Setup(ui) /\ Unasked /\ Flight /\ ui.page # "SPLASH" /\ ~ui.busy /\ step.u \in Uis /\ InSetup(step)
    BY <1>3 DEF RestInv, Virgin
  <2>2. cmdq = <<>> /\ core.due = "none" /\ localq = <<>>
    BY <2>1 DEF Flight
  <2>3. /\ Setup(Submitted(step))
        /\ step.request = NoRequest => Submitted(step) = step.u /\ Queued(step) = cmdq
        /\ step.request # NoRequest => Submitted(step).busy /\ Queued(step) = <<step.request>> /\ Proper(step.request)
    BY <2>1, <2>2, SubmittedInSetup
  <2>4. Unasked'
    BY <2>1 DEF Unasked
  <2>5. Flight'
    BY <1>2, <2>2, <2>3 DEF Flight
  <2> QED  BY <2>3, <2>4, <2>5
<1> QED  BY <1>1, <1>3 DEF RestInv, Idle, Virgin

\* Every touch.
LEMMA TouchRests ==
  ASSUME IInv, Navigable, RestInv, Touch
  PROVE  RestInv'
<1>1. main = "run" /\ Sound(ui) /\ ui \in Uis
  <2>1. main = "run" /\ Sound(ui)
    BY Zenon DEF Navigable, Screen, Touch, Tap, ToggleSource, Collect, SkipSource, DialogButton, BackArrow, Icon, Field, Cancel,
       Submit, Touchable, Unlocked
  <2> QED  BY <2>1, ShownPage
<1>2. ~ui.busy
  BY Zenon DEF Touch, Tap, ToggleSource, Collect, SkipSource, DialogButton, BackArrow, Icon, Field, Cancel, Submit, Touchable
<1>3. AtRest' /\ Fewer(store, store')
  BY TouchShape, StepRests DEF RestInv
<1>4. Fresh => Setup(ui) /\ \A b \in BOOLEAN : ~X(b).nxp
  BY DEF RestInv, Virgin, Fresh, X
<1>5. CASE Tap
  <2>1. PICK row \in ui.rows \ {"toggle", "collect", "skip"} : LET Do(x) == TapRow(ui, x, row) IN Submitting(Do)
    BY <1>5, Zenon DEF Tap
  <2>2. PICK b \in BOOLEAN : ui' = Submitted(TapRow(ui, X(b), row))
    BY <2>1 DEF Submitting, Draw
  <2>3. UNCHANGED <<main, nxp, core, channel, localq, timer, next>> /\ cmdq' = Queued(TapRow(ui, X(FALSE), row))
    BY <2>1 DEF Submitting
  <2>4. TapRow(ui, X(FALSE), row).request = TapRow(ui, X(b), row).request
    BY SameRequest
  <2>5. TapRow(ui, X(b), row).u \in Uis
    BY <1>1, TapRowStepped DEF Stepped, Turned, Sound, Base
  <2>6. Fresh => ui.page # "SPLASH" /\ InSetup(TapRow(ui, X(b), row))
    BY <1>1, <1>2, <1>4, TapInSetup
  <2> QED  BY <1>1, <1>2, <1>3, <2>2, <2>3, <2>4, <2>5, <2>6, SubmittingVirgin
<1>6. CASE DialogButton
  <2>1. PICK confirmed \in BOOLEAN : LET Do(x) == DialogClicked(ui, x, confirmed) IN Submitting(Do)
    BY <1>6, Zenon DEF DialogButton
  <2>2. PICK b \in BOOLEAN : ui' = Submitted(DialogClicked(ui, X(b), confirmed))
    BY <2>1 DEF Submitting, Draw
  <2>3. UNCHANGED <<main, nxp, core, channel, localq, timer, next>> /\ cmdq' = Queued(DialogClicked(ui, X(FALSE), confirmed))
    BY <2>1 DEF Submitting
  <2>4. DialogClicked(ui, X(FALSE), confirmed).request = DialogClicked(ui, X(b), confirmed).request
    BY SameRequest
  <2>5. ui.dialog # "none"
    BY <1>6, Zenon DEF DialogButton
  <2>6. DialogClicked(ui, X(b), confirmed).u \in Uis
    BY <1>1, <2>5, DialogStepped DEF Stepped, Turned, Sound, Base
  <2>7. Fresh => ui.page # "SPLASH" /\ InSetup(DialogClicked(ui, X(b), confirmed))
    BY <1>1, <1>2, <1>4, <2>5, DialogInSetup
  <2> QED  BY <1>1, <1>2, <1>3, <2>2, <2>3, <2>4, <2>6, <2>7, SubmittingVirgin
<1>7. ASSUME Fresh => Goes(ui, ui'), UNCHANGED <<main, nxp, core, channel, cmdq, localq, timer, next>> PROVE RestInv'
  BY <1>1, <1>3, <1>7, GoesVirgin
<1>8. CASE ToggleSource
  <2>1. PICK s \in Sources, b \in BOOLEAN : ui' = Toggle(ui, X(b), s)
    BY <1>8 DEF ToggleSource, Drawing, Draw
  <2>2. UNCHANGED <<main, nxp, core, channel, cmdq, localq, timer, next>> /\ "toggle" \in ui.rows
    BY <1>8 DEF ToggleSource, Drawing
  <2> QED  BY <1>1, <1>4, <1>7, <2>1, <2>2, PagesGo
<1>9. CASE Collect
  <2>1. PICK b \in BOOLEAN : ui' = CollectionBegin(ui, X(b))
    BY <1>9 DEF Collect, Drawing, Draw
  <2>2. UNCHANGED <<main, nxp, core, channel, cmdq, localq, timer, next>> /\ "collect" \in ui.rows
    BY <1>9 DEF Collect, Drawing
  <2> QED  BY <1>1, <1>2, <1>4, <1>7, <2>1, <2>2, PagesGo
<1>10. CASE SkipSource
  <2>1. PICK c \in {"capturing", "error", "ready"}, b \in BOOLEAN : ui' = Skip(ui, X(b), c)
    BY <1>10 DEF SkipSource, Drawing, Draw
  <2>2. UNCHANGED <<main, nxp, core, channel, cmdq, localq, timer, next>>
    BY <1>10 DEF SkipSource, Drawing
  <2> QED  BY <1>1, <1>4, <1>7, <2>1, <2>2, PagesGo
<1>11. CASE BackArrow
  <2>1. PICK b \in BOOLEAN : ui' = Back(ui, X(b))
    BY <1>11 DEF BackArrow, Drawing, Draw
  <2>2. UNCHANGED <<main, nxp, core, channel, cmdq, localq, timer, next>>
    BY <1>11 DEF BackArrow, Drawing
  <2> QED  BY <1>1, <1>2, <1>4, <1>7, <2>1, <2>2, PagesGo
<1>12. CASE Icon
  <2>1. PICK page \in Icons, b \in BOOLEAN : ui' = StatusIcon(ui, X(b), page)
    BY <1>12 DEF Icon, Drawing, Draw
  <2>2. UNCHANGED <<main, nxp, core, channel, cmdq, localq, timer, next>>
    BY <1>12 DEF Icon, Drawing
  <2> QED  BY <1>1, <1>4, <1>7, <2>1, <2>2, PagesGo
<1>13. CASE Field \/ Cancel \/ Submit
  <2>1. ui' \in {KeyboardShow(ui), KeyboardHide(ui), InputSubmit(ui)}
    BY <1>13 DEF Field, Cancel, Submit, Drawing, Draw
  <2>2. UNCHANGED <<main, nxp, core, channel, cmdq, localq, timer, next>>
    BY <1>13 DEF Field, Cancel, Submit, Drawing
  <2> QED  BY <1>1, <1>2, <1>4, <1>7, <2>1, <2>2, KeyboardGoes
<1> QED  BY <1>5, <1>6, <1>8, <1>9, <1>10, <1>11, <1>12, <1>13, Zenon DEF Touch

\* The deferred calls, the splash screen's end and the collector.
LEMMA LvglRests ==
  ASSUME IInv, Navigable, RestInv, Lvgl
  PROVE  RestInv'
<1>1. main = "run" /\ Sound(ui) /\ ui \in Uis
  <2>1. main = "run" /\ Sound(ui)
    BY Zenon DEF Navigable, Screen, Lvgl, Deferred, StartupExpired, CollectorMoves, EntropyTick, Unlocked
  <2> QED  BY <2>1, ShownPage
<1>2. AtRest' /\ Fewer(store, store')
  BY LvglShape, StepRests DEF RestInv
<1>3. Fresh => Setup(ui) /\ \A b \in BOOLEAN : ~X(b).nxp
  BY DEF RestInv, Virgin, Fresh, X
<1>4. ASSUME Fresh => Goes(ui, ui'), UNCHANGED <<main, nxp, core, channel, cmdq, localq, timer, next>> PROVE RestInv'
  BY <1>1, <1>2, <1>4, GoesVirgin
<1>5. CASE Deferred
  <2>1. CASE "show" \in ui.async /\ LET Page(x) == ShowDeferred(ui) IN Drawing(Page)
    <3>1. ui' = ShowDeferred(ui) /\ UNCHANGED <<main, nxp, core, channel, cmdq, localq, timer, next>>
      BY <2>1 DEF Drawing, Draw
    <3> QED  BY <1>1, <1>3, <1>4, <3>1, KeyboardGoes
  <2>2. CASE "hide" \in ui.async /\ LET Page(x) == HideDeferred(ui) IN Drawing(Page)
    <3>1. ui' = HideDeferred(ui) /\ UNCHANGED <<main, nxp, core, channel, cmdq, localq, timer, next>>
      BY <2>2 DEF Drawing, Draw
    <3> QED  BY <1>1, <1>3, <1>4, <3>1, KeyboardGoes
  <2>3. CASE "submit" \in ui.async /\ \E text \in {"good", "bad", "empty"} :
               LET Do(x) == InputHandler(ui, x, text) IN Submitting(Do)
    <3>1. PICK text \in {"good", "bad", "empty"} : LET Do(x) == InputHandler(ui, x, text) IN Submitting(Do)
      BY <2>3, Zenon
    <3>2. PICK b \in BOOLEAN : ui' = Submitted(InputHandler(ui, X(b), text))
      BY <3>1 DEF Submitting, Draw
    <3>3. UNCHANGED <<main, nxp, core, channel, localq, timer, next>> /\ cmdq' = Queued(InputHandler(ui, X(FALSE), text))
      BY <3>1 DEF Submitting
    <3>4. InputHandler(ui, X(FALSE), text).request = InputHandler(ui, X(b), text).request
      BY SameRequest
    <3>5. InputHandler(ui, X(b), text).u \in Uis
      BY <1>1, <2>3, InputStepped DEF Stepped, Turned, Sound, Base
    <3>6. Fresh => ui.page # "SPLASH" /\ ~ui.busy /\ InSetup(InputHandler(ui, X(b), text))
      BY <1>1, <1>3, <2>3, InputInSetup
    <3> QED  BY <1>1, <1>2, <3>2, <3>3, <3>4, <3>5, <3>6, SubmittingVirgin
  <2> QED  BY <1>5, <2>1, <2>2, <2>3, Zenon DEF Deferred
<1>6. CASE StartupExpired
  <2>1. PICK b \in BOOLEAN : ui' = ShowStartup(ui, X(b))
    BY <1>6 DEF StartupExpired, Draw
  <2>2. UNCHANGED <<main, nxp, core, channel, cmdq, localq, next>> /\ timer /\ timer' = FALSE
    BY <1>6 DEF StartupExpired
  <2>3. ASSUME Fresh PROVE (Setup(ui) /\ Unasked /\ Flight)'
    <3>1. Setup(ui) /\ Unasked /\ Flight /\ ~X(b).nxp
      BY <1>3, <2>3 DEF RestInv, Virgin
    <3>2. ui.page = "SPLASH"
      BY <2>2, <3>1 DEF Unasked
    <3>3. ~ui.busy /\ ui.wallet = "Setup" /\ ui.storage # "ERROR" /\ ui.confirmation = 0
      BY <3>1, <3>2, FlowPages DEF Setup, Waiting, Place
    <3>4. Setup(ui') /\ ~ui'.busy
      BY <1>1, <2>1, <3>1, <3>3, SetupOpened
    <3>5. Unasked' /\ Flight'
      BY <2>2, <3>1, <3>3, <3>4 DEF Unasked, Flight
    <3> QED  BY <3>4, <3>5
  <2>4. Fresh' => Fresh
    BY <1>2, <2>2 DEF Fresh, Fewer
  <2> QED  BY <1>1, <1>2, <2>2, <2>3, <2>4 DEF RestInv, Idle, Virgin
<1>7. CASE CollectorMoves
  <2>1. PICK c \in {"error", "ready"} : ui' = [ui EXCEPT !.collector = c]
    BY <1>7 DEF CollectorMoves
  <2>2. UNCHANGED <<main, nxp, core, channel, cmdq, localq, timer, next>>
    BY <1>7 DEF CollectorMoves, memory, coreVars
  <2>3. Fresh => Goes(ui, [ui EXCEPT !.collector = c])
    BY <1>1, <1>3, PagesGo
  <2>4. Fresh => Goes(ui, ui')
    BY <2>1, <2>3
  <2> QED  BY <1>4, <2>2, <2>4
<1>8. CASE EntropyTick
  <2>1. PICK b \in BOOLEAN : ui' = Tick(ui, X(b))
    BY <1>8 DEF EntropyTick, Drawing, Draw
  <2>2. UNCHANGED <<main, nxp, core, channel, cmdq, localq, timer, next>>
    BY <1>8 DEF EntropyTick, Drawing
  <2> QED  BY <1>1, <1>3, <1>4, <2>1, <2>2, PagesGo
<1> QED  BY <1>5, <1>6, <1>7, <1>8, Zenon DEF Lvgl

\* The events the UI is told of.
LEMMA EventRests ==
  ASSUME IInv, Navigable, RestInv, EventThread
  PROVE  RestInv'
<1>1. Limits /\ (main # "run" => work = {} /\ next = NoConfirmation) /\ (main = "run" => Sound(ui) /\ ui \in Uis)
  <2>1. main = "run" => Sound(ui)
    BY DEF Navigable, Screen
  <2> QED  BY <2>1, ShownPage DEF Navigable, Screen
<1>2. AtRest' /\ Fewer(store, store')
  BY EventShape, StepRests DEF RestInv
<1>3. Fresh => Setup(ui) /\ Unasked /\ Flight /\ \A b \in BOOLEAN : ~X(b).nxp
  BY DEF RestInv, Virgin, Fresh, X
<1>4. ASSUME main = "run", Fresh => Goes(ui, ui'), UNCHANGED <<main, nxp, core, channel, cmdq, localq>>, timer' => timer,
             next' \in {next, NoConfirmation}
      PROVE  RestInv'
  BY <1>2, <1>4, GoesVirgin
<1>5. ui' = ui => (Fresh => Goes(ui, ui'))
  BY <1>3 DEF Goes
<1>6. CASE Take
  <2>1. main = "run" /\ UNCHANGED <<main, nxp, core, channel, cmdq, localq, ui, timer, next>>
    BY <1>6 DEF Take, memory, coreVars
  <2> QED  BY <1>4, <1>5, <2>1
<1>7. CASE HandleStatus
  <2>1. main = "run"
    BY <1>1, <1>7 DEF HandleStatus
  <2>2. PICK b \in BOOLEAN : ui' = ApplyStatus(ui, X(b), core.walletChan, store.chan)
    BY <1>7 DEF HandleStatus, Draw
  <2>3. UNCHANGED <<main, nxp, core, channel, cmdq, localq, timer, next>>
    BY <1>7 DEF HandleStatus
  <2>4. Fresh => core.walletChan = "Setup" /\ store.chan = "READY"
    BY <1>3 DEF Unasked, Fresh, RestInv, AtRest, Honest
  <2>5. Fresh => Goes(ui, ui')
    BY <1>1, <1>3, <2>1, <2>2, <2>4, StatusGoes
  <2> QED  BY <1>4, <2>1, <2>3, <2>5
<1>8. CASE HandleNetwork
  <2>1. PICK b \in BOOLEAN : ui' = NetworkEvents(ui, X(b))
    BY <1>8 DEF HandleNetwork, Drawing, Draw
  <2>2. main = "run" /\ UNCHANGED <<main, nxp, core, channel, cmdq, localq, timer, next>>
    BY <1>8 DEF HandleNetwork, Drawing
  <2>3. Fresh => Goes(ui, ui')
    BY <1>1, <1>3, <2>1, <2>2, PagesGo
  <2> QED  BY <1>4, <2>2, <2>3
<1>9. CASE HandleLocalResult
  <2>1. UNCHANGED <<main, nxp, core, channel, cmdq, next>>
    BY <1>9 DEF HandleLocalResult
  <2>2. main = "run"
    BY <1>1, <1>9 DEF HandleLocalResult
  <2>3. CASE localq = <<>>
    <3>1. UNCHANGED <<localq, ui, timer>>
      BY <1>9, <2>3 DEF HandleLocalResult
    <3> QED  BY <1>4, <1>5, <2>1, <2>2, <3>1
  <2>4. CASE localq # <<>>
    <3>1. /\ localq' = Tail(localq) /\ timer' = FALSE
          /\ \E recovered, b \in BOOLEAN : ui' = HandleResult(ui, X(b), Head(localq), recovered)
      BY <1>9, <2>4 DEF HandleLocalResult, Draw
    <3>2. ASSUME Fresh PROVE (Setup(ui) /\ Unasked /\ Flight)'
      <4>1. PICK result \in {"Mnemonic", "Error"} : localq = <<result>>
        BY <1>3, <2>4, <3>2 DEF Flight
      <4>2. Head(localq) = result /\ Tail(localq) = <<>>
        BY <4>1, OneElement
      <4>3. PICK recovered \in BOOLEAN, b \in BOOLEAN : ui' = HandleResult(ui, X(b), result, recovered)
        BY <3>1, <4>2
      <4>4. Setup(ui) /\ ui.busy /\ ~X(b).nxp /\ cmdq = <<>> /\ core.due = "none"
        BY <1>3, <2>4, <3>2 DEF Flight
      <4>5. Setup(ui') /\ ~ui'.busy
        BY <1>1, <2>2, <4>3, <4>4, ResultInSetup
      <4>6. Unasked'
        BY <1>3, <2>1, <3>1, <3>2 DEF Unasked
      <4>7. Flight'
        BY <2>1, <3>1, <4>2, <4>4 DEF Flight
      <4> QED  BY <4>5, <4>6, <4>7
    <3>3. Fresh' => Fresh
      BY <1>2, <2>1 DEF Fresh, Fewer
    <3> QED  BY <1>2, <2>1, <2>2, <3>2, <3>3 DEF RestInv, Idle, Virgin
  <2> QED  BY <2>3, <2>4
<1>10. CASE ReadConfirmation
  <2>1. UNCHANGED <<main, nxp, core, channel, cmdq, localq, ui, timer>> /\ next' = channel /\ work # {}
    BY <1>10 DEF ReadConfirmation, memory, coreVars
  <2>2. main = "run"
    BY <1>1, <2>1
  <2>3. Fresh' => Fresh
    BY <1>2, <2>1 DEF Fresh, Fewer
  <2>4. Fresh => (Setup(ui) /\ Unasked /\ Flight)'
    BY <1>3, <2>1 DEF Unasked, Flight
  <2> QED  BY <1>2, <2>1, <2>2, <2>3, <2>4 DEF RestInv, Idle, Virgin
<1>11. CASE HandleConfirmation
  <2>1. UNCHANGED <<main, nxp, core, channel, cmdq, localq>> /\ next # NoConfirmation /\ next' = NoConfirmation /\ (timer' => timer)
    BY <1>11 DEF HandleConfirmation
  <2>2. main = "run" /\ ~Fresh
    BY <1>1, <1>3, <2>1 DEF Unasked
  <2> QED  BY <1>4, <2>1, <2>2
<1> QED  BY <1>6, <1>7, <1>8, <1>9, <1>10, <1>11, Zenon DEF EventThread

\* Start-up: the display shows the splash screen of an empty device, or where that leads.
LEMMA StartRests ==
  /\ Init => RestInv
  /\ IInv /\ Navigable /\ RestInv /\ Boot => RestInv'
<1>1. ASSUME Init PROVE RestInv
  <2>1. PICK seed \in {"none", "pin"} : /\ seed \in IF nxp THEN {"none", "pin"} ELSE {"none"}
          /\ store = [flash |-> [EmptyFlash EXCEPT !["seed"] = seed], fs |-> FALSE, ready |-> FALSE, chan |-> "INITIALIZING"]
    BY <1>1 DEF Init, DeviceStart
  <2>2. store.flash["seed"] = seed /\ store.ready = FALSE
    BY <2>1 DEF EmptyFlash, Ids
  <2>3. main = "storage" /\ se.chip = "none" /\ core = CoreOff /\ channel = NoConfirmation /\ timer = FALSE
    BY <1>1 DEF Init, DeviceStart
  <2> QED  BY <2>1, <2>2, <2>3 DEF RestInv, AtRest, SeedAtRest, WalletHasPin, OneSeed, Honest, Idle, Virgin, Fresh, CoreOff
<1>2. ASSUME IInv, Navigable, RestInv, Boot PROVE RestInv'
  <2>1. AtRest'
    BY <1>2, BootRests DEF RestInv
  <2>2. CASE StorageStart \/ UpdateModeTake \/ LoadSettings \/ CoreInit
    <3>1. main # "run" /\ UNCHANGED <<channel, timer>>
      BY <2>2, Zenon DEF StorageStart, UpdateModeTake, LoadSettings, CoreInit
    <3>2. main' # "run"
      BY <2>2 DEF StorageStart, UpdateModeTake, LoadSettings, CoreInit, NoUpdate, EnterUpdate
    <3>3. core'.walletChan = core'.wallet /\ core'.pending = core.pending
      <4>1. CASE CoreInit
        <5>1. PICK f : core' = [core EXCEPT !.wallet = Classified(f.ret), !.walletChan = Classified(f.ret)]
          BY <4>1, Zenon DEF CoreInit
        <5> QED  BY <1>2, <5>1 DEF IInv, Memory, Cores
      <4>2. CASE StorageStart \/ UpdateModeTake \/ LoadSettings
        <5>1. core' = core
          BY <4>2, Zenon DEF StorageStart, UpdateModeTake, LoadSettings
        <5> QED  BY <1>2, <3>1, <5>1 DEF RestInv, Idle
      <4> QED  BY <2>2, <4>1, <4>2
    <3> QED  BY <1>2, <2>1, <3>1, <3>2, <3>3 DEF RestInv, Idle, Virgin, Fresh
  <2>3. CASE DisplayInit
    <3>1. /\ main = "display" /\ main' = "run" /\ UNCHANGED <<nxp, store, core, channel, cmdq, localq, next>>
          /\ \E t \in BOOLEAN : timer' = t /\ ui' = ControllerInit(X(FALSE), core.walletChan, store.chan, t)
      BY <2>3 DEF DisplayInit, memory, coreVars
    <3>2. ASSUME Fresh' PROVE (Setup(ui) /\ Unasked /\ Flight)'
      <4>1. core.wallet = "Setup" /\ core.walletChan = "Setup" /\ core.pending = 0 /\ channel = NoConfirmation
            /\ store.chan = "READY" /\ ~X(FALSE).nxp
        BY <1>2, <3>1, <3>2 DEF Fresh, RestInv, Idle, AtRest, Honest, X
      <4>2. PICK t \in BOOLEAN : timer' = t /\ ui' = ControllerInit(X(FALSE), "Setup", "READY", t)
        BY <3>1, <4>1
      <4>3. Setup(ui') /\ ~ui'.busy /\ (t => ui'.page = "SPLASH")
        BY <4>1, <4>2, ControllerSetup
      <4>4. cmdq = <<>> /\ localq = <<>> /\ core.due = "none" /\ core.erasing = "no" /\ next = NoConfirmation
        BY <1>2, <3>1 DEF Navigable, Calm, Screen
      <4>5. Unasked'
        BY <3>1, <4>1, <4>2, <4>3, <4>4 DEF Unasked
      <4>6. Flight'
        BY <3>1, <4>3, <4>4 DEF Flight
      <4> QED  BY <4>3, <4>5, <4>6
    <3> QED  BY <2>1, <3>1, <3>2 DEF RestInv, Idle, Virgin
  <2> QED  BY <1>2, <2>2, <2>3, Zenon DEF Boot
<1> QED  BY <1>1, <1>2

\* Every step.
LEMMA NextRests ==
  ASSUME IInv, Navigable, RestInv, [Next]_vars
  PROVE  RestInv'
<1>1. CASE UNCHANGED vars
  <2>1. UNCHANGED <<main, nxp, store, se, core, channel, cmdq, localq, ui, timer, next>>
    BY <1>1 DEF vars, memory, coreVars, uiVars
  <2>2. AtRest' /\ Idle'
    BY <2>1 DEF RestInv, AtRest, SeedAtRest, WalletHasPin, OneSeed, Idle
  <2>3. (Fresh <=> Fresh') /\ (Unasked => Unasked') /\ (Flight => Flight')
    BY <2>1 DEF Fresh, Unasked, Flight
  <2> QED  BY <2>1, <2>2, <2>3 DEF RestInv, Virgin
<1>2. CASE CoreStep \/ PowerLoss
  BY <1>2, ServeRests, CoreRests, Zenon
<1> QED  BY <1>1, <1>2, StartRests, TouchRests, LvglRests, EventRests, Zenon DEF Next

\* The seed at rest: whatever is tapped, entered, asked for or fails, and whenever the power does, no
\* seed is stored under the empty PIN, nor in both places (platform.rs, ui_pages.c, storage.c).
THEOREM SeedsAtRest == Spec => []SeedAtRest
<1>1. Init => IInv /\ Navigable /\ RestInv
  BY InitIInv, StartNavigable, StartRests
<1>2. IInv /\ Navigable /\ RestInv /\ [Next]_vars => (IInv /\ Navigable /\ RestInv)'
  BY NextIInv, NextNavigable, NextRests
<1>3. IInv /\ Navigable /\ RestInv => SeedAtRest
  BY DEF RestInv, AtRest
<1> QED  BY <1>1, <1>2, <1>3, PTL DEF Spec
=============================================================================
