------------------------------- MODULE ImuProofs -------------------------------
(***************************************************************************)
(* The acquisition thread never refuses a batch of the driver, for every   *)
(* set of clients, batch size, period and failure threshold, and without a *)
(* bound on how long the clock runs.  The argument: while the source runs, *)
(* the driver's time of the last sample is the thread's, so that what the  *)
(* driver places after the one follows the other.                          *)
(***************************************************************************)
EXTENDS Imu, SequenceTheorems, TLAPS

SampleType == [time : Nat, gap : BOOLEAN]

-----------------------------------------------------------------------------
(* The driver's samples.                                                   *)

LEMMA Spread ==
  ASSUME NEW available \in Nat, NEW count \in Nat, count >= 1, available >= count
  PROVE  available \div count \in Nat /\ available \div count >= 1
  OBVIOUS

LEMMA SamplesShape ==
  ASSUME NEW base \in Nat, NEW step \in Nat, NEW count \in Nat, NEW gap \in BOOLEAN
  PROVE  /\ Samples(base, step, count, gap) \in Seq(SampleType)
         /\ DOMAIN Samples(base, step, count, gap) = 1..count
         /\ Len(Samples(base, step, count, gap)) = count
<1> DEFINE samples == Samples(base, step, count, gap)
<1>1. ASSUME NEW i \in 1..count
      PROVE  [time |-> base + (i - 1) * step, gap |-> gap /\ i = 1] \in SampleType
  <2>1. (i - 1) * step \in Nat
    OBVIOUS
  <2>2. base + (i - 1) * step \in Nat
    BY <2>1
  <2>3. (gap /\ i = 1) \in BOOLEAN
    BY Zenon
  <2> QED  BY <2>2, <2>3, Zenon DEF SampleType
<1>2. samples \in [1..count -> SampleType]
  BY <1>1 DEF Samples
<1>3. samples \in Seq(SampleType)
  BY <1>2
<1>4. DOMAIN samples = 1..count
  BY <1>2
<1> QED  BY <1>3, <1>4, LenProperties

\* Samples are accepted when the first comes after the last one, or is marked as a gap.
LEMMA SamplesAccepted ==
  ASSUME NEW last \in Nat, NEW base \in Nat, NEW step \in Nat, NEW count \in Nat, NEW gap \in BOOLEAN,
         base >= 1, step >= 1, last = 0 \/ gap \/ base > last
  PROVE  Accepted(last, Samples(base, step, count, gap))
<1> DEFINE samples == Samples(base, step, count, gap)
<1>1. DOMAIN samples = 1..count
  BY SamplesShape
<1>2. ASSUME NEW i \in 1..count
      PROVE  /\ samples[i].time = base + (i - 1) * step
             /\ samples[i].gap = (gap /\ i = 1)
  BY Zenon DEF Samples
<1>3. ASSUME NEW i \in 1..count
      PROVE  samples[i].time # 0
  <2>1. (i - 1) * step \in Nat
    OBVIOUS
  <2> QED  BY <2>1, <1>2
<1>4. ASSUME NEW i \in 1..count, i # 1
      PROVE  samples[i].time > samples[i - 1].time
  <2>1. i - 1 \in 1..count
    BY <1>4
  <2>2. samples[i - 1].time = base + ((i - 1) - 1) * step
    BY <1>2, <2>1
  <2>3. (i - 1) * step = ((i - 1) - 1) * step + step
    OBVIOUS
  <2>4. ((i - 1) - 1) * step \in Int
    OBVIOUS
  <2> QED  BY <1>2, <2>2, <2>3, <2>4
<1>5. ASSUME 1 \in 1..count
      PROVE  samples[1].time = base /\ samples[1].gap = gap
  <2>1. samples[1].time = base + (1 - 1) * step /\ samples[1].gap = (gap /\ 1 = 1)
    BY <1>2, <1>5
  <2>2. (1 - 1) * step = 0
    OBVIOUS
  <2>3. samples[1].time = base
    BY <2>1, <2>2
  <2> QED  BY <2>1, <2>3, Zenon
<1>6. SUFFICES ASSUME NEW i \in 1..count
               PROVE  LET before == IF i = 1 THEN last ELSE samples[i - 1].time
                      IN  samples[i].time # 0 /\ (before = 0 \/ samples[i].gap \/ samples[i].time > before)
  BY <1>1 DEF Accepted
<1>7. CASE i = 1
  BY <1>3, <1>5, <1>7
<1>8. CASE i # 1
  BY <1>3, <1>4, <1>8
<1> QED  BY <1>7, <1>8

LEMMA SamplesFit ==
  ASSUME NEW last \in Nat, NEW base \in Nat, NEW step \in Nat, NEW count \in Nat, NEW gap \in BOOLEAN,
         base >= 1, step >= 1, last = 0 \/ gap \/ base > last, count <= MaxBatch,
         NEW samples, samples = Samples(base, step, count, gap)
  PROVE  samples \in Seq(SampleType) /\ Len(samples) <= MaxBatch /\ Accepted(last, samples)
<1>1. Samples(base, step, count, gap) \in Seq(SampleType) /\ Len(Samples(base, step, count, gap)) = count
  BY SamplesShape
<1>2. Accepted(last, Samples(base, step, count, gap))
  BY SamplesAccepted
<1>3. Len(samples) <= MaxBatch
  BY <1>1
<1> QED  BY <1>1, <1>2, <1>3, Zenon

\* qmi8658a_read_batch() places every batch behind the last sample, or marks the gap.
LEMMA SourceBatchFits ==
  ASSUME NEW last \in Nat, NEW snapshot \in Nat, NEW count \in 0..MaxBatch, NEW overflow \in BOOLEAN,
         snapshot >= 1
  PROVE  /\ SourceBatch(last, snapshot, count, overflow) \in Seq(SampleType)
         /\ Len(SourceBatch(last, snapshot, count, overflow)) <= MaxBatch
         /\ Accepted(last, SourceBatch(last, snapshot, count, overflow))
<1> DEFINE span == (count - 1) * Period
           base == IF snapshot > span THEN snapshot - span ELSE 1
           available == IF snapshot > last THEN snapshot - last ELSE 0
           step == available \div count
<1> USE ImuAssumption
<1>1. CASE count = 0
  <2>1. SourceBatch(last, snapshot, count, overflow) = <<>>
    BY <1>1 DEF SourceBatch
  <2> QED  BY <2>1 DEF Accepted
<1>2. CASE count # 0
  <2>1. span \in Nat
    BY <1>2
  <2>2. base \in Nat /\ base >= 1
    BY <2>1
  <2>3. available \in Nat /\ (available >= 1 => available = snapshot - last)
    OBVIOUS
  <2>4. Period \in Nat /\ Period >= 1 /\ TRUE \in BOOLEAN /\ count \in Nat /\ count <= MaxBatch
    OBVIOUS
  <2> HIDE DEF span, base, available
  <2>5. CASE last # 0 /\ base <= last /\ available >= count
    <3>1. step \in Nat /\ step >= 1
      BY <1>2, <2>3, <2>4, <2>5, Spread
    <3>2. SourceBatch(last, snapshot, count, overflow) = Samples(last + step, step, count, overflow)
      BY <1>2, <2>5 DEF SourceBatch, Respread, base, span, available
    <3>3. last + step \in Nat /\ last + step >= 1 /\ last + step > last
      BY <3>1
    <3> HIDE DEF step
    <3> QED  BY <2>4, <3>1, <3>2, <3>3, SamplesFit, Zenon
  <2>6. CASE last # 0 /\ base <= last /\ ~(available >= count)
    <3>1. SourceBatch(last, snapshot, count, overflow) = Samples(base, Period, count, TRUE)
      BY <1>2, <2>6 DEF SourceBatch, Respread, base, span, available
    <3> QED  BY <2>2, <2>4, <3>1, SamplesFit, Zenon
  <2>7. CASE ~(last # 0 /\ base <= last)
    <3>1. SourceBatch(last, snapshot, count, overflow) = Samples(base, Period, count, overflow)
      BY <1>2, <2>7 DEF SourceBatch, base, span
    <3>2. last = 0 \/ base > last
      BY <2>2, <2>7
    <3> QED  BY <2>2, <2>4, <3>1, <3>2, SamplesFit, Zenon
  <2> QED  BY <2>5, <2>6, <2>7
<1> QED  BY <1>1, <1>2

LEMMA LastTimeType ==
  ASSUME NEW samples \in Seq(SampleType), NEW otherwise \in Nat
  PROVE  LastTime(samples, otherwise) \in Nat
<1>1. CASE samples = <<>>
  BY <1>1 DEF LastTime
<1>2. CASE samples # <<>>
  <2>1. Len(samples) \in 1..Len(samples)
    BY <1>2, EmptySeq, LenProperties
  <2>2. samples[Len(samples)] \in SampleType
    BY <2>1, ElementOfSeq
  <2> QED  BY <1>2, <2>2 DEF LastTime, SampleType
<1> QED  BY <1>1, <1>2
-----------------------------------------------------------------------------
(* The inductive invariant.                                                *)

ThreadOK ==
  /\ clients \subseteq Clients /\ wakeup \in BOOLEAN /\ running \in BOOLEAN
  /\ thread \in {"check", "idle", "start", "poll", "recheck", "read", "process", "recover"}
  /\ published \in {"IDLE", "INITIALIZING", "READY", "ERROR"}
CountsOK == errors \in 0..(ErrorThreshold + 1) /\ seen \in Nat /\ now \in Nat /\ now >= 1
SourceOK == source \in [running : BOOLEAN, last : Nat]
BatchOK == batch \in Seq(SampleType) /\ Len(batch) <= MaxBatch

\* Samples are read while the thread has the source running.
ReadsRunning == thread \in {"poll", "recheck", "read", "process"} => running

\* While it runs the thread and the driver agree on the last sample, but for the batch under way.
TimesAgree ==
  running => IF thread = "process"
             THEN Accepted(seen, batch) /\ source.last = LastTime(batch, seen)
             ELSE source.last = seen

IInv == ThreadOK /\ CountsOK /\ SourceOK /\ BatchOK /\ ReadsRunning /\ TimesAgree

LEMMA IInvImplies == IInv => BatchAccepted
<1> SUFFICES ASSUME IInv PROVE BatchAccepted
  OBVIOUS
<1> USE DEF IInv
<1>1. source.running \in BOOLEAN /\ source.last \in Nat
  BY DEF SourceOK
<1>2. {wakeup, running, source.running} \subseteq BOOLEAN
  BY <1>1, Zenon DEF ThreadOK
<1>3. {seen, source.last, now} \subseteq Nat
  BY <1>1, Zenon DEF CountsOK
<1>4. TypeOK
  BY <1>2, <1>3, Zenon DEF TypeOK, ThreadOK, CountsOK, BatchOK, SampleType
<1>5. thread = "process" => Accepted(seen, batch)
  BY Zenon DEF ReadsRunning, TimesAgree
<1> QED  BY <1>4, <1>5, Zenon DEF BatchAccepted

LEMMA InitIInv == Init => IInv
<1> SUFFICES ASSUME Init PROVE IInv
  OBVIOUS
<1> USE DEF Init
<1>1. ThreadOK /\ ReadsRunning /\ TimesAgree
  BY DEF ThreadOK, ReadsRunning, TimesAgree
<1>2. CountsOK /\ SourceOK
  BY ImuAssumption DEF CountsOK, SourceOK
<1>3. BatchOK
  BY ImuAssumption, EmptySeq DEF BatchOK
<1> QED  BY <1>1, <1>2, <1>3 DEF IInv

\* A step that leaves the batch, the times and the source alone.
LEMMA Quiet ==
  ASSUME IInv, ThreadOK', UNCHANGED <<running, seen, errors, source, batch>>, now' \in Nat, now' >= now,
         thread' \in {"poll", "recheck", "read", "process"} => running,
         thread' = "process" <=> thread = "process"
  PROVE  IInv'
<1>1. CountsOK' /\ SourceOK' /\ BatchOK'
  BY DEF IInv, CountsOK, SourceOK, BatchOK
<1>2. ReadsRunning'
  BY Zenon DEF ReadsRunning
<1>3. TimesAgree'
  BY Zenon DEF IInv, TimesAgree
<1> QED  BY <1>1, <1>2, <1>3, Zenon DEF IInv

\* What imu_handle_failure() may do: it counts, it may report, and it may stop the source.
LEMMA FailureShape ==
  ASSUME IInv, HandleFailure(errors)
  PROVE  /\ errors' \in 0..(ErrorThreshold + 1)
         /\ published' \in {"IDLE", "INITIALIZING", "READY", "ERROR"}
         /\ running' \in BOOLEAN
         /\ SourceOK'
         /\ running' => running /\ source' = source
<1> USE ImuAssumption DEF IInv
<1>1. errors' \in 0..(ErrorThreshold + 1)
  BY DEF HandleFailure, CountsOK
<1>2. published' \in {"IDLE", "INITIALIZING", "READY", "ERROR"}
  BY DEF HandleFailure, ThreadOK, Publish
<1>3. (running' = running /\ source' = source) \/ StopSource
  BY DEF HandleFailure
<1>4. (running' = running /\ source' = source) \/ (running' = FALSE /\ source' \in {source, SourceStopped})
  BY <1>3, Zenon DEF StopSource
<1>5. running' \in BOOLEAN /\ (running' => running /\ source' = source)
  <2>1. running \in BOOLEAN
    BY Zenon DEF ThreadOK
  <2>2. CASE running' = running /\ source' = source
    BY <2>1, <2>2, Zenon
  <2>3. CASE running' = FALSE
    BY <2>3, Zenon
  <2> QED  BY <1>4, <2>2, <2>3, Zenon
<1>6. SourceStopped \in [running : BOOLEAN, last : Nat]
  BY DEF SourceStopped
<1>7. SourceOK'
  BY <1>4, <1>6, Zenon DEF SourceOK
<1> QED  BY <1>1, <1>2, <1>5, <1>7

LEMMA RequestKeeps ==
  ASSUME IInv, Command \/ TimerExpiry \/ Elapse
  PROVE  IInv'
<1> USE DEF IInv
<1>1. UNCHANGED <<running, seen, errors, source, batch, thread, published>>
  BY Zenon DEF Command, TimerExpiry, Elapse, runtimeVars, requestVars
<1>2. now' \in Nat /\ now' >= now
  BY DEF Command, TimerExpiry, Elapse, CountsOK
<1>3. clients' \subseteq Clients
  BY DEF Command, TimerExpiry, Elapse, requestVars, ThreadOK
<1>4. wakeup' \in BOOLEAN
  BY Zenon DEF Command, TimerExpiry, Elapse, requestVars, ThreadOK, Notice
<1>5. ThreadOK'
  BY <1>1, <1>3, <1>4, Zenon DEF ThreadOK
<1> QED  BY <1>1, <1>2, <1>5, Quiet, Zenon DEF ReadsRunning

LEMMA WaitKeeps ==
  ASSUME IInv, Idle \/ Poll \/ Recover \/ Recheck
  PROVE  IInv'
<1> USE DEF IInv
<1>1. UNCHANGED <<running, seen, errors, source, batch, published, clients, now>>
  BY Zenon DEF Idle, Poll, Recover, Recheck, Awake, runtimeVars, requestVars
<1>2. wakeup' \in BOOLEAN
  BY Zenon DEF Idle, Poll, Recover, Recheck, Awake, requestVars, ThreadOK
<1>3. /\ thread' \in {"check", "recheck", "read"}
      /\ thread' \in {"recheck", "read"} => thread \in {"poll", "recheck"}
      /\ thread # "process"
  BY DEF Idle, Poll, Recover, Recheck, Awake
<1>4. ThreadOK'
  BY <1>1, <1>2, <1>3 DEF ThreadOK
<1>5. thread' \in {"poll", "recheck", "read", "process"} => running
  BY <1>3 DEF ReadsRunning
<1>6. thread' # "process"
  BY <1>3
<1>7. now' \in Nat /\ now' >= now
  BY <1>1 DEF CountsOK
<1> QED  BY <1>1, <1>3, <1>4, <1>5, <1>6, <1>7, Quiet, Zenon

LEMMA CheckKeeps ==
  ASSUME IInv, Check
  PROVE  IInv'
<1> USE DEF IInv
<1>1. CASE clients # {}
  <2>1. UNCHANGED <<running, seen, errors, source, batch, published, clients, wakeup, now>>
    BY <1>1, Zenon DEF Check, requestVars
  <2>2. thread = "check" /\ thread' = IF running THEN "poll" ELSE "start"
    BY <1>1, Zenon DEF Check
  <2>3. ThreadOK'
    BY <2>1, <2>2 DEF ThreadOK
  <2>4. now' \in Nat /\ now' >= now
    BY <2>1 DEF CountsOK
  <2>5. thread # "process" /\ thread' # "process" /\ (thread' \in {"poll", "recheck", "read", "process"} => running)
    BY <2>2 DEF ThreadOK
  <2> QED  BY <2>1, <2>3, <2>4, <2>5, Quiet, Zenon
<1>2. CASE clients = {}
  <2>1. /\ thread' = "idle" /\ StopSource /\ Publish("IDLE")
        /\ UNCHANGED <<clients, wakeup, errors, seen, batch, now>>
    BY <1>2, Zenon DEF Check, requestVars
  <2>2. running' = FALSE /\ source' \in {source, SourceStopped}
    BY <2>1, Zenon DEF StopSource
  <2>3. SourceOK'
    <3>1. SourceStopped \in [running : BOOLEAN, last : Nat]
      BY DEF SourceStopped
    <3> QED  BY <2>2, <3>1, Zenon DEF SourceOK
  <2>4. published' \in {"IDLE", "INITIALIZING", "READY", "ERROR"}
    BY <2>1 DEF Publish, ThreadOK
  <2>5. ThreadOK'
    BY <2>1, <2>2, <2>4 DEF ThreadOK
  <2>6. CountsOK' /\ BatchOK'
    BY <2>1, Zenon DEF CountsOK, BatchOK
  <2>7. ReadsRunning' /\ TimesAgree'
    BY <2>1, <2>2 DEF ReadsRunning, TimesAgree
  <2> QED  BY <2>3, <2>5, <2>6, <2>7
<1> QED  BY <1>1, <1>2

LEMMA StartKeeps ==
  ASSUME IInv, Start
  PROVE  IInv'
<1> USE DEF IInv
<1>1. UNCHANGED <<clients, wakeup, batch, now>>
  BY Zenon DEF Start, requestVars
<1>2. BatchOK'
  BY <1>1, Zenon DEF BatchOK
<1>3. CASE thread' = "check" /\ running' = TRUE /\ source' = SourceStarted
           /\ seen' = 0 /\ errors' = 0 /\ Publish("INITIALIZING")
  <2>1. ThreadOK'
    BY <1>1, <1>3 DEF ThreadOK, Publish
  <2>2. CountsOK'
    BY <1>1, <1>3, ImuAssumption DEF CountsOK
  <2>3. SourceOK' /\ ReadsRunning' /\ TimesAgree'
    BY <1>3 DEF SourceOK, SourceStarted, ReadsRunning, TimesAgree
  <2> QED  BY <1>2, <2>1, <2>2, <2>3
<1>4. CASE thread' = "recover" /\ HandleFailure(errors) /\ UNCHANGED seen
  <2>1. /\ errors' \in 0..(ErrorThreshold + 1) /\ running' \in BOOLEAN /\ SourceOK'
        /\ published' \in {"IDLE", "INITIALIZING", "READY", "ERROR"}
        /\ running' => running /\ source' = source
    BY <1>4, FailureShape
  <2>2. ThreadOK'
    BY <1>1, <1>4, <2>1 DEF ThreadOK
  <2>3. CountsOK'
    BY <1>1, <1>4, <2>1 DEF CountsOK
  <2>4. ReadsRunning'
    BY <1>4 DEF ReadsRunning
  <2>5. thread = "start"
    BY Zenon DEF Start
  <2>6. TimesAgree'
    BY <1>4, <2>1, <2>5 DEF TimesAgree
  <2> QED  BY <1>2, <2>1, <2>2, <2>3, <2>4, <2>6
<1> QED  BY <1>3, <1>4, Zenon DEF Start

\* A failure of the thread's own step, in which it has neither read nor processed anything.
LEMMA FailureKeeps ==
  ASSUME IInv, HandleFailure(errors), AfterFailure, UNCHANGED <<clients, wakeup, seen, now>>,
         thread # "process", BatchOK'
  PROVE  IInv'
<1> USE DEF IInv
<1>1. /\ errors' \in 0..(ErrorThreshold + 1) /\ running' \in BOOLEAN /\ SourceOK'
      /\ published' \in {"IDLE", "INITIALIZING", "READY", "ERROR"}
      /\ running' => running /\ source' = source
  BY FailureShape
<1>2. thread' \in {"check", "recover"}
  BY Zenon DEF AfterFailure
<1>3. ThreadOK'
  BY <1>1, <1>2 DEF ThreadOK
<1>4. CountsOK'
  BY <1>1 DEF CountsOK
<1>5. ReadsRunning'
  BY <1>2 DEF ReadsRunning
<1>6. TimesAgree'
  BY <1>1, <1>2 DEF TimesAgree
<1> QED  BY <1>1, <1>3, <1>4, <1>5, <1>6

LEMMA ReadKeeps ==
  ASSUME IInv, Read
  PROVE  IInv'
<1> USE DEF IInv
<1>1. thread = "read" /\ running /\ UNCHANGED <<clients, wakeup, seen, now>>
  BY DEF Read, ReadsRunning, requestVars
<1>2. CASE HandleFailure(errors) /\ AfterFailure /\ UNCHANGED batch
  <2>1. BatchOK' /\ thread # "process"
    BY <1>1, <1>2 DEF BatchOK
  <2> QED  BY <1>1, <1>2, <2>1, FailureKeeps, Zenon
<1>3. ASSUME NEW count \in 0..MaxBatch, NEW overflow \in BOOLEAN,
             batch' = SourceBatch(source.last, now, count, overflow),
             source' = [source EXCEPT !.last = LastTime(batch', @)],
             thread' = "process", UNCHANGED <<running, errors, published>>
      PROVE  IInv'
  <2>1. source.last \in Nat /\ source.last = seen /\ now \in Nat /\ now >= 1
    BY <1>1 DEF SourceOK, TimesAgree, CountsOK
  <2>2. batch' \in Seq(SampleType) /\ Len(batch') <= MaxBatch /\ Accepted(seen, batch')
    BY <1>3, <2>1, SourceBatchFits, Zenon
  <2>3. LastTime(batch', seen) \in Nat
    BY <2>1, <2>2, LastTimeType, Zenon
  <2>4. SourceOK' /\ source'.last = LastTime(batch', seen)
    BY <1>3, <2>1, <2>3 DEF SourceOK
  <2>5. BatchOK'
    BY <2>2, Zenon DEF BatchOK
  <2>6. ThreadOK'
    BY <1>1, <1>3 DEF ThreadOK
  <2>7. CountsOK'
    BY <1>1, <1>3 DEF CountsOK
  <2>8. ReadsRunning'
    BY <1>1, <1>3, Zenon DEF ReadsRunning
  <2>9. TimesAgree'
    <3>1. Accepted(seen, batch)'
      BY <1>1, <2>2, Zenon DEF Accepted
    <3>2. (source.last = LastTime(batch, seen))'
      BY <1>1, <2>4, Zenon
    <3> QED  BY <1>3, <3>1, <3>2, Zenon DEF TimesAgree
  <2> QED  BY <2>4, <2>5, <2>6, <2>7, <2>8, <2>9
<1> QED  BY <1>2, <1>3, Zenon DEF Read

LEMMA ProcessKeeps ==
  ASSUME IInv, Process
  PROVE  IInv'
<1> USE DEF IInv
<1>1. /\ thread = "process" /\ running /\ batch' = <<>>
      /\ Accepted(seen, batch) /\ source.last = LastTime(batch, seen)
  BY Zenon DEF Process, ReadsRunning, TimesAgree
<1>2. /\ seen' = LastTime(batch, seen) /\ errors' = 0 /\ thread' = "check"
      /\ UNCHANGED <<running, source, clients, wakeup, now>>
      /\ published' = published \/ \E state \in {"READY", "INITIALIZING"} : Publish(state)
  BY <1>1, Zenon DEF Process, requestVars
<1>3. published' \in {"IDLE", "INITIALIZING", "READY", "ERROR"}
  BY <1>2 DEF Publish, ThreadOK
<1>4. ThreadOK'
  BY <1>2, <1>3 DEF ThreadOK
<1>5. CountsOK'
  <2>1. seen' \in Nat
    BY <1>1, <1>2 DEF SourceOK
  <2> QED  BY <1>2, <2>1, ImuAssumption DEF CountsOK
<1>6. SourceOK' /\ ReadsRunning' /\ TimesAgree'
  BY <1>1, <1>2 DEF SourceOK, ReadsRunning, TimesAgree
<1>7. BatchOK'
  BY <1>1, EmptySeq, ImuAssumption DEF BatchOK
<1> QED  BY <1>4, <1>5, <1>6, <1>7

LEMMA NextIInv == IInv /\ [Next]_vars => IInv'
<1> SUFFICES ASSUME IInv, [Next]_vars PROVE IInv'
  OBVIOUS
<1>1. CASE Command \/ TimerExpiry \/ Elapse
  BY <1>1, RequestKeeps
<1>2. CASE Check
  BY <1>2, CheckKeeps
<1>3. CASE Idle \/ Poll \/ Recover \/ Recheck
  BY <1>3, WaitKeeps
<1>4. CASE Start
  BY <1>4, StartKeeps
<1>5. CASE Read
  BY <1>5, ReadKeeps
<1>6. CASE Process
  BY <1>6, ProcessKeeps
<1>7. CASE UNCHANGED vars
  <2>1. UNCHANGED <<clients, wakeup, thread, running, errors, seen, source, batch, published, now>>
    BY <1>7, Zenon DEF vars, requestVars, runtimeVars
  <2> QED  BY <2>1 DEF IInv, ThreadOK, CountsOK, SourceOK, BatchOK, ReadsRunning, TimesAgree, Accepted, LastTime
<1> QED  BY <1>1, <1>2, <1>3, <1>4, <1>5, <1>6, <1>7, Zenon DEF Next, ImuThread

\* No batch of the driver is refused, whatever the clock and the sensor do
\* (qmi8658a_fifo.c:391-420 against imu.c:244-253).
THEOREM BatchesAccepted == Spec => []BatchAccepted
<1>1. Init => IInv
  BY InitIInv
<1>2. IInv /\ [Next]_vars => IInv'
  BY NextIInv
<1>3. IInv => BatchAccepted
  BY IInvImplies
<1> QED  BY <1>1, <1>2, <1>3, PTL DEF Spec
=============================================================================
