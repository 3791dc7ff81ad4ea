--------------------------------- MODULE Imu ---------------------------------
(***************************************************************************)
(* The acquisition thread of the IMU (src/imu/imu.c) over the driver of    *)
(* the QMI8658A (drivers/sensor/qmi8658a_fifo/qmi8658a_fifo.c).  The Tilt  *)
(* page and the entropy collector set and clear their bits; the thread     *)
(* starts, polls, restarts and stops the source.  A sample is its time and *)
(* whether it follows a gap: values, filters, register contents and what   *)
(* the collector does with a batch (Entropy) are left out.                 *)
(***************************************************************************)
EXTENDS Integers, Sequences

CONSTANTS Clients,         \* enum app_imu_client
          ErrorThreshold,  \* IMU_ERROR_THRESHOLD, 5 in the firmware
          MaxBatch,        \* OSKEY_IMU_SOURCE_MAX_BATCH
          Period,          \* period_ns: between two samples of the sensor
          MaxTime          \* bound on the clock, which does not stop anything else

ASSUME ImuAssumption ==
  Clients # {} /\ {ErrorThreshold, MaxBatch, Period, MaxTime} \subseteq Nat \ {0}

VARIABLES
  clients, wakeup,       \* imu_clients; the semaphore imu_wakeup
  thread,                \* "check", "idle", "start", "poll", "recheck", "read", "process" or "recover"
  running, errors, seen, \* runtime.running (imu_timer ticks with it), consecutive_errors, last_timestamp_ns
  source,                \* the driver's data: running and last_timestamp_ns
  batch,                 \* the samples of the last reading
  published,             \* imu_state
  now                    \* qmi8658a_timestamp_now()

requestVars == <<clients, wakeup>>
runtimeVars == <<running, errors, seen>>
vars == <<requestVars, thread, runtimeVars, source, batch, published, now>>

Init ==
  /\ clients = {} /\ wakeup = FALSE
  /\ thread = "check" /\ running = FALSE /\ errors = 0 /\ seen = 0
  /\ source = [running |-> FALSE, last |-> 0] /\ batch = <<>>
  /\ published = "IDLE" /\ now = 1

-----------------------------------------------------------------------------
(* The driver.                                                             *)

\* qmi8658a_start() forgets the time of the last sample; any of its register writes may fail.
SourceStarted == [running |-> TRUE, last |-> 0]

\* qmi8658a_stop(): off, even when a register could not be written.
SourceStopped == [running |-> FALSE, last |-> 0]

\* count samples from base on.
Samples(base, step, count, gap) ==
  [i \in 1..count |-> [time |-> base + (i - 1) * step, gap |-> gap /\ i = 1]]

\* Faulty variant: samples that would precede the last one are always spread over the time since.
RespreadAlways(last, snapshot, base, count, overflow) ==
  LET step == (snapshot - last) \div count
  IN  Samples(last + step, step, count, overflow)

\* Samples that would precede the last one are spread over the time since, if there is enough of it.
Respread(last, snapshot, base, count, overflow) ==
  LET available == IF snapshot > last THEN snapshot - last ELSE 0
      step == available \div count
  IN  IF available >= count THEN Samples(last + step, step, count, overflow)
      ELSE Samples(base, Period, count, TRUE)

\* qmi8658a_read_batch(): the last sample is as old as the reading of the FIFO's count.
SourceBatch(last, snapshot, count, overflow) ==
  LET span == (count - 1) * Period
      base == IF snapshot > span THEN snapshot - span ELSE 1
  IN  IF count = 0 THEN <<>>
      ELSE IF last # 0 /\ base <= last THEN Respread(last, snapshot, base, count, overflow)
      ELSE Samples(base, Period, count, overflow)

LastTime(samples, otherwise) == IF samples = <<>> THEN otherwise ELSE samples[Len(samples)].time

-----------------------------------------------------------------------------
(* Requests, and the clock.                                                *)

\* Faulty variant: a bit that is set does not wake the thread.
NoticeSilent == wakeup' = wakeup

Notice == wakeup' = TRUE

\* imu_command_listener(); a page that is drawn again stops and starts.
Command ==
  /\ \E c \in Clients : clients' \in {clients \cup {c}, clients \ {c}}
  /\ Notice
  /\ UNCHANGED <<thread, runtimeVars, source, batch, published, now>>

\* imu_timer_expiry()
TimerExpiry ==
  /\ running /\ wakeup' = TRUE
  /\ UNCHANGED <<clients, thread, runtimeVars, source, batch, published, now>>

Elapse ==
  /\ now < MaxTime /\ now' = now + 1
  /\ UNCHANGED <<requestVars, thread, runtimeVars, source, batch, published>>

-----------------------------------------------------------------------------
(* imu_thread()                                                            *)

\* imu_publish_state(): the channel may be taken for too long.
Publish(state) == published' \in {published, state}

\* imu_stop_source()
StopSource ==
  running' = FALSE /\ source' = IF running THEN SourceStopped ELSE source

\* imu_handle_failure(): the failure that reaches the threshold is reported, later ones stop only.
HandleFailure(count) ==
  LET more == IF count < ErrorThreshold THEN count + 1 ELSE count
  IN  /\ errors' = IF more = ErrorThreshold THEN more + 1 ELSE more
      /\ IF more = ErrorThreshold THEN Publish("ERROR") ELSE UNCHANGED published
      /\ IF more < ErrorThreshold THEN UNCHANGED <<running, source>> ELSE StopSource

Check ==
  /\ thread = "check"
  /\ IF clients = {}
     THEN thread' = "idle" /\ StopSource /\ Publish("IDLE")
     ELSE thread' = (IF running THEN "poll" ELSE "start") /\ UNCHANGED <<running, source, published>>
  /\ UNCHANGED <<requestVars, errors, seen, batch, now>>

\* k_sem_take(&imu_wakeup, K_FOREVER)
Awake(waits, then) ==
  /\ thread = waits /\ wakeup /\ wakeup' = FALSE /\ thread' = then
  /\ UNCHANGED <<clients, runtimeVars, source, batch, published, now>>
Idle == Awake("idle", "check")
Poll == Awake("poll", "recheck")

\* imu_start_source(), which waits for the gyroscope.
Start ==
  /\ thread = "start"
  /\ \/ /\ thread' = "check" /\ running' = TRUE /\ source' = SourceStarted
        /\ seen' = 0 /\ errors' = 0 /\ Publish("INITIALIZING")
     \/ thread' = "recover" /\ HandleFailure(errors) /\ UNCHANGED seen
  /\ UNCHANGED <<requestVars, batch, now>>

\* k_sem_take(&imu_wakeup, K_MSEC(100)): a wake-up only shortens the pause.
Recover ==
  /\ thread = "recover" /\ thread' = "check" /\ wakeup' = FALSE
  /\ UNCHANGED <<clients, runtimeVars, source, batch, published, now>>

Recheck ==
  /\ thread = "recheck" /\ thread' = IF clients = {} THEN "check" ELSE "read"
  /\ UNCHANGED <<requestVars, runtimeVars, source, batch, published, now>>

AfterFailure == thread' = IF running' THEN "check" ELSE "recover"

\* The FIFO's count may be no whole number of samples yet (count 0), or more than a batch.
Read ==
  /\ thread = "read"
  /\ \/ \E count \in 0..MaxBatch, overflow \in BOOLEAN :
          /\ batch' = SourceBatch(source.last, now, count, overflow)
          /\ source' = [source EXCEPT !.last = LastTime(batch', @)]
          /\ thread' = "process" /\ UNCHANGED <<running, errors, published>>
     \/ HandleFailure(errors) /\ AfterFailure /\ UNCHANGED batch
  /\ UNCHANGED <<requestVars, seen, now>>

\* imu_process_batch(): times are not 0, and increase but over a gap.
Accepted(last, samples) ==
  \A i \in DOMAIN samples :
    LET before == IF i = 1 THEN last ELSE samples[i - 1].time
    IN  samples[i].time # 0 /\ (before = 0 \/ samples[i].gap \/ samples[i].time > before)

\* Each sample publishes whether the filter has settled.
Process ==
  /\ thread = "process" /\ batch' = <<>>
  /\ IF Accepted(seen, batch)
     THEN /\ seen' = LastTime(batch, seen) /\ errors' = 0 /\ thread' = "check"
          /\ IF batch = <<>> THEN UNCHANGED published
             ELSE \E state \in {"READY", "INITIALIZING"} : Publish(state)
          /\ UNCHANGED <<running, source>>
     ELSE HandleFailure(errors) /\ AfterFailure /\ UNCHANGED seen
  /\ UNCHANGED <<requestVars, now>>

ImuThread == Check \/ Idle \/ Poll \/ Start \/ Recover \/ Recheck \/ Read \/ Process

Next == Command \/ TimerExpiry \/ Elapse \/ ImuThread

\* The thread runs, and the timer ticks while it is started.
Spec == Init /\ [][Next]_vars /\ WF_vars(ImuThread) /\ WF_vars(TimerExpiry)

-----------------------------------------------------------------------------
\* The type invariant of the thread and the driver.
TypeOK ==
  /\ clients \subseteq Clients /\ {wakeup, running, source.running} \subseteq BOOLEAN
  /\ thread \in {"check", "idle", "start", "poll", "recheck", "read", "process", "recover"}
  /\ errors \in 0..(ErrorThreshold + 1) /\ {seen, source.last, now} \subseteq Nat
  /\ batch \in Seq([time : Nat, gap : BOOLEAN]) /\ Len(batch) <= MaxBatch
  /\ published \in {"IDLE", "INITIALIZING", "READY", "ERROR"}

\* Whatever the sensor's clock and the reader's delays make of the times, the driver gives the
\* thread no batch that it refuses: a source that works is never stopped for its own timestamps
\* (qmi8658a_fifo.c:391-420 against imu.c:244-253).
BatchAccepted == TypeOK /\ (thread = "process" => Accepted(seen, batch))

\* As long as a client wants samples, batches keep coming or the source is started again: no
\* request is lost between the bits and the semaphore, and no failure is the last attempt
\* (imu.c:358-398, 411-422).
AcquisitionServed == clients # {} ~> clients = {} \/ thread \in {"start", "process"}

\* When the last client has gone the sensor is switched off, by the thread alone.
AcquisitionStops == clients = {} ~> clients # {} \/ ~(running \/ source.running)

AcquisitionFollows == AcquisitionServed /\ AcquisitionStops
=============================================================================
