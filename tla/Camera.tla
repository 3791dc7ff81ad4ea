------------------------------- MODULE Camera -------------------------------
(***************************************************************************)
(* The camera service (src/camera/camera.c): an atomic flag gives the      *)
(* capture device to one of the threads that want to film, the QR scanner  *)
(* and the entropy collection.  A start is cut where another thread may    *)
(* overtake it: after the flag was taken.  The state published for the     *)
(* status page is left out, and buffers are "held" or not, all together.   *)
(***************************************************************************)
EXTENDS Naturals, FiniteSets

CameraUsers == {"scanner", "entropy"}

VARIABLES
  inUse,         \* camera_in_use
  buffers,       \* some camera_buffers[] is not NULL
  cam            \* per user: "off", "starting" (inside app_camera_start) or "on"

cameraVars == <<inUse, buffers, cam>>

CameraStart == inUse = FALSE /\ buffers = FALSE /\ cam = [u \in CameraUsers |-> "off"]

\* Faulty variant: a start that is refused leaves through the error path, which clears the flag.
BusyClearing(u) == inUse /\ inUse' = FALSE /\ UNCHANGED <<buffers, cam>>

\* app_camera_start() while another thread films, or after a stop that failed: -EBUSY.
Busy(u) == inUse /\ UNCHANGED cameraVars

\* The compare-and-swap of app_camera_start().
Claim(u) ==
  /\ ~inUse /\ inUse' = TRUE
  /\ cam' = [cam EXCEPT ![u] = "starting"]
  /\ UNCHANGED buffers

\* The stream runs on new buffers; those of an earlier failure would have refused the start.
Started(u) ==
  /\ cam[u] = "starting" /\ ~buffers
  /\ buffers' = TRUE /\ cam' = [cam EXCEPT ![u] = "on"]
  /\ UNCHANGED inUse

\* The start fails.  Buffers that cannot be flushed stay with the driver, the flag does not.
NotStarted(u) ==
  /\ cam[u] = "starting"
  /\ buffers' \in {buffers, TRUE} /\ inUse' = FALSE
  /\ cam' = [cam EXCEPT ![u] = "off"]

\* app_camera_stop()
Stopped(u) ==
  /\ cam[u] = "on"
  /\ buffers' = FALSE /\ inUse' = FALSE /\ cam' = [cam EXCEPT ![u] = "off"]

\* A stop that fails keeps flag and buffers, and its thread does not try again.
StopFailed(u) ==
  /\ cam[u] = "on"
  /\ cam' = [cam EXCEPT ![u] = "off"] /\ UNCHANGED <<inUse, buffers>>

\* A whole visit of the entropy thread: start, frames, stop (src/entropy/entropy.c:758-806).
EntropyFilms ==
  \/ cam["entropy"] = "off" /\ (Busy("entropy") \/ Claim("entropy"))
  \/ Started("entropy") \/ NotStarted("entropy")
  \/ Stopped("entropy") \/ StopFailed("entropy")
=============================================================================
