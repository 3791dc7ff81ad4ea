-------------------------------- MODULE MCImu --------------------------------
(* Two clients; batches of up to three samples, three ticks of the clock    *)
(* apart, so that readings come early, late and together.                   *)
EXTENDS Imu
=============================================================================
