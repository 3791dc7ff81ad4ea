-------------------------------- MODULE MCWifi --------------------------------
(* All builds and preferences; the model is finite as it stands. *)
EXTENDS Wifi
=============================================================================
