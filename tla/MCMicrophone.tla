----------------------------- MODULE MCMicrophone -----------------------------
(* Two rates; the model is finite as it stands. *)
EXTENDS Microphone
=============================================================================
