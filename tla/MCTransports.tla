---------------------------- MODULE MCTransports ----------------------------
(* Two links and three requests: an answer of the first may meet the second. *)
EXTENDS Transports
=============================================================================
