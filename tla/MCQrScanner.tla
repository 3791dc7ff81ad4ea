---------------------------- MODULE MCQrScanner ----------------------------
(* Two sessions: thread, decoder and events are late with the first one.   *)
EXTENDS QrScanner
=============================================================================
