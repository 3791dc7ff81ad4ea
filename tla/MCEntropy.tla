------------------------------ MODULE MCEntropy ------------------------------
(* Three sessions: every thread meets sessions it did not sample for.   *)
EXTENDS Entropy
=============================================================================
