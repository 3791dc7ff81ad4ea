------------------------------ MODULE MCWifiScan ------------------------------
(* Three networks of three strengths for a list of two. *)
EXTENDS WifiScan

Strengths == -3..-1
=============================================================================
