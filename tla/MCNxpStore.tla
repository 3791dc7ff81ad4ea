---------------------------- MODULE MCNxpStore ----------------------------
(* Two PIN keys (right and wrong), two seeds and two salts, attempt limit 3. *)
EXTENDS NxpStore

CONSTANTS k1, k2, s1, s2, a1, a2

MCPinKeys == {k1, k2}
MCSeeds == {s1, s2}
MCSalts == {a1, a2}
=============================================================================
