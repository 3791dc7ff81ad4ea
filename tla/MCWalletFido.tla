---------------------------- MODULE MCWalletFido ----------------------------
(* The FIDO2 service and the user button, on a board without a display.    *)
EXTENDS Wallet
=============================================================================
