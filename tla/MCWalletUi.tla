----------------------------- MODULE MCWalletUi -----------------------------
(* The touch UI and a transport, on a board without FIDO2.                 *)
EXTENDS Wallet
=============================================================================
