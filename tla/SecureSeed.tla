----------------------------- MODULE SecureSeed -----------------------------
(***************************************************************************)
(* What the secure element store promises, without channels, faults or     *)
(* return codes: a vault that is empty, half-provisioned or holds one seed *)
(* under one PIN key; a bounded number of wrong PINs in a row, which only  *)
(* wiping the vault resets; and a seed that leaves the vault only in the   *)
(* session of an accepted PIN.                                             *)
(***************************************************************************)
EXTENDS Naturals

CONSTANTS PinKeys, Seeds, Limit, NoValue

VARIABLES stage,     \* "empty", "partial" or "full"
          owner,     \* PIN key the full vault opens to, NoValue otherwise
          content,   \* seed the full vault holds, NoValue otherwise
          tries,     \* wrong PINs since the last right one
          session,   \* TRUE while an accepted PIN's session is open
          released   \* seed in the caller's hands, or NoValue

vault == <<stage, owner, content>>
svars == <<vault, tries, session, released>>

Init ==
  /\ stage = "empty" /\ owner = NoValue /\ content = NoValue
  /\ tries = 0 /\ session = FALSE /\ released = NoValue

\* Provisioning only ever moves forward from an empty vault.
Provision ==
  /\ stage # "full" /\ tries = 0
  /\ \/ stage' = "partial" /\ owner' = NoValue /\ content' = NoValue
     \/ stage' = "full" /\ owner' \in PinKeys /\ content' \in Seeds
  /\ UNCHANGED <<tries, session, released>>

\* One PIN is judged; its session opens when the verdict is heard.
Accept ==
  /\ stage = "full" /\ tries < Limit /\ ~session
  /\ tries' = 0 /\ session' \in BOOLEAN
  /\ UNCHANGED <<vault, released>>

Reject ==
  /\ stage = "full" /\ tries < Limit
  /\ tries' = tries + 1
  /\ UNCHANGED <<vault, session, released>>

\* The seed leaves in an accepted PIN's session, which ends with it.
Release ==
  /\ stage = "full" /\ session
  /\ released' = content /\ session' = FALSE
  /\ UNCHANGED <<vault, tries>>

\* The caller's buffer is wiped and any session closed.
Forget ==
  /\ released' = NoValue /\ session' = FALSE
  /\ UNCHANGED <<vault, tries>>

\* Deletion removes every object and the counter at once.
Wipe ==
  /\ stage' = "empty" /\ owner' = NoValue /\ content' = NoValue /\ tries' = 0
  /\ UNCHANGED <<session, released>>

Next == Provision \/ Accept \/ Reject \/ Release \/ Forget \/ Wipe

Spec == Init /\ [][Next]_svars
=============================================================================
