------------------------------- MODULE Consent -------------------------------
(***************************************************************************)
(* What the wallet promises its user, whatever its threads do: it asks one *)
(* question at a time, settles each question once, settles it as approved  *)
(* only when the user approved that very question, and tells a request of  *)
(* the user's presence only when a question of that request was so         *)
(* settled.  An approval that comes too late is remembered and has no      *)
(* effect.                                                                 *)
(***************************************************************************)
EXTENDS Naturals, Sequences

CONSTANT Requests    \* numbers of requests; 0 stands for a request of another kind

VARIABLES
  asked,       \* the questions: the request each belongs to and how it was settled
  open,        \* the question waiting for the user, 0 if there is none
  approved,    \* the questions the user has approved
  present      \* the request that was told of the user's presence last, 0 if none

consentVars == <<asked, open, approved, present>>

Begin == asked = <<>> /\ open = 0 /\ approved = {} /\ present = 0

Ask(r) ==
  /\ open = 0
  /\ asked' = Append(asked, [fido |-> r, outcome |-> "none"]) /\ open' = Len(asked) + 1
  /\ UNCHANGED <<approved, present>>

Approve(i) == approved' = approved \cup {i} /\ UNCHANGED <<asked, open, present>>

Settle(outcome) ==
  /\ open # 0 /\ asked[open].outcome = "none"
  /\ outcome = "Approved" => open \in approved
  /\ asked' = [asked EXCEPT ![open].outcome = outcome] /\ open' = 0
  /\ UNCHANGED <<approved, present>>

Report(r) ==
  /\ \E i \in approved : i \in DOMAIN asked /\ asked[i] = [fido |-> r, outcome |-> "Approved"]
  /\ present' = r
  /\ UNCHANGED <<asked, open, approved>>

Withdraw == present' = 0 /\ UNCHANGED <<asked, open, approved>>

Progress ==
  \/ \E r \in Requests : Ask(r) \/ Report(r)
  \/ \E i \in DOMAIN asked : Approve(i)
  \/ \E outcome \in {"Approved", "Rejected", "Cancelled"} : Settle(outcome)
  \/ Withdraw

Promised == Begin /\ [][Progress]_consentVars
=============================================================================
