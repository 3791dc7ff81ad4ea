------------------------------- MODULE Button -------------------------------
(***************************************************************************)
(* The user button (src/gpio.c).  The interrupt remembers the confirmation *)
(* that is active at the moment of the press; a work item of the system    *)
(* queue submits the approval later, when that confirmation may be over.   *)
(* confirmation_changed(), the listener, is ButtonListener of WalletCore.  *)
(***************************************************************************)
EXTENDS WalletCore

VARIABLES
  pressed,       \* pressed_confirmation, 0 if the work item has nothing to take
  approving      \* id the work item has taken and waits to submit, 0 if it is not running

buttonVars == <<pressed, approving>>

\* button_pressed(): one press is remembered until the work item has taken it.
Press ==
  /\ activeConf # 0 /\ pressed = 0
  /\ pressed' = activeConf
  /\ consented' = consented \cup {activeConf}
  /\ UNCHANGED <<ready, busVars, resVars, execVars, runtimeVars, confVars, walletChan, approving>>

\* Faulty variant: the work item asks which confirmation is active instead of which was pressed.
TakeActive ==
  /\ pressed # 0 /\ approving = 0
  /\ approving' = activeConf /\ pressed' = 0
  /\ UNCHANGED coreVars

TakePress ==
  /\ pressed # 0 /\ approving = 0
  /\ approving' = pressed /\ pressed' = 0
  /\ UNCHANGED coreVars

\* submit_confirmation(): after 100 ms without room in the queue the press is lost.
SubmitPress ==
  /\ approving # 0
  /\ Enqueue(Confirm("Approve", approving)) \/ Refused(Confirm("Approve", approving))
  /\ approving' = 0
  /\ UNCHANGED <<ready, resVars, execVars, runtimeVars, consented, confVars, walletChan, pressed>>

ButtonWork == TakePress \/ SubmitPress

ButtonStep == Press \/ ButtonWork

ButtonStart == pressed = 0 /\ approving = 0
=============================================================================
