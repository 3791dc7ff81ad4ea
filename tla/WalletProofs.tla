---------------------------- MODULE WalletProofs ----------------------------
(***************************************************************************)
(* Consent, for every queue depth, pool size and number of requests: what  *)
(* the user approved and what is reported to have been approved.           *)
(* The invariant follows a choice on its way.  An approval may be inside   *)
(* the button, in the command queue, with the core thread, or, as the      *)
(* success of a FIDO2 request, in an effect or in the result queue; each   *)
(* of these places holds only "good" items, and what is good stays good    *)
(* while the history of approvals grows.                                   *)
(* A second invariant says which stage of being shown or hidden each copy  *)
(* of the confirmation is at, a third accounts for the fragments of the    *)
(* two payload pools; with them the types and the contract with the user   *)
(* (Consent) are proved.                                                   *)
(***************************************************************************)
EXTENDS Wallet, SequenceTheorems, WellFoundedInduction, TLAPS

Outcomes == {"none", "Approved", "Rejected", "Cancelled"}
AskedType == [fido : Nat, outcome : Outcomes]
ConfType == [id : Nat, fido : Nat, fits : BOOLEAN]
ChannelType == [id : Nat, phase : {"IDLE", "REQUIRED", "COMPLETED"}]

\* A confirmation of FIDO2 request r was approved by the user and settled so.
Settled(r) ==
  \E i \in DOMAIN asked : i \in consented /\ asked[i].fido = r /\ asked[i].outcome = "Approved"

\* An approval names what the user approved; a FIDO2 command names a request that was made, and
\* one that needs no user is not of the present request for user presence.
GoodCommands ==
  {x \in CommandType :
     /\ x.kind = "Confirm" /\ x.req = "Approve" => x.id \in consented
     /\ x.kind = "Fido" => x.id <= sequence
     /\ x.kind = "Fido" /\ x.req = "Register" /\ x.id = request.id => request.kind # "Confirm"}

\* A success of the present request for user presence is backed by an approval.
Backed(id, what) ==
  /\ id <= sequence
  /\ what = "Success" /\ id = request.id /\ request.kind = "Confirm" => Settled(id)

GoodEffects == {x \in EffectType : x.type = "Fido" => Backed(x.id, x.what)}
GoodResults == {Result(x) : x \in {y \in GoodEffects : y.type = "Fido"}}

Queues ==
  /\ cmdq \in Seq(GoodCommands) /\ command \in GoodCommands
  /\ effects \in Seq(GoodEffects) /\ fidoq \in Seq(GoodResults)

\* The runtime's pending confirmation is on its record, unsettled.
Pending ==
  /\ pending \in ConfType /\ pending.fido <= sequence
  /\ asked \in Seq(AskedType)
  /\ pending # NoConf =>
       /\ pending.id \in DOMAIN asked
       /\ asked[pending.id] = [fido |-> pending.fido, outcome |-> "none"]

Requests ==
  /\ sequence \in Nat /\ cancelled \in Nat /\ cancelled <= sequence
  /\ activeReq \in Nat /\ activeReq <= sequence
  /\ request \in [kind : {"none", "Confirm", "Register"}, id : Nat] /\ request.id <= sequence

\* Numbers of confirmations, wherever they are kept.
Numbers ==
  /\ {reject, snapshot, activeConf, pressed, approving, confirmation} \subseteq Nat
  /\ {channel, initial, next} \subseteq ChannelType

\* A press that has not been submitted yet was the user's.
Presses == {pressed, approving} \subseteq consented \cup {0}

PresenceBacked ==
  /\ reply.kind = "Confirm" /\ reply.out = "Success" => Settled(reply.id)

\* The effect that is being published stays the current one until it has been.
Publishing == corePc \in {"publish", "clear"} => effects # <<>>

IInv ==
  /\ Queues /\ Publishing /\ Pending /\ Requests /\ Numbers /\ Presses
  /\ ApprovalIsConsent /\ PresenceBacked

-----------------------------------------------------------------------------
(* What is good stays good.                                                *)

\* The history of approvals only grows.
Grows ==
  /\ consented \subseteq consented'
  /\ \A r : Settled(r) => Settled(r)'

\* Requests are unchanged, or a new one is made whose number nothing bears yet.
Newer ==
  /\ sequence \in Nat /\ sequence' \in Nat /\ sequence <= sequence'
  /\ request' = request \/ (request'.id \in Nat /\ sequence < request'.id)

\* Growing histories and newer requests leave every good item good.
LEMMA GoodStays ==
  ASSUME Grows, Newer
  PROVE  /\ GoodCommands \subseteq GoodCommands'
         /\ GoodEffects \subseteq GoodEffects'
         /\ GoodResults \subseteq GoodResults'
  <1>1. GoodCommands \subseteq GoodCommands'
    BY DEF Grows, Newer, GoodCommands, CommandType
  <1>2. ASSUME NEW id \in Nat, NEW what, Backed(id, what) PROVE Backed(id, what)'
    BY <1>2 DEF Backed, Grows, Newer
  <1>3. GoodEffects \subseteq GoodEffects'
    <2>1. \A x \in GoodEffects : x \in EffectType /\ x.id \in Nat
      BY DEF GoodEffects, EffectType
    <2> QED
      BY <1>2, <2>1 DEF GoodEffects
  <1>4. GoodResults \subseteq GoodResults'
    BY <1>3 DEF GoodResults
  <1> QED
    BY <1>1, <1>3, <1>4

\* So each queue keeps what it holds.
LEMMA QueuesStay ==
  ASSUME Queues, Grows, Newer
  PROVE  /\ cmdq \in Seq(GoodCommands') /\ command \in GoodCommands'
         /\ effects \in Seq(GoodEffects') /\ fidoq \in Seq(GoodResults')
  BY GoodStays, SeqMonotonic DEF Queues

\* Steps that settle no confirmation.
LEMMA SameHistory ==
  ASSUME UNCHANGED asked, consented \subseteq consented'
  PROVE  Grows
  BY DEF Grows, Settled

\* Steps that make no FIDO2 request.
LEMMA SameRequests ==
  ASSUME Requests, UNCHANGED <<sequence, request>>
  PROVE  Newer
  BY DEF Requests, Newer

-----------------------------------------------------------------------------
(* The runtime's reactions.                                                *)

\* Effects that tell no FIDO2 request anything but a success it has a right to.
EffectsFor(req, ok) ==
  {x \in EffectType : x.type = "Fido" => x.id = req /\ (x.what = "Success" => ok)}

\* The end of a confirmation tells only its own request, and of success only after an approval.
LEMMA EndEffects ==
  ASSUME pending \in ConfType, NEW out \in {"Approved", "Rejected", "Cancelled"}
  PROVE  /\ End(out).effects \in Seq(EffectsFor(pending.fido, out = "Approved"))
         /\ End(out).pending = NoConf /\ End(out).outcome = out
         /\ End(out).effects \o <<LocalResult>> \in Seq(EffectsFor(pending.fido, out = "Approved"))
  <1> DEFINE E == EffectsFor(pending.fido, out = "Approved")
             told == Effect("Fido", pending.fido, IF out = "Approved" THEN "Success" ELSE "Cancelled", 0)
             tells == IF pending.fido = 0 THEN <<>> ELSE <<told>>
  <1>1. /\ Completed(pending.id, out) \in E /\ State("Ready") \in E /\ LocalResult \in E
    BY DEF Completed, State, LocalResult, Effect, EffectsFor, EffectType, ConfType, Sizes
  <1>2. told \in E
    <2>1. told \in EffectType
      BY DEF Effect, EffectType, ConfType, Sizes
    <2>2. told.id = pending.fido /\ (told.what = "Success" => out = "Approved")
      BY DEF Effect
    <2> QED
      BY <2>1, <2>2 DEF EffectsFor
  <1>3. tells \in Seq(E)
    <2>1. <<told>> \in Seq(E)
      BY <1>2
    <2> HIDE DEF E, told
    <2>2. <<>> \in Seq(E)
      BY EmptySeq
    <2> QED
      BY <2>1, <2>2
  <1>4. /\ <<Completed(pending.id, out)>> \in Seq(E) /\ <<State("Ready")>> \in Seq(E)
        /\ <<LocalResult>> \in Seq(E)
    BY <1>1
  <1> HIDE DEF E, tells
  <1>5. <<Completed(pending.id, out)>> \o tells \o <<State("Ready")>> \in Seq(E)
    BY <1>3, <1>4, ConcatProperties
  <1>6. End(out) = Reaction(NoConf, out, <<Completed(pending.id, out)>> \o tells \o <<State("Ready")>>)
    BY DEF End, tells
  <1>7. End(out).effects \in Seq(E)
    BY <1>5, <1>6 DEF Reaction
  <1>8. End(out).effects \o <<LocalResult>> \in Seq(E)
    BY <1>4, <1>7, ConcatProperties
  <1> QED
    BY <1>6, <1>7, <1>8 DEF Reaction, E

\* The three things a command may do to the pending confirmation.
Kept(x, c) ==
  /\ x.pending = pending /\ x.outcome = "none"
  /\ x.effects \in Seq({e \in EffectType :
       e.type = "Fido" => c.kind = "Fido" /\ e.id = c.id /\ (e.what = "Success" => c.req = "Register")})

Asks(x, c) ==
  /\ pending = NoConf /\ x.outcome = "none"
  /\ \E r \in Nat, f \in BOOLEAN :
       /\ r = 0 \/ (c.kind = "Fido" /\ r = c.id)
       /\ x.pending = [id |-> Len(asked) + 1, fido |-> r, fits |-> f]
  /\ x.effects \in Seq({e \in EffectType : e.type # "Fido"})

Ends(x, c) ==
  /\ pending # NoConf /\ x.pending = NoConf
  /\ x.outcome \in {"Approved", "Rejected", "Cancelled"}
  /\ x.outcome = "Approved" => c.kind = "Confirm" /\ c.req = "Approve" /\ c.id = pending.id
  /\ x.effects \in Seq(EffectsFor(pending.fido, x.outcome = "Approved"))

\* Every reaction of the runtime is one of the three.
LEMMA HandleCases ==
  ASSUME Pending, NEW c \in CommandType, NEW x \in Handle(c)
  PROVE  Kept(x, c) \/ Asks(x, c) \/ Ends(x, c)
  <1>1. ASSUME NEW r \in Nat, CanAsk, x \in Ask(r), r = 0 \/ (c.kind = "Fido" /\ r = c.id)
        PROVE  Asks(x, c)
    <2>1. Len(asked) \in Nat
      BY LenProperties DEF Pending
    <2>2. PICK f \in BOOLEAN :
            x = Reaction([id |-> Len(asked) + 1, fido |-> r, fits |-> f], "none",
                         <<Required(Len(asked) + 1), State("Busy")>>)
      BY <1>1 DEF Ask
    <2>3. <<Required(Len(asked) + 1), State("Busy")>> \in Seq({e \in EffectType : e.type # "Fido"})
      BY <2>1 DEF Required, State, Effect, EffectType, Sizes
    <2> QED
      BY <1>1, <2>2, <2>3 DEF Asks, Reaction, CanAsk
  <1>2. ASSUME NEW es, x = Keep(es),
               es \in Seq({e \in EffectType : e.type = "Fido" =>
                 c.kind = "Fido" /\ e.id = c.id /\ (e.what = "Success" => c.req = "Register")})
        PROVE  Kept(x, c)
    BY <1>2 DEF Keep, Reaction, Kept
  <1>3. ASSUME NEW out \in {"Approved", "Rejected", "Cancelled"}, x = End(out), pending # NoConf,
               out = "Approved" => c.kind = "Confirm" /\ c.req = "Approve" /\ c.id = pending.id
        PROVE  Ends(x, c)
    BY <1>3, EndEffects DEF Pending, Ends
  <1>10. ASSUME NEW what \in {"Success", "Failed"}, NEW n \in {0, 1}, c.kind = "Fido",
                what = "Success" => c.req = "Register"
         PROVE  <<Effect("Fido", c.id, what, n)>> \in Seq({e \in EffectType : e.type = "Fido" =>
                  c.kind = "Fido" /\ e.id = c.id /\ (e.what = "Success" => c.req = "Register")})
    <2>1. Effect("Fido", c.id, what, n) \in EffectType
      <3>1. c.id \in Nat /\ n \in Sizes
        BY DEF CommandType, Sizes
      <3> QED
        BY <3>1 DEF Effect, EffectType
    <2>2. /\ Effect("Fido", c.id, what, n).id = c.id
          /\ Effect("Fido", c.id, what, n).what = what
      BY DEF Effect
    <2> HIDE DEF EffectType
    <2> QED
      BY <1>10, <2>1, <2>2
  <1>4. CASE c.kind = "Fido" /\ c.req = "Confirm"
    <2>1. CASE CanAsk
      <3>1. x \in Ask(c.id)
        BY <1>4, <2>1 DEF Handle
      <3> QED
        BY <1>1, <1>4, <2>1, <3>1 DEF CommandType
    <2>2. CASE ~CanAsk
      <3>1. x = Keep(<<Effect("Fido", c.id, "Failed", 0)>>)
        BY <1>4, <2>2 DEF Handle
      <3> QED
        BY <1>2, <1>4, <1>10, <3>1
    <2> QED
      BY <2>1, <2>2
  <1>5. CASE c.kind = "Fido" /\ c.req = "CancelConfirmation"
    <2>1. x = IF pending # NoConf /\ pending.fido = c.id THEN End("Cancelled") ELSE Keep(<<>>)
      BY <1>5 DEF Handle
    <2> QED
      BY <1>2, <1>3, <2>1, EmptySeq
  <1>6. CASE c.kind = "Fido" /\ c.req = "Register"
    <2>1. \/ x = Keep(<<Effect("Fido", c.id, "Success", 1)>>)
          \/ x = Keep(<<Effect("Fido", c.id, "Failed", 0)>>)
      BY <1>6 DEF Handle
    <2> QED
      BY <1>2, <1>6, <1>10, <2>1
  <1>7. CASE c.kind = "Confirm"
    <2>1. x = IF pending # NoConf /\ pending.id = c.id
              THEN End(IF c.req = "Approve" THEN "Approved" ELSE "Rejected") ELSE Keep(<<>>)
      BY <1>7 DEF Handle
    <2>2. CASE pending # NoConf /\ pending.id = c.id
      BY <1>3, <1>7, <2>1, <2>2
    <2> QED
      BY <1>2, <2>1, <2>2, EmptySeq
  <1>8. CASE c.kind = "Local"
    <2>1. x = IF c.req = "Lock" /\ pending # NoConf
              THEN [End("Cancelled") EXCEPT !.effects = @ \o <<LocalResult>>]
              ELSE Keep(<<LocalResult>>)
      BY <1>8 DEF Handle
    <2>2. CASE c.req = "Lock" /\ pending # NoConf
      <3>1. /\ x.pending = End("Cancelled").pending /\ x.outcome = End("Cancelled").outcome
            /\ x.effects = End("Cancelled").effects \o <<LocalResult>>
        BY <2>1, <2>2 DEF End, Reaction
      <3> QED
        BY <2>2, <3>1, EndEffects DEF Pending, Ends
    <2>3. <<LocalResult>> \in Seq({e \in EffectType : e.type = "Fido" =>
            c.kind = "Fido" /\ e.id = c.id /\ (e.what = "Success" => c.req = "Register")})
      BY DEF LocalResult, Effect, EffectType, Sizes
    <2> QED
      BY <1>2, <2>1, <2>2, <2>3
  <1>9. CASE /\ ~(c.kind = "Fido" /\ c.req \in {"Confirm", "CancelConfirmation", "Register"})
             /\ c.kind # "Confirm" /\ c.kind # "Local"
    <2>1. x = Keep(<<>>) \/ (CanAsk /\ x \in Ask(0))
      BY <1>9 DEF Handle
    <2> QED
      BY <1>1, <1>2, <2>1, EmptySeq
  <1> QED
    BY <1>4, <1>5, <1>6, <1>7, <1>8, <1>9

-----------------------------------------------------------------------------
(* The core thread.                                                        *)

\* Steps that leave the runtime and the FIDO2 client alone.
LEMMA QuietStep ==
  ASSUME IInv, UNCHANGED <<pending, asked, fidoVars>>, consented \subseteq consented'
  PROVE  Grows /\ Newer /\ Pending' /\ Requests' /\ ApprovalIsConsent' /\ PresenceBacked'
  <1>1. Grows /\ Newer
    BY SameHistory, SameRequests DEF IInv, fidoVars
  <1>2. Pending' /\ Requests'
    BY DEF IInv, Pending, Requests, fidoVars
  <1>3. ApprovalIsConsent'
    BY DEF IInv, ApprovalIsConsent
  <1>4. PresenceBacked'
    BY DEF IInv, PresenceBacked, Settled, fidoVars
  <1> QED
    BY <1>1, <1>2, <1>3, <1>4

\* An effect that is still to be routed.
LEMMA CurrentEffect ==
  ASSUME IInv, effects # <<>>
  PROVE  /\ Head(effects) \in GoodEffects /\ Head(effects).id \in Nat
         /\ Tail(effects) \in Seq(GoodEffects)
  <1>1. Head(effects) \in GoodEffects /\ Tail(effects) \in Seq(GoodEffects)
    BY HeadTailProperties DEF IInv, Queues
  <1>2. Head(effects).id \in Nat
    BY <1>1 DEF GoodEffects, EffectType
  <1> QED
    BY <1>1, <1>2

\* What the other threads keep while the core thread runs.
Others == <<fidoVars, buttonVars, initial, next, confirmation>>

\* The core thread takes the next command.
LEMMA CommandGetKeeps ==
  ASSUME IInv, CommandGet, UNCHANGED Others
  PROVE  IInv'
  <1>1. Grows /\ Newer /\ Pending' /\ Requests' /\ ApprovalIsConsent' /\ PresenceBacked'
    BY QuietStep DEF CommandGet, Others, runtimeVars
  <1>2. Head(cmdq) \in GoodCommands /\ Tail(cmdq) \in Seq(GoodCommands)
    BY HeadTailProperties DEF IInv, Queues, CommandGet
  <1>3. Queues'
    <2>1. Tail(cmdq) \in Seq(GoodCommands') /\ Head(cmdq) \in GoodCommands'
      BY <1>1, <1>2, GoodStays, SeqMonotonic
    <2> QED
      BY <1>1, <2>1, QueuesStay DEF IInv, Queues, CommandGet, resVars
  <1>4. Numbers' /\ Presses'
    BY DEF IInv, Numbers, Presses, CommandGet, confVars, Others, buttonVars
  <1>5. Publishing'
    BY DEF Publishing, CommandGet
  <1> QED
    BY <1>1, <1>3, <1>4, <1>5 DEF IInv

\* A result is routed or lost, or the wallet state is published.
LEMMA RouteKeeps ==
  ASSUME IInv, RouteResult \/ RouteState, UNCHANGED Others
  PROVE  IInv'
  <1>1. Grows /\ Newer /\ Pending' /\ Requests' /\ ApprovalIsConsent' /\ PresenceBacked'
    BY QuietStep DEF RouteResult, RouteState, Others, runtimeVars
  <1>2. /\ UNCHANGED <<cmdq, command, consented, channel, snapshot, activeConf, reject, Others>>
        /\ effects # <<>> /\ effects' = Tail(effects)
    BY DEF RouteResult, RouteState, NextEffect, confVars, busVars
  <1>3. Tail(effects) \in Seq(GoodEffects')
    BY <1>1, <1>2, CurrentEffect, GoodStays, SeqMonotonic
  <1>4. fidoq' = fidoq \/ (Head(effects).type = "Fido" /\ fidoq' = Append(fidoq, Result(Head(effects))))
    BY DEF RouteResult, RouteState, resVars
  <1>5. fidoq' \in Seq(GoodResults')
    <2>1. CASE fidoq' = fidoq
      BY <1>1, <2>1, QueuesStay DEF IInv
    <2>2. CASE Head(effects).type = "Fido" /\ fidoq' = Append(fidoq, Result(Head(effects)))
      <3>1. Result(Head(effects)) \in GoodResults'
        BY <1>1, <1>2, <2>2, CurrentEffect, GoodStays DEF GoodResults
      <3>2. fidoq \in Seq(GoodResults')
        BY <1>1, QueuesStay DEF IInv
      <3> QED
        BY <2>2, <3>1, <3>2, AppendProperties
    <2> QED
      BY <1>4, <2>1, <2>2
  <1>6. Queues'
    BY <1>1, <1>2, <1>3, <1>5, QueuesStay DEF IInv, Queues
  <1>7. Numbers' /\ Presses'
    BY <1>2 DEF IInv, Numbers, Presses, Others, buttonVars
  <1>8. Publishing'
    BY DEF Publishing, RouteResult, RouteState, NextEffect
  <1> QED
    BY <1>1, <1>6, <1>7, <1>8 DEF IInv

\* The steps that publish or keep the copy of a confirmation take its number from an effect.
LEMMA ShowKeeps ==
  ASSUME IInv, Store \/ PublishRequired \/ PublishCompleted \/ Clear,
         UNCHANGED Others
  PROVE  IInv'
  <1>1. Grows /\ Newer /\ Pending' /\ Requests' /\ ApprovalIsConsent' /\ PresenceBacked'
    BY QuietStep DEF Store, PublishRequired, PublishCompleted, Clear, Others, runtimeVars
  <1>2. /\ UNCHANGED <<cmdq, command, fidoq, consented, Others>>
        /\ effects' \in {effects, Tail(effects)} /\ effects # <<>>
    BY DEF IInv, Publishing, Store, PublishRequired, PublishCompleted, Clear, NextEffect, busVars, resVars
  <1>3. effects' \in Seq(GoodEffects')
    <2>1. Tail(effects) \in Seq(GoodEffects')
      BY <1>1, <1>2, CurrentEffect, GoodStays, SeqMonotonic
    <2> QED
      BY <1>1, <1>2, <2>1, QueuesStay DEF IInv
  <1>4. Queues'
    BY <1>1, <1>2, <1>3, QueuesStay DEF IInv, Queues
  <1>5. Numbers' /\ Presses'
    <2>1. Head(effects).id \in Nat
      BY <1>2, CurrentEffect
    <2>2. {snapshot', reject', activeConf'} \subseteq Nat /\ channel' \in ChannelType
      BY <2>1 DEF IInv, Numbers, ChannelType, Store, PublishRequired, PublishCompleted, Clear,
         Publish, ButtonListener
    <2> QED
      BY <1>2, <2>2 DEF IInv, Numbers, Presses, Others, buttonVars
  <1>6. Publishing'
    BY <1>2 DEF Publishing, Store, PublishRequired, PublishCompleted, Clear, NextEffect
  <1> QED
    BY <1>1, <1>4, <1>5, <1>6 DEF IInv

\* Every effect is routed; what could not be shown is rejected.
LEMMA DrainedKeeps ==
  ASSUME IInv, Drained, UNCHANGED Others
  PROVE  IInv'
  <1>1. Grows /\ Newer /\ Pending' /\ Requests' /\ ApprovalIsConsent' /\ PresenceBacked'
    BY QuietStep DEF Drained, Others, runtimeVars
  <1>2. command' \in GoodCommands'
    <2>1. reject \in Nat
      BY DEF IInv, Numbers
    <2>2. Confirm("Reject", reject) \in CommandType /\ NoCommand \in CommandType
      BY <2>1 DEF Confirm, NoCommand, CommandType, Sizes
    <2>3. /\ Confirm("Reject", reject).kind = "Confirm" /\ Confirm("Reject", reject).req = "Reject"
          /\ NoCommand.kind = "none"
      BY DEF Confirm, NoCommand
    <2>4. command' \in {Confirm("Reject", reject), NoCommand}
      BY DEF Drained
    <2> QED
      BY <2>2, <2>3, <2>4 DEF GoodCommands
  <1>3. Queues'
    BY <1>1, <1>2, QueuesStay DEF IInv, Queues, Drained, busVars, resVars
  <1>4. Numbers' /\ Presses'
    BY DEF IInv, Numbers, Presses, Drained, confVars, Others, buttonVars
  <1>5. Publishing'
    BY DEF Publishing, Drained
  <1> QED
    BY <1>1, <1>3, <1>4, <1>5 DEF IInv

\* The runtime handles one command.
LEMMA ExecuteKeeps ==
  ASSUME IInv, Execute, UNCHANGED Others
  PROVE  IInv'
  <1> PICK x \in Handle(command) :
        /\ pending' = x.pending /\ effects' = x.effects
        /\ asked' = IF x.outcome # "none" THEN [asked EXCEPT ![pending.id].outcome = x.outcome]
                    ELSE IF x.pending # pending
                    THEN Append(asked, [fido |-> x.pending.fido, outcome |-> "none"])
                    ELSE asked
    BY DEF Execute
  <1>1. /\ command \in GoodCommands /\ command \in CommandType /\ command.id \in Nat
        /\ asked \in Seq(AskedType) /\ Len(asked) \in Nat /\ DOMAIN asked = 1..Len(asked)
    BY LenProperties DEF IInv, Queues, Pending, GoodCommands, CommandType
  <1>2. /\ UNCHANGED <<cmdq, fidoq, consented, channel, snapshot, activeConf, Others>>
        /\ command' = NoCommand /\ reject' = 0 /\ corePc' = "drain"
    BY DEF Execute, resVars, confVars
  <1>3. Newer /\ Requests' /\ Numbers' /\ Presses' /\ Publishing'
    <2>1. Newer
      BY <1>2, SameRequests DEF IInv, Others, fidoVars
    <2> QED
      BY <1>2, <2>1 DEF IInv, Requests, Numbers, Presses, Publishing, Others, fidoVars, buttonVars
  <1>4. Kept(x, command) \/ Asks(x, command) \/ Ends(x, command)
    BY <1>1, HandleCases DEF IInv
  <1>5. ASSUME NEW S, S \subseteq GoodEffects', x.effects \in Seq(S), Grows
        PROVE  Queues'
    <2>1. x.effects \in Seq(GoodEffects')
      BY <1>5, SeqMonotonic
    <2>2. NoCommand \in GoodCommands'
      BY DEF NoCommand, GoodCommands, CommandType, Sizes
    <2> QED
      BY <1>2, <1>3, <1>5, <2>1, <2>2, QueuesStay DEF IInv, Queues
  <1>6. CASE Kept(x, command)
    <2>1. UNCHANGED <<pending, asked>>
      BY <1>6 DEF Kept
    <2>2. Grows /\ Pending' /\ ApprovalIsConsent' /\ PresenceBacked'
      BY <1>2, <2>1, QuietStep DEF Others
    <2> DEFINE S == {e \in EffectType : e.type = "Fido" =>
                      command.kind = "Fido" /\ e.id = command.id
                      /\ (e.what = "Success" => command.req = "Register")}
    <2>3. S \subseteq GoodEffects'
      BY <1>1, <1>2 DEF GoodEffects, Backed, GoodCommands, Others, fidoVars
    <2>4. Queues'
      BY <1>5, <1>6, <2>2, <2>3 DEF Kept
    <2> QED
      BY <1>3, <2>2, <2>4 DEF IInv
  <1>7. CASE Asks(x, command)
    <2> PICK r \in Nat, f \in BOOLEAN :
          /\ r = 0 \/ (command.kind = "Fido" /\ r = command.id)
          /\ x.pending = [id |-> Len(asked) + 1, fido |-> r, fits |-> f]
      BY <1>7 DEF Asks
    <2>1. asked' = Append(asked, [fido |-> r, outcome |-> "none"])
      BY <1>1, <1>7 DEF Asks, NoConf
    <2>2. /\ asked' \in Seq(AskedType) /\ Len(asked') = Len(asked) + 1
          /\ asked'[Len(asked) + 1] = [fido |-> r, outcome |-> "none"]
          /\ \A i \in DOMAIN asked : i \in DOMAIN asked' /\ asked'[i] = asked[i]
          /\ \A i \in DOMAIN asked' : i \in DOMAIN asked \/ i = Len(asked) + 1
      <3> DEFINE new == [fido |-> r, outcome |-> "none"]
      <3>1. new \in AskedType
        BY DEF AskedType, Outcomes
      <3> HIDE DEF new
      <3>2. asked' = Append(asked, new)
        BY <2>1 DEF new
      <3>3. /\ asked' \in Seq(AskedType) /\ Len(asked') = Len(asked) + 1
            /\ \A i \in 1..Len(asked) : asked'[i] = asked[i]
            /\ asked'[Len(asked) + 1] = new
        <4>1. /\ Append(asked, new) \in Seq(AskedType) /\ Len(Append(asked, new)) = Len(asked) + 1
              /\ \A i \in 1..Len(asked) : Append(asked, new)[i] = asked[i]
              /\ Append(asked, new)[Len(asked) + 1] = new
          BY <1>1, <3>1, AppendProperties
        <4> QED
          BY <3>2, <4>1
      <3>4. DOMAIN asked' = 1..(Len(asked) + 1)
        BY <3>3, LenProperties
      <3> QED
        BY <1>1, <3>3, <3>4 DEF new
    <2>3. Grows
      BY <1>2, <2>2 DEF Grows, Settled
    <2>4. Pending'
      <3>1. r <= sequence
        BY <1>1 DEF GoodCommands, IInv, Requests
      <3> QED
        BY <1>1, <1>2, <2>2, <3>1, LenProperties DEF Pending, ConfType, Others, fidoVars
    <2>5. ApprovalIsConsent'
      BY <1>2, <2>2 DEF IInv, ApprovalIsConsent
    <2>6. PresenceBacked'
      BY <1>2, <2>2 DEF IInv, PresenceBacked, Settled, Others, fidoVars
    <2>7. {e \in EffectType : e.type # "Fido"} \subseteq GoodEffects'
      BY DEF GoodEffects
    <2>8. Queues'
      BY <1>5, <1>7, <2>3, <2>7 DEF Asks
    <2> QED
      BY <1>3, <2>3, <2>4, <2>5, <2>6, <2>8 DEF IInv
  <1>8. CASE Ends(x, command)
    <2>1. /\ asked' = [asked EXCEPT ![pending.id].outcome = x.outcome] /\ pending' = NoConf
          /\ pending.id \in DOMAIN asked /\ pending.fido \in Nat /\ pending.fido <= sequence
          /\ asked[pending.id] = [fido |-> pending.fido, outcome |-> "none"]
      BY <1>8 DEF Ends, IInv, Pending, ConfType
    <2>2. /\ asked' \in Seq(AskedType) /\ DOMAIN asked' = DOMAIN asked
          /\ asked'[pending.id] = [fido |-> pending.fido, outcome |-> x.outcome]
          /\ \A i \in DOMAIN asked : i # pending.id => asked'[i] = asked[i]
      <3>1. [fido |-> pending.fido, outcome |-> x.outcome] \in AskedType
        BY <1>8, <2>1 DEF AskedType, Outcomes, Ends
      <3>2. [asked[pending.id] EXCEPT !.outcome = x.outcome] = [fido |-> pending.fido, outcome |-> x.outcome]
        BY <2>1
      <3>3. asked' = [asked EXCEPT ![pending.id] = [fido |-> pending.fido, outcome |-> x.outcome]]
        BY <2>1, <3>2
      <3> QED
        BY <1>1, <2>1, <3>1, <3>3, ExceptSeq, LenProperties
    <2>3. x.outcome = "Approved" => pending.id \in consented
      BY <1>1, <1>8 DEF Ends, GoodCommands
    <2>4. Grows
      BY <1>2, <2>1, <2>2 DEF Grows, Settled
    <2>5. Pending'
      BY <1>2, <2>1, <2>2 DEF IInv, Requests, Pending, ConfType, NoConf, Others, fidoVars
    <2>6. ApprovalIsConsent'
      BY <1>2, <2>2, <2>3 DEF IInv, ApprovalIsConsent
    <2>7. PresenceBacked'
      BY <1>2, <2>4 DEF IInv, PresenceBacked, Grows, Others, fidoVars
    <2>8. EffectsFor(pending.fido, x.outcome = "Approved") \subseteq GoodEffects'
      <3> PICK r \in Nat : r = pending.fido
        BY <2>1
      <3>1. x.outcome = "Approved" => Settled(r)'
        BY <1>2, <2>1, <2>2, <2>3 DEF Settled
      <3>2. r <= sequence'
        BY <1>2, <2>1 DEF Others, fidoVars
      <3> QED
        BY <3>1, <3>2 DEF EffectsFor, GoodEffects, Backed
    <2>9. Queues'
      BY <1>5, <1>8, <2>4, <2>8 DEF Ends
    <2> QED
      BY <1>3, <2>5, <2>6, <2>7, <2>9 DEF IInv
  <1> QED
    BY <1>4, <1>6, <1>7, <1>8

\* All steps of the core thread.
LEMMA CoreKeeps ==
  ASSUME IInv, Core
  PROVE  IInv'
  <1>1. UNCHANGED Others
    BY DEF Core, Others
  <1>2. CASE CoreInit
    <2>1. Grows /\ Newer /\ Pending' /\ Requests' /\ ApprovalIsConsent' /\ PresenceBacked'
      BY <1>1, <1>2, QuietStep DEF CoreInit, Others, runtimeVars
    <2>2. Queues'
      BY <1>2, <2>1, QueuesStay DEF IInv, Queues, CoreInit, busVars, resVars, execVars
    <2>3. Numbers' /\ Presses' /\ Publishing'
      BY <1>1, <1>2 DEF IInv, Numbers, Presses, Publishing, CoreInit, confVars, execVars, Others, buttonVars
    <2> QED
      BY <2>1, <2>2, <2>3 DEF IInv
  <1>3. CASE CoreStep
    BY <1>1, <1>3, CommandGetKeeps, ExecuteKeeps, DrainedKeeps, RouteKeeps, ShowKeeps DEF CoreStep
  <1> QED
    BY <1>2, <1>3 DEF Core

-----------------------------------------------------------------------------
(* The clients.                                                            *)

\* A client puts a command into the queue, or is refused.
LEMMA SubmitKeeps ==
  ASSUME Queues, Grows, Newer, UNCHANGED <<command, effects, fidoq>>,
         NEW c, c \in GoodCommands', Enqueue(c) \/ Refused(c) \/ UNCHANGED cmdq
  PROVE  Queues'
  <1>1. cmdq' = cmdq \/ cmdq' = Append(cmdq, c)
    BY DEF Enqueue, Refused, busVars
  <1>2. cmdq \in Seq(GoodCommands')
    BY QueuesStay
  <1>3. cmdq' \in Seq(GoodCommands')
    BY <1>1, <1>2, AppendProperties
  <1> QED
    BY <1>3, QueuesStay DEF Queues

\* What the FIDO2 client never touches.
FidoKeeps == <<command, effects, corePc, reject, pending, asked, consented, channel, snapshot,
               activeConf, buttonVars, initial, next, confirmation>>

\* The steps of the FIDO2 client leave the histories alone.
LEMMA FidoStepKeeps ==
  ASSUME IInv, Newer, UNCHANGED FidoKeeps, Requests', PresenceBacked',
         cmdq' \in Seq(GoodCommands'), fidoq' \in {fidoq, Tail(fidoq)}, fidoq' # fidoq => fidoq # <<>>
  PROVE  IInv'
  <1>1. Grows
    BY SameHistory DEF FidoKeeps
  <1>2. fidoq' \in Seq(GoodResults')
    <2>1. fidoq \in Seq(GoodResults')
      BY <1>1, QueuesStay DEF IInv
    <2> QED
      BY <2>1, HeadTailProperties
  <1>3. Queues'
    BY <1>1, <1>2, QueuesStay DEF IInv, Queues, FidoKeeps
  <1>4. Pending' /\ ApprovalIsConsent'
    BY DEF IInv, Pending, ApprovalIsConsent, Newer, Requests, ConfType, FidoKeeps
  <1>5. Numbers' /\ Presses' /\ Publishing'
    BY DEF IInv, Numbers, Presses, Publishing, FidoKeeps, buttonVars
  <1> QED
    BY <1>3, <1>4, <1>5 DEF IInv

\* Commands of the FIDO2 client name a request that was made.
LEMMA FidoCommand ==
  ASSUME NEW req \in {"none", "Confirm", "Register", "CancelConfirmation"}, NEW id \in Nat, NEW n \in {0, 1},
         id <= sequence', req = "Register" /\ id = request'.id => request'.kind # "Confirm"
  PROVE  Fido(req, id, n) \in GoodCommands'
  BY DEF Fido, GoodCommands, CommandType, Sizes

\* All steps of the FIDO2 client.
LEMMA Fido2Keeps ==
  ASSUME IInv, Fido2Service
  PROVE  IInv'
  <1>1. UNCHANGED FidoKeeps
    BY DEF Fido2Service, FidoStep, FidoClient, Begin, Submit, Skip, Answer, TakeResult, TimeOut,
       CancelTimedOut, UpCancel, UpCancelSubmit, uiVars, FidoKeeps, coreVars, execVars,
       runtimeVars, confVars
  <1>2. ASSUME NEW kind \in Kinds, Begin(kind) PROVE IInv'
    <2>1. Newer /\ Requests' /\ PresenceBacked'
      BY <1>2 DEF IInv, Begin, Newer, Requests, PresenceBacked, Kinds, Settled, coreVars, runtimeVars
    <2>2. fidoq' = fidoq /\ cmdq' = cmdq
      BY <1>2 DEF Begin, coreVars, busVars, resVars
    <2>3. cmdq' \in Seq(GoodCommands')
      BY <1>1, <2>1, <2>2, SameHistory, QueuesStay DEF IInv, FidoKeeps
    <2> QED
      BY <1>1, <2>1, <2>2, <2>3, FidoStepKeeps
  <1>3. ASSUME ~(\E kind \in Kinds : Begin(kind)) PROVE UNCHANGED <<sequence, request>> /\ Newer
    <2>1. UNCHANGED <<sequence, request>>
      BY <1>3 DEF Fido2Service, FidoStep, FidoClient, Submit, Skip, Answer, TakeResult, TimeOut,
         CancelTimedOut, UpCancel, UpCancelSubmit
    <2> QED
      BY <2>1, SameRequests DEF IInv
  <1>4. ASSUME NEW c, c \in GoodCommands', Enqueue(c) \/ Refused(c), UNCHANGED <<fidoq, sequence, request>>,
               Requests', PresenceBacked'
        PROVE  IInv'
    <2>1. Newer /\ Grows
      BY <1>1, <1>4, SameRequests, SameHistory DEF IInv, FidoKeeps
    <2>2. Queues'
      BY <1>1, <1>4, <2>1, SubmitKeeps DEF IInv, FidoKeeps
    <2> QED
      BY <1>1, <1>4, <2>1, <2>2, FidoStepKeeps DEF Queues
  <1>5. CASE Submit
    <2>1. UNCHANGED <<fidoq, sequence, request, cancelled>>
      BY <1>5 DEF Submit, resVars
    <2>2. Submitted \in GoodCommands'
      BY <2>1, FidoCommand DEF IInv, Requests, Submitted
    <2>3. Requests' /\ PresenceBacked'
      BY <1>1, <1>5, <2>1 DEF IInv, Requests, PresenceBacked, Settled, Submit, Return, FidoKeeps
    <2> QED
      BY <1>4, <1>5, <2>1, <2>2, <2>3 DEF Submit
  <1>6. CASE Skip \/ Answer
    <2>1. /\ UNCHANGED <<cmdq, sequence, request, cancelled>> /\ fidoq # <<>> /\ fidoq' = Tail(fidoq)
          /\ \/ UNCHANGED <<activeReq, reply>>
             \/ /\ activeReq' = 0 /\ Head(fidoq).id = request.id
                /\ reply' = [kind |-> request.kind, id |-> request.id, out |-> Head(fidoq).status]
      BY <1>6 DEF Skip, Answer, TakeResult, Mine, Return, busVars
    <2>2. Requests' /\ Newer
      BY <2>1, SameRequests DEF IInv, Requests
    <2>3. PresenceBacked'
      <3>1. Head(fidoq) \in GoodResults
        BY <2>1, HeadTailProperties DEF IInv, Queues
      <3>2. Backed(Head(fidoq).id, Head(fidoq).status)
        <4>1. PICK x \in GoodEffects : x.type = "Fido" /\ Head(fidoq) = Result(x)
          BY <3>1 DEF GoodResults
        <4>2. Backed(x.id, x.what)
          BY <4>1 DEF GoodEffects
        <4> QED
          BY <4>1, <4>2 DEF Result
      <3> QED
        BY <1>1, <2>1, <3>2 DEF IInv, PresenceBacked, Backed, Settled, FidoKeeps
    <2>4. cmdq' \in Seq(GoodCommands')
      BY <1>1, <2>1, <2>2, SameHistory, QueuesStay DEF IInv, FidoKeeps
    <2> QED
      BY <1>1, <2>1, <2>2, <2>3, <2>4, FidoStepKeeps
  <1>7. CASE TimeOut \/ UpCancel
    <2>1. UNCHANGED <<cmdq, fidoq, sequence, request>>
      BY <1>7 DEF TimeOut, UpCancel, coreVars, busVars, resVars
    <2>2. Newer /\ cmdq' \in Seq(GoodCommands')
      BY <1>1, <2>1, SameRequests, SameHistory, QueuesStay DEF IInv, FidoKeeps
    <2>3. Requests' /\ PresenceBacked'
      BY <1>1, <1>7, <2>1 DEF IInv, Requests, PresenceBacked, Settled, TimeOut, UpCancel, Return, FidoKeeps
    <2> QED
      BY <1>1, <2>1, <2>2, <2>3, FidoStepKeeps
  <1>8. CASE CancelTimedOut \/ UpCancelSubmit
    <2>1. UNCHANGED <<fidoq, sequence, request>>
      BY <1>8 DEF CancelTimedOut, UpCancelSubmit, resVars
    <2>2. Requests' /\ PresenceBacked'
      BY <1>1, <1>8, <2>1 DEF IInv, Requests, PresenceBacked, Settled, CancelTimedOut, UpCancelSubmit,
         Return, FidoKeeps
    <2>3. Cancellation(request.id) \in GoodCommands' /\ Cancellation(cancelled) \in GoodCommands'
      BY <2>1, FidoCommand DEF IInv, Requests, Cancellation
    <2> QED
      BY <1>4, <1>8, <2>1, <2>2, <2>3 DEF CancelTimedOut, UpCancelSubmit
  <1> QED
    BY <1>2, <1>5, <1>6, <1>7, <1>8 DEF Fido2Service, FidoStep, FidoClient

\* Steps of the button, the UI and the transports: the histories only gain approvals.
LEMMA ClientKeeps ==
  ASSUME IInv, UNCHANGED <<command, effects, fidoq, corePc, pending, asked, fidoVars>>,
         consented \subseteq consented', Numbers', Presses',
         \/ UNCHANGED cmdq
         \/ \E c \in CommandType :
              /\ Enqueue(c) \/ Refused(c)
              /\ c.kind # "Fido"
              /\ c.kind = "Confirm" /\ c.req = "Approve" /\ Enqueue(c) => c.id \in consented'
  PROVE  IInv'
  <1>1. Grows /\ Newer /\ Pending' /\ Requests' /\ ApprovalIsConsent' /\ PresenceBacked'
    BY QuietStep
  <1>2. Queues'
    <2>1. CASE UNCHANGED cmdq
      BY <1>1, <2>1, QueuesStay DEF IInv, Queues
    <2>2. CASE ~UNCHANGED cmdq
      <3> PICK c \in CommandType :
            /\ Enqueue(c) /\ c.kind # "Fido"
            /\ c.kind = "Confirm" /\ c.req = "Approve" => c.id \in consented'
        BY <2>2 DEF Refused, busVars
      <3>1. c \in GoodCommands'
        BY DEF GoodCommands
      <3> QED
        BY <1>1, <3>1, SubmitKeeps DEF IInv
    <2> QED
      BY <2>1, <2>2
  <1>3. Publishing'
    BY DEF IInv, Publishing
  <1> QED
    BY <1>1, <1>2, <1>3 DEF IInv

\* The button submits only what was pressed.
LEMMA ButtonKeeps ==
  ASSUME IInv, UserButton
  PROVE  IInv'
  <1>1. UNCHANGED <<fidoVars, initial, next, confirmation>>
    BY DEF UserButton, uiVars
  <1>2. CASE Press \/ TakePress
    <2>1. /\ UNCHANGED <<cmdq, command, effects, fidoq, corePc, pending, asked, reject, channel, snapshot, activeConf>>
          /\ consented \subseteq consented'
      BY <1>2 DEF Press, TakePress, coreVars, busVars, resVars, execVars, runtimeVars, confVars
    <2>2. Numbers' /\ Presses'
      BY <1>1, <1>2, <2>1 DEF IInv, Numbers, Presses, Press, TakePress, coreVars
    <2> QED
      BY <1>1, <2>1, <2>2, ClientKeeps
  <1>3. CASE SubmitPress
    <2>1. /\ UNCHANGED <<command, effects, fidoq, corePc, pending, asked, reject, channel, snapshot, activeConf,
                         consented, pressed>>
          /\ approving # 0 /\ approving' = 0
          /\ Enqueue(Confirm("Approve", approving)) \/ Refused(Confirm("Approve", approving))
      BY <1>3 DEF SubmitPress, resVars, execVars, runtimeVars, confVars
    <2>2. approving \in Nat /\ approving \in consented'
      BY <2>1 DEF IInv, Numbers, Presses
    <2>3. Confirm("Approve", approving) \in CommandType
      BY <2>2 DEF Confirm, CommandType, Sizes
    <2>4. Numbers' /\ Presses'
      BY <1>1, <2>1 DEF IInv, Numbers, Presses
    <2> QED
      BY <1>1, <2>1, <2>2, <2>3, <2>4, ClientKeeps DEF Confirm
  <1> QED
    BY <1>2, <1>3 DEF UserButton, ButtonStep, ButtonWork

\* A protocol chunk confirms nothing.
LEMMA TransportKeeps ==
  ASSUME IInv, Transport
  PROVE  IInv'
  <1>1. /\ UNCHANGED <<command, effects, fidoq, corePc, pending, asked, reject, channel, snapshot, activeConf,
                       consented, fidoVars, pressed, approving, initial, next, confirmation>>
        /\ Enqueue(Protocol(1)) \/ Refused(Protocol(1))
    BY DEF Transport, Chunk, buttonVars, uiVars, resVars, execVars, runtimeVars, confVars
  <1>2. Protocol(1) \in CommandType /\ Protocol(1).kind = "Protocol"
    BY DEF Protocol, CommandType, Sizes
  <1>3. Numbers' /\ Presses'
    BY <1>1 DEF IInv, Numbers, Presses
  <1> QED
    BY <1>1, <1>2, <1>3, ClientKeeps

\* The page submits a choice for the confirmation it shows.
LEMMA TouchUiKeeps ==
  ASSUME IInv, TouchUi
  PROVE  IInv'
  <1> DEFINE Kept0 == <<command, effects, fidoq, corePc, pending, asked, fidoVars, reject, channel,
                       snapshot, activeConf, pressed, approving>>
  <1>1. UNCHANGED <<fidoVars, pressed, approving>>
    BY DEF TouchUi, buttonVars
  <1>2. CASE UiStarting \/ UiThread
    <2>1. UNCHANGED <<Kept0, cmdq, consented>>
      BY <1>1, <1>2 DEF UiStarting, UiThread, InitRead, InitApply, Wake, Scan, LocalResults,
         ReadChannel, ApplyNext, coreVars, busVars, execVars, runtimeVars, confVars, resVars
    <2>2. {initial', next'} \subseteq ChannelType /\ confirmation' \in Nat
      BY <1>2, <2>1 DEF IInv, Numbers, UiStarting, UiThread, InitRead, InitApply, Wake, Scan, LocalResults,
         ReadChannel, ApplyNext, Apply, ChannelType
    <2>3. Numbers' /\ Presses'
      BY <2>1, <2>2 DEF IInv, Numbers, Presses
    <2> QED
      BY <2>1, <2>3, ClientKeeps
  <1>3. ASSUME NEW choice \in {"Approve", "Reject"}, Choose(choice) PROVE IInv'
    <2>1. UNCHANGED <<Kept0, initial, next, confirmation>>
      BY <1>1, <1>3 DEF Choose, resVars, execVars, runtimeVars, confVars
    <2>2. Confirm(choice, confirmation) \in CommandType
      BY DEF IInv, Numbers, Confirm, CommandType, Sizes
    <2>3. /\ consented \subseteq consented'
          /\ Enqueue(Confirm(choice, confirmation)) \/ Refused(Confirm(choice, confirmation))
          /\ choice = "Approve" /\ Enqueue(Confirm(choice, confirmation)) => confirmation \in consented'
      BY <1>3 DEF Choose, Enqueue, Refused
    <2>4. Numbers' /\ Presses'
      BY <2>1, <2>3 DEF IInv, Numbers, Presses
    <2> QED
      BY <2>1, <2>2, <2>3, <2>4, ClientKeeps DEF Confirm
  <1>4. ASSUME NEW req \in {"Lock", "Unlock"}, Request(req) PROVE IInv'
    <2>1. UNCHANGED <<Kept0, consented, initial, next, confirmation>>
      BY <1>1, <1>4 DEF Request, resVars, execVars, runtimeVars, confVars
    <2>2. Local(req, 1) \in CommandType /\ Local(req, 1).kind = "Local"
      BY DEF Local, CommandType, Sizes
    <2>3. Enqueue(Local(req, 1)) \/ Refused(Local(req, 1))
      BY <1>4 DEF Request
    <2>4. Numbers' /\ Presses'
      BY <2>1 DEF IInv, Numbers, Presses
    <2> QED
      BY <2>1, <2>2, <2>3, <2>4, ClientKeeps
  <1> QED
    BY <1>2, <1>3, <1>4 DEF TouchUi, UiStep

-----------------------------------------------------------------------------
(* What is approved and what is reported.                                  *)

\* The invariant holds at the start.
LEMMA InitGood == Init => IInv
  <1> SUFFICES ASSUME Init PROVE IInv
    OBVIOUS
  <1>1. /\ NoCommand \in GoodCommands
        /\ asked = <<>> /\ pending = NoConf /\ consented = {} /\ channel = NoChannel
    BY DEF Init, CoreStart, NoCommand, GoodCommands, CommandType, Sizes
  <1>2. Queues /\ Publishing
    BY <1>1, EmptySeq DEF Init, CoreStart, Queues, Publishing
  <1>3. Pending
    BY <1>1, EmptySeq DEF Init, FidoStart, Pending, NoConf, ConfType
  <1>4. Requests /\ Numbers /\ Presses /\ PresenceBacked
    BY <1>1 DEF Init, CoreStart, FidoStart, ButtonStart, UiStart, Requests, Numbers, Presses,
       PresenceBacked, NoRequest, NoChannel, ChannelType
  <1>5. ApprovalIsConsent
    BY <1>1 DEF ApprovalIsConsent
  <1> QED
    BY <1>2, <1>3, <1>4, <1>5 DEF IInv

\* And every step keeps it.
LEMMA NextKeeps == IInv /\ [Next]_vars => IInv'
  <1> SUFFICES ASSUME IInv, [Next]_vars PROVE IInv'
    OBVIOUS
  <1>1. CASE Next
    BY <1>1, CoreKeeps, Fido2Keeps, ButtonKeeps, TouchUiKeeps, TransportKeeps DEF Next
  <1>2. CASE UNCHANGED vars
    <2>1. UNCHANGED <<cmdq, command, effects, fidoq, corePc, pending, asked, fidoVars, consented, reject,
                      channel, snapshot, activeConf, pressed, approving, initial, next, confirmation>>
      BY <1>2 DEF vars, coreVars, busVars, resVars, execVars, runtimeVars, confVars, buttonVars, uiVars
    <2>2. Numbers' /\ Presses'
      BY <2>1 DEF IInv, Numbers, Presses
    <2> QED
      BY <2>1, <2>2, ClientKeeps
  <1> QED
    BY <1>1, <1>2

\* For every queue depth, pool size and number of requests and confirmations, with or without
\* a display, a button and a transport: a confirmation is settled as approved only if the user
\* approved that very confirmation on the device (src/gpio.c:44-66,
\* src/display/ui_confirmation.c:24-31, src/core.c:262-307).
THEOREM ApprovalNeedsConsent == Spec => []ApprovalIsConsent
  <1>1. IInv => ApprovalIsConsent
    BY DEF IInv
  <1> QED
    BY InitGood, NextKeeps, <1>1, PTL DEF Spec

\* In the same generality, user presence is reported to a FIDO2 request only if the user
\* approved a confirmation of that request (src/usb/fido2.c:90-160).
THEOREM PresenceNeedsConsent == Spec => []PresenceIsReal
  <1>1. IInv => PresenceIsReal
    BY DEF IInv, PresenceBacked, PresenceIsReal, Settled
  <1> QED
    BY InitGood, NextKeeps, <1>1, PTL DEF Spec

-----------------------------------------------------------------------------
(* The copies of the pending confirmation.                                 *)

\* Effects that do not concern the copies.
QuietEffects ==
  {x \in EffectType :
     /\ x.type \in {"Fido", "State", "Local"}
     /\ x.what \in IF x.type = "State" THEN {"Ready", "Busy"}
                   ELSE {"none", "Success", "Cancelled", "Failed"}
     /\ x.type = "Local" => x.id = 0}

Current(type) == effects # <<>> /\ Head(effects).type = type
Announcing == Current("Required") \/ Current("Completed")

Shut == snapshot = 0 /\ activeConf = 0 /\ channel.phase # "REQUIRED"
Shows(id) == snapshot = id /\ activeConf = id /\ channel = [id |-> id, phase |-> "REQUIRED"]

\* Only the first effect of a command may announce a confirmation or its end.
Shapes ==
  effects # <<>> =>
    /\ Announcing \/ Head(effects) \in QuietEffects
    /\ Tail(effects) \in Seq(QuietEffects)

\* What the core thread holds at each of its stages.
Stages ==
  /\ corePc \in {"wait", "execute", "drain", "publish", "clear"}
  /\ corePc \in {"wait", "execute"} => effects = <<>>
  /\ corePc = "wait" => reject = 0
  /\ corePc = "execute" => reject = 0 \/ command = Confirm("Reject", reject)
  /\ corePc # "execute" => command = NoCommand
  /\ corePc = "publish" => Current("Required")
  /\ corePc = "clear" => Current("Completed")

\* A new confirmation becomes visible copy by copy.
Asking ==
  Current("Required") =>
    /\ pending # NoConf /\ pending.id = Head(effects).id /\ reject = 0
    /\ snapshot = IF corePc = "publish" THEN pending.id ELSE 0
    /\ activeConf = 0 /\ channel.phase # "REQUIRED"

\* And disappears so; one that was never shown ends with nothing to hide.
Ending ==
  Current("Completed") =>
    LET id == Head(effects).id
    IN  /\ pending = NoConf /\ reject = 0 /\ id \in 1..Len(asked)
        /\ IF corePc = "clear"
           THEN activeConf = 0 /\ channel.phase # "REQUIRED" /\ snapshot \in {0, id}
           ELSE Shut \/ Shows(id)

\* Otherwise the copies are those of the pending confirmation, or it is about to be rejected.
Settling ==
  ~Announcing =>
    IF reject # 0 THEN pending # NoConf /\ pending.id = reject /\ Shut
    ELSE IF pending = NoConf THEN Shut ELSE Shows(pending.id)

\* Whatever is kept of a confirmation names one that was asked for.
Known ==
  /\ {reject, snapshot, activeConf, pressed, approving, confirmation,
      channel.id, initial.id, next.id} \subseteq 0..Len(asked)
  /\ consented \subseteq 1..Len(asked)
  /\ Len(asked) <= MaxConfirmations

ConfInv == Shapes /\ Stages /\ Asking /\ Ending /\ Settling /\ Known

\* The effects of a command, in the same three cases.
LEMMA HandleShapes ==
  ASSUME Pending, NEW c \in CommandType, NEW x \in Handle(c)
  PROVE  \/ /\ x.pending = pending /\ x.outcome = "none" /\ x.effects \in Seq(QuietEffects)
            /\ ~(c.kind = "Confirm" /\ pending # NoConf /\ c.id = pending.id)
         \/ /\ pending = NoConf /\ Len(asked) < MaxConfirmations
            /\ x.pending # NoConf /\ x.pending.id = Len(asked) + 1 /\ x.outcome = "none"
            /\ x.effects = <<Required(Len(asked) + 1), State("Busy")>>
         \/ /\ pending # NoConf /\ x.pending = NoConf /\ x.outcome # "none"
            /\ \E s \in Seq(QuietEffects) : x.effects = <<Completed(pending.id, x.outcome)>> \o s
  <1> DEFINE Kept1(y) == /\ y.pending = pending /\ y.outcome = "none" /\ y.effects \in Seq(QuietEffects)
             Asks1(y) == /\ pending = NoConf /\ Len(asked) < MaxConfirmations
                         /\ y.pending # NoConf /\ y.pending.id = Len(asked) + 1 /\ y.outcome = "none"
                         /\ y.effects = <<Required(Len(asked) + 1), State("Busy")>>
             Ends1(y) == /\ pending # NoConf /\ y.pending = NoConf /\ y.outcome # "none"
                         /\ \E s \in Seq(QuietEffects) : y.effects = <<Completed(pending.id, y.outcome)>> \o s
  <1>1. ASSUME NEW r, CanAsk, x \in Ask(r) PROVE Asks1(x)
    <2>1. Len(asked) \in Nat
      BY LenProperties DEF Pending
    <2>2. PICK f \in BOOLEAN :
            x = Reaction([id |-> Len(asked) + 1, fido |-> r, fits |-> f], "none",
                         <<Required(Len(asked) + 1), State("Busy")>>)
      BY <1>1 DEF Ask
    <2>3. [id |-> Len(asked) + 1, fido |-> r, fits |-> f] # NoConf
      BY <2>1 DEF NoConf
    <2> QED
      BY <1>1, <2>2, <2>3 DEF Reaction, CanAsk
  <1>2. ASSUME NEW es \in Seq(QuietEffects), x = Keep(es) PROVE Kept1(x)
    BY <1>2 DEF Keep, Reaction
  <1>3. ASSUME NEW n \in {0, 1}, NEW id \in Nat, NEW what \in {"Success", "Cancelled", "Failed"}
        PROVE  /\ Effect("Fido", id, what, n) \in QuietEffects
               /\ LocalResult \in QuietEffects /\ State("Ready") \in QuietEffects
    BY <1>3 DEF LocalResult, State, Effect, QuietEffects, EffectType, Sizes
  <1>4. ASSUME NEW out \in {"Approved", "Rejected", "Cancelled"}, pending # NoConf
        PROVE  /\ Ends1(End(out))
               /\ Ends1([End(out) EXCEPT !.effects = @ \o <<LocalResult>>])
    <2> DEFINE first == <<Completed(pending.id, out)>>
               told == IF pending.fido = 0 THEN <<>>
                       ELSE <<Effect("Fido", pending.fido, IF out = "Approved" THEN "Success" ELSE "Cancelled", 0)>>
               rest == told \o <<State("Ready")>>
    <2>1. told \in Seq(QuietEffects) /\ <<State("Ready")>> \in Seq(QuietEffects)
          /\ <<LocalResult>> \in Seq(QuietEffects)
      <3>1. pending.fido \in Nat
        BY DEF Pending, ConfType
      <3>2. /\ Effect("Fido", pending.fido, IF out = "Approved" THEN "Success" ELSE "Cancelled", 0) \in QuietEffects
            /\ LocalResult \in QuietEffects /\ State("Ready") \in QuietEffects
        BY <1>3, <3>1
      <3> HIDE DEF QuietEffects
      <3> QED
        BY <3>2, EmptySeq
    <2> HIDE DEF told
    <2>2. rest \in Seq(QuietEffects) /\ rest \o <<LocalResult>> \in Seq(QuietEffects)
      BY <2>1, ConcatProperties
    <2>3. End(out) = Reaction(NoConf, out, first \o told \o <<State("Ready")>>)
      BY DEF End, told
    <2>4. first \o told \o <<State("Ready")>> = first \o rest
      <3>1. first \in Seq({Completed(pending.id, out)})
        OBVIOUS
      <3> HIDE DEF first
      <3> QED
        BY <2>1, <3>1, ConcatAssociative
    <2>5. (first \o rest) \o <<LocalResult>> = first \o (rest \o <<LocalResult>>)
      <3>1. first \in Seq({Completed(pending.id, out)})
        OBVIOUS
      <3> HIDE DEF first, rest
      <3> QED
        BY <2>1, <2>2, <3>1, ConcatAssociative
    <2> HIDE DEF rest
    <2>6. /\ End(out).pending = NoConf /\ End(out).outcome = out /\ End(out).effects = first \o rest
          /\ [End(out) EXCEPT !.effects = @ \o <<LocalResult>>].pending = NoConf
          /\ [End(out) EXCEPT !.effects = @ \o <<LocalResult>>].outcome = out
          /\ [End(out) EXCEPT !.effects = @ \o <<LocalResult>>].effects = first \o (rest \o <<LocalResult>>)
      BY <2>3, <2>4, <2>5 DEF Reaction
    <2> QED
      BY <1>4, <2>2, <2>6
  <1>5. <<>> \in Seq(QuietEffects)
    BY EmptySeq
  <1>6. CASE c.kind = "Fido" /\ c.req = "Confirm"
    <2>1. (CanAsk /\ x \in Ask(c.id)) \/ x = Keep(<<Effect("Fido", c.id, "Failed", 0)>>)
      BY <1>6 DEF Handle
    <2>2. Effect("Fido", c.id, "Failed", 0) \in QuietEffects
      BY <1>3 DEF CommandType
    <2>3. <<Effect("Fido", c.id, "Failed", 0)>> \in Seq(QuietEffects)
      BY <2>2
    <2> HIDE DEF Kept1, Asks1
    <2>4. Kept1(x) \/ Asks1(x)
      BY <1>1, <1>2, <2>1, <2>3
    <2> QED
      BY <1>6, <2>4 DEF Kept1, Asks1
  <1>7. CASE c.kind = "Fido" /\ c.req = "CancelConfirmation"
    <2>1. (pending # NoConf /\ x = End("Cancelled")) \/ x = Keep(<<>>)
      BY <1>7 DEF Handle
    <2> HIDE DEF Kept1, Ends1
    <2>2. Kept1(x) \/ Ends1(x)
      BY <1>2, <1>4, <1>5, <2>1
    <2> QED
      BY <1>7, <2>2 DEF Kept1, Ends1
  <1>8. CASE c.kind = "Fido" /\ c.req = "Register"
    <2>1. \/ x = Keep(<<Effect("Fido", c.id, "Success", 1)>>)
          \/ x = Keep(<<Effect("Fido", c.id, "Failed", 0)>>)
      BY <1>8 DEF Handle
    <2>2. Effect("Fido", c.id, "Failed", 0) \in QuietEffects /\ Effect("Fido", c.id, "Success", 1) \in QuietEffects
      BY <1>3 DEF CommandType
    <2>3. /\ <<Effect("Fido", c.id, "Failed", 0)>> \in Seq(QuietEffects)
          /\ <<Effect("Fido", c.id, "Success", 1)>> \in Seq(QuietEffects)
      BY <2>2
    <2> HIDE DEF Kept1
    <2>4. Kept1(x)
      BY <1>2, <2>1, <2>3
    <2> QED
      BY <1>8, <2>4 DEF Kept1
  <1>9. CASE c.kind = "Confirm"
    <2>1. x = IF pending # NoConf /\ pending.id = c.id
              THEN End(IF c.req = "Approve" THEN "Approved" ELSE "Rejected") ELSE Keep(<<>>)
      BY <1>9 DEF Handle
    <2> HIDE DEF Kept1, Ends1
    <2>2. CASE pending # NoConf /\ pending.id = c.id
      <3>1. Ends1(x)
        BY <1>4, <2>1, <2>2
      <3> QED
        BY <3>1 DEF Ends1
    <2>3. CASE ~(pending # NoConf /\ pending.id = c.id)
      <3>1. Kept1(x)
        BY <1>2, <1>5, <2>1, <2>3
      <3> QED
        BY <2>3, <3>1 DEF Kept1
    <2> QED
      BY <2>2, <2>3
  <1>10. CASE c.kind = "Local"
    <2>1. x = IF c.req = "Lock" /\ pending # NoConf
              THEN [End("Cancelled") EXCEPT !.effects = @ \o <<LocalResult>>]
              ELSE Keep(<<LocalResult>>)
      BY <1>10 DEF Handle
    <2>2. LocalResult \in QuietEffects
      BY <1>3
    <2>3. <<LocalResult>> \in Seq(QuietEffects)
      BY <2>2
    <2> HIDE DEF Kept1, Ends1
    <2>4. Kept1(x) \/ Ends1(x)
      BY <1>2, <1>4, <2>1, <2>3
    <2> QED
      BY <1>10, <2>4 DEF Kept1, Ends1
  <1>11. CASE /\ ~(c.kind = "Fido" /\ c.req \in {"Confirm", "CancelConfirmation", "Register"})
              /\ c.kind # "Confirm" /\ c.kind # "Local"
    <2>1. x = Keep(<<>>) \/ (CanAsk /\ x \in Ask(0))
      BY <1>11 DEF Handle
    <2> HIDE DEF Kept1, Asks1
    <2>2. Kept1(x) \/ Asks1(x)
      BY <1>1, <1>2, <1>5, <2>1
    <2> QED
      BY <1>11, <2>2 DEF Kept1, Asks1
  <1> QED
    BY <1>6, <1>7, <1>8, <1>9, <1>10, <1>11

\* Effects are routed in order; after the first one nothing is announced any more.
LEMMA TailIsQuiet ==
  ASSUME Queues, Shapes, effects # <<>>, effects' = Tail(effects)
  PROVE  Shapes' /\ ~Announcing'
  <1>1. Tail(effects) \in Seq(QuietEffects)
    BY DEF Shapes
  <1>2. CASE Tail(effects) = <<>>
    BY <1>2 DEF Shapes, Announcing, Current
  <1>3. CASE Tail(effects) # <<>>
    <2>1. Head(Tail(effects)) \in QuietEffects /\ Tail(Tail(effects)) \in Seq(QuietEffects)
      BY <1>1, <1>3, HeadTailProperties
    <2>2. effects' # <<>> /\ Head(effects') \in QuietEffects /\ Tail(effects') \in Seq(QuietEffects)
      BY <1>3, <2>1
    <2>3. \A x \in QuietEffects : x.type \notin {"Required", "Completed"}
      BY DEF QuietEffects
    <2> QED
      BY <2>2, <2>3 DEF Shapes, Announcing, Current
  <1> QED
    BY <1>2, <1>3

\* The runtime's confirmation has a number, and a settled state has none.
LEMMA PendingNumber ==
  ASSUME Pending
  PROVE  /\ Len(asked) \in Nat /\ DOMAIN asked = 1..Len(asked)
         /\ pending # NoConf => pending.id \in 1..Len(asked)
         /\ NoConf.id = 0
  BY LenProperties DEF Pending, NoConf

\* What the clients keep of a confirmation.
Holders == <<pressed, approving, confirmation, initial, next>>

\* The steps of the core thread that publish nothing.
LEMMA SilentKeepsConf ==
  ASSUME IInv, ConfInv, UNCHANGED <<Holders, confVars, pending, asked, consented>>,
         CommandGet \/ Drained \/ RouteResult \/ RouteState \/ CoreInit
  PROVE  ConfInv'
  <1>1. Known'
    BY DEF ConfInv, Known, Holders, confVars, CommandGet, Drained, RouteResult, RouteState, CoreInit, execVars
  <1>2. CASE CommandGet \/ Drained \/ CoreInit
    <2>1. UNCHANGED <<effects, reject>>
      BY <1>2 DEF CommandGet, Drained, CoreInit, execVars
    <2>2. Shapes' /\ Announcing' = Announcing /\ Current("Required")' = Current("Required")
          /\ Current("Completed")' = Current("Completed")
      BY <2>1 DEF ConfInv, Shapes, Announcing, Current
    <2>3. Stages'
      BY <1>2, <2>1, <2>2 DEF ConfInv, Stages, CommandGet, Drained, CoreInit, execVars, Current
    <2>4. \/ corePc \notin {"publish", "clear"} /\ corePc' \notin {"publish", "clear"}
          \/ UNCHANGED corePc
      BY <1>2 DEF CommandGet, Drained, CoreInit, execVars
    <2>5. Asking' /\ Ending' /\ Settling'
      BY <2>1, <2>2, <2>4 DEF ConfInv, Asking, Ending, Settling, Shut, Shows, confVars
    <2> QED
      BY <1>1, <2>2, <2>3, <2>5 DEF ConfInv
  <1>3. CASE RouteResult \/ RouteState
    <2>1. /\ effects # <<>> /\ effects' = Tail(effects) /\ corePc = "drain" /\ corePc' = "drain"
          /\ UNCHANGED <<reject, command>>
          /\ ~Announcing
      BY <1>3 DEF RouteResult, RouteState, NextEffect, Announcing, Current
    <2>2. Shapes' /\ ~Announcing'
      BY <2>1, TailIsQuiet DEF IInv, ConfInv
    <2>3. Stages'
      BY <2>1 DEF ConfInv, Stages
    <2>4. Asking' /\ Ending' /\ Settling'
      BY <2>1, <2>2 DEF ConfInv, Asking, Ending, Settling, Shut, Shows, confVars, Announcing
    <2> QED
      BY <1>1, <2>2, <2>3, <2>4 DEF ConfInv
  <1> QED
    BY <1>2, <1>3

\* The steps that publish or keep the copies.
LEMMA PublishingKeepsConf ==
  ASSUME IInv, ConfInv, UNCHANGED <<Holders, pending, asked, consented>>,
         Store \/ PublishRequired \/ PublishCompleted \/ Clear
  PROVE  ConfInv'
  <1>0. /\ Len(asked) \in Nat /\ NoConf.id = 0
        /\ pending # NoConf => pending.id \in 1..Len(asked)
    BY PendingNumber DEF IInv
  <1>1. CASE Store
    <2>1. Current("Required") /\ Announcing
      BY <1>1 DEF Store, Current, Announcing
    <2> DEFINE id == Head(effects).id
    <2>2. /\ pending # NoConf /\ pending.id = id /\ reject = 0 /\ id \in 1..Len(asked)
          /\ activeConf = 0 /\ channel.phase # "REQUIRED"
      BY <1>0, <2>1 DEF ConfInv, Asking
    <2>3. CASE pending.fits
      <3>1. /\ snapshot' = id /\ corePc' = "publish" /\ UNCHANGED <<effects, reject, channel, activeConf, command>>
        BY <1>1, <2>2, <2>3 DEF Store
      <3>2. Shapes' /\ Current("Required")' /\ Announcing' /\ ~Current("Completed")'
        BY <2>1, <3>1 DEF ConfInv, Shapes, Current, Announcing
      <3>3. Stages' /\ Asking' /\ Ending' /\ Settling'
        BY <1>1, <2>2, <3>1, <3>2 DEF ConfInv, Stages, Asking, Ending, Settling, Store
      <3>4. Known'
        BY <2>2, <3>1 DEF ConfInv, Known, Holders
      <3> QED
        BY <3>2, <3>3, <3>4 DEF ConfInv
    <2>4. CASE ~pending.fits
      <3>1. /\ snapshot' = 0 /\ reject' = id /\ effects' = Tail(effects) /\ corePc' = "drain" /\ effects # <<>>
            /\ UNCHANGED <<channel, activeConf, command>>
        BY <1>1, <2>2, <2>4 DEF Store, NextEffect
      <3>2. Shapes' /\ ~Announcing'
        BY <3>1, TailIsQuiet DEF IInv, ConfInv
      <3>3. Stages' /\ Asking' /\ Ending' /\ Settling'
        BY <1>1, <2>2, <3>1, <3>2 DEF ConfInv, Stages, Asking, Ending, Settling, Store, Announcing, Shut
      <3>4. Known'
        BY <2>2, <3>1 DEF ConfInv, Known, Holders
      <3> QED
        BY <3>2, <3>3, <3>4 DEF ConfInv
    <2> QED
      BY <2>3, <2>4 DEF IInv, Pending, ConfType
  <1>2. CASE PublishRequired
    <2>1. corePc = "publish" /\ Current("Required") /\ Announcing /\ effects # <<>>
      BY <1>2 DEF PublishRequired, ConfInv, Stages, Current, Announcing
    <2> DEFINE id == Head(effects).id
    <2>2. /\ pending # NoConf /\ pending.id = id /\ reject = 0 /\ id \in 1..Len(asked)
          /\ snapshot = id /\ command = NoCommand
      BY <1>0, <2>1 DEF ConfInv, Asking, Stages
    <2>3. /\ channel' = [id |-> id, phase |-> "REQUIRED"] /\ activeConf' = id
          /\ effects' = Tail(effects) /\ corePc' = "drain" /\ UNCHANGED <<snapshot, reject, command>>
      BY <1>2 DEF PublishRequired, Publish, ButtonListener, NextEffect
    <2>4. Shapes' /\ ~Announcing'
      BY <2>1, <2>3, TailIsQuiet DEF IInv, ConfInv
    <2>5. Stages' /\ Asking' /\ Ending' /\ Settling'
      BY <2>2, <2>3, <2>4 DEF Stages, Asking, Ending, Settling, Announcing, Shows
    <2>6. Known'
      BY <2>2, <2>3 DEF ConfInv, Known, Holders
    <2> QED
      BY <2>4, <2>5, <2>6 DEF ConfInv
  <1>3. CASE PublishCompleted
    <2>1. corePc = "drain" /\ Current("Completed") /\ Announcing /\ ~Current("Required")
      BY <1>3 DEF PublishCompleted, Current, Announcing
    <2> DEFINE id == Head(effects).id
    <2>2. /\ pending = NoConf /\ reject = 0 /\ id \in 1..Len(asked) /\ command = NoCommand
          /\ Shut \/ Shows(id)
      BY <2>1 DEF ConfInv, Ending, Stages
    <2>3. /\ channel' = [id |-> id, phase |-> "COMPLETED"] /\ activeConf' = IF activeConf = id THEN 0 ELSE activeConf
          /\ corePc' = "clear" /\ UNCHANGED <<effects, snapshot, reject, command>>
      BY <1>3 DEF PublishCompleted, Publish, ButtonListener
    <2>4. activeConf' = 0 /\ snapshot' \in {0, id}
      BY <2>2, <2>3 DEF Shut, Shows
    <2>5. Shapes' /\ Announcing' /\ Current("Completed")' /\ ~Current("Required")'
      BY <2>1, <2>3 DEF ConfInv, Shapes, Current, Announcing
    <2>6. Stages' /\ Asking' /\ Ending' /\ Settling'
      BY <2>2, <2>3, <2>4, <2>5 DEF ConfInv, Stages, Asking, Ending, Settling
    <2>7. Known'
      BY <2>2, <2>3, <2>4 DEF ConfInv, Known, Holders
    <2> QED
      BY <2>5, <2>6, <2>7 DEF ConfInv
  <1>4. CASE Clear
    <2>1. corePc = "clear" /\ Current("Completed") /\ Announcing /\ effects # <<>>
      BY <1>4 DEF Clear, ConfInv, Stages, Current, Announcing
    <2> DEFINE id == Head(effects).id
    <2>2. /\ pending = NoConf /\ reject = 0 /\ command = NoCommand
          /\ activeConf = 0 /\ channel.phase # "REQUIRED" /\ snapshot \in {0, id}
      BY <2>1 DEF ConfInv, Ending, Stages
    <2>3. /\ snapshot' = 0 /\ effects' = Tail(effects) /\ corePc' = "drain"
          /\ UNCHANGED <<channel, activeConf, reject, command>>
      BY <1>4, <2>2 DEF Clear, NextEffect
    <2>4. Shapes' /\ ~Announcing'
      BY <2>1, <2>3, TailIsQuiet DEF IInv, ConfInv
    <2>5. Stages' /\ Asking' /\ Ending' /\ Settling'
      BY <2>2, <2>3, <2>4 DEF Stages, Asking, Ending, Settling, Announcing, Shut
    <2>6. Known'
      BY <1>0, <2>3 DEF ConfInv, Known, Holders
    <2> QED
      BY <2>4, <2>5, <2>6 DEF ConfInv
  <1> QED
    BY <1>1, <1>2, <1>3, <1>4

\* The first element of a sequence and the others.
LEMMA FirstAndRest ==
  ASSUME NEW T, NEW e, NEW s \in Seq(T)
  PROVE  /\ <<e>> \o s # <<>> /\ Head(<<e>> \o s) = e
         /\ Tail(<<e>> \o s) \in Seq(T)
  <1> DEFINE U == T \cup {e}
             r == <<e>> \o s
  <1>1. <<e>> \in Seq(U) /\ s \in Seq(U) /\ Len(<<e>>) = 1 /\ <<e>>[1] = e
    BY SeqMonotonic
  <1> HIDE DEF U
  <1>2. /\ r \in Seq(U) /\ Len(s) \in Nat /\ Len(r) = 1 + Len(s) /\ r[1] = e
        /\ \A i \in 2..Len(r) : r[i] = s[i - 1]
    <2>1. /\ r \in Seq(U) /\ Len(r) = Len(<<e>>) + Len(s)
          /\ \A i \in 1..Len(<<e>>) + Len(s) : r[i] = IF i <= Len(<<e>>) THEN <<e>>[i] ELSE s[i - Len(<<e>>)]
      BY <1>1, ConcatProperties
    <2>2. Len(s) \in Nat
      BY LenProperties
    <2> HIDE DEF r
    <2> QED
      BY <1>1, <2>1, <2>2
  <1> HIDE DEF r
  <1>3. r # <<>> /\ Head(r) = e
    BY <1>2, HeadTailProperties, EmptySeq
  <1>4. Tail(r) = s
    <2>1. /\ Tail(r) \in Seq(U) /\ Len(Tail(r)) = Len(r) - 1
          /\ \A i \in 1..Len(r) - 1 : Tail(r)[i] = r[i + 1]
      BY <1>2, <1>3, HeadTailProperties
    <2> QED
      BY <1>1, <1>2, <2>1, SeqEqual
  <1> QED
    BY <1>3, <1>4 DEF r

\* The runtime handles one command.
LEMMA ExecuteKeepsConf ==
  ASSUME IInv, ConfInv, Execute, UNCHANGED Holders
  PROVE  ConfInv'
  <1> PICK x \in Handle(command) :
        /\ pending' = x.pending /\ effects' = x.effects
        /\ asked' = IF x.outcome # "none" THEN [asked EXCEPT ![pending.id].outcome = x.outcome]
                    ELSE IF x.pending # pending
                    THEN Append(asked, [fido |-> x.pending.fido, outcome |-> "none"])
                    ELSE asked
    BY DEF Execute
  <1>1. /\ command \in CommandType /\ asked \in Seq(AskedType) /\ Len(asked) \in Nat /\ NoConf.id = 0
        /\ DOMAIN asked = 1..Len(asked)
        /\ pending # NoConf => pending.id \in 1..Len(asked)
    BY PendingNumber DEF IInv, Queues, Pending, GoodCommands
  <1>2. /\ UNCHANGED <<consented, channel, snapshot, activeConf>>
        /\ command' = NoCommand /\ reject' = 0 /\ corePc = "execute" /\ corePc' = "drain" /\ effects = <<>>
    BY DEF Execute, confVars
  <1>3. ~Announcing /\ (reject = 0 \/ command = Confirm("Reject", reject))
    BY <1>2 DEF ConfInv, Stages, Announcing, Current
  <1>4. IF reject # 0 THEN pending # NoConf /\ pending.id = reject /\ Shut
        ELSE IF pending = NoConf THEN Shut ELSE Shows(pending.id)
    BY <1>3 DEF ConfInv, Settling
  <1>5. CASE /\ x.pending = pending /\ x.outcome = "none" /\ x.effects \in Seq(QuietEffects)
             /\ ~(command.kind = "Confirm" /\ pending # NoConf /\ command.id = pending.id)
    <2>1. UNCHANGED <<pending, asked>>
      BY <1>5
    <2>2. reject = 0
      BY <1>3, <1>4, <1>5 DEF Confirm
    <2>3. Shapes' /\ ~Announcing'
      <3>1. CASE x.effects = <<>>
        BY <3>1 DEF Shapes, Announcing, Current
      <3>2. CASE x.effects # <<>>
        <4>1. Head(x.effects) \in QuietEffects /\ Tail(x.effects) \in Seq(QuietEffects)
          BY <1>5, <3>2, HeadTailProperties
        <4>2. \A y \in QuietEffects : y.type \notin {"Required", "Completed"}
          BY DEF QuietEffects
        <4> QED
          BY <3>2, <4>1, <4>2 DEF Shapes, Announcing, Current
      <3> QED
        BY <3>1, <3>2
    <2>4. Stages' /\ Asking' /\ Ending' /\ Settling'
      BY <1>2, <1>4, <2>1, <2>2, <2>3 DEF Stages, Asking, Ending, Settling, Announcing, Shut, Shows
    <2>5. Known'
      BY <1>1, <1>2, <2>1 DEF ConfInv, Known, Holders
    <2> QED
      BY <2>3, <2>4, <2>5 DEF ConfInv
  <1>6. CASE /\ pending = NoConf /\ Len(asked) < MaxConfirmations
             /\ x.pending # NoConf /\ x.pending.id = Len(asked) + 1 /\ x.outcome = "none"
             /\ x.effects = <<Required(Len(asked) + 1), State("Busy")>>
    <2>1. asked' = Append(asked, [fido |-> x.pending.fido, outcome |-> "none"])
      BY <1>6
    <2>2. Len(asked') = Len(asked) + 1
      <3> DEFINE new == [fido |-> x.pending.fido, outcome |-> "none"]
      <3>1. asked \in Seq(AskedType \cup {new}) /\ new \in AskedType \cup {new}
        BY <1>1, SeqMonotonic
      <3> HIDE DEF new
      <3> QED
        BY <2>1, <3>1, AppendProperties DEF new
    <2>3. Shut /\ reject = 0
      BY <1>4, <1>6
    <2>4. /\ effects' # <<>> /\ Head(effects') = Required(Len(asked) + 1)
          /\ Tail(effects') = <<State("Busy")>>
      BY <1>6
    <2>5. Shapes' /\ Current("Required")' /\ Announcing' /\ ~Current("Completed")'
      <3>1. State("Busy") \in QuietEffects
        BY DEF State, Effect, QuietEffects, EffectType, Sizes
      <3>2. <<State("Busy")>> \in Seq(QuietEffects)
        BY <3>1
      <3>3. Head(effects').type = "Required"
        BY <2>4 DEF Required, Effect
      <3> QED
        BY <2>4, <3>2, <3>3 DEF Shapes, Announcing, Current
    <2>6. Head(effects').id = Len(asked) + 1
      BY <2>4 DEF Required, Effect
    <2>7. Stages' /\ Asking' /\ Ending' /\ Settling'
      BY <1>2, <1>6, <2>3, <2>5, <2>6 DEF Stages, Asking, Ending, Settling, Shut
    <2>8. Known'
      <3>1. 0..Len(asked) \subseteq 0..Len(asked') /\ 1..Len(asked) \subseteq 1..Len(asked') /\ 0 \in 0..Len(asked')
        BY <1>1, <2>2
      <3>2. UNCHANGED <<snapshot, activeConf, channel, consented, pressed, approving, confirmation, initial, next>>
        BY <1>2 DEF Holders
      <3>3. Len(asked') <= MaxConfirmations
        BY <1>1, <1>6, <2>2, CoreAssumption
      <3> QED
        BY <1>2, <3>1, <3>2, <3>3 DEF ConfInv, Known
    <2> QED
      BY <2>5, <2>7, <2>8 DEF ConfInv
  <1>7. CASE /\ pending # NoConf /\ x.pending = NoConf /\ x.outcome # "none"
             /\ \E s \in Seq(QuietEffects) : x.effects = <<Completed(pending.id, x.outcome)>> \o s
    <2>1. asked' = [asked EXCEPT ![pending.id].outcome = x.outcome]
      BY <1>7
    <2>2. Len(asked') = Len(asked)
      BY <1>1, <1>7, <2>1
    <2>3. /\ effects' # <<>> /\ Head(effects') = Completed(pending.id, x.outcome)
          /\ Tail(effects') \in Seq(QuietEffects)
      <3> PICK s \in Seq(QuietEffects) : x.effects = <<Completed(pending.id, x.outcome)>> \o s
        BY <1>7
      <3> QED
        BY FirstAndRest
    <2>4. Shapes' /\ Current("Completed")' /\ Announcing' /\ ~Current("Required")'
          /\ Head(effects').id = pending.id
      BY <2>3 DEF Shapes, Announcing, Current, Completed, Effect
    <2>5. Shut \/ Shows(pending.id)
      BY <1>4, <1>7
    <2>6. Stages' /\ Asking' /\ Ending' /\ Settling'
      BY <1>1, <1>2, <1>7, <2>2, <2>4, <2>5 DEF Stages, Asking, Ending, Settling, Shut, Shows
    <2>7. Known'
      <3>1. UNCHANGED <<snapshot, activeConf, channel, consented, pressed, approving, confirmation, initial, next>>
        BY <1>2 DEF Holders
      <3>2. 0 \in 0..Len(asked')
        <4>1. Len(asked) \in Nat
          BY <1>1
        <4> QED
          BY <2>2, <4>1
      <3> QED
        BY <1>2, <2>2, <3>1, <3>2 DEF ConfInv, Known
    <2> QED
      BY <2>4, <2>6, <2>7 DEF ConfInv
  <1> QED
    BY <1>1, <1>5, <1>6, <1>7, HandleShapes DEF IInv

\* All steps of the core thread.
LEMMA CoreKeepsConf ==
  ASSUME IInv, ConfInv, Core
  PROVE  ConfInv'
  <1>1. UNCHANGED Holders
    BY DEF Core, Holders, buttonVars
  <1>2. CASE Execute
    BY <1>1, <1>2, ExecuteKeepsConf
  <1>3. CASE CommandGet \/ Drained \/ RouteResult \/ RouteState \/ CoreInit
    <2>1. UNCHANGED <<confVars, pending, asked, consented>>
      BY <1>3 DEF CommandGet, Drained, RouteResult, RouteState, CoreInit, runtimeVars
    <2> QED
      BY <1>1, <1>3, <2>1, SilentKeepsConf
  <1>4. CASE Store \/ PublishRequired \/ PublishCompleted \/ Clear
    <2>1. UNCHANGED <<pending, asked, consented>>
      BY <1>4 DEF Store, PublishRequired, PublishCompleted, Clear, runtimeVars
    <2> QED
      BY <1>1, <1>4, <2>1, PublishingKeepsConf
  <1> QED
    BY <1>2, <1>3, <1>4 DEF Core, CoreStep

\* The clients publish nothing; they keep numbers they were given, and approve what they show.
LEMMA ClientKeepsConf ==
  ASSUME IInv, ConfInv, Fido2Service \/ UserButton \/ TouchUi \/ Transport \/ UNCHANGED vars
  PROVE  ConfInv'
  <1>1. UNCHANGED <<execVars, runtimeVars, confVars>>
    BY DEF Fido2Service, FidoStep, FidoClient, Begin, Submit, Skip, Answer, TakeResult, TimeOut,
       CancelTimedOut, UpCancel, UpCancelSubmit, UserButton, ButtonStep, ButtonWork, Press, TakePress,
       SubmitPress, Transport, Chunk, TouchUi, UiStep, UiStarting, UiThread, InitRead, InitApply, Wake,
       Scan, LocalResults, ReadChannel, ApplyNext, Choose, Request, vars, coreVars
  <1>2. UNCHANGED <<corePc, command, effects, reject, pending, asked, channel, snapshot, activeConf>>
    BY <1>1 DEF execVars, runtimeVars, confVars
  <1>3. Shapes' /\ Stages' /\ Asking' /\ Ending' /\ Settling'
    BY <1>2 DEF ConfInv, Shapes, Stages, Asking, Ending, Settling, Announcing, Current, Shut, Shows
  <1> DEFINE Ids == 0..Len(asked)
  <1>4. /\ {pressed', approving', confirmation', initial'.id, next'.id} \subseteq Ids
        /\ consented' \subseteq 1..Len(asked)
    <2>0. /\ {reject, snapshot, activeConf, pressed, approving, confirmation,
              channel.id, initial.id, next.id} \subseteq Ids
          /\ consented \subseteq 1..Len(asked) /\ 0 \in Ids /\ \A i \in Ids : i # 0 => i \in 1..Len(asked)
      <3>1. Len(asked) \in Nat
        BY PendingNumber DEF IInv
      <3> QED
        BY <3>1 DEF ConfInv, Known
    <2> HIDE DEF Ids
    <2>1. CASE Fido2Service \/ Transport \/ UNCHANGED vars
      <3>1. UNCHANGED <<pressed, approving, confirmation, initial, next, consented>>
        BY <2>1 DEF Fido2Service, FidoStep, FidoClient, Begin, Submit, Skip, Answer, TakeResult, TimeOut,
           CancelTimedOut, UpCancel, UpCancelSubmit, Transport, Chunk, vars, coreVars, buttonVars, uiVars
      <3> QED
        BY <2>0, <3>1
    <2>2. CASE UserButton
      <3>1. UNCHANGED <<confirmation, initial, next>>
        BY <2>2 DEF UserButton, uiVars
      <3>2. /\ {pressed', approving'} \subseteq {0, pressed, approving, activeConf}
            /\ consented' = consented \/ (activeConf # 0 /\ consented' = consented \cup {activeConf})
        BY <2>2 DEF UserButton, ButtonStep, ButtonWork, Press, TakePress, SubmitPress, coreVars
      <3> QED
        BY <2>0, <3>1, <3>2
    <2>3. CASE TouchUi
      <3>1. UNCHANGED <<pressed, approving>>
        BY <2>3 DEF TouchUi, buttonVars
      <3>2. /\ {confirmation', initial'.id, next'.id} \subseteq {0, confirmation, initial.id, next.id, channel.id}
            /\ consented' = consented \/ (confirmation # 0 /\ consented' = consented \cup {confirmation})
        <4>1. CASE UiStarting \/ UiThread
          BY <4>1 DEF UiStarting, UiThread, InitRead, InitApply, Wake, Scan, LocalResults,
             ReadChannel, ApplyNext, Apply, coreVars
        <4>2. ASSUME NEW choice \in {"Approve", "Reject"}, Choose(choice)
              PROVE  /\ UNCHANGED <<confirmation, initial, next>>
                     /\ consented' = consented \/ (confirmation # 0 /\ consented' = consented \cup {confirmation})
          BY <4>2 DEF Choose
        <4>3. ASSUME NEW req \in {"Lock", "Unlock"}, Request(req)
              PROVE  UNCHANGED <<confirmation, initial, next, consented>>
          BY <4>3 DEF Request
        <4> QED
          BY <2>3, <4>1, <4>2, <4>3 DEF TouchUi, UiStep
      <3> QED
        BY <2>0, <3>1, <3>2
    <2> QED
      BY <2>1, <2>2, <2>3
  <1>5. Known'
    BY <1>2, <1>4 DEF ConfInv, Known
  <1> QED
    BY <1>3, <1>5 DEF ConfInv

\* The copies agree at the start, when there are none.
LEMMA InitConf == Init => ConfInv
  <1> SUFFICES ASSUME Init PROVE ConfInv
    OBVIOUS
  <1>1. asked = <<>> /\ Len(asked) = 0
    BY DEF Init, CoreStart
  <1> QED
    BY <1>1, CoreAssumption DEF Init, CoreStart, FidoStart, ButtonStart, UiStart, NoChannel, NoConf, ConfInv,
       Shapes, Stages, Asking, Ending, Settling, Known, Announcing, Current, Shut

\* And every step keeps them in one of the stages above.
LEMMA NextKeepsConf == IInv /\ ConfInv /\ [Next]_vars => ConfInv'
  BY CoreKeepsConf, ClientKeepsConf DEF Next

\* Both invariants hold in every state.
LEMMA ConfInvariant == Spec => [](IInv /\ ConfInv)
  BY InitGood, NextKeeps, InitConf, NextKeepsConf, PTL DEF Spec

\* Between two commands the copy the UI reads, the confirmation the button approves and the
\* published state are those of the confirmation the runtime waits for, and all are gone when it
\* waits for none (src/core.c:114-134, src/core.c:262-307): for every depth of the queues, every
\* size of the pools and any number of requests and confirmations, those that fit no copy included.
THEOREM ConfirmationsCoherent == Spec => []ConfirmationCoherent
  <1>1. IInv /\ ConfInv => ConfirmationCoherent
    <2> SUFFICES ASSUME IInv, ConfInv, corePc = "wait" PROVE
          /\ snapshot = pending.id /\ activeConf = pending.id
          /\ IF pending = NoConf THEN channel.phase # "REQUIRED"
                                 ELSE channel = [id |-> pending.id, phase |-> "REQUIRED"]
      BY DEF ConfirmationCoherent
    <2>1. ~Announcing /\ reject = 0
      BY DEF ConfInv, Stages, Announcing, Current
    <2> QED
      BY <2>1, PendingNumber DEF ConfInv, Settling, Shut, Shows, IInv
  <1> QED
    BY <1>1, ConfInvariant, PTL

-----------------------------------------------------------------------------
(* Sums over a queue.                                                      *)

\* Induction over the naturals, for a set instead of a predicate.
LEMMA SetInduction ==
  ASSUME NEW S \in SUBSET Nat, 0 \in S, \A n \in S : n + 1 \in S
  PROVE  S = Nat
  <1> DEFINE T == Nat \ S
             R == {ss \in Nat \X Nat : ss[1] < ss[2]}
  <1> SUFFICES ASSUME T # {} PROVE FALSE
    OBVIOUS
  <1>1. PICK x \in T : \A y \in T : ~(<<y, x>> \in R)
    <2>1. T \subseteq Nat
      OBVIOUS
    <2> HIDE DEF T
    <2>2. IsWellFoundedOn(R, Nat)
      BY NatLessThanWellFounded DEF OpToRel
    <2> QED
      BY <2>1, <2>2, WFMin
  <1>2. \A y \in T : ~(y < x)
    BY <1>1
  <1>3. x # 0 /\ x - 1 \in Nat /\ x - 1 < x
    OBVIOUS
  <1>4. x - 1 \in S
    BY <1>2, <1>3
  <1>5. x - 1 + 1 \in S
    BY <1>4
  <1> QED
    BY <1>5

\* f[i] is the sum of the first i elements of w.
Adds(f, w, n) == f = [i \in 0..n |-> IF i = 0 THEN 0 ELSE f[i - 1] + w[i].frags]

\* There is such a function, over the first n elements of any sequence,
LEMMA SumExists ==
  ASSUME NEW w, NEW n \in Nat, \A i \in 1..n : w[i].frags \in Nat
  PROVE  \E f \in [0..n -> Nat] : Adds(f, w, n)
  <1> DEFINE S == {m \in Nat : m <= n => \E f \in [0..m -> Nat] : Adds(f, w, m)}
  <1>1. 0 \in S
    <2> DEFINE f == [i \in 0..0 |-> 0]
    <2>1. f \in [0..0 -> Nat] /\ Adds(f, w, 0)
      BY DEF Adds
    <2> QED
      BY <2>1
  <1>2. ASSUME NEW m \in S PROVE m + 1 \in S
    <2> SUFFICES ASSUME m + 1 <= n PROVE \E g \in [0..m + 1 -> Nat] : Adds(g, w, m + 1)
      OBVIOUS
    <2>1. PICK f \in [0..m -> Nat] : Adds(f, w, m)
      BY <1>2
    <2> DEFINE g == [i \in 0..m + 1 |-> IF i = m + 1 THEN f[m] + w[m + 1].frags ELSE f[i]]
    <2>2. g \in [0..m + 1 -> Nat]
      OBVIOUS
    <2>3. ASSUME NEW i \in 0..m + 1 PROVE g[i] = IF i = 0 THEN 0 ELSE g[i - 1] + w[i].frags
      BY <2>1 DEF Adds
    <2> QED
      BY <2>2, <2>3 DEF Adds
  <1>3. S = Nat
    <2> HIDE DEF S
    <2>1. S \subseteq Nat
      BY DEF S
    <2> QED
      BY <1>1, <1>2, <2>1, SetInduction
  <1>4. n \in S
    BY <1>3
  <1> QED
    BY <1>4

\* and only one.
LEMMA SumUnique ==
  ASSUME NEW w, NEW n \in Nat, NEW f, NEW g, Adds(f, w, n), Adds(g, w, n)
  PROVE  f = g
  <1> DEFINE S == {m \in Nat : m <= n => f[m] = g[m]}
  <1>1. 0 \in S
    BY DEF Adds
  <1>2. ASSUME NEW m \in S PROVE m + 1 \in S
    BY <1>2 DEF Adds
  <1>3. S = Nat
    <2> HIDE DEF S
    <2>1. S \subseteq Nat
      BY DEF S
    <2> QED
      BY <1>1, <1>2, <2>1, SetInduction
  <1>4. \A m \in 0..n : f[m] = g[m]
    BY <1>3
  <1>5. /\ f = [i \in 0..n |-> f[i]]
        /\ g = [i \in 0..n |-> g[i]]
    BY DEF Adds
  <1> QED
    BY <1>4, <1>5, Zenon

\* Fragments() is the last value of it.
LEMMA FragmentsIs ==
  ASSUME NEW X, \A x \in X : x.frags \in Nat, NEW q \in Seq(X)
  PROVE  \E f \in [0..Len(q) -> Nat] : Adds(f, q, Len(q)) /\ Fragments(q) = f[Len(q)]
  <1>1. Len(q) \in Nat /\ \A i \in 1..Len(q) : q[i].frags \in Nat
    BY LenProperties, ElementOfSeq
  <1>2. PICK f \in [0..Len(q) -> Nat] : Adds(f, q, Len(q))
    BY <1>1, SumExists
  <1>3. (CHOOSE g : Adds(g, q, Len(q))) = f
    <2>1. Adds(CHOOSE g : Adds(g, q, Len(q)), q, Len(q))
      BY <1>2
    <2> QED
      BY <1>1, <1>2, <2>1, SumUnique
  <1>4. Fragments(q) = (CHOOSE g : Adds(g, q, Len(q)))[Len(q)]
    BY DEF Fragments, Adds
  <1> QED
    BY <1>2, <1>3, <1>4

\* One more message adds its fragments.
LEMMA FragmentsAppend ==
  ASSUME NEW X, \A x \in X : x.frags \in Nat, NEW q \in Seq(X), NEW c \in X
  PROVE  Fragments(Append(q, c)) = Fragments(q) + c.frags /\ Fragments(q) \in Nat
  <1> DEFINE r == Append(q, c)
  <1>1. /\ r \in Seq(X) /\ Len(q) \in Nat /\ Len(r) = Len(q) + 1 /\ r[Len(q) + 1] = c
        /\ \A i \in 1..Len(q) : r[i] = q[i]
    BY AppendProperties, LenProperties
  <1> HIDE DEF r
  <1>2. PICK f \in [0..Len(q) -> Nat] : Adds(f, q, Len(q)) /\ Fragments(q) = f[Len(q)]
    BY FragmentsIs
  <1>3. PICK g \in [0..Len(r) -> Nat] : Adds(g, r, Len(r)) /\ Fragments(r) = g[Len(r)]
    BY <1>1, FragmentsIs
  <1> DEFINE h == [i \in 0..Len(q) |-> g[i]]
  <1>4. Adds(h, q, Len(q))
    <2>1. ASSUME NEW i \in 0..Len(q) PROVE h[i] = IF i = 0 THEN 0 ELSE h[i - 1] + q[i].frags
      <3>1. i \in 0..Len(r) /\ (i # 0 => i - 1 \in 0..Len(q) /\ i \in 1..Len(q))
        BY <1>1
      <3>2. g[i] = IF i = 0 THEN 0 ELSE g[i - 1] + r[i].frags
        BY <1>3, <3>1 DEF Adds
      <3> QED
        BY <1>1, <3>1, <3>2
    <2> QED
      BY <2>1 DEF Adds
  <1>5. h = f
    BY <1>1, <1>2, <1>4, SumUnique
  <1>6. g[Len(q)] = f[Len(q)]
    BY <1>1, <1>5
  <1>7. g[Len(q) + 1] = g[Len(q)] + c.frags
    BY <1>1, <1>3 DEF Adds
  <1> QED
    BY <1>1, <1>2, <1>3, <1>6, <1>7 DEF r

\* The first message takes its own away.
LEMMA FragmentsTail ==
  ASSUME NEW X, \A x \in X : x.frags \in Nat, NEW q \in Seq(X), q # <<>>
  PROVE  Fragments(q) = Head(q).frags + Fragments(Tail(q))
  <1> DEFINE r == Tail(q)
             n == Len(q) - 1
             first == Head(q).frags
  <1>1. /\ r \in Seq(X) /\ Len(q) \in Nat /\ Len(q) >= 1 /\ Len(r) = Len(q) - 1 /\ Head(q) = q[1]
        /\ \A i \in 1..Len(r) : r[i] = q[i + 1]
    BY HeadTailProperties, LenProperties, EmptySeq
  <1> HIDE DEF r
  <1>2. PICK f \in [0..Len(r) -> Nat] : Adds(f, r, Len(r)) /\ Fragments(r) = f[Len(r)]
    BY <1>1, FragmentsIs
  <1>3. PICK g \in [0..Len(q) -> Nat] : Adds(g, q, Len(q)) /\ Fragments(q) = g[Len(q)]
    BY <1>1, FragmentsIs
  <1>0. \A i \in 1..Len(q) : q[i].frags \in Nat
    BY ElementOfSeq
  <1> DEFINE h == [i \in 0..Len(r) |-> g[i + 1] - first]
  <1>4. Adds(h, r, Len(r))
    <2>1. ASSUME NEW i \in 0..Len(r) PROVE h[i] = IF i = 0 THEN 0 ELSE h[i - 1] + r[i].frags
      <3>1. g[0] = 0 /\ g[1] = first
        BY <1>0, <1>1, <1>3 DEF Adds
      <3>2. CASE i = 0
        BY <1>1, <3>1, <3>2
      <3>3. CASE i # 0
        <4>1. g[i + 1] = g[i] + q[i + 1].frags
          BY <1>1, <1>3, <3>3 DEF Adds
        <4>2. g[i] \in Nat /\ g[i + 1] \in Nat /\ q[i + 1].frags \in Nat /\ r[i] = q[i + 1]
          <5>1. i \in 1..Len(r) /\ i \in 0..Len(q) /\ i + 1 \in 0..Len(q) /\ i + 1 \in 1..Len(q)
            BY <1>1, <3>3
          <5>2. g[i] \in Nat /\ g[i + 1] \in Nat
            BY <1>3, <5>1
          <5>3. q[i + 1].frags \in Nat
            BY <1>0, <5>1
          <5>4. r[i] = q[i + 1]
            BY <1>1, <5>1
          <5> QED
            BY <5>2, <5>3, <5>4
        <4>5. first \in Nat
          BY <1>0, <1>1
        <4>3. h[i] = g[i + 1] - first /\ h[i - 1] = g[i] - first
          BY <1>1, <3>3
        <4> HIDE DEF h, first
        <4> QED
          BY <3>3, <4>1, <4>2, <4>3, <4>5
      <3> QED
        BY <3>2, <3>3
    <2> QED
      BY <2>1 DEF Adds
  <1>5. h = f
    BY <1>1, <1>2, <1>4, SumUnique
  <1>6. f[Len(r)] = g[Len(r) + 1] - first
    BY <1>1, <1>5
  <1>7. first \in Nat /\ g[Len(q)] \in Nat
    BY <1>0, <1>1
  <1> HIDE DEF first
  <1> QED
    BY <1>1, <1>2, <1>3, <1>6, <1>7 DEF r, first

-----------------------------------------------------------------------------
(* The two pools of payload fragments.                                     *)

\* The queues are within their depth and every fragment is accounted for; only the command that
\* is about to be executed holds one outside the queues.
PoolInv ==
  /\ cmdq \in Seq(CommandType) /\ Len(cmdq) <= QueueDepth /\ cmdFree \in Nat
  /\ command \in CommandType /\ (corePc # "execute" => command.frags = 0)
  /\ fidoq \in Seq(ResultType) /\ Len(fidoq) <= QueueDepth
  /\ localq \in Seq(ResultType) /\ Len(localq) <= QueueDepth /\ resFree \in Nat
  /\ PayloadsAccounted

\* Fragments of commands and results are counted in naturals.
LEMMA FragmentCounts ==
  /\ \A x \in CommandType : x.frags \in Nat
  /\ \A x \in ResultType : x.frags \in Nat
  /\ \A q \in Seq(CommandType) : Fragments(q) \in Nat
  /\ \A q \in Seq(ResultType) : Fragments(q) \in Nat
  <1>1. (\A x \in CommandType : x.frags \in Nat) /\ (\A x \in ResultType : x.frags \in Nat)
    BY DEF CommandType, ResultType, Sizes
  <1>2. ASSUME NEW X, \A x \in X : x.frags \in Nat, NEW q \in Seq(X) PROVE Fragments(q) \in Nat
    <2>1. PICK f \in [0..Len(q) -> Nat] : Fragments(q) = f[Len(q)]
      BY <1>2, FragmentsIs
    <2>2. Len(q) \in Nat
      BY LenProperties
    <2> QED
      BY <2>1, <2>2
  <1> HIDE DEF CommandType, ResultType
  <1> QED
    BY <1>1, <1>2

\* A client puts a command into the queue or is refused.
LEMMA SubmitKeepsPool ==
  ASSUME PoolInv, NEW c \in CommandType, Enqueue(c) \/ Refused(c) \/ UNCHANGED busVars,
         UNCHANGED <<resVars, corePc, command>>
  PROVE  PoolInv'
  <1>1. CASE Enqueue(c)
    <2>1. /\ cmdq' = Append(cmdq, c) /\ cmdFree' = cmdFree - c.frags
          /\ c.frags <= cmdFree /\ Len(cmdq) < QueueDepth
      BY <1>1 DEF Enqueue, HasRoom
    <2>2. /\ cmdq' \in Seq(CommandType) /\ Len(cmdq') = Len(cmdq) + 1 /\ Len(cmdq) \in Nat
      BY <2>1, AppendProperties, LenProperties DEF PoolInv
    <2>3. Fragments(cmdq') = Fragments(cmdq) + c.frags /\ Fragments(cmdq) \in Nat /\ c.frags \in Nat
      BY <2>1, FragmentsAppend, FragmentCounts DEF PoolInv
    <2>4. Len(cmdq') <= QueueDepth /\ cmdFree' \in Nat
      BY <2>1, <2>2, <2>3, CoreAssumption DEF PoolInv
    <2>5. PayloadsAccounted'
      <3>1. command.frags \in Nat /\ cmdFree \in Nat /\ PoolSize \in Nat
        BY FragmentCounts, CoreAssumption DEF PoolInv
      <3> QED
        BY <2>1, <2>3, <3>1 DEF PoolInv, PayloadsAccounted, resVars
    <2> QED
      BY <2>2, <2>4, <2>5 DEF PoolInv, resVars
  <1>2. CASE UNCHANGED busVars
    BY <1>2 DEF PoolInv, PayloadsAccounted, busVars, resVars
  <1> QED
    BY <1>1, <1>2 DEF Refused

\* A client takes a result.
LEMMA TakeKeepsPool ==
  ASSUME PoolInv, UNCHANGED <<busVars, corePc, command>>,
         \/ fidoq # <<>> /\ fidoq' = Tail(fidoq) /\ resFree' = resFree + Head(fidoq).frags /\ UNCHANGED localq
         \/ localq # <<>> /\ localq' = Tail(localq) /\ resFree' = resFree + Head(localq).frags /\ UNCHANGED fidoq
         \/ UNCHANGED resVars
  PROVE  PoolInv'
  <1>1. ASSUME NEW q \in Seq(ResultType), q # <<>>
        PROVE  /\ Tail(q) \in Seq(ResultType) /\ Len(Tail(q)) <= Len(q) /\ Len(q) \in Nat /\ Len(Tail(q)) \in Nat
               /\ Head(q).frags \in Nat
               /\ Fragments(q) = Head(q).frags + Fragments(Tail(q))
               /\ Fragments(Tail(q)) \in Nat
    <2>1. /\ Head(q) \in ResultType /\ Tail(q) \in Seq(ResultType) /\ Len(Tail(q)) = Len(q) - 1
          /\ Len(q) \in Nat /\ Len(Tail(q)) \in Nat
      BY <1>1, HeadTailProperties, LenProperties
    <2>2. Len(Tail(q)) <= Len(q)
      BY <2>1
    <2> HIDE DEF ResultType
    <2>3. Head(q).frags \in Nat /\ Fragments(Tail(q)) \in Nat
      BY <2>1, FragmentCounts
    <2>4. Fragments(q) = Head(q).frags + Fragments(Tail(q))
      BY <1>1, FragmentsTail, FragmentCounts
    <2> QED
      BY <2>1, <2>2, <2>3, <2>4
  <1>2. /\ Fragments(fidoq) \in Nat /\ Fragments(localq) \in Nat /\ resFree \in Nat /\ PoolSize \in Nat
        /\ QueueDepth \in Nat
        /\ resFree + Fragments(fidoq) + Fragments(localq) = PoolSize
        /\ cmdFree + Fragments(cmdq) + command.frags = PoolSize
        /\ fidoq \in Seq(ResultType) /\ localq \in Seq(ResultType)
        /\ Len(fidoq) <= QueueDepth /\ Len(localq) <= QueueDepth
    BY FragmentCounts, CoreAssumption DEF PoolInv, PayloadsAccounted
  <1> HIDE DEF ResultType
  <1>3. /\ fidoq' \in Seq(ResultType) /\ Len(fidoq') <= QueueDepth /\ localq' \in Seq(ResultType)
        /\ Len(localq') <= QueueDepth /\ resFree' \in Nat
        /\ resFree' + Fragments(fidoq') + Fragments(localq') = PoolSize
    <2>1. CASE fidoq # <<>> /\ fidoq' = Tail(fidoq) /\ resFree' = resFree + Head(fidoq).frags /\ UNCHANGED localq
      <3>1. /\ Tail(fidoq) \in Seq(ResultType) /\ Len(Tail(fidoq)) <= Len(fidoq) /\ Len(fidoq) \in Nat
            /\ Len(Tail(fidoq)) \in Nat /\ Head(fidoq).frags \in Nat
            /\ Fragments(fidoq) = Head(fidoq).frags + Fragments(Tail(fidoq)) /\ Fragments(Tail(fidoq)) \in Nat
        BY <1>1, <1>2, <2>1
      <3>2. Len(fidoq') <= QueueDepth
        BY <1>2, <2>1, <3>1
      <3> DEFINE a == Fragments(fidoq)
                 b == Fragments(Tail(fidoq))
                 c == Fragments(localq)
                 h == Head(fidoq).frags
      <3>3. /\ a = h + b /\ a \in Nat /\ b \in Nat /\ c \in Nat /\ h \in Nat /\ resFree \in Nat
            /\ resFree + a + c = PoolSize /\ resFree' = resFree + h
            /\ Fragments(fidoq') = b /\ Fragments(localq') = c
        BY <1>2, <2>1, <3>1
      <3> HIDE DEF a, b, c, h
      <3>4. resFree' \in Nat /\ resFree' + Fragments(fidoq') + Fragments(localq') = PoolSize
        BY <3>3
      <3> QED
        BY <1>2, <2>1, <3>1, <3>2, <3>4
    <2>2. CASE localq # <<>> /\ localq' = Tail(localq) /\ resFree' = resFree + Head(localq).frags /\ UNCHANGED fidoq
      <3>1. /\ Tail(localq) \in Seq(ResultType) /\ Len(Tail(localq)) <= Len(localq) /\ Len(localq) \in Nat
            /\ Len(Tail(localq)) \in Nat /\ Head(localq).frags \in Nat
            /\ Fragments(localq) = Head(localq).frags + Fragments(Tail(localq)) /\ Fragments(Tail(localq)) \in Nat
        BY <1>1, <1>2, <2>2
      <3>2. Len(localq') <= QueueDepth
        BY <1>2, <2>2, <3>1
      <3> DEFINE a == Fragments(localq)
                 b == Fragments(Tail(localq))
                 c == Fragments(fidoq)
                 h == Head(localq).frags
      <3>3. /\ a = h + b /\ a \in Nat /\ b \in Nat /\ c \in Nat /\ h \in Nat /\ resFree \in Nat
            /\ resFree + c + a = PoolSize /\ resFree' = resFree + h
            /\ Fragments(localq') = b /\ Fragments(fidoq') = c
        BY <1>2, <2>2, <3>1
      <3> HIDE DEF a, b, c, h
      <3>4. resFree' \in Nat /\ resFree' + Fragments(fidoq') + Fragments(localq') = PoolSize
        BY <3>3
      <3> QED
        BY <1>2, <2>2, <3>1, <3>2, <3>4
    <2>3. CASE UNCHANGED resVars
      BY <1>2, <2>3 DEF resVars
    <2> QED
      BY <2>1, <2>2, <2>3
  <1> QED
    BY <1>2, <1>3 DEF PoolInv, PayloadsAccounted, busVars

\* The results that are routed name requests that were made.
LEMMA RoutedType ==
  ASSUME IInv, ConfInv, sequence <= MaxRequests, effects # <<>>, Head(effects).type \in {"Fido", "Local"}
  PROVE  Result(Head(effects)) \in ResultType /\ Result(Head(effects)).frags = Head(effects).frags
  <1> DEFINE e == Head(effects)
  <1>1. e \in GoodEffects
    BY CurrentEffect
  <1>2. e \in QuietEffects
    BY DEF ConfInv, Shapes, Announcing, Current
  <1>3. e.id <= sequence /\ e.id \in Nat
    BY <1>1, <1>2 DEF GoodEffects, Backed, QuietEffects, EffectType, IInv, Requests
  <1>4. e.id \in ReqIds /\ e.frags \in Sizes /\ e.what \in {"none", "Success", "Cancelled", "Failed"}
    BY <1>2, <1>3, FidoAssumption DEF QuietEffects, EffectType, ReqIds, IInv, Requests
  <1> QED
    BY <1>4 DEF Result, ResultType

\* The steps of the core thread.
LEMMA CoreKeepsPool ==
  ASSUME IInv, ConfInv, PoolInv, sequence <= MaxRequests, CoreInit \/ CoreStep
  PROVE  PoolInv'
  <1>0. /\ Fragments(cmdq) \in Nat /\ Fragments(fidoq) \in Nat /\ Fragments(localq) \in Nat
        /\ command.frags \in Nat /\ cmdFree \in Nat /\ resFree \in Nat /\ PoolSize \in Nat /\ QueueDepth \in Nat
        /\ Len(cmdq) \in Nat /\ Len(fidoq) \in Nat /\ Len(localq) \in Nat
    BY FragmentCounts, CoreAssumption, LenProperties DEF PoolInv
  <1>1. CASE CommandGet
    <2>1. /\ cmdq # <<>> /\ command' = Head(cmdq) /\ cmdq' = Tail(cmdq) /\ corePc = "wait" /\ corePc' = "execute"
          /\ UNCHANGED <<cmdFree, resVars>>
      BY <1>1 DEF CommandGet
    <2>2. /\ Head(cmdq) \in CommandType /\ Tail(cmdq) \in Seq(CommandType) /\ Len(Tail(cmdq)) = Len(cmdq) - 1
          /\ Fragments(cmdq) = Head(cmdq).frags + Fragments(Tail(cmdq))
      BY <2>1, HeadTailProperties, FragmentsTail, FragmentCounts DEF PoolInv
    <2>3. command.frags = 0 /\ Fragments(Tail(cmdq)) \in Nat /\ Head(cmdq).frags \in Nat
      BY <2>1, <2>2, FragmentCounts DEF PoolInv
    <2>4. PayloadsAccounted'
      <3> DEFINE a == Fragments(cmdq)
                 b == Fragments(Tail(cmdq))
                 h == Head(cmdq).frags
      <3>1. /\ a = h + b /\ a \in Nat /\ b \in Nat /\ h \in Nat /\ cmdFree \in Nat
            /\ cmdFree' = cmdFree /\ Fragments(cmdq') = b /\ command'.frags = h
        BY <1>0, <2>1, <2>2, <2>3
      <3>2. cmdFree + a + 0 = PoolSize
        BY <2>3 DEF PoolInv, PayloadsAccounted
      <3>3. (resFree + Fragments(fidoq) + Fragments(localq) = PoolSize)'
        BY <2>1 DEF PoolInv, PayloadsAccounted, resVars
      <3> HIDE DEF a, b, h
      <3>4. cmdFree' + Fragments(cmdq') + command'.frags = PoolSize
        BY <3>1, <3>2
      <3> QED
        BY <3>3, <3>4 DEF PayloadsAccounted
    <2>5. Len(cmdq') <= QueueDepth
      BY <1>0, <2>1, <2>2 DEF PoolInv
    <2> QED
      BY <2>1, <2>2, <2>4, <2>5 DEF PoolInv, resVars
  <1>2. CASE Execute
    <2>1. /\ cmdFree' = cmdFree + command.frags /\ command' = NoCommand /\ UNCHANGED <<cmdq, resVars>>
      BY <1>2 DEF Execute
    <2>2. NoCommand \in CommandType /\ NoCommand.frags = 0
      BY DEF NoCommand, CommandType, Sizes
    <2>3. PayloadsAccounted' /\ cmdFree' \in Nat
      <3> DEFINE a == Fragments(cmdq)
                 h == command.frags
      <3>1. /\ a \in Nat /\ h \in Nat /\ cmdFree \in Nat /\ cmdFree' = cmdFree + h
            /\ Fragments(cmdq') = a /\ command'.frags = 0
        BY <1>0, <2>1, <2>2
      <3>2. cmdFree + a + h = PoolSize
        BY DEF PoolInv, PayloadsAccounted
      <3>3. (resFree + Fragments(fidoq) + Fragments(localq) = PoolSize)'
        BY <2>1 DEF PoolInv, PayloadsAccounted, resVars
      <3> HIDE DEF a, h
      <3>4. cmdFree' + Fragments(cmdq') + command'.frags = PoolSize /\ cmdFree' \in Nat
        BY <3>1, <3>2
      <3> QED
        BY <3>3, <3>4 DEF PayloadsAccounted
    <2> QED
      BY <2>1, <2>2, <2>3 DEF PoolInv, resVars
  <1>3. CASE Drained
    <2>1. /\ UNCHANGED <<busVars, resVars>> /\ corePc = "drain"
          /\ command' \in {Confirm("Reject", reject), NoCommand}
      BY <1>3 DEF Drained
    <2>2. command' \in CommandType /\ command'.frags = 0
      BY <2>1 DEF Confirm, NoCommand, CommandType, Sizes, IInv, Numbers
    <2>3. command.frags = 0
      BY <2>1 DEF PoolInv
    <2> QED
      BY <2>1, <2>2, <2>3 DEF PoolInv, PayloadsAccounted, busVars, resVars
  <1>4. CASE RouteResult
    <2> DEFINE e == Head(effects)
               r == Result(e)
    <2>1. /\ effects # <<>> /\ corePc = "drain" /\ corePc' = "drain" /\ UNCHANGED <<busVars, command>>
          /\ e.type \in {"Fido", "Local"}
          /\ \/ e.frags <= resFree /\ Len(fidoq) < QueueDepth /\ fidoq' = Append(fidoq, r)
                /\ resFree' = resFree - e.frags /\ UNCHANGED localq
             \/ e.frags <= resFree /\ Len(localq) < QueueDepth /\ localq' = Append(localq, r)
                /\ resFree' = resFree - e.frags /\ UNCHANGED fidoq
             \/ UNCHANGED resVars
      BY <1>4 DEF RouteResult, ResultRoom, NextEffect
    <2>2. r \in ResultType /\ r.frags = e.frags /\ r.frags \in Nat
      BY <2>1, RoutedType, FragmentCounts
    <2> HIDE DEF r
    <2>3. ASSUME NEW q \in Seq(ResultType)
          PROVE  /\ Append(q, r) \in Seq(ResultType) /\ Len(Append(q, r)) = Len(q) + 1
                 /\ Fragments(Append(q, r)) = Fragments(q) + r.frags
      BY <2>2, AppendProperties, FragmentsAppend, FragmentCounts
    <2>4. /\ fidoq \in Seq(ResultType) /\ localq \in Seq(ResultType)
          /\ Len(fidoq) <= QueueDepth /\ Len(localq) <= QueueDepth
          /\ resFree + Fragments(fidoq) + Fragments(localq) = PoolSize
      BY DEF PoolInv, PayloadsAccounted
    <2> HIDE DEF ResultType, e
    <2>5. /\ fidoq' \in Seq(ResultType) /\ Len(fidoq') <= QueueDepth /\ localq' \in Seq(ResultType)
          /\ Len(localq') <= QueueDepth /\ resFree' \in Nat
          /\ resFree' + Fragments(fidoq') + Fragments(localq') = PoolSize
      <3>1. CASE e.frags <= resFree /\ Len(fidoq) < QueueDepth /\ fidoq' = Append(fidoq, r)
                 /\ resFree' = resFree - e.frags /\ UNCHANGED localq
        <4> DEFINE a == Fragments(fidoq)
                   b == Fragments(Append(fidoq, r))
                   c == Fragments(localq)
                   h == r.frags
        <4>1. /\ Append(fidoq, r) \in Seq(ResultType) /\ Len(Append(fidoq, r)) = Len(fidoq) + 1 /\ b = a + h
          BY <2>3, <2>4
        <4>2. Len(fidoq') <= QueueDepth
          BY <1>0, <3>1, <4>1
        <4>3. /\ a \in Nat /\ c \in Nat /\ h \in Nat /\ resFree \in Nat /\ h <= resFree
              /\ resFree + a + c = PoolSize /\ resFree' = resFree - h
              /\ Fragments(fidoq') = b /\ Fragments(localq') = c
          BY <1>0, <2>2, <2>4, <3>1
        <4> HIDE DEF a, b, c, h
        <4>4. resFree' \in Nat /\ resFree' + Fragments(fidoq') + Fragments(localq') = PoolSize
          BY <4>1, <4>3
        <4> QED
          BY <2>4, <3>1, <4>1, <4>2, <4>4
      <3>2. CASE e.frags <= resFree /\ Len(localq) < QueueDepth /\ localq' = Append(localq, r)
                 /\ resFree' = resFree - e.frags /\ UNCHANGED fidoq
        <4> DEFINE a == Fragments(localq)
                   b == Fragments(Append(localq, r))
                   c == Fragments(fidoq)
                   h == r.frags
        <4>1. /\ Append(localq, r) \in Seq(ResultType) /\ Len(Append(localq, r)) = Len(localq) + 1 /\ b = a + h
          BY <2>3, <2>4
        <4>2. Len(localq') <= QueueDepth
          BY <1>0, <3>2, <4>1
        <4>3. /\ a \in Nat /\ c \in Nat /\ h \in Nat /\ resFree \in Nat /\ h <= resFree
              /\ resFree + c + a = PoolSize /\ resFree' = resFree - h
              /\ Fragments(localq') = b /\ Fragments(fidoq') = c
          BY <1>0, <2>2, <2>4, <3>2
        <4> HIDE DEF a, b, c, h
        <4>4. resFree' \in Nat /\ resFree' + Fragments(fidoq') + Fragments(localq') = PoolSize
          BY <4>1, <4>3
        <4> QED
          BY <2>4, <3>2, <4>1, <4>2, <4>4
      <3>3. CASE UNCHANGED resVars
        BY <1>0, <2>4, <3>3 DEF resVars
      <3> QED
        BY <2>1, <3>1, <3>2, <3>3
    <2> QED
      BY <2>1, <2>5 DEF PoolInv, PayloadsAccounted, busVars
  <1>5. CASE RouteState \/ Store \/ PublishRequired \/ PublishCompleted \/ Clear \/ CoreInit
    <2>1. UNCHANGED <<busVars, resVars, command>> /\ (corePc' = "execute" <=> corePc = "execute")
      BY <1>5 DEF RouteState, Store, PublishRequired, PublishCompleted, Clear, CoreInit, NextEffect, execVars
    <2> QED
      BY <2>1 DEF PoolInv, PayloadsAccounted, busVars, resVars
  <1> QED
    BY <1>1, <1>2, <1>3, <1>4, <1>5 DEF CoreStep

\* The steps of the clients.
LEMMA ClientKeepsPool ==
  ASSUME IInv, PoolInv, Fido2Service \/ UserButton \/ TouchUi \/ Transport \/ UNCHANGED vars
  PROVE  PoolInv'
  <1>1. UNCHANGED <<corePc, command>>
    BY DEF Fido2Service, FidoStep, FidoClient, Begin, Submit, Skip, Answer, TakeResult, TimeOut,
       CancelTimedOut, UpCancel, UpCancelSubmit, UserButton, ButtonStep, ButtonWork, Press, TakePress,
       SubmitPress, Transport, Chunk, TouchUi, UiStep, UiStarting, UiThread, InitRead, InitApply, Wake,
       Scan, LocalResults, ReadChannel, ApplyNext, Choose, Request, vars, coreVars, execVars
  <1>2. /\ request.kind \in {"none", "Confirm", "Register"} /\ request.id \in Nat /\ cancelled \in Nat
        /\ approving \in Nat /\ confirmation \in Nat
    BY DEF IInv, Requests, Numbers
  <1>3. \/ /\ UNCHANGED resVars
           /\ \/ UNCHANGED busVars
              \/ \E c \in CommandType : Enqueue(c) \/ Refused(c)
        \/ UNCHANGED busVars /\ fidoq # <<>> /\ fidoq' = Tail(fidoq) /\ resFree' = resFree + Head(fidoq).frags
           /\ UNCHANGED localq
        \/ UNCHANGED busVars /\ localq # <<>> /\ localq' = Tail(localq) /\ resFree' = resFree + Head(localq).frags
           /\ UNCHANGED fidoq
    <2>1. CASE Fido2Service
      <3>1. Submitted \in CommandType /\ Cancellation(request.id) \in CommandType
            /\ Cancellation(cancelled) \in CommandType
        BY <1>2 DEF Submitted, Cancellation, Fido, CommandType, Sizes
      <3>2. CASE (\E kind \in Kinds : Begin(kind)) \/ TimeOut \/ UpCancel
        BY <3>2 DEF Begin, TimeOut, UpCancel, coreVars
      <3>3. CASE Submit
        BY <3>1, <3>3 DEF Submit
      <3>4. CASE Skip \/ Answer
        BY <3>4 DEF Skip, Answer, TakeResult
      <3>5. CASE CancelTimedOut \/ UpCancelSubmit
        BY <3>1, <3>5 DEF CancelTimedOut, UpCancelSubmit
      <3> QED
        BY <2>1, <3>2, <3>3, <3>4, <3>5 DEF Fido2Service, FidoStep, FidoClient
    <2>2. CASE UserButton
      <3>1. Confirm("Approve", approving) \in CommandType
        BY <1>2 DEF Confirm, CommandType, Sizes
      <3> QED
        BY <2>2, <3>1 DEF UserButton, ButtonStep, ButtonWork, Press, TakePress, SubmitPress, coreVars
    <2>3. CASE TouchUi
      <3>1. CASE UiStarting \/ UiThread
        BY <3>1 DEF UiStarting, UiThread, InitRead, InitApply, Wake, Scan, LocalResults,
           ReadChannel, ApplyNext, coreVars, resVars
      <3>2. ASSUME NEW choice \in {"Approve", "Reject"}, Choose(choice)
            PROVE  UNCHANGED resVars /\ \E c \in CommandType : Enqueue(c) \/ Refused(c)
        <4>1. Confirm(choice, confirmation) \in CommandType
          BY <1>2 DEF Confirm, CommandType, Sizes
        <4> QED
          BY <3>2, <4>1 DEF Choose
      <3>3. ASSUME NEW req \in {"Lock", "Unlock"}, Request(req)
            PROVE  UNCHANGED resVars /\ \E c \in CommandType : Enqueue(c) \/ Refused(c)
        <4>1. Local(req, 1) \in CommandType
          BY DEF Local, CommandType, Sizes
        <4> QED
          BY <3>3, <4>1 DEF Request
      <3> QED
        BY <2>3, <3>1, <3>2, <3>3 DEF TouchUi, UiStep
    <2>4. CASE Transport \/ UNCHANGED vars
      <3>1. Protocol(1) \in CommandType
        BY DEF Protocol, CommandType, Sizes
      <3> QED
        BY <2>4, <3>1 DEF Transport, Chunk, vars, coreVars
    <2> QED
      BY <2>1, <2>2, <2>3, <2>4
  <1>4. NoCommand \in CommandType
    BY DEF NoCommand, CommandType, Sizes
  <1> QED
    BY <1>1, <1>3, <1>4, SubmitKeepsPool, TakeKeepsPool

\* The rest of the type invariant.
TypesInv ==
  /\ ready \in BOOLEAN /\ walletChan \in {"Setup", "Ready", "Busy"}
  /\ sequence <= MaxRequests /\ fpc \in {"idle", "submit", "await", "cancel"}
  /\ uiPc \in {"wait", "scan", "local", "confirm", "apply"} /\ {sem, busy} \subseteq BOOLEAN
  /\ \A i \in DOMAIN asked : asked[i].fido <= MaxRequests

\* The steps of the core thread.
LEMMA CoreKeepsTypes ==
  ASSUME IInv, ConfInv, TypesInv, IInv', Core
  PROVE  TypesInv'
  <1>1. UNCHANGED <<sequence, fpc, uiPc, busy>>
    BY DEF Core, fidoVars
  <1>2. ready' \in BOOLEAN
    BY DEF TypesInv, Core, CoreStep, CoreInit, CommandGet, Execute, Drained, RouteResult, RouteState,
       Store, PublishRequired, PublishCompleted, Clear
  <1>3. walletChan' \in {"Setup", "Ready", "Busy"}
    <2>1. CASE RouteState
      <3>1. effects # <<>> /\ Head(effects).type = "State" /\ walletChan' = Head(effects).what
        BY <2>1 DEF RouteState
      <3>2. Head(effects) \in QuietEffects
        BY <3>1 DEF ConfInv, Shapes, Announcing, Current
      <3> QED
        BY <3>1, <3>2 DEF QuietEffects
    <2>2. CASE walletChan' \in {walletChan, "Ready"}
      BY <2>2 DEF TypesInv
    <2>3. RouteState \/ walletChan' \in {walletChan, "Ready"}
      BY DEF Core, CoreStep, CoreInit, CommandGet, Execute, Drained, RouteResult,
         Store, PublishRequired, PublishCompleted, Clear
    <2> QED
      BY <2>1, <2>2, <2>3
  <1>4. sem' \in BOOLEAN
    <2>1. CASE Notice
      BY <2>1, Zenon DEF Notice, Notified
    <2>2. CASE UNCHANGED sem
      BY <2>2 DEF TypesInv
    <2> QED
      BY <2>1, <2>2 DEF Core
  <1>5. \A i \in DOMAIN asked' : asked'[i].fido <= MaxRequests
    <2>1. CASE UNCHANGED asked
      BY <2>1 DEF TypesInv
    <2>2. CASE Execute
      <3> PICK x \in Handle(command) :
            /\ pending' = x.pending
            /\ asked' = IF x.outcome # "none" THEN [asked EXCEPT ![pending.id].outcome = x.outcome]
                        ELSE IF x.pending # pending
                        THEN Append(asked, [fido |-> x.pending.fido, outcome |-> "none"])
                        ELSE asked
        BY <2>2 DEF Execute
      <3>1. asked \in Seq(AskedType) /\ Len(asked) \in Nat /\ DOMAIN asked = 1..Len(asked)
        BY LenProperties DEF IInv, Pending
      <3>2. CASE asked' = Append(asked, [fido |-> x.pending.fido, outcome |-> "none"])
        <4>1. pending'.fido \in Nat /\ pending'.fido <= sequence' /\ sequence' \in Nat
          BY DEF IInv, Pending, Requests, ConfType
        <4>2. x.pending.fido <= MaxRequests
          BY <1>1, <4>1, FidoAssumption DEF TypesInv
        <4> DEFINE c == [fido |-> x.pending.fido, outcome |-> "none"]
        <4>3. c \in AskedType /\ c.fido = x.pending.fido
          BY <4>1 DEF AskedType, Outcomes
        <4> HIDE DEF c
        <4>4. /\ DOMAIN asked' = 1..Len(asked) + 1 /\ asked'[Len(asked) + 1] = c
              /\ \A i \in 1..Len(asked) : asked'[i] = asked[i]
          <5>1. asked' = Append(asked, c)
            BY <3>2 DEF c
          <5>2. /\ asked' \in Seq(AskedType) /\ Len(asked') = Len(asked) + 1 /\ asked'[Len(asked) + 1] = c
                /\ \A i \in 1..Len(asked) : asked'[i] = asked[i]
            <6>1. /\ Append(asked, c) \in Seq(AskedType) /\ Len(Append(asked, c)) = Len(asked) + 1
                  /\ \A i \in 1..Len(asked) : Append(asked, c)[i] = asked[i]
                  /\ Append(asked, c)[Len(asked) + 1] = c
              BY <3>1, <4>3, AppendProperties
            <6> QED
              BY <5>1, <6>1
          <5> QED
            BY <5>2, LenProperties
        <4> QED
          BY <3>1, <4>2, <4>3, <4>4 DEF TypesInv
      <3>3. CASE asked' = [asked EXCEPT ![pending.id].outcome = x.outcome]
        <4>1. \A i \in DOMAIN asked : asked[i] \in AskedType
          BY <3>1, ElementOfSeq
        <4>2. DOMAIN asked' = DOMAIN asked /\ \A i \in DOMAIN asked : asked'[i].fido = asked[i].fido
          BY <3>3, <4>1 DEF AskedType
        <4> QED
          BY <4>2 DEF TypesInv
      <3> QED
        BY <2>1, <3>2, <3>3
    <2>3. UNCHANGED asked \/ Execute
      BY DEF Core, CoreStep, CoreInit, CommandGet, Drained, RouteResult, RouteState,
         Store, PublishRequired, PublishCompleted, Clear, runtimeVars
    <2> QED
      BY <2>1, <2>2, <2>3
  <1> QED
    BY <1>1, <1>2, <1>3, <1>4, <1>5 DEF TypesInv

\* The steps of the clients.
LEMMA ClientKeepsTypes ==
  ASSUME IInv, TypesInv, Fido2Service \/ UserButton \/ TouchUi \/ Transport \/ UNCHANGED vars
  PROVE  TypesInv'
  <1>1. UNCHANGED <<ready, walletChan, asked>>
    BY DEF Fido2Service, FidoStep, FidoClient, Begin, Submit, Skip, Answer, TakeResult, TimeOut,
       CancelTimedOut, UpCancel, UpCancelSubmit, UserButton, ButtonStep, ButtonWork, Press, TakePress,
       SubmitPress, Transport, Chunk, TouchUi, UiStep, UiStarting, UiThread, InitRead, InitApply, Wake,
       Scan, LocalResults, ReadChannel, ApplyNext, Choose, Request, vars, coreVars, runtimeVars
  <1>2. sequence' <= MaxRequests /\ fpc' \in {"idle", "submit", "await", "cancel"}
    <2>1. CASE Fido2Service
      BY <2>1, FidoAssumption DEF IInv, Requests, TypesInv, Fido2Service, FidoStep, FidoClient, Begin, Submit, Skip, Answer,
         TakeResult, TimeOut, CancelTimedOut, UpCancel, UpCancelSubmit, Return
    <2>2. CASE UNCHANGED fidoVars
      BY <2>2 DEF TypesInv, fidoVars
    <2> QED
      BY <2>1, <2>2 DEF UserButton, TouchUi, Transport, vars
  <1>3. uiPc' \in {"wait", "scan", "local", "confirm", "apply"} /\ sem' \in BOOLEAN /\ busy' \in BOOLEAN
    <2>1. CASE TouchUi
      <3>1. uiPc' \in {"wait", "scan", "local", "confirm", "apply"} /\ sem' \in BOOLEAN
        BY <2>1 DEF TypesInv, TouchUi, UiStep, UiStarting, UiThread, InitRead, InitApply, Wake,
           Scan, LocalResults, ReadChannel, ApplyNext, Choose, Request
      <3>2. ASSUME NEW s, Apply(s) PROVE busy' \in BOOLEAN
        BY <3>2, Zenon DEF Apply
      <3>3. busy' \in {busy, TRUE, FALSE} \/ \E s : Apply(s)
        BY <2>1 DEF TouchUi, UiStep, UiStarting, UiThread, InitRead, InitApply, Wake,
           Scan, LocalResults, ReadChannel, ApplyNext, Choose, Request
      <3> QED
        BY <3>1, <3>2, <3>3 DEF TypesInv
    <2>2. CASE UNCHANGED uiVars
      BY <2>2 DEF TypesInv, uiVars
    <2> QED
      BY <2>1, <2>2 DEF UserButton, Fido2Service, Transport, vars
  <1> QED
    BY <1>1, <1>2, <1>3 DEF TypesInv

-----------------------------------------------------------------------------

\* The pools and the types at the start.
LEMMA InitPool == Init => PoolInv /\ TypesInv
  <1> SUFFICES ASSUME Init PROVE PoolInv /\ TypesInv
    OBVIOUS
  <1>1. /\ cmdq = <<>> /\ fidoq = <<>> /\ localq = <<>> /\ cmdFree = PoolSize /\ resFree = PoolSize
        /\ command = NoCommand /\ asked = <<>>
    BY DEF Init, CoreStart
  <1>2. Fragments(<<>>) = 0 /\ Len(<<>>) = 0
    <2>1. <<>> \in Seq(CommandType)
      BY EmptySeq
    <2>2. PICK f \in [0..Len(<<>>) -> Nat] : Adds(f, <<>>, Len(<<>>)) /\ Fragments(<<>>) = f[Len(<<>>)]
      BY <2>1, FragmentsIs, FragmentCounts
    <2>3. Len(<<>>) = 0
      BY EmptySeq
    <2> QED
      BY <2>2, <2>3 DEF Adds
  <1>3. NoCommand \in CommandType /\ NoCommand.frags = 0
    BY DEF NoCommand, CommandType, Sizes
  <1>4. <<>> \in Seq(CommandType) /\ <<>> \in Seq(ResultType)
    BY EmptySeq
  <1>5. PoolInv
    BY <1>1, <1>2, <1>3, <1>4, CoreAssumption DEF PoolInv, PayloadsAccounted
  <1>6. TypesInv
    <2>1. /\ ready = FALSE /\ walletChan = "Setup" /\ sequence = 0 /\ fpc = "idle" /\ uiPc = "wait"
          /\ sem = FALSE /\ busy = FALSE
      BY DEF Init, CoreStart, FidoStart, UiStart
    <2>2. 0 <= MaxRequests
      BY FidoAssumption
    <2>3. {sem, busy} \subseteq BOOLEAN /\ ready \in BOOLEAN
      BY <2>1, Zenon
    <2>4. DOMAIN asked = {}
      BY <1>1
    <2> QED
      BY <2>1, <2>2, <2>3, <2>4 DEF TypesInv
  <1> QED
    BY <1>5, <1>6

\* The whole invariant is kept.
LEMMA NextKeepsPool ==
  IInv /\ ConfInv /\ PoolInv /\ TypesInv /\ [Next]_vars => PoolInv' /\ TypesInv'
  <1> SUFFICES ASSUME IInv, ConfInv, PoolInv, TypesInv, [Next]_vars PROVE PoolInv' /\ TypesInv'
    OBVIOUS
  <1>1. IInv'
    BY NextKeeps
  <1>2. sequence <= MaxRequests
    BY DEF TypesInv
  <1>3. CASE Core
    <2>1. PoolInv'
      BY <1>2, <1>3, CoreKeepsPool DEF Core
    <2> QED
      BY <1>1, <1>3, <2>1, CoreKeepsTypes
  <1>4. CASE Fido2Service \/ UserButton \/ TouchUi \/ Transport \/ UNCHANGED vars
    BY <1>4, ClientKeepsPool, ClientKeepsTypes
  <1> QED
    BY <1>3, <1>4 DEF Next

\* The invariants together give the types.
LEMMA TypesFollow == IInv /\ ConfInv /\ PoolInv /\ TypesInv => TypeOK
  <1> SUFFICES ASSUME IInv, ConfInv, PoolInv, TypesInv PROVE TypeOK
    OBVIOUS
  <1>1. /\ ready \in BOOLEAN /\ walletChan \in {"Setup", "Ready", "Busy"}
        /\ corePc \in {"wait", "execute", "drain", "publish", "clear"}
        /\ fpc \in {"idle", "submit", "await", "cancel"}
        /\ uiPc \in {"wait", "scan", "local", "confirm", "apply"} /\ {sem, busy} \subseteq BOOLEAN
    BY DEF TypesInv, ConfInv, Stages
  <1>2. /\ cmdq \in Seq(CommandType) /\ Len(cmdq) <= QueueDepth /\ fidoq \in Seq(ResultType)
        /\ Len(fidoq) <= QueueDepth /\ localq \in Seq(ResultType) /\ Len(localq) <= QueueDepth
        /\ command \in CommandType /\ PayloadsAccounted /\ cmdFree \in Nat /\ resFree \in Nat
    BY DEF PoolInv
  <1>3. cmdFree \in 0..PoolSize /\ resFree \in 0..PoolSize
    <2> DEFINE a == Fragments(cmdq)
               b == Fragments(fidoq)
               c == Fragments(localq)
               d == command.frags
    <2>1. a \in Nat /\ b \in Nat /\ c \in Nat /\ d \in Nat
      BY <1>2, FragmentCounts
    <2>2. cmdFree + a + d = PoolSize /\ resFree + b + c = PoolSize
      BY <1>2 DEF PayloadsAccounted
    <2> HIDE DEF a, b, c, d
    <2> QED
      BY <1>2, <2>1, <2>2, CoreAssumption
  <1>4. effects \in Seq(EffectType)
    <2>1. effects \in Seq(GoodEffects) /\ GoodEffects \subseteq EffectType
      BY DEF IInv, Queues, GoodEffects
    <2> QED
      BY <2>1, SeqMonotonic
  <1>5. /\ asked \in Seq(AskedType) /\ Len(asked) \in Nat /\ DOMAIN asked = 1..Len(asked)
        /\ Len(asked) <= MaxConfirmations /\ 0..Len(asked) \subseteq ConfIds
    BY LenProperties, CoreAssumption DEF IInv, Pending, ConfInv, Known, ConfIds
  <1>6. asked \in Seq([fido : ReqIds, outcome : {"none", "Approved", "Rejected", "Cancelled"}])
    <2>1. ASSUME NEW i \in 1..Len(asked)
          PROVE  asked[i] \in [fido : ReqIds, outcome : {"none", "Approved", "Rejected", "Cancelled"}]
      <3>1. asked[i] \in AskedType
        BY <1>5, ElementOfSeq
      <3>2. asked[i].fido \in ReqIds
        BY <1>5, <3>1, FidoAssumption DEF TypesInv, ReqIds, AskedType
      <3> QED
        BY <3>1, <3>2 DEF AskedType, Outcomes
    <2> QED
      <3> DEFINE S == [fido : ReqIds, outcome : {"none", "Approved", "Rejected", "Cancelled"}]
      <3>1. asked \in [1..Len(asked) -> AskedType]
        BY <1>5, LenProperties
      <3>2. \A i \in 1..Len(asked) : asked[i] \in S
        BY <2>1
      <3> HIDE DEF S
      <3>3. asked \in [1..Len(asked) -> S]
        BY <3>1, <3>2
      <3>4. asked \in Seq(S)
        BY <1>5, <3>3
      <3> QED
        BY <3>4 DEF S
  <1>7. pending \in [id : ConfIds, fido : ReqIds, fits : BOOLEAN]
    <2>1. pending \in ConfType /\ pending.fido <= sequence /\ sequence \in Nat /\ sequence <= MaxRequests
      BY DEF IInv, Pending, Requests, TypesInv
    <2>2. pending.id \in ConfIds
      BY <1>5 DEF IInv, Pending, NoConf, ConfIds
    <2>3. pending.fido \in ReqIds
      BY <2>1, FidoAssumption DEF ConfType, ReqIds
    <2> QED
      BY <2>1, <2>2, <2>3 DEF ConfType
  <1>8. /\ consented \subseteq ConfIds /\ {reject, snapshot, activeConf, pressed, approving, confirmation} \subseteq ConfIds
        /\ channel \in [id : ConfIds, phase : {"IDLE", "REQUIRED", "COMPLETED"}]
    BY <1>5 DEF ConfInv, Known, IInv, Numbers, ChannelType
  <1>9. {sequence, activeReq, request.id, cancelled} \subseteq ReqIds
    BY FidoAssumption DEF IInv, Requests, TypesInv, ReqIds
  <1> QED
    BY <1>1, <1>2, <1>3, <1>4, <1>6, <1>7, <1>8, <1>9 DEF TypeOK

\* Every variable of the wallet keeps its range, and no fragment of the two pools is ever lost or
\* given back twice (src/bus.c:87-190), for every depth of the queues, every size of the pools and
\* any number of requests and confirmations.
THEOREM TypeCorrect == Spec => []TypeOK
  <1> DEFINE All == IInv /\ ConfInv /\ PoolInv /\ TypesInv
  <1>1. Init => All
    BY InitGood, InitConf, InitPool
  <1>2. All /\ [Next]_vars => All'
    BY NextKeeps, NextKeepsConf, NextKeepsPool
  <1>3. All => TypeOK
    BY TypesFollow
  <1> QED
    BY <1>1, <1>2, <1>3, PTL DEF Spec

-----------------------------------------------------------------------------
(* The contract with the user.                                             *)

\* What the contract does not see.
LEMMA Unseen ==
  ASSUME UNCHANGED <<asked, pending, consented, reply>>
  PROVE  UNCHANGED Promise!consentVars
  BY DEF Promise!consentVars, Present

\* The core thread asks and settles.
LEMMA CoreImplements ==
  ASSUME IInv, IInv', TypesInv', Core
  PROVE  Promise!Progress \/ UNCHANGED Promise!consentVars
  <1>1. UNCHANGED <<reply, fidoVars>> /\ UNCHANGED consented
    BY DEF Core, CoreStep, CoreInit, CommandGet, Execute, Drained, RouteResult, RouteState,
       Store, PublishRequired, PublishCompleted, Clear, fidoVars
  <1>2. Present' = Present
    BY <1>1 DEF Present
  <1>3. CASE Execute
    <2> PICK x \in Handle(command) :
          /\ pending' = x.pending
          /\ asked' = IF x.outcome # "none" THEN [asked EXCEPT ![pending.id].outcome = x.outcome]
                      ELSE IF x.pending # pending
                      THEN Append(asked, [fido |-> x.pending.fido, outcome |-> "none"])
                      ELSE asked
      BY <1>3 DEF Execute
    <2>1. command \in GoodCommands /\ command \in CommandType
      BY DEF IInv, Queues, GoodCommands
    <2>2. asked \in Seq(AskedType) /\ Len(asked) \in Nat /\ DOMAIN asked = 1..Len(asked)
      BY LenProperties DEF IInv, Pending
    <2>3. CASE Kept(x, command)
      BY <1>1, <2>3, Unseen DEF Kept
    <2>4. CASE Asks(x, command)
      <3>1. PICK r \in Nat, f \in BOOLEAN : x.pending = [id |-> Len(asked) + 1, fido |-> r, fits |-> f]
        BY <2>4 DEF Asks
      <3>2. pending = NoConf /\ pending.id = 0 /\ x.outcome = "none" /\ x.pending # pending
            /\ pending'.id = Len(asked) + 1 /\ pending'.fido = r
        BY <2>2, <2>4, <3>1 DEF Asks, NoConf
      <3>3. asked' = Append(asked, [fido |-> r, outcome |-> "none"])
        BY <3>1, <3>2
      <3>4. r \in ReqIds
        <4>1. pending'.fido <= sequence' /\ sequence' <= MaxRequests /\ sequence' \in Nat
          BY DEF IInv, Pending, Requests, TypesInv
        <4> QED
          BY <3>2, <4>1, FidoAssumption DEF ReqIds
      <3>5. Promise!Ask(r)
        BY <1>1, <1>2, <3>2, <3>3 DEF Promise!Ask
      <3> QED
        BY <3>4, <3>5 DEF Promise!Progress
    <2>5. CASE Ends(x, command)
      <3>1. /\ pending # NoConf /\ pending' = NoConf /\ x.outcome \in {"Approved", "Rejected", "Cancelled"}
            /\ x.outcome = "Approved" => pending.id \in consented
        BY <2>1, <2>5 DEF Ends, GoodCommands
      <3>2. pending.id \in 1..Len(asked) /\ asked[pending.id].outcome = "none"
        BY <2>2, <3>1 DEF IInv, Pending
      <3>3. pending.id # 0 /\ pending'.id = 0 /\ asked' = [asked EXCEPT ![pending.id].outcome = x.outcome]
        <4>1. pending.id # 0 /\ pending'.id = 0
          BY <2>2, <3>1, <3>2 DEF NoConf
        <4>2. x.outcome # "none"
          BY <3>1
        <4>3. asked' = [asked EXCEPT ![pending.id].outcome = x.outcome]
          BY <4>2, Zenon
        <4> QED
          BY <4>1, <4>3
      <3>4. Promise!Settle(x.outcome)
        BY <1>1, <1>2, <3>1, <3>2, <3>3 DEF Promise!Settle
      <3> QED
        BY <3>1, <3>4 DEF Promise!Progress
    <2>6. Kept(x, command) \/ Asks(x, command) \/ Ends(x, command)
      BY <2>1, HandleCases DEF IInv
    <2> QED
      BY <2>3, <2>4, <2>5, <2>6
  <1>4. CASE UNCHANGED <<asked, pending>>
    BY <1>1, <1>4, Unseen
  <1>5. Execute \/ UNCHANGED <<asked, pending>>
    BY DEF Core, CoreStep, CoreInit, CommandGet, Drained, RouteResult, RouteState,
       Store, PublishRequired, PublishCompleted, Clear, runtimeVars
  <1> QED
    BY <1>3, <1>4, <1>5

\* The FIDO2 service reports, the user approves.
LEMMA ClientImplements ==
  ASSUME IInv, ConfInv, TypesInv, IInv', Fido2Service \/ UserButton \/ TouchUi \/ Transport \/ UNCHANGED vars
  PROVE  Promise!Progress \/ UNCHANGED Promise!consentVars
  <1>0. asked \in Seq(AskedType) /\ Len(asked) \in Nat /\ DOMAIN asked = 1..Len(asked)
    BY LenProperties DEF IInv, Pending
  <1>1. CASE Fido2Service
    <2>1. UNCHANGED <<asked, pending, consented>>
      BY <1>1 DEF Fido2Service, FidoStep, FidoClient, Begin, Submit, Skip, Answer, TakeResult, TimeOut,
         CancelTimedOut, UpCancel, UpCancelSubmit, coreVars, runtimeVars
    <2>2. CASE Present' = 0
      BY <2>1, <2>2 DEF Promise!Progress, Promise!Withdraw
    <2>3. CASE Present' # 0
      <3>1. Present' = reply'.id /\ reply'.kind = "Confirm" /\ reply'.out = "Success"
        BY <2>3 DEF Present
      <3>2. Settled(reply.id)'
        BY <3>1 DEF IInv, PresenceBacked
      <3>3. PICK i \in DOMAIN asked :
              i \in consented /\ asked[i].fido = Present' /\ asked[i].outcome = "Approved"
        BY <2>1, <3>1, <3>2 DEF Settled
      <3>4. asked[i] \in AskedType
        BY <1>0, ElementOfSeq
      <3>5. asked[i] = [fido |-> Present', outcome |-> "Approved"] /\ Present' \in ReqIds
        BY <1>0, <3>3, <3>4, FidoAssumption DEF AskedType, TypesInv, ReqIds
      <3>6. Promise!Report(Present')
        BY <2>1, <3>3, <3>5 DEF Promise!Report
      <3> QED
        BY <3>5, <3>6 DEF Promise!Progress
    <2> QED
      BY <2>2, <2>3
  <1>2. ASSUME NEW i \in 1..Len(asked), consented' = consented \cup {i}, UNCHANGED <<asked, pending, reply>>
        PROVE  Promise!Progress
    <2>1. Present' = Present /\ pending'.id = pending.id
      BY <1>2 DEF Present
    <2>2. Promise!Approve(i)
      BY <1>2, <2>1 DEF Promise!Approve
    <2> QED
      BY <1>0, <2>2 DEF Promise!Progress
  <1>3. {activeConf, confirmation} \subseteq 0..Len(asked)
    BY DEF ConfInv, Known
  <1>4. CASE UserButton
    <2>1. UNCHANGED <<asked, pending, reply>>
      BY <1>4 DEF UserButton, ButtonStep, ButtonWork, Press, TakePress, SubmitPress, coreVars, runtimeVars, fidoVars
    <2>2. \/ UNCHANGED consented
          \/ activeConf # 0 /\ consented' = consented \cup {activeConf}
      BY <1>4 DEF UserButton, ButtonStep, ButtonWork, Press, TakePress, SubmitPress, coreVars
    <2> QED
      BY <1>0, <1>2, <1>3, <2>1, <2>2, Unseen
  <1>5. CASE TouchUi
    <2>1. UNCHANGED <<asked, pending, reply>>
      BY <1>5 DEF TouchUi, UiStep, UiStarting, UiThread, InitRead, InitApply, Wake, Scan,
         LocalResults, ReadChannel, ApplyNext, Choose, Request, coreVars, runtimeVars, fidoVars
    <2>2. \/ UNCHANGED consented
          \/ confirmation # 0 /\ consented' = consented \cup {confirmation}
      BY <1>5 DEF TouchUi, UiStep, UiStarting, UiThread, InitRead, InitApply, Wake, Scan,
         LocalResults, ReadChannel, ApplyNext, Choose, Request, coreVars
    <2> QED
      BY <1>0, <1>2, <1>3, <2>1, <2>2, Unseen
  <1>6. CASE Transport \/ UNCHANGED vars
    <2>1. UNCHANGED <<asked, pending, consented, reply>>
      BY <1>6 DEF Transport, Chunk, vars, coreVars, runtimeVars, fidoVars
    <2> QED
      BY <2>1, Unseen
  <1> QED
    BY <1>1, <1>4, <1>5, <1>6

\* The wallet implements the contract of Consent: whatever its threads do, it asks one question at
\* a time, settles it once, as approved only when the user approved that one, and reports the
\* user's presence only to the request the approved question was asked for (src/core.c:262-307,
\* src/usb/fido2.c:90-160, src/gpio.c:44-66).
THEOREM WalletKeepsItsPromise == Spec => ImplementsConsent
  <1> DEFINE All == IInv /\ ConfInv /\ PoolInv /\ TypesInv
  <1>1. Init => All
    BY InitGood, InitConf, InitPool
  <1>2. All /\ [Next]_vars => All'
    BY NextKeeps, NextKeepsConf, NextKeepsPool
  <1>3. Init => Promise!Begin
    BY DEF Init, CoreStart, FidoStart, NoConf, Promise!Begin, Present
  <1>4. All /\ All' /\ [Next]_vars => [Promise!Progress]_(Promise!consentVars)
    BY CoreImplements, ClientImplements DEF Next
  <1> QED
    BY <1>1, <1>2, <1>3, <1>4, PTL DEF Spec, ImplementsConsent, Promise!Promised
=============================================================================
