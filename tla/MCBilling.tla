------------------------------- MODULE MCBilling -------------------------------
(***************************************************************************)
(* The settlement of a call and the outbox of its charges meet in a ledger *)
(* entry only: an event that is there.  `part` is the one that moves in a  *)
(* behaviour, and the other stays as it begins.                            *)
(***************************************************************************)
EXTENDS PaygCallBilling, ChargeOutbox

VARIABLE part

BillingParts == {"settlement", "outbox"}

Settling == part = "settlement"
Delivering == part = "outbox"

PartsInit == part \in BillingParts /\ BillingInit /\ OutboxInit

PartsNext ==
  /\ UNCHANGED part
  /\ \/ Settling /\ BillingNext /\ UNCHANGED outboxVars
     \/ Delivering /\ OutboxNext /\ UNCHANGED vars

\* BillingFairness and OutboxFairness, each of the part that moves.
PartsFairness ==
  /\ WF_vars(Settling /\ Tick /\ UNCHANGED procVars)
  /\ \A r \in Runners : WF_vars(Settling /\ RunnerStep(r))
  /\ \A d \in Dispatchers : WF_outboxVars(Delivering /\ PassGoesOn(d))
  /\ \A e \in Events : WF_outboxVars(Delivering /\ BecomesDue(e))

PartsSpec ==
  PartsInit /\ [][PartsNext]_<<part, vars, outboxVars>> /\ PartsFairness

BillingPartsTypeOK == BillingTypeOK /\ OutboxTypeOK
=============================================================================
