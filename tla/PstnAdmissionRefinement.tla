---------------------- MODULE PstnAdmissionRefinement ----------------------
(* The store of PstnAdmission seen as the contract of AdmissionContract: a  *)
(* live record is a claimed or an active place, a hold without a live       *)
(* record a lapsed one.                                                     *)
EXTENDS PstnAdmission

PlaceOf(c) ==
  IF Live(c)
  THEN [kind |-> IF lease[c].state = "claim" THEN "claimed" ELSE "active",
        worker |-> lease[c].worker, epoch |-> lease[c].epoch]
  ELSE IF Held(c)
  THEN [kind |-> "lapsed", worker |-> hold[c].owner, epoch |-> hold[c].epoch]
  ELSE [kind |-> "out", worker |-> NoWorker, epoch |-> 0]

Contract == INSTANCE AdmissionContract WITH place <- [c \in Calls |-> PlaceOf(c)]

\* The scripts keep the contract: no interleaving of reservations, activations,
\* moves to another worker, renewals, recoveries, releases and expiries gives a
\* call a place it was not admitted to, takes a recoverable one away from its
\* owner, or lets a shared counter stand in the owner's way.
ContractKept == Contract!Spec
=============================================================================
