----------------------------- MODULE MCSharedLimits -----------------------------
(***************************************************************************)
(* What several calls share: the memory and the start-up places of one     *)
(* worker (two calls of PremiumCall) and the credit of one tenant (two     *)
(* calls of PaygCredit).  The two share no state; `part` is the one that   *)
(* moves in a behaviour.                                                   *)
(***************************************************************************)
EXTENDS PremiumCall, PaygCredit, TLC

CONSTANTS c1, c2

VARIABLE part

SharedInit == part \in {"premium", "credit"} /\ PremiumInit /\ Init

SharedNext ==
  /\ UNCHANGED part
  /\ \/ part = "premium" /\ PremiumNext /\ UNCHANGED creditVars
     \/ part = "credit" /\ Next /\ UNCHANGED premiumVars

SharedSpec == SharedInit /\ [][SharedNext]_<<part, premiumVars, creditVars>>

\* c1 and c2 are interchangeable in both.
Symmetry == Permutations({c1, c2})
=============================================================================
