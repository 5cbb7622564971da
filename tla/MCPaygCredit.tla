---------------------------- MODULE MCPaygCredit ----------------------------
(***************************************************************************)
(* TLC instances of PaygCredit.  Calls are interchangeable.                *)
(***************************************************************************)
EXTENDS PaygCredit, TLC

Symmetry == Permutations(Calls)
=============================================================================
