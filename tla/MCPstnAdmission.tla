-------------------------- MODULE MCPstnAdmission --------------------------
(***************************************************************************)
(* A small instance of PstnAdmission: three calls, two of one tenant, and  *)
(* two workers, with room for two calls in all and one at each worker.     *)
(* `part` is what a behaviour follows: the records of the store, with both *)
(* workers until MaxTime, or the rate of admissions, whose history is kept *)
(* with one worker until RateTime.                                         *)
(***************************************************************************)
EXTENDS PstnAdmissionRefinement, PstnCps, TLC

CONSTANTS c1, c2, c3, w1, w2, globalKey, tenantA, tenantB, globalCps, cpsA, cpsB

VARIABLE part

RateTime == 3

MCCalls == {c1, c2, c3}
MCWorkers == {w1, w2}
MCSharedKeys == {globalKey, tenantA, tenantB}
MCScopeKeys == (c1 :> {globalKey, tenantA}) @@ (c2 :> {globalKey, tenantA})
               @@ (c3 :> {globalKey, tenantB})
MCLimit == (globalKey :> 2) @@ (tenantA :> 2) @@ (tenantB :> 2) @@ (w1 :> 1) @@ (w2 :> 1)
MCBuckets == {globalCps, cpsA, cpsB}
MCBucketsOf == (c1 :> {globalCps, cpsA}) @@ (c2 :> {globalCps, cpsA}) @@ (c3 :> {globalCps, cpsB})
MCBurst == (globalCps :> 3) @@ (cpsA :> 2) @@ (cpsB :> 1)
MCRefill == [b \in MCBuckets |-> 1]

MCInit == part \in {"store", "rate"} /\ CpsInit

MCNext ==
  /\ UNCHANGED part
  /\ \/ part = "store" /\ Next /\ UNCHANGED created
     \/ part = "rate" /\ now < RateTime /\ CpsTick
     \/ part = "rate" /\ CpsCommand(w1)

MCSpec == MCInit /\ [][MCNext]_<<part, cpsVars>>

\* c1 and c2 belong to one tenant and one account: nothing tells them apart.
Symmetry == Permutations({c1, c2})
=============================================================================
