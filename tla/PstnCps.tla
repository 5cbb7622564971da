------------------------------ MODULE PstnCps ------------------------------
(***************************************************************************)
(* PstnAdmission with a history of the admissions that were created, to    *)
(* state what the token buckets promise over a stretch of time.            *)
(***************************************************************************)
EXTENDS PstnAdmission, Functions

VARIABLE created    \* created[b][t]: admissions created at time t against bucket b

cpsVars == <<vars, created>>

CpsInit == Init /\ created = [b \in Buckets |-> [t \in 0..MaxTime |-> 0]]

CpsTick == Tick /\ UNCHANGED created

CpsCommand(w) ==
  \E c \in Calls, out \in Outcomes :
    /\ Command(c, w, out)
    /\ created' = [b \in Buckets |-> [created[b] EXCEPT ![now] =
                     IF out = "created" /\ b \in BucketsOf[c] THEN @ + 1 ELSE @]]

CpsNext == CpsTick \/ \E w \in Workers : CpsCommand(w)

CpsSpec == CpsInit /\ [][CpsNext]_cpsVars

CreatedSince(b, from) == SumFunctionOnSet(created[b], from..MaxTime)

\* In every stretch of time, however calls are released, expire, are retried or
\* recovered in between, the admissions created against a bucket are at most
\* its burst and what it refills in that time.  A retry and a recovery cost no
\* token ("Duplicate webhook delivery reuses the existing reservation and CPS
\* debit"), and one account never spends another's.
CpsWindow ==
  \A b \in Buckets : \A from \in 0..now :
    CreatedSince(b, from) <= Burst[b] + Refill[b] * (now - from)
=============================================================================
