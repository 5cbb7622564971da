--------------------------- MODULE PstnAdmission ---------------------------
(***************************************************************************)
(* The call-admission store: the five Lua scripts of                       *)
(* telephony/redis-pstn-call-admission.ts, each an atomic action because   *)
(* Redis runs a script to completion, and the passing of the server's      *)
(* clock.  A script's answer is the parameter "out" of its action, so the  *)
(* module that composes this one with its callers reads it in the step.    *)
(*                                                                         *)
(* A call is admitted as a CLAIM counted against every concurrency         *)
(* counter of its scope, becomes an ACTIVE lease of one worker when its    *)
(* media stream starts, is renewed, and is released.  An active lease      *)
(* carries a recovery HOLD that matures when the lease lapses: until the   *)
(* hold expires only its owner may take the call back, and while any hold  *)
(* is matured no new call is admitted.                                     *)
(***************************************************************************)
EXTENDS Integers, FiniteSets

CONSTANTS
  Calls,       \* reservation ids: one per (tenant, call session)
  Workers,     \* PSTN_WORKER_ID of the processes, each a counter key
  SharedKeys,  \* the global, provider, tenant and runtime counter keys
  ScopeKeys,   \* [Calls -> SUBSET SharedKeys]: the counters of a call's scope
  Limit,       \* [SharedKeys \cup Workers -> Nat]: concurrency limits
  Buckets,     \* calls-per-second buckets: the global one and one per account
  BucketsOf,   \* [Calls -> SUBSET Buckets]
  Burst,       \* [Buckets -> Nat]: capacity of a bucket
  Refill,      \* [Buckets -> Nat]: tokens per clock tick
  ClaimTtl,    \* life of a claim, in ticks
  ActiveTtl,   \* life of an active lease, and of the hold behind it
  MaxTime,     \* bound of the clock
  NoWorker

Keys == SharedKeys \cup Workers

ASSUME AdmissionAssumption ==
  /\ IsFiniteSet(Calls)
  /\ SharedKeys \cap Workers = {}
  /\ NoWorker \notin Keys
  /\ ScopeKeys \in [Calls -> SUBSET SharedKeys]
  /\ Limit \in [Keys -> Nat]
  /\ BucketsOf \in [Calls -> SUBSET Buckets]
  /\ Burst \in [Buckets -> Nat]
  /\ Refill \in [Buckets -> Nat]
  /\ ClaimTtl \in Nat \ {0}
  /\ ActiveTtl \in Nat \ {0}
  /\ MaxTime \in Nat

VARIABLES
  now,     \* the Redis server's TIME
  lease,   \* the reservation hash of each call
  score,   \* the sorted set of each counter key: expiry of each member, 0 absent
  hold,    \* the recovery-hold entries (starts, expires, owners) of each call
  tokens   \* the token buckets

vars == <<now, lease, score, hold, tokens>>

LeaseRecord == [state : {"none", "claim", "active"}, worker : Workers \cup {NoWorker},
                expires : Nat, epoch : Nat]
HoldRecord == [start : Nat, until : Nat, owner : Workers \cup {NoWorker}, epoch : Nat]

NoLease == [state |-> "none", worker |-> NoWorker, expires |-> 0, epoch |-> 0]
NoHold == [start |-> 0, until |-> 0, owner |-> NoWorker, epoch |-> 0]

-----------------------------------------------------------------------------
(* Reading the store *)

Live(c) == lease[c].expires > now
Claimed(c) == Live(c) /\ lease[c].state = "claim"
Active(c) == Live(c) /\ lease[c].state = "active"
Held(c) == hold[c].until > now
Matured(c) == Held(c) /\ hold[c].start <= now

\* ZREMRANGEBYSCORE key -inf now, then ZCARD key.
Counted(k) == {c \in Calls : score[k][c] > now}

Full(k) == Cardinality(Counted(k)) >= Limit[k]

\* ZCOUNT starts -inf now: some lapsed lease may still be recovered.
Mut_RecoveryPending == \E c \in Calls : Held(c) /\ hold[c].start < now
RecoveryPending == \E c \in Calls : Matured(c)

\* readRecoveryOwner(c) is w.
Mut_RecoveryOwner(c, w) == Held(c)
RecoveryOwner(c, w) == Held(c) /\ hold[c].owner = w

\* One token in the global bucket and one in the account's.
Mut_HasToken(c) == \E b \in BucketsOf[c] : tokens[b] >= 1
HasToken(c) == \A b \in BucketsOf[c] : tokens[b] >= 1

-----------------------------------------------------------------------------
(* Writing the store *)

\* ZADD key expiry c for the keys of ks, and ZREM from the other keys.
Mut_Index(c, ks, expiry) ==
  score' = [k \in Keys |-> [score[k] EXCEPT ![c] =
              IF k \notin ks THEN 0 ELSE IF @ > now THEN @ ELSE expiry]]
Index(c, ks, expiry) ==
  score' = [k \in Keys |-> [score[k] EXCEPT ![c] = IF k \in ks THEN expiry ELSE 0]]

\* The three hold entries of c: it matures at start and outlives it by a lease.
Mut_PutHold(c, start, w, epoch) ==
  hold' = [hold EXCEPT ![c] =
             [start |-> start, until |-> now + ActiveTtl, owner |-> w, epoch |-> epoch]]
PutHold(c, start, w, epoch) ==
  hold' = [hold EXCEPT ![c] =
             [start |-> start, until |-> start + ActiveTtl, owner |-> w, epoch |-> epoch]]

\* An active lease of w until now + ActiveTtl, with the hold that follows it.
GrantLease(c, w, epoch) ==
  /\ lease' = [lease EXCEPT ![c] = [state |-> "active", worker |-> w,
                                    expires |-> now + ActiveTtl, epoch |-> epoch]]
  /\ Index(c, ScopeKeys[c] \cup {w}, now + ActiveTtl)
  /\ PutHold(c, now + ActiveTtl, w, epoch)

-----------------------------------------------------------------------------
(* reserveScript *)

\* A live record answers a retry of the same request, and refuses another
\* request (scope fingerprint) under its id.
ReserveExisting(c, out) ==
  /\ Live(c)
  /\ out \in {"existing", "indeterminate"}
  /\ UNCHANGED vars

ReserveDenied(c, w, out) ==
  /\ ~Live(c)
  /\ \/ /\ RecoveryPending
        /\ out = "indeterminate"
     \/ /\ ~RecoveryPending
        /\ \E k \in ScopeKeys[c] : Full(k)
        /\ out = "shared_limit"
     \/ /\ ~RecoveryPending
        /\ \A k \in ScopeKeys[c] : ~Full(k)
        /\ Full(w)
        /\ out = "worker_limit"
     \/ /\ ~RecoveryPending
        /\ \A k \in ScopeKeys[c] \cup {w} : ~Full(k)
        /\ ~HasToken(c)
        /\ out = "cps_limit"
  /\ UNCHANGED vars

ReserveCreated(c, w, out) ==
  /\ ~Live(c)
  /\ ~RecoveryPending
  /\ \A k \in ScopeKeys[c] \cup {w} : ~Full(k)
  /\ HasToken(c)
  /\ out = "created"
  /\ tokens' = [b \in Buckets |-> IF b \in BucketsOf[c] THEN tokens[b] - 1 ELSE tokens[b]]
  /\ lease' = [lease EXCEPT ![c] = [state |-> "claim", worker |-> w,
                                    expires |-> now + ClaimTtl, epoch |-> 0]]
  /\ Index(c, ScopeKeys[c] \cup {w}, now + ClaimTtl)
  /\ UNCHANGED <<now, hold>>

Reserve(c, w, out) ==
  \/ ReserveExisting(c, out)
  \/ ReserveDenied(c, w, out)
  \/ ReserveCreated(c, w, out)

-----------------------------------------------------------------------------
(* activateScript *)

\* A live record: the claim becomes worker w's lease with epoch 1, moved to
\* w's counter if another worker was chosen; the owner's lease is confirmed.
ActivateClaim(c, w, out) ==
  /\ Claimed(c)
  /\ lease[c].worker = w \/ ~Full(w)
  /\ out = "activated"
  /\ GrantLease(c, w, 1)
  /\ UNCHANGED <<now, tokens>>

ActivateWorkerFull(c, w, out) ==
  /\ Claimed(c)
  /\ lease[c].worker # w
  /\ Full(w)
  /\ out = "denied"
  /\ UNCHANGED vars

ActivateForeign(c, w, out) ==
  /\ Active(c)
  /\ lease[c].worker # w
  /\ out = "not_owner"
  /\ UNCHANGED vars

ActivateExisting(c, w, out) ==
  /\ Active(c)
  /\ lease[c].worker = w
  /\ out = "existing"
  /\ PutHold(c, lease[c].expires, w, lease[c].epoch)
  /\ UNCHANGED <<now, lease, score, tokens>>

ActivateLive(c, w, out) ==
  \/ ActivateClaim(c, w, out)
  \/ ActivateWorkerFull(c, w, out)
  \/ ActivateForeign(c, w, out)
  \/ ActivateExisting(c, w, out)

\* The short form, which carries no scope, cannot rebuild a record.
Activate(c, w, out) ==
  \/ ActivateLive(c, w, out)
  \/ /\ ~Live(c)
     /\ out = "not_found"
     /\ UNCHANGED vars

\* The full form rebuilds a lapsed lease for the owner named by its hold.
RecoverRefused(c, w, out) ==
  /\ ~Live(c)
  /\ \/ ~Held(c) /\ out = "not_found"
     \/ Held(c) /\ ~RecoveryOwner(c, w) /\ out = "not_owner"
  /\ UNCHANGED vars

RecoverFull(c, w, out) ==
  /\ ~Live(c)
  /\ RecoveryOwner(c, w)
  /\ \E k \in ScopeKeys[c] \cup {w} : Full(k)
  /\ out = "denied"
  /\ PutHold(c, now, w, hold[c].epoch)
  /\ UNCHANGED <<now, lease, score, tokens>>

RecoverGranted(c, w, out) ==
  /\ ~Live(c)
  /\ RecoveryOwner(c, w)
  /\ \A k \in ScopeKeys[c] \cup {w} : ~Full(k)
  /\ out = "activated"
  /\ GrantLease(c, w, hold[c].epoch + 1)
  /\ UNCHANGED <<now, tokens>>

Recover(c, w, out) ==
  \/ ActivateLive(c, w, out)
  \/ RecoverRefused(c, w, out)
  \/ RecoverFull(c, w, out)
  \/ RecoverGranted(c, w, out)

-----------------------------------------------------------------------------
(* renewScript *)

RenewRefused(c, w, epoch, out) ==
  /\ \/ ~Active(c) /\ out = "not_found"
     \/ /\ Active(c)
        /\ lease[c].worker # w \/ lease[c].epoch # epoch
        /\ out = "not_owner"
  /\ UNCHANGED vars

RenewGranted(c, w, epoch, out) ==
  /\ Active(c)
  /\ lease[c].worker = w
  /\ lease[c].epoch = epoch
  /\ out = "renewed"
  /\ GrantLease(c, w, epoch)
  /\ UNCHANGED <<now, tokens>>

Renew(c, w, epoch, out) ==
  \/ RenewRefused(c, w, epoch, out)
  \/ RenewGranted(c, w, epoch, out)

-----------------------------------------------------------------------------
(* releaseScript *)

Drop(c) ==
  /\ lease' = [lease EXCEPT ![c] = NoLease]
  /\ hold' = [hold EXCEPT ![c] = NoHold]
  /\ Index(c, {}, 0)
  /\ UNCHANGED <<now, tokens>>

\* Without a fence any live record of the call goes, and so does a hold.
Release(c, out) ==
  /\ out = IF Live(c) THEN "released" ELSE "not_found"
  /\ Drop(c)

\* With a fence (worker, epoch) only that incarnation of the lease goes; a
\* lapsed one leaves its hold behind.
ReleaseFenced(c, w, epoch, out) ==
  \/ /\ ~Live(c)
     /\ out = "not_found"
     /\ UNCHANGED vars
  \/ /\ Live(c)
     /\ lease[c].state # "active" \/ lease[c].worker # w \/ lease[c].epoch # epoch
     /\ out = "not_owner"
     /\ UNCHANGED vars
  \/ /\ Active(c)
     /\ lease[c].worker = w
     /\ lease[c].epoch = epoch
     /\ out = "released"
     /\ Drop(c)

-----------------------------------------------------------------------------
(* One tick of the server's clock.  Redis drops an expired record itself    *)
(* (PEXPIREAT); the scripts drop expired scores and holds before they read  *)
(* them, so dropping them here is what every script sees.                   *)
Smaller(a, b) == IF a < b THEN a ELSE b

\* readBucket: what a bucket holds after a tick without admissions.
Mut_Refilled(b) == tokens[b] + Refill[b]
Refilled(b) == Smaller(Burst[b], tokens[b] + Refill[b])

Tick ==
  /\ now < MaxTime
  /\ now' = now + 1
  /\ lease' = [c \in Calls |-> IF lease[c].expires > now' THEN lease[c] ELSE NoLease]
  /\ score' = [k \in Keys |-> [c \in Calls |->
                 IF score[k][c] > now' THEN score[k][c] ELSE 0]]
  /\ hold' = [c \in Calls |-> IF hold[c].until > now' THEN hold[c] ELSE NoHold]
  /\ tokens' = [b \in Buckets |-> Refilled(b)]

Init ==
  /\ now = 0
  /\ lease = [c \in Calls |-> NoLease]
  /\ score = [k \in Keys |-> [c \in Calls |-> 0]]
  /\ hold = [c \in Calls |-> NoHold]
  /\ tokens = Burst

Outcomes == {"created", "existing", "indeterminate", "shared_limit", "worker_limit",
             "cps_limit", "activated", "denied", "not_owner", "not_found",
             "renewed", "released"}

\* Any process may send any command about any call at any time.
Command(c, w, out) ==
  \/ Reserve(c, w, out)
  \/ Activate(c, w, out)
  \/ Recover(c, w, out)
  \/ Release(c, out)
  \/ \E epoch \in 1..(MaxTime + 1) : Renew(c, w, epoch, out) \/ ReleaseFenced(c, w, epoch, out)

Next ==
  \/ Tick
  \/ \E c \in Calls, w \in Workers, out \in Outcomes : Command(c, w, out)

Spec == Init /\ [][Next]_vars

-----------------------------------------------------------------------------
(* What the store must guarantee *)

\* The type of the store's state: redis-pstn-call-admission.ts writes no field
\* outside these ranges.
TypeOK ==
  /\ now \in Nat
  /\ lease \in [Calls -> LeaseRecord]
  /\ score \in [Keys -> [Calls -> Nat]]
  /\ hold \in [Calls -> HoldRecord]
  /\ tokens \in [Buckets -> Nat]

\* The calls that hold a place at counter k: a live record counts at the keys
\* of its scope and of its worker.
Occupants(k) == {c \in Calls : Live(c) /\ k \in ScopeKeys[c] \cup {lease[c].worker}}

\* No counter is ever exceeded: however reservations, activations that move a
\* claim to another worker, recoveries, renewals and expiries interleave, the
\* live calls at a key stay within its limit ("atomically enforces global,
\* provider, tenant, runtime-path, and worker concurrency limits").
CapacityRespected == \A k \in Keys : Cardinality(Occupants(k)) <= Limit[k]

\* A place is kept for every lapsed lease that may still be recovered: live
\* calls and recoverable ones together fit the shared limits, so the owner's
\* full activation is never refused by a shared counter.
RecoverySlotsKept ==
  \A k \in SharedKeys :
    Cardinality({c \in Calls : (Live(c) \/ Held(c)) /\ k \in ScopeKeys[c]}) <= Limit[k]

\* An active lease always has behind it the hold its owner needs to take the
\* call back: same worker and epoch, maturing exactly when the lease lapses
\* and lasting one lease longer.  A claim has none.
LeaseHasHold ==
  \A c \in Calls :
    /\ Active(c) => hold[c] = [start |-> lease[c].expires,
                               until |-> lease[c].expires + ActiveTtl,
                               owner |-> lease[c].worker, epoch |-> lease[c].epoch]
    /\ Claimed(c) => ~Held(c)

\* While a call's hold stands its owner never changes, and the fencing epoch
\* moves only forward, by one, exactly when the owner recovers a lapsed lease.
OwnershipFenced ==
  [][\A c \in Calls :
       Held(c) /\ Held(c)' =>
         /\ hold'[c].owner = hold[c].owner
         /\ \/ hold'[c].epoch = hold[c].epoch
            \/ hold'[c].epoch = hold[c].epoch + 1 /\ ~Live(c) /\ Active(c)']_vars
=============================================================================
