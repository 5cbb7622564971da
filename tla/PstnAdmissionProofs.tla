------------------------ MODULE PstnAdmissionProofs ------------------------
(***************************************************************************)
(* What PstnAdmission guarantees for every number of calls, workers and    *)
(* counters, every limit and every lease time.                             *)
(*                                                                         *)
(* The argument: every command either leaves the store alone or has one of *)
(* four effects - a claim is created, a lease is granted, a hold is        *)
(* rewritten, a record is dropped (CommandEffects).  Against those effects *)
(* and the clock the inductive invariant AdmissionInv is checked part by   *)
(* part; the counting parts compare the set a counter counts before and    *)
(* after the step.  From the same effects follow how fast epochs grow, and *)
(* that the store implements AdmissionContract.                            *)
(***************************************************************************)
EXTENDS PstnAdmissionRefinement, FiniteSetTheorems, TLAPS

\* The sorted sets say what the records say: a live record scores its expiry
\* at the keys of its scope and worker, and nothing else scores anywhere.
IndexMatchesRecords ==
  \A k \in Keys, c \in Calls :
    score[k][c] = IF Live(c) /\ k \in ScopeKeys[c] \cup {lease[c].worker}
                  THEN lease[c].expires ELSE 0

\* A hold without a live record has matured; a live record names a worker.
HoldsMature ==
  \A c \in Calls :
    /\ Held(c) /\ ~Live(c) => hold[c].start <= now
    /\ Held(c) => hold[c].owner \in Workers
    /\ Live(c) => lease[c].worker \in Workers /\ lease[c].state # "none"

\* The calls counted at a shared key together with those that may come back.
Recoverable(k) == {c \in Calls : (Live(c) \/ Held(c)) /\ k \in ScopeKeys[c]}

WorkerCapacity == \A w \in Workers : Cardinality(Occupants(w)) <= Limit[w]

StoreInv == TypeOK /\ IndexMatchesRecords /\ LeaseHasHold /\ HoldsMature

AdmissionInv == StoreInv /\ RecoverySlotsKept /\ WorkerCapacity

-----------------------------------------------------------------------------
(* The effects of a command *)

\* What a granted lease presupposes: a claim is activated, by its worker or by
\* another that has room; a lease is renewed under its own worker and epoch; a
\* lapsed lease is recovered by the owner of its hold, with the next epoch.
MayGrant(c, w, epoch) ==
  \/ Claimed(c) /\ epoch = 1 /\ (lease[c].worker = w \/ ~Full(w))
  \/ Active(c) /\ lease[c].worker = w /\ lease[c].epoch = epoch
  \/ ~Live(c) /\ RecoveryOwner(c, w) /\ hold[c].epoch + 1 = epoch /\ ~Full(w)

Created(c, w) == ReserveCreated(c, w, "created")
Granted(c, w, epoch) ==
  MayGrant(c, w, epoch) /\ GrantLease(c, w, epoch) /\ UNCHANGED <<now, tokens>>
HoldKept(c) ==
  /\ Active(c) /\ PutHold(c, lease[c].expires, lease[c].worker, lease[c].epoch)
  /\ UNCHANGED <<now, lease, score, tokens>>
HoldExtended(c) ==
  /\ ~Live(c) /\ Held(c) /\ PutHold(c, now, hold[c].owner, hold[c].epoch)
  /\ UNCHANGED <<now, lease, score, tokens>>

Effect(c, w) ==
  \/ UNCHANGED vars
  \/ Created(c, w)
  \/ \E epoch \in Nat : Granted(c, w, epoch)
  \/ HoldKept(c)
  \/ HoldExtended(c)
  \/ Drop(c)

\* Every command has one of the six effects.
LEMMA CommandEffects ==
  ASSUME AdmissionAssumption, TypeOK, NEW c \in Calls, NEW w \in Workers,
         NEW out \in Outcomes, Command(c, w, out)
  PROVE  Effect(c, w)
<1>1. hold[c].epoch \in Nat
  BY DEF TypeOK, HoldRecord
<1>2. CASE Reserve(c, w, out)
  BY <1>2 DEF Reserve, ReserveExisting, ReserveDenied, ReserveCreated, Effect, Created
<1>3. ASSUME ActivateLive(c, w, out)
      PROVE  Effect(c, w)
  <2>1. CASE ActivateClaim(c, w, out)
    <3>1. Granted(c, w, 1)
      BY <2>1 DEF ActivateClaim, Granted, MayGrant
    <3>2. QED
      BY <3>1 DEF Effect
  <2>2. CASE ActivateWorkerFull(c, w, out) \/ ActivateForeign(c, w, out)
    BY <2>2 DEF ActivateWorkerFull, ActivateForeign, Effect
  <2>3. CASE ActivateExisting(c, w, out)
    BY <2>3 DEF ActivateExisting, Effect, HoldKept
  <2>4. QED
    BY <1>3, <2>1, <2>2, <2>3 DEF ActivateLive
<1>4. CASE Activate(c, w, out)
  BY <1>3, <1>4 DEF Activate, Effect
<1>5. CASE Recover(c, w, out)
  <2>1. CASE RecoverRefused(c, w, out)
    BY <2>1 DEF RecoverRefused, Effect
  <2>2. CASE RecoverFull(c, w, out)
    BY <2>2 DEF RecoverFull, RecoveryOwner, Effect, HoldExtended
  <2>3. CASE RecoverGranted(c, w, out)
    <3>1. Granted(c, w, hold[c].epoch + 1)
      BY <2>3 DEF RecoverGranted, Granted, MayGrant
    <3>2. QED
      BY <1>1, <3>1 DEF Effect
  <2>4. QED
    BY <1>3, <1>5, <2>1, <2>2, <2>3 DEF Recover
<1>6. CASE Release(c, out)
  BY <1>6 DEF Release, Effect
<1>7. ASSUME NEW epoch \in 1..(MaxTime + 1),
             Renew(c, w, epoch, out) \/ ReleaseFenced(c, w, epoch, out)
      PROVE  Effect(c, w)
  <2>1. epoch \in Nat
    BY DEF AdmissionAssumption
  <2>2. CASE RenewRefused(c, w, epoch, out)
    BY <2>2 DEF RenewRefused, Effect
  <2>3. CASE RenewGranted(c, w, epoch, out)
    <3>1. Granted(c, w, epoch)
      BY <2>3 DEF RenewGranted, Granted, MayGrant
    <3>2. QED
      BY <2>1, <3>1 DEF Effect
  <2>4. CASE ReleaseFenced(c, w, epoch, out)
    BY <2>4 DEF ReleaseFenced, Effect
  <2>5. QED
    BY <1>7, <2>2, <2>3, <2>4 DEF Renew
<1>8. QED
  BY <1>2, <1>4, <1>5, <1>6, <1>7 DEF Command

-----------------------------------------------------------------------------
(* Typing *)

LEMMA IndexType ==
  ASSUME TypeOK, NEW c \in Calls, NEW ks, NEW expiry \in Nat, Index(c, ks, expiry)
  PROVE  score' \in [Keys -> [Calls -> Nat]]
BY DEF TypeOK, Index

LEMMA PutHoldType ==
  ASSUME AdmissionAssumption, TypeOK, NEW c \in Calls, NEW start \in Nat,
         NEW w \in Workers \cup {NoWorker}, NEW epoch \in Nat, PutHold(c, start, w, epoch)
  PROVE  hold' \in [Calls -> HoldRecord]
<1>1. start + ActiveTtl \in Nat
  BY DEF AdmissionAssumption
<1>2. QED
  BY <1>1 DEF TypeOK, PutHold, HoldRecord

LEMMA EffectType ==
  ASSUME AdmissionAssumption, TypeOK, NEW c \in Calls, NEW w \in Workers, Effect(c, w)
  PROVE  TypeOK'
<1>1. CASE UNCHANGED vars
  BY <1>1 DEF TypeOK, vars
<1>2. CASE Created(c, w)
  <2>1. now + ClaimTtl \in Nat
    BY DEF TypeOK, AdmissionAssumption
  <2>2. lease' \in [Calls -> LeaseRecord]
    BY <1>2, <2>1 DEF TypeOK, Created, ReserveCreated, LeaseRecord
  <2>3. score' \in [Keys -> [Calls -> Nat]]
    BY <1>2, <2>1, IndexType DEF Created, ReserveCreated
  <2>4. tokens' \in [Buckets -> Nat]
    BY <1>2 DEF TypeOK, Created, ReserveCreated, HasToken
  <2>5. QED
    BY <1>2, <2>2, <2>3, <2>4 DEF TypeOK, Created, ReserveCreated
<1>3. ASSUME NEW epoch \in Nat, Granted(c, w, epoch)
      PROVE  TypeOK'
  <2>1. now + ActiveTtl \in Nat
    BY DEF TypeOK, AdmissionAssumption
  <2>2. lease' \in [Calls -> LeaseRecord]
    BY <1>3, <2>1 DEF TypeOK, Granted, GrantLease, LeaseRecord
  <2>3. score' \in [Keys -> [Calls -> Nat]]
    BY <1>3, <2>1, IndexType DEF Granted, GrantLease
  <2>4. hold' \in [Calls -> HoldRecord]
    BY <1>3, <2>1, PutHoldType DEF Granted, GrantLease
  <2>5. QED
    BY <1>3, <2>2, <2>3, <2>4 DEF TypeOK, Granted
<1>4. CASE HoldKept(c)
  <2>1. /\ lease[c].expires \in Nat
        /\ lease[c].worker \in Workers \cup {NoWorker}
        /\ lease[c].epoch \in Nat
    BY DEF TypeOK, LeaseRecord
  <2>2. hold' \in [Calls -> HoldRecord]
    BY <1>4, <2>1, PutHoldType DEF HoldKept
  <2>3. QED
    BY <1>4, <2>2 DEF TypeOK, HoldKept
<1>5. CASE HoldExtended(c)
  <2>1. /\ now \in Nat
        /\ hold[c].owner \in Workers \cup {NoWorker}
        /\ hold[c].epoch \in Nat
    BY DEF TypeOK, HoldRecord
  <2>2. hold' \in [Calls -> HoldRecord]
    BY <1>5, <2>1, PutHoldType DEF HoldExtended
  <2>3. QED
    BY <1>5, <2>2 DEF TypeOK, HoldExtended
<1>6. CASE Drop(c)
  <2>1. NoLease \in LeaseRecord /\ NoHold \in HoldRecord
    BY DEF NoLease, NoHold, LeaseRecord, HoldRecord
  <2>2. score' \in [Keys -> [Calls -> Nat]]
    BY <1>6, IndexType DEF Drop
  <2>3. QED
    BY <1>6, <2>1, <2>2 DEF TypeOK, Drop
<1>7. QED
  BY <1>1, <1>2, <1>3, <1>4, <1>5, <1>6 DEF Effect

LEMMA TickType ==
  ASSUME AdmissionAssumption, TypeOK, Tick
  PROVE  TypeOK'
<1>1. NoLease \in LeaseRecord /\ NoHold \in HoldRecord
  BY DEF NoLease, NoHold, LeaseRecord, HoldRecord
<1>2. tokens' \in [Buckets -> Nat]
  <2>1. \A b \in Buckets : Refilled(b) \in Nat
    BY DEF TypeOK, AdmissionAssumption, Refilled, Smaller
  <2>2. QED
    BY <2>1 DEF Tick
<1>3. QED
  BY <1>1, <1>2 DEF TypeOK, Tick

LEMMA InitType == AdmissionAssumption /\ Init => TypeOK
BY DEF AdmissionAssumption, Init, TypeOK, NoLease, NoHold, LeaseRecord, HoldRecord

\* The state of the store is always well typed: no sequence of commands and
\* expiries leaves a record, a score, a hold or a bucket outside its range; in
\* particular a bucket never goes below zero.
THEOREM TypeCorrect == Spec => []TypeOK
<1>1. Init => TypeOK
  BY AdmissionAssumption, InitType
<1>2. TypeOK /\ [Next]_vars => TypeOK'
  <2>1. SUFFICES ASSUME TypeOK, [Next]_vars
                 PROVE  TypeOK'
    OBVIOUS
  <2>2. CASE Tick
    BY <2>1, <2>2, AdmissionAssumption, TickType
  <2>3. ASSUME NEW c \in Calls, NEW w \in Workers, NEW out \in Outcomes, Command(c, w, out)
        PROVE  TypeOK'
    BY <2>1, <2>3, AdmissionAssumption, CommandEffects, EffectType
  <2>4. CASE UNCHANGED vars
    BY <2>1, <2>4 DEF TypeOK, vars
  <2>5. QED
    BY <2>1, <2>2, <2>3, <2>4 DEF Next
<1>3. QED
  BY <1>1, <1>2, PTL DEF Spec

-----------------------------------------------------------------------------
(* The records, the sorted sets and the holds agree *)

LEMMA EffectStoreInv ==
  ASSUME AdmissionAssumption, StoreInv, NEW c \in Calls, NEW w \in Workers, Effect(c, w)
  PROVE  StoreInv'
<1>1. TypeOK'
  BY EffectType DEF StoreInv
<1>2. CASE UNCHANGED vars
  BY <1>2 DEF StoreInv, TypeOK, IndexMatchesRecords, LeaseHasHold, HoldsMature,
              Live, Active, Claimed, Held, vars
<1> USE DEF Live, Active, Claimed, Held
<1>3. ASSUME now' = now, lease' = lease, score' = score
      PROVE  IndexMatchesRecords'
  BY <1>3 DEF StoreInv, IndexMatchesRecords
<1>4. CASE Created(c, w)
  <2>1. now + ClaimTtl \in Nat /\ now + ClaimTtl > now /\ now' = now /\ hold' = hold
    BY <1>4 DEF StoreInv, TypeOK, AdmissionAssumption, Created, ReserveCreated
  <2>2. lease'[c] = [state |-> "claim", worker |-> w, expires |-> now + ClaimTtl, epoch |-> 0]
    BY <1>4 DEF StoreInv, TypeOK, Created, ReserveCreated
  <2>3. \A d \in Calls : d # c => lease'[d] = lease[d]
    BY <1>4 DEF StoreInv, TypeOK, Created, ReserveCreated
  <2>4. ~Held(c)
    BY <1>4 DEF StoreInv, HoldsMature, Created, ReserveCreated, RecoveryPending, Matured
  <2>5. IndexMatchesRecords'
    <3>1. ASSUME NEW k \in Keys, NEW d \in Calls
          PROVE  score'[k][d] = IF Live(d)' /\ k \in ScopeKeys[d] \cup {lease'[d].worker}
                                THEN lease'[d].expires ELSE 0
      BY <1>4, <2>1, <2>2, <2>3
         DEF StoreInv, TypeOK, IndexMatchesRecords, Created, ReserveCreated, Index
    <3>2. QED
      BY <3>1 DEF IndexMatchesRecords
  <2>6. LeaseHasHold'
    BY <2>1, <2>2, <2>3, <2>4 DEF StoreInv, LeaseHasHold
  <2>7. HoldsMature'
    BY <2>1, <2>2, <2>3, <2>4 DEF StoreInv, HoldsMature
  <2>8. QED
    BY <1>1, <2>5, <2>6, <2>7 DEF StoreInv
<1>5. ASSUME NEW epoch \in Nat, Granted(c, w, epoch)
      PROVE  StoreInv'
  <2>1. now + ActiveTtl \in Nat /\ now + ActiveTtl > now /\ now' = now
    BY <1>5 DEF StoreInv, TypeOK, AdmissionAssumption, Granted
  <2>2. /\ lease'[c] = [state |-> "active", worker |-> w, expires |-> now + ActiveTtl,
                        epoch |-> epoch]
        /\ \A d \in Calls : d # c => lease'[d] = lease[d]
    BY <1>5 DEF StoreInv, TypeOK, Granted, GrantLease
  <2>3. /\ hold'[c] = [start |-> now + ActiveTtl, until |-> now + ActiveTtl + ActiveTtl,
                       owner |-> w, epoch |-> epoch]
        /\ \A d \in Calls : d # c => hold'[d] = hold[d]
    BY <1>5 DEF StoreInv, TypeOK, Granted, GrantLease, PutHold
  <2>4. IndexMatchesRecords'
    <3>1. ASSUME NEW k \in Keys, NEW d \in Calls
          PROVE  score'[k][d] = IF Live(d)' /\ k \in ScopeKeys[d] \cup {lease'[d].worker}
                                THEN lease'[d].expires ELSE 0
      BY <1>5, <2>1, <2>2
         DEF StoreInv, TypeOK, IndexMatchesRecords, Granted, GrantLease, Index
    <3>2. QED
      BY <3>1 DEF IndexMatchesRecords
  <2>5. LeaseHasHold'
    BY <2>1, <2>2, <2>3 DEF StoreInv, LeaseHasHold
  <2>6. HoldsMature'
    BY <2>1, <2>2, <2>3 DEF StoreInv, HoldsMature
  <2>7. QED
    BY <1>1, <2>4, <2>5, <2>6 DEF StoreInv
<1>6. CASE HoldKept(c)
  <2>1. hold' = hold
    BY <1>6 DEF StoreInv, TypeOK, LeaseHasHold, HoldKept, PutHold
  <2>2. QED
    BY <1>1, <1>3, <1>6, <2>1 DEF StoreInv, LeaseHasHold, HoldsMature, HoldKept
<1>7. CASE HoldExtended(c)
  <2>1. now' = now /\ lease' = lease /\ score' = score
    BY <1>7 DEF HoldExtended
  <2>2. /\ hold'[c] = [start |-> now, until |-> now + ActiveTtl,
                       owner |-> hold[c].owner, epoch |-> hold[c].epoch]
        /\ \A d \in Calls : d # c => hold'[d] = hold[d]
    BY <1>7 DEF StoreInv, TypeOK, HoldExtended, PutHold
  <2>3. now <= now
    BY DEF StoreInv, TypeOK
  <2>4. LeaseHasHold'
    BY <1>7, <2>1, <2>2 DEF StoreInv, LeaseHasHold, HoldExtended
  <2>5. HoldsMature'
    BY <1>7, <2>1, <2>2, <2>3 DEF StoreInv, HoldsMature, HoldExtended
  <2>6. QED
    BY <1>1, <1>3, <2>1, <2>4, <2>5 DEF StoreInv
<1>8. CASE Drop(c)
  <2>1. now \in Nat /\ now' = now
    BY <1>8 DEF StoreInv, TypeOK, Drop
  <2>2. /\ lease'[c] = NoLease /\ hold'[c] = NoHold
        /\ \A d \in Calls : d # c => lease'[d] = lease[d] /\ hold'[d] = hold[d]
    BY <1>8 DEF StoreInv, TypeOK, Drop
  <2>3. IndexMatchesRecords'
    <3>1. ASSUME NEW k \in Keys, NEW d \in Calls
          PROVE  score'[k][d] = IF Live(d)' /\ k \in ScopeKeys[d] \cup {lease'[d].worker}
                                THEN lease'[d].expires ELSE 0
      BY <1>8, <2>1, <2>2 DEF StoreInv, TypeOK, IndexMatchesRecords, Drop, Index, NoLease
    <3>2. QED
      BY <3>1 DEF IndexMatchesRecords
  <2>4. LeaseHasHold' /\ HoldsMature'
    BY <2>1, <2>2 DEF StoreInv, LeaseHasHold, HoldsMature, NoLease, NoHold
  <2>5. QED
    BY <1>1, <2>3, <2>4 DEF StoreInv
<1>9. QED
  BY <1>2, <1>4, <1>5, <1>6, <1>7, <1>8 DEF Effect

LEMMA TickStoreInv ==
  ASSUME AdmissionAssumption, StoreInv, Tick
  PROVE  StoreInv'
<1> USE DEF Live, Active, Claimed, Held
<1>1. TypeOK'
  BY TickType DEF StoreInv
<1>2. now \in Nat /\ now' = now + 1
  BY DEF StoreInv, TypeOK, Tick
<1>3. \A c \in Calls : /\ lease[c].expires \in Nat
                       /\ hold[c].until \in Nat /\ hold[c].start \in Nat
  BY DEF StoreInv, TypeOK, LeaseRecord, HoldRecord
<1>4. \A c \in Calls : lease'[c] = IF lease[c].expires > now' THEN lease[c] ELSE NoLease
  BY DEF Tick
<1>5. \A c \in Calls : hold'[c] = IF hold[c].until > now' THEN hold[c] ELSE NoHold
  BY DEF Tick
<1>6. IndexMatchesRecords'
  <2>1. ASSUME NEW k \in Keys, NEW c \in Calls
        PROVE  score'[k][c] = IF Live(c)' /\ k \in ScopeKeys[c] \cup {lease'[c].worker}
                              THEN lease'[c].expires ELSE 0
    <3>1. score'[k][c] = IF score[k][c] > now' THEN score[k][c] ELSE 0
      BY DEF Tick
    <3>2. QED
      BY <1>2, <1>3, <1>4, <3>1 DEF StoreInv, IndexMatchesRecords, NoLease
  <2>2. QED
    BY <2>1 DEF IndexMatchesRecords
<1>7. LeaseHasHold'
  <2>1. ActiveTtl \in Nat
    BY DEF AdmissionAssumption
  <2>2. QED
    BY <1>2, <1>3, <1>4, <1>5, <2>1 DEF StoreInv, LeaseHasHold, NoLease, NoHold
<1>8. HoldsMature'
  <2>1. ASSUME NEW c \in Calls, Held(c)'
        PROVE  /\ hold'[c].owner \in Workers
               /\ ~Live(c)' => hold'[c].start <= now'
    <3>1. hold'[c] = hold[c] /\ Held(c)
      BY <1>2, <1>3, <1>5, <2>1 DEF NoHold
    <3>2. hold[c].owner \in Workers
      BY <3>1 DEF StoreInv, HoldsMature
    <3>3. CASE Live(c) /\ ~Live(c)'
      <4>1. lease[c].expires <= now'
        BY <1>2, <1>3, <1>4, <3>3
      <4>2. Active(c)
        BY <3>1, <3>3 DEF StoreInv, LeaseHasHold, HoldsMature, TypeOK, LeaseRecord
      <4>3. hold[c].start = lease[c].expires
        <5>1. hold[c] = [start |-> lease[c].expires, until |-> lease[c].expires + ActiveTtl,
                         owner |-> lease[c].worker, epoch |-> lease[c].epoch]
          BY <4>2 DEF StoreInv, LeaseHasHold
        <5>2. QED
          BY <5>1
      <4>4. QED
        BY <3>1, <3>2, <4>1, <4>3
    <3>4. CASE ~Live(c)
      BY <1>2, <1>3, <3>1, <3>2, <3>4 DEF StoreInv, HoldsMature
    <3>5. QED
      BY <3>1, <3>2, <3>3, <3>4
  <2>2. ASSUME NEW c \in Calls, Live(c)'
        PROVE  lease'[c].worker \in Workers /\ lease'[c].state # "none"
    <3>1. lease'[c] = lease[c] /\ Live(c)
      BY <1>2, <1>3, <1>4, <2>2 DEF NoLease
    <3>2. QED
      BY <3>1 DEF StoreInv, HoldsMature
  <2>3. QED
    BY <2>1, <2>2 DEF HoldsMature
<1>9. QED
  BY <1>1, <1>6, <1>7, <1>8 DEF StoreInv

-----------------------------------------------------------------------------
(* Counting *)

\* A set that gains at most x, where T was below the limit, stays within it.
LEMMA RoomForOne ==
  ASSUME NEW T, IsFiniteSet(T), NEW S, NEW x, S \subseteq T \cup {x}, NEW n \in Nat,
         Cardinality(T) < n
  PROVE  Cardinality(S) <= n
<1>1. /\ IsFiniteSet(T \cup {x})
      /\ Cardinality(T \cup {x}) <= Cardinality(T) + 1
  <2>1. Cardinality(T) \in Nat
    BY FS_CardinalityType
  <2>2. QED
    BY SMTT(40), <2>1, FS_AddElement
<1>2. /\ IsFiniteSet(S)
      /\ Cardinality(S) <= Cardinality(T \cup {x})
  BY <1>1, FS_Subset
<1>3. Cardinality(S) \in Nat /\ Cardinality(T) \in Nat /\ Cardinality(T \cup {x}) \in Nat
  BY <1>1, <1>2, FS_CardinalityType
<1>4. QED
  BY <1>1, <1>2, <1>3

\* A set that gains nothing stays within its limit.
LEMMA NoMore ==
  ASSUME NEW T, IsFiniteSet(T), NEW S, S \subseteq T, NEW n \in Nat, Cardinality(T) <= n
  PROVE  Cardinality(S) <= n
<1>1. IsFiniteSet(S) /\ Cardinality(S) <= Cardinality(T)
  BY FS_Subset
<1>2. Cardinality(S) \in Nat /\ Cardinality(T) \in Nat
  BY <1>1, FS_CardinalityType
<1>3. QED
  BY <1>1, <1>2

\* What a counter counts is who occupies it.
LEMMA CountedAreOccupants ==
  ASSUME StoreInv, NEW k \in Keys
  PROVE  Counted(k) = Occupants(k)
<1>1. ASSUME NEW c \in Calls
      PROVE  score[k][c] > now <=> Live(c) /\ k \in ScopeKeys[c] \cup {lease[c].worker}
  <2>1. now \in Nat /\ lease[c].expires \in Nat
    BY DEF StoreInv, TypeOK, LeaseRecord
  <2>2. QED
    BY <2>1 DEF StoreInv, IndexMatchesRecords, Live
<1>2. QED
  BY <1>1 DEF Counted, Occupants

\* A counter with room counts fewer calls than its limit.
LEMMA NotFullHasRoom ==
  ASSUME AdmissionAssumption, StoreInv, NEW k \in Keys, ~Full(k)
  PROVE  Cardinality(Occupants(k)) < Limit[k]
<1>1. IsFiniteSet(Occupants(k))
  BY FS_Subset DEF AdmissionAssumption, Occupants
<1>2. Cardinality(Occupants(k)) \in Nat /\ Limit[k] \in Nat
  BY <1>1, FS_CardinalityType DEF AdmissionAssumption
<1>3. QED
  BY <1>2, CountedAreOccupants DEF Full

\* With no recovery pending only live calls are recoverable.
LEMMA NothingPending ==
  ASSUME AdmissionAssumption, StoreInv, ~RecoveryPending, NEW k \in SharedKeys
  PROVE  Recoverable(k) = Occupants(k)
<1>1. ASSUME NEW c \in Calls
      PROVE  (Live(c) \/ Held(c)) /\ k \in ScopeKeys[c]
             <=> Live(c) /\ k \in ScopeKeys[c] \cup {lease[c].worker}
  <2>1. Held(c) => Live(c)
    BY DEF StoreInv, HoldsMature, RecoveryPending, Matured
  <2>2. Live(c) => lease[c].worker # k
    BY DEF StoreInv, HoldsMature, AdmissionAssumption
  <2>3. QED
    BY <2>1, <2>2
<1>2. QED
  BY <1>1 DEF Recoverable, Occupants

\* A command adds at most its own call to what a shared key must keep a place
\* for, and only by creating a claim where the counter had room.
LEMMA EffectSlots ==
  ASSUME AdmissionAssumption, StoreInv, RecoverySlotsKept,
         NEW c \in Calls, NEW w \in Workers, Effect(c, w), NEW k \in SharedKeys
  PROVE  Cardinality(Recoverable(k)') <= Limit[k]
<1> USE DEF Live, Held
<1>1. IsFiniteSet(Recoverable(k))
  BY FS_Subset DEF AdmissionAssumption, Recoverable
<1>2. Limit[k] \in Nat /\ Cardinality(Recoverable(k)) <= Limit[k]
  BY DEF AdmissionAssumption, Keys, RecoverySlotsKept, Recoverable
<1>3. CASE Created(c, w)
  <2>1. /\ hold' = hold /\ now' = now
        /\ \A d \in Calls : d # c => lease'[d] = lease[d]
    BY <1>3 DEF StoreInv, TypeOK, Created, ReserveCreated
  <2>2. CASE k \in ScopeKeys[c]
    <3>1. Cardinality(Recoverable(k)) < Limit[k]
      BY <1>3, <2>2, NothingPending, NotFullHasRoom DEF Created, ReserveCreated, Keys
    <3>2. Recoverable(k)' \subseteq Recoverable(k) \cup {c}
      BY <2>1 DEF Recoverable
    <3>3. QED
      BY <1>1, <1>2, <3>1, <3>2, RoomForOne
  <2>3. CASE k \notin ScopeKeys[c]
    <3>1. Recoverable(k)' \subseteq Recoverable(k)
      BY <2>1, <2>3 DEF Recoverable
    <3>2. QED
      BY <1>1, <1>2, <3>1, NoMore
  <2>4. QED
    BY <2>2, <2>3
<1>4. ASSUME ~Created(c, w)
      PROVE  Recoverable(k)' \subseteq Recoverable(k)
  <2>1. CASE UNCHANGED vars
    BY <2>1 DEF Recoverable, vars
  <2>2. ASSUME NEW epoch \in Nat, Granted(c, w, epoch)
        PROVE  Recoverable(k)' \subseteq Recoverable(k)
    <3>1. /\ now' = now
          /\ \A d \in Calls : d # c => lease'[d] = lease[d] /\ hold'[d] = hold[d]
      BY <2>2 DEF StoreInv, TypeOK, Granted, GrantLease, PutHold
    <3>2. Live(c) \/ Held(c)
      BY <2>2 DEF Granted, MayGrant, Claimed, Active, RecoveryOwner
    <3>3. QED
      BY <3>1, <3>2 DEF Recoverable
  <2>3. CASE HoldKept(c) \/ HoldExtended(c)
    <3>1. /\ now' = now /\ lease' = lease
          /\ \A d \in Calls : d # c => hold'[d] = hold[d]
      BY <2>3 DEF StoreInv, TypeOK, HoldKept, HoldExtended, PutHold
    <3>2. Live(c) \/ Held(c)
      BY <2>3 DEF HoldKept, HoldExtended, Active
    <3>3. QED
      BY <3>1, <3>2 DEF Recoverable
  <2>4. CASE Drop(c)
    <3>1. /\ now \in Nat /\ now' = now
          /\ \A d \in Calls : d # c => lease'[d] = lease[d] /\ hold'[d] = hold[d]
          /\ lease'[c].expires = 0 /\ hold'[c].until = 0
      BY <2>4 DEF StoreInv, TypeOK, Drop, NoLease, NoHold
    <3>2. QED
      BY <3>1 DEF Recoverable
  <2>5. QED
    BY <1>4, <2>1, <2>2, <2>3, <2>4 DEF Effect
<1>5. QED
  BY <1>1, <1>2, <1>3, <1>4, NoMore

\* A worker gains a call only where its counter had room.
LEMMA EffectWorkers ==
  ASSUME AdmissionAssumption, StoreInv, WorkerCapacity,
         NEW c \in Calls, NEW w \in Workers, Effect(c, w), NEW v \in Workers
  PROVE  Cardinality(Occupants(v)') <= Limit[v]
<1> USE DEF Live, Held
<1>1. IsFiniteSet(Occupants(v))
  BY FS_Subset DEF AdmissionAssumption, Occupants
<1>2. v \in Keys /\ Limit[v] \in Nat /\ Cardinality(Occupants(v)) <= Limit[v]
  BY DEF AdmissionAssumption, Keys, WorkerCapacity
<1>3. \A d \in Calls : v \notin ScopeKeys[d]
  BY DEF AdmissionAssumption
<1>4. ASSUME now' = now, lease' = lease
      PROVE  Occupants(v)' \subseteq Occupants(v)
  BY <1>4 DEF Occupants
<1>5. ASSUME now' = now, \A d \in Calls : d # c => lease'[d] = lease[d],
             lease'[c].worker = w,
             (Live(c) /\ lease[c].worker = w) \/ ~Full(w)
      PROVE  Cardinality(Occupants(v)') <= Limit[v]
  <2>1. CASE v = w /\ ~Full(w)
    <3>1. Cardinality(Occupants(v)) < Limit[v]
      BY <1>2, <2>1, NotFullHasRoom
    <3>2. Occupants(v)' \subseteq Occupants(v) \cup {c}
      BY <1>5 DEF Occupants
    <3>3. QED
      BY <1>1, <1>2, <3>1, <3>2, RoomForOne
  <2>2. CASE v # w \/ (Live(c) /\ lease[c].worker = w)
    <3>1. Occupants(v)' \subseteq Occupants(v)
      BY <1>3, <1>5, <2>2 DEF Occupants
    <3>2. QED
      BY <1>1, <1>2, <3>1, NoMore
  <2>3. QED
    BY <1>5, <2>1, <2>2
<1>6. CASE UNCHANGED vars \/ HoldKept(c) \/ HoldExtended(c)
  <2>1. now' = now /\ lease' = lease
    BY <1>6 DEF vars, HoldKept, HoldExtended
  <2>2. QED
    BY <1>1, <1>2, <1>4, <2>1, NoMore
<1>7. CASE Created(c, w)
  <2>1. /\ now' = now
        /\ \A d \in Calls : d # c => lease'[d] = lease[d]
        /\ lease'[c].worker = w
        /\ ~Full(w)
    BY <1>7 DEF StoreInv, TypeOK, Created, ReserveCreated
  <2>2. QED
    BY <1>5, <2>1
<1>8. ASSUME NEW epoch \in Nat, Granted(c, w, epoch)
      PROVE  Cardinality(Occupants(v)') <= Limit[v]
  <2>1. /\ now' = now
        /\ \A d \in Calls : d # c => lease'[d] = lease[d]
        /\ lease'[c].worker = w
    BY <1>8 DEF StoreInv, TypeOK, Granted, GrantLease
  <2>2. (Live(c) /\ lease[c].worker = w) \/ ~Full(w)
    BY <1>8 DEF Granted, MayGrant, Claimed, Active
  <2>3. QED
    BY <1>5, <2>1, <2>2
<1>9. CASE Drop(c)
  <2>1. /\ now \in Nat /\ now' = now
        /\ \A d \in Calls : d # c => lease'[d] = lease[d]
        /\ lease'[c].expires = 0
    BY <1>9 DEF StoreInv, TypeOK, Drop, NoLease
  <2>2. Occupants(v)' \subseteq Occupants(v)
    BY <2>1 DEF Occupants
  <2>3. QED
    BY <1>1, <1>2, <2>2, NoMore
<1>10. QED
  BY <1>6, <1>7, <1>8, <1>9 DEF Effect

\* The clock only takes calls away.
LEMMA TickCounts ==
  ASSUME AdmissionAssumption, StoreInv, RecoverySlotsKept, WorkerCapacity, Tick
  PROVE  RecoverySlotsKept' /\ WorkerCapacity'
<1>1. ASSUME NEW c \in Calls
      PROVE  /\ Held(c)' => Held(c)
             /\ Live(c)' => Live(c) /\ lease'[c] = lease[c]
  <2>1. /\ now \in Nat /\ now' = now + 1
        /\ lease[c].expires \in Nat /\ hold[c].until \in Nat
    BY DEF StoreInv, TypeOK, LeaseRecord, HoldRecord, Tick
  <2>2. QED
    BY <2>1 DEF Tick, Live, Held, NoLease, NoHold
<1>2. ASSUME NEW k \in SharedKeys
      PROVE  Cardinality(Recoverable(k)') <= Limit[k]
  <2>1. Recoverable(k)' \subseteq Recoverable(k)
    BY <1>1 DEF Recoverable
  <2>2. IsFiniteSet(Recoverable(k))
    BY FS_Subset DEF AdmissionAssumption, Recoverable
  <2>3. Limit[k] \in Nat /\ Cardinality(Recoverable(k)) <= Limit[k]
    BY DEF AdmissionAssumption, Keys, RecoverySlotsKept, Recoverable
  <2>4. QED
    BY <2>1, <2>2, <2>3, NoMore
<1>3. ASSUME NEW w \in Workers
      PROVE  Cardinality(Occupants(w)') <= Limit[w]
  <2>1. Occupants(w)' \subseteq Occupants(w)
    BY <1>1 DEF Occupants
  <2>2. IsFiniteSet(Occupants(w))
    BY FS_Subset DEF AdmissionAssumption, Occupants
  <2>3. Limit[w] \in Nat /\ Cardinality(Occupants(w)) <= Limit[w]
    BY DEF AdmissionAssumption, Keys, WorkerCapacity
  <2>4. QED
    BY <2>1, <2>2, <2>3, NoMore
<1>4. QED
  BY <1>2, <1>3 DEF RecoverySlotsKept, WorkerCapacity, Recoverable

-----------------------------------------------------------------------------
(* The theorems *)

LEMMA InitInv == AdmissionAssumption /\ Init => AdmissionInv
<1> SUFFICES ASSUME AdmissionAssumption, Init
             PROVE  AdmissionInv
  OBVIOUS
<1>1. \A c \in Calls : ~Live(c) /\ ~Held(c)
  BY DEF Init, Live, Held, NoLease, NoHold
<1>2. StoreInv
  BY <1>1, InitType
     DEF StoreInv, Init, IndexMatchesRecords, LeaseHasHold, HoldsMature, Active, Claimed
<1>3. ASSUME NEW k \in Keys
      PROVE  /\ Cardinality(Occupants(k)) <= Limit[k]
             /\ Cardinality(Recoverable(k)) <= Limit[k]
  <2>1. Occupants(k) = {} /\ Recoverable(k) = {}
    BY <1>1 DEF Occupants, Recoverable
  <2>2. QED
    BY <2>1, FS_EmptySet DEF AdmissionAssumption
<1>4. QED
  BY <1>2, <1>3 DEF AdmissionInv, RecoverySlotsKept, WorkerCapacity, Recoverable, Keys

LEMMA NextInv == AdmissionInv /\ [Next]_vars => AdmissionInv'
<1> SUFFICES ASSUME AdmissionInv, [Next]_vars
             PROVE  AdmissionInv'
  OBVIOUS
<1>1. StoreInv /\ RecoverySlotsKept /\ WorkerCapacity
  BY DEF AdmissionInv
<1>2. ASSUME NEW c \in Calls, NEW w \in Workers, Effect(c, w)
      PROVE  AdmissionInv'
  <2>1. StoreInv'
    BY <1>1, <1>2, AdmissionAssumption, EffectStoreInv
  <2>2. RecoverySlotsKept'
    BY <1>1, <1>2, AdmissionAssumption, EffectSlots DEF RecoverySlotsKept, Recoverable
  <2>3. WorkerCapacity'
    BY <1>1, <1>2, AdmissionAssumption, EffectWorkers DEF WorkerCapacity
  <2>4. QED
    BY <2>1, <2>2, <2>3 DEF AdmissionInv
<1>3. CASE Tick
  BY <1>1, <1>3, AdmissionAssumption, TickStoreInv, TickCounts DEF AdmissionInv
<1>4. ASSUME NEW c \in Calls, NEW w \in Workers, NEW out \in Outcomes, Command(c, w, out)
      PROVE  AdmissionInv'
  BY <1>1, <1>2, <1>4, AdmissionAssumption, CommandEffects DEF StoreInv
<1>5. CASE UNCHANGED vars
  BY <1>1, <1>5
     DEF AdmissionInv, StoreInv, TypeOK, IndexMatchesRecords, LeaseHasHold, HoldsMature,
         RecoverySlotsKept, WorkerCapacity, Occupants, Live, Held, Active, Claimed, vars
<1>6. QED
  BY <1>3, <1>4, <1>5 DEF Next

\* AdmissionInv is inductive, so it holds throughout.
THEOREM AdmissionInvariant == Spec => []AdmissionInv
<1>1. Init => AdmissionInv
  BY AdmissionAssumption, InitInv
<1>2. QED
  BY <1>1, NextInv, PTL DEF Spec

\* Behind every active lease stands the hold with which its owner, and only its
\* owner, can take the call back, whatever the other processes send.
THEOREM LeaseAlwaysRecoverable == Spec => []LeaseHasHold
<1>1. AdmissionInv => LeaseHasHold
  BY DEF AdmissionInv, StoreInv
<1>2. QED
  BY <1>1, AdmissionInvariant, PTL

\* The live calls and the recoverable ones together fit every shared limit, for
\* every assignment of limits and scopes.
THEOREM RecoverySlotsAlwaysKept == Spec => []RecoverySlotsKept
<1>1. AdmissionInv => RecoverySlotsKept
  BY DEF AdmissionInv
<1>2. QED
  BY <1>1, AdmissionInvariant, PTL

\* No concurrency counter, shared or of a worker, is ever exceeded.
THEOREM CapacityAlwaysRespected == Spec => []CapacityRespected
<1>1. AdmissionInv => CapacityRespected
  <2>1. SUFFICES ASSUME AdmissionInv, NEW k \in Keys
                 PROVE  Cardinality(Occupants(k)) <= Limit[k]
    BY DEF CapacityRespected
  <2>2. CASE k \in Workers
    BY <2>1, <2>2 DEF AdmissionInv, WorkerCapacity
  <2>3. CASE k \in SharedKeys
    <3>1. Occupants(k) \subseteq Recoverable(k)
      <4>1. \A c \in Calls : Live(c) => lease[c].worker # k
        BY <2>1, <2>3, AdmissionAssumption DEF AdmissionInv, StoreInv, HoldsMature
      <4>2. QED
        BY <4>1 DEF Occupants, Recoverable
    <3>2. IsFiniteSet(Recoverable(k))
      BY AdmissionAssumption, FS_Subset DEF Recoverable
    <3>3. Cardinality(Recoverable(k)) <= Limit[k] /\ Limit[k] \in Nat
      BY <2>1, <2>3, AdmissionAssumption DEF AdmissionInv, RecoverySlotsKept, Recoverable
    <3>4. QED
      BY <3>1, <3>2, <3>3, NoMore
  <2>4. QED
    BY <2>1, <2>2, <2>3 DEF Keys
<1>2. QED
  BY <1>1, AdmissionInvariant, PTL

\* While a call's hold stands its owner cannot change, and the epoch that
\* fences its renewals and releases only moves when that owner recovers it.
THEOREM OwnershipAlwaysFenced == Spec => OwnershipFenced
<1> DEFINE Fenced(c) ==
      Held(c) /\ Held(c)' =>
        /\ hold'[c].owner = hold[c].owner
        /\ \/ hold'[c].epoch = hold[c].epoch
           \/ hold'[c].epoch = hold[c].epoch + 1 /\ ~Live(c) /\ Active(c)'
<1>1. AdmissionInv /\ [Next]_vars => [\A c \in Calls : Fenced(c)]_vars
  <2>1. SUFFICES ASSUME AdmissionInv, Next, NEW d \in Calls, Held(d), Held(d)'
                 PROVE  Fenced(d)
    OBVIOUS
  <2>2. StoreInv
    BY <2>1 DEF AdmissionInv
  <2>3. CASE Tick
    <3>1. hold'[d] = IF hold[d].until > now' THEN hold[d] ELSE NoHold
      BY <2>3 DEF Tick
    <3>2. now \in Nat /\ now' = now + 1
      BY <2>2, <2>3 DEF StoreInv, TypeOK, Tick
    <3>3. hold'[d] = hold[d]
      BY <2>1, <3>1, <3>2 DEF Held, NoHold
    <3>4. QED
      BY <3>3
  <2>4. ASSUME NEW c \in Calls, NEW w \in Workers, NEW out \in Outcomes, Command(c, w, out)
        PROVE  Fenced(d)
    <3>1. Effect(c, w)
      BY <2>2, <2>4, AdmissionAssumption, CommandEffects DEF StoreInv
    <3>2. CASE hold'[d] = hold[d]
      BY <3>2
    <3>3. CASE UNCHANGED vars \/ Created(c, w)
      BY <3>2, <3>3 DEF vars, Created, ReserveCreated
    <3>4. ASSUME NEW epoch \in Nat, Granted(c, w, epoch)
          PROVE  Fenced(d)
      <4>1. /\ hold'[c].owner = w /\ hold'[c].epoch = epoch
            /\ c # d => hold'[d] = hold[d]
        BY <2>2, <3>4 DEF StoreInv, TypeOK, Granted, GrantLease, PutHold
      <4>2. Active(c)'
        <5>1. /\ lease'[c].state = "active" /\ lease'[c].expires = now + ActiveTtl
              /\ now' = now /\ now \in Nat /\ ActiveTtl > 0 /\ ActiveTtl \in Nat
          BY <2>2, <3>4, AdmissionAssumption DEF StoreInv, TypeOK, Granted, GrantLease
        <5>2. QED
          BY <5>1 DEF Active, Live
      <4>3. CASE c = d /\ Claimed(c)
        BY <2>1, <2>2, <4>3 DEF StoreInv, LeaseHasHold
      <4>4. CASE c = d /\ Active(c) /\ lease[c].worker = w /\ lease[c].epoch = epoch
        <5>1. hold[c] = [start |-> lease[c].expires, until |-> lease[c].expires + ActiveTtl,
                         owner |-> lease[c].worker, epoch |-> lease[c].epoch]
          BY <2>2, <4>4 DEF StoreInv, LeaseHasHold
        <5>2. QED
          BY <4>1, <4>4, <5>1
      <4>5. CASE c = d /\ ~Live(c) /\ RecoveryOwner(c, w) /\ hold[c].epoch + 1 = epoch
        BY <4>1, <4>2, <4>5 DEF RecoveryOwner
      <4>6. QED
        BY <3>2, <3>4, <4>1, <4>3, <4>4, <4>5 DEF Granted, MayGrant
    <3>5. CASE HoldKept(c)
      <4>1. hold' = hold
        BY <2>2, <3>5 DEF StoreInv, TypeOK, LeaseHasHold, HoldKept, PutHold
      <4>2. QED
        BY <3>2, <4>1
    <3>6. CASE HoldExtended(c)
      BY <2>2, <3>2, <3>6 DEF StoreInv, TypeOK, HoldExtended, PutHold
    <3>7. CASE Drop(c)
      <4>1. /\ now \in Nat /\ now' = now
            /\ hold'[c].until = 0
            /\ c # d => hold'[d] = hold[d]
        BY <2>2, <3>7 DEF StoreInv, TypeOK, Drop, NoHold
      <4>2. QED
        BY <2>1, <3>2, <4>1 DEF Held
    <3>8. QED
      BY <3>1, <3>3, <3>4, <3>5, <3>6, <3>7 DEF Effect
  <2>5. QED
    BY <2>1, <2>3, <2>4 DEF Next
<1>2. QED
  BY <1>1, AdmissionInvariant, PTL DEF Spec, OwnershipFenced

-----------------------------------------------------------------------------
(* Epochs *)

\* A lease is granted for one lease time, and between two epochs of a call lies
\* a whole lease time in which nobody renewed it: epochs grow no faster than
\* the clock.
EpochInv ==
  /\ now <= MaxTime
  /\ \A c \in Calls :
       /\ Active(c) => lease[c].expires <= now + ActiveTtl
       /\ Held(c) => hold[c].epoch >= 1 /\ hold[c].epoch + ActiveTtl <= hold[c].start + 1

\* So the epoch of an active lease is one that a fence can name.
LEMMA EpochRange ==
  ASSUME AdmissionAssumption, StoreInv, EpochInv, NEW c \in Calls, Active(c)
  PROVE  lease[c].epoch \in 1..(MaxTime + 1)
<1>1. /\ hold[c].start = lease[c].expires /\ hold[c].epoch = lease[c].epoch
      /\ hold[c].until = lease[c].expires + ActiveTtl
  <2>1. hold[c] = [start |-> lease[c].expires, until |-> lease[c].expires + ActiveTtl,
                   owner |-> lease[c].worker, epoch |-> lease[c].epoch]
    BY DEF StoreInv, LeaseHasHold
  <2>2. QED
    BY <2>1
<1>2. /\ now \in Nat /\ lease[c].expires \in Nat /\ lease[c].epoch \in Nat
      /\ ActiveTtl \in Nat /\ ActiveTtl > 0 /\ MaxTime \in Nat
  BY DEF StoreInv, TypeOK, LeaseRecord, AdmissionAssumption
<1>3. Held(c) /\ lease[c].expires <= now + ActiveTtl /\ now <= MaxTime
  BY <1>1, <1>2 DEF EpochInv, Active, Live, Held
<1>4. lease[c].epoch >= 1 /\ lease[c].epoch + ActiveTtl <= lease[c].expires + 1
  BY <1>1, <1>3 DEF EpochInv
<1>5. QED
  BY <1>2, <1>3, <1>4

LEMMA InitEpochs == AdmissionAssumption /\ Init => EpochInv
BY DEF AdmissionAssumption, Init, EpochInv, Active, Live, Held, NoLease, NoHold

LEMMA TickEpochs ==
  ASSUME AdmissionAssumption, StoreInv, EpochInv, Tick
  PROVE  EpochInv'
<1>1. now \in Nat /\ now' = now + 1 /\ now' <= MaxTime
  BY DEF StoreInv, TypeOK, AdmissionAssumption, Tick
<1>2. ASSUME NEW c \in Calls
      PROVE  /\ Active(c)' => lease'[c].expires <= now' + ActiveTtl
             /\ Held(c)' =>
                  hold'[c].epoch >= 1 /\ hold'[c].epoch + ActiveTtl <= hold'[c].start + 1
  <2>1. /\ lease'[c] = IF lease[c].expires > now' THEN lease[c] ELSE NoLease
        /\ hold'[c] = IF hold[c].until > now' THEN hold[c] ELSE NoHold
        /\ lease[c].expires \in Nat /\ hold[c].until \in Nat /\ ActiveTtl \in Nat
    BY DEF StoreInv, TypeOK, LeaseRecord, HoldRecord, AdmissionAssumption, Tick
  <2>2. /\ Active(c)' => Active(c) /\ lease'[c] = lease[c]
        /\ Held(c)' => Held(c) /\ hold'[c] = hold[c]
    BY <1>1, <2>1 DEF Active, Live, Held, NoLease, NoHold
  <2>3. QED
    BY <1>1, <2>1, <2>2 DEF EpochInv
<1>3. QED
  BY <1>1, <1>2 DEF EpochInv

LEMMA EffectEpochs ==
  ASSUME AdmissionAssumption, StoreInv, EpochInv, NEW c \in Calls, NEW w \in Workers,
         Effect(c, w)
  PROVE  EpochInv'
<1> DEFINE Fit(d) == /\ Active(d) => lease[d].expires <= now + ActiveTtl
                     /\ Held(d) => hold[d].epoch >= 1 /\ hold[d].epoch + ActiveTtl <= hold[d].start + 1
<1>1. now' = now /\ \A d \in Calls : d # c => lease'[d] = lease[d] /\ hold'[d] = hold[d]
  BY DEF Effect, vars, Created, ReserveCreated, Granted, GrantLease, HoldKept, HoldExtended,
         Drop, PutHold, StoreInv, TypeOK
<1>2. \A d \in Calls : Fit(d)
  BY DEF EpochInv
<1>3. \A d \in Calls : d # c => Fit(d)'
  BY <1>1, <1>2 DEF Active, Live, Held
<1>4. /\ now \in Nat /\ ActiveTtl \in Nat /\ ActiveTtl > 0
      /\ lease[c].expires \in Nat /\ lease[c].epoch \in Nat
      /\ hold[c].start \in Nat /\ hold[c].until \in Nat /\ hold[c].epoch \in Nat
  BY DEF StoreInv, TypeOK, LeaseRecord, HoldRecord, AdmissionAssumption
<1>5. Active(c) => /\ Held(c) /\ hold[c].start = lease[c].expires
                   /\ hold[c].epoch = lease[c].epoch
  <2>1. Active(c) => hold[c] = [start |-> lease[c].expires,
                               until |-> lease[c].expires + ActiveTtl,
                               owner |-> lease[c].worker, epoch |-> lease[c].epoch]
    BY DEF StoreInv, LeaseHasHold
  <2>2. QED
    BY <1>4, <2>1 DEF Held, Active, Live
<1>6. Fit(c)'
  <2>1. CASE UNCHANGED vars
    BY <1>2, <2>1 DEF vars, Active, Live, Held
  <2>2. CASE Created(c, w)
    <3>1. hold' = hold /\ lease'[c].state = "claim"
      BY <2>2 DEF Created, ReserveCreated, StoreInv, TypeOK
    <3>2. QED
      BY <1>1, <1>2, <3>1 DEF Active, Held
  <2>3. ASSUME NEW epoch \in Nat, Granted(c, w, epoch)
        PROVE  Fit(c)'
    <3>1. /\ lease'[c].expires = now + ActiveTtl
          /\ hold'[c].epoch = epoch /\ hold'[c].start = now + ActiveTtl
      BY <2>3 DEF Granted, GrantLease, PutHold, StoreInv, TypeOK
    <3>2. epoch >= 1 /\ epoch + ActiveTtl <= now + ActiveTtl + 1
      <4>1. CASE Claimed(c) /\ epoch = 1
        BY <1>4, <4>1
      <4>2. CASE Active(c) /\ lease[c].epoch = epoch
        BY <1>2, <1>4, <1>5, <4>2
      <4>3. CASE ~Live(c) /\ RecoveryOwner(c, w) /\ hold[c].epoch + 1 = epoch
        <5>1. hold[c].start <= now /\ Held(c)
          BY <4>3 DEF StoreInv, HoldsMature, RecoveryOwner
        <5>2. QED
          BY <1>2, <1>4, <4>3, <5>1
      <4>4. QED
        BY <2>3, <4>1, <4>2, <4>3 DEF Granted, MayGrant
    <3>3. QED
      BY <1>1, <1>4, <3>1, <3>2
  <2>4. CASE HoldKept(c)
    <3>1. /\ lease' = lease /\ Active(c)
          /\ hold'[c].epoch = lease[c].epoch /\ hold'[c].start = lease[c].expires
      BY <2>4 DEF HoldKept, PutHold, StoreInv, TypeOK
    <3>2. QED
      BY <1>1, <1>2, <1>5, <3>1 DEF Active, Live
  <2>5. CASE HoldExtended(c)
    <3>1. /\ lease' = lease /\ Held(c) /\ ~Live(c)
          /\ hold'[c].epoch = hold[c].epoch /\ hold'[c].start = now
      BY <2>5 DEF HoldExtended, PutHold, StoreInv, TypeOK
    <3>2. hold[c].start <= now
      BY <3>1 DEF StoreInv, HoldsMature
    <3>3. QED
      BY <1>1, <1>2, <1>4, <3>1, <3>2 DEF Active, Live
  <2>6. CASE Drop(c)
    <3>1. lease'[c].expires = 0 /\ hold'[c].until = 0
      BY <2>6 DEF Drop, NoLease, NoHold, StoreInv, TypeOK
    <3>2. QED
      BY <1>1, <1>4, <3>1 DEF Active, Live, Held
  <2>7. QED
    BY <2>1, <2>2, <2>3, <2>4, <2>5, <2>6 DEF Effect
<1>7. QED
  BY <1>1, <1>3, <1>6 DEF EpochInv

-----------------------------------------------------------------------------
(* The contract *)

(* The invariant says what the sets of AdmissionContract are in the store     *)
(* (ServingAreOccupants, TakenAreRecoverable), so a counter the script finds  *)
(* not full is a counter with room in the contract; each effect of a command  *)
(* is then one action of the contract or leaves every place as it was, and    *)
(* the clock is Expire.                                                       *)
Places == [c \in Calls |-> PlaceOf(c)]

\* What the cases of PlaceOf are under the invariant.
LEMMA PlaceCases ==
  ASSUME StoreInv, NEW c \in Calls
  PROVE  /\ Claimed(c) => PlaceOf(c) = Contract!Place("claimed", lease[c].worker, lease[c].epoch)
         /\ Active(c) => PlaceOf(c) = Contract!Place("active", lease[c].worker, lease[c].epoch)
         /\ ~Live(c) /\ Held(c) =>
              PlaceOf(c) = Contract!Place("lapsed", hold[c].owner, hold[c].epoch)
         /\ ~Live(c) /\ ~Held(c) => PlaceOf(c) = Contract!Out
         /\ Live(c) => Claimed(c) \/ Active(c)
<1>1. Live(c) => lease[c].state \in {"claim", "active"}
  BY DEF StoreInv, TypeOK, LeaseRecord, HoldsMature
<1>2. QED
  BY <1>1 DEF Claimed, Active, PlaceOf, Contract!Place, Contract!Out

\* The kind of a call's place.
LEMMA PlaceKind ==
  ASSUME StoreInv, NEW c \in Calls
  PROVE  /\ Claimed(c) <=> PlaceOf(c).kind = "claimed"
         /\ Active(c) <=> PlaceOf(c).kind = "active"
         /\ ~Live(c) /\ Held(c) <=> PlaceOf(c).kind = "lapsed"
         /\ Live(c) \/ Held(c) <=> PlaceOf(c) # Contract!Out
         /\ Live(c) => PlaceOf(c).worker = lease[c].worker
<1>1. Claimed(c) => ~Active(c) /\ Live(c)
  BY DEF Claimed, Active
<1>2. Active(c) => Live(c)
  BY DEF Active
<1>3. CASE Claimed(c)
  BY <1>1, <1>3, PlaceCases DEF Contract!Place, Contract!Out
<1>4. CASE Active(c)
  BY <1>1, <1>2, <1>4, PlaceCases DEF Contract!Place, Contract!Out
<1>5. CASE ~Live(c)
  BY <1>1, <1>2, <1>5, PlaceCases DEF Contract!Place, Contract!Out
<1>6. QED
  BY <1>3, <1>4, <1>5, PlaceCases

\* A call's place depends on its record, its hold and the clock only.
LEMMA SamePlace ==
  ASSUME NEW c \in Calls, lease'[c] = lease[c], hold'[c] = hold[c], now' = now
  PROVE  PlaceOf(c)' = PlaceOf(c)
BY DEF PlaceOf, Live, Held

LEMMA ServingAreOccupants ==
  ASSUME AdmissionAssumption, StoreInv, NEW w \in Workers
  PROVE  Contract!Serving(w) = Occupants(w)
<1>1. ASSUME NEW c \in Calls
      PROVE  /\ Places[c].kind \in {"claimed", "active"} /\ Places[c].worker = w
                <=> Live(c) /\ w \in ScopeKeys[c] \cup {lease[c].worker}
  <2>1. w \notin ScopeKeys[c]
    BY DEF AdmissionAssumption
  <2>2. Places[c] = PlaceOf(c)
    BY DEF Places
  <2>3. QED
    BY <2>1, <2>2, PlaceKind, PlaceCases DEF Claimed, Active
<1>2. Contract!Serving(w) =
        {c \in Calls : Places[c].kind \in {"claimed", "active"} /\ Places[c].worker = w}
  BY DEF Contract!Serving, Contract!OfKind, Places
<1>3. QED
  BY <1>1, <1>2 DEF Occupants

LEMMA TakenAreRecoverable ==
  ASSUME StoreInv, NEW k \in SharedKeys
  PROVE  Contract!Taken(k) = Recoverable(k)
<1>1. ASSUME NEW c \in Calls
      PROVE  Places[c] # Contract!Out <=> Live(c) \/ Held(c)
  BY PlaceKind DEF Places
<1>2. QED
  BY <1>1 DEF Contract!Taken, Recoverable, Places

\* The contract counts as the store does.
LEMMA SameCardinality == ASSUME NEW S PROVE Contract!Cardinality(S) = Cardinality(S)
BY DEF Cardinality, Contract!Cardinality

\* A worker whose counter is not full has room in the contract.
LEMMA WorkerHasRoom ==
  ASSUME AdmissionAssumption, StoreInv, NEW w \in Workers, ~Full(w)
  PROVE  Cardinality(Contract!Serving(w)) < Limit[w]
BY NotFullHasRoom, ServingAreOccupants DEF Keys

-----------------------------------------------------------------------------
(* The steps *)

\* A step that changes the place of c alone is the EXCEPT of the contract.
LEMMA OnePlace ==
  ASSUME NEW c \in Calls, NEW p, PlaceOf(c)' = p,
         \A d \in Calls : d # c => PlaceOf(d)' = PlaceOf(d)
  PROVE  Places' = [Places EXCEPT ![c] = p]
BY DEF Places

LEMMA CreatedIsAdmit ==
  ASSUME AdmissionAssumption, StoreInv, StoreInv', NEW c \in Calls, NEW w \in Workers,
         Created(c, w)
  PROVE  Contract!Admit(c, w)
<1>1. ~Live(c) /\ ~Held(c)
  BY DEF StoreInv, HoldsMature, Created, ReserveCreated, RecoveryPending, Matured
<1>2. Places[c] = Contract!Out
  BY <1>1, PlaceCases DEF Places
<1>3. Contract!OfKind("lapsed") = {}
  <2>1. ASSUME NEW d \in Calls
        PROVE  PlaceOf(d).kind # "lapsed"
    BY PlaceKind DEF StoreInv, HoldsMature, Created, ReserveCreated, RecoveryPending, Matured
  <2>2. QED
    BY <2>1 DEF Contract!OfKind
<1>4. ASSUME NEW k \in ScopeKeys[c]
      PROVE  Cardinality(Contract!Taken(k)) < Limit[k]
  <2>1. k \in SharedKeys
    BY DEF AdmissionAssumption
  <2>2. Cardinality(Occupants(k)) < Limit[k]
    BY <2>1, NotFullHasRoom DEF Created, ReserveCreated, Keys
  <2>3. QED
    BY <2>1, <2>2, NothingPending, TakenAreRecoverable DEF Created, ReserveCreated
<1>5. Cardinality(Contract!Serving(w)) < Limit[w]
  BY WorkerHasRoom DEF Created, ReserveCreated
<1>6. /\ now' = now /\ hold' = hold
      /\ \A d \in Calls : d # c => lease'[d] = lease[d]
      /\ lease'[c] = [state |-> "claim", worker |-> w, expires |-> now + ClaimTtl, epoch |-> 0]
  BY DEF StoreInv, TypeOK, Created, ReserveCreated
<1>7. Claimed(c)'
  <2>1. now \in Nat /\ ClaimTtl \in Nat /\ ClaimTtl > 0
    BY DEF StoreInv, TypeOK, AdmissionAssumption
  <2>2. QED
    BY <1>6, <2>1 DEF Claimed, Live
<1>8. PlaceOf(c)' = Contract!Place("claimed", w, 0)
  BY <1>6, <1>7 DEF PlaceOf, Claimed, Contract!Place
<1>9. Places' = [Places EXCEPT ![c] = Contract!Place("claimed", w, 0)]
  BY <1>6, <1>8, SamePlace, OnePlace
<1>10. QED
  BY <1>2, <1>3, <1>4, <1>5, <1>9, SameCardinality DEF Contract!Admit, Places

LEMMA GrantedIsContract ==
  ASSUME AdmissionAssumption, StoreInv, NEW c \in Calls, NEW w \in Workers,
         NEW epoch \in Nat, Granted(c, w, epoch)
  PROVE  Contract!Start(c, w) \/ Contract!Resume(c) \/ Places' = Places
<1>1. /\ now' = now
      /\ \A d \in Calls : d # c => lease'[d] = lease[d] /\ hold'[d] = hold[d]
      /\ lease'[c] = [state |-> "active", worker |-> w, expires |-> now + ActiveTtl,
                      epoch |-> epoch]
  BY DEF StoreInv, TypeOK, Granted, GrantLease, PutHold
<1>2. Live(c)'
  <2>1. now \in Nat /\ ActiveTtl \in Nat /\ ActiveTtl > 0
    BY DEF StoreInv, TypeOK, AdmissionAssumption
  <2>2. QED
    BY <1>1, <2>1 DEF Live
<1>3. PlaceOf(c)' = Contract!Place("active", w, epoch)
  BY <1>1, <1>2 DEF PlaceOf, Contract!Place
<1>4. Places' = [Places EXCEPT ![c] = Contract!Place("active", w, epoch)]
  BY <1>1, <1>3, SamePlace, OnePlace
<1>5. Places[c] = PlaceOf(c)
  BY DEF Places
<1>6. CASE Claimed(c) /\ epoch = 1 /\ (lease[c].worker = w \/ ~Full(w))
  <2>1. Places[c].kind = "claimed" /\ Places[c].worker = lease[c].worker
    BY <1>5, <1>6, PlaceCases DEF Contract!Place
  <2>2. Places[c].worker = w \/ Cardinality(Contract!Serving(w)) < Limit[w]
    BY <1>6, <2>1, WorkerHasRoom
  <2>3. Contract!Start(c, w)
    BY <1>4, <1>6, <2>1, <2>2, SameCardinality DEF Contract!Start, Places
  <2>4. QED
    BY <2>3
<1>7. CASE Active(c) /\ lease[c].worker = w /\ lease[c].epoch = epoch
  <2>1. Places[c] = Contract!Place("active", w, epoch)
    BY <1>5, <1>7, PlaceCases
  <2>2. Places' = Places
    BY <1>4, <2>1 DEF Places
  <2>3. QED
    BY <2>2
<1>8. CASE ~Live(c) /\ RecoveryOwner(c, w) /\ hold[c].epoch + 1 = epoch /\ ~Full(w)
  <2>1. Places[c] = Contract!Place("lapsed", w, hold[c].epoch)
    BY <1>5, <1>8, PlaceCases DEF RecoveryOwner
  <2>2. Cardinality(Contract!Serving(w)) < Limit[w]
    BY <1>8, WorkerHasRoom
  <2>3. Places[c].kind = "lapsed" /\ Places[c].worker = w /\ Places[c].epoch + 1 = epoch
    BY <1>8, <2>1 DEF Contract!Place
  <2>4. Contract!Resume(c)
    BY <1>4, <2>2, <2>3, SameCardinality DEF Contract!Resume, Places
  <2>5. QED
    BY <2>4
<1>9. QED
  BY <1>6, <1>7, <1>8 DEF Granted, MayGrant

\* A command changes the places as the contract allows.
LEMMA EffectContract ==
  ASSUME AdmissionAssumption, StoreInv, StoreInv', NEW c \in Calls, NEW w \in Workers,
         Effect(c, w)
  PROVE  Contract!Next \/ Places' = Places
<1>1. CASE UNCHANGED vars
  <2>1. \A d \in Calls : PlaceOf(d)' = PlaceOf(d)
    BY <1>1, SamePlace DEF vars
  <2>2. QED
    BY <2>1 DEF Places
<1>2. CASE Created(c, w)
  BY <1>2, CreatedIsAdmit DEF Contract!Next
<1>3. ASSUME NEW epoch \in Nat, Granted(c, w, epoch)
      PROVE  Contract!Next \/ Places' = Places
  BY <1>3, GrantedIsContract DEF Contract!Next
<1>4. CASE HoldKept(c)
  <2>1. hold' = hold
    BY <1>4 DEF StoreInv, TypeOK, LeaseHasHold, HoldKept, PutHold
  <2>2. \A d \in Calls : PlaceOf(d)' = PlaceOf(d)
    BY <1>4, <2>1, SamePlace DEF HoldKept
  <2>3. QED
    BY <2>2 DEF Places
<1>5. CASE HoldExtended(c)
  <2>1. /\ now' = now /\ lease' = lease
        /\ \A d \in Calls : d # c => hold'[d] = hold[d]
        /\ hold'[c] = [start |-> now, until |-> now + ActiveTtl,
                       owner |-> hold[c].owner, epoch |-> hold[c].epoch]
    BY <1>5 DEF StoreInv, TypeOK, HoldExtended, PutHold
  <2>2. Held(c)' /\ Held(c) /\ ~Live(c) /\ ~Live(c)'
    <3>1. now \in Nat /\ ActiveTtl \in Nat /\ ActiveTtl > 0
      BY DEF StoreInv, TypeOK, AdmissionAssumption
    <3>2. QED
      BY <1>5, <2>1, <3>1 DEF Held, Live, HoldExtended
  <2>3. PlaceOf(c)' = PlaceOf(c)
    BY <2>1, <2>2 DEF PlaceOf
  <2>4. \A d \in Calls : PlaceOf(d)' = PlaceOf(d)
    BY <2>1, <2>3, SamePlace
  <2>5. QED
    BY <2>4 DEF Places
<1>6. CASE Drop(c)
  <2>1. /\ now' = now /\ now \in Nat
        /\ \A d \in Calls : d # c => lease'[d] = lease[d] /\ hold'[d] = hold[d]
        /\ lease'[c].expires = 0 /\ hold'[c].until = 0
    BY <1>6 DEF StoreInv, TypeOK, Drop, NoLease, NoHold
  <2>2. PlaceOf(c)' = Contract!Out
    BY <2>1 DEF PlaceOf, Live, Held, Contract!Out
  <2>3. Places' = [Places EXCEPT ![c] = Contract!Out]
    BY <2>1, <2>2, SamePlace, OnePlace
  <2>4. CASE Places[c] = Contract!Out
    BY <2>3, <2>4 DEF Places
  <2>5. CASE Places[c] # Contract!Out
    <3>1. Contract!Leave(c)
      BY <2>3, <2>5 DEF Contract!Leave, Places
    <3>2. QED
      BY <3>1 DEF Contract!Next
  <2>6. QED
    BY <2>4, <2>5
<1>7. QED
  BY <1>1, <1>2, <1>3, <1>4, <1>5, <1>6 DEF Effect

\* A tick makes the leases that run out lapse, and drops the claims and the
\* holds that do.
LEMMA TickContract ==
  ASSUME AdmissionAssumption, StoreInv, StoreInv', Tick
  PROVE  Contract!Next
<1> DEFINE lapsing == {c \in Calls : Active(c) /\ ~Live(c)'}
           leaving == {c \in Calls : /\ Claimed(c) \/ (~Live(c) /\ Held(c))
                                     /\ ~Live(c)' /\ ~Held(c)'}
<1>1. now \in Nat /\ now' = now + 1
  BY DEF StoreInv, TypeOK, Tick
<1>2. ASSUME NEW c \in Calls
      PROVE  PlaceOf(c)' = IF c \in lapsing THEN [PlaceOf(c) EXCEPT !.kind = "lapsed"]
                           ELSE IF c \in leaving THEN Contract!Out ELSE PlaceOf(c)
  <2>1. /\ lease'[c] = IF lease[c].expires > now' THEN lease[c] ELSE NoLease
        /\ hold'[c] = IF hold[c].until > now' THEN hold[c] ELSE NoHold
        /\ lease[c].expires \in Nat /\ hold[c].until \in Nat
    BY DEF StoreInv, TypeOK, LeaseRecord, HoldRecord, Tick
  <2>2. /\ Live(c)' => Live(c) /\ lease'[c] = lease[c]
        /\ Held(c)' => Held(c) /\ hold'[c] = hold[c]
    BY <1>1, <2>1 DEF Live, Held, NoLease, NoHold
  <2>3. CASE Live(c)'
    BY <2>2, <2>3 DEF PlaceOf
  <2>4. CASE ~Live(c)' /\ Active(c)
    <3>1. hold[c] = [start |-> lease[c].expires, until |-> lease[c].expires + ActiveTtl,
                     owner |-> lease[c].worker, epoch |-> lease[c].epoch]
      BY <2>4 DEF StoreInv, LeaseHasHold
    <3>2. Held(c)'
      <4>1. ActiveTtl \in Nat /\ ActiveTtl > 0 /\ lease[c].expires > now
        BY <2>4 DEF AdmissionAssumption, Active, Live
      <4>2. hold[c].until > now'
        BY <1>1, <2>1, <3>1, <4>1
      <4>3. QED
        BY <2>1, <4>2 DEF Held
    <3>3. PlaceOf(c)' = Contract!Place("lapsed", lease[c].worker, lease[c].epoch)
      BY <2>2, <2>4, <3>1, <3>2 DEF PlaceOf, Contract!Place
    <3>4. PlaceOf(c) = Contract!Place("active", lease[c].worker, lease[c].epoch)
      BY <2>4, PlaceCases
    <3>5. QED
      BY <2>4, <3>3, <3>4 DEF Contract!Place
  <2>5. CASE ~Live(c)' /\ Claimed(c)
    <3>1. ~Held(c)' /\ ~Active(c)
      BY <2>2, <2>5 DEF StoreInv, LeaseHasHold, Claimed, Active
    <3>2. PlaceOf(c)' = Contract!Out
      BY <2>5, <3>1 DEF PlaceOf, Contract!Out
    <3>3. QED
      BY <2>5, <3>1, <3>2
  <2>6. CASE ~Live(c)
    <3>1. ~Live(c)' /\ ~Active(c) /\ ~Claimed(c)
      BY <2>2, <2>6 DEF Active, Claimed
    <3>2. CASE Held(c)'
      BY <2>2, <2>6, <3>1, <3>2 DEF PlaceOf
    <3>3. CASE ~Held(c)' /\ Held(c)
      BY <2>6, <3>1, <3>3 DEF PlaceOf, Contract!Out
    <3>4. CASE ~Held(c)' /\ ~Held(c)
      BY <2>6, <3>1, <3>4 DEF PlaceOf
    <3>5. QED
      BY <3>2, <3>3, <3>4
  <2>7. QED
    BY <2>3, <2>4, <2>5, <2>6, PlaceCases
<1>3. lapsing \subseteq Contract!OfKind("active")
  BY PlaceKind DEF Contract!OfKind
<1>4. leaving \subseteq Contract!OfKind("claimed") \cup Contract!OfKind("lapsed")
  BY PlaceKind DEF Contract!OfKind
<1>5. Contract!Expire(lapsing, leaving)
  BY <1>2, <1>3, <1>4 DEF Contract!Expire
<1>6. lapsing \in SUBSET Calls /\ leaving \in SUBSET Calls
  OBVIOUS
<1>7. QED
  BY <1>5, <1>6 DEF Contract!Next

\* The store implements the contract: every initial state is one with no place
\* taken, and every script and every tick changes the places as one action of
\* the contract does, or not at all.
THEOREM StoreImplementsContract == Spec => ContractKept
<1>1. AdmissionAssumption /\ Init => Contract!Init
  <2>1. SUFFICES ASSUME Init
                 PROVE  \A c \in Calls : PlaceOf(c) = Contract!Out
    BY DEF Contract!Init
  <2>2. \A c \in Calls : ~Live(c) /\ ~Held(c)
    BY <2>1 DEF Init, Live, Held, NoLease, NoHold
  <2>3. QED
    BY <2>2 DEF PlaceOf, Contract!Out
<1>2. AdmissionInv /\ AdmissionInv' /\ [Next]_vars => [Contract!Next]_Places
  <2>1. SUFFICES ASSUME AdmissionInv, AdmissionInv', [Next]_vars
                 PROVE  Contract!Next \/ Places' = Places
    OBVIOUS
  <2>2. StoreInv /\ StoreInv'
    BY <2>1 DEF AdmissionInv
  <2>3. CASE Tick
    BY <2>2, <2>3, AdmissionAssumption, TickContract
  <2>4. ASSUME NEW c \in Calls, NEW w \in Workers, NEW out \in Outcomes, Command(c, w, out)
        PROVE  Contract!Next \/ Places' = Places
    <3>1. Effect(c, w)
      BY <2>2, <2>4, AdmissionAssumption, CommandEffects DEF StoreInv
    <3>2. QED
      BY <2>2, <3>1, AdmissionAssumption, EffectContract
  <2>5. CASE UNCHANGED vars
    <3>1. \A c \in Calls : PlaceOf(c)' = PlaceOf(c)
      BY <2>5, SamePlace DEF vars
    <3>2. QED
      BY <3>1 DEF Places
  <2>6. QED
    BY <2>1, <2>3, <2>4, <2>5 DEF Next
<1>3. QED
  BY <1>1, <1>2, AdmissionAssumption, AdmissionInvariant, PTL
     DEF Spec, ContractKept, Contract!Spec, Places
=============================================================================
