------------------- MODULE PstnAdmissionCoordinatorProofs -------------------
(***************************************************************************)
(* What the processes around the admission store guarantee together, for   *)
(* every number of calls, workers and stray commands, and every lease time.*)
(*                                                                         *)
(* StoreFit is what the store's own proofs establish of it.  SystemFit     *)
(* says that every command a process has sent, owes or left behind is one  *)
(* the store knows; it makes every step a step of the store or a stutter.  *)
(* BackInv is the argument for AuthorityBacked: what a process was         *)
(* answered and still counts on is in the store, because nobody has a      *)
(* release under way while somebody counts on the lease.  EndInv is the    *)
(* argument for EndedCallReleased: whatever the store still holds of a     *)
(* premium call that has been set up, a front process tracks as a claim or *)
(* owes a release for, and that release is stopped by no fence.            *)
(***************************************************************************)
EXTENDS PstnAdmissionCoordinator, TLAPS

Admission == INSTANCE PstnAdmissionProofs

StoreFit == Admission!StoreInv /\ Admission!EpochInv

Epochs == 1..(MaxTime + 1)

\* A command that can be sent: its worker and its fence are known to the store.
CommandFit(cmd, w, epoch) ==
  /\ cmd # "release" => w \in Workers
  /\ cmd = "renew" => epoch \in Epochs
  /\ cmd = "release" => epoch = 0 \/ (w \in Workers /\ epoch \in Epochs)

\* The answers that confirm a lease.
Confirming == {"activated", "existing", "renewed"}

-----------------------------------------------------------------------------
(* The store under the processes' commands *)

\* The store instantiated here and the one of the proofs are the same.
LEMMA SameAssumption == Admission!AdmissionAssumption
BY StoreAssumption
   DEF Store!AdmissionAssumption, Admission!AdmissionAssumption, Store!Keys, Admission!Keys,
       Store!IsFiniteSet, Admission!IsFiniteSet

LEMMA SameTick == Store!Tick => Admission!Tick
BY DEF Store!Tick, Admission!Tick, Store!NoLease, Admission!NoLease, Store!NoHold,
       Admission!NoHold, Store!Keys, Admission!Keys, Store!Refilled, Admission!Refilled,
       Store!Smaller, Admission!Smaller

LEMMA SameInit == Store!Init => Admission!Init
BY DEF Store!Init, Admission!Init, Store!NoLease, Admission!NoLease, Store!NoHold,
       Admission!NoHold, Store!Keys, Admission!Keys

LEMMA SameTypes == Store!TypeOK <=> Admission!TypeOK
BY DEF Store!TypeOK, Admission!TypeOK, Store!LeaseRecord, Admission!LeaseRecord,
       Store!HoldRecord, Admission!HoldRecord, Store!Keys, Admission!Keys

\* What the scripts read and write, under both names.
LEMMA SameReads ==
  ASSUME NEW c, NEW w, NEW ks, NEW expiry, NEW start, NEW epoch
  PROVE  /\ Store!Live(c) <=> Admission!Live(c)
         /\ Store!Claimed(c) <=> Admission!Claimed(c)
         /\ Store!Active(c) <=> Admission!Active(c)
         /\ Store!Held(c) <=> Admission!Held(c)
         /\ Store!Full(w) <=> Admission!Full(w)
         /\ Store!RecoveryPending <=> Admission!RecoveryPending
         /\ Store!RecoveryOwner(c, w) <=> Admission!RecoveryOwner(c, w)
         /\ Store!HasToken(c) <=> Admission!HasToken(c)
         /\ Store!Index(c, ks, expiry) <=> Admission!Index(c, ks, expiry)
         /\ Store!PutHold(c, start, w, epoch) <=> Admission!PutHold(c, start, w, epoch)
         /\ Store!GrantLease(c, w, epoch) <=> Admission!GrantLease(c, w, epoch)
         /\ Store!Drop(c) <=> Admission!Drop(c)
BY DEF Store!Live, Admission!Live, Store!Claimed, Admission!Claimed, Store!Active,
       Admission!Active, Store!Held, Admission!Held, Store!Full, Admission!Full,
       Store!Counted, Admission!Counted, Store!Cardinality, Admission!Cardinality,
       Store!RecoveryPending, Admission!RecoveryPending, Store!Matured, Admission!Matured,
       Store!RecoveryOwner, Admission!RecoveryOwner, Store!HasToken, Admission!HasToken,
       Store!Index, Admission!Index, Store!Keys, Admission!Keys,
       Store!PutHold, Admission!PutHold, Store!GrantLease, Admission!GrantLease,
       Store!Drop, Admission!Drop, Store!NoLease, Admission!NoLease, Store!NoHold, Admission!NoHold

LEMMA SameActivation ==
  ASSUME NEW c, NEW w, NEW out, Store!ActivateLive(c, w, out)
  PROVE  Admission!ActivateLive(c, w, out)
BY SameReads
   DEF Store!ActivateLive, Admission!ActivateLive, Store!ActivateClaim, Admission!ActivateClaim,
       Store!ActivateWorkerFull, Admission!ActivateWorkerFull, Store!ActivateForeign,
       Admission!ActivateForeign, Store!ActivateExisting, Admission!ActivateExisting,
       Store!vars, Admission!vars

LEMMA SameCommand ==
  ASSUME NEW c \in Calls, NEW w \in Workers, NEW out \in Store!Outcomes,
         Store!Command(c, w, out)
  PROVE  Admission!Command(c, w, out) /\ out \in Admission!Outcomes
<1>1. out \in Admission!Outcomes
  BY DEF Store!Outcomes, Admission!Outcomes
<1>2. CASE Store!Reserve(c, w, out)
  <2>1. Admission!Reserve(c, w, out)
    BY <1>2
       DEF Store!Reserve, Admission!Reserve, Store!ReserveExisting, Admission!ReserveExisting,
           Store!ReserveDenied, Admission!ReserveDenied, Store!ReserveCreated,
           Admission!ReserveCreated, Store!Live, Admission!Live, Store!Full, Admission!Full,
           Store!Counted, Admission!Counted, Store!Cardinality, Admission!Cardinality,
           Store!RecoveryPending, Admission!RecoveryPending, Store!Matured, Admission!Matured,
           Store!Held, Admission!Held, Store!HasToken, Admission!HasToken,
           Store!Index, Admission!Index, Store!Keys, Admission!Keys, Store!vars, Admission!vars
  <2>2. QED
    BY <1>1, <2>1 DEF Admission!Command
<1>3. CASE Store!Activate(c, w, out)
  <2>1. Admission!Activate(c, w, out)
    BY <1>3, SameActivation, SameReads
       DEF Store!Activate, Admission!Activate, Store!vars, Admission!vars
  <2>2. QED
    BY <1>1, <2>1 DEF Admission!Command
<1>4. CASE Store!Recover(c, w, out)
  <2>1. Admission!Recover(c, w, out)
    <3>1. CASE Store!ActivateLive(c, w, out)
      BY <3>1, SameActivation DEF Admission!Recover
    <3>2. CASE Store!RecoverRefused(c, w, out)
      BY <3>2, SameReads DEF Store!RecoverRefused, Admission!RecoverRefused, Admission!Recover,
                             Store!vars, Admission!vars
    <3>3. CASE Store!RecoverFull(c, w, out)
      BY <3>3, SameReads DEF Store!RecoverFull, Admission!RecoverFull, Admission!Recover
    <3>4. CASE Store!RecoverGranted(c, w, out)
      BY <3>4, SameReads DEF Store!RecoverGranted, Admission!RecoverGranted, Admission!Recover
    <3>5. QED
      BY <1>4, <3>1, <3>2, <3>3, <3>4 DEF Store!Recover
  <2>2. QED
    BY <1>1, <2>1 DEF Admission!Command
<1>5. CASE Store!Release(c, out)
  <2>1. Admission!Release(c, out)
    BY <1>5, SameReads DEF Store!Release, Admission!Release
  <2>2. QED
    BY <1>1, <2>1 DEF Admission!Command
<1>6. ASSUME NEW epoch \in Epochs, Store!Renew(c, w, epoch, out)
      PROVE  Admission!Renew(c, w, epoch, out)
  BY <1>6, SameReads
     DEF Store!Renew, Admission!Renew, Store!RenewRefused, Admission!RenewRefused,
         Store!RenewGranted, Admission!RenewGranted, Store!vars, Admission!vars
<1>7. ASSUME NEW epoch \in Epochs, Store!ReleaseFenced(c, w, epoch, out)
      PROVE  Admission!ReleaseFenced(c, w, epoch, out)
  BY <1>7, SameReads
     DEF Store!ReleaseFenced, Admission!ReleaseFenced, Store!vars, Admission!vars
<1>8. QED
  BY <1>1, <1>2, <1>3, <1>4, <1>5, <1>6, <1>7 DEF Store!Command, Admission!Command, Epochs

LEMMA ExecuteIsCommand ==
  ASSUME Workers # {}, NEW c \in Calls, NEW cmd \in Commands, NEW w, NEW epoch,
         CommandFit(cmd, w, epoch), NEW out \in Store!Outcomes, Execute(c, cmd, w, epoch, out)
  PROVE  \E v \in Workers : Store!Command(c, v, out)
<1>1. CASE cmd # "release"
  <2>1. w \in Workers
    BY <1>1 DEF CommandFit
  <2>2. cmd = "renew" => epoch \in 1..(MaxTime + 1)
    BY DEF CommandFit, Epochs
  <2>3. Store!Command(c, w, out)
    BY <1>1, <2>2 DEF Execute, Store!Command
  <2>4. QED
    BY <2>1, <2>3
<1>2. CASE cmd = "release" /\ epoch = 0
  <2>1. Store!Release(c, out)
    BY <1>2 DEF Execute
  <2>2. QED
    BY <2>1 DEF Store!Command
<1>3. CASE cmd = "release" /\ epoch # 0
  <2>1. w \in Workers /\ epoch \in 1..(MaxTime + 1)
    BY <1>3 DEF CommandFit, Epochs
  <2>2. Store!ReleaseFenced(c, w, epoch, out)
    BY <1>3 DEF Execute
  <2>3. QED
    BY <2>1, <2>2 DEF Store!Command
<1>4. QED
  BY <1>1, <1>2, <1>3

LEMMA StoreTypes ==
  ASSUME StoreFit
  PROVE  /\ now \in Nat
         /\ lease \in [Calls -> [state : {"none", "claim", "active"},
                                 worker : Workers \cup {NoWorker}, expires : Nat, epoch : Nat]]
         /\ ActiveTtl \in Nat /\ ActiveTtl > 0 /\ MaxTime \in Nat /\ NoWorker \notin Workers
BY SameAssumption
   DEF StoreFit, Admission!StoreInv, Admission!TypeOK, Admission!LeaseRecord,
       Admission!AdmissionAssumption, Admission!Keys

\* A script keeps the store fit, and touches no other call.
LEMMA ExecuteKeepsStore ==
  ASSUME StoreFit, Workers # {}, NEW c \in Calls, NEW cmd \in Commands, NEW w, NEW epoch,
         CommandFit(cmd, w, epoch), NEW out \in Store!Outcomes, Execute(c, cmd, w, epoch, out)
  PROVE  /\ StoreFit' /\ Store!Next /\ now' = now
         /\ \A d \in Calls : d # c => lease'[d] = lease[d]
<1>1. PICK v \in Workers : Store!Command(c, v, out)
  BY ExecuteIsCommand
<1>2. Admission!Command(c, v, out) /\ out \in Admission!Outcomes
  BY <1>1, SameCommand
<1>3. Admission!TypeOK /\ Admission!StoreInv /\ Admission!EpochInv
  BY DEF StoreFit, Admission!StoreInv
<1>4. Admission!Effect(c, v)
  BY <1>2, <1>3, SameAssumption, Admission!CommandEffects
<1>5. StoreFit'
  BY <1>3, <1>4, SameAssumption, Admission!EffectStoreInv, Admission!EffectEpochs DEF StoreFit
<1>6. Store!Next
  BY <1>1 DEF Store!Next
<1>7. now' = now /\ \A d \in Calls : d # c => lease'[d] = lease[d]
  BY <1>4, StoreTypes
     DEF Admission!Effect, Admission!vars, Admission!Created, Admission!ReserveCreated,
         Admission!Granted, Admission!GrantLease, Admission!HoldKept, Admission!HoldExtended,
         Admission!Drop
<1>8. QED
  BY <1>5, <1>6, <1>7

LEMMA TickKeepsStore ==
  ASSUME StoreFit, Store!Tick
  PROVE  StoreFit' /\ Store!Next
<1>1. Admission!Tick
  BY SameTick
<1>2. StoreFit'
  BY <1>1, SameAssumption, Admission!TickStoreInv, Admission!TickEpochs DEF StoreFit
<1>3. QED
  BY <1>2 DEF Store!Next

LEMMA InitStore ==
  ASSUME Store!Init
  PROVE  StoreFit
BY SameInit, SameAssumption, Admission!InitInv, Admission!InitEpochs
   DEF StoreFit, Admission!AdmissionInv

\* EpochRange of the next state.
LEMMA NextEpochs ==
  ASSUME StoreFit', NEW c \in Calls, Admission!Active(c)'
  PROVE  lease'[c].epoch \in Epochs
<1>1. /\ hold'[c].start = lease'[c].expires /\ hold'[c].epoch = lease'[c].epoch
      /\ hold'[c].until = lease'[c].expires + ActiveTtl
  <2>1. hold'[c] = [start |-> lease'[c].expires, until |-> lease'[c].expires + ActiveTtl,
                    owner |-> lease'[c].worker, epoch |-> lease'[c].epoch]
    BY DEF StoreFit, Admission!StoreInv, Admission!LeaseHasHold
  <2>2. QED
    BY <2>1
<1>2. /\ now' \in Nat /\ lease'[c].expires \in Nat /\ lease'[c].epoch \in Nat
      /\ ActiveTtl \in Nat /\ ActiveTtl > 0 /\ MaxTime \in Nat
  BY SameAssumption
     DEF StoreFit, Admission!StoreInv, Admission!TypeOK, Admission!LeaseRecord,
         Admission!AdmissionAssumption
<1>3. Admission!Held(c)' /\ lease'[c].expires <= now' + ActiveTtl /\ now' <= MaxTime
  BY <1>1, <1>2 DEF StoreFit, Admission!EpochInv, Admission!Active, Admission!Live, Admission!Held
<1>4. lease'[c].epoch >= 1 /\ lease'[c].epoch + ActiveTtl <= lease'[c].expires + 1
  BY <1>1, <1>3 DEF StoreFit, Admission!EpochInv
<1>5. QED
  BY <1>2, <1>3, <1>4 DEF Epochs

\* A confirming answer names an active lease of the worker it was sent for, with
\* an epoch a fence can name; a renewal is confirmed under its own epoch.
LEMMA ExecuteConfirms ==
  ASSUME StoreFit, StoreFit', now' = now, NEW c \in Calls, NEW cmd \in Commands, NEW w,
         NEW epoch, NEW out \in Confirming, cmd # "reserve", Execute(c, cmd, w, epoch, out)
  PROVE  /\ lease'[c].state = "active" /\ lease'[c].worker = w
         /\ lease'[c].epoch \in Epochs
         /\ cmd = "renew" => lease'[c].epoch = epoch
<1>1. CASE \E e : Store!GrantLease(c, w, e) /\ (cmd = "renew" => e = epoch)
  <2>1. PICK e : Store!GrantLease(c, w, e) /\ (cmd = "renew" => e = epoch)
    BY <1>1
  <2>2. lease'[c] = [state |-> "active", worker |-> w, expires |-> now + ActiveTtl, epoch |-> e]
    BY <2>1, StoreTypes DEF Store!GrantLease
  <2>3. Admission!Active(c)'
    BY <2>2, StoreTypes DEF Admission!Active, Admission!Live
  <2>4. lease'[c].epoch \in Epochs
    BY <2>3, NextEpochs
  <2>5. QED
    BY <2>1, <2>2, <2>4
<1>2. CASE Store!ActivateExisting(c, w, out) /\ cmd # "renew"
  <2>1. Store!Active(c) /\ lease[c].worker = w /\ lease' = lease
    BY <1>2 DEF Store!ActivateExisting
  <2>2. Admission!Active(c)
    BY <2>1, SameReads
  <2>3. lease[c].epoch \in Epochs
    BY <2>2, SameAssumption, Admission!EpochRange DEF StoreFit, Epochs
  <2>4. QED
    BY <1>2, <2>1, <2>3 DEF Store!Active
<1>3. QED
  <2>1. out \notin {"released", "not_found", "not_owner", "denied"}
    BY DEF Confirming
  <2>2. cmd # "release"
    BY <2>1 DEF Execute, Store!Release, Store!ReleaseFenced
  <2>3. CASE cmd = "renew"
    <3>1. Store!RenewGranted(c, w, epoch, out)
      BY <2>1, <2>3 DEF Execute, Store!Renew, Store!RenewRefused
    <3>2. QED
      BY <1>1, <3>1 DEF Store!RenewGranted
  <2>4. CASE cmd \in {"activate", "recover"}
    <3>1. \/ Store!ActivateClaim(c, w, out) \/ Store!ActivateExisting(c, w, out)
          \/ Store!RecoverGranted(c, w, out)
      BY <2>1, <2>4
         DEF Execute, Store!Activate, Store!Recover, Store!ActivateLive, Store!ActivateWorkerFull,
             Store!ActivateForeign, Store!RecoverRefused, Store!RecoverFull
    <3>2. QED
      BY <1>1, <1>2, <2>4, <3>1 DEF Store!ActivateClaim, Store!RecoverGranted
  <2>5. QED
    BY <2>2, <2>3, <2>4 DEF Commands

\* A live active lease outlives every command that is not a release.
LEMMA ExecuteExtends ==
  ASSUME StoreFit, NEW c \in Calls, NEW cmd \in Commands \ {"release"}, NEW w, NEW epoch,
         NEW out, Execute(c, cmd, w, epoch, out),
         lease[c].state = "active", lease[c].expires > now
  PROVE  /\ lease'[c].state = "active" /\ lease'[c].worker = lease[c].worker
         /\ lease'[c].epoch = lease[c].epoch /\ lease'[c].expires >= lease[c].expires
<1>1. Store!Active(c) /\ Store!Live(c) /\ ~Store!Claimed(c) /\ lease[c].expires \in Nat
  BY StoreTypes DEF Store!Active, Store!Live, Store!Claimed
<1>2. CASE lease' = lease
  BY <1>1, <1>2
<1>3. CASE cmd = "reserve"
  BY <1>1, <1>2, <1>3
     DEF Execute, Store!Reserve, Store!ReserveExisting, Store!ReserveDenied,
         Store!ReserveCreated, Store!vars
<1>4. CASE Store!ActivateLive(c, w, out)
  BY <1>1, <1>2, <1>4
     DEF Store!ActivateLive, Store!ActivateClaim, Store!ActivateWorkerFull,
         Store!ActivateForeign, Store!ActivateExisting, Store!vars
<1>5. CASE cmd = "activate"
  BY <1>1, <1>4, <1>5 DEF Execute, Store!Activate
<1>6. CASE cmd = "recover"
  BY <1>1, <1>4, <1>6
     DEF Execute, Store!Recover, Store!RecoverRefused, Store!RecoverFull, Store!RecoverGranted
<1>7. CASE cmd = "renew"
  <2>1. CASE Store!RenewRefused(c, w, epoch, out)
    BY <1>2, <2>1 DEF Store!RenewRefused, Store!vars
  <2>2. CASE Store!RenewGranted(c, w, epoch, out)
    <3>1. /\ lease'[c] = [state |-> "active", worker |-> w, expires |-> now + ActiveTtl,
                          epoch |-> epoch]
          /\ lease[c].worker = w /\ lease[c].epoch = epoch
      BY <2>2, StoreTypes DEF Store!RenewGranted, Store!GrantLease
    <3>2. lease[c].expires <= now + ActiveTtl
      BY <1>1, SameReads DEF StoreFit, Admission!EpochInv
    <3>3. QED
      BY <3>1, <3>2
  <2>3. QED
    BY <1>7, <2>1, <2>2 DEF Execute, Store!Renew
<1>8. QED
  BY <1>3, <1>5, <1>6, <1>7 DEF Commands

-----------------------------------------------------------------------------
(* A process and a call *)

SessionRecord == [stage : {"new", "open", "ended"}, worker : MaybeWorker,
                  owner : MaybeWorker, fence : Nat, over : BOOLEAN,
                  webhooks : 0..MaxWebhooks]

SystemTypes ==
  /\ call \in [Calls -> SessionRecord]
  /\ tracked \in [Workers -> [Calls -> TrackedRecord]]
  /\ unresolved \in [Workers -> SUBSET Calls]
  /\ pending \in [Workers -> [Calls -> PendingRecord]]
  /\ rpc \in [Workers -> [Calls -> [Slots -> RpcRecord]]]
  /\ media \in [Workers -> SUBSET Calls]
  /\ stray \subseteq StrayRecord
  /\ crashed \subseteq Workers

CommandsOf(s) == IF s = "renew" THEN {"renew", "recover"} ELSE {s}

\* An answer that confirmed a lease carries its epoch.
Confirmed(r) ==
  r.stage \in {"answered", "confirming"} /\ r.cmd # "reserve" /\ r.out \in Confirming

SlotFit(s, r) ==
  \/ r = Idle
  \/ /\ r.stage # "idle" /\ r.cmd \in CommandsOf(s)
     /\ r.cmd # "release" => r.worker \in Workers
     /\ r.stage = "sent" => CommandFit(r.cmd, r.worker, r.epoch)
     /\ Confirmed(r) => r.epoch \in Epochs

\* A renewal under way for the tracked entry is about the lease of that entry.
RenewalFit(t, r) ==
  r # Idle /\ r.mine =>
    /\ t.state = "active" /\ r.worker = t.worker
    /\ r.cmd = "renew" /\ (r.stage = "sent" \/ r.out = "renewed") => r.epoch = t.epoch

\* t, o and slots are what a process tracks of a call, owes it and awaits for it.
\* Once a lease is tracked the activation that brought it has been answered.
ProcessFit(t, o, slots) ==
  /\ t \in TrackedRecord /\ o \in PendingRecord /\ slots \in [Slots -> RpcRecord]
  /\ t.state # "none" => t.worker \in Workers
  /\ t.state = "active" => t.epoch \in Epochs /\ slots["activate"].stage \in {"idle", "confirming"}
  /\ t.lost => t.state = "active"
  /\ CommandFit("release", o.worker, o.epoch)
  /\ \A s \in Slots : SlotFit(s, slots[s])
  /\ RenewalFit(t, slots["renew"])

\* What is counted on until "until" is in the store, whose record of the call is
\* l and whose clock stands at "at".
Backs(l, at, w, epoch, until) ==
  until > at =>
    /\ l.state = "active" /\ l.worker = w /\ l.epoch = epoch /\ l.expires >= until

\* The answer of a slot that the process will count on when it goes on.
Promising(r) == r.stage = "answered" /\ r.cmd # "reserve" /\ r.out \in Confirming

Sound(l, at, t, slots) ==
  /\ Held(t) => Backs(l, at, t.worker, t.epoch, t.deadline)
  /\ LET r == slots["activate"]
     IN Promising(r) => Backs(l, at, r.worker, r.epoch, r.expires)
  /\ LET r == slots["renew"]
     IN Promising(r) /\ r.mine /\ ~t.lost => Backs(l, at, r.worker, r.epoch, r.expires)

LEMMA IdleFacts ==
  /\ Idle \in RpcRecord /\ ~Promising(Idle) /\ ~Confirmed(Idle)
  /\ Idle.stage = "idle" /\ Idle.mine = TRUE /\ \A s : SlotFit(s, Idle)
  /\ \A t : RenewalFit(t, Idle)
BY DEF Idle, RpcRecord, MaybeWorker, Promising, Confirmed, SlotFit, RenewalFit

LEMMA RequestFacts ==
  ASSUME NEW cmd \in Commands, NEW w \in MaybeWorker, NEW epoch \in Nat
  PROVE  /\ Request(cmd, w, epoch) \in RpcRecord /\ ~Promising(Request(cmd, w, epoch))
         /\ Request(cmd, w, epoch).stage = "sent" /\ Request(cmd, w, epoch).mine = TRUE
         /\ Request(cmd, w, epoch).cmd = cmd /\ Request(cmd, w, epoch).worker = w
         /\ Request(cmd, w, epoch).epoch = epoch /\ Request(cmd, w, epoch) # Idle
BY DEF Idle, RpcRecord, Request, Promising, MaybeWorker

LEMMA RequestFits ==
  ASSUME NEW s \in Slots, NEW cmd \in Commands, cmd \in CommandsOf(s), NEW w \in MaybeWorker,
         NEW epoch \in Nat, CommandFit(cmd, w, epoch)
  PROVE  SlotFit(s, Request(cmd, w, epoch))
<1> DEFINE r == Request(cmd, w, epoch)
<1>1. r.stage = "sent" /\ r.cmd = cmd /\ r.worker = w /\ r.epoch = epoch
  BY DEF Request, Idle
<1> HIDE DEF r
<1>2. ~Confirmed(r) /\ (r.cmd # "release" => r.worker \in Workers)
  BY <1>1 DEF Confirmed, CommandFit
<1>3. SlotFit(s, r)
  BY <1>1, <1>2 DEF SlotFit
<1>4. QED
  BY <1>3 DEF r

LEMMA SlotsDiffer ==
  /\ "reserve" \in Slots /\ "activate" \in Slots /\ "renew" \in Slots /\ "release" \in Slots
  /\ Slots \subseteq Commands
BY DEF Slots, Commands

\* A handler that returns leaves the rest as it is.
LEMMA ParkFits ==
  ASSUME NEW t, NEW o, NEW slots, ProcessFit(t, o, slots), NEW s \in Slots
  PROVE  /\ ProcessFit(t, o, [slots EXCEPT ![s] = Idle])
         /\ \A l, at : Sound(l, at, t, slots) => Sound(l, at, t, [slots EXCEPT ![s] = Idle])
BY IdleFacts, SlotsDiffer DEF ProcessFit, Sound

\* The entry of the map is replaced: the renewal under way no longer holds it.
LEMMA DetachedFacts ==
  ASSUME NEW slots \in [Slots -> RpcRecord]
  PROVE  /\ Detached(slots) \in [Slots -> RpcRecord]
         /\ \A s \in Slots \ {"renew"} : Detached(slots)[s] = slots[s]
         /\ slots["renew"] = Idle => Detached(slots)["renew"] = Idle
         /\ slots["renew"] # Idle => /\ Detached(slots)["renew"] = [slots["renew"] EXCEPT !.mine = FALSE]
                                     /\ ~Detached(slots)["renew"].mine
         /\ SlotFit("renew", slots["renew"]) => SlotFit("renew", Detached(slots)["renew"])
         /\ \A t : RenewalFit(t, Detached(slots)["renew"])
<1>1. /\ slots["renew"] = Idle => [slots["renew"] EXCEPT !.mine = TRUE] = Idle
      /\ slots["renew"] \in RpcRecord
  <2>1. \A r \in RpcRecord : r.mine = TRUE => [r EXCEPT !.mine = TRUE] = r
    BY DEF RpcRecord
  <2>2. QED
    BY <2>1, IdleFacts DEF Slots
<1>2. Detached(slots)["renew"] = IF slots["renew"] = Idle THEN Idle
                                 ELSE [slots["renew"] EXCEPT !.mine = FALSE]
  BY <1>1 DEF Detached, Slots
<1>3. Detached(slots) \in [Slots -> RpcRecord]
  BY <1>1 DEF Detached, Slots, RpcRecord
<1>4. \A s \in Slots \ {"renew"} : Detached(slots)[s] = slots[s]
  BY DEF Detached, Slots
<1>5. slots["renew"] # Idle => ~Detached(slots)["renew"].mine
  BY <1>1, <1>2 DEF RpcRecord
<1>6. SlotFit("renew", slots["renew"]) => SlotFit("renew", Detached(slots)["renew"])
  BY <1>1, <1>2 DEF SlotFit, Confirmed, RpcRecord
<1>7. \A t : RenewalFit(t, Detached(slots)["renew"])
  BY <1>2, <1>5 DEF RenewalFit
<1>8. QED
  BY <1>2, <1>3, <1>4, <1>5, <1>6, <1>7

\* A slot is put to r.
LEMMA PutFits ==
  ASSUME NEW t, NEW o, NEW slots, ProcessFit(t, o, slots), NEW s \in Slots,
         NEW r \in RpcRecord, SlotFit(s, r),
         s = "activate" /\ t.state = "active" => r.stage \in {"idle", "confirming"},
         s = "renew" => RenewalFit(t, r)
  PROVE  /\ ProcessFit(t, o, [slots EXCEPT ![s] = r])
         /\ ~Promising(r) =>
              \A l, at : Sound(l, at, t, slots) => Sound(l, at, t, [slots EXCEPT ![s] = r])
<1>1. ProcessFit(t, o, [slots EXCEPT ![s] = r])
  BY SlotsDiffer DEF ProcessFit
<1>2. ~Promising(r) =>
        \A l, at : Sound(l, at, t, slots) => Sound(l, at, t, [slots EXCEPT ![s] = r])
  BY SlotsDiffer DEF ProcessFit, Sound
<1>3. QED
  BY <1>1, <1>2

\* A command is sent from a slot.
LEMMA SendFits ==
  ASSUME NEW t, NEW o, NEW slots, ProcessFit(t, o, slots), NEW s \in Slots,
         NEW cmd \in CommandsOf(s), NEW w \in MaybeWorker, NEW epoch \in Nat,
         CommandFit(cmd, w, epoch),
         s = "activate" => t.state # "active",
         s = "renew" => t.state = "active" /\ w = t.worker /\ (cmd = "renew" => epoch = t.epoch)
  PROVE  LET sent == [slots EXCEPT ![s] = Request(cmd, w, epoch)]
         IN /\ ProcessFit(t, o, sent)
            /\ \A l, at : Sound(l, at, t, slots) => Sound(l, at, t, sent)
<1> DEFINE r == Request(cmd, w, epoch)
<1>1. cmd \in Commands
  BY DEF CommandsOf, Slots, Commands
<1>2. /\ r \in RpcRecord /\ ~Promising(r)
      /\ r.cmd = cmd /\ r.worker = w /\ r.epoch = epoch
  <2>1. Request(cmd, w, epoch) \in RpcRecord /\ ~Promising(Request(cmd, w, epoch))
    BY <1>1, RequestFacts
  <2>2. QED
    BY <2>1 DEF Request, Idle
<1>3. SlotFit(s, r)
  BY <1>1, RequestFits
<1> HIDE DEF r
<1>4. s = "renew" => RenewalFit(t, r)
  BY <1>2 DEF RenewalFit
<1>5. /\ ProcessFit(t, o, [slots EXCEPT ![s] = r])
      /\ \A l, at : Sound(l, at, t, slots) => Sound(l, at, t, [slots EXCEPT ![s] = r])
  BY <1>2, <1>3, <1>4, PutFits
<1>6. QED
  BY <1>5 DEF r

\* Another entry is put in the map.
LEMMA EnterFits ==
  ASSUME NEW t, NEW o, NEW slots, ProcessFit(t, o, slots), NEW u \in TrackedRecord,
         u.state # "none" => u.worker \in Workers,
         u.state = "active" => u.epoch \in Epochs /\ slots["activate"].stage \in {"idle", "confirming"},
         ~u.lost
  PROVE  /\ ProcessFit(u, o, Detached(slots))
         /\ \A l, at : /\ Sound(l, at, t, slots)
                       /\ Held(u) => Backs(l, at, u.worker, u.epoch, u.deadline)
                       => Sound(l, at, u, Detached(slots))
<1> DEFINE d == Detached(slots)
<1>1. slots \in [Slots -> RpcRecord] /\ \A s \in Slots : SlotFit(s, slots[s])
  BY DEF ProcessFit
<1>2. /\ d \in [Slots -> RpcRecord] /\ \A s \in Slots \ {"renew"} : d[s] = slots[s]
      /\ SlotFit("renew", d["renew"]) /\ RenewalFit(u, d["renew"])
      /\ d["renew"] = Idle \/ ~d["renew"].mine
  BY <1>1, DetachedFacts, SlotsDiffer
<1>3. d["activate"] = slots["activate"] /\ \A s \in Slots : SlotFit(s, d[s])
  BY <1>1, <1>2, SlotsDiffer
<1> HIDE DEF d
<1>4. ProcessFit(u, o, d)
  BY <1>2, <1>3 DEF ProcessFit
<1>5. ASSUME NEW l, NEW at, Sound(l, at, t, slots),
             Held(u) => Backs(l, at, u.worker, u.epoch, u.deadline)
      PROVE  Sound(l, at, u, d)
  BY <1>2, <1>3, <1>5, IdleFacts DEF Sound
<1>6. QED
  BY <1>4, <1>5 DEF d

\* The process gives its lease up.
LEMMA LossFits ==
  ASSUME NEW t, NEW o, NEW slots, ProcessFit(t, o, slots), t.state = "active"
  PROVE  LET lost == [t EXCEPT !.lost = TRUE]
         IN /\ ProcessFit(lost, o, slots) /\ ~Held(lost) /\ lost.state = "active"
            /\ \A l, at : Sound(l, at, t, slots) => Sound(l, at, lost, slots)
<1> DEFINE u == [t EXCEPT !.lost = TRUE]
<1>1. /\ u \in TrackedRecord /\ u.state = "active" /\ u.worker = t.worker
      /\ u.epoch = t.epoch /\ u.lost
  BY DEF ProcessFit, TrackedRecord
<1> HIDE DEF u
<1>2. ProcessFit(u, o, slots)
  BY <1>1 DEF ProcessFit, RenewalFit
<1>3. ~Held(u) /\ \A l, at : Sound(l, at, t, slots) => Sound(l, at, u, slots)
  BY <1>1 DEF Held, Sound
<1>4. QED
  BY <1>1, <1>2, <1>3 DEF u

LEMMA UntrackedFacts ==
  /\ Untracked \in TrackedRecord /\ ~Held(Untracked) /\ ~Untracked.lost
  /\ Untracked.state = "none"
BY DEF Untracked, TrackedRecord, MaybeWorker, Held

\* What release() leaves of t, o and slots.
Kept(t, o) == IF o.owed THEN t ELSE Untracked
Owing(t, o) == IF o.owed THEN o ELSE ReleaseFence(t)
ReleaseSent(t, o, slots) ==
  IF o.owed THEN slots
  ELSE [Detached(slots) EXCEPT !["release"] =
          Request("release", ReleaseFence(t).worker, ReleaseFence(t).epoch)]

LEMMA ReleaseFits ==
  ASSUME NEW t, NEW o, NEW slots, ProcessFit(t, o, slots)
  PROVE  /\ ProcessFit(Kept(t, o), Owing(t, o), ReleaseSent(t, o, slots))
         /\ \A l, at : Sound(l, at, t, slots) => Sound(l, at, Kept(t, o), ReleaseSent(t, o, slots))
         /\ ReleaseSent(t, o, slots)["activate"] = slots["activate"]
         /\ ReleaseSent(t, o, slots)["reserve"] = slots["reserve"]
<1>1. CASE o.owed
  BY <1>1 DEF Kept, Owing, ReleaseSent
<1>2. CASE ~o.owed
  <2> DEFINE f == ReleaseFence(t)
             d == Detached(slots)
             sent == [d EXCEPT !["release"] = Request("release", f.worker, f.epoch)]
  <2>1. /\ f \in PendingRecord /\ f.worker \in MaybeWorker /\ f.epoch \in Nat
        /\ CommandFit("release", f.worker, f.epoch)
    BY DEF ProcessFit, TrackedRecord, PendingRecord, ReleaseFence, CommandFit
  <2>2. /\ ProcessFit(Untracked, o, d)
        /\ \A l, at : Sound(l, at, t, slots) => Sound(l, at, Untracked, d)
    BY UntrackedFacts, EnterFits
  <2>3. slots \in [Slots -> RpcRecord]
    BY DEF ProcessFit
  <2>4. d["activate"] = slots["activate"] /\ d["reserve"] = slots["reserve"]
    BY <2>3, DetachedFacts, SlotsDiffer
  <2> HIDE DEF f, d
  <2>5. ProcessFit(Untracked, f, d)
    BY <2>1, <2>2 DEF ProcessFit
  <2>6. "release" \in CommandsOf("release") /\ "release" \in Slots
    BY DEF CommandsOf, Slots
  <2>7. /\ ProcessFit(Untracked, f, sent)
        /\ \A l, at : Sound(l, at, Untracked, d) => Sound(l, at, Untracked, sent)
    BY <2>1, <2>5, <2>6, SendFits
  <2>8. sent["activate"] = d["activate"] /\ sent["reserve"] = d["reserve"]
    BY <2>5 DEF ProcessFit, Slots
  <2>9. Kept(t, o) = Untracked /\ Owing(t, o) = f /\ ReleaseSent(t, o, slots) = sent
    BY <1>2 DEF Kept, Owing, ReleaseSent, f, d
  <2> HIDE DEF sent
  <2>10. QED
    BY <2>2, <2>4, <2>7, <2>8, <2>9
<1>3. QED
  BY <1>1, <1>2

-----------------------------------------------------------------------------
(* The invariants *)

\* Only the process that claimed a call's stream token activates its lease, and
\* only front processes reserve a premium call, for a realtime worker.
Roles(p, c, owner, t, slots) ==
  /\ slots["activate"] # Idle \/ t.state = "active" => owner = p
  /\ c \in Premium /\ slots["reserve"] # Idle =>
       p \in Fronts /\ slots["reserve"].worker \notin Fronts

SystemFit ==
  /\ SystemTypes
  /\ \A c \in Premium : call[c].worker \notin Fronts /\ call[c].owner \notin Fronts
  /\ \A p \in Workers, c \in Calls :
       /\ ProcessFit(tracked[p][c], pending[p][c], rpc[p][c])
       /\ Roles(p, c, call[c].owner, tracked[p][c], rpc[p][c])
  /\ \A m \in stray : CommandFit(m.cmd, m.worker, m.epoch)
  /\ stray # {} => Workers # {}

Running(c) == call[c].stage # "ended" /\ ~call[c].over

\* No release of c is owed, under way, or left behind by a client that gave up.
ReleaseFree(c) ==
  /\ \A p \in Workers : ~pending[p][c].owed /\ rpc[p][c]["release"] = Idle
  /\ \A m \in stray : m.call = c => m.cmd # "release"

\* The activation behind a slot is done with, or was never begun.
Quiet(slots) == slots["activate"].stage \in {"idle", "confirming"}

\* The call's one owner has given its lease up, and no other can come.
Abandoned(c) ==
  /\ call[c].owner # NoWorker
  /\ \A p \in Workers : ~Held(tracked[p][c]) /\ Quiet(rpc[p][c])

BackInv ==
  \A c \in Calls :
    Running(c) =>
      /\ ReleaseFree(c) \/ Abandoned(c)
      /\ \A p \in Workers : Sound(lease[c], now, tracked[p][c], rpc[p][c])

PremiumResolved ==
  \A p \in Workers : \A c \in unresolved[p] \cap Premium : Held(tracked[p][c])

Keeps ==
  /\ StoreFit' /\ SystemFit'
  /\ BackInv => BackInv'
  /\ PremiumResolved => PremiumResolved'

-----------------------------------------------------------------------------
(* The turn of a handler of p about c: it leaves n, t, o and slots. *)

Put(f, g, p, c, v) ==
  g[p][c] = v /\ \A q \in Workers, d \in Calls : q # p \/ d # c => g[q][d] = f[q][d]

Turn(p, c, n, t, o, slots) ==
  /\ SystemTypes'
  /\ call'[c] = n /\ \A d \in Calls : d # c => call'[d] = call[d]
  /\ Put(tracked, tracked', p, c, t)
  /\ Put(pending, pending', p, c, o)
  /\ Put(rpc, rpc', p, c, slots)
  /\ \A q \in Workers : unresolved'[q] \subseteq unresolved[q] \cup (IF q = p THEN {c} ELSE {})
  /\ UNCHANGED <<storeVars, stray, crashed>>

\* A session only moves forward.
Forward(c, n) ==
  /\ call[c].over => n.over
  /\ call[c].stage = "ended" => n.stage = "ended"
  /\ call[c].owner # NoWorker => n.owner = call[c].owner
  /\ c \in Premium => n.worker \notin Fronts /\ n.owner \notin Fronts

\* The turn counts on nothing new, and begins a release only of a call that has
\* ended or whose owner, p, has given its lease up.
Careful(p, c, n, t, o, slots) ==
  /\ Sound(lease[c], now, tracked[p][c], rpc[p][c]) => Sound(lease[c], now, t, slots)
  /\ Held(t) => Held(tracked[p][c]) \/ ~Quiet(rpc[p][c])
  /\ ~Quiet(slots) => ~Quiet(rpc[p][c]) \/ call[c].owner = NoWorker
  /\ o.owed \/ slots["release"] # Idle =>
       \/ pending[p][c].owed \/ rpc[p][c]["release"] # Idle
       \/ n.stage = "ended" \/ n.over
       \/ n.owner = p /\ ~Held(t) /\ Quiet(slots)
  /\ c \in Premium /\ c \in unresolved'[p] =>
       Held(t) \/ (c \in unresolved[p] /\ ~Held(tracked[p][c]))

LEMMA TurnKeeps ==
  ASSUME StoreFit, SystemFit, NEW p \in Workers, NEW c \in Calls,
         NEW n, NEW t, NEW o, NEW slots, Turn(p, c, n, t, o, slots),
         Forward(c, n), ProcessFit(t, o, slots), Roles(p, c, n.owner, t, slots),
         Careful(p, c, n, t, o, slots)
  PROVE  Keeps
<1>1. /\ SystemTypes' /\ call'[c] = n /\ \A d \in Calls : d # c => call'[d] = call[d]
      /\ tracked'[p][c] = t /\ pending'[p][c] = o /\ rpc'[p][c] = slots
      /\ \A q \in Workers, d \in Calls : q # p \/ d # c =>
           /\ tracked'[q][d] = tracked[q][d] /\ pending'[q][d] = pending[q][d]
           /\ rpc'[q][d] = rpc[q][d]
      /\ now' = now /\ lease' = lease /\ score' = score /\ hold' = hold /\ tokens' = tokens
      /\ stray' = stray /\ crashed' = crashed
  BY DEF Turn, Put, storeVars
<1>2. StoreFit'
  BY <1>1 DEF StoreFit, Admission!StoreInv, Admission!EpochInv, Admission!TypeOK,
              Admission!IndexMatchesRecords, Admission!LeaseHasHold, Admission!HoldsMature,
              Admission!Live, Admission!Active, Admission!Claimed, Admission!Held
<1>3. NoWorker \notin Workers
  BY StoreTypes
<1>4. \A q \in Workers : q # p => Roles(q, c, n.owner, tracked[q][c], rpc[q][c])
  BY <1>3 DEF SystemFit, Roles, Forward
<1>5. SystemFit'
  <2>1. \A d \in Premium : call'[d].worker \notin Fronts /\ call'[d].owner \notin Fronts
    BY <1>1, CoordinatorAssumption DEF SystemFit, Forward
  <2>2. \A q \in Workers, d \in Calls : ProcessFit(tracked'[q][d], pending'[q][d], rpc'[q][d])
    BY <1>1 DEF SystemFit
  <2>3. \A q \in Workers, d \in Calls :
          Roles(q, d, call'[d].owner, tracked'[q][d], rpc'[q][d])
    BY <1>1, <1>4 DEF SystemFit
  <2>4. QED
    BY <1>1, <2>1, <2>2, <2>3 DEF SystemFit
<1>6. ASSUME BackInv
      PROVE  BackInv'
  <2>1. ASSUME NEW d \in Calls, d # c, Running(d)'
        PROVE  /\ ReleaseFree(d)' \/ Abandoned(d)'
               /\ \A q \in Workers : Sound(lease'[d], now', tracked'[q][d], rpc'[q][d])
    BY <1>1, <1>6, <2>1 DEF BackInv, Running, ReleaseFree, Abandoned
  <2>2. ASSUME Running(c)'
        PROVE  /\ ReleaseFree(c)' \/ Abandoned(c)'
               /\ \A q \in Workers : Sound(lease'[c], now', tracked'[q][c], rpc'[q][c])
    <3>1. Running(c) /\ n.stage # "ended" /\ ~n.over
      BY <1>1, <2>2 DEF Running, Forward
    <3>2. \A q \in Workers : Sound(lease'[c], now', tracked'[q][c], rpc'[q][c])
      BY <1>1, <1>6, <3>1 DEF BackInv, Careful
    <3>3. ReleaseFree(c)' \/ Abandoned(c)'
      <4>1. CASE Abandoned(c)
        BY <1>1, <4>1 DEF Abandoned, Careful, Forward
      <4>2. CASE ReleaseFree(c) /\ ~(o.owed \/ slots["release"] # Idle)
        BY <1>1, <4>2 DEF ReleaseFree
      <4>3. CASE ReleaseFree(c) /\ (o.owed \/ slots["release"] # Idle)
        <5>1. n.owner = p /\ ~Held(t) /\ Quiet(slots)
          BY <3>1, <4>3 DEF ReleaseFree, Careful
        <5>2. \A q \in Workers : q # p => ~Held(tracked[q][c]) /\ Quiet(rpc[q][c])
          BY <1>4, <5>1, IdleFacts DEF Roles, Held, Quiet
        <5>3. QED
          BY <1>1, <1>3, <5>1, <5>2 DEF Abandoned
      <4>4. QED
        BY <1>6, <3>1, <4>1, <4>2, <4>3 DEF BackInv
    <3>4. QED
      BY <3>2, <3>3
  <2>3. QED
    BY <2>1, <2>2 DEF BackInv
<1>7. ASSUME PremiumResolved
      PROVE  PremiumResolved'
  <2>1. ASSUME NEW q \in Workers, NEW d \in unresolved'[q] \cap Premium
        PROVE  Held(tracked'[q][d])
    <3>1. d \in Calls /\ (q # p \/ d # c => d \in unresolved[q])
      BY CoordinatorAssumption DEF Turn
    <3>2. QED
      BY <1>1, <1>7, <2>1, <3>1 DEF PremiumResolved, Careful
  <2>2. QED
    BY <2>1 DEF PremiumResolved
<1>8. QED
  BY <1>2, <1>5, <1>6, <1>7 DEF Keeps

LEMMA PutTyped ==
  ASSUME NEW S, NEW f \in [Workers -> [Calls -> S]], NEW g, NEW p \in Workers, NEW c \in Calls,
         NEW v \in S, (g = f /\ v = f[p][c]) \/ g = [f EXCEPT ![p][c] = v]
  PROVE  g \in [Workers -> [Calls -> S]] /\ Put(f, g, p, c, v)
BY DEF Put

LEMMA SetTyped ==
  ASSUME NEW f \in [Workers -> SUBSET Calls], NEW g, NEW p \in Workers, NEW c \in Calls,
         \/ g = f
         \/ g = [f EXCEPT ![p] = @ \ {c}]
         \/ g = [f EXCEPT ![p] = @ \cup {c}]
  PROVE  /\ g \in [Workers -> SUBSET Calls]
         /\ \A q \in Workers : g[q] \subseteq f[q] \cup (IF q = p THEN {c} ELSE {})
OBVIOUS

LEMMA MakeTurn ==
  ASSUME SystemTypes, NEW p \in Workers, NEW c \in Calls,
         NEW n \in SessionRecord, NEW t, NEW o, NEW slots, ProcessFit(t, o, slots),
         (call' = call /\ n = call[c]) \/ call' = [call EXCEPT ![c] = n],
         (tracked' = tracked /\ t = tracked[p][c]) \/ tracked' = [tracked EXCEPT ![p][c] = t],
         (pending' = pending /\ o = pending[p][c]) \/ pending' = [pending EXCEPT ![p][c] = o],
         (rpc' = rpc /\ slots = rpc[p][c]) \/ rpc' = [rpc EXCEPT ![p][c] = slots],
         \/ unresolved' = unresolved
         \/ unresolved' = [unresolved EXCEPT ![p] = @ \ {c}]
         \/ unresolved' = [unresolved EXCEPT ![p] = @ \cup {c}],
         \/ media' = media
         \/ media' = [media EXCEPT ![p] = @ \ {c}]
         \/ media' = [media EXCEPT ![p] = @ \cup {c}],
         UNCHANGED <<storeVars, stray, crashed>>
  PROVE  Turn(p, c, n, t, o, slots)
<1>1. t \in TrackedRecord /\ o \in PendingRecord /\ slots \in [Slots -> RpcRecord]
  BY DEF ProcessFit
<1>2. tracked' \in [Workers -> [Calls -> TrackedRecord]] /\ Put(tracked, tracked', p, c, t)
  BY <1>1, PutTyped DEF SystemTypes
<1>3. pending' \in [Workers -> [Calls -> PendingRecord]] /\ Put(pending, pending', p, c, o)
  BY <1>1, PutTyped DEF SystemTypes
<1>4. rpc' \in [Workers -> [Calls -> [Slots -> RpcRecord]]] /\ Put(rpc, rpc', p, c, slots)
  BY <1>1, PutTyped DEF SystemTypes
<1>5. /\ unresolved' \in [Workers -> SUBSET Calls]
      /\ \A q \in Workers : unresolved'[q] \subseteq unresolved[q] \cup (IF q = p THEN {c} ELSE {})
  <2>1. unresolved \in [Workers -> SUBSET Calls]
    BY DEF SystemTypes
  <2>2. \/ unresolved' = unresolved
        \/ unresolved' = [unresolved EXCEPT ![p] = @ \ {c}]
        \/ unresolved' = [unresolved EXCEPT ![p] = @ \cup {c}]
    OBVIOUS
  <2>3. QED
    BY <2>1, <2>2
<1>6. media' \in [Workers -> SUBSET Calls]
  <2>1. media \in [Workers -> SUBSET Calls]
    BY DEF SystemTypes
  <2>2. QED
    BY <2>1
<1>7. /\ call' \in [Calls -> SessionRecord] /\ call'[c] = n
      /\ \A d \in Calls : d # c => call'[d] = call[d]
  <2>1. call \in [Calls -> SessionRecord]
    BY DEF SystemTypes
  <2>2. QED
    BY <2>1
<1>8. stray' = stray /\ crashed' = crashed
  OBVIOUS
<1>9. SystemTypes'
  BY <1>2, <1>3, <1>4, <1>5, <1>6, <1>7, <1>8 DEF SystemTypes
<1>10. QED
  BY <1>2, <1>3, <1>4, <1>5, <1>7, <1>9 DEF Turn

-----------------------------------------------------------------------------
(* The handlers *)

LEMMA Facts ==
  ASSUME StoreFit, SystemFit, NEW p \in Workers, NEW c \in Calls
  PROVE  /\ SystemTypes /\ call[c] \in SessionRecord /\ NoWorker \notin Workers
         /\ ProcessFit(tracked[p][c], pending[p][c], rpc[p][c])
         /\ Roles(p, c, call[c].owner, tracked[p][c], rpc[p][c])
         /\ c \in Premium => call[c].worker \notin Fronts /\ call[c].owner \notin Fronts
         /\ tracked[p][c] \in TrackedRecord /\ pending[p][c] \in PendingRecord
         /\ rpc[p][c] \in [Slots -> RpcRecord]
BY StoreTypes DEF SystemFit, SystemTypes

\* A slot other than the renewal's and the activation's matters to none of the
\* conditions of a turn but the roles.
LEMMA ReserveCallKeeps ==
  ASSUME StoreFit, SystemFit, NEW p \in Workers, NEW c \in Calls, NEW w \in Workers,
         ReserveCall(p, c, w)
  PROVE  Keeps
<1> DEFINE n == [call[c] EXCEPT !.webhooks = @ + 1]
           t == tracked[p][c]
           o == pending[p][c]
           s == rpc[p][c]
           sent == [s EXCEPT !["reserve"] = Request("reserve", w, 0)]
<1>1. /\ ProcessFit(t, o, s) /\ Roles(p, c, call[c].owner, t, s) /\ call[c] \in SessionRecord
      /\ SystemTypes /\ s \in [Slots -> RpcRecord]
      /\ c \in Premium => call[c].worker \notin Fronts /\ call[c].owner \notin Fronts
  BY Facts
<1>2. n \in SessionRecord /\ n.owner = call[c].owner /\ Forward(c, n)
  <2>1. call[c].webhooks < MaxWebhooks
    BY DEF ReserveCall
  <2>2. call[c].webhooks + 1 \in 0..MaxWebhooks
    BY <1>1, <2>1, CoordinatorAssumption DEF SessionRecord
  <2>3. QED
    BY <1>1, <2>2 DEF SessionRecord, Forward
<1>3. /\ ProcessFit(t, o, sent)
      /\ \A l, at : Sound(l, at, t, s) => Sound(l, at, t, sent)
  <2>1. /\ "reserve" \in Slots /\ "reserve" \in CommandsOf("reserve") /\ w \in MaybeWorker
        /\ CommandFit("reserve", w, 0)
    BY DEF Slots, CommandsOf, MaybeWorker, CommandFit
  <2>2. QED
    BY <1>1, <2>1, SendFits
<1>4. /\ sent["activate"] = s["activate"] /\ sent["release"] = s["release"]
      /\ sent["reserve"].worker = w
  BY <1>1 DEF Slots, Request, Idle
<1>5. c \in Premium => p \in Fronts /\ w \notin Fronts
  BY DEF ReserveCall
<1>6. Roles(p, c, n.owner, t, sent)
  BY <1>1, <1>2, <1>4, <1>5 DEF Roles
<1>7. Turn(p, c, n, t, o, sent)
  <2>1. /\ call' = [call EXCEPT ![c] = n]
        /\ rpc' = [rpc EXCEPT ![p][c] = sent]
        /\ UNCHANGED <<storeVars, tracked, unresolved, pending, media, stray, crashed>>
    BY DEF ReserveCall, Resume
  <2> HIDE DEF n, sent
  <2>2. QED
    BY <1>1, <1>2, <1>3, <2>1, MakeTurn
<1> HIDE DEF sent, n
<1>8. Careful(p, c, n, t, o, sent)
  <2>1. unresolved' = unresolved
    BY DEF ReserveCall
  <2>2. QED
    BY <1>3, <1>4, <2>1 DEF Careful, Quiet
<1>9. QED
  BY <1>2, <1>3, <1>6, <1>7, <1>8, TurnKeeps

\* The claim that the reservation tracks replaces no lease of a premium call:
\* those are tracked where no webhook arrives.
LEMMA ReserveAnsweredKeeps ==
  ASSUME StoreFit, SystemFit, NEW p \in Workers, NEW c \in Calls, ReserveAnswered(p, c)
  PROVE  Keeps
<1> DEFINE t == tracked[p][c]
           o == pending[p][c]
           s == rpc[p][c]
           r == s["reserve"]
           parked == [s EXCEPT !["reserve"] = Idle]
           claim == [Untracked EXCEPT !.state = "claim", !.worker = r.worker]
           opened == [call[c] EXCEPT !.stage = "open", !.worker = r.worker]
<1>1. /\ ProcessFit(t, o, s) /\ Roles(p, c, call[c].owner, t, s) /\ call[c] \in SessionRecord
      /\ SystemTypes /\ s \in [Slots -> RpcRecord] /\ NoWorker \notin Workers
      /\ c \in Premium => call[c].worker \notin Fronts /\ call[c].owner \notin Fronts
  BY Facts
<1>2. r.stage = "answered" /\ r.cmd = "reserve" /\ r # Idle
  BY IdleFacts DEF ReserveAnswered, Answered
<1>3. r.worker \in Workers /\ (c \in Premium => p \in Fronts /\ r.worker \notin Fronts)
  BY <1>1, <1>2, SlotsDiffer DEF ProcessFit, SlotFit, Roles
<1>4. /\ ProcessFit(t, o, parked)
      /\ \A l, at : Sound(l, at, t, s) => Sound(l, at, t, parked)
  BY <1>1, ParkFits, SlotsDiffer
<1>5. /\ parked["activate"] = s["activate"] /\ parked["release"] = s["release"]
      /\ parked["reserve"] = Idle /\ parked \in [Slots -> RpcRecord]
  BY <1>1, IdleFacts DEF Slots
<1>6. /\ claim \in TrackedRecord /\ claim.state = "claim" /\ claim.worker = r.worker
      /\ ~claim.lost /\ ~Held(claim)
  BY <1>3 DEF Untracked, TrackedRecord, MaybeWorker, Held
<1>7. PICK n : /\ (call' = call /\ n = call[c]) \/ call' = [call EXCEPT ![c] = n]
               /\ n \in SessionRecord /\ n.owner = call[c].owner /\ Forward(c, n)
  <2>1. opened \in SessionRecord
    BY <1>1, <1>3 DEF SessionRecord, MaybeWorker
  <2>2. /\ opened.owner = call[c].owner /\ opened.over = call[c].over
        /\ opened.worker = r.worker /\ opened.stage = "open"
    BY <1>1 DEF SessionRecord
  <2>3. \/ call' = call
        \/ call[c].stage = "new" /\ call' = [call EXCEPT ![c] = opened]
    BY DEF ReserveAnswered
  <2>4. CASE call' = call
    BY <1>1, <2>4 DEF Forward
  <2>5. CASE call[c].stage = "new" /\ call' = [call EXCEPT ![c] = opened]
    <3> HIDE DEF opened
    <3>1. Forward(c, opened)
      BY <1>1, <1>3, <2>2, <2>5 DEF Forward
    <3>2. QED
      BY <2>1, <2>2, <2>5, <3>1
  <2>6. QED
    BY <2>3, <2>4, <2>5
<1>8. /\ unresolved' = unresolved /\ pending' = pending /\ media' = media
      /\ UNCHANGED <<storeVars, stray, crashed>>
      /\ \/ tracked' = [tracked EXCEPT ![p][c] = claim] /\ rpc' = [rpc EXCEPT ![p][c] = Detached(parked)]
         \/ tracked' = [tracked EXCEPT ![p][c] = t] /\ rpc' = [rpc EXCEPT ![p][c] = parked]
  BY DEF ReserveAnswered, Parked
<1> HIDE DEF parked, claim
<1>9. CASE tracked' = [tracked EXCEPT ![p][c] = claim] /\ rpc' = [rpc EXCEPT ![p][c] = Detached(parked)]
  <2> DEFINE d == Detached(parked)
  <2>1. /\ ProcessFit(claim, o, d)
        /\ \A l, at : Sound(l, at, t, parked) => Sound(l, at, claim, d)
    BY <1>3, <1>4, <1>6, EnterFits
  <2>2. /\ d["activate"] = s["activate"] /\ d["release"] = s["release"] /\ d["reserve"] = Idle
    BY <1>5, DetachedFacts, SlotsDiffer
  <2> HIDE DEF d
  <2>3. Turn(p, c, n, claim, o, d)
    <3>1. rpc' = [rpc EXCEPT ![p][c] = d]
      BY <1>9 DEF d
    <3>2. QED
      BY <1>1, <1>7, <1>8, <1>9, <2>1, <3>1, MakeTurn
  <2>4. Roles(p, c, n.owner, claim, d)
    BY <1>1, <1>6, <1>7, <2>2 DEF Roles
  <2>5. c \in Premium => ~Held(t)
    BY <1>1, <1>3 DEF Roles, Held
  <2>6. Careful(p, c, n, claim, o, d)
    BY <1>4, <1>6, <1>8, <2>1, <2>2, <2>5 DEF Careful, Quiet
  <2>7. QED
    BY <1>7, <2>1, <2>3, <2>4, <2>6, TurnKeeps
<1>10. CASE tracked' = [tracked EXCEPT ![p][c] = t] /\ rpc' = [rpc EXCEPT ![p][c] = parked]
  <2>1. Turn(p, c, n, t, o, parked)
    BY <1>1, <1>4, <1>7, <1>8, <1>10, MakeTurn
  <2>2. Roles(p, c, n.owner, t, parked)
    BY <1>1, <1>5, <1>7 DEF Roles
  <2>3. Careful(p, c, n, t, o, parked)
    BY <1>4, <1>5, <1>8 DEF Careful, Quiet
  <2>4. QED
    BY <1>4, <1>7, <2>1, <2>2, <2>3, TurnKeeps
<1>11. QED
  BY <1>8, <1>9, <1>10

LEMMA StartMediaKeeps ==
  ASSUME StoreFit, SystemFit, NEW p \in Workers, NEW c \in Calls, StartMedia(p, c)
  PROVE  Keeps
<1> DEFINE n == [call[c] EXCEPT !.owner = p]
           t == tracked[p][c]
           o == pending[p][c]
           s == rpc[p][c]
           w == IF t.state = "none" THEN p ELSE t.worker
           sent == [s EXCEPT !["activate"] = Request("activate", w, 0)]
<1>1. /\ ProcessFit(t, o, s) /\ Roles(p, c, call[c].owner, t, s) /\ call[c] \in SessionRecord
      /\ SystemTypes /\ s \in [Slots -> RpcRecord] /\ NoWorker \notin Workers
      /\ c \in Premium => call[c].worker \notin Fronts /\ call[c].owner \notin Fronts
  BY Facts
<1>2. /\ call[c].owner = NoWorker
      /\ c \in Premium => p = call[c].worker
      /\ unresolved' = unresolved
  BY DEF StartMedia
<1>3. n \in SessionRecord /\ n.owner = p /\ Forward(c, n)
  <2>1. n \in SessionRecord /\ n.owner = p
    BY <1>1 DEF SessionRecord, MaybeWorker
  <2>2. n.over = call[c].over /\ n.stage = call[c].stage /\ n.worker = call[c].worker
    BY <1>1 DEF SessionRecord
  <2> HIDE DEF n
  <2>3. QED
    BY <1>1, <1>2, <2>1, <2>2 DEF Forward
<1>4. t.state # "active"
  BY <1>1, <1>2 DEF Roles
<1>5. /\ ProcessFit(t, o, sent)
      /\ \A l, at : Sound(l, at, t, s) => Sound(l, at, t, sent)
  <2>1. w \in Workers
    BY <1>1 DEF ProcessFit
  <2> HIDE DEF w
  <2>2. /\ "activate" \in Slots /\ "activate" \in CommandsOf("activate") /\ w \in MaybeWorker
        /\ CommandFit("activate", w, 0)
    BY <2>1 DEF Slots, CommandsOf, MaybeWorker, CommandFit
  <2>3. QED
    BY <1>1, <1>4, <2>2, SendFits
<1>6. sent["release"] = s["release"] /\ sent["reserve"] = s["reserve"]
  BY <1>1 DEF Slots
<1>7. Roles(p, c, n.owner, t, sent)
  BY <1>1, <1>3, <1>6 DEF Roles
<1>8. Turn(p, c, n, t, o, sent)
  <2>1. /\ call' = [call EXCEPT ![c] = n]
        /\ rpc' = [rpc EXCEPT ![p][c] = sent]
        /\ media' = [media EXCEPT ![p] = @ \cup {c}]
        /\ UNCHANGED <<storeVars, tracked, unresolved, pending, stray, crashed>>
    BY DEF StartMedia, Resume
  <2> HIDE DEF n, sent
  <2>2. QED
    BY <1>1, <1>3, <1>5, <2>1, MakeTurn
<1> HIDE DEF sent, n
<1>9. Careful(p, c, n, t, o, sent)
  BY <1>2, <1>5, <1>6 DEF Careful, Quiet
<1>10. QED
  BY <1>3, <1>5, <1>7, <1>8, <1>9, TurnKeeps

\* What the process counts on is the lease the store has just answered with.
LEMMA ActivateGrantedKeeps ==
  ASSUME StoreFit, SystemFit, NEW p \in Workers, NEW c \in Calls, ActivateGranted(p, c)
  PROVE  Keeps
<1> DEFINE k == call[c]
           t == tracked[p][c]
           o == pending[p][c]
           s == rpc[p][c]
           r == s["activate"]
           conf == [r EXCEPT !.stage = "confirming"]
           put == [s EXCEPT !["activate"] = conf]
           u == [state |-> "active", worker |-> r.worker, epoch |-> r.epoch,
                 deadline |-> ConfirmedUntil(r), lost |-> FALSE]
           d == Detached(put)
<1>1. /\ ProcessFit(t, o, s) /\ Roles(p, c, k.owner, t, s) /\ k \in SessionRecord
      /\ SystemTypes /\ s \in [Slots -> RpcRecord]
      /\ c \in Premium => k.worker \notin Fronts /\ k.owner \notin Fronts
  BY Facts
<1>2. /\ r.stage = "answered" /\ r.cmd = "activate" /\ r.out \in Confirming /\ r # Idle
      /\ r \in RpcRecord
  BY <1>1, IdleFacts, SlotsDiffer DEF ActivateGranted, Answered, Confirming
<1>3. Promising(r) /\ Confirmed(r)
  BY <1>2 DEF Promising, Confirmed
<1>4. r.worker \in Workers /\ r.epoch \in Epochs
  BY <1>1, <1>2, <1>3, SlotsDiffer DEF ProcessFit, SlotFit
<1>5. /\ conf \in RpcRecord /\ conf.stage = "confirming" /\ conf.cmd = "activate"
      /\ conf.worker = r.worker /\ conf.epoch = r.epoch
  BY <1>2 DEF RpcRecord
<1>6. SlotFit("activate", conf) /\ ~Promising(conf)
  <2> HIDE DEF conf
  <2>1. SlotFit("activate", conf)
    BY <1>4, <1>5 DEF SlotFit, CommandsOf
  <2>2. QED
    BY <1>5, <2>1 DEF Promising
<1>7. put["activate"] = conf /\ \A x \in Slots \ {"activate"} : put[x] = s[x]
  BY <1>1 DEF Slots
<1>8. /\ ProcessFit(t, o, put)
      /\ \A l, at : Sound(l, at, t, s) => Sound(l, at, t, put)
  <2> HIDE DEF conf
  <2>1. QED
    BY <1>1, <1>5, <1>6, PutFits, SlotsDiffer
<1>9. /\ u \in TrackedRecord /\ u.state = "active" /\ u.worker = r.worker /\ u.epoch = r.epoch
      /\ u.deadline = r.expires /\ ~u.lost
  BY <1>2, <1>4 DEF TrackedRecord, MaybeWorker, Epochs, RpcRecord, ConfirmedUntil
<1>10. rpc' = [rpc EXCEPT ![p][c] = d] /\ UNCHANGED <<storeVars, call, unresolved, pending, media, stray, crashed>>
  <2>1. [Detached(s) EXCEPT !["activate"].stage = "confirming"] = d
    BY <1>1, <1>2 DEF Detached, Slots
  <2>2. rpc' = [rpc EXCEPT ![p][c] = [Detached(s) EXCEPT !["activate"].stage = "confirming"]]
    BY DEF ActivateGranted
  <2>3. QED
    BY <2>1, <2>2 DEF ActivateGranted
<1>11. tracked' = [tracked EXCEPT ![p][c] = u]
  BY DEF ActivateGranted
<1> HIDE DEF u, conf, put
<1>12. /\ ProcessFit(u, o, d)
       /\ \A l, at : /\ Sound(l, at, t, put)
                     /\ Held(u) => Backs(l, at, u.worker, u.epoch, u.deadline)
                     => Sound(l, at, u, d)
  BY <1>4, <1>5, <1>7, <1>8, <1>9, EnterFits
<1>13. /\ d["activate"] = conf /\ d["release"] = s["release"] /\ d["reserve"] = s["reserve"]
  BY <1>7, <1>8, DetachedFacts, SlotsDiffer DEF ProcessFit, Slots
<1> HIDE DEF d
<1>14. Turn(p, c, k, u, o, d)
  BY <1>1, <1>10, <1>11, <1>12, MakeTurn
<1>15. Roles(p, c, k.owner, u, d) /\ Forward(c, k)
  BY <1>1, <1>2, <1>13 DEF Roles, Forward
<1>16. Held(u) /\ ~Quiet(s) /\ Quiet(d)
  BY <1>2, <1>5, <1>9, <1>13 DEF Held, Quiet
<1>17. Sound(lease[c], now, t, s) => Sound(lease[c], now, u, d)
  <2>1. Sound(lease[c], now, t, s) => Backs(lease[c], now, u.worker, u.epoch, u.deadline)
    BY <1>3, <1>9 DEF Sound
  <2>2. QED
    BY <1>8, <1>12, <2>1
<1>18. Careful(p, c, k, u, o, d)
  BY <1>13, <1>16, <1>17 DEF Careful
<1>19. QED
  BY <1>12, <1>14, <1>15, <1>18, TurnKeeps

\* A handler that ends in release().
LEMMA ReleaseTurn ==
  ASSUME StoreFit, SystemFit, NEW p \in Workers, NEW c \in Calls, NEW n \in SessionRecord,
         NEW slots, StartRelease(p, c, slots), ProcessFit(tracked[p][c], pending[p][c], slots),
         \A l, at : Sound(l, at, tracked[p][c], rpc[p][c]) => Sound(l, at, tracked[p][c], slots),
         slots["activate"] \in {rpc[p][c]["activate"], Idle},
         slots["reserve"] = rpc[p][c]["reserve"],
         (call' = call /\ n = call[c]) \/ call' = [call EXCEPT ![c] = n],
         Forward(c, n), n.owner = call[c].owner,
         n.stage = "ended" \/ n.over \/ (n.owner = p /\ Quiet(slots)),
         media' = media \/ media' = [media EXCEPT ![p] = @ \ {c}],
         UNCHANGED <<storeVars, stray, crashed>>
  PROVE  Keeps
<1> DEFINE t == tracked[p][c]
           o == pending[p][c]
           s == rpc[p][c]
           t2 == Kept(t, o)
           o2 == Owing(t, o)
           s2 == ReleaseSent(t, o, slots)
<1>1. Roles(p, c, call[c].owner, t, s) /\ SystemTypes
  BY Facts
<1>2. /\ ProcessFit(t2, o2, s2)
      /\ \A l, at : Sound(l, at, t, slots) => Sound(l, at, t2, s2)
      /\ s2["activate"] = slots["activate"] /\ s2["reserve"] = slots["reserve"]
  BY ReleaseFits
<1>3. \/ /\ o.owed /\ t2 = t /\ tracked' = tracked /\ pending' = pending /\ o2 = o
         /\ rpc' = [rpc EXCEPT ![p][c] = s2] /\ unresolved' = unresolved
      \/ /\ ~o.owed /\ t2 = Untracked /\ tracked' = [tracked EXCEPT ![p][c] = t2]
         /\ pending' = [pending EXCEPT ![p][c] = o2] /\ rpc' = [rpc EXCEPT ![p][c] = s2]
         /\ unresolved' = [unresolved EXCEPT ![p] = @ \ {c}]
  BY DEF StartRelease, Kept, Owing, ReleaseSent
<1> HIDE DEF t2, o2, s2
<1>4. Turn(p, c, n, t2, o2, s2)
  BY <1>1, <1>2, <1>3, MakeTurn
<1>5. Roles(p, c, n.owner, t2, s2)
  BY <1>1, <1>2, <1>3, UntrackedFacts DEF Roles
<1>6. Careful(p, c, n, t2, o2, s2)
  <2>1. ~Quiet(s2) => ~Quiet(s)
    BY <1>2, IdleFacts DEF Quiet
  <2>2. Sound(lease[c], now, t, s) => Sound(lease[c], now, t2, s2)
    BY <1>2
  <2>3. Held(t2) => Held(t) /\ o.owed
    BY <1>3, UntrackedFacts
  <2>4. Quiet(slots) => Quiet(s2)
    BY <1>2 DEF Quiet
  <2>5. o.owed \/ c \notin unresolved'[p]
    BY <1>1, <1>3 DEF SystemTypes
  <2>6. o.owed => unresolved' = unresolved /\ t2 = t
    BY <1>3
  <2>7. QED
    BY <2>1, <2>2, <2>3, <2>4, <2>5, <2>6 DEF Careful
<1>7. QED
  BY <1>2, <1>4, <1>5, <1>6, TurnKeeps

LEMMA EndFacts ==
  ASSUME StoreFit, SystemFit, NEW c \in Calls
  PROVE  LET n == [call[c] EXCEPT !.stage = "ended"]
         IN n \in SessionRecord /\ n.owner = call[c].owner /\ n.stage = "ended" /\ Forward(c, n)
<1> DEFINE n == [call[c] EXCEPT !.stage = "ended"]
<1>1. /\ call[c] \in SessionRecord
      /\ c \in Premium => call[c].worker \notin Fronts /\ call[c].owner \notin Fronts
  BY DEF SystemFit, SystemTypes
<1>2. n \in SessionRecord /\ n.owner = call[c].owner /\ n.stage = "ended"
      /\ n.over = call[c].over /\ n.worker = call[c].worker
  BY <1>1 DEF SessionRecord
<1> HIDE DEF n
<1>3. Forward(c, n)
  BY <1>1, <1>2 DEF Forward
<1>4. QED
  BY <1>2, <1>3 DEF n

LEMMA ActivateRefusedKeeps ==
  ASSUME StoreFit, SystemFit, NEW p \in Workers, NEW c \in Calls, ActivateRefused(p, c)
  PROVE  Keeps
<1> DEFINE n == [call[c] EXCEPT !.stage = "ended"]
           parked == [rpc[p][c] EXCEPT !["activate"] = Idle]
<1>1. n \in SessionRecord /\ n.owner = call[c].owner /\ n.stage = "ended" /\ Forward(c, n)
  BY EndFacts
<1>2. /\ ProcessFit(tracked[p][c], pending[p][c], rpc[p][c]) /\ rpc[p][c] \in [Slots -> RpcRecord]
  BY Facts
<1>3. /\ ProcessFit(tracked[p][c], pending[p][c], parked)
      /\ \A l, at : Sound(l, at, tracked[p][c], rpc[p][c]) => Sound(l, at, tracked[p][c], parked)
  BY <1>2, ParkFits, SlotsDiffer
<1>4. parked["activate"] = Idle /\ parked["reserve"] = rpc[p][c]["reserve"]
  BY <1>2 DEF Slots
<1>5. /\ StartRelease(p, c, parked) /\ call' = [call EXCEPT ![c] = n]
      /\ media' = [media EXCEPT ![p] = @ \ {c}]
      /\ UNCHANGED <<storeVars, stray, crashed>>
  BY DEF ActivateRefused, EndSession, Parked
<1> HIDE DEF n, parked
<1>6. QED
  BY <1>1, <1>3, <1>4, <1>5, ReleaseTurn

\* The process that has just activated the lease is its owner and gives it up.
LEMMA MediaRejectedKeeps ==
  ASSUME StoreFit, SystemFit, NEW p \in Workers, NEW c \in Calls, MediaRejected(p, c)
  PROVE  Keeps
<1> DEFINE parked == [rpc[p][c] EXCEPT !["activate"] = Idle]
<1>1. /\ ProcessFit(tracked[p][c], pending[p][c], rpc[p][c]) /\ rpc[p][c] \in [Slots -> RpcRecord]
      /\ Roles(p, c, call[c].owner, tracked[p][c], rpc[p][c]) /\ call[c] \in SessionRecord
      /\ c \in Premium => call[c].worker \notin Fronts /\ call[c].owner \notin Fronts
  BY Facts
<1>2. /\ ProcessFit(tracked[p][c], pending[p][c], parked)
      /\ \A l, at : Sound(l, at, tracked[p][c], rpc[p][c]) => Sound(l, at, tracked[p][c], parked)
  BY <1>1, ParkFits, SlotsDiffer
<1>3. parked["activate"] = Idle /\ parked["reserve"] = rpc[p][c]["reserve"]
  BY <1>1 DEF Slots
<1>4. call[c].owner = p
  BY <1>1, IdleFacts DEF MediaRejected, Roles
<1>5. Quiet(parked) /\ Forward(c, call[c])
  BY <1>1, <1>3, IdleFacts DEF Quiet, Forward
<1>6. /\ StartRelease(p, c, parked) /\ call' = call
      /\ media' = [media EXCEPT ![p] = @ \ {c}]
      /\ UNCHANGED <<storeVars, stray, crashed>>
  BY DEF MediaRejected, Parked
<1> HIDE DEF parked
<1>7. QED
  BY <1>1, <1>2, <1>3, <1>4, <1>5, <1>6, ReleaseTurn

LEMMA LossHandledKeeps ==
  ASSUME StoreFit, SystemFit, NEW p \in Workers, NEW c \in Calls, LossHandled(p, c)
  PROVE  Keeps
<1> DEFINE n == [call[c] EXCEPT !.stage = "ended"]
<1>1. n \in SessionRecord /\ n.owner = call[c].owner /\ n.stage = "ended" /\ Forward(c, n)
  BY EndFacts
<1>2. /\ ProcessFit(tracked[p][c], pending[p][c], rpc[p][c])
      /\ Roles(p, c, call[c].owner, tracked[p][c], rpc[p][c]) /\ call[c] \in SessionRecord
      /\ c \in Premium => call[c].worker \notin Fronts /\ call[c].owner \notin Fronts
  BY Facts
<1>3. call[c].owner = p /\ Quiet(rpc[p][c]) /\ Forward(c, call[c])
  BY <1>2 DEF LossHandled, ProcessFit, Roles, Quiet, Forward
<1>4. /\ StartRelease(p, c, rpc[p][c]) /\ UNCHANGED <<storeVars, media, stray, crashed>>
      /\ call' = [call EXCEPT ![c] = n] \/ call' = call
  BY DEF LossHandled, EndSession
<1> HIDE DEF n
<1>5. CASE call' = [call EXCEPT ![c] = n]
  BY <1>1, <1>2, <1>4, <1>5, ReleaseTurn
<1>6. CASE call' = call
  BY <1>2, <1>3, <1>4, <1>6, ReleaseTurn
<1>7. QED
  BY <1>4, <1>5, <1>6

LEMMA StatusCallbackKeeps ==
  ASSUME StoreFit, SystemFit, NEW p \in Workers, NEW c \in Calls, StatusCallback(p, c)
  PROVE  Keeps
<1> DEFINE n == [call[c] EXCEPT !.stage = IF @ = "new" THEN @ ELSE "ended", !.over = TRUE]
<1>1. /\ ProcessFit(tracked[p][c], pending[p][c], rpc[p][c]) /\ call[c] \in SessionRecord
      /\ c \in Premium => call[c].worker \notin Fronts /\ call[c].owner \notin Fronts
  BY Facts
<1>2. /\ n \in SessionRecord /\ n.owner = call[c].owner /\ n.worker = call[c].worker /\ n.over
      /\ n.stage = IF call[c].stage = "new" THEN "new" ELSE "ended"
  BY <1>1 DEF SessionRecord
<1>3. /\ StartRelease(p, c, rpc[p][c]) /\ UNCHANGED <<storeVars, media, stray, crashed>>
      /\ call' = [call EXCEPT ![c] = n]
  BY DEF StatusCallback
<1> HIDE DEF n
<1>4. Forward(c, n)
  BY <1>1, <1>2 DEF Forward
<1>5. QED
  BY <1>1, <1>2, <1>3, <1>4, ReleaseTurn

LEMMA TerminalizeKeeps ==
  ASSUME StoreFit, SystemFit, NEW p \in Workers, NEW c \in Calls, Terminalize(p, c)
  PROVE  Keeps
<1> DEFINE n == [call[c] EXCEPT !.stage = "ended"]
<1>1. n \in SessionRecord /\ n.owner = call[c].owner /\ n.stage = "ended" /\ Forward(c, n)
  BY EndFacts
<1>2. ProcessFit(tracked[p][c], pending[p][c], rpc[p][c])
  BY Facts
<1>3. /\ StartRelease(p, c, rpc[p][c]) /\ UNCHANGED <<storeVars, media, stray, crashed>>
      /\ call' = [call EXCEPT ![c] = n]
  BY DEF Terminalize, EndSession
<1> HIDE DEF n
<1>4. QED
  BY <1>1, <1>2, <1>3, ReleaseTurn

\* A handler that counts on no lease it did not count on, and begins no release.
LEMMA PlainTurn ==
  ASSUME StoreFit, SystemFit, NEW p \in Workers, NEW c \in Calls, NEW n \in SessionRecord,
         NEW t, NEW o, NEW slots, ProcessFit(t, o, slots),
         (call' = call /\ n = call[c]) \/ call' = [call EXCEPT ![c] = n],
         (tracked' = tracked /\ t = tracked[p][c]) \/ tracked' = [tracked EXCEPT ![p][c] = t],
         (pending' = pending /\ o = pending[p][c]) \/ pending' = [pending EXCEPT ![p][c] = o],
         (rpc' = rpc /\ slots = rpc[p][c]) \/ rpc' = [rpc EXCEPT ![p][c] = slots],
         \/ unresolved' = unresolved /\ t = tracked[p][c]
         \/ unresolved' = [unresolved EXCEPT ![p] = @ \ {c}]
         \/ unresolved' = [unresolved EXCEPT ![p] = @ \cup {c}] /\ Held(t),
         media' = media \/ media' = [media EXCEPT ![p] = @ \ {c}],
         UNCHANGED <<storeVars, stray, crashed>>,
         Forward(c, n), n.owner = call[c].owner,
         \A l, at : Sound(l, at, tracked[p][c], rpc[p][c]) => Sound(l, at, t, slots),
         t.state = "active" => tracked[p][c].state = "active",
         Held(t) => Held(tracked[p][c]),
         slots["activate"] \in {rpc[p][c]["activate"], Idle},
         slots["reserve"] = rpc[p][c]["reserve"],
         o.owed \/ slots["release"] # Idle => pending[p][c].owed \/ rpc[p][c]["release"] # Idle
  PROVE  Keeps
<1>1. Roles(p, c, call[c].owner, tracked[p][c], rpc[p][c]) /\ SystemTypes
  BY Facts
<1>2. Turn(p, c, n, t, o, slots)
  BY <1>1, MakeTurn
<1>3. Roles(p, c, n.owner, t, slots)
  BY <1>1 DEF Roles
<1>4. Careful(p, c, n, t, o, slots)
  <2>1. ~Quiet(slots) => ~Quiet(rpc[p][c])
    BY IdleFacts DEF Quiet
  <2>2. c \in unresolved'[p] => Held(t) \/ (c \in unresolved[p] /\ ~Held(tracked[p][c]))
    <3>1. unresolved' = [unresolved EXCEPT ![p] = @ \ {c}] => c \notin unresolved'[p]
      BY <1>1 DEF SystemTypes
    <3>2. QED
      BY <3>1
  <2>3. QED
    BY <2>1, <2>2 DEF Careful
<1>5. QED
  BY <1>2, <1>3, <1>4, TurnKeeps

LEMMA FenceFacts ==
  ASSUME StoreFit, SystemFit, NEW c \in Calls, NEW r \in RpcRecord, ExtendFence(c, r)
  PROVE  \E n \in SessionRecord : /\ call' = [call EXCEPT ![c] = n]
                                  /\ n.owner = call[c].owner /\ Forward(c, n)
<1> DEFINE n == [call[c] EXCEPT !.fence = IF c \in Premium /\ r.expires > @ THEN r.expires ELSE @]
<1>1. /\ call[c] \in SessionRecord
      /\ c \in Premium => call[c].worker \notin Fronts /\ call[c].owner \notin Fronts
  BY DEF SystemFit, SystemTypes
<1>2. /\ n \in SessionRecord /\ n.owner = call[c].owner /\ n.stage = call[c].stage
      /\ n.over = call[c].over /\ n.worker = call[c].worker
  BY <1>1 DEF SessionRecord, RpcRecord
<1>3. call' = [call EXCEPT ![c] = n]
  BY DEF ExtendFence
<1> HIDE DEF n
<1>4. Forward(c, n)
  BY <1>1, <1>2 DEF Forward
<1>5. QED
  BY <1>2, <1>3, <1>4

\* A handler that changes its own slot and the session at most.
LEMMA SlotTurn ==
  ASSUME StoreFit, SystemFit, NEW p \in Workers, NEW c \in Calls, NEW n \in SessionRecord,
         NEW slots, ProcessFit(tracked[p][c], pending[p][c], slots),
         (call' = call /\ n = call[c]) \/ call' = [call EXCEPT ![c] = n],
         rpc' = [rpc EXCEPT ![p][c] = slots], n.owner = call[c].owner, Forward(c, n),
         UNCHANGED <<storeVars, tracked, unresolved, pending, media, stray, crashed>>,
         \A l, at : Sound(l, at, tracked[p][c], rpc[p][c]) => Sound(l, at, tracked[p][c], slots),
         slots["activate"] \in {rpc[p][c]["activate"], Idle},
         slots["reserve"] = rpc[p][c]["reserve"],
         slots["release"] # Idle => pending[p][c].owed \/ rpc[p][c]["release"] # Idle
  PROVE  Keeps
<1> DEFINE t == tracked[p][c]
           o == pending[p][c]
<1>1. /\ tracked' = tracked /\ pending' = pending /\ unresolved' = unresolved /\ media' = media
      /\ UNCHANGED <<storeVars, stray, crashed>>
  OBVIOUS
<1>2. /\ ProcessFit(t, o, slots) /\ t = tracked[p][c] /\ o = pending[p][c]
      /\ \A l, at : Sound(l, at, t, rpc[p][c]) => Sound(l, at, t, slots)
  OBVIOUS
<1> HIDE DEF t, o
<1>3. QED
  BY <1>1, <1>2, PlainTurn

\* A handler that returns.
LEMMA ParkTurn ==
  ASSUME StoreFit, SystemFit, NEW p \in Workers, NEW c \in Calls, NEW s \in {"activate", "renew"},
         NEW n \in SessionRecord, n.owner = call[c].owner, Forward(c, n),
         (call' = call /\ n = call[c]) \/ call' = [call EXCEPT ![c] = n],
         rpc' = [rpc EXCEPT ![p][c] = [rpc[p][c] EXCEPT ![s] = Idle]],
         UNCHANGED <<storeVars, tracked, unresolved, pending, media, stray, crashed>>
  PROVE  Keeps
<1> DEFINE parked == [rpc[p][c] EXCEPT ![s] = Idle]
<1>1. ProcessFit(tracked[p][c], pending[p][c], rpc[p][c]) /\ rpc[p][c] \in [Slots -> RpcRecord]
  BY Facts
<1>2. s \in Slots
  BY DEF Slots
<1>3. /\ ProcessFit(tracked[p][c], pending[p][c], parked)
      /\ \A l, at : Sound(l, at, tracked[p][c], rpc[p][c]) => Sound(l, at, tracked[p][c], parked)
  BY <1>1, <1>2, ParkFits
<1>4. /\ parked["activate"] \in {rpc[p][c]["activate"], Idle}
      /\ parked["reserve"] = rpc[p][c]["reserve"] /\ parked["release"] = rpc[p][c]["release"]
  BY <1>1 DEF Slots
<1>5. rpc' = [rpc EXCEPT ![p][c] = parked]
  OBVIOUS
<1> HIDE DEF parked
<1>6. QED
  BY <1>3, <1>4, <1>5, SlotTurn

LEMMA ResumeFacts ==
  ASSUME SystemFit, NEW p \in Workers, NEW c \in Calls, NEW s \in Slots, NEW r, Resume(p, c, s, r)
  PROVE  rpc' = [rpc EXCEPT ![p][c] = [rpc[p][c] EXCEPT ![s] = r]]
<1>1. rpc \in [Workers -> [Calls -> [Slots -> RpcRecord]]]
  BY DEF SystemFit, SystemTypes
<1>2. QED
  BY <1>1 DEF Resume

LEMMA MediaConfirmedKeeps ==
  ASSUME StoreFit, SystemFit, NEW p \in Workers, NEW c \in Calls, MediaConfirmed(p, c)
  PROVE  Keeps
<1>1. /\ ExtendFence(c, rpc[p][c]["activate"]) /\ Resume(p, c, "activate", Idle)
      /\ UNCHANGED <<storeVars, tracked, unresolved, pending, media, stray, crashed>>
  BY DEF MediaConfirmed
<1>2. rpc' = [rpc EXCEPT ![p][c] = [rpc[p][c] EXCEPT !["activate"] = Idle]]
  BY <1>1, ResumeFacts, SlotsDiffer
<1>3. rpc[p][c]["activate"] \in RpcRecord
  BY Facts, SlotsDiffer
<1>4. PICK n \in SessionRecord : /\ call' = [call EXCEPT ![c] = n]
                                 /\ n.owner = call[c].owner /\ Forward(c, n)
  BY <1>1, <1>3, FenceFacts
<1>5. QED
  BY <1>1, <1>2, <1>4, ParkTurn

LEMMA RenewalConfirmedKeeps ==
  ASSUME StoreFit, SystemFit, NEW p \in Workers, NEW c \in Calls, RenewalConfirmed(p, c)
  PROVE  Keeps
<1>1. /\ ExtendFence(c, rpc[p][c]["renew"]) /\ Resume(p, c, "renew", Idle)
      /\ UNCHANGED <<storeVars, tracked, unresolved, pending, media, stray, crashed>>
  BY DEF RenewalConfirmed
<1>2. rpc' = [rpc EXCEPT ![p][c] = [rpc[p][c] EXCEPT !["renew"] = Idle]]
  BY <1>1, ResumeFacts, SlotsDiffer
<1>3. rpc[p][c]["renew"] \in RpcRecord
  BY Facts, SlotsDiffer
<1>4. PICK n \in SessionRecord : /\ call' = [call EXCEPT ![c] = n]
                                 /\ n.owner = call[c].owner /\ Forward(c, n)
  BY <1>1, <1>3, FenceFacts
<1>5. QED
  BY <1>1, <1>2, <1>4, ParkTurn

\* The session of c is left alone, extended or ended.
SessionMoves(c) ==
  \E n \in SessionRecord :
    /\ (call' = call /\ n = call[c]) \/ call' = [call EXCEPT ![c] = n]
    /\ n.owner = call[c].owner /\ Forward(c, n)

LEMMA SameSession ==
  ASSUME StoreFit, SystemFit, NEW c \in Calls
  PROVE  /\ call[c] \in SessionRecord /\ Forward(c, call[c])
         /\ UNCHANGED call => SessionMoves(c)
<1>1. call[c] \in SessionRecord /\ Forward(c, call[c])
  BY DEF SystemFit, SystemTypes, Forward
<1>2. QED
  BY <1>1 DEF SessionMoves

LEMMA OtherSession ==
  ASSUME StoreFit, SystemFit, NEW c \in Calls
  PROVE  /\ EndSession(c) => SessionMoves(c)
         /\ \A r \in RpcRecord : ExtendFence(c, r) => SessionMoves(c)
<1>1. EndSession(c) => SessionMoves(c)
  <2> DEFINE n == [call[c] EXCEPT !.stage = "ended"]
  <2>1. n \in SessionRecord /\ n.owner = call[c].owner /\ Forward(c, n)
    BY EndFacts
  <2>2. EndSession(c) => call' = [call EXCEPT ![c] = n]
    BY DEF EndSession
  <2> HIDE DEF n
  <2>3. QED
    BY <2>1, <2>2 DEF SessionMoves
<1>2. ASSUME NEW r \in RpcRecord, ExtendFence(c, r)
      PROVE  SessionMoves(c)
  BY <1>2, FenceFacts DEF SessionMoves
<1>3. QED
  BY <1>1, <1>2

\* loseOwnership() of a lease the process counted on.
LEMMA LossTurn ==
  ASSUME StoreFit, SystemFit, NEW p \in Workers, NEW c \in Calls, NEW slots,
         StartLoss(p, c, slots), tracked[p][c].state = "active",
         ProcessFit(tracked[p][c], pending[p][c], slots),
         \A l, at : Sound(l, at, tracked[p][c], rpc[p][c]) => Sound(l, at, tracked[p][c], slots),
         slots["activate"] = rpc[p][c]["activate"], slots["reserve"] = rpc[p][c]["reserve"],
         slots["release"] = rpc[p][c]["release"], SessionMoves(c), UNCHANGED <<storeVars, stray, crashed>>
  PROVE  Keeps
<1> DEFINE u == [tracked[p][c] EXCEPT !.lost = TRUE]
<1>1. tracked \in [Workers -> [Calls -> TrackedRecord]]
  BY DEF SystemFit, SystemTypes
<1>2. /\ ProcessFit(u, pending[p][c], slots) /\ ~Held(u)
      /\ \A l, at : Sound(l, at, tracked[p][c], slots) => Sound(l, at, u, slots)
  BY LossFits
<1>3. /\ tracked' = [tracked EXCEPT ![p][c] = u] /\ rpc' = [rpc EXCEPT ![p][c] = slots]
      /\ unresolved' = [unresolved EXCEPT ![p] = @ \ {c}]
      /\ media' = [media EXCEPT ![p] = @ \ {c}] /\ pending' = pending
  BY <1>1 DEF StartLoss
<1> HIDE DEF u
<1>4. PICK n \in SessionRecord :
        /\ (call' = call /\ n = call[c]) \/ call' = [call EXCEPT ![c] = n]
        /\ n.owner = call[c].owner /\ Forward(c, n)
  BY DEF SessionMoves
<1>5. QED
  BY <1>2, <1>3, <1>4, PlainTurn

LEMMA DeadlinePassedKeeps ==
  ASSUME StoreFit, SystemFit, NEW p \in Workers, NEW c \in Calls, DeadlinePassed(p, c)
  PROVE  Keeps
<1>1. ProcessFit(tracked[p][c], pending[p][c], rpc[p][c])
  BY Facts
<1>2. /\ StartLoss(p, c, rpc[p][c]) /\ tracked[p][c].state = "active"
      /\ UNCHANGED <<storeVars, call, stray, crashed>>
  BY DEF DeadlinePassed, Held
<1>3. QED
  BY <1>1, <1>2, SameSession, LossTurn

LEMMA RenewalDueKeeps ==
  ASSUME StoreFit, SystemFit, NEW p \in Workers, NEW c \in Calls, RenewalDue(p, c)
  PROVE  Keeps
<1> DEFINE t == tracked[p][c]
           sent == [rpc[p][c] EXCEPT !["renew"] = Request("renew", t.worker, t.epoch)]
<1>1. /\ ProcessFit(t, pending[p][c], rpc[p][c]) /\ rpc[p][c] \in [Slots -> RpcRecord]
      /\ t \in TrackedRecord /\ rpc \in [Workers -> [Calls -> [Slots -> RpcRecord]]]
  BY Facts DEF SystemTypes
<1>2. t.state = "active"
  BY DEF RenewalDue, Held
<1>3. /\ t.worker \in MaybeWorker /\ t.epoch \in Nat /\ CommandFit("renew", t.worker, t.epoch)
      /\ "renew" \in Slots /\ "renew" \in CommandsOf("renew")
  BY <1>1, <1>2 DEF ProcessFit, CommandFit, CommandsOf, Slots, TrackedRecord
<1>4. /\ ProcessFit(t, pending[p][c], sent)
      /\ \A l, at : Sound(l, at, t, rpc[p][c]) => Sound(l, at, t, sent)
  BY <1>1, <1>2, <1>3, SendFits
<1>5. /\ sent["activate"] = rpc[p][c]["activate"] /\ sent["reserve"] = rpc[p][c]["reserve"]
      /\ sent["release"] = rpc[p][c]["release"]
  BY <1>1 DEF Slots
<1>6. /\ rpc' = [rpc EXCEPT ![p][c] = sent]
      /\ UNCHANGED <<storeVars, call, tracked, unresolved, pending, media, stray, crashed>>
  BY <1>1 DEF RenewalDue, Resume
<1> HIDE DEF sent, t
<1>7. QED
  BY <1>4, <1>5, <1>6, SameSession, PlainTurn DEF t

LEMMA RetryReleaseKeeps ==
  ASSUME StoreFit, SystemFit, NEW p \in Workers, NEW c \in Calls, RetryRelease(p, c)
  PROVE  Keeps
<1> DEFINE t == tracked[p][c]
           o == pending[p][c]
           sent == [rpc[p][c] EXCEPT !["release"] = Request("release", o.worker, o.epoch)]
<1>1. ProcessFit(t, o, rpc[p][c]) /\ rpc[p][c] \in [Slots -> RpcRecord] /\ o \in PendingRecord
  BY Facts
<1>2. /\ o.worker \in MaybeWorker /\ o.epoch \in Nat /\ CommandFit("release", o.worker, o.epoch)
      /\ "release" \in Slots /\ "release" \in CommandsOf("release")
  BY <1>1 DEF ProcessFit, CommandsOf, Slots, PendingRecord
<1>3. /\ ProcessFit(t, o, sent)
      /\ \A l, at : Sound(l, at, t, rpc[p][c]) => Sound(l, at, t, sent)
  BY <1>1, <1>2, SendFits
<1>4. sent["activate"] = rpc[p][c]["activate"] /\ sent["reserve"] = rpc[p][c]["reserve"]
  BY <1>1 DEF Slots
<1>5. rpc' = [rpc EXCEPT ![p][c] = sent]
  BY ResumeFacts, SlotsDiffer DEF RetryRelease
<1>6. /\ o.owed
      /\ UNCHANGED <<storeVars, call, tracked, unresolved, pending, media, stray, crashed>>
  BY DEF RetryRelease
<1> HIDE DEF sent
<1>7. QED
  BY <1>3, <1>4, <1>5, <1>6, SameSession, SlotTurn

LEMMA ReleaseAnsweredKeeps ==
  ASSUME StoreFit, SystemFit, NEW p \in Workers, NEW c \in Calls, ReleaseAnswered(p, c)
  PROVE  Keeps
<1> DEFINE t == tracked[p][c]
           o == pending[p][c]
           u == IF rpc[p][c]["release"].out = "unavailable" THEN o ELSE NothingOwed
           parked == [rpc[p][c] EXCEPT !["release"] = Idle]
<1>1. ProcessFit(t, o, rpc[p][c]) /\ rpc[p][c] \in [Slots -> RpcRecord]
  BY Facts
<1>2. /\ ProcessFit(t, o, parked)
      /\ \A l, at : Sound(l, at, t, rpc[p][c]) => Sound(l, at, t, parked)
  BY <1>1, ParkFits, SlotsDiffer
<1>3. /\ parked["activate"] = rpc[p][c]["activate"] /\ parked["reserve"] = rpc[p][c]["reserve"]
      /\ parked["release"] = Idle
  BY <1>1 DEF Slots
<1>4. u \in PendingRecord /\ CommandFit("release", u.worker, u.epoch) /\ (u.owed => o.owed)
  BY <1>1 DEF ProcessFit, PendingRecord, NothingOwed, MaybeWorker, CommandFit
<1>5. /\ rpc' = [rpc EXCEPT ![p][c] = parked]
  BY ResumeFacts, SlotsDiffer DEF ReleaseAnswered
<1>6. pending' = [pending EXCEPT ![p][c] = u]
  <2>1. pending' = [pending EXCEPT ![p][c] = IF rpc[p][c]["release"].out = "unavailable"
                                            THEN @ ELSE NothingOwed]
    BY DEF ReleaseAnswered
  <2>2. QED
    BY <2>1
<1>7. /\ tracked' = tracked /\ unresolved' = unresolved /\ media' = media /\ call' = call
      /\ UNCHANGED <<storeVars, stray, crashed>>
  BY DEF ReleaseAnswered
<1> HIDE DEF u, parked
<1>8. ProcessFit(t, u, parked)
  BY <1>2, <1>4 DEF ProcessFit
<1> HIDE DEF t
<1>9. t = tracked[p][c] /\ \A l, at : Sound(l, at, tracked[p][c], rpc[p][c]) => Sound(l, at, t, parked)
  BY <1>2 DEF t
<1>10. QED
  BY <1>3, <1>4, <1>5, <1>6, <1>7, <1>8, <1>9, SameSession, PlainTurn

LEMMA CloseStreamKeeps ==
  ASSUME StoreFit, SystemFit, NEW p \in Workers, NEW c \in Calls, CloseStream(p, c)
  PROVE  Keeps
<1> DEFINE t == tracked[p][c]
           o == pending[p][c]
           s == rpc[p][c]
<1>1. ProcessFit(t, o, s)
  BY Facts
<1>2. /\ media' = [media EXCEPT ![p] = @ \ {c}] /\ call' = call
      /\ tracked' = tracked /\ t = tracked[p][c] /\ pending' = pending /\ o = pending[p][c]
      /\ rpc' = rpc /\ s = rpc[p][c] /\ unresolved' = unresolved
      /\ UNCHANGED <<storeVars, stray, crashed>>
  BY DEF CloseStream
<1> HIDE DEF t, o, s
<1>3. QED
  BY <1>1, <1>2, SameSession, PlainTurn

LEMMA RenewalFacts ==
  ASSUME StoreFit, SystemFit, NEW p \in Workers, NEW c \in Calls, rpc[p][c]["renew"] # Idle
  PROVE  /\ rpc[p][c]["renew"].mine =>
              /\ tracked[p][c].state = "active"
              /\ rpc[p][c]["renew"].worker = tracked[p][c].worker
              /\ tracked[p][c].worker \in Workers
         /\ rpc[p][c]["renew"] \in RpcRecord /\ rpc[p][c]["renew"].worker \in Workers
         /\ rpc[p][c]["renew"].cmd \in {"renew", "recover"}
<1> DEFINE t == tracked[p][c]
           r == rpc[p][c]["renew"]
<1>1. /\ ProcessFit(t, pending[p][c], rpc[p][c]) /\ r \in RpcRecord
  BY Facts, SlotsDiffer
<1>2. SlotFit("renew", r) /\ RenewalFit(t, r) /\ (t.state # "none" => t.worker \in Workers)
  BY <1>1, SlotsDiffer DEF ProcessFit
<1> HIDE DEF t, r
<1>3. r # Idle
  BY DEF r
<1>4. r.cmd \in {"renew", "recover"} /\ r.worker \in Workers
  BY <1>2, <1>3 DEF SlotFit, CommandsOf
<1>5. r.mine => t.state = "active" /\ r.worker = t.worker /\ t.worker \in Workers
  BY <1>2, <1>3 DEF RenewalFit
<1>6. QED
  BY <1>1, <1>4, <1>5 DEF t, r

\* A renewal or recovery that gives the lease up.
LEMMA RenewalLossKeeps ==
  ASSUME StoreFit, SystemFit, NEW p \in Workers, NEW c \in Calls, rpc[p][c]["renew"] # Idle,
         StillTracked(p, c), StartLoss(p, c, Parked(p, c, "renew")),
         SessionMoves(c), UNCHANGED <<storeVars, stray, crashed>>
  PROVE  Keeps
<1> DEFINE parked == [rpc[p][c] EXCEPT !["renew"] = Idle]
<1>1. ProcessFit(tracked[p][c], pending[p][c], rpc[p][c]) /\ rpc[p][c] \in [Slots -> RpcRecord]
  BY Facts
<1>2. /\ ProcessFit(tracked[p][c], pending[p][c], parked)
      /\ \A l, at : Sound(l, at, tracked[p][c], rpc[p][c]) => Sound(l, at, tracked[p][c], parked)
  BY <1>1, ParkFits, SlotsDiffer
<1>3. /\ parked["activate"] = rpc[p][c]["activate"] /\ parked["reserve"] = rpc[p][c]["reserve"]
      /\ parked["release"] = rpc[p][c]["release"]
  BY <1>1 DEF Slots
<1>4. tracked[p][c].state = "active"
  BY RenewalFacts DEF StillTracked
<1>5. StartLoss(p, c, parked)
  BY DEF Parked
<1> HIDE DEF parked
<1>6. QED
  BY <1>2, <1>3, <1>4, <1>5, LossTurn

\* A renewal or recovery that returns.
LEMMA RenewalParkKeeps ==
  ASSUME StoreFit, SystemFit, NEW p \in Workers, NEW c \in Calls, Resume(p, c, "renew", Idle),
         SessionMoves(c),
         UNCHANGED <<storeVars, tracked, unresolved, pending, media, stray, crashed>>
  PROVE  Keeps
<1>1. rpc' = [rpc EXCEPT ![p][c] = [rpc[p][c] EXCEPT !["renew"] = Idle]]
  BY ResumeFacts, SlotsDiffer
<1>2. PICK n \in SessionRecord :
        /\ (call' = call /\ n = call[c]) \/ call' = [call EXCEPT ![c] = n]
        /\ n.owner = call[c].owner /\ Forward(c, n)
  BY DEF SessionMoves
<1>3. QED
  BY <1>1, <1>2, ParkTurn

\* The stream is closed after a write that threw; what is tracked and owed stays.
LEMMA MediaStartThrowsKeeps ==
  ASSUME StoreFit, SystemFit, NEW p \in Workers, NEW c \in Calls, MediaStartThrows(p, c)
  PROVE  Keeps
<1> DEFINE t == tracked[p][c]
           o == pending[p][c]
           parked == [rpc[p][c] EXCEPT !["activate"] = Idle]
<1>1. /\ ProcessFit(t, o, rpc[p][c]) /\ rpc[p][c] \in [Slots -> RpcRecord]
      /\ rpc[p][c]["activate"] \in RpcRecord
  BY Facts, SlotsDiffer
<1>2. /\ ExtendFence(c, rpc[p][c]["activate"]) \/ UNCHANGED call \/ EndSession(c)
      /\ rpc' = [rpc EXCEPT ![p][c] = parked] /\ media' = [media EXCEPT ![p] = @ \ {c}]
      /\ UNCHANGED <<storeVars, tracked, unresolved, pending, stray, crashed>>
  BY ResumeFacts, SlotsDiffer DEF MediaStartThrows
<1>3. PICK n \in SessionRecord :
        /\ (call' = call /\ n = call[c]) \/ call' = [call EXCEPT ![c] = n]
        /\ n.owner = call[c].owner /\ Forward(c, n)
  BY <1>1, <1>2, SameSession, OtherSession DEF SessionMoves
<1>4. /\ ProcessFit(t, o, parked)
      /\ \A l, at : Sound(l, at, t, rpc[p][c]) => Sound(l, at, t, parked)
  BY <1>1, ParkFits, SlotsDiffer
<1>5. /\ parked["activate"] = Idle /\ parked["reserve"] = rpc[p][c]["reserve"]
      /\ parked["release"] = rpc[p][c]["release"]
  BY <1>1 DEF Slots
<1>6. /\ tracked' = tracked /\ t = tracked[p][c] /\ pending' = pending /\ o = pending[p][c]
      /\ unresolved' = unresolved /\ UNCHANGED <<storeVars, stray, crashed>>
      /\ t.state = "active" => tracked[p][c].state = "active"
      /\ Held(t) => Held(tracked[p][c])
  BY <1>2
<1> HIDE DEF t, o, parked
<1>7. QED
  BY <1>2, <1>3, <1>4, <1>5, <1>6, PlainTurn

LEMMA RenewalRejectedKeeps ==
  ASSUME StoreFit, SystemFit, NEW p \in Workers, NEW c \in Calls, RenewalRejected(p, c)
  PROVE  Keeps
<1>1. /\ rpc[p][c]["renew"] # Idle /\ UNCHANGED <<storeVars, stray, crashed>>
      /\ ExtendFence(c, rpc[p][c]["renew"]) \/ UNCHANGED call
  BY IdleFacts DEF RenewalRejected
<1>2. SessionMoves(c)
  BY <1>1, RenewalFacts, SameSession, OtherSession
<1>3. CASE StillTracked(p, c)
  BY <1>1, <1>2, <1>3, RenewalLossKeeps DEF RenewalRejected
<1>4. CASE ~StillTracked(p, c)
  BY <1>1, <1>2, <1>4, RenewalParkKeeps DEF RenewalRejected
<1>5. QED
  BY <1>3, <1>4

\* The entry of a confirmed renewal takes its epoch and its end from the answer.
Refreshed(t, r) == IF r.mine THEN [t EXCEPT !.epoch = r.epoch, !.deadline = r.expires] ELSE t

LEMMA RefreshFits ==
  ASSUME NEW t, NEW o, NEW slots, ProcessFit(t, o, slots), Promising(slots["renew"]),
         NEW u, u = Refreshed(t, slots["renew"]),
         NEW put, put = [slots EXCEPT !["renew"] = [slots["renew"] EXCEPT !.stage = "confirming"]]
  PROVE  /\ ProcessFit(u, o, put)
         /\ \A l, at : Sound(l, at, t, slots) => Sound(l, at, u, put)
         /\ u.state = t.state /\ u.lost = t.lost
<1> DEFINE r == slots["renew"]
           conf == [r EXCEPT !.stage = "confirming"]
<1>1. /\ t \in TrackedRecord /\ o \in PendingRecord /\ slots \in [Slots -> RpcRecord]
      /\ r \in RpcRecord /\ SlotFit("renew", r) /\ RenewalFit(t, r) /\ r # Idle
      /\ r.stage = "answered" /\ r.out \in Confirming
  BY IdleFacts, SlotsDiffer DEF ProcessFit, Promising
<1>2. r.cmd \in {"renew", "recover"} /\ r.worker \in Workers /\ r.epoch \in Epochs
  BY <1>1 DEF SlotFit, CommandsOf, Confirmed
<1>3. /\ conf \in RpcRecord /\ conf.stage = "confirming" /\ conf.cmd = r.cmd
      /\ conf.worker = r.worker /\ conf.epoch = r.epoch /\ conf.out = r.out
      /\ conf.mine = r.mine
  BY <1>1 DEF RpcRecord
<1>4. put["renew"] = conf /\ put \in [Slots -> RpcRecord] /\ \A s \in Slots \ {"renew"} : put[s] = slots[s]
  BY <1>1, <1>3 DEF Slots
<1>5. /\ u \in TrackedRecord /\ u.state = t.state /\ u.lost = t.lost /\ u.worker = t.worker
      /\ r.mine => u.epoch = r.epoch /\ u.deadline = r.expires
      /\ ~r.mine => u = t
  BY <1>1 DEF Refreshed, TrackedRecord, RpcRecord
<1> HIDE DEF conf
<1>6. SlotFit("renew", conf) /\ ~Promising(conf)
  BY <1>2, <1>3 DEF SlotFit, CommandsOf, Promising
<1>7. RenewalFit(u, conf)
  BY <1>1, <1>3, <1>5 DEF RenewalFit
<1>8. /\ u.state # "none" => u.worker \in Workers
      /\ u.state = "active" => u.epoch \in Epochs /\ put["activate"].stage \in {"idle", "confirming"}
      /\ u.lost => u.state = "active"
  <2>1. t.state = "active" => t.epoch \in Epochs /\ put["activate"].stage \in {"idle", "confirming"}
    BY <1>4, SlotsDiffer DEF ProcessFit
  <2>2. (t.state # "none" => t.worker \in Workers) /\ (t.lost => t.state = "active")
    BY DEF ProcessFit
  <2>3. QED
    BY <1>2, <1>5, <2>1, <2>2
<1>9. ProcessFit(u, o, put)
  <2>1. \A s \in Slots : SlotFit(s, put[s])
    BY <1>4, <1>6 DEF ProcessFit
  <2>2. CommandFit("release", o.worker, o.epoch)
    BY DEF ProcessFit
  <2>3. QED
    BY <1>1, <1>4, <1>5, <1>7, <1>8, <2>1, <2>2 DEF ProcessFit
<1>10. ASSUME NEW l, NEW at, Sound(l, at, t, slots)
       PROVE  Sound(l, at, u, put)
  <2>1. Held(u) <=> Held(t)
    BY <1>5 DEF Held
  <2>2. Held(u) => Backs(l, at, u.worker, u.epoch, u.deadline)
    <3>1. CASE r.mine
      <4>1. Held(t) => Backs(l, at, r.worker, r.epoch, r.expires)
        BY <1>10, <3>1 DEF Sound, Held
      <4>2. r.worker = u.worker
        BY <1>1, <1>5, <3>1 DEF RenewalFit
      <4>3. QED
        BY <1>5, <2>1, <3>1, <4>1, <4>2
    <3>2. CASE ~r.mine
      BY <1>5, <1>10, <2>1, <3>2 DEF Sound
    <3>3. QED
      BY <3>1, <3>2
  <2>3. put["activate"] = slots["activate"]
    BY <1>4, SlotsDiffer
  <2>4. QED
    BY <1>4, <1>6, <1>10, <2>2, <2>3 DEF Sound
<1>11. QED
  BY <1>5, <1>9, <1>10

\* The lease is no longer in doubt: another entry takes the place of the old one.
LEMMA ResolvedKeeps ==
  ASSUME StoreFit, SystemFit, NEW p \in Workers, NEW c \in Calls, NEW u, NEW slots,
         ProcessFit(u, pending[p][c], slots), u.state = tracked[p][c].state,
         Held(u) => Held(tracked[p][c]),
         \A l, at : Sound(l, at, tracked[p][c], rpc[p][c]) => Sound(l, at, u, slots),
         slots["activate"] = rpc[p][c]["activate"], slots["reserve"] = rpc[p][c]["reserve"],
         slots["release"] = rpc[p][c]["release"],
         tracked' = [tracked EXCEPT ![p][c] = u], rpc' = [rpc EXCEPT ![p][c] = slots],
         unresolved' = [unresolved EXCEPT ![p] = @ \ {c}],
         UNCHANGED <<storeVars, call, pending, media, stray, crashed>>
  PROVE  Keeps
<1> DEFINE o == pending[p][c]
<1>1. /\ pending' = pending /\ media' = media /\ call' = call
      /\ UNCHANGED <<storeVars, stray, crashed>>
  OBVIOUS
<1>2. ProcessFit(u, o, slots) /\ o = pending[p][c]
  OBVIOUS
<1> HIDE DEF o
<1>3. QED
  BY <1>1, <1>2, SameSession, PlainTurn

\* A confirmed renewal or recovery.
LEMMA RefreshKeeps ==
  ASSUME StoreFit, SystemFit, NEW p \in Workers, NEW c \in Calls, Promising(rpc[p][c]["renew"]),
         tracked' = [tracked EXCEPT ![p][c] = Refreshed(tracked[p][c], rpc[p][c]["renew"])],
         unresolved' = [unresolved EXCEPT ![p] = @ \ {c}],
         Resume(p, c, "renew", [rpc[p][c]["renew"] EXCEPT !.stage = "confirming"]),
         UNCHANGED <<storeVars, call, pending, media, stray, crashed>>
  PROVE  Keeps
<1> DEFINE u == Refreshed(tracked[p][c], rpc[p][c]["renew"])
           put == [rpc[p][c] EXCEPT !["renew"] = [rpc[p][c]["renew"] EXCEPT !.stage = "confirming"]]
<1>1. ProcessFit(tracked[p][c], pending[p][c], rpc[p][c]) /\ rpc[p][c] \in [Slots -> RpcRecord]
  BY Facts
<1>2. /\ ProcessFit(u, pending[p][c], put)
      /\ u.state = tracked[p][c].state /\ u.lost = tracked[p][c].lost
      /\ \A l, at : Sound(l, at, tracked[p][c], rpc[p][c]) => Sound(l, at, u, put)
  BY <1>1, RefreshFits
<1>3. /\ put["activate"] = rpc[p][c]["activate"] /\ put["reserve"] = rpc[p][c]["reserve"]
      /\ put["release"] = rpc[p][c]["release"]
  BY <1>1 DEF Slots
<1>4. rpc' = [rpc EXCEPT ![p][c] = put] /\ tracked' = [tracked EXCEPT ![p][c] = u]
  BY ResumeFacts, SlotsDiffer
<1> HIDE DEF put, u
<1>5. Held(u) => Held(tracked[p][c])
  BY <1>2 DEF Held
<1>6. QED
  BY <1>2, <1>3, <1>4, <1>5, ResolvedKeeps

\* The lease is in doubt: the entry stays as it is.
LEMMA DoubtKeeps ==
  ASSUME StoreFit, SystemFit, NEW p \in Workers, NEW c \in Calls, NEW slots,
         ProcessFit(tracked[p][c], pending[p][c], slots), Held(tracked[p][c]),
         \A l, at : Sound(l, at, tracked[p][c], rpc[p][c]) => Sound(l, at, tracked[p][c], slots),
         slots["activate"] = rpc[p][c]["activate"], slots["reserve"] = rpc[p][c]["reserve"],
         slots["release"] = rpc[p][c]["release"],
         rpc' = [rpc EXCEPT ![p][c] = slots],
         unresolved' = [unresolved EXCEPT ![p] = @ \cup {c}],
         UNCHANGED <<storeVars, call, tracked, pending, media, stray, crashed>>
  PROVE  Keeps
<1> DEFINE t == tracked[p][c]
           o == pending[p][c]
<1>1. /\ tracked' = tracked /\ pending' = pending /\ media' = media /\ call' = call
      /\ UNCHANGED <<storeVars, stray, crashed>>
  OBVIOUS
<1>2. /\ ProcessFit(t, o, slots) /\ t = tracked[p][c] /\ o = pending[p][c] /\ Held(t)
      /\ \A l, at : Sound(l, at, t, rpc[p][c]) => Sound(l, at, t, slots)
  OBVIOUS
<1> HIDE DEF t, o
<1>3. QED
  BY <1>1, <1>2, SameSession, PlainTurn

LEMMA RenewAnsweredKeeps ==
  ASSUME StoreFit, SystemFit, NEW p \in Workers, NEW c \in Calls, RenewAnswered(p, c)
  PROVE  Keeps
<1> DEFINE t == tracked[p][c]
           s == rpc[p][c]
           r == s["renew"]
           parked == [s EXCEPT !["renew"] = Idle]
<1>1. /\ ProcessFit(t, pending[p][c], s) /\ s \in [Slots -> RpcRecord] /\ t \in TrackedRecord
  BY Facts
<1>2. /\ r # Idle /\ r.stage = "answered" /\ r.cmd = "renew"
      /\ UNCHANGED <<storeVars, call, stray, crashed>>
  BY IdleFacts DEF RenewAnswered, Answered
<1>3. r.mine => t.state = "active" /\ t.worker \in Workers /\ r.worker = t.worker
  BY <1>2, RenewalFacts
<1>4. StillTracked(p, c) => r.mine /\ ~t.lost /\ Held(t)
  BY <1>3 DEF StillTracked, Held
<1>5. CASE /\ Resume(p, c, "renew", Idle)
           /\ UNCHANGED <<tracked, unresolved, pending, media>>
  BY <1>2, <1>5, SameSession, RenewalParkKeeps
<1>6. CASE StillTracked(p, c) /\ StartLoss(p, c, Parked(p, c, "renew"))
  BY <1>2, <1>6, SameSession, RenewalLossKeeps
<1>7. CASE /\ StillTracked(p, c) /\ r.out = "renewed"
           /\ tracked' = [tracked EXCEPT ![p][c].deadline = ConfirmedUntil(r)]
           /\ unresolved' = [unresolved EXCEPT ![p] = @ \ {c}]
           /\ Resume(p, c, "renew", [r EXCEPT !.stage = "confirming"])
           /\ UNCHANGED <<pending, media>>
  <2>1. Promising(r)
    BY <1>2, <1>7 DEF Promising, Confirming
  <2>2. RenewalFit(t, r)
    BY <1>1 DEF ProcessFit
  <2>3. r.epoch = t.epoch
    BY <1>2, <1>4, <1>7, <2>2 DEF RenewalFit
  <2>4. [t EXCEPT !.deadline = r.expires] = [t EXCEPT !.epoch = r.epoch, !.deadline = r.expires]
    BY <1>1, <2>3 DEF TrackedRecord
  <2>5. tracked \in [Workers -> [Calls -> TrackedRecord]]
    BY DEF SystemFit, SystemTypes
  <2>6. tracked' = [tracked EXCEPT ![p][c] = [t EXCEPT !.deadline = r.expires]]
    BY <1>7, <2>5 DEF ConfirmedUntil
  <2>7. tracked' = [tracked EXCEPT ![p][c] = Refreshed(t, r)]
    BY <1>4, <1>7, <2>4, <2>6 DEF Refreshed
  <2>8. QED
    BY <1>2, <1>7, <2>1, <2>7, RefreshKeeps
<1>8. CASE /\ StillTracked(p, c)
           /\ unresolved' = [unresolved EXCEPT ![p] = @ \cup {c}]
           /\ Resume(p, c, "renew", Idle)
           /\ UNCHANGED <<tracked, pending, media>>
  <2>1. /\ ProcessFit(t, pending[p][c], parked)
        /\ \A l, at : Sound(l, at, t, s) => Sound(l, at, t, parked)
    BY <1>1, ParkFits, SlotsDiffer
  <2>2. parked["activate"] = s["activate"] /\ parked["reserve"] = s["reserve"] /\ parked["release"] = s["release"]
    BY <1>1 DEF Slots
  <2>3. rpc' = [rpc EXCEPT ![p][c] = parked]
    BY <1>8, ResumeFacts, SlotsDiffer
  <2> HIDE DEF parked
  <2>4. QED
    BY <1>2, <1>4, <1>8, <2>1, <2>2, <2>3, DoubtKeeps
<1>9. CASE /\ StillTracked(p, c)
           /\ unresolved' = [unresolved EXCEPT ![p] = @ \cup {c}]
           /\ Resume(p, c, "renew", Request("recover", t.worker, 0))
           /\ UNCHANGED <<tracked, pending, media>>
  <2> DEFINE sent == [s EXCEPT !["renew"] = Request("recover", t.worker, 0)]
  <2>1. /\ t.worker \in MaybeWorker /\ CommandFit("recover", t.worker, 0)
        /\ "renew" \in Slots /\ "recover" \in CommandsOf("renew") /\ t.state = "active"
    BY <1>3, <1>4, <1>9 DEF CommandFit, CommandsOf, Slots, MaybeWorker
  <2>2. /\ ProcessFit(t, pending[p][c], sent)
        /\ \A l, at : Sound(l, at, t, s) => Sound(l, at, t, sent)
    BY <1>1, <2>1, SendFits
  <2>3. sent["activate"] = s["activate"] /\ sent["reserve"] = s["reserve"] /\ sent["release"] = s["release"]
    BY <1>1 DEF Slots
  <2>4. rpc' = [rpc EXCEPT ![p][c] = sent]
    BY <1>9, ResumeFacts, SlotsDiffer
  <2> HIDE DEF sent
  <2>5. QED
    BY <1>2, <1>4, <1>9, <2>2, <2>3, <2>4, DoubtKeeps
<1>10. QED
  BY <1>5, <1>6, <1>7, <1>8, <1>9 DEF RenewAnswered

LEMMA RecoverAnsweredKeeps ==
  ASSUME StoreFit, SystemFit, NEW p \in Workers, NEW c \in Calls, RecoverAnswered(p, c)
  PROVE  Keeps
<1> DEFINE t == tracked[p][c]
           r == rpc[p][c]["renew"]
<1>1. /\ r # Idle /\ r.stage = "answered" /\ r.cmd = "recover"
      /\ UNCHANGED <<storeVars, call, stray, crashed>>
  BY IdleFacts DEF RecoverAnswered, Answered
<1>2. CASE /\ r.out \in {"activated", "existing"}
           /\ tracked' = [tracked EXCEPT ![p][c] =
                IF r.mine THEN [@ EXCEPT !.epoch = r.epoch, !.deadline = ConfirmedUntil(r)] ELSE @]
           /\ unresolved' = [unresolved EXCEPT ![p] = @ \ {c}]
           /\ Resume(p, c, "renew", [r EXCEPT !.stage = "confirming"])
           /\ UNCHANGED <<pending, media>>
  <2>1. Promising(r)
    BY <1>1, <1>2 DEF Promising, Confirming
  <2>2. tracked' = [tracked EXCEPT ![p][c] = Refreshed(t, r)]
    BY <1>2 DEF Refreshed, ConfirmedUntil
  <2>3. QED
    BY <1>1, <1>2, <2>1, <2>2, RefreshKeeps
<1>3. CASE StillTracked(p, c) /\ StartLoss(p, c, Parked(p, c, "renew"))
  BY <1>1, <1>3, SameSession, RenewalLossKeeps
<1>4. CASE /\ Resume(p, c, "renew", Idle)
           /\ UNCHANGED <<tracked, unresolved, pending, media>>
  BY <1>1, <1>4, SameSession, RenewalParkKeeps
<1>5. QED
  BY <1>2, <1>3, <1>4 DEF RecoverAnswered

-----------------------------------------------------------------------------
(* The connection *)

\* What is counted on stays true of a record whose live active lease goes on.
LEMMA SoundExtends ==
  ASSUME NEW t, NEW o, NEW slots, ProcessFit(t, o, slots), NEW at \in Nat, NEW l, NEW l2,
         Sound(l, at, t, slots), l.expires \in Nat, l2.expires \in Nat,
         l.state = "active" /\ l.expires > at =>
           /\ l2.state = "active" /\ l2.worker = l.worker /\ l2.epoch = l.epoch
           /\ l2.expires >= l.expires
  PROVE  Sound(l2, at, t, slots)
<1>1. ASSUME NEW w, NEW epoch, NEW until \in Nat, Backs(l, at, w, epoch, until)
      PROVE  Backs(l2, at, w, epoch, until)
  BY <1>1 DEF Backs
<1>2. /\ t.deadline \in Nat /\ slots["activate"].expires \in Nat
      /\ slots["renew"].expires \in Nat
  BY SlotsDiffer DEF ProcessFit, TrackedRecord, RpcRecord
<1>3. QED
  BY <1>1, <1>2 DEF Sound

\* Nothing is counted on of an abandoned call.
LEMMA AbandonedSound ==
  ASSUME StoreFit, SystemFit, NEW c \in Calls, Abandoned(c), NEW p \in Workers, NEW l, NEW at
  PROVE  Sound(l, at, tracked[p][c], rpc[p][c])
<1>1. ~Held(tracked[p][c]) /\ Quiet(rpc[p][c])
  BY DEF Abandoned
<1>2. RenewalFit(tracked[p][c], rpc[p][c]["renew"])
  BY Facts DEF ProcessFit
<1>3. QED
  BY <1>1, <1>2, IdleFacts DEF Sound, Quiet, Promising, Held, RenewalFit

\* A script takes nothing from what is counted on: a release is only under way
\* for a call that is abandoned or over.
LEMMA ExecuteKeepsSound ==
  ASSUME StoreFit, SystemFit, BackInv, Workers # {}, NEW c \in Calls, NEW cmd \in Commands,
         NEW w, NEW epoch, CommandFit(cmd, w, epoch), NEW out \in Store!Outcomes,
         Execute(c, cmd, w, epoch, out), cmd = "release" => ~ReleaseFree(c),
         NEW d \in Calls, Running(d), NEW p \in Workers
  PROVE  Sound(lease'[d], now', tracked[p][d], rpc[p][d])
<1>1. StoreFit' /\ now' = now /\ \A e \in Calls : e # c => lease'[e] = lease[e]
  BY ExecuteKeepsStore
<1>2. Sound(lease[d], now, tracked[p][d], rpc[p][d])
  BY DEF BackInv
<1>3. CASE d # c
  BY <1>1, <1>2, <1>3
<1>4. CASE d = c /\ cmd = "release"
  <2>1. Abandoned(c)
    BY <1>4 DEF BackInv
  <2>2. QED
    BY <1>1, <1>4, <2>1, AbandonedSound
<1>5. CASE d = c /\ cmd # "release"
  <2>1. /\ lease[c].expires \in Nat /\ lease'[c].expires \in Nat /\ now \in Nat
    BY <1>1, StoreTypes DEF StoreFit, Admission!StoreInv, Admission!TypeOK, Admission!LeaseRecord
  <2>2. lease[c].state = "active" /\ lease[c].expires > now =>
          /\ lease'[c].state = "active" /\ lease'[c].worker = lease[c].worker
          /\ lease'[c].epoch = lease[c].epoch /\ lease'[c].expires >= lease[c].expires
    BY <1>5, ExecuteExtends
  <2>3. ProcessFit(tracked[p][c], pending[p][c], rpc[p][c])
    BY Facts
  <2>4. Sound(lease'[c], now, tracked[p][c], rpc[p][c])
    BY <1>2, <1>5, <2>1, <2>2, <2>3, SoundExtends
  <2>5. QED
    BY <1>1, <1>5, <2>4
<1>6. QED
  BY <1>3, <1>4, <1>5

\* What is counted on of the running calls stays true of the next store.
StillSound ==
  BackInv => \A d \in Calls : Running(d) =>
               \A q \in Workers : Sound(lease'[d], now', tracked[q][d], rpc[q][d])

\* r is the command that slot s has sent, answered.
Answers(slots, s, r) ==
  /\ slots[s].stage = "sent" /\ r \in RpcRecord /\ r.stage = "answered"
  /\ r.cmd = slots[s].cmd /\ r.worker = slots[s].worker /\ r.mine = slots[s].mine
  /\ Confirmed(r) => r.epoch \in Epochs /\ (r.cmd = "renew" => r.epoch = slots[s].epoch)

\* A confirming answer r tells the record l of the store.
Tells(l, r) ==
  Confirmed(r) =>
    /\ l.state = "active" /\ l.worker = r.worker /\ l.epoch = r.epoch /\ l.expires = r.expires

\* An answer, or the lack of one, reaches a slot.
LEMMA AnswerFits ==
  ASSUME NEW t, NEW o, NEW slots, ProcessFit(t, o, slots), NEW s \in Slots, NEW r,
         Answers(slots, s, r)
  PROVE  /\ ProcessFit(t, o, [slots EXCEPT ![s] = r])
         /\ \A l, at : Sound(l, at, t, slots) /\ Tells(l, r)
                        => Sound(l, at, t, [slots EXCEPT ![s] = r])
<1> DEFINE put == [slots EXCEPT ![s] = r]
<1>1. /\ slots[s].stage = "sent" /\ r \in RpcRecord /\ r.stage = "answered"
      /\ r.cmd = slots[s].cmd /\ r.worker = slots[s].worker /\ r.mine = slots[s].mine
      /\ Confirmed(r) => r.epoch \in Epochs /\ (r.cmd = "renew" => r.epoch = slots[s].epoch)
  BY DEF Answers
<1>2. SlotFit(s, slots[s]) /\ slots[s] # Idle /\ slots \in [Slots -> RpcRecord]
  BY <1>1, IdleFacts DEF ProcessFit
<1>3. SlotFit(s, r)
  BY <1>1, <1>2 DEF SlotFit
<1>4. s = "activate" => t.state # "active"
  BY <1>1 DEF ProcessFit
<1>5. s = "renew" => RenewalFit(t, r)
  <2>1. ASSUME s = "renew", r.mine
        PROVE  /\ t.state = "active" /\ r.worker = t.worker
               /\ r.cmd = "renew" => slots[s].epoch = t.epoch
    BY <1>1, <1>2, <2>1 DEF ProcessFit, RenewalFit
  <2>2. r.cmd = "renew" /\ r.out = "renewed" => Confirmed(r)
    BY <1>1 DEF Confirmed, Confirming
  <2>3. QED
    BY <1>1, <2>1, <2>2 DEF RenewalFit
<1>6. ProcessFit(t, o, put)
  BY <1>1, <1>3, <1>4, <1>5, PutFits
<1>7. ASSUME NEW l, NEW at, Sound(l, at, t, slots), Tells(l, r)
      PROVE  Sound(l, at, t, put)
  <2>1. put[s] = r /\ \A x \in Slots \ {s} : put[x] = slots[x]
    BY <1>2
  <2>2. Promising(r) => Backs(l, at, r.worker, r.epoch, r.expires)
    <3>1. r.expires \in Nat
      BY <1>1 DEF RpcRecord
    <3>2. QED
      BY <1>7, <3>1 DEF Promising, Confirmed, Tells, Backs
  <2>3. Promising(put["activate"]) =>
          Backs(l, at, put["activate"].worker, put["activate"].epoch, put["activate"].expires)
    BY <1>7, <2>1, <2>2, SlotsDiffer DEF Sound
  <2>4. Promising(put["renew"]) /\ put["renew"].mine /\ ~t.lost =>
          Backs(l, at, put["renew"].worker, put["renew"].epoch, put["renew"].expires)
    BY <1>7, <2>1, <2>2, SlotsDiffer DEF Sound
  <2>5. QED
    BY <1>7, <2>3, <2>4 DEF Sound
<1>8. QED
  BY <1>6, <1>7

\* The step of the connection that leaves r in slot s: it is a step of the store
\* that takes nothing from what is counted on, and may leave a command behind.
LEMMA AnswerKeeps ==
  ASSUME StoreFit', now' = now, SystemFit, NEW p \in Workers, NEW c \in Calls, NEW s \in Slots,
         NEW r, Answers(rpc[p][c], s, r), Tells(lease'[c], r), StillSound,
         rpc' = [rpc EXCEPT ![p][c] = [rpc[p][c] EXCEPT ![s] = r]],
         UNCHANGED <<call, tracked, unresolved, pending, media, crashed>>,
         stray' \subseteq stray \cup {[call |-> c, cmd |-> r.cmd, worker |-> r.worker,
                                       epoch |-> rpc[p][c][s].epoch]}
  PROVE  Keeps
<1> DEFINE put == [rpc[p][c] EXCEPT ![s] = r]
           m == [call |-> c, cmd |-> r.cmd, worker |-> r.worker, epoch |-> rpc[p][c][s].epoch]
<1>1. /\ SystemTypes /\ ProcessFit(tracked[p][c], pending[p][c], rpc[p][c])
      /\ Roles(p, c, call[c].owner, tracked[p][c], rpc[p][c])
      /\ rpc[p][c] \in [Slots -> RpcRecord] /\ rpc \in [Workers -> [Calls -> [Slots -> RpcRecord]]]
      /\ rpc[p][c][s].stage = "sent" /\ r \in RpcRecord /\ r.cmd = rpc[p][c][s].cmd
      /\ r.worker = rpc[p][c][s].worker /\ r.mine = rpc[p][c][s].mine
  BY DEF SystemFit, SystemTypes, Answers
<1>2. put[s] = r /\ \A x \in Slots \ {s} : put[x] = rpc[p][c][x]
  BY <1>1
<1>3. /\ ProcessFit(tracked[p][c], pending[p][c], put)
      /\ Sound(lease'[c], now', tracked[p][c], rpc[p][c]) => Sound(lease'[c], now', tracked[p][c], put)
  BY <1>1, AnswerFits
<1>4. put \in [Slots -> RpcRecord] /\ rpc' = [rpc EXCEPT ![p][c] = put]
  BY <1>1
<1>5. rpc' \in [Workers -> [Calls -> [Slots -> RpcRecord]]] /\ Put(rpc, rpc', p, c, put)
  BY <1>1, <1>4, PutTyped
<1>6. rpc[p][c][s] # Idle /\ SlotFit(s, rpc[p][c][s])
  BY <1>1, IdleFacts DEF ProcessFit
<1>7. /\ CommandFit(m.cmd, m.worker, m.epoch) /\ m \in StrayRecord
      /\ m.call = c /\ m.cmd \in CommandsOf(s)
  <2>1. /\ rpc[p][c][s].cmd \in CommandsOf(s) /\ CommandFit(r.cmd, r.worker, rpc[p][c][s].epoch)
        /\ rpc[p][c][s] \in RpcRecord
    BY <1>1, <1>6 DEF SlotFit
  <2>2. /\ r.cmd \in Commands /\ r.worker \in MaybeWorker /\ rpc[p][c][s].epoch \in Nat
    BY <1>1, <2>1, SlotsDiffer DEF RpcRecord, CommandsOf, Commands
  <2>3. QED
    BY <1>1, <2>1, <2>2 DEF StrayRecord
<1>8. /\ call' = call /\ tracked' = tracked /\ unresolved' = unresolved /\ pending' = pending
      /\ media' = media /\ crashed' = crashed /\ stray' \subseteq stray \cup {m}
  OBVIOUS
<1> HIDE DEF put, m
<1>9. SystemTypes'
  BY <1>1, <1>5, <1>7, <1>8 DEF SystemTypes
<1>10. Roles(p, c, call[c].owner, tracked[p][c], put)
  BY <1>1, <1>2, <1>6, SlotsDiffer DEF Roles
<1>11. rpc'[p][c] = put /\ \A q \in Workers, d \in Calls : q # p \/ d # c => rpc'[q][d] = rpc[q][d]
  BY <1>5 DEF Put
<1>12. SystemFit'
  <2>1. \A q \in Workers, d \in Calls :
          /\ ProcessFit(tracked'[q][d], pending'[q][d], rpc'[q][d])
          /\ Roles(q, d, call'[d].owner, tracked'[q][d], rpc'[q][d])
    BY <1>3, <1>8, <1>10, <1>11 DEF SystemFit
  <2>2. \A x \in stray' : CommandFit(x.cmd, x.worker, x.epoch)
    BY <1>7, <1>8 DEF SystemFit
  <2>3. \A d \in Premium : call'[d].worker \notin Fronts /\ call'[d].owner \notin Fronts
    BY <1>8 DEF SystemFit
  <2>4. QED
    BY <1>9, <2>1, <2>2, <2>3 DEF SystemFit
<1>13. ASSUME BackInv
       PROVE  BackInv'
  <2>1. ASSUME NEW d \in Calls, Running(d)'
        PROVE  /\ ReleaseFree(d)' \/ Abandoned(d)'
               /\ \A q \in Workers : Sound(lease'[d], now', tracked'[q][d], rpc'[q][d])
    <3>1. Running(d)
      BY <1>8, <2>1 DEF Running
    <3>2. \A q \in Workers : Sound(lease'[d], now', tracked'[q][d], rpc'[q][d])
      BY <1>3, <1>8, <1>11, <1>13, <3>1 DEF StillSound
    <3>3. CASE Abandoned(d)
      <4>1. Quiet(put) \/ d # c
        BY <1>1, <1>2, <3>3, SlotsDiffer DEF Abandoned, Quiet
      <4>2. Abandoned(d)'
        BY <1>8, <1>11, <3>3, <4>1 DEF Abandoned
      <4>3. QED
        BY <3>2, <4>2
    <3>4. CASE ReleaseFree(d)
      <4>1. d = c => s # "release" /\ put["release"] = Idle
        BY <1>2, <1>6, <3>4, SlotsDiffer DEF ReleaseFree
      <4>2. d = c => m.cmd # "release"
        BY <1>7, <4>1 DEF CommandsOf
      <4>3. ReleaseFree(d)'
        BY <1>7, <1>8, <1>11, <3>4, <4>1, <4>2 DEF ReleaseFree
      <4>4. QED
        BY <3>2, <4>3
    <3>5. QED
      BY <1>13, <3>1, <3>3, <3>4 DEF BackInv
  <2>2. QED
    BY <2>1 DEF BackInv
<1>14. PremiumResolved => PremiumResolved'
  BY <1>8 DEF PremiumResolved
<1>15. QED
  BY <1>12, <1>13, <1>14 DEF Keeps

LEMMA SentFacts ==
  ASSUME StoreFit, SystemFit, NEW p \in Workers, NEW c \in Calls, NEW s \in Slots,
         rpc[p][c][s].stage = "sent"
  PROVE  LET r == rpc[p][c][s]
         IN /\ r \in RpcRecord /\ r.cmd \in Commands /\ CommandFit(r.cmd, r.worker, r.epoch)
            /\ r.cmd = "release" => ~ReleaseFree(c)
<1> DEFINE r == rpc[p][c][s]
<1>1. r \in RpcRecord /\ SlotFit(s, r) /\ r # Idle
  BY Facts, IdleFacts DEF ProcessFit
<1>2. r.cmd \in CommandsOf(s) /\ CommandFit(r.cmd, r.worker, r.epoch)
  BY <1>1 DEF SlotFit
<1>3. r.cmd \in Commands /\ (r.cmd = "release" => s = "release")
  BY <1>2 DEF CommandsOf, Commands, Slots
<1>4. QED
  BY <1>1, <1>2, <1>3 DEF ReleaseFree

LEMMA ServeKeeps ==
  ASSUME StoreFit, SystemFit, NEW p \in Workers, NEW c \in Calls, NEW s \in Slots, Serve(p, c, s)
  PROVE  Keeps /\ Store!Next
<1> DEFINE q == rpc[p][c][s]
<1>1. PICK out \in Store!Outcomes :
        /\ Execute(c, q.cmd, q.worker, q.epoch, out)
        /\ rpc' = [rpc EXCEPT ![p][c][s] =
                     [q EXCEPT !.stage = "answered", !.out = out,
                               !.expires = lease'[c].expires, !.epoch = lease'[c].epoch]]
  BY DEF Serve
<1> DEFINE r == [q EXCEPT !.stage = "answered", !.out = out,
                          !.expires = lease'[c].expires, !.epoch = lease'[c].epoch]
<1>2. /\ q.stage = "sent" /\ UNCHANGED <<call, tracked, unresolved, pending, media, stray, crashed>>
  BY DEF Serve
<1>3. /\ q \in RpcRecord /\ q.cmd \in Commands /\ CommandFit(q.cmd, q.worker, q.epoch)
      /\ q.cmd = "release" => ~ReleaseFree(c)
  BY <1>2, SentFacts
<1>4. StoreFit' /\ Store!Next /\ now' = now
  BY <1>1, <1>3, ExecuteKeepsStore
<1>5. lease'[c].expires \in Nat /\ lease'[c].epoch \in Nat
  BY <1>4 DEF StoreFit, Admission!StoreInv, Admission!TypeOK, Admission!LeaseRecord
<1>6. /\ r \in RpcRecord /\ r.stage = "answered" /\ r.cmd = q.cmd /\ r.worker = q.worker
      /\ r.mine = q.mine /\ r.out = out /\ r.epoch = lease'[c].epoch /\ r.expires = lease'[c].expires
  BY <1>3, <1>5 DEF RpcRecord
<1>7. rpc' = [rpc EXCEPT ![p][c] = [rpc[p][c] EXCEPT ![s] = r]]
  BY <1>1, ResumeFacts DEF Resume
<1> HIDE DEF r
<1>8. out \in Confirming /\ q.cmd # "reserve" =>
        /\ lease'[c].state = "active" /\ lease'[c].worker = q.worker /\ lease'[c].epoch \in Epochs
        /\ q.cmd = "renew" => lease'[c].epoch = q.epoch
  BY <1>1, <1>3, <1>4, ExecuteConfirms
<1>9. Answers(rpc[p][c], s, r)
  BY <1>2, <1>6, <1>8 DEF Answers, Confirmed
<1>10. Tells(lease'[c], r)
  BY <1>6, <1>8 DEF Tells, Confirmed
<1>11. StillSound
  BY <1>1, <1>3, ExecuteKeepsSound DEF StillSound
<1>12. Keeps
  BY <1>2, <1>4, <1>6, <1>7, <1>9, <1>10, <1>11, AnswerKeeps
<1>13. QED
  BY <1>4, <1>12

\* An answer that does not come.
LEMMA NoAnswerKeeps ==
  ASSUME StoreFit', now' = now, SystemFit, NEW p \in Workers, NEW c \in Calls, NEW s \in Slots,
         rpc[p][c][s].stage = "sent", rpc[p][c][s] \in RpcRecord, NoAnswer(p, c, s),
         StillSound,
         UNCHANGED <<call, tracked, unresolved, pending, media, crashed>>,
         stray' \subseteq stray \cup {[call |-> c, cmd |-> rpc[p][c][s].cmd,
                                       worker |-> rpc[p][c][s].worker,
                                       epoch |-> rpc[p][c][s].epoch]}
  PROVE  Keeps
<1> DEFINE q == rpc[p][c][s]
           r == [q EXCEPT !.stage = "answered", !.out = "unavailable", !.epoch = 0]
<1>1. /\ r \in RpcRecord /\ r.stage = "answered" /\ r.cmd = q.cmd /\ r.worker = q.worker
      /\ r.mine = q.mine /\ r.out = "unavailable"
  BY DEF RpcRecord
<1>2. rpc' = [rpc EXCEPT ![p][c] = [rpc[p][c] EXCEPT ![s] = r]]
  BY ResumeFacts DEF NoAnswer, Resume
<1> HIDE DEF r
<1>3. Answers(rpc[p][c], s, r) /\ Tells(lease'[c], r)
  BY <1>1 DEF Answers, Tells, Confirmed, Confirming
<1>4. /\ stray' \subseteq stray \cup {[call |-> c, cmd |-> r.cmd, worker |-> r.worker,
                                       epoch |-> q.epoch]}
      /\ UNCHANGED <<call, tracked, unresolved, pending, media, crashed>>
  BY <1>1
<1>5. QED
  BY <1>1, <1>2, <1>3, <1>4, AnswerKeeps

LEMMA LoseAnswerKeeps ==
  ASSUME StoreFit, SystemFit, NEW p \in Workers, NEW c \in Calls, NEW s \in Slots,
         LoseAnswer(p, c, s)
  PROVE  Keeps /\ Store!Next
<1> DEFINE q == rpc[p][c][s]
<1>1. /\ q.stage = "sent" /\ NoAnswer(p, c, s)
      /\ UNCHANGED <<call, tracked, unresolved, pending, media, stray, crashed>>
  BY DEF LoseAnswer
<1>2. PICK out \in Store!Outcomes : Execute(c, q.cmd, q.worker, q.epoch, out)
  BY DEF LoseAnswer
<1>3. /\ q \in RpcRecord /\ q.cmd \in Commands /\ CommandFit(q.cmd, q.worker, q.epoch)
      /\ q.cmd = "release" => ~ReleaseFree(c)
  BY <1>1, SentFacts
<1>4. StoreFit' /\ Store!Next /\ now' = now
  BY <1>2, <1>3, ExecuteKeepsStore
<1>5. StillSound
  BY <1>2, <1>3, ExecuteKeepsSound DEF StillSound
<1>6. Keeps
  BY <1>1, <1>3, <1>4, <1>5, NoAnswerKeeps
<1>7. QED
  BY <1>4, <1>6

LEMMA FailKeeps ==
  ASSUME StoreFit, SystemFit, NEW p \in Workers, NEW c \in Calls, NEW s \in Slots, Fail(p, c, s)
  PROVE  Keeps
<1> DEFINE q == rpc[p][c][s]
<1>1. /\ q.stage = "sent" /\ NoAnswer(p, c, s)
      /\ UNCHANGED <<storeVars, call, tracked, unresolved, pending, media, crashed>>
      /\ stray' \subseteq stray \cup {[call |-> c, cmd |-> q.cmd, worker |-> q.worker,
                                       epoch |-> q.epoch]}
  BY DEF Fail
<1>2. q \in RpcRecord
  BY <1>1, SentFacts
<1>3. now' = now /\ lease' = lease /\ score' = score /\ hold' = hold /\ tokens' = tokens
  BY <1>1 DEF storeVars
<1>4. StoreFit'
  BY <1>3 DEF StoreFit, Admission!StoreInv, Admission!EpochInv, Admission!TypeOK,
              Admission!IndexMatchesRecords, Admission!LeaseHasHold, Admission!HoldsMature,
              Admission!Live, Admission!Active, Admission!Claimed, Admission!Held
<1>5. StillSound
  BY <1>3 DEF BackInv, StillSound
<1>6. QED
  BY <1>1, <1>2, <1>3, <1>4, <1>5, NoAnswerKeeps

\* A step of the store alone.
LEMMA StoreTurn ==
  ASSUME StoreFit', SystemFit, UNCHANGED <<call, localVars, crashed>>, stray' \subseteq stray,
         StillSound
  PROVE  Keeps
<1>1. /\ call' = call /\ tracked' = tracked /\ unresolved' = unresolved /\ pending' = pending
      /\ rpc' = rpc /\ media' = media /\ crashed' = crashed
  BY DEF localVars
<1>2. SystemFit'
  <2>1. SystemTypes'
    BY <1>1 DEF SystemFit, SystemTypes
  <2>2. QED
    BY <1>1, <2>1 DEF SystemFit
<1>3. BackInv => BackInv'
  BY <1>1 DEF StillSound, BackInv, Running, ReleaseFree, Abandoned
<1>4. PremiumResolved => PremiumResolved'
  BY <1>1 DEF PremiumResolved
<1>5. QED
  BY <1>2, <1>3, <1>4 DEF Keeps

\* What is counted on ends before the lease does, and time only drops what has ended.
LEMMA TickKeeps ==
  ASSUME StoreFit, SystemFit, Tick
  PROVE  Keeps /\ Store!Next
<1>1. Store!Tick /\ UNCHANGED <<call, localVars, crashed>> /\ stray' \subseteq stray
  BY DEF Tick
<1>2. StoreFit' /\ Store!Next
  BY <1>1, TickKeepsStore
<1>3. ASSUME BackInv, NEW d \in Calls, Running(d), NEW q \in Workers
      PROVE  Sound(lease'[d], now', tracked[q][d], rpc[q][d])
  <2> DEFINE t == tracked[q][d]
             slots == rpc[q][d]
  <2>1. now' = now + 1 /\ lease'[d] = IF lease[d].expires > now' THEN lease[d] ELSE Store!NoLease
    BY <1>1 DEF Store!Tick
  <2>2. Sound(lease[d], now, t, slots) /\ ProcessFit(t, pending[q][d], slots)
    BY <1>3, Facts DEF BackInv
  <2>3. /\ t.deadline \in Nat /\ slots["activate"].expires \in Nat
        /\ slots["renew"].expires \in Nat /\ now \in Nat /\ lease[d].expires \in Nat
    BY <2>2, StoreTypes, SlotsDiffer DEF ProcessFit, TrackedRecord, RpcRecord
  <2>4. ASSUME NEW w, NEW epoch, NEW until \in Nat, Backs(lease[d], now, w, epoch, until)
        PROVE  Backs(lease'[d], now', w, epoch, until)
    BY <2>1, <2>3, <2>4 DEF Backs
  <2> HIDE DEF t, slots
  <2>5. Sound(lease'[d], now', t, slots)
    BY <2>2, <2>3, <2>4 DEF Sound
  <2>6. QED
    BY <2>5 DEF t, slots
<1>4. StillSound
  BY <1>3 DEF StillSound
<1>5. QED
  BY <1>1, <1>2, <1>4, StoreTurn

LEMMA ServeStrayKeeps ==
  ASSUME StoreFit, SystemFit, ServeStray
  PROVE  Keeps /\ (Store!Next \/ UNCHANGED storeVars)
<1>1. PICK m \in stray :
        /\ stray' = stray \ {m} /\ UNCHANGED <<call, localVars, crashed>>
        /\ \/ \E out \in Store!Outcomes : Execute(m.call, m.cmd, m.worker, m.epoch, out)
           \/ UNCHANGED storeVars
  BY DEF ServeStray
<1>2. /\ m.call \in Calls /\ m.cmd \in Commands /\ CommandFit(m.cmd, m.worker, m.epoch)
      /\ Workers # {} /\ (m.cmd = "release" => ~ReleaseFree(m.call))
  BY DEF SystemFit, SystemTypes, StrayRecord, ReleaseFree
<1>3. CASE \E out \in Store!Outcomes : Execute(m.call, m.cmd, m.worker, m.epoch, out)
  <2>1. PICK out \in Store!Outcomes : Execute(m.call, m.cmd, m.worker, m.epoch, out)
    BY <1>3
  <2>2. StoreFit' /\ Store!Next
    BY <1>2, <2>1, ExecuteKeepsStore
  <2>3. StillSound
    BY <1>2, <2>1, ExecuteKeepsSound DEF StillSound
  <2>4. Keeps
    BY <1>1, <2>2, <2>3, StoreTurn
  <2>5. QED
    BY <2>2, <2>4
<1>4. CASE UNCHANGED storeVars
  <2>1. now' = now /\ lease' = lease /\ score' = score /\ hold' = hold /\ tokens' = tokens
    BY <1>4 DEF storeVars
  <2>2. StoreFit'
    BY <2>1 DEF StoreFit, Admission!StoreInv, Admission!EpochInv, Admission!TypeOK,
                Admission!IndexMatchesRecords, Admission!LeaseHasHold, Admission!HoldsMature,
                Admission!Live, Admission!Active, Admission!Claimed, Admission!Held
  <2>3. StillSound
    BY <2>1 DEF BackInv, StillSound
  <2>4. QED
    BY <1>1, <1>4, <2>2, <2>3, StoreTurn
<1>5. QED
  BY <1>1, <1>3, <1>4

LEMMA StutterKeeps ==
  ASSUME StoreFit, SystemFit, UNCHANGED vars
  PROVE  Keeps
<1>1. now' = now /\ lease' = lease /\ score' = score /\ hold' = hold /\ tokens' = tokens
  BY DEF vars, storeVars
<1>2. StoreFit'
  BY <1>1 DEF StoreFit, Admission!StoreInv, Admission!EpochInv, Admission!TypeOK,
              Admission!IndexMatchesRecords, Admission!LeaseHasHold, Admission!HoldsMature,
              Admission!Live, Admission!Active, Admission!Claimed, Admission!Held
<1>3. StillSound
  BY <1>1 DEF BackInv, StillSound
<1>4. UNCHANGED <<call, localVars, crashed>> /\ stray' \subseteq stray
  BY DEF vars
<1>5. QED
  BY <1>2, <1>3, <1>4, StoreTurn

LEMMA ReconcileExpiredOwnerKeeps ==
  ASSUME StoreFit, SystemFit, NEW c \in Calls, ReconcileExpiredOwner(c)
  PROVE  Keeps
<1> DEFINE n == [call[c] EXCEPT !.stage = "ended"]
           p == call[c].owner
           t == tracked[p][c]
           o == pending[p][c]
           s == rpc[p][c]
<1>1. n \in SessionRecord /\ n.owner = call[c].owner /\ Forward(c, n)
  BY EndFacts
<1>2. p \in Workers
  BY SameSession DEF ReconcileExpiredOwner, SessionRecord, MaybeWorker
<1>3. ProcessFit(t, o, s)
  BY <1>2, Facts
<1>4. /\ call' = [call EXCEPT ![c] = n] /\ tracked' = tracked /\ pending' = pending /\ rpc' = rpc
      /\ media' = media /\ unresolved' = unresolved /\ UNCHANGED <<storeVars, stray, crashed>>
  BY DEF ReconcileExpiredOwner, EndSession, localVars
<1>5. t = tracked[p][c] /\ o = pending[p][c] /\ s = rpc[p][c]
  OBVIOUS
<1> HIDE DEF n, p, t, o, s
<1>6. QED
  BY <1>1, <1>2, <1>3, <1>4, <1>5, PlainTurn

\* A process that crashes counts on nothing and releases nothing.
LEMMA CrashKeeps ==
  ASSUME StoreFit, SystemFit, NEW p \in Workers, Crash(p)
  PROVE  Keeps
<1>1. /\ tracked' = [tracked EXCEPT ![p] = [c \in Calls |-> Untracked]]
      /\ unresolved' = [unresolved EXCEPT ![p] = {}]
      /\ pending' = [pending EXCEPT ![p] = [c \in Calls |-> NothingOwed]]
      /\ rpc' = [rpc EXCEPT ![p] = [c \in Calls |-> [s \in Slots |-> Idle]]]
      /\ media' = [media EXCEPT ![p] = {}]
      /\ call' = call /\ stray' = stray /\ crashed' = crashed \cup {p}
      /\ now' = now /\ lease' = lease /\ score' = score /\ hold' = hold /\ tokens' = tokens
  BY DEF Crash, storeVars
<1>2. StoreFit'
  BY <1>1 DEF StoreFit, Admission!StoreInv, Admission!EpochInv, Admission!TypeOK,
              Admission!IndexMatchesRecords, Admission!LeaseHasHold, Admission!HoldsMature,
              Admission!Live, Admission!Active, Admission!Claimed, Admission!Held
<1>3. NothingOwed \in PendingRecord /\ ~NothingOwed.owed /\ CommandFit("release", NothingOwed.worker, NothingOwed.epoch)
  BY DEF NothingOwed, PendingRecord, MaybeWorker, CommandFit
<1> DEFINE quiet == [s \in Slots |-> Idle]
<1>4. quiet \in [Slots -> RpcRecord] /\ \A s \in Slots : quiet[s] = Idle
  BY IdleFacts
<1>5. /\ ProcessFit(Untracked, NothingOwed, quiet) /\ Quiet(quiet)
      /\ \A l, at : Sound(l, at, Untracked, quiet)
      /\ \A c, owner : Roles(p, c, owner, Untracked, quiet)
  BY <1>3, <1>4, IdleFacts, UntrackedFacts, SlotsDiffer DEF ProcessFit, Sound, Roles, Quiet
<1>6. \A q \in Workers, d \in Calls :
        IF q = p
        THEN tracked'[q][d] = Untracked /\ pending'[q][d] = NothingOwed /\ rpc'[q][d] = quiet
        ELSE /\ tracked'[q][d] = tracked[q][d] /\ pending'[q][d] = pending[q][d]
             /\ rpc'[q][d] = rpc[q][d]
  BY <1>1 DEF SystemFit, SystemTypes
<1>7. SystemTypes'
  <2>1. tracked' \in [Workers -> [Calls -> TrackedRecord]]
    BY <1>1, UntrackedFacts DEF SystemFit, SystemTypes
  <2>2. pending' \in [Workers -> [Calls -> PendingRecord]]
    BY <1>1, <1>3 DEF SystemFit, SystemTypes
  <2>3. rpc' \in [Workers -> [Calls -> [Slots -> RpcRecord]]]
    BY <1>1, <1>4 DEF SystemFit, SystemTypes
  <2>4. unresolved' \in [Workers -> SUBSET Calls] /\ media' \in [Workers -> SUBSET Calls]
    BY <1>1 DEF SystemFit, SystemTypes
  <2>5. call' \in [Calls -> SessionRecord] /\ stray' \subseteq StrayRecord /\ crashed' \subseteq Workers
    BY <1>1 DEF SystemFit, SystemTypes
  <2>6. QED
    BY <2>1, <2>2, <2>3, <2>4, <2>5 DEF SystemTypes
<1> HIDE DEF quiet
<1>8. SystemFit'
  <2>1. \A q \in Workers, d \in Calls :
          /\ ProcessFit(tracked'[q][d], pending'[q][d], rpc'[q][d])
          /\ Roles(q, d, call'[d].owner, tracked'[q][d], rpc'[q][d])
    BY <1>1, <1>5, <1>6 DEF SystemFit
  <2>2. /\ \A d \in Premium : call'[d].worker \notin Fronts /\ call'[d].owner \notin Fronts
        /\ \A m \in stray' : CommandFit(m.cmd, m.worker, m.epoch)
    BY <1>1 DEF SystemFit
  <2>3. QED
    BY <1>7, <2>1, <2>2 DEF SystemFit
<1>9. ASSUME BackInv
      PROVE  BackInv'
  <2>1. ASSUME NEW d \in Calls, Running(d)'
        PROVE  /\ ReleaseFree(d)' \/ Abandoned(d)'
               /\ \A q \in Workers : Sound(lease'[d], now', tracked'[q][d], rpc'[q][d])
    <3>1. Running(d)
      BY <1>1, <2>1 DEF Running
    <3>2. \A q \in Workers : Sound(lease'[d], now', tracked'[q][d], rpc'[q][d])
      BY <1>1, <1>5, <1>6, <1>9, <3>1 DEF BackInv
    <3>3. ReleaseFree(d) => ReleaseFree(d)'
      BY <1>1, <1>3, <1>4, <1>6, SlotsDiffer DEF ReleaseFree
    <3>4. Abandoned(d) => Abandoned(d)'
      BY <1>1, <1>5, <1>6, UntrackedFacts DEF Abandoned
    <3>5. QED
      BY <1>9, <3>1, <3>2, <3>3, <3>4 DEF BackInv
  <2>2. QED
    BY <2>1 DEF BackInv
<1>10. PremiumResolved => PremiumResolved'
  <2>1. \A q \in Workers : unresolved'[q] = IF q = p THEN {} ELSE unresolved[q]
    BY <1>1 DEF SystemFit, SystemTypes
  <2>2. Premium \subseteq Calls
    BY CoordinatorAssumption
  <2>3. QED
    BY <1>6, <2>1, <2>2 DEF PremiumResolved
<1>11. QED
  BY <1>2, <1>8, <1>9, <1>10 DEF Keeps

-----------------------------------------------------------------------------
(* Every step *)

LEMMA InitFit == Init => StoreFit /\ SystemFit /\ BackInv /\ PremiumResolved
<1> SUFFICES ASSUME Init
             PROVE  StoreFit /\ SystemFit /\ BackInv /\ PremiumResolved
  OBVIOUS
<1>1. StoreFit
  BY InitStore DEF Init
<1>2. NothingOwed \in PendingRecord /\ ~NothingOwed.owed /\ CommandFit("release", NothingOwed.worker, NothingOwed.epoch)
  BY DEF NothingOwed, PendingRecord, MaybeWorker, CommandFit
<1> DEFINE quiet == [s \in Slots |-> Idle]
           new == [stage |-> "new", worker |-> NoWorker, owner |-> NoWorker,
                   fence |-> 0, over |-> FALSE, webhooks |-> 0]
<1>3. quiet \in [Slots -> RpcRecord] /\ \A s \in Slots : quiet[s] = Idle
  BY IdleFacts
<1>4. /\ ProcessFit(Untracked, NothingOwed, quiet)
      /\ \A l, at : Sound(l, at, Untracked, quiet)
      /\ \A p, c, owner : Roles(p, c, owner, Untracked, quiet)
  BY <1>2, <1>3, IdleFacts, UntrackedFacts, SlotsDiffer DEF ProcessFit, Sound, Roles
<1>5. \A p \in Workers, c \in Calls :
        tracked[p][c] = Untracked /\ pending[p][c] = NothingOwed /\ rpc[p][c] = quiet
  BY DEF Init
<1>6. new \in SessionRecord
  BY CoordinatorAssumption DEF SessionRecord, MaybeWorker
<1>7. SystemTypes
  BY <1>2, <1>3, <1>6, UntrackedFacts DEF Init, SystemTypes
<1>8. Fronts \subseteq Workers /\ Premium \subseteq Calls /\ NoWorker \notin Workers
  BY <1>1, CoordinatorAssumption, StoreTypes
<1>9. \A c \in Calls : call[c].worker = NoWorker /\ call[c].owner = NoWorker
  BY DEF Init
<1>10. stray = {} /\ \A p \in Workers : unresolved[p] = {}
  BY DEF Init
<1> HIDE DEF quiet, new
<1>11. SystemFit
  BY <1>4, <1>5, <1>7, <1>8, <1>9, <1>10 DEF SystemFit
<1>12. BackInv
  BY <1>2, <1>3, <1>4, <1>5, <1>10, SlotsDiffer DEF BackInv, ReleaseFree
<1>13. PremiumResolved
  BY <1>10 DEF PremiumResolved
<1>14. QED
  BY <1>1, <1>11, <1>12, <1>13

LEMMA StepKeeps ==
  ASSUME StoreFit, SystemFit, [Next]_vars
  PROVE  Keeps /\ [Store!Next]_storeVars
<1>1. CASE Tick
  BY <1>1, TickKeeps
<1>2. CASE ServeStray
  BY <1>2, ServeStrayKeeps
<1>3. ASSUME NEW p \in Workers, Crash(p)
      PROVE  Keeps /\ UNCHANGED storeVars
  BY <1>3, CrashKeeps DEF Crash
<1>4. ASSUME NEW c \in Calls, ReconcileExpiredOwner(c)
      PROVE  Keeps /\ UNCHANGED storeVars
  BY <1>4, ReconcileExpiredOwnerKeeps DEF ReconcileExpiredOwner
<1>5. ASSUME NEW p \in Workers, NEW c \in Calls, Answer(p, c)
      PROVE  Keeps /\ UNCHANGED storeVars
  <2>1. Keeps
    BY <1>5, ReserveAnsweredKeeps, ActivateGrantedKeeps, ActivateRefusedKeeps, MediaConfirmedKeeps,
       MediaRejectedKeeps, MediaStartThrowsKeeps, RenewAnsweredKeeps, RecoverAnsweredKeeps, RenewalConfirmedKeeps,
       RenewalRejectedKeeps, LossHandledKeeps, ReleaseAnsweredKeeps
       DEF Answer
  <2>2. UNCHANGED storeVars
    BY <1>5 DEF Answer, ReserveAnswered, ActivateGranted, ActivateRefused, MediaConfirmed,
                MediaRejected, MediaStartThrows, RenewAnswered, RecoverAnswered,
                RenewalConfirmed, RenewalRejected, LossHandled, ReleaseAnswered
  <2>3. QED
    BY <2>1, <2>2
<1>6. ASSUME NEW p \in Workers, NEW c \in Calls, Timer(p, c)
      PROVE  Keeps /\ UNCHANGED storeVars
  <2>1. Keeps
    BY <1>6, RenewalDueKeeps, DeadlinePassedKeeps, RetryReleaseKeeps DEF Timer
  <2>2. UNCHANGED storeVars
    BY <1>6 DEF Timer, RenewalDue, DeadlinePassed, RetryRelease
  <2>3. QED
    BY <2>1, <2>2
<1>7. ASSUME NEW p \in Workers, NEW c \in Calls, Provider(p, c)
      PROVE  Keeps /\ UNCHANGED storeVars
  <2>1. Keeps
    BY <1>7, ReserveCallKeeps, StartMediaKeeps, CloseStreamKeeps, TerminalizeKeeps,
       StatusCallbackKeeps
       DEF Provider
  <2>2. UNCHANGED storeVars
    BY <1>7 DEF Provider, ReserveCall, StartMedia, CloseStream, Terminalize, StatusCallback
  <2>3. QED
    BY <2>1, <2>2
<1>8. ASSUME NEW p \in Workers, NEW c \in Calls, NEW s \in Slots,
             Serve(p, c, s) \/ LoseAnswer(p, c, s) \/ Fail(p, c, s)
      PROVE  Keeps /\ (Store!Next \/ UNCHANGED storeVars)
  <2>1. Fail(p, c, s) => UNCHANGED storeVars
    BY DEF Fail
  <2>2. QED
    BY <1>8, <2>1, ServeKeeps, LoseAnswerKeeps, FailKeeps
<1>9. CASE UNCHANGED vars
  BY <1>9, StutterKeeps DEF vars
<1>10. QED
  BY <1>1, <1>2, <1>3, <1>4, <1>5, <1>6, <1>7, <1>8, <1>9 DEF Next

OrderFit == earlier \in [Workers -> SUBSET (Awaits \X Awaits)]

\* Every step orders the connections by the awaits there are.
LEMMA StepOrders ==
  ASSUME OrderFit, [Next]_vars
  PROVE  OrderFit'
<1>1. KeepOrder => OrderFit'
  <2>1. ASSUME KeepOrder, NEW p \in Workers
        PROVE  earlier'[p] \subseteq Awaits \X Awaits
    <3> DEFINE line == OnConnection(rpc'[p])
    <3>1. line \subseteq Awaits
      BY DEF OnConnection
    <3>2. earlier'[p] \subseteq line \X line
      BY <2>1 DEF KeepOrder
    <3> HIDE DEF line
    <3>3. QED
      BY <3>1, <3>2
  <2>2. KeepOrder => earlier' = [p \in Workers |-> earlier'[p]]
    BY DEF KeepOrder
  <2> HIDE DEF KeepOrder
  <2>3. QED
    BY <2>1, <2>2 DEF OrderFit
<1>2. KeepOrder \/ UNCHANGED earlier
  <2>1. ASSUME NEW p \in Workers, NEW c \in Calls, Answer(p, c)
        PROVE  KeepOrder
    BY <2>1 DEF Answer, ReserveAnswered, ActivateGranted, ActivateRefused, MediaConfirmed,
                MediaRejected, MediaStartThrows, RenewAnswered, RecoverAnswered,
                RenewalConfirmed, RenewalRejected, LossHandled, ReleaseAnswered
  <2>2. ASSUME NEW p \in Workers, NEW c \in Calls, Timer(p, c)
        PROVE  KeepOrder
    BY <2>2 DEF Timer, RenewalDue, DeadlinePassed, RetryRelease
  <2>3. ASSUME NEW p \in Workers, NEW c \in Calls, Provider(p, c)
        PROVE  KeepOrder \/ UNCHANGED earlier
    BY <2>3 DEF Provider, ReserveCall, StartMedia, CloseStream, Terminalize, StatusCallback
  <2>4. ASSUME NEW p \in Workers, NEW c \in Calls, NEW s \in Slots,
               Serve(p, c, s) \/ LoseAnswer(p, c, s) \/ Fail(p, c, s)
        PROVE  KeepOrder
    BY <2>4 DEF Serve, LoseAnswer, Fail
  <2>5. ASSUME NEW p \in Workers, Crash(p)
        PROVE  KeepOrder
    BY <2>5 DEF Crash
  <2>6. (Tick \/ ServeStray \/ \E c \in Calls : ReconcileExpiredOwner(c)) => UNCHANGED earlier
    BY DEF Tick, ServeStray, ReconcileExpiredOwner, localVars
  <2>7. UNCHANGED vars => UNCHANGED earlier
    BY DEF vars, localVars
  <2>8. QED
    BY <2>1, <2>2, <2>3, <2>4, <2>5, <2>6, <2>7 DEF Next
<1>3. UNCHANGED earlier => OrderFit'
  BY DEF OrderFit
<1>4. QED
  BY <1>1, <1>2, <1>3

CoordinatorInv == StoreFit /\ SystemFit /\ BackInv /\ PremiumResolved /\ OrderFit

-----------------------------------------------------------------------------
(* The theorems *)

\* CoordinatorInv is inductive: it holds whatever the connection loses or
\* delays, and whoever crashes.
THEOREM CoordinatorInvariant == Spec => []CoordinatorInv
<1>1. Init => CoordinatorInv
  <2>1. Init => OrderFit
    BY DEF Init, OrderFit
  <2>2. QED
    BY <2>1, InitFit DEF CoordinatorInv
<1>2. CoordinatorInv /\ [Next]_vars => CoordinatorInv'
  BY StepKeeps, StepOrders DEF CoordinatorInv, Keeps
<1>3. QED
  BY <1>1, <1>2, PTL DEF Spec

\* The state of the processes and of the store stays well typed: every answer
\* fits the slot that awaits it and every command names a worker and an epoch.
THEOREM CoordinatorTypeCorrect == Spec => []TypeOK
<1>1. CoordinatorInv => TypeOK
  BY SameTypes
     DEF CoordinatorInv, StoreFit, Admission!StoreInv, SystemFit, SystemTypes, SessionRecord, OrderFit, TypeOK
<1>2. QED
  BY <1>1, CoordinatorInvariant, PTL

LEMMA StoreRunsItsScripts == Spec => Store!Spec
<1>1. Init => Store!Init
  BY DEF Init
<1>2. CoordinatorInv /\ [Next]_vars => [Store!Next]_(Store!vars)
  BY StepKeeps DEF CoordinatorInv, storeVars, Store!vars
<1>3. QED
  BY <1>1, <1>2, CoordinatorInvariant, PTL DEF Spec, Store!Spec

\* A process that counts on a lease it last saw confirmed is right about it, in
\* every interleaving of lost, late and repeated answers, webhooks and crashes.
THEOREM AuthorityAlwaysBacked == Spec => []AuthorityBacked
<1>1. CoordinatorInv => AuthorityBacked
  <2>1. SUFFICES ASSUME CoordinatorInv, NEW p \in Workers, NEW c \in Calls,
                        Held(tracked[p][c]), tracked[p][c].deadline > now,
                        call[c].stage = "open", ~call[c].over
                 PROVE  /\ lease[c].state = "active" /\ lease[c].worker = tracked[p][c].worker
                        /\ lease[c].epoch = tracked[p][c].epoch
                        /\ lease[c].expires >= tracked[p][c].deadline
    BY DEF AuthorityBacked
  <2>2. Sound(lease[c], now, tracked[p][c], rpc[p][c])
    BY <2>1 DEF CoordinatorInv, BackInv, Running
  <2>3. QED
    BY <2>1, <2>2 DEF Sound, Backs
<1>2. QED
  BY <1>1, CoordinatorInvariant, PTL

\* A premium call in doubt is one its process still tracks as active, however
\* often its webhook is delivered.
THEOREM PremiumDoubtsAreTracked == Spec => []PremiumResolved
<1>1. CoordinatorInv => PremiumResolved
  BY DEF CoordinatorInv
<1>2. QED
  BY <1>1, CoordinatorInvariant, PTL

\* So no process refuses new calls for a lease that nothing will resolve, as
\* long as all calls are premium: their webhook and their stream are at different
\* processes.  (That a sandwich call's reservation is not answered after its lease
\* came into doubt is a matter of how long commands and leases last.)
THEOREM UnresolvedStaysTracked ==
  ASSUME Calls \subseteq Premium
  PROVE  Spec => []UnresolvedIsTracked
<1>1. CoordinatorInv => UnresolvedIsTracked
  <2>1. SUFFICES ASSUME CoordinatorInv, NEW p \in Workers, NEW c \in unresolved[p]
                 PROVE  Held(tracked[p][c])
    BY DEF UnresolvedIsTracked
  <2>2. unresolved[p] \subseteq Calls
    BY <2>1 DEF CoordinatorInv, SystemFit, SystemTypes
  <2>3. QED
    BY <2>1, <2>2 DEF CoordinatorInv, PremiumResolved
<1>2. QED
  BY <1>1, CoordinatorInvariant, PTL

LEMMA SameNext == [Store!Next]_(Store!vars) => [Admission!Next]_(Admission!vars)
<1>1. CASE Store!Tick
  BY <1>1, SameTick DEF Admission!Next
<1>2. ASSUME NEW c \in Calls, NEW w \in Workers, NEW out \in Store!Outcomes,
             Store!Command(c, w, out)
      PROVE  Admission!Next
  BY <1>2, SameCommand DEF Admission!Next
<1>3. QED
  BY <1>1, <1>2 DEF Store!Next, Store!vars, Admission!vars

\* What is proved of the store holds while the processes use it: no counter is
\* exceeded, and every lapsed lease keeps its place and its owner's hold.
THEOREM ComposedStoreIsSafe ==
  Spec => [](Store!CapacityRespected /\ Store!RecoverySlotsKept /\ Store!LeaseHasHold)
<1>1. Store!Spec => Admission!Spec
  BY SameInit, SameNext, PTL DEF Store!Spec, Admission!Spec
<1>2. Admission!Spec => [](Admission!CapacityRespected /\ Admission!RecoverySlotsKept
                          /\ Admission!LeaseHasHold)
  BY SameAssumption, Admission!CapacityAlwaysRespected, Admission!RecoverySlotsAlwaysKept,
     Admission!LeaseAlwaysRecoverable, PTL
<1>3. /\ Admission!CapacityRespected => Store!CapacityRespected
      /\ Admission!RecoverySlotsKept => Store!RecoverySlotsKept
      /\ Admission!LeaseHasHold => Store!LeaseHasHold
  BY DEF Admission!CapacityRespected, Store!CapacityRespected, Admission!RecoverySlotsKept,
         Store!RecoverySlotsKept, Admission!LeaseHasHold, Store!LeaseHasHold,
         Admission!Occupants, Store!Occupants, Admission!Live, Store!Live, Admission!Held,
         Store!Held, Admission!Active, Store!Active, Admission!Claimed, Store!Claimed,
         Admission!Keys, Store!Keys, Admission!Cardinality, Store!Cardinality
<1>4. QED
  BY <1>1, <1>2, <1>3, StoreRunsItsScripts, PTL

-----------------------------------------------------------------------------
(* The release of an ended premium call.  The webhook, which the provider   *)
(* may deliver again, and a reservation that outlives its client are what   *)
(* can bring a lease back after the release; so the argument is about calls *)
(* delivered once.                                                          *)

\* The store has answered a release; the process has yet to hear of it.
Taken(r) == r.stage = "answered" /\ r.out # "unavailable"

\* A front process will have the call released, or has been told to: it tracks the
\* claim, or it owes a release that the store has not taken.
Coming(t, o, slots) == t.state = "claim" \/ (o.owed /\ ~Taken(slots["release"]))

\* It names no incarnation of the lease.
Unfenced(o, slots) ==
  o.epoch = 0 /\ (slots["release"].stage = "sent" => slots["release"].epoch = 0)

Reserving(c) == \E p \in Workers : rpc[p][c]["reserve"] # Idle
ReserveAdrift(c) == \E m \in stray : m.call = c /\ m.cmd = "reserve"

\* A reservation whose client has given up is one no process will hear of.
ReservedOnce(c) ==
  /\ \A p, q \in Workers : rpc[p][c]["reserve"] # Idle /\ rpc[q][c]["reserve"] # Idle => p = q
  /\ ReserveAdrift(c) => \A p \in Workers :
       rpc[p][c]["reserve"] # Idle =>
         rpc[p][c]["reserve"].stage = "answered" /\ rpc[p][c]["reserve"].out = "unavailable"
  /\ call[c].webhooks = 0 \/ call[c].stage # "new" => ~Reserving(c) /\ ~ReserveAdrift(c)

NothingHeld(c) == lease[c] = Store!NoLease /\ hold[c] = Store!NoHold

EndFit(c) ==
  /\ call[c].owner # NoWorker => call[c].stage # "new"
  /\ call[c].webhooks = 0 => call[c].stage = "new"
  /\ \A f \in Fronts : Unfenced(pending[f][c], rpc[f][c])
  /\ call[c].webhooks <= 1 => ReservedOnce(c)
  /\ call[c].webhooks <= 1 /\ call[c].stage # "new" /\ crashed \cap Fronts = {} =>
       \/ NothingHeld(c)
       \/ \E f \in Fronts : Coming(tracked[f][c], pending[f][c], rpc[f][c])

EndInv == \A c \in Premium : EndFit(c)

\* The session goes on, but is neither set up nor delivered again.
SameCourse(c) ==
  /\ call'[c].webhooks = call[c].webhooks
  /\ call'[c].stage = "new" <=> call[c].stage = "new"
  /\ call'[c].owner = call[c].owner \/ call[c].stage # "new"

Only(f, g, p, c) == \A q \in Workers, d \in Calls : q # p \/ d # c => g[q][d] = f[q][d]

\* A step that is not about the call c.
LEMMA EndElsewhere ==
  ASSUME NEW c \in Premium, EndFit(c), call'[c] = call[c], crashed' = crashed,
         \A q \in Workers : /\ tracked'[q][c] = tracked[q][c] /\ pending'[q][c] = pending[q][c]
                            /\ rpc'[q][c] = rpc[q][c],
         ReserveAdrift(c)' => ReserveAdrift(c), NothingHeld(c) => NothingHeld(c)'
  PROVE  EndFit(c)'
<1>1. Fronts \subseteq Workers
  BY CoordinatorAssumption
<1>2. ReservedOnce(c) => ReservedOnce(c)'
  BY DEF ReservedOnce, Reserving
<1>3. QED
  BY <1>1, <1>2 DEF EndFit

\* A handler of p about c.
LEMMA HandlerEnds ==
  ASSUME SystemFit, EndInv, NEW p \in Workers, NEW c \in Calls,
         Only(tracked, tracked', p, c), Only(pending, pending', p, c), Only(rpc, rpc', p, c),
         \A d \in Calls : d # c => call'[d] = call[d],
         UNCHANGED <<storeVars, stray, crashed>>,
         c \in Premium =>
           /\ SameCourse(c)
           /\ rpc'[p][c]["reserve"] = rpc[p][c]["reserve"]
           /\ p \in Fronts =>
                /\ Unfenced(pending'[p][c], rpc'[p][c])
                /\ Coming(tracked[p][c], pending[p][c], rpc[p][c])
                     => Coming(tracked'[p][c], pending'[p][c], rpc'[p][c])
  PROVE  EndInv'
<1>1. /\ lease' = lease /\ hold' = hold /\ stray' = stray /\ crashed' = crashed
      /\ Fronts \subseteq Workers /\ Premium \subseteq Calls
  BY CoordinatorAssumption DEF storeVars
<1>2. \A d \in Calls : (NothingHeld(d) => NothingHeld(d)') /\ (ReserveAdrift(d)' => ReserveAdrift(d))
  BY <1>1 DEF NothingHeld, ReserveAdrift
<1>3. ASSUME NEW d \in Premium, d # c
      PROVE  EndFit(d)'
  BY <1>1, <1>2, <1>3, EndElsewhere DEF EndInv, Only
<1>4. ASSUME c \in Premium
      PROVE  EndFit(c)'
  <2>1. EndFit(c) /\ SameCourse(c)
    BY <1>4 DEF EndInv
  <2>2. \A q \in Workers : rpc'[q][c]["reserve"] = rpc[q][c]["reserve"]
    BY <1>4 DEF Only
  <2>3. ReservedOnce(c) => ReservedOnce(c)'
    BY <1>2, <2>1, <2>2 DEF ReservedOnce, Reserving, SameCourse
  <2>4. \A f \in Fronts :
          /\ Unfenced(pending'[f][c], rpc'[f][c])
          /\ Coming(tracked[f][c], pending[f][c], rpc[f][c])
               => Coming(tracked'[f][c], pending'[f][c], rpc'[f][c])
    BY <1>1, <1>4, <2>1 DEF Only, EndFit
  <2>5. QED
    BY <1>1, <1>2, <2>1, <2>3, <2>4 DEF EndFit, SameCourse
<1>5. QED
  BY <1>3, <1>4 DEF EndInv

\* A front process neither activates nor tracks the lease of a premium call.
LEMMA FrontFacts ==
  ASSUME StoreFit, SystemFit, NEW p \in Fronts, NEW c \in Premium
  PROVE  tracked[p][c].state # "active" /\ rpc[p][c]["activate"] = Idle
BY CoordinatorAssumption, Facts DEF Roles

LEMMA EndTypes ==
  ASSUME SystemFit
  PROVE  /\ tracked \in [Workers -> [Calls -> TrackedRecord]]
         /\ pending \in [Workers -> [Calls -> PendingRecord]]
         /\ rpc \in [Workers -> [Calls -> [Slots -> RpcRecord]]]
         /\ call \in [Calls -> SessionRecord]
BY DEF SystemFit, SystemTypes

\* A handler of activations and renewals leaves t and slots.
SlotMove(p, c, t, slots) ==
  /\ (tracked' = tracked /\ t = tracked[p][c]) \/ tracked' = [tracked EXCEPT ![p][c] = t]
  /\ (rpc' = rpc /\ slots = rpc[p][c]) \/ rpc' = [rpc EXCEPT ![p][c] = slots]
  /\ pending' = pending /\ UNCHANGED <<storeVars, stray, crashed>>
  /\ \A d \in Calls : d # c => call'[d] = call[d]
  /\ c \in Premium => SameCourse(c)
  /\ slots["reserve"] = rpc[p][c]["reserve"] /\ slots["release"] = rpc[p][c]["release"]
  /\ c \in Premium /\ p \in Fronts => t.state = tracked[p][c].state

LEMMA SlotEnds ==
  ASSUME StoreFit, SystemFit, EndInv, NEW p \in Workers, NEW c \in Calls, NEW t, NEW slots,
         SlotMove(p, c, t, slots)
  PROVE  EndInv'
<1>1. Only(tracked, tracked', p, c) /\ tracked'[p][c] = t
  BY EndTypes DEF Only, SlotMove
<1>2. Only(rpc, rpc', p, c) /\ rpc'[p][c] = slots
  BY EndTypes DEF Only, SlotMove
<1>3. Only(pending, pending', p, c)
  BY DEF Only, SlotMove
<1>4. ASSUME c \in Premium, p \in Fronts
      PROVE  /\ Unfenced(pending'[p][c], rpc'[p][c])
             /\ Coming(tracked[p][c], pending[p][c], rpc[p][c])
                  => Coming(tracked'[p][c], pending'[p][c], rpc'[p][c])
  BY <1>1, <1>2, <1>4 DEF EndInv, EndFit, Unfenced, Coming, SlotMove
<1>5. QED
  BY <1>1, <1>2, <1>3, <1>4, HandlerEnds DEF SlotMove

\* A handler that ends in release(): the claim becomes a release without a fence.
LEMMA ReleaseEnds ==
  ASSUME StoreFit, SystemFit, EndInv, NEW p \in Workers, NEW c \in Calls, NEW slots,
         slots \in [Slots -> RpcRecord], StartRelease(p, c, slots),
         slots["reserve"] = rpc[p][c]["reserve"], slots["release"] = rpc[p][c]["release"],
         UNCHANGED <<storeVars, stray, crashed>>,
         \A d \in Calls : d # c => call'[d] = call[d],
         c \in Premium => SameCourse(c)
  PROVE  EndInv'
<1>1. CASE pending[p][c].owed
  <2>1. rpc' = [rpc EXCEPT ![p][c] = slots] /\ tracked' = tracked /\ pending' = pending
    BY <1>1 DEF StartRelease
  <2>2. QED
    BY <2>1, SlotEnds DEF SlotMove
<1>2. CASE ~pending[p][c].owed
  <2> DEFINE o == ReleaseFence(tracked[p][c])
             r == Request("release", o.worker, o.epoch)
             d == Detached(slots)
             sent == [d EXCEPT !["release"] = r]
  <2>1. /\ tracked' = [tracked EXCEPT ![p][c] = Untracked]
        /\ pending' = [pending EXCEPT ![p][c] = o]
        /\ rpc' = [rpc EXCEPT ![p][c] = sent]
    BY <1>2 DEF StartRelease
  <2>2. /\ o.owed /\ (tracked[p][c].state # "active" => o.epoch = 0)
        /\ r.stage = "sent" /\ r.epoch = o.epoch
    BY DEF ReleaseFence, Request, Idle
  <2>3. d \in [Slots -> RpcRecord] /\ d["reserve"] = slots["reserve"]
    BY DetachedFacts, SlotsDiffer
  <2> HIDE DEF o, r, d
  <2>4. sent["reserve"] = slots["reserve"] /\ sent["release"] = r
    BY <2>3 DEF Slots
  <2> HIDE DEF sent
  <2>5. /\ Only(tracked, tracked', p, c) /\ Only(pending, pending', p, c) /\ Only(rpc, rpc', p, c)
        /\ pending'[p][c] = o /\ rpc'[p][c] = sent
    BY <2>1, EndTypes DEF Only
  <2>6. ASSUME c \in Premium, p \in Fronts
        PROVE  /\ Unfenced(pending'[p][c], rpc'[p][c])
               /\ Coming(tracked'[p][c], pending'[p][c], rpc'[p][c])
    BY <2>2, <2>4, <2>5, <2>6, FrontFacts DEF Unfenced, Coming, Taken
  <2>7. QED
    BY <2>4, <2>5, <2>6, HandlerEnds
<1>3. QED
  BY <1>1, <1>2

LEMMA ProcessTypes ==
  ASSUME StoreFit, SystemFit, NEW p \in Workers, NEW c \in Calls
  PROVE  /\ rpc[p][c] \in [Slots -> RpcRecord] /\ tracked[p][c] \in TrackedRecord
         /\ call[c] \in SessionRecord /\ call \in [Calls -> SessionRecord]
         /\ NoWorker \notin Workers
BY Facts DEF SystemTypes

\* An end of the session by a process that has begun with the call.
LEMMA EndCourse ==
  ASSUME SystemFit, NEW c \in Calls, EndSession(c)
  PROVE  /\ \A d \in Calls : d # c => call'[d] = call[d]
         /\ call[c].stage # "new" => SameCourse(c)
<1>1. call \in [Calls -> SessionRecord]
  BY EndTypes
<1>2. QED
  BY <1>1 DEF EndSession, SameCourse, SessionRecord

LEMMA FenceCourse ==
  ASSUME SystemFit, NEW c \in Calls, NEW r, ExtendFence(c, r)
  PROVE  SameCourse(c) /\ \A d \in Calls : d # c => call'[d] = call[d]
<1>1. call \in [Calls -> SessionRecord]
  BY EndTypes
<1>2. QED
  BY <1>1 DEF ExtendFence, SameCourse, SessionRecord

LEMMA IdleCourse ==
  ASSUME NEW c \in Calls, UNCHANGED call
  PROVE  SameCourse(c) /\ \A d \in Calls : d # c => call'[d] = call[d]
BY DEF SameCourse

\* Putting one of the slots that EndInv does not speak of.
LEMMA OtherSlots ==
  ASSUME NEW slots \in [Slots -> RpcRecord], NEW s \in {"activate", "renew"}, NEW r
  PROVE  /\ [slots EXCEPT ![s] = r]["reserve"] = slots["reserve"]
         /\ [slots EXCEPT ![s] = r]["release"] = slots["release"]
         /\ r \in RpcRecord => [slots EXCEPT ![s] = r] \in [Slots -> RpcRecord]
BY DEF Slots

LEMMA StartMediaEnds ==
  ASSUME StoreFit, SystemFit, EndInv, NEW p \in Workers, NEW c \in Calls, StartMedia(p, c)
  PROVE  EndInv'
<1> DEFINE w == IF tracked[p][c].state = "none" THEN p ELSE tracked[p][c].worker
           r == Request("activate", w, 0)
           slots == [rpc[p][c] EXCEPT !["activate"] = r]
<1>1. /\ rpc' = [rpc EXCEPT ![p][c] = slots] /\ tracked' = tracked /\ pending' = pending
      /\ UNCHANGED <<storeVars, stray, crashed>>
  <2>1. rpc' = [rpc EXCEPT ![p][c]["activate"] = r]
    BY DEF StartMedia, Resume
  <2> HIDE DEF r
  <2>2. rpc' = [rpc EXCEPT ![p][c] = slots]
    BY <2>1, EndTypes
  <2>3. QED
    BY <2>2 DEF StartMedia
<1> HIDE DEF r
<1>2. slots["reserve"] = rpc[p][c]["reserve"] /\ slots["release"] = rpc[p][c]["release"]
  BY ProcessTypes, OtherSlots
<1>3. SameCourse(c) /\ \A d \in Calls : d # c => call'[d] = call[d]
  <2>1. call[c].stage = "open" /\ call' = [call EXCEPT ![c].owner = p]
    BY DEF StartMedia
  <2>2. QED
    BY <2>1, ProcessTypes DEF SameCourse, SessionRecord
<1> HIDE DEF slots
<1>4. QED
  BY <1>1, <1>2, <1>3, SlotEnds DEF SlotMove

LEMMA ActivateGrantedEnds ==
  ASSUME StoreFit, SystemFit, EndInv, NEW p \in Workers, NEW c \in Calls, ActivateGranted(p, c)
  PROVE  EndInv'
<1> DEFINE r == rpc[p][c]["activate"]
           t == [state |-> "active", worker |-> r.worker, epoch |-> r.epoch,
                 deadline |-> ConfirmedUntil(r), lost |-> FALSE]
           slots == [Detached(rpc[p][c]) EXCEPT !["activate"].stage = "confirming"]
<1>1. /\ rpc' = [rpc EXCEPT ![p][c] = slots] /\ tracked' = [tracked EXCEPT ![p][c] = t]
      /\ pending' = pending /\ call' = call /\ UNCHANGED <<storeVars, stray, crashed>>
  BY DEF ActivateGranted
<1>2. slots["reserve"] = rpc[p][c]["reserve"] /\ slots["release"] = rpc[p][c]["release"]
  <2> DEFINE d == Detached(rpc[p][c])
  <2>1. /\ d \in [Slots -> RpcRecord]
        /\ d["reserve"] = rpc[p][c]["reserve"] /\ d["release"] = rpc[p][c]["release"]
    BY ProcessTypes, DetachedFacts, SlotsDiffer
  <2> HIDE DEF d
  <2>2. /\ [d EXCEPT !["activate"].stage = "confirming"]["reserve"] = d["reserve"]
        /\ [d EXCEPT !["activate"].stage = "confirming"]["release"] = d["release"]
    BY <2>1 DEF Slots
  <2>3. QED
    BY <2>1, <2>2 DEF d
<1>3. c \in Premium => p \notin Fronts
  BY FrontFacts, IdleFacts DEF ActivateGranted, Answered
<1> HIDE DEF slots, t
<1>4. QED
  BY <1>1, <1>2, <1>3, IdleCourse, SlotEnds DEF SlotMove

LEMMA ActivateRefusedEnds ==
  ASSUME StoreFit, SystemFit, EndInv, NEW p \in Workers, NEW c \in Calls, ActivateRefused(p, c)
  PROVE  EndInv'
<1> DEFINE slots == [rpc[p][c] EXCEPT !["activate"] = Idle]
<1>1. /\ EndSession(c) /\ StartRelease(p, c, slots) /\ UNCHANGED <<storeVars, stray, crashed>>
      /\ rpc[p][c]["activate"] # Idle
  BY IdleFacts DEF ActivateRefused, Parked, Answered
<1>2. /\ slots["reserve"] = rpc[p][c]["reserve"] /\ slots["release"] = rpc[p][c]["release"]
      /\ slots \in [Slots -> RpcRecord]
  BY ProcessTypes, OtherSlots, IdleFacts
<1>3. c \in Premium => call[c].stage # "new"
  <2>1. call[c].owner = p /\ NoWorker \notin Workers
    BY <1>1, Facts DEF Roles
  <2>2. QED
    BY <2>1 DEF EndInv, EndFit
<1> HIDE DEF slots
<1>4. QED
  BY <1>1, <1>2, <1>3, EndCourse, ReleaseEnds

LEMMA MediaConfirmedEnds ==
  ASSUME StoreFit, SystemFit, EndInv, NEW p \in Workers, NEW c \in Calls, MediaConfirmed(p, c)
  PROVE  EndInv'
<1> DEFINE slots == [rpc[p][c] EXCEPT !["activate"] = Idle]
<1>1. /\ ExtendFence(c, rpc[p][c]["activate"]) /\ rpc' = [rpc EXCEPT ![p][c] = slots]
      /\ tracked' = tracked /\ pending' = pending /\ UNCHANGED <<storeVars, stray, crashed>>
  BY ResumeFacts, SlotsDiffer DEF MediaConfirmed
<1>2. slots["reserve"] = rpc[p][c]["reserve"] /\ slots["release"] = rpc[p][c]["release"]
  BY ProcessTypes, OtherSlots
<1> HIDE DEF slots
<1>3. QED
  BY <1>1, <1>2, FenceCourse, SlotEnds DEF SlotMove

LEMMA MediaRejectedEnds ==
  ASSUME StoreFit, SystemFit, EndInv, NEW p \in Workers, NEW c \in Calls, MediaRejected(p, c)
  PROVE  EndInv'
<1> DEFINE slots == [rpc[p][c] EXCEPT !["activate"] = Idle]
<1>1. StartRelease(p, c, slots) /\ call' = call /\ UNCHANGED <<storeVars, stray, crashed>>
  BY DEF MediaRejected, Parked
<1>2. /\ slots["reserve"] = rpc[p][c]["reserve"] /\ slots["release"] = rpc[p][c]["release"]
      /\ slots \in [Slots -> RpcRecord]
  BY ProcessTypes, OtherSlots, IdleFacts
<1> HIDE DEF slots
<1>3. QED
  BY <1>1, <1>2, IdleCourse, ReleaseEnds

LEMMA MediaStartThrowsEnds ==
  ASSUME StoreFit, SystemFit, EndInv, NEW p \in Workers, NEW c \in Calls, MediaStartThrows(p, c)
  PROVE  EndInv'
<1> DEFINE slots == [rpc[p][c] EXCEPT !["activate"] = Idle]
<1>1. /\ rpc[p][c]["activate"] # Idle /\ rpc' = [rpc EXCEPT ![p][c] = slots]
      /\ ExtendFence(c, rpc[p][c]["activate"]) \/ UNCHANGED call \/ EndSession(c)
      /\ tracked' = tracked /\ pending' = pending /\ UNCHANGED <<storeVars, stray, crashed>>
  BY IdleFacts, ResumeFacts, SlotsDiffer DEF MediaStartThrows, Answered
<1>2. slots["reserve"] = rpc[p][c]["reserve"] /\ slots["release"] = rpc[p][c]["release"]
  BY ProcessTypes, OtherSlots
<1>3. c \in Premium => call[c].stage # "new"
  <2>1. call[c].owner = p /\ NoWorker \notin Workers
    BY <1>1, Facts DEF Roles
  <2>2. QED
    BY <2>1 DEF EndInv, EndFit
<1>4. /\ \A d \in Calls : d # c => call'[d] = call[d]
      /\ c \in Premium => SameCourse(c)
  BY <1>1, <1>3, EndCourse, FenceCourse, IdleCourse
<1> HIDE DEF slots
<1>5. QED
  BY <1>1, <1>2, <1>4, SlotEnds DEF SlotMove

LEMMA OwnerEnds ==
  ASSUME StoreFit, SystemFit, EndInv, NEW p \in Workers, NEW c \in Calls,
         LossHandled(p, c) \/ Terminalize(p, c)
  PROVE  EndInv'
<1>1. /\ StartRelease(p, c, rpc[p][c]) /\ UNCHANGED <<storeVars, stray, crashed>>
      /\ UNCHANGED call \/ (call[c].stage # "new" /\ EndSession(c))
  BY DEF LossHandled, Terminalize, MayTerminalize
<1>2. rpc[p][c] \in [Slots -> RpcRecord]
  BY ProcessTypes
<1>3. CASE UNCHANGED call
  BY <1>1, <1>2, <1>3, IdleCourse, ReleaseEnds
<1>4. CASE call[c].stage # "new" /\ EndSession(c)
  BY <1>1, <1>2, <1>4, EndCourse, ReleaseEnds
<1>5. QED
  BY <1>1, <1>3, <1>4

LEMMA StatusCallbackEnds ==
  ASSUME StoreFit, SystemFit, EndInv, NEW p \in Workers, NEW c \in Calls, StatusCallback(p, c)
  PROVE  EndInv'
<1>1. /\ StartRelease(p, c, rpc[p][c]) /\ UNCHANGED <<storeVars, stray, crashed>>
      /\ call' = [call EXCEPT ![c].stage = IF @ = "new" THEN @ ELSE "ended", ![c].over = TRUE]
  BY DEF StatusCallback
<1>2. rpc[p][c] \in [Slots -> RpcRecord] /\ call \in [Calls -> SessionRecord]
  BY ProcessTypes
<1>3. SameCourse(c) /\ \A d \in Calls : d # c => call'[d] = call[d]
  BY <1>1, <1>2 DEF SameCourse, SessionRecord
<1>4. QED
  BY <1>1, <1>2, <1>3, ReleaseEnds

LEMMA CloseStreamEnds ==
  ASSUME StoreFit, SystemFit, EndInv, NEW p \in Workers, NEW c \in Calls, CloseStream(p, c)
  PROVE  EndInv'
<1>1. /\ rpc' = rpc /\ tracked' = tracked /\ pending' = pending /\ call' = call
      /\ UNCHANGED <<storeVars, stray, crashed>>
  BY DEF CloseStream
<1>2. QED
  BY <1>1, IdleCourse, SlotEnds DEF SlotMove

\* A process gives up its own lease; what it tracks of the call stays in the map.
LEMMA LossEnds ==
  ASSUME StoreFit, SystemFit, EndInv, NEW p \in Workers, NEW c \in Calls, NEW slots,
         StartLoss(p, c, slots), UNCHANGED <<storeVars, stray, crashed>>,
         SameCourse(c), \A d \in Calls : d # c => call'[d] = call[d],
         slots["reserve"] = rpc[p][c]["reserve"], slots["release"] = rpc[p][c]["release"]
  PROVE  EndInv'
<1> DEFINE t == [tracked[p][c] EXCEPT !.lost = TRUE]
<1>1. /\ rpc' = [rpc EXCEPT ![p][c] = slots] /\ pending' = pending
      /\ UNCHANGED <<storeVars, stray, crashed>>
  BY DEF StartLoss
<1>2. tracked' = [tracked EXCEPT ![p][c] = t]
  BY EndTypes DEF StartLoss
<1>3. t.state = tracked[p][c].state
  BY ProcessTypes DEF TrackedRecord
<1> HIDE DEF t
<1>4. SlotMove(p, c, t, slots)
  BY <1>1, <1>2, <1>3 DEF SlotMove
<1>5. QED
  BY <1>4, SlotEnds

LEMMA DeadlinePassedEnds ==
  ASSUME StoreFit, SystemFit, EndInv, NEW p \in Workers, NEW c \in Calls, DeadlinePassed(p, c)
  PROVE  EndInv'
BY IdleCourse, LossEnds DEF DeadlinePassed

\* A handler that puts the renewal's slot to r and keeps the entry's state.
LEMMA RenewalEnds ==
  ASSUME StoreFit, SystemFit, EndInv, NEW p \in Workers, NEW c \in Calls, NEW r,
         Resume(p, c, "renew", r), pending' = pending, UNCHANGED <<storeVars, stray, crashed>>,
         SameCourse(c), \A d \in Calls : d # c => call'[d] = call[d],
         \/ tracked' = tracked
         \/ \E t : tracked' = [tracked EXCEPT ![p][c] = t] /\ t.state = tracked[p][c].state
  PROVE  EndInv'
<1> DEFINE slots == [rpc[p][c] EXCEPT !["renew"] = r]
<1>1. rpc' = [rpc EXCEPT ![p][c] = slots]
  BY ResumeFacts, SlotsDiffer
<1>2. slots["reserve"] = rpc[p][c]["reserve"] /\ slots["release"] = rpc[p][c]["release"]
  BY ProcessTypes, OtherSlots
<1> HIDE DEF slots
<1>3. CASE tracked' = tracked
  <2>1. SlotMove(p, c, tracked[p][c], slots)
    BY <1>1, <1>2, <1>3 DEF SlotMove
  <2>2. QED
    BY <2>1, SlotEnds
<1>4. ASSUME NEW t, tracked' = [tracked EXCEPT ![p][c] = t], t.state = tracked[p][c].state
      PROVE  EndInv'
  <2>1. SlotMove(p, c, t, slots)
    BY <1>1, <1>2, <1>4 DEF SlotMove
  <2>2. QED
    BY <2>1, SlotEnds
<1>5. QED
  BY <1>3, <1>4

LEMMA RenewalDueEnds ==
  ASSUME StoreFit, SystemFit, EndInv, NEW p \in Workers, NEW c \in Calls, RenewalDue(p, c)
  PROVE  EndInv'
<1>1. PICK r : Resume(p, c, "renew", r)
  BY DEF RenewalDue
<1>2. /\ tracked' = tracked /\ pending' = pending /\ call' = call
      /\ UNCHANGED <<storeVars, stray, crashed>>
  BY DEF RenewalDue
<1>3. QED
  BY <1>1, <1>2, IdleCourse, RenewalEnds

LEMMA RenewAnsweredEnds ==
  ASSUME StoreFit, SystemFit, EndInv, NEW p \in Workers, NEW c \in Calls, RenewAnswered(p, c)
  PROVE  EndInv'
<1>1. call' = call /\ UNCHANGED <<storeVars, stray, crashed>>
  BY DEF RenewAnswered
<1>2. SameCourse(c) /\ \A d \in Calls : d # c => call'[d] = call[d]
  BY <1>1, IdleCourse
<1>3. CASE StartLoss(p, c, Parked(p, c, "renew"))
  <2>1. /\ Parked(p, c, "renew")["reserve"] = rpc[p][c]["reserve"]
        /\ Parked(p, c, "renew")["release"] = rpc[p][c]["release"]
    BY ProcessTypes, OtherSlots DEF Parked
  <2>2. QED
    BY <1>1, <1>2, <1>3, <2>1, LossEnds
<1>4. CASE /\ \E r : Resume(p, c, "renew", r)
           /\ tracked' = tracked /\ pending' = pending
  <2>1. PICK r : Resume(p, c, "renew", r)
    BY <1>4
  <2>2. QED
    BY <1>1, <1>2, <1>4, <2>1, RenewalEnds
<1>5. CASE /\ \E r : Resume(p, c, "renew", r)
           /\ tracked' = [tracked EXCEPT ![p][c].deadline = ConfirmedUntil(rpc[p][c]["renew"])]
           /\ pending' = pending
  <2> DEFINE t == [tracked[p][c] EXCEPT !.deadline = ConfirmedUntil(rpc[p][c]["renew"])]
  <2>1. PICK r : Resume(p, c, "renew", r)
    BY <1>5
  <2>2. tracked' = [tracked EXCEPT ![p][c] = t] /\ t.state = tracked[p][c].state
    BY <1>5, EndTypes, ProcessTypes DEF TrackedRecord
  <2> HIDE DEF t
  <2>3. QED
    BY <1>1, <1>2, <1>5, <2>1, <2>2, RenewalEnds
<1>6. QED
  BY <1>3, <1>4, <1>5 DEF RenewAnswered

LEMMA RecoverAnsweredEnds ==
  ASSUME StoreFit, SystemFit, EndInv, NEW p \in Workers, NEW c \in Calls, RecoverAnswered(p, c)
  PROVE  EndInv'
<1> DEFINE q == rpc[p][c]["renew"]
<1>1. call' = call /\ UNCHANGED <<storeVars, stray, crashed>>
  BY DEF RecoverAnswered
<1>2. SameCourse(c) /\ \A d \in Calls : d # c => call'[d] = call[d]
  BY <1>1, IdleCourse
<1>3. CASE StartLoss(p, c, Parked(p, c, "renew"))
  <2>1. /\ Parked(p, c, "renew")["reserve"] = rpc[p][c]["reserve"]
        /\ Parked(p, c, "renew")["release"] = rpc[p][c]["release"]
    BY ProcessTypes, OtherSlots DEF Parked
  <2>2. QED
    BY <1>1, <1>2, <1>3, <2>1, LossEnds
<1>4. CASE /\ \E r : Resume(p, c, "renew", r)
           /\ tracked' = tracked /\ pending' = pending
  <2>1. PICK r : Resume(p, c, "renew", r)
    BY <1>4
  <2>2. QED
    BY <1>1, <1>2, <1>4, <2>1, RenewalEnds
<1>5. CASE /\ \E r : Resume(p, c, "renew", r)
           /\ tracked' = [tracked EXCEPT ![p][c] =
                IF q.mine THEN [@ EXCEPT !.epoch = q.epoch, !.deadline = ConfirmedUntil(q)] ELSE @]
           /\ pending' = pending
  <2> DEFINE t == IF q.mine
                  THEN [tracked[p][c] EXCEPT !.epoch = q.epoch, !.deadline = ConfirmedUntil(q)]
                  ELSE tracked[p][c]
  <2>1. PICK r : Resume(p, c, "renew", r)
    BY <1>5
  <2>2. tracked' = [tracked EXCEPT ![p][c] = t] /\ t.state = tracked[p][c].state
    BY <1>5, EndTypes, ProcessTypes DEF TrackedRecord
  <2> HIDE DEF t
  <2>3. QED
    BY <1>1, <1>2, <1>5, <2>1, <2>2, RenewalEnds
<1>6. QED
  BY <1>3, <1>4, <1>5 DEF RecoverAnswered

LEMMA RenewalConfirmedEnds ==
  ASSUME StoreFit, SystemFit, EndInv, NEW p \in Workers, NEW c \in Calls, RenewalConfirmed(p, c)
  PROVE  EndInv'
<1>1. /\ ExtendFence(c, rpc[p][c]["renew"]) /\ Resume(p, c, "renew", Idle)
      /\ tracked' = tracked /\ pending' = pending /\ UNCHANGED <<storeVars, stray, crashed>>
  BY DEF RenewalConfirmed
<1>2. QED
  BY <1>1, FenceCourse, RenewalEnds

LEMMA RenewalRejectedEnds ==
  ASSUME StoreFit, SystemFit, EndInv, NEW p \in Workers, NEW c \in Calls, RenewalRejected(p, c)
  PROVE  EndInv'
<1>1. /\ UNCHANGED <<storeVars, stray, crashed>>
      /\ ExtendFence(c, rpc[p][c]["renew"]) \/ UNCHANGED call
  BY DEF RenewalRejected
<1>2. SameCourse(c) /\ \A d \in Calls : d # c => call'[d] = call[d]
  BY <1>1, FenceCourse, IdleCourse
<1>3. CASE StartLoss(p, c, Parked(p, c, "renew"))
  <2>1. /\ Parked(p, c, "renew")["reserve"] = rpc[p][c]["reserve"]
        /\ Parked(p, c, "renew")["release"] = rpc[p][c]["release"]
    BY ProcessTypes, OtherSlots DEF Parked
  <2>2. QED
    BY <1>1, <1>2, <1>3, <2>1, LossEnds
<1>4. CASE Resume(p, c, "renew", Idle) /\ tracked' = tracked /\ pending' = pending
  BY <1>1, <1>2, <1>4, RenewalEnds
<1>5. QED
  BY <1>3, <1>4 DEF RenewalRejected

LEMMA ReserveCallEnds ==
  ASSUME StoreFit, SystemFit, EndInv, NEW p \in Workers, NEW c \in Calls, NEW w \in Workers,
         ReserveCall(p, c, w)
  PROVE  EndInv'
<1> DEFINE r == Request("reserve", w, 0)
           slots == [rpc[p][c] EXCEPT !["reserve"] = r]
<1>1. rpc' = [rpc EXCEPT ![p][c] = slots]
  BY ResumeFacts, SlotsDiffer DEF ReserveCall
<1>2. /\ slots["reserve"] = r /\ slots["release"] = rpc[p][c]["release"]
      /\ call' = [call EXCEPT ![c].webhooks = @ + 1]
      /\ tracked' = tracked /\ pending' = pending /\ UNCHANGED <<storeVars, stray, crashed>>
      /\ rpc[p][c]["reserve"] = Idle
  BY ProcessTypes DEF ReserveCall, Slots
<1> HIDE DEF r, slots
<1>3. /\ Only(rpc, rpc', p, c) /\ rpc'[p][c] = slots
      /\ \A d \in Calls : d # c => call'[d] = call[d]
  BY <1>1, <1>2, EndTypes DEF Only
<1>4. /\ lease' = lease /\ hold' = hold /\ stray' = stray /\ crashed' = crashed
      /\ Fronts \subseteq Workers /\ Premium \subseteq Calls
  BY <1>2, CoordinatorAssumption DEF storeVars
<1>5. \A d \in Calls : (NothingHeld(d) => NothingHeld(d)') /\ (ReserveAdrift(d)' => ReserveAdrift(d))
  BY <1>4 DEF NothingHeld, ReserveAdrift
<1>6. ASSUME NEW d \in Premium, d # c
      PROVE  EndFit(d)'
  BY <1>2, <1>3, <1>4, <1>5, <1>6, EndElsewhere DEF EndInv, Only
<1>7. ASSUME c \in Premium
      PROVE  EndFit(c)'
  <2>1. EndFit(c) /\ call[c].webhooks \in Nat
    BY <1>7, ProcessTypes, CoordinatorAssumption DEF EndInv, SessionRecord
  <2>2. /\ call'[c].webhooks = call[c].webhooks + 1 /\ call'[c].stage = call[c].stage
        /\ call'[c].owner = call[c].owner
    BY <1>2, ProcessTypes DEF SessionRecord
  <2>3. \A q \in Workers : q # p => rpc'[q][c] = rpc[q][c]
    BY <1>3 DEF Only
  <2>4. ASSUME call'[c].webhooks <= 1
        PROVE  /\ call[c].webhooks = 0 /\ call[c].stage = "new"
               /\ \A q \in Workers : rpc'[q][c]["reserve"] # Idle => q = p
               /\ ~ReserveAdrift(c)'
    BY <1>5, <2>1, <2>2, <2>3, <2>4 DEF EndFit, ReservedOnce, Reserving
  <2>5. call'[c].webhooks <= 1 => ReservedOnce(c)'
    BY <2>2, <2>4 DEF ReservedOnce
  <2>6. \A f \in Fronts : Unfenced(pending'[f][c], rpc'[f][c])
    BY <1>2, <1>3, <1>4, <2>1, <2>3 DEF EndFit, Unfenced
  <2>7. QED
    BY <2>1, <2>2, <2>4, <2>5, <2>6 DEF EndFit
<1>8. QED
  BY <1>6, <1>7 DEF EndInv

\* The webhook opens the session with the claim it tracks, and no reservation is
\* left behind: its client has heard of it.
LEMMA ReserveAnsweredEnds ==
  ASSUME StoreFit, SystemFit, EndInv, NEW p \in Workers, NEW c \in Calls, ReserveAnswered(p, c)
  PROVE  EndInv'
<1> DEFINE r == rpc[p][c]["reserve"]
           admitted == r.out \in {"created", "existing"}
           retrack == admitted /\ (r.out = "created" \/ tracked[p][c].state # "active")
           t == IF retrack THEN [Untracked EXCEPT !.state = "claim", !.worker = r.worker]
                ELSE tracked[p][c]
           parked == [rpc[p][c] EXCEPT !["reserve"] = Idle]
           slots == IF retrack THEN Detached(parked) ELSE parked
<1>1. r.stage = "answered" /\ r.cmd = "reserve" /\ r # Idle
  BY IdleFacts DEF ReserveAnswered, Answered
<1>2. /\ tracked' = [tracked EXCEPT ![p][c] = t] /\ rpc' = [rpc EXCEPT ![p][c] = slots]
      /\ pending' = pending /\ UNCHANGED <<storeVars, stray, crashed>>
      /\ \/ call' = call
         \/ /\ admitted /\ call[c].stage = "new"
            /\ call' = [call EXCEPT ![c].stage = "open", ![c].worker = r.worker]
  BY EndTypes DEF ReserveAnswered, Parked
<1>3. slots["reserve"] = Idle /\ slots["release"] = rpc[p][c]["release"]
  <2>1. /\ parked \in [Slots -> RpcRecord] /\ parked["reserve"] = Idle
        /\ parked["release"] = rpc[p][c]["release"]
    BY ProcessTypes, IdleFacts DEF Slots
  <2> HIDE DEF parked
  <2>2. /\ Detached(parked)["reserve"] = parked["reserve"]
        /\ Detached(parked)["release"] = parked["release"]
    BY <2>1, DetachedFacts, SlotsDiffer
  <2>3. QED
    BY <2>1, <2>2
<1>4. retrack => t.state = "claim"
  BY DEF Untracked
<1> HIDE DEF slots, t
<1>5. /\ Only(tracked, tracked', p, c) /\ tracked'[p][c] = t
      /\ Only(rpc, rpc', p, c) /\ rpc'[p][c] = slots
      /\ \A d \in Calls : d # c => call'[d] = call[d]
  BY <1>2, EndTypes DEF Only
<1>6. /\ lease' = lease /\ hold' = hold /\ stray' = stray /\ crashed' = crashed
      /\ Fronts \subseteq Workers /\ Premium \subseteq Calls
  BY <1>2, CoordinatorAssumption DEF storeVars
<1>7. \A d \in Calls : (NothingHeld(d) => NothingHeld(d)') /\ (ReserveAdrift(d)' <=> ReserveAdrift(d))
  BY <1>6 DEF NothingHeld, ReserveAdrift
<1>8. ASSUME NEW d \in Premium, d # c
      PROVE  EndFit(d)'
  BY <1>2, <1>5, <1>6, <1>7, <1>8, EndElsewhere DEF EndInv, Only
<1>9. ASSUME c \in Premium
      PROVE  EndFit(c)'
  <2>1. EndFit(c) /\ p \in Fronts /\ tracked[p][c].state # "active" /\ Reserving(c)
    BY <1>1, <1>9, Facts, FrontFacts DEF EndInv, Roles, Reserving
  <2>2. /\ call'[c].webhooks = call[c].webhooks /\ call'[c].owner = call[c].owner
        /\ \/ call'[c].stage = call[c].stage
           \/ admitted /\ call[c].stage = "new" /\ call'[c].stage = "open"
    BY <1>2, ProcessTypes DEF SessionRecord
  <2>3. \A q \in Workers : q # p => /\ rpc'[q][c] = rpc[q][c] /\ tracked'[q][c] = tracked[q][c]
    BY <1>5 DEF Only
  <2>4. call[c].webhooks # 0
    BY <2>1 DEF EndFit, ReservedOnce
  <2>5. ASSUME call[c].webhooks <= 1
        PROVE  /\ call[c].stage = "new" /\ (admitted => ~ReserveAdrift(c))
               /\ \A q \in Workers : q # p => rpc[q][c]["reserve"] = Idle
    BY <1>1, <2>1, <2>5 DEF EndFit, ReservedOnce
  <2>6. call'[c].webhooks <= 1 => ReservedOnce(c)'
    <3>1. SUFFICES ASSUME call[c].webhooks <= 1
                   PROVE  ReservedOnce(c)'
      BY <2>2
    <3>2. \A q \in Workers : rpc'[q][c]["reserve"] = Idle
      BY <1>3, <1>5, <2>3, <2>5, <3>1
    <3>3. call'[c].stage # "new" => ~ReserveAdrift(c)'
      BY <1>7, <2>2, <2>5, <3>1
    <3>4. QED
      BY <2>2, <2>4, <3>2, <3>3 DEF ReservedOnce, Reserving
  <2>7. \A f \in Fronts : Unfenced(pending'[f][c], rpc'[f][c])
    BY <1>2, <1>3, <1>5, <1>6, <2>1, <2>3 DEF EndFit, Unfenced
  <2>8. call[c].webhooks <= 1 /\ call'[c].stage # "new" => Coming(tracked'[p][c], pending'[p][c], rpc'[p][c])
    BY <1>4, <1>5, <2>1, <2>2, <2>5 DEF Coming
  <2>9. QED
    BY <2>1, <2>2, <2>4, <2>6, <2>7, <2>8 DEF EndFit
<1>10. QED
  BY <1>8, <1>9 DEF EndInv

\* A release is settled once the store has taken it.
LEMMA ReleaseAnsweredEnds ==
  ASSUME StoreFit, SystemFit, EndInv, NEW p \in Workers, NEW c \in Calls, ReleaseAnswered(p, c)
  PROVE  EndInv'
<1> DEFINE r == rpc[p][c]["release"]
           o == IF r.out = "unavailable" THEN pending[p][c] ELSE NothingOwed
           slots == [rpc[p][c] EXCEPT !["release"] = Idle]
<1>1. /\ rpc' = [rpc EXCEPT ![p][c] = slots] /\ r.stage = "answered" /\ tracked' = tracked
      /\ call' = call /\ UNCHANGED <<storeVars, stray, crashed>>
  BY ResumeFacts, SlotsDiffer DEF ReleaseAnswered, Answered
<1>2. pending' = [pending EXCEPT ![p][c] = o]
  <2>1. pending' = [pending EXCEPT ![p][c] = IF r.out = "unavailable" THEN @ ELSE NothingOwed]
    BY DEF ReleaseAnswered
  <2>2. QED
    BY <2>1
<1>3. slots["reserve"] = rpc[p][c]["reserve"] /\ slots["release"] = Idle
  BY ProcessTypes DEF Slots
<1> HIDE DEF slots
<1>4. /\ Only(tracked, tracked', p, c)
      /\ Only(pending, pending', p, c) /\ pending'[p][c] = o
      /\ Only(rpc, rpc', p, c) /\ rpc'[p][c] = slots
  BY <1>1, <1>2, EndTypes DEF Only
<1>5. ASSUME c \in Premium, p \in Fronts
      PROVE  /\ Unfenced(pending'[p][c], rpc'[p][c])
             /\ Coming(tracked[p][c], pending[p][c], rpc[p][c])
                  => Coming(tracked'[p][c], pending'[p][c], rpc'[p][c])
  <2>1. Unfenced(pending[p][c], rpc[p][c])
    BY <1>5 DEF EndInv, EndFit
  <2>2. Unfenced(pending'[p][c], rpc'[p][c])
    BY <1>3, <1>4, <2>1, IdleFacts DEF Unfenced, NothingOwed
  <2>3. CASE r.out = "unavailable"
    BY <1>1, <1>3, <1>4, <2>2, <2>3, IdleFacts DEF Coming, Taken
  <2>4. CASE r.out # "unavailable"
    BY <1>1, <2>2, <2>4 DEF Coming, Taken
  <2>5. QED
    BY <2>3, <2>4
<1> HIDE DEF o
<1>6. QED
  BY <1>1, <1>3, <1>4, <1>5, IdleCourse, HandlerEnds

LEMMA RetryReleaseEnds ==
  ASSUME StoreFit, SystemFit, EndInv, NEW p \in Workers, NEW c \in Calls, RetryRelease(p, c)
  PROVE  EndInv'
<1> DEFINE r == Request("release", pending[p][c].worker, pending[p][c].epoch)
           slots == [rpc[p][c] EXCEPT !["release"] = r]
<1>1. /\ rpc' = [rpc EXCEPT ![p][c] = slots] /\ pending[p][c].owed /\ tracked' = tracked
      /\ pending' = pending /\ call' = call /\ UNCHANGED <<storeVars, stray, crashed>>
  BY ResumeFacts, SlotsDiffer DEF RetryRelease
<1>2. r.stage = "sent" /\ r.epoch = pending[p][c].epoch
  BY DEF Request, Idle
<1> HIDE DEF r
<1>3. slots["reserve"] = rpc[p][c]["reserve"] /\ slots["release"] = r
  BY ProcessTypes DEF Slots
<1> HIDE DEF slots
<1>4. /\ Only(tracked, tracked', p, c) /\ Only(pending, pending', p, c)
      /\ Only(rpc, rpc', p, c) /\ rpc'[p][c] = slots
  BY <1>1, EndTypes DEF Only
<1>5. ASSUME c \in Premium, p \in Fronts
      PROVE  /\ Unfenced(pending'[p][c], rpc'[p][c])
             /\ Coming(tracked'[p][c], pending'[p][c], rpc'[p][c])
  <2>1. Unfenced(pending[p][c], rpc[p][c])
    BY <1>5 DEF EndInv, EndFit
  <2>2. QED
    BY <1>1, <1>2, <1>3, <1>4, <2>1 DEF Unfenced, Coming, Taken
<1>6. QED
  BY <1>1, <1>3, <1>4, <1>5, IdleCourse, HandlerEnds

\* A call without a record keeps having none, unless it is reserved again: there is
\* nothing to activate, to renew or to recover.
LEMMA DeadStays ==
  ASSUME StoreFit, NEW c \in Calls, NEW d \in Calls, NEW cmd, NEW w, NEW epoch, NEW out,
         Execute(d, cmd, w, epoch, out), d = c => cmd # "reserve", NothingHeld(c)
  PROVE  NothingHeld(c)'
<1>1. now \in Nat /\ hold \in [Calls -> Admission!HoldRecord] /\ lease \in [Calls -> Admission!LeaseRecord]
  BY DEF StoreFit, Admission!StoreInv, Admission!TypeOK
<1>2. lease[c] = Store!NoLease /\ hold[c] = Store!NoHold
  BY DEF NothingHeld
<1>3. ~Store!Live(c) /\ ~Store!Claimed(c) /\ ~Store!Active(c) /\ ~Store!Held(c) /\ ~Store!RecoveryOwner(c, w)
  BY <1>1, <1>2 DEF Store!NoLease, Store!NoHold, Store!Live, Store!Claimed, Store!Active,
                    Store!Held, Store!RecoveryOwner
<1>4. ASSUME lease' = lease, hold' = hold
      PROVE  NothingHeld(c)'
  BY <1>2, <1>4 DEF NothingHeld
<1>5. ASSUME d # c, NEW l, lease' = lease \/ lease' = [lease EXCEPT ![d] = l],
             NEW h, hold' = hold \/ hold' = [hold EXCEPT ![d] = h]
      PROVE  NothingHeld(c)'
  BY <1>1, <1>2, <1>5 DEF NothingHeld
<1>6. ASSUME Store!Drop(d)
      PROVE  NothingHeld(c)'
  BY <1>1, <1>2, <1>6 DEF Store!Drop, NothingHeld
<1>7. ASSUME NEW e, d # c, Store!GrantLease(d, w, e)
      PROVE  NothingHeld(c)'
  <2>1. /\ \E l : lease' = [lease EXCEPT ![d] = l]
        /\ \E h : hold' = [hold EXCEPT ![d] = h]
    BY <1>7 DEF Store!GrantLease, Store!PutHold
  <2>2. QED
    BY <1>5, <1>7, <2>1
<1>8. ASSUME NEW e, NEW at, d # c, Store!PutHold(d, at, w, e), lease' = lease
      PROVE  NothingHeld(c)'
  <2>1. \E h : hold' = [hold EXCEPT ![d] = h]
    BY <1>8 DEF Store!PutHold
  <2>2. QED
    BY <1>5, <1>8, <2>1
<1>9. ASSUME Store!ActivateLive(d, w, out)
      PROVE  NothingHeld(c)'
  BY <1>3, <1>4, <1>7, <1>8, <1>9
     DEF Store!ActivateLive, Store!ActivateClaim, Store!ActivateWorkerFull,
         Store!ActivateForeign, Store!ActivateExisting, Store!vars
<1>10. CASE cmd = "reserve"
  <2>1. CASE Store!ReserveExisting(d, out) \/ Store!ReserveDenied(d, w, out)
    BY <1>4, <2>1 DEF Store!ReserveExisting, Store!ReserveDenied, Store!vars
  <2>2. CASE Store!ReserveCreated(d, w, out)
    <3>1. /\ hold' = hold /\ \E l : lease' = [lease EXCEPT ![d] = l]
      BY <2>2 DEF Store!ReserveCreated
    <3>2. QED
      BY <1>5, <1>10, <3>1
  <2>3. QED
    BY <1>10, <2>1, <2>2 DEF Execute, Store!Reserve
<1>11. CASE cmd = "activate"
  BY <1>4, <1>9, <1>11 DEF Execute, Store!Activate, Store!vars
<1>12. CASE cmd = "recover"
  <2>1. CASE Store!RecoverRefused(d, w, out)
    BY <1>4, <2>1 DEF Store!RecoverRefused, Store!vars
  <2>2. CASE Store!RecoverFull(d, w, out) \/ Store!RecoverGranted(d, w, out)
    BY <1>3, <1>7, <1>8, <2>2 DEF Store!RecoverFull, Store!RecoverGranted
  <2>3. QED
    BY <1>9, <1>12, <2>1, <2>2 DEF Execute, Store!Recover
<1>13. CASE cmd = "renew"
  BY <1>3, <1>4, <1>7, <1>13 DEF Execute, Store!Renew, Store!RenewRefused, Store!RenewGranted, Store!vars
<1>14. CASE cmd = "release"
  BY <1>4, <1>6, <1>14 DEF Execute, Store!Release, Store!ReleaseFenced, Store!vars
<1>15. QED
  BY <1>10, <1>11, <1>12, <1>13, <1>14 DEF Execute

\* A release without a fence leaves nothing of the call.
LEMMA ReleaseEmpties ==
  ASSUME StoreFit, NEW c \in Calls, NEW w, NEW out, Execute(c, "release", w, 0, out)
  PROVE  NothingHeld(c)'
<1>1. hold \in [Calls -> Admission!HoldRecord] /\ lease \in [Calls -> Admission!LeaseRecord]
  BY DEF StoreFit, Admission!StoreInv, Admission!TypeOK
<1>2. Store!Release(c, out)
  BY DEF Execute
<1>3. QED
  BY <1>1, <1>2 DEF Store!Release, Store!Drop, NothingHeld

\* The answer to a command, or its absence.
LEMMA AnswerEnds ==
  ASSUME StoreFit, SystemFit, EndInv, NEW p \in Workers, NEW c \in Calls, NEW s \in Slots,
         NEW r, rpc[p][c][s].stage = "sent", r.stage = "answered",
         rpc' = [rpc EXCEPT ![p][c] = [rpc[p][c] EXCEPT ![s] = r]],
         call' = call, tracked' = tracked, pending' = pending, crashed' = crashed,
         \A d \in Calls : NothingHeld(d) /\ (d # c \/ s # "reserve") => NothingHeld(d)',
         \A d \in Calls : ReserveAdrift(d)' =>
           ReserveAdrift(d) \/ (d = c /\ s = "reserve" /\ r.out = "unavailable"),
         s = "release" /\ r.out # "unavailable" /\ rpc[p][c][s].epoch = 0 => NothingHeld(c)'
  PROVE  EndInv'
<1> DEFINE q == rpc[p][c][s]
           slots == [rpc[p][c] EXCEPT ![s] = r]
<1>1. /\ slots[s] = r /\ \A u \in Slots : u # s => slots[u] = rpc[p][c][u]
      /\ q # Idle /\ r # Idle
  BY ProcessTypes, IdleFacts
<1> HIDE DEF slots
<1>2. Only(rpc, rpc', p, c) /\ rpc'[p][c] = slots
  <2>1. rpc' = [rpc EXCEPT ![p][c] = slots]
    BY DEF slots
  <2>2. QED
    BY <2>1, EndTypes DEF Only
<1>3. Fronts \subseteq Workers /\ Premium \subseteq Calls
  BY CoordinatorAssumption
<1>4. ASSUME NEW d \in Premium, d # c
      PROVE  EndFit(d)'
  <2>1. \A v \in Workers : rpc'[v][d] = rpc[v][d]
    BY <1>2, <1>3, <1>4 DEF Only
  <2>2. (ReserveAdrift(d)' => ReserveAdrift(d)) /\ (NothingHeld(d) => NothingHeld(d)')
    BY <1>3, <1>4
  <2>3. QED
    BY <1>4, <2>1, <2>2, EndElsewhere DEF EndInv
<1>5. ASSUME c \in Premium
      PROVE  EndFit(c)'
  <2>1. EndFit(c)
    BY <1>5 DEF EndInv
  <2>2. \A v \in Workers : v # p => rpc'[v][c] = rpc[v][c]
    BY <1>2 DEF Only
  <2>3. \A v \in Workers : rpc'[v][c]["reserve"] # Idle <=> rpc[v][c]["reserve"] # Idle
    BY <1>1, <1>2, <2>2, SlotsDiffer
  <2>4. Reserving(c)' <=> Reserving(c)
    BY <2>3 DEF Reserving
  <2>5. ASSUME ReservedOnce(c)
        PROVE  ReservedOnce(c)'
    <3>1. \A v, u \in Workers :
            rpc'[v][c]["reserve"] # Idle /\ rpc'[u][c]["reserve"] # Idle => v = u
      BY <2>3, <2>5 DEF ReservedOnce
    <3>2. ASSUME ReserveAdrift(c)', NEW v \in Workers, rpc'[v][c]["reserve"] # Idle
          PROVE  rpc'[v][c]["reserve"].stage = "answered" /\ rpc'[v][c]["reserve"].out = "unavailable"
      <4>1. CASE ReserveAdrift(c)
        <5>1. rpc[v][c]["reserve"].stage = "answered" /\ rpc[v][c]["reserve"].out = "unavailable"
          BY <2>3, <2>5, <3>2, <4>1 DEF ReservedOnce
        <5>2. rpc'[v][c]["reserve"] = rpc[v][c]["reserve"]
          BY <1>1, <1>2, <2>2, <5>1, SlotsDiffer
        <5>3. QED
          BY <5>1, <5>2
      <4>2. CASE s = "reserve" /\ r.out = "unavailable"
        <5>1. v = p
          BY <1>1, <2>3, <2>5, <3>2, <4>2 DEF ReservedOnce
        <5>2. QED
          BY <1>1, <1>2, <4>2, <5>1
      <4>3. QED
        BY <3>2, <4>1, <4>2
    <3>3. (call'[c].webhooks = 0 \/ call'[c].stage # "new") => ~Reserving(c)' /\ ~ReserveAdrift(c)'
      <4>1. s = "reserve" => Reserving(c)
        BY <1>1 DEF Reserving
      <4>2. QED
        BY <2>4, <2>5, <4>1 DEF ReservedOnce
    <3>4. QED
      BY <3>1, <3>2, <3>3 DEF ReservedOnce
  <2>6. \A f \in Fronts : Unfenced(pending'[f][c], rpc'[f][c])
    BY <1>1, <1>2, <1>3, <2>1, <2>2, SlotsDiffer DEF EndFit, Unfenced
  <2>7. ASSUME call[c].webhooks <= 1, call[c].stage # "new", crashed \cap Fronts = {}
        PROVE  \/ NothingHeld(c)'
               \/ \E f \in Fronts : Coming(tracked'[f][c], pending'[f][c], rpc'[f][c])
    <3>1. s # "reserve"
      BY <1>1, <2>1, <2>7 DEF EndFit, ReservedOnce, Reserving
    <3>2. CASE NothingHeld(c)
      BY <3>1, <3>2
    <3>3. ASSUME NEW f \in Fronts, Coming(tracked[f][c], pending[f][c], rpc[f][c])
          PROVE  \/ NothingHeld(c)'
                 \/ Coming(tracked'[f][c], pending'[f][c], rpc'[f][c])
      <4>1. CASE f # p \/ s # "release"
        BY <1>1, <1>2, <1>3, <2>2, <3>3, <4>1, SlotsDiffer DEF Coming
      <4>2. CASE f = p /\ s = "release" /\ r.out = "unavailable"
        BY <1>1, <1>2, <3>3, <4>2 DEF Coming, Taken
      <4>3. CASE f = p /\ s = "release" /\ r.out # "unavailable"
        BY <2>1, <4>3 DEF EndFit, Unfenced
      <4>4. QED
        BY <4>1, <4>2, <4>3
    <3>4. QED
      BY <2>1, <2>7, <3>2, <3>3 DEF EndFit
  <2>8. QED
    BY <2>1, <2>5, <2>6, <2>7 DEF EndFit
<1>6. QED
  BY <1>4, <1>5 DEF EndInv

\* The command of a slot, and what the store's script leaves of calls without a record.
LEMMA SentEnds ==
  ASSUME StoreFit, SystemFit, NEW p \in Workers, NEW c \in Calls, NEW s \in Slots,
         rpc[p][c][s].stage = "sent", NEW out,
         Execute(c, rpc[p][c][s].cmd, rpc[p][c][s].worker, rpc[p][c][s].epoch, out)
  PROVE  /\ \A d \in Calls : NothingHeld(d) /\ (d # c \/ s # "reserve") => NothingHeld(d)'
         /\ s = "release" /\ rpc[p][c][s].epoch = 0 => NothingHeld(c)'
<1> DEFINE q == rpc[p][c][s]
<1>1. q.cmd \in CommandsOf(s)
  BY Facts, IdleFacts DEF ProcessFit, SlotFit
<1>2. (s # "reserve" => q.cmd # "reserve") /\ (s = "release" => q.cmd = "release")
  BY <1>1 DEF CommandsOf
<1>3. ASSUME NEW d \in Calls, NothingHeld(d), d # c \/ s # "reserve"
      PROVE  NothingHeld(d)'
  BY <1>2, <1>3, DeadStays
<1>4. s = "release" /\ q.epoch = 0 => NothingHeld(c)'
  BY <1>2, ReleaseEmpties
<1>5. QED
  BY <1>3, <1>4

LEMMA ServeEnds ==
  ASSUME StoreFit, SystemFit, EndInv, NEW p \in Workers, NEW c \in Calls, NEW s \in Slots,
         Serve(p, c, s)
  PROVE  EndInv'
<1> DEFINE q == rpc[p][c][s]
<1>1. PICK out \in Store!Outcomes :
        /\ Execute(c, q.cmd, q.worker, q.epoch, out)
        /\ rpc' = [rpc EXCEPT ![p][c][s] =
                     [q EXCEPT !.stage = "answered", !.out = out,
                               !.expires = lease'[c].expires, !.epoch = lease'[c].epoch]]
  BY DEF Serve
<1> DEFINE r == [q EXCEPT !.stage = "answered", !.out = out,
                          !.expires = lease'[c].expires, !.epoch = lease'[c].epoch]
<1>2. /\ q.stage = "sent" /\ call' = call /\ tracked' = tracked /\ pending' = pending
      /\ stray' = stray /\ crashed' = crashed
  BY DEF Serve
<1>3. q \in RpcRecord
  BY <1>2, SentFacts
<1>4. r.stage = "answered"
  BY <1>3 DEF RpcRecord
<1>5. rpc' = [rpc EXCEPT ![p][c] = [rpc[p][c] EXCEPT ![s] = r]]
  BY <1>1, ResumeFacts DEF Resume
<1> HIDE DEF r
<1>6. \A d \in Calls : ReserveAdrift(d)' => ReserveAdrift(d)
  BY <1>2 DEF ReserveAdrift
<1>7. /\ \A d \in Calls : NothingHeld(d) /\ (d # c \/ s # "reserve") => NothingHeld(d)'
      /\ s = "release" /\ rpc[p][c][s].epoch = 0 => NothingHeld(c)'
  BY <1>1, <1>2, SentEnds
<1>8. QED
  BY <1>2, <1>4, <1>5, <1>6, <1>7, AnswerEnds

\* An answer that does not come.
LEMMA NoAnswerEnds ==
  ASSUME StoreFit, SystemFit, EndInv, NEW p \in Workers, NEW c \in Calls, NEW s \in Slots,
         rpc[p][c][s].stage = "sent", NoAnswer(p, c, s),
         UNCHANGED <<call, tracked, pending, crashed>>,
         \A d \in Calls : NothingHeld(d) /\ (d # c \/ s # "reserve") => NothingHeld(d)',
         stray' \subseteq stray \cup {[call |-> c, cmd |-> rpc[p][c][s].cmd,
                                       worker |-> rpc[p][c][s].worker,
                                       epoch |-> rpc[p][c][s].epoch]}
  PROVE  EndInv'
<1> DEFINE q == rpc[p][c][s]
           r == [q EXCEPT !.stage = "answered", !.out = "unavailable", !.epoch = 0]
<1>1. q \in RpcRecord /\ q.cmd \in CommandsOf(s)
  BY SentFacts, Facts, IdleFacts DEF ProcessFit, SlotFit
<1>2. r.stage = "answered" /\ r.out = "unavailable"
  BY <1>1 DEF RpcRecord
<1>3. rpc' = [rpc EXCEPT ![p][c] = [rpc[p][c] EXCEPT ![s] = r]]
  BY ResumeFacts DEF NoAnswer, Resume
<1> HIDE DEF r
<1>4. \A d \in Calls : ReserveAdrift(d)' => ReserveAdrift(d) \/ (d = c /\ s = "reserve")
  BY <1>1 DEF ReserveAdrift, CommandsOf
<1>5. QED
  BY <1>2, <1>3, <1>4, AnswerEnds

LEMMA LoseAnswerEnds ==
  ASSUME StoreFit, SystemFit, EndInv, NEW p \in Workers, NEW c \in Calls, NEW s \in Slots,
         LoseAnswer(p, c, s)
  PROVE  EndInv'
<1>1. PICK out \in Store!Outcomes :
        Execute(c, rpc[p][c][s].cmd, rpc[p][c][s].worker, rpc[p][c][s].epoch, out)
  BY DEF LoseAnswer
<1>2. /\ rpc[p][c][s].stage = "sent" /\ NoAnswer(p, c, s) /\ stray' = stray
      /\ UNCHANGED <<call, tracked, pending, crashed>>
  BY DEF LoseAnswer
<1>3. QED
  BY <1>1, <1>2, SentEnds, NoAnswerEnds

LEMMA FailEnds ==
  ASSUME StoreFit, SystemFit, EndInv, NEW p \in Workers, NEW c \in Calls, NEW s \in Slots,
         Fail(p, c, s)
  PROVE  EndInv'
<1>1. /\ rpc[p][c][s].stage = "sent" /\ NoAnswer(p, c, s)
      /\ UNCHANGED <<call, tracked, pending, crashed>>
      /\ stray' \subseteq stray \cup {[call |-> c, cmd |-> rpc[p][c][s].cmd,
                                       worker |-> rpc[p][c][s].worker,
                                       epoch |-> rpc[p][c][s].epoch]}
  BY DEF Fail
<1>2. \A d \in Calls : NothingHeld(d) => NothingHeld(d)'
  BY DEF Fail, storeVars, NothingHeld
<1>3. QED
  BY <1>1, <1>2, NoAnswerEnds

\* A step in which the processes only keep what they have.
LEMMA StoreEnds ==
  ASSUME EndInv, tracked' = tracked, pending' = pending, rpc' = rpc, call' = call,
         crashed' = crashed, stray' \subseteq stray,
         \A d \in Premium : ~ReserveAdrift(d) /\ NothingHeld(d) => NothingHeld(d)'
  PROVE  EndInv'
<1>1. \A d \in Premium : ReserveAdrift(d)' => ReserveAdrift(d)
  BY DEF ReserveAdrift
<1>2. ASSUME NEW d \in Premium
      PROVE  EndFit(d)'
  <2>1. EndFit(d) /\ (ReservedOnce(d) => ReservedOnce(d)')
    BY <1>1, <1>2 DEF EndInv, ReservedOnce, Reserving
  <2>2. call[d].webhooks <= 1 /\ call[d].stage # "new" => ~ReserveAdrift(d)
    BY <2>1 DEF EndFit, ReservedOnce
  <2>3. QED
    BY <1>2, <2>1, <2>2 DEF EndFit
<1>3. QED
  BY <1>2 DEF EndInv

LEMMA ServeStrayEnds ==
  ASSUME StoreFit, SystemFit, EndInv, ServeStray
  PROVE  EndInv'
<1>1. PICK m \in stray :
        /\ stray' = stray \ {m} /\ UNCHANGED <<call, localVars, crashed>>
        /\ \/ \E out \in Store!Outcomes : Execute(m.call, m.cmd, m.worker, m.epoch, out)
           \/ UNCHANGED storeVars
  BY DEF ServeStray
<1>2. m.call \in Calls /\ Premium \subseteq Calls
  BY CoordinatorAssumption DEF SystemFit, SystemTypes, StrayRecord
<1>3. ASSUME NEW d \in Premium, ~ReserveAdrift(d), NothingHeld(d)
      PROVE  NothingHeld(d)'
  <2>1. m.call = d => m.cmd # "reserve"
    BY <1>3 DEF ReserveAdrift
  <2>2. CASE UNCHANGED storeVars
    BY <1>3, <2>2 DEF storeVars, NothingHeld
  <2>3. ASSUME NEW out \in Store!Outcomes, Execute(m.call, m.cmd, m.worker, m.epoch, out)
        PROVE  NothingHeld(d)'
    BY <1>2, <1>3, <2>1, <2>3, DeadStays
  <2>4. QED
    BY <1>1, <2>2, <2>3
<1>4. QED
  BY <1>1, <1>3, StoreEnds DEF localVars

LEMMA TickEnds ==
  ASSUME StoreFit, EndInv, Tick
  PROVE  EndInv'
<1>1. Premium \subseteq Calls /\ now \in Nat
  BY CoordinatorAssumption, StoreTypes
<1>2. \A d \in Premium : NothingHeld(d) => NothingHeld(d)'
  BY <1>1 DEF Tick, Store!Tick, NothingHeld, Store!NoLease, Store!NoHold
<1>3. QED
  BY <1>2, StoreEnds DEF Tick, localVars

LEMMA StutterEnds ==
  ASSUME EndInv, UNCHANGED vars
  PROVE  EndInv'
<1>1. \A d \in Premium : NothingHeld(d) => NothingHeld(d)'
  BY DEF vars, storeVars, NothingHeld
<1>2. QED
  BY <1>1, StoreEnds DEF vars, localVars

LEMMA ReconcileExpiredOwnerEnds ==
  ASSUME StoreFit, SystemFit, EndInv, NEW c \in Calls, ReconcileExpiredOwner(c)
  PROVE  EndInv'
<1>1. call[c].owner \in Workers
  BY ProcessTypes, EndTypes DEF ReconcileExpiredOwner, SessionRecord, MaybeWorker
<1> DEFINE p == call[c].owner
<1>2. /\ EndSession(c) /\ call[c].stage # "new" /\ tracked' = tracked /\ pending' = pending
      /\ rpc' = rpc /\ UNCHANGED <<storeVars, stray, crashed>>
  BY DEF ReconcileExpiredOwner, localVars
<1>3. SameCourse(c) /\ \A d \in Calls : d # c => call'[d] = call[d]
  BY <1>2, EndCourse
<1> HIDE DEF p
<1>4. p \in Workers
  BY <1>1 DEF p
<1>5. QED
  BY <1>2, <1>3, <1>4, SlotEnds DEF SlotMove

\* What a front process that crashes was to release may stay; a worker owes nothing
\* that EndInv counts on.
LEMMA CrashEnds ==
  ASSUME StoreFit, SystemFit, EndInv, NEW p \in Workers, Crash(p)
  PROVE  EndInv'
<1>1. /\ tracked' = [tracked EXCEPT ![p] = [c \in Calls |-> Untracked]]
      /\ pending' = [pending EXCEPT ![p] = [c \in Calls |-> NothingOwed]]
      /\ rpc' = [rpc EXCEPT ![p] = [c \in Calls |-> [s \in Slots |-> Idle]]]
      /\ call' = call /\ stray' = stray /\ crashed' = crashed \cup {p}
      /\ lease' = lease /\ hold' = hold
  BY DEF Crash, storeVars
<1>2. Fronts \subseteq Workers /\ Premium \subseteq Calls
  BY CoordinatorAssumption
<1>3. \A q \in Workers : q # p =>
        tracked'[q] = tracked[q] /\ pending'[q] = pending[q] /\ rpc'[q] = rpc[q]
  BY <1>1, EndTypes
<1>4. ASSUME NEW c \in Premium
      PROVE  EndFit(c)'
  <2>1. EndFit(c)
    BY <1>4 DEF EndInv
  <2>2. rpc'[p][c] = [s \in Slots |-> Idle] /\ pending'[p][c] = NothingOwed
    BY <1>1, <1>2, EndTypes
  <2>3. rpc'[p][c]["reserve"] = Idle /\ rpc'[p][c]["release"] = Idle
    BY <2>2, SlotsDiffer
  <2>4. (ReserveAdrift(c)' <=> ReserveAdrift(c)) /\ (NothingHeld(c) => NothingHeld(c)')
    BY <1>1 DEF ReserveAdrift, NothingHeld
  <2>5. ReservedOnce(c) => ReservedOnce(c)'
    BY <1>1, <1>3, <2>3, <2>4 DEF ReservedOnce, Reserving
  <2>6. \A f \in Fronts : Unfenced(pending'[f][c], rpc'[f][c])
    BY <1>2, <1>3, <2>1, <2>2, <2>3, IdleFacts DEF EndFit, Unfenced, NothingOwed
  <2>7. crashed' \cap Fronts = {} => p \notin Fronts /\ crashed \cap Fronts = {}
    BY <1>1
  <2>8. QED
    BY <1>1, <1>2, <1>3, <2>1, <2>4, <2>5, <2>6, <2>7 DEF EndFit
<1>5. QED
  BY <1>4 DEF EndInv

LEMMA InitEnds == Init => EndInv
<1> SUFFICES ASSUME Init, NEW c \in Premium
             PROVE  EndFit(c)
  BY DEF EndInv
<1>1. c \in Calls /\ Fronts \subseteq Workers
  BY CoordinatorAssumption
<1>2. call[c].stage = "new" /\ call[c].owner = NoWorker /\ stray = {}
  BY <1>1 DEF Init
<1>3. \A p \in Workers : pending[p][c] = NothingOwed /\ \A s \in Slots : rpc[p][c][s] = Idle
  BY <1>1 DEF Init
<1>4. ReservedOnce(c)
  BY <1>2, <1>3, SlotsDiffer DEF ReservedOnce, Reserving, ReserveAdrift
<1>5. \A f \in Fronts : Unfenced(pending[f][c], rpc[f][c])
  BY <1>1, <1>3, SlotsDiffer, IdleFacts DEF Unfenced, NothingOwed
<1>6. QED
  BY <1>2, <1>4, <1>5 DEF EndFit

LEMMA StepEnds ==
  ASSUME StoreFit, SystemFit, EndInv, [Next]_vars
  PROVE  EndInv'
<1>1. ASSUME NEW p \in Workers, NEW c \in Calls, Answer(p, c)
      PROVE  EndInv'
  BY <1>1, ReserveAnsweredEnds, ActivateGrantedEnds, ActivateRefusedEnds, MediaConfirmedEnds,
     MediaRejectedEnds, MediaStartThrowsEnds, RenewAnsweredEnds, RecoverAnsweredEnds, RenewalConfirmedEnds,
     RenewalRejectedEnds, OwnerEnds, ReleaseAnsweredEnds
     DEF Answer
<1>2. ASSUME NEW p \in Workers, NEW c \in Calls, Timer(p, c)
      PROVE  EndInv'
  BY <1>2, RenewalDueEnds, DeadlinePassedEnds, RetryReleaseEnds DEF Timer
<1>3. ASSUME NEW p \in Workers, NEW c \in Calls, Provider(p, c)
      PROVE  EndInv'
  BY <1>3, ReserveCallEnds, StartMediaEnds, CloseStreamEnds, OwnerEnds, StatusCallbackEnds
     DEF Provider
<1>4. ASSUME NEW p \in Workers, NEW c \in Calls, NEW s \in Slots,
             Serve(p, c, s) \/ LoseAnswer(p, c, s) \/ Fail(p, c, s)
      PROVE  EndInv'
  BY <1>4, ServeEnds, LoseAnswerEnds, FailEnds
<1>5. CASE UNCHANGED vars
  BY <1>5, StutterEnds
<1>6. QED
  BY <1>1, <1>2, <1>3, <1>4, <1>5, TickEnds, ServeStrayEnds, CrashEnds, ReconcileExpiredOwnerEnds
     DEF Next

\* EndInv is inductive beside CoordinatorInv: once a premium call delivered once has
\* been set up, either the store holds nothing of it or a front process will have it
\* released, without a fence.
THEOREM PremiumEndInvariant == Spec => []EndInv
<1>1. CoordinatorInv /\ EndInv /\ [Next]_vars => EndInv'
  BY StepEnds DEF CoordinatorInv
<1>2. QED
  BY <1>1, InitEnds, CoordinatorInvariant, PTL DEF Spec

\* A premium call whose webhook was delivered at most once leaves nothing in the
\* store when it has been set up and no process is at work on it any more: no
\* lease, no hold, and so no counter.  Workers may have crashed; front processes
\* may not, for they hold the claim that is to be released.
LeavesNothing ==
  \A c \in Premium :
    call[c].webhooks <= 1 /\ call[c].stage # "new" /\ Settled(c) /\ crashed \cap Fronts = {}
      => NothingHeld(c)

THEOREM EndedPremiumCallsLeaveNothing == Spec => []LeavesNothing
<1>1. EndInv => LeavesNothing
  <2>1. SUFFICES ASSUME EndInv, NEW c \in Premium, call[c].webhooks <= 1,
                        call[c].stage # "new", Settled(c), crashed \cap Fronts = {}
                 PROVE  NothingHeld(c)
    BY DEF LeavesNothing
  <2>2. \A f \in Fronts : ~Coming(tracked[f][c], pending[f][c], rpc[f][c])
    BY <2>1, CoordinatorAssumption, UntrackedFacts DEF Settled, Coming
  <2>3. QED
    BY <2>1, <2>2 DEF EndInv, EndFit
<1>2. QED
  BY <1>1, PremiumEndInvariant, PTL

\* Where all calls are premium and no webhook is delivered twice, no ended call
\* keeps its lease.  Neither hypothesis can be dropped: a sandwich call whose
\* recovery is executed but not answered is released under a stale epoch, which
\* removes nothing; and after a second delivery a late reservation, and then an
\* activation given up on, can follow the release.
THEOREM EndedCallsAreReleased ==
  ASSUME Calls \subseteq Premium, MaxWebhooks <= 1
  PROVE  Spec => []EndedCallReleased
<1>1. CoordinatorInv /\ LeavesNothing => EndedCallReleased
  <2>1. SUFFICES ASSUME CoordinatorInv, LeavesNothing, NEW c \in Calls,
                        call[c].stage = "ended", Settled(c), crashed = {}
                 PROVE  lease[c].state # "active"
    BY DEF EndedCallReleased
  <2>2. call[c].webhooks \in 0..MaxWebhooks
    BY <2>1, EndTypes DEF CoordinatorInv, SessionRecord
  <2>3. call[c].webhooks <= 1
    BY <2>2, CoordinatorAssumption
  <2>4. NothingHeld(c)
    BY <2>1, <2>3 DEF LeavesNothing
  <2>5. QED
    BY <2>4 DEF NothingHeld, Store!NoLease
<1>2. QED
  BY <1>1, CoordinatorInvariant, EndedPremiumCallsLeaveNothing, PTL

=============================================================================
