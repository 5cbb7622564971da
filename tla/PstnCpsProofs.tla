---------------------------- MODULE PstnCpsProofs ----------------------------
(***************************************************************************)
(* The rate at which calls are admitted, for every number of accounts and  *)
(* calls, every burst and every refill.                                    *)
(*                                                                         *)
(* What was created since a time and what a bucket holds now are together  *)
(* no more than its burst and what it has refilled since (Balance).  An    *)
(* admission moves one from the second to the first, a tick adds to the    *)
(* second at most what it adds to the bound, and a stretch that begins now *)
(* has seen nothing and a bucket that is at most full.                     *)
(***************************************************************************)
EXTENDS PstnCps, SumTheorems

CpsTypes ==
  /\ now \in 0..MaxTime
  /\ tokens \in [Buckets -> Nat]
  /\ created \in [Buckets -> [0..MaxTime -> Nat]]

NothingAhead == \A b \in Buckets : \A t \in 0..MaxTime : t > now => created[b][t] = 0

NeverOverfull == \A b \in Buckets : tokens[b] <= Burst[b]

Balance ==
  \A b \in Buckets : \A from \in 0..now :
    CreatedSince(b, from) + tokens[b] <= Burst[b] + Refill[b] * (now - from)

CpsInv == CpsTypes /\ NothingAhead /\ NeverOverfull /\ Balance

-----------------------------------------------------------------------------

LEMMA Stretch ==
  ASSUME CpsTypes, NEW b \in Buckets, NEW from \in Nat
  PROVE  /\ IsFiniteSet(from..MaxTime) /\ from..MaxTime \subseteq 0..MaxTime
         /\ \A t \in from..MaxTime : created[b][t] \in Nat
         /\ CreatedSince(b, from) \in Nat
<1>1. from..MaxTime \subseteq 0..MaxTime /\ MaxTime \in Int
  BY AdmissionAssumption
<1>2. IsFiniteSet(from..MaxTime)
  BY <1>1, FS_Interval
<1>3. \A t \in from..MaxTime : created[b][t] \in Nat
  BY <1>1 DEF CpsTypes
<1>4. CreatedSince(b, from) \in Nat
  BY <1>2, <1>3, SumIsNat DEF CreatedSince
<1>5. QED
  BY <1>1, <1>2, <1>3, <1>4

\* Nothing was created in a stretch that begins after now.
LEMMA NothingCreatedAhead ==
  ASSUME CpsTypes, NothingAhead, NEW b \in Buckets, NEW from \in Nat, from > now
  PROVE  CreatedSince(b, from) = 0
<1>1. now \in Nat
  BY AdmissionAssumption DEF CpsTypes
<1>2. \A t \in from..MaxTime : created[b][t] = 0
  BY <1>1, Stretch DEF NothingAhead
<1>3. QED
  BY <1>2, Stretch, SumOfZeros DEF CreatedSince

LEMMA OneMoreTick ==
  ASSUME NEW r \in Nat, NEW d \in Nat
  PROVE  /\ r * d \in Nat
         /\ r * (d + 1) = r * d + r
OBVIOUS

LEMMA InitCps == CpsInit => CpsInv
<1> SUFFICES ASSUME CpsInit
             PROVE  CpsInv
  OBVIOUS
<1>1. /\ now = 0 /\ tokens = Burst /\ Burst \in [Buckets -> Nat] /\ MaxTime \in Nat
      /\ Refill \in [Buckets -> Nat]
      /\ created = [b \in Buckets |-> [t \in 0..MaxTime |-> 0]]
  BY AdmissionAssumption DEF CpsInit, Init
<1>2. CpsTypes /\ NothingAhead /\ NeverOverfull
  BY <1>1 DEF CpsTypes, NothingAhead, NeverOverfull
<1>3. ASSUME NEW b \in Buckets, NEW from \in 0..now
      PROVE  CreatedSince(b, from) + tokens[b] <= Burst[b] + Refill[b] * (now - from)
  <2>1. from = 0 /\ from \in Nat
    BY <1>1
  <2>2. \A t \in from..MaxTime : created[b][t] = 0
    BY <1>1, <2>1
  <2>3. CreatedSince(b, from) = 0
    BY <1>2, <2>1, <2>2, Stretch, SumOfZeros DEF CreatedSince
  <2>4. Refill[b] * (now - from) = 0
    BY <1>1, <2>1
  <2>5. QED
    BY <1>1, <2>3, <2>4
<1>4. QED
  BY <1>2, <1>3 DEF CpsInv, Balance

\* A tick refills what the bound allows for it.
LEMMA TickCps == CpsInv /\ Tick /\ UNCHANGED created => CpsInv'
<1> SUFFICES ASSUME CpsInv, Tick, created' = created
             PROVE  CpsInv'
  OBVIOUS
<1>1. /\ now \in Nat /\ MaxTime \in Nat /\ now' = now + 1 /\ now' \in 0..MaxTime
      /\ Burst \in [Buckets -> Nat] /\ Refill \in [Buckets -> Nat]
      /\ tokens \in [Buckets -> Nat]
  BY AdmissionAssumption DEF CpsInv, CpsTypes, Tick
<1>2. \A b \in Buckets : /\ tokens'[b] \in Nat /\ tokens'[b] <= Burst[b]
                         /\ tokens'[b] <= tokens[b] + Refill[b]
  BY <1>1 DEF Tick, Refilled, Smaller
<1>3. CpsTypes'
  BY <1>1, <1>2 DEF CpsInv, CpsTypes, Tick
<1>4. NothingAhead' /\ NeverOverfull'
  BY <1>1, <1>2 DEF CpsInv, NothingAhead, NeverOverfull
<1>5. ASSUME NEW b \in Buckets, NEW from \in 0..now'
      PROVE  CreatedSince(b, from)' + tokens'[b] <= Burst[b] + Refill[b] * (now' - from)
  <2>1. CreatedSince(b, from)' = CreatedSince(b, from) /\ from \in Nat
    BY <1>1 DEF CreatedSince
  <2>2. CASE from <= now
    <3>1. CreatedSince(b, from) + tokens[b] <= Burst[b] + Refill[b] * (now - from)
      BY <1>1, <2>1, <2>2 DEF CpsInv, Balance
    <3>2. now - from \in Nat /\ now' - from = (now - from) + 1
      BY <1>1, <2>1, <2>2
    <3>3. /\ Refill[b] * (now - from) \in Nat
          /\ Refill[b] * (now' - from) = Refill[b] * (now - from) + Refill[b]
      <4>1. Refill[b] \in Nat
        BY <1>1
      <4>2. QED
        BY <3>2, <4>1, OneMoreTick
    <3>4. CreatedSince(b, from) \in Nat
      BY <2>1, Stretch DEF CpsInv
    <3> DEFINE before == Refill[b] * (now - from)
               after == Refill[b] * (now' - from)
               all == CreatedSince(b, from)
    <3>5. /\ before \in Nat /\ after = before + Refill[b] /\ all \in Nat
          /\ all + tokens[b] <= Burst[b] + before /\ Refill[b] \in Nat /\ Burst[b] \in Nat
          /\ tokens[b] \in Nat /\ tokens'[b] \in Nat /\ tokens'[b] <= tokens[b] + Refill[b]
      BY <1>1, <1>2, <3>1, <3>3, <3>4
    <3> HIDE DEF before, after, all
    <3>6. all + tokens'[b] <= Burst[b] + after
      BY <3>5
    <3>7. QED
      BY <2>1, <3>6 DEF after, all
  <2>3. CASE from = now'
    <3>1. CreatedSince(b, from) = 0
      BY <1>1, <2>1, <2>3, NothingCreatedAhead DEF CpsInv
    <3>2. Refill[b] * (now' - from) = 0
      BY <1>1, <2>3
    <3>3. QED
      BY <1>1, <1>2, <2>1, <3>1, <3>2
  <2>4. QED
    BY <1>1, <2>1, <2>2, <2>3
<1>6. QED
  BY <1>3, <1>4, <1>5 DEF CpsInv, Balance

\* Only a created admission costs a token, and it costs one of each of its buckets.
LEMMA CommandTokens ==
  ASSUME NEW c \in Calls, NEW w \in Workers, NEW out \in Outcomes, Command(c, w, out)
  PROVE  /\ now' = now
         /\ out # "created" => tokens' = tokens
         /\ out = "created" =>
              /\ HasToken(c)
              /\ tokens' = [b \in Buckets |-> IF b \in BucketsOf[c] THEN tokens[b] - 1
                                              ELSE tokens[b]]
<1>1. CASE Reserve(c, w, out)
  BY <1>1 DEF Reserve, ReserveExisting, ReserveDenied, ReserveCreated, vars
<1>2. CASE Activate(c, w, out) \/ Recover(c, w, out)
  BY <1>2 DEF Activate, Recover, ActivateLive, ActivateClaim, ActivateWorkerFull, ActivateForeign,
              ActivateExisting, RecoverRefused, RecoverFull, RecoverGranted, vars
<1>3. CASE \E epoch \in 1..(MaxTime + 1) : Renew(c, w, epoch, out)
  BY <1>3 DEF Renew, RenewRefused, RenewGranted, vars
<1>4. CASE Release(c, out)
  BY <1>4 DEF Release, Drop
<1>5. CASE \E epoch \in 1..(MaxTime + 1) : ReleaseFenced(c, w, epoch, out)
  BY <1>5 DEF ReleaseFenced, Drop, vars
<1>6. QED
  BY <1>1, <1>2, <1>3, <1>4, <1>5 DEF Command

LEMMA CommandCps ==
  ASSUME CpsInv, NEW c \in Calls, NEW w \in Workers, NEW out \in Outcomes, Command(c, w, out),
         created' = [b \in Buckets |-> [created[b] EXCEPT ![now] =
                       IF out = "created" /\ b \in BucketsOf[c] THEN @ + 1 ELSE @]]
  PROVE  CpsInv'
<1>1. /\ now' = now /\ now \in 0..MaxTime /\ MaxTime \in Nat /\ tokens \in [Buckets -> Nat]
      /\ created \in [Buckets -> [0..MaxTime -> Nat]]
      /\ Burst \in [Buckets -> Nat] /\ Refill \in [Buckets -> Nat]
  BY CommandTokens, AdmissionAssumption DEF CpsInv, CpsTypes
<1> DEFINE taken(b) == IF out = "created" /\ b \in BucketsOf[c] THEN 1 ELSE 0
<1>2. \A b \in Buckets : /\ taken(b) \in {0, 1} /\ taken(b) <= tokens[b]
                         /\ tokens'[b] = tokens[b] - taken(b)
  <2>1. /\ out # "created" => tokens' = tokens
        /\ out = "created" =>
             /\ \A b \in BucketsOf[c] : tokens[b] >= 1
             /\ tokens' = [b \in Buckets |-> IF b \in BucketsOf[c] THEN tokens[b] - 1
                                             ELSE tokens[b]]
    BY CommandTokens DEF HasToken
  <2>2. CASE out = "created"
    BY <1>1, <2>1, <2>2
  <2>3. CASE out # "created"
    BY <1>1, <2>1, <2>3
  <2>4. QED
    BY <2>2, <2>3
<1>3. tokens' \in [Buckets -> Nat]
  <2>1. tokens' = [b \in Buckets |-> tokens'[b]]
    BY <1>1, CommandTokens
  <2>2. \A b \in Buckets : tokens'[b] \in Nat
    BY <1>1, <1>2
  <2> HIDE DEF taken
  <2>3. QED
    BY <2>1, <2>2
<1>4. \A b \in Buckets : /\ created'[b][now] = created[b][now] + taken(b)
                         /\ \A t \in 0..MaxTime : t # now => created'[b][t] = created[b][t]
  BY <1>1
<1>5. created' \in [Buckets -> [0..MaxTime -> Nat]]
  BY <1>1
<1> HIDE DEF taken
<1>6. CpsTypes' /\ NothingAhead' /\ NeverOverfull'
  <2>1. CpsTypes'
    BY <1>1, <1>3, <1>5 DEF CpsTypes
  <2>2. NothingAhead'
    <3>1. ASSUME NEW b \in Buckets, NEW t \in 0..MaxTime, t > now
          PROVE  created'[b][t] = 0
      <4>1. created'[b][t] = created[b][t]
        BY <1>1, <1>4, <3>1
      <4>2. created[b][t] = 0
        BY <3>1 DEF CpsInv, NothingAhead
      <4>3. QED
        BY <4>1, <4>2
    <3>2. QED
      BY <1>1, <3>1 DEF NothingAhead
  <2>3. NeverOverfull'
    <3>1. ASSUME NEW b \in Buckets
          PROVE  tokens'[b] <= Burst[b]
      <4>1. tokens[b] <= Burst[b] /\ tokens[b] \in Nat /\ Burst[b] \in Nat
        BY <1>1 DEF CpsInv, NeverOverfull
      <4>2. taken(b) \in {0, 1} /\ tokens'[b] = tokens[b] - taken(b)
        BY <1>2
      <4>3. QED
        BY <4>1, <4>2
    <3>2. QED
      BY <3>1 DEF NeverOverfull
  <2>4. QED
    BY <2>1, <2>2, <2>3
<1>7. ASSUME NEW b \in Buckets, NEW from \in 0..now'
      PROVE  CreatedSince(b, from)' + tokens'[b] <= Burst[b] + Refill[b] * (now' - from)
  <2> DEFINE S == from..MaxTime
             f == created[b]
             g == created'[b]
             all == CreatedSince(b, from)
             refilled == Refill[b] * (now - from)
  <2>1. from \in Nat /\ now \in S /\ from \in 0..now
    BY <1>1
  <2>2. IsFiniteSet(S) /\ S \subseteq 0..MaxTime /\ all \in Nat
    BY <2>1, Stretch DEF CpsInv
  <2>3. ASSUME NEW t \in S
        PROVE  f[t] \in Int /\ g[t] \in Int /\ (t # now => g[t] = f[t])
    <3>1. t \in 0..MaxTime
      BY <2>2
    <3> HIDE DEF S
    <3>2. f[t] \in Nat
      BY <1>1, <3>1
    <3>3. g[t] \in Nat
      <4>1. g \in [0..MaxTime -> Nat]
        BY <1>5
      <4> HIDE DEF g
      <4>2. QED
        BY <3>1, <4>1
    <3>4. t # now => g[t] = f[t]
      BY <1>4, <3>1
    <3>5. QED
      BY <3>2, <3>3, <3>4
  <2>4. g[now] = f[now] + taken(b) /\ f[now] \in Nat
    BY <1>1, <1>4
  <2>5. all = SumFunctionOnSet(f, S) /\ CreatedSince(b, from)' = SumFunctionOnSet(g, S)
    BY DEF CreatedSince
  <2>6. all + tokens[b] <= Burst[b] + refilled
    BY <2>1 DEF CpsInv, Balance
  <2> HIDE DEF S, f, g, all, refilled
  <2>7. SumFunctionOnSet(g, S) = SumFunctionOnSet(f, S) - f[now] + g[now]
    <3>1. \A t \in S : f[t] \in Int /\ g[t] \in Int
      BY <2>3
    <3>2. \A t \in S \ {now} : g[t] = f[t]
      BY <2>3
    <3>3. QED
      BY <2>1, <2>2, <3>1, <3>2, SumOfChange
  <2>8. taken(b) \in {0, 1} /\ tokens'[b] = tokens[b] - taken(b) /\ tokens[b] \in Nat
    BY <1>1, <1>2
  <2>9. CreatedSince(b, from)' = all + taken(b)
    BY <2>2, <2>4, <2>5, <2>7, <2>8
  <2>10. CreatedSince(b, from)' + tokens'[b] = all + tokens[b]
    BY <2>2, <2>8, <2>9
  <2>11. CreatedSince(b, from)' + tokens'[b] <= Burst[b] + refilled
    BY <2>6, <2>10
  <2>12. QED
    BY <1>1, <2>11 DEF refilled
<1>8. QED
  BY <1>6, <1>7 DEF CpsInv, Balance

\* The balance of every bucket and every stretch of time is kept by the scripts
\* and by the passing of time.
THEOREM CpsInvariant == CpsSpec => []CpsInv
<1>1. CpsInv /\ [CpsNext]_cpsVars => CpsInv'
  <2> SUFFICES ASSUME CpsInv, [CpsNext]_cpsVars
               PROVE  CpsInv'
    OBVIOUS
  <2>1. CASE CpsTick
    BY <2>1, TickCps DEF CpsTick
  <2>2. CASE \E w \in Workers : CpsCommand(w)
    BY <2>2, CommandCps DEF CpsCommand
  <2>3. CASE UNCHANGED cpsVars
    BY <2>3 DEF cpsVars, vars, CpsInv, CpsTypes, NothingAhead, NeverOverfull, Balance, CreatedSince
  <2>4. QED
    BY <2>1, <2>2, <2>3 DEF CpsNext
<1>2. QED
  BY InitCps, <1>1, PTL DEF CpsSpec

\* Over no stretch of time are more calls admitted against a bucket than its
\* burst and what it refills meanwhile (the calls-per-second limits).
THEOREM CallRateBounded == CpsSpec => []CpsWindow
<1>1. CpsInv => CpsWindow
  <2> SUFFICES ASSUME CpsInv, NEW b \in Buckets, NEW from \in 0..now
               PROVE  CreatedSince(b, from) <= Burst[b] + Refill[b] * (now - from)
    BY DEF CpsWindow
  <2>1. /\ from \in Nat /\ now - from \in Nat /\ tokens[b] \in Nat
        /\ Burst[b] \in Nat /\ Refill[b] \in Nat
    BY AdmissionAssumption DEF CpsInv, CpsTypes
  <2>2. CreatedSince(b, from) \in Nat /\ Refill[b] * (now - from) \in Nat
    BY <2>1, Stretch, OneMoreTick DEF CpsInv
  <2> DEFINE refilled == Refill[b] * (now - from)
             all == CreatedSince(b, from)
  <2>3. all + tokens[b] <= Burst[b] + refilled /\ all \in Nat /\ refilled \in Nat
    BY <2>2 DEF CpsInv, Balance
  <2> HIDE DEF refilled, all
  <2>4. all <= Burst[b] + refilled
    BY <2>1, <2>3
  <2>5. QED
    BY <2>4 DEF all, refilled
<1>2. QED
  BY CpsInvariant, <1>1, PTL
=============================================================================
