----------------------------- MODULE BillingProofs -----------------------------
(***************************************************************************)
(* What the transactions on a tenant's credit, the processes around them   *)
(* and the outbox of charges guarantee, for every set of calls, packs,     *)
(* events and processes and every bound on batches, attempts and faults.   *)
(*                                                                         *)
(* The transactions keep an invariant of their own (CreditInv): the        *)
(* counter of the account is the sum of the open reservations, and that    *)
(* sum is covered.  What one of them has decided, none takes back          *)
(* (Lasting).  The processes rely on both: between the settlement of a     *)
(* call, its ledger entry and the completion of its job, which a runner    *)
(* makes in three steps, other runners and handlers may do what they       *)
(* please (RunnerSound).                                                   *)
(*                                                                         *)
(* In the outbox a claim is made of promoted events only, and a promotion  *)
(* is never taken back, so that all that a pass still holds may be charged *)
(* (HeldMayBeCharged); a pass that reports a delivery has been answered by *)
(* Polar (ReportedIsTaken); and whoever has sent once after the stop is    *)
(* past its last look at the gate (LateIsLast).                            *)
(***************************************************************************)
EXTENDS MCBilling, SumTheorems, SequenceTheorems

ChargesFinal == \A c \in Calls : res[c].status # "finalized" => res[c].charged = 0
JobsHaveFacts == \A c \in Calls : job[c].status # "none" => job[c].fact \in Fact

CreditInv ==
  TypeOK /\ AccountIsSum /\ ReservationsCovered /\ ChargesFinal /\ JobsHaveFacts

\* What has been decided of a call stays so.
Lasting ==
  \A c \in Calls :
    /\ res[c].status \in {"released", "finalized"} => res'[c] = res[c]
    /\ job[c].status # "none" => job'[c].status # "none" /\ job'[c].fact = job[c].fact
    /\ usage[c] # NoFact => usage'[c] = usage[c]

\* A reservation was settled with the given facts.
SettledAs(r, fact) ==
  r.status \in {"released", "finalized"} /\ r.outcome = fact.outcome /\ r.charged = fact.charge
Settled(c, fact) == SettledAs(res[c], fact)

UsageSettled == \A c \in Calls : usage[c] # NoFact => Settled(c, usage[c])
CompletedRecorded == \A c \in Calls : job[c].status = "completed" => usage[c] # NoFact

\* A call is connected before it ends, and a handler starts after the delivery.
CallTimes ==
  \A c \in Calls :
    /\ call[c].connected <= now
    /\ call[c].stage = "ended" => call[c].connected <= call[c].ended
    /\ \A h \in Hooks : hook[c][h] = "starting" => call[c].received # Never

\* What a runner w has done of its job, given the calls, reservations, jobs and entries.
RunnerSound(w, calls, rs, jobs, entries) ==
  /\ w.stage \notin {"idle", "done", "pass"} => w.call \in Calls
  /\ w.stage = "submit" => calls[w.call].stage = "ended"
  /\ w.stage \in {"settle", "record", "complete", "fail"} =>
       w.attempt > 0 /\ jobs[w.call].status # "none"
  /\ w.stage = "record" => SettledAs(rs[w.call], jobs[w.call].fact)
  /\ w.stage = "complete" => entries[w.call] = jobs[w.call].fact

RunnersSound == \A r \in Runners : RunnerSound(run[r], call, res, job, usage)

BillingInv ==
  /\ CreditInv /\ BillingTypeOK
  /\ UsageSettled /\ CompletedRecorded /\ CallTimes /\ RunnersSound

-----------------------------------------------------------------------------
(* Numbers *)

\* The provers know nothing of powers, but a set of n elements has 2^n subsets.
LEMMA PowerIsNat ==
  ASSUME NEW n \in Nat
  PROVE  2^n \in Nat
<1>1. IsFiniteSet(1..n) /\ Cardinality(1..n) = n
  BY FS_Interval
<1>2. /\ IsFiniteSet(SUBSET (1..n))
      /\ Cardinality(SUBSET (1..n)) = 2^Cardinality(1..n)
  BY <1>1, FS_SUBSET
<1>3. Cardinality(SUBSET (1..n)) \in Nat
  BY <1>2, FS_CardinalityType
<1>4. QED
  BY <1>1, <1>2, <1>3

LEMMA Bounds ==
  ASSUME CreditAssumption
  PROVE  /\ MaxPacks \in Nat /\ PackCredit \in Nat /\ JobLease \in Nat /\ RetryBase \in Nat
         /\ RetryCap \in Nat /\ MaxClaims \in Nat /\ MaxTime \in Nat
         /\ IsFiniteSet(Calls)
BY DEF CreditAssumption

LEMMA LaterIsTime ==
  ASSUME CreditAssumption, NEW t \in Nat
  PROVE  Later(t) \in 0..MaxTime
BY Bounds DEF Later

LEMMA RetryDelayIsNat ==
  ASSUME CreditAssumption, NEW n \in Nat \ {0}
  PROVE  RetryDelay(n) \in Nat
<1>1. 2^(n - 1) \in Nat
  <2>1. n - 1 \in Nat
    OBVIOUS
  <2>2. QED
    BY <2>1, PowerIsNat
<1> DEFINE power == 2^(n - 1)
<1> HIDE DEF power
<1>2. RetryBase * power \in Nat
  BY <1>1, Bounds DEF power
<1>3. QED
  BY <1>2, Bounds DEF RetryDelay, Least, power

-----------------------------------------------------------------------------
(* The sums of the account, as functions of what they are sums of *)

Reservations == [Calls -> Reservation]
Reserved(r, S) == SumFunctionOnSet([c \in Calls |-> r[c].amount], S)
Charged(r) == SumFunctionOnSet([c \in Calls |-> r[c].charged], Calls)
Open(r) == {c \in Calls : r[c].status = "active"}

PackSeqs == Seq({"granted", "refunding", "refunded"})
Kept(p) == {i \in DOMAIN p : p[i] # "refunded"}
Grants(p) == SumFunctionOnSet([i \in DOMAIN p |-> PackCredit], Kept(p))

LEMMA Views ==
  /\ Balance = Grants(packs) - Charged(res) /\ Active = Open(res)
  /\ \A S : AmountOf(S) = Reserved(res, S)
BY DEF Balance, Debits, Granted, SumFunction, Grants, Kept, Charged, Active, Open, AmountOf,
       Reserved

LEMMA NextViews ==
  /\ Balance' = Grants(packs') - Charged(res') /\ Active' = Open(res')
  /\ AmountOf(Active)' = Reserved(res', Open(res'))
BY DEF Balance, Debits, Granted, SumFunction, Grants, Kept, Charged, Active, Open, AmountOf,
       Reserved

LEMMA SumsAreNat ==
  ASSUME CreditAssumption, NEW r \in Reservations
  PROVE  /\ \A S \in SUBSET Calls : Reserved(r, S) \in Nat
         /\ Charged(r) \in Nat
<1>1. \A c \in Calls : r[c].amount \in Nat /\ r[c].charged \in Nat
  BY DEF Reservations, Reservation
<1>2. ASSUME NEW S \in SUBSET Calls
      PROVE  Reserved(r, S) \in Nat
  <2>1. IsFiniteSet(S)
    BY Bounds, FS_Subset
  <2>2. \A c \in S : [x \in Calls |-> r[x].amount][c] \in Nat
    BY <1>1
  <2>3. QED
    BY <2>1, <2>2, SumIsNat DEF Reserved
<1>3. Charged(r) \in Nat
  <2>1. \A c \in Calls : [x \in Calls |-> r[x].charged][c] \in Nat
    BY <1>1
  <2>2. QED
    BY <2>1, Bounds, SumIsNat DEF Charged
<1>4. QED
  BY <1>2, <1>3

\* Some of the open reservations are no longer open.
LEMMA ReservedLess ==
  ASSUME CreditAssumption, NEW r \in Reservations, NEW q \in Reservations,
         NEW T \in SUBSET Open(r), Open(q) = Open(r) \ T,
         \A c \in Calls : q[c].amount = r[c].amount
  PROVE  Reserved(q, Open(q)) = Reserved(r, Open(r)) - Reserved(r, T)
<1> DEFINE f == [c \in Calls |-> r[c].amount]
           g == [c \in Calls |-> q[c].amount]
<1>1. Open(r) \in SUBSET Calls /\ T \in SUBSET Calls /\ Open(r) \ T \in SUBSET Calls
  BY DEF Open
<1>2. IsFiniteSet(Open(r)) /\ IsFiniteSet(T) /\ IsFiniteSet(Open(r) \ T)
  BY <1>1, Bounds, FS_Subset
<1>3. \A c \in Open(r) : f[c] \in Int
  BY <1>1 DEF Reservations, Reservation
<1>4. SumFunctionOnSet(f, Open(r)) = SumFunctionOnSet(f, T) + SumFunctionOnSet(f, Open(r) \ T)
  <2> HIDE DEF f
  <2>1. QED
    BY <1>2, <1>3, SumOfBoth
<1>5. SumFunctionOnSet(g, Open(r) \ T) = SumFunctionOnSet(f, Open(r) \ T)
  <2>1. \A c \in Open(r) \ T : g[c] = f[c]
    BY <1>1
  <2> HIDE DEF f, g
  <2>2. QED
    BY <1>2, <2>1, SumOfAlike
<1>6. Reserved(r, T) \in Nat /\ Reserved(r, Open(r)) \in Nat /\ Reserved(r, Open(r) \ T) \in Nat
  BY <1>1, SumsAreNat
<1>7. /\ Reserved(r, Open(r)) = Reserved(r, T) + Reserved(r, Open(r) \ T)
      /\ Reserved(q, Open(q)) = Reserved(r, Open(r) \ T)
  BY <1>4, <1>5 DEF Reserved
<1>8. QED
  BY <1>6, <1>7

LEMMA ReservedClosed ==
  ASSUME CreditAssumption, NEW r \in Reservations, NEW q \in Reservations,
         NEW c \in Open(r), Open(q) = Open(r) \ {c},
         \A x \in Calls : q[x].amount = r[x].amount
  PROVE  Reserved(q, Open(q)) = Reserved(r, Open(r)) - r[c].amount
<1>1. Reserved(q, Open(q)) = Reserved(r, Open(r)) - Reserved(r, {c})
  BY ReservedLess
<1>2. Reserved(r, {c}) = r[c].amount
  <2> DEFINE f == [x \in Calls |-> r[x].amount]
  <2>1. c \in Calls /\ f[c] = r[c].amount /\ f[c] \in Int
    BY DEF Open, Reservations, Reservation
  <2>2. IsFiniteSet({c}) /\ {c} \ {c} = {}
    BY FS_Singleton
  <2>3. Reserved(r, {c}) = SumFunctionOnSet(f, {c})
    BY DEF Reserved
  <2> HIDE DEF f
  <2>4. SumFunctionOnSet(f, {c}) = f[c] + SumFunctionOnSet(f, {c} \ {c})
    BY <2>1, <2>2, SumWithElement
  <2>5. SumFunctionOnSet(f, {c} \ {c}) = 0
    BY <2>2, SumOfNone
  <2>6. QED
    BY <2>1, <2>3, <2>4, <2>5
<1>3. QED
  BY <1>1, <1>2

LEMMA ReservedMore ==
  ASSUME CreditAssumption, NEW r \in Reservations, NEW q \in Reservations,
         NEW c \in Calls \ Open(r), Open(q) = Open(r) \cup {c},
         \A x \in Calls \ {c} : q[x].amount = r[x].amount
  PROVE  Reserved(q, Open(q)) = Reserved(r, Open(r)) + q[c].amount
<1> DEFINE f == [x \in Calls |-> r[x].amount]
           g == [x \in Calls |-> q[x].amount]
<1>1. Open(r) \in SUBSET Calls /\ Open(q) \in SUBSET Calls /\ Open(q) \ {c} = Open(r)
  BY DEF Open
<1>2. IsFiniteSet(Open(r)) /\ IsFiniteSet(Open(q))
  BY <1>1, Bounds, FS_Subset
<1>3. (\A x \in Open(q) : g[x] \in Int) /\ g[c] = q[c].amount /\ g[c] \in Int
  BY <1>1 DEF Reservations, Reservation
<1>4. SumFunctionOnSet(g, Open(q)) = g[c] + SumFunctionOnSet(g, Open(r))
  <2> HIDE DEF g
  <2>1. QED
    BY <1>1, <1>2, <1>3, SumWithElement
<1>5. SumFunctionOnSet(g, Open(r)) = SumFunctionOnSet(f, Open(r))
  <2>1. \A x \in Open(r) : g[x] = f[x]
    BY <1>1
  <2> HIDE DEF f, g
  <2>2. QED
    BY <1>2, <2>1, SumOfAlike
<1>6. Reserved(r, Open(r)) \in Nat
  BY <1>1, SumsAreNat
<1>7. Reserved(q, Open(q)) = q[c].amount + Reserved(r, Open(r))
  BY <1>3, <1>4, <1>5 DEF Reserved
<1>8. q[c].amount \in Int
  BY <1>3
<1>9. QED
  BY <1>6, <1>7, <1>8

\* Only the charge of c changes.
LEMMA ChargedChange ==
  ASSUME CreditAssumption, NEW r \in Reservations, NEW q \in Reservations, NEW c \in Calls,
         \A x \in Calls \ {c} : q[x].charged = r[x].charged
  PROVE  Charged(q) = Charged(r) - r[c].charged + q[c].charged
<1> DEFINE f == [x \in Calls |-> r[x].charged]
           g == [x \in Calls |-> q[x].charged]
<1>1. /\ \A x \in Calls : f[x] \in Int /\ g[x] \in Int
      /\ \A x \in Calls \ {c} : g[x] = f[x]
      /\ f[c] = r[c].charged /\ g[c] = q[c].charged
  BY DEF Reservations, Reservation
<1>2. SumFunctionOnSet(g, Calls) = SumFunctionOnSet(f, Calls) - f[c] + g[c]
  <2> HIDE DEF f, g
  <2>1. QED
    BY <1>1, Bounds, SumOfChange
<1>3. QED
  BY <1>1, <1>2 DEF Charged

LEMMA ChargedSame ==
  ASSUME CreditAssumption, NEW r \in Reservations, NEW q \in Reservations,
         \A x \in Calls : q[x].charged = r[x].charged
  PROVE  Charged(q) = Charged(r)
<1> DEFINE f == [x \in Calls |-> r[x].charged]
           g == [x \in Calls |-> q[x].charged]
<1>1. \A x \in Calls : g[x] = f[x]
  OBVIOUS
<1>2. SumFunctionOnSet(g, Calls) = SumFunctionOnSet(f, Calls)
  <2> HIDE DEF f, g
  <2>1. QED
    BY <1>1, Bounds, SumOfAlike
<1>3. QED
  BY <1>2 DEF Charged

LEMMA GrantsIsNat ==
  ASSUME CreditAssumption, NEW p \in PackSeqs
  PROVE  Grants(p) \in Nat /\ IsFiniteSet(Kept(p))
<1> DEFINE f == [i \in DOMAIN p |-> PackCredit]
<1>1. IsFiniteSet(Kept(p))
  <2>1. DOMAIN p = 1..Len(p) /\ Len(p) \in Nat
    BY DEF PackSeqs
  <2>2. IsFiniteSet(1..Len(p))
    BY <2>1, FS_Interval
  <2>3. QED
    BY <2>1, <2>2, FS_Subset DEF Kept
<1>2. \A i \in Kept(p) : f[i] \in Nat
  BY Bounds DEF Kept
<1>3. QED
  <2> HIDE DEF f
  <2>1. SumFunctionOnSet(f, Kept(p)) \in Nat
    BY <1>1, <1>2, SumIsNat
  <2>2. QED
    BY <1>1, <2>1 DEF Grants, f

LEMMA GrantsBought ==
  ASSUME CreditAssumption, NEW p \in PackSeqs
  PROVE  Grants(Append(p, "granted")) = Grants(p) + PackCredit
<1> DEFINE q == Append(p, "granted")
           n == Len(p) + 1
           f == [i \in DOMAIN p |-> PackCredit]
           g == [i \in DOMAIN q |-> PackCredit]
<1>1. /\ DOMAIN p = 1..Len(p) /\ Len(p) \in Nat /\ DOMAIN q = 1..n
      /\ q[n] = "granted" /\ \A i \in DOMAIN p : q[i] = p[i]
      /\ q \in PackSeqs
  BY DEF PackSeqs
<1>2. n \in Kept(q) /\ Kept(q) \ {n} = Kept(p)
  <2> HIDE DEF q
  <2>1. QED
    BY <1>1 DEF Kept
<1>3. g[n] = PackCredit /\ (\A i \in Kept(q) : g[i] \in Int) /\ \A i \in Kept(p) : g[i] = f[i]
  <2> HIDE DEF q
  <2>1. QED
    BY <1>1, <1>2, Bounds DEF Kept
<1>4. IsFiniteSet(Kept(q)) /\ IsFiniteSet(Kept(p)) /\ Grants(p) \in Nat
  BY <1>1, GrantsIsNat
<1> HIDE DEF f, g, q, n
<1>5. SumFunctionOnSet(g, Kept(q)) = g[n] + SumFunctionOnSet(g, Kept(p))
  BY <1>2, <1>3, <1>4, SumWithElement
<1>6. SumFunctionOnSet(g, Kept(p)) = SumFunctionOnSet(f, Kept(p))
  BY <1>3, <1>4, SumOfAlike
<1>7. Grants(q) = SumFunctionOnSet(g, Kept(q)) /\ Grants(p) = SumFunctionOnSet(f, Kept(p))
  BY DEF Grants, f, g
<1>8. Grants(q) = PackCredit + Grants(p)
  BY <1>3, <1>5, <1>6, <1>7
<1>9. QED
  BY <1>4, <1>8, Bounds DEF q

LEMMA GrantsSame ==
  ASSUME NEW p, NEW q, DOMAIN q = DOMAIN p,
         \A i \in DOMAIN p : p[i] # "refunded" <=> q[i] # "refunded"
  PROVE  Grants(q) = Grants(p)
<1>1. Kept(q) = Kept(p)
  BY DEF Kept
<1>2. QED
  BY <1>1 DEF Grants

-----------------------------------------------------------------------------
(* The transactions on reservations *)

LEMMA InvFacts ==
  ASSUME CreditAssumption, CreditInv
  PROVE  /\ res \in Reservations /\ account \in Nat /\ account = Reserved(res, Open(res))
         /\ packs \in PackSeqs
         /\ Charged(res) \in Nat /\ Grants(packs) \in Nat
         /\ (\A i \in DOMAIN packs : packs[i] # "refunded") =>
              account <= Grants(packs) - Charged(res)
         /\ \A c \in Calls : res[c] \in Reservation
<1>1. /\ res \in Reservations /\ account \in Nat /\ packs \in PackSeqs
      /\ \A c \in Calls : res[c] \in Reservation
  BY DEF CreditInv, TypeOK, Reservations, PackSeqs
<1>2. account = Reserved(res, Open(res))
  BY Views DEF CreditInv, AccountIsSum
<1>3. Charged(res) \in Nat /\ Grants(packs) \in Nat
  BY <1>1, SumsAreNat, GrantsIsNat
<1>4. (\A i \in DOMAIN packs : packs[i] # "refunded") => account <= Grants(packs) - Charged(res)
  BY Views DEF CreditInv, ReservationsCovered
<1>5. QED
  BY <1>1, <1>2, <1>3, <1>4

\* What a transaction must leave for the account to agree and to stay covered: no more
\* credit taken than before, or no more than there is.
LEMMA AccountKeeps ==
  ASSUME CreditAssumption, CreditInv, UNCHANGED <<now, packs, job, usage>>,
         res' \in Reservations, account' = Reserved(res', Open(res')),
         \/ account' + Charged(res') <= account + Charged(res)
         \/ account' <= Grants(packs) - Charged(res'),
         \A c \in Calls : res'[c].status # "finalized" => res'[c].charged = 0,
         \A c \in Calls : res[c].status \in {"released", "finalized"} => res'[c] = res[c]
  PROVE  CreditInv' /\ Lasting
<1>1. account' \in Nat /\ Charged(res') \in Nat
  BY SumsAreNat DEF Open
<1>2. TypeOK'
  BY <1>1 DEF CreditInv, TypeOK, Reservations
<1>3. AccountIsSum'
  BY NextViews DEF AccountIsSum
<1>4. ReservationsCovered'
  <2>1. SUFFICES ASSUME \A i \in DOMAIN packs : packs[i] # "refunded"
                 PROVE  account' <= Grants(packs) - Charged(res')
    BY NextViews DEF ReservationsCovered
  <2>2. QED
    BY <1>1, <2>1, InvFacts
<1>5. ChargesFinal' /\ JobsHaveFacts'
  BY DEF CreditInv, ChargesFinal, JobsHaveFacts
<1>6. Lasting
  BY DEF Lasting
<1>7. QED
  BY <1>2, <1>3, <1>4, <1>5, <1>6 DEF CreditInv

LEMMA SweptFacts ==
  ASSUME CreditAssumption, CreditInv, NEW at
  PROVE  /\ Swept(at) \in Reservations
         /\ Open(Swept(at)) = Open(res) \ Stale(at)
         /\ AccountLeft(at) = Reserved(Swept(at), Open(Swept(at)))
         /\ AccountLeft(at) \in Nat /\ AccountLeft(at) <= account
         /\ Charged(Swept(at)) = Charged(res)
         /\ \A c \in Calls : Swept(at)[c].status # "finalized" => Swept(at)[c].charged = 0
         /\ \A c \in Calls :
              res[c].status \in {"released", "finalized"} => Swept(at)[c] = res[c]
<1> DEFINE q == Swept(at)
           T == Stale(at)
<1>1. T \in SUBSET Open(res) /\ Open(res) \in SUBSET Calls
  BY DEF Stale, Open
<1>2. \A c \in Calls : /\ q[c] = IF c \in T THEN [res[c] EXCEPT !.status = "expired"] ELSE res[c]
                       /\ res[c] \in Reservation
  BY InvFacts DEF Swept
<1>3. \A c \in Calls : /\ q[c] \in Reservation
                       /\ q[c].amount = res[c].amount /\ q[c].charged = res[c].charged
                       /\ q[c].status = IF c \in T THEN "expired" ELSE res[c].status
  BY ZenonT(40), <1>2 DEF Reservation
<1>4. q \in Reservations
  <2>1. q = [c \in Calls |-> q[c]]
    BY DEF Swept
  <2> HIDE DEF q
  <2>2. QED
    BY <1>3, <2>1 DEF Reservations
<1> HIDE DEF q, T
<1>5. Open(q) = Open(res) \ T
  BY <1>1, <1>3 DEF Open
<1>6. Reserved(q, Open(q)) = Reserved(res, Open(res)) - Reserved(res, T)
  <2>1. res \in Reservations /\ \A c \in Calls : q[c].amount = res[c].amount
    BY <1>3, InvFacts
  <2>2. QED
    BY <1>1, <1>4, <1>5, <2>1, ReservedLess
<1>7. AccountLeft(at) = account - Reserved(res, T)
  BY Views DEF AccountLeft, T
<1>8. Reserved(res, T) \in Nat /\ Reserved(q, Open(q)) \in Nat
  BY <1>1, <1>4, InvFacts, SumsAreNat DEF Open
<1>9. /\ AccountLeft(at) = Reserved(q, Open(q))
      /\ AccountLeft(at) \in Nat /\ AccountLeft(at) <= account
  BY <1>6, <1>7, <1>8, InvFacts
<1>10. Charged(q) = Charged(res)
  BY <1>3, <1>4, InvFacts, ChargedSame
<1>11. \A c \in Calls : q[c].status # "finalized" => q[c].charged = 0
  BY <1>1, <1>3 DEF CreditInv, ChargesFinal, Open
<1>12. \A c \in Calls : res[c].status \in {"released", "finalized"} => q[c] = res[c]
  BY <1>1, <1>2 DEF Open
<1>13. QED
  BY <1>4, <1>5, <1>9, <1>10, <1>11, <1>12 DEF q, T

LEMMA SweepKeeps ==
  ASSUME CreditAssumption, CreditInv, NEW at, UNCHANGED <<now, packs, job, usage>>,
         account' = AccountLeft(at), res' = Swept(at)
  PROVE  CreditInv' /\ Lasting
<1>1. account' + Charged(res') <= account + Charged(res)
  BY SweptFacts, InvFacts
<1>2. QED
  BY <1>1, SweptFacts, AccountKeeps

LEMMA NothingKeeps ==
  ASSUME CreditAssumption, CreditInv, UNCHANGED creditVars
  PROVE  CreditInv' /\ Lasting
<1>1. TypeOK' /\ ChargesFinal' /\ JobsHaveFacts' /\ Lasting
  BY DEF creditVars, CreditInv, TypeOK, ChargesFinal, JobsHaveFacts, Lasting
<1>2. AccountIsSum' /\ ReservationsCovered'
  BY DEF creditVars, CreditInv, AccountIsSum, ReservationsCovered, Active, AmountOf, Balance,
         Debits, Granted
<1>3. QED
  BY <1>1, <1>2 DEF CreditInv

LEMMA ReserveKeeps ==
  ASSUME CreditAssumption, CreditInv, NEW c \in Calls, NEW amount \in Nat, NEW expires \in Nat,
         NEW at, NEW out, Reserve(c, amount, expires, at, out)
  PROVE  CreditInv' /\ Lasting
<1> DEFINE left == AccountLeft(at)
           q == Swept(at)
           made == [NoReservation EXCEPT !.status = "active", !.amount = amount,
                                         !.expires = expires]
<1>1. \/ UNCHANGED creditVars
      \/ account' = left /\ res' = q
      \/ /\ q[c].status = "none" /\ left + amount <= Balance
         /\ account' = left + amount /\ res' = [q EXCEPT ![c] = made]
  BY DEF Reserve, creditVars
<1>2. UNCHANGED <<now, packs, job, usage>>
  BY DEF Reserve
<1>3. CASE /\ q[c].status = "none" /\ left + amount <= Balance
           /\ account' = left + amount /\ res' = [q EXCEPT ![c] = made]
  <2>1. /\ made \in Reservation /\ made.status = "active" /\ made.amount = amount
        /\ made.charged = 0
    BY DEF NoReservation, Reservation
  <2>2. /\ q \in Reservations /\ left = Reserved(q, Open(q)) /\ left \in Nat
        /\ Charged(q) = Charged(res)
        /\ \A x \in Calls : q[x].status # "finalized" => q[x].charged = 0
        /\ \A x \in Calls : res[x].status \in {"released", "finalized"} => q[x] = res[x]
    BY SweptFacts
  <2> HIDE DEF q, left, made
  <2>3. /\ res' \in Reservations /\ res'[c] = made
        /\ \A x \in Calls \ {c} : res'[x] = q[x]
    BY <1>3, <2>1, <2>2 DEF Reservations
  <2>4. c \notin Open(q) /\ Open(res') = Open(q) \cup {c}
    BY <1>3, <2>1, <2>3 DEF Open
  <2>5. Reserved(res', Open(res')) = Reserved(q, Open(q)) + amount
    <3>1. \A x \in Calls \ {c} : res'[x].amount = q[x].amount
      BY <2>3
    <3>2. Reserved(res', Open(res')) = Reserved(q, Open(q)) + res'[c].amount
      BY <2>2, <2>3, <2>4, <3>1, ReservedMore
    <3>3. QED
      BY <2>1, <2>3, <3>2
  <2>6. Charged(res') = Charged(q)
    <3>1. q[c].charged = 0
      BY <1>3, <2>2
    <3>2. QED
      BY <2>1, <2>2, <2>3, <3>1, ChargedSame
  <2>7. account' = Reserved(res', Open(res')) /\ account' <= Grants(packs) - Charged(res')
    BY <1>3, <2>2, <2>5, <2>6, Views
  <2>8. \A x \in Calls : res'[x].status # "finalized" => res'[x].charged = 0
    BY <2>1, <2>2, <2>3
  <2>9. \A x \in Calls : res[x].status \in {"released", "finalized"} => res'[x] = res[x]
    <3>1. res[c].status \notin {"released", "finalized"}
      BY <1>3, <2>2
    <3>2. QED
      BY <2>2, <2>3, <3>1
  <2>10. QED
    BY <1>2, <2>3, <2>7, <2>8, <2>9, AccountKeeps
<1>4. QED
  BY <1>1, <1>2, <1>3, SweepKeeps, NothingKeeps

\* A reservation is closed: its credit is given back, and at most as much is charged.
LEMMA CloseKeeps ==
  ASSUME CreditAssumption, CreditInv, NEW c \in Calls, NEW s \in Reservation,
         UNCHANGED <<now, packs, job, usage>>,
         res[c].status = "active", account' = account - res[c].amount,
         res' = [res EXCEPT ![c] = s],
         s.status \in {"released", "finalized"}, s.amount = res[c].amount,
         s.charged <= res[c].amount, s.status = "released" => s.charged = 0
  PROVE  CreditInv' /\ Lasting
<1>1. /\ res' \in Reservations /\ res'[c] = s
      /\ \A x \in Calls \ {c} : res'[x] = res[x]
  BY InvFacts DEF Reservations
<1>2. c \in Open(res) /\ Open(res') = Open(res) \ {c}
  BY <1>1 DEF Open
<1>3. Reserved(res', Open(res')) = Reserved(res, Open(res)) - res[c].amount
  <2>1. res \in Reservations
    BY InvFacts
  <2>2. \A x \in Calls : res'[x].amount = res[x].amount
    BY <1>1
  <2>3. QED
    BY ZenonT(40), <1>1, <1>2, <2>1, <2>2, ReservedClosed
<1>4. Charged(res') = Charged(res) - res[c].charged + s.charged
  <2>1. res \in Reservations
    BY InvFacts
  <2>2. \A x \in Calls \ {c} : res'[x].charged = res[x].charged
    BY <1>1
  <2>3. Charged(res') = Charged(res) - res[c].charged + res'[c].charged
    BY ZenonT(40), <1>1, <2>1, <2>2, ChargedChange
  <2>4. QED
    BY <1>1, <2>3
<1>5. res[c].charged \in Nat /\ s.charged \in Nat /\ res[c].amount \in Nat
  BY InvFacts DEF Reservation
<1>6. /\ account' = Reserved(res', Open(res'))
      /\ account' + Charged(res') <= account + Charged(res)
  BY <1>3, <1>4, <1>5, InvFacts
<1>7. \A x \in Calls : res'[x].status # "finalized" => res'[x].charged = 0
  BY <1>1 DEF CreditInv, ChargesFinal
<1>8. \A x \in Calls : res[x].status \in {"released", "finalized"} => res'[x] = res[x]
  BY <1>1
<1>9. QED
  BY <1>1, <1>6, <1>7, <1>8, AccountKeeps

LEMMA ReleaseKeeps ==
  ASSUME CreditAssumption, CreditInv, NEW c \in Calls, NEW outcome \in CallOutcomes \cup {"-"},
         NEW out, Release(c, outcome, out)
  PROVE  /\ CreditInv' /\ Lasting
         /\ out = "ok" /\ outcome # "-" => Settled(c, [outcome |-> outcome, charge |-> 0])'
<1> DEFINE s == [res[c] EXCEPT !.status = "released", !.outcome = outcome]
<1>1. s \in Reservation /\ s.status = "released" /\ s.amount = res[c].amount
      /\ s.charged = res[c].charged /\ s.outcome = outcome /\ res[c] \in Reservation
  BY InvFacts DEF Reservation
<1>2. \/ UNCHANGED creditVars
      \/ /\ res[c].status = "active" /\ account' = account - res[c].amount
         /\ res' = [res EXCEPT ![c] = s] /\ UNCHANGED <<now, packs, job, usage>>
  <2>1. [res EXCEPT ![c].status = "released", ![c].outcome = outcome] = [res EXCEPT ![c] = s]
    BY InvFacts DEF Reservations, Reservation
  <2> HIDE DEF s
  <2>2. QED
    BY <2>1 DEF Release, creditVars
<1>3. CASE /\ res[c].status = "active" /\ account' = account - res[c].amount
           /\ res' = [res EXCEPT ![c] = s] /\ UNCHANGED <<now, packs, job, usage>>
  <2>1. s.charged = 0 /\ s.charged <= res[c].amount
    BY <1>1, <1>3 DEF CreditInv, ChargesFinal, Reservation
  <2> HIDE DEF s
  <2>2. CreditInv' /\ Lasting
    BY <1>1, <1>3, <2>1, CloseKeeps
  <2>3. res'[c] = s
    BY <1>3, InvFacts DEF Reservations
  <2>4. QED
    BY <1>1, <2>1, <2>2, <2>3 DEF Settled, SettledAs
<1>4. CASE UNCHANGED creditVars
  <2>1. ASSUME out = "ok", outcome # "-"
        PROVE  Settled(c, [outcome |-> outcome, charge |-> 0])'
    <3>1. res[c].status = "released" /\ res[c].outcome = outcome
      <4>1. \/ res[c].status = "active" /\ account >= res[c].amount
               /\ account' = account - res[c].amount
               /\ res' = [res EXCEPT ![c].status = "released", ![c].outcome = outcome]
            \/ res[c].status = "released" /\ outcome \in {"-", res[c].outcome}
        BY <2>1 DEF Release
      <4>2. res[c].status = "active" => res # [res EXCEPT ![c] = s]
        BY <1>1, InvFacts DEF Reservations
      <4>3. [res EXCEPT ![c].status = "released", ![c].outcome = outcome] = [res EXCEPT ![c] = s]
        BY InvFacts DEF Reservations, Reservation
      <4> HIDE DEF s
      <4>4. QED
        BY <1>4, <2>1, <4>1, <4>2, <4>3 DEF creditVars
    <3>2. res[c].charged = 0
      BY <3>1 DEF CreditInv, ChargesFinal
    <3>3. QED
      BY <1>4, <3>1, <3>2 DEF Settled, SettledAs, creditVars
  <2>2. QED
    BY <1>4, <2>1, NothingKeeps
<1>5. QED
  BY <1>2, <1>3, <1>4

LEMMA FinalizeKeeps ==
  ASSUME CreditAssumption, CreditInv, NEW c \in Calls, NEW fact \in Fact,
         NEW out, Finalize(c, fact, out)
  PROVE  CreditInv' /\ Lasting /\ (out = "ok" => Settled(c, fact)')
<1> DEFINE s == [res[c] EXCEPT !.status = "finalized", !.outcome = fact.outcome,
                               !.charged = fact.charge]
<1>1. s \in Reservation /\ s.status = "finalized" /\ s.amount = res[c].amount
      /\ s.charged = fact.charge /\ s.outcome = fact.outcome /\ res[c] \in Reservation
  BY InvFacts DEF Reservation, Fact
<1>2. \/ /\ res[c].status = "active" /\ account' = account - res[c].amount
         /\ fact.charge <= res[c].amount
         /\ res' = [res EXCEPT ![c] = s] /\ UNCHANGED <<now, packs, job, usage>>
      \/ /\ UNCHANGED creditVars
         /\ out = "ok" => /\ res[c].status = "finalized" /\ res[c].charged = fact.charge
                          /\ res[c].outcome = fact.outcome
  <2>1. [res EXCEPT ![c].status = "finalized", ![c].outcome = fact.outcome,
                    ![c].charged = fact.charge] = [res EXCEPT ![c] = s]
    BY InvFacts DEF Reservations, Reservation
  <2> HIDE DEF s
  <2>2. QED
    BY <2>1 DEF Finalize, creditVars
<1>3. CASE /\ res[c].status = "active" /\ account' = account - res[c].amount
           /\ fact.charge <= res[c].amount
           /\ res' = [res EXCEPT ![c] = s] /\ UNCHANGED <<now, packs, job, usage>>
  <2> HIDE DEF s
  <2>1. CreditInv' /\ Lasting
    BY <1>1, <1>3, CloseKeeps
  <2>2. res'[c] = s
    BY <1>3, InvFacts DEF Reservations
  <2>3. QED
    BY <1>1, <2>1, <2>2 DEF Settled, SettledAs
<1>4. CASE /\ UNCHANGED creditVars
           /\ out = "ok" => /\ res[c].status = "finalized" /\ res[c].charged = fact.charge
                            /\ res[c].outcome = fact.outcome
  <2>1. out = "ok" => Settled(c, fact)'
    BY <1>4 DEF Settled, SettledAs, creditVars
  <2>2. QED
    BY <1>4, <2>1, NothingKeeps
<1>5. QED
  BY <1>2, <1>3, <1>4

LEMMA SettleKeeps ==
  ASSUME CreditAssumption, CreditInv, NEW c \in Calls, NEW fact \in Fact,
         NEW out, Settle(c, fact, out)
  PROVE  CreditInv' /\ Lasting /\ (out = "ok" => Settled(c, fact)')
<1>1. CASE fact.charge # 0
  BY <1>1, FinalizeKeeps DEF Settle
<1>2. CASE fact.charge = 0 /\ fact.outcome = "failed"
  <2>1. Release(c, "failed", out)
    BY <1>2 DEF Settle
  <2>2. "failed" \in CallOutcomes
    BY <1>2 DEF Fact
  <2>3. /\ CreditInv' /\ Lasting
        /\ out = "ok" => Settled(c, [outcome |-> "failed", charge |-> 0])'
    BY <2>1, <2>2, ReleaseKeeps
  <2>4. QED
    BY <1>2, <2>3 DEF Settled, SettledAs
<1>3. CASE fact.charge = 0 /\ fact.outcome # "failed"
  BY <1>3, NothingKeeps DEF Settle
<1>4. QED
  BY <1>1, <1>2, <1>3

-----------------------------------------------------------------------------
(* The transactions on packs, jobs and the ledger *)

LEMMA BuyKeeps ==
  ASSUME CreditAssumption, CreditInv, Buy
  PROVE  CreditInv' /\ Lasting
<1>1. /\ Len(packs) < MaxPacks /\ packs' = Append(packs, "granted")
      /\ UNCHANGED <<now, account, res, job, usage>>
  BY DEF Buy
<1>2. packs \in PackSeqs /\ packs' \in PackSeqs /\ Len(packs') = Len(packs) + 1
  BY <1>1, InvFacts DEF PackSeqs
<1>3. TypeOK'
  <2>1. Len(packs') <= MaxPacks
    <3>1. Len(packs) \in Nat
      BY <1>2 DEF PackSeqs
    <3>2. QED
      BY <1>1, <1>2, <3>1, Bounds
  <2>2. QED
    BY <1>1, <1>2, <2>1 DEF CreditInv, TypeOK, PackSeqs
<1>4. AccountIsSum' /\ ChargesFinal' /\ JobsHaveFacts' /\ Lasting
  BY <1>1 DEF CreditInv, AccountIsSum, Active, AmountOf, ChargesFinal, JobsHaveFacts, Lasting
<1>5. ReservationsCovered'
  <2>1. SUFFICES ASSUME \A i \in DOMAIN packs' : packs'[i] # "refunded"
                 PROVE  account' <= Grants(packs') - Charged(res')
    BY NextViews DEF ReservationsCovered
  <2>2. \A i \in DOMAIN packs : i \in DOMAIN packs' /\ packs'[i] = packs[i]
    BY <1>1, <1>2 DEF PackSeqs
  <2>3. account <= Grants(packs) - Charged(res)
    BY <2>1, <2>2, InvFacts
  <2>4. Grants(packs') = Grants(packs) + PackCredit
    BY <1>1, <1>2, GrantsBought
  <2>5. QED
    BY <1>1, <2>3, <2>4, Bounds, InvFacts
<1>6. QED
  BY <1>3, <1>4, <1>5 DEF CreditInv

LEMMA RefundKeeps ==
  ASSUME CreditAssumption, CreditInv, NEW i \in DOMAIN packs, CheckRefund(i) \/ EndRefund(i)
  PROVE  CreditInv' /\ Lasting
<1>1. PICK status \in {"granted", "refunding", "refunded"} :
        /\ packs[i] # "refunded" /\ packs' = [packs EXCEPT ![i] = status]
        /\ UNCHANGED <<now, account, res, job, usage>>
  BY DEF CheckRefund, EndRefund
<1>2. /\ packs \in PackSeqs /\ packs' \in PackSeqs /\ Len(packs') = Len(packs)
      /\ DOMAIN packs' = DOMAIN packs /\ packs'[i] = status
      /\ \A j \in DOMAIN packs \ {i} : packs'[j] = packs[j]
  BY SMTT(40), <1>1, InvFacts DEF PackSeqs
<1>3. TypeOK'
  BY <1>1, <1>2 DEF CreditInv, TypeOK, PackSeqs
<1>4. AccountIsSum' /\ ChargesFinal' /\ JobsHaveFacts' /\ Lasting
  BY <1>1 DEF CreditInv, AccountIsSum, Active, AmountOf, ChargesFinal, JobsHaveFacts, Lasting
<1>5. ReservationsCovered'
  <2>1. SUFFICES ASSUME \A j \in DOMAIN packs' : packs'[j] # "refunded"
                 PROVE  account' <= Grants(packs') - Charged(res')
    BY NextViews DEF ReservationsCovered
  <2>2. \A j \in DOMAIN packs : packs[j] # "refunded" /\ packs'[j] # "refunded"
    BY <1>1, <1>2, <2>1
  <2>3. Grants(packs') = Grants(packs)
    BY <1>2, <2>2, GrantsSame
  <2>4. QED
    BY <1>1, <2>2, <2>3, InvFacts
<1>6. QED
  BY <1>3, <1>4, <1>5 DEF CreditInv

\* Nothing but the clock, a job or a ledger entry changes.
LEMMA AsideKeeps ==
  ASSUME CreditAssumption, CreditInv, UNCHANGED <<packs, account, res>>,
         now' \in 0..MaxTime, job' \in [Calls -> Job], usage' \in [Calls -> Fact \cup {NoFact}],
         \A c \in Calls : /\ job'[c].status # "none" => job'[c].fact \in Fact
                          /\ job[c].status # "none" =>
                               job'[c].status # "none" /\ job'[c].fact = job[c].fact
                          /\ usage[c] # NoFact => usage'[c] = usage[c]
  PROVE  CreditInv' /\ Lasting
<1>1. TypeOK' /\ ChargesFinal' /\ JobsHaveFacts' /\ Lasting
  BY DEF CreditInv, TypeOK, ChargesFinal, JobsHaveFacts, Lasting
<1>2. AccountIsSum' /\ ReservationsCovered'
  BY DEF CreditInv, AccountIsSum, ReservationsCovered, Active, AmountOf, Balance, Debits, Granted
<1>3. QED
  BY <1>1, <1>2 DEF CreditInv

\* The jobs that a step completes are at most the given one.
CompletesOnly(S) ==
  \A c \in Calls : job'[c].status = "completed" => job[c].status = "completed" \/ c \in S

\* A job goes on with what it is to settle.
LEMMA JobKeeps ==
  ASSUME CreditAssumption, CreditInv, UNCHANGED <<now, packs, account, res, usage>>,
         NEW c \in Calls, NEW j \in Job, job' = [job EXCEPT ![c] = j],
         j.status # "none", j.fact \in Fact, job[c].status # "none" => j.fact = job[c].fact
  PROVE  /\ CreditInv' /\ Lasting /\ job'[c] = j
         /\ CompletesOnly(IF j.status = "completed" THEN {c} ELSE {})
<1>1. /\ job' \in [Calls -> Job] /\ job'[c] = j /\ \A x \in Calls \ {c} : job'[x] = job[x]
  BY DEF CreditInv, TypeOK
<1>2. \A x \in Calls : /\ job'[x].status # "none" => job'[x].fact \in Fact
                       /\ job[x].status # "none" =>
                            job'[x].status # "none" /\ job'[x].fact = job[x].fact
  BY <1>1 DEF CreditInv, JobsHaveFacts
<1>3. now' \in 0..MaxTime /\ usage' \in [Calls -> Fact \cup {NoFact}]
  BY DEF CreditInv, TypeOK
<1>4. CreditInv' /\ Lasting
  BY <1>1, <1>2, <1>3, AsideKeeps
<1>5. CompletesOnly(IF j.status = "completed" THEN {c} ELSE {})
  BY <1>1 DEF CompletesOnly
<1>6. QED
  BY <1>1, <1>4, <1>5

LEMMA EnqueueKeeps ==
  ASSUME CreditAssumption, CreditInv, NEW c \in Calls, NEW fact \in Fact, NEW at \in Nat,
         NEW out, Enqueue(c, fact, at, out)
  PROVE  CreditInv' /\ Lasting /\ CompletesOnly({}) /\ UNCHANGED <<now, res, usage>>
<1>1. CASE job[c].status = "none"
  <2> DEFINE j == [NoJob EXCEPT !.status = "pending", !.fact = fact, !.next = at]
  <2>1. job' = [job EXCEPT ![c] = j] /\ UNCHANGED <<now, packs, account, res, usage>>
    BY <1>1 DEF Enqueue
  <2>2. j \in Job /\ j.status = "pending" /\ j.fact = fact
    BY DEF NoJob, Job
  <2> HIDE DEF j
  <2>3. QED
    BY <1>1, <2>1, <2>2, JobKeeps
<1>2. CASE job[c].status # "none"
  BY <1>2, NothingKeeps DEF Enqueue, creditVars, CompletesOnly
<1>3. QED
  BY <1>1, <1>2

LEMMA ClaimKeeps ==
  ASSUME CreditAssumption, CreditInv, NEW c \in Calls, NEW at \in Nat, Claim(c, at)
  PROVE  /\ CreditInv' /\ Lasting /\ CompletesOnly({}) /\ UNCHANGED <<now, res, usage>>
         /\ job'[c].status # "none" /\ job[c].attempts \in Nat
<1> DEFINE j == [job[c] EXCEPT !.status = "processing", !.attempts = job[c].attempts + 1,
                               !.next = 0, !.lease = Later(at + JobLease)]
<1>1. job \in [Calls -> Job] /\ job[c] \in Job /\ job[c].status # "none" /\ job[c].fact \in Fact
  BY DEF CreditInv, TypeOK, JobsHaveFacts, Claim, Claimable
<1>2. job' = [job EXCEPT ![c] = j] /\ UNCHANGED <<now, packs, account, res, usage>>
  BY <1>1 DEF Claim, Job
<1>3. Later(at + JobLease) \in Nat /\ job[c].attempts + 1 \in Nat /\ job[c].attempts \in Nat
  BY <1>1, Bounds, LaterIsTime DEF Job
<1>4. j \in Job /\ j.status = "processing" /\ j.fact = job[c].fact
  BY <1>1, <1>3 DEF Job
<1> HIDE DEF j
<1>5. QED
  BY <1>1, <1>2, <1>3, <1>4, JobKeeps

LEMMA MarkKeeps ==
  ASSUME CreditAssumption, CreditInv, NEW c \in Calls, NEW attempt, NEW next \in Nat,
         NEW status \in {"pending", "completed", "dead_letter"}, Mark(c, attempt, status, next)
  PROVE  /\ CreditInv' /\ Lasting /\ UNCHANGED <<now, res, usage>>
         /\ CompletesOnly({c})
         /\ status # "completed" => CompletesOnly({})
<1> DEFINE j == [job[c] EXCEPT !.status = status, !.next = next, !.lease = 0]
<1>1. job \in [Calls -> Job] /\ job[c] \in Job
  BY DEF CreditInv, TypeOK
<1>2. CASE HoldsJob(c, attempt)
  <2>1. job[c].status # "none" /\ job[c].fact \in Fact
    BY <1>2 DEF HoldsJob, CreditInv, JobsHaveFacts
  <2>2. job' = [job EXCEPT ![c] = j] /\ UNCHANGED <<now, packs, account, res, usage>>
    BY <1>1, <1>2 DEF Mark, Job
  <2>3. j \in Job /\ j.status = status /\ j.fact = job[c].fact
    BY <1>1 DEF Job
  <2> HIDE DEF j
  <2>4. /\ CreditInv' /\ Lasting
        /\ CompletesOnly(IF j.status = "completed" THEN {c} ELSE {})
    BY <2>1, <2>2, <2>3, JobKeeps
  <2>5. QED
    BY <2>2, <2>3, <2>4 DEF CompletesOnly
<1>3. CASE ~HoldsJob(c, attempt)
  BY <1>3, NothingKeeps DEF Mark, creditVars, CompletesOnly
<1>4. QED
  BY <1>2, <1>3

LEMMA RecordKeeps ==
  ASSUME CreditAssumption, CreditInv, NEW c \in Calls, NEW fact \in Fact, NEW out,
         RecordUsage(c, fact, out)
  PROVE  /\ CreditInv' /\ Lasting /\ UNCHANGED <<now, res, job>>
         /\ out = "ok" => usage'[c] = fact
         /\ usage'[c] \in {usage[c], fact} /\ \A x \in Calls \ {c} : usage'[x] = usage[x]
<1>1. /\ usage' = [usage EXCEPT ![c] = IF usage[c] = NoFact THEN fact ELSE usage[c]]
      /\ out = IF usage[c] \in {NoFact, fact} THEN "ok" ELSE "error"
      /\ UNCHANGED <<now, packs, account, res, job>>
      /\ usage \in [Calls -> Fact \cup {NoFact}]
  BY DEF RecordUsage, CreditInv, TypeOK
<1>2. /\ usage' \in [Calls -> Fact \cup {NoFact}]
      /\ usage'[c] = IF usage[c] = NoFact THEN fact ELSE usage[c]
      /\ \A x \in Calls \ {c} : usage'[x] = usage[x]
  BY <1>1
<1>3. out = "ok" => usage'[c] = fact
  BY <1>1, <1>2
<1>4. \A x \in Calls : usage[x] # NoFact => usage'[x] = usage[x]
  BY <1>2
<1>5. /\ now' \in 0..MaxTime /\ job' \in [Calls -> Job]
      /\ \A x \in Calls : /\ job'[x].status # "none" => job'[x].fact \in Fact
                          /\ job[x].status # "none" =>
                               job'[x].status # "none" /\ job'[x].fact = job[x].fact
  BY <1>1 DEF CreditInv, TypeOK, JobsHaveFacts
<1>6. CreditInv' /\ Lasting
  BY <1>1, <1>2, <1>4, <1>5, AsideKeeps
<1>7. QED
  BY <1>1, <1>2, <1>3, <1>6

LEMMA TickKeeps ==
  ASSUME CreditAssumption, CreditInv, Tick
  PROVE  CreditInv' /\ Lasting /\ UNCHANGED <<res, job, usage>> /\ now <= now'
<1>1. UNCHANGED <<packs, account, res, job, usage>> /\ now' = now + 1 /\ now < MaxTime
  BY DEF Tick
<1>2. now' \in 0..MaxTime /\ now <= now'
  BY <1>1, Bounds DEF CreditInv, TypeOK
<1>3. /\ job' \in [Calls -> Job] /\ usage' \in [Calls -> Fact \cup {NoFact}]
      /\ \A x \in Calls : /\ job'[x].status # "none" => job'[x].fact \in Fact
                          /\ job[x].status # "none" =>
                               job'[x].status # "none" /\ job'[x].fact = job[x].fact
                          /\ usage[x] # NoFact => usage'[x] = usage[x]
  BY <1>1 DEF CreditInv, TypeOK, JobsHaveFacts
<1>4. QED
  BY <1>1, <1>2, <1>3, AsideKeeps

-----------------------------------------------------------------------------
(* Any transaction after any other *)

LEMMA CreditInit ==
  ASSUME CreditAssumption, Init
  PROVE  CreditInv
<1>1. NoReservation \in Reservation /\ NoJob \in Job
  BY DEF NoReservation, Reservation, NoJob, Job
<1>2. /\ now = 0 /\ packs = <<>> /\ account = 0
      /\ res \in Reservations /\ job \in [Calls -> Job] /\ usage \in [Calls -> Fact \cup {NoFact}]
  BY <1>1 DEF Init, Reservations
<1>3. TypeOK
  <2>1. 0 \in 0..MaxTime /\ 0 <= MaxPacks
    BY Bounds
  <2>2. packs \in PackSeqs /\ Len(packs) = 0
    BY <1>2 DEF PackSeqs
  <2>3. QED
    BY <1>2, <2>1, <2>2 DEF TypeOK, Reservations, PackSeqs
<1>4. \A c \in Calls : res[c].status = "none" /\ res[c].charged = 0
  BY DEF Init, NoReservation
<1>5. Open(res) = {} /\ Reserved(res, {}) = 0
  BY <1>4, SumOfNone DEF Open, Reserved
<1>6. AccountIsSum
  BY <1>2, <1>5, Views DEF AccountIsSum
<1>7. ReservationsCovered
  <2>1. Charged(res) = 0
    <3> DEFINE f == [c \in Calls |-> res[c].charged]
    <3>1. \A c \in Calls : f[c] = 0
      BY <1>4
    <3> HIDE DEF f
    <3>2. SumFunctionOnSet(f, Calls) = 0
      BY <3>1, Bounds, SumOfZeros
    <3>3. QED
      BY <3>2 DEF Charged, f
  <2>2. Grants(packs) \in Nat
    <3>1. packs \in PackSeqs
      BY <1>2 DEF PackSeqs
    <3>2. QED
      BY <3>1, GrantsIsNat
  <2>3. QED
    BY <1>2, <2>1, <2>2, Views DEF ReservationsCovered
<1>8. ChargesFinal /\ JobsHaveFacts
  BY <1>4 DEF ChargesFinal, JobsHaveFacts, Init, NoJob
<1>9. QED
  BY <1>3, <1>6, <1>7, <1>8 DEF CreditInv

LEMMA TransactionKeeps ==
  ASSUME CreditAssumption, CreditInv, NEW c \in Calls, CreditTransaction(c)
  PROVE  CreditInv' /\ Lasting
<1>1. ASSUME NEW amount \in Amounts, NEW ttl \in Ttls, NEW at \in 0..now, NEW out,
             Reserve(c, amount, Later(at + ttl), at, out)
      PROVE  CreditInv' /\ Lasting
  <2>1. amount \in Nat /\ ttl \in Nat /\ now \in Nat
    BY DEF CreditAssumption, CreditInv, TypeOK
  <2>2. at + ttl \in Nat
    BY <2>1
  <2>3. Later(at + ttl) \in Nat
    BY <2>2, Bounds, LaterIsTime
  <2>4. QED
    BY <1>1, <2>1, <2>3, ReserveKeeps
<1>2. ASSUME NEW out, Release(c, "-", out)
      PROVE  CreditInv' /\ Lasting
  BY <1>2, ReleaseKeeps
<1>3. ASSUME NEW out, job[c].fact # NoFact,
             Settle(c, job[c].fact, out) \/ RecordUsage(c, job[c].fact, out)
      PROVE  CreditInv' /\ Lasting
  <2>1. job[c].fact \in Fact
    BY <1>3 DEF CreditInv, TypeOK, Job
  <2>2. QED
    BY <1>3, <2>1, SettleKeeps, RecordKeeps
<1>4. QED
  BY <1>1, <1>2, <1>3 DEF CreditTransaction

LEMMA JobTransactionKeeps ==
  ASSUME CreditAssumption, CreditInv, NEW c \in Calls, JobTransaction(c)
  PROVE  CreditInv' /\ Lasting
<1>1. now \in Nat /\ job[c].attempts \in Nat
  BY DEF CreditInv, TypeOK, Job
<1>2. ASSUME NEW fact \in [outcome : CallOutcomes, charge : Amounts \cup {0}],
             NEW at \in 0..now, NEW out, Enqueue(c, fact, at, out)
      PROVE  CreditInv' /\ Lasting
  <2>1. Amounts \cup {0} \in SUBSET Nat /\ at \in Nat
    BY <1>1 DEF CreditAssumption
  <2>2. fact \in Fact
    BY <2>1 DEF Fact
  <2>3. QED
    BY <1>2, <2>1, <2>2, EnqueueKeeps
<1>3. ASSUME NEW at \in 0..now, Claim(c, at)
      PROVE  CreditInv' /\ Lasting
  <2>1. at \in Nat
    BY <1>1
  <2>2. QED
    BY <1>3, <2>1, ClaimKeeps
<1>4. ASSUME NEW attempt \in 1..job[c].attempts, NEW at \in 0..now,
             MarkPending(c, attempt, at) \/ MarkDeadLetter(c, attempt) \/ MarkCompleted(c, attempt)
      PROVE  CreditInv' /\ Lasting
  <2>1. attempt \in Nat \ {0} /\ at \in Nat
    BY <1>1
  <2>2. RetryDelay(attempt) \in Nat
    BY <2>1, RetryDelayIsNat
  <2>3. Later(at + RetryDelay(attempt)) \in Nat
    BY <2>1, <2>2, Bounds, LaterIsTime
  <2>4. QED
    BY <1>4, <2>3, MarkKeeps DEF MarkPending, MarkDeadLetter, MarkCompleted
<1>5. QED
  <2>1. 0 \in 0..now
    BY <1>1
  <2>2. QED
    BY <1>2, <1>3, <1>4, <2>1 DEF JobTransaction

LEMMA CreditNext ==
  ASSUME CreditAssumption, CreditInv, [Next]_creditVars
  PROVE  CreditInv' /\ Lasting
<1>1. CASE Next
  BY <1>1, TickKeeps, BuyKeeps, RefundKeeps, TransactionKeeps, JobTransactionKeeps DEF Next
<1>2. CASE UNCHANGED creditVars
  BY <1>2, NothingKeeps
<1>3. QED
  BY <1>1, <1>2

\* The invariant of the transactions, in any order and with any arguments.
THEOREM CreditInvariant == Spec => []CreditInv
<1>1. Init => CreditInv
  BY CreditAssumption, CreditInit
<1>2. CreditInv /\ [Next]_creditVars => CreditInv'
  BY CreditAssumption, CreditNext
<1>3. QED
  BY <1>1, <1>2, PTL DEF Spec

\* Every variable keeps its type, for any bounds.
THEOREM CreditTypeCorrect == Spec => []TypeOK
<1>1. CreditInv => TypeOK
  BY DEF CreditInv
<1>2. QED
  BY <1>1, CreditInvariant, PTL

\* The counter of the account is the sum of the reservations still open, however many
\* calls there are and whichever way each of them is closed.
THEOREM AccountAlwaysSum == Spec => []AccountIsSum
<1>1. CreditInv => AccountIsSum
  BY DEF CreditInv
<1>2. QED
  BY <1>1, CreditInvariant, PTL

\* As long as no pack is refunded, what is reserved is there to be charged.
THEOREM ReservationsAlwaysCovered == Spec => []ReservationsCovered
<1>1. CreditInv => ReservationsCovered
  BY DEF CreditInv
<1>2. QED
  BY <1>1, CreditInvariant, PTL

\* No transaction takes back what another has decided of a call: a closed reservation,
\* the facts of a job, or a ledger entry.
THEOREM DecisionsStand == Spec => [][Lasting]_creditVars
<1>1. CreditInv /\ [Next]_creditVars => Lasting
  BY CreditAssumption, CreditNext
<1>2. QED
  BY <1>1, CreditInvariant, PTL DEF Spec

-----------------------------------------------------------------------------
(* The processes: what each step leaves of the invariant *)

CallRecord == [stage : {"new", "open", "handoff", "draining", "ended"},
               received : MaybeTime, connected : MaybeTime, ended : 0..MaxTime,
               failed : BOOLEAN]
HookStage == {"idle", "starting", "admitting", "setup", "releasing", "done"}

ProcTypeOK ==
  /\ call \in [Calls -> CallRecord]
  /\ hook \in [Calls -> [Hooks -> HookStage]]
  /\ run \in [Runners -> Running]
  /\ faults \in 0..MaxFaults

EndedStays == \A c \in Calls : call[c].stage = "ended" => call'[c].stage = "ended"

\* A runner goes on with what it knows of its job.
SoundGoesOn(r) ==
  run'[r] = run[r] \/ RunnerSound(run'[r], call', res', job', usage')

LEMMA ProcTypes == BillingTypeOK <=> TypeOK /\ ProcTypeOK
BY DEF BillingTypeOK, ProcTypeOK, CallRecord, HookStage

LEMMA NextProcTypes == BillingTypeOK' <=> TypeOK' /\ ProcTypeOK'
BY DEF BillingTypeOK, ProcTypeOK, CallRecord, HookStage

LEMMA NoFactIsNoFact ==
  ASSUME CreditAssumption
  PROVE  NoFact \notin Fact
BY DEF CreditAssumption, NoFact, Fact

\* What others do leaves a runner right about its job.
LEMMA StaysSound ==
  ASSUME CreditAssumption, BillingInv, Lasting, EndedStays,
         NEW w, RunnerSound(w, call, res, job, usage)
  PROVE  RunnerSound(w, call', res', job', usage')
<1>1. w.stage \notin {"idle", "done", "pass"} => w.call \in Calls
  BY DEF RunnerSound
<1>2. w.stage = "submit" => call'[w.call].stage = "ended"
  BY DEF RunnerSound, EndedStays
<1>3. w.stage \in {"settle", "record", "complete", "fail"} =>
        /\ w.attempt > 0 /\ w.call \in Calls
        /\ job[w.call].fact \in Fact
        /\ job'[w.call].status # "none" /\ job'[w.call].fact = job[w.call].fact
  BY DEF RunnerSound, Lasting, BillingInv, CreditInv, JobsHaveFacts
<1>4. w.stage = "record" => SettledAs(res'[w.call], job'[w.call].fact)
  BY <1>1, <1>3 DEF RunnerSound, Lasting, SettledAs
<1>5. w.stage = "complete" => usage'[w.call] = job'[w.call].fact
  BY <1>1, <1>3, NoFactIsNoFact DEF RunnerSound, Lasting
<1>6. QED
  BY <1>1, <1>2, <1>3, <1>4, <1>5 DEF RunnerSound

LEMMA StepKeeps ==
  ASSUME CreditAssumption, BillingInv, CreditInv', Lasting, UsageSettled', CompletedRecorded',
         ProcTypeOK', CallTimes', EndedStays, \A r \in Runners : SoundGoesOn(r)
  PROVE  BillingInv' /\ Lasting
<1>1. ASSUME NEW r \in Runners
      PROVE  RunnerSound(run'[r], call', res', job', usage')
  <2>1. CASE run'[r] = run[r]
    <3>1. RunnerSound(run[r], call, res, job, usage)
      BY DEF BillingInv, RunnersSound
    <3>2. RunnerSound(run[r], call', res', job', usage')
      BY <3>1, StaysSound
    <3>3. QED
      BY <2>1, <3>2
  <2>2. CASE run'[r] # run[r]
    BY <2>2 DEF SoundGoesOn
  <2>3. QED
    BY <2>1, <2>2
<1>2. RunnersSound'
  BY <1>1 DEF RunnersSound
<1>3. BillingTypeOK'
  BY NextProcTypes DEF CreditInv
<1>4. QED
  BY <1>2, <1>3 DEF BillingInv

\* A step that enters nothing in the ledger and completes no job.
LEMMA DecidedKeeps ==
  ASSUME CreditAssumption, BillingInv, Lasting, usage' = usage, CompletesOnly({})
  PROVE  UsageSettled' /\ CompletedRecorded'
<1>1. UsageSettled'
  BY DEF BillingInv, UsageSettled, Settled, SettledAs, Lasting
<1>2. CompletedRecorded'
  BY DEF BillingInv, CompletedRecorded, CompletesOnly
<1>3. QED
  BY <1>1, <1>2

LEMMA CreditIdle ==
  ASSUME CreditAssumption, BillingInv, UNCHANGED creditVars
  PROVE  /\ CreditInv' /\ Lasting /\ UsageSettled' /\ CompletedRecorded' /\ now' = now
<1>1. CreditInv' /\ Lasting
  BY NothingKeeps DEF BillingInv
<1>2. usage' = usage /\ CompletesOnly({}) /\ now' = now
  BY DEF creditVars, CompletesOnly
<1>3. QED
  BY <1>1, <1>2, DecidedKeeps

\* A transaction on the reservations, with whatever the process makes of its outcome.
LEMMA ReservationsMove ==
  ASSUME CreditAssumption, BillingInv, CreditInv', Lasting, UNCHANGED <<now, packs, job, usage>>
  PROVE  UsageSettled' /\ CompletedRecorded' /\ now' = now
<1>1. CompletesOnly({}) /\ now' = now /\ usage' = usage
  BY DEF CompletesOnly
<1>2. QED
  BY <1>1, DecidedKeeps

LEMMA FaultTypes ==
  ASSUME BillingAssumption, BillingInv, Fault \/ NoFault
  PROVE  faults' \in 0..MaxFaults
<1>1. faults \in 0..MaxFaults /\ MaxFaults \in Nat
  BY DEF BillingInv, BillingTypeOK, BillingAssumption
<1>2. QED
  BY <1>1 DEF Fault, NoFault

LEMMA BillingFacts ==
  ASSUME CreditAssumption, BillingInv
  PROVE  /\ CreditInv /\ ProcTypeOK /\ CallTimes
         /\ now \in 0..MaxTime /\ now \in Nat /\ MaxTime \in Nat
         /\ \A r \in Runners : /\ run[r] \in Running
                               /\ RunnerSound(run[r], call, res, job, usage)
         /\ \A c \in Calls : call[c] \in CallRecord
BY ProcTypes, Bounds DEF BillingInv, CreditInv, TypeOK, ProcTypeOK, RunnersSound

\* The clock goes on, or stands, and no delivery begins.
LEMMA TimesGoOn ==
  ASSUME CreditAssumption, BillingInv, call' = call, now' \in Nat, now <= now',
         \A c \in Calls, h \in Hooks : hook'[c][h] = "starting" => hook[c][h] = "starting"
  PROVE  CallTimes' /\ EndedStays
<1>1. ASSUME NEW c \in Calls
      PROVE  call[c].connected <= now'
  <2>1. call[c].connected \in Int /\ now \in Int /\ call[c].connected <= now
    BY BillingFacts DEF CallRecord, MaybeTime, CallTimes
  <2>2. QED
    BY <2>1
<1>2. CallTimes'
  BY <1>1, BillingFacts DEF CallTimes
<1>3. QED
  BY <1>2 DEF EndedStays

\* A runner goes on, and nothing happens to the calls and to the webhooks.
LEMMA RunnerMoves ==
  ASSUME CreditAssumption, BillingInv, CreditInv', Lasting, UsageSettled', CompletedRecorded',
         now' = now, UNCHANGED <<call, hook>>, faults' \in 0..MaxFaults,
         NEW r \in Runners, NEW w \in Running, run' = [run EXCEPT ![r] = w],
         RunnerSound(w, call, res', job', usage')
  PROVE  BillingInv' /\ Lasting
<1>1. CallTimes' /\ EndedStays
  BY BillingFacts, TimesGoOn
<1>2. run \in [Runners -> Running]
  BY BillingFacts DEF ProcTypeOK
<1>3. ProcTypeOK'
  BY <1>2, BillingFacts DEF ProcTypeOK
<1>4. \A x \in Runners : SoundGoesOn(x)
  BY <1>2 DEF SoundGoesOn
<1>5. QED
  BY <1>1, <1>3, <1>4, StepKeeps

\* A handler goes on, and nothing happens to the calls and the runners.
LEMMA HookMoves ==
  ASSUME CreditAssumption, BillingInv, CreditInv', Lasting, UsageSettled', CompletedRecorded',
         now' = now, UNCHANGED <<call, run>>, faults' \in 0..MaxFaults,
         NEW c \in Calls, NEW h \in Hooks, NEW stage \in HookStage \ {"starting"},
         GoTo(c, h, stage)
  PROVE  BillingInv' /\ Lasting
<1>1. /\ hook \in [Calls -> [Hooks -> HookStage]]
      /\ hook' = [hook EXCEPT ![c][h] = stage]
  BY BillingFacts DEF GoTo, ProcTypeOK
<1>2. /\ hook' \in [Calls -> [Hooks -> HookStage]]
      /\ \A x \in Calls, y \in Hooks : hook'[x][y] = "starting" => hook[x][y] = "starting"
  BY <1>1 DEF HookStage
<1>3. CallTimes' /\ EndedStays
  BY <1>2, BillingFacts, TimesGoOn
<1>4. ProcTypeOK'
  BY <1>2, BillingFacts DEF ProcTypeOK
<1>5. \A x \in Runners : SoundGoesOn(x)
  BY DEF SoundGoesOn
<1>6. QED
  BY <1>3, <1>4, <1>5, StepKeeps

\* A call goes on.
LEMMA CallMoves ==
  ASSUME CreditAssumption, BillingInv, NEW c \in Calls, NEW s \in CallRecord,
         call' = [call EXCEPT ![c] = s], now' = now, hook' \in [Calls -> [Hooks -> HookStage]],
         s.connected <= now, s.stage = "ended" => s.connected <= s.ended,
         call[c].stage = "ended" => s.stage = "ended",
         \A h \in Hooks : hook'[c][h] = "starting" => s.received # Never,
         \A x \in Calls \ {c}, h \in Hooks : hook'[x][h] = "starting" => hook[x][h] = "starting"
  PROVE  CallTimes' /\ EndedStays /\ call' \in [Calls -> CallRecord]
<1>1. call \in [Calls -> CallRecord] /\ CallTimes
  BY BillingFacts DEF ProcTypeOK
<1>2. /\ call' \in [Calls -> CallRecord] /\ call'[c] = s
      /\ \A x \in Calls \ {c} : call'[x] = call[x]
  BY <1>1
<1>3. EndedStays
  BY <1>2 DEF EndedStays
<1>4. CallTimes'
  BY <1>1, <1>2 DEF CallTimes
<1>5. QED
  BY <1>2, <1>3, <1>4

\* Steps of a call that nothing else takes part in.
LEMMA CallAlone ==
  ASSUME CreditAssumption, BillingInv, NEW c \in Calls, NEW s \in CallRecord,
         call' = [call EXCEPT ![c] = s], UNCHANGED <<creditVars, hook, run, faults>>,
         s.connected <= now, s.stage = "ended" => s.connected <= s.ended,
         call[c].stage = "ended" => s.stage = "ended", s.received = call[c].received
  PROVE  BillingInv' /\ Lasting
<1>1. /\ CreditInv' /\ Lasting /\ UsageSettled' /\ CompletedRecorded' /\ now' = now
  BY CreditIdle
<1>2. /\ hook' \in [Calls -> [Hooks -> HookStage]]
      /\ \A h \in Hooks : hook'[c][h] = "starting" => s.received # Never
      /\ \A x \in Calls, h \in Hooks : hook'[x][h] = "starting" => hook[x][h] = "starting"
  BY BillingFacts DEF ProcTypeOK, CallTimes
<1>3. CallTimes' /\ EndedStays /\ call' \in [Calls -> CallRecord]
  BY <1>1, <1>2, CallMoves
<1>4. ProcTypeOK'
  BY <1>2, <1>3, BillingFacts DEF ProcTypeOK
<1>5. \A x \in Runners : SoundGoesOn(x)
  BY DEF SoundGoesOn
<1>6. QED
  BY <1>1, <1>3, <1>4, <1>5, StepKeeps

-----------------------------------------------------------------------------
(* The webhook and the call *)

LEMMA HookStepKeeps ==
  ASSUME CreditAssumption, BillingAssumption, BillingInv, NEW c \in Calls, NEW h \in Hooks,
         HookStep(c, h) \/ CrashHook(c, h)
  PROVE  BillingInv' /\ Lasting
<1>1. call[c] \in CallRecord /\ CreditInv /\ now \in 0..MaxTime /\ faults \in 0..MaxFaults
  BY BillingFacts DEF ProcTypeOK
<1>2. ASSUME NEW stage \in HookStage \ {"starting"}, GoTo(c, h, stage),
             UNCHANGED <<call, run>>, UNCHANGED creditVars, Fault \/ NoFault
      PROVE  BillingInv' /\ Lasting
  BY <1>2, CreditIdle, FaultTypes, HookMoves
<1>3. CASE Deliver(c, h)
  <2> DEFINE s == [call[c] EXCEPT !.received = IF call[c].received = Never THEN now
                                                ELSE call[c].received]
             stage == IF call[c].stage = "new" THEN "starting" ELSE "done"
  <2>1. /\ call' = [call EXCEPT ![c] = s] /\ GoTo(c, h, stage)
        /\ UNCHANGED <<creditVars, run, faults>>
    <3>1. [call EXCEPT ![c].received = IF @ = Never THEN now ELSE @] = [call EXCEPT ![c] = s]
      BY BillingFacts DEF ProcTypeOK, CallRecord
    <3> HIDE DEF s
    <3>2. QED
      BY <1>3, <3>1 DEF Deliver
  <2>2. /\ s \in CallRecord /\ s.received # Never /\ s.stage = call[c].stage
        /\ s.connected = call[c].connected /\ s.ended = call[c].ended
    BY <1>1, BillingFacts DEF CallRecord, MaybeTime, Never
  <2>3. stage \in HookStage
    BY DEF HookStage
  <2> HIDE DEF s, stage
  <2>4. /\ hook' \in [Calls -> [Hooks -> HookStage]]
        /\ \A x \in Calls \ {c}, y \in Hooks : hook'[x][y] = "starting" => hook[x][y] = "starting"
    BY <2>1, <2>3, BillingFacts DEF GoTo, ProcTypeOK
  <2>5. CreditInv' /\ Lasting /\ UsageSettled' /\ CompletedRecorded' /\ now' = now
    BY <2>1, CreditIdle
  <2>6. s.connected <= now /\ (s.stage = "ended" => s.connected <= s.ended)
    BY <2>2, BillingFacts DEF CallTimes
  <2>7. CallTimes' /\ EndedStays /\ call' \in [Calls -> CallRecord]
    <3>1. call' = [call EXCEPT ![c] = s] /\ s \in CallRecord
      BY <2>1, <2>2
    <3>2. call[c].stage = "ended" => s.stage = "ended"
      BY <2>2
    <3>3. \A y \in Hooks : hook'[c][y] = "starting" => s.received # Never
      BY <2>2
    <3>4. QED
      BY <2>4, <2>5, <2>6, <3>1, <3>2, <3>3, CallMoves
  <2>8. ProcTypeOK'
    BY <2>1, <2>4, <2>7, BillingFacts DEF ProcTypeOK
  <2>9. \A x \in Runners : SoundGoesOn(x)
    BY <2>1 DEF SoundGoesOn
  <2>10. QED
    BY <2>5, <2>7, <2>8, <2>9, StepKeeps
<1>4. CASE ReserveCredit(c, h)
  <2>1. PICK out \in {"reserved", "duplicate", "denied", "error"} :
          /\ Reserve(c, Quote, Later(call[c].received + Ttl), call[c].received, out)
          /\ \/ NoFault /\ GoTo(c, h, IF out \in {"reserved", "duplicate"} THEN "admitting"
                                      ELSE "done")
             \/ Fault /\ GoTo(c, h, "done")
    BY <1>4 DEF ReserveCredit
  <2>2. Quote \in Nat /\ Later(call[c].received + Ttl) \in Nat
    <3>1. call[c].received \in Nat /\ Ttl \in Nat /\ Quote \in Nat
      BY <1>1, <1>4, BillingFacts
         DEF ReserveCredit, CallTimes, CallRecord, MaybeTime, Never, BillingAssumption
    <3>2. call[c].received + Ttl \in Nat
      BY <3>1
    <3>3. QED
      BY <3>1, <3>2, Bounds, LaterIsTime
  <2>3. CreditInv' /\ Lasting
    BY <1>1, <2>1, <2>2, ReserveKeeps
  <2>4. UNCHANGED <<now, packs, job, usage>> /\ UNCHANGED <<call, run>>
    BY <1>4, <2>1 DEF Reserve, ReserveCredit
  <2>5. UsageSettled' /\ CompletedRecorded' /\ now' = now
    BY <2>3, <2>4, ReservationsMove
  <2>6. PICK stage \in HookStage \ {"starting"} : GoTo(c, h, stage)
    BY <2>1 DEF HookStage
  <2>7. QED
    BY <2>1, <2>3, <2>4, <2>5, <2>6, FaultTypes, HookMoves
<1>5. CASE Admit(c, h) \/ SetUpFailed(c, h)
  <2>1. PICK stage \in HookStage \ {"starting"} : GoTo(c, h, stage)
    BY <1>5 DEF Admit, SetUpFailed, HookStage
  <2>2. UNCHANGED <<call, run>> /\ UNCHANGED creditVars /\ NoFault
    BY <1>5 DEF Admit, SetUpFailed, NoFault
  <2>3. QED
    BY <1>2, <2>1, <2>2
<1>6. CASE SetUp(c, h)
  <2> DEFINE s == [call[c] EXCEPT !.stage = "open"]
  <2>1. /\ call' = [call EXCEPT ![c] = s] /\ call[c].stage # "ended"
        /\ UNCHANGED <<creditVars, run>>
    <3>1. [call EXCEPT ![c].stage = "open"] = [call EXCEPT ![c] = s]
      BY BillingFacts DEF ProcTypeOK, CallRecord
    <3> HIDE DEF s
    <3>2. QED
      BY <1>6, <3>1 DEF SetUp
  <2>2. /\ s \in CallRecord /\ s.received = call[c].received /\ s.stage = "open"
        /\ s.connected = call[c].connected
    BY <1>1 DEF CallRecord
  <2> HIDE DEF s
  <2>3. PICK stage \in HookStage \ {"starting"} : GoTo(c, h, stage) /\ (Fault \/ NoFault)
    BY <1>6 DEF SetUp, HookStage
  <2>4. /\ hook' \in [Calls -> [Hooks -> HookStage]]
        /\ \A x \in Calls, y \in Hooks : hook'[x][y] = "starting" => hook[x][y] = "starting"
    BY <2>3, BillingFacts DEF GoTo, ProcTypeOK
  <2>5. CreditInv' /\ Lasting /\ UsageSettled' /\ CompletedRecorded' /\ now' = now
    BY <2>1, CreditIdle
  <2>6. s.connected <= now /\ \A y \in Hooks : hook'[c][y] = "starting" => s.received # Never
    BY <2>2, <2>4, BillingFacts DEF CallTimes
  <2>7. CallTimes' /\ EndedStays /\ call' \in [Calls -> CallRecord]
    BY ZenonT(40), <2>1, <2>2, <2>4, <2>5, <2>6, CallMoves
  <2>8. ProcTypeOK'
    BY <2>1, <2>3, <2>4, <2>7, FaultTypes, BillingFacts DEF ProcTypeOK
  <2>9. \A x \in Runners : SoundGoesOn(x)
    BY <2>1 DEF SoundGoesOn
  <2>10. QED
    BY <2>5, <2>7, <2>8, <2>9, StepKeeps
<1>7. CASE ReleaseStarted(c, h)
  <2>1. GoTo(c, h, "done") /\ UNCHANGED <<call, run>> /\ (Fault \/ NoFault)
    BY <1>7 DEF ReleaseStarted
  <2>2. CASE UNCHANGED creditVars
    BY <1>2, <2>1, <2>2 DEF HookStage
  <2>3. ASSUME NEW out, Release(c, "-", out)
        PROVE  BillingInv' /\ Lasting
    <3>1. CreditInv' /\ Lasting
      BY <1>1, <2>3, ReleaseKeeps
    <3>2. UNCHANGED <<now, packs, job, usage>>
      BY <2>3 DEF Release
    <3>3. UsageSettled' /\ CompletedRecorded' /\ now' = now
      BY <3>1, <3>2, ReservationsMove
    <3>4. "done" \in HookStage \ {"starting"}
      BY DEF HookStage
    <3>5. QED
      BY <2>1, <3>1, <3>3, <3>4, FaultTypes, HookMoves
  <2>4. QED
    BY <1>7, <2>2, <2>3 DEF ReleaseStarted
<1>8. CASE CrashHook(c, h)
  BY <1>2, <1>8 DEF CrashHook, HookStage
<1>9. QED
  BY <1>3, <1>4, <1>5, <1>6, <1>7, <1>8 DEF HookStep

LEMMA CallStepKeeps ==
  ASSUME CreditAssumption, BillingAssumption, BillingInv, NEW c \in Calls,
         Handoff(c) \/ Drain(c) \/ Activate(c) \/ ReconcileExpiredOwner(c)
  PROVE  BillingInv' /\ Lasting
<1> DEFINE r == call[c]
<1>1. /\ r \in CallRecord /\ now \in 0..MaxTime /\ now \in Nat /\ r.connected <= now
      /\ call \in [Calls -> CallRecord]
  BY BillingFacts DEF CallTimes, ProcTypeOK
<1>2. ASSUME NEW stage \in {"handoff", "draining"}, r.stage # "ended",
             call' = [call EXCEPT ![c].stage = stage], UNCHANGED <<creditVars, hook, run, faults>>
      PROVE  BillingInv' /\ Lasting
  <2> DEFINE s == [r EXCEPT !.stage = stage]
  <2>1. call' = [call EXCEPT ![c] = s]
    BY <1>1, <1>2 DEF CallRecord
  <2>2. /\ s \in CallRecord /\ s.stage # "ended" /\ s.connected = r.connected
        /\ s.received = r.received
    BY <1>1 DEF CallRecord
  <2> HIDE DEF s
  <2>3. QED
    BY <1>1, <1>2, <2>1, <2>2, CallAlone
<1>3. CASE Handoff(c) \/ Drain(c)
  BY <1>2, <1>3 DEF Handoff, Drain, MoveTo
<1>4. CASE Activate(c)
  <2> DEFINE t == IF r.connected = Never THEN now ELSE r.connected
             s == [r EXCEPT !.stage = "open", !.connected = t]
  <2>1. call' = [call EXCEPT ![c] = s]
    BY <1>1, <1>4 DEF Activate, CallRecord
  <2>2. t \in MaybeTime /\ t <= now
    BY <1>1 DEF CallRecord, MaybeTime, Never
  <2> HIDE DEF t
  <2>3. /\ s \in CallRecord /\ s.stage # "ended" /\ s.connected = t
        /\ s.received = r.received
    BY <1>1, <2>2 DEF CallRecord
  <2>4. r.stage # "ended" /\ UNCHANGED <<creditVars, hook, run, faults>>
    BY <1>4 DEF Activate
  <2> HIDE DEF s
  <2>5. QED
    BY <2>1, <2>2, <2>3, <2>4, CallAlone
<1>5. CASE ReconcileExpiredOwner(c)
  <2> DEFINE s == [r EXCEPT !.stage = "ended", !.ended = now, !.failed = TRUE,
                            !.connected = Never]
  <2>1. call' = [call EXCEPT ![c] = s]
    BY <1>1, <1>5 DEF ReconcileExpiredOwner, CallRecord
  <2>2. /\ s \in CallRecord /\ s.connected = Never /\ s.ended = now
        /\ s.received = r.received
    BY <1>1 DEF CallRecord, MaybeTime, Never
  <2>3. r.stage # "ended" /\ UNCHANGED <<creditVars, hook, run, faults>>
    BY <1>5 DEF ReconcileExpiredOwner
  <2>4. Never <= now
    BY <1>1 DEF Never
  <2> HIDE DEF s
  <2>5. QED
    BY <2>1, <2>2, <2>3, <2>4, CallAlone
<1>6. QED
  BY <1>3, <1>4, <1>5

\* The runner of a callback has what it needs of the call that has ended.
LEMMA EndCallKeeps ==
  ASSUME CreditAssumption, BillingAssumption, BillingInv, NEW c \in Calls, NEW r \in Callbacks,
         EndCall(c, r)
  PROVE  BillingInv' /\ Lasting
<1> DEFINE w == [Idle EXCEPT !.stage = "submit", !.call = c, !.from = call[c].stage]
           s == call'[c]
<1>1. /\ call[c] \in CallRecord /\ call[c].connected <= now /\ now \in 0..MaxTime
      /\ call \in [Calls -> CallRecord] /\ run \in [Runners -> Running] /\ r \in Runners
      /\ call[c].stage = "ended" => call[c].connected <= call[c].ended
  BY BillingFacts DEF CallTimes, ProcTypeOK, Runners
<1>2. w \in Running /\ w.stage = "submit" /\ w.call = c
  <2>1. call[c].stage \in {"open", "handoff", "draining", "ended"}
    BY <1>1 DEF EndCall, CallRecord
  <2>2. 0 \in 0..MaxTime
    BY Bounds
  <2>3. QED
    BY <2>1, <2>2 DEF Idle, Running
<1>3. /\ s \in CallRecord /\ call' = [call EXCEPT ![c] = s] /\ s.stage = "ended"
      /\ s.received = call[c].received /\ s.connected = call[c].connected
      /\ s.connected <= s.ended
  <2>1. CASE UNCHANGED call /\ call[c].stage = "ended"
    BY <1>1, <2>1
  <2>2. CASE \E failed \in BOOLEAN : Ended(c, failed)
    <3>1. PICK failed \in BOOLEAN : Ended(c, failed)
      BY <2>2
    <3> DEFINE q == [call[c] EXCEPT !.stage = "ended", !.ended = now, !.failed = failed]
    <3>2. call' = [call EXCEPT ![c] = q]
      BY <1>1, <3>1 DEF Ended, CallRecord
    <3>3. /\ q \in CallRecord /\ q.stage = "ended" /\ q.ended = now
          /\ q.received = call[c].received /\ q.connected = call[c].connected
      BY <1>1 DEF CallRecord
    <3> HIDE DEF q
    <3>4. s = q
      BY <1>1, <3>2
    <3>5. QED
      BY <1>1, <3>2, <3>3, <3>4
  <2>3. QED
    BY <2>1, <2>2 DEF EndCall
<1>4. /\ run' = [run EXCEPT ![r] = w] /\ UNCHANGED <<creditVars, hook, faults>>
  BY DEF EndCall
<1> HIDE DEF w, s
<1>5. CreditInv' /\ Lasting /\ UsageSettled' /\ CompletedRecorded' /\ now' = now
  BY <1>4, CreditIdle
<1>6. /\ hook' \in [Calls -> [Hooks -> HookStage]]
      /\ \A h \in Hooks : hook'[c][h] = "starting" => s.received # Never
      /\ \A x \in Calls \ {c}, h \in Hooks : hook'[x][h] = "starting" => hook[x][h] = "starting"
  BY <1>3, <1>4, BillingFacts DEF ProcTypeOK, CallTimes
<1>7. CallTimes' /\ EndedStays /\ call' \in [Calls -> CallRecord]
  <2>1. s \in CallRecord /\ call' = [call EXCEPT ![c] = s] /\ s.connected <= now
    BY <1>1, <1>3
  <2>2. /\ s.stage = "ended" => s.connected <= s.ended
        /\ call[c].stage = "ended" => s.stage = "ended"
    BY <1>3
  <2>3. QED
    BY <1>5, <1>6, <2>1, <2>2, CallMoves
<1>8. ProcTypeOK'
  BY <1>1, <1>2, <1>4, <1>6, <1>7, BillingFacts DEF ProcTypeOK
<1>9. ASSUME NEW x \in Runners
      PROVE  SoundGoesOn(x)
  <2>1. CASE x = r
    <3>1. run'[x] = w /\ call'[c].stage = "ended"
      BY <1>1, <1>3, <1>4, <2>1
    <3>2. QED
      BY <1>2, <3>1 DEF SoundGoesOn, RunnerSound
  <2>2. CASE x # r
    BY <1>1, <1>4, <2>2 DEF SoundGoesOn
  <2>3. QED
    BY <2>1, <2>2
<1>10. QED
  BY <1>5, <1>7, <1>8, <1>9, StepKeeps

-----------------------------------------------------------------------------
(* The runners *)

Resting == {"idle", "done", "pass"}

LEMMA RestsSound ==
  ASSUME NEW w, w.stage \in Resting, NEW calls, NEW rs, NEW jobs, NEW entries
  PROVE  RunnerSound(w, calls, rs, jobs, entries)
BY DEF RunnerSound, Resting

LEMMA RestTypes ==
  ASSUME CreditAssumption, BillingInv, NEW r \in Runners
  PROVE  /\ Idle \in Running /\ Done \in Running /\ Finished(r) \in Running
         /\ Idle.stage \in Resting /\ Done.stage \in Resting /\ Finished(r).stage \in Resting
<1>1. 0 \in 0..MaxTime /\ run[r] \in Running
  BY Bounds, BillingFacts
<1>2. /\ Idle \in Running /\ Idle.stage \in Resting
      /\ Done \in Running /\ Done.stage \in Resting
  BY <1>1 DEF Idle, Done, Running, Resting
<1>3. /\ [Idle EXCEPT !.stage = "pass", !.at = run[r].at, !.due = run[r].due] \in Running
      /\ [Idle EXCEPT !.stage = "pass", !.at = run[r].at, !.due = run[r].due].stage \in Resting
  BY <1>1 DEF Idle, Running, Resting
<1>4. QED
  BY <1>2, <1>3 DEF Finished

\* A runner that turns to another stage of the same job.
LEMMA GoOnTypes ==
  ASSUME CreditAssumption, BillingInv, NEW r \in Runners,
         NEW stage \in {"settle", "record", "complete", "fail"}, GoOn(r, stage),
         run[r].stage \in {"settle", "record", "complete"}, Lasting
  PROVE  \E w \in Running :
           /\ run' = [run EXCEPT ![r] = w]
           /\ w.stage = stage /\ w.call = run[r].call /\ w.call \in Calls
           /\ w.attempt > 0 /\ job'[w.call].status # "none"
<1> DEFINE w == [run[r] EXCEPT !.stage = stage]
<1>1. /\ run[r] \in Running /\ run \in [Runners -> Running]
      /\ run[r].call \in Calls /\ run[r].attempt > 0 /\ job[run[r].call].status # "none"
  BY BillingFacts DEF ProcTypeOK, RunnerSound
<1>2. run' = [run EXCEPT ![r] = w]
  BY <1>1 DEF GoOn, Running
<1>3. /\ w \in Running /\ w.stage = stage /\ w.call = run[r].call
      /\ w.attempt = run[r].attempt
  BY <1>1 DEF Running
<1>4. job'[run[r].call].status # "none"
  BY <1>1 DEF Lasting
<1> HIDE DEF w
<1>5. QED
  BY <1>1, <1>2, <1>3, <1>4

LEMMA TerminalFactIsFact ==
  ASSUME CreditAssumption, BillingAssumption, BillingInv, NEW c \in Calls, NEW from,
         call[c].stage = "ended"
  PROVE  TerminalFact(c, from) \in Fact
<1>1. /\ call[c] \in CallRecord /\ call[c].connected <= call[c].ended
      /\ res[c].outcome \in CallOutcomes \cup {"-"}
  BY BillingFacts DEF CallTimes, CreditInv, TypeOK, Reservation
<1>2. (IF call[c].connected = Never THEN 0 ELSE call[c].ended - call[c].connected) \in Nat
  BY <1>1, BillingFacts DEF CallRecord, MaybeTime, Never
<1>3. (IF call[c].failed THEN "failed"
       ELSE IF res[c].outcome # "-" THEN res[c].outcome
       ELSE IF from = "handoff" THEN "transferred" ELSE "completed") \in CallOutcomes
  BY <1>1 DEF BillingAssumption
<1>4. QED
  BY <1>2, <1>3 DEF TerminalFact, Fact

LEMMA SubmitKeeps ==
  ASSUME CreditAssumption, BillingAssumption, BillingInv, NEW r \in Runners, Submit(r)
  PROVE  BillingInv' /\ Lasting
<1> DEFINE c == run[r].call
           fact == TerminalFact(c, run[r].from)
           w == [run[r] EXCEPT !.stage = "claim", !.at = call[c].ended]
<1>1. /\ run[r] \in Running /\ run \in [Runners -> Running] /\ c \in Calls
      /\ call[c].stage = "ended" /\ call[c] \in CallRecord
  BY BillingFacts DEF ProcTypeOK, RunnerSound, Submit
<1>2. fact \in Fact /\ call[c].ended \in Nat /\ call[c].ended \in 0..MaxTime
  BY <1>1, TerminalFactIsFact, BillingFacts DEF CallRecord
<1>3. PICK out : /\ Enqueue(c, fact, call[c].ended, out)
                 /\ run' = [run EXCEPT ![r] = Done] \/ run' = [run EXCEPT ![r] = w]
                 /\ Fault \/ NoFault
                 /\ UNCHANGED <<call, hook>>
  BY DEF Submit
<1>4. w \in Running /\ w.stage = "claim" /\ w.call \in Calls
  BY <1>1, <1>2 DEF Running
<1> HIDE DEF fact, w
<1>5. CreditInv' /\ Lasting /\ CompletesOnly({}) /\ UNCHANGED <<now, res, usage>>
  BY <1>1, <1>2, <1>3, EnqueueKeeps DEF BillingInv
<1>6. UsageSettled' /\ CompletedRecorded' /\ now' = now /\ faults' \in 0..MaxFaults
  BY <1>3, <1>5, DecidedKeeps, FaultTypes
<1>7. RunnerSound(w, call, res', job', usage')
  BY <1>4 DEF RunnerSound
<1>8. Done \in Running /\ RunnerSound(Done, call, res', job', usage')
  BY RestTypes, RestsSound
<1>9. QED
  BY <1>3, <1>4, <1>5, <1>6, <1>7, <1>8, RunnerMoves

LEMMA StartPassKeeps ==
  ASSUME CreditAssumption, BillingAssumption, BillingInv, NEW r \in Runners, StartPass(r)
  PROVE  BillingInv' /\ Lasting
<1> DEFINE due == {c \in Calls : Claimable(c, now)}
           w == [Idle EXCEPT !.stage = "pass", !.at = now, !.due = due]
<1>1. run' = [run EXCEPT ![r] = w] /\ UNCHANGED <<creditVars, call, hook, faults>>
  BY DEF StartPass
<1>2. w \in Running /\ w.stage \in Resting
  <2>1. 0 \in 0..MaxTime /\ now \in 0..MaxTime /\ due \in SUBSET Calls
    BY Bounds, BillingFacts
  <2> HIDE DEF due
  <2>2. QED
    BY <2>1 DEF Idle, Running, Resting
<1> HIDE DEF w
<1>3. CreditInv' /\ Lasting /\ UsageSettled' /\ CompletedRecorded' /\ now' = now
  BY <1>1, CreditIdle
<1>4. faults' \in 0..MaxFaults
  BY <1>1, BillingFacts DEF ProcTypeOK
<1>5. RunnerSound(w, call, res', job', usage')
  BY <1>2, RestsSound
<1>6. QED
  BY <1>1, <1>2, <1>3, <1>4, <1>5, RunnerMoves

LEMMA TryClaimKeeps ==
  ASSUME CreditAssumption, BillingAssumption, BillingInv, NEW r \in Runners, NEW c \in Calls,
         TryClaim(r, c)
  PROVE  BillingInv' /\ Lasting
<1> DEFINE claimed == [run[r] EXCEPT !.stage = "settle", !.call = c, !.due = run[r].due \ {c},
                                     !.attempt = job[c].attempts + 1]
           skipped == [run[r] EXCEPT !.due = run[r].due \ {c}]
<1>1. /\ run[r] \in Running /\ run \in [Runners -> Running]
      /\ faults' \in 0..MaxFaults /\ UNCHANGED <<call, hook>>
  BY BillingFacts DEF ProcTypeOK, TryClaim
<1>2. run[r].at \in Nat /\ run[r].due \ {c} \in SUBSET Calls
  BY <1>1, Bounds DEF Running
<1>3. CASE Claim(c, run[r].at) /\ run' = [run EXCEPT ![r] = claimed]
  <2>1. /\ CreditInv' /\ Lasting /\ CompletesOnly({}) /\ UNCHANGED <<now, res, usage>>
        /\ job'[c].status # "none" /\ job[c].attempts \in Nat
    BY <1>2, <1>3, ClaimKeeps DEF BillingInv
  <2>2. UsageSettled' /\ CompletedRecorded' /\ now' = now
    BY <2>1, DecidedKeeps
  <2>3. job[c].attempts + 1 \in Nat /\ job[c].attempts + 1 > 0
    BY <2>1
  <2>4. /\ claimed \in Running /\ claimed.stage = "settle" /\ claimed.call = c
        /\ claimed.attempt > 0
    BY <1>1, <1>2, <2>3 DEF Running
  <2> HIDE DEF claimed
  <2>5. RunnerSound(claimed, call, res', job', usage')
    BY <2>1, <2>4 DEF RunnerSound
  <2>6. QED
    BY <1>1, <1>3, <2>1, <2>2, <2>4, <2>5, RunnerMoves
<1>4. CASE /\ UNCHANGED creditVars
           /\ run' = [run EXCEPT ![r] = IF r \in Callbacks THEN Done
                                        ELSE IF skipped.due = {} THEN Idle ELSE skipped]
  <2> DEFINE w == IF r \in Callbacks THEN Done
                  ELSE IF skipped.due = {} THEN Idle ELSE skipped
  <2>1. CreditInv' /\ Lasting /\ UsageSettled' /\ CompletedRecorded' /\ now' = now
    BY <1>4, CreditIdle
  <2>2. /\ skipped \in Running /\ skipped.stage = run[r].stage /\ skipped.call = run[r].call
    BY <1>1, <1>2 DEF Running
  <2>3. RunnerSound(skipped, call, res', job', usage')
    <3>1. run[r].stage \in {"claim", "pass"}
      BY DEF TryClaim
    <3>2. run[r].stage # "pass" => run[r].call \in Calls
      BY <3>1, BillingFacts DEF RunnerSound
    <3> HIDE DEF skipped
    <3>3. QED
      BY <2>2, <3>1, <3>2 DEF RunnerSound
  <2> HIDE DEF skipped
  <2>4. w \in Running /\ RunnerSound(w, call, res', job', usage')
    BY <2>2, <2>3, RestTypes, RestsSound
  <2>5. run' = [run EXCEPT ![r] = w]
    BY <1>4
  <2> HIDE DEF w
  <2>6. QED
    BY <1>1, <2>1, <2>4, <2>5, RunnerMoves
<1>5. QED
  BY <1>3, <1>4 DEF TryClaim

\* A runner fails at its job: it goes on to say so.
LEMMA FailsKeeps ==
  ASSUME CreditAssumption, BillingAssumption, BillingInv, CreditInv', Lasting, UsageSettled',
         CompletedRecorded', now' = now, UNCHANGED <<call, hook>>, Fault \/ NoFault,
         NEW r \in Runners, run[r].stage \in {"settle", "record", "complete"}, GoOn(r, "fail")
  PROVE  BillingInv' /\ Lasting
<1>1. PICK w \in Running :
        /\ run' = [run EXCEPT ![r] = w]
        /\ w.stage = "fail" /\ w.call = run[r].call /\ w.call \in Calls
        /\ w.attempt > 0 /\ job'[w.call].status # "none"
  BY GoOnTypes
<1>2. RunnerSound(w, call, res', job', usage')
  BY <1>1 DEF RunnerSound
<1>3. QED
  BY <1>1, <1>2, FaultTypes, RunnerMoves

\* The effect of a runner is lost, and nothing else happens.
LEMMA LostKeeps ==
  ASSUME CreditAssumption, BillingAssumption, BillingInv, UNCHANGED creditVars, Fault,
         UNCHANGED <<call, hook>>, NEW r \in Runners,
         run[r].stage \in {"settle", "record", "complete"}, GoOn(r, "fail")
  PROVE  BillingInv' /\ Lasting
BY CreditIdle, FailsKeeps

\* Before the entry is recorded the reservation is settled with the facts of the job.
LEMMA SettleCallKeeps ==
  ASSUME CreditAssumption, BillingAssumption, BillingInv, NEW r \in Runners, SettleCall(r)
  PROVE  BillingInv' /\ Lasting
<1> DEFINE c == run[r].call
           fact == job[c].fact
<1>1. /\ c \in Calls /\ run[r].stage = "settle" /\ fact \in Fact /\ CreditInv
      /\ UNCHANGED <<call, hook>>
  BY BillingFacts DEF SettleCall, RunnerSound, CreditInv, JobsHaveFacts
<1>2. ASSUME NEW out \in {"ok", "error"}, Settle(c, fact, out),
             \/ NoFault /\ GoOn(r, IF out = "ok" THEN "record" ELSE "fail")
             \/ Fault /\ GoOn(r, "fail")
      PROVE  BillingInv' /\ Lasting
  <2>1. CreditInv' /\ Lasting /\ (out = "ok" => SettledAs(res'[c], fact))
    BY <1>1, <1>2, SettleKeeps DEF Settled
  <2>2. UNCHANGED <<now, packs, job, usage>>
    BY <1>2 DEF Settle, Finalize, Release, creditVars
  <2>3. UsageSettled' /\ CompletedRecorded' /\ now' = now
    BY <2>1, <2>2, ReservationsMove
  <2>4. CASE GoOn(r, "fail") /\ (Fault \/ NoFault)
    BY <1>1, <2>1, <2>3, <2>4, FailsKeeps
  <2>5. CASE GoOn(r, "record") /\ NoFault /\ out = "ok"
    <3>1. PICK w \in Running :
            /\ run' = [run EXCEPT ![r] = w]
            /\ w.stage = "record" /\ w.call = c /\ w.call \in Calls
            /\ w.attempt > 0 /\ job'[w.call].status # "none"
      BY <1>1, <2>1, <2>5, GoOnTypes
    <3>2. SettledAs(res'[c], job'[c].fact)
      BY <2>1, <2>2, <2>5
    <3>3. RunnerSound(w, call, res', job', usage')
      BY <3>1, <3>2 DEF RunnerSound
    <3>4. QED
      BY <1>1, <2>1, <2>3, <2>5, <3>1, <3>3, FaultTypes, RunnerMoves
  <2>6. QED
    BY <1>2, <2>4, <2>5
<1>3. CASE UNCHANGED creditVars /\ Fault /\ GoOn(r, "fail")
  BY <1>1, <1>3, LostKeeps
<1>4. QED
  BY <1>2, <1>3 DEF SettleCall

\* What is entered is what the credit was settled with.
LEMMA RecordCallKeeps ==
  ASSUME CreditAssumption, BillingAssumption, BillingInv, NEW r \in Runners, RecordCall(r)
  PROVE  BillingInv' /\ Lasting
<1> DEFINE c == run[r].call
           fact == job[c].fact
<1>1. /\ c \in Calls /\ run[r].stage = "record" /\ fact \in Fact /\ CreditInv
      /\ UNCHANGED <<call, hook>> /\ Settled(c, fact)
  BY BillingFacts DEF RecordCall, RunnerSound, CreditInv, JobsHaveFacts, Settled
<1>2. ASSUME NEW out \in {"ok", "error"}, RecordUsage(c, fact, out),
             \/ NoFault /\ GoOn(r, IF out = "ok" THEN "complete" ELSE "fail")
             \/ Fault /\ GoOn(r, "fail")
      PROVE  BillingInv' /\ Lasting
  <2>1. /\ CreditInv' /\ Lasting /\ UNCHANGED <<now, res, job>>
        /\ out = "ok" => usage'[c] = fact
        /\ usage'[c] \in {usage[c], fact} /\ \A x \in Calls \ {c} : usage'[x] = usage[x]
    BY <1>1, <1>2, RecordKeeps
  <2>2. UsageSettled'
    <3>1. ASSUME NEW x \in Calls, usage'[x] # NoFact
          PROVE  SettledAs(res'[x], usage'[x])
      <4>1. CASE usage'[x] = usage[x]
        BY <2>1, <3>1, <4>1 DEF BillingInv, UsageSettled, Settled
      <4>2. CASE usage'[x] # usage[x]
        <5>1. x = c /\ usage'[c] = fact
          BY <2>1, <4>2
        <5>2. QED
          BY <1>1, <2>1, <5>1 DEF Settled
      <4>3. QED
        BY <4>1, <4>2
    <3>2. QED
      BY <3>1 DEF UsageSettled, Settled
  <2>3. CompletedRecorded'
    BY <2>1 DEF BillingInv, CompletedRecorded, Lasting
  <2>4. CASE GoOn(r, "fail") /\ (Fault \/ NoFault)
    BY <1>1, <2>1, <2>2, <2>3, <2>4, FailsKeeps
  <2>5. CASE GoOn(r, "complete") /\ NoFault /\ out = "ok"
    <3>1. PICK w \in Running :
            /\ run' = [run EXCEPT ![r] = w]
            /\ w.stage = "complete" /\ w.call = c /\ w.call \in Calls
            /\ w.attempt > 0 /\ job'[w.call].status # "none"
      BY <1>1, <2>1, <2>5, GoOnTypes
    <3>2. usage'[c] = job'[c].fact
      BY <2>1, <2>5
    <3>3. RunnerSound(w, call, res', job', usage')
      BY <3>1, <3>2 DEF RunnerSound
    <3>4. QED
      BY <1>1, <2>1, <2>2, <2>3, <2>5, <3>1, <3>3, FaultTypes, RunnerMoves
  <2>6. QED
    BY <1>2, <2>4, <2>5
<1>3. CASE UNCHANGED creditVars /\ Fault /\ GoOn(r, "fail")
  BY <1>1, <1>3, LostKeeps
<1>4. QED
  BY <1>2, <1>3 DEF RecordCall

\* A job that is completed has its entry.
LEMMA CompleteJobKeeps ==
  ASSUME CreditAssumption, BillingAssumption, BillingInv, NEW r \in Runners, CompleteJob(r)
  PROVE  BillingInv' /\ Lasting
<1> DEFINE c == run[r].call
<1>1. /\ c \in Calls /\ run[r].stage = "complete" /\ CreditInv /\ UNCHANGED <<call, hook>>
      /\ usage[c] = job[c].fact /\ job[c].fact \in Fact
  BY BillingFacts DEF CompleteJob, RunnerSound, CreditInv, JobsHaveFacts
<1>2. usage[c] # NoFact
  BY <1>1, NoFactIsNoFact
<1>3. CreditInv' /\ Lasting /\ UNCHANGED <<now, res, usage>> /\ CompletesOnly({c})
  <2>1. Mark(c, run[r].attempt, "completed", 0)
    BY DEF CompleteJob, MarkCompleted
  <2>2. QED
    BY <1>1, <2>1, MarkKeeps
<1>4. UsageSettled'
  BY <1>3 DEF BillingInv, UsageSettled, Settled
<1>5. CompletedRecorded'
  BY <1>2, <1>3 DEF BillingInv, CompletedRecorded, CompletesOnly
<1>6. CASE NoFault /\ run' = [run EXCEPT ![r] = Finished(r)]
  <2>1. Finished(r) \in Running /\ RunnerSound(Finished(r), call, res', job', usage')
    BY RestTypes, RestsSound
  <2>2. QED
    BY <1>1, <1>3, <1>4, <1>5, <1>6, <2>1, FaultTypes, RunnerMoves
<1>7. CASE Fault /\ GoOn(r, "fail")
  BY <1>1, <1>3, <1>4, <1>5, <1>7, FailsKeeps
<1>8. QED
  BY <1>6, <1>7 DEF CompleteJob

LEMMA FailJobKeeps ==
  ASSUME CreditAssumption, BillingAssumption, BillingInv, NEW r \in Runners, FailJob(r)
  PROVE  BillingInv' /\ Lasting
<1> DEFINE c == run[r].call
           attempt == run[r].attempt
<1>1. /\ c \in Calls /\ CreditInv /\ UNCHANGED <<call, hook, faults>>
      /\ attempt > 0 /\ attempt \in Nat /\ run[r].at \in Nat
      /\ run' = [run EXCEPT ![r] = Finished(r)]
  BY BillingFacts, Bounds DEF FailJob, RunnerSound, Running
<1>2. Later(run[r].at + RetryDelay(attempt)) \in Nat
  <2>1. RetryDelay(attempt) \in Nat
    BY <1>1, RetryDelayIsNat
  <2>2. QED
    BY <1>1, <2>1, Bounds, LaterIsTime
<1>3. \/ Mark(c, attempt, "dead_letter", 0)
      \/ Mark(c, attempt, "pending", Later(run[r].at + RetryDelay(attempt)))
  BY DEF FailJob, MarkDeadLetter, MarkPending
<1>4. CreditInv' /\ Lasting /\ UNCHANGED <<now, res, usage>> /\ CompletesOnly({})
  BY <1>1, <1>2, <1>3, MarkKeeps
<1>5. UsageSettled' /\ CompletedRecorded' /\ now' = now
  BY <1>4, DecidedKeeps
<1>6. Finished(r) \in Running /\ RunnerSound(Finished(r), call, res', job', usage')
  BY RestTypes, RestsSound
<1>7. faults' \in 0..MaxFaults
  BY <1>1, BillingFacts DEF ProcTypeOK
<1>8. QED
  BY <1>1, <1>4, <1>5, <1>6, <1>7, RunnerMoves

LEMMA CrashRunnerKeeps ==
  ASSUME CreditAssumption, BillingAssumption, BillingInv, NEW r \in Runners, CrashRunner(r)
  PROVE  BillingInv' /\ Lasting
<1> DEFINE w == IF r \in Schedulers THEN Idle ELSE Done
<1>1. /\ run' = [run EXCEPT ![r] = w] /\ Fault /\ UNCHANGED creditVars
      /\ UNCHANGED <<call, hook>>
  BY DEF CrashRunner
<1>2. w \in Running /\ RunnerSound(w, call, res', job', usage')
  BY RestTypes, RestsSound
<1> HIDE DEF w
<1>3. QED
  BY <1>1, <1>2, CreditIdle, FaultTypes, RunnerMoves

-----------------------------------------------------------------------------
(* The processes together *)

\* The clock, a purchase, or an attempt for another call.
LEMMA AroundKeeps ==
  ASSUME CreditAssumption, BillingAssumption, BillingInv, Tick \/ Buy \/ Sweep(now),
         UNCHANGED procVars
  PROVE  BillingInv' /\ Lasting
<1>1. now \in Nat /\ now \in 0..MaxTime /\ CreditInv
  BY BillingFacts
<1>2. CreditInv' /\ Lasting /\ UNCHANGED <<job, usage>> /\ now' \in Nat /\ now <= now'
  <2>1. CASE Tick
    <3>1. CreditInv' /\ Lasting /\ UNCHANGED <<res, job, usage>> /\ now <= now'
      BY <1>1, <2>1, TickKeeps
    <3>2. now' \in Nat
      BY <1>1, <2>1 DEF Tick
    <3>3. QED
      BY <3>1, <3>2
  <2>2. CASE Buy
    BY <1>1, <2>2, BuyKeeps DEF Buy
  <2>3. CASE Sweep(now)
    BY <1>1, <2>3, SweepKeeps DEF Sweep
  <2>4. QED
    BY <2>1, <2>2, <2>3
<1>3. UsageSettled' /\ CompletedRecorded'
  <2>1. CompletesOnly({}) /\ usage' = usage
    BY <1>2 DEF CompletesOnly
  <2>2. QED
    BY <1>2, <2>1, DecidedKeeps
<1>4. UNCHANGED <<call, hook, run, faults>>
  BY DEF procVars
<1>5. CallTimes' /\ EndedStays
  BY <1>2, <1>4, TimesGoOn
<1>6. ProcTypeOK' /\ \A r \in Runners : SoundGoesOn(r)
  BY <1>4, BillingFacts DEF ProcTypeOK, SoundGoesOn
<1>7. QED
  BY <1>2, <1>3, <1>5, <1>6, StepKeeps

LEMMA BillingIdle ==
  ASSUME CreditAssumption, BillingAssumption, BillingInv, UNCHANGED vars
  PROVE  BillingInv' /\ Lasting
<1>1. UNCHANGED creditVars /\ UNCHANGED <<call, hook, run, faults>>
  BY DEF vars, procVars
<1>2. CreditInv' /\ Lasting /\ UsageSettled' /\ CompletedRecorded' /\ now' = now
  BY <1>1, CreditIdle
<1>3. now' \in Nat /\ now <= now'
  BY <1>2, BillingFacts
<1>4. CallTimes' /\ EndedStays
  BY <1>1, <1>3, TimesGoOn
<1>5. ProcTypeOK' /\ \A r \in Runners : SoundGoesOn(r)
  BY <1>1, BillingFacts DEF ProcTypeOK, SoundGoesOn
<1>6. QED
  BY <1>2, <1>4, <1>5, StepKeeps

LEMMA BillingNextKeeps ==
  ASSUME CreditAssumption, BillingAssumption, BillingInv, BillingNext
  PROVE  BillingInv' /\ Lasting
<1>1. ASSUME NEW r \in Runners, RunnerStep(r) \/ CrashRunner(r)
      PROVE  BillingInv' /\ Lasting
  BY <1>1, SubmitKeeps, StartPassKeeps, TryClaimKeeps, SettleCallKeeps, RecordCallKeeps,
     CompleteJobKeeps, FailJobKeeps, CrashRunnerKeeps DEF RunnerStep
<1>2. ASSUME NEW c \in Calls,
             \/ Handoff(c) \/ Drain(c) \/ Activate(c) \/ ReconcileExpiredOwner(c)
             \/ \E h \in Hooks : HookStep(c, h) \/ CrashHook(c, h)
             \/ \E r \in Callbacks : EndCall(c, r)
      PROVE  BillingInv' /\ Lasting
  BY <1>2, CallStepKeeps, HookStepKeeps, EndCallKeeps
<1>3. CASE (Tick \/ Buy \/ Sweep(now)) /\ UNCHANGED procVars
  BY <1>3, AroundKeeps
<1>4. QED
  BY <1>1, <1>2, <1>3 DEF BillingNext

LEMMA BillingInitKeeps ==
  ASSUME CreditAssumption, BillingAssumption, BillingInit
  PROVE  BillingInv
<1>1. CreditInv
  BY CreditInit DEF BillingInit
<1>2. /\ now = 0 /\ MaxTime \in Nat /\ MaxFaults \in Nat
      /\ \A c \in Calls : job[c] = NoJob /\ usage[c] = NoFact
  BY Bounds DEF BillingInit, Init, BillingAssumption
<1>3. UsageSettled /\ CompletedRecorded
  BY <1>2 DEF UsageSettled, CompletedRecorded, NoJob
<1>4. \A c \in Calls :
        /\ call[c] = [stage |-> "new", received |-> Never, connected |-> Never, ended |-> 0,
                      failed |-> FALSE]
        /\ \A h \in Hooks : hook[c][h] = "idle"
  BY DEF BillingInit
<1>5. CallTimes
  <2>1. Never <= now
    BY <1>2 DEF Never
  <2>2. QED
    BY <1>4, <2>1 DEF CallTimes
<1>6. Idle \in Running /\ Idle.stage \in Resting
  <2>1. 0 \in 0..MaxTime
    BY <1>2
  <2>2. QED
    BY <2>1 DEF Idle, Running, Resting
<1>7. RunnersSound
  BY <1>6, RestsSound DEF BillingInit, RunnersSound
<1>8. ProcTypeOK
  <2>1. [stage |-> "new", received |-> Never, connected |-> Never, ended |-> 0,
         failed |-> FALSE] \in CallRecord
    BY <1>2 DEF CallRecord, MaybeTime, Never
  <2>2. "idle" \in HookStage /\ 0 \in 0..MaxFaults
    BY <1>2 DEF HookStage
  <2>3. QED
    BY <1>6, <2>1, <2>2 DEF BillingInit, ProcTypeOK
<1>9. QED
  BY <1>1, <1>3, <1>5, <1>7, <1>8, ProcTypes DEF BillingInv, CreditInv

\* The invariant of the processes: with whatever deliveries, retries and crashes.
THEOREM BillingInvariant == BillingSpec => []BillingInv
<1>1. BillingInit => BillingInv
  BY CreditAssumption, BillingAssumption, BillingInitKeeps
<1>2. BillingInv /\ [BillingNext]_vars => BillingInv'
  BY CreditAssumption, BillingAssumption, BillingNextKeeps, BillingIdle
<1>3. QED
  BY <1>1, <1>2, PTL DEF BillingSpec

\* Every variable keeps its type, for any bounds and any number of processes.
THEOREM BillingTypeCorrect == BillingSpec => []BillingTypeOK
<1>1. BillingInv => BillingTypeOK
  BY DEF BillingInv
<1>2. QED
  BY <1>1, BillingInvariant, PTL

\* What the ledger says of a call is what its credit was settled with, whichever of its
\* runners got there, retried or crashed; and no job is completed before both are done.
THEOREM SettlementsAgree == BillingSpec => []SettlementAgrees
<1>1. BillingInv => SettlementAgrees
  BY DEF BillingInv, UsageSettled, CompletedRecorded, Settled, SettledAs, SettlementAgrees
<1>2. QED
  BY <1>1, BillingInvariant, PTL

\* The counter of the account is the sum of the open reservations among all processes.
THEOREM BillingAccountIsSum == BillingSpec => []AccountIsSum
<1>1. BillingInv => AccountIsSum
  BY DEF BillingInv, CreditInv
<1>2. QED
  BY <1>1, BillingInvariant, PTL

\* The processes refund nothing, and so all that they hold reserved is covered.
THEOREM BillingReservationsCovered == BillingSpec => []ReservationsCovered
<1>1. BillingInv => ReservationsCovered
  BY DEF BillingInv, CreditInv
<1>2. QED
  BY <1>1, BillingInvariant, PTL

\* No process takes back what another has decided of a call, however they overlap, retry or
\* crash: a closed reservation, the facts of a job, or a ledger entry.
THEOREM ProcessesLetDecisionsStand == BillingSpec => [][Lasting]_vars
<1>1. BillingInv /\ [BillingNext]_vars => [Lasting]_vars
  BY CreditAssumption, BillingAssumption, BillingNextKeeps
<1>2. QED
  BY <1>1, BillingInvariant, PTL DEF BillingSpec

-----------------------------------------------------------------------------
(* The outbox *)

PassSteps == {"idle", "recover", "claim", "guard", "send", "delivered", "failed"}
PassRecord == [at : PassSteps, batch : Seq(Claimed)]
RowRecord ==
  [charge : BOOLEAN, status : {"pending", "processing", "delivered", "dead_letter"},
   attempts : 0..DeliveryAttempts, due : BOOLEAN]

\* The claims of promoted events.
Chargeable == {c \in Claimed : row[c.of].charge}

HeldMayBeCharged == \A d \in Dispatchers : pass[d].batch \in Seq(Chargeable)

ReportedIsTaken ==
  \A d \in Dispatchers : pass[d].at = "delivered" => Current(d).of \in polar

LateIsLast ==
  \A d \in Dispatchers : late[d] > 0 => stopped /\ late[d] = 1 /\ pass[d].at # "send"

OutboxShape == OutboxTypeOK /\ pass \in [Dispatchers -> PassRecord]

OutboxInv ==
  OutboxShape /\ HeldMayBeCharged /\ ReportedIsTaken /\ LateIsLast /\ ChargedAsAllowed

-----------------------------------------------------------------------------
(* What a step may do to the rows, to one pass and to the rest *)

\* What no step undoes of the rows: a promotion and a delivery; and it is recorded of
\* what Polar has taken only.
RowMoves ==
  /\ row' \in [Events -> RowRecord]
  /\ \A e \in Events :
       /\ row[e].charge => row'[e].charge
       /\ row[e].status = "delivered" => row'[e].status = "delivered"
       /\ row'[e].status = "delivered" => row[e].status = "delivered" \/ e \in polar

\* A pass goes on as r, which holds what it has left of its batch.
PassMoves(d, r) ==
  /\ r \in PassRecord /\ Len(r.batch) <= BatchSize
  /\ pass' = [pass EXCEPT ![d] = r]
  /\ r.batch \in Seq(Chargeable')
  /\ r.at \in {"send", "delivered", "failed"} => r.batch # <<>>
  /\ r.at = "delivered" => Head(r.batch).of \in polar'
  /\ late'[d] > 0 => stopped' /\ late'[d] = 1 /\ r.at # "send"

\* What everybody sees: nobody forgets a stop or what Polar has taken.
SharedMoves ==
  /\ stopped' \in BOOLEAN /\ (stopped => stopped')
  /\ polar' \subseteq Events /\ polar \subseteq polar'
  /\ late' \in [Dispatchers -> 0..2] /\ outboxFaults' \in 0..MaxOutboxFaults

\* The parts of the invariant, by the name of this module.
LEMMA OutboxTypes ==
  ASSUME OutboxInv
  PROVE  /\ row \in [Events -> RowRecord] /\ pass \in [Dispatchers -> PassRecord]
         /\ stopped \in BOOLEAN /\ polar \subseteq Events
         /\ late \in [Dispatchers -> 0..2] /\ outboxFaults \in 0..MaxOutboxFaults
         /\ \A d \in Dispatchers :
              /\ pass[d].at \in PassSteps /\ pass[d].batch \in Seq(Claimed)
              /\ Len(pass[d].batch) <= BatchSize
              /\ pass[d].at \in {"send", "delivered", "failed"} => pass[d].batch # <<>>
              /\ pass[d].batch \in Seq(Chargeable)
BY DEF OutboxInv, OutboxShape, OutboxTypeOK, RowRecord, PassRecord, HeldMayBeCharged

\* What may be charged stays so.
LEMMA ChargeableGrows ==
  ASSUME RowMoves, NEW batch \in Seq(Chargeable)
  PROVE  batch \in Seq(Chargeable')
<1>1. Chargeable \subseteq Chargeable'
  BY DEF RowMoves, Chargeable, Claimed
<1>2. QED
  BY <1>1, SeqMonotonic

\* The invariant after a step, when no pass moved.
LEMMA KeptByRows ==
  ASSUME OutboxInv, RowMoves, SharedMoves, UNCHANGED <<pass, late>>, polar' = polar
  PROVE  OutboxInv'
<1>1. OutboxShape'
  BY OutboxTypes
  DEF RowMoves, SharedMoves, OutboxShape, OutboxTypeOK, RowRecord, PassRecord, PassSteps
<1>2. HeldMayBeCharged'
  BY OutboxTypes, ChargeableGrows DEF HeldMayBeCharged
<1>3. ReportedIsTaken' /\ LateIsLast'
  BY DEF OutboxInv, ReportedIsTaken, LateIsLast, Current, SharedMoves
<1>4. ChargedAsAllowed'
  BY OutboxTypes DEF OutboxInv, ChargedAsAllowed, RowMoves
<1>5. QED
  BY <1>1, <1>2, <1>3, <1>4 DEF OutboxInv

\* The invariant after a step of one pass.
LEMMA KeptByPass ==
  ASSUME OutboxInv, RowMoves, SharedMoves, NEW d \in Dispatchers, NEW r, PassMoves(d, r),
         \A x \in Dispatchers \ {d} : late'[x] = late[x],
         \A e \in polar' : row'[e].charge
  PROVE  OutboxInv'
<1>1. /\ pass' \in [Dispatchers -> PassRecord] /\ pass'[d] = r
      /\ \A x \in Dispatchers \ {d} : pass'[x] = pass[x]
  BY OutboxTypes DEF PassMoves
<1>2. OutboxShape'
  <2>1. ASSUME NEW x \in Dispatchers
        PROVE  /\ pass'[x].at \in PassSteps /\ pass'[x].batch \in Seq(Claimed)
               /\ Len(pass'[x].batch) <= BatchSize
               /\ pass'[x].at \in {"send", "delivered", "failed"} => pass'[x].batch # <<>>
    <3>1. CASE x = d
      BY <1>1, <3>1 DEF PassMoves, PassRecord
    <3>2. CASE x # d
      BY <1>1, <3>2, OutboxTypes
    <3>3. QED
      BY <3>1, <3>2
  <2>2. QED
    BY <1>1, <2>1 DEF RowMoves, SharedMoves, OutboxShape, OutboxTypeOK, RowRecord, PassSteps
<1>3. HeldMayBeCharged'
  <2>1. ASSUME NEW x \in Dispatchers
        PROVE  pass'[x].batch \in Seq(Chargeable')
    <3>1. CASE x = d
      BY <1>1, <3>1 DEF PassMoves
    <3>2. CASE x # d
      BY <1>1, <3>2, OutboxTypes, ChargeableGrows
    <3>3. QED
      BY <3>1, <3>2
  <2>2. QED
    BY <2>1 DEF HeldMayBeCharged
<1>4. ReportedIsTaken'
  BY <1>1 DEF OutboxInv, ReportedIsTaken, Current, PassMoves, SharedMoves
<1>5. LateIsLast'
  BY <1>1 DEF OutboxInv, LateIsLast, PassMoves, SharedMoves
<1>6. ChargedAsAllowed'
  <2>1. \A x \in Dispatchers : late'[x] <= 1
    BY <1>5 DEF LateIsLast, SharedMoves
  <2>2. QED
    BY <2>1 DEF OutboxInv, ChargedAsAllowed, RowMoves, SharedMoves
<1>7. QED
  BY <1>2, <1>3, <1>4, <1>5, <1>6 DEF OutboxInv

-----------------------------------------------------------------------------
(* The three ways in which a pass goes on *)

LEMMA GoesMoves ==
  ASSUME OutboxInv, RowMoves, NEW d \in Dispatchers, NEW step \in PassSteps, Goes(d, step),
         step \in {"send", "delivered", "failed"} => pass[d].batch # <<>>,
         step = "delivered" => Current(d).of \in polar',
         late'[d] > 0 => stopped' /\ late'[d] = 1 /\ step # "send"
  PROVE  PassMoves(d, [pass[d] EXCEPT !.at = step])
<1> DEFINE r == [pass[d] EXCEPT !.at = step]
<1>1. r \in PassRecord /\ r.at = step /\ r.batch = pass[d].batch
  BY OutboxTypes DEF PassRecord
<1>2. r.batch \in Seq(Chargeable') /\ Len(r.batch) <= BatchSize
  BY <1>1, OutboxTypes, ChargeableGrows
<1>3. pass' = [pass EXCEPT ![d] = r]
  BY OutboxTypes DEF Goes
<1> HIDE DEF r
<1>4. PassMoves(d, r)
  BY <1>1, <1>2, <1>3 DEF PassMoves, Current
<1>5. QED
  BY <1>4 DEF r

LEMMA StopsMoves ==
  ASSUME OutboxAssumption, OutboxInv, RowMoves, SharedMoves, NEW d \in Dispatchers, Stops(d),
         late' = late
  PROVE  PassMoves(d, NoPass)
<1>1. NoPass \in PassRecord /\ NoPass.at = "idle" /\ NoPass.batch = <<>>
  BY DEF NoPass, PassRecord, PassSteps
<1>2. NoPass.batch \in Seq(Chargeable') /\ Len(NoPass.batch) <= BatchSize
  BY <1>1 DEF OutboxAssumption
<1>3. late'[d] > 0 => stopped' /\ late'[d] = 1
  BY DEF OutboxInv, LateIsLast, SharedMoves
<1>4. QED
  BY <1>1, <1>2, <1>3 DEF PassMoves, Stops

LEMMA NextMoves ==
  ASSUME OutboxAssumption, OutboxInv, RowMoves, SharedMoves, NEW d \in Dispatchers,
         GoesToNext(d), pass[d].batch # <<>>, late' = late
  PROVE  PassMoves(d, [at |-> "guard", batch |-> Tail(pass[d].batch)])
<1> DEFINE r == [at |-> "guard", batch |-> Tail(pass[d].batch)]
<1>1. /\ pass[d].batch \in Seq(Chargeable') /\ pass[d].batch \in Seq(Claimed)
      /\ Len(pass[d].batch) <= BatchSize
  BY OutboxTypes, ChargeableGrows
<1>2. /\ Tail(pass[d].batch) \in Seq(Chargeable') /\ Tail(pass[d].batch) \in Seq(Claimed)
      /\ Len(Tail(pass[d].batch)) = Len(pass[d].batch) - 1
  BY <1>1, HeadTailProperties
<1>3. Len(Tail(pass[d].batch)) <= BatchSize
  BY <1>1, <1>2 DEF OutboxAssumption
<1>4. r \in PassRecord
  BY <1>2 DEF PassRecord, PassSteps
<1>5. late'[d] > 0 => stopped' /\ late'[d] = 1
  BY DEF OutboxInv, LateIsLast, SharedMoves
<1>6. pass' = [pass EXCEPT ![d] = r]
  BY OutboxTypes DEF GoesToNext
<1>7. QED
  BY <1>2, <1>3, <1>4, <1>5, <1>6 DEF PassMoves

\* The event a pass is at is a claim of a promoted event.
LEMMA CurrentIsClaimed ==
  ASSUME OutboxInv, NEW d \in Dispatchers, pass[d].batch # <<>>
  PROVE  /\ Current(d).of \in Events /\ row[Current(d).of].charge
         /\ Current(d).got \in 1..DeliveryAttempts
<1>1. Head(pass[d].batch) \in Chargeable
  BY OutboxTypes, HeadTailProperties
<1>2. QED
  BY <1>1 DEF Chargeable, Claimed, Current

\* A step that leaves the rows alone moves them soundly.
LEMMA RowsKept ==
  ASSUME OutboxInv, row' = row
  PROVE  RowMoves
BY OutboxTypes DEF RowMoves

\* What is shared stays, but for the faults.
LEMMA SharedKept ==
  ASSUME OutboxAssumption, OutboxInv, UNCHANGED <<stopped, polar, late>>,
         NoOutboxFault \/ OutboxFault
  PROVE  SharedMoves
<1>1. outboxFaults' \in 0..MaxOutboxFaults
  BY OutboxTypes DEF OutboxAssumption, NoOutboxFault, OutboxFault
<1>2. QED
  BY <1>1, OutboxTypes DEF SharedMoves

-----------------------------------------------------------------------------
(* The steps of a pass *)

\* A step that changes nothing but where one pass stands.
LEMMA StepOfPass ==
  ASSUME OutboxAssumption, OutboxInv, NEW d \in Dispatchers, NEW r, PassMoves(d, r),
         RowMoves, UNCHANGED <<stopped, polar, late>>, NoOutboxFault \/ OutboxFault
  PROVE  OutboxInv'
<1>1. \A e \in polar' : row'[e].charge
  BY OutboxTypes DEF OutboxInv, ChargedAsAllowed, RowMoves
<1>2. QED
  BY <1>1, SharedKept, KeptByPass

LEMMA BeginAndGuardKeep ==
  ASSUME OutboxAssumption, OutboxInv, NEW d \in Dispatchers,
         PassBegins(d) \/ Guard(d) \/ DispatcherCrashes(d)
  PROVE  OutboxInv' /\ RowMoves
<1>1. /\ UNCHANGED <<row, stopped, polar, late>> /\ (NoOutboxFault \/ OutboxFault)
      /\ RowMoves /\ SharedMoves
  <2>1. UNCHANGED <<row, stopped, polar, late>> /\ (NoOutboxFault \/ OutboxFault)
    BY DEF PassBegins, Guard, DispatcherCrashes
  <2>2. QED
    BY <2>1, RowsKept, SharedKept
<1>2. late'[d] > 0 => stopped' /\ late'[d] = 1
  BY <1>1 DEF OutboxInv, LateIsLast
<1>3. CASE PassBegins(d)
  <2>1. PassMoves(d, [pass[d] EXCEPT !.at = "recover"])
    BY <1>1, <1>2, <1>3, GoesMoves DEF PassBegins, PassSteps
  <2>2. QED
    BY <1>1, <2>1, StepOfPass
<1>4. CASE Guard(d) /\ Goes(d, "send") /\ pass[d].batch # <<>> /\ ~stopped
  <2>1. PassMoves(d, [pass[d] EXCEPT !.at = "send"])
    BY <1>1, <1>2, <1>4, GoesMoves DEF PassSteps
  <2>2. QED
    BY <1>1, <2>1, StepOfPass
<1>5. CASE Stops(d)
  <2>1. PassMoves(d, NoPass)
    BY <1>1, <1>5, StopsMoves
  <2>2. QED
    BY <1>1, <2>1, StepOfPass
<1>6. QED
  BY <1>1, <1>3, <1>4, <1>5 DEF Guard, DeliveryAllowed, DispatcherCrashes

LEMMA RecoverKeeps ==
  ASSUME OutboxAssumption, OutboxInv, NEW d \in Dispatchers, RecoverStale(d)
  PROVE  OutboxInv' /\ RowMoves
<1>1. UNCHANGED <<stopped, polar, late>> /\ NoOutboxFault /\ Goes(d, "claim")
  BY DEF RecoverStale
<1>2. RowMoves
  <2>1. row' = [e \in Events |-> IF row[e].status = "processing" /\ row[e].due
                                 THEN [row[e] EXCEPT !.status = "pending"] ELSE row[e]]
    BY DEF RecoverStale
  <2>2. ASSUME NEW e \in Events
        PROVE  /\ row'[e] \in RowRecord
               /\ row[e].charge => row'[e].charge
               /\ row[e].status = "delivered" => row'[e].status = "delivered"
               /\ row'[e].status = "delivered" => row[e].status = "delivered"
    BY <2>1, OutboxTypes DEF RowRecord
  <2>3. QED
    BY <2>1, <2>2 DEF RowMoves
<1>3. late'[d] > 0 => stopped' /\ late'[d] = 1
  BY <1>1 DEF OutboxInv, LateIsLast
<1>4. PassMoves(d, [pass[d] EXCEPT !.at = "claim"])
  BY <1>1, <1>2, <1>3, GoesMoves DEF PassSteps
<1>5. QED
  BY <1>1, <1>2, <1>4, StepOfPass

LEMMA SendKeeps ==
  ASSUME OutboxAssumption, OutboxInv, NEW d \in Dispatchers, Send(d)
  PROVE  OutboxInv' /\ RowMoves
<1>1. /\ pass[d].at = "send" /\ UNCHANGED <<row, stopped>> /\ NoOutboxFault
      /\ late' = [late EXCEPT ![d] = IF stopped THEN Min({@ + 1, 2}) ELSE @]
  BY DEF Send
<1>2. pass[d].batch # <<>> /\ Current(d).of \in Events /\ row[Current(d).of].charge
  BY <1>1, OutboxTypes, CurrentIsClaimed
<1>3. late[d] = 0
  BY <1>1, OutboxTypes DEF OutboxInv, LateIsLast
<1>4. Min({0 + 1, 2}) = 1
  BY DEF Min
<1>5. /\ late' \in [Dispatchers -> 0..2] /\ late'[d] = IF stopped THEN 1 ELSE 0
      /\ \A x \in Dispatchers \ {d} : late'[x] = late[x]
      /\ late'[d] > 0 => stopped' /\ late'[d] = 1
  BY <1>1, <1>3, <1>4, OutboxTypes
<1>6. RowMoves
  BY <1>1, RowsKept
<1>7. polar' \in {polar, polar \cup {Current(d).of}}
  BY DEF Send
<1>8. SharedMoves
  BY <1>1, <1>2, <1>5, <1>7, OutboxTypes DEF SharedMoves, NoOutboxFault
<1>9. \A e \in polar' : row'[e].charge
  BY <1>1, <1>2, <1>7 DEF OutboxInv, ChargedAsAllowed
<1>10. CASE Goes(d, "delivered") /\ polar' = polar \cup {Current(d).of}
  <2>1. PassMoves(d, [pass[d] EXCEPT !.at = "delivered"])
    BY <1>2, <1>5, <1>6, <1>10, GoesMoves DEF PassSteps
  <2>2. QED
    BY <1>5, <1>6, <1>8, <1>9, <2>1, KeptByPass
<1>11. CASE Goes(d, "failed")
  <2>1. PassMoves(d, [pass[d] EXCEPT !.at = "failed"])
    BY <1>2, <1>5, <1>6, <1>11, GoesMoves DEF PassSteps
  <2>2. QED
    BY <1>5, <1>6, <1>8, <1>9, <2>1, KeptByPass
<1>12. QED
  BY <1>6, <1>10, <1>11 DEF Send

\* A claim of up to BatchSize promoted events that are due.
LEMMA BatchClaimKeeps ==
  ASSUME OutboxAssumption, OutboxInv, NEW d \in Dispatchers, ClaimDue(d)
  PROVE  OutboxInv' /\ RowMoves
<1> DEFINE due == {e \in Events : Deliverable(e)}
           counted(e) == Min({row[e].attempts + 1, DeliveryAttempts})
           n == Min({BatchSize, Cardinality(due)})
<1>1. PICK batch \in kSubset(n, due) : \E order \in SetToSeqs(batch) :
        /\ row' = [e \in Events |->
             IF e \in batch
             THEN [row[e] EXCEPT !.status = "processing", !.attempts = counted(e), !.due = FALSE]
             ELSE row[e]]
        /\ pass' = [pass EXCEPT ![d] = [at |-> "guard", batch |->
             [i \in DOMAIN order |-> [of |-> order[i], got |-> counted(order[i])]]]]
  BY DEF ClaimDue
<1>2. PICK order \in SetToSeqs(batch) :
        /\ row' = [e \in Events |->
             IF e \in batch
             THEN [row[e] EXCEPT !.status = "processing", !.attempts = counted(e), !.due = FALSE]
             ELSE row[e]]
        /\ pass' = [pass EXCEPT ![d] = [at |-> "guard", batch |->
             [i \in DOMAIN order |-> [of |-> order[i], got |-> counted(order[i])]]]]
  BY <1>1
<1>3. UNCHANGED <<stopped, polar, late>> /\ NoOutboxFault
  BY DEF ClaimDue
<1>4. /\ IsFiniteSet(due) /\ Cardinality(due) \in Nat
      /\ BatchSize \in Nat \ {0} /\ DeliveryAttempts \in Nat \ {0}
  BY FS_Subset, FS_CardinalityType DEF OutboxAssumption
<1>5. n \in Nat /\ n <= BatchSize
  <2> HIDE DEF due
  <2>1. \E x \in {BatchSize, Cardinality(due)} : \A y \in {BatchSize, Cardinality(due)} : x <= y
    BY <1>4
  <2>2. /\ n \in {BatchSize, Cardinality(due)}
        /\ \A y \in {BatchSize, Cardinality(due)} : n <= y
    BY <2>1 DEF Min
  <2>3. QED
    BY <1>4, <2>2
<1>6. batch \subseteq due /\ Cardinality(batch) = n
  BY <1>1 DEF kSubset
<1>7. ASSUME NEW e \in Events
      PROVE  counted(e) \in 1..DeliveryAttempts
  <2>1. row[e].attempts \in Nat
    BY OutboxTypes DEF RowRecord
  <2>2. \E x \in {row[e].attempts + 1, DeliveryAttempts} :
          \A y \in {row[e].attempts + 1, DeliveryAttempts} : x <= y
    BY <1>4, <2>1
  <2>3. /\ counted(e) \in {row[e].attempts + 1, DeliveryAttempts}
        /\ \A y \in {row[e].attempts + 1, DeliveryAttempts} : counted(e) <= y
    BY <2>2 DEF Min
  <2>4. QED
    BY <1>4, <2>1, <2>3
<1> HIDE DEF counted, n
<1>8. ASSUME NEW e \in Events
      PROVE  /\ row'[e] \in RowRecord
             /\ row[e].charge => row'[e].charge
             /\ row[e].status = "delivered" => row'[e].status = "delivered"
             /\ row'[e].status = "delivered" => row[e].status = "delivered"
  <2>1. CASE e \in batch
    <3>1. /\ row'[e] = [row[e] EXCEPT !.status = "processing", !.attempts = counted(e),
                                       !.due = FALSE]
          /\ row[e].status = "pending"
      BY <1>2, <1>6, <2>1 DEF Deliverable
    <3>2. row[e] \in RowRecord /\ counted(e) \in 0..DeliveryAttempts
      BY <1>4, <1>7, OutboxTypes
    <3>3. QED
      BY <3>1, <3>2 DEF RowRecord
  <2>2. CASE e \notin batch
    BY <1>2, <2>2, OutboxTypes
  <2>3. QED
    BY <2>1, <2>2
<1>9. RowMoves
  BY <1>2, <1>8 DEF RowMoves
<1>10. order \in [1..n -> batch]
  BY <1>2, <1>6 DEF SetToSeqs
<1> DEFINE claims == [i \in DOMAIN order |-> [of |-> order[i], got |-> counted(order[i])]]
           r == [at |-> "guard", batch |-> claims]
<1>11. claims \in [1..n -> Claimed] /\ claims \in [1..n -> Chargeable']
  <2>1. ASSUME NEW i \in 1..n
        PROVE  claims[i] \in Claimed /\ claims[i] \in Chargeable'
    <3>1. order[i] \in Events /\ row[order[i]].charge
      BY <1>6, <1>10 DEF Deliverable
    <3>2. claims[i] = [of |-> order[i], got |-> counted(order[i])]
      BY <1>10
    <3>3. claims[i] \in Claimed
      BY <1>7, <3>1, <3>2 DEF Claimed
    <3>4. QED
      BY <1>8, <3>1, <3>2, <3>3 DEF Chargeable
  <2>2. QED
    BY <1>10, <2>1
<1>12. /\ claims \in Seq(Claimed) /\ claims \in Seq(Chargeable')
       /\ Len(claims) = n
  <2> HIDE DEF claims
  <2>1. claims \in Seq(Claimed) /\ claims \in Seq(Chargeable')
    BY <1>5, <1>11, SeqDef
  <2>2. QED
    BY <1>5, <1>11, <2>1, LenProperties
<1>13. late'[d] > 0 => stopped' /\ late'[d] = 1
  BY <1>3 DEF OutboxInv, LateIsLast
<1>14. PassMoves(d, r)
  <2>1. pass' = [pass EXCEPT ![d] = r]
    BY <1>2
  <2> HIDE DEF claims
  <2>2. QED
    BY <1>5, <1>12, <1>13, <2>1 DEF PassMoves, PassRecord, PassSteps
<1>15. QED
  BY <1>3, <1>9, <1>14, StepOfPass

\* One row is changed: it stays promoted and delivered if it was, and it becomes delivered
\* only when Polar has it.
LEMMA OneRowMoves ==
  ASSUME OutboxInv, NEW e \in Events, NEW r \in RowRecord, row' = [row EXCEPT ![e] = r],
         row[e].charge => r.charge,
         row[e].status = "delivered" => r.status = "delivered",
         r.status = "delivered" => row[e].status = "delivered" \/ e \in polar
  PROVE  RowMoves
BY OutboxTypes DEF RowMoves

LEMMA MarkDeliveredKeeps ==
  ASSUME OutboxAssumption, OutboxInv, NEW d \in Dispatchers, MarkDelivered(d)
  PROVE  OutboxInv' /\ RowMoves
<1> DEFINE e == Current(d).of
<1>1. /\ pass[d].at = "delivered" /\ UNCHANGED <<stopped, polar, late>>
      /\ NoOutboxFault \/ OutboxFault
  BY DEF MarkDelivered
<1>2. pass[d].batch # <<>> /\ e \in Events /\ e \in polar
  BY <1>1, OutboxTypes, CurrentIsClaimed DEF OutboxInv, ReportedIsTaken
<1>3. RowMoves
  <2>1. CASE row' = [row EXCEPT ![e].status = "delivered"]
    <3> DEFINE r == [row[e] EXCEPT !.status = "delivered"]
    <3>1. /\ r \in RowRecord /\ r.status = "delivered" /\ r.charge = row[e].charge
      BY <1>2, OutboxTypes DEF RowRecord
    <3>2. row' = [row EXCEPT ![e] = r]
      BY <2>1
    <3> HIDE DEF r, e
    <3>3. QED
      BY <1>2, <3>1, <3>2, OneRowMoves
  <2>2. CASE row' = row
    BY <2>2, RowsKept
  <2>3. QED
    BY <2>1, <2>2 DEF MarkDelivered
<1>4. SharedMoves
  BY <1>1, SharedKept
<1>5. late'[d] > 0 => stopped' /\ late'[d] = 1
  BY <1>1 DEF OutboxInv, LateIsLast
<1>6. CASE GoesToNext(d)
  <2>1. PassMoves(d, [at |-> "guard", batch |-> Tail(pass[d].batch)])
    BY <1>1, <1>2, <1>3, <1>4, <1>6, NextMoves
  <2>2. QED
    BY <1>1, <1>3, <2>1, StepOfPass
<1>7. CASE Goes(d, "failed")
  <2>1. PassMoves(d, [pass[d] EXCEPT !.at = "failed"])
    BY <1>2, <1>3, <1>5, <1>7, GoesMoves DEF PassSteps
  <2>2. QED
    BY <1>1, <1>3, <2>1, StepOfPass
<1>8. QED
  BY <1>3, <1>6, <1>7 DEF MarkDelivered

LEMMA MarkFailedKeeps ==
  ASSUME OutboxAssumption, OutboxInv, NEW d \in Dispatchers, MarkFailed(d)
  PROVE  OutboxInv' /\ RowMoves
<1> DEFINE e == Current(d).of
<1>1. /\ pass[d].at = "failed" /\ UNCHANGED <<stopped, polar, late>>
      /\ NoOutboxFault \/ OutboxFault
  BY DEF MarkFailed
<1>2. pass[d].batch # <<>> /\ e \in Events
  BY <1>1, OutboxTypes, CurrentIsClaimed
<1>3. RowMoves
  <2>1. CASE row[e].status = "processing" /\ row' = AfterFailedAttempt(d)
    <3> DEFINE outcome == IF Current(d).got >= DeliveryAttempts THEN "dead_letter" ELSE "pending"
               r == [row[e] EXCEPT !.due = FALSE, !.status = outcome]
    <3>1. outcome \in {"dead_letter", "pending"}
      OBVIOUS
    <3> HIDE DEF outcome
    <3>2. /\ r \in RowRecord /\ r.status = outcome /\ r.charge = row[e].charge
      BY ZenonT(40), <1>2, <3>1, OutboxTypes DEF RowRecord
    <3>3. row' = [row EXCEPT ![e] = r]
      BY <1>2, <2>1, OutboxTypes DEF AfterFailedAttempt, outcome
    <3> HIDE DEF r, e
    <3>4. QED
      BY <1>2, <2>1, <3>1, <3>2, <3>3, OneRowMoves
  <2>2. CASE row' = row
    BY <2>2, RowsKept
  <2>3. QED
    BY <2>1, <2>2 DEF MarkFailed
<1>4. SharedMoves
  BY <1>1, SharedKept
<1>5. CASE GoesToNext(d)
  <2>1. PassMoves(d, [at |-> "guard", batch |-> Tail(pass[d].batch)])
    BY <1>1, <1>2, <1>3, <1>4, <1>5, NextMoves
  <2>2. QED
    BY <1>1, <1>3, <2>1, StepOfPass
<1>6. CASE Stops(d)
  <2>1. PassMoves(d, NoPass)
    BY <1>1, <1>3, <1>4, <1>6, StopsMoves
  <2>2. QED
    BY <1>1, <1>3, <2>1, StepOfPass
<1>7. QED
  BY <1>3, <1>5, <1>6 DEF MarkFailed

-----------------------------------------------------------------------------
(* What happens around the passes, and the theorems *)

LEMMA EventKeeps ==
  ASSUME OutboxAssumption, OutboxInv, NEW e \in Events,
         BecomesDue(e) \/ Overrun(e) \/ Promote(e) \/ ReplayDeadLetter(e)
  PROVE  OutboxInv' /\ RowMoves
<1>1. UNCHANGED <<pass, stopped, polar, late>> /\ (NoOutboxFault \/ OutboxFault)
  BY DEF BecomesDue, Overrun, ComesDue, Promote, ReplayDeadLetter
<1>2. \/ row' = [row EXCEPT ![e].due = TRUE]
      \/ row' = [row EXCEPT ![e].charge = TRUE]
      \/ /\ row' = [row EXCEPT ![e].status = "pending", ![e].due = TRUE]
         /\ row[e].status # "delivered"
  BY DEF BecomesDue, Overrun, ComesDue, Promote, ReplayDeadLetter
<1>3. PICK r \in RowRecord :
        /\ row' = [row EXCEPT ![e] = r]
        /\ row[e].charge => r.charge
        /\ row[e].status = "delivered" => r.status = "delivered"
        /\ r.status = "delivered" => row[e].status = "delivered"
  <2>1. CASE row' = [row EXCEPT ![e].due = TRUE]
    <3>1. [row[e] EXCEPT !.due = TRUE] \in RowRecord
      BY OutboxTypes DEF RowRecord
    <3>2. QED
      BY <2>1, <3>1, OutboxTypes DEF RowRecord
  <2>2. CASE row' = [row EXCEPT ![e].charge = TRUE]
    <3>1. [row[e] EXCEPT !.charge = TRUE] \in RowRecord
      BY OutboxTypes DEF RowRecord
    <3>2. QED
      BY <2>2, <3>1, OutboxTypes DEF RowRecord
  <2>3. CASE /\ row' = [row EXCEPT ![e].status = "pending", ![e].due = TRUE]
             /\ row[e].status # "delivered"
    <3>1. [row[e] EXCEPT !.status = "pending", !.due = TRUE] \in RowRecord
      BY OutboxTypes DEF RowRecord
    <3>2. row' = [row EXCEPT ![e] = [row[e] EXCEPT !.status = "pending", !.due = TRUE]]
      BY <2>3, OutboxTypes
    <3>3. QED
      BY <2>3, <3>1, <3>2, OutboxTypes DEF RowRecord
  <2>4. QED
    BY <1>2, <2>1, <2>2, <2>3
<1>4. RowMoves
  BY <1>3, OneRowMoves
<1>5. QED
  BY <1>1, <1>4, SharedKept, KeptByRows

LEMMA OutboxInit_Inv ==
  ASSUME OutboxAssumption, OutboxInit
  PROVE  OutboxInv
<1>1. NoPass \in PassRecord /\ NoPass.at = "idle" /\ NoPass.batch = <<>>
  BY DEF NoPass, PassRecord, PassSteps
<1>2. pass \in [Dispatchers -> PassRecord] /\ row \in [Events -> RowRecord]
  BY <1>1 DEF OutboxInit, OutboxAssumption, RowRecord
<1>3. \A d \in Dispatchers : pass[d].at = "idle" /\ pass[d].batch = <<>> /\ late[d] = 0
  BY <1>1 DEF OutboxInit
<1>4. OutboxShape
  <2>1. \A d \in Dispatchers :
          /\ pass[d].at \in PassSteps
          /\ pass[d].batch \in Seq(Claimed) /\ Len(pass[d].batch) <= BatchSize
          /\ pass[d].at \notin {"send", "delivered", "failed"}
    <3>1. <<>> \in Seq(Claimed) /\ Len(<<>>) = 0
      BY EmptySeq
    <3>2. 0 <= BatchSize
      BY DEF OutboxAssumption
    <3>3. QED
      BY <1>3, <3>1, <3>2 DEF PassSteps
  <2>2. late \in [Dispatchers -> 0..2] /\ outboxFaults \in 0..MaxOutboxFaults
    BY DEF OutboxInit, OutboxAssumption
  <2>3. QED
    BY <1>2, <2>1, <2>2 DEF OutboxShape, OutboxTypeOK, OutboxInit, RowRecord, PassSteps
<1>5. HeldMayBeCharged /\ ReportedIsTaken /\ LateIsLast
  <2>1. HeldMayBeCharged
    BY <1>3, EmptySeq DEF HeldMayBeCharged
  <2>2. ReportedIsTaken /\ LateIsLast
    BY <1>3 DEF ReportedIsTaken, LateIsLast
  <2>3. QED
    BY <2>1, <2>2
<1>6. ChargedAsAllowed
  BY <1>3 DEF OutboxInit, ChargedAsAllowed
<1>7. QED
  BY <1>4, <1>5, <1>6 DEF OutboxInv

\* The stop leaves the rows and the passes alone.
LEMMA StopKeeps ==
  ASSUME OutboxAssumption, OutboxInv, StopDelivery
  PROVE  OutboxInv' /\ RowMoves
<1>1. RowMoves
  BY RowsKept DEF StopDelivery
<1>2. SharedMoves
  BY OutboxTypes DEF StopDelivery, SharedMoves, NoOutboxFault
<1>3. QED
  BY <1>1, <1>2, KeptByRows DEF StopDelivery

LEMMA OutboxStutters ==
  ASSUME OutboxInv, UNCHANGED outboxVars
  PROVE  OutboxInv'
<1>1. RowMoves
  BY RowsKept DEF outboxVars
<1>2. SharedMoves
  BY OutboxTypes DEF outboxVars, SharedMoves
<1>3. QED
  BY <1>1, <1>2, KeptByRows DEF outboxVars

\* The inductive invariant of the outbox; it asks for no fairness.
LEMMA OutboxSteps == OutboxInit /\ [][OutboxNext]_outboxVars => []OutboxInv
<1>1. OutboxInit => OutboxInv
  BY OutboxAssumption, OutboxInit_Inv
<1>2. OutboxInv /\ [OutboxNext]_outboxVars => OutboxInv'
  <2> SUFFICES ASSUME OutboxInv, [OutboxNext]_outboxVars
               PROVE  OutboxInv'
    OBVIOUS
  <2>1. ASSUME NEW d \in Dispatchers, PassGoesOn(d) \/ DispatcherCrashes(d)
        PROVE  OutboxInv'
    BY <2>1, OutboxAssumption, BeginAndGuardKeep, RecoverKeeps, BatchClaimKeeps, SendKeeps,
       MarkDeliveredKeeps, MarkFailedKeeps DEF PassGoesOn
  <2>2. ASSUME NEW e \in Events,
               BecomesDue(e) \/ Overrun(e) \/ Promote(e) \/ ReplayDeadLetter(e)
        PROVE  OutboxInv'
    BY <2>2, OutboxAssumption, EventKeeps
  <2>3. CASE StopDelivery
    BY <2>3, OutboxAssumption, StopKeeps
  <2>4. CASE UNCHANGED outboxVars
    BY <2>4, OutboxStutters
  <2>5. QED
    BY <2>1, <2>2, <2>3, <2>4 DEF OutboxNext
<1>3. QED
  BY <1>1, <1>2, PTL

\* The invariant of the outbox: with whatever faults, overruns, promotions and stops.
THEOREM OutboxInvariant == OutboxSpec => []OutboxInv
BY OutboxSteps, PTL DEF OutboxSpec

\* Every variable keeps its type: batches stay within their size, attempts within their
\* limit, and a pass that is at an event has one.
THEOREM OutboxTypeCorrect == OutboxSpec => []OutboxTypeOK
<1>1. OutboxInv => OutboxTypeOK
  BY DEF OutboxInv, OutboxShape
<1>2. QED
  BY <1>1, OutboxInvariant, PTL

\* Polar is sent promoted events only, what is recorded as delivered it has taken, and after
\* the stop no process sends more than the event it was at.
THEOREM ChargesAreAllowed == OutboxSpec => []ChargedAsAllowed
<1>1. OutboxInv => ChargedAsAllowed
  BY DEF OutboxInv
<1>2. QED
  BY <1>1, OutboxInvariant, PTL

\* No step takes a delivery back, not even the report of a pass that lost its claim.
THEOREM DeliveryIsKept == OutboxSpec => DeliveredStays
<1> DEFINE Stays == \A e \in Events : row[e].status = "delivered" => row'[e].status = "delivered"
<1>1. OutboxInv /\ [OutboxNext]_outboxVars => [Stays]_outboxVars
  <2> SUFFICES ASSUME OutboxInv, OutboxNext
               PROVE  Stays
    OBVIOUS
  <2>1. RowMoves => Stays
    BY DEF RowMoves
  <2>2. ASSUME NEW d \in Dispatchers, PassGoesOn(d) \/ DispatcherCrashes(d)
        PROVE  Stays
    BY <2>1, <2>2, OutboxAssumption, BeginAndGuardKeep, RecoverKeeps, BatchClaimKeeps, SendKeeps,
       MarkDeliveredKeeps, MarkFailedKeeps DEF PassGoesOn
  <2>3. ASSUME NEW e \in Events,
               BecomesDue(e) \/ Overrun(e) \/ Promote(e) \/ ReplayDeadLetter(e)
        PROVE  Stays
    BY <2>1, <2>3, OutboxAssumption, EventKeeps
  <2>4. CASE StopDelivery
    BY <2>1, <2>4, OutboxAssumption, StopKeeps
  <2>5. QED
    BY <2>2, <2>3, <2>4 DEF OutboxNext
<1>2. QED
  BY <1>1, OutboxInvariant, PTL DEF OutboxSpec, DeliveredStays

-----------------------------------------------------------------------------
(* The processes and the outbox in one behaviour *)

\* A behaviour in which either the calls are settled or their charges are delivered is,
\* seen by each, a behaviour of its own.
LEMMA BothAreThemselves ==
  PartsSpec => BillingSpec /\ OutboxInit /\ [][OutboxNext]_outboxVars
<1>1. PartsInit => BillingInit /\ OutboxInit
  BY DEF PartsInit
<1>2. [PartsNext]_<<part, vars, outboxVars>> => [BillingNext]_vars
  BY DEF PartsNext
<1>3. [PartsNext]_<<part, vars, outboxVars>> => [OutboxNext]_outboxVars
  BY DEF PartsNext
<1>4. QED
  BY <1>1, <1>2, <1>3, PTL DEF PartsSpec, BillingSpec

\* Every variable keeps its type, of the settlements and of the outbox.
THEOREM BillingPartsTypeCorrect == PartsSpec => []BillingPartsTypeOK
<1>1. BillingTypeOK /\ OutboxInv => BillingPartsTypeOK
  BY DEF BillingPartsTypeOK, OutboxInv, OutboxShape
<1>2. QED
  BY <1>1, BothAreThemselves, BillingTypeCorrect, OutboxSteps, PTL

\* What the ledger says and what was settled agree, and Polar has what may be charged.
THEOREM BillingPartsAreSafe == PartsSpec => [](SettlementAgrees /\ ChargedAsAllowed)
<1>1. OutboxInv => ChargedAsAllowed
  BY DEF OutboxInv
<1>2. QED
  BY <1>1, BothAreThemselves, SettlementsAgree, OutboxSteps, PTL

=============================================================================
