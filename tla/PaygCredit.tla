----------------------------- MODULE PaygCredit -----------------------------
(***************************************************************************)
(* The database transactions behind a pay-as-you-go call of one tenant:    *)
(* bought credit packs (billing/postgres-billing-ledger.repository.ts),    *)
(* the credit reserved for a call and what becomes of it                   *)
(* (billing/billing-charge-reservation.repository.ts), and the job that    *)
(* settles the call (billing/terminal-billing-recovery.repository.ts).     *)
(*                                                                         *)
(* A transaction on reservations holds the row lock of the tenant's        *)
(* account, and is one step.  Next lets any transaction follow any other,  *)
(* with the arguments its callers give it; PaygCallBilling has the callers.*)
(***************************************************************************)
EXTENDS Integers, Sequences, FiniteSets, Functions

CONSTANTS
  Calls,        \* the call sessions
  MaxPacks,     \* bound of the packs bought
  PackCredit,   \* the credit of a pack
  Amounts,      \* what may be reserved or charged for a call
  CallOutcomes, \* how a call may end
  Ttls,         \* for how long credit may be reserved
  JobLease,     \* how long a claim of a job lasts
  RetryBase,    \* the delay after a first failure, doubled after each further one
  RetryCap,     \* and capped
  MaxAttempts,  \* failures after which a job is dead-lettered
  MaxClaims,    \* bound of the claims of a job, crashes included
  MaxTime       \* bound of the clock: its last tick stands for all later times

ASSUME CreditAssumption ==
  /\ IsFiniteSet(Calls)
  /\ {MaxPacks, PackCredit, JobLease, RetryBase, RetryCap, MaxClaims, MaxTime} \subseteq Nat
  /\ MaxAttempts \in Nat \ {0}
  /\ Amounts \subseteq Nat
  /\ Ttls \subseteq Nat
  /\ CallOutcomes \subseteq {"completed", "transferred", "failed"}

VARIABLES
  now,
  packs,    \* billing_payg_orders in the order of purchase, each with its grant;
            \* "refunding" while a refund that has found it unused is not committed
  account,  \* billing_reservation_accounts.reserved_amount_minor
  res,      \* billing_charge_reservations: the reservation of each call; a
            \* finalized one stands for its debit entry as well
  job,      \* billing_terminal_recovery_jobs: the job of each call
  usage     \* the ledger entries of each call

creditVars == <<now, packs, account, res, job, usage>>

Fact == [outcome : CallOutcomes, charge : Nat]
NoFact == [outcome |-> "-", charge |-> 0]

Reservation == [status : {"none", "active", "expired", "released", "finalized"},
                amount : Nat, expires : Nat, outcome : CallOutcomes \cup {"-"}, charged : Nat]
NoReservation == [status |-> "none", amount |-> 0, expires |-> 0, outcome |-> "-",
                  charged |-> 0]

\* lease_token is drawn anew by every claim, and so is as good as attempt_count;
\* next_attempt_at matters, and is kept, only while the job is pending.
Job == [status : {"none", "pending", "processing", "completed", "dead_letter"},
        fact : Fact \cup {NoFact}, attempts : Nat, next : Nat, lease : Nat]
NoJob == [status |-> "none", fact |-> NoFact, attempts |-> 0, next |-> 0, lease |-> 0]

TypeOK ==
  /\ now \in 0..MaxTime
  /\ packs \in Seq({"granted", "refunding", "refunded"})
  /\ Len(packs) <= MaxPacks
  /\ account \in Nat
  /\ res \in [Calls -> Reservation]
  /\ job \in [Calls -> Job]
  /\ usage \in [Calls -> Fact \cup {NoFact}]

Init ==
  /\ now = 0
  /\ packs = <<>>
  /\ account = 0
  /\ res = [c \in Calls |-> NoReservation]
  /\ job = [c \in Calls |-> NoJob]
  /\ usage = [c \in Calls |-> NoFact]

Later(t) == IF t > MaxTime THEN MaxTime ELSE t
Least(a, b) == IF a < b THEN a ELSE b

-----------------------------------------------------------------------------
(* Credit packs *)

Granted == {i \in DOMAIN packs : packs[i] # "refunded"}
Debits == SumFunction([c \in Calls |-> res[c].charged])
Balance == SumFunctionOnSet([i \in DOMAIN packs |-> PackCredit], Granted) - Debits

\* applyPaidPaygOrder
Buy ==
  /\ Len(packs) < MaxPacks
  /\ packs' = Append(packs, "granted")
  /\ UNCHANGED <<now, account, res, job, usage>>

\* What is left of a pack: debits are taken from the packs in the order of
\* purchase, whether or not a pack has been refunded.
RemainingGrant(i) ==
  LET debitRemaining == Debits - (i - 1) * PackCredit
      consumed == IF debitRemaining <= 0 THEN 0 ELSE Least(PackCredit, debitRemaining)
  IN PackCredit - consumed - (IF packs[i] = "refunded" THEN PackCredit ELSE 0)

\* applyPaygOrderRefund: the entries are read, and then the reversal is committed
\* (or not), under the lock of the order alone.  Reservations are not looked at.
CheckRefund(i) ==
  /\ packs[i] = "granted"
  /\ RemainingGrant(i) = PackCredit
  /\ packs' = [packs EXCEPT ![i] = "refunding"]
  /\ UNCHANGED <<now, account, res, job, usage>>

EndRefund(i) ==
  /\ packs[i] = "refunding"
  /\ \E status \in {"granted", "refunded"} : packs' = [packs EXCEPT ![i] = status]
  /\ UNCHANGED <<now, account, res, job, usage>>

-----------------------------------------------------------------------------
(* Reservations *)

AmountOf(S) == SumFunctionOnSet([c \in Calls |-> res[c].amount], S)

\* The reservations that have expired by "at"; a call with a job that is open or
\* dead-lettered keeps its own.
Stale(at) ==
  {c \in Calls : /\ res[c].status = "active"
                 /\ res[c].expires <= at
                 /\ job[c].status \notin {"pending", "processing", "dead_letter"}}

\* expireReservationsUsing
Swept(at) ==
  [c \in Calls |-> IF c \in Stale(at) THEN [res[c] EXCEPT !.status = "expired"] ELSE res[c]]
AccountLeft(at) == account - AmountOf(Stale(at))

\* reservePaygCredit, which sweeps first; an error rolls the sweep back.
Reserve(c, amount, expires, at, out) ==
  LET left == AccountLeft(at)
      mine == Swept(at)[c]
      same == mine.status = "active" /\ mine.amount = amount /\ mine.expires = expires
      made == [NoReservation EXCEPT !.status = "active", !.amount = amount, !.expires = expires]
  IN
  /\ UNCHANGED <<now, packs, job, usage>>
  /\ \/ /\ out = "error"
        /\ left < 0 \/ (mine.status # "none" /\ ~same)
        /\ UNCHANGED <<account, res>>
     \/ /\ left >= 0
        /\ \/ /\ out = "duplicate" /\ same
              /\ account' = left /\ res' = Swept(at)
           \/ /\ out = "denied" /\ mine.status = "none" /\ left + amount > Balance
              /\ account' = left /\ res' = Swept(at)
           \/ /\ out = "reserved" /\ mine.status = "none" /\ left + amount <= Balance
              /\ account' = left + amount
              /\ res' = [Swept(at) EXCEPT ![c] = made]

\* What the attempt to reserve for a call outside of Calls leaves when it is denied.
Sweep(at) ==
  /\ AccountLeft(at) >= 0
  /\ account' = AccountLeft(at)
  /\ res' = Swept(at)
  /\ UNCHANGED <<now, packs, job, usage>>

\* releasePaygCredit, with the outcome of the call or "-" for none.
Mut_Release(c, outcome, out) ==
  /\ UNCHANGED <<now, packs, job, usage>>
  /\ out = "ok"
  /\ res[c].status \in {"active", "released"}
  /\ account' = account - res[c].amount
  /\ res' = [res EXCEPT ![c].status = "released", ![c].outcome = outcome]
Release(c, outcome, out) ==
  LET r == res[c]
      again == r.status = "released" /\ outcome \in {"-", r.outcome}
      open == r.status = "active" /\ account >= r.amount
  IN
  /\ UNCHANGED <<now, packs, job, usage>>
  /\ \/ /\ out = "ok" /\ open
        /\ account' = account - r.amount
        /\ res' = [res EXCEPT ![c].status = "released", ![c].outcome = outcome]
     \/ /\ out = IF again THEN "ok" ELSE "error"
        /\ ~open
        /\ UNCHANGED <<account, res>>

\* finalizePaygCredit, by which the debit is entered.
Mut_FinalizeRest(c, fact, out) ==
  /\ UNCHANGED <<now, packs, job, usage>>
  /\ out = "ok"
  /\ res[c].status = "active" /\ fact.charge <= res[c].amount
  /\ account' = account - fact.charge
  /\ res' = [res EXCEPT ![c].status = "finalized", ![c].outcome = fact.outcome,
                        ![c].charged = fact.charge]
Mut_FinalizeOverrun(c, fact, out) ==
  /\ UNCHANGED <<now, packs, job, usage>>
  /\ out = "ok"
  /\ res[c].status = "active" /\ account >= res[c].amount
  /\ account' = account - res[c].amount
  /\ res' = [res EXCEPT ![c].status = "finalized", ![c].outcome = fact.outcome,
                        ![c].charged = fact.charge]
Finalize(c, fact, out) ==
  LET r == res[c]
      again == r.status = "finalized" /\ r.charged = fact.charge /\ r.outcome = fact.outcome
      open == r.status = "active" /\ fact.charge <= r.amount /\ account >= r.amount
  IN
  /\ UNCHANGED <<now, packs, job, usage>>
  /\ \/ /\ out = "ok" /\ open
        /\ account' = account - r.amount
        /\ res' = [res EXCEPT ![c].status = "finalized", ![c].outcome = fact.outcome,
                              ![c].charged = fact.charge]
     \/ /\ out = IF again THEN "ok" ELSE "error"
        /\ ~open
        /\ UNCHANGED <<account, res>>

\* finalizeTerminalCall: only a failed call may cost nothing.
Settle(c, fact, out) ==
  IF fact.charge # 0 THEN Finalize(c, fact, out)
  ELSE IF fact.outcome = "failed" THEN Release(c, "failed", out)
  ELSE out = "error" /\ UNCHANGED creditVars

-----------------------------------------------------------------------------
(* The jobs and the ledger *)

\* enqueue: the facts of the first submission stand, others are refused.
Enqueue(c, fact, at, out) ==
  /\ UNCHANGED <<now, packs, account, res, usage>>
  /\ \/ /\ job[c].status = "none"
        /\ out = "pending"
        /\ job' = [job EXCEPT ![c] = [NoJob EXCEPT !.status = "pending", !.fact = fact,
                                                   !.next = at]]
     \/ /\ job[c].status # "none"
        /\ out = IF job[c].fact = fact THEN job[c].status ELSE "error"
        /\ UNCHANGED job

Mut_Claimable(c, at) == job[c].status = "pending" /\ job[c].next <= at
Claimable(c, at) ==
  \/ job[c].status = "pending" /\ job[c].next <= at
  \/ job[c].status = "processing" /\ job[c].lease <= at

Claim(c, at) ==
  /\ Claimable(c, at)
  /\ job[c].attempts < MaxClaims
  /\ job' = [job EXCEPT ![c].status = "processing", ![c].attempts = @ + 1,
                        ![c].next = 0, ![c].lease = Later(at + JobLease)]
  /\ UNCHANGED <<now, packs, account, res, usage>>

\* A write of the process that made the given attempt; without effect once the
\* job has been claimed again.
HoldsJob(c, attempt) == job[c].status = "processing" /\ job[c].attempts = attempt

Mark(c, attempt, status, next) ==
  /\ job' = IF HoldsJob(c, attempt)
            THEN [job EXCEPT ![c].status = status, ![c].next = next, ![c].lease = 0]
            ELSE job
  /\ UNCHANGED <<now, packs, account, res, usage>>

RetryDelay(attempt) == Least(RetryBase * 2 ^ (attempt - 1), RetryCap)

MarkPending(c, attempt, at) ==
  Mark(c, attempt, "pending", Later(at + RetryDelay(attempt)))
MarkCompleted(c, attempt) == Mark(c, attempt, "completed", 0)
MarkDeadLetter(c, attempt) == Mark(c, attempt, "dead_letter", 0)

\* recordTerminalCall: an entry is written once, and never with other facts.
RecordUsage(c, fact, out) ==
  /\ out = IF usage[c] \in {NoFact, fact} THEN "ok" ELSE "error"
  /\ usage' = [usage EXCEPT ![c] = IF @ = NoFact THEN fact ELSE @]
  /\ UNCHANGED <<now, packs, account, res, job>>

-----------------------------------------------------------------------------
Tick ==
  /\ now < MaxTime
  /\ now' = now + 1
  /\ UNCHANGED <<packs, account, res, job, usage>>

CreditTransaction(c) ==
  \/ \E amount \in Amounts, ttl \in Ttls, at \in 0..now,
        out \in {"reserved", "duplicate", "denied", "error"} :
       Reserve(c, amount, Later(at + ttl), at, out)
  \/ \E out \in {"ok", "error"} :
       \/ Release(c, "-", out)
       \/ job[c].fact # NoFact /\ (Settle(c, job[c].fact, out) \/ RecordUsage(c, job[c].fact, out))

JobTransaction(c) ==
  \/ \E fact \in [outcome : CallOutcomes, charge : Amounts \cup {0}], at \in 0..now :
       \E out \in {"pending", "processing", "completed", "dead_letter", "error"} :
         Enqueue(c, fact, at, out)
  \/ \E at \in 0..now : Claim(c, at)
  \/ \E attempt \in 1..job[c].attempts, at \in 0..now :
       IF attempt < MaxAttempts THEN MarkPending(c, attempt, at) ELSE MarkDeadLetter(c, attempt)
  \/ \E attempt \in 1..job[c].attempts : MarkCompleted(c, attempt)

Next ==
  \/ Tick
  \/ Buy
  \/ \E i \in DOMAIN packs : CheckRefund(i) \/ EndRefund(i)
  \/ \E c \in Calls :
       \/ CreditTransaction(c)
       \/ JobTransaction(c)

Spec == Init /\ [][Next]_creditVars

-----------------------------------------------------------------------------
(* What the transactions guarantee together *)

Active == {c \in Calls : res[c].status = "active"}

\* The account's counter is exactly the credit of the reservations that are
\* still open, so that expiry, release and finalization each give credit back
\* once and in full.
AccountIsSum == account = AmountOf(Active)

\* As long as no pack is refunded, the credit covers every open reservation,
\* however calls compete for it ("concurrent reservations are atomic"); then a
\* call is never charged credit that is not there.
ReservationsCovered ==
  (\A i \in DOMAIN packs : packs[i] # "refunded") => account <= Balance

\* "If any credit from that order was consumed, the pack is not refundable": a
\* pack that is found unused is one the debits can do without.
UsedPackKept ==
  [][ \A i \in DOMAIN packs :
        packs[i] = "granted" /\ packs'[i] = "refunding" => Balance - PackCredit >= 0 ]_creditVars
=============================================================================
