----------------------------- MODULE ChargeOutbox -----------------------------
(***************************************************************************)
(* The outbox of billing events and the passes that deliver it to Polar    *)
(* (billing/billing-polar-outbox.worker.ts, billing-polar-outbox.scheduler *)
(* .ts, postgres-billing-ledger.repository.ts), the promotion that turns a *)
(* shadow event into a charge (postgres-billing-charge-promotion.          *)
(* repository.ts) and the gate that stops deliveries (billing-charge-      *)
(* release-gate.ts).  Times are left out: `due` says of a pending event    *)
(* that its next attempt has come and of a claimed one that its lease has  *)
(* run out, which is all the queries ask of next_attempt_at.               *)
(***************************************************************************)
EXTENDS SequencesExt, FiniteSetsExt, Integers

CONSTANTS
  Events,
  Dispatchers,       \* the API processes, each with its scheduler
  BatchSize,
  DeliveryAttempts,  \* maxAttempts
  MaxOutboxFaults    \* bound of the crashes, failed writes and passes that outlast a lease

ASSUME OutboxAssumption ==
  /\ {BatchSize, DeliveryAttempts} \subseteq Nat \ {0}
  /\ MaxOutboxFaults \in Nat
  /\ IsFiniteSet(Events)

VARIABLES
  row,      \* billing_outbox
  pass,     \* the pass of each dispatcher and what is left of its batch
  stopped,  \* deliveryStopped, or an approval that is no longer current
  polar,    \* the events Polar has taken; it knows them by their external ids
  late,     \* history: what a dispatcher sent after the stop (two stand for more)
  outboxFaults

outboxVars == <<row, pass, stopped, polar, late, outboxFaults>>

\* A claimed event with its attempt count as the claim returned it.
Claimed == [of : Events, got : 1..DeliveryAttempts]

OutboxTypeOK ==
  /\ row \in [Events -> [charge : BOOLEAN,
                         status : {"pending", "processing", "delivered", "dead_letter"},
                         attempts : 0..DeliveryAttempts,   \* capped there
                         due : BOOLEAN]]
  /\ \A d \in Dispatchers :
       /\ pass[d].at \in {"idle", "recover", "claim", "guard", "send", "delivered", "failed"}
       /\ pass[d].batch \in Seq(Claimed) /\ Len(pass[d].batch) <= BatchSize
       /\ pass[d].at \in {"send", "delivered", "failed"} => pass[d].batch # <<>>
  /\ stopped \in BOOLEAN
  /\ polar \subseteq Events
  /\ late \in [Dispatchers -> 0..2]
  /\ outboxFaults \in 0..MaxOutboxFaults

NoPass == [at |-> "idle", batch |-> <<>>]

\* Every event is produced as a shadow.
OutboxInit ==
  /\ row = [e \in Events |-> [charge |-> FALSE, status |-> "pending", attempts |-> 0, due |-> TRUE]]
  /\ pass = [d \in Dispatchers |-> NoPass]
  /\ stopped = FALSE /\ polar = {}
  /\ late = [d \in Dispatchers |-> 0]
  /\ outboxFaults = 0

OutboxFault == outboxFaults < MaxOutboxFaults /\ outboxFaults' = outboxFaults + 1
NoOutboxFault == UNCHANGED outboxFaults

\* assertDeliveryAllowed: approvals and evidence are those of this release and current.
DeliveryAllowed == ~stopped

Goes(d, step) == pass' = [pass EXCEPT ![d].at = step]
Stops(d) == pass' = [pass EXCEPT ![d] = NoPass]
GoesToNext(d) == pass' = [pass EXCEPT ![d] = [at |-> "guard", batch |-> Tail(@.batch)]]

\* The event d is working at, and the claims of passes that are still under way.
Current(d) == Head(pass[d].batch)
Held(e) == \E d \in Dispatchers : \E i \in DOMAIN pass[d].batch : pass[d].batch[i].of = e

-----------------------------------------------------------------------------
(* A pass, one transaction or one request at a time *)

\* The scheduler's interval; the pass is refused while the gate is shut.
PassBegins(d) ==
  /\ pass[d].at = "idle"
  /\ DeliveryAllowed
  /\ Goes(d, "recover")
  /\ UNCHANGED <<row, stopped, polar, late>> /\ NoOutboxFault

Mut_RecoverStale(d) ==
  /\ pass[d].at = "recover"
  /\ Goes(d, "claim")
  /\ UNCHANGED <<row, stopped, polar, late>> /\ NoOutboxFault
RecoverStale(d) ==
  /\ pass[d].at = "recover"
  /\ row' = [e \in Events |-> IF row[e].status = "processing" /\ row[e].due
                              THEN [row[e] EXCEPT !.status = "pending"] ELSE row[e]]
  /\ Goes(d, "claim")
  /\ UNCHANGED <<stopped, polar, late>> /\ NoOutboxFault

Deliverable(e) == row[e].status = "pending" /\ row[e].due /\ row[e].charge

ClaimDue(d) ==
  LET due == {e \in Events : Deliverable(e)}
      counted(e) == Min({row[e].attempts + 1, DeliveryAttempts})
  IN
  /\ pass[d].at = "claim"
  /\ \E batch \in kSubset(Min({BatchSize, Cardinality(due)}), due) :
     \E order \in SetToSeqs(batch) :
       /\ row' = [e \in Events |->
            IF e \in batch
            THEN [row[e] EXCEPT !.status = "processing", !.attempts = counted(e), !.due = FALSE]
            ELSE row[e]]
       /\ pass' = [pass EXCEPT ![d] = [at |-> "guard", batch |->
            [i \in DOMAIN order |-> [of |-> order[i], got |-> counted(order[i])]]]]
  /\ UNCHANGED <<stopped, polar, late>> /\ NoOutboxFault

Mut_Guard(d) ==
  /\ pass[d].at = "guard"
  /\ IF pass[d].batch = <<>> THEN Stops(d) ELSE Goes(d, "send")
  /\ UNCHANGED <<row, stopped, polar, late>> /\ NoOutboxFault
\* The gate is asked again before each event: a stop ends the pass, and what it has
\* claimed is left to its lease.
Guard(d) ==
  /\ pass[d].at = "guard"
  /\ IF pass[d].batch = <<>> \/ ~DeliveryAllowed THEN Stops(d) ELSE Goes(d, "send")
  /\ UNCHANGED <<row, stopped, polar, late>> /\ NoOutboxFault

\* ingestUsageEvent: taken, or taken and the answer lost, or refused.
Send(d) ==
  /\ pass[d].at = "send"
  /\ late' = [late EXCEPT ![d] = IF stopped THEN Min({@ + 1, 2}) ELSE @]
  /\ \/ polar' = polar \cup {Current(d).of} /\ Goes(d, "delivered")
     \/ polar' = polar \cup {Current(d).of} /\ Goes(d, "failed")
     \/ UNCHANGED polar /\ Goes(d, "failed")
  /\ UNCHANGED <<row, stopped>> /\ NoOutboxFault

\* markOutboxDelivered: the claim is anyone's as long as the row is claimed; if it is
\* not, or the write fails (before it is committed or after), the attempt has failed.
MarkDelivered(d) ==
  LET e == Current(d).of
      marked == [row EXCEPT ![e].status = "delivered"]
  IN
  /\ pass[d].at = "delivered"
  /\ \/ row[e].status = "processing" /\ row' = marked /\ GoesToNext(d) /\ NoOutboxFault
     \/ row[e].status # "processing" /\ UNCHANGED row /\ Goes(d, "failed") /\ NoOutboxFault
     \/ UNCHANGED row /\ Goes(d, "failed") /\ OutboxFault
     \/ row[e].status = "processing" /\ row' = marked /\ Goes(d, "failed") /\ OutboxFault
  /\ UNCHANGED <<stopped, polar, late>>

\* What a failure makes of the row: the attempts are those the claim returned.
AfterFailedAttempt(d) ==
  [row EXCEPT ![Current(d).of].due = FALSE,
              ![Current(d).of].status =
                IF Current(d).got >= DeliveryAttempts THEN "dead_letter" ELSE "pending"]

Mut_MarkFailed(d) ==
  /\ pass[d].at = "failed"
  /\ row' = AfterFailedAttempt(d) /\ GoesToNext(d) /\ NoOutboxFault
  /\ UNCHANGED <<stopped, polar, late>>
\* markOutboxFailed: a row that is no longer claimed, or a write that fails, ends the pass.
MarkFailed(d) ==
  /\ pass[d].at = "failed"
  /\ LET processing == row[Current(d).of].status = "processing" IN
     \/ processing /\ row' = AfterFailedAttempt(d) /\ GoesToNext(d) /\ NoOutboxFault
     \/ ~processing /\ UNCHANGED row /\ Stops(d) /\ NoOutboxFault
     \/ UNCHANGED row /\ Stops(d) /\ OutboxFault
     \/ processing /\ row' = AfterFailedAttempt(d) /\ Stops(d) /\ OutboxFault
  /\ UNCHANGED <<stopped, polar, late>>

-----------------------------------------------------------------------------
(* What happens around the passes *)

DispatcherCrashes(d) ==
  /\ pass[d].at # "idle"
  /\ Stops(d) /\ OutboxFault
  /\ UNCHANGED <<row, stopped, polar, late>>

ComesDue(e) ==
  /\ row[e].status \in {"pending", "processing"} /\ ~row[e].due
  /\ row' = [row EXCEPT ![e].due = TRUE]
  /\ UNCHANGED <<pass, stopped, polar, late>>

\* The retry delay passes, or the lease of a claim whose pass has ended.
BecomesDue(e) == ~Held(e) /\ ComesDue(e) /\ NoOutboxFault
\* A pass outlasts the lease of its claims.
Overrun(e) == Held(e) /\ ComesDue(e) /\ OutboxFault

\* promote: of a pending shadow; its check of the gate may be long past.
Promote(e) ==
  /\ row[e].status = "pending" /\ ~row[e].charge
  /\ row' = [row EXCEPT ![e].charge = TRUE]
  /\ UNCHANGED <<pass, stopped, polar, late>> /\ NoOutboxFault

ReplayDeadLetter(e) ==
  /\ row[e].status = "dead_letter"
  /\ row' = [row EXCEPT ![e].status = "pending", ![e].due = TRUE]
  /\ UNCHANGED <<pass, stopped, polar, late>> /\ NoOutboxFault

StopDelivery ==
  /\ ~stopped /\ stopped' = TRUE
  /\ UNCHANGED <<row, pass, polar, late>> /\ NoOutboxFault

PassGoesOn(d) ==
  \/ PassBegins(d) \/ RecoverStale(d) \/ ClaimDue(d) \/ Guard(d) \/ Send(d)
  \/ MarkDelivered(d) \/ MarkFailed(d)

OutboxNext ==
  \/ \E d \in Dispatchers : PassGoesOn(d) \/ DispatcherCrashes(d)
  \/ \E e \in Events : BecomesDue(e) \/ Overrun(e) \/ Promote(e) \/ ReplayDeadLetter(e)
  \/ StopDelivery

\* The interval passes, a request or a query of a pass is answered or fails, and a time
\* that is waited for comes.
OutboxFairness ==
  /\ \A d \in Dispatchers : WF_outboxVars(PassGoesOn(d))
  /\ \A e \in Events : WF_outboxVars(BecomesDue(e))

OutboxSpec == OutboxInit /\ [][OutboxNext]_outboxVars /\ OutboxFairness

-----------------------------------------------------------------------------
(* Properties *)

\* "Historical and new shadow rows remain non-chargeable" and the charge stop: Polar has
\* only what was promoted, and what is recorded as delivered Polar has; once deliveries
\* are stopped, the event a process was about to send may go out, and no other.
ChargedAsAllowed ==
  /\ \A e \in polar : row[e].charge
  /\ \A e \in Events : row[e].status = "delivered" => e \in polar
  /\ \A d \in Dispatchers : late[d] <= 1

\* A delivered event stays delivered, though a pass that has lost its claim to another
\* may still come to report that the event failed.
DeliveredStays ==
  [][\A e \in Events : row[e].status = "delivered" => row'[e].status = "delivered"]_outboxVars

\* A promoted event is delivered or comes to its dead letter, whatever crashes, unless
\* deliveries are stopped: a claim nobody answers for is taken up again.
OutboxSettles ==
  \A e \in Events : row[e].charge ~> (stopped \/ row[e].status \in {"delivered", "dead_letter"})
=============================================================================
