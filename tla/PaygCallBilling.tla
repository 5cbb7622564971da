-------------------------- MODULE PaygCallBilling ---------------------------
(***************************************************************************)
(* The processes that start, end and settle pay-as-you-go calls over the   *)
(* transactions of PaygCredit: the handlers of the incoming-call webhook,  *)
(* which the provider may deliver again while the first is still at work   *)
(* (telephony/telephony.service.ts); the terminal lifecycle callbacks,     *)
(* which submit the settlement and make the first attempt themselves; and  *)
(* the recovery scheduler (billing/trusted-terminal-billing-recovery.      *)
(* service.ts).  Every await of a handler is a boundary between steps.     *)
(***************************************************************************)
EXTENDS PaygCredit

CONSTANTS
  Hooks,       \* the deliveries of a call's webhook
  Callbacks,   \* the deliveries of terminal events, one runner each
  Schedulers,  \* the processes with a recovery scheduler
  Quote,       \* the maximum expected charge of a call
  Ttl,         \* PAYG_RESERVATION_TTL_SECONDS
  MaxFaults    \* bound of the crashes and database failures

ASSUME BillingAssumption ==
  /\ {Quote, Ttl, MaxFaults} \subseteq Nat
  /\ Callbacks \cap Schedulers = {}
  /\ CallOutcomes = {"completed", "transferred", "failed"}

VARIABLES
  call,    \* the durable session of each call: its stage, when the webhook was
           \* received, the provider connected and the call ended
  hook,    \* where the handler of each delivery of a call's webhook stands
  run,     \* what each callback and scheduler is doing
  faults

procVars == <<call, hook, run, faults>>
vars == <<creditVars, procVars>>

Runners == Callbacks \cup Schedulers
MaybeTime == 0..MaxTime \cup {-1}
Never == -1

Running == [stage : {"idle", "done", "submit", "claim", "pass", "settle", "record", "complete",
                     "fail"},
            call : Calls \cup {"-"},
            from : {"open", "handoff", "draining", "ended", "-"},  \* the stage the callback found
            at : 0..MaxTime,                \* the "now" the work is dated with
            due : SUBSET Calls,             \* the jobs left of a scheduler's pass
            attempt : Nat]                  \* the claim of the job that is held
Idle == [stage |-> "idle", call |-> "-", from |-> "-", at |-> 0, due |-> {}, attempt |-> 0]
Done == [Idle EXCEPT !.stage = "done"]

BillingTypeOK ==
  /\ TypeOK
  /\ call \in [Calls -> [stage : {"new", "open", "handoff", "draining", "ended"},
                         received : MaybeTime, connected : MaybeTime, ended : 0..MaxTime,
                         failed : BOOLEAN]]
  /\ hook \in [Calls -> [Hooks -> {"idle", "starting", "admitting", "setup", "releasing",
                                   "done"}]]
  /\ run \in [Runners -> Running]
  /\ faults \in 0..MaxFaults

BillingInit ==
  /\ Init
  /\ call = [c \in Calls |-> [stage |-> "new", received |-> Never, connected |-> Never,
                              ended |-> 0, failed |-> FALSE]]
  /\ hook = [c \in Calls |-> [h \in Hooks |-> "idle"]]
  /\ run = [r \in Runners |-> Idle]
  /\ faults = 0

Fault == faults < MaxFaults /\ faults' = faults + 1
NoFault == UNCHANGED faults

-----------------------------------------------------------------------------
(* The webhook of an incoming call *)

GoTo(c, h, stage) == hook' = [hook EXCEPT ![c][h] = stage]

\* The event is recorded, and every delivery is dated with the first one.  A
\* delivery that finds the call set up is answered from what is stored.
Deliver(c, h) ==
  /\ hook[c][h] = "idle"
  /\ call' = [call EXCEPT ![c].received = IF @ = Never THEN now ELSE @]
  /\ GoTo(c, h, IF call[c].stage = "new" THEN "starting" ELSE "done")
  /\ UNCHANGED <<creditVars, run, faults>>

\* startPaygCall up to the provider.  A refusal, or an error, ends the delivery
\* there, as does an answer of the database that is lost.
ReserveCredit(c, h) ==
  /\ hook[c][h] = "starting"
  /\ \E out \in {"reserved", "duplicate", "denied", "error"} :
       /\ Reserve(c, Quote, Later(call[c].received + Ttl), call[c].received, out)
       /\ \/ NoFault /\ GoTo(c, h, IF out \in {"reserved", "duplicate"} THEN "admitting"
                                   ELSE "done")
          \/ Fault /\ GoTo(c, h, "done")
  /\ UNCHANGED <<call, run>>

\* startProvider: the admission of the call, whose refusal is thrown.
Admit(c, h) ==
  /\ hook[c][h] = "admitting"
  /\ GoTo(c, h, "setup") \/ GoTo(c, h, "releasing")
  /\ UNCHANGED <<creditVars, call, run, faults>>

\* createCallSetup inserts the call, or finds it as another delivery has
\* inserted it: untouched, and with the same worker.
SetUp(c, h) ==
  /\ hook[c][h] = "setup"
  /\ call[c].stage \in {"new", "open"}
  /\ call' = [call EXCEPT ![c].stage = "open"]
  /\ \/ NoFault /\ GoTo(c, h, "done")
     \/ Fault /\ GoTo(c, h, "releasing")   \* neither the commit nor a reload is confirmed
  /\ UNCHANGED <<creditVars, run>>

\* It fails, or what it finds is in conflict: the call has since gone on, its
\* token was claimed, or another worker was chosen.
SetUpFailed(c, h) ==
  /\ hook[c][h] = "setup"
  /\ GoTo(c, h, "releasing")
  /\ UNCHANGED <<creditVars, call, run, faults>>

\* The reservation is released in the "catch" and the "finally" of the handler.
ReleaseStarted(c, h) ==
  /\ hook[c][h] = "releasing"
  /\ \/ \E out \in {"ok", "error"} : Release(c, "-", out) /\ NoFault
     \/ UNCHANGED creditVars /\ Fault
  /\ GoTo(c, h, "done")
  /\ UNCHANGED <<call, run>>

-----------------------------------------------------------------------------
(* The call *)

\* The lifecycle before the end; "open" stands for the stages up to "active".
MoveTo(c, stages, stage) ==
  /\ call[c].stage \in stages
  /\ call' = [call EXCEPT ![c].stage = stage]
  /\ UNCHANGED <<creditVars, hook, run, faults>>

Handoff(c) == MoveTo(c, {"open"}, "handoff")
Drain(c) == MoveTo(c, {"open", "handoff"}, "draining")

\* Stage "active", whose first time counts as the provider's connection.
Activate(c) ==
  /\ call[c].stage \in {"open", "handoff"}
  /\ call' = [call EXCEPT ![c].stage = "open",
                          ![c].connected = IF @ = Never THEN now ELSE @]
  /\ UNCHANGED <<creditVars, hook, run, faults>>

Ended(c, failed) ==
  call' = [call EXCEPT ![c].stage = "ended", ![c].ended = now, ![c].failed = failed]

\* transitionPstnCallLifecycle to a terminal stage: by a status callback, the
\* stream, or the funding policy.  On a call that has ended already it submits
\* the settlement again.
EndCall(c, r) ==
  /\ run[r].stage = "idle"
  /\ r \in Callbacks
  /\ call[c].stage # "new"
  /\ IF call[c].stage = "ended" THEN UNCHANGED call
     ELSE \E failed \in BOOLEAN : Ended(c, failed)
  /\ run' = [run EXCEPT ![r] = [Idle EXCEPT !.stage = "submit", !.call = c,
                                            !.from = call[c].stage]]
  /\ UNCHANGED <<creditVars, hook, faults>>

\* reconcileExpiredPremiumCallOwners ends a call without settling it, and the
\* state it writes has no connection time.
ReconcileExpiredOwner(c) ==
  /\ call[c].stage \in {"open", "handoff", "draining"}
  /\ call' = [call EXCEPT ![c].stage = "ended", ![c].ended = now, ![c].failed = TRUE,
                          ![c].connected = Never]
  /\ UNCHANGED <<creditVars, hook, run, faults>>

-----------------------------------------------------------------------------
(* recordTrustedTerminalUsage and submit *)

\* The facts of the call as a callback computes them: an outcome the reservation
\* has been settled with goes before the stage the callback found.
TerminalFact(c, from) ==
  [outcome |-> IF call[c].failed THEN "failed"
               ELSE IF res[c].outcome # "-" THEN res[c].outcome
               ELSE IF from = "handoff" THEN "transferred" ELSE "completed",
   charge |-> IF call[c].connected = Never THEN 0 ELSE call[c].ended - call[c].connected]

Submit(r) ==
  LET c == run[r].call IN
  /\ run[r].stage = "submit"
  /\ \E out \in {"pending", "processing", "completed", "dead_letter", "error"} :
       /\ Enqueue(c, TerminalFact(c, run[r].from), call[c].ended, out)
       /\ \/ /\ NoFault
             /\ run' = [run EXCEPT ![r] = IF out \in {"completed", "error"} THEN Done
                          ELSE [@ EXCEPT !.stage = "claim", !.at = call[c].ended]]
          \/ Fault /\ run' = [run EXCEPT ![r] = Done]
  /\ UNCHANGED <<call, hook>>

-----------------------------------------------------------------------------
(* tryProcess *)

\* The runner is done with a job; a scheduler goes on with its pass.
Finished(r) ==
  IF r \in Schedulers /\ run[r].due # {}
  THEN [Idle EXCEPT !.stage = "pass", !.at = run[r].at, !.due = run[r].due]
  ELSE IF r \in Schedulers THEN Idle ELSE Done

GoOn(r, stage) == run' = [run EXCEPT ![r].stage = stage]

\* runDue: the jobs due now are listed, then tried one by one.
StartPass(r) ==
  /\ r \in Schedulers
  /\ run[r].stage = "idle"
  /\ LET due == {c \in Calls : Claimable(c, now)} IN
     /\ due # {}
     /\ run' = [run EXCEPT ![r] = [Idle EXCEPT !.stage = "pass", !.at = now, !.due = due]]
  /\ UNCHANGED <<creditVars, call, hook, faults>>

\* A job that cannot be claimed (any more) is skipped.
TryClaim(r, c) ==
  LET claimed == [run[r] EXCEPT !.stage = "settle", !.call = c, !.due = @ \ {c},
                                !.attempt = job[c].attempts + 1]
      skipped == [run[r] EXCEPT !.due = @ \ {c}]
  IN
  /\ \/ run[r].stage = "claim" /\ c = run[r].call
     \/ run[r].stage = "pass" /\ c \in run[r].due
  /\ \/ /\ Claim(c, run[r].at)
        /\ run' = [run EXCEPT ![r] = claimed]
     \/ /\ ~Claimable(c, run[r].at)
        /\ run' = [run EXCEPT ![r] = IF r \in Callbacks THEN Done
                                     ELSE IF skipped.due = {} THEN Idle ELSE skipped]
        /\ UNCHANGED creditVars
  /\ UNCHANGED <<call, hook, faults>>

\* The two effects, each of which may fail before or after it has been committed.
Mut_SettleCall(r) ==
  LET c == run[r].call IN
  /\ run[r].stage = "settle"
  /\ \E out \in {"ok", "error"} : Settle(c, job[c].fact, out)
  /\ NoFault
  /\ GoOn(r, "record")
  /\ UNCHANGED <<call, hook>>
SettleCall(r) ==
  LET c == run[r].call IN
  /\ run[r].stage = "settle"
  /\ \/ \E out \in {"ok", "error"} :
          /\ Settle(c, job[c].fact, out)
          /\ \/ NoFault /\ GoOn(r, IF out = "ok" THEN "record" ELSE "fail")
             \/ Fault /\ GoOn(r, "fail")
     \/ UNCHANGED creditVars /\ Fault /\ GoOn(r, "fail")
  /\ UNCHANGED <<call, hook>>

RecordCall(r) ==
  LET c == run[r].call IN
  /\ run[r].stage = "record"
  /\ \/ \E out \in {"ok", "error"} :
          /\ RecordUsage(c, job[c].fact, out)
          /\ \/ NoFault /\ GoOn(r, IF out = "ok" THEN "complete" ELSE "fail")
             \/ Fault /\ GoOn(r, "fail")
     \/ UNCHANGED creditVars /\ Fault /\ GoOn(r, "fail")
  /\ UNCHANGED <<call, hook>>

CompleteJob(r) ==
  /\ run[r].stage = "complete"
  /\ MarkCompleted(run[r].call, run[r].attempt)
  /\ \/ NoFault /\ run' = [run EXCEPT ![r] = Finished(r)]
     \/ Fault /\ GoOn(r, "fail")
  /\ UNCHANGED <<call, hook>>

FailJob(r) ==
  LET c == run[r].call IN
  /\ run[r].stage = "fail"
  /\ IF run[r].attempt >= MaxAttempts
     THEN MarkDeadLetter(c, run[r].attempt)
     ELSE MarkPending(c, run[r].attempt, run[r].at)
  /\ run' = [run EXCEPT ![r] = Finished(r)]
  /\ UNCHANGED <<call, hook, faults>>

\* A crash, or an error in the writes of FailJob: what was in progress is lost, and
\* a webhook handler releases nothing.
CrashRunner(r) ==
  /\ run[r].stage \notin {"idle", "done"}
  /\ run' = [run EXCEPT ![r] = IF r \in Schedulers THEN Idle ELSE Done]
  /\ Fault
  /\ UNCHANGED <<creditVars, call, hook>>

CrashHook(c, h) ==
  /\ hook[c][h] \notin {"idle", "done"}
  /\ GoTo(c, h, "done")
  /\ Fault
  /\ UNCHANGED <<creditVars, call, run>>

-----------------------------------------------------------------------------
HookStep(c, h) ==
  \/ Deliver(c, h)
  \/ ReserveCredit(c, h)
  \/ Admit(c, h)
  \/ SetUp(c, h)
  \/ SetUpFailed(c, h)
  \/ ReleaseStarted(c, h)

RunnerStep(r) ==
  \/ Submit(r)
  \/ StartPass(r)
  \/ \E c \in Calls : TryClaim(r, c)
  \/ SettleCall(r)
  \/ RecordCall(r)
  \/ CompleteJob(r)
  \/ FailJob(r)

BillingNext ==
  \/ (Tick \/ Buy \/ Sweep(now)) /\ UNCHANGED procVars
  \/ \E c \in Calls :
       \/ Handoff(c)
       \/ Drain(c)
       \/ Activate(c)
       \/ ReconcileExpiredOwner(c)
       \/ \E h \in Hooks : HookStep(c, h) \/ CrashHook(c, h)
       \/ \E r \in Callbacks : EndCall(c, r)
  \/ \E r \in Runners : RunnerStep(r) \/ CrashRunner(r)

BillingSpec == BillingInit /\ [][BillingNext]_vars

\* The clock and the schedulers' interval timers go on, and a job that is being
\* processed is processed to the end or lost with its process.
BillingFairness ==
  /\ WF_vars(Tick /\ UNCHANGED procVars)
  /\ \A r \in Runners : WF_vars(RunnerStep(r))

BillingFairSpec == BillingSpec /\ BillingFairness

-----------------------------------------------------------------------------
(* What the processes must guarantee together *)

\* What the ledger says of a call is what its credit was settled with, whichever
\* runners got there; and a job is completed only when both have been done.
SettlementAgrees ==
  \A c \in Calls :
    /\ usage[c] # NoFact =>
         /\ res[c].outcome = usage[c].outcome
         /\ res[c].charged = usage[c].charge
    /\ job[c].status = "completed" =>
         usage[c] # NoFact /\ res[c].status \in {"finalized", "released"}

\* "It then reserves the maximum expected customer charge before a live call": a
\* call that is set up and has not ended keeps its reservation.
LiveCallReserved ==
  \A c \in Calls : call[c].stage \in {"open", "handoff", "draining"} => res[c].status = "active"

\* A submitted settlement comes to an end: completed, or dead-lettered with an
\* alert, whatever crashes on the way.
SubmittedSettles ==
  \A c \in Calls :
    job[c].status \in {"pending", "processing"} ~> job[c].status \in {"completed", "dead_letter"}
=============================================================================
