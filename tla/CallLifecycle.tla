---------------------------- MODULE CallLifecycle ----------------------------
(***************************************************************************)
(* The durable lifecycle of one call and those who write it at once: the   *)
(* provider's status callbacks, delivered late, twice or out of order; the *)
(* media stream's own observations and its end, which is retried; the      *)
(* active-call policy; the expiry of the media token; and the reconciler   *)
(* of premium calls whose owner has disappeared (telephony/telephony.      *)
(* service.ts over telephony/postgres-telephony-incremental.repository.ts, *)
(* telephony/twilio-media-streams.websocket-bridge.ts).  A write is made   *)
(* against the version that was loaded, and tried again if it lost.  All   *)
(* who find or make the call ended submit its settlement.                  *)
(***************************************************************************)
EXTENDS Integers, FiniteSets

CONSTANTS
  Deliveries,      \* the status callbacks that may be handled at one time
  MaxRequests,     \* bound of the observations made of the call
  WriteAttempts,   \* pstnLifecycleTransitionMaxAttempts
  EndAttempts,     \* terminalPersistenceMaxAttempts
  MaxFailures      \* bound of the crashes and the failures of the database

ASSUME LifecycleAssumption ==
  /\ {MaxRequests, MaxFailures} \subseteq Nat
  /\ {WriteAttempts, EndAttempts} \subseteq Nat \ {0}
  /\ Deliveries \cap {"stream", "policy", "claim", "elsewhere"} = {}

VARIABLES
  session,   \* the row of telephony_execution_sessions
  writer,    \* the callers of transitionPstnCallLifecycle
  media,     \* the last observation of the media stream, or what became of its end
  token,     \* the media token: who owns the call's media
  ended,     \* how often a premium stream's end was tried in vain
  settled,   \* the settlements that were submitted
  stored,    \* the one of them in billing_terminal_recovery_jobs
  pinned,    \* the outcome in the call's reservation, once that is settled
  released,  \* why the call's admission was given back
  requests, failures

rowVars == <<session, token>>
billingVars == <<settled, stored, pinned>>
effectVars == <<billingVars, released>>
lifecycleVars == <<rowVars, writer, media, ended, effectVars, requests, failures>>

TerminalStages == {"completed", "failed", "expired"}
Stages == TerminalStages \cup {"ringing", "media-connected", "provider-ready", "active",
                               "handoff", "draining"}
FinalStatuses == {"terminated", "completed"}
Statuses == FinalStatuses \cup {"open", "active"}
Terminal(stage) == stage \in TerminalStages

None == 0                        \* no sequence number, no time
Sequences == 1..3
RetryTime == MaxRequests + 1     \* every retry's and every reconciliation's time
ReconcileTime == MaxRequests + 2
Times == 1..ReconcileTime
Writers == Deliveries \cup {"stream", "policy", "claim"}

Outcomes == {"failed", "completed", "transferred"}
\* TrustedTerminalCallFact, as far as the lifecycle decides it.
Facts == [connected : Times \cup {None}, at : Times, outcome : Outcomes]

\* What is asked of transitionPstnCallLifecycle, and when it was observed.
Requests ==
  [stage : Stages, status : Statuses \cup {"keep"}, sequence : Sequences \cup {None},
   owned : BOOLEAN, at : Times]
Request(stage, status, sequence, owned, at) ==
  [stage |-> stage, status |-> status, sequence |-> sequence, owned |-> owned, at |-> at]

\* A writer: where it stands, its lost attempts, how many versions the row has moved on
\* since it loaded it (two stand for more), the connection time it loaded, and the
\* outcome it takes an end for.
IdleWriter ==
  [pc |-> "idle", req |-> Request("ringing", "keep", None, FALSE, 1), tries |-> 0,
   behind |-> 0, connected |-> None, outcome |-> "completed"]

LifecycleTypeOK ==
  /\ session \in [path : {"premium", "sandwich"}, stage : Stages, status : Statuses,
                  sequence : Sequences \cup {None}, connected : Times \cup {None},
                  at : Times \cup {None}]
  /\ writer \in [Writers -> [pc : {"idle", "load", "write", "recheck", "submit", "enqueue"},
                             req : Requests, tries : 0..WriteAttempts, behind : 0..2,
                             connected : Times \cup {None}, outcome : Outcomes]]
  /\ media \in {"none", "claimed", "denied", "media-connected", "provider-ready", "active",
                "handoff", "draining", "ending", "waiting", "recorded", "given-up", "abandoned",
                "refused", "lost"}
  /\ token \in {"unclaimed", "expired", "owned", "lapsed", "deleted"}
  /\ ended \in 0..EndAttempts
  /\ settled \subseteq Facts /\ stored \subseteq settled
  /\ pinned \in Outcomes \cup {"none"}
  /\ released \subseteq {"ended", "refused"}
  /\ requests \in 0..MaxRequests
  /\ failures \in 0..MaxFailures

LifecycleInit ==
  /\ session \in [path : {"premium", "sandwich"}, stage : {"ringing"}, status : {"open"},
                  sequence : {None}, connected : {None}, at : {None}]
  /\ writer = [w \in Writers |-> IdleWriter]
  /\ media = "none" /\ token = "unclaimed" /\ ended = 0
  /\ settled = {} /\ stored = {} /\ pinned = "none" /\ released = {}
  /\ requests = 0 /\ failures = 0

Premium == session.path = "premium"
Failure == failures < MaxFailures /\ failures' = failures + 1

-----------------------------------------------------------------------------
(* transitionPstnCallLifecycle *)

\* isStalePstnLifecycleObservation
Stale(req) ==
  IF req.sequence # None /\ session.sequence # None
  THEN req.sequence <= session.sequence
  ELSE req.stage = session.stage /\ req.sequence = session.sequence

\* canTransitionPstnLifecycle
CanTransition(from, to) ==
  \/ to = from
  \/ Terminal(to)
  \/ from = "ringing"
  \/ from = "media-connected" /\ to \in {"provider-ready", "active", "handoff", "draining"}
  \/ from = "provider-ready" /\ to \in {"active", "handoff", "draining"}
  \/ from = "active" /\ to \in {"handoff", "draining"}
  \/ from = "handoff" /\ to \in {"active", "draining"}

\* Writer w goes on as r; those in the middle of a write are a version behind when the
\* row was written (by w, or elsewhere).
Continue(w, r, wrote) ==
  writer' = [v \in Writers |->
    IF v = w THEN r
    ELSE IF wrote /\ writer[v].pc = "write" /\ writer[v].behind < 2
    THEN [writer[v] EXCEPT !.behind = @ + 1] ELSE writer[v]]

\* The bridge closes the stream.  The end of a sandwich call is then recorded; a premium
\* call has no execution yet, so stop() throws and none is.
Closed == IF Premium THEN "abandoned" ELSE "waiting"

\* The stream once it is answered that it is connected: closed if that could not be
\* written or is not so any more.
AfterConnect(answer) ==
  IF answer = "threw" THEN Closed
  ELSE IF answer = "applied" \/ session.stage \in {"media-connected", "provider-ready",
                                                  "active", "handoff"}
  THEN media
  ELSE IF Premium THEN "refused" ELSE "waiting"

\* The media bridge and the premium execution on the answer to the stream: a premium end
\* counts when the call is found ended, a sandwich end whenever there is an answer, and
\* both are tried again otherwise.
StreamAnswered(w, answer) ==
  LET durable == answer # "threw" /\ (Premium /\ answer = "ignored" => Terminal(session.stage))
  IN
  IF w # "stream" THEN UNCHANGED <<media, ended>>
  ELSE IF media = "ending" /\ ~durable
  THEN /\ ended' = IF Premium THEN ended + 1 ELSE ended
       /\ media' = IF ended' = EndAttempts THEN "given-up" ELSE "waiting"
  ELSE /\ UNCHANGED ended
       /\ media' = CASE media = "ending" -> "recorded"
                    [] media = "denied" -> Closed
                    [] media = "media-connected" -> AfterConnect(answer)
                    [] ~Premium /\ media \in {"active", "draining"} /\ answer = "threw"
                         -> Closed
                    [] OTHER -> media

\* The bridge gives the admission back for a stream that is not to be connected.
Refuses(w, answer) ==
  w = "stream" /\ media = "media-connected" /\ answer # "threw" /\ AfterConnect(answer) # media

\* w has its answer, and has given the admission back if `releases` says so.
Answer(w, answer, wrote, releases) ==
  /\ Continue(w, IdleWriter, wrote)
  /\ StreamAnswered(w, answer)
  /\ released' = released \cup (IF releases THEN {"ended"} ELSE {})
                           \cup (IF Refuses(w, answer) THEN {"refused"} ELSE {})

\* w goes on to submit the settlement of the call's end as `row` has it, with the outcome
\* it goes by for a call that has not failed.
GoSubmit(w, row, wrote) ==
  /\ Continue(w, [IdleWriter EXCEPT
       !.pc = "submit", !.connected = row.connected,
       !.req = [writer[w].req EXCEPT !.at = row.at],
       !.outcome = IF row.stage = "completed" THEN writer[w].outcome ELSE "failed"], wrote)
  /\ UNCHANGED <<media, ended, released>>

\* w goes on to write over the row it has loaded: an end of a call in hand-over is a
\* transfer.
GoWrite(w) ==
  /\ Continue(w, [writer[w] EXCEPT
       !.pc = "write", !.behind = 0, !.connected = session.connected,
       !.outcome = IF session.stage = "handoff" THEN "transferred" ELSE "completed"], FALSE)
  /\ UNCHANGED <<media, ended, released>>

\* The row is loaded: an ended call is settled again as it ended, a late or misplaced
\* observation is ignored, another is written.
Mut_Load(w) ==
  LET req == writer[w].req IN
  /\ writer[w].pc = "load"
  /\ IF Terminal(session.stage) /\ Terminal(req.stage)
     THEN GoSubmit(w, [session EXCEPT !.at = req.at], FALSE)
     ELSE IF Terminal(session.stage) \/ Stale(req) \/ ~CanTransition(session.stage, req.stage)
     THEN Answer(w, "ignored", FALSE, FALSE)
     ELSE GoWrite(w)
  /\ UNCHANGED <<rowVars, billingVars, requests, failures>>
Load(w) ==
  LET req == writer[w].req IN
  /\ writer[w].pc = "load"
  /\ IF Terminal(session.stage) /\ Terminal(req.stage) THEN GoSubmit(w, session, FALSE)
     ELSE IF Terminal(session.stage) \/ Stale(req) \/ ~CanTransition(session.stage, req.stage)
     THEN Answer(w, "ignored", FALSE, FALSE)
     ELSE GoWrite(w)
  /\ UNCHANGED <<rowVars, billingVars, requests, failures>>

\* The row that w writes: the first time the call was seen active is kept.
NextRow(w) ==
  LET req == writer[w].req IN
  [session EXCEPT
    !.stage = req.stage, !.sequence = req.sequence, !.at = req.at,
    !.status = IF req.status = "keep" THEN @ ELSE req.status,
    !.connected = IF writer[w].connected = None /\ req.stage = "active" THEN req.at
                  ELSE writer[w].connected]

Mut_Accepted(w) ==
  ~Terminal(session.stage) /\ (writer[w].req.owned => token = "owned")
\* transitionCallLifecycle: the version is the one that was loaded, and an owner's lease
\* still runs.
Accepted(w) == writer[w].behind = 0 /\ (writer[w].req.owned => token = "owned")

Write(w) ==
  /\ writer[w].pc = "write" /\ Accepted(w)
  /\ session' = NextRow(w)
  /\ IF Terminal(writer[w].req.stage) THEN GoSubmit(w, NextRow(w), TRUE)
     ELSE Answer(w, "applied", TRUE, FALSE)
  /\ UNCHANGED <<token, billingVars, requests, failures>>

\* It lost: to another who wrote the very same row ("existing"), or it is tried again,
\* WriteAttempts times in all.
WriteLost(w) ==
  LET r == writer[w] IN
  /\ r.pc = "write" /\ ~Accepted(w)
  /\ \/ /\ r.behind = 1 /\ session = NextRow(w)
        /\ IF Terminal(r.req.stage) THEN GoSubmit(w, session, FALSE)
           ELSE Answer(w, "applied", FALSE, FALSE)
     \/ /\ r.behind # 1 \/ session # NextRow(w)
        /\ Continue(w, [IdleWriter EXCEPT !.req = r.req, !.tries = r.tries + 1,
                          !.pc = IF r.tries + 1 < WriteAttempts THEN "load" ELSE "recheck"], FALSE)
        /\ UNCHANGED <<media, ended, released>>
  /\ UNCHANGED <<rowVars, billingVars, requests, failures>>

Mut_Recheck(w) ==
  /\ writer[w].pc = "recheck"
  /\ Answer(w, "ignored", FALSE, Terminal(writer[w].req.stage))
  /\ UNCHANGED <<rowVars, billingVars, requests, failures>>
\* After the last attempt the admission is released only if another has ended the call.
Recheck(w) ==
  /\ writer[w].pc = "recheck"
  /\ Answer(w, "ignored", FALSE, Terminal(writer[w].req.stage) /\ Terminal(session.stage))
  /\ UNCHANGED <<rowVars, billingVars, requests, failures>>

\* recordTrustedTerminalUsage: a reservation that is settled says what a call that has
\* not failed was.  Thrown out by elapsedWholeSeconds when the call ended before it was
\* connected; the admission is released whatever comes of it.
Submit(w) ==
  LET r == writer[w] IN
  /\ r.pc = "submit"
  /\ IF r.connected > r.req.at
     THEN Answer(w, "threw", FALSE, TRUE)
     ELSE /\ Continue(w, [r EXCEPT !.pc = "enqueue",
               !.outcome = IF @ = "failed" \/ pinned = "none" THEN @ ELSE pinned], FALSE)
          /\ UNCHANGED <<media, ended, released>>
  /\ UNCHANGED <<rowVars, billingVars, requests, failures>>

\* TerminalBillingRecoveryRepository.enqueue: the first submission is stored, and another
\* must say the same.
Enqueue(w) ==
  LET facts == [connected |-> writer[w].connected, at |-> writer[w].req.at,
                outcome |-> writer[w].outcome]
  IN
  /\ writer[w].pc = "enqueue"
  /\ settled' = settled \cup {facts}
  /\ stored' = IF stored = {} THEN {facts} ELSE stored
  /\ Answer(w, IF stored' = {facts} THEN "applied" ELSE "threw", FALSE, TRUE)
  /\ UNCHANGED <<rowVars, pinned, requests, failures>>

\* The recovery settles the reservation as the stored submission says.
Settle ==
  /\ pinned = "none"
  /\ \E facts \in stored : pinned' = facts.outcome
  /\ UNCHANGED <<rowVars, writer, media, ended, settled, stored, released, requests, failures>>

\* The database fails a step, or its answer is lost after it was done.
StepFails(w) ==
  LET r == writer[w] IN
  /\ r.pc # "idle"
  /\ Failure
  /\ \/ UNCHANGED session /\ Answer(w, "threw", FALSE, r.pc \in {"submit", "enqueue"})
     \/ /\ r.pc = "write" /\ Accepted(w)
        /\ session' = NextRow(w)
        /\ Answer(w, "threw", TRUE, FALSE)
  /\ \/ UNCHANGED billingVars
     \/ /\ r.pc = "enqueue" /\ stored = {}
        /\ settled' = settled \cup {[connected |-> r.connected, at |-> r.req.at,
                                     outcome |-> r.outcome]}
        /\ stored' = settled' /\ UNCHANGED pinned
  /\ UNCHANGED <<token, requests>>

-----------------------------------------------------------------------------
(* Those who write *)

Begin(w, stage, status, sequence, owned) ==
  /\ writer[w].pc = "idle"
  /\ requests < MaxRequests
  /\ requests' = requests + 1
  /\ Continue(w, [IdleWriter EXCEPT !.pc = "load",
                    !.req = Request(stage, status, sequence, owned, requests + 1)], FALSE)

\* handleTwilioStatusCallback: Twilio's events are numbered, and may be delivered at any
\* later time and again.
StatusCallback(d) ==
  /\ \/ Begin(d, "ringing", "keep", 1, FALSE)
     \/ Begin(d, "active", "active", 2, FALSE)
     \/ Begin(d, "completed", "completed", 3, FALSE)
     \/ Begin(d, "failed", "terminated", 3, FALSE)
  /\ UNCHANGED <<rowVars, media, ended, effectVars, failures>>

\* authorizeTwilioMediaStream: the token is claimed, or found expired.
ClaimToken ==
  /\ token = "unclaimed" /\ media = "none" /\ ~Terminal(session.stage)
  /\ token' = "owned"
  /\ media' = "claimed"
  /\ UNCHANGED <<session, writer, ended, effectVars, requests, failures>>

TokenExpired ==
  /\ token \in {"unclaimed", "expired"}
  /\ token' = "expired"
  /\ Begin("claim", "expired", "terminated", None, FALSE)
  /\ UNCHANGED <<session, media, ended, effectVars, failures>>

\* The admission of the claimed stream is activated and the owner of a premium call
\* fenced: the stream is recorded as connected.
MediaConnects ==
  /\ media = "claimed"
  /\ Begin("stream", "media-connected", "keep", None, Premium)
  /\ media' = "media-connected"
  /\ UNCHANGED <<rowVars, ended, effectVars, failures>>

\* The admission is not there any more: the call is recorded as failed.
ActivationDenied ==
  /\ media = "claimed"
  /\ Begin("stream", "failed", "terminated", None, FALSE)
  /\ media' = "denied"
  /\ UNCHANGED <<rowVars, ended, effectVars, failures>>

\* Or the process does not own the premium call any more: the admission is released and
\* the stream closed.
FenceRefused ==
  /\ Premium /\ media = "claimed"
  /\ media' = "refused" /\ released' = released \cup {"refused"}
  /\ UNCHANGED <<rowVars, writer, ended, billingVars, requests, failures>>

\* The stream closes before it is in use: the provider hangs up, the activation or the
\* fence throws, or the execution of a premium call is refused.
StreamCloses ==
  /\ media = "claimed" \/ (Premium /\ media = "media-connected" /\ writer["stream"].pc = "idle")
  /\ media' = Closed
  /\ UNCHANGED <<rowVars, writer, ended, effectVars, requests, failures>>

\* What the stream observes next, as the bridge and the premium execution record it one
\* after the other.
StreamObserves(stage) ==
  /\ \/ media = "media-connected" /\ stage = IF Premium THEN "provider-ready" ELSE "active"
     \/ media = "provider-ready" /\ stage = "active"
     \/ media = "active" /\ stage \in (IF Premium THEN {"handoff", "draining"} ELSE {"draining"})
     \/ media = "handoff" /\ stage \in {"active", "draining"}
  /\ Begin("stream", stage, IF stage = "active" THEN "active" ELSE "keep", None, Premium)
  /\ media' = stage
  /\ UNCHANGED <<rowVars, ended, effectVars, failures>>

EndOf(stage) == IF stage = "completed" THEN "completed" ELSE "terminated"

\* The stream ends: "completed" after it has drained.
StreamEnds(stage) ==
  /\ media \in {"media-connected", "provider-ready", "active", "handoff", "draining"}
  /\ stage = "completed" => media = "draining"
  /\ Begin("stream", stage, EndOf(stage), None, Premium)
  /\ media' = "ending"
  /\ UNCHANGED <<rowVars, ended, effectVars, failures>>

\* retrySandwichTerminalization, scheduleTerminalRetry
RetryEnd ==
  /\ media = "waiting" /\ writer["stream"].pc = "idle"
  /\ \E stage \in {"completed", "failed"} :
       Continue("stream", [IdleWriter EXCEPT !.pc = "load",
         !.req = Request(stage, EndOf(stage), None, Premium, RetryTime)], FALSE)
  /\ media' = "ending"
  /\ UNCHANGED <<rowVars, ended, effectVars, requests, failures>>

\* applyCallRuntimePolicy of a premium call that is to end at once: first its status,
\* then its lifecycle.
PolicyTerminates ==
  /\ Premium /\ media \in {"active", "handoff"}
  /\ session.status \notin FinalStatuses
  /\ session' = [session EXCEPT !.status = "terminated"]
  /\ requests < MaxRequests /\ requests' = requests + 1
  /\ writer["policy"].pc = "idle"
  /\ Continue("policy", [IdleWriter EXCEPT !.pc = "load",
       !.req = Request("failed", "terminated", None, FALSE, requests + 1)], TRUE)
  /\ UNCHANGED <<token, media, ended, effectVars, failures>>

\* A call-control event, or a policy that lets the call close by itself.
StatusChanges(status) ==
  /\ session.status \notin FinalStatuses
  /\ session' = [session EXCEPT !.status = status]
  /\ requests < MaxRequests /\ requests' = requests + 1
  /\ Continue("elsewhere", IdleWriter, TRUE)
  /\ UNCHANGED <<token, media, ended, effectVars, failures>>

\* The process of a writer dies; with that of the stream, its premium policy.
Crash(w) ==
  /\ w \in Deliveries \cup {"claim"}
  /\ writer[w].pc # "idle"
  /\ Failure
  /\ Continue(w, IdleWriter, FALSE)
  /\ UNCHANGED <<rowVars, media, ended, effectVars, requests>>

CrashMedia ==
  /\ media \notin {"none", "recorded", "refused", "lost"}
  /\ Failure
  /\ media' = "lost"
  /\ writer' = [writer EXCEPT !["stream"] = IdleWriter, !["policy"] = IdleWriter]
  /\ UNCHANGED <<rowVars, ended, effectVars, requests>>

\* The owner's lease runs out: sooner or later once nobody renews it, before if the
\* owner's renewals are late.  A worker renews the lease of every stream it has claimed
\* and not released, also of one whose end it has given up.
LeaseLapses ==
  /\ Premium /\ token = "owned"
  /\ token' = "lapsed"
  /\ UNCHANGED <<session, writer, media, ended, effectVars, requests, failures>>
LeaseForgotten == media \in {"refused", "lost"} /\ LeaseLapses

\* fencePremiumCallOwnership extends a lease that has run out, if the call has not ended.
LeaseExtended ==
  /\ Premium /\ token = "lapsed" /\ ~Terminal(session.stage)
  /\ media \notin {"none", "refused", "lost"}
  /\ token' = "owned"
  /\ UNCHANGED <<session, writer, media, ended, effectVars, requests, failures>>

Mut_Reconcile ==
  /\ Premium /\ token = "lapsed" /\ ~Terminal(session.stage) /\ media # "refused"
  /\ session' = [session EXCEPT !.stage = "failed", !.status = "terminated", !.sequence = None,
                                !.connected = None, !.at = ReconcileTime]
  /\ token' = "deleted"
  /\ Continue("elsewhere", IdleWriter, TRUE)
  /\ UNCHANGED <<media, ended, effectVars, requests, failures>>
\* reconcileExpiredPremiumCallOwners, every thirty seconds: the state it writes has no
\* connection time.
Reconcile ==
  /\ Premium /\ token = "lapsed" /\ ~Terminal(session.stage)
  /\ session' = [session EXCEPT !.stage = "failed", !.status = "terminated", !.sequence = None,
                                !.connected = None, !.at = ReconcileTime]
  /\ token' = "deleted"
  /\ Continue("elsewhere", IdleWriter, TRUE)
  /\ UNCHANGED <<media, ended, effectVars, requests, failures>>

-----------------------------------------------------------------------------
Progress(w) ==
  Load(w) \/ Write(w) \/ WriteLost(w) \/ Recheck(w) \/ Submit(w) \/ Enqueue(w)

LifecycleNext ==
  \/ \E w \in Writers : Progress(w) \/ StepFails(w) \/ Crash(w)
  \/ \E d \in Deliveries : StatusCallback(d)
  \/ ClaimToken \/ TokenExpired
  \/ MediaConnects \/ ActivationDenied \/ FenceRefused \/ StreamCloses
  \/ \E stage \in Stages : StreamObserves(stage)
  \/ \E stage \in {"completed", "failed"} : StreamEnds(stage)
  \/ RetryEnd \/ PolicyTerminates
  \/ \E status \in {"open", "active", "completed"} : StatusChanges(status)
  \/ CrashMedia \/ LeaseLapses \/ LeaseExtended \/ Reconcile \/ Settle

\* A handler goes on to its answer or dies, the timers of a stream's end fire, a lease
\* that nobody renews runs out, and the reconciler's interval passes.
LifecycleFairness ==
  /\ \A w \in Writers : WF_lifecycleVars(Progress(w))
  /\ WF_lifecycleVars(RetryEnd) /\ WF_lifecycleVars(LeaseForgotten)
  /\ WF_lifecycleVars(Reconcile)

LifecycleSpec == LifecycleInit /\ [][LifecycleNext]_lifecycleVars /\ LifecycleFairness

-----------------------------------------------------------------------------
(* Properties *)

\* A call that has ended stays as it ended, whoever still writes with what it loaded
\* before; and the first time the call was connected is kept by all who write against a
\* version (the reconciler does not).
EndIsFinal ==
  [][/\ Terminal(session.stage) => session' = session
     /\ session.connected # None /\ token' # "deleted"
          => session'.connected = session.connected]_lifecycleVars

\* Every settlement that is submitted for the call says the same of when it was connected
\* and when it ended, and whether it failed: duplicates of a terminal event take the end
\* from the row and not from what they observed.
SubmissionsAgree ==
  \A x, y \in settled :
    /\ x.connected = y.connected /\ x.at = y.at
    /\ x.outcome = "failed" <=> y.outcome = "failed"

\* A replay "submits the same terminal fact to durable billing recovery", so that it is
\* a repetition and not a conflict ("already has different terminal facts"), and a
\* transfer stays a transfer.
OneTerminalFact == Cardinality(settled) <= 1

\* "Terminal persistence failure no longer releases admission before the durable terminal
\* transition succeeds": but for a stream that is refused, the admission of a call is
\* released when its end is recorded.
ReleasedWhenEnded == "ended" \in released => Terminal(session.stage)

\* A call whose media has ended comes to its end: the end is tried again, and when the
\* stream of a premium call is refused or lost with its worker, the reconciler records
\* it.  Not so when a living worker gives the end up, for it goes on renewing the lease
\* that the reconciler waits for; and the end of a sandwich call that is lost with its
\* process is left to the provider.
EndedMediaEndsCall ==
  media \in {"ending", "waiting", "refused", "lost"}
     ~> (Terminal(session.stage) \/ media = "given-up" \/ (~Premium /\ media = "lost"))

\* A call does not end before it was connected: elapsedWholeSeconds throws, and the call
\* can never be settled.
ConnectedBeforeEnd == Terminal(session.stage) => session.connected <= session.at
=============================================================================
