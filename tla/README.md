# Zara: TLA+ models of the live-call core

Zara (`src/`) is a TypeScript monorepo that runs AI voice agents on telephone
and browser calls. This directory holds TLA+ models of the parts of it in which
several processes act on shared state, their TLC configurations, and theorems
about them with proofs for TLAPS. Source paths below are relative to
`apps/api/src/` unless they start with `packages/` or `docs/`.

Run `tlc -workers 2 -config X.cfg M` for the pairs of the table of runs, and
`tlapm M.tla` for the modules that hold proofs (section 5). `PROJECT.json` maps every definition to
the lines it models and lists components, runs, mutants, hazards, findings and
theorems.

## 1. Inventory

### Components

| Component | State it keeps | Operations | What makes it hard | What makes it correct |
|---|---|---|---|---|
| PSTN admission store (`telephony/redis-pstn-call-admission.ts`) | Redis: a hash per call, sorted sets per counter, recovery holds, calls-per-second buckets | Lua scripts reserve, activate (and recover), renew, release, fenced release; expiry | three keys per call with expiries of their own; lapsed calls that are still owed a slot; fencing | no counter exceeded; a slot kept for every recoverable call; one owner, epochs that only its recovery moves |
| PSTN admission coordinator (`telephony/pstn-admission-coordinator.ts`, `pstn-admission-redis-client.ts`) | per process: tracked admissions, doubtful leases, releases owed | reserve, activate, renew/recover, confirm, expire, lose, release, retry, shut down | every await may be overtaken; commands time out and still execute; answers are lost | authority is backed by the store; doubt ends; releases settle; ended calls give up their lease |
| Media stream bridge (`telephony/twilio-media-streams.websocket-bridge.ts`) | attached streams, owner, epoch | claim token, activate, fence, confirm or lose ownership, terminalize | start, loss and end race; each of the steps of a loss may fail | a stream of an ended call is closed, its lease released |
| Telephony service and its repository (`telephony/telephony.service.ts`, `postgres-telephony-incremental.repository.ts`) | durable call sessions with a version and a lifecycle stage, stream tokens, webhook events | webhook, set-up, versioned lifecycle transitions, durable fence, reconciler | duplicate and concurrent webhooks; optimistic retries; a reconciler in the background | one terminal stage per call; what the call holds is given back |
| PAYG credit (`billing/billing-charge-reservation.repository.ts`, `trusted-payg-call-lifecycle.service.ts`) | an account counter per tenant, a reservation per call, debit entries | reserve (sweeps expired ones), release, finalize | calls of a tenant compete; deliveries of a webhook share a reservation; expiry against settlement | the counter is the sum of open reservations; nothing is promised twice; a live call is funded |
| Terminal billing recovery (`billing/trusted-terminal-billing-recovery.service.ts`, `terminal-billing-recovery.*`) | one job per call: facts, attempts, lease | submit, claim, settle, record, complete, retry, dead-letter; scheduler passes | three transactions per attempt, crashes between them, leases that expire under a slow worker | reservation and ledger agree; a job comes to an end |
| Billing ledger, packs and Polar outbox (`billing/postgres-billing-ledger.repository.ts`, `billing-polar-outbox.*`) | orders, credit entries, ledger entries, outbox | paid order, refund, append, claim, deliver, recover stale, dead-letter | at-least-once delivery, stale claims, refunds against use | a used pack is kept; each entry delivered once in effect |
| Subscription call lifecycle (`billing/trusted-subscription-call-lifecycle.service.ts`) | reservation with pinned catalog and PAYG part | start, release, finalize | two sources of funding in one transaction | as PAYG credit |
| Charge promotion and release (`billing/*charge-promotion*`, `*charge-release*`) | approvals, promoted events, the stop | approve, promote, gate, stop | a stop against a pass under way | only what was promoted is charged; a stop is prompt |
| Premium call execution (`telephony/pstn-premium-call-actor.ts`, `pstn-premium-call-execution.ts`) | per call: actor state, buffered media and its share of a worker-wide admission, provider connections, the end still to be recorded | start, ingress, hand-over to another provider, drain, stop, failure, retried write of the end, shutdown | a stop during the start; a stop, a deadline and a late replacement during a hand-over; a shutdown over all of it | one provider connection per active call; nothing held that is not given back; every abandoned call ends |
| Premium playback (`telephony/pstn-premium-playback-controller.ts`) | per call: responses, marks in flight, queue, leases of queued bytes | start, append, finish, acknowledge, interrupt, dispose | marks return in any order, before and after an interruption | counters agree with what is on its way |
| Realtime worker (`realtime-worker/*`) | lifecycle state, a heartbeat in Redis with an expiry | refresh, publish, select, drain, shut down | a refresh in flight when the drain begins; a heartbeat Redis took and whose answer was lost | a drained worker is not chosen, and cuts no established call before its window is over |
| Stream token (`security/one-time-stream-token.ts`) | signed token, claim | sign, verify, claim | key rotation, replay | claimed at most once |
| Browser sessions, sandbox sessions (`runtime-sessions`, `sandbox-live-sessions`) | sessions, sockets | set-up, relay | provider sockets | a session ends once |
| Core packages (`packages/core/src`) | none across calls | turn packets, routing, validation, live-call session | sequential | functional correctness |
| Memory, integrations, accounts, agents, observability, schema, front ends | records | CRUD, HTTP, presentation | little of their own | validation |

### How they interact

A call's webhook reaches a front process (role `api`). It records the delivery,
reserves credit (`startPaygCall`), and, as the provider start of that
reservation, an admission in Redis; then it stores the call in one transaction
(`createCallSetup`). The media stream arrives at the front process itself
(sandwich path) or at a realtime worker (premium path), which claims the stream
token, activates the admission, writes the durable fence and renews the
lease until the call ends. The end comes from a status callback, the stream, the
loss of the lease, the funding policy or the reconciler; it writes the terminal
stage, releases the admission, and submits the settlement of the credit, which
the process tries at once and the recovery scheduler after it.

## 2. Plan

Modules, in the order of their importance. Those marked with an asterisk exist.

1. `PstnAdmission`* – the store; `AdmissionContract`* – what it promises;
   `PstnAdmissionRefinement`* – the mapping; `PstnAdmissionProofs`*; `PstnCps`* –
   the call rate, with `PstnCpsProofs`*.
2. `PstnAdmissionCoordinator`* – composes the store (INSTANCE) with the processes,
   the connection and the call's session; `PstnAdmissionCoordinatorProofs`*.
3. `PaygCredit`* – the database transactions of credit, jobs and packs;
   `PaygCallBilling`* – extends it with the processes that call them.
4. `CallLifecycle`* – the versioned lifecycle writes, their retries and the
   reconciler.
5. `PremiumCall`* – actor, execution service and the bridge that drives them;
   `PremiumPlayback`* – marks and queue.
6. `WorkerDrain`* – registry, selection from stale heartbeats, drain, shutdown.
7. `ChargeOutbox`* – promotion, claim, delivery, stale recovery, dead-letter
   replay and the charge stop.
8. `SubscriptionCredit` – the subscription counterpart of `PaygCredit`.
9. Pure parts: charge calculation, token key windows.

Theorems (`*Proofs` modules): every invariant and every safety action property of the passing
runs has one; section 5 has their arguments. What is still worth proving comes with modules 8
and 9, and with `EndedCallReleased` for more than one delivery of a webhook, of which it is
false as the code stands (section 6).

## 3. What is modelled

### PstnAdmission: the Redis store

`lease` is the hash of a call, `score` the sorted sets (a score of 0 is an absent
member), `hold` the recovery hold with its owner and epoch keys, `tokens` the
buckets. Each Lua script is atomic and is one action with its outcome as a
parameter (`Reserve`, `Activate`, `Recover`, `Renew`, `Release`,
`ReleaseFenced`). `Tick` advances the clock and drops what has expired. A process
may send any command about any call at any time: the composition below restricts
that, the theorems do not need it. Processes and Redis share one clock.
`AdmissionContract` says the same without clocks and records: a call is out,
claimed, active or lapsed. `PstnAdmissionRefinement` maps the store to it.
`PstnCps` adds a history of the admissions to state the rate over a window.

### PstnAdmissionCoordinator: the processes

Every await on the store is a slot of `rpc` (reserve, activate, renew, release,
per process and call). A request is sent, then executed and answered (`Serve`),
executed with its answer lost (`LoseAnswer`), or timed out (`Fail`), in which case it may
stay behind in `stray` and be executed at any later time. The answer resumes the
handler in a step of its own. A process has one connection, which executes commands and
answers them in the order they were sent, of whatever call: `earlier` is that order, which every
step that sends or ends a wait keeps up (`KeepOrder`); a command is executed when no earlier one is
still to be (`Foremost`), and its answer handled when those of all earlier ones have been (`InOrder`).
The client's own time-out is outside this order, and so is a command in
`stray`, which may have been sent over a connection that is lost. `tracked`, `unresolved` and `pending` are the three
maps of the coordinator; `mine` in a slot says whether the entry a handler
captured before its await is still the one in the map. `call` is the durable
session, `media` the streams kept open. A crash forgets all of a process and
brings it back under the same worker id.

Abstractions: one renewal per call is in flight at a time, as in the code;
the fence and the "media-connected" write of `MediaConfirmed` are one step; the
reconciler may end a call whose fence has not been extended at any time; a
write of the database that throws closes the stream and leaves the lease to whoever
ends the call (`MediaStartThrows`, `RenewalRejected`, `LossHandled`); audio, marks and the turn loop are left out.
One call is enough here: calls meet only in the store, which has runs of its own.

### PaygCredit: the transactions of billing

`packs` are the orders in order of purchase, `account` the counter of
reserved credit, `res` the reservation of each call (a finalized one stands
for its debit entry), `job` its recovery job, `usage` its ledger entry. Transactions
on reservations hold the row lock of the account and are one step; a refund does not
take that lock, so its check and its reversal are two (`CheckRefund`,
`EndRefund`). `attempts` serves as the lease token, which is drawn anew by every
claim. The environment may have any transaction follow any other. `RecordUsage` appends the
runtime and the telephony entry of a call in one step; in the code they are two appends,
each idempotent by its key, and a crash between them is made good by the next attempt
of the job, which appends both again.

### PaygCallBilling: who calls them

`hook` is where the handler of each delivery of a webhook stands, `run` what each
terminal callback and each scheduler is doing, `call` the durable session. Steps
are cut at the awaits: reserve, admit, set up, release; submit, claim, settle,
record, complete or fail. A fault is a crash of a process or a database call that
fails before or after its commit. The rate is one unit of credit per tick of connected time, and
nothing keeps a call from outlasting its reservation: the funding policy ends
calls through `EndCall`, which may or may not come in time. `Sweep` is the
reservation of another call of the tenant. An answer of the session and of the
reservation that a callback reads before it submits is read in the step that submits.

### ChargeOutbox: from a shadow event to Polar

`row` is `billing_outbox`; `pass` is what each process's scheduler is doing, one
transaction or request at a time, with what is left of its batch and the attempt
counts its claim returned. `due` stands for `next_attempt_at`: that the next
attempt of a pending event has come, or that the lease of a claimed one has run out. A pass may
outlast its lease (`Overrun`), after which another takes its events: claims have no
token, so what the first reports is taken for the second's. `polar` is a set since Polar
knows events by their external ids. `stopped` is the stop, or an approval that is
no longer current.

### CallLifecycle: who writes the state of a call

`session` is the row; the read and the conditional write of
`transitionPstnCallLifecycle` are two steps (`Load`, `Write`), and a write that
lost begins anew (`WriteLost`) until its last attempt (`Recheck`). `writer` has one
slot for each status callback handled at a time, one for the stream, one for the
active-call policy and one for the expiry of the token; `behind` counts the versions
the row has moved on since the slot loaded it (two stand for more). `Submit` and `Enqueue` are
the settlement that follows an end: the facts are put together from the row and from what the
writer had loaded, and stored as a job or compared with the one that is there
(`settled` are the facts ever submitted, `stored` the job's). Whether a call that has not failed
was completed or transferred is the writer's to say, by the stage it loaded, until the
recovery has settled the reservation (`Settle`), which then says it (`pinned`). Whatever becomes
of the submission, the admission is released. A stream is claimed (`ClaimToken`), and is connected,
denied, refused or closed before it is in use (`MediaConnects`, `ActivationDenied`, `FenceRefused`,
`StreamCloses`); `StreamAnswered` is what the bridge and the premium execution make of the answer
to what it then observes. A write that throws closes the stream: of a sandwich call the end is
then recorded, of a premium call that has no execution yet nothing is (`Closed`). Callbacks come late, twice
and out of order: `StatusCallback` may bring any of Twilio's events at any time.
Observation times are the order in which events were observed; all retries
of an end share one later time, the reconciler another. A lease that lapses
while its owner lives stands for late renewals, and can be extended again (`LeaseExtended`). A
worker renews the lease of every stream it has claimed and not released, also when it
has given its end up: only a refused stream and a dead worker let it run out for good
(`LeaseForgotten`).

### PremiumCall: the media of premium calls in one worker

`call[c]` holds what three objects keep of a call: the bridge (`stream`, `caller`,
`goodbye`, `stops`), the execution service (`start`, `cancel`, `held`, `stage`,
`write`, `tries`) and the actor (`actor`, `buffer`, `sends`, `epoch`, `swap`).
`legs` are the provider connections that were opened and not closed here, which is
what the hand-over may get wrong. A step runs from one await to the next. `Stop` is the stop of
the execution service, for each of those who call it (`Stoppers`); a stop that finds the call
starting is remembered in `cancel` and resumed by `StartEnds`. `shut` and `flush`
are the shutdown: the bridge's, then the execution service's over executions
and over failed starts; `flush` is empty until the executions are gone over. Audio is a count of units; providers, turns and the payload
of events are left out. The two kinds of provider differ in what a hand-over waits
for, which is the choice of `BeginHandoff`.

### PremiumPlayback: what a call still has to play

One controller, and the share of the worker's playback admission the other
calls hold (`elsewhere`). Commands are queued behind the limit of marks and sent as
marks come back. An operation that throws half done ends the call, so that what
it had done is not kept (`failed`).

### WorkerDrain: the end of a worker

`refresh` is the refresh in flight; `drain` joins it, publishes "draining", and if
it cannot, sleeps until the last heartbeat it knows of has run out; then it waits for the counted
calls until the deadline, publishes once more and is followed by the shutdown.
`heartbeat.heard` is history: whether the worker ever got the answer of what
is in Redis. `guest` is a call that others route to the worker, from its selection to its end.

### Independent parts in one run

`CallLifecycle`, `PremiumCall`, `PremiumPlayback` and `WorkerDrain` meet through
narrow interfaces and are checked with free environments: the lifecycle takes
any stream that observes and ends, the execution any store that answers or fails, the
drain any calls. They share no variable, so a product of them would multiply
states without adding a behaviour. `MCMediaWorker` puts them side by side: `part`,
chosen at the start, is the one that moves, and the others stay in their initial
states, in which no action under fairness is enabled. `MCSharedLimits` does the same
with what several calls compete for: memory and start-up places of a
worker, the credit of a tenant. `MCPstnAdmission` keeps the history of admissions in
behaviours of their own, which have one worker and end at `RateTime`. `MCBilling` has the settlement of
a call beside the outbox, which meet in a ledger entry only; since both move from
the start, its fairness is that of the part that moves.

## 4. What is checked

| Run | Module, configuration | Bounds | Shows |
|---|---|---|---|
| `admission_store` | `MCPstnAdmission` | 3 calls, 2 tenants, 2 workers, clock to 6, leases of 2 ticks; for the rate 3 buckets, 1 worker, clock to 3 | counters, kept slots, holds, fencing, and the refinement of `AdmissionContract`; admissions in every window fit burst plus refill |
| `coordinator_premium` | `MCPstnAdmissionCoordinator`, `MCCoordinatorPremium` | 1 premium call, front and worker, worker crash, one stray command | types, authority backed by the store, doubt is tracked, ended calls released |
| `coordinator_sandwich` | `MCPstnAdmissionCoordinator`, `MCCoordinatorSandwich` | 1 sandwich call, 2 webhooks, crash, clock to 2 | authority backed by the store with duplicate webhooks |
| `coordinator_liveness` | `MCPstnAdmissionCoordinator`, `MCCoordinatorLiveness` | 1 premium call, no crash | releases settle, streams of ended calls stop, admission reopens |
| `billing_recovery` | `MCBilling` | 1 call, 1 webhook, 1 callback, 1 scheduler, 2 faults, clock to 3, 2 attempts; 2 events, 2 dispatchers, batches of 2, 1 fault | reservation and ledger agree; submitted settlements end; only promoted events are charged, a stop is prompt, delivered events stay delivered, promoted ones settle |
| `shared_limits` | `MCSharedLimits` | 2 premium calls with 1 unit of shared media and 1 start-up place; 2 calls of a tenant, 1 pack of 2 | one connection per active call, media held and given back, starts bounded, shutdown settles; the credit counter is the sum of open reservations and covered |
| `media_worker` | `MCMediaWorker` | 1 premium call, 1 hand-over, 2 writes of an end; 2 responses, 2 marks; 1 callback slot, 3 observations, 1 failure; 1 guest, heartbeat and window of 2 ticks | playback counters; settlements of a call agree on its times and on failure, ends are final, admission is released after the end, ended media ends the call; abandoned calls, hand-overs, shutdown and drain end; a drained worker is hidden and gives calls their window |
| `released_late` | `MCPstnAdmissionCoordinator`, `MCCoordinatorLateRecovery` | 1 sandwich call | finding, below |
| `refund_of_used_pack` | `MCPaygCredit`, `MCPaygRefund` | 1 call, 2 packs | finding, below |
| `duplicate_webhook_releases` | `PaygCallBilling`, `MCPaygCallLive` | 1 call, 2 webhooks, no faults | finding, below |
| `ended_before_connected` | `CallLifecycle`, `MCLifecycleLateWrite` | 1 callback slot, 3 observations, no failure | finding, below |
| `transfer_submitted_twice` | `CallLifecycle`, `MCLifecycleTransfer` | 1 callback slot, 6 observations, 1 attempt of a write, no failure | finding, below |

Why the bounds are enough: three calls with limits of one and two make every counter
full and leave one to be refused; leases of two ticks and a clock of six let a
call lapse, be recovered and lapse again; for the rate a clock to 3 has a burst, the refill
after it and calls that lapse and are admitted again; one stray command is one too late for
any handler; a clock to 3 lets a job be retried after its first back-off and its lease
expire; two attempts reach the dead letter. The last tick of the billing clock
stands for all later times, so nothing is cut off there. `MaxClaims` is large
enough that it never stops a claim in `billing_recovery` (otherwise
`SubmittedSettles` would fail). In the outbox two dispatchers with batches of two can
take each other's events in the middle of a batch, one fault is a crash, a failed
write or an overrun, and two attempts reach the dead letter.

One premium call suffices for the liveness of `media_worker`, since calls meet only in the
memory and the places they share, for which `shared_limits` has two and
one of each. One hand-over shows every crossing with a stop, a failure and a late replacement: a second
begins where the first has restored the state of a call with one connection. Two marks and two queued frames
fill both and leave a frame to be refused. Three observations are an end, another writer
that beats it and one that follows; the slot of a status callback is used again, so that its deliveries
repeat and reorder. Five attempts of a write stand for the ten of the code: more than the other
writers can make one lose, so that only a lost token exhausts them. A premium call in hand-over
takes a stream four observations, so that its end is seen in `transfer_submitted_twice`, which has six; the
safety properties of the lifecycle are theorems for any number of them. Heartbeat and window of two ticks let
either run out first.

All configurations but those of the store say `CHECK_DEADLOCK FALSE`: there the clock,
the deliveries and the faults are bounded, and when they are used up the system
has nothing more to do.

Every property of a passing run has a mutant in the modules (`Mut_...`, defined
before the definition it would replace): a plausible mistake in that code
which makes the property fail in that very run.

### Fairness

`coordinator_liveness` assumes that time passes; that a command is answered or
times out (the client sets a timeout on every command) and its handler goes on;
that the timers run (`setInterval` of renewals and retries, `setTimeout` of
deadlines); that a call which is being set up has its reservation answered; and, strongly, that a renewal, recovery or release sent again and
again is answered in the end. `billing_recovery` assumes that time passes and that
a process goes on with what it has begun and its scheduler (`setInterval`, 30 s)
with its passes; crashes and failures are bounded and may come anywhere. The outbox's
dispatchers go on likewise, and a delay or the lease of a pass that has ended runs out; that a
pass outlasts its lease is a fault, since two that always do could take an event from
each other for ever. Nothing
is assumed of webhooks, streams, callbacks, purchases and crashes.

In `media_worker`, `PremiumFairness` assumes that timers fire (readiness,
the hand-over's deadline, the drain's second, the retry of a write), that the provider,
the store and a write answer or fail, and that a call whose caller is gone speaks
to the closed socket or misses its response deadline (`SpeakToNobody`): the
stop of a bridge that was rejected is not repeated, and nothing else would end such a call.
Not assumed: Twilio's messages, the end of an announcement, the beginning of a shutdown.
`LifecycleFairness` assumes that a handler goes on or dies, that the retry of a stream's
end fires, that a lease nobody renews runs out and that the reconciler's interval
passes. `DrainFairness` assumes that time passes, that Redis answers or times out, and that
the drain goes on when it is woken; calls need not end.

### Findings

- `released_late`: a recovery that was executed but not answered leaves the
  process with the old epoch. Its later release is fenced with that epoch,
  answered `not_owner` and taken for settled; the lease of the ended call stays
  active until it lapses, and its hold then blocks new calls.
- `refund_of_used_pack`: `remainingGrantForOrder` counts debits first against
  packs that have already been refunded, so a later pack that has been used is
  found unused and refunded too.
- `duplicate_webhook_releases`: of two overlapping deliveries the second releases,
  when it is refused, the reservation that the first has set the call up with.
- `ended_before_connected`: an end that was observed first and written last, after
  a lost attempt, leaves a row whose end precedes its connection; the settlement is then
  rejected by an assertion, now and at every repetition of the event.
- `transfer_submitted_twice`: the delivery that ends a call in "handoff" submits it as
  transferred; a replay that loads the ended row before that is settled submits it as
  completed, and is refused as a different fact. `SubmissionsAgree` is what is left: all
  submissions agree on when the call was connected, when it ended and whether it failed.

In each of them the code does one thing and a document or test says another;
`PROJECT.json` quotes both.

While writing the properties of the premium path, TLC showed some more behaviours in which the
code does less than one might expect. They are part of the models, excepted by name
in the property that would otherwise fail:

- A flush of held media that the replacement cannot take fails the call with the actor
  already sending to the replacement, and nobody closes the source connection
  (`CongestedFlush`; `swap = "congested"` in `AbandonedCallEnds`).
  docs/Premium-PSTN-Failure-Runbook.md:29 expects both to be closed.
- A stop with "failed" of a call that is draining is rejected, and a shutdown that meets
  a draining execution without a terminal outcome is rejected while the others are
  still being tried (`FlushExecutions`; `shut = "rejected"`).
- A stream that was claimed and is not yet counted is cut by a drain that reports
  "empty" (`guest.early` in `WindowIsGiven`; a property without that exception fails after
  15 steps). docs/Production-Deployment.md:58 speaks of established calls.
- A premium worker that has tried in vain to write an end, as often as it does, still
  renews the admission and with it the lease that the reconciler waits for, so
  that the call stays open until the worker dies or the provider reports its end
  (`media = "given-up"` in `EndedMediaEndsCall`).
  docs/Handovers/ISSUE-231-multi-worker-drain-fencing-failure-recovery.md:12 has terminal persistence expose
  "exhaustion for reconciliation".
- A premium stream that is closed before its execution has started, because a write threw or
  the provider hung up, records no end (`media = "abandoned"`, of which `EndedMediaEndsCall`
  promises nothing); nor does the process that is to retry the end of a sandwich stream and
  dies (`~Premium /\ media = "lost"`). Both are left to the provider's callback.
- The reconciler writes a row without the connection time (`token' # "deleted"` in
  `EndIsFinal`), and submits no settlement.
- The status of a call that a call-control event or the policy has made final is
  overwritten by the next lifecycle write, an in-progress callback included, as long as the stage has
  not ended: `transitionPstnCallLifecycle` looks at the stage only. `EndIsFinal` therefore speaks of the stage.
- An event that Polar has taken, but whose `markOutboxDelivered` fails at the last
  attempt, is dead-lettered; so is one that another pass delivers at that time. `ChargeOutbox`
  states no more than that what is recorded as delivered Polar has.
- A delayed in-progress callback may bring a call from "handoff" back to "active".

## 5. What is proved

All theorems hold for every value of the constants that satisfies the assumptions named in the
modules. Apart from bounds being natural numbers, these are: the sets that something is counted
or summed over are finite (`Calls`, `Events`, `PremiumCalls`, `Responses`); the names of the writers of a
lifecycle are distinct (`LifecycleAssumption`); callbacks and schedulers are not the same
processes, and a call ends completed, transferred or failed (`BillingAssumption`); the processes
that take webhooks are processes, and premium calls are calls (`CoordinatorAssumption`). The
coordinator takes over what the store assumes (`StoreAssumption`). Two theorems assume more:
`UnresolvedStaysTracked` is about premium calls only, `EndedCallsAreReleased` about premium calls
whose webhook is delivered once (`MaxWebhooks <= 1`). Both say so in their statements.

| Module | Theorems |
|---|---|
| `PstnAdmissionProofs` | `TypeCorrect`, `AdmissionInvariant`, `LeaseAlwaysRecoverable`, `RecoverySlotsAlwaysKept`, `CapacityAlwaysRespected`, `OwnershipAlwaysFenced`, `StoreImplementsContract` |
| `PstnCpsProofs` | `CpsInvariant`, `CallRateBounded` |
| `PstnAdmissionCoordinatorProofs` | `CoordinatorInvariant`, `CoordinatorTypeCorrect`, `AuthorityAlwaysBacked`, `ComposedStoreIsSafe`, `PremiumDoubtsAreTracked`, `UnresolvedStaysTracked`; `PremiumEndInvariant`, `EndedPremiumCallsLeaveNothing`, `EndedCallsAreReleased` |
| `BillingProofs` | of `PaygCredit`: `CreditTypeCorrect`, `CreditInvariant`, `AccountAlwaysSum`, `ReservationsAlwaysCovered`, `DecisionsStand`; of `PaygCallBilling`: `BillingTypeCorrect`, `BillingInvariant`, `SettlementsAgree`, `BillingAccountIsSum`, `BillingReservationsCovered`, `ProcessesLetDecisionsStand`; of `ChargeOutbox`: `OutboxTypeCorrect`, `OutboxInvariant`, `ChargesAreAllowed`, `DeliveryIsKept`; of both side by side: `BillingPartsTypeCorrect`, `BillingPartsAreSafe` |
| `PremiumCallProofs` | `PremiumTypeCorrect`, `PremiumInvariant`, `OneLegWhileActive`, `StartupsStayBounded`, `HeldMediaWaits`, `ShutdownSettles` |
| `PremiumPlaybackProofs` | `PlaybackTyping`, `PlaybackInvariant`, `PlaybackAccounted` |
| `MediaWorkerProofs` | of `CallLifecycle`: `LifecycleTypeCorrect`, `LifecycleInvariant`, `SettlementsOfACallAgree`, `ReleaseFollowsEnd`, `EndStaysAsRecorded`; of `WorkerDrain`: `DrainTypeCorrect`, `DrainInvariant`, `DrainedIsHidden`, `CountedCallsHaveTheWindow`; of the four parts side by side: `PartsTypeCorrect`, `PartsAreSafe` |
| `SumTheorems` | lemmas only: sums of a function over a finite set |

**The store.** `AdmissionInv` is the conjunction of `StoreInv` (records, sorted sets, holds and
clock agree: a live call has its score at exactly its keys, an active one its hold),
`RecoverySlotsKept` and `WorkerCapacity`. None of the three is inductive alone: that a
reservation leaves the kept slots alone needs the counters to count what the records say, and
that a recovery finds its slot needs the slot to have been kept. The argument goes by what
a script leaves behind, not by its code: a lemma says of each command which calls it may touch
and how. Counters are compared by cardinality: the members of a sorted set are the live calls
at its key (`SameCardinality` carries this to the contract). `StoreImplementsContract`:
initial states map to initial states and every step to a step of `AdmissionContract` or a
stutter.

**The call rate.** `CpsWindow` speaks of the past only and is not inductive. `Balance` adds what a
bucket holds now: what was created against it since a time and its tokens are together no more
than its burst and its refill since. An admission moves one from the second to the first, a
tick adds to the second no more than to the bound, and for a stretch that begins now it says that the
bucket is not overfull. A release, a retry and a recovery touch neither.

**The processes around the store.** `CoordinatorInv` has four parts. `StoreFit` is what the
store's own proofs say of it. `SystemFit` says of each process and call that what it tracks,
what it owes and what its slots await fit each other (`ProcessFit`), that only the
process which has claimed the stream activates (`Roles`), and that every command sent or left behind names
a worker and an epoch of the store (`CommandFit`). A command that names a worker and an epoch
of the store runs one of its scripts (the lemma `StoreRunsItsScripts`), so that the theorems of the
store hold of the composed system (`ComposedStoreIsSafe`). `BackInv` is the argument for `AuthorityBacked`.
A process that counts on a lease, or is about to because a confirming answer waits in a slot, is
right about it (`Sound`): leases are only extended, unless they are released, and a tick drops no
lease whose deadline lies ahead. A release is only owed, sent or left behind for a call that is
over, or that its one owner has given up with no activation to come (`ReleaseFree`, `Abandoned`);
nobody counts on either. What makes a late release harmless is that a stream is claimed once, and
that a lease is tracked only after its activation has been answered: when it is given up, no
other activation is under way. `PremiumResolved` needs that a premium call is
reserved by a process which never activates it: a reservation can then not replace an
active entry. For sandwich calls that depends on the order of the one connection and on times, a lease
against a time-out of the client, that the model leaves open, and `UnresolvedIsTracked` is not claimed of them. A handler's turn is shown to keep all four by what it leaves behind (`TurnKeeps`),
a step of the connection by the answer it leaves in a slot (`AnswerKeeps`).

**Ended calls.** `EndInv` is about a premium call whose webhook is delivered once, while no
front process crashes (a worker may, at any time). Once the call is set up, either the store holds
nothing of it (`NothingHeld`: no lease, no hold) or some front process is `Coming` (it still tracks
the claim it made, or owes a release that the store has not taken).
A front never activates a premium call, so that its release is unfenced (`Unfenced`) and removes the
record whatever the epoch a worker has given it. The webhook reserves once and waits for the answer
before the call is set up (`ReservedOnce`), so that afterwards no reservation is adrift; and a call without
a record cannot be activated, renewed or recovered (`DeadStays`), so that what has been
released stays released. `LeavesNothing` follows when no process is at work on the call
any more (`Settled`), and `EndedCallReleased` from it. The two hypotheses are needed: section 6 has
the behaviours without them.

**The lifecycle.** `SubmissionsAgree` and `EndIsFinal` are not inductive, because they do not
mention what a writer still carries in its hands. `LifecycleInv` does: a writer that has not fallen
behind knows the row as it is, so that one about to write finds it not ended, and one
that submits a settlement submits the row's end: its times, and an outcome that is "failed" just
when the row is not "completed" (`Sound`, `Agrees`). What was submitted, and what the reservation was settled
with, is the end of the row likewise (`SettledAsEnded`). That all submissions say "transferred" if one does is no
part of it, and false. A write leaves all other writers behind, and at that time nobody
submits, since the row has not ended.

**Credit and settlement.** `CreditInv` adds to the two properties of the account that only a
finalized reservation has a charge and that a submitted job has its facts. Each of the
transactions is shown to keep it, and to take back nothing that was decided (`Lasting`): that
second fact is what the processes rely on. Between the settlement of a call, its ledger entry
and the completion of its job, which a runner makes in three transactions, other runners, handlers
and the sweep do as they please. `BillingInv` says what a runner may count on at each stage
(`RunnerSound`): one that goes on to record has settled the call with the facts of the job, one that
goes on to complete has recorded them. `Lasting` keeps that true whatever the others do
(`StaysSound`), so that only the runner's own step has to be looked at. The times of a call are part of it
(`CallTimes`), or the charge would not be a number.

**The outbox.** `OutboxInv`: all that a pass still holds of its batch may be charged, since a
claim takes promoted events only and a promotion is never taken back; a pass that reports a
delivery has been answered by Polar; who has sent once after the stop is past its last
look at the gate.

**Premium calls.** `PremiumInv` has a part about one call, that the phases of bridge, execution
service and actor exclude each other and that an actor that can still speak owns its
connection (`Coherent`), and a part about the shutdown: each phase has a set of calls it has
done with for good, because nothing starts any more (`ShutdownProgress`). The limit on
starts and the limit on held media are inductive given the first part.

**Playback.** `PlaybackAccounts` counts frames with folds and filters over two sequences. `PlaybackInv`
says where a command can be: frames are queued only behind a full window of marks; what the actor
believes a response still owes is what is in flight or queued of it (`Owes`, in terms of
`OnItsWay`); a response remembered as over is never tracked again (`NeverRevived`). Accepting a frame and draining
the queue only move commands between the two places, so that the sums stay as they are; an
acknowledgement takes one away, an interruption all of a response.

**The drain.** `DrainInv`: once the drain has let the refresh that was in flight pass, everything
published says "draining"; a "ready" that the worker knows of runs out no later than the worker
believes, and the sleep lasts as long; a call counted before the wait has been connected for
what has passed of the window. `HiddenWhenDrained` alone says nothing of the refresh in flight.

**Parts side by side.** A run that checks several parts at once says something of each only if
each moves in it as it does alone. That much follows from how the product is made (the lemma
`PartsAreThemselves`): every behaviour of the product is, seen by
the variables of a part, a behaviour of that part's own specification, its fairness included. So the theorems
about the parts hold of the product (`PartsAreSafe`, `PartsTypeCorrect`; `BillingPartsAreSafe`,
`BillingPartsTypeCorrect` for the settlement and the outbox). `ProcessesLetDecisionsStand` says the same
of one level down: whatever the processes of `PaygCallBilling` do, no decision of the
transactions of `PaygCredit` is taken back.

**Sums and powers.** The models add up over sets of calls with the fold of the community modules, and the
library's induction theorems cannot be used with the provers at hand. `SumTheorems` gets
its induction from the well-foundedness of the strict subset relation on finite sets: of the
sets for which a statement fails there is a least one (`LeastSubset`), and without one of its
elements the statement holds. `SumIsFold` then shows that the fold is the sum, and the other
lemmas say what a change at one element, a smaller set or a sum of two does. The back-off of a retry is a
power of two, of which the provers know nothing; that it is a number follows from the number of
subsets of a set (`PowerIsNat`).

## 6. What is only model-checked, and what is not modelled

With TLC only: liveness and everything about fairness, which is out of the reach of the
proof system (`ReleaseSettles`, `EndedMediaStops`, `AdmissionReopens`, `SubmittedSettles`,
`OutboxSettles`, `AbandonedCallEnds`, `HandoffEnds`, `ShutdownEnds`, `EndedMediaEndsCall`,
`DrainShutsDown`), and the five properties that the code does not have (the findings).
`UsedPackKept` is one of these, and so there is no theorem about refunds: `ReservationsCovered`
is proved for histories without one, as it is stated.

`EndedCallReleased` is a theorem for premium calls whose webhook is delivered once, and for no others:
`released_late` refutes it for sandwich calls, and with a second delivery of a premium
call's webhook (`MaxWebhooks = 2`) TLC finds a behaviour of 13 states: the reservation of that delivery is
executed after the call has ended and its claim has been released, the stream's activation is
executed on the new claim but its answer never comes, and the write that would end the call throws.
The lease stays active until it lapses, with nobody who knows of it.

Not modelled inside the components above: the in-memory admission backend (a test stand-in for Redis);
audio and the turns of a premium call beyond what is held and played; the provider
adapters, whose connections are opened, ready, closed or failed; a second worker
taking over a premium call (the lease of the first lapses and the reconciler ends the
call); the health of the dependencies a worker checks (a free choice in `Checked`);
subscription reservations and their jobs; outbound calls (they reserve through the
same transactions); the rate and rounding of charges, several tenants in the
billing modules (an account is per tenant and nothing crosses it), expiry of
grants; the evidence behind a charge release, which is one condition of the gate,
and a second release (a row promoted for one release is claimed by no other and cannot be promoted again).

Most of the repository is not modelled and is not a candidate: of some 133,000
lines of implementation the larger part renders pages, validates and stores records,
calls connectors over HTTP, or reports. It has one actor per request and leaves
its ordering to a database transaction; a TLA+ module of it would restate
assignments. The modules cover the code in which several processes act on a call,
its admission, its money and its media; what is left in that core is listed as 8 and 9 of the plan.
`PROJECT.json` gives the reason for each component.
