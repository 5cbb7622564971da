---------------------- MODULE PstnAdmissionCoordinator ----------------------
(***************************************************************************)
(* The processes around the admission store: each runs one                 *)
(* PstnAdmissionCoordinator (telephony/pstn-admission-coordinator.ts) and  *)
(* reaches the store over a connection whose commands and answers may be   *)
(* lost or come late (pstn-admission-redis-client.ts).  Front processes    *)
(* (role "api") take the call webhooks and status callbacks and serve the  *)
(* streams of sandwich calls; realtime workers serve the streams of        *)
(* premium calls.  All share the durable call session.                     *)
(*                                                                         *)
(* An await on the store is a slot of rpc: the request is sent, served by  *)
(* one script of PstnAdmission or lost, and its answer resumes the handler *)
(* in a step of its own, by which time the rest may have moved on.  What a *)
(* process asks is executed, and resumes its handlers, in the order in     *)
(* which it was sent (earlier).                                            *)
(***************************************************************************)
EXTENDS Integers, FiniteSets

CONSTANTS
  Calls, Workers, SharedKeys, ScopeKeys, Limit, Buckets, BucketsOf, Burst, Refill,
  ClaimTtl, ActiveTtl, MaxTime, NoWorker,   \* the parameters of PstnAdmission
  Fronts,     \* the processes of role "api"; the others are realtime workers
  Premium,    \* the calls on the pstn-premium-realtime path
  MaxWebhooks, \* bound of the deliveries of a call's webhook
  MaxStray,   \* bound of the commands that outlive the client's timeout
  Crashers    \* the processes that may crash, once each

ASSUME CoordinatorAssumption ==
  /\ Fronts \subseteq Workers
  /\ Premium \subseteq Calls
  /\ Crashers \subseteq Workers
  /\ MaxWebhooks \in Nat
  /\ MaxStray \in Nat

VARIABLES now, lease, score, hold, tokens   \* the store

Store == INSTANCE PstnAdmission

ASSUME StoreAssumption == Store!AdmissionAssumption

VARIABLES
  call,        \* the durable session: its stage, the worker it was set up for, the
               \* owner in its stream token and the end of the owner's durable
               \* lease; and what the provider did: whether it has reported the
               \* end of the call, and the deliveries of the webhook so far
  tracked,     \* coordinator.tracked of each process
  unresolved,  \* coordinator.unresolvedActiveLeases
  pending,     \* coordinator.pendingReleases
  rpc,         \* the commands each process awaits, one slot per handler
  earlier,     \* the order of the commands on the connection of each process: pairs of
               \* slots of which the first was sent before the second
  media,       \* the calls whose started media stream a process keeps open
  stray,       \* commands whose client has timed out, not yet executed
  crashed      \* the processes that have crashed

storeVars == <<now, lease, score, hold, tokens>>
localVars == <<tracked, unresolved, pending, rpc, earlier, media>>
vars == <<storeVars, call, localVars, stray, crashed>>

Slots == {"reserve", "activate", "renew", "release"}
Commands == {"reserve", "activate", "renew", "recover", "release"}
MaybeWorker == Workers \cup {NoWorker}

\* A tracked reservation; "none" is an absent map entry.
TrackedRecord == [state : {"none", "claim", "active"}, worker : MaybeWorker,
                  epoch : Nat, deadline : Nat, lost : BOOLEAN]
Untracked == [state |-> "none", worker |-> NoWorker, epoch |-> 0, deadline |-> 0,
              lost |-> FALSE]

\* A release the process still owes; epoch 0 means it is not fenced.
PendingRecord == [owed : BOOLEAN, worker : MaybeWorker, epoch : Nat]
NothingOwed == [owed |-> FALSE, worker |-> NoWorker, epoch |-> 0]

\* A handler at an await: its command, the answer, and whether the entry of "tracked"
\* it captured is still the one in the map.
RpcRecord == [stage : {"idle", "sent", "answered", "confirming"}, cmd : Commands \cup {"-"},
              worker : MaybeWorker, epoch : Nat, out : Store!Outcomes \cup {"-", "unavailable"},
              expires : Nat, mine : BOOLEAN]
Idle == [stage |-> "idle", cmd |-> "-", worker |-> NoWorker, epoch |-> 0, out |-> "-",
         expires |-> 0, mine |-> TRUE]

Mut_Request(cmd, w, epoch) ==
  [Idle EXCEPT !.stage = "sent", !.cmd = cmd, !.worker = w, !.epoch = epoch - 1]
Request(cmd, w, epoch) ==
  [Idle EXCEPT !.stage = "sent", !.cmd = cmd, !.worker = w, !.epoch = epoch]

Awaits == Calls \X Slots

StrayRecord == [call : Calls, cmd : Commands, worker : MaybeWorker, epoch : Nat]

TypeOK ==
  /\ Store!TypeOK
  /\ call \in [Calls -> [stage : {"new", "open", "ended"}, worker : MaybeWorker,
                       owner : MaybeWorker, fence : Nat, over : BOOLEAN,
                       webhooks : 0..MaxWebhooks]]
  /\ tracked \in [Workers -> [Calls -> TrackedRecord]]
  /\ unresolved \in [Workers -> SUBSET Calls]
  /\ pending \in [Workers -> [Calls -> PendingRecord]]
  /\ rpc \in [Workers -> [Calls -> [Slots -> RpcRecord]]]
  /\ earlier \in [Workers -> SUBSET (Awaits \X Awaits)]
  /\ media \in [Workers -> SUBSET Calls]
  /\ stray \subseteq StrayRecord
  /\ crashed \subseteq Workers

Init ==
  /\ Store!Init
  /\ call = [c \in Calls |-> [stage |-> "new", worker |-> NoWorker, owner |-> NoWorker,
                            fence |-> 0, over |-> FALSE, webhooks |-> 0]]
  /\ tracked = [p \in Workers |-> [c \in Calls |-> Untracked]]
  /\ unresolved = [p \in Workers |-> {}]
  /\ pending = [p \in Workers |-> [c \in Calls |-> NothingOwed]]
  /\ rpc = [p \in Workers |-> [c \in Calls |-> [s \in Slots |-> Idle]]]
  /\ earlier = [p \in Workers |-> {}]
  /\ media = [p \in Workers |-> {}]
  /\ stray = {}
  /\ crashed = {}

-----------------------------------------------------------------------------
(* The connection to the store *)

Execute(c, cmd, w, epoch, out) ==
  \/ cmd = "reserve" /\ Store!Reserve(c, w, out)
  \/ cmd = "activate" /\ Store!Activate(c, w, out)
  \/ cmd = "recover" /\ Store!Recover(c, w, out)
  \/ cmd = "renew" /\ Store!Renew(c, w, epoch, out)
  \/ cmd = "release" /\ epoch = 0 /\ Store!Release(c, out)
  \/ cmd = "release" /\ epoch # 0 /\ Store!ReleaseFenced(c, w, epoch, out)

\* The awaits of a process whose command or whose answer is under way; the client's
\* own timer does not wait for the connection.
OnConnection(slots) ==
  {a \in Awaits : LET r == slots[a[1]][a[2]] IN
     r.stage = "sent" \/ (r.stage = "answered" /\ r.out # "unavailable")}

\* What a step sends comes after all that is under way.
KeepOrder ==
  earlier' = [p \in Workers |->
    LET line == OnConnection(rpc'[p])
        sent == {a \in line : rpc'[p][a[1]][a[2]].stage = "sent" /\ rpc[p][a[1]][a[2]].stage # "sent"}
    IN {e \in line \X line : e[1] \notin sent /\ (e[2] \in sent \/ e \in earlier[p])}]

\* Nothing that was sent before the command of this slot is still under way.
InOrder(p, c, s) == \A a \in Awaits : <<a, <<c, s>>>> \notin earlier[p]

\* Nothing that was sent before it is still to be executed.
Foremost(p, c, s) ==
  \A a \in Awaits : <<a, <<c, s>>>> \in earlier[p] => rpc[p][a[1]][a[2]].stage # "sent"

\* The store runs the script and its answer reaches the process.
Serve(p, c, s) ==
  LET r == rpc[p][c][s] IN
  /\ r.stage = "sent"
  /\ Foremost(p, c, s)
  /\ \E out \in Store!Outcomes :
       /\ Execute(c, r.cmd, r.worker, r.epoch, out)
       /\ rpc' = [rpc EXCEPT ![p][c][s] =
                    [r EXCEPT !.stage = "answered", !.out = out,
                              !.expires = lease'[c].expires, !.epoch = lease'[c].epoch]]
  /\ UNCHANGED <<call, tracked, unresolved, pending, media, stray, crashed>>
  /\ KeepOrder

NoAnswer(p, c, s) ==
  rpc' = [rpc EXCEPT ![p][c][s] =
            [@ EXCEPT !.stage = "answered", !.out = "unavailable", !.epoch = 0]]

\* The store runs the script, but the answer is lost or comes too late.
LoseAnswer(p, c, s) ==
  LET r == rpc[p][c][s] IN
  /\ r.stage = "sent"
  /\ Foremost(p, c, s)
  /\ \E out \in Store!Outcomes : Execute(c, r.cmd, r.worker, r.epoch, out)
  /\ NoAnswer(p, c, s)
  /\ UNCHANGED <<call, tracked, unresolved, pending, media, stray, crashed>>
  /\ KeepOrder

\* The command does not reach the store in time: it was not sent, or the client
\* timed out and it is still on its way.
Fail(p, c, s) ==
  LET r == rpc[p][c][s] IN
  /\ r.stage = "sent"
  /\ NoAnswer(p, c, s)
  /\ \/ UNCHANGED stray
     \/ /\ Cardinality(stray) < MaxStray
        /\ stray' = stray \cup {[call |-> c, cmd |-> r.cmd, worker |-> r.worker,
                                 epoch |-> r.epoch]}
  /\ UNCHANGED <<storeVars, call, tracked, unresolved, pending, media, crashed>>
  /\ KeepOrder

\* A command that outlived its client is executed, or dropped with the socket.
ServeStray ==
  \E m \in stray :
    /\ stray' = stray \ {m}
    /\ \/ \E out \in Store!Outcomes : Execute(m.call, m.cmd, m.worker, m.epoch, out)
       \/ UNCHANGED storeVars
    /\ UNCHANGED <<call, localVars, crashed>>

-----------------------------------------------------------------------------
(* What the handlers share.  Several of them change the slots of one call   *)
(* twice in a step, so the helpers compute values and the actions assign.   *)

\* tracked.delete or tracked.set of a new object: a renewal in flight no
\* longer holds the entry of the map.
Detached(slots) == [slots EXCEPT !["renew"].mine = slots["renew"] = Idle]

\* release(): the entry is dropped and an intent put in its place, fenced by the
\* worker and epoch of an active entry; an intent already there stands.
ReleaseFence(t) ==
  [owed |-> TRUE, worker |-> t.worker, epoch |-> IF t.state = "active" THEN t.epoch ELSE 0]

Mut_StartRelease(p, c, slots) ==
  IF pending[p][c].owed
  THEN /\ rpc' = [rpc EXCEPT ![p][c] = slots]
       /\ UNCHANGED <<tracked, unresolved, pending>>
  ELSE LET owed == ReleaseFence(tracked[p][c]) IN
       /\ tracked' = [tracked EXCEPT ![p][c] = Untracked]
       /\ pending' = [pending EXCEPT ![p][c] = owed]
       /\ rpc' = [rpc EXCEPT ![p][c] =
                    [Detached(slots) EXCEPT !["release"] =
                       Request("release", owed.worker, owed.epoch)]]
       /\ UNCHANGED unresolved
StartRelease(p, c, slots) ==
  IF pending[p][c].owed
  THEN /\ rpc' = [rpc EXCEPT ![p][c] = slots]
       /\ UNCHANGED <<tracked, unresolved, pending>>
  ELSE LET owed == ReleaseFence(tracked[p][c]) IN
       /\ tracked' = [tracked EXCEPT ![p][c] = Untracked]
       /\ unresolved' = [unresolved EXCEPT ![p] = @ \ {c}]
       /\ pending' = [pending EXCEPT ![p][c] = owed]
       /\ rpc' = [rpc EXCEPT ![p][c] =
                    [Detached(slots) EXCEPT !["release"] =
                       Request("release", owed.worker, owed.epoch)]]

\* loseOwnership(), up to the listeners: the bridge closes the media stream.
Mut_StartLoss(p, c, slots) ==
  /\ rpc' = [rpc EXCEPT ![p][c] = slots]
  /\ tracked' = [tracked EXCEPT ![p][c].lost = TRUE]
  /\ unresolved' = [unresolved EXCEPT ![p] = @ \ {c}]
  /\ UNCHANGED <<pending, media>>
StartLoss(p, c, slots) ==
  /\ rpc' = [rpc EXCEPT ![p][c] = slots]
  /\ tracked' = [tracked EXCEPT ![p][c].lost = TRUE]
  /\ unresolved' = [unresolved EXCEPT ![p] = @ \ {c}]
  /\ media' = [media EXCEPT ![p] = @ \ {c}]
  /\ UNCHANGED pending

Resume(p, c, s, r) == rpc' = [rpc EXCEPT ![p][c][s] = r]
Parked(p, c, s) == [rpc[p][c] EXCEPT ![s] = Idle]

Held(t) == t.state = "active" /\ ~t.lost

\* The deadline of a confirmed lease is the one the store answered with.
Mut_ConfirmedUntil(r) == now + ActiveTtl
ConfirmedUntil(r) == r.expires

Answered(p, c, s, cmd) ==
  /\ rpc[p][c][s].stage = "answered"
  /\ rpc[p][c][s].cmd = cmd
  /\ rpc[p][c][s].out # "unavailable" => InOrder(p, c, s)

\* fencePremiumCallOwnership and the media-connected transition accept the lease
\* of answer r: the token is claimed once, which makes its owner_epoch 1.
DurablyOwned(p, c, r) ==
  /\ call[c].stage = "open"
  /\ c \in Premium => call[c].owner = p /\ r.epoch = 1 /\ r.expires > now

\* owner_lease_expires_at only moves forward.
ExtendFence(c, r) ==
  call' = [call EXCEPT ![c].fence = IF c \in Premium /\ r.expires > @ THEN r.expires ELSE @]

\* transitionCallLifecycle to a terminal stage by the process of the stream.
MayTerminalize(p, c) ==
  /\ call[c].stage = "open"
  /\ c \in Premium => call[c].owner = p /\ call[c].fence > now

EndSession(c) == call' = [call EXCEPT ![c].stage = "ended"]

-----------------------------------------------------------------------------
(* Front processes: the call webhook *)

\* reserve(), for the worker chosen for a premium call (the one of its snapshot
\* if it has been set up) and for the process itself otherwise; refused locally
\* while a lease of this process is unresolved.
ReserveCall(p, c, w) ==
  /\ p \in Fronts
  /\ IF c \in Premium
     THEN w \notin Fronts /\ call[c].worker \in {w, NoWorker}
     ELSE w = p
  /\ unresolved[p] = {}
  /\ rpc[p][c]["reserve"] = Idle
  /\ call[c].webhooks < MaxWebhooks
  /\ call' = [call EXCEPT ![c].webhooks = @ + 1]
  /\ Resume(p, c, "reserve", Request("reserve", w, 0))
  /\ UNCHANGED <<storeVars, tracked, unresolved, pending, media, stray, crashed>>
  /\ KeepOrder

\* The webhook goes on with an admitted call: the reservation is tracked, unless
\* a retry finds the lease already active here, and the session is set up.  When
\* the set-up fails the claim is kept.
ReserveAnswered(p, c) ==
  LET r == rpc[p][c]["reserve"]
      admitted == r.out \in {"created", "existing"}
      retrack == admitted /\ (r.out = "created" \/ tracked[p][c].state # "active")
  IN
  /\ Answered(p, c, "reserve", "reserve")
  /\ tracked' = [tracked EXCEPT ![p][c] =
       IF retrack THEN [Untracked EXCEPT !.state = "claim", !.worker = r.worker] ELSE @]
  /\ \/ /\ admitted
        /\ call[c].stage = "new"
        /\ call' = [call EXCEPT ![c].stage = "open", ![c].worker = r.worker]
     \/ UNCHANGED call
  /\ rpc' = [rpc EXCEPT ![p][c] =
       IF retrack THEN Detached(Parked(p, c, "reserve")) ELSE Parked(p, c, "reserve")]
  /\ UNCHANGED <<storeVars, unresolved, pending, media, stray, crashed>>
  /\ KeepOrder

-----------------------------------------------------------------------------
(* The start of the media stream *)

\* At the worker of a premium call or at any front process the one-time token is
\* claimed and the reservation activated, for the worker of the tracked
\* reservation or for this process.
StartMedia(p, c) ==
  /\ IF c \in Premium THEN p = call[c].worker ELSE p \in Fronts
  /\ call[c].stage = "open"
  /\ call[c].owner = NoWorker
  /\ ~call[c].over
  /\ rpc[p][c]["activate"] = Idle
  /\ call' = [call EXCEPT ![c].owner = p]
  /\ LET w == IF tracked[p][c].state = "none" THEN p ELSE tracked[p][c].worker
     IN Resume(p, c, "activate", Request("activate", w, 0))
  /\ media' = [media EXCEPT ![p] = @ \cup {c}]
  /\ UNCHANGED <<storeVars, tracked, unresolved, pending, stray, crashed>>
  /\ KeepOrder

ActivateGranted(p, c) ==
  LET r == rpc[p][c]["activate"] IN
  /\ Answered(p, c, "activate", "activate")
  /\ r.out \in {"activated", "existing"}
  /\ tracked' = [tracked EXCEPT ![p][c] =
       [state |-> "active", worker |-> r.worker, epoch |-> r.epoch,
        deadline |-> ConfirmedUntil(r), lost |-> FALSE]]
  /\ rpc' = [rpc EXCEPT ![p][c] =
       [Detached(@) EXCEPT !["activate"].stage = "confirming"]]
  /\ UNCHANGED <<storeVars, call, unresolved, pending, media, stray, crashed>>
  /\ KeepOrder

\* Without a lease the call is recorded as failed and released.
ActivateRefused(p, c) ==
  /\ Answered(p, c, "activate", "activate")
  /\ rpc[p][c]["activate"].out \notin {"activated", "existing"}
  /\ EndSession(c)
  /\ media' = [media EXCEPT ![p] = @ \ {c}]
  /\ StartRelease(p, c, Parked(p, c, "activate"))
  /\ UNCHANGED <<storeVars, stray, crashed>>
  /\ KeepOrder

\* The durable fence and the media-connected stage accept the stream, or the
\* process closes it and releases what it has just activated.
MediaConfirmed(p, c) ==
  LET r == rpc[p][c]["activate"] IN
  /\ r.stage = "confirming"
  /\ DurablyOwned(p, c, r)
  /\ ExtendFence(c, r)
  /\ Resume(p, c, "activate", Idle)
  /\ UNCHANGED <<storeVars, tracked, unresolved, pending, media, stray, crashed>>
  /\ KeepOrder

MediaRejected(p, c) ==
  LET r == rpc[p][c]["activate"] IN
  /\ r.stage = "confirming"
  /\ ~DurablyOwned(p, c, r)
  /\ media' = [media EXCEPT ![p] = @ \ {c}]
  /\ StartRelease(p, c, Parked(p, c, "activate"))
  /\ UNCHANGED <<storeVars, call, stray, crashed>>
  /\ KeepOrder

\* A durable write of the start throws, and may have been made: the stream is closed,
\* and no more.  Nothing is released, and an activated lease is still renewed.
MediaStartThrows(p, c) ==
  LET r == rpc[p][c]["activate"] IN
  /\ \/ r.stage = "confirming" /\ DurablyOwned(p, c, r) /\ ExtendFence(c, r)
     \/ r.stage = "confirming" /\ UNCHANGED call
     \/ /\ Answered(p, c, "activate", "activate")
        /\ r.out \notin {"activated", "existing"}
        /\ EndSession(c) \/ UNCHANGED call
  /\ media' = [media EXCEPT ![p] = @ \ {c}]
  /\ Resume(p, c, "activate", Idle)
  /\ UNCHANGED <<storeVars, tracked, unresolved, pending, stray, crashed>>
  /\ KeepOrder

-----------------------------------------------------------------------------
(* renewActiveLeases *)

RenewalDue(p, c) ==
  /\ Held(tracked[p][c])
  /\ rpc[p][c]["renew"] = Idle
  /\ Resume(p, c, "renew",
            Request("renew", tracked[p][c].worker, tracked[p][c].epoch))
  /\ UNCHANGED <<storeVars, call, tracked, unresolved, pending, media, stray, crashed>>
  /\ KeepOrder

\* The entry this renewal captured is still tracked and not being given up.
StillTracked(p, c) == rpc[p][c]["renew"].mine /\ ~tracked[p][c].lost

RenewAnswered(p, c) ==
  LET r == rpc[p][c]["renew"] IN
  /\ Answered(p, c, "renew", "renew")
  /\ \/ /\ ~StillTracked(p, c)
        /\ Resume(p, c, "renew", Idle)
        /\ UNCHANGED <<tracked, unresolved, pending, media>>
     \/ /\ StillTracked(p, c)
        /\ r.out = "not_owner"
        /\ StartLoss(p, c, Parked(p, c, "renew"))
     \/ /\ StillTracked(p, c)
        /\ r.out = "renewed"
        /\ tracked' = [tracked EXCEPT ![p][c].deadline = ConfirmedUntil(r)]
        /\ unresolved' = [unresolved EXCEPT ![p] = @ \ {c}]
        /\ Resume(p, c, "renew", [r EXCEPT !.stage = "confirming"])
        /\ UNCHANGED <<pending, media>>
     \/ /\ StillTracked(p, c)
        /\ r.out = "unavailable"
        /\ unresolved' = [unresolved EXCEPT ![p] = @ \cup {c}]
        /\ Resume(p, c, "renew", Idle)
        /\ UNCHANGED <<tracked, pending, media>>
     \/ /\ StillTracked(p, c)
        /\ r.out = "not_found"
        /\ unresolved' = [unresolved EXCEPT ![p] = @ \cup {c}]
        /\ Resume(p, c, "renew",
                  Request("recover", tracked[p][c].worker, 0))
        /\ UNCHANGED <<tracked, pending, media>>
  /\ UNCHANGED <<storeVars, call, stray, crashed>>
  /\ KeepOrder

\* The answer to the full activation that follows a lapsed renewal.  The code
\* does not look again whether its entry is still tracked.
RecoverAnswered(p, c) ==
  LET r == rpc[p][c]["renew"] IN
  /\ Answered(p, c, "renew", "recover")
  /\ \/ /\ r.out \in {"activated", "existing"}
        /\ tracked' = [tracked EXCEPT ![p][c] =
             IF r.mine THEN [@ EXCEPT !.epoch = r.epoch, !.deadline = ConfirmedUntil(r)] ELSE @]
        /\ unresolved' = [unresolved EXCEPT ![p] = @ \ {c}]
        /\ Resume(p, c, "renew", [r EXCEPT !.stage = "confirming"])
        /\ UNCHANGED <<pending, media>>
     \/ /\ r.out \in {"not_owner", "not_found"}
        /\ StillTracked(p, c)
        /\ StartLoss(p, c, Parked(p, c, "renew"))
     \/ /\ \/ r.out \in {"denied", "unavailable"}
           \/ r.out \in {"not_owner", "not_found"} /\ ~StillTracked(p, c)
        /\ Resume(p, c, "renew", Idle)
        /\ UNCHANGED <<tracked, unresolved, pending, media>>
  /\ UNCHANGED <<storeVars, call, stray, crashed>>
  /\ KeepOrder

\* The listener of a renewed or recovered lease: a premium call must still be
\* owned durably under the lease's epoch, a sandwich call needs nothing.  A write of
\* the fence that throws, made or not, counts as ownership not confirmed.
RenewalConfirmed(p, c) ==
  LET r == rpc[p][c]["renew"] IN
  /\ r.stage = "confirming"
  /\ c \in Premium => DurablyOwned(p, c, r)
  /\ ExtendFence(c, r)
  /\ Resume(p, c, "renew", Idle)
  /\ UNCHANGED <<storeVars, tracked, unresolved, pending, media, stray, crashed>>
  /\ KeepOrder

RenewalRejected(p, c) ==
  LET r == rpc[p][c]["renew"] IN
  /\ r.stage = "confirming"
  /\ c \in Premium
  /\ \/ DurablyOwned(p, c, r) /\ ExtendFence(c, r)
     \/ UNCHANGED call
  /\ IF StillTracked(p, c)
     THEN StartLoss(p, c, Parked(p, c, "renew"))
     ELSE /\ Resume(p, c, "renew", Idle)
          /\ UNCHANGED <<tracked, unresolved, pending, media>>
  /\ UNCHANGED <<storeVars, stray, crashed>>
  /\ KeepOrder

-----------------------------------------------------------------------------
(* Giving a lease up *)

\* expireConfirmedLeases: the last confirmed lease has run out.
DeadlinePassed(p, c) ==
  /\ Held(tracked[p][c])
  /\ tracked[p][c].deadline <= now
  /\ StartLoss(p, c, rpc[p][c])
  /\ UNCHANGED <<storeVars, call, stray, crashed>>
  /\ KeepOrder

\* The listeners are done: the call is recorded as failed, unless the write is
\* refused or fails, and released.
LossHandled(p, c) ==
  /\ tracked[p][c].lost
  /\ \/ MayTerminalize(p, c) /\ EndSession(c)
     \/ UNCHANGED call
  /\ StartRelease(p, c, rpc[p][c])
  /\ UNCHANGED <<storeVars, media, stray, crashed>>
  /\ KeepOrder

\* The provider reports the end of the call at a front process, once or more:
\* a terminal session, or none, has its admission released.
StatusCallback(p, c) ==
  /\ p \in Fronts
  /\ call[c].webhooks > 0
  /\ call' = [call EXCEPT ![c].stage = IF @ = "new" THEN @ ELSE "ended", ![c].over = TRUE]
  /\ StartRelease(p, c, rpc[p][c])
  /\ UNCHANGED <<storeVars, media, stray, crashed>>
  /\ KeepOrder

\* The media socket closes.
CloseStream(p, c) ==
  /\ c \in media[p]
  /\ media' = [media EXCEPT ![p] = @ \ {c}]
  /\ UNCHANGED <<storeVars, call, tracked, unresolved, pending, rpc, earlier, stray, crashed>>

\* terminalizeAttachment of a closed stream, once its start has been handled; the
\* write is retried, so it may come again.  A premium call is terminalized by
\* its execution, which starts after the durable fence.
Terminalize(p, c) ==
  /\ call[c].owner = p
  /\ p \notin crashed
  /\ c \notin media[p]
  /\ rpc[p][c]["activate"] = Idle
  /\ c \in Premium => call[c].fence # 0
  /\ call[c].stage = "ended" \/ MayTerminalize(p, c)
  /\ EndSession(c)
  /\ StartRelease(p, c, rpc[p][c])
  /\ UNCHANGED <<storeVars, media, stray, crashed>>
  /\ KeepOrder

\* reconcileExpiredPremiumCallOwners: the durable lease of the owner, or before
\* there is one its stream token, has expired.
ReconcileExpiredOwner(c) ==
  /\ c \in Premium
  /\ call[c].stage = "open"
  /\ call[c].owner # NoWorker
  /\ call[c].fence <= now
  /\ EndSession(c)
  /\ UNCHANGED <<storeVars, localVars, stray, crashed>>

\* performRelease after its await: settled by any answer of the store.
Mut_ReleaseAnswered(p, c) ==
  /\ Answered(p, c, "release", "release")
  /\ Resume(p, c, "release", Idle)
  /\ pending' = [pending EXCEPT ![p][c] = NothingOwed]
  /\ UNCHANGED <<storeVars, call, tracked, unresolved, media, stray, crashed>>
  /\ KeepOrder
ReleaseAnswered(p, c) ==
  LET r == rpc[p][c]["release"] IN
  /\ Answered(p, c, "release", "release")
  /\ Resume(p, c, "release", Idle)
  /\ pending' = [pending EXCEPT ![p][c] = IF r.out = "unavailable" THEN @ ELSE NothingOwed]
  /\ UNCHANGED <<storeVars, call, tracked, unresolved, media, stray, crashed>>
  /\ KeepOrder

\* retryDueReleases
Mut_RetryRelease(p, c) ==
  LET owed == pending[p][c] IN
  /\ owed.owed
  /\ tracked[p][c].state # "none"
  /\ rpc[p][c]["release"] = Idle
  /\ Resume(p, c, "release", Request("release", owed.worker, owed.epoch))
  /\ UNCHANGED <<storeVars, call, tracked, unresolved, pending, media, stray, crashed>>
  /\ KeepOrder
RetryRelease(p, c) ==
  LET owed == pending[p][c] IN
  /\ owed.owed
  /\ rpc[p][c]["release"] = Idle
  /\ Resume(p, c, "release", Request("release", owed.worker, owed.epoch))
  /\ UNCHANGED <<storeVars, call, tracked, unresolved, pending, media, stray, crashed>>
  /\ KeepOrder

-----------------------------------------------------------------------------
(* A process that crashes, or shuts down, forgets what it tracked without    *)
(* releasing it and comes back under its worker id.                          *)
Crash(p) ==
  /\ p \in Crashers \ crashed
  /\ crashed' = crashed \cup {p}
  /\ tracked' = [tracked EXCEPT ![p] = [c \in Calls |-> Untracked]]
  /\ unresolved' = [unresolved EXCEPT ![p] = {}]
  /\ pending' = [pending EXCEPT ![p] = [c \in Calls |-> NothingOwed]]
  /\ rpc' = [rpc EXCEPT ![p] = [c \in Calls |-> [s \in Slots |-> Idle]]]
  /\ media' = [media EXCEPT ![p] = {}]
  /\ UNCHANGED <<storeVars, call, stray>>
  /\ KeepOrder

Tick ==
  /\ Store!Tick
  /\ UNCHANGED <<call, localVars, stray, crashed>>

Answer(p, c) ==
  \/ ReserveAnswered(p, c)
  \/ ActivateGranted(p, c)
  \/ ActivateRefused(p, c)
  \/ MediaConfirmed(p, c)
  \/ MediaRejected(p, c)
  \/ MediaStartThrows(p, c)
  \/ RenewAnswered(p, c)
  \/ RecoverAnswered(p, c)
  \/ RenewalConfirmed(p, c)
  \/ RenewalRejected(p, c)
  \/ LossHandled(p, c)
  \/ ReleaseAnswered(p, c)

Timer(p, c) ==
  \/ RenewalDue(p, c)
  \/ DeadlinePassed(p, c)
  \/ RetryRelease(p, c)

Provider(p, c) ==
  \/ \E w \in Workers : ReserveCall(p, c, w)
  \/ StartMedia(p, c)
  \/ CloseStream(p, c)
  \/ Terminalize(p, c)
  \/ StatusCallback(p, c)

Next ==
  \/ Tick
  \/ ServeStray
  \/ \E p \in Workers : Crash(p)
  \/ \E c \in Calls : ReconcileExpiredOwner(c)
  \/ \E p \in Workers, c \in Calls :
       \/ Answer(p, c)
       \/ Timer(p, c)
       \/ Provider(p, c)
       \/ \E s \in Slots : Serve(p, c, s) \/ LoseAnswer(p, c, s) \/ Fail(p, c, s)

Spec == Init /\ [][Next]_vars

\* Time passes; a command is answered or times out, the handler that awaits it
\* goes on, and the timers (setInterval, setTimeout) run; a renewal, recovery or
\* release that is sent again and again is answered in the end.  Nothing is
\* assumed of webhooks, streams, status callbacks and crashes.
Connection(p, c, s) == Serve(p, c, s) \/ LoseAnswer(p, c, s) \/ Fail(p, c, s)

Admitting(p, c) == Connection(p, c, "reserve") \/ ReserveAnswered(p, c)
Activating(p, c) ==
  \/ Connection(p, c, "activate")
  \/ ActivateGranted(p, c) \/ ActivateRefused(p, c)
  \/ MediaConfirmed(p, c) \/ MediaRejected(p, c) \/ MediaStartThrows(p, c)
Renewing(p, c) ==
  \/ RenewalDue(p, c)
  \/ Connection(p, c, "renew")
  \/ RenewAnswered(p, c) \/ RecoverAnswered(p, c)
  \/ RenewalConfirmed(p, c) \/ RenewalRejected(p, c)
Releasing(p, c) ==
  \/ RetryRelease(p, c)
  \/ Connection(p, c, "release")
  \/ ReleaseAnswered(p, c)

Fairness ==
  /\ WF_vars(Tick)
  /\ \A p \in Workers, c \in Calls :
       /\ WF_vars(Admitting(p, c))
       /\ WF_vars(Activating(p, c))
       /\ WF_vars(Renewing(p, c))
       /\ WF_vars(Releasing(p, c))
       /\ WF_vars(DeadlinePassed(p, c) \/ LossHandled(p, c))
       /\ SF_vars(rpc[p][c]["renew"].cmd = "renew" /\ Serve(p, c, "renew"))
       /\ SF_vars(rpc[p][c]["renew"].cmd = "recover" /\ Serve(p, c, "renew"))
       /\ SF_vars(Serve(p, c, "release"))

FairSpec == Spec /\ Fairness

-----------------------------------------------------------------------------
(* What the processes must guarantee together *)

\* While a process counts on a lease it last saw confirmed, the store agrees:
\* the lease is active, its own, of its epoch and lasts at least as long.  The
\* exception is a call that is over and may have been released by another process.
AuthorityBacked ==
  \A p \in Workers, c \in Calls :
    Held(tracked[p][c]) /\ tracked[p][c].deadline > now /\ call[c].stage = "open" /\ ~call[c].over =>
      /\ lease[c].state = "active"
      /\ lease[c].worker = tracked[p][c].worker
      /\ lease[c].epoch = tracked[p][c].epoch
      /\ lease[c].expires >= tracked[p][c].deadline

\* New calls are refused only while a live lease of the process is in doubt
\* ("fails new admission closed until an uncounted live call terminates"): an
\* unresolved call is one the process still tracks as active, so its renewal or
\* its release will resolve it.
UnresolvedIsTracked ==
  \A p \in Workers : \A c \in unresolved[p] : Held(tracked[p][c])

\* Once a call has ended and no process is at work on it any more, its lease is
\* released ("durable terminal lifecycle handling releases admission"): nothing
\* is left to hold capacity, and to block every new call when it lapses.
\* A webhook delivered twice can break it: its late reservation may follow the
\* release, and an activation given up on may follow that.
Settled(c) ==
  /\ stray = {}
  /\ \A p \in Workers :
       /\ tracked[p][c] = Untracked
       /\ ~pending[p][c].owed
       /\ \A s \in Slots : rpc[p][c][s] = Idle

EndedCallReleased ==
  \A c \in Calls :
    call[c].stage = "ended" /\ Settled(c) /\ crashed = {} => lease[c].state # "active"

\* A release a process owes is settled in the end, however often its command
\* fails and whoever else releases the call meanwhile.
ReleaseSettles ==
  \A p \in Workers, c \in Calls : pending[p][c].owed ~> ~pending[p][c].owed

\* A process that keeps serving the stream of a call that has ended elsewhere
\* finds out through its lease and closes the stream.
EndedMediaStops ==
  \A p \in Workers, c \in Calls : c \in media[p] /\ call[c].stage = "ended" ~> c \notin media[p]

\* A lease in doubt does not keep a process from taking new calls for good.
AdmissionReopens ==
  \A p \in Workers : unresolved[p] # {} ~> unresolved[p] = {}
=============================================================================
