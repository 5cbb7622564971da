----------------------------- MODULE PremiumCall -----------------------------
(***************************************************************************)
(* Premium calls in the realtime worker that owns their media: the actor   *)
(* of a call and its buffered ingress (telephony/pstn-premium-call-actor   *)
(* .ts), the execution that opens provider connections, hands a call over  *)
(* to another provider, stops it and persists its end (telephony/pstn-     *)
(* premium-call-execution.ts), and the part of the media bridge that       *)
(* starts and stops executions (telephony/twilio-media-streams.websocket-  *)
(* bridge.ts).  An action runs from one await of the code to the next.     *)
(***************************************************************************)
EXTENDS FiniteSets, FiniteSetsExt, Integers

CONSTANTS
  PremiumCalls,
  MaxEpoch,      \* bound of the hand-overs of a call
  MaxWrites,     \* terminalPersistenceMaxAttempts
  BufferLimit,   \* media units a call may hold while it waits for a provider
  IngressLimit,  \* media units all calls of the worker may hold
  StartupLimit   \* pendingStartupTerminalLimit

ASSUME PremiumAssumption ==
  /\ IsFiniteSet(PremiumCalls)
  /\ {MaxEpoch, BufferLimit, IngressLimit} \subseteq Nat
  /\ {MaxWrites, StartupLimit} \subseteq Nat \ {0}

VARIABLES
  call,   \* what the bridge, the execution service and the actor keep of each call
  shut,   \* how far the shutdown of the worker has come
  flush   \* the calls the shutdown found executing, then those whose end it still persists

premiumVars == <<call, shut, flush>>

Stoppers == {"twilio", "bridge", "policy"}
StopOutcomes == {"completed", "failed"}

CallState ==
  [stream : {"none", "opening", "starting", "open"},  \* the bridge's handling of "start"
   caller : BOOLEAN,                                  \* Twilio's socket is open
   goodbye : BOOLEAN,                                 \* validatedTwilioStopReceived
   start : {"no", "connecting", "settling"},          \* startingCallSessionIds, and at which await
   cancel : {"none"} \cup StopOutcomes,               \* cancelledCallSessions
   held : {"none", "startup", "execution"},           \* pendingStartupTerminals or executions
   actor : {"none", "initializing", "active", "handing_off", "draining", "stopped", "failed"},
   stage : {"none"} \cup StopOutcomes,                \* terminalLifecycle
   tries : 0..MaxWrites,                              \* capped there
   write : {"idle", "writing", "timer", "exhausted"},
   legs : SUBSET (0..MaxEpoch),                       \* provider connections not closed here
   sends : 0..MaxEpoch,                               \* the connection the actor sends to
   epoch : 0..MaxEpoch,
   swap : {"none", "playing", "connecting", "readying", "over", "congested"},
   armed : BOOLEAN,                                   \* the hand-over's deadline
   buffer : 0..BufferLimit,
   stops : [Stoppers -> {"no", "waiting", "draining", "persisting", "over"}]]

NewCall == [stream |-> "none", caller |-> FALSE, goodbye |-> FALSE, start |-> "no",
            cancel |-> "none", held |-> "none", actor |-> "none", stage |-> "none", tries |-> 0,
            write |-> "idle", legs |-> {}, sends |-> 0, epoch |-> 0, swap |-> "none",
            armed |-> FALSE, buffer |-> 0, stops |-> [k \in Stoppers |-> "no"]]

PremiumTypeOK ==
  /\ call \in [PremiumCalls -> CallState]
  /\ shut \in {"no", "bridge", "starting", "executions", "startups", "done", "rejected"}
  /\ flush \subseteq PremiumCalls

PremiumInit == call = [c \in PremiumCalls |-> NewCall] /\ shut = "no" /\ flush = {}

Becomes(c, r) == call' = [call EXCEPT ![c] = r]
ShuttingDown == shut \notin {"no", "bridge"}
\* Calls whose messages the bridge is not in the middle of (attachment.processing).
Free(r) == r.stream = "open" /\ r.stops["twilio"] \in {"no", "over"}

-----------------------------------------------------------------------------
(* What the functions of the code do to a call *)

\* persistTerminalLifecycle, persistPendingStartupTerminal: a write in progress is
\* joined, and an exhausted one is not tried again.
Persist(r) ==
  IF r.write \in {"idle", "timer"}
  THEN [r EXCEPT !.write = "writing", !.tries = Min({@ + 1, MaxWrites})] ELSE r

\* beginTerminalLifecycle: the first outcome stays.
BeginTerminal(r, outcome) ==
  Persist([r EXCEPT !.stage = IF @ = "none" THEN outcome ELSE @])

Mut_Fail(r) ==
  IF r.actor \in {"initializing", "active", "handing_off"}
  THEN BeginTerminal([r EXCEPT !.actor = "failed", !.caller = FALSE, !.legs = @ \ {r.sends}],
                     "failed")
  ELSE r
\* PstnPremiumCallActor.fail, without effect once the actor drains or has ended.
Fail(r) ==
  IF r.actor \in {"initializing", "active", "handing_off"}
  THEN BeginTerminal([r EXCEPT !.actor = "failed", !.buffer = 0, !.caller = FALSE,
                               !.legs = @ \ {r.sends}], "failed")
  ELSE r

\* clearProviderTransition with a reason: disarm, and close a replacement not yet ready.
ClearSwap(r) ==
  [r EXCEPT !.armed = FALSE, !.legs = IF r.swap = "readying" THEN @ \ {r.epoch} ELSE @]

\* failExecution
FailExecution(r) == IF r.held = "execution" THEN Fail(ClearSwap(r)) ELSE r

\* The stop of k waits for the write that records the call's end.
AwaitWrite(r, k) ==
  LET p == Persist(r) IN
  [p EXCEPT !.stops[k] = IF p.write = "writing" THEN "persisting" ELSE "over"]

\* PstnPremiumCallExecution.stop: a call that is still starting is cancelled ("failed"
\* is not taken back); "failed" ends the actor at once, "completed" lets it drain.
\* A stop with "failed" of a call that drains is rejected.
Stop(r, k, outcome) ==
  IF r.held # "execution" /\ r.start # "no"
  THEN [r EXCEPT !.cancel = IF @ = "failed" THEN @ ELSE outcome, !.stops[k] = "waiting"]
  ELSE IF r.held = "none" THEN [r EXCEPT !.stops[k] = "over"]
  ELSE IF r.stage # "none" THEN AwaitWrite(r, k)
  ELSE IF outcome = "completed"
  THEN [r EXCEPT !.actor = "draining", !.buffer = 0, !.stops[k] = "draining"]
  ELSE IF Fail(r).stage # "none" THEN AwaitWrite(Fail(r), k)
  ELSE IF k = "policy"   \* forceCompletedTurnPolicyTerminal
  THEN [BeginTerminal(r, "failed") EXCEPT !.stops[k] = "over"]
  ELSE [r EXCEPT !.stops[k] = "over"]

\* The stops that wait for `from` go on to wait for the write.
Resume(r, from) ==
  LET waiting == {k \in Stoppers : r.stops[k] = from} IN
  IF waiting = {} THEN r
  ELSE IF r.stage = "none" \/ (from = "waiting" /\ r.held = "none")
  THEN [r EXCEPT !.stops = [k \in Stoppers |-> IF k \in waiting THEN "over" ELSE @[k]]]
  ELSE LET p == Persist(r)
           to == IF p.write = "writing" THEN "persisting" ELSE "over"
       IN [p EXCEPT !.stops = [k \in Stoppers |-> IF k \in waiting THEN to ELSE @[k]]]

\* start() ends, and with it the handling of the stream's "start": the caller is sent
\* away unless the start was cancelled and its end is recorded.
StartEnds(r, written) ==
  Resume([r EXCEPT !.start = "no", !.cancel = "none", !.stream = "open",
                   !.legs = {}, !.caller = @ /\ written /\ r.legs # {}], "waiting")

-----------------------------------------------------------------------------
(* The stream of a call in the bridge *)

\* A "start" message: the call is activated, and its fence and its "media-connected"
\* are being written.
StreamOpens(c) ==
  /\ shut = "no"
  /\ call[c].stream = "none"
  /\ Becomes(c, [call[c] EXCEPT !.stream = "opening", !.caller = TRUE])
  /\ UNCHANGED <<shut, flush>>

Starting == {c \in PremiumCalls : call[c].start # "no"}
PendingStartups == {c \in PremiumCalls : call[c].held = "startup"}
Mut_Admitted(c) == ~ShuttingDown
Admitted(c) == ~ShuttingDown /\ Cardinality(PendingStartups) + Cardinality(Starting) < StartupLimit

\* PstnPremiumCallExecution.start, or its refusal, or the refusal of the stream.
StartCall(c) ==
  /\ call[c].stream = "opening"
  /\ \/ /\ Admitted(c)
        /\ Becomes(c, [call[c] EXCEPT !.stream = "starting", !.start = "connecting"])
     \/ Becomes(c, [call[c] EXCEPT !.stream = "open", !.caller = FALSE])
  /\ UNCHANGED <<shut, flush>>

\* The media lease is lost: handleAdmissionOwnershipLost, while a stop of the bridge is
\* remembered whatever comes of it (attachment.terminalization).
OwnershipLost(c) ==
  /\ call[c].caller
  /\ call[c].stops["bridge"] = "no"
  /\ Becomes(c, [Stop(call[c], "bridge", "failed") EXCEPT !.caller = FALSE])
  /\ UNCHANGED <<shut, flush>>

\* Twilio's "stop" message.
StopMessage(c) ==
  /\ shut = "no"
  /\ call[c].caller /\ Free(call[c]) /\ ~call[c].goodbye
  /\ Becomes(c, [Stop(call[c], "twilio", "completed") EXCEPT !.goodbye = TRUE])
  /\ UNCHANGED <<shut, flush>>

\* Twilio hangs up; or the bridge closes the socket once a stop message is handled.
CallerCloses(c) ==
  /\ call[c].caller
  /\ Becomes(c, [call[c] EXCEPT !.caller = FALSE])
  /\ UNCHANGED <<shut, flush>>

\* terminalizeAttachment, once the socket is closed and its messages are handled; the
\* shutdown of the bridge closes the sockets that are still open.
Terminalize(c) ==
  LET r == call[c] IN
  /\ r.stream # "none" /\ Free(r)
  /\ r.stops["bridge"] = "no"
  /\ ~r.caller \/ shut = "bridge"
  /\ Becomes(c, [Stop(r, "bridge", IF ~r.caller /\ r.goodbye THEN "completed" ELSE "failed")
                   EXCEPT !.caller = FALSE])
  /\ UNCHANGED <<shut, flush>>

HeldMedia == SumFunction([c \in PremiumCalls |-> call[c].buffer])

Mut_InboundFrame(c) ==
  LET r == call[c] IN
  /\ shut = "no"
  /\ r.caller /\ Free(r) /\ r.held = "execution" /\ r.stage = "none"
  /\ Becomes(c, IF r.actor \in {"initializing", "handing_off"} /\ HeldMedia < IngressLimit
                THEN [r EXCEPT !.buffer = @ + 1] ELSE Fail(r))
  /\ UNCHANGED <<shut, flush>>
\* A frame of the caller: sent, held, or too much for what may be held or sent.  A call
\* that drains takes no media, and the bridge closes the caller's socket for it.
InboundFrame(c) ==
  LET r == call[c]
      waits == r.actor \in {"initializing", "handing_off"}
      fits == r.buffer < BufferLimit /\ HeldMedia < IngressLimit
  IN
  /\ shut = "no"
  /\ r.caller /\ Free(r) /\ r.held = "execution" /\ r.stage = "none"
  /\ Becomes(c, IF waits /\ fits THEN [r EXCEPT !.buffer = @ + 1]
                ELSE IF r.actor = "draining" THEN [r EXCEPT !.caller = FALSE]
                ELSE Fail(r))
  /\ UNCHANGED <<shut, flush>>

-----------------------------------------------------------------------------
(* Starting *)

\* The provider's connection is open: the execution is installed, unless the start was
\* cancelled, whose end is then recorded before the connection is closed.
Connected(c) ==
  LET r == [call[c] EXCEPT !.legs = {0}] IN
  /\ r.start = "connecting"
  /\ Becomes(c, IF r.cancel = "none"
                THEN [r EXCEPT !.start = "no", !.stream = "open", !.held = "execution",
                               !.actor = "initializing"]
                ELSE BeginTerminal([r EXCEPT !.start = "settling", !.held = "startup"],
                                   r.cancel))
  /\ UNCHANGED <<shut, flush>>

\* The snapshot, the session or the connection fails: start() records the failure.
StartFails(c) ==
  /\ call[c].start = "connecting"
  /\ Becomes(c, BeginTerminal([call[c] EXCEPT !.start = "settling", !.held = "startup"],
                              "failed"))
  /\ UNCHANGED <<shut, flush>>

\* activateWhenReady: what was held is sent, and the call is active; or the provider is
\* not ready in time, or cannot take what was held.
Ready(c) ==
  /\ call[c].actor = "initializing"
  /\ \/ Becomes(c, [call[c] EXCEPT !.actor = "active", !.buffer = 0])
     \/ Becomes(c, Fail(call[c]))
  /\ UNCHANGED <<shut, flush>>

-----------------------------------------------------------------------------
(* The provider *)

Current(r) == r.held = "execution" /\ r.stage = "none" /\ r.swap = "none"

\* The current connection fails, closes, misbehaves or does not answer in time.
ProviderFails(c) ==
  /\ Current(call[c])
  /\ call[c].actor \in {"initializing", "active"}
  /\ Becomes(c, FailExecution(call[c]))
  /\ UNCHANGED <<shut, flush>>

\* The response the provider owes is spoken to a socket that is gone, which fails the
\* call, as does its absence (sendOutboundMedia, expectProviderResponse).
Mut_SpeakToNobody(c) == FALSE /\ UNCHANGED premiumVars
SpeakToNobody(c) == ~call[c].caller /\ ProviderFails(c)

\* enforceCompletedTurnPolicy after a turn: "completed" is billing's closeout.
PolicyStops(c) ==
  /\ Current(call[c]) /\ call[c].actor \in {"active", "draining"}
  /\ call[c].stops["policy"] = "no"
  /\ \E outcome \in StopOutcomes : Becomes(c, Stop(call[c], "policy", outcome))
  /\ UNCHANGED <<shut, flush>>

\* beginProviderTransition: the replacement waits until the caller has heard the
\* announcement, if there is one still to be played.
BeginHandoff(c) ==
  LET r == call[c] IN
  /\ Current(r) /\ r.actor = "active" /\ r.epoch < MaxEpoch
  /\ \E step \in {"playing", "connecting"} :
       Becomes(c, [r EXCEPT !.actor = "handing_off", !.epoch = @ + 1, !.armed = TRUE,
                            !.swap = step])
  /\ UNCHANGED <<shut, flush>>

\* The last mark of the announcement comes back, at whatever state of the call.
SourcePlayed(c) ==
  /\ call[c].swap = "playing" /\ call[c].held = "execution"
  /\ Becomes(c, [call[c] EXCEPT !.swap = "connecting"])
  /\ UNCHANGED <<shut, flush>>

ReplacementConnected(c) ==
  /\ call[c].swap = "connecting"
  /\ Becomes(c, IF call[c].held = "execution"
                THEN [call[c] EXCEPT !.swap = "readying", !.legs = @ \cup {call[c].epoch}]
                ELSE [call[c] EXCEPT !.swap = "over"])
  /\ UNCHANGED <<shut, flush>>

\* It cannot be connected, or does not become ready (or was closed while it tried to).
ReplacementFails(c) ==
  /\ call[c].swap \in {"connecting", "readying"}
  /\ Becomes(c, [FailExecution(call[c]) EXCEPT !.swap = "over", !.legs = @ \ {call[c].epoch}])
  /\ UNCHANGED <<shut, flush>>

\* completeHandoff: the actor sends what it holds to the replacement and the source is
\* closed; the replacement of a call that has ended is closed instead.
Mut_ReplacementReady(c) ==
  LET r == call[c] IN
  /\ r.swap = "readying" /\ r.epoch \in r.legs
  /\ Becomes(c, [r EXCEPT !.actor = "active", !.buffer = 0, !.sends = r.epoch, !.armed = FALSE,
                          !.swap = "none", !.legs = {r.epoch}])
  /\ UNCHANGED <<shut, flush>>
ReplacementReady(c) ==
  LET r == call[c] IN
  /\ r.swap = "readying" /\ r.epoch \in r.legs
  /\ Becomes(c, IF r.actor = "handing_off"
                THEN [r EXCEPT !.actor = "active", !.buffer = 0, !.sends = r.epoch,
                               !.armed = FALSE, !.swap = "none", !.legs = {r.epoch}]
                ELSE [FailExecution(r) EXCEPT !.swap = "over", !.legs = @ \ {r.epoch}])
  /\ UNCHANGED <<shut, flush>>

\* The replacement cannot take what was held: the call fails with the actor already
\* sending to the replacement, so that the source is the connection nobody closes.
CongestedFlush(c) ==
  LET r == call[c] IN
  /\ r.swap = "readying" /\ r.epoch \in r.legs /\ r.actor = "handing_off" /\ r.buffer > 0
  /\ Becomes(c, [Fail([r EXCEPT !.sends = r.epoch]) EXCEPT !.armed = FALSE,
                                                           !.swap = "congested"])
  /\ UNCHANGED <<shut, flush>>

\* providerHandoffTimeoutMs
Mut_HandoffDeadline(c) ==
  /\ call[c].armed /\ call[c].swap # "playing"
  /\ Becomes(c, FailExecution(call[c]))
  /\ UNCHANGED <<shut, flush>>
HandoffDeadline(c) ==
  /\ call[c].armed
  /\ Becomes(c, FailExecution(call[c]))
  /\ UNCHANGED <<shut, flush>>

-----------------------------------------------------------------------------
(* Ending *)

\* drainAndStop, when the messages in progress are handled or after a second.
Drained(c) ==
  LET r == call[c]
      closed == [r EXCEPT !.actor = "stopped", !.caller = FALSE, !.legs = @ \ {r.sends}]
  IN
  /\ r.actor = "draining"
  /\ Becomes(c, Resume(IF r.held = "execution" THEN BeginTerminal(closed, "completed")
                       ELSE closed, "draining"))
  /\ UNCHANGED <<shut, flush>>

Answered(r) ==
  [r EXCEPT !.stops = [k \in Stoppers |-> IF @[k] = "persisting" THEN "over" ELSE @[k]]]

\* The end of the call is recorded, or was before by another: finalizeTerminalExecution.
\* Until the shutdown comes to its calls it drops none of them: it persists the end of
\* one that was recorded in the meantime again.
WriteSucceeds(c) ==
  LET r == Answered([ClearSwap(call[c]) EXCEPT !.write = "idle", !.held = "none"]) IN
  /\ call[c].write = "writing"
  /\ Becomes(c, IF r.start = "settling" THEN StartEnds(r, TRUE) ELSE r)
  /\ flush' = IF shut = "starting" THEN flush ELSE flush \ {c}
  /\ UNCHANGED shut

\* scheduleTerminalRetry: no timer is set any more once the worker shuts down.
Mut_AfterFailure(r) == IF ShuttingDown THEN "idle" ELSE "timer"
AfterFailure(r) ==
  IF r.tries >= MaxWrites THEN "exhausted" ELSE IF ShuttingDown THEN "idle" ELSE "timer"

WriteFails(c) ==
  LET r == Answered([call[c] EXCEPT !.write = AfterFailure(call[c])])
      given == r.write = "exhausted" /\ c \in flush /\ shut # "starting"
  IN
  /\ call[c].write = "writing"
  /\ Becomes(c, IF r.start = "settling" THEN StartEnds(r, FALSE) ELSE r)
  /\ flush' = IF given THEN flush \ {c} ELSE flush
  /\ shut' = IF given THEN "rejected" ELSE shut

RetryTimer(c) ==
  /\ call[c].write = "timer"
  /\ Becomes(c, Persist(call[c]))
  /\ UNCHANGED <<shut, flush>>

-----------------------------------------------------------------------------
(* Shutdown: the bridge's, then the execution service's *)

BridgeShutdown ==
  /\ shut = "no"
  /\ shut' = "bridge"
  /\ UNCHANGED <<call, flush>>

\* Every attachment is terminalized.
BridgeDone ==
  \A c \in PremiumCalls :
    \/ call[c].stream = "none"
    \/ Free(call[c]) /\ ~call[c].caller /\ call[c].stops["bridge"] = "over"

Executions == {c \in PremiumCalls : call[c].held = "execution"}

ExecutionShutdown ==
  /\ shut = "bridge" /\ BridgeDone
  /\ shut' = "starting"
  /\ flush' = Executions
  /\ call' = [c \in PremiumCalls |->
       IF call[c].start # "no" THEN [call[c] EXCEPT !.cancel = "failed"]
       ELSE IF c \in Executions /\ call[c].stage = "none" THEN Fail(call[c]) ELSE call[c]]

\* When the starts have ended: the ends of all executions are persisted.  One that has
\* none to persist, or that is exhausted, has the shutdown rejected while the others
\* are still being tried.
FlushExecutions ==
  LET listed == flush \cup Executions
      failed == [c \in PremiumCalls |-> IF c \in listed /\ call[c].stage = "none"
                                 THEN Fail(call[c]) ELSE call[c]]
      flushed == {c \in listed : failed[c].stage # "none" /\ failed[c].write # "exhausted"}
  IN
  /\ shut = "starting" /\ Starting = {}
  /\ call' = [c \in PremiumCalls |-> IF c \in flushed THEN Persist(failed[c]) ELSE failed[c]]
  /\ flush' = flushed
  /\ shut' = IF flushed = listed THEN "executions" ELSE "rejected"

Mut_FlushStartups ==
  /\ shut = "executions" /\ flush = {}
  /\ shut' = "startups"
  /\ UNCHANGED <<call, flush>>
FlushStartups ==
  LET flushed == {c \in PendingStartups : call[c].write # "exhausted"} IN
  /\ shut = "executions" /\ flush = {}
  /\ call' = [c \in PremiumCalls |-> IF c \in flushed THEN Persist(call[c]) ELSE call[c]]
  /\ flush' = flushed
  /\ shut' = IF flushed = PendingStartups THEN "startups" ELSE "rejected"

\* flushTerminalPersistence, after its pause.
FlushRetry(c) ==
  /\ c \in flush /\ shut # "starting"
  /\ call[c].write \in {"idle", "timer"}
  /\ Becomes(c, Persist(call[c]))
  /\ UNCHANGED <<shut, flush>>

ShutdownReturns ==
  /\ shut = "startups" /\ flush = {}
  /\ shut' = "done"
  /\ UNCHANGED <<call, flush>>

-----------------------------------------------------------------------------
PremiumNext ==
  \/ \E c \in PremiumCalls :
       \/ StreamOpens(c) \/ StartCall(c) \/ OwnershipLost(c) \/ StopMessage(c)
       \/ CallerCloses(c) \/ Terminalize(c) \/ InboundFrame(c)
       \/ Connected(c) \/ StartFails(c) \/ Ready(c)
       \/ ProviderFails(c) \/ SpeakToNobody(c) \/ PolicyStops(c)
       \/ BeginHandoff(c) \/ SourcePlayed(c) \/ ReplacementConnected(c)
       \/ ReplacementFails(c) \/ ReplacementReady(c) \/ CongestedFlush(c)
       \/ HandoffDeadline(c) \/ Drained(c) \/ WriteSucceeds(c) \/ WriteFails(c)
       \/ RetryTimer(c) \/ FlushRetry(c)
  \/ BridgeShutdown \/ ExecutionShutdown \/ FlushExecutions \/ FlushStartups
  \/ ShutdownReturns

\* Timers fire; the store, the provider and the caller's socket answer or fail, the
\* repetition of a write included; Twilio's messages and the acknowledgement of an
\* announcement are never owed, nor is a shutdown begun.
PremiumFairness ==
  /\ \A c \in PremiumCalls :
       /\ WF_premiumVars(StartCall(c)) /\ WF_premiumVars(Terminalize(c))
       /\ WF_premiumVars(Connected(c) \/ StartFails(c)) /\ WF_premiumVars(Ready(c))
       /\ WF_premiumVars(SpeakToNobody(c)) /\ WF_premiumVars(HandoffDeadline(c))
       /\ WF_premiumVars(Drained(c))
       /\ WF_premiumVars(ReplacementConnected(c) \/ ReplacementFails(c) \/ ReplacementReady(c))
       /\ WF_premiumVars(WriteSucceeds(c) \/ WriteFails(c))
       /\ WF_premiumVars(RetryTimer(c)) /\ WF_premiumVars(FlushRetry(c))
  /\ WF_premiumVars(ExecutionShutdown) /\ WF_premiumVars(FlushExecutions)
  /\ WF_premiumVars(FlushStartups) /\ WF_premiumVars(ShutdownReturns)

PremiumSpec == PremiumInit /\ [][PremiumNext]_premiumVars /\ PremiumFairness

-----------------------------------------------------------------------------
(* Properties *)

\* An active call has exactly one provider connection, the one its actor sends to, also
\* when a hand-over and a stop, a failure or a late replacement cross.
ActiveOwnsOneLeg ==
  \A c \in PremiumCalls : call[c].actor = "active" =>
    /\ call[c].legs = {call[c].sends}
    /\ call[c].sends = call[c].epoch
    /\ call[c].held = "execution" /\ call[c].stage = "none"

\* Media is held only for calls that wait for a provider, and never more of it in the
\* whole worker than the shared admission allows: no way out of waiting forgets to give
\* the call's share back.
MediaHeldWhileWaiting ==
  /\ \A c \in PremiumCalls : call[c].buffer > 0 => call[c].actor \in {"initializing", "handing_off"}
  /\ HeldMedia <= IngressLimit

\* A shutdown that returns normally leaves no call whose end is not recorded.
ShutdownMeansSettled ==
  shut = "done" => \A c \in PremiumCalls : call[c].held = "none" /\ call[c].start = "no"

\* The starts whose failure is still to be recorded stay within the limit that start()
\* enforces by counting two collections a call can be in together.
PendingStartupsBounded == Cardinality(PendingStartups \cup Starting) <= StartupLimit

\* A call whose caller is gone ends: its connections are closed (but for the one a
\* congested flush forgets) and its end is recorded, given up, or left by a shutdown
\* that was rejected; also when the caller went while the call was being started, when
\* the only stop the bridge would send was rejected.
AbandonedCallEnds ==
  \A c \in PremiumCalls : (call[c].stream # "none" /\ ~call[c].caller) ~>
    /\ call[c].start = "no" /\ (call[c].legs = {} \/ call[c].swap = "congested")
    /\ call[c].held = "none" \/ call[c].write = "exhausted" \/ shut = "rejected"

\* A hand-over ends, one way or the other, though nothing owes it the end of the
\* announcement it waits for.
HandoffEnds ==
  \A c \in PremiumCalls : (call[c].actor = "handing_off") ~> (call[c].actor # "handing_off")

\* The shutdown returns or is rejected.
ShutdownEnds == (shut # "no") ~> (shut \in {"done", "rejected"})
=============================================================================
