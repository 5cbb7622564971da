------------------------------ MODULE WorkerDrain ------------------------------
(***************************************************************************)
(* The drain of a realtime worker (realtime-worker/pstn-realtime-worker-   *)
(* lifecycle.ts) while the other processes still choose it for new calls   *)
(* from the heartbeat it left in Redis (realtime-worker/pstn-realtime-     *)
(* worker-registry.ts, pstn-premium-worker-availability.ts), up to the     *)
(* shutdown that follows (realtime-worker/pstn-realtime-worker-host.ts).   *)
(* Times are what is left of them, and a Tick passes them all.             *)
(***************************************************************************)
EXTENDS Integers

CONSTANTS
  Guests,         \* the calls that may come to this worker
  HeartbeatTtl,   \* heartbeatTtlMs, in ticks
  DrainWindow     \* drainTimeoutMs, in ticks

ASSUME DrainAssumption == {HeartbeatTtl, DrainWindow} \subseteq Nat \ {0}

VARIABLES
  worker,      \* what the lifecycle service believes of itself
  refresh,     \* its one refresh in flight, and what that publishes
  heartbeat,   \* the worker's record in Redis, and whether the worker knows of it
  drain,       \* how far the drain has come, and what is left of its sleep or window
  guest        \* the calls, for how long they are connected, and if before the window

drainVars == <<worker, refresh, heartbeat, drain, guest>>

Postures == {"starting", "ready", "draining"}

DrainTypeOK ==
  /\ worker \in [state : Postures, registered : BOOLEAN, left : 0..HeartbeatTtl]
  /\ refresh \in [at : {"idle", "checking", "publishing", "published"}, as : Postures]
  /\ heartbeat \in [state : Postures, left : 0..HeartbeatTtl, heard : BOOLEAN]
  /\ drain \in [at : {"no", "joining", "publishing", "silence", "waiting", "last", "over", "done"},
                left : 0..(HeartbeatTtl + DrainWindow), reason : {"empty", "deadline"}]
  /\ guest \in [Guests -> [at : {"none", "routed", "claimed", "live", "gone", "refused", "cut"},
                           age : 0..DrainWindow, early : BOOLEAN]]

DrainInit ==
  /\ worker = [state |-> "starting", registered |-> FALSE, left |-> 0]
  /\ refresh = [at |-> "idle", as |-> "starting"]
  /\ heartbeat = [state |-> "starting", left |-> 0, heard |-> TRUE]
  /\ drain = [at |-> "no", left |-> 0, reason |-> "empty"]
  /\ guest = [c \in Guests |-> [at |-> "none", age |-> 0, early |-> FALSE]]

Less(n) == IF n = 0 THEN 0 ELSE n - 1

Tick ==
  /\ worker' = [worker EXCEPT !.left = Less(@)]
  /\ heartbeat' = [heartbeat EXCEPT !.left = Less(@)]
  /\ drain' = [drain EXCEPT !.left = Less(@)]
  /\ guest' = [c \in Guests |-> IF guest[c].at = "live" /\ guest[c].age < DrainWindow
                                THEN [guest[c] EXCEPT !.age = @ + 1] ELSE guest[c]]
  /\ UNCHANGED refresh

-----------------------------------------------------------------------------
(* performRefresh *)

Checking == [refresh EXCEPT !.at = "checking"]

\* The interval, until the drain is over; a refresh in flight is joined.
RefreshBegins ==
  /\ drain.at \notin {"over", "done"}
  /\ refresh.at = "idle"
  /\ refresh' = Checking
  /\ UNCHANGED <<worker, heartbeat, drain, guest>>

\* The dependencies and the resources are checked; the state that is published is the
\* one the worker is in by now.
Checked ==
  /\ refresh.at = "checking"
  /\ \E fit \in BOOLEAN :
       LET state == IF worker.state = "starting" /\ fit THEN "ready" ELSE worker.state
           shown == IF state = "draining" \/ fit THEN state ELSE "starting"
       IN worker' = [worker EXCEPT !.state = state] /\ refresh' = [at |-> "publishing", as |-> shown]
  /\ UNCHANGED <<heartbeat, drain, guest>>

PublishArrives ==
  /\ refresh.at = "publishing"
  /\ refresh' = [refresh EXCEPT !.at = "published"]
  /\ heartbeat' = [state |-> refresh.as, left |-> HeartbeatTtl, heard |-> FALSE]
  /\ UNCHANGED <<worker, drain, guest>>

\* What awaits the refresh goes on: a drain that had only joined it begins one of its own;
\* the drain's own, unless it was published, is followed by a sleep until the last known
\* heartbeat has run out (waitForLastReadyHeartbeatExpiry); the last one ends the drain.
AfterRefresh(registered, left) ==
  CASE drain.at = "joining" -> [drain EXCEPT !.at = "publishing"]
    [] drain.at = "publishing" /\ ~registered /\ left > 0
         -> [drain EXCEPT !.at = "silence", !.left = left]
    [] drain.at = "publishing" /\ (registered \/ left = 0)
         -> [drain EXCEPT !.at = "waiting", !.left = DrainWindow]
    [] drain.at = "last" -> [drain EXCEPT !.at = "over"]
    [] OTHER -> drain

RefreshEnds(registered, left) ==
  /\ worker' = [worker EXCEPT !.registered = registered, !.left = left]
  /\ drain' = AfterRefresh(registered, left)
  /\ refresh' = IF drain.at = "joining" THEN Checking ELSE [refresh EXCEPT !.at = "idle"]
  /\ UNCHANGED guest

PublishAnswered ==
  /\ refresh.at = "published"
  /\ heartbeat' = [heartbeat EXCEPT !.heard = TRUE]
  /\ RefreshEnds(TRUE, HeartbeatTtl)

\* The command fails or times out, before Redis has run it or after.
PublishFails ==
  /\ refresh.at \in {"publishing", "published"}
  /\ UNCHANGED heartbeat
  /\ RefreshEnds(FALSE, worker.left)

-----------------------------------------------------------------------------
(* beginDrain and the shutdown after it *)

Mut_BeginDrain ==
  /\ drain.at = "no"
  /\ worker' = [worker EXCEPT !.state = "draining", !.registered = FALSE]
  /\ drain' = [drain EXCEPT !.at = "publishing"]
  /\ refresh' = IF refresh.at = "idle" THEN Checking ELSE refresh
  /\ UNCHANGED <<heartbeat, guest>>
\* A refresh in flight, which may publish "ready" still, is let pass first.
BeginDrain ==
  /\ drain.at = "no"
  /\ worker' = [worker EXCEPT !.state = "draining", !.registered = FALSE]
  /\ IF refresh.at = "idle"
     THEN refresh' = Checking /\ drain' = [drain EXCEPT !.at = "publishing"]
     ELSE UNCHANGED refresh /\ drain' = [drain EXCEPT !.at = "joining"]
  /\ UNCHANGED <<heartbeat, guest>>

\* The deadline is counted from here.
Mut_SilenceEnds ==
  /\ drain.at = "silence" /\ drain.left = 0
  /\ drain' = [drain EXCEPT !.at = "waiting", !.left = Less(DrainWindow)]
  /\ UNCHANGED <<worker, refresh, heartbeat, guest>>
SilenceEnds ==
  /\ drain.at = "silence" /\ drain.left = 0
  /\ drain' = [drain EXCEPT !.at = "waiting", !.left = DrainWindow]
  /\ UNCHANGED <<worker, refresh, heartbeat, guest>>

Live == {c \in Guests : guest[c].at = "live"}

Mut_WaitEnds ==
  /\ drain.at = "waiting" /\ Live = {}
  /\ drain' = [drain EXCEPT !.at = "last"]
  /\ refresh' = IF refresh.at = "idle" THEN Checking ELSE refresh
  /\ UNCHANGED <<worker, heartbeat, guest>>
\* waitForDrain, at one of its polls: no call is left or the deadline has come.
WaitEnds ==
  /\ drain.at = "waiting"
  /\ Live = {} \/ drain.left = 0
  /\ drain' = [drain EXCEPT !.at = "last", !.reason = IF Live = {} THEN "empty" ELSE "deadline"]
  /\ refresh' = IF refresh.at = "idle" THEN Checking ELSE refresh
  /\ UNCHANGED <<worker, heartbeat, guest>>

\* The bridge and the execution service shut down: every stream that is open is closed.
Shutdown ==
  /\ drain.at = "over"
  /\ drain' = [drain EXCEPT !.at = "done"]
  /\ guest' = [c \in Guests |-> IF guest[c].at \in {"claimed", "live"}
                                THEN [guest[c] EXCEPT !.at = "cut"] ELSE guest[c]]
  /\ UNCHANGED <<worker, refresh, heartbeat>>

-----------------------------------------------------------------------------
(* The calls *)

Moves(c, g) == guest' = [guest EXCEPT ![c] = g] /\ UNCHANGED <<worker, refresh, heartbeat, drain>>

\* Another process selects the worker: its record says "ready" and has not run out.
Select(c) ==
  /\ guest[c].at = "none"
  /\ heartbeat.state = "ready" /\ heartbeat.left > 0
  /\ Moves(c, [guest[c] EXCEPT !.at = "routed"])

\* getHealthPosture().acceptingCalls, as the bridge reads it before the claim of a stream.
AcceptingCalls == worker.state = "ready" /\ worker.registered /\ worker.left > 0

\* The stream of the call reaches the worker, which claims it or sends it away.
Attach(c) ==
  /\ guest[c].at = "routed"
  /\ Moves(c, [guest[c] EXCEPT !.at = IF AcceptingCalls THEN "claimed" ELSE "refused"])

\* The execution starts, and with it the call is counted.
StartExecution(c) ==
  /\ guest[c].at = "claimed"
  /\ Moves(c, [guest[c] EXCEPT !.at = "live",
                 !.early = drain.at \in {"no", "joining", "publishing", "silence"}])

CallEnds(c) ==
  /\ guest[c].at \in {"claimed", "live"}
  /\ Moves(c, [guest[c] EXCEPT !.at = "gone"])

DrainNext ==
  \/ Tick \/ RefreshBegins \/ Checked \/ PublishArrives \/ PublishAnswered \/ PublishFails
  \/ BeginDrain \/ SilenceEnds \/ WaitEnds \/ Shutdown
  \/ \E c \in Guests : Select(c) \/ Attach(c) \/ StartExecution(c) \/ CallEnds(c)

\* Time passes, the dependencies and Redis answer or time out, and the drain goes on when
\* it is woken; that it begins is owed by nobody, nor that a call ends.
DrainFairness ==
  /\ WF_drainVars(Tick) /\ WF_drainVars(Checked)
  /\ WF_drainVars(PublishArrives \/ PublishAnswered \/ PublishFails)
  /\ WF_drainVars(SilenceEnds) /\ WF_drainVars(WaitEnds) /\ WF_drainVars(Shutdown)

DrainSpec == DrainInit /\ [][DrainNext]_drainVars /\ DrainFairness

-----------------------------------------------------------------------------
(* Properties *)

\* When the wait for the calls has begun nobody can choose the worker any more: the record
\* in Redis says that it drains, or has run out; unless Redis took a "ready" whose answer
\* the worker never got, and so outlives the sleep.
HiddenWhenDrained ==
  drain.at \in {"waiting", "last", "over", "done"} =>
    heartbeat.state # "ready" \/ heartbeat.left = 0 \/ ~heartbeat.heard

\* "Established calls receive the configured completion window": a call that was counted
\* before the wait began is cut only when it was let run for the whole window, the time
\* slept for the heartbeat not included.
WindowIsGiven ==
  \A c \in Guests : guest[c].at = "cut" /\ guest[c].early =>
    guest[c].age = DrainWindow /\ drain.reason = "deadline"

\* A drain that has begun comes to its shutdown, though no call ends and nothing can be
\* published.
DrainShutsDown == (drain.at # "no") ~> (drain.at = "done")
=============================================================================
