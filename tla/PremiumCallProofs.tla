--------------------------- MODULE PremiumCallProofs ---------------------------
(***************************************************************************)
(* What a worker guarantees of its premium calls, for every set of calls   *)
(* and every value of the limits.                                          *)
(*                                                                         *)
(* The argument has a part about one call and a part about the shutdown.   *)
(* The record of a call stays coherent (Coherent): a start that is being   *)
(* settled and an execution exclude each other, an actor that can still    *)
(* speak belongs to an execution whose end has not begun, and while no     *)
(* hand-over is under way it has the one connection it sends to.  Each     *)
(* phase of the shutdown has a set of calls it has done with for good      *)
(* (ShutdownProgress), because nothing starts any more.                    *)
(***************************************************************************)
EXTENDS PremiumCall, SumTheorems

OnAir == {"initializing", "active", "handing_off"}

\* A stream before its start, a start before its end, an execution.
PhasesExclude(r) ==
  /\ r.stream = "starting" <=> r.start # "no"
  /\ r.stream # "open" => r.actor = "none" /\ r.sends = 0 /\ r.epoch = 0 /\ r.swap = "none"
  /\ r.stream \in {"none", "opening"} \/ r.start = "connecting" =>
       r.held = "none" /\ r.stage = "none"
  /\ r.held = "startup" => r.actor = "none" /\ r.stage # "none"
  /\ r.held = "execution" => r.start = "no"

\* An actor that can still speak, and what it owns.
ActorsOwn(r) ==
  /\ r.actor \in OnAir => r.held = "execution" /\ r.stage = "none"
  /\ r.actor \in {"initializing", "active"} =>
       r.legs = {r.sends} /\ r.sends = r.epoch /\ r.swap = "none"
  /\ r.write # "idle" => r.stage # "none"
  /\ r.buffer > 0 => r.actor \in {"initializing", "handing_off"}

Coherent(r) == PhasesExclude(r) /\ ActorsOwn(r)
CallsCoherent == \A c \in PremiumCalls : Coherent(call[c])

ShutdownProgress ==
  \A c \in PremiumCalls :
    /\ shut \in {"executions", "startups", "done"} => call[c].start = "no"
    /\ shut = "executions" => (call[c].held = "execution" => c \in flush)
    /\ shut = "startups" => call[c].held # "execution" /\ (call[c].held = "startup" => c \in flush)
    /\ shut = "done" => call[c].held = "none"
    /\ shut # "starting" /\ c \in flush => call[c].stage # "none"

MediaBounded == HeldMedia <= IngressLimit

PremiumInv ==
  /\ PremiumTypeOK /\ CallsCoherent /\ ShutdownProgress
  /\ PendingStartupsBounded /\ MediaBounded

-----------------------------------------------------------------------------
(* The record of a call *)

LEMMA Limits ==
  ASSUME PremiumAssumption
  PROVE  /\ MaxEpoch \in Nat /\ BufferLimit \in Nat
         /\ MaxWrites \in Nat \ {0} /\ StartupLimit \in Nat \ {0}
         /\ 0 \in 0..MaxEpoch /\ 0 \in 0..BufferLimit
BY DEF PremiumAssumption

LEMMA MinOfTwo ==
  ASSUME NEW m \in Nat, NEW n \in Nat
  PROVE  Min({m, n}) \in {m, n} /\ Min({m, n}) <= m /\ Min({m, n}) <= n
<1>1. \E x \in {m, n} : \A y \in {m, n} : x <= y
  <2>1. CASE m <= n
    BY <2>1
  <2>2. CASE n <= m
    BY <2>2
  <2>3. QED
    BY <2>1, <2>2
<1>2. QED
  BY <1>1 DEF Min

\* What the coherence of a call speaks of.
Alike(r, s) ==
  /\ s.stream = r.stream /\ s.start = r.start /\ s.held = r.held /\ s.actor = r.actor
  /\ s.sends = r.sends /\ s.epoch = r.epoch /\ s.swap = r.swap /\ s.legs = r.legs
  /\ s.stage = r.stage /\ s.buffer = r.buffer

\* A call stays where it is, as far as the limits and the shutdown are concerned.
Stays(r, s) ==
  /\ s.stream = r.stream /\ s.start = r.start /\ s.held = r.held
  /\ s.buffer \in {0, r.buffer}
  /\ r.stage # "none" => s.stage # "none"

Keeps(r, s) == s \in CallState /\ Coherent(s) /\ Stays(r, s)

LEMMA KeepsOn ==
  ASSUME NEW r, NEW e, NEW s, Keeps(r, e), Keeps(e, s)
  PROVE  Keeps(r, s)
BY DEF Keeps, Stays

LEMMA AlikeCoherent ==
  ASSUME NEW r, NEW s, Coherent(r), Alike(r, s), s.write # "idle" => s.stage # "none"
  PROVE  Coherent(s) /\ Stays(r, s)
BY DEF Coherent, PhasesExclude, ActorsOwn, Alike, Stays, OnAir

LEMMA PersistWrites ==
  ASSUME PremiumAssumption, NEW r \in CallState
  PROVE  Persist(r) \in CallState /\ Alike(r, Persist(r)) /\ Persist(r).stops = r.stops
<1>1. CASE r.write \in {"idle", "timer"}
  <2> DEFINE n == Min({r.tries + 1, MaxWrites})
             s == [r EXCEPT !.write = "writing"]
  <2>1. n \in 0..MaxWrites
    <3>1. r.tries \in Nat
      BY Limits DEF CallState
    <3>2. QED
      BY <3>1, Limits, MinOfTwo
  <2>2. s \in CallState
    BY DEF CallState
  <2>3. Alike(r, s) /\ s.stops = r.stops /\ s.tries = r.tries
    BY DEF Alike, CallState
  <2>4. Persist(r) = [s EXCEPT !.tries = n]
    BY <1>1, <2>3 DEF Persist
  <2> HIDE DEF n, s
  <2>5. Persist(r) \in CallState
    BY <2>1, <2>2, <2>4 DEF CallState
  <2>6. Alike(s, Persist(r)) /\ Persist(r).stops = s.stops
    BY <2>2, <2>4 DEF Alike, CallState
  <2>7. QED
    BY <2>3, <2>5, <2>6 DEF Alike
<1>2. CASE r.write \notin {"idle", "timer"}
  BY <1>2 DEF Persist, Alike
<1>3. QED
  BY <1>1, <1>2

LEMMA PersistCoherent ==
  ASSUME PremiumAssumption, NEW r \in CallState, Coherent(r), r.stage # "none"
  PROVE  /\ Persist(r) \in CallState /\ Coherent(Persist(r)) /\ Stays(r, Persist(r))
         /\ Persist(r).stage = r.stage /\ Persist(r).stops = r.stops
BY PersistWrites, AlikeCoherent DEF Alike

\* Only a call that is starting or whose actor is done with begins its end.
LEMMA BeginTerminalCoherent ==
  ASSUME PremiumAssumption, NEW r \in CallState, NEW outcome \in StopOutcomes,
         Coherent(r), r.held # "none", r.actor \notin OnAir
  PROVE  LET s == BeginTerminal(r, outcome) IN
         s \in CallState /\ Coherent(s) /\ Stays(r, s) /\ s.stage # "none" /\ s.stops = r.stops
<1> DEFINE e == [r EXCEPT !.stage = IF r.stage = "none" THEN outcome ELSE r.stage]
<1>1. BeginTerminal(r, outcome) = Persist(e)
  BY DEF BeginTerminal
<1>2. e \in CallState /\ e.stage # "none" /\ e.stops = r.stops /\ Stays(r, e)
  BY DEF CallState, StopOutcomes, Stays
<1>3. Coherent(e)
  BY DEF CallState, Coherent, PhasesExclude, ActorsOwn, OnAir
<1> HIDE DEF e
<1>4. QED
  BY <1>1, <1>2, <1>3, PersistCoherent DEF Stays

\* A failure ends the actor if it can still speak, and begins the end of its call.
LEMMA FailCoherent ==
  ASSUME PremiumAssumption, NEW r \in CallState, Coherent(r)
  PROVE  /\ Fail(r) \in CallState /\ Coherent(Fail(r)) /\ Stays(r, Fail(r))
         /\ Fail(r).stage = "none" => Fail(r) = r /\ r.actor \notin OnAir
         /\ Fail(r).actor \notin OnAir
<1>1. CASE r.actor \in OnAir
  <2> DEFINE e == [r EXCEPT !.actor = "failed", !.buffer = 0, !.caller = FALSE,
                            !.legs = r.legs \ {r.sends}]
  <2>1. Fail(r) = BeginTerminal(e, "failed")
    BY <1>1 DEF Fail, OnAir
  <2>2. e \in CallState
    BY Limits DEF CallState
  <2>3. Coherent(e) /\ e.held = "execution" /\ e.actor \notin OnAir /\ Stays(r, e)
    BY <1>1 DEF CallState, Coherent, PhasesExclude, ActorsOwn, OnAir, Stays
  <2> HIDE DEF e
  <2>4. /\ Fail(r) \in CallState /\ Coherent(Fail(r)) /\ Stays(e, Fail(r))
        /\ Fail(r).stage # "none"
    BY <2>1, <2>2, <2>3, BeginTerminalCoherent DEF StopOutcomes
  <2>5. QED
    BY <2>3, <2>4 DEF Stays, Coherent, ActorsOwn
<1>2. CASE r.actor \notin OnAir
  BY <1>2 DEF Fail, OnAir, Stays
<1>3. QED
  BY <1>1, <1>2

LEMMA ClearSwapCoherent ==
  ASSUME NEW r \in CallState, Coherent(r)
  PROVE  /\ ClearSwap(r) \in CallState /\ Coherent(ClearSwap(r)) /\ Stays(r, ClearSwap(r))
         /\ ClearSwap(r).stage = r.stage /\ ClearSwap(r).actor = r.actor
<1>1. ClearSwap(r) \in CallState
  BY ZenonT(40) DEF ClearSwap, CallState
<1>2. Coherent(ClearSwap(r)) /\ Stays(r, ClearSwap(r))
  BY DEF ClearSwap, CallState, Coherent, PhasesExclude, ActorsOwn, OnAir, Stays
<1>3. QED
  BY <1>1, <1>2 DEF ClearSwap, CallState

\* Whatever held is, no actor that can still speak is left.
LEMMA FailExecutionCoherent ==
  ASSUME PremiumAssumption, NEW r \in CallState, Coherent(r)
  PROVE  LET s == FailExecution(r) IN
         s \in CallState /\ Coherent(s) /\ Stays(r, s) /\ s.actor \notin OnAir
<1>1. CASE r.held = "execution"
  BY <1>1, ClearSwapCoherent, FailCoherent DEF FailExecution, Stays
<1>2. CASE r.held # "execution"
  BY <1>2 DEF FailExecution, Stays, Coherent, ActorsOwn
<1>3. QED
  BY <1>1, <1>2

LEMMA StopsCoherent ==
  ASSUME NEW r \in CallState, Coherent(r), NEW k \in Stoppers,
         NEW v \in {"no", "waiting", "draining", "persisting", "over"}
  PROVE  Keeps(r, [r EXCEPT !.stops[k] = v])
<1> DEFINE s == [r EXCEPT !.stops[k] = v]
<1>1. s \in CallState
  BY DEF CallState
<1>2. Alike(r, s) /\ s.write = r.write
  BY DEF CallState, Alike
<1> HIDE DEF s
<1>3. Coherent(s) /\ Stays(r, s)
  BY <1>2, AlikeCoherent DEF Coherent, ActorsOwn, Alike
<1>4. QED
  BY <1>1, <1>3 DEF s, Keeps

LEMMA AwaitWriteCoherent ==
  ASSUME PremiumAssumption, NEW r \in CallState, Coherent(r), NEW k \in Stoppers,
         r.stage # "none"
  PROVE  Keeps(r, AwaitWrite(r, k))
<1> DEFINE p == Persist(r)
           v == IF p.write = "writing" THEN "persisting" ELSE "over"
<1>1. Keeps(r, p)
  BY PersistCoherent DEF Keeps
<1>2. AwaitWrite(r, k) = [p EXCEPT !.stops[k] = v]
  BY DEF AwaitWrite
<1>3. v \in {"persisting", "over"}
  OBVIOUS
<1> HIDE DEF p, v
<1>4. Keeps(p, [p EXCEPT !.stops[k] = v])
  BY <1>1, <1>3, StopsCoherent DEF Keeps
<1>5. QED
  BY <1>1, <1>2, <1>4, KeepsOn

\* A stop leaves the call held, or starting, as it is.
LEMMA StopCoherent ==
  ASSUME PremiumAssumption, NEW r \in CallState, Coherent(r), NEW k \in Stoppers,
         NEW outcome \in StopOutcomes
  PROVE  Keeps(r, Stop(r, k, outcome))
<1> DEFINE Stopped(e, v) == [e EXCEPT !.stops[k] = v]
<1>1. ASSUME NEW e, NEW v \in {"waiting", "draining", "over"}, Keeps(r, e),
             Stop(r, k, outcome) = Stopped(e, v)
      PROVE  Keeps(r, Stop(r, k, outcome))
  <2>1. Keeps(e, Stopped(e, v))
    BY <1>1, StopsCoherent DEF Keeps
  <2>2. QED
    BY <1>1, <2>1, KeepsOn
<1>2. Keeps(r, r)
  BY DEF Keeps, Stays
<1>3. CASE r.held # "execution" /\ r.start # "no"
  <2> DEFINE e == [r EXCEPT !.cancel = IF r.cancel = "failed" THEN "failed" ELSE outcome]
  <2>1. e \in CallState
    BY DEF CallState, StopOutcomes
  <2>2. Alike(r, e) /\ e.write = r.write
    BY DEF CallState, Alike, StopOutcomes
  <2>3. Stop(r, k, outcome) = Stopped(e, "waiting")
    BY <1>3 DEF Stop
  <2> HIDE DEF e, Stopped
  <2>4. Keeps(r, e)
    BY <2>1, <2>2, AlikeCoherent DEF Coherent, ActorsOwn, Alike, Keeps
  <2>5. QED
    BY <1>1, <2>3, <2>4
<1>4. CASE ~(r.held # "execution" /\ r.start # "no") /\ r.held = "none"
  <2>1. Stop(r, k, outcome) = Stopped(r, "over")
    BY <1>4 DEF Stop
  <2>2. QED
    BY <1>1, <1>2, <2>1
<1>5. CASE ~(r.held # "execution" /\ r.start # "no") /\ r.held # "none"
  <2>1. CASE r.stage # "none"
    BY <1>5, <2>1, AwaitWriteCoherent DEF Stop
  <2>2. CASE r.stage = "none" /\ outcome = "completed"
    <3> DEFINE e == [r EXCEPT !.actor = "draining", !.buffer = 0]
    <3>1. e \in CallState
      BY Limits DEF CallState
    <3>2. Coherent(e) /\ Stays(r, e)
      BY <1>5, <2>2 DEF CallState, Coherent, PhasesExclude, ActorsOwn, OnAir, Stays
    <3>3. Stop(r, k, outcome) = Stopped(e, "draining")
      BY <1>5, <2>2 DEF Stop
    <3> HIDE DEF e, Stopped
    <3>4. QED
      BY <1>1, <3>1, <3>2, <3>3 DEF Keeps
  <2>3. CASE r.stage = "none" /\ outcome # "completed" /\ Fail(r).stage # "none"
    <3>1. Stop(r, k, outcome) = AwaitWrite(Fail(r), k)
      BY <1>5, <2>3 DEF Stop
    <3>2. Keeps(r, Fail(r))
      BY FailCoherent DEF Keeps
    <3>3. Keeps(Fail(r), AwaitWrite(Fail(r), k))
      BY <2>3, FailCoherent, AwaitWriteCoherent
    <3>4. QED
      BY <3>1, <3>2, <3>3, KeepsOn
  <2>4. CASE r.stage = "none" /\ outcome # "completed" /\ Fail(r).stage = "none" /\ k = "policy"
    <3>1. Stop(r, k, outcome) = Stopped(BeginTerminal(r, "failed"), "over")
      BY <1>5, <2>4 DEF Stop
    <3>2. r.actor \notin OnAir
      BY <2>4, FailCoherent
    <3>3. Keeps(r, BeginTerminal(r, "failed"))
      BY <1>5, <3>2, BeginTerminalCoherent DEF StopOutcomes, Keeps
    <3> HIDE DEF Stopped
    <3>4. QED
      BY <1>1, <3>1, <3>3
  <2>5. CASE r.stage = "none" /\ outcome # "completed" /\ Fail(r).stage = "none" /\ k # "policy"
    <3>1. Stop(r, k, outcome) = Stopped(r, "over")
      BY <1>5, <2>5 DEF Stop
    <3>2. QED
      BY <1>1, <1>2, <3>1
  <2>6. QED
    BY <2>1, <2>2, <2>3, <2>4, <2>5
<1>6. QED
  BY <1>3, <1>4, <1>5

LEMMA AllStopsCoherent ==
  ASSUME NEW r \in CallState, Coherent(r),
         NEW f \in [Stoppers -> {"no", "waiting", "draining", "persisting", "over"}]
  PROVE  Keeps(r, [r EXCEPT !.stops = f])
<1> DEFINE s == [r EXCEPT !.stops = f]
<1>1. s \in CallState
  BY DEF CallState
<1>2. Alike(r, s) /\ s.write = r.write
  BY DEF CallState, Alike
<1> HIDE DEF s
<1>3. Keeps(r, s)
  BY <1>1, <1>2, AlikeCoherent DEF Coherent, ActorsOwn, Alike, Keeps
<1>4. QED
  BY <1>3 DEF s

LEMMA SocketCoherent ==
  ASSUME NEW r \in CallState, Coherent(r)
  PROVE  /\ Keeps(r, [r EXCEPT !.caller = FALSE]) /\ Keeps(r, [r EXCEPT !.goodbye = TRUE])
         /\ \A outcome \in StopOutcomes : Keeps(r, [r EXCEPT !.cancel = outcome])
<1>1. ASSUME NEW s \in CallState, Alike(r, s), s.write = r.write
      PROVE  Keeps(r, s)
  BY <1>1, AlikeCoherent DEF Coherent, ActorsOwn, Alike, Keeps
<1>2. [r EXCEPT !.caller = FALSE] \in CallState /\ [r EXCEPT !.goodbye = TRUE] \in CallState
  BY DEF CallState
<1>3. \A outcome \in StopOutcomes : [r EXCEPT !.cancel = outcome] \in CallState
  BY DEF CallState
<1>4. /\ Alike(r, [r EXCEPT !.caller = FALSE]) /\ [r EXCEPT !.caller = FALSE].write = r.write
      /\ Alike(r, [r EXCEPT !.goodbye = TRUE]) /\ [r EXCEPT !.goodbye = TRUE].write = r.write
  BY DEF CallState, Alike
<1>5. \A outcome \in StopOutcomes :
        Alike(r, [r EXCEPT !.cancel = outcome]) /\ [r EXCEPT !.cancel = outcome].write = r.write
  BY DEF CallState, Alike
<1>6. QED
  BY <1>1, <1>2, <1>3, <1>4, <1>5

LEMMA ResumeCoherent ==
  ASSUME PremiumAssumption, NEW r \in CallState, Coherent(r), NEW from
  PROVE  Keeps(r, Resume(r, from))
<1> DEFINE waiting == {k \in Stoppers : r.stops[k] = from}
           Went(to) == [k \in Stoppers |-> IF k \in waiting THEN to ELSE r.stops[k]]
<1>1. r.stops \in [Stoppers -> {"no", "waiting", "draining", "persisting", "over"}]
  BY DEF CallState
<1>2. \A to \in {"persisting", "over"} :
        Went(to) \in [Stoppers -> {"no", "waiting", "draining", "persisting", "over"}]
  BY <1>1
<1>3. CASE waiting = {}
  BY <1>3 DEF Resume, Keeps, Stays
<1>4. CASE waiting # {} /\ (r.stage = "none" \/ (from = "waiting" /\ r.held = "none"))
  <2>1. Resume(r, from) = [r EXCEPT !.stops = Went("over")]
    BY <1>4 DEF Resume
  <2> HIDE DEF Went
  <2>2. QED
    BY <1>2, <2>1, AllStopsCoherent
<1>5. CASE waiting # {} /\ ~(r.stage = "none" \/ (from = "waiting" /\ r.held = "none"))
  <2> DEFINE p == Persist(r)
             to == IF p.write = "writing" THEN "persisting" ELSE "over"
  <2>1. Keeps(r, p) /\ p.stops = r.stops
    BY <1>5, PersistCoherent DEF Keeps
  <2>2. Resume(r, from) = [p EXCEPT !.stops = Went(to)]
    BY <1>5, <2>1 DEF Resume
  <2>3. to \in {"persisting", "over"}
    OBVIOUS
  <2> HIDE DEF p, to, Went
  <2>4. Keeps(p, [p EXCEPT !.stops = Went(to)])
    BY <1>2, <2>1, <2>3, AllStopsCoherent DEF Keeps
  <2>5. QED
    BY <2>1, <2>2, <2>4, KeepsOn
<1>6. QED
  BY <1>3, <1>4, <1>5

LEMMA AnsweredCoherent ==
  ASSUME NEW r \in CallState, Coherent(r)
  PROVE  Keeps(r, Answered(r))
<1> DEFINE f == [k \in Stoppers |-> IF r.stops[k] = "persisting" THEN "over" ELSE r.stops[k]]
<1>1. f \in [Stoppers -> {"no", "waiting", "draining", "persisting", "over"}]
  BY DEF CallState
<1>2. Answered(r) = [r EXCEPT !.stops = f]
  BY DEF Answered
<1> HIDE DEF f
<1>3. QED
  BY <1>1, <1>2, AllStopsCoherent

\* A start that ends leaves nothing of itself but its record.
LEMMA StartEndsCoherent ==
  ASSUME PremiumAssumption, NEW r \in CallState, Coherent(r), r.start # "no",
         NEW written \in BOOLEAN
  PROVE  LET s == StartEnds(r, written) IN
         /\ s \in CallState /\ Coherent(s) /\ s.start = "no" /\ s.held = r.held
         /\ s.buffer \in {0, r.buffer}
         /\ r.stage # "none" => s.stage # "none"
<1> DEFINE there == r.caller /\ written /\ r.legs # {}
           e == [r EXCEPT !.start = "no", !.cancel = "none", !.stream = "open",
                          !.legs = {}, !.caller = there]
<1>1. there \in BOOLEAN
  BY DEF CallState
<1>2. StartEnds(r, written) = Resume(e, "waiting")
  BY DEF StartEnds
<1> HIDE DEF there
<1>3. e \in CallState
  BY <1>1 DEF CallState
<1>4. /\ Coherent(e) /\ e.start = "no" /\ e.held = r.held /\ e.stage = r.stage
      /\ e.buffer = r.buffer
  BY DEF CallState, Coherent, PhasesExclude, ActorsOwn, OnAir
<1> HIDE DEF e
<1>5. Keeps(e, Resume(e, "waiting"))
  BY <1>3, <1>4, ResumeCoherent
<1>6. QED
  BY <1>2, <1>4, <1>5 DEF Keeps, Stays

-----------------------------------------------------------------------------
(* The steps of a call *)

\* Nothing starts, nothing is held that was not, and no media beyond the limit.
Advances(r, s) ==
  /\ s \in CallState /\ Coherent(s)
  /\ s.start # "no" => r.start # "no"
  /\ s.held # "none" => s.held = r.held \/ r.start # "no"
  /\ s.buffer \in {0, r.buffer} \/ (s.buffer = r.buffer + 1 /\ HeldMedia < IngressLimit)
  /\ r.stage # "none" => s.stage # "none"

Goes(c) == \E s : Becomes(c, s) /\ Advances(call[c], s)

LEMMA KeepsAdvances ==
  ASSUME NEW r, NEW s, Keeps(r, s)
  PROVE  Advances(r, s)
BY DEF Keeps, Stays, Advances

LEMMA GoesOn ==
  ASSUME PremiumTypeOK, NEW c \in PremiumCalls, Goes(c)
  PROVE  /\ call' \in [PremiumCalls -> CallState]
         /\ \A x \in PremiumCalls \ {c} : call'[x] = call[x]
         /\ Advances(call[c], call'[c])
<1>1. PICK s : Becomes(c, s) /\ Advances(call[c], s)
  BY DEF Goes
<1>2. s \in CallState
  BY <1>1 DEF Advances
<1>3. QED
  BY <1>1, <1>2 DEF Becomes, PremiumTypeOK

\* The bridge: the stream, its socket and its messages.
LEMMA BridgeSteps ==
  ASSUME PremiumAssumption, PremiumTypeOK, CallsCoherent, NEW c \in PremiumCalls,
         StreamOpens(c) \/ OwnershipLost(c) \/ StopMessage(c) \/ CallerCloses(c)
           \/ Terminalize(c) \/ InboundFrame(c)
  PROVE  Goes(c)
<1> DEFINE r == call[c]
<1>1. r \in CallState /\ Coherent(r)
  BY DEF PremiumTypeOK, CallsCoherent
<1>2. ASSUME NEW s, Becomes(c, s), Keeps(r, s)
      PROVE  Goes(c)
  BY <1>2, KeepsAdvances DEF Goes
<1>3. CASE StreamOpens(c)
  <2> DEFINE s == [r EXCEPT !.stream = "opening", !.caller = TRUE]
  <2>1. Becomes(c, s) /\ r.stream = "none"
    BY <1>3 DEF StreamOpens
  <2> HIDE DEF r
  <2>2. s \in CallState
    BY <1>1 DEF CallState
  <2>3. Advances(r, s)
    BY <1>1, <2>1, <2>2 DEF CallState, Coherent, PhasesExclude, ActorsOwn, OnAir, Advances
  <2> HIDE DEF s
  <2>4. QED
    BY <2>1, <2>3 DEF Goes, r
<1>4. CASE OwnershipLost(c)
  <2> DEFINE e == Stop(r, "bridge", "failed")
  <2>1. Becomes(c, [e EXCEPT !.caller = FALSE])
    BY <1>4 DEF OwnershipLost
  <2>2. Keeps(r, e)
    BY <1>1, StopCoherent DEF Stoppers, StopOutcomes
  <2> HIDE DEF r, e
  <2>3. Keeps(e, [e EXCEPT !.caller = FALSE])
    BY <2>2, SocketCoherent DEF Keeps
  <2>4. QED
    BY <1>2, <2>1, <2>2, <2>3, KeepsOn
<1>5. CASE StopMessage(c)
  <2> DEFINE e == Stop(r, "twilio", "completed")
  <2>1. Becomes(c, [e EXCEPT !.goodbye = TRUE])
    BY <1>5 DEF StopMessage
  <2>2. Keeps(r, e)
    BY <1>1, StopCoherent DEF Stoppers, StopOutcomes
  <2> HIDE DEF r, e
  <2>3. Keeps(e, [e EXCEPT !.goodbye = TRUE])
    BY <2>2, SocketCoherent DEF Keeps
  <2>4. QED
    BY <1>2, <2>1, <2>2, <2>3, KeepsOn
<1>6. CASE CallerCloses(c)
  <2>1. Becomes(c, [r EXCEPT !.caller = FALSE])
    BY <1>6 DEF CallerCloses
  <2> HIDE DEF r
  <2>2. QED
    BY <1>1, <1>2, <2>1, SocketCoherent
<1>7. CASE Terminalize(c)
  <2> DEFINE outcome == IF ~r.caller /\ r.goodbye THEN "completed" ELSE "failed"
             e == Stop(r, "bridge", outcome)
  <2>1. Becomes(c, [e EXCEPT !.caller = FALSE])
    BY <1>7 DEF Terminalize
  <2>2. outcome \in StopOutcomes
    BY DEF StopOutcomes
  <2> HIDE DEF outcome
  <2>3. Keeps(r, e)
    BY <1>1, <2>2, StopCoherent DEF Stoppers
  <2> HIDE DEF r, e
  <2>4. Keeps(e, [e EXCEPT !.caller = FALSE])
    BY <2>3, SocketCoherent DEF Keeps
  <2>5. QED
    BY <1>2, <2>1, <2>3, <2>4, KeepsOn
<1>8. CASE InboundFrame(c)
  <2> DEFINE taken == [r EXCEPT !.buffer = r.buffer + 1]
  <2>1. \/ /\ r.actor \in {"initializing", "handing_off"} /\ r.buffer < BufferLimit
           /\ HeldMedia < IngressLimit
           /\ Becomes(c, taken)
        \/ Becomes(c, [r EXCEPT !.caller = FALSE])
        \/ Becomes(c, Fail(r))
    BY <1>8 DEF InboundFrame
  <2> HIDE DEF r
  <2>2. ASSUME r.actor \in {"initializing", "handing_off"}, r.buffer < BufferLimit,
               HeldMedia < IngressLimit
        PROVE  Advances(r, taken)
    <3>1. r.buffer + 1 \in 0..BufferLimit
      BY <1>1, <2>2, Limits DEF CallState
    <3>2. taken \in CallState
      BY <1>1, <3>1 DEF CallState
    <3>3. Coherent(taken) /\ taken.start = r.start /\ taken.held = r.held /\ taken.stage = r.stage
      BY <1>1, <2>2 DEF CallState, Coherent, PhasesExclude, ActorsOwn, OnAir
    <3>4. taken.buffer = r.buffer + 1
      BY <1>1 DEF CallState
    <3> HIDE DEF taken
    <3>5. QED
      BY <2>2, <3>2, <3>3, <3>4 DEF Advances
  <2> HIDE DEF taken
  <2>3. Keeps(r, Fail(r)) /\ Keeps(r, [r EXCEPT !.caller = FALSE])
    BY <1>1, FailCoherent, SocketCoherent DEF Keeps
  <2>4. QED
    BY <1>2, <2>1, <2>2, <2>3 DEF Goes, r
<1>9. QED
  BY <1>3, <1>4, <1>5, <1>6, <1>7, <1>8

\* A start that is cancelled, or fails: its end begins.
LEMMA SettlingAdvances ==
  ASSUME PremiumAssumption, NEW r \in CallState, Coherent(r), r.start = "connecting",
         NEW outcome \in StopOutcomes
  PROVE  Advances(r, BeginTerminal([r EXCEPT !.start = "settling", !.held = "startup"], outcome))
<1> DEFINE e == [r EXCEPT !.start = "settling", !.held = "startup"]
           f == [e EXCEPT !.stage = outcome]
<1>1. BeginTerminal(e, outcome) = Persist(f)
  BY DEF BeginTerminal, Coherent, PhasesExclude, CallState
<1>2. f \in CallState
  BY ZenonT(40) DEF CallState, StopOutcomes
<1>3. Coherent(f) /\ f.stage # "none" /\ f.start = "settling" /\ f.buffer = r.buffer
  BY DEF CallState, StopOutcomes, Coherent, PhasesExclude, ActorsOwn, OnAir
<1> HIDE DEF f
<1>4. Keeps(f, Persist(f)) /\ Persist(f).stage # "none"
  BY <1>2, <1>3, PersistCoherent DEF Keeps
<1>5. QED
  BY <1>1, <1>3, <1>4 DEF Keeps, Stays, Advances

\* The start of an execution, its provider and the policy of its turns.
LEMMA ExecutionSteps ==
  ASSUME PremiumAssumption, PremiumTypeOK, CallsCoherent, NEW c \in PremiumCalls,
         Connected(c) \/ StartFails(c) \/ Ready(c) \/ ProviderFails(c) \/ SpeakToNobody(c)
           \/ PolicyStops(c)
  PROVE  Goes(c)
<1> DEFINE r == call[c]
<1>1. r \in CallState /\ Coherent(r)
  BY DEF PremiumTypeOK, CallsCoherent
<1>2. ASSUME NEW s, Becomes(c, s), Keeps(r, s)
      PROVE  Goes(c)
  BY <1>2, KeepsAdvances DEF Goes
<1>3. CASE Connected(c)
  <2> DEFINE e == [r EXCEPT !.legs = {0}]
  <2>1. /\ e \in CallState /\ Coherent(e) /\ e.cancel = r.cancel /\ e.stage = "none"
        /\ e.buffer = r.buffer
    BY <1>1, <1>3, Limits DEF Connected, CallState, Coherent, PhasesExclude, ActorsOwn, OnAir
  <2>2. CASE r.cancel = "none"
    <3> DEFINE s == [e EXCEPT !.start = "no", !.stream = "open", !.held = "execution",
                              !.actor = "initializing"]
    <3>1. Becomes(c, s) /\ r.start = "connecting"
      BY <1>3, <2>1, <2>2 DEF Connected
    <3> HIDE DEF r
    <3>2. s \in CallState
      <4> DEFINE opened == [e EXCEPT !.start = "no", !.stream = "open"]
      <4> HIDE DEF e
      <4>1. opened \in CallState
        BY <2>1 DEF CallState
      <4>2. s = [opened EXCEPT !.held = "execution", !.actor = "initializing"]
        OBVIOUS
      <4> HIDE DEF opened, s
      <4>3. QED
        BY ZenonT(40), <4>1, <4>2 DEF CallState
    <3>3. Coherent(s)
      BY <1>1, <2>1, <3>1 DEF CallState, Coherent, PhasesExclude, ActorsOwn, OnAir
    <3>4. Advances(r, s)
      BY <1>1, <3>1, <3>2, <3>3 DEF CallState, Coherent, PhasesExclude, Advances
    <3> HIDE DEF s
    <3>5. QED
      BY <3>1, <3>4 DEF Goes, r
  <2>3. CASE r.cancel # "none"
    <3> DEFINE s == BeginTerminal([e EXCEPT !.start = "settling", !.held = "startup"], r.cancel)
    <3>1. Becomes(c, s) /\ r.start = "connecting"
      BY <1>3, <2>1, <2>3 DEF Connected
    <3> HIDE DEF r
    <3>2. r.cancel \in StopOutcomes
      BY <1>1, <2>3 DEF CallState
    <3>3. /\ e.start = r.start /\ e.held = r.held /\ e.stage = r.stage /\ e.buffer = r.buffer
      BY <1>1 DEF CallState
    <3> HIDE DEF e
    <3>4. Advances(e, s)
      BY <2>1, <3>1, <3>2, <3>3, SettlingAdvances
    <3> HIDE DEF s
    <3>5. Advances(r, s)
      BY <3>3, <3>4 DEF Advances
    <3>6. QED
      BY <3>1, <3>5 DEF Goes, r
  <2>4. QED
    BY <2>2, <2>3
<1>4. CASE StartFails(c)
  <2> DEFINE s == BeginTerminal([r EXCEPT !.start = "settling", !.held = "startup"], "failed")
  <2>1. Becomes(c, s) /\ r.start = "connecting"
    BY <1>4 DEF StartFails
  <2> HIDE DEF r
  <2>2. Advances(r, s)
    BY <1>1, <2>1, SettlingAdvances DEF StopOutcomes
  <2> HIDE DEF s
  <2>3. QED
    BY <2>1, <2>2 DEF Goes, r
<1>5. CASE Ready(c)
  <2> DEFINE s == [r EXCEPT !.actor = "active", !.buffer = 0]
  <2>1. (Becomes(c, s) \/ Becomes(c, Fail(r))) /\ r.actor = "initializing"
    BY <1>5 DEF Ready
  <2> HIDE DEF r
  <2>2. s \in CallState
    BY <1>1, Limits DEF CallState
  <2>3. Keeps(r, s)
    BY <1>1, <2>1, <2>2 DEF CallState, Coherent, PhasesExclude, ActorsOwn, OnAir, Keeps, Stays
  <2> HIDE DEF s
  <2>4. Keeps(r, Fail(r))
    BY <1>1, FailCoherent DEF Keeps
  <2>5. QED
    BY <1>2, <2>1, <2>3, <2>4
<1>6. CASE ProviderFails(c) \/ SpeakToNobody(c)
  <2>1. Becomes(c, FailExecution(r))
    BY <1>6 DEF ProviderFails, SpeakToNobody
  <2> HIDE DEF r
  <2>2. Keeps(r, FailExecution(r))
    BY <1>1, FailExecutionCoherent DEF Keeps
  <2>3. QED
    BY <1>2, <2>1, <2>2
<1>7. CASE PolicyStops(c)
  <2>1. PICK outcome \in StopOutcomes : Becomes(c, Stop(r, "policy", outcome))
    BY <1>7 DEF PolicyStops
  <2> HIDE DEF r
  <2>2. Keeps(r, Stop(r, "policy", outcome))
    BY <1>1, StopCoherent DEF Stoppers
  <2>3. QED
    BY <1>2, <2>1, <2>2
<1>8. QED
  BY <1>3, <1>4, <1>5, <1>6, <1>7

LEMMA LegsTypes ==
  ASSUME NEW r \in CallState,
         NEW v \in {"none", "playing", "connecting", "readying", "over", "congested"},
         NEW some \in SUBSET (0..MaxEpoch)
  PROVE  [r EXCEPT !.swap = v, !.legs = some] \in CallState
<1> DEFINE s == [r EXCEPT !.swap = v]
<1>1. s \in CallState
  BY DEF CallState
<1> HIDE DEF s
<1>2. [s EXCEPT !.legs = some] \in CallState
  BY <1>1 DEF CallState
<1>3. QED
  BY <1>2 DEF s

LEMMA EpochIsLeg ==
  ASSUME NEW r \in CallState
  PROVE  /\ r.epoch \in 0..MaxEpoch /\ {r.epoch} \in SUBSET (0..MaxEpoch)
         /\ r.legs \cup {r.epoch} \in SUBSET (0..MaxEpoch)
         /\ \A x : r.legs \ {x} \in SUBSET (0..MaxEpoch)
BY DEF CallState

\* A hand-over, from its beginning to either end, and the drain of an actor.
LEMMA HandoffSteps ==
  ASSUME PremiumAssumption, PremiumTypeOK, CallsCoherent, NEW c \in PremiumCalls,
         BeginHandoff(c) \/ SourcePlayed(c) \/ ReplacementConnected(c) \/ ReplacementFails(c)
           \/ ReplacementReady(c) \/ CongestedFlush(c) \/ HandoffDeadline(c) \/ Drained(c)
  PROVE  Goes(c)
<1> DEFINE r == call[c]
<1>1. r \in CallState /\ Coherent(r)
  BY DEF PremiumTypeOK, CallsCoherent
<1>2. ASSUME NEW s, Becomes(c, s), Keeps(r, s)
      PROVE  Goes(c)
  BY <1>2, KeepsAdvances DEF Goes
<1>3. r.swap # "none" =>
        r.stream = "open" /\ r.actor \notin {"initializing", "active"}
  BY <1>1 DEF Coherent, PhasesExclude, ActorsOwn
<1>4. /\ Keeps(r, FailExecution(r)) /\ FailExecution(r).actor \notin OnAir
      /\ FailExecution(r).stream = r.stream
  <2> HIDE DEF r
  <2>1. QED
    BY <1>1, FailExecutionCoherent DEF Keeps, Stays
<1>5. CASE BeginHandoff(c)
  <2>1. PICK step \in {"playing", "connecting"} :
          Becomes(c, [r EXCEPT !.actor = "handing_off", !.epoch = r.epoch + 1, !.armed = TRUE,
                               !.swap = step])
    BY <1>5 DEF BeginHandoff
  <2>2. r.actor = "active" /\ r.epoch < MaxEpoch
    BY <1>5 DEF BeginHandoff
  <2> DEFINE next == r.epoch + 1
             s == [r EXCEPT !.actor = "handing_off", !.epoch = next, !.armed = TRUE,
                            !.swap = step]
  <2> HIDE DEF r
  <2>3. next \in 0..MaxEpoch
    BY <1>1, <2>2, Limits DEF CallState
  <2>4. s \in CallState
    <3> DEFINE t == [r EXCEPT !.actor = "handing_off", !.armed = TRUE]
               u == [t EXCEPT !.epoch = next]
    <3> HIDE DEF next
    <3>1. t \in CallState
      BY <1>1 DEF CallState
    <3> HIDE DEF t
    <3>2. u \in CallState
      BY <2>3, <3>1 DEF CallState
    <3> HIDE DEF u
    <3>3. [u EXCEPT !.swap = step] \in CallState
      BY <3>2 DEF CallState
    <3>4. s = [u EXCEPT !.swap = step]
      BY <1>1 DEF t, u, CallState
    <3>5. QED
      BY <3>3, <3>4
  <2>5. Coherent(s) /\ Stays(r, s)
    <3> HIDE DEF next
    <3>1. QED
      BY <1>1, <2>2 DEF CallState, Coherent, PhasesExclude, ActorsOwn, OnAir, Stays
  <2> HIDE DEF s
  <2>6. QED
    BY <1>2, <2>1, <2>4, <2>5 DEF Keeps, s, next
<1>6. CASE SourcePlayed(c)
  <2> DEFINE s == [r EXCEPT !.swap = "connecting"]
  <2>1. Becomes(c, s) /\ r.swap = "playing"
    BY <1>6 DEF SourcePlayed
  <2> HIDE DEF r
  <2>2. s \in CallState
    BY <1>1 DEF CallState
  <2>3. Coherent(s) /\ Stays(r, s)
    BY <1>1, <1>3, <2>1 DEF CallState, Coherent, PhasesExclude, ActorsOwn, OnAir, Stays
  <2> HIDE DEF s
  <2>4. QED
    BY <1>2, <2>1, <2>2, <2>3 DEF Keeps
<1>7. CASE ReplacementConnected(c)
  <2> DEFINE s == [r EXCEPT !.swap = "readying", !.legs = r.legs \cup {r.epoch}]
             t == [r EXCEPT !.swap = "over"]
  <2>1. (Becomes(c, s) \/ Becomes(c, t)) /\ r.swap = "connecting"
    BY <1>7 DEF ReplacementConnected
  <2> HIDE DEF r
  <2>2. s \in CallState /\ t \in CallState
    <3>1. s \in CallState
      BY <1>1, EpochIsLeg, LegsTypes
    <3>2. t \in CallState
      BY <1>1 DEF CallState
    <3>3. QED
      BY <3>1, <3>2
  <2>3. Coherent(s) /\ Stays(r, s)
    BY <1>1, <1>3, <2>1 DEF CallState, Coherent, PhasesExclude, ActorsOwn, OnAir, Stays
  <2>4. Coherent(t) /\ Stays(r, t)
    BY <1>1, <1>3, <2>1 DEF CallState, Coherent, PhasesExclude, ActorsOwn, OnAir, Stays
  <2> HIDE DEF s, t
  <2>5. QED
    BY <1>2, <2>1, <2>2, <2>3, <2>4 DEF Keeps
\* The replacement is closed, and the hand-over is over.
<1>8. ASSUME Becomes(c, [FailExecution(r) EXCEPT !.swap = "over", !.legs = @ \ {r.epoch}]),
             r.swap # "none"
      PROVE  Goes(c)
  <2> DEFINE e == FailExecution(r)
             s == [e EXCEPT !.swap = "over", !.legs = e.legs \ {r.epoch}]
  <2>1. Becomes(c, s) /\ Keeps(r, e) /\ e.actor \notin OnAir /\ e.stream = "open"
    BY <1>3, <1>4, <1>8
  <2> HIDE DEF r, e
  <2>2. s \in CallState
    BY <2>1, EpochIsLeg, LegsTypes DEF Keeps
  <2>3. Coherent(s) /\ Stays(e, s)
    BY <2>1 DEF CallState, Keeps, Coherent, PhasesExclude, ActorsOwn, OnAir, Stays
  <2> HIDE DEF s
  <2>4. QED
    BY <1>2, <2>1, <2>2, <2>3, KeepsOn DEF Keeps
<1>9. CASE ReplacementFails(c)
  BY <1>8, <1>9 DEF ReplacementFails
<1>10. CASE ReplacementReady(c)
  <2>1. CASE r.actor = "handing_off"
    <3> DEFINE s == [r EXCEPT !.actor = "active", !.buffer = 0, !.sends = r.epoch,
                              !.armed = FALSE, !.swap = "none", !.legs = {r.epoch}]
    <3>1. Becomes(c, s)
      BY <1>10, <2>1 DEF ReplacementReady
    <3> HIDE DEF r
    <3>2. s \in CallState
      <4> DEFINE t == [r EXCEPT !.actor = "active", !.buffer = 0, !.armed = FALSE]
                 u == [t EXCEPT !.sends = r.epoch]
      <4>1. t \in CallState
        BY <1>1, Limits DEF CallState
      <4> HIDE DEF t
      <4>2. u \in CallState
        BY <1>1, <4>1, EpochIsLeg DEF CallState
      <4> HIDE DEF u
      <4>3. [u EXCEPT !.swap = "none", !.legs = {r.epoch}] \in CallState
        BY <1>1, <4>2, EpochIsLeg, LegsTypes
      <4>4. s = [u EXCEPT !.swap = "none", !.legs = {r.epoch}]
        BY <1>1 DEF t, u, CallState
      <4>5. QED
        BY <4>3, <4>4
    <3>3. Coherent(s) /\ Stays(r, s)
      BY <1>1, <2>1 DEF CallState, Coherent, PhasesExclude, ActorsOwn, OnAir, Stays
    <3> HIDE DEF s
    <3>4. QED
      BY <1>2, <3>1, <3>2, <3>3 DEF Keeps
  <2>2. CASE r.actor # "handing_off"
    BY <1>8, <1>10, <2>2 DEF ReplacementReady
  <2>3. QED
    BY <2>1, <2>2
<1>11. CASE CongestedFlush(c)
  <2> DEFINE e == [r EXCEPT !.sends = r.epoch]
             s == [Fail(e) EXCEPT !.armed = FALSE, !.swap = "congested"]
  <2>1. Becomes(c, s) /\ r.actor = "handing_off"
    BY <1>11 DEF CongestedFlush
  <2> HIDE DEF r
  <2>2. e \in CallState
    BY <1>1 DEF CallState
  <2>3. Coherent(e) /\ Stays(r, e) /\ e.stream = "open"
    BY <1>1, <2>1 DEF CallState, Coherent, PhasesExclude, ActorsOwn, OnAir, Stays
  <2> HIDE DEF e
  <2> DEFINE f == Fail(e)
  <2>4. Keeps(e, f) /\ f.actor \notin OnAir /\ f.stream = "open"
    BY <2>2, <2>3, FailCoherent DEF Keeps, Stays
  <2> HIDE DEF f
  <2>5. s \in CallState
    <3> DEFINE g == [f EXCEPT !.armed = FALSE]
    <3>1. f \in CallState
      BY <2>4 DEF Keeps
    <3>2. g \in CallState
      BY <3>1 DEF CallState
    <3>3. s = [g EXCEPT !.swap = "congested"]
      BY <3>1 DEF CallState, f
    <3> HIDE DEF g, s
    <3>4. [g EXCEPT !.swap = "congested"] \in CallState
      BY <3>2 DEF CallState
    <3>5. QED
      BY <3>3, <3>4
  <2>6. Coherent(s) /\ Stays(f, s)
    BY <2>4 DEF CallState, Keeps, Coherent, PhasesExclude, ActorsOwn, OnAir, Stays, f
  <2> HIDE DEF s
  <2>7. Keeps(r, e) /\ Keeps(f, s)
    BY <2>2, <2>3, <2>5, <2>6 DEF Keeps
  <2>8. QED
    BY <1>2, <2>1, <2>4, <2>7, KeepsOn
<1>12. CASE HandoffDeadline(c)
  <2>1. Becomes(c, FailExecution(r))
    BY <1>12 DEF HandoffDeadline
  <2> HIDE DEF r
  <2>2. QED
    BY <1>2, <1>4, <2>1
<1>13. CASE Drained(c)
  <2> DEFINE closed == [r EXCEPT !.actor = "stopped", !.caller = FALSE, !.legs = r.legs \ {r.sends}]
             e == IF r.held = "execution" THEN BeginTerminal(closed, "completed") ELSE closed
  <2>1. Becomes(c, Resume(e, "draining")) /\ r.actor = "draining"
    BY <1>13 DEF Drained
  <2> HIDE DEF r
  <2>2. closed \in CallState
    BY <1>1 DEF CallState
  <2>3. Coherent(closed) /\ Stays(r, closed) /\ closed.actor \notin OnAir
    BY <1>1, <2>1 DEF CallState, Coherent, PhasesExclude, ActorsOwn, OnAir, Stays
  <2>4. closed.held = r.held
    BY <2>3 DEF Stays
  <2> HIDE DEF closed
  <2>5. Keeps(r, closed) /\ Keeps(closed, e)
    BY <2>2, <2>3, <2>4, BeginTerminalCoherent DEF Keeps, Stays, StopOutcomes
  <2> HIDE DEF e
  <2>6. Keeps(e, Resume(e, "draining"))
    BY <2>5, ResumeCoherent DEF Keeps
  <2>7. QED
    BY <1>2, <2>1, <2>5, <2>6, KeepsOn
<1>14. QED
  BY <1>5, <1>6, <1>7, <1>9, <1>10, <1>11, <1>12, <1>13

\* The end of a call is tried again, or found to be recorded, or not.
LEMMA RetrySteps ==
  ASSUME PremiumAssumption, PremiumTypeOK, CallsCoherent, ShutdownProgress,
         NEW c \in PremiumCalls, RetryTimer(c) \/ FlushRetry(c)
  PROVE  Goes(c)
<1> DEFINE r == call[c]
<1>1. r \in CallState /\ Coherent(r)
  BY DEF PremiumTypeOK, CallsCoherent
<1>2. r.stage # "none"
  <2>1. CASE RetryTimer(c)
    BY <1>1, <2>1 DEF RetryTimer, Coherent, ActorsOwn
  <2>2. CASE FlushRetry(c)
    BY <2>2 DEF FlushRetry, ShutdownProgress
  <2>3. QED
    BY <2>1, <2>2
<1>3. Becomes(c, Persist(r))
  BY DEF RetryTimer, FlushRetry
<1> HIDE DEF r
<1>4. Keeps(r, Persist(r))
  BY <1>1, <1>2, PersistCoherent DEF Keeps
<1>5. QED
  BY <1>3, <1>4, KeepsAdvances DEF Goes, r

LEMMA WriteFailsSteps ==
  ASSUME PremiumAssumption, PremiumTypeOK, CallsCoherent, NEW c \in PremiumCalls, WriteFails(c)
  PROVE  Goes(c)
<1> DEFINE r == call[c]
           v == AfterFailure(r)
           e == [r EXCEPT !.write = v]
           s == IF Answered(e).start = "settling" THEN StartEnds(Answered(e), FALSE)
                ELSE Answered(e)
<1>1. r \in CallState /\ Coherent(r)
  BY DEF PremiumTypeOK, CallsCoherent
<1>2. Becomes(c, s) /\ r.write = "writing"
  BY DEF WriteFails
<1>3. v \in {"exhausted", "idle", "timer"}
  BY DEF AfterFailure
<1> HIDE DEF r, v
<1>4. e \in CallState
  BY <1>1, <1>3 DEF CallState
<1>5. Coherent(e) /\ Stays(r, e)
  BY <1>1, <1>2 DEF CallState, Coherent, PhasesExclude, ActorsOwn, OnAir, Stays
<1> HIDE DEF e
<1>6. Keeps(r, e) /\ Keeps(e, Answered(e))
  BY <1>4, <1>5, AnsweredCoherent DEF Keeps
<1>7. Keeps(r, Answered(e))
  BY <1>6, KeepsOn
<1>8. CASE Answered(e).start = "settling"
  <2>1. LET t == StartEnds(Answered(e), FALSE) IN
        /\ t \in CallState /\ Coherent(t) /\ t.start = "no" /\ t.held = Answered(e).held
        /\ t.buffer \in {0, Answered(e).buffer}
        /\ Answered(e).stage # "none" => t.stage # "none"
    BY <1>7, <1>8, StartEndsCoherent DEF Keeps
  <2>2. Advances(r, s)
    BY <1>7, <1>8, <2>1 DEF Keeps, Stays, Advances
  <2>3. QED
    BY <1>2, <2>2 DEF Goes, r
<1>9. CASE Answered(e).start # "settling"
  BY <1>2, <1>7, <1>9, KeepsAdvances DEF Goes, r
<1>10. QED
  BY <1>8, <1>9

LEMMA WriteSucceedsSteps ==
  ASSUME PremiumAssumption, PremiumTypeOK, CallsCoherent, NEW c \in PremiumCalls,
         WriteSucceeds(c)
  PROVE  Goes(c) /\ call'[c].held = "none"
<1> DEFINE r == call[c]
           d == ClearSwap(r)
           e == [d EXCEPT !.write = "idle", !.held = "none"]
           s == IF Answered(e).start = "settling" THEN StartEnds(Answered(e), TRUE)
                ELSE Answered(e)
<1>1. r \in CallState /\ Coherent(r)
  BY DEF PremiumTypeOK, CallsCoherent
<1>2. Becomes(c, s) /\ r.write = "writing"
  BY DEF WriteSucceeds
<1> HIDE DEF r
<1>3. Keeps(r, d) /\ d.stage # "none"
  BY <1>1, <1>2, ClearSwapCoherent DEF Keeps, Coherent, ActorsOwn
<1> HIDE DEF d
<1>4. e \in CallState
  BY ZenonT(40), <1>3 DEF CallState, Keeps
<1>5. /\ Coherent(e) /\ e.start = d.start /\ e.stage = d.stage /\ e.held = "none"
      /\ e.buffer = d.buffer
  BY <1>3 DEF CallState, Keeps, Coherent, PhasesExclude, ActorsOwn, OnAir
<1> HIDE DEF e
<1>6. Keeps(e, Answered(e))
  BY <1>4, <1>5, AnsweredCoherent
<1>7. /\ Answered(e).start = r.start /\ Answered(e).held = "none"
      /\ Answered(e).stage # "none" /\ Answered(e).buffer \in {0, r.buffer}
  BY <1>3, <1>5, <1>6 DEF Keeps, Stays
<1>8. Advances(r, s) /\ s.held = "none"
  <2>1. CASE Answered(e).start = "settling"
    <3>1. LET t == StartEnds(Answered(e), TRUE) IN
          /\ t \in CallState /\ Coherent(t) /\ t.start = "no" /\ t.held = Answered(e).held
          /\ t.buffer \in {0, Answered(e).buffer}
          /\ Answered(e).stage # "none" => t.stage # "none"
      BY <1>6, <2>1, StartEndsCoherent DEF Keeps
    <3>2. QED
      BY <1>7, <2>1, <3>1 DEF Advances
  <2>2. CASE Answered(e).start # "settling"
    BY <1>6, <1>7, <2>2 DEF Keeps, Advances
  <2>3. QED
    BY <2>1, <2>2
<1> HIDE DEF s
<1>9. Goes(c)
  BY <1>2, <1>8 DEF Goes, r
<1>10. call'[c] = s
  BY <1>2 DEF Becomes, PremiumTypeOK
<1>11. QED
  BY <1>8, <1>9, <1>10

-----------------------------------------------------------------------------
(* The calls of the worker *)

LEMMA Counted ==
  ASSUME PremiumAssumption
  PROVE  /\ IsFiniteSet(PremiumCalls) /\ IsFiniteSet(Starting) /\ IsFiniteSet(PendingStartups)
         /\ Cardinality(Starting) \in Nat /\ Cardinality(PendingStartups) \in Nat
         /\ IsFiniteSet(PendingStartups \cup Starting)
         /\ Cardinality(PendingStartups \cup Starting) \in Nat
<1>1. IsFiniteSet(PremiumCalls)
  BY DEF PremiumAssumption
<1>2. /\ Starting \subseteq PremiumCalls /\ PendingStartups \subseteq PremiumCalls
      /\ PendingStartups \cup Starting \subseteq PremiumCalls
  BY DEF Starting, PendingStartups
<1>3. /\ IsFiniteSet(Starting) /\ IsFiniteSet(PendingStartups)
      /\ IsFiniteSet(PendingStartups \cup Starting)
  BY <1>1, <1>2, FS_Subset
<1>4. QED
  BY <1>1, <1>3, FS_CardinalityType

\* What holds of every call goes on to hold, and the starts do not grow.
LEMMA AllAdvance ==
  ASSUME PremiumAssumption, PendingStartupsBounded,
         \A c \in PremiumCalls : Advances(call[c], call'[c])
  PROVE  CallsCoherent' /\ PendingStartupsBounded'
<1>1. CallsCoherent'
  BY DEF Advances, CallsCoherent
<1>2. (PendingStartups \cup Starting)' \subseteq PendingStartups \cup Starting
  BY DEF Advances, Starting, PendingStartups
<1>3. /\ Cardinality((PendingStartups \cup Starting)') \in Nat
      /\ Cardinality((PendingStartups \cup Starting)') <= Cardinality(PendingStartups \cup Starting)
  BY <1>2, Counted, FS_Subset, FS_CardinalityType
<1>4. PendingStartupsBounded'
  BY <1>3, Counted, Limits DEF PendingStartupsBounded
<1>5. QED
  BY <1>1, <1>4

\* The media the calls of the worker hold, as a sum.
Media == [c \in PremiumCalls |-> call[c].buffer]

LEMMA MediaIsSum ==
  ASSUME PremiumAssumption, call \in [PremiumCalls -> CallState]
  PROVE  /\ HeldMedia = SumFunctionOnSet(Media, PremiumCalls) /\ HeldMedia \in Int
         /\ IngressLimit \in Nat /\ IsFiniteSet(PremiumCalls)
         /\ \A c \in PremiumCalls : Media[c] = call[c].buffer /\ Media[c] \in Int
<1>1. HeldMedia = SumFunctionOnSet(Media, PremiumCalls)
  BY DEF HeldMedia, Media, SumFunction
<1>2. \A c \in PremiumCalls : Media[c] = call[c].buffer /\ Media[c] \in Int
  BY Limits DEF Media, CallState
<1>3. IngressLimit \in Nat /\ IsFiniteSet(PremiumCalls)
  BY DEF PremiumAssumption
<1>4. QED
  BY <1>1, <1>2, <1>3, SumIsInt

LEMMA NextMediaIsSum ==
  ASSUME PremiumAssumption, (call \in [PremiumCalls -> CallState])'
  PROVE  /\ HeldMedia' = SumFunctionOnSet(Media', PremiumCalls) /\ HeldMedia' \in Int
         /\ \A c \in PremiumCalls : Media'[c] = call'[c].buffer /\ Media'[c] \in Int
<1>1. HeldMedia' = SumFunctionOnSet(Media', PremiumCalls)
  BY DEF HeldMedia, Media, SumFunction
<1>2. \A c \in PremiumCalls : Media'[c] = call'[c].buffer /\ Media'[c] \in Int
  BY Limits DEF Media, CallState
<1>3. IsFiniteSet(PremiumCalls)
  BY DEF PremiumAssumption
<1>4. QED
  BY <1>1, <1>2, <1>3, SumIsInt

\* No call takes media: what is held does not grow.
LEMMA MediaShed ==
  ASSUME PremiumAssumption, PremiumTypeOK, MediaBounded, call' \in [PremiumCalls -> CallState],
         \A c \in PremiumCalls : call'[c].buffer \in {0, call[c].buffer}
  PROVE  MediaBounded'
<1>1. \A c \in PremiumCalls : call[c].buffer \in Nat
  BY Limits DEF PremiumTypeOK, CallState
<1>2. \A c \in PremiumCalls : Media[c] \in Int /\ Media'[c] \in Int /\ Media'[c] <= Media[c]
  BY <1>1, MediaIsSum, NextMediaIsSum DEF PremiumTypeOK
<1>3. SumFunctionOnSet(Media', PremiumCalls) <= SumFunctionOnSet(Media, PremiumCalls)
  BY <1>2, MediaIsSum, SumOfLess DEF PremiumTypeOK
<1>4. QED
  BY <1>3, MediaIsSum, NextMediaIsSum DEF PremiumTypeOK, MediaBounded

\* One call takes a unit, where there was room for it.
LEMMA MediaTaken ==
  ASSUME PremiumAssumption, PremiumTypeOK, HeldMedia < IngressLimit,
         call' \in [PremiumCalls -> CallState], NEW c \in PremiumCalls,
         call'[c].buffer = call[c].buffer + 1,
         \A x \in PremiumCalls \ {c} : call'[x] = call[x]
  PROVE  MediaBounded'
<1>1. /\ \A x \in PremiumCalls : Media[x] \in Int /\ Media'[x] \in Int
      /\ \A x \in PremiumCalls \ {c} : Media'[x] = Media[x]
      /\ Media'[c] = Media[c] + 1
  BY MediaIsSum, NextMediaIsSum DEF PremiumTypeOK
<1>2. SumFunctionOnSet(Media', PremiumCalls)
        = SumFunctionOnSet(Media, PremiumCalls) - Media[c] + Media'[c]
  BY <1>1, MediaIsSum, SumOfChange DEF PremiumTypeOK
<1>3. HeldMedia' = HeldMedia - Media[c] + Media'[c]
  BY <1>2, MediaIsSum, NextMediaIsSum DEF PremiumTypeOK
<1>4. HeldMedia \in Int /\ IngressLimit \in Nat
  BY MediaIsSum DEF PremiumTypeOK
<1>5. HeldMedia' = HeldMedia + 1
  BY <1>1, <1>3, <1>4
<1>6. QED
  BY <1>4, <1>5 DEF MediaBounded

\* A start is admitted or refused; the bound holds because a call that is in both
\* collections is counted in both.
LEMMA StartCallKeeps ==
  ASSUME PremiumAssumption, PremiumInv, NEW c \in PremiumCalls, StartCall(c)
  PROVE  PremiumInv'
<1> DEFINE r == call[c]
           refused == [r EXCEPT !.stream = "open", !.caller = FALSE]
           started == [r EXCEPT !.stream = "starting", !.start = "connecting"]
<1>1. r \in CallState /\ Coherent(r) /\ r.stream = "opening" /\ UNCHANGED <<shut, flush>>
  BY DEF PremiumInv, PremiumTypeOK, CallsCoherent, StartCall
<1>2. r.start = "no" /\ r.held = "none"
  BY <1>1 DEF Coherent, PhasesExclude
<1>3. \/ Admitted(c) /\ Becomes(c, started)
      \/ Becomes(c, refused)
  BY DEF StartCall
<1> HIDE DEF r
<1>4. refused \in CallState /\ started \in CallState
  BY ZenonT(40), <1>1 DEF CallState
<1>5. /\ Coherent(refused) /\ refused.start = "no" /\ refused.held = "none"
      /\ refused.stage = r.stage /\ refused.buffer = r.buffer
  BY <1>1, <1>2 DEF CallState, Coherent, PhasesExclude, ActorsOwn, OnAir
<1>6. /\ Coherent(started) /\ started.start = "connecting" /\ started.held = "none"
      /\ started.stage = r.stage /\ started.buffer = r.buffer
  BY <1>1, <1>2 DEF CallState, Coherent, PhasesExclude, ActorsOwn, OnAir
<1> HIDE DEF refused, started
<1>7. PICK s : Becomes(c, s) /\ (s = refused \/ (s = started /\ Admitted(c)))
  BY <1>3
<1>8. /\ call' \in [PremiumCalls -> CallState] /\ call'[c] = s
      /\ \A x \in PremiumCalls \ {c} : call'[x] = call[x]
  BY <1>4, <1>7 DEF Becomes, PremiumInv, PremiumTypeOK
<1>9. PremiumTypeOK' /\ CallsCoherent'
  <2>1. PremiumTypeOK'
    BY <1>1, <1>8 DEF PremiumInv, PremiumTypeOK
  <2>2. CallsCoherent'
    BY <1>5, <1>6, <1>7, <1>8 DEF PremiumInv, CallsCoherent
  <2>3. QED
    BY <2>1, <2>2
<1>10. ShutdownProgress'
  <2>1. s.held = "none" /\ s.stage = r.stage /\ (s.start # "no" => shut \in {"no", "bridge"})
    BY <1>5, <1>6, <1>7 DEF Admitted, ShuttingDown
  <2>2. QED
    BY <1>1, <1>8, <2>1 DEF PremiumInv, ShutdownProgress, r
<1>11. PendingStartupsBounded'
  <2>1. (PendingStartups \cup Starting)' \subseteq (PendingStartups \cup Starting) \cup {c}
    BY <1>8 DEF PendingStartups, Starting
  <2>2. CASE s = refused
    <3>1. (PendingStartups \cup Starting)' \subseteq PendingStartups \cup Starting
      BY <1>2, <1>5, <1>8, <2>2 DEF PendingStartups, Starting, r
    <3>2. /\ Cardinality((PendingStartups \cup Starting)') \in Nat
          /\ Cardinality((PendingStartups \cup Starting)')
               <= Cardinality(PendingStartups \cup Starting)
      BY <3>1, Counted, FS_Subset, FS_CardinalityType
    <3>3. QED
      BY <3>2, Counted, Limits DEF PremiumInv, PendingStartupsBounded
  <2>3. CASE Admitted(c)
    <3> DEFINE U == PendingStartups \cup Starting
               V == U \cup {c}
    <3>1. Cardinality(PendingStartups) + Cardinality(Starting) < StartupLimit
      BY <2>3 DEF Admitted
    <3>2. Cardinality(U) <= Cardinality(PendingStartups) + Cardinality(Starting)
      <4>1. /\ Cardinality(U) = Cardinality(PendingStartups) + Cardinality(Starting)
                                 - Cardinality(PendingStartups \cap Starting)
        BY Counted, FS_Union
      <4>2. Cardinality(PendingStartups \cap Starting) \in Nat
        BY Counted, FS_Subset, FS_CardinalityType
      <4>3. QED
        BY <4>1, <4>2, Counted
    <3>3. IsFiniteSet(V) /\ Cardinality(V) <= Cardinality(U) + 1 /\ Cardinality(V) \in Nat
      <4> HIDE DEF U
      <4>1. IsFiniteSet(U) /\ Cardinality(U) \in Nat
        BY Counted DEF U
      <4>2. Cardinality(V) = IF c \in U THEN Cardinality(U) ELSE Cardinality(U) + 1
        BY <4>1, FS_AddElement
      <4>3. QED
        BY <4>1, <4>2, FS_AddElement
    <3>4. Cardinality((PendingStartups \cup Starting)') <= Cardinality(V)
      BY <2>1, <3>3, FS_Subset
    <3>5. Cardinality((PendingStartups \cup Starting)') \in Nat
      BY <2>1, <3>3, FS_Subset, FS_CardinalityType
    <3> HIDE DEF U, V
    <3>6. QED
      BY <3>1, <3>2, <3>3, <3>4, <3>5, Counted, Limits DEF PendingStartupsBounded, U
  <2>4. QED
    BY <1>7, <2>2, <2>3
<1>12. MediaBounded'
  <2>1. \A x \in PremiumCalls : call'[x].buffer \in {0, call[x].buffer}
    BY <1>5, <1>6, <1>7, <1>8 DEF r
  <2>2. QED
    BY <1>8, <2>1, MediaShed DEF PremiumInv
<1>13. QED
  BY <1>9, <1>10, <1>11, <1>12 DEF PremiumInv

\* A call goes on, and the shutdown stays where it is.
LEMMA GoesKeeps ==
  ASSUME PremiumAssumption, PremiumInv, NEW c \in PremiumCalls, Goes(c)
  PROVE  /\ call' \in [PremiumCalls -> CallState] /\ CallsCoherent'
         /\ PendingStartupsBounded' /\ MediaBounded'
         /\ \A x \in PremiumCalls : Advances(call[x], call'[x])
<1>1. /\ call' \in [PremiumCalls -> CallState]
      /\ \A x \in PremiumCalls \ {c} : call'[x] = call[x]
      /\ Advances(call[c], call'[c])
  BY GoesOn DEF PremiumInv
<1>2. \A x \in PremiumCalls : Advances(call[x], call[x])
  BY DEF PremiumInv, PremiumTypeOK, CallsCoherent, Advances
<1>3. \A x \in PremiumCalls : Advances(call[x], call'[x])
  BY <1>1, <1>2
<1>4. MediaBounded'
  <2>1. CASE call'[c].buffer \in {0, call[c].buffer}
    <3>1. \A x \in PremiumCalls : call'[x].buffer \in {0, call[x].buffer}
      BY <1>1, <2>1
    <3>2. QED
      BY <1>1, <3>1, MediaShed DEF PremiumInv
  <2>2. CASE call'[c].buffer = call[c].buffer + 1 /\ HeldMedia < IngressLimit
    BY <1>1, <2>2, MediaTaken DEF PremiumInv
  <2>3. QED
    BY <1>1, <2>1, <2>2 DEF Advances
<1>5. QED
  BY <1>1, <1>3, <1>4, AllAdvance DEF PremiumInv

LEMMA QuietStepKeeps ==
  ASSUME PremiumAssumption, PremiumInv, NEW c \in PremiumCalls, Goes(c),
         UNCHANGED <<shut, flush>>
  PROVE  PremiumInv'
<1>1. /\ call' \in [PremiumCalls -> CallState] /\ CallsCoherent'
      /\ PendingStartupsBounded' /\ MediaBounded'
      /\ \A x \in PremiumCalls : Advances(call[x], call'[x])
  BY GoesKeeps
<1>2. ShutdownProgress'
  BY <1>1 DEF PremiumInv, ShutdownProgress, Advances
<1>3. QED
  BY <1>1, <1>2 DEF PremiumInv, PremiumTypeOK

LEMMA WriteKeeps ==
  ASSUME PremiumAssumption, PremiumInv, NEW c \in PremiumCalls,
         WriteSucceeds(c) \/ WriteFails(c)
  PROVE  PremiumInv'
<1>1. Goes(c)
  BY WriteSucceedsSteps, WriteFailsSteps DEF PremiumInv
<1>2. /\ call' \in [PremiumCalls -> CallState] /\ CallsCoherent'
      /\ PendingStartupsBounded' /\ MediaBounded'
      /\ \A x \in PremiumCalls : Advances(call[x], call'[x])
  BY <1>1, GoesKeeps
<1>3. CASE WriteSucceeds(c)
  <2>1. /\ call'[c].held = "none" /\ shut' = shut /\ flush' \subseteq flush
        /\ \A x \in PremiumCalls \ {c} : x \in flush => x \in flush'
    BY <1>3, WriteSucceedsSteps DEF WriteSucceeds, PremiumInv
  <2>2. ShutdownProgress'
    BY <1>2, <2>1 DEF PremiumInv, ShutdownProgress, Advances
  <2>3. QED
    BY <1>2, <2>1, <2>2 DEF PremiumInv, PremiumTypeOK
<1>4. CASE WriteFails(c)
  <2>1. \/ UNCHANGED <<shut, flush>>
        \/ shut' = "rejected" /\ flush' \subseteq flush /\ shut # "starting"
    BY <1>4 DEF WriteFails
  <2>2. ShutdownProgress'
    BY <1>2, <2>1 DEF PremiumInv, ShutdownProgress, Advances
  <2>3. QED
    BY <1>2, <2>1, <2>2 DEF PremiumInv, PremiumTypeOK
<1>5. QED
  BY <1>3, <1>4

\* The shutdown fails the calls that still can be failed, and persists their ends.
LEMMA ShutdownKeeps ==
  ASSUME PremiumAssumption, PremiumInv,
         BridgeShutdown \/ ExecutionShutdown \/ FlushExecutions \/ FlushStartups \/ ShutdownReturns
  PROVE  PremiumInv'
<1>1. \A c \in PremiumCalls : call[c] \in CallState /\ Coherent(call[c])
  BY DEF PremiumInv, PremiumTypeOK, CallsCoherent
<1>2. \A c \in PremiumCalls : Keeps(call[c], call[c]) /\ Keeps(call[c], Fail(call[c]))
  BY <1>1, FailCoherent DEF Keeps, Stays
<1>3. ASSUME call' = [c \in PremiumCalls |-> call'[c]],
             \A c \in PremiumCalls : Keeps(call[c], call'[c])
      PROVE  /\ call' \in [PremiumCalls -> CallState] /\ CallsCoherent'
             /\ PendingStartupsBounded' /\ MediaBounded'
  <2>1. call' \in [PremiumCalls -> CallState]
    BY <1>3 DEF Keeps
  <2>2. \A c \in PremiumCalls : Advances(call[c], call'[c])
    BY <1>3, KeepsAdvances
  <2>3. MediaBounded'
    BY <1>3, <2>1, MediaShed DEF PremiumInv, Keeps, Stays
  <2>4. QED
    BY <2>1, <2>2, <2>3, AllAdvance DEF PremiumInv
<1>4. CASE BridgeShutdown \/ ShutdownReturns
  <2>1. call' = call /\ flush' = flush
    BY <1>4 DEF BridgeShutdown, ShutdownReturns
  <2>2. PremiumTypeOK' /\ CallsCoherent' /\ PendingStartupsBounded' /\ MediaBounded'
    <3>1. PremiumTypeOK'
      BY <1>4, <2>1 DEF PremiumInv, PremiumTypeOK, BridgeShutdown, ShutdownReturns
    <3>2. CallsCoherent' /\ PendingStartupsBounded' /\ MediaBounded'
      BY <2>1 DEF PremiumInv, CallsCoherent, PendingStartupsBounded, PendingStartups, Starting,
                  MediaBounded, HeldMedia
    <3>3. QED
      BY <3>1, <3>2
  <2>3. ShutdownProgress'
    <3>1. CASE BridgeShutdown
      BY <2>1, <3>1 DEF BridgeShutdown, PremiumInv, ShutdownProgress
    <3>2. CASE ShutdownReturns
      <4>1. \A c \in PremiumCalls : call[c].held \in {"none", "startup", "execution"}
        BY <1>1 DEF CallState
      <4>2. QED
        BY <2>1, <3>2, <4>1 DEF ShutdownReturns, PremiumInv, ShutdownProgress
    <3>3. QED
      BY <1>4, <3>1, <3>2
  <2>4. QED
    BY <2>2, <2>3 DEF PremiumInv
<1>5. CASE ExecutionShutdown
  <2>1. /\ shut' = "starting" /\ flush' = Executions
        /\ call' = [c \in PremiumCalls |->
             IF call[c].start # "no" THEN [call[c] EXCEPT !.cancel = "failed"]
             ELSE IF c \in Executions /\ call[c].stage = "none" THEN Fail(call[c]) ELSE call[c]]
    BY <1>5 DEF ExecutionShutdown
  <2>2. \A c \in PremiumCalls : Keeps(call[c], [call[c] EXCEPT !.cancel = "failed"])
    BY <1>1, SocketCoherent DEF StopOutcomes
  <2>3. \A c \in PremiumCalls : Keeps(call[c], call'[c])
    BY <1>2, <2>1, <2>2
  <2>4. call' = [c \in PremiumCalls |-> call'[c]]
    BY <2>1
  <2>5. /\ call' \in [PremiumCalls -> CallState] /\ CallsCoherent'
        /\ PendingStartupsBounded' /\ MediaBounded'
    BY <1>3, <2>3, <2>4
  <2>6. PremiumTypeOK'
    BY <2>1, <2>5 DEF PremiumTypeOK, Executions
  <2>7. ShutdownProgress'
    BY <2>1 DEF ShutdownProgress
  <2>8. QED
    BY <2>5, <2>6, <2>7 DEF PremiumInv
<1>6. CASE FlushExecutions
  <2> DEFINE listed == flush \cup Executions
             Failed(c) == IF c \in listed /\ call[c].stage = "none" THEN Fail(call[c]) ELSE call[c]
             failed == [c \in PremiumCalls |-> Failed(c)]
             flushed == {c \in listed : failed[c].stage # "none" /\ failed[c].write # "exhausted"}
  <2>1. /\ shut = "starting" /\ Starting = {} /\ flush' = flushed
        /\ call' = [c \in PremiumCalls |-> IF c \in flushed THEN Persist(failed[c]) ELSE failed[c]]
        /\ shut' = IF flushed = listed THEN "executions" ELSE "rejected"
    BY <1>6 DEF FlushExecutions
  <2>2. listed \subseteq PremiumCalls /\ flushed \subseteq listed
    BY DEF PremiumInv, PremiumTypeOK, Executions
  <2>3. \A c \in PremiumCalls : failed[c] = Failed(c) /\ Keeps(call[c], Failed(c))
    BY <1>2
  <2>4. \A c \in flushed : failed[c].stage # "none"
    OBVIOUS
  <2> HIDE DEF flushed, failed, Failed
  <2>5. ASSUME NEW c \in PremiumCalls
        PROVE  Keeps(call[c], call'[c]) /\ (c \in flushed => call'[c].stage # "none")
    <3>1. CASE c \in flushed
      <4>1. Keeps(call[c], failed[c]) /\ call'[c] = Persist(failed[c]) /\ failed[c].stage # "none"
        BY <2>1, <2>3, <2>4, <3>1
      <4>2. Keeps(failed[c], Persist(failed[c]))
        BY <4>1, PersistCoherent DEF Keeps
      <4>3. QED
        BY <4>1, <4>2, KeepsOn DEF Keeps, Stays
    <3>2. CASE c \notin flushed
      BY <2>1, <2>3, <3>2
    <3>3. QED
      BY <3>1, <3>2
  <2>6. call' = [c \in PremiumCalls |-> call'[c]]
    BY <2>1
  <2>7. /\ call' \in [PremiumCalls -> CallState] /\ CallsCoherent'
        /\ PendingStartupsBounded' /\ MediaBounded'
    BY <1>3, <2>5, <2>6
  <2>8. PremiumTypeOK'
    BY <2>1, <2>2, <2>7 DEF PremiumTypeOK
  <2>9. ShutdownProgress'
    <3>1. \A c \in PremiumCalls : call'[c].start = "no" /\ call'[c].held = call[c].held
      BY <2>1, <2>5 DEF Keeps, Stays, Starting
    <3>2. shut' = "executions" => \A c \in PremiumCalls : call[c].held = "execution" => c \in flush'
      BY <2>1 DEF Executions
    <3>3. shut' \in {"executions", "rejected"}
      BY <2>1
    <3>4. \A c \in PremiumCalls : c \in flush' => call'[c].stage # "none"
      BY <2>1, <2>5
    <3>5. QED
      BY <3>1, <3>2, <3>3, <3>4 DEF ShutdownProgress
  <2>10. QED
    BY <2>7, <2>8, <2>9 DEF PremiumInv
<1>7. CASE FlushStartups
  <2> DEFINE flushed == {c \in PendingStartups : call[c].write # "exhausted"}
  <2>1. /\ shut = "executions" /\ flush = {} /\ flush' = flushed
        /\ call' = [c \in PremiumCalls |-> IF c \in flushed THEN Persist(call[c]) ELSE call[c]]
        /\ shut' = IF flushed = PendingStartups THEN "startups" ELSE "rejected"
    BY <1>7 DEF FlushStartups
  <2>2. \A c \in flushed : c \in PremiumCalls /\ call[c].held = "startup" /\ call[c].stage # "none"
    BY <1>1 DEF PendingStartups, Coherent, PhasesExclude
  <2> HIDE DEF flushed
  <2>3. ASSUME NEW c \in PremiumCalls
        PROVE  Keeps(call[c], call'[c]) /\ (c \in flushed => call'[c].stage # "none")
    <3>1. CASE c \in flushed
      <4>1. call'[c] = Persist(call[c]) /\ call[c].stage # "none"
        BY <2>1, <2>2, <3>1
      <4>2. Keeps(call[c], Persist(call[c]))
        BY <1>1, <4>1, PersistCoherent DEF Keeps
      <4>3. QED
        BY <4>1, <4>2 DEF Keeps, Stays
    <3>2. CASE c \notin flushed
      BY <1>2, <2>1, <3>2
    <3>3. QED
      BY <3>1, <3>2
  <2>4. call' = [c \in PremiumCalls |-> call'[c]]
    BY <2>1
  <2>5. /\ call' \in [PremiumCalls -> CallState] /\ CallsCoherent'
        /\ PendingStartupsBounded' /\ MediaBounded'
    BY <1>3, <2>3, <2>4
  <2>6. PremiumTypeOK'
    BY <2>1, <2>2, <2>5 DEF PremiumTypeOK
  <2>7. ShutdownProgress'
    <3>1. \A c \in PremiumCalls :
            /\ call[c].start = "no" /\ call[c].held # "execution"
            /\ call'[c].start = "no" /\ call'[c].held = call[c].held
      BY <2>1, <2>3 DEF PremiumInv, ShutdownProgress, Keeps, Stays
    <3>2. shut' = "startups" => \A c \in PremiumCalls : call[c].held = "startup" => c \in flush'
      BY <2>1 DEF PendingStartups
    <3>3. shut' \in {"startups", "rejected"}
      BY <2>1
    <3>4. \A c \in PremiumCalls : c \in flush' => call'[c].stage # "none"
      BY <2>1, <2>3
    <3>5. QED
      BY <3>1, <3>2, <3>3, <3>4 DEF ShutdownProgress
  <2>8. QED
    BY <2>5, <2>6, <2>7 DEF PremiumInv
<1>8. QED
  BY <1>4, <1>5, <1>6, <1>7

-----------------------------------------------------------------------------
(* The theorems *)

LEMMA PremiumInitInv ==
  ASSUME PremiumAssumption, PremiumInit
  PROVE  PremiumInv
<1>1. NewCall \in CallState
  BY Limits DEF NewCall, CallState, StopOutcomes
<1>2. Coherent(NewCall)
  BY DEF NewCall, Coherent, PhasesExclude, ActorsOwn, OnAir
<1>3. NewCall.start = "no" /\ NewCall.held = "none"
  BY DEF NewCall
<1>4. \A c \in PremiumCalls : call[c] = NewCall
  BY DEF PremiumInit
<1>5. PremiumTypeOK
  BY <1>1 DEF PremiumInit, PremiumTypeOK
<1>6. CallsCoherent /\ ShutdownProgress
  BY <1>2, <1>3, <1>4 DEF CallsCoherent, ShutdownProgress, PremiumInit
<1>7. PendingStartupsBounded
  <2>1. PendingStartups \cup Starting = {}
    BY <1>3, <1>4 DEF PendingStartups, Starting
  <2>2. QED
    BY <2>1, Limits, FS_EmptySet DEF PendingStartupsBounded
<1>8. MediaBounded
  <2>1. \A c \in PremiumCalls : call[c].buffer = 0
    BY <1>4 DEF NewCall
  <2>2. call \in [PremiumCalls -> CallState]
    BY <1>5 DEF PremiumTypeOK
  <2>3. \A c \in PremiumCalls : Media[c] = 0
    BY <2>1, <2>2, MediaIsSum
  <2>4. HeldMedia <= 0
    BY <2>2, <2>3, MediaIsSum, SumOfZeros
  <2>5. QED
    BY <2>2, <2>4, MediaIsSum DEF MediaBounded
<1>9. QED
  BY <1>5, <1>6, <1>7, <1>8 DEF PremiumInv

LEMMA PremiumNextInv ==
  ASSUME PremiumAssumption, PremiumInv, [PremiumNext]_premiumVars
  PROVE  PremiumInv'
<1>1. CASE PremiumNext
  <2>1. ASSUME NEW c \in PremiumCalls, Goes(c), UNCHANGED <<shut, flush>>
        PROVE  PremiumInv'
    BY <2>1, QuietStepKeeps
  <2>2. ASSUME NEW c \in PremiumCalls,
               StreamOpens(c) \/ OwnershipLost(c) \/ StopMessage(c) \/ CallerCloses(c)
                 \/ Terminalize(c) \/ InboundFrame(c)
        PROVE  PremiumInv'
    <3>1. UNCHANGED <<shut, flush>>
      BY <2>2 DEF StreamOpens, OwnershipLost, StopMessage, CallerCloses, Terminalize, InboundFrame
    <3>2. QED
      BY <2>1, <2>2, <3>1, BridgeSteps DEF PremiumInv
  <2>3. ASSUME NEW c \in PremiumCalls,
               Connected(c) \/ StartFails(c) \/ Ready(c) \/ ProviderFails(c) \/ SpeakToNobody(c)
                 \/ PolicyStops(c)
        PROVE  PremiumInv'
    <3>1. UNCHANGED <<shut, flush>>
      BY <2>3 DEF Connected, StartFails, Ready, ProviderFails, SpeakToNobody, PolicyStops
    <3>2. QED
      BY <2>1, <2>3, <3>1, ExecutionSteps DEF PremiumInv
  <2>4. ASSUME NEW c \in PremiumCalls,
               BeginHandoff(c) \/ SourcePlayed(c) \/ ReplacementConnected(c)
                 \/ ReplacementFails(c) \/ ReplacementReady(c) \/ CongestedFlush(c)
                 \/ HandoffDeadline(c) \/ Drained(c)
        PROVE  PremiumInv'
    <3>1. UNCHANGED <<shut, flush>>
      BY <2>4 DEF BeginHandoff, SourcePlayed, ReplacementConnected, ReplacementFails,
                  ReplacementReady, CongestedFlush, HandoffDeadline, Drained
    <3>2. QED
      BY <2>1, <2>4, <3>1, HandoffSteps DEF PremiumInv
  <2>5. ASSUME NEW c \in PremiumCalls, RetryTimer(c) \/ FlushRetry(c)
        PROVE  PremiumInv'
    <3>1. UNCHANGED <<shut, flush>>
      BY <2>5 DEF RetryTimer, FlushRetry
    <3>2. QED
      BY <2>1, <2>5, <3>1, RetrySteps DEF PremiumInv
  <2>6. QED
    BY <1>1, <2>2, <2>3, <2>4, <2>5, StartCallKeeps, WriteKeeps, ShutdownKeeps DEF PremiumNext
<1>2. CASE UNCHANGED premiumVars
  BY <1>2 DEF premiumVars, PremiumInv, PremiumTypeOK, CallsCoherent, ShutdownProgress,
              PendingStartupsBounded, PendingStartups, Starting, MediaBounded, HeldMedia
<1>3. QED
  BY <1>1, <1>2

\* The calls of a worker stay coherent and its shutdown makes progress.
THEOREM PremiumInvariant == PremiumSpec => []PremiumInv
<1>1. PremiumInit => PremiumInv
  BY PremiumAssumption, PremiumInitInv
<1>2. PremiumInv /\ [PremiumNext]_premiumVars => PremiumInv'
  BY PremiumAssumption, PremiumNextInv
<1>3. QED
  BY <1>1, <1>2, PTL DEF PremiumSpec

\* Every variable keeps its type, for any limits.
THEOREM PremiumTypeCorrect == PremiumSpec => []PremiumTypeOK
<1>1. PremiumInv => PremiumTypeOK
  BY DEF PremiumInv
<1>2. QED
  BY <1>1, PremiumInvariant, PTL

\* An active call has one provider connection, the one its actor sends to, however
\* hand-overs, stops, failures and late replacements cross.
THEOREM OneLegWhileActive == PremiumSpec => []ActiveOwnsOneLeg
<1>1. PremiumInv => ActiveOwnsOneLeg
  BY DEF PremiumInv, CallsCoherent, Coherent, ActorsOwn, OnAir, ActiveOwnsOneLeg
<1>2. QED
  BY <1>1, PremiumInvariant, PTL

\* The starts and the failed starts of a worker stay within their limit together.
THEOREM StartupsStayBounded == PremiumSpec => []PendingStartupsBounded
<1>1. PremiumInv => PendingStartupsBounded
  BY DEF PremiumInv
<1>2. QED
  BY <1>1, PremiumInvariant, PTL

\* A shutdown that returns has left no call of the worker without its recorded end.
THEOREM ShutdownSettles == PremiumSpec => []ShutdownMeansSettled
<1>1. PremiumInv => ShutdownMeansSettled
  BY DEF PremiumInv, ShutdownProgress, ShutdownMeansSettled
<1>2. QED
  BY <1>1, PremiumInvariant, PTL

\* Media is held only while its call waits for a provider, and never more of it in the
\* worker than the shared admission allows, whatever the number of its calls.
THEOREM HeldMediaWaits == PremiumSpec => []MediaHeldWhileWaiting
<1>1. PremiumInv => MediaHeldWhileWaiting
  BY DEF PremiumInv, CallsCoherent, Coherent, ActorsOwn, MediaBounded, MediaHeldWhileWaiting
<1>2. QED
  BY <1>1, PremiumInvariant, PTL
=============================================================================
