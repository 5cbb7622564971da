--------------------------- MODULE MediaWorkerProofs ---------------------------
(***************************************************************************)
(* What the lifecycle of a call and the drain of a worker guarantee, for   *)
(* every number of status callbacks handled at once, every set of calls,   *)
(* every life of a heartbeat, every length of the window and every bound   *)
(* on attempts, requests and failures; and that the parts of a worker may  *)
(* be checked in one run (Parts).                                          *)
(*                                                                         *)
(* The lifecycle: a writer that has not fallen behind still knows the row  *)
(* as it is, and one that submits a settlement submits the end that the    *)
(* row has (Sound).  A step that writes the row leaves every other writer  *)
(* behind, and is taken only while the call has not ended, so that nobody  *)
(* submits at that time (SoundAfter).  The lemmas follow the three ways in *)
(* which a writer goes on: it is begun, it answers, it goes to submit.     *)
(*                                                                         *)
(* The heartbeat: once the drain has let the refresh that was in flight    *)
(* pass, what is published says that the worker drains (DrainIsPublished); *)
(* a "ready" that the worker knows of runs out no later than the worker    *)
(* believes (KnownHeartbeat), and the sleep lasts as long.  The window: a  *)
(* call that was counted before has been connected for what has passed of  *)
(* it (WindowRuns).                                                        *)
(***************************************************************************)
EXTENDS MCMediaWorker, PremiumCallProofs, PremiumPlaybackProofs

-----------------------------------------------------------------------------
(* The lifecycle of a call *)

SessionRecord ==
  [path : {"premium", "sandwich"}, stage : Stages, status : Statuses,
   sequence : Sequences \cup {None}, connected : Times \cup {None}, at : Times \cup {None}]
WriterRecord ==
  [pc : {"idle", "load", "write", "recheck", "submit", "enqueue"}, req : Requests,
   tries : 0..WriteAttempts, behind : 0..2, connected : Times \cup {None}, outcome : Outcomes]

MediaStates ==
  {"none", "claimed", "denied", "media-connected", "provider-ready", "active", "handoff",
   "draining", "ending", "waiting", "recorded", "given-up", "abandoned", "refused", "lost"}
TokenStates == {"unclaimed", "expired", "owned", "lapsed", "deleted"}

\* An outcome that is the one of a call that ended as the row has it.
Agrees(outcome, row) == outcome = "failed" <=> row.stage # "completed"

\* What a writer that stands as r knows of the row: who asks for the end of a call asks
\* for a final status; who is about to write has attempts left and no failure in mind, and
\* unless the row has moved on the call has not ended and is connected as loaded; who
\* submits, submits the end of the row.
Sound(r, row) ==
  /\ Terminal(r.req.stage) => r.req.status \in FinalStatuses
  /\ r.pc \in {"load", "write"} => r.tries < WriteAttempts /\ r.outcome # "failed"
  /\ r.pc = "write" /\ r.behind = 0 => ~Terminal(row.stage) /\ r.connected = row.connected
  /\ r.pc \in {"submit", "enqueue"} =>
       /\ Terminal(row.stage)
       /\ r.connected = row.connected /\ r.req.at = row.at /\ Agrees(r.outcome, row)

WritersSound == \A w \in Writers : Sound(writer[w], session)

\* A call that has ended has the time and the status of its end.
EndRecorded ==
  Terminal(session.stage) => session.at # None /\ session.status \in FinalStatuses

\* The end of a stream is tried until it is given up.
EndTriesLeft == media \notin {"given-up", "lost"} => ended < EndAttempts

\* What was submitted is the end of the call as the row has it, and so is the outcome
\* that the reservation was settled with.
SettledAsEnded ==
  /\ \A facts \in settled :
       /\ Terminal(session.stage)
       /\ facts.connected = session.connected /\ facts.at = session.at
       /\ Agrees(facts.outcome, session)
  /\ pinned # "none" => Terminal(session.stage) /\ Agrees(pinned, session)

BillingInv ==
  /\ settled \subseteq Facts /\ stored \subseteq settled
  /\ pinned \in Outcomes \cup {"none"}
  /\ SettledAsEnded

WriterInv == LifecycleTypeOK /\ WritersSound /\ EndRecorded
LifecycleInv == WriterInv /\ EndTriesLeft /\ SettledAsEnded /\ ReleasedWhenEnded

\* What a step does to the row: nothing, or a write that leaves the others behind and
\* finds the call not ended.
RowStep(wrote) ==
  /\ session' \in SessionRecord
  /\ session' = session \/ (wrote /\ ~Terminal(session.stage))
  /\ EndRecorded'

-----------------------------------------------------------------------------
(* How a writer goes on *)

\* Times and attempts are numbers, and the writers' names are distinct.
LEMMA TimesAreNumbers ==
  ASSUME LifecycleAssumption
  PROVE  /\ Times \subseteq Nat \ {0} /\ MaxRequests \in Nat /\ MaxFailures \in Nat
         /\ WriteAttempts \in Nat \ {0} /\ EndAttempts \in Nat \ {0}
         /\ RetryTime \in Times /\ ReconcileTime \in Times
         /\ \A n \in 0..MaxRequests : n < MaxRequests => n + 1 \in Times
BY DEF LifecycleAssumption, Times, ReconcileTime, RetryTime

\* A writer's record changed in its fields is a writer's record.
LEMMA LoadedRecord ==
  ASSUME NEW r \in WriterRecord, NEW n \in 0..2, NEW c \in Times \cup {None},
         NEW o \in Outcomes
  PROVE  [r EXCEPT !.pc = "write", !.behind = n, !.connected = c, !.outcome = o]
           \in WriterRecord
<1> DEFINE s == [r EXCEPT !.pc = "write"]
<1> DEFINE t == [s EXCEPT !.behind = n]
<1>1. s \in WriterRecord
  BY DEF WriterRecord
<1> HIDE DEF s
<1>2. t \in WriterRecord
  BY <1>1 DEF WriterRecord
<1> HIDE DEF t
<1> DEFINE u == [t EXCEPT !.connected = c]
<1>3. u \in WriterRecord
  BY <1>2 DEF WriterRecord
<1> HIDE DEF u
<1>4. [u EXCEPT !.outcome = o] \in WriterRecord
  BY <1>3 DEF WriterRecord
<1>5. QED
  BY <1>4 DEF u, t, s

LEMMA RetriedRecord ==
  ASSUME NEW r \in WriterRecord, NEW req \in Requests, NEW n \in 0..WriteAttempts,
         NEW pc \in {"load", "recheck"}
  PROVE  [r EXCEPT !.req = req, !.tries = n, !.pc = pc] \in WriterRecord
<1> DEFINE s == [r EXCEPT !.req = req]
<1> DEFINE t == [s EXCEPT !.tries = n]
<1>1. s \in WriterRecord
  BY DEF WriterRecord
<1> HIDE DEF s
<1>2. t \in WriterRecord
  BY <1>1 DEF WriterRecord
<1> HIDE DEF t
<1>3. [t EXCEPT !.pc = pc] \in WriterRecord
  BY <1>2 DEF WriterRecord
<1>4. QED
  BY <1>3 DEF t, s

\* An idle writer knows nothing that could be wrong.
LEMMA IdleIsSound ==
  ASSUME LifecycleAssumption
  PROVE  IdleWriter \in WriterRecord /\ \A row : Sound(IdleWriter, row)
<1>1. 1 \in Times
  BY DEF LifecycleAssumption, Times, ReconcileTime
<1>2. QED
  BY <1>1, TimesAreNumbers
  DEF IdleWriter, WriterRecord, Request, Requests, Sound, Stages, TerminalStages, Terminal,
      Sequences, None, Outcomes

\* If the writer that moves is sound about the new row, all are: the others have fallen
\* behind a row that was written, or see the row they saw.
LEMMA SoundAfter ==
  ASSUME WriterInv, NEW w, NEW r \in WriterRecord, NEW wrote \in BOOLEAN,
         Continue(w, r, wrote), RowStep(wrote), Sound(r, session')
  PROVE  writer' \in [Writers -> WriterRecord] /\ WritersSound'
<1>1. ASSUME NEW v \in Writers
      PROVE  writer'[v] \in WriterRecord /\ Sound(writer'[v], session')
  <2>1. Sound(writer[v], session)
    BY DEF WriterInv, WritersSound
  <2>2. writer[v] \in WriterRecord
    BY DEF WriterInv, LifecycleTypeOK, WriterRecord
  <2>3. writer'[v] = IF v = w THEN r
                     ELSE IF wrote /\ writer[v].pc = "write" /\ writer[v].behind < 2
                     THEN [writer[v] EXCEPT !.behind = @ + 1] ELSE writer[v]
    BY DEF Continue
  <2>4. writer'[v] \in WriterRecord
    BY <2>2, <2>3 DEF WriterRecord
  <2>5. CASE v = w
    BY <2>3, <2>4, <2>5
  <2>6. CASE v # w /\ session' = session
    BY <2>1, <2>2, <2>3, <2>4, <2>6 DEF Sound, WriterRecord
  <2>7. CASE v # w /\ wrote /\ ~Terminal(session.stage)
    BY <2>1, <2>2, <2>3, <2>4, <2>7 DEF Sound, WriterRecord
  <2>8. QED
    BY <2>5, <2>6, <2>7 DEF RowStep
<1>2. writer' = [v \in Writers |-> writer'[v]]
  BY DEF Continue
<1>3. QED
  BY <1>1, <1>2 DEF WritersSound

\* A writer that answers becomes idle; the stream's answer is never the last vain end
\* without giving up, and the admission is given back for an end or a refused stream.
LEMMA AnswerKeeps ==
  ASSUME LifecycleAssumption, LifecycleInv, NEW w, NEW answer,
         NEW wrote \in BOOLEAN, NEW releases \in BOOLEAN,
         Answer(w, answer, wrote, releases), RowStep(wrote),
         releases => Terminal(session.stage)
  PROVE  /\ writer' \in [Writers -> WriterRecord] /\ WritersSound'
         /\ media' \in MediaStates
         /\ ended' \in 0..EndAttempts /\ EndTriesLeft'
         /\ released' \subseteq {"ended", "refused"} /\ ReleasedWhenEnded'
<1>1. writer' \in [Writers -> WriterRecord] /\ WritersSound'
  BY IdleIsSound, SoundAfter DEF Answer, LifecycleInv
<1>2. /\ ended \in 0..EndAttempts /\ EndAttempts \in Nat \ {0}
      /\ media \notin {"given-up", "lost"} => ended < EndAttempts
      /\ released \subseteq {"ended", "refused"}
  BY TimesAreNumbers DEF LifecycleInv, WriterInv, LifecycleTypeOK, EndTriesLeft
<1>3. \/ UNCHANGED <<media, ended>>
      \/ media' \in {"abandoned", "waiting", "refused", "recorded"} /\ UNCHANGED ended
         /\ media \in {"denied", "media-connected", "active", "draining", "ending"}
      \/ /\ media = "ending" /\ ended' \in {ended, ended + 1}
         /\ media' = IF ended' = EndAttempts THEN "given-up" ELSE "waiting"
  <2>1. StreamAnswered(w, answer)
    BY DEF Answer
  <2>2. Closed \in {"abandoned", "waiting"}
    BY DEF Closed
  <2>3. AfterConnect(answer) \in {media, Closed, "refused", "waiting"}
    BY DEF AfterConnect
  <2>4. QED
    BY <2>1, <2>2, <2>3 DEF StreamAnswered
<1>4. ended' \in 0..EndAttempts /\ EndTriesLeft'
  BY <1>2, <1>3 DEF EndTriesLeft
<1>5. media' \in MediaStates
  BY <1>3 DEF LifecycleInv, WriterInv, LifecycleTypeOK, MediaStates
<1>6. Terminal(session.stage) => Terminal(session'.stage)
  BY DEF RowStep
<1>7. /\ released' \subseteq {"ended", "refused"}
      /\ "ended" \in released' => "ended" \in released \/ releases
  BY <1>2 DEF Answer
<1>8. ReleasedWhenEnded'
  BY <1>6, <1>7 DEF LifecycleInv, ReleasedWhenEnded
<1>9. QED
  BY <1>1, <1>4, <1>5, <1>7, <1>8

\* A writer that goes to submit takes the end of the row that is there after its step.
LEMMA SubmitKeeps ==
  ASSUME LifecycleAssumption, LifecycleInv, NEW w \in Writers, NEW row,
         NEW wrote \in BOOLEAN, GoSubmit(w, row, wrote), RowStep(wrote),
         row = session', Terminal(row.stage), writer[w].pc \in {"load", "write"}
  PROVE  writer' \in [Writers -> WriterRecord] /\ WritersSound'
<1> DEFINE o == IF row.stage = "completed" THEN writer[w].outcome ELSE "failed"
           r == [IdleWriter EXCEPT !.pc = "submit", !.connected = row.connected,
                                   !.req = [writer[w].req EXCEPT !.at = row.at],
                                   !.outcome = o]
<1>1. writer[w] \in WriterRecord /\ Sound(writer[w], session)
  BY DEF LifecycleInv, WriterInv, WritersSound, LifecycleTypeOK, WriterRecord
<1>2. row.at \in Times /\ row.connected \in Times \cup {None}
  BY DEF RowStep, SessionRecord, EndRecorded
<1>3. IdleWriter \in WriterRecord
  BY IdleIsSound
<1>4. o \in Outcomes /\ Agrees(o, row)
  BY <1>1 DEF Sound, Agrees, WriterRecord, Outcomes
<1>5. Continue(w, r, wrote)
  BY DEF GoSubmit
<1> HIDE DEF o
<1>6. r \in WriterRecord
  BY <1>1, <1>2, <1>3, <1>4 DEF WriterRecord, Requests
<1>7. Sound(r, session')
  BY <1>1, <1>2, <1>3, <1>4 DEF Sound, WriterRecord, Requests
<1> HIDE DEF r
<1>8. QED
  BY <1>6, <1>7, <1>5, SoundAfter DEF LifecycleInv

\* A writer that begins asks for a final status with the end of a call.
LEMMA LoadKeeps ==
  ASSUME LifecycleAssumption, LifecycleInv, NEW w, NEW stage \in Stages,
         NEW status \in Statuses \cup {"keep"}, NEW sequence \in Sequences \cup {None},
         NEW owned \in BOOLEAN, NEW at \in Times, Terminal(stage) => status \in FinalStatuses,
         NEW wrote \in BOOLEAN, RowStep(wrote),
         Continue(w, [IdleWriter EXCEPT !.pc = "load",
                        !.req = Request(stage, status, sequence, owned, at)], wrote)
  PROVE  writer' \in [Writers -> WriterRecord] /\ WritersSound'
<1> DEFINE r == [IdleWriter EXCEPT !.pc = "load",
                   !.req = Request(stage, status, sequence, owned, at)]
<1>1. Request(stage, status, sequence, owned, at) \in Requests
  BY DEF Request, Requests
<1>2. r \in WriterRecord
  BY <1>1, IdleIsSound DEF WriterRecord
<1>3. Sound(r, session')
  BY <1>2, TimesAreNumbers DEF Sound, WriterRecord, Request, IdleWriter
<1>4. Continue(w, r, wrote)
  OBVIOUS
<1> HIDE DEF r
<1>5. QED
  BY <1>2, <1>3, <1>4, SoundAfter DEF LifecycleInv

LEMMA BeginKeeps ==
  ASSUME LifecycleAssumption, LifecycleInv, NEW w, NEW stage \in Stages,
         NEW status \in Statuses \cup {"keep"}, NEW sequence \in Sequences \cup {None},
         NEW owned \in BOOLEAN, Begin(w, stage, status, sequence, owned),
         session' = session, Terminal(stage) => status \in FinalStatuses
  PROVE  /\ writer' \in [Writers -> WriterRecord] /\ WritersSound'
         /\ requests' \in 0..MaxRequests
<1>1. requests \in 0..MaxRequests /\ requests + 1 \in Times
  BY TimesAreNumbers DEF LifecycleInv, WriterInv, LifecycleTypeOK, Begin
<1>2. RowStep(FALSE)
  BY DEF RowStep, LifecycleInv, WriterInv, LifecycleTypeOK, SessionRecord, EndRecorded
<1>3. writer' \in [Writers -> WriterRecord] /\ WritersSound'
  BY Zenon, <1>1, <1>2, LoadKeeps DEF Begin
<1>4. requests' \in 0..MaxRequests
  BY <1>1, TimesAreNumbers DEF Begin
<1>5. QED
  BY <1>3, <1>4

\* What is begun by someone is begun soundly.
BeginsSound(w) ==
  \E stage \in Stages, status \in Statuses \cup {"keep"}, sequence \in Sequences \cup {None},
     owned \in BOOLEAN :
    /\ Begin(w, stage, status, sequence, owned)
    /\ Terminal(stage) => status \in FinalStatuses

LEMMA BeginIsSound ==
  ASSUME NEW w, NEW stage \in Stages, NEW status \in Statuses \cup {"keep"},
         NEW sequence \in Sequences \cup {None}, NEW owned \in BOOLEAN,
         Begin(w, stage, status, sequence, owned), Terminal(stage) => status \in FinalStatuses
  PROVE  BeginsSound(w)
BY Zenon DEF BeginsSound

-----------------------------------------------------------------------------
(* The row *)

\* A step that leaves the row alone is a step of the row.
LEMMA RowKept ==
  ASSUME LifecycleInv, session' = session, NEW wrote \in BOOLEAN
  PROVE  RowStep(wrote)
BY DEF RowStep, LifecycleInv, WriterInv, LifecycleTypeOK, SessionRecord, EndRecorded

\* A write is accepted only of a writer that is not behind: the call has not ended, and
\* it stays connected when it was.
LEMMA AcceptedWrite ==
  ASSUME LifecycleAssumption, LifecycleInv, NEW w \in Writers,
         writer[w].pc = "write", Accepted(w), session' = NextRow(w)
  PROVE  /\ RowStep(TRUE) /\ ~Terminal(session.stage)
         /\ session.connected # None => session'.connected = session.connected
         /\ session'.stage = writer[w].req.stage
<1>1. writer[w] \in WriterRecord /\ Sound(writer[w], session) /\ session \in SessionRecord
  BY DEF LifecycleInv, WriterInv, WritersSound, LifecycleTypeOK, WriterRecord, SessionRecord
<1>2. ~Terminal(session.stage) /\ writer[w].connected = session.connected
  BY <1>1 DEF Accepted, Sound
<1>3. writer[w].req \in Requests
  BY <1>1 DEF WriterRecord
<1>4. session' \in SessionRecord
  BY <1>1, <1>3 DEF NextRow, SessionRecord, WriterRecord, Requests
<1>5. /\ session'.stage = writer[w].req.stage /\ session'.at = writer[w].req.at
      /\ writer[w].req.status # "keep" => session'.status = writer[w].req.status
      /\ session.connected # None => session'.connected = session.connected
  BY <1>1, <1>2, <1>3 DEF NextRow, SessionRecord, Requests
<1>6. None \notin Times
  BY TimesAreNumbers DEF None
<1>7. EndRecorded'
  BY <1>1, <1>3, <1>5, <1>6 DEF EndRecorded, Sound, Requests, FinalStatuses
<1>8. QED
  BY <1>2, <1>4, <1>5, <1>7 DEF RowStep

\* What was submitted stays the end that the row has.
LEMMA SettledStays ==
  ASSUME LifecycleInv, NEW wrote \in BOOLEAN, RowStep(wrote), UNCHANGED billingVars
  PROVE  BillingInv'
BY DEF LifecycleInv, WriterInv, LifecycleTypeOK, SettledAsEnded, BillingInv, billingVars, RowStep

\* A step that releases nothing, or a stream it refuses, leaves the release justified.
LEMMA ReleaseStays ==
  ASSUME LifecycleInv, NEW wrote \in BOOLEAN, RowStep(wrote),
         released' \in {released, released \cup {"refused"}}
  PROVE  ReleasedWhenEnded' /\ released' \subseteq {"ended", "refused"}
BY DEF LifecycleInv, WriterInv, LifecycleTypeOK, ReleasedWhenEnded, RowStep

\* The parts of the invariant together.
LEMMA InvOfParts ==
  ASSUME LifecycleInv, NEW wrote \in BOOLEAN, RowStep(wrote),
         writer' \in [Writers -> WriterRecord], WritersSound',
         media' \in MediaStates, ended' \in 0..EndAttempts, EndTriesLeft',
         token' \in TokenStates, BillingInv',
         released' \subseteq {"ended", "refused"}, ReleasedWhenEnded',
         requests' \in 0..MaxRequests, failures' \in 0..MaxFailures
  PROVE  LifecycleInv'
BY DEF LifecycleInv, WriterInv, LifecycleTypeOK, RowStep, SessionRecord, WriterRecord,
       MediaStates, TokenStates, BillingInv

-----------------------------------------------------------------------------
(* The steps *)

\* The types of what a step may leave alone, in the words of this module.
LEMMA TypesOfState ==
  ASSUME LifecycleInv
  PROVE  /\ writer \in [Writers -> WriterRecord] /\ WritersSound
         /\ session \in SessionRecord /\ media \in MediaStates
         /\ ended \in 0..EndAttempts /\ EndTriesLeft
         /\ token \in TokenStates /\ BillingInv
         /\ released \subseteq {"ended", "refused"} /\ requests \in 0..MaxRequests
         /\ failures \in 0..MaxFailures
BY DEF LifecycleInv, WriterInv, LifecycleTypeOK, SessionRecord, WriterRecord, MediaStates,
       TokenStates, BillingInv

\* What a writer enqueues is the end of the row.
LEMMA SubmittedAsEnded ==
  ASSUME LifecycleInv, NEW w \in Writers, writer[w].pc = "enqueue", UNCHANGED <<session, pinned>>,
         settled' = settled \cup {[connected |-> writer[w].connected, at |-> writer[w].req.at,
                                   outcome |-> writer[w].outcome]},
         stored' \subseteq settled'
  PROVE  BillingInv'
<1> DEFINE facts == [connected |-> writer[w].connected, at |-> writer[w].req.at,
                     outcome |-> writer[w].outcome]
<1>1. writer[w] \in WriterRecord /\ Sound(writer[w], session) /\ BillingInv
  BY TypesOfState DEF WritersSound
<1>2. facts \in Facts
  BY <1>1 DEF WriterRecord, Requests, Facts
<1>3. /\ Terminal(session.stage) /\ facts.connected = session.connected
      /\ facts.at = session.at /\ Agrees(facts.outcome, session)
  BY <1>1 DEF Sound
<1>4. settled' = settled \cup {facts} /\ stored' \subseteq settled'
  OBVIOUS
<1> HIDE DEF facts
<1>5. QED
  BY <1>1, <1>2, <1>3, <1>4 DEF BillingInv, SettledAsEnded, Agrees

\* A handler of a request: it loads, writes or loses, rechecks, submits and enqueues.
LEMMA ProgressKeeps ==
  ASSUME LifecycleAssumption, LifecycleInv, NEW w \in Writers, Progress(w)
  PROVE  LifecycleInv'
<1>1. CASE Load(w)
  <2>1. RowStep(FALSE) /\ writer[w] \in WriterRecord /\ Sound(writer[w], session)
    BY <1>1, RowKept, TypesOfState DEF Load, rowVars, WritersSound
  <2>2. UNCHANGED <<session, token, billingVars, requests, failures>>
    BY <1>1 DEF Load, rowVars
  <2>3. CASE GoSubmit(w, session, FALSE) /\ Terminal(session.stage)
    <3>1. writer' \in [Writers -> WriterRecord] /\ WritersSound'
      BY <1>1, <2>1, <2>2, <2>3, SubmitKeeps DEF Load
    <3>2. UNCHANGED <<media, ended, released>>
      BY <2>3 DEF GoSubmit
    <3>3. QED
      BY <2>1, <2>2, <3>1, <3>2, TypesOfState, InvOfParts, SettledStays, ReleaseStays
      DEF EndTriesLeft
  <2>4. CASE Answer(w, "ignored", FALSE, FALSE)
    BY <2>1, <2>2, <2>4, AnswerKeeps, InvOfParts, TypesOfState, SettledStays
  <2>5. CASE ~Terminal(session.stage) /\ GoWrite(w)
    <3> DEFINE o == IF session.stage = "handoff" THEN "transferred" ELSE "completed"
               r == [writer[w] EXCEPT !.pc = "write", !.behind = 0,
                                      !.connected = session.connected, !.outcome = o]
    <3>1. Continue(w, r, FALSE) /\ UNCHANGED <<media, ended, released>>
      BY <2>5 DEF GoWrite
    <3>2. o \in Outcomes /\ o # "failed"
      BY DEF Outcomes
    <3> HIDE DEF o
    <3>3. r \in WriterRecord
      <4>1. session.connected \in Times \cup {None}
        BY TypesOfState DEF SessionRecord
      <4>2. 0 \in 0..2
        OBVIOUS
      <4>3. QED
        BY Zenon, <2>1, <3>2, <4>1, <4>2, LoadedRecord
    <3>4. Sound(r, session')
      BY <1>1, <2>1, <2>2, <2>5, <3>2 DEF Sound, WriterRecord, Load
    <3> HIDE DEF r
    <3>5. writer' \in [Writers -> WriterRecord] /\ WritersSound'
      BY <2>1, <3>3, <3>4, <3>1, SoundAfter DEF LifecycleInv
    <3>6. QED
      BY <2>1, <2>2, <3>1, <3>5, TypesOfState, InvOfParts, SettledStays, ReleaseStays
      DEF EndTriesLeft
  <2>6. QED
    BY <1>1, <2>3, <2>4, <2>5 DEF Load
<1>2. CASE Write(w)
  <2>1. RowStep(TRUE) /\ session'.stage = writer[w].req.stage /\ session' = NextRow(w)
    BY <1>2, AcceptedWrite DEF Write
  <2>2. UNCHANGED <<token, billingVars, requests, failures>>
    BY <1>2 DEF Write
  <2>3. CASE GoSubmit(w, NextRow(w), TRUE) /\ Terminal(writer[w].req.stage)
    <3>1. writer' \in [Writers -> WriterRecord] /\ WritersSound'
      BY <1>2, <2>1, <2>3, SubmitKeeps DEF Write
    <3>2. UNCHANGED <<media, ended, released>>
      BY <2>3 DEF GoSubmit
    <3>3. QED
      BY <2>1, <2>2, <3>1, <3>2, TypesOfState, InvOfParts, SettledStays, ReleaseStays
      DEF EndTriesLeft
  <2>4. CASE Answer(w, "applied", TRUE, FALSE)
    BY <2>1, <2>2, <2>4, AnswerKeeps, InvOfParts, TypesOfState, SettledStays
  <2>5. QED
    BY <1>2, <2>3, <2>4 DEF Write
<1>3. CASE WriteLost(w)
  <2>1. RowStep(FALSE) /\ writer[w] \in WriterRecord /\ Sound(writer[w], session)
    BY <1>3, RowKept, TypesOfState DEF WriteLost, rowVars, WritersSound
  <2>2. UNCHANGED <<session, token, billingVars, requests, failures>>
    BY <1>3 DEF WriteLost, rowVars
  <2>3. CASE GoSubmit(w, session, FALSE) /\ session = NextRow(w)
             /\ Terminal(writer[w].req.stage)
    <3>1. Terminal(session.stage)
      <4>1. NextRow(w).stage = writer[w].req.stage
        BY TypesOfState DEF NextRow, SessionRecord
      <4>2. QED
        BY <2>3, <4>1
    <3>2. writer' \in [Writers -> WriterRecord] /\ WritersSound'
      BY <1>3, <2>1, <2>2, <2>3, <3>1, SubmitKeeps DEF WriteLost
    <3>3. UNCHANGED <<media, ended, released>>
      BY <2>3 DEF GoSubmit
    <3>4. QED
      BY <2>1, <2>2, <3>2, <3>3, TypesOfState, InvOfParts, SettledStays, ReleaseStays
      DEF EndTriesLeft
  <2>4. CASE Answer(w, "applied", FALSE, FALSE)
    BY <2>1, <2>2, <2>4, AnswerKeeps, InvOfParts, TypesOfState, SettledStays
  <2>5. CASE /\ Continue(w, [IdleWriter EXCEPT !.req = writer[w].req, !.tries = writer[w].tries + 1,
                               !.pc = IF writer[w].tries + 1 < WriteAttempts THEN "load"
                                      ELSE "recheck"], FALSE)
             /\ UNCHANGED <<media, ended, released>>
    <3> DEFINE n == writer[w].tries + 1
               pc == IF n < WriteAttempts THEN "load" ELSE "recheck"
               r == [IdleWriter EXCEPT !.req = writer[w].req, !.tries = n, !.pc = pc]
    <3>1. n \in 0..WriteAttempts /\ writer[w].req \in Requests
      BY <1>3, <2>1, TimesAreNumbers DEF WriteLost, Sound, WriterRecord
    <3>2. pc \in {"load", "recheck"} /\ (pc = "load" => n < WriteAttempts)
      OBVIOUS
    <3>3. Terminal(writer[w].req.stage) => writer[w].req.status \in FinalStatuses
      BY <2>1 DEF Sound
    <3>4. Continue(w, r, FALSE)
      BY <2>5
    <3> HIDE DEF n, pc
    <3>5. r \in WriterRecord
      BY Zenon, <3>1, <3>2, RetriedRecord, IdleIsSound
    <3>6. IdleWriter.outcome = "completed" /\ IdleWriter \in WriterRecord
      BY IdleIsSound DEF IdleWriter
    <3>7. /\ r.req = writer[w].req /\ r.tries = n /\ r.pc = pc
          /\ r.outcome = "completed"
      BY <3>6 DEF WriterRecord
    <3> HIDE DEF r
    <3>8. Sound(r, session')
      BY <3>2, <3>3, <3>7 DEF Sound
    <3>9. writer' \in [Writers -> WriterRecord] /\ WritersSound'
      BY <2>1, <3>4, <3>5, <3>8, SoundAfter DEF LifecycleInv
    <3>10. QED
      BY <2>1, <2>2, <2>5, <3>9, TypesOfState, InvOfParts, SettledStays, ReleaseStays
      DEF EndTriesLeft
  <2>6. QED
    BY <1>3, <2>3, <2>4, <2>5 DEF WriteLost
<1>4. CASE Recheck(w)
  <2>1. RowStep(FALSE)
    BY <1>4, RowKept DEF Recheck, rowVars
  <2>2. UNCHANGED <<session, token, billingVars, requests, failures>>
    BY <1>4 DEF Recheck, rowVars
  <2>3. PICK releases \in BOOLEAN :
          Answer(w, "ignored", FALSE, releases) /\ (releases => Terminal(session.stage))
    BY <1>4 DEF Recheck, Terminal
  <2>4. QED
    BY <2>1, <2>2, <2>3, AnswerKeeps, InvOfParts, TypesOfState, SettledStays
<1>5. CASE Submit(w)
  <2>1. RowStep(FALSE) /\ writer[w] \in WriterRecord /\ Sound(writer[w], session)
    BY <1>5, RowKept, TypesOfState DEF Submit, rowVars, WritersSound
  <2>2. UNCHANGED <<session, token, billingVars, requests, failures>>
    BY <1>5 DEF Submit, rowVars
  <2>3. /\ Terminal(session.stage) /\ writer[w].connected = session.connected
        /\ writer[w].req.at = session.at /\ Agrees(writer[w].outcome, session)
    BY <1>5, <2>1 DEF Submit, Sound
  <2>4. CASE Answer(w, "threw", FALSE, TRUE)
    BY <2>1, <2>2, <2>3, <2>4, AnswerKeeps, InvOfParts, TypesOfState, SettledStays
  <2> DEFINE o == IF writer[w].outcome = "failed" \/ pinned = "none" THEN writer[w].outcome
                  ELSE pinned
             r == [writer[w] EXCEPT !.pc = "enqueue", !.outcome = o]
  <2>5. CASE Continue(w, r, FALSE) /\ UNCHANGED <<media, ended, released>>
    <3>1. o \in Outcomes /\ Agrees(o, session)
      BY <2>1, <2>3, TypesOfState DEF BillingInv, SettledAsEnded, Agrees, WriterRecord
    <3> HIDE DEF o
    <3>2. r \in WriterRecord
      BY <2>1, <3>1 DEF WriterRecord
    <3>3. Sound(r, session')
      BY <2>1, <2>2, <2>3, <3>1 DEF Sound, WriterRecord
    <3>4. Continue(w, r, FALSE)
      BY <2>5 DEF o
    <3> HIDE DEF r
    <3>5. writer' \in [Writers -> WriterRecord] /\ WritersSound'
      BY <2>1, <3>2, <3>3, <3>4, SoundAfter DEF LifecycleInv
    <3>6. QED
      BY <2>1, <2>2, <2>5, <3>5, TypesOfState, InvOfParts, SettledStays, ReleaseStays
      DEF EndTriesLeft
  <2>6. QED
    BY <1>5, <2>4, <2>5 DEF Submit
<1>6. CASE Enqueue(w)
  <2> DEFINE facts == [connected |-> writer[w].connected, at |-> writer[w].req.at,
                       outcome |-> writer[w].outcome]
  <2>1. RowStep(FALSE) /\ writer[w] \in WriterRecord /\ Sound(writer[w], session)
    BY <1>6, RowKept, TypesOfState DEF Enqueue, rowVars, WritersSound
  <2>2. /\ UNCHANGED <<session, token, pinned, requests, failures>>
        /\ settled' = settled \cup {facts} /\ stored' \subseteq settled'
    BY <1>6, TypesOfState DEF Enqueue, rowVars, BillingInv
  <2>3. writer[w].pc = "enqueue"
    BY <1>6 DEF Enqueue
  <2>4. BillingInv'
    BY <2>1, <2>2, <2>3, SubmittedAsEnded
  <2>5. PICK answer : Answer(w, answer, FALSE, TRUE)
    BY <1>6 DEF Enqueue
  <2>6. Terminal(session.stage)
    BY <2>1, <2>3 DEF Sound
  <2>7. QED
    BY <2>1, <2>2, <2>4, <2>5, <2>6, AnswerKeeps, InvOfParts, TypesOfState
<1>7. QED
  BY <1>1, <1>2, <1>3, <1>4, <1>5, <1>6 DEF Progress

\* A step that fails: nothing is done, or the write is and its answer is lost.
LEMMA FailureKeeps ==
  ASSUME LifecycleAssumption, LifecycleInv, NEW w \in Writers, StepFails(w)
  PROVE  LifecycleInv'
<1>1. UNCHANGED <<token, requests>> /\ failures' \in 0..MaxFailures
  BY TypesOfState, TimesAreNumbers DEF StepFails, Failure
<1>2. writer[w] \in WriterRecord /\ Sound(writer[w], session)
  BY TypesOfState DEF WritersSound
<1>3. CASE /\ UNCHANGED <<session, billingVars>>
           /\ Answer(w, "threw", FALSE, writer[w].pc \in {"submit", "enqueue"})
  <2>1. RowStep(FALSE)
    BY <1>3, RowKept
  <2> DEFINE releases == writer[w].pc \in {"submit", "enqueue"}
  <2>2. /\ releases \in BOOLEAN /\ (releases => Terminal(session.stage))
        /\ Answer(w, "threw", FALSE, releases)
    <3>1. releases \in BOOLEAN /\ (releases => Terminal(session.stage))
      BY <1>2 DEF Sound
    <3>2. Answer(w, "threw", FALSE, releases)
      BY <1>3
    <3>3. QED
      BY <3>1, <3>2
  <2> HIDE DEF releases
  <2>3. QED
    BY ZenonT(40), <1>1, <1>3, <2>1, <2>2, AnswerKeeps, TypesOfState, InvOfParts, SettledStays
<1>4. CASE /\ writer[w].pc = "write" /\ Accepted(w) /\ session' = NextRow(w)
           /\ Answer(w, "threw", TRUE, FALSE) /\ UNCHANGED billingVars
  <2>1. RowStep(TRUE)
    BY <1>4, AcceptedWrite
  <2>2. QED
    BY <1>1, <1>4, <2>1, AnswerKeeps, TypesOfState, InvOfParts, SettledStays
<1>5. CASE /\ writer[w].pc = "enqueue" /\ UNCHANGED <<session, pinned>>
           /\ Answer(w, "threw", FALSE, TRUE) /\ stored' = settled'
           /\ settled' = settled \cup {[connected |-> writer[w].connected,
                                        at |-> writer[w].req.at,
                                        outcome |-> writer[w].outcome]}
  <2>1. BillingInv'
    BY <1>5, SubmittedAsEnded
  <2>2. RowStep(FALSE) /\ Terminal(session.stage)
    BY <1>2, <1>5, RowKept DEF Sound
  <2>3. QED
    BY <1>1, <1>5, <2>1, <2>2, AnswerKeeps, TypesOfState, InvOfParts
<1>6. QED
  <2>1. CASE writer[w].pc = "enqueue"
    BY <1>3, <1>5, <2>1 DEF StepFails
  <2>2. CASE writer[w].pc # "enqueue"
    BY <1>3, <1>4, <2>2 DEF StepFails
  <2>3. QED
    BY <2>1, <2>2

\* The process of a writer dies, or that of the stream and its policy.
LEMMA CrashKeeps ==
  ASSUME LifecycleAssumption, LifecycleInv, (\E w \in Writers : Crash(w)) \/ CrashMedia
  PROVE  LifecycleInv'
<1>1. /\ UNCHANGED <<session, token, ended, billingVars, released, requests>>
      /\ failures' \in 0..MaxFailures
  <2>1. Failure
    BY DEF Crash, CrashMedia
  <2>2. failures' \in 0..MaxFailures
    BY <2>1, TypesOfState, TimesAreNumbers DEF Failure
  <2>3. QED
    BY <2>2 DEF Crash, CrashMedia, rowVars, effectVars
<1>2. RowStep(FALSE)
  BY <1>1, RowKept
<1>3. CASE \E w \in Writers : Crash(w)
  <2>1. PICK w \in Writers : Crash(w)
    BY <1>3
  <2>2. writer' \in [Writers -> WriterRecord] /\ WritersSound'
    BY <1>2, <2>1, IdleIsSound, SoundAfter DEF Crash, LifecycleInv
  <2>3. UNCHANGED media
    BY <2>1 DEF Crash
  <2>4. QED
    BY <1>1, <1>2, <2>2, <2>3, TypesOfState, InvOfParts, SettledStays, ReleaseStays DEF EndTriesLeft
<1>4. CASE CrashMedia
  <2>1. /\ media' = "lost"
        /\ writer' = [writer EXCEPT !["stream"] = IdleWriter, !["policy"] = IdleWriter]
    BY <1>4 DEF CrashMedia
  <2>2. ASSUME NEW v \in Writers
        PROVE  writer'[v] \in {writer[v], IdleWriter}
    BY <2>1, TypesOfState
  <2>3. writer' \in [Writers -> WriterRecord]
    BY <2>1, IdleIsSound, TypesOfState
  <2>4. WritersSound'
    BY <1>1, <2>2, IdleIsSound, TypesOfState DEF WritersSound
  <2>5. media' \in MediaStates /\ EndTriesLeft'
    BY <1>1, <2>1, TypesOfState DEF MediaStates, EndTriesLeft
  <2>6. QED
    BY <1>1, <1>2, <2>1, <2>3, <2>4, <2>5, TypesOfState, InvOfParts, SettledStays, ReleaseStays
<1>5. QED
  BY <1>3, <1>4

\* A request is begun: by a callback, the stream, or the expiry of the token.
LEMMA RequestKeeps ==
  ASSUME LifecycleAssumption, LifecycleInv,
         \/ \E d \in Deliveries : StatusCallback(d)
         \/ TokenExpired \/ MediaConnects \/ ActivationDenied
         \/ \E stage \in Stages : StreamObserves(stage)
         \/ \E stage \in {"completed", "failed"} : StreamEnds(stage)
  PROVE  LifecycleInv'
<1> DEFINE Names ==
      /\ {"media-connected", "provider-ready", "active", "handoff", "draining", "ringing"}
         \subseteq {stage \in Stages : ~Terminal(stage)}
      /\ {"expired", "completed", "failed"} \subseteq Stages
      /\ {"completed", "terminated"} \subseteq FinalStatuses
      /\ {"completed", "terminated", "active"} \subseteq Statuses
      /\ {1, 2, 3} \subseteq Sequences
      /\ Premium \in BOOLEAN
<1>0. Names
  BY DEF Stages, TerminalStages, Terminal, Statuses, FinalStatuses, Sequences, Premium
<1> HIDE DEF Names
<1>1. \E w \in Writers : BeginsSound(w)
  <2>1. ASSUME NEW d \in Deliveries, StatusCallback(d)
        PROVE  BeginsSound(d)
    <3>1. CASE Begin(d, "ringing", "keep", 1, FALSE)
      BY <3>1, BeginIsSound, <1>0 DEF Names
    <3>2. CASE Begin(d, "active", "active", 2, FALSE)
      BY <3>2, BeginIsSound, <1>0 DEF Names
    <3>3. CASE Begin(d, "completed", "completed", 3, FALSE)
      BY <3>3, BeginIsSound, <1>0 DEF Names
    <3>4. CASE Begin(d, "failed", "terminated", 3, FALSE)
      BY <3>4, BeginIsSound, <1>0 DEF Names
    <3>5. QED
      BY <2>1, <3>1, <3>2, <3>3, <3>4 DEF StatusCallback
  <2>2. ASSUME MediaConnects \/ ActivationDenied
        PROVE  BeginsSound("stream")
    <3>1. CASE Begin("stream", "media-connected", "keep", None, Premium)
      BY <3>1, BeginIsSound, <1>0 DEF Names
    <3>2. CASE Begin("stream", "failed", "terminated", None, FALSE)
      BY <3>2, BeginIsSound, <1>0 DEF Names
    <3>3. QED
      BY <2>2, <3>1, <3>2 DEF MediaConnects, ActivationDenied
  <2>3. ASSUME TokenExpired
        PROVE  BeginsSound("claim")
    <3>1. Begin("claim", "expired", "terminated", None, FALSE)
      BY <2>3 DEF TokenExpired
    <3>2. QED
      BY <3>1, BeginIsSound, <1>0 DEF Names
  <2>4. ASSUME NEW stage \in Stages, StreamObserves(stage)
        PROVE  BeginsSound("stream")
    <3>1. /\ Begin("stream", stage, IF stage = "active" THEN "active" ELSE "keep", None, Premium)
          /\ stage \in {"provider-ready", "active", "handoff", "draining"}
      BY <2>4 DEF StreamObserves
    <3>2. ~Terminal(stage)
      BY <3>1, <1>0 DEF Names
    <3>3. CASE stage = "active"
      <4>1. Begin("stream", stage, "active", None, Premium)
        BY <3>1, <3>3
      <4>2. QED
        BY <4>1, <3>2, BeginIsSound, <1>0 DEF Names
    <3>4. CASE stage # "active"
      <4>1. Begin("stream", stage, "keep", None, Premium)
        BY <3>1, <3>4
      <4>2. QED
        BY <4>1, <3>2, BeginIsSound, <1>0 DEF Names
    <3>5. QED
      BY <3>3, <3>4
  <2>5. ASSUME NEW stage \in {"completed", "failed"}, StreamEnds(stage)
        PROVE  BeginsSound("stream")
    <3>1. Begin("stream", stage, EndOf(stage), None, Premium)
      BY <2>5 DEF StreamEnds
    <3>2. QED
      BY <3>1, BeginIsSound, <1>0 DEF Names, EndOf
  <2>6. QED
    BY <2>1, <2>2, <2>3, <2>4, <2>5 DEF Writers
<1>2. UNCHANGED <<session, ended, billingVars, released, failures>>
  BY DEF StatusCallback, MediaConnects, ActivationDenied, TokenExpired, StreamObserves,
         StreamEnds, rowVars, effectVars
<1>3. token' \in TokenStates
  BY TypesOfState
  DEF StatusCallback, MediaConnects, ActivationDenied, TokenExpired, StreamObserves, StreamEnds,
      rowVars, TokenStates
<1>4. media' \in MediaStates /\ (media \in {"given-up", "lost"} => media' = media)
  BY TypesOfState
  DEF StatusCallback, MediaConnects, ActivationDenied, TokenExpired, StreamObserves, StreamEnds,
      MediaStates
<1>5. RowStep(FALSE)
  BY <1>2, RowKept
<1>6. /\ writer' \in [Writers -> WriterRecord] /\ WritersSound'
      /\ requests' \in 0..MaxRequests
  <2>1. PICK w \in Writers : BeginsSound(w)
    BY <1>1
  <2>2. PICK stage \in Stages, status \in Statuses \cup {"keep"},
             sequence \in Sequences \cup {None}, owned \in BOOLEAN :
          /\ Begin(w, stage, status, sequence, owned)
          /\ Terminal(stage) => status \in FinalStatuses
    BY <2>1 DEF BeginsSound
  <2>3. QED
    BY <1>2, <2>2, BeginKeeps
<1>7. EndTriesLeft'
  BY <1>2, <1>4, TypesOfState DEF EndTriesLeft
<1>8. QED
  BY <1>2, <1>3, <1>4, <1>5, <1>6, <1>7, TypesOfState, InvOfParts, SettledStays, ReleaseStays

\* A row that changes while the call has not ended.
LEMMA StatusWrite ==
  ASSUME LifecycleInv, NEW status \in Statuses, session.status \notin FinalStatuses,
         session' = [session EXCEPT !.status = status]
  PROVE  /\ RowStep(TRUE) /\ ~Terminal(session.stage)
         /\ session'.connected = session.connected
<1>1. session \in SessionRecord /\ ~Terminal(session.stage)
  BY TypesOfState DEF LifecycleInv, WriterInv, EndRecorded
<1>2. /\ session' \in SessionRecord /\ session'.stage = session.stage
      /\ session'.connected = session.connected
  BY <1>1 DEF SessionRecord
<1>3. QED
  BY <1>1, <1>2 DEF RowStep, EndRecorded

\* The reconciler writes the end of a call that has not ended.
LEMMA ReconcileWrite ==
  ASSUME LifecycleAssumption, LifecycleInv, Reconcile
  PROVE  RowStep(TRUE) /\ ~Terminal(session.stage)
<1>1. session \in SessionRecord /\ ReconcileTime \in Times /\ None \notin Times
  BY TypesOfState, TimesAreNumbers DEF None
<1>2. session' = [session EXCEPT !.stage = "failed", !.status = "terminated", !.sequence = None,
                                 !.connected = None, !.at = ReconcileTime]
  BY DEF Reconcile
<1>3. session' \in SessionRecord
  BY <1>1, <1>2
  DEF SessionRecord, Stages, TerminalStages, Statuses, FinalStatuses
<1>4. session'.at = ReconcileTime /\ session'.status = "terminated"
  BY <1>1, <1>2 DEF SessionRecord
<1>5. QED
  BY <1>1, <1>3, <1>4 DEF RowStep, EndRecorded, FinalStatuses, Reconcile

\* The other writes of the row, the retry of an end, the lease of the media's owner, the
\* stream's ways out before it is in use, and the settling of the reservation.
LEMMA OthersKeep ==
  ASSUME LifecycleAssumption, LifecycleInv,
         \/ RetryEnd \/ PolicyTerminates
         \/ \E status \in {"open", "active", "completed"} : StatusChanges(status)
         \/ LeaseLapses \/ LeaseExtended \/ Reconcile
         \/ ClaimToken \/ FenceRefused \/ StreamCloses \/ Settle
  PROVE  LifecycleInv'
<1>1. CASE RetryEnd
  <2>1. /\ media = "waiting" /\ media' = "ending"
        /\ UNCHANGED <<session, token, ended, billingVars, released, requests, failures>>
    BY <1>1 DEF RetryEnd, rowVars, effectVars
  <2>2. PICK stage \in {"completed", "failed"} :
          Continue("stream", [IdleWriter EXCEPT !.pc = "load",
            !.req = Request(stage, EndOf(stage), None, Premium, RetryTime)], FALSE)
    BY <1>1 DEF RetryEnd
  <2>3. /\ stage \in Stages /\ EndOf(stage) \in Statuses \cap FinalStatuses
        /\ Premium \in BOOLEAN /\ None \in Sequences \cup {None}
    BY DEF EndOf, Stages, TerminalStages, Statuses, FinalStatuses, Premium
  <2>4. RowStep(FALSE)
    BY <2>1, RowKept
  <2>5. writer' \in [Writers -> WriterRecord] /\ WritersSound'
    BY Zenon, <2>2, <2>3, <2>4, LoadKeeps, TimesAreNumbers
  <2>6. media' \in MediaStates /\ EndTriesLeft'
    BY <2>1, TypesOfState DEF MediaStates, EndTriesLeft
  <2>7. QED
    BY <2>1, <2>4, <2>5, <2>6, TypesOfState, InvOfParts, SettledStays, ReleaseStays
<1>2. CASE PolicyTerminates
  <2>1. /\ UNCHANGED <<token, media, ended, billingVars, released, failures>>
        /\ requests < MaxRequests /\ requests' = requests + 1
    BY <1>2 DEF PolicyTerminates, effectVars
  <2>2. /\ {"failed"} \subseteq Stages /\ "terminated" \in Statuses \cap FinalStatuses
        /\ None \in Sequences \cup {None}
    BY DEF Stages, TerminalStages, Statuses, FinalStatuses
  <2>3. RowStep(TRUE)
    BY <1>2, <2>2, StatusWrite DEF PolicyTerminates
  <2>4. requests + 1 \in Times /\ requests' \in 0..MaxRequests
    BY <2>1, TypesOfState, TimesAreNumbers
  <2>5. writer' \in [Writers -> WriterRecord] /\ WritersSound'
    BY Zenon, <1>2, <2>2, <2>3, <2>4, LoadKeeps DEF PolicyTerminates
  <2>6. EndTriesLeft'
    BY <2>1, TypesOfState DEF EndTriesLeft
  <2>7. QED
    BY <2>1, <2>3, <2>4, <2>5, <2>6, TypesOfState, InvOfParts, SettledStays, ReleaseStays
<1>3. ASSUME NEW status \in {"open", "active", "completed"}, StatusChanges(status)
      PROVE  LifecycleInv'
  <2>1. /\ UNCHANGED <<token, media, ended, billingVars, released, failures>>
        /\ requests < MaxRequests /\ requests' = requests + 1
    BY <1>3 DEF StatusChanges, effectVars
  <2>2. RowStep(TRUE)
    BY <1>3, StatusWrite DEF StatusChanges, Statuses, FinalStatuses
  <2>3. requests' \in 0..MaxRequests
    BY <2>1, TypesOfState, TimesAreNumbers
  <2>4. writer' \in [Writers -> WriterRecord] /\ WritersSound'
    BY <1>3, <2>2, IdleIsSound, SoundAfter DEF StatusChanges, LifecycleInv
  <2>5. EndTriesLeft'
    BY <2>1, TypesOfState DEF EndTriesLeft
  <2>6. QED
    BY <2>1, <2>2, <2>3, <2>4, <2>5, TypesOfState, InvOfParts, SettledStays, ReleaseStays
<1>4. CASE LeaseLapses \/ LeaseExtended \/ ClaimToken \/ FenceRefused \/ StreamCloses
  <2>1. /\ UNCHANGED <<session, writer, ended, billingVars, requests, failures>>
        /\ token' \in TokenStates
        /\ media' \in MediaStates /\ (media \in {"given-up", "lost"} => media' = media)
        /\ released' \in {released, released \cup {"refused"}}
    BY <1>4, TypesOfState
    DEF LeaseLapses, LeaseExtended, ClaimToken, FenceRefused, StreamCloses, Closed, rowVars,
        effectVars, TokenStates, MediaStates
  <2>2. RowStep(FALSE)
    BY <2>1, RowKept
  <2>3. WritersSound' /\ EndTriesLeft'
    BY <2>1, TypesOfState DEF WritersSound, EndTriesLeft
  <2>4. QED
    BY <2>1, <2>2, <2>3, TypesOfState, InvOfParts, SettledStays, ReleaseStays
<1>5. CASE Reconcile
  <2>1. /\ UNCHANGED <<media, ended, billingVars, released, requests, failures>>
        /\ token' \in TokenStates
    BY <1>5 DEF Reconcile, effectVars, TokenStates
  <2>2. RowStep(TRUE)
    BY <1>5, ReconcileWrite
  <2>3. writer' \in [Writers -> WriterRecord] /\ WritersSound'
    BY <1>5, <2>2, IdleIsSound, SoundAfter DEF Reconcile, LifecycleInv
  <2>4. EndTriesLeft'
    BY <2>1, TypesOfState DEF EndTriesLeft
  <2>5. QED
    BY <2>1, <2>2, <2>3, <2>4, TypesOfState, InvOfParts, SettledStays, ReleaseStays
<1>6. CASE Settle
  <2>1. /\ UNCHANGED <<session, token, writer, media, ended, settled, stored, released, requests,
                        failures>>
        /\ \E facts \in stored : pinned' = facts.outcome
    BY <1>6 DEF Settle, rowVars
  <2>2. RowStep(FALSE)
    BY <2>1, RowKept
  <2>3. WritersSound' /\ EndTriesLeft'
    BY <2>1, TypesOfState DEF WritersSound, EndTriesLeft
  <2>4. BillingInv'
    BY <2>1, TypesOfState DEF BillingInv, SettledAsEnded, Agrees, Facts
  <2>5. QED
    BY <2>1, <2>2, <2>3, <2>4, TypesOfState, InvOfParts, ReleaseStays
<1>7. QED
  BY <1>1, <1>2, <1>3, <1>4, <1>5, <1>6

LEMMA InvStutters ==
  ASSUME LifecycleInv, UNCHANGED lifecycleVars
  PROVE  LifecycleInv'
BY DEF lifecycleVars, rowVars, billingVars, effectVars, LifecycleInv, WriterInv,
       LifecycleTypeOK, WritersSound, EndRecorded, EndTriesLeft, SettledAsEnded,
       ReleasedWhenEnded

-----------------------------------------------------------------------------
(* The theorems *)

LEMMA InitInv ==
  ASSUME LifecycleAssumption, LifecycleInit
  PROVE  LifecycleInv
<1>1. LifecycleTypeOK
  <2>1. writer \in [Writers -> WriterRecord]
    BY IdleIsSound DEF LifecycleInit
  <2>2. "ringing" \in Stages /\ "open" \in Statuses /\ ~Terminal("ringing")
    BY DEF Stages, TerminalStages, Statuses, Terminal
  <2>3. session \in SessionRecord
    BY <2>2 DEF LifecycleInit, SessionRecord
  <2>4. 0 \in 0..EndAttempts /\ 0 \in 0..MaxRequests /\ 0 \in 0..MaxFailures
    BY TimesAreNumbers
  <2>5. QED
    BY <2>1, <2>3, <2>4 DEF LifecycleInit, LifecycleTypeOK, WriterRecord, SessionRecord
<1>2. WritersSound
  BY IdleIsSound DEF LifecycleInit, WritersSound
<1>3. EndRecorded /\ EndTriesLeft /\ SettledAsEnded /\ ReleasedWhenEnded
  BY TimesAreNumbers DEF LifecycleInit, EndRecorded, EndTriesLeft, SettledAsEnded,
     ReleasedWhenEnded, Terminal, TerminalStages
<1>4. QED
  BY <1>1, <1>2, <1>3 DEF LifecycleInv, WriterInv

\* The inductive invariant of the writers, the row and what they cause.
THEOREM LifecycleInvariant == LifecycleSpec => []LifecycleInv
<1>1. LifecycleInit => LifecycleInv
  BY LifecycleAssumption, InitInv
<1>2. LifecycleInv /\ [LifecycleNext]_lifecycleVars => LifecycleInv'
  <2> SUFFICES ASSUME LifecycleInv, [LifecycleNext]_lifecycleVars
               PROVE  LifecycleInv'
    OBVIOUS
  <2>1. ASSUME NEW w \in Writers, Progress(w)
        PROVE  LifecycleInv'
    BY <2>1, LifecycleAssumption, ProgressKeeps
  <2>2. ASSUME NEW w \in Writers, StepFails(w)
        PROVE  LifecycleInv'
    BY <2>2, LifecycleAssumption, FailureKeeps
  <2>3. CASE (\E w \in Writers : Crash(w)) \/ CrashMedia
    BY <2>3, LifecycleAssumption, CrashKeeps
  <2>4. CASE \/ \E d \in Deliveries : StatusCallback(d)
             \/ TokenExpired \/ MediaConnects \/ ActivationDenied
             \/ \E stage \in Stages : StreamObserves(stage)
             \/ \E stage \in {"completed", "failed"} : StreamEnds(stage)
    BY <2>4, LifecycleAssumption, RequestKeeps
  <2>5. CASE \/ RetryEnd \/ PolicyTerminates
             \/ \E status \in {"open", "active", "completed"} : StatusChanges(status)
             \/ LeaseLapses \/ LeaseExtended \/ Reconcile
             \/ ClaimToken \/ FenceRefused \/ StreamCloses \/ Settle
    BY <2>5, LifecycleAssumption, OthersKeep
  <2>6. CASE UNCHANGED lifecycleVars
    BY <2>6, InvStutters
  <2>7. QED
    BY <2>1, <2>2, <2>3, <2>4, <2>5, <2>6 DEF LifecycleNext
<1>3. QED
  BY <1>1, <1>2, PTL DEF LifecycleSpec

\* Every variable keeps its type: attempts and vain ends stay within their limits, and a
\* settlement is submitted with the time of an end.
THEOREM LifecycleTypeCorrect == LifecycleSpec => []LifecycleTypeOK
<1>1. LifecycleInv => LifecycleTypeOK
  BY DEF LifecycleInv, WriterInv
<1>2. QED
  BY <1>1, LifecycleInvariant, PTL

\* All settlements submitted for a call agree on when it was connected, when it ended and
\* whether it failed, whoever submits them and whatever they had observed; but not on
\* whether it was transferred.
THEOREM SettlementsOfACallAgree == LifecycleSpec => []SubmissionsAgree
<1>1. LifecycleInv => SubmissionsAgree
  BY DEF LifecycleInv, SettledAsEnded, SubmissionsAgree, Agrees
<1>2. QED
  BY <1>1, LifecycleInvariant, PTL

\* But for a stream that is refused, the admission of a call is given back only when its
\* end is recorded.
THEOREM ReleaseFollowsEnd == LifecycleSpec => []ReleasedWhenEnded
<1>1. LifecycleInv => ReleasedWhenEnded
  BY DEF LifecycleInv
<1>2. QED
  BY <1>1, LifecycleInvariant, PTL

\* No step changes the row of a call that has ended, and only the reconciler changes the
\* time a call was connected.
THEOREM EndStaysAsRecorded == LifecycleSpec => EndIsFinal
<1> DEFINE Final ==
      /\ Terminal(session.stage) => session' = session
      /\ session.connected # None /\ token' # "deleted"
           => session'.connected = session.connected
<1>1. LifecycleInv /\ [LifecycleNext]_lifecycleVars => [Final]_lifecycleVars
  <2> SUFFICES ASSUME LifecycleInv, [LifecycleNext]_lifecycleVars
               PROVE  Final
    OBVIOUS
  <2>1. CASE session' = session
    BY <2>1
  <2>2. ASSUME NEW w \in Writers, Write(w) \/ StepFails(w)
        PROVE  Final
    <3>1. \/ session' = session
          \/ writer[w].pc = "write" /\ Accepted(w) /\ session' = NextRow(w)
      BY <2>2 DEF Write, StepFails
    <3>2. QED
      BY <2>1, <3>1, LifecycleAssumption, AcceptedWrite
  <2>3. CASE PolicyTerminates
    <3>1. "terminated" \in Statuses
      BY DEF Statuses, FinalStatuses
    <3>2. QED
      BY <2>3, <3>1, StatusWrite DEF PolicyTerminates
  <2>4. ASSUME NEW status \in {"open", "active", "completed"}, StatusChanges(status)
        PROVE  Final
    BY <2>4, StatusWrite DEF StatusChanges, Statuses, FinalStatuses
  <2>5. CASE Reconcile
    BY <2>5, LifecycleAssumption, ReconcileWrite DEF Reconcile
  <2>6. ASSUME NEW w \in Writers,
               Load(w) \/ WriteLost(w) \/ Recheck(w) \/ Submit(w) \/ Enqueue(w) \/ Crash(w)
        PROVE  session' = session
    BY <2>6 DEF Load, WriteLost, Recheck, Submit, Enqueue, Crash, rowVars
  <2>7. CASE \/ \E d \in Deliveries : StatusCallback(d)
             \/ ClaimToken \/ TokenExpired
             \/ MediaConnects \/ ActivationDenied \/ FenceRefused \/ StreamCloses
             \/ \E stage \in Stages : StreamObserves(stage)
             \/ \E stage \in {"completed", "failed"} : StreamEnds(stage)
             \/ RetryEnd \/ CrashMedia \/ LeaseLapses \/ LeaseExtended \/ Settle
             \/ UNCHANGED lifecycleVars
    <3>1. session' = session
      BY <2>7
      DEF StatusCallback, ClaimToken, TokenExpired, MediaConnects, ActivationDenied,
          FenceRefused, StreamCloses, StreamObserves, StreamEnds, RetryEnd, CrashMedia,
          LeaseLapses, LeaseExtended, Settle, rowVars, lifecycleVars
    <3>2. QED
      BY <2>1, <3>1
  <2> HIDE DEF Final
  <2>8. QED
    BY <2>1, <2>2, <2>3, <2>4, <2>5, <2>6, <2>7 DEF LifecycleNext, Progress
<1>2. QED
  BY <1>1, LifecycleInvariant, PTL DEF LifecycleSpec, EndIsFinal

-----------------------------------------------------------------------------
(* The drain of a worker *)

\* The drain has begun, and it has passed the refresh it found.
Published == {"publishing", "silence", "waiting", "last", "over", "done"}

DrainIsPublished ==
  /\ drain.at # "no" => worker.state = "draining"
  /\ drain.at \in Published /\ refresh.at \in {"publishing", "published"}
       => refresh.as = "draining"
  /\ refresh.at = "published" => heartbeat.state = refresh.as

KnownHeartbeat ==
  heartbeat.state = "ready" /\ heartbeat.heard =>
    /\ heartbeat.left <= worker.left
    /\ drain.at = "silence" => heartbeat.left <= drain.left

WindowRuns ==
  \A c \in Guests :
    /\ guest[c].at \in {"none", "routed", "claimed", "refused"} => ~guest[c].early
    /\ guest[c].at = "cut" => drain.at = "done"
    /\ guest[c].at = "live" /\ guest[c].early =>
         /\ drain.at = "waiting" => guest[c].age + drain.left >= DrainWindow
         /\ drain.at \in {"last", "over"} =>
              guest[c].age = DrainWindow /\ drain.reason = "deadline"

HeartbeatInv == DrainTypeOK /\ DrainIsPublished /\ KnownHeartbeat /\ HiddenWhenDrained
DrainInv == HeartbeatInv /\ WindowRuns /\ WindowIsGiven

WorkerRecord == [state : Postures, registered : BOOLEAN, left : 0..HeartbeatTtl]
RefreshRecord == [at : {"idle", "checking", "publishing", "published"}, as : Postures]
HeartbeatRecord == [state : Postures, left : 0..HeartbeatTtl, heard : BOOLEAN]
DrainRecord ==
  [at : {"no", "joining", "publishing", "silence", "waiting", "last", "over", "done"},
   left : 0..(HeartbeatTtl + DrainWindow), reason : {"empty", "deadline"}]
GuestRecord ==
  [at : {"none", "routed", "claimed", "live", "gone", "refused", "cut"},
   age : 0..DrainWindow, early : BOOLEAN]

-----------------------------------------------------------------------------
(* Typing *)

LEMMA DrainTypes ==
  ASSUME DrainTypeOK
  PROVE  /\ worker \in WorkerRecord /\ refresh \in RefreshRecord
         /\ heartbeat \in HeartbeatRecord /\ drain \in DrainRecord
         /\ guest \in [Guests -> GuestRecord]
BY DEF DrainTypeOK, WorkerRecord, RefreshRecord, HeartbeatRecord, DrainRecord, GuestRecord

LEMMA DrainTypesOf ==
  ASSUME worker' \in WorkerRecord, refresh' \in RefreshRecord,
         heartbeat' \in HeartbeatRecord, drain' \in DrainRecord,
         guest' \in [Guests -> GuestRecord]
  PROVE  DrainTypeOK'
BY DEF DrainTypeOK, WorkerRecord, RefreshRecord, HeartbeatRecord, DrainRecord, GuestRecord

LEMMA DrainBounds ==
  ASSUME DrainAssumption
  PROVE  /\ HeartbeatTtl \in Nat \ {0} /\ DrainWindow \in Nat \ {0}
         /\ 0..HeartbeatTtl \subseteq 0..(HeartbeatTtl + DrainWindow)
         /\ 0..DrainWindow \subseteq 0..(HeartbeatTtl + DrainWindow)
         /\ HeartbeatTtl \in 0..HeartbeatTtl /\ DrainWindow \in 0..DrainWindow
BY DEF DrainAssumption

\* What is left of a time is never more than it was.
LEMMA LessIsLess ==
  ASSUME NEW m \in Nat, NEW n \in 0..m
  PROVE  Less(n) \in 0..m /\ Less(n) <= n /\ (n # 0 => Less(n) = n - 1)
BY DEF Less

\* A refresh that ends leaves the drain where it was or takes it one step on.
LEMMA AfterRefreshCases ==
  ASSUME DrainTypeOK, NEW registered \in BOOLEAN, NEW left \in 0..HeartbeatTtl
  PROVE  \/ /\ drain.at = "joining"
            /\ AfterRefresh(registered, left) = [drain EXCEPT !.at = "publishing"]
         \/ /\ drain.at = "publishing" /\ ~registered /\ left > 0
            /\ AfterRefresh(registered, left) = [drain EXCEPT !.at = "silence", !.left = left]
         \/ /\ drain.at = "publishing" /\ (registered \/ left = 0)
            /\ AfterRefresh(registered, left)
                 = [drain EXCEPT !.at = "waiting", !.left = DrainWindow]
         \/ drain.at = "last" /\ AfterRefresh(registered, left) = [drain EXCEPT !.at = "over"]
         \/ /\ drain.at \in {"no", "silence", "waiting", "over", "done"}
            /\ AfterRefresh(registered, left) = drain
<1>1. drain.at \in {"no", "joining", "publishing", "silence", "waiting", "last", "over", "done"}
  BY DEF DrainTypeOK
<1>2. CASE drain.at = "joining"
  BY <1>2 DEF AfterRefresh
<1>3. CASE drain.at = "publishing" /\ ~registered /\ left > 0
  BY <1>3 DEF AfterRefresh
<1>4. CASE drain.at = "publishing" /\ (registered \/ left = 0)
  BY <1>4 DEF AfterRefresh
<1>5. CASE drain.at = "last"
  BY <1>5 DEF AfterRefresh
<1>6. CASE drain.at \in {"no", "silence", "waiting", "over", "done"}
  BY <1>6 DEF AfterRefresh
<1>7. QED
  BY <1>1, <1>2, <1>3, <1>4, <1>5, <1>6

LEMMA RefreshEndsTypes ==
  ASSUME DrainAssumption, DrainTypeOK, NEW registered \in BOOLEAN, NEW left \in 0..HeartbeatTtl,
         RefreshEnds(registered, left)
  PROVE  /\ worker' \in WorkerRecord /\ refresh' \in RefreshRecord
         /\ drain' \in DrainRecord /\ guest' \in [Guests -> GuestRecord]
<1>1. worker' \in WorkerRecord /\ refresh' \in RefreshRecord /\ guest' \in [Guests -> GuestRecord]
  BY DrainTypes DEF RefreshEnds, Checking, WorkerRecord, RefreshRecord
<1>2. drain' = AfterRefresh(registered, left)
  BY DEF RefreshEnds
<1>3. drain' \in DrainRecord
  <2>1. ASSUME NEW at \in {"publishing", "silence", "waiting", "over"},
               NEW n \in 0..(HeartbeatTtl + DrainWindow)
        PROVE  /\ [drain EXCEPT !.at = at, !.left = n] \in DrainRecord
               /\ [drain EXCEPT !.at = at] \in DrainRecord
    BY DrainTypes DEF DrainRecord
  <2>2. left \in 0..(HeartbeatTtl + DrainWindow) /\ DrainWindow \in 0..(HeartbeatTtl + DrainWindow)
    BY DrainBounds
  <2>3. QED
    BY ZenonT(40), <1>2, <2>1, <2>2, DrainTypes, AfterRefreshCases
<1>4. QED
  BY <1>1, <1>3

\* A call takes a step, and whether it was counted before the wait is decided at its start.
LEMMA GuestSteps ==
  ASSUME DrainTypeOK, NEW c \in Guests,
         Select(c) \/ Attach(c) \/ StartExecution(c) \/ CallEnds(c)
  PROVE  /\ UNCHANGED <<worker, refresh, heartbeat, drain>>
         /\ guest' \in [Guests -> GuestRecord]
         /\ \A x \in Guests \ {c} : guest'[x] = guest[x]
         /\ \/ /\ guest[c].at \in {"none", "routed"}
               /\ guest'[c].at \in {"routed", "claimed", "refused"}
               /\ guest'[c].early = guest[c].early
            \/ /\ guest'[c].at = "live"
               /\ guest'[c].early => drain.at \in {"no", "joining", "publishing", "silence"}
            \/ guest'[c].at = "gone"
<1>1. UNCHANGED <<worker, refresh, heartbeat, drain>>
  BY DEF Select, Attach, StartExecution, CallEnds, Moves
<1>2. guest[c] \in GuestRecord /\ guest \in [Guests -> GuestRecord]
  BY DrainTypes
<1>3. CASE Select(c)
  <2>1. guest' = [guest EXCEPT ![c] = [guest[c] EXCEPT !.at = "routed"]] /\ guest[c].at = "none"
    BY <1>3 DEF Select, Moves
  <2>2. [guest[c] EXCEPT !.at = "routed"] \in GuestRecord
    BY <1>2 DEF GuestRecord
  <2>3. QED
    BY <1>1, <1>2, <2>1, <2>2 DEF GuestRecord
<1>4. CASE Attach(c)
  <2>1. PICK at \in {"claimed", "refused"} :
          guest' = [guest EXCEPT ![c] = [guest[c] EXCEPT !.at = at]]
    BY <1>4 DEF Attach, Moves
  <2>2. [guest[c] EXCEPT !.at = at] \in GuestRecord /\ guest[c].at = "routed"
    BY <1>2, <1>4 DEF GuestRecord, Attach
  <2>3. QED
    BY <1>1, <1>2, <2>1, <2>2 DEF GuestRecord
<1>5. CASE StartExecution(c)
  <2> DEFINE before == drain.at \in {"no", "joining", "publishing", "silence"}
  <2>1. guest' = [guest EXCEPT ![c] = [guest[c] EXCEPT !.at = "live", !.early = before]]
    BY <1>5 DEF StartExecution, Moves
  <2>2. before \in BOOLEAN
    OBVIOUS
  <2> HIDE DEF before
  <2>3. [guest[c] EXCEPT !.at = "live", !.early = before] \in GuestRecord
    BY <1>2, <2>2 DEF GuestRecord
  <2>4. guest'[c].at = "live" /\ guest'[c].early = before
    BY <1>2, <2>1 DEF GuestRecord
  <2>5. QED
    BY <1>1, <1>2, <2>1, <2>3, <2>4 DEF before
<1>6. CASE CallEnds(c)
  <2>1. guest' = [guest EXCEPT ![c] = [guest[c] EXCEPT !.at = "gone"]]
    BY <1>6 DEF CallEnds, Moves
  <2>2. [guest[c] EXCEPT !.at = "gone"] \in GuestRecord
    BY <1>2 DEF GuestRecord
  <2>3. QED
    BY <1>1, <1>2, <2>1, <2>2 DEF GuestRecord
<1>7. QED
  BY <1>3, <1>4, <1>5, <1>6

LEMMA TypeKept ==
  ASSUME DrainAssumption, DrainTypeOK, [DrainNext]_drainVars
  PROVE  DrainTypeOK'
<1> USE DrainTypes, DrainTypesOf, DrainBounds
<1>1. CASE Tick
  <2>1. /\ worker' \in WorkerRecord /\ heartbeat' \in HeartbeatRecord
    BY <1>1, LessIsLess DEF Tick, WorkerRecord, HeartbeatRecord
  <2>2. drain' \in DrainRecord
    BY <1>1, LessIsLess DEF Tick, DrainRecord
  <2>3. guest' \in [Guests -> GuestRecord]
    BY <1>1 DEF Tick, GuestRecord
  <2>4. QED
    BY <1>1, <2>1, <2>2, <2>3 DEF Tick
<1>2. CASE RefreshBegins
  BY <1>2 DEF RefreshBegins, Checking, RefreshRecord
<1>3. CASE Checked
  BY <1>3 DEF Checked, WorkerRecord, RefreshRecord, Postures
<1>4. CASE PublishArrives
  BY <1>4 DEF PublishArrives, RefreshRecord, HeartbeatRecord
<1>5. CASE PublishAnswered
  <2>1. heartbeat' \in HeartbeatRecord
    BY <1>5 DEF PublishAnswered, HeartbeatRecord
  <2>2. QED
    BY <1>5, <2>1, RefreshEndsTypes DEF PublishAnswered
<1>6. CASE PublishFails
  <2>1. worker.left \in 0..HeartbeatTtl
    BY DEF WorkerRecord
  <2>2. QED
    BY <1>6, <2>1, RefreshEndsTypes DEF PublishFails
<1>7. CASE BeginDrain
  BY <1>7 DEF BeginDrain, Checking, WorkerRecord, RefreshRecord, DrainRecord, Postures
<1>8. CASE SilenceEnds
  BY <1>8 DEF SilenceEnds, DrainRecord
<1>9. CASE WaitEnds
  BY <1>9 DEF WaitEnds, Checking, RefreshRecord, DrainRecord
<1>10. CASE Shutdown
  <2>1. guest' \in [Guests -> GuestRecord]
    BY <1>10 DEF Shutdown, GuestRecord
  <2>2. drain' \in DrainRecord
    BY <1>10 DEF Shutdown, DrainRecord
  <2>3. QED
    BY <1>10, <2>1, <2>2 DEF Shutdown
<1>11. ASSUME NEW c \in Guests, Select(c) \/ Attach(c) \/ StartExecution(c) \/ CallEnds(c)
       PROVE  DrainTypeOK'
  BY <1>11, GuestSteps
<1>12. CASE UNCHANGED drainVars
  BY <1>12 DEF drainVars
<1>13. QED
  BY <1>1, <1>2, <1>3, <1>4, <1>5, <1>6, <1>7, <1>8, <1>9, <1>10, <1>11, <1>12 DEF DrainNext

-----------------------------------------------------------------------------
(* The heartbeat *)

\* The end of a refresh, when the worker knows what Redis holds or keeps what it knew.
LEMMA RefreshEndsHidden ==
  ASSUME DrainAssumption, HeartbeatInv, NEW registered \in BOOLEAN,
         NEW left \in 0..HeartbeatTtl, RefreshEnds(registered, left),
         refresh.at \in {"publishing", "published"}, heartbeat' \in HeartbeatRecord,
         heartbeat'.state = heartbeat.state, heartbeat'.left = heartbeat.left,
         heartbeat'.state = "ready" /\ heartbeat'.heard => heartbeat'.left <= left,
         registered => refresh.at = "published",
         drain.at \in Published /\ heartbeat.state = "ready" => heartbeat'.heard = heartbeat.heard
  PROVE  DrainIsPublished' /\ KnownHeartbeat' /\ HiddenWhenDrained'
<1>1. /\ worker' = [worker EXCEPT !.registered = registered, !.left = left]
      /\ drain' = AfterRefresh(registered, left)
      /\ refresh' = IF drain.at = "joining" THEN Checking ELSE [refresh EXCEPT !.at = "idle"]
  BY DEF RefreshEnds
<1>2. worker'.state = worker.state /\ worker'.left = left
  BY <1>1, DrainTypes DEF HeartbeatInv, WorkerRecord
<1>3. refresh'.at \in {"checking", "idle"}
  BY <1>1, DrainTypes DEF HeartbeatInv, RefreshRecord, Checking
<1>4. /\ drain'.at # "no" <=> drain.at # "no"
      /\ drain'.at = "silence" =>
           \/ drain.at = "silence" /\ drain'.left = drain.left
           \/ drain'.left = left
      /\ drain'.at \in {"waiting", "last", "over", "done"} =>
           \/ drain.at \in {"waiting", "last", "over", "done"}
           \/ drain.at = "publishing" /\ (registered \/ left = 0)
  BY ZenonT(40), <1>1, DrainTypes, AfterRefreshCases DEF HeartbeatInv, DrainRecord
<1>5. DrainIsPublished'
  BY <1>2, <1>3, <1>4 DEF HeartbeatInv, DrainIsPublished
<1>6. KnownHeartbeat'
  <2>1. drain.at = "silence" => drain.at \in Published
    BY DEF Published
  <2>2. QED
    BY <1>2, <1>4, <2>1 DEF HeartbeatInv, KnownHeartbeat
<1>7. HiddenWhenDrained'
  <2>1. registered /\ drain.at = "publishing" => heartbeat.state # "ready"
    BY DEF HeartbeatInv, DrainIsPublished, Published
  <2>2. left \in Nat /\ heartbeat'.left \in Nat
    BY DrainBounds DEF HeartbeatRecord
  <2>3. drain.at \in {"waiting", "last", "over", "done"} => drain.at \in Published
    BY DEF Published
  <2>4. QED
    BY <1>4, <2>1, <2>2, <2>3 DEF HeartbeatInv, HiddenWhenDrained
<1>8. QED
  BY <1>5, <1>6, <1>7

LEMMA HeartbeatKept ==
  ASSUME DrainAssumption, HeartbeatInv, [DrainNext]_drainVars
  PROVE  HeartbeatInv'
<1>1. DrainTypeOK'
  BY TypeKept DEF HeartbeatInv
<1> SUFFICES DrainIsPublished' /\ KnownHeartbeat' /\ HiddenWhenDrained'
  BY <1>1 DEF HeartbeatInv
<1>2. /\ worker \in WorkerRecord /\ refresh \in RefreshRecord
      /\ heartbeat \in HeartbeatRecord /\ drain \in DrainRecord
      /\ heartbeat' \in HeartbeatRecord
  BY <1>1, DrainTypes DEF HeartbeatInv, DrainTypeOK, HeartbeatRecord
<1>3. CASE Tick
  <2>1. /\ worker'.state = worker.state /\ worker'.left = Less(worker.left)
        /\ heartbeat'.state = heartbeat.state /\ heartbeat'.heard = heartbeat.heard
        /\ heartbeat'.left = Less(heartbeat.left)
        /\ drain'.at = drain.at /\ drain'.left = Less(drain.left) /\ refresh' = refresh
    BY <1>2, <1>3 DEF Tick, WorkerRecord, HeartbeatRecord, DrainRecord
  <2>2. worker.left \in Nat /\ heartbeat.left \in Nat /\ drain.left \in Nat
    BY <1>2, DrainBounds DEF WorkerRecord, HeartbeatRecord, DrainRecord
  <2>3. QED
    BY <2>1, <2>2
    DEF HeartbeatInv, DrainIsPublished, KnownHeartbeat, HiddenWhenDrained, Less
<1>4. CASE RefreshBegins
  BY <1>2, <1>4
  DEF RefreshBegins, Checking, RefreshRecord, HeartbeatInv, DrainIsPublished, KnownHeartbeat,
      HiddenWhenDrained
<1>5. CASE Checked
  <2>1. PICK fit \in BOOLEAN :
          LET state == IF worker.state = "starting" /\ fit THEN "ready" ELSE worker.state
              shown == IF state = "draining" \/ fit THEN state ELSE "starting"
          IN /\ worker' = [worker EXCEPT !.state = state]
             /\ refresh' = [at |-> "publishing", as |-> shown]
    BY <1>5 DEF Checked
  <2>2. /\ worker'.left = worker.left /\ refresh'.at = "publishing"
        /\ worker.state = "draining" => worker'.state = "draining" /\ refresh'.as = "draining"
    BY <1>2, <2>1 DEF WorkerRecord
  <2>3. UNCHANGED <<heartbeat, drain>>
    BY <1>5 DEF Checked
  <2>4. drain.at \in Published => drain.at # "no"
    BY DEF Published
  <2>5. QED
    BY <2>2, <2>3, <2>4
    DEF HeartbeatInv, DrainIsPublished, KnownHeartbeat, HiddenWhenDrained
<1>6. CASE PublishArrives
  <2>1. /\ refresh.at = "publishing" /\ refresh'.at = "published" /\ refresh'.as = refresh.as
        /\ heartbeat'.state = refresh.as /\ ~heartbeat'.heard /\ UNCHANGED <<worker, drain>>
    BY <1>2, <1>6 DEF PublishArrives, RefreshRecord
  <2>2. QED
    BY <2>1 DEF HeartbeatInv, DrainIsPublished, KnownHeartbeat, HiddenWhenDrained
<1>7. CASE PublishAnswered
  <2>1. /\ refresh.at = "published" /\ RefreshEnds(TRUE, HeartbeatTtl)
        /\ heartbeat'.state = heartbeat.state /\ heartbeat'.left = heartbeat.left
    BY <1>2, <1>7 DEF PublishAnswered, HeartbeatRecord
  <2>2. heartbeat'.left <= HeartbeatTtl /\ HeartbeatTtl \in 0..HeartbeatTtl
    BY <1>2, DrainBounds DEF HeartbeatRecord
  <2>3. drain.at \in Published => heartbeat.state # "ready"
    BY <2>1 DEF HeartbeatInv, DrainIsPublished
  <2>4. QED
    BY <1>2, <2>1, <2>2, <2>3, RefreshEndsHidden
<1>8. CASE PublishFails
  <2>1. worker.left \in 0..HeartbeatTtl /\ RefreshEnds(FALSE, worker.left)
        /\ refresh.at \in {"publishing", "published"} /\ heartbeat' = heartbeat
    BY <1>2, <1>8 DEF PublishFails, WorkerRecord
  <2>2. heartbeat.state = "ready" /\ heartbeat.heard => heartbeat.left <= worker.left
    BY DEF HeartbeatInv, KnownHeartbeat
  <2>3. QED
    BY <1>2, <2>1, <2>2, RefreshEndsHidden
<1>9. CASE BeginDrain
  <2>1. /\ worker'.state = "draining" /\ worker'.left = worker.left /\ UNCHANGED heartbeat
        /\ \/ refresh'.at = "checking" /\ drain'.at = "publishing"
           \/ refresh' = refresh /\ drain'.at = "joining"
    BY <1>2, <1>9 DEF BeginDrain, Checking, WorkerRecord, RefreshRecord, DrainRecord
  <2>2. QED
    BY <2>1
    DEF HeartbeatInv, DrainIsPublished, KnownHeartbeat, HiddenWhenDrained, Published
<1>10. CASE SilenceEnds
  <2>1. /\ drain.at = "silence" /\ drain.left = 0 /\ drain'.at = "waiting"
        /\ UNCHANGED <<worker, refresh, heartbeat>>
    BY <1>2, <1>10 DEF SilenceEnds, DrainRecord
  <2>2. heartbeat.left \in Nat
    BY <1>2, DrainBounds DEF HeartbeatRecord
  <2>3. QED
    BY <2>1, <2>2
    DEF HeartbeatInv, DrainIsPublished, KnownHeartbeat, HiddenWhenDrained, Published
<1>11. CASE WaitEnds
  <2>1. /\ drain.at = "waiting" /\ drain'.at = "last" /\ UNCHANGED <<worker, heartbeat>>
        /\ refresh' = refresh \/ refresh'.at = "checking"
    BY <1>2, <1>11 DEF WaitEnds, Checking, DrainRecord, RefreshRecord
  <2>2. QED
    BY <2>1
    DEF HeartbeatInv, DrainIsPublished, KnownHeartbeat, HiddenWhenDrained, Published
<1>12. CASE Shutdown
  <2>1. /\ drain.at = "over" /\ drain'.at = "done" /\ UNCHANGED <<worker, refresh, heartbeat>>
    BY <1>2, <1>12 DEF Shutdown, DrainRecord
  <2>2. QED
    BY <2>1
    DEF HeartbeatInv, DrainIsPublished, KnownHeartbeat, HiddenWhenDrained, Published
<1>13. CASE UNCHANGED <<worker, refresh, heartbeat, drain>>
  BY <1>13 DEF HeartbeatInv, DrainIsPublished, KnownHeartbeat, HiddenWhenDrained
<1>14. QED
  BY <1>3, <1>4, <1>5, <1>6, <1>7, <1>8, <1>9, <1>10, <1>11, <1>12, <1>13, GuestSteps
  DEF HeartbeatInv, DrainNext, drainVars

-----------------------------------------------------------------------------
(* The window *)

\* The calls stay as they are, and the drain goes on without cutting the window short.
LEMMA WindowKeptByDrain ==
  ASSUME DrainAssumption, DrainInv, guest' = guest,
         drain'.at = "waiting" =>
           \/ drain.at = "waiting" /\ drain'.left = drain.left
           \/ drain'.left = DrainWindow,
         drain'.at \in {"last", "over"} =>
           drain.at \in {"last", "over"} /\ drain'.reason = drain.reason,
         drain.at = "done" => drain'.at = "done" /\ drain'.reason = drain.reason
  PROVE  WindowRuns' /\ WindowIsGiven'
<1>1. \A c \in Guests : guest[c].age \in Nat
  BY DrainTypes, DrainBounds DEF DrainInv, HeartbeatInv, GuestRecord
<1>2. DrainWindow \in Nat
  BY DrainBounds
<1>3. WindowRuns'
  BY <1>1, <1>2 DEF DrainInv, WindowRuns
<1>4. WindowIsGiven'
  BY DEF DrainInv, WindowRuns, WindowIsGiven
<1>5. QED
  BY <1>3, <1>4

LEMMA WindowKept ==
  ASSUME DrainAssumption, DrainInv, [DrainNext]_drainVars
  PROVE  WindowRuns' /\ WindowIsGiven'
<1>1. /\ drain \in DrainRecord /\ guest \in [Guests -> GuestRecord]
      /\ worker \in WorkerRecord /\ DrainTypeOK
  BY DrainTypes DEF DrainInv, HeartbeatInv
<1>2. /\ drain.left \in Nat /\ DrainWindow \in Nat
      /\ \A c \in Guests : guest[c].age \in 0..DrainWindow
  BY <1>1, DrainBounds DEF DrainRecord, GuestRecord
<1>3. CASE Tick
  <2>1. drain'.at = drain.at /\ drain'.reason = drain.reason /\ drain'.left = Less(drain.left)
    BY <1>1, <1>3 DEF Tick, DrainRecord
  <2>2. ASSUME NEW c \in Guests
        PROVE  /\ guest'[c].at = guest[c].at /\ guest'[c].early = guest[c].early
               /\ guest'[c].age = IF guest[c].at = "live" /\ guest[c].age < DrainWindow
                                  THEN guest[c].age + 1 ELSE guest[c].age
    BY <1>1, <1>3 DEF Tick, GuestRecord
  <2>3. WindowRuns'
    BY <1>2, <2>1, <2>2 DEF DrainInv, WindowRuns, Less
  <2>4. WindowIsGiven'
    BY <2>1, <2>2 DEF DrainInv, WindowIsGiven
  <2>5. QED
    BY <2>3, <2>4
<1>4. CASE PublishAnswered \/ PublishFails
  <2>1. PICK registered \in BOOLEAN, left \in 0..HeartbeatTtl : RefreshEnds(registered, left)
    BY <1>1, <1>4, DrainBounds DEF PublishAnswered, PublishFails, WorkerRecord
  <2>2. drain' = AfterRefresh(registered, left) /\ guest' = guest
    BY <2>1 DEF RefreshEnds
  <2>3. /\ drain'.at = "waiting" =>
             \/ drain.at = "waiting" /\ drain'.left = drain.left
             \/ drain'.left = DrainWindow
        /\ drain'.at \in {"last", "over"} =>
             drain.at \in {"last", "over"} /\ drain'.reason = drain.reason
        /\ drain.at = "done" => drain'.at = "done" /\ drain'.reason = drain.reason
    BY <1>1, <2>2, AfterRefreshCases DEF DrainRecord
  <2>4. QED
    BY <2>2, <2>3, WindowKeptByDrain
<1>5. CASE BeginDrain \/ SilenceEnds
  <2>1. /\ guest' = guest
        /\ \/ drain'.at \in {"publishing", "joining"}
           \/ drain'.at = "waiting" /\ drain'.left = DrainWindow
        /\ drain.at # "done"
    BY <1>1, <1>5 DEF BeginDrain, SilenceEnds, DrainRecord
  <2>2. QED
    BY <2>1, WindowKeptByDrain
<1>6. CASE WaitEnds
  <2>1. /\ drain.at = "waiting" /\ drain'.at = "last" /\ guest' = guest
        /\ Live = {} \/ drain.left = 0
        /\ drain'.reason = IF Live = {} THEN "empty" ELSE "deadline"
    BY <1>1, <1>6 DEF WaitEnds, DrainRecord
  <2>2. ASSUME NEW c \in Guests, guest[c].at = "live", guest[c].early
        PROVE  guest[c].age = DrainWindow /\ drain'.reason = "deadline"
    <3>1. Live # {} /\ drain.left = 0
      BY <2>1, <2>2 DEF Live
    <3>2. guest[c].age + drain.left >= DrainWindow
      BY <2>1, <2>2 DEF DrainInv, WindowRuns
    <3>3. QED
      BY <1>2, <2>1, <3>1, <3>2
  <2>3. \A c \in Guests : guest[c].at # "cut"
    BY <2>1 DEF DrainInv, WindowRuns
  <2>4. QED
    BY <2>1, <2>2, <2>3 DEF DrainInv, WindowRuns, WindowIsGiven
<1>7. CASE Shutdown
  <2>1. drain.at = "over" /\ drain'.at = "done" /\ drain'.reason = drain.reason
    BY <1>1, <1>7 DEF Shutdown, DrainRecord
  <2>2. ASSUME NEW c \in Guests
        PROVE  /\ guest'[c].early = guest[c].early /\ guest'[c].age = guest[c].age
               /\ guest'[c].at = IF guest[c].at \in {"claimed", "live"} THEN "cut" ELSE guest[c].at
    BY <1>1, <1>7 DEF Shutdown, GuestRecord
  <2>3. WindowRuns'
    BY <2>1, <2>2 DEF DrainInv, WindowRuns
  <2>4. WindowIsGiven'
    BY <2>1, <2>2 DEF DrainInv, WindowRuns, WindowIsGiven
  <2>5. QED
    BY <2>3, <2>4
<1>8. ASSUME NEW c \in Guests, Select(c) \/ Attach(c) \/ StartExecution(c) \/ CallEnds(c)
      PROVE  WindowRuns' /\ WindowIsGiven'
  <2>1. /\ drain' = drain /\ \A x \in Guests \ {c} : guest'[x] = guest[x]
        /\ \/ /\ guest[c].at \in {"none", "routed"}
              /\ guest'[c].at \in {"routed", "claimed", "refused"}
              /\ guest'[c].early = guest[c].early
           \/ /\ guest'[c].at = "live"
              /\ guest'[c].early => drain.at \in {"no", "joining", "publishing", "silence"}
           \/ guest'[c].at = "gone"
    BY <1>1, <1>8, GuestSteps
  <2>2. QED
    BY <2>1 DEF DrainInv, WindowRuns, WindowIsGiven
<1>9. CASE UNCHANGED <<drain, guest>>
  BY <1>9 DEF DrainInv, WindowRuns, WindowIsGiven
<1>10. QED
  BY <1>3, <1>4, <1>5, <1>6, <1>7, <1>8, <1>9
  DEF DrainNext, RefreshBegins, Checked, PublishArrives, drainVars

-----------------------------------------------------------------------------
(* The theorems *)

\* The inductive invariant of the drain.
THEOREM DrainInvariant == DrainSpec => []DrainInv
<1>1. DrainInit => DrainInv
  <2> SUFFICES ASSUME DrainInit
               PROVE  DrainInv
    OBVIOUS
  <2>1. DrainTypeOK
    BY DrainAssumption, DrainBounds DEF DrainInit, DrainTypeOK, Postures
  <2>2. DrainIsPublished /\ KnownHeartbeat /\ HiddenWhenDrained
    BY DEF DrainInit, DrainIsPublished, KnownHeartbeat, HiddenWhenDrained, Published
  <2>3. WindowRuns /\ WindowIsGiven
    BY DEF DrainInit, WindowRuns, WindowIsGiven
  <2>4. QED
    BY <2>1, <2>2, <2>3 DEF DrainInv, HeartbeatInv
<1>2. DrainInv /\ [DrainNext]_drainVars => DrainInv'
  BY DrainAssumption, HeartbeatKept, WindowKept DEF DrainInv
<1>3. QED
  BY <1>1, <1>2, PTL DEF DrainSpec

\* Every variable keeps its type: nothing lasts longer than the life of a heartbeat and the
\* window together.
THEOREM DrainTypeCorrect == DrainSpec => []DrainTypeOK
<1>1. DrainInv => DrainTypeOK
  BY DEF DrainInv, HeartbeatInv
<1>2. QED
  BY <1>1, DrainInvariant, PTL

\* When the wait for the calls has begun, no process can choose the worker any more, but by
\* a "ready" that Redis took and the worker never heard of.
THEOREM DrainedIsHidden == DrainSpec => []HiddenWhenDrained
<1>1. DrainInv => HiddenWhenDrained
  BY DEF DrainInv, HeartbeatInv
<1>2. QED
  BY <1>1, DrainInvariant, PTL

\* A call that was counted before the wait began is cut only after the whole window.
THEOREM CountedCallsHaveTheWindow == DrainSpec => []WindowIsGiven
<1>1. DrainInv => WindowIsGiven
  BY DEF DrainInv
<1>2. QED
  BY <1>1, DrainInvariant, PTL

-----------------------------------------------------------------------------
(* The parts in one behaviour *)

\* A behaviour in which one of the parts moves is, seen by each of them, a behaviour of
\* that part alone: it takes steps of the part or stands still, and is as fair.  What a
\* part guarantees it guarantees here, and a run of them all checks each of them.
LEMMA PartsAreThemselves == MediaSpec => PremiumSpec /\ PlaybackSpec /\ LifecycleSpec /\ DrainSpec
<1>1. MediaInit => PremiumInit /\ PlaybackInit /\ LifecycleInit /\ DrainInit
  BY DEF MediaInit
<1>2. [MediaNext]_allVars => [PremiumNext]_premiumVars
  BY DEF MediaNext, allVars
<1>3. [MediaNext]_allVars => [PlaybackNext]_playbackVars
  BY DEF MediaNext, allVars
<1>4. [MediaNext]_allVars => [LifecycleNext]_lifecycleVars
  BY DEF MediaNext, allVars
<1>5. [MediaNext]_allVars => [DrainNext]_drainVars
  BY DEF MediaNext, allVars
<1>6. QED
  BY <1>1, <1>2, <1>3, <1>4, <1>5, PTL
     DEF MediaSpec, PremiumSpec, PlaybackSpec, LifecycleSpec, DrainSpec

\* Every variable of every part keeps its type, whichever part moves.
THEOREM PartsTypeCorrect == MediaSpec => []PartsTypeOK
<1>1. PremiumTypeOK /\ PlaybackTypeOK /\ LifecycleTypeOK /\ DrainTypeOK => PartsTypeOK
  BY DEF PartsTypeOK
<1>2. QED
  BY <1>1, PartsAreThemselves, PremiumTypeCorrect, PlaybackTyping, LifecycleTypeCorrect,
     DrainTypeCorrect, PTL

\* The safety properties of the parts, together: the counters of a playback agree with what
\* is on its way; what is submitted of a call agrees on its times and on whether it failed;
\* a call is released when it has ended; and a drained worker is hidden and gives the calls
\* it counted their window.
THEOREM PartsAreSafe ==
  MediaSpec => [](/\ PlaybackAccounts /\ SubmissionsAgree /\ ReleasedWhenEnded
                  /\ HiddenWhenDrained /\ WindowIsGiven)
BY PartsAreThemselves, PlaybackAccounted, SettlementsOfACallAgree, ReleaseFollowsEnd,
   DrainedIsHidden, CountedCallsHaveTheWindow, PTL

=============================================================================
