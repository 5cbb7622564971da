---------------------------- MODULE PremiumPlayback ----------------------------
(***************************************************************************)
(* What a premium call still has to play to its caller (telephony/pstn-    *)
(* premium-playback-controller.ts): every frame of a response, and the     *)
(* boundary behind its last one, is sent with a mark that Twilio returns   *)
(* when it was played; what may not be sent yet is queued, its bytes under *)
(* an admission that all calls of the worker share (pstn-premium-playback- *)
(* admission.ts).  Bytes are counted in frames.  A mark's generation is    *)
(* left out: interrupt() forgets the marks of the generation it ends.      *)
(***************************************************************************)
EXTENDS SequencesExt, FiniteSetsExt, Integers

CONSTANTS
  Responses,
  MarkLimit,        \* inFlightMarkLimit
  QueueLimit,       \* queuedAudioByteLimit, in frames
  ResidentLimit,    \* residentByteLimit of the shared admission, in frames
  ForgetLimit,      \* invalidatedResponseLimit
  MaxDelta,         \* bound: whole frames of a delta
  MaxFrames         \* bound: frames of a response

ASSUME PlaybackAssumption ==
  /\ {MarkLimit, ForgetLimit, MaxDelta, MaxFrames} \subseteq Nat \ {0}
  /\ {QueueLimit, ResidentLimit} \subseteq Nat
  /\ IsFiniteSet(Responses)    \* the responses of one call

VARIABLES
  play,       \* the controller of one call
  elsewhere   \* what the other calls hold of the shared admission

playbackVars == <<play, elsewhere>>

Untracked == [tracked |-> FALSE, outstanding |-> 0, finished |-> FALSE, boundary |-> FALSE]
Commands == [of : Responses, frame : BOOLEAN]

PlaybackTypeOK ==
  /\ play \in [responses : [Responses -> [tracked : BOOLEAN, outstanding : 0..MaxFrames,
                                          finished : BOOLEAN, boundary : BOOLEAN]],
               frames : [Responses -> 0..MarkLimit],    \* inFlightMarks, by kind
               ends : [Responses -> 0..MarkLimit],
               queue : Seq(Commands),
               own : 0..ResidentLimit,                  \* leases of the queued frames
               rest : SUBSET Responses,                 \* responses with a remainder
               invalid : Seq(Responses),
               failed : BOOLEAN]                        \* an operation threw: the call fails
  /\ elsewhere \in 0..ResidentLimit

PlaybackInit ==
  /\ play = [responses |-> [r \in Responses |-> Untracked], frames |-> [r \in Responses |-> 0],
             ends |-> [r \in Responses |-> 0], queue |-> <<>>, own |-> 0, rest |-> {},
             invalid |-> <<>>, failed |-> FALSE]
  /\ elsewhere = 0

Total(f) == SumFunctionOnSet(f, Responses)
InFlight(p) == Total(p.frames) + Total(p.ends)
\* How many commands of a queue are one of cs.
Count(queue, cs) == Cardinality({i \in DOMAIN queue : queue[i] \in cs})
Frame(r) == [of |-> r, frame |-> TRUE]
Boundary(r) == [of |-> r, frame |-> FALSE]
QueuedFrames(p) == Count(p.queue, {command \in Commands : command.frame})
Tracked(p, r) == p.responses[r].tracked
Invalid(p, r) == Contains(p.invalid, r)

-----------------------------------------------------------------------------
(* The helpers of the controller *)

\* rememberInvalidatedResponse, of one response after the other; the oldest are forgotten.
\* None of them is remembered already: what is, is not tracked.
Newest(s) == IF Len(s) > ForgetLimit THEN SubSeq(s, Len(s) - ForgetLimit + 1, Len(s)) ELSE s
Remember(p, order) == [p EXCEPT !.invalid = Newest(@ \o order)]

\* completeResponseIfAcknowledged
CompleteIfAcknowledged(p, r) ==
  LET response == p.responses[r] IN
  IF response.finished /\ response.boundary /\ response.outstanding = 0
  THEN Remember([p EXCEPT !.responses[r] = Untracked], <<r>>) ELSE p

\* sendCommand of n like commands, when the socket takes them.
SendCommand(p, command, n) ==
  IF command.frame THEN [p EXCEPT !.frames[command.of] = @ + n]
  ELSE [p EXCEPT !.ends[command.of] = @ + n]

\* How many of n commands have to be queued: nothing overtakes what is queued already.
Direct(p) == IF p.queue = <<>> THEN MarkLimit - InFlight(p) ELSE 0
Waiting(p, n) == IF n > Direct(p) THEN n - Direct(p) ELSE 0

\* acceptFrame and acceptBoundary of n like commands, when neither the admission nor the
\* socket refuses one.
Accept(p, command, n) ==
  LET waiting == Waiting(p, n) IN
  SendCommand([p EXCEPT !.queue = @ \o [i \in 1..waiting |-> command],
                        !.own = IF command.frame THEN @ + waiting ELSE @],
              command, n - waiting)

AcceptFrames(p, r, n) ==
  Accept([p EXCEPT !.responses[r].outstanding = @ + n], Frame(r), n)

\* assertQueueCapacity
HasRoom(p, n) == QueuedFrames(p) + Waiting(p, n) <= QueueLimit

\* Whether the shared admission takes what p holds.
Resident(p) == p.own + elsewhere <= ResidentLimit

\* drainQueuedFrames: the mark that came back makes room for one command.
Drain(p) ==
  IF InFlight(p) >= MarkLimit \/ p.queue = <<>> THEN p
  ELSE SendCommand([p EXCEPT !.queue = Tail(@), !.own = IF Head(p.queue).frame THEN @ - 1 ELSE @],
                   Head(p.queue), 1)

Ends(p) == play' = p /\ UNCHANGED elsewhere
\* The operation throws, half done, and the call is failed: nothing more is played.
Throws == play' = [play EXCEPT !.failed = TRUE] /\ UNCHANGED elsewhere
\* The operation ends with p, unless the admission or the socket refuses something.
EndsOrThrows(p) == (Resident(p) /\ Ends(p)) \/ Throws

-----------------------------------------------------------------------------
(* The operations *)

StartResponse(r) ==
  /\ ~play.failed
  /\ IF Invalid(play, r) THEN Throws ELSE EndsOrThrows([play EXCEPT !.responses[r].tracked = TRUE])

\* A delta completes n frames, the remainder of the one before included, and may leave a
\* remainder; one of a response that was invalidated is dropped, and one of a response
\* that is not (or no longer) known fails the call.
AppendDelta(r, n, rest) ==
  /\ ~play.failed
  /\ play.responses[r].outstanding + n <= MaxFrames - 1
  /\ IF Invalid(play, r) THEN UNCHANGED playbackVars
     ELSE IF ~Tracked(play, r) \/ ~HasRoom(play, n) THEN Throws
     ELSE EndsOrThrows([AcceptFrames(play, r, n) EXCEPT
                          !.rest = IF rest THEN @ \cup {r} ELSE @ \ {r}])

\* The remainder is played as a frame of its own, before the boundary.
FinishResponse(r) ==
  LET flushed == IF r \in play.rest THEN AcceptFrames([play EXCEPT !.rest = @ \ {r}], r, 1)
                 ELSE play
      finished == Accept([flushed EXCEPT !.responses[r].finished = TRUE], Boundary(r), 1)
  IN
  /\ ~play.failed
  /\ IF Invalid(play, r) \/ play.responses[r].finished THEN UNCHANGED playbackVars
     ELSE IF ~Tracked(play, r) \/ (r \in play.rest /\ ~HasRoom(play, 1)) THEN Throws
     ELSE EndsOrThrows(CompleteIfAcknowledged(finished, r))

\* A mark comes back, in whatever order.
AcknowledgeMark(r) ==
  /\ ~play.failed
  /\ \/ /\ play.frames[r] > 0
        /\ EndsOrThrows(Drain(CompleteIfAcknowledged(
             [play EXCEPT !.frames[r] = @ - 1, !.responses[r].outstanding = @ - 1], r)))
     \/ /\ play.ends[r] > 0
        /\ EndsOrThrows(Drain(CompleteIfAcknowledged(
             [play EXCEPT !.ends[r] = @ - 1, !.responses[r].boundary = TRUE], r)))

Forgotten(p) ==
  [p EXCEPT !.responses = [r \in Responses |-> Untracked], !.frames = [r \in Responses |-> 0],
            !.ends = [r \in Responses |-> 0], !.queue = <<>>, !.own = 0, !.rest = {}]

Mut_Interrupt ==
  /\ ~play.failed
  /\ \E order \in SetToSeqs({r \in Responses : Tracked(play, r)}) :
       Ends(Remember([Forgotten(play) EXCEPT !.own = play.own], order))
\* The caller speaks, or a Gemini call is handed over: nothing more of it is played.
Interrupt ==
  /\ ~play.failed
  /\ \E order \in SetToSeqs({r \in Responses : Tracked(play, r)}) :
       Ends(Remember(Forgotten(play), order))

\* The call is finalized, after a failure or at its end.
Dispose == Ends([Forgotten(play) EXCEPT !.failed = TRUE])

\* The other calls of the worker queue and play frames of theirs.
OthersPlay ==
  /\ elsewhere' \in {n \in 0..ResidentLimit : play.own + n <= ResidentLimit}
  /\ UNCHANGED play

PlaybackNext ==
  \/ \E r \in Responses :
       \/ StartResponse(r) \/ FinishResponse(r) \/ AcknowledgeMark(r)
       \/ \E n \in 0..MaxDelta, rest \in BOOLEAN : AppendDelta(r, n, rest)
  \/ Interrupt \/ Dispose \/ OthersPlay

PlaybackSpec == PlaybackInit /\ [][PlaybackNext]_playbackVars

-----------------------------------------------------------------------------
(* Properties *)

\* The counters of a call agree with what is on its way, so that it neither falls silent
\* nor keeps what it no longer plays: every frame a response still owes is in flight or
\* queued; when every mark has come back nothing is left in the queue and no finished
\* response waits for its completion (which a hand-over may be waiting for); and the
\* shared admission holds exactly the frames that are queued, whatever interrupted them.
PlaybackAccounts ==
  /\ play.own = QueuedFrames(play)
  /\ ~play.failed =>
       /\ \A r \in Responses :
            play.responses[r].outstanding = play.frames[r] + Count(play.queue, {Frame(r)})
       /\ InFlight(play) = 0 =>
            play.queue = <<>> /\ \A r \in Responses : ~play.responses[r].finished

=============================================================================
