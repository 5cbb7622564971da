------------------------ MODULE PremiumPlaybackProofs ------------------------
(***************************************************************************)
(* The accounts of the playback of a premium call, for any responses and   *)
(* limits.                                                                 *)
(*                                                                         *)
(* Accept and Drain only move commands between what is in flight and what  *)
(* is queued.  So the proof follows what is on its way of every command    *)
(* (OnItsWay) through the two, and the invariant says what a response owes *)
(* in those terms (Owes).                                                  *)
(***************************************************************************)
EXTENDS PremiumPlayback, SumTheorems, FunctionTheorems, SequenceTheorems

Response == [tracked : BOOLEAN, outstanding : Nat, finished : BOOLEAN, boundary : BOOLEAN]
Controller == [responses : [Responses -> Response], frames : [Responses -> Nat],
               ends : [Responses -> Nat], queue : Seq(Commands), own : Nat,
               rest : SUBSET Responses, invalid : Seq(Responses), failed : BOOLEAN]

\* Commands are queued only while as many marks are out as may be.
Backlog(p) == InFlight(p) <= MarkLimit /\ (p.queue # <<>> => InFlight(p) = MarkLimit)

InStep(p) == p \in Controller /\ p.own = QueuedFrames(p) /\ Backlog(p)

\* What is sent of a command, and what is sent or queued of it.
Sent(p, command) == IF command.frame THEN p.frames[command.of] ELSE p.ends[command.of]
OnItsWay(p, command) == Sent(p, command) + Count(p.queue, {command})

\* A response owes the frames that are on their way, and its boundary once it is finished.
Owes(p, r) ==
  /\ p.responses[r].outstanding = OnItsWay(p, Frame(r))
  /\ OnItsWay(p, Boundary(r)) =
       IF p.responses[r].finished /\ ~p.responses[r].boundary THEN 1 ELSE 0
  /\ p.responses[r].boundary => p.responses[r].finished /\ p.responses[r].outstanding > 0
  /\ p.responses[r].outstanding <= IF p.responses[r].finished THEN MaxFrames ELSE MaxFrames - 1
  /\ ~p.responses[r].tracked => p.responses[r] = Untracked

\* A response that is remembered as over is not played again.
NeverRevived(p) == \A r \in Responses : Tracked(p, r) => ~Invalid(p, r)

Balanced(p) == InStep(p) /\ (\A r \in Responses : Owes(p, r)) /\ NeverRevived(p)

PlaybackInv ==
  /\ Balanced(play)
  /\ elsewhere \in Nat /\ play.own + elsewhere <= ResidentLimit

-----------------------------------------------------------------------------
(* Counting in a queue *)

LEMMA CountIsNat ==
  ASSUME NEW D, NEW s \in Seq(D), NEW cs
  PROVE  /\ IsFiniteSet({i \in DOMAIN s : s[i] \in cs})
         /\ Count(s, cs) \in Nat
<1>1. DOMAIN s = 1..Len(s) /\ Len(s) \in Nat
  OBVIOUS
<1>2. IsFiniteSet(DOMAIN s)
  BY <1>1, FS_Interval
<1>3. IsFiniteSet({i \in DOMAIN s : s[i] \in cs})
  BY <1>2, FS_Subset
<1>4. QED
  BY <1>3, FS_CardinalityType DEF Count

LEMMA CountOfNone ==
  ASSUME NEW cs
  PROVE  Count(<<>>, cs) = 0
<1>1. {i \in DOMAIN <<>> : <<>>[i] \in cs} = {}
  OBVIOUS
<1>2. QED
  BY <1>1, FS_EmptySet DEF Count

LEMMA CountOfCopies ==
  ASSUME NEW command, NEW n \in Nat, NEW cs
  PROVE  Count([i \in 1..n |-> command], cs) = IF command \in cs THEN n ELSE 0
<1> DEFINE s == [i \in 1..n |-> command]
<1>1. CASE command \in cs
  <2>1. {i \in DOMAIN s : s[i] \in cs} = 1..n
    BY <1>1
  <2>2. Cardinality(1..n) = n
    BY FS_Interval
  <2>3. QED
    BY <1>1, <2>1, <2>2 DEF Count
<1>2. CASE command \notin cs
  <2>1. {i \in DOMAIN s : s[i] \in cs} = {}
    BY <1>2
  <2>2. QED
    BY <1>2, <2>1, FS_EmptySet DEF Count
<1>3. QED
  BY <1>1, <1>2

\* What two queues hold is what the one behind the other holds.
LEMMA CountOfConcat ==
  ASSUME NEW D, NEW s \in Seq(D), NEW t \in Seq(D), NEW cs
  PROVE  Count(s \o t, cs) = Count(s, cs) + Count(t, cs)
<1> DEFINE m == Len(s)
           n == Len(t)
           A == {i \in DOMAIN s : s[i] \in cs}
           B == {i \in DOMAIN t : t[i] \in cs}
           shifted == {i \in (m + 1)..(m + n) : t[i - m] \in cs}
           both == {i \in DOMAIN (s \o t) : (s \o t)[i] \in cs}
<1>1. /\ m \in Nat /\ n \in Nat /\ DOMAIN s = 1..m /\ DOMAIN t = 1..n
      /\ DOMAIN (s \o t) = 1..(m + n)
      /\ \A i \in 1..(m + n) : (s \o t)[i] = IF i <= m THEN s[i] ELSE t[i - m]
  OBVIOUS
<1>2. both = A \cup shifted /\ A \cap shifted = {}
  <2>1. \A i \in both : i \in A \cup shifted
    BY <1>1
  <2>2. \A i \in A : i \in both /\ i \notin shifted
    BY <1>1
  <2>3. \A i \in shifted : i \in both
    BY <1>1
  <2>4. QED
    BY <2>1, <2>2, <2>3
<1>3. IsFiniteSet(A) /\ IsFiniteSet(B)
  BY CountIsNat
<1>4. IsFiniteSet(shifted) /\ Cardinality(shifted) = Cardinality(B)
  <2> DEFINE f == [i \in B |-> i + m]
  <2>1. f \in Bijection(B, shifted)
    <3>1. f \in [B -> shifted]
      BY <1>1
    <3>2. \A i, j \in B : f[i] = f[j] => i = j
      BY <1>1
    <3>3. \A k \in shifted : \E i \in B : f[i] = k
      <4>1. ASSUME NEW k \in shifted
            PROVE  k - m \in B /\ f[k - m] = k
        BY <1>1
      <4>2. QED
        BY <4>1
    <3> HIDE DEF f
    <3>4. QED
      BY <3>1, <3>2, <3>3, Fun_IsBij
  <2>2. ExistsBijection(B, shifted)
    BY <2>1 DEF ExistsBijection
  <2> HIDE DEF shifted, B
  <2>3. QED
    BY <1>3, <2>2, FS_Bijection
<1> HIDE DEF A, B, shifted, both
<1>5. Cardinality(both) = Cardinality(A) + Cardinality(shifted) - Cardinality({})
  BY <1>2, <1>3, <1>4, FS_Union
<1>6. Cardinality({}) = 0 /\ Cardinality(A) \in Nat /\ Cardinality(shifted) \in Nat
  BY <1>3, <1>4, FS_EmptySet, FS_CardinalityType
<1>7. Cardinality(both) = Cardinality(A) + Cardinality(B)
  BY <1>4, <1>5, <1>6
<1>8. QED
  BY <1>7 DEF Count, A, B, both

-----------------------------------------------------------------------------
(* Commands that are sent and queued *)

LEMMA TotalIsNat ==
  ASSUME NEW f \in [Responses -> Nat]
  PROVE  Total(f) \in Nat
BY SumIsNat, PlaybackAssumption DEF Total

LEMMA TotalOfChange ==
  ASSUME NEW f \in [Responses -> Nat], NEW r \in Responses, NEW n \in Int, f[r] + n \in Nat
  PROVE  /\ [f EXCEPT ![r] = @ + n] \in [Responses -> Nat]
         /\ Total([f EXCEPT ![r] = @ + n]) = Total(f) + n
<1> DEFINE g == [f EXCEPT ![r] = @ + n]
<1>1. g \in [Responses -> Nat] /\ g[r] = f[r] + n /\ \A x \in Responses \ {r} : g[x] = f[x]
  OBVIOUS
<1> HIDE DEF g
<1>2. \A x \in Responses : f[x] \in Int /\ g[x] \in Int
  BY <1>1
<1>3. SumFunctionOnSet(g, Responses) = SumFunctionOnSet(f, Responses) - f[r] + g[r]
  BY <1>1, <1>2, PlaybackAssumption, SumOfChange
<1>4. Total(f) \in Nat /\ f[r] \in Nat
  BY TotalIsNat
<1>5. Total(g) = Total(f) + n
  BY <1>1, <1>3, <1>4 DEF Total
<1>6. QED
  BY <1>1, <1>5 DEF g

LEMMA InFlightIsNat ==
  ASSUME NEW p \in Controller
  PROVE  Total(p.frames) \in Nat /\ Total(p.ends) \in Nat /\ InFlight(p) \in Nat
<1>1. p.frames \in [Responses -> Nat] /\ p.ends \in [Responses -> Nat]
  BY DEF Controller
<1>2. QED
  BY <1>1, TotalIsNat DEF InFlight

LEMMA SendMoves ==
  ASSUME NEW p \in Controller, NEW command \in Commands, NEW n \in Nat
  PROVE  LET q == SendCommand(p, command, n) IN
         /\ q \in Controller
         /\ q.responses = p.responses /\ q.queue = p.queue /\ q.own = p.own
         /\ q.rest = p.rest /\ q.invalid = p.invalid /\ q.failed = p.failed
         /\ InFlight(q) = InFlight(p) + n
         /\ \A c \in Commands : Sent(q, c) = Sent(p, c) + (IF c = command THEN n ELSE 0)
<1>1. /\ p.frames \in [Responses -> Nat] /\ p.ends \in [Responses -> Nat]
      /\ command.of \in Responses /\ command.frame \in BOOLEAN
  BY DEF Controller, Commands
<1>2. Total(p.frames) \in Nat /\ Total(p.ends) \in Nat
  BY InFlightIsNat
<1> DEFINE q == SendCommand(p, command, n)
<1>3. CASE command.frame
  <2> DEFINE g == [p.frames EXCEPT ![command.of] = @ + n]
  <2>1. g \in [Responses -> Nat] /\ Total(g) = Total(p.frames) + n
    BY <1>1, TotalOfChange
  <2>2. /\ q.frames = g /\ q.ends = p.ends /\ q \in Controller
        /\ q.responses = p.responses /\ q.queue = p.queue /\ q.own = p.own
        /\ q.rest = p.rest /\ q.invalid = p.invalid /\ q.failed = p.failed
    BY <1>3, <2>1 DEF SendCommand, Controller
  <2>3. InFlight(q) = InFlight(p) + n
    <3> HIDE DEF g, q
    <3>1. QED
      BY <1>2, <2>1, <2>2 DEF InFlight
  <2>4. ASSUME NEW c \in Commands
        PROVE  Sent(q, c) = Sent(p, c) + (IF c = command THEN n ELSE 0)
    <3>1. c.of \in Responses /\ c.frame \in BOOLEAN /\ p.ends[c.of] \in Nat
      BY <1>1 DEF Commands
    <3>2. c.frame => (c = command <=> c.of = command.of)
      BY <1>3 DEF Commands
    <3>3. g[c.of] = p.frames[c.of] + (IF c.of = command.of THEN n ELSE 0)
      BY <1>1, <3>1
    <3>4. c = command => c.frame
      BY <1>3
    <3> HIDE DEF q, g
    <3>5. QED
      BY <2>2, <3>1, <3>2, <3>3, <3>4 DEF Sent
  <2>5. QED
    BY <2>2, <2>3, <2>4
<1>4. CASE ~command.frame
  <2> DEFINE g == [p.ends EXCEPT ![command.of] = @ + n]
  <2>1. g \in [Responses -> Nat] /\ Total(g) = Total(p.ends) + n
    BY <1>1, TotalOfChange
  <2>2. /\ q.frames = p.frames /\ q.ends = g /\ q \in Controller
        /\ q.responses = p.responses /\ q.queue = p.queue /\ q.own = p.own
        /\ q.rest = p.rest /\ q.invalid = p.invalid /\ q.failed = p.failed
    BY <1>4, <2>1 DEF SendCommand, Controller
  <2>3. InFlight(q) = InFlight(p) + n
    <3> HIDE DEF g, q
    <3>1. QED
      BY <1>2, <2>1, <2>2 DEF InFlight
  <2>4. ASSUME NEW c \in Commands
        PROVE  Sent(q, c) = Sent(p, c) + (IF c = command THEN n ELSE 0)
    <3>1. c.of \in Responses /\ c.frame \in BOOLEAN /\ p.frames[c.of] \in Nat
      BY <1>1 DEF Commands
    <3>2. ~c.frame => (c = command <=> c.of = command.of)
      BY <1>1, <1>4 DEF Commands
    <3>3. g[c.of] = p.ends[c.of] + (IF c.of = command.of THEN n ELSE 0)
      BY <1>1, <3>1
    <3>4. c = command => ~c.frame
      BY <1>4
    <3> HIDE DEF q, g
    <3>5. QED
      BY <2>2, <3>1, <3>2, <3>3, <3>4 DEF Sent
  <2>5. QED
    BY <2>2, <2>3, <2>4
<1>5. QED
  BY <1>1, <1>3, <1>4

\* The two of a queue that a lemma speaks of: its frames, and one command.
LEMMA Enqueued ==
  ASSUME NEW queue \in Seq(Commands), NEW command \in Commands, NEW n \in Nat
  PROVE  LET more == queue \o [i \in 1..n |-> command] IN
         /\ more \in Seq(Commands)
         /\ n > 0 => more # <<>>
         /\ n = 0 => more = queue
         /\ \A cs : Count(more, cs) = Count(queue, cs) + (IF command \in cs THEN n ELSE 0)
<1> DEFINE copies == [i \in 1..n |-> command]
<1>1. copies \in Seq(Commands) /\ Len(copies) = n
  OBVIOUS
<1>2. \A cs : Count(copies, cs) = IF command \in cs THEN n ELSE 0
  BY CountOfCopies
<1> HIDE DEF copies
<1>3. /\ queue \o copies \in Seq(Commands)
      /\ n > 0 => queue \o copies # <<>>
  BY <1>1
<1>4. n = 0 => queue \o copies = queue
  BY <1>1, EmptySeq, ConcatEmptySeq
<1>5. ASSUME NEW cs
      PROVE  Count(queue \o copies, cs) = Count(queue, cs) + (IF command \in cs THEN n ELSE 0)
  BY <1>1, <1>2, CountOfConcat
<1>6. QED
  BY <1>3, <1>4, <1>5 DEF copies

LEMMA Dequeued ==
  ASSUME NEW queue \in Seq(Commands), queue # <<>>
  PROVE  /\ Head(queue) \in Commands /\ Tail(queue) \in Seq(Commands)
         /\ \A cs : Count(queue, cs)
                      = (IF Head(queue) \in cs THEN 1 ELSE 0) + Count(Tail(queue), cs)
<1> DEFINE first == [i \in 1..1 |-> Head(queue)]
<1>1. Head(queue) \in Commands /\ Tail(queue) \in Seq(Commands)
  OBVIOUS
<1>2. first \in Seq(Commands) /\ Len(first) = 1 /\ first[1] = Head(queue)
  BY <1>1
<1>3. \A cs : Count(first, cs) = IF Head(queue) \in cs THEN 1 ELSE 0
  <2>1. \A n \in Nat : \A cs : Count([i \in 1..n |-> Head(queue)], cs)
                                 = IF Head(queue) \in cs THEN n ELSE 0
    BY CountOfCopies
  <2>2. 1 \in Nat
    OBVIOUS
  <2>3. QED
    BY <2>1, <2>2
<1> HIDE DEF first
<1>4. queue = first \o Tail(queue)
  <2> DEFINE rest == Tail(queue)
             all == first \o rest
  <2>1. /\ rest \in Seq(Commands) /\ Len(queue) \in Nat \ {0} /\ Len(rest) = Len(queue) - 1
        /\ \A i \in 1..Len(rest) : rest[i] = queue[i + 1]
        /\ queue[1] = Head(queue)
    BY HeadTailProperties, EmptySeq
  <2> HIDE DEF rest
  <2>2. /\ all \in Seq(Commands) /\ Len(all) = Len(first) + Len(rest)
        /\ \A i \in 1..(Len(first) + Len(rest)) :
             all[i] = IF i <= Len(first) THEN first[i] ELSE rest[i - Len(first)]
    BY <1>2, <2>1, ConcatProperties
  <2> HIDE DEF all
  <2>3. Len(all) = Len(queue)
    BY <1>2, <2>1, <2>2
  <2>4. ASSUME NEW i \in 1..Len(queue)
        PROVE  queue[i] = all[i]
    <3>1. CASE i = 1
      BY <1>2, <2>1, <2>2, <3>1
    <3>2. CASE i # 1
      <4>1. i - 1 \in 1..Len(rest) /\ (i - 1) + 1 = i
        BY <2>1, <3>2
      <4>2. rest[i - 1] = queue[i]
        BY <2>1, <4>1
      <4>3. all[i] = rest[i - 1]
        BY <1>2, <2>1, <2>2, <3>2
      <4>4. QED
        BY <4>2, <4>3
    <3>3. QED
      BY <3>1, <3>2
  <2>5. queue = all
    BY <2>2, <2>3, <2>4, SeqEqual
  <2>6. QED
    BY <2>5 DEF all, rest
<1>5. ASSUME NEW cs
      PROVE  Count(queue, cs) = (IF Head(queue) \in cs THEN 1 ELSE 0) + Count(Tail(queue), cs)
  <2>1. Count(first \o Tail(queue), cs) = Count(first, cs) + Count(Tail(queue), cs)
    BY <1>1, <1>2, CountOfConcat
  <2>2. QED
    BY <1>3, <1>4, <2>1
<1>6. QED
  BY <1>1, <1>5

AllFrames == {command \in Commands : command.frame}

\* What is accepted is on its way; the queue grows only when enough marks are out.
LEMMA AcceptMoves ==
  ASSUME NEW p, InStep(p), NEW command \in Commands, NEW n \in Nat
  PROVE  LET q == Accept(p, command, n) IN
         /\ InStep(q)
         /\ q.responses = p.responses /\ q.rest = p.rest
         /\ q.invalid = p.invalid /\ q.failed = p.failed
         /\ \A c \in Commands : OnItsWay(q, c) = OnItsWay(p, c) + (IF c = command THEN n ELSE 0)
<1> DEFINE w == Waiting(p, n)
           more == p.queue \o [i \in 1..w |-> command]
           own == IF command.frame THEN p.own + w ELSE p.own
           p1 == [p EXCEPT !.queue = more, !.own = own]
           q == SendCommand(p1, command, n - w)
<1>1. /\ p \in Controller /\ p.queue \in Seq(Commands) /\ p.own \in Nat
      /\ p.own = Count(p.queue, AllFrames) /\ Backlog(p)
      /\ command.frame \in BOOLEAN
  BY DEF InStep, Controller, QueuedFrames, AllFrames, Commands
<1>2. InFlight(p) \in Nat /\ MarkLimit \in Nat
  BY <1>1, InFlightIsNat, PlaybackAssumption
<1>3. /\ w \in Nat /\ n - w \in Nat
      /\ InFlight(p) + (n - w) <= MarkLimit
      /\ w > 0 => InFlight(p) + (n - w) = MarkLimit
      /\ p.queue # <<>> => n - w = 0
  <2> DEFINE out == InFlight(p)
             direct == Direct(p)
  <2>1. /\ out \in Nat /\ out <= MarkLimit
        /\ p.queue # <<>> => out = MarkLimit /\ direct = 0
        /\ p.queue = <<>> => direct = MarkLimit - out
    BY <1>1, <1>2 DEF Direct, Backlog
  <2>2. w = IF n > direct THEN n - direct ELSE 0
    BY DEF Waiting
  <2> HIDE DEF w, out, direct
  <2>3. direct \in Nat /\ out + direct = MarkLimit
    BY <1>2, <2>1
  <2>4. QED
    BY <1>2, <2>1, <2>2, <2>3 DEF out
<1> HIDE DEF w
<1>4. /\ more \in Seq(Commands)
      /\ w = 0 => more = p.queue
      /\ \A cs : Count(more, cs) = Count(p.queue, cs) + (IF command \in cs THEN w ELSE 0)
  BY <1>1, <1>3, Enqueued
<1> HIDE DEF more
<1>5. own = Count(more, AllFrames) /\ own \in Nat
  <2>1. command \in AllFrames <=> command.frame
    BY DEF AllFrames
  <2>2. QED
    BY <1>1, <1>3, <1>4, <2>1
<1> HIDE DEF own
<1>6. /\ p1 \in Controller /\ p1.queue = more /\ p1.own = own
      /\ p1.frames = p.frames /\ p1.ends = p.ends /\ p1.responses = p.responses
      /\ p1.rest = p.rest /\ p1.invalid = p.invalid /\ p1.failed = p.failed
  BY <1>1, <1>4, <1>5 DEF Controller
<1> HIDE DEF p1
<1>7. /\ q \in Controller /\ q.queue = more /\ q.own = own
      /\ q.responses = p.responses /\ q.rest = p.rest
      /\ q.invalid = p.invalid /\ q.failed = p.failed
      /\ InFlight(q) = InFlight(p) + (n - w)
      /\ \A c \in Commands : Sent(q, c) = Sent(p, c) + (IF c = command THEN n - w ELSE 0)
  <2>1. InFlight(p1) = InFlight(p) /\ \A c \in Commands : Sent(p1, c) = Sent(p, c)
    BY <1>6 DEF InFlight, Sent
  <2>2. n - w \in Nat
    BY <1>3
  <2> DEFINE m == n - w
  <2> HIDE DEF m
  <2>3. /\ q \in Controller
        /\ q.responses = p1.responses /\ q.queue = p1.queue /\ q.own = p1.own
        /\ q.rest = p1.rest /\ q.invalid = p1.invalid /\ q.failed = p1.failed
        /\ InFlight(q) = InFlight(p1) + m
        /\ \A c \in Commands : Sent(q, c) = Sent(p1, c) + (IF c = command THEN m ELSE 0)
    BY <1>6, <2>2, SendMoves DEF m
  <2> HIDE DEF q
  <2>4. QED
    BY <1>6, <2>1, <2>3 DEF m
<1>8. q = Accept(p, command, n)
  BY DEF Accept, q, p1, own, more, w
<1> HIDE DEF q
<1>9. InStep(q)
  <2>1. q.own = QueuedFrames(q)
    BY <1>5, <1>7 DEF QueuedFrames, AllFrames
  <2>2. Backlog(q)
    BY <1>1, <1>2, <1>3, <1>4, <1>7 DEF Backlog
  <2>3. QED
    BY <1>7, <2>1, <2>2 DEF InStep
<1>10. ASSUME NEW c \in Commands
       PROVE  OnItsWay(q, c) = OnItsWay(p, c) + (IF c = command THEN n ELSE 0)
  <2>1. Count(more, {c}) = Count(p.queue, {c}) + (IF c = command THEN w ELSE 0)
    BY <1>4
  <2>2. Count(p.queue, {c}) \in Nat
    BY <1>1, CountIsNat
  <2>3. Sent(p, c) \in Nat
    BY <1>1 DEF Sent, Controller, Commands
  <2>4. QED
    BY <1>3, <1>7, <2>1, <2>2, <2>3 DEF OnItsWay
<1>11. QED
  BY <1>7, <1>8, <1>9, <1>10

\* A mark that came back lets one queued command be sent; what is on its way is the same.
LEMMA DrainMoves ==
  ASSUME NEW p \in Controller, p.own = QueuedFrames(p),
         InFlight(p) <= MarkLimit, p.queue # <<>> => InFlight(p) >= MarkLimit - 1
  PROVE  LET q == Drain(p) IN
         /\ InStep(q)
         /\ q.responses = p.responses /\ q.rest = p.rest
         /\ q.invalid = p.invalid /\ q.failed = p.failed
         /\ \A c \in Commands : OnItsWay(q, c) = OnItsWay(p, c)
<1>1. /\ p.queue \in Seq(Commands) /\ p.own \in Nat /\ p.own = Count(p.queue, AllFrames)
      /\ InFlight(p) \in Nat /\ MarkLimit \in Nat
  BY InFlightIsNat, PlaybackAssumption DEF Controller, QueuedFrames, AllFrames
<1>2. CASE InFlight(p) >= MarkLimit \/ p.queue = <<>>
  <2>1. Drain(p) = p
    BY <1>2 DEF Drain
  <2>2. InStep(p)
    BY <1>1, <1>2 DEF InStep, Backlog
  <2>3. QED
    BY <2>1, <2>2
<1>3. CASE InFlight(p) < MarkLimit /\ p.queue # <<>>
  <2> DEFINE command == Head(p.queue)
             less == Tail(p.queue)
             own == IF command.frame THEN p.own - 1 ELSE p.own
             p1 == [p EXCEPT !.queue = less, !.own = own]
             q == SendCommand(p1, command, 1)
  <2>1. /\ command \in Commands /\ less \in Seq(Commands)
        /\ \A cs : Count(p.queue, cs) = (IF command \in cs THEN 1 ELSE 0) + Count(less, cs)
    BY <1>1, <1>3, Dequeued
  <2>2. q = Drain(p)
    BY <1>1, <1>3 DEF Drain
  <2> HIDE DEF command, less
  <2>3. own = Count(less, AllFrames) /\ own \in Nat
    <3>1. command \in AllFrames <=> command.frame
      BY <2>1 DEF AllFrames
    <3>2. Count(less, AllFrames) \in Nat
      BY <2>1, CountIsNat
    <3>3. QED
      BY <1>1, <2>1, <3>1, <3>2
  <2> HIDE DEF own
  <2>4. /\ p1 \in Controller /\ p1.queue = less /\ p1.own = own
        /\ p1.frames = p.frames /\ p1.ends = p.ends /\ p1.responses = p.responses
        /\ p1.rest = p.rest /\ p1.invalid = p.invalid /\ p1.failed = p.failed
    BY <2>1, <2>3 DEF Controller
  <2> HIDE DEF p1
  <2>5. /\ q \in Controller
        /\ q.responses = p1.responses /\ q.queue = p1.queue /\ q.own = p1.own
        /\ q.rest = p1.rest /\ q.invalid = p1.invalid /\ q.failed = p1.failed
        /\ InFlight(q) = InFlight(p1) + 1
        /\ \A c \in Commands : Sent(q, c) = Sent(p1, c) + (IF c = command THEN 1 ELSE 0)
    BY <2>1, <2>4, SendMoves
  <2> HIDE DEF q
  <2>6. InFlight(p1) = InFlight(p) /\ \A c \in Commands : Sent(p1, c) = Sent(p, c)
    BY <2>4 DEF InFlight, Sent
  <2>7. InStep(q)
    <3>1. q.own = QueuedFrames(q)
      BY <2>3, <2>4, <2>5 DEF QueuedFrames, AllFrames
    <3>2. InFlight(q) = MarkLimit
      BY <1>1, <1>3, <2>5, <2>6
    <3>3. QED
      BY <1>1, <2>5, <3>1, <3>2 DEF InStep, Backlog
  <2>8. ASSUME NEW c \in Commands
        PROVE  OnItsWay(q, c) = OnItsWay(p, c)
    <3>1. Count(p.queue, {c}) = (IF c = command THEN 1 ELSE 0) + Count(less, {c})
      BY <2>1
    <3>2. Count(less, {c}) \in Nat
      BY <2>1, CountIsNat
    <3>3. Sent(p, c) \in Nat
      BY DEF Sent, Controller, Commands
    <3>4. Sent(q, c) = Sent(p, c) + (IF c = command THEN 1 ELSE 0) /\ q.queue = less
      BY <2>4, <2>5, <2>6
    <3>5. QED
      BY <3>1, <3>2, <3>3, <3>4 DEF OnItsWay
  <2>9. QED
    BY <2>2, <2>4, <2>5, <2>7, <2>8
<1>4. QED
  BY <1>1, <1>2, <1>3

-----------------------------------------------------------------------------
(* Responses that are over *)

LEMMA NewestKept ==
  ASSUME NEW s \in Seq(Responses)
  PROVE  /\ Newest(s) \in Seq(Responses)
         /\ \A r \in Responses : Contains(Newest(s), r) => Contains(s, r)
<1>1. /\ Len(s) \in Nat /\ ForgetLimit \in Nat
      /\ \A i \in 1..Len(s) : s[i] \in Responses
  BY PlaybackAssumption
<1>2. CASE Len(s) > ForgetLimit
  <2> DEFINE m == Len(s) - ForgetLimit + 1
             last == SubSeq(s, m, Len(s))
  <2>1. m \in Int /\ m >= 1 /\ m <= Len(s) + 1
    BY <1>1, <1>2
  <2>2. \A i \in m..Len(s) : s[i] \in Responses
    BY <1>1, <2>1
  <2> HIDE DEF m
  <2>3. /\ last \in Seq(Responses)
        /\ Len(last) = IF m <= Len(s) THEN Len(s) - m + 1 ELSE 0
        /\ \A i \in 1..(Len(s) - m + 1) : last[i] = s[m + i - 1]
    BY <1>1, <2>1, <2>2, SubSeqProperties
  <2> HIDE DEF last
  <2>4. ASSUME NEW r \in Responses, NEW i \in 1..Len(last), last[i] = r
        PROVE  m + i - 1 \in 1..Len(s) /\ s[m + i - 1] = r
    BY <1>1, <2>1, <2>3, <2>4
  <2>5. \A r \in Responses : Contains(last, r) => Contains(s, r)
    BY <2>4 DEF Contains
  <2>6. Newest(s) = last
    BY <1>2 DEF Newest, last, m
  <2>7. QED
    BY <2>3, <2>5, <2>6
<1>3. CASE ~(Len(s) > ForgetLimit)
  BY <1>3 DEF Newest
<1>4. QED
  BY <1>2, <1>3

LEMMA ContainsEither ==
  ASSUME NEW s \in Seq(Responses), NEW t \in Seq(Responses), NEW r \in Responses,
         Contains(s \o t, r)
  PROVE  Contains(s, r) \/ Contains(t, r)
<1>1. /\ Len(s) \in Nat /\ Len(t) \in Nat /\ Len(s \o t) = Len(s) + Len(t)
      /\ \A i \in 1..(Len(s) + Len(t)) :
           (s \o t)[i] = IF i <= Len(s) THEN s[i] ELSE t[i - Len(s)]
  BY ConcatProperties, LenProperties
<1>2. PICK i \in 1..(Len(s) + Len(t)) : (s \o t)[i] = r
  BY <1>1 DEF Contains
<1>3. CASE i <= Len(s)
  <2>1. i \in 1..Len(s) /\ s[i] = r
    BY <1>1, <1>2, <1>3
  <2>2. QED
    BY <2>1 DEF Contains
<1>4. CASE ~(i <= Len(s))
  <2>1. i - Len(s) \in 1..Len(t) /\ t[i - Len(s)] = r
    BY <1>1, <1>2, <1>4
  <2>2. QED
    BY <2>1 DEF Contains
<1>5. QED
  BY <1>3, <1>4

LEMMA Remembered ==
  ASSUME NEW s \in Seq(Responses), NEW t \in Seq(Responses)
  PROVE  /\ Newest(s \o t) \in Seq(Responses)
         /\ \A r \in Responses : Contains(Newest(s \o t), r) => Contains(s, r) \/ Contains(t, r)
<1>1. s \o t \in Seq(Responses)
  OBVIOUS
<1>2. QED
  BY <1>1, NewestKept, ContainsEither

Over(p, r) ==
  p.responses[r].finished /\ p.responses[r].boundary /\ p.responses[r].outstanding = 0

LEMMA UntrackedIsResponse == Untracked \in Response
BY DEF Untracked, Response

LEMMA CompletionForgets ==
  ASSUME NEW p \in Controller, NEW r \in Responses
  PROVE  LET q == CompleteIfAcknowledged(p, r) IN
         /\ q \in Controller
         /\ q.frames = p.frames /\ q.ends = p.ends /\ q.queue = p.queue /\ q.own = p.own
         /\ q.rest = p.rest /\ q.failed = p.failed
         /\ q.responses = IF Over(p, r) THEN [p.responses EXCEPT ![r] = Untracked] ELSE p.responses
         /\ q.invalid = IF Over(p, r) THEN Newest(p.invalid \o <<r>>) ELSE p.invalid
<1>1. CASE Over(p, r)
  <2> DEFINE inv == Newest(p.invalid \o <<r>>)
             resp == [p.responses EXCEPT ![r] = Untracked]
             p1 == [p EXCEPT !.responses = resp]
             q == [p1 EXCEPT !.invalid = inv]
  <2>1. inv \in Seq(Responses)
    <3>1. <<r>> \in Seq(Responses) /\ p.invalid \in Seq(Responses)
      BY DEF Controller
    <3>2. QED
      BY <3>1, Remembered
  <2>2. resp \in [Responses -> Response]
    BY UntrackedIsResponse DEF Controller
  <2>3. CompleteIfAcknowledged(p, r) = q
    BY <1>1 DEF CompleteIfAcknowledged, Remember, Over, Controller
  <2> HIDE DEF inv, resp
  <2>4. /\ q \in Controller
        /\ q.frames = p.frames /\ q.ends = p.ends /\ q.queue = p.queue /\ q.own = p.own
        /\ q.rest = p.rest /\ q.failed = p.failed /\ q.responses = resp /\ q.invalid = inv
    BY <2>1, <2>2 DEF Controller
  <2> HIDE DEF q
  <2>5. QED
    BY <1>1, <2>3, <2>4 DEF inv, resp
<1>2. CASE ~Over(p, r)
  BY <1>2 DEF CompleteIfAcknowledged, Over
<1>3. QED
  BY <1>1, <1>2

\* A change to the record of one response.
LEMMA Responded ==
  ASSUME NEW p \in Controller, NEW r \in Responses, NEW x \in Response
  PROVE  LET q == [p EXCEPT !.responses[r] = x] IN
         /\ q \in Controller
         /\ q.frames = p.frames /\ q.ends = p.ends /\ q.queue = p.queue /\ q.own = p.own
         /\ q.rest = p.rest /\ q.invalid = p.invalid /\ q.failed = p.failed
         /\ q.responses[r] = x
         /\ \A o \in Responses \ {r} : q.responses[o] = p.responses[o]
         /\ InFlight(q) = InFlight(p)
         /\ InStep(p) => InStep(q)
         /\ \A c \in Commands : OnItsWay(q, c) = OnItsWay(p, c)
<1> DEFINE q == [p EXCEPT !.responses[r] = x]
<1>1. /\ q \in Controller
      /\ q.frames = p.frames /\ q.ends = p.ends /\ q.queue = p.queue /\ q.own = p.own
      /\ q.rest = p.rest /\ q.invalid = p.invalid /\ q.failed = p.failed
      /\ q.responses[r] = x
      /\ \A o \in Responses \ {r} : q.responses[o] = p.responses[o]
  BY DEF Controller
<1> HIDE DEF q
<1>2. InFlight(q) = InFlight(p) /\ QueuedFrames(q) = QueuedFrames(p)
  BY <1>1 DEF InFlight, QueuedFrames
<1>3. InStep(p) => InStep(q)
  BY <1>1, <1>2 DEF InStep, Backlog
<1>4. \A c \in Commands : OnItsWay(q, c) = OnItsWay(p, c)
  BY <1>1 DEF OnItsWay, Sent
<1>5. QED
  BY <1>1, <1>2, <1>3, <1>4 DEF q

-----------------------------------------------------------------------------
(* The operations *)

LEMMA CommandsOf ==
  ASSUME NEW r \in Responses
  PROVE  /\ Frame(r) \in Commands /\ Boundary(r) \in Commands /\ Frame(r) # Boundary(r)
         /\ Frame(r).frame /\ Frame(r).of = r /\ ~Boundary(r).frame /\ Boundary(r).of = r
         /\ \A o \in Responses \ {r} : Frame(o) # Frame(r) /\ Boundary(o) # Boundary(r)
BY DEF Frame, Boundary, Commands

LEMMA OnItsWayIsNat ==
  ASSUME NEW p \in Controller, NEW c \in Commands
  PROVE  /\ OnItsWay(p, c) \in Nat /\ Sent(p, c) \in Nat /\ Sent(p, c) <= OnItsWay(p, c)
<1>1. Count(p.queue, {c}) \in Nat
  <2>1. p.queue \in Seq(Commands)
    BY DEF Controller
  <2>2. QED
    BY <2>1, CountIsNat
<1>2. Sent(p, c) \in Nat
  BY DEF Sent, Controller, Commands
<1>3. QED
  BY <1>1, <1>2 DEF OnItsWay

\* What a response owes depends on its record and on what is on its way of it.
LEMMA StillOwes ==
  ASSUME NEW p, NEW q, NEW o \in Responses, Owes(p, o),
         q.responses[o] = p.responses[o],
         OnItsWay(q, Frame(o)) = OnItsWay(p, Frame(o)),
         OnItsWay(q, Boundary(o)) = OnItsWay(p, Boundary(o))
  PROVE  Owes(q, o)
BY DEF Owes

LEMMA StartKeeps ==
  ASSUME NEW p, Balanced(p), NEW r \in Responses, ~Invalid(p, r)
  PROVE  Balanced([p EXCEPT !.responses[r].tracked = TRUE])
<1> DEFINE x == [p.responses[r] EXCEPT !.tracked = TRUE]
           q == [p EXCEPT !.responses[r] = x]
<1>1. p \in Controller /\ InStep(p) /\ p.responses[r] \in Response
  BY DEF Balanced, InStep, Controller
<1>2. /\ x \in Response /\ x.tracked /\ x.outstanding = p.responses[r].outstanding
      /\ x.finished = p.responses[r].finished /\ x.boundary = p.responses[r].boundary
  BY <1>1 DEF Response
<1>3. q = [p EXCEPT !.responses[r].tracked = TRUE]
  OBVIOUS
<1> HIDE DEF x
<1>4. /\ InStep(q) /\ q.invalid = p.invalid
      /\ q.responses[r] = x
      /\ \A o \in Responses \ {r} : q.responses[o] = p.responses[o]
      /\ \A c \in Commands : OnItsWay(q, c) = OnItsWay(p, c)
  BY <1>1, <1>2, Responded
<1> HIDE DEF q
<1>5. ASSUME NEW o \in Responses
      PROVE  Owes(q, o)
  <2>1. /\ Owes(p, o) /\ OnItsWay(q, Frame(o)) = OnItsWay(p, Frame(o))
        /\ OnItsWay(q, Boundary(o)) = OnItsWay(p, Boundary(o))
    BY <1>4, CommandsOf DEF Balanced
  <2>2. CASE o # r
    BY <1>4, <2>1, <2>2, StillOwes
  <2>3. CASE o = r
    BY <1>2, <1>4, <2>1, <2>3 DEF Owes
  <2>4. QED
    BY <2>2, <2>3
<1>6. NeverRevived(q)
  BY <1>4 DEF Balanced, NeverRevived, Tracked, Invalid
<1>7. QED
  BY <1>3, <1>4, <1>5, <1>6 DEF Balanced

\* n frames of a response are accepted: it owes them, and they are on their way.
Gained(p, q, r, n) ==
  /\ InStep(q) /\ q.invalid = p.invalid /\ q.failed = p.failed
  /\ \A o \in Responses \ {r} : q.responses[o] = p.responses[o]
  /\ q.responses[r] = [p.responses[r] EXCEPT !.outstanding = @ + n]
  /\ \A c \in Commands : OnItsWay(q, c) = OnItsWay(p, c) + (IF c = Frame(r) THEN n ELSE 0)

LEMMA FramesAccepted ==
  ASSUME NEW p, InStep(p), NEW r \in Responses, NEW n \in Nat
  PROVE  Gained(p, AcceptFrames(p, r, n), r, n)
<1> DEFINE x == [p.responses[r] EXCEPT !.outstanding = @ + n]
           p1 == [p EXCEPT !.responses[r] = x]
           q == Accept(p1, Frame(r), n)
<1>1. p \in Controller /\ p.responses[r] \in Response
  BY DEF InStep, Controller
<1>2. x \in Response
  BY <1>1 DEF Response
<1>3. q = AcceptFrames(p, r, n)
  BY DEF AcceptFrames
<1> HIDE DEF x
<1>4. /\ InStep(p1) /\ p1.rest = p.rest /\ p1.invalid = p.invalid /\ p1.failed = p.failed
      /\ p1.responses[r] = x
      /\ \A o \in Responses \ {r} : p1.responses[o] = p.responses[o]
      /\ \A c \in Commands : OnItsWay(p1, c) = OnItsWay(p, c)
  BY <1>1, <1>2, Responded
<1> HIDE DEF p1
<1>5. /\ InStep(q)
      /\ q.responses = p1.responses /\ q.rest = p1.rest
      /\ q.invalid = p1.invalid /\ q.failed = p1.failed
      /\ \A c \in Commands : OnItsWay(q, c) = OnItsWay(p1, c) + (IF c = Frame(r) THEN n ELSE 0)
  BY <1>4, CommandsOf, AcceptMoves
<1> HIDE DEF q
<1>6. QED
  BY <1>3, <1>4, <1>5 DEF Gained, x

LEMMA AppendKeeps ==
  ASSUME NEW p, Balanced(p), NEW r \in Responses, NEW n \in Nat, NEW rest \in SUBSET Responses,
         p.responses[r].outstanding + n <= MaxFrames - 1, Tracked(p, r)
  PROVE  Balanced([AcceptFrames(p, r, n) EXCEPT !.rest = rest])
<1> DEFINE p1 == AcceptFrames(p, r, n)
           q == [p1 EXCEPT !.rest = rest]
<1>1. InStep(p) /\ p \in Controller /\ p.responses[r] \in Response
  BY DEF Balanced, InStep, Controller
<1>2. /\ InStep(p1) /\ p1.invalid = p.invalid
      /\ \A o \in Responses \ {r} : p1.responses[o] = p.responses[o]
      /\ p1.responses[r] = [p.responses[r] EXCEPT !.outstanding = @ + n]
      /\ \A c \in Commands : OnItsWay(p1, c) = OnItsWay(p, c) + (IF c = Frame(r) THEN n ELSE 0)
  BY <1>1, FramesAccepted DEF Gained
<1> HIDE DEF p1
<1>3. /\ q \in Controller /\ q.responses = p1.responses /\ q.invalid = p1.invalid
      /\ q.queue = p1.queue /\ q.frames = p1.frames /\ q.ends = p1.ends /\ q.own = p1.own
  BY <1>2 DEF InStep, Controller
<1> HIDE DEF q
<1>4. InStep(q) /\ \A c \in Commands : OnItsWay(q, c) = OnItsWay(p1, c)
  BY <1>2, <1>3 DEF InStep, QueuedFrames, Backlog, InFlight, OnItsWay, Sent
<1>5. ASSUME NEW o \in Responses
      PROVE  Owes(q, o)
  <2>1. /\ Frame(o) \in Commands /\ Boundary(o) \in Commands /\ Owes(p, o)
        /\ Boundary(o) # Frame(r)
        /\ OnItsWay(p, Frame(o)) \in Nat /\ OnItsWay(p, Boundary(o)) \in Nat
    BY <1>1, CommandsOf, OnItsWayIsNat DEF Balanced, Frame, Boundary
  <2>2. CASE o # r
    <3>1. Frame(o) # Frame(r)
      BY <2>2, CommandsOf
    <3>2. QED
      BY <1>2, <1>3, <1>4, <2>1, <2>2, <3>1, StillOwes
  <2>3. CASE o = r
    <3>1. /\ q.responses[r].outstanding = p.responses[r].outstanding + n
          /\ q.responses[r].finished = p.responses[r].finished
          /\ q.responses[r].boundary = p.responses[r].boundary
          /\ q.responses[r].tracked
      BY <1>1, <1>2, <1>3 DEF Response, Tracked
    <3>2. /\ OnItsWay(q, Frame(r)) = OnItsWay(p, Frame(r)) + n
          /\ OnItsWay(q, Boundary(r)) = OnItsWay(p, Boundary(r))
      BY <1>2, <1>4, <2>1, <2>3
    <3>3. p.responses[r].outstanding \in Nat /\ MaxFrames \in Nat
      BY <1>1, PlaybackAssumption DEF Response
    <3>4. QED
      BY <2>1, <2>3, <3>1, <3>2, <3>3 DEF Owes
  <2>4. QED
    BY <2>2, <2>3
<1>6. NeverRevived(q)
  <2>1. \A o \in Responses : q.responses[o].tracked => p.responses[o].tracked
    BY <1>1, <1>2, <1>3 DEF Tracked, Response
  <2>2. QED
    BY <1>2, <1>3, <2>1 DEF Balanced, NeverRevived, Tracked, Invalid
<1>7. QED
  BY <1>4, <1>5, <1>6 DEF Balanced, q, p1

Flushed(p, r) == IF r \in p.rest THEN AcceptFrames([p EXCEPT !.rest = @ \ {r}], r, 1) ELSE p

\* The remainder of a response, if it has one, is a frame of its own.
LEMMA RemainderFlushed ==
  ASSUME NEW p, InStep(p), NEW r \in Responses
  PROVE  \E k \in {0, 1} : Gained(p, Flushed(p, r), r, k)
<1>1. p \in Controller /\ p.responses[r] \in Response
  BY DEF InStep, Controller
<1>2. CASE r \notin p.rest
  <2>1. p.responses[r] = [p.responses[r] EXCEPT !.outstanding = @ + 0]
    BY <1>1 DEF Response
  <2>2. \A c \in Commands : OnItsWay(p, c) = OnItsWay(p, c) + (IF c = Frame(r) THEN 0 ELSE 0)
    BY <1>1, OnItsWayIsNat
  <2>3. Gained(p, p, r, 0)
    BY <2>1, <2>2 DEF Gained
  <2>4. QED
    BY <1>2, <2>3 DEF Flushed
<1>3. CASE r \in p.rest
  <2> DEFINE p1 == [p EXCEPT !.rest = @ \ {r}]
             f == AcceptFrames(p1, r, 1)
  <2>1. /\ p1 \in Controller /\ p1.responses = p.responses /\ p1.invalid = p.invalid
        /\ p1.queue = p.queue /\ p1.frames = p.frames /\ p1.ends = p.ends /\ p1.own = p.own
        /\ p1.failed = p.failed
    BY <1>1 DEF Controller
  <2> HIDE DEF p1
  <2>2. InStep(p1) /\ \A c \in Commands : OnItsWay(p1, c) = OnItsWay(p, c)
    BY <2>1 DEF InStep, QueuedFrames, Backlog, InFlight, OnItsWay, Sent
  <2>3. \A n \in Nat : Gained(p1, AcceptFrames(p1, r, n), r, n)
    BY <2>2, FramesAccepted
  <2>4. Gained(p1, f, r, 1)
    BY <2>3
  <2> HIDE DEF f
  <2>5. Gained(p, f, r, 1)
    BY <2>1, <2>2, <2>4 DEF Gained
  <2>6. QED
    BY <1>3, <2>5 DEF Flushed, f, p1
<1>4. QED
  BY <1>2, <1>3

LEMMA FinishKeeps ==
  ASSUME NEW p, Balanced(p), NEW r \in Responses, ~p.responses[r].finished, Tracked(p, r)
  PROVE  Balanced(CompleteIfAcknowledged(
           Accept([Flushed(p, r) EXCEPT !.responses[r].finished = TRUE], Boundary(r), 1), r))
<1> DEFINE f == Flushed(p, r)
<1>1. /\ InStep(p) /\ p \in Controller /\ p.responses[r] \in Response
      /\ p.responses \in [Responses -> Response] /\ MaxFrames \in Nat
  BY PlaybackAssumption DEF Balanced, InStep, Controller
<1> HIDE DEF f
<1>2. PICK k \in {0, 1} :
        /\ InStep(f) /\ f.invalid = p.invalid /\ f.failed = p.failed
        /\ \A o \in Responses \ {r} : f.responses[o] = p.responses[o]
        /\ f.responses[r] = [p.responses[r] EXCEPT !.outstanding = @ + k]
        /\ \A c \in Commands : OnItsWay(f, c) = OnItsWay(p, c) + (IF c = Frame(r) THEN k ELSE 0)
  <2>1. PICK k \in {0, 1} : Gained(p, f, r, k)
    BY <1>1, RemainderFlushed DEF f
  <2>2. QED
    BY <2>1 DEF Gained
<1> DEFINE x == [f.responses[r] EXCEPT !.finished = TRUE]
           p1 == [f EXCEPT !.responses[r] = x]
           q == Accept(p1, Boundary(r), 1)
<1>3. /\ f \in Controller /\ x \in Response /\ x.finished /\ x.tracked
      /\ x.outstanding = p.responses[r].outstanding + k
      /\ x.boundary = p.responses[r].boundary
  BY <1>1, <1>2 DEF InStep, Controller, Response, Tracked
<1>4. q = Accept([f EXCEPT !.responses[r].finished = TRUE], Boundary(r), 1)
  OBVIOUS
<1> HIDE DEF x
<1>5. /\ InStep(p1) /\ p1.invalid = f.invalid
      /\ p1.responses[r] = x
      /\ \A o \in Responses \ {r} : p1.responses[o] = f.responses[o]
      /\ \A c \in Commands : OnItsWay(p1, c) = OnItsWay(f, c)
  BY <1>2, <1>3, Responded
<1> HIDE DEF p1
<1>6. Boundary(r) \in Commands /\ 1 \in Nat
  BY CommandsOf
<1>7. /\ InStep(q) /\ q.responses = p1.responses /\ q.invalid = p1.invalid
      /\ \A c \in Commands : OnItsWay(q, c) = OnItsWay(p1, c) + (IF c = Boundary(r) THEN 1 ELSE 0)
  BY <1>5, <1>6, AcceptMoves
<1> HIDE DEF q
<1>8. ~p.responses[r].boundary /\ OnItsWay(p, Boundary(r)) = 0
      /\ p.responses[r].outstanding = OnItsWay(p, Frame(r))
      /\ p.responses[r].outstanding <= MaxFrames - 1
  BY DEF Balanced, Owes
<1>9. ASSUME NEW o \in Responses
      PROVE  Owes(q, o)
  <2>1. /\ Frame(o) \in Commands /\ Boundary(o) \in Commands /\ Owes(p, o)
        /\ Boundary(o) # Frame(r) /\ Frame(o) # Boundary(r)
        /\ OnItsWay(p, Frame(o)) \in Nat /\ OnItsWay(p, Boundary(o)) \in Nat
    BY <1>1, CommandsOf, OnItsWayIsNat DEF Balanced, Frame, Boundary
  <2>2. CASE o # r
    <3>1. Frame(o) # Frame(r) /\ Boundary(o) # Boundary(r)
      BY <2>2, CommandsOf
    <3>2. /\ q.responses[o] = p.responses[o]
          /\ OnItsWay(q, Frame(o)) = OnItsWay(p, Frame(o))
          /\ OnItsWay(q, Boundary(o)) = OnItsWay(p, Boundary(o))
      BY <1>2, <1>5, <1>7, <2>1, <2>2, <3>1
    <3>3. QED
      BY <2>1, <3>2, StillOwes
  <2>3. CASE o = r
    <3>1. /\ OnItsWay(q, Frame(r)) = OnItsWay(p, Frame(r)) + k
          /\ OnItsWay(q, Boundary(r)) = 1
      BY <1>2, <1>5, <1>7, <1>8, <2>1, <2>3
    <3>2. p.responses[r].outstanding \in Nat /\ q.responses[r] = x
      BY <1>1, <1>5, <1>7 DEF Response
    <3>3. QED
      BY <1>1, <1>3, <1>8, <2>3, <3>1, <3>2 DEF Owes
  <2>4. QED
    BY <2>2, <2>3
<1>10. NeverRevived(q)
  <2>1. \A o \in Responses : q.responses[o].tracked => p.responses[o].tracked
    BY <1>2, <1>5, <1>7 DEF Tracked
  <2>2. QED
    BY <1>2, <1>5, <1>7, <2>1 DEF Balanced, NeverRevived, Tracked, Invalid
\* Its boundary has just been sent or queued: it cannot be over.
<1>11. CompleteIfAcknowledged(q, r) = q
  BY <1>3, <1>5, <1>7, <1>8 DEF CompleteIfAcknowledged
<1>12. QED
  BY <1>4, <1>7, <1>9, <1>10, <1>11 DEF Balanced, f

\* A mark of r came back (p has it no longer, and its record says so): the response is over
\* when that was its last one, and a command takes its place in flight.
LEMMA AcknowledgeKeeps ==
  ASSUME NEW p, Balanced(p), NEW r \in Responses, NEW q \in Controller,
         q.queue = p.queue, q.own = p.own, q.invalid = p.invalid,
         InFlight(q) = InFlight(p) - 1,
         \A o \in Responses \ {r} :
           /\ q.responses[o] = p.responses[o]
           /\ OnItsWay(q, Frame(o)) = OnItsWay(p, Frame(o))
           /\ OnItsWay(q, Boundary(o)) = OnItsWay(p, Boundary(o)),
         Owes(q, r) \/ Over(q, r), Over(q, r) => OnItsWay(q, Frame(r)) = 0,
         OnItsWay(q, Boundary(r)) =
           IF q.responses[r].finished /\ ~q.responses[r].boundary THEN 1 ELSE 0,
         q.responses[r].tracked => p.responses[r].tracked
  PROVE  Balanced(Drain(CompleteIfAcknowledged(q, r)))
<1> DEFINE c1 == CompleteIfAcknowledged(q, r)
           d == Drain(c1)
<1>1. /\ InStep(p) /\ p \in Controller /\ q.responses \in [Responses -> Response]
      /\ InFlight(p) \in Nat /\ MarkLimit \in Nat /\ MaxFrames \in Nat \ {0}
  BY InFlightIsNat, PlaybackAssumption DEF Balanced, InStep, Controller
<1>2. /\ c1 \in Controller
      /\ c1.frames = q.frames /\ c1.ends = q.ends /\ c1.queue = q.queue /\ c1.own = q.own
      /\ c1.rest = q.rest /\ c1.failed = q.failed
      /\ c1.responses = IF Over(q, r) THEN [q.responses EXCEPT ![r] = Untracked] ELSE q.responses
      /\ c1.invalid = IF Over(q, r) THEN Newest(q.invalid \o <<r>>) ELSE q.invalid
  BY CompletionForgets
<1> HIDE DEF c1
<1>3. /\ InFlight(c1) = InFlight(q) /\ QueuedFrames(c1) = QueuedFrames(p)
      /\ \A c \in Commands : OnItsWay(c1, c) = OnItsWay(q, c)
  BY <1>2 DEF InFlight, QueuedFrames, OnItsWay, Sent
<1>4. /\ c1.own = QueuedFrames(c1)
      /\ InFlight(c1) <= MarkLimit
      /\ c1.queue # <<>> => InFlight(c1) >= MarkLimit - 1
  BY <1>1, <1>2, <1>3 DEF InStep, Backlog
<1>5. /\ InStep(d) /\ d.responses = c1.responses /\ d.invalid = c1.invalid
      /\ \A c \in Commands : OnItsWay(d, c) = OnItsWay(c1, c)
  BY <1>2, <1>4, DrainMoves
<1> HIDE DEF d
<1>6. ASSUME NEW o \in Responses
      PROVE  Owes(d, o)
  <2>1. /\ Frame(o) \in Commands /\ Boundary(o) \in Commands /\ Owes(p, o)
        /\ OnItsWay(d, Frame(o)) = OnItsWay(q, Frame(o))
        /\ OnItsWay(d, Boundary(o)) = OnItsWay(q, Boundary(o))
    BY <1>3, <1>5, CommandsOf DEF Balanced
  <2>2. CASE o # r
    <3>1. d.responses[o] = p.responses[o]
      BY <1>1, <1>2, <1>5, <2>2
    <3>2. QED
      BY <2>1, <2>2, <3>1, StillOwes
  <2>3. CASE o = r /\ Over(q, r)
    <3>1. d.responses[r] = Untracked
      BY <1>1, <1>2, <1>5, <2>3
    <3>2. OnItsWay(d, Frame(r)) = 0 /\ OnItsWay(d, Boundary(r)) = 0
      BY <2>1, <2>3 DEF Over
    <3>3. QED
      BY <1>1, <2>3, <3>1, <3>2 DEF Owes, Untracked
  <2>4. CASE o = r /\ ~Over(q, r)
    <3>1. d.responses[r] = q.responses[r]
      BY <1>2, <1>5, <2>4
    <3>2. QED
      BY <2>1, <2>4, <3>1, StillOwes
  <2>5. QED
    BY <2>2, <2>3, <2>4
<1>7. NeverRevived(d)
  <2>1. ASSUME NEW o \in Responses, d.responses[o].tracked
        PROVE  ~Contains(d.invalid, o)
    <3>1. p.invalid \in Seq(Responses) /\ <<r>> \in Seq(Responses)
      BY <1>1 DEF Controller
    <3>2. CASE ~Over(q, r)
      <4>1. p.responses[o].tracked
        BY <1>2, <1>5, <2>1, <3>2
      <4>2. QED
        BY <1>2, <1>5, <3>2, <4>1 DEF Balanced, NeverRevived, Tracked, Invalid
    <3>3. CASE Over(q, r)
      <4>1. o # r /\ p.responses[o].tracked
        BY <1>1, <1>2, <1>5, <2>1, <3>3 DEF Untracked
      <4>2. ~Contains(p.invalid, o)
        BY <4>1 DEF Balanced, NeverRevived, Tracked, Invalid
      <4>3. ~Contains(<<r>>, o)
        BY <4>1 DEF Contains
      <4>4. ~Contains(Newest(p.invalid \o <<r>>), o)
        BY <3>1, <4>2, <4>3, Remembered
      <4>5. QED
        BY <1>2, <1>5, <3>3, <4>4
    <3>4. QED
      BY <3>2, <3>3
  <2>2. QED
    BY <2>1 DEF NeverRevived, Tracked, Invalid
<1>8. QED
  BY <1>5, <1>6, <1>7 DEF Balanced, d, c1

\* A mark that is taken out of a count of marks.
LEMMA MarkReturned ==
  ASSUME NEW f \in [Responses -> Nat], NEW r \in Responses, f[r] > 0
  PROVE  /\ [f EXCEPT ![r] = @ - 1] \in [Responses -> Nat]
         /\ Total([f EXCEPT ![r] = @ - 1]) = Total(f) - 1
<1>1. -1 \in Int /\ f[r] + (-1) \in Nat
  OBVIOUS
<1>2. [f EXCEPT ![r] = @ - 1] = [f EXCEPT ![r] = @ + (-1)]
  OBVIOUS
<1>3. Total(f) \in Nat
  BY TotalIsNat
<1>4. QED
  BY <1>1, <1>2, <1>3, TotalOfChange

LEMMA FrameMarkKeeps ==
  ASSUME NEW p, Balanced(p), NEW r \in Responses, p.frames[r] > 0
  PROVE  Balanced(Drain(CompleteIfAcknowledged(
           [p EXCEPT !.frames[r] = @ - 1, !.responses[r].outstanding = @ - 1], r)))
<1> DEFINE g == [p.frames EXCEPT ![r] = @ - 1]
           x == [p.responses[r] EXCEPT !.outstanding = @ - 1]
           resp == [p.responses EXCEPT ![r] = x]
           q == [p EXCEPT !.frames = g, !.responses = resp]
<1>1. /\ p \in Controller /\ p.responses[r] \in Response /\ Owes(p, r)
      /\ p.responses \in [Responses -> Response] /\ p.queue \in Seq(Commands)
      /\ p.frames \in [Responses -> Nat] /\ p.ends \in [Responses -> Nat] /\ MaxFrames \in Nat
  BY PlaybackAssumption DEF Balanced, InStep, Controller
<1>2. /\ Total(p.frames) \in Nat /\ Total(p.ends) \in Nat
      /\ g \in [Responses -> Nat] /\ Total(g) = Total(p.frames) - 1
  BY <1>1, TotalIsNat, MarkReturned
<1>3. \A o \in Responses : g[o] = IF o = r THEN p.frames[o] - 1 ELSE p.frames[o]
  BY <1>1
<1>4. p.responses[r].outstanding \in Nat /\ p.responses[r].outstanding > 0
  <2>1. Frame(r) \in Commands /\ Sent(p, Frame(r)) = p.frames[r]
    BY CommandsOf DEF Sent
  <2>2. Sent(p, Frame(r)) <= OnItsWay(p, Frame(r)) /\ OnItsWay(p, Frame(r)) \in Nat
    BY <1>1, <2>1, OnItsWayIsNat
  <2>3. QED
    BY <1>1, <2>1, <2>2 DEF Owes
<1>5. /\ x \in Response /\ x.outstanding = p.responses[r].outstanding - 1
      /\ x.finished = p.responses[r].finished /\ x.boundary = p.responses[r].boundary
      /\ x.tracked = p.responses[r].tracked
  <2>1. p.responses[r].outstanding - 1 \in Nat
    BY <1>4
  <2>2. QED
    BY <1>1, <2>1 DEF Response
<1> HIDE DEF g, x
<1>6. /\ resp \in [Responses -> Response] /\ resp[r] = x
      /\ \A o \in Responses \ {r} : resp[o] = p.responses[o]
  BY <1>1, <1>5
<1>7. q = [p EXCEPT !.frames[r] = @ - 1, !.responses[r].outstanding = @ - 1]
  BY <1>1 DEF g, x, Controller
<1> HIDE DEF resp
<1>8. /\ q \in Controller /\ q.queue = p.queue /\ q.own = p.own /\ q.invalid = p.invalid
      /\ q.frames = g /\ q.ends = p.ends /\ q.responses = resp
  BY <1>1, <1>2, <1>6 DEF Controller
<1> HIDE DEF q
<1>9. InFlight(q) = InFlight(p) - 1
  BY <1>2, <1>8 DEF InFlight
<1>10. ASSUME NEW o \in Responses
       PROVE  /\ OnItsWay(q, Frame(o)) = OnItsWay(p, Frame(o)) - (IF o = r THEN 1 ELSE 0)
              /\ OnItsWay(q, Boundary(o)) = OnItsWay(p, Boundary(o))
              /\ OnItsWay(p, Frame(o)) \in Nat /\ OnItsWay(p, Boundary(o)) \in Nat
  <2>1. /\ Frame(o) \in Commands /\ Frame(o).frame /\ Frame(o).of = o
        /\ Boundary(o) \in Commands /\ ~Boundary(o).frame /\ Boundary(o).of = o
    BY CommandsOf
  <2>2. Count(p.queue, {Frame(o)}) \in Nat /\ p.frames[o] \in Nat
    BY <1>1, CountIsNat
  <2>3. OnItsWay(p, Frame(o)) \in Nat /\ OnItsWay(p, Boundary(o)) \in Nat
    BY <1>1, <2>1, OnItsWayIsNat
  <2>4. OnItsWay(q, Boundary(o)) = OnItsWay(p, Boundary(o))
    BY <1>8, <2>1 DEF OnItsWay, Sent
  <2>5. OnItsWay(q, Frame(o)) = g[o] + Count(p.queue, {Frame(o)})
    BY <1>8, <2>1 DEF OnItsWay, Sent
  <2>6. OnItsWay(p, Frame(o)) = p.frames[o] + Count(p.queue, {Frame(o)})
    BY <2>1 DEF OnItsWay, Sent
  <2>7. QED
    BY <1>3, <2>2, <2>3, <2>4, <2>5, <2>6
<1>11. \A o \in Responses \ {r} :
         /\ q.responses[o] = p.responses[o]
         /\ OnItsWay(q, Frame(o)) = OnItsWay(p, Frame(o))
         /\ OnItsWay(q, Boundary(o)) = OnItsWay(p, Boundary(o))
  BY <1>6, <1>8, <1>10
<1>12. /\ q.responses[r] = x
       /\ OnItsWay(q, Frame(r)) = x.outstanding
       /\ OnItsWay(q, Boundary(r)) = IF x.finished /\ ~x.boundary THEN 1 ELSE 0
  BY <1>1, <1>5, <1>6, <1>8, <1>10 DEF Owes
<1>13. Owes(q, r) \/ Over(q, r)
  <2>1. x.tracked
    BY <1>1, <1>4, <1>5 DEF Owes, Untracked
  <2>2. x.boundary => x.finished
    BY <1>1, <1>5 DEF Owes
  <2>3. x.outstanding <= IF x.finished THEN MaxFrames ELSE MaxFrames - 1
    BY <1>1, <1>4, <1>5 DEF Owes
  <2>4. x.outstanding \in Nat
    BY <1>4, <1>5
  <2>5. QED
    BY <1>12, <2>1, <2>2, <2>3, <2>4 DEF Owes, Over
<1>14. Over(q, r) => OnItsWay(q, Frame(r)) = 0
  BY <1>12 DEF Over
<1>15. q.responses[r].tracked => p.responses[r].tracked
  BY <1>5, <1>12
<1>16. Balanced(Drain(CompleteIfAcknowledged(q, r)))
  BY <1>8, <1>9, <1>11, <1>12, <1>13, <1>14, <1>15, AcknowledgeKeeps
<1>17. QED
  BY <1>7, <1>16

LEMMA BoundaryMarkKeeps ==
  ASSUME NEW p, Balanced(p), NEW r \in Responses, p.ends[r] > 0
  PROVE  Balanced(Drain(CompleteIfAcknowledged(
           [p EXCEPT !.ends[r] = @ - 1, !.responses[r].boundary = TRUE], r)))
<1> DEFINE g == [p.ends EXCEPT ![r] = @ - 1]
           x == [p.responses[r] EXCEPT !.boundary = TRUE]
           resp == [p.responses EXCEPT ![r] = x]
           q == [p EXCEPT !.ends = g, !.responses = resp]
<1>1. /\ p \in Controller /\ p.responses[r] \in Response /\ Owes(p, r)
      /\ p.responses \in [Responses -> Response] /\ p.queue \in Seq(Commands)
      /\ p.frames \in [Responses -> Nat] /\ p.ends \in [Responses -> Nat] /\ MaxFrames \in Nat
  BY PlaybackAssumption DEF Balanced, InStep, Controller
<1>2. /\ Total(p.frames) \in Nat /\ Total(p.ends) \in Nat
      /\ g \in [Responses -> Nat] /\ Total(g) = Total(p.ends) - 1
  BY <1>1, TotalIsNat, MarkReturned
<1>3. \A o \in Responses : g[o] = IF o = r THEN p.ends[o] - 1 ELSE p.ends[o]
  BY <1>1
\* Only the boundary of a finished response is ever sent, and only once.
<1>4. p.responses[r].finished /\ ~p.responses[r].boundary /\ OnItsWay(p, Boundary(r)) = 1
  <2>1. Boundary(r) \in Commands /\ Sent(p, Boundary(r)) = p.ends[r]
    BY CommandsOf DEF Sent
  <2>2. Sent(p, Boundary(r)) <= OnItsWay(p, Boundary(r)) /\ OnItsWay(p, Boundary(r)) \in Nat
    BY <1>1, <2>1, OnItsWayIsNat
  <2>3. p.ends[r] \in Nat
    BY <1>1
  <2>4. QED
    BY <1>1, <2>1, <2>2, <2>3 DEF Owes
<1>5. /\ x \in Response /\ x.outstanding = p.responses[r].outstanding
      /\ x.finished /\ x.boundary /\ x.tracked = p.responses[r].tracked
      /\ x.outstanding \in Nat
  BY <1>1, <1>4 DEF Response
<1> HIDE DEF g, x
<1>6. /\ resp \in [Responses -> Response] /\ resp[r] = x
      /\ \A o \in Responses \ {r} : resp[o] = p.responses[o]
  BY <1>1, <1>5
<1>7. q = [p EXCEPT !.ends[r] = @ - 1, !.responses[r].boundary = TRUE]
  BY <1>1 DEF g, x, Controller
<1> HIDE DEF resp
<1>8. /\ q \in Controller /\ q.queue = p.queue /\ q.own = p.own /\ q.invalid = p.invalid
      /\ q.frames = p.frames /\ q.ends = g /\ q.responses = resp
  BY <1>1, <1>2, <1>6 DEF Controller
<1> HIDE DEF q
<1>9. InFlight(q) = InFlight(p) - 1
  BY <1>2, <1>8 DEF InFlight
<1>10. ASSUME NEW o \in Responses
       PROVE  /\ OnItsWay(q, Frame(o)) = OnItsWay(p, Frame(o))
              /\ OnItsWay(q, Boundary(o)) = OnItsWay(p, Boundary(o)) - (IF o = r THEN 1 ELSE 0)
              /\ OnItsWay(p, Frame(o)) \in Nat /\ OnItsWay(p, Boundary(o)) \in Nat
  <2>1. /\ Frame(o) \in Commands /\ Frame(o).frame /\ Frame(o).of = o
        /\ Boundary(o) \in Commands /\ ~Boundary(o).frame /\ Boundary(o).of = o
    BY CommandsOf
  <2>2. Count(p.queue, {Boundary(o)}) \in Nat /\ p.ends[o] \in Nat
    BY <1>1, CountIsNat
  <2>3. OnItsWay(p, Frame(o)) \in Nat /\ OnItsWay(p, Boundary(o)) \in Nat
    BY <1>1, <2>1, OnItsWayIsNat
  <2>4. OnItsWay(q, Frame(o)) = OnItsWay(p, Frame(o))
    BY <1>8, <2>1 DEF OnItsWay, Sent
  <2>5. OnItsWay(q, Boundary(o)) = g[o] + Count(p.queue, {Boundary(o)})
    BY <1>8, <2>1 DEF OnItsWay, Sent
  <2>6. OnItsWay(p, Boundary(o)) = p.ends[o] + Count(p.queue, {Boundary(o)})
    BY <2>1 DEF OnItsWay, Sent
  <2>7. QED
    BY <1>3, <2>2, <2>3, <2>4, <2>5, <2>6
<1>11. \A o \in Responses \ {r} :
         /\ q.responses[o] = p.responses[o]
         /\ OnItsWay(q, Frame(o)) = OnItsWay(p, Frame(o))
         /\ OnItsWay(q, Boundary(o)) = OnItsWay(p, Boundary(o))
  BY <1>6, <1>8, <1>10
<1>12. /\ q.responses[r] = x
       /\ OnItsWay(q, Frame(r)) = x.outstanding
       /\ OnItsWay(q, Boundary(r)) = IF x.finished /\ ~x.boundary THEN 1 ELSE 0
  BY <1>1, <1>4, <1>5, <1>6, <1>8, <1>10 DEF Owes
<1>13. Owes(q, r) \/ Over(q, r)
  <2>1. x.tracked
    BY <1>1, <1>4, <1>5 DEF Owes, Untracked
  <2>2. x.outstanding <= MaxFrames
    BY <1>1, <1>4, <1>5 DEF Owes
  <2>3. QED
    BY <1>5, <1>12, <2>1, <2>2 DEF Owes, Over
<1>14. Over(q, r) => OnItsWay(q, Frame(r)) = 0
  BY <1>12 DEF Over
<1>15. q.responses[r].tracked => p.responses[r].tracked
  BY <1>5, <1>12
<1>16. Balanced(Drain(CompleteIfAcknowledged(q, r)))
  BY <1>8, <1>9, <1>11, <1>12, <1>13, <1>14, <1>15, AcknowledgeKeeps
<1>17. QED
  BY <1>7, <1>16

\* A controller that has forgotten what it played owes nothing.
LEMMA ForgottenOwesNothing ==
  ASSUME NEW q \in Controller,
         q.responses = [r \in Responses |-> Untracked], q.frames = [r \in Responses |-> 0],
         q.ends = [r \in Responses |-> 0], q.queue = <<>>, q.own = 0
  PROVE  Balanced(q)
<1>1. Total(q.frames) = 0 /\ Total(q.ends) = 0
  BY PlaybackAssumption, SumOfZeros DEF Total
<1>2. \A cs : Count(q.queue, cs) = 0
  BY CountOfNone
<1>3. MarkLimit \in Nat /\ MaxFrames \in Nat \ {0}
  BY PlaybackAssumption
<1>4. InFlight(q) = 0 /\ QueuedFrames(q) = 0
  BY <1>1, <1>2 DEF InFlight, QueuedFrames
<1>5. InStep(q)
  BY <1>3, <1>4 DEF InStep, Backlog
<1>6. \A c \in Commands : OnItsWay(q, c) = 0
  BY <1>2 DEF OnItsWay, Sent, Commands
<1>7. \A r \in Responses : q.responses[r] = Untracked
  OBVIOUS
<1>8. \A r \in Responses : Owes(q, r)
  BY <1>3, <1>6, <1>7, CommandsOf DEF Owes, Untracked
<1>9. NeverRevived(q)
  BY <1>7 DEF NeverRevived, Tracked, Untracked
<1>10. QED
  BY <1>5, <1>8, <1>9 DEF Balanced

LEMMA ForgottenIsController ==
  ASSUME NEW p \in Controller
  PROVE  LET q == Forgotten(p) IN
         /\ q \in Controller
         /\ q.responses = [r \in Responses |-> Untracked] /\ q.frames = [r \in Responses |-> 0]
         /\ q.ends = [r \in Responses |-> 0] /\ q.queue = <<>> /\ q.own = 0
         /\ q.invalid = p.invalid
<1>1. [r \in Responses |-> Untracked] \in [Responses -> Response]
  BY UntrackedIsResponse
<1>2. <<>> \in Seq(Commands)
  OBVIOUS
<1>3. QED
  BY <1>1, <1>2 DEF Forgotten, Controller

LEMMA FailingKeeps ==
  ASSUME NEW p, Balanced(p)
  PROVE  Balanced([p EXCEPT !.failed = TRUE])
<1> DEFINE q == [p EXCEPT !.failed = TRUE]
<1>1. p \in Controller
  BY DEF Balanced, InStep
<1>2. /\ q \in Controller /\ q.responses = p.responses /\ q.frames = p.frames
      /\ q.ends = p.ends /\ q.queue = p.queue /\ q.own = p.own /\ q.invalid = p.invalid
  BY <1>1 DEF Controller
<1> HIDE DEF q
<1>3. InStep(q) /\ \A c \in Commands : OnItsWay(q, c) = OnItsWay(p, c)
  BY <1>2 DEF Balanced, InStep, QueuedFrames, Backlog, InFlight, OnItsWay, Sent
<1>4. \A r \in Responses : Owes(q, r)
  BY <1>2, <1>3, CommandsOf, StillOwes DEF Balanced
<1>5. NeverRevived(q)
  BY <1>2 DEF Balanced, NeverRevived, Tracked, Invalid
<1>6. QED
  BY <1>3, <1>4, <1>5 DEF Balanced, q

-----------------------------------------------------------------------------
(* The invariant *)

LEMMA InitPlayback == PlaybackInit => PlaybackInv
<1> SUFFICES ASSUME PlaybackInit
             PROVE  PlaybackInv
  OBVIOUS
<1>1. /\ play \in Controller
      /\ play.responses = [r \in Responses |-> Untracked]
      /\ play.frames = [r \in Responses |-> 0] /\ play.ends = [r \in Responses |-> 0]
      /\ play.queue = <<>> /\ play.own = 0
  <2>1. [r \in Responses |-> Untracked] \in [Responses -> Response]
    BY UntrackedIsResponse
  <2>2. QED
    BY <2>1 DEF PlaybackInit, Controller
<1>2. Balanced(play)
  <2>1. <<>> \in Seq(Responses)
    OBVIOUS
  <2>2. QED
    BY <1>1, <2>1, ForgottenOwesNothing
<1>3. QED
  BY <1>1, <1>2, PlaybackAssumption DEF PlaybackInit, PlaybackInv

LEMMA EndsKeeps ==
  ASSUME PlaybackInv, NEW p, Balanced(p), Ends(p), p.own + elsewhere <= ResidentLimit
  PROVE  PlaybackInv'
BY DEF PlaybackInv, Ends, Balanced, InStep, Owes, NeverRevived, Tracked, Invalid, Backlog, OnItsWay,
       Sent, QueuedFrames, InFlight

LEMMA ThrowsKeeps ==
  ASSUME PlaybackInv, Throws
  PROVE  PlaybackInv'
<1> DEFINE p == [play EXCEPT !.failed = TRUE]
<1>1. Balanced(p) /\ p.own = play.own
  BY FailingKeeps DEF PlaybackInv, Balanced, InStep, Controller
<1>2. Ends(p)
  BY DEF Throws, Ends
<1>3. p.own + elsewhere <= ResidentLimit
  BY <1>1 DEF PlaybackInv
<1> HIDE DEF p
<1>4. QED
  BY <1>1, <1>2, <1>3, EndsKeeps

LEMMA EndsOrThrowsKeeps ==
  ASSUME PlaybackInv, NEW p, Balanced(p), EndsOrThrows(p)
  PROVE  PlaybackInv'
BY EndsKeeps, ThrowsKeeps DEF EndsOrThrows, Resident

\* Every operation of the controller keeps the accounts.
LEMMA NextPlayback == PlaybackInv /\ [PlaybackNext]_playbackVars => PlaybackInv'
<1> SUFFICES ASSUME PlaybackInv, [PlaybackNext]_playbackVars
             PROVE  PlaybackInv'
  OBVIOUS
<1>1. /\ Balanced(play) /\ play \in Controller /\ play.own + elsewhere <= ResidentLimit
      /\ elsewhere \in Nat /\ ResidentLimit \in Nat /\ play.own \in Nat
  BY PlaybackAssumption DEF PlaybackInv, Balanced, InStep, Controller
<1>2. ASSUME UNCHANGED playbackVars
      PROVE  PlaybackInv'
  <2>1. Ends(play)
    BY <1>2 DEF playbackVars, Ends
  <2>2. QED
    BY <1>1, <2>1, EndsKeeps
<1>3. ASSUME NEW r \in Responses, StartResponse(r)
      PROVE  PlaybackInv'
  <2>1. CASE Invalid(play, r)
    BY <1>3, <2>1, ThrowsKeeps DEF StartResponse
  <2>2. CASE ~Invalid(play, r)
    <3>1. Balanced([play EXCEPT !.responses[r].tracked = TRUE])
      BY <1>1, <2>2, StartKeeps
    <3>2. QED
      BY <1>3, <2>2, <3>1, EndsOrThrowsKeeps DEF StartResponse
  <2>3. QED
    BY <2>1, <2>2
<1>4. ASSUME NEW r \in Responses, NEW n \in 0..MaxDelta, NEW rest \in BOOLEAN,
             AppendDelta(r, n, rest)
      PROVE  PlaybackInv'
  <2>1. CASE Invalid(play, r)
    BY <1>2, <1>4, <2>1 DEF AppendDelta
  <2>2. CASE ~Invalid(play, r) /\ (~Tracked(play, r) \/ ~HasRoom(play, n))
    BY <1>4, <2>2, ThrowsKeeps DEF AppendDelta
  <2>3. CASE ~Invalid(play, r) /\ Tracked(play, r) /\ HasRoom(play, n)
    <3> DEFINE p1 == AcceptFrames(play, r, n)
               left == IF rest THEN p1.rest \cup {r} ELSE p1.rest \ {r}
               p == [p1 EXCEPT !.rest = left]
    <3>1. n \in Nat /\ play.responses[r].outstanding + n <= MaxFrames - 1 /\ InStep(play)
      BY <1>1, <1>4, PlaybackAssumption DEF AppendDelta, Balanced
    <3>2. p1.rest \in SUBSET Responses
      BY <3>1, FramesAccepted DEF Gained, InStep, Controller
    <3>3. left \in SUBSET Responses
      BY <3>2
    <3>4. EndsOrThrows(p)
      BY <1>4, <2>3 DEF AppendDelta
    <3> HIDE DEF left
    <3>5. Balanced(p)
      BY <1>1, <2>3, <3>1, <3>3, AppendKeeps
    <3> HIDE DEF p
    <3>6. QED
      BY <3>4, <3>5, EndsOrThrowsKeeps
  <2>4. QED
    BY <2>1, <2>2, <2>3
<1>5. ASSUME NEW r \in Responses, FinishResponse(r)
      PROVE  PlaybackInv'
  <2>1. CASE Invalid(play, r) \/ play.responses[r].finished
    BY <1>2, <1>5, <2>1 DEF FinishResponse
  <2>2. CASE /\ ~Invalid(play, r) /\ ~play.responses[r].finished
             /\ ~Tracked(play, r) \/ (r \in play.rest /\ ~HasRoom(play, 1))
    BY <1>5, <2>2, ThrowsKeeps DEF FinishResponse
  <2>3. CASE /\ ~Invalid(play, r) /\ ~play.responses[r].finished /\ Tracked(play, r)
             /\ ~(r \in play.rest /\ ~HasRoom(play, 1))
    <3> DEFINE p == CompleteIfAcknowledged(
                      Accept([Flushed(play, r) EXCEPT !.responses[r].finished = TRUE],
                             Boundary(r), 1), r)
    <3>1. EndsOrThrows(p)
      BY <1>5, <2>3 DEF FinishResponse, Flushed
    <3>2. Balanced(p)
      BY <1>1, <2>3, FinishKeeps
    <3> HIDE DEF p
    <3>3. QED
      BY <3>1, <3>2, EndsOrThrowsKeeps
  <2>4. QED
    BY <2>1, <2>2, <2>3
<1>6. ASSUME NEW r \in Responses, AcknowledgeMark(r)
      PROVE  PlaybackInv'
  <2> DEFINE framed == Drain(CompleteIfAcknowledged(
                [play EXCEPT !.frames[r] = @ - 1, !.responses[r].outstanding = @ - 1], r))
             ended == Drain(CompleteIfAcknowledged(
                [play EXCEPT !.ends[r] = @ - 1, !.responses[r].boundary = TRUE], r))
  <2>1. \/ play.frames[r] > 0 /\ EndsOrThrows(framed)
        \/ play.ends[r] > 0 /\ EndsOrThrows(ended)
    BY <1>6 DEF AcknowledgeMark
  <2>2. CASE play.frames[r] > 0 /\ EndsOrThrows(framed)
    <3>1. Balanced(framed)
      BY <1>1, <2>2, FrameMarkKeeps
    <3> HIDE DEF framed
    <3>2. QED
      BY <2>2, <3>1, EndsOrThrowsKeeps
  <2>3. CASE play.ends[r] > 0 /\ EndsOrThrows(ended)
    <3>1. Balanced(ended)
      BY <1>1, <2>3, BoundaryMarkKeeps
    <3> HIDE DEF ended
    <3>2. QED
      BY <2>3, <3>1, EndsOrThrowsKeeps
  <2>4. QED
    BY <2>1, <2>2, <2>3
<1>7. ASSUME Interrupt
      PROVE  PlaybackInv'
  <2> DEFINE started == {r \in Responses : Tracked(play, r)}
             gone == Forgotten(play)
  <2>1. PICK order \in SetToSeqs(started) : Ends(Remember(gone, order))
    BY <1>7 DEF Interrupt
  <2>2. order \in Seq(Responses)
    <3>1. IsFiniteSet(started)
      BY PlaybackAssumption, FS_Subset
    <3>2. Cardinality(started) \in Nat
      BY <3>1, FS_CardinalityType
    <3>3. order \in [1..Cardinality(started) -> started]
      BY <2>1 DEF SetToSeqs
    <3>4. order \in [1..Cardinality(started) -> Responses]
      BY <3>3
    <3> HIDE DEF started
    <3>5. QED
      BY <3>2, <3>4
  <2> DEFINE p == Remember(gone, order)
             last == Newest(gone.invalid \o order)
  <2>3. /\ gone \in Controller
        /\ gone.responses = [r \in Responses |-> Untracked] /\ gone.frames = [r \in Responses |-> 0]
        /\ gone.ends = [r \in Responses |-> 0] /\ gone.queue = <<>> /\ gone.own = 0
    BY <1>1, ForgottenIsController
  <2> HIDE DEF gone
  <2>4. last \in Seq(Responses)
    <3>1. gone.invalid \in Seq(Responses)
      BY <2>3 DEF Controller
    <3>2. QED
      BY <2>2, <3>1, Remembered
  <2>5. p = [gone EXCEPT !.invalid = last]
    BY DEF Remember
  <2> HIDE DEF last
  <2>6. /\ p \in Controller
        /\ p.responses = [r \in Responses |-> Untracked] /\ p.frames = [r \in Responses |-> 0]
        /\ p.ends = [r \in Responses |-> 0] /\ p.queue = <<>> /\ p.own = 0
    BY <2>3, <2>4, <2>5 DEF Controller
  <2>7. Ends(p)
    BY <2>1 DEF p, gone
  <2> HIDE DEF p
  <2>8. Balanced(p)
    BY <2>4, <2>6, ForgottenOwesNothing
  <2>9. QED
    BY <1>1, <2>6, <2>7, <2>8, EndsKeeps
<1>8. ASSUME Dispose
      PROVE  PlaybackInv'
  <2> DEFINE gone == Forgotten(play)
             p == [gone EXCEPT !.failed = TRUE]
  <2>1. Ends(p)
    BY <1>8 DEF Dispose
  <2>2. /\ gone \in Controller
        /\ gone.responses = [r \in Responses |-> Untracked] /\ gone.frames = [r \in Responses |-> 0]
        /\ gone.ends = [r \in Responses |-> 0] /\ gone.queue = <<>> /\ gone.own = 0
    BY <1>1, ForgottenIsController
  <2> HIDE DEF gone
  <2>3. /\ p \in Controller
        /\ p.responses = [r \in Responses |-> Untracked] /\ p.frames = [r \in Responses |-> 0]
        /\ p.ends = [r \in Responses |-> 0] /\ p.queue = <<>> /\ p.own = 0
    BY <2>2 DEF Controller
  <2> HIDE DEF p
  <2>4. Balanced(p)
    <3>1. <<>> \in Seq(Responses)
      OBVIOUS
    <3>2. QED
      BY <2>3, <3>1, ForgottenOwesNothing
  <2>5. QED
    BY <1>1, <2>1, <2>3, <2>4, EndsKeeps
<1>9. ASSUME OthersPlay
      PROVE  PlaybackInv'
  <2>1. play' = play /\ elsewhere' \in 0..ResidentLimit /\ play.own + elsewhere' <= ResidentLimit
    BY <1>9 DEF OthersPlay
  <2>2. Balanced(play)'
    BY <1>1, <2>1 DEF Balanced, InStep, Owes, NeverRevived, Tracked, Invalid, Backlog, OnItsWay,
                      Sent, QueuedFrames, InFlight
  <2>3. QED
    BY <1>1, <2>1, <2>2 DEF PlaybackInv
<1>10. QED
  BY <1>2, <1>3, <1>4, <1>5, <1>6, <1>7, <1>8, <1>9 DEF PlaybackNext

\* The accounts, with what makes them inductive: a queue only behind a full window of marks,
\* what every response owes in terms of what is on its way, and no response played again
\* once it is remembered as over.
THEOREM PlaybackInvariant == PlaybackSpec => []PlaybackInv
BY InitPlayback, NextPlayback, PTL DEF PlaybackSpec

LEMMA PartOfTotal ==
  ASSUME NEW f \in [Responses -> Nat], NEW r \in Responses
  PROVE  f[r] \in Nat /\ f[r] <= Total(f)
<1>1. IsFiniteSet(Responses) /\ IsFiniteSet(Responses \ {r})
  BY PlaybackAssumption, FS_Subset
<1>2. \A x \in Responses : f[x] \in Nat /\ f[x] \in Int
  OBVIOUS
<1>3. SumFunctionOnSet(f, Responses) = f[r] + SumFunctionOnSet(f, Responses \ {r})
  BY <1>1, <1>2, SumWithElement
<1>4. SumFunctionOnSet(f, Responses \ {r}) \in Nat
  BY <1>1, <1>2, SumIsNat
<1>5. QED
  BY <1>2, <1>3, <1>4 DEF Total

LEMMA PlaybackTyped == PlaybackInv => PlaybackTypeOK
<1> SUFFICES ASSUME PlaybackInv
             PROVE  PlaybackTypeOK
  OBVIOUS
<1>1. /\ InStep(play) /\ play \in Controller /\ elsewhere \in Nat
      /\ play.own \in Nat /\ play.own + elsewhere <= ResidentLimit
      /\ ResidentLimit \in Nat /\ MarkLimit \in Nat /\ MaxFrames \in Nat \ {0}
      /\ play.frames \in [Responses -> Nat] /\ play.ends \in [Responses -> Nat]
      /\ play.responses \in [Responses -> Response]
  BY PlaybackAssumption DEF PlaybackInv, Balanced, InStep, Controller
<1>2. ASSUME NEW f \in [Responses -> Nat], NEW r \in Responses
      PROVE  f[r] \in Nat /\ f[r] <= Total(f)
  BY PartOfTotal
<1>3. /\ Total(play.frames) \in Nat /\ Total(play.ends) \in Nat
      /\ Total(play.frames) + Total(play.ends) <= MarkLimit
  BY <1>1, InFlightIsNat DEF InStep, Backlog, InFlight
<1>4. play.frames \in [Responses -> 0..MarkLimit]
  <2>1. \A r \in Responses : play.frames[r] \in 0..MarkLimit
    BY <1>1, <1>2, <1>3
  <2>2. QED
    BY <1>1, <2>1
<1>5. play.ends \in [Responses -> 0..MarkLimit]
  <2>1. \A r \in Responses : play.ends[r] \in 0..MarkLimit
    BY <1>1, <1>2, <1>3
  <2>2. QED
    BY <1>1, <2>1
<1>6. play.responses \in [Responses -> [tracked : BOOLEAN, outstanding : 0..MaxFrames,
                                        finished : BOOLEAN, boundary : BOOLEAN]]
  <2>1. ASSUME NEW r \in Responses
        PROVE  play.responses[r] \in [tracked : BOOLEAN, outstanding : 0..MaxFrames,
                                      finished : BOOLEAN, boundary : BOOLEAN]
    <3>1. play.responses[r] \in Response /\ play.responses[r].outstanding <= MaxFrames
      <4>1. /\ Owes(play, r) /\ play.responses[r] \in Response
            /\ play.responses[r].outstanding \in Nat
        BY <1>1 DEF PlaybackInv, Balanced, Response
      <4>2. play.responses[r].outstanding
              <= IF play.responses[r].finished THEN MaxFrames ELSE MaxFrames - 1
        BY <4>1 DEF Owes
      <4>3. QED
        BY <1>1, <4>1, <4>2
    <3>2. QED
      BY <1>1, <3>1 DEF Response
  <2>2. QED
    BY <1>1, <2>1
<1>7. play.own \in 0..ResidentLimit /\ elsewhere \in 0..ResidentLimit
  BY <1>1
<1>8. QED
  BY <1>1, <1>4, <1>5, <1>6, <1>7 DEF PlaybackTypeOK, Controller

\* Every count of the controller stays within the limit that the code enforces for it.
THEOREM PlaybackTyping == PlaybackSpec => []PlaybackTypeOK
BY PlaybackInvariant, PlaybackTyped, PTL

LEMMA AccountsAgree == PlaybackInv => PlaybackAccounts
<1> SUFFICES ASSUME PlaybackInv
             PROVE  PlaybackAccounts
  OBVIOUS
<1>1. /\ InStep(play) /\ play \in Controller /\ \A r \in Responses : Owes(play, r)
      /\ MarkLimit \in Nat \ {0}
      /\ play.frames \in [Responses -> Nat] /\ play.ends \in [Responses -> Nat]
  BY PlaybackAssumption DEF PlaybackInv, Balanced, InStep, Controller
<1>2. \A r \in Responses :
        play.responses[r].outstanding = play.frames[r] + Count(play.queue, {Frame(r)})
  BY <1>1, CommandsOf DEF Owes, OnItsWay, Sent
<1>3. ASSUME InFlight(play) = 0
      PROVE  play.queue = <<>> /\ \A r \in Responses : ~play.responses[r].finished
  <2>1. play.queue = <<>>
    BY <1>1, <1>3 DEF InStep, Backlog
  <2>2. Total(play.frames) = 0 /\ Total(play.ends) = 0
    BY <1>1, <1>3, InFlightIsNat DEF InFlight
  <2>3. ASSUME NEW r \in Responses
        PROVE  ~play.responses[r].finished
    <3>1. play.frames[r] = 0 /\ play.ends[r] = 0
      <4>1. /\ play.frames[r] \in Nat /\ play.frames[r] <= Total(play.frames)
            /\ play.ends[r] \in Nat /\ play.ends[r] <= Total(play.ends)
        BY <1>1, PartOfTotal
      <4>2. QED
        BY <2>2, <4>1
    <3>2. Count(play.queue, {Frame(r)}) = 0 /\ Count(play.queue, {Boundary(r)}) = 0
      BY <2>1, CountOfNone
    <3>3. OnItsWay(play, Frame(r)) = 0 /\ OnItsWay(play, Boundary(r)) = 0
      BY <3>1, <3>2, CommandsOf DEF OnItsWay, Sent
    <3>4. Owes(play, r)
      BY <1>1
    <3>5. QED
      BY <3>3, <3>4 DEF Owes
  <2>4. QED
    BY <2>1, <2>3
<1>4. play.own = QueuedFrames(play)
  BY <1>1 DEF InStep
<1>5. QED
  BY <1>2, <1>3, <1>4 DEF PlaybackAccounts

\* What the controller counts is what is in flight or queued, whatever order marks come
\* back in and whatever interrupts it; it never falls silent with a queue, and never keeps
\* a finished response that waits for no mark.
THEOREM PlaybackAccounted == PlaybackSpec => []PlaybackAccounts
BY PlaybackInvariant, AccountsAgree, PTL
=============================================================================
