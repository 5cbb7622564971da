------------------------- MODULE AdmissionContract -------------------------
(***************************************************************************)
(* What admission promises its callers, without clocks, records, sorted    *)
(* sets or holds: a call has a place or not, and what may become of it.    *)
(***************************************************************************)
EXTENDS Integers, FiniteSets

CONSTANTS Calls, Workers, SharedKeys, ScopeKeys, Limit, NoWorker

VARIABLE place   \* the place of each call: claimed, active at a worker, lapsed, or out

Out == [kind |-> "out", worker |-> NoWorker, epoch |-> 0]
Place(kind, w, epoch) == [kind |-> kind, worker |-> w, epoch |-> epoch]

OfKind(kind) == {c \in Calls : place[c].kind = kind}

\* A lapsed call keeps its place at the shared counters until its owner has had
\* the time to come back, but not its place at the worker.
Taken(k) == {c \in Calls : place[c] # Out /\ k \in ScopeKeys[c]}
Serving(w) == {c \in OfKind("claimed") \cup OfKind("active") : place[c].worker = w}

Admit(c, w) ==
  /\ place[c] = Out
  /\ OfKind("lapsed") = {}
  /\ \A k \in ScopeKeys[c] : Cardinality(Taken(k)) < Limit[k]
  /\ Cardinality(Serving(w)) < Limit[w]
  /\ place' = [place EXCEPT ![c] = Place("claimed", w, 0)]

Start(c, w) ==
  /\ place[c].kind = "claimed"
  /\ place[c].worker = w \/ Cardinality(Serving(w)) < Limit[w]
  /\ place' = [place EXCEPT ![c] = Place("active", w, 1)]

\* Only the owner comes back, under the next epoch, and only its own counter
\* can be in the way.
Resume(c) ==
  /\ place[c].kind = "lapsed"
  /\ Cardinality(Serving(place[c].worker)) < Limit[place[c].worker]
  /\ place' = [place EXCEPT ![c] = Place("active", @.worker, @.epoch + 1)]

Leave(c) ==
  /\ place[c] # Out
  /\ place' = [place EXCEPT ![c] = Out]

\* Time passes for all: active calls may lapse, others give up their place.
Expire(lapsing, leaving) ==
  /\ lapsing \subseteq OfKind("active")
  /\ leaving \subseteq OfKind("claimed") \cup OfKind("lapsed")
  /\ place' = [c \in Calls |-> IF c \in lapsing THEN [place[c] EXCEPT !.kind = "lapsed"]
                               ELSE IF c \in leaving THEN Out ELSE place[c]]

Init == place = [c \in Calls |-> Out]

Next ==
  \/ \E c \in Calls : Resume(c) \/ Leave(c)
  \/ \E c \in Calls, w \in Workers : Admit(c, w) \/ Start(c, w)
  \/ \E lapsing, leaving \in SUBSET Calls : Expire(lapsing, leaving)

Spec == Init /\ [][Next]_place
=============================================================================
