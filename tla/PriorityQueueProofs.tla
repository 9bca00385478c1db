------------------------- MODULE PriorityQueueProofs -------------------------
(***************************************************************************)
(* What holds of the queue for every set of sources, every capacity and    *)
(* every stream of events: nothing is lost or taken twice and each source  *)
(* keeps its order; and a wake-up is never lost when the queue has a slot  *)
(* for every forwarder that may wait for one.                              *)
(***************************************************************************)
EXTENDS PriorityQueue, FiniteSetTheorems, SequenceTheorems, TLAPS

----------------------------------------------------------------------------
(* The inductive invariant.                                                *)

\* Every event that left its forwarder.
Seen == heap \union Taken \union dropped \union cut

\* The line of Notify: the tasks asleep, each once.
LineInv ==
    /\ \A i \in DOMAIN waiters : pc[waiters[i]] = "wait"
    /\ \A t \in Tasks : pc[t] = "wait" => \E i \in DOMAIN waiters : waiters[i] = t
    /\ \A i, j \in DOMAIN waiters : waiters[i] = waiters[j] => i = j

\* A forwarder is behind what it holds, and ahead of what it gave away.
HandInv ==
    /\ \A p \in Producers : Holding(p) => hand[p].seq > 0
    /\ \A e \in Seen : /\ e.seq <= hand[e.rank].seq
                       /\ e.ts <= hand[e.rank].ts
                       /\ Holding(e.rank) => e.seq < hand[e.rank].seq

\* A sequence number names one event of its source, which is in one place.
PlaceInv ==
    /\ \A d, e \in Seen : d.rank = e.rank /\ d.seq = e.seq => d = e
    /\ heap \intersect Taken = {} /\ heap \intersect dropped = {} /\ heap \intersect cut = {}
    /\ Taken \intersect dropped = {} /\ Taken \intersect cut = {} /\ dropped \intersect cut = {}
    /\ \A i, j \in DOMAIN out : out[i] = out[j] => i = j
    /\ \A e \in dropped : e.rank \notin Blocking

\* What a forwarder received it holds or has given away.
FoundInv ==
    \A p \in Producers : \A s \in 1..hand[p].seq :
        \/ Holding(p) /\ s = hand[p].seq
        \/ \E e \in Seen : e.rank = p /\ e.seq = s

\* In the heap the timestamps of a source follow its sequence, and what was
\* taken from a source precedes what is still there.
OrderInv ==
    /\ \A d, e \in heap : d.rank = e.rank /\ d.seq < e.seq => d.ts <= e.ts
    /\ \A d \in Taken, e \in heap : d.rank = e.rank => d.seq < e.seq
    /\ SourceOrder

DataInv == HandInv /\ PlaceInv /\ FoundInv /\ OrderInv

IInv == TypeOK /\ IsFiniteSet(heap) /\ LineInv /\ DataInv

\* The forwarders waiting for a slot.
Stuck == {p \in Producers : pc[p] = "wait"}

\* Only forwarders of Channel-mode sources wait, no more of them than there are
\* events to be taken (one of which the consumer may be announcing); so the
\* consumer, which falls asleep when there are none, is the first in line, and
\* an event beside the sleeping consumer is being announced.
WakeInv ==
    /\ Stuck \subseteq Blocking
    /\ Cardinality(Stuck) <= Cardinality(heap) + (IF pc[Consumer] = "notify" THEN 1 ELSE 0)
    /\ pc[Consumer] = "wait" => /\ waiters # <<>> /\ Head(waiters) = Consumer
                                /\ heap # {} => \E p \in Producers : pc[p] = "notify"

----------------------------------------------------------------------------
(* What a step does to the events.                                         *)

\* It moves none.
Quiet ==
    /\ UNCHANGED <<heap, hand, out, dropped, cut>>
    /\ \A p \in Producers : Holding(p)' <=> Holding(p)

\* Forwarder p takes the next event of its source.
Takes(p) ==
    /\ ~Holding(p) /\ Holding(p)'
    /\ \A q \in Producers \ {p} : hand'[q] = hand[q] /\ (Holding(q)' <=> Holding(q))
    /\ hand'[p].seq = hand[p].seq + 1 /\ hand'[p].ts \in Nat /\ hand'[p].ts >= hand[p].ts
    /\ UNCHANGED <<heap, out, dropped, cut>>

\* Forwarder p gives its event away: into the heap, to the dropped ones, or to
\* the ones lost with its task.
Gives(p) ==
    /\ Holding(p) /\ ~Holding(p)'
    /\ \A q \in Producers \ {p} : Holding(q)' <=> Holding(q)
    /\ \/ heap' = heap \union {hand[p]} /\ UNCHANGED <<dropped, cut>>
       \/ dropped' = dropped \union {hand[p]} /\ p \notin Blocking /\ UNCHANGED <<heap, cut>>
       \/ cut' = cut \union {hand[p]} /\ UNCHANGED <<heap, dropped>>
    /\ UNCHANGED <<hand, out>>

\* The consumer takes an event.
Pops(e) ==
    /\ Oldest(e) /\ e \in heap
    /\ heap' = heap \ {e} /\ out' = Append(out, e)
    /\ UNCHANGED <<hand, dropped, cut>>
    /\ \A p \in Producers : Holding(p)' <=> Holding(p)

\* An event has a source, a sequence number from 1 and a timestamp.
LEMMA EventFacts ==
    \A e \in Event : /\ e.rank \in Producers /\ e.rank \in Nat
                     /\ e.seq \in Nat /\ e.seq > 0 /\ e.ts \in Nat
  BY ProducersAssumption, BoundsAssumption DEF Event

\* What the invariant says of the hands and of the events seen.
LEMMA Typed ==
    ASSUME IInv
    PROVE  /\ \A e \in Seen : e \in Event
           /\ \A p \in Producers : /\ hand[p].seq \in Nat /\ hand[p].ts \in Nat
                                   /\ hand[p].rank = p
                                   /\ hand[p].seq > 0 => hand[p] \in Event
  <1>1. out \in Seq(Event) /\ heap \subseteq Event /\ dropped \subseteq Event /\ cut \subseteq Event
    BY DEF IInv, TypeOK
  <1>2. \A e \in Taken : e \in Event
    BY <1>1 DEF Taken
  <1>3. ASSUME NEW p \in Producers
        PROVE  /\ hand[p].seq \in Nat /\ hand[p].ts \in Nat /\ hand[p].rank = p
               /\ hand[p].seq > 0 => hand[p] \in Event
    <2>1. hand[p] \in [ts : 1..MaxTime, rank : {p}, seq : 0..MaxSeq[p]] /\ MaxSeq[p] \in Nat
      BY BoundsAssumption DEF IInv, TypeOK
    <2>2. hand[p].seq > 0 => hand[p] \in [ts : 1..MaxTime, rank : {p}, seq : 1..MaxSeq[p]]
      BY <2>1
    <2> QED
      BY <2>1, <2>2, BoundsAssumption DEF Event
  <1> QED
    BY <1>1, <1>2, <1>3 DEF Seen

\* A forwarder's event is new: it is behind all that its source sent before.
LEMMA Fresh ==
    ASSUME IInv, NEW p \in Producers, Holding(p)
    PROVE  /\ hand[p] \in Event /\ hand[p].rank = p
           /\ \A e \in Seen : e.rank = p => e.seq < hand[p].seq /\ e.ts <= hand[p].ts
           /\ hand[p] \notin Seen
  <1>1. hand[p] \in Event /\ hand[p].rank = p /\ hand[p].seq \in Nat
    BY Typed DEF IInv, DataInv, HandInv
  <1>2. \A e \in Seen : e.rank = p => e.seq < hand[p].seq /\ e.ts <= hand[p].ts
    BY DEF IInv, DataInv, HandInv
  <1> QED
    BY <1>1, <1>2

----------------------------------------------------------------------------
(* The events, step by step.                                               *)

\* A step that moves no event.
LEMMA QuietStep ==
    ASSUME IInv, Quiet
    PROVE  DataInv'
  <1>1. /\ Seen' = Seen /\ Taken' = Taken /\ UNCHANGED <<heap, hand, out, dropped, cut>>
        /\ \A p \in Producers : Holding(p)' <=> Holding(p)
    BY DEF Quiet, Seen, Taken
  <1>2. \A e \in Seen : e.rank \in Producers
    BY Typed, EventFacts
  <1>3. HandInv' /\ FoundInv'
    BY <1>1, <1>2 DEF IInv, DataInv, HandInv, FoundInv
  <1>4. PlaceInv' /\ OrderInv'
    BY <1>1 DEF IInv, DataInv, PlaceInv, OrderInv, SourceOrder
  <1> QED
    BY <1>3, <1>4 DEF DataInv

\* The next event of a source is behind all the earlier ones.
LEMMA TakesStep ==
    ASSUME IInv, NEW p \in Producers, Takes(p)
    PROVE  DataInv'
  <1>1. /\ Seen' = Seen /\ Taken' = Taken /\ UNCHANGED <<heap, out, dropped, cut>>
        /\ \A q \in Producers \ {p} : hand'[q] = hand[q] /\ (Holding(q)' <=> Holding(q))
        /\ hand'[p].seq = hand[p].seq + 1 /\ hand'[p].ts >= hand[p].ts
        /\ ~Holding(p) /\ Holding(p)'
    BY DEF Takes, Seen, Taken
  <1>2. /\ \A e \in Seen : e.rank \in Producers /\ e.seq \in Nat /\ e.ts \in Nat
        /\ \A q \in Producers : hand[q].seq \in Nat /\ hand[q].ts \in Nat
    BY Typed, EventFacts
  <1>3. HandInv'
    <2>1. hand'[p].seq \in Nat /\ hand'[p].ts \in Nat
      BY <1>1, <1>2 DEF Takes
    <2> QED
      BY <1>1, <1>2, <2>1 DEF IInv, DataInv, HandInv
  <1>4. PlaceInv' /\ OrderInv'
    BY <1>1 DEF IInv, DataInv, PlaceInv, OrderInv, SourceOrder
  <1>5. FoundInv'
    BY <1>1, <1>2 DEF IInv, DataInv, FoundInv
  <1> QED
    BY <1>3, <1>4, <1>5 DEF DataInv

\* An event given away is new wherever it goes.
LEMMA GivesStep ==
    ASSUME IInv, NEW p \in Producers, Gives(p)
    PROVE  DataInv'
  <1> DEFINE h == hand[p]
  <1>1. /\ Taken' = Taken /\ UNCHANGED <<hand, out>>
        /\ Holding(p) /\ ~Holding(p)'
        /\ \A q \in Producers \ {p} : Holding(q)' <=> Holding(q)
    BY DEF Gives, Taken
  <1>2. Seen' = Seen \union {h}
    BY <1>1 DEF Gives, Seen
  <1>3. /\ h \in Event /\ h.rank = p /\ h \notin Seen
        /\ \A e \in Seen : e.rank = p => e.seq < h.seq /\ e.ts <= h.ts
    BY <1>1, Fresh
  <1>4. /\ \A e \in Seen : e.rank \in Producers /\ e.seq \in Nat /\ e.ts \in Nat
        /\ h.seq \in Nat /\ h.ts \in Nat
    BY <1>3, Typed, EventFacts
  <1>5. HandInv'
    <2>1. \A q \in Producers : Holding(q)' => hand'[q].seq > 0
      BY <1>1 DEF IInv, DataInv, HandInv
    <2>2. \A e \in Seen' : /\ e.seq <= hand'[e.rank].seq /\ e.ts <= hand'[e.rank].ts
                           /\ Holding(e.rank)' => e.seq < hand'[e.rank].seq
      BY <1>1, <1>2, <1>3, <1>4 DEF IInv, DataInv, HandInv
    <2> QED
      BY <2>1, <2>2 DEF HandInv
  <1>6. FoundInv'
    <2> SUFFICES ASSUME NEW q \in Producers, NEW s \in 1..hand[q].seq
                 PROVE  \/ Holding(q)' /\ s = hand[q].seq
                        \/ \E e \in Seen \union {h} : e.rank = q /\ e.seq = s
      BY <1>1, <1>2 DEF FoundInv
    <2>1. \/ Holding(q) /\ s = hand[q].seq
          \/ \E e \in Seen : e.rank = q /\ e.seq = s
      BY DEF IInv, DataInv, FoundInv
    <2>2. q = p => h.rank = q /\ h.seq = hand[q].seq
      BY <1>3
    <2> HIDE DEF h
    <2> QED
      BY <1>1, <2>1, <2>2
  <1>7. PlaceInv'
    <2>1. \A d, e \in Seen' : d.rank = e.rank /\ d.seq = e.seq => d = e
      <3>1. \A d, e \in Seen : d.rank = e.rank /\ d.seq = e.seq => d = e
        BY DEF IInv, DataInv, PlaceInv
      <3> HIDE DEF h
      <3> QED
        BY <1>2, <1>3, <1>4, <3>1
    <2>2. h \notin heap /\ h \notin Taken /\ h \notin dropped /\ h \notin cut
      BY <1>3 DEF Seen
    <2> HIDE DEF h
    <2>3. /\ \/ heap' = heap \union {h} /\ UNCHANGED <<dropped, cut>>
             \/ dropped' = dropped \union {h} /\ p \notin Blocking /\ UNCHANGED <<heap, cut>>
             \/ cut' = cut \union {h} /\ UNCHANGED <<heap, dropped>>
      BY DEF Gives, h
    <2> QED
      BY <1>1, <1>3, <2>1, <2>2, <2>3 DEF IInv, DataInv, PlaceInv
  <1>8. OrderInv'
    <2>1. heap' \subseteq heap \union {h} /\ heap \subseteq Seen /\ Taken \subseteq Seen
      BY DEF Gives, Seen
    <2> HIDE DEF h
    <2>2. \A d, e \in heap' : d.rank = e.rank /\ d.seq < e.seq => d.ts <= e.ts
      BY <1>3, <1>4, <2>1 DEF IInv, DataInv, OrderInv
    <2>3. \A d \in Taken, e \in heap' : d.rank = e.rank => d.seq < e.seq
      BY <1>3, <1>4, <2>1 DEF IInv, DataInv, OrderInv
    <2> QED
      BY <1>1, <2>2, <2>3 DEF IInv, DataInv, OrderInv, SourceOrder
  <1> QED
    BY <1>5, <1>6, <1>7, <1>8 DEF DataInv

\* The oldest event by the order of the heap is the first of its source: the
\* tie on the timestamp is broken by the sequence number.
LEMMA PopsStep ==
    ASSUME IInv, NEW e, Pops(e)
    PROVE  DataInv'
  <1>1. /\ e \in heap /\ heap' = heap \ {e} /\ out' = Append(out, e)
        /\ UNCHANGED <<hand, dropped, cut>>
        /\ \A p \in Producers : Holding(p)' <=> Holding(p)
    BY DEF Pops
  <1>2. out \in Seq(Event) /\ heap \subseteq Event /\ e \in Event /\ e \in Seen
    BY <1>1 DEF IInv, TypeOK, Seen
  <1>3. /\ DOMAIN out' = DOMAIN out \union {Len(out) + 1} /\ out'[Len(out) + 1] = e
        /\ \A i \in DOMAIN out : out'[i] = out[i]
        /\ DOMAIN out = 1..Len(out) /\ Len(out) \in Nat
    BY <1>1, <1>2
  <1>4. Taken' = Taken \union {e}
    BY <1>3 DEF Taken
  <1>5. Seen' = Seen
    BY <1>1, <1>4 DEF Seen
  <1>6. \A d \in Seen : d.rank \in Producers /\ d.rank \in Nat /\ d.seq \in Nat /\ d.ts \in Nat
    BY Typed, EventFacts
  <1>7. HandInv' /\ FoundInv'
    BY <1>1, <1>5, <1>6 DEF IInv, DataInv, HandInv, FoundInv
  <1>8. PlaceInv'
    <2>1. \A i, j \in DOMAIN out' : out'[i] = out'[j] => i = j
      <3>1. \A i \in DOMAIN out : out[i] # e
        BY <1>1 DEF IInv, DataInv, PlaceInv, Taken
      <3>2. \A i, j \in DOMAIN out : out[i] = out[j] => i = j
        BY DEF IInv, DataInv, PlaceInv
      <3> QED
        BY <1>3, <3>1, <3>2
    <2> QED
      BY <1>1, <1>4, <1>5, <2>1 DEF IInv, DataInv, PlaceInv
  <1>9. OrderInv'
    <2>1. ASSUME NEW d \in heap', d.rank = e.rank
          PROVE  e.seq < d.seq
      <3>1. d \in heap /\ d # e /\ Before(e, d) /\ d \in Seen
        BY <1>1, <2>1 DEF Pops, Oldest, Seen
      <3>2. /\ d.seq = e.seq => d = e
            /\ d.seq < e.seq => d.ts <= e.ts
        BY <1>1, <1>2, <2>1, <3>1 DEF IInv, DataInv, PlaceInv, OrderInv
      <3> QED
        BY <1>2, <1>6, <2>1, <3>1, <3>2 DEF Before
    <2>2. \A d \in Taken', c \in heap' : d.rank = c.rank => d.seq < c.seq
      BY <1>1, <1>4, <2>1 DEF IInv, DataInv, OrderInv
    <2>3. \A i \in DOMAIN out : out[i].rank = e.rank => out[i].seq < e.seq
      BY <1>1 DEF IInv, DataInv, OrderInv, Taken
    <2>4. SourceOrder'
      BY <1>3, <2>3 DEF IInv, DataInv, OrderInv, SourceOrder
    <2>5. \A d, c \in heap' : d.rank = c.rank /\ d.seq < c.seq => d.ts <= c.ts
      BY <1>1 DEF IInv, DataInv, OrderInv
    <2> QED
      BY <2>2, <2>4, <2>5 DEF OrderInv
  <1> QED
    BY <1>7, <1>8, <1>9 DEF DataInv

\* Draining moves what is in the heap to what is lost.
LEMMA DrainStep ==
    ASSUME IInv, Drain
    PROVE  DataInv'
  <1>1. /\ heap' = {} /\ cut' = cut \union heap /\ Taken' = Taken
        /\ UNCHANGED <<pc, hand, out, dropped>>
    BY DEF Drain, Taken
  <1>2. Seen' = Seen
    BY <1>1 DEF Seen
  <1>3. \A p : Holding(p)' <=> Holding(p)
    BY <1>1 DEF Holding
  <1>4. HandInv' /\ FoundInv'
    BY <1>1, <1>2, <1>3 DEF IInv, DataInv, HandInv, FoundInv
  <1>5. PlaceInv'
    BY <1>1, <1>2 DEF IInv, DataInv, PlaceInv
  <1>6. OrderInv'
    BY <1>1 DEF IInv, DataInv, OrderInv, SourceOrder
  <1> QED
    BY <1>4, <1>5, <1>6 DEF DataInv

----------------------------------------------------------------------------
(* The line of sleepers, step by step.                                     *)

Places == {"recv", "lock", "wait", "woken", "notify", "off"}

\* notify_one() wakes the first in line and leaves the others asleep.
LEMMA Wakes ==
    ASSUME IInv, NEW at \in [Tasks -> Places],
           \A t \in Tasks : at[t] = "wait" <=> pc[t] = "wait",
           NotifyOne(at)
    PROVE  /\ waiters' \in Seq(Tasks) /\ permit' \in BOOLEAN /\ pc' \in [Tasks -> Places]
           /\ LineInv'
           /\ \A t \in Tasks : pc'[t] = at[t] \/ (at[t] = "wait" /\ pc'[t] = "woken")
           /\ waiters # <<>> => /\ Head(waiters) \in Tasks /\ waiters' = Tail(waiters)
                                /\ pc' = [at EXCEPT ![Head(waiters)] = "woken"]
           /\ waiters = <<>> => pc' = at /\ waiters' = waiters
  <1>1. waiters \in Seq(Tasks) /\ permit \in BOOLEAN /\ LineInv
    BY DEF IInv, TypeOK
  <1>2. CASE waiters = <<>>
    <2>1. permit' = TRUE /\ pc' = at /\ waiters' = waiters
      BY <1>2 DEF NotifyOne
    <2>2. LineInv'
      BY <1>1, <1>2, <2>1 DEF LineInv
    <2> QED
      BY <1>1, <1>2, <2>1, <2>2, Zenon
  <1>3. CASE waiters # <<>>
    <2> DEFINE w == Head(waiters)
    <2>1. /\ waiters' = Tail(waiters) /\ permit' = permit
          /\ pc' = [at EXCEPT ![w] = "woken"]
      BY <1>3 DEF NotifyOne
    <2>2. /\ w = waiters[1] /\ 1 \in DOMAIN waiters /\ w \in Tasks /\ Tail(waiters) \in Seq(Tasks)
          /\ DOMAIN waiters = 1..Len(waiters) /\ Len(waiters) \in Nat
          /\ DOMAIN Tail(waiters) = 1..(Len(waiters) - 1)
          /\ \A i \in DOMAIN Tail(waiters) : Tail(waiters)[i] = waiters[i + 1]
      BY <1>1, <1>3
    <2> HIDE DEF w
    <2>3. at[w] = "wait"
      BY <1>1, <2>2 DEF LineInv
    <2>4. pc' \in [Tasks -> Places] /\ pc'[w] = "woken" /\ \A t \in Tasks \ {w} : pc'[t] = at[t]
      BY <2>1, <2>2 DEF Places
    <2>5. LineInv'
      <3>1. \A i \in DOMAIN waiters' : pc'[waiters'[i]] = "wait"
        <4> SUFFICES ASSUME NEW i \in DOMAIN Tail(waiters) PROVE pc'[waiters[i + 1]] = "wait"
          BY <2>1, <2>2
        <4>1. i + 1 \in DOMAIN waiters /\ i + 1 # 1 /\ waiters[i + 1] \in Tasks
          BY <1>1, <2>2
        <4>2. waiters[i + 1] # w /\ pc[waiters[i + 1]] = "wait"
          BY <1>1, <2>2, <4>1 DEF LineInv
        <4> QED
          BY <2>4, <4>1, <4>2
      <3>2. ASSUME NEW t \in Tasks, pc'[t] = "wait"
            PROVE  \E i \in DOMAIN waiters' : waiters'[i] = t
        <4>1. t # w /\ pc[t] = "wait"
          BY <2>4, <3>2
        <4>2. PICK j \in DOMAIN waiters : waiters[j] = t
          BY <1>1, <4>1 DEF LineInv
        <4>3. j # 1
          BY <2>2, <4>1, <4>2
        <4>4. j - 1 \in DOMAIN Tail(waiters) /\ Tail(waiters)[j - 1] = t
          BY <2>2, <4>2, <4>3
        <4> QED
          BY <2>1, <4>4
      <3>3. \A i, j \in DOMAIN waiters' : waiters'[i] = waiters'[j] => i = j
        BY <1>1, <2>1, <2>2 DEF LineInv
      <3> QED
        BY <3>1, <3>2, <3>3 DEF LineInv
    <2>6. permit' \in BOOLEAN
      BY <1>1, <2>1
    <2>7. waiters' \in Seq(Tasks) /\ pc' \in [Tasks -> Places]
      BY <2>1, <2>2, <2>4
    <2>8. \A t \in Tasks : pc'[t] = at[t] \/ (at[t] = "wait" /\ pc'[t] = "woken")
      BY <2>3, <2>4
    <2> QED
      BY <1>3, <2>1, <2>2, <2>5, <2>6, <2>7, <2>8, Zenon DEF w
  <1> QED
    BY <1>2, <1>3

\* A task that finds no stored notification joins the line, at its end.
LEMMA Sleeps ==
    ASSUME IInv, NEW t \in Tasks, pc[t] \in {"lock", "woken"}, Sleep(t)
    PROVE  /\ waiters' \in Seq(Tasks) /\ permit' \in BOOLEAN /\ pc' \in [Tasks -> Places]
           /\ LineInv'
           /\ pc'[t] \in {"lock", "wait"} /\ \A u \in Tasks \ {t} : pc'[u] = pc[u]
           /\ \/ waiters' = waiters /\ pc'[t] = "lock"
              \/ waiters' = Append(waiters, t) /\ pc'[t] = "wait"
  <1>1. /\ waiters \in Seq(Tasks) /\ permit \in BOOLEAN /\ LineInv /\ pc \in [Tasks -> Places]
    BY DEF IInv, TypeOK, Places
  <1>2. CASE permit
    <2>1. /\ permit' = FALSE /\ waiters' = waiters
          /\ pc' = [pc EXCEPT ![t] = "lock"]
      BY <1>2 DEF Sleep
    <2>2. pc' \in [Tasks -> Places] /\ pc'[t] = "lock" /\ \A u \in Tasks \ {t} : pc'[u] = pc[u]
      BY <1>1, <2>1 DEF Places
    <2>3. LineInv'
      <3>1. \A i \in DOMAIN waiters : waiters[i] \in Tasks
        BY <1>1
      <3> QED
        BY <1>1, <2>1, <2>2, <3>1 DEF LineInv
    <2> QED
      BY <1>1, <2>1, <2>2, <2>3
  <1>3. CASE ~permit
    <2>1. /\ waiters' = Append(waiters, t) /\ permit' = permit
          /\ pc' \in [Tasks -> Places] /\ pc'[t] = "wait" /\ \A u \in Tasks \ {t} : pc'[u] = pc[u]
      BY <1>1, <1>3 DEF Sleep, Places
    <2>2. /\ waiters' \in Seq(Tasks) /\ DOMAIN waiters' = DOMAIN waiters \union {Len(waiters) + 1}
          /\ waiters'[Len(waiters) + 1] = t /\ \A i \in DOMAIN waiters : waiters'[i] = waiters[i]
          /\ DOMAIN waiters = 1..Len(waiters) /\ Len(waiters) \in Nat
          /\ \A i \in DOMAIN waiters : waiters[i] \in Tasks
      BY <1>1, <2>1
    <2>3. \A i \in DOMAIN waiters : waiters[i] # t
      BY <1>1 DEF LineInv
    <2>4. LineInv'
      BY <1>1, <2>1, <2>2, <2>3 DEF LineInv
    <2> QED
      BY <1>1, <2>1, <2>2, <2>4
  <1> QED
    BY <1>2, <1>3

\* A task that is aborted asleep leaves the line; the others keep their order.
LEMMA Leaves ==
    ASSUME IInv, NEW i \in DOMAIN waiters
    PROVE  /\ Leaving(i) \in Seq(Tasks)
           /\ DOMAIN Leaving(i) = 1..(Len(waiters) - 1)
           /\ \A k \in DOMAIN Leaving(i) : Leaving(i)[k] = IF k < i THEN waiters[k] ELSE waiters[k + 1]
  <1>1. waiters \in Seq(Tasks) /\ i \in 1..Len(waiters) /\ Len(waiters) \in Nat
    BY DEF IInv, TypeOK
  <1> DEFINE a == SubSeq(waiters, 1, i - 1)
             b == SubSeq(waiters, i + 1, Len(waiters))
  <1>2. a \in Seq(Tasks) /\ Len(a) = i - 1 /\ \A k \in 1..(i - 1) : a[k] = waiters[k]
    BY <1>1
  <1>3. /\ b \in Seq(Tasks) /\ Len(b) = Len(waiters) - i
        /\ \A k \in 1..(Len(waiters) - i) : b[k] = waiters[i + k]
    BY <1>1
  <1>4. Leaving(i) = a \o b
    BY DEF Leaving
  <1> HIDE DEF a, b
  <1> DEFINE c == a \o b
  <1>5. /\ c \in Seq(Tasks) /\ Len(c) = Len(a) + Len(b)
        /\ \A k \in 1..(Len(a) + Len(b)) : c[k] = IF k <= Len(a) THEN a[k] ELSE b[k - Len(a)]
    BY <1>2, <1>3, ConcatProperties, Zenon
  <1> HIDE DEF c
  <1>6. DOMAIN c = 1..(Len(waiters) - 1) /\ Len(a) + Len(b) = Len(waiters) - 1
    BY <1>1, <1>2, <1>3, <1>5
  <1>7. ASSUME NEW k \in 1..(Len(waiters) - 1)
        PROVE  c[k] = IF k < i THEN waiters[k] ELSE waiters[k + 1]
    <2>1. c[k] = IF k <= Len(a) THEN a[k] ELSE b[k - Len(a)]
      BY <1>5, <1>6
    <2>2. CASE k < i
      BY <1>1, <1>2, <2>1, <2>2
    <2>3. CASE ~(k < i)
      <3>1. k - (i - 1) \in 1..(Len(waiters) - i) /\ i + (k - (i - 1)) = k + 1 /\ ~(k <= i - 1)
        BY <1>1, <2>3
      <3>2. c[k] = b[k - (i - 1)] /\ b[k - (i - 1)] = waiters[i + (k - (i - 1))]
        BY <1>2, <1>3, <2>1, <3>1
      <3> QED
        BY <2>3, <3>1, <3>2
    <2> QED
      BY <2>2, <2>3
  <1> QED
    BY <1>4, <1>5, <1>6, <1>7 DEF c

----------------------------------------------------------------------------
(* The invariant is inductive.                                             *)

LineType == waiters \in Seq(Tasks) /\ permit \in BOOLEAN /\ pc \in [Tasks -> Places]

DataType ==
    /\ heap \in SUBSET Event /\ IsFiniteSet(heap) /\ Cardinality(heap) <= Capacity
    /\ DOMAIN hand = Producers
    /\ \A p \in Producers : hand[p] \in [ts : 1..MaxTime, rank : {p}, seq : 0..MaxSeq[p]]
    /\ out \in Seq(Event) /\ dropped \in SUBSET Event /\ cut \in SUBSET Event

\* The invariant in two halves: the tasks and their line, and the events.
LEMMA Halves == IInv <=> LineType /\ LineInv /\ DataType /\ DataInv
  BY Zenon DEF IInv, TypeOK, LineType, DataType, Places

\* The same of the next state.
LEMMA Rejoined == LineType' /\ LineInv' /\ DataType' /\ DataInv' => IInv'
  BY Zenon DEF IInv, TypeOK, LineType, DataType, Places

\* A forwarder receives.
LEMMA ReceiveStep ==
    ASSUME IInv, NEW p \in Producers, Receive(p)
    PROVE  IInv'
  <1>1. LineType /\ LineInv /\ DataType /\ p \in Tasks /\ p # Consumer
    BY Halves, ProducersAssumption DEF Tasks
  <1>2. /\ pc[p] = "recv" /\ pc' = [pc EXCEPT ![p] = "lock"]
        /\ UNCHANGED <<heap, waiters, permit, out, dropped, cut>>
    BY DEF Receive
  <1>3. PICK t \in hand[p].ts..MaxTime :
               hand' = [hand EXCEPT ![p] = [ts |-> t, rank |-> p, seq |-> @.seq + 1]]
    BY DEF Receive
  <1>4. hand[p].seq \in Nat /\ hand[p].seq < MaxSeq[p] /\ hand[p].ts \in 1..MaxTime /\ MaxSeq[p] \in Nat
    BY <1>1, BoundsAssumption DEF Receive, DataType
  <1>5. /\ pc' \in [Tasks -> Places] /\ pc'[p] = "lock" /\ \A u \in Tasks \ {p} : pc'[u] = pc[u]
    BY <1>1, <1>2 DEF LineType, Places
  <1>6. LineType' /\ LineInv'
    <2>1. \A i \in DOMAIN waiters : waiters[i] \in Tasks
      BY <1>1 DEF LineType
    <2> QED
      BY <1>1, <1>2, <1>5, <2>1 DEF LineType, LineInv
  <1>7. /\ hand'[p].seq = hand[p].seq + 1 /\ hand'[p].ts = t /\ t \in 1..MaxTime
        /\ hand'[p] \in [ts : 1..MaxTime, rank : {p}, seq : 0..MaxSeq[p]]
        /\ \A q \in Producers \ {p} : hand'[q] = hand[q]
        /\ DOMAIN hand' = Producers
    BY <1>1, <1>3, <1>4, BoundsAssumption DEF DataType
  <1>8. DataType'
    BY <1>1, <1>2, <1>7 DEF DataType
  <1>9. Takes(p)
    <2>1. \A q \in Producers \ {p} : Holding(q)' <=> Holding(q)
      BY <1>5 DEF Holding, Tasks
    <2>2. ~Holding(p) /\ Holding(p)'
      BY <1>2, <1>5 DEF Holding
    <2> QED
      BY <1>2, <1>3, <1>4, <1>7, <2>1, <2>2, BoundsAssumption DEF Takes
  <1> QED
    BY <1>6, <1>8, <1>9, TakesStep, Rejoined

\* A step of task t from one place to another, none of them in the line.
LEMMA MoveStep ==
    ASSUME IInv, NEW t \in Tasks, pc[t] # "wait", NEW to \in Places \ {"wait"},
           pc' = [pc EXCEPT ![t] = to], UNCHANGED <<waiters, permit>>
    PROVE  /\ LineType' /\ LineInv'
           /\ pc'[t] = to /\ \A u \in Tasks \ {t} : pc'[u] = pc[u]
  <1>1. LineType /\ LineInv
    BY Halves
  <1>2. pc' \in [Tasks -> Places] /\ pc'[t] = to /\ \A u \in Tasks \ {t} : pc'[u] = pc[u]
    BY <1>1 DEF LineType
  <1>3. \A i \in DOMAIN waiters : waiters[i] \in Tasks
    BY <1>1 DEF LineType
  <1> QED
    BY <1>1, <1>2, <1>3 DEF LineType, LineInv

\* A forwarder finds a slot.
LEMMA PushStep ==
    ASSUME IInv, NEW p \in Producers, pc[p] \in {"lock", "woken"}, HasSpace, Push(p),
           UNCHANGED <<hand, out, cut>>
    PROVE  IInv'
  <1>1. DataType /\ p \in Tasks
    BY Halves DEF Tasks
  <1>2. /\ heap' = heap \union {hand[p]} /\ pc' = [pc EXCEPT ![p] = "notify"]
        /\ UNCHANGED <<waiters, permit, dropped>>
    BY DEF Push
  <1>3. /\ LineType' /\ LineInv' /\ pc'[p] = "notify" /\ \A u \in Tasks \ {p} : pc'[u] = pc[u]
    BY <1>1, <1>2, MoveStep DEF Places
  <1>4. Holding(p) /\ ~Holding(p)'
    BY <1>3 DEF Holding
  <1>5. Gives(p)
    <2>1. \A q \in Producers \ {p} : Holding(q)' <=> Holding(q)
      BY <1>3 DEF Holding, Tasks
    <2> QED
      BY <1>2, <1>4, <2>1 DEF Gives
  <1>6. DataType'
    <2>1. hand[p] \in Event
      BY <1>4, Fresh
    <2>2. /\ IsFiniteSet(heap') /\ Cardinality(heap) \in Nat
          /\ Cardinality(heap') \in {Cardinality(heap), Cardinality(heap) + 1}
      <3>1. IsFiniteSet(heap)
        BY <1>1 DEF DataType
      <3> QED
        BY <1>2, <3>1, FS_AddElement, FS_CardinalityType
    <2>3. Cardinality(heap') \in Nat /\ Cardinality(heap') <= Capacity
      BY <2>2, BoundsAssumption DEF HasSpace
    <2> QED
      BY <1>1, <1>2, <2>1, <2>2, <2>3 DEF DataType
  <1> QED
    BY <1>3, <1>5, <1>6, GivesStep, Rejoined

\* At capacity a non-blocking enqueue drops the event.
LEMMA EnqueueStep ==
    ASSUME IInv, NEW p \in Producers, Enqueue(p)
    PROVE  IInv'
  <1>1. p \notin Blocking /\ pc[p] = "lock" /\ UNCHANGED <<hand, out, cut>>
    BY DEF Enqueue
  <1>2. CASE HasSpace /\ Push(p)
    BY <1>1, <1>2, PushStep
  <1>3. CASE /\ dropped' = dropped \union {hand[p]} /\ pc' = [pc EXCEPT ![p] = "recv"]
             /\ UNCHANGED <<heap, waiters, permit>>
    <2>1. /\ LineType' /\ LineInv' /\ pc'[p] = "recv" /\ \A u \in Tasks \ {p} : pc'[u] = pc[u]
      BY <1>1, <1>3, MoveStep DEF Places, Tasks
    <2>2. Holding(p) /\ ~Holding(p)'
      BY <1>1, <2>1 DEF Holding
    <2>3. Gives(p)
      <3>1. \A q \in Producers \ {p} : Holding(q)' <=> Holding(q)
        BY <2>1 DEF Holding, Tasks
      <3> QED
        BY <1>1, <1>3, <2>2, <3>1 DEF Gives
    <2>4. DataType'
      <3>1. hand[p] \in Event /\ DataType
        BY <2>2, Fresh, Halves
      <3> QED
        BY <1>1, <1>3, <3>1 DEF DataType
    <2> QED
      BY <2>1, <2>3, <2>4, GivesStep, Rejoined
  <1> QED
    BY <1>2, <1>3 DEF Enqueue

\* A step that moves no event and keeps the line in order.
LEMMA StillStep ==
    ASSUME IInv, Quiet, LineType', LineInv'
    PROVE  IInv'
  <1>1. DataType /\ UNCHANGED <<heap, hand, out, dropped, cut>>
    BY Halves DEF Quiet
  <1>2. DataType'
    BY <1>1 DEF DataType
  <1> QED
    BY <1>2, QuietStep, Rejoined

\* At capacity a blocking enqueue keeps the event and sleeps.
LEMMA EnqueueWaitStep ==
    ASSUME IInv, NEW p \in Producers, EnqueueWait(p)
    PROVE  IInv'
  <1>1. pc[p] \in {"lock", "woken"} /\ UNCHANGED <<hand, out, cut>> /\ p \in Tasks
    BY DEF EnqueueWait, Tasks
  <1>2. CASE HasSpace /\ Push(p)
    BY <1>1, <1>2, PushStep
  <1>3. CASE Sleep(p) /\ UNCHANGED <<heap, dropped>>
    <2>1. /\ LineType' /\ LineInv'
          /\ pc'[p] \in {"lock", "wait"} /\ \A u \in Tasks \ {p} : pc'[u] = pc[u]
      BY <1>1, <1>3, Sleeps DEF LineType
    <2>2. Quiet
      BY <1>1, <1>3, <2>1 DEF Quiet, Holding, Tasks
    <2> QED
      BY <2>1, <2>2, StillStep
  <1> QED
    BY <1>2, <1>3 DEF EnqueueWait

\* notify_one() after the mutex is released, by a forwarder or the consumer.
LEMMA NotifyStep ==
    ASSUME IInv, NEW t \in Tasks, pc[t] = "notify", NEW to \in {"recv", "lock"},
           t \in Producers => to = "recv", NotifyOne([pc EXCEPT ![t] = to]),
           UNCHANGED <<heap, hand, out, dropped, cut>>
    PROVE  IInv'
  <1> DEFINE at == [pc EXCEPT ![t] = to]
  <1>1. LineType
    BY Halves
  <1>2. /\ at \in [Tasks -> Places] /\ at[t] = to /\ \A u \in Tasks \ {t} : at[u] = pc[u]
    BY <1>1 DEF LineType, Places
  <1>3. NotifyOne(at)
    OBVIOUS
  <1> HIDE DEF at
  <1>4. /\ LineType' /\ LineInv'
        /\ \A u \in Tasks : pc'[u] = at[u] \/ (at[u] = "wait" /\ pc'[u] = "woken")
    <2>1. \A u \in Tasks : at[u] = "wait" <=> pc[u] = "wait"
      BY <1>2
    <2> QED
      BY <1>2, <1>3, <2>1, Wakes DEF LineType
  <1>5. Quiet
    BY <1>2, <1>4 DEF Quiet, Holding, Tasks
  <1> QED
    BY <1>4, <1>5, StillStep

\* The consumer takes the oldest event, or sleeps beside an empty queue.
LEMMA DequeueStep ==
    ASSUME IInv, Dequeue
    PROVE  IInv'
  <1>1. /\ pc[Consumer] \in {"lock", "woken"} /\ UNCHANGED <<hand, dropped, cut>>
        /\ Consumer \in Tasks /\ Consumer \notin Producers
    BY ProducersAssumption DEF Dequeue, Tasks
  <1>2. ASSUME NEW e \in heap, Oldest(e), heap' = heap \ {e}, out' = Append(out, e),
               pc' = [pc EXCEPT ![Consumer] = "notify"], UNCHANGED <<waiters, permit>>
        PROVE  IInv'
    <2>1. /\ LineType' /\ LineInv' /\ pc'[Consumer] = "notify"
          /\ \A u \in Tasks \ {Consumer} : pc'[u] = pc[u]
      BY <1>1, <1>2, MoveStep DEF Places
    <2>2. Pops(e)
      BY <1>1, <1>2, <2>1 DEF Pops, Holding, Tasks
    <2>3. DataType'
      <3>1. DataType /\ IsFiniteSet(heap) /\ Cardinality(heap) <= Capacity
        BY Halves DEF DataType
      <3>2. /\ IsFiniteSet(heap') /\ Cardinality(heap) \in Nat
            /\ Cardinality(heap') = Cardinality(heap) - 1
        BY <1>2, <3>1, FS_RemoveElement, FS_CardinalityType
      <3>3. Cardinality(heap') <= Capacity
        BY <3>1, <3>2, BoundsAssumption
      <3>4. out' \in Seq(Event)
        BY <1>2, <3>1 DEF DataType
      <3> QED
        BY <1>1, <1>2, <3>1, <3>2, <3>3, <3>4 DEF DataType
    <2> QED
      BY <2>1, <2>2, <2>3, PopsStep, Rejoined
  <1>3. CASE heap = {} /\ Sleep(Consumer) /\ UNCHANGED <<heap, out>>
    <2>1. LineType' /\ LineInv' /\ \A u \in Tasks \ {Consumer} : pc'[u] = pc[u]
      BY <1>1, <1>3, Sleeps DEF LineType
    <2>2. Quiet
      BY <1>1, <1>3, <2>1 DEF Quiet, Holding, Tasks
    <2> QED
      BY <2>1, <2>2, StillStep
  <1> QED
    BY <1>2, <1>3 DEF Dequeue

\* What an abort does to the tasks: t is off, a notification it had not used
\* goes to the next in line.
LEMMA AbortLine ==
    ASSUME IInv, NEW t \in Tasks, Abort(t)
    PROVE  /\ LineType' /\ LineInv' /\ pc'[t] = "off"
           /\ \A u \in Tasks \ {t} : pc'[u] = pc[u] \/ (pc[u] = "wait" /\ pc'[u] = "woken")
  <1>1. LineType /\ LineInv
    BY Halves
  <1>2. CASE pc[t] = "woken" /\ NotifyOne([pc EXCEPT ![t] = "off"])
    <2> DEFINE at == [pc EXCEPT ![t] = "off"]
    <2>1. /\ at \in [Tasks -> Places] /\ at[t] = "off" /\ \A u \in Tasks \ {t} : at[u] = pc[u]
      BY <1>1 DEF LineType, Places
    <2>2. NotifyOne(at)
      BY <1>2
    <2> HIDE DEF at
    <2>3. \A u \in Tasks : at[u] = "wait" <=> pc[u] = "wait"
      BY <1>2, <2>1
    <2>4. /\ LineType' /\ LineInv'
          /\ \A u \in Tasks : pc'[u] = at[u] \/ (at[u] = "wait" /\ pc'[u] = "woken")
      BY <2>1, <2>2, <2>3, Wakes DEF LineType
    <2> QED
      BY <2>1, <2>4
  <1>3. CASE /\ pc[t] = "wait" /\ pc' = [pc EXCEPT ![t] = "off"] /\ UNCHANGED permit
             /\ \E i \in DOMAIN waiters : waiters[i] = t /\ waiters' = Leaving(i)
    <2>1. PICK i \in DOMAIN waiters : waiters[i] = t /\ waiters' = Leaving(i)
      BY <1>3
    <2>2. /\ waiters' \in Seq(Tasks) /\ DOMAIN waiters' = 1..(Len(waiters) - 1)
          /\ \A k \in DOMAIN waiters' : waiters'[k] = IF k < i THEN waiters[k] ELSE waiters[k + 1]
      BY <2>1, Leaves
    <2>3. DOMAIN waiters = 1..Len(waiters) /\ Len(waiters) \in Nat /\ i \in 1..Len(waiters)
      BY <1>1, <2>1 DEF LineType
    <2>4. pc' \in [Tasks -> Places] /\ pc'[t] = "off" /\ \A u \in Tasks \ {t} : pc'[u] = pc[u]
      BY <1>1, <1>3 DEF LineType, Places
    <2>5. \A k \in DOMAIN waiters' : \E j \in DOMAIN waiters :
             waiters'[k] = waiters[j] /\ j # i /\ j = (IF k < i THEN k ELSE k + 1)
      BY <2>2, <2>3
    <2>6. \A j \in DOMAIN waiters : waiters[j] \in Tasks /\ pc[waiters[j]] = "wait" /\ (j # i => waiters[j] # t)
      BY <1>1, <2>1 DEF LineType, LineInv
    <2>7. \A k \in DOMAIN waiters' : pc'[waiters'[k]] = "wait"
      BY <2>4, <2>5, <2>6
    <2>8. ASSUME NEW u \in Tasks, pc'[u] = "wait"
          PROVE  \E k \in DOMAIN waiters' : waiters'[k] = u
      <3>1. u # t /\ pc[u] = "wait"
        BY <2>4, <2>8
      <3>2. PICK j \in DOMAIN waiters : waiters[j] = u
        BY <1>1, <3>1 DEF LineInv
      <3>3. j # i
        BY <2>1, <3>1, <3>2
      <3>4. CASE j < i
        BY <2>2, <2>3, <3>2, <3>4
      <3>5. CASE j > i
        <4>1. j - 1 \in DOMAIN waiters' /\ ~(j - 1 < i) /\ (j - 1) + 1 = j
          BY <2>2, <2>3, <3>5
        <4> QED
          BY <2>2, <3>2, <4>1
      <3> QED
        BY <2>3, <3>3, <3>4, <3>5
    <2>9. \A k, l \in DOMAIN waiters' : waiters'[k] = waiters'[l] => k = l
      <3>1. \A j, m \in DOMAIN waiters : waiters[j] = waiters[m] => j = m
        BY <1>1 DEF LineInv
      <3> QED
        BY <2>2, <2>3, <2>5, <3>1
    <2>10. LineInv'
      BY <2>7, <2>8, <2>9 DEF LineInv
    <2>11. LineType'
      BY <1>1, <1>3, <2>2, <2>4 DEF LineType
    <2> QED
      BY <2>4, <2>10, <2>11
  <1>4. CASE /\ pc[t] \in {"recv", "lock"} /\ pc' = [pc EXCEPT ![t] = "off"]
             /\ UNCHANGED <<waiters, permit>>
    BY <1>4, MoveStep DEF Places
  <1> QED
    BY <1>2, <1>3, <1>4 DEF Abort

\* An aborted forwarder loses the event it holds, and no other.
LEMMA AbortStep ==
    ASSUME IInv, NEW t \in Tasks, Abort(t)
    PROVE  IInv'
  <1>1. /\ LineType' /\ LineInv' /\ pc'[t] = "off"
        /\ \A u \in Tasks \ {t} : pc'[u] = pc[u] \/ (pc[u] = "wait" /\ pc'[u] = "woken")
    BY AbortLine
  <1>2. /\ \A q \in Producers \ {t} : Holding(q)' <=> Holding(q)
        /\ ~Holding(t)'
    BY <1>1 DEF Holding, Tasks
  <1>3. /\ UNCHANGED <<heap, hand, out, dropped>>
        /\ cut' = IF t \in Producers /\ Holding(t) THEN cut \union {hand[t]} ELSE cut
    BY DEF Abort
  <1>4. CASE t \in Producers /\ Holding(t)
    <2>1. Gives(t)
      BY <1>2, <1>3, <1>4 DEF Gives
    <2>2. DataType'
      <3>1. hand[t] \in Event /\ DataType
        BY <1>4, Fresh, Halves
      <3> QED
        BY <1>3, <1>4, <3>1 DEF DataType
    <2> QED
      BY <1>1, <1>4, <2>1, <2>2, GivesStep, Rejoined
  <1>5. CASE ~(t \in Producers /\ Holding(t))
    <2>1. Quiet
      BY <1>2, <1>3, <1>5 DEF Quiet
    <2> QED
      BY <1>1, <2>1, StillStep
  <1> QED
    BY <1>4, <1>5

\* With every task off nobody is in line: a fresh start finds it empty.
LEMMA RestartStep ==
    ASSUME IInv, Restart
    PROVE  IInv'
  <1>1. LineType /\ LineInv /\ \A t \in Tasks : pc[t] = "off"
    BY Halves DEF Restart, AllOff
  <1>2. /\ pc' = [t \in Tasks |-> IF t = Consumer THEN "lock" ELSE "recv"]
        /\ UNCHANGED <<heap, waiters, permit, hand, out, dropped, cut>>
    BY DEF Restart
  <1>3. DOMAIN waiters = {}
    BY <1>1 DEF LineInv, LineType
  <1>4. LineType' /\ LineInv'
    BY <1>1, <1>2, <1>3 DEF LineType, LineInv, Places
  <1>5. Quiet
    BY <1>1, <1>2, ProducersAssumption DEF Quiet, Holding, Tasks
  <1> QED
    BY <1>4, <1>5, StillStep

\* An empty queue with its tasks at work.
LEMMA Initially == Init => IInv
  <1> SUFFICES ASSUME Init PROVE IInv
    OBVIOUS
  <1>1. /\ heap = {} /\ waiters = <<>> /\ permit = FALSE
        /\ pc = [t \in Tasks |-> IF t = Consumer THEN "lock" ELSE "recv"]
        /\ hand = [p \in Producers |-> [ts |-> 1, rank |-> p, seq |-> 0]]
        /\ out = <<>> /\ dropped = {} /\ cut = {}
    BY DEF Init
  <1>2. LineType /\ LineInv
    <2>1. permit \in BOOLEAN
      BY <1>1
    <2>2. waiters \in Seq(Tasks) /\ pc \in [Tasks -> Places] /\ LineInv
      BY <1>1 DEF LineInv, Places
    <2> QED
      BY <2>1, <2>2 DEF LineType
  <1>3. DataType
    BY <1>1, FS_EmptySet, BoundsAssumption DEF DataType
  <1>4. Taken = {} /\ Seen = {}
    BY <1>1 DEF Taken, Seen
  <1>5. HandInv /\ FoundInv
    BY <1>1, <1>4, ProducersAssumption DEF HandInv, FoundInv, Holding, Tasks
  <1>6. PlaceInv /\ OrderInv
    BY <1>1, <1>4 DEF PlaceInv, OrderInv, SourceOrder
  <1> QED
    BY <1>2, <1>3, <1>5, <1>6, Halves DEF DataInv

\* Every step keeps it.
LEMMA Inductive == IInv /\ [Next]_vars => IInv'
  <1> SUFFICES ASSUME IInv, [Next]_vars PROVE IInv'
    OBVIOUS
  <1>1. ASSUME NEW p \in Producers, Receive(p) \/ Enqueue(p) \/ EnqueueWait(p)
        PROVE  IInv'
    BY <1>1, ReceiveStep, EnqueueStep, EnqueueWaitStep
  <1>2. ASSUME NEW p \in Producers, EnqueueNotify(p)
        PROVE  IInv'
    BY <1>2, NotifyStep DEF EnqueueNotify, Tasks
  <1>3. CASE Dequeue
    BY <1>3, DequeueStep
  <1>4. CASE DequeueNotify
    <2>1. Consumer \in Tasks /\ Consumer \notin Producers
      BY ProducersAssumption DEF Tasks
    <2>2. /\ pc[Consumer] = "notify" /\ NotifyOne([pc EXCEPT ![Consumer] = "lock"])
          /\ UNCHANGED <<heap, hand, out, dropped, cut>>
      BY <1>4 DEF DequeueNotify
    <2> QED
      BY <2>1, <2>2, NotifyStep
  <1>5. ASSUME NEW t \in Tasks, Abort(t)
        PROVE  IInv'
    BY <1>5, AbortStep
  <1>6. CASE Drain
    <2>1. LineType /\ LineInv /\ DataType
      BY Halves
    <2>2. /\ heap' = {} /\ cut' = cut \union heap
          /\ UNCHANGED <<waiters, permit, pc, hand, out, dropped>>
      BY <1>6 DEF Drain
    <2>3. LineType' /\ LineInv'
      BY <2>1, <2>2 DEF LineType, LineInv
    <2>4. DataType'
      BY <2>1, <2>2, FS_EmptySet, BoundsAssumption DEF DataType
    <2> QED
      BY <1>6, <2>3, <2>4, DrainStep, Rejoined
  <1>7. CASE Restart
    BY <1>7, RestartStep
  <1>8. CASE UNCHANGED vars
    <2>1. LineType /\ LineInv
      BY Halves
    <2>2. UNCHANGED <<heap, waiters, permit, pc, hand, out, dropped, cut>>
      BY <1>8 DEF vars
    <2>3. LineType' /\ LineInv'
      BY <2>1, <2>2 DEF LineType, LineInv
    <2>4. Quiet
      BY <2>2 DEF Quiet, Holding
    <2> QED
      BY <2>3, <2>4, StillStep
  <1> QED
    BY <1>1, <1>2, <1>3, <1>4, <1>5, <1>6, <1>7, <1>8 DEF Next, Produce, Consume

\* What the invariant says of one place in the stream of one source.
LEMMA InOnePlace ==
    ASSUME IInv
    PROVE  ExactlyOnce
  <1> SUFFICES ASSUME NEW p \in Producers, NEW s \in 1..hand[p].seq
               PROVE  LET at == {e \in heap \union Taken \union dropped \union cut : e.rank = p /\ e.seq = s}
                          held == Holding(p) /\ hand[p].seq = s
                      IN  /\ Cardinality(at) = IF held THEN 0 ELSE 1
                          /\ \A e \in at : /\ Cardinality({i \in DOMAIN out : out[i] = e})
                                             = IF e \in heap \union dropped \union cut THEN 0 ELSE 1
                                           /\ e \in dropped => p \notin Blocking
    BY DEF ExactlyOnce
  <1> DEFINE at == {e \in heap \union Taken \union dropped \union cut : e.rank = p /\ e.seq = s}
  <1>1. at = {e \in Seen : e.rank = p /\ e.seq = s}
    BY DEF Seen
  <1> HIDE DEF at
  <1>2. CASE Holding(p) /\ hand[p].seq = s
    <2>1. at = {}
      <3>1. \A e \in Seen : e.rank = p => e.seq < hand[p].seq
        BY <1>2, Fresh
      <3>2. \A e \in Seen : e.seq \in Nat
        BY Typed, EventFacts
      <3> QED
        BY <1>1, <1>2, <3>1, <3>2
    <2> QED
      BY <1>2, <2>1, FS_EmptySet DEF at
  <1>3. CASE ~(Holding(p) /\ hand[p].seq = s)
    <2>1. PICK e \in Seen : e.rank = p /\ e.seq = s
      BY <1>3 DEF IInv, DataInv, FoundInv
    <2>2. at = {e}
      BY <1>1, <2>1 DEF IInv, DataInv, PlaceInv
    <2>3. Cardinality(at) = 1
      BY <2>2, FS_Singleton
    <2>4. e \in dropped => p \notin Blocking
      BY <2>1 DEF IInv, DataInv, PlaceInv
    <2> DEFINE I == {i \in DOMAIN out : out[i] = e}
    <2>5. Cardinality(I) = IF e \in heap \union dropped \union cut THEN 0 ELSE 1
      <3>1. CASE e \in heap \union dropped \union cut
        <4>1. e \notin Taken
          BY <3>1 DEF IInv, DataInv, PlaceInv
        <4>2. I = {}
          BY <4>1 DEF Taken
        <4> QED
          BY <3>1, <4>2, FS_EmptySet
      <3>2. CASE e \notin heap \union dropped \union cut
        <4>1. PICK i \in DOMAIN out : out[i] = e
          BY <2>1, <3>2 DEF Seen, Taken
        <4>2. I = {i}
          BY <4>1 DEF IInv, DataInv, PlaceInv
        <4> QED
          BY <3>2, <4>2, FS_Singleton
      <3> QED
        BY <3>1, <3>2
    <2> QED
      BY <1>3, <2>2, <2>3, <2>4, <2>5 DEF at
  <1> QED
    BY <1>2, <1>3

\* Type correctness: the queue never holds more than max_capacity events.
THEOREM TypeCorrect == Spec => []TypeOK
  <1>1. IInv => TypeOK
    BY DEF IInv
  <1> QED
    BY <1>1, Initially, Inductive, PTL DEF Spec

\* enqueue, enqueue_wait, dequeue, drain, the aborts and the restarts never
\* lose, duplicate or take back an event: each one a forwarder received is in
\* one place, and enqueue_wait drops none.
THEOREM NoEventLost == Spec => []ExactlyOnce
  <1>1. IInv => ExactlyOnce
    BY InOnePlace
  <1> QED
    BY <1>1, Initially, Inductive, PTL DEF Spec

\* The consumer takes the events of each source in the order they were sent,
\* for every way the timestamps of the sources tie.
THEOREM KeepsSourceOrder == Spec => []SourceOrder
  <1>1. IInv => SourceOrder
    BY DEF IInv, DataInv, OrderInv
  <1> QED
    BY <1>1, Initially, Inductive, PTL DEF Spec

----------------------------------------------------------------------------
(* Wake-ups.  All tasks share one Notify, so a notification meant for the  *)
(* consumer may wake a forwarder that finds the queue full and sleeps      *)
(* again.  With a slot for every forwarder that may wait this cannot       *)
(* happen; PriorityQueue_lost_wakeup.cfg shows that it can without.        *)

Fits == IsFiniteSet(Blocking) /\ Cardinality(Blocking) <= Capacity

\* The counts are numbers, and fewer stuck forwarders count less.
LEMMA Counts ==
    ASSUME Fits, IInv, WakeInv
    PROVE  /\ IsFiniteSet(Stuck) /\ Cardinality(Stuck) \in Nat /\ Cardinality(heap) \in Nat
           /\ \A S \in SUBSET Stuck : S \subseteq Blocking /\ IsFiniteSet(S)
                                      /\ Cardinality(S) \in Nat /\ Cardinality(S) <= Cardinality(Stuck)
  <1>1. IsFiniteSet(heap) /\ Stuck \subseteq Blocking /\ IsFiniteSet(Blocking)
    BY DEF IInv, WakeInv, Fits
  <1>2. IsFiniteSet(Stuck)
    BY <1>1, FS_Subset
  <1> QED
    BY <1>1, <1>2, FS_Subset, FS_CardinalityType

\* A step of a forwarder, or none, that leaves the line, the heap and the
\* consumer alone, and announces what was announced.
LEMMA WakeKept ==
    ASSUME Fits, IInv, WakeInv, Stuck' \subseteq Stuck, heap' = heap,
           pc'[Consumer] = pc[Consumer],
           pc[Consumer] = "wait" => /\ waiters' # <<>> /\ Head(waiters') = Head(waiters)
                                    /\ \A p \in Producers : pc[p] = "notify" => pc'[p] = "notify"
    PROVE  WakeInv'
  <1>1. Stuck' \subseteq Blocking /\ Cardinality(Stuck') \in Nat /\ Cardinality(Stuck) \in Nat
        /\ Cardinality(Stuck') <= Cardinality(Stuck) /\ Cardinality(heap) \in Nat
    BY Counts
  <1>2. Cardinality(Stuck') <= Cardinality(heap') + (IF pc'[Consumer] = "notify" THEN 1 ELSE 0)
    BY <1>1 DEF WakeInv
  <1>3. pc'[Consumer] = "wait" => /\ waiters' # <<>> /\ Head(waiters') = Consumer
                                  /\ heap' # {} => \E p \in Producers : pc'[p] = "notify"
    BY DEF WakeInv
  <1> QED
    BY <1>1, <1>2, <1>3 DEF WakeInv

\* notify_one() on behalf of a task other than the consumer: if the consumer
\* sleeps, it is the one that wakes.
LEMMA WakesFirst ==
    ASSUME Fits, IInv, WakeInv, NEW t \in Producers, pc[t] # "wait",
           NEW to \in Places \ {"wait"}, NotifyOne([pc EXCEPT ![t] = to]), heap' = heap
    PROVE  WakeInv'
  <1> DEFINE at == [pc EXCEPT ![t] = to]
  <1>1. LineType /\ t \in Tasks /\ Consumer \in Tasks /\ t # Consumer
    BY Halves, ProducersAssumption DEF Tasks
  <1>2. /\ at \in [Tasks -> Places] /\ at[t] = to /\ \A u \in Tasks \ {t} : at[u] = pc[u]
    BY <1>1 DEF LineType
  <1>3. NotifyOne(at)
    OBVIOUS
  <1> HIDE DEF at
  <1>4. \A u \in Tasks : at[u] = "wait" <=> pc[u] = "wait"
    BY <1>2
  <1>5. /\ \A u \in Tasks : pc'[u] = at[u] \/ (at[u] = "wait" /\ pc'[u] = "woken")
        /\ waiters # <<>> => pc' = [at EXCEPT ![Head(waiters)] = "woken"]
    BY <1>2, <1>3, <1>4, Wakes
  <1>6. Stuck' \subseteq Stuck
    BY <1>2, <1>4, <1>5 DEF Stuck, Tasks
  <1>7. CASE pc[Consumer] = "wait"
    <2>1. pc'[Consumer] = "woken"
      BY <1>1, <1>2, <1>5, <1>7 DEF WakeInv
    <2>2. Stuck' \subseteq Blocking /\ Cardinality(Stuck') \in Nat /\ Cardinality(Stuck) \in Nat
          /\ Cardinality(Stuck') <= Cardinality(Stuck) /\ Cardinality(heap) \in Nat
      BY <1>6, Counts
    <2>3. Cardinality(Stuck) <= Cardinality(heap) + 0
      BY <1>7, <2>2 DEF WakeInv
    <2> QED
      BY <2>1, <2>2, <2>3 DEF WakeInv
  <1>8. CASE pc[Consumer] # "wait"
    BY <1>1, <1>2, <1>5, <1>6, <1>8, WakeKept
  <1> QED
    BY <1>7, <1>8

\* The forwarders: a pushed event is announced, and one that falls asleep does
\* so behind the consumer and beside at least as many events as forwarders.
LEMMA ProduceWake ==
    ASSUME Fits, IInv, WakeInv, NEW p \in Producers, Receive(p) \/ Produce(p)
    PROVE  WakeInv'
  <1>1. LineType /\ p \in Tasks /\ p # Consumer /\ Consumer \in Tasks
    BY Halves, ProducersAssumption DEF Tasks
  <1>2. CASE /\ pc[p] \in {"recv", "lock"} /\ UNCHANGED <<heap, waiters>>
             /\ \/ pc' = [pc EXCEPT ![p] = "recv"]
                \/ pc' = [pc EXCEPT ![p] = "lock"]
    <2>1. \A u \in Tasks \ {p} : pc'[u] = pc[u]
      BY <1>1, <1>2 DEF LineType
    <2>2. pc'[p] # "wait"
      BY <1>1, <1>2 DEF LineType
    <2>3. Stuck' \subseteq Stuck
      BY <2>1, <2>2 DEF Stuck, Tasks
    <2>4. \A q \in Producers : pc[q] = "notify" => pc'[q] = "notify"
      BY <1>2, <2>1 DEF Tasks
    <2>5. pc[Consumer] = "wait" => waiters # <<>>
      BY DEF WakeInv
    <2> QED
      BY <1>1, <1>2, <2>1, <2>3, <2>4, <2>5, WakeKept
  <1>3. CASE pc[p] \in {"lock", "woken"} /\ Push(p)
    <2>1. /\ heap' = heap \union {hand[p]} /\ waiters' = waiters /\ pc'[p] = "notify"
          /\ \A u \in Tasks \ {p} : pc'[u] = pc[u]
      BY <1>1, <1>3 DEF Push, LineType
    <2>2. hand[p] \notin heap
      BY <1>3, Fresh DEF Holding, Seen
    <2>3. Stuck' = Stuck
      BY <1>3, <2>1 DEF Stuck, Tasks
    <2>4. Cardinality(heap') = Cardinality(heap) + 1
      BY <2>1, <2>2, FS_AddElement DEF IInv
    <2>5. Cardinality(Stuck) \in Nat /\ Cardinality(heap) \in Nat
      BY Counts
    <2>6. Cardinality(Stuck') <= Cardinality(heap') + (IF pc'[Consumer] = "notify" THEN 1 ELSE 0)
      BY <1>1, <2>1, <2>3, <2>4, <2>5 DEF WakeInv
    <2> QED
      BY <1>1, <2>1, <2>3, <2>6 DEF WakeInv
  <1>4. CASE EnqueueWait(p) /\ ~HasSpace /\ Sleep(p) /\ heap' = heap
    <2>1. /\ pc[p] \in {"lock", "woken"} /\ p \in Blocking
      BY <1>4 DEF EnqueueWait
    <2>2. /\ \A u \in Tasks \ {p} : pc'[u] = pc[u]
          /\ \/ waiters' = waiters /\ pc'[p] = "lock"
             \/ waiters' = Append(waiters, p) /\ pc'[p] = "wait"
      BY <1>1, <1>4, <2>1, Sleeps
    <2>3. Stuck' \subseteq Blocking
      BY <2>1, <2>2 DEF WakeInv, Stuck, Tasks
    <2>4. IsFiniteSet(Blocking) /\ Cardinality(Blocking) \in Nat /\ Cardinality(heap) \in Nat
      BY Counts, FS_CardinalityType DEF Fits
    <2>5. Cardinality(Stuck') \in Nat /\ Cardinality(Stuck') <= Cardinality(Blocking)
      BY <2>3, <2>4, FS_Subset, FS_CardinalityType
    <2>6. Cardinality(Blocking) <= Capacity /\ Capacity \in Nat /\ ~(Cardinality(heap) < Capacity)
      BY <1>4, BoundsAssumption DEF Fits, HasSpace
    <2>7. Cardinality(Stuck') <= Cardinality(heap') + (IF pc'[Consumer] = "notify" THEN 1 ELSE 0)
      BY <1>4, <2>4, <2>5, <2>6
    <2>8. ASSUME pc'[Consumer] = "wait"
          PROVE  /\ waiters' # <<>> /\ Head(waiters') = Consumer
                 /\ heap' # {} => \E q \in Producers : pc'[q] = "notify"
      <3>1. pc[Consumer] = "wait" /\ waiters # <<>> /\ Head(waiters) = Consumer
            /\ (heap # {} => \E q \in Producers : pc[q] = "notify")
        BY <1>1, <2>2, <2>8 DEF WakeInv
      <3>2. waiters' # <<>> /\ Head(waiters') = Head(waiters)
        BY <1>1, <2>2, <3>1 DEF LineType
      <3>3. \A q \in Producers : pc[q] = "notify" => pc'[q] = "notify"
        BY <2>1, <2>2 DEF Tasks
      <3> QED
        BY <1>4, <3>1, <3>2, <3>3
    <2> QED
      BY <2>3, <2>7, <2>8 DEF WakeInv
  <1>5. CASE EnqueueNotify(p)
    BY <1>5, WakesFirst DEF EnqueueNotify, Places
  <1> QED
    BY <1>2, <1>3, <1>4, <1>5 DEF Receive, Produce, Enqueue, EnqueueWait

\* The consumer: what it takes it announces, waking a forwarder if any waits;
\* it falls asleep beside an empty queue only, when no forwarder does.
LEMMA ConsumeWake ==
    ASSUME Fits, IInv, WakeInv, Consume
    PROVE  WakeInv'
  <1>1. LineType /\ LineInv /\ Consumer \in Tasks /\ Consumer \notin Producers
    BY Halves, ProducersAssumption DEF Tasks
  <1>2. Cardinality(Stuck) \in Nat /\ Cardinality(heap) \in Nat /\ IsFiniteSet(Stuck)
        /\ Stuck \subseteq Blocking /\ IsFiniteSet(heap)
    BY Counts DEF WakeInv, IInv
  <1>3. ASSUME NEW e \in heap, pc[Consumer] \in {"lock", "woken"}, heap' = heap \ {e},
               pc' = [pc EXCEPT ![Consumer] = "notify"]
        PROVE  WakeInv'
    <2>1. pc'[Consumer] = "notify" /\ \A u \in Tasks \ {Consumer} : pc'[u] = pc[u]
      BY <1>1, <1>3 DEF LineType
    <2>2. Stuck' = Stuck
      BY <1>1, <2>1 DEF Stuck, Tasks
    <2>3. Cardinality(heap') = Cardinality(heap) - 1
      BY <1>2, <1>3, FS_RemoveElement
    <2> QED
      BY <1>2, <1>3, <2>1, <2>2, <2>3 DEF WakeInv
  <1>4. CASE pc[Consumer] \in {"lock", "woken"} /\ heap = {} /\ Sleep(Consumer) /\ heap' = heap
    <2>1. /\ \A u \in Tasks \ {Consumer} : pc'[u] = pc[u]
          /\ \/ waiters' = waiters /\ pc'[Consumer] = "lock"
             \/ waiters' = Append(waiters, Consumer) /\ pc'[Consumer] = "wait"
      BY <1>1, <1>4, Sleeps
    <2>2. Stuck' = Stuck /\ Stuck = {} /\ Cardinality(Stuck) = 0 /\ Cardinality(heap) = 0
      <3>1. Cardinality(heap) = 0
        BY <1>4, FS_EmptySet
      <3>2. Cardinality(Stuck) = 0
        BY <1>2, <1>4, <3>1 DEF WakeInv
      <3> QED
        BY <1>1, <1>2, <2>1, <3>1, <3>2, FS_EmptySet DEF Stuck, Tasks
    <2>3. waiters = <<>>
      <3>1. \A i \in DOMAIN waiters : FALSE
        BY <1>1, <1>4, <2>2 DEF LineInv, LineType, Stuck, Tasks
      <3> QED
        BY <1>1, <3>1 DEF LineType
    <2>4. pc'[Consumer] = "wait" => waiters' # <<>> /\ Head(waiters') = Consumer
      BY <2>1, <2>3
    <2> QED
      BY <1>4, <2>1, <2>2, <2>4 DEF WakeInv
  <1>5. CASE DequeueNotify
    <2> DEFINE at == [pc EXCEPT ![Consumer] = "lock"]
    <2>1. /\ at \in [Tasks -> Places] /\ at[Consumer] = "lock"
          /\ \A u \in Tasks \ {Consumer} : at[u] = pc[u]
      BY <1>1 DEF LineType, Places
    <2>2. NotifyOne(at) /\ pc[Consumer] = "notify" /\ heap' = heap
      BY <1>5 DEF DequeueNotify
    <2> HIDE DEF at
    <2>3. \A u \in Tasks : at[u] = "wait" <=> pc[u] = "wait"
      BY <2>1, <2>2
    <2>4. /\ waiters # <<>> => Head(waiters) \in Tasks /\ pc' = [at EXCEPT ![Head(waiters)] = "woken"]
          /\ waiters = <<>> => pc' = at
          /\ \A u \in Tasks : pc'[u] = at[u] \/ (at[u] = "wait" /\ pc'[u] = "woken")
      BY <2>1, <2>2, <2>3, Wakes
    <2>5. pc'[Consumer] = "lock"
      BY <1>1, <2>1, <2>4
    <2>6. CASE waiters = <<>>
      <3>1. Stuck = {} /\ Stuck' = {}
        BY <1>1, <2>1, <2>4, <2>6 DEF Stuck, LineInv, Tasks
      <3> QED
        BY <1>2, <2>2, <2>5, <3>1, FS_EmptySet DEF WakeInv
    <2>7. CASE waiters # <<>>
      <3> DEFINE w == Head(waiters)
      <3>1. w \in Tasks /\ pc[w] = "wait"
        BY <1>1, <2>7 DEF LineInv, LineType
      <3> HIDE DEF w
      <3>2. w \in Stuck /\ Stuck' = Stuck \ {w}
        BY <1>1, <2>1, <2>2, <2>3, <2>4, <2>7, <3>1 DEF Stuck, Tasks, w
      <3>3. Cardinality(Stuck') = Cardinality(Stuck) - 1
        BY <1>2, <3>2, FS_RemoveElement
      <3> QED
        BY <1>2, <2>2, <2>5, <3>2, <3>3 DEF WakeInv
    <2> QED
      BY <2>6, <2>7
  <1> QED
    BY <1>3, <1>4, <1>5 DEF Consume, Dequeue

\* An aborted forwarder stands behind the consumer in line; what it had been
\* notified of the consumer is.
LEMMA AbortWake ==
    ASSUME Fits, IInv, WakeInv, NEW t \in Tasks, Abort(t)
    PROVE  WakeInv'
  <1>1. LineType /\ LineInv /\ Consumer \in Tasks
    BY Halves, ProducersAssumption DEF Tasks
  <1>2. /\ pc'[t] = "off" /\ heap' = heap /\ pc[t] \in {"recv", "lock", "wait", "woken"}
        /\ \A u \in Tasks \ {t} : pc'[u] = pc[u] \/ (pc[u] = "wait" /\ pc'[u] = "woken")
    BY AbortLine DEF Abort
  <1>3. Stuck' \subseteq Stuck
    BY <1>2 DEF Stuck, Tasks
  <1>4. CASE t = Consumer
    <2>1. Stuck' \subseteq Blocking /\ Cardinality(Stuck') \in Nat /\ Cardinality(Stuck) \in Nat
          /\ Cardinality(Stuck') <= Cardinality(Stuck) /\ Cardinality(heap) \in Nat
      BY <1>3, Counts
    <2>2. Cardinality(Stuck) <= Cardinality(heap) + 0
      BY <1>2, <1>4, <2>1 DEF WakeInv
    <2> QED
      BY <1>2, <1>4, <2>1, <2>2 DEF WakeInv
  <1>5. CASE t # Consumer
    <2>1. t \in Producers
      BY <1>5 DEF Tasks
    <2>2. CASE pc[t] = "woken" /\ NotifyOne([pc EXCEPT ![t] = "off"])
      BY <1>2, <2>1, <2>2, WakesFirst DEF Places
    <2>3. CASE pc' = [pc EXCEPT ![t] = "off"] /\ pc[t] # "woken"
      <3>1. \A u \in Tasks \ {t} : pc'[u] = pc[u]
        BY <1>1, <2>3 DEF LineType
      <3>2. \A p \in Producers : pc[p] = "notify" => pc'[p] = "notify"
        BY <1>2, <3>1 DEF Tasks
      <3>3. ASSUME pc[Consumer] = "wait"
            PROVE  waiters' # <<>> /\ Head(waiters') = Head(waiters)
        <4>1. waiters # <<>> /\ Head(waiters) = Consumer
          BY <3>3 DEF WakeInv
        <4>2. CASE waiters' = waiters
          BY <4>1, <4>2
        <4>3. ASSUME NEW i \in DOMAIN waiters, waiters[i] = t, waiters' = Leaving(i)
              PROVE  waiters' # <<>> /\ Head(waiters') = Head(waiters)
          <5>1. /\ DOMAIN waiters = 1..Len(waiters) /\ Len(waiters) \in Nat
                /\ Head(waiters) = waiters[1]
            BY <1>1, <4>1 DEF LineType
          <5>2. i # 1
            BY <1>5, <4>1, <4>3, <5>1
          <5>3. 1 < i /\ 1 \in 1..(Len(waiters) - 1)
            BY <5>1, <5>2
          <5>4. waiters' \in Seq(Tasks) /\ 1 \in DOMAIN waiters' /\ waiters'[1] = waiters[1]
            BY <4>3, <5>3, Leaves
          <5> QED
            BY <5>1, <5>4
        <4> QED
          BY <2>3, <4>2, <4>3 DEF Abort
      <3> QED
        BY <1>1, <1>2, <1>3, <1>5, <3>1, <3>2, <3>3, WakeKept
    <2> QED
      BY <2>2, <2>3 DEF Abort
  <1> QED
    BY <1>4, <1>5

\* Every step keeps the wake-ups.
LEMMA WakeInductive ==
    ASSUME Fits
    PROVE  IInv /\ WakeInv /\ [Next]_vars => WakeInv'
  <1> SUFFICES ASSUME IInv, WakeInv, [Next]_vars PROVE WakeInv'
    OBVIOUS
  <1>1. ASSUME NEW p \in Producers, Receive(p) \/ Produce(p)
        PROVE  WakeInv'
    BY <1>1, ProduceWake
  <1>2. CASE Consume
    BY <1>2, ConsumeWake
  <1>3. ASSUME NEW t \in Tasks, Abort(t)
        PROVE  WakeInv'
    BY <1>3, AbortWake
  <1>4. CASE Drain \/ Restart
    <2>1. \A t \in Tasks : pc[t] = "off"
      BY <1>4 DEF Drain, Restart, AllOff
    <2>2. Consumer \in Tasks /\ Consumer \notin Producers /\ LineType
      BY Halves, ProducersAssumption DEF Tasks
    <2>3. \A t \in Tasks : pc'[t] \in {"off", "lock", "recv"}
      BY <1>4, <2>1 DEF Drain, Restart
    <2>4. Stuck' = {}
      BY <2>3 DEF Stuck, Tasks
    <2>5. IsFiniteSet(heap')
      BY <1>4, FS_EmptySet DEF Drain, Restart, IInv
    <2>6. Cardinality(heap') \in Nat /\ Cardinality({}) = 0
      BY <2>5, FS_CardinalityType, FS_EmptySet
    <2> QED
      BY <2>2, <2>3, <2>4, <2>6 DEF WakeInv
  <1>5. CASE UNCHANGED vars
    BY <1>5 DEF vars, WakeInv, Stuck
  <1> QED
    BY <1>1, <1>2, <1>3, <1>4, <1>5 DEF Next

\* With a slot for every forwarder that uses enqueue_wait, no wake-up is lost:
\* the consumer never sleeps beside an event, nor a forwarder beside a free
\* slot, with nobody left to wake them.
THEOREM WakeUpsKept ==
    ASSUME IsFiniteSet(Blocking), Cardinality(Blocking) <= Capacity
    PROVE  Spec => []NoLostWakeup
  <1>1. Init => WakeInv
    <2> SUFFICES ASSUME Init PROVE WakeInv
      OBVIOUS
    <2>1. Stuck = {} /\ heap = {} /\ pc[Consumer] = "lock"
      BY ProducersAssumption DEF Init, Stuck, Tasks
    <2> QED
      BY <2>1, FS_EmptySet DEF WakeInv
  <1>2. IInv /\ WakeInv => NoLostWakeup
    <2> SUFFICES ASSUME IInv, WakeInv, pc[Consumer] = "wait",
                        \A p \in Producers : pc[p] \in {"recv", "wait", "off"}
                 PROVE  heap = {} /\ \A p \in Producers : pc[p] # "wait"
      BY DEF NoLostWakeup
    <2>1. heap = {}
      BY DEF WakeInv
    <2>2. Cardinality(Stuck) \in Nat /\ IsFiniteSet(Stuck) /\ Cardinality(heap) = 0
      BY <2>1, Counts, FS_EmptySet DEF Fits
    <2>3. Cardinality(Stuck) = 0
      BY <2>2 DEF WakeInv
    <2> QED
      BY <2>1, <2>2, <2>3, FS_EmptySet DEF Stuck
  <1>3. IInv /\ WakeInv /\ [Next]_vars => WakeInv'
    BY WakeInductive DEF Fits
  <1> QED
    BY <1>1, <1>2, <1>3, Initially, Inductive, PTL DEF Spec

=============================================================================
