--------------------------- MODULE PriorityQueue ---------------------------
(***************************************************************************)
(* The bounded, ordered event queue between the source forwarders of a     *)
(* query (or the query forwarders of a reaction) and the one task that     *)
(* processes their events: lib/src/channels/priority_queue.rs, keyed as in *)
(* lib/src/queries/priority_queue.rs.                                      *)
(*                                                                         *)
(* A producer is a forwarder task, identified by the rank of its source in *)
(* the query's configuration.  A critical section of the heap mutex is one *)
(* step; the notify_one() that follows the unlock is a step of its own,    *)
(* because another task may take the mutex in between.  All tasks sleep on *)
(* ONE tokio Notify: producers waiting for room and the consumer waiting   *)
(* for an event stand in the same FIFO line.  A source that sends events   *)
(* again after a restart gives them new timestamps: not modelled here.     *)
(***************************************************************************)
EXTENDS Integers, Sequences, FiniteSets

CONSTANTS
    Producers,      \* source ranks, one forwarder per rank
    Blocking,       \* forwarders of Channel-mode sources: enqueue_wait
    Capacity,       \* max_capacity
    MaxSeq,         \* bound: events of each source
    MaxTime         \* bound: timestamps are 1..MaxTime

Consumer == 0       \* the processing task

ASSUME ProducersAssumption == /\ Producers \subseteq Nat \ {Consumer}
                              /\ Blocking \subseteq Producers
ASSUME BoundsAssumption == /\ Capacity \in Nat \ {0}
                           /\ MaxSeq \in [Producers -> Nat]
                           /\ MaxTime \in Nat \ {0}

Tasks == Producers \union {Consumer}

Event == UNION {[ts : 1..MaxTime, rank : {p}, seq : 1..MaxSeq[p]] : p \in Producers}

VARIABLES
    heap,       \* set of buffered events
    waiters,    \* Notify: the tasks asleep, first come first
    permit,     \* Notify: a stored notification
    pc,         \* where each task is
    hand,       \* the event a forwarder took from its channel (seq 0: none yet)
    out,        \* history: the events the consumer took, in order
    dropped,    \* history: events refused at capacity
    cut         \* history: events lost with an aborted task or drained

vars == <<heap, waiters, permit, pc, hand, out, dropped, cut>>

\* PriorityQueueEvent::cmp on RankedSourceEvent::order_key: by timestamp, then
\* source rank, then sequence; the smallest key leaves first.
Before(a, b) ==
    \/ a.ts < b.ts
    \/ a.ts = b.ts /\ a.rank < b.rank
    \/ a.ts = b.ts /\ a.rank = b.rank /\ a.seq < b.seq

\* Mutant: ties on the timestamp are not broken.
OldestByTimeOnly(e) == \A d \in heap : e.ts <= d.ts

Oldest(e) == \A d \in heap \ {e} : Before(e, d)

TypeOK ==
    /\ heap \in SUBSET Event
    /\ Cardinality(heap) <= Capacity
    /\ waiters \in Seq(Tasks)
    /\ permit \in BOOLEAN
    /\ pc \in [Tasks -> {"recv", "lock", "wait", "woken", "notify", "off"}]
    /\ DOMAIN hand = Producers
    /\ \A p \in Producers : hand[p] \in [ts : 1..MaxTime, rank : {p}, seq : 0..MaxSeq[p]]
    /\ out \in Seq(Event)
    /\ dropped \in SUBSET Event
    /\ cut \in SUBSET Event

Init ==
    /\ heap = {}
    /\ waiters = <<>>
    /\ permit = FALSE
    /\ pc = [t \in Tasks |-> IF t = Consumer THEN "lock" ELSE "recv"]
    /\ hand = [p \in Producers |-> [ts |-> 1, rank |-> p, seq |-> 0]]
    /\ out = <<>>
    /\ dropped = {}
    /\ cut = {}

----------------------------------------------------------------------------
(* tokio::sync::Notify, as this queue uses it.                             *)

\* notify_one(): the task longest asleep wakes, or the notification is kept.
\* at: the program counters to update.
NotifyOne(at) ==
    IF waiters = <<>>
    THEN /\ permit' = TRUE
         /\ pc' = at
         /\ UNCHANGED waiters
    ELSE /\ pc' = [at EXCEPT ![Head(waiters)] = "woken"]
         /\ waiters' = Tail(waiters)
         /\ UNCHANGED permit

\* Notified::enable(), then .await, with the mutex held: take the stored
\* notification and go round the loop again, or fall asleep.
Sleep(t) ==
    IF permit
    THEN /\ permit' = FALSE
         /\ pc' = [pc EXCEPT ![t] = "lock"]
         /\ UNCHANGED waiters
    ELSE /\ waiters' = Append(waiters, t)
         /\ pc' = [pc EXCEPT ![t] = "wait"]
         /\ UNCHANGED permit

----------------------------------------------------------------------------
(* The forwarder: takes the next event of its source from the dispatcher   *)
(* channel and puts it into the queue.  A source's timestamps do not       *)
(* decrease (SourceBase clamps them).                                      *)

Receive(p) ==
    /\ pc[p] = "recv"
    /\ hand[p].seq < MaxSeq[p]
    /\ \E t \in hand[p].ts..MaxTime :
          hand' = [hand EXCEPT ![p] = [ts |-> t, rank |-> p, seq |-> @.seq + 1]]
    /\ pc' = [pc EXCEPT ![p] = "lock"]
    /\ UNCHANGED <<heap, waiters, permit, out, dropped, cut>>

\* Mutant: one event too many.
HasSpaceOffByOne == Cardinality(heap) <= Capacity

HasSpace == Cardinality(heap) < Capacity

Push(p) ==
    /\ heap' = heap \union {hand[p]}
    /\ pc' = [pc EXCEPT ![p] = "notify"]
    /\ UNCHANGED <<waiters, permit, dropped>>

\* enqueue(): at capacity the event is dropped and false returned.
Enqueue(p) ==
    /\ p \in Producers \ Blocking
    /\ pc[p] = "lock"
    /\ \/ HasSpace /\ Push(p)
       \/ /\ ~HasSpace
          /\ dropped' = dropped \union {hand[p]}
          /\ pc' = [pc EXCEPT ![p] = "recv"]
          /\ UNCHANGED <<heap, waiters, permit>>
    /\ UNCHANGED <<hand, out, cut>>

\* Mutant: a full queue makes the blocking enqueue give up.
EnqueueWaitGivesUp(p) ==
    /\ p \in Blocking
    /\ pc[p] \in {"lock", "woken"}
    /\ \/ HasSpace /\ Push(p)
       \/ /\ ~HasSpace
          /\ dropped' = dropped \union {hand[p]}
          /\ pc' = [pc EXCEPT ![p] = "recv"]
          /\ UNCHANGED <<heap, waiters, permit>>
    /\ UNCHANGED <<hand, out, cut>>

\* enqueue_wait(): at capacity the task sleeps and tries again when woken.
EnqueueWait(p) ==
    /\ p \in Blocking
    /\ pc[p] \in {"lock", "woken"}
    /\ \/ HasSpace /\ Push(p)
       \/ /\ ~HasSpace
          /\ Sleep(p)
          /\ UNCHANGED <<heap, dropped>>
    /\ UNCHANGED <<hand, out, cut>>

\* Mutant: enqueue returns without notify_one().
EnqueueSilently(p) ==
    /\ pc[p] = "notify"
    /\ pc' = [pc EXCEPT ![p] = "recv"]
    /\ UNCHANGED <<heap, waiters, permit, hand, out, dropped, cut>>

\* The notify_one() after the mutex is released.
EnqueueNotify(p) ==
    /\ pc[p] = "notify"
    /\ NotifyOne([pc EXCEPT ![p] = "recv"])
    /\ UNCHANGED <<heap, hand, out, dropped, cut>>

----------------------------------------------------------------------------
(* The consumer: the query processor's (or the reaction's) dequeue loop.   *)

Dequeue ==
    /\ pc[Consumer] \in {"lock", "woken"}
    /\ \/ \E e \in heap :
            /\ Oldest(e)
            /\ heap' = heap \ {e}
            /\ out' = Append(out, e)
            /\ pc' = [pc EXCEPT ![Consumer] = "notify"]
            /\ UNCHANGED <<waiters, permit>>
       \/ /\ heap = {}
          /\ Sleep(Consumer)
          /\ UNCHANGED <<heap, out>>
    /\ UNCHANGED <<hand, dropped, cut>>

\* Mutant: dequeue returns without notify_one().
DequeueSilently ==
    /\ pc[Consumer] = "notify"
    /\ pc' = [pc EXCEPT ![Consumer] = "lock"]
    /\ UNCHANGED <<heap, waiters, permit, hand, out, dropped, cut>>

DequeueNotify ==
    /\ pc[Consumer] = "notify"
    /\ NotifyOne([pc EXCEPT ![Consumer] = "lock"])
    /\ UNCHANGED <<heap, hand, out, dropped, cut>>

----------------------------------------------------------------------------
(* Stop and restart of the query around the queue, which outlives both.    *)

Holding(p) == pc[p] \in {"lock", "wait", "woken"}

\* The line of sleepers without the i-th: a dropped Notified leaves it.
Leaving(i) == SubSeq(waiters, 1, i - 1) \o SubSeq(waiters, i + 1, Len(waiters))

\* A task is aborted at an await point (never between push and notify_one).
\* A task that was woken but did not run passes its notification on.
Abort(t) ==
    /\ pc[t] \in {"recv", "lock", "wait", "woken"}
    /\ cut' = IF t \in Producers /\ Holding(t) THEN cut \union {hand[t]} ELSE cut
    /\ \/ pc[t] = "woken" /\ NotifyOne([pc EXCEPT ![t] = "off"])
       \/ /\ pc[t] = "wait"
          /\ \E i \in DOMAIN waiters : waiters[i] = t /\ waiters' = Leaving(i)
          /\ pc' = [pc EXCEPT ![t] = "off"]
          /\ UNCHANGED permit
       \/ /\ pc[t] \in {"recv", "lock"}
          /\ pc' = [pc EXCEPT ![t] = "off"]
          /\ UNCHANGED <<waiters, permit>>
    /\ UNCHANGED <<heap, hand, out, dropped>>

AllOff == \A t \in Tasks : pc[t] = "off"

\* drain(): only with every task stopped; it notifies nobody.
Drain ==
    /\ AllOff
    /\ heap # {}
    /\ cut' = cut \union heap
    /\ heap' = {}
    /\ UNCHANGED <<waiters, permit, pc, hand, out, dropped>>

\* start(): fresh forwarders and a fresh consumer on the same queue.
Restart ==
    /\ AllOff
    /\ pc' = [t \in Tasks |-> IF t = Consumer THEN "lock" ELSE "recv"]
    /\ UNCHANGED <<heap, waiters, permit, hand, out, dropped, cut>>

Produce(p) == Enqueue(p) \/ EnqueueWait(p) \/ EnqueueNotify(p)

Consume == Dequeue \/ DequeueNotify

Next ==
    \/ \E p \in Producers : Receive(p) \/ Produce(p)
    \/ Consume
    \/ \E t \in Tasks : Abort(t)
    \/ Drain
    \/ Restart

Spec == Init /\ [][Next]_vars

\* The runtime polls every runnable task and its mutex is first come first
\* served; nothing obliges a source to send or an operator to stop a query.
FairSpec == Spec /\ WF_vars(Consume) /\ \A p \in Producers : WF_vars(Produce(p))

----------------------------------------------------------------------------
(* Properties *)

Taken == {out[i] : i \in DOMAIN out}

\* Every event a forwarder received is in exactly one place, and an event of a
\* Channel-mode source is never refused: enqueue_wait "Never drops events".
ExactlyOnce ==
    \A p \in Producers : \A s \in 1..hand[p].seq :
        LET at == {e \in heap \union Taken \union dropped \union cut : e.rank = p /\ e.seq = s}
            held == Holding(p) /\ hand[p].seq = s
        IN  /\ Cardinality(at) = IF held THEN 0 ELSE 1
            /\ \A e \in at : /\ Cardinality({i \in DOMAIN out : out[i] = e})
                               = IF e \in heap \union dropped \union cut THEN 0 ELSE 1
                             /\ e \in dropped => p \notin Blocking

\* The consumer sees the events of one source in the order the source sent
\* them, whatever the timestamps tie on: out of order, SequenceDedup would
\* discard the late one as a duplicate.
SourceOrder ==
    \A i, j \in DOMAIN out : i < j /\ out[i].rank = out[j].rank => out[i].seq < out[j].seq

\* A wake-up is never lost: the consumer does not sleep beside a non-empty
\* queue, nor a forwarder beside a free slot, with nobody left to wake them.
NoLostWakeup ==
    /\ pc[Consumer] = "wait"
    /\ \A p \in Producers : pc[p] \in {"recv", "wait", "off"}
    => heap = {} /\ \A p \in Producers : pc[p] # "wait"

\* What was enqueued is processed unless the query is stopped.
Drained == \A e \in Event : e \in heap ~> (e \notin heap \/ pc[Consumer] = "off")

=============================================================================
