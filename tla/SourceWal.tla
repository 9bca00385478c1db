----------------------------- MODULE SourceWal -----------------------------
(***************************************************************************)
(* A source that writes every change to a write-ahead log before it        *)
(* acknowledges it, and the durable queries that read it: the application  *)
(* source (components/sources/application/src/lib.rs), the redb log        *)
(* (components/wals/redb/src/provider.rs), SourceBase's replay             *)
(* subscription, position handles and dispatch (lib/src/sources/base.rs),  *)
(* and on the query's side the forwarder, the priority queue, the          *)
(* processor and stop (lib/src/queries/manager.rs).                        *)
(*                                                                         *)
(* A change is its sequence number in the log.  A crash loses everything   *)
(* but the log, its counter and what each query has committed.             *)
(***************************************************************************)
EXTENDS Integers, Sequences, FiniteSetsExt

CONSTANTS
    Queries,        \* durable queries on this source
    FromStart,      \* those with enable_bootstrap and no provider: a first run replays the log
    Policies,       \* capacity policies to consider
    MaxEvents,      \* WriteAheadLogConfig.max_events
    Races,          \* which of the races named below may happen
    MaxSeq,         \* bound: changes sent
    MaxEach,        \* bound: faults of one kind
    MaxFaults       \* bound: faults

(* live_during_replay: a live change is dispatched while a subscription   *)
(*     is being set up, before its replayed changes are stamped.           *)
(* restart_after_failure: a query whose processor failed on a change is    *)
(*     started again in the same process.                                  *)
(* emptied_wal: pruning empties the log while a query that still needs     *)
(*     some of it is not subscribed.                                       *)
(* slow_prune: a subscription comes between the two halves of a pruning.   *)
(* unreported: pruning passes, or has passed, what a first-run query that  *)
(*     has committed nothing yet, and so reports nothing, has to process.  *)
AllRaces == {"live_during_replay", "restart_after_failure", "emptied_wal", "slow_prune",
             "unreported"}

ASSUME WalAssumption ==
    /\ FromStart \subseteq Queries
    /\ Policies \subseteq {"RejectIncoming", "OverwriteOldest"}
    /\ MaxEvents \in Nat \ {0}
    /\ Races \subseteq AllRaces
    /\ {MaxSeq, MaxEach, MaxFaults} \subseteq Nat

None == -1      \* no checkpoint; a handle still at u64::MAX; no handle

VARIABLES
    policy,     \* capacity_policy
    wal,        \* the log's events table
    counter,    \* the log's counter, as persisted
    head,       \* the log's counter, in memory: head_sequence
    sending,    \* the change a send has appended and not yet enqueued, or 0
    chan,       \* the application channel between send and process_events
    clock,      \* the time, as the number of stamps given
    pruning,    \* the confirmed position of the pruning under way, or 0
    phase,      \* of each query
    target,     \* of each query: the head its subscription captured
    recv,       \* of each query: its receivers, each with what is left of its replay
                \* and its live channel; only the last one is the query's own, the
                \* others belong to forwarders that a failed run left behind
    pq,         \* of each query: its priority queue
    handle,     \* of each query: its position handle
    known,      \* of each query: its config hash is stored, it has been started before
    ckpt,       \* of each query: its committed source checkpoint; also its SequenceDedup
    applied,    \* of each query: the changes in its index
    failed,     \* of each query: its processor failed in this process
    faults,     \* bound: the faults of each kind that have happened
    acked,      \* history: the changes whose send returned Ok
    base        \* history, of each query: it is owed the changes above this one

logVars == <<policy, wal, counter, head, sending, chan, acked>>
queryVars == <<phase, target, recv, pq, handle, known, ckpt, applied, failed, base>>
vars == <<policy, wal, counter, head, sending, chan, clock, pruning, phase, target, recv,
          pq, handle, known, ckpt, applied, failed, faults, acked, base>>

Event == [seq : 1..MaxSeq, ts : Nat]
Receiver == [replay : SUBSET Event, live : Seq(Event)]

TypeOK ==
    /\ policy \in Policies
    /\ wal \subseteq 1..MaxSeq
    /\ {counter, head, sending, pruning} \subseteq 0..MaxSeq
    /\ chan \in Seq(1..MaxSeq)
    /\ clock \in Nat
    /\ phase \in [Queries -> {"idle", "attached", "running", "error"}]
    /\ target \in [Queries -> 0..MaxSeq]
    /\ recv \in [Queries -> Seq(Receiver)]
    /\ pq \in [Queries -> SUBSET Event]
    /\ handle \in [Queries -> 0..MaxSeq \union {None}]
    /\ known \in [Queries -> BOOLEAN]
    /\ ckpt \in [Queries -> 1..MaxSeq \union {None}]
    /\ applied \in [Queries -> SUBSET (1..MaxSeq)]
    /\ failed \in [Queries -> BOOLEAN]
    /\ faults \in [{"crash", "retry", "other"} -> Nat]
    /\ acked \subseteq 1..MaxSeq
    /\ base \in [Queries -> 0..MaxSeq]

Init ==
    /\ policy \in Policies
    /\ wal = {} /\ counter = 0 /\ head = 0
    /\ sending = 0 /\ chan = <<>>
    /\ clock = 0 /\ pruning = 0
    /\ phase = [q \in Queries |-> "idle"]
    /\ target = [q \in Queries |-> 0]
    /\ recv = [q \in Queries |-> <<>>]
    /\ pq = [q \in Queries |-> {}]
    /\ handle = [q \in Queries |-> None]
    /\ known = [q \in Queries |-> FALSE]
    /\ ckpt = [q \in Queries |-> None]
    /\ applied = [q \in Queries |-> {}]
    /\ failed = [q \in Queries |-> FALSE]
    /\ faults = [kind \in {"crash", "retry", "other"} |-> 0]
    /\ acked = {}
    /\ base = [q \in Queries |-> 0]

\* Bound: the ends of the process, the starts of a query in Error and the
\* other faults, which are a stop, a failed or cancelled send and a change
\* that cannot be processed.
Fault(kind) ==
    /\ faults[kind] < MaxEach
    /\ faults["crash"] + faults["retry"] + faults["other"] < MaxFaults
    /\ faults' = [faults EXCEPT ![kind] = @ + 1]

----------------------------------------------------------------------------
(* The producer: ApplicationSourceHandle::send holds enqueue_order, so one *)
(* send at a time is between its append and its enqueue.                   *)

\* The table an append finds room in: at capacity RejectIncoming refuses the
\* change before it takes a sequence number, OverwriteOldest evicts.
Evicted ==
    IF Cardinality(wal) < MaxEvents THEN wal ELSE wal \ {Min(wal)}

WalAppend ==
    /\ sending = 0 /\ head < MaxSeq
    /\ policy = "RejectIncoming" => Cardinality(wal) < MaxEvents
    /\ head' = head + 1
    /\ \/ /\ wal' = Evicted \union {head + 1}
          /\ counter' = head + 1
          /\ sending' = head + 1
          /\ UNCHANGED faults
       \/ Fault("other") /\ UNCHANGED <<wal, counter, sending>>      \* the transaction fails
    /\ UNCHANGED <<policy, chan, acked, clock, pruning, queryVars>>

Enqueue ==
    /\ sending # 0
    /\ chan' = Append(chan, sending)
    /\ acked' = acked \union {sending}
    /\ sending' = 0
    /\ UNCHANGED <<policy, wal, counter, head, clock, pruning, faults, queryVars>>

\* The caller drops the future of a send that waits for room in the channel.
CancelSend ==
    /\ sending # 0
    /\ sending' = 0
    /\ Fault("other")
    /\ UNCHANGED <<policy, wal, counter, head, chan, acked, clock, pruning, queryVars>>

----------------------------------------------------------------------------
(* The source: process_events, the pruning task and subscribe.             *)

\* process_events takes the next change and dispatch_event sends it to every
\* dispatcher, in one order and with one timestamp.
Dispatch ==
    /\ chan # <<>>
    /\ "live_during_replay" \in Races \/ \A q \in Queries : phase[q] # "attached"
    /\ clock' = clock + 1
    /\ LET live == [seq |-> Head(chan), ts |-> clock']
       IN recv' = [q \in Queries |->
                     [i \in DOMAIN recv[q] |-> [recv[q][i] EXCEPT !.live = Append(@, live)]]]
    /\ chan' = Tail(chan)
    /\ UNCHANGED <<policy, wal, counter, head, sending, acked, pruning, phase, target, pq,
                   handle, known, ckpt, applied, failed, faults, base>>

\* What a query is owed: the acknowledged changes above its base.
Owed(q) == {n \in acked : n > base[q]}

\* Mutant: the watermark follows the fastest subscriber.
ConfirmedFastest ==
    LET reported == {handle[q] : q \in {p \in Queries : phase[p] = "running"}} \ {None}
    IN IF reported = {} THEN 0 ELSE Max(reported)

\* Mutant: a subscriber that has not reported yet holds the watermark at zero.
ConfirmedByAll ==
    LET reported == {handle[q] : q \in {p \in Queries : phase[p] = "running"}}
    IN IF reported = {} \/ None \in reported THEN 0 ELSE Min(reported)

\* compute_confirmed_position: the least position a subscriber has reported.
\* A handle whose query has gone is dropped first (cleanup_stale_handles).
Confirmed ==
    LET reported == {handle[q] : q \in {p \in Queries : phase[p] = "running"}} \ {None}
    IN IF reported = {} THEN 0 ELSE Min(reported)

PruneCompute ==
    /\ pruning = 0
    /\ "slow_prune" \in Races \/ \A q \in Queries : phase[q] # "attached"
    /\ \/ "unreported" \in Races
       \/ \A q \in Queries : phase[q] = "running" /\ handle[q] = None =>
             \A n \in Owed(q) \union {sending} : n = 0 \/ n > Confirmed
    /\ \E n \in wal : n <= Confirmed
    /\ pruning' = Confirmed
    /\ UNCHANGED <<logVars, clock, queryVars, faults>>

\* subscribe replays for a query with a checkpoint, for one that asks for a
\* bootstrap the source has no provider for, and for one that has been
\* started before and asks for everything (resume_sequence = 0).
Replays(q) == ckpt[q] # None \/ q \in FromStart \/ known[q]

\* What a query that is not subscribed will ask the log for: the changes
\* above its checkpoint, or all of them.
Wants(q) ==
    IF ckpt[q] # None THEN ckpt[q] ELSE IF Replays(q) THEN 0 ELSE MaxSeq

Pruned == {n \in wal : n > pruning}

PruneUpTo ==
    /\ pruning # 0
    /\ \/ "emptied_wal" \in Races
       \/ Pruned # {}
       \/ \A q \in Queries : phase[q] # "running" => Wants(q) >= pruning
    /\ wal' = Pruned
    /\ pruning' = 0
    /\ UNCHANGED <<policy, counter, head, sending, chan, acked, clock, queryVars, faults>>

\* A start may follow a stop or a failed start; after a failed processor only
\* as the race it is.  The queue keeps what was in it.
CanStart(q) ==
    /\ phase[q] \in {"idle", "error"}
    /\ failed[q] => "restart_after_failure" \in Races
    /\ "slow_prune" \in Races \/ pruning = 0
    /\ IF phase[q] = "error" THEN Fault("retry") ELSE UNCHANGED faults

\* A new dispatcher's receiver, and the receivers without the query's own.
NewReceiver == [replay |-> {}, live |-> <<>>]
WithoutOwn(q) == SubSeq(recv[q], 1, Len(recv[q]) - 1)

\* Mutant: the captured head is the next sequence number.
AttachNext(q) ==
    /\ CanStart(q)
    /\ Replays(q)
    /\ known' = [known EXCEPT ![q] = TRUE]
    /\ phase' = [phase EXCEPT ![q] = "attached"]
    /\ target' = [target EXCEPT ![q] = head + 1]
    /\ recv' = [recv EXCEPT ![q] = Append(@, NewReceiver)]
    /\ UNCHANGED <<logVars, clock, pruning, pq, handle, ckpt, applied, failed, base>>

\* subscribe_with_replay, under the dispatchers' lock: the head is read and
\* the dispatcher added.  After a failed processor the old receiver stays.
Attach(q) ==
    /\ CanStart(q)
    /\ Replays(q)
    /\ known' = [known EXCEPT ![q] = TRUE]
    /\ phase' = [phase EXCEPT ![q] = "attached"]
    /\ target' = [target EXCEPT ![q] = head]
    /\ recv' = [recv EXCEPT ![q] = Append(@, NewReceiver)]
    /\ UNCHANGED <<logVars, clock, pruning, pq, handle, ckpt, applied, failed, base>>

Resume(q) == IF ckpt[q] = None THEN 0 ELSE ckpt[q]

\* read_from: a position below the oldest change in the log is unavailable,
\* unless the log is empty.
Unavailable(q) ==
    Resume(q) < target[q] /\ wal # {} /\ Resume(q) + 1 < Min(wal)

\* The changes of a replay, stamped as they are read.
Stamped(found) == {[seq |-> n, ts |-> clock + 1] : n \in found}

\* Mutant: the change after the checkpoint is taken for one already seen.
ReplayedLate(q) == Stamped({n \in wal : Resume(q) + 1 < n /\ n <= target[q]})

\* Mutant: the head itself is left to the live stream.
ReplayedBelowHead(q) == Stamped({n \in wal : Resume(q) < n /\ n < target[q]})

\* The changes to replay: above the checkpoint, up to the captured head.
Replayed(q) == Stamped({n \in wal : Resume(q) < n /\ n <= target[q]})

\* The rest of subscribe_with_replay, without the lock: the log is read, the
\* replay put in front of the live receiver and the handle set.
ReadWal(q) ==
    /\ phase[q] = "attached"
    /\ ~Unavailable(q)
    /\ target' = [target EXCEPT ![q] = 0]
    /\ recv' = [recv EXCEPT ![q][Len(recv[q])].replay = Replayed(q)]
    /\ handle' = [handle EXCEPT ![q] = Resume(q)]
    /\ phase' = [phase EXCEPT ![q] = "running"]
    /\ clock' = clock + 1
    /\ UNCHANGED <<logVars, pruning, pq, known, ckpt, applied, failed, faults, base>>

\* The subscription fails: its receiver is dropped and the query is in Error,
\* whatever its recovery policy (a WalError is not a SourceError).
ReadWalFails(q) ==
    /\ phase[q] = "attached"
    /\ Unavailable(q)
    /\ target' = [target EXCEPT ![q] = 0]
    /\ recv' = [recv EXCEPT ![q] = WithoutOwn(q)]
    /\ handle' = [handle EXCEPT ![q] = None]
    /\ phase' = [phase EXCEPT ![q] = "error"]
    /\ UNCHANGED <<logVars, clock, pruning, pq, known, ckpt, applied, failed, faults, base>>

\* subscribe_with_bootstrap without a bootstrap: the query sees what is
\* dispatched from now on, and its handle stays at u64::MAX.
SubscribeLive(q) ==
    /\ CanStart(q)
    /\ ~Replays(q)
    /\ known' = [known EXCEPT ![q] = TRUE]
    /\ "unreported" \in Races \/ Range(chan) \union ({sending} \ {0}) \subseteq wal
    /\ recv' = [recv EXCEPT ![q] = Append(@, NewReceiver)]
    /\ handle' = [handle EXCEPT ![q] = None]
    /\ phase' = [phase EXCEPT ![q] = "running"]
    /\ base' = [base EXCEPT ![q] = IF chan # <<>> THEN Head(chan) - 1
                                   ELSE IF sending # 0 THEN sending - 1 ELSE head]
    /\ UNCHANGED <<logVars, clock, pruning, target, pq, ckpt, applied, failed>>

----------------------------------------------------------------------------
(* The query.                                                              *)

\* ReplayThenLiveReceiver: the replay in the order of the log, then the live
\* channel.
Received(r) ==
    IF r.replay # {} THEN CHOOSE e \in r.replay : \A f \in r.replay : e.seq <= f.seq
    ELSE Head(r.live)

Rest(r) ==
    IF r.replay # {} THEN [r EXCEPT !.replay = @ \ {Received(r)}]
    ELSE [r EXCEPT !.live = Tail(@)]

\* A forwarder moves the next change of its receiver into the queue.  One
\* that a failed run left behind goes on doing so.
Forward(q) ==
    \E i \in DOMAIN recv[q] :
        /\ phase[q] = "attached" => i < Len(recv[q])
        /\ recv[q][i] # NewReceiver
        /\ pq' = [pq EXCEPT ![q] = @ \union {Received(recv[q][i])}]
        /\ recv' = [recv EXCEPT ![q][i] = Rest(@)]
        /\ UNCHANGED <<logVars, clock, pruning, phase, target, handle, known, ckpt, applied, failed,
                       faults, base>>

\* The queue's order for one source: by time, then by sequence.
Before(e, f) == e.ts < f.ts \/ (e.ts = f.ts /\ e.seq < f.seq)

NextEvent(q) == CHOOSE e \in pq[q] : \A f \in pq[q] \ {e} : Before(e, f)

\* Mutant: the filter is one ahead of the checkpoint.
ShouldSkipNext(q, n) == ckpt[q] # None /\ n <= ckpt[q] + 1

\* SequenceDedup::should_skip.
ShouldSkip(q, n) == ckpt[q] # None /\ n <= ckpt[q]

\* The processor takes the next change.  Unless it is a duplicate, the index
\* and the checkpoint are committed together and the handle follows.
Process(q) ==
    /\ phase[q] = "running" /\ pq[q] # {}
    /\ LET e == NextEvent(q)
           n == e.seq
       IN /\ pq' = [pq EXCEPT ![q] = @ \ {e}]
          /\ IF ShouldSkip(q, n)
             THEN UNCHANGED <<ckpt, applied, handle>>
             ELSE /\ ckpt' = [ckpt EXCEPT ![q] = n]
                  /\ applied' = [applied EXCEPT ![q] = @ \union {n}]
                  /\ handle' = [handle EXCEPT ![q] = n]
    /\ UNCHANGED <<logVars, clock, pruning, phase, target, recv, known, failed, faults, base>>

\* The change cannot be processed: it is gone from the queue, the processor
\* ends, and with it the last reference to the handle.
ProcessFails(q) ==
    /\ phase[q] = "running" /\ pq[q] # {}
    /\ ~ShouldSkip(q, NextEvent(q).seq)
    /\ Fault("other")
    /\ pq' = [pq EXCEPT ![q] = @ \ {NextEvent(q)}]
    /\ phase' = [phase EXCEPT ![q] = "error"]
    /\ handle' = [handle EXCEPT ![q] = None]
    /\ failed' = [failed EXCEPT ![q] = TRUE]
    /\ UNCHANGED <<logVars, clock, pruning, target, recv, known, ckpt, applied, base>>

\* DrasiQuery::stop: its own forwarder is aborted and its handle released;
\* the queue is left as it is.
Stop(q) ==
    /\ phase[q] \in {"running", "error"}
    /\ Fault("other")
    /\ phase' = [phase EXCEPT ![q] = "idle"]
    /\ recv' = [recv EXCEPT ![q] = IF phase[q] = "running" \/ failed[q] THEN WithoutOwn(q) ELSE @]
    /\ handle' = [handle EXCEPT ![q] = None]
    /\ UNCHANGED <<logVars, clock, pruning, target, pq, known, ckpt, applied, failed, base>>

----------------------------------------------------------------------------
\* The process ends and comes back: the log is opened again and the queries
\* are yet to be started.
Crash ==
    /\ Fault("crash")
    /\ head' = counter
    /\ sending' = 0 /\ chan' = <<>> /\ clock' = 0 /\ pruning' = 0
    /\ phase' = [q \in Queries |-> "idle"]
    /\ target' = [q \in Queries |-> 0]
    /\ recv' = [q \in Queries |-> <<>>]
    /\ pq' = [q \in Queries |-> {}]
    /\ handle' = [q \in Queries |-> None]
    /\ failed' = [q \in Queries |-> FALSE]
    /\ UNCHANGED <<policy, wal, counter, acked, known, ckpt, applied, base>>

Next ==
    \/ WalAppend \/ Enqueue \/ CancelSend
    \/ Dispatch \/ PruneCompute \/ PruneUpTo
    \/ \E q \in Queries :
          \/ Attach(q) \/ ReadWal(q) \/ ReadWalFails(q) \/ SubscribeLive(q)
          \/ Forward(q) \/ Process(q) \/ ProcessFails(q) \/ Stop(q)
    \/ Crash

Spec == Init /\ [][Next]_vars

(* Tokio runs every task that can run: a send, the source's processor, its  *)
(* pruning task, a start once it is under way, the forwarders, the processor.      *)
Fairness ==
    /\ WF_vars(Enqueue) /\ WF_vars(Dispatch) /\ WF_vars(PruneCompute) /\ WF_vars(PruneUpTo)
    /\ \A q \in Queries :
          /\ WF_vars(ReadWal(q)) /\ WF_vars(ReadWalFails(q))
          /\ WF_vars(Forward(q)) /\ WF_vars(Process(q))

FairSpec == Spec /\ Fairness

----------------------------------------------------------------------------
(* A query's checkpoint never passes over a change: every acknowledged     *)
(* change at or below it is in the query's index.  Crashes, restarts,      *)
(* pruning, eviction, rejected and half-done sends, replays that overlap   *)
(* the live stream and what an earlier run left in the queue are all       *)
(* allowed; where a start cannot have what it needs, it must fail.         *)
NoHole ==
    \A q \in Queries : \A n \in Owed(q) : n <= ckpt[q] => n \in applied[q]

(* While a query runs, a change it still has to see is on its way to it:   *)
(* in the source's channel, in its own receiver or in its queue.           *)
OnItsWay ==
    \A q \in Queries : phase[q] = "running" =>
        \A n \in Owed(q) \ applied[q] :
            \/ n \in Range(chan)
            \/ \E e \in recv[q][Len(recv[q])].replay \union Range(recv[q][Len(recv[q])].live)
                        \union pq[q] : e.seq = n

(* With RejectIncoming, pruning keeps what a subscribed query has not      *)
(* committed: were the process to end now, the query could resume.         *)
UnconfirmedKept ==
    policy = "RejectIncoming" =>
        \A q \in Queries : phase[q] = "running" /\ handle[q] # None =>
            \A n \in Owed(q) \ applied[q] : n \in wal

(* A change that was acknowledged reaches every query that keeps running.  *)
EventuallyApplied ==
    \A q \in Queries : \A n \in 1..MaxSeq :
        (n \in Owed(q) /\ phase[q] = "running")
            ~> (n \in applied[q] \/ phase[q] # "running")

Full == Cardinality(wal) >= MaxEvents

(* A full log does not refuse changes for ever: while the queries run and  *)
(* one that reports its position is owed a change in the log, or has had   *)
(* it, there will be room.                                                 *)
FullDrains ==
    (policy = "RejectIncoming" /\ Full /\ \E q \in Queries : handle[q] # None /\ wal \intersect Owed(q) # {})
        ~> (~Full \/ \E q \in Queries : phase[q] # "running")

=============================================================================
