----------------------------- MODULE CdcSource -----------------------------
(***************************************************************************)
(* The PostgreSQL source and the durable queries that resume on it: its    *)
(* replication task, rewinds, flush fence and feedback (components/        *)
(* sources/postgres/src/lib.rs and stream.rs), SourceBase's sequence       *)
(* numbers, position map, handles and per-subscriber position filter       *)
(* (lib/src/sources/base.rs), and the query's checkpoint, queue and        *)
(* duplicate filter (lib/src/queries/manager.rs).                          *)
(*                                                                         *)
(* A change is its place in the database's log, which is given whole: that *)
(* a change is committed shows only when the stream delivers it.  A        *)
(* transaction is a run of changes with one commit LSN.  A rewind sends a  *)
(* change again under a new sequence number, so only the filter on         *)
(* positions can keep it from a query that has it.  The replication slot   *)
(* is external: it serves every transaction from its flush position on,    *)
(* whatever start is asked for.                                            *)
(***************************************************************************)
EXTENDS Integers, Sequences, FiniteSetsExt

CONSTANTS
    Queries,    \* durable queries, bootstrapped on the empty database
    Txn,        \* the transaction of each change: a nondecreasing sequence
    Races,      \* which of the races named below may happen
    MaxEach,    \* bound: faults of one kind
    MaxFaults   \* bound: faults

(* leftover_queue: a query is stopped with changes in its queue and        *)
(*     started again in the same process.                                  *)
(* stream_moves_on: a change is dispatched after a subscription found that *)
(*     it needs no rewind and before its dispatcher and filter are in place.*)
(* abort_mid_dispatch: the replication task is aborted after some of the   *)
(*     subscribers got a change and before their marks were moved.         *)
(* feedback_overtakes: the slot advances past the resume position of a     *)
(*     subscription under way, which no handle reports yet.                *)
(* starts_ahead: a subscription to a source in Error starts the stream at  *)
(*     its own position, beyond what another subscriber has been sent.     *)
(* map_kept: a query subscribes without a rewind to a stream that started  *)
(*     again and kept its position map.                                    *)
(* restart_lags: the slot's restart_lsn, which the check reads, is behind  *)
(*     its confirmed flush position.                                       *)
AllRaces == {"leftover_queue", "stream_moves_on", "abort_mid_dispatch", "feedback_overtakes",
             "starts_ahead", "map_kept", "restart_lags"}

Changes == 1..Len(Txn)

ASSUME CdcAssumption ==
    /\ Txn \in Seq(Nat \ {0})
    /\ \A c \in Changes \ {1} : Txn[c] \in {Txn[c - 1], Txn[c - 1] + 1}
    /\ Races \subseteq AllRaces
    /\ {MaxEach, MaxFaults} \subseteq Nat

\* The commit LSN of a position, the end of its commit record, and the
\* position of the snapshot the queries were bootstrapped from.
Lsn(p) == IF p = 0 THEN 1 ELSE 2 * Txn[p]
EndLsn(p) == Lsn(p) + 1
NoFence == EndLsn(Len(Txn)) + 1
None == -1      \* no handle, or one at u64::MAX; no explicit start_lsn

VARIABLES
    flush,      \* slot: confirmed_flush_lsn
    restart,    \* slot: restart_lsn
    status,     \* source: "stopped", "running", "error"
    task,       \* source: whether the replication task is streaming
    start,      \* source: start_lsn of the replication task
    next,       \* source: the change it will dispatch next
    read,       \* source: replay_state.read_lsn
    fence,      \* source: flush_fence_lsn
    seq,        \* source: next_sequence
    positions,  \* source: sequence_position_map, as a set of pairs
    phase,      \* of each query
    rewind,     \* of each query: restart_from of the subscription under way
    attached,   \* of each query: it has a dispatcher
    mark,       \* of each query: subscriber_resume_positions of that dispatcher
    box,        \* of each query: its dispatcher's channel
    queue,      \* of each query: its priority queue
    handle,     \* of each query: its position handle
    ckpt,       \* of each query: its committed checkpoint
    applied,    \* of each query: the changes its index has absorbed, in order
    ready,      \* subscriptions_complete has been called
    faults      \* bound: the faults of each kind that have happened

slot == <<flush, restart>>
stream == <<status, task, start, next, read>>
queryVars == <<phase, rewind, attached, mark, box, queue, handle, ckpt, applied>>
vars == <<flush, restart, status, task, start, next, read, fence, seq, positions,
          phase, rewind, attached, mark, box, queue, handle, ckpt, applied, ready, faults>>

Event == [seq : Nat \ {0}, pos : Changes]

TypeOK ==
    /\ {flush, restart, read} \subseteq 0..NoFence
    /\ status \in {"stopped", "running", "error"}
    /\ task \in BOOLEAN
    /\ start \in 0..NoFence \union {None}
    /\ next \in 1..Len(Txn) + 1
    /\ fence \in 0..NoFence
    /\ seq \in Nat \ {0}
    /\ positions \subseteq Event /\ \A e \in positions : e.seq < seq
    /\ phase \in [Queries -> {"idle", "checked", "attached", "filtered", "running", "error"}]
    /\ rewind \in [Queries -> 0..NoFence \union {None}]
    /\ attached \in [Queries -> BOOLEAN]
    /\ mark \in [Queries -> Changes \union {0, None}]
    /\ box \in [Queries -> Seq(Event)]
    /\ queue \in [Queries -> Seq(Event)]
    /\ handle \in [Queries -> Nat \union {None}]
    /\ ckpt \in [Queries -> [seq : Nat, pos : Changes \union {0}]]
    /\ applied \in [Queries -> Seq(Changes)]
    /\ ready \in BOOLEAN
    /\ faults \in [{"crash", "other"} -> Nat]

Init ==
    /\ flush = 1 /\ restart = 1
    /\ status = "stopped" /\ task = FALSE /\ start = None /\ next = 1
    /\ read = 0 /\ fence = NoFence /\ seq = 1 /\ positions = {}
    /\ phase = [q \in Queries |-> "idle"]
    /\ rewind = [q \in Queries |-> None]
    /\ attached = [q \in Queries |-> FALSE]
    /\ mark = [q \in Queries |-> None]
    /\ box = [q \in Queries |-> <<>>]
    /\ queue = [q \in Queries |-> <<>>]
    /\ handle = [q \in Queries |-> None]
    /\ ckpt = [q \in Queries |-> [seq |-> 0, pos |-> 0]]
    /\ applied = [q \in Queries |-> <<>>]
    /\ ready = FALSE
    /\ faults = [kind \in {"crash", "other"} |-> 0]

\* Bound: the ends of the process, and the other faults, which are a stop, a
\* lost or refused connection and an expired fence.
Fault(kind) ==
    /\ faults[kind] < MaxEach /\ faults["crash"] + faults["other"] < MaxFaults
    /\ faults' = [faults EXCEPT ![kind] = @ + 1]

----------------------------------------------------------------------------
(* The replication slot.                                                   *)

\* START_REPLICATION: the first change of the first transaction at or after
\* the start, or after the flush position when the start is before it.
FirstFrom(lsn) ==
    Min({c \in Changes : Lsn(c) >= Max({lsn, flush})} \union {Len(Txn) + 1})

----------------------------------------------------------------------------
(* The source.                                                             *)

\* A subscription holds the source's subscribe_lock, and then waits for the
\* query's other subscriptions before its handle is seeded.
Subscribing(q) == phase[q] \in {"checked", "attached"}
UnderWay(q) == Subscribing(q) \/ phase[q] = "filtered"

\* The commit LSN of the query's checkpointed position.
ResumeLsn(q) == Lsn(ckpt[q].pos)

\* connect_and_setup with an optional start.
Connect(lsn) ==
    LET from == IF lsn = None THEN flush ELSE lsn
    IN /\ task' = TRUE
       /\ start' = lsn
       /\ read' = from
       /\ next' = FirstFrom(from)

\* abort_and_join_task, or a task that ends: its stream goes with it.
EndTask == task' = FALSE /\ start' = None /\ next' = 1

\* start and spawn_replication_task; the slot decides where the stream begins.
StartSource ==
    /\ status # "running"
    /\ \A q \in Queries : ~UnderWay(q)
    /\ status' = "running"
    /\ Connect(None)
    /\ UNCHANGED <<slot, fence, seq, positions, queryVars, ready, faults>>

\* Between transactions: only then does the task read messages.
AtBoundary == \A c \in Changes \ {1} : c = next => Txn[c] # Txn[c - 1]

\* dispatch_event to the subscribers in who: those whose mark the change
\* passes get it, under the next sequence number.
\* Mutant: the mark itself passes.
PassesMark(q, p) == mark[q] = None \/ p >= mark[q]
Passes(q, p) == mark[q] = None \/ p > mark[q]

Delivered(who) ==
    [q \in Queries |->
       IF q \in who /\ attached[q] /\ Passes(q, next)
       THEN Append(box[q], [seq |-> seq, pos |-> next]) ELSE box[q]]

\* next_sequence, a fetch_add.
\* Mutant: the number is read and not taken.
SameSequence == seq
NextSequence == seq + 1

\* The replication task handles a committed transaction, change by change.
Dispatch ==
    /\ task /\ next <= Len(Txn)
    /\ "stream_moves_on" \in Races \/ \A q \in Queries : Subscribing(q) => rewind[q] # None
    /\ box' = Delivered(Queries)
    /\ mark' = [q \in Queries |-> IF attached[q] /\ Passes(q, next) THEN next ELSE mark[q]]
    /\ seq' = NextSequence
    /\ positions' = positions \union {[seq |-> seq, pos |-> next]}
    /\ read' = EndLsn(next)
    /\ next' = next + 1
    /\ UNCHANGED <<slot, status, task, start, fence, phase, rewind, attached, queue, handle,
                   ckpt, applied, ready, faults>>

\* handle_keepalive: the server tells how far it has read its log.
Keepalive ==
    /\ task /\ AtBoundary
    /\ read' = Max({read, EndLsn(next - 1)})
    /\ UNCHANGED <<slot, status, task, start, next, fence, seq, positions, queryVars, ready, faults>>

\* The connection is lost: recover_connection starts where the task started.
Reconnect ==
    /\ task /\ AtBoundary
    /\ Fault("other")
    /\ Connect(start)
    /\ UNCHANGED <<slot, status, fence, seq, positions, queryVars, ready>>

\* It cannot be recovered: the task ends and the source is in Error.
StreamFails ==
    /\ task /\ AtBoundary
    /\ Fault("other")
    /\ EndTask /\ status' = "error"
    /\ UNCHANGED <<slot, read, fence, seq, positions, queryVars, ready>>

\* compute_confirmed_position and the position it maps to: that of the
\* largest recorded sequence number at or below it.
\* Mutant: the fastest subscriber decides.
FastestSeq ==
    LET reported == {handle[q] : q \in Queries} \ {None}
    IN IF reported = {} THEN None ELSE Max(reported)

ConfirmedSeq ==
    LET reported == {handle[q] : q \in Queries} \ {None}
    IN IF reported = {} THEN None ELSE Min(reported)

ConfirmedLsn ==
    LET below == {e \in positions : e.seq <= ConfirmedSeq}
    IN IF below = {} THEN 0
       ELSE Lsn((CHOOSE e \in below : \A f \in below : f.seq <= e.seq).pos)

\* send_feedback: the slot's flush position follows, up to the fence, and the
\* map is pruned if the fence did not hold it back.
Feedback ==
    /\ task /\ AtBoundary
    /\ LET sent == Min({ConfirmedLsn, fence})
       IN /\ sent > 0
          /\ "feedback_overtakes" \in Races
                \/ \A q \in Queries : UnderWay(q) => sent <= ResumeLsn(q)
          /\ flush' = Max({flush, sent})
          /\ IF "restart_lags" \in Races THEN restart' \in restart..flush' ELSE restart' = flush'
          /\ positions' = IF sent = ConfirmedLsn
                          THEN {e \in positions : e.seq > ConfirmedSeq} ELSE positions
    /\ UNCHANGED <<stream, fence, seq, queryVars, ready, faults>>

\* stop: the subscribers lose their channels, the stream its progress.
StopSource ==
    /\ status # "stopped"
    /\ \A q \in Queries : ~UnderWay(q)
    /\ Fault("other")
    /\ status' = "stopped" /\ EndTask /\ read' = 0
    /\ fence' = NoFence /\ positions' = {}
    /\ attached' = [q \in Queries |-> FALSE]
    /\ mark' = [q \in Queries |-> None]
    /\ UNCHANGED <<slot, seq, phase, rewind, box, queue, handle, ckpt, applied, ready>>

----------------------------------------------------------------------------
(* subscribe, under subscribe_lock.                                        *)

NeedsRewind(q) == status # "running" \/ read = 0 \/ ResumeLsn(q) < read

\* The resume position is looked up in the slot, and compared with where the
\* stream is.
Check(q) ==
    /\ phase[q] \in {"idle", "error"}
    /\ \A p \in Queries : ~Subscribing(p)
    /\ "starts_ahead" \in Races \/ status # "error"
         \/ \A p \in Queries : attached[p] => ResumeLsn(q) <= Lsn(mark[p])
    /\ "map_kept" \in Races \/ NeedsRewind(q) \/ \A e \in positions : e.pos < next
    /\ IF ResumeLsn(q) < restart
       THEN phase' = [phase EXCEPT ![q] = "error"] /\ UNCHANGED rewind
       ELSE /\ phase' = [phase EXCEPT ![q] = "checked"]
            /\ rewind' = [rewind EXCEPT ![q] = IF NeedsRewind(q) THEN ResumeLsn(q) ELSE None]
    /\ UNCHANGED <<slot, stream, fence, seq, positions, attached, mark, box, queue, handle,
                   ckpt, applied, ready, faults>>

\* pause_replication_for_restart: the task is aborted, the map cleared and
\* the fence set.
Quiesce(q) ==
    IF rewind[q] = None
    THEN UNCHANGED <<task, start, next, positions, fence>>
    ELSE EndTask /\ positions' = {} /\ fence' = rewind[q]

\* The subscribers that have the change whose dispatch the abort cuts short.
Caught(q) ==
    IF "abort_mid_dispatch" \in Races /\ rewind[q] # None /\ task /\ next <= Len(Txn)
    THEN SUBSET Queries ELSE {{}}

\* raise_sequence_floor.
\* Mutant: the numbers start again at one.
NoFloor(q) == 1
Floor(q) == ckpt[q].seq + 1

\* The rewind's first half, then a dispatcher for the query and a sequence
\* raised above its checkpoint.
Attach(q) ==
    /\ phase[q] = "checked"
    /\ Quiesce(q)
    /\ \E who \in Caught(q) :
          /\ box' = [Delivered(who) EXCEPT ![q] = <<>>]
          /\ seq' = Max({seq + Cardinality({1 : p \in who}), Floor(q)})
    /\ phase' = [phase EXCEPT ![q] = "attached"]
    /\ attached' = [attached EXCEPT ![q] = TRUE]
    /\ mark' = [mark EXCEPT ![q] = None]
    /\ UNCHANGED <<slot, status, read, rewind, queue, handle, ckpt, applied, ready, faults>>

\* The resume position becomes the new dispatcher's mark, a handle is made,
\* and the stream goes on from the position asked for.
Filter(q) ==
    /\ phase[q] = "attached"
    /\ mark' = [mark EXCEPT ![q] = ckpt[q].pos]
    /\ handle' = [handle EXCEPT ![q] = None]
    /\ IF rewind[q] = None THEN UNCHANGED stream
       ELSE status' = "running" /\ Connect(rewind[q])
    /\ phase' = [phase EXCEPT ![q] = "filtered"]
    /\ rewind' = [rewind EXCEPT ![q] = None]
    /\ UNCHANGED <<slot, fence, seq, positions, attached, box, queue, ckpt, applied, ready, faults>>

\* The replication connection cannot be made: subscribe and start fail.
ResumeFails(q) ==
    /\ phase[q] = "attached" /\ rewind[q] # None
    /\ Fault("other")
    /\ status' = "error"
    /\ phase' = [phase EXCEPT ![q] = "error"]
    /\ rewind' = [rewind EXCEPT ![q] = None]
    /\ attached' = [attached EXCEPT ![q] = FALSE]
    /\ mark' = [mark EXCEPT ![q] = None]
    /\ handle' = [handle EXCEPT ![q] = None]
    /\ UNCHANGED <<slot, task, start, next, read, fence, seq, positions, box, queue, ckpt, applied,
                   ready>>

----------------------------------------------------------------------------
(* The query.                                                              *)

\* DrasiQuery::start reports the checkpoint on the handle and runs.
Seed(q) ==
    /\ phase[q] = "filtered"
    /\ handle' = [handle EXCEPT ![q] = ckpt[q].seq]
    /\ phase' = [phase EXCEPT ![q] = "running"]
    /\ UNCHANGED <<slot, stream, fence, seq, positions, rewind, attached, mark, box, queue, ckpt,
                   applied, ready, faults>>

Forward(q) ==
    /\ phase[q] = "running" /\ box[q] # <<>>
    /\ queue' = [queue EXCEPT ![q] = Append(@, Head(box[q]))]
    /\ box' = [box EXCEPT ![q] = Tail(@)]
    /\ UNCHANGED <<slot, stream, fence, seq, positions, phase, rewind, attached, mark, handle,
                   ckpt, applied, ready, faults>>

\* The processor: the duplicate filter is on sequence numbers.
ShouldSkip(q, e) == e.seq <= ckpt[q].seq

Process(q) ==
    /\ phase[q] = "running" /\ queue[q] # <<>>
    /\ LET e == Head(queue[q])
       IN IF ShouldSkip(q, e) THEN UNCHANGED <<ckpt, applied, handle>>
          ELSE /\ ckpt' = [ckpt EXCEPT ![q] = e]
               /\ applied' = [applied EXCEPT ![q] = Append(@, e.pos)]
               /\ handle' = [handle EXCEPT ![q] = e.seq]
    /\ queue' = [queue EXCEPT ![q] = Tail(@)]
    /\ UNCHANGED <<slot, stream, fence, seq, positions, phase, rewind, attached, mark, box, ready,
                   faults>>

\* DrasiQuery::stop: the receiver and the handle go, the queue stays.
Stop(q) ==
    /\ phase[q] = "running"
    /\ "leftover_queue" \in Races \/ queue[q] = <<>>
    /\ Fault("other")
    /\ phase' = [phase EXCEPT ![q] = "idle"]
    /\ attached' = [attached EXCEPT ![q] = FALSE]
    /\ mark' = [mark EXCEPT ![q] = None]
    /\ box' = [box EXCEPT ![q] = <<>>]
    /\ handle' = [handle EXCEPT ![q] = None]
    /\ UNCHANGED <<slot, stream, fence, seq, positions, rewind, queue, ckpt, applied, ready>>

----------------------------------------------------------------------------
(* The process.                                                            *)

\* start_components: every query has been started, well or badly.
SubscriptionsComplete ==
    /\ ~ready /\ status = "running"
    /\ \A q \in Queries : phase[q] \in {"running", "error"}
    /\ fence' = NoFence
    /\ ready' = TRUE
    /\ UNCHANGED <<slot, stream, seq, positions, queryVars, faults>>

\* effective_flush_fence gives up after FENCE_TIMEOUT_SECS; no subscription
\* takes that long.
FenceTimeout ==
    /\ fence # NoFence
    /\ \A q \in Queries : ~UnderWay(q)
    /\ Fault("other")
    /\ fence' = NoFence
    /\ UNCHANGED <<slot, stream, seq, positions, queryVars, ready>>

Crash ==
    /\ Fault("crash")
    /\ status' = "stopped" /\ EndTask /\ read' = 0
    /\ fence' = NoFence /\ seq' = 1 /\ positions' = {}
    /\ phase' = [q \in Queries |-> "idle"]
    /\ rewind' = [q \in Queries |-> None]
    /\ attached' = [q \in Queries |-> FALSE]
    /\ mark' = [q \in Queries |-> None]
    /\ box' = [q \in Queries |-> <<>>]
    /\ queue' = [q \in Queries |-> <<>>]
    /\ handle' = [q \in Queries |-> None]
    /\ ready' = FALSE
    /\ UNCHANGED <<slot, ckpt, applied>>

Next ==
    \/ StartSource \/ Dispatch \/ Keepalive \/ Reconnect \/ StreamFails \/ Feedback \/ StopSource
    \/ \E q \in Queries :
          \/ Check(q) \/ Attach(q) \/ Filter(q) \/ ResumeFails(q)
          \/ Seed(q) \/ Forward(q) \/ Process(q) \/ Stop(q)
    \/ SubscriptionsComplete \/ FenceTimeout \/ Crash

Spec == Init /\ [][Next]_vars

(* The replication task, a subscription under way, the forwarders and the  *)
(* processors are tasks that tokio runs as long as they can run.           *)
Fairness ==
    /\ WF_vars(Dispatch)
    /\ \A q \in Queries :
          /\ WF_vars(Attach(q)) /\ WF_vars(Filter(q)) /\ WF_vars(Seed(q))
          /\ WF_vars(Forward(q)) /\ WF_vars(Process(q))

FairSpec == Spec /\ Fairness

----------------------------------------------------------------------------
(* Every query's index absorbs the changes of the database each once, in   *)
(* order and without a gap, through rewinds for itself and for others,     *)
(* reconnections, crashes, and a slot that advances.                       *)
ExactlyOnce ==
    \A q \in Queries : \A i \in DOMAIN applied[q] : applied[q][i] = i

(* The slot still serves what a running query has not committed.           *)
SlotServes ==
    \A q \in Queries : phase[q] = "running" => flush <= ResumeLsn(q)

(* A fence keeps the slot where the queries yet to subscribe need it: it   *)
(* is set "to prevent the slot's restart_lsn from advancing past the        *)
(* position that other (not-yet-subscribed) queries will need"             *)
(* (components/sources/postgres/src/lib.rs:217).                           *)
FenceProtects ==
    [][\A q \in Queries : fence # NoFence /\ phase[q] = "idle" /\ flush <= ResumeLsn(q)
                            => flush' <= ResumeLsn(q)]_vars

(* A committed change reaches every query that stays subscribed to a       *)
(* stream that stays up.                                                   *)
EventuallyApplied ==
    \A q \in Queries : \A c \in Changes :
        (phase[q] = "running" /\ attached[q] /\ task)
            ~> (Len(applied[q]) >= c \/ phase[q] # "running" \/ ~attached[q] \/ ~task)

=============================================================================
