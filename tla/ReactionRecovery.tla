-------------------------- MODULE ReactionRecovery --------------------------
(***************************************************************************)
(* A durable reaction on one query, over stops, crashes and rebuilds of    *)
(* the query: ReactionManager::start_reaction, its forwarder and its gap   *)
(* recovery (lib/src/reactions/manager.rs), the standard processing loop   *)
(* (reactions/common/base.rs) and CheckpointState (checkpoint_state.rs).   *)
(*                                                                         *)
(* The query is the result log it promises to be (ResultLog, which         *)
(* DurableQuery implements), with a bounded outbox and a channel to the    *)
(* reaction.  start_reaction, the forwarder and the loop are separate      *)
(* tasks; an await of one of them at which another may change what it      *)
(* read is the boundary between two steps.                                 *)
(***************************************************************************)
EXTENDS ResultLog, FiniteSets

CONSTANTS
    Configs,            \* how the reaction and its query may be set up
    OutboxCapacity,
    ChannelCapacity,
    StopAnytime,        \* the query may be stopped at any point of the protocol
    ResetInPlace,       \* the query may be rebuilt while the reaction is attached
    RetryInPlace,       \* a reaction in Error may be started again in its process
    ClockSteps,         \* the wall clock may step back between two results
    EarlyOverrun,       \* a Broadcast ring may overrun a forwarder that is to go on from 0
    MaxResults,         \* bound: results per epoch
    MaxEpoch,           \* bound: rebuilds
    MaxFaults           \* bound: crashes, stops and failures

\* What validate_startup_config lets through (rules 3 and 4).
Config == {c \in [policy : {"Strict", "AutoReset", "AutoSkipGap"},
                  snapshot : BOOLEAN,       \* needs_snapshot_on_fresh_start
                  broadcast : BOOLEAN] :    \* the query's dispatch mode, or Channel
              /\ c.policy = "AutoReset" => c.snapshot
              /\ c.policy = "AutoSkipGap" => ~c.snapshot}

ASSUME ReactionBounds ==
    /\ Configs \subseteq Config
    /\ OutboxCapacity \in Nat \ {0} /\ ChannelCapacity \in Nat \ {0}
    /\ MaxResults \in Nat /\ MaxEpoch \in Nat /\ MaxFaults \in Nat

None == -1                              \* config_hash 0: of no epoch
NoCheckpoint == [seq |-> 0, epoch |-> None]

Checkpoint == [seq : 0..MaxResults, epoch : -1..MaxEpoch]
Message == [seq : 1..MaxResults, epoch : 0..MaxEpoch]
Number == (0..MaxEpoch) \X (1..MaxResults)

VARIABLES
    config,     \* the set-up, fixed
    sent,       \* query: the last result dispatched
    channel,    \* the reaction's receiver
    rpc,        \* where start_reaction is
    asOf,       \* as_of_sequence of the subscription
    shared,     \* shared_checkpoints: where the forwarder is to go on from
    fpc,        \* where the forwarder is
    last,       \* forwarder: last_forwarded_seq
    gap,        \* forwarder: the checkpoint of the recovery under way, and the
                \* result that revealed the gap
    queue,      \* the reaction's priority queue
    lpc,        \* where the processing loop is
    hand,       \* the result it is processing
    cache,      \* its CheckpointState
    store,      \* the durable checkpoint
    faults,     \* bound
    handled,    \* history: <<epoch, seq>> of every side effect
    excused     \* history: results a snapshot covered or a policy gave up

query == <<config, epoch, results, up, sent>>
forwarder == <<fpc, last, gap>>
loop == <<lpc, hand, cache>>
history == <<handled, excused>>
vars == <<config, epoch, results, up, sent, channel, rpc, asOf, shared, fpc, last,
          gap, queue, lpc, hand, cache, store, faults, handled, excused>>

Policy == config.policy
Snapshot == config.snapshot
Broadcast == config.broadcast

TypeOK ==
    /\ config \in Config
    /\ epoch \in 0..MaxEpoch
    /\ results \in Seq(Results) /\ Len(results) <= MaxResults
    /\ up \in BOOLEAN
    /\ sent \in 0..Len(results)
    /\ channel \in Seq(Message) /\ Len(channel) <= ChannelCapacity
    /\ rpc \in {"down", "attached", "hook", "persist", "running"}
    /\ asOf \in 0..MaxResults
    /\ shared \in Checkpoint
    /\ fpc \in {"off", "recv", "hook", "write"}
    /\ last \in 0..MaxResults
    /\ gap \in [cp : Checkpoint, held : Checkpoint]
    /\ queue \subseteq Message
    /\ lpc \in {"off", "idle", "handle", "refresh", "put", "failed"}
    /\ hand \in Checkpoint
    /\ cache \in Checkpoint
    /\ store \in Checkpoint
    /\ faults \in 0..MaxFaults
    /\ handled \subseteq Number
    /\ excused \subseteq Number

Init ==
    /\ config \in Configs
    /\ LogInit
    /\ sent = 0
    /\ channel = <<>>
    /\ rpc = "down"
    /\ asOf = 0
    /\ shared = NoCheckpoint
    /\ fpc = "off"
    /\ last = 0
    /\ gap = [cp |-> NoCheckpoint, held |-> NoCheckpoint]
    /\ queue = {}
    /\ lpc = "off"
    /\ hand = NoCheckpoint
    /\ cache = NoCheckpoint
    /\ store = NoCheckpoint
    /\ faults = 0
    /\ handled = {}
    /\ excused = {}

Fault == faults < MaxFaults /\ faults' = faults + 1

----------------------------------------------------------------------------
(* The query.                                                              *)

reactionVars == <<config, rpc, asOf, shared, forwarder, queue, loop, store, history>>

\* as_of_sequence, and the checkpoint of a reader that has seen everything.
AsOf == Len(results)
Now == [seq |-> AsOf, epoch |-> epoch]

QueryEmits ==
    /\ AsOf < MaxResults
    /\ sent = AsOf
    /\ Emit
    /\ UNCHANGED <<sent, channel, faults, reactionVars>>

\* Mutant: one result too many in the channel.
DispatchOverfull ==
    /\ up
    /\ sent < AsOf
    /\ sent' = sent + 1
    /\ \/ fpc = "off" /\ UNCHANGED channel
       \/ /\ fpc # "off"
          /\ Len(channel) <= ChannelCapacity
          /\ channel' = Append(channel, [seq |-> sent', epoch |-> epoch])
    /\ UNCHANGED <<epoch, results, up, faults, reactionVars>>

\* Where the forwarder goes on from: last_forwarded_seq, or what it will be once
\* the gate opens.
Position == CASE rpc = "attached" -> asOf
              [] rpc \in {"hook", "persist"} -> shared.seq
              [] OTHER -> last

\* Publish, after releasing output_state: a full Channel holds the query up, a
\* full Broadcast ring overwrites its oldest entry, nobody hears without a
\* receiver.
Dispatch ==
    /\ up
    /\ sent < AsOf
    /\ sent' = sent + 1
    /\ \/ fpc = "off" /\ UNCHANGED channel
       \/ /\ fpc # "off"
          /\ Len(channel) < ChannelCapacity
          /\ channel' = Append(channel, [seq |-> sent', epoch |-> epoch])
       \/ /\ fpc # "off" /\ Broadcast
          /\ EarlyOverrun \/ Position > 0
          /\ Len(channel) = ChannelCapacity
          /\ channel' = Append(Tail(channel), [seq |-> sent', epoch |-> epoch])
    /\ UNCHANGED <<epoch, results, up, faults, reactionVars>>

\* start(): what was not dispatched before is not dispatched again.
QueryOpens ==
    /\ Open
    /\ sent' = AsOf
    /\ UNCHANGED <<channel, faults, reactionVars>>

\* The query has dispatched what it has and no reaction is reading from it.
Quiet == sent = AsOf /\ rpc \in {"down", "running"} /\ fpc \in {"off", "recv"}

\* stop(): the reaction stays attached.  A processor that takes too long is
\* aborted in its dispatch.
QueryCloses ==
    /\ StopAnytime \/ Quiet
    /\ Fault
    /\ Close
    /\ UNCHANGED <<sent, channel, reactionVars>>

\* AutoReset or a new configuration.
QueryRenews ==
    /\ ResetInPlace \/ rpc = "down"
    /\ epoch < MaxEpoch
    /\ epoch' = epoch + 1
    /\ Renew
    /\ sent' = 0
    /\ UNCHANGED <<channel, faults, reactionVars>>

\* fetch_outbox(after)
Earliest == IF AsOf > OutboxCapacity THEN AsOf - OutboxCapacity + 1 ELSE 1
OutboxGap(after) == after < AsOf /\ after + 1 < Earliest
OutboxAfter(after) == {[seq |-> k, epoch |-> epoch] : k \in (after + 1)..AsOf}

\* The results a checkpoint claims, and those before a result.
Through(cp) == {<<cp.epoch, k>> : k \in 1..cp.seq}
Before(m) == {<<m.epoch, k>> : k \in 1..(m.seq - 1)}

----------------------------------------------------------------------------
(* start_reaction                                                          *)

Failed == lpc = "failed" \/ (rpc = "running" /\ fpc = "off")

\* The processing loop starts from the stored checkpoint, on the queue as it
\* is.  wire_subscriptions attaches the receiver before anything is fetched,
\* so that results buffer in it behind the closed gate.
Attach ==
    /\ rpc = "down" \/ (RetryInPlace /\ Failed)
    /\ lpc \in {"off", "idle", "failed"}
    /\ up
    /\ rpc' = "attached"
    /\ asOf' = AsOf
    /\ channel' = <<>>
    /\ fpc' = "recv"
    /\ lpc' = "idle"
    /\ cache' = store
    /\ UNCHANGED <<query, shared, last, gap, queue, hand, store, faults, history>>

\* Mutant: the forwarder starts from where the query is by now.
OpenGateLate(cp) ==
    /\ rpc' = "running"
    /\ shared' = cp
    /\ last' = AsOf
    /\ UNCHANGED <<channel, fpc>>

\* The gate opens: the forwarder starts from the checkpoint just computed.
OpenGate(cp) ==
    /\ rpc' = "running"
    /\ shared' = cp
    /\ last' = cp.seq
    /\ UNCHANGED <<channel, fpc>>

\* fetch_snapshot, with the bootstrap hook to come.
TakeSnapshot ==
    /\ rpc' = "hook"
    /\ shared' = Now
    /\ UNCHANGED <<channel, fpc, last, queue, store, excused>>

\* An error from subscribe_and_bootstrap: forwarders aborted, status Error.
StartFails ==
    /\ rpc' = "down"
    /\ fpc' = "off"
    /\ channel' = <<>>
    /\ UNCHANGED <<shared, last, queue, store, excused>>

\* Retained history is given up: the checkpoint is persisted at once.
SkipTo(cp) ==
    /\ store' = cp
    /\ excused' = excused \union Through(cp)
    /\ OpenGate(cp)
    /\ UNCHANGED queue

\* handle_fresh_start.  fetch_snapshot fails on a query that is not running.
FreshStart ==
    /\ rpc = "attached"
    /\ store = NoCheckpoint
    /\ \/ Snapshot /\ up /\ TakeSnapshot
       \/ Snapshot /\ ~up /\ StartFails
       \/ ~Snapshot /\ SkipTo([seq |-> asOf, epoch |-> epoch])
    /\ UNCHANGED <<query, asOf, gap, loop, faults, handled>>

\* apply_recovery_policy
RecoverAtStart ==
    \/ (Policy = "Strict" \/ ~up) /\ StartFails
    \/ Policy = "AutoReset" /\ up /\ TakeSnapshot
    \/ Policy = "AutoSkipGap" /\ up /\ SkipTo(Now)

\* The stored checkpoint is of another epoch.
EpochMismatch ==
    /\ rpc = "attached"
    /\ store # NoCheckpoint /\ store.epoch # epoch
    /\ RecoverAtStart
    /\ UNCHANGED <<query, asOf, gap, loop, faults, handled>>

\* handle_outbox_catchup: what was missed is queued, not yet checkpointed.  On
\* a query that is not running the checkpoint stays as it is.
CatchUp ==
    /\ rpc = "attached"
    /\ store # NoCheckpoint /\ store.epoch = epoch
    /\ \/ up /\ OutboxGap(store.seq) /\ RecoverAtStart
       \/ /\ up /\ ~OutboxGap(store.seq)
          /\ queue' = queue \union OutboxAfter(store.seq)
          /\ OpenGate([store EXCEPT !.seq = IF AsOf > @ THEN AsOf ELSE @])
          /\ UNCHANGED <<store, excused>>
       \/ /\ ~up
          /\ OpenGate(store)
          /\ UNCHANGED <<queue, store, excused>>
    /\ UNCHANGED <<query, asOf, gap, loop, faults, handled>>

\* Reaction::bootstrap: the hook reads a snapshot of its own, later than the
\* one the checkpoint is from.
Bootstrap ==
    /\ rpc = "hook"
    /\ \/ /\ up
          /\ excused' = excused \union Through(Now)
          /\ rpc' = "persist"
          /\ UNCHANGED <<channel, shared, fpc, last, queue, store>>
       \/ ~up /\ StartFails
    /\ UNCHANGED <<query, asOf, gap, loop, faults, handled>>

\* Checkpoints are persisted after the hook; a failing write is only logged.
PersistBootstrap ==
    /\ rpc = "persist"
    /\ \/ store' = shared /\ UNCHANGED faults
       \/ Fault /\ UNCHANGED store
    /\ OpenGate(shared)
    /\ UNCHANGED <<query, asOf, gap, queue, loop, history>>

StartReaction == Attach \/ FreshStart \/ EpochMismatch \/ CatchUp \/ Bootstrap \/ PersistBootstrap

----------------------------------------------------------------------------
(* The forwarder.                                                          *)

Receiving == rpc = "running" /\ fpc = "recv"

\* The task ends and its receiver goes with it.
ForwarderExits ==
    /\ fpc' = "off"
    /\ channel' = <<>>
    /\ UNCHANGED gap

\* handle_broadcast_gap, as far as it fetches; held: see gap.
RecoverLive(held) ==
    LET at == [seq |-> IF up THEN AsOf ELSE shared.seq, epoch |-> epoch]
    IN  \/ Policy = "Strict" /\ ForwarderExits
        \/ Policy = "AutoReset" /\ ~up /\ ForwarderExits
        \/ /\ Policy = "AutoReset" /\ up
           /\ fpc' = "hook"
           /\ gap' = [cp |-> at, held |-> held]
        \/ /\ Policy = "AutoSkipGap"
           /\ fpc' = "write"
           /\ gap' = [cp |-> at, held |-> held]

\* ... AutoReset invokes the bootstrap hook,
GapBootstrap ==
    /\ fpc = "hook"
    /\ \/ /\ up
          /\ excused' = excused \union Through(Now)
          /\ fpc' = "write"
          /\ UNCHANGED <<channel, gap>>
       \/ ~up /\ ForwarderExits /\ UNCHANGED excused
    /\ UNCHANGED <<query, rpc, asOf, shared, last, queue, loop, store, faults, handled>>

\* ... and then the checkpoint is written.  Back in the forwarder, the result
\* that revealed the gap goes to the queue if it is beyond the checkpoint.
\* AutoSkipGap gives up what is before either of them.
GapWrite ==
    /\ fpc = "write"
    /\ store' = gap.cp
    /\ excused' = IF Policy = "AutoSkipGap"
                  THEN excused \union Through(gap.cp) \union Before(gap.held) ELSE excused
    /\ fpc' = "recv"
    /\ \/ /\ gap.held.seq <= gap.cp.seq
          /\ shared' = gap.cp
          /\ last' = gap.cp.seq
          /\ UNCHANGED queue
       \/ /\ gap.held.seq > gap.cp.seq
          /\ shared' = [gap.cp EXCEPT !.seq = gap.held.seq]
          /\ last' = gap.held.seq
          /\ queue' = queue \union {gap.held}
    /\ UNCHANGED <<query, channel, rpc, asOf, gap, loop, faults, handled>>

GapWriteFails ==
    /\ fpc = "write"
    /\ Fault
    /\ ForwarderExits
    /\ UNCHANGED <<query, rpc, asOf, shared, last, queue, loop, store, history>>

\* recv.  What a Broadcast ring has overwritten is skipped in silence: the
\* receiver swallows RecvError::Lagged and goes on with the oldest result left.
Receives(m) == Receiving /\ channel # <<>> /\ m = channel[1]

\* Covered by the snapshot or the catch-up.
ForwardSkips ==
    /\ \E m \in Message : Receives(m) /\ m.seq <= last
    /\ channel' = Tail(channel)
    /\ UNCHANGED <<query, rpc, asOf, shared, forwarder, queue, loop, store, faults, history>>

GapBefore(m) == last > 0 /\ m.seq > last + 1

\* Mutant: the forwarder persists what it has only queued.
ForwardPersists ==
    /\ \E m \in Message :
          /\ Receives(m)
          /\ m.seq > last /\ ~GapBefore(m)
          /\ last' = m.seq
          /\ queue' = queue \union {m}
          /\ shared' = [shared EXCEPT !.seq = m.seq]
    /\ store' = shared'
    /\ channel' = Tail(channel)
    /\ UNCHANGED <<query, rpc, asOf, fpc, gap, loop, faults, history>>

Forward ==
    /\ \E m \in Message :
          /\ Receives(m)
          /\ m.seq > last /\ ~GapBefore(m)
          /\ last' = m.seq
          /\ queue' = queue \union {m}
          /\ shared' = [shared EXCEPT !.seq = m.seq]
    /\ channel' = Tail(channel)
    /\ UNCHANGED <<query, rpc, asOf, fpc, gap, loop, store, faults, history>>

\* Catch up from the outbox; only when that does not reach the result at hand,
\* recover by policy.
ForwardOverGap ==
    \E m \in Message :
        LET missed == IF up /\ ~OutboxGap(last) THEN OutboxAfter(last) ELSE {}
            caught == IF missed = {} THEN last ELSE AsOf
        IN  /\ Receives(m)
            /\ GapBefore(m)
            /\ queue' = queue \union missed
            /\ last' = caught
            /\ \/ m.seq <= caught /\ UNCHANGED <<fpc, gap>>
               \/ m.seq > caught /\ RecoverLive(m)
            /\ fpc' # "off" => channel' = Tail(channel)
            /\ UNCHANGED <<query, rpc, asOf, shared, loop, store, faults, history>>

Forwarding == ForwardSkips \/ Forward \/ ForwardOverGap \/ GapBootstrap \/ GapWrite

----------------------------------------------------------------------------
(* run_standard_loop                                                       *)

loopRest == <<query, channel, rpc, asOf, shared, forwarder>>

\* CheckpointState::refresh
Refreshed == IF store # NoCheckpoint /\ (store.epoch # cache.epoch \/ store.seq > cache.seq)
             THEN store ELSE cache

\* Results are queued by (timestamp, sequence); their timestamps are those of
\* the wall clock when the query produced them.
Earlier(a, b) == a.epoch < b.epoch \/ (a.epoch = b.epoch /\ a.seq < b.seq)

Dequeue ==
    /\ lpc = "idle"
    /\ \E m \in queue :
          /\ ClockSteps \/ \A o \in queue \ {m} : Earlier(m, o)
          /\ queue' = queue \ {m}
          /\ hand' = m
          /\ lpc' = IF m.seq <= Refreshed.seq THEN "idle" ELSE "handle"
    /\ cache' = Refreshed
    /\ UNCHANGED <<loopRest, store, faults, history>>

\* The handler succeeds; the checkpoint is written after the side effect.
Handle ==
    /\ lpc = "handle"
    /\ handled' = handled \union {<<hand.epoch, hand.seq>>}
    /\ lpc' = "refresh"
    /\ UNCHANGED <<loopRest, queue, hand, cache, store, faults, excused>>

\* FailureAction: stop, or skip and continue under AutoSkipGap.
HandleFails ==
    /\ lpc = "handle"
    /\ Fault
    /\ \/ /\ Policy = "AutoSkipGap"
          /\ excused' = excused \union {<<hand.epoch, hand.seq>>}
          /\ lpc' = "refresh"
       \/ /\ Policy # "AutoSkipGap"
          /\ lpc' = "failed"
          /\ UNCHANGED excused
    /\ UNCHANGED <<loopRest, queue, hand, cache, store, handled>>

\* advance_with_policy: look at the store again, and write only what is newer.
Advance ==
    /\ lpc = "refresh"
    /\ cache' = Refreshed
    /\ lpc' = IF hand.seq <= Refreshed.seq THEN "idle" ELSE "put"
    /\ UNCHANGED <<loopRest, queue, hand, store, faults, history>>

PutCheckpoint ==
    /\ lpc = "put"
    /\ cache' = [cache EXCEPT !.seq = hand.seq]
    /\ store' = cache'
    /\ lpc' = "idle"
    /\ UNCHANGED <<loopRest, queue, hand, faults, history>>

\* persist_with_recovery_policy: the write (and every retry) fails.
PutFails ==
    /\ lpc = "put"
    /\ Fault
    /\ \/ Policy = "AutoSkipGap" /\ lpc' = "idle" /\ cache' = [cache EXCEPT !.seq = hand.seq]
       \/ Policy # "AutoSkipGap" /\ lpc' = "failed" /\ UNCHANGED cache
    /\ UNCHANGED <<loopRest, queue, hand, store, history>>

\* The store cannot be read: the loop ends under every policy.
ReadFails ==
    /\ lpc \in {"handle", "refresh"}
    /\ Fault
    /\ lpc' = "failed"
    /\ UNCHANGED <<loopRest, queue, hand, cache, store, history>>

Loop == Dequeue \/ Handle \/ Advance \/ PutCheckpoint

LoopFails == HandleFails \/ PutFails \/ ReadFails

----------------------------------------------------------------------------
(* Stop and crash.                                                         *)

ReactionGone ==
    /\ rpc' = "down"
    /\ fpc' = "off"
    /\ channel' = <<>>
    /\ queue' = {}
    /\ lpc' = "off"
    /\ hand' = NoCheckpoint
    /\ cache' = NoCheckpoint
    /\ shared' = NoCheckpoint
    /\ asOf' = 0
    /\ last' = 0
    /\ gap' = [cp |-> NoCheckpoint, held |-> NoCheckpoint]
    /\ UNCHANGED <<store, history>>

\* stop_reaction: forwarders aborted, the loop shut down or aborted, the queue
\* drained.  A reaction in Error cannot be stopped this way.
StopReaction ==
    /\ rpc = "running" /\ ~Failed
    /\ Fault
    /\ ReactionGone
    /\ UNCHANGED query

\* The process dies, with the query in it.
Crash ==
    /\ Fault
    /\ ReactionGone
    /\ up' = FALSE
    /\ UNCHANGED <<config, epoch, results, sent>>

Next == \/ QueryEmits \/ Dispatch \/ QueryOpens \/ QueryCloses \/ QueryRenews
        \/ StartReaction
        \/ Forwarding \/ GapWriteFails
        \/ Loop \/ LoopFails
        \/ StopReaction \/ Crash

Spec == Init /\ [][Next]_vars

\* The tasks of the process run; whether a query emits, fails or is stopped is
\* up to the world, but a stopped query is opened again.
FairSpec ==
    /\ Spec
    /\ WF_vars(Dispatch) /\ WF_vars(QueryOpens)
    /\ WF_vars(StartReaction) /\ WF_vars(Forwarding) /\ WF_vars(Loop)

----------------------------------------------------------------------------
(* Properties *)

\* At-least-once: every result the durable checkpoint claims was acted on, was
\* part of a snapshot the reaction took, or was given up by its policy.  "A
\* crash between (3) and (4) replays the sequence on restart."  A checkpoint
\* of an older epoch claims nothing: it is never resumed from.
AtLeastOnce ==
    store.epoch = epoch => Through(store) \subseteq handled \union excused

\* No result is lost on the way: a reaction that stays attached and healthy
\* acts on every result of the epoch, or takes a snapshot that has it.
Healthy == rpc = "running" /\ ~Failed

EveryResultArrives ==
    \A e \in 0..MaxEpoch, k \in 1..MaxResults :
        (Healthy /\ up /\ epoch = e /\ AsOf >= k)
            ~> (~Healthy \/ ~up \/ epoch # e \/ <<e, k>> \in handled \union excused)

=============================================================================
