---------------------------- MODULE ResultFanout ----------------------------
(***************************************************************************)
(* One query handing its results to the reactions that subscribe to it, in *)
(* Channel dispatch mode: dispatch_query_results, Query::subscribe and     *)
(* fetch_snapshot/fetch_outbox (lib/src/queries/manager.rs), QueryBase     *)
(* (queries/base.rs), and the part of start_reaction that attaches a       *)
(* receiver, fetches with the gate closed and then opens the gate          *)
(* (lib/src/reactions/manager.rs).                                         *)
(*                                                                         *)
(* Two locks and the channels between them: output_state, which subscribe  *)
(* keeps while it waits for the second, dispatchers, which the query keeps *)
(* while it waits for room in a channel, which only an open gate empties.  *)
(***************************************************************************)
EXTENDS Integers, Sequences, FiniteSets

CONSTANTS
    Reactions,
    Snapshot,       \* the reactions with needs_snapshot_on_fresh_start
    Capacity,       \* dispatch_buffer_capacity
    Concurrent,     \* start_reaction may be called for two reactions at a time
    MaxResults,     \* bound: results of the query
    MaxStarts       \* bound: starts per reaction

ASSUME FanoutAssumption ==
    /\ Snapshot \subseteq Reactions
    /\ Capacity \in Nat \ {0}
    /\ Concurrent \in BOOLEAN
    /\ MaxResults \in Nat
    /\ MaxStarts \in Nat

VARIABLES
    head,           \* as_of_sequence of the query's output
    query,          \* where the query is: idle, or dispatching result head
    turn,           \* the dispatcher it is at; it reads the list while "send"
    dispatchers,    \* the list: one entry <<reaction, start>> per subscription
    writer,         \* the reactions holding output_state for writing
    pc,             \* where each reaction is
    starts,         \* the starts of each reaction so far
    asOf,           \* the head its subscription sampled
    last,           \* its forwarder's last_forwarded_seq
    channel         \* what its receiver has buffered

vars == <<head, query, turn, dispatchers, writer, pc, starts, asOf, last, channel>>
reactionVars == <<pc, starts, asOf, last, channel>>

TypeOK ==
    /\ head \in 0..MaxResults
    /\ query \in {"idle", "publish", "send"}
    /\ turn \in Nat
    /\ dispatchers \in Seq(Reactions \X (1..MaxStarts))
    /\ writer \subseteq Reactions
    /\ Cardinality(writer) <= 1
    /\ pc \in [Reactions -> {"off", "head", "attached", "running"}]
    /\ starts \in [Reactions -> 0..MaxStarts]
    /\ asOf \in [Reactions -> 0..MaxResults]
    /\ last \in [Reactions -> 0..MaxResults]
    /\ channel \in [Reactions -> Seq(1..MaxResults)]
    /\ \A r \in Reactions : Len(channel[r]) <= Capacity

Init ==
    /\ head = 0
    /\ query = "idle"
    /\ turn = 1
    /\ dispatchers = <<>>
    /\ writer = {}
    /\ pc = [r \in Reactions |-> "off"]
    /\ starts = [r \in Reactions |-> 0]
    /\ asOf = [r \in Reactions |-> 0]
    /\ last = [r \in Reactions |-> 0]
    /\ channel = [r \in Reactions |-> <<>>]

----------------------------------------------------------------------------
(* The query: dispatch_query_results.                                      *)

\* Under output_state: number the result and put it into the outbox.
Apply ==
    /\ query = "idle"
    /\ head < MaxResults
    /\ writer = {}
    /\ head' = head + 1
    /\ query' = "publish"
    /\ UNCHANGED <<turn, dispatchers, writer, reactionVars>>

\* "Publish after releasing output_state": take the list, for reading.
Publish ==
    /\ query = "publish"
    /\ query' = "send"
    /\ turn' = 1
    /\ UNCHANGED <<head, dispatchers, writer, reactionVars>>

\* The receiver of a dispatcher is still there.
Live(d) == pc[d[1]] \in {"attached", "running"} /\ starts[d[1]] = d[2]

\* Mutant: a full channel does not hold the query up.
SendOverfull ==
    /\ query = "send"
    /\ turn <= Len(dispatchers)
    /\ LET d == dispatchers[turn]
       IN  \/ /\ Live(d)
              /\ channel' = [channel EXCEPT ![d[1]] = Append(@, head)]
           \/ ~Live(d) /\ UNCHANGED channel
    /\ turn' = turn + 1
    /\ UNCHANGED <<head, query, dispatchers, writer, pc, starts, asOf, last>>

\* One dispatcher after the other: wait for room, or find the receiver gone.
Send ==
    /\ query = "send"
    /\ turn <= Len(dispatchers)
    /\ LET d == dispatchers[turn]
       IN  \/ /\ Live(d)
              /\ Len(channel[d[1]]) < Capacity
              /\ channel' = [channel EXCEPT ![d[1]] = Append(@, head)]
           \/ ~Live(d) /\ UNCHANGED channel
    /\ turn' = turn + 1
    /\ UNCHANGED <<head, query, dispatchers, writer, pc, starts, asOf, last>>

Sent ==
    /\ query = "send"
    /\ turn > Len(dispatchers)
    /\ query' = "idle"
    /\ UNCHANGED <<head, turn, dispatchers, writer, reactionVars>>

----------------------------------------------------------------------------
(* The reactions.                                                          *)

Alone(r) == \A q \in Reactions \ {r} : pc[q] \in {"off", "running"}

\* Mutant: output_state is released before the receiver is attached.
SubscribeUnlocked(r) ==
    /\ pc[r] = "off" /\ starts[r] < MaxStarts
    /\ Concurrent \/ Alone(r)
    /\ writer = {}
    /\ pc' = [pc EXCEPT ![r] = "head"]
    /\ asOf' = [asOf EXCEPT ![r] = head]
    /\ UNCHANGED <<head, query, turn, dispatchers, writer, starts, last, channel>>

\* Query::subscribe: hold output_state, sample the head ...
Subscribe(r) ==
    /\ pc[r] = "off" /\ starts[r] < MaxStarts
    /\ Concurrent \/ Alone(r)
    /\ writer = {}
    /\ writer' = {r}
    /\ pc' = [pc EXCEPT ![r] = "head"]
    /\ asOf' = [asOf EXCEPT ![r] = head]
    /\ UNCHANGED <<head, query, turn, dispatchers, starts, last, channel>>

\* ... and, when nobody reads the list, add a dispatcher to it.  The entries
\* of earlier starts stay.
Attach(r) ==
    /\ pc[r] = "head"
    /\ query # "send"
    /\ starts' = [starts EXCEPT ![r] = @ + 1]
    /\ dispatchers' = Append(dispatchers, <<r, starts'[r]>>)
    /\ channel' = [channel EXCEPT ![r] = <<>>]
    /\ writer' = writer \ {r}
    /\ pc' = [pc EXCEPT ![r] = "attached"]
    /\ UNCHANGED <<head, query, turn, asOf, last>>

\* The first start without a checkpoint, of a reaction that takes no snapshot.
Skips(r) == r \notin Snapshot /\ starts[r] = 1

\* Mutant: the fetch waits for the dispatch under way.
FetchBehindDispatch(r) ==
    /\ pc[r] = "attached" /\ ~Skips(r)
    /\ writer = {} /\ query = "idle"
    /\ last' = [last EXCEPT ![r] = head]
    /\ pc' = [pc EXCEPT ![r] = "running"]
    /\ UNCHANGED <<head, query, turn, dispatchers, writer, starts, asOf, channel>>

\* fetch_snapshot or fetch_outbox, under output_state, with the gate closed;
\* then the gate opens.
Fetch(r) ==
    /\ pc[r] = "attached" /\ ~Skips(r)
    /\ writer = {}
    /\ last' = [last EXCEPT ![r] = head]
    /\ pc' = [pc EXCEPT ![r] = "running"]
    /\ UNCHANGED <<head, query, turn, dispatchers, writer, starts, asOf, channel>>

\* A fresh start that needs no snapshot goes on from the subscription's head.
SkipHistory(r) ==
    /\ pc[r] = "attached" /\ Skips(r)
    /\ last' = [last EXCEPT ![r] = asOf[r]]
    /\ pc' = [pc EXCEPT ![r] = "running"]
    /\ UNCHANGED <<head, query, turn, dispatchers, writer, starts, asOf, channel>>

\* The forwarder, behind the open gate.
Receive(r) ==
    /\ pc[r] = "running"
    /\ channel[r] # <<>>
    /\ channel' = [channel EXCEPT ![r] = Tail(@)]
    /\ last' = [last EXCEPT ![r] = IF Head(channel[r]) > @ THEN Head(channel[r]) ELSE @]
    /\ UNCHANGED <<head, query, turn, dispatchers, writer, pc, starts, asOf>>

\* stop_reaction aborts the forwarder: the receiver is gone.
Stop(r) ==
    /\ pc[r] = "running"
    /\ pc' = [pc EXCEPT ![r] = "off"]
    /\ channel' = [channel EXCEPT ![r] = <<>>]
    /\ UNCHANGED <<head, query, turn, dispatchers, writer, starts, asOf, last>>

----------------------------------------------------------------------------

Dispatching == Publish \/ Send \/ Sent

Next ==
    \/ Apply \/ Dispatching
    \/ \E r \in Reactions : \/ Subscribe(r) \/ Attach(r) \/ Fetch(r) \/ SkipHistory(r)
                            \/ Receive(r) \/ Stop(r)

Spec == Init /\ [][Next]_vars

\* The runtime polls every task, and tokio's RwLock serves its waiters first
\* come first served: a task is not overtaken for ever at a lock.  Nobody is
\* obliged to produce a result, or to start or stop a reaction.
FairSpec ==
    /\ Spec
    /\ WF_vars(Dispatching)
    /\ \A r \in Reactions : /\ SF_vars(Attach(r))
                            /\ SF_vars(Fetch(r))
                            /\ WF_vars(SkipHistory(r))
                            /\ WF_vars(Receive(r))

----------------------------------------------------------------------------
(* Properties *)

\* The entry of r's subscription was served in the dispatch under way.
Served(r) == \E i \in 1..(turn - 1) : i <= Len(dispatchers) /\ dispatchers[i] = <<r, starts[r]>>

\* The last result that has to be in r's channel by now.
Due(r) == IF query = "idle" \/ (query = "send" /\ Served(r)) THEN head ELSE head - 1

\* Where r's forwarder is, or will be at the least.
Mark(r) == IF pc[r] = "running" THEN last[r] ELSE asOf[r]

\* Nothing falls between the sampled head and the attached receiver, nor
\* between the fetch and the open gate: the channel holds consecutive results
\* up to the last one due, each once, and what it does not reach back to the
\* forwarder has covered.  A hole is what "Strict recovery would then treat" as
\* lost results.
NothingMissed ==
    \A r \in Reactions : pc[r] \in {"attached", "running"} =>
        LET covered == Due(r) - Len(channel[r])
        IN  /\ \A i \in DOMAIN channel[r] : channel[r][i] = covered + i
            /\ covered <= Mark(r)

\* A full channel "backpressures the query instead of deadlocking
\* snapshot/outbox fetches": a reaction that began to subscribe gets to run.
StartsComplete ==
    \A r \in Reactions : pc[r] \in {"head", "attached"} ~> pc[r] = "running"

=============================================================================
