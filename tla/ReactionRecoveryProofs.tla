----------------------- MODULE ReactionRecoveryProofs -----------------------
(***************************************************************************)
(* At-least-once processing by a durable reaction, for every number of     *)
(* results, epochs and faults, every outbox and channel capacity and every *)
(* set-up, as long as the query is stopped only in a quiet moment, is not  *)
(* rebuilt under an attached reaction, a failed reaction is not restarted  *)
(* in place, the clock does not step back and a Broadcast ring does not    *)
(* overrun a forwarder that is to go on from 0.                            *)
(***************************************************************************)
EXTENDS ReactionRecovery, TLAPS

----------------------------------------------------------------------------
(* The inductive invariant.                                                *)

Busy == {"handle", "refresh", "put"}

\* Result k of this epoch needs no further action.
Done(k) == <<epoch, k>> \in handled \union excused

\* ... or the loop has it before it.
Accounted(k) ==
    \/ Done(k)
    \/ [seq |-> k, epoch |-> epoch] \in queue
    \/ lpc = "handle" /\ hand.seq = k

\* The durable checkpoint is of this epoch, and somebody may advance it.
Sure == store.epoch = epoch /\ lpc # "failed"

\* The results that are no longer on their way to the forwarder: dispatched,
\* and not in its channel.
Past == sent - Len(channel)

\* Checkpoints are of this epoch or an earlier one; those of this epoch claim
\* only what is done.
EpochInv ==
    /\ store.epoch <= epoch /\ cache.epoch <= epoch
    /\ cache.epoch = epoch => store.epoch = epoch

StoreInv ==
    store.epoch = epoch => store.seq <= AsOf /\ \A k \in 1..store.seq : Done(k)

CacheInv ==
    cache.epoch = epoch => \A k \in 1..cache.seq : Done(k)

\* Which tasks there are, and that a query stops only when all is quiet.
TaskInv ==
    /\ rpc # "running" => queue = {} /\ lpc \in {"off", "idle"}
    /\ rpc = "down" => fpc = "off"
    /\ rpc \in {"attached", "hook", "persist"} => fpc = "recv" /\ up
    /\ rpc \in {"hook", "persist"} => Snapshot
    /\ rpc = "running" /\ ~up => sent = AsOf

\* The channel holds the last results dispatched.
ChannelInv ==
    /\ fpc = "off" => channel = <<>>
    /\ \A i \in DOMAIN channel : channel[i] = [seq |-> Past + i, epoch |-> epoch]

\* A start is behind the query, and claims what it has seen.
StartInv ==
    /\ rpc \in {"attached", "hook", "persist"} => asOf <= AsOf
    /\ rpc \in {"hook", "persist"} => /\ shared.epoch = epoch
                                      /\ asOf <= shared.seq /\ shared.seq <= AsOf
    /\ rpc = "persist" => \A k \in 1..shared.seq : <<epoch, k>> \in excused

\* What the forwarder has passed on is in the epoch, and not beyond last.
QueueInv ==
    rpc = "running" =>
        /\ last <= AsOf /\ shared.seq <= AsOf
        /\ \A m \in queue : m.epoch = epoch /\ m.seq <= last
        /\ lpc \in Busy => hand \in Message /\ hand.epoch = epoch /\ hand.seq <= last

\* Nothing up to last is forgotten,
LastInv ==
    rpc = "running" /\ Sure => \A k \in 1..last : Accounted(k)

\* ... and a forwarder that starts from 0, which cannot see a gap, receives
\* everything.
PastInv == fpc # "off" /\ Position = 0 => Past <= 0

\* The recovery of a gap under way: where it will leave the checkpoint,
GapInv ==
    fpc \in {"hook", "write"} =>
        /\ gap.cp.epoch = epoch /\ gap.cp.seq <= AsOf
        /\ gap.held.epoch = epoch /\ last < gap.held.seq /\ gap.held.seq <= AsOf
        /\ Policy \in {"AutoReset", "AutoSkipGap"}
        /\ Policy = "AutoSkipGap" => fpc = "write"

\* ... under AutoReset with a snapshot that has everything up to there.
ResetInv ==
    fpc \in {"hook", "write"} /\ Policy = "AutoReset" =>
        /\ last <= gap.cp.seq /\ gap.held.seq <= gap.cp.seq
        /\ fpc = "write" => \A k \in 1..gap.cp.seq : <<epoch, k>> \in excused

\* The loop takes results in order, and a checkpoint that was moved under it
\* is ahead of the result it has.
LoopInv ==
    lpc \in Busy =>
        /\ cache.epoch = epoch => \A k \in 1..(hand.seq - 1) : Done(k)
        /\ lpc # "handle" => Done(hand.seq)
        /\ store.epoch = epoch /\ cache.epoch # epoch => hand.seq <= store.seq

\* Under AutoSkipGap a running reaction has a checkpoint of this epoch.
SkipInv ==
    Policy = "AutoSkipGap" /\ rpc = "running" =>
        store.epoch = epoch /\ (lpc \in Busy => cache.epoch = epoch)

IInv == /\ TypeOK
        /\ EpochInv /\ StoreInv /\ CacheInv /\ TaskInv /\ ChannelInv /\ StartInv
        /\ QueueInv /\ LastInv /\ PastInv
        /\ GapInv /\ ResetInv /\ LoopInv /\ SkipInv

----------------------------------------------------------------------------
(* Types.                                                                  *)

\* A result in hand, or held over a gap, is one the query produced.
HeldType ==
    /\ fpc \in {"hook", "write"} => /\ gap.cp.epoch \in 0..MaxEpoch
                                    /\ gap.held \in Message
    /\ lpc \in Busy => hand \in Message

\* The types, the flag apart.
FlagType == up \in BOOLEAN

DataType ==
    /\ config \in Config /\ epoch \in 0..MaxEpoch
    /\ results \in Seq(Results) /\ Len(results) <= MaxResults /\ sent \in 0..Len(results)
    /\ channel \in Seq(Message) /\ Len(channel) <= ChannelCapacity
    /\ rpc \in {"down", "attached", "hook", "persist", "running"} /\ asOf \in 0..MaxResults
    /\ shared \in Checkpoint /\ fpc \in {"off", "recv", "hook", "write"}
    /\ last \in 0..MaxResults /\ gap \in [cp : Checkpoint, held : Checkpoint]
    /\ queue \subseteq Message
    /\ lpc \in {"off", "idle", "handle", "refresh", "put", "failed"}
    /\ hand \in Checkpoint /\ cache \in Checkpoint /\ store \in Checkpoint
    /\ faults \in 0..MaxFaults
    /\ handled \subseteq Number /\ excused \subseteq Number

LEMMA TypeParts ==
    /\ TypeOK => FlagType /\ DataType
    /\ FlagType' /\ DataType' => TypeOK'
  <1>1. TypeOK => FlagType /\ DataType
    BY Zenon DEF TypeOK, FlagType, DataType
  <1>2. FlagType' /\ DataType' => TypeOK'
    BY Zenon DEF TypeOK, FlagType, DataType
  <1> QED
    BY <1>1, <1>2

\* What the types say of the query's position, of claims and of the outbox.
LEMMA Numbers ==
    ASSUME DataType
    PROVE  /\ AsOf \in 0..MaxResults /\ AsOf = Len(results)
           /\ Len(channel) \in Nat /\ sent \in 0..AsOf /\ Past \in Int
           /\ Now \in Checkpoint /\ Now.epoch = epoch /\ Now.seq = AsOf
           /\ NoCheckpoint \in Checkpoint
           /\ NoCheckpoint.seq = 0 /\ NoCheckpoint.epoch = -1
  <1>1. AsOf \in 0..MaxResults /\ AsOf = Len(results) /\ Len(channel) \in Nat
    BY ReactionBounds DEF DataType, AsOf
  <1>2. sent \in 0..AsOf /\ Past \in Int
    BY <1>1 DEF DataType, Past
  <1>3. Now \in Checkpoint /\ Now.epoch = epoch /\ Now.seq = AsOf
    BY <1>1, ReactionBounds DEF DataType, Now, Checkpoint
  <1>4. /\ NoCheckpoint \in Checkpoint
        /\ NoCheckpoint.seq = 0 /\ NoCheckpoint.epoch = -1
    BY ReactionBounds DEF NoCheckpoint, None, Checkpoint
  <1> QED
    BY <1>1, <1>2, <1>3, <1>4

LEMMA Claims ==
    ASSUME NEW cp \in Checkpoint, cp.epoch \in 0..MaxEpoch
    PROVE  Through(cp) \subseteq Number
  <1> SUFFICES ASSUME NEW k \in 1..cp.seq
               PROVE  <<cp.epoch, k>> \in Number
    BY DEF Through
  <1>1. cp.seq \in 0..MaxResults /\ MaxResults \in Nat
    BY ReactionBounds DEF Checkpoint
  <1>2. k \in 1..MaxResults
    BY <1>1
  <1> QED
    BY <1>2 DEF Number

LEMMA Preceding ==
    ASSUME NEW m \in Message
    PROVE  Before(m) \subseteq Number
  <1> SUFFICES ASSUME NEW k \in 1..(m.seq - 1)
               PROVE  <<m.epoch, k>> \in Number
    BY DEF Before
  <1>1. m.seq \in 1..MaxResults /\ m.epoch \in 0..MaxEpoch /\ MaxResults \in Nat
    BY ReactionBounds DEF Message
  <1>2. k \in 1..MaxResults
    BY <1>1
  <1> QED
    BY <1>1, <1>2 DEF Number

LEMMA OutboxTypes ==
    ASSUME DataType, NEW after \in 0..MaxResults
    PROVE  OutboxAfter(after) \subseteq Message
  <1>1. AsOf \in 0..MaxResults /\ epoch \in 0..MaxEpoch
    BY Numbers DEF DataType
  <1> QED
    BY <1>1, ReactionBounds DEF OutboxAfter, Message

\* The fields of a checkpoint and of a message.
LEMMA Fields ==
    /\ \A c \in Checkpoint : c.seq \in 0..MaxResults /\ c.epoch \in -1..MaxEpoch
    /\ \A m \in Message : m.seq \in 1..MaxResults /\ m.epoch \in 0..MaxEpoch /\ m \in Checkpoint
    /\ \A k, e : k \in 1..MaxResults /\ e \in 0..MaxEpoch => [seq |-> k, epoch |-> e] \in Message
    /\ \A k, e : k \in 0..MaxResults /\ e \in -1..MaxEpoch => [seq |-> k, epoch |-> e] \in Checkpoint
  BY ReactionBounds DEF Checkpoint, Message

\* The steps of the query keep the types.
LEMMA QueryTypes ==
    ASSUME TypeOK, QueryEmits \/ Dispatch \/ QueryOpens \/ QueryCloses \/ QueryRenews
    PROVE  TypeOK'
  <1>0. FlagType /\ DataType
    BY TypeParts
  <1>f. FlagType'
    BY <1>0, Zenon
       DEF FlagType, QueryEmits, Dispatch, QueryOpens, QueryCloses, QueryRenews, Emit, Open, Close,
           Renew, reactionVars
  <1> USE DEF reactionVars, query, forwarder, loop, history, AsOf, DataType
  <1>1. CASE QueryEmits
    <2>1. results' \in Seq(Results) /\ Len(results') = Len(results) + 1 /\ Len(results') <= MaxResults
      BY <1>0, <1>1, ReactionBounds DEF QueryEmits, Emit
    <2> QED
      BY <1>0, <1>f, <1>1, <2>1, TypeParts DEF QueryEmits, Emit
  <1>2. CASE Dispatch
    <2>1. sent' \in 0..Len(results) /\ sent' \in 1..MaxResults
      BY <1>0, <1>2, ReactionBounds DEF Dispatch
    <2>2. [seq |-> sent', epoch |-> epoch] \in Message
      BY <1>0, <2>1 DEF Message
    <2>3. channel' \in Seq(Message) /\ Len(channel') <= ChannelCapacity
      <3> DEFINE m == [seq |-> sent', epoch |-> epoch]
      <3>1. /\ channel \in Seq(Message) /\ Len(channel) <= ChannelCapacity /\ m \in Message
            /\ ChannelCapacity \in Nat \ {0}
        BY <1>0, <2>2, ReactionBounds
      <3> HIDE DEF m
      <3>2. \/ channel' = channel
            \/ Len(channel) < ChannelCapacity /\ channel' = Append(channel, m)
            \/ Len(channel) = ChannelCapacity /\ channel' = Append(Tail(channel), m)
        BY <1>2 DEF Dispatch, m
      <3> QED
        BY <3>1, <3>2
    <2>4. DataType'
      BY <1>0, <1>2, <2>1, <2>3 DEF Dispatch
    <2> QED
      BY <1>f, <2>4, TypeParts
  <1>3. CASE QueryOpens
    <2>1. DataType'
      BY <1>0, <1>3 DEF QueryOpens, Open
    <2> QED
      BY <1>f, <2>1, TypeParts
  <1>4. CASE QueryCloses
    <2>1. DataType'
      BY <1>0, <1>4, ReactionBounds DEF QueryCloses, Close, Fault
    <2> QED
      BY <1>f, <2>1, TypeParts
  <1>5. CASE QueryRenews
    <2>1. results' = <<>> /\ sent' = 0 /\ epoch' \in 0..MaxEpoch
      BY <1>0, <1>5, ReactionBounds DEF QueryRenews, Renew
    <2>2. DataType'
      BY <1>0, <1>5, <2>1, ReactionBounds DEF QueryRenews, Renew
    <2> QED
      BY <1>f, <2>2, TypeParts
  <1> QED
    BY <1>1, <1>2, <1>3, <1>4, <1>5

\* The steps of start_reaction keep the types.
LEMMA StartTypes ==
    ASSUME TypeOK, StartReaction
    PROVE  TypeOK'
  <1>0. FlagType /\ DataType
    BY TypeParts
  <1>f. FlagType'
    BY <1>0, Zenon
       DEF FlagType, StartReaction, Attach, FreshStart, EpochMismatch, CatchUp, Bootstrap,
           PersistBootstrap, RecoverAtStart, TakeSnapshot, StartFails, SkipTo, OpenGate,
           query
  <1> USE DEF query, forwarder, loop, history
  <1>1. /\ Now \in Checkpoint /\ Through(Now) \subseteq Number /\ AsOf \in 0..MaxResults
        /\ Now.seq \in 0..MaxResults /\ store.seq \in 0..MaxResults /\ shared.seq \in 0..MaxResults
    BY <1>0, Numbers, Claims, Fields DEF DataType
  <1>2. CASE Attach
    <2>1. DataType'
      BY <1>0, <1>1, <1>2, ReactionBounds DEF Attach, DataType, AsOf
    <2> QED
      BY <1>f, <2>1, TypeParts
  <1>3. CASE FreshStart
    <2> DEFINE cp == [seq |-> asOf, epoch |-> epoch]
    <2>1. cp \in Checkpoint /\ cp.seq \in 0..MaxResults /\ cp.epoch = epoch
      BY <1>0, ReactionBounds DEF Checkpoint, DataType
    <2>2. Through(cp) \subseteq Number
      BY <1>0, <2>1, Claims DEF DataType
    <2> HIDE DEF cp
    <2>3. CASE TakeSnapshot
      BY <1>0, <1>1, <1>3, <2>3, <1>f, TypeParts DEF FreshStart, TakeSnapshot, DataType, AsOf
    <2>4. CASE StartFails
      BY <1>0, <1>3, <2>4, <1>f, ReactionBounds, TypeParts DEF FreshStart, StartFails, DataType, AsOf
    <2>5. CASE SkipTo(cp)
      BY <1>0, <1>3, <2>1, <2>2, <2>5, <1>f, TypeParts DEF FreshStart, SkipTo, OpenGate, DataType, AsOf
    <2> QED
      BY <1>3, <2>3, <2>4, <2>5 DEF FreshStart, cp
  <1>4. ASSUME RecoverAtStart, UNCHANGED <<query, asOf, gap, loop, faults, handled>>
        PROVE  TypeOK'
    <2>3. CASE TakeSnapshot
      BY <1>0, <1>1, <1>4, <2>3, <1>f, TypeParts DEF TakeSnapshot, DataType, AsOf
    <2>4. CASE StartFails
      BY <1>0, <1>4, <2>4, <1>f, ReactionBounds, TypeParts DEF StartFails, DataType, AsOf
    <2>5. CASE SkipTo(Now)
      BY <1>0, <1>1, <1>4, <2>5, <1>f, TypeParts DEF SkipTo, OpenGate, DataType, AsOf
    <2> QED
      BY <1>4, <2>3, <2>4, <2>5 DEF RecoverAtStart
  <1>5. CASE EpochMismatch
    BY <1>4, <1>5 DEF EpochMismatch
  <1>6. CASE CatchUp
    <2>1. CASE RecoverAtStart
      BY <1>4, <1>6, <2>1 DEF CatchUp
    <2>2. CASE ~RecoverAtStart
      <3> DEFINE cp == [store EXCEPT !.seq = IF AsOf > @ THEN AsOf ELSE @]
      <3>1. cp \in Checkpoint /\ store \in Checkpoint /\ cp.seq \in 0..MaxResults
        BY <1>0, <1>1 DEF DataType, Checkpoint
      <3>2. OutboxAfter(store.seq) \subseteq Message
        BY <1>0, <1>1, OutboxTypes
      <3> HIDE DEF cp
      <3>3. CASE OpenGate(cp) /\ queue' = queue \union OutboxAfter(store.seq) /\ UNCHANGED <<store, excused>>
        BY <1>0, <1>6, <3>1, <3>2, <3>3, <1>f, TypeParts DEF CatchUp, OpenGate, DataType, AsOf
      <3>4. CASE OpenGate(store) /\ UNCHANGED <<queue, store, excused>>
        BY <1>0, <1>1, <1>6, <3>1, <3>4, <1>f, TypeParts DEF CatchUp, OpenGate, DataType, AsOf
      <3> QED
        BY <1>6, <2>2, <3>3, <3>4 DEF CatchUp, cp
    <2> QED
      BY <2>1, <2>2
  <1>7. CASE Bootstrap
    <2>1. CASE up
      BY <1>0, <1>1, <1>7, <2>1, <1>f, TypeParts DEF Bootstrap, DataType, AsOf
    <2>2. CASE StartFails /\ ~up
      BY <1>0, <1>7, <2>2, <1>f, ReactionBounds, TypeParts DEF Bootstrap, StartFails, DataType, AsOf
    <2> QED
      BY <1>7, <2>1, <2>2 DEF Bootstrap
  <1>8. CASE PersistBootstrap
    <2>1. store' \in Checkpoint /\ faults' \in 0..MaxFaults
      BY <1>0, <1>8, ReactionBounds DEF PersistBootstrap, Fault, DataType
    <2>2. DataType'
      BY <1>0, <1>1, <1>8, <2>1 DEF PersistBootstrap, OpenGate, DataType, AsOf
    <2> QED
      BY <1>f, <2>2, TypeParts
  <1> QED
    BY <1>2, <1>3, <1>5, <1>6, <1>7, <1>8 DEF StartReaction

\* The steps of the forwarder keep the types.
LEMMA ForwardTypes ==
    ASSUME TypeOK, HeldType, Forwarding \/ GapWriteFails
    PROVE  TypeOK'
  <1>0. FlagType /\ DataType
    BY TypeParts
  <1>f. FlagType'
    <2>1. CASE ForwardSkips \/ Forward \/ ForwardOverGap
      BY <1>0, <2>1, Zenon
         DEF FlagType, ForwardSkips, Forward, ForwardOverGap, RecoverLive, ForwarderExits,
             query
    <2>2. CASE GapBootstrap \/ GapWrite \/ GapWriteFails
      BY <1>0, <2>2, Zenon
         DEF FlagType, GapBootstrap, GapWrite, GapWriteFails, ForwarderExits, query
    <2> QED
      BY <2>1, <2>2 DEF Forwarding
  <1> USE DEF query, forwarder, loop, history
  <1>1. /\ Now \in Checkpoint /\ Through(Now) \subseteq Number /\ AsOf \in 0..MaxResults
        /\ AsOf = Len(results)
        /\ NoCheckpoint \in Checkpoint /\ shared.seq \in 0..MaxResults
        /\ gap.cp \in Checkpoint /\ gap.held \in Checkpoint
        /\ gap.cp.seq \in 0..MaxResults /\ gap.held.seq \in 0..MaxResults
        /\ epoch \in -1..MaxEpoch
    BY <1>0, Numbers, Claims, Fields DEF DataType
  \* What a recovery under way leaves behind.
  <1>2. ASSUME NEW held \in Checkpoint, RecoverLive(held)
        PROVE  /\ fpc' \in {"off", "recv", "hook", "write"}
               /\ gap' \in [cp : Checkpoint, held : Checkpoint]
               /\ fpc' = "off" => channel' = <<>>
    <2> DEFINE at == [seq |-> IF up THEN AsOf ELSE shared.seq, epoch |-> epoch]
    <2>1. at \in Checkpoint
      BY <1>1, Fields
    <2>2. \/ ForwarderExits
          \/ fpc' = "hook" /\ gap' = [cp |-> at, held |-> held]
          \/ fpc' = "write" /\ gap' = [cp |-> at, held |-> held]
      BY <1>2 DEF RecoverLive
    <2> HIDE DEF at
    <2> QED
      BY <1>0, <2>1, <2>2 DEF ForwarderExits, DataType
  <1>3. channel # <<>> => Tail(channel) \in Seq(Message) /\ Len(Tail(channel)) <= ChannelCapacity
    BY <1>0, ReactionBounds DEF DataType
  <1>4. <<>> \in Seq(Message) /\ Len(<<>>) <= ChannelCapacity
    BY ReactionBounds
  <1>6. CASE ForwardSkips
    <2>1. channel # <<>> /\ channel' = Tail(channel)
      BY <1>6 DEF ForwardSkips, Receives
    <2>2. DataType'
      BY <1>0, <1>3, <1>6, <2>1 DEF ForwardSkips, DataType
    <2> QED
      BY <1>f, <2>2, TypeParts
  <1>7. CASE Forward
    <2>1. PICK m \in Message : /\ Receives(m)
                               /\ last' = m.seq
                               /\ queue' = queue \union {m}
                               /\ shared' = [shared EXCEPT !.seq = m.seq]
      BY <1>7 DEF Forward
    <2>2. channel # <<>> /\ channel' = Tail(channel)
      BY <1>7, <2>1 DEF Forward, Receives
    <2>3. m.seq \in 0..MaxResults
      BY Fields, ReactionBounds
    <2>4. shared' \in Checkpoint
      BY <1>0, <2>1, <2>3 DEF DataType, Checkpoint
    <2>5. DataType'
      BY <1>0, <1>3, <1>7, <2>1, <2>2, <2>3, <2>4 DEF Forward, DataType
    <2> QED
      BY <1>f, <2>5, TypeParts
  <1>8. CASE ForwardOverGap
    <2> DEFINE missed == IF up /\ ~OutboxGap(last) THEN OutboxAfter(last) ELSE {}
               caught == IF missed = {} THEN last ELSE AsOf
    <2>1. PICK m \in Message :
            /\ Receives(m)
            /\ queue' = queue \union missed
            /\ last' = caught
            /\ (UNCHANGED <<fpc, gap>>) \/ RecoverLive(m)
            /\ fpc' # "off" => channel' = Tail(channel)
      BY <1>8 DEF ForwardOverGap
    <2>2. missed \subseteq Message /\ caught \in 0..MaxResults
      BY <1>0, <1>1, OutboxTypes DEF DataType
    <2> HIDE DEF missed, caught
    <2>3. channel # <<>> /\ fpc = "recv" /\ m \in Checkpoint
      BY <2>1, Fields DEF Receives, Receiving
    <2>4. /\ channel' = Tail(channel) \/ channel' = <<>>
          /\ fpc' \in {"off", "recv", "hook", "write"}
          /\ gap' \in [cp : Checkpoint, held : Checkpoint]
      BY <1>0, <1>2, <2>1, <2>3 DEF DataType
    <2>5. DataType'
      BY <1>0, <1>3, <1>4, <1>8, <2>1, <2>2, <2>3, <2>4 DEF ForwardOverGap, DataType
    <2> QED
      BY <1>f, <2>5, TypeParts
  <1>9. CASE GapBootstrap
    <2>1. DataType'
      BY <1>0, <1>1, <1>4, <1>9 DEF GapBootstrap, ForwarderExits, DataType
    <2> QED
      BY <1>f, <2>1, TypeParts
  <1>10. CASE GapWriteFails
    <2>1. faults' \in 0..MaxFaults
      BY <1>0, <1>10, ReactionBounds DEF GapWriteFails, Fault, DataType
    <2>2. DataType'
      BY <1>0, <1>4, <1>10, <2>1 DEF GapWriteFails, ForwarderExits, DataType
    <2> QED
      BY <1>f, <2>2, TypeParts
  <1>11. CASE GapWrite
    <2>1. gap.held \in Message /\ Through(gap.cp) \subseteq Number
      BY <1>1, <1>11, Claims DEF GapWrite, HeldType
    <2>2. Before(gap.held) \subseteq Number
      BY <2>1, Preceding
    <2>3. excused' \subseteq Number
      BY <1>0, <1>11, <2>1, <2>2 DEF GapWrite, DataType
    <2>4. [gap.cp EXCEPT !.seq = gap.held.seq] \in Checkpoint
      BY <1>1 DEF Checkpoint
    <2>5. shared' \in Checkpoint /\ last' \in 0..MaxResults /\ queue' \subseteq Message
      BY <1>0, <1>1, <1>11, <2>1, <2>4 DEF GapWrite, DataType
    <2>6. DataType'
      BY <1>0, <1>1, <1>11, <2>3, <2>5 DEF GapWrite, DataType
    <2> QED
      BY <1>f, <2>6, TypeParts
  <1> QED
    BY <1>6, <1>7, <1>8, <1>9, <1>10, <1>11 DEF Forwarding

\* The steps of the loop, and the ends of the reaction, keep the types.
LEMMA LoopTypes ==
    ASSUME TypeOK, HeldType, Loop \/ LoopFails \/ StopReaction \/ Crash
    PROVE  TypeOK'
  <1>0. FlagType /\ DataType
    BY TypeParts
  <1>f. FlagType'
    BY <1>0, Zenon
       DEF FlagType, Loop, LoopFails, Dequeue, Handle, Advance, PutCheckpoint, HandleFails, PutFails,
           ReadFails, StopReaction, Crash, ReactionGone, loopRest, query
  <1> USE DEF query, forwarder, loop, history, loopRest
  <1>1. /\ Refreshed \in Checkpoint /\ hand.seq \in 0..MaxResults
        /\ [cache EXCEPT !.seq = hand.seq] \in Checkpoint
    BY <1>0, Fields DEF DataType, Refreshed, Checkpoint
  <1>2. hand \in Message => <<hand.epoch, hand.seq>> \in Number
    BY Fields DEF Number
  <1>3. Fault => faults' \in 0..MaxFaults
    BY <1>0, ReactionBounds DEF Fault, DataType
  <1>4. CASE Dequeue
    <2>1. hand' \in Checkpoint /\ queue' \subseteq Message
      BY <1>0, <1>4, Fields DEF Dequeue, DataType
    <2>2. lpc' \in {"idle", "handle"}
      BY <1>4 DEF Dequeue
    <2>3. DataType'
      BY <1>0, <1>1, <1>4, <2>1, <2>2 DEF Dequeue, DataType
    <2> QED
      BY <1>f, <2>3, TypeParts
  <1>5. CASE Handle
    <2>1. handled' \subseteq Number
      BY <1>0, <1>2, <1>5 DEF Handle, DataType, HeldType, Busy
    <2>2. DataType'
      BY <1>0, <1>5, <2>1 DEF Handle, DataType
    <2> QED
      BY <1>f, <2>2, TypeParts
  <1>6. CASE Advance
    <2>1. DataType'
      BY <1>0, <1>1, <1>6 DEF Advance, DataType
    <2> QED
      BY <1>f, <2>1, TypeParts
  <1>7. CASE PutCheckpoint
    <2>1. DataType'
      BY <1>0, <1>1, <1>7 DEF PutCheckpoint, DataType
    <2> QED
      BY <1>f, <2>1, TypeParts
  <1>8. CASE HandleFails
    <2>1. excused' \subseteq Number
      BY <1>0, <1>2, <1>8 DEF HandleFails, DataType, HeldType, Busy
    <2>2. DataType'
      BY <1>0, <1>3, <1>8, <2>1 DEF HandleFails, DataType
    <2> QED
      BY <1>f, <2>2, TypeParts
  <1>9. CASE PutFails \/ ReadFails
    <2>1. cache' \in Checkpoint /\ lpc' \in {"idle", "failed"} /\ Fault
      BY <1>0, <1>1, <1>9 DEF PutFails, ReadFails, DataType
    <2>2. DataType'
      BY <1>0, <1>3, <1>9, <2>1 DEF PutFails, ReadFails, DataType
    <2> QED
      BY <1>f, <2>2, TypeParts
  <1>10. CASE StopReaction \/ Crash
    <2>1. NoCheckpoint \in Checkpoint
      BY <1>0, Numbers
    <2>2. [cp |-> NoCheckpoint, held |-> NoCheckpoint] \in [cp : Checkpoint, held : Checkpoint]
      BY <2>1
    <2>3. ReactionGone /\ Fault
      BY <1>10 DEF StopReaction, Crash
    <2>4. DataType'
      BY <1>0, <1>3, <1>10, <2>1, <2>2, <2>3, ReactionBounds
         DEF StopReaction, Crash, ReactionGone, DataType
    <2> QED
      BY <1>f, <2>4, TypeParts
  <1> QED
    BY <1>4, <1>5, <1>6, <1>7, <1>8, <1>9, <1>10 DEF Loop, LoopFails

\* Results are held or taken in hand from the channel and the queue only.
LEMMA HeldTypes ==
    ASSUME TypeOK, HeldType, Next
    PROVE  HeldType'
  <1>0. DataType
    BY TypeParts
  <1> USE DEF query, forwarder, loop, history, loopRest, reactionVars
  <1>1. CASE QueryEmits \/ Dispatch \/ QueryOpens \/ QueryCloses \/ QueryRenews
    BY <1>1 DEF QueryEmits, Dispatch, QueryOpens, QueryCloses, QueryRenews, HeldType
  <1>2. CASE StartReaction
    <2>1. CASE Attach
      BY <2>1 DEF Attach, HeldType, Busy
    <2>2. CASE FreshStart \/ EpochMismatch \/ CatchUp \/ Bootstrap \/ PersistBootstrap
      <3>1. UNCHANGED <<gap, lpc, hand>> /\ fpc' \in {fpc, "off"}
        BY <2>2 DEF FreshStart, EpochMismatch, CatchUp, Bootstrap, PersistBootstrap, RecoverAtStart,
                    TakeSnapshot, StartFails, SkipTo, OpenGate
      <3> QED
        BY <3>1 DEF HeldType
    <2> QED
      BY <1>2, <2>1, <2>2 DEF StartReaction
  <1>3. ASSUME NEW held \in Message,
               RecoverLive(held), UNCHANGED <<lpc, hand>>
        PROVE  HeldType'
    <2>1. epoch \in 0..MaxEpoch
      BY <1>0 DEF DataType
    <2> QED
      BY <1>3, <2>1 DEF RecoverLive, ForwarderExits, HeldType
  <1>4. CASE Forwarding \/ GapWriteFails
    <2>2. CASE ForwardOverGap
      <3>1. PICK m \in Message : (UNCHANGED <<fpc, gap>>) \/ RecoverLive(m)
        BY <2>2 DEF ForwardOverGap
      <3>2. UNCHANGED <<lpc, hand>>
        BY <2>2 DEF ForwardOverGap
      <3> QED
        BY <1>3, <3>1, <3>2 DEF HeldType
    <2>3. CASE ForwardSkips \/ Forward \/ GapBootstrap \/ GapWrite \/ GapWriteFails
      <3>1. UNCHANGED <<gap, lpc, hand>> /\ (fpc' \in {fpc, "off", "recv"} \/ fpc = "hook")
        BY <2>3 DEF ForwardSkips, Forward, GapBootstrap, GapWrite, GapWriteFails, ForwarderExits
      <3> QED
        BY <3>1 DEF HeldType
    <2> QED
      BY <1>4, <2>2, <2>3 DEF Forwarding
  <1>5. CASE Loop \/ LoopFails
    <2>1. UNCHANGED <<fpc, gap>>
      BY <1>5 DEF Loop, LoopFails, Dequeue, Handle, Advance, PutCheckpoint, HandleFails, PutFails, ReadFails
    <2>2. lpc' \in Busy => hand' \in Message
      <3>1. CASE Dequeue
        BY <1>0, <3>1 DEF Dequeue, DataType
      <3>2. CASE ~Dequeue
        <4>1. hand' = hand /\ (lpc' \in Busy => lpc \in Busy)
          BY <1>5, <3>2 DEF Loop, LoopFails, Handle, Advance, PutCheckpoint, HandleFails, PutFails,
                            ReadFails, Busy
        <4> QED
          BY <4>1 DEF HeldType
      <3> QED
        BY <3>1, <3>2
    <2> QED
      BY <2>1, <2>2 DEF HeldType
  <1>6. CASE StopReaction \/ Crash
    BY <1>6 DEF StopReaction, Crash, ReactionGone, HeldType, Busy
  <1> QED
    BY <1>1, <1>2, <1>4, <1>5, <1>6 DEF Next

LEMMA TypesInductive ==
    ASSUME TypeOK, HeldType, [Next]_vars
    PROVE  TypeOK' /\ HeldType'
  <1>1. CASE Next
    BY <1>1, HeldTypes, QueryTypes, StartTypes, ForwardTypes, LoopTypes DEF Next
  <1>2. CASE UNCHANGED vars
    BY <1>2, ZenonT(40) DEF vars, TypeOK, HeldType
  <1> QED
    BY <1>1, <1>2

----------------------------------------------------------------------------
(* Facts the steps share.                                                  *)

\* The numbers of a state.
Numeric ==
    /\ AsOf \in Nat /\ Len(channel) \in Nat /\ sent \in Nat /\ sent <= AsOf
    /\ Past \in Int /\ Past = sent - Len(channel) /\ Past <= AsOf
    /\ asOf \in Nat /\ last \in Nat /\ epoch \in Nat
    /\ store.seq \in Nat /\ store.epoch \in Int
    /\ cache.seq \in Nat /\ cache.epoch \in Int
    /\ shared.seq \in Nat /\ shared.epoch \in Int
    /\ hand.seq \in Nat /\ hand.epoch \in Int
    /\ gap.cp \in Checkpoint /\ gap.cp.seq \in Nat /\ gap.cp.epoch \in Int
    /\ gap.held \in Checkpoint /\ gap.held.seq \in Nat /\ gap.held.epoch \in Int
    /\ NoCheckpoint.seq = 0 /\ NoCheckpoint.epoch = -1

\* The invariant, taken apart.
Parts == /\ FlagType /\ DataType /\ Numeric
         /\ EpochInv /\ StoreInv /\ CacheInv /\ TaskInv /\ ChannelInv /\ StartInv
         /\ QueueInv /\ LastInv /\ PastInv
         /\ GapInv /\ ResetInv /\ LoopInv /\ SkipInv

LEMMA Facts ==
    ASSUME IInv
    PROVE  Parts
  <1>1. FlagType /\ DataType
    BY TypeParts DEF IInv
  <1>2. /\ AsOf \in Nat /\ Len(channel) \in Nat /\ sent \in Nat /\ sent <= AsOf
        /\ NoCheckpoint.seq = 0 /\ NoCheckpoint.epoch = -1
    BY <1>1, Numbers, ReactionBounds
  <1>3. Past \in Int /\ Past = sent - Len(channel) /\ Past <= AsOf
    BY <1>2 DEF Past
  <1>4. \A c \in Checkpoint : c.seq \in Nat /\ c.epoch \in Int
    BY Fields, ReactionBounds
  <1>5. gap.cp \in Checkpoint /\ gap.held \in Checkpoint
    BY <1>1 DEF DataType
  <1>6. asOf \in Nat /\ last \in Nat /\ epoch \in Nat
    BY <1>1, ReactionBounds DEF DataType
  <1>7. store \in Checkpoint /\ cache \in Checkpoint /\ shared \in Checkpoint /\ hand \in Checkpoint
    BY <1>1 DEF DataType
  <1>8. Numeric
    BY <1>2, <1>3, <1>4, <1>5, <1>6, <1>7 DEF Numeric
  <1> QED
    BY <1>1, <1>8 DEF IInv, Parts

LEMMA ThroughIs ==
    ASSUME NEW cp, NEW S
    PROVE  (Through(cp) \subseteq S) <=> \A k \in 1..cp.seq : <<cp.epoch, k>> \in S
  BY DEF Through

\* Results stay done within an epoch, and accounted for while the loop rests.
LEMMA DoneStays ==
    ASSUME epoch' = epoch, handled \subseteq handled', excused \subseteq excused'
    PROVE  \A k : Done(k) => Done(k)'
  BY DEF Done

LEMMA AccountedStays ==
    ASSUME epoch' = epoch, handled \subseteq handled', excused \subseteq excused', queue \subseteq queue',
           lpc' = lpc, hand' = hand
    PROVE  \A k : Accounted(k) => Accounted(k)'
  BY DoneStays DEF Accounted

----------------------------------------------------------------------------
(* The query's steps keep the invariant.                                   *)

\* Emitting, opening and closing move the end of the results only.
LEMMA QueryKeeps ==
    ASSUME IInv, TypeOK', ~StopAnytime, QueryEmits \/ QueryOpens \/ QueryCloses
    PROVE  IInv'
  <1>0. Parts
    BY Facts
  <1>1. /\ UNCHANGED <<config, epoch, rpc, asOf, shared, fpc, last, gap, queue, lpc, hand, cache,
                       store, handled, excused, channel>>
        /\ AsOf' \in Nat /\ AsOf <= AsOf'
        /\ rpc # "down" => sent' = sent
    <2>1. UNCHANGED <<config, epoch, rpc, asOf, shared, fpc, last, gap, queue, lpc, hand, cache,
                      store, handled, excused, channel>>
      BY DEF QueryEmits, QueryOpens, QueryCloses, Emit, Open, Close, reactionVars,
             forwarder, loop, history
    <2>2. AsOf' \in Nat /\ AsOf <= AsOf'
      <3>1. CASE QueryEmits
        <4>1. PICK r \in Results : results' = Append(results, r)
          BY <3>1 DEF QueryEmits, Emit
        <4>2. results \in Seq(Results)
          BY <1>0 DEF Parts, DataType
        <4> QED
          BY <4>1, <4>2 DEF AsOf
      <3>2. CASE QueryOpens \/ QueryCloses
        BY <1>0, <3>2 DEF Parts, Numeric, QueryOpens, QueryCloses, Open, Close, AsOf
      <3> QED
        BY <3>1, <3>2
    <2>3. rpc # "down" => sent' = sent
      <3>1. CASE QueryOpens /\ rpc # "down"
        <4>1. rpc = "running"
          BY <1>0, <3>1 DEF Parts, Numeric, TaskInv, DataType, QueryOpens, Open
        <4> QED
          BY <1>0, <3>1, <4>1 DEF Parts, TaskInv, QueryOpens, Open
      <3> QED
        BY <3>1 DEF QueryEmits, QueryCloses
    <2> QED
      BY <2>1, <2>2, <2>3
  <1>2. rpc # "down" => Past' = Past
    BY <1>1 DEF Past
  <1>m. /\ shared.seq \in Nat /\ asOf \in Nat /\ last \in Nat /\ gap.cp.seq \in Nat
        /\ gap.held.seq \in Nat /\ AsOf \in Nat
    BY <1>0 DEF Parts, Numeric
  <1>n. /\ shared.seq <= AsOf => shared.seq <= AsOf'
        /\ asOf <= AsOf => asOf <= AsOf'
        /\ last <= AsOf => last <= AsOf'
        /\ gap.cp.seq <= AsOf => gap.cp.seq <= AsOf'
        /\ gap.held.seq <= AsOf => gap.held.seq <= AsOf'
    BY <1>m, <1>1
  <1>3. /\ \A k : Done(k) <=> Done(k)'
        /\ \A k : Accounted(k) <=> Accounted(k)'
        /\ Sure' <=> Sure
    BY <1>1 DEF Done, Accounted, Sure
  <1>4. EpochInv' /\ StoreInv' /\ CacheInv'
    <2>1. EpochInv'
      BY <1>0, <1>1 DEF Parts, EpochInv
    <2>2. StoreInv'
      <3>1. StoreInv /\ store.seq \in Nat /\ AsOf \in Nat
        BY <1>0 DEF Parts, Numeric
      <3>2. store' = store /\ epoch' = epoch /\ AsOf' \in Nat /\ AsOf <= AsOf'
        BY <1>1
      <3> QED
        BY <3>1, <3>2, <1>3 DEF StoreInv
    <2>3. CacheInv'
      BY <1>0, <1>1, <1>3 DEF Parts, Numeric, CacheInv
    <2> QED
      BY <2>1, <2>2, <2>3
  <1>5. TaskInv'
    <2>1. CASE QueryEmits
      BY <1>0, <1>1, <2>1 DEF Parts, TaskInv, QueryEmits, Emit, Snapshot
    <2>2. CASE QueryOpens
      BY <1>0, <1>1, <2>2 DEF Parts, TaskInv, QueryOpens, Open, Snapshot
    <2>3. CASE QueryCloses
      <3>1. Quiet /\ AsOf' = AsOf /\ sent' = sent
        BY <2>3 DEF QueryCloses, Close, AsOf
      <3> QED
        BY <1>0, <1>1, <3>1 DEF Parts, TaskInv, Quiet, Snapshot
    <2> QED
      BY <2>1, <2>2, <2>3
  <1>6. ChannelInv'
    <2>1. CASE rpc = "down"
      BY <1>0, <1>1, <2>1 DEF Parts, TaskInv, ChannelInv
    <2>2. CASE rpc # "down"
      BY <1>0, <1>1, <1>2, <2>2 DEF Parts, ChannelInv
    <2> QED
      BY <2>1, <2>2
  <1>7. StartInv'
    BY <1>0, <1>1, <1>n, <1>m DEF Parts, StartInv
  <1>8. QueueInv' /\ LastInv' /\ PastInv'
    <2>1. QueueInv'
      BY <1>0, <1>1, <1>n, <1>m DEF Parts, QueueInv
    <2>2. LastInv'
      BY <1>0, <1>1, <1>3 DEF Parts, LastInv
    <2>3. PastInv'
      BY <1>0, <1>1, <1>2 DEF Parts, PastInv, Position, TaskInv
    <2> QED
      BY <2>1, <2>2, <2>3
  <1>9. GapInv' /\ ResetInv'
    <2>2. GapInv'
      BY <1>0, <1>1, <1>n, <1>m DEF Parts, GapInv, Policy
    <2>3. ResetInv'
      BY <1>0, <1>1 DEF Parts, ResetInv, Policy
    <2> QED
      BY <2>2, <2>3
  <1>10. LoopInv' /\ SkipInv'
    BY <1>0, <1>1, <1>3 DEF Parts, LoopInv, SkipInv, Policy
  <1> QED
    BY <1>4, <1>5, <1>6, <1>7, <1>8, <1>9, <1>10 DEF IInv

\* Dispatching moves a result into the channel; a full ring loses its oldest.
LEMMA DispatchKeeps ==
    ASSUME IInv, TypeOK', ~EarlyOverrun, Dispatch
    PROVE  IInv'
  <1>0. Parts
    BY Facts
  <1>1. /\ UNCHANGED <<config, epoch, results, up, rpc, asOf, shared, fpc, last, gap, queue, lpc,
                       hand, cache, store, handled, excused>>
        /\ up /\ sent' = sent + 1
        /\ AsOf' = AsOf
    BY DEF Dispatch, reactionVars, forwarder, loop, history, AsOf
  <1>2. /\ \A k : Done(k) <=> Done(k)'
        /\ \A k : Accounted(k) <=> Accounted(k)'
        /\ Sure' <=> Sure
    BY <1>1 DEF Done, Accounted, Sure
  <1>3. /\ channel \in Seq(Message) /\ Len(channel) \in Nat /\ sent \in Nat
        /\ Past = sent - Len(channel)
    BY <1>0 DEF Parts, Numeric, DataType
  <1>4. fpc # "off" /\ ~(Position > 0) => Past' = Past
    <2> SUFFICES ASSUME fpc # "off", ~(Position > 0)
                 PROVE  Past' = Past
      OBVIOUS
    <2>1. channel' = Append(channel, [seq |-> sent', epoch |-> epoch])
      BY DEF Dispatch
    <2> QED
      BY <1>1, <1>3, <2>1 DEF Past
  <1>5. ChannelInv'
    <2>1. CASE fpc = "off"
      BY <1>0, <1>1, <2>1 DEF Parts, ChannelInv, Dispatch
    <2>2. CASE fpc # "off" /\ channel' = Append(channel, [seq |-> sent', epoch |-> epoch])
      <3>1. Past' = Past /\ Past \in Int
        BY <1>1, <1>3, <2>2 DEF Past
      <3>2. ASSUME NEW i \in DOMAIN channel'
            PROVE  channel'[i] = [seq |-> Past + i, epoch |-> epoch]
        <4>1. CASE i \in DOMAIN channel
          BY <1>0, <1>3, <2>2, <4>1 DEF Parts, ChannelInv
        <4>2. CASE i = Len(channel) + 1
          <5>1. channel'[i] = [seq |-> sent', epoch |-> epoch]
            BY <1>3, <2>2, <4>2
          <5>2. sent' = Past + i
            BY <1>1, <1>3, <4>2
          <5> QED
            BY <5>1, <5>2
        <4> QED
          BY <1>3, <2>2, <4>1, <4>2
      <3> QED
        BY <1>1, <2>2, <3>1, <3>2 DEF ChannelInv
    <2>3. CASE /\ fpc # "off" /\ Len(channel) = ChannelCapacity
               /\ channel' = Append(Tail(channel), [seq |-> sent', epoch |-> epoch])
      <3>0. Len(channel) > 0 /\ Tail(channel) \in Seq(Message) /\ Len(Tail(channel)) = Len(channel) - 1
        BY <1>3, <2>3, ReactionBounds
      <3>1. Past' = Past + 1 /\ Past \in Int
        BY <1>1, <1>3, <2>3, <3>0 DEF Past
      <3>2. ASSUME NEW i \in DOMAIN channel'
            PROVE  channel'[i] = [seq |-> Past + 1 + i, epoch |-> epoch]
        <4>0. i \in 1..Len(channel)
          BY <1>3, <2>3, <3>0
        <4>1. CASE i < Len(channel)
          <5>1. i + 1 \in DOMAIN channel /\ Tail(channel)[i] = channel[i + 1]
            BY <1>3, <3>0, <4>0, <4>1
          <5>2. channel'[i] = Tail(channel)[i]
            BY <1>3, <2>3, <3>0, <4>0, <4>1
          <5>3. channel[i + 1] = [seq |-> Past + (i + 1), epoch |-> epoch]
            BY <1>0, <5>1 DEF Parts, ChannelInv
          <5>4. Past + (i + 1) = Past + 1 + i
            BY <3>1, <4>0
          <5> QED
            BY <5>1, <5>2, <5>3, <5>4
        <4>2. CASE i = Len(channel)
          <5>1. channel'[i] = [seq |-> sent', epoch |-> epoch]
            BY <1>3, <2>3, <3>0, <4>2
          <5>2. sent' = Past + 1 + i
            BY <1>1, <1>3, <4>2
          <5> QED
            BY <5>1, <5>2
        <4> QED
          BY <1>3, <4>0, <4>1, <4>2
      <3> QED
        BY <1>1, <2>3, <3>1, <3>2 DEF ChannelInv
    <2> QED
      BY <2>1, <2>2, <2>3 DEF Dispatch
  <1>6. EpochInv' /\ StoreInv' /\ CacheInv'
    BY <1>0, <1>1, <1>2 DEF Parts, EpochInv, StoreInv, CacheInv
  <1>7. TaskInv'
    BY <1>0, <1>1 DEF Parts, TaskInv, Snapshot
  <1>9. StartInv'
    BY <1>0, <1>1 DEF Parts, StartInv
  <1>10. QueueInv' /\ LastInv'
    BY <1>0, <1>1, <1>2 DEF Parts, QueueInv, LastInv
  <1>11. GapInv' /\ ResetInv'
    BY <1>0, <1>1 DEF Parts, GapInv, ResetInv, Policy
  <1>12. PastInv'
    <2>1. Position' = Position
      BY <1>1 DEF Position
    <2> QED
      BY <1>0, <1>1, <1>4, <2>1 DEF Parts, PastInv
  <1>13. LoopInv' /\ SkipInv'
    BY <1>0, <1>1, <1>2 DEF Parts, LoopInv, SkipInv, Policy
  <1> QED
    BY <1>5, <1>6, <1>7, <1>9, <1>10, <1>11, <1>12, <1>13 DEF IInv

\* A rebuilt query has a new epoch, of which nobody claims anything.
LEMMA RenewKeeps ==
    ASSUME IInv, TypeOK', ~ResetInPlace, QueryRenews
    PROVE  IInv'
  <1>0. Parts
    BY Facts
  <1>1. /\ UNCHANGED <<config, up, rpc, asOf, shared, fpc, last, gap, queue, lpc,
                       hand, cache, store, handled, excused, channel>>
        /\ rpc = "down" /\ epoch' = epoch + 1 /\ epoch \in Nat
    BY <1>0 DEF QueryRenews, Renew, reactionVars, forwarder, loop, history, Parts, Numeric
  <1>2. fpc = "off" /\ channel = <<>> /\ lpc \in {"off", "idle"} /\ queue = {}
    BY <1>0, <1>1 DEF Parts, TaskInv, ChannelInv
  <1>3. store'.epoch < epoch' /\ cache'.epoch < epoch' /\ store'.epoch # epoch' /\ cache'.epoch # epoch'
    <2>1. store.epoch \in Int /\ cache.epoch \in Int /\ store.epoch <= epoch /\ cache.epoch <= epoch
      BY <1>0 DEF Parts, Numeric, EpochInv
    <2> QED
      BY <1>1, <2>1
  <1>4. EpochInv' /\ StoreInv' /\ CacheInv'
    <2>1. store'.epoch \in Int /\ cache'.epoch \in Int /\ epoch' \in Int
      BY <1>0, <1>1 DEF Parts, Numeric
    <2> QED
      BY <1>3, <2>1 DEF EpochInv, StoreInv, CacheInv
  <1>5. TaskInv' /\ ChannelInv' /\ StartInv'
    BY <1>1, <1>2 DEF TaskInv, ChannelInv, StartInv
  <1>6. QueueInv' /\ LastInv' /\ PastInv' /\ GapInv' /\ ResetInv'
    BY <1>1, <1>2 DEF QueueInv, LastInv, PastInv, GapInv, ResetInv
  <1>7. LoopInv' /\ SkipInv'
    BY <1>1, <1>2 DEF LoopInv, SkipInv, Busy
  <1> QED
    BY <1>4, <1>5, <1>6, <1>7 DEF IInv

----------------------------------------------------------------------------
(* start_reaction keeps the invariant.                                     *)

\* A start attaches where the query is.
LEMMA AttachKeeps ==
    ASSUME IInv, TypeOK', ~RetryInPlace, Attach
    PROVE  IInv'
  <1>0. Parts
    BY Facts
  <1>1. /\ UNCHANGED <<config, epoch, results, up, sent, shared, last, gap, queue, hand, store,
                       handled, excused>>
        /\ up /\ rpc = "down" /\ rpc' = "attached" /\ asOf' = AsOf /\ channel' = <<>>
        /\ fpc' = "recv" /\ lpc' = "idle" /\ cache' = store /\ AsOf' = AsOf
    BY DEF Attach, query, history, AsOf
  <1>2. \A k : Done(k) <=> Done(k)'
    BY <1>1 DEF Done
  <1>3. EpochInv' /\ StoreInv' /\ CacheInv'
    BY <1>0, <1>1, <1>2 DEF Parts, EpochInv, StoreInv, CacheInv
  <1>4. TaskInv' /\ ChannelInv'
    BY <1>0, <1>1 DEF Parts, TaskInv, ChannelInv
  <1>5. StartInv' /\ PastInv'
    <2>1. AsOf \in Nat /\ sent \in Nat /\ sent <= AsOf
      BY <1>0 DEF Parts, Numeric
    <2>2. Past' <= asOf' /\ asOf' <= AsOf'
      BY <1>1, <2>1 DEF Past
    <2>3. StartInv'
      BY <1>1, <2>2 DEF StartInv
    <2>4. PastInv'
      BY <1>1, <2>2 DEF PastInv, Position
    <2> QED
      BY <2>3, <2>4
  <1>6. QueueInv' /\ LastInv' /\ GapInv' /\ ResetInv'
    BY <1>1 DEF QueueInv, LastInv, GapInv, ResetInv
  <1>7. LoopInv' /\ SkipInv'
    BY <1>1 DEF LoopInv, SkipInv, Busy
  <1> QED
    BY <1>3, <1>4, <1>5, <1>6, <1>7 DEF IInv

\* A start that fails leaves nothing behind.
LEMMA FailedStartKeeps ==
    ASSUME IInv, TypeOK', rpc \in {"attached", "hook"}, StartFails,
           UNCHANGED <<query, asOf, gap, loop, faults, handled>>
    PROVE  IInv'
  <1>0. Parts
    BY Facts
  <1>1. /\ UNCHANGED <<config, epoch, results, up, sent, queue, store, cache, lpc, handled, excused>>
        /\ rpc' = "down" /\ channel' = <<>> /\ fpc' = "off" /\ AsOf' = AsOf
    BY DEF StartFails, query, loop, AsOf
  <1>2. \A k : Done(k) <=> Done(k)'
    BY <1>1 DEF Done
  <1>3. queue = {} /\ lpc \in {"off", "idle"}
    BY <1>0 DEF Parts, TaskInv
  <1>4. EpochInv' /\ StoreInv' /\ CacheInv'
    BY <1>0, <1>1, <1>2 DEF Parts, EpochInv, StoreInv, CacheInv
  <1>5. TaskInv' /\ ChannelInv' /\ StartInv'
    BY <1>1, <1>3 DEF TaskInv, ChannelInv, StartInv
  <1>6. QueueInv' /\ LastInv' /\ PastInv' /\ GapInv' /\ ResetInv'
    BY <1>1 DEF QueueInv, LastInv, PastInv, GapInv, ResetInv
  <1>7. LoopInv' /\ SkipInv'
    BY <1>1, <1>3 DEF LoopInv, SkipInv, Busy
  <1> QED
    BY <1>4, <1>5, <1>6, <1>7 DEF IInv

\* A snapshot is of everything up to now.
LEMMA SnapshotKeeps ==
    ASSUME IInv, TypeOK', rpc = "attached", Snapshot, TakeSnapshot,
           UNCHANGED <<query, asOf, gap, loop, faults, handled>>
    PROVE  IInv'
  <1>0. Parts
    BY Facts
  <1>1. /\ UNCHANGED <<config, epoch, results, up, sent, channel, asOf, fpc, last, gap, queue,
                       store, cache, lpc, hand, handled, excused>>
        /\ rpc' = "hook" /\ shared' = Now /\ AsOf' = AsOf
    BY DEF TakeSnapshot, query, loop, AsOf
  <1>2. \A k : Done(k) <=> Done(k)'
    BY <1>1 DEF Done
  <1>3. queue = {} /\ lpc \in {"off", "idle"} /\ fpc = "recv" /\ up
    BY <1>0 DEF Parts, TaskInv
  <1>4. EpochInv' /\ StoreInv' /\ CacheInv'
    BY <1>0, <1>1, <1>2 DEF Parts, EpochInv, StoreInv, CacheInv
  <1>5. TaskInv'
    BY <1>1, <1>3 DEF TaskInv, Snapshot
  <1>6. Past' = Past
    BY <1>1 DEF Past
  <1>7. ChannelInv'
    BY <1>0, <1>1, <1>6 DEF Parts, ChannelInv
  <1>8. StartInv' /\ PastInv'
    <2>1. asOf <= AsOf /\ asOf \in Nat /\ AsOf \in Nat /\ (asOf = 0 => Past <= 0)
      BY <1>0, <1>3 DEF Parts, StartInv, PastInv, Position, Numeric
    <2>2. shared'.epoch = epoch' /\ shared'.seq = AsOf
      BY <1>1 DEF Now
    <2>3. asOf' <= shared'.seq /\ shared'.seq <= AsOf'
      BY <1>1, <2>1, <2>2
    <2>4. StartInv'
      BY <1>1, <2>1, <2>2, <2>3 DEF StartInv
    <2>5. shared'.seq = 0 => Past' <= 0
      BY <1>6, <2>1, <2>2
    <2>6. PastInv'
      BY <1>1, <2>5 DEF PastInv, Position
    <2> QED
      BY <2>4, <2>6
  <1>9. QueueInv' /\ LastInv' /\ GapInv' /\ ResetInv'
    BY <1>1, <1>3 DEF QueueInv, LastInv, GapInv, ResetInv
  <1>10. LoopInv' /\ SkipInv'
    BY <1>1, <1>3 DEF LoopInv, SkipInv, Busy
  <1> QED
    BY <1>4, <1>5, <1>7, <1>8, <1>9, <1>10 DEF IInv

\* The gate opens at a checkpoint up to which everything is accounted for; at 0
\* nothing has been dispatched yet that is not in the channel.
LEMMA GateKeeps ==
    ASSUME IInv, TypeOK', rpc \in {"attached", "persist"}, rpc' = "running",
           UNCHANGED <<query, channel, fpc, gap, loop, handled>>,
           excused \subseteq excused', last' = shared'.seq, last' <= AsOf,
           \A m \in queue' : m.epoch = epoch /\ m.seq <= last',
           store'.epoch <= epoch, cache.epoch = epoch => store'.epoch = epoch,
           store'.epoch = epoch => store'.seq <= AsOf /\ \A k \in 1..store'.seq : Done(k)',
           store'.epoch = epoch => \A k \in 1..last' : Accounted(k)',
           last' = 0 => Past <= 0,
           Policy = "AutoSkipGap" => store'.epoch = epoch
    PROVE  IInv'
  <1>0. Parts
    BY Facts
  <1>1. /\ UNCHANGED <<config, epoch, results, up, sent, channel, fpc, gap, lpc, hand, cache,
                       handled>>
        /\ AsOf' = AsOf /\ Past' = Past
    BY DEF query, loop, AsOf, Past
  <1>2. lpc \in {"off", "idle"} /\ fpc = "recv" /\ up
    BY <1>0 DEF Parts, TaskInv
  <1>3. \A k : Done(k) => Done(k)'
    BY <1>1, DoneStays
  <1>4. EpochInv' /\ StoreInv'
    BY <1>0, <1>1 DEF Parts, EpochInv, StoreInv
  <1>5. CacheInv'
    BY <1>0, <1>1, <1>3 DEF Parts, CacheInv
  <1>6. TaskInv'
    BY <1>1, <1>2 DEF TaskInv
  <1>7. ChannelInv'
    BY <1>0, <1>1 DEF Parts, ChannelInv
  <1>8. QueueInv'
    BY <1>1, <1>2 DEF QueueInv, Busy
  <1>9. LastInv' /\ PastInv'
    <2>1. LastInv'
      BY <1>1 DEF LastInv, Sure
    <2>2. PastInv'
      BY <1>1 DEF PastInv, Position
    <2> QED
      BY <2>1, <2>2
  <1>10. StartInv' /\ GapInv' /\ ResetInv'
    BY <1>1, <1>2 DEF StartInv, GapInv, ResetInv
  <1>11. LoopInv' /\ SkipInv'
    BY <1>1, <1>2 DEF LoopInv, SkipInv, Busy, Policy
  <1> QED
    BY <1>4, <1>5, <1>6, <1>7, <1>8, <1>9, <1>10, <1>11 DEF IInv

\* Skipping what is retained excuses everything the checkpoint claims.
LEMMA SkipKeeps ==
    ASSUME IInv, TypeOK', rpc = "attached", NEW cp \in Checkpoint,
           cp.epoch = epoch, asOf <= cp.seq, cp.seq <= AsOf, SkipTo(cp),
           UNCHANGED <<query, asOf, gap, loop, faults, handled>>
    PROVE  IInv'
  <1>0. Parts
    BY Facts
  <1>1. /\ rpc' = "running" /\ store' = cp /\ shared' = cp /\ last' = cp.seq /\ queue' = queue
        /\ epoch' = epoch /\ excused' = excused \union Through(cp)
        /\ UNCHANGED <<query, channel, fpc, gap, loop, handled>>
    BY DEF SkipTo, OpenGate, query
  <1>2. queue = {}
    BY <1>0 DEF Parts, TaskInv
  <1>3. \A k \in 1..cp.seq : Done(k)' /\ Accounted(k)'
    <2> SUFFICES ASSUME NEW k \in 1..cp.seq
                 PROVE  Done(k)'
      BY DEF Accounted
    <2>1. <<cp.epoch, k>> \in Through(cp)
      BY DEF Through
    <2> QED
      BY <1>1, <2>1 DEF Done
  <1>4. cp.seq = 0 => Past <= 0
    <2>1. asOf \in Nat /\ (asOf = 0 => Past <= 0)
      BY <1>0 DEF Parts, Numeric, PastInv, Position, TaskInv
    <2>2. cp.seq \in Nat
      BY Fields, ReactionBounds
    <2> QED
      BY <2>1, <2>2
  <1>5. cp.epoch <= epoch /\ epoch \in Nat
    BY <1>0 DEF Parts, Numeric
  <1> QED
    BY <1>1, <1>2, <1>3, <1>4, <1>5, GateKeeps

LEMMA RecoverAtStartKeeps ==
    ASSUME IInv, TypeOK', rpc = "attached", RecoverAtStart,
           UNCHANGED <<query, asOf, gap, loop, faults, handled>>
    PROVE  IInv'
  <1>1. DataType /\ StartInv /\ AsOf \in Nat
    BY Facts DEF Parts, Numeric
  <1>2. CASE StartFails
    BY <1>2, FailedStartKeeps
  <1>3. CASE Policy = "AutoReset" /\ TakeSnapshot
    <2>1. Snapshot
      BY <1>1, <1>3 DEF DataType, Config, Policy, Snapshot
    <2> QED
      BY <1>3, <2>1, SnapshotKeeps
  <1>4. CASE SkipTo(Now)
    <2>1. Now \in Checkpoint /\ Now.epoch = epoch /\ Now.seq = AsOf
      BY <1>1, Numbers
    <2>2. asOf <= Now.seq /\ Now.seq <= AsOf
      BY <1>1, <2>1 DEF StartInv
    <2> QED
      BY <1>4, <2>1, <2>2, SkipKeeps
  <1> QED
    BY <1>2, <1>3, <1>4 DEF RecoverAtStart

LEMMA FreshStartKeeps ==
    ASSUME IInv, TypeOK', FreshStart
    PROVE  IInv'
  <1>0. DataType /\ StartInv
    BY Facts DEF Parts
  <1>1. asOf \in 0..MaxResults /\ epoch \in 0..MaxEpoch /\ asOf <= asOf
    BY <1>0, ReactionBounds DEF DataType
  <1>2. rpc = "attached" /\ UNCHANGED <<query, asOf, gap, loop, faults, handled>>
    BY DEF FreshStart
  <1>3. CASE Snapshot /\ TakeSnapshot
    BY <1>2, <1>3, SnapshotKeeps
  <1>4. CASE StartFails
    BY <1>2, <1>4, FailedStartKeeps
  <1>5. CASE SkipTo([seq |-> asOf, epoch |-> epoch])
    <2> DEFINE cp == [seq |-> asOf, epoch |-> epoch]
    <2>1. cp \in Checkpoint /\ cp.seq = asOf /\ cp.epoch = epoch
      BY <1>1, ReactionBounds DEF Checkpoint
    <2>2. SkipTo(cp) /\ asOf <= AsOf
      BY <1>0, <1>2, <1>5 DEF StartInv
    <2> HIDE DEF cp
    <2> QED
      BY <1>1, <1>2, <2>1, <2>2, SkipKeeps
  <1> QED
    BY <1>3, <1>4, <1>5 DEF FreshStart

\* A catch-up queues what the checkpoint does not claim.
LEMMA CatchUpKeeps ==
    ASSUME IInv, TypeOK', CatchUp
    PROVE  IInv'
  <1>0. Parts
    BY Facts
  <1>1. /\ rpc = "attached" /\ store.epoch = epoch
        /\ UNCHANGED <<query, asOf, gap, loop, faults, handled>>
    BY DEF CatchUp
  <1>2. CASE RecoverAtStart
    BY <1>1, <1>2, RecoverAtStartKeeps
  <1>3. CASE /\ queue' = queue \union OutboxAfter(store.seq)
             /\ OpenGate([store EXCEPT !.seq = IF AsOf > @ THEN AsOf ELSE @])
             /\ UNCHANGED <<store, excused>>
    <2>1. queue = {} /\ store.seq \in Nat /\ AsOf \in Nat /\ store.seq <= AsOf
      BY <1>0, <1>1 DEF Parts, TaskInv, Numeric, StoreInv
    <2>2. [store EXCEPT !.seq = IF AsOf > @ THEN AsOf ELSE @].seq = AsOf
      <3>1. store \in Checkpoint
        BY <1>0 DEF Parts, DataType
      <3> QED
        BY <2>1, <3>1 DEF Checkpoint
    <2>3. /\ rpc' = "running" /\ shared'.seq = AsOf /\ last' = AsOf
          /\ UNCHANGED <<query, channel, fpc, gap, loop, handled, store, excused>>
      BY <1>1, <1>3, <2>2 DEF OpenGate
    <2>4. epoch' = epoch /\ handled' = handled /\ excused' = excused
      BY <2>3 DEF query
    <2>5. \A m \in queue' : m.epoch = epoch /\ m.seq <= AsOf
      BY <1>3, <2>1 DEF OutboxAfter
    <2>6. \A k \in 1..store.seq : Done(k) /\ Done(k)'
      BY <1>0, <1>1, <2>4 DEF Parts, StoreInv, Done
    <2>7. ASSUME NEW k \in 1..AsOf
          PROVE  Accounted(k)'
      <3>1. CASE k \in 1..store.seq
        BY <2>6, <3>1 DEF Accounted
      <3>2. CASE k \in (store.seq + 1)..AsOf
        <4>1. [seq |-> k, epoch |-> epoch] \in OutboxAfter(store.seq)
          BY <3>2 DEF OutboxAfter
        <4> QED
          BY <1>3, <2>4, <4>1 DEF Accounted
      <3> QED
        BY <2>1, <3>1, <3>2
    <2>8. store.epoch <= epoch
      BY <1>0 DEF Parts, EpochInv
    <2>9. AsOf <= AsOf /\ (AsOf = 0 => Past <= 0)
      <3>1. asOf \in Nat /\ asOf <= AsOf /\ (asOf = 0 => Past <= 0)
        BY <1>0, <1>1 DEF Parts, Numeric, StartInv, PastInv, Position, TaskInv
      <3> QED
        BY <2>1, <3>1
    <2> QED
      BY <1>1, <2>1, <2>3, <2>5, <2>6, <2>7, <2>8, <2>9, GateKeeps
  <1>4. up
    BY <1>0, <1>1 DEF Parts, TaskInv
  <1> QED
    BY <1>2, <1>3, <1>4 DEF CatchUp

\* The hook's own snapshot has all that the checkpoint will claim.
LEMMA BootstrapKeeps ==
    ASSUME IInv, TypeOK', Bootstrap
    PROVE  IInv'
  <1>0. Parts
    BY Facts
  <1>1. /\ rpc = "hook" /\ fpc = "recv" /\ up /\ queue = {} /\ lpc \in {"off", "idle"}
        /\ UNCHANGED <<config, epoch, results, up, sent, channel, asOf, shared, fpc, last, gap,
                       queue, store, cache, lpc, hand, handled>>
        /\ rpc' = "persist" /\ excused' = excused \union Through(Now) /\ AsOf' = AsOf
    <2>1. rpc = "hook" /\ fpc = "recv" /\ up /\ queue = {} /\ lpc \in {"off", "idle"}
      BY <1>0 DEF Parts, TaskInv, Bootstrap
    <2> QED
      BY <2>1 DEF Bootstrap, query, loop, AsOf
  <1>2. \A k : Done(k) => Done(k)'
    BY <1>1, DoneStays
  <1>3. EpochInv' /\ StoreInv' /\ CacheInv'
    BY <1>0, <1>1, <1>2 DEF Parts, EpochInv, StoreInv, CacheInv
  <1>4. TaskInv'
    BY <1>0, <1>1 DEF Parts, TaskInv, Snapshot
  <1>5. Past' = Past
    BY <1>1 DEF Past
  <1>6. ChannelInv'
    BY <1>0, <1>1, <1>5 DEF Parts, ChannelInv
  <1>7. StartInv'
    <2>1. \A k \in 1..shared.seq : <<epoch, k>> \in Through(Now)
      <3>1. shared.seq <= AsOf /\ shared.seq \in Nat /\ AsOf \in Nat
        BY <1>0, <1>1 DEF Parts, StartInv, Numeric
      <3>2. \A k \in 1..AsOf : <<epoch, k>> \in Through(Now)
        BY DEF Through, Now
      <3> QED
        BY <3>1, <3>2
    <2> QED
      BY <1>0, <1>1, <2>1 DEF Parts, StartInv
  <1>8. QueueInv' /\ LastInv' /\ PastInv' /\ GapInv' /\ ResetInv'
    <2>1. PastInv'
      BY <1>0, <1>1, <1>5 DEF Parts, PastInv, Position
    <2> QED
      BY <1>1, <2>1 DEF QueueInv, LastInv, GapInv, ResetInv
  <1>9. LoopInv' /\ SkipInv'
    BY <1>1 DEF LoopInv, SkipInv, Busy
  <1> QED
    BY <1>3, <1>4, <1>6, <1>7, <1>8, <1>9 DEF IInv

\* The bootstrap's checkpoint claims what its snapshot had, stored or not.
LEMMA PersistKeeps ==
    ASSUME IInv, TypeOK', PersistBootstrap
    PROVE  IInv'
  <1>0. Parts
    BY Facts
  <1>1. /\ rpc = "persist" /\ rpc' = "running" /\ shared' = shared /\ last' = shared.seq
        /\ UNCHANGED <<query, channel, fpc, gap, loop, queue, handled, excused>>
        /\ store' = shared \/ store' = store
    BY DEF PersistBootstrap, OpenGate, history
  <1>2. /\ queue = {} /\ shared.epoch = epoch /\ shared.seq <= AsOf
        /\ asOf <= shared.seq /\ Snapshot
    BY <1>0, <1>1 DEF Parts, TaskInv, StartInv
  <1>3. \A k \in 1..shared.seq : Done(k)' /\ Accounted(k)'
    BY <1>0, <1>1 DEF Parts, StartInv, Done, Accounted, query
  <1>4. shared.seq = 0 => Past <= 0
    BY <1>0, <1>1 DEF Parts, PastInv, Position, TaskInv
  <1>5. Policy # "AutoSkipGap"
    BY <1>0, <1>2 DEF Parts, DataType, Config, Policy, Snapshot
  <1>6. store'.epoch <= epoch /\ (cache.epoch = epoch => store'.epoch = epoch)
    <2>1. EpochInv /\ epoch \in Nat
      BY <1>0 DEF Parts, Numeric
    <2> QED
      BY <1>1, <1>2, <2>1 DEF EpochInv
  <1>7. store'.epoch = epoch => store'.seq <= AsOf /\ \A k \in 1..store'.seq : Done(k)'
    <2>1. \A k : Done(k) => Done(k)'
      BY <1>1, DoneStays DEF query
    <2> QED
      BY <1>0, <1>1, <1>2, <1>3, <2>1 DEF Parts, StoreInv
  <1> QED
    BY <1>1, <1>2, <1>3, <1>4, <1>5, <1>6, <1>7, GateKeeps

LEMMA StartKeeps ==
    ASSUME IInv, TypeOK', ~RetryInPlace, StartReaction
    PROVE  IInv'
  <1>1. CASE EpochMismatch
    BY <1>1, RecoverAtStartKeeps DEF EpochMismatch
  <1> QED
    BY <1>1, AttachKeeps, FreshStartKeeps, CatchUpKeeps, BootstrapKeeps, PersistKeeps DEF StartReaction

----------------------------------------------------------------------------
(* The forwarder keeps the invariant.                                      *)

\* The result at the head of the channel is the one after those past it.
LEMMA HeadIs ==
    ASSUME IInv, NEW m \in Message, Receives(m)
    PROVE  /\ rpc = "running" /\ fpc = "recv"
           /\ m.seq = Past + 1 /\ m.epoch = epoch /\ m.seq <= AsOf
           /\ m = [seq |-> m.seq, epoch |-> epoch]
  <1>0. Parts
    BY Facts
  <1>1. rpc = "running" /\ fpc = "recv" /\ channel # <<>> /\ m = channel[1]
    BY DEF Receives, Receiving
  <1>2. /\ channel \in Seq(Message) /\ Len(channel) \in Nat /\ sent \in Nat /\ AsOf \in Nat
        /\ sent <= AsOf /\ Past = sent - Len(channel)
    BY <1>0 DEF Parts, DataType, Numeric
  <1>3. 1 \in DOMAIN channel /\ Len(channel) >= 1
    BY <1>1, <1>2
  <1>4. m = [seq |-> Past + 1, epoch |-> epoch]
    BY <1>0, <1>1, <1>3 DEF Parts, ChannelInv
  <1>5. m.seq = Past + 1 /\ m.epoch = epoch
    BY <1>4
  <1> QED
    BY <1>1, <1>2, <1>3, <1>4, <1>5

\* Taking it moves the rest up.
LEMMA HeadTaken ==
    ASSUME IInv, channel # <<>>, channel' = Tail(channel), sent' = sent, epoch' = epoch
    PROVE  /\ Past' = Past + 1
           /\ \A i \in DOMAIN channel' : channel'[i] = [seq |-> Past' + i, epoch |-> epoch]
  <1>0. Parts
    BY Facts
  <1>1. /\ channel \in Seq(Message) /\ Len(channel) \in Nat /\ sent \in Nat
        /\ Past = sent - Len(channel) /\ Past \in Int
    BY <1>0 DEF Parts, DataType, Numeric
  <1>2. Len(channel') = Len(channel) - 1 /\ channel' \in Seq(Message)
    BY <1>1
  <1>3. Past' = Past + 1
    BY <1>1, <1>2 DEF Past
  <1>4. ASSUME NEW i \in DOMAIN channel'
        PROVE  channel'[i] = [seq |-> Past' + i, epoch |-> epoch]
    <2>1. i + 1 \in DOMAIN channel /\ channel'[i] = channel[i + 1] /\ i \in Int
      BY <1>1, <1>2
    <2>2. channel[i + 1] = [seq |-> Past + (i + 1), epoch |-> epoch]
      BY <1>0, <2>1 DEF Parts, ChannelInv
    <2>3. Past + (i + 1) = Past' + i
      BY <1>1, <1>3, <2>1
    <2> QED
      BY <2>1, <2>2, <2>3
  <1> QED
    BY <1>3, <1>4

\* A forwarder that ends takes nothing back of what it passed on.
LEMMA ExitKeeps ==
    ASSUME IInv, TypeOK', rpc = "running", ForwarderExits,
           UNCHANGED <<query, rpc, asOf, shared, last, queue, loop, store, history>>
    PROVE  IInv'
  <1>0. Parts
    BY Facts
  <1>1. /\ UNCHANGED <<config, epoch, results, up, sent, rpc, asOf, shared, last, queue, lpc, hand,
                       cache, store, handled, excused>>
        /\ fpc' = "off" /\ channel' = <<>> /\ AsOf' = AsOf
    BY DEF ForwarderExits, query, loop, history, AsOf
  <1>2. /\ \A k : Done(k) <=> Done(k)'
        /\ \A k : Accounted(k) <=> Accounted(k)'
        /\ Sure' <=> Sure
    BY <1>1 DEF Done, Accounted, Sure
  <1>3. EpochInv' /\ StoreInv' /\ CacheInv'
    BY <1>0, <1>1, <1>2 DEF Parts, EpochInv, StoreInv, CacheInv
  <1>4. TaskInv' /\ ChannelInv' /\ StartInv'
    BY <1>0, <1>1 DEF Parts, TaskInv, ChannelInv, StartInv
  <1>5. QueueInv' /\ LastInv' /\ PastInv'
    BY <1>0, <1>1, <1>2 DEF Parts, QueueInv, LastInv, PastInv
  <1>6. GapInv' /\ ResetInv'
    BY <1>1 DEF GapInv, ResetInv
  <1>7. LoopInv' /\ SkipInv'
    BY <1>0, <1>1, <1>2 DEF Parts, LoopInv, SkipInv, Policy
  <1> QED
    BY <1>3, <1>4, <1>5, <1>6, <1>7 DEF IInv

\* A recovery starts from where the query is, or, when the query is stopped,
\* from the forwarder's own checkpoint.
LEMMA RecoverLiveKeeps ==
    ASSUME IInv, TypeOK', Receiving, NEW held \in Message, RecoverLive(held),
           UNCHANGED <<query, rpc, asOf, shared, last, queue, loop, store, history>>,
           held.epoch = epoch, last < held.seq, held.seq <= AsOf, last > 0,
           fpc' # "off" => \A i \in DOMAIN channel' : channel'[i] = [seq |-> Past' + i, epoch |-> epoch]
    PROVE  IInv'
  <1>0. Parts
    BY Facts
  <1>1. /\ UNCHANGED <<config, epoch, results, up, sent, rpc, asOf, shared, last, queue, lpc, hand,
                       cache, store, handled, excused>>
        /\ AsOf' = AsOf /\ rpc = "running" /\ fpc = "recv"
    BY DEF query, loop, history, AsOf, Receiving
  <1>2. CASE ForwarderExits
    BY <1>1, <1>2, ExitKeeps
  <1>3. CASE ~ForwarderExits
    <2> DEFINE at == [seq |-> IF up THEN AsOf ELSE shared.seq, epoch |-> epoch]
    <2>1. /\ fpc' \in {"hook", "write"} /\ gap' = [cp |-> at, held |-> held]
          /\ \/ Policy = "AutoReset" /\ up
             \/ Policy = "AutoSkipGap" /\ fpc' = "write"
          /\ Policy = "AutoReset" => fpc' = "hook"
      BY <1>3 DEF RecoverLive
    <2>2. at.epoch = epoch /\ at.seq \in Nat /\ at.seq <= AsOf /\ (up => at.seq = AsOf)
      <3>1. AsOf \in Nat /\ shared.seq \in Nat /\ shared.seq <= AsOf
        BY <1>0, <1>1 DEF Parts, QueueInv, Numeric
      <3> QED
        BY <3>1
    <2> HIDE DEF at
    <2>3. gap'.cp = at /\ gap'.held = held /\ Policy' = Policy
      BY <1>1, <2>1 DEF Policy
    <2>4. /\ \A k : Done(k) <=> Done(k)'
          /\ \A k : Accounted(k) <=> Accounted(k)'
          /\ Sure' <=> Sure
      BY <1>1 DEF Done, Accounted, Sure
    <2>5. last \in Nat /\ last <= AsOf
      BY <1>0, <1>1 DEF Parts, Numeric, QueueInv
    <2>6. EpochInv' /\ StoreInv' /\ CacheInv'
      BY <1>0, <1>1, <2>4 DEF Parts, EpochInv, StoreInv, CacheInv
    <2>7. TaskInv'
      BY <1>0, <1>1 DEF Parts, TaskInv
    <2>8. ChannelInv' /\ StartInv'
      BY <1>1, <2>1 DEF ChannelInv, StartInv
    <2>9. QueueInv' /\ LastInv' /\ PastInv'
      <3>1. QueueInv' /\ LastInv'
        BY <1>0, <1>1, <2>4 DEF Parts, QueueInv, LastInv
      <3>2. PastInv'
        BY <1>1, <2>5 DEF PastInv, Position
      <3> QED
        BY <3>1, <3>2
    <2>10. GapInv'
      BY <1>1, <2>1, <2>2, <2>3 DEF GapInv
    <2>11. ResetInv'
      BY <1>1, <2>1, <2>2, <2>3, <2>5 DEF ResetInv
    <2>12. LoopInv' /\ SkipInv'
      BY <1>0, <1>1, <2>4 DEF Parts, LoopInv, SkipInv, Policy
    <2> QED
      BY <2>6, <2>7, <2>8, <2>9, <2>10, <2>11, <2>12 DEF IInv
  <1> QED
    BY <1>2, <1>3

\* What the forwarder skips is not beyond last.
LEMMA SkipsKeep ==
    ASSUME IInv, TypeOK', ForwardSkips
    PROVE  IInv'
  <1>0. Parts
    BY Facts
  <1>1. PICK m \in Message : Receives(m) /\ m.seq <= last
    BY DEF ForwardSkips
  <1>2. /\ rpc = "running" /\ fpc = "recv"
        /\ m.seq = Past + 1 /\ m.epoch = epoch /\ m.seq <= AsOf
    BY <1>1, HeadIs
  <1>3. /\ UNCHANGED <<config, epoch, results, up, sent, rpc, asOf, shared, fpc, last, gap,
                       queue, lpc, hand, cache, store, handled, excused>>
        /\ AsOf' = AsOf /\ channel' = Tail(channel) /\ channel # <<>>
    BY <1>1 DEF ForwardSkips, query, forwarder, loop, history, AsOf, Receives
  <1>4. /\ Past' = Past + 1
        /\ \A i \in DOMAIN channel' : channel'[i] = [seq |-> Past' + i, epoch |-> epoch]
    BY <1>3, HeadTaken
  <1>5. /\ \A k : Done(k) <=> Done(k)'
        /\ \A k : Accounted(k) <=> Accounted(k)'
        /\ Sure' <=> Sure
    BY <1>3 DEF Done, Accounted, Sure
  <1>6. EpochInv' /\ StoreInv' /\ CacheInv'
    BY <1>0, <1>3, <1>5 DEF Parts, EpochInv, StoreInv, CacheInv
  <1>7. TaskInv'
    BY <1>0, <1>2, <1>3 DEF Parts, TaskInv
  <1>8. ChannelInv' /\ StartInv'
    BY <1>2, <1>3, <1>4 DEF ChannelInv, StartInv
  <1>9. QueueInv' /\ LastInv'
    BY <1>0, <1>3, <1>5 DEF Parts, QueueInv, LastInv
  <1>10. PastInv'
    <2>1. last \in Nat /\ m.seq \in 1..MaxResults
      BY <1>0, Fields DEF Parts, Numeric
    <2>2. last # 0
      BY <1>1, <2>1
    <2> QED
      BY <1>2, <1>3, <2>2 DEF PastInv, Position
  <1>11. GapInv' /\ ResetInv'
    BY <1>2, <1>3 DEF GapInv, ResetInv
  <1>12. LoopInv' /\ SkipInv'
    BY <1>0, <1>3, <1>5 DEF Parts, LoopInv, SkipInv, Policy
  <1> QED
    BY <1>6, <1>7, <1>8, <1>9, <1>10, <1>11, <1>12 DEF IInv

\* Forwarding moves last, with everything up to it accounted for.
LEMMA AdvanceLast ==
    ASSUME IInv, TypeOK', rpc = "running", fpc = "recv", channel # <<>>,
           channel' = Tail(channel),
           UNCHANGED <<query, rpc, asOf, fpc, gap, loop, store, history>>,
           last <= last', last' <= AsOf, shared'.seq <= AsOf,
           queue \subseteq queue', \A m \in queue' : m.epoch = epoch /\ (m \in queue \/ m.seq <= last'),
           last' > 0,
           Sure => \A k \in 1..last' : Accounted(k)'
    PROVE  IInv'
  <1>0. Parts
    BY Facts
  <1>1. /\ UNCHANGED <<config, epoch, results, up, sent, rpc, asOf, fpc, gap,
                       lpc, hand, cache, store, handled, excused>>
        /\ AsOf' = AsOf
    BY DEF query, loop, history, AsOf
  <1>2. /\ Past' = Past + 1
        /\ \A i \in DOMAIN channel' : channel'[i] = [seq |-> Past' + i, epoch |-> epoch]
    BY <1>1, HeadTaken
  <1>3. (\A k : Done(k) <=> Done(k)') /\ (Sure' <=> Sure)
    BY <1>1 DEF Done, Sure
  <1>4. last' \in Nat /\ last \in Nat
    <2>1. last' \in 0..MaxResults
      BY DEF TypeOK
    <2>2. last \in Nat
      BY <1>0 DEF Parts, Numeric
    <2> QED
      BY <2>1, <2>2, ReactionBounds
  <1>5. EpochInv' /\ StoreInv' /\ CacheInv'
    BY <1>0, <1>1, <1>3 DEF Parts, EpochInv, StoreInv, CacheInv
  <1>6. TaskInv'
    BY <1>0, <1>1 DEF Parts, TaskInv
  <1>7. ChannelInv' /\ StartInv'
    BY <1>1, <1>2 DEF ChannelInv, StartInv
  <1>8. QueueInv'
    <2>1. ASSUME NEW m \in queue'
          PROVE  m.epoch = epoch /\ m.seq <= last'
      <3>1. m \in Message
        BY DEF TypeOK
      <3>2. m.seq \in Nat
        BY <3>1, Fields, ReactionBounds
      <3>3. m \in queue => m.seq <= last
        BY <1>0 DEF Parts, QueueInv
      <3> QED
        BY <1>4, <3>2, <3>3
    <2>2. lpc \in Busy => hand \in Message /\ hand.epoch = epoch /\ hand.seq <= last'
      <3>1. lpc \in Busy => hand \in Message /\ hand.epoch = epoch /\ hand.seq <= last
        BY <1>0 DEF Parts, QueueInv
      <3>2. hand.seq \in Nat
        BY <1>0 DEF Parts, Numeric
      <3> QED
        BY <1>4, <3>1, <3>2
    <2> QED
      BY <1>1, <2>1, <2>2 DEF QueueInv
  <1>9. LastInv'
    BY <1>3 DEF LastInv
  <1>10. PastInv'
    <2>1. last' # 0
      BY <1>4
    <2> QED
      BY <1>1, <2>1 DEF PastInv, Position
  <1>11. GapInv' /\ ResetInv'
    BY <1>1 DEF GapInv, ResetInv
  <1>12. LoopInv' /\ SkipInv'
    BY <1>0, <1>1, <1>3 DEF Parts, LoopInv, SkipInv, Policy
  <1> QED
    BY <1>5, <1>6, <1>7, <1>8, <1>9, <1>10, <1>11, <1>12 DEF IInv

LEMMA ForwardKeeps ==
    ASSUME IInv, TypeOK', Forward
    PROVE  IInv'
  <1>0. Parts
    BY Facts
  <1>1. PICK m \in Message : /\ Receives(m)
                             /\ m.seq > last /\ ~GapBefore(m)
                             /\ last' = m.seq
                             /\ queue' = queue \union {m}
                             /\ shared' = [shared EXCEPT !.seq = m.seq]
    BY DEF Forward
  <1>2. /\ rpc = "running" /\ fpc = "recv"
        /\ m.seq = Past + 1 /\ m.epoch = epoch /\ m.seq <= AsOf
        /\ m = [seq |-> m.seq, epoch |-> epoch]
    BY <1>1, HeadIs
  <1>3. /\ UNCHANGED <<query, rpc, asOf, fpc, gap, loop, store, history>>
        /\ channel' = Tail(channel) /\ channel # <<>>
    BY <1>1 DEF Forward, Receives
  <1>4. shared'.seq = m.seq
    <2>1. shared \in Checkpoint
      BY <1>0 DEF Parts, DataType
    <2> QED
      BY <1>1, <2>1 DEF Checkpoint
  <1>5. Past \in Int /\ last \in Nat /\ m.seq \in Nat /\ m.seq >= 1 /\ AsOf \in Nat
    <2>1. Past \in Int /\ last \in Nat /\ AsOf \in Nat
      BY <1>0 DEF Parts, Numeric
    <2>2. m.seq \in Nat /\ m.seq >= 1
      BY Fields, ReactionBounds
    <2> QED
      BY <2>1, <2>2
  <1>6. last <= last' /\ last' <= AsOf /\ shared'.seq <= AsOf /\ last' > 0
    BY <1>1, <1>2, <1>4, <1>5
  \* There is no gap before m: it is the next result, or the first of all.
  <1>n. m.seq = last + 1
    <2>1. CASE last > 0
      BY <1>1, <1>5, <2>1 DEF GapBefore
    <2>2. CASE last = 0
      <3>1. Past <= 0
        BY <1>0, <1>2, <2>2 DEF Parts, PastInv, Position
      <3> QED
        BY <1>2, <1>5, <2>2, <3>1
    <2> QED
      BY <1>5, <2>1, <2>2
  <1>7. ASSUME Sure, NEW k \in 1..last'
        PROVE  Accounted(k)'
    <2>1. CASE k \in 1..last
      <3>1. Accounted(k)
        BY <1>0, <1>2, <1>7, <2>1 DEF Parts, LastInv
      <3> QED
        BY <1>1, <1>3, <3>1, AccountedStays DEF query, loop, history
    <2>2. CASE k = m.seq
      BY <1>1, <1>2, <1>3, <2>2 DEF Accounted, query
    <2> QED
      BY <1>1, <1>5, <1>n, <2>1, <2>2
  <1>8. \A o \in queue' : o.epoch = epoch /\ (o \in queue \/ o.seq <= last')
    BY <1>0, <1>1, <1>2, <1>5 DEF Parts, QueueInv
  <1> QED
    BY <1>1, <1>2, <1>3, <1>6, <1>7, <1>8, AdvanceLast

\* A gap is closed from the outbox, or recovered from.
LEMMA OverGapKeeps ==
    ASSUME IInv, TypeOK', ForwardOverGap
    PROVE  IInv'
  <1>0. Parts
    BY Facts
  <1> DEFINE missed == IF up /\ ~OutboxGap(last) THEN OutboxAfter(last) ELSE {}
             caught == IF missed = {} THEN last ELSE AsOf
  <1>1. PICK m \in Message :
          /\ Receives(m)
          /\ GapBefore(m)
          /\ queue' = queue \union missed
          /\ last' = caught
          /\ \/ m.seq <= caught /\ UNCHANGED <<fpc, gap>>
             \/ m.seq > caught /\ RecoverLive(m)
          /\ fpc' # "off" => channel' = Tail(channel)
          /\ UNCHANGED <<query, rpc, asOf, shared, loop, store, history>>
    BY DEF ForwardOverGap
  <1>2. /\ rpc = "running" /\ fpc = "recv"
        /\ m.seq = Past + 1 /\ m.epoch = epoch /\ m.seq <= AsOf
        /\ Receiving /\ channel # <<>>
    BY <1>1, HeadIs DEF Receives
  <1>3. last \in Nat /\ AsOf \in Nat /\ last <= AsOf /\ shared.seq <= AsOf
    BY <1>0, <1>2 DEF Parts, Numeric, QueueInv
  <1>4. m.seq \in Nat
    BY Fields, ReactionBounds
  <1>5. last < m.seq /\ last > 0
    BY <1>1, <1>3, <1>4 DEF GapBefore
  <1>6. CASE up /\ ~OutboxGap(last)
    <2>1. missed = OutboxAfter(last)
      BY <1>6
    <2>2. [seq |-> AsOf, epoch |-> epoch] \in missed
      <3>1. AsOf \in (last + 1)..AsOf
        BY <1>2, <1>3, <1>4, <1>5
      <3> QED
        BY <2>1, <3>1 DEF OutboxAfter
    <2>3. caught = AsOf
      BY <2>2
    <2> HIDE DEF missed, caught
    <2>4. ~(m.seq > caught)
      BY <1>2, <1>3, <1>4, <2>3
    <2>5. /\ UNCHANGED <<fpc, gap>> /\ channel' = Tail(channel) /\ last' = AsOf
          /\ queue' = queue \union OutboxAfter(last)
      BY <1>1, <1>2, <2>1, <2>3, <2>4
    <2>6. last <= last' /\ last' <= AsOf /\ shared'.seq <= AsOf /\ last' > 0
      BY <1>1, <1>3, <1>5, <2>5
    <2>7. ASSUME Sure, NEW k \in 1..last'
          PROVE  Accounted(k)'
      <3>1. CASE k \in 1..last
        <4>1. Accounted(k)
          BY <1>0, <1>2, <2>7, <3>1 DEF Parts, LastInv
        <4> QED
          BY <1>1, <2>5, <4>1, AccountedStays DEF query, loop, history
      <3>2. CASE k \in (last + 1)..AsOf
        <4>1. [seq |-> k, epoch |-> epoch] \in OutboxAfter(last)
          BY <3>2 DEF OutboxAfter
        <4> QED
          BY <1>1, <2>5, <4>1 DEF Accounted, query
      <3> QED
        BY <1>3, <2>5, <3>1, <3>2
    <2>8. \A o \in queue' : o.epoch = epoch /\ (o \in queue \/ o.seq <= last')
      <3>1. \A o \in OutboxAfter(last) : o.epoch = epoch /\ o.seq <= AsOf
        BY DEF OutboxAfter
      <3>2. \A o \in queue : o.epoch = epoch
        BY <1>0, <1>2 DEF Parts, QueueInv
      <3> QED
        BY <2>5, <3>1, <3>2
    <2> QED
      BY <1>1, <1>2, <2>5, <2>6, <2>7, <2>8, AdvanceLast
  <1>7. CASE ~(up /\ ~OutboxGap(last))
    <2>1. missed = {} /\ caught = last
      BY <1>7
    <2> HIDE DEF missed, caught
    <2>2. ~(m.seq <= caught)
      BY <1>3, <1>4, <1>5, <2>1
    <2>3. last' = last /\ queue' = queue /\ RecoverLive(m)
      BY <1>1, <2>1, <2>2
    <2>4. fpc' # "off" => \A i \in DOMAIN channel' : channel'[i] = [seq |-> Past' + i, epoch |-> epoch]
      BY <1>1, <1>2, HeadTaken DEF query
    <2> QED
      BY <1>1, <1>2, <1>5, <2>3, <2>4, RecoverLiveKeeps
  <1> QED
    BY <1>6, <1>7

\* The hook of a live recovery takes a snapshot beyond the checkpoint.
LEMMA GapBootstrapKeeps ==
    ASSUME IInv, TypeOK', GapBootstrap
    PROVE  IInv'
  <1>0. Parts
    BY Facts
  <1>1. fpc = "hook" /\ rpc = "running" /\ Policy = "AutoReset"
    <2>1. fpc = "hook"
      BY DEF GapBootstrap
    <2> QED
      BY <1>0, <2>1 DEF Parts, TaskInv, GapInv, DataType
  <1>2. CASE ForwarderExits /\ UNCHANGED excused
    BY <1>1, <1>2, ExitKeeps DEF GapBootstrap, history
  <1>3. CASE ~(ForwarderExits /\ UNCHANGED excused)
    <2>1. /\ UNCHANGED <<config, epoch, results, up, sent, channel, rpc, asOf, shared, last,
                         gap, queue, lpc, hand, cache, store, handled>>
          /\ fpc' = "write" /\ excused' = excused \union Through(Now)
          /\ AsOf' = AsOf /\ Past' = Past
      BY <1>3 DEF GapBootstrap, query, loop, AsOf, Past
    <2>2. /\ \A k : Done(k) => Done(k)'
          /\ \A k : Accounted(k) => Accounted(k)'
          /\ Sure' <=> Sure
      <3>1. Sure' <=> Sure
        BY <2>1 DEF Sure
      <3> QED
        BY <2>1, <3>1, DoneStays, AccountedStays
    <2>3. EpochInv' /\ StoreInv' /\ CacheInv'
      BY <1>0, <2>1, <2>2 DEF Parts, EpochInv, StoreInv, CacheInv
    <2>4. TaskInv' /\ ChannelInv' /\ StartInv'
      BY <1>0, <1>1, <2>1 DEF Parts, TaskInv, ChannelInv, StartInv
    <2>5. QueueInv' /\ LastInv' /\ PastInv'
      BY <1>0, <1>1, <2>1, <2>2 DEF Parts, QueueInv, LastInv, PastInv, Position
    <2>6. GapInv'
      BY <1>0, <1>1, <2>1 DEF Parts, GapInv, Policy
    <2>7. ResetInv'
      <3>1. \A k \in 1..gap.cp.seq : <<epoch, k>> \in Through(Now)
        <4>1. gap.cp.seq <= AsOf /\ gap.cp.seq \in Nat /\ AsOf \in Nat
          BY <1>0, <1>1 DEF Parts, GapInv, Numeric
        <4>2. \A k \in 1..AsOf : <<epoch, k>> \in Through(Now)
          BY DEF Through, Now
        <4> QED
          BY <4>1, <4>2
      <3> QED
        BY <1>0, <1>1, <2>1, <3>1 DEF Parts, ResetInv, Policy
    <2>8. LoopInv' /\ SkipInv'
      BY <1>0, <1>1, <2>1, <2>2 DEF Parts, LoopInv, SkipInv, Policy
    <2> QED
      BY <2>3, <2>4, <2>5, <2>6, <2>7, <2>8 DEF IInv
  <1> QED
    BY <1>2, <1>3

\* The write of a recovery claims what a snapshot had or the policy gave up.
LEMMA GapWriteKeeps ==
    ASSUME IInv, TypeOK', GapWrite
    PROVE  IInv'
  <1>0. Parts
    BY Facts
  <1>1. /\ UNCHANGED <<config, epoch, results, up, sent, channel, rpc, asOf, gap, lpc, hand,
                       cache, handled>>
        /\ fpc = "write" /\ fpc' = "recv" /\ store' = gap.cp
        /\ AsOf' = AsOf /\ Past' = Past
        /\ excused \subseteq excused' /\ queue \subseteq queue'
        /\ Policy = "AutoSkipGap" => Through(gap.cp) \union Before(gap.held) \subseteq excused'
    BY DEF GapWrite, query, loop, AsOf, Past
  <1>2. /\ rpc = "running" /\ gap.cp.epoch = epoch /\ gap.cp.seq <= AsOf
        /\ gap.held.epoch = epoch /\ last < gap.held.seq /\ gap.held.seq <= AsOf
        /\ Policy \in {"AutoReset", "AutoSkipGap"}
    <2>1. rpc = "running"
      BY <1>0, <1>1 DEF Parts, TaskInv, DataType
    <2> QED
      BY <1>0, <1>1, <2>1 DEF Parts, GapInv
  <1>3. /\ \A k : Done(k) => Done(k)'
        /\ \A k : Accounted(k) => Accounted(k)'
    BY <1>1, DoneStays, AccountedStays
  <1>4. AsOf \in Nat /\ last \in Nat /\ gap.cp.seq \in Nat /\ gap.held.seq \in Nat
    BY <1>0 DEF Parts, Numeric
  \* All that the checkpoint claims is done,
  <1>5. \A k \in 1..gap.cp.seq : Done(k)'
    <2> SUFFICES ASSUME NEW k \in 1..gap.cp.seq
                 PROVE  <<epoch, k>> \in excused'
      BY <1>1 DEF Done
    <2>1. CASE Policy = "AutoReset"
      BY <1>0, <1>1, <2>1 DEF Parts, ResetInv
    <2>2. CASE Policy = "AutoSkipGap"
      <3>1. <<gap.cp.epoch, k>> \in Through(gap.cp)
        BY DEF Through
      <3> QED
        BY <1>1, <1>2, <2>2, <3>1
    <2> QED
      BY <1>2, <2>1, <2>2
  \* and last moves on to the checkpoint or to the result at hand.
  <1>6. /\ last <= last' /\ last' <= AsOf /\ shared'.seq <= AsOf /\ last' > 0
        /\ \/ last' = gap.cp.seq /\ queue' = queue
           \/ last' = gap.held.seq /\ gap.held.seq > gap.cp.seq /\ queue' = queue \union {gap.held}
    <2>1. CASE gap.held.seq <= gap.cp.seq
      <3>1. shared' = gap.cp /\ last' = gap.cp.seq /\ queue' = queue
        BY <1>4, <2>1 DEF GapWrite
      <3> QED
        BY <1>2, <1>4, <2>1, <3>1
    <2>2. CASE gap.held.seq > gap.cp.seq
      <3>1. /\ shared' = [gap.cp EXCEPT !.seq = gap.held.seq] /\ last' = gap.held.seq
            /\ queue' = queue \union {gap.held}
        BY <1>4, <2>2 DEF GapWrite
      <3>2. gap.cp \in Checkpoint
        BY <1>0 DEF Parts, Numeric
      <3>3. shared'.seq = gap.held.seq
        BY <3>1, <3>2 DEF Checkpoint
      <3> QED
        BY <1>2, <1>4, <2>2, <3>1, <3>3
    <2> QED
      BY <1>4, <2>1, <2>2
  \* What is before the result at hand is in the snapshot, or given up with the gap.
  <1>8. \A k \in 1..last' : Accounted(k)'
    <2> SUFFICES ASSUME NEW k \in 1..last'
                 PROVE  Accounted(k)'
      OBVIOUS
    <2>1. CASE k \in 1..gap.cp.seq
      BY <1>5, <2>1 DEF Accounted
    <2>2. CASE k \notin 1..gap.cp.seq
      <3>1. last' = gap.held.seq /\ gap.held.seq > gap.cp.seq /\ gap.held \in queue'
        BY <1>6, <2>2
      <3>2. Policy = "AutoSkipGap"
        BY <1>0, <1>1, <1>2, <1>4, <3>1 DEF Parts, ResetInv
      <3>3. CASE k \in 1..(gap.held.seq - 1)
        <4>1. <<gap.held.epoch, k>> \in Before(gap.held)
          BY <3>3 DEF Before
        <4> QED
          BY <1>1, <1>2, <3>2, <4>1 DEF Accounted, Done
      <3>4. CASE k = gap.held.seq
        <4>1. gap.held = [seq |-> gap.held.seq, epoch |-> gap.held.epoch]
          BY <1>0 DEF Parts, Numeric, Checkpoint
        <4> QED
          BY <1>1, <1>2, <3>1, <3>4, <4>1 DEF Accounted
      <3> QED
        BY <1>4, <3>1, <3>3, <3>4
    <2> QED
      BY <2>1, <2>2
  <1>10. EpochInv' /\ StoreInv' /\ CacheInv'
    <2>1. EpochInv'
      <3>1. EpochInv /\ epoch \in Nat
        BY <1>0 DEF Parts, Numeric
      <3> QED
        BY <1>1, <1>2, <3>1 DEF EpochInv
    <2>2. StoreInv'
      BY <1>1, <1>2, <1>5 DEF StoreInv
    <2>3. CacheInv'
      BY <1>0, <1>1, <1>3 DEF Parts, CacheInv
    <2> QED
      BY <2>1, <2>2, <2>3
  <1>11. TaskInv' /\ ChannelInv' /\ StartInv'
    BY <1>0, <1>1, <1>2 DEF Parts, TaskInv, ChannelInv, StartInv
  <1>12. QueueInv'
    <2>1. ASSUME NEW m \in queue'
          PROVE  m.epoch = epoch /\ m.seq <= last'
      <3>1. m \in Message
        BY DEF TypeOK
      <3>2. m.seq \in Nat
        BY <3>1, Fields, ReactionBounds
      <3>3. m \in queue => m.epoch = epoch /\ m.seq <= last
        BY <1>0, <1>2 DEF Parts, QueueInv
      <3> QED
        BY <1>2, <1>4, <1>6, <3>2, <3>3
    <2>2. lpc \in Busy => hand \in Message /\ hand.epoch = epoch /\ hand.seq <= last'
      <3>1. lpc \in Busy => hand \in Message /\ hand.epoch = epoch /\ hand.seq <= last
        BY <1>0, <1>2 DEF Parts, QueueInv
      <3>2. hand.seq \in Nat
        BY <1>0 DEF Parts, Numeric
      <3> QED
        BY <1>4, <1>6, <3>1, <3>2
    <2> QED
      BY <1>1, <1>6, <2>1, <2>2 DEF QueueInv
  <1>13. LastInv' /\ PastInv'
    <2>1. LastInv'
      BY <1>8 DEF LastInv
    <2>2. last' # 0
      BY <1>4, <1>6
    <2>3. PastInv'
      BY <1>1, <1>2, <2>2 DEF PastInv, Position
    <2> QED
      BY <2>1, <2>3
  <1>14. GapInv' /\ ResetInv'
    BY <1>1 DEF GapInv, ResetInv
  <1>15. LoopInv'
    <2> SUFFICES ASSUME lpc \in Busy
                 PROVE  /\ cache.epoch = epoch => \A k \in 1..(hand.seq - 1) : Done(k)'
                        /\ lpc # "handle" => Done(hand.seq)'
                        /\ cache.epoch # epoch => hand.seq <= gap.cp.seq
      BY <1>1, <1>2 DEF LoopInv
    <2>1. /\ cache.epoch = epoch => \A k \in 1..(hand.seq - 1) : Done(k)
          /\ lpc # "handle" => Done(hand.seq)
          /\ hand.seq <= last /\ hand.seq \in Nat
      BY <1>0, <1>2 DEF Parts, LoopInv, QueueInv, Numeric
    <2>2. cache.epoch # epoch => last <= gap.cp.seq
      BY <1>0, <1>1, <1>2 DEF Parts, SkipInv, ResetInv
    <2>3. cache.epoch # epoch => hand.seq <= gap.cp.seq
      BY <1>4, <2>1, <2>2
    <2>4. Done(hand.seq) => Done(hand.seq)'
      BY <1>1 DEF Done
    <2> QED
      BY <1>3, <2>1, <2>3, <2>4
  <1>16. SkipInv'
    BY <1>0, <1>1, <1>2 DEF Parts, SkipInv, Policy
  <1> QED
    BY <1>10, <1>11, <1>12, <1>13, <1>14, <1>15, <1>16 DEF IInv

LEMMA ForwarderKeeps ==
    ASSUME IInv, TypeOK', Forwarding \/ GapWriteFails
    PROVE  IInv'
  <1>1. CASE GapWriteFails
    <2>1. rpc = "running"
      BY <1>1, Facts DEF GapWriteFails, Parts, TaskInv, DataType
    <2> QED
      BY <1>1, <2>1, ExitKeeps DEF GapWriteFails
  <1> QED
    BY <1>1, SkipsKeep, ForwardKeeps, OverGapKeeps, GapBootstrapKeeps, GapWriteKeeps
       DEF Forwarding

----------------------------------------------------------------------------
(* The loop keeps the invariant.                                           *)

\* A step of the loop that forgets no result while its checkpoint is of this
\* epoch leaves the forwarder's part of the invariant alone.
LEMMA LoopFrame ==
    ASSUME IInv, TypeOK', UNCHANGED loopRest, rpc = "running", lpc # "failed",
           handled \subseteq handled', excused \subseteq excused', queue' \subseteq queue,
           store'.epoch = epoch => store.epoch = epoch,
           lpc' # "failed" /\ store.epoch = epoch => \A k : Accounted(k) => Accounted(k)',
           lpc' \in Busy => hand' \in Message /\ hand'.epoch = epoch /\ hand'.seq <= last,
           EpochInv', StoreInv', CacheInv', LoopInv', SkipInv'
    PROVE  IInv'
  <1>0. Parts
    BY Facts
  <1>1. /\ UNCHANGED <<config, epoch, results, up, sent, channel, rpc, asOf, shared, fpc, last,
                       gap>>
        /\ AsOf' = AsOf /\ Past' = Past /\ Policy' = Policy
    BY DEF loopRest, query, forwarder, AsOf, Past, Policy
  <1>2. TaskInv'
    BY <1>0, <1>1 DEF Parts, TaskInv
  <1>3. ChannelInv' /\ StartInv'
    BY <1>0, <1>1 DEF Parts, ChannelInv, StartInv
  <1>4. QueueInv'
    BY <1>0, <1>1 DEF Parts, QueueInv
  <1>5. Sure' => Sure /\ lpc' # "failed" /\ store.epoch = epoch
    BY <1>1 DEF Sure
  <1>6. LastInv' /\ PastInv'
    BY <1>0, <1>1, <1>5 DEF Parts, LastInv, PastInv, Position
  <1>7. GapInv' /\ ResetInv'
    BY <1>0, <1>1 DEF Parts, GapInv, ResetInv
  <1> QED
    BY <1>2, <1>3, <1>4, <1>6, <1>7 DEF IInv

\* A refreshed cache is of this epoch if the store is, and claims only what is
\* done.
LEMMA RefreshedIs ==
    ASSUME IInv
    PROVE  /\ Refreshed.epoch <= epoch /\ Refreshed.seq \in Nat
           /\ Refreshed.epoch = epoch <=> store.epoch = epoch
           /\ Refreshed.epoch = epoch => \A k \in 1..Refreshed.seq : Done(k)
           /\ store.epoch = epoch /\ cache.epoch # epoch => Refreshed = store
  <1>0. Parts
    BY Facts
  <1>1. store.epoch = epoch /\ cache.epoch # epoch => Refreshed = store
    <2>1. NoCheckpoint.epoch = -1 /\ epoch \in Nat
      BY <1>0 DEF Parts, Numeric
    <2>2. store.epoch = epoch => store # NoCheckpoint
      BY <2>1
    <2> QED
      BY <2>2 DEF Refreshed
  <1>2. Refreshed = store \/ Refreshed = cache
    BY DEF Refreshed
  <1>3. /\ store.seq \in Nat /\ cache.seq \in Nat /\ store.epoch <= epoch /\ cache.epoch <= epoch
        /\ (cache.epoch = epoch => store.epoch = epoch)
    BY <1>0 DEF Parts, Numeric, EpochInv
  <1>4. Refreshed.epoch = epoch => \A k \in 1..Refreshed.seq : Done(k)
    BY <1>0, <1>2 DEF Parts, StoreInv, CacheInv
  <1>5. Refreshed.epoch = epoch <=> store.epoch = epoch
    BY <1>1, <1>2, <1>3
  <1> QED
    BY <1>1, <1>2, <1>3, <1>4, <1>5

\* The loop takes the first result that is queued: what comes before is done.
LEMMA DequeueKeeps ==
    ASSUME IInv, TypeOK', ~ClockSteps, Dequeue
    PROVE  IInv'
  <1>0. Parts
    BY Facts
  <1>r. /\ Refreshed.epoch <= epoch /\ Refreshed.seq \in Nat
        /\ Refreshed.epoch = epoch <=> store.epoch = epoch
        /\ Refreshed.epoch = epoch => \A k \in 1..Refreshed.seq : Done(k)
    BY RefreshedIs
  <1>1. PICK m \in queue :
          /\ \A o \in queue \ {m} : Earlier(m, o)
          /\ queue' = queue \ {m}
          /\ hand' = m
          /\ lpc' = IF m.seq <= Refreshed.seq THEN "idle" ELSE "handle"
    BY DEF Dequeue
  <1>2. /\ lpc = "idle" /\ cache' = Refreshed /\ UNCHANGED <<loopRest, store, handled, excused>>
        /\ epoch' = epoch /\ config' = config
    BY DEF Dequeue, history, loopRest, query
  <1>3. rpc = "running" /\ rpc' = "running" /\ AsOf' = AsOf
    BY <1>0, <1>2 DEF Parts, TaskInv, loopRest, query, AsOf
  <1>4. m \in Message /\ m.epoch = epoch /\ m.seq <= last
    BY <1>0, <1>3 DEF Parts, QueueInv, DataType
  <1>5. m.seq \in Nat /\ m.seq >= 1 /\ last \in Nat /\ m = [seq |-> m.seq, epoch |-> m.epoch]
    <2>1. m.seq \in 1..MaxResults
      BY <1>4, Fields
    <2>2. m = [seq |-> m.seq, epoch |-> m.epoch]
      BY <1>4 DEF Message
    <2>3. last \in Nat
      BY <1>0 DEF Parts, Numeric
    <2> QED
      BY <2>1, <2>2, <2>3, ReactionBounds
  <1>6. \A k : Done(k) <=> Done(k)'
    BY <1>2 DEF Done
  <1>7. ASSUME store.epoch = epoch, NEW k, Accounted(k)
        PROVE  Accounted(k)'
    <2>1. CASE k = m.seq /\ m.seq <= Refreshed.seq
      <3>1. k \in 1..Refreshed.seq
        BY <1>r, <1>5, <2>1
      <3> QED
        BY <1>r, <1>6, <1>7, <3>1 DEF Accounted
    <2>2. CASE k = m.seq /\ ~(m.seq <= Refreshed.seq)
      BY <1>1, <2>2 DEF Accounted
    <2>3. CASE k # m.seq
      <3>1. [seq |-> k, epoch |-> epoch] # m
        BY <2>3
      <3> QED
        BY <1>1, <1>2, <1>6, <1>7, <3>1 DEF Accounted
    <2> QED
      BY <2>1, <2>2, <2>3
  <1>8. ASSUME store.epoch = epoch, NEW k \in 1..(m.seq - 1)
        PROVE  Done(k)
    <2>1. k \in 1..last /\ k < m.seq /\ k \in Nat
      BY <1>4, <1>5
    <2>2. Accounted(k)
      BY <1>0, <1>2, <1>3, <1>8, <2>1 DEF Parts, LastInv, Sure
    <2>3. [seq |-> k, epoch |-> epoch] \notin queue
      <3> SUFFICES ASSUME [seq |-> k, epoch |-> epoch] \in queue
                   PROVE  FALSE
        OBVIOUS
      <3> DEFINE o == [seq |-> k, epoch |-> epoch]
      <3>1. o \in queue \ {m} /\ o.seq = k /\ o.epoch = epoch
        BY <1>5, <2>1
      <3> HIDE DEF o
      <3>2. Earlier(m, o)
        BY <1>1, <3>1
      <3>3. epoch \in Nat
        BY <1>0 DEF Parts, Numeric
      <3> QED
        BY <1>4, <1>5, <2>1, <3>1, <3>2, <3>3 DEF Earlier
    <2> QED
      BY <1>2, <2>2, <2>3 DEF Accounted
  <1>9. EpochInv' /\ StoreInv' /\ CacheInv'
    <2>1. EpochInv'
      BY <1>0, <1>r, <1>2 DEF Parts, EpochInv
    <2>2. StoreInv'
      BY <1>0, <1>2, <1>3, <1>6 DEF Parts, StoreInv
    <2>3. CacheInv'
      BY <1>r, <1>2, <1>6 DEF CacheInv
    <2> QED
      BY <2>1, <2>2, <2>3
  <1>10. LoopInv'
    <2>1. lpc' \in Busy => lpc' = "handle"
      BY <1>1 DEF Busy
    <2> QED
      BY <1>r, <1>1, <1>2, <1>6, <1>8, <2>1 DEF LoopInv
  <1>11. SkipInv'
    BY <1>0, <1>r, <1>2, <1>3 DEF Parts, SkipInv, Policy
  <1> QED
    BY <1>1, <1>2, <1>3, <1>4, <1>7, <1>9, <1>10, <1>11, LoopFrame

\* What a result in hand is, and that the reaction runs.
LEMMA HandIs ==
    ASSUME IInv, lpc \in Busy
    PROVE  /\ rpc = "running" /\ lpc # "failed"
           /\ hand \in Message /\ hand.epoch = epoch /\ hand.seq <= last
           /\ last \in Nat /\ last <= AsOf /\ AsOf \in Nat /\ hand.seq \in Nat
  <1>0. Parts
    BY Facts
  <1>1. rpc = "running" /\ lpc # "failed"
    BY <1>0 DEF Parts, TaskInv, Busy
  <1> QED
    BY <1>0, <1>1 DEF Parts, QueueInv, Numeric

\* The result in hand is acted on or given up.
LEMMA HandleKeeps ==
    ASSUME IInv, TypeOK', Handle \/ HandleFails
    PROVE  IInv'
  <1>0. Parts
    BY Facts
  <1>1. /\ lpc = "handle" /\ lpc \in Busy
        /\ UNCHANGED <<loopRest, queue, hand, cache, store>>
        /\ handled \subseteq handled' /\ excused \subseteq excused'
        /\ \/ lpc' = "refresh" /\ <<hand.epoch, hand.seq>> \in handled' \union excused'
           \/ lpc' = "failed"
    BY DEF Handle, HandleFails, Busy
  <1>2. /\ rpc = "running" /\ lpc # "failed"
        /\ hand \in Message /\ hand.epoch = epoch /\ hand.seq <= last
    BY <1>1, HandIs
  <1>3. epoch' = epoch /\ config' = config /\ rpc' = rpc /\ AsOf' = AsOf
    BY <1>1 DEF loopRest, query, AsOf
  <1>4. \A k : Done(k) => Done(k)'
    BY <1>1, <1>3, DoneStays
  <1>5. lpc' # "failed" => \A k : k = hand.seq => Done(k)'
    BY <1>1, <1>2, <1>3 DEF Done
  <1>6. ASSUME lpc' # "failed", NEW k, Accounted(k)
        PROVE  Accounted(k)'
    BY <1>1, <1>3, <1>4, <1>5, <1>6 DEF Accounted
  <1>7. EpochInv' /\ StoreInv' /\ CacheInv'
    BY <1>0, <1>1, <1>3, <1>4 DEF Parts, EpochInv, StoreInv, CacheInv
  <1>8. LoopInv'
    <2>1. lpc' \in Busy => Done(hand.seq)'
      BY <1>1, <1>2, <1>3 DEF Done, Busy
    <2> QED
      BY <1>0, <1>1, <1>3, <1>4, <2>1 DEF Parts, LoopInv
  <1>9. SkipInv'
    BY <1>0, <1>1, <1>3 DEF Parts, SkipInv, Policy
  <1> QED
    BY <1>1, <1>2, <1>3, <1>6, <1>7, <1>8, <1>9, LoopFrame

\* After another look at the store the loop still writes in order.
LEMMA AdvanceKeeps ==
    ASSUME IInv, TypeOK', Advance
    PROVE  IInv'
  <1>0. Parts
    BY Facts
  <1>r. /\ Refreshed.epoch <= epoch /\ Refreshed.seq \in Nat
        /\ Refreshed.epoch = epoch <=> store.epoch = epoch
        /\ Refreshed.epoch = epoch => \A k \in 1..Refreshed.seq : Done(k)
    BY RefreshedIs
  <1>1. /\ lpc = "refresh" /\ lpc \in Busy /\ cache' = Refreshed /\ lpc' \in {"idle", "put"}
        /\ UNCHANGED <<loopRest, queue, hand, store, handled, excused>>
    BY DEF Advance, Busy, history
  <1>2. /\ rpc = "running" /\ lpc # "failed"
        /\ hand \in Message /\ hand.epoch = epoch /\ hand.seq <= last /\ hand.seq \in Nat
    BY <1>1, HandIs
  <1>3. epoch' = epoch /\ config' = config /\ rpc' = rpc /\ AsOf' = AsOf
    BY <1>1 DEF loopRest, query, AsOf
  <1>4. \A k : Done(k) <=> Done(k)'
    BY <1>1, <1>3 DEF Done
  <1>5. \A k : Accounted(k) => Accounted(k)'
    BY <1>1, <1>3, <1>4 DEF Accounted
  <1>6. EpochInv' /\ StoreInv' /\ CacheInv'
    <2>1. EpochInv'
      BY <1>0, <1>r, <1>1, <1>3 DEF Parts, EpochInv
    <2>2. StoreInv'
      BY <1>0, <1>1, <1>3, <1>4 DEF Parts, StoreInv
    <2>3. CacheInv'
      BY <1>r, <1>1, <1>3, <1>4 DEF CacheInv
    <2> QED
      BY <2>1, <2>2, <2>3
  <1>7. LoopInv'
    <2>1. Done(hand.seq) /\ (Done(hand.seq) => Done(hand.seq)')
      BY <1>0, <1>1, <1>3 DEF Parts, LoopInv, Done
    <2>2. ASSUME store.epoch = epoch, NEW k \in 1..(hand.seq - 1)
          PROVE  Done(k)
      <3>1. CASE cache.epoch = epoch
        BY <1>0, <1>1, <3>1 DEF Parts, LoopInv
      <3>2. CASE cache.epoch # epoch
        <4>1. hand.seq <= store.seq /\ store.seq \in Nat
          BY <1>0, <1>1, <2>2, <3>2 DEF Parts, LoopInv, Numeric
        <4>2. k \in 1..store.seq
          BY <1>2, <4>1
        <4> QED
          BY <1>0, <2>2, <4>2 DEF Parts, StoreInv
      <3> QED
        BY <3>1, <3>2
    <2> QED
      BY <1>r, <1>1, <1>3, <1>4, <2>1, <2>2 DEF LoopInv
  <1>8. SkipInv'
    BY <1>0, <1>r, <1>1, <1>3 DEF Parts, SkipInv, Policy
  <1> QED
    BY <1>1, <1>2, <1>3, <1>5, <1>6, <1>7, <1>8, LoopFrame

\* The loop's checkpoint claims one result more, which is done.
LEMMA PutKeeps ==
    ASSUME IInv, TypeOK', PutCheckpoint \/ PutFails
    PROVE  IInv'
  <1>0. Parts
    BY Facts
  <1> DEFINE new == [cache EXCEPT !.seq = hand.seq]
  <1>1. /\ lpc = "put" /\ lpc \in Busy /\ lpc' \in {"idle", "failed"}
        /\ cache' \in {cache, new} /\ store' \in {store, new}
        /\ UNCHANGED <<loopRest, queue, hand, handled, excused>>
    BY DEF PutCheckpoint, PutFails, Busy, history
  <1>2. /\ rpc = "running" /\ lpc # "failed" /\ AsOf \in Nat
        /\ hand \in Message /\ hand.epoch = epoch /\ hand.seq <= last /\ hand.seq <= AsOf
    <2>1. /\ rpc = "running" /\ lpc # "failed"
          /\ hand \in Message /\ hand.epoch = epoch /\ hand.seq <= last
          /\ last \in Nat /\ last <= AsOf /\ AsOf \in Nat /\ hand.seq \in Nat
      BY <1>1, HandIs
    <2> QED
      BY <2>1
  <1>3. epoch' = epoch /\ config' = config /\ rpc' = rpc /\ AsOf' = AsOf
    BY <1>1 DEF loopRest, query, AsOf
  <1>4. new.epoch = cache.epoch /\ new.seq = hand.seq
    <2>1. cache \in Checkpoint
      BY <1>0 DEF Parts, DataType
    <2> QED
      BY <2>1 DEF Checkpoint
  <1> HIDE DEF new
  <1>5. \A k : Done(k) <=> Done(k)'
    BY <1>1, <1>3 DEF Done
  <1>6. \A k : Accounted(k) => Accounted(k)'
    BY <1>1, <1>3, <1>5 DEF Accounted
  <1>7. ASSUME cache.epoch = epoch, NEW k \in 1..hand.seq
        PROVE  Done(k)
    <2>1. \A j \in 1..(hand.seq - 1) : Done(j)
      BY <1>0, <1>1, <1>7 DEF Parts, LoopInv
    <2>2. \A j : j = hand.seq => Done(j)
      BY <1>0, <1>1 DEF Parts, LoopInv, Done
    <2>3. k = hand.seq \/ k \in 1..(hand.seq - 1)
      <3>1. hand.seq \in Nat
        BY <1>0 DEF Parts, Numeric
      <3> QED
        BY <3>1
    <2> QED
      BY <2>1, <2>2, <2>3
  <1>8. EpochInv' /\ StoreInv' /\ CacheInv'
    <2>1. EpochInv'
      BY <1>0, <1>1, <1>3, <1>4 DEF Parts, EpochInv
    <2>2. StoreInv'
      BY <1>0, <1>1, <1>2, <1>3, <1>4, <1>5, <1>7 DEF Parts, StoreInv
    <2>3. CacheInv'
      BY <1>0, <1>1, <1>3, <1>4, <1>5, <1>7 DEF Parts, CacheInv
    <2> QED
      BY <2>1, <2>2, <2>3
  <1>9. LoopInv'
    BY <1>1 DEF LoopInv, Busy
  <1>10. SkipInv'
    <2>1. Policy = "AutoSkipGap" => store.epoch = epoch /\ cache.epoch = epoch
      BY <1>0, <1>1, <1>2 DEF Parts, SkipInv
    <2> QED
      BY <1>1, <1>3, <1>4, <2>1 DEF SkipInv, Policy, Busy
  <1>11. store'.epoch = epoch => store.epoch = epoch
    BY <1>0, <1>1, <1>4 DEF Parts, EpochInv
  <1> QED
    BY <1>1, <1>2, <1>3, <1>6, <1>8, <1>9, <1>10, <1>11, LoopFrame

LEMMA ReadFailsKeeps ==
    ASSUME IInv, TypeOK', ReadFails
    PROVE  IInv'
  <1>0. Parts
    BY Facts
  <1>1. /\ lpc \in Busy /\ lpc' = "failed"
        /\ UNCHANGED <<loopRest, queue, hand, cache, store, handled, excused>>
    BY DEF ReadFails, Busy, history
  <1>2. rpc = "running" /\ lpc # "failed"
    BY <1>1, HandIs
  <1>3. epoch' = epoch /\ config' = config /\ rpc' = rpc /\ AsOf' = AsOf
    BY <1>1 DEF loopRest, query, AsOf
  <1>4. \A k : Done(k) <=> Done(k)'
    BY <1>1, <1>3 DEF Done
  <1>5. EpochInv' /\ StoreInv' /\ CacheInv'
    BY <1>0, <1>1, <1>3, <1>4 DEF Parts, EpochInv, StoreInv, CacheInv
  <1>6. LoopInv' /\ SkipInv'
    BY <1>0, <1>1, <1>3 DEF Parts, LoopInv, SkipInv, Policy, Busy
  <1>7. lpc' \notin Busy
    BY <1>1 DEF Busy
  <1> QED
    BY <1>1, <1>2, <1>3, <1>5, <1>6, <1>7, LoopFrame

\* After a stop or a crash only the store is left.
LEMMA GoneKeeps ==
    ASSUME IInv, TypeOK', StopReaction \/ Crash
    PROVE  IInv'
  <1>0. Parts
    BY Facts
  <1>1. /\ rpc' = "down" /\ fpc' = "off" /\ channel' = <<>> /\ queue' = {}
        /\ lpc' = "off" /\ cache' = NoCheckpoint
        /\ UNCHANGED <<config, epoch, results, sent, store, handled, excused>>
        /\ AsOf' = AsOf
    BY DEF StopReaction, Crash, ReactionGone, query, history, AsOf
  <1>2. \A k : Done(k) <=> Done(k)'
    BY <1>1 DEF Done
  <1>3. cache'.epoch = -1 /\ epoch \in Nat /\ store.epoch <= epoch
    BY <1>0, <1>1 DEF Parts, Numeric, EpochInv
  <1>4. EpochInv' /\ StoreInv' /\ CacheInv'
    <2>1. EpochInv'
      BY <1>1, <1>3 DEF EpochInv
    <2>2. StoreInv'
      BY <1>0, <1>1, <1>2 DEF Parts, StoreInv
    <2>3. CacheInv'
      BY <1>1, <1>3 DEF CacheInv
    <2> QED
      BY <2>1, <2>2, <2>3
  <1>5. TaskInv' /\ ChannelInv' /\ StartInv'
    BY <1>1 DEF TaskInv, ChannelInv, StartInv
  <1>6. QueueInv' /\ LastInv' /\ PastInv' /\ GapInv' /\ ResetInv'
    BY <1>1 DEF QueueInv, LastInv, PastInv, GapInv, ResetInv
  <1>7. LoopInv' /\ SkipInv'
    BY <1>1 DEF LoopInv, SkipInv, Busy
  <1> QED
    BY <1>4, <1>5, <1>6, <1>7 DEF IInv

----------------------------------------------------------------------------
(* The theorems.                                                           *)

LEMMA InitIInv == Init => IInv
  <1> SUFFICES ASSUME Init
               PROVE  IInv
    OBVIOUS
  <1> USE DEF Init, LogInit
  <1>1. NoCheckpoint.seq = 0 /\ NoCheckpoint.epoch = -1 /\ NoCheckpoint \in Checkpoint
    BY ReactionBounds DEF NoCheckpoint, None, Checkpoint
  <1>2. up \in BOOLEAN
    BY Zenon
  <1>3. config \in Config
    BY ReactionBounds
  <1>4. results \in Seq(Results) /\ Len(results) = 0 /\ channel \in Seq(Message) /\ Len(channel) = 0
    OBVIOUS
  <1>5. DataType
    BY <1>1, <1>3, <1>4, ReactionBounds DEF DataType
  <1>6. TypeOK
    BY <1>2, <1>5, Zenon DEF TypeOK, DataType
  <1>7. EpochInv /\ StoreInv /\ CacheInv
    BY <1>1 DEF EpochInv, StoreInv, CacheInv
  <1>8. TaskInv /\ ChannelInv /\ StartInv
    BY DEF TaskInv, ChannelInv, StartInv
  <1>9. QueueInv /\ LastInv /\ PastInv /\ GapInv /\ ResetInv
    BY DEF QueueInv, LastInv, PastInv, GapInv, ResetInv
  <1>10. LoopInv /\ SkipInv
    BY DEF LoopInv, SkipInv, Busy
  <1> QED
    BY <1>6, <1>7, <1>8, <1>9, <1>10 DEF IInv

\* Nothing happens: nothing changes.
LEMMA StutterIInv ==
    ASSUME IInv, TypeOK', UNCHANGED vars
    PROVE  IInv'
  <1> USE DEF vars
  <1>1. EpochInv' /\ StoreInv' /\ CacheInv' /\ TaskInv' /\ ChannelInv' /\ StartInv'
    BY Zenon DEF IInv, EpochInv, StoreInv, CacheInv, TaskInv, ChannelInv, StartInv, Done, AsOf, Past, Snapshot
  <1>2. QueueInv' /\ LastInv' /\ PastInv'
    BY Zenon DEF IInv, QueueInv, LastInv, PastInv, Position, Accounted, Done, Sure, AsOf, Past
  <1>3. GapInv' /\ ResetInv'
    BY Zenon DEF IInv, GapInv, ResetInv, Accounted, Done, Policy, AsOf, Past
  <1>4. LoopInv' /\ SkipInv'
    BY Zenon DEF IInv, LoopInv, SkipInv, Done, Policy
  <1> QED
    BY <1>1, <1>2, <1>3, <1>4 DEF IInv

\* No step leaves the invariant.
LEMMA Inductive ==
    ASSUME ~StopAnytime, ~ResetInPlace, ~RetryInPlace, ~ClockSteps, ~EarlyOverrun,
           IInv, TypeOK', [Next]_vars
    PROVE  IInv'
  <1>1. CASE QueryEmits \/ Dispatch \/ QueryOpens \/ QueryCloses \/ QueryRenews
    BY <1>1, QueryKeeps, DispatchKeeps, RenewKeeps
  <1>2. CASE StartReaction
    BY <1>2, StartKeeps
  <1>3. CASE Forwarding \/ GapWriteFails
    BY <1>3, ForwarderKeeps
  <1>4. CASE Loop \/ LoopFails
    BY <1>4, DequeueKeeps, HandleKeeps, AdvanceKeeps, PutKeeps, ReadFailsKeeps DEF Loop, LoopFails
  <1>5. CASE StopReaction \/ Crash
    BY <1>5, GoneKeeps
  <1>6. CASE UNCHANGED vars
    BY <1>6, StutterIInv
  <1> QED
    BY <1>1, <1>2, <1>3, <1>4, <1>5, <1>6 DEF Next

LEMMA TypesHold == Spec => [](TypeOK /\ HeldType)
  <1>1. Init => TypeOK /\ HeldType
    BY InitIInv DEF IInv, Init, HeldType, Busy
  <1>2. TypeOK /\ HeldType /\ [Next]_vars => (TypeOK /\ HeldType)'
    BY TypesInductive
  <1> QED
    BY <1>1, <1>2, PTL DEF Spec

\* The types of the query, its channel, start_reaction, the forwarder, the loop
\* and the checkpoint hold throughout, whatever the query, the clock and the
\* restarts do.
THEOREM TypeCorrect == Spec => []TypeOK
  BY TypesHold, PTL

\* Whatever crashes, stops and failures there are, a durable checkpoint of the
\* query's epoch claims only results that the reaction acted on, that were in a
\* snapshot it took or that its policy gave up: what the standard loop's write
\* after the side effect, the catch-up from the outbox and the recovery of gaps
\* are for.  A Broadcast ring may overrun the forwarder once it has a position:
\* the receiver skips what it lost in silence, and the gap in the sequence is
\* what is recovered from.  Before that nothing shows the loss, which is why
\* EarlyOverrun is excluded.  Without any one of the assumptions it does not
\* hold.
THEOREM ProcessedAtLeastOnce ==
    ASSUME ~StopAnytime, ~ResetInPlace, ~RetryInPlace, ~ClockSteps, ~EarlyOverrun
    PROVE  Spec => []AtLeastOnce
  <1>1. IInv /\ TypeOK' /\ [Next]_vars => IInv'
    BY Inductive
  <1>2. IInv => AtLeastOnce
    <2> SUFFICES ASSUME IInv, store.epoch = epoch
                 PROVE  Through(store) \subseteq handled \union excused
      BY DEF AtLeastOnce
    <2>1. \A k \in 1..store.seq : <<store.epoch, k>> \in handled \union excused
      BY DEF IInv, StoreInv, Done
    <2> QED
      BY <2>1, ThroughIs
  <1> QED
    BY <1>1, <1>2, InitIInv, TypesHold, PTL DEF Spec

=============================================================================
