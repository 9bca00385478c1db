-------------------------- MODULE SourceWalProofs --------------------------
(***************************************************************************)
(* Nothing is passed over between a logged source and its queries, what is *)
(* missing is on its way, and pruning keeps what is not committed: for     *)
(* every set of queries, size of the log, capacity policy, number of       *)
(* changes and of faults, as long as none of the races that SourceWal      *)
(* names happens.                                                          *)
(***************************************************************************)
EXTENDS SourceWal, WellFoundedInduction, FiniteSetTheorems, TLAPS

----------------------------------------------------------------------------
(* The inductive invariant.                                                *)

\* What a query lacks: the acknowledged changes above its checkpoint; and the
\* same with the change that is about to be acknowledged.
Missing(q) == {n \in Owed(q) : n > ckpt[q]}
Due(q) == {n \in acked \union {sending} : n > base[q] /\ n > ckpt[q]}

\* The receiver of a query that has one, and the numbers in it and in the queue.
Own(q) == recv[q][1]
Queued(q) == {e.seq : e \in pq[q]}
Replaying(q) == {e.seq : e \in Own(q).replay}
Live(q) == {Own(q).live[i].seq : i \in DOMAIN Own(q).live}

\* Numbers are given once.  The channel holds the last of the acknowledged
\* changes, in order, and what the log has lost is older than what it has.
LogInv ==
    /\ counter <= head
    /\ sending # 0 => sending = head /\ sending = counter /\ sending \notin acked
    /\ \A n \in wal \union acked : n <= counter
    /\ \A i \in DOMAIN chan : chan[i] \in acked
    /\ \A i, j \in DOMAIN chan : i < j => chan[i] < chan[j]
    /\ \A n \in acked : \A i \in DOMAIN chan : chan[i] <= n => n \in Range(chan)
    /\ \A n \in acked \union {sending} : \A m \in wal : m <= n => n \in wal

\* A pruning under way spares what a running query lacks.
PruneInv ==
    pruning # 0 =>
        /\ wal # {} /\ pruning <= counter
        /\ \A q \in Queries : phase[q] # "attached"
        /\ \A q \in Queries : phase[q] = "running" => \A n \in Due(q) : n > pruning

\* Nobody lacks anything of a log that is empty.
EmptyInv == wal = {} => \A q \in Queries : Replays(q) => Due(q) = {}

\* What RejectIncoming keeps.
KeptInv ==
    policy = "RejectIncoming" => \A q \in Queries :
        /\ phase[q] = "running" => Due(q) \subseteq wal
        /\ phase[q] = "attached" => \A n \in acked \union {sending} : n > target[q] => n \in wal

\* The index has what is below the checkpoint.
AppliedAt(q) ==
    /\ ckpt[q] # None => ckpt[q] \in applied[q] /\ ckpt[q] <= counter
    /\ \A n \in Owed(q) : n <= ckpt[q] => n \in applied[q]

\* What a query has in each phase.
PhaseAt(q) ==
    /\ Len(recv[q]) = IF phase[q] \in {"attached", "running"} \/ (phase[q] = "error" /\ failed[q])
                      THEN 1 ELSE 0
    /\ phase[q] = "attached" => Own(q) = NewReceiver /\ target[q] <= head
    /\ failed[q] => phase[q] \in {"idle", "error"}
    /\ ~known[q] => phase[q] = "idle" /\ pq[q] = {} /\ ckpt[q] = None
    /\ phase[q] = "running" /\ handle[q] # None => handle[q] = Resume(q)

\* Nothing is on its way to a query that was not logged and stamped.
BoundAt(q) ==
    /\ \A e \in pq[q] : e.seq <= counter /\ e.ts <= clock
    /\ Len(recv[q]) = 1 =>
        /\ \A e \in Own(q).replay : e.seq <= counter /\ e.ts <= clock
        /\ \A i \in DOMAIN Own(q).live : Own(q).live[i].seq <= counter /\ Own(q).live[i].ts <= clock

\* What the queue will give leaves out nothing that the query lacks.
QueueAt(q) ==
    ~failed[q] => \A e \in pq[q] : \A n \in Missing(q) :
        n < e.seq => \E f \in pq[q] : f.seq = n /\ Before(f, e)

\* The stamps grow along the way to the queue,
StampAt(q) ==
    phase[q] = "running" =>
        /\ \A e \in pq[q], f \in Own(q).replay : e.ts <= f.ts
        /\ \A e \in pq[q], i \in DOMAIN Own(q).live : e.ts <= Own(q).live[i].ts
        /\ \A e, f \in Own(q).replay : e.ts <= f.ts
        /\ \A e \in Own(q).replay, i \in DOMAIN Own(q).live : e.ts <= Own(q).live[i].ts
        /\ \A i, j \in DOMAIN Own(q).live : i < j => Own(q).live[i].ts <= Own(q).live[j].ts

\* ... nothing that a running query lacks comes after what follows it,
OrderAt(q) ==
    phase[q] = "running" => \A n \in Missing(q) :
        /\ \A e \in Own(q).replay : n < e.seq => n \in Queued(q) \union Replaying(q)
        /\ \A i \in DOMAIN Own(q).live : n < Own(q).live[i].seq =>
              \/ n \in Queued(q) \union Replaying(q)
              \/ \E j \in DOMAIN Own(q).live : j < i /\ Own(q).live[j].seq = n

\* ... and nothing is left out; while a query subscribes, the changes after the
\* head it captured wait in the channel.
FlowAt(q) ==
    /\ phase[q] = "running" =>
          \A n \in Missing(q) : n \in Queued(q) \union Replaying(q) \union Live(q) \union Range(chan)
    /\ phase[q] = "attached" => \A n \in acked : n > target[q] => n \in Range(chan)

QueryAt(q) ==
    /\ AppliedAt(q) /\ PhaseAt(q) /\ BoundAt(q)
    /\ QueueAt(q) /\ StampAt(q) /\ OrderAt(q) /\ FlowAt(q)

QueryInv == \A q \in Queries : QueryAt(q)

Inv == LogInv /\ PruneInv /\ EmptyInv /\ KeptInv /\ QueryInv
IInv == TypeOK /\ Inv

----------------------------------------------------------------------------
(* Least elements.                                                         *)

\* A set of naturals has a least element: among the intervals from zero to
\* its elements, one is contained in all the others.
LEMMA LeastExists ==
    ASSUME NEW S \in SUBSET Nat, S # {}
    PROVE  \E x \in S : \A y \in S : x <= y
  <1> DEFINE T == {0..k : k \in S}
  <1>1. T # {}
    OBVIOUS
  <1>2. T \subseteq FiniteSubsetsOf(Nat)
    <2>1. ASSUME NEW k \in S PROVE 0..k \in FiniteSubsetsOf(Nat)
      BY FS_Interval DEF FiniteSubsetsOf
    <2> QED
      BY <2>1
  <1>3. \E x \in T : \A y \in T : ~(<<y, x>> \in StrictSubsetOrdering(Nat))
    <2> HIDE DEF T
    <2> QED
      BY <1>1, <1>2, FS_StrictSubsetOrderingWellFounded, WFMin
  <1>4. PICK k \in S : \A j \in S : ~(<<0..j, 0..k>> \in StrictSubsetOrdering(Nat))
    BY <1>3
  <1>5. ASSUME NEW j \in S PROVE k <= j
    <2> SUFFICES ASSUME j < k PROVE FALSE
      OBVIOUS
    <2>1. 0..j \subseteq 0..k /\ 0..j # 0..k
      OBVIOUS
    <2>2. 0..j \in SUBSET Nat /\ 0..k \in SUBSET Nat
      OBVIOUS
    <2> QED
      BY <1>4, <2>1, <2>2 DEF StrictSubsetOrdering
  <1> QED
    BY <1>5

LEMMA MinFact ==
    ASSUME NEW S \in SUBSET Nat, S # {}
    PROVE  Min(S) \in S /\ \A y \in S : Min(S) <= y
  BY LeastExists DEF Min

\* Every set of queued changes has a first one.
LEMMA FirstExists ==
    ASSUME NEW S \in SUBSET Event, S # {}
    PROVE  \E e \in S : \A f \in S \ {e} : Before(e, f)
  <1> DEFINE T == {e.ts : e \in S}
  <1>1. \A e \in S : e.ts \in Nat /\ e.seq \in Nat
    BY WalAssumption DEF Event
  <1>2. T \in SUBSET Nat /\ T # {}
    BY <1>1
  <1>3. PICK t \in T : \A y \in T : t <= y
    <2> HIDE DEF T
    <2> QED
      BY <1>2, LeastExists
  <1> DEFINE U == {e.seq : e \in {f \in S : f.ts = t}}
  <1>4. U \in SUBSET Nat /\ U # {}
    BY <1>1, <1>3
  <1>5. PICK s \in U : \A y \in U : s <= y
    <2> HIDE DEF U
    <2> QED
      BY <1>4, LeastExists
  <1>6. PICK e \in S : e.ts = t /\ e.seq = s
    BY <1>5
  <1>7. ASSUME NEW f \in S \ {e} PROVE Before(e, f)
    <2>1. t <= f.ts /\ t \in Nat /\ f.ts \in Nat /\ f.seq \in Nat /\ s \in Nat
      BY <1>1, <1>3, <1>6
    <2>2. CASE f.ts = t
      <3>1. s <= f.seq
        BY <1>5, <2>2
      <3>2. f.seq # s
        <4> SUFFICES ASSUME f.seq = s PROVE f = e
          OBVIOUS
        <4>1. f \in Event /\ e \in Event
          OBVIOUS
        <4> QED
          BY <1>6, <2>2, <4>1 DEF Event
      <3> QED
        BY <1>6, <2>1, <2>2, <3>1, <3>2 DEF Before
    <2>3. CASE f.ts # t
      BY <1>6, <2>1, <2>3 DEF Before
    <2> QED
      BY <2>2, <2>3
  <1> QED
    BY <1>7

LEMMA NextEventFacts ==
    ASSUME NEW q \in Queries, pq[q] \subseteq Event, pq[q] # {}
    PROVE  /\ NextEvent(q) \in pq[q]
           /\ \A f \in pq[q] \ {NextEvent(q)} : Before(NextEvent(q), f)
  <1> DEFINE S == pq[q]
  <1>1. \E e \in S : \A f \in S \ {e} : Before(e, f)
    BY FirstExists
  <1>2. NextEvent(q) = CHOOSE e \in S : \A f \in S \ {e} : Before(e, f)
    BY DEF NextEvent
  <1> HIDE DEF S
  <1>3. /\ NextEvent(q) \in S
        /\ \A f \in S \ {NextEvent(q)} : Before(NextEvent(q), f)
    BY <1>1, <1>2
  <1> QED
    BY <1>3 DEF S

\* What a receiver gives and what it keeps.
LEMMA ReceivedFacts ==
    ASSUME NEW r \in Receiver, r # NewReceiver
    PROVE  /\ Received(r) \in Event /\ Rest(r) \in Receiver
           /\ \/ /\ r.replay # {} /\ Received(r) \in r.replay
                 /\ \A f \in r.replay : Received(r).seq <= f.seq
                 /\ Rest(r).replay = r.replay \ {Received(r)} /\ Rest(r).live = r.live
              \/ /\ r.replay = {} /\ r.live # <<>> /\ Received(r) = Head(r.live)
                 /\ Rest(r).replay = {} /\ Rest(r).live = Tail(r.live)
  <1>1. r.replay \subseteq Event /\ r.live \in Seq(Event) /\ r = [replay |-> r.replay, live |-> r.live]
    BY DEF Receiver
  <1>2. CASE r.replay = {}
    <2>1. r.live # <<>>
      BY <1>1, <1>2 DEF NewReceiver
    <2>2. Received(r) = Head(r.live) /\ Rest(r) = [r EXCEPT !.live = Tail(@)]
      BY <1>2 DEF Received, Rest
    <2>3. Head(r.live) \in Event /\ Tail(r.live) \in Seq(Event)
      BY <1>1, <2>1
    <2> QED
      BY <1>1, <1>2, <2>1, <2>2, <2>3 DEF Receiver
  <1>3. CASE r.replay # {}
    <2> DEFINE S == r.replay
               T == {e.seq : e \in S}
    <2>1. \A e \in S : e.seq \in Nat
      BY <1>1, WalAssumption DEF Event
    <2>2. T \in SUBSET Nat /\ T # {}
      BY <1>3, <2>1
    <2>3. PICK t \in T : \A y \in T : t <= y
      <3> HIDE DEF T
      <3> QED
        BY <2>2, LeastExists
    <2>4. \E e \in S : \A f \in S : e.seq <= f.seq
      BY <2>3
    <2>5. Received(r) = CHOOSE e \in S : \A f \in S : e.seq <= f.seq
      BY <1>3 DEF Received
    <2> HIDE DEF S
    <2>6. Received(r) \in S /\ \A f \in S : Received(r).seq <= f.seq
      BY <2>4, <2>5
    <2>7. Rest(r) = [r EXCEPT !.replay = @ \ {Received(r)}]
      BY <1>3 DEF Rest
    <2>8. Rest(r) \in Receiver /\ Rest(r).replay = r.replay \ {Received(r)} /\ Rest(r).live = r.live
      BY <1>1, <2>7 DEF Receiver
    <2> QED
      BY <1>1, <1>3, <2>6, <2>8 DEF S
  <1> QED
    BY <1>2, <1>3

\* The least number reported.
LEMMA ConfirmedFacts ==
    ASSUME handle \in [Queries -> 0..MaxSeq \union {None}]
    PROVE  /\ Confirmed \in 0..MaxSeq
           /\ \A q \in Queries : phase[q] = "running" /\ handle[q] # None => Confirmed <= handle[q]
           /\ Confirmed # 0 => \E q \in Queries : phase[q] = "running" /\ Confirmed = handle[q]
  <1> DEFINE S == {handle[q] : q \in {p \in Queries : phase[p] = "running"}} \ {None}
  <1>0. MaxSeq \in Nat
    BY WalAssumption
  <1>1. S \in SUBSET (0..MaxSeq) /\ S \in SUBSET Nat
    BY <1>0
  <1>2. ASSUME NEW q \in Queries, phase[q] = "running", handle[q] # None PROVE handle[q] \in S
    BY <1>2
  <1>3. ASSUME NEW s \in S PROVE \E q \in Queries : phase[q] = "running" /\ s = handle[q]
    OBVIOUS
  <1>4. Confirmed = IF S = {} THEN 0 ELSE Min(S)
    BY DEF Confirmed
  <1> HIDE DEF S
  <1>5. CASE S = {}
    BY <1>0, <1>2, <1>4, <1>5
  <1>6. CASE S # {}
    <2>1. Min(S) \in S /\ \A y \in S : Min(S) <= y
      BY <1>1, <1>6, MinFact
    <2> QED
      BY <1>1, <1>2, <1>3, <1>4, <1>6, <2>1
  <1> QED
    BY <1>5, <1>6

----------------------------------------------------------------------------
(* Types.                                                                  *)

FlagType ==
    /\ known \in [Queries -> BOOLEAN]
    /\ failed \in [Queries -> BOOLEAN]

LogType ==
    /\ policy \in Policies
    /\ wal \subseteq 1..MaxSeq
    /\ {counter, head, sending, pruning} \subseteq 0..MaxSeq
    /\ chan \in Seq(1..MaxSeq)
    /\ clock \in Nat
    /\ faults \in [{"crash", "retry", "other"} -> Nat]
    /\ acked \subseteq 1..MaxSeq

QueryType ==
    /\ phase \in [Queries -> {"idle", "attached", "running", "error"}]
    /\ target \in [Queries -> 0..MaxSeq]
    /\ recv \in [Queries -> Seq(Receiver)]
    /\ pq \in [Queries -> SUBSET Event]
    /\ handle \in [Queries -> 0..MaxSeq \union {None}]
    /\ ckpt \in [Queries -> 1..MaxSeq \union {None}]
    /\ applied \in [Queries -> SUBSET (1..MaxSeq)]
    /\ base \in [Queries -> 0..MaxSeq]

LEMMA TypeParts == TypeOK <=> FlagType /\ LogType /\ QueryType
  BY DEF TypeOK, FlagType, LogType, QueryType

LEMMA FaultType ==
    ASSUME LogType, NEW kind \in {"crash", "retry", "other"}, Fault(kind)
    PROVE  faults' \in [{"crash", "retry", "other"} -> Nat]
  BY DEF LogType, Fault

LEMMA Elements ==
    ASSUME NEW S, NEW s \in Seq(S)
    PROVE  /\ Len(s) \in Nat /\ DOMAIN s = 1..Len(s) /\ \A i \in DOMAIN s : s[i] \in S
           /\ s # <<>> => Head(s) = s[1] /\ 1 \in DOMAIN s /\ Head(s) \in S
  OBVIOUS

\* The numbers that are in a state.
LEMMA LogNumbers ==
    ASSUME LogType
    PROVE  /\ MaxSeq \in Nat /\ clock \in Nat
           /\ counter \in Nat /\ head \in Nat /\ sending \in Nat /\ pruning \in Nat
           /\ \A n \in wal : n \in Nat /\ n >= 1
           /\ \A n \in acked : n \in Nat /\ n >= 1
           /\ DOMAIN chan = 1..Len(chan) /\ Len(chan) \in Nat
           /\ \A i \in DOMAIN chan : chan[i] \in Nat /\ chan[i] >= 1
  <1>1. MaxSeq \in Nat
    BY WalAssumption
  <1>2. counter \in 0..MaxSeq /\ head \in 0..MaxSeq /\ sending \in 0..MaxSeq /\ pruning \in 0..MaxSeq
    BY DEF LogType
  <1>3. wal \subseteq 1..MaxSeq /\ acked \subseteq 1..MaxSeq /\ chan \in Seq(1..MaxSeq) /\ clock \in Nat
    BY DEF LogType
  <1>4. /\ Len(chan) \in Nat /\ DOMAIN chan = 1..Len(chan)
        /\ \A i \in DOMAIN chan : chan[i] \in 1..MaxSeq
    BY <1>3, Elements
  <1>5. \A n \in 1..MaxSeq : n \in Nat /\ n >= 1
    BY <1>1
  <1> QED
    BY <1>1, <1>2, <1>3, <1>4, <1>5

LEMMA QueryNumbers ==
    ASSUME QueryType, NEW q \in Queries
    PROVE  /\ base[q] \in Nat /\ target[q] \in Nat
           /\ ckpt[q] \in Nat \union {None} /\ ckpt[q] \in Int
           /\ Resume(q) \in 0..MaxSeq /\ Resume(q) \in Nat
           /\ \A e \in pq[q] : e \in Event /\ e.seq \in Nat /\ e.seq >= 1 /\ e.ts \in Nat
  <1>1. MaxSeq \in Nat
    BY WalAssumption
  <1>2. base[q] \in 0..MaxSeq /\ target[q] \in 0..MaxSeq /\ ckpt[q] \in 1..MaxSeq \union {None}
    BY DEF QueryType
  <1>3. \A e \in pq[q] : e \in Event
    BY DEF QueryType
  <1>4. Resume(q) \in 0..MaxSeq
    BY <1>1, <1>2 DEF Resume
  <1> QED
    BY <1>1, <1>2, <1>3, <1>4 DEF None, Event

LEMMA StampedType ==
    ASSUME LogType, NEW found \in SUBSET (1..MaxSeq)
    PROVE  Stamped(found) \subseteq Event
  <1>1. clock + 1 \in Nat
    BY DEF LogType
  <1> QED
    BY <1>1 DEF Stamped, Event

----------------------------------------------------------------------------
(* Type correctness.                                                       *)

LEMMA CanStartType ==
    ASSUME LogType, NEW q \in Queries, CanStart(q)
    PROVE  faults' \in [{"crash", "retry", "other"} -> Nat]
  <1>1. CASE phase[q] = "error"
    BY <1>1, FaultType DEF CanStart
  <1>2. CASE phase[q] # "error"
    BY <1>2 DEF CanStart, LogType
  <1> QED
    BY <1>1, <1>2

LEMMA LogTypeStep ==
    ASSUME LogType, QueryType, [Next]_vars
    PROVE  LogType'
  <1>1. MaxSeq \in Nat /\ head \in Nat /\ clock \in Nat
    BY LogNumbers
  <1>2. CASE WalAppend
    <2>1. head + 1 \in 1..MaxSeq /\ head + 1 \in 0..MaxSeq
      BY <1>1, <1>2 DEF WalAppend, LogType
    <2>2. CASE wal' = Evicted \union {head + 1} /\ counter' = head + 1 /\ sending' = head + 1 /\ UNCHANGED faults
      <3>1. Evicted \subseteq wal
        BY DEF Evicted
      <3> QED
        BY <1>2, <2>1, <2>2, <3>1 DEF WalAppend, LogType
    <2>3. CASE Fault("other") /\ UNCHANGED <<wal, counter, sending>>
      <3>1. faults' \in [{"crash", "retry", "other"} -> Nat]
        BY <2>3, FaultType
      <3> QED
        BY <1>2, <2>1, <2>3, <3>1 DEF WalAppend, LogType
    <2> QED
      BY <1>2, <2>2, <2>3 DEF WalAppend
  <1>3. CASE Enqueue
    <2>1. sending \in 1..MaxSeq
      BY <1>3, <1>1 DEF Enqueue, LogType
    <2> QED
      BY <1>1, <1>3, <2>1 DEF Enqueue, LogType
  <1>4. CASE CancelSend
    <2>1. faults' \in [{"crash", "retry", "other"} -> Nat]
      BY <1>4, FaultType DEF CancelSend
    <2> QED
      BY <1>1, <1>4, <2>1 DEF CancelSend, LogType
  <1>5. CASE Dispatch
    <2>1. chan \in Seq(1..MaxSeq) /\ chan # <<>> /\ chan' = Tail(chan) /\ clock' = clock + 1
      BY <1>5 DEF Dispatch, LogType
    <2>2. chan' \in Seq(1..MaxSeq) /\ clock' \in Nat
      BY <1>1, <2>1
    <2>3. UNCHANGED <<policy, wal, counter, head, sending, acked, pruning, faults>>
      BY <1>5 DEF Dispatch
    <2> QED
      BY <2>2, <2>3 DEF LogType
  <1>6. CASE PruneCompute
    <2>1. Confirmed \in 0..MaxSeq
      BY ConfirmedFacts DEF QueryType
    <2> QED
      BY <1>6, <2>1 DEF PruneCompute, LogType, logVars
  <1>7. CASE PruneUpTo
    <2>1. wal' \subseteq wal /\ pruning' = 0 /\ 0 \in 0..MaxSeq
      BY <1>1, <1>7 DEF PruneUpTo, Pruned
    <2> QED
      BY <1>7, <2>1 DEF PruneUpTo, LogType
  <1>8. ASSUME NEW q \in Queries, Attach(q) \/ SubscribeLive(q) PROVE LogType'
    <2>1. faults' \in [{"crash", "retry", "other"} -> Nat]
      BY <1>8, CanStartType DEF Attach, SubscribeLive
    <2> QED
      BY <1>8, <2>1 DEF Attach, SubscribeLive, LogType, logVars
  <1>9. ASSUME NEW q \in Queries, ReadWal(q) \/ ReadWalFails(q) \/ Forward(q) \/ Process(q) PROVE LogType'
    BY <1>1, <1>9 DEF ReadWal, ReadWalFails, Forward, Process, LogType, logVars
  <1>10. ASSUME NEW q \in Queries, ProcessFails(q) \/ Stop(q) PROVE LogType'
    <2>1. faults' \in [{"crash", "retry", "other"} -> Nat]
      BY <1>10, FaultType DEF ProcessFails, Stop
    <2> QED
      BY <1>10, <2>1 DEF ProcessFails, Stop, LogType, logVars
  <1>11. CASE Crash
    <2>1. faults' \in [{"crash", "retry", "other"} -> Nat]
      BY <1>11, FaultType DEF Crash
    <2>2. 0 \in 0..MaxSeq
      BY <1>1
    <2> QED
      BY <1>11, <2>1, <2>2 DEF Crash, LogType
  <1>12. CASE UNCHANGED vars
    BY <1>12 DEF vars, LogType
  <1> QED
    BY <1>2, <1>3, <1>4, <1>5, <1>6, <1>7, <1>8, <1>9, <1>10, <1>11, <1>12 DEF Next

LEMMA FlagTypeStep ==
    ASSUME FlagType, [Next]_vars
    PROVE  FlagType'
  <1>1. \/ UNCHANGED <<known, failed>>
        \/ \E q \in Queries : known' = [known EXCEPT ![q] = TRUE] /\ UNCHANGED failed
        \/ \E q \in Queries : failed' = [failed EXCEPT ![q] = TRUE] /\ UNCHANGED known
        \/ failed' = [q \in Queries |-> FALSE] /\ UNCHANGED known
    BY DEF Next, WalAppend, Enqueue, CancelSend, Dispatch, PruneCompute, PruneUpTo, Attach, ReadWal,
           ReadWalFails, SubscribeLive, Forward, Process, ProcessFails, Stop, Crash, vars, queryVars
  <1> QED
    BY <1>1 DEF FlagType

LEMMA QueryTypeStep ==
    ASSUME LogType, QueryType, [Next]_vars
    PROVE  QueryType'
  <1>1. MaxSeq \in Nat /\ clock \in Nat /\ head \in Nat /\ 0 \in 0..MaxSeq
    BY LogNumbers
  <1>2. NewReceiver \in Receiver
    BY DEF NewReceiver, Receiver
  <1>3. ASSUME NEW q \in Queries PROVE WithoutOwn(q) \in Seq(Receiver)
    <2> DEFINE s == recv[q]
    <2>1. s \in Seq(Receiver)
      BY DEF QueryType
    <2> HIDE DEF s
    <2>2. SubSeq(s, 1, Len(s) - 1) \in Seq(Receiver)
      <3>1. Len(s) - 1 \in Int /\ \A i \in 1..(Len(s) - 1) : s[i] \in Receiver
        BY <2>1
      <3> QED
        BY <2>1, <3>1
    <2> QED
      BY <2>2 DEF WithoutOwn, s
  <1>4. CASE WalAppend \/ Enqueue \/ CancelSend \/ PruneCompute \/ PruneUpTo
    BY <1>4 DEF WalAppend, Enqueue, CancelSend, PruneCompute, PruneUpTo, queryVars, QueryType
  <1>5. CASE Dispatch
    <2> DEFINE new == [seq |-> Head(chan), ts |-> clock']
    <2>1. new \in Event
      <3>1. Head(chan) \in 1..MaxSeq
        BY <1>5, Elements DEF Dispatch, LogType
      <3> QED
        BY <1>1, <1>5, <3>1 DEF Dispatch, Event
    <2>2. recv' = [q \in Queries |->
                     [i \in DOMAIN recv[q] |-> [recv[q][i] EXCEPT !.live = Append(@, new)]]]
      BY <1>5 DEF Dispatch
    <2> HIDE DEF new
    <2>3. ASSUME NEW q \in Queries
          PROVE  [i \in DOMAIN recv[q] |-> [recv[q][i] EXCEPT !.live = Append(@, new)]] \in Seq(Receiver)
      <3> DEFINE s == recv[q]
      <3>1. s \in Seq(Receiver)
        BY DEF QueryType
      <3> HIDE DEF s
      <3>2. ASSUME NEW r \in Receiver PROVE [r EXCEPT !.live = Append(@, new)] \in Receiver
        BY <2>1 DEF Receiver
      <3>3. [i \in DOMAIN s |-> [s[i] EXCEPT !.live = Append(@, new)]] \in Seq(Receiver)
        <4>1. Len(s) \in Nat /\ DOMAIN s = 1..Len(s) /\ \A i \in 1..Len(s) : s[i] \in Receiver
          BY <3>1
        <4>2. [i \in 1..Len(s) |-> [s[i] EXCEPT !.live = Append(@, new)]] \in [1..Len(s) -> Receiver]
          BY <3>2, <4>1
        <4> QED
          BY <4>1, <4>2
      <3> QED
        BY <3>3 DEF s
    <2>4. recv' \in [Queries -> Seq(Receiver)]
      BY <2>2, <2>3
    <2> QED
      BY <1>5, <2>4 DEF Dispatch, QueryType
  <1>6. ASSUME NEW q \in Queries, Attach(q) PROVE QueryType'
    <2>1. head \in 0..MaxSeq /\ recv' \in [Queries -> Seq(Receiver)]
      BY <1>2, <1>6 DEF Attach, LogType, QueryType
    <2> QED
      BY <1>6, <2>1 DEF Attach, QueryType
  <1>7. ASSUME NEW q \in Queries, ReadWal(q) PROVE QueryType'
    <2>1. Resume(q) \in 0..MaxSeq
      BY QueryNumbers
    <2>2. Replayed(q) \subseteq Event
      <3>1. {n \in wal : Resume(q) < n /\ n <= target[q]} \in SUBSET (1..MaxSeq)
        BY DEF LogType
      <3> QED
        BY <3>1, StampedType DEF Replayed
    <2>3. recv' \in [Queries -> Seq(Receiver)]
      <3> DEFINE s == recv[q]
                 k == Len(s)
                 t == [s EXCEPT ![k].replay = Replayed(q)]
      <3>1. s \in Seq(Receiver)
        BY DEF QueryType
      <3>2. recv' = [recv EXCEPT ![q] = t]
        BY <1>7 DEF ReadWal
      <3> HIDE DEF s
      <3>3. k \in Nat /\ DOMAIN s = 1..k /\ \A i \in 1..k : s[i] \in Receiver
        BY <3>1
      <3> HIDE DEF k
      <3>4. t \in [1..k -> Receiver]
        <4>1. ASSUME NEW i \in 1..k PROVE t[i] \in Receiver
          <5>1. s[i] \in Receiver
            BY <3>3
          <5>2. [s[i] EXCEPT !.replay = Replayed(q)] \in Receiver
            BY <2>2, <5>1 DEF Receiver
          <5> QED
            BY <3>3, <5>1, <5>2
        <4> QED
          BY <3>1, <3>3, <4>1
      <3>5. t \in Seq(Receiver)
        BY <3>3, <3>4
      <3> QED
        BY <3>2, <3>5 DEF QueryType
    <2> QED
      BY <1>1, <1>7, <2>1, <2>3 DEF ReadWal, QueryType
  <1>8. ASSUME NEW q \in Queries, ReadWalFails(q) PROVE QueryType'
    BY <1>1, <1>3, <1>8 DEF ReadWalFails, QueryType
  <1>9. ASSUME NEW q \in Queries, SubscribeLive(q) PROVE QueryType'
    <2> DEFINE b == IF chan # <<>> THEN Head(chan) - 1 ELSE IF sending # 0 THEN sending - 1 ELSE head
    <2>1. b \in 0..MaxSeq
      <3>1. sending \in 0..MaxSeq /\ head \in 0..MaxSeq /\ (chan # <<>> => Head(chan) \in 1..MaxSeq)
        BY Elements DEF LogType
      <3> QED
        BY <1>1, <3>1
    <2>2. recv' \in [Queries -> Seq(Receiver)]
      BY <1>2, <1>9 DEF SubscribeLive, QueryType
    <2>3. base' = [base EXCEPT ![q] = b]
      BY <1>9 DEF SubscribeLive
    <2> HIDE DEF b
    <2> QED
      BY <1>9, <2>1, <2>2, <2>3 DEF SubscribeLive, QueryType
  <1>10. ASSUME NEW q \in Queries, Forward(q) PROVE QueryType'
    <2>1. PICK i \in DOMAIN recv[q] :
             /\ recv[q][i] # NewReceiver
             /\ pq' = [pq EXCEPT ![q] = @ \union {Received(recv[q][i])}]
             /\ recv' = [recv EXCEPT ![q][i] = Rest(@)]
      BY <1>10 DEF Forward
    <2>2. recv[q][i] \in Receiver
      BY DEF QueryType
    <2>3. Received(recv[q][i]) \in Event /\ Rest(recv[q][i]) \in Receiver
      BY <2>1, <2>2, ReceivedFacts
    <2>4. recv' \in [Queries -> Seq(Receiver)] /\ pq' \in [Queries -> SUBSET Event]
      BY <2>1, <2>3 DEF QueryType
    <2> QED
      BY <1>10, <2>4 DEF Forward, QueryType
  <1>11. ASSUME NEW q \in Queries, Process(q) PROVE QueryType'
    <2> DEFINE e == NextEvent(q)
    <2>1. e \in Event /\ e.seq \in 1..MaxSeq /\ e.seq \in 0..MaxSeq
      <3>1. e \in pq[q]
        BY <1>11, NextEventFacts DEF Process, QueryType
      <3> HIDE DEF e
      <3> QED
        BY <1>1, <3>1 DEF QueryType, Event
    <2>2. /\ pq' = [pq EXCEPT ![q] = @ \ {e}]
          /\ \/ UNCHANGED <<ckpt, applied, handle>>
             \/ /\ ckpt' = [ckpt EXCEPT ![q] = e.seq]
                /\ applied' = [applied EXCEPT ![q] = @ \union {e.seq}]
                /\ handle' = [handle EXCEPT ![q] = e.seq]
          /\ UNCHANGED <<phase, target, recv, base>>
      BY <1>11 DEF Process
    <2> HIDE DEF e
    <2>3. pq' \in [Queries -> SUBSET Event] /\ ckpt' \in [Queries -> 1..MaxSeq \union {None}]
      BY <2>1, <2>2 DEF QueryType
    <2>4. applied' \in [Queries -> SUBSET (1..MaxSeq)]
      <3> DEFINE N == 1..MaxSeq
      <3>1. applied \in [Queries -> SUBSET N] /\ e.seq \in N
        BY <2>1 DEF QueryType
      <3> SUFFICES applied' \in [Queries -> SUBSET N]
        OBVIOUS
      <3> HIDE DEF N
      <3>2. CASE applied' = applied
        BY <3>1, <3>2
      <3>3. CASE applied' = [applied EXCEPT ![q] = @ \union {e.seq}]
        BY <3>1, <3>3
      <3> QED
        BY <2>2, <3>2, <3>3
    <2>5. handle' \in [Queries -> 0..MaxSeq \union {None}]
      BY <2>1, <2>2 DEF QueryType
    <2> QED
      BY <2>2, <2>3, <2>4, <2>5 DEF QueryType
  <1>12. ASSUME NEW q \in Queries, ProcessFails(q) PROVE QueryType'
    BY <1>12 DEF ProcessFails, QueryType
  <1>13. ASSUME NEW q \in Queries, Stop(q) PROVE QueryType'
    BY <1>3, <1>13 DEF Stop, QueryType
  <1>14. CASE Crash
    BY <1>1, <1>14 DEF Crash, QueryType
  <1>15. CASE UNCHANGED vars
    BY <1>15 DEF vars, QueryType
  <1> QED
    BY <1>4, <1>5, <1>6, <1>7, <1>8, <1>9, <1>10, <1>11, <1>12, <1>13, <1>14, <1>15 DEF Next

\* TypeOK: every variable of the log, the source and the queries keeps to its
\* values, with all the races of the code allowed.
THEOREM TypeCorrect == Spec => []TypeOK
  <1>1. Init => TypeOK
    <2>1. MaxSeq \in Nat
      BY WalAssumption
    <2> SUFFICES ASSUME Init PROVE FlagType /\ LogType /\ QueryType
      BY TypeParts
    <2>2. FlagType
      BY DEF Init, FlagType
    <2>3. LogType
      BY <2>1 DEF Init, LogType
    <2>4. QueryType
      BY <2>1 DEF Init, QueryType
    <2> QED
      BY <2>2, <2>3, <2>4
  <1>2. TypeOK /\ [Next]_vars => TypeOK'
    <2> SUFFICES ASSUME TypeOK, [Next]_vars PROVE FlagType' /\ LogType' /\ QueryType'
      BY TypeParts DEF TypeOK, FlagType, LogType, QueryType
    <2>1. FlagType /\ LogType /\ QueryType
      BY TypeParts
    <2> QED
      BY <2>1, FlagTypeStep, LogTypeStep, QueryTypeStep
  <1> QED
    BY <1>1, <1>2, PTL DEF Spec

----------------------------------------------------------------------------
(* What a step leaves alone.                                               *)

\* A query that a step does not touch.
Same(q) ==
    /\ phase'[q] = phase[q] /\ target'[q] = target[q] /\ recv'[q] = recv[q] /\ pq'[q] = pq[q]
    /\ handle'[q] = handle[q] /\ known'[q] = known[q] /\ ckpt'[q] = ckpt[q]
    /\ applied'[q] = applied[q] /\ failed'[q] = failed[q] /\ base'[q] = base[q]

LEMMA SameSets ==
    ASSUME NEW q \in Queries, Same(q)
    PROVE  /\ Own(q)' = Own(q) /\ Queued(q)' = Queued(q) /\ Resume(q)' = Resume(q)
           /\ Replaying(q)' = Replaying(q) /\ Live(q)' = Live(q)
           /\ Replays(q)' <=> Replays(q)
  BY DEF Same, Own, Queued, Resume, Replaying, Live, Replays

LEMMA SameDue ==
    ASSUME NEW q \in Queries, base'[q] = base[q], ckpt'[q] = ckpt[q], acked' = acked
    PROVE  /\ Owed(q)' = Owed(q) /\ Missing(q)' = Missing(q)
           /\ sending' = sending => Due(q)' = Due(q)
  BY DEF Owed, Missing, Due

\* The receiver of a query that has one.
LEMMA OwnType ==
    ASSUME QueryType, NEW q \in Queries, Len(recv[q]) = 1
    PROVE  /\ Own(q) \in Receiver /\ recv[q] = <<Own(q)>>
           /\ Own(q).replay \subseteq Event /\ Own(q).live \in Seq(Event)
           /\ \A e \in Own(q).replay : e \in Event /\ e.seq \in Nat /\ e.ts \in Nat
           /\ DOMAIN Own(q).live = 1..Len(Own(q).live) /\ Len(Own(q).live) \in Nat
           /\ \A i \in DOMAIN Own(q).live : /\ Own(q).live[i] \in Event
                                            /\ Own(q).live[i].seq \in Nat /\ Own(q).live[i].ts \in Nat
  <1>1. MaxSeq \in Nat
    BY WalAssumption
  <1>2. \A e \in Event : e.seq \in Nat /\ e.ts \in Nat
    BY <1>1 DEF Event
  <1>3. Own(q) \in Receiver /\ recv[q] = <<Own(q)>>
    <2>1. recv[q] \in Seq(Receiver)
      BY DEF QueryType
    <2> QED
      BY <2>1 DEF Own
  <1>4. Own(q).replay \subseteq Event /\ Own(q).live \in Seq(Event)
    BY <1>3 DEF Receiver
  <1>5. /\ DOMAIN Own(q).live = 1..Len(Own(q).live) /\ Len(Own(q).live) \in Nat
        /\ \A i \in DOMAIN Own(q).live : Own(q).live[i] \in Event
    BY <1>4, Elements
  <1> QED
    BY <1>2, <1>3, <1>4, <1>5

\* A query keeps what is said of it while the counters grow.
LEMMA SameParts ==
    ASSUME LogType, QueryType, NEW q \in Queries, Same(q), UNCHANGED <<acked, chan>>,
           counter' \in Nat, counter <= counter', head' \in Nat, head <= head',
           clock' \in Nat, clock <= clock', QueryAt(q)
    PROVE  QueryAt(q)'
  <1>1. /\ AppliedAt(q) /\ PhaseAt(q) /\ BoundAt(q)
        /\ QueueAt(q) /\ StampAt(q) /\ OrderAt(q) /\ FlowAt(q)
    BY DEF QueryAt
  <1>2. counter \in Nat /\ head \in Nat /\ clock \in Nat
    BY LogNumbers
  <1>3. /\ Owed(q)' = Owed(q) /\ Missing(q)' = Missing(q)
        /\ Own(q)' = Own(q) /\ Queued(q)' = Queued(q) /\ Resume(q)' = Resume(q)
        /\ Replaying(q)' = Replaying(q) /\ Live(q)' = Live(q)
    BY SameSets, SameDue DEF Same
  <1>4. AppliedAt(q)'
    <2>1. ckpt[q] \in Int
      BY QueryNumbers
    <2> QED
      BY <1>1, <1>2, <1>3, <2>1 DEF Same, AppliedAt
  <1>5. PhaseAt(q)'
    <2>1. target[q] \in Nat
      BY QueryNumbers
    <2> QED
      BY <1>1, <1>2, <1>3, <2>1 DEF Same, PhaseAt, NewReceiver
  <1>6. BoundAt(q)'
    <2>1. \A e \in pq[q] : e.seq <= counter' /\ e.ts <= clock'
      BY <1>1, <1>2, QueryNumbers DEF BoundAt
    <2>2. ASSUME Len(recv[q]) = 1
          PROVE  /\ \A e \in Own(q).replay : e.seq <= counter' /\ e.ts <= clock'
                 /\ \A i \in DOMAIN Own(q).live : Own(q).live[i].seq <= counter' /\ Own(q).live[i].ts <= clock'
      BY <1>1, <1>2, <2>2, OwnType DEF BoundAt
    <2> QED
      BY <1>3, <2>1, <2>2 DEF Same, BoundAt
  <1>7. QueueAt(q)'
    BY <1>1, <1>3 DEF Same, QueueAt
  <1>8. StampAt(q)'
    BY <1>1, <1>3 DEF Same, StampAt
  <1>9. OrderAt(q)'
    BY <1>1, <1>3 DEF Same, OrderAt
  <1>10. FlowAt(q)'
    BY <1>1, <1>3 DEF Same, FlowAt
  <1> QED
    BY <1>4, <1>5, <1>6, <1>7, <1>8, <1>9, <1>10 DEF QueryAt

\* ... and so do all of them in a step of the log.
LEMMA QueriesKept ==
    ASSUME IInv, UNCHANGED <<queryVars, acked, chan, clock>>,
           counter' \in Nat, counter <= counter', head' \in Nat, head <= head'
    PROVE  QueryInv' /\ \A q \in Queries : Same(q)
  <1>1. LogType /\ QueryType /\ QueryInv
    BY TypeParts DEF IInv, Inv
  <1>2. \A q \in Queries : Same(q)
    BY DEF queryVars, Same
  <1>3. clock' \in Nat /\ clock <= clock'
    BY <1>1, LogNumbers
  <1> QED
    BY <1>1, <1>2, <1>3, SameParts DEF QueryInv

\* A step of one query: what is to be shown of it.
LEMMA QueryStep ==
    ASSUME IInv, NEW q \in Queries, \A p \in Queries \ {q} : Same(p),
           UNCHANGED <<policy, wal, counter, head, sending, chan, acked, pruning>>,
           clock' \in Nat, clock <= clock', QueryAt(q)',
           pruning # 0 => /\ phase'[q] # "attached"
                          /\ phase'[q] = "running" => phase[q] = "running" /\ Due(q)' \subseteq Due(q),
           wal = {} /\ Replays(q)' => Due(q)' = {},
           policy = "RejectIncoming" =>
              /\ phase'[q] = "running" => Due(q)' \subseteq wal
              /\ phase'[q] = "attached" => \A n \in acked \union {sending} : n > target'[q] => n \in wal
    PROVE  Inv'
  <1>1. LogType /\ QueryType /\ QueryInv /\ LogInv /\ PruneInv /\ EmptyInv /\ KeptInv
    BY TypeParts DEF IInv, Inv
  <1>2. counter' \in Nat /\ counter <= counter' /\ head' \in Nat /\ head <= head'
    BY <1>1, LogNumbers
  <1>3. QueryInv'
    <2>1. ASSUME NEW p \in Queries \ {q} PROVE QueryAt(p)'
      BY <1>1, <1>2, SameParts DEF QueryInv
    <2> QED
      BY <2>1 DEF QueryInv
  <1>4. ASSUME NEW p \in Queries \ {q}
        PROVE  /\ Due(p)' = Due(p) /\ (Replays(p)' <=> Replays(p))
               /\ phase'[p] = phase[p] /\ target'[p] = target[p]
    BY SameSets, SameDue DEF Same
  <1>5. LogInv'
    BY <1>1 DEF LogInv
  <1>6. PruneInv'
    BY <1>1, <1>4 DEF PruneInv
  <1>7. EmptyInv'
    BY <1>1, <1>4 DEF EmptyInv
  <1>8. KeptInv'
    BY <1>1, <1>4 DEF KeptInv
  <1> QED
    BY <1>3, <1>5, <1>6, <1>7, <1>8 DEF Inv

----------------------------------------------------------------------------
(* The steps of the log.                                                   *)

\* The changes that are due are acknowledged or about to be.
LEMMA DueFacts ==
    ASSUME LogType, QueryType, NEW q \in Queries
    PROVE  /\ \A n \in Due(q) : n \in Nat /\ n >= 1 /\ n > base[q] /\ n > ckpt[q]
           /\ \A n \in Due(q) : n \in acked \/ (n = sending /\ sending # 0)
           /\ \A n \in Missing(q) : n \in Nat /\ n >= 1 /\ n \in acked /\ n > base[q] /\ n > ckpt[q]
           /\ Missing(q) \subseteq Due(q) /\ Missing(q) \subseteq Owed(q)
  BY LogNumbers, QueryNumbers DEF Due, Missing, Owed

LEMMA EvictedFacts ==
    ASSUME LogType
    PROVE  /\ Evicted \subseteq wal
           /\ \A m \in Evicted, n \in wal : m <= n => n \in Evicted
  <1>1. wal \in SUBSET Nat
    BY LogNumbers
  <1>2. CASE Cardinality(wal) < MaxEvents
    BY <1>2 DEF Evicted
  <1>3. CASE ~(Cardinality(wal) < MaxEvents)
    <2>1. Evicted = wal \ {Min(wal)}
      BY <1>3 DEF Evicted
    <2>2. wal # {} => Min(wal) \in wal /\ \A n \in wal : Min(wal) <= n
      BY <1>1, MinFact
    <2>3. ASSUME NEW m \in Evicted, NEW n \in wal, m <= n PROVE n \in Evicted
      <3>1. m \in wal /\ m # Min(wal) /\ Min(wal) \in wal /\ Min(wal) <= m
        BY <2>1, <2>2
      <3>2. m \in Nat /\ n \in Nat /\ Min(wal) \in Nat
        BY <1>1, <3>1
      <3>3. n # Min(wal)
        BY <2>3, <3>1, <3>2
      <3> QED
        BY <2>1, <3>3
    <2> QED
      BY <2>1, <2>3
  <1> QED
    BY <1>2, <1>3

LEMMA WalAppendStep ==
    ASSUME IInv, WalAppend
    PROVE  Inv'
  <1>1. LogType /\ QueryType /\ LogInv /\ PruneInv /\ EmptyInv /\ KeptInv
    BY TypeParts DEF IInv, Inv
  <1>2. /\ sending = 0 /\ head' = head + 1
        /\ policy = "RejectIncoming" => Cardinality(wal) < MaxEvents
        /\ UNCHANGED <<policy, chan, acked, clock, pruning>> /\ UNCHANGED queryVars
    BY DEF WalAppend
  <1>3. /\ counter \in Nat /\ head \in Nat /\ pruning \in Nat /\ counter <= head
        /\ \A n \in wal \union acked : n \in Nat /\ n <= counter /\ n < head + 1
    BY <1>1, LogNumbers DEF LogInv
  <1>4. CASE wal' = Evicted \union {head + 1} /\ counter' = head + 1 /\ sending' = head + 1
    <2>1. QueryInv' /\ \A q \in Queries : Same(q)
      BY <1>2, <1>3, <1>4, QueriesKept
    <2>2. Evicted \subseteq wal /\ (policy = "RejectIncoming" => Evicted = wal)
      BY <1>1, <1>2, EvictedFacts DEF Evicted
    <2>3. LogInv'
      <3>1. counter' <= head' /\ sending' = head' /\ sending' = counter' /\ sending' \notin acked'
        BY <1>2, <1>3, <1>4
      <3>2. \A n \in wal' \union acked' : n <= counter'
        BY <1>2, <1>3, <1>4, <2>2
      <3>3. ASSUME NEW n \in acked \union {head + 1}, NEW m \in wal', m <= n PROVE n \in wal'
        <4>1. CASE n = head + 1
          BY <1>4, <4>1
        <4>2. CASE n \in acked
          <5>1. m \in Evicted /\ m \in wal
            BY <1>3, <1>4, <2>2, <3>3, <4>2
          <5>2. n \in wal
            BY <1>1, <3>3, <4>2, <5>1 DEF LogInv
          <5> QED
            BY <1>1, <1>4, <3>3, <5>1, <5>2, EvictedFacts
        <4> QED
          BY <4>1, <4>2
      <3>4. /\ \A i \in DOMAIN chan : chan[i] \in acked
            /\ \A i, j \in DOMAIN chan : i < j => chan[i] < chan[j]
            /\ \A n \in acked : \A i \in DOMAIN chan : chan[i] <= n => n \in Range(chan)
        BY <1>1 DEF LogInv
      <3> QED
        BY <1>2, <1>4, <3>1, <3>2, <3>3, <3>4 DEF LogInv
    <2>4. ASSUME NEW q \in Queries
          PROVE  /\ \A n \in Due(q)' : n \in Due(q) \/ n = head + 1
                 /\ phase'[q] = phase[q] /\ target'[q] = target[q]
      <3>1. base'[q] = base[q] /\ ckpt'[q] = ckpt[q] /\ acked' = acked /\ sending' = head + 1
        BY <1>2, <1>4, <2>1 DEF Same
      <3> QED
        BY <2>1, <3>1 DEF Due, Same
    <2>5. PruneInv'
      <3> SUFFICES ASSUME pruning' # 0 PROVE PruneInv'
        BY DEF PruneInv
      <3>1. /\ pruning # 0 /\ pruning <= counter
            /\ \A q \in Queries : phase[q] # "attached"
            /\ \A q \in Queries : phase[q] = "running" => \A n \in Due(q) : n > pruning
        BY <1>1, <1>2 DEF PruneInv
      <3>2. pruning < head + 1
        BY <1>3, <3>1
      <3>3. wal' # {} /\ pruning' <= counter'
        BY <1>2, <1>3, <1>4, <3>2
      <3>4. ASSUME NEW q \in Queries, phase'[q] = "running", NEW n \in Due(q)' PROVE n > pruning'
        BY <1>2, <2>4, <3>1, <3>2, <3>4
      <3> QED
        BY <2>4, <3>1, <3>3, <3>4 DEF PruneInv
    <2>6. EmptyInv'
      BY <1>4 DEF EmptyInv
    <2>7. KeptInv'
      <3> SUFFICES ASSUME policy' = "RejectIncoming" PROVE KeptInv'
        BY DEF KeptInv
      <3>1. wal' = wal \union {head + 1} /\ policy = "RejectIncoming"
        BY <1>2, <1>4, <2>2
      <3>2. ASSUME NEW q \in Queries, phase'[q] = "running", NEW n \in Due(q)' PROVE n \in wal'
        BY <1>1, <2>4, <3>1, <3>2 DEF KeptInv
      <3>3. ASSUME NEW q \in Queries, phase'[q] = "attached", NEW n \in acked' \union {sending'}, n > target'[q]
            PROVE  n \in wal'
        BY <1>1, <1>2, <1>4, <2>4, <3>1, <3>3 DEF KeptInv
      <3> QED
        BY <3>2, <3>3 DEF KeptInv
    <2> QED
      BY <2>1, <2>3, <2>5, <2>6, <2>7 DEF Inv
  <1>5. CASE UNCHANGED <<wal, counter, sending>>
    <2>1. QueryInv' /\ \A q \in Queries : Same(q)
      BY <1>2, <1>3, <1>5, QueriesKept
    <2>2. LogInv'
      BY <1>1, <1>2, <1>3, <1>5 DEF LogInv
    <2>3. ASSUME NEW q \in Queries
          PROVE  /\ Due(q)' = Due(q) /\ (Replays(q)' <=> Replays(q))
                 /\ phase'[q] = phase[q] /\ target'[q] = target[q]
      BY <1>2, <1>5, <2>1, SameSets, SameDue DEF Same
    <2>4. PruneInv' /\ EmptyInv' /\ KeptInv'
      BY <1>1, <1>2, <1>5, <2>3 DEF PruneInv, EmptyInv, KeptInv
    <2> QED
      BY <2>1, <2>2, <2>4 DEF Inv
  <1> QED
    BY <1>4, <1>5 DEF WalAppend

LEMMA CancelSendStep ==
    ASSUME IInv, CancelSend
    PROVE  Inv'
  <1>1. LogType /\ QueryType /\ LogInv /\ PruneInv /\ EmptyInv /\ KeptInv
    BY TypeParts DEF IInv, Inv
  <1>2. /\ sending' = 0
        /\ UNCHANGED <<policy, wal, counter, head, chan, acked, clock, pruning>> /\ UNCHANGED queryVars
    BY DEF CancelSend
  <1>3. counter \in Nat /\ head \in Nat /\ counter <= head /\ \A n \in wal : n \in Nat /\ n >= 1
    BY <1>1, LogNumbers DEF LogInv
  <1>4. QueryInv' /\ \A q \in Queries : Same(q)
    BY <1>2, <1>3, QueriesKept
  <1>5. LogInv'
    BY <1>1, <1>2, <1>3 DEF LogInv
  <1>6. ASSUME NEW q \in Queries
        PROVE  /\ Due(q)' \subseteq Due(q) /\ (Replays(q)' <=> Replays(q))
               /\ phase'[q] = phase[q] /\ target'[q] = target[q] /\ target[q] \in Nat
    <2>1. base'[q] = base[q] /\ ckpt'[q] = ckpt[q] /\ acked' = acked /\ base[q] \in Nat
      BY <1>1, <1>2, <1>4, QueryNumbers DEF Same
    <2>2. Due(q)' \subseteq Due(q)
      BY <1>2, <2>1 DEF Due
    <2> QED
      BY <1>1, <1>4, <2>2, SameSets, QueryNumbers DEF Same
  <1>7. PruneInv' /\ EmptyInv' /\ KeptInv'
    BY <1>1, <1>2, <1>6 DEF PruneInv, EmptyInv, KeptInv
  <1> QED
    BY <1>4, <1>5, <1>7 DEF Inv

LEMMA PruneComputeStep ==
    ASSUME IInv, PruneCompute, Races = {}
    PROVE  Inv'
  <1>1. LogType /\ QueryType /\ QueryInv /\ LogInv /\ PruneInv /\ EmptyInv /\ KeptInv
    BY TypeParts DEF IInv, Inv
  <1>2. /\ \A q \in Queries : phase[q] # "attached"
        /\ \A q \in Queries : phase[q] = "running" /\ handle[q] = None =>
               \A n \in Owed(q) \union {sending} : n = 0 \/ n > Confirmed
        /\ pruning' = Confirmed /\ wal # {}
        /\ UNCHANGED <<policy, wal, counter, head, sending, chan, acked>>
        /\ UNCHANGED clock /\ UNCHANGED queryVars
    BY DEF PruneCompute, logVars
  <1>3. counter \in Nat /\ head \in Nat
    BY <1>1, LogNumbers
  <1>4. QueryInv' /\ \A q \in Queries : Same(q)
    BY <1>2, <1>3, QueriesKept
  <1>5. LogInv'
    BY <1>1, <1>2 DEF LogInv
  <1>6. ASSUME NEW q \in Queries
        PROVE  /\ Due(q)' = Due(q) /\ (Replays(q)' <=> Replays(q))
               /\ phase'[q] = phase[q] /\ target'[q] = target[q]
    BY <1>2, <1>4, SameSets, SameDue DEF Same
  <1>7. EmptyInv' /\ KeptInv'
    BY <1>1, <1>2, <1>6 DEF EmptyInv, KeptInv
  <1>8. /\ Confirmed \in Nat
        /\ \A q \in Queries : phase[q] = "running" /\ handle[q] # None => Confirmed <= handle[q]
        /\ Confirmed # 0 => \E q \in Queries : phase[q] = "running" /\ Confirmed = handle[q]
    BY <1>1, ConfirmedFacts, LogNumbers DEF QueryType
  <1>9. ASSUME NEW q \in Queries, phase[q] = "running", handle[q] # None
        PROVE  handle[q] = Resume(q) /\ Resume(q) <= counter
    <2>1. handle[q] = Resume(q)
      BY <1>1, <1>9 DEF QueryInv, QueryAt, PhaseAt
    <2>2. ckpt[q] # None => ckpt[q] <= counter
      BY <1>1 DEF QueryInv, QueryAt, AppliedAt
    <2> QED
      BY <1>3, <2>1, <2>2 DEF Resume
  <1>10. ASSUME NEW q \in Queries, phase[q] = "running", NEW n \in Due(q) PROVE n > Confirmed
    <2>1. n \in Nat /\ n >= 1 /\ n > base[q] /\ n > ckpt[q] /\ (n \in acked \/ n = sending)
      BY <1>1, DueFacts
    <2>2. CASE handle[q] # None
      <3>1. Confirmed <= Resume(q) /\ Resume(q) \in Nat
        BY <1>1, <1>8, <1>9, <1>10, <2>2, QueryNumbers
      <3>2. n > Resume(q)
        BY <2>1 DEF Resume
      <3> QED
        BY <1>8, <2>1, <3>1, <3>2
    <2>3. CASE handle[q] = None
      <3>1. n \in Owed(q) \union {sending}
        BY <2>1 DEF Owed
      <3> QED
        BY <1>2, <1>10, <2>1, <2>3, <3>1
    <2> QED
      BY <2>2, <2>3
  <1>11. Confirmed <= counter
    <2>1. CASE Confirmed = 0
      BY <1>3, <2>1
    <2>2. CASE Confirmed # 0
      <3>1. PICK q \in Queries : phase[q] = "running" /\ Confirmed = handle[q]
        BY <1>8, <2>2
      <3>2. handle[q] # None
        BY <1>8, <3>1 DEF None
      <3> QED
        BY <1>9, <3>1, <3>2
    <2> QED
      BY <2>1, <2>2
  <1>12. PruneInv'
    BY <1>2, <1>6, <1>10, <1>11 DEF PruneInv
  <1> QED
    BY <1>4, <1>5, <1>7, <1>12 DEF Inv

LEMMA PruneUpToStep ==
    ASSUME IInv, PruneUpTo, Races = {}
    PROVE  Inv'
  <1>1. LogType /\ QueryType /\ QueryInv /\ LogInv /\ PruneInv /\ EmptyInv /\ KeptInv
    BY TypeParts DEF IInv, Inv
  <1>2. /\ pruning # 0
        /\ Pruned # {} \/ \A q \in Queries : phase[q] # "running" => Wants(q) >= pruning
        /\ wal' = Pruned /\ pruning' = 0
        /\ UNCHANGED <<policy, counter, head, sending, chan, acked>>
        /\ UNCHANGED clock /\ UNCHANGED queryVars
    BY DEF PruneUpTo
  <1>3. /\ counter \in Nat /\ head \in Nat /\ pruning \in Nat
        /\ \A n \in wal : n \in Nat
        /\ \A n \in wal' : n \in wal /\ n > pruning
        /\ \A n \in wal : n > pruning => n \in wal'
    BY <1>1, <1>2, LogNumbers DEF Pruned
  <1>4. QueryInv' /\ \A q \in Queries : Same(q)
    BY <1>2, <1>3, QueriesKept
  <1>5. /\ wal # {} /\ pruning <= counter
        /\ \A q \in Queries : phase[q] # "attached"
        /\ \A q \in Queries : phase[q] = "running" => \A n \in Due(q) : n > pruning
    BY <1>1, <1>2 DEF PruneInv
  <1>6. LogInv'
    <2>1. ASSUME NEW n \in acked \union {sending}, NEW m \in wal', m <= n PROVE n \in wal'
      <3>1. m \in wal /\ m > pruning /\ n \in wal
        BY <1>1, <1>3, <2>1 DEF LogInv
      <3> QED
        BY <1>3, <2>1, <3>1
    <2>2. /\ counter <= head
          /\ sending # 0 => sending = head /\ sending = counter /\ sending \notin acked
          /\ \A n \in wal \union acked : n <= counter
          /\ \A i \in DOMAIN chan : chan[i] \in acked
          /\ \A i, j \in DOMAIN chan : i < j => chan[i] < chan[j]
          /\ \A n \in acked : \A i \in DOMAIN chan : chan[i] <= n => n \in Range(chan)
      BY <1>1 DEF LogInv
    <2> QED
      BY <1>2, <1>3, <2>1, <2>2 DEF LogInv
  <1>7. ASSUME NEW q \in Queries
        PROVE  /\ Due(q)' = Due(q) /\ (Replays(q)' <=> Replays(q))
               /\ phase'[q] = phase[q] /\ target'[q] = target[q]
    BY <1>2, <1>4, SameSets, SameDue DEF Same
  <1>8. PruneInv'
    BY <1>2 DEF PruneInv
  <1>9. EmptyInv'
    <2> SUFFICES ASSUME wal' = {}, NEW q \in Queries, Replays(q), NEW n \in Due(q) PROVE FALSE
      BY <1>7 DEF EmptyInv
    <2>1. n \in Nat /\ n >= 1 /\ n > ckpt[q] /\ (n \in acked \/ n = sending)
      BY <1>1, DueFacts
    <2>2. n > pruning
      <3>1. CASE phase[q] = "running"
        BY <1>5, <3>1
      <3>2. CASE phase[q] # "running"
        <4>1. Wants(q) >= pruning
          BY <1>2, <3>2
        <4>2. n > Wants(q) /\ Wants(q) \in Nat
          BY <1>1, <2>1, QueryNumbers DEF Wants
        <4> QED
          BY <1>3, <2>1, <4>1, <4>2
      <3> QED
        BY <3>1, <3>2
    <2>3. PICK m \in wal : TRUE
      BY <1>5
    <2>4. m <= pruning
      BY <1>3, <2>3
    <2>5. n \in wal
      <3>1. m <= n
        BY <1>3, <2>1, <2>2, <2>4
      <3> QED
        BY <1>1, <2>1, <2>3, <3>1 DEF LogInv
    <2> QED
      BY <1>3, <2>2, <2>5
  <1>10. KeptInv'
    <2> SUFFICES ASSUME policy' = "RejectIncoming" PROVE KeptInv'
      BY DEF KeptInv
    <2>1. ASSUME NEW q \in Queries, phase'[q] = "running", NEW n \in Due(q)' PROVE n \in wal'
      BY <1>1, <1>2, <1>3, <1>5, <1>7, <2>1 DEF KeptInv
    <2> QED
      BY <1>5, <1>7, <2>1 DEF KeptInv
  <1> QED
    BY <1>4, <1>6, <1>8, <1>9, <1>10 DEF Inv

LEMMA CrashStep ==
    ASSUME IInv, Crash
    PROVE  Inv'
  <1>1. LogType /\ QueryType /\ QueryInv /\ LogInv /\ PruneInv /\ EmptyInv /\ KeptInv
    BY TypeParts DEF IInv, Inv
  <1>2. /\ head' = counter /\ sending' = 0 /\ chan' = <<>> /\ clock' = 0 /\ pruning' = 0
        /\ phase' = [q \in Queries |-> "idle"] /\ target' = [q \in Queries |-> 0]
        /\ recv' = [q \in Queries |-> <<>>] /\ pq' = [q \in Queries |-> {}]
        /\ handle' = [q \in Queries |-> None] /\ failed' = [q \in Queries |-> FALSE]
        /\ UNCHANGED <<policy, wal, counter, acked, known, ckpt, applied, base>>
    BY DEF Crash
  <1>3. DOMAIN <<>> = {} /\ Len(<<>>) = 0
    OBVIOUS
  <1>4. counter \in Nat /\ \A n \in wal : n \in Nat /\ n >= 1
    BY <1>1, LogNumbers
  <1>5. LogInv'
    BY <1>1, <1>2, <1>3, <1>4 DEF LogInv
  <1>6. PruneInv' /\ KeptInv'
    BY <1>2 DEF PruneInv, KeptInv
  <1>7. EmptyInv'
    <2>1. ASSUME NEW q \in Queries PROVE Due(q)' \subseteq Due(q) /\ (Replays(q)' <=> Replays(q))
      <3>1. base[q] \in Nat
        BY <1>1, QueryNumbers
      <3> QED
        BY <1>2, <3>1 DEF Due, Replays
    <2> QED
      BY <1>1, <1>2, <2>1 DEF EmptyInv
  <1>8. ASSUME NEW q \in Queries PROVE QueryAt(q)'
    <2>1. AppliedAt(q)'
      BY <1>1, <1>2 DEF QueryInv, QueryAt, AppliedAt, Owed
    <2>2. /\ phase'[q] = "idle" /\ recv'[q] = <<>> /\ Len(recv'[q]) = 0 /\ pq'[q] = {}
          /\ ~failed'[q] /\ ckpt'[q] = ckpt[q] /\ (known'[q] <=> known[q])
      BY <1>2, <1>3
    <2>3. PhaseAt(q)'
      BY <1>1, <2>2 DEF QueryInv, QueryAt, PhaseAt
    <2>4. BoundAt(q)' /\ QueueAt(q)' /\ StampAt(q)' /\ OrderAt(q)' /\ FlowAt(q)'
      BY <2>2 DEF BoundAt, QueueAt, StampAt, OrderAt, FlowAt
    <2> QED
      BY <2>1, <2>3, <2>4 DEF QueryAt
  <1> QED
    BY <1>5, <1>6, <1>7, <1>8 DEF Inv, QueryInv

LEMMA HeadTail ==
    ASSUME NEW S, NEW s \in Seq(S), s # <<>>
    PROVE  /\ Len(s) \in Nat /\ Len(s) >= 1 /\ DOMAIN s = 1..Len(s)
           /\ Head(s) = s[1] /\ 1 \in DOMAIN s /\ Tail(s) \in Seq(S)
           /\ Len(Tail(s)) = Len(s) - 1 /\ DOMAIN Tail(s) = 1..(Len(s) - 1)
           /\ \A i \in DOMAIN Tail(s) : i + 1 \in DOMAIN s /\ Tail(s)[i] = s[i + 1]
  OBVIOUS

LEMMA AppendLast ==
    ASSUME NEW S, NEW s \in Seq(S), NEW x \in S
    PROVE  /\ Append(s, x) \in Seq(S) /\ Len(Append(s, x)) = Len(s) + 1 /\ Len(s) \in Nat
           /\ DOMAIN s = 1..Len(s) /\ DOMAIN Append(s, x) = 1..(Len(s) + 1)
           /\ \A i \in DOMAIN s : i \in DOMAIN Append(s, x) /\ Append(s, x)[i] = s[i]
           /\ Append(s, x)[Len(s) + 1] = x
           /\ \A i \in DOMAIN Append(s, x) : i \in DOMAIN s \/ i = Len(s) + 1
  OBVIOUS

\* The first element of the channel goes, the others stay.
LEMMA RangeOfTail ==
    ASSUME NEW S, NEW s \in Seq(S), s # <<>>
    PROVE  \A x \in Range(s) : x = s[1] \/ x \in Range(Tail(s))
  <1> SUFFICES ASSUME NEW i \in DOMAIN s PROVE s[i] = s[1] \/ s[i] \in Range(Tail(s))
    BY DEF Range
  <1>1. CASE i = 1
    BY <1>1
  <1>2. CASE i # 1
    <2>1. i - 1 \in DOMAIN Tail(s) /\ Tail(s)[i - 1] = s[i]
      BY <1>2, HeadTail
    <2> QED
      BY <2>1 DEF Range
  <1> QED
    BY <1>1, <1>2

\* What is known of a running query, in one place.
LEMMA RunningFacts ==
    ASSUME IInv, NEW q \in Queries, phase[q] = "running"
    PROVE  /\ Len(recv[q]) = 1 /\ ~failed[q] /\ known[q]
           /\ AppliedAt(q) /\ BoundAt(q) /\ QueueAt(q) /\ StampAt(q) /\ OrderAt(q) /\ FlowAt(q)
  <1>1. QueryAt(q)
    BY DEF IInv, Inv, QueryInv
  <1>2. PhaseAt(q)
    BY <1>1 DEF QueryAt
  <1>3. Len(recv[q]) = 1
    BY <1>2 DEF PhaseAt
  <1>4. ~failed[q]
    BY <1>2 DEF PhaseAt
  <1>5. known[q]
    BY <1>2 DEF PhaseAt
  <1> QED
    BY <1>1, <1>3, <1>4, <1>5 DEF QueryAt

LEMMA EnqueueStep ==
    ASSUME IInv, Enqueue
    PROVE  Inv'
  <1>1. LogType /\ QueryType /\ QueryInv /\ LogInv /\ PruneInv /\ EmptyInv /\ KeptInv
    BY TypeParts DEF IInv, Inv
  <1>2. /\ sending # 0 /\ chan' = Append(chan, sending) /\ acked' = acked \union {sending} /\ sending' = 0
        /\ UNCHANGED <<policy, wal, counter, head>>
        /\ UNCHANGED <<clock, pruning>> /\ UNCHANGED queryVars
    BY DEF Enqueue
  <1>3. /\ counter \in Nat /\ head \in Nat /\ counter <= head /\ sending \in Nat
        /\ sending = counter /\ sending = head /\ sending \notin acked
        /\ \A n \in wal : n \in Nat /\ n >= 1 /\ n <= counter
        /\ \A n \in acked : n \in Nat /\ n >= 1 /\ n <= counter
    BY <1>1, <1>2, LogNumbers DEF LogInv
  <1> DEFINE s == sending
             c == chan
             d == chan'
  <1>4. /\ Len(c) \in Nat /\ DOMAIN c = 1..Len(c) /\ DOMAIN d = 1..(Len(c) + 1)
        /\ \A i \in DOMAIN c : i \in DOMAIN d /\ d[i] = c[i]
        /\ d[Len(c) + 1] = s
        /\ \A i \in DOMAIN d : i \in DOMAIN c \/ i = Len(c) + 1
    <2>1. chan \in Seq(1..MaxSeq) /\ sending \in 1..MaxSeq
      BY <1>1, <1>2, <1>3 DEF LogType
    <2> QED
      BY <1>2, <2>1, AppendLast
  <1>5. Range(c) \subseteq Range(d) /\ s \in Range(d)
    <2> HIDE DEF c, d, s
    <2>1. Len(c) + 1 \in DOMAIN d
      BY <1>4
    <2> QED
      BY <1>4, <2>1 DEF Range
  <1>6. LogInv'
    <2>1. /\ \A i \in DOMAIN c : c[i] \in acked
          /\ \A i, j \in DOMAIN c : i < j => c[i] < c[j]
          /\ \A n \in acked : \A i \in DOMAIN c : c[i] <= n => n \in Range(c)
          /\ \A n \in acked \union {s} : \A m \in wal : m <= n => n \in wal
      BY <1>1 DEF LogInv
    <2>2. s \in Nat /\ s \notin acked /\ s = counter /\ acked' = acked \union {s}
      BY <1>2, <1>3
    <2> HIDE DEF c, d, s
    <2>3. \A i \in DOMAIN c : c[i] \in acked /\ c[i] \in Nat /\ c[i] < s
      <3>1. ASSUME NEW n \in acked PROVE n \in Nat /\ n < s
        <4>1. n \in Nat /\ n <= s
          BY <1>3, <2>2
        <4>2. n # s
          BY <2>2
        <4> QED
          BY <2>2, <4>1, <4>2
      <3> QED
        BY <2>1, <3>1
    <2>4. \A i \in DOMAIN d : d[i] \in acked'
      BY <1>4, <2>1, <2>2
    <2>5. ASSUME NEW i \in DOMAIN d, NEW j \in DOMAIN d, i < j PROVE d[i] < d[j]
      <3>1. i \in DOMAIN c
        BY <1>4, <2>5
      <3>2. CASE j \in DOMAIN c
        BY <1>4, <2>1, <2>5, <3>1, <3>2
      <3>3. CASE j = Len(c) + 1
        BY <1>4, <2>3, <3>1, <3>3
      <3> QED
        BY <1>4, <3>2, <3>3
    <2>6. ASSUME NEW n \in acked', NEW i \in DOMAIN d, d[i] <= n PROVE n \in Range(d)
      <3>1. CASE n = s
        BY <1>5, <3>1
      <3>2. CASE n \in acked
        <4>1. n \in Nat /\ n <= s /\ n # s
          BY <1>3, <2>2, <3>2
        <4>2. i \in DOMAIN c
          BY <1>4, <2>2, <2>6, <4>1
        <4> QED
          BY <1>4, <1>5, <2>1, <2>6, <3>2, <4>2
      <3> QED
        BY <2>2, <3>1, <3>2
    <2>7. ASSUME NEW n \in acked' \union {0}, NEW m \in wal, m <= n PROVE n \in wal
      <3>1. n # 0
        BY <1>3, <2>7
      <3> QED
        BY <2>1, <2>2, <2>7, <3>1
    <2>8. \A n \in wal \union acked' : n <= counter
      BY <1>3, <2>2
    <2> QED
      BY <1>2, <1>3, <2>4, <2>5, <2>6, <2>7, <2>8 DEF LogInv, d
  <1>7. \A q \in Queries : Same(q)
    BY <1>2 DEF queryVars, Same
  <1>8. ASSUME NEW q \in Queries
        PROVE  /\ Due(q)' \subseteq Due(q) /\ (Replays(q)' <=> Replays(q))
               /\ phase'[q] = phase[q] /\ target'[q] = target[q] /\ target[q] \in Nat
               /\ \A n \in Owed(q)' : n \in Owed(q) \/ n = s
               /\ \A n \in Missing(q)' : n \in Missing(q) \/ n = s
    <2>1. base'[q] = base[q] /\ ckpt'[q] = ckpt[q] /\ base[q] \in Nat
      BY <1>1, <1>7, QueryNumbers DEF Same
    <2>2. Due(q)' \subseteq Due(q)
      BY <1>2, <2>1 DEF Due
    <2>3. \A n \in Owed(q)' : n \in Owed(q) \/ n = s
      BY <1>2, <2>1 DEF Owed
    <2>4. \A n \in Missing(q)' : n \in Missing(q) \/ n = s
      BY <2>1, <2>3 DEF Missing
    <2> QED
      BY <1>1, <1>7, <2>2, <2>3, <2>4, SameSets, QueryNumbers DEF Same
  <1>9. PruneInv' /\ EmptyInv' /\ KeptInv'
    <2>1. PruneInv'
      BY <1>1, <1>2, <1>8 DEF PruneInv
    <2>2. EmptyInv'
      BY <1>1, <1>2, <1>8 DEF EmptyInv
    <2>3. KeptInv'
      BY <1>1, <1>2, <1>8 DEF KeptInv
    <2> QED
      BY <2>1, <2>2, <2>3
  <1>10. ASSUME NEW q \in Queries PROVE QueryAt(q)'
    <2>1. /\ AppliedAt(q) /\ PhaseAt(q) /\ BoundAt(q)
          /\ QueueAt(q) /\ StampAt(q) /\ OrderAt(q) /\ FlowAt(q)
      BY <1>1 DEF QueryInv, QueryAt
    <2>2. /\ Same(q) /\ Own(q)' = Own(q) /\ Queued(q)' = Queued(q) /\ Resume(q)' = Resume(q)
          /\ Replaying(q)' = Replaying(q) /\ Live(q)' = Live(q)
      BY <1>7, SameSets
    <2>3. s = counter /\ s \in Nat /\ chan' = d
      BY <1>3
    <2> HIDE DEF s, c, d
    <2>4. AppliedAt(q)'
      <3>1. ASSUME NEW n \in Owed(q)', n <= ckpt[q] PROVE n \in applied[q]
        <4>1. CASE n = s
          <5>1. ckpt[q] # None
            BY <2>3, <3>1, <4>1 DEF None
          <5>2. ckpt[q] <= counter /\ ckpt[q] \in applied[q] /\ ckpt[q] \in Int
            BY <1>1, <2>1, <5>1, QueryNumbers DEF AppliedAt
          <5>3. ckpt[q] = n
            BY <2>3, <3>1, <4>1, <5>2
          <5> QED
            BY <5>2, <5>3
        <4>2. CASE n \in Owed(q)
          BY <2>1, <3>1, <4>2 DEF AppliedAt
        <4> QED
          BY <1>8, <4>1, <4>2
      <3> QED
        BY <1>2, <2>1, <2>2, <3>1 DEF AppliedAt, Same
    <2>5. PhaseAt(q)'
      BY <1>2, <2>1, <2>2 DEF PhaseAt, Same, NewReceiver
    <2>6. BoundAt(q)'
      BY <1>2, <2>1, <2>2 DEF BoundAt, Same
    <2>7. QueueAt(q)'
      <3>1. \A e \in pq[q] : e.seq \in Nat /\ e.seq <= s
        BY <1>1, <2>1, <2>3, QueryNumbers DEF BoundAt
      <3>2. ASSUME ~failed[q], NEW e \in pq[q], NEW n \in Missing(q)', n < e.seq
            PROVE  \E f \in pq[q] : f.seq = n /\ Before(f, e)
        <4>1. n \in Missing(q)
          BY <1>8, <2>3, <3>1, <3>2
        <4> QED
          BY <2>1, <3>2, <4>1 DEF QueueAt
      <3> QED
        BY <2>2, <3>2 DEF QueueAt, Same
    <2>8. StampAt(q)'
      BY <2>1, <2>2 DEF StampAt, Same
    <2>9. OrderAt(q)'
      <3> SUFFICES ASSUME phase[q] = "running" PROVE OrderAt(q)'
        BY <2>2 DEF OrderAt, Same
      <3>1. Len(recv[q]) = 1
        BY RunningFacts
      <3>2. /\ \A e \in Own(q).replay : e.seq \in Nat /\ e.seq <= s
            /\ \A i \in DOMAIN Own(q).live : Own(q).live[i].seq \in Nat /\ Own(q).live[i].seq <= s
        BY <1>1, <2>1, <2>3, <3>1, OwnType DEF BoundAt
      <3>3. ASSUME NEW n \in Missing(q)', NEW e \in Own(q).replay, n < e.seq PROVE n \in Missing(q)
        BY <1>8, <2>3, <3>2, <3>3
      <3>4. ASSUME NEW n \in Missing(q)', NEW i \in DOMAIN Own(q).live, n < Own(q).live[i].seq
            PROVE  n \in Missing(q)
        BY <1>8, <2>3, <3>2, <3>4
      <3> QED
        BY <2>1, <2>2, <3>3, <3>4 DEF OrderAt, Same
    <2>10. FlowAt(q)'
      <3>1. ASSUME phase[q] = "running", NEW n \in Missing(q)'
            PROVE  n \in Queued(q) \union Replaying(q) \union Live(q) \union Range(d)
        BY <1>5, <1>8, <2>1, <3>1 DEF FlowAt, c
      <3>2. ASSUME phase[q] = "attached", NEW n \in acked', n > target[q] PROVE n \in Range(d)
        BY <1>2, <1>5, <2>1, <3>2 DEF FlowAt, c, s
      <3> QED
        BY <2>2, <2>3, <3>1, <3>2 DEF FlowAt, Same
    <2> QED
      BY <2>4, <2>5, <2>6, <2>7, <2>8, <2>9, <2>10 DEF QueryAt
  <1> QED
    BY <1>6, <1>9, <1>10 DEF Inv, QueryInv

LEMMA DispatchStep ==
    ASSUME IInv, Dispatch, Races = {}
    PROVE  Inv'
  <1>1. LogType /\ QueryType /\ QueryInv /\ LogInv /\ PruneInv /\ EmptyInv /\ KeptInv
    BY TypeParts DEF IInv, Inv
  <1> DEFINE new == [seq |-> Head(chan), ts |-> clock + 1]
             c == chan
             d == chan'
  <1>2. /\ c # <<>> /\ d = Tail(c) /\ clock' = clock + 1
        /\ \A q \in Queries : phase[q] # "attached"
        /\ recv' = [q \in Queries |->
                      [i \in DOMAIN recv[q] |-> [recv[q][i] EXCEPT !.live = Append(@, new)]]]
    BY DEF Dispatch
  <1>3. /\ UNCHANGED <<policy, wal, counter, head, sending, acked, pruning>>
        /\ UNCHANGED <<phase, target, pq, handle, known, ckpt, applied, failed, base>>
    BY DEF Dispatch
  <1>4. /\ clock \in Nat /\ counter \in Nat /\ c \in Seq(1..MaxSeq)
        /\ \A n \in acked : n \in Nat
    BY <1>1, LogNumbers DEF LogType
  <1>5. /\ Len(c) \in Nat /\ DOMAIN c = 1..Len(c)
        /\ Head(c) = c[1] /\ 1 \in DOMAIN c /\ DOMAIN d = 1..(Len(c) - 1)
        /\ \A i \in DOMAIN d : i + 1 \in DOMAIN c /\ d[i] = c[i + 1]
        /\ \A n \in Range(c) : n = c[1] \/ n \in Range(d)
    <2> HIDE DEF c, d
    <2> QED
      BY <1>2, <1>4, HeadTail, RangeOfTail
  <1>6. /\ \A i \in DOMAIN c : c[i] \in acked
        /\ \A i, j \in DOMAIN c : i < j => c[i] < c[j]
        /\ \A n \in acked : \A i \in DOMAIN c : c[i] <= n => n \in Range(c)
    BY <1>1 DEF LogInv
  <1>7. new \in Event /\ new.seq = c[1] /\ new.ts = clock + 1 /\ new.seq \in Nat
        /\ new.seq <= counter
    <2>1. c[1] \in acked /\ c[1] \in 1..MaxSeq
      BY <1>5, <1>6, <1>1 DEF LogType
    <2>2. c[1] <= counter
      BY <1>1, <2>1 DEF LogInv
    <2> HIDE DEF c
    <2> QED
      BY <1>4, <1>5, <2>1, <2>2 DEF Event, c
  <1>8. LogInv'
    <2> HIDE DEF c, d
    <2>1. \A i \in DOMAIN d : i \in Nat /\ d[i] \in acked
      BY <1>5, <1>6
    <2>2. \A i, j \in DOMAIN d : i < j => d[i] < d[j]
      BY <1>5, <1>6
    <2>3. ASSUME NEW n \in acked, NEW i \in DOMAIN d, d[i] <= n PROVE n \in Range(d)
      <3>1. n \in Range(c) /\ c[1] < d[i] /\ c[1] \in Nat /\ d[i] \in Nat
        BY <1>4, <1>5, <1>6, <2>3
      <3>2. n # c[1]
        BY <1>4, <2>3, <3>1
      <3> QED
        BY <1>5, <3>1, <3>2
    <2>4. /\ counter <= head
          /\ sending # 0 => sending = head /\ sending = counter /\ sending \notin acked
          /\ \A n \in wal \union acked : n <= counter
          /\ \A n \in acked \union {sending} : \A m \in wal : m <= n => n \in wal
      BY <1>1 DEF LogInv
    <2> QED
      BY <1>3, <2>1, <2>2, <2>3, <2>4 DEF LogInv, d
  <1>9. ASSUME NEW q \in Queries
        PROVE  /\ Due(q)' = Due(q) /\ (Replays(q)' <=> Replays(q)) /\ Owed(q)' = Owed(q)
               /\ Missing(q)' = Missing(q) /\ Queued(q)' = Queued(q) /\ Resume(q)' = Resume(q)
    BY <1>3 DEF Due, Replays, Owed, Missing, Queued, Resume
  <1>10. PruneInv' /\ EmptyInv' /\ KeptInv'
    <2>1. PruneInv'
      BY <1>1, <1>3, <1>9 DEF PruneInv
    <2>2. EmptyInv'
      BY <1>1, <1>3, <1>9 DEF EmptyInv
    <2>3. KeptInv'
      BY <1>1, <1>3, <1>9 DEF KeptInv
    <2> QED
      BY <2>1, <2>2, <2>3
  <1>11. \A n \in Range(c) : n \in Nat /\ n >= c[1]
    <2> HIDE DEF c
    <2>1. ASSUME NEW i \in DOMAIN c PROVE c[i] \in Nat /\ c[i] >= c[1]
      <3>1. c[i] \in Nat /\ c[1] \in Nat
        BY <1>4, <1>5, <1>6
      <3>2. CASE i = 1
        BY <3>1, <3>2
      <3>3. CASE i # 1
        <4>1. 1 < i
          BY <1>5, <3>3
        <4> QED
          BY <1>5, <1>6, <3>1, <4>1
      <3> QED
        BY <3>2, <3>3
    <2> QED
      BY <2>1 DEF Range
  <1> HIDE DEF new
  <1>12. QueryType'
    <2>1. [Next]_vars
      BY DEF Next
    <2> QED
      BY <1>1, <2>1, QueryTypeStep
  <1>13. ASSUME NEW q \in Queries PROVE QueryAt(q)'
    <2>1. /\ AppliedAt(q) /\ PhaseAt(q) /\ BoundAt(q)
          /\ QueueAt(q) /\ StampAt(q) /\ OrderAt(q) /\ FlowAt(q)
      BY <1>1 DEF QueryInv, QueryAt
    <2>2. recv'[q] = [i \in DOMAIN recv[q] |-> [recv[q][i] EXCEPT !.live = Append(@, new)]]
      BY <1>2
    <2>3. Len(recv'[q]) = Len(recv[q])
      <3>1. recv[q] \in Seq(Receiver) /\ recv'[q] \in Seq(Receiver)
        BY <1>1, <1>12 DEF QueryType
      <3>2. /\ DOMAIN recv[q] = 1..Len(recv[q]) /\ DOMAIN recv'[q] = 1..Len(recv'[q])
            /\ Len(recv[q]) \in Nat /\ Len(recv'[q]) \in Nat
        BY <3>1, Elements
      <3>3. 1..Len(recv'[q]) = 1..Len(recv[q])
        BY <2>2, <3>2
      <3> QED
        BY <3>2, <3>3
    <2>4. /\ phase'[q] = phase[q] /\ pq'[q] = pq[q] /\ handle'[q] = handle[q] /\ ckpt'[q] = ckpt[q]
          /\ applied'[q] = applied[q] /\ (known'[q] <=> known[q]) /\ (failed'[q] <=> failed[q])
          /\ phase[q] # "attached"
      BY <1>2, <1>3
    <2>5. ASSUME Len(recv[q]) = 1
          PROVE  /\ Own(q)'.replay = Own(q).replay /\ Own(q)'.live = Append(Own(q).live, new)
                 /\ Replaying(q)' = Replaying(q)
      <3>1. Own(q) \in Receiver /\ 1 \in DOMAIN recv[q]
        BY <1>1, <2>5, OwnType
      <3>2. Own(q)' = [Own(q) EXCEPT !.live = Append(@, new)]
        BY <2>2, <3>1 DEF Own
      <3>3. Own(q)'.replay = Own(q).replay /\ Own(q)'.live = Append(Own(q).live, new)
        BY <3>1, <3>2 DEF Receiver
      <3> QED
        BY <3>3 DEF Replaying
    <2> DEFINE l == Own(q).live
               k == Own(q)'.live
    <2>6. ASSUME Len(recv[q]) = 1
          PROVE  /\ Len(l) \in Nat /\ DOMAIN l = 1..Len(l) /\ DOMAIN k = 1..(Len(l) + 1)
                 /\ \A i \in DOMAIN l : i \in DOMAIN k /\ k[i] = l[i]
                 /\ k[Len(l) + 1] = new
                 /\ \A i \in DOMAIN k : i \in DOMAIN l \/ i = Len(l) + 1
                 /\ \A i \in DOMAIN l : l[i].seq \in Nat /\ l[i].ts \in Nat
      <3>1. l \in Seq(Event) /\ k = Append(l, new) /\ \A i \in DOMAIN l : l[i].seq \in Nat /\ l[i].ts \in Nat
        BY <1>1, <2>5, <2>6, OwnType
      <3> HIDE DEF l, k
      <3> QED
        BY <1>7, <3>1, AppendLast
    <2>7. AppliedAt(q)'
      BY <1>3, <1>9, <2>1, <2>4 DEF AppliedAt
    <2>8. PhaseAt(q)'
      BY <1>9, <2>1, <2>3, <2>4 DEF PhaseAt
    <2>9. BoundAt(q)'
      <3>1. \A e \in pq[q] : e.seq <= counter /\ e.ts <= clock + 1
        BY <1>1, <1>4, <2>1, QueryNumbers DEF BoundAt
      <3>2. ASSUME Len(recv[q]) = 1
            PROVE  /\ \A e \in Own(q).replay : e.seq <= counter /\ e.ts <= clock + 1
                   /\ \A i \in DOMAIN k : k[i].seq <= counter /\ k[i].ts <= clock + 1
        <4>1. \A e \in Own(q).replay : e.seq <= counter /\ e.ts <= clock + 1
          BY <1>1, <1>4, <2>1, <3>2, OwnType DEF BoundAt
        <4>2. \A i \in DOMAIN l : l[i].seq <= counter /\ l[i].ts <= clock
          BY <2>1, <3>2 DEF BoundAt
        <4> HIDE DEF l, k
        <4>3. \A i \in DOMAIN k : k[i].seq <= counter /\ k[i].ts <= clock + 1
          BY <1>4, <1>7, <2>6, <3>2, <4>2
        <4> QED
          BY <4>1, <4>3
      <3> QED
        BY <1>2, <1>3, <2>3, <2>4, <2>5, <3>1, <3>2 DEF BoundAt
    <2>10. QueueAt(q)'
      BY <1>9, <2>1, <2>4 DEF QueueAt
    <2>11. ASSUME phase[q] = "running"
           PROVE  StampAt(q)' /\ OrderAt(q)' /\ FlowAt(q)'
      <3>1. Len(recv[q]) = 1
        BY <2>11, RunningFacts
      <3>2. /\ \A e \in pq[q] : e.ts \in Nat /\ e.ts <= clock
            /\ \A e \in Own(q).replay : e.ts \in Nat /\ e.ts <= clock
            /\ \A i \in DOMAIN l : l[i].ts <= clock
        BY <1>1, <2>1, <3>1, QueryNumbers, OwnType DEF BoundAt
      <3>3. /\ \A e \in pq[q], f \in Own(q).replay : e.ts <= f.ts
            /\ \A e \in pq[q], i \in DOMAIN l : e.ts <= l[i].ts
            /\ \A e, f \in Own(q).replay : e.ts <= f.ts
            /\ \A e \in Own(q).replay, i \in DOMAIN l : e.ts <= l[i].ts
            /\ \A i, j \in DOMAIN l : i < j => l[i].ts <= l[j].ts
        BY <2>1, <2>11 DEF StampAt
      <3>4. ASSUME NEW n \in Missing(q)
            PROVE  /\ n \in Queued(q) \union Replaying(q) \union Live(q) \union Range(c)
                   /\ \A e \in Own(q).replay : n < e.seq => n \in Queued(q) \union Replaying(q)
                   /\ \A i \in DOMAIN l : n < l[i].seq =>
                        \/ n \in Queued(q) \union Replaying(q)
                        \/ \E j \in DOMAIN l : j < i /\ l[j].seq = n
        BY <2>1, <2>11 DEF OrderAt, FlowAt
      <3>5. /\ Live(q) = {l[i].seq : i \in DOMAIN l} /\ Live(q)' = {k[i].seq : i \in DOMAIN k}
            /\ Own(q)'.replay = Own(q).replay /\ Replaying(q)' = Replaying(q)
        BY <2>5, <3>1 DEF Live
      <3>6. StampAt(q)'
        <4>1. \A i \in DOMAIN k : \A e \in pq[q] \union Own(q).replay : e.ts <= k[i].ts
          <5> HIDE DEF l, k
          <5> QED
            BY <1>4, <1>7, <2>6, <3>1, <3>2, <3>3
        <4>2. \A i, j \in DOMAIN k : i < j => k[i].ts <= k[j].ts
          <5> HIDE DEF l, k
          <5> QED
            BY <1>4, <1>7, <2>6, <3>1, <3>2, <3>3
        <4> QED
          BY <2>4, <3>3, <3>5, <4>1, <4>2 DEF StampAt
      <3>7. ASSUME NEW n \in Missing(q), NEW i \in DOMAIN k, n < k[i].seq
            PROVE  \/ n \in Queued(q) \union Replaying(q)
                   \/ \E j \in DOMAIN k : j < i /\ k[j].seq = n
        <4> HIDE DEF l, k, c
        <4>1. CASE i \in DOMAIN l
          BY <2>6, <3>1, <3>4, <3>7, <4>1
        <4>2. CASE i = Len(l) + 1
          <5>1. n < c[1] /\ c[1] \in Nat
            BY <1>7, <2>6, <3>1, <3>7, <4>2
          <5>2. n \notin Range(c)
            BY <1>11, <5>1
          <5>3. CASE n \in Live(q)
            <6>1. PICK j \in DOMAIN l : l[j].seq = n
              BY <3>5, <5>3
            <6>2. j < i /\ j \in DOMAIN k /\ k[j].seq = n
              BY <2>6, <3>1, <4>2, <6>1
            <6> QED
              BY <6>2
          <5> QED
            BY <3>4, <5>2, <5>3
        <4> QED
          BY <2>6, <3>1, <4>1, <4>2
      <3>8. OrderAt(q)'
        BY <1>9, <2>4, <3>4, <3>5, <3>7 DEF OrderAt
      <3>9. ASSUME NEW n \in Missing(q)
            PROVE  n \in Queued(q) \union Replaying(q) \union Live(q)' \union Range(d)
        <4> HIDE DEF l, k, c, d
        <4>1. Live(q) \subseteq Live(q)'
          BY <2>6, <3>1, <3>5
        <4>2. c[1] \in Live(q)'
          <5>1. Len(l) + 1 \in DOMAIN k
            BY <2>6, <3>1
          <5> QED
            BY <1>7, <2>6, <3>1, <3>5, <5>1
        <4> QED
          BY <1>5, <3>4, <4>1, <4>2
      <3>10. FlowAt(q)'
        BY <1>9, <2>4, <3>5, <3>9 DEF FlowAt
      <3> QED
        BY <3>6, <3>8, <3>10
    <2>12. ASSUME phase[q] # "running" PROVE StampAt(q)' /\ OrderAt(q)' /\ FlowAt(q)'
      BY <2>4, <2>12 DEF StampAt, OrderAt, FlowAt
    <2> QED
      BY <2>7, <2>8, <2>9, <2>10, <2>11, <2>12 DEF QueryAt
  <1> QED
    BY <1>8, <1>10, <1>13 DEF Inv, QueryInv

----------------------------------------------------------------------------
(* A subscription.                                                         *)

\* A query that starts has no receiver left, and no pruning is under way.
LEMMA StartFacts ==
    ASSUME IInv, NEW q \in Queries, CanStart(q), Races = {}
    PROVE  recv[q] = <<>> /\ ~failed[q] /\ phase[q] \in {"idle", "error"} /\ pruning = 0
  <1>1. phase[q] \in {"idle", "error"} /\ ~failed[q] /\ pruning = 0
    BY DEF CanStart
  <1>2. PhaseAt(q) /\ recv[q] \in Seq(Receiver)
    BY TypeParts DEF IInv, Inv, QueryInv, QueryAt, QueryType
  <1>3. Len(recv[q]) = 0
    BY <1>1, <1>2 DEF PhaseAt
  <1> QED
    BY <1>1, <1>2, <1>3

\* ... and gets a new one.
LEMMA NewOwn ==
    ASSUME QueryType, NEW q \in Queries, recv[q] = <<>>,
           recv' = [recv EXCEPT ![q] = Append(@, NewReceiver)]
    PROVE  /\ Len(recv'[q]) = 1 /\ Own(q)' = NewReceiver
           /\ Own(q)'.replay = {} /\ Own(q)'.live = <<>> /\ DOMAIN Own(q)'.live = {}
  <1>1. recv'[q] = Append(<<>>, NewReceiver)
    BY DEF QueryType
  <1>2. Len(recv'[q]) = 1 /\ recv'[q][1] = NewReceiver
    BY <1>1
  <1>3. DOMAIN <<>> = {}
    OBVIOUS
  <1> QED
    BY <1>2, <1>3 DEF Own, NewReceiver

\* A query without its only receiver has none.
LEMMA NoOwn ==
    ASSUME QueryType, NEW q \in Queries, Len(recv[q]) = 1
    PROVE  WithoutOwn(q) = <<>> /\ Len(WithoutOwn(q)) = 0
  <1> DEFINE s == recv[q]
  <1>1. s \in Seq(Receiver) /\ Len(s) = 1
    BY DEF QueryType
  <1> HIDE DEF s
  <1>2. SubSeq(s, 1, Len(s) - 1) = <<>>
    <2>1. SubSeq(s, 1, 0) = <<>>
      BY <1>1
    <2> QED
      BY <1>1, <2>1
  <1>3. Len(<<>>) = 0
    OBVIOUS
  <1> QED
    BY <1>2, <1>3 DEF WithoutOwn, s

LEMMA AttachStep ==
    ASSUME IInv, NEW q \in Queries, Attach(q), Races = {}
    PROVE  Inv'
  <1>1. LogType /\ QueryType /\ LogInv /\ EmptyInv /\ QueryAt(q)
    BY TypeParts DEF IInv, Inv, QueryInv
  <1>2. /\ CanStart(q) /\ Replays(q)
        /\ known' = [known EXCEPT ![q] = TRUE]
        /\ phase' = [phase EXCEPT ![q] = "attached"]
        /\ target' = [target EXCEPT ![q] = head]
        /\ recv' = [recv EXCEPT ![q] = Append(@, NewReceiver)]
        /\ UNCHANGED <<policy, wal, counter, head, sending, chan, acked, pruning>>
        /\ UNCHANGED <<clock, pq, handle, ckpt, applied, failed, base>>
    BY DEF Attach, logVars
  <1>3. recv[q] = <<>> /\ ~failed[q] /\ pruning = 0
    BY <1>2, StartFacts
  <1>4. known'[q] /\ known \in [Queries -> BOOLEAN]
    BY <1>2, TypeParts DEF IInv, FlagType
  <1>5. \A p \in Queries \ {q} : Same(p)
    BY <1>1, <1>2, <1>4 DEF QueryType, Same
  <1>6. /\ phase'[q] = "attached" /\ target'[q] = head /\ pq'[q] = pq[q] /\ ckpt'[q] = ckpt[q]
        /\ applied'[q] = applied[q] /\ ~failed'[q] /\ base'[q] = base[q]
    BY <1>1, <1>2, <1>3 DEF QueryType
  <1>7. Owed(q)' = Owed(q) /\ Missing(q)' = Missing(q) /\ Due(q)' = Due(q)
    BY <1>2, <1>6, SameDue
  <1>8. /\ counter \in Nat /\ head \in Nat /\ clock \in Nat
        /\ \A n \in acked \union {sending} : n \in Nat /\ n <= head
    <2>1. counter <= head /\ \A n \in acked : n <= counter
      BY <1>1 DEF LogInv
    <2>2. sending = 0 \/ sending = head
      BY <1>1 DEF LogInv
    <2> QED
      BY <1>1, <2>1, <2>2, LogNumbers
  <1>9. /\ Len(recv'[q]) = 1 /\ Own(q)' = NewReceiver
        /\ Own(q)'.replay = {} /\ DOMAIN Own(q)'.live = {}
    BY <1>1, <1>2, <1>3, NewOwn
  <1>10. QueryAt(q)'
    <2>1. AppliedAt(q)'
      BY <1>1, <1>2, <1>6, <1>7 DEF QueryAt, AppliedAt
    <2>2. PhaseAt(q)'
      <3>1. phase'[q] = "attached" => Own(q)' = NewReceiver /\ target'[q] <= head'
        BY <1>2, <1>6, <1>8, <1>9
      <3> QED
        BY <1>4, <1>6, <1>9, <3>1 DEF PhaseAt
    <2>3. BoundAt(q)'
      BY <1>1, <1>2, <1>6, <1>9 DEF QueryAt, BoundAt
    <2>4. QueueAt(q)'
      BY <1>1, <1>3, <1>6, <1>7 DEF QueryAt, QueueAt
    <2>5. StampAt(q)' /\ OrderAt(q)'
      BY <1>6 DEF StampAt, OrderAt
    <2>6. FlowAt(q)'
      BY <1>2, <1>6, <1>8 DEF FlowAt
    <2> QED
      BY <2>1, <2>2, <2>3, <2>4, <2>5, <2>6 DEF QueryAt
  <1>11. wal = {} => Due(q)' = {}
    BY <1>1, <1>2, <1>7 DEF EmptyInv
  <1>12. \A n \in acked \union {sending} : n > target'[q] => n \in wal
    BY <1>6, <1>8
  <1>13. clock' \in Nat /\ clock <= clock'
    BY <1>2, <1>8
  <1> QED
    BY <1>2, <1>3, <1>5, <1>6, <1>10, <1>11, <1>12, <1>13, QueryStep

\* What a subscription has to replay is in the log.
LEMMA ReplayComplete ==
    ASSUME IInv, NEW q \in Queries, phase[q] = "attached", ~Unavailable(q), NEW n \in Due(q), n <= target[q]
    PROVE  n \in wal /\ n > Resume(q)
  <1>1. LogType /\ QueryType /\ LogInv /\ EmptyInv /\ PhaseAt(q)
    BY TypeParts DEF IInv, Inv, QueryInv, QueryAt
  <1>2. n \in Nat /\ n >= 1 /\ n > ckpt[q] /\ (n \in acked \/ n = sending)
    BY <1>1, DueFacts
  <1>3. Resume(q) \in Nat /\ target[q] \in Nat
    BY <1>1, QueryNumbers
  <1>4. n > Resume(q)
    BY <1>2 DEF Resume
  <1>5. wal # {}
    <2>1. Replays(q)
      BY <1>1 DEF PhaseAt, Replays
    <2> QED
      BY <1>1, <2>1 DEF EmptyInv
  <1>6. Min(wal) \in wal /\ wal \in SUBSET Nat
    BY <1>1, <1>5, LogNumbers, MinFact
  <1>7. Min(wal) <= n
    <2>1. ~(Resume(q) + 1 < Min(wal))
      BY <1>2, <1>3, <1>4, <1>5 DEF Unavailable
    <2> QED
      BY <1>2, <1>3, <1>4, <1>6, <2>1
  <1> QED
    BY <1>1, <1>2, <1>4, <1>6, <1>7 DEF LogInv

LEMMA ReadWalStep ==
    ASSUME IInv, NEW q \in Queries, ReadWal(q)
    PROVE  Inv'
  <1>1. LogType /\ QueryType /\ LogInv /\ PruneInv /\ EmptyInv /\ KeptInv /\ QueryAt(q)
    BY TypeParts DEF IInv, Inv, QueryInv
  <1> DEFINE found == Replayed(q)
  <1>2. /\ phase[q] = "attached" /\ ~Unavailable(q) /\ clock' = clock + 1
        /\ target' = [target EXCEPT ![q] = 0]
        /\ recv' = [recv EXCEPT ![q][Len(recv[q])].replay = found]
        /\ handle' = [handle EXCEPT ![q] = Resume(q)]
        /\ phase' = [phase EXCEPT ![q] = "running"]
        /\ UNCHANGED <<policy, wal, counter, head, sending, chan, acked, pruning>>
        /\ UNCHANGED <<pq, known, ckpt, applied, failed, base>>
    BY DEF ReadWal, logVars
  <1>3. /\ Len(recv[q]) = 1 /\ Own(q) = NewReceiver /\ ~failed[q] /\ known[q] /\ pruning = 0
    <2>1. PhaseAt(q)
      BY <1>1 DEF QueryAt
    <2>2. Len(recv[q]) = 1 /\ Own(q) = NewReceiver
      BY <1>2, <2>1 DEF PhaseAt
    <2>3. ~failed[q]
      BY <1>2, <2>1 DEF PhaseAt
    <2>4. known[q]
      BY <1>2, <2>1 DEF PhaseAt
    <2>5. pruning = 0
      BY <1>1, <1>2 DEF PruneInv
    <2> QED
      BY <2>2, <2>3, <2>4, <2>5
  <1>4. /\ clock \in Nat /\ counter \in Nat /\ \A n \in wal : n \in Nat /\ n <= counter
        /\ target[q] \in Nat /\ Resume(q) \in Nat
    BY <1>1, LogNumbers, QueryNumbers DEF LogInv
  <1>5. /\ \A e \in found : e.seq \in wal /\ Resume(q) < e.seq /\ e.seq <= target[q] /\ e.ts = clock + 1
        /\ \A n \in wal : Resume(q) < n /\ n <= target[q] => \E e \in found : e.seq = n
    <2> DEFINE W == {n \in wal : Resume(q) < n /\ n <= target[q]}
    <2>1. found = {[seq |-> n, ts |-> clock + 1] : n \in W}
      BY DEF Replayed, Stamped
    <2>2. /\ \A n \in W : n \in wal /\ Resume(q) < n /\ n <= target[q]
          /\ \A n \in wal : Resume(q) < n /\ n <= target[q] => n \in W
      OBVIOUS
    <2> HIDE DEF W, found
    <2>3. \A e \in found : e.seq \in W /\ e.ts = clock + 1
      BY <2>1
    <2>4. ASSUME NEW n \in W PROVE \E e \in found : e.seq = n
      <3>1. [seq |-> n, ts |-> clock + 1] \in found /\ [seq |-> n, ts |-> clock + 1].seq = n
        BY <2>1
      <3> QED
        BY <3>1
    <2> QED
      BY <2>2, <2>3, <2>4
  <1> HIDE DEF found
  <1>6. /\ Len(recv'[q]) = 1 /\ Own(q)'.replay = found /\ DOMAIN Own(q)'.live = {}
    <2>1. recv[q] \in Seq(Receiver) /\ recv[q] = <<NewReceiver>>
      BY <1>1, <1>3, OwnType DEF QueryType
    <2>2. recv'[q] = [recv[q] EXCEPT ![1].replay = found]
      BY <1>1, <1>2, <1>3 DEF QueryType
    <2>3. recv'[q] = <<[NewReceiver EXCEPT !.replay = found]>>
      BY <2>1, <2>2
    <2>4. Len(recv'[q]) = 1 /\ recv'[q][1] = [NewReceiver EXCEPT !.replay = found]
      BY <2>3
    <2>5. DOMAIN <<>> = {}
      OBVIOUS
    <2> QED
      BY <2>4, <2>5 DEF Own, NewReceiver
  <1>7. \A p \in Queries \ {q} : Same(p)
    BY <1>1, <1>2 DEF QueryType, Same
  <1>8. /\ phase'[q] = "running" /\ pq'[q] = pq[q] /\ ckpt'[q] = ckpt[q] /\ handle'[q] = Resume(q)
        /\ applied'[q] = applied[q] /\ ~failed'[q] /\ base'[q] = base[q] /\ known'[q]
    BY <1>1, <1>2, <1>3 DEF QueryType
  <1>9. /\ Owed(q)' = Owed(q) /\ Missing(q)' = Missing(q) /\ Due(q)' = Due(q)
        /\ Queued(q)' = Queued(q) /\ Resume(q)' = Resume(q) /\ Replaying(q)' = {e.seq : e \in found}
    BY <1>2, <1>6, <1>8, SameDue DEF Queued, Resume, Replaying
  <1>10. ASSUME NEW n \in Due(q), n <= target[q] PROVE n \in wal /\ n \in Replaying(q)'
    BY <1>2, <1>5, <1>9, <1>10, ReplayComplete
  <1>11. QueryAt(q)'
    <2>1. AppliedAt(q)'
      BY <1>1, <1>2, <1>8, <1>9 DEF QueryAt, AppliedAt
    <2>2. PhaseAt(q)'
      BY <1>6, <1>8, <1>9 DEF PhaseAt
    <2>3. /\ \A e \in pq[q] : e.seq <= counter /\ e.ts <= clock /\ e.ts \in Nat
          /\ \A e \in found : e.seq <= counter /\ e.ts <= clock + 1 /\ e.ts \in Nat
      BY <1>1, <1>4, <1>5, QueryNumbers DEF QueryAt, BoundAt
    <2>4. BoundAt(q)'
      BY <1>2, <1>4, <1>6, <1>8, <2>3 DEF BoundAt
    <2>5. QueueAt(q)'
      BY <1>1, <1>3, <1>8, <1>9 DEF QueryAt, QueueAt
    <2>6. StampAt(q)'
      BY <1>4, <1>5, <1>6, <1>8, <2>3 DEF StampAt
    <2>7. \A n \in Missing(q) : n \in Nat /\ n \in Due(q) /\ n \in acked
      BY <1>1, DueFacts
    <2>8. ASSUME NEW n \in Missing(q), NEW e \in found, n < e.seq PROVE n \in Replaying(q)'
      <3>1. n <= target[q]
        BY <1>4, <1>5, <2>7, <2>8
      <3> QED
        BY <1>10, <2>7, <3>1
    <2>9. OrderAt(q)'
      BY <1>6, <1>8, <1>9, <2>8 DEF OrderAt
    <2>10. ASSUME NEW n \in Missing(q) PROVE n \in Replaying(q)' \union Range(chan)
      <3>1. CASE n <= target[q]
        BY <1>10, <2>7, <3>1
      <3>2. CASE n > target[q]
        BY <1>1, <1>2, <2>7, <3>2 DEF QueryAt, FlowAt
      <3> QED
        BY <1>4, <2>7, <3>1, <3>2
    <2>11. FlowAt(q)'
      BY <1>2, <1>8, <1>9, <2>10 DEF FlowAt
    <2> QED
      BY <2>1, <2>2, <2>4, <2>5, <2>6, <2>9, <2>11 DEF QueryAt
  <1>12. wal = {} => Due(q)' = {}
    BY <1>1, <1>3, <1>9 DEF EmptyInv, Replays
  <1>13. policy = "RejectIncoming" => Due(q)' \subseteq wal
    <2> SUFFICES ASSUME policy = "RejectIncoming", NEW n \in Due(q) PROVE n \in wal
      BY <1>9
    <2>1. n \in Nat /\ n \in acked \union {sending}
      BY <1>1, DueFacts
    <2>2. CASE n <= target[q]
      BY <1>10, <2>2
    <2>3. CASE n > target[q]
      BY <1>1, <1>2, <2>1, <2>3 DEF KeptInv
    <2> QED
      BY <1>4, <2>1, <2>2, <2>3
  <1>14. clock' \in Nat /\ clock <= clock'
    BY <1>2, <1>4
  <1> QED
    BY <1>2, <1>3, <1>7, <1>8, <1>11, <1>12, <1>13, <1>14, QueryStep

LEMMA ReadWalFailsStep ==
    ASSUME IInv, NEW q \in Queries, ReadWalFails(q)
    PROVE  Inv'
  <1>1. LogType /\ QueryType /\ EmptyInv /\ QueryAt(q)
    BY TypeParts DEF IInv, Inv, QueryInv
  <1>2. /\ phase[q] = "attached"
        /\ target' = [target EXCEPT ![q] = 0]
        /\ recv' = [recv EXCEPT ![q] = WithoutOwn(q)]
        /\ handle' = [handle EXCEPT ![q] = None]
        /\ phase' = [phase EXCEPT ![q] = "error"]
        /\ UNCHANGED <<policy, wal, counter, head, sending, chan, acked, pruning>>
        /\ UNCHANGED <<clock, pq, known, ckpt, applied, failed, base>>
    BY DEF ReadWalFails, logVars
  <1>3. PhaseAt(q)
    BY <1>1 DEF QueryAt
  <1>4. Len(recv[q]) = 1 /\ ~failed[q]
    BY <1>2, <1>3 DEF PhaseAt
  <1>5. known[q]
    BY <1>2, <1>3 DEF PhaseAt
  <1>6. Len(recv'[q]) = 0
    BY <1>1, <1>2, <1>4, NoOwn DEF QueryType
  <1>7. \A p \in Queries \ {q} : Same(p)
    BY <1>1, <1>2 DEF QueryType, Same
  <1>8. /\ phase'[q] = "error" /\ pq'[q] = pq[q] /\ ckpt'[q] = ckpt[q]
        /\ applied'[q] = applied[q] /\ ~failed'[q] /\ base'[q] = base[q] /\ known'[q]
    BY <1>1, <1>2, <1>4, <1>5 DEF QueryType
  <1>9. Owed(q)' = Owed(q) /\ Missing(q)' = Missing(q) /\ Due(q)' = Due(q)
    BY <1>2, <1>8, SameDue
  <1>10. QueryAt(q)'
    <2>1. AppliedAt(q)'
      BY <1>1, <1>2, <1>8, <1>9 DEF QueryAt, AppliedAt
    <2>2. PhaseAt(q)'
      BY <1>6, <1>8 DEF PhaseAt
    <2>3. BoundAt(q)'
      BY <1>1, <1>2, <1>6, <1>8 DEF QueryAt, BoundAt
    <2>4. QueueAt(q)'
      BY <1>1, <1>4, <1>8, <1>9 DEF QueryAt, QueueAt
    <2>5. StampAt(q)' /\ OrderAt(q)' /\ FlowAt(q)'
      BY <1>8 DEF StampAt, OrderAt, FlowAt
    <2> QED
      BY <2>1, <2>2, <2>3, <2>4, <2>5 DEF QueryAt
  <1>11. wal = {} => Due(q)' = {}
    BY <1>1, <1>5, <1>9 DEF EmptyInv, Replays
  <1>12. clock' \in Nat /\ clock <= clock'
    BY <1>1, <1>2, LogNumbers
  <1> QED
    BY <1>2, <1>7, <1>8, <1>10, <1>11, <1>12, QueryStep

LEMMA SubscribeLiveStep ==
    ASSUME IInv, NEW q \in Queries, SubscribeLive(q), Races = {}
    PROVE  Inv'
  <1>1. LogType /\ QueryType /\ LogInv /\ QueryAt(q)
    BY TypeParts DEF IInv, Inv, QueryInv
  <1> DEFINE b == IF chan # <<>> THEN Head(chan) - 1 ELSE IF sending # 0 THEN sending - 1 ELSE head
  <1>2. /\ CanStart(q) /\ ~Replays(q)
        /\ known' = [known EXCEPT ![q] = TRUE]
        /\ Range(chan) \union ({sending} \ {0}) \subseteq wal
        /\ recv' = [recv EXCEPT ![q] = Append(@, NewReceiver)]
        /\ handle' = [handle EXCEPT ![q] = None]
        /\ phase' = [phase EXCEPT ![q] = "running"]
        /\ base' = [base EXCEPT ![q] = b]
        /\ UNCHANGED <<policy, wal, counter, head, sending, chan, acked, pruning>>
        /\ UNCHANGED <<clock, target, pq, ckpt, applied, failed>>
    BY DEF SubscribeLive, logVars
  <1>3. recv[q] = <<>> /\ ~failed[q] /\ pruning = 0
    BY <1>2, StartFacts
  <1>4. ckpt[q] = None /\ ~known[q]
    BY <1>2 DEF Replays
  <1>5. pq[q] = {}
    BY <1>1, <1>4 DEF QueryAt, PhaseAt
  <1>6. known'[q] /\ known \in [Queries -> BOOLEAN]
    BY <1>2, TypeParts DEF IInv, FlagType
  <1>7. \A p \in Queries \ {q} : Same(p)
    BY <1>1, <1>2, <1>6 DEF QueryType, Same
  <1>8. /\ phase'[q] = "running" /\ pq'[q] = {} /\ ckpt'[q] = None /\ handle'[q] = None
        /\ ~failed'[q] /\ base'[q] = b
    BY <1>1, <1>2, <1>3, <1>4, <1>5 DEF QueryType
  <1>9. /\ Len(recv'[q]) = 1 /\ Own(q)' = NewReceiver
        /\ Own(q)'.replay = {} /\ DOMAIN Own(q)'.live = {}
    BY <1>1, <1>2, <1>3, NewOwn
  <1>10. /\ counter \in Nat /\ head \in Nat /\ sending \in Nat /\ clock \in Nat /\ counter <= head
         /\ \A n \in acked : n \in Nat /\ n <= counter
         /\ sending # 0 => sending = counter /\ sending \notin acked
         /\ chan # <<>> => Head(chan) = chan[1] /\ 1 \in DOMAIN chan /\ chan[1] \in Nat /\ chan[1] >= 1
    <2>1. chan # <<>> => Head(chan) = chan[1] /\ 1 \in DOMAIN chan
      BY <1>1, Elements DEF LogType
    <2> QED
      BY <1>1, <2>1, LogNumbers DEF LogInv
  <1>11. ASSUME NEW n \in acked, n > b PROVE n \in Range(chan)
    <2>1. CASE chan # <<>>
      <3>1. chan[1] <= n
        BY <1>10, <1>11, <2>1
      <3> QED
        BY <1>1, <1>10, <2>1, <3>1 DEF LogInv
    <2>2. CASE chan = <<>> /\ sending # 0
      <3>1. n > sending - 1 /\ n \in Nat /\ n <= sending /\ sending \in Nat
        BY <1>10, <1>11, <2>2
      <3>2. n = sending
        BY <3>1
      <3> QED
        BY <1>10, <2>2, <3>2
    <2>3. CASE chan = <<>> /\ sending = 0
      BY <1>10, <1>11, <2>3
    <2> QED
      BY <2>1, <2>2, <2>3
  <1> HIDE DEF b
  <1>12. Due(q)' \subseteq wal
    <2> SUFFICES ASSUME NEW n \in Due(q)' PROVE n \in wal
      OBVIOUS
    <2>1. n \in acked \union {sending} /\ n > b
      BY <1>2, <1>8 DEF Due
    <2>2. CASE n \in acked
      BY <1>2, <1>11, <2>1, <2>2
    <2>3. CASE n = sending
      <3>1. b >= 0
        BY <1>10 DEF b
      <3>2. sending # 0
        BY <2>1, <2>3, <3>1, <1>10 DEF b
      <3> QED
        BY <1>2, <2>3, <3>2
    <2> QED
      BY <2>1, <2>2, <2>3
  <1>13. QueryAt(q)'
    <2>1. AppliedAt(q)'
      <3>1. \A n \in Owed(q)' : n \in Nat
        BY <1>2, <1>10 DEF Owed
      <3>2. \A n \in Nat : ~(n <= None)
        BY DEF None
      <3> QED
        BY <1>8, <3>1, <3>2 DEF AppliedAt
    <2>2. PhaseAt(q)'
      BY <1>6, <1>8, <1>9 DEF PhaseAt
    <2>3. BoundAt(q)' /\ QueueAt(q)' /\ StampAt(q)' /\ OrderAt(q)'
      BY <1>8, <1>9 DEF BoundAt, QueueAt, StampAt, OrderAt
    <2>4. \A n \in Missing(q)' : n \in acked /\ n > b
      BY <1>2, <1>8 DEF Missing, Owed
    <2>5. FlowAt(q)'
      BY <1>2, <1>8, <1>11, <2>4 DEF FlowAt
    <2> QED
      BY <2>1, <2>2, <2>3, <2>5 DEF QueryAt
  <1>14. clock' \in Nat /\ clock <= clock'
    BY <1>2, <1>10
  <1> QED
    BY <1>2, <1>3, <1>7, <1>8, <1>12, <1>13, <1>14, QueryStep

----------------------------------------------------------------------------
(* The steps of a query.                                                   *)

\* Who forwards: a query with one receiver, which is not subscribing.
LEMMA ForwardFacts ==
    ASSUME IInv, NEW q \in Queries, Forward(q)
    PROVE  /\ Len(recv[q]) = 1 /\ phase[q] \in {"running", "error"}
           /\ Own(q) # NewReceiver
           /\ pq' = [pq EXCEPT ![q] = @ \union {Received(Own(q))}]
           /\ Len(recv'[q]) = 1 /\ Own(q)' = Rest(Own(q))
           /\ \A p \in Queries \ {q} : recv'[p] = recv[p]
  <1>1. PICK i \in DOMAIN recv[q] :
            /\ phase[q] = "attached" => i < Len(recv[q])
            /\ recv[q][i] # NewReceiver
            /\ pq' = [pq EXCEPT ![q] = @ \union {Received(recv[q][i])}]
            /\ recv' = [recv EXCEPT ![q][i] = Rest(@)]
    BY DEF Forward
  <1>2. QueryType /\ PhaseAt(q) /\ recv[q] \in Seq(Receiver)
    BY TypeParts DEF IInv, Inv, QueryInv, QueryAt, QueryType
  <1>3. DOMAIN recv[q] = 1..Len(recv[q]) /\ Len(recv[q]) \in Nat
    BY <1>2, Elements
  <1>4. Len(recv[q]) # 0
    BY <1>3
  <1>5. Len(recv[q]) = 1 /\ phase[q] \in {"attached", "running", "error"}
    BY <1>2, <1>4 DEF PhaseAt
  <1>6. i = 1
    BY <1>3, <1>5
  <1>7. phase[q] # "attached"
    BY <1>1, <1>5, <1>6
  <1>8. recv[q] = <<Own(q)>> /\ recv[q][1] = Own(q)
    BY <1>2, <1>5, OwnType DEF Own
  <1>9. recv'[q] = [recv[q] EXCEPT ![1] = Rest(@)] /\ \A p \in Queries \ {q} : recv'[p] = recv[p]
    BY <1>1, <1>2, <1>6 DEF QueryType
  <1>10. recv'[q] = <<Rest(Own(q))>>
    BY <1>8, <1>9
  <1>11. Len(recv'[q]) = 1 /\ recv'[q][1] = Rest(Own(q))
    BY <1>10
  <1> QED
    BY <1>1, <1>5, <1>6, <1>7, <1>8, <1>9, <1>11 DEF Own

\* What a forwarder leaves behind it: the next change x is in the queue, and
\* the rest of the receiver is as it was.
LEMMA RestFacts ==
    ASSUME NEW r \in Receiver, r # NewReceiver
    PROVE  LET x == Received(r)
               k == Rest(r).live
           IN /\ x \in r.replay \/ (r.replay = {} /\ 1 \in DOMAIN r.live /\ x = r.live[1])
              /\ \A e \in Rest(r).replay : e \in r.replay /\ e # x
              /\ \A e \in r.replay : e = x \/ e \in Rest(r).replay
              /\ x \in r.replay => k = r.live /\ \A e \in r.replay : x.seq <= e.seq
              /\ r.replay = {} =>
                    /\ Len(r.live) \in Nat /\ DOMAIN r.live = 1..Len(r.live) /\ DOMAIN k = 1..(Len(r.live) - 1)
                    /\ \A i \in DOMAIN k : i + 1 \in DOMAIN r.live /\ k[i] = r.live[i + 1]
  <1>1. \/ /\ r.replay # {} /\ Received(r) \in r.replay
           /\ \A f \in r.replay : Received(r).seq <= f.seq
           /\ Rest(r).replay = r.replay \ {Received(r)} /\ Rest(r).live = r.live
        \/ /\ r.replay = {} /\ r.live # <<>> /\ Received(r) = Head(r.live)
           /\ Rest(r).replay = {} /\ Rest(r).live = Tail(r.live)
    BY ReceivedFacts
  <1>2. CASE r.replay # {}
    BY <1>1, <1>2
  <1>3. CASE r.replay = {}
    <2>1. r.live # <<>> /\ r.live \in Seq(Event) /\ Received(r) = Head(r.live)
      BY <1>1, <1>3 DEF Receiver
    <2>2. /\ Len(r.live) \in Nat /\ DOMAIN r.live = 1..Len(r.live) /\ DOMAIN Tail(r.live) = 1..(Len(r.live) - 1)
          /\ Head(r.live) = r.live[1] /\ 1 \in DOMAIN r.live
          /\ \A i \in DOMAIN Tail(r.live) : i + 1 \in DOMAIN r.live /\ Tail(r.live)[i] = r.live[i + 1]
      BY <2>1, HeadTail
    <2> QED
      BY <1>1, <1>3, <2>1, <2>2
  <1> QED
    BY <1>2, <1>3

LEMMA ForwardStep ==
    ASSUME IInv, NEW q \in Queries, Forward(q)
    PROVE  Inv'
  <1>1. LogType /\ QueryType /\ PruneInv /\ EmptyInv /\ KeptInv /\ QueryAt(q)
    BY TypeParts DEF IInv, Inv, QueryInv
  <1>2. /\ AppliedAt(q) /\ PhaseAt(q) /\ BoundAt(q)
        /\ QueueAt(q) /\ StampAt(q) /\ OrderAt(q) /\ FlowAt(q)
    BY <1>1 DEF QueryAt
  <1>3. /\ UNCHANGED <<policy, wal, counter, head, sending, chan, acked, pruning>>
        /\ UNCHANGED <<clock, phase, target, handle, known, ckpt, applied, failed, base>>
    BY DEF Forward, logVars
  <1> DEFINE r == Own(q)
             x == Received(r)
             l == r.live
             k == Own(q)'.live
             R == Own(q)'.replay
  <1>4. /\ Len(recv[q]) = 1 /\ phase[q] \in {"running", "error"} /\ r # NewReceiver
        /\ pq' = [pq EXCEPT ![q] = @ \union {x}]
        /\ Len(recv'[q]) = 1 /\ Own(q)' = Rest(r)
        /\ \A p \in Queries \ {q} : recv'[p] = recv[p]
    BY ForwardFacts
  <1>5. /\ r \in Receiver /\ r.replay \subseteq Event /\ l \in Seq(Event)
        /\ \A e \in r.replay : e \in Event /\ e.seq \in Nat /\ e.ts \in Nat
        /\ DOMAIN l = 1..Len(l) /\ Len(l) \in Nat
        /\ \A i \in DOMAIN l : l[i] \in Event /\ l[i].seq \in Nat /\ l[i].ts \in Nat
    BY <1>1, <1>4, OwnType
  <1>6. /\ x \in r.replay \/ (r.replay = {} /\ 1 \in DOMAIN l /\ x = l[1])
        /\ \A e \in R : e \in r.replay /\ e # x
        /\ \A e \in r.replay : e = x \/ e \in R
        /\ x \in r.replay => k = l /\ \A e \in r.replay : x.seq <= e.seq
        /\ r.replay = {} => /\ DOMAIN k = 1..(Len(l) - 1)
                            /\ \A i \in DOMAIN k : i + 1 \in DOMAIN l /\ k[i] = l[i + 1]
    BY <1>4, <1>5, RestFacts
  <1>7. pq'[q] = pq[q] \union {x} /\ \A p \in Queries \ {q} : pq'[p] = pq[p]
    BY <1>1, <1>4 DEF QueryType
  <1>8. \A p \in Queries \ {q} : Same(p)
    BY <1>3, <1>4, <1>7 DEF Same
  <1>9. /\ phase'[q] = phase[q] /\ handle'[q] = handle[q] /\ ckpt'[q] = ckpt[q] /\ base'[q] = base[q]
        /\ applied'[q] = applied[q] /\ (known'[q] <=> known[q]) /\ (failed'[q] <=> failed[q])
    BY <1>3
  <1>10. /\ Owed(q)' = Owed(q) /\ Missing(q)' = Missing(q) /\ Due(q)' = Due(q)
         /\ Resume(q)' = Resume(q) /\ (Replays(q)' <=> Replays(q))
    BY <1>3, <1>9, SameDue DEF Resume, Replays
  <1>11. /\ \A e \in pq[q] : e.seq \in Nat /\ e.ts \in Nat /\ e.seq <= counter /\ e.ts <= clock
         /\ \A e \in r.replay : e.seq <= counter /\ e.ts <= clock
         /\ \A i \in DOMAIN l : l[i].seq <= counter /\ l[i].ts <= clock
    BY <1>1, <1>2, <1>4, QueryNumbers DEF BoundAt
  <1>12. x.seq \in Nat /\ x.ts \in Nat /\ x.seq <= counter /\ x.ts <= clock
    <2> HIDE DEF r, x, l, k, R
    <2> QED
      BY <1>5, <1>6, <1>11
  <1>13. BoundAt(q)'
    <2>1. /\ \A e \in R : e.seq <= counter /\ e.ts <= clock
          /\ \A i \in DOMAIN k : k[i].seq <= counter /\ k[i].ts <= clock
      <3> HIDE DEF r, x, l, k, R
      <3> QED
        BY <1>6, <1>11
    <2> HIDE DEF x
    <2> QED
      BY <1>3, <1>7, <1>11, <1>12, <2>1 DEF BoundAt
  <1>14. AppliedAt(q)'
    BY <1>2, <1>3, <1>9, <1>10 DEF AppliedAt
  <1>15. PhaseAt(q)'
    <2>1. known[q]
      BY <1>2, <1>4 DEF PhaseAt
    <2>2. phase'[q] # "attached" /\ Len(recv[q]) = Len(recv'[q])
      BY <1>4, <1>9
    <2> QED
      BY <1>2, <1>9, <1>10, <2>1, <2>2 DEF PhaseAt
  <1>16. ASSUME phase[q] = "running"
         PROVE  QueueAt(q)' /\ StampAt(q)' /\ OrderAt(q)' /\ FlowAt(q)'
    <2>1. /\ \A e \in pq[q], f \in r.replay : e.ts <= f.ts
          /\ \A e \in pq[q], i \in DOMAIN l : e.ts <= l[i].ts
          /\ \A e, f \in r.replay : e.ts <= f.ts
          /\ \A e \in r.replay, i \in DOMAIN l : e.ts <= l[i].ts
          /\ \A i, j \in DOMAIN l : i < j => l[i].ts <= l[j].ts
      BY <1>2, <1>16 DEF StampAt
    <2>2. ASSUME NEW n \in Missing(q)
          PROVE  /\ n \in Nat
                 /\ n \in Queued(q) \union Replaying(q) \union Live(q) \union Range(chan)
                 /\ \A e \in r.replay : n < e.seq => n \in Queued(q) \union Replaying(q)
                 /\ \A i \in DOMAIN l : n < l[i].seq =>
                      \/ n \in Queued(q) \union Replaying(q)
                      \/ \E j \in DOMAIN l : j < i /\ l[j].seq = n
      BY <1>1, <1>2, <1>16, DueFacts DEF OrderAt, FlowAt
    <2>3. \A e \in pq[q] : \A n \in Missing(q) :
             n < e.seq => \E f \in pq[q] : f.seq = n /\ Before(f, e)
      <3>1. ~failed[q]
        BY <1>16, RunningFacts
      <3> QED
        BY <1>2, <3>1 DEF QueueAt
    <2>4. /\ Queued(q) = {e.seq : e \in pq[q]} /\ Queued(q)' = Queued(q) \union {x.seq}
          /\ Replaying(q) = {e.seq : e \in r.replay} /\ Replaying(q)' = {e.seq : e \in R}
          /\ Live(q) = {l[i].seq : i \in DOMAIN l} /\ Live(q)' = {k[i].seq : i \in DOMAIN k}
      <3>1. Queued(q)' = {e.seq : e \in pq[q] \union {x}}
        BY <1>7 DEF Queued
      <3>2. {e.seq : e \in pq[q] \union {x}} = {e.seq : e \in pq[q]} \union {x.seq}
        <4> HIDE DEF x
        <4> QED
          OBVIOUS
      <3> QED
        BY <3>1, <3>2 DEF Queued, Replaying, Live
    <2> DEFINE Q == Queued(q)
               P == Replaying(q)
               Q1 == Queued(q)'
               P1 == Replaying(q)'
    <2>5. Q \subseteq Q1 /\ x.seq \in Q1 /\ P \subseteq P1 \union {x.seq}
      <3>1. ASSUME NEW e \in r.replay PROVE e.seq \in P1 \union {x.seq}
        <4> HIDE DEF r, x, l, k, R
        <4> QED
          BY <1>6, <2>4
      <3> QED
        BY <2>4, <3>1
    <2> HIDE DEF r, x, l, k, R
    <2>6. ASSUME NEW n \in Missing(q), n < x.seq PROVE \E f \in pq[q] : f.seq = n /\ Before(f, x)
      <3>1. n \in Q
        <4>1. CASE x \in r.replay
          <5>1. n \notin P
            BY <1>5, <1>6, <2>2, <2>4, <2>6, <4>1
          <5> QED
            BY <2>2, <2>6, <4>1, <5>1
        <4>2. CASE r.replay = {} /\ 1 \in DOMAIN l /\ x = l[1]
          <5>1. P = {} /\ ~ \E j \in DOMAIN l : j < 1
            BY <1>5, <2>4, <4>2
          <5> QED
            BY <2>2, <2>6, <4>2, <5>1
        <4> QED
          BY <1>6, <4>1, <4>2
      <3>2. PICK f \in pq[q] : f.seq = n
        BY <2>4, <3>1
      <3>3. f.ts <= x.ts
        BY <1>6, <2>1
      <3> QED
        BY <1>11, <1>12, <2>6, <3>2, <3>3 DEF Before
    <2>7. QueueAt(q)'
      <3>1. ASSUME NEW e \in pq[q] \union {x}, NEW n \in Missing(q), n < e.seq
            PROVE  \E f \in pq[q] \union {x} : f.seq = n /\ Before(f, e)
        BY <2>3, <2>6, <3>1
      <3> QED
        BY <1>7, <1>10, <3>1 DEF QueueAt
    <2>8. /\ \A f \in R : x.ts <= f.ts
          /\ \A i \in DOMAIN k : x.ts <= k[i].ts
          /\ \A e \in pq[q] \union R, i \in DOMAIN k : e.ts <= k[i].ts
          /\ \A i, j \in DOMAIN k : i < j => k[i].ts <= k[j].ts
      <3>1. CASE x \in r.replay
        BY <1>6, <2>1, <3>1
      <3>2. CASE r.replay = {} /\ 1 \in DOMAIN l /\ x = l[1]
        <4>1. R = {} /\ \A i \in DOMAIN k : i \in Nat /\ i >= 1 /\ i + 1 \in DOMAIN l /\ k[i] = l[i + 1]
          BY <1>5, <1>6, <3>2
        <4>2. \A i \in DOMAIN k : 1 < i + 1 /\ x.ts <= k[i].ts
          BY <2>1, <3>2, <4>1
        <4>3. \A i, j \in DOMAIN k : i < j => k[i].ts <= k[j].ts
          BY <2>1, <4>1
        <4> QED
          BY <2>1, <4>1, <4>2, <4>3
      <3> QED
        BY <1>6, <3>1, <3>2
    <2>9. StampAt(q)'
      <3>1. \A e \in pq[q] \union {x}, f \in R : e.ts <= f.ts
        BY <1>6, <2>1, <2>8
      <3>2. \A e, f \in R : e.ts <= f.ts
        BY <1>6, <2>1
      <3> QED
        BY <1>7, <2>8, <3>1, <3>2 DEF StampAt, k, R
    <2>10. ASSUME NEW n \in Missing(q), NEW i \in DOMAIN k, n < k[i].seq
           PROVE  \/ n \in Q1 \union P1
                  \/ \E j \in DOMAIN k : j < i /\ k[j].seq = n
      <3>1. CASE x \in r.replay
        BY <1>6, <2>2, <2>5, <2>10, <3>1
      <3>2. CASE r.replay = {} /\ 1 \in DOMAIN l /\ x = l[1]
        <4>1. P = {} /\ i \in Nat /\ i + 1 \in DOMAIN l /\ k[i] = l[i + 1]
          BY <1>5, <1>6, <2>4, <3>2
        <4>2. n \in Q \/ \E j \in DOMAIN l : j < i + 1 /\ l[j].seq = n
          BY <2>2, <2>10, <4>1
        <4>3. CASE n \in Q
          BY <2>5, <4>3
        <4>4. CASE \E j \in DOMAIN l : j < i + 1 /\ l[j].seq = n
          <5>1. PICK j \in DOMAIN l : j < i + 1 /\ l[j].seq = n
            BY <4>4
          <5>2. CASE j = 1
            BY <2>5, <3>2, <5>1, <5>2
          <5>3. CASE j # 1
            <6>1. j - 1 \in DOMAIN k /\ j - 1 < i
              BY <1>5, <1>6, <3>2, <4>1, <5>1, <5>3
            <6>2. k[j - 1] = l[j]
              BY <1>5, <1>6, <3>2, <6>1
            <6> QED
              BY <5>1, <6>1, <6>2
          <5> QED
            BY <5>2, <5>3
        <4> QED
          BY <4>2, <4>3, <4>4
      <3> QED
        BY <1>6, <3>1, <3>2
    <2>11. OrderAt(q)'
      <3>1. ASSUME NEW n \in Missing(q), NEW e \in R, n < e.seq PROVE n \in Q1 \union P1
        BY <1>6, <2>2, <2>5, <3>1
      <3> QED
        BY <1>10, <2>10, <3>1 DEF OrderAt, k, R
    <2>12. FlowAt(q)'
      <3>1. ASSUME NEW n \in Missing(q) PROVE n \in Q1 \union P1 \union Live(q)' \union Range(chan)
        <4>1. CASE n \in Live(q)
          <5>1. PICK i \in DOMAIN l : l[i].seq = n
            BY <2>4, <4>1
          <5>2. CASE x \in r.replay
            BY <1>6, <2>4, <5>1, <5>2
          <5>3. CASE r.replay = {} /\ 1 \in DOMAIN l /\ x = l[1]
            <6>1. CASE i = 1
              BY <2>5, <5>1, <5>3, <6>1
            <6>2. CASE i # 1
              <7>1. i - 1 \in DOMAIN k
                BY <1>5, <1>6, <5>1, <5>3, <6>2
              <7>2. k[i - 1] = l[i]
                BY <1>5, <1>6, <5>3, <7>1
              <7> QED
                BY <2>4, <5>1, <7>1, <7>2
            <6> QED
              BY <6>1, <6>2
          <5> QED
            BY <1>6, <5>2, <5>3
        <4> QED
          BY <2>2, <2>5, <4>1
      <3> QED
        BY <1>3, <1>9, <1>10, <1>16, <3>1 DEF FlowAt
    <2> QED
      BY <2>7, <2>9, <2>11, <2>12
  <1>17. ASSUME phase[q] # "running"
         PROVE  QueueAt(q)' /\ StampAt(q)' /\ OrderAt(q)' /\ FlowAt(q)'
    <2>1. failed[q] /\ phase[q] = "error"
      BY <1>2, <1>4, <1>17 DEF PhaseAt
    <2> QED
      BY <1>9, <2>1 DEF QueueAt, StampAt, OrderAt, FlowAt
  <1>18. QueryAt(q)'
    BY <1>13, <1>14, <1>15, <1>16, <1>17 DEF QueryAt
  <1>19. clock' \in Nat /\ clock <= clock'
    BY <1>1, <1>3, LogNumbers
  <1>20. /\ pruning # 0 => /\ phase'[q] # "attached"
                           /\ phase'[q] = "running" => phase[q] = "running" /\ Due(q)' \subseteq Due(q)
         /\ wal = {} /\ Replays(q)' => Due(q)' = {}
         /\ policy = "RejectIncoming" =>
              /\ phase'[q] = "running" => Due(q)' \subseteq wal
              /\ phase'[q] = "attached" => \A n \in acked \union {sending} : n > target'[q] => n \in wal
    BY <1>1, <1>4, <1>9, <1>10 DEF EmptyInv, KeptInv
  <1> QED
    BY <1>3, <1>8, <1>18, <1>19, <1>20, QueryStep

\* What a query still lacks once its processor has taken the next change e:
\* nothing that it did not lack before, and not e.
LEMMA ProcessFacts ==
    ASSUME IInv, NEW q \in Queries, Process(q)
    PROVE  LET e == NextEvent(q)
           IN /\ phase[q] = "running" /\ e \in pq[q]
              /\ pq' = [pq EXCEPT ![q] = @ \ {e}]
              /\ Missing(q)' \subseteq Missing(q) /\ e.seq \notin Missing(q)'
              /\ Due(q)' \subseteq Due(q)
              /\ AppliedAt(q)'
              /\ handle'[q] # None => handle'[q] = Resume(q)'
              /\ \A p \in Queries \ {q} : /\ ckpt'[p] = ckpt[p] /\ applied'[p] = applied[p]
                                          /\ handle'[p] = handle[p]
  <1>1. LogType /\ QueryType /\ QueryAt(q)
    BY TypeParts DEF IInv, Inv, QueryInv
  <1>2. AppliedAt(q) /\ PhaseAt(q) /\ BoundAt(q) /\ QueueAt(q)
    BY <1>1 DEF QueryAt
  <1> DEFINE e == NextEvent(q)
  <1>3. /\ phase[q] = "running" /\ pq[q] # {} /\ pq' = [pq EXCEPT ![q] = @ \ {e}]
        /\ UNCHANGED <<counter, sending, acked, phase, base, failed>>
        /\ IF ShouldSkip(q, e.seq)
           THEN UNCHANGED <<ckpt, applied, handle>>
           ELSE /\ ckpt' = [ckpt EXCEPT ![q] = e.seq]
                /\ applied' = [applied EXCEPT ![q] = @ \union {e.seq}]
                /\ handle' = [handle EXCEPT ![q] = e.seq]
    BY DEF Process, logVars
  <1>4. e \in pq[q] /\ \A f \in pq[q] \ {e} : Before(e, f)
    BY <1>1, <1>3, NextEventFacts DEF QueryType
  <1> HIDE DEF e
  <1>5. e.seq \in Nat /\ e.ts \in Nat /\ e.seq >= 1 /\ e.seq <= counter /\ ckpt[q] \in Int
    BY <1>1, <1>2, <1>4, QueryNumbers DEF BoundAt
  <1>6. \A n \in acked \union {sending} : n \in Nat
    BY <1>1, LogNumbers
  <1>7. CASE ShouldSkip(q, e.seq)
    <2>1. e.seq <= ckpt[q] /\ UNCHANGED <<ckpt, applied, handle>>
      BY <1>3, <1>7 DEF ShouldSkip
    <2>2. /\ Owed(q)' = Owed(q) /\ Missing(q)' = Missing(q) /\ Due(q)' = Due(q)
          /\ Resume(q)' = Resume(q)
      BY <1>3, <2>1 DEF Owed, Missing, Due, Resume
    <2>3. e.seq \notin Missing(q)
      BY <1>5, <2>1 DEF Missing
    <2>4. AppliedAt(q)'
      BY <1>2, <1>3, <2>1, <2>2 DEF AppliedAt
    <2>5. handle'[q] # None => handle'[q] = Resume(q)'
      BY <1>2, <1>3, <2>1, <2>2 DEF PhaseAt
    <2> QED
      BY <1>3, <1>4, <2>1, <2>2, <2>3, <2>4, <2>5 DEF e
  <1>8. CASE ~ShouldSkip(q, e.seq)
    <2>1. /\ ckpt'[q] = e.seq /\ applied'[q] = applied[q] \union {e.seq} /\ handle'[q] = e.seq
          /\ \A p \in Queries \ {q} : /\ ckpt'[p] = ckpt[p] /\ applied'[p] = applied[p]
                                      /\ handle'[p] = handle[p]
      BY <1>1, <1>3, <1>8 DEF QueryType
    <2>2. e.seq > ckpt[q]
      BY <1>5, <1>8 DEF ShouldSkip, None
    <2>3. Owed(q)' = Owed(q) /\ \A n \in Owed(q) : n \in Nat
      BY <1>3, <1>6 DEF Owed
    <2>4. Missing(q)' \subseteq Missing(q) /\ e.seq \notin Missing(q)'
      BY <1>5, <2>1, <2>2, <2>3 DEF Missing
    <2>5. Due(q)' \subseteq Due(q)
      BY <1>3, <1>5, <1>6, <2>1, <2>2 DEF Due
    <2>6. ASSUME NEW n \in Owed(q), n <= e.seq, n # e.seq PROVE n \in applied[q]
      <3>1. CASE n <= ckpt[q]
        BY <1>2, <3>1 DEF AppliedAt
      <3>2. CASE n > ckpt[q]
        <4>1. n \in Missing(q) /\ n < e.seq
          BY <1>5, <2>3, <2>6, <3>2 DEF Missing
        <4>2. ~failed[q]
          BY <1>3, RunningFacts
        <4>3. PICK f \in pq[q] : f.seq = n /\ Before(f, e)
          BY <1>2, <1>4, <4>1, <4>2 DEF QueueAt
        <4>4. f # e /\ f.seq \in Nat /\ f.ts \in Nat
          BY <1>1, <1>5, <4>1, <4>3, QueryNumbers
        <4>5. Before(e, f)
          BY <1>4, <4>4
        <4> QED
          BY <1>5, <4>3, <4>4, <4>5 DEF Before
      <3> QED
        BY <1>5, <2>3, <3>1, <3>2
    <2>7. AppliedAt(q)'
      <3>1. ckpt'[q] \in applied'[q] /\ ckpt'[q] <= counter'
        BY <1>3, <1>5, <2>1
      <3>2. \A n \in Owed(q)' : n <= ckpt'[q] => n \in applied'[q]
        BY <2>1, <2>3, <2>6
      <3> QED
        BY <3>1, <3>2 DEF AppliedAt
    <2>8. handle'[q] = Resume(q)'
      BY <1>5, <2>1 DEF Resume, None
    <2> QED
      BY <1>3, <1>4, <2>1, <2>4, <2>5, <2>7, <2>8 DEF e
  <1> QED
    BY <1>7, <1>8

LEMMA ProcessStep ==
    ASSUME IInv, NEW q \in Queries, Process(q)
    PROVE  Inv'
  <1>1. LogType /\ QueryType /\ EmptyInv /\ KeptInv
    BY TypeParts DEF IInv, Inv
  <1> DEFINE e == NextEvent(q)
  <1>2. /\ phase[q] = "running" /\ e \in pq[q]
        /\ pq' = [pq EXCEPT ![q] = @ \ {e}]
        /\ Missing(q)' \subseteq Missing(q) /\ e.seq \notin Missing(q)'
        /\ Due(q)' \subseteq Due(q)
        /\ AppliedAt(q)'
        /\ handle'[q] # None => handle'[q] = Resume(q)'
        /\ \A p \in Queries \ {q} : /\ ckpt'[p] = ckpt[p] /\ applied'[p] = applied[p]
                                    /\ handle'[p] = handle[p]
    BY ProcessFacts
  <1> HIDE DEF e
  <1>3. /\ UNCHANGED <<policy, wal, counter, head, sending, chan, acked, pruning>>
        /\ UNCHANGED <<clock, phase, target, recv, known, failed, base>>
    BY DEF Process, logVars
  <1>4. /\ Len(recv[q]) = 1 /\ ~failed[q] /\ known[q]
        /\ BoundAt(q) /\ QueueAt(q) /\ StampAt(q) /\ OrderAt(q) /\ FlowAt(q)
    BY <1>2, RunningFacts
  <1>5. /\ pq'[q] = pq[q] \ {e} /\ \A p \in Queries \ {q} : pq'[p] = pq[p]
    BY <1>1, <1>2 DEF QueryType
  <1>6. \A p \in Queries \ {q} : Same(p)
    BY <1>2, <1>3, <1>5 DEF Same
  <1>7. /\ phase'[q] = "running" /\ recv'[q] = recv[q] /\ Own(q)' = Own(q) /\ Replaying(q)' = Replaying(q)
        /\ Live(q)' = Live(q)
    BY <1>2, <1>3 DEF Own, Replaying, Live
  <1>8. ASSUME NEW n \in Missing(q)', n \in Queued(q) PROVE n \in Queued(q)'
    <2>1. PICK f \in pq[q] : f.seq = n
      BY <1>8 DEF Queued
    <2>2. f \in pq'[q]
      BY <1>2, <1>5, <1>8, <2>1
    <2> QED
      BY <2>1, <2>2 DEF Queued
  <1>9. PhaseAt(q)'
    <2>1. Len(recv'[q]) = 1 /\ ~failed'[q] /\ known'[q]
      BY <1>3, <1>4
    <2> QED
      BY <1>2, <1>7, <2>1 DEF PhaseAt
  <1>10. BoundAt(q)'
    BY <1>3, <1>4, <1>5, <1>7 DEF BoundAt
  <1>11. QueueAt(q)'
    <2>1. ASSUME NEW g \in pq'[q], NEW n \in Missing(q)', n < g.seq
          PROVE  \E f \in pq'[q] : f.seq = n /\ Before(f, g)
      <3>1. PICK f \in pq[q] : f.seq = n /\ Before(f, g)
        BY <1>2, <1>4, <1>5, <2>1 DEF QueueAt
      <3>2. f \in pq'[q]
        BY <1>2, <1>5, <2>1, <3>1
      <3> QED
        BY <3>1, <3>2
    <2> QED
      BY <2>1 DEF QueueAt
  <1>12. StampAt(q)'
    BY <1>2, <1>4, <1>5, <1>7 DEF StampAt
  <1>13. OrderAt(q)'
    <2>1. ASSUME NEW n \in Missing(q)'
          PROVE  /\ \A f \in Own(q).replay : n < f.seq => n \in Queued(q)' \union Replaying(q)
                 /\ \A i \in DOMAIN Own(q).live : n < Own(q).live[i].seq =>
                       \/ n \in Queued(q)' \union Replaying(q)
                       \/ \E j \in DOMAIN Own(q).live : j < i /\ Own(q).live[j].seq = n
      <3>1. n \in Missing(q) /\ (n \in Queued(q) => n \in Queued(q)')
        BY <1>2, <1>8, <2>1
      <3> QED
        BY <1>2, <1>4, <3>1 DEF OrderAt
    <2> QED
      BY <1>7, <2>1 DEF OrderAt
  <1>14. FlowAt(q)'
    <2>1. ASSUME NEW n \in Missing(q)'
          PROVE  n \in Queued(q)' \union Replaying(q) \union Live(q) \union Range(chan)
      <3>1. n \in Missing(q) /\ (n \in Queued(q) => n \in Queued(q)')
        BY <1>2, <1>8, <2>1
      <3> QED
        BY <1>2, <1>4, <3>1 DEF FlowAt
    <2> QED
      BY <1>3, <1>7, <2>1 DEF FlowAt
  <1>15. QueryAt(q)'
    BY <1>2, <1>9, <1>10, <1>11, <1>12, <1>13, <1>14 DEF QueryAt
  <1>16. clock' \in Nat /\ clock <= clock'
    BY <1>1, <1>3, LogNumbers
  <1>17. wal = {} => Due(q)' = {}
    BY <1>1, <1>2, <1>4 DEF EmptyInv, Replays
  <1>18. policy = "RejectIncoming" => Due(q)' \subseteq wal
    BY <1>1, <1>2 DEF KeptInv
  <1> QED
    BY <1>2, <1>3, <1>6, <1>7, <1>15, <1>16, <1>17, <1>18, QueryStep

LEMMA ProcessFailsStep ==
    ASSUME IInv, NEW q \in Queries, ProcessFails(q)
    PROVE  Inv'
  <1>1. FlagType /\ LogType /\ QueryType /\ EmptyInv
    BY TypeParts DEF IInv, Inv
  <1> DEFINE e == NextEvent(q)
  <1>2. /\ phase[q] = "running"
        /\ pq' = [pq EXCEPT ![q] = @ \ {e}]
        /\ phase' = [phase EXCEPT ![q] = "error"]
        /\ handle' = [handle EXCEPT ![q] = None]
        /\ failed' = [failed EXCEPT ![q] = TRUE]
        /\ UNCHANGED <<policy, wal, counter, head, sending, chan, acked, pruning>>
        /\ UNCHANGED <<clock, target, recv, known, ckpt, applied, base>>
    BY DEF ProcessFails, logVars
  <1> HIDE DEF e
  <1>3. Len(recv[q]) = 1 /\ known[q] /\ AppliedAt(q) /\ BoundAt(q)
    BY <1>2, RunningFacts
  <1>4. failed'[q] /\ \A p \in Queries \ {q} : failed'[p] = failed[p]
    BY <1>1, <1>2 DEF FlagType
  <1>5. \A p \in Queries \ {q} : Same(p)
    BY <1>1, <1>2, <1>4 DEF QueryType, Same
  <1>6. /\ phase'[q] = "error" /\ pq'[q] \subseteq pq[q] /\ ckpt'[q] = ckpt[q] /\ base'[q] = base[q]
        /\ applied'[q] = applied[q] /\ known'[q] /\ Len(recv'[q]) = 1 /\ Own(q)' = Own(q)
    BY <1>1, <1>2, <1>3 DEF QueryType, Own
  <1>7. Owed(q)' = Owed(q) /\ Due(q)' = Due(q)
    BY <1>2, <1>6, SameDue
  <1>8. QueryAt(q)'
    <2>1. AppliedAt(q)'
      BY <1>2, <1>3, <1>6, <1>7 DEF AppliedAt
    <2>2. PhaseAt(q)'
      BY <1>4, <1>6 DEF PhaseAt
    <2>3. BoundAt(q)'
      BY <1>2, <1>3, <1>6 DEF BoundAt
    <2>4. QueueAt(q)' /\ StampAt(q)' /\ OrderAt(q)' /\ FlowAt(q)'
      BY <1>4, <1>6 DEF QueueAt, StampAt, OrderAt, FlowAt
    <2> QED
      BY <2>1, <2>2, <2>3, <2>4 DEF QueryAt
  <1>9. clock' \in Nat /\ clock <= clock'
    BY <1>1, <1>2, LogNumbers
  <1>10. wal = {} => Due(q)' = {}
    BY <1>1, <1>3, <1>7 DEF EmptyInv, Replays
  <1> QED
    BY <1>2, <1>5, <1>6, <1>8, <1>9, <1>10, QueryStep

LEMMA StopStep ==
    ASSUME IInv, NEW q \in Queries, Stop(q)
    PROVE  Inv'
  <1>1. LogType /\ QueryType /\ EmptyInv /\ QueryAt(q)
    BY TypeParts DEF IInv, Inv, QueryInv
  <1>2. /\ phase[q] \in {"running", "error"}
        /\ phase' = [phase EXCEPT ![q] = "idle"]
        /\ recv' = [recv EXCEPT ![q] = IF phase[q] = "running" \/ failed[q] THEN WithoutOwn(q) ELSE @]
        /\ handle' = [handle EXCEPT ![q] = None]
        /\ UNCHANGED <<policy, wal, counter, head, sending, chan, acked, pruning>>
        /\ UNCHANGED <<clock, target, pq, known, ckpt, applied, failed, base>>
    BY DEF Stop, logVars
  <1>3. PhaseAt(q)
    BY <1>1 DEF QueryAt
  <1>4. Len(recv'[q]) = 0
    <2>1. CASE phase[q] = "running" \/ failed[q]
      <3>1. Len(recv[q]) = 1
        BY <1>2, <1>3, <2>1 DEF PhaseAt
      <3> QED
        BY <1>1, <1>2, <2>1, <3>1, NoOwn DEF QueryType
    <2>2. CASE ~(phase[q] = "running" \/ failed[q])
      <3>1. Len(recv[q]) = 0
        BY <1>2, <1>3, <2>2 DEF PhaseAt
      <3> QED
        BY <1>1, <1>2, <2>2, <3>1 DEF QueryType
    <2> QED
      BY <2>1, <2>2
  <1>5. known[q]
    BY <1>2, <1>3 DEF PhaseAt
  <1>6. \A p \in Queries \ {q} : Same(p)
    BY <1>1, <1>2 DEF QueryType, Same
  <1>7. /\ phase'[q] = "idle" /\ pq'[q] = pq[q] /\ ckpt'[q] = ckpt[q] /\ base'[q] = base[q]
        /\ applied'[q] = applied[q] /\ known'[q] /\ (failed'[q] <=> failed[q])
    BY <1>1, <1>2, <1>5 DEF QueryType
  <1>8. Owed(q)' = Owed(q) /\ Missing(q)' = Missing(q) /\ Due(q)' = Due(q)
    BY <1>2, <1>7, SameDue
  <1>9. QueryAt(q)'
    <2>1. AppliedAt(q)'
      BY <1>1, <1>2, <1>7, <1>8 DEF QueryAt, AppliedAt
    <2>2. PhaseAt(q)'
      BY <1>4, <1>7 DEF PhaseAt
    <2>3. BoundAt(q)'
      BY <1>1, <1>2, <1>4, <1>7 DEF QueryAt, BoundAt
    <2>4. QueueAt(q)'
      BY <1>1, <1>7, <1>8 DEF QueryAt, QueueAt
    <2>5. StampAt(q)' /\ OrderAt(q)' /\ FlowAt(q)'
      BY <1>7 DEF StampAt, OrderAt, FlowAt
    <2> QED
      BY <2>1, <2>2, <2>3, <2>4, <2>5 DEF QueryAt
  <1>10. clock' \in Nat /\ clock <= clock'
    BY <1>1, <1>2, LogNumbers
  <1>11. wal = {} => Due(q)' = {}
    BY <1>1, <1>5, <1>8 DEF EmptyInv, Replays
  <1> QED
    BY <1>2, <1>6, <1>7, <1>9, <1>10, <1>11, QueryStep

----------------------------------------------------------------------------
(* The invariant.                                                          *)

LEMMA InitInv ==
    ASSUME Init
    PROVE  Inv
  <1>1. DOMAIN <<>> = {} /\ Len(<<>>) = 0
    OBVIOUS
  <1>2. LogInv
    BY <1>1 DEF Init, LogInv
  <1>3. PruneInv /\ KeptInv
    BY DEF Init, PruneInv, KeptInv
  <1>4. ASSUME NEW q \in Queries PROVE Due(q) = {} /\ Owed(q) = {}
    BY DEF Init, Due, Owed
  <1>5. EmptyInv
    BY <1>4 DEF EmptyInv
  <1>6. ASSUME NEW q \in Queries PROVE QueryAt(q)
    <2>1. /\ phase[q] = "idle" /\ Len(recv[q]) = 0 /\ pq[q] = {} /\ ~known[q] /\ ckpt[q] = None
          /\ ~failed[q]
      BY <1>1 DEF Init
    <2>2. AppliedAt(q) /\ PhaseAt(q)
      BY <1>4, <2>1 DEF AppliedAt, PhaseAt
    <2>3. BoundAt(q) /\ QueueAt(q) /\ StampAt(q) /\ OrderAt(q) /\ FlowAt(q)
      BY <2>1 DEF BoundAt, QueueAt, StampAt, OrderAt, FlowAt
    <2> QED
      BY <2>2, <2>3 DEF QueryAt
  <1> QED
    BY <1>2, <1>3, <1>5, <1>6 DEF Inv, QueryInv

LEMMA StutterStep ==
    ASSUME IInv, UNCHANGED vars
    PROVE  Inv'
  <1>1. LogType /\ LogInv /\ PruneInv /\ EmptyInv /\ KeptInv
    BY TypeParts DEF IInv, Inv
  <1>2. /\ UNCHANGED <<policy, wal, counter, head, sending, pruning>>
        /\ UNCHANGED <<acked, chan, clock>> /\ UNCHANGED queryVars
    BY DEF vars, queryVars
  <1>3. counter' \in Nat /\ counter <= counter' /\ head' \in Nat /\ head <= head'
    BY <1>1, <1>2, LogNumbers
  <1>4. QueryInv' /\ \A q \in Queries : Same(q)
    BY <1>2, <1>3, QueriesKept
  <1>5. ASSUME NEW q \in Queries
        PROVE  /\ Due(q)' = Due(q) /\ (Replays(q)' <=> Replays(q))
               /\ phase'[q] = phase[q] /\ target'[q] = target[q]
    BY <1>2, <1>4, SameSets, SameDue DEF Same
  <1>6. LogInv' /\ PruneInv'
    BY <1>1, <1>2, <1>5 DEF LogInv, PruneInv
  <1>7. EmptyInv' /\ KeptInv'
    BY <1>1, <1>2, <1>5 DEF EmptyInv, KeptInv
  <1> QED
    BY <1>4, <1>6, <1>7 DEF Inv

LEMMA InvStep ==
    ASSUME IInv, [Next]_vars, Races = {}
    PROVE  Inv'
  <1>1. CASE WalAppend \/ Enqueue \/ CancelSend \/ Dispatch
    BY <1>1, WalAppendStep, EnqueueStep, CancelSendStep, DispatchStep
  <1>2. CASE PruneCompute \/ PruneUpTo \/ Crash
    BY <1>2, PruneComputeStep, PruneUpToStep, CrashStep
  <1>3. ASSUME NEW q \in Queries, Attach(q) \/ ReadWal(q) \/ ReadWalFails(q) \/ SubscribeLive(q)
        PROVE  Inv'
    BY <1>3, AttachStep, ReadWalStep, ReadWalFailsStep, SubscribeLiveStep
  <1>4. ASSUME NEW q \in Queries, Forward(q) \/ Process(q) \/ ProcessFails(q) \/ Stop(q)
        PROVE  Inv'
    BY <1>4, ForwardStep, ProcessStep, ProcessFailsStep, StopStep
  <1>5. CASE UNCHANGED vars
    BY <1>5, StutterStep
  <1> QED
    BY <1>1, <1>2, <1>3, <1>4, <1>5 DEF Next

LEMMA Invariance ==
    ASSUME Races = {}
    PROVE  Spec => []IInv
  <1>1. Init => Inv
    BY InitInv
  <1>2. Inv /\ TypeOK /\ [Next]_vars => Inv'
    BY InvStep DEF IInv
  <1>3. TypeOK /\ Inv => IInv
    BY DEF IInv
  <1> QED
    BY <1>1, <1>2, <1>3, TypeCorrect, PTL DEF Spec

\* A change that a query is owed and has not applied is above its checkpoint.
LEMMA UnappliedIsMissing ==
    ASSUME IInv, NEW q \in Queries, NEW n \in Owed(q) \ applied[q]
    PROVE  n \in Missing(q) /\ n \in Due(q)
  <1>1. LogType /\ QueryType /\ AppliedAt(q)
    BY TypeParts DEF IInv, Inv, QueryInv, QueryAt
  <1>2. n \in acked /\ n \in Nat /\ ckpt[q] \in Int
    BY <1>1, LogNumbers, QueryNumbers DEF Owed
  <1>3. ~(n <= ckpt[q])
    BY <1>1 DEF AppliedAt
  <1>4. n \in Missing(q)
    BY <1>2, <1>3 DEF Missing
  <1> QED
    BY <1>1, <1>4, DueFacts

\* NoHole: the checkpoint that the processor commits after a change, and that
\* SequenceDedup filters by, never passes over an acknowledged change which is
\* not in the query's index, whatever is replayed, evicted, pruned or left in
\* the queue by an earlier run.
THEOREM NothingPassedOver ==
    ASSUME Races = {}
    PROVE  Spec => []NoHole
  <1>1. IInv => NoHole
    BY DEF IInv, Inv, QueryInv, QueryAt, AppliedAt, NoHole
  <1> QED
    BY <1>1, Invariance, PTL

\* OnItsWay: what process_events dispatches and subscribe_with_replay reads
\* from the log leave no gap between them: while a query runs, what it lacks is
\* in the channel, its receiver or its queue.
THEOREM MissingIsOnItsWay ==
    ASSUME Races = {}
    PROVE  Spec => []OnItsWay
  <1>1. IInv => OnItsWay
    <2> SUFFICES ASSUME IInv, NEW q \in Queries, phase[q] = "running", NEW n \in Owed(q) \ applied[q]
                 PROVE  \/ n \in Range(chan)
                        \/ \E e \in recv[q][Len(recv[q])].replay \union Range(recv[q][Len(recv[q])].live)
                                    \union pq[q] : e.seq = n
      BY DEF OnItsWay
    <2>1. Len(recv[q]) = 1 /\ FlowAt(q) /\ n \in Missing(q)
      BY RunningFacts, UnappliedIsMissing
    <2>2. recv[q][Len(recv[q])] = Own(q)
      BY <2>1 DEF Own
    <2>3. n \in Queued(q) \union Replaying(q) \union Live(q) \union Range(chan)
      BY <2>1 DEF FlowAt
    <2>4. CASE n \in Queued(q)
      BY <2>4 DEF Queued
    <2>5. CASE n \in Replaying(q)
      BY <2>2, <2>5 DEF Replaying
    <2>6. CASE n \in Live(q)
      <3>1. PICK i \in DOMAIN Own(q).live : Own(q).live[i].seq = n
        BY <2>6 DEF Live
      <3>2. Own(q).live[i] \in Range(Own(q).live)
        BY DEF Range
      <3> QED
        BY <2>2, <3>1, <3>2
    <2> QED
      BY <2>3, <2>4, <2>5, <2>6
  <1> QED
    BY <1>1, Invariance, PTL

\* UnconfirmedKept: with RejectIncoming, prune_up_to the position that
\* compute_confirmed_position found keeps every change that a query which
\* reports its position has not committed.
THEOREM UnconfirmedIsKept ==
    ASSUME Races = {}
    PROVE  Spec => []UnconfirmedKept
  <1>1. IInv => UnconfirmedKept
    <2> SUFFICES ASSUME IInv, policy = "RejectIncoming", NEW q \in Queries, phase[q] = "running",
                        NEW n \in Owed(q) \ applied[q]
                 PROVE  n \in wal
      BY DEF UnconfirmedKept
    <2>1. KeptInv /\ n \in Due(q)
      BY UnappliedIsMissing DEF IInv, Inv
    <2> QED
      BY <2>1 DEF KeptInv
  <1> QED
    BY <1>1, Invariance, PTL
=============================================================================
