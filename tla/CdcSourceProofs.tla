-------------------------- MODULE CdcSourceProofs --------------------------
(***************************************************************************)
(* Exactly-once absorption of the changes of a replication slot, and a     *)
(* slot that serves what has not been committed, for every set of queries, *)
(* every log of transactions and any number of rewinds, as long as none of *)
(* the races that CdcSource names happens.                                 *)
(***************************************************************************)
EXTENDS CdcSource, WellFoundedInduction, FiniteSetTheorems, TLAPS

----------------------------------------------------------------------------
(* The inductive invariant.                                                *)

\* A query whose subscription is complete, and one that has begun to subscribe.
Served(q) == phase[q] \in {"filtered", "running"}
Holds(q) == phase[q] \in {"checked", "attached", "filtered", "running"}

\* A complete subscription with its dispatcher; one under way that leaves the
\* stream alone, and one that rewinds it.
InPlace(q) == Served(q) /\ attached[q]
Joining(q) == Subscribing(q) /\ rewind[q] = None
Rewinding(q) == Subscribing(q) /\ rewind[q] # None

\* The last change that a query in place has been sent, or that one joining has.
Place(q) == IF Served(q) THEN mark[q] ELSE ckpt[q].pos

\* A stream that starts at an LSN does not pass over the change after p.
Reaches(lsn, p) == p >= Len(Txn) \/ lsn <= Lsn(p + 1)

\* What a query has absorbed: the changes up to its checkpoint, in order.
AppliedAt(q) ==
    /\ Len(applied[q]) = ckpt[q].pos
    /\ \A i \in DOMAIN applied[q] : applied[q][i] = i

\* What a query has in each phase.
RoomAt(q) ==
    /\ phase[q] # "running" => queue[q] = <<>>
    /\ ~Served(q) => box[q] = <<>>
    /\ attached[q] => phase[q] \in {"attached", "filtered", "running"}
    /\ phase[q] \in {"attached", "filtered"} => attached[q]
    /\ handle[q] = IF phase[q] = "running" THEN ckpt[q].seq ELSE None

\* What is on its way to a query continues what it has, without a gap,
OrderAt(q) ==
    /\ \A i \in DOMAIN queue[q] : queue[q][i].pos = ckpt[q].pos + i
    /\ \A i \in DOMAIN box[q] : box[q][i].pos = ckpt[q].pos + Len(queue[q]) + i
    /\ InPlace(q) => mark[q] = ckpt[q].pos + Len(queue[q]) + Len(box[q])

\* ... under growing numbers, so that the filter on them takes nothing away.
SeqAt(q) ==
    /\ phase[q] \in {"attached", "filtered", "running"} => ckpt[q].seq < seq
    /\ \A i \in DOMAIN queue[q] : ckpt[q].seq < queue[q][i].seq /\ queue[q][i].seq < seq
    /\ \A i \in DOMAIN box[q] : ckpt[q].seq < box[q][i].seq /\ box[q][i].seq < seq
    /\ \A i, j \in DOMAIN queue[q] : i < j => queue[q][i].seq < queue[q][j].seq
    /\ \A i \in DOMAIN queue[q], j \in DOMAIN box[q] : queue[q][i].seq < box[q][j].seq
    /\ \A i, j \in DOMAIN box[q] : i < j => box[q][i].seq < box[q][j].seq

\* What a rewind does to the stream.
LockAt(q) ==
    /\ ~Subscribing(q) => rewind[q] = None
    /\ Rewinding(q) => rewind[q] = ResumeLsn(q)
    /\ Rewinding(q) /\ phase[q] = "attached" => ~task /\ positions = {}
    /\ Joining(q) => status # "stopped"

\* The stream passes over nothing that a query in place or joining has not
\* been sent, and would not if it were connected again.
ServeAt(q) ==
    InPlace(q) \/ Joining(q) =>
        /\ task => next <= Place(q) + 1 /\ (start # None => Reaches(start, Place(q)))
        /\ \A e \in positions : e.pos <= Place(q)

\* The slot has what a query that subscribes will need.
SlotAt(q) == Holds(q) => flush <= ResumeLsn(q)

\* No number up to one that a query has or will have stands for a later position.
MapAt(q) ==
    Served(q) => \A e \in positions :
        /\ e.seq <= ckpt[q].seq => e.pos <= ckpt[q].pos
        /\ \A i \in DOMAIN queue[q] : e.seq <= queue[q][i].seq => e.pos <= queue[q][i].pos
        /\ \A i \in DOMAIN box[q] : e.seq <= box[q][i].seq => e.pos <= box[q][i].pos

QueryInv ==
    \A q \in Queries : /\ AppliedAt(q) /\ RoomAt(q) /\ OrderAt(q) /\ SeqAt(q)
                       /\ LockAt(q) /\ ServeAt(q) /\ SlotAt(q) /\ MapAt(q)

\* subscribe_lock.
LockInv == \A p, q \in Queries : Subscribing(p) /\ Subscribing(q) => p = q

StatusInv ==
    /\ restart = flush /\ flush >= 1
    /\ task => status = "running"
    /\ status = "running" => read >= 1
    /\ status = "running" => task \/ \E q \in Queries : Rewinding(q) /\ phase[q] = "attached"
    /\ status = "stopped" => \A q \in Queries : ~InPlace(q)

\* read_lsn is between the last change sent and the next one, or behind the
\* slot's flush position.
ReadInv ==
    task => /\ start # None => 1 <= start /\ start <= read
            /\ next = 1 \/ Lsn(next - 1) < read \/ Lsn(next - 1) < flush
            /\ next = Len(Txn) + 1 \/ read <= Lsn(next) \/ read = EndLsn(next - 1)

\* A rewind will not pass over anything either.
RewindInv ==
    \A p, q \in Queries : Rewinding(q) /\ InPlace(p) => Reaches(rewind[q], mark[p])

Inv == QueryInv /\ LockInv /\ StatusInv /\ ReadInv /\ RewindInv
IInv == TypeOK /\ Inv

----------------------------------------------------------------------------
(* Least and greatest elements.                                            *)

\* A set of naturals has a least element: among the intervals from zero to
\* its elements, one is contained in all the others.
LEMMA LeastExists ==
    ASSUME NEW S \in SUBSET Nat, S # {}
    PROVE  \E x \in S : \A y \in S : x <= y
  <1> DEFINE T == {0..k : k \in S}
  <1>1. T # {}
    OBVIOUS
  <1>2. T \subseteq FiniteSubsetsOf(Nat)
    <2>1. ASSUME NEW k \in S PROVE 0..k \in FiniteSubsetsOf(Nat)
      BY FS_Interval DEF FiniteSubsetsOf
    <2> QED
      BY <2>1
  <1>3. \E x \in T : \A y \in T : ~(<<y, x>> \in StrictSubsetOrdering(Nat))
    <2> HIDE DEF T
    <2> QED
      BY <1>1, <1>2, FS_StrictSubsetOrderingWellFounded, WFMin
  <1>4. PICK k \in S : \A j \in S : ~(<<0..j, 0..k>> \in StrictSubsetOrdering(Nat))
    BY <1>3
  <1>5. ASSUME NEW j \in S PROVE k <= j
    <2> SUFFICES ASSUME j < k PROVE FALSE
      OBVIOUS
    <2>1. 0..j \subseteq 0..k /\ 0..j # 0..k
      OBVIOUS
    <2>2. 0..j \in SUBSET Nat /\ 0..k \in SUBSET Nat
      OBVIOUS
    <2> QED
      BY <1>4, <2>1, <2>2 DEF StrictSubsetOrdering
  <1> QED
    BY <1>5

\* ... and, if it has a bound, a greatest one.
LEMMA GreatestExists ==
    ASSUME NEW S \in SUBSET Nat, S # {}, NEW n \in Nat, \A s \in S : s <= n
    PROVE  \E x \in S : \A y \in S : y <= x
  <1> DEFINE D == {d \in 0..n : n - d \in S}
  <1>1. PICK s \in S : TRUE
    OBVIOUS
  <1>2. n - s \in D
    <2>1. s \in Nat /\ s <= n
      BY <1>1
    <2>2. n - s \in 0..n /\ n - (n - s) = s
      BY <2>1
    <2> QED
      BY <1>1, <2>2
  <1>3. D \in SUBSET Nat /\ D # {}
    BY <1>2
  <1>4. PICK d \in D : \A y \in D : d <= y
    <2> HIDE DEF D
    <2> QED
      BY <1>3, LeastExists
  <1>5. ASSUME NEW y \in S PROVE y <= n - d
    <2>1. y \in Nat /\ y <= n
      OBVIOUS
    <2>2. n - y \in 0..n /\ n - (n - y) = y
      BY <2>1
    <2>3. n - y \in D
      BY <2>2
    <2>4. d \in Nat
      BY <1>4
    <2>5. d <= n - y
      <3> HIDE DEF D
      <3> QED
        BY <1>4, <2>3
    <2> QED
      BY <2>1, <2>4, <2>5
  <1> QED
    BY <1>4, <1>5

LEMMA MinFact ==
    ASSUME NEW S \in SUBSET Nat, S # {}
    PROVE  Min(S) \in S /\ \A y \in S : Min(S) <= y
  BY LeastExists DEF Min

LEMMA MinOfTwo ==
    ASSUME NEW a \in Nat, NEW b \in Nat
    PROVE  Min({a, b}) = IF a <= b THEN a ELSE b
  BY DEF Min

LEMMA MaxOfTwo ==
    ASSUME NEW a \in Nat, NEW b \in Nat
    PROVE  Max({a, b}) = IF a >= b THEN a ELSE b
  BY DEF Max

----------------------------------------------------------------------------
(* LSNs.                                                                   *)

\* The transactions of the changes are in order.
LEMMA TxnOrder ==
    ASSUME NEW c \in Changes, NEW d \in Changes, c <= d
    PROVE  Txn[c] <= Txn[d]
  <1> DEFINE S == {e \in Changes : c <= e /\ Txn[e] < Txn[c]}
  <1>1. Len(Txn) \in Nat /\ \A e \in Changes : e \in Nat /\ Txn[e] \in Nat
    BY CdcAssumption DEF Changes
  <1> SUFFICES ASSUME S # {} PROVE FALSE
    BY <1>1
  <1>2. PICK e \in S : \A x \in S : e <= x
    <2>1. S \in SUBSET Nat
      BY <1>1
    <2> HIDE DEF S
    <2> QED
      BY <2>1, LeastExists
  <1>3. e \in Changes /\ c <= e /\ Txn[e] < Txn[c]
    BY <1>2
  <1>4. e # c /\ e # 1 /\ e - 1 \in Changes /\ c <= e - 1
    BY <1>1, <1>3 DEF Changes
  <1>5. Txn[e - 1] <= Txn[e]
    <2>1. e \in Changes \ {1}
      BY <1>3, <1>4
    <2>2. Txn[e] \in {Txn[e - 1], Txn[e - 1] + 1}
      BY <2>1, CdcAssumption
    <2>3. Txn[e - 1] \in Nat
      BY <1>1, <1>4
    <2> QED
      BY <2>2, <2>3
  <1>6. e - 1 \in S
    BY <1>1, <1>3, <1>4, <1>5
  <1> QED
    BY <1>1, <1>2, <1>3, <1>6

LEMMA TxnLength == Len(Txn) \in Nat
  BY CdcAssumption

\* A place before the end has a successor.
LEMMA Successor ==
    ASSUME NEW p \in 0..Len(Txn), p < Len(Txn)
    PROVE  p + 1 \in 0..Len(Txn) /\ p <= p + 1 /\ p + 1 \in Changes
  BY TxnLength DEF Changes

LEMMA LsnFacts ==
    /\ Len(Txn) \in Nat /\ NoFence \in Nat
    /\ \A p \in 0..Len(Txn) : /\ Lsn(p) \in Nat /\ Lsn(p) >= 1
                              /\ EndLsn(p) = Lsn(p) + 1 /\ EndLsn(p) < NoFence
  <1>1. Len(Txn) \in Nat
    BY CdcAssumption
  <1>2. ASSUME NEW p \in 0..Len(Txn) PROVE Lsn(p) \in Nat /\ Lsn(p) >= 1
    BY <1>1, CdcAssumption DEF Lsn
  <1>3. ASSUME NEW p \in 0..Len(Txn) PROVE Lsn(p) <= Lsn(Len(Txn))
    <2>1. CASE p = 0
      BY <1>1, <1>2, <2>1 DEF Lsn
    <2>2. CASE p # 0
      <3>1. p \in Changes /\ Len(Txn) \in Changes /\ Len(Txn) # 0
        BY <1>1, <2>2 DEF Changes
      <3>2. Txn[p] <= Txn[Len(Txn)] /\ Txn[p] \in Nat /\ Txn[Len(Txn)] \in Nat
        BY <3>1, TxnOrder, CdcAssumption DEF Changes
      <3> QED
        BY <2>2, <3>1, <3>2 DEF Lsn
    <2> QED
      BY <2>1, <2>2
  <1> QED
    BY <1>1, <1>2, <1>3 DEF NoFence, EndLsn

LEMMA LsnOrder ==
    ASSUME NEW p \in 0..Len(Txn), NEW r \in 0..Len(Txn), p <= r
    PROVE  Lsn(p) <= Lsn(r)
  <1>1. CASE p = 0
    BY <1>1, LsnFacts DEF Lsn
  <1>2. CASE p # 0
    <2>1. p \in Changes /\ r \in Changes /\ r # 0
      BY <1>2, LsnFacts DEF Changes
    <2>2. Txn[p] <= Txn[r] /\ Txn[p] \in Nat /\ Txn[r] \in Nat
      BY <2>1, TxnOrder, CdcAssumption DEF Changes
    <2> QED
      BY <1>2, <2>1, <2>2 DEF Lsn
  <1> QED
    BY <1>1, <1>2

\* The change a stream from an LSN begins with.
LEMMA FirstFromFacts ==
    ASSUME flush \in Nat, NEW lsn \in Nat
    PROVE  /\ FirstFrom(lsn) \in 1..Len(Txn) + 1
           /\ FirstFrom(lsn) <= Len(Txn) => lsn <= Lsn(FirstFrom(lsn))
           /\ \A c \in Changes : lsn <= Lsn(c) /\ flush <= Lsn(c) => FirstFrom(lsn) <= c
  <1> DEFINE m == Max({lsn, flush})
             S == {c \in Changes : Lsn(c) >= m} \union {Len(Txn) + 1}
  <1>1. m \in Nat /\ lsn <= m /\ (m = lsn \/ m = flush)
    BY MaxOfTwo
  <1> HIDE DEF m
  <1>2. S \in SUBSET Nat /\ S # {}
    BY LsnFacts DEF Changes
  <1>3. Min(S) \in S /\ \A y \in S : Min(S) <= y
    <2> HIDE DEF S
    <2> QED
      BY <1>2, MinFact
  <1>4. FirstFrom(lsn) = Min(S)
    BY DEF FirstFrom, m
  <1> DEFINE n == Min(S)
  <1>5. n \in S /\ \A y \in S : n <= y
    BY <1>3
  <1> HIDE DEF n
  <1>6. n \in 1..Len(Txn) + 1 /\ (n <= Len(Txn) => n \in Changes /\ m <= Lsn(n))
    BY <1>1, <1>5, LsnFacts DEF Changes
  <1>7. n <= Len(Txn) => lsn <= Lsn(n)
    BY <1>1, <1>6, LsnFacts DEF Changes
  <1>8. ASSUME NEW c \in Changes, lsn <= Lsn(c), flush <= Lsn(c) PROVE n <= c
    BY <1>1, <1>5, <1>8
  <1> QED
    BY <1>4, <1>6, <1>7, <1>8 DEF n
----------------------------------------------------------------------------
(* Types.                                                                  *)

\* The least number reported, and the position it stands for.
LEMMA ConfirmedSeqFacts ==
    ASSUME handle \in [Queries -> Nat \union {None}]
    PROVE  /\ ConfirmedSeq \in Nat \union {None}
           /\ \A q \in Queries : handle[q] # None => ConfirmedSeq <= handle[q]
  <1> DEFINE S == {handle[q] : q \in Queries} \ {None}
  <1>1. S \in SUBSET Nat
    OBVIOUS
  <1>2. ASSUME NEW q \in Queries, handle[q] # None PROVE handle[q] \in S
    BY <1>2
  <1>3. ConfirmedSeq = IF S = {} THEN None ELSE Min(S)
    BY DEF ConfirmedSeq
  <1> HIDE DEF S
  <1>4. CASE S = {}
    BY <1>2, <1>3, <1>4
  <1>5. CASE S # {}
    <2>1. Min(S) \in S /\ \A y \in S : Min(S) <= y
      BY <1>1, <1>5, MinFact
    <2> QED
      BY <1>1, <1>2, <1>3, <1>5, <2>1
  <1> QED
    BY <1>4, <1>5

LEMMA ConfirmedLsnFacts ==
    ASSUME ConfirmedSeq \in Nat \union {None}, positions \subseteq Event
    PROVE  /\ ConfirmedLsn \in 0..NoFence
           /\ \/ ConfirmedLsn = 0
              \/ \E e \in positions : e.seq <= ConfirmedSeq /\ ConfirmedLsn = Lsn(e.pos)
  <1> DEFINE B == {e \in positions : e.seq <= ConfirmedSeq}
             top == CHOOSE e \in B : \A f \in B : f.seq <= e.seq
  <1>1. ConfirmedLsn = IF B = {} THEN 0 ELSE Lsn(top.pos)
    BY DEF ConfirmedLsn
  <1>2. \A e \in B : e.seq \in Nat /\ e.pos \in Changes /\ e.seq <= ConfirmedSeq
    BY DEF Event
  <1>3. CASE B = {}
    BY <1>1, <1>3, LsnFacts
  <1>4. CASE B # {}
    <2> DEFINE S == {e.seq : e \in B}
    <2>1. S \in SUBSET Nat /\ S # {} /\ \A s \in S : s <= ConfirmedSeq
      BY <1>2, <1>4
    <2>2. ConfirmedSeq \in Nat
      BY <1>2, <1>4 DEF None, Event
    <2>3. PICK s \in S : \A t \in S : t <= s
      <3> HIDE DEF S
      <3> QED
        BY <2>1, <2>2, GreatestExists
    <2>4. PICK e \in B : e.seq = s
      BY <2>3
    <2>5. \A f \in B : f.seq <= e.seq
      BY <2>3, <2>4
    <2>6. top \in B
      <3> HIDE DEF B
      <3> QED
        BY <2>4, <2>5
    <2> HIDE DEF top
    <2>7. top \in positions /\ top.seq <= ConfirmedSeq /\ top.pos \in Changes
      BY <1>2, <2>6
    <2>8. ConfirmedLsn = Lsn(top.pos)
      BY <1>1, <1>4
    <2>9. top.pos \in 0..Len(Txn)
      BY <2>7, LsnFacts DEF Changes
    <2>10. Lsn(top.pos) \in 0..NoFence
      BY <2>9, LsnFacts
    <2> QED
      BY <2>7, <2>8, <2>10
  <1> QED
    BY <1>3, <1>4

\* The types, in three groups.
FlagType ==
    /\ task \in BOOLEAN
    /\ attached \in [Queries -> BOOLEAN]
    /\ ready \in BOOLEAN

StreamType ==
    /\ {flush, restart, read} \subseteq 0..NoFence
    /\ status \in {"stopped", "running", "error"}
    /\ start \in 0..NoFence \union {None}
    /\ next \in 1..Len(Txn) + 1
    /\ fence \in 0..NoFence
    /\ seq \in Nat \ {0}
    /\ positions \subseteq Event /\ \A e \in positions : e.seq < seq
    /\ faults \in [{"crash", "other"} -> Nat]

QueryType ==
    /\ phase \in [Queries -> {"idle", "checked", "attached", "filtered", "running", "error"}]
    /\ rewind \in [Queries -> 0..NoFence \union {None}]
    /\ mark \in [Queries -> Changes \union {0, None}]
    /\ box \in [Queries -> Seq(Event)]
    /\ queue \in [Queries -> Seq(Event)]
    /\ handle \in [Queries -> Nat \union {None}]
    /\ ckpt \in [Queries -> [seq : Nat, pos : Changes \union {0}]]
    /\ applied \in [Queries -> Seq(Changes)]

LEMMA TypeParts == TypeOK <=> FlagType /\ StreamType /\ QueryType
  BY DEF TypeOK, FlagType, StreamType, QueryType

LEMMA ResumeLsnType ==
    ASSUME QueryType, NEW q \in Queries
    PROVE  /\ ResumeLsn(q) \in 0..NoFence /\ ResumeLsn(q) >= 1
           /\ ckpt[q].pos \in 0..Len(Txn) /\ ckpt[q].seq \in Nat
  <1>1. ckpt[q] \in [seq : Nat, pos : Changes \union {0}]
    BY DEF QueryType
  <1>2. ckpt[q].pos \in 0..Len(Txn) /\ ckpt[q].seq \in Nat
    BY <1>1, LsnFacts DEF Changes
  <1> QED
    BY <1>2, LsnFacts DEF ResumeLsn

LEMMA ConnectType ==
    ASSUME StreamType, NEW lsn \in 0..NoFence \union {None}, Connect(lsn)
    PROVE  /\ task' = TRUE
           /\ start' \in 0..NoFence \union {None}
           /\ read' \in 0..NoFence
           /\ next' \in 1..Len(Txn) + 1
  <1> DEFINE from == IF lsn = None THEN flush ELSE lsn
  <1>1. flush \in Nat /\ from \in 0..NoFence /\ from \in Nat
    BY LsnFacts DEF StreamType, None
  <1>2. task' = TRUE /\ start' = lsn /\ read' = from /\ next' = FirstFrom(from)
    BY DEF Connect
  <1> HIDE DEF from
  <1>3. FirstFrom(from) \in 1..Len(Txn) + 1
    BY <1>1, FirstFromFacts
  <1> QED
    BY <1>1, <1>2, <1>3

LEMMA DeliveredType ==
    ASSUME StreamType, QueryType, NEW who, next <= Len(Txn)
    PROVE  Delivered(who) \in [Queries -> Seq(Event)]
  <1>1. [seq |-> seq, pos |-> next] \in Event
    BY LsnFacts DEF StreamType, Event, Changes
  <1> QED
    BY <1>1 DEF Delivered, QueryType

LEMMA PendingType ==
    ASSUME QueryType, NEW q \in Queries
    PROVE  /\ box[q] \in Seq(Event) /\ queue[q] \in Seq(Event)
           /\ \A i \in DOMAIN box[q] : box[q][i].seq \in Nat /\ box[q][i].pos \in Nat
           /\ \A i \in DOMAIN queue[q] : queue[q][i].seq \in Nat /\ queue[q][i].pos \in Nat
  <1>1. box[q] \in Seq(Event) /\ queue[q] \in Seq(Event)
    BY DEF QueryType
  <1>2. ASSUME NEW s \in Seq(Event), NEW i \in DOMAIN s
        PROVE  s[i].seq \in Nat /\ s[i].pos \in Nat
    <2>1. s[i] \in Event
      OBVIOUS
    <2> QED
      BY <2>1, LsnFacts DEF Event, Changes
  <1> QED
    BY <1>1, <1>2

\* Types are kept by every step, whatever races may happen.
LEMMA TypeStep ==
    ASSUME TypeOK, [Next]_vars
    PROVE  TypeOK'
  <1>1. FlagType /\ StreamType /\ QueryType
    BY TypeParts
  <1> SUFFICES FlagType' /\ StreamType' /\ QueryType'
    BY TypeParts, PTL
  <1>2. CASE StartSource
    <2>1. Connect(None) /\ None \in 0..NoFence \union {None}
      BY <1>2 DEF StartSource
    <2>2. /\ task' = TRUE /\ start' \in 0..NoFence \union {None}
          /\ read' \in 0..NoFence /\ next' \in 1..Len(Txn) + 1
      BY <1>1, <2>1, ConnectType
    <2> QED
      BY <1>1, <1>2, <2>2 DEF StartSource, FlagType, StreamType, QueryType, slot, queryVars
  <1>3. CASE Dispatch
    <2>1. next \in Changes /\ [seq |-> seq, pos |-> next] \in Event
      BY <1>1, <1>3, LsnFacts DEF Dispatch, StreamType, Changes, Event
    <2>2. Delivered(Queries) \in [Queries -> Seq(Event)]
      BY <1>1, <1>3, DeliveredType DEF Dispatch
    <2>3. EndLsn(next) \in 0..NoFence
      BY <2>1, LsnFacts DEF Changes
    <2>4. QueryType'
      BY <1>1, <1>3, <2>1, <2>2 DEF Dispatch, QueryType
    <2>5. FlagType'
      BY <1>1, <1>3 DEF Dispatch, FlagType
    <2>6. positions' \subseteq Event /\ \A e \in positions' : e.seq < seq'
      <3>1. \A e \in positions : e.seq \in Nat /\ e.seq < seq
        BY <1>1 DEF StreamType, Event
      <3>2. positions' = positions \union {[seq |-> seq, pos |-> next]} /\ seq' = seq + 1
        BY <1>3 DEF Dispatch, NextSequence
      <3> QED
        BY <1>1, <2>1, <3>1, <3>2 DEF StreamType
    <2>7. next' \in 1..Len(Txn) + 1 /\ seq' \in Nat \ {0}
      BY <1>1, <1>3, <2>1, LsnFacts DEF Dispatch, NextSequence, StreamType, Changes
    <2>8. StreamType'
      BY <1>1, <1>3, <2>3, <2>6, <2>7 DEF Dispatch, StreamType, slot
    <2> QED
      BY <2>4, <2>5, <2>8
  <1>4. CASE Keepalive
    <2>1. next - 1 \in 0..Len(Txn) /\ read \in 0..NoFence
      BY <1>1, LsnFacts DEF StreamType
    <2>2. EndLsn(next - 1) \in Nat /\ EndLsn(next - 1) \in 0..NoFence /\ read \in Nat
      BY <2>1, LsnFacts
    <2>3. read' \in 0..NoFence
      BY <1>4, <2>1, <2>2, MaxOfTwo DEF Keepalive
    <2> QED
      BY <1>1, <1>4, <2>3 DEF Keepalive, FlagType, StreamType, QueryType, slot, queryVars
  <1>5. CASE Reconnect
    <2>1. Connect(start) /\ start \in 0..NoFence \union {None}
      BY <1>1, <1>5 DEF Reconnect, StreamType
    <2>2. /\ task' = TRUE /\ start' \in 0..NoFence \union {None}
          /\ read' \in 0..NoFence /\ next' \in 1..Len(Txn) + 1
      BY <1>1, <2>1, ConnectType
    <2>3. faults' \in [{"crash", "other"} -> Nat]
      BY <1>1, <1>5 DEF Reconnect, Fault, StreamType
    <2> QED
      BY <1>1, <1>5, <2>2, <2>3 DEF Reconnect, FlagType, StreamType, QueryType, slot, queryVars
  <1>6. CASE StreamFails
    <2>1. StreamType'
      BY <1>1, <1>6, LsnFacts DEF StreamFails, EndTask, Fault, StreamType, slot
    <2> QED
      BY <1>1, <1>6, <2>1 DEF StreamFails, EndTask, FlagType, QueryType, queryVars
  <1>7. CASE Feedback
    <2> DEFINE sent == Min({ConfirmedLsn, fence})
    <2>1. ConfirmedSeq \in Nat \union {None}
      BY <1>1, ConfirmedSeqFacts DEF QueryType
    <2>2. ConfirmedLsn \in 0..NoFence
      BY <1>1, <2>1, ConfirmedLsnFacts DEF StreamType
    <2>3. sent \in 0..NoFence
      <3>1. fence \in 0..NoFence /\ fence \in Nat /\ ConfirmedLsn \in Nat
        BY <1>1, <2>2, LsnFacts DEF StreamType
      <3> QED
        BY <2>2, <3>1, MinOfTwo
    <2>4. /\ flush' = Max({flush, sent})
          /\ restart' \in restart..flush' \/ restart' = flush'
          /\ positions' \subseteq positions
          /\ UNCHANGED <<stream, fence, seq, queryVars, ready, faults>>
      BY <1>7 DEF Feedback
    <2> HIDE DEF sent
    <2>5. flush' \in 0..NoFence
      <3>1. flush \in 0..NoFence /\ flush \in Nat /\ sent \in Nat
        BY <1>1, <2>3, LsnFacts DEF StreamType
      <3> QED
        BY <2>3, <2>4, <3>1, MaxOfTwo
    <2>6. restart' \in 0..NoFence
      BY <1>1, <2>4, <2>5, LsnFacts DEF StreamType
    <2> QED
      BY <1>1, <2>4, <2>5, <2>6 DEF FlagType, StreamType, QueryType, stream, queryVars
  <1>8. CASE StopSource
    <2>1. StreamType'
      BY <1>1, <1>8, LsnFacts DEF StopSource, EndTask, Fault, StreamType, slot
    <2>2. QueryType'
      BY <1>1, <1>8 DEF StopSource, QueryType
    <2>3. FlagType'
      BY <1>1, <1>8 DEF StopSource, EndTask, FlagType
    <2> QED
      BY <2>1, <2>2, <2>3
  <1>9. ASSUME NEW q \in Queries, Check(q) PROVE FlagType' /\ StreamType' /\ QueryType'
    <2>1. ResumeLsn(q) \in 0..NoFence
      BY <1>1, ResumeLsnType
    <2>2. phase' \in [Queries -> {"idle", "checked", "attached", "filtered", "running", "error"}]
      <3>1. \/ phase' = [phase EXCEPT ![q] = "error"]
            \/ phase' = [phase EXCEPT ![q] = "checked"]
        BY <1>9 DEF Check
      <3> QED
        BY <1>1, <3>1 DEF QueryType
    <2>3. rewind' \in [Queries -> 0..NoFence \union {None}]
      <3>1. \/ rewind' = rewind
            \/ rewind' = [rewind EXCEPT ![q] = ResumeLsn(q)]
            \/ rewind' = [rewind EXCEPT ![q] = None]
        BY <1>9 DEF Check
      <3> QED
        BY <1>1, <2>1, <3>1 DEF QueryType
    <2> QED
      BY <1>1, <1>9, <2>2, <2>3 DEF Check, FlagType, StreamType, QueryType, slot, stream
  <1>10. ASSUME NEW q \in Queries, Attach(q) PROVE FlagType' /\ StreamType' /\ QueryType'
    <2>1. PICK who \in Caught(q) :
             /\ box' = [Delivered(who) EXCEPT ![q] = <<>>]
             /\ seq' = Max({seq + Cardinality({1 : p \in who}), Floor(q)})
      BY <1>10 DEF Attach
    <2>2. Delivered(who) \in [Queries -> Seq(Event)]
      <3>1. CASE next <= Len(Txn)
        BY <1>1, <3>1, DeliveredType
      <3>2. CASE ~(next <= Len(Txn))
        <4>1. who = {}
          BY <2>1, <3>2 DEF Caught
        <4> QED
          BY <1>1, <4>1 DEF Delivered, QueryType
      <3> QED
        BY <3>1, <3>2
    <2>3. box' \in [Queries -> Seq(Event)]
      BY <2>1, <2>2
    <2>4. Cardinality({1 : p \in who}) \in Nat
      <3> DEFINE S == {1 : p \in who}
      <3> SUFFICES Cardinality(S) \in Nat
        OBVIOUS
      <3>1. S = {} \/ S = {1}
        OBVIOUS
      <3> HIDE DEF S
      <3>2. CASE S = {}
        BY <3>2, FS_EmptySet
      <3>3. CASE S = {1}
        <4>1. Cardinality({1}) = 1
          BY FS_Singleton
        <4> QED
          BY <3>3, <4>1
      <3> QED
        BY <3>1, <3>2, <3>3
    <2>5. Floor(q) \in Nat /\ Floor(q) >= 1
      BY <1>1, ResumeLsnType DEF Floor
    <2>6. seq \in Nat /\ seq >= 1
      BY <1>1 DEF StreamType
    <2>7. seq' \in Nat /\ seq' >= seq /\ seq' >= 1
      <3> DEFINE a == seq + Cardinality({1 : p \in who})
      <3>1. a \in Nat /\ a >= seq
        BY <2>4, <2>6
      <3>2. seq' = Max({a, Floor(q)})
        BY <2>1
      <3> HIDE DEF a
      <3> QED
        BY <2>5, <2>6, <3>1, <3>2, MaxOfTwo
    <2>8. rewind[q] \in 0..NoFence \union {None}
      BY <1>1 DEF QueryType
    <2>9. /\ start' \in 0..NoFence \union {None} /\ next' \in 1..Len(Txn) + 1
          /\ fence' \in 0..NoFence /\ positions' \subseteq positions
      <3>1. \/ UNCHANGED <<start, next, positions, fence>>
            \/ start' = None /\ next' = 1 /\ positions' = {} /\ fence' = rewind[q] /\ rewind[q] # None
        BY <1>10 DEF Attach, Quiesce, EndTask
      <3>2. 1 \in 1..Len(Txn) + 1
        BY TxnLength
      <3> QED
        BY <1>1, <2>8, <3>1, <3>2 DEF StreamType
    <2>10. \A e \in positions' : e.seq \in Nat /\ e.seq < seq'
      BY <1>1, <2>6, <2>7, <2>9 DEF StreamType, Event
    <2>11. StreamType'
      <3>1. UNCHANGED <<flush, restart, status, read, faults>>
        BY <1>10 DEF Attach, slot
      <3> QED
        BY <1>1, <2>7, <2>9, <2>10, <3>1 DEF StreamType
    <2>12. QueryType'
      BY <1>1, <1>10, <2>3 DEF Attach, QueryType
    <2>13. FlagType'
      BY <1>1, <1>10 DEF Attach, Quiesce, EndTask, FlagType
    <2> QED
      BY <2>11, <2>12, <2>13
  <1>11. ASSUME NEW q \in Queries, Filter(q) PROVE FlagType' /\ StreamType' /\ QueryType'
    <2>1. ckpt[q].pos \in Changes \union {0} /\ rewind[q] \in 0..NoFence \union {None}
      BY <1>1 DEF QueryType
    <2>2. QueryType'
      BY <1>1, <1>11, <2>1 DEF Filter, QueryType
    <2>3. \/ UNCHANGED stream
          \/ status' = "running" /\ Connect(rewind[q])
      BY <1>11 DEF Filter
    <2>4. \/ UNCHANGED stream
          \/ /\ status' = "running" /\ task' = TRUE /\ start' \in 0..NoFence \union {None}
             /\ read' \in 0..NoFence /\ next' \in 1..Len(Txn) + 1
      BY <1>1, <2>1, <2>3, ConnectType
    <2>5. FlagType'
      BY <1>1, <1>11, <2>4 DEF Filter, FlagType, stream
    <2>6. StreamType'
      BY <1>1, <1>11, <2>4 DEF Filter, StreamType, stream, slot
    <2> QED
      BY <2>2, <2>5, <2>6
  <1>12. ASSUME NEW q \in Queries, ResumeFails(q) PROVE FlagType' /\ StreamType' /\ QueryType'
    <2>1. FlagType'
      BY <1>1, <1>12 DEF ResumeFails, FlagType
    <2>2. StreamType'
      BY <1>1, <1>12 DEF ResumeFails, Fault, StreamType, slot
    <2>3. QueryType'
      BY <1>1, <1>12 DEF ResumeFails, QueryType
    <2> QED
      BY <2>1, <2>2, <2>3
  <1>13. ASSUME NEW q \in Queries, Seed(q) PROVE FlagType' /\ StreamType' /\ QueryType'
    <2>1. ckpt[q].seq \in Nat
      BY <1>1 DEF QueryType
    <2> QED
      BY <1>1, <1>13, <2>1 DEF Seed, FlagType, StreamType, QueryType, slot, stream
  <1>14. ASSUME NEW q \in Queries, Forward(q) PROVE FlagType' /\ StreamType' /\ QueryType'
    <2>1. box[q] \in Seq(Event) /\ queue[q] \in Seq(Event) /\ box[q] # <<>>
      BY <1>1, <1>14 DEF Forward, QueryType
    <2>2. Append(queue[q], Head(box[q])) \in Seq(Event) /\ Tail(box[q]) \in Seq(Event)
      BY <2>1
    <2>3. QueryType'
      BY <1>1, <1>14, <2>2 DEF Forward, QueryType
    <2> QED
      BY <1>1, <1>14, <2>3 DEF Forward, FlagType, StreamType, slot, stream
  <1>15. ASSUME NEW q \in Queries, Process(q) PROVE FlagType' /\ StreamType' /\ QueryType'
    <2> DEFINE e == Head(queue[q])
    <2>1. queue[q] \in Seq(Event) /\ queue[q] # <<>> /\ applied[q] \in Seq(Changes)
      BY <1>1, <1>15 DEF Process, QueryType
    <2>2. e \in Event /\ Tail(queue[q]) \in Seq(Event)
      BY <2>1
    <2>3. /\ e \in [seq : Nat, pos : Changes \union {0}] /\ e.seq \in Nat
          /\ Append(applied[q], e.pos) \in Seq(Changes)
      BY <2>1, <2>2 DEF Event
    <2>4. \/ UNCHANGED <<ckpt, applied, handle>>
          \/ /\ ckpt' = [ckpt EXCEPT ![q] = e]
             /\ applied' = [applied EXCEPT ![q] = Append(@, e.pos)]
             /\ handle' = [handle EXCEPT ![q] = e.seq]
      BY <1>15 DEF Process
    <2> HIDE DEF e
    <2>5. /\ handle' \in [Queries -> Nat \union {None}]
          /\ ckpt' \in [Queries -> [seq : Nat, pos : Changes \union {0}]]
          /\ applied' \in [Queries -> Seq(Changes)]
      <3>1. /\ handle \in [Queries -> Nat \union {None}]
            /\ ckpt \in [Queries -> [seq : Nat, pos : Changes \union {0}]]
            /\ applied \in [Queries -> Seq(Changes)]
        BY <1>1 DEF QueryType
      <3>2. CASE UNCHANGED <<ckpt, applied, handle>>
        BY <3>1, <3>2
      <3>3. CASE /\ ckpt' = [ckpt EXCEPT ![q] = e]
                 /\ applied' = [applied EXCEPT ![q] = Append(@, e.pos)]
                 /\ handle' = [handle EXCEPT ![q] = e.seq]
        <4>1. handle' \in [Queries -> Nat \union {None}]
          BY <2>3, <3>1, <3>3
        <4>2. ckpt' \in [Queries -> [seq : Nat, pos : Changes \union {0}]]
          BY <2>3, <3>1, <3>3
        <4>3. applied' \in [Queries -> Seq(Changes)]
          BY <2>3, <3>1, <3>3
        <4> QED
          BY <4>1, <4>2, <4>3
      <3> QED
        BY <2>4, <3>2, <3>3
    <2>6. queue' \in [Queries -> Seq(Event)]
      BY <1>1, <1>15, <2>2 DEF Process, QueryType
    <2> QED
      BY <1>1, <1>15, <2>5, <2>6 DEF Process, FlagType, StreamType, QueryType, slot, stream
  <1>16. ASSUME NEW q \in Queries, Stop(q) PROVE FlagType' /\ StreamType' /\ QueryType'
    <2>1. FlagType'
      BY <1>1, <1>16 DEF Stop, FlagType, stream
    <2>2. StreamType'
      BY <1>1, <1>16 DEF Stop, Fault, StreamType, slot, stream
    <2>3. QueryType'
      BY <1>1, <1>16 DEF Stop, QueryType
    <2> QED
      BY <2>1, <2>2, <2>3
  <1>17. CASE SubscriptionsComplete
    BY <1>1, <1>17, LsnFacts DEF SubscriptionsComplete, FlagType, StreamType, QueryType, slot,
                                 stream, queryVars
  <1>18. CASE FenceTimeout
    <2>1. StreamType'
      BY <1>1, <1>18, LsnFacts DEF FenceTimeout, Fault, StreamType, slot, stream
    <2> QED
      BY <1>1, <1>18, <2>1 DEF FenceTimeout, FlagType, QueryType, stream, queryVars
  <1>19. CASE Crash
    <2>1. FlagType'
      BY <1>19 DEF Crash, EndTask, FlagType
    <2>2. StreamType'
      BY <1>1, <1>19, LsnFacts DEF Crash, EndTask, Fault, StreamType, slot
    <2>3. QueryType'
      BY <1>1, <1>19 DEF Crash, QueryType
    <2> QED
      BY <2>1, <2>2, <2>3
  <1>20. CASE UNCHANGED vars
    BY <1>1, <1>20 DEF vars, FlagType, StreamType, QueryType
  <1> QED
    BY <1>2, <1>3, <1>4, <1>5, <1>6, <1>7, <1>8, <1>9, <1>10, <1>11, <1>12, <1>13, <1>14, <1>15,
       <1>16, <1>17, <1>18, <1>19, <1>20 DEF Next

\* TypeOK: every variable of the source, the slot and the queries keeps to its
\* values, with all the races of the code allowed.
THEOREM TypeCorrect == Spec => []TypeOK
  <1>1. Init => TypeOK
    <2> SUFFICES ASSUME Init PROVE FlagType /\ StreamType /\ QueryType
      BY TypeParts
    <2>1. FlagType
      BY DEF Init, FlagType
    <2>2. 1 \in 0..NoFence /\ 0 \in 0..NoFence /\ NoFence \in 0..NoFence /\ 1 \in 1..Len(Txn) + 1
      <3>1. 0 \in 0..Len(Txn)
        BY LsnFacts
      <3> QED
        BY <3>1, LsnFacts
    <2>3. StreamType
      BY <2>2 DEF Init, StreamType
    <2>4. QueryType
      BY DEF Init, QueryType
    <2> QED
      BY <2>1, <2>3, <2>4
  <1> QED
    BY <1>1, TypeStep, PTL DEF Spec
----------------------------------------------------------------------------
(* What a step leaves alone.                                               *)

\* A query that a step does not touch.
Same(q) ==
    /\ phase'[q] = phase[q] /\ rewind'[q] = rewind[q] /\ attached'[q] = attached[q]
    /\ mark'[q] = mark[q] /\ box'[q] = box[q] /\ queue'[q] = queue[q]
    /\ handle'[q] = handle[q] /\ ckpt'[q] = ckpt[q] /\ applied'[q] = applied[q]

LEMMA SamePhase ==
    ASSUME NEW q \in Queries, Same(q)
    PROVE  /\ Served(q)' <=> Served(q)
           /\ Holds(q)' <=> Holds(q)
           /\ Subscribing(q)' <=> Subscribing(q)
           /\ InPlace(q)' <=> InPlace(q)
           /\ Joining(q)' <=> Joining(q)
           /\ Rewinding(q)' <=> Rewinding(q)
           /\ Place(q)' = Place(q)
           /\ ResumeLsn(q)' = ResumeLsn(q)
  BY DEF Same, Served, Holds, Subscribing, InPlace, Joining, Rewinding, Place, ResumeLsn

\* ... keeps what it has absorbed and what is on its way to it.
LEMMA SameOwn ==
    ASSUME NEW q \in Queries, Same(q), StreamType, QueryType, seq' \in Nat, seq <= seq',
           AppliedAt(q), RoomAt(q), OrderAt(q), SeqAt(q)
    PROVE  AppliedAt(q)' /\ RoomAt(q)' /\ OrderAt(q)' /\ SeqAt(q)'
  <1>1. AppliedAt(q)'
    BY DEF Same, AppliedAt
  <1>2. RoomAt(q)'
    BY SamePhase DEF Same, RoomAt
  <1>3. OrderAt(q)'
    BY SamePhase DEF Same, OrderAt
  <1>4. SeqAt(q)'
    <2>1. seq \in Nat /\ ckpt[q].seq \in Nat
      BY ResumeLsnType DEF StreamType
    <2> QED
      BY <2>1, PendingType DEF Same, SeqAt
  <1> QED
    BY <1>1, <1>2, <1>3, <1>4

\* ... and its place, if the stream goes on or ends.
LEMMA SamePlace ==
    ASSUME NEW q \in Queries, Same(q), positions' \subseteq positions, flush' = flush,
           task' => task /\ next' = next /\ start' = start,
           status' = "stopped" => ~Joining(q) \/ status = "stopped",
           LockAt(q), ServeAt(q), SlotAt(q), MapAt(q)
    PROVE  LockAt(q)' /\ ServeAt(q)' /\ SlotAt(q)' /\ MapAt(q)'
  <1>1. LockAt(q)'
    BY SamePhase DEF Same, LockAt
  <1>2. ServeAt(q)'
    BY SamePhase DEF Same, ServeAt, Reaches
  <1>3. SlotAt(q)'
    BY SamePhase DEF Same, SlotAt
  <1>4. MapAt(q)'
    BY SamePhase DEF Same, MapAt
  <1> QED
    BY <1>1, <1>2, <1>3, <1>4

\* The place of a query: at or after its checkpoint, and in the slot's reach.
LEMMA PlaceFacts ==
    ASSUME StreamType, QueryType, NEW q \in Queries, OrderAt(q), SlotAt(q),
           InPlace(q) \/ Joining(q)
    PROVE  /\ Place(q) \in 0..Len(Txn)
           /\ ckpt[q].pos <= Place(q)
           /\ Reaches(flush, Place(q))
  <1>1. /\ ckpt[q].pos \in 0..Len(Txn) /\ ResumeLsn(q) = Lsn(ckpt[q].pos)
        /\ flush \in Nat /\ ResumeLsn(q) \in Nat
    BY ResumeLsnType, LsnFacts DEF ResumeLsn, StreamType
  <1>2. Place(q) \in 0..Len(Txn) /\ ckpt[q].pos <= Place(q)
    <2>1. CASE Served(q)
      <3>1. mark[q] = ckpt[q].pos + Len(queue[q]) + Len(box[q])
        BY <2>1 DEF OrderAt, InPlace, Joining, Served, Subscribing
      <3>2. Len(queue[q]) \in Nat /\ Len(box[q]) \in Nat /\ mark[q] \in Changes \union {0, None}
        BY DEF QueryType
      <3>3. mark[q] \in 0..Len(Txn) /\ ckpt[q].pos <= mark[q]
        <4>1. mark[q] \in Nat /\ ckpt[q].pos <= mark[q]
          BY <1>1, <3>1, <3>2
        <4> QED
          BY <3>2, <4>1, LsnFacts DEF Changes, None
      <3> QED
        BY <2>1, <3>3 DEF Place
    <2>2. CASE ~Served(q)
      BY <1>1, <2>2, LsnFacts DEF Place
    <2> QED
      BY <2>1, <2>2
  <1>3. flush <= Lsn(ckpt[q].pos)
    BY <1>1 DEF SlotAt, Holds, InPlace, Joining, Served, Subscribing
  <1>4. ASSUME Place(q) < Len(Txn) PROVE flush <= Lsn(Place(q) + 1)
    <2>1. Place(q) + 1 \in 0..Len(Txn) /\ ckpt[q].pos <= Place(q) + 1
      BY <1>1, <1>2, <1>4, LsnFacts
    <2>2. Lsn(ckpt[q].pos) <= Lsn(Place(q) + 1) /\ Lsn(Place(q) + 1) \in Nat
      BY <1>1, <2>1, LsnOrder, LsnFacts
    <2> QED
      BY <1>1, <1>3, <2>2
  <1> QED
    BY <1>2, <1>4, LsnFacts DEF Reaches

\* What reaches the change after a position reaches the ones after later positions.
LEMMA ReachesOn ==
    ASSUME NEW lsn \in Nat, NEW p \in 0..Len(Txn), NEW r \in 0..Len(Txn), p <= r, Reaches(lsn, p)
    PROVE  Reaches(lsn, r)
  <1> SUFFICES ASSUME r < Len(Txn) PROVE lsn <= Lsn(r + 1)
    BY LsnFacts DEF Reaches
  <1>1. p + 1 \in 0..Len(Txn) /\ r + 1 \in 0..Len(Txn) /\ p + 1 <= r + 1 /\ p < Len(Txn)
    BY LsnFacts
  <1>2. Lsn(p + 1) <= Lsn(r + 1) /\ Lsn(p + 1) \in Nat /\ Lsn(r + 1) \in Nat
    BY <1>1, LsnOrder, LsnFacts
  <1>3. lsn <= Lsn(p + 1)
    BY <1>1, LsnFacts DEF Reaches
  <1> QED
    BY <1>2, <1>3

\* A new connection.
LEMMA ConnectFacts ==
    ASSUME StreamType, flush >= 1, NEW lsn \in 1..NoFence \union {None}, Connect(lsn),
           flush' = flush
    PROVE  /\ task' = TRUE /\ start' = lsn /\ read' >= 1
           /\ ReadInv'
           /\ \A p \in 0..Len(Txn) :
                 Reaches(flush, p) /\ (lsn # None => Reaches(lsn, p)) => next' <= p + 1
  <1> DEFINE from == IF lsn = None THEN flush ELSE lsn
  <1>1. flush \in Nat /\ from \in Nat /\ from >= 1 /\ (lsn # None => from = lsn)
    BY LsnFacts DEF StreamType, None
  <1>2. task' = TRUE /\ start' = lsn /\ read' = from /\ next' = FirstFrom(from)
    BY DEF Connect
  <1>3. from = flush \/ (lsn # None /\ from = lsn)
    OBVIOUS
  <1> HIDE DEF from
  <1>4. /\ next' \in 1..Len(Txn) + 1
        /\ next' <= Len(Txn) => from <= Lsn(next')
        /\ \A c \in Changes : from <= Lsn(c) /\ flush <= Lsn(c) => next' <= c
    BY <1>1, <1>2, FirstFromFacts
  <1>5. next' = 1 \/ Lsn(next' - 1) < from \/ Lsn(next' - 1) < flush
    <2> SUFFICES ASSUME next' # 1, ~(Lsn(next' - 1) < from), ~(Lsn(next' - 1) < flush) PROVE FALSE
      OBVIOUS
    <2> DEFINE n == next'
    <2>1. n - 1 \in Changes /\ n - 1 \in 0..Len(Txn) /\ n \in Nat
      <3>1. n \in 1..Len(Txn) + 1 /\ n # 1
        BY <1>4
      <3> HIDE DEF n
      <3> QED
        BY <3>1, LsnFacts DEF Changes
    <2>2. Lsn(next' - 1) \in Nat
      BY <2>1, LsnFacts
    <2>3. from <= Lsn(next' - 1) /\ flush <= Lsn(next' - 1)
      BY <1>1, <2>2
    <2>4. n <= n - 1
      BY <1>4, <2>1, <2>3
    <2> HIDE DEF n
    <2> QED
      BY <2>1, <2>4
  <1>6. ReadInv'
    <2>1. next' = Len(Txn) + 1 \/ next' <= Len(Txn)
      BY <1>4, LsnFacts
    <2>2. next' = Len(Txn) + 1 \/ from <= Lsn(next')
      BY <1>4, <2>1
    <2>3. start' # None => 1 <= start' /\ start' <= read'
      BY <1>1, <1>2
    <2> QED
      BY <1>2, <1>5, <2>2, <2>3 DEF ReadInv
  <1>7. ASSUME NEW p \in 0..Len(Txn), Reaches(flush, p), lsn # None => Reaches(lsn, p)
        PROVE  next' <= p + 1
    <2>1. CASE p >= Len(Txn)
      BY <1>4, <2>1, LsnFacts
    <2>2. CASE p < Len(Txn)
      <3>1. p + 1 \in Changes
        BY <2>2, LsnFacts DEF Changes
      <3>2. flush <= Lsn(p + 1) /\ from <= Lsn(p + 1)
        BY <1>3, <1>7, <2>2, LsnFacts DEF Reaches
      <3> QED
        BY <1>4, <3>1, <3>2
    <2> QED
      BY <2>1, <2>2, LsnFacts
  <1> QED
    BY <1>1, <1>2, <1>6, <1>7

----------------------------------------------------------------------------
(* The steps of the source.                                                *)

\* What a query keeps when no query moves.
LEMMA AllSame ==
    ASSUME IInv, UNCHANGED <<queryVars, seq>>
    PROVE  /\ \A q \in Queries : /\ Same(q)
                                 /\ AppliedAt(q)' /\ RoomAt(q)' /\ OrderAt(q)' /\ SeqAt(q)'
           /\ LockInv' /\ RewindInv'
  <1>1. StreamType /\ QueryType /\ seq \in Nat
    BY TypeParts DEF IInv, StreamType
  <1>2. ASSUME NEW q \in Queries PROVE Same(q)
    BY DEF queryVars, Same
  <1>3. ASSUME NEW q \in Queries
        PROVE  AppliedAt(q)' /\ RoomAt(q)' /\ OrderAt(q)' /\ SeqAt(q)'
    <2>1. AppliedAt(q) /\ RoomAt(q) /\ OrderAt(q) /\ SeqAt(q)
      BY DEF IInv, Inv, QueryInv
    <2> QED
      BY <1>1, <1>2, <2>1, SameOwn
  <1>4. LockInv'
    BY <1>2, SamePhase DEF IInv, Inv, LockInv
  <1>5. RewindInv'
    BY DEF queryVars, IInv, Inv, RewindInv, Rewinding, InPlace, Subscribing, Served
  <1> QED
    BY <1>2, <1>3, <1>4, <1>5

\* A connection that starts where no query is passed over.
LEMMA ConnectStep ==
    ASSUME IInv, UNCHANGED <<queryVars, seq, slot, positions>>, status' = "running",
           NEW lsn \in 1..NoFence \union {None}, Connect(lsn),
           \A q \in Queries : ~(Rewinding(q) /\ phase[q] = "attached"),
           lsn = None \/ \A q \in Queries : InPlace(q) \/ Joining(q) => Reaches(lsn, Place(q))
    PROVE  Inv'
  <1>1. StreamType /\ QueryType /\ flush' = flush /\ restart' = restart
    BY TypeParts DEF IInv, slot
  <1>2. StatusInv /\ QueryInv
    BY DEF IInv, Inv
  <1>3. /\ task' = TRUE /\ start' = lsn /\ read' >= 1 /\ ReadInv'
        /\ \A p \in 0..Len(Txn) :
              Reaches(flush, p) /\ (lsn # None => Reaches(lsn, p)) => next' <= p + 1
    BY <1>1, <1>2, ConnectFacts DEF StatusInv
  <1>4. StatusInv'
    BY <1>1, <1>2, <1>3 DEF StatusInv
  <1>5. ASSUME NEW q \in Queries PROVE LockAt(q)' /\ ServeAt(q)' /\ SlotAt(q)' /\ MapAt(q)'
    <2>1. LockAt(q) /\ ServeAt(q) /\ SlotAt(q) /\ MapAt(q) /\ OrderAt(q) /\ Same(q)
      BY <1>2, AllSame DEF QueryInv
    <2>2. LockAt(q)'
      BY <2>1, SamePhase DEF LockAt, Same
    <2>3. SlotAt(q)' /\ MapAt(q)'
      BY <1>1, <2>1, SamePhase DEF SlotAt, MapAt, Same
    <2>4. ServeAt(q)'
      <3> SUFFICES ASSUME InPlace(q)' \/ Joining(q)'
                   PROVE  /\ next' <= Place(q)' + 1
                          /\ start' # None => Reaches(start', Place(q)')
                          /\ \A e \in positions' : e.pos <= Place(q)'
        BY DEF ServeAt, Reaches
      <3>1. (InPlace(q) \/ Joining(q)) /\ Place(q)' = Place(q)
        BY <2>1, SamePhase
      <3>2. Place(q) \in 0..Len(Txn) /\ Reaches(flush, Place(q))
        BY <1>1, <2>1, <3>1, PlaceFacts
      <3> QED
        BY <1>3, <2>1, <3>1, <3>2 DEF ServeAt
    <2> QED
      BY <2>2, <2>3, <2>4
  <1> QED
    BY <1>3, <1>4, <1>5, AllSame DEF Inv, QueryInv

LEMMA StartSourceStep ==
    ASSUME IInv, StartSource
    PROVE  Inv'
  <1>1. \A q \in Queries : ~(Rewinding(q) /\ phase[q] = "attached")
    BY DEF StartSource, UnderWay, Rewinding
  <1>2. /\ UNCHANGED <<queryVars, seq, slot, positions>> /\ status' = "running"
        /\ Connect(None)
    BY DEF StartSource
  <1> QED
    BY <1>1, <1>2, ConnectStep

LEMMA ReconnectStep ==
    ASSUME IInv, Reconnect
    PROVE  Inv'
  <1>1. task /\ Connect(start) /\ UNCHANGED <<queryVars, seq, slot, positions, status>>
    BY DEF Reconnect
  <1>2. StreamType /\ StatusInv /\ QueryInv
    BY TypeParts DEF IInv, Inv
  <1>3. status' = "running"
    BY <1>1, <1>2 DEF StatusInv
  <1>4. \A q \in Queries : ~(Rewinding(q) /\ phase[q] = "attached")
    BY <1>1, <1>2 DEF QueryInv, LockAt
  <1>5. start \in 0..NoFence \union {None}
    BY <1>2 DEF StreamType
  <1>6. start = None \/ \A q \in Queries : InPlace(q) \/ Joining(q) => Reaches(start, Place(q))
    BY <1>1, <1>2 DEF QueryInv, ServeAt
  <1>7. start # None => 1 <= start
    BY <1>1 DEF IInv, Inv, ReadInv
  <1>8. start \in 1..NoFence \union {None}
    BY <1>5, <1>7, LsnFacts
  <1> QED
    BY <1>1, <1>3, <1>4, <1>6, <1>8, ConnectStep

LEMMA KeepaliveStep ==
    ASSUME IInv, Keepalive
    PROVE  Inv'
  <1>1. /\ task /\ read' = Max({read, EndLsn(next - 1)})
        /\ UNCHANGED <<flush, restart, status, task, start, next, seq, positions, queryVars>>
    BY DEF Keepalive, slot
  <1>2. StreamType /\ StatusInv /\ QueryInv /\ ReadInv
    BY TypeParts DEF IInv, Inv
  <1>3. /\ next - 1 \in 0..Len(Txn) /\ read \in Nat
        /\ (start # None => start \in Nat) /\ flush \in Nat
    BY <1>2, LsnFacts DEF StreamType
  <1>4. EndLsn(next - 1) = Lsn(next - 1) + 1 /\ Lsn(next - 1) \in Nat
    BY <1>3, LsnFacts
  <1>5. read' \in Nat /\ read' >= read /\ (read' = read \/ read' = EndLsn(next - 1))
    BY <1>1, <1>3, <1>4, MaxOfTwo
  <1>6. ReadInv'
    BY <1>1, <1>2, <1>3, <1>4, <1>5 DEF ReadInv
  <1>7. StatusInv'
    BY <1>1, <1>2, <1>3, <1>5 DEF StatusInv, queryVars, Rewinding, InPlace, Served, Subscribing
  <1>8. ASSUME NEW q \in Queries PROVE LockAt(q)' /\ ServeAt(q)' /\ SlotAt(q)' /\ MapAt(q)'
    BY <1>1, <1>2, AllSame, SamePlace DEF QueryInv
  <1> QED
    BY <1>1, <1>6, <1>7, <1>8, AllSame DEF Inv, QueryInv

LEMMA StreamFailsStep ==
    ASSUME IInv, StreamFails
    PROVE  Inv'
  <1>1. /\ task' = FALSE /\ status' = "error"
        /\ UNCHANGED <<flush, restart, read, seq, positions, queryVars>>
    BY DEF StreamFails, EndTask, slot
  <1>2. StatusInv /\ QueryInv
    BY DEF IInv, Inv
  <1>3. ReadInv' /\ StatusInv'
    BY <1>1, <1>2 DEF ReadInv, StatusInv
  <1>4. ASSUME NEW q \in Queries PROVE LockAt(q)' /\ ServeAt(q)' /\ SlotAt(q)' /\ MapAt(q)'
    BY <1>1, <1>2, AllSame, SamePlace DEF QueryInv
  <1> QED
    BY <1>1, <1>3, <1>4, AllSame DEF Inv, QueryInv

\* The fence has no part in the invariant: it delays what the slot may do.
LEMMA FenceStep ==
    ASSUME IInv, UNCHANGED <<slot, stream, seq, positions, queryVars>>
    PROVE  Inv'
  <1>1. UNCHANGED <<flush, restart, status, task, start, next, read, seq, positions, queryVars>>
    BY DEF slot, stream
  <1>2. StatusInv /\ QueryInv /\ ReadInv
    BY DEF IInv, Inv
  <1>3. ReadInv' /\ StatusInv'
    BY <1>1, <1>2 DEF ReadInv, StatusInv, queryVars, Rewinding, InPlace, Served, Subscribing
  <1>4. ASSUME NEW q \in Queries PROVE LockAt(q)' /\ ServeAt(q)' /\ SlotAt(q)' /\ MapAt(q)'
    BY <1>1, <1>2, AllSame, SamePlace DEF QueryInv
  <1> QED
    BY <1>1, <1>3, <1>4, AllSame DEF Inv, QueryInv

\* The slot advances no further than the slowest query in its own log.
LEMMA FeedbackStep ==
    ASSUME IInv, Races = {}, Feedback
    PROVE  Inv'
  <1> DEFINE sent == Min({ConfirmedLsn, fence})
  <1>1. /\ \A q \in Queries : UnderWay(q) => sent <= ResumeLsn(q)
        /\ flush' = Max({flush, sent}) /\ restart' = flush' /\ positions' \subseteq positions
        /\ UNCHANGED <<status, task, start, next, read, seq, queryVars>>
    BY DEF Feedback, stream
  <1>2. StreamType /\ QueryType /\ StatusInv /\ QueryInv /\ ReadInv
    BY TypeParts DEF IInv, Inv
  <1>3. /\ ConfirmedSeq \in Nat \union {None}
        /\ \A q \in Queries : handle[q] # None => ConfirmedSeq <= handle[q]
    BY <1>2, ConfirmedSeqFacts DEF QueryType
  <1>4. /\ ConfirmedLsn \in 0..NoFence
        /\ \/ ConfirmedLsn = 0
           \/ \E e \in positions : e.seq <= ConfirmedSeq /\ ConfirmedLsn = Lsn(e.pos)
    BY <1>2, <1>3, ConfirmedLsnFacts DEF StreamType
  <1>5. sent \in Nat /\ sent <= ConfirmedLsn
    <2>1. fence \in Nat /\ ConfirmedLsn \in Nat
      BY <1>2, <1>4, LsnFacts DEF StreamType
    <2> QED
      BY <2>1, MinOfTwo
  <1> HIDE DEF sent
  <1>6. flush \in Nat /\ flush' \in Nat /\ flush <= flush' /\ (flush' = flush \/ flush' = sent)
    <2>1. flush \in Nat
      BY <1>2, LsnFacts DEF StreamType
    <2> QED
      BY <1>1, <1>5, <2>1, MaxOfTwo
  <1>7. ASSUME NEW q \in Queries, Holds(q) PROVE sent <= ResumeLsn(q)
    <2>1. CASE UnderWay(q)
      BY <1>1, <2>1
    <2>2. CASE ~UnderWay(q)
      <3>1. phase[q] = "running" /\ RoomAt(q) /\ MapAt(q)
        BY <1>2, <1>7, <2>2 DEF QueryInv, Holds, UnderWay, Subscribing
      <3>2. handle[q] = ckpt[q].seq /\ ckpt[q].seq \in Nat /\ ckpt[q].pos \in 0..Len(Txn)
            /\ ResumeLsn(q) \in Nat
        BY <1>2, <3>1, ResumeLsnType, LsnFacts DEF RoomAt
      <3>3. ConfirmedSeq <= ckpt[q].seq
        BY <1>3, <3>2 DEF None
      <3>4. CASE ConfirmedLsn = 0
        BY <1>4, <1>5, <3>2, <3>4
      <3>5. ASSUME NEW e \in positions, e.seq <= ConfirmedSeq, ConfirmedLsn = Lsn(e.pos)
            PROVE  sent <= ResumeLsn(q)
        <4>1. e.seq \in Nat /\ e.pos \in 0..Len(Txn)
          BY <1>2, LsnFacts DEF StreamType, Event, Changes
        <4>2. e.seq <= ckpt[q].seq
          BY <1>3, <3>2, <3>3, <3>5, <4>1 DEF None
        <4>3. e.pos <= ckpt[q].pos
          BY <3>1, <4>2 DEF MapAt, Served
        <4>4. Lsn(e.pos) <= Lsn(ckpt[q].pos) /\ Lsn(e.pos) \in Nat
          BY <3>2, <4>1, <4>3, LsnOrder, LsnFacts
        <4> QED
          BY <1>5, <3>2, <3>5, <4>4 DEF ResumeLsn
      <3> QED
        BY <1>4, <3>4, <3>5
    <2> QED
      BY <2>1, <2>2
  <1>8. ReadInv'
    <2>1. ASSUME next # 1 PROVE Lsn(next - 1) \in Nat
      BY <1>2, <2>1, LsnFacts DEF StreamType
    <2> QED
      BY <1>1, <1>2, <1>6, <2>1 DEF ReadInv
  <1>9. StatusInv'
    BY <1>1, <1>2, <1>6 DEF StatusInv, queryVars, Rewinding, InPlace, Served, Subscribing
  <1>10. ASSUME NEW q \in Queries PROVE LockAt(q)' /\ ServeAt(q)' /\ SlotAt(q)' /\ MapAt(q)'
    <2>1. LockAt(q) /\ ServeAt(q) /\ SlotAt(q) /\ MapAt(q) /\ Same(q)
      BY <1>1, <1>2, AllSame DEF QueryInv
    <2>2. LockAt(q)'
      BY <1>1, <2>1, SamePhase DEF LockAt, Same
    <2>3. ServeAt(q)'
      BY <1>1, <2>1, SamePhase DEF ServeAt, Reaches
    <2>4. SlotAt(q)'
      BY <1>6, <1>7, <2>1, SamePhase DEF SlotAt
    <2>5. MapAt(q)'
      BY <1>1, <2>1, SamePhase DEF MapAt, Same
    <2> QED
      BY <2>2, <2>3, <2>4, <2>5
  <1> QED
    BY <1>1, <1>8, <1>9, <1>10, AllSame DEF Inv, QueryInv

\* A change goes to the queries in place that have everything before it.
LEMMA DispatchStep ==
    ASSUME IInv, Races = {}, Dispatch
    PROVE  Inv'
  <1> DEFINE new == [seq |-> seq, pos |-> next]
  <1>1. /\ task /\ next <= Len(Txn)
        /\ \A q \in Queries : Subscribing(q) => rewind[q] # None
        /\ box' = Delivered(Queries)
        /\ mark' = [q \in Queries |-> IF attached[q] /\ Passes(q, next) THEN next ELSE mark[q]]
        /\ seq' = seq + 1 /\ positions' = positions \union {new}
        /\ read' = EndLsn(next) /\ next' = next + 1
        /\ UNCHANGED <<flush, restart, status, task, start, phase, rewind, attached, queue,
                       handle, ckpt, applied>>
    BY DEF Dispatch, NextSequence, slot
  <1>2. StreamType /\ QueryType /\ StatusInv /\ QueryInv /\ ReadInv /\ LockInv /\ RewindInv
    BY TypeParts DEF IInv, Inv
  <1>3. /\ next \in Changes /\ next \in 0..Len(Txn) /\ next - 1 \in 0..Len(Txn) /\ next \in Nat
        /\ seq \in Nat /\ read \in Nat
    <2>1. next \in 1..Len(Txn) + 1 /\ seq \in Nat /\ read \in Nat
      BY <1>2, LsnFacts DEF StreamType
    <2> QED
      BY <1>1, <2>1, TxnLength DEF Changes
  <1>4. new.seq = seq /\ new.pos = next /\ new \in Event
    BY <1>2, <1>3 DEF Event, StreamType
  <1> HIDE DEF new
  <1>5. ASSUME NEW q \in Queries
        PROVE  /\ attached[q] <=> InPlace(q)
               /\ InPlace(q) => /\ mark[q] \in 0..Len(Txn) /\ next <= mark[q] + 1
                                /\ \A e \in positions : e.pos <= mark[q]
                                /\ start # None => Reaches(start, mark[q])
    <2>1. RoomAt(q) /\ LockAt(q) /\ ServeAt(q) /\ OrderAt(q) /\ SlotAt(q)
      BY <1>2 DEF QueryInv
    <2>2. attached[q] <=> InPlace(q)
      BY <1>1, <2>1 DEF RoomAt, LockAt, InPlace, Served, Rewinding, Subscribing
    <2>3. ASSUME InPlace(q) PROVE Place(q) = mark[q] /\ Place(q) \in 0..Len(Txn)
      BY <1>2, <2>1, <2>3, PlaceFacts DEF Place, InPlace
    <2> QED
      BY <1>1, <2>1, <2>2, <2>3 DEF ServeAt
  <1>6. ASSUME NEW q \in Queries
        PROVE  \/ /\ InPlace(q) /\ next = mark[q] + 1
                  /\ mark'[q] = next /\ box'[q] = Append(box[q], new)
               \/ /\ InPlace(q) => next <= mark[q]
                  /\ mark'[q] = mark[q] /\ box'[q] = box[q]
    <2>1. InPlace(q) => mark[q] # None
      BY <1>5 DEF None
    <2>2. InPlace(q) => (Passes(q, next) <=> next = mark[q] + 1)
      BY <1>3, <1>5, <2>1 DEF Passes
    <2>3. /\ mark'[q] = IF InPlace(q) /\ Passes(q, next) THEN next ELSE mark[q]
          /\ box'[q] = IF InPlace(q) /\ Passes(q, next) THEN Append(box[q], new) ELSE box[q]
      BY <1>1, <1>5 DEF Delivered, new
    <2>4. InPlace(q) /\ ~Passes(q, next) => next <= mark[q]
      BY <1>3, <1>5, <2>2
    <2> QED
      BY <2>2, <2>3, <2>4
  <1>7. ASSUME NEW q \in Queries
        PROVE  /\ Served(q)' <=> Served(q)
               /\ Subscribing(q)' <=> Subscribing(q)
               /\ InPlace(q)' <=> InPlace(q)
               /\ Joining(q)' <=> Joining(q)
               /\ Rewinding(q)' <=> Rewinding(q)
    BY <1>1 DEF Served, Subscribing, InPlace, Joining, Rewinding
  <1>8. ASSUME NEW q \in Queries
        PROVE  /\ InPlace(q) => mark'[q] \in 0..Len(Txn) /\ mark[q] <= mark'[q] /\ next <= mark'[q]
               /\ box[q] \in Seq(Event) /\ box'[q] \in Seq(Event)
    <2>1. box[q] \in Seq(Event)
      BY <1>2 DEF QueryType
    <2>2. box'[q] \in Seq(Event)
      BY <1>4, <1>6, <2>1
    <2> QED
      BY <1>3, <1>5, <1>6, <2>1, <2>2
  <1>9. ASSUME NEW q \in Queries PROVE AppliedAt(q)' /\ RoomAt(q)' /\ OrderAt(q)'
    <2>1. AppliedAt(q) /\ RoomAt(q) /\ OrderAt(q)
      BY <1>2 DEF QueryInv
    <2>2. AppliedAt(q)'
      BY <1>1, <2>1 DEF AppliedAt
    <2>3. RoomAt(q)'
      BY <1>1, <1>6, <1>7, <2>1 DEF RoomAt, InPlace
    <2>4. OrderAt(q)'
      <3>1. CASE box'[q] = box[q] /\ mark'[q] = mark[q]
        BY <1>1, <1>7, <2>1, <3>1 DEF OrderAt
      <3>2. CASE /\ InPlace(q) /\ next = mark[q] + 1
                 /\ mark'[q] = next /\ box'[q] = Append(box[q], new)
        <4>1. /\ Len(queue[q]) \in Nat /\ Len(box[q]) \in Nat /\ ckpt[q].pos \in Nat
              /\ mark[q] = ckpt[q].pos + Len(queue[q]) + Len(box[q])
          BY <1>2, <1>8, <2>1, <3>2, ResumeLsnType DEF OrderAt, QueryType
        <4>2. /\ Len(box'[q]) = Len(box[q]) + 1 /\ DOMAIN box'[q] = 1..Len(box[q]) + 1
              /\ \A i \in 1..Len(box[q]) : box'[q][i] = box[q][i]
              /\ box'[q][Len(box[q]) + 1] = new /\ DOMAIN box[q] = 1..Len(box[q])
          BY <1>8, <3>2
        <4>3. ASSUME NEW i \in DOMAIN box'[q] PROVE box'[q][i].pos = ckpt[q].pos + Len(queue[q]) + i
          <5> DEFINE a == ckpt[q].pos + Len(queue[q])
                     n == Len(box[q])
          <5>1. a \in Nat /\ n \in Nat /\ next = (a + n) + 1
            BY <3>2, <4>1
          <5>2. \A j \in 1..n : box'[q][j].pos = a + j
            BY <2>1, <4>2 DEF OrderAt
          <5>3. i \in 1..n \/ (i = n + 1 /\ box'[q][i].pos = next)
            <6>1. i \in 1..n + 1 /\ box'[q][n + 1].pos = next
              BY <1>4, <4>2
            <6> HIDE DEF n
            <6> QED
              BY <5>1, <6>1
          <5>4. box'[q][i].pos = a + i
            <6> HIDE DEF a, n
            <6> QED
              BY <5>1, <5>2, <5>3
          <5> QED
            BY <5>4
        <4>4. mark'[q] = ckpt[q].pos + Len(queue[q]) + Len(box'[q])
          <5> DEFINE a == ckpt[q].pos
                     b == Len(queue[q])
                     c == Len(box[q])
          <5>1. a \in Nat /\ b \in Nat /\ c \in Nat /\ mark'[q] = a + b + c + 1
            BY <3>2, <4>1
          <5>2. Len(box'[q]) = c + 1
            BY <4>2
          <5> HIDE DEF c
          <5>3. mark'[q] = a + b + (c + 1)
            <6> HIDE DEF a, b
            <6> QED
              BY <5>1
          <5> QED
            BY <5>2, <5>3
        <4> QED
          BY <1>1, <2>1, <4>3, <4>4 DEF OrderAt
      <3> QED
        BY <1>6, <3>1, <3>2
    <2> QED
      BY <2>2, <2>3, <2>4
  <1>10. ASSUME NEW q \in Queries PROVE SeqAt(q)'
    <2>1. /\ SeqAt(q) /\ ckpt[q].seq \in Nat
          /\ \A i \in DOMAIN box[q] : box[q][i].seq \in Nat
          /\ \A i \in DOMAIN queue[q] : queue[q][i].seq \in Nat
      BY <1>2, PendingType, ResumeLsnType DEF QueryInv
    <2>2. CASE box'[q] = box[q]
      BY <1>1, <1>3, <2>1, <2>2 DEF SeqAt
    <2>3. CASE InPlace(q) /\ box'[q] = Append(box[q], new)
      <3>1. /\ DOMAIN box'[q] = 1..Len(box[q]) + 1 /\ Len(box[q]) \in Nat
            /\ \A i \in 1..Len(box[q]) : box'[q][i] = box[q][i]
            /\ box'[q][Len(box[q]) + 1] = new /\ DOMAIN box[q] = 1..Len(box[q])
        BY <1>8, <2>3
      <3>2. ckpt[q].seq < seq
        BY <2>1, <2>3 DEF SeqAt, InPlace, Served
      <3>3. ASSUME NEW i \in DOMAIN box'[q]
            PROVE  \/ i \in DOMAIN box[q] /\ box'[q][i].seq = box[q][i].seq
                   \/ i = Len(box[q]) + 1 /\ box'[q][i].seq = seq
        <4>1. CASE i \in DOMAIN box[q]
          BY <3>1, <4>1
        <4>2. CASE i \notin DOMAIN box[q]
          <5>1. i = Len(box[q]) + 1
            BY <3>1, <4>2
          <5> QED
            BY <1>4, <3>1, <5>1
        <4> QED
          BY <4>1, <4>2
      <3>4. \A i \in DOMAIN box'[q] : ckpt[q].seq < box'[q][i].seq /\ box'[q][i].seq < seq + 1
        <4>1. \A i \in DOMAIN box[q] : ckpt[q].seq < box[q][i].seq /\ box[q][i].seq < seq
          BY <2>1 DEF SeqAt
        <4> QED
          BY <1>3, <2>1, <3>2, <3>3, <4>1
      <3>5. \A i \in DOMAIN queue[q], j \in DOMAIN box'[q] : queue[q][i].seq < box'[q][j].seq
        <4>1. /\ \A i \in DOMAIN queue[q], j \in DOMAIN box[q] : queue[q][i].seq < box[q][j].seq
              /\ \A i \in DOMAIN queue[q] : queue[q][i].seq < seq
          BY <2>1 DEF SeqAt
        <4> QED
          BY <3>3, <4>1
      <3>6. \A i, j \in DOMAIN box'[q] : i < j => box'[q][i].seq < box'[q][j].seq
        <4>1. /\ \A i, j \in DOMAIN box[q] : i < j => box[q][i].seq < box[q][j].seq
              /\ \A i \in DOMAIN box[q] : box[q][i].seq < seq
          BY <2>1 DEF SeqAt
        <4>2. \A i \in DOMAIN box[q] : i \in Nat /\ i <= Len(box[q])
          BY <3>1
        <4> QED
          BY <3>1, <3>3, <4>1, <4>2
      <3>7. ckpt[q].seq < seq + 1 /\ \A i \in DOMAIN queue[q] : queue[q][i].seq < seq + 1
        BY <1>3, <2>1, <3>2 DEF SeqAt
      <3> QED
        BY <1>1, <2>1, <3>4, <3>5, <3>6, <3>7 DEF SeqAt
    <2> QED
      BY <1>6, <2>2, <2>3
  <1>11. ASSUME NEW q \in Queries PROVE LockAt(q)' /\ SlotAt(q)'
    <2>1. LockAt(q) /\ SlotAt(q)
      BY <1>2 DEF QueryInv
    <2>2. ~(Rewinding(q) /\ phase[q] = "attached")
      BY <1>1, <2>1 DEF LockAt
    <2> QED
      BY <1>1, <1>7, <2>1, <2>2 DEF LockAt, SlotAt, Holds, ResumeLsn
  <1>12. ASSUME NEW q \in Queries PROVE ServeAt(q)'
    <2> SUFFICES ASSUME InPlace(q)
                 PROVE  /\ next' <= mark'[q] + 1
                        /\ start # None => Reaches(start, mark'[q])
                        /\ \A e \in positions' : e.pos <= mark'[q]
      BY <1>1, <1>7 DEF ServeAt, Place, InPlace, Joining, Reaches
    <2>1. next' <= mark'[q] + 1
      BY <1>1, <1>3, <1>8
    <2>2. start # None => Reaches(start, mark'[q])
      <3>1. start # None => start \in Nat
        BY <1>2, LsnFacts DEF StreamType
      <3> QED
        BY <1>5, <1>8, <3>1, ReachesOn
    <2>3. \A e \in positions : e.pos \in Nat
      BY <1>2, LsnFacts DEF StreamType, Event, Changes
    <2>4. ASSUME NEW e \in positions' PROVE e.pos <= mark'[q]
      BY <1>1, <1>3, <1>4, <1>5, <1>8, <2>3
    <2> QED
      BY <2>1, <2>2, <2>4
  <1>13. ASSUME NEW q \in Queries PROVE MapAt(q)'
    <2>1. MapAt(q) /\ SeqAt(q)
      BY <1>2 DEF QueryInv
    <2> SUFFICES ASSUME Served(q), NEW e \in positions'
                 PROVE  /\ e.seq <= ckpt[q].seq => e.pos <= ckpt[q].pos
                        /\ \A i \in DOMAIN queue[q] : e.seq <= queue[q][i].seq => e.pos <= queue[q][i].pos
                        /\ \A i \in DOMAIN box'[q] : e.seq <= box'[q][i].seq => e.pos <= box'[q][i].pos
      BY <1>1, <1>7 DEF MapAt
    <2>2. /\ ckpt[q].seq \in Nat
          /\ \A i \in DOMAIN box[q] : box[q][i].seq \in Nat
          /\ \A i \in DOMAIN queue[q] : queue[q][i].seq \in Nat
      BY <1>2, PendingType, ResumeLsnType
    <2>3. /\ ckpt[q].seq < seq
          /\ \A i \in DOMAIN queue[q] : queue[q][i].seq < seq
          /\ \A i \in DOMAIN box[q] : box[q][i].seq < seq
      BY <2>1 DEF SeqAt, Served
    <2>4. /\ e.seq <= ckpt[q].seq => e.pos <= ckpt[q].pos
          /\ \A i \in DOMAIN queue[q] : e.seq <= queue[q][i].seq => e.pos <= queue[q][i].pos
          /\ \A i \in DOMAIN box[q] : e.seq <= box[q][i].seq => e.pos <= box[q][i].pos
      <3>1. CASE e \in positions
        BY <2>1, <3>1 DEF MapAt
      <3>2. CASE e = new
        BY <1>3, <1>4, <2>2, <2>3, <3>2
      <3> QED
        BY <1>1, <3>1, <3>2
    <2>5. ASSUME InPlace(q), next = mark[q] + 1, NEW i \in DOMAIN box'[q], box'[q] = Append(box[q], new)
          PROVE  e.seq <= box'[q][i].seq => e.pos <= box'[q][i].pos
      <3>1. /\ DOMAIN box'[q] = 1..Len(box[q]) + 1 /\ Len(box[q]) \in Nat
            /\ \A k \in 1..Len(box[q]) : box'[q][k] = box[q][k]
            /\ box'[q][Len(box[q]) + 1] = new /\ DOMAIN box[q] = 1..Len(box[q])
        BY <1>8, <2>5
      <3>2. CASE i \in DOMAIN box[q]
        BY <2>4, <3>1, <3>2
      <3>3. CASE i \notin DOMAIN box[q]
        <4>1. box'[q][i] = new
          BY <2>5, <3>1, <3>3
        <4>2. e.pos <= next
          <5>1. \A f \in positions : f.pos \in Nat
            BY <1>2, LsnFacts DEF StreamType, Event, Changes
          <5> QED
            BY <1>1, <1>3, <1>4, <1>5, <2>5, <5>1
        <4> QED
          BY <1>4, <4>1, <4>2
      <3> QED
        BY <3>2, <3>3
    <2> QED
      BY <1>6, <2>4, <2>5
  <1>14. LockInv'
    BY <1>2, <1>7 DEF LockInv
  <1>15. RewindInv'
    <2> SUFFICES ASSUME NEW p \in Queries, NEW q \in Queries, Rewinding(q), InPlace(p)
                 PROVE  Reaches(rewind[q], mark'[p])
      BY <1>1, <1>7 DEF RewindInv, Reaches
    <2>1. Reaches(rewind[q], mark[p])
      BY <1>2 DEF RewindInv
    <2>2. rewind[q] \in Nat
      BY <1>2, LsnFacts DEF QueryType, Rewinding, None
    <2> QED
      BY <1>5, <1>8, <2>1, <2>2, ReachesOn
  <1>16. StatusInv'
    <2>1. read' >= 1
      BY <1>1, <1>3, LsnFacts
    <2> QED
      BY <1>1, <1>2, <1>7, <2>1 DEF StatusInv
  <1>17. ReadInv'
    <2>1. /\ Lsn(next) \in Nat /\ EndLsn(next) = Lsn(next) + 1
          /\ Lsn(next - 1) \in Nat /\ EndLsn(next - 1) = Lsn(next - 1) + 1
          /\ Lsn(next - 1) <= Lsn(next)
      BY <1>3, LsnFacts, LsnOrder
    <2>2. start # None => start \in Nat /\ 1 <= start /\ start <= read
      BY <1>1, <1>2, LsnFacts DEF ReadInv, StreamType
    <2>3. read <= Lsn(next) \/ read = EndLsn(next - 1)
      BY <1>1, <1>2, <1>3, LsnFacts DEF ReadInv
    <2>4. read <= read' /\ read' \in Nat
      BY <1>1, <1>3, <2>1, <2>3
    <2>5. next' - 1 = next /\ Lsn(next) < read' /\ read' = EndLsn(next)
      BY <1>1, <1>3, <2>1
    <2> QED
      BY <1>1, <1>3, <2>2, <2>4, <2>5 DEF ReadInv
  <1> QED
    BY <1>9, <1>10, <1>11, <1>12, <1>13, <1>14, <1>15, <1>16, <1>17 DEF Inv, QueryInv

LEMMA StopSourceStep ==
    ASSUME IInv, StopSource
    PROVE  Inv'
  <1>1. /\ \A q \in Queries : ~UnderWay(q)
        /\ status' = "stopped" /\ task' = FALSE /\ positions' = {}
        /\ attached' = [q \in Queries |-> FALSE] /\ mark' = [q \in Queries |-> None]
        /\ UNCHANGED <<flush, restart, seq, phase, rewind, box, queue, handle, ckpt, applied>>
    BY DEF StopSource, EndTask, slot
  <1>2. StatusInv /\ QueryInv
    BY DEF IInv, Inv
  <1>3. ASSUME NEW q \in Queries
        PROVE  /\ Served(q)' <=> Served(q)
               /\ ~Subscribing(q) /\ ~Subscribing(q)' /\ ~InPlace(q)'
    BY <1>1 DEF Served, Subscribing, UnderWay, InPlace
  <1>4. ASSUME NEW q \in Queries
        PROVE  /\ AppliedAt(q)' /\ RoomAt(q)' /\ OrderAt(q)' /\ SeqAt(q)'
               /\ LockAt(q)' /\ ServeAt(q)' /\ SlotAt(q)' /\ MapAt(q)'
    <2>1. AppliedAt(q) /\ RoomAt(q) /\ OrderAt(q) /\ SeqAt(q) /\ LockAt(q) /\ SlotAt(q)
      BY <1>2 DEF QueryInv
    <2>2. AppliedAt(q)' /\ SeqAt(q)' /\ SlotAt(q)'
      BY <1>1, <2>1 DEF AppliedAt, SeqAt, SlotAt, Holds, ResumeLsn
    <2>3. RoomAt(q)'
      <3>1. phase[q] \notin {"attached", "filtered"}
        BY <1>1 DEF UnderWay, Subscribing
      <3> QED
        BY <1>1, <1>3, <2>1, <3>1 DEF RoomAt
    <2>4. OrderAt(q)'
      BY <1>1, <1>3, <2>1 DEF OrderAt
    <2>5. LockAt(q)' /\ ServeAt(q)' /\ MapAt(q)'
      BY <1>1, <1>3, <2>1 DEF LockAt, ServeAt, MapAt, Rewinding, Joining
    <2> QED
      BY <2>2, <2>3, <2>4, <2>5
  <1>5. LockInv' /\ RewindInv' /\ ReadInv'
    BY <1>1, <1>3 DEF LockInv, RewindInv, ReadInv
  <1>6. StatusInv'
    BY <1>1, <1>2, <1>3 DEF StatusInv
  <1> QED
    BY <1>4, <1>5, <1>6 DEF Inv, QueryInv

LEMMA CrashStep ==
    ASSUME IInv, Crash
    PROVE  Inv'
  <1>1. /\ status' = "stopped" /\ task' = FALSE /\ positions' = {}
        /\ UNCHANGED <<flush, restart, ckpt, applied>>
        /\ \A q \in Queries : /\ phase'[q] = "idle" /\ rewind'[q] = None /\ attached'[q] = FALSE
                              /\ box'[q] = <<>> /\ queue'[q] = <<>> /\ handle'[q] = None
    BY DEF Crash, EndTask, slot
  <1>2. StatusInv /\ QueryInv
    BY DEF IInv, Inv
  <1>3. ASSUME NEW q \in Queries
        PROVE  ~Served(q)' /\ ~Subscribing(q)' /\ ~InPlace(q)' /\ ~Holds(q)'
    BY <1>1 DEF Served, Subscribing, InPlace, Holds
  <1>4. ASSUME NEW q \in Queries
        PROVE  /\ AppliedAt(q)' /\ RoomAt(q)' /\ OrderAt(q)' /\ SeqAt(q)'
               /\ LockAt(q)' /\ ServeAt(q)' /\ SlotAt(q)' /\ MapAt(q)'
    <2>1. AppliedAt(q)'
      BY <1>1, <1>2 DEF QueryInv, AppliedAt
    <2>2. RoomAt(q)' /\ OrderAt(q)' /\ SeqAt(q)'
      BY <1>1, <1>3 DEF RoomAt, OrderAt, SeqAt
    <2>3. LockAt(q)' /\ ServeAt(q)' /\ SlotAt(q)' /\ MapAt(q)'
      BY <1>1, <1>3 DEF LockAt, ServeAt, SlotAt, MapAt, Joining, Rewinding
    <2> QED
      BY <2>1, <2>2, <2>3
  <1>5. LockInv' /\ RewindInv' /\ ReadInv'
    BY <1>1, <1>3 DEF LockInv, RewindInv, ReadInv
  <1>6. StatusInv'
    BY <1>1, <1>2, <1>3 DEF StatusInv
  <1> QED
    BY <1>4, <1>5, <1>6 DEF Inv, QueryInv

----------------------------------------------------------------------------
(* The steps of a subscription.                                            *)

\* A step of one query leaves the others what they have, and their place.
LEMMA OthersKept ==
    ASSUME IInv, NEW q \in Queries, \A p \in Queries \ {q} : Same(p), seq' \in Nat, seq <= seq',
           positions' \subseteq positions, flush' = flush,
           task' => task /\ next' = next /\ start' = start,
           status' = "stopped" => status = "stopped"
    PROVE  \A p \in Queries \ {q} :
              /\ AppliedAt(p)' /\ RoomAt(p)' /\ OrderAt(p)' /\ SeqAt(p)'
              /\ LockAt(p)' /\ ServeAt(p)' /\ SlotAt(p)' /\ MapAt(p)'
  <1> SUFFICES ASSUME NEW p \in Queries \ {q}
               PROVE  /\ AppliedAt(p)' /\ RoomAt(p)' /\ OrderAt(p)' /\ SeqAt(p)'
                      /\ LockAt(p)' /\ ServeAt(p)' /\ SlotAt(p)' /\ MapAt(p)'
    OBVIOUS
  <1>1. StreamType /\ QueryType /\ Same(p)
    BY TypeParts DEF IInv
  <1>2. /\ AppliedAt(p) /\ RoomAt(p) /\ OrderAt(p) /\ SeqAt(p)
        /\ LockAt(p) /\ ServeAt(p) /\ SlotAt(p) /\ MapAt(p)
    BY DEF IInv, Inv, QueryInv
  <1>3. AppliedAt(p)' /\ RoomAt(p)' /\ OrderAt(p)' /\ SeqAt(p)'
    BY <1>1, <1>2, SameOwn
  <1>4. LockAt(p)' /\ ServeAt(p)' /\ SlotAt(p)' /\ MapAt(p)'
    BY <1>1, <1>2, SamePlace
  <1> QED
    BY <1>3, <1>4

\* The lock is free, so that a source that is up has its stream.
LEMMA CheckStep ==
    ASSUME IInv, Races = {}, NEW q \in Queries, Check(q)
    PROVE  Inv'
  <1>1. /\ phase[q] \in {"idle", "error"}
        /\ \A p \in Queries : ~Subscribing(p)
        /\ status # "error" \/ \A p \in Queries : attached[p] => ResumeLsn(q) <= Lsn(mark[p])
        /\ NeedsRewind(q) \/ \A e \in positions : e.pos < next
        /\ UNCHANGED <<flush, restart, status, task, start, next, read, seq, positions>>
        /\ UNCHANGED <<attached, mark, box, queue, handle, ckpt, applied>>
    BY DEF Check, slot, stream
  <1>2. StreamType /\ QueryType /\ StatusInv /\ QueryInv /\ ReadInv /\ LockInv /\ RewindInv
    BY TypeParts DEF IInv, Inv
  <1>3. /\ ckpt[q].pos \in 0..Len(Txn) /\ ResumeLsn(q) = Lsn(ckpt[q].pos) /\ ResumeLsn(q) \in Nat
        /\ flush \in Nat /\ read \in Nat /\ next \in 1..Len(Txn) + 1
    BY <1>2, ResumeLsnType, LsnFacts DEF ResumeLsn, StreamType
  <1>4. status = "running" <=> task
    BY <1>1, <1>2 DEF StatusInv, Rewinding
  <1>5. /\ AppliedAt(q) /\ RoomAt(q) /\ OrderAt(q) /\ SeqAt(q)
        /\ LockAt(q) /\ ServeAt(q) /\ SlotAt(q) /\ MapAt(q)
    BY <1>2 DEF QueryInv
  <1>6. \A p \in Queries \ {q} : Same(p)
    BY <1>2 DEF Check, QueryType, Same
  <1>7. \A p \in Queries \ {q} : /\ AppliedAt(p)' /\ RoomAt(p)' /\ OrderAt(p)' /\ SeqAt(p)'
                                 /\ LockAt(p)' /\ ServeAt(p)' /\ SlotAt(p)' /\ MapAt(p)'
    <2>1. seq' \in Nat /\ seq <= seq'
      BY <1>1, <1>2 DEF StreamType
    <2> QED
      BY <1>1, <1>6, <2>1, OthersKept
  <1>8. /\ AppliedAt(q)' /\ MapAt(q)' /\ OrderAt(q)' /\ SeqAt(q)' /\ RoomAt(q)'
        /\ ~Served(q)' /\ ~InPlace(q)'
    <2>1. phase'[q] \in {"checked", "error"} /\ ~attached[q] /\ queue[q] = <<>> /\ box[q] = <<>>
      BY <1>1, <1>2, <1>5 DEF Check, QueryType, RoomAt, Served
    <2>2. ~Served(q)' /\ ~InPlace(q)'
      BY <2>1 DEF Served, InPlace
    <2>3. AppliedAt(q)' /\ MapAt(q)'
      BY <1>1, <1>5, <2>2 DEF AppliedAt, MapAt
    <2>4. OrderAt(q)' /\ SeqAt(q)'
      BY <1>1, <1>5, <2>1, <2>2 DEF OrderAt, SeqAt
    <2>5. RoomAt(q)'
      BY <1>1, <1>5, <2>1, <2>2 DEF RoomAt
    <2> QED
      BY <2>2, <2>3, <2>4, <2>5
  <1>9. LockInv'
    <2>1. \A p \in Queries \ {q} : ~Subscribing(p)'
      BY <1>1, <1>6, SamePhase
    <2> QED
      BY <2>1 DEF LockInv
  <1>10. StatusInv'
    <2>1. \A p \in Queries : InPlace(p)' => InPlace(p)
      BY <1>6, <1>8, SamePhase
    <2> QED
      BY <1>1, <1>2, <1>4, <2>1 DEF StatusInv
  <1>11. ReadInv'
    BY <1>1, <1>2 DEF ReadInv
  <1>12. CASE ResumeLsn(q) < restart
    <2>1. phase'[q] = "error" /\ rewind' = rewind
      BY <1>2, <1>12 DEF Check, QueryType
    <2>2. ~Subscribing(q)' /\ ~Holds(q)'
      BY <2>1 DEF Subscribing, Holds
    <2>3. LockAt(q)' /\ ServeAt(q)' /\ SlotAt(q)'
      BY <1>1, <1>5, <1>8, <2>1, <2>2 DEF LockAt, ServeAt, SlotAt, Rewinding, Joining
    <2>4. RewindInv'
      BY <1>1, <1>6, <2>2, SamePhase DEF RewindInv, Rewinding
    <2> QED
      BY <1>7, <1>8, <1>9, <1>10, <1>11, <2>3, <2>4 DEF Inv, QueryInv
  <1>13. CASE ~(ResumeLsn(q) < restart)
    <2>1. phase'[q] = "checked" /\ rewind'[q] = IF NeedsRewind(q) THEN ResumeLsn(q) ELSE None
      BY <1>2, <1>13 DEF Check, QueryType
    <2>2. flush <= ResumeLsn(q)
      BY <1>2, <1>3, <1>13 DEF StatusInv
    <2>3. SlotAt(q)'
      BY <1>1, <2>2 DEF SlotAt, ResumeLsn
    <2>4. ResumeLsn(q)' = ResumeLsn(q) /\ Subscribing(q)' /\ Place(q)' = ckpt[q].pos
      BY <1>1, <1>8, <2>1 DEF ResumeLsn, Subscribing, Place
    <2>5. CASE NeedsRewind(q)
      <3>1. rewind'[q] = ResumeLsn(q) /\ Rewinding(q)' /\ ~Joining(q)' /\ phase'[q] # "attached"
        BY <1>3, <2>1, <2>4, <2>5 DEF Rewinding, Joining, None
      <3>2. LockAt(q)' /\ ServeAt(q)'
        BY <1>8, <2>4, <3>1 DEF LockAt, ServeAt
      <3>3. ASSUME NEW p \in Queries, InPlace(p) PROVE Reaches(ResumeLsn(q), mark[p])
        <4>1. /\ OrderAt(p) /\ SlotAt(p) /\ ServeAt(p)
          BY <1>2 DEF QueryInv
        <4>2. Place(p) = mark[p] /\ mark[p] \in 0..Len(Txn)
          BY <1>2, <3>3, <4>1, PlaceFacts DEF Place, InPlace
        <4> SUFFICES ASSUME mark[p] < Len(Txn) PROVE ResumeLsn(q) <= Lsn(mark[p] + 1)
          BY <4>2, LsnFacts DEF Reaches
        <4>3. /\ mark[p] + 1 \in 0..Len(Txn) /\ Lsn(mark[p]) <= Lsn(mark[p] + 1)
              /\ Lsn(mark[p]) \in Nat /\ Lsn(mark[p] + 1) \in Nat
          BY <4>2, LsnFacts, LsnOrder
        <4>4. CASE status = "error"
          BY <1>1, <1>3, <3>3, <4>3, <4>4 DEF InPlace
        <4>5. CASE status = "running"
          <5>1. task /\ ResumeLsn(q) < read /\ next <= mark[p] + 1
            BY <1>2, <1>3, <1>4, <2>5, <3>3, <4>1, <4>2, <4>5
               DEF NeedsRewind, StatusInv, ServeAt
          <5>2. next \in 0..Len(Txn) /\ next - 1 \in 0..Len(Txn) /\ next # Len(Txn) + 1
            <6>1. next \in 1..Len(Txn) + 1
              BY <1>2 DEF StreamType
            <6> QED
              BY <4>2, <5>1, <6>1, TxnLength
          <5>3. read <= Lsn(next) \/ read = Lsn(next - 1) + 1
            BY <1>2, <5>1, <5>2, LsnFacts DEF ReadInv
          <5>4. /\ Lsn(next) \in Nat /\ Lsn(next - 1) \in Nat /\ Lsn(next - 1) <= Lsn(next)
                /\ Lsn(next) <= Lsn(mark[p] + 1)
            BY <4>3, <5>1, <5>2, LsnFacts, LsnOrder
          <5> QED
            BY <1>3, <4>3, <5>1, <5>3, <5>4
        <4>6. CASE status = "stopped"
          BY <1>2, <3>3, <4>6 DEF StatusInv
        <4> QED
          BY <1>2, <4>4, <4>5, <4>6 DEF StreamType
      <3>4. RewindInv'
        <4> SUFFICES ASSUME NEW p \in Queries, NEW r \in Queries, Rewinding(r)', InPlace(p)'
                     PROVE  Reaches(rewind'[r], mark'[p])
          BY DEF RewindInv, Reaches
        <4>1. r = q
          BY <1>1, <1>6, SamePhase DEF Rewinding
        <4>2. InPlace(p)
          BY <1>6, <1>8, SamePhase
        <4> QED
          BY <1>1, <3>1, <3>3, <4>1, <4>2
      <3> QED
        BY <1>7, <1>8, <1>9, <1>10, <1>11, <2>3, <3>2, <3>4 DEF Inv, QueryInv
    <2>6. CASE ~NeedsRewind(q)
      <3>1. /\ rewind'[q] = None /\ ~Rewinding(q)' /\ Joining(q)'
            /\ status = "running" /\ task /\ read <= ResumeLsn(q)
        BY <1>3, <1>4, <2>1, <2>4, <2>6 DEF Rewinding, Joining, NeedsRewind
      <3>2. LockAt(q)'
        BY <1>1, <2>4, <3>1 DEF LockAt
      <3>3. next <= ckpt[q].pos + 1
        <4> SUFFICES ASSUME ckpt[q].pos + 1 < next PROVE FALSE
          BY <1>3, LsnFacts
        <4>1. next # 1 /\ next - 1 \in 0..Len(Txn) /\ ckpt[q].pos <= next - 1
          BY <1>3, LsnFacts
        <4>2. Lsn(ckpt[q].pos) <= Lsn(next - 1) /\ Lsn(next - 1) \in Nat
          BY <1>3, <4>1, LsnOrder, LsnFacts
        <4>3. Lsn(next - 1) < read \/ Lsn(next - 1) < flush
          BY <1>2, <3>1, <4>1 DEF ReadInv
        <4> QED
          BY <1>3, <2>2, <3>1, <4>2, <4>3
      <3>4. start # None => Reaches(start, ckpt[q].pos)
        <4> SUFFICES ASSUME start # None, ckpt[q].pos < Len(Txn) PROVE start <= Lsn(ckpt[q].pos + 1)
          BY <1>3, LsnFacts DEF Reaches
        <4>1. start <= read /\ start \in Nat
          BY <1>2, <3>1, LsnFacts DEF ReadInv, StreamType
        <4>2. ckpt[q].pos + 1 \in 0..Len(Txn) /\ ckpt[q].pos <= ckpt[q].pos + 1
          BY <1>3, Successor
        <4>3. Lsn(ckpt[q].pos) <= Lsn(ckpt[q].pos + 1) /\ Lsn(ckpt[q].pos + 1) \in Nat
          BY <1>3, <4>2, LsnOrder, LsnFacts
        <4> QED
          BY <1>3, <3>1, <4>1, <4>3
      <3>5. \A e \in positions : e.pos <= ckpt[q].pos
        <4>1. \A e \in positions : e.pos \in Nat /\ e.pos < next
          BY <1>1, <1>2, <2>6, LsnFacts DEF StreamType, Event, Changes
        <4> QED
          BY <1>3, <3>3, <4>1
      <3>6. ServeAt(q)'
        BY <1>1, <2>4, <3>3, <3>4, <3>5 DEF ServeAt, Reaches
      <3>7. RewindInv'
        BY <1>1, <1>6, <3>1, SamePhase DEF RewindInv, Rewinding
      <3> QED
        BY <1>7, <1>8, <1>9, <1>10, <1>11, <2>3, <3>2, <3>6, <3>7 DEF Inv, QueryInv
    <2> QED
      BY <2>5, <2>6
  <1> QED
    BY <1>12, <1>13

\* The stream is paused if it is to be rewound, and the query gets a
\* dispatcher that nothing has been sent to.
LEMMA AttachStep ==
    ASSUME IInv, Races = {}, NEW q \in Queries, Attach(q)
    PROVE  Inv'
  <1>1. StreamType /\ QueryType /\ StatusInv /\ QueryInv /\ ReadInv /\ LockInv /\ RewindInv
    BY TypeParts DEF IInv, Inv
  <1>2. /\ phase[q] = "checked" /\ Quiesce(q)
        /\ phase' = [phase EXCEPT ![q] = "attached"]
        /\ attached' = [attached EXCEPT ![q] = TRUE]
        /\ mark' = [mark EXCEPT ![q] = None]
        /\ UNCHANGED <<flush, restart, status, read, rewind, queue, handle, ckpt, applied>>
    BY DEF Attach, slot
  <1>3. box' = [box EXCEPT ![q] = <<>>] /\ seq' \in Nat /\ seq <= seq' /\ ckpt[q].seq < seq'
    <2>1. Caught(q) = {{}}
      BY DEF Caught
    <2>2. /\ box' = [Delivered({}) EXCEPT ![q] = <<>>]
          /\ seq' = Max({seq + Cardinality({1 : p \in {}}), Floor(q)})
      BY <2>1 DEF Attach
    <2>3. Delivered({}) = box
      BY <1>1 DEF Delivered, QueryType
    <2>4. {1 : p \in {}} = {}
      OBVIOUS
    <2>5. Cardinality({1 : p \in {}}) = 0
      BY <2>4, FS_EmptySet
    <2>6. seq \in Nat /\ ckpt[q].seq \in Nat /\ Floor(q) = ckpt[q].seq + 1
      BY <1>1, ResumeLsnType DEF StreamType, Floor
    <2>7. seq' = Max({seq, Floor(q)})
      <3> DEFINE c == Cardinality({1 : p \in {}})
      <3>1. seq' = Max({seq + c, Floor(q)}) /\ c = 0
        BY <2>2, <2>5
      <3> HIDE DEF c
      <3>2. seq + c = seq
        BY <2>6, <3>1
      <3> QED
        BY <3>1, <3>2
    <2>8. seq' \in Nat /\ seq <= seq' /\ Floor(q) <= seq'
      BY <2>6, <2>7, MaxOfTwo
    <2> QED
      BY <2>2, <2>3, <2>6, <2>8
  <1>4. /\ AppliedAt(q) /\ RoomAt(q) /\ OrderAt(q) /\ SeqAt(q)
        /\ LockAt(q) /\ ServeAt(q) /\ SlotAt(q) /\ MapAt(q)
    BY <1>1 DEF QueryInv
  <1>5. /\ phase'[q] = "attached" /\ attached'[q] = TRUE /\ mark'[q] = None /\ box'[q] = <<>>
        /\ Subscribing(q) /\ Subscribing(q)' /\ ~Served(q) /\ ~Served(q)' /\ ~InPlace(q)'
        /\ Holds(q) /\ queue[q] = <<>>
    <2>1. attached \in [Queries -> BOOLEAN]
      BY TypeParts DEF IInv, FlagType
    <2>2. /\ phase'[q] = "attached" /\ mark'[q] = None /\ box'[q] = <<>>
      BY <1>1, <1>2, <1>3 DEF QueryType
    <2>3. attached'[q] = TRUE
      BY <1>2, <2>1
    <2> QED
      BY <1>2, <1>4, <2>2, <2>3 DEF Subscribing, Served, InPlace, Holds, RoomAt
  <1>6. \A p \in Queries \ {q} : Same(p)
    <2>1. attached \in [Queries -> BOOLEAN]
      BY TypeParts DEF IInv, FlagType
    <2> QED
      BY <1>1, <1>2, <1>3, <2>1 DEF QueryType, Same
  <1>7. /\ positions' \subseteq positions
        /\ task' => task /\ next' = next /\ start' = start
        /\ rewind[q] = None => UNCHANGED <<task, start, next, positions>>
        /\ rewind[q] # None => task' = FALSE /\ positions' = {}
    BY <1>2 DEF Quiesce, EndTask
  <1>8. \A p \in Queries \ {q} : /\ AppliedAt(p)' /\ RoomAt(p)' /\ OrderAt(p)' /\ SeqAt(p)'
                                 /\ LockAt(p)' /\ ServeAt(p)' /\ SlotAt(p)' /\ MapAt(p)'
    BY <1>2, <1>3, <1>6, <1>7, OthersKept
  <1>9. Joining(q)' <=> Joining(q)
    BY <1>2, <1>5 DEF Joining
  <1>10. Rewinding(q)' <=> Rewinding(q)
    BY <1>2, <1>5 DEF Rewinding
  <1>11. ResumeLsn(q)' = ResumeLsn(q) /\ Place(q)' = Place(q)
    BY <1>2, <1>5 DEF ResumeLsn, Place
  <1>12. AppliedAt(q)' /\ SlotAt(q)' /\ MapAt(q)'
    BY <1>2, <1>4, <1>5, <1>11 DEF AppliedAt, SlotAt, MapAt
  <1>13. RoomAt(q)' /\ OrderAt(q)' /\ SeqAt(q)'
    <2>1. RoomAt(q)'
      BY <1>2, <1>4, <1>5 DEF RoomAt
    <2>2. OrderAt(q)'
      BY <1>2, <1>5 DEF OrderAt
    <2>3. SeqAt(q)'
      BY <1>2, <1>3, <1>5 DEF SeqAt
    <2> QED
      BY <2>1, <2>2, <2>3
  <1>14. LockAt(q)'
    BY <1>2, <1>4, <1>5, <1>7, <1>9, <1>10, <1>11 DEF LockAt, Rewinding
  <1>15. ServeAt(q)'
    BY <1>4, <1>5, <1>7, <1>9, <1>11 DEF ServeAt, Reaches
  <1>16. LockInv'
    BY <1>1, <1>5, <1>6, SamePhase DEF LockInv
  <1>17. RewindInv'
    <2> SUFFICES ASSUME NEW p \in Queries, NEW r \in Queries, Rewinding(r)', InPlace(p)'
                 PROVE  Reaches(rewind'[r], mark'[p])
      BY DEF RewindInv, Reaches
    <2>1. p # q /\ InPlace(p) /\ mark'[p] = mark[p]
      BY <1>5, <1>6, SamePhase DEF Same
    <2>2. Rewinding(r)
      BY <1>6, <1>10, SamePhase
    <2> QED
      BY <1>1, <1>2, <2>1, <2>2 DEF RewindInv
  <1>18. StatusInv'
    <2>1. \A p \in Queries : InPlace(p)' => InPlace(p)
      BY <1>5, <1>6, SamePhase
    <2>2. ASSUME status = "running", ~task' PROVE Rewinding(q)' /\ phase'[q] = "attached"
      <3>1. task
        BY <1>1, <1>2, <1>5, <2>2 DEF StatusInv, LockInv, Rewinding
      <3> QED
        BY <1>5, <1>7, <1>10, <2>2, <3>1 DEF Rewinding
    <2>3. task' => status = "running"
      BY <1>1, <1>7 DEF StatusInv
    <2> QED
      BY <1>1, <1>2, <2>1, <2>2, <2>3 DEF StatusInv
  <1>19. ReadInv'
    BY <1>1, <1>2, <1>7 DEF ReadInv
  <1> QED
    BY <1>8, <1>12, <1>13, <1>14, <1>15, <1>16, <1>17, <1>18, <1>19 DEF Inv, QueryInv

\* The subscription is complete: the query is in place at its checkpoint.
LEMMA FilterStep ==
    ASSUME IInv, NEW q \in Queries, Filter(q)
    PROVE  Inv'
  <1>1. StreamType /\ QueryType /\ StatusInv /\ QueryInv /\ ReadInv /\ LockInv /\ RewindInv
    BY TypeParts DEF IInv, Inv
  <1>2. /\ phase[q] = "attached"
        /\ mark' = [mark EXCEPT ![q] = ckpt[q].pos]
        /\ handle' = [handle EXCEPT ![q] = None]
        /\ phase' = [phase EXCEPT ![q] = "filtered"]
        /\ rewind' = [rewind EXCEPT ![q] = None]
        /\ UNCHANGED <<flush, restart, seq, positions, attached, box, queue, ckpt, applied>>
    BY DEF Filter, slot
  <1>3. /\ AppliedAt(q) /\ RoomAt(q) /\ OrderAt(q) /\ SeqAt(q)
        /\ LockAt(q) /\ ServeAt(q) /\ SlotAt(q) /\ MapAt(q)
    BY <1>1 DEF QueryInv
  <1>4. /\ phase'[q] = "filtered" /\ rewind'[q] = None /\ mark'[q] = ckpt[q].pos /\ handle'[q] = None
    BY <1>1, <1>2 DEF QueryType
  <1>5. /\ Subscribing(q) /\ ~Subscribing(q)' /\ ~Served(q) /\ Served(q)' /\ InPlace(q)'
        /\ ~Joining(q)' /\ ~Rewinding(q)' /\ Place(q)' = ckpt[q].pos /\ ResumeLsn(q)' = ResumeLsn(q)
        /\ queue[q] = <<>> /\ box[q] = <<>>
    BY <1>2, <1>3, <1>4 DEF Subscribing, Served, InPlace, Joining, Rewinding, Place, ResumeLsn, RoomAt
  <1>6. \A p \in Queries \ {q} : Same(p)
    BY <1>1, <1>2 DEF QueryType, Same
  <1>7. AppliedAt(q)' /\ RoomAt(q)' /\ OrderAt(q)' /\ SeqAt(q)'
    <2>1. ckpt[q].pos \in Nat
      BY <1>1, ResumeLsnType
    <2>2. AppliedAt(q)' /\ RoomAt(q)'
      BY <1>2, <1>3, <1>4, <1>5 DEF AppliedAt, RoomAt
    <2>3. OrderAt(q)'
      BY <1>2, <1>4, <1>5, <2>1 DEF OrderAt
    <2>4. SeqAt(q)'
      BY <1>2, <1>3, <1>4, <1>5 DEF SeqAt
    <2> QED
      BY <2>2, <2>3, <2>4
  <1>8. \A p \in Queries \ {q} : ~Subscribing(p) /\ ~Subscribing(p)'
    BY <1>1, <1>5, <1>6, SamePhase DEF LockInv
  <1>9. LockInv' /\ RewindInv'
    BY <1>5, <1>8 DEF LockInv, RewindInv, Rewinding
  <1>10. LockAt(q)' /\ SlotAt(q)'
    BY <1>2, <1>3, <1>4, <1>5 DEF LockAt, SlotAt, Holds
  <1>11. CASE rewind[q] = None
    <2>1. UNCHANGED <<status, task, start, next, read>> /\ Joining(q) /\ Place(q) = ckpt[q].pos
      BY <1>5, <1>11 DEF Filter, stream, Joining, Place
    <2>2. \A p \in Queries \ {q} : /\ AppliedAt(p)' /\ RoomAt(p)' /\ OrderAt(p)' /\ SeqAt(p)'
                                   /\ LockAt(p)' /\ ServeAt(p)' /\ SlotAt(p)' /\ MapAt(p)'
      <3>1. seq' \in Nat /\ seq <= seq'
        BY <1>1, <1>2 DEF StreamType
      <3> QED
        BY <1>2, <1>6, <2>1, <3>1, OthersKept
    <2>3. ServeAt(q)'
      BY <1>2, <1>3, <1>5, <2>1 DEF ServeAt, Reaches
    <2>4. MapAt(q)'
      BY <1>2, <1>3, <1>5, <2>1 DEF ServeAt, MapAt
    <2>5. StatusInv'
      <3>1. status # "stopped"
        BY <1>3, <2>1 DEF LockAt
      <3>2. status = "running" => task
        BY <1>1, <1>5, <1>8, <1>11 DEF StatusInv, Rewinding
      <3> QED
        BY <1>1, <1>2, <2>1, <3>1, <3>2 DEF StatusInv
    <2>6. ReadInv'
      BY <1>1, <1>2, <2>1 DEF ReadInv
    <2> QED
      BY <1>7, <1>9, <1>10, <2>2, <2>3, <2>4, <2>5, <2>6 DEF Inv, QueryInv
  <1>12. CASE rewind[q] # None
    <2>1. Rewinding(q) /\ rewind[q] = ResumeLsn(q) /\ positions = {} /\ ~task
      BY <1>2, <1>3, <1>5, <1>12 DEF Rewinding, LockAt
    <2>2. status' = "running" /\ Connect(rewind[q])
      BY <1>12 DEF Filter
    <2>3. rewind[q] \in 1..NoFence \union {None} /\ rewind[q] \in Nat
      BY <1>1, <2>1, ResumeLsnType, LsnFacts
    <2>4. /\ task' = TRUE /\ start' = rewind[q] /\ read' >= 1 /\ ReadInv'
          /\ \A p \in 0..Len(Txn) : Reaches(flush, p) /\ Reaches(rewind[q], p) => next' <= p + 1
      BY <1>1, <1>2, <2>2, <2>3, ConnectFacts DEF StatusInv
    <2>5. StatusInv'
      BY <1>1, <1>2, <2>2, <2>4 DEF StatusInv
    <2>6. ckpt[q].pos \in 0..Len(Txn) /\ Reaches(flush, ckpt[q].pos) /\ Reaches(rewind[q], ckpt[q].pos)
      <3>1. /\ ckpt[q].pos \in 0..Len(Txn) /\ ResumeLsn(q) = Lsn(ckpt[q].pos)
            /\ flush \in Nat /\ ResumeLsn(q) \in Nat /\ flush <= ResumeLsn(q)
        BY <1>1, <1>2, <1>3, ResumeLsnType, LsnFacts DEF ResumeLsn, StreamType, SlotAt, Holds
      <3>2. ASSUME ckpt[q].pos < Len(Txn)
            PROVE  ResumeLsn(q) <= Lsn(ckpt[q].pos + 1) /\ Lsn(ckpt[q].pos + 1) \in Nat
        <4>1. ckpt[q].pos + 1 \in 0..Len(Txn) /\ ckpt[q].pos <= ckpt[q].pos + 1
          BY <3>1, <3>2, Successor
        <4> QED
          BY <3>1, <4>1, LsnOrder, LsnFacts
      <3> QED
        BY <2>1, <3>1, <3>2, LsnFacts DEF Reaches
    <2>7. ServeAt(q)' /\ MapAt(q)'
      BY <1>2, <1>5, <2>1, <2>4, <2>6 DEF ServeAt, MapAt, Reaches
    <2>8. ASSUME NEW p \in Queries \ {q}
          PROVE  /\ AppliedAt(p)' /\ RoomAt(p)' /\ OrderAt(p)' /\ SeqAt(p)'
                 /\ LockAt(p)' /\ ServeAt(p)' /\ SlotAt(p)' /\ MapAt(p)'
      <3>1. /\ AppliedAt(p) /\ RoomAt(p) /\ OrderAt(p) /\ SeqAt(p) /\ Same(p)
            /\ LockAt(p) /\ ServeAt(p) /\ SlotAt(p) /\ MapAt(p)
        BY <1>1, <1>6 DEF QueryInv
      <3>2. seq' \in Nat /\ seq <= seq'
        BY <1>1, <1>2 DEF StreamType
      <3>3. AppliedAt(p)' /\ RoomAt(p)' /\ OrderAt(p)' /\ SeqAt(p)'
        BY <1>1, <3>1, <3>2, SameOwn
      <3>4. LockAt(p)' /\ SlotAt(p)' /\ MapAt(p)'
        BY <1>2, <1>8, <2>1, <2>2, <3>1, SamePhase DEF LockAt, SlotAt, MapAt, Same, Joining, Rewinding
      <3>5. ServeAt(p)'
        <4> SUFFICES ASSUME InPlace(p)' \/ Joining(p)'
                     PROVE  next' <= Place(p)' + 1 /\ Reaches(start', Place(p)')
          BY <1>2, <2>1 DEF ServeAt, Reaches
        <4>1. InPlace(p) /\ Place(p)' = Place(p) /\ Place(p) = mark[p]
          BY <1>8, <3>1, SamePhase DEF Joining, Place, InPlace
        <4>2. Place(p) \in 0..Len(Txn) /\ Reaches(flush, Place(p))
          BY <1>1, <3>1, <4>1, PlaceFacts
        <4>3. Reaches(rewind[q], Place(p))
          BY <1>1, <2>1, <4>1 DEF RewindInv
        <4> QED
          BY <2>4, <4>1, <4>2, <4>3
      <3> QED
        BY <3>3, <3>4, <3>5
    <2> QED
      BY <1>7, <1>9, <1>10, <2>4, <2>5, <2>7, <2>8 DEF Inv, QueryInv
  <1> QED
    BY <1>11, <1>12

LEMMA ResumeFailsStep ==
    ASSUME IInv, NEW q \in Queries, ResumeFails(q)
    PROVE  Inv'
  <1>1. StreamType /\ QueryType /\ StatusInv /\ QueryInv /\ ReadInv /\ LockInv /\ RewindInv
    BY TypeParts DEF IInv, Inv
  <1>2. /\ phase[q] = "attached" /\ rewind[q] # None /\ status' = "error"
        /\ phase' = [phase EXCEPT ![q] = "error"]
        /\ rewind' = [rewind EXCEPT ![q] = None]
        /\ attached' = [attached EXCEPT ![q] = FALSE]
        /\ mark' = [mark EXCEPT ![q] = None]
        /\ handle' = [handle EXCEPT ![q] = None]
        /\ UNCHANGED <<flush, restart, task, start, next, read, seq, positions, box, queue, ckpt,
                       applied>>
    BY DEF ResumeFails, slot
  <1>3. AppliedAt(q) /\ RoomAt(q) /\ OrderAt(q) /\ SeqAt(q) /\ LockAt(q)
    BY <1>1 DEF QueryInv
  <1>4. attached \in [Queries -> BOOLEAN]
    BY TypeParts DEF IInv, FlagType
  <1>5. phase'[q] = "error" /\ rewind'[q] = None /\ handle'[q] = None
    BY <1>1, <1>2 DEF QueryType
  <1>6. attached'[q] = FALSE
    BY <1>2, <1>4
  <1>7. /\ Subscribing(q) /\ ~Subscribing(q)' /\ ~Served(q) /\ ~Served(q)' /\ ~InPlace(q)'
        /\ ~Holds(q)' /\ queue[q] = <<>> /\ box[q] = <<>> /\ ~task
    BY <1>2, <1>3, <1>5, <1>6
       DEF Subscribing, Served, InPlace, Holds, RoomAt, LockAt, Rewinding
  <1>8. \A p \in Queries \ {q} : Same(p)
    BY <1>1, <1>2, <1>4 DEF QueryType, Same
  <1>9. \A p \in Queries \ {q} : /\ AppliedAt(p)' /\ RoomAt(p)' /\ OrderAt(p)' /\ SeqAt(p)'
                                 /\ LockAt(p)' /\ ServeAt(p)' /\ SlotAt(p)' /\ MapAt(p)'
    <2>1. seq' \in Nat /\ seq <= seq'
      BY <1>1, <1>2 DEF StreamType
    <2> QED
      BY <1>2, <1>8, <2>1, OthersKept
  <1>10. AppliedAt(q)' /\ RoomAt(q)'
    BY <1>2, <1>3, <1>5, <1>6, <1>7 DEF AppliedAt, RoomAt
  <1>11. OrderAt(q)' /\ SeqAt(q)'
    BY <1>2, <1>5, <1>7 DEF OrderAt, SeqAt
  <1>12. LockAt(q)' /\ ServeAt(q)' /\ SlotAt(q)' /\ MapAt(q)'
    BY <1>5, <1>7 DEF LockAt, ServeAt, SlotAt, MapAt, Joining, Rewinding
  <1>13. \A p \in Queries : ~Subscribing(p)'
    BY <1>1, <1>7, <1>8, SamePhase DEF LockInv
  <1>14. LockInv' /\ RewindInv'
    BY <1>13 DEF LockInv, RewindInv, Rewinding
  <1>15. StatusInv' /\ ReadInv'
    BY <1>1, <1>2, <1>7 DEF StatusInv, ReadInv
  <1> QED
    BY <1>9, <1>10, <1>11, <1>12, <1>14, <1>15 DEF Inv, QueryInv

----------------------------------------------------------------------------
(* The steps of a query.                                                   *)

\* A step of a complete subscription that leaves the stream alone.
LEMMA OwnStep ==
    ASSUME IInv, NEW q \in Queries, \A p \in Queries \ {q} : Same(p),
           UNCHANGED <<flush, restart, status, task, start, next, read, seq, positions>>,
           Served(q), ~Subscribing(q)', InPlace(q)' => InPlace(q) /\ mark'[q] = mark[q],
           rewind'[q] = rewind[q],
           AppliedAt(q)', RoomAt(q)', OrderAt(q)', SeqAt(q)', SlotAt(q)', MapAt(q)'
    PROVE  Inv'
  <1>1. StreamType /\ QueryType /\ StatusInv /\ QueryInv /\ ReadInv /\ LockInv /\ RewindInv
    BY TypeParts DEF IInv, Inv
  <1>2. \A p \in Queries \ {q} : /\ AppliedAt(p)' /\ RoomAt(p)' /\ OrderAt(p)' /\ SeqAt(p)'
                                 /\ LockAt(p)' /\ ServeAt(p)' /\ SlotAt(p)' /\ MapAt(p)'
    <2>1. seq' \in Nat /\ seq <= seq'
      BY <1>1 DEF StreamType
    <2> QED
      BY <2>1, OthersKept
  <1>3. LockAt(q) /\ ServeAt(q) /\ ~Subscribing(q)
    BY <1>1 DEF QueryInv, Served, Subscribing
  <1>4. LockAt(q)'
    BY <1>3 DEF LockAt, Rewinding, Joining
  <1>5. ServeAt(q)'
    <2>1. ASSUME InPlace(q)' PROVE Place(q)' = Place(q) /\ InPlace(q)
      BY <2>1 DEF Place, InPlace, Served
    <2> QED
      BY <1>3, <2>1 DEF ServeAt, Joining, Reaches
  <1>6. \A p \in Queries : /\ Subscribing(p)' <=> Subscribing(p)
                           /\ Rewinding(p)' <=> Rewinding(p)
                           /\ rewind'[p] = rewind[p]
                           /\ InPlace(p)' => InPlace(p) /\ mark'[p] = mark[p]
    <2>1. ASSUME NEW p \in Queries \ {q}
          PROVE  /\ Subscribing(p)' <=> Subscribing(p)
                 /\ Rewinding(p)' <=> Rewinding(p)
                 /\ rewind'[p] = rewind[p]
                 /\ InPlace(p)' => InPlace(p) /\ mark'[p] = mark[p]
      BY SamePhase DEF Same
    <2> QED
      BY <1>3, <2>1 DEF Rewinding
  <1>7. LockInv' /\ RewindInv'
    BY <1>1, <1>6 DEF LockInv, RewindInv, Reaches
  <1>8. StatusInv'
    <2>1. ASSUME NEW p \in Queries, Rewinding(p), phase[p] = "attached"
          PROVE  Rewinding(p)' /\ phase'[p] = "attached"
      <3>1. p # q
        BY <1>3, <2>1 DEF Rewinding
      <3> QED
        BY <1>6, <2>1, <3>1 DEF Same
    <2> QED
      BY <1>1, <1>6, <2>1 DEF StatusInv
  <1>9. ReadInv'
    BY <1>1 DEF ReadInv
  <1> QED
    BY <1>2, <1>4, <1>5, <1>7, <1>8, <1>9 DEF Inv, QueryInv

LEMMA SeedStep ==
    ASSUME IInv, NEW q \in Queries, Seed(q)
    PROVE  Inv'
  <1>1. StreamType /\ QueryType /\ QueryInv
    BY TypeParts DEF IInv, Inv
  <1>2. /\ phase[q] = "filtered"
        /\ handle' = [handle EXCEPT ![q] = ckpt[q].seq]
        /\ phase' = [phase EXCEPT ![q] = "running"]
        /\ UNCHANGED <<flush, restart, status, task, start, next, read, seq, positions>>
        /\ UNCHANGED <<rewind, attached, mark, box, queue, ckpt, applied>>
    BY DEF Seed, slot, stream
  <1>3. phase'[q] = "running" /\ handle'[q] = ckpt[q].seq
    BY <1>1, <1>2 DEF QueryType
  <1>4. \A p \in Queries \ {q} : Same(p)
    BY <1>1, <1>2 DEF QueryType, Same
  <1>5. AppliedAt(q) /\ RoomAt(q) /\ OrderAt(q) /\ SeqAt(q) /\ SlotAt(q) /\ MapAt(q)
    BY <1>1 DEF QueryInv
  <1>6. Served(q) /\ ~Subscribing(q)' /\ (InPlace(q)' <=> InPlace(q)) /\ Served(q)'
    BY <1>2, <1>3 DEF Served, Subscribing, InPlace
  <1>7. AppliedAt(q)' /\ RoomAt(q)'
    BY <1>2, <1>3, <1>5, <1>6 DEF AppliedAt, RoomAt
  <1>8. OrderAt(q)' /\ SeqAt(q)'
    BY <1>2, <1>5, <1>6 DEF OrderAt, SeqAt
  <1>9. SlotAt(q)' /\ MapAt(q)'
    BY <1>2, <1>5, <1>6 DEF SlotAt, MapAt, Holds, ResumeLsn
  <1> QED
    BY <1>2, <1>4, <1>6, <1>7, <1>8, <1>9, OwnStep

LEMMA StopStep ==
    ASSUME IInv, Races = {}, NEW q \in Queries, Stop(q)
    PROVE  Inv'
  <1>1. StreamType /\ QueryType /\ QueryInv /\ attached \in [Queries -> BOOLEAN]
    BY TypeParts DEF IInv, Inv, FlagType
  <1>2. /\ phase[q] = "running" /\ queue[q] = <<>>
        /\ phase' = [phase EXCEPT ![q] = "idle"]
        /\ attached' = [attached EXCEPT ![q] = FALSE]
        /\ mark' = [mark EXCEPT ![q] = None]
        /\ box' = [box EXCEPT ![q] = <<>>]
        /\ handle' = [handle EXCEPT ![q] = None]
        /\ UNCHANGED <<flush, restart, status, task, start, next, read, seq, positions>>
        /\ UNCHANGED <<rewind, queue, ckpt, applied>>
    BY DEF Stop, slot, stream
  <1>3. phase'[q] = "idle" /\ handle'[q] = None /\ box'[q] = <<>> /\ queue'[q] = <<>>
    BY <1>1, <1>2 DEF QueryType
  <1>4. attached'[q] = FALSE
    BY <1>1, <1>2
  <1>5. \A p \in Queries \ {q} : Same(p)
    BY <1>1, <1>2 DEF QueryType, Same
  <1>6. Served(q) /\ ~Subscribing(q)' /\ ~InPlace(q)' /\ ~Served(q)' /\ ~Holds(q)'
    BY <1>2, <1>3 DEF Served, Subscribing, InPlace, Holds
  <1>7. AppliedAt(q)'
    BY <1>1, <1>2 DEF QueryInv, AppliedAt
  <1>8. RoomAt(q)' /\ OrderAt(q)' /\ SeqAt(q)'
    BY <1>3, <1>4, <1>6 DEF RoomAt, OrderAt, SeqAt
  <1>9. SlotAt(q)' /\ MapAt(q)'
    BY <1>6 DEF SlotAt, MapAt
  <1> QED
    BY <1>2, <1>5, <1>6, <1>7, <1>8, <1>9, OwnStep

\* An element that moves from the head of one sequence to the end of another.
LEMMA HeadTail ==
    ASSUME NEW S, NEW s \in Seq(S), s # <<>>
    PROVE  /\ Len(s) \in Nat /\ Len(s) >= 1 /\ DOMAIN s = 1..Len(s)
           /\ Head(s) = s[1] /\ 1 \in DOMAIN s /\ Tail(s) \in Seq(S)
           /\ Len(Tail(s)) = Len(s) - 1 /\ DOMAIN Tail(s) = 1..(Len(s) - 1)
           /\ \A i \in DOMAIN Tail(s) : i + 1 \in DOMAIN s /\ Tail(s)[i] = s[i + 1]
  OBVIOUS

LEMMA AppendLast ==
    ASSUME NEW S, NEW s \in Seq(S), NEW x \in S
    PROVE  /\ Append(s, x) \in Seq(S) /\ Len(Append(s, x)) = Len(s) + 1 /\ Len(s) \in Nat
           /\ \A i \in DOMAIN Append(s, x) : /\ i \in 1..Len(s) + 1
                                             /\ \/ i \in DOMAIN s /\ Append(s, x)[i] = s[i]
                                                \/ i = Len(s) + 1 /\ Append(s, x)[i] = x
  OBVIOUS

LEMMA ForwardStep ==
    ASSUME IInv, NEW q \in Queries, Forward(q)
    PROVE  Inv'
  <1>1. StreamType /\ QueryType /\ QueryInv
    BY TypeParts DEF IInv, Inv
  <1>2. /\ phase[q] = "running" /\ box[q] # <<>>
        /\ queue' = [queue EXCEPT ![q] = Append(@, Head(box[q]))]
        /\ box' = [box EXCEPT ![q] = Tail(@)]
        /\ UNCHANGED <<flush, restart, status, task, start, next, read, seq, positions>>
        /\ UNCHANGED <<phase, rewind, attached, mark, handle, ckpt, applied>>
    BY DEF Forward, slot, stream
  <1>3. \A p \in Queries \ {q} : Same(p)
    BY <1>1, <1>2 DEF QueryType, Same
  <1>4. /\ AppliedAt(q) /\ RoomAt(q) /\ OrderAt(q) /\ SeqAt(q) /\ SlotAt(q) /\ MapAt(q)
        /\ box[q] \in Seq(Event) /\ queue[q] \in Seq(Event)
    BY <1>1 DEF QueryInv, QueryType
  <1>5. Served(q) /\ ~Subscribing(q)' /\ (InPlace(q)' <=> InPlace(q)) /\ Served(q)'
    BY <1>2 DEF Served, Subscribing, InPlace
  <1>6. AppliedAt(q)' /\ RoomAt(q)' /\ SlotAt(q)'
    BY <1>2, <1>4, <1>5 DEF AppliedAt, RoomAt, SlotAt, Holds, ResumeLsn
  <1> DEFINE b == box[q]
             k == queue[q]
             c == box'[q]
             l == queue'[q]
  <1>7. c = Tail(b) /\ l = Append(k, b[1]) /\ b[1] \in Event
    BY <1>1, <1>2, <1>4, HeadTail DEF QueryType
  <1>8. /\ Len(b) \in Nat /\ Len(b) >= 1 /\ DOMAIN b = 1..Len(b) /\ 1 \in DOMAIN b
        /\ Len(c) = Len(b) - 1 /\ DOMAIN c = 1..(Len(b) - 1)
        /\ \A i \in DOMAIN c : i \in Nat /\ i >= 1 /\ i + 1 \in DOMAIN b /\ c[i] = b[i + 1]
    <2>1. b # <<>> /\ b \in Seq(Event)
      BY <1>2, <1>4
    <2> HIDE DEF b, c
    <2>2. /\ Len(b) \in Nat /\ Len(b) >= 1 /\ DOMAIN b = 1..Len(b) /\ 1 \in DOMAIN b
          /\ Len(Tail(b)) = Len(b) - 1 /\ DOMAIN Tail(b) = 1..(Len(b) - 1)
          /\ \A i \in DOMAIN Tail(b) : i + 1 \in DOMAIN b /\ Tail(b)[i] = b[i + 1]
      BY <2>1, HeadTail
    <2>3. \A i \in 1..(Len(b) - 1) : i \in Nat /\ i >= 1
      BY <2>2
    <2> QED
      BY <1>7, <2>2, <2>3
  <1>9. /\ Len(l) = Len(k) + 1 /\ Len(k) \in Nat
        /\ \A i \in DOMAIN l : /\ i \in 1..Len(k) + 1
                               /\ (i \in DOMAIN k /\ l[i] = k[i]) \/ (i = Len(k) + 1 /\ l[i] = b[1])
    BY <1>4, <1>7, AppendLast
  <1>10. /\ ckpt[q].pos \in Nat /\ ckpt[q].seq \in Nat
         /\ \A i \in DOMAIN b : b[i].seq \in Nat /\ b[i].pos \in Nat
         /\ \A i \in DOMAIN k : k[i].seq \in Nat /\ k[i].pos \in Nat
         /\ DOMAIN k = 1..Len(k)
    BY <1>1, <1>4, PendingType, ResumeLsnType
  <1> HIDE DEF b, k, c, l
  <1>11. OrderAt(q)'
    <2>1. /\ \A i \in DOMAIN k : k[i].pos = ckpt[q].pos + i
          /\ \A i \in DOMAIN b : b[i].pos = ckpt[q].pos + Len(k) + i
          /\ InPlace(q) => mark[q] = ckpt[q].pos + Len(k) + Len(b)
      BY <1>4 DEF OrderAt, b, k
    <2> DEFINE a == ckpt[q].pos
               m == Len(k)
               n == Len(b)
    <2>5. a \in Nat /\ m \in Nat /\ n \in Nat /\ Len(l) = m + 1 /\ Len(c) = n - 1
      BY <1>8, <1>9, <1>10
    <2>6. /\ \A i \in DOMAIN k : k[i].pos = a + i
          /\ \A i \in DOMAIN b : b[i].pos = a + m + i
          /\ InPlace(q) => mark[q] = a + m + n
          /\ b[1].pos = a + m + 1
      BY <1>8, <2>1
    <2>7. \A i \in DOMAIN l : (i \in DOMAIN k /\ l[i] = k[i]) \/ (i = m + 1 /\ l[i] = b[1])
      BY <1>9
    <2> HIDE DEF a, m, n
    <2>2. \A i \in DOMAIN l : l[i].pos = a + i
      <3>1. a + (m + 1) = a + m + 1
        BY <2>5
      <3> QED
        BY <2>6, <2>7, <3>1
    <2>3. \A i \in DOMAIN c : c[i].pos = a + (m + 1) + i
      <3>1. ASSUME NEW i \in DOMAIN c PROVE c[i].pos = a + (m + 1) + i
        <4>1. i \in Nat /\ c[i].pos = a + m + (i + 1)
          BY <1>8, <2>6
        <4> QED
          BY <2>5, <4>1
      <3> QED
        BY <3>1
    <2>4. InPlace(q) => mark[q] = a + (m + 1) + (n - 1)
      <3>1. a + m + n = a + (m + 1) + (n - 1)
        BY <2>5
      <3> QED
        BY <2>6, <3>1
    <2> QED
      BY <1>2, <1>5, <2>5, <2>2, <2>3, <2>4 DEF OrderAt, l, c, a
  <1>12. SeqAt(q)'
    <2>1. /\ \A i \in DOMAIN k : ckpt[q].seq < k[i].seq /\ k[i].seq < seq
          /\ \A i \in DOMAIN b : ckpt[q].seq < b[i].seq /\ b[i].seq < seq
          /\ \A i, j \in DOMAIN k : i < j => k[i].seq < k[j].seq
          /\ \A i \in DOMAIN k, j \in DOMAIN b : k[i].seq < b[j].seq
          /\ \A i, j \in DOMAIN b : i < j => b[i].seq < b[j].seq
      BY <1>4 DEF SeqAt, b, k
    <2>2. \A i \in DOMAIN l : ckpt[q].seq < l[i].seq /\ l[i].seq < seq
      BY <1>8, <1>9, <2>1
    <2>3. \A i \in DOMAIN c : ckpt[q].seq < c[i].seq /\ c[i].seq < seq
      BY <1>8, <2>1
    <2>4. ASSUME NEW i \in DOMAIN l, NEW j \in DOMAIN l, i < j PROVE l[i].seq < l[j].seq
      <3>1. i \in DOMAIN k /\ l[i] = k[i]
        <4>1. i \in 1..Len(k) + 1 /\ j \in 1..Len(k) + 1
          BY <1>9
        <4>2. i # Len(k) + 1
          BY <1>9, <2>4, <4>1
        <4> QED
          BY <1>9, <4>2
      <3> QED
        BY <1>8, <1>9, <2>1, <2>4, <3>1
    <2>5. \A i \in DOMAIN l, j \in DOMAIN c : l[i].seq < c[j].seq
      BY <1>8, <1>9, <2>1
    <2>6. \A i, j \in DOMAIN c : i < j => c[i].seq < c[j].seq
      BY <1>8, <2>1
    <2> QED
      BY <1>2, <1>4, <2>2, <2>3, <2>4, <2>5, <2>6 DEF SeqAt, l, c
  <1>13. MapAt(q)'
    <2> SUFFICES ASSUME NEW e \in positions
                 PROVE  /\ e.seq <= ckpt[q].seq => e.pos <= ckpt[q].pos
                        /\ \A i \in DOMAIN l : e.seq <= l[i].seq => e.pos <= l[i].pos
                        /\ \A i \in DOMAIN c : e.seq <= c[i].seq => e.pos <= c[i].pos
      BY <1>2 DEF MapAt, l, c
    <2>1. /\ e.seq <= ckpt[q].seq => e.pos <= ckpt[q].pos
          /\ \A i \in DOMAIN k : e.seq <= k[i].seq => e.pos <= k[i].pos
          /\ \A i \in DOMAIN b : e.seq <= b[i].seq => e.pos <= b[i].pos
      BY <1>4, <1>5 DEF MapAt, b, k
    <2> QED
      BY <1>8, <1>9, <2>1
  <1> QED
    BY <1>2, <1>3, <1>5, <1>6, <1>11, <1>12, <1>13, OwnStep

\* The change a query absorbs is the next one after its checkpoint.
LEMMA ProcessStep ==
    ASSUME IInv, NEW q \in Queries, Process(q)
    PROVE  Inv'
  <1>1. StreamType /\ QueryType /\ QueryInv
    BY TypeParts DEF IInv, Inv
  <1>2. /\ AppliedAt(q) /\ RoomAt(q) /\ OrderAt(q) /\ SeqAt(q) /\ SlotAt(q) /\ MapAt(q)
        /\ box[q] \in Seq(Event) /\ queue[q] \in Seq(Event) /\ applied[q] \in Seq(Changes)
    BY <1>1 DEF QueryInv, QueryType
  <1>3. /\ phase[q] = "running" /\ queue[q] # <<>>
        /\ queue' = [queue EXCEPT ![q] = Tail(@)]
        /\ UNCHANGED <<flush, restart, status, task, start, next, read, seq, positions>>
        /\ UNCHANGED <<phase, rewind, attached, mark, box>>
    BY DEF Process, slot, stream
  <1> DEFINE k == queue[q]
             l == queue'[q]
             b == box[q]
             a == ckpt[q].pos
             m == Len(k)
             n == Len(b)
             e == k[1]
             old == ckpt[q].seq
  <1>4. /\ m \in Nat /\ m >= 1 /\ DOMAIN k = 1..m /\ 1 \in DOMAIN k /\ Head(k) = e
        /\ Len(Tail(k)) = m - 1 /\ DOMAIN Tail(k) = 1..(m - 1)
        /\ \A i \in DOMAIN Tail(k) : i + 1 \in DOMAIN k /\ Tail(k)[i] = k[i + 1]
    BY <1>2, <1>3, HeadTail
  <1>5. e \in Event
    BY <1>2, <1>4
  <1>6. a \in 0..Len(Txn) /\ old \in Nat
    BY <1>1, ResumeLsnType
  <1>7. a \in Nat /\ n \in Nat /\ e.seq \in Nat /\ e.pos \in Changes
    BY <1>2, <1>5, <1>6, TxnLength DEF Event
  <1>8. /\ \A i \in DOMAIN k : k[i].pos = a + i
        /\ \A i \in DOMAIN b : b[i].pos = a + m + i
        /\ InPlace(q) => mark[q] = a + m + n
        /\ e.pos = a + 1
    BY <1>2, <1>4 DEF OrderAt
  <1>9. /\ \A i \in DOMAIN k : old < k[i].seq /\ k[i].seq < seq
        /\ \A i \in DOMAIN b : old < b[i].seq /\ b[i].seq < seq
        /\ \A i, j \in DOMAIN k : i < j => k[i].seq < k[j].seq
        /\ \A i \in DOMAIN k, j \in DOMAIN b : k[i].seq < b[j].seq
        /\ \A i, j \in DOMAIN b : i < j => b[i].seq < b[j].seq
        /\ old < e.seq
    BY <1>2, <1>4 DEF SeqAt
  <1>10. /\ ckpt' = [ckpt EXCEPT ![q] = e]
         /\ applied' = [applied EXCEPT ![q] = Append(@, e.pos)]
         /\ handle' = [handle EXCEPT ![q] = e.seq]
    <2>1. ~ShouldSkip(q, Head(queue[q]))
      <3>1. ~(e.seq <= old)
        <4> HIDE DEF e, old
        <4> QED
          BY <1>6, <1>7, <1>9
      <3> QED
        BY <1>4, <3>1 DEF ShouldSkip
    <2> QED
      BY <1>4, <2>1 DEF Process
  <1>11. /\ l = Tail(k) /\ ckpt'[q] = e /\ applied'[q] = Append(applied[q], e.pos)
         /\ handle'[q] = e.seq /\ box'[q] = b
    BY <1>1, <1>3, <1>10 DEF QueryType
  <1>12. \A p \in Queries \ {q} : Same(p)
    BY <1>1, <1>3, <1>10 DEF QueryType, Same
  <1>13. /\ Len(l) = m - 1
         /\ \A i \in DOMAIN l : i \in Nat /\ i >= 1 /\ i + 1 \in DOMAIN k /\ l[i] = k[i + 1]
    <2>1. \A i \in 1..(m - 1) : i \in Nat /\ i >= 1
      BY <1>4
    <2> QED
      BY <1>4, <1>11, <2>1
  <1>14. Served(q) /\ ~Subscribing(q)' /\ (InPlace(q)' <=> InPlace(q)) /\ Served(q)'
    BY <1>3 DEF Served, Subscribing, InPlace
  <1>15. AppliedAt(q)'
    <2> DEFINE s == applied[q]
    <2>1. Len(s) = a /\ \A i \in DOMAIN s : s[i] = i
      BY <1>2 DEF AppliedAt
    <2>2. s \in Seq(Changes)
      BY <1>2
    <2> HIDE DEF s, e, a
    <2>3. /\ Len(Append(s, e.pos)) = a + 1
          /\ \A i \in DOMAIN Append(s, e.pos) : Append(s, e.pos)[i] = i
      BY <1>6, <1>7, <1>8, <2>1, <2>2, AppendLast
    <2> QED
      BY <1>8, <1>11, <2>3 DEF AppliedAt, s
  <1>16. RoomAt(q)'
    BY <1>2, <1>3, <1>11, <1>14 DEF RoomAt
  <1> HIDE DEF k, l, b, a, m, n, e, old
  <1>17. OrderAt(q)'
    <2>1. \A i \in DOMAIN l : l[i].pos = (a + 1) + i
      <3>1. ASSUME NEW i \in DOMAIN l PROVE l[i].pos = (a + 1) + i
        <4>1. i \in Nat /\ l[i].pos = a + (i + 1)
          BY <1>8, <1>13
        <4> QED
          BY <1>6, <1>7, <4>1
      <3> QED
        BY <3>1
    <2>2. \A i \in DOMAIN b : b[i].pos = (a + 1) + (m - 1) + i
      <3>1. a + m = (a + 1) + (m - 1)
        BY <1>4, <1>6, <1>7
      <3> QED
        BY <1>8, <3>1
    <2>3. InPlace(q) => mark[q] = (a + 1) + (m - 1) + n
      <3>1. a + m + n = (a + 1) + (m - 1) + n
        BY <1>4, <1>6, <1>7
      <3> QED
        BY <1>8, <3>1
    <2> QED
      BY <1>3, <1>8, <1>11, <1>13, <1>14, <2>1, <2>2, <2>3 DEF OrderAt, l, b, n
  <1>18. SeqAt(q)'
    <2>1. e.seq < seq
      BY <1>4, <1>9 DEF e
    <2>2. \A i \in DOMAIN l : e.seq < l[i].seq /\ l[i].seq < seq
      <3>1. ASSUME NEW i \in DOMAIN l PROVE e.seq < l[i].seq /\ l[i].seq < seq
        <4>1. i + 1 \in DOMAIN k /\ 1 < i + 1 /\ l[i] = k[i + 1]
          BY <1>13
        <4> QED
          BY <1>4, <1>9, <4>1 DEF e
      <3> QED
        BY <3>1
    <2>3. \A i \in DOMAIN b : e.seq < b[i].seq /\ b[i].seq < seq
      BY <1>4, <1>9 DEF e
    <2>4. \A i, j \in DOMAIN l : i < j => l[i].seq < l[j].seq
      BY <1>9, <1>13
    <2>5. \A i \in DOMAIN l, j \in DOMAIN b : l[i].seq < b[j].seq
      BY <1>9, <1>13
    <2> QED
      BY <1>3, <1>9, <1>11, <2>1, <2>2, <2>3, <2>4, <2>5 DEF SeqAt, l, b
  <1>19. SlotAt(q)'
    <2>1. flush <= Lsn(a) /\ flush \in Nat
      BY <1>1, <1>2, <1>3 DEF SlotAt, Holds, ResumeLsn, a, StreamType
    <2>2. a + 1 \in 0..Len(Txn) /\ a <= a + 1
      BY <1>6, <1>7, <1>8, LsnFacts DEF Changes
    <2>3. Lsn(a) <= Lsn(a + 1) /\ Lsn(a) \in Nat /\ Lsn(a + 1) \in Nat
      BY <1>6, <1>7, <2>2, LsnOrder, LsnFacts
    <2>4. flush <= Lsn(a + 1)
      BY <2>1, <2>3
    <2> QED
      BY <1>3, <1>8, <1>11, <2>4 DEF SlotAt, ResumeLsn
  <1>20. MapAt(q)'
    <2> SUFFICES ASSUME NEW f \in positions
                 PROVE  /\ f.seq <= e.seq => f.pos <= e.pos
                        /\ \A i \in DOMAIN l : f.seq <= l[i].seq => f.pos <= l[i].pos
                        /\ \A i \in DOMAIN b : f.seq <= b[i].seq => f.pos <= b[i].pos
      BY <1>3, <1>11 DEF MapAt, l, b
    <2>1. /\ \A i \in DOMAIN k : f.seq <= k[i].seq => f.pos <= k[i].pos
          /\ \A i \in DOMAIN b : f.seq <= b[i].seq => f.pos <= b[i].pos
      BY <1>2, <1>14 DEF MapAt, b, k
    <2> QED
      BY <1>4, <1>13, <2>1 DEF e
  <1> QED
    BY <1>3, <1>12, <1>14, <1>15, <1>16, <1>17, <1>18, <1>19, <1>20, OwnStep

----------------------------------------------------------------------------
(* The theorems.                                                           *)

LEMMA InitInv ==
    ASSUME Init
    PROVE  Inv
  <1>1. ASSUME NEW q \in Queries
        PROVE  /\ phase[q] = "idle" /\ rewind[q] = None /\ attached[q] = FALSE /\ box[q] = <<>>
               /\ queue[q] = <<>> /\ handle[q] = None /\ applied[q] = <<>>
               /\ ckpt[q].pos = 0
    BY DEF Init
  <1>2. flush = 1 /\ restart = 1 /\ status = "stopped" /\ task = FALSE
    BY DEF Init
  <1>3. ASSUME NEW q \in Queries
        PROVE  ~Served(q) /\ ~Holds(q) /\ ~InPlace(q) /\ ~Joining(q) /\ ~Rewinding(q) /\ ~Subscribing(q)
    BY <1>1 DEF Served, Holds, InPlace, Joining, Rewinding, Subscribing
  <1>4. ASSUME NEW q \in Queries PROVE AppliedAt(q) /\ RoomAt(q) /\ OrderAt(q) /\ SeqAt(q)
    <2>1. DOMAIN <<>> = {} /\ Len(<<>>) = 0
      OBVIOUS
    <2>2. AppliedAt(q)
      BY <1>1, <1>4, <2>1 DEF AppliedAt
    <2>3. RoomAt(q)
      BY <1>1, <1>3, <1>4 DEF RoomAt
    <2>4. OrderAt(q) /\ SeqAt(q)
      BY <1>1, <1>3, <1>4, <2>1 DEF OrderAt, SeqAt
    <2> QED
      BY <2>2, <2>3, <2>4
  <1>5. ASSUME NEW q \in Queries PROVE LockAt(q) /\ ServeAt(q) /\ SlotAt(q) /\ MapAt(q)
    BY <1>1, <1>3 DEF LockAt, ServeAt, SlotAt, MapAt
  <1>6. StatusInv
    BY <1>2, <1>3 DEF StatusInv
  <1> QED
    BY <1>2, <1>3, <1>4, <1>5, <1>6 DEF Inv, QueryInv, LockInv, ReadInv, RewindInv

LEMMA InvStep ==
    ASSUME IInv, Races = {}, [Next]_vars
    PROVE  Inv'
  <1>1. CASE StartSource
    BY <1>1, StartSourceStep
  <1>2. CASE Dispatch
    BY <1>2, DispatchStep
  <1>3. CASE Keepalive
    BY <1>3, KeepaliveStep
  <1>4. CASE Reconnect
    BY <1>4, ReconnectStep
  <1>5. CASE StreamFails
    BY <1>5, StreamFailsStep
  <1>6. CASE Feedback
    BY <1>6, FeedbackStep
  <1>7. CASE StopSource
    BY <1>7, StopSourceStep
  <1>8. ASSUME NEW q \in Queries,
               \/ Check(q) \/ Attach(q) \/ Filter(q) \/ ResumeFails(q)
               \/ Seed(q) \/ Forward(q) \/ Process(q) \/ Stop(q)
        PROVE  Inv'
    BY <1>8, CheckStep, AttachStep, FilterStep, ResumeFailsStep, SeedStep, ForwardStep,
       ProcessStep, StopStep
  <1>9. CASE SubscriptionsComplete
    BY <1>9, FenceStep DEF SubscriptionsComplete
  <1>10. CASE FenceTimeout
    BY <1>10, FenceStep DEF FenceTimeout
  <1>11. CASE Crash
    BY <1>11, CrashStep
  <1>12. CASE UNCHANGED vars
    BY <1>12, FenceStep DEF vars, slot, stream, queryVars
  <1> QED
    BY <1>1, <1>2, <1>3, <1>4, <1>5, <1>6, <1>7, <1>8, <1>9, <1>10, <1>11, <1>12 DEF Next

LEMMA Invariance ==
    ASSUME Races = {}
    PROVE  Spec => []IInv
  <1>1. Init => Inv
    BY InitInv
  <1>2. IInv /\ TypeOK' /\ [Next]_vars => IInv'
    BY InvStep DEF IInv
  <1>3. TypeOK /\ Inv => IInv
    BY DEF IInv
  <1> QED
    BY <1>1, <1>2, <1>3, TypeCorrect, PTL DEF Spec

(* Every query's index absorbs the changes of the database each once, in   *)
(* order and without a gap, through rewinds, reconnections, crashes and a  *)
(* slot that advances (the replication task of components/sources/         *)
(* postgres, SourceBase's position filter and the query's checkpoint),     *)
(* when none of the named races happens.                                   *)
THEOREM AbsorbedExactlyOnce ==
    ASSUME Races = {}
    PROVE  Spec => []ExactlyOnce
  <1>1. IInv => ExactlyOnce
    BY DEF IInv, Inv, QueryInv, AppliedAt, ExactlyOnce
  <1> QED
    BY <1>1, Invariance, PTL

(* send_feedback never lets the slot advance past what a running query has *)
(* not committed, whatever the handles, the position map and the fence     *)
(* hold when it is sent, when none of the named races happens.             *)
THEOREM SlotServesRunning ==
    ASSUME Races = {}
    PROVE  Spec => []SlotServes
  <1>1. IInv => SlotServes
    BY DEF IInv, Inv, QueryInv, SlotAt, Holds, SlotServes
  <1> QED
    BY <1>1, Invariance, PTL

=============================================================================
