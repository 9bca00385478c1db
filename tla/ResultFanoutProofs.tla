------------------------- MODULE ResultFanoutProofs -------------------------
(***************************************************************************)
(* What holds of ResultFanout for every set of reactions, every channel    *)
(* capacity, every number of results and starts, and whether or not starts *)
(* overlap.                                                                *)
(***************************************************************************)
EXTENDS ResultFanout, FiniteSetTheorems, TLAPS

Receiving(r) == pc[r] \in {"attached", "running"}

----------------------------------------------------------------------------
(* The inductive invariant.                                                *)

\* output_state is held by the one reaction between its head and its receiver,
\* and the head it sampled stands as long as it holds it.
LockInv ==
    /\ writer = {r \in Reactions : pc[r] = "head"}
    /\ \A q, r \in writer : q = r
    /\ \A r \in writer : asOf[r] = head /\ starts[r] < MaxStarts

\* Every subscription has its entry in the list, once.
ListInv ==
    /\ \A i, j \in DOMAIN dispatchers : dispatchers[i] = dispatchers[j] => i = j
    /\ \A i \in DOMAIN dispatchers : dispatchers[i][2] <= starts[dispatchers[i][1]]
    /\ \A r \in Reactions : Receiving(r) =>
          \E i \in DOMAIN dispatchers : dispatchers[i] = <<r, starts[r]>>

\* No reaction is ahead of the query, and every numbered result is dispatched
\* before the next.
MarkInv ==
    /\ \A r \in Reactions : asOf[r] <= head /\ last[r] <= head
    /\ query # "idle" => head > 0
    /\ turn > 0

IInv == TypeOK /\ LockInv /\ ListInv /\ MarkInv /\ NothingMissed

----------------------------------------------------------------------------
(* The list and the channels.                                              *)

\* The entry the query is at is the only one of its subscription: it has been
\* served when the query has passed it, and not before.
LEMMA ServedOnce ==
    ASSUME IInv, NEW r \in Reactions, NEW i \in DOMAIN dispatchers,
           dispatchers[i] = <<r, starts[r]>>
    PROVE  Served(r) <=> i < turn
  <1>1. DOMAIN dispatchers = 1..Len(dispatchers) /\ Len(dispatchers) \in Nat /\ turn \in Nat
    BY DEF IInv, TypeOK
  <1>2. \A j \in DOMAIN dispatchers : dispatchers[j] = <<r, starts[r]>> => j = i
    BY DEF IInv, ListInv
  <1> QED
    BY <1>1, <1>2 DEF Served

\* Once the query is past the end of the list, every receiver has been served.
LEMMA AllServed ==
    ASSUME IInv, turn > Len(dispatchers), NEW r \in Reactions, Receiving(r)
    PROVE  Served(r)
  <1>1. PICK i \in DOMAIN dispatchers : dispatchers[i] = <<r, starts[r]>>
    BY DEF IInv, ListInv
  <1>2. i \in 1..Len(dispatchers) /\ Len(dispatchers) \in Nat /\ turn \in Nat
    BY <1>1, SMTT(30) DEF IInv, TypeOK
  <1> QED
    BY <1>1, <1>2, ServedOnce

\* What a step of the dispatch does to everything but the channels.
LEMMA SendKeeps ==
    ASSUME IInv, Send
    PROVE  /\ query = "send" /\ turn \in DOMAIN dispatchers /\ turn' = turn + 1
           /\ dispatchers[turn][1] \in Reactions
           /\ dispatchers[turn] = <<dispatchers[turn][1], dispatchers[turn][2]>>
           /\ UNCHANGED <<head, query, dispatchers, writer, pc, starts, asOf, last>>
  <1>1. query = "send" /\ turn <= Len(dispatchers) /\ turn' = turn + 1
        /\ UNCHANGED <<head, query, dispatchers, writer, pc, starts, asOf, last>>
    BY DEF Send
  <1>2. turn \in Nat \ {0} /\ dispatchers \in Seq(Reactions \X (1..MaxStarts))
    BY DEF IInv, TypeOK, MarkInv
  <1>3. turn \in DOMAIN dispatchers /\ dispatchers[turn] \in Reactions \X (1..MaxStarts)
    BY <1>1, <1>2
  <1> QED
    BY <1>1, <1>3

\* A channel gets the result when the query is at its entry.
LEMMA SendGives ==
    ASSUME IInv, Send, NEW r \in Reactions
    PROVE  channel'[r] = IF Live(dispatchers[turn]) /\ dispatchers[turn][1] = r
                         THEN Append(channel[r], head) ELSE channel[r]
  <1>1. dispatchers[turn][1] \in Reactions /\ channel \in [Reactions -> Seq(1..MaxResults)]
    BY SendKeeps DEF IInv, TypeOK
  <1> QED
    BY <1>1 DEF Send

\* Appending keeps the elements there were and puts the new one last.
LEMMA Appended ==
    ASSUME NEW S, NEW s \in Seq(S), NEW e \in S
    PROVE  /\ Append(s, e) \in Seq(S)
           /\ DOMAIN Append(s, e) = DOMAIN s \union {Len(s) + 1}
           /\ DOMAIN s = 1..Len(s) /\ Len(s) \in Nat
           /\ \A i \in DOMAIN s : Append(s, e)[i] = s[i]
           /\ Append(s, e)[Len(s) + 1] = e
  OBVIOUS

\* Appending to a channel whose entries are consecutive.
LEMMA ChannelGrows ==
    ASSUME NEW S, NEW c \in Seq(S), NEW n \in S, NEW covered \in Int,
           \A i \in DOMAIN c : c[i] = covered + i, n = covered + Len(c) + 1
    PROVE  /\ Append(c, n) \in Seq(S) /\ Len(Append(c, n)) = Len(c) + 1
           /\ \A i \in DOMAIN Append(c, n) : Append(c, n)[i] = covered + i
  OBVIOUS

\* Taking the first of them.
LEMMA ChannelShrinks ==
    ASSUME NEW S, NEW c \in Seq(S), c # <<>>, NEW covered \in Int,
           \A i \in DOMAIN c : c[i] = covered + i
    PROVE  /\ Tail(c) \in Seq(S) /\ Len(Tail(c)) = Len(c) - 1
           /\ Head(c) \in S /\ Head(c) = covered + 1
           /\ \A i \in DOMAIN Tail(c) : Tail(c)[i] = covered + 1 + i
  OBVIOUS

----------------------------------------------------------------------------
(* The steps.                                                              *)

\* Every step of the query, of subscribe, of the fetches and of the forwarders
\* keeps every variable in its type, and the channels within their capacity.
LEMMA TypeStep ==
    ASSUME IInv, Next
    PROVE  TypeOK'
  <1>0. Send => /\ dispatchers[turn][1] \in Reactions /\ turn' = turn + 1
                /\ UNCHANGED <<head, query, dispatchers, writer, pc, starts, asOf, last>>
    BY SendKeeps
  <1> USE FanoutAssumption DEF IInv, TypeOK, reactionVars
  <1>1. CASE Apply
    BY <1>1 DEF Apply
  <1>2. CASE Publish
    BY <1>2 DEF Publish
  <1>3. CASE Send
    <2> DEFINE d == dispatchers[turn]
    <2>1. /\ UNCHANGED <<head, query, dispatchers, writer, pc, starts, asOf, last>>
          /\ turn' \in Nat /\ d[1] \in Reactions
      BY <1>3, <1>0, SMTT(30)
    <2>2. head \in 1..MaxResults
      BY <1>3 DEF Send, MarkInv
    <2>3. CASE UNCHANGED channel
      BY <2>1, <2>3
    <2>4. CASE Len(channel[d[1]]) < Capacity /\ channel' = [channel EXCEPT ![d[1]] = Append(@, head)]
      <3>1. /\ Append(channel[d[1]], head) \in Seq(1..MaxResults)
            /\ Len(Append(channel[d[1]], head)) = Len(channel[d[1]]) + 1
        BY <2>1, <2>2
      <3>2. channel' \in [Reactions -> Seq(1..MaxResults)]
        BY <2>1, <2>4, <3>1
      <3>3. \A r \in Reactions : channel'[r] = IF r = d[1] THEN Append(channel[r], head) ELSE channel[r]
        BY <2>1, <2>4
      <3> HIDE DEF d
      <3>4. \A r \in Reactions : Len(channel'[r]) <= Capacity
        BY <2>1, <2>4, <3>1, <3>3, SMTT(30)
      <3> QED
        BY <2>1, <3>2, <3>4
    <2> QED
      BY <1>3, <2>3, <2>4 DEF Send
  <1>4. CASE Sent
    BY <1>4 DEF Sent
  <1>5. ASSUME NEW r \in Reactions, Subscribe(r)
        PROVE  TypeOK'
    <2>1. writer' = {r} /\ Cardinality({r}) = 1
      BY <1>5, FS_Singleton DEF Subscribe
    <2> QED
      BY <1>5, <2>1 DEF Subscribe
  <1>6. ASSUME NEW r \in Reactions, Attach(r)
        PROVE  TypeOK'
    <2>1. writer' = {}
      BY <1>6 DEF Attach, LockInv
    <2>2. Cardinality(writer') <= 1
      BY <2>1, FS_EmptySet
    <2>3. starts[r] < MaxStarts
      BY <1>6 DEF Attach, LockInv
    <2>4. starts'[r] \in 1..MaxStarts /\ starts' \in [Reactions -> 0..MaxStarts]
      BY <1>6, <2>3 DEF Attach
    <2>5. dispatchers' \in Seq(Reactions \X (1..MaxStarts))
      BY <1>6, <2>4 DEF Attach
    <2> QED
      BY <1>6, <2>1, <2>2, <2>4, <2>5 DEF Attach
  <1>7. ASSUME NEW r \in Reactions, Fetch(r) \/ SkipHistory(r)
        PROVE  TypeOK'
    BY <1>7 DEF Fetch, SkipHistory
  <1>8. ASSUME NEW r \in Reactions, Receive(r)
        PROVE  TypeOK'
    <2>1. /\ Tail(channel[r]) \in Seq(1..MaxResults) /\ Head(channel[r]) \in 1..MaxResults
          /\ Len(Tail(channel[r])) <= Len(channel[r])
      BY <1>8, SMTT(30) DEF Receive
    <2> QED
      BY <1>8, <2>1, SMTT(30) DEF Receive
  <1>9. ASSUME NEW r \in Reactions, Stop(r)
        PROVE  TypeOK'
    BY <1>9 DEF Stop
  <1> QED
    BY <1>1, <1>2, <1>3, <1>4, <1>5, <1>6, <1>7, <1>8, <1>9 DEF Next, Dispatching

\* Query::subscribe holds output_state from the head it samples until its
\* receiver is attached, so no result is numbered in between.
LEMMA LockStep ==
    ASSUME IInv, Next
    PROVE  LockInv'
  <1> USE DEF IInv, TypeOK, LockInv, reactionVars
  <1>1. CASE Apply \/ Dispatching
    BY <1>1, SendKeeps DEF Apply, Dispatching, Publish, Sent
  <1>2. ASSUME NEW r \in Reactions, Subscribe(r)
        PROVE  LockInv'
    BY <1>2 DEF Subscribe
  <1>3. ASSUME NEW r \in Reactions, Attach(r)
        PROVE  LockInv'
    BY <1>3 DEF Attach
  <1>4. ASSUME NEW r \in Reactions, Fetch(r) \/ SkipHistory(r) \/ Receive(r) \/ Stop(r)
        PROVE  LockInv'
    BY <1>4 DEF Fetch, SkipHistory, Receive, Stop
  <1> QED
    BY <1>1, <1>2, <1>3, <1>4 DEF Next

\* A new subscription's entry is new, since every start has its own number.
LEMMA ListStep ==
    ASSUME IInv, Next
    PROVE  ListInv'
  <1> USE DEF IInv, TypeOK, ListInv, Receiving, reactionVars
  <1>1. CASE Apply \/ Dispatching
    BY <1>1, SendKeeps DEF Apply, Dispatching, Publish, Sent
  <1>2. ASSUME NEW r \in Reactions, Attach(r)
        PROVE  ListInv'
    <2> DEFINE d == <<r, starts'[r]>>
    <2>0. starts[r] \in 0..MaxStarts /\ MaxStarts \in Nat
      BY FanoutAssumption
    <2>1. /\ starts'[r] = starts[r] + 1 /\ starts[r] < MaxStarts
          /\ \A q \in Reactions \ {r} : starts'[q] = starts[q]
          /\ dispatchers' = Append(dispatchers, d)
          /\ \A q \in Reactions \ {r} : pc'[q] = pc[q]
      BY <1>2 DEF Attach, LockInv
    <2>2. d \in Reactions \X (1..MaxStarts) /\ d[1] = r /\ d[2] = starts'[r]
      BY <2>0, <2>1
    <2>3. /\ dispatchers \in Seq(Reactions \X (1..MaxStarts))
          /\ \A q \in Reactions : starts[q] \in Nat /\ starts'[q] \in Nat /\ starts[q] <= starts'[q]
      <3>1. /\ dispatchers \in Seq(Reactions \X (1..MaxStarts))
            /\ \A q \in Reactions : starts[q] \in 0..MaxStarts
        OBVIOUS
      <3> HIDE DEF IInv
      <3> QED
        BY <2>0, <2>1, <3>1
    <2>4. \A i \in DOMAIN dispatchers : dispatchers[i][1] \in Reactions /\ dispatchers[i][2] \in Nat
      <3>1. \A i \in DOMAIN dispatchers : dispatchers[i] \in Reactions \X (1..MaxStarts)
        BY <2>3
      <3> QED
        BY <3>1, FanoutAssumption
    <2>5. \A i \in DOMAIN dispatchers : dispatchers[i] # d /\ dispatchers[i][2] <= starts[dispatchers[i][1]]
      BY <2>1, <2>2, <2>3, <2>4
    <2> HIDE DEF d, IInv, TypeOK
    <2>6. /\ DOMAIN dispatchers' = DOMAIN dispatchers \union {Len(dispatchers) + 1}
          /\ dispatchers'[Len(dispatchers) + 1] = d
          /\ \A i \in DOMAIN dispatchers : dispatchers'[i] = dispatchers[i]
          /\ DOMAIN dispatchers = 1..Len(dispatchers) /\ Len(dispatchers) \in Nat
      BY <2>1, <2>2, <2>3, Appended
    <2>7. \A i, j \in DOMAIN dispatchers : dispatchers[i] = dispatchers[j] => i = j
      BY DEF IInv
    <2>8. \A i, j \in DOMAIN dispatchers' : dispatchers'[i] = dispatchers'[j] => i = j
      BY <2>5, <2>6, <2>7
    <2>9. \A i \in DOMAIN dispatchers' : dispatchers'[i][2] <= starts'[dispatchers'[i][1]]
      BY <2>2, <2>3, <2>4, <2>5, <2>6, SMTT(30)
    <2>10. ASSUME NEW q \in Reactions, Receiving(q)'
           PROVE  \E i \in DOMAIN dispatchers' : dispatchers'[i] = <<q, starts'[q]>>
      <3>1. CASE q = r
        BY <3>1, <2>6 DEF d
      <3>2. CASE q # r
        <4>1. PICK i \in DOMAIN dispatchers : dispatchers[i] = <<q, starts[q]>>
          BY <3>2, <2>1, <2>10 DEF IInv
        <4> QED
          BY <3>2, <4>1, <2>1, <2>6
      <3> QED
        BY <3>1, <3>2
    <2> QED
      BY <2>8, <2>9, <2>10
  <1>3. ASSUME NEW r \in Reactions,
               Subscribe(r) \/ Fetch(r) \/ SkipHistory(r) \/ Receive(r) \/ Stop(r)
        PROVE  ListInv'
    BY <1>3 DEF Subscribe, Fetch, SkipHistory, Receive, Stop
  <1> QED
    BY <1>1, <1>2, <1>3 DEF Next

\* What a forwarder has covered is at most what the query has numbered.
LEMMA MarkStep ==
    ASSUME IInv, Next
    PROVE  MarkInv'
  <1>0. Send => query = "send" /\ turn' = turn + 1 /\ UNCHANGED <<head, query, asOf, last>>
    BY SendKeeps
  <1> USE FanoutAssumption DEF IInv, TypeOK, MarkInv, reactionVars
  <1>1. CASE Apply
    BY <1>1 DEF Apply
  <1>2. CASE Dispatching
    BY <1>0, <1>2 DEF Dispatching, Publish, Sent
  <1>3. ASSUME NEW r \in Reactions, Receive(r)
        PROVE  MarkInv'
    <2>1. /\ channel[r] # <<>> /\ channel[r] \in Seq(1..MaxResults)
          /\ \A i \in DOMAIN channel[r] : channel[r][i] = Due(r) - Len(channel[r]) + i
      BY <1>3 DEF Receive, NothingMissed
    <2>2. Due(r) \in Int /\ Due(r) <= head
      BY DEF Due
    <2>3. Head(channel[r]) <= head
      <3>1. /\ 1 \in DOMAIN channel[r] /\ Head(channel[r]) = channel[r][1]
            /\ Len(channel[r]) \in Nat \ {0}
        BY <2>1
      <3> QED
        BY <2>1, <2>2, <3>1, SMTT(30)
    <2> QED
      BY <1>3, <2>3 DEF Receive
  <1>4. ASSUME NEW r \in Reactions, Subscribe(r)
        PROVE  MarkInv'
    BY <1>4 DEF Subscribe
  <1>5. ASSUME NEW r \in Reactions, Fetch(r) \/ SkipHistory(r)
        PROVE  MarkInv'
    <2>1. /\ UNCHANGED <<head, query, turn, asOf>>
          /\ last'[r] \in {head, asOf[r]} /\ \A q \in Reactions \ {r} : last'[q] = last[q]
      BY <1>5 DEF Fetch, SkipHistory
    <2>2. /\ head \in Nat /\ (query # "idle" => head > 0)
          /\ turn > 0 /\ \A q \in Reactions : asOf[q] <= head /\ last[q] <= head
      OBVIOUS
    <2> HIDE DEF IInv
    <2> QED
      BY <2>1, <2>2
  <1>6. ASSUME NEW r \in Reactions, Attach(r) \/ Stop(r)
        PROVE  MarkInv'
    BY <1>6 DEF Attach, Stop
  <1> QED
    BY <1>1, <1>2, <1>3, <1>4, <1>5, <1>6 DEF Next

\* What NothingMissed says of one reaction.
Complete(r) ==
    /\ \A i \in DOMAIN channel[r] : channel[r][i] = Due(r) - Len(channel[r]) + i
    /\ Due(r) - Len(channel[r]) <= Mark(r)

\* The dispatch under way adds the new result to a channel exactly when it
\* becomes due there; a receiver is attached with nothing due but what its
\* sampled head covers; a fetch covers everything.
LEMMA MissedStep ==
    ASSUME IInv, Next
    PROVE  NothingMissed'
  <1> SUFFICES ASSUME NEW r \in Reactions, Receiving(r)'
               PROVE  Complete(r)'
    BY DEF NothingMissed, Complete, Receiving
  <1>1. Receiving(r) => Complete(r)
    BY DEF IInv, NothingMissed, Complete, Receiving
  <1>2. /\ head \in Nat /\ Due(r) \in Int /\ Due(r) <= head /\ turn \in Nat \ {0}
        /\ channel \in [Reactions -> Seq(1..MaxResults)]
        /\ channel[r] \in Seq(1..MaxResults) /\ Len(channel[r]) \in Nat
        /\ asOf[r] \in Nat /\ last[r] \in Nat /\ asOf[r] <= head /\ last[r] <= head
        /\ pc \in [Reactions -> {"off", "head", "attached", "running"}]
        /\ asOf \in [Reactions -> Nat] /\ last \in [Reactions -> Nat]
    BY FanoutAssumption DEF IInv, TypeOK, MarkInv, Due
  <1>3. CASE Apply
    BY <1>1, <1>2, <1>3 DEF Apply, reactionVars, Complete, Due, Mark, Receiving
  <1>4. CASE Publish
    <2>1. ~Served(r)'
      BY <1>4 DEF Publish, Served
    <2> QED
      BY <1>1, <1>2, <1>4, <2>1 DEF Publish, reactionVars, Complete, Due, Mark, Receiving
  <1>5. CASE Send
    <2> DEFINE d == dispatchers[turn]
    <2>1. /\ turn \in DOMAIN dispatchers /\ turn' = turn + 1 /\ query = "send"
          /\ UNCHANGED <<head, query, dispatchers, pc, starts, asOf, last>>
      BY <1>5, SendKeeps
    <2>2. Receiving(r) /\ Mark(r)' = Mark(r)
      BY <2>1 DEF Receiving, Mark
    <2>3. PICK i \in DOMAIN dispatchers : dispatchers[i] = <<r, starts[r]>>
      BY <2>2 DEF IInv, ListInv
    <2>4. i \in Nat /\ (Served(r) <=> i < turn) /\ (Served(r)' <=> i < turn + 1)
      <3>1. Served(r) <=> i < turn
        BY <2>3, ServedOnce
      <3>2. Served(r)' <=> \E k \in 1..turn : k <= Len(dispatchers) /\ dispatchers[k] = <<r, starts[r]>>
        BY <1>2, <2>1 DEF Served
      <3>3. DOMAIN dispatchers = 1..Len(dispatchers) /\ Len(dispatchers) \in Nat
        BY DEF IInv, TypeOK
      <3>4. \A j \in DOMAIN dispatchers : dispatchers[j] = <<r, starts[r]>> => j = i
        BY <2>3 DEF IInv, ListInv
      <3>5. i \in 1..Len(dispatchers)
        BY <2>3, <3>3
      <3>6. (\E k \in 1..turn : k <= Len(dispatchers) /\ dispatchers[k] = <<r, starts[r]>>) <=> i \in 1..turn
        <4> DEFINE e == <<r, starts[r]>>
        <4>1. dispatchers[i] = e /\ \A j \in 1..Len(dispatchers) : dispatchers[j] = e => j = i
          BY <2>3, <3>3, <3>4
        <4> HIDE DEF e
        <4>2. (\E k \in 1..turn : k <= Len(dispatchers) /\ dispatchers[k] = e) <=> i \in 1..turn
          BY <1>2, <3>3, <3>5, <4>1
        <4> QED
          BY <4>2 DEF e
      <3>7. i \in 1..turn <=> i < turn + 1
        BY <1>2, <3>3, <3>5
      <3> QED
        BY <3>1, <3>2, <3>3, <3>5, <3>6, <3>7
    <2>5. CASE i = turn
      <3>1. d[1] = r /\ d[2] = starts[r]
        BY <2>3, <2>5
      <3>2. channel'[r] = Append(channel[r], head)
        <4>1. Live(d)
          BY <2>2, <3>1 DEF Live, Receiving
        <4> QED
          BY <1>5, <3>1, <4>1, SendGives
      <3>3. Due(r) = head - 1 /\ Due(r)' = head
        BY <2>1, <2>4, <2>5 DEF Due
      <3> DEFINE covered == Due(r) - Len(channel[r])
      <3>4. /\ covered \in Int /\ \A k \in DOMAIN channel[r] : channel[r][k] = covered + k
            /\ head = covered + Len(channel[r]) + 1
        BY <1>1, <1>2, <2>2, <3>3 DEF Complete
      <3>5. head \in 1..MaxResults
        BY <1>5 DEF IInv, TypeOK, MarkInv, Send
      <3> HIDE DEF covered
      <3>6. /\ Len(channel'[r]) = Len(channel[r]) + 1
            /\ \A k \in DOMAIN channel'[r] : channel'[r][k] = covered + k
        BY <1>2, <3>2, <3>4, <3>5, ChannelGrows
      <3>7. covered = Due(r)' - Len(channel'[r])
        BY <1>2, <3>3, <3>6 DEF covered
      <3> QED
        BY <1>1, <2>2, <3>6, <3>7 DEF Complete, covered
    <2>6. CASE i # turn
      <3>1. d # <<r, starts[r]>>
        BY <2>1, <2>3, <2>6 DEF IInv, ListInv
      <3>2. d = <<d[1], d[2]>>
        BY <1>5, SendKeeps
      <3>3. Live(d) => d[1] # r
        BY <3>1, <3>2 DEF Live
      <3>4. channel'[r] = channel[r]
        BY <1>5, <3>3, SendGives
      <3>5. Due(r)' = Due(r)
        BY <1>2, <2>1, <2>4, <2>6 DEF Due
      <3> QED
        BY <1>1, <2>2, <3>4, <3>5 DEF Complete
    <2> QED
      BY <2>5, <2>6
  <1>6. CASE Sent
    <2>1. Receiving(r) => Served(r)
      BY <1>6, AllServed DEF Sent
    <2> QED
      BY <1>1, <1>2, <1>6, <2>1 DEF Sent, reactionVars, Complete, Due, Mark, Receiving
  <1>7. ASSUME NEW q \in Reactions,
               Subscribe(q) \/ Attach(q) \/ Fetch(q) \/ SkipHistory(q) \/ Receive(q) \/ Stop(q),
               q # r
        PROVE  Complete(r)'
    <2>1. /\ pc'[r] = pc[r] /\ starts'[r] = starts[r] /\ asOf'[r] = asOf[r]
          /\ last'[r] = last[r] /\ channel'[r] = channel[r]
          /\ UNCHANGED <<head, query, turn>>
      BY <1>2, <1>7 DEF Subscribe, Attach, Fetch, SkipHistory, Receive, Stop, IInv, TypeOK
    <2>2. query = "send" => UNCHANGED dispatchers
      BY <1>7 DEF Subscribe, Attach, Fetch, SkipHistory, Receive, Stop
    <2>3. Due(r)' = Due(r)
      BY <2>1, <2>2 DEF Due, Served
    <2> QED
      BY <1>1, <2>1, <2>3 DEF Complete, Mark, Receiving
  <1>8. CASE Attach(r)
    <2>1. channel'[r] = <<>> /\ pc'[r] = "attached" /\ asOf'[r] = head /\ head' = head
      BY <1>2, <1>8 DEF Attach, IInv, TypeOK, LockInv
    <2>2. Due(r)' \in Int /\ Due(r)' <= head
      BY <1>2, <2>1 DEF Due
    <2> QED
      BY <1>2, <2>1, <2>2 DEF Complete, Mark
  <1>9. CASE Fetch(r) \/ SkipHistory(r)
    <2>1. /\ UNCHANGED <<head, query, turn, dispatchers, starts, channel>>
          /\ pc[r] = "attached" /\ pc'[r] = "running"
          /\ last'[r] \in {head, asOf[r]}
      BY <1>2, <1>9 DEF Fetch, SkipHistory
    <2>2. Due(r)' = Due(r)
      BY <2>1 DEF Due, Served
    <2> QED
      BY <1>1, <1>2, <2>1, <2>2 DEF Complete, Mark, Receiving
  <1>10. CASE Receive(r)
    <2>1. /\ UNCHANGED <<head, query, turn, dispatchers, starts, pc>>
          /\ pc[r] = "running" /\ channel[r] # <<>>
          /\ channel'[r] = Tail(channel[r])
          /\ last'[r] = IF Head(channel[r]) > last[r] THEN Head(channel[r]) ELSE last[r]
      BY <1>2, <1>10 DEF Receive
    <2>2. Due(r)' = Due(r)
      BY <2>1 DEF Due, Served
    <2> DEFINE covered == Due(r) - Len(channel[r])
    <2>3. covered \in Int /\ (\A k \in DOMAIN channel[r] : channel[r][k] = covered + k)
          /\ covered <= last[r]
      BY <1>1, <1>2, <2>1 DEF Complete, Receiving, Mark
    <2> HIDE DEF covered
    <2>4. /\ Len(channel'[r]) = Len(channel[r]) - 1
          /\ Head(channel[r]) = covered + 1 /\ Head(channel[r]) \in 1..MaxResults
          /\ \A k \in DOMAIN channel'[r] : channel'[r][k] = covered + 1 + k
      <3> DEFINE c == channel[r]
      <3>1. c \in Seq(1..MaxResults) /\ c # <<>> /\ channel'[r] = Tail(c)
        BY <1>2, <2>1
      <3>2. \A k \in DOMAIN c : c[k] = covered + k
        BY <2>3
      <3>0. covered \in Int
        BY <2>3
      <3> HIDE DEF c
      <3>3. /\ Len(Tail(c)) = Len(c) - 1
            /\ Head(c) \in 1..MaxResults /\ Head(c) = covered + 1
            /\ \A k \in DOMAIN Tail(c) : Tail(c)[k] = covered + 1 + k
        BY <3>0, <3>1, <3>2, ChannelShrinks, ZenonT(30)
      <3> QED
        BY <3>1, <3>3 DEF c
    <2>5. covered + 1 = Due(r)' - Len(channel'[r])
      BY <1>2, <2>2, <2>4 DEF covered
    <2>6. covered + 1 <= Mark(r)'
      BY <1>2, <2>1, <2>3, <2>4 DEF Mark
    <2> QED
      BY <2>4, <2>5, <2>6 DEF Complete
  <1>11. CASE Subscribe(r) \/ Stop(r)
    BY <1>2, <1>11 DEF Subscribe, Stop, Receiving
  <1> QED
    BY <1>3, <1>4, <1>5, <1>6, <1>7, <1>8, <1>9, <1>10, <1>11 DEF Next, Dispatching

----------------------------------------------------------------------------
(* The invariant holds.                                                    *)

\* A query without results and without subscribers satisfies the invariant.
LEMMA Initially == Init => IInv
  <1> SUFFICES ASSUME Init PROVE IInv
    OBVIOUS
  <1>1. TypeOK
    BY FanoutAssumption, FS_EmptySet DEF Init, TypeOK
  <1>2. LockInv /\ ListInv /\ MarkInv /\ NothingMissed
    BY DEF Init, LockInv, ListInv, MarkInv, NothingMissed, Receiving
  <1> QED
    BY <1>1, <1>2 DEF IInv

\* No step leaves the invariant.
LEMMA Inductive == IInv /\ [Next]_vars => IInv'
  <1> SUFFICES ASSUME IInv, [Next]_vars PROVE IInv'
    OBVIOUS
  <1>1. CASE Next
    BY <1>1, TypeStep, LockStep, ListStep, MarkStep, MissedStep DEF IInv
  <1>2. CASE UNCHANGED vars
    BY <1>2 DEF vars, IInv, TypeOK, LockInv, ListInv, MarkInv, NothingMissed, Receiving,
                Due, Served, Mark
  <1> QED
    BY <1>1, <1>2

\* Type correctness: the locks, the list of dispatchers, and channels that
\* never hold more than dispatch_buffer_capacity results.
THEOREM TypeCorrect == Spec => []TypeOK
  <1>1. IInv => TypeOK
    BY DEF IInv
  <1> QED
    BY <1>1, Initially, Inductive, PTL DEF Spec

\* No result falls between the head a subscription samples and its receiver,
\* nor between the fetch behind the closed gate and the open gate, for any
\* number of reactions that start, stop and start again while the query
\* dispatches, overlapping starts included.
THEOREM NoResultMissed == Spec => []NothingMissed
  <1>1. IInv => NothingMissed
    BY DEF IInv
  <1> QED
    BY <1>1, Initially, Inductive, PTL DEF Spec

=============================================================================
