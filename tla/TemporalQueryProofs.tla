------------------------ MODULE TemporalQueryProofs ------------------------
(***************************************************************************)
(* Theorems about TemporalQuery: for any elements, times, durations and    *)
(* numbers of changes and faults, the differences the engine reports add   *)
(* up to the answer, the futures of failed evaluations apart, when futures *)
(* and changes are processed in the order of their times (no race) by the  *)
(* core library's consumer.                                                *)
(***************************************************************************)
EXTENDS TemporalQuery, TLAPS

Condition == [cond : BOOLEAN, since : Times]

----------------------------------------------------------------------------
(* The inductive invariant.                                                *)

\* A change leaves the time for its future, wherever its time is kept.
RoomInv ==
    /\ \A k \in DOMAIN inbox : inbox[k].from + Hold <= MaxTime
    /\ \A e \in Elements : index[e] # None => index[e].from + Hold <= MaxTime
    /\ \A e \in Elements : queue[e] # None => queue[e].orig + Hold <= MaxTime
    /\ \A e \in Elements : marker[e] # NoTime => marker[e] + Hold <= MaxTime

\* The times of the changes that are on their way.
Froms == {inbox[k].from : k \in DOMAIN inbox}

\* They arrive in the order of their times, and none is from the future.
OrderInv ==
    /\ \A t \in Froms : t <= wall
    /\ \A j, k \in DOMAIN inbox : j <= k => inbox[j].from <= inbox[k].from

\* No change on its way is older than what the index holds.
TimeOf(e) ==
    index[e] # None => index[e].from <= wall /\ \A t \in Froms : index[e].from <= t

\* The marker of a condition that holds.
MarkOf(e) ==
    (function = "trueFor" /\ index[e] # None /\ index[e].cond) =>
       marker[e] # NoTime /\ marker[e] <= index[e].from

\* What the source's condition becomes with a change.
Applied(s, c) ==
    CASE c.op = "delete" -> None
      [] c.op = "set" /\ s # None /\ s.cond /\ c.cond -> s
      [] OTHER -> [cond |-> c.cond, since |-> c.from]

\* The index shows condition s of an element.
Shows(e, s) ==
    /\ s = None <=> index[e] = None
    /\ s # None => s.cond = index[e].cond
    /\ s # None /\ s.cond /\ function = "trueFor" => s.since = marker[e]

\* The conditions of an element, one after the other, from what the index
\* shows through the changes on their way to what is true at the source.
IsPath(e, path) ==
    /\ path \in [0..Len(inbox) -> Condition \union {None}]
    /\ Shows(e, path[0])
    /\ path[Len(inbox)] = truth[e]
    /\ \A k \in 1..Len(inbox) :
          path[k] = IF inbox[k].el = e THEN Applied(path[k - 1], inbox[k]) ELSE path[k - 1]

PathInv == \A e \in Elements : \E path : IsPath(e, path)

\* When the element in the index is due.
Due(e) == IF function = "trueFor" THEN marker[e] + Hold ELSE At[e]

Candidate(e) == index[e] # None /\ index[e].cond

\* A row is a candidate whose time has come, before any change on its way,
\* with no future left.
RowOf(e) ==
    e \in rows =>
       /\ Candidate(e)
       /\ Due(e) <= wall
       /\ queue[e] = None
       /\ \A t \in Froms : Due(e) <= t

\* A candidate that is not a row has a future, not later than its time
\* (earlier if it was left by a deleted element) and later than the index,
\* unless it was lost.
FutureOf(e) ==
    (Candidate(e) /\ e \notin rows /\ e \notin lost) =>
       /\ queue[e] # None
       /\ queue[e].due <= Due(e)
       /\ index[e].from < queue[e].due

\* One that was lost stays a candidate without a row and without a future.
LostOf(e) == e \in lost => Candidate(e) /\ e \notin rows /\ queue[e] = None

\* A future, also one left by a deleted element, comes no later than that of
\* a change that is still to be processed or made.
QueueOf(e) ==
    queue[e] # None =>
       /\ function # "trueFor" => queue[e].due = At[e]
       /\ function = "trueFor" => queue[e].due <= wall + Hold
       /\ function = "trueFor" => \A t \in Froms : queue[e].due <= t + Hold

ElementInv(e) ==
    TimeOf(e) /\ MarkOf(e) /\ RowOf(e) /\ FutureOf(e) /\ LostOf(e) /\ QueueOf(e)

TInv == TypeOK /\ RoomInv
IInv == TInv /\ OrderInv /\ PathInv /\ \A e \in Elements : ElementInv(e)

----------------------------------------------------------------------------
(* The operators.                                                          *)

LEMMA NotNone ==
    /\ \A c, t : [cond |-> c, since |-> t] # None
    /\ \A c, t : [cond |-> c, from |-> t] # None
    /\ \A o, t : [orig |-> o, due |-> t] # None
<1>1. /\ \A c, t : "none" \notin DOMAIN [cond |-> c, since |-> t]
      /\ \A c, t : "none" \notin DOMAIN [cond |-> c, from |-> t]
      /\ \A o, t : "none" \notin DOMAIN [orig |-> o, due |-> t]
  OBVIOUS
<1>2. "none" \in DOMAIN None
  BY DEF None
<1>3. QED
  BY <1>1, <1>2

LEMMA Numbers ==
    /\ Hold \in Nat /\ MaxTime \in Nat /\ MaxChanges \in Nat /\ MaxFaults \in Nat
    /\ At \in [Elements -> Times]
    /\ NoTime \in Nat /\ NoTime \notin Times /\ Times \subseteq Nat
    /\ \A t \in Times : t + Hold \in Nat
BY TemporalAssumption DEF NoTime, Times

LEMMA InitTyped == Init => TInv
<1> SUFFICES ASSUME Init PROVE TInv
  OBVIOUS
<1>1. 0 \in Times /\ 0 \in 0..MaxChanges /\ 0 \in 0..MaxFaults
  BY Numbers DEF Times
<1>2. inbox \in Seq(Change) /\ DOMAIN inbox = {}
  BY DEF Init
<1>3. TypeOK
  BY <1>1, <1>2 DEF Init, TypeOK
<1>4. RoomInv
  BY <1>2 DEF Init, RoomInv
<1>5. QED
  BY <1>3, <1>4 DEF TInv

\* What a set does to the element's marker, its future and the rows, and that
\* it does nothing to the others.
LEMMA MarkedIs ==
    ASSUME TypeOK, NEW e \in Elements, NEW cond \in BOOLEAN, NEW tx
    PROVE  /\ \A d \in Elements : d # e => Marked(e, cond, tx)[d] = marker[d]
           /\ DOMAIN Marked(e, cond, tx) = Elements
           /\ Marked(e, cond, tx) \in [Elements -> Times \union {NoTime, tx}]
           /\ ~(function = "trueFor" /\ cond) => Marked(e, cond, tx)[e] = NoTime
           /\ (function = "trueFor" /\ cond /\ marker[e] = NoTime) => Marked(e, cond, tx)[e] = tx
           /\ (function = "trueFor" /\ cond /\ marker[e] # NoTime) => Marked(e, cond, tx)[e] = marker[e]
BY DEF TypeOK, Marked

LEMMA DueTimeType ==
    ASSUME TInv, NEW e \in Elements, NEW tx \in Times, tx + Hold <= MaxTime
    PROVE  DueTime(e, tx) \in Times
<1>1. /\ marker[e] \in Times \union {NoTime}
      /\ marker[e] # NoTime => marker[e] + Hold <= MaxTime
  BY DEF TInv, TypeOK, RoomInv
<1>2. QED
  BY <1>1, Numbers DEF DueTime, Times

\* The three things that can become of a future, and which it is.
LEMMA ScheduledIs ==
    ASSUME NEW e, NEW cond \in BOOLEAN, NEW tx, NEW rt, NEW q
    PROVE  LET s == Scheduled(q, e, cond, tx, rt)
               pushed == [q EXCEPT ![e] = [orig |-> tx, due |-> DueTime(e, tx)]]
               removed == [q EXCEPT ![e] = None]
           IN /\ s \in {q, pushed, removed}
              /\ (DueTime(e, tx) <= rt /\ function = "trueLater") => s = q
              /\ (~(DueTime(e, tx) <= rt) /\ function = "trueLater") => s = pushed
              /\ (function # "trueLater" /\ (~cond \/ DueTime(e, tx) <= rt)) => s = removed
              /\ (function # "trueLater" /\ cond /\ ~(DueTime(e, tx) <= rt)) =>
                    s = IF q[e] = None THEN pushed ELSE q
<1>1. CASE function = "trueLater"
  BY <1>1 DEF Scheduled
<1>2. CASE function # "trueLater" /\ (~cond \/ DueTime(e, tx) <= rt)
  BY <1>2 DEF Scheduled
<1>3. CASE function # "trueLater" /\ ~(~cond \/ DueTime(e, tx) <= rt)
  BY <1>3 DEF Scheduled
<1>4. QED
  BY <1>1, <1>2, <1>3

LEMMA ReportedIs ==
    ASSUME NEW e, NEW before \in BOOLEAN, NEW after \in BOOLEAN
    PROVE  /\ \A d : d # e => (d \in Reported(e, before, after) <=> d \in rows)
           /\ e \in Reported(e, before, after) <=>
                 (after /\ ~before) \/ (e \in rows /\ ~(before /\ ~after))
<1>1. CASE after /\ ~before
  BY <1>1 DEF Reported
<1>2. CASE before /\ ~after
  BY <1>2 DEF Reported
<1>3. CASE ~(after /\ ~before) /\ ~(before /\ ~after)
  BY <1>3 DEF Reported
<1>4. QED
  BY <1>1, <1>2, <1>3

----------------------------------------------------------------------------
(* Types.                                                                  *)

\* The engine's part of TInv.
EngineType ==
    /\ index \in [Elements -> [cond : BOOLEAN, from : Times] \union {None}]
    /\ marker \in [Elements -> Times \union {NoTime}]
    /\ queue \in [Elements -> [orig : Times, due : Times] \union {None}]
    /\ rows \subseteq Elements
    /\ \A e \in Elements : marker[e] # NoTime =>
          function = "trueFor" /\ index[e] # None /\ index[e].cond
    /\ \A e \in Elements : index[e] # None => index[e].from + Hold <= MaxTime
    /\ \A e \in Elements : queue[e] # None => queue[e].orig + Hold <= MaxTime
    /\ \A e \in Elements : marker[e] # NoTime => marker[e] + Hold <= MaxTime

LEMMA ReportedType ==
    ASSUME rows \subseteq Elements, NEW e \in Elements, NEW before, NEW after
    PROVE  Reported(e, before, after) \subseteq Elements
<1>1. Reported(e, before, after) \in {rows, rows \union {e}, rows \ {e}}
  BY DEF Reported
<1>2. QED
  BY <1>1

\* An evaluation of e with a time that leaves room for its future.
LEMMA EvaluationTyped ==
    ASSUME TInv, NEW e \in Elements, NEW cond \in BOOLEAN,
           NEW tx \in Times, tx + Hold <= MaxTime, NEW rt \in Times,
           NEW q \in [Elements -> [orig : Times, due : Times] \union {None}],
           \A d \in Elements : q[d] # None => q[d].orig + Hold <= MaxTime
    PROVE  LET m == Marked(e, cond, tx)
               s == Scheduled(q, e, cond, tx, rt)
           IN /\ m \in [Elements -> Times \union {NoTime}]
              /\ s \in [Elements -> [orig : Times, due : Times] \union {None}]
              /\ \A d \in Elements : s[d] # None => s[d].orig + Hold <= MaxTime
              /\ \A d \in Elements : m[d] # NoTime => m[d] + Hold <= MaxTime
<1> DEFINE m == Marked(e, cond, tx)
           s == Scheduled(q, e, cond, tx, rt)
           new == [orig |-> tx, due |-> DueTime(e, tx)]
<1>0. TypeOK /\ RoomInv
  BY DEF TInv
<1>1. /\ m \in [Elements -> Times \union {NoTime}]
      /\ \A d \in Elements : d # e => m[d] = marker[d]
      /\ m[e] \in {NoTime, tx, marker[e]}
  BY <1>0, MarkedIs
<1>2. \A d \in Elements : m[d] # NoTime => m[d] + Hold <= MaxTime
  BY <1>0, <1>1 DEF RoomInv
<1>3. DueTime(e, tx) \in Times
  BY DueTimeType
<1>4. new \in [orig : Times, due : Times] /\ new.orig = tx
  BY <1>3
<1>6. s \in {q, [q EXCEPT ![e] = new], [q EXCEPT ![e] = None]}
  BY ScheduledIs
<1> HIDE DEF m, s, new
<1>9. s \in [Elements -> [orig : Times, due : Times] \union {None}]
  BY <1>4, <1>6, NotNone
<1>10. \A d \in Elements : s[d] # None => s[d].orig + Hold <= MaxTime
  BY <1>4, <1>6, NotNone
<1>11. QED
  BY <1>1, <1>2, <1>9, <1>10 DEF m, s

LEMMA SetTyped ==
    ASSUME TInv, function' = function, NEW c \in Change, c.from + Hold <= MaxTime, ProcessSet(c)
    PROVE  EngineType'
<1> DEFINE e == c.el
<1>0. /\ TypeOK /\ RoomInv
      /\ e \in Elements /\ c.cond \in BOOLEAN /\ c.from \in Times
  BY DEF TInv, Change
<1>1. /\ index' = [index EXCEPT ![e] = [cond |-> c.cond, from |-> c.from]]
      /\ marker' = Marked(e, c.cond, c.from)
      /\ queue' = Scheduled(queue, e, c.cond, c.from, c.from)
      /\ \E b, a : rows' = Reported(e, b, a)
  BY DEF ProcessSet
<1> HIDE DEF e
<1>2. /\ queue \in [Elements -> [orig : Times, due : Times] \union {None}]
      /\ \A d \in Elements : queue[d] # None => queue[d].orig + Hold <= MaxTime
      /\ rows \subseteq Elements
      /\ index \in [Elements -> [cond : BOOLEAN, from : Times] \union {None}]
  BY <1>0 DEF TypeOK, RoomInv
<1>3. /\ marker' \in [Elements -> Times \union {NoTime}]
      /\ queue' \in [Elements -> [orig : Times, due : Times] \union {None}]
      /\ \A d \in Elements : queue'[d] # None => queue'[d].orig + Hold <= MaxTime
      /\ \A d \in Elements : marker'[d] # NoTime => marker'[d] + Hold <= MaxTime
  BY <1>0, <1>1, <1>2, EvaluationTyped
<1>4. rows' \subseteq Elements
  BY <1>0, <1>1, <1>2, ReportedType
<1>5. /\ index' \in [Elements -> [cond : BOOLEAN, from : Times] \union {None}]
      /\ \A d \in Elements : d # e => index'[d] = index[d]
      /\ index'[e] = [cond |-> c.cond, from |-> c.from]
      /\ index'[e] # None /\ index'[e].cond = c.cond /\ index'[e].from = c.from
  BY <1>0, <1>1, <1>2, NotNone
<1>6. \A d \in Elements : index'[d] # None => index'[d].from + Hold <= MaxTime
  BY <1>0, <1>5 DEF RoomInv
<1>7. /\ \A d \in Elements : d # e => marker'[d] = marker[d]
      /\ marker'[e] # NoTime => function = "trueFor" /\ c.cond
  BY <1>0, <1>1, MarkedIs
<1>8. \A d \in Elements : marker'[d] # NoTime =>
         function' = "trueFor" /\ index'[d] # None /\ index'[d].cond
  <2>1. \A d \in Elements : marker[d] # NoTime =>
           function = "trueFor" /\ index[d] # None /\ index[d].cond
    BY <1>0 DEF TypeOK
  <2>2. QED
    BY <2>1, <1>5, <1>7, Zenon
<1>9. QED
  BY <1>3, <1>4, <1>5, <1>6, <1>8 DEF EngineType

LEMMA DeleteTyped ==
    ASSUME TInv, function' = function, NEW c \in Change, ProcessDelete(c)
    PROVE  EngineType'
<1> DEFINE e == c.el
<1>0. TypeOK /\ RoomInv /\ e \in Elements
  BY DEF TInv, Change
<1>1. /\ index' = [index EXCEPT ![e] = None]
      /\ \/ index[e] = None /\ rows' = rows /\ marker' = marker
         \/ index[e] # None /\ marker' = [marker EXCEPT ![e] = NoTime]
      /\ queue' = queue
  BY DEF ProcessDelete
<1> HIDE DEF e
<1>2. rows' \subseteq Elements
  <2>1. rows \subseteq Elements
    BY <1>0 DEF TypeOK
  <2>2. rows' \in {rows, rows \union {e}, rows \ {e}}
    BY DEF ProcessDelete, Reported, e
  <2>3. QED
    BY <1>0, <2>1, <2>2
<1>3. /\ index' \in [Elements -> [cond : BOOLEAN, from : Times] \union {None}]
      /\ marker' \in [Elements -> Times \union {NoTime}]
      /\ marker'[e] = NoTime /\ index'[e] = None
      /\ \A d \in Elements : d # e => index'[d] = index[d] /\ marker'[d] = marker[d]
  BY <1>0, <1>1 DEF TypeOK
<1>4. QED
  BY <1>0, <1>1, <1>2, <1>3 DEF EngineType, TypeOK, RoomInv

\* The rows a future's evaluation reports, if it does.
LEMMA ReevaluateRows ==
    ASSUME TInv, NEW e \in Elements, NEW f, NEW q, Reevaluate(e, f, q)
    PROVE  rows' \subseteq Elements /\ Reapply(e, f, q) /\ (\A d : d # e => (d \in rows' <=> d \in rows))
<1>1. rows' \in {rows, rows \union {e}, rows \ {e}}
  BY DEF Reevaluate, Reported
<1>2. rows \subseteq Elements
  BY DEF TInv, TypeOK
<1>3. QED
  BY <1>1, <1>2 DEF Reevaluate

\* What a future's evaluation leaves behind, and that a pop leaves less.
LEMMA ReapplyTyped ==
    ASSUME TInv, UNCHANGED <<function, index>>, NEW e \in Elements, queue[e] # None,
           (queue' = Popped(e) /\ UNCHANGED marker) \/ Reapply(e, queue[e], Popped(e)),
           rows' \subseteq Elements
    PROVE  EngineType'
<1> DEFINE f == queue[e]
           q == Popped(e)
<1>0. /\ TypeOK /\ RoomInv
      /\ f \in [orig : Times, due : Times] /\ f.orig \in Times /\ f.due \in Times
      /\ f.orig + Hold <= MaxTime
      /\ q \in [Elements -> [orig : Times, due : Times] \union {None}]
      /\ \A d \in Elements : q[d] # None => q[d].orig + Hold <= MaxTime
  BY DEF TInv, TypeOK, RoomInv, Popped
<1> HIDE DEF f, q
<1>1. \/ queue' = q /\ marker' = marker
      \/ /\ index[e] # None
         /\ marker' = Marked(e, index[e].cond, f.orig)
         /\ queue' = Scheduled(q, e, index[e].cond, f.orig, f.due)
  BY DEF Reapply, Superseded, f, q
<1>3. CASE queue' = q /\ marker' = marker
  BY <1>0, <1>3 DEF EngineType, TypeOK, RoomInv
<1>4. CASE /\ index[e] # None
           /\ marker' = Marked(e, index[e].cond, f.orig)
           /\ queue' = Scheduled(q, e, index[e].cond, f.orig, f.due)
  <2>1. index[e].cond \in BOOLEAN
    BY <1>0, <1>4 DEF TypeOK
  <2>2. /\ marker' \in [Elements -> Times \union {NoTime}]
        /\ queue' \in [Elements -> [orig : Times, due : Times] \union {None}]
        /\ \A d \in Elements : queue'[d] # None => queue'[d].orig + Hold <= MaxTime
        /\ \A d \in Elements : marker'[d] # NoTime => marker'[d] + Hold <= MaxTime
    BY <1>0, <1>4, <2>1, EvaluationTyped
  <2>3. /\ \A d \in Elements : d # e => marker'[d] = marker[d]
        /\ marker'[e] # NoTime => function = "trueFor" /\ index[e].cond
    BY <1>0, <1>4, <2>1, MarkedIs
  <2>4. QED
    BY <1>0, <1>4, <2>2, <2>3 DEF EngineType, TypeOK, RoomInv
<1>5. QED
  BY <1>1, <1>3, <1>4

\* Every step of the source, the clock, the query and the consumer keeps the
\* types, and the time every change has left for its future.
LEMMA TypeStep ==
    ASSUME TInv, [Next]_vars
    PROVE  TInv'
<1>0. /\ TypeOK /\ RoomInv
      /\ inbox \in Seq(Change) /\ wall \in Nat /\ wall \in Times
      /\ changes \in 0..MaxChanges /\ faults \in 0..MaxFaults /\ lost \subseteq Elements
  BY Numbers DEF TInv, TypeOK
<1>1. CASE Tick
  <2>1. wall' \in Times /\ UNCHANGED <<function, truth, inbox, index, marker, queue, looked, rows, lost, changes, faults>>
    BY <1>0, <1>1, Numbers DEF Tick, Times
  <2>2. QED
    BY <1>0, <2>1 DEF TInv, TypeOK, RoomInv
<1>2. ASSUME NEW e \in Elements, NEW op \in {"set", "delete"}, NEW cond \in BOOLEAN, Emit(e, op, cond)
      PROVE  TInv'
  <2> DEFINE c == [el |-> e, op |-> op, cond |-> cond, from |-> wall]
  <2>1. /\ c \in Change /\ c.from = wall /\ wall + Hold <= MaxTime
        /\ inbox' = Append(inbox, c)
        /\ UNCHANGED <<function, wall, index, marker, queue, looked, rows, lost, faults>>
        /\ changes' \in 0..MaxChanges
    <3>1. changes' \in 0..MaxChanges
      <4>1. changes < MaxChanges /\ changes' = changes + 1
        BY <1>2 DEF Emit
      <4>2. QED
        BY <1>0, <4>1, Numbers
    <3>2. c \in Change
      BY <1>0 DEF Change
    <3>3. QED
      BY <1>2, <3>1, <3>2 DEF Emit
  <2> HIDE DEF c
  <2>2. /\ inbox' \in Seq(Change)
        /\ \A k \in DOMAIN inbox' : inbox'[k].from + Hold <= MaxTime
    <3>1. /\ inbox' \in Seq(Change) /\ DOMAIN inbox' = 1..(Len(inbox) + 1)
          /\ DOMAIN inbox = 1..Len(inbox)
          /\ \A k \in DOMAIN inbox' : inbox'[k] = IF k = Len(inbox) + 1 THEN c ELSE inbox[k]
      BY <1>0, <2>1
    <3>2. QED
      BY <1>0, <2>1, <3>1 DEF RoomInv
  <2>3. truth' \in [Elements -> [cond : BOOLEAN, since : Times] \union {None}]
    <3>1. truth' \in {[truth EXCEPT ![e] = None], truth, [truth EXCEPT ![e] = [cond |-> cond, since |-> wall]]}
      <4>1. truth = [truth EXCEPT ![e] = truth[e]]
        BY <1>0 DEF TypeOK
      <4>2. QED
        BY <1>2, <4>1 DEF Emit
    <3>2. QED
      BY <1>0, <3>1 DEF TypeOK
  <2>4. QED
    BY <1>0, <2>1, <2>2, <2>3 DEF TInv, TypeOK, RoomInv
<1>3. CASE ProcessChange
  <2> DEFINE c == Head(inbox)
  <2>1. /\ c \in Change /\ inbox' \in Seq(Change)
        /\ c.from + Hold <= MaxTime
        /\ \A k \in DOMAIN inbox' : inbox'[k].from + Hold <= MaxTime
    <3>1. /\ inbox # <<>> /\ c = inbox[1] /\ inbox' = Tail(inbox)
          /\ 1 \in DOMAIN inbox
      BY <1>0, <1>3 DEF ProcessChange
    <3>2. /\ inbox' \in Seq(Change) /\ c \in Change
          /\ \A k \in DOMAIN inbox' : k + 1 \in DOMAIN inbox /\ inbox'[k] = inbox[k + 1]
      BY <1>0, <3>1
    <3>3. QED
      BY <1>0, <3>1, <3>2 DEF RoomInv
  <2>2. EngineType'
    <3>1. /\ function' = function
          /\ (c.op = "set" /\ ProcessSet(c)) \/ ProcessDelete(c)
      BY <1>3 DEF ProcessChange
    <3> HIDE DEF c
    <3>2. QED
      BY <2>1, <3>1, SetTyped, DeleteTyped
  <2>3. UNCHANGED <<function, wall, truth, looked, changes, faults>> /\ lost' \subseteq Elements
    BY <1>0, <1>3 DEF ProcessChange
  <2>4. QED
    BY <1>0, <2>1, <2>2, <2>3 DEF TInv, TypeOK, RoomInv, EngineType
<1>4. CASE Look \/ PopNothing
  <2>1. /\ UNCHANGED <<function, wall, truth, inbox, index, marker, queue, rows, lost, changes, faults>>
        /\ looked' \in BOOLEAN
    BY <1>4 DEF Look, PopNothing
  <2>2. QED
    BY <1>0, <2>1 DEF TInv, TypeOK, RoomInv
<1>5. CASE PopFuture
  <2>1. PICK e \in First : Reevaluate(e, queue[e], Popped(e))
    BY <1>5 DEF PopFuture
  <2>2. e \in Elements /\ queue[e] # None
    BY <2>1 DEF First, Queued
  <2>3. UNCHANGED <<function, wall, truth, inbox, index, lost, changes, faults>> /\ looked' \in BOOLEAN
    BY <1>5 DEF PopFuture
  <2>4. EngineType'
    BY <2>1, <2>2, <2>3, ReevaluateRows, ReapplyTyped
  <2>5. QED
    BY <1>0, <2>3, <2>4 DEF TInv, TypeOK, RoomInv, EngineType
<1>f. CASE PopFails
  <2>1. PICK e \in First :
          /\ (queue' = Popped(e) /\ UNCHANGED marker) \/ Reapply(e, queue[e], Popped(e))
          /\ lost' \in {lost, lost \union {e}}
    BY <1>f DEF PopFails
  <2>2. e \in Elements /\ queue[e] # None
    BY <2>1 DEF First, Queued
  <2>3. UNCHANGED <<function, wall, truth, inbox, index, rows, changes>> /\ looked' \in BOOLEAN
    BY <1>f DEF PopFails
  <2>4. faults' \in 0..MaxFaults /\ lost' \subseteq Elements /\ rows' \subseteq Elements
    <3>1. faults' \in 0..MaxFaults
      BY <1>0, <1>f, Numbers DEF PopFails
    <3>2. QED
      BY <1>0, <2>1, <2>2, <2>3, <3>1 DEF TypeOK
  <2>5. EngineType'
    BY <2>1, <2>2, <2>3, <2>4, ReapplyTyped
  <2>6. QED
    BY <1>0, <2>3, <2>4, <2>5 DEF TInv, TypeOK, RoomInv, EngineType
<1>6. CASE UNCHANGED vars
  BY <1>0, <1>6 DEF vars, TInv, TypeOK, RoomInv
<1>7. QED
  BY <1>1, <1>2, <1>3, <1>4, <1>5, <1>f, <1>6 DEF Next

(* Every variable keeps its type, a trueFor marker is kept only for an     *)
(* element whose condition holds (ResultIndex entries are reverted), and   *)
(* no future is due after the end of time, whatever the races and whoever  *)
(* consumes the futures.                                                   *)
THEOREM TypeCorrect == Spec => []TypeOK
<1>1. Spec => []TInv
  BY InitTyped, TypeStep, PTL DEF Spec
<1>2. TInv => TypeOK
  BY DEF TInv
<1>3. QED
  BY <1>1, <1>2, PTL

----------------------------------------------------------------------------
(* The engine, element by element.                                         *)

LEMMA FromsTyped == TInv => Froms \subseteq Nat
<1> SUFFICES ASSUME TInv PROVE Froms \subseteq Nat
  OBVIOUS
<1>1. inbox \in Seq(Change)
  BY DEF TInv, TypeOK
<1>2. \A k \in DOMAIN inbox : inbox[k] \in Change
  BY <1>1
<1>3. QED
  BY <1>2, Numbers DEF Froms, Change

\* The numbers of a state and of an element.
LEMMA Typed ==
    ASSUME TInv, NEW e \in Elements
    PROVE  /\ wall \in Nat /\ Hold \in Nat /\ At[e] \in Nat /\ Froms \subseteq Nat
           /\ function \in Functions
           /\ marker[e] # NoTime => marker[e] \in Nat
           /\ index[e] # None => index[e].from \in Nat /\ index[e].cond \in BOOLEAN
           /\ queue[e] # None => queue[e].due \in Nat /\ queue[e].orig \in Nat
           /\ marker[e] # NoTime => function = "trueFor" /\ index[e] # None /\ index[e].cond
<1>1. /\ inbox \in Seq(Change) /\ wall \in Times
      /\ index[e] \in [cond : BOOLEAN, from : Times] \union {None}
      /\ marker[e] \in Times \union {NoTime}
      /\ queue[e] \in [orig : Times, due : Times] \union {None}
      /\ function \in Functions
      /\ marker[e] # NoTime => function = "trueFor" /\ index[e] # None /\ index[e].cond
  BY DEF TInv, TypeOK
<1>2. Froms \subseteq Nat
  BY FromsTyped
<1>3. QED
  BY <1>1, <1>2, Numbers

\* An element that a step leaves alone.
LEMMA LeftAlone ==
    ASSUME TInv, NEW e \in Elements, ElementInv(e), wall' \in Nat,
           function' = function, wall' >= wall, Froms' \subseteq Froms \union {wall},
           index'[e] = index[e], marker'[e] = marker[e], queue'[e] = queue[e],
           e \in rows' <=> e \in rows, e \in lost' <=> e \in lost
    PROVE  ElementInv(e)'
<1>1. /\ wall \in Nat /\ wall' \in Nat /\ Hold \in Nat /\ Froms \subseteq Nat /\ Froms' \subseteq Nat
      /\ index[e] # None => index[e].from \in Nat
      /\ queue[e] # None => queue[e].due \in Nat
  BY Typed
<1>2. Due(e)' = Due(e) /\ (Candidate(e)' <=> Candidate(e))
  BY DEF Due, Candidate
<1>3. TimeOf(e)' /\ MarkOf(e)'
  BY <1>1 DEF ElementInv, TimeOf, MarkOf
<1>4. RowOf(e)'
  <2> SUFFICES ASSUME e \in rows PROVE Due(e) <= wall' /\ \A t \in Froms' : Due(e) <= t
    BY <1>2 DEF RowOf, ElementInv
  <2>1. Due(e) <= wall /\ \A t \in Froms : Due(e) <= t
    BY DEF ElementInv, RowOf
  <2>2. Due(e) \in Nat
    <3>1. Candidate(e)
      BY DEF ElementInv, RowOf
    <3>2. QED
      BY <3>1, Typed DEF Due, Candidate, ElementInv, MarkOf
  <2>3. QED
    BY <1>1, <2>1, <2>2
<1>5. FutureOf(e)' /\ LostOf(e)'
  BY <1>2 DEF ElementInv, FutureOf, LostOf
<1>6. QueueOf(e)'
  BY <1>1 DEF ElementInv, QueueOf
<1>7. QED
  BY <1>3, <1>4, <1>5, <1>6 DEF ElementInv

\* When a candidate is due does not depend on the clock it is evaluated under.
LEMMA DueOfCandidate ==
    ASSUME TInv, NEW e \in Elements, ElementInv(e), Candidate(e), NEW tx
    PROVE  DueTime(e, tx) = Due(e) /\ Due(e) \in Nat
BY Typed DEF DueTime, Due, Candidate, ElementInv, MarkOf

\* A row was due before the change that is processed: the difference of the
\* two evaluations takes it away or leaves it.
LEMMA RowHeld ==
    ASSUME TInv, NEW e \in Elements, ElementInv(e), e \in rows, NEW t \in Froms
    PROVE  index[e] # None /\ Holds(e, index[e].cond, index[e].from, t)
BY DueOfCandidate DEF Holds, ElementInv, RowOf, Candidate

\* The element whose change is processed, in order.
LEMMA SetElement ==
    ASSUME TInv, NEW c \in Change, NEW e \in Elements, e = c.el, ElementInv(e),
           ProcessSet(c), UNCHANGED <<function, wall>>, ~Overdue(c),
           e \in lost' <=> e \in lost /\ c.cond /\ queue'[e] = None,
           c.from \in Froms, c.from <= wall,
           Froms' \subseteq Froms, \A t \in Froms' : c.from <= t
    PROVE  ElementInv(e)'
<1> DEFINE t == c.from
           cond == c.cond
           due == DueTime(e, t)
<1>0. /\ wall \in Nat /\ Hold \in Nat /\ At[e] \in Nat /\ Froms \subseteq Nat
      /\ function \in Functions /\ t \in Nat /\ cond \in BOOLEAN
  BY Typed DEF Change
<1>1. /\ marker[e] # NoTime => marker[e] \in Nat
      /\ index[e] # None => index[e].from \in Nat /\ index[e].cond \in BOOLEAN
      /\ queue[e] # None => queue[e].due \in Nat /\ queue[e].orig \in Nat
      /\ marker[e] # NoTime => function = "trueFor" /\ Candidate(e)
  BY Typed DEF Candidate
<1>2. /\ index'[e] = [cond |-> cond, from |-> t]
      /\ index'[e] # None /\ index'[e].cond = cond /\ index'[e].from = t
      /\ marker' = Marked(e, cond, t)
      /\ queue' = Scheduled(queue, e, cond, t, t)
  BY NotNone DEF ProcessSet, TInv, TypeOK
<1> DEFINE before == index[e] # None /\ Holds(e, index[e].cond, index[e].from, t)
           after == Holds(e, cond, t, t)
<1>3. /\ rows' = Reported(e, before, after)
      /\ before \in BOOLEAN /\ after \in BOOLEAN
  BY <1>0, <1>1 DEF ProcessSet, Holds
<1>4. queue[e] # None => t < queue[e].due
  BY <1>0, <1>1 DEF Overdue
<1>5. /\ e \in rows => before
      /\ before => Candidate(e) /\ Due(e) <= t
      /\ after <=> cond /\ due <= t
      /\ Candidate(e) => due = Due(e) /\ Due(e) \in Nat
  <2>1. e \in rows => before
    BY RowHeld
  <2>2. Candidate(e) => due = Due(e) /\ Due(e) \in Nat
    BY DueOfCandidate
  <2>3. Candidate(e) => DueTime(e, index[e].from) = Due(e)
    BY DueOfCandidate
  <2>4. QED
    BY <2>1, <2>2, <2>3 DEF Holds, Candidate
<1>6. /\ TimeOf(e) /\ MarkOf(e) /\ RowOf(e) /\ FutureOf(e) /\ LostOf(e) /\ QueueOf(e)
      /\ index[e] # None => index[e].from <= t
  BY DEF ElementInv, TimeOf
<1>7. e \in rows' <=> (after /\ ~before) \/ (e \in rows /\ ~(before /\ ~after))
  BY <1>3, ReportedIs
<1> HIDE DEF before, after, due
<1>8. /\ cond => Due(e)' = due /\ due \in Nat
      /\ cond /\ function = "trueFor" => due <= t + Hold
      /\ cond /\ function # "trueFor" => due = At[e]
      /\ cond /\ function = "trueFor" => marker'[e] # NoTime /\ marker'[e] <= t
  <2>1. CASE function # "trueFor"
    BY <2>1, <1>0 DEF due, DueTime, Due
  <2>2. CASE function = "trueFor" /\ cond /\ marker[e] = NoTime
    <3>1. marker'[e] = t /\ t # NoTime
      <4>1. t \in Times
        BY DEF Change
      <4>2. TypeOK
        BY DEF TInv
      <4>3. Marked(e, cond, t)[e] = t
        BY <4>2, <2>2 DEF Marked, TypeOK
      <4>4. QED
        BY <4>1, <4>3, <1>2, Numbers
    <3>2. due = t + Hold /\ Due(e)' = t + Hold
      BY <2>2, <3>1 DEF due, DueTime, Due
    <3>3. QED
      BY <2>2, <3>1, <3>2, <1>0
  <2>3. CASE function = "trueFor" /\ cond /\ marker[e] # NoTime
    <3>1. marker'[e] = marker[e]
      <4>1. TypeOK
        BY DEF TInv
      <4>2. QED
        BY <4>1, <1>2, <2>3 DEF Marked, TypeOK
    <3>2. marker[e] <= t /\ marker[e] \in Nat
      <4>1. marker[e] <= index[e].from /\ index[e].from <= t /\ index[e].from \in Nat
        BY <1>1, <1>6, <2>3 DEF MarkOf, Candidate
      <4>2. QED
        BY <4>1, <1>0, <1>1, <2>3
    <3>3. QED
      BY <2>3, <3>1, <3>2, <1>0 DEF due, DueTime, Due
  <2>4. QED
    BY <2>1, <2>2, <2>3
<1>9. TimeOf(e)' /\ MarkOf(e)'
  BY <1>2, <1>8 DEF TimeOf, MarkOf
<1>10. queue'[e] = IF function = "trueLater"
                   THEN IF due <= t THEN queue[e] ELSE [orig |-> t, due |-> due]
                   ELSE IF ~cond \/ due <= t THEN None
                   ELSE IF queue[e] = None THEN [orig |-> t, due |-> due] ELSE queue[e]
  <2>1. queue = [queue EXCEPT ![e] = queue[e]] /\ DOMAIN queue = Elements
    BY DEF TInv, TypeOK
  <2> DEFINE pushed == [queue EXCEPT ![e] = [orig |-> t, due |-> due]]
             removed == [queue EXCEPT ![e] = None]
  <2>2. /\ (due <= t /\ function = "trueLater") => queue' = queue
        /\ (~(due <= t) /\ function = "trueLater") => queue' = pushed
        /\ (function # "trueLater" /\ (~cond \/ due <= t)) => queue' = removed
        /\ (function # "trueLater" /\ cond /\ ~(due <= t)) =>
              queue' = IF queue[e] = None THEN pushed ELSE queue
    <3> HIDE DEF t, cond
    <3>1. cond \in BOOLEAN /\ queue' = Scheduled(queue, e, cond, t, t)
      BY <1>0, <1>2
    <3>2. CASE function = "trueLater"
      BY <3>1, <3>2 DEF Scheduled, due
    <3>3. CASE function # "trueLater" /\ (~cond \/ due <= t)
      BY <3>1, <3>3 DEF Scheduled, due
    <3>4. CASE function # "trueLater" /\ ~(~cond \/ due <= t)
      BY <3>1, <3>4 DEF Scheduled, due
    <3>5. QED
      BY <3>1, <3>2, <3>3, <3>4
  <2>3. pushed[e] = [orig |-> t, due |-> due] /\ removed[e] = None
    BY <2>1
  <2> HIDE DEF pushed, removed
  <2>4. QED
    BY <1>0, <2>2, <2>3
<1>11. CASE ~cond
  <2>1. e \notin rows' /\ ~Candidate(e)'
    BY <1>2, <1>5, <1>7, <1>11 DEF Candidate
  <2>2. QueueOf(e)'
    <3>1. CASE function = "trueLater" /\ ~(due <= t)
      BY <1>10, <3>1, NotNone DEF QueueOf, due, DueTime
    <3>2. CASE ~(function = "trueLater" /\ ~(due <= t))
      <4>1. queue'[e] = queue[e] \/ queue'[e] = None
        BY <1>10, <1>11, <3>2
      <4>2. QED
        BY <4>1, <1>6 DEF QueueOf
    <3>3. QED
      BY <3>1, <3>2
  <2>3. QED
    BY <1>9, <1>11, <2>1, <2>2 DEF ElementInv, RowOf, FutureOf, LostOf
<1>12. CASE cond /\ due <= t
  <2>1. queue'[e] = None
    <3>1. function = "trueLater" => queue[e] = None
      <4>1. function = "trueLater" /\ queue[e] # None => queue[e].due = At[e]
        BY <1>6 DEF QueueOf
      <4>2. QED
        BY <4>1, <1>0, <1>4, <1>8, <1>12
    <3>2. QED
      BY <3>1, <1>10, <1>12
  \* The difference shows it, or it was shown before; or its future was lost,
  \* and with the condition already true the difference is empty.
  <2>2. e \in rows' <=> e \notin lost'
    <3>1. ASSUME before, e \notin rows PROVE e \in lost
      <4>1. Candidate(e) /\ Due(e) <= t
        BY <3>1, <1>5
      <4>2. e \notin lost => queue[e] # None /\ queue[e].due <= Due(e)
        BY <3>1, <4>1, <1>6 DEF FutureOf
      <4>3. QED
        BY <4>1, <4>2, <1>0, <1>1, <1>4, <1>5
    <3>2. e \in lost => e \notin rows /\ before
      <4>1. e \in lost => e \notin rows /\ Candidate(e)
        BY <1>6 DEF LostOf
      <4>2. Candidate(e) /\ Due(e) <= t => before
        <5>1. Candidate(e) => DueTime(e, index[e].from) = Due(e)
          BY DueOfCandidate
        <5>2. QED
          BY <5>1 DEF before, Holds, Candidate
      <4>3. QED
        BY <4>1, <4>2, <1>5, <1>12
    <3>3. e \in lost' <=> e \in lost
      BY <1>12, <2>1
    <3>4. QED
      BY <3>1, <3>2, <3>3, <1>5, <1>7, <1>12
  <2>3. \A u \in Froms' : due <= u
    BY <1>0, <1>8, <1>12
  <2>4. RowOf(e)'
    <3>1. due <= wall'
      BY <1>0, <1>8, <1>12
    <3>2. QED
      BY <2>1, <2>3, <3>1, <1>2, <1>8, <1>12 DEF RowOf, Candidate
  <2>5. FutureOf(e)' /\ LostOf(e)'
    BY <2>1, <2>2, <1>2, <1>12 DEF FutureOf, LostOf, Candidate
  <2>6. QED
    BY <1>9, <2>1, <2>4, <2>5 DEF ElementInv, QueueOf
<1>13. CASE cond /\ ~(due <= t)
  <2>1. e \notin rows'
    BY <1>5, <1>7, <1>13
  <2>2. ASSUME queue[e] # None, function # "trueLater"
        PROVE  queue[e].due <= due
    <3>1. CASE function = "trueUntil"
      BY <3>1, <2>2, <1>0, <1>6, <1>8, <1>13 DEF QueueOf
    <3>2. CASE function = "trueFor" /\ Candidate(e)
      <4>1. e \notin rows /\ e \notin lost
        BY <2>2, <1>6 DEF RowOf, LostOf
      <4>2. QED
        BY <3>2, <4>1, <1>5, <1>6 DEF FutureOf
    <3>3. CASE function = "trueFor" /\ ~Candidate(e)
      <4>1. marker[e] = NoTime
        BY <1>1, <3>3
      <4>2. due = t + Hold
        BY <3>3, <4>1 DEF due, DueTime
      <4>3. queue[e].due <= t + Hold
        BY <2>2, <3>3, <1>6 DEF QueueOf
      <4>4. QED
        BY <4>2, <4>3
    <3>4. QED
      BY <2>2, <3>1, <3>2, <3>3, <1>0 DEF Functions
  <2>3. /\ queue'[e] # None
        /\ queue'[e].due <= due /\ t < queue'[e].due
        /\ \/ queue'[e] = queue[e]
           \/ queue'[e].due = due
    BY <1>0, <1>1, <1>4, <1>8, <1>10, <1>13, <2>2, NotNone
  <2>4. FutureOf(e)'
    BY <2>3, <1>2, <1>8, <1>13 DEF FutureOf
  <2>5. QueueOf(e)'
    <3>1. CASE queue'[e] = queue[e]
      BY <3>1, <1>6 DEF QueueOf
    <3>2. CASE queue'[e].due = due
      <4>1. function = "trueFor" => \A u \in Froms' : due <= u + Hold
        <5>1. \A u \in Froms' : t <= u /\ u \in Nat
          BY <1>0
        <5>2. QED
          BY <5>1, <1>0, <1>8, <1>13
      <4>2. function = "trueFor" => due <= wall' + Hold
        BY <1>0, <1>8, <1>13
      <4>3. QED
        BY <3>2, <4>1, <4>2, <1>8, <1>13 DEF QueueOf
    <3>3. QED
      BY <2>3, <3>1, <3>2
  <2>6. LostOf(e)'
    BY <2>3 DEF LostOf
  <2>7. QED
    BY <1>9, <2>1, <2>4, <2>5, <2>6 DEF ElementInv, RowOf
<1>14. QED
  BY <1>0, <1>11, <1>12, <1>13

\* The element that is deleted: its future stays.
LEMMA DeleteElement ==
    ASSUME TInv, NEW c \in Change, NEW e \in Elements, e = c.el, ElementInv(e),
           ProcessDelete(c), UNCHANGED <<function, wall>>, e \notin lost',
           c.from \in Froms, Froms' \subseteq Froms
    PROVE  ElementInv(e)'
<1>1. index'[e] = None /\ queue' = queue
  BY DEF ProcessDelete, TInv, TypeOK
<1>2. e \notin rows'
  <2>1. CASE index[e] = None
    BY <2>1 DEF ProcessDelete, ElementInv, RowOf, Candidate
  <2>2. CASE index[e] # None
    <3> DEFINE before == Holds(e, index[e].cond, index[e].from, c.from)
    <3>1. e \in rows => before
      BY RowHeld
    <3>2. rows' = Reported(e, before, FALSE)
      BY <2>2 DEF ProcessDelete
    <3>3. before \in BOOLEAN
      BY <2>2, Typed DEF Holds
    <3> HIDE DEF before
    <3>4. QED
      BY <3>1, <3>2, <3>3, ReportedIs
  <2>3. QED
    BY <2>1, <2>2
<1>3. ~Candidate(e)'
  BY <1>1 DEF Candidate
<1>4. QueueOf(e)'
  BY <1>1 DEF ElementInv, QueueOf
<1>5. QED
  BY <1>1, <1>2, <1>3, <1>4 DEF ElementInv, TimeOf, MarkOf, RowOf, FutureOf, LostOf

\* What the evaluation of its future leaves of an element: the marker as it is,
\* and no future, or a new one if the old one was left by a deleted element.
LEMMA ReapplyElement ==
    ASSUME TInv, NEW e \in Elements, ElementInv(e), queue[e] # None,
           Reapply(e, queue[e], Popped(e)),
           UNCHANGED <<function, wall, index>>, Froms' = Froms
    PROVE  /\ marker'[e] = marker[e] /\ TimeOf(e)' /\ MarkOf(e)' /\ QueueOf(e)'
           /\ Due(e)' = Due(e) /\ (Candidate(e)' <=> Candidate(e))
           /\ Candidate(e) => /\ ~Superseded(e, queue[e])
                              /\ Due(e) \in Nat /\ queue[e].due <= Due(e)
           /\ (Candidate(e) => Due(e) <= queue[e].due) => queue'[e] = None
           /\ Candidate(e) /\ ~(Due(e) <= queue[e].due) =>
                /\ queue'[e] # None
                /\ queue'[e].due <= Due(e) /\ index[e].from < queue'[e].due
<1> DEFINE f == queue[e]
           q == Popped(e)
<1>0. /\ wall \in Nat /\ Hold \in Nat /\ At[e] \in Nat /\ Froms \subseteq Nat
      /\ function \in Functions
      /\ f.due \in Nat /\ f.orig \in Nat
      /\ marker[e] # NoTime => marker[e] \in Nat
      /\ marker[e] # NoTime => function = "trueFor" /\ Candidate(e)
      /\ index[e] # None => index[e].from \in Nat /\ index[e].cond \in BOOLEAN
  BY Typed DEF Candidate
<1>1. /\ TimeOf(e) /\ MarkOf(e) /\ FutureOf(e) /\ QueueOf(e)
      /\ e \notin rows /\ e \notin lost
  BY DEF ElementInv, RowOf, LostOf
<1>2. q[e] = None /\ DOMAIN q = Elements /\ TypeOK
  BY DEF TInv, TypeOK, Popped
<1>3. /\ Reapply(e, f, q) /\ f # None /\ f = queue[e]
      /\ Candidate(e) => f.due <= Due(e) /\ index[e].from < f.due
      /\ function # "trueFor" => f.due = At[e]
  BY <1>1 DEF FutureOf, QueueOf
<1>4. Candidate(e) => Due(e) \in Nat
  BY DueOfCandidate
<1> HIDE DEF f, q
<1>5. CASE Superseded(e, f)
  <2>1. queue' = q /\ marker' = marker
    BY <1>3, <1>5 DEF Reapply
  <2>2. ~Candidate(e)
    BY <1>0, <1>3, <1>5 DEF Candidate, Superseded
  <2>3. QED
    BY <1>1, <1>2, <2>1, <2>2 DEF TimeOf, MarkOf, QueueOf, Candidate, Due
<1>6. CASE ~Superseded(e, f)
  <2> DEFINE cond == index[e].cond
             due == DueTime(e, f.orig)
  <2>1. /\ marker' = Marked(e, cond, f.orig)
        /\ queue' = Scheduled(q, e, cond, f.orig, f.due)
    BY <1>3, <1>6 DEF Reapply
  <2>2. /\ index[e] # None /\ cond \in BOOLEAN /\ (Candidate(e) <=> cond)
        /\ index[e].from < f.due
    BY <1>0, <1>6 DEF Candidate, Superseded
  <2> HIDE DEF due
  <2>3. queue'[e] = IF function = "trueLater"
                    THEN IF due <= f.due THEN None ELSE [orig |-> f.orig, due |-> due]
                    ELSE IF ~cond \/ due <= f.due THEN None ELSE [orig |-> f.orig, due |-> due]
    <3>1. \A x : [q EXCEPT ![e] = x][e] = x
      BY <1>2
    <3> DEFINE pushed == [q EXCEPT ![e] = [orig |-> f.orig, due |-> due]]
               removed == [q EXCEPT ![e] = None]
    <3>2. /\ (due <= f.due /\ function = "trueLater") => queue' = q
          /\ (~(due <= f.due) /\ function = "trueLater") => queue' = pushed
          /\ (function # "trueLater" /\ (~cond \/ due <= f.due)) => queue' = removed
          /\ (function # "trueLater" /\ cond /\ ~(due <= f.due)) =>
                queue' = IF q[e] = None THEN pushed ELSE q
      <4>1. cond \in BOOLEAN /\ queue' = Scheduled(q, e, cond, f.orig, f.due)
        BY <2>1, <2>2
      <4> HIDE DEF cond
      <4>2. QED
        BY <4>1 DEF due, Scheduled
    <3>3. QED
      BY <3>1, <3>2, <1>2, <2>2
  <2>4. marker'[e] = marker[e]
    <3>1. cond /\ function = "trueFor" => marker[e] # NoTime
      BY <1>1, <2>2 DEF MarkOf
    <3>2. ~(cond /\ function = "trueFor") => marker[e] = NoTime
      BY <1>0, <2>2
    <3>3. QED
      BY <1>2, <2>1, <3>1, <3>2 DEF Marked, TypeOK
  <2> HIDE DEF cond
  <2>5. TimeOf(e)' /\ MarkOf(e)' /\ Due(e)' = Due(e) /\ (Candidate(e)' <=> cond)
    BY <1>1, <2>2, <2>4 DEF TimeOf, MarkOf, Due, Candidate
  <2>6. CASE ~cond
    <3>1. queue'[e] = None
      <4>1. function = "trueLater" => due = At[e] /\ f.due = At[e]
        BY <1>3 DEF DueTime, due
      <4>2. QED
        BY <1>0, <2>3, <2>6, <4>1
    <3>2. QED
      BY <2>2, <2>4, <2>5, <2>6, <3>1 DEF QueueOf
  <2>7. CASE cond /\ Due(e) <= f.due
    <3>1. due = Due(e)
      BY <2>2, <2>7, DueOfCandidate DEF due
    <3>2. queue'[e] = None
      BY <2>3, <2>7, <3>1
    <3>3. QED
      BY <1>3, <1>4, <1>6, <2>2, <2>4, <2>5, <2>7, <3>2 DEF QueueOf
  <2>8. CASE cond /\ ~(Due(e) <= f.due)
    <3>1. due = Due(e) /\ Due(e) \in Nat
      BY <1>4, <2>2, <2>8, DueOfCandidate DEF due
    <3>2. queue'[e] = [orig |-> f.orig, due |-> Due(e)]
      BY <2>3, <2>8, <3>1
    <3>3. queue'[e] # None /\ queue'[e].due = Due(e) /\ index[e].from < Due(e)
      BY <1>0, <2>2, <2>8, <3>1, <3>2, NotNone
    <3>4. function = "trueFor"
      BY <1>0, <1>3, <2>8 DEF Due
    <3>5. Due(e) = marker[e] + Hold /\ marker[e] \in Nat /\ marker[e] <= index[e].from
      BY <1>0, <1>1, <2>2, <2>8, <3>4 DEF Due, MarkOf, cond
    <3>6. index[e].from <= wall /\ \A t \in Froms : index[e].from <= t
      BY <1>1, <2>2 DEF TimeOf
    <3>7. Due(e) <= wall + Hold /\ \A t \in Froms : Due(e) <= t + Hold
      <4>1. /\ index[e].from \in Nat /\ Due(e) <= index[e].from + Hold /\ Hold \in Nat /\ wall \in Nat
            /\ Due(e) \in Nat /\ \A t \in Froms : t \in Nat /\ index[e].from <= t
        BY <1>0, <2>2, <3>1, <3>5, <3>6
      <4>2. QED
        BY <4>1, <3>6
    <3>8. QueueOf(e)'
      BY <3>3, <3>4, <3>7 DEF QueueOf
    <3>9. f.due <= Due(e) /\ queue'[e].due <= Due(e) /\ index[e].from < queue'[e].due
      BY <1>3, <2>2, <2>8, <3>1, <3>3
    <3>10. QED
      BY <1>3, <1>6, <2>2, <2>4, <2>5, <2>8, <3>1, <3>3, <3>8, <3>9
  <2>9. QED
    BY <2>2, <2>6, <2>7, <2>8
<1>7. QED
  BY <1>5, <1>6

\* The element whose future is processed: when it is due, and no change that
\* is older is on its way.
LEMMA FutureElement ==
    ASSUME TInv, NEW e \in Elements, ElementInv(e), queue[e] # None,
           queue[e].due <= wall, \A t \in Froms : queue[e].due <= t,
           Reevaluate(e, queue[e], Popped(e)),
           UNCHANGED <<function, wall, index, lost>>, Froms' = Froms
    PROVE  ElementInv(e)' /\ marker'[e] = marker[e]
<1> DEFINE f == queue[e]
<1>1. /\ marker'[e] = marker[e] /\ TimeOf(e)' /\ MarkOf(e)' /\ QueueOf(e)'
      /\ Due(e)' = Due(e) /\ (Candidate(e)' <=> Candidate(e))
      /\ Candidate(e) => /\ ~Superseded(e, f)
                         /\ Due(e) \in Nat /\ f.due <= Due(e)
      /\ (Candidate(e) => Due(e) <= f.due) => queue'[e] = None
      /\ Candidate(e) /\ ~(Due(e) <= f.due) =>
           /\ queue'[e] # None
           /\ queue'[e].due <= Due(e) /\ index[e].from < queue'[e].due
  BY ReapplyElement DEF Reevaluate
<1>2. e \notin rows /\ e \notin lost /\ e \notin lost'
  BY DEF ElementInv, RowOf, LostOf
<1>3. /\ wall \in Nat /\ Froms \subseteq Nat /\ f.due \in Nat /\ f.due <= wall
      /\ \A t \in Froms : f.due <= t
      /\ index[e] # None => index[e].from \in Nat /\ index[e].cond \in BOOLEAN
  BY Typed
<1>4. rows' = IF Superseded(e, f) THEN rows
              ELSE Reported(e, Holds(e, index[e].cond, index[e].from, index[e].from),
                               Holds(e, index[e].cond, f.orig, f.due))
  BY DEF Reevaluate
<1> HIDE DEF f
\* It becomes a row if it is a candidate and its time has come.
<1>5. e \in rows' <=> Candidate(e) /\ Due(e) <= f.due
  <2>1. CASE Superseded(e, f)
    BY <1>1, <1>2, <1>4, <2>1
  <2>2. CASE ~Superseded(e, f)
    <3> DEFINE before == Holds(e, index[e].cond, index[e].from, index[e].from)
               after == Holds(e, index[e].cond, f.orig, f.due)
    <3>1. index[e] # None /\ index[e].from < f.due /\ (Candidate(e) <=> index[e].cond)
      BY <1>3, <2>2 DEF Superseded, Candidate
    <3>2. before \in BOOLEAN /\ after \in BOOLEAN
      BY <1>3, <3>1 DEF Holds
    <3>3. CASE Candidate(e)
      <4>1. DueTime(e, f.orig) = Due(e) /\ DueTime(e, index[e].from) = Due(e)
        BY <3>3, DueOfCandidate
      <4>2. ~before /\ (after <=> Due(e) <= f.due)
        BY <1>1, <1>3, <3>1, <3>3, <4>1 DEF Holds
      <4> HIDE DEF before, after
      <4>3. QED
        BY <1>2, <1>4, <2>2, <3>2, <3>3, <4>2, ReportedIs DEF before, after
    <3>4. CASE ~Candidate(e)
      <4>1. ~after
        BY <3>1, <3>4 DEF Holds
      <4> HIDE DEF before, after
      <4>2. QED
        BY <1>2, <1>4, <2>2, <3>2, <3>4, <4>1, ReportedIs DEF before, after
    <3>5. QED
      BY <3>3, <3>4
  <2>3. QED
    BY <2>1, <2>2
<1>6. RowOf(e)'
  <2>1. Candidate(e) /\ Due(e) <= f.due => Due(e) <= wall /\ \A t \in Froms : Due(e) <= t
    BY <1>1, <1>3
  <2>2. QED
    BY <1>1, <1>5, <2>1 DEF RowOf
<1>7. FutureOf(e)' /\ LostOf(e)'
  BY <1>1, <1>2, <1>5 DEF FutureOf, LostOf
<1>8. QED
  BY <1>1, <1>6, <1>7 DEF ElementInv

\* The element whose evaluation fails: it has a future again, or it is lost.
LEMMA FailedElement ==
    ASSUME TInv, NEW e \in Elements, ElementInv(e), queue[e] # None,
           (queue' = Popped(e) /\ UNCHANGED marker) \/ Reapply(e, queue[e], Popped(e)),
           lost' = IF index[e] # None /\ index[e].cond /\ queue'[e] = None
                   THEN lost \union {e} ELSE lost,
           UNCHANGED <<function, wall, index, rows>>, Froms' = Froms
    PROVE  ElementInv(e)' /\ marker'[e] = marker[e]
<1>1. e \notin rows' /\ e \notin lost
  BY DEF ElementInv, RowOf, LostOf
<1>2. e \in lost' <=> Candidate(e) /\ queue'[e] = None
  BY <1>1 DEF Candidate
<1>3. RowOf(e)'
  BY <1>1 DEF RowOf
<1>4. CASE queue' = Popped(e) /\ UNCHANGED marker
  <2>1. queue'[e] = None /\ marker' = marker
    BY <1>4 DEF Popped, TInv, TypeOK
  <2>2. Candidate(e)' <=> Candidate(e)
    BY DEF Candidate
  <2>3. TimeOf(e)' /\ MarkOf(e)' /\ QueueOf(e)'
    BY <2>1 DEF ElementInv, TimeOf, MarkOf, QueueOf
  <2>4. FutureOf(e)' /\ LostOf(e)'
    BY <1>1, <1>2, <2>1, <2>2 DEF FutureOf, LostOf
  <2>5. QED
    BY <1>3, <2>1, <2>3, <2>4 DEF ElementInv
<1>5. CASE Reapply(e, queue[e], Popped(e))
  <2>1. /\ marker'[e] = marker[e] /\ TimeOf(e)' /\ MarkOf(e)' /\ QueueOf(e)'
        /\ Due(e)' = Due(e) /\ (Candidate(e)' <=> Candidate(e))
        /\ (Candidate(e) => Due(e) <= queue[e].due) => queue'[e] = None
        /\ Candidate(e) /\ ~(Due(e) <= queue[e].due) =>
             /\ queue'[e] # None
             /\ queue'[e].due <= Due(e) /\ index[e].from < queue'[e].due
    BY <1>5, ReapplyElement
  <2>2. FutureOf(e)' /\ LostOf(e)'
    BY <1>1, <1>2, <2>1 DEF FutureOf, LostOf
  <2>3. QED
    BY <1>3, <2>1, <2>2 DEF ElementInv
<1>6. QED
  BY <1>4, <1>5

\* The other elements, when a future is popped.
LEMMA OthersKept ==
    ASSUME TInv, NEW d \in Elements, queue[d] # None,
           (queue' = Popped(d) /\ UNCHANGED marker) \/ Reapply(d, queue[d], Popped(d)),
           NEW e \in Elements, e # d
    PROVE  marker'[e] = marker[e] /\ queue'[e] = queue[e]
<1>0. TypeOK /\ Popped(d)[e] = queue[e] /\ DOMAIN Popped(d) = Elements
  BY DEF TInv, TypeOK, Popped
<1>1. CASE queue' = Popped(d) /\ UNCHANGED marker
  BY <1>0, <1>1
<1>2. CASE /\ index[d] # None
           /\ marker' = Marked(d, index[d].cond, queue[d].orig)
           /\ queue' = Scheduled(Popped(d), d, index[d].cond, queue[d].orig, queue[d].due)
  <2>1. index[d].cond \in BOOLEAN
    BY <1>2, Typed
  <2>2. \E x : queue' \in {Popped(d), [Popped(d) EXCEPT ![d] = x], [Popped(d) EXCEPT ![d] = None]}
    BY <1>2, <2>1, ScheduledIs
  <2>3. queue'[e] = queue[e]
    BY <1>0, <2>2
  <2>4. marker'[e] = marker[e]
    BY <1>0, <1>2, <2>1, MarkedIs
  <2>5. QED
    BY <2>3, <2>4
<1>3. QED
  BY <1>1, <1>2 DEF Reapply, Superseded

----------------------------------------------------------------------------
(* The changes on their way.                                               *)

\* One more, made now.
LEMMA Emitted ==
    ASSUME TInv, OrderInv, NEW c \in Change, c.from = wall, inbox' = Append(inbox, c), wall' = wall
    PROVE  OrderInv' /\ Froms' \subseteq Froms \union {wall}
<1>1. /\ Len(inbox) \in Nat /\ DOMAIN inbox = 1..Len(inbox) /\ DOMAIN inbox' = 1..(Len(inbox) + 1)
      /\ \A k \in DOMAIN inbox' : inbox'[k] = IF k = Len(inbox) + 1 THEN c ELSE inbox[k]
  BY DEF TInv, TypeOK
<1>2. /\ \A k \in DOMAIN inbox : inbox[k].from <= wall /\ inbox[k].from \in Nat
      /\ wall \in Nat
  <2>1. inbox \in Seq(Change) /\ wall \in Nat
    BY Numbers DEF TInv, TypeOK
  <2>2. \A k \in DOMAIN inbox : inbox[k] \in Change
    BY <2>1
  <2>3. QED
    BY <2>1, <2>2, Numbers DEF OrderInv, Froms, Change
<1>3. Froms' \subseteq Froms \union {wall}
  BY <1>1 DEF Froms
<1>4. \A t \in Froms' : t <= wall'
  BY <1>2, <1>3 DEF OrderInv
<1>5. \A j, k \in DOMAIN inbox' : j <= k => inbox'[j].from <= inbox'[k].from
  <2> SUFFICES ASSUME NEW j \in DOMAIN inbox', NEW k \in DOMAIN inbox', j <= k
               PROVE  inbox'[j].from <= inbox'[k].from
    OBVIOUS
  <2>1. CASE k = Len(inbox) + 1
    <3>1. inbox'[k].from = wall /\ inbox'[j].from <= wall
      BY <2>1, <1>1, <1>2
    <3>2. QED
      BY <3>1
  <2>2. CASE k # Len(inbox) + 1
    <3>1. j \in DOMAIN inbox /\ k \in DOMAIN inbox /\ inbox'[j] = inbox[j] /\ inbox'[k] = inbox[k]
      BY <2>2, <1>1
    <3>2. QED
      BY <3>1 DEF OrderInv
  <2>3. QED
    BY <2>1, <2>2
<1>6. QED
  BY <1>3, <1>4, <1>5 DEF OrderInv

\* The oldest is taken.
LEMMA Taken ==
    ASSUME TInv, OrderInv, inbox # <<>>, inbox' = Tail(inbox), wall' = wall
    PROVE  /\ OrderInv' /\ Froms' \subseteq Froms
           /\ Head(inbox) \in Change /\ Head(inbox) = inbox[1]
           /\ Head(inbox).from \in Froms /\ Head(inbox).from <= wall
           /\ \A t \in Froms' : Head(inbox).from <= t
           /\ Len(inbox) \in Nat /\ Len(inbox') = Len(inbox) - 1
           /\ \A k \in DOMAIN inbox' : k + 1 \in DOMAIN inbox /\ inbox'[k] = inbox[k + 1]
<1>1. /\ Len(inbox) \in Nat /\ Len(inbox') = Len(inbox) - 1
      /\ Head(inbox) \in Change /\ Head(inbox) = inbox[1] /\ 1 \in DOMAIN inbox
      /\ \A k \in DOMAIN inbox' : k + 1 \in DOMAIN inbox /\ inbox'[k] = inbox[k + 1] /\ 1 <= k + 1 /\ k \in Nat
      /\ \A k \in DOMAIN inbox : k \in Nat
  BY DEF TInv, TypeOK
<1>2. Froms' \subseteq Froms
  BY <1>1 DEF Froms
<1>3. Head(inbox).from \in Froms /\ Head(inbox).from <= wall
  BY <1>1 DEF Froms, OrderInv
<1>4. \A t \in Froms' : Head(inbox).from <= t
  <2> SUFFICES ASSUME NEW k \in DOMAIN inbox' PROVE inbox[1].from <= inbox'[k].from
    BY <1>1 DEF Froms
  <2>1. QED
    BY <1>1 DEF OrderInv
<1>5. \A j, k \in DOMAIN inbox' : j <= k => inbox'[j].from <= inbox'[k].from
  <2> SUFFICES ASSUME NEW j \in DOMAIN inbox', NEW k \in DOMAIN inbox', j <= k
               PROVE  inbox'[j].from <= inbox'[k].from
    OBVIOUS
  <2>1. j + 1 \in DOMAIN inbox /\ k + 1 \in DOMAIN inbox /\ j + 1 <= k + 1
    BY <1>1
  <2>2. inbox[j + 1].from <= inbox[k + 1].from
    BY <2>1 DEF OrderInv
  <2>3. QED
    BY <1>1, <2>2
<1>6. \A t \in Froms' : t <= wall'
  BY <1>2 DEF OrderInv
<1>7. QED
  BY <1>1, <1>2, <1>3, <1>4, <1>5, <1>6 DEF OrderInv

\* A path that nothing touches.
LEMMA PathKept ==
    ASSUME PathInv, UNCHANGED <<function, inbox, truth, index>>,
           \A e \in Elements : marker'[e] = marker[e]
    PROVE  PathInv'
<1> SUFFICES ASSUME NEW e \in Elements PROVE \E path : IsPath(e, path)'
  BY DEF PathInv
<1>1. PICK path : IsPath(e, path)
  BY DEF PathInv
<1>2. Shows(e, path[0])'
  BY <1>1 DEF IsPath, Shows
<1>3. IsPath(e, path)'
  BY <1>1, <1>2 DEF IsPath
<1>4. QED
  BY <1>3

\* A change at the source makes the path one step longer.
LEMMA PathGrows ==
    ASSUME TInv, PathInv, NEW d \in Elements, NEW op \in {"set", "delete"}, NEW cond \in BOOLEAN, Emit(d, op, cond)
    PROVE  PathInv'
<1> SUFFICES ASSUME NEW e \in Elements PROVE \E path : IsPath(e, path)'
  BY DEF PathInv
<1>1. PICK path : IsPath(e, path)
  BY DEF PathInv
<1> DEFINE c == [el |-> d, op |-> op, cond |-> cond, from |-> wall]
           n == Len(inbox)
<1>2. /\ inbox' = Append(inbox, c) /\ UNCHANGED <<function, index, marker>>
      /\ truth'[e] = IF d = e THEN Applied(truth[e], c) ELSE truth[e]
      /\ inbox \in Seq(Change) /\ c \in Change /\ c.el = d
  <2>1. inbox' = Append(inbox, c) /\ UNCHANGED <<function, index, marker>>
    BY DEF Emit
  <2>2. d # e => truth'[e] = truth[e]
    BY DEF Emit, TInv, TypeOK
  <2>3. d = e => truth'[e] = Applied(truth[e], c)
    BY DEF Emit, TInv, TypeOK, Applied
  <2>4. QED
    BY <2>1, <2>2, <2>3 DEF TInv, TypeOK, Change
<1> HIDE DEF c
<1>3. /\ n \in Nat /\ Len(inbox') = n + 1 /\ inbox'[n + 1] = c
      /\ \A k \in 1..n : inbox'[k] = inbox[k]
  BY <1>2
<1> DEFINE longer == [k \in 0..(n + 1) |-> IF k = n + 1 THEN truth'[e] ELSE path[k]]
<1>4. /\ path \in [0..n -> Condition \union {None}] /\ path[n] = truth[e] /\ Shows(e, path[0])
      /\ \A k \in 1..n : path[k] = IF inbox[k].el = e THEN Applied(path[k - 1], inbox[k]) ELSE path[k - 1]
  BY <1>1 DEF IsPath
<1>5. truth'[e] \in Condition \union {None}
  <2>1. TInv'
    BY TypeStep DEF Next
  <2>2. QED
    BY <2>1 DEF TInv, TypeOK, Condition
<1> HIDE DEF n
<1>6. longer \in [0..(n + 1) -> Condition \union {None}]
  BY <1>3, <1>4, <1>5
<1>7. longer[0] = path[0] /\ longer[n + 1] = truth'[e] /\ longer[n] = truth[e]
  BY <1>3, <1>4
<1>8. Shows(e, path[0])'
  BY <1>2, <1>4 DEF Shows
<1>9. \A k \in 1..(n + 1) :
         longer[k] = IF inbox'[k].el = e THEN Applied(longer[k - 1], inbox'[k]) ELSE longer[k - 1]
  <2> SUFFICES ASSUME NEW k \in 1..(n + 1)
               PROVE  longer[k] = IF inbox'[k].el = e THEN Applied(longer[k - 1], inbox'[k]) ELSE longer[k - 1]
    OBVIOUS
  <2>1. CASE k = n + 1
    <3>1. k - 1 = n
      BY <1>3, <2>1
    <3> HIDE DEF longer
    <3>2. QED
      BY <1>2, <1>3, <1>7, <2>1, <3>1
  <2>2. CASE k \in 1..n
    <3>1. longer[k] = path[k] /\ longer[k - 1] = path[k - 1] /\ inbox'[k] = inbox[k]
      BY <1>3, <2>2
    <3>2. QED
      BY <1>4, <2>2, <3>1
  <2>3. QED
    BY <1>3, <2>1, <2>2
<1> HIDE DEF longer
<1>10. PICK p : p = longer
  OBVIOUS
<1>11. Shows(e, p[0])'
  <2>1. p[0] = path[0]
    BY <1>7, <1>10
  <2>2. QED
    BY <1>8, <2>1
<1>12. IsPath(e, p)'
  BY <1>3, <1>6, <1>7, <1>9, <1>10, <1>11 DEF IsPath
<1>13. QED
  BY <1>12

\* A change that is processed makes it one step shorter: what the index shows
\* afterwards is the next condition of the path.
LEMMA PathShrinks ==
    ASSUME TInv, OrderInv, PathInv, ProcessChange,
           \A e \in Elements : MarkOf(e)
    PROVE  PathInv'
<1> SUFFICES ASSUME NEW e \in Elements PROVE \E path : IsPath(e, path)'
  BY DEF PathInv
<1>1. PICK path : IsPath(e, path)
  BY DEF PathInv
<1> DEFINE c == Head(inbox)
           n == Len(inbox)
<1>2. /\ inbox # <<>> /\ inbox' = Tail(inbox) /\ UNCHANGED <<function, wall, truth>>
      /\ IF c.op = "set" THEN ProcessSet(c) ELSE ProcessDelete(c)
  BY DEF ProcessChange
<1>3. /\ c \in Change /\ c = inbox[1]
      /\ n \in Nat /\ Len(inbox') = n - 1
      /\ \A k \in DOMAIN inbox' : k + 1 \in DOMAIN inbox /\ inbox'[k] = inbox[k + 1]
      /\ n >= 1 /\ DOMAIN inbox' = 1..(n - 1)
  BY <1>2, Taken DEF TInv, TypeOK
<1>4. /\ path \in [0..n -> Condition \union {None}] /\ path[n] = truth[e] /\ Shows(e, path[0])
      /\ \A k \in 1..n : path[k] = IF inbox[k].el = e THEN Applied(path[k - 1], inbox[k]) ELSE path[k - 1]
  BY <1>1 DEF IsPath
<1>5. path[1] = IF c.el = e THEN Applied(path[0], c) ELSE path[0]
  BY <1>3, <1>4
<1>6. /\ index[e] # None => index[e].cond \in BOOLEAN
      /\ marker[e] # NoTime => function = "trueFor" /\ index[e] # None /\ index[e].cond
      /\ TypeOK /\ c.el \in Elements /\ c.cond \in BOOLEAN /\ c.op \in {"set", "delete"}
  BY <1>3, Typed DEF TInv, Change
<1> HIDE DEF c, n
<1>7. Shows(e, path[1])'
  <2>1. CASE c.el # e
    <3>1. index'[e] = index[e] /\ marker'[e] = marker[e]
      <4>1. CASE c.op = "set"
        BY <1>2, <1>6, <2>1, <4>1 DEF ProcessSet, Marked, TypeOK
      <4>2. CASE c.op # "set"
        BY <1>2, <1>6, <2>1, <4>2 DEF ProcessDelete, TypeOK
      <4>3. QED
        BY <4>1, <4>2
    <3>2. \A s : Shows(e, s) => Shows(e, s)'
      BY <1>2, <3>1 DEF Shows
    <3>3. QED
      BY <1>4, <1>5, <2>1, <3>2
  <2>2. CASE c.el = e /\ c.op = "set"
    <3>1. index'[e] = [cond |-> c.cond, from |-> c.from] /\ index'[e] # None /\ index'[e].cond = c.cond
      BY <1>2, <1>6, <2>2, NotNone DEF ProcessSet, TypeOK
    <3>2. marker' = Marked(e, c.cond, c.from)
      BY <1>2, <2>2 DEF ProcessSet
    <3>3. CASE path[0] # None /\ path[0].cond /\ c.cond
      <4>1. path[1] = path[0]
        BY <1>5, <2>2, <3>3 DEF Applied
      <4>2. index[e] # None /\ index[e].cond
        BY <1>4, <3>3 DEF Shows
      <4>3. function = "trueFor" => marker'[e] = marker[e] /\ path[0].since = marker[e]
        <5>1. function = "trueFor" => marker[e] # NoTime
          BY <4>2 DEF MarkOf
        <5>2. QED
          BY <5>1, <1>4, <1>6, <3>2, <3>3 DEF Marked, Shows, TypeOK
      <4>4. path[0].cond = c.cond
        BY <1>4, <1>6, <3>3, <4>2 DEF Shows
      <4>5. \A s : (s # None /\ s.cond = c.cond /\ (function = "trueFor" => s.since = marker'[e])) => Shows(e, s)'
        BY <1>2, <3>1 DEF Shows
      <4>6. QED
        BY <3>3, <4>1, <4>3, <4>4, <4>5
    <3>4. CASE ~(path[0] # None /\ path[0].cond /\ c.cond)
      <4>1. path[1] = [cond |-> c.cond, since |-> c.from]
        BY <1>5, <2>2, <3>4 DEF Applied
      <4>2. function = "trueFor" /\ c.cond => marker'[e] = c.from
        <5>1. c.cond => marker[e] = NoTime
          BY <1>4, <1>6, <3>4 DEF Shows
        <5>2. QED
          BY <5>1, <1>6, <3>2 DEF Marked, TypeOK
      <4>3. \A s : (s = [cond |-> c.cond, since |-> c.from]) => Shows(e, s)'
        BY <1>2, <3>1, <4>2, NotNone DEF Shows
      <4>4. QED
        BY <4>1, <4>3
    <3>5. QED
      BY <3>3, <3>4
  <2>3. CASE c.el = e /\ c.op = "delete"
    <3>1. index'[e] = None
      BY <1>2, <1>6, <2>3 DEF ProcessDelete, TypeOK
    <3>2. path[1] = None
      BY <1>5, <2>3 DEF Applied
    <3>3. \A s : s = None => Shows(e, s)'
      BY <3>1 DEF Shows
    <3>4. QED
      BY <3>2, <3>3
  <2>4. QED
    BY <1>6, <2>1, <2>2, <2>3
<1> DEFINE shorter == [k \in 0..(n - 1) |-> path[k + 1]]
<1>8. /\ shorter \in [0..(n - 1) -> Condition \union {None}]
      /\ shorter[0] = path[1] /\ shorter[n - 1] = truth'[e]
  <2>1. 0 \in 0..(n - 1) /\ n - 1 \in 0..(n - 1) /\ n - 1 + 1 = n /\ \A k \in 0..(n - 1) : k + 1 \in 0..n
    BY <1>3
  <2>2. truth'[e] = path[n]
    BY <1>2, <1>4
  <2>3. QED
    BY <1>4, <2>1, <2>2
<1>9. \A k \in 1..(n - 1) :
         shorter[k] = IF inbox'[k].el = e THEN Applied(shorter[k - 1], inbox'[k]) ELSE shorter[k - 1]
  <2> SUFFICES ASSUME NEW k \in 1..(n - 1)
               PROVE  shorter[k] = IF inbox'[k].el = e THEN Applied(shorter[k - 1], inbox'[k]) ELSE shorter[k - 1]
    OBVIOUS
  <2>1. k + 1 \in 1..n /\ k + 1 - 1 = k /\ inbox'[k] = inbox[k + 1]
    BY <1>3
  <2>2. path[k + 1] = IF inbox[k + 1].el = e THEN Applied(path[k], inbox[k + 1]) ELSE path[k]
    BY <1>4, <2>1
  <2>3. shorter[k] = path[k + 1] /\ shorter[k - 1] = path[k]
    BY <1>3
  <2>4. QED
    BY <2>1, <2>2, <2>3
<1> HIDE DEF shorter
<1>10. PICK p : p = shorter
  OBVIOUS
<1>11. Shows(e, p[0])'
  <2>1. p[0] = path[1]
    BY <1>8, <1>10
  <2>2. QED
    BY <1>7, <2>1
<1>12. IsPath(e, p)'
  BY <1>3, <1>8, <1>9, <1>10, <1>11 DEF IsPath
<1>13. QED
  BY <1>12

----------------------------------------------------------------------------
(* The theorems.                                                           *)

LEMMA InitInvariant == Init => IInv
<1> SUFFICES ASSUME Init PROVE IInv
  OBVIOUS
<1>1. TInv
  BY InitTyped
<1>2. DOMAIN inbox = {} /\ Froms = {} /\ Len(inbox) = 0
  BY DEF Init, Froms
<1>3. OrderInv
  BY <1>2 DEF OrderInv
<1>4. ASSUME NEW e \in Elements PROVE ElementInv(e)
  BY DEF Init, ElementInv, TimeOf, MarkOf, RowOf, FutureOf, LostOf, QueueOf, Candidate
<1>5. ASSUME NEW e \in Elements PROVE IsPath(e, [k \in 0..0 |-> None])
  BY <1>2 DEF Init, IsPath, Shows
<1>6. QED
  BY <1>1, <1>3, <1>4, <1>5 DEF IInv, PathInv

\* Every step keeps the invariant when changes and futures are processed in
\* the order of their times, and a future is popped when it is due.
LEMMA InvariantStep ==
    ASSUME Consumer = "core", Races = {}, IInv, [Next]_vars
    PROVE  IInv'
<1>0. /\ TInv /\ TInv' /\ OrderInv /\ PathInv /\ TypeOK
      /\ wall \in Nat /\ wall' \in Nat
      /\ \A e \in Elements : ElementInv(e)
  <2>1. TInv'
    BY TypeStep DEF IInv
  <2>2. TypeOK /\ TypeOK'
    BY <2>1 DEF IInv, TInv
  <2>3. QED
    BY <2>1, <2>2, Numbers DEF IInv, TypeOK
<1>1. CASE Tick \/ Look \/ PopNothing \/ UNCHANGED vars
  <2>1. /\ UNCHANGED <<function, truth, inbox, index, marker, queue, rows, lost>>
        /\ wall' >= wall
    BY <1>0, <1>1 DEF Tick, Look, PopNothing, vars
  <2>2. Froms' = Froms
    BY <2>1 DEF Froms
  <2>3. ASSUME NEW e \in Elements PROVE ElementInv(e)'
    BY <1>0, <2>1, <2>2, LeftAlone
  <2>4. OrderInv'
    <3>1. \A t \in Froms : t \in Nat /\ t <= wall
      BY <1>0, FromsTyped DEF OrderInv
    <3>2. \A t \in Froms' : t <= wall'
      BY <1>0, <2>1, <2>2, <3>1
    <3>3. QED
      BY <1>0, <2>1, <3>2 DEF OrderInv
  <2>5. PathInv'
    BY <1>0, <2>1, PathKept
  <2>6. QED
    BY <1>0, <2>3, <2>4, <2>5 DEF IInv
<1>2. ASSUME NEW d \in Elements, NEW op \in {"set", "delete"}, NEW cond \in BOOLEAN, Emit(d, op, cond)
      PROVE  IInv'
  <2> DEFINE c == [el |-> d, op |-> op, cond |-> cond, from |-> wall]
  <2>1. /\ UNCHANGED <<function, wall, index, marker, queue, rows, lost>>
        /\ inbox' = Append(inbox, c) /\ c \in Change /\ c.from = wall
    BY <1>0, <1>2 DEF Emit, Change, TypeOK
  <2> HIDE DEF c
  <2>2. OrderInv' /\ Froms' \subseteq Froms \union {wall}
    BY <1>0, <2>1, Emitted
  <2>3. ASSUME NEW e \in Elements PROVE ElementInv(e)'
    BY <1>0, <2>1, <2>2, LeftAlone
  <2>4. PathInv'
    BY <1>0, <1>2, PathGrows
  <2>5. QED
    BY <1>0, <2>2, <2>3, <2>4 DEF IInv
<1>3. CASE ProcessChange
  <2> DEFINE c == Head(inbox)
  <2>1. /\ inbox # <<>> /\ inbox' = Tail(inbox) /\ UNCHANGED <<function, wall>>
        /\ IF c.op = "set" THEN ProcessSet(c) ELSE ProcessDelete(c)
        /\ lost' = IF c.op = "set" /\ c.cond /\ queue'[c.el] = None
                   THEN lost ELSE lost \ {c.el}
        /\ ~Overdue(c)
    BY <1>3 DEF ProcessChange
  <2>2. /\ OrderInv' /\ Froms' \subseteq Froms
        /\ c \in Change /\ c.from \in Froms /\ c.from <= wall
        /\ \A t \in Froms' : c.from <= t
    BY <1>0, <2>1, Taken
  <2>3. PathInv'
    BY <1>0, <1>3, PathShrinks DEF ElementInv
  <2> HIDE DEF c
  <2>4. ASSUME NEW e \in Elements PROVE ElementInv(e)'
    <3>1. CASE e = c.el /\ c.op = "set"
      BY <1>0, <2>1, <2>2, <3>1, SetElement
    <3>2. CASE e = c.el /\ c.op # "set"
      BY <1>0, <2>1, <2>2, <3>2, DeleteElement
    <3>3. CASE e # c.el
      <4>1. c.el \in Elements /\ c.cond \in BOOLEAN
        BY <2>2 DEF Change
      <4>2. index'[e] = index[e] /\ marker'[e] = marker[e] /\ queue'[e] = queue[e]
        <5>1. CASE c.op = "set"
          <6>1. index'[e] = index[e] /\ marker'[e] = marker[e]
            BY <1>0, <2>1, <3>3, <5>1 DEF ProcessSet, Marked, TypeOK
          <6>2. queue' = Scheduled(queue, c.el, c.cond, c.from, c.from)
            BY <2>1, <5>1 DEF ProcessSet
          <6>3. \E x : queue' \in {queue, [queue EXCEPT ![c.el] = x], [queue EXCEPT ![c.el] = None]}
            BY <4>1, <6>2, ScheduledIs
          <6>4. QED
            BY <1>0, <3>3, <6>1, <6>3 DEF TypeOK
        <5>2. CASE c.op # "set"
          BY <1>0, <2>1, <3>3, <5>2 DEF ProcessDelete, TypeOK
        <5>3. QED
          BY <5>1, <5>2
      <4>3. rows' \in {rows, rows \union {c.el}, rows \ {c.el}}
        BY <2>1 DEF ProcessSet, ProcessDelete, Reported
      <4>4. (e \in rows' <=> e \in rows) /\ (e \in lost' <=> e \in lost)
        BY <2>1, <3>3, <4>3
      <4>5. wall' >= wall /\ function' = function
        BY <1>0, <2>1
      <4>6. QED
        BY <1>0, <2>2, <4>2, <4>4, <4>5, LeftAlone
    <3>4. QED
      BY <3>1, <3>2, <3>3
  <2>5. QED
    BY <1>0, <2>2, <2>3, <2>4 DEF IInv
<1>4. CASE PopFuture
  <2>1. PICK d \in First : InTurn(d) /\ Reevaluate(d, queue[d], Popped(d))
    BY <1>4 DEF PopFuture
  <2>2. d \in Elements /\ queue[d] # None
    BY <2>1 DEF First, Queued
  <2>3. UNCHANGED <<function, wall, truth, inbox, index, lost>> /\ Froms' = Froms
    BY <1>4 DEF PopFuture, Froms
  <2>4. queue[d].due <= wall /\ \A t \in Froms : queue[d].due <= t
    <3>1. queue[d].due \in Nat /\ Froms \subseteq Nat /\ wall \in Nat
      BY <1>0, <2>2, Typed
    <3>2. ~(queue[d].due > wall) /\ \A k \in DOMAIN inbox : ~(inbox[k].from < queue[d].due)
      BY <2>1 DEF InTurn
    <3>3. QED
      BY <3>1, <3>2 DEF Froms
  <2>5. ElementInv(d)' /\ marker'[d] = marker[d]
    BY <1>0, <2>1, <2>2, <2>3, <2>4, FutureElement
  <2>6. ASSUME NEW e \in Elements, e # d
        PROVE  ElementInv(e)' /\ marker'[e] = marker[e]
    <3>1. Reapply(d, queue[d], Popped(d)) /\ (e \in rows' <=> e \in rows)
      BY <1>0, <2>1, <2>2, <2>6, ReevaluateRows
    <3>2. marker'[e] = marker[e] /\ queue'[e] = queue[e]
      BY <1>0, <2>2, <2>6, <3>1, OthersKept
    <3>3. wall' >= wall /\ function' = function /\ index'[e] = index[e]
      BY <1>0, <2>3
    <3>4. QED
      BY <1>0, <2>3, <3>1, <3>2, <3>3, LeftAlone
  <2>7. PathInv'
    BY <1>0, <2>3, <2>5, <2>6, PathKept
  <2>8. OrderInv'
    BY <1>0, <2>3 DEF OrderInv
  <2>9. QED
    BY <1>0, <2>5, <2>6, <2>7, <2>8 DEF IInv
<1>5. CASE PopFails
  <2>1. PICK d \in First :
          /\ (queue' = Popped(d) /\ UNCHANGED marker) \/ Reapply(d, queue[d], Popped(d))
          /\ lost' = IF index[d] # None /\ index[d].cond /\ queue'[d] = None
                     THEN lost \union {d} ELSE lost
    BY <1>5 DEF PopFails
  <2>2. d \in Elements /\ queue[d] # None
    BY <2>1 DEF First, Queued
  <2>3. UNCHANGED <<function, wall, truth, inbox, index, rows>> /\ Froms' = Froms
    BY <1>5 DEF PopFails, Froms
  <2>4. ElementInv(d)' /\ marker'[d] = marker[d]
    BY <1>0, <2>1, <2>2, <2>3, FailedElement
  <2>5. ASSUME NEW e \in Elements, e # d
        PROVE  ElementInv(e)' /\ marker'[e] = marker[e]
    <3>1. marker'[e] = marker[e] /\ queue'[e] = queue[e]
      BY <1>0, <2>1, <2>2, <2>5, OthersKept
    <3>2. /\ wall' >= wall /\ function' = function /\ index'[e] = index[e]
          /\ (e \in rows' <=> e \in rows) /\ (e \in lost' <=> e \in lost)
      BY <1>0, <2>1, <2>3, <2>5
    <3>3. QED
      BY <1>0, <2>3, <3>1, <3>2, LeftAlone
  <2>6. PathInv'
    BY <1>0, <2>3, <2>4, <2>5, PathKept
  <2>7. OrderInv'
    BY <1>0, <2>3 DEF OrderInv
  <2>8. QED
    BY <1>0, <2>4, <2>5, <2>6, <2>7 DEF IInv
<1>6. QED
  BY <1>1, <1>2, <1>3, <1>4, <1>5 DEF Next

LEMMA InvariantHolds ==
    ASSUME Consumer = "core", Races = {}
    PROVE  Spec => []IInv
BY InitInvariant, InvariantStep, PTL DEF Spec

\* With no change on its way the index shows what is true at the source.
LEMMA ShowsTruth ==
    ASSUME IInv, inbox = <<>>, NEW e \in Elements
    PROVE  /\ Shows(e, truth[e])
           /\ Wanted(e) <=> Candidate(e) /\ Due(e) <= wall
<1>1. PICK path : IsPath(e, path)
  BY DEF IInv, PathInv
<1>2. Shows(e, truth[e])
  BY <1>1 DEF IsPath
<1>3. QED
  BY <1>2 DEF Shows, Wanted, Candidate, Due

\* A row is shown only when its time has come.
LEMMA RowsWanted ==
    ASSUME IInv, inbox = <<>>, NEW e \in rows
    PROVE  e \in Elements /\ Wanted(e)
<1>1. e \in Elements
  BY DEF IInv, TInv, TypeOK
<1>2. Candidate(e) /\ Due(e) <= wall
  BY <1>1 DEF IInv, ElementInv, RowOf
<1>3. QED
  BY <1>1, <1>2, ShowsTruth

(* No row of trueFor, trueLater or trueUntil is shown before its time: the *)
(* before-and-after evaluation of process_source_change, with one due      *)
(* future for each look at the queue, adds no row early.                   *)
THEOREM NoRowEarly ==
    ASSUME Consumer = "core", Races = {}
    PROVE  Spec => []NotEarly
<1>1. IInv => NotEarly
  BY RowsWanted DEF NotEarly
<1>2. QED
  BY <1>1, InvariantHolds, PTL

(* When nothing is on its way and no future is due, the differences that   *)
(* were reported add up to the answer: no row is left over from an element *)
(* that was deleted, inserted again or turned, and none is missing but     *)
(* those whose future process_due_futures popped and failed to evaluate.   *)
THEOREM AnswersAddUp ==
    ASSUME Consumer = "core", Races = {}
    PROVE  Spec => []ResultMatches
<1>1. IInv => ResultMatches
  <2> SUFFICES ASSUME IInv, Settled PROVE rows = {e \in Elements : Wanted(e)} \ lost
    BY DEF ResultMatches
  <2>1. \A e \in rows : e \in Elements /\ Wanted(e) /\ e \notin lost
    <3>1. \A e \in rows : e \in Elements /\ Wanted(e)
      BY RowsWanted DEF Settled
    <3>2. QED
      BY <3>1 DEF IInv, ElementInv, LostOf
  <2>2. ASSUME NEW e \in Elements, Wanted(e), e \notin lost PROVE e \in rows
    <3>1. Candidate(e) /\ Due(e) <= wall
      BY <2>2, ShowsTruth DEF Settled
    <3>2. SUFFICES ASSUME e \notin rows PROVE FALSE
      OBVIOUS
    <3>3. ElementInv(e) /\ TInv
      BY DEF IInv
    <3>4. queue[e] # None /\ queue[e].due <= Due(e)
      BY <2>2, <3>1, <3>2, <3>3 DEF ElementInv, FutureOf
    <3>5. queue[e].due > wall
      BY <3>4 DEF Settled, Queued
    <3>6. queue[e].due \in Nat /\ wall \in Nat /\ Due(e) \in Nat
      BY <3>1, <3>3, <3>4, Typed, DueOfCandidate
    <3>7. QED
      BY <3>1, <3>4, <3>5, <3>6
  <2>3. QED
    BY <2>1, <2>2
<1>2. QED
  BY <1>1, InvariantHolds, PTL

\* Only a failed evaluation loses a future.
NoneLost == lost = {}

LEMMA NothingLost ==
    ASSUME MaxFaults = 0
    PROVE  Spec => []NoneLost
<1>1. Init => NoneLost
  BY DEF Init, NoneLost
<1>2. TypeOK /\ NoneLost /\ [Next]_vars => NoneLost'
  <2> SUFFICES ASSUME TypeOK, lost = {}, [Next]_vars PROVE lost' = {}
    BY DEF NoneLost
  <2>1. CASE ProcessChange
    <3>1. lost' = lost \/ \E c : lost' = lost \ {c}
      BY <2>1 DEF ProcessChange
    <3>2. QED
      BY <3>1
  <2>2. CASE PopFails
    <3>1. faults < MaxFaults /\ faults \in 0..MaxFaults
      BY <2>2 DEF PopFails, TypeOK
    <3>2. QED
      BY <3>1
  <2>3. CASE ~ProcessChange /\ ~PopFails
    BY <2>3 DEF Next, Tick, Emit, Look, PopFuture, PopNothing, vars
  <2>4. QED
    BY <2>1, <2>2, <2>3
<1>3. QED
  BY <1>1, <1>2, TypeCorrect, PTL DEF Spec

(* Where no evaluation fails, process_due_futures and the changes between  *)
(* them miss no row at all: one that is wanted is shown as soon as nothing *)
(* is on its way and no future is due.                                     *)
THEOREM NoneMissing ==
    ASSUME Consumer = "core", Races = {}, MaxFaults = 0
    PROVE  Spec => []NoRowLost
<1>1. ResultMatches /\ NoneLost => NoRowLost
  BY DEF ResultMatches, NoneLost, NoRowLost
<1>2. QED
  BY <1>1, AnswersAddUp, NothingLost, PTL

=============================================================================
