--------------------------- MODULE TemporalQuery ---------------------------
(***************************************************************************)
(* A continuous query whose answer changes with time alone:                *)
(*                                                                         *)
(*    MATCH (n) WHERE drasi.trueFor(n.cond, Hold) RETURN n.id              *)
(*                                                                         *)
(* or the same with trueLater or trueUntil (core/src/evaluation/functions/ *)
(* future). A function that cannot answer yet schedules a future; when it  *)
(* is due the element is evaluated again (core/src/query/                  *)
(* continuous_query.rs). Every row is the difference of two evaluations,   *)
(* before and after a change, each under a clock of its own: the engine    *)
(* keeps no record of the rows it has reported. What is checked is that    *)
(* these differences add up to the answer the function's meaning gives.    *)
(*                                                                         *)
(* Two consumers pop the futures: the one of the core library, one future  *)
(* for each look at the queue, and the one of drasi-lib's query processor, *)
(* which pops until the queue is empty. The indexes and the queue are the  *)
(* ones in memory: a session is no transaction, and what a failed one did  *)
(* to them stays.                                                          *)
(***************************************************************************)
EXTENDS Naturals, Sequences, FiniteSets

CONSTANTS
    Elements,     \* the elements that match
    Hold,         \* trueFor: how long the condition must hold
    At,           \* trueLater, trueUntil: the time, of each element
    Consumer,     \* "core" or "lib"
    Races,        \* which of the races named below may happen
    MaxTime,      \* bound: the clock
    MaxChanges,   \* bound: changes of the source
    MaxFaults     \* bound: futures whose evaluation fails

(* late_change: a future is processed before a change that is older than   *)
(*     its due time.                                                       *)
(* late_signal: a change is processed before a future that was due first.  *)
(* stale_look: a future is popped that the consumer has not seen to be due.*)
AllRaces == {"late_change", "late_signal", "stale_look"}

ASSUME TemporalAssumption ==
    /\ Hold \in Nat /\ At \in [Elements -> Nat]
    /\ Consumer \in {"core", "lib"}
    /\ Races \subseteq AllRaces
    /\ {MaxTime, MaxChanges, MaxFaults} \subseteq Nat
    /\ \A e \in Elements : At[e] <= MaxTime

VARIABLES
    function,   \* the function of the query
    wall,       \* the time
    truth,      \* the source: for each element, its condition and since when
    inbox,      \* changes on their way to the query
    index,      \* element index: condition and effective_from
    marker,     \* result index: trueFor's time marker
    queue,      \* future queue: at most one future for each element
    looked,     \* the consumer has seen a future that is due
    rows,       \* the answer, as the reported differences add up
    lost,       \* history: elements whose future went with a failed evaluation
    changes,    \* bound
    faults      \* bound

vars == <<function, wall, truth, inbox, index, marker, queue, looked, rows, lost, changes, faults>>

Functions == {"trueFor", "trueLater", "trueUntil"}
Times == 0..MaxTime
None == [none |-> TRUE]
NoTime == MaxTime + 1

Change == [el : Elements, op : {"set", "delete"}, cond : BOOLEAN, from : Times]

TypeOK ==
    /\ function \in Functions
    /\ wall \in Times
    /\ truth \in [Elements -> [cond : BOOLEAN, since : Times] \union {None}]
    /\ inbox \in Seq(Change)
    /\ index \in [Elements -> [cond : BOOLEAN, from : Times] \union {None}]
    /\ marker \in [Elements -> Times \union {NoTime}]
    /\ queue \in [Elements -> [orig : Times, due : Times] \union {None}]
    /\ looked \in BOOLEAN
    /\ rows \subseteq Elements /\ lost \subseteq Elements
    /\ changes \in 0..MaxChanges
    /\ faults \in 0..MaxFaults
    /\ \A e \in Elements : marker[e] # NoTime =>
          function = "trueFor" /\ index[e] # None /\ index[e].cond

Init ==
    /\ function \in Functions
    /\ wall = 0
    /\ truth = [e \in Elements |-> None]
    /\ inbox = <<>>
    /\ index = [e \in Elements |-> None]
    /\ marker = [e \in Elements |-> NoTime]
    /\ queue = [e \in Elements |-> None]
    /\ looked = FALSE
    /\ rows = {} /\ lost = {}
    /\ changes = 0 /\ faults = 0

----------------------------------------------------------------------------
(* The source and the clock. The last change leaves time for its future.   *)

Tick ==
    /\ wall < MaxTime
    /\ wall' = wall + 1
    /\ UNCHANGED <<function, truth, inbox, index, marker, queue, looked, rows, lost, changes, faults>>

Emit(e, op, cond) ==
    /\ changes < MaxChanges /\ changes' = changes + 1
    /\ wall + Hold <= MaxTime
    /\ op = "delete" => truth[e] # None /\ ~cond
    /\ inbox' = Append(inbox, [el |-> e, op |-> op, cond |-> cond, from |-> wall])
    /\ truth' = [truth EXCEPT ![e] =
          CASE op = "delete" -> None
            [] op = "set" /\ truth[e] # None /\ truth[e].cond /\ cond -> @
            [] OTHER -> [cond |-> cond, since |-> wall]]
    /\ UNCHANGED <<function, wall, index, marker, queue, looked, rows, lost, faults>>

----------------------------------------------------------------------------
(* The functions.                                                          *)

\* When the function can answer, under a clock whose transaction time is tx.
DueTime(e, tx) ==
    IF function = "trueFor" THEN (IF marker[e] = NoTime THEN tx ELSE marker[e]) + Hold
    ELSE At[e]

\* The predicate holds: not false and not Awaiting.
Holds(e, cond, tx, rt) == cond /\ DueTime(e, tx) <= rt

\* Mutant: a condition that turns false leaves the time marker.
MarkedOnce(e, cond, tx) ==
    IF function = "trueFor" /\ cond /\ marker[e] = NoTime
    THEN [marker EXCEPT ![e] = tx] ELSE marker

\* SideEffects::Apply, on the time marker ...
Marked(e, cond, tx) ==
    [marker EXCEPT ![e] = IF function = "trueFor" /\ cond THEN IF @ = NoTime THEN tx ELSE @
                          ELSE NoTime]

\* Mutant: an element that is already marked is taken to be queued.
ScheduledOnce(q, e, cond, tx, rt) ==
    LET due == DueTime(e, tx)
        new == [orig |-> tx, due |-> due]
    IN CASE function = "trueLater" -> IF due <= rt THEN q ELSE [q EXCEPT ![e] = new]
         [] function # "trueLater" /\ (~cond \/ due <= rt) -> [q EXCEPT ![e] = None]
         [] OTHER -> IF q[e] = None /\ marker[e] = NoTime THEN [q EXCEPT ![e] = new] ELSE q

\* ... and on the queue q: remove, push if absent, overwrite.
Scheduled(q, e, cond, tx, rt) ==
    LET due == DueTime(e, tx)
        new == [orig |-> tx, due |-> due]
    IN CASE function = "trueLater" -> IF due <= rt THEN q ELSE [q EXCEPT ![e] = new]
         [] function # "trueLater" /\ (~cond \/ due <= rt) -> [q EXCEPT ![e] = None]
         [] OTHER -> IF q[e] = None THEN [q EXCEPT ![e] = new] ELSE q

----------------------------------------------------------------------------
(* The evaluation of a change.                                             *)

\* An update of a row whose projection has not changed is not reported.
Reported(e, before, after) ==
    CASE after /\ ~before -> rows \union {e}
      [] before /\ ~after -> rows \ {e}
      [] OTHER -> rows

\* An insert adds a row; an update compares with the version in the index,
\* under a clock with that version's time and the change's realtime.
ProcessSet(c) ==
    LET e == c.el
        before == index[e] # None /\ Holds(e, index[e].cond, index[e].from, c.from)
    IN /\ rows' = Reported(e, before, Holds(e, c.cond, c.from, c.from))
       /\ marker' = Marked(e, c.cond, c.from)
       /\ queue' = Scheduled(queue, e, c.cond, c.from, c.from)
       /\ index' = [index EXCEPT ![e] = [cond |-> c.cond, from |-> c.from]]

\* Mutant: a delete reverts the row and not the marker.
ProcessDeleteUnreverted(c) ==
    LET e == c.el
    IN /\ rows' = IF index[e] = None THEN rows
                  ELSE Reported(e, Holds(e, index[e].cond, index[e].from, c.from), FALSE)
       /\ index' = [index EXCEPT ![e] = None]
       /\ UNCHANGED <<queue, marker>>

\* RevertForDelete clears the marker; a future of the element stays queued.
ProcessDelete(c) ==
    LET e == c.el
    IN /\ IF index[e] = None THEN UNCHANGED <<rows, marker>>
          ELSE /\ rows' = Reported(e, Holds(e, index[e].cond, index[e].from, c.from), FALSE)
               /\ marker' = [marker EXCEPT ![e] = NoTime]
       /\ index' = [index EXCEPT ![e] = None]
       /\ UNCHANGED queue

Overdue(c) == queue[c.el] # None /\ queue[c.el].due <= c.from

ProcessChange ==
    /\ inbox # <<>>
    /\ LET c == Head(inbox)
       IN /\ Overdue(c) => "late_signal" \in Races
          /\ IF c.op = "set" THEN ProcessSet(c) ELSE ProcessDelete(c)
          /\ lost' = IF c.op = "set" /\ c.cond /\ queue'[c.el] = None
                     THEN lost ELSE lost \ {c.el}
    /\ inbox' = Tail(inbox)
    /\ Consumer = "lib" => ~looked
    /\ UNCHANGED <<function, wall, truth, looked, changes, faults>>

----------------------------------------------------------------------------
(* The futures.                                                            *)

Queued == {e \in Elements : queue[e] # None}
First == {e \in Queued : \A d \in Queued : queue[e].due <= queue[d].due}

\* peek_due_time.
Look ==
    /\ ~looked
    /\ \E e \in First : queue[e].due <= wall
    /\ looked' = TRUE
    /\ UNCHANGED <<function, wall, truth, inbox, index, marker, queue, rows, lost, changes, faults>>

\* An element that is gone or has changed since is not evaluated.
Superseded(e, f) == index[e] = None \/ index[e].from >= f.due

\* What the evaluation of a future f of e leaves behind; q is the queue without
\* it.
Reapply(e, f, q) ==
    IF Superseded(e, f) THEN queue' = q /\ UNCHANGED marker
    ELSE /\ marker' = Marked(e, index[e].cond, f.orig)
         /\ queue' = Scheduled(q, e, index[e].cond, f.orig, f.due)

\* Mutant: before and after under the same clock.
ReevaluateSameClock(e, f, q) ==
    /\ Reapply(e, f, q)
    /\ rows' = IF Superseded(e, f) THEN rows
               ELSE Reported(e, Holds(e, index[e].cond, f.orig, f.due),
                                Holds(e, index[e].cond, f.orig, f.due))

\* SourceChange::Future: the element as it is, before at its own time and
\* after at the due time.
Reevaluate(e, f, q) ==
    /\ Reapply(e, f, q)
    /\ rows' = IF Superseded(e, f) THEN rows
               ELSE Reported(e, Holds(e, index[e].cond, index[e].from, index[e].from),
                                Holds(e, index[e].cond, f.orig, f.due))

\* The races apart, a future is popped once it is due and after the changes
\* that are older.
InTurn(e) ==
    /\ (\E k \in DOMAIN inbox : inbox[k].from < queue[e].due) => "late_change" \in Races
    /\ queue[e].due > wall => Consumer = "lib" \/ "stale_look" \in Races

Popped(e) == [queue EXCEPT ![e] = None]

\* process_due_futures, in one session: whatever is first in the queue.
PopFuture ==
    /\ looked
    /\ \E e \in First : InTurn(e) /\ Reevaluate(e, queue[e], Popped(e))
    /\ looked' = (Consumer = "lib")
    /\ UNCHANGED <<function, wall, truth, inbox, index, lost, changes, faults>>

PopNothing ==
    /\ looked /\ Queued = {}
    /\ looked' = FALSE
    /\ UNCHANGED <<function, wall, truth, inbox, index, marker, queue, rows, lost, changes, faults>>

\* The evaluation fails, before or after its side effects. Rolling the session
\* back undoes neither them nor the pop, and no row is reported. (drasi-lib's
\* query goes to Error then, and processes nothing more.)
PopFails ==
    /\ looked /\ Consumer = "core"
    /\ faults < MaxFaults /\ faults' = faults + 1
    /\ \E e \in First :
          /\ InTurn(e)
          /\ \/ queue' = Popped(e) /\ UNCHANGED marker
             \/ Reapply(e, queue[e], Popped(e))
          /\ lost' = IF index[e] # None /\ index[e].cond /\ queue'[e] = None
                     THEN lost \union {e} ELSE lost
    /\ looked' = FALSE
    /\ UNCHANGED <<function, wall, truth, inbox, index, rows, changes>>

Next ==
    \/ Tick
    \/ \E e \in Elements, op \in {"set", "delete"}, cond \in BOOLEAN : Emit(e, op, cond)
    \/ ProcessChange
    \/ Look \/ PopFuture \/ PopNothing \/ PopFails

Spec == Init /\ [][Next]_vars

(* Time passes, the consumer polls, and both it and the query run.         *)
FairSpec ==
    /\ Spec
    /\ WF_vars(Tick) /\ WF_vars(ProcessChange)
    /\ WF_vars(Look) /\ WF_vars(PopFuture) /\ WF_vars(PopNothing)

----------------------------------------------------------------------------
(* What the function means.                                                *)
Wanted(e) ==
    /\ truth[e] # None /\ truth[e].cond
    /\ IF function = "trueFor" THEN truth[e].since + Hold <= wall ELSE At[e] <= wall

Settled == inbox = <<>> /\ ~looked /\ \A e \in Queued : queue[e].due > wall

(* Once every change and every due future is processed, the rows reported  *)
(* add up to the elements for which the function is true now, all but      *)
(* those whose future was popped by an evaluation that failed: they stay   *)
(* out until a change queues a new one or their condition turns.           *)
ResultMatches == Settled => rows = {e \in Elements : Wanted(e)} \ lost

(* "If a crash occurs before commit, the pop rolls back and the item stays *)
(* in the queue" (core/src/query/continuous_query.rs): a failed evaluation *)
(* costs no row.                                                           *)
NoRowLost == Settled => \A e \in Elements : Wanted(e) => e \in rows

(* Also while futures are due and not yet processed, a row is shown only   *)
(* if the time it waits for has come, unless a change is on its way: the   *)
(* futures the query processes are the due ones ("Drain all due futures    *)
(* atomically within sessions", lib/src/queries/manager.rs).               *)
NotEarly == inbox = <<>> => \A e \in rows : Wanted(e)

(* A row that is due is shown, unless it is no longer due or the           *)
(* evaluation of its future failed.                                        *)
EventuallyShown == \A e \in Elements : Wanted(e) ~> (e \in rows \/ ~Wanted(e) \/ e \in lost)

=============================================================================
