-------------------------- MODULE MCPriorityQueue --------------------------
(***************************************************************************)
(* Small instances of the queue: two or three forwarders around a queue of *)
(* one or two slots, so that it fills, empties, and its waiters mix.       *)
(***************************************************************************)
EXTENDS PriorityQueue

Twice == [p \in Producers |-> 2]

BlockingTwice == [p \in Producers |-> IF p \in Blocking THEN 2 ELSE 1]

=============================================================================
