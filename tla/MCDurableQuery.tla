--------------------------- MODULE MCDurableQuery ---------------------------
(***************************************************************************)
(* DurableQuery for TLC: sets of configurations to start from.  A provider *)
(* counts only for a query that bootstraps.                                *)
(***************************************************************************)
EXTENDS DurableQuery

Distinct == {c \in Config : c.provider => c.bootstrap}

Rebuilding == {c \in Distinct : c.policy = "AutoReset" /\ c.wal}

Snapshotting == {c \in Distinct : c.policy = "AutoReset" /\ c.provider}

Streaming == {c \in Rebuilding : ~c.bootstrap}

NoWal == {c \in Snapshotting : ~c.wal}

=============================================================================
