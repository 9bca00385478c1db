------------------------- MODULE MCReactionRecovery -------------------------
(***************************************************************************)
(* ReactionRecovery for TLC: sets of configurations to start from.  A      *)
(* result is its epoch and its number: what it says does not matter, so    *)
(* Results has one element.                                                *)
(***************************************************************************)
EXTENDS ReactionRecovery

Refusing == {c \in Config : c.policy = "Strict" /\ ~c.snapshot /\ ~c.broadcast}

Overwriting == {c \in Config : c.policy = "Strict" /\ ~c.snapshot /\ c.broadcast}

Resetting == {c \in Config : c.policy = "AutoReset"}

Unbuffered == {c \in Resetting : ~c.broadcast}

=============================================================================
