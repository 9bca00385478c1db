---------------------------- MODULE MCLifecycle ----------------------------
(***************************************************************************)
(* Two callers with a few commands between them, on one source.            *)
(***************************************************************************)
EXTENDS Lifecycle

CONSTANTS c1, c2
TwoCallers == {c1, c2}

=============================================================================
