--------------------------- MODULE MCTemporalQuery ---------------------------
(***************************************************************************)
(* Two elements, whose times for trueLater and trueUntil differ.           *)
(***************************************************************************)
EXTENDS TemporalQuery

CONSTANTS e1, e2
TwoElements == {e1, e2}
Times12 == [e \in TwoElements |-> IF e = e1 THEN 1 ELSE 2]

=============================================================================
