---------------------------- MODULE MCCdcSource ----------------------------
(***************************************************************************)
(* Two queries on one slot and two transactions, the first of two changes, *)
(* so that a query can stop inside a transaction.                          *)
(***************************************************************************)
EXTENDS CdcSource, TLC

CONSTANTS q1, q2
TwoQueries == {q1, q2}
Interchangeable == Permutations(TwoQueries)
TwoTxns == <<1, 1, 2>>
OneTxn == <<1, 1>>
Singles == <<1, 2>>

=============================================================================
