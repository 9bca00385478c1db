----------------------------- MODULE ResultLog -----------------------------
(***************************************************************************)
(* What a continuous query promises the reactions that subscribe to it: a  *)
(* log of results, numbered 1, 2, 3, ... within an epoch.  An epoch is     *)
(* what output_epoch_hash() tells apart (lib/src/queries/output_state.rs): *)
(* within it a number never changes its meaning, and rebuilding the query  *)
(* from scratch begins a higher one.                                       *)
(***************************************************************************)
EXTENDS Integers, Sequences

CONSTANT Results        \* what a result can say

VARIABLES
    epoch,      \* the output generation
    results,    \* results[k]: the result with sequence k of this epoch
    up          \* the query is running and may emit

logVars == <<epoch, results, up>>

LogInit ==
    /\ epoch = 0
    /\ results = <<>>
    /\ up = FALSE

\* A source change was committed that changed the query's result.
Emit ==
    /\ up
    /\ \E r \in Results : results' = Append(results, r)
    /\ UNCHANGED <<epoch, up>>

Open ==
    /\ ~up
    /\ up' = TRUE
    /\ UNCHANGED <<epoch, results>>

Close ==
    /\ up
    /\ up' = FALSE
    /\ UNCHANGED <<epoch, results>>

\* Output and indexes were wiped: numbering starts again, in a higher epoch.
Renew ==
    /\ ~up
    /\ epoch' > epoch
    /\ results' = <<>>
    /\ UNCHANGED up

LogNext == Emit \/ Open \/ Close \/ Renew

LogSpec == LogInit /\ [][LogNext]_logVars

=============================================================================
