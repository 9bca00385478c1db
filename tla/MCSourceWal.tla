---------------------------- MODULE MCSourceWal ----------------------------
(***************************************************************************)
(* Two queries on one logged source, one that starts from the log and one  *)
(* that starts from the live stream, and a log of two changes.             *)
(***************************************************************************)
EXTENDS SourceWal

BothPolicies == {"RejectIncoming", "OverwriteOldest"}

=============================================================================
