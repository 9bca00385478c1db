--------------------------- MODULE MCResultFanout ---------------------------
(* Two reactions on channels of one entry: a channel fills behind a closed *)
(* gate as soon as the query has a second result.                          *)
EXTENDS ResultFanout

=============================================================================
