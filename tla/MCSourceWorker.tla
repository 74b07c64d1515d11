--------------------------- MODULE MCSourceWorker ---------------------------
(* Instances of SourceWorker for TLC. *)
EXTENDS SourceWorker

MCGaps == {0, 1}
=============================================================================
