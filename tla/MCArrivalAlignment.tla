------------------------- MODULE MCArrivalAlignment -------------------------
(* ArrivalAlignment for TLC; all constants are numbers given in the cfg. *)
EXTENDS ArrivalAlignment
=============================================================================
