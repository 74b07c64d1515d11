--------------------------- MODULE MCReceiverMix ---------------------------
(* ReceiverMix for TLC; all constants are numbers given in the cfg. *)
EXTENDS ReceiverMix
=============================================================================
