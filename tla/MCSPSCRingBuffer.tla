-------------------------- MODULE MCSPSCRingBuffer --------------------------
(* SPSCRingBuffer for TLC; all constants are numbers given in the cfg. *)
EXTENDS SPSCRingBuffer
=============================================================================
