---------------------------- MODULE MCPairBuffer ----------------------------
(* Instances of PairBuffer for TLC. *)
EXTENDS PairBuffer

MCEchoTaps == <<0, 2>>    \* a direct path and an echo
MCGaps     == {0, 1}
=============================================================================
