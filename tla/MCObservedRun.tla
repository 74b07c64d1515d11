---------------------------- MODULE MCObservedRun ---------------------------
(* Instances of ObservedRun for TLC. *)
EXTENDS ObservedRun

MCSources == {1, 2}
First2 == <<1, 0>>
Both2 == <<1, 1>>
=============================================================================
