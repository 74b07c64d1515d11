------------------------ MODULE MCSimulatorLifecycle ------------------------
(* Instances of SimulatorLifecycle for TLC. *)
EXTENDS SimulatorLifecycle

MCSources == {1, 2}
=============================================================================
