-------------------------- MODULE MCModemIOSession --------------------------
(* Instances of ModemIOSession for TLC. *)
EXTENDS ModemIOSession
=============================================================================
