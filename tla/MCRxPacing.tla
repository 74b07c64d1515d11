----------------------------- MODULE MCRxPacing -----------------------------
(* Instances of RxPacing for TLC. *)
EXTENDS RxPacing

MCRates == {4, 5}
MCEntryFills == {0, 14}
=============================================================================
