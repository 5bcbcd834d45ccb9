---------------------------- MODULE MCSettlement ----------------------------
(* Values of the constants for TLC. *)
EXTENDS Settlement

CONSTANTS B, R

MCParties == {B, R}
=============================================================================
