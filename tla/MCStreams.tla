------------------------------ MODULE MCStreams ------------------------------
(* Values of the constants for TLC. *)
EXTENDS Streams

CONSTANTS S, R

MCParties == {S, R}
=============================================================================
