---------------------------- MODULE MCUsageMeters ----------------------------
(* Values of the constants for TLC. *)
EXTENDS UsageMeters

CONSTANTS S, R, k1, k2

MCParties == {S, R}
Call(i, nonce) == [index |-> i, nonce |-> nonce]

(* A batch of two calls of which the second is made up, one that commits to the
   made-up call only, and one that uses the first call's nonce again. *)
MCRoots == {{Call(0, 0), Call(1, 1)}, {Call(1, 1)}, {Call(2, 0)}}
MCLeaves == UNION MCRoots
MCSigned == {Call(0, 0), Call(2, 0)} \X {k1}
=============================================================================
