----------------------------- MODULE MCAuctions -----------------------------
(* Values of the constants for TLC. *)
EXTENDS Auctions

CONSTANTS S, B

MCUsers == {S, B}
(* Either signer alone, or both. *)
MCPolicies == {[required |-> 2, signers |-> MCUsers], [required |-> 1, signers |-> {B}]}

Vote(u, d, n) == [voter |-> u, decision |-> d, bps |-> n]
MCBallots == {<<Vote(B, "FullRefund", 0)>>, <<Vote(B, "ReleaseToSeller", 0)>>,
              <<Vote(B, "PartialRefund", 10000), Vote(B, "PartialRefund", 1)>>,
              <<Vote(B, "FullRefund", 0), Vote(B, "ReleaseToSeller", 0)>>,
              <<Vote(B, "None", 0)>>}
=============================================================================
