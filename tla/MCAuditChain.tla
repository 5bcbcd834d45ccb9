---------------------------- MODULE MCAuditChain ----------------------------
(* The audit chain over model values. *)
EXTENDS AuditChain, TLC

(* The loop and the route do the same; nothing tells them apart. *)
AnchorerSymmetry == Permutations(Anchorers)
=============================================================================
