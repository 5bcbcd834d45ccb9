--------------------------- MODULE MCAgentRegistry ---------------------------
(* Values of the constants for TLC. *)
EXTENDS AgentRegistry

CONSTANTS A, V

MCUsers == {A, V}

(* Half of the stake, two ledgers to vote, and half of a score in two ledgers. *)
MCDefault == [slash |-> 5000, window |-> 2, quorum |-> 1, decay |-> 5000, period |-> 2]
MCConfigs == {[slash |-> 10000, window |-> 1, quorum |-> 2, decay |-> 10000, period |-> 0]}
=============================================================================
