--------------------------- MODULE ChannelEscrow ---------------------------
(***************************************************************************)
(* What the payment-channel contract promises, without keys, signatures,   *)
(* versions, clocks or disputes: the two parties of a channel lock a       *)
(* stake, and the stake is handed back exactly once, whole, and to nobody  *)
(* but those two parties.  Module Channels is shown to implement it.       *)
(***************************************************************************)
EXTENDS Integers

CONSTANTS Parties, Tokens, Ids, None

VARIABLES stage,     \* stage[c] \in {"Idle", "Live", "Settled"}
          stake,     \* stake[c]: parties, token and locked amount
          balances   \* balances[t][p]: what p holds outside the contract

NoStake == [a |-> None, b |-> None, token |-> None, amount |-> 0]

Init == /\ stage = [c \in Ids |-> "Idle"]
        /\ stake = [c \in Ids |-> NoStake]
        /\ balances \in [Tokens -> [Parties -> Nat]]

(* Both parties put their share in; neither can be short of it. *)
Fund(c, a, b, t) ==
  /\ stage[c] = "Idle" /\ stage' = [stage EXCEPT ![c] = "Live"]
  /\ a # b
  /\ \E x \in 0 .. balances[t][a], y \in 0 .. balances[t][b] :
       /\ x + y > 0
       /\ stake' = [stake EXCEPT ![c] =
                      [a |-> a, b |-> b, token |-> t, amount |-> x + y]]
       /\ balances' = [balances EXCEPT ![t][a] = @ - x, ![t][b] = @ - y]

(* The stake is split between the two parties, all of it. *)
Settle(c) ==
  /\ stage[c] = "Live" /\ stage' = [stage EXCEPT ![c] = "Settled"]
  /\ UNCHANGED stake
  /\ \E x \in 0 .. stake[c].amount :
       balances' = [balances EXCEPT
         ![stake[c].token][stake[c].a] = @ + x,
         ![stake[c].token][stake[c].b] = @ + (stake[c].amount - x)]

Next == \E c \in Ids : \/ \E a, b \in Parties, t \in Tokens : Fund(c, a, b, t)
                       \/ Settle(c)

vars == <<stage, stake, balances>>

Spec == Init /\ [][Next]_vars
=============================================================================
