----------------------------- MODULE MCChannels -----------------------------
(* Two channel parties and one onlooker, one token, two channels with two
   versions each, two keys: small values of Channels' constants. *)
EXTENDS Channels

CONSTANTS A, B, C, k1, k2

MCParties == {A, B, C}
MCSecrets == {"a", "b"} \X (0 .. MaxVersion)

(* The states of the second channel are signed with another key, so that a party
   that re-keys makes those of the one unusable and those of the other usable. *)
SigningKey(c) == IF c = 1 THEN k1 ELSE k2

(* Two splits of the stake in each version, one of which creates money when
   the two parties locked up a single unit. *)
MCSignedStates ==
  {[channel_id |-> c, version |-> v, balance_a |-> bal[1], balance_b |-> bal[2],
    commit_a |-> <<"a", v>>, commit_b |-> <<"b", v>>,
    key_a |-> SigningKey(c), key_b |-> SigningKey(c)] :
     c \in Ids, v \in 0 .. MaxVersion, bal \in {<<1, 0>>, <<0, 2>>}}
=============================================================================
