-------------------------- MODULE MCChannelProtocol --------------------------
(* Two versions of one channel.  Both balances of a split stay positive, so a
   step that pays one party the whole channel can only be a punishment. *)
EXTENDS ChannelProtocol

CONSTANTS A, B, ka, kb

MCParties == {A, B}
MCSecrets == Sides \X (0 .. MaxVersion)
MCSplits == {<<1, 2>>, <<2, 1>>}
MCSignedStates == States
=============================================================================
