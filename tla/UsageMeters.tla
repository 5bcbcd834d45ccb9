----------------------------- MODULE UsageMeters -----------------------------
(***************************************************************************)
(* Per-call billing beside the time streams of module Streams              *)
(* (contract/contracts/micropayments/src/attestation.rs).  A buyer escrows *)
(* an allowance for a stream, the seller records batches of attested calls *)
(* and the buyer is charged for their number, the buyer may have a         *)
(* suffix of a batch voided while its challenge window is open, and the    *)
(* seller claims what stands once the window has closed.                   *)
(*                                                                         *)
(* A Merkle root is the set of leaves it commits to, and having a proof is *)
(* membership.  A leaf is hashed without its signature, which the root so  *)
(* does not fix: a signature is what a challenger passes in, and stands    *)
(* for the key it verifies under, None when there is no such key.          *)
(***************************************************************************)
EXTENDS Streams

CONSTANTS Keys,       \* attestation keys
          Leaves,     \* attestations as they are hashed: [index, nonce]
          Signed,     \* the signatures sellers have made: <<leaf, key>>
          Roots,      \* the roots that get recorded
          Prices,     \* prices per call that get used
          Allowances, \* amounts that meters get funded with
          MaxBatches, \* bound: batches of a stream
          MaxCalls,   \* bound: calls of a batch
          MaxCharge,  \* bound: money that goes through a meter
          ChallengeWindow  \* CHALLENGE_WINDOW_SECS

BatchIds == 1 .. MaxBatches

(* UsageMeter, with the price that the first funding fixed. *)
Meters == [price : Prices, escrowed : 0 .. MaxCharge, charged : 0 .. MaxCharge,
           claimed : 0 .. MaxCharge, next : Nat, count : 0 .. MaxBatches]

(* UsageBatch; "key" is history, the key it was recorded under. *)
Batches == [root : Roots, calls : 1 .. MaxCalls, first : Nat, charged : Nat,
            voided : 0 .. MaxCalls, refunded : Nat, recorded_at : Nat,
            status : {"Recorded", "Challenged", "Voided", "Claimed"}, key : Keys]

ASSUME MeterAssumptions ==
  /\ None \notin Keys /\ None \notin Meters /\ None \notin Batches
  /\ \A l \in Leaves : l.index \in Nat
  /\ Signed \subseteq Leaves \X Keys
  /\ Roots \subseteq SUBSET Leaves
  /\ Prices \subseteq Nat \ {0} /\ Allowances \subseteq Nat \ {0}
  /\ MaxBatches \in Nat /\ MaxCalls \in Nat /\ MaxCharge \in Nat
  /\ ChallengeWindow \in Nat

VARIABLES sellerKey, \* SellerKey
          meter,     \* Meter: stream -> UsageMeter
          batch      \* Batch: stream, batch id -> UsageBatch

meterVars == <<sellerKey, meter, batch>>
metersVars == <<meterVars, streamsVars>>
restOfStreams == <<streamVars, settlements, usage, now, active>>

MetersInit == /\ StreamsInit
              /\ sellerKey = [p \in Parties |-> None]
              /\ meter = [i \in Ids |-> None]
              /\ batch = [i \in Ids |-> [b \in BatchIds |-> None]]

RegisterAttestationKey(p, k) ==
  /\ sellerKey' = [sellerKey EXCEPT ![p] = k]
  /\ UNCHANGED <<meter, batch, streamsVars>>

(* The first funding fixes the price.  Bound: MaxCharge. *)
FundUsageMeter(i, price, x) ==
  LET m == IF meter[i] # None THEN meter[i]
           ELSE [price |-> price, escrowed |-> 0, charged |-> 0, claimed |-> 0,
                 next |-> 0, count |-> 0]
  IN /\ status[i] \in {"Active", "Paused"}
     /\ m.price = price
     /\ m.escrowed + m.charged + m.claimed + x <= MaxCharge
     /\ Deposit(terms[i].sender, terms[i].token, x)
     /\ meter' = [meter EXCEPT ![i] = [m EXCEPT !.escrowed = @ + x]]
     /\ UNCHANGED <<sellerKey, batch, restOfStreams>>

WithdrawUsageEscrow(i, x) ==
  /\ meter[i] # None
  /\ meter[i].escrowed >= x
  /\ meter' = [meter EXCEPT ![i].escrowed = @ - x]
  /\ Transfer(terms[i].sender, terms[i].token, x)
  /\ UNCHANGED <<sellerKey, batch, restOfStreams>>

(* Mutant of RecordUsageBatch: the next batch starts one call later. *)
MutRecordOverlaps(i, root, calls) ==
  /\ status[i] = "Active"
  /\ now + ChallengeWindow <= MaxTime
  /\ sellerKey[terms[i].recipient] # None
  /\ meter[i] # None
  /\ meter[i].count < MaxBatches
  /\ LET charge == calls * meter[i].price
         b == meter[i].count + 1
     IN /\ meter[i].escrowed >= charge
        /\ meter' = [meter EXCEPT ![i] =
             [meter[i] EXCEPT !.escrowed = @ - charge, !.charged = @ + charge,
                              !.count = b, !.next = @ + 1]]
        /\ batch' = [batch EXCEPT ![i][b] =
             [root |-> root, calls |-> calls, first |-> meter[i].next,
              charged |-> charge, voided |-> 0, refunded |-> 0,
              recorded_at |-> now, status |-> "Recorded",
              key |-> sellerKey[terms[i].recipient]]]
  /\ UNCHANGED <<sellerKey, escrow, wallet, restOfStreams>>

(* The seller's signature over the batch verifies; the leaves are whatever it
   chose to commit to.  Bound: the window closes before MaxTime. *)
RecordUsageBatch(i, root, calls) ==
  /\ status[i] = "Active"
  /\ now + ChallengeWindow <= MaxTime
  /\ sellerKey[terms[i].recipient] # None
  /\ meter[i] # None
  /\ meter[i].count < MaxBatches
  /\ LET charge == calls * meter[i].price
         b == meter[i].count + 1
     IN /\ meter[i].escrowed >= charge
        /\ meter' = [meter EXCEPT ![i] =
             [meter[i] EXCEPT !.escrowed = @ - charge, !.charged = @ + charge,
                              !.count = b, !.next = @ + calls]]
        /\ batch' = [batch EXCEPT ![i][b] =
             [root |-> root, calls |-> calls, first |-> meter[i].next,
              charged |-> charge, voided |-> 0, refunded |-> 0,
              recorded_at |-> now, status |-> "Recorded",
              key |-> sellerKey[terms[i].recipient]]]
  /\ UNCHANGED <<sellerKey, escrow, wallet, restOfStreams>>

(* Mutant of ClaimUsageBatch: the claim is not saved with the batch. *)
MutClaimUnsaved(i, b) ==
  LET c == batch[i][b]
      payable == c.charged - c.refunded
  IN /\ c # None
     /\ c.status # "Claimed"
     /\ now >= c.recorded_at + ChallengeWindow
     /\ meter[i].charged >= payable
     /\ meter' = [meter EXCEPT ![i] = [meter[i] EXCEPT !.charged = @ - payable,
                                                       !.claimed = @ + payable]]
     /\ Transfer(terms[i].recipient, terms[i].token, payable)
     /\ UNCHANGED <<sellerKey, batch, restOfStreams>>

(* Mutant of ClaimUsageBatch: the refunds are subtracted from the columns only. *)
MutClaimPaysCharged(i, b) ==
  LET c == batch[i][b]
      payable == c.charged - c.refunded
  IN /\ c # None
     /\ c.status # "Claimed"
     /\ now >= c.recorded_at + ChallengeWindow
     /\ batch' = [batch EXCEPT ![i][b].status = "Claimed"]
     /\ meter' = [meter EXCEPT ![i] = [meter[i] EXCEPT !.charged = @ - payable,
                                                       !.claimed = @ + payable]]
     /\ Transfer(terms[i].recipient, terms[i].token, c.charged)
     /\ UNCHANGED <<sellerKey, restOfStreams>>

ClaimUsageBatch(i, b) ==
  LET c == batch[i][b]
      payable == c.charged - c.refunded
  IN /\ c # None
     /\ c.status # "Claimed"
     /\ now >= c.recorded_at + ChallengeWindow
     /\ batch' = [batch EXCEPT ![i][b].status = "Claimed"]
     /\ meter' = [meter EXCEPT ![i] = [meter[i] EXCEPT !.charged = @ - payable,
                                                       !.claimed = @ + payable]]
     /\ Transfer(terms[i].recipient, terms[i].token, payable)
     /\ UNCHANGED <<sellerKey, restOfStreams>>

-----------------------------------------------------------------------------
(* Challenges. *)
(* Mutant of Disputable: a batch may be challenged until it is claimed. *)
MutDisputableUnclaimed(i, b) == batch[i][b] # None /\ batch[i][b].status # "Claimed"

Disputable(i, b) == /\ batch[i][b] # None
                    /\ batch[i][b].status # "Claimed"
                    /\ now < batch[i][b].recorded_at + ChallengeWindow

(* Mutant of VoidSuffix: each challenge refunds its whole suffix. *)
MutVoidSuffixTwice(i, b, position) ==
  LET c == batch[i][b]
      voids == c.calls - position
      refund == voids * meter[i].price
  IN /\ voids > c.voided
     /\ meter' = [meter EXCEPT ![i] = [meter[i] EXCEPT !.charged = @ - refund,
                                                       !.escrowed = @ + refund]]
     /\ batch' = [batch EXCEPT ![i][b] =
          [c EXCEPT !.voided = voids, !.refunded = @ + refund,
                    !.status = IF voids = c.calls THEN "Voided" ELSE "Challenged"]]

(* The calls from position on are refunded, but for those that are already. *)
VoidSuffix(i, b, position) ==
  LET c == batch[i][b]
      voids == c.calls - position
      refund == (voids - c.voided) * meter[i].price
  IN /\ voids > c.voided
     /\ meter' = [meter EXCEPT ![i] = [meter[i] EXCEPT !.charged = @ - refund,
                                                       !.escrowed = @ + refund]]
     /\ batch' = [batch EXCEPT ![i][b] =
          [c EXCEPT !.voided = voids, !.refunded = @ + refund,
                    !.status = IF voids = c.calls THEN "Voided" ELSE "Challenged"]]

(* position_in_batch, for a leaf it accepts. *)
VoidFrom(i, b, leaf) ==
  /\ leaf.index - batch[i][b].first \in 0 .. batch[i][b].calls - 1
  /\ VoidSuffix(i, b, leaf.index - batch[i][b].first)
  /\ UNCHANGED <<sellerKey, escrow, wallet, restOfStreams>>

(* The signature passed in with a committed leaf does not verify under the key
   the seller has now.  It need not be the one the seller made. *)
ChallengeUsageBatch(i, b, leaf, signature) ==
  /\ Disputable(i, b)
  /\ leaf \in batch[i][b].root
  /\ signature # sellerKey[terms[i].recipient]
  /\ VoidFrom(i, b, leaf)

(* A challenger has what the sellers have signed, and bytes that nobody has. *)
Passable(leaf) == {None} \cup {k \in Keys : <<leaf, k>> \in Signed}

(* The leaf uses the nonce of an earlier call again. *)
Replays(leaf, original) == /\ leaf.nonce = original.nonce
                           /\ original.index < leaf.index

ChallengeNonceReplay(i, ob, original, b, leaf) ==
  /\ batch[i][ob] # None
  /\ original \in batch[i][ob].root
  /\ Disputable(i, b)
  /\ leaf \in batch[i][b].root
  /\ Replays(leaf, original)
  /\ VoidFrom(i, b, leaf)

-----------------------------------------------------------------------------
MetersNext ==
  \/ StreamsNext /\ UNCHANGED meterVars
  \/ \E p \in Recipients, k \in Keys : RegisterAttestationKey(p, k)
  \/ \E i \in Ids :
       \/ \E price \in Prices, x \in Allowances : FundUsageMeter(i, price, x)
       \/ \E x \in 1 .. MaxCharge : WithdrawUsageEscrow(i, x)
       \/ \E root \in Roots, calls \in 1 .. MaxCalls : RecordUsageBatch(i, root, calls)
       \/ \E b \in BatchIds :
            \/ ClaimUsageBatch(i, b)
            \/ \E leaf \in Leaves :
                 \/ \E signature \in Passable(leaf) :
                      ChallengeUsageBatch(i, b, leaf, signature)
                 \/ \E ob \in BatchIds, original \in Leaves :
                      ChallengeNonceReplay(i, ob, original, b, leaf)

MetersSpec == MetersInit /\ [][MetersNext]_metersVars

(* Ledgers keep closing, and a seller claims what it may. *)
MetersFairness == /\ WF_metersVars(Second /\ UNCHANGED meterVars)
                  /\ \A i \in Ids, b \in BatchIds : WF_metersVars(ClaimUsageBatch(i, b))
MetersFairSpec == MetersSpec /\ MetersFairness

-----------------------------------------------------------------------------
Recorded(i) == {b \in BatchIds : batch[i][b] # None}

(* Keys and records have their types; the batches of a stream are numbered from
   1 and cover its calls without a gap; no column of a meter is negative. *)
MetersTypeOK ==
  /\ StreamsTypeOK
  /\ sellerKey \in [Parties -> Keys \cup {None}]
  /\ \A i \in Ids :
       /\ meter[i] # None =>
            /\ {meter[i].escrowed, meter[i].charged, meter[i].claimed}
                 \subseteq 0 .. MaxCharge
            /\ Recorded(i) = 1 .. meter[i].count
       /\ \A b \in Recorded(i) :
            /\ batch[i][b].voided \in 0 .. batch[i][b].calls
            /\ batch[i][b].status \in {"Recorded", "Challenged", "Voided", "Claimed"}
            /\ batch[i][b].first + batch[i][b].calls =
                 IF b + 1 \in Recorded(i) THEN batch[i][b + 1].first ELSE meter[i].next

(* The units of token t held for the meters, allowance and charges alike. *)
HeldForMeters(t) == {u \in Ids \X (1 .. MaxCharge) :
                       /\ meter[u[1]] # None
                       /\ terms[u[1]].token = t
                       /\ u[2] <= meter[u[1]].escrowed + meter[u[1]].charged}

(* Streams, usage streams and meters are paid from the same balance of the
   contract, and it is exactly what the three are owed: whatever is billed
   twice over, voided, claimed, cancelled or withdrawn, and in whatever order,
   none is paid out of another's money. *)
PoolBackedWithMeters ==
  \A t \in Tokens :
    escrow[t] = Cardinality(HeldFor(t)) + Cardinality(HeldForUsage(t))
                + Cardinality(HeldForMeters(t))

(* The calls of the batches in B that stand. *)
Standing(i, B) == {u \in B \X (1 .. MaxCalls) :
                     u[2] <= batch[i][u[1]].calls - batch[i][u[1]].voided}

(* The seller's columns add up from its batches: what is charged is the calls
   that still stand in unclaimed batches, what was claimed is the calls that
   stand in claimed ones.  No call is both refunded and paid for, whatever
   challenges overlap. *)
ChargesAreStandingCalls ==
  \A i \in Ids : meter[i] # None =>
    LET claimed == {b \in Recorded(i) : batch[i][b].status = "Claimed"}
    IN /\ meter[i].charged =
            meter[i].price * Cardinality(Standing(i, Recorded(i) \ claimed))
       /\ meter[i].claimed = meter[i].price * Cardinality(Standing(i, claimed))

(* What a batch was recorded with is final, and so is what stands of it when its
   window closes: whoever challenges, re-keys or claims, voids only grow, only
   in the window and before the claim, and they start at a committed call. *)
StandingIsFinal ==
  [][\A i \in Ids : \A b \in Recorded(i) :
       LET c == batch[i][b]
           v == batch'[i][b].voided
       IN /\ \A field \in {"root", "calls", "first", "charged", "recorded_at", "key"} :
               batch'[i][b][field] = c[field]
          /\ c.status = "Claimed" => batch'[i][b] = c
          /\ v # c.voided => /\ v > c.voided
                             /\ now < c.recorded_at + ChallengeWindow
                             /\ \E leaf \in c.root : leaf.index - c.first = c.calls - v]_metersVars

(* A batch never stays in limbo: its window closes and what stands is paid. *)
BatchIsPaidOut ==
  \A i \in Ids, b \in BatchIds :
    b \in Recorded(i) ~> (b \in Recorded(i) /\ batch[i][b].status = "Claimed")

(* challenge_usage_batch's promise, "Did the seller sign it? If they did, the
   batch stands", and register_attestation_key's, that "a seller re-keying
   invalidates only their own future batches": whatever key the seller has now,
   and whatever signature is passed in, nothing is voided from a call that was
   signed with the key its batch was recorded under. *)
AttestedCallsStand ==
  [][\A i \in Ids, leaf \in Leaves : \A b \in Recorded(i), signature \in Passable(leaf) :
       <<leaf, batch[i][b].key>> \in Signed =>
         ~ ChallengeUsageBatch(i, b, leaf, signature)]_metersVars
=============================================================================
