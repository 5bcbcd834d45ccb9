----------------------------- MODULE MarketProofs -----------------------------
(***************************************************************************)
(* Theorems about the marketplace contract with its auctions, for every    *)
(* value of the constants, and about the market's arithmetic: base fees,   *)
(* capacity windows and the order of service.                              *)
(*                                                                         *)
(* First the records: each invariant names the few variables it is about,  *)
(* so that a step has to be looked at only where it changes one of them.   *)
(* Then the auctions: the reveals are ranked, and the outcome follows from *)
(* there being a reveal of each rank.  Last the money, whose terms are     *)
(* sums over escrows and bids; that settling pays out what was bid rests   *)
(* on the outcome.                                                         *)
(***************************************************************************)
EXTENDS Auctions, CapacityMarket, SumLemmas, TLAPS

AssetRecords ==
  [owner : Users \cup {None}, kind : Kinds \cup {"None"}, price : Prices \cup {0},
   active : BOOLEAN]
EscrowRecords ==
  [buyer : Users \cup {None}, seller : Users \cup {None}, token : Tokens \cup {None},
   amount : Prices \cup {0}, until : 0 .. MaxTime + Hold,
   status : Live \cup {"None", "Released", "Resolved"}]
DisputeRecords == [license : LicenseIds \cup {0}, status : {"None", "Open", "Resolved"}]
ProposalRecords ==
  [org : Users \cup {None}, asset : AssetIds \cup {0}, token : Tokens \cup {None},
   status : {"None", "Pending", "Approved", "Rejected", "Expired"},
   approved : SUBSET Users]

(* An asset that is active has an owner. *)
AssetsInv ==
  /\ listed \in 0 .. MaxAssets /\ resets \in 0 .. MaxResets
  /\ asset \in [AssetIds -> AssetRecords]
  /\ \A a \in AssetIds : asset[a].active => asset[a].owner \in Users

(* An escrow that was made has two parties and a token. *)
EscrowOK(i) ==
  escrow[i].status # "None" =>
    escrow[i].buyer \in Users /\ escrow[i].seller \in Users /\ escrow[i].token \in Tokens
PurchaseTypes ==
  /\ licensed \in 0 .. MaxLicenses
  /\ escrow \in [LicenseIds -> EscrowRecords]
  /\ license \in [Users -> [AssetIds -> Licences]]
PurchasesInv == PurchaseTypes /\ \A i \in LicenseIds : EscrowOK(i)

(* A dispute is about an escrow, which may be another by now. *)
DisputeOK(d) ==
  dispute[d].status # "None" =>
    dispute[d].license \in LicenseIds /\ escrow[dispute[d].license].status # "None"
DisputeTypes ==
  /\ disputed \in 0 .. MaxDisputes /\ arbiters \subseteq Users
  /\ dispute \in [DisputeIds -> DisputeRecords]
DisputesInv == DisputeTypes /\ \A d \in DisputeIds : DisputeOK(d)

(* The proposals are the first of the list; one that is pending has an
   organisation, an asset and a token. *)
ProposalOK(p) ==
  /\ p > proposed => proposal[p].status = "None"
  /\ proposal[p].status \in {"Pending", "Approved"} =>
       /\ proposal[p].org \in Users /\ proposal[p].asset \in AssetIds
       /\ proposal[p].token \in Tokens
ProposalTypes ==
  /\ proposed \in 0 .. MaxProposals
  /\ policy \in [Users -> Policies \cup {NoPolicy}]
  /\ proposal \in [ProposalIds -> ProposalRecords]
ProposalsInv == ProposalTypes /\ \A p \in ProposalIds : ProposalOK(p)

(* An escrow and its dispute agree, and there is one at most. *)
FreezeOK(i) ==
  /\ escrow[i].status = "Disputed" =>
       \E d \in DisputeIds : dispute[d].license = i /\ dispute[d].status = "Open"
  /\ escrow[i].status = "Resolved" =>
       \E d \in DisputeIds : dispute[d].license = i /\ dispute[d].status = "Resolved"
  /\ \A d \in DisputeIds : dispute[d].license = i =>
       \/ escrow[i].status = "Disputed" /\ dispute[d].status = "Open"
       \/ escrow[i].status = "Resolved" /\ dispute[d].status = "Resolved"
  /\ \A d \in DisputeIds, e \in DisputeIds :
       dispute[d].license = i /\ dispute[e].license = i => d = e

(* As long as the counts only rise, the records are the first of their lists, so
   that none is overwritten, and escrows and disputes agree. *)
FreshOK ==
  /\ \A i \in LicenseIds : i > licensed => escrow[i].status = "None"
  /\ \A d \in DisputeIds : d > disputed => dispute[d] = NoDispute
  /\ \A i \in LicenseIds : FreezeOK(i)
FreezeInv == resets = 0 => FreshOK

(* What is bought through a proposal is bought by the approval that completes it. *)
BuysOK(p) ==
  bought[p] = IF proposal[p].status = "Approved" THEN <<proposal[p].org>> ELSE <<>>
BuysInv ==
  /\ bought \in [ProposalIds -> Seq(Users)]
  /\ \A p \in ProposalIds : BuysOK(p)

RecordsInv == AssetsInv /\ PurchasesInv /\ DisputesInv /\ ProposalsInv /\ FreezeInv /\ BuysInv

-----------------------------------------------------------------------------
(* Which steps change the records. *)

(* What subscribing and renewing have in common. *)
SubscriptionStep ==
  \E b \in Users, a \in AssetIds, t \in Tokens, n \in Nat :
    /\ Subscription(b, a, t, n)
    /\ licensed' = licensed \/ (licensed < MaxLicenses /\ licensed' = licensed + 1)

(* All but these leave purchases, disputes and proposals as they are. *)
RecordStep ==
  \/ Initialize \/ SubscriptionStep
  \/ \E b \in Users, a \in AssetIds, t \in Tokens : PurchaseLicense(b, a, t)
  \/ \E i \in LicenseIds : ReleaseEscrow(i) \/ RaisePurchaseDispute(i)
  \/ \E u \in Committee : RegisterArbitrator(u)
  \/ \E d \in DisputeIds, votes \in Ballots : ResolvePurchaseDispute(d, votes)
  \/ \E u \in Orgs, p \in Policies : CreateApprovalPolicy(u, p)
  \/ \E u \in Orgs, a \in AssetIds, t \in Tokens : ProposePurchase(u, a, t)
  \/ \E s \in Users, p \in ProposalIds : ApprovePurchase(s, p) \/ RejectPurchase(s, p)
  \/ \E ids \in SUBSET ProposalIds : ExpireStaleProposals(ids)

(* The auctions have only the balances in common with the rest. *)
LEMMA AuctionFrame ==
  ASSUME AuctionStep
  PROVE  UNCHANGED <<assetVars, purchaseVars, disputeVars, proposalVars, kept, now>>
<1>1. ASSUME NEW a \in AssetIds, NEW c \in Capacities, NEW m \in Reserves, NEW d \in Durations,
             OpenAuction(a, c, m, d)
      PROVE  UNCHANGED <<assetVars, purchaseVars, disputeVars, proposalVars, kept, now>>
  BY <1>1 DEF OpenAuction, marketVars, money
<1>2. ASSUME NEW x \in AuctionIds, BeginReveal(x) \/ SettleAuction(x)
      PROVE  UNCHANGED <<assetVars, purchaseVars, disputeVars, proposalVars, kept, now>>
  BY <1>2 DEF BeginReveal, SettleAuction, marketVars, money
<1>3. ASSUME NEW x \in AuctionIds, NEW u \in Users, NEW n \in Bids, CommitBid(u, x, n)
      PROVE  UNCHANGED <<assetVars, purchaseVars, disputeVars, proposalVars, kept, now>>
  BY <1>3 DEF CommitBid, marketVars, money
<1>4. ASSUME NEW x \in AuctionIds, NEW u \in Users, NEW t \in Tokens, RevealBid(u, x, t)
      PROVE  UNCHANGED <<assetVars, purchaseVars, disputeVars, proposalVars, kept, now>>
  BY <1>4 DEF RevealBid
<1> QED
  BY <1>1, <1>2, <1>3, <1>4 DEF AuctionStep

(* Subscribing and renewing are such steps: a price by a number of months, or
   less. *)
LEMMA SubscriptionSteps ==
  ASSUME AssetsInv, NEW b \in Users, NEW a \in AssetIds, NEW t \in Tokens, NEW m \in Periods,
         Subscribe(b, a, t, m) \/ RenewLicense(b, a, t, m) \/ RenewWithProration(b, a, t, m)
  PROVE  SubscriptionStep
<1> DEFINE cost == asset[a].price * m
<1>1. asset[a].price \in Nat /\ m \in Nat
  <2>1. asset[a].price \in Prices \cup {0}
    BY DEF AssetsInv, AssetRecords
  <2>2. \A x \in Prices \cup Periods \cup {0} : x \in Nat
    BY MarketplaceAssumptions
  <2> QED
    BY <2>1, <2>2
<1>2. cost \in Nat
  <2>1. \A x, y \in Nat : x * y \in Nat
    OBVIOUS
  <2> QED
    BY <1>1, <2>1
<1>3. CASE Subscribe(b, a, t, m)
  BY <1>2, <1>3 DEF Subscribe, SubscriptionStep
<1>4. CASE RenewLicense(b, a, t, m)
  BY <1>2, <1>4 DEF RenewLicense, SubscriptionStep
<1>5. CASE RenewWithProration(b, a, t, m)
  <2>1. PICK n \in 0 .. cost : Subscription(b, a, t, n)
    BY <1>5 DEF RenewWithProration
  <2>2. n \in Nat
    BY <1>2, <2>1
  <2>3. licensed' = licensed
    BY <1>5 DEF RenewWithProration
  <2> QED
    BY <2>1, <2>2, <2>3 DEF SubscriptionStep
<1> QED
  BY <1>3, <1>4, <1>5

(* Any step is one of those, or is about assets, auctions or time only. *)
LEMMA RecordSteps ==
  ASSUME AssetsInv, [AuctionsNext]_auctionVars
  PROVE  RecordStep \/ UNCHANGED <<purchaseVars, disputeVars, proposalVars>>
<1>1. CASE MarketNext
  <2>1. ASSUME NEW u \in Sellers, NEW k \in Kinds, NEW x \in Prices, ListAsset(u, k, x)
        PROVE  UNCHANGED <<purchaseVars, disputeVars, proposalVars>>
    BY <2>1 DEF ListAsset
  <2>2. ASSUME NEW a \in AssetIds, DelistAsset(a) \/ \E x \in Prices : UpdatePrice(a, x)
        PROVE  UNCHANGED <<purchaseVars, disputeVars, proposalVars>>
    BY <2>2 DEF DelistAsset, UpdatePrice
  <2>3. ASSUME NEW b \in Users, NEW a \in AssetIds, NEW t \in Tokens, NEW m \in Periods,
               Subscribe(b, a, t, m) \/ RenewLicense(b, a, t, m) \/ RenewWithProration(b, a, t, m)
        PROVE  SubscriptionStep
    BY <2>3, SubscriptionSteps
  <2> QED
    BY <1>1, <2>1, <2>2, <2>3 DEF MarketNext, RecordStep
<1>2. CASE AuctionStep
  BY <1>2, AuctionFrame
<1>3. CASE LedgerCloses
  BY <1>3 DEF LedgerCloses
<1>4. CASE UNCHANGED auctionVars
  BY <1>4 DEF auctionVars, marketVars
<1> QED
  BY <1>1, <1>2, <1>3, <1>4 DEF AuctionsNext

(* Every step keeps the assets, and none but Initialize begins anew. *)
LEMMA AssetsNext ==
  ASSUME AssetsInv, [AuctionsNext]_auctionVars
  PROVE  AssetsInv' /\ (resets' = resets \/ (resets' = resets + 1 /\ Initialize))
<1> DEFINE Goal == AssetsInv' /\ (resets' = resets \/ (resets' = resets + 1 /\ Initialize))
<1>1. CASE UNCHANGED assetVars
  BY <1>1 DEF AssetsInv, assetVars
<1>2. CASE MarketNext
  <2>0. ASSUME Initialize
        PROVE  Goal
    <3>1. resets + 1 \in 0 .. MaxResets /\ 0 \in 0 .. MaxAssets
      BY <2>0, MarketplaceAssumptions DEF Initialize, AssetsInv
    <3> QED
      BY <2>0, <3>1 DEF Initialize, AssetsInv
  <2>1. ASSUME NEW u \in Sellers, NEW k \in Kinds, NEW x \in Prices, ListAsset(u, k, x)
        PROVE  Goal
    <3>1. u \in Users /\ listed + 1 \in AssetIds /\ listed' \in 0 .. MaxAssets
      BY <2>1, MarketplaceAssumptions DEF ListAsset, AssetsInv, AssetIds
    <3> QED
      BY <2>1, <3>1 DEF ListAsset, AssetsInv, AssetRecords
  <2>2. ASSUME NEW a \in AssetIds, DelistAsset(a)
        PROVE  Goal
    BY <2>2 DEF DelistAsset, AssetsInv, AssetRecords
  <2>3. ASSUME NEW a \in AssetIds, NEW x \in Prices, UpdatePrice(a, x)
        PROVE  Goal
    BY <2>3 DEF UpdatePrice, AssetsInv, AssetRecords
  <2>4. ASSUME NEW b \in Users, NEW a \in AssetIds, NEW t \in Tokens,
               \/ PurchaseLicense(b, a, t)
               \/ \E m \in Periods : \/ Subscribe(b, a, t, m) \/ RenewLicense(b, a, t, m)
                                     \/ RenewWithProration(b, a, t, m)
        PROVE  UNCHANGED assetVars
    BY <2>4 DEF PurchaseLicense, Purchase, Subscribe, RenewLicense, RenewWithProration, Subscription
  <2>5. ASSUME NEW u \in Orgs, NEW a \in AssetIds, NEW t \in Tokens, ProposePurchase(u, a, t)
        PROVE  UNCHANGED assetVars
    BY <2>5 DEF ProposePurchase
  <2>6. ASSUME NEW i \in LicenseIds, ReleaseEscrow(i) \/ RaisePurchaseDispute(i)
        PROVE  UNCHANGED assetVars
    BY <2>6 DEF ReleaseEscrow, RaisePurchaseDispute
  <2>7. ASSUME NEW u \in Committee, RegisterArbitrator(u)
        PROVE  UNCHANGED assetVars
    BY <2>7 DEF RegisterArbitrator
  <2>8. ASSUME NEW u \in Orgs, NEW p \in Policies, CreateApprovalPolicy(u, p)
        PROVE  UNCHANGED assetVars
    BY <2>8 DEF CreateApprovalPolicy
  <2>9. ASSUME NEW d \in DisputeIds, NEW votes \in Ballots, ResolvePurchaseDispute(d, votes)
        PROVE  UNCHANGED assetVars
    BY <2>9 DEF ResolvePurchaseDispute
  <2>10. ASSUME NEW s \in Users, NEW p \in ProposalIds, ApprovePurchase(s, p) \/ RejectPurchase(s, p)
         PROVE  UNCHANGED assetVars
    BY <2>10 DEF ApprovePurchase, Purchase, RejectPurchase
  <2>11. ASSUME NEW ids \in SUBSET ProposalIds, ExpireStaleProposals(ids)
         PROVE  UNCHANGED assetVars
    BY <2>11 DEF ExpireStaleProposals
  <2> HIDE DEF Goal
  <2>12. UNCHANGED assetVars => Goal
    BY <1>1 DEF Goal
  <2>13. Goal
    BY <1>2, <2>0, <2>1, <2>2, <2>3, <2>4, <2>5, <2>6, <2>7, <2>8, <2>9, <2>10, <2>11, <2>12
    DEF MarketNext
  <2> QED
    BY <2>13 DEF Goal
<1>3. CASE AuctionStep
  BY <1>1, <1>3, AuctionFrame
<1>4. CASE LedgerCloses \/ UNCHANGED auctionVars
  BY <1>1, <1>4 DEF LedgerCloses, auctionVars, marketVars
<1> QED
  BY <1>2, <1>3, <1>4 DEF AuctionsNext

-----------------------------------------------------------------------------
(* Purchases. *)

(* What a purchase writes. *)
LEMMA PurchaseWrites ==
  ASSUME AssetsInv, PurchasesInv, now \in Nat,
         NEW b \in Users, NEW a \in AssetIds, NEW t \in Tokens, NEW p, Purchase(b, a, t, p)
  PROVE  /\ licensed \in Nat /\ licensed + 1 \in LicenseIds /\ licensed' = licensed + 1
         /\ asset[a].price \in Prices \cup {0}
         /\ escrow' \in [LicenseIds -> EscrowRecords]
         /\ \A i \in LicenseIds \ {licensed + 1} : escrow'[i] = escrow[i]
         /\ escrow'[licensed + 1].status = "Held"
         /\ escrow'[licensed + 1].buyer = b /\ escrow'[licensed + 1].seller \in Users
         /\ escrow'[licensed + 1].token = t /\ escrow'[licensed + 1].amount = asset[a].price
<1> DEFINE new == [buyer |-> b, seller |-> asset[a].owner, token |-> t,
                   amount |-> asset[a].price, until |-> now + Hold, status |-> "Held"]
<1>1. /\ licensed \in Nat /\ licensed + 1 \in LicenseIds /\ licensed' = licensed + 1
      /\ escrow' = [escrow EXCEPT ![licensed + 1] = new]
      /\ escrow \in [LicenseIds -> EscrowRecords]
  BY MarketplaceAssumptions DEF Purchase, PurchasesInv, PurchaseTypes, LicenseIds
<1>2. asset[a].owner \in Users /\ asset[a].price \in Prices \cup {0}
  BY DEF Purchase, AssetsInv, AssetRecords
<1>3. now + Hold \in 0 .. MaxTime + Hold
  BY MarketplaceAssumptions DEF Purchase
<1>4. new \in EscrowRecords
  BY <1>2, <1>3 DEF EscrowRecords, Live
<1>5. /\ new.status = "Held" /\ new.buyer = b /\ new.seller \in Users
      /\ new.token = t /\ new.amount = asset[a].price
  BY <1>2
<1> HIDE DEF new
<1> QED
  BY <1>1, <1>2, <1>4, <1>5

(* A purchase gives a licence an escrow. *)
LEMMA PurchaseKeeps ==
  ASSUME AssetsInv, PurchasesInv, now \in Nat,
         NEW b \in Users, NEW a \in AssetIds, NEW t \in Tokens, NEW p, Purchase(b, a, t, p)
  PROVE  PurchasesInv'
<1>1. /\ licensed \in Nat /\ licensed + 1 \in LicenseIds /\ licensed' = licensed + 1
      /\ escrow' \in [LicenseIds -> EscrowRecords]
      /\ \A i \in LicenseIds \ {licensed + 1} : escrow'[i] = escrow[i]
      /\ escrow'[licensed + 1].buyer = b /\ escrow'[licensed + 1].seller \in Users
      /\ escrow'[licensed + 1].token = t
  BY PurchaseWrites
<1>2. license' \in [Users -> [AssetIds -> Licences]]
  <2>1. asset[a].kind \in Licences
    BY DEF AssetsInv, AssetRecords, Licences
  <2> QED
    BY <2>1 DEF Purchase, PurchasesInv, PurchaseTypes
<1>3. licensed' \in 0 .. MaxLicenses
  BY <1>1, MarketplaceAssumptions DEF LicenseIds
<1>4. ASSUME NEW i \in LicenseIds PROVE EscrowOK(i)'
  <2>1. CASE i = licensed + 1
    BY <1>1, <2>1 DEF EscrowOK
  <2>2. CASE i # licensed + 1
    BY <1>1, <2>2 DEF PurchasesInv, EscrowOK
  <2> QED
    BY <2>1, <2>2
<1> QED
  BY <1>1, <1>2, <1>3, <1>4 DEF PurchasesInv, PurchaseTypes

(* A subscription gives none. *)
LEMMA SubscribeKeeps ==
  ASSUME PurchasesInv, SubscriptionStep
  PROVE  PurchasesInv' /\ UNCHANGED <<escrow, bought, disputeVars, proposalVars, resets>>
<1>1. PICK b \in Users, a \in AssetIds, t \in Tokens, n \in Nat : Subscription(b, a, t, n)
  BY DEF SubscriptionStep
<1>2. UNCHANGED <<escrow, bought, disputeVars, proposalVars, resets>>
  BY <1>1 DEF Subscription, assetVars
<1>3. licensed' \in 0 .. MaxLicenses
  BY MarketplaceAssumptions DEF SubscriptionStep, PurchasesInv, PurchaseTypes
<1>4. license' \in [Users -> [AssetIds -> Licences]]
  BY <1>1 DEF Subscription, PurchasesInv, PurchaseTypes, Licences
<1> QED
  BY <1>2, <1>3, <1>4 DEF PurchasesInv, PurchaseTypes, EscrowOK

(* The status of an escrow moves on. *)
LEMMA StatusKeeps ==
  ASSUME PurchasesInv, NEW i \in LicenseIds, escrow[i].status # "None",
         NEW st \in Live \cup {"Released", "Resolved"},
         escrow' = [escrow EXCEPT ![i].status = st], UNCHANGED <<licensed, license>>
  PROVE  PurchasesInv'
<1>1. PurchaseTypes'
  BY DEF PurchasesInv, PurchaseTypes, EscrowRecords
<1>2. ASSUME NEW j \in LicenseIds PROVE EscrowOK(j)'
  <2>1. EscrowOK(j)
    BY DEF PurchasesInv
  <2>2. /\ escrow'[j].buyer = escrow[j].buyer /\ escrow'[j].seller = escrow[j].seller
        /\ escrow'[j].token = escrow[j].token
        /\ j # i => escrow'[j].status = escrow[j].status
    BY DEF PurchasesInv, PurchaseTypes, EscrowRecords
  <2> QED
    BY <2>1, <2>2 DEF EscrowOK
<1> QED
  BY <1>1, <1>2 DEF PurchasesInv

(* A dispute that is open is about an escrow that was made. *)
LEMMA OpenIsMade ==
  ASSUME DisputesInv, NEW d \in DisputeIds, NEW votes, ResolvePurchaseDispute(d, votes)
  PROVE  dispute[d].license \in LicenseIds /\ escrow[dispute[d].license].status # "None"
BY DEF ResolvePurchaseDispute, DisputesInv, DisputeOK

(* The proposal that an approval completes is for a buyer, an asset and a token. *)
LEMMA ApprovedPurchase ==
  ASSUME ProposalsInv, NEW s \in Users, NEW p \in ProposalIds, ApprovePurchase(s, p)
  PROVE  \/ /\ proposal[p].org \in Users /\ proposal[p].asset \in AssetIds
            /\ proposal[p].token \in Tokens
            /\ proposal' = [proposal EXCEPT ![p].approved = @ \cup {s}, ![p].status = "Approved"]
            /\ Purchase(proposal[p].org, proposal[p].asset, proposal[p].token, p)
         \/ /\ proposal' = [proposal EXCEPT ![p].approved = @ \cup {s}]
            /\ UNCHANGED <<assetVars, purchaseVars, disputeVars, money, now>>
<1> DEFINE q == proposal[p]
           enough == Cardinality(q.approved \cup {s}) >= policy[q.org].required
<1>1. q.org \in Users /\ q.asset \in AssetIds /\ q.token \in Tokens
  BY DEF ApprovePurchase, MayVote, ProposalsInv, ProposalOK
<1>2. CASE enough
  BY <1>1, <1>2 DEF ApprovePurchase
<1>3. CASE ~ enough
  <2>1. proposal' = [proposal EXCEPT ![p].approved = @ \cup {s}, ![p].status = @]
    BY <1>3 DEF ApprovePurchase
  <2>2. [proposal EXCEPT ![p].approved = @ \cup {s}, ![p].status = @] =
          [proposal EXCEPT ![p].approved = @ \cup {s}]
    BY DEF ProposalsInv, ProposalTypes, ProposalRecords
  <2> QED
    BY <1>3, <2>1, <2>2 DEF ApprovePurchase
<1> QED
  BY <1>2, <1>3

(* Every step keeps the purchases. *)
LEMMA PurchasesNext ==
  ASSUME RecordsInv, now \in Nat, [AuctionsNext]_auctionVars
  PROVE  PurchasesInv'
<1>0. AssetsInv /\ PurchasesInv /\ DisputesInv /\ ProposalsInv
  BY DEF RecordsInv
<1>1. CASE UNCHANGED purchaseVars
  BY <1>0, <1>1 DEF PurchasesInv, PurchaseTypes, EscrowOK, purchaseVars
<1>2. CASE RecordStep
  <2>0. ASSUME Initialize
        PROVE  PurchasesInv'
    <3>1. 0 \in 0 .. MaxLicenses
      BY MarketplaceAssumptions
    <3> QED
      BY <1>0, <2>0, <3>1 DEF Initialize, PurchasesInv, PurchaseTypes, EscrowOK
  <2>1. ASSUME NEW b \in Users, NEW a \in AssetIds, NEW t \in Tokens, PurchaseLicense(b, a, t)
        PROVE  PurchasesInv'
    BY <1>0, <2>1, PurchaseKeeps DEF PurchaseLicense
  <2>2. ASSUME SubscriptionStep
        PROVE  PurchasesInv'
    BY <1>0, <2>2, SubscribeKeeps
  <2>3. ASSUME NEW i \in LicenseIds, ReleaseEscrow(i)
        PROVE  PurchasesInv'
    BY <1>0, <2>3, StatusKeeps DEF ReleaseEscrow
  <2>4. ASSUME NEW i \in LicenseIds, RaisePurchaseDispute(i)
        PROVE  PurchasesInv'
    BY <1>0, <2>4, StatusKeeps DEF RaisePurchaseDispute, Live
  <2>5. ASSUME NEW d \in DisputeIds, NEW votes \in Ballots, ResolvePurchaseDispute(d, votes)
        PROVE  PurchasesInv'
    <3> DEFINE i == dispute[d].license
    <3>1. i \in LicenseIds /\ escrow[i].status # "None"
      BY <1>0, <2>5, OpenIsMade
    <3>2. escrow' = [escrow EXCEPT ![i].status = "Resolved"]
      BY <2>5 DEF ResolvePurchaseDispute, Settled
    <3>3. UNCHANGED <<licensed, license>>
      BY <2>5 DEF ResolvePurchaseDispute
    <3> HIDE DEF i
    <3> QED
      BY <1>0, <3>1, <3>2, <3>3, StatusKeeps
  <2>6. ASSUME NEW s \in Users, NEW p \in ProposalIds, ApprovePurchase(s, p)
        PROVE  PurchasesInv'
    BY <1>0, <1>1, <2>6, ApprovedPurchase, PurchaseKeeps
  <2>7. ASSUME NEW s \in Users, NEW p \in ProposalIds, RejectPurchase(s, p)
        PROVE  UNCHANGED purchaseVars
    BY <2>7 DEF RejectPurchase
  <2>8. ASSUME NEW u \in Committee, RegisterArbitrator(u)
        PROVE  UNCHANGED purchaseVars
    BY <2>8 DEF RegisterArbitrator
  <2>9. ASSUME NEW u \in Orgs, NEW a \in AssetIds, NEW t \in Tokens, ProposePurchase(u, a, t)
        PROVE  UNCHANGED purchaseVars
    BY <2>9 DEF ProposePurchase
  <2>10. ASSUME NEW u \in Orgs, NEW p \in Policies, CreateApprovalPolicy(u, p)
         PROVE  UNCHANGED purchaseVars
    BY <2>10 DEF CreateApprovalPolicy
  <2>11. ASSUME NEW ids \in SUBSET ProposalIds, ExpireStaleProposals(ids)
         PROVE  UNCHANGED purchaseVars
    BY <2>11 DEF ExpireStaleProposals
  <2> QED
    BY <1>1, <1>2, <2>0, <2>1, <2>2, <2>3, <2>4, <2>5, <2>6, <2>7, <2>8, <2>9, <2>10, <2>11
    DEF RecordStep
<1> QED
  BY <1>0, <1>1, <1>2, RecordSteps

-----------------------------------------------------------------------------
(* Disputes and escrows. *)

(* An escrow that was made stays made. *)
LEMMA EscrowsStay ==
  ASSUME DisputesInv, DisputeTypes',
         \A i \in LicenseIds : escrow[i].status # "None" => escrow'[i].status # "None",
         \A d \in DisputeIds :
           \/ dispute'[d].license = dispute[d].license /\ dispute[d].status # "None"
           \/ dispute'[d] = dispute[d]
           \/ dispute'[d].license \in LicenseIds /\ escrow'[dispute'[d].license].status # "None"
  PROVE  DisputesInv'
BY DEF DisputesInv, DisputeOK

(* Raising a dispute adds one; if none was overwritten, about a licence that had
   none. *)
LEMMA RaiseKeeps ==
  ASSUME DisputesInv, PurchaseTypes, NEW i \in LicenseIds, RaisePurchaseDispute(i)
  PROVE  DisputesInv' /\ (FreshOK => FreshOK')
<1> DEFINE n == disputed + 1
           new == [license |-> i, status |-> "Open"]
<1>1. disputed \in Nat /\ n \in DisputeIds /\ n \in 0 .. MaxDisputes /\ n > disputed
  BY MarketplaceAssumptions DEF RaisePurchaseDispute, DisputesInv, DisputeTypes, DisputeIds
<1>2. /\ disputed' = n /\ dispute' = [dispute EXCEPT ![n] = new] /\ licensed' = licensed
      /\ dispute \in [DisputeIds -> DisputeRecords] /\ arbiters' = arbiters
      /\ escrow[i].status = "Held"
      /\ escrow' = [escrow EXCEPT ![i].status = "Disputed"] /\ escrow \in [LicenseIds -> EscrowRecords]
  BY DEF RaisePurchaseDispute, DisputesInv, DisputeTypes, PurchaseTypes
<1>3. new \in DisputeRecords /\ new.license = i /\ new.status = "Open"
  BY DEF DisputeRecords
<1> HIDE DEF new
<1>4. /\ dispute'[n] = new /\ \A d \in DisputeIds \ {n} : dispute'[d] = dispute[d]
      /\ escrow'[i].status = "Disputed"
      /\ \A j \in LicenseIds \ {i} : escrow'[j] = escrow[j]
  BY <1>1, <1>2 DEF EscrowRecords
<1>5. DisputesInv'
  <2>1. DisputeTypes'
    BY <1>1, <1>2, <1>3 DEF DisputesInv, DisputeTypes
  <2>2. \A j \in LicenseIds : escrow[j].status # "None" => escrow'[j].status # "None"
    BY <1>4
  <2>3. \A d \in DisputeIds :
           \/ dispute'[d] = dispute[d]
           \/ dispute'[d].license \in LicenseIds /\ escrow'[dispute'[d].license].status # "None"
    BY <1>3, <1>4
  <2> QED
    BY <2>1, <2>2, <2>3, EscrowsStay
<1>6. ASSUME FreshOK PROVE FreshOK'
  <2>1. \A d \in DisputeIds : dispute[d].license # i
    BY <1>2, <1>6 DEF FreshOK, FreezeOK
  <2>2. dispute[n] = NoDispute
    BY <1>1, <1>6 DEF FreshOK
  <2>3. ASSUME NEW j \in LicenseIds PROVE FreezeOK(j)'
    <3>1. CASE j = i
      BY <1>1, <1>3, <1>4, <2>1, <3>1 DEF FreezeOK
    <3>2. CASE j # i
      <4>1. FreezeOK(j) /\ escrow'[j] = escrow[j]
        BY <1>4, <1>6, <3>2 DEF FreshOK
      <4>2. dispute[n].license # j
        BY <2>2 DEF NoDispute, LicenseIds
      <4>3. \A d \in DisputeIds : dispute'[d].license = j <=> dispute[d].license = j
        BY <1>3, <1>4, <3>2, <4>2
      <4>4. \A d \in DisputeIds : dispute[d].license = j => dispute'[d] = dispute[d]
        BY <1>4, <4>2
      <4> QED
        BY <4>1, <4>3, <4>4 DEF FreezeOK
    <3> QED
      BY <3>1, <3>2
  <2>4. \A j \in LicenseIds : j > licensed' => escrow'[j].status = "None"
    <3>1. ~ (i > licensed)
      BY <1>2, <1>6 DEF FreshOK
    <3> QED
      BY <1>2, <1>4, <1>6, <3>1 DEF FreshOK
  <2>5. ASSUME NEW d \in DisputeIds, d > disputed' PROVE dispute'[d] = NoDispute
    <3>1. d > disputed /\ d # n
      BY <1>1, <1>2, <2>5 DEF DisputeIds
    <3> QED
      BY <1>4, <1>6, <3>1 DEF FreshOK
  <2> QED
    BY <2>3, <2>4, <2>5 DEF FreshOK
<1> QED
  BY <1>5, <1>6

(* A dispute that is open is about an escrow that is frozen. *)
LEMMA OpenIsFrozen ==
  ASSUME DisputesInv, FreshOK, NEW d \in DisputeIds, dispute[d].status = "Open"
  PROVE  dispute[d].license \in LicenseIds /\ escrow[dispute[d].license].status = "Disputed"
<1>1. dispute[d].license \in LicenseIds
  BY DEF DisputesInv, DisputeOK
<1> QED
  BY <1>1 DEF FreshOK, FreezeOK

(* Resolving ends both together. *)
LEMMA ResolveKeeps ==
  ASSUME DisputesInv, PurchaseTypes, NEW d \in DisputeIds, NEW votes \in Ballots,
         ResolvePurchaseDispute(d, votes)
  PROVE  DisputesInv' /\ (FreshOK => FreshOK')
<1> DEFINE i == dispute[d].license
<1>1. i \in LicenseIds /\ dispute[d].status = "Open" /\ escrow[i].status # "None"
  <2>1. dispute[d].status = "Open"
    BY DEF ResolvePurchaseDispute
  <2> QED
    BY <2>1, OpenIsMade
<1>2. /\ dispute' = [dispute EXCEPT ![d].status = "Resolved"]
      /\ dispute \in [DisputeIds -> DisputeRecords] /\ escrow \in [LicenseIds -> EscrowRecords]
      /\ UNCHANGED <<disputed, arbiters, licensed>>
  BY DEF ResolvePurchaseDispute, DisputesInv, DisputeTypes, PurchaseTypes
<1>3. escrow' = [escrow EXCEPT ![i].status = "Resolved"]
  BY DEF ResolvePurchaseDispute, Settled
<1>4. /\ escrow'[i].status = "Resolved" /\ \A j \in LicenseIds \ {i} : escrow'[j] = escrow[j]
      /\ dispute'[d].status = "Resolved" /\ \A e \in DisputeIds \ {d} : dispute'[e] = dispute[e]
      /\ \A e \in DisputeIds : dispute'[e].license = dispute[e].license
  BY <1>1, <1>2, <1>3 DEF EscrowRecords, DisputeRecords
<1>5. DisputesInv'
  <2>1. DisputeTypes'
    BY <1>2 DEF DisputesInv, DisputeTypes, DisputeRecords
  <2>2. \A j \in LicenseIds : escrow[j].status # "None" => escrow'[j].status # "None"
    BY <1>4
  <2>3. \A e \in DisputeIds :
           \/ dispute'[e].license = dispute[e].license /\ dispute[e].status # "None"
           \/ dispute'[e] = dispute[e]
    BY <1>1, <1>4
  <2> QED
    BY <2>1, <2>2, <2>3, EscrowsStay
<1>6. ASSUME FreshOK PROVE FreshOK'
  <2>0. escrow[i].status = "Disputed"
    BY <1>1, <1>6, OpenIsFrozen
  <2>1. ASSUME NEW j \in LicenseIds PROVE FreezeOK(j)'
    <3>1. FreezeOK(j)
      BY <1>6 DEF FreshOK
    <3>2. CASE j = i
      <4>1. \A e \in DisputeIds : dispute[e].license = i => e = d
        BY <1>1, <3>1, <3>2 DEF FreezeOK
      <4> QED
        BY <1>4, <3>2, <4>1 DEF FreezeOK
    <3>3. CASE j # i
      <4>1. escrow'[j] = escrow[j]
        BY <1>4, <3>3
      <4>2. \A e \in DisputeIds : dispute[e].license = j => dispute'[e] = dispute[e]
        BY <1>4, <3>3
      <4> HIDE DEF i
      <4> QED
        BY <1>4, <3>1, <4>1, <4>2 DEF FreezeOK
    <3> QED
      BY <3>2, <3>3
  <2>2. \A j \in LicenseIds : j > licensed' => escrow'[j].status = "None"
    <3>1. ~ (i > licensed)
      BY <1>1, <1>6 DEF FreshOK
    <3> QED
      BY <1>2, <1>4, <1>6, <3>1 DEF FreshOK
  <2>3. \A e \in DisputeIds : e > disputed' => dispute'[e] = NoDispute
    <3>1. ~ (d > disputed)
      BY <1>1, <1>6 DEF FreshOK, NoDispute
    <3> QED
      BY <1>2, <1>4, <1>6, <3>1 DEF FreshOK
  <2> QED
    BY <2>1, <2>2, <2>3 DEF FreshOK
<1> QED
  BY <1>5, <1>6

(* A purchase is, if no count was reset, about a licence that no dispute is
   about. *)
LEMMA PurchaseFreezes ==
  ASSUME AssetsInv, PurchasesInv, DisputesInv, now \in Nat,
         NEW b \in Users, NEW a \in AssetIds, NEW t \in Tokens, NEW p, Purchase(b, a, t, p)
  PROVE  DisputesInv' /\ (FreshOK => FreshOK')
<1> DEFINE n == licensed + 1
<1>1. /\ licensed \in Nat /\ n \in LicenseIds /\ licensed' = n
      /\ \A i \in LicenseIds \ {n} : escrow'[i] = escrow[i]
      /\ escrow'[n].status = "Held"
  BY PurchaseWrites
<1>2. dispute' = dispute /\ disputed' = disputed /\ arbiters' = arbiters
  BY DEF Purchase, disputeVars
<1>3. DisputesInv'
  <2>1. DisputeTypes'
    BY <1>2 DEF DisputesInv, DisputeTypes
  <2>2. \A i \in LicenseIds : escrow[i].status # "None" => escrow'[i].status # "None"
    BY <1>1
  <2> QED
    BY <1>2, <2>1, <2>2, EscrowsStay
<1>4. ASSUME FreshOK PROVE FreshOK'
  <2>1. escrow[n].status = "None"
    BY <1>1, <1>4 DEF FreshOK
  <2>2. ASSUME NEW i \in LicenseIds PROVE FreezeOK(i)'
    <3>1. FreezeOK(i)
      BY <1>4 DEF FreshOK
    <3>2. CASE i = n
      BY <1>1, <1>2, <2>1, <3>1, <3>2 DEF FreezeOK
    <3>3. CASE i # n
      BY <1>1, <1>2, <3>1, <3>3 DEF FreezeOK
    <3> QED
      BY <3>2, <3>3
  <2>3. ASSUME NEW i \in LicenseIds, i > licensed' PROVE escrow'[i].status = "None"
    <3>1. i > licensed /\ i # n
      BY <1>1, <2>3 DEF LicenseIds
    <3> QED
      BY <1>1, <1>4, <3>1 DEF FreshOK
  <2> QED
    BY <1>2, <1>4, <2>2, <2>3 DEF FreshOK
<1> QED
  BY <1>3, <1>4

(* What is released had no dispute, and its status is none of theirs. *)
LEMMA ReleaseFreezes ==
  ASSUME PurchaseTypes, DisputesInv, NEW i \in LicenseIds, ReleaseEscrow(i)
  PROVE  DisputesInv' /\ (FreshOK => FreshOK')
<1>1. dispute' = dispute /\ disputed' = disputed /\ arbiters' = arbiters /\ licensed' = licensed
  BY DEF ReleaseEscrow, disputeVars
<1>2. /\ escrow[i].status = "Held" /\ escrow'[i].status = "Released"
      /\ \A j \in LicenseIds \ {i} : escrow'[j] = escrow[j]
  BY DEF ReleaseEscrow, PurchaseTypes, EscrowRecords
<1>3. DisputesInv'
  <2>1. DisputeTypes'
    BY <1>1 DEF DisputesInv, DisputeTypes
  <2>2. \A j \in LicenseIds : escrow[j].status # "None" => escrow'[j].status # "None"
    BY <1>2
  <2> QED
    BY <1>1, <2>1, <2>2, EscrowsStay
<1>4. ASSUME FreshOK PROVE FreshOK'
  <2>1. ASSUME NEW j \in LicenseIds PROVE FreezeOK(j)'
    <3>1. FreezeOK(j)
      BY <1>4 DEF FreshOK
    <3>2. CASE j = i
      BY <1>1, <1>2, <3>1, <3>2 DEF FreezeOK
    <3>3. CASE j # i
      BY <1>1, <1>2, <3>1, <3>3 DEF FreezeOK
    <3> QED
      BY <3>2, <3>3
  <2>2. \A j \in LicenseIds : j > licensed' => escrow'[j].status = "None"
    BY <1>1, <1>2, <1>4 DEF FreshOK
  <2> QED
    BY <1>1, <1>4, <2>1, <2>2 DEF FreshOK
<1> QED
  BY <1>3, <1>4

(* A step that touches neither keeps both. *)
LEMMA UntouchedKeeps ==
  ASSUME DisputesInv, UNCHANGED <<escrow, dispute, disputed>>, arbiters' \subseteq Users,
         licensed \in Nat, licensed' \in Nat, licensed' >= licensed
  PROVE  DisputesInv' /\ (FreshOK => FreshOK')
<1>1. DisputesInv'
  BY DEF DisputesInv, DisputeTypes, DisputeOK
<1>2. ASSUME FreshOK PROVE FreshOK'
  <2>1. \A i \in LicenseIds : FreezeOK(i)'
    BY <1>2 DEF FreshOK, FreezeOK
  <2>2. \A i \in LicenseIds : i > licensed' => i > licensed
    BY DEF LicenseIds
  <2> QED
    BY <1>2, <2>1, <2>2 DEF FreshOK
<1> QED
  BY <1>1, <1>2

(* Every step keeps the disputes, and as long as no count is reset, disputes and
   escrows in agreement. *)
LEMMA DisputesNext ==
  ASSUME RecordsInv, now \in Nat, [AuctionsNext]_auctionVars
  PROVE  DisputesInv' /\ FreezeInv'
<1> DEFINE Kept == DisputesInv' /\ (FreshOK => FreshOK')
<1>0. AssetsInv /\ PurchasesInv /\ PurchaseTypes /\ DisputesInv /\ ProposalsInv /\ FreezeInv
  BY DEF RecordsInv, PurchasesInv
<1>1. ASSUME UNCHANGED <<escrow, licensed, dispute, disputed>>, arbiters' \subseteq Users
      PROVE  Kept
  <2>1. licensed \in Nat
    BY <1>0 DEF PurchaseTypes
  <2> QED
    BY <1>0, <1>1, <2>1, UntouchedKeeps
<1>2. ASSUME UNCHANGED <<purchaseVars, disputeVars>>
      PROVE  Kept
  BY <1>0, <1>1, <1>2 DEF purchaseVars, disputeVars, DisputesInv, DisputeTypes
<1>3. ASSUME RecordStep, ~ Initialize
      PROVE  Kept
  <2>1. ASSUME NEW b \in Users, NEW a \in AssetIds, NEW t \in Tokens, PurchaseLicense(b, a, t)
        PROVE  Kept
    BY <1>0, <2>1, PurchaseFreezes DEF PurchaseLicense
  <2>2. ASSUME SubscriptionStep
        PROVE  Kept
    <3>1. UNCHANGED <<escrow, dispute, disputed, arbiters>>
      BY <1>0, <2>2, SubscribeKeeps DEF disputeVars
    <3>2. licensed \in Nat /\ licensed' \in Nat /\ licensed' >= licensed
      BY <1>0, <2>2 DEF SubscriptionStep, PurchaseTypes
    <3>3. arbiters' \subseteq Users
      BY <1>0, <3>1 DEF DisputesInv, DisputeTypes
    <3> QED
      BY <1>0, <3>1, <3>2, <3>3, UntouchedKeeps
  <2>3. ASSUME NEW i \in LicenseIds, ReleaseEscrow(i)
        PROVE  Kept
    BY <1>0, <2>3, ReleaseFreezes
  <2>4. ASSUME NEW i \in LicenseIds, RaisePurchaseDispute(i)
        PROVE  Kept
    BY <1>0, <2>4, RaiseKeeps
  <2>5. ASSUME NEW d \in DisputeIds, NEW votes \in Ballots, ResolvePurchaseDispute(d, votes)
        PROVE  Kept
    BY <1>0, <2>5, ResolveKeeps
  <2>6. ASSUME NEW s \in Users, NEW p \in ProposalIds, ApprovePurchase(s, p)
        PROVE  Kept
    BY <1>0, <1>2, <2>6, ApprovedPurchase, PurchaseFreezes
  <2>7. ASSUME NEW s \in Users, NEW p \in ProposalIds, RejectPurchase(s, p)
        PROVE  UNCHANGED <<purchaseVars, disputeVars>>
    BY <2>7 DEF RejectPurchase
  <2>8. ASSUME NEW u \in Committee, RegisterArbitrator(u)
        PROVE  Kept
    <3>1. UNCHANGED <<escrow, licensed, dispute, disputed>> /\ arbiters' \subseteq Users
      BY <1>0, <2>8, MarketplaceAssumptions
         DEF RegisterArbitrator, purchaseVars, DisputesInv, DisputeTypes
    <3> QED
      BY <1>1, <3>1
  <2>9. ASSUME NEW u \in Orgs, NEW a \in AssetIds, NEW t \in Tokens, ProposePurchase(u, a, t)
        PROVE  UNCHANGED <<purchaseVars, disputeVars>>
    BY <2>9 DEF ProposePurchase
  <2>10. ASSUME NEW u \in Orgs, NEW p \in Policies, CreateApprovalPolicy(u, p)
         PROVE  UNCHANGED <<purchaseVars, disputeVars>>
    BY <2>10 DEF CreateApprovalPolicy
  <2>11. ASSUME NEW ids \in SUBSET ProposalIds, ExpireStaleProposals(ids)
         PROVE  UNCHANGED <<purchaseVars, disputeVars>>
    BY <2>11 DEF ExpireStaleProposals
  <2> HIDE DEF Kept
  <2> QED
    BY <1>2, <1>3, <2>1, <2>2, <2>3, <2>4, <2>5, <2>6, <2>7, <2>8, <2>9, <2>10, <2>11 DEF RecordStep
<1>4. ASSUME Initialize
      PROVE  DisputesInv' /\ resets' # 0
  <2>1. 0 \in 0 .. MaxDisputes
    BY MarketplaceAssumptions
  <2> QED
    BY <1>0, <1>4, <2>1 DEF Initialize, DisputesInv, DisputeTypes, DisputeOK, AssetsInv
<1>5. ASSUME ~ Initialize
      PROVE  DisputesInv' /\ FreezeInv'
  <2>1. Kept
    <3> HIDE DEF Kept
    <3> QED
      BY <1>0, <1>2, <1>3, <1>5, RecordSteps
  <2>2. resets' = resets
    BY <1>0, <1>5, AssetsNext
  <2> QED
    BY <1>0, <2>1, <2>2 DEF FreezeInv
<1> QED
  BY <1>4, <1>5 DEF FreezeInv

-----------------------------------------------------------------------------
(* Proposals. *)

(* One record of a proposal is written. *)
LEMMA ProposalKeeps ==
  ASSUME ProposalsInv, UNCHANGED <<policy, proposed>>, NEW p \in ProposalIds,
         proposal[p].status = "Pending", NEW r \in ProposalRecords,
         r.org = proposal[p].org, r.token = proposal[p].token, r.asset = proposal[p].asset,
         proposal' = [proposal EXCEPT ![p] = r]
  PROVE  ProposalsInv'
<1>1. ProposalTypes'
  BY DEF ProposalsInv, ProposalTypes
<1>2. /\ proposal'[p] = r
      /\ \A q \in ProposalIds \ {p} : proposal'[q] = proposal[q]
  BY DEF ProposalsInv, ProposalTypes
<1>3. ASSUME NEW q \in ProposalIds PROVE ProposalOK(q)'
  <2>1. ProposalOK(q) /\ ProposalOK(p)
    BY DEF ProposalsInv
  <2> QED
    BY <1>2, <2>1 DEF ProposalOK
<1> QED
  BY <1>1, <1>3 DEF ProposalsInv

(* Every step keeps the proposals. *)
LEMMA ProposalsNext ==
  ASSUME RecordsInv, [AuctionsNext]_auctionVars
  PROVE  ProposalsInv'
<1>0. AssetsInv /\ PurchasesInv /\ ProposalsInv
  BY DEF RecordsInv
<1>1. ASSUME UNCHANGED proposalVars
      PROVE  ProposalsInv'
  BY <1>0, <1>1 DEF proposalVars, ProposalsInv, ProposalTypes, ProposalOK
<1>2. CASE RecordStep
  <2>1. ASSUME NEW b \in Users, NEW a \in AssetIds, NEW t \in Tokens, PurchaseLicense(b, a, t)
        PROVE  UNCHANGED proposalVars
    BY <2>1 DEF PurchaseLicense
  <2>10. ASSUME Initialize \/ SubscriptionStep
         PROVE  UNCHANGED proposalVars
    BY <1>0, <2>10, SubscribeKeeps DEF Initialize
  <2>2. ASSUME NEW i \in LicenseIds, ReleaseEscrow(i) \/ RaisePurchaseDispute(i)
        PROVE  UNCHANGED proposalVars
    BY <2>2 DEF ReleaseEscrow, RaisePurchaseDispute
  <2>3. ASSUME NEW u \in Committee, RegisterArbitrator(u)
        PROVE  UNCHANGED proposalVars
    BY <2>3 DEF RegisterArbitrator
  <2>4. ASSUME NEW d \in DisputeIds, NEW votes \in Ballots, ResolvePurchaseDispute(d, votes)
        PROVE  UNCHANGED proposalVars
    BY <2>4 DEF ResolvePurchaseDispute
  <2>5. ASSUME NEW u \in Orgs, NEW p \in Policies, CreateApprovalPolicy(u, p)
        PROVE  ProposalsInv'
    BY <1>0, <2>5 DEF CreateApprovalPolicy, ProposalsInv, ProposalTypes, ProposalOK
  <2>6. ASSUME NEW u \in Orgs, NEW a \in AssetIds, NEW t \in Tokens, ProposePurchase(u, a, t)
        PROVE  ProposalsInv'
    <3> DEFINE n == proposed + 1
               new == [org |-> u, asset |-> a, token |-> t, status |-> "Pending", approved |-> {}]
    <3>1. /\ proposed \in Nat /\ n \in ProposalIds /\ proposed' = n /\ n \in 0 .. MaxProposals
          /\ proposal' = [proposal EXCEPT ![n] = new]
          /\ proposal \in [ProposalIds -> ProposalRecords] /\ policy' = policy
      BY <1>0, <2>6, MarketplaceAssumptions DEF ProposePurchase, ProposalsInv, ProposalTypes, ProposalIds
    <3>2. /\ new \in ProposalRecords /\ new.org \in Users /\ new.asset \in AssetIds
          /\ new.token \in Tokens /\ new.status = "Pending"
      BY MarketplaceAssumptions DEF ProposalRecords
    <3> HIDE DEF new
    <3>3. ProposalTypes'
      BY <1>0, <3>1, <3>2 DEF ProposalsInv, ProposalTypes
    <3>4. ASSUME NEW q \in ProposalIds PROVE ProposalOK(q)'
      <4>1. ProposalOK(q) /\ q \in Nat
        BY <1>0 DEF ProposalsInv, ProposalIds
      <4>2. CASE q = n
        BY <3>1, <3>2, <4>1, <4>2 DEF ProposalOK
      <4>3. CASE q # n
        <5>1. proposal'[q] = proposal[q]
          BY <3>1, <4>3
        <5>2. q > proposed' => q > proposed
          BY <3>1, <4>1
        <5> QED
          BY <4>1, <5>1, <5>2 DEF ProposalOK
      <4> QED
        BY <4>2, <4>3
    <3> QED
      BY <3>3, <3>4 DEF ProposalsInv
  <2>7. ASSUME NEW s \in Users, NEW p \in ProposalIds, ApprovePurchase(s, p)
        PROVE  ProposalsInv'
    <3>1. \E st \in {"Pending", "Approved"} :
             proposal' = [proposal EXCEPT ![p].approved = @ \cup {s}, ![p].status = st]
      BY <2>7 DEF ApprovePurchase, MayVote
    <3>2. PICK st \in {"Pending", "Approved"} :
             proposal' = [proposal EXCEPT ![p].approved = @ \cup {s}, ![p].status = st]
      BY <3>1
    <3> DEFINE r == [proposal[p] EXCEPT !.approved = @ \cup {s}, !.status = st]
    <3>3. proposal[p] \in ProposalRecords /\ proposal \in [ProposalIds -> ProposalRecords]
      BY <1>0 DEF ProposalsInv, ProposalTypes
    <3>4. /\ r \in ProposalRecords /\ r.org = proposal[p].org /\ r.token = proposal[p].token
          /\ r.asset = proposal[p].asset
      BY <3>3 DEF ProposalRecords
    <3>5. proposal' = [proposal EXCEPT ![p] = r]
      BY <3>2, <3>3 DEF ProposalRecords
    <3>6. UNCHANGED <<policy, proposed>> /\ proposal[p].status = "Pending"
      BY <2>7 DEF ApprovePurchase, MayVote
    <3> HIDE DEF r
    <3> QED
      BY <1>0, <3>4, <3>5, <3>6, ProposalKeeps
  <2>8. ASSUME NEW s \in Users, NEW p \in ProposalIds, RejectPurchase(s, p)
        PROVE  ProposalsInv'
    <3> DEFINE r == [proposal[p] EXCEPT !.status = "Rejected"]
    <3>1. proposal[p] \in ProposalRecords /\ proposal \in [ProposalIds -> ProposalRecords]
      BY <1>0 DEF ProposalsInv, ProposalTypes
    <3>2. /\ r \in ProposalRecords /\ r.org = proposal[p].org /\ r.token = proposal[p].token
          /\ r.asset = proposal[p].asset
      BY <3>1 DEF ProposalRecords
    <3>3. proposal' = [proposal EXCEPT ![p] = r]
      BY <2>8, <3>1 DEF RejectPurchase, ProposalRecords
    <3>4. UNCHANGED <<policy, proposed>> /\ proposal[p].status = "Pending"
      BY <2>8 DEF RejectPurchase, MayVote
    <3> HIDE DEF r
    <3> QED
      BY <1>0, <3>2, <3>3, <3>4, ProposalKeeps
  <2>9. ASSUME NEW ids \in SUBSET ProposalIds, ExpireStaleProposals(ids)
        PROVE  ProposalsInv'
    <3>1. ASSUME NEW p \in ProposalIds
          PROVE  /\ proposal'[p] \in ProposalRecords
                 /\ proposal'[p] = proposal[p] \/ proposal'[p].status = "Expired"
                 /\ proposal'[p].status = "None" <=> proposal[p].status = "None"
      BY <1>0, <2>9 DEF ExpireStaleProposals, ProposalsInv, ProposalTypes, ProposalRecords
    <3>2. ProposalTypes'
      <4>1. proposal' = [p \in ProposalIds |-> proposal'[p]]
        BY <2>9 DEF ExpireStaleProposals
      <4> QED
        BY <1>0, <2>9, <3>1, <4>1 DEF ExpireStaleProposals, ProposalsInv, ProposalTypes
    <3>3. ASSUME NEW p \in ProposalIds PROVE ProposalOK(p)'
      <4>1. ProposalOK(p) /\ proposed' = proposed
        BY <1>0, <2>9 DEF ProposalsInv, ExpireStaleProposals
      <4> QED
        BY <3>1, <4>1 DEF ProposalOK
    <3> QED
      BY <3>2, <3>3 DEF ProposalsInv
  <2> QED
    BY <1>1, <1>2, <2>1, <2>2, <2>3, <2>4, <2>5, <2>6, <2>7, <2>8, <2>9, <2>10
    DEF RecordStep
<1> QED
  BY <1>0, <1>1, <1>2, RecordSteps

(* The step buys nothing for a proposal, and approves none. *)
BuysFrame ==
  /\ bought' = bought
  /\ \A p \in ProposalIds :
       /\ proposal'[p].status = "Approved" <=> proposal[p].status = "Approved"
       /\ proposal[p].status = "Approved" => proposal'[p].org = proposal[p].org

(* Such a step keeps what was bought. *)
LEMMA BuysFrameKeeps ==
  ASSUME BuysInv, BuysFrame
  PROVE  BuysInv'
BY DEF BuysInv, BuysFrame, BuysOK

(* A purchase is for no proposal, or for one that the same step approves. *)
LEMMA PurchaseBuys ==
  ASSUME BuysInv, NEW b \in Users, NEW a, NEW t, NEW p, Purchase(b, a, t, p),
         \/ p \notin ProposalIds /\ proposal' = proposal
         \/ /\ p \in ProposalIds /\ proposal[p].status # "Approved"
            /\ proposal'[p].org = b /\ proposal'[p].status = "Approved"
            /\ \A q \in ProposalIds \ {p} : proposal'[q] = proposal[q]
  PROVE  BuysInv'
<1>1. bought' = [q \in ProposalIds |-> IF q = p THEN Append(bought[q], b) ELSE bought[q]]
  BY DEF Purchase
<1>2. bought \in [ProposalIds -> Seq(Users)]
  BY DEF BuysInv
<1>3. bought' \in [ProposalIds -> Seq(Users)]
  BY <1>1, <1>2
<1>4. ASSUME NEW q \in ProposalIds PROVE BuysOK(q)'
  <2>1. BuysOK(q)
    BY DEF BuysInv
  <2>2. CASE q = p
    <3>1. bought[q] = <<>> /\ bought'[q] = Append(bought[q], b)
      BY <1>1, <2>1, <2>2 DEF BuysOK
    <3>2. bought'[q] = <<b>>
      BY <3>1
    <3> QED
      BY <2>2, <3>2 DEF BuysOK
  <2>3. CASE q # p
    <3>1. bought'[q] = bought[q] /\ proposal'[q] = proposal[q]
      BY <1>1, <2>3
    <3> QED
      BY <2>1, <3>1 DEF BuysOK
  <2> QED
    BY <2>2, <2>3
<1> QED
  BY <1>3, <1>4 DEF BuysInv

(* Every step keeps what was bought in agreement with what was approved. *)
LEMMA BuysNext ==
  ASSUME RecordsInv, now \in Nat, [AuctionsNext]_auctionVars
  PROVE  BuysInv'
<1>0. AssetsInv /\ PurchasesInv /\ PurchaseTypes /\ DisputesInv /\ ProposalsInv /\ FreezeInv /\ BuysInv
  BY DEF RecordsInv, PurchasesInv
<1>1. ASSUME UNCHANGED <<bought, proposal>>
      PROVE  BuysFrame
  BY <1>1 DEF BuysFrame
<1>2. CASE UNCHANGED <<purchaseVars, disputeVars, proposalVars>>
  BY <1>0, <1>1, <1>2, BuysFrameKeeps DEF purchaseVars, proposalVars
<1>3. CASE RecordStep
  <2>1. ASSUME NEW b \in Users, NEW a \in AssetIds, NEW t \in Tokens, PurchaseLicense(b, a, t)
        PROVE  BuysInv'
    <3>1. 0 \notin ProposalIds
      BY DEF ProposalIds
    <3>2. Purchase(b, a, t, 0) /\ proposal' = proposal
      BY <2>1 DEF PurchaseLicense, proposalVars
    <3> QED
      BY <1>0, <3>1, <3>2, PurchaseBuys
  <2>2. ASSUME Initialize \/ SubscriptionStep
        PROVE  BuysFrame
    BY <1>0, <1>1, <2>2, SubscribeKeeps DEF Initialize, proposalVars
  <2>4. ASSUME NEW i \in LicenseIds, ReleaseEscrow(i) \/ RaisePurchaseDispute(i)
        PROVE  BuysFrame
    BY <1>1, <2>4 DEF ReleaseEscrow, RaisePurchaseDispute, proposalVars
  <2>5. ASSUME NEW d \in DisputeIds, NEW votes \in Ballots, ResolvePurchaseDispute(d, votes)
        PROVE  BuysFrame
    BY <1>1, <2>5 DEF ResolvePurchaseDispute, proposalVars
  <2>6. ASSUME NEW s \in Users, NEW p \in ProposalIds, ApprovePurchase(s, p)
        PROVE  BuysInv'
    <3>1. proposal[p].status = "Pending"
      BY <2>6 DEF ApprovePurchase, MayVote
    <3>2. CASE /\ proposal[p].org \in Users /\ proposal[p].asset \in AssetIds
               /\ proposal[p].token \in Tokens
               /\ proposal' = [proposal EXCEPT ![p].approved = @ \cup {s}, ![p].status = "Approved"]
               /\ Purchase(proposal[p].org, proposal[p].asset, proposal[p].token, p)
      <4>1. /\ proposal'[p].org = proposal[p].org /\ proposal'[p].status = "Approved"
            /\ \A q \in ProposalIds \ {p} : proposal'[q] = proposal[q]
        BY <1>0, <3>2 DEF ProposalsInv, ProposalTypes, ProposalRecords
      <4> QED
        BY <1>0, <3>1, <3>2, <4>1, PurchaseBuys
    <3>3. CASE /\ proposal' = [proposal EXCEPT ![p].approved = @ \cup {s}]
               /\ UNCHANGED <<assetVars, purchaseVars, disputeVars, money, now>>
      <4>1. \A q \in ProposalIds : /\ proposal'[q].status = proposal[q].status
                                   /\ proposal'[q].org = proposal[q].org
        BY <1>0, <3>3 DEF ProposalsInv, ProposalTypes, ProposalRecords
      <4>2. BuysFrame
        BY <3>3, <4>1 DEF BuysFrame, purchaseVars
      <4> QED
        BY <1>0, <4>2, BuysFrameKeeps
    <3> QED
      BY <1>0, <2>6, <3>2, <3>3, ApprovedPurchase
  <2>7. ASSUME NEW s \in Users, NEW p \in ProposalIds, RejectPurchase(s, p)
        PROVE  BuysFrame
    <3>1. \A q \in ProposalIds :
             /\ proposal'[q].status = "Approved" <=> proposal[q].status = "Approved"
             /\ proposal'[q].org = proposal[q].org
      BY <1>0, <2>7 DEF RejectPurchase, MayVote, ProposalsInv, ProposalTypes, ProposalRecords
    <3> QED
      BY <2>7, <3>1 DEF BuysFrame, RejectPurchase, purchaseVars
  <2>8. ASSUME NEW u \in Committee, RegisterArbitrator(u)
        PROVE  BuysFrame
    BY <1>1, <2>8 DEF RegisterArbitrator, purchaseVars, proposalVars
  <2>9. ASSUME NEW u \in Orgs, NEW a \in AssetIds, NEW t \in Tokens, ProposePurchase(u, a, t)
        PROVE  BuysFrame
    <3>1. proposed \in Nat /\ proposed + 1 \in ProposalIds
      BY <1>0, <2>9, MarketplaceAssumptions DEF ProposePurchase, ProposalsInv, ProposalTypes, ProposalIds
    <3>2. proposal[proposed + 1].status = "None"
      BY <1>0, <3>1 DEF ProposalsInv, ProposalOK
    <3>3. \A q \in ProposalIds :
             \/ proposal'[q] = proposal[q]
             \/ q = proposed + 1 /\ proposal'[q].status = "Pending"
      BY <1>0, <2>9, <3>1 DEF ProposePurchase, ProposalsInv, ProposalTypes
    <3> QED
      BY <2>9, <3>2, <3>3 DEF BuysFrame, ProposePurchase, purchaseVars
  <2>10. ASSUME NEW u \in Orgs, NEW p \in Policies, CreateApprovalPolicy(u, p)
         PROVE  BuysFrame
    BY <1>1, <2>10 DEF CreateApprovalPolicy, purchaseVars
  <2>11. ASSUME NEW ids \in SUBSET ProposalIds, ExpireStaleProposals(ids)
         PROVE  BuysFrame
    <3>1. \A q \in ProposalIds :
             \/ proposal'[q] = proposal[q]
             \/ proposal[q].status = "Pending" /\ proposal'[q].status = "Expired"
      BY <1>0, <2>11 DEF ExpireStaleProposals, ProposalsInv, ProposalTypes, ProposalRecords
    <3> QED
      BY <2>11, <3>1 DEF BuysFrame, ExpireStaleProposals, purchaseVars
  <2> QED
    BY <1>0, <1>3, <2>1, <2>2, <2>4, <2>5, <2>6, <2>7, <2>8, <2>9, <2>10, <2>11, BuysFrameKeeps
       DEF RecordStep
<1> QED
  BY <1>0, <1>2, <1>3, RecordSteps

-----------------------------------------------------------------------------
(* Together. *)

(* They hold of a contract nobody has called. *)
LEMMA RecordsInit ==
  ASSUME AuctionsInit
  PROVE  RecordsInv /\ now \in Nat
<1> USE MarketplaceAssumptions DEF AuctionsInit, MarketInit
<1>1. AssetsInv
  BY DEF AssetsInv, AssetRecords, NoAsset
<1>2. PurchasesInv
  <2>1. NoEscrow \in EscrowRecords
    BY DEF EscrowRecords, NoEscrow
  <2>2. PurchaseTypes
    BY <2>1 DEF PurchaseTypes, Licences
  <2>3. ASSUME NEW i \in LicenseIds PROVE EscrowOK(i)
    BY DEF EscrowOK, NoEscrow, Live
  <2> QED
    BY <2>2, <2>3 DEF PurchasesInv
<1>3. DisputesInv
  BY DEF DisputesInv, DisputeTypes, DisputeOK, DisputeRecords, NoDispute, DisputeIds
<1>4. ProposalsInv
  BY DEF ProposalsInv, ProposalTypes, ProposalOK, ProposalRecords, NoProposal, ProposalIds
<1>5. FreezeInv
  BY DEF FreezeInv, FreshOK, FreezeOK, NoEscrow, NoDispute, LicenseIds, DisputeIds
<1>6. BuysInv
  BY DEF BuysInv, BuysOK, NoProposal
<1> QED
  BY <1>1, <1>2, <1>3, <1>4, <1>5, <1>6 DEF RecordsInv

(* Time is counted in ledgers. *)
LEMMA NowNext ==
  ASSUME now \in Nat, [AuctionsNext]_auctionVars
  PROVE  now' \in Nat
<1>1. CASE MarketNext
  <2>1. ASSUME NEW b \in Users, NEW a \in AssetIds, NEW t \in Tokens, NEW p, Purchase(b, a, t, p)
        PROVE  now' = now
    BY <2>1 DEF Purchase
  <2>2. ASSUME NEW b, NEW a, NEW t, NEW n, Subscription(b, a, t, n)
        PROVE  now' = now
    BY <2>2 DEF Subscription
  <2>12. ASSUME Initialize PROVE now' = now
    BY <2>12 DEF Initialize
  <2>3. ASSUME NEW a \in AssetIds,
               DelistAsset(a) \/ \E x \in Prices : UpdatePrice(a, x)
        PROVE  now' = now
    BY <2>3 DEF DelistAsset, UpdatePrice
  <2>4. ASSUME NEW u \in Sellers, NEW k \in Kinds, NEW x \in Prices, ListAsset(u, k, x)
        PROVE  now' = now
    BY <2>4 DEF ListAsset
  <2>5. ASSUME NEW a \in AssetIds, NEW t \in Tokens, NEW u \in Users,
               \/ PurchaseLicense(u, a, t)
               \/ \E m \in Periods : \/ Subscribe(u, a, t, m) \/ RenewLicense(u, a, t, m)
                                     \/ RenewWithProration(u, a, t, m)
        PROVE  now' = now
    BY <2>1, <2>2, <2>5 DEF PurchaseLicense, Subscribe, RenewLicense, RenewWithProration
  <2>6. ASSUME NEW a \in AssetIds, NEW t \in Tokens, NEW u \in Orgs, ProposePurchase(u, a, t)
        PROVE  now' = now
    BY <2>6 DEF ProposePurchase
  <2>7. ASSUME NEW i \in LicenseIds, ReleaseEscrow(i) \/ RaisePurchaseDispute(i)
        PROVE  now' = now
    BY <2>7 DEF ReleaseEscrow, RaisePurchaseDispute
  <2>8. ASSUME NEW u, NEW p, RegisterArbitrator(u) \/ CreateApprovalPolicy(u, p)
        PROVE  now' = now
    BY <2>8 DEF RegisterArbitrator, CreateApprovalPolicy
  <2>9. ASSUME NEW d, NEW votes, ResolvePurchaseDispute(d, votes)
        PROVE  now' = now
    BY <2>9 DEF ResolvePurchaseDispute
  <2>10. ASSUME NEW s \in Users, NEW p \in ProposalIds, ApprovePurchase(s, p) \/ RejectPurchase(s, p)
         PROVE  now' = now
    BY <2>10 DEF ApprovePurchase, RejectPurchase, Purchase
  <2>11. ASSUME NEW ids, ExpireStaleProposals(ids)
         PROVE  now' = now
    BY <2>11 DEF ExpireStaleProposals
  <2> QED
    BY <1>1, <2>3, <2>4, <2>5, <2>6, <2>7, <2>8, <2>9, <2>10, <2>11, <2>12 DEF MarketNext
<1>2. CASE AuctionStep
  BY <1>2, AuctionFrame
<1>3. CASE LedgerCloses
  BY <1>3 DEF LedgerCloses
<1>4. CASE UNCHANGED auctionVars
  BY <1>4 DEF auctionVars, marketVars
<1> QED
  BY <1>1, <1>2, <1>3, <1>4 DEF AuctionsNext

(* The records are in order in every state. *)
LEMMA RecordsAlways == AuctionsSpec => [](RecordsInv /\ now \in Nat)
<1>1. AuctionsInit => RecordsInv /\ now \in Nat
  BY RecordsInit
<1>2. RecordsInv /\ now \in Nat /\ [AuctionsNext]_auctionVars => (RecordsInv /\ now \in Nat)'
  <2> SUFFICES ASSUME RecordsInv, now \in Nat, [AuctionsNext]_auctionVars
               PROVE  RecordsInv' /\ now' \in Nat
    OBVIOUS
  <2>1. AssetsInv'
    BY AssetsNext DEF RecordsInv
  <2> QED
    BY <2>1, PurchasesNext, DisputesNext, ProposalsNext, BuysNext, NowNext DEF RecordsInv
<1> QED
  BY <1>1, <1>2, PTL DEF AuctionsSpec

(* As long as the contract is initialized only once, an escrow is frozen exactly
   while one dispute of it is open, is Resolved only by the end of that dispute,
   and has no second, in whatever order it is released, disputed and resolved. *)
THEOREM EscrowsAlwaysFrozen == AuctionsSpec => []DisputesFreezeEscrows
<1>1. RecordsInv => DisputesFreezeEscrows
  <2> SUFFICES ASSUME FreezeInv, resets = 0, NEW i \in LicenseIds
               PROVE  LET about == {d \in DisputeIds : dispute[d].license = i}
                      IN CASE escrow[i].status = "Disputed" ->
                                \E d \in about : about = {d} /\ dispute[d].status = "Open"
                           [] escrow[i].status = "Resolved" ->
                                \E d \in about : about = {d} /\ dispute[d].status = "Resolved"
                           [] escrow[i].status \notin {"Disputed", "Resolved"} -> about = {}
    BY DEF RecordsInv, DisputesFreezeEscrows
  <2>1. FreezeOK(i)
    BY DEF FreezeInv, FreshOK
  <2> DEFINE about == {d \in DisputeIds : dispute[d].license = i}
  <2>2. \A d \in about : about = {d}
    BY <2>1 DEF FreezeOK
  <2>3. CASE escrow[i].status = "Disputed"
    <3>1. PICK d \in about : dispute[d].status = "Open"
      BY <2>1, <2>3 DEF FreezeOK
    <3> QED
      BY <2>2, <2>3, <3>1
  <2>4. CASE escrow[i].status = "Resolved"
    <3>1. PICK d \in about : dispute[d].status = "Resolved"
      BY <2>1, <2>4 DEF FreezeOK
    <3> QED
      BY <2>2, <2>4, <3>1
  <2>5. CASE escrow[i].status \notin {"Disputed", "Resolved"}
    <3>1. about = {}
      BY <2>1, <2>5 DEF FreezeOK
    <3> QED
      BY <2>5, <3>1
  <2> QED
    BY <2>3, <2>4, <2>5
<1> QED
  BY <1>1, RecordsAlways, PTL

(* What the signers of an organisation approved is bought once, for that
   organisation, and what they rejected or let expire is never bought, however
   often the contract is initialized. *)
THEOREM ApprovedAlwaysBuysOnce == AuctionsSpec => []ApprovedBuysOnce
<1>1. RecordsInv => ApprovedBuysOnce
  BY DEF RecordsInv, BuysInv, BuysOK, ApprovedBuysOnce
<1> QED
  BY <1>1, RecordsAlways, PTL

-----------------------------------------------------------------------------
(* Ranks.  b is a list of bids in the order of their reveals. *)

Ahead(b, k) == {j \in DOMAIN b : b[j] > b[k] \/ (b[j] = b[k] /\ j < k)}
Rank(b, k) == Cardinality(Ahead(b, k))

(* Of two bids one is ahead, and what is ahead ranks before. *)
LEMMA RankOrder ==
  ASSUME NEW n \in Nat, NEW b \in [1 .. n -> Nat]
  PROVE  /\ \A k \in 1 .. n : Rank(b, k) \in 0 .. n - 1
         /\ \A j, k \in 1 .. n : j \in Ahead(b, k) => Rank(b, j) < Rank(b, k) /\ b[j] >= b[k]
         /\ \A j, k \in 1 .. n : j = k \/ j \in Ahead(b, k) \/ k \in Ahead(b, j)
<1> DEFINE D == 1 .. n
<1>1. DOMAIN b = D /\ \A k \in D : k \in Nat /\ b[k] \in Nat
  OBVIOUS
<1>2. IsFiniteSet(D) /\ Cardinality(D) = n
  BY FS_Interval
<1> HIDE DEF D
<1>3. ASSUME NEW k \in D
      PROVE  /\ IsFiniteSet(Ahead(b, k)) /\ Rank(b, k) \in Nat /\ k \notin Ahead(b, k)
             /\ IsFiniteSet(Ahead(b, k) \cup {k}) /\ Cardinality(Ahead(b, k) \cup {k}) = Rank(b, k) + 1
  <2>1. Ahead(b, k) \subseteq D /\ k \notin Ahead(b, k)
    BY <1>1 DEF Ahead
  <2>2. IsFiniteSet(Ahead(b, k))
    BY <1>2, <2>1, FS_Subset
  <2> QED
    BY <2>1, <2>2, FS_CardinalityType, FS_AddElement DEF Rank
<1>4. ASSUME NEW k \in D PROVE Rank(b, k) \in 0 .. n - 1
  <2>1. Ahead(b, k) \cup {k} \subseteq D
    BY <1>1 DEF Ahead
  <2>2. Cardinality(Ahead(b, k) \cup {k}) <= n
    BY <1>2, <2>1, FS_Subset
  <2>3. Rank(b, k) \in Nat /\ Rank(b, k) + 1 <= n
    BY <1>3, <2>2
  <2>4. \A r \in Nat : r + 1 <= n => r \in 0 .. n - 1
    OBVIOUS
  <2> QED
    BY <2>3, <2>4
<1>5. ASSUME NEW j \in D, NEW k \in D, j \in Ahead(b, k)
      PROVE  Rank(b, j) < Rank(b, k) /\ b[j] >= b[k]
  <2>1. Ahead(b, j) \cup {j} \subseteq Ahead(b, k)
    BY <1>1, <1>5 DEF Ahead
  <2>2. Cardinality(Ahead(b, j) \cup {j}) <= Rank(b, k)
    BY <1>3, <2>1, FS_Subset DEF Rank
  <2>3. b[j] >= b[k]
    BY <1>1, <1>5 DEF Ahead
  <2>4. Rank(b, j) \in Nat /\ Rank(b, k) \in Nat /\ Rank(b, j) + 1 <= Rank(b, k)
    BY <1>3, <2>2
  <2>5. \A r, s \in Nat : r + 1 <= s => r < s
    OBVIOUS
  <2> QED
    BY <2>3, <2>4, <2>5
<1>6. ASSUME NEW j \in D, NEW k \in D PROVE j = k \/ j \in Ahead(b, k) \/ k \in Ahead(b, j)
  BY <1>1 DEF Ahead
<1> QED
  BY <1>4, <1>5, <1>6 DEF D

(* There is a bid of each rank: n bids have n ranks, all different. *)
LEMMA RankExists ==
  ASSUME NEW n \in Nat, NEW b \in [1 .. n -> Nat], NEW c \in 0 .. n - 1
  PROVE  \E k \in 1 .. n : Rank(b, k) = c
<1> SUFFICES ASSUME \A k \in 1 .. n : Rank(b, k) # c PROVE FALSE
  OBVIOUS
<1> DEFINE f == [k \in 1 .. n |-> Rank(b, k)]
           S == 1 .. n
           T == (0 .. n - 1) \ {c}
<1>1. f \in [S -> T]
  BY RankOrder
<1>2. IsFiniteSet(S) /\ Cardinality(S) = n
  BY FS_Interval
<1>3. IsFiniteSet(T) /\ Cardinality(T) = n - 1
  <2> DEFINE R == 0 .. n - 1
  <2>1. \A a, z \in Int : IsFiniteSet(a .. z) /\ (a <= z => Cardinality(a .. z) = z - a + 1)
    BY FS_Interval
  <2>2. 0 \in Int /\ n - 1 \in Int /\ 0 <= n - 1 /\ (n - 1) - 0 + 1 = n
    OBVIOUS
  <2>3. IsFiniteSet(R) /\ Cardinality(R) = n
    BY <2>1, <2>2
  <2>4. c \in R
    OBVIOUS
  <2> HIDE DEF R
  <2>5. IsFiniteSet(R \ {c}) /\ Cardinality(R \ {c}) = n - 1
    BY <2>3, <2>4, FS_RemoveElement
  <2> QED
    BY <2>5 DEF R
<1> HIDE DEF f, S, T
<1>4. PICK j \in S, k \in S : j # k /\ f[j] = f[k]
  <2>1. Cardinality(T) < Cardinality(S)
    BY <1>2, <1>3
  <2>2. \E j, k \in S : j # k /\ f[j] = f[k]
    BY <1>1, <1>2, <1>3, <2>1, FS_PigeonHole
  <2> QED
    BY <2>2
<1>5. j \in 1 .. n /\ k \in 1 .. n /\ j # k /\ Rank(b, j) = Rank(b, k)
  BY <1>4 DEF f, S
<1>6. j \in Ahead(b, k) \/ k \in Ahead(b, j)
  BY <1>5, RankOrder
<1>7. Rank(b, j) < Rank(b, k) \/ Rank(b, k) < Rank(b, j)
  BY <1>5, <1>6, RankOrder
<1>8. Rank(b, j) \in 0 .. n - 1 /\ Rank(b, k) \in 0 .. n - 1
  BY <1>5, RankOrder
<1> QED
  BY <1>5, <1>7, <1>8

(* What ranks before a bid is what is ahead of it. *)
LEMMA RankedBefore ==
  ASSUME NEW n \in Nat, NEW b \in [1 .. n -> Nat], NEW k \in 1 .. n
  PROVE  {j \in 1 .. n : Rank(b, j) < Rank(b, k)} = Ahead(b, k)
<1>1. ASSUME NEW j \in 1 .. n, Rank(b, j) < Rank(b, k) PROVE j \in Ahead(b, k)
  <2>1. j # k /\ ~ (k \in Ahead(b, j))
    <3>1. Rank(b, j) \in 0 .. n - 1 /\ Rank(b, k) \in 0 .. n - 1
      BY RankOrder
    <3>2. ~ (Rank(b, k) < Rank(b, j)) /\ j # k
      BY <1>1, <3>1
    <3> QED
      BY <3>2, RankOrder
  <2> QED
    BY <2>1, RankOrder
<1>2. ASSUME NEW j \in Ahead(b, k) PROVE j \in 1 .. n /\ Rank(b, j) < Rank(b, k)
  <2>1. j \in 1 .. n
    BY DEF Ahead
  <2> QED
    BY <2>1, RankOrder
<1> QED
  BY <1>1, <1>2

(* The c that rank first: none bids less than the next one, and no other bids
   more. *)
LEMMA RankedFirst ==
  ASSUME NEW n \in Nat, NEW b \in [1 .. n -> Nat], NEW c \in 0 .. n - 1,
         NEW m \in 1 .. n, Rank(b, m) = c
  PROVE  /\ IsFiniteSet({j \in 1 .. n : Rank(b, j) < c})
         /\ Cardinality({j \in 1 .. n : Rank(b, j) < c}) = c
         /\ \A j \in 1 .. n : IF Rank(b, j) < c THEN b[j] >= b[m] ELSE b[j] <= b[m]
<1>1. {j \in 1 .. n : Rank(b, j) < c} = Ahead(b, m)
  BY RankedBefore
<1>2. IsFiniteSet(Ahead(b, m))
  <2>1. Ahead(b, m) \subseteq 1 .. n /\ IsFiniteSet(1 .. n)
    BY FS_Interval DEF Ahead
  <2> QED
    BY <2>1, FS_Subset
<1>3. ASSUME NEW j \in 1 .. n
      PROVE  IF Rank(b, j) < c THEN b[j] >= b[m] ELSE b[j] <= b[m]
  <2>1. CASE Rank(b, j) < c
    <3>1. j \in Ahead(b, m)
      BY <1>1, <2>1
    <3>2. b[j] >= b[m]
      BY <3>1, RankOrder
    <3> QED
      BY <2>1, <3>2
  <2>2. CASE ~ (Rank(b, j) < c)
    <3>1. j = m \/ m \in Ahead(b, j)
      BY <1>1, <2>2, RankOrder
    <3>2. CASE j = m
      BY <2>2, <3>2
    <3>3. CASE m \in Ahead(b, j)
      <4>1. b[m] >= b[j]
        BY <3>3, RankOrder
      <4> QED
        BY <2>2, <4>1
    <3> QED
      BY <3>1, <3>2, <3>3
  <2> QED
    BY <2>1, <2>2
<1> QED
  BY <1>1, <1>2, <1>3 DEF Rank

(* An image under a function that is one-to-one is as large. *)
LEMMA ImageSize ==
  ASSUME NEW S, IsFiniteSet(S), NEW f, \A x, y \in S : f[x] = f[y] => x = y
  PROVE  /\ IsFiniteSet({f[x] : x \in S})
         /\ Cardinality({f[x] : x \in S}) = Cardinality(S)
<1> DEFINE T == {f[x] : x \in S}
           g == [x \in S |-> f[x]]
<1>1. g \in [S -> T] /\ (\A x, y \in S : g[x] = g[y] => x = y) /\ \A t \in T : \E x \in S : g[x] = t
  OBVIOUS
<1> HIDE DEF g, T
<1>2. g \in Bijection(S, T)
  BY <1>1 DEF Bijection, Injection, Surjection, IsInjective
<1>3. ExistsBijection(S, T)
  BY <1>2 DEF ExistsBijection
<1>4. IsFiniteSet(T) /\ Cardinality(T) = Cardinality(S)
  BY <1>3, FS_Bijection
<1> QED
  BY <1>4 DEF T

-----------------------------------------------------------------------------
(* Auctions. *)

AuctionRecords ==
  [seller : Users \cup {None}, asset : AssetIds \cup {0}, capacity : Capacities \cup {0},
   minBid : Reserves \cup {0}, duration : Durations \cup {0}, opened : Nat, revealEnd : Nat,
   phase : {"None", "Commit", "Reveal", "Settled"}, token : Tokens \cup {None},
   price : Bids \cup Reserves \cup {0}]

AuctionTypes ==
  /\ auctioned \in 0 .. MaxAuctions
  /\ auction \in [AuctionIds -> AuctionRecords]
  /\ commitment \in [AuctionIds -> [Users -> Bids \cup {0}]]
  /\ sealed \in [AuctionIds -> [Users -> Bids \cup {0}]]
  /\ revealed \in [AuctionIds -> Seq(Users)]

Offers(x) == [k \in DOMAIN revealed[x] |-> BidOf(x, k)]
Bidders(x) == {revealed[x][k] : k \in DOMAIN revealed[x]}

(* p is the bid that ranks first of those there is no capacity for. *)
PricedAt(x, p) ==
  IF Len(revealed[x]) > auction[x].capacity
  THEN \E m \in DOMAIN revealed[x] : Rank(Offers(x), m) = auction[x].capacity /\ p = Offers(x)[m]
  ELSE p = auction[x].minBid

(* Nobody has revealed before the reveals begin; whoever has is named once, and
   holds a bid above the reserve that is the one sealed. *)
AuctionOK(x) ==
  /\ x > auctioned => auction[x] = NoAuction
  /\ auction[x].phase # "None" =>
       /\ auction[x].seller \in Users
       /\ auction[x].capacity \in Capacities /\ auction[x].minBid \in Reserves
  /\ auction[x].phase \in {"None", "Commit"} \/ auction[x].token = None => revealed[x] = <<>>
  /\ auction[x].phase \in {"Reveal", "Settled"} => sealed[x] = commitment[x]
  /\ auction[x].phase = "Settled" => PricedAt(x, auction[x].price)
  /\ \A k \in DOMAIN revealed[x] : BidOf(x, k) \in Bids /\ BidOf(x, k) >= auction[x].minBid
  /\ \A j, k \in DOMAIN revealed[x] : revealed[x][j] = revealed[x][k] => j = k
AuctionsInv == AuctionTypes /\ \A x \in AuctionIds : AuctionOK(x)

(* The bids that were revealed, as a list of numbers. *)
LEMMA OffersType ==
  ASSUME AuctionTypes, NEW x \in AuctionIds
  PROVE  /\ revealed[x] \in Seq(Users) /\ Len(revealed[x]) \in Nat
         /\ DOMAIN revealed[x] = 1 .. Len(revealed[x])
         /\ Offers(x) \in [1 .. Len(revealed[x]) -> Nat]
         /\ \A k \in DOMAIN revealed[x] : /\ Offers(x)[k] = BidOf(x, k)
                                          /\ revealed[x][k] \in Users
                                          /\ Before(x, k) = Ahead(Offers(x), k)
<1>1. revealed[x] \in Seq(Users) /\ commitment[x] \in [Users -> Bids \cup {0}]
  BY DEF AuctionTypes
<1>2. Len(revealed[x]) \in Nat /\ DOMAIN revealed[x] = 1 .. Len(revealed[x])
  BY <1>1
<1>3. \A k \in DOMAIN revealed[x] : revealed[x][k] \in Users
  BY <1>1
<1>4. \A k \in DOMAIN revealed[x] : BidOf(x, k) \in Nat
  BY <1>1, <1>3, AuctionAssumptions DEF BidOf
<1>5. /\ DOMAIN Offers(x) = DOMAIN revealed[x]
      /\ \A k \in DOMAIN revealed[x] : Offers(x)[k] = BidOf(x, k)
  BY DEF Offers
<1>6. Offers(x) \in [1 .. Len(revealed[x]) -> Nat]
  BY <1>2, <1>4 DEF Offers
<1>7. ASSUME NEW k \in DOMAIN revealed[x] PROVE Before(x, k) = Ahead(Offers(x), k)
  BY <1>5, <1>7 DEF Before, Ahead
<1> QED
  BY <1>1, <1>2, <1>3, <1>5, <1>6, <1>7

(* The clearing price is such a price. *)
LEMMA ClearingIsPriced ==
  ASSUME AuctionTypes, NEW x \in AuctionIds, AuctionOK(x), auction[x].capacity \in Nat,
         auction[x].minBid \in Reserves
  PROVE  PricedAt(x, ClearingPrice(x)) /\ ClearingPrice(x) \in Bids \cup Reserves
<1> DEFINE n == Len(revealed[x])
           c == auction[x].capacity
<1>1. /\ n \in Nat /\ DOMAIN revealed[x] = 1 .. n /\ Offers(x) \in [1 .. n -> Nat]
      /\ \A k \in 1 .. n : Offers(x)[k] = BidOf(x, k) /\ Before(x, k) = Ahead(Offers(x), k)
  BY OffersType
<1>2. CASE n > c
  <2>1. c \in 0 .. n - 1
    BY <1>1, <1>2
  <2>2. \E k \in 1 .. n : Rank(Offers(x), k) = c
    <3> HIDE DEF n, c
    <3> QED
      BY <1>1, <2>1, RankExists
  <2>3. \E k \in DOMAIN revealed[x] : Cardinality(Before(x, k)) = c
    BY <1>1, <2>2 DEF Rank
  <2> DEFINE m == CHOOSE k \in DOMAIN revealed[x] : Cardinality(Before(x, k)) = auction[x].capacity
  <2>4. m \in DOMAIN revealed[x] /\ Cardinality(Before(x, m)) = c
    BY <2>3
  <2>5. ClearingPrice(x) = BidOf(x, m)
    BY <1>2 DEF ClearingPrice
  <2> HIDE DEF m
  <2>6. BidOf(x, m) \in Bids
    BY <2>4 DEF AuctionOK
  <2> QED
    BY <1>1, <1>2, <2>4, <2>5, <2>6 DEF PricedAt, Rank
<1>3. CASE ~ (n > c)
  BY <1>3 DEF ClearingPrice, PricedAt
<1> QED
  BY <1>2, <1>3

(* The outcome of an auction at such a price. *)
LEMMA Outcome ==
  ASSUME AuctionTypes, NEW x \in AuctionIds, AuctionOK(x), auction[x].phase # "None",
         NEW p, PricedAt(x, p)
  PROVE  /\ p \in Nat /\ Winners(x) \subseteq Bidders(x)
         /\ Bidders(x) \subseteq Users /\ IsFiniteSet(Bidders(x)) /\ IsFiniteSet(Winners(x))
         /\ Cardinality(Bidders(x)) = Len(revealed[x])
         /\ Cardinality(Winners(x)) = IF Len(revealed[x]) > auction[x].capacity
                                      THEN auction[x].capacity ELSE Len(revealed[x])
         /\ \A u \in Winners(x) : commitment[x][u] >= p
         /\ \A u \in Bidders(x) \ Winners(x) : commitment[x][u] <= p
         /\ IF Len(revealed[x]) > auction[x].capacity
            THEN \E u \in Bidders(x) \ Winners(x) : commitment[x][u] = p
            ELSE Winners(x) = Bidders(x) /\ p = auction[x].minBid
<1> DEFINE n == Len(revealed[x])
           c == auction[x].capacity
           D == DOMAIN revealed[x]
           F == {k \in D : Rank(Offers(x), k) < c}
<1>1. /\ n \in Nat /\ D = 1 .. n /\ Offers(x) \in [1 .. n -> Nat]
      /\ \A k \in D : /\ Offers(x)[k] = commitment[x][revealed[x][k]] /\ revealed[x][k] \in Users
                      /\ Before(x, k) = Ahead(Offers(x), k)
  BY OffersType DEF BidOf
<1>2. c \in Nat \ {0} /\ auction[x].minBid \in Nat
  BY AuctionAssumptions DEF AuctionOK
<1>3. \A j, k \in D : revealed[x][j] = revealed[x][k] => j = k
  BY DEF AuctionOK
<1>4. F \subseteq D /\ Winners(x) = {revealed[x][k] : k \in F} /\ Bidders(x) = {revealed[x][k] : k \in D}
  BY <1>1 DEF Winners, Bidders, Rank
<1>5. IsFiniteSet(D) /\ Cardinality(D) = n
  BY <1>1, FS_Interval
<1> HIDE DEF n, c, D, F
<1>6. IsFiniteSet(Bidders(x)) /\ Cardinality(Bidders(x)) = n
  BY <1>3, <1>4, <1>5, ImageSize
<1>7. IsFiniteSet(F) /\ IsFiniteSet(Winners(x)) /\ Cardinality(Winners(x)) = Cardinality(F)
  <2>1. IsFiniteSet(F)
    BY <1>4, <1>5, FS_Subset
  <2>2. \A j, k \in F : revealed[x][j] = revealed[x][k] => j = k
    BY <1>3, <1>4
  <2> QED
    BY <1>4, <2>1, <2>2, ImageSize
<1>8. Winners(x) \subseteq Bidders(x) /\ Bidders(x) \subseteq Users
  BY <1>1, <1>4
<1>9. \A k \in D : revealed[x][k] \in Winners(x) <=> k \in F
  BY <1>3, <1>4
<1>10. CASE n > c
  <2>1. PICK m \in 1 .. n : Rank(Offers(x), m) = c /\ p = Offers(x)[m]
    BY <1>1, <1>10 DEF PricedAt, n, c, D
  <2>2. c \in 0 .. n - 1
    BY <1>1, <1>2, <1>10
  <2>3. /\ IsFiniteSet({j \in 1 .. n : Rank(Offers(x), j) < c})
        /\ Cardinality({j \in 1 .. n : Rank(Offers(x), j) < c}) = c
        /\ \A j \in 1 .. n : IF Rank(Offers(x), j) < c THEN Offers(x)[j] >= Offers(x)[m]
                                                       ELSE Offers(x)[j] <= Offers(x)[m]
    BY <1>1, <2>1, <2>2, RankedFirst
  <2>4. Cardinality(F) = c
    BY <1>1, <2>3 DEF F
  <2>5. m \in D /\ m \notin F
    <3>1. ~ (c < c)
      BY <1>2
    <3> QED
      BY <1>1, <2>1, <3>1 DEF F
  <2>6. \A k \in F : Offers(x)[k] >= p
    BY <1>1, <2>1, <2>3 DEF F
  <2>7. \A k \in D \ F : Offers(x)[k] <= p
    BY <1>1, <2>1, <2>3 DEF F
  <2>8. p \in Nat
    BY <1>1, <2>1
  <2>9. revealed[x][m] \in Bidders(x) \ Winners(x) /\ commitment[x][revealed[x][m]] = p
    BY <1>1, <1>4, <1>9, <2>1, <2>5
  <2>10. \A u \in Winners(x) : commitment[x][u] >= p
    BY <1>1, <1>4, <2>6
  <2>11. \A u \in Bidders(x) \ Winners(x) : commitment[x][u] <= p
    BY <1>1, <1>4, <1>9, <2>7
  <2> QED
    BY <1>6, <1>7, <1>8, <1>10, <2>4, <2>8, <2>9, <2>10, <2>11 DEF n, c
<1>11. CASE ~ (n > c)
  <2>1. p = auction[x].minBid
    BY <1>11 DEF PricedAt, n, c
  <2>2. \A k \in D : Rank(Offers(x), k) < c
    <3>1. \A k \in D : Rank(Offers(x), k) \in 0 .. n - 1
      BY <1>1, RankOrder
    <3> QED
      BY <1>1, <1>2, <1>11, <3>1
  <2>3. F = D
    BY <2>2 DEF F
  <2>4. \A k \in D : Offers(x)[k] >= p
    <3>1. \A k \in D : BidOf(x, k) >= auction[x].minBid
      BY DEF AuctionOK, D
    <3> QED
      BY <1>1, <2>1, <3>1 DEF BidOf
  <2>5. \A u \in Winners(x) : commitment[x][u] >= p
    BY <1>1, <1>4, <2>3, <2>4
  <2>6. Winners(x) = Bidders(x) /\ Cardinality(Winners(x)) = n
    BY <1>4, <1>5, <1>7, <2>3
  <2> QED
    BY <1>2, <1>6, <1>7, <1>8, <1>11, <2>1, <2>5, <2>6 DEF n, c
<1> QED
  BY <1>10, <1>11

(* What an auction that is left alone keeps. *)
LEMMA AuctionUnmoved ==
  ASSUME NEW x \in AuctionIds, AuctionOK(x), x > auctioned' => x > auctioned,
         auction'[x] = auction[x], commitment'[x] = commitment[x],
         revealed'[x] = revealed[x], sealed'[x] = sealed[x]
  PROVE  AuctionOK(x)'
<1>1. Offers(x)' = Offers(x)
  BY DEF Offers, BidOf
<1>2. \A p : PricedAt(x, p) => PricedAt(x, p)'
  BY <1>1 DEF PricedAt
<1>3. \A k : BidOf(x, k)' = BidOf(x, k)
  BY DEF BidOf
<1> QED
  BY <1>2, <1>3 DEF AuctionOK

(* An auction is opened by the owner of its asset, with no bids. *)
LEMMA OpenKeeps ==
  ASSUME AssetsInv, AuctionsInv, now \in Nat, NEW a \in AssetIds, NEW c \in Capacities,
         NEW m \in Reserves, NEW d \in Durations, OpenAuction(a, c, m, d)
  PROVE  AuctionsInv'
<1> DEFINE n == auctioned + 1
           new == [seller |-> asset[a].owner, asset |-> a, capacity |-> c, minBid |-> m,
                   duration |-> d, opened |-> now, revealEnd |-> 0, phase |-> "Commit",
                   token |-> None, price |-> 0]
<1>1. /\ auctioned \in Nat /\ n \in AuctionIds /\ auctioned' = n /\ n \in 0 .. MaxAuctions
      /\ auction' = [auction EXCEPT ![n] = new]
      /\ UNCHANGED <<commitment, revealed, sealed>>
  BY AuctionAssumptions DEF OpenAuction, AuctionsInv, AuctionTypes, AuctionIds
<1>2. asset[a].owner \in Users
  BY DEF OpenAuction, AssetsInv
<1>3. new \in AuctionRecords
  BY <1>2 DEF AuctionRecords
<1>4. /\ new.phase = "Commit" /\ new.seller \in Users /\ new.capacity \in Capacities
      /\ new.minBid \in Reserves /\ new.token = None
  BY <1>2
<1> HIDE DEF new
<1>5. AuctionTypes'
  BY <1>1, <1>3 DEF AuctionsInv, AuctionTypes
<1>6. /\ auction'[n] = new /\ \A x \in AuctionIds \ {n} : auction'[x] = auction[x]
      /\ \A x \in AuctionIds : revealed'[x] = revealed[x] /\ commitment'[x] = commitment[x]
                               /\ sealed'[x] = sealed[x]
  BY <1>1 DEF AuctionsInv, AuctionTypes
<1>7. ASSUME NEW x \in AuctionIds PROVE AuctionOK(x)'
  <2>1. x \in Nat /\ AuctionOK(x)
    BY DEF AuctionIds, AuctionsInv
  <2>2. CASE x = n
    <3>1. auction[n].phase = "None"
      BY <1>1, <2>1, <2>2 DEF AuctionOK, NoAuction
    <3>2. revealed'[n] = <<>>
      BY <1>6, <2>1, <2>2, <3>1 DEF AuctionOK
    <3>3. DOMAIN revealed'[n] = {}
      BY <3>2
    <3>4. ~ (n > auctioned')
      BY <1>1
    <3> QED
      BY <1>4, <1>6, <2>2, <3>2, <3>3, <3>4 DEF AuctionOK
  <2>3. CASE x # n
    <3>1. x > auctioned' => x > auctioned
      BY <1>1, <2>1
    <3> QED
      BY <1>6, <2>1, <2>3, <3>1, AuctionUnmoved
  <2> QED
    BY <2>2, <2>3
<1> QED
  BY <1>5, <1>7 DEF AuctionsInv

(* A commitment comes before the reveals. *)
LEMMA CommitKeeps ==
  ASSUME AuctionsInv, NEW x \in AuctionIds, NEW u \in Users, NEW b \in Bids, CommitBid(u, x, b)
  PROVE  AuctionsInv'
<1>1. /\ auction[x].phase = "Commit" /\ commitment' = [commitment EXCEPT ![x][u] = b]
      /\ UNCHANGED <<auction, auctioned, revealed, sealed>>
  BY DEF CommitBid
<1>2. AuctionTypes'
  BY <1>1 DEF AuctionsInv, AuctionTypes
<1>3. \A y \in AuctionIds \ {x} : commitment'[y] = commitment[y]
  BY <1>1 DEF AuctionsInv, AuctionTypes
<1>4. ASSUME NEW y \in AuctionIds PROVE AuctionOK(y)'
  <2>1. AuctionOK(y)
    BY DEF AuctionsInv
  <2>2. CASE y = x
    <3>1. revealed'[y] = <<>> /\ DOMAIN revealed'[y] = {}
      BY <1>1, <2>1, <2>2 DEF AuctionOK
    <3> QED
      BY <1>1, <2>1, <2>2, <3>1 DEF AuctionOK
  <2>3. CASE y # x
    BY <1>1, <1>3, <2>1, <2>3, AuctionUnmoved
  <2> QED
    BY <2>2, <2>3
<1> QED
  BY <1>2, <1>4 DEF AuctionsInv

(* The reveals begin with none. *)
LEMMA BeginKeeps ==
  ASSUME AuctionsInv, now \in Nat, NEW x \in AuctionIds, BeginReveal(x)
  PROVE  AuctionsInv'
<1> DEFINE end == now + auction[x].duration
<1>1. auction[x] \in AuctionRecords /\ auction \in [AuctionIds -> AuctionRecords]
  BY DEF AuctionsInv, AuctionTypes
<1>2. end \in Nat
  <2>1. auction[x].duration \in Durations \cup {0}
    BY <1>1 DEF AuctionRecords
  <2>2. \A d \in Durations \cup {0} : d \in Nat
    BY AuctionAssumptions
  <2> QED
    BY <2>1, <2>2
<1> HIDE DEF end
<1> DEFINE r == [auction[x] EXCEPT !.phase = "Reveal", !.revealEnd = end]
<1>3. /\ r \in AuctionRecords /\ r.phase = "Reveal" /\ r.seller = auction[x].seller
      /\ r.capacity = auction[x].capacity /\ r.minBid = auction[x].minBid
  BY <1>1, <1>2 DEF AuctionRecords
<1>4. auction' = [auction EXCEPT ![x] = r]
  BY <1>1 DEF BeginReveal, AuctionRecords, end
<1> HIDE DEF r
<1>5. /\ auction[x].phase = "Commit" /\ sealed' = [sealed EXCEPT ![x] = commitment[x]]
      /\ UNCHANGED <<auctioned, commitment, revealed>>
  BY DEF BeginReveal
<1>6. AuctionTypes'
  BY <1>1, <1>3, <1>4, <1>5 DEF AuctionsInv, AuctionTypes
<1>7. /\ auction'[x] = r /\ sealed'[x] = commitment[x]
      /\ \A y \in AuctionIds \ {x} : auction'[y] = auction[y] /\ sealed'[y] = sealed[y]
  BY <1>4, <1>5 DEF AuctionsInv, AuctionTypes
<1>8. ASSUME NEW y \in AuctionIds PROVE AuctionOK(y)'
  <2>1. AuctionOK(y)
    BY DEF AuctionsInv
  <2>2. CASE y = x
    <3>1. revealed'[y] = <<>> /\ DOMAIN revealed'[y] = {}
      BY <1>5, <2>1, <2>2 DEF AuctionOK
    <3>2. ~ (y > auctioned)
      BY <1>5, <2>1, <2>2 DEF AuctionOK, NoAuction
    <3> QED
      BY <1>3, <1>5, <1>7, <2>1, <2>2, <3>1, <3>2 DEF AuctionOK
  <2>3. CASE y # x
    BY <1>5, <1>7, <2>1, <2>3, AuctionUnmoved
  <2> QED
    BY <2>2, <2>3
<1> QED
  BY <1>6, <1>8 DEF AuctionsInv

(* A reveal adds a bidder who was not there. *)
LEMMA RevealKeeps ==
  ASSUME AuctionsInv, now \in Nat, NEW x \in AuctionIds, NEW u \in Users, NEW t \in Tokens,
         RevealBid(u, x, t)
  PROVE  AuctionsInv'
<1> DEFINE end == Extended(x)
<1>1. auction[x] \in AuctionRecords /\ auction \in [AuctionIds -> AuctionRecords]
  BY DEF AuctionsInv, AuctionTypes
<1>2. end \in Nat
  <2>1. auction[x].revealEnd \in Nat /\ auction[x].revealEnd + Sniping \in Nat
    BY <1>1, AuctionAssumptions DEF AuctionRecords
  <2> QED
    BY <2>1 DEF Extended
<1> HIDE DEF end
<1> DEFINE r == [auction[x] EXCEPT !.token = t, !.revealEnd = end]
<1>3. /\ r \in AuctionRecords /\ r.phase = auction[x].phase /\ r.seller = auction[x].seller
      /\ r.capacity = auction[x].capacity /\ r.minBid = auction[x].minBid /\ r.token = t
  BY <1>1, <1>2 DEF AuctionRecords
<1>4. auction' = [auction EXCEPT ![x] = r]
  BY <1>1 DEF RevealBid, AuctionRecords, end
<1> HIDE DEF r
<1>5. /\ auction[x].phase = "Reveal" /\ revealed' = [revealed EXCEPT ![x] = Append(@, u)]
      /\ UNCHANGED <<auctioned, commitment, sealed>> /\ ~ HasRevealed(u, x)
      /\ commitment[x][u] # 0 /\ commitment[x][u] >= auction[x].minBid
  BY DEF RevealBid
<1>6. AuctionTypes'
  BY <1>1, <1>3, <1>4, <1>5 DEF AuctionsInv, AuctionTypes
<1>7. /\ auction'[x] = r /\ revealed'[x] = Append(revealed[x], u)
      /\ \A y \in AuctionIds \ {x} : auction'[y] = auction[y] /\ revealed'[y] = revealed[y]
  BY <1>4, <1>5 DEF AuctionsInv, AuctionTypes
<1>8. ASSUME NEW y \in AuctionIds PROVE AuctionOK(y)'
  <2>1. AuctionOK(y)
    BY DEF AuctionsInv
  <2>2. CASE y = x
    <3> DEFINE n == Len(revealed[x])
    <3>1. /\ n \in Nat /\ DOMAIN revealed[x] = 1 .. n /\ DOMAIN revealed'[x] = 1 .. n + 1
          /\ revealed'[x][n + 1] = u
          /\ \A k \in 1 .. n : revealed'[x][k] = revealed[x][k]
      <4>1. revealed[x] \in Seq(Users)
        BY DEF AuctionsInv, AuctionTypes
      <4> QED
        BY <1>7, <4>1
    <3>2. \A k \in 1 .. n : revealed[x][k] # u
      BY <1>5, <3>1 DEF HasRevealed
    <3>3. commitment[x][u] \in Bids
      BY <1>5 DEF AuctionsInv, AuctionTypes
    <3> HIDE DEF n
    <3>4. \A k \in 1 .. n + 1 : k = n + 1 \/ k \in 1 .. n
      BY <3>1
    <3>5. \A k \in DOMAIN revealed'[x] : /\ commitment'[x][revealed'[x][k]] \in Bids
                                         /\ commitment'[x][revealed'[x][k]] >= auction'[x].minBid
      <4>1. ASSUME NEW k \in 1 .. n
            PROVE  /\ commitment'[x][revealed'[x][k]] \in Bids
                   /\ commitment'[x][revealed'[x][k]] >= auction'[x].minBid
        <5>1. commitment'[x][revealed'[x][k]] = BidOf(x, k)
          BY <1>5, <3>1 DEF BidOf
        <5> QED
          BY <1>3, <1>7, <2>1, <2>2, <3>1, <5>1 DEF AuctionOK
      <4>2. /\ commitment'[x][revealed'[x][n + 1]] \in Bids
            /\ commitment'[x][revealed'[x][n + 1]] >= auction'[x].minBid
        <5>1. commitment'[x][revealed'[x][n + 1]] = commitment[x][u]
          BY <1>5, <3>1
        <5>2. auction'[x].minBid = auction[x].minBid
          BY <1>3, <1>7
        <5> QED
          BY <1>5, <3>3, <5>1, <5>2
      <4> QED
        BY <3>1, <3>4, <4>1, <4>2
    <3>6. \A j, k \in DOMAIN revealed'[x] : revealed'[x][j] = revealed'[x][k] => j = k
      <4>1. \A j, k \in 1 .. n : revealed'[x][j] = revealed'[x][k] => j = k
        BY <2>1, <2>2, <3>1 DEF AuctionOK
      <4>2. \A k \in 1 .. n : revealed'[x][k] # revealed'[x][n + 1]
        BY <3>1, <3>2
      <4> QED
        BY <3>1, <3>4, <4>1, <4>2
    <3>7. ~ (x > auctioned)
      BY <1>5, <2>1, <2>2 DEF AuctionOK, NoAuction
    <3>8. t # None
      BY MarketplaceAssumptions
    <3> QED
      BY <1>3, <1>5, <1>7, <2>1, <2>2, <3>5, <3>6, <3>7, <3>8 DEF AuctionOK, BidOf
  <2>3. CASE y # x
    BY <1>5, <1>7, <2>1, <2>3, AuctionUnmoved
  <2> QED
    BY <2>2, <2>3
<1> QED
  BY <1>6, <1>8 DEF AuctionsInv

(* Settling records the price and ends it. *)
LEMMA SettleKeeps ==
  ASSUME AuctionsInv, NEW x \in AuctionIds, SettleAuction(x)
  PROVE  AuctionsInv'
<1> DEFINE p == ClearingPrice(x)
<1>1. auction[x] \in AuctionRecords /\ auction \in [AuctionIds -> AuctionRecords]
  BY DEF AuctionsInv, AuctionTypes
<1>2. /\ auction[x].phase = "Reveal" /\ UNCHANGED <<auctioned, commitment, revealed, sealed>>
      /\ auction' = [auction EXCEPT ![x].phase = "Settled", ![x].price = p]
  BY DEF SettleAuction
<1>3. PricedAt(x, p) /\ p \in Bids \cup Reserves
  <2>1. AuctionTypes /\ AuctionOK(x)
    BY DEF AuctionsInv
  <2>2. auction[x].capacity \in Nat /\ auction[x].minBid \in Reserves
    BY <1>2, <2>1, AuctionAssumptions DEF AuctionOK
  <2> QED
    BY <2>1, <2>2, ClearingIsPriced
<1> HIDE DEF p
<1> DEFINE r == [auction[x] EXCEPT !.phase = "Settled", !.price = p]
<1>4. /\ r \in AuctionRecords /\ r.phase = "Settled" /\ r.seller = auction[x].seller
      /\ r.capacity = auction[x].capacity /\ r.minBid = auction[x].minBid
      /\ r.token = auction[x].token /\ r.price = p
  BY <1>1, <1>3 DEF AuctionRecords
<1>5. auction' = [auction EXCEPT ![x] = r]
  BY <1>1, <1>2 DEF AuctionRecords
<1> HIDE DEF r
<1>6. AuctionTypes'
  BY <1>2, <1>4, <1>5 DEF AuctionsInv, AuctionTypes
<1>7. auction'[x] = r /\ \A y \in AuctionIds \ {x} : auction'[y] = auction[y]
  BY <1>1, <1>5
<1>8. ASSUME NEW y \in AuctionIds PROVE AuctionOK(y)'
  <2>1. AuctionOK(y)
    BY DEF AuctionsInv
  <2>2. CASE y = x
    <3>1. Offers(x)' = Offers(x) /\ \A k : BidOf(x, k)' = BidOf(x, k)
      BY <1>2 DEF Offers, BidOf
    <3>2. /\ auction'[x].capacity = auction[x].capacity /\ auction'[x].minBid = auction[x].minBid
          /\ auction'[x].price = p /\ revealed'[x] = revealed[x]
      BY <1>2, <1>4, <1>7
    <3>3. PricedAt(y, auction[y].price)'
      BY <1>3, <2>2, <3>1, <3>2 DEF PricedAt
    <3>4. ~ (x > auctioned)
      BY <1>2, <2>1, <2>2 DEF AuctionOK, NoAuction
    <3>5. \A k \in DOMAIN revealed'[x] : /\ commitment'[x][revealed'[x][k]] \in Bids
                                         /\ commitment'[x][revealed'[x][k]] >= auction'[x].minBid
      BY <1>2, <2>1, <2>2, <3>2 DEF AuctionOK, BidOf
    <3>6. /\ auction'[x].phase = "Settled" /\ auction'[x].seller \in Users
          /\ auction'[x].capacity \in Capacities /\ auction'[x].minBid \in Reserves
          /\ auction'[x].token = None => revealed'[x] = <<>>
      BY <1>2, <1>4, <1>7, <2>1, <2>2 DEF AuctionOK
    <3>7. sealed'[x] = commitment'[x] /\ ~ (x > auctioned')
      BY <1>2, <2>1, <2>2, <3>4 DEF AuctionOK
    <3>8. \A j, k \in DOMAIN revealed'[x] : revealed'[x][j] = revealed'[x][k] => j = k
      BY <2>1, <2>2, <3>2 DEF AuctionOK
    <3> QED
      BY <2>2, <3>3, <3>5, <3>6, <3>7, <3>8 DEF AuctionOK, BidOf
  <2>3. CASE y # x
    BY <1>2, <1>7, <2>1, <2>3, AuctionUnmoved
  <2> QED
    BY <2>2, <2>3
<1> QED
  BY <1>6, <1>8 DEF AuctionsInv

(* Every step keeps the auctions in order. *)
LEMMA AuctionsInvNext ==
  ASSUME AssetsInv, AuctionsInv, now \in Nat, [AuctionsNext]_auctionVars
  PROVE  AuctionsInv'
<1>1. CASE AuctionStep
  BY <1>1, OpenKeeps, CommitKeeps, BeginKeeps, RevealKeeps, SettleKeeps DEF AuctionStep
<1>2. CASE UNCHANGED auctionParts
  <2>1. \A x \in AuctionIds : AuctionOK(x)'
    BY <1>2, AuctionUnmoved DEF AuctionsInv, auctionParts
  <2> QED
    BY <1>2, <2>1 DEF AuctionsInv, AuctionTypes, auctionParts
<1> QED
  BY <1>1, <1>2 DEF AuctionsNext, LedgerCloses, auctionVars

-----------------------------------------------------------------------------
(* Money.  What the contract owes is written as a function of the records, so
   that it can be said of the records before and after a step. *)

HeldOf(e, t) == IF e.token = t /\ e.status \in Live THEN e.amount ELSE 0
EscrowSum(e, t) == SumFunctionOnSet([i \in LicenseIds |-> HeldOf(e[i], t)], LicenseIds)

BidSum(c, r) ==
  SumFunctionOnSet([u \in Users |-> IF \E k \in DOMAIN r : r[k] = u THEN c[u] ELSE 0], Users)
OfferedOf(a, c, r, t) == IF a.token = t /\ a.phase = "Reveal" THEN BidSum(c, r) ELSE 0
OfferedSum(a, c, r, t) ==
  SumFunctionOnSet([x \in AuctionIds |-> OfferedOf(a[x], c[x], r[x], t)], AuctionIds)

BackedOK(t) ==
  pool[t] = EscrowSum(escrow, t) + OfferedSum(auction, commitment, revealed, t) + kept[t]
Backed == \A t \in Tokens : BackedOK(t)
MoneyTypes ==
  /\ pool \in [Tokens -> Nat] /\ kept \in [Tokens -> Nat]
  /\ wallet \in [Users -> [Tokens -> Nat]]
MoneyInv == MoneyTypes /\ (resets = 0 => Backed)

(* What a step does to the money, if the contract is not initialized by it. *)
MoneyMoves == MoneyTypes' /\ (FreshOK /\ Backed => Backed')

(* They are the sums of the model. *)
LEMMA SumsOfModel ==
  ASSUME NEW t
  PROVE  /\ EscrowOwed(t) = EscrowSum(escrow, t)
         /\ BidsOwed(t) = OfferedSum(auction, commitment, revealed, t)
<1>1. EscrowOwed(t) = EscrowSum(escrow, t)
  BY DEF EscrowOwed, EscrowSum, HeldOf
<1>2. \A x \in AuctionIds : BidsIn(x) = BidSum(commitment[x], revealed[x])
  BY DEF BidsIn, BidSum, HasRevealed
<1>3. BidsOwed(t) = OfferedSum(auction, commitment, revealed, t)
  BY <1>2 DEF BidsOwed, OfferedSum, OfferedOf
<1> QED
  BY <1>1, <1>3

(* There are finitely many licences and auctions. *)
LEMMA IdsFinite == IsFiniteSet(LicenseIds) /\ IsFiniteSet(AuctionIds)
<1>1. \A n \in Nat : IsFiniteSet(1 .. n)
  BY FS_Interval
<1>2. MaxLicenses \in Nat
  BY MarketplaceAssumptions
<1>3. MaxAuctions \in Nat
  BY AuctionAssumptions
<1> QED
  BY <1>1, <1>2, <1>3 DEF LicenseIds, AuctionIds

(* What one escrow holds of a token. *)
LEMMA HeldIsNat ==
  ASSUME NEW e \in EscrowRecords, NEW t
  PROVE  HeldOf(e, t) \in Nat
<1>1. \A p \in Prices \cup {0} : p \in Nat
  BY MarketplaceAssumptions
<1>2. e.amount \in Nat
  BY <1>1 DEF EscrowRecords
<1> QED
  BY <1>2 DEF HeldOf

(* Where one escrow changes, the sum changes as it does. *)
LEMMA EscrowMoves ==
  ASSUME NEW e \in [LicenseIds -> EscrowRecords], NEW f \in [LicenseIds -> EscrowRecords],
         NEW n \in LicenseIds, \A i \in LicenseIds \ {n} : f[i] = e[i], NEW t
  PROVE  /\ EscrowSum(e, t) \in Nat /\ EscrowSum(f, t) \in Nat
         /\ EscrowSum(f, t) = EscrowSum(e, t) + (HeldOf(f[n], t) - HeldOf(e[n], t))
<1> DEFINE E == [i \in LicenseIds |-> HeldOf(e[i], t)]
           F == [i \in LicenseIds |-> HeldOf(f[i], t)]
<1>1. IsFiniteSet(LicenseIds)
  BY IdsFinite
<1>2. \A i \in LicenseIds : E[i] \in Nat /\ F[i] \in Nat
  BY HeldIsNat
<1>3. \A i \in LicenseIds \ {n} : E[i] = F[i]
  OBVIOUS
<1>4. E[n] = HeldOf(e[n], t) /\ F[n] = HeldOf(f[n], t)
  OBVIOUS
<1>5. EscrowSum(e, t) = SumFunctionOnSet(E, LicenseIds)
      /\ EscrowSum(f, t) = SumFunctionOnSet(F, LicenseIds)
  BY DEF EscrowSum
<1> HIDE DEF E, F
<1>6. SumFunctionOnSet(F, LicenseIds) = SumFunctionOnSet(E, LicenseIds) + (F[n] - E[n])
  BY <1>1, <1>2, <1>3, SumAtPoint
<1>7. SumFunctionOnSet(E, LicenseIds) \in Nat /\ SumFunctionOnSet(F, LicenseIds) \in Nat
  BY <1>1, <1>2, SumIsNat
<1> QED
  BY <1>4, <1>5, <1>6, <1>7

(* What is held is a number of each token. *)
LEMMA EscrowSumIsNat ==
  ASSUME NEW e \in [LicenseIds -> EscrowRecords], NEW t
  PROVE  EscrowSum(e, t) \in Nat
<1> DEFINE E == [i \in LicenseIds |-> HeldOf(e[i], t)]
<1>1. IsFiniteSet(LicenseIds)
  BY IdsFinite
<1>2. \A i \in LicenseIds : E[i] \in Nat
  BY HeldIsNat
<1>3. EscrowSum(e, t) = SumFunctionOnSet(E, LicenseIds)
  BY DEF EscrowSum
<1> HIDE DEF E
<1> QED
  BY <1>1, <1>2, <1>3, SumIsNat

Commitments == [Users -> Bids \cup {0}]

(* What an auction holds. *)
LEMMA BidSumIsNat ==
  ASSUME NEW c \in Commitments, NEW r
  PROVE  BidSum(c, r) \in Nat
<1> DEFINE f == [u \in Users |-> IF \E k \in DOMAIN r : r[k] = u THEN c[u] ELSE 0]
<1>1. \A b \in Bids \cup {0} : b \in Nat
  BY AuctionAssumptions
<1>2. \A u \in Users : f[u] \in Nat
  BY <1>1 DEF Commitments
<1>3. IsFiniteSet(Users)
  BY MarketplaceAssumptions
<1>4. BidSum(c, r) = SumFunctionOnSet(f, Users)
  BY DEF BidSum
<1> HIDE DEF f
<1> QED
  BY <1>2, <1>3, <1>4, SumIsNat

(* The sum over auctions is a number, and changes as one auction does. *)
LEMMA OffersMove ==
  ASSUME commitment \in [AuctionIds -> Commitments], commitment' \in [AuctionIds -> Commitments],
         NEW n \in AuctionIds, NEW t,
         \A x \in AuctionIds \ {n} : /\ auction'[x] = auction[x] /\ commitment'[x] = commitment[x]
                                     /\ revealed'[x] = revealed[x]
  PROVE  /\ OfferedSum(auction, commitment, revealed, t) \in Nat
         /\ OfferedSum(auction', commitment', revealed', t) \in Nat
         /\ OfferedSum(auction', commitment', revealed', t)
              = OfferedSum(auction, commitment, revealed, t)
                  + (OfferedOf(auction'[n], commitment'[n], revealed'[n], t)
                       - OfferedOf(auction[n], commitment[n], revealed[n], t))
<1> DEFINE E == [x \in AuctionIds |-> OfferedOf(auction[x], commitment[x], revealed[x], t)]
           F == [x \in AuctionIds |-> OfferedOf(auction'[x], commitment'[x], revealed'[x], t)]
<1>1. IsFiniteSet(AuctionIds)
  BY IdsFinite
<1>2. \A x \in AuctionIds : E[x] \in Nat /\ F[x] \in Nat
  BY BidSumIsNat DEF OfferedOf
<1>3. \A x \in AuctionIds \ {n} : E[x] = F[x]
  OBVIOUS
<1>4. /\ E[n] = OfferedOf(auction[n], commitment[n], revealed[n], t)
      /\ F[n] = OfferedOf(auction'[n], commitment'[n], revealed'[n], t)
  OBVIOUS
<1>5. /\ OfferedSum(auction, commitment, revealed, t) = SumFunctionOnSet(E, AuctionIds)
      /\ OfferedSum(auction', commitment', revealed', t) = SumFunctionOnSet(F, AuctionIds)
  BY DEF OfferedSum
<1> HIDE DEF E, F
<1>6. SumFunctionOnSet(F, AuctionIds) = SumFunctionOnSet(E, AuctionIds) + (F[n] - E[n])
  <2>1. ASSUME NEW f, NEW h, NEW z \in AuctionIds,
               \A x \in AuctionIds : f[x] \in Nat /\ h[x] \in Nat,
               \A x \in AuctionIds \ {z} : f[x] = h[x]
        PROVE  SumFunctionOnSet(h, AuctionIds) = SumFunctionOnSet(f, AuctionIds) + (h[z] - f[z])
    BY <1>1, <2>1, SumAtPoint
  <2> QED
    BY <1>2, <1>3, <2>1
<1>7. SumFunctionOnSet(E, AuctionIds) \in Nat /\ SumFunctionOnSet(F, AuctionIds) \in Nat
  BY <1>1, <1>2, SumIsNat
<1> QED
  BY <1>4, <1>5, <1>6, <1>7

(* What the auctions hold is a number of each token. *)
LEMMA OfferedSumIsNat ==
  ASSUME NEW a, NEW c \in [AuctionIds -> Commitments], NEW r, NEW t
  PROVE  OfferedSum(a, c, r, t) \in Nat
<1> DEFINE E == [x \in AuctionIds |-> OfferedOf(a[x], c[x], r[x], t)]
<1>1. IsFiniteSet(AuctionIds)
  BY IdsFinite
<1>2. \A x \in AuctionIds : E[x] \in Nat
  BY BidSumIsNat DEF OfferedOf
<1>3. OfferedSum(a, c, r, t) = SumFunctionOnSet(E, AuctionIds)
  BY DEF OfferedSum
<1> HIDE DEF E
<1> QED
  BY <1>1, <1>2, <1>3, SumIsNat

(* A share of a number is a number no greater. *)
LEMMA RefundShare ==
  ASSUME NEW x \in Nat, NEW b \in Nat \ {0}, NEW k \in 0 .. b
  PROVE  (x * k) \div b \in 0 .. x
<1>1. PICK y \in Nat : k + y = b
  <2>1. b - k \in Nat /\ k + (b - k) = b
    OBVIOUS
  <2> QED
    BY <2>1
<1>2. k \in Nat /\ x * k \in Nat /\ x * y \in Nat /\ x * b \in Nat
  BY <1>1
<1>3. x * (k + y) = x * k + x * y
  BY <1>1, <1>2
<1>4. x * k \in 0 .. x * b
  BY <1>1, <1>2, <1>3
<1>5. \A s : s \in 0 .. x * b => s \div b \in 0 .. x
  OBVIOUS
<1> QED
  BY <1>4, <1>5

(* A refund is a share of all of it. *)
Whole == 10000
MeanFor(votes, partial) ==
  SumFunctionOnSet([k \in partial |-> votes[k].bps], partial) \div Cardinality(partial)
RefundBy(full, release, shared, partial, mean) ==
  IF full > release /\ full >= shared THEN 10000
  ELSE IF release > full /\ release >= shared THEN 0
  ELSE IF partial = {} THEN 5000 ELSE mean

(* RefundOf in those terms. *)
LEMMA RefundUnfolds ==
  ASSUME NEW votes
  PROVE  RefundOf(votes) = RefundBy(Cardinality(VotesFor(votes, "FullRefund")),
                                    Cardinality(VotesFor(votes, "ReleaseToSeller")),
                                    Cardinality(VotesFor(votes, "PartialRefund")),
                                    VotesFor(votes, "PartialRefund"),
                                    MeanFor(votes, VotesFor(votes, "PartialRefund")))
BY DEF RefundOf, RefundBy, MeanFor

(* If the mean is a share, so is the outcome of the vote. *)
LEMMA RefundByBounds ==
  ASSUME NEW full, NEW release, NEW shared, NEW partial, NEW mean,
         partial # {} => mean \in 0 .. Whole
  PROVE  RefundBy(full, release, shared, partial, mean) \in 0 .. Whole
<1>1. 10000 \in 0 .. Whole /\ 5000 \in 0 .. Whole /\ 0 \in 0 .. Whole
  BY DEF Whole
<1> QED
  BY <1>1 DEF RefundBy

(* What the votes refund is between nothing and all. *)
LEMMA RefundBounds ==
  ASSUME NEW votes \in Ballots, \A k \in VotesFor(votes, "PartialRefund") : votes[k].bps <= 10000
  PROVE  RefundOf(votes) \in 0 .. Whole
<1> DEFINE P == VotesFor(votes, "PartialRefund")
           R == [voter : Users, decision : Decisions, bps : Nat]
           f == [k \in P |-> votes[k].bps]
<1>1. Ballots \subseteq Seq(R)
  BY MarketplaceAssumptions, Zenon
<1>2. votes \in Seq(R)
  <2> HIDE DEF R
  <2> QED
    BY <1>1
<1>3. Len(votes) \in Nat /\ DOMAIN votes = 1 .. Len(votes) /\ \A k \in DOMAIN votes : votes[k] \in R
  <2> HIDE DEF R
  <2> QED
    BY <1>2
<1>4. P \subseteq DOMAIN votes /\ \A k \in P : votes[k].bps <= 10000 /\ votes[k].bps \in Nat
  BY <1>3 DEF VotesFor
<1>5. \A x \in Nat : x <= 10000 => x \in 0 .. Whole
  BY DEF Whole
<1>6. \A k \in P : f[k] = votes[k].bps
  OBVIOUS
<1>7. MeanFor(votes, P) = SumFunctionOnSet(f, P) \div Cardinality(P)
  BY DEF MeanFor
<1>8. IsFiniteSet(P)
  <2>1. P \subseteq 1 .. Len(votes) /\ IsFiniteSet(1 .. Len(votes))
    BY <1>3, <1>4, FS_Interval
  <2> QED
    BY <2>1, FS_Subset
<1> HIDE DEF P, R, f
<1>9. \A k \in P : f[k] \in 0 .. Whole
  BY <1>4, <1>5, <1>6
<1>10. Whole \in Nat
  BY DEF Whole
<1>11. P # {} => MeanFor(votes, P) \in 0 .. Whole
  <2> SUFFICES ASSUME P # {} PROVE MeanFor(votes, P) \in 0 .. Whole
    OBVIOUS
  <2>1. SumFunctionOnSet(f, P) \div Cardinality(P) \in 0 .. Whole
    BY <1>8, <1>9, <1>10, MeanIsBounded
  <2> QED
    BY <1>7, <2>1
<1>12. ASSUME NEW full, NEW release, NEW shared
       PROVE  RefundBy(full, release, shared, P, MeanFor(votes, P)) \in 0 .. Whole
  BY <1>11, RefundByBounds
<1>13. RefundOf(votes) = RefundBy(Cardinality(VotesFor(votes, "FullRefund")),
                                  Cardinality(VotesFor(votes, "ReleaseToSeller")),
                                  Cardinality(P), P, MeanFor(votes, P))
  BY RefundUnfolds DEF P
<1> QED
  BY <1>12, <1>13

(* Money put into a wallet, or taken from one that has it. *)
LEMMA CreditType ==
  ASSUME NEW w \in [Users -> [Tokens -> Nat]], NEW u \in Users, NEW t \in Tokens, NEW n \in Int,
         w[u][t] + n \in Nat
  PROVE  Credit(w, u, t, n) \in [Users -> [Tokens -> Nat]]
BY DEF Credit

(* A step that changes one escrow moves what it held or holds. *)
LEMMA EscrowPays ==
  ASSUME AuctionTypes, MoneyTypes, Backed, PurchaseTypes, PurchaseTypes',
         UNCHANGED auctionParts, kept' = kept,
         NEW n \in LicenseIds, \A i \in LicenseIds \ {n} : escrow'[i] = escrow[i],
         \A s \in Tokens : pool'[s] = pool[s] + (HeldOf(escrow'[n], s) - HeldOf(escrow[n], s))
  PROVE  Backed'
<1> SUFFICES ASSUME NEW s \in Tokens PROVE BackedOK(s)'
  BY DEF Backed
<1>1. escrow \in [LicenseIds -> EscrowRecords] /\ escrow' \in [LicenseIds -> EscrowRecords]
  BY DEF PurchaseTypes
<1>2. /\ EscrowSum(escrow, s) \in Nat /\ EscrowSum(escrow', s) \in Nat
      /\ EscrowSum(escrow', s) = EscrowSum(escrow, s) + (HeldOf(escrow'[n], s) - HeldOf(escrow[n], s))
  BY <1>1, EscrowMoves
<1>3. HeldOf(escrow[n], s) \in Nat /\ HeldOf(escrow'[n], s) \in Nat
  BY <1>1, HeldIsNat
<1>4. OfferedSum(auction', commitment', revealed', s) = OfferedSum(auction, commitment, revealed, s)
  BY DEF auctionParts
<1>5. OfferedSum(auction, commitment, revealed, s) \in Nat
  BY OfferedSumIsNat DEF AuctionTypes, Commitments
<1>6. pool[s] = EscrowSum(escrow, s) + OfferedSum(auction, commitment, revealed, s) + kept[s]
      /\ kept[s] \in Nat /\ pool[s] \in Int
  BY DEF MoneyTypes, Backed, BackedOK
<1> QED
  BY <1>2, <1>3, <1>4, <1>5, <1>6 DEF BackedOK

(* A step that changes one auction moves what it held or holds. *)
LEMMA OffersPay ==
  ASSUME AuctionTypes, AuctionTypes', MoneyTypes, Backed, PurchaseTypes,
         escrow' = escrow, kept' = kept, NEW n \in AuctionIds,
         \A x \in AuctionIds \ {n} : /\ auction'[x] = auction[x] /\ commitment'[x] = commitment[x]
                                     /\ revealed'[x] = revealed[x],
         \A s \in Tokens :
           pool'[s] = pool[s] + (OfferedOf(auction'[n], commitment'[n], revealed'[n], s)
                                   - OfferedOf(auction[n], commitment[n], revealed[n], s))
  PROVE  Backed'
<1> SUFFICES ASSUME NEW s \in Tokens PROVE BackedOK(s)'
  BY DEF Backed
<1>1. commitment \in [AuctionIds -> Commitments] /\ commitment' \in [AuctionIds -> Commitments]
  BY DEF AuctionTypes, Commitments
<1> DEFINE before == OfferedOf(auction[n], commitment[n], revealed[n], s)
           after == OfferedOf(auction'[n], commitment'[n], revealed'[n], s)
<1>2. /\ OfferedSum(auction, commitment, revealed, s) \in Nat
      /\ OfferedSum(auction', commitment', revealed', s) \in Nat
      /\ OfferedSum(auction', commitment', revealed', s)
           = OfferedSum(auction, commitment, revealed, s) + (after - before)
  BY <1>1, OffersMove
<1>3. before \in Nat /\ after \in Nat
  BY <1>1, BidSumIsNat DEF OfferedOf
<1>4. EscrowSum(escrow, s) \in Nat /\ EscrowSum(escrow', s) = EscrowSum(escrow, s)
  BY EscrowSumIsNat DEF PurchaseTypes
<1>5. pool[s] = EscrowSum(escrow, s) + OfferedSum(auction, commitment, revealed, s) + kept[s]
      /\ kept[s] \in Nat /\ pool[s] \in Int
  BY DEF MoneyTypes, Backed, BackedOK
<1>6. pool'[s] = pool[s] + (after - before)
  OBVIOUS
<1> HIDE DEF before, after
<1> QED
  BY <1>2, <1>3, <1>4, <1>5, <1>6 DEF BackedOK

(* The price goes into escrow. *)
LEMMA PurchasePays ==
  ASSUME AssetsInv, PurchasesInv, PurchasesInv', AuctionTypes, MoneyTypes, now \in Nat,
         NEW b \in Users, NEW a \in AssetIds, NEW t \in Tokens, NEW p,
         Purchase(b, a, t, p), UNCHANGED auctionParts
  PROVE  MoneyMoves
<1> DEFINE n == licensed + 1
           price == asset[a].price
<1>1. /\ licensed \in Nat /\ n \in LicenseIds /\ price \in Prices \cup {0}
      /\ \A i \in LicenseIds \ {n} : escrow'[i] = escrow[i]
      /\ escrow'[n].status = "Held" /\ escrow'[n].token = t /\ escrow'[n].amount = price
  BY PurchaseWrites
<1>2. FreshOK => escrow[n].status = "None"
  <2>1. n > licensed
    BY <1>1
  <2> HIDE DEF n
  <2> QED
    BY <1>1, <2>1 DEF FreshOK
<1>3. price \in Nat
  <2>1. \A x \in Prices \cup {0} : x \in Nat
    BY MarketplaceAssumptions
  <2> QED
    BY <1>1, <2>1
<1>4. /\ wallet[b][t] >= price /\ wallet' = Credit(wallet, b, t, -price)
      /\ pool' = [pool EXCEPT ![t] = @ + price] /\ kept' = kept
  BY DEF Purchase
<1>5. wallet \in [Users -> [Tokens -> Nat]] /\ pool \in [Tokens -> Nat] /\ kept \in [Tokens -> Nat]
  BY DEF MoneyTypes
<1> HIDE DEF price
<1>6. MoneyTypes'
  <2>1. wallet[b][t] + -price \in Nat /\ -price \in Int
    BY <1>3, <1>4, <1>5
  <2>2. wallet' \in [Users -> [Tokens -> Nat]]
    BY <1>4, <1>5, <2>1, CreditType
  <2>3. pool' \in [Tokens -> Nat]
    BY <1>3, <1>4, <1>5
  <2> QED
    BY <1>4, <1>5, <2>2, <2>3 DEF MoneyTypes
<1>7. ASSUME FreshOK, NEW s \in Tokens
      PROVE  pool'[s] = pool[s] + (HeldOf(escrow'[n], s) - HeldOf(escrow[n], s))
  <2>1. HeldOf(escrow[n], s) = 0
    BY <1>2, <1>7 DEF HeldOf, Live
  <2>2. HeldOf(escrow'[n], s) = IF s = t THEN price ELSE 0
    BY <1>1 DEF HeldOf, Live
  <2>3. pool'[s] = IF s = t THEN pool[s] + price ELSE pool[s]
    BY <1>4, <1>5
  <2>4. pool[s] \in Int
    BY <1>5
  <2> QED
    BY <1>3, <2>1, <2>2, <2>3, <2>4
<1>8. PurchaseTypes /\ PurchaseTypes'
  BY DEF PurchasesInv
<1>9. ASSUME FreshOK, Backed PROVE Backed'
  BY <1>1, <1>4, <1>7, <1>8, <1>9, EscrowPays
<1> QED
  BY <1>6, <1>9 DEF MoneyMoves

(* A subscriber pays what the contract keeps. *)
LEMMA SubscriptionPays ==
  ASSUME MoneyTypes, AuctionTypes, PurchaseTypes, NEW b \in Users, NEW a \in AssetIds,
         NEW t \in Tokens, NEW n \in Nat, Subscription(b, a, t, n), UNCHANGED auctionParts
  PROVE  MoneyMoves
<1>1. /\ wallet[b][t] >= n /\ wallet' = Credit(wallet, b, t, -n)
      /\ pool' = [pool EXCEPT ![t] = @ + n] /\ kept' = [kept EXCEPT ![t] = @ + n]
      /\ escrow' = escrow
  BY DEF Subscription
<1>2. wallet \in [Users -> [Tokens -> Nat]] /\ pool \in [Tokens -> Nat] /\ kept \in [Tokens -> Nat]
  BY DEF MoneyTypes
<1>3. MoneyTypes'
  <2>1. wallet[b][t] + -n \in Nat /\ -n \in Int
    BY <1>1, <1>2
  <2>2. wallet' \in [Users -> [Tokens -> Nat]]
    BY <1>1, <1>2, <2>1, CreditType
  <2>3. pool' \in [Tokens -> Nat] /\ kept' \in [Tokens -> Nat]
    BY <1>1, <1>2
  <2> QED
    BY <2>2, <2>3 DEF MoneyTypes
<1>4. ASSUME Backed, NEW s \in Tokens PROVE BackedOK(s)'
  <2>1. /\ EscrowSum(escrow', s) = EscrowSum(escrow, s) /\ EscrowSum(escrow, s) \in Nat
        /\ OfferedSum(auction', commitment', revealed', s) = OfferedSum(auction, commitment, revealed, s)
        /\ OfferedSum(auction, commitment, revealed, s) \in Nat
    BY <1>1, EscrowSumIsNat, OfferedSumIsNat DEF auctionParts, AuctionTypes, Commitments, PurchaseTypes
  <2>2. pool[s] = EscrowSum(escrow, s) + OfferedSum(auction, commitment, revealed, s) + kept[s]
    BY <1>4 DEF Backed, BackedOK
  <2>3. /\ pool'[s] = IF s = t THEN pool[s] + n ELSE pool[s]
        /\ kept'[s] = IF s = t THEN kept[s] + n ELSE kept[s]
        /\ pool[s] \in Int /\ kept[s] \in Nat
    BY <1>1, <1>2
  <2> QED
    BY <2>1, <2>2, <2>3 DEF BackedOK
<1> QED
  BY <1>3, <1>4 DEF MoneyMoves, Backed

(* A live escrow that ends pays out what it held. *)
LEMMA EscrowEnds ==
  ASSUME MoneyTypes, AuctionTypes, PurchasesInv, PurchasesInv', UNCHANGED auctionParts,
         kept' = kept, NEW i \in LicenseIds, escrow[i].status # "None",
         FreshOK => escrow[i].status \in Live, NEW st \in {"Released", "Resolved"},
         escrow' = [escrow EXCEPT ![i].status = st],
         PaysOut(escrow[i].token, escrow[i].amount),
         wallet' \in [Users -> [Tokens -> Nat]]
  PROVE  MoneyMoves
<1> DEFINE t == escrow[i].token
           n == escrow[i].amount
<1>1. escrow \in [LicenseIds -> EscrowRecords] /\ PurchaseTypes /\ PurchaseTypes'
  BY DEF PurchasesInv, PurchaseTypes
<1>2. t \in Tokens
  BY DEF PurchasesInv, EscrowOK
<1>3. n \in Nat
  <2>1. \A x \in Prices \cup {0} : x \in Nat
    BY MarketplaceAssumptions
  <2>2. n \in Prices \cup {0}
    BY <1>1 DEF EscrowRecords
  <2> QED
    BY <2>1, <2>2
<1>4. /\ \A j \in LicenseIds \ {i} : escrow'[j] = escrow[j]
      /\ escrow'[i].status = st
  BY <1>1 DEF EscrowRecords
<1> HIDE DEF t, n
<1>5. pool[t] >= n /\ pool' = [pool EXCEPT ![t] = @ - n]
  BY DEF PaysOut, t, n
<1>6. pool \in [Tokens -> Nat] /\ kept \in [Tokens -> Nat]
  BY DEF MoneyTypes
<1>7. MoneyTypes'
  <2>1. pool[t] - n \in Nat
    BY <1>2, <1>3, <1>5, <1>6
  <2>2. pool' \in [Tokens -> Nat]
    BY <1>5, <1>6, <2>1
  <2> QED
    BY <1>6, <2>2 DEF MoneyTypes
<1>8. ASSUME FreshOK, NEW s \in Tokens
      PROVE  pool'[s] = pool[s] + (HeldOf(escrow'[i], s) - HeldOf(escrow[i], s))
  <2>1. HeldOf(escrow[i], s) = IF s = t THEN n ELSE 0
    BY <1>8 DEF HeldOf, t, n
  <2>2. HeldOf(escrow'[i], s) = 0
    BY <1>4 DEF HeldOf, Live
  <2>3. pool'[s] = IF s = t THEN pool[s] - n ELSE pool[s]
    BY <1>5, <1>6
  <2>4. pool[s] \in Int
    BY <1>6
  <2> QED
    BY <1>3, <2>1, <2>2, <2>3, <2>4
<1>9. ASSUME FreshOK, Backed PROVE Backed'
  BY <1>1, <1>4, <1>8, <1>9, EscrowPays
<1> QED
  BY <1>7, <1>9 DEF MoneyMoves

(* Release pays the seller. *)
LEMMA ReleasePays ==
  ASSUME MoneyTypes, AuctionTypes, PurchasesInv, PurchasesInv', UNCHANGED auctionParts,
         NEW i \in LicenseIds, ReleaseEscrow(i)
  PROVE  MoneyMoves
<1>1. /\ escrow[i].status \in Live /\ kept' = kept
      /\ escrow' = [escrow EXCEPT ![i].status = "Released"]
      /\ PaysOut(escrow[i].token, escrow[i].amount)
      /\ wallet' = Credit(wallet, escrow[i].seller, escrow[i].token, escrow[i].amount)
  BY DEF ReleaseEscrow, Live
<1>2. escrow[i].status # "None" /\ escrow[i].seller \in Users /\ escrow[i].token \in Tokens
  BY <1>1 DEF PurchasesInv, EscrowOK, Live
<1>3. escrow[i].amount \in Nat
  <2>1. \A x \in Prices \cup {0} : x \in Nat
    BY MarketplaceAssumptions
  <2>2. escrow[i].amount \in Prices \cup {0}
    BY DEF PurchasesInv, PurchaseTypes, EscrowRecords
  <2> QED
    BY <2>1, <2>2
<1>4. wallet \in [Users -> [Tokens -> Nat]]
  BY DEF MoneyTypes
<1>5. wallet' \in [Users -> [Tokens -> Nat]]
  <2>1. wallet[escrow[i].seller][escrow[i].token] + escrow[i].amount \in Nat
    BY <1>2, <1>3, <1>4
  <2> QED
    BY <1>1, <1>2, <1>3, <1>4, <2>1, CreditType
<1> QED
  BY <1>1, <1>2, <1>5, EscrowEnds

(* A dispute that is resolved divides it between buyer and seller. *)
LEMMA ResolvePays ==
  ASSUME MoneyTypes, AuctionTypes, PurchasesInv, PurchasesInv', DisputesInv,
         UNCHANGED auctionParts, NEW d \in DisputeIds, NEW votes \in Ballots,
         ResolvePurchaseDispute(d, votes)
  PROVE  MoneyMoves
<1> DEFINE i == dispute[d].license
           bps == RefundOf(votes)
           e == escrow[i]
           refund == (e.amount * bps) \div 10000
<1>0. dispute[d].status = "Open"
  BY DEF ResolvePurchaseDispute
<1>1. i \in LicenseIds /\ e.status # "None" /\ (FreshOK => e.status \in Live)
  BY <1>0, OpenIsMade, OpenIsFrozen DEF Live
<1>2. /\ PaysOut(e.token, e.amount)
      /\ wallet' = Credit(Credit(wallet, e.buyer, e.token, refund), e.seller, e.token, e.amount - refund)
      /\ escrow' = [escrow EXCEPT ![i].status = "Resolved"] /\ kept' = kept
  BY DEF ResolvePurchaseDispute, Settled
<1>3. e.buyer \in Users /\ e.seller \in Users /\ e.token \in Tokens
  BY <1>1 DEF PurchasesInv, EscrowOK
<1>4. e.amount \in Nat
  <2>1. \A x \in Prices \cup {0} : x \in Nat
    BY MarketplaceAssumptions
  <2>2. e.amount \in Prices \cup {0}
    BY <1>1 DEF PurchasesInv, PurchaseTypes, EscrowRecords
  <2> QED
    BY <2>1, <2>2
<1>5. bps \in 0 .. Whole
  BY RefundBounds DEF ResolvePurchaseDispute
<1>6. refund \in 0 .. e.amount
  <2> HIDE DEF bps, e
  <2>1. Whole \in Nat \ {0}
    BY DEF Whole
  <2>2. (e.amount * bps) \div Whole \in 0 .. e.amount
    BY <1>4, <1>5, <2>1, RefundShare, Zenon
  <2> QED
    BY <2>2 DEF Whole
<1> HIDE DEF e, refund, i
<1>7. wallet' \in [Users -> [Tokens -> Nat]]
  <2> DEFINE w == Credit(wallet, e.buyer, e.token, refund)
  <2>1. wallet \in [Users -> [Tokens -> Nat]]
    BY DEF MoneyTypes
  <2>2. refund \in Int /\ e.amount - refund \in Nat /\ refund \in Nat
    BY <1>4, <1>6
  <2>3. wallet[e.buyer][e.token] + refund \in Nat
    BY <1>3, <2>1, <2>2
  <2>4. w \in [Users -> [Tokens -> Nat]]
    BY <1>3, <2>1, <2>2, <2>3, CreditType
  <2> HIDE DEF w
  <2>5. w[e.seller][e.token] + (e.amount - refund) \in Nat
    BY <1>3, <2>2, <2>4
  <2>6. Credit(w, e.seller, e.token, e.amount - refund) \in [Users -> [Tokens -> Nat]]
    BY <1>3, <2>2, <2>4, <2>5, CreditType
  <2> QED
    BY <1>2, <2>6 DEF w
<1> QED
  BY <1>1, <1>2, <1>7, EscrowEnds DEF e

(* A dispute that is raised moves nothing. *)
LEMMA RaisePays ==
  ASSUME MoneyTypes, AuctionTypes, PurchasesInv, PurchasesInv', UNCHANGED auctionParts,
         NEW i \in LicenseIds, RaisePurchaseDispute(i)
  PROVE  MoneyMoves
<1>1. /\ escrow[i].status = "Held" /\ UNCHANGED <<pool, wallet, kept>>
      /\ escrow' = [escrow EXCEPT ![i].status = "Disputed"]
  BY DEF RaisePurchaseDispute, money
<1>2. escrow \in [LicenseIds -> EscrowRecords] /\ PurchaseTypes /\ PurchaseTypes'
  BY DEF PurchasesInv, PurchaseTypes
<1>3. /\ \A j \in LicenseIds \ {i} : escrow'[j] = escrow[j]
      /\ escrow'[i].status = "Disputed" /\ escrow'[i].token = escrow[i].token
      /\ escrow'[i].amount = escrow[i].amount
  BY <1>1, <1>2 DEF EscrowRecords
<1>4. MoneyTypes'
  BY <1>1 DEF MoneyTypes
<1>5. ASSUME NEW s \in Tokens
      PROVE  pool'[s] = pool[s] + (HeldOf(escrow'[i], s) - HeldOf(escrow[i], s))
  <2>1. HeldOf(escrow'[i], s) = HeldOf(escrow[i], s)
    BY <1>1, <1>3 DEF HeldOf, Live
  <2>2. HeldOf(escrow[i], s) \in Nat /\ pool[s] \in Int /\ pool'[s] = pool[s]
    BY <1>1, <1>2, HeldIsNat DEF MoneyTypes
  <2> QED
    BY <2>1, <2>2
<1>6. ASSUME Backed PROVE Backed'
  BY <1>1, <1>2, <1>3, <1>5, <1>6, EscrowPays
<1> QED
  BY <1>4, <1>6 DEF MoneyMoves

(* Nothing is held where nothing was revealed. *)
LEMMA NobodyOffers ==
  ASSUME NEW c, NEW r, NEW a, NEW t, a.phase = "Reveal" => r = <<>>
  PROVE  OfferedOf(a, c, r, t) = 0
<1> DEFINE f == [u \in Users |-> IF \E k \in DOMAIN r : r[k] = u THEN c[u] ELSE 0]
<1>1. CASE a.phase = "Reveal"
  <2>1. DOMAIN r = {}
    BY <1>1
  <2>2. \A u \in Users : f[u] = 0
    BY <2>1
  <2>3. IsFiniteSet(Users)
    BY MarketplaceAssumptions
  <2>4. BidSum(c, r) = SumFunctionOnSet(f, Users)
    BY DEF BidSum
  <2> HIDE DEF f
  <2>5. BidSum(c, r) = 0
    BY <2>2, <2>3, <2>4, SumOfZeros
  <2> QED
    BY <2>5 DEF OfferedOf
<1>2. CASE a.phase # "Reveal"
  BY <1>2 DEF OfferedOf
<1> QED
  BY <1>1, <1>2

(* A step that moves no money leaves an auction that holds none without it. *)
LEMMA QuietPays ==
  ASSUME AuctionTypes, AuctionTypes', MoneyTypes, PurchaseTypes, escrow' = escrow,
         UNCHANGED money, NEW n \in AuctionIds,
         \A x \in AuctionIds \ {n} : /\ auction'[x] = auction[x] /\ commitment'[x] = commitment[x]
                                     /\ revealed'[x] = revealed[x],
         auction[n].phase = "Reveal" => revealed[n] = <<>>,
         auction'[n].phase = "Reveal" => revealed'[n] = <<>>
  PROVE  MoneyMoves
<1>1. pool' = pool /\ kept' = kept /\ wallet' = wallet
  BY DEF money
<1>2. MoneyTypes'
  BY <1>1 DEF MoneyTypes
<1>3. ASSUME NEW s \in Tokens
      PROVE  pool'[s] = pool[s] + (OfferedOf(auction'[n], commitment'[n], revealed'[n], s)
                                     - OfferedOf(auction[n], commitment[n], revealed[n], s))
  <2>1. /\ OfferedOf(auction[n], commitment[n], revealed[n], s) = 0
        /\ OfferedOf(auction'[n], commitment'[n], revealed'[n], s) = 0
    BY NobodyOffers
  <2>2. pool[s] \in Int
    BY DEF MoneyTypes
  <2> QED
    BY <1>1, <2>1, <2>2
<1>4. ASSUME Backed PROVE Backed'
  BY <1>1, <1>3, <1>4, OffersPay
<1> QED
  BY <1>2, <1>4 DEF MoneyMoves

(* Auctions are opened, bids sealed and reveals begun without money. *)
LEMMA SealingPays ==
  ASSUME AuctionsInv, AuctionsInv', MoneyTypes, PurchaseTypes,
         \/ \E a \in AssetIds, c \in Capacities, m \in Reserves, d \in Durations :
              OpenAuction(a, c, m, d)
         \/ \E x \in AuctionIds : \/ BeginReveal(x)
                                  \/ \E u \in Users, n \in Bids : CommitBid(u, x, n)
  PROVE  MoneyMoves
<1>0. AuctionTypes /\ AuctionTypes'
  BY DEF AuctionsInv
<1>1. ASSUME NEW a \in AssetIds, NEW c \in Capacities, NEW m \in Reserves, NEW d \in Durations,
             OpenAuction(a, c, m, d)
      PROVE  MoneyMoves
  <2> DEFINE n == auctioned + 1
  <2>0. auctioned \in Nat /\ n \in AuctionIds
    BY <1>1, AuctionAssumptions DEF OpenAuction, AuctionsInv, AuctionTypes, AuctionIds
  <2>1. /\ auctioned \in Nat /\ n \in AuctionIds /\ UNCHANGED <<marketVars, commitment, revealed>>
        /\ n > auctioned
    BY <1>1, <2>0 DEF OpenAuction
  <2>2. /\ \A x \in AuctionIds \ {n} : auction'[x] = auction[x]
        /\ auction'[n].phase = "Commit"
    BY <1>1, <2>1 DEF OpenAuction, AuctionsInv, AuctionTypes
  <2>3. auction[n].phase = "None"
    BY <2>1 DEF AuctionsInv, AuctionOK, NoAuction
  <2>4. escrow' = escrow /\ UNCHANGED money
    BY <2>1 DEF marketVars, purchaseVars
  <2> HIDE DEF n
  <2> QED
    BY <1>0, <2>1, <2>2, <2>3, <2>4, QuietPays
<1>2. ASSUME NEW x \in AuctionIds, BeginReveal(x) PROVE MoneyMoves
  <2>1. /\ auction[x].phase = "Commit" /\ UNCHANGED <<marketVars, commitment, revealed>>
        /\ \A y \in AuctionIds \ {x} : auction'[y] = auction[y]
    BY <1>2 DEF BeginReveal, AuctionsInv, AuctionTypes
  <2>2. revealed[x] = <<>>
    BY <2>1 DEF AuctionsInv, AuctionOK
  <2>3. escrow' = escrow /\ UNCHANGED money
    BY <2>1 DEF marketVars, purchaseVars
  <2> QED
    BY <1>0, <2>1, <2>2, <2>3, QuietPays
<1>3. ASSUME NEW x \in AuctionIds, NEW u \in Users, NEW n \in Bids, CommitBid(u, x, n)
      PROVE  MoneyMoves
  <2>1. /\ auction[x].phase = "Commit" /\ UNCHANGED <<marketVars, auction, revealed>>
        /\ \A y \in AuctionIds \ {x} : commitment'[y] = commitment[y]
    BY <1>3 DEF CommitBid, AuctionsInv, AuctionTypes
  <2>2. escrow' = escrow /\ UNCHANGED money
    BY <2>1 DEF marketVars, purchaseVars
  <2> QED
    BY <1>0, <2>1, <2>2, QuietPays
<1> QED
  BY <1>1, <1>2, <1>3

(* A bidder who reveals adds the bid to what the auction holds. *)
LEMMA OneMoreBid ==
  ASSUME NEW c \in Commitments, NEW r \in Seq(Users), NEW u \in Users,
         \A k \in DOMAIN r : r[k] # u
  PROVE  BidSum(c, Append(r, u)) = BidSum(c, r) + c[u]
<1> DEFINE f == [v \in Users |-> IF \E k \in DOMAIN r : r[k] = v THEN c[v] ELSE 0]
           h == [v \in Users |-> IF \E k \in DOMAIN Append(r, u) : Append(r, u)[k] = v
                                 THEN c[v] ELSE 0]
<1>1. \A b \in Bids \cup {0} : b \in Nat
  BY AuctionAssumptions
<1>2. \A v \in Users : c[v] \in Nat
  BY <1>1 DEF Commitments
<1>3. /\ Len(r) \in Nat /\ DOMAIN r = 1 .. Len(r) /\ DOMAIN Append(r, u) = 1 .. Len(r) + 1
      /\ Append(r, u)[Len(r) + 1] = u /\ \A k \in 1 .. Len(r) : Append(r, u)[k] = r[k]
  OBVIOUS
<1>4. \A k \in 1 .. Len(r) + 1 : k = Len(r) + 1 \/ k \in 1 .. Len(r)
  BY <1>3
<1>5. f[u] = 0 /\ h[u] = c[u]
  <2>1. Len(r) + 1 \in 1 .. Len(r) + 1
    BY <1>3
  <2> QED
    BY <1>3, <2>1
<1>6. ASSUME NEW v \in Users \ {u} PROVE f[v] = h[v]
  <2>1. (\E k \in DOMAIN Append(r, u) : Append(r, u)[k] = v) <=> \E k \in DOMAIN r : r[k] = v
    <3>1. \A k \in 1 .. Len(r) : k \in 1 .. Len(r) + 1
      BY <1>3
    <3> QED
      BY <1>3, <1>4, <3>1
  <2> QED
    BY <2>1
<1>7. \A v \in Users : f[v] \in Nat /\ h[v] \in Nat
  BY <1>2
<1>8. BidSum(c, r) = SumFunctionOnSet(f, Users) /\ BidSum(c, Append(r, u)) = SumFunctionOnSet(h, Users)
  BY DEF BidSum
<1>9. IsFiniteSet(Users)
  BY MarketplaceAssumptions
<1> HIDE DEF f, h
<1>10. SumFunctionOnSet(h, Users) = SumFunctionOnSet(f, Users) + (h[u] - f[u])
  <2>1. ASSUME NEW F, NEW H, NEW z \in Users, \A v \in Users : F[v] \in Nat /\ H[v] \in Nat,
               \A v \in Users \ {z} : F[v] = H[v]
        PROVE  SumFunctionOnSet(H, Users) = SumFunctionOnSet(F, Users) + (H[z] - F[z])
    BY <1>9, <2>1, SumAtPoint
  <2> QED
    BY <1>6, <1>7, <2>1
<1>11. SumFunctionOnSet(f, Users) \in Nat
  BY <1>7, <1>9, SumIsNat
<1>12. c[u] \in Nat
  BY <1>2
<1> QED
  BY <1>5, <1>8, <1>10, <1>11, <1>12

(* A bid that is revealed is taken from its bidder. *)
LEMMA RevealPays ==
  ASSUME AuctionsInv, AuctionsInv', MoneyTypes, PurchaseTypes, NEW x \in AuctionIds,
         NEW u \in Users, NEW t \in Tokens, RevealBid(u, x, t)
  PROVE  MoneyMoves
<1> DEFINE b == commitment[x][u]
<1>1. /\ auction[x].phase = "Reveal" /\ auction[x].token \in {None, t}
      /\ \A k \in DOMAIN revealed[x] : revealed[x][k] # u
      /\ wallet[u][t] >= b /\ wallet' = Credit(wallet, u, t, -b)
      /\ pool' = [pool EXCEPT ![t] = @ + b] /\ kept' = kept /\ escrow' = escrow
      /\ commitment' = commitment /\ revealed' = [revealed EXCEPT ![x] = Append(@, u)]
      /\ auction' = [auction EXCEPT ![x].token = t, ![x].revealEnd = Extended(x)]
  BY DEF RevealBid, HasRevealed, purchaseVars
<1>2. /\ AuctionTypes /\ AuctionTypes' /\ AuctionOK(x)
      /\ auction \in [AuctionIds -> AuctionRecords] /\ commitment[x] \in Commitments
      /\ revealed \in [AuctionIds -> Seq(Users)] /\ revealed[x] \in Seq(Users)
  BY DEF AuctionsInv, AuctionTypes, Commitments
<1>3. b \in Nat
  <2>1. \A n \in Bids \cup {0} : n \in Nat
    BY AuctionAssumptions
  <2> QED
    BY <1>2, <2>1 DEF Commitments
<1>4. /\ auction'[x].phase = "Reveal" /\ auction'[x].token = t
      /\ revealed'[x] = Append(revealed[x], u)
      /\ \A y \in AuctionIds \ {x} : auction'[y] = auction[y] /\ revealed'[y] = revealed[y]
  BY <1>1, <1>2 DEF AuctionRecords
<1>5. wallet \in [Users -> [Tokens -> Nat]] /\ pool \in [Tokens -> Nat] /\ kept \in [Tokens -> Nat]
  BY DEF MoneyTypes
<1> DEFINE c == commitment[x]
           r == revealed[x]
<1>6. BidSum(c, Append(r, u)) = BidSum(c, r) + b /\ BidSum(c, r) \in Nat
  BY <1>1, <1>2, OneMoreBid, BidSumIsNat
<1>7. auction[x].token = None => BidSum(c, r) = 0
  <2>1. auction[x].token = None => r = <<>>
    BY <1>2 DEF AuctionOK
  <2>2. r = <<>> => OfferedOf(auction[x], c, r, auction[x].token) = 0
    BY NobodyOffers
  <2> QED
    BY <1>1, <2>1, <2>2 DEF OfferedOf
<1>8. ASSUME NEW s \in Tokens
      PROVE  pool'[s] = pool[s] + (OfferedOf(auction'[x], commitment'[x], revealed'[x], s)
                                     - OfferedOf(auction[x], commitment[x], revealed[x], s))
  <2>0. s # None /\ pool[s] \in Int
    BY <1>5, MarketplaceAssumptions
  <2>1. OfferedOf(auction'[x], commitment'[x], revealed'[x], s)
          = IF s = t THEN BidSum(c, r) + b ELSE 0
    BY <1>1, <1>4, <1>6 DEF OfferedOf
  <2>2. OfferedOf(auction[x], commitment[x], revealed[x], s) = IF s = t THEN BidSum(c, r) ELSE 0
    BY <1>1, <1>7, <2>0 DEF OfferedOf
  <2>3. pool'[s] = IF s = t THEN pool[s] + b ELSE pool[s]
    BY <1>1, <1>5
  <2>4. BidSum(c, r) \in Nat
    BY <1>6
  <2> HIDE DEF b, c, r
  <2> QED
    BY <1>3, <2>0, <2>1, <2>2, <2>3, <2>4
<1> HIDE DEF b, c, r
<1>9. MoneyTypes'
  <2>1. wallet[u][t] + -b \in Nat /\ -b \in Int
    BY <1>1, <1>3, <1>5
  <2>2. wallet' \in [Users -> [Tokens -> Nat]]
    BY <1>1, <1>5, <2>1, CreditType
  <2>3. pool' \in [Tokens -> Nat]
    BY <1>1, <1>3, <1>5
  <2> QED
    BY <1>1, <1>5, <2>2, <2>3 DEF MoneyTypes
<1>10. \A y \in AuctionIds \ {x} : /\ auction'[y] = auction[y] /\ commitment'[y] = commitment[y]
                                   /\ revealed'[y] = revealed[y]
  BY <1>1, <1>4
<1>11. ASSUME Backed PROVE Backed'
  BY <1>1, <1>2, <1>8, <1>10, <1>11, OffersPay
<1> QED
  BY <1>9, <1>11 DEF MoneyMoves

(* What settling pays a user. *)
PaidTo(x, u) == Refund(u, x) + IF u = auction[x].seller THEN Proceeds(x) ELSE 0

(* Settling pays out all that was bid: the winners pay the seller the price and
   get the rest back, the others get all of it. *)
LEMMA AllIsPaid ==
  ASSUME AuctionsInv, NEW x \in AuctionIds, auction[x].phase = "Reveal"
  PROVE  /\ \A u \in Users : PaidTo(x, u) \in Nat
         /\ SumFunctionOnSet([u \in Users |-> PaidTo(x, u)], Users)
              = BidSum(commitment[x], revealed[x])
<1> DEFINE p == ClearingPrice(x)
           W == Winners(x)
           B == Bidders(x)
           seller == auction[x].seller
           c == commitment[x]
           n == Cardinality(W)
<1>1. AuctionTypes /\ AuctionOK(x) /\ c \in Commitments
  BY DEF AuctionsInv, AuctionTypes, Commitments
<1>2. PricedAt(x, p)
  <2>1. auction[x].capacity \in Nat /\ auction[x].minBid \in Reserves
    BY <1>1, AuctionAssumptions DEF AuctionOK
  <2> QED
    BY <1>1, <2>1, ClearingIsPriced
<1>3. /\ p \in Nat /\ W \subseteq B /\ B \subseteq Users /\ IsFiniteSet(W)
      /\ \A u \in W : c[u] >= p
  <2> HIDE DEF p
  <2> QED
    BY <1>1, <1>2, Outcome
<1>4. n \in Nat /\ IsFiniteSet(Users) /\ seller \in Users
  BY <1>1, <1>3, FS_CardinalityType, MarketplaceAssumptions DEF AuctionOK
<1>5. \A u \in Users : c[u] \in Nat
  <2>1. \A b \in Bids \cup {0} : b \in Nat
    BY AuctionAssumptions
  <2> QED
    BY <1>1, <2>1 DEF Commitments
<1>6. \A u : HasRevealed(u, x) <=> u \in B
  BY DEF HasRevealed, Bidders
<1> DEFINE R == [u \in Users |-> Refund(u, x)]
           P == [u \in Users |-> IF u \in {seller} THEN p * n ELSE 0]
           K == [u \in Users |-> IF u \in W THEN p ELSE 0]
           F == [u \in Users |-> IF \E k \in DOMAIN revealed[x] : revealed[x][k] = u
                                 THEN c[u] ELSE 0]
           A == [u \in Users |-> PaidTo(x, u)]
<1>7. p * n \in Nat
  <2> HIDE DEF p, n
  <2>1. \A i, j \in Nat : i * j \in Nat
    OBVIOUS
  <2> QED
    BY <1>3, <1>4, <2>1
<1>8. \A u \in Users : R[u] = IF u \notin B THEN 0 ELSE IF u \in W THEN c[u] - p ELSE c[u]
  BY <1>6 DEF Refund
<1>9. \A u \in Users : F[u] = IF u \in B THEN c[u] ELSE 0
  BY <1>6 DEF HasRevealed
<1>10. \A u \in Users : A[u] = R[u] + P[u] /\ A[u] = PaidTo(x, u)
  BY DEF PaidTo, Proceeds
<1>11. \A u \in Users : P[u] = (IF u \in {seller} THEN p * n ELSE 0) /\ K[u] = IF u \in W THEN p ELSE 0
  OBVIOUS
<1>12. BidSum(commitment[x], revealed[x]) = SumFunctionOnSet(F, Users)
  BY DEF BidSum
<1> HIDE DEF R, P, K, F, A, p, W, B, c, n, seller
<1>13. \A u \in Users : R[u] \in Nat /\ K[u] \in Nat /\ F[u] = R[u] + K[u]
  BY <1>3, <1>5, <1>8, <1>9, <1>11
<1>14. \A u \in Users : P[u] \in Nat
  BY <1>7, <1>11
<1>15. SumFunctionOnSet(F, Users) = SumFunctionOnSet(R, Users) + SumFunctionOnSet(K, Users)
  <2>1. \A u \in Users : R[u] \in Nat /\ K[u] \in Nat /\ F[u] = R[u] + K[u]
    BY <1>13
  <2> QED
    BY <1>4, <2>1, SumOfPlus
<1>16. SumFunctionOnSet(A, Users) = SumFunctionOnSet(R, Users) + SumFunctionOnSet(P, Users)
  <2>1. \A u \in Users : R[u] \in Nat /\ P[u] \in Nat /\ A[u] = R[u] + P[u]
    BY <1>10, <1>13, <1>14
  <2> QED
    BY <1>4, <2>1, SumOfPlus
<1>17. SumFunctionOnSet(K, Users) = p * n
  <2>1. W \in SUBSET Users /\ \A u \in Users : K[u] = IF u \in W THEN p ELSE 0
    BY <1>3, <1>11
  <2>2. SumFunctionOnSet(K, Users) = p * Cardinality(W)
    BY <1>3, <1>4, <2>1, SumOfShares
  <2> QED
    BY <2>2 DEF n
<1>18. SumFunctionOnSet(P, Users) = p * n
  <2> DEFINE q == p * n
           V == {seller}
  <2>1. q \in Nat /\ V \in SUBSET Users /\ \A u \in Users : P[u] = IF u \in V THEN q ELSE 0
    BY <1>4, <1>7, <1>11
  <2>3. Cardinality(V) = 1
    BY FS_Singleton
  <2> HIDE DEF q, V
  <2>2. SumFunctionOnSet(P, Users) = q * Cardinality(V)
    BY <1>4, <2>1, SumOfShares
  <2>4. q * 1 = q
    BY <2>1
  <2> QED
    BY <2>2, <2>3, <2>4 DEF q
<1>19. \A u \in Users : A[u] \in Nat
  BY <1>10, <1>13, <1>14
<1> QED
  BY <1>10, <1>12, <1>15, <1>16, <1>17, <1>18, <1>19 DEF A

(* Settling empties the auction. *)
LEMMA SettlePays ==
  ASSUME AuctionsInv, AuctionsInv', MoneyTypes, PurchaseTypes, NEW x \in AuctionIds,
         SettleAuction(x)
  PROVE  MoneyMoves
<1> DEFINE t == auction[x].token
           total == SumFunctionOnSet([u \in Users |-> PaidTo(x, u)], Users)
           held == BidSum(commitment[x], revealed[x])
<1>1. /\ auction[x].phase = "Reveal" /\ kept' = kept /\ escrow' = escrow
      /\ commitment' = commitment /\ revealed' = revealed
      /\ auction' = [auction EXCEPT ![x].phase = "Settled", ![x].price = ClearingPrice(x)]
  BY DEF SettleAuction, purchaseVars
<1>2. IF t = None THEN pool' = pool /\ wallet' = wallet
      ELSE /\ wallet' = [u \in Users |-> [wallet[u] EXCEPT ![t] = @ + PaidTo(x, u)]]
           /\ pool[t] >= total /\ pool' = [pool EXCEPT ![t] = @ - total]
  BY DEF SettleAuction, PaysOut, PaidTo
<1>3. /\ AuctionTypes /\ AuctionTypes' /\ AuctionOK(x)
      /\ auction \in [AuctionIds -> AuctionRecords] /\ commitment[x] \in Commitments
  BY DEF AuctionsInv, AuctionTypes, Commitments
<1>4. t \in Tokens \cup {None} /\ None \notin Tokens
  BY <1>3, MarketplaceAssumptions DEF AuctionRecords
<1>5. auction'[x].phase = "Settled" /\ \A y \in AuctionIds \ {x} : auction'[y] = auction[y]
  BY <1>1, <1>3 DEF AuctionRecords
<1>6. (\A u \in Users : PaidTo(x, u) \in Nat) /\ total = held /\ held \in Nat
  BY <1>1, <1>3, AllIsPaid, BidSumIsNat
<1>7. wallet \in [Users -> [Tokens -> Nat]] /\ pool \in [Tokens -> Nat] /\ kept \in [Tokens -> Nat]
  BY DEF MoneyTypes
<1> HIDE DEF total, held
<1>8. MoneyTypes'
  <2>1. CASE t = None
    BY <1>1, <1>2, <1>7, <2>1 DEF MoneyTypes
  <2>2. CASE t \in Tokens
    <3>1. pool[t] - total \in Nat
      BY <1>2, <1>4, <1>6, <1>7, <2>2
    <3>2. pool' \in [Tokens -> Nat]
      BY <1>2, <1>4, <1>7, <2>2, <3>1
    <3>3. ASSUME NEW u \in Users
          PROVE  [wallet[u] EXCEPT ![t] = @ + PaidTo(x, u)] \in [Tokens -> Nat]
      <4>1. wallet[u] \in [Tokens -> Nat] /\ wallet[u][t] + PaidTo(x, u) \in Nat
        BY <1>6, <1>7, <2>2
      <4> QED
        BY <2>2, <4>1
    <3>4. wallet' \in [Users -> [Tokens -> Nat]]
      BY <1>2, <1>4, <2>2, <3>3
    <3> QED
      BY <1>1, <1>7, <3>2, <3>4 DEF MoneyTypes
  <2> QED
    BY <1>4, <2>1, <2>2
<1>9. ASSUME NEW s \in Tokens
      PROVE  pool'[s] = pool[s] + (OfferedOf(auction'[x], commitment'[x], revealed'[x], s)
                                     - OfferedOf(auction[x], commitment[x], revealed[x], s))
  <2>1. OfferedOf(auction'[x], commitment'[x], revealed'[x], s) = 0
    BY <1>5 DEF OfferedOf
  <2>2. OfferedOf(auction[x], commitment[x], revealed[x], s) = IF s = t THEN held ELSE 0
    BY <1>1 DEF OfferedOf, held
  <2>3. pool[s] \in Int
    BY <1>7
  <2>4. pool'[s] = IF s = t THEN pool[s] - held ELSE pool[s]
    BY <1>2, <1>4, <1>6, <1>7
  <2> HIDE DEF t
  <2> QED
    BY <1>6, <2>1, <2>2, <2>3, <2>4
<1>10. \A y \in AuctionIds \ {x} : /\ auction'[y] = auction[y] /\ commitment'[y] = commitment[y]
                                   /\ revealed'[y] = revealed[y]
  BY <1>1, <1>5
<1>11. ASSUME Backed PROVE Backed'
  BY <1>1, <1>3, <1>9, <1>10, <1>11, OffersPay
<1> QED
  BY <1>8, <1>11 DEF MoneyMoves

(* A step that changes neither the escrows, the auctions nor the balances. *)
LEMMA MoneyUnmoved ==
  ASSUME MoneyTypes, escrow' = escrow, UNCHANGED money, UNCHANGED auctionParts
  PROVE  MoneyMoves
BY DEF MoneyMoves, MoneyTypes, Backed, BackedOK, money, auctionParts

(* Every operation on assets, purchases and disputes leaves the balance whole. *)
LEMMA MarketPays ==
  ASSUME RecordsInv, RecordsInv', AuctionsInv, MoneyTypes, now \in Nat,
         MarketNext, UNCHANGED auctionParts
  PROVE  MoneyMoves
<1>1. /\ AssetsInv /\ PurchasesInv /\ PurchasesInv' /\ DisputesInv /\ ProposalsInv /\ FreezeInv
      /\ PurchaseTypes /\ AuctionTypes
  BY DEF RecordsInv, PurchasesInv, AuctionsInv
<1>2. ASSUME NEW b \in Users, NEW a \in AssetIds, NEW t \in Tokens, PurchaseLicense(b, a, t)
      PROVE  MoneyMoves
  BY <1>1, <1>2, PurchasePays DEF PurchaseLicense
<1>3. ASSUME SubscriptionStep
      PROVE  MoneyMoves
  BY <1>1, <1>3, SubscriptionPays DEF SubscriptionStep
<1>4. ASSUME NEW b \in Users, NEW a \in AssetIds, NEW t \in Tokens, NEW m \in Periods,
             Subscribe(b, a, t, m) \/ RenewLicense(b, a, t, m) \/ RenewWithProration(b, a, t, m)
      PROVE  MoneyMoves
  BY <1>1, <1>3, <1>4, SubscriptionSteps
<1>16. ASSUME Initialize
       PROVE  MoneyMoves
  BY <1>16, MoneyUnmoved DEF Initialize
<1>5. ASSUME NEW i \in LicenseIds, ReleaseEscrow(i)
      PROVE  MoneyMoves
  BY <1>1, <1>5, ReleasePays
<1>6. ASSUME NEW i \in LicenseIds, RaisePurchaseDispute(i)
      PROVE  MoneyMoves
  BY <1>1, <1>6, RaisePays
<1>7. ASSUME NEW d \in DisputeIds, NEW votes \in Ballots, ResolvePurchaseDispute(d, votes)
      PROVE  MoneyMoves
  BY <1>1, <1>7, ResolvePays
<1>8. ASSUME NEW s \in Users, NEW p \in ProposalIds, ApprovePurchase(s, p)
      PROVE  MoneyMoves
  <2>1. CASE UNCHANGED <<assetVars, purchaseVars, disputeVars, money, now>>
    BY <2>1, MoneyUnmoved DEF purchaseVars
  <2>2. CASE /\ proposal[p].org \in Users /\ proposal[p].asset \in AssetIds
             /\ proposal[p].token \in Tokens
             /\ Purchase(proposal[p].org, proposal[p].asset, proposal[p].token, p)
    BY <1>1, <2>2, PurchasePays
  <2> QED
    BY <1>1, <1>8, <2>1, <2>2, ApprovedPurchase
<1>9. ASSUME NEW u \in Sellers, NEW k \in Kinds, NEW x \in Prices, ListAsset(u, k, x)
      PROVE  MoneyMoves
  BY <1>9, MoneyUnmoved DEF ListAsset, purchaseVars
<1>10. ASSUME NEW a \in AssetIds, DelistAsset(a) \/ \E x \in Prices : UpdatePrice(a, x)
       PROVE  MoneyMoves
  BY <1>10, MoneyUnmoved DEF DelistAsset, UpdatePrice, purchaseVars
<1>11. ASSUME NEW u \in Orgs, NEW a \in AssetIds, NEW t \in Tokens, ProposePurchase(u, a, t)
       PROVE  MoneyMoves
  BY <1>11, MoneyUnmoved DEF ProposePurchase, purchaseVars
<1>12. ASSUME NEW u \in Committee, RegisterArbitrator(u)
       PROVE  MoneyMoves
  BY <1>12, MoneyUnmoved DEF RegisterArbitrator, purchaseVars
<1>13. ASSUME NEW u \in Orgs, NEW p \in Policies, CreateApprovalPolicy(u, p)
       PROVE  MoneyMoves
  BY <1>13, MoneyUnmoved DEF CreateApprovalPolicy, purchaseVars
<1>14. ASSUME NEW s \in Users, NEW p \in ProposalIds, RejectPurchase(s, p)
       PROVE  MoneyMoves
  BY <1>14, MoneyUnmoved DEF RejectPurchase, purchaseVars
<1>15. ASSUME NEW ids \in SUBSET ProposalIds, ExpireStaleProposals(ids)
       PROVE  MoneyMoves
  BY <1>15, MoneyUnmoved DEF ExpireStaleProposals, purchaseVars
<1> QED
  BY <1>2, <1>3, <1>4, <1>5, <1>6, <1>7, <1>8, <1>9, <1>10, <1>11, <1>12, <1>13, <1>14, <1>15,
     <1>16 DEF MarketNext

(* Every step leaves the balance whole. *)
LEMMA MoneyNext ==
  ASSUME RecordsInv, RecordsInv', AuctionsInv, AuctionsInv', MoneyInv, now \in Nat,
         [AuctionsNext]_auctionVars
  PROVE  MoneyInv'
<1>1. AssetsInv /\ PurchaseTypes /\ MoneyTypes /\ FreezeInv
  BY DEF RecordsInv, PurchasesInv, MoneyInv
<1>2. MoneyMoves
  <2>1. CASE MarketNext /\ UNCHANGED auctionParts
    BY <1>1, <2>1, MarketPays
  <2>2. CASE AuctionStep
    <3>1. ASSUME \/ \E a \in AssetIds, c \in Capacities, m \in Reserves, d \in Durations :
                      OpenAuction(a, c, m, d)
                 \/ \E x \in AuctionIds : \/ BeginReveal(x)
                                          \/ \E u \in Users, n \in Bids : CommitBid(u, x, n)
          PROVE  MoneyMoves
      BY <1>1, <3>1, SealingPays
    <3>2. ASSUME NEW x \in AuctionIds, NEW u \in Users, NEW t \in Tokens, RevealBid(u, x, t)
          PROVE  MoneyMoves
      BY <1>1, <3>2, RevealPays
    <3>3. ASSUME NEW x \in AuctionIds, SettleAuction(x)
          PROVE  MoneyMoves
      BY <1>1, <3>3, SettlePays
    <3> QED
      BY <2>2, <3>1, <3>2, <3>3 DEF AuctionStep
  <2>3. CASE LedgerCloses
    BY <1>1, <2>3, MoneyUnmoved DEF LedgerCloses, purchaseVars
  <2>4. CASE UNCHANGED auctionVars
    BY <1>1, <2>4, MoneyUnmoved DEF auctionVars, marketVars, purchaseVars
  <2> QED
    BY <2>1, <2>2, <2>3, <2>4 DEF AuctionsNext
<1>3. CASE resets' = resets
  BY <1>1, <1>2, <1>3 DEF MoneyInv, MoneyMoves, FreezeInv
<1>4. CASE resets' = resets + 1
  BY <1>1, <1>2, <1>4 DEF MoneyInv, MoneyMoves, AssetsInv
<1> QED
  BY <1>1, <1>3, <1>4, AssetsNext

-----------------------------------------------------------------------------
(* Together. *)

(* No auction, no escrow and no money. *)
LEMMA MarketStarts ==
  ASSUME AuctionsInit, PurchaseTypes
  PROVE  AuctionsInv /\ MoneyInv
<1>1. AuctionTypes
  <2>1. NoAuction \in AuctionRecords
    BY DEF NoAuction, AuctionRecords
  <2>2. auctioned \in 0 .. MaxAuctions
    BY AuctionAssumptions DEF AuctionsInit
  <2>3. NoBids \in [Users -> Bids \cup {0}] /\ <<>> \in Seq(Users)
    BY DEF NoBids
  <2> QED
    BY <2>1, <2>2, <2>3 DEF AuctionsInit, AuctionTypes
<1>2. ASSUME NEW x \in AuctionIds PROVE AuctionOK(x)
  <2>1. auction[x] = NoAuction /\ revealed[x] = <<>>
    BY DEF AuctionsInit
  <2>2. DOMAIN revealed[x] = {} /\ auction[x].phase = "None"
    BY <2>1 DEF NoAuction
  <2> QED
    BY <2>1, <2>2 DEF AuctionOK
<1>3. MoneyTypes
  BY MarketplaceAssumptions DEF AuctionsInit, MarketInit, MoneyTypes
<1>4. ASSUME NEW t \in Tokens PROVE BackedOK(t)
  <2> DEFINE E == [i \in LicenseIds |-> HeldOf(escrow[i], t)]
             F == [x \in AuctionIds |-> OfferedOf(auction[x], commitment[x], revealed[x], t)]
  <2>1. \A i \in LicenseIds : E[i] = 0
    BY DEF AuctionsInit, MarketInit, NoEscrow, HeldOf, Live
  <2>2. \A x \in AuctionIds : F[x] = 0
    BY DEF AuctionsInit, NoAuction, OfferedOf
  <2>3. EscrowSum(escrow, t) = SumFunctionOnSet(E, LicenseIds)
        /\ OfferedSum(auction, commitment, revealed, t) = SumFunctionOnSet(F, AuctionIds)
    BY DEF EscrowSum, OfferedSum
  <2> HIDE DEF E, F
  <2>4. EscrowSum(escrow, t) = 0
    BY <2>1, <2>3, IdsFinite, SumOfZeros
  <2>5. OfferedSum(auction, commitment, revealed, t) = 0
    BY <2>2, <2>3, IdsFinite, SumOfZeros
  <2>6. pool[t] = 0 /\ kept[t] = 0
    BY DEF AuctionsInit, MarketInit
  <2> QED
    BY <2>4, <2>5, <2>6 DEF BackedOK
<1> QED
  BY <1>1, <1>2, <1>3, <1>4 DEF AuctionsInv, MoneyInv, Backed

(* Records, auctions and money are in order in every state. *)
LEMMA MarketAlways == AuctionsSpec => [](RecordsInv /\ now \in Nat /\ AuctionsInv /\ MoneyInv)
<1>1. AuctionsInit /\ RecordsInv => AuctionsInv /\ MoneyInv
  BY MarketStarts DEF RecordsInv, PurchasesInv
<1>2. ASSUME RecordsInv, now \in Nat, RecordsInv', AuctionsInv, MoneyInv, [AuctionsNext]_auctionVars
      PROVE  AuctionsInv' /\ MoneyInv'
  <2>1. AuctionsInv'
    BY <1>2, AuctionsInvNext DEF RecordsInv
  <2> QED
    BY <1>2, <2>1, MoneyNext
<1>3. RecordsInv /\ now \in Nat /\ RecordsInv' /\ AuctionsInv /\ MoneyInv /\ [AuctionsNext]_auctionVars
        => AuctionsInv' /\ MoneyInv'
  BY <1>2
<1> QED
  BY <1>1, <1>3, RecordsAlways, PTL DEF AuctionsSpec

(* As long as the contract is initialized only once: purchases, disputes,
   subscriptions and auctions pay from one balance, each by its own records, and
   each leaves the others' money whole. *)
THEOREM MarketAlwaysBacked == AuctionsSpec => []MarketPoolBacked
<1>1. MoneyInv => MarketPoolBacked
  BY SumsOfModel DEF MoneyInv, Backed, BackedOK, MarketPoolBacked
<1> QED
  BY <1>1, MarketAlways, PTL

(* Every variable has its type; the balances and the wallets in particular are
   never below nothing. *)
THEOREM MarketTypeCorrect == AuctionsSpec => []AuctionsTypeOK
<1>1. RecordsInv /\ now \in Nat /\ AuctionsInv /\ MoneyInv => AuctionsTypeOK
  <2> SUFFICES ASSUME RecordsInv, now \in Nat, AuctionsInv, MoneyInv
               PROVE  AuctionsTypeOK
    OBVIOUS
  <2>1. AssetsInv /\ PurchasesInv /\ DisputesInv /\ ProposalsInv /\ FreezeInv /\ BuysInv
    BY DEF RecordsInv
  <2>2. dispute \in [DisputeIds -> DisputeRecords] /\ bought \in [ProposalIds -> Seq(Users)]
    BY <2>1 DEF DisputesInv, DisputeTypes, BuysInv
  <2>6. pool \in [Tokens -> Nat] /\ wallet \in [Users -> [Tokens -> Nat]] /\ kept \in [Tokens -> Nat]
    BY DEF MoneyInv, MoneyTypes
  <2>7. /\ listed \in 0 .. MaxAssets /\ licensed \in 0 .. MaxLicenses
        /\ disputed \in 0 .. MaxDisputes /\ proposed \in 0 .. MaxProposals
        /\ resets \in 0 .. MaxResets /\ arbiters \subseteq Users
        /\ license \in [Users -> [AssetIds -> Licences]]
        /\ policy \in [Users -> Policies \cup {NoPolicy}]
    BY <2>1 DEF AssetsInv, PurchasesInv, PurchaseTypes, DisputesInv, DisputeTypes,
                ProposalsInv, ProposalTypes
  <2>8. /\ asset \in [AssetIds -> AssetRecords] /\ escrow \in [LicenseIds -> EscrowRecords]
        /\ proposal \in [ProposalIds -> ProposalRecords]
    BY <2>1 DEF AssetsInv, PurchasesInv, PurchaseTypes, ProposalsInv, ProposalTypes
  <2>9. MarketTypeOK
    BY <2>2, <2>6, <2>7, <2>8
    DEF MarketTypeOK, AssetRecords, EscrowRecords, DisputeRecords, ProposalRecords
  <2>10. \A x \in AuctionIds : \A k \in DOMAIN revealed[x] : revealed[x][k] \in Users
    BY OffersType DEF AuctionsInv
  <2> QED
    BY <2>9, <2>10 DEF AuctionsTypeOK, AuctionsInv, AuctionTypes, AuctionRecords
<1> QED
  BY <1>1, MarketAlways, PTL

(* The least of two numbers, and the greatest of a set of them. *)
LEMMA MinOfTwo ==
  ASSUME NEW a \in Nat, NEW b \in Nat
  PROVE  Min({a, b}) = IF b > a THEN a ELSE b
<1> DEFINE m == IF b > a THEN a ELSE b
<1>1. m \in {a, b} /\ \A y \in {a, b} : m <= y
  OBVIOUS
<1>2. \A x \in {a, b} : (\A y \in {a, b} : x <= y) => x = m
  OBVIOUS
<1> HIDE DEF m
<1> QED
  BY <1>1, <1>2 DEF Min, m

(* A number of the set that none exceeds is its greatest. *)
LEMMA MaxIsLargest ==
  ASSUME NEW S \in SUBSET Nat, NEW m \in S, \A y \in S : y <= m
  PROVE  Max(S) = m
<1>1. \A x \in S : (\A y \in S : x >= y) => x = m
  OBVIOUS
<1>2. \A y \in S : m >= y
  OBVIOUS
<1> QED
  BY <1>1, <1>2 DEF Max

(* The outcome of a settled auction is that of a uniform-price auction over the
   bids as they were sealed before the first was opened, whichever reveals came
   in whatever order, ties included. *)
THEOREM ClearingAlwaysFair == AuctionsSpec => []ClearingIsFair
<1>1. AuctionsInv => ClearingIsFair
  <2> SUFFICES ASSUME AuctionsInv, NEW x \in AuctionIds, auction[x].phase = "Settled"
               PROVE  LET bidders == {revealed[x][k] : k \in DOMAIN revealed[x]}
                          price == auction[x].price
                          winners == Winners(x)
                      IN /\ \A u \in bidders : commitment[x][u] = sealed[x][u]
                         /\ Cardinality(winners) = Min({auction[x].capacity, Cardinality(bidders)})
                         /\ \A u \in winners : sealed[x][u] >= price
                         /\ \A u \in bidders \ winners : sealed[x][u] <= price
                         /\ price = IF winners = bidders THEN auction[x].minBid
                                    ELSE Max({sealed[x][u] : u \in bidders \ winners})
    BY DEF ClearingIsFair
  <2> DEFINE B == Bidders(x)
             W == Winners(x)
             p == auction[x].price
             n == Len(revealed[x])
             c == auction[x].capacity
  <2>1. AuctionTypes /\ AuctionOK(x)
    BY DEF AuctionsInv
  <2>2. sealed[x] = commitment[x] /\ PricedAt(x, p) /\ c \in Nat
    BY <2>1, AuctionAssumptions DEF AuctionOK
  <2>3. /\ p \in Nat /\ W \subseteq B /\ B \subseteq Users /\ Cardinality(B) = n
        /\ Cardinality(W) = IF n > c THEN c ELSE n
        /\ \A u \in W : commitment[x][u] >= p
        /\ \A u \in B \ W : commitment[x][u] <= p
        /\ IF n > c THEN \E u \in B \ W : commitment[x][u] = p
           ELSE W = B /\ p = auction[x].minBid
    <3> HIDE DEF p
    <3> QED
      BY <2>1, <2>2, Outcome
  <2>4. n \in Nat
    BY <2>1, OffersType
  <2>5. B = {revealed[x][k] : k \in DOMAIN revealed[x]}
    BY DEF Bidders
  <2> HIDE DEF B, W, p, n, c
  <2>6. Cardinality(W) = Min({c, Cardinality(B)})
    BY <2>2, <2>3, <2>4, MinOfTwo
  <2>7. \A u \in Users : sealed[x][u] \in Nat
    <3>1. \A b \in Bids \cup {0} : b \in Nat
      BY AuctionAssumptions
    <3> QED
      BY <2>1, <3>1 DEF AuctionTypes
  <2>8. p = IF W = B THEN auction[x].minBid ELSE Max({sealed[x][u] : u \in B \ W})
    <3>1. CASE n > c
      <4> DEFINE S == {sealed[x][u] : u \in B \ W}
      <4>1. S \in SUBSET Nat /\ p \in S /\ \A y \in S : y <= p
        BY <2>2, <2>3, <2>7, <3>1
      <4> HIDE DEF S
      <4>2. Max(S) = p
        BY <4>1, MaxIsLargest
      <4>3. W # B
        BY <2>3, <3>1
      <4> QED
        BY <4>2, <4>3 DEF S
    <3>2. CASE ~ (n > c)
      BY <2>3, <3>2
    <3> QED
      BY <3>1, <3>2
  <2>9. /\ \A u \in B : commitment[x][u] = sealed[x][u]
        /\ \A u \in W : sealed[x][u] >= p
        /\ \A u \in B \ W : sealed[x][u] <= p
    BY <2>2, <2>3
  <2> QED
    BY <2>5, <2>6, <2>8, <2>9 DEF W, p, c
<1> QED
  BY <1>1, MarketAlways, PTL

-----------------------------------------------------------------------------
(***************************************************************************)
(* What the arithmetic of CapacityMarket promises for every fee, every     *)
(* utilisation, every window and every pair of calls.                      *)
(*                                                                         *)
(* The products of a fee and a utilisation are the only nonlinear terms;   *)
(* the lemmas state what is needed of them, and the rest is linear.        *)
(***************************************************************************)

Fees == MinFee .. MaxFee

(* The two large figures are only ever used through these bounds. *)
LEMMA Figures ==
  /\ MinFee \in Nat /\ MaxFee \in Nat /\ MinFee <= MaxFee
  /\ Boost \in Nat /\ Bonus = 100 /\ MaxAge = 5
BY SMT DEF MinFee, MaxFee, Boost, Bonus, MaxAge

(* A share of a fee, whichever it is, is a natural number. *)
LEMMA ShareIsNatural ==
  ASSUME NEW fee \in Nat, NEW part \in Nat
  PROVE  (fee * part) \div (Target * Smoothing) \in Nat
<1>1. fee * part \in Nat
  OBVIOUS
<1>2. \A x \in Nat : x \div (Target * Smoothing) \in Nat
  BY DEF Target, Smoothing
<1> QED
  BY <1>1, <1>2

(* From the least fee on, the greatest change is at least 1 and less than the
   fee, so that it caps every change. *)
LEMMA CapBounds ==
  ASSUME NEW fee \in Nat, fee >= MinFee
  PROVE  /\ MaxDelta(fee) \in Nat /\ MaxDelta(fee) >= 1 /\ MaxDelta(fee) < fee
         /\ \A delta \in Nat : /\ Capped(fee, delta) \in Nat
                               /\ Capped(fee, delta) <= MaxDelta(fee)
                               /\ Capped(fee, delta) <= delta
                               /\ delta >= 1 => Capped(fee, delta) >= 1
<1>1. /\ MaxDelta(fee) \in Nat /\ MaxDelta(fee) >= 1 /\ MaxDelta(fee) < fee
  BY DEF MaxDelta, MaxChange, MinFee
<1> QED
  BY <1>1 DEF Capped

(* How much a fee may rise in one step. *)
LEMMA RiseBounds ==
  ASSUME NEW fee \in Nat, fee >= MinFee, NEW util \in Nat, util > Target
  PROVE  Rise(fee, util) \in 1 .. MaxDelta(fee)
<1> DEFINE delta == (fee * (util - Target)) \div (Target * Smoothing)
<1>1. util - Target \in Nat
  BY DEF Target
<1>2. delta \in Nat
  BY <1>1, ShareIsNatural
<1> DEFINE step == IF delta = 0 THEN 1 ELSE delta
<1>3. step \in Nat /\ step >= 1
  BY <1>2
<1>4. Rise(fee, util) = Capped(fee, step)
  BY DEF Rise
<1> HIDE DEF step
<1> QED
  BY <1>3, <1>4, CapBounds

(* And how much it may fall. *)
LEMMA FallBounds ==
  ASSUME NEW fee \in Nat, fee >= MinFee, NEW util \in Nat, util < Target
  PROVE  Fall(fee, util) \in 0 .. MaxDelta(fee) /\ Fall(fee, util) < fee
<1> DEFINE delta == (fee * (Target - util)) \div (Target * Smoothing)
<1>1. Target - util \in Nat
  BY DEF Target
<1>2. delta \in Nat
  BY <1>1, ShareIsNatural
<1>3. Fall(fee, util) = Capped(fee, delta)
  BY DEF Fall
<1> HIDE DEF delta
<1> QED
  BY <1>2, <1>3, CapBounds

-----------------------------------------------------------------------------
(* The base fee stays between its floor and its ceiling, and moves by an eighth
   at most from one window to the next, up or down, whatever utilisation is
   reported: calculateNextBaseFee rounds a rise up to one and clamps twice. *)
THEOREM BaseFeeStepIsBounded ==
  ASSUME NEW fee \in Fees, NEW utilisation \in Int
  PROVE  /\ NextBaseFee(fee, utilisation) \in Fees
         /\ NextBaseFee(fee, utilisation) - fee <= MaxDelta(fee)
         /\ fee - NextBaseFee(fee, utilisation) <= MaxDelta(fee)
<1> DEFINE util == Greatest(0, Least(10000, utilisation))
<1>1. util \in Nat
  BY DEF Greatest, Least
<1>2. fee \in Nat /\ fee >= MinFee /\ fee <= MaxFee
  BY Figures DEF Fees
<1>3. MaxDelta(fee) \in Nat
  BY <1>2, CapBounds
<1>4. \A next \in Int :
        next - fee <= MaxDelta(fee) /\ fee - next <= MaxDelta(fee) =>
          /\ Clamp(next) \in Fees
          /\ Clamp(next) - fee <= MaxDelta(fee)
          /\ fee - Clamp(next) <= MaxDelta(fee)
  BY Figures, <1>2, <1>3 DEF Clamp, Least, Fees
<1> HIDE DEF util
<1>5. CASE util = Target
  <2>1. NextBaseFee(fee, utilisation) = Clamp(fee)
    BY <1>5 DEF NextBaseFee, util
  <2> QED
    BY <2>1, <1>2, <1>3, <1>4
<1>6. CASE util > Target
  <2>1. Rise(fee, util) \in 1 .. MaxDelta(fee)
    BY <1>1, <1>2, <1>6, RiseBounds
  <2>2. NextBaseFee(fee, utilisation) = Clamp(fee + Rise(fee, util))
    BY <1>1, <1>6 DEF NextBaseFee, util, Target
  <2> QED
    BY <2>1, <2>2, <1>2, <1>3, <1>4
<1>7. CASE util < Target
  <2>1. Fall(fee, util) \in 0 .. MaxDelta(fee) /\ Fall(fee, util) < fee
    BY <1>1, <1>2, <1>7, FallBounds
  <2>2. NextBaseFee(fee, utilisation) = Clamp(fee - Fall(fee, util))
    BY <1>1, <1>2, <1>7, <2>1, <1>3 DEF NextBaseFee, util, Target
  <2> QED
    BY <2>1, <2>2, <1>2, <1>3, <1>4
<1> QED
  BY <1>1, <1>5, <1>6, <1>7 DEF Target

(* The estimate of the backend is what the contract will fix for the same
   window, except above the ceiling, which the contract does not have. *)
THEOREM ContractFeeAgrees ==
  ASSUME NEW fee \in Fees, NEW utilisation \in Nat
  PROVE  NextBaseFee(fee, utilisation) = Least(NextContractFee(fee, utilisation), MaxFee)
<1> DEFINE util == Least(utilisation, 10000)
<1>1. util \in Nat
  BY DEF Least
<1>2. Greatest(0, Least(10000, utilisation)) = util
  BY DEF Greatest, Least
<1>3. fee \in Nat /\ fee >= MinFee /\ fee <= MaxFee
  BY Figures DEF Fees
<1>4. MaxDelta(fee) \in Nat
  BY <1>3, CapBounds
<1> HIDE DEF util
<1>5. CASE util = Target
  <2>1. NextBaseFee(fee, utilisation) = Clamp(fee) /\ NextContractFee(fee, utilisation) = fee
    BY <1>2, <1>5 DEF NextBaseFee, NextContractFee, util
  <2> QED
    BY Figures, <2>1, <1>3 DEF Clamp, Least
<1>6. CASE util > Target
  <2>1. Rise(fee, util) \in 1 .. MaxDelta(fee)
    BY <1>1, <1>3, <1>6, RiseBounds
  <2>2. util # Target
    BY <1>1, <1>6 DEF Target
  <2>3. /\ NextBaseFee(fee, utilisation) = Clamp(fee + Rise(fee, util))
        /\ NextContractFee(fee, utilisation) = fee + Rise(fee, util)
    BY <1>2, <1>6, <2>2 DEF NextBaseFee, NextContractFee, util
  <2> QED
    BY Figures, <2>1, <2>3, <1>3, <1>4 DEF Clamp, Least
<1>7. CASE util < Target
  <2>1. Fall(fee, util) \in 0 .. MaxDelta(fee) /\ Fall(fee, util) < fee
    BY <1>1, <1>3, <1>7, FallBounds
  <2>2. util # Target /\ ~ util > Target /\ fee > Fall(fee, util)
    BY <1>1, <1>3, <1>4, <1>7, <2>1 DEF Target
  <2>3. /\ NextBaseFee(fee, utilisation) = Clamp(fee - Fall(fee, util))
        /\ NextContractFee(fee, utilisation) = Greatest(fee - Fall(fee, util), MinFee)
    BY <1>2, <2>2 DEF NextBaseFee, NextContractFee, util
  <2> QED
    BY Figures, <2>1, <2>3, <1>3, <1>4 DEF Clamp, Least, Greatest
<1> QED
  BY <1>1, <1>5, <1>6, <1>7 DEF Target

(* The rounding is one-sided: any use above the target raises the fee, by one at
   least, while use so little below it that the change rounds to nothing leaves
   the fee where it is.  Use that stays close to the target on both sides does
   not bring a fee back. *)
THEOREM FeeRisesEasierThanItFalls ==
  ASSUME NEW fee \in Fees, NEW util \in 0 .. 10000
  PROVE  /\ util > Target /\ fee < MaxFee => NextBaseFee(fee, util) > fee
         /\ util < Target /\ fee * (Target - util) < Target * Smoothing =>
              NextBaseFee(fee, util) = fee
<1>1. fee \in Nat /\ fee >= MinFee /\ fee <= MaxFee /\ util \in Nat
  BY Figures DEF Fees
<1>2. Greatest(0, Least(10000, util)) = util
  BY DEF Greatest, Least
<1>3. MaxDelta(fee) \in Nat
  BY <1>1, CapBounds
<1>4. ASSUME util > Target, fee < MaxFee
      PROVE  NextBaseFee(fee, util) > fee
  <2>1. Rise(fee, util) \in 1 .. MaxDelta(fee)
    BY <1>1, <1>4, RiseBounds
  <2>2. util # Target
    BY <1>1, <1>4 DEF Target
  <2>3. NextBaseFee(fee, util) = Clamp(fee + Rise(fee, util))
    BY <1>2, <1>4, <2>2 DEF NextBaseFee
  <2> QED
    BY Figures, <2>1, <2>3, <1>1, <1>3, <1>4 DEF Clamp, Least
<1>5. ASSUME util < Target, fee * (Target - util) < Target * Smoothing
      PROVE  NextBaseFee(fee, util) = fee
  <2>1. Target - util \in Nat
    BY <1>1, <1>5 DEF Target
  <2>2. fee * (Target - util) \in Nat
    BY <1>1, <2>1
  <2>3. \A x \in Nat : x < Target * Smoothing => x \div (Target * Smoothing) = 0
    BY DEF Target, Smoothing
  <2>4. Fall(fee, util) = Capped(fee, 0)
    BY <1>5, <2>2, <2>3 DEF Fall
  <2>5. Fall(fee, util) = 0
    BY <2>4, <1>1, <1>3 DEF Capped
  <2>6. util # Target /\ ~ util > Target
    BY <1>1, <1>5 DEF Target
  <2>7. NextBaseFee(fee, util) = Clamp(IF fee > 0 THEN fee - 0 ELSE MinFee)
    BY <1>2, <2>5, <2>6 DEF NextBaseFee
  <2> QED
    BY Figures, <2>7, <1>1 DEF Clamp, Least
<1> QED
  BY <1>4, <1>5

-----------------------------------------------------------------------------
Windows == [id : Nat, consumed : Nat, carry : Nat, max : Nat, target : Nat]
WithinCapacity(w) ==
  /\ w \in Windows
  /\ w.target <= w.max
  /\ w.consumed + w.carry <= w.max

(* Advancing a window keeps it within its capacity. *)
LEMMA AdvanceKeepsCapacity ==
  ASSUME NEW w, WithinCapacity(w), NEW id \in Nat
  PROVE  /\ WithinCapacity(Advanced(w, id))
         /\ id > w.id => /\ Advanced(w, id).consumed = 0
                         /\ 10 * Advanced(w, id).carry <= w.max - w.target
<1>1. /\ w.consumed \in Nat /\ w.carry \in Nat /\ w.max \in Nat /\ w.target \in Nat /\ w.id \in Nat
      /\ w.target <= w.max /\ w.consumed + w.carry <= w.max
  BY DEF WithinCapacity, Windows
<1> DEFINE overload == Greatest(0, w.consumed + w.carry - w.target)
           carried == IF id = w.id + 1 THEN overload \div 10 ELSE 0
<1>2. overload \in Nat /\ overload <= w.max - w.target
  BY <1>1 DEF Greatest
<1>3. carried \in Nat /\ 10 * carried <= w.max - w.target /\ carried <= w.max
  <2> HIDE DEF overload
  <2>1. overload \div 10 \in Nat /\ 10 * (overload \div 10) <= overload
    BY <1>2
  <2> QED
    BY <1>1, <1>2, <2>1
<1>4. CASE id > w.id
  <2>1. Advanced(w, id) = [id |-> id, consumed |-> 0, max |-> w.max, target |-> w.target,
                        carry |-> carried]
    BY <1>4 DEF Advanced
  <2> HIDE DEF carried
  <2>2. /\ Advanced(w, id) \in Windows
        /\ Advanced(w, id).consumed = 0 /\ Advanced(w, id).carry = carried
        /\ Advanced(w, id).max = w.max /\ Advanced(w, id).target = w.target
    BY <2>1, <1>1, <1>3 DEF Windows
  <2> QED
    BY <2>2, <1>1, <1>3 DEF WithinCapacity
<1>5. CASE ~ id > w.id
  BY <1>5 DEF Advanced
<1> QED
  BY <1>4, <1>5

(* A window never admits more than it has room for, counting what it carries, and
   what is carried into the next is at most a tenth of what a window can be
   overloaded by: a chain of bursts across boundaries does not add up to a
   window that is full before it begins. *)
THEOREM CapacityIsNeverExceeded ==
  ASSUME NEW w, WithinCapacity(w), NEW units \in Nat, NEW id \in Nat
  PROVE  /\ WithinCapacity(Consumed(w, units, id))
         /\ id > w.id => 10 * Consumed(w, units, id).carry <= w.max - w.target
<1> DEFINE v == Advanced(w, id)
<1>1. WithinCapacity(v) /\ (id > w.id => 10 * v.carry <= w.max - w.target)
  BY AdvanceKeepsCapacity
<1> HIDE DEF v
<1>2. Consumed(w, units, id) = IF Admits(v, units) THEN [v EXCEPT !.consumed = @ + units] ELSE v
  BY DEF Consumed, v
<1>3. CASE Admits(v, units)
  <2>1. /\ v.consumed \in Nat /\ v.carry \in Nat /\ v.max \in Nat /\ v.target \in Nat
    BY <1>1 DEF WithinCapacity, Windows
  <2>2. Consumed(w, units, id) = [v EXCEPT !.consumed = v.consumed + units]
    BY <1>2, <1>3
  <2>3. v.consumed + units \in Nat
    BY <2>1
  <2>4. /\ Consumed(w, units, id) \in Windows
        /\ Consumed(w, units, id).consumed = v.consumed + units
        /\ Consumed(w, units, id).carry = v.carry
        /\ Consumed(w, units, id).max = v.max /\ Consumed(w, units, id).target = v.target
    BY <2>2, <2>3, <1>1 DEF WithinCapacity, Windows
  <2> QED
    BY <2>1, <2>4, <1>1, <1>3 DEF WithinCapacity, Admits
<1>4. CASE ~ Admits(v, units)
  BY <1>1, <1>2, <1>4
<1> QED
  BY <1>3, <1>4

-----------------------------------------------------------------------------
Calls == [tip : Nat, since : Nat, at : Nat]
Aged(c, window) == window - c.since >= MaxAge

(* No starvation by newcomers: a call that has waited MaxAge windows is served
   before every call that has not, unless that one's tip makes up for the boost.
   Among calls that have waited so long a later one is served first only if its
   tip makes up for the difference of their ages. *)
THEOREM AgedCallPrecedes ==
  ASSUME NEW a \in Calls, NEW b \in Calls, NEW window \in Nat, Aged(a, window)
  PROVE  /\ ~ Aged(b, window) /\ b.tip <= a.tip + Boost => Precedes(a, b, window)
         /\ Aged(b, window) /\ b.since > a.since
            /\ b.tip < a.tip + (b.since - a.since) * Bonus => Precedes(a, b, window)
<1>1. /\ a.tip \in Nat /\ a.since \in Nat /\ b.tip \in Nat /\ b.since \in Nat
  BY DEF Calls
<1>2. EffectiveTip(a, window) = a.tip + (window - a.since) * Bonus + Boost
  BY Figures, <1>1 DEF Aged, EffectiveTip, Greatest
<1>3. ASSUME ~ Aged(b, window), b.tip <= a.tip + Boost
      PROVE  Precedes(a, b, window)
  <2>1. EffectiveTip(b, window) <= b.tip + 4 * Bonus
    BY Figures, <1>1, <1>3 DEF Aged, EffectiveTip, Greatest
  <2>2. EffectiveTip(a, window) >= a.tip + 5 * Bonus + Boost
    BY Figures, <1>1, <1>2 DEF Aged
  <2>3. EffectiveTip(a, window) \in Int /\ EffectiveTip(b, window) \in Int
    BY Figures, <1>1 DEF EffectiveTip, Greatest
  <2> QED
    BY Figures, <1>1, <1>3, <2>1, <2>2, <2>3 DEF Precedes
<1>4. ASSUME Aged(b, window), b.since > a.since, b.tip < a.tip + (b.since - a.since) * Bonus
      PROVE  Precedes(a, b, window)
  <2>1. EffectiveTip(b, window) = b.tip + (window - b.since) * Bonus + Boost
    BY Figures, <1>1, <1>4 DEF Aged, EffectiveTip, Greatest
  <2> QED
    BY Figures, <1>1, <1>2, <1>4, <2>1 DEF Precedes
<1> QED
  BY <1>3, <1>4
=============================================================================
