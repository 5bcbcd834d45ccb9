----------------------------- MODULE Marketplace -----------------------------
(***************************************************************************)
(* The marketplace contract (contract/contracts/marketplace/src/lib.rs):   *)
(* assets, purchases held in escrow, their disputes before a committee, and *)
(* the proposals by which an organisation buys with several signatures.    *)
(* Auctions extends it with the sealed-bid auctions that share its balance. *)
(*                                                                         *)
(* An action is one entry point that succeeds; a call that traps or returns *)
(* an Err changes nothing.  The clock is the ledger's sequence number.     *)
(* Init is the contract once it has been initialized; nothing stops anybody *)
(* from initializing it again, which starts the numbers of assets, licences *)
(* and disputes anew and leaves the records under them (Initialize).       *)
(***************************************************************************)
EXTENDS Integers, FiniteSets, FiniteSetsExt, Functions, Sequences

CONSTANTS Users,        \* addresses
          Sellers, Orgs, Committee, \* those that list, have a policy, may be arbitrators
          Tokens,       \* token contracts
          None,         \* no address, no token
          Kinds,        \* licence types of assets; "Subscription" is one
          Prices,       \* prices an asset may be given; update_price accepts 0
          Periods,      \* months a subscription is paid for at once
          Policies,     \* approval policies an organisation may have
          Ballots,      \* lists of votes that may be passed in a resolution
          Hold,         \* ESCROW_HOLD_LEDGERS
          Budget,       \* what each user has of each token at the start
          MaxAssets, MaxLicenses, MaxDisputes, MaxProposals, \* bounds
          MaxResets,    \* bound: how often it is initialized again
          MaxTime       \* bound: ledger after which nothing new is begun

Decisions == {"None", "FullRefund", "ReleaseToSeller", "PartialRefund"}

(* Addresses have a fixed length.  required_signers is compared with the length
   of a list that may name a signer twice, so it may be more than there are
   signers. *)
ASSUME MarketplaceAssumptions ==
  /\ IsFiniteSet(Users) /\ None \notin Users \cup Tokens
  /\ Sellers \cup Orgs \cup Committee \subseteq Users
  /\ Prices \cup Periods \subseteq Nat /\ Hold \in Nat /\ Budget \in Nat
  /\ MaxAssets \in Nat /\ MaxLicenses \in Nat /\ MaxDisputes \in Nat /\ MaxProposals \in Nat
  /\ MaxResets \in Nat /\ MaxTime \in Nat
  /\ Policies \subseteq [required : Nat \ {0}, signers : SUBSET Users]
  /\ Ballots \subseteq Seq([voter : Users, decision : Decisions, bps : Nat])

VARIABLES asset,     \* listings
          listed,    \* ASSET_COUNT
          escrow,    \* EscrowHold by licence
          licensed,  \* LICENSE_COUNT
          license,   \* the type of the licence stored for a buyer and an asset
          arbiters,  \* the committee
          dispute,   \* purchase disputes
          disputed,  \* DISPUTE_COUNT
          policy,    \* approval policy of each organisation
          proposal,  \* purchase proposals
          proposed,  \* PROPOSAL_COUNT
          pool,      \* the contract's own balance of each token
          wallet,    \* everybody else's
          now,       \* ledger sequence
          resets,    \* history: how often it was initialized again
          bought,    \* history: who bought what each proposal was for
          kept       \* history: what subscribers have paid in each token

assetVars == <<asset, listed, resets>>
purchaseVars == <<escrow, licensed, license, bought>>
disputeVars == <<arbiters, dispute, disputed>>
proposalVars == <<policy, proposal, proposed>>
money == <<pool, wallet, kept>>
marketVars == <<assetVars, purchaseVars, disputeVars, proposalVars, money, now>>

AssetIds == 1 .. MaxAssets
LicenseIds == 1 .. MaxLicenses
DisputeIds == 1 .. MaxDisputes
ProposalIds == 1 .. MaxProposals

NoAsset == [owner |-> None, kind |-> "None", price |-> 0, active |-> FALSE]
NoEscrow == [buyer |-> None, seller |-> None, token |-> None, amount |-> 0,
             until |-> 0, status |-> "None"]
NoDispute == [license |-> 0, status |-> "None"]
NoPolicy == [required |-> 0, signers |-> {}]
NoProposal == [org |-> None, asset |-> 0, token |-> None, status |-> "None",
               approved |-> {}]

Live == {"Held", "Disputed"}

(* What a buyer may have for an asset: a licence of the asset's type that was
   purchased, or one with an end, that was subscribed to or has been renewed. *)
Licences == Kinds \cup {"None", "Subscribed"}

Credit(w, u, t, n) == [w EXCEPT ![u][t] = @ + n]

(* The contract transfers n; the token lets it spend no more than it has. *)
PaysOut(t, n) == pool[t] >= n /\ pool' = [pool EXCEPT ![t] = @ - n]

MarketInit ==
  /\ asset = [a \in AssetIds |-> NoAsset] /\ listed = 0
  /\ escrow = [i \in LicenseIds |-> NoEscrow] /\ licensed = 0
  /\ license = [u \in Users |-> [a \in AssetIds |-> "None"]]
  /\ arbiters = {}
  /\ dispute = [d \in DisputeIds |-> NoDispute] /\ disputed = 0
  /\ policy = [u \in Users |-> NoPolicy]
  /\ proposal = [p \in ProposalIds |-> NoProposal] /\ proposed = 0
  /\ pool = [t \in Tokens |-> 0]
  /\ wallet = [u \in Users |-> [t \in Tokens |-> Budget]]
  /\ now = 0
  /\ resets = 0
  /\ bought = [p \in ProposalIds |-> <<>>]
  /\ kept = [t \in Tokens |-> 0]

(* initialize, once more: it has no guard but the signature of the owner it is
   given, so anybody may call it.  The counts of proposals and auctions and all
   the records stay. *)
Initialize ==
  /\ resets < MaxResets
  /\ resets' = resets + 1
  /\ listed' = 0 /\ licensed' = 0 /\ disputed' = 0
  /\ UNCHANGED <<asset, escrow, license, bought, arbiters, dispute, proposalVars, money, now>>

-----------------------------------------------------------------------------
(* Assets. *)

ListAsset(u, kind, price) ==
  /\ listed < MaxAssets
  /\ price > 0
  /\ listed' = listed + 1
  /\ asset' = [asset EXCEPT ![listed + 1] =
                  [owner |-> u, kind |-> kind, price |-> price, active |-> TRUE]]
  /\ UNCHANGED <<resets, purchaseVars, disputeVars, proposalVars, money, now>>

(* For good: nothing makes an asset active again. *)
DelistAsset(a) ==
  /\ asset[a].owner # None
  /\ asset' = [asset EXCEPT ![a].active = FALSE]
  /\ UNCHANGED <<listed, resets, purchaseVars, disputeVars, proposalVars, money, now>>

(* The new price is not checked as the first one is. *)
UpdatePrice(a, price) ==
  /\ asset[a].active
  /\ asset' = [asset EXCEPT ![a].price = price]
  /\ UNCHANGED <<listed, resets, purchaseVars, disputeVars, proposalVars, money, now>>

-----------------------------------------------------------------------------
(* Purchases. *)

(* purchase_license_for_version, for the proposal p if there is one: the price of
   the moment goes into escrow, and the licence replaces the one this buyer may
   have for the asset. *)
Purchase(b, a, t, p) ==
  /\ licensed < MaxLicenses /\ now <= MaxTime
  /\ asset[a].active
  /\ b # asset[a].owner
  /\ wallet[b][t] >= asset[a].price
  /\ wallet' = Credit(wallet, b, t, -asset[a].price)
  /\ pool' = [pool EXCEPT ![t] = @ + asset[a].price]
  /\ licensed' = licensed + 1
  /\ license' = [license EXCEPT ![b][a] = asset[a].kind]
  /\ escrow' = [escrow EXCEPT ![licensed + 1] =
                  [buyer |-> b, seller |-> asset[a].owner, token |-> t,
                   amount |-> asset[a].price, until |-> now + Hold, status |-> "Held"]]
  /\ bought' = [q \in ProposalIds |-> IF q = p THEN Append(bought[q], b) ELSE bought[q]]
  /\ UNCHANGED <<assetVars, disputeVars, kept, now>>

PurchaseLicense(b, a, t) ==
  /\ Purchase(b, a, t, 0)
  /\ UNCHANGED proposalVars

(* What a subscriber pays goes to the contract as well; no escrow is made of it,
   and nothing pays it out.  Whatever licence there was, it now has an end. *)
Subscription(b, a, t, n) ==
  /\ wallet[b][t] >= n
  /\ wallet' = Credit(wallet, b, t, -n)
  /\ pool' = [pool EXCEPT ![t] = @ + n]
  /\ kept' = [kept EXCEPT ![t] = @ + n]
  /\ license' = [license EXCEPT ![b][a] = "Subscribed"]
  /\ UNCHANGED <<assetVars, escrow, bought, disputeVars, proposalVars, now>>

Subscribe(b, a, t, months) ==
  /\ licensed < MaxLicenses
  /\ asset[a].active /\ b # asset[a].owner
  /\ asset[a].kind = "Subscription"
  /\ licensed' = licensed + 1
  /\ Subscription(b, a, t, asset[a].price * months)

(* The type of the licence counts, not that of the asset. *)
RenewLicense(b, a, t, months) ==
  /\ license[b][a] \in {"Subscription", "Subscribed"}
  /\ Subscription(b, a, t, asset[a].price * months)
  /\ UNCHANGED licensed

(* A licence that has not ended: what is left of it, any share of it, is taken off
   the price.  It traps when the price has become 0, by which it divides. *)
RenewWithProration(b, a, t, months) ==
  /\ license[b][a] = "Subscribed"
  /\ asset[a].price > 0
  /\ \E n \in 0 .. asset[a].price * months : Subscription(b, a, t, n)
  /\ UNCHANGED licensed

(* Mutant of ReleaseEscrow: a dispute does not stop it. *)
MutReleaseDisputed(i) ==
  /\ escrow[i].status \in Live
  /\ now >= escrow[i].until
  /\ PaysOut(escrow[i].token, escrow[i].amount)
  /\ wallet' = Credit(wallet, escrow[i].seller, escrow[i].token, escrow[i].amount)
  /\ escrow' = [escrow EXCEPT ![i].status = "Released"]
  /\ UNCHANGED <<assetVars, licensed, license, bought, disputeVars, proposalVars, kept, now>>

(* By anyone, after the hold. *)
ReleaseEscrow(i) ==
  /\ escrow[i].status = "Held"
  /\ now >= escrow[i].until
  /\ PaysOut(escrow[i].token, escrow[i].amount)
  /\ wallet' = Credit(wallet, escrow[i].seller, escrow[i].token, escrow[i].amount)
  /\ escrow' = [escrow EXCEPT ![i].status = "Released"]
  /\ UNCHANGED <<assetVars, licensed, license, bought, disputeVars, proposalVars, kept, now>>

-----------------------------------------------------------------------------
(* Disputes. *)

RaisePurchaseDispute(i) ==
  /\ disputed < MaxDisputes
  /\ escrow[i].status = "Held"
  /\ now < escrow[i].until
  /\ escrow' = [escrow EXCEPT ![i].status = "Disputed"]
  /\ disputed' = disputed + 1
  /\ dispute' = [dispute EXCEPT ![disputed + 1] = [license |-> i, status |-> "Open"]]
  /\ UNCHANGED <<assetVars, licensed, license, bought, arbiters, proposalVars, money, now>>

RegisterArbitrator(u) ==
  /\ arbiters' = arbiters \cup {u}
  /\ UNCHANGED <<assetVars, purchaseVars, dispute, disputed, proposalVars, money, now>>

VotesFor(votes, decision) == {k \in DOMAIN votes : votes[k].decision = decision}

(* The part of the amount that goes back to the buyer, in basis points. *)
RefundOf(votes) ==
  LET full == Cardinality(VotesFor(votes, "FullRefund"))
      release == Cardinality(VotesFor(votes, "ReleaseToSeller"))
      partial == VotesFor(votes, "PartialRefund")
      shared == Cardinality(partial)
  IN IF full > release /\ full >= shared THEN 10000
     ELSE IF release > full /\ release >= shared THEN 0
     ELSE IF partial = {} THEN 5000
     ELSE SumFunctionOnSet([k \in partial |-> votes[k].bps], partial) \div shared

(* Mutant of Settled: the seller is paid in full whatever is refunded. *)
MutSettledTwice(i, bps) ==
  LET e == escrow[i]
      refund == (e.amount * bps) \div 10000
  IN /\ PaysOut(e.token, e.amount + refund)
     /\ wallet' = Credit(Credit(wallet, e.buyer, e.token, refund), e.seller, e.token, e.amount)
     /\ escrow' = [escrow EXCEPT ![i].status = "Resolved"]

Settled(i, bps) ==
  LET e == escrow[i]
      refund == (e.amount * bps) \div 10000
  IN /\ PaysOut(e.token, e.amount)
     /\ wallet' = Credit(Credit(wallet, e.buyer, e.token, refund),
                         e.seller, e.token, e.amount - refund)
     /\ escrow' = [escrow EXCEPT ![i].status = "Resolved"]

(* By anyone who passes a list of votes by members of the committee.  Only the
   record of the dispute is looked at, not what has become of the escrow. *)
ResolvePurchaseDispute(d, votes) ==
  /\ dispute[d].status = "Open"
  /\ votes # <<>>
  /\ \A k \in DOMAIN votes : votes[k].voter \in arbiters
  /\ \A k \in VotesFor(votes, "PartialRefund") : votes[k].bps <= 10000
  /\ Settled(dispute[d].license, RefundOf(votes))
  /\ dispute' = [dispute EXCEPT ![d].status = "Resolved"]
  /\ UNCHANGED <<assetVars, licensed, license, bought, arbiters, disputed, proposalVars,
                 kept, now>>

-----------------------------------------------------------------------------
(* Purchases by proposal. *)

CreateApprovalPolicy(org, p) ==
  /\ policy' = [policy EXCEPT ![org] = p]
  /\ UNCHANGED <<assetVars, purchaseVars, disputeVars, proposal, proposed, money, now>>

ProposePurchase(org, a, t) ==
  /\ proposed < MaxProposals
  /\ proposed' = proposed + 1
  /\ proposal' = [proposal EXCEPT ![proposed + 1] =
                    [org |-> org, asset |-> a, token |-> t, status |-> "Pending",
                     approved |-> {}]]
  /\ UNCHANGED <<assetVars, purchaseVars, disputeVars, policy, money, now>>

(* Mutant of MayVote: a proposal that is not Pending is not turned away. *)
MutMayVote(s, p) ==
  proposal[p].status # "None" /\ s \in policy[proposal[p].org].signers

(* The policy is the one in force now, whichever was when others approved. *)
MayVote(s, p) ==
  proposal[p].status = "Pending" /\ s \in policy[proposal[p].org].signers

(* The last approval buys, at the price of the moment; if the purchase fails,
   so does the approval. *)
ApprovePurchase(s, p) ==
  LET q == proposal[p]
      approved == q.approved \cup {s}
      enough == Cardinality(approved) >= policy[q.org].required
  IN /\ MayVote(s, p)
     /\ s \notin q.approved
     /\ proposal' = [proposal EXCEPT ![p].approved = approved,
                                     ![p].status = IF enough THEN "Approved" ELSE @]
     /\ IF enough THEN Purchase(q.org, q.asset, q.token, p)
        ELSE UNCHANGED <<assetVars, purchaseVars, disputeVars, money, now>>
     /\ UNCHANGED <<policy, proposed>>

RejectPurchase(s, p) ==
  /\ MayVote(s, p)
  /\ proposal' = [proposal EXCEPT ![p].status = "Rejected"]
  /\ UNCHANGED <<assetVars, purchaseVars, disputeVars, policy, proposed, money, now>>

(* By anyone, at any time. *)
ExpireStaleProposals(ids) ==
  /\ \E p \in ids : proposal[p].status = "Pending"
  /\ proposal' = [p \in ProposalIds |->
                    IF p \in ids /\ proposal[p].status = "Pending"
                    THEN [proposal[p] EXCEPT !.status = "Expired"] ELSE proposal[p]]
  /\ UNCHANGED <<assetVars, purchaseVars, disputeVars, policy, proposed, money, now>>

MarketNext ==
  \/ Initialize
  \/ \E u \in Sellers, k \in Kinds, x \in Prices : ListAsset(u, k, x)
  \/ \E a \in AssetIds : DelistAsset(a) \/ \E x \in Prices : UpdatePrice(a, x)
  \/ \E a \in AssetIds, t \in Tokens :
       \/ \E u \in Users : \/ PurchaseLicense(u, a, t)
                         \/ \E m \in Periods : \/ Subscribe(u, a, t, m) \/ RenewLicense(u, a, t, m)
                                              \/ RenewWithProration(u, a, t, m)
       \/ \E u \in Orgs : ProposePurchase(u, a, t)
  \/ \E i \in LicenseIds : ReleaseEscrow(i) \/ RaisePurchaseDispute(i)
  \/ \E u \in Committee : RegisterArbitrator(u)
  \/ \E u \in Orgs, p \in Policies : CreateApprovalPolicy(u, p)
  \/ \E d \in DisputeIds, votes \in Ballots : ResolvePurchaseDispute(d, votes)
  \/ \E s \in Users, p \in ProposalIds : ApprovePurchase(s, p) \/ RejectPurchase(s, p)
  \/ \E ids \in SUBSET ProposalIds : ExpireStaleProposals(ids)

-----------------------------------------------------------------------------
MarketTypeOK ==
  /\ listed \in 0 .. MaxAssets /\ licensed \in 0 .. MaxLicenses
  /\ disputed \in 0 .. MaxDisputes /\ proposed \in 0 .. MaxProposals
  /\ resets \in 0 .. MaxResets
  /\ asset \in [AssetIds -> [owner : Users \cup {None}, kind : Kinds \cup {"None"},
                             price : Prices \cup {0}, active : BOOLEAN]]
  /\ escrow \in [LicenseIds ->
       [buyer : Users \cup {None}, seller : Users \cup {None}, token : Tokens \cup {None},
        amount : Prices \cup {0}, until : 0 .. MaxTime + Hold,
        status : Live \cup {"None", "Released", "Resolved"}]]
  /\ license \in [Users -> [AssetIds -> Licences]]
  /\ arbiters \subseteq Users
  /\ dispute \in [DisputeIds -> [license : LicenseIds \cup {0},
                                 status : {"None", "Open", "Resolved"}]]
  /\ policy \in [Users -> Policies \cup {NoPolicy}]
  /\ proposal \in [ProposalIds ->
       [org : Users \cup {None}, asset : AssetIds \cup {0}, token : Tokens \cup {None},
        status : {"None", "Pending", "Approved", "Rejected", "Expired"},
        approved : SUBSET Users]]
  /\ bought \in [ProposalIds -> Seq(Users)]
  /\ pool \in [Tokens -> Nat] /\ wallet \in [Users -> [Tokens -> Nat]] /\ now \in Nat
  /\ kept \in [Tokens -> Nat]

(* As long as the contract is initialized only once, an escrow is frozen exactly
   while one dispute of it is open, is Resolved only by the end of that dispute,
   and has no second: release, dispute and resolution race for it, and each looks
   only at its own record. *)
DisputesFreezeEscrows ==
  resets = 0 =>
  \A i \in LicenseIds :
    LET about == {d \in DisputeIds : dispute[d].license = i}
    IN CASE escrow[i].status = "Disputed" ->
              \E d \in about : about = {d} /\ dispute[d].status = "Open"
         [] escrow[i].status = "Resolved" ->
              \E d \in about : about = {d} /\ dispute[d].status = "Resolved"
         [] escrow[i].status \notin {"Disputed", "Resolved"} -> about = {}

(* What the signers of an organisation approved is bought once, by that
   organisation, and what they rejected or let expire is never bought, also when
   the contract was initialized again. *)
ApprovedBuysOnce ==
  \A p \in ProposalIds :
    bought[p] = IF proposal[p].status = "Approved" THEN <<proposal[p].org>> ELSE <<>>
=============================================================================
