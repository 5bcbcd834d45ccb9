------------------------------ MODULE Auctions ------------------------------
(***************************************************************************)
(* The sealed-bid auctions of the marketplace contract                     *)
(* (contract/contracts/marketplace/src/lib.rs), composed with Marketplace: *)
(* bids are held in the same balance as the escrows of purchases.          *)
(*                                                                         *)
(* A commitment is the amount it opens to; a bidder reveals that amount or *)
(* nothing, for the hash fits no other.                                    *)
(***************************************************************************)
EXTENDS Marketplace

CONSTANTS Bids,       \* amounts that may be sealed, 0 for none
          Reserves,   \* least bids an auction may be opened with
          Capacities, Durations,
          Sniping,    \* SNIPING_WINDOW
          MaxAuctions \* bound

ASSUME AuctionAssumptions ==
  /\ Bids \cup Reserves \subseteq Nat \ {0} /\ Capacities \subseteq Nat \ {0}
  /\ Durations \subseteq Nat \ {0} /\ Sniping \in Nat /\ MaxAuctions \in Nat

VARIABLES auction,    \* Auction records
          auctioned,  \* AUCTION_COUNT
          commitment, \* COMMITMENTS: the amount sealed by each bidder, or 0
          revealed,   \* bidders in the order of their reveals
          sealed      \* history: the commitments when the reveals began

auctionParts == <<auction, auctioned, commitment, revealed, sealed>>
auctionVars == <<marketVars, auctionParts>>

AuctionIds == 1 .. MaxAuctions
NoBids == [u \in Users |-> 0]
NoAuction == [seller |-> None, asset |-> 0, capacity |-> 0, minBid |-> 0, duration |-> 0,
              opened |-> 0, revealEnd |-> 0, phase |-> "None", token |-> None, price |-> 0]

AuctionsInit ==
  /\ MarketInit
  /\ auction = [x \in AuctionIds |-> NoAuction] /\ auctioned = 0
  /\ commitment = [x \in AuctionIds |-> NoBids]
  /\ revealed = [x \in AuctionIds |-> <<>>]
  /\ sealed = [x \in AuctionIds |-> NoBids]

OpenAuction(a, capacity, minBid, duration) ==
  /\ auctioned < MaxAuctions /\ now <= MaxTime
  /\ asset[a].active
  /\ auctioned' = auctioned + 1
  /\ auction' = [auction EXCEPT ![auctioned + 1] =
                   [seller |-> asset[a].owner, asset |-> a, capacity |-> capacity,
                    minBid |-> minBid, duration |-> duration, opened |-> now,
                    revealEnd |-> 0, phase |-> "Commit", token |-> None, price |-> 0]]
  /\ UNCHANGED <<marketVars, commitment, revealed, sealed>>

(* Mutant of CommitBid: the phase is not looked at. *)
MutCommitLate(u, x, amount) ==
  /\ auction[x].phase \in {"Commit", "Reveal"}
  /\ commitment' = [commitment EXCEPT ![x][u] = amount]
  /\ UNCHANGED <<marketVars, auction, auctioned, revealed, sealed>>

(* A later commitment replaces an earlier one.  The window may be over: only the
   phase counts. *)
CommitBid(u, x, amount) ==
  /\ auction[x].phase = "Commit"
  /\ commitment' = [commitment EXCEPT ![x][u] = amount]
  /\ UNCHANGED <<marketVars, auction, auctioned, revealed, sealed>>

(* By anyone, once the commit window is over. *)
BeginReveal(x) ==
  /\ auction[x].phase = "Commit"
  /\ now >= auction[x].opened + auction[x].duration
  /\ auction' = [auction EXCEPT ![x].phase = "Reveal",
                                ![x].revealEnd = now + auction[x].duration]
  /\ sealed' = [sealed EXCEPT ![x] = commitment[x]]
  /\ UNCHANGED <<marketVars, auctioned, commitment, revealed>>

HasRevealed(u, x) == \E k \in DOMAIN revealed[x] : revealed[x][k] = u

(* A reveal in the last Sniping ledgers extends the window. *)
Extended(x) ==
  IF now + Sniping >= auction[x].revealEnd THEN auction[x].revealEnd + Sniping
  ELSE auction[x].revealEnd

(* The first reveal fixes the token; the amount is held by the contract. *)
RevealBid(u, x, t) ==
  LET amount == commitment[x][u]
  IN /\ auction[x].phase = "Reveal"
     /\ now < auction[x].revealEnd
     /\ amount # 0
     /\ amount >= auction[x].minBid
     /\ auction[x].token \in {None, t}
     /\ ~ HasRevealed(u, x)
     /\ wallet[u][t] >= amount
     /\ wallet' = Credit(wallet, u, t, -amount)
     /\ pool' = [pool EXCEPT ![t] = @ + amount]
     /\ auction' = [auction EXCEPT ![x].token = t, ![x].revealEnd = Extended(x)]
     /\ revealed' = [revealed EXCEPT ![x] = Append(@, u)]
     /\ UNCHANGED <<assetVars, purchaseVars, disputeVars, proposalVars, kept, now,
                    auctioned, commitment, sealed>>

-----------------------------------------------------------------------------
(* Settlement. *)

BidOf(x, k) == commitment[x][revealed[x][k]]

(* The reveals that rank before the k-th: higher bids, then earlier ones. *)
Before(x, k) ==
  {j \in DOMAIN revealed[x] :
     BidOf(x, j) > BidOf(x, k) \/ (BidOf(x, j) = BidOf(x, k) /\ j < k)}

Winners(x) ==
  {revealed[x][k] : k \in {j \in DOMAIN revealed[x] :
                             Cardinality(Before(x, j)) < auction[x].capacity}}

(* Mutant of ClearingPrice: one above the best bid that does not win. *)
MutClearingAbove(x) ==
  IF Len(revealed[x]) > auction[x].capacity
  THEN 1 + BidOf(x, CHOOSE k \in DOMAIN revealed[x] :
                      Cardinality(Before(x, k)) = auction[x].capacity)
  ELSE auction[x].minBid

(* The best bid that does not win, or the reserve if every bid wins. *)
ClearingPrice(x) ==
  IF Len(revealed[x]) > auction[x].capacity
  THEN BidOf(x, CHOOSE k \in DOMAIN revealed[x] :
                  Cardinality(Before(x, k)) = auction[x].capacity)
  ELSE auction[x].minBid

(* What settling returns to a bidder, and pays the seller. *)
Refund(u, x) ==
  IF ~ HasRevealed(u, x) THEN 0
  ELSE IF u \in Winners(x) THEN commitment[x][u] - ClearingPrice(x)
  ELSE commitment[x][u]
Proceeds(x) == ClearingPrice(x) * Cardinality(Winners(x))

(* Mutant of SettleAuction: with no reveal there is no token to settle in. *)
MutSettleRevealed(x) ==
  LET t == auction[x].token
      paid(u) == Refund(u, x) + IF u = auction[x].seller THEN Proceeds(x) ELSE 0
  IN /\ auction[x].phase = "Reveal" /\ t # None
     /\ now >= auction[x].revealEnd
     /\ wallet' = [u \in Users |-> [wallet[u] EXCEPT ![t] = @ + paid(u)]]
     /\ PaysOut(t, SumFunctionOnSet([u \in Users |-> paid(u)], Users))
     /\ auction' = [auction EXCEPT ![x].phase = "Settled", ![x].price = ClearingPrice(x)]
     /\ UNCHANGED <<assetVars, purchaseVars, disputeVars, proposalVars, kept, now,
                    auctioned, commitment, revealed, sealed>>

(* By anyone, once the reveal window is over. *)
SettleAuction(x) ==
  LET t == auction[x].token
      paid(u) == Refund(u, x) + IF u = auction[x].seller THEN Proceeds(x) ELSE 0
  IN /\ auction[x].phase = "Reveal"
     /\ now >= auction[x].revealEnd
     /\ IF t = None THEN UNCHANGED <<pool, wallet>>
        ELSE /\ wallet' = [u \in Users |-> [wallet[u] EXCEPT ![t] = @ + paid(u)]]
             /\ PaysOut(t, SumFunctionOnSet([u \in Users |-> paid(u)], Users))
     /\ auction' = [auction EXCEPT ![x].phase = "Settled", ![x].price = ClearingPrice(x)]
     /\ UNCHANGED <<assetVars, purchaseVars, disputeVars, proposalVars, kept, now,
                    auctioned, commitment, revealed, sealed>>

-----------------------------------------------------------------------------
(* A ledger closes.  Time goes on after MaxTime while something waits for it. *)
LedgerCloses ==
  /\ \/ now < MaxTime
     \/ \E i \in LicenseIds : escrow[i].status = "Held" /\ now < escrow[i].until
     \/ \E x \in AuctionIds : \/ auction[x].phase = "Reveal" /\ now < auction[x].revealEnd
                              \/ auction[x].phase = "Commit"
                                 /\ now < auction[x].opened + auction[x].duration
  /\ now' = now + 1
  /\ UNCHANGED <<assetVars, purchaseVars, disputeVars, proposalVars, money, auctionParts>>

AuctionStep ==
  \/ \E a \in AssetIds, c \in Capacities, m \in Reserves, d \in Durations : OpenAuction(a, c, m, d)
  \/ \E x \in AuctionIds :
       \/ BeginReveal(x) \/ SettleAuction(x)
       \/ \E u \in Users : \/ \E n \in Bids : CommitBid(u, x, n)
                           \/ \E t \in Tokens : RevealBid(u, x, t)

AuctionsNext ==
  \/ MarketNext /\ UNCHANGED auctionParts
  \/ AuctionStep
  \/ LedgerCloses

AuctionsSpec == AuctionsInit /\ [][AuctionsNext]_auctionVars

(* Ledgers keep closing, and somebody calls what anybody may call. *)
AuctionsFairSpec ==
  /\ AuctionsSpec
  /\ WF_auctionVars(LedgerCloses)
  /\ \A x \in AuctionIds :
       WF_auctionVars(BeginReveal(x)) /\ WF_auctionVars(SettleAuction(x))

-----------------------------------------------------------------------------
AuctionsTypeOK ==
  /\ MarketTypeOK
  /\ auctioned \in 0 .. MaxAuctions
  /\ auction \in [AuctionIds ->
       [seller : Users \cup {None}, asset : AssetIds \cup {0}, capacity : Capacities \cup {0},
        minBid : Reserves \cup {0}, duration : Durations \cup {0}, opened : Nat, revealEnd : Nat,
        phase : {"None", "Commit", "Reveal", "Settled"}, token : Tokens \cup {None},
        price : Bids \cup Reserves \cup {0}]]
  /\ commitment \in [AuctionIds -> [Users -> Bids \cup {0}]]
  /\ sealed \in [AuctionIds -> [Users -> Bids \cup {0}]]
  /\ \A x \in AuctionIds : \A k \in DOMAIN revealed[x] : revealed[x][k] \in Users

(* The balance of each token is what the contract still owes for it: the escrows
   that are held or disputed and the bids of auctions that are not settled. *)
EscrowOwed(t) ==
  SumFunctionOnSet(
    [i \in LicenseIds |-> IF escrow[i].token = t /\ escrow[i].status \in Live
                          THEN escrow[i].amount ELSE 0], LicenseIds)
BidsIn(x) ==
  SumFunctionOnSet([u \in Users |-> IF HasRevealed(u, x) THEN commitment[x][u] ELSE 0], Users)
BidsOwed(t) ==
  SumFunctionOnSet(
    [x \in AuctionIds |-> IF auction[x].token = t /\ auction[x].phase = "Reveal"
                          THEN BidsIn(x) ELSE 0], AuctionIds)

(* As long as the contract is initialized only once, purchases, disputes and
   auctions, which pay from one balance, leave each other's money whole. *)
MarketPoolBacked ==
  resets = 0 => \A t \in Tokens : pool[t] = EscrowOwed(t) + BidsOwed(t) + kept[t]

(* The outcome of an auction is that of a uniform-price auction over the bids as
   they were sealed before the first was opened: the highest win, as many as
   there is capacity for, all at one price, which no winner's bid is below and
   no other bid is above. *)
ClearingIsFair ==
  \A x \in AuctionIds : auction[x].phase = "Settled" =>
    LET bidders == {revealed[x][k] : k \in DOMAIN revealed[x]}
        price == auction[x].price
        winners == Winners(x)
    IN /\ \A u \in bidders : commitment[x][u] = sealed[x][u]
       /\ Cardinality(winners) = Min({auction[x].capacity, Cardinality(bidders)})
       /\ \A u \in winners : sealed[x][u] >= price
       /\ \A u \in bidders \ winners : sealed[x][u] <= price
       /\ price = IF winners = bidders THEN auction[x].minBid
                  ELSE Max({sealed[x][u] : u \in bidders \ winners})

(* An auction that was opened is settled in the end, although each late reveal
   puts the end off, unless the contract is initialized again, after which the
   balance may be too small to settle from. *)
AuctionSettles ==
  \A x \in AuctionIds :
    auction[x].phase = "Commit" ~> (auction[x].phase = "Settled" \/ resets > 0)
=============================================================================
