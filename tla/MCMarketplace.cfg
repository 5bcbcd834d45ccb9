SPECIFICATION AuctionsSpec
CONSTANTS
  S = S
  B = B
  Users <- MCUsers
  Sellers = {S}
  Orgs = {B}
  Committee = {B}
  Tokens = {tok}
  None = None
  Kinds = {"Subscription"}
  Prices = {2}
  Periods = {1}
  Policies <- MCPolicies
  Ballots <- MCBallots
  Hold = 1
  Budget = 4
  MaxAssets = 1
  MaxLicenses = 2
  MaxDisputes = 2
  MaxResets = 1
  MaxProposals = 1
  MaxTime = 1
  Bids = {1, 2}
  Reserves = {1}
  Capacities = {1}
  Durations = {1}
  Sniping = 1
  MaxAuctions = 0
INVARIANTS
  DisputesFreezeEscrows
  ApprovedBuysOnce
CHECK_DEADLOCK FALSE
