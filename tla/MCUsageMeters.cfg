SPECIFICATION MetersFairSpec
CONSTANTS
  S = S
  R = R
  k1 = k1
  k2 = k2
  Keys = {k1, k2}
  Parties <- MCParties
  Senders = {S}
  Recipients = {R}
  Tokens = {tok}
  Nonces = {}
  None = None
  Rates = {1}
  Durations = {1}
  Deposits = {1}
  MaxDeposit = 1
  Budget = 3
  MaxStreams = 1
  MaxUsage = 0
  MaxTime = 2
  Leaves <- MCLeaves
  Signed <- MCSigned
  Roots <- MCRoots
  Prices = {1}
  Allowances = {2}
  MaxBatches = 2
  MaxCalls = 2
  MaxCharge = 2
  ChallengeWindow = 1
INVARIANTS
  MetersTypeOK
  PoolBackedWithMeters
  ChargesAreStandingCalls
PROPERTIES
  StandingIsFinal
  BatchIsPaidOut
CHECK_DEADLOCK FALSE
