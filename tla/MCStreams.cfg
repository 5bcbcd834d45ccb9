SPECIFICATION StreamsFairSpec
CONSTANTS
  S = S
  R = R
  Parties <- MCParties
  Senders = {S}
  Recipients = {R}
  Tokens = {tok}
  Nonces = {n1}
  None = None
  Rates = {1}
  Durations = {1, 2}
  Deposits = {2}
  MaxDeposit = 2
  Budget = 4
  MaxStreams = 2
  MaxUsage = 1
  MaxTime = 3
INVARIANTS
  StreamsTypeOK
  PoolBacked
  PausedTimeIsFree
PROPERTIES
  StreamEnds
CHECK_DEADLOCK FALSE
