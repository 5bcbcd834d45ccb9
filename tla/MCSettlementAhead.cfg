SPECIFICATION SettlementSpec
CONSTANTS
  B = B
  R = R
  Parties <- MCParties
  Senders = {B}
  Recipients = {R}
  Tokens = {tok}
  Nonces = {1, 2}
  None = None
  Rates = {1}
  Durations = {3}
  Deposits = {4}
  MaxDeposit = 4
  Budget = 4
  MaxStreams = 1
  MaxUsage = 0
  MaxTime = 3
  Server = R
  Batch = 1
  MaxCalls = 2
  MaxCrashes = 0
INVARIANTS
  RecordedIsEarned
CHECK_DEADLOCK FALSE
