SPECIFICATION SettlementFairSpec
CONSTANTS
  B = B
  R = R
  Parties <- MCParties
  Senders = {B}
  Recipients = {R, B}
  Tokens = {tok}
  Nonces = {1, 2}
  None = None
  Rates = {1}
  Durations = {1}
  Deposits = {2}
  MaxDeposit = 2
  Budget = 2
  MaxStreams = 1
  MaxUsage = 0
  MaxTime = 2
  Server = R
  Batch = 1
  MaxCalls = 2
  MaxCrashes = 1
INVARIANTS
  SettlementTypeOK
  EachCallInOneBatch
  ConfirmedIsPaid
  WrittenOnce
PROPERTIES
  PendingIsResolved
CHECK_DEADLOCK FALSE
