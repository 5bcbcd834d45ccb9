SPECIFICATION FairSpec
CONSTANTS
  A = A
  B = B
  C = C
  Parties <- MCParties
  Tokens = {tok}
  Keys = {k1, k2}
  Secrets <- MCSecrets
  SignedStates <- MCSignedStates
  k1 = k1
  k2 = k2
  None = None
  MaxChannels = 2
  MaxDeposit = 1
  MaxBalance = 2
  MaxVersion = 1
  Window = 1
  MaxTime = 1
INVARIANTS
  TypeOK
  EscrowBacked
  PendingCoversDeposits
PROPERTIES
  PendingOnlyRises
  PaidOnlyToParties
  CloseResolves
  ImplementsEscrow
CHECK_DEADLOCK FALSE
