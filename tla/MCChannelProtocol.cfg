SPECIFICATION ProtocolFairSpec
CONSTANTS
  A = A
  B = B
  ka = ka
  kb = kb
  Parties <- MCParties
  Tokens = {tok}
  Token = tok
  Keys = {ka, kb}
  KeyA = ka
  KeyB = kb
  AddrA = A
  AddrB = B
  Secrets <- MCSecrets
  SignedStates <- MCSignedStates
  None = None
  DepositA = 2
  DepositB = 1
  Splits <- MCSplits
  MaxChannels = 1
  MaxDeposit = 2
  MaxBalance = 2
  MaxVersion = 2
  Window = 1
  MaxTime = 1
INVARIANTS
  ProtocolTypeOK
  OneStatePerVersion
  LatestIsSafe
PROPERTIES
  PunishedVersionIsPast
  LaggardCatchesUp
CHECK_DEADLOCK FALSE
