SPECIFICATION FairSpec
CONSTANTS
  A = A
  V = V
  Users <- MCUsers
  Tokens = {tok}
  None = None
  Owners = {A}
  Complainants = {A, V}
  Voters = {A, V}
  Admins = {A}
  Scores = {100}
  Amounts = {2}
  Budget = 2
  Default <- MCDefault
  Configs <- MCConfigs
  MaxAgents = 1
  MaxDisputes = 2
  MaxTime = 3
INVARIANTS
  RegistryTypeOK
  StakesBacked
PROPERTIES
  DisputedStakeStays
  ScoresOnlyFall
  DisputeResolves
CHECK_DEADLOCK FALSE
