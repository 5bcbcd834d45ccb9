SPECIFICATION Spec
CONSTANTS
  Subjects = {s}
  Writers = {w}
  Anchorers = {loop, route}
  Erasers = {e}
  None = None
  MaxSeq = 3
  MaxAnchors = 2
  MaxCrashes = 1
INVARIANTS
  AuditTypeOK
  ChainVerifies
  AnchorsProve
SYMMETRY AnchorerSymmetry
CHECK_DEADLOCK FALSE
