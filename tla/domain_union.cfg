SPECIFICATION Spec
CHECK_DEADLOCK FALSE
CONSTANTS
  NEGATIVE = NEGATIVE
  POSITIVE = POSITIVE
  None = None
  UNDEF = UNDEF
  UNKNOWN = UNKNOWN
  I = I
  H = H
  K = K
  V = V
  L = L
  M = M
  Local <- MCLocal
  Base <- MCBase
  Window <- MCWindow
  Sources <- MCSources
  Others <- MCOthers
  Premaps <- MCPremaps
  Indexes <- MCIndexes
  RelativeIxs <- MCRelative
  Table <- MCTable
  Axis = L
  Conditions <- MCConditions
  Cuts = {1, 2}
  CutDims <- MCCutDims
  MaxOps = 3
  MaxDims = 3
  MaxCond = 3
INVARIANTS UnionIsExact
