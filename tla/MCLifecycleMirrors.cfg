CONSTANTS
  oA = oA  oB = oB  oC = oC
  cA = cA  cB = cB  cC = cC
  n1 = n1  n2 = n2
  v1 = v1  v2 = v2
  None = None
  Orgs = {oA, oB}
  Static = {oA, oB}
  Callers = {cA, cB}
  Home <- HomeOne
  Duty <- DutySplit
  Passes = {oA}
  Names = {n1}
  Versions = {v1}
  InitVersions = {v1}
  PassSize = 1
  MaxSeq = 1
  MaxTx = 2
  MaxOp = 2
  MaxReq = 2
  MaxCrash = 0
SPECIFICATION FairSpec
INVARIANTS
  TypeOK
PROPERTIES
  CommitReachesMirrors
CHECK_DEADLOCK FALSE
