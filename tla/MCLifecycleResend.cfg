CONSTANTS
  oA = oA  oB = oB  oC = oC
  cA = cA  cB = cB  cC = cC
  n1 = n1  n2 = n2
  v1 = v1  v2 = v2
  None = None
  Orgs = {oA, oB}
  Static = {oA, oB}
  Callers = {cA, cB, cC}
  Home <- HomeOne
  Duty <- DutyAny
  Passes = {}
  Names = {n1}
  Versions = {v1}
  InitVersions = {}
  PassSize = 1
  MaxSeq = 1
  MaxTx = 2
  MaxOp = 2
  MaxReq = 3
  MaxCrash = 0
SPECIFICATION Spec
PROPERTIES
  NoLifecycleResend
CHECK_DEADLOCK FALSE
