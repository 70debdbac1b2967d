CONSTANTS
  oA = oA  oB = oB  oC = oC
  cA = cA  cB = cB  cC = cC
  n1 = n1  n2 = n2
  v1 = v1  v2 = v2
  None = None
  Orgs = {oA, oB}
  Static = {oA}
  Callers = {cA, cB}
  Home <- HomeTwo
  Duty <- DutyNames
  Passes = {}
  Names = {n1, n2}
  Versions = {v1, v2}
  InitVersions = {v1}
  PassSize = 1
  MaxSeq = 2
  MaxTx = 3
  MaxOp = 3
  MaxReq = 3
  MaxCrash = 1
VIEW View
SPECIFICATION Spec
INVARIANTS
  IndexMatchesRows
PROPERTIES
  ReplayRestoresTable
  ImplementsLifecycle
  SuccessIsTrue
CHECK_DEADLOCK FALSE
