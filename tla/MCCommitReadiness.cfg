CONSTANTS
  oA = oA  oB = oB
  r1 = r1  r2 = r2
  v1 = v1  v2 = v2
  None = None
  Orgs = {oA, oB}
  Static = {oA}
  Requests = {r1, r2}
  Home <- HomeTwo
  Versions = {v1, v2}
  MaxSeq = 2
  Offered <- OfferedTwo
SPECIFICATION FairSpec
INVARIANTS
  TypeOK
  RevisionsApproved
  LagsByAtMostOne
PROPERTIES
  LaggardsCatchUp
