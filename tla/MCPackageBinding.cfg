CONSTANTS
  a1 = a1  a2 = a2
  e1 = e1
  p1 = p1  p2 = p2
  v1 = v1  v2 = v2
  Approvers = {a1, a2}
  Executors = {e1}
  Packages = {p1, p2}
  Versions = {v1, v2}
  MaxSeq = 2
  Discovered = Discovered
  Fallback = Fallback
  None = None
SYMMETRY Symmetric
SPECIFICATION Spec
INVARIANTS
  CachedEndpointWasApproved
  SelectedRevisionRuns
  EvidenceWasApproved
CHECK_DEADLOCK FALSE
