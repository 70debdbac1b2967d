CONSTANTS
  oA = oA  oB = oB  oC = oC
  pA = pA  pB = pB  pC = pC
  sA = sA  sA2 = sA2  sB = sB
  eA = eA  eB = eB
  a = a  b = b  x = x
  Orgs = {oA, oB}
  Signers = {sA, sA2, sB}
  LocalSigner = sA
  SignerOrg <- MCSignerOrg
  Principals = {a, b, x}
  Scope <- MCScope
  Unscoped = Unscoped
  Endpoints = {eA, eB}
  Host <- MCHost
  Identity <- MCIdentity
  Rules <- MCRules
  Updates <- MCUpdates
  EvaluateIdentities <- Satisfied
  Witnesses <- Found
  Leaves <- InspectRule
  Results = {r1, r2}
  Versions = {v1, v2}
  Unset = Unset
  Nothing = Nothing
  Msps = {oA, oB, oC}
  Orchestrators = {pA, pB, pC}
  Org <- MCOrg
  Static <- MCStatic
  Located <- MCLocated
  TargetLists <- MCTargetLists
SYMMETRY Symmetry
SPECIFICATION GatewaySpec
INVARIANTS
  SelectionIsValid
  RequestedOrgsEndorse
  PreparedIsSubmittable
  AsksOnlyWhileShort
  RefusalIsJustified
  RunsWhereAsked
  FirstAnswerCounts
CHECK_DEADLOCK FALSE
