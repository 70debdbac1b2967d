CONSTANTS
  c1 = c1  c2 = c2  c3 = c3
  t1 = t1
  p1 = p1
  Calls = {c1, c2, c3}
  Txs = {t1}
  Payloads = {p1}
  InitPayloads = {p1}
  Load <- AnyRequest
  BatchSize = 1
  None = None
  Pass = Pass
SYMMETRY Symmetric
SPECIFICATION Spec
INVARIANTS
  TypeOK
  OneRecordPerTx
  NoResendWhileUnknown
  RepliesAreTrue
  InitOnceOnCommit
  NoPassAfterClose
PROPERTIES
  SettledByLedgerOnly
  ImplementsContract
CHECK_DEADLOCK FALSE
