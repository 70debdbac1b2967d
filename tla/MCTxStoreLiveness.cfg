CONSTANTS
  c1 = c1  c2 = c2
  t1 = t1  t2 = t2
  p1 = p1
  Calls = {c1, c2}
  Txs = {t1, t2}
  Payloads = {p1}
  InitPayloads = {}
  Load <- SharedOrOwn
  BatchSize = 1
  None = None
  Pass = Pass
SPECIFICATION FairSpec
PROPERTIES
  DuplicatesAnswered
  PendingRecovered
CHECK_DEADLOCK FALSE
