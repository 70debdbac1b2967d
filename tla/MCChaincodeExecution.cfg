CONSTANTS
  Calls = {c1}
  Keys = {k1, k2}
  NoKey = NoKey
  Statuses = {199, 399, 400}
  MaxHeight = 3
SPECIFICATION FairSpec
INVARIANTS
  TypeOK
  ReadsOneSnapshot
  EndorsesSoundExecutions
  ViewReleasedOnce
PROPERTIES
  CommittedOnWhatWasRead
  CancelledCallsEnd
CHECK_DEADLOCK FALSE
