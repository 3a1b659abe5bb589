SPECIFICATION ResultFairSpec
CONSTANTS
  Recorders = {r1}
  LogClearers = {c1}
  Flushers = {f1}
  BufferSize = 2
  MaxTime = 2
  MaxRecords = 2
INVARIANTS ResultTypeOK CommandsKeepTheirPromise
PROPERTY CommandsAnswered
CHECK_DEADLOCK FALSE
