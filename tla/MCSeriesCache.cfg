SPECIFICATION Spec
CONSTANTS
  Threads = {1, 2, 3}
  Processes = {1, 2}
  ProcessOf <- SmallProcessOf
  Keys <- SmallKeys
  SafeSymbol <- SmallSafe
  Series = {1, 2, 4}
  BytesOf <- SmallBytes
  RowsOf <- SmallRows
  MaxBytes = 3
  MinSlowRows = 2
  NoSeries = NoSeries
  Partial = Partial
  MaxCalls = 3
  MaxKills = 1
INVARIANTS
  CacheConsistent
  ServesWholeFiles
  InvalidationHolds
CHECK_DEADLOCK FALSE
