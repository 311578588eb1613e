SPECIFICATION Spec
CONSTANTS
  Width = 2
  Day = 6
  Reach = 2
  Symbols = {1, 2}
  Datasets <- SmallDatasets
  Requests <- SmallRequests
  Nothing = Nothing
INVARIANTS
  StreamIsOneRead
  QuoteExisted
  WarmupServed
  StreamAgreesWithLoad
CHECK_DEADLOCK FALSE
