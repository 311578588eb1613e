SPECIFICATION Spec
CONSTANTS
  Providers = {1, 2, 3}
  ProcessOf <- SmallProcessOf
  ConfigOf <- SmallConfigOf
  UsesParquet = {1, 2}
  Files = {"f"}
  Nothing = Nothing
  Partial = Partial
  EditsAnyTime = FALSE
  MaxLoads = 3
  MaxEdits = 1
  MaxFaults = 1
INVARIANTS
  IndexIsSound
PROPERTIES
  ConvertsOnce
CHECK_DEADLOCK FALSE
