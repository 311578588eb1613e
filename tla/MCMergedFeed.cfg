SPECIFICATION FairSpec
CONSTANTS
  Providers = {1, 2}
  Instruments = {1, 2, 3}
  ClassOf <- SmallClassOf
  Plan <- SmallPlan
  Serves <- SmallServes
  Offers <- SmallOffers
  Reported <- SmallReported
  MaxSources = 5
  MaxReadings = 1
INVARIANTS
  HeapIsAhead
  ClockNeverRefuses
  ActionsOnce
  ShownAsSent
PROPERTIES
  ImplementsStream SnapshotCompletes
CHECK_DEADLOCK FALSE
