SPECIFICATION FairSpec
CONSTANTS
  e1 = e1
  e2 = e2
  i1 = i1
  i2 = i2
  i3 = i3
  NoInstrument = NoInstrument
  NoBar = NoBar
  Entries = {e1, e2}
  Instruments = {i1, i2, i3}
  Tradeable = {i1, i2, i3}
  Shortable = {i1, i3}
  DelistedOn <- LateDelisting
  LotSize <- SmallLots
  Tickets <- SmallTickets
  Caps = {1, 2, 3}
  Policies <- SmallPolicies
  MaxTime = 4
  BarsPerDay = 2
CONSTRAINT OneDesk
INVARIANTS
  BrokerInv
  EntriesAreProtected
  TimeInForceHonoured
PROPERTIES
  KeepsOrderContract
  OutcomesReportedOnce
  BarCompletes
CHECK_DEADLOCK FALSE
