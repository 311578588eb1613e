SPECIFICATION Spec
CONSTANTS
  Sizes = {1, 3}
  Prices = {0, 360360, 720720}
  Multiplier = 2
  FillCost = 1
  BorrowRate = 1
  Restored = {}
  MaxEvents = 5
INVARIANTS
  BooksBalance
  ExcursionsAreOfThisTrip
PROPERTIES
  ImplementsLedger
CHECK_DEADLOCK FALSE
