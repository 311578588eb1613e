SPECIFICATION ConversionSpec
CONSTANTS
    None = None
    Exports <- SmallExports
    Cells <- SmallCells
    MaxRows = 5
    Precision = 4
    ClockBack <- AfterNoon
INVARIANTS NeverEarly HealsPerRow NothingWantedIsPruned AdjustsRowByRow
CHECK_DEADLOCK FALSE
