SPECIFICATION SeriesSpec
CONSTANTS
    Series = {s1, s2}
    Buffers = {b1, b2, b3}
    Time = {1, 2}
    Capacities = {0, 2}
    MaxRows = 3
    NoSeries = NoSeries
SYMMETRY Symmetric
INVARIANT ViewsAreSound
PROPERTY ImplementsValues
CHECK_DEADLOCK FALSE
