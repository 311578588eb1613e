--------------------------- MODULE MCSeriesCache ---------------------------
(* Small instances of SeriesCache for TLC. *)
EXTENDS SeriesCacheProperties

(* Two threads of one process and one of another; two symbols whose names  *)
(* become the same in a file name; a series that stays in memory, one that *)
(* leaves no room for another, one the budget refuses.                     *)
SmallProcessOf == [t \in Threads |-> IF t = 3 THEN 2 ELSE 1]
SmallKeys == {[symbol |-> "BRK/B", request |-> 1], [symbol |-> "BRK_B", request |-> 1]}
SmallSafe == [s \in {"BRK/B", "BRK_B"} |-> "BRK_B"]
SmallBytes == [s \in Series |-> s]
SmallRows  == [s \in Series |-> s]
=============================================================================
