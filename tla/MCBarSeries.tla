----------------------------- MODULE MCBarSeries ----------------------------
(* A series, a view of it and a column view: a buffer for each, and one to  *)
(* grow into.                                                               *)
EXTENDS BarSeries, TLC

Symmetric == Permutations(Series) \cup Permutations(Buffers)
=============================================================================
