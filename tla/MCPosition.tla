----------------------------- MODULE MCPosition -----------------------------
(* Small instances of Position for TLC.  A price unit of 360360, which     *)
(* every number up to 15 divides, keeps averages over that many whole.     *)
EXTENDS PositionProperties

(* Five fills of at most three units. *)
ASSUME UnitDivides == WholeAverages(3)
=============================================================================
