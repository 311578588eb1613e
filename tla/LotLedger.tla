----------------------------- MODULE LotLedger -----------------------------
(***************************************************************************)
(* What a position promises, unit by unit: a queue of the prices at which  *)
(* its units were acquired, the oldest first.  A trade against the         *)
(* position pays the oldest units out one by one at the trade's price; a   *)
(* trade with it, or what is left of one that closed everything, joins at  *)
(* the end.  There are no lots, no average and no flip.                    *)
(***************************************************************************)
EXTENDS Integers, Sequences

CONSTANTS Sizes, Prices, Multiplier

VARIABLES side,      \* 1 long, -1 short, 0 flat
          units,     \* the price paid for each unit held, oldest first
          realized   \* the gross profit and loss of the units paid out

LedgerVars == <<side, units, realized>>

LedgerInit ==
  /\ side = 0
  /\ units = <<>>
  /\ realized = 0

Trade(direction, size, price) ==
  LET held    == Len(units)
      paidOut == IF direction # -side THEN 0 ELSE IF size <= held THEN size ELSE held
      paid    == SubSeq(units, 1, paidOut)
      kept    == SubSeq(units, paidOut + 1, held)
      joining == [i \in 1..(size - paidOut) |-> price]
      gained[n \in 0..paidOut] == IF n = 0 THEN 0 ELSE gained[n - 1] + (price - paid[n])
  IN /\ side' = IF size > paidOut   THEN direction
                ELSE IF held > size THEN side
                ELSE 0
     /\ realized' = realized + Multiplier * side * gained[paidOut]
     /\ units' = kept \o joining

LedgerNext == \E direction \in {-1, 1}, size \in Sizes, price \in Prices :
                Trade(direction, size, price)

LedgerSpec == LedgerInit /\ [][LedgerNext]_LedgerVars
=============================================================================
