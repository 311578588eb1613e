------------------------ MODULE PositionProperties ------------------------
(* What makes a position correct. *)
EXTENDS Position

(* Every field keeps its type: the costs never run backwards below zero,   *)
(* and no lot is empty (position.py:65-104).                               *)
TypeOK ==
  /\ quantity \in Int
  /\ entry \in Entries
  /\ realizedPnl \in Int
  /\ costsPaid \in Nat
  /\ borrowCostPaid \in Nat
  /\ markPrice \in Nat
  /\ now \in 0..MaxEvents
  /\ cash \in Int
  /\ trip \in [since : Nat, prints : SUBSET Nat]

(* The lots are the position: all on its side, together its quantity, and  *)
(* the average price is theirs, whatever was bought, sold in part and      *)
(* flipped before (_open_or_increase, _realise, _remaining_avg_price).     *)
LotsAreThePosition ==
  LET lots == entry.lots
  IN /\ \A i \in DOMAIN lots : Sign(lots[i].quantity) = Sign(quantity)
     /\ Total(Units(lots)) = Abs(quantity)
     /\ entry.avgPrice * Abs(quantity) = Total(Costs(lots))

(* The price unit divides: no fill is larger than this, and every size     *)
(* that such fills can add up to divides every price, so that an average   *)
(* of prices is a whole number of units.                                   *)
WholeAverages(largest) ==
  /\ \A size \in Sizes : size <= largest
  /\ \A price \in Prices, held \in 1..MaxEvents * largest : price % held = 0

(* No profit or loss is invented or lost: at every moment total_pnl is the *)
(* cash the account has received plus what the position is worth, through  *)
(* any sequence of increases, partial exits and flips (total_pnl).         *)
PnlIsConserved == TotalPnl = cash + MarketValue

(* The books of a position balance: what it is, what it cost and what it   *)
(* has earned agree after every fill, mark and borrow charge (apply_fill). *)
BooksBalance == TypeOK /\ LotsAreThePosition /\ PnlIsConserved

(* The extremes are prints, and no print lies outside them. *)
Brackets(e, held, prints) ==
  /\ e.maxFavorable \in prints /\ e.maxAdverse \in prints
  /\ \A p \in prints :
       IF held > 0 THEN e.maxAdverse <= p /\ p <= e.maxFavorable
                   ELSE e.maxFavorable <= p /\ p <= e.maxAdverse

(* The entry instant is that of the fill that opened this round trip, and  *)
(* the extremes are the best and worst print since then, fills included    *)
(* (_track_excursion, _reset_entry).                                       *)
ExcursionsAreOfThisTrip ==
  IsOpen => /\ entry.openedAt = trip.since
            /\ Brackets(entry, quantity, trip.prints)

(* With its lots spelt out unit by unit, oldest first, the position is the *)
(* ledger: what it realises is what paying out the oldest units gives.     *)
UnitPrices(lots) ==
  LET held     == Sums(Units(lots))
      lotOf(u) == CHOOSE i \in DOMAIN lots : held[i - 1] < u /\ u <= held[i]
  IN [u \in 1..Total(Units(lots)) |-> lots[lotOf(u)].price]
Ledger == INSTANCE LotLedger WITH
  side     <- Sign(quantity),
  units    <- UnitPrices(entry.lots),
  realized <- realizedPnl

ImplementsLedger == Ledger!LedgerSpec
=============================================================================
