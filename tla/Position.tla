------------------------------ MODULE Position ------------------------------
(***************************************************************************)
(* A holding in one instrument: domain/position.py.  Fills open, increase, *)
(* reduce or flip it, lots are matched first in first out, and the average *)
(* price and the excursion extremes describe the round trip that is open.  *)
(*                                                                         *)
(* Quantities are whole units, so the float tolerance below which the code *)
(* calls a position flat is zero here.  An average is a whole number: the  *)
(* instances choose a price unit that every reachable size divides, and    *)
(* the invariant that ties the average to the lots fails if one does not.  *)
(* A fill for another instrument or without size raises before it changes  *)
(* anything and is left out.  0 is the code's None for an instant.         *)
(***************************************************************************)
EXTENDS Integers, SequencesExt

CONSTANTS Sizes,        \* the quantities a fill may have
          Prices,       \* the prices of fills and marks
          Multiplier,   \* of the instrument
          FillCost,     \* commission and fees of a fill
          BorrowRate,   \* borrow charge per unit of exposure and bar
          Restored,     \* positions a run may start from without their fills
          MaxEvents     \* bounds the number of fills, marks and accruals

ASSUME PositionAssumption ==
  /\ Sizes \subseteq Nat \ {0}
  /\ Prices \subseteq Nat
  /\ Multiplier \in Nat \ {0}
  /\ FillCost \in Nat
  /\ BorrowRate \in Nat
  /\ Restored \subseteq [quantity : Int \ {0}, avgPrice : Nat]
  /\ MaxEvents \in Nat

VARIABLES quantity,         \* signed: long positive, short negative
          entry,            \* what describes the open round trip
          realizedPnl,
          costsPaid,        \* commission_paid + fees_paid
          borrowCostPaid,
          markPrice,
          now,              \* the number of events so far
          cash,             \* history: what the account received in total
          trip              \* history: the prints of the open round trip

state == <<quantity, entry, realizedPnl, costsPaid, borrowCostPaid, markPrice>>
vars  == <<state, now, cash, trip>>

Lots    == [quantity : Int \ {0}, price : Nat]
Entries == [avgPrice : Nat, openedAt : Nat, lots : Seq(Lots),
            maxFavorable : Nat, maxAdverse : Nat]
NoEntry == [avgPrice |-> 0, openedAt |-> 0, lots |-> <<>>,
            maxFavorable |-> 0, maxAdverse |-> 0]
NoTrip  == [since |-> 0, prints |-> {}]

Abs(n)  == IF n < 0 THEN -n ELSE n
Sign(n) == CASE n > 0 -> 1 [] n < 0 -> -1 [] OTHER -> 0
IsOpen  == quantity # 0

MarketValue   == quantity * markPrice * Multiplier
UnrealizedPnl == (markPrice - entry.avgPrice) * quantity * Multiplier
TotalPnl      == realizedPnl + UnrealizedPnl - costsPaid - borrowCostPaid

-----------------------------------------------------------------------------
(* Planted bug: the average and the lots cleared, the round trip kept. *)
ResetEntryOnly(e) == [e EXCEPT !.avgPrice = 0, !.lots = <<>>]

ResetEntry(e) == NoEntry

OpenOrIncrease(e, held, delta, price) ==
  LET prior   == Abs(held)
      isFresh == e.openedAt = 0
  IN [avgPrice     |-> (e.avgPrice * prior + price * Abs(delta)) \div (prior + Abs(delta)),
      openedAt     |-> IF isFresh THEN now + 1 ELSE e.openedAt,
      lots         |-> Append(e.lots, [quantity |-> delta, price |-> price]),
      maxFavorable |-> IF isFresh THEN price ELSE e.maxFavorable,
      maxAdverse   |-> IF isFresh THEN price ELSE e.maxAdverse]

(* The extremes invert with the side. *)
TrackExcursion(e, held, price) ==
  IF held < 0
  THEN [e EXCEPT !.maxFavorable = Min({@, price}), !.maxAdverse = Max({@, price})]
  ELSE [e EXCEPT !.maxFavorable = Max({@, price}), !.maxAdverse = Min({@, price})]

-----------------------------------------------------------------------------
(* Sums over the lots: what the first n of the values come to, and all.    *)
Sums(values) ==
  LET sum[n \in 0..Len(values)] == IF n = 0 THEN 0 ELSE sum[n - 1] + values[n] IN sum
Total(values) == Sums(values)[Len(values)]
Units(lots)   == [i \in DOMAIN lots |-> Abs(lots[i].quantity)]
Costs(lots)   == [i \in DOMAIN lots |-> Abs(lots[i].quantity) * lots[i].price]

(* Planted bug: the deque consumed from its tail. *)
TakenNewestFirst(lots, closing, i) ==
  LET later == Total(Units(lots)) - Sums(Units(lots))[i]
  IN Max({0, Min({Abs(lots[i].quantity), closing - later})})

(* _realise consumes the deque from its head: lot i gives what the lots    *)
(* before it could not.                                                    *)
Taken(lots, closing, i) ==
  Max({0, Min({Abs(lots[i].quantity), closing - Sums(Units(lots))[i - 1]})})

(* The lots that are used up leave the deque, and the first that is left   *)
(* has given what they could not.                                          *)
Spent(lots, closing) ==
  CHOOSE n \in 0..Len(lots) :
    /\ Sums(Units(lots))[n] <= closing
    /\ n < Len(lots) => closing < Sums(Units(lots))[n + 1]
LotsAfter(lots, closing) ==
  LET spent == Spent(lots, closing)
  IN [i \in 1..Len(lots) - spent |->
        [lots[spent + i] EXCEPT !.quantity = @ - Sign(@) * Taken(lots, closing, spent + i)]]

(* What the lots do not cover is realised against the average cost. *)
Realised(closing, exitPrice) ==
  LET lots    == entry.lots
      perLot  == [i \in DOMAIN lots |-> (exitPrice - lots[i].price) * Sign(lots[i].quantity)
                                          * Taken(lots, closing, i)]
      covered == Min({closing, Total(Units(lots))})
  IN Multiplier * (Total(perLot)
                   + (exitPrice - entry.avgPrice) * Sign(quantity) * (closing - covered))

(* Planted bug: the average of what was bought kept for what is left. *)
RemainingAvgPriceKept(lots) == entry.avgPrice

RemainingAvgPrice(lots) ==
  LET units == Total(Units(lots))
  IN IF units = 0 THEN entry.avgPrice ELSE Total(Costs(lots)) \div units

-----------------------------------------------------------------------------
(* Position() or, for a restored position, Position(quantity=, avg_price=, *)
(* mark_price=): no lots and no opened_at.                                 *)
Init ==
  /\ now = 0
  /\ realizedPnl = 0 /\ costsPaid = 0 /\ borrowCostPaid = 0
  /\ trip = NoTrip
  /\ \/ /\ Restored = {}
        /\ quantity = 0 /\ entry = NoEntry /\ markPrice = 0 /\ cash = 0
     \/ \E r \in Restored :
          /\ quantity = r.quantity
          /\ entry = [NoEntry EXCEPT !.avgPrice = r.avgPrice]
          /\ markPrice = r.avgPrice
          /\ cash = -(r.quantity * r.avgPrice * Multiplier)

(* What every branch of apply_fill does: the costs are booked, the print   *)
(* is a mark and, while the position stays open, an excursion.             *)
Booked(size, price, held, e, realized) ==
  /\ now < MaxEvents
  /\ now' = now + 1
  /\ quantity' = held
  /\ entry' = IF held = 0 THEN e ELSE TrackExcursion(e, held, price)
  /\ realizedPnl' = realizedPnl + realized
  /\ costsPaid' = costsPaid + FillCost
  /\ markPrice' = price
  /\ UNCHANGED borrowCostPaid
  /\ cash' = cash - size * price * Multiplier - FillCost
  /\ trip' = IF held = 0 THEN NoTrip
             ELSE IF Sign(held) = Sign(quantity)
             THEN [trip EXCEPT !.prints = @ \cup {price}]
             ELSE [since |-> now + 1, prints |-> {price}]

(* apply_fill, by the branch it takes; size is signed like the position.   *)
Open(size, price) ==
  /\ ~IsOpen
  /\ Booked(size, price, size, OpenOrIncrease(ResetEntry(entry), 0, size, price), 0)

Increase(size, price) ==
  /\ IsOpen /\ Sign(size) = Sign(quantity)
  /\ Booked(size, price, quantity + size,
            OpenOrIncrease(entry, quantity, size, price), 0)

Reduce(size, price) ==
  /\ IsOpen /\ Sign(size) # Sign(quantity) /\ Abs(size) < Abs(quantity)
  /\ LET lots == LotsAfter(entry.lots, Abs(size)) IN
     Booked(size, price, quantity + size,
            [entry EXCEPT !.lots = lots, !.avgPrice = RemainingAvgPrice(lots)],
            Realised(Abs(size), price))

Close(size, price) ==
  /\ IsOpen /\ size = -quantity
  /\ Booked(size, price, 0, ResetEntry(entry), Realised(Abs(quantity), price))

Flip(size, price) ==
  /\ IsOpen /\ Sign(size) # Sign(quantity) /\ Abs(size) > Abs(quantity)
  /\ LET overshoot == quantity + size IN
     Booked(size, price, overshoot,
            OpenOrIncrease(ResetEntry(entry), 0, overshoot, price),
            Realised(Abs(quantity), price))

ApplyFill(size, price) ==
  \/ Open(size, price)
  \/ Increase(size, price)
  \/ Reduce(size, price)
  \/ Close(size, price)
  \/ Flip(size, price)

(* mark: an open position without an entry instant gets it from here. *)
Mark(price) ==
  /\ now < MaxEvents
  /\ now' = now + 1
  /\ markPrice' = price
  /\ entry' = IF ~IsOpen THEN entry
              ELSE IF entry.openedAt = 0
              THEN [entry EXCEPT !.openedAt = now + 1, !.maxFavorable = price,
                                 !.maxAdverse = price]
              ELSE TrackExcursion(entry, quantity, price)
  /\ trip' = IF IsOpen THEN [trip EXCEPT !.prints = @ \cup {price}] ELSE trip
  /\ UNCHANGED <<quantity, realizedPnl, costsPaid, borrowCostPaid, cash>>

BorrowCharge == Abs(MarketValue) * BorrowRate

AccrueBorrow ==
  /\ now < MaxEvents
  /\ quantity < 0 /\ BorrowRate > 0
  /\ now' = now + 1
  /\ borrowCostPaid' = borrowCostPaid + BorrowCharge
  /\ cash' = cash - BorrowCharge
  /\ UNCHANGED <<quantity, entry, realizedPnl, costsPaid, markPrice, trip>>

Next ==
  \/ \E size \in Sizes, price \in Prices :
       ApplyFill(size, price) \/ ApplyFill(-size, price)
  \/ \E price \in Prices : Mark(price)
  \/ AccrueBorrow

Spec == Init /\ [][Next]_vars
=============================================================================
