------------------------ MODULE FillPricingProperties ------------------------
(* What the costs of a fill may never do. *)
EXTENDS FillPricing, FiniteSetsExt

(* What an order has filled, at what, is in range (_build_fill). *)
TypeOK ==
  /\ order.filled \in 0..order.quantity /\ order.open \in BOOLEAN
  /\ order.stop \in Nat \cup {Nothing}
  /\ period.month \in Nat /\ period.volume \in Nat
  /\ \A i \in DOMAIN fills :
       fills[i].price \in Nat /\ fills[i].quantity \in Nat \ {0} /\ fills[i].slippage \in Nat

BarOf(f) == seen[f.at]
OnGrid(p) == p % Tick = 0

(* A fill starts from a level the bar traded at: a gap is paid for, never  *)
(* credited (_triggered_price: "Gaps are where backtests manufacture       *)
(* money").  The price it is charged from is that level, or, where the     *)
(* level is zero, a price of the bar, of the book or of the last print.    *)
Quoted(f, p) ==
  \/ BarOf(f).low <= p /\ p <= BarOf(f).high
  \/ f.quote # Nothing /\ f.quote.bid <= p /\ p <= f.quote.ask
  \/ p = f.print
ReferenceTraded == \A i \in DOMAIN fills :
  LET f == fills[i] IN
  /\ ~setup.gapImprovement => BarOf(f).low <= f.level /\ f.level <= BarOf(f).high
  /\ IF f.level > 0 THEN f.reference = f.level ELSE Quoted(f, f.reference)

(* However spread, slippage and ticks stack up, a fill is never worse than *)
(* the worst the bar offered, half a spread beyond its range, and never    *)
(* through the limit (_settle_price, three guards in that order).          *)
NeverBeyondTheMarket == \A i \in DOMAIN fills :
  LET f    == fills[i]
      bar  == BarOf(f)
      half == IF f.quote = Nothing THEN 0 ELSE Spread(f.quote) \div 2
  IN /\ bar.high > bar.low => IF IsBuy(order) THEN f.price <= bar.high + half
                                              ELSE f.price >= bar.low - half
     /\ AcceptsPrice(order, f.price)
     /\ OnGrid(f.price) \/ f.price = order.limit

(* Costs are not income: a fill is no better than the price it was charged *)
(* from, except that a price off the grid may be given back by less than a *)
(* tick, and that the BEST side of the book is asked for (_settle_price:   *)
(* "Directional rounding cannot manufacture a better price").  A price     *)
(* that took the place of a level of zero counts as far as the range of    *)
(* the bar and the limit let a fill go.                                    *)
WithinLimit(p) == IF AcceptsPrice(order, p) THEN p ELSE order.limit
Base(f) ==
  CASE f.level > 0 -> f.reference
    [] f.level = 0 /\ IsBuy(order) -> WithinLimit(Lower(f.reference, BarOf(f).high))
    [] OTHER -> WithinLimit(Higher(f.reference, BarOf(f).low))
NoFreeMoney == \A i \in DOMAIN fills :
  LET f    == fills[i]
      base == Base(f)
  IN
  setup.selection # "BEST" =>
    /\ IF IsBuy(order) THEN f.price > base - Tick ELSE f.price < base + Tick
    /\ OnGrid(base) => IF IsBuy(order) THEN f.price >= base ELSE f.price <= base

(* A run tells how far its spreads were assumed: a fill on a side of the   *)
(* book was priced off a real one unless it is counted, off a made-up one  *)
(* or off none (synthetic_quote_fills, uncosted_spread_fills).  The OHLC   *)
(* model counts one more where it refuses a price and ends the run.        *)
AssumptionsCounted ==
  LET ofReal == {i \in DOMAIN fills : fills[i].quote # Nothing /\ fills[i].quote.real}
      told   == Cardinality(ofReal) + counts.synthetic + counts.uncosted
  IN setup.selection \in SpreadSensitive /\ ~setup.realOnly =>
       \/ told = Len(fills)
       \/ setup.price.kind = "ohlc" /\ ~order.open /\ told = Len(fills) + 1

(* A fill is priced from what the market offered on its bar: from a level  *)
(* that traded, by costs that neither pay nor leave the market, off a book *)
(* that is accounted for (_build_fill, _settle_price).                     *)
PricedFromTheMarket ==
  /\ ReferenceTraded
  /\ NeverBeyondTheMarket
  /\ NoFreeMoney
  /\ AssumptionsCounted

(* No fill takes more of a bar than the participation cap; one it cuts     *)
(* short is whole lots; fill-or-kill and all-or-nothing fill at once       *)
(* (_fillable).                                                            *)
CapRespected == \A i \in DOMAIN fills :
  LET f == fills[i] IN
  /\ setup.slippage.kind = "volume_share" => 100 * f.quantity <= setup.slippage.share * BarOf(f).volume
  /\ f.quantity < order.quantity - f.context.before => f.quantity % Lot = 0
  /\ order.tif = "FOK" \/ ~setup.partials => f.quantity = order.quantity

(* Quantities and prices are what they should be, and within the cap. *)
FillsAreSound == TypeOK /\ CapRespected

(* No fill pays commission back.                                           *)
ChargesAreCosts == \A i \in DOMAIN fills : fills[i].commission \in Nat /\ fills[i].fees \in Nat

(* An order a thin market splits into several prints costs what it would   *)
(* in one, at the same price and in the same volume band (_incremental:    *)
(* "makes a split order cost exactly what the same order would have cost   *)
(* filling in one print").                                                 *)
CommissionPaid == SumFunction([i \in DOMAIN fills |-> fills[i].commission])
FeesPaid       == SumFunction([i \in DOMAIN fills |-> fills[i].fees])
SameTerms ==
  \A i \in DOMAIN fills :
    /\ fills[i].price = fills[1].price
    /\ \A j \in DOMAIN setup.commission :
         LET m == setup.commission[j]
         IN m.kind = "tiered" =>
              TierRate(m, fills[i].context.period) = TierRate(m, fills[1].context.period)
SplitCostsAsOne ==
  /\ ChargesAreCosts
  /\ fills # <<>> /\ SameTerms =>
    LET whole == [fills[1].context EXCEPT !.quantity = order.filled]
    IN /\ CommissionPaid = TotalCommission(setup.commission, whole)
       /\ FeesPaid = TotalFees(setup.commission, whole)

(* A trailing stop, of a long or of a short, trades only where the bars    *)
(* before put it: the high that raises the stop of a long never decides    *)
(* whether the low of its own bar, printed before it for all anyone knows, *)
(* triggers it, nor the low that lowers the stop of a short whether the    *)
(* high of its own bar does (_ratchet_trailing_stop).                      *)
Trailed(bar) == IF IsBuy(order) THEN Pct(bar.low, 100 + order.trailing)
                                ELSE Pct(bar.high, 100 - order.trailing)
StopsBefore(i) == {order.initial} \cup {Trailed(seen[j]) : j \in {k \in 1..i - 1 : seen[k] # Nothing}}
TrailsFromBehind == \A i \in DOMAIN fills :
  LET f   == fills[i]
      bar == BarOf(f)
  IN order.trailing # Nothing =>
       IF IsBuy(order)
       THEN bar.high >= Min(StopsBefore(f.at)) /\ f.level >= Min(StopsBefore(f.at))
       ELSE bar.low <= Max(StopsBefore(f.at)) /\ f.level <= Max(StopsBefore(f.at))

(***************************************************************************)
(* What makes the properties inductive: what is recorded is of its type,   *)
(* a trailing stop is at its first level or at one that an earlier bar     *)
(* gave it, and an order that must fill at once has not filled before.     *)
(***************************************************************************)
Recorded ==
  /\ setup \in Setups /\ order \in Tickets
  /\ period \in [month : Nat, volume : Nat]
  /\ seen \in Seq(Bars \cup {Nothing})
  /\ fills \in Seq({fills[i] : i \in DOMAIN fills})
  /\ counts \in [synthetic : Nat, uncosted : Nat, partial : Nat]
  /\ \A i \in DOMAIN fills : fills[i].at \in 1..Now /\ BarOf(fills[i]) \in Bars
StopWasSet == order.trailing # Nothing => order.stop \in StopsBefore(Now + 1)
FirstLook ==
  order.tif = "FOK" \/ ~setup.partials => order.filled = 0 \/ ~order.open
PricingInv ==
  /\ Recorded /\ StopWasSet /\ FirstLook
  /\ FillsAreSound /\ PricedFromTheMarket /\ TrailsFromBehind

(***************************************************************************)
(* And for the costs: an order has fills once something of it is filled,   *)
(* and the first of them is charged for the order it is a part of.         *)
(***************************************************************************)
ChargedFor(c) ==
  /\ c \in Contexts /\ c.before = 0 /\ c.quantity > 0 /\ c.price = fills[1].price
  /\ c.side = order.side /\ c.option = order.option /\ c.closing = order.reduceOnly
SplitInv ==
  /\ order.filled = 0 <=> fills = <<>>
  /\ fills # <<>> => ChargedFor(fills[1].context)
  /\ SplitCostsAsOne
=============================================================================
