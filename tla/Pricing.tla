------------------------------- MODULE Pricing -------------------------------
(***************************************************************************)
(* What one unit of a fill is priced at: the trigger table of the          *)
(* execution models (sigmaloop/execution/models.py), the synthesised book  *)
(* and the side of it a fill transacts on (pricing.py), the slippage       *)
(* models (slippage.py) and the guards of the broker (_settle_price).      *)
(*                                                                         *)
(* Prices are whole units of which a tick is several, so that prices fall  *)
(* between ticks.  A share of a price is in per cent, rounded down to the  *)
(* unit; the basis points of the code are per cent here.                   *)
(***************************************************************************)
EXTENDS Integers

CONSTANTS
  Tick,     \* Instrument.tick_size
  Lot,      \* Instrument.lot_size
  Nothing   \* None

ASSUME PricingAssumption == Tick \in Nat \ {0} /\ Lot \in Nat \ {0} /\ Nothing \notin Nat

Higher(a, b) == IF a >= b THEN a ELSE b
Lower(a, b)  == IF a <= b THEN a ELSE b
Pct(x, p)    == (x * p) \div 100

(* round_to_tick, by its mode, and round_quantity. *)
RoundUp(p)      == ((p + Tick - 1) \div Tick) * Tick
RoundDown(p)    == (p \div Tick) * Tick
RoundNearest(p) == ((2 * p + Tick) \div (2 * Tick)) * Tick
RoundLot(q)     == (q \div Lot) * Lot

IsBuy(order) == order.side = "BUY"
AcceptsPrice(order, price) ==
  order.limit # Nothing => IF IsBuy(order) THEN price <= order.limit ELSE price >= order.limit

(***************************************************************************)
(* models.py: where in the bar an order trades.                            *)
(***************************************************************************)
(* Planted bug: a stop that was gapped through fills at its trigger. *)
StopPriceAtLevel(order, anchor, gapImprovement) == order.stop
(* The gap rule: the trigger was never available to a bar that opened past *)
(* it, unless the model is told to pretend it was.                         *)
StopPrice(order, anchor, gapImprovement) ==
  CASE gapImprovement -> order.stop
    [] ~gapImprovement /\ IsBuy(order)  -> Higher(anchor, order.stop)
    [] ~gapImprovement /\ ~IsBuy(order) -> Lower(anchor, order.stop)

(* _triggered_price: the level table. *)
TriggeredPrice(order, bar, anchor, gapImprovement) ==
  LET stopped == StopPrice(order, anchor, gapImprovement)
  IN CASE order.type \in {"MARKET", "MARKET_ON_CLOSE"} -> anchor
       [] order.type = "LIMIT" /\ IsBuy(order) ->
            IF bar.low <= order.limit THEN Lower(anchor, order.limit) ELSE Nothing
       [] order.type = "LIMIT" /\ ~IsBuy(order) ->
            IF bar.high >= order.limit THEN Higher(anchor, order.limit) ELSE Nothing
       [] OTHER ->
            IF \/ IsBuy(order)  /\ bar.high < order.stop
               \/ ~IsBuy(order) /\ bar.low > order.stop
               \/ order.type = "STOP_LIMIT" /\ ~AcceptsPrice(order, stopped)
            THEN Nothing ELSE stopped

(* try_fill of the three models: the reference price, or no fill. *)
Reference(order, bar, timing, gapImprovement) ==
  CASE bar = Nothing -> Nothing
    [] bar # Nothing /\ timing = "NEXT_BAR_OPEN" ->
         IF order.type # "MARKET_ON_CLOSE"
         THEN TriggeredPrice(order, bar, bar.open, gapImprovement)
         ELSE IF bar.last THEN TriggeredPrice(order, bar, bar.close, gapImprovement) ELSE Nothing
    [] OTHER -> TriggeredPrice(order, bar, bar.close, FALSE)

(***************************************************************************)
(* pricing.py: the book.                                                   *)
(***************************************************************************)
(* _centred_quote: on the grid, the bid not below zero, a tick wide at least. *)
CentredQuote(mid, half) ==
  LET bid == RoundNearest(Higher(mid - half, 0))
      ask == RoundNearest(mid + half)
      low == Higher(RoundDown(mid), 0)
  IN IF 2 * (ask - bid) < Tick THEN [bid |-> low, ask |-> RoundNearest(low + Tick), real |-> FALSE]
     ELSE [bid |-> bid, ask |-> ask, real |-> FALSE]

(* half_spread of the fixed, the tick and the volatility model, and the    *)
(* range term of the last.                                                 *)
HalfSpread(model, mid, bar) ==
  CASE model.kind = "fixed_bps"  -> Pct(mid, model.pct) \div 2
    [] model.kind = "ticks"      -> (model.ticks * Tick) \div 2
    [] model.kind = "volatility" -> (Pct(mid, model.pct) + Pct(bar.high - bar.low, model.range)) \div 2

(* quote_used: the quote of the contract's chain or of the bar, else one   *)
(* made around the level the order trades at, or, where that is zero, which *)
(* is taken for a level that is not known, around the close.               *)
QuoteUsed(model, bar, chain, level) ==
  LET centre == IF level > 0 THEN level ELSE bar.close
  IN CASE model.kind = "ohlc" -> Nothing
       [] model.kind # "ohlc" /\ chain # Nothing -> chain.quote
       [] model.kind # "ohlc" /\ chain = Nothing /\ bar.quote # Nothing -> bar.quote
       [] model.kind \in {"fixed_bps", "ticks", "volatility"} /\ chain = Nothing /\ bar.quote = Nothing ->
            CentredQuote(centre, HalfSpread(model, centre, bar))
       [] OTHER -> Nothing

SpreadSensitive == {"WORST", "BEST"}
Spread(quote)   == quote.ask - quote.bid
Mid(quote)      == (quote.bid + quote.ask) \div 2

(* _bar_price: the last print of the contract, its mid if there was none;   *)
(* of anything else the close.                                             *)
LastPrice(bar, chain) ==
  CASE chain = Nothing -> bar.close
    [] chain # Nothing /\ chain.print # Nothing -> chain.print
    [] OTHER -> Mid(chain.quote)

(* resolve of the two price models, asked for the price itself only where  *)
(* the level is zero.                                                      *)
Resolve(model, quote, bar, chain, selection, order) ==
  CASE model.kind = "ohlc" -> bar[model.field]
    [] model.kind # "ohlc" /\ (quote = Nothing \/ selection = "LAST") -> LastPrice(bar, chain)
    [] model.kind # "ohlc" /\ quote # Nothing /\ selection = "MID" -> Mid(quote)
    [] OTHER -> IF IsBuy(order) <=> selection = "WORST" THEN quote.ask ELSE quote.bid

(* spread_adjustment: resolve(selection) less the mid, half a spread. *)
SpreadAdjustment(quote, selection, order) ==
  LET crossing == IsBuy(order) <=> selection = "WORST"
  IN IF quote = Nothing \/ selection \notin SpreadSensitive THEN 0
     ELSE IF crossing THEN Spread(quote) \div 2 ELSE -(Spread(quote) \div 2)

(* resolve refuses a book that is not real when one is required, and the   *)
(* OHLC model any selection but the last price.  It is called for the      *)
(* reference where the level is zero, and for the spread of a selection    *)
(* that has one, which the OHLC model does not ask it for.                 *)
Refuses(model, realOnly, quote, level, selection) ==
  \/ /\ model.kind = "ohlc"
     /\ level = 0
     /\ selection # "LAST"
  \/ /\ model.kind # "ohlc"
     /\ realOnly
     /\ level = 0 \/ selection \in SpreadSensitive
     /\ quote = Nothing \/ ~quote.real

(***************************************************************************)
(* slippage.py.                                                            *)
(***************************************************************************)
(* The root of a fraction, in per cent, rounded down. *)
RootPct(a, b) == CHOOSE r \in 0..100 * a : r * r * b <= 10000 * a /\ 10000 * a < (r + 1) * (r + 1) * b

(* slippage_per_unit; the quote is the bar's, or the book that priced the  *)
(* fill of a bar without.                                                  *)
SlippagePerUnit(model, reference, quantity, bar, quote) ==
  CASE model.kind = "none"      -> 0
    [] model.kind = "fixed_bps" -> Pct(reference, model.pct)
    [] model.kind = "ticks"     -> model.ticks * Tick
    [] model.kind = "volume_share" ->
         IF bar.volume = 0 THEN Pct(reference, model.pct)
         ELSE Pct(Pct(reference, model.pct),
                  RootPct(Lower(100 * quantity, model.share * bar.volume), 100 * bar.volume))
    [] model.kind = "spread_fraction" ->
         IF quote = Nothing THEN 0 ELSE Pct(Higher(Spread(quote), 0), model.pct)

(* fillable_quantity: only the volume share model truncates. *)
FillableQuantity(model, wanted, bar) ==
  IF model.kind = "volume_share" THEN Lower(wanted, Pct(bar.volume, model.share)) ELSE wanted

(***************************************************************************)
(* broker.py: the guards on the price of a fill.                           *)
(***************************************************************************)
(* To a tick, against the trader, and not below zero. *)
Snap(order, price) == Higher(IF IsBuy(order) THEN RoundUp(price) ELSE RoundDown(price), 0)

(* Within the range of the bar, widened by half the spread; a bar without  *)
(* a range is no evidence.                                                 *)
Bounded(order, price, bar, quote) ==
  LET half == IF quote = Nothing THEN 0 ELSE Higher(Spread(quote), 0) \div 2
  IN CASE bar.high = bar.low -> price
       [] bar.high > bar.low /\ IsBuy(order) -> Lower(price, RoundDown(bar.high + half))
       [] OTHER -> Higher(price, RoundUp(Higher(bar.low - half, 0)))

(* _settle_price: the tick, the market, the limit, in that order. *)
Settle(price, order, bar, quote) ==
  LET bounded == Bounded(order, Snap(order, price), bar, quote)
  IN IF AcceptsPrice(order, bounded) THEN bounded ELSE order.limit

=============================================================================
