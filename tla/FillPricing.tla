----------------------------- MODULE FillPricing -----------------------------
(***************************************************************************)
(* One order as SimulatedBroker (sigmaloop/execution/broker.py) works it   *)
(* bar after bar: whether the bar reaches it, how much of it the bar       *)
(* absorbs, what the fill is priced and charged, and the trailing stop     *)
(* that is moved afterwards.  Broker has the orders around it, and leaves  *)
(* open what is decided here by the prices.                                *)
(***************************************************************************)
EXTENDS Commissions

CONSTANTS
  Orders,        \* the orders to work, open and nothing of them filled
  Snapshots,     \* what a step may bring: the instrument's bar and its quote
                 \* in an option chain, either of them Nothing
  Setups,        \* execution, price, slippage and commission models, policies
  BarsPerMonth,  \* instants in a calendar month
  MaxBars        \* bound: the bars of a behaviour

(* A Quote, and a Bar that Bar.__post_init__ accepts.  That a book is not    *)
(* crossed is left to whoever supplies it: CsvOptions.drop_invalid_quotes.  *)
Books  == {q \in [bid : Nat, ask : Nat, real : BOOLEAN] : q.bid <= q.ask}
Bars   ==
  {b \in [open : Nat, high : Nat, low : Nat, close : Nat, volume : Nat,
          quote : Books \cup {Nothing}, last : BOOLEAN] :
     b.low <= b.open /\ b.open <= b.high /\ b.low <= b.close /\ b.close <= b.high}
(* An OptionQuote: its book, its last print, the volume of the day.        *)
Chains == [quote : Books, print : Nat \cup {Nothing}, volume : Nat, last : BOOLEAN]
(* An Order that _validate_price_fields accepts: a limit with the types    *)
(* that need one and with no other.  Only a bracket's stop trails.         *)
Tickets ==
  {o \in [side : {"BUY", "SELL"}, type : {"MARKET", "MARKET_ON_CLOSE", "LIMIT", "STOP", "STOP_LIMIT"},
          limit : Nat \cup {Nothing}, stop : Nat \cup {Nothing}, initial : Nat \cup {Nothing},
          quantity : Nat \ {0}, tif : {"DAY", "GTC", "GTD", "IOC", "FOK"},
          trailing : Nat \cup {Nothing}, option : BOOLEAN, reduceOnly : BOOLEAN,
          filled : Nat, open : BOOLEAN] :
     /\ o.limit # Nothing <=> o.type \in {"LIMIT", "STOP_LIMIT"}
     /\ o.type \in {"STOP", "STOP_LIMIT"} => o.stop # Nothing
     /\ o.trailing # Nothing => o.type = "STOP"
     /\ o.initial # Nothing <=> o.stop # Nothing
     /\ o.filled <= o.quantity}
(* The parameters of the price and slippage models are not negative        *)
(* (_require_non_negative).                                                *)
Parameters(model) ==
  CASE model.kind \in {"fixed_bps", "spread_fraction"} -> {model.pct}
    [] model.kind = "ticks"        -> {model.ticks}
    [] model.kind = "volatility"   -> {model.pct, model.range}
    [] model.kind = "volume_share" -> {model.pct, model.share}
    [] OTHER -> {}

ASSUME FillPricingAssumption ==
  /\ BarsPerMonth \in Nat \ {0} /\ MaxBars \in Nat /\ Nothing \notin Books
  /\ \A o \in Orders : o \in Tickets /\ o.open /\ o.filled = 0 /\ o.initial = o.stop
  /\ \A s \in Snapshots :
       /\ s.bar \in Bars \cup {Nothing}
       /\ s.chain \in Chains \cup {Nothing}
  /\ \A s \in Setups :
       /\ Parameters(s.price) \cup Parameters(s.slippage) \subseteq Nat
       /\ s.price.kind = "ohlc" => s.price.field \in {"open", "high", "low", "close"}
       /\ s.slippage.kind \in {"none", "fixed_bps", "ticks", "volume_share", "spread_fraction"}
       /\ s.commission \in Seq(CommissionModels)

VARIABLES
  setup,   \* the models the broker was built with
  order,   \* the order
  period,  \* _period_volume and the month it belongs to
  fills,   \* the fills of the order, and what each was made of
  counts,  \* the fills priced off a made-up book, off none, and partial ones
  seen     \* history: the bars the order was worked on

vars == <<setup, order, period, fills, counts, seen>>

Now        == Len(seen)
Month(t)   == t \div BarsPerMonth
(* _option_quote: only a contract is looked up in its chain. *)
OptionQuote(snapshot) == IF order.option THEN snapshot.chain ELSE Nothing
(* _market_bar: a contract without a bar is matched against a flat one, at *)
(* the mid of its quote.                                                   *)
MarketBar(snapshot) ==
  LET chain == OptionQuote(snapshot)
      mid   == Mid(chain.quote)
  IN IF snapshot.bar # Nothing \/ chain = Nothing THEN snapshot.bar
     ELSE [open |-> mid, high |-> mid, low |-> mid, close |-> mid, volume |-> chain.volume,
           quote |-> chain.quote, last |-> chain.last]

Remaining    == order.quantity - order.filled

(* Planted bug: a truncated quantity is not cut to whole lots. *)
FillableUnrounded(bar) == FillableQuantity(setup.slippage, Remaining, bar)
(* _fillable: what the bar absorbs; a truncated quantity is whole lots,    *)
(* and nothing where partial fills are off or the order is fill-or-kill.   *)
Fillable(bar) ==
  LET capped == FillableQuantity(setup.slippage, Remaining, bar)
  IN CASE capped >= Remaining -> Remaining
       [] capped < Remaining /\ (~setup.partials \/ order.tif = "FOK") -> 0
       [] OTHER -> RoundLot(capped)

(* _period_volume_before: starts again with the month. *)
PeriodVolume == IF period.month = Month(Now) THEN period.volume ELSE 0

(* _build_fill: price, slippage, commission.  A level of zero is no price:  *)
(* the price model is asked for one.                                       *)
BuildFill(bar, chain, level, quantity) ==
  LET quote     == QuoteUsed(setup.price, bar, chain, level)
      reference == IF level > 0 THEN level
                   ELSE Resolve(setup.price, quote, bar, chain, setup.selection, order)
      slippage == SlippagePerUnit(setup.slippage, reference, quantity, bar,
                                  IF bar.quote # Nothing THEN bar.quote ELSE quote)
      sign     == IF IsBuy(order) THEN 1 ELSE -1
      price    == Settle(reference + SpreadAdjustment(quote, setup.selection, order) + sign * slippage,
                         order, bar, quote)
      context  == [side |-> order.side, option |-> order.option, quantity |-> quantity,
                   price |-> price, before |-> order.filled, period |-> PeriodVolume,
                   closing |-> order.reduceOnly]
  IN [at |-> Now + 1, level |-> level, reference |-> reference, quote |-> quote,
      print |-> IF chain = Nothing THEN Nothing ELSE chain.print, slippage |-> slippage,
      context |-> context, price |-> price, quantity |-> quantity,
      commission |-> TotalCommission(setup.commission, context),
      fees |-> TotalFees(setup.commission, context)]

(* _ratchet_trailing_stop: towards the market, never away from it. *)
Ratchet(bar) ==
  IF order.trailing = Nothing THEN order.stop
  ELSE IF IsBuy(order) THEN Lower(order.stop, Pct(bar.low, 100 + order.trailing))
                       ELSE Higher(order.stop, Pct(bar.high, 100 - order.trailing))

(* Planted bug: the stop is moved before the order is looked at. *)
TradeAfterRatchet(bar) ==
  LET moved == [order EXCEPT !.stop = IF bar = Nothing THEN @ ELSE Ratchet(bar)]
      level == Reference(moved, bar, setup.timing, setup.gapImprovement)
  IN [level |-> level, quantity |-> IF level = Nothing THEN 0 ELSE Fillable(bar)]
(* The level the order trades at on a bar, and what fills there. *)
Trade(bar) ==
  LET level == Reference(order, bar, setup.timing, setup.gapImprovement)
  IN [level |-> level, quantity |-> IF level = Nothing THEN 0 ELSE Fillable(bar)]

(* _retire_one_shot: a one-shot order gets one look. *)
IsOneShot == order.tif \in {"IOC", "FOK"}

NoFill(bar) ==
  /\ Trade(bar).quantity = 0
  /\ order' = [order EXCEPT !.open = ~IsOneShot,
                            !.stop = IF bar = Nothing THEN order.stop ELSE Ratchet(bar)]
  /\ UNCHANGED <<setup, period, fills, counts>>

(* synthetic_quote_fills, uncosted_spread_fills and partial_fills, which a  *)
(* run is annotated with.                                                  *)
Counted(quote, partial) ==
  LET one(p) == IF p THEN 1 ELSE 0
  IN [synthetic |-> counts.synthetic + one(quote # Nothing /\ ~quote.real),
      uncosted  |-> counts.uncosted + one(quote = Nothing /\ setup.selection \in SpreadSensitive),
      partial   |-> counts.partial + one(partial)]

(* A price or a book it may not have: the error ends the run, the fill counted. *)
Refuse(bar, chain) ==
  LET t     == Trade(bar)
      quote == QuoteUsed(setup.price, bar, chain, t.level)
  IN
  /\ t.quantity > 0
  /\ Refuses(setup.price, setup.realOnly, quote, t.level, setup.selection)
  /\ order' = [order EXCEPT !.open = FALSE]
  /\ counts' = Counted(quote, FALSE)
  /\ UNCHANGED <<setup, period, fills>>

(* The fill is applied; what is left is carried, or cancelled by policy or *)
(* for a one-shot order; the stop of an order still open is moved last.    *)
Fill(bar, chain) ==
  LET t    == Trade(bar)
      fill == BuildFill(bar, chain, t.level, t.quantity)
      open == Remaining > t.quantity /\ ~IsOneShot /\ setup.carry
  IN
  /\ t.quantity > 0
  /\ ~Refuses(setup.price, setup.realOnly, fill.quote, t.level, setup.selection)
  /\ fills' = Append(fills, fill)
  /\ counts' = Counted(fill.quote, t.quantity < Remaining)
  /\ order' = [order EXCEPT !.filled = @ + t.quantity, !.open = open,
                            !.stop = IF open THEN Ratchet(bar) ELSE @]
  /\ period' = [month |-> Month(Now), volume |-> PeriodVolume + t.quantity]
  /\ UNCHANGED setup

(* _work_order on the next snapshot. *)
WorkOrder(snapshot) ==
  LET bar   == MarketBar(snapshot)
      chain == OptionQuote(snapshot)
  IN
  /\ order.open
  /\ Now < MaxBars
  /\ seen' = Append(seen, bar)
  /\ NoFill(bar) \/ Refuse(bar, chain) \/ Fill(bar, chain)

Init ==
  /\ setup \in Setups
  /\ order \in Orders
  /\ period = [month |-> 0, volume |-> 0]
  /\ fills = <<>>
  /\ counts = [synthetic |-> 0, uncosted |-> 0, partial |-> 0]
  /\ seen = <<>>
Next == \E snapshot \in Snapshots : WorkOrder(snapshot)
Spec == Init /\ [][Next]_vars
=============================================================================
