---------------------------- MODULE MCFillPricing ----------------------------
(* Small orders, bars and setups for FillPricing. *)
EXTENDS FillPricingProperties

Bar(o, h, l, c, v)  == [open |-> o, high |-> h, low |-> l, close |-> c, volume |-> v,
                        quote |-> Nothing, last |-> FALSE]
SmallBars ==
  {Bar(100, 120, 80, 100, 40),                      \* ordinary
   [Bar(120, 140, 120, 132, 16) EXCEPT !.last = TRUE],  \* gapped up, thin, last of its session
   Bar(81, 83, 81, 82, 4),                          \* off the grid, less than a tick wide
   Bar(60, 100, 60, 100, 0),                        \* gapped down, nothing traded
   Bar(0, 120, 0, 100, 40),                         \* its open and low were blank
   [Bar(100, 100, 100, 100, 40) EXCEPT !.quote = [bid |-> 92, ask |-> 108, real |-> TRUE]]}
(* Of a contract, a quote that is wide and thinly traded. *)
Chain == [quote |-> [bid |-> 84, ask |-> 98, real |-> TRUE], print |-> 130, volume |-> 24, last |-> TRUE]
SmallSnapshots ==
  [bar : SmallBars, chain : {Nothing}]
    \cup [bar : {Nothing, Bar(100, 120, 80, 100, 40)}, chain : {Nothing, Chain}]
    \cup [bar : {[Bar(0, 120, 0, 0, 40) EXCEPT !.last = TRUE]}, chain : {Chain, [Chain EXCEPT !.print = Nothing]}]

Ticket(side, type, limit, stop) ==
  [side |-> side, type |-> type, limit |-> limit, stop |-> stop, initial |-> stop,
   quantity |-> 10, tif |-> "GTC", trailing |-> Nothing, option |-> FALSE, reduceOnly |-> FALSE,
   filled |-> 0, open |-> TRUE]
Plain == {Ticket(s, "MARKET", Nothing, Nothing) : s \in {"BUY", "SELL"}}
SmallOrders == Plain \cup
  {Ticket("BUY", "LIMIT", 96, Nothing), Ticket("SELL", "LIMIT", 104, Nothing),
   Ticket("BUY", "STOP", Nothing, 112), Ticket("BUY", "STOP_LIMIT", 116, 112),
   Ticket("SELL", "STOP_LIMIT", 76, 88),
   [Ticket("SELL", "STOP", Nothing, 76) EXCEPT !.trailing = 10, !.reduceOnly = TRUE],
   [Ticket("BUY", "STOP", Nothing, 132) EXCEPT !.trailing = 10],
   [Ticket("SELL", "MARKET_ON_CLOSE", Nothing, Nothing) EXCEPT !.option = TRUE, !.reduceOnly = TRUE],
   [Ticket("BUY", "STOP", Nothing, 90) EXCEPT !.option = TRUE],
   [Ticket("BUY", "LIMIT", 101, Nothing) EXCEPT !.tif = "IOC"],
   [Ticket("SELL", "MARKET", Nothing, Nothing) EXCEPT !.tif = "FOK"]}

PerShareModel == [kind |-> "per_share", rate |-> 50, minimum |-> 300, cap |-> 1]
Regulatory    == [kind |-> "regulatory", sec |-> 1, taf |-> 30, tafCap |-> 200, orf |-> 7]
Setup(price, slippage, commission) ==
  [timing |-> "NEXT_BAR_OPEN", gapImprovement |-> FALSE, selection |-> "WORST", price |-> price,
   realOnly |-> FALSE, slippage |-> slippage, commission |-> commission,
   partials |-> TRUE, carry |-> TRUE]

Spreads    == {[kind |-> "fixed_bps", pct |-> 10], [kind |-> "ticks", ticks |-> 0],
               [kind |-> "volatility", pct |-> 4, range |-> 10], [kind |-> "none"],
               [kind |-> "ohlc", field |-> "high"]}
Slippages  == {[kind |-> "none"], [kind |-> "fixed_bps", pct |-> 30], [kind |-> "ticks", ticks |-> 1],
               [kind |-> "volume_share", pct |-> 40, share |-> 25],
               [kind |-> "spread_fraction", pct |-> 50]}
VolumeCap   == [kind |-> "volume_share", pct |-> 10, share |-> 25]
Schedules  == {<<PerShareModel, Regulatory>>,
               <<[kind |-> "per_trade", fee |-> 100], [kind |-> "zero"]>>,
               <<[kind |-> "percent_value", rate |-> 1, minimum |-> 500]>>,
               <<[kind |-> "per_contract", perContract |-> 65, perOrder |-> 30, waiveBelow |-> 90]>>,
               <<[kind |-> "tiered", minimum |-> 20,
                  tiers |-> <<[threshold |-> 0, rate |-> 9], [threshold |-> 4, rate |-> 5]>>]>>}
Costed  == Setup([kind |-> "fixed_bps", pct |-> 10], VolumeCap, <<PerShareModel, Regulatory>>)
SmallSetups ==
  {Setup(p, s, <<PerShareModel, Regulatory>>) : p \in Spreads, s \in Slippages}
    \cup {[Costed EXCEPT !.commission = c] : c \in Schedules}
    \cup {[Costed EXCEPT !.timing = "NEXT_BAR_CLOSE"], [Costed EXCEPT !.gapImprovement = TRUE],
          [Costed EXCEPT !.selection = "BEST"], [Costed EXCEPT !.selection = "MID"],
          [Costed EXCEPT !.selection = "LAST"], [Costed EXCEPT !.realOnly = TRUE, !.selection = "MID"],
          [Costed EXCEPT !.selection = "LAST", !.price = [kind |-> "ohlc", field |-> "high"]],
          [Costed EXCEPT !.realOnly = TRUE], [Costed EXCEPT !.partials = FALSE],
          [Costed EXCEPT !.carry = FALSE]}
=============================================================================
