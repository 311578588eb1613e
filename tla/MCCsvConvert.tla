---------------------------- MODULE MCCsvConvert ----------------------------
(* Small instances of CsvConvert for TLC: a few families of export, each    *)
(* rich in the one thing it is about.                                       *)
EXTENDS CsvConvert

Day == 19444                    \* 2023-03-28
Noon == Day * PerDay
Early == 7800 * PerDay          \* 1991: REPAIR does not reach it

Config ==
  [columns |-> None, left |-> None, timeframe |-> None, epochUnit |-> None,
   badTimestamp |-> "repair", ambiguous |-> "earliest", format |-> FALSE,
   dropInvalidQuotes |-> TRUE, defaultSymbol |-> None, trustHints |-> TRUE]

Unnamed == [symbol |-> None, day |-> None]
Good == [open |-> 2, high |-> 3, low |-> 1, close |-> 2]

Bar(symbol, close) ==
  [symbol |-> symbol, close |-> close, stamp |-> "ok", lost |-> 0, prices |-> Good]

Ohlc == <<"open", "high", "low", "close">>

Export(header, name, width, unit, zone, stamps, family, settings) ==
  [header |-> header, name |-> name, width |-> width, unit |-> unit, zone |-> zone,
   stamps |-> stamps, family |-> family, config |-> settings]

\* Integer stamps that lack digits, a row at a time or all of them.
Eras == ("recent" :> Noon) @@ ("early" :> Early)
EpochCells(from) ==
  {[Bar(1, from + 6 * k) EXCEPT !.lost = lost] : k \in 0..1, lost \in 0..2}
    \cup {[Bar(1, from) EXCEPT !.stamp = "null"]}
Epochs ==
  {Export(<<"timestamp", "ticker">> \o Ohlc, Unnamed, 6, 0, 0, "integer", era,
          [Config EXCEPT !.badTimestamp = policy]) :
     era \in DOMAIN Eras, policy \in {"repair", "drop", "strict"}}

\* Bars labelled by their open or their close, two tickers out of step.
LabelCells == {Bar(1, Noon + 6 * k) : k \in 0..3} \cup {Bar(2, Noon + 1), Bar(2, Noon + 8)}
Labels ==
  {Export(header \o Ohlc, Unnamed, 6, 0, 0, "integer", "labels",
          [Config EXCEPT !.timeframe = frame]) :
     header \in {<<"window_start", "ticker">>, <<"T", "t">>, <<"Date", "ticker">>},
     frame \in {None, 6}}
  \cup
  {Export(<<"Window Start", "ticker">> \o Ohlc, Unnamed, 6, 0, 0, "integer", "labels",
          [Config EXCEPT !.left = TRUE])}

\* Files named for their ticker and their session, in zones east and west; a
\* row's stamp is counted from the session's midnight.
Zones == ("z-3" :> -3) @@ ("z-2" :> -2) @@ ("z0" :> 0) @@ ("z1" :> 1) @@ ("z3" :> 3)
Named ==
  {Export(<<"date">> \o Ohlc, [symbol |-> symbol, day |-> day], 2, 0, 0, "integer", zone,
          [Config EXCEPT !.defaultSymbol = default]) :
     symbol \in {None, 1}, day \in {None, Day}, zone \in DOMAIN Zones, default \in {None, 1}}

\* A file that is named for one ticker and session and holds others too.
Misnamed ==
  {Export(<<"BOM date", "ticker">> \o Ohlc, [symbol |-> symbol, day |-> day], 2, 0, 0, "integer",
          "misnamed", [Config EXCEPT !.trustHints = trust]) :
     symbol \in {None, 1}, day \in {None, Day}, trust \in BOOLEAN}

\* Local readings, one of which two instants share.
AfterNoon == Noon + 12
LocalCells == {Bar(1, AfterNoon + k) : k \in -1..1}
                \cup {[Bar(1, Noon) EXCEPT !.stamp = stamp] : stamp \in {"null", "junk"}}
Locals ==
  {Export(<<"date", "symbol">> \o Ohlc, Unnamed, 1, 0, 1, stamps, "locals",
          [Config EXCEPT !.ambiguous = ambiguous, !.format = format, !.timeframe = 1]) :
     stamps \in {"native", "string"}, ambiguous \in {"earliest", "latest", "raise"},
     format \in BOOLEAN}

\* Quotes, crossed and one-sided among them.
QuoteCells == {[Bar(s, Noon + s) EXCEPT !.prices = [bid |-> bid, ask |-> 1]] :
                 s \in {1, 2}, bid \in {Blank, 1, 2}}
QuoteFiles ==
  {Export(<<"sip_timestamp", "ticker", "bid_price", "ask">>, Unnamed, 0, 0, 0, "integer",
          "quotes", [Config EXCEPT !.dropInvalidQuotes = drop]) : drop \in BOOLEAN}

\* Headers that are mapped by hand, rightly and wrongly, and declared units.
Mapped ==
  {Export(<<"date", "open", "high", "low", " close">>, [Unnamed EXCEPT !.symbol = 1], 6,
          IF unit = None THEN 0 ELSE unit, 0, "integer", "plain",
          [Config EXCEPT !.columns =
             [timestamp |-> "Date", open |-> "open", high |-> "high", low |-> low,
              close |-> "close"], !.epochUnit = unit]) :
     low \in {"low", "lows"}, unit \in {None, 0, 1}}

\* Rows with unparsed or crossed prices.
DamagedCells == {[Bar(1, Noon) EXCEPT !.prices = prices] :
                   prices \in {Good, [Good EXCEPT !.high = 1], [Good EXCEPT !.low = Blank],
                               [Good EXCEPT !.close = Text], [role \in Prices |-> Blank]}}
Damaged ==
  {Export(<<"date", "ticker">> \o Ohlc, Unnamed, 6, 0, 0, "integer", "damaged", Config)}

\* Rows with an adjusted close, with none, and with nothing to scale by.
AdjustedCells ==
  {[Bar(1, Noon) EXCEPT !.prices =
      [open |-> low, high |-> 13, low |-> low, close |-> 13, adjusted_close |-> adjusted]] :
     low \in {0, 13}, adjusted \in {Blank, 7}}
Adjusted ==
  {Export(<<"date", "ticker">> \o Ohlc \o adjusted, Unnamed, 6, 0, 0, "integer", "adjusted", Config) :
     adjusted \in {<<>>, <<"adj_close">>}}

SmallExports == Epochs \cup Labels \cup Named \cup Misnamed \cup Locals \cup QuoteFiles \cup Mapped \cup Damaged
                  \cup Adjusted
SmallCells ==
  [era \in DOMAIN Eras |-> EpochCells(Eras[era])]
  @@ [zone \in DOMAIN Zones |-> {Bar(1, Noon + Zones[zone] + 2 * k) : k \in 1..3}]
  @@ ("misnamed" :> {Bar(1, Noon), Bar(1, Noon + 18), Bar(2, Noon), Bar(2, Noon - 12)})
  @@ ("labels" :> LabelCells) @@ ("locals" :> LocalCells) @@ ("quotes" :> QuoteCells)
  @@ ("plain" :> {Bar(1, Noon), Bar(1, Noon + 6)}) @@ ("damaged" :> DamagedCells)
  @@ ("adjusted" :> AdjustedCells)

\* What the theorems about these exports suppose of them.
ASSUME HonestExports == KeepsToTheRange /\ SaysWhatItLabels
=============================================================================
