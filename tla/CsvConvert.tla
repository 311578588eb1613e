----------------------------- MODULE CsvConvert -----------------------------
(***************************************************************************)
(* How CsvDataProvider (data/providers/csv_provider.py) turns one CSV file *)
(* into its normalised table: which column it takes for which field, what  *)
(* instant it makes of a timestamp cell, which rows it keeps, by how much  *)
(* it moves bars that are labelled by their open, and what it concludes    *)
(* from the name of a file it has not read yet.                            *)
(*                                                                         *)
(* An exporter writes the file row by row; the provider may convert it at  *)
(* any time, and reads it anew once it has grown.  Instants are counted in *)
(* units of four hours since 1970.  An integer timestamp is counted in     *)
(* hundredths of one, so that a cell may lack up to two decimal digits, as *)
(* a column in another unit does and as a row does whose trailing zeros a  *)
(* spreadsheet ate.  A name is a string; only what the code does to it     *)
(* before it compares it is modelled; tickers are numbered in their order.  *)
(***************************************************************************)
EXTENDS Integers, Sequences, FiniteSets, FiniteSetsExt, SequencesExt, TLC

CONSTANTS
  Exports,    \* the files to write: header, name, width, unit, zone, stamps,
              \* the family of their rows, and the config that reads them
  Cells,      \* the rows of each family
  MaxRows,    \* bound: rows of a file
  ClockBack,  \* the instant at which the local clock goes back by one unit
  Precision,  \* the bits of a float's significand
  None

ASSUME CsvConvertAssumption ==
  /\ MaxRows \in Nat /\ ClockBack \in Nat /\ Precision \in 1..8
  /\ \A x \in Exports :
       /\ x.width \in Nat /\ x.zone \in Int /\ x.unit \in 0..2
       /\ x.name.day = None \/ x.name.day \in Int
       /\ x.config.timeframe = None \/ x.config.timeframe \in Nat
       /\ x.config.epochUnit = None \/ x.config.epochUnit \in 0..3
       /\ x.config.badTimestamp \in {"strict", "drop", "repair"}
       /\ \A r \in Cells[x.family] : r.close \in Int /\ r.lost \in 0..2

VARIABLES
  file,       \* which export is being written
  schema,     \* its entry in _schemas: kind, roles, left, and whether it fails
  rows,       \* what has been written of it
  entry,      \* its index entry and its table, or None when it is cold
  refused     \* the last conversion raised

conversionVars == <<file, schema, rows, entry, refused>>

config == file.config

-----------------------------------------------------------------------------
(* Names.                                                                  *)

\* _clean_header: trimmed, in lower case, with underscores for spaces.
Cleaned == ("Window Start" :> "window_start") @@ ("Date" :> "date") @@ ("T" :> "t")
             @@ (" close" :> "close")
Lowered == ("Window Start" :> "window start") @@ ("Date" :> "date") @@ ("T" :> "t")
Trimmed == (" close" :> "close")

Via(how, name) == IF name \in DOMAIN how THEN how[name] ELSE name

\* _read_header: a byte-order mark is dropped, spaces stay.
Unmarked == ("BOM date" :> "date")
Header(x) == [i \in DOMAIN x.header |->
                IF i = 1 THEN Via(Unmarked, x.header[1]) ELSE x.header[i]]

Aliases ==
  [timestamp |-> <<"window_start", "sip_timestamp", "participant_timestamp", "timestamp",
                   "datetime", "date_time", "bar_time", "date", "time", "dt", "epoch">>,
   symbol |-> <<"ticker", "symbol", "sym", "instrument", "asset", "underlying">>,
   open |-> <<"open", "open_price", "o">>, high |-> <<"high", "high_price", "h">>,
   low |-> <<"low", "low_price", "l">>, close |-> <<"close", "close_price", "c">>,
   adjusted_close |-> <<"adj_close", "adjusted_close", "adjclose">>,
   bid |-> <<"bid_price", "bid", "bid_px", "bidprice">>,
   ask |-> <<"ask_price", "ask", "ask_px", "askprice">>]

CaseSensitive == ("T" :> "symbol") @@ ("t" :> "timestamp")
LeftLabelledColumns == {"window_start", "start", "bar_start", "window_start_ns", "t"}

Prices == {"open", "high", "low", "close"}
Quotes == {"bid", "ask"}

\* The first column of the header that reads as name once how is applied.
ColumnNamed(x, how, name) ==
  LET found == SelectSeq(Header(x), LAMBDA column : Via(how, column) = name) IN
  IF found = <<>> THEN None ELSE found[1]

-----------------------------------------------------------------------------
(* _detect_schema.                                                         *)

Declared(x, role) ==
  LET wanted == x.config.columns[role]
      literal == ColumnNamed(x, Trimmed, wanted)
  IN  IF literal # None THEN literal ELSE ColumnNamed(x, Cleaned, Via(Cleaned, wanted))

Detected(x, role) ==
  LET literal == {c \in DOMAIN CaseSensitive :
                    CaseSensitive[c] = role /\ ColumnNamed(x, Trimmed, c) # None}
      known == SelectSeq(Aliases[role], LAMBDA a : ColumnNamed(x, Cleaned, a) # None)
  IN  IF literal # {} THEN CHOOSE c \in literal : TRUE
      ELSE IF known # <<>> THEN ColumnNamed(x, Cleaned, known[1]) ELSE None

RolesOf(x) ==
  IF x.config.columns # None
  THEN [role \in DOMAIN x.config.columns |-> Declared(x, role)]
  ELSE [role \in {r \in DOMAIN Aliases : Detected(x, r) # None} |-> Detected(x, role)]

\* _resolve_left_labelled.
LeftLabelledOf(x, roles) ==
  IF x.config.left # None THEN x.config.left
  ELSE "timestamp" \in DOMAIN roles /\ Via(Lowered, roles["timestamp"]) \in LeftLabelledColumns

\* The schema of a file.  It fails for a declared name the file lacks, or when
\* nothing in the header looks like bars or quotes.
SchemaOf(x) ==
  LET roles == RolesOf(x) IN
  [roles |-> roles,
   kind |-> IF Prices \subseteq DOMAIN roles THEN "aggregate" ELSE "quote",
   left |-> LeftLabelledOf(x, roles),
   fails |-> IF x.config.columns # None
             THEN \E role \in DOMAIN roles : roles[role] = None
             ELSE \/ "timestamp" \notin DOMAIN roles
                  \/ ~(Prices \subseteq DOMAIN roles) /\ ~(Quotes \subseteq DOMAIN roles)]

Roles == schema.roles
Kind == schema.kind

-----------------------------------------------------------------------------
(* What the exporter's cells say.                                          *)

\* The columns that label a bar by its open, whatever the provider thinks.
OpenColumns == LeftLabelledColumns \cup {"Window Start"}

Label(r) == IF Roles["timestamp"] \in OpenColumns THEN r.close - file.width ELSE r.close

Ten(k) == IF k = 0 THEN 1 ELSE IF k = 1 THEN 10 ELSE IF k = 2 THEN 100 ELSE 1000

\* An integer cell: the label without the digits its column or its row lacks.
Cell(r) == IF r.stamp = "ok" THEN (Label(r) * 100) \div Ten(file.unit + r.lost) ELSE 0

\* Local time, and the instants a local reading may stand for.
Local(zone, t) == t - zone - (IF t < ClockBack THEN 0 ELSE 1)
InstantsOf(zone, reading) == {t \in {reading + zone, reading + zone + 1} : Local(zone, t) = reading}
Readings(r) == InstantsOf(file.zone, Local(file.zone, Label(r)))

-----------------------------------------------------------------------------
(* _TimestampNormaliser.  The plausible window, in hundredths of a unit.   *)

PlausibleMin == 4383000         \* 1990-01-01
PlausibleMax == 28489200        \* 2100-01-01
Int64Max == 64051191
RepairFloor == 5197551          \* its middle over the square root of ten

Plausible(value) == PlausibleMin <= value /\ value <= PlausibleMax

\* Planted bug: the product wraps around instead of being clamped.
ApplyShiftWrapping(value, k) ==
  IF k < 0 THEN value \div Ten(-k)
  ELSE LET wide == (value * Ten(k)) % (2 * Int64Max + 2) IN
       IF wide > Int64Max THEN wide - (2 * Int64Max + 2) ELSE wide

\* _apply_shift: a product beyond int64 becomes 0 and fails the range check.
ApplyShift(value, k) ==
  IF k < 0 THEN value \div Ten(-k)
  ELSE IF value <= Int64Max \div Ten(k) THEN value * Ten(k) ELSE 0

\* _decimal_shift; 10 stands for None.
DecimalShift(value) ==
  LET fits == {k \in -3..3 :
                 IF k < 0 THEN Plausible(value \div Ten(-k))
                 ELSE value <= PlausibleMax \div Ten(k) /\ Plausible(value * Ten(k))}
  IN  IF value <= 0 \/ fits = {} THEN 10 ELSE Min(fits)

Median(s) ==
  LET sorted == SortSeq(s, <)  n == Len(s) IN
  IF n % 2 = 1 THEN sorted[(n + 1) \div 2]
  ELSE (sorted[n \div 2] + sorted[n \div 2 + 1]) \div 2

\* The power of ten REPAIR gives a value of its own: the logarithm of the
\* window's middle over it, rounded.
Wanted(value) == Min({k \in 0..3 : value >= RepairFloor \div Ten(k)} \cup {3})

Failure == None

\* What a conversion makes of the rows' stamps: per row an instant, and
\* whether it is valid.
Bad(ts) == [i \in DOMAIN ts |-> ~Plausible(ts[i])]

Outliers(raw, scaled) ==
  CASE config.badTimestamp = "strict" -> Failure
    [] config.badTimestamp = "drop" ->
         [i \in DOMAIN raw |-> [ts |-> scaled[i], valid |-> Plausible(scaled[i])]]
    [] config.badTimestamp = "repair" ->
         [i \in DOMAIN raw |->
            LET own == ApplyShift(raw[i], Wanted(raw[i]))
                ts == IF Plausible(scaled[i]) \/ ~Plausible(own) THEN scaled[i] ELSE own
            IN  [ts |-> ts, valid |-> Plausible(ts)]]

ScaleIntegers(raw) ==
  LET blank == \A i \in DOMAIN raw : raw[i] <= 0
      shift == IF config.epochUnit # None THEN config.epochUnit
               ELSE IF blank THEN 0 ELSE DecimalShift(Median(SelectSeq(raw, LAMBDA v : v > 0)))
      scaled == [i \in DOMAIN raw |-> IF shift = 10 THEN 0 ELSE ApplyShift(raw[i], shift)]
  IN  IF config.epochUnit # None \/ blank
      THEN [i \in DOMAIN raw |-> [ts |-> scaled[i], valid |-> raw[i] > 0]]
      ELSE IF shift = 10 THEN Failure
      ELSE IF \A i \in DOMAIN raw : Plausible(scaled[i])
           THEN [i \in DOMAIN raw |-> [ts |-> scaled[i], valid |-> TRUE]]
           ELSE Outliers(raw, scaled)

\* _from_arrow_timestamps: a naive local reading, which two instants may have.
Localised(r) ==
  IF config.ambiguous = "latest" THEN Max(Readings(r)) ELSE Min(Readings(r))

FromArrowTimestamps ==
  IF config.ambiguous = "raise"
     /\ \E i \in DOMAIN rows :
          rows[i].stamp = "ok" /\ Cardinality(Readings(rows[i])) > 1
  THEN Failure
  ELSE [i \in DOMAIN rows |->
          [ts |-> IF rows[i].stamp = "ok" THEN 100 * Localised(rows[i]) ELSE 0,
           valid |-> rows[i].stamp = "ok"]]

\* _from_strings: with a format, text that does not parse becomes a null.
FromStrings ==
  IF ~config.format /\ \E i \in DOMAIN rows : rows[i].stamp = "junk" THEN Failure
  ELSE FromArrowTimestamps

Normalised ==
  IF file.stamps = "integer" THEN ScaleIntegers([i \in DOMAIN rows |-> Cell(rows[i])])
  ELSE IF file.stamps = "native" THEN FromArrowTimestamps ELSE FromStrings

-----------------------------------------------------------------------------
(* _read_csv.                                                              *)

Blank == -1
Text  == -2

(* A cell of a numeric column that is neither a number nor a null spelling *)
(* refuses the file.                                                       *)
ReadFails ==
  \E i \in DOMAIN rows : \E role \in DOMAIN Roles \cap DOMAIN rows[i].prices :
    rows[i].prices[role] = Text

\* _float_column: no column and a cell that does not parse both read as 0.
FloatColumn(r, role) ==
  IF role \notin DOMAIN Roles \/ r.prices[role] = Blank THEN 0 ELSE r.prices[role]

OhlcValid(r) ==
  LET o == FloatColumn(r, "open")  h == FloatColumn(r, "high")
      l == FloatColumn(r, "low")   c == FloatColumn(r, "close")
  IN  l <= o /\ o <= h /\ l <= c /\ c <= h /\ l <= h

QuoteValid(r) ==
  LET bid == FloatColumn(r, "bid")  ask == FloatColumn(r, "ask") IN
  config.dropInvalidQuotes => bid > 0 /\ ask > 0 /\ ask >= bid

\* _symbol_column: the ticker of the row, or the one configured or named.
Fallback == IF config.defaultSymbol # None THEN config.defaultSymbol ELSE file.name.symbol
SymbolFails == "symbol" \notin DOMAIN Roles /\ Fallback = None
SymbolOf(r) == IF "symbol" \in DOMAIN Roles THEN r.symbol ELSE Fallback

\* Where the labels are to be moved, the first row's ticker is asked for before
\* it is known that there is a row.
NoFirstRow == rows = <<>> /\ schema.left /\ Kind = "aggregate"

\* _modal_spacing: the commonest positive gap between the stamps of a number of
\* rows, the smallest of several.
ModalSpacing(count, stamps) ==
  LET gaps == {d \in {u - t : t, u \in stamps} : d > 0}
      times(g) == Cardinality({t \in stamps : /\ t + g \in stamps
                                              /\ \A u \in stamps : u <= t \/ t + g <= u})
  IN  IF count < 3 \/ gaps = {} THEN 0
      ELSE Min({g \in gaps : \A other \in gaps : times(other) <= times(g)})

\* Planted bug: the gaps of all tickers together.
WidthSampleOfAll(valid) == DOMAIN rows

\* The usable rows of the first row's ticker.
WidthSample(valid) ==
  {i \in DOMAIN rows : /\ (\E j \in DOMAIN rows : valid[j]) => valid[i]
                       /\ SymbolOf(rows[i]) = SymbolOf(rows[1])}

\* _bar_width_ns.
BarWidth(norm, valid) ==
  IF config.timeframe # None THEN 100 * config.timeframe
  ELSE ModalSpacing(Cardinality(WidthSample(valid)), {norm[i].ts : i \in WidthSample(valid)})

Shift(norm, valid) ==
  IF schema.left /\ Kind = "aggregate" /\ rows # <<>> THEN BarWidth(norm, valid) ELSE 0

Valid(norm) ==
  [i \in DOMAIN rows |->
     norm[i].valid /\ (IF Kind = "aggregate" THEN OhlcValid(rows[i]) ELSE QuoteValid(rows[i]))]

TableOf(norm) ==
  {[row |-> i, label |-> norm[i].ts, ts |-> norm[i].ts + Shift(norm, Valid(norm)),
    symbol |-> SymbolOf(rows[i])] : i \in {j \in DOMAIN rows : Valid(norm)[j]}}

-----------------------------------------------------------------------------
(* _convert.                                                               *)

Frames == {1, 6, 42}            \* 4h, 1d and 1w; shorter ones match no gap here

StampsOf(table) == {r.ts : r \in table}
OfTicker(symbol, table) == {r \in table : r.symbol = symbol}

\* _infer_timeframe: of the table's first ticker, in (ts, symbol) order.
InferTimeframe(table) ==
  LET first == Min(StampsOf(table))
      ticker == CHOOSE s \in {r.symbol : r \in table} :
                  /\ \E r \in table : r.ts = first /\ r.symbol = s
                  /\ \A r \in table : r.ts = first => s <= r.symbol
      sample == OfTicker(ticker, table)
      spacing == ModalSpacing(Cardinality(sample), StampsOf(sample))
  IN  IF config.timeframe # None THEN config.timeframe
      ELSE IF Cardinality(table) >= 3 /\ \E f \in Frames : 100 * f = spacing
           THEN spacing \div 100 ELSE None

EntryOf(table) ==
  [table |-> table, kind |-> Kind, symbols |-> {r.symbol : r \in table},
   minTs |-> IF table = {} THEN 0 ELSE Min(StampsOf(table)),
   maxTs |-> IF table = {} THEN 0 ELSE Max(StampsOf(table)),
   timeframe |-> IF Kind = "aggregate" /\ table # {} THEN InferTimeframe(table)
                 ELSE IF Kind = "aggregate" THEN config.timeframe ELSE None]

Raises == entry' = None /\ refused' = TRUE /\ UNCHANGED <<file, schema, rows>>

Convert ==
  /\ entry = None
  /\ IF schema.fails \/ ReadFails \/ SymbolFails \/ NoFirstRow THEN Raises
     ELSE LET norm == Normalised IN
          IF norm = Failure THEN Raises
          ELSE /\ entry' = EntryOf(TableOf(norm))
               /\ refused' = FALSE
               /\ UNCHANGED <<file, schema, rows>>

\* The exporter adds a row: the file's size changes and its entry is stale.
Write ==
  /\ Len(rows) < MaxRows
  /\ \E r \in Cells[file.family] : rows' = Append(rows, r)
  /\ entry' = None /\ refused' = FALSE
  /\ UNCHANGED <<file, schema>>

ConversionInit ==
  /\ file \in Exports
  /\ schema = SchemaOf(file)         \* _schema_for: read once, and the header stays
  /\ rows = <<>> /\ entry = None /\ refused = FALSE

ConversionNext == Write \/ Convert

ConversionSpec == ConversionInit /\ [][ConversionNext]_conversionVars

-----------------------------------------------------------------------------
(* What the provider answers from a name or an entry.                      *)

PerDay == 6

\* Planted bug: a session's file is taken to end with its UTC day.
HintExcludesUnpadded(wanted, lo, hi) ==
  \/ file.name.symbol # None /\ file.name.symbol \notin wanted
  \/ /\ file.name.day # None
     /\ \/ file.name.day * PerDay > hi
        \/ (file.name.day + 1) * PerDay < lo

\* _hint_excludes: a day before and a day after the day that is named.
HintExcludes(wanted, lo, hi) ==
  \/ file.name.symbol # None /\ file.name.symbol \notin wanted
  \/ /\ file.name.day # None
     /\ \/ (file.name.day - 1) * PerDay > hi
        \/ (file.name.day + 2) * PerDay < lo

\* _prune_files, on this file.
Pruned(kind, wanted, lo, hi) ==
  IF entry # None
  THEN ~(entry.kind = kind /\ entry.table # {}
           /\ entry.minTs <= 100 * hi /\ entry.maxTs >= 100 * lo
           /\ wanted \intersect entry.symbols # {})
  ELSE config.trustHints /\ HintExcludes(wanted, lo, hi)

\* _warn_on_hint_mismatch: what a conversion says of a name that misleads.
WarnsOfName ==
  /\ config.trustHints
  /\ \/ /\ file.name.symbol # None /\ entry.symbols # {}
        /\ entry.symbols # {file.name.symbol}
     \/ /\ file.name.day # None /\ entry.table # {}
        /\ \/ entry.minTs < 100 * (file.name.day - 1) * PerDay
           \/ entry.maxTs > 100 * (file.name.day + 2) * PerDay

\* coverage and available_symbols.
Coverage(symbol) ==
  IF entry = None \/ symbol \notin entry.symbols THEN None ELSE <<entry.minTs, entry.maxTs>>
AvailableSymbols == IF entry = None THEN {} ELSE entry.symbols

-----------------------------------------------------------------------------
(* Back-adjustment, when a table is read.  A float is an integer number of *)
(* 2^-8ths, of which all but the leading Precision bits are 0.             *)

One == 256

\* The float nearest to n / d, the even one of two.
FloatOf(n, d) ==
  LET bits  == CHOOSE b \in 0..20 : n < d * 2^b /\ (b = 0 \/ n >= d * 2^(b - 1))
      grain == d * 2^(IF bits > Precision THEN bits - Precision ELSE 0)
      down  == n \div grain
      rest  == 2 * (n % grain)
      up    == rest > grain \/ (rest = grain /\ down % 2 = 1)
  IN  (IF up THEN down + 1 ELSE down) * (grain \div d)

\* Planted bug: a cell without an adjusted close scales its row all the same.
UsableAlways(r) == FloatColumn(r, "close") > 0

\* Which rows have a close to scale to.
Usable(r) == FloatColumn(r, "adjusted_close") > 0 /\ FloatColumn(r, "close") > 0

\* _bar_arrays: open, high and low are scaled by the ratio of the closes, and
\* the close is the adjusted one.
BarOf(r, adjusted) ==
  LET raw   == [role \in Prices |-> One * FloatColumn(r, role)]
      ratio == FloatOf(One * FloatColumn(r, "adjusted_close"), FloatColumn(r, "close"))
  IN  IF ~(adjusted /\ "adjusted_close" \in DOMAIN Roles /\ Usable(r)) THEN raw
      ELSE [role \in Prices |->
              IF role = "close" THEN One * FloatColumn(r, "adjusted_close")
              ELSE FloatOf(FloatColumn(r, role) * ratio, 1)]

\* Bar.__post_init__, which stream_bars goes through and load_series does not.
IsBar(b) ==
  b.low <= b.open /\ b.open <= b.high /\ b.low <= b.close /\ b.close <= b.high

-----------------------------------------------------------------------------
(* What converting a CSV file must not do to the bars in it.                *)

Table == IF entry = None THEN {} ELSE entry.table

TrueLabel(r) == 100 * Label(r)

Ambiguous(r) ==
  file.stamps # "integer" /\ Cardinality(Readings(r)) > 1

\* An exporter that keeps to the documented range: integer stamps between 1990
\* and 2100, which lack at most their two decimal digits.
KeepsToTheRange ==
  \A x \in Exports : x.stamps = "integer" =>
    \A r \in Cells[x.family] :
      /\ PlausibleMin <= 100 * (r.close - x.width) /\ 100 * r.close <= PlausibleMax
      /\ x.unit + r.lost <= 2

\* An exporter whose file says what its labels are: a column that labels bars
\* by their open is known for one, a timeframe or unit that is configured is
\* the file's own, and bars of one ticker do not overlap.
SaysWhatItLabels ==
  \A x \in Exports : SchemaOf(x).kind = "aggregate" /\ ~SchemaOf(x).fails =>
    LET roles == SchemaOf(x).roles IN
    /\ roles["timestamp"] \in OpenColumns => SchemaOf(x).left
    /\ x.config.timeframe # None => x.config.timeframe >= x.width
    /\ \A r, q \in Cells[x.family] :
         /\ x.config.epochUnit # None => x.unit = x.config.epochUnit /\ r.lost = 0
         /\ r.close < q.close /\ ("symbol" \in DOMAIN roles => r.symbol = q.symbol)
              => q.close - r.close >= x.width

\* A left-labelled file tells its bar width when it is configured, or when its
\* first ticker has three bars of at least two instants.
Measurable ==
  LET first == OfTicker(SymbolOf(rows[1]), Table) IN
  ~schema.left \/ config.timeframe # None
    \/ (Cardinality(first) >= 3 /\ Cardinality(StampsOf(first)) >= 2)

\* No local reading stands for two instants: of this row, or of any when the
\* width of a bar is measured.
Clear(i) ==
  IF config.timeframe # None THEN ~Ambiguous(rows[i]) ELSE \A j \in DOMAIN rows : ~Ambiguous(rows[j])

\* No lookahead: a bar is never served before it has closed, whichever column
\* labels it, whatever tickers share its file and whatever bars are missing or
\* damaged in between; and no inferred timeframe is shorter than the bars are.
\* Bars are left aside whose local reading two instants share.
\* (_read_csv 1297-1301 with _bar_width_ns 1369-1404, _infer_timeframe 1406-1425.)
NeverEarly ==
  \A t \in Table : Kind = "aggregate" /\ Measurable /\ Clear(t.row) =>
    /\ t.ts >= 100 * rows[t.row].close
    /\ entry.timeframe # None => entry.timeframe >= file.width

\* Timestamps of mixed magnitude: no row is ever given a date it did not have,
\* whatever digits it, its neighbours or its whole column lack; and REPAIR
\* loses none that ticked after September 1993, be they most of the column.
\* (_scale_integers 589-621, _handle_outliers 623-674, _apply_shift 536-545.)
HealsPerRow ==
  file.stamps = "integer" /\ config.epochUnit = None /\ entry # None =>
    /\ \A t \in Table : t.label = TrueLabel(rows[t.row])
    /\ config.badTimestamp = "repair" =>
         \A i \in DOMAIN rows :
           /\ rows[i].stamp = "ok" /\ TrueLabel(rows[i]) >= RepairFloor
           /\ Kind = "aggregate" /\ OhlcValid(rows[i])
           => \E t \in Table : t.row = i

NamedFor(r) ==
  /\ file.name.symbol \in {None, SymbolOf(r)}
  /\ file.name.day # None => \E offset \in -3..3 : (r.close - offset) \div PerDay = file.name.day

PrunesTheUnwanted(lo, hi, s) ==
  LET served == {t \in Table : t.symbol = s /\ 100 * lo <= t.ts /\ t.ts <= 100 * hi} IN
  /\ lo <= hi /\ Pruned(Kind, {s}, lo, hi) =>
       IF entry = None
       THEN ~\E i \in DOMAIN rows :
               SymbolOf(rows[i]) = s /\ lo <= rows[i].close /\ rows[i].close <= hi /\ NamedFor(rows[i])
       ELSE served = {}
  /\ lo <= hi /\ served # {} /\ config.trustHints /\ HintExcludes({s}, lo, hi) => WarnsOfName
  /\ \A t \in Table :
       t.symbol = s => Coverage(s)[1] <= t.ts /\ t.ts <= Coverage(s)[2]

\* Pruning is conservative: a file passed over for a window, by its name
\* before it is read or by its index entry after, has no row to give to it,
\* whatever the exchange's distance from UTC (_prune_files 916-945,
\* _hint_excludes 947-960).  Where a name misleads, and hides rows from a
\* provider that has not read the file, its conversion warns of it
\* (_warn_on_hint_mismatch 1213-1239).  A ticker's coverage holds all its rows.
NothingWantedIsPruned ==
  LET edges == {rows[i].close : i \in DOMAIN rows} IN
  \A lo, hi \in edges : \A s \in {SymbolOf(rows[i]) : i \in DOMAIN rows} : PrunesTheUnwanted(lo, hi, s)

\* Back-adjustment goes row by row: a row that has no adjusted close keeps its
\* prices whatever its neighbours have, and one that has keeps its open inside
\* its range, its close at the adjusted one and its prices positive; only one
\* that closed at its high or its low may be no bar any more, by a rounding
\* (_bar_arrays 1940-1963, Bar.__post_init__).
AdjustsRowByRow ==
  \A t \in Table : Kind = "aggregate" =>
    LET r == rows[t.row]  raw == BarOf(r, FALSE)  b == BarOf(r, TRUE)
        adjusted == FloatColumn(r, "adjusted_close")
    IN  /\ adjusted = 0 => b = raw
        /\ adjusted > 0 /\ raw.close > 0 => b.close = One * adjusted
        /\ b.low <= b.open /\ b.open <= b.high
        /\ raw.low > 0 => b.low > 0
        /\ IsBar(b) \/ (adjusted > 0 /\ raw.close \in {raw.low, raw.high})
=============================================================================
