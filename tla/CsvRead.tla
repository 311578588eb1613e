------------------------------- MODULE CsvRead -------------------------------
(***************************************************************************)
(* How CsvDataProvider (sigmaloop/data/providers/csv_provider.py) answers  *)
(* a request from its converted files: which files it selects, how far it  *)
(* reaches back for warm-up bars, the slices it reads them in, the folding *)
(* of quotes into bars and the quote it joins to each bar.                 *)
(*                                                                         *)
(* Time is counted in units of which a bar is Width long (0: a TICK frame, *)
(* one bar per quote); the provider is configured with that frame.  A row  *)
(* is <<instant, symbol>> in a file and stands for its prices: two files   *)
(* with one row are a restatement, and a bar is the set of the rows it is  *)
(* made of, of which open, high, low, close and the closing quote are      *)
(* functions.  Files do not change while they are read (CsvIndex: edits).  *)
(***************************************************************************)
EXTENDS Integers, FiniteSets, FiniteSetsExt

CONSTANTS
  Width,      \* _frame_width_ns
  Day,        \* _NS_PER_DAY
  Reach,      \* the multiplier of _history_lookback_ns: 8 intraday, else 2
  Symbols,
  Datasets,   \* the directories to read: functions from files 1..n
  Requests,   \* the requests, with the configuration that reads them
  Nothing

(* A file has a row (or it is no file of the index); DataRequest checks    *)
(* that a window has a length, and _slices takes chunk to be positive.     *)
ASSUME CsvReadAssumption ==
  /\ Width \in Nat /\ Day \in Nat \ {0} /\ Reach \in Nat \ {0}
  /\ \A directory \in Datasets :
       /\ IsFiniteSet(DOMAIN directory) /\ DOMAIN directory \subseteq Nat
       /\ \A f \in DOMAIN directory :
            LET rows == directory[f].rows
            IN rows \subseteq Int \X Symbols /\ IsFiniteSet(rows) /\ rows # {}
  /\ \A asked \in Requests :
       /\ asked.what \in {"bars", "quotes"} /\ asked.symbols \subseteq Symbols
       /\ asked.start \in Int /\ asked.end \in Int /\ asked.start < asked.end
       /\ asked.warmup \in Nat /\ asked.chunk \in Nat \ {0}
       /\ asked.maxAge \in Int \cup {Nothing}

VARIABLES
  files,    \* per file, in discovery order: its kind and its rows
  request,  \* the request and the settings that matter to it
  at,       \* "asked", "streaming", "done", or "failed": an exception
  read,     \* what _prepare_read returned: entries, fromQuotes, from
  cursor,   \* where the next slice begins
  carry,    \* per symbol: the instant and file of _QuoteReader._carry
  out       \* the bars yielded so far, with the quote of each

vars == <<files, request, at, read, cursor, carry, out>>

(***************************************************************************)
(* Files and tables.                                                       *)
(***************************************************************************)
MinTs(f) == Min({k[1] : k \in files[f].rows})
MaxTs(f) == Max({k[1] : k \in files[f].rows})
Overlaps(f, lo, hi) == MinTs(f) <= hi /\ MaxTs(f) >= lo
Active(es, lo, hi)  == {f \in es : Overlaps(f, lo, hi)}

(* _prune_files and the filters of _aggregate_entries and _quote_entries.  *)
Selected(kind, from) ==
  {f \in DOMAIN files :
     /\ files[f].kind = kind
     /\ Overlaps(f, from, request.end)
     /\ \E k \in files[f].rows : k[2] \in request.symbols}

(* _load_file_table: the rows of a window, *)
RowsOf(f, lo, hi) == {k \in files[f].rows : k[2] \in request.symbols /\ lo <= k[1] /\ k[1] <= hi}
Rows(es, lo, hi)  == UNION {RowsOf(f, lo, hi) : f \in es}

(* _deduplicate: an error, or the first or the last file that has the row; *)
(* the concatenation was sorted by instant and symbol, files in order.     *)
Repeated(es, lo, hi) ==
  /\ request.onDuplicate = "error"
  /\ \E k \in Rows(es, lo, hi) : Cardinality({f \in es : k \in files[f].rows}) > 1
Taken(es, k) ==
  LET having == {f \in es : k \in files[f].rows}
  IN IF request.onDuplicate = "keep_first" THEN Min(having) ELSE Max(having)
(* _gather: the file each row is taken from. *)
Gather(es, lo, hi) == [k \in Rows(es, lo, hi) |-> Taken(es, k)]

(***************************************************************************)
(* Warm-up: where to read from.                                            *)
(***************************************************************************)
Pads == <<3, 12, 60, 400>>
Frame == IF Width = 0 THEN Day ELSE Width

(* _history_lookback_ns and _window_start_ns; without a bound, from 0 on. *)
WindowStart == request.start - request.warmup * Frame * Reach
AllHistory  == 0

(* _bar_source: aggregates win; otherwise quotes are folded. *)
BarSource(from) ==
  LET aggregates == Selected("aggregate", from)
      quotes     == Selected("quote", from)
  IN IF aggregates # {} THEN [entries |-> aggregates, fromQuotes |-> FALSE]
     ELSE [entries |-> quotes, fromQuotes |-> quotes # {}]
SourceFails(source) == source.fromQuotes /\ ~request.derives

(* _probe_warmup_cut: the instant of the warmup-th last row before start,  *)
(* the earliest over the symbols that have a row in the probe.             *)
Instants(rows, s) == {k[1] : k \in {r \in rows : r[2] = s}}
WarmupthLast(S)   == CHOOSE t \in S : Cardinality({u \in S : u > t}) = request.warmup - 1
ProbeRows(es, probe) ==
  Rows(Active(es, probe, request.start), probe, request.start - 1)
Cut(es, probe) ==
  LET rows    == ProbeRows(es, probe)
      symbols == {k[2] : k \in rows}
  IN IF rows = {} \/ \E s \in symbols : Cardinality(Instants(rows, s)) < request.warmup
     THEN Nothing
     ELSE Min({WarmupthLast(Instants(rows, s)) : s \in symbols})

Floor(es)    == Min({MinTs(f) : f \in es})
Probe(es, i) == Max({Floor(es), request.start - Frame * request.warmup * Pads[i]})
Answers(es)  == {i \in DOMAIN Pads : Cut(es, Probe(es, i)) # Nothing}
(* _warmup_start_ns widens the probe until one answers. *)
WarmupStart(es) ==
  IF request.warmup = 0 THEN request.start
  ELSE IF Answers(es) = {} THEN Floor(es)
  ELSE Cut(es, Probe(es, Min(Answers(es))))
WarmupFails(es) ==
  /\ request.warmup > 0
  /\ \E i \in DOMAIN Pads :
       /\ \A j \in Answers(es) : i <= j
       /\ LET probe == Probe(es, i)
          IN Repeated(Active(es, probe, request.start), probe, request.start - 1)

(* The probe reached the beginning of what was selected.                   *)
Reopens(source) ==
  /\ source.entries # {} /\ request.warmup > 0
  /\ WarmupStart(source.entries) <= Floor(source.entries)
Kept(first, second) ==
  IF Cardinality(second.entries) > Cardinality(first.entries) THEN second.entries
                                                              ELSE first.entries
Reading(first, second, es) ==
  [entries    |-> es,
   fromQuotes |-> second.fromQuotes,
   from       |-> IF es = {} THEN 0 ELSE WarmupStart(es),
   fails      |-> \/ \E source \in {first, second} : SourceFails(source)
                  \/ \E tried \in {first.entries, es} : tried # {} /\ WarmupFails(tried)]

(* Planted bug: the history beyond the first selection is never opened. *)
PrepareOnce ==
  LET source == BarSource(WindowStart) IN Reading(source, source, source.entries)
(* _prepare_read: once more over all of history if need be; the kind is    *)
(* then that of the second selection, whichever entries are kept.          *)
Prepared ==
  LET first  == BarSource(WindowStart)
      second == IF Reopens(first) THEN BarSource(AllHistory) ELSE first
  IN Reading(first, second, Kept(first, second))

(* Back to the start of the bar that holds the instant. *)
Widened(from) == IF Width = 0 THEN from ELSE Max({((from - 1) \div Width) * Width + 1, 0})

(***************************************************************************)
(* Slices.                                                                 *)
(***************************************************************************)
MaxSlices   == 100000
Total(es)   == Cardinality(UNION {{f} \X files[f].rows : f \in es})
Covered(es) == Max({Max({MaxTs(f) : f \in es}) - Floor(es), 1})

(* Planted bug: a boundary falls where the row budget puts it. *)
StepUnaligned(es, from, align) ==
  LET span  == request.end - from
      width == Max({(request.chunk * Covered(es)) \div Total(es), 1})
      step  == span \div Min({(span \div width) + 1, MaxSlices}) + 1
  IN IF span <= 0 \/ Total(es) <= request.chunk THEN Max({span, 0}) + 1 ELSE step
(* _slices: the length of a slice, in whole bars where quotes are folded.  *)
Step(es, from, align) ==
  LET span  == request.end - from
      width == Max({(request.chunk * Covered(es)) \div Total(es), 1})
      step  == span \div Min({(span \div width) + 1, MaxSlices}) + 1
  IN IF span <= 0 \/ Total(es) <= request.chunk THEN Max({span, 0}) + 1
     ELSE IF align = 0 THEN step
     ELSE Max({(step + align - 1) \div align, 1}) * align

SliceEnd(lo, step)       == Min({lo + step - 1, request.end})

(* _bars_from_quotes: a bar is labelled with its close. *)
CloseOf(t) == IF Width = 0 THEN t ELSE ((t - 1) \div Width + 1) * Width
Parts(table, k) == {<<r[1], table[r]>> : r \in {q \in DOMAIN table : CloseOf(q[1]) = k[1] /\ q[2] = k[2]}}
Fold(table) == [k \in {<<CloseOf(r[1]), r[2]>> : r \in DOMAIN table} |-> Parts(table, k)]
AsBars(table) == [k \in DOMAIN table |-> {<<k[1], table[k]>>}]

(***************************************************************************)
(* Quotes.                                                                 *)
(***************************************************************************)
(* _QuoteReader: its files, and the rows it has of a slice. *)
QuoteEntries == Selected("quote", request.start)
QuoteTable(lo, hi) == Gather(Active(QuoteEntries, lo - Frame, hi), lo - Frame, hi)
Newest(table, ks) == LET k == CHOOSE k \in ks : \A j \in ks : j[1] <= k[1] IN <<k[1], table[k]>>

(* Planted bug: the first quote of the slice that is not older than the bar. *)
ResolveForward(table, k) ==
  LET own == {r \in DOMAIN table : r[2] = k[2] /\ r[1] >= k[1]}
  IN IF own = {} THEN carry[k[2]]
     ELSE LET r == CHOOSE r \in own : \A j \in own : r[1] <= j[1] IN <<r[1], table[r]>>
(* _resolve: the newest of the slice, else what was carried; not too old.  *)
Resolve(table, k) ==
  LET own  == {r \in DOMAIN table : r[2] = k[2] /\ r[1] <= k[1]}
      best == IF own # {} THEN Newest(table, own) ELSE carry[k[2]]
  IN IF best # Nothing /\ request.maxAge # Nothing /\ k[1] - best[1] > request.maxAge
     THEN Nothing ELSE best

Carried(table) ==
  [s \in request.symbols |->
     LET own == {r \in DOMAIN table : r[2] = s}
     IN IF own = {} THEN carry[s] ELSE Newest(table, own)]

(***************************************************************************)
(* The generator behind stream_bars, and stream_quotes.                    *)
(***************************************************************************)
Joining == request.quotes /\ ~read.fromQuotes /\ request.what = "bars"

(* stream_bars: nothing to read, or where to begin. *)
FromOf(p) == IF p.fromQuotes THEN Widened(p.from) ELSE p.from
Begin(p) ==
  /\ at' = CASE p.fails -> "failed" [] ~p.fails /\ p.entries = {} -> "done" [] OTHER -> "streaming"
  /\ cursor' = FromOf(p)
  /\ read' = [entries |-> p.entries, fromQuotes |-> p.fromQuotes, from |-> cursor']
  /\ UNCHANGED <<files, request, carry, out>>
Ask ==
  /\ at = "asked" /\ request.what = "bars"
  /\ Begin(Prepared)

(* stream_quotes: the raw updates of the window. *)
AskQuotes ==
  /\ at = "asked" /\ request.what = "quotes"
  /\ at' = IF QuoteEntries = {} THEN "done" ELSE "streaming"
  /\ read' = [entries |-> QuoteEntries, fromQuotes |-> FALSE, from |-> request.start]
  /\ cursor' = request.start
  /\ UNCHANGED <<files, request, carry, out>>

(* The next slice, and the files it needs. *)
StepNow  == Step(read.entries, read.from, IF read.fromQuotes THEN Width ELSE 0)
SliceHi  == SliceEnd(cursor, StepNow)
InSlice  == Active(read.entries, cursor, SliceHi)
SliceTable == Gather(InSlice, cursor, SliceHi)

Followed(f, g) ==
  [k \in DOMAIN f \cup DOMAIN g |-> IF k \in DOMAIN g THEN g[k] ELSE f[k]]
(* What a slice yields; one with no rows is passed over, its quotes too.   *)
NextSlice(what, table, fails, yields, carries) ==
  /\ at = "streaming" /\ request.what = what
  /\ cursor <= request.end
  /\ at' = IF fails THEN "failed" ELSE at
  /\ IF fails \/ DOMAIN table = {} THEN UNCHANGED <<out, carry>>
     ELSE out' = Followed(out, yields) /\ carry' = carries
  /\ cursor' = cursor + StepNow
  /\ UNCHANGED <<files, request, read>>

(* _closing_quotes: the last of the quotes a bar is folded from. *)
ClosingQuote(parts) == CHOOSE p \in parts : \A other \in parts : other[1] <= p[1]

(* A slice of stream_bars: its rows, made into bars, each with its quote.  *)
(* Quote files that are read as aggregates have no such columns.           *)
BarSlice ==
  LET table  == SliceTable
      hi     == SliceHi
      bars   == IF read.fromQuotes THEN Fold(table) ELSE AsBars(table)
      quotes == QuoteTable(cursor, hi)
      kept   == {k \in DOMAIN bars : k[1] <= request.end}
      quote(k) == IF read.fromQuotes THEN ClosingQuote(bars[k])
                  ELSE IF Joining THEN Resolve(quotes, k) ELSE Nothing
      unread == ~read.fromQuotes /\ \E f \in InSlice : files[f].kind = "quote"
      behind == cursor - Frame
  IN NextSlice("bars", table,
            \/ Repeated(InSlice, cursor, hi)
            \/ DOMAIN table # {} /\ unread
            \/ /\ DOMAIN table # {} /\ Joining
               /\ Repeated(Active(QuoteEntries, behind, hi), behind, hi),
            [k \in kept |-> [bar |-> bars[k], quote |-> quote(k)]],
            IF Joining THEN Carried(quotes) ELSE carry)

(* A slice of stream_quotes: its rows as they are. *)
QuoteSlice ==
  LET table == SliceTable
  IN NextSlice("quotes", table, Repeated(InSlice, cursor, SliceHi),
               [k \in DOMAIN table |->
                  [bar |-> {<<k[1], table[k]>>}, quote |-> <<k[1], table[k]>>]],
               carry)

Finish ==
  /\ at = "streaming"
  /\ cursor > request.end
  /\ at' = "done"
  /\ UNCHANGED <<files, request, read, cursor, carry, out>>

Init ==
  /\ files \in Datasets
  /\ request \in Requests
  /\ at = "asked"
  /\ read = [entries |-> {}, fromQuotes |-> FALSE, from |-> 0]
  /\ cursor = 0
  /\ carry = [s \in request.symbols |-> Nothing]
  /\ out = [k \in {} |-> Nothing]
Next == Ask \/ AskQuotes \/ BarSlice \/ QuoteSlice \/ Finish
Spec == Init /\ [][Next]_vars

(***************************************************************************)
(* _load_many_uncached: the same window in one read.                       *)
(***************************************************************************)
BarsOf(table, fromQuotes) == IF fromQuotes THEN Fold(table) ELSE AsBars(table)
LoadRead(p) ==
  IF p.entries = {} THEN [k \in {} |-> Nothing]
  ELSE BarsOf(Gather(p.entries, FromOf(p), request.end), p.fromQuotes)

(* Planted bug: the bars of every symbol from the common cut on. *)
TrimNot(bars, s) == {k \in DOMAIN bars : k[2] = s}
(* _trim_warmup: of one symbol, the bars from start on and the warmup bars before. *)
Trim(bars, s) ==
  {k \in DOMAIN bars :
     /\ k[2] = s
     /\ \/ k[1] >= request.start
        \/ Cardinality({j \in DOMAIN bars : j[2] = s /\ k[1] < j[1] /\ j[1] < request.start})
             < request.warmup}
TrimWarmup(bars) == [k \in UNION {Trim(bars, s) : s \in request.symbols} |-> bars[k]]
LoadMany == TrimWarmup(LoadRead(Prepared))

-----------------------------------------------------------------------------
(* What a caller of stream_bars and load_series may rely on. *)

TypeOK ==
  /\ at \in {"asked", "streaming", "done", "failed"}
  /\ read.entries \subseteq DOMAIN files /\ read.fromQuotes \in BOOLEAN /\ read.from \in Int
  /\ cursor \in Int
  /\ \A s \in request.symbols :
       carry[s] = Nothing \/ carry[s] \in Int \X DOMAIN files
  /\ \A k \in DOMAIN out :
       /\ k[1] \in Int /\ k[2] \in request.symbols
       /\ out[k].bar # {} /\ out[k].bar \subseteq Int \X DOMAIN files

(* All the rows there are of the symbols that were asked for. *)
AllRows(es) ==
  [k \in {r \in UNION {files[f].rows : f \in es} : r[2] \in request.symbols} |-> Taken(es, k)]

(* However the window is sliced, what is yielded is what one read of the   *)
(* selected files yields: nothing lost, nothing twice, and every folded    *)
(* bar whole, the first of them too (_slices: "a slice cutting through a   *)
(* bar would emit two half-bars"; _stream: "so the first bar is folded     *)
(* from all its quotes rather than a suffix").                             *)
StreamIsOneRead ==
  LET es    == read.entries
      table == AllRows(es)
      whole == IF read.fromQuotes THEN Fold(table) ELSE AsBars(table)
      wanted == {k \in DOMAIN whole : read.from <= k[1] /\ k[1] <= request.end}
  IN at = "done" =>
       /\ DOMAIN out = wanted
       /\ \A k \in wanted : out[k].bar = whole[k]

(* The quotes that are at most back older than a bar, of its symbol.       *)
Near(k, table, back) ==
  {r \in DOMAIN table : r[2] = k[2] /\ r[1] <= k[1] /\ k[1] - r[1] <= back}
(* A joined quote: the newest within a bar's length and max_quote_age, if  *)
(* there is one, and in any case one of the past and not too old.          *)
WellJoined(k, q) ==
  LET joined == AllRows(QuoteEntries)
      age    == IF request.maxAge = Nothing THEN Frame ELSE Min({Frame, request.maxAge})
  IN /\ Near(k, joined, age) # {} => q = Newest(joined, Near(k, joined, age))
     /\ q # Nothing =>
          /\ q[1] <= k[1]
          /\ <<q[1], k[2]>> \in DOMAIN joined /\ joined[<<q[1], k[2]>>] = q[2]
          /\ request.maxAge = Nothing \/ k[1] - q[1] <= request.maxAge
(* The last quote of the bar's own interval.                               *)
LastOfBar(k) ==
  LET folded == AllRows(read.entries)
  IN Newest(folded, Near(k, folded, IF Width = 0 THEN 0 ELSE Width - 1))
(* A bar's quote existed at its close, is not older than max_quote_age,    *)
(* and is the newest one the reader's files have within a bar's length; a  *)
(* bar goes without only if they have none (_QuoteReader).  A bar folded   *)
(* from quotes carries the last of its own interval, wherever the slices   *)
(* fell (_closing_quotes).                                                 *)
QuoteExisted ==
  \A k \in DOMAIN out :
    /\ Joining => WellJoined(k, out[k].quote)
    /\ read.fromQuotes => out[k].quote = LastOfBar(k)

(* A symbol that has a bar shortly before the window gets the warm-up bars *)
(* it was promised, or all the history there is, whichever files hold it   *)
(* (_warmup_start_ns, _prepare_read: "Anything this misses is caught by    *)
(* the unbounded retry").                                                  *)
Shortly == Frame * request.warmup * Min({Reach, Pads[1]})
WarmupServed ==
  at = "done" /\ request.what = "bars" /\ read.entries # {} /\ ~read.fromQuotes =>
    \A s \in request.symbols :
      LET all    == AllRows({f \in DOMAIN files : files[f].kind = "aggregate"})
          before == {k \in DOMAIN all : k[2] = s /\ k[1] < request.start}
          given  == {k \in DOMAIN out : k[2] = s /\ k[1] < request.start}
      IN (\E k \in before : k[1] >= request.start - Shortly) =>
           Cardinality(given) >= Min({request.warmup, Cardinality(before)})

Streams(bars) ==
  /\ \A k \in DOMAIN bars : k[1] <= request.end => k \in DOMAIN out /\ out[k].bar = bars[k]
  /\ \A k \in DOMAIN out : k[1] >= request.start => k \in DOMAIN bars
  /\ \A s \in request.symbols :
       Cardinality({k \in DOMAIN bars : k[2] = s /\ k[1] < request.start}) <= request.warmup
(* load_series is a part of the stream: the same bars from start on, and   *)
(* before start at most the warm-up bars; only a folded bar that closes    *)
(* after the end is its own (_load_many_uncached, _trim_warmup).           *)
StreamAgreesWithLoad == at = "done" /\ request.what = "bars" => Streams(LoadMany)

(* Nothing is dated at the epoch or before it.  The theorems need it: from *)
(* such an instant Widened does not come to the start of a bar, and the    *)
(* slices that follow cut bars in two.                                     *)
AfterTheEpoch ==
  /\ \A directory \in Datasets : \A f \in DOMAIN directory :
       \A k \in directory[f].rows : k[1] > 0
  /\ \A asked \in Requests : asked.start > 0
=============================================================================
