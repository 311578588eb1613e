# SigmaLoop in TLA+

SigmaLoop (`src/sigmaloop`) is an event-driven backtesting engine. Its data layer, domain
records and execution layer are implemented; engine, portfolio, strategy, metrics, results and
plugins are scaffolds whose operations raise `NotImplementedError`. This directory holds TLA+
models of the implemented parts, their TLC configurations and machine-checked proofs.

## 1. Inventory

| part | state it keeps | operations | interacts with | hard behaviour | correct when |
|---|---|---|---|---|---|
| `execution/broker.py` SimulatedBroker | `_orders`, `_by_instrument`, `_brackets`, `_oco`, `_pending_rejections`, counters | `submit`, `cancel`, `cancel_all`, `process_bar` | called by the engine between and at bars; asks the execution, price, slippage and commission models; submits bracket children to itself | a book that changes while it is walked; partial fills; one-cancels-other; four tables that must agree on every closing path | index = open orders; no order trades on the bar that raised it; entries stay protected; every outcome reported once |
| `domain/order.py` Order | status, filled quantity, VWAP, activation | `apply_fill`, `reject`, `cancel` | mutated by the broker only | terminal states are final, never over-filled | every order follows its lifecycle |
| `execution/models.py` | none | `is_eligible`, `should_expire`, `try_fill` | reads order and bar | session boundaries, gaps, missing bars | no lookahead; time in force honoured |
| `execution/slippage.py`, `commission.py`, `pricing.py` | none | cost of one fill, quantity a bar absorbs | asked by the broker | floors and caps over partial fills | an order split in parts pays what the whole pays |
| `execution/expiry.py` | `_settlement_source`, a random stream | `expiring_positions`, `resolve`, `check_early_assignment`, `positions_to_close_early` | reads positions and snapshots; its fills are booked by the portfolio | an underlying that stops printing; exercise, assignment and early closing that compete | every contract is settled once, for its worth, in time |
| `domain/position.py` | FIFO lots, average price, realised P&L, excursion extremes, costs | `apply_fill`, `mark`, `accrue_borrow` | fed fills and marks by the portfolio | flips through zero, exits across lots, positions restored without lots | lots are the position; P&L is conserved; extremes are those of the open round trip |
| `domain/account.py` | cash, reserved margin | `credit`, `debit`, derived ratios | the portfolio, which is a scaffold: nothing calls it | none | arithmetic |
| `domain/instrument.py` | registry table | rounding, lookup | everyone | lot and tick rounding | rounding never crosses the market |
| `domain/bar.py` | `BarSeries`: six numpy columns, `_size`, `_capacity`; the rest are immutable records | `append`, `tail`, `slice`, columns, `bar_at` | cache, providers, indicators | views that share a buffer append writes in place | every series is a sequence of its own |
| `data/feed.py` | heap of stream heads, iterator and watermark per source, registry, actions by date | `prepare`, `close`, `add_instrument`, iteration | providers, calendar | merging streams, late subscription, duplicates, a failed or second preparation | snapshots in time order, each update once, nothing lost |
| `data/cache.py` | LRU dict and byte count under a lock, counters, files without one | `get`, `put`, `invalidate`, `clear` | providers, several threads and processes | races between tiers and writers, kills | budget respected; no partial file served; an invalidated key stays gone |
| `data/providers/csv_provider.py` | converted files, index and index file, tables in memory, schemas | `load_series`, `load_many`, `stream_bars`, `stream_quotes`, conversion | file system, several processes | crash or change during conversion, as-of quote join across slices, warm-up | a slice equals the full join restricted to it |
| `data/calendar.py` | holiday tables, remembered sessions | session arithmetic, session flags, bar times, year fractions | feed, position's borrow | half days, stubs, midnight closes, year ends | every session is opened and closed once; trading time adds up |
| engine, portfolio, strategy, indicators, metrics, results, plugins, universe, Yahoo and Polygon providers, logging | none | raise `NotImplementedError` | — | — | not modelled |

## 2. Plan

Done, in this order: the broker (`Order`, `ExecutionModel`, `Broker`, `OrderContract`, proofs),
the position (`Position`, `LotLedger`, proofs), the feed (`MergedFeed`, `SnapshotStream`,
proofs), the caches (`SeriesCache`), the CSV provider (`CsvIndex`, `CsvRead`, `CsvConvert`), the
cost of fills (`Pricing`, `Commissions`, `FillPricing`), `Expiry`, `Calendar` with `Schedule`, and
`BarSeries` with its abstract `SeriesValues`.

Theorems (section 5): the broker and its order contract; the excursions, the books and the ledger of
a position; the feed and its refinement; the cache; the CSV index; the CSV stream against one read;
what a CSV file is converted to; the expiry engine; the price of a fill and the costs of a split
order; the shared buffers of `BarSeries` and their refinement; the sessions of a year and the
trading time they count. Of the safety properties, `AdjustsRowByRow` and `HolidayRules` have no
theorem; section 5 says why.

## 3. What is modelled

| module | models | checked with |
|---|---|---|
| `Order`, `ExecutionModel` | `domain/order.py`, enums of `types.py`; `execution/models.py`: eligibility, expiry, and the set of answers `try_fill` may give | through `Broker` |
| `Broker` | the book in `execution/broker.py` | `MCBroker` |
| `OrderContract` | abstract: each order moves along the Lifecycle section of `Order` | refined by `Broker` |
| `Pricing`, `Commissions`, `FillPricing` | one order worked by the broker over `models.py`, `pricing.py`, `slippage.py`, `commission.py` | `MCFillPricing` |
| `Position` | `Position` and `Lot` of `domain/position.py` | `MCPosition` |
| `LotLedger` | abstract: a FIFO queue of units | refined by `Position` |
| `Expiry` | `execution/expiry.py` | `MCExpiry` |
| `MergedFeed` | `MergedDataFeed` of `data/feed.py` | `MCMergedFeed` |
| `SnapshotStream` | abstract: each instant shown once, in order | refined by `MergedFeed` |
| `Calendar`, `Schedule` | `data/calendar.py`; sessions walked bar by bar, with the flags of `MergedDataFeed._snapshot` | `MCSchedule` |
| `SeriesCache` | `data/cache.py` | `MCSeriesCache` |
| `CsvConvert`, `CsvIndex`, `CsvRead` | `data/providers/csv_provider.py`: what a file becomes, how long that is remembered, what a request is answered with | `MCCsvConvert`, `MCCsvIndex`, `MCCsvRead` |
| `BarSeries` | `BarSeries` of `domain/bar.py` | `MCBarSeries` |
| `SeriesValues` | abstract: every series a sequence of its own | refined by `BarSeries` |

Where theorems are proved of `X`, `XProofs` holds them, and `XProperties` the properties unless they
stand at the end of `X`; `DomainProofs` is about both records of `domain/`, `Position` and
`BarSeries`, and `CsvProofs` about both `CsvRead` and `CsvConvert`; modules proved about together
name their specifications apart. A definition headed
"Planted bug" is not part of a model: it is a faulty version of the definition after it, used to
see that a property is able to fail.

**Broker.** `orders`, `book`, `brackets`, `oco`, `pendingRejections` and `result` are `_orders`, the
ids in `_by_instrument`, the keys of `_brackets` and `_oco`, `_pending_rejections` and the
`BrokerResult` under construction, whose lists are sequences in the order of their appends. An
insertion-ordered dict is a set plus the `entered` number of each order. `Submit`, `Cancel` and
`CancelAll` are the calls between bars. `process_bar` is `BeginBar`, then per instrument `OpenBook`
(which copies the book into `todo`), one `Pass`, `Lapse`, `Miss`, `Fill` or `DuplicateChild` per
order of the copy in the order `sorted` gives, `CloseBook` (`_prune`), and finally `EndBar`. A
`Fill` is the whole of `_work_order` after a price was found: the fill, the bracket legs created or
resized with their own intake, and the OCO settlement or dropped remainder. `DuplicateChild` is the
exception `submit` raises when a leg's id is taken: it leaves `process_bar` half-way, phase
`"crashed"`. Prices are left out here, so a limit or stop order may or may not trigger on any bar;
quantities are whole units; the participation cap of a bar is any member of `Caps`; a bracket spec
is the set of legs it names; instruments are visited in any order; `is_session_close` is the last
bar of a date.

**Fills.** `FillPricing` takes up what `Broker` leaves open, for one order: `WorkOrder` is
`_work_order` over a snapshot, with the trigger table, the quantity the bar absorbs, the book the
fill is priced off, slippage, the three guards of `_settle_price`, commission and fees, the
month's volume, the diagnostic counters and `_ratchet_trailing_stop`. A level of zero, which a bar
with a blank price has, is no price to the code, which asks the price model for one; so does
`BuildFill`, and a fill records the `level` it traded at and the `reference` its costs are measured
from. Prices are whole numbers of
which a tick is several, so that prices fall between ticks; a basis point is a per cent, and the
square root of the market impact is rounded down. `Tickets`, `Bars` and `Books` are what the
constructors accept, with prices that are not negative and books that are not crossed: `Quote`
validates neither, the CSV provider drops such quotes unless told not to.

**Position.** `quantity`, `realizedPnl`, `markPrice` and `borrowCostPaid` are the fields of those
names, `costsPaid` is commission and fees together, and `entry` groups what `_reset_entry` clears.
`Open`, `Increase`, `Reduce`, `Close` and `Flip` are the branches of `apply_fill`, each with the
booking that all of them share; `Mark` and `AccrueBorrow` are `mark` and `accrue_borrow`. The loop
of `_realise` over the deque is the function `Taken`: what lot i gives depends only on the lots
before it. `cash` and `trip` are history variables, what the account received and what printed
since the round trip began; no action reads them.

**Expiry.** `source` is `_settlement_source`, `held` the positions the portfolio would book. The
loop that drives the engine is an interface in the source; here a bar asks about early
assignment contract by contract, then `SelectExpiring`, `Resolve` of each, and `CloseEarly`, whose
orders fill on the next bar. Positions are opened until the close of the contract's expiry date
(`is_expired`). The seeded draw of an assignment is any outcome its probability
allows. `outcomes` and `trail` are history: what was settled, and what was seen of each contract.

**Feed.** `iterators`, `sourceLast`, `heap`, `registry`, `actions`, `lastEmitted` and `current`
are the attributes with an underscore before them. `prepare` is one `PrepareSource` per request
and provider, then `PrepareEnds`; `PrepareFails` is an exception out of it and keeps what was
opened. `add_instrument` is `AddKnown`, or `AddInstrument` and one `JoinSource` per provider, or
`JoinFails`. One turn of the generator is `StartSnapshot`, a `PopEntry` per entry of the instant
(pop, `_absorb`, `_pull`) and `Yield`; a source out of order sets phase `"failed"`, from which the
caller may iterate again. An offer is what the providers hold and the orders in which their
streams may yield it. Every Python call runs to its end in one thread, so the steps of one are not
interleaved with another; the caller's choices between two yields are.

**Calendar.** Dates are the ordinals of `datetime.date` and time is counted in half hours, of which
every session boundary is a multiple; New York's summer time is modelled. `Schedule` takes a year
and walks `bar_times` of its days, in one of the timeframes that are whole half hours (30m, 1h, 4h,
1d): each `NextBar` is a snapshot with the flags the feed would give it. Bars from before the open
are walked on the NYSE only, for the continuous market has no such time. `anchor` and `worth` are
history: where trading time is counted from, which is a Monday's midnight and then each bar that
leaves a part of Monday's session to come, and how much of it the bars have covered.

**Cache.** A thread's call is a sequence of steps, one per critical section of the memory tier and
one per file system call of the disk tier (`Exists`, `Read`, `Discard`, `Promote`; `Write`,
`Written` or `WriteFails`, `Replace`; `Forget`; `ClearOne`), and any thread may step between two of
them. The disk tier counts its hits and misses without a lock, so an increment is two steps more,
`LoadCount` and `StoreCount`; `raced` is history, the processes in which two threads have had one
counter in hand at once. `Kill` ends a process: its memory is empty again and its temporary files
stay as they are. `path_for` maps two symbols to one name where the code's cleaning of the symbol
would, and tells them apart by the digest.

**CSV provider.** In `CsvIndex` a file is its revision. A load is `Select`, `Parse`, `Stat`,
`Store`, `Record` (the conversion), `FlushOpen`, `FlushWrite`, `FlushSwap` (the index file),
`Recheck`, `Open` or `Reopen`, `Put`, `Serve`; providers with different settings work over one
directory; `Edit`, `Kill` and `Lose` (a Parquet file deleted) come from outside. In `CsvRead` a
row is its instant and symbol and a bar is the set of rows it was made of, of which prices and
quotes are functions; `BarSlice` and `QuoteSlice` are a turn of `_stream` and of `stream_quotes`,
and `LoadMany` is `_load_many_uncached` over the same files. It starts from a warm index. In
`CsvConvert` an exporter appends rows and the provider converts what is there: the headers'
aliases, integer timestamps that lack digits, naive local times, the labelled end of a bar, its
width, damaged rows, the hint in a file's name. Instants are counted in units of four hours
and an integer stamp is counted in hundredths of one, so that two decimal digits can be missing;
floats are those of a significand of four bits.

**Series.** A series is a window of a buffer: start, rows, capacity. The six columns are grown, cut
and written together, so one buffer stands for them and a row for its timestamp. `np.resize`
repeats what it copies, as numpy does.

## 4. Runs

| run | shows | bounds |
|---|---|---|
| `broker` | `BrokerInv`, `EntriesAreProtected`, `TimeInForceHonoured`, `OutcomesReportedOnce`, `KeepsOrderContract`, and under `FairSpec` `BarCompletes` | twelve tickets, three caps, lots of 1 and 2, four bars of one entry or three of two, two-bar days, delisting on day 2 |
| `never_raises` | violated: section 6 | as `broker` |
| `position` | `BooksBalance`, `ExcursionsAreOfThisTrip`, `ImplementsLedger` | five events, sizes 1 and 3, three prices with zero, costs and borrow |
| `feed` | `HeapIsAhead`, `ClockNeverRefuses`, `ActionsOnce`, `ShownAsSent`, `ImplementsStream`, and under `FairSpec` `SnapshotCompletes` | two providers, two equities with chains and an option, five sources, two readings; streams with ties by instrument, with ties in any order, in any order at all |
| `cache` | `CacheConsistent`, `ServesWholeFiles`, `InvalidationHolds` | two threads of one process and one of another, two keys, three series (one over the budget, one kept off the disk), three calls, one kill |
| `csv_index` | `IndexIsSound`, `ConvertsOnce` | three providers (one with other settings, one in another process without Parquet), one file, three loads, one edit, one kill or lost file |
| `csv_read` | `StreamIsOneRead`, `QuoteExisted`, `WarmupServed`, `StreamAgreesWithLoad` | every directory of two sessions of up to four bars and of quotes, two symbols, eleven requests with slices of one row to the whole |
| `csv_convert` | `NeverEarly`, `HealsPerRow`, `NothingWantedIsPruned`, `AdjustsRowByRow` | nine families of export, five rows |
| `fills` | `FillsAreSound`, `PricedFromTheMarket`, `SplitCostsAsOne`, `TrailsFromBehind` | thirteen orders, eleven snapshots (with a bar, a chain's quote, both or neither; some with a blank open, low or close), each spread and slippage model with each other, five commission schedules, three bars |
| `expiry` | `SettlesInFull`, `SettlesAtLastPrice`, `ClosedInTime` | three contracts on one underlying, four policies, long 1 and short 2, three prices or none, two positions opened, three bars and days |
| `calendar` | `SessionFlags`, `CountsTradingTime`, `HolidayRules` | twelve whole years of the NYSE, those of rule changes and unscheduled closures among them, and the holiday rules of 1997 to 2031 and three years more; frames of half an hour, an hour, four hours and a day; a run from before the open |
| `series` | `ViewsAreSound`, `ImplementsValues` | two series, a column view, three buffers, three rows with ties |

Each composite property is a conjunction of the named parts above it in its module
(`CacheConsistent == TypeOK /\ BudgetHeld /\ LookupsCounted`, and so on).

Four bars are enough for an entry to fill in parts, its legs to be resized, trade in parts and
settle. Legs of two entries never interact, so one entry suffices for brackets, while two entries
and two instruments are needed for the order of the walk: the constraint `OneDesk` keeps to these
two shapes. It cuts whole tickets and policies away or stops before the last bar, never inside
`process_bar`, so `BarCompletes` is still about every call that begins. `MaxTime` bounds `now` and
so ends every behaviour, and an exception ends the run it is raised in.

Five fills of sizes 1 and 3 include two lots, an exit across their boundary, a partial exit that
leaves a part of a lot, a flip and a re-entry. An average is kept whole by a price unit of 360360,
which every number up to 15 divides; `BooksBalance` would fail if a division were inexact.
`MCPosition` has TLC evaluate that as `WholeAverages(3)`, and `MCCsvRead` that no row or request is
at the epoch or before it (`AfterTheEpoch`): these are what the theorems of the two suppose. Five
sources are what one preparation opens and two more: enough for a preparation that fails and is
repeated in part, or a subscription with a provider to spare. `MaxReadings` lets a feed be closed
and read a second time; `ActionsOnce` and `ImplementsStream` need it. Every request of the plan
names an instrument: a plan without bar requests would leave `add_instrument` nothing to copy the
window from, which is the one branch of the feed no run takes.

The caches have three calls because two interleave and a third sees what they left; an eviction
needs two keys and a series that leaves no room. `csv_index` has three loads for the same reason: a
conversion, another provider's in the same directory, and a load that meets both. `EditsAnyTime` is
false there: no file is edited between its parsing and the recording of its entry. That leaves out
two gaps of the code (section 6), with either of which `FreshIsCurrent` is false. `csv_read` takes
every subset of a handful of rows, so that each slice boundary falls on, before and after each of
them. Rows of one export family have the one thing in common the family is about; three rows give a
modal spacing and two more a second ticker and a damaged row.

Every model stops at its bounds, and feeds, streams and runs come to their end in the code as
well; so deadlock is not checked anywhere.

**Fairness.** The broker's `FairSpec` asks weak fairness of `ProcessBar` only: `process_bar` is a
synchronous call in one thread, so once begun it keeps stepping. The feed's asks weak fairness of
`Drain` only: between two yields the generator runs without returning to its caller. Nothing is
assumed of the callers, and the other components promise nothing that must eventually happen.

## 5. Proofs

Each theorem holds for all constants that satisfy the named assumptions of the module it is about:
their types and what the constructors of the code validate, and never a size; where one needs more,
its statement says so and the text below says why. No property below is
inductive as it stands; each proof has an invariant that implies it, a lemma that a step keeps that
invariant, and the theorem that follows by temporal reasoning. TLC found every one of these
invariants to hold on the instance of its component's run before it was proved (`ScheduleInv`, which
looks back at every day of the year at each bar, on two of the run's years); only `BrokerInv` is
an invariant of the run, for the others say no more of the code than the properties they imply.

**Broker** (`BrokerProofs`; `BrokerAssumption`, `BarsPerDayAssumption`: positive lots). Proved:
`BrokerCorrect` and from it `BookCorrect`, `SpecsCorrect`, `LinksCorrect`, `StopFirst`,
`Protection`, `Firewall`; `ImplementsContract`, the refinement of `OrderContract`;
`TimeInForceKept`; `ReportedOnce`. `BrokerInv` adds to the properties `LoopInv` (the loop variables
are at rest between bars; only visited instruments have traded), `OrderInv` (status against filled
quantity), `LegInv` (a leg exists only for a filled entry that asked for it, and is not worked on
the bar that raised it) and `BracketInv` (an open entry still has its spec; a target leg that traded
was worked after its stop). The actions that fill nothing share the lemma `InvWithdraw`; a fill
splits into the fill of a leg and that of an entry. `TimeInForceInv` adds that no order was
activated after now, that a fill's order was activated, and that outside a crash a one-shot order
the bar has looked at is no longer open: between bars this is `OneShotsAreRetired`, and within one
it tells of each order of the walk whether it was reached. `ReportedOnce` is about steps.
`ReportInv` says that an order in `fills` has left `todo`, so it cannot trade again on its bar, and
that the other three lists name orders that closed that way, which `BrokerInv` makes final, and that
no list names an order twice (`NamedOnce`; the lists are sequences, as in the code). With it every
action is shown to append to the result one record for each order whose account it changes, and
nothing else: no fill is recorded that no order took, and none twice.

**Position** (`DomainProofs`; `PositionAssumption`). Proved, for a position built from fills
(`Restored = {}`; from a restored one all three are false, section 6): `BooksCorrect`,
`LedgerImplemented`, the refinement of `LotLedger`, and `ExcursionsCorrect`. `HoldingInv` says that
the lots, all of the position's sign, add up to its quantity, and that cash is what was realised
less what the lots cost and what was paid. What a fill does to the lots is read off `UnitPrices`,
the list with a price per unit: `Taken` removes a prefix of it and a new lot appends one price, so
the units taken, left and added are those of the ledger, unit by unit, however lots are split. That
needs no average. `BooksCorrect` does: it has `AverageInv`, that the average price is the cost of
the lots over the quantity, and its hypothesis `WholeAverages` makes each division of the code
exact, the place where the code has floats. For excursions the invariant adds that a flat position
has no entry instant and an open one has.

**Fills** (`FillPricingProofs`; `PricingAssumption`, `FillPricingAssumption`: the parameters of the
price and slippage models are not negative, bars are ordered, only limit orders have a limit, only a
stop trails, books are not crossed). Proved: `AlwaysPricedFromTheMarket`, `FillsStaySound`,
`StopsTrailFromBehind`, `SplitCostsTheSame`, for any tick and lot. The lemmas follow `_build_fill`:
rounding to the tick and what it does not cross (`Rounding`, `GridIsKept`), the guards of
`_settle_price` (`BoundedByTheBar`, `SettledInTheMarket`, `SettledNoBetter`), the trigger table
(`ReferencePriced`), the price that takes the place of a level of zero (`PriceAskedFor`), a made-up
book that is not crossed (`MadeUpBook`, `MadeUpHalf`), slippage that is a cost (`SlippageIsACost`,
for which the root must exist: `RootExists`), and `Built`, which puts one fill together.
`PricingInv` adds that a trailing stop is at its first level or at one an earlier bar gave it
(`TrailedLevel`, `OutermostStop`), which keeps a bar's own high out of the fills of a sell stop and
its own low out of those of a buy stop, and that an order that must fill at once is closed once it
has filled. `SplitInv` says that what the fills so far were charged is what each schedule asks of
their sum: each model bills the difference between two points of one cumulative charge, which only
grows with the quantity as no parameter is negative (`_require_non_negative`), and the sum over the
models is that of their partial sums. Its cases are those `SplitCostsAsOne` names: fills at one
price, and a month's volume that passes no tier.

**Expiry** (`ExpiryProofs`; `ExpiryAssumption`). Proved: `SettledInFull`, `SettledAtLastPrice`,
`AlwaysClosedInTime`. `ExpiryInv` ties `source` to the last print each open position was there for,
says that before anything is settled the bar's prints have been taken in, that what is due is still
to be visited, and that a position seen with too few days left is on its way out. The exercise
threshold is assumed positive: `ExpiryPolicy` does not check it, its default is a cent, and with
zero `SettlesInFull` is false (section 6).

**Feed** (`MergedFeedProofs`; `FeedAssumption`: what a provider holds and reports is finite).
Proved: `ClockNeverRefuses`, `HeapIsAhead` and `ActionsApplyOnce` for any streams, those in
arbitrary order included, `AllShownAsSent`, and `FeedIsAStream`, the refinement of `SnapshotStream`.
`FeedInv` ties the three tables together, each heap entry to the last update of its source, and the
heap to the instant being drained: a source's next update is compared with its own last one, which
at that moment is the instant itself, and a subscription's stream is cut at the snapshot shown last.
`ActionsOK` has the actions without repetition, and those of every source `prepare` has opened.
`StreamInv` adds that sources stand in the order of their providers where it matters for who is
shown, that a source that keeps its order has all it owes still ahead of it, in the heap, in its
iterator or in the instant being drained, and that no entry shown is beaten by a provider listed
before. A step of the feed is then a step of the abstract stream (`Yield`, the end of a reading, an
offer's change of phase) or a stutter. `RoutingAssumption` is used for `AllShownAsSent` alone: the
keys of a bar request are of its class, and which providers serve a chain does not depend on it.

**Calendar** (`MergedFeedProofs`, after the feed; `ScheduleAssumption`). Proved: `WalkInvariant`,
`SessionsOpenAndClose`, `TradingTimeIsCounted`, for any year from 1 on of either calendar.
`ScheduleInv` says that every session behind the walk has been closed and none ahead of it has, and
that the closes counted are those of the sessions behind. It needs no holiday by its date, only that
no session begins before an earlier one has ended (`SessionsApart`), wherever the clocks turn, and
that the session of a bar's close is the one it was traded in (`BarCloseSession`). The warning of a
run that closes no session does need the table: a year has a session (`EveryYearHasASession`), for
every holiday is shown to lie outside the first week of August, Good Friday in spring among them.
Trading time is a sum over sessions, in 4368ths, which each length of a session divides; it is
reasoned about as the cardinality of a set of cells, as many of each session as its part
(`SumCountsCells`). Then `ElapsedGrows` says that a bar adds, wherever the time is counted from, the
cells it covers of its own session and no other, and `PartGrows` how many those are, a session cut
at its start included.

**Cache** (`SeriesCacheProofs`; `CacheAssumption`: finitely many threads). Proved:
`CacheStaysConsistent`, `WholeFilesServed`, `InvalidatedStaysOut`. `CacheInv` says that either
tier holds, under a key, only what was once put under it, and so does a thread on its way between
two calls; that a temporary file at its replacement is whole; and that nobody about to write holds
a key that is gone. A counter is read and written in two steps, so two threads may lose a count:
`CountsBounded` has no lookup counted twice, and `CountsExact` has each counted once unless two
counts overlapped. The byte count is a sum over the entries, a function defined by recursion on
the length of the list, of which only one unfolding at a time is needed.

**CSV index** (`CsvIndexProofs`; `CsvIndexAssumption`). Proved: `IndexSound` and the action property
`ConvertedOnce`, both under `EditsAnyTime = FALSE`: no file is edited between its parsing and the
recording of its entry. Without that they are false (section 6). `IndexInv` relates every entry, in
memory, in the index file or on its way there, to the Parquet file it names and the revision that
holds, every table to its entry, and every load to what it has found out so far.

**CSV stream** (`CsvProofs`; `CsvReadAssumption`). Proved: `StreamTyped`, `StreamIsWhole`,
`LoadIsInTheStream`, `QuotesExisted`, `WarmupIsKept`, for any files, requests, row budgets and bar
widths. `StreamInv` says that what was yielded are the bars that close before the cursor, each of
all its rows, and that where bars are folded from quotes the cursor is where a bar begins, so that
no slice holds a part of one. `QuoteInv` relates what is carried of a symbol to the quotes before
the cursor: the newest, unless it has grown too old to serve. For the warm-up, a bar shortly before
the window is in every selection and every probe, so either a probe's cut leaves the rows that were
promised or all of history is read. All suppose `AfterTheEpoch`, that rows and requests are dated
after 1970-01-01: `Widened` clips at zero, and with a start at or before it the slices cut bars in
two, which `csv_provider.py:1970-1974` says must not happen (section 6).

**CSV conversion** (`CsvProofs`; `CsvConvertAssumption`). Proved: `PruningIsConservative`,
`HealedPerRow`, `NoBarIsEarly`, for any exports, cells and number of rows. `EntriesCover`, the
invariant, says that an entry is of its file's kind and covers the table it was made with; a name
covers its session and a day on either side, more than any zone is from UTC. The other two are
inductive as they stand, for a conversion depends on the rows that are there alone. They need to
know the files, which `MCCsvConvert` checks of its own. `KeepsToTheRange`: integer stamps lie
between 1990 and 2100 and lack at most their two digits. That window is less than a decade wide, so
one power of ten at most makes a date of a stamp (`OneScale`), and from the repair's floor on a
value finds that power by itself (`OwnScale`). `SaysWhatItLabels`: the open's label is recognised,
the timeframe and unit configured are not wrong, and bars of one ticker do not overlap. Then
whatever rows are missing or dropped, the commonest gap is a gap between two bars of a ticker
(`ModalSpacingIs`), no smaller than a bar, and the rows it is taken of are among those served
(`MeasuredWidth`, `InferredWidth`).

**Series** (`DomainProofs`; `BarSeriesAssumption`). Proved: `ViewsStaySound` and `SeriesAreValues`,
the refinement of `SeriesValues`, for any series, buffers, bars and capacities. `OneWriter` is about
one row and so not inductive: `SeriesInv` says instead that every window that shares a buffer with a
series that has room ends where that series' own bars do. A view has no room and ends within the
window it was cut from, so it keeps this; an append in place writes behind all that others show; a
growth moves to an array nobody refers to. Bars lie in time order, whence the two counts of
`searchsorted` are the ends of the stretch that is asked for (`Found`, `SliceIsCut`). Each operation
is then shown to leave every other name's rows as they were (`Moves`) and to be a step of the
abstract series (`Stands`).

**Left to TLC.** `BarCompletes` and `SnapshotCompletes`, because liveness is out of the prover's
reach. `AdjustsRowByRow`: that rounding cannot carry a price out of its range holds for the prices
and the significand of the run, not for all (section 6), and powers of two are beyond the installed
provers. `HolidayRules`, which compares the dates of one exchange with a second definition of them,
year by year: the run goes through them all.

## 6. Where the code departs from its documentation

The run `never_raises` finds one: `_activate_brackets` creates a pair of legs whenever no leg is
open and unfilled. If a leg has traded and the entry then fills further, the ids are taken and
`process_bar` raises after the fill was applied; the bar's result is lost
(`execution/broker.py:613`).

The rest were met while modelling. The models do as the code does, and the properties are stated
so that they hold of it; a line is of the file named first.

- `execution/broker.py`. A leg cancels its sibling only when it fills completely, so a partial fill
  of the stop leaves the whole target working (400, against 594). A leg resized by its entry's fill
  can trade on that same bar (611, against 597). A percentage stop on a cheap instrument rounds to a
  zero tick, and the child's validation raises inside `process_bar` (713). An IOC or FOK order is
  retired at a step without a bar for its instrument (742, against 741). With
  `carry_unfilled_remainder=False` a partially filled stop leg is cancelled and its target unlinked.
  The bound by the market is snapped to a tick inwards, so on a bar narrower than a tick a fill is
  off the grid; an option's synthesised bar has no range, so that bound never applies. The
  participation cap is per order, not per bar, and an order whose cap is below a lot never fills. A
  refused fill is counted as a synthetic one. A level of zero, which a blank open or low gives, is
  replaced by what the price model resolves (481-482): a side of the book, the last print or the
  close, which the bar or the stop need not have reached. Under `WORST` that is the ask already, and
  the half spread is charged on top of it.
- `execution/pricing.py`. The OHLC model raises there for any selection but `LAST`, after the fill
  was counted. `require_real_quotes` does not bind the selections that use no side of
  the book, and `supports` is never asked. A crossed book, which `Quote` accepts, has a negative
  spread and pays whoever crosses it (248), as a spread model's parameters may not (60).
- `execution/commission.py`. A per-contract base fee is never billed if the first part is waived;
  parts at different prices can pay less than the minimum of their sum.
- `execution/expiry.py`. `close_before_expiry_bars` is documented in bars and compares calendar
  days; an `auto_exercise_threshold` of zero exercises longs that are out of the money; the
  settlement price of an underlying without an open option position is not refreshed.
- `domain/position.py`. A position seeded with a quantity has no lots for it: a later buy becomes
  the only lot, a later exit consumes that lot first, and what is realised in the end is not the
  cash the trades brought (311-314). A restored position that fills before its first mark folds
  the price into extremes that were never set.
- `data/feed.py`. The heap breaks ties by instrument among the heads only, so if the first provider
  yields another instrument of the instant first, a later provider's duplicate is shown (170,
  against 406); the CSV provider's streams order ties by instrument and are not affected.
  `add_instrument` registers before it opens sources, so after a provider's exception the same
  call returns normally and subscribes to nothing (354, against 345). Corporate actions are looked
  up by date, so an intraday feed answers with one at every snapshot of its day (342). What was
  absorbed of an instant when a source proves out of order is lost. The upper bound of
  `FeedPlan.estimate_bar_count` does not count session stubs.
- `data/calendar.py`. `year_fraction` and `session_for` ignore an overnight session begun on the
  day before; the closures of September 2001 shut the market for six days in a row, not four; a
  run whose bars miss the closing bell closes no session.
- `data/cache.py`. A get that overlaps an invalidation may promote the key again (375); `Discard`
  may delete a file another thread has just written (264); the disk tier counts without a lock
  (258, 263, 266), so two threads may lose a count. A
  served series is the cache's own object.
- `data/providers/csv_provider.py`, what is remembered. A file edited between its parsing and its
  stat is taken for converted (1163; `EditsAnyTime`). Of two providers with the same settings, one
  that parsed before an edit may store its Parquet after the other has converted the file anew: both
  use one name, and the other's entry, which is fresh, then serves the older rows. A file edited
  right after its conversion makes the load raise `DataNotAvailableError`. `on_duplicate` is not
  part of the fingerprint. A provider that writes no Parquet but loaded another's index has nothing
  to serve when a Parquet file is lost. A header that changes keeps its first schema, files added
  later are never discovered, and `available_symbols` and `coverage` answer from stale entries.
- The same, reading. `_prepare_read` keeps the files of its first selection but the source (bars
  or quotes) of the unbounded one (1652-1668). A symbol absent from the probe gets no warm-up, and
  for folded bars the probe counts quotes. Quote files are selected without the reach back that
  `_QuoteReader` documents (2138). `load_many` keeps a partial folded bar that closes after the
  end. A start at or before the epoch is widened to zero, not to the beginning of a bar, and the
  slices then "emit two half-bars" (1970-1974).
- The same, converting. A bar closed at its high or low can leave its range when it is adjusted,
  which `stream_bars` raises for and `load_series` serves (1951-1962, against `domain/bar.py:119`).
  A misnamed file is only warned of when it is converted, which its name may prevent. A blank price
  is read as zero and passes for a valid one. An aggregate file none of whose rows survives raises
  an `IndexError` if its stamps are labelled by the open (1308). `REPAIR` drops what ticked between
  1990 and September 1993, `DROP` drops good rows when most are damaged. A header "Window Start"
  with a space is taken to label closes; a first ticker with too few rows leaves its whole file
  unshifted. "date" and "time" columns collapse to the date. Of an ambiguous local hour `earliest`
  serves the second pass an hour early. In a directory of files with and without adjusted closes the
  bars of the latter are flagged adjusted.

## 7. Not modelled

- The scaffolds have no behaviour: engine, clock, portfolio, sizing, risk, strategy, indicators,
  universe, results, metrics, plugins, the Yahoo and Polygon providers; and within implemented
  files `CompositeDataProvider`, `PrefetchDataFeed`, `HistoryWindow` and the selectors of
  `OptionChain`. Where a model needs them, as the caller that submits orders or books fills, they
  are its environment.
- `AccountState` is implemented, but its operations have no caller before there is a portfolio;
  each is one guarded assignment.
- Of the CSV provider, the discovery of files on disk and `load_many`'s use of the series cache; of
  the feed, `FeedPlan`'s estimate, the counters of shadowed bars and `ReplayDataFeed` (a list); of
  the position, dividends (a field nothing writes), closed-trade records and float dust; of an
  order, the average price of its fills; of the price models, the OHLC fields `typical_price` and
  `vwap`.
- A position restored without its lots, which `MCPosition` leaves out (`Restored = {}`): its
  properties are false there (section 6).
- Float arithmetic (but for the significand of `CsvConvert`), pandas, Arrow and Parquet encodings,
  logging and formatting are left out everywhere.
