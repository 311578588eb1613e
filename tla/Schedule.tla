------------------------------- MODULE Schedule -------------------------------
(***************************************************************************)
(* A run of bars as a trading calendar expects them, session after         *)
(* session: TradingCalendar.bar_times (sigmaloop/data/calendar.py) walked  *)
(* day by day, with the session flags MergedDataFeed (data/feed.py) gives  *)
(* the snapshot of each, and the trading time the bars have covered.       *)
(***************************************************************************)
EXTENDS Calendar

CONSTANT Runs   \* [calendar, width, year, hours, given]: the market, its
                \* timeframe and the year that is walked, whether the bars are
                \* of regular hours or from before the open, and whether the
                \* feed was given the calendar

ASSUME ScheduleAssumption ==
  /\ Years \subseteq Nat
  /\ \A r \in Runs :
       /\ r.calendar \in {"nyse", "continuous"}
       /\ r.width \in {1, 2, 8, Units}   \* the timeframes of whole half hours: 30m, 1h, 4h, 1d
       /\ r.hours \in {"regular", "early"} /\ r.given \in BOOLEAN
       /\ r.hours = "early" => r.calendar = "nyse"   \* the other market never opens
       /\ {r.year - 1, r.year, r.year + 1} \subseteq Years

VARIABLES
  run,     \* what is walked
  day,     \* the day being walked
  bar,     \* the close of the last bar
  flags,   \* the flags of its snapshot
  steps,   \* _steps
  closes,  \* _closes
  anchor,  \* history: the instant of a Monday that trading time is counted from
  worth    \* history: the trading time of the bars since, in 4368ths

feed == <<flags, steps, closes>>
scheduleVars == <<run, day, bar, feed, anchor, worth>>

Today == SessionOn(run.calendar, day)
Share(s, from, to) == (Max({to - Max({from, s.open}), 0}) * 4368) \div (s.close - s.open)
(* External: what the provider's files hold of a day. *)
BarsOf(d) ==
  IF run.hours = "regular" THEN BarTimes(run.calendar, d, run.width)
  ELSE UNION {{s.open - run.width, s.open} : s \in SessionsBetween(run.calendar, d, d)}
Left  == {m \in BarsOf(day) : m > bar}

(* Trading time is counted anew from a Monday, and again from each of its  *)
(* bars that leaves a part of the session to come.                         *)
Restarts(moment) == Weekday(day) = 0 /\ moment < Today.close

(* _snapshot: a feed without a calendar takes every bar for a whole session. *)
Snapshot(moment) ==
  IF ~run.given THEN [opens |-> TRUE, closes |-> TRUE]
  ELSE [opens  |-> IsSessionOpen(run.calendar, moment, run.width),
        closes |-> IsSessionClose(run.calendar, moment, run.width)]

NextBar ==
  /\ Left # {}
  /\ bar' = Min(Left)
  /\ flags' = Snapshot(bar')
  /\ steps' = steps + 1
  /\ closes' = IF flags'.closes THEN closes + 1 ELSE closes
  /\ IF Restarts(bar') THEN anchor' = bar' /\ worth' = 0
                       ELSE anchor' = anchor /\ worth' = worth + Share(Today, bar, bar')
  /\ UNCHANGED <<run, day>>

NextDay ==
  /\ Left = {}
  /\ YearOf(day + 1) = run.year
  /\ day' = day + 1
  /\ IF Weekday(day') = 0 THEN anchor' = day' * Units /\ worth' = 0
                          ELSE UNCHANGED <<anchor, worth>>
  /\ UNCHANGED <<run, bar, feed>>

(* _warn_if_never_closed, at the end of the run. *)
WarnsNeverClosed == run.given /\ steps > 0 /\ closes = 0

ScheduleInit ==
  /\ run \in Runs
  /\ day = Date(run.year, 1, 1)
  /\ bar = day * Units
  /\ flags = [opens |-> FALSE, closes |-> FALSE]
  /\ steps = 0 /\ closes = 0
  /\ anchor = bar
  /\ worth = 0
ScheduleNext == NextBar \/ NextDay
ScheduleSpec == ScheduleInit /\ [][ScheduleNext]_scheduleVars

-----------------------------------------------------------------------------
(* What sessions, session flags, holidays and year fractions promise. *)

OnABar  == bar \in BarsOf(day)
NewYear == Date(run.year, 1, 1)
Ended   == Left = {} /\ YearOf(day + 1) # run.year

(* A session has one bar that opens it and one that closes it, its first   *)
(* and its last, however long it is and whatever the timeframe             *)
(* (is_session_open, is_session_close): a market-on-close order, and an    *)
(* expiry, get exactly one chance a day.                                   *)
OneOpenOneClose ==
  OnABar /\ run.given /\ run.hours = "regular" =>
    /\ flags.opens <=> bar = Min(BarsOf(day))
    /\ flags.closes <=> bar = Max(BarsOf(day))

(* A bar belongs to the session it was traded in, though it is labelled    *)
(* with its close and that may fall on the next day's opening              *)
(* (_session_for_bar_close); where the nights are closed it is also the    *)
(* session its close falls inside (session_for).                           *)
BarInItsSession ==
  OnABar /\ run.hours = "regular" =>
    /\ SessionForBarClose(run.calendar, bar).date = day
    /\ run.calendar = "nyse" => SessionFor(run.calendar, bar).date = day

(* A run of regular hours closes every session it walks, once; one whose   *)
(* bars all lie outside them closes none, and only that one is warned of   *)
(* (_warn_if_never_closed).                                                *)
EverySessionCloses ==
  Ended /\ run.given =>
    /\ run.hours = "regular" => closes = Cardinality(SessionsBetween(run.calendar, NewYear, day))
    /\ WarnsNeverClosed <=> run.hours = "early" /\ IsIntraday(run.width)

(* The three together: each session is opened and closed by bars of its    *)
(* own, once, and no run misses its closes unseen.                         *)
SessionFlags == OneOpenOneClose /\ BarInItsSession /\ EverySessionCloses

(* How the walk stands between two bars: no earlier session is left open   *)
(* and none is closed before its time, the closes counted are those of the *)
(* sessions behind, and the flags are those of the last bar.               *)
ScheduleInv ==
  /\ run \in Runs /\ day \in Int /\ bar \in Int /\ steps \in Nat /\ closes \in Nat
  /\ NewYear <= day
  /\ steps = 0 => /\ bar = NewYear * Units
                  /\ \A d \in NewYear..(day - 1) : ~IsSession(run.calendar, d)
  /\ steps > 0 => /\ flags = Snapshot(bar)
                  /\ \E d \in NewYear..day : IsSession(run.calendar, d)
  /\ run.hours = "regular" =>
       /\ bar <= (day + 1) * Units
       /\ \A d \in NewYear..(day - 1) :
            IsSession(run.calendar, d) => SessionOn(run.calendar, d).close <= bar
       /\ run.given =>
            closes = Cardinality({s \in SessionsBetween(run.calendar, NewYear, day) : s.close <= bar})
  /\ run.hours = "early" /\ run.given => closes = IF IsIntraday(run.width) THEN 0 ELSE steps

(* year_fraction counts the trading time that passed and nothing else: the *)
(* sum of what every bar since the anchor covered of its session, from     *)
(* within the session of a Monday to within that of any day after it.      *)
CountsTradingTime ==
  run.hours = "regular" => Elapsed(run.calendar, anchor, bar) = worth

(* Good Friday follows the Paschal full moon: _easter finds the first      *)
(* Sunday after the fourteenth day of the ecclesiastical moon, counted     *)
(* from the epact.                                                         *)
EasterFollowsTheMoon ==
  LET golden  == (run.year % 19) + 1
      century == run.year \div 100 + 1
      solar   == (3 * century) \div 4 - 12
      lunar   == (8 * century + 5) \div 25 - 5
      epact   == (11 * golden + 20 + lunar - solar) % 30
      early   == IF epact = 24 \/ (epact = 25 /\ golden > 11) THEN epact + 1 ELSE epact
      moon    == Date(run.year, 3, 1) - 1 + (IF 44 - early < 21 THEN 74 - early ELSE 44 - early)
  IN Easter(run.year) = Min({d \in (moon + 1)..(moon + 7) : Weekday(d) = 6})

(* Every holiday of the table shuts a day of its own: none is lost to a    *)
(* weekend and no two fall together (_nyse_holidays).                      *)
EveryHolidayShutsADay ==
  Cardinality(Holidays(run.year)) =
    7 + (IF Weekday(NewYear) = 5 THEN 0 ELSE 1) + (IF run.year < 1998 THEN 0 ELSE 1)
      + (IF run.year < 2022 THEN 0 ELSE 1)
      + Cardinality({d \in UnscheduledClosures : YearOf(d) = run.year})

(* The market closes early only on a session next to a full-day holiday    *)
(* (_nyse_half_days).                                                      *)
HalfDaysTouchHolidays ==
  IsHalfDay("nyse", day) =>
    /\ IsSession("nyse", day)
    /\ {day - 1, day + 1} \cap Holidays(run.year) # {}

(* However the closures cluster, the next session is found within the days *)
(* next_session looks ahead, and no session lies before it.                *)
NextSessionIsNext ==
  LET next == NextSession(run.calendar, day)
  IN /\ next # NoSession
     /\ \A d \in (day + 1)..(next.date - 1) : ~IsSession(run.calendar, d)

(* The rules of the year's closures: holidays, half days and what follows  *)
(* them (_nyse_holidays, _nyse_half_days, _easter, next_session), looked   *)
(* at before the first bar of the year and of the day.                     *)
HolidayRules ==
  /\ day = NewYear => EasterFollowsTheMoon /\ EveryHolidayShutsADay
  /\ bar <= day * Units + 24 => HalfDaysTouchHolidays /\ NextSessionIsNext
=============================================================================
