------------------------------- MODULE Calendar -------------------------------
(***************************************************************************)
(* Trading calendars: sigmaloop/data/calendar.py.  Time is counted in half *)
(* hours, the grain of every session boundary here; a date is the ordinal  *)
(* datetime.date gives it.  The sessions the code remembers of earlier     *)
(* calls are pure values and are not kept.                                 *)
(***************************************************************************)
EXTENDS Integers, FiniteSets, FiniteSetsExt

CONSTANT Years   \* the years that are asked about

Units == 48   \* half hours in a day

(* External: datetime.date and zoneinfo. *)
DaysBefore(y, m) ==
  LET leap == y % 4 = 0 /\ (y % 100 # 0 \/ y % 400 = 0)
  IN <<0, 31, 59, 90, 120, 151, 181, 212, 243, 273, 304, 334>>[m] + (IF m > 2 /\ leap THEN 1 ELSE 0)
Date(y, m, d) ==
  LET p == y - 1 IN 365 * p + p \div 4 - p \div 100 + p \div 400 + DaysBefore(y, m) + d
YearOf(day) ==
  LET y == (day * 400) \div 146097 + 1
  IN CASE Date(y, 1, 1) > day      -> y - 1
       [] Date(y + 1, 1, 1) <= day -> y + 1
       [] OTHER                    -> y
Weekday(day) == (day + 6) % 7   \* Monday is 0

-----------------------------------------------------------------------------
(* The rules of the NYSE's holidays. *)
NthWeekday(y, m, weekday, n) ==
  LET first == Date(y, m, 1) IN first + ((weekday - Weekday(first)) % 7) + 7 * (n - 1)

LastWeekday(y, m, weekday) ==
  LET last == Date(y + m \div 12, (m % 12) + 1, 1) - 1
  IN last - ((Weekday(last) - weekday) % 7)

(* A Sunday holiday is kept on Monday, a Saturday one on Friday. *)
Observed(day) == CASE Weekday(day) = 5 -> day - 1
                   [] Weekday(day) = 6 -> day + 1
                   [] OTHER            -> day

(* Planted bug: Gauss's rule without its exceptions. *)
EasterByGauss(y) ==
  LET h   == (19 * (y % 19) + 24) % 30
      lam == (5 + 2 * (y % 4) + 4 * (y % 7) + 6 * h) % 7
  IN Date(y, 3, 22) + h + lam
(* Meeus, Jones and Butcher. *)
Easter(y) ==
  LET a   == y % 19
      b   == y \div 100
      c   == y % 100
      g   == (b - (b + 8) \div 25 + 1) \div 3
      h   == (19 * a + b - b \div 4 - g + 15) % 30
      lam == (32 + 2 * (b % 4) + 2 * (c \div 4) - h - (c % 4)) % 7
      m   == (a + 11 * h + 22 * lam) \div 451
      n   == h + lam - 7 * m + 114
  IN Date(y, n \div 31, (n % 31) + 1)

UnscheduledClosures ==
  {Date(2001, 9, d) : d \in 11..14} \cup {Date(2004, 6, 11), Date(2007, 1, 2), Date(2018, 12, 5),
   Date(2012, 10, 29), Date(2012, 10, 30), Date(2025, 1, 9)}

Holidays(y) ==
  {day \in
     {NthWeekday(y, 2, 0, 3), Easter(y) - 2, LastWeekday(y, 5, 0), Observed(Date(y, 7, 4)),
      NthWeekday(y, 9, 0, 1), NthWeekday(y, 11, 3, 4), Observed(Date(y, 12, 25))}
     \cup (IF Weekday(Date(y, 1, 1)) # 5 THEN {Observed(Date(y, 1, 1))} ELSE {})
     \cup (IF y >= 1998 THEN {NthWeekday(y, 1, 0, 3)} ELSE {})
     \cup (IF y >= 2022 THEN {Observed(Date(y, 6, 19))} ELSE {})
     \cup {d \in UnscheduledClosures : YearOf(d) = y} : Weekday(day) < 5}

HalfDays(y) ==
  LET third == Date(y, 7, 3)
      eve   == Date(y, 12, 24)
  IN {day \in {NthWeekday(y, 11, 3, 4) + 1}
              \cup (IF Weekday(third) < 5 /\ Weekday(third + 1) < 5 THEN {third} ELSE {})
              \cup (IF Weekday(eve) < 4 THEN {eve} ELSE {}) :
        Weekday(day) < 5 /\ day \notin Holidays(y)}

-----------------------------------------------------------------------------
(* What NyseCalendar keeps of every year it was asked about. *)
HolidaysIn == [y \in Years |-> Holidays(y)]
HalfDaysIn == [y \in Years |-> HalfDays(y)]

(* The two calendars: what a subclass supplies. *)
IsSession(calendar, day) ==
  calendar = "nyse" => Weekday(day) < 5 /\ day \notin HolidaysIn[YearOf(day)]
IsHalfDay(calendar, day) == calendar = "nyse" /\ day \in HalfDaysIn[YearOf(day)]
(* Local opening and closing times; between equal ones nothing is closed.  *)
NyseHours       == <<19, 32>>
NyseEarlyClose  == 26
ContinuousHours == <<0, 0>>
RegularHours(calendar) == IF calendar = "nyse" THEN NyseHours ELSE ContinuousHours
OpenTime(calendar) == RegularHours(calendar)[1]
CloseTime(calendar, day) ==
  IF IsHalfDay(calendar, day) THEN NyseEarlyClose ELSE RegularHours(calendar)[2]

(* External: what New York is behind UTC; clocks turn on a Sunday. *)
SummerTime(y) ==
  IF y >= 2007 THEN NthWeekday(y, 3, 6, 2)..(NthWeekday(y, 11, 6, 1) - 1)
               ELSE NthWeekday(y, 4, 6, 1)..(LastWeekday(y, 10, 6) - 1)
Offset(calendar, day) ==
  IF calendar # "nyse" THEN 0 ELSE IF day \in SummerTime(YearOf(day)) THEN 8 ELSE 10
LocalDate(calendar, moment) ==
  (moment - Offset(calendar, moment \div Units)) \div Units

NoSession == [date |-> 0, open |-> 0, close |-> 0]
(* _build_session: local times of the day made UTC; a close that is not    *)
(* after the open is the next day's.                                       *)
Utc(calendar, day, time) == day * Units + time + Offset(calendar, day)
BuildSession(calendar, day, open, close) ==
  [date  |-> day, open |-> Utc(calendar, day, open),
   close |-> Utc(calendar, IF close <= open THEN day + 1 ELSE day, close)]
SessionOn(calendar, day) ==
  IF IsSession(calendar, day)
  THEN BuildSession(calendar, day, OpenTime(calendar), CloseTime(calendar, day))
  ELSE NoSession

SessionsBetween(calendar, from, to) ==
  {SessionOn(calendar, d) : d \in from..to} \ {NoSession}
Latest(sessions) ==
  IF sessions = {} THEN NoSession
  ELSE CHOOSE s \in sessions : \A t \in sessions : t.date <= s.date

SessionAt(calendar, moment) == SessionOn(calendar, LocalDate(calendar, moment))
SessionFor(calendar, moment) ==
  Latest({s \in {SessionAt(calendar, moment)} : s # NoSession /\ moment \in s.open..s.close})

(* next_session looks _MAX_CLOSURE_DAYS ahead. *)
NextSession(calendar, day) ==
  LET found == {d \in (day + 1)..(day + 10) : IsSession(calendar, d)}
  IN IF found = {} THEN NoSession ELSE SessionOn(calendar, Min(found))

(* _session_for_bar_close: (open, close] of the day or of the one before. *)
SessionForBarClose(calendar, moment) ==
  LET day == LocalDate(calendar, moment)
  IN Latest({s \in SessionsBetween(calendar, day - 1, day) :
               s.open < moment /\ moment <= s.close})

(* A timeframe is its width; a day's bar is no intraday one, a tick has    *)
(* none.                                                                   *)
IsIntraday(width) == width < Units
(* Planted bug: the first bar of a full width. *)
ReachesCloseFull(s, moment, width) ==
  s # NoSession /\ moment > s.close - width /\ (s.close - s.open) % width = 0
ReachesClose(s, moment, width) == s # NoSession /\ moment >= s.close
LeavesOpen(s, moment, width)   == s # NoSession /\ moment <= s.open + width
IsSessionClose(calendar, moment, width) ==
  IsIntraday(width) => ReachesClose(SessionForBarClose(calendar, moment), moment, width)
IsSessionOpen(calendar, moment, width) ==
  IsIntraday(width) => LeavesOpen(SessionForBarClose(calendar, moment), moment, width)

(* bar_times: every width from the open, and the close, a stub or not. *)
TimesOf(s, width) ==
  {s.close} \cup (IF ~IsIntraday(width) THEN {}
                  ELSE {m \in (s.open + width)..(s.close - 1) : (m - s.open) % width = 0})
BarTimes(calendar, day, width) ==
  UNION {TimesOf(s, width) : s \in SessionsBetween(calendar, day, day)}

(* Planted bug: a session begun before the span counts from its opening. *)
ElapsedFromOpen(calendar, from, to) ==
  LET sessions == SessionsBetween(calendar, LocalDate(calendar, from), LocalDate(calendar, to))
      part(s) == LET covered == Min({s.close, to}) - s.open
                 IN IF covered <= 0 \/ s.close <= from THEN 0
                    ELSE (covered * 4368) \div (s.close - s.open)
  IN IF to <= from THEN 0 ELSE MapThenSumSet(part, sessions)
(* year_fraction, before it is divided by the sessions of a year: trading  *)
(* time in sessions, whole ones and parts, counted in 4368ths.             *)
Elapsed(calendar, from, to) ==
  LET sessions == SessionsBetween(calendar, LocalDate(calendar, from), LocalDate(calendar, to))
      part(s) == LET covered == Min({s.close, to}) - Max({s.open, from})
                 IN IF covered <= 0 THEN 0 ELSE (covered * 4368) \div (s.close - s.open)
  IN IF to <= from THEN 0 ELSE MapThenSumSet(part, sessions)
=============================================================================
