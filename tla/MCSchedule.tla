------------------------------ MODULE MCSchedule ------------------------------
(* Years of every weekday and rule, two calendars, four timeframes. *)
EXTENDS Schedule

SmallYears == 1950..2050
WalkedYears == {1998, 2000, 2001, 2005, 2007, 2011, 2012, 2018, 2021, 2022, 2024, 2025}
Run(calendar, width, years) ==
  [calendar : {calendar}, width : {width}, year : years, hours : {"regular"}, given : {TRUE}]
SmallRuns ==
  Run("nyse", 8, WalkedYears)
  \cup UNION {Run("nyse", width, {2012}) : width \in {1, 2, Units}}
  \cup Run("continuous", Units, 1997..2031 \cup {1954, 1981, 2049})
  \cup Run("continuous", 8, {2024})
  \cup [calendar : {"nyse"}, width : {8, Units}, year : {2012}, hours : {"early"}, given : BOOLEAN]
=============================================================================
