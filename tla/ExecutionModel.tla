--------------------------- MODULE ExecutionModel ---------------------------
(***************************************************************************)
(* When a working order may trade and when its time in force lapses:       *)
(* sigmaloop/execution/models.py.  Whether a bar's range reaches a limit   *)
(* or a stop is a question about prices, answered by FillPricing; here a   *)
(* priced order may or may not trigger on any bar it sees.                 *)
(***************************************************************************)
EXTENDS Order

CONSTANTS
  BarsPerDay,   \* bars in one UTC date; instant t lies on date t \div BarsPerDay
  NoBar         \* the instrument printed nothing at this step

ASSUME BarsPerDayAssumption == BarsPerDay \in Nat \ {0}

Timings == {"NEXT_BAR_OPEN", "NEXT_BAR_CLOSE", "SAME_BAR_CLOSE"}

Date(t) == t \div BarsPerDay

IsSessionClose(t) == Date(t + 1) # Date(t)

(* The lookahead firewall: the next-bar models need an instant strictly    *)
(* after the one that raised the order, same-bar-close does not.           *)
IsEligible(order, timing, now) ==
  /\ IsOpen(order)
  /\ IF timing = "SAME_BAR_CLOSE" THEN now >= order.submitted
                                  ELSE now > order.submitted

(* expires_at binds whatever the time in force; DAY counts from the first  *)
(* bar the order was eligible for, never from submission.                  *)
ShouldExpire(order, now) ==
  /\ IsOpen(order)
  /\ \/ order.expires # 0 /\ now >= order.expires
     \/ /\ order.tif = "DAY"
        /\ order.activated # 0
        /\ Date(now) > Date(order.activated)

(* The answers try_fill may give on a bar: a market order always trades, a *)
(* market-on-close order waits for the session close under the open-       *)
(* anchored model, and the others depend on the range of the bar.          *)
TriggerOutcomes(order, timing, bar, now) ==
  CASE bar = NoBar -> {FALSE}
    [] bar # NoBar /\ order.type \in {"MARKET", "MARKET_ON_OPEN"} -> {TRUE}
    [] bar # NoBar /\ order.type = "MARKET_ON_CLOSE" ->
         {timing = "NEXT_BAR_OPEN" => IsSessionClose(now)}
    [] OTHER -> BOOLEAN

=============================================================================
