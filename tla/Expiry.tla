-------------------------------- MODULE Expiry --------------------------------
(***************************************************************************)
(* StandardExpiryEngine (sigmaloop/execution/expiry.py): option positions  *)
(* settled at the close of their expiry date, assigned early, or flattened *)
(* before, bar after bar.                                                  *)
(*                                                                         *)
(* The engine loop that asks it and the portfolio that books its fills are *)
(* interfaces in the source; here a bar asks about early assignment, then  *)
(* for the expiring positions, settles each, and last flattens at the next *)
(* bar what the policy wants closed.  Only the fills are booked.           *)
(* A random draw is any outcome its probability allows.  A flat position,  *)
(* or one that is no option, raises without effect and is left out.        *)
(***************************************************************************)
EXTENDS Integers, SequencesExt

CONSTANTS
  Contracts,   \* [underlying, right, strike, expiry, style, settlement, multiplier]
  Underlyings,
  Prices,      \* what an underlying may print, Nothing included
  Policies,    \* ExpiryPolicy
  Sizes,       \* signed quantities a position is opened with
  LastDay,     \* bound: the days of a run
  MaxBars,     \* bound: the bars of a run
  MaxOpened,   \* bound: the positions opened
  Nothing      \* no price, no horizon

ASSUME ExpiryAssumption ==
  /\ \A c \in Contracts : c.underlying \in Underlyings /\ c.strike \in Nat /\ c.expiry \in Nat
                            /\ c.multiplier \in Nat \ {0}
  /\ Prices \ {Nothing} \subseteq Nat
  /\ \A p \in Policies : p.threshold \in Nat \ {0} /\ p.fee \in Nat
  /\ Sizes \subseteq Int \ {0}
  /\ LastDay \in Nat /\ MaxBars \in Nat /\ MaxOpened \in Nat

VARIABLES
  policy,
  snapshot,   \* the bar in hand: its day, whether it closes the session, prices
  phase,      \* where in the bar the engine loop is
  held,       \* Position.quantity of every contract
  source,     \* _settlement_source
  todo,       \* the contracts the phase has still to visit
  closing,    \* what the policy wants flattened, orders for the next bar
  failed,     \* settlement raised DataNotAvailableError, the run is over
  outcomes,   \* history: every ExpiryOutcome, the bar it was on, and the trail
  trail       \* history: bars, positions opened, and of every open contract
              \* the last print since it was opened and the days it was seen on

vars == <<policy, snapshot, phase, held, source, todo, closing, failed, outcomes, trail>>

Abs(n)   == IF n < 0 THEN -n ELSE n
IsOpen(c) == held[c] # 0
Price(c) == snapshot.price[c.underlying]

IntrinsicValue(c, price) ==
  LET gain == IF c.right = "CALL" THEN price - c.strike ELSE c.strike - price
  IN IF gain > 0 THEN gain ELSE 0
DaysToExpiry(c) == c.expiry - snapshot.day

(* Whether a draw of this probability may come out as d. *)
MayDraw(probability, d) == CASE probability = "always" -> d
                             [] probability = "never"  -> ~d
                             [] OTHER                  -> TRUE

-----------------------------------------------------------------------------
(* _outcome and _fill: what is settled, and the fills that book it. *)
FillOf(instrument, size, price, multiplier, fees) ==
  [instrument |-> instrument, size |-> size, price |-> price,
   multiplier |-> multiplier, fees |-> fees]

(* Planted bug: the fee is charged on the contract and on the delivery. *)
OutcomeChargedTwice(c, reason, price, closePrice, delta, fees) ==
  LET close    == FillOf("contract", -held[c], closePrice, c.multiplier, fees)
      delivery == FillOf("underlying", delta, c.strike, 1, fees)
  IN [contract |-> c, quantity |-> held[c], reason |-> reason, price |-> price,
      cash |-> held[c] * closePrice * c.multiplier - delta * c.strike - fees,
      delta |-> delta, fees |-> fees,
      fills |-> IF delta = 0 THEN <<close>> ELSE <<close, delivery>>]
Outcome(c, reason, price, closePrice, delta, fees) ==
  LET close    == FillOf("contract", -held[c], closePrice, c.multiplier, IF delta = 0 THEN fees ELSE 0)
      delivery == FillOf("underlying", delta, c.strike, 1, fees)
  IN [contract |-> c, quantity |-> held[c], reason |-> reason, price |-> price,
      cash |-> held[c] * closePrice * c.multiplier - delta * c.strike - fees,
      delta |-> delta, fees |-> fees,
      fills |-> IF delta = 0 THEN <<close>> ELSE <<close, delivery>>]

(* A long call and a short put receive shares, the others deliver them. *)
Delivery(c) ==
  (IF (c.right = "CALL") <=> (held[c] > 0) THEN 1 ELSE -1) * Abs(held[c]) * c.multiplier

(* _resolve_at: exercised, assigned or worthless; in cash or in shares. *)
ResolveAt(c, price, assigned) ==
  LET intrinsic == IntrinsicValue(c, price)
      exercised == held[c] > 0 /\ intrinsic >= policy.threshold
      reason    == IF held[c] > 0 THEN "EXERCISE" ELSE "ASSIGNMENT"
      fees      == policy.fee * Abs(held[c])
      physical  == c.settlement = "PHYSICAL" /\ policy.physical
  IN CASE ~exercised /\ ~assigned             -> Outcome(c, "WORTHLESS", price, 0, 0, 0)
       [] (exercised \/ assigned) /\ physical -> Outcome(c, reason, price, 0, Delivery(c), fees)
       [] OTHER                               -> Outcome(c, reason, price, intrinsic, 0, fees)

(* Applying the fills of an outcome: the contract is closed. *)
Settle(outcome) ==
  /\ outcomes' = Append(outcomes, [of |-> outcome, on |-> snapshot,
                                   last |-> trail.last[outcome.contract],
                                   days |-> trail.days[outcome.contract]])
  /\ held' = [held EXCEPT ![outcome.contract] = 0]

-----------------------------------------------------------------------------
Observe(c) == IF Price(c) = Nothing THEN source ELSE [source EXCEPT ![c.underlying] = Price(c)]

(* check_early_assignment, on the short positions of the bar. *)
Assignable(c) ==
  /\ held[c] < 0
  /\ c.style = "AMERICAN"
  /\ policy.early # "never"
DrawnEarly(c) ==
  {d \in BOOLEAN : IF Assignable(c) /\ Price(c) # Nothing /\ IntrinsicValue(c, Price(c)) > 0
                   THEN MayDraw(policy.early, d) ELSE ~d}

CheckEarlyAssignment(c) ==
  /\ phase = "early" /\ c \in todo
  /\ todo' = todo \ {c}
  /\ source' = IF Assignable(c) THEN Observe(c) ELSE source
  /\ \E assigned \in DrawnEarly(c) :
       IF assigned THEN Settle(ResolveAt(c, Price(c), TRUE))
                   ELSE UNCHANGED <<held, outcomes>>
  /\ UNCHANGED <<policy, snapshot, phase, closing, failed, trail>>

(* Planted bug: only what expires strictly before this day. *)
ExpiringPast == {c \in Contracts : IsOpen(c) /\ snapshot.close /\ snapshot.day > c.expiry}
(* expiring_positions: at the close of the expiry date, or the first after. *)
Expiring == {c \in Contracts : IsOpen(c) /\ snapshot.close /\ snapshot.day >= c.expiry}

(* Planted bug: the prices are taken only when something expires. *)
RefreshExpiring ==
  [u \in Underlyings |->
     IF snapshot.price[u] # Nothing /\ \E c \in Expiring : c.underlying = u
     THEN snapshot.price[u] ELSE source[u]]
(* It also remembers the price of every underlying an option is held on. *)
Refresh ==
  [u \in Underlyings |->
     IF snapshot.price[u] # Nothing /\ \E c \in Contracts : IsOpen(c) /\ c.underlying = u
     THEN snapshot.price[u] ELSE source[u]]

SelectExpiring ==
  /\ phase = "early" /\ todo = {}
  /\ phase' = "resolve"
  /\ todo' = Expiring
  /\ source' = Refresh
  /\ trail' = [trail EXCEPT
       !.last = [c \in Contracts |-> IF IsOpen(c) /\ Price(c) # Nothing THEN Price(c) ELSE @[c]],
       !.days = [c \in Contracts |-> IF IsOpen(c) THEN Append(@[c], snapshot.day) ELSE @[c]]]
  /\ UNCHANGED <<policy, snapshot, held, closing, failed, outcomes>>

DrawnAtExpiry(c, price) ==
  {d \in BOOLEAN : IF held[c] < 0 /\ IntrinsicValue(c, price) > 0
                   THEN MayDraw(policy.atExpiry, d) ELSE ~d}
(* resolve, at the price of the bar or the one carried (_settlement_price).*)
Resolve(c) ==
  /\ phase = "resolve" /\ c \in todo
  /\ todo' = todo \ {c}
  /\ source' = Observe(c)
  /\ IF source'[c.underlying] = Nothing
     THEN failed' = TRUE /\ UNCHANGED <<held, outcomes>>
     ELSE /\ \E assigned \in DrawnAtExpiry(c, source'[c.underlying]) :
               Settle(ResolveAt(c, source'[c.underlying], assigned))
          /\ UNCHANGED failed
  /\ UNCHANGED <<policy, snapshot, phase, closing, trail>>

(* positions_to_close_early: the policy's horizon, in calendar days. *)
ClosedEarly ==
  {c \in Contracts : /\ policy.closeBefore # Nothing /\ IsOpen(c)
                     /\ DaysToExpiry(c) >= 0 /\ DaysToExpiry(c) <= policy.closeBefore}

CloseEarly ==
  /\ phase = "resolve" /\ todo = {}
  /\ phase' = "done"
  /\ closing' = ClosedEarly
  /\ UNCHANGED <<policy, snapshot, held, source, todo, failed, outcomes, trail>>

-----------------------------------------------------------------------------
(* External: the strategy opens a position; a contract trades until the    *)
(* close of its expiry date.                                               *)
Trades(c) == snapshot.day < c.expiry \/ (snapshot.day = c.expiry /\ ~snapshot.close)
OpenPosition(c, size) ==
  /\ phase = "done"
  /\ trail.opened < MaxOpened
  /\ held[c] = 0 /\ Trades(c)
  /\ held' = [held EXCEPT ![c] = size]
  /\ trail' = [trail EXCEPT !.opened = @ + 1, !.last[c] = Nothing, !.days[c] = <<>>]
  /\ UNCHANGED <<policy, snapshot, phase, source, todo, closing, failed, outcomes>>

(* External: the next bar; the orders that flatten a position fill first. *)
NextBar(day, close, price) ==
  /\ phase = "done"
  /\ trail.bars < MaxBars
  /\ \/ day > snapshot.day
     \/ day = snapshot.day /\ ~snapshot.close
  /\ snapshot' = [day |-> day, close |-> close, price |-> price]
  /\ phase' = "early"
  /\ held' = [c \in Contracts |-> IF c \in closing THEN 0 ELSE held[c]]
  /\ closing' = {}
  /\ todo' = {c \in Contracts : held'[c] < 0}
  /\ trail' = [trail EXCEPT !.bars = @ + 1]
  /\ UNCHANGED <<policy, source, failed, outcomes>>

Init ==
  /\ policy \in Policies
  /\ snapshot = [day |-> 0, close |-> TRUE, price |-> [u \in Underlyings |-> Nothing]]
  /\ phase = "done"
  /\ held = [c \in Contracts |-> 0]
  /\ source = [u \in Underlyings |-> Nothing]
  /\ todo = {} /\ closing = {}
  /\ failed = FALSE
  /\ outcomes = <<>>
  /\ trail = [bars |-> 0, opened |-> 0, last |-> [c \in Contracts |-> Nothing],
              days |-> [c \in Contracts |-> <<>>]]

Next ==
  /\ ~failed
  /\ \/ \E c \in Contracts : CheckEarlyAssignment(c) \/ Resolve(c)
     \/ SelectExpiring \/ CloseEarly
     \/ \E c \in Contracts, size \in Sizes : OpenPosition(c, size)
     \/ \E day \in 1..LastDay, close \in BOOLEAN, price \in [Underlyings -> Prices] :
          NextBar(day, close, price)
Spec == Init /\ [][Next]_vars
=============================================================================
