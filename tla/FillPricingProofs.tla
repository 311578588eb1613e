-------------------------- MODULE FillPricingProofs --------------------------
(***************************************************************************)
(* A fill is priced from the market, for every tick and lot, order, bar,   *)
(* book and parameter of the models.  First what the helpers of Pricing    *)
(* return, then what one fill is made of, then the invariant.  And the     *)
(* parts of an order pay what the whole pays: first sums, then what one    *)
(* schedule charges, then all of them over all fills.                      *)
(***************************************************************************)
EXTENDS FillPricingProperties, WellFoundedInduction, FiniteSetTheorems, SequenceTheorems,
        TLAPS

(* The least element of a set of naturals.                                 *)
LEMMA MinOfNaturals ==
  ASSUME NEW S \in SUBSET Nat, S # {}
  PROVE  Min(S) \in S /\ \A y \in S : Min(S) <= y
<1> DEFINE Less == {ss \in Nat \X Nat : ss[1] < ss[2]}
<1>1. IsWellFoundedOn(Less, Nat)
  <2>1. OpToRel(<, Nat) = Less
    BY DEF OpToRel
  <2> QED BY <2>1, NatLessThanWellFounded
<1>2. \E x \in S : \A y \in S : <<y, x>> \notin Less
  <2> HIDE DEF Less
  <2> QED BY <1>1, WFMin, Zenon
<1>3. \A x, y \in S : <<y, x>> \notin Less => x =< y
  <2> SUFFICES ASSUME NEW x \in S, NEW y \in S, ~(x =< y)
               PROVE  <<y, x>> \in Less
    OBVIOUS
  <2>1. x \in Nat /\ y \in Nat /\ y < x
    OBVIOUS
  <2> QED BY <2>1
<1>4. \E x \in S : \A y \in S : x =< y
  <2> HIDE DEF Less
  <2> QED BY <1>2, <1>3
<1> QED
  BY <1>4, Zenon DEF Min

(* Induction, about a set rather than a predicate: a set that has 0 and,   *)
(* with a number up to n, the next, has all numbers up to n.               *)
LEMMA InductionUpTo ==
  ASSUME NEW n \in Nat, NEW S, 0 \in S, \A i \in 0..n - 1 : i \in S => i + 1 \in S
  PROVE  0..n \subseteq S
<1> SUFFICES ASSUME 0..n \ S # {}
             PROVE  FALSE
  OBVIOUS
<1> DEFINE out   == 0..n \ S
           least == Min(out)
<1>1. least \in out /\ \A y \in out : least <= y
  BY MinOfNaturals
<1> HIDE DEF least
<1>2. least - 1 \in 0..n - 1 /\ least - 1 \in S
  BY <1>1
<1>. QED
  BY <1>1, <1>2

USE PricingAssumption

(***************************************************************************)
(* Rounding.                                                               *)
(***************************************************************************)
LEMMA Rounding ==
  ASSUME NEW p \in Int
  PROVE  /\ RoundUp(p) \in Int /\ p <= RoundUp(p) /\ RoundUp(p) < p + Tick /\ OnGrid(RoundUp(p))
         /\ RoundDown(p) \in Int /\ RoundDown(p) <= p /\ p < RoundDown(p) + Tick /\ OnGrid(RoundDown(p))
<1> DEFINE up == (p + Tick - 1) \div Tick
           dn == p \div Tick
<1>1. /\ up \in Int /\ up * Tick <= p + Tick - 1 /\ p + Tick - 1 < up * Tick + Tick
      /\ dn \in Int /\ dn * Tick <= p /\ p < dn * Tick + Tick
  OBVIOUS
<1>2. \A k \in Int : (k * Tick) % Tick = 0 /\ k * Tick \in Int
  OBVIOUS
<1> HIDE DEF up, dn
<1>3. OnGrid(up * Tick) /\ OnGrid(dn * Tick) /\ up * Tick \in Int /\ dn * Tick \in Int
  BY <1>1, <1>2 DEF OnGrid
<1>4. RoundUp(p) = up * Tick /\ RoundDown(p) = dn * Tick
  BY DEF RoundUp, RoundDown, up, dn
<1>. QED
  BY <1>1, <1>3, <1>4

LEMMA RoundingToNearest ==
  ASSUME NEW p \in Int
  PROVE  /\ RoundNearest(p) \in Int /\ 2 * p - Tick < 2 * RoundNearest(p)
         /\ p >= 0 => RoundNearest(p) >= 0
<1> DEFINE k == (2 * p + Tick) \div (2 * Tick)
<1>1. k \in Int /\ k * (2 * Tick) <= 2 * p + Tick /\ 2 * p + Tick < k * (2 * Tick) + 2 * Tick
  OBVIOUS
<1>2. p >= 0 => k >= 0
  OBVIOUS
<1> HIDE DEF k
<1>3. k * (2 * Tick) = 2 * (k * Tick) /\ k * Tick \in Int /\ (k >= 0 => k * Tick >= 0)
  BY <1>1
<1>4. RoundNearest(p) = k * Tick
  BY DEF RoundNearest, k
<1>. QED
  BY <1>1, <1>2, <1>3, <1>4

(* Rounding does not cross a price that is on the grid. *)
LEMMA GridIsKept ==
  ASSUME NEW r \in Int, NEW p \in Int, OnGrid(r)
  PROVE  /\ r <= p => r <= RoundDown(p)
         /\ p <= r => RoundUp(p) <= r
<1>1. PICK k \in Int : r = k * Tick
  BY DEF OnGrid
<1>2. \A a, b \in Int : a * Tick < b * Tick + Tick => a <= b /\ a * Tick <= b * Tick
  <2> SUFFICES ASSUME NEW a \in Int, NEW b \in Int, a * Tick < b * Tick + Tick
               PROVE  a <= b /\ a * Tick <= b * Tick
    OBVIOUS
  <2>1. a <= b
    <3> SUFFICES ASSUME a - b - 1 >= 0  PROVE FALSE
      OBVIOUS
    <3>1. (a - b - 1) * Tick >= 0
      OBVIOUS
    <3>2. (a - b - 1) * Tick = a * Tick - b * Tick - Tick
      OBVIOUS
    <3>. QED
      BY <3>1, <3>2
  <2>2. (b - a) * Tick >= 0 /\ (b - a) * Tick = b * Tick - a * Tick
    BY <2>1
  <2>. QED
    BY <2>1, <2>2
<1>3. /\ p \div Tick \in Int /\ p < (p \div Tick) * Tick + Tick
      /\ (p + Tick - 1) \div Tick \in Int /\ ((p + Tick - 1) \div Tick) * Tick <= p + Tick - 1
  OBVIOUS
<1>4. r <= p => r <= RoundDown(p)
  <2>1. r <= p => k * Tick < (p \div Tick) * Tick + Tick
    BY <1>1, <1>3
  <2>. QED
    BY <1>1, <1>2, <1>3, <2>1 DEF RoundDown
<1>5. p <= r => ((p + Tick - 1) \div Tick) * Tick < k * Tick + Tick
  BY <1>1, <1>3
<1>6. p <= r => RoundUp(p) <= r
  BY <1>1, <1>2, <1>3, <1>5 DEF RoundUp
<1>. QED
  BY <1>4, <1>6

LEMMA Percent ==
  ASSUME NEW x \in Int, NEW p \in Int
  PROVE  /\ Pct(x, p) \in Int
         /\ 100 * Pct(x, p) <= x * p
         /\ x >= 0 /\ p >= 0 => Pct(x, p) >= 0
  BY DEF Pct

LEMMA PercentOfNat ==
  ASSUME NEW x \in Nat, NEW p \in Nat
  PROVE  Pct(x, p) \in Nat /\ 100 * Pct(x, p) <= x * p
  BY DEF Pct

LEMMA Halves ==
  ASSUME NEW x \in Int
  PROVE  x \div 2 \in Int /\ (x >= 0 => x \div 2 >= 0 /\ x \div 2 <= x)
  OBVIOUS

(***************************************************************************)
(* The guards on a price.                                                  *)
(***************************************************************************)
HalfOf(quote) == IF quote = Nothing THEN 0 ELSE Spread(quote) \div 2

LEMMA BookFacts ==
  ASSUME NEW quote \in Books \cup {Nothing}
  PROVE  /\ HalfOf(quote) \in Nat
         /\ HalfOf(quote) = IF quote = Nothing THEN 0 ELSE Higher(Spread(quote), 0) \div 2
         /\ quote # Nothing => quote \in Books /\ Spread(quote) \in Nat
<1>1. quote # Nothing => quote.bid \in Nat /\ quote.ask \in Nat /\ quote.bid <= quote.ask
  BY DEF Books
<1>2. quote # Nothing => Spread(quote) \in Nat /\ Higher(Spread(quote), 0) = Spread(quote)
  BY <1>1 DEF Spread, Higher
<1>. QED
  BY <1>2, Halves DEF HalfOf

LEMMA BarFacts ==
  ASSUME NEW bar \in Bars
  PROVE  /\ bar.open \in Nat /\ bar.high \in Nat /\ bar.low \in Nat /\ bar.close \in Nat /\ bar.volume \in Nat
         /\ bar.low <= bar.open /\ bar.open <= bar.high /\ bar.low <= bar.close /\ bar.close <= bar.high
         /\ bar.low <= bar.high
         /\ bar.quote \in Books \cup {Nothing}
  BY DEF Bars

LEMMA TicketFacts ==
  ASSUME NEW o \in Tickets
  PROVE  /\ o.side \in {"BUY", "SELL"}
         /\ o.type \in {"MARKET", "MARKET_ON_CLOSE", "LIMIT", "STOP", "STOP_LIMIT"}
         /\ o.limit # Nothing => o.limit \in Nat /\ o.type \in {"LIMIT", "STOP_LIMIT"}
         /\ o.type \in {"LIMIT", "STOP_LIMIT"} => o.limit \in Nat /\ o.limit # Nothing
         /\ o.type \in {"STOP", "STOP_LIMIT"} => o.stop \in Nat
         /\ o.stop \in Nat \cup {Nothing}
         /\ o.trailing # Nothing => o.trailing \in Nat /\ o.type = "STOP" /\ o.initial \in Nat
         /\ o.quantity \in Nat /\ o.filled \in Nat /\ o.filled <= o.quantity
  BY DEF Tickets

(* What each guard makes of a price. *)
LEMMA Snapped ==
  ASSUME NEW o, NEW p \in Int
  PROVE  /\ Snap(o, p) \in Nat /\ OnGrid(Snap(o, p))
         /\ IsBuy(o) => p <= Snap(o, p)
         /\ ~IsBuy(o) => Snap(o, p) <= p \/ Snap(o, p) = 0
<1>1. OnGrid(0)
  BY DEF OnGrid
<1>2. Snap(o, p) \in {RoundUp(p), RoundDown(p), 0}
  BY Rounding DEF Snap, Higher
<1>3. Snap(o, p) \in Nat /\ OnGrid(Snap(o, p))
  BY <1>1, <1>2, Rounding DEF Snap, Higher
<1>. QED
  BY <1>3, Rounding DEF Snap, Higher

LEMMA BoundedByTheBar ==
  ASSUME NEW o, NEW bar \in Bars, NEW quote \in Books \cup {Nothing}, NEW p \in Nat, OnGrid(p)
  PROVE  LET b    == Bounded(o, p, bar, quote)
             half == HalfOf(quote)
         IN /\ b \in Nat /\ OnGrid(b)
            /\ bar.high > bar.low => IF IsBuy(o) THEN b <= bar.high + half ELSE b >= bar.low - half
            /\ IsBuy(o)  => b = p \/ (b > bar.high - Tick /\ \A r \in Int : OnGrid(r) /\ r <= bar.high => r <= b)
            /\ ~IsBuy(o) => b = p \/ (b < bar.low + Tick /\ \A r \in Int : OnGrid(r) /\ bar.low <= r => b <= r)
<1> DEFINE half    == HalfOf(quote)
           ceiling == bar.high + half
           lower   == Higher(bar.low - half, 0)
           b       == Bounded(o, p, bar, quote)
<1>1. half \in Nat /\ half = IF quote = Nothing THEN 0 ELSE Higher(Spread(quote), 0) \div 2
  BY BookFacts
<1>2. b = CASE bar.high = bar.low -> p
            [] bar.high > bar.low /\ IsBuy(o) -> Lower(p, RoundDown(ceiling))
            [] OTHER -> Higher(p, RoundUp(lower))
  BY <1>1 DEF Bounded
<1> HIDE DEF half, b
<1>3. ceiling \in Nat /\ bar.high <= ceiling /\ lower \in Nat /\ bar.low - half <= lower /\ lower <= bar.low
  BY <1>1, BarFacts DEF Higher
<1>4. /\ RoundDown(ceiling) \in Int /\ RoundDown(ceiling) <= ceiling /\ ceiling < RoundDown(ceiling) + Tick
      /\ OnGrid(RoundDown(ceiling))
      /\ RoundUp(lower) \in Int /\ lower <= RoundUp(lower) /\ RoundUp(lower) < lower + Tick
      /\ OnGrid(RoundUp(lower))
  BY <1>3, Rounding
<1>5. 0 <= RoundDown(ceiling)
  <2>1. OnGrid(0)
    BY DEF OnGrid
  <2>. QED
    BY <1>3, <2>1, GridIsKept
<1>6. \A r \in Int : OnGrid(r) => (r <= bar.high => r <= RoundDown(ceiling))
                                  /\ (bar.low <= r => RoundUp(lower) <= r)
  <2> SUFFICES ASSUME NEW r \in Int, OnGrid(r)
               PROVE  (r <= bar.high => r <= RoundDown(ceiling)) /\ (bar.low <= r => RoundUp(lower) <= r)
    OBVIOUS
  <2>1. (r <= ceiling => r <= RoundDown(ceiling)) /\ (lower <= r => RoundUp(lower) <= r)
    BY <1>3, GridIsKept
  <2>. QED
    BY <1>3, <2>1, BarFacts
<1>7. CASE bar.high = bar.low
  <2>1. b = p
    BY <1>2, <1>7, BarFacts
  <2>. QED
    BY <2>1, <1>7, BarFacts DEF half, b
<1>8. CASE bar.high > bar.low /\ IsBuy(o)
  <2>1. b = Lower(p, RoundDown(ceiling))
    BY <1>2, <1>8, BarFacts
  <2>2. b \in Nat /\ OnGrid(b) /\ b <= ceiling /\ (b = p \/ b = RoundDown(ceiling))
    BY <2>1, <1>3, <1>4, <1>5 DEF Lower
  <2>3. RoundDown(ceiling) > bar.high - Tick
    BY <1>3, <1>4, BarFacts
  <2>4. b = p \/ (b > bar.high - Tick /\ \A r \in Int : OnGrid(r) /\ r <= bar.high => r <= b)
    BY <2>2, <2>3, <1>6
  <2>. QED
    BY <2>2, <2>4, <1>8 DEF half, b
<1>9. CASE bar.high > bar.low /\ ~IsBuy(o)
  <2>1. b = Higher(p, RoundUp(lower))
    BY <1>2, <1>9, BarFacts
  <2>2. b \in Nat /\ OnGrid(b) /\ b >= bar.low - half /\ (b = p \/ b = RoundUp(lower))
    BY <2>1, <1>1, <1>3, <1>4, BarFacts DEF Higher
  <2>3. RoundUp(lower) < bar.low + Tick
    BY <1>3, <1>4, BarFacts
  <2>4. b = p \/ (b < bar.low + Tick /\ \A r \in Int : OnGrid(r) /\ bar.low <= r => b <= r)
    BY <2>2, <2>3, <1>6
  <2>. QED
    BY <2>2, <2>4, <1>9 DEF half, b
<1>. QED
  BY <1>7, <1>8, <1>9, BarFacts

(* The price of a fill: in the market, within the limit, on the grid.       *)
LEMMA SettledInTheMarket ==
  ASSUME NEW o \in Tickets, NEW bar \in Bars, NEW quote \in Books \cup {Nothing}, NEW p \in Int
  PROVE  LET s    == Settle(p, o, bar, quote)
             half == HalfOf(quote)
         IN /\ s \in Nat
            /\ bar.high > bar.low => IF IsBuy(o) THEN s <= bar.high + half ELSE s >= bar.low - half
            /\ AcceptsPrice(o, s)
            /\ OnGrid(s) \/ s = o.limit
<1> DEFINE snapped == Snap(o, p)
           b       == Bounded(o, snapped, bar, quote)
           half    == HalfOf(quote)
           s       == Settle(p, o, bar, quote)
<1>1. snapped \in Nat /\ OnGrid(snapped)
  BY Snapped
<1> HIDE DEF snapped
<1>2. /\ b \in Nat /\ OnGrid(b)
      /\ bar.high > bar.low => IF IsBuy(o) THEN b <= bar.high + half ELSE b >= bar.low - half
  BY <1>1, BoundedByTheBar
<1>3. half \in Nat
  BY BookFacts
<1>4. s = IF AcceptsPrice(o, b) THEN b ELSE o.limit
  BY DEF Settle, snapped
<1> HIDE DEF b, half, s
<1>5. CASE AcceptsPrice(o, b)
  BY <1>2, <1>4, <1>5 DEF s, half
<1>6. CASE ~AcceptsPrice(o, b)
  <2>1. o.limit \in Nat /\ o.limit # Nothing /\ s = o.limit
    BY <1>4, <1>6, TicketFacts DEF AcceptsPrice
  <2>2. AcceptsPrice(o, s) /\ (IF IsBuy(o) THEN s < b ELSE s > b)
    BY <1>2, <1>6, <2>1 DEF AcceptsPrice
  <2>3. bar.high > bar.low => IF IsBuy(o) THEN s <= bar.high + half ELSE s >= bar.low - half
    BY <1>2, <1>3, <2>1, <2>2, BarFacts
  <2>. QED
    BY <2>1, <2>2, <2>3 DEF s, half
<1>. QED
  BY <1>5, <1>6

(* Guards that only ever cost money: with a level the order may have traded *)
(* at, and costs that are not negative, the price is no better than it.     *)
LEMMA SettledNoBetter ==
  ASSUME NEW o \in Tickets, NEW bar \in Bars, NEW quote \in Books \cup {Nothing}, NEW p \in Int,
         NEW r \in Nat, AcceptsPrice(o, r),
         IsBuy(o)  => r <= p /\ r <= bar.high,
         ~IsBuy(o) => p <= r /\ bar.low <= r
  PROVE  LET s == Settle(p, o, bar, quote)
         IN /\ IF IsBuy(o) THEN s > r - Tick ELSE s < r + Tick
            /\ OnGrid(r) => IF IsBuy(o) THEN s >= r ELSE s <= r
<1> DEFINE snapped == Snap(o, p)
           b       == Bounded(o, snapped, bar, quote)
           s       == Settle(p, o, bar, quote)
<1>1. /\ snapped \in Nat /\ OnGrid(snapped)
      /\ IsBuy(o) => p <= snapped
      /\ ~IsBuy(o) => snapped <= p \/ snapped = 0
  BY Snapped
<1> HIDE DEF snapped
<1>2. /\ b \in Nat
      /\ IsBuy(o)  => b = snapped \/ (b > bar.high - Tick /\ \A x \in Int : OnGrid(x) /\ x <= bar.high => x <= b)
      /\ ~IsBuy(o) => b = snapped \/ (b < bar.low + Tick /\ \A x \in Int : OnGrid(x) /\ bar.low <= x => b <= x)
  BY <1>1, BoundedByTheBar
<1>3. s = IF AcceptsPrice(o, b) THEN b ELSE o.limit
  BY DEF Settle, snapped
<1> HIDE DEF b, s
<1>4. IF IsBuy(o) THEN b > r - Tick ELSE b < r + Tick
  BY <1>1, <1>2, BarFacts
<1>5. OnGrid(r) => IF IsBuy(o) THEN b >= r ELSE b <= r
  BY <1>1, <1>2, BarFacts
<1>6. CASE AcceptsPrice(o, b)
  BY <1>3, <1>4, <1>5, <1>6 DEF s
<1>7. CASE ~AcceptsPrice(o, b)
  <2>1. o.limit \in Nat /\ o.limit # Nothing /\ s = o.limit
    BY <1>3, <1>7, TicketFacts DEF AcceptsPrice
  <2>2. IF IsBuy(o) THEN s >= r ELSE s <= r
    BY <2>1 DEF AcceptsPrice
  <2>3. IF IsBuy(o) THEN s > r - Tick ELSE s < r + Tick
    BY <2>1, <2>2
  <2>. QED
    BY <2>2, <2>3 DEF s
<1>. QED
  BY <1>6, <1>7

(***************************************************************************)
(* The level a fill starts from: one the bar traded at, within the limit.  *)
(***************************************************************************)
(* What triggers a stop, and on which side of it the order then trades. *)
StoppedOut(o, bar, r) == IF IsBuy(o) THEN bar.high >= o.stop /\ r >= o.stop
                                     ELSE bar.low <= o.stop /\ r <= o.stop

LEMMA Triggered ==
  ASSUME NEW o \in Tickets, NEW bar \in Bars, NEW anchor \in bar.low..bar.high, NEW g,
         TriggeredPrice(o, bar, anchor, g) # Nothing
  PROVE  LET r == TriggeredPrice(o, bar, anchor, g)
         IN /\ r \in Nat /\ AcceptsPrice(o, r)
            /\ IF IsBuy(o) THEN r <= bar.high ELSE bar.low <= r
            /\ ~g => bar.low <= r /\ r <= bar.high
            /\ o.type = "STOP" => StoppedOut(o, bar, r)
<1> DEFINE r == TriggeredPrice(o, bar, anchor, g)
           stopped == StopPrice(o, anchor, g)
<1>1. bar.low \in Nat /\ bar.high \in Nat /\ anchor \in Nat /\ bar.low <= anchor /\ anchor <= bar.high
  BY BarFacts
<1>2. CASE o.type \in {"MARKET", "MARKET_ON_CLOSE"}
  <2>1. r = anchor /\ o.limit = Nothing
    BY <1>2, TicketFacts DEF TriggeredPrice
  <2> HIDE DEF r
  <2>2. /\ r \in Nat /\ AcceptsPrice(o, r) /\ bar.low <= r /\ r <= bar.high
    BY <2>1, <1>1 DEF AcceptsPrice
  <2>. QED
    BY <2>2, <1>2 DEF r
<1>3. CASE o.type = "LIMIT"
  <2>1. o.limit \in Nat
    BY <1>3, TicketFacts
  <2>2. /\ r = IF IsBuy(o) THEN Lower(anchor, o.limit) ELSE Higher(anchor, o.limit)
        /\ IF IsBuy(o) THEN bar.low <= o.limit ELSE bar.high >= o.limit
    BY <1>3, <2>1, <1>1 DEF TriggeredPrice
  <2> HIDE DEF r
  <2>3. r \in Nat /\ AcceptsPrice(o, r) /\ bar.low <= r /\ r <= bar.high
    BY <2>1, <2>2, <1>1 DEF AcceptsPrice, Lower, Higher
  <2>. QED
    BY <2>3, <1>3 DEF r
<1>4. CASE o.type \in {"STOP", "STOP_LIMIT"}
  <2>1. o.stop \in Nat
    BY <1>4, TicketFacts
  <2>2. /\ r = stopped
        /\ IF IsBuy(o) THEN bar.high >= o.stop ELSE bar.low <= o.stop
        /\ o.type = "STOP_LIMIT" => AcceptsPrice(o, stopped)
    BY <1>4, <2>1, <1>1 DEF TriggeredPrice
  <2>3. stopped = IF g THEN o.stop ELSE IF IsBuy(o) THEN Higher(anchor, o.stop) ELSE Lower(anchor, o.stop)
    BY DEF StopPrice
  <2> HIDE DEF r, stopped
  <2>4. /\ r \in Nat
        /\ IF IsBuy(o) THEN r <= bar.high ELSE bar.low <= r
        /\ ~g => bar.low <= r /\ r <= bar.high
        /\ IF IsBuy(o) THEN r >= o.stop ELSE r <= o.stop
    BY <2>1, <2>2, <2>3, <1>1 DEF Higher, Lower
  <2>5. AcceptsPrice(o, r)
    <3>1. CASE o.type = "STOP"
      BY <3>1, TicketFacts DEF AcceptsPrice
    <3>2. CASE o.type = "STOP_LIMIT"
      BY <3>2, <2>2
    <3>. QED
      BY <3>1, <3>2, <1>4
  <2>. QED
    BY <2>2, <2>4, <2>5 DEF r, StoppedOut
<1>. QED
  BY <1>2, <1>3, <1>4, TicketFacts

LEMMA ReferencePriced ==
  ASSUME NEW o \in Tickets, NEW bar \in Bars \cup {Nothing}, NEW timing, NEW g,
         Reference(o, bar, timing, g) # Nothing
  PROVE  LET r == Reference(o, bar, timing, g)
         IN /\ bar \in Bars
            /\ r \in Nat /\ AcceptsPrice(o, r)
            /\ IF IsBuy(o) THEN r <= bar.high ELSE bar.low <= r
            /\ ~g => bar.low <= r /\ r <= bar.high
            /\ o.type = "STOP" => StoppedOut(o, bar, r)
<1> DEFINE r == Reference(o, bar, timing, g)
<1>1. bar # Nothing /\ bar \in Bars
  BY DEF Reference
<1>2. bar.open \in bar.low..bar.high /\ bar.close \in bar.low..bar.high
  BY <1>1, BarFacts
<1>3. \/ r = TriggeredPrice(o, bar, bar.open, g)
      \/ r = TriggeredPrice(o, bar, bar.close, g)
      \/ r = TriggeredPrice(o, bar, bar.close, FALSE)
  BY <1>1 DEF Reference
<1>4. r # Nothing
  OBVIOUS
<1> HIDE DEF r
<1>5. CASE r = TriggeredPrice(o, bar, bar.open, g)
  BY <1>1, <1>2, <1>4, <1>5, Triggered DEF r
<1>6. CASE r = TriggeredPrice(o, bar, bar.close, g)
  BY <1>1, <1>2, <1>4, <1>6, Triggered DEF r
<1>7. CASE r = TriggeredPrice(o, bar, bar.close, FALSE)
  <2>1. TriggeredPrice(o, bar, bar.close, FALSE) # Nothing
    BY <1>4, <1>7
  <2>2. /\ r \in Nat /\ AcceptsPrice(o, r)
        /\ IF IsBuy(o) THEN r <= bar.high ELSE bar.low <= r
        /\ bar.low <= r /\ r <= bar.high
        /\ o.type = "STOP" => StoppedOut(o, bar, r)
    BY <1>1, <1>2, <1>7, <2>1, Triggered
  <2>. QED
    BY <1>1, <2>2 DEF r
<1>. QED
  BY <1>3, <1>5, <1>6, <1>7

(***************************************************************************)
(* The book and the costs.                                                 *)
(***************************************************************************)
LEMMA MadeUpBook ==
  ASSUME NEW mid \in Nat, NEW half \in Int
  PROVE  CentredQuote(mid, half) \in Books
<1> DEFINE bid == RoundNearest(Higher(mid - half, 0))
           ask == RoundNearest(mid + half)
           low == Higher(RoundDown(mid), 0)
           top == RoundNearest(low + Tick)
<1>1. Higher(mid - half, 0) \in Nat
  BY DEF Higher
<1>2. bid \in Nat /\ ask \in Int
  BY <1>1, RoundingToNearest
<1>3. low \in Nat
  BY Rounding DEF Higher
<1> HIDE DEF low
<1>4. top \in Int /\ 2 * (low + Tick) - Tick < 2 * top
  BY <1>3, RoundingToNearest
<1> HIDE DEF bid, ask, top
<1>5. top \in Nat /\ low <= top
  BY <1>3, <1>4
<1>6. CentredQuote(mid, half) = IF 2 * (ask - bid) < Tick
                                THEN [bid |-> low, ask |-> top, real |-> FALSE]
                                ELSE [bid |-> bid, ask |-> ask, real |-> FALSE]
  BY DEF CentredQuote, bid, ask, low, top
<1>7. CASE 2 * (ask - bid) < Tick
  BY <1>3, <1>5, <1>6, <1>7 DEF Books
<1>8. CASE ~(2 * (ask - bid) < Tick)
  <2>1. ask \in Nat /\ bid <= ask
    BY <1>2, <1>8
  <2>. QED
    BY <1>2, <1>6, <1>8, <2>1 DEF Books
<1>. QED
  BY <1>7, <1>8

LEMMA ChainFacts ==
  ASSUME NEW chain \in Chains
  PROVE  /\ chain.quote \in Books /\ chain.print \in Nat \cup {Nothing}
         /\ chain.volume \in Nat /\ chain.last \in BOOLEAN
  BY DEF Chains

LEMMA MadeUpHalf ==
  ASSUME NEW model, Parameters(model) \subseteq Nat, NEW bar \in Bars, NEW mid \in Nat,
         model.kind \in {"fixed_bps", "ticks", "volatility"}
  PROVE  HalfSpread(model, mid, bar) \in Int
<1>1. CASE model.kind = "fixed_bps"
  <2>1. model.pct \in Nat
    BY <1>1 DEF Parameters
  <2>. QED
    BY <1>1, <2>1, Percent, Halves DEF HalfSpread
<1>2. CASE model.kind = "ticks"
  <2>1. model.ticks \in Nat
    BY <1>2 DEF Parameters
  <2>2. model.ticks * Tick \in Int
    BY <2>1
  <2>. QED
    BY <1>2, <2>2, Halves DEF HalfSpread
<1>3. CASE model.kind = "volatility"
  <2>1. model.pct \in Nat /\ model.range \in Nat
    BY <1>3 DEF Parameters
  <2>2. bar.high - bar.low \in Nat
    BY BarFacts
  <2>3. Pct(mid, model.pct) \in Nat /\ Pct(bar.high - bar.low, model.range) \in Nat
    BY <2>1, <2>2, PercentOfNat
  <2>4. Pct(mid, model.pct) + Pct(bar.high - bar.low, model.range) \in Int
    BY <2>3
  <2>. QED
    BY <1>3, <2>4, Halves DEF HalfSpread
<1>. QED
  BY <1>1, <1>2, <1>3

LEMMA BookOfAFill ==
  ASSUME NEW model, Parameters(model) \subseteq Nat, NEW bar \in Bars, NEW chain \in Chains \cup {Nothing},
         NEW level \in Nat
  PROVE  QuoteUsed(model, bar, chain, level) \in Books \cup {Nothing}
<1> DEFINE centre == IF level > 0 THEN level ELSE bar.close
<1>1. centre \in Nat
  BY BarFacts
<1> HIDE DEF centre
<1>2. model.kind \in {"fixed_bps", "ticks", "volatility"} =>
        CentredQuote(centre, HalfSpread(model, centre, bar)) \in Books
  BY <1>1, MadeUpHalf, MadeUpBook
<1>3. chain # Nothing => chain.quote \in Books
  BY ChainFacts
<1>. QED
  BY <1>2, <1>3, BarFacts DEF QuoteUsed, centre

(* A price asked for in place of a level of zero is one of the bar, of the *)
(* book or of the last print.                                              *)
LEMMA PriceAskedFor ==
  ASSUME NEW model, model.kind = "ohlc" => model.field \in {"open", "high", "low", "close"},
         NEW bar \in Bars, NEW chain \in Chains \cup {Nothing},
         NEW level, NEW quote \in Books \cup {Nothing}, quote = QuoteUsed(model, bar, chain, level),
         NEW selection, NEW o
  PROVE  LET p == Resolve(model, quote, bar, chain, selection, o)
         IN /\ p \in Nat
            /\ \/ bar.low <= p /\ p <= bar.high
               \/ quote # Nothing /\ quote.bid <= p /\ p <= quote.ask
               \/ chain # Nothing /\ p = chain.print
<1> DEFINE p == Resolve(model, quote, bar, chain, selection, o)
           InBook == quote # Nothing /\ quote.bid <= p /\ p <= quote.ask
           InBar  == bar.low <= p /\ p <= bar.high
<1>1. \A q \in Books : q.bid \in Nat /\ q.ask \in Nat /\ q.bid <= q.ask
  BY DEF Books
<1>2. \A q \in Books : Mid(q) \in Nat /\ q.bid <= Mid(q) /\ Mid(q) <= q.ask
  <2> SUFFICES ASSUME NEW q \in Books
               PROVE  Mid(q) \in Nat /\ q.bid <= Mid(q) /\ Mid(q) <= q.ask
    OBVIOUS
  <2>. QED
    BY <1>1 DEF Mid
<1>3. CASE model.kind = "ohlc"
  <2>1. p = bar[model.field]
    BY <1>3 DEF Resolve
  <2>2. p \in {bar.open, bar.high, bar.low, bar.close}
    BY <1>3, <2>1
  <2> HIDE DEF p
  <2>3. p \in Nat /\ InBar
    BY <2>2, BarFacts
  <2>. QED
    BY <2>3 DEF p
<1>4. CASE model.kind # "ohlc" /\ (quote = Nothing \/ selection = "LAST")
  <2>1. p = LastPrice(bar, chain)
    BY <1>4 DEF Resolve
  <2> HIDE DEF p
  <2>2. CASE chain = Nothing
    <3>1. p = bar.close
      BY <2>1, <2>2 DEF LastPrice
    <3>. QED
      BY <3>1, BarFacts DEF p
  <2>3. CASE chain # Nothing /\ chain.print # Nothing
    <3>1. p = chain.print /\ p \in Nat
      BY <2>1, <2>3, ChainFacts DEF LastPrice
    <3>. QED
      BY <2>3, <3>1 DEF p
  <2>4. CASE chain # Nothing /\ chain.print = Nothing
    <3>1. p = Mid(chain.quote) /\ chain.quote \in Books
      BY <2>1, <2>4, ChainFacts DEF LastPrice
    <3>2. quote = chain.quote
      BY <1>4, <2>4 DEF QuoteUsed
    <3>3. quote \in Books /\ quote # Nothing
      BY <3>1, <3>2, FillPricingAssumption
    <3>. QED
      BY <1>2, <3>1, <3>2, <3>3 DEF p
  <2>. QED
    BY <2>2, <2>3, <2>4
<1>5. CASE model.kind # "ohlc" /\ quote # Nothing /\ selection # "LAST"
  <2>1. p \in {Mid(quote), quote.ask, quote.bid}
    BY <1>5 DEF Resolve
  <2> HIDE DEF p
  <2>2. quote \in Books
    BY <1>5
  <2>3. p \in Nat /\ InBook
    BY <1>1, <1>2, <1>5, <2>1, <2>2
  <2>. QED
    BY <2>3 DEF p
<1>. QED
  BY <1>3, <1>4, <1>5

(* The root is one: CHOOSE has a number to choose. *)
LEMMA RootExists ==
  ASSUME NEW a \in Nat, NEW b \in Nat \ {0}
  PROVE  RootPct(a, b) \in Nat
<1> DEFINE above == {r \in Nat : 10000 * a < (r + 1) * (r + 1) * b}
           least == Min(above)
<1>1. 100 * a \in above
  <2>1. (100 * a + 1) * (100 * a + 1) = 10000 * (a * a) + 200 * a + 1
    OBVIOUS
  <2>2. a * a >= a
    OBVIOUS
  <2>3. (100 * a + 1) * (100 * a + 1) > 10000 * a
    BY <2>1, <2>2
  <2> DEFINE c == (100 * a + 1) * (100 * a + 1)
  <2>4. c \in Nat /\ c > 10000 * a
    BY <2>3
  <2> HIDE DEF c
  <2>5. c * b >= c
    BY <2>4
  <2>6. c * b \in Nat /\ 10000 * a < c * b
    BY <2>4, <2>5
  <2>. QED
    BY <2>6 DEF c
<1>2. least \in above /\ \A y \in above : least <= y
  <2>1. above \in SUBSET Nat /\ above # {}
    BY <1>1
  <2> HIDE DEF above
  <2>. QED
    BY <2>1, MinOfNaturals
<1> HIDE DEF least
<1>3. least \in 0..100 * a /\ 10000 * a < (least + 1) * (least + 1) * b
  <2>1. least <= 100 * a
    BY <1>1, <1>2
  <2>. QED
    BY <1>2, <2>1
<1>4. least * least * b <= 10000 * a
  <2>1. CASE least = 0
    BY <2>1
  <2>2. CASE least > 0
    <3>1. least - 1 \in Nat /\ least - 1 \notin above
      BY <1>2, <1>3, <2>2
    <3>2. ~(10000 * a < ((least - 1) + 1) * ((least - 1) + 1) * b)
      BY <3>1
    <3>3. (least - 1) + 1 = least
      BY <1>3
    <3>4. ~(10000 * a < least * least * b)
      BY <3>2, <3>3
    <3>5. least * least * b \in Int
      BY <1>3
    <3>. QED
      BY <3>4, <3>5
  <2>. QED
    BY <1>3, <2>1, <2>2
<1>5. \E r \in 0..100 * a : r * r * b <= 10000 * a /\ 10000 * a < (r + 1) * (r + 1) * b
  BY <1>3, <1>4
<1>6. RootPct(a, b) \in 0..100 * a
  <2> DEFINE IsRoot(r) == r * r * b <= 10000 * a /\ 10000 * a < (r + 1) * (r + 1) * b
  <2>1. \E r \in 0..100 * a : IsRoot(r)
    BY <1>5
  <2>2. RootPct(a, b) = CHOOSE r \in 0..100 * a : IsRoot(r)
    BY DEF RootPct
  <2> HIDE DEF IsRoot
  <2>. QED
    BY <2>1, <2>2
<1>. QED
  BY <1>6

LEMMA SlippageIsACost ==
  ASSUME NEW model, Parameters(model) \subseteq Nat, NEW r \in Nat, NEW quantity \in Nat,
         NEW bar \in Bars, NEW quote \in Books \cup {Nothing},
         model.kind \in {"none", "fixed_bps", "ticks", "volume_share", "spread_fraction"}
  PROVE  SlippagePerUnit(model, r, quantity, bar, quote) \in Nat
<1>1. CASE model.kind = "none"
  BY <1>1 DEF SlippagePerUnit
<1>2. CASE model.kind = "fixed_bps"
  <2>1. model.pct \in Nat
    BY <1>2 DEF Parameters
  <2>. QED
    BY <1>2, <2>1, Percent DEF SlippagePerUnit
<1>3. CASE model.kind = "ticks"
  <2>1. model.ticks \in Nat
    BY <1>3 DEF Parameters
  <2>. QED
    BY <1>3, <2>1 DEF SlippagePerUnit
<1>4. CASE model.kind = "volume_share"
  <2>1. model.pct \in Nat /\ model.share \in Nat
    BY <1>4 DEF Parameters
  <2>2. Pct(r, model.pct) \in Nat
    BY <2>1, PercentOfNat
  <2> DEFINE shown == Lower(100 * quantity, model.share * bar.volume)
  <2>3. bar.volume # 0 => RootPct(shown, 100 * bar.volume) \in Nat
    <3>1. shown \in Nat
      BY <2>1, BarFacts DEF Lower
    <3>2. bar.volume # 0 => 100 * bar.volume \in Nat \ {0}
      BY BarFacts
    <3>. QED
      BY <3>1, <3>2, RootExists
  <2>4. bar.volume # 0 => Pct(Pct(r, model.pct), RootPct(shown, 100 * bar.volume)) \in Nat
    BY <2>2, <2>3, PercentOfNat
  <2>. QED
    BY <1>4, <2>2, <2>4 DEF SlippagePerUnit
<1>5. CASE model.kind = "spread_fraction"
  <2>1. model.pct \in Nat
    BY <1>5 DEF Parameters
  <2>2. quote # Nothing => Spread(quote) \in Nat /\ Higher(Spread(quote), 0) = Spread(quote)
    BY BookFacts DEF Higher
  <2>3. quote # Nothing => Pct(Higher(Spread(quote), 0), model.pct) \in Nat
    BY <2>1, <2>2, PercentOfNat
  <2>. QED
    BY <1>5, <2>3 DEF SlippagePerUnit
<1>. QED
  BY <1>1, <1>2, <1>3, <1>4, <1>5

LEMMA SpreadIsACost ==
  ASSUME NEW o, NEW selection, NEW quote \in Books \cup {Nothing}
  PROVE  LET a == SpreadAdjustment(quote, selection, o)
         IN /\ a \in Int
            /\ selection # "BEST" => IF IsBuy(o) THEN a >= 0 ELSE a <= 0
<1>1. quote # Nothing => Spread(quote) \div 2 \in Nat
  BY BookFacts DEF HalfOf
<1>2. SpreadAdjustment(quote, selection, o) \in {0, Spread(quote) \div 2, -(Spread(quote) \div 2)}
  BY DEF SpreadAdjustment
<1>. QED
  BY <1>1 DEF SpreadAdjustment, SpreadSensitive

(***************************************************************************)
(* One fill.                                                               *)
(***************************************************************************)
LEMMA SetupFacts ==
  ASSUME NEW s \in Setups
  PROVE  /\ Parameters(s.price) \subseteq Nat /\ Parameters(s.slippage) \subseteq Nat
         /\ s.price.kind = "ohlc" => s.price.field \in {"open", "high", "low", "close"}
         /\ s.slippage.kind \in {"none", "fixed_bps", "ticks", "volume_share", "spread_fraction"}
  BY FillPricingAssumption

LEMMA WhatAStepBrings ==
  ASSUME NEW snapshot \in Snapshots
  PROVE  /\ MarketBar(snapshot) \in Bars \cup {Nothing}
         /\ OptionQuote(snapshot) \in Chains \cup {Nothing}
<1> DEFINE chain == OptionQuote(snapshot)
           mid   == Mid(chain.quote)
           flat  == [open |-> mid, high |-> mid, low |-> mid, close |-> mid, volume |-> chain.volume,
                     quote |-> chain.quote, last |-> chain.last]
<1>1. snapshot.bar \in Bars \cup {Nothing} /\ snapshot.chain \in Chains \cup {Nothing}
  BY FillPricingAssumption DEF Chains
<1>2. chain \in Chains \cup {Nothing}
  BY <1>1 DEF OptionQuote
<1> HIDE DEF chain
<1>3. chain # Nothing => flat \in Bars
  <2> SUFFICES ASSUME chain # Nothing PROVE flat \in Bars
    OBVIOUS
  <2>1. chain.quote \in Books /\ chain.volume \in Nat /\ chain.last \in BOOLEAN
    BY <1>2 DEF Chains
  <2>2. chain.quote.bid \in Nat /\ chain.quote.ask \in Nat
    BY <2>1 DEF Books
  <2>3. mid \in Nat
    BY <2>2 DEF Mid
  <2> HIDE DEF mid
  <2>. QED
    BY <2>1, <2>3 DEF Bars
<1>4. MarketBar(snapshot) = IF snapshot.bar # Nothing \/ chain = Nothing THEN snapshot.bar ELSE flat
  BY DEF MarketBar, chain
<1> HIDE DEF flat
<1>. QED
  BY <1>1, <1>2, <1>3, <1>4 DEF chain

(* What a bar absorbs of the order (_fillable). *)
LEMMA Absorbed ==
  ASSUME setup \in Setups, order \in Tickets, NEW bar \in Bars
  PROVE  LET q == Fillable(bar)
         IN /\ q \in 0..Remaining
            /\ setup.slippage.kind = "volume_share" => 100 * q <= setup.slippage.share * bar.volume
            /\ q < Remaining => q % Lot = 0
            /\ order.tif = "FOK" \/ ~setup.partials => q \in {0, Remaining}
<1> DEFINE q      == Fillable(bar)
           m      == setup.slippage
           capped == FillableQuantity(m, Remaining, bar)
<1>1. Remaining \in Nat
  BY TicketFacts DEF Remaining
<1>2. /\ capped \in Nat /\ capped <= Remaining
      /\ m.kind = "volume_share" => m.share \in Nat /\ 100 * capped <= m.share * bar.volume
  <2>1. CASE m.kind = "volume_share"
    <3>1. m.share \in Nat /\ bar.volume \in Nat
      BY <2>1, SetupFacts, BarFacts DEF Parameters
    <3>2. Pct(bar.volume, m.share) \in Nat /\ 100 * Pct(bar.volume, m.share) <= bar.volume * m.share
      BY <3>1, PercentOfNat
    <3>3. bar.volume * m.share = m.share * bar.volume /\ m.share * bar.volume \in Int
      BY <3>1
    <3>4. capped = Lower(Remaining, Pct(bar.volume, m.share))
      BY <2>1 DEF FillableQuantity
    <3> HIDE DEF capped, m
    <3>5. capped \in Nat /\ capped <= Remaining /\ capped <= Pct(bar.volume, m.share)
      BY <1>1, <3>2, <3>4 DEF Lower
    <3>. QED
      BY <3>1, <3>2, <3>3, <3>5
  <2>2. CASE m.kind # "volume_share"
    BY <1>1, <2>2 DEF FillableQuantity
  <2>. QED
    BY <2>1, <2>2
<1>3. /\ RoundLot(capped) \in Nat /\ RoundLot(capped) <= capped /\ RoundLot(capped) % Lot = 0
  <2> HIDE DEF capped
  <2>1. /\ capped \div Lot \in Nat /\ (capped \div Lot) * Lot <= capped
    BY <1>2
  <2>2. \A k \in Nat : k * Lot \in Nat /\ (k * Lot) % Lot = 0
    OBVIOUS
  <2>. QED
    BY <2>1, <2>2 DEF RoundLot
<1>4. q = CASE capped >= Remaining -> Remaining
            [] capped < Remaining /\ (~setup.partials \/ order.tif = "FOK") -> 0
            [] OTHER -> RoundLot(capped)
  BY DEF Fillable
<1>5. 0 % Lot = 0
  OBVIOUS
<1> HIDE DEF capped, q, m
<1>6. CASE capped >= Remaining
  <2>1. q = Remaining /\ q = capped
    BY <1>1, <1>2, <1>4, <1>6
  <2>. QED
    BY <1>1, <1>2, <2>1 DEF q, m
<1>7. CASE capped < Remaining /\ (~setup.partials \/ order.tif = "FOK")
  <2>1. q = 0
    BY <1>1, <1>2, <1>4, <1>7
  <2>2. m.kind = "volume_share" => 0 <= m.share * bar.volume
    BY <1>2, BarFacts
  <2>. QED
    BY <1>1, <1>5, <2>1, <2>2 DEF q, m
<1>8. CASE capped < Remaining /\ setup.partials /\ order.tif # "FOK"
  <2>1. q = RoundLot(capped)
    BY <1>1, <1>2, <1>4, <1>8
  <2>2. q \in 0..Remaining /\ q <= capped /\ q % Lot = 0
    BY <1>1, <1>2, <1>3, <2>1
  <2>3. m.kind = "volume_share" => 100 * q <= m.share * bar.volume
    <3>1. m.kind = "volume_share" => m.share * bar.volume \in Int
      BY <1>2, BarFacts
    <3>. QED
      BY <1>2, <2>2, <3>1
  <2>. QED
    BY <1>8, <2>2, <2>3 DEF q, m
<1>. QED
  BY <1>1, <1>2, <1>6, <1>7, <1>8

(* ReferenceTraded and NoFreeMoney of a fill, by the bar it was made on.    *)
StartedFrom(f, bar) ==
  /\ ~setup.gapImprovement => bar.low <= f.level /\ f.level <= bar.high
  /\ IF f.level > 0 THEN f.reference = f.level
     ELSE \/ bar.low <= f.reference /\ f.reference <= bar.high
          \/ f.quote # Nothing /\ f.quote.bid <= f.reference /\ f.reference <= f.quote.ask
          \/ f.reference = f.print
BaseOn(f, bar) ==
  CASE f.level > 0 -> f.reference
    [] f.level = 0 /\ IsBuy(order) -> WithinLimit(Lower(f.reference, bar.high))
    [] OTHER -> WithinLimit(Higher(f.reference, bar.low))
NoBetter(f, base) ==
  /\ IF IsBuy(order) THEN f.price > base - Tick ELSE f.price < base + Tick
  /\ OnGrid(base) => IF IsBuy(order) THEN f.price >= base ELSE f.price <= base

(* What the price that replaces a level of zero is held to: the bar, then  *)
(* the limit.                                                              *)
LEMMA HeldToTheMarket ==
  ASSUME order \in Tickets, NEW bar \in Bars, NEW x \in Nat, NEW level \in Nat,
         AcceptsPrice(order, level), IF IsBuy(order) THEN level <= bar.high ELSE bar.low <= level
  PROVE  LET base == WithinLimit(IF IsBuy(order) THEN Lower(x, bar.high) ELSE Higher(x, bar.low))
         IN /\ base \in Nat /\ AcceptsPrice(order, base)
            /\ IF IsBuy(order) THEN base <= x /\ base <= bar.high ELSE x <= base /\ bar.low <= base
<1> DEFINE held == IF IsBuy(order) THEN Lower(x, bar.high) ELSE Higher(x, bar.low)
<1>1. /\ held \in Nat
      /\ IF IsBuy(order) THEN held <= x /\ held <= bar.high ELSE x <= held /\ bar.low <= held
  BY BarFacts DEF Lower, Higher
<1> HIDE DEF held
<1>2. order.limit # Nothing => order.limit \in Nat
  BY TicketFacts
<1>3. WithinLimit(held) = IF AcceptsPrice(order, held) THEN held ELSE order.limit
  BY DEF WithinLimit
<1>4. CASE AcceptsPrice(order, held)
  BY <1>1, <1>3, <1>4 DEF held
<1>5. CASE ~AcceptsPrice(order, held)
  <2>1. /\ order.limit \in Nat /\ WithinLimit(held) = order.limit
        /\ IF IsBuy(order) THEN held > order.limit ELSE held < order.limit
    BY <1>1, <1>2, <1>3, <1>5 DEF AcceptsPrice
  <2>2. AcceptsPrice(order, order.limit)
    BY <2>1 DEF AcceptsPrice
  <2>. QED
    BY <1>1, <2>1, <2>2, BarFacts DEF held
<1>. QED
  BY <1>4, <1>5

(* What is priced and charged when an order trades (_build_fill). *)
LEMMA Built ==
  ASSUME setup \in Setups, order \in Tickets, NEW bar \in Bars \cup {Nothing}, NEW chain \in Chains \cup {Nothing},
         Trade(bar).quantity > 0
  PROVE  LET t    == Trade(bar)
             f    == BuildFill(bar, chain, t.level, t.quantity)
             half == HalfOf(f.quote)
         IN /\ bar \in Bars
            /\ t.quantity = Fillable(bar) /\ t.quantity \in 1..Remaining
            /\ f.at = Now + 1 /\ f.quantity = t.quantity /\ f.level = t.level
            /\ f.context.before = order.filled
            /\ f.quote = QuoteUsed(setup.price, bar, chain, t.level) /\ f.quote \in Books \cup {Nothing}
            /\ f.level \in Nat /\ f.reference \in Nat /\ f.price \in Nat /\ f.slippage \in Nat
            /\ StartedFrom(f, bar)
            /\ order.type = "STOP" => StoppedOut(order, bar, f.level)
            /\ bar.high > bar.low => IF IsBuy(order) THEN f.price <= bar.high + half
                                                     ELSE f.price >= bar.low - half
            /\ AcceptsPrice(order, f.price)
            /\ OnGrid(f.price) \/ f.price = order.limit
            /\ setup.selection # "BEST" => NoBetter(f, BaseOn(f, bar))
<1> DEFINE t     == Trade(bar)
           v     == t.level
           f     == BuildFill(bar, chain, v, t.quantity)
           quote == QuoteUsed(setup.price, bar, chain, v)
           asked == Resolve(setup.price, quote, bar, chain, setup.selection, order)
           r     == IF v > 0 THEN v ELSE asked
           base  == BaseOn(f, bar)
           used  == IF bar.quote # Nothing THEN bar.quote ELSE quote
           slip  == SlippagePerUnit(setup.slippage, r, t.quantity, bar, used)
           adj   == SpreadAdjustment(quote, setup.selection, order)
           sign  == IF IsBuy(order) THEN 1 ELSE -1
           p     == r + adj + sign * slip
<1>1. v = Reference(order, bar, setup.timing, setup.gapImprovement)
      /\ t.quantity = IF v = Nothing THEN 0 ELSE Fillable(bar)
  BY DEF Trade
<1>2. v # Nothing /\ t.quantity = Fillable(bar) /\ t.quantity > 0
  BY <1>1
<1> HIDE DEF t, v
<1>3. /\ bar \in Bars
      /\ v \in Nat /\ AcceptsPrice(order, v)
      /\ IF IsBuy(order) THEN v <= bar.high ELSE bar.low <= v
      /\ ~setup.gapImprovement => bar.low <= v /\ v <= bar.high
      /\ order.type = "STOP" => StoppedOut(order, bar, v)
  BY <1>1, <1>2, ReferencePriced
<1>4. Fillable(bar) \in 0..Remaining /\ Remaining \in Nat
  BY <1>3, Absorbed, TicketFacts DEF Remaining
<1>5. t.quantity \in 1..Remaining /\ t.quantity \in Nat
  BY <1>2, <1>4
<1>6. quote \in Books \cup {Nothing}
  BY <1>3, SetupFacts, BookOfAFill
<1>7. used \in Books \cup {Nothing}
  BY <1>3, <1>6, BarFacts
<1>8. /\ asked \in Nat
      /\ \/ bar.low <= asked /\ asked <= bar.high
         \/ quote # Nothing /\ quote.bid <= asked /\ asked <= quote.ask
         \/ chain # Nothing /\ asked = chain.print
  BY <1>3, <1>6, SetupFacts, PriceAskedFor
<1> HIDE DEF quote, used, asked
<1>9. r \in Nat
  BY <1>3, <1>8
<1>10. r = IF v > 0 THEN v ELSE asked
  OBVIOUS
<1> HIDE DEF r
<1>11. slip \in Nat
  BY <1>3, <1>5, <1>7, <1>9, SetupFacts, SlippageIsACost
<1>12. adj \in Int /\ (setup.selection # "BEST" => IF IsBuy(order) THEN adj >= 0 ELSE adj <= 0)
  BY <1>6, SpreadIsACost
<1> HIDE DEF slip, adj
<1>13. p \in Int /\ (setup.selection # "BEST" => IF IsBuy(order) THEN r <= p ELSE p <= r)
  BY <1>9, <1>11, <1>12
<1>14. /\ f.at = Now + 1 /\ f.quantity = t.quantity /\ f.level = v /\ f.reference = r
       /\ f.context.before = order.filled /\ f.quote = quote
       /\ f.print = IF chain = Nothing THEN Nothing ELSE chain.print
       /\ f.price = Settle(p, order, bar, quote) /\ f.slippage = slip
  BY DEF BuildFill, p, adj, slip, used, quote, sign, r, asked
<1> HIDE DEF f, p
<1>15. /\ f.price \in Nat
       /\ bar.high > bar.low => IF IsBuy(order) THEN f.price <= bar.high + HalfOf(quote)
                                                ELSE f.price >= bar.low - HalfOf(quote)
       /\ AcceptsPrice(order, f.price)
       /\ OnGrid(f.price) \/ f.price = order.limit
  BY <1>3, <1>6, <1>13, <1>14, SettledInTheMarket
<1>16. StartedFrom(f, bar)
  BY <1>3, <1>8, <1>10, <1>14 DEF StartedFrom
<1>17. /\ base \in Nat /\ AcceptsPrice(order, base)
       /\ IF IsBuy(order) THEN base <= r /\ base <= bar.high ELSE r <= base /\ bar.low <= base
  <2>1. CASE v > 0
    BY <1>3, <1>10, <1>14, <2>1 DEF BaseOn
  <2>2. CASE v = 0
    <3>1. base = WithinLimit(IF IsBuy(order) THEN Lower(r, bar.high) ELSE Higher(r, bar.low))
      BY <1>14, <2>2 DEF BaseOn
    <3>. QED
      BY <1>3, <1>9, <3>1, HeldToTheMarket
  <2>. QED
    BY <1>3, <2>1, <2>2
<1> HIDE DEF base
<1>18. setup.selection # "BEST" => NoBetter(f, base)
  <2>1. setup.selection # "BEST" =>
          LET s == Settle(p, order, bar, quote)
          IN /\ IF IsBuy(order) THEN s > base - Tick ELSE s < base + Tick
             /\ OnGrid(base) => IF IsBuy(order) THEN s >= base ELSE s <= base
    <3>1. setup.selection # "BEST" => IF IsBuy(order) THEN base <= p ELSE p <= base
      BY <1>9, <1>13, <1>17
    <3>. QED
      BY <1>3, <1>6, <1>13, <1>17, <3>1, SettledNoBetter
  <2>. QED
    BY <1>14, <2>1 DEF NoBetter
<1>. QED
  BY <1>2, <1>3, <1>5, <1>6, <1>9, <1>11, <1>14, <1>15, <1>16, <1>18 DEF f, v, t, quote, base

(***************************************************************************)
(* One step.                                                               *)
(***************************************************************************)
LEMMA AppendedTo ==
  ASSUME NEW s, s \in Seq({s[i] : i \in DOMAIN s}), NEW x
  PROVE  LET t == Append(s, x)
         IN /\ t \in Seq({t[i] : i \in DOMAIN t})
            /\ Len(t) = Len(s) + 1 /\ Len(s) \in Nat
            /\ DOMAIN s = 1..Len(s) /\ DOMAIN t = 1..Len(s) + 1
            /\ \A i \in 1..Len(s) : t[i] = s[i]
            /\ t[Len(s) + 1] = x
<1> DEFINE S == {s[i] : i \in DOMAIN s}
           T == S \cup {x}
           t == Append(s, x)
<1>1. s \in Seq(T) /\ x \in T
  <2>1. Len(s) \in Nat /\ DOMAIN s = 1..Len(s) /\ s \in [1..Len(s) -> S]
    BY DEF S
  <2> HIDE DEF S
  <2>2. s \in [1..Len(s) -> T]
    BY <2>1
  <2>. QED
    BY <2>1, <2>2
<1> HIDE DEF T
<1>2. /\ t \in Seq(T) /\ Len(t) = Len(s) + 1 /\ Len(s) \in Nat
      /\ DOMAIN s = 1..Len(s) /\ DOMAIN t = 1..Len(s) + 1
      /\ \A i \in 1..Len(s) : t[i] = s[i]
      /\ t[Len(s) + 1] = x
  BY <1>1
<1> HIDE DEF t
<1>3. t \in Seq({t[i] : i \in DOMAIN t})
  <2> DEFINE R == {t[i] : i \in DOMAIN t}
  <2>1. Len(t) \in Nat /\ DOMAIN t = 1..Len(t) /\ t = [i \in 1..Len(t) |-> t[i]]
    BY <1>2
  <2>2. \A i \in 1..Len(t) : t[i] \in R
    BY <2>1
  <2> HIDE DEF R
  <2>3. t \in [1..Len(t) -> R]
    BY <2>1, <2>2
  <2>4. t \in UNION {[1..n -> R] : n \in Nat}
    BY <2>1, <2>3
  <2>. QED
    BY <2>4, SeqDef DEF R
<1>. QED
  BY <1>2, <1>3 DEF t

LEMMA Ratcheted ==
  ASSUME order \in Tickets, NEW bar \in Bars
  PROVE  /\ order.trailing = Nothing => Ratchet(bar) = order.stop
         /\ order.trailing # Nothing => Ratchet(bar) \in Nat
         /\ order.trailing # Nothing => Ratchet(bar) \in {order.stop, Trailed(bar)}
<1>1. CASE order.trailing = Nothing
  BY <1>1 DEF Ratchet
<1>2. CASE order.trailing # Nothing
  <2>1. order.trailing \in Nat /\ order.stop \in Nat
    BY <1>2, TicketFacts
  <2>2. 100 + order.trailing \in Nat /\ 100 - order.trailing \in Int
    BY <2>1
  <2>3. bar.low \in Nat /\ bar.high \in Int
    BY BarFacts
  <2>4. Pct(bar.low, 100 + order.trailing) \in Nat
    BY <2>2, <2>3, PercentOfNat
  <2>5. Pct(bar.high, 100 - order.trailing) \in Int
    BY <2>2, <2>3, Percent
  <2>. QED
    BY <1>2, <2>1, <2>4, <2>5 DEF Ratchet, Trailed, Higher, Lower
<1>. QED
  BY <1>1, <1>2

(* What a step may change of the order, and what it leaves alone. *)
SameTicket(a, b) ==
  /\ a.side = b.side /\ a.type = b.type /\ a.limit = b.limit /\ a.initial = b.initial
  /\ a.quantity = b.quantity /\ a.tif = b.tif /\ a.trailing = b.trailing
  /\ a.option = b.option /\ a.reduceOnly = b.reduceOnly
MovedTo(filled, open, stop) == [order EXCEPT !.filled = filled, !.open = open, !.stop = stop]

LEMMA Moved ==
  ASSUME order \in Tickets, NEW bar \in Bars \cup {Nothing},
         NEW filled \in order.filled..order.quantity, NEW open \in BOOLEAN,
         NEW stop, stop = order.stop \/ (bar # Nothing /\ stop = Ratchet(bar))
  PROVE  LET o == MovedTo(filled, open, stop)
         IN /\ o \in Tickets /\ SameTicket(o, order)
            /\ o.filled = filled /\ o.open = open /\ o.stop = stop
<1> DEFINE o == MovedTo(filled, open, stop)
           Fields == [side : {"BUY", "SELL"}, type : {"MARKET", "MARKET_ON_CLOSE", "LIMIT", "STOP", "STOP_LIMIT"},
                      limit : Nat \cup {Nothing}, stop : Nat \cup {Nothing}, initial : Nat \cup {Nothing},
                      quantity : Nat \ {0}, tif : {"DAY", "GTC", "GTD", "IOC", "FOK"},
                      trailing : Nat \cup {Nothing}, option : BOOLEAN, reduceOnly : BOOLEAN,
                      filled : Nat, open : BOOLEAN]
<1>1. order \in Fields
  BY DEF Tickets
<1>2. stop = order.stop \/ (order.trailing # Nothing /\ stop \in Nat)
  BY Ratcheted
<1>3. filled \in Nat /\ filled <= order.quantity
  BY TicketFacts
<1>4. stop \in Nat \cup {Nothing}
  BY <1>2, TicketFacts
<1>5. o \in Fields /\ SameTicket(o, order) /\ o.filled = filled /\ o.open = open /\ o.stop = stop
  BY <1>1, <1>3, <1>4 DEF SameTicket, MovedTo
<1> HIDE DEF Fields, o
<1>6. /\ o.limit # Nothing <=> o.type \in {"LIMIT", "STOP_LIMIT"}
      /\ o.trailing # Nothing => o.type = "STOP"
  BY <1>5 DEF SameTicket, Tickets
<1>7. /\ o.type \in {"STOP", "STOP_LIMIT"} => o.stop # Nothing
      /\ o.initial # Nothing <=> o.stop # Nothing
  <2>1. CASE stop = order.stop
    BY <2>1, <1>5 DEF SameTicket, Tickets
  <2>2. CASE order.trailing # Nothing /\ stop \in Nat
    BY <2>2, <1>5, TicketFacts DEF SameTicket
  <2>. QED
    BY <1>2, <2>1, <2>2
<1>8. o.filled <= o.quantity
  BY <1>3, <1>5 DEF SameTicket
<1>9. o \in Tickets
  BY <1>5, <1>6, <1>7, <1>8 DEF Tickets, Fields
<1>. QED
  BY <1>5, <1>9 DEF o

LEMMA OneStep ==
  ASSUME Recorded, NEW snapshot \in Snapshots, WorkOrder(snapshot)
  PROVE  LET bar   == MarketBar(snapshot)
             chain == OptionQuote(snapshot)
             t     == Trade(bar)
             f     == BuildFill(bar, chain, t.level, t.quantity)
         IN /\ bar \in Bars \cup {Nothing} /\ chain \in Chains \cup {Nothing}
            /\ setup' = setup /\ order' \in Tickets /\ SameTicket(order', order)
            /\ order'.stop = order.stop \/ (bar # Nothing /\ order'.stop = Ratchet(bar))
            /\ \/ fills' = fills /\ order'.filled = order.filled /\ (NoFill(bar) \/ Refuse(bar, chain))
               \/ /\ fills' = Append(fills, f) /\ t.quantity > 0 /\ Fill(bar, chain)
                  /\ order'.filled = order.filled + t.quantity
                  /\ order'.open => t.quantity < Remaining
<1> DEFINE bar   == MarketBar(snapshot)
           chain == OptionQuote(snapshot)
           t     == Trade(bar)
           f     == BuildFill(bar, chain, t.level, t.quantity)
<1>1. bar \in Bars \cup {Nothing} /\ chain \in Chains \cup {Nothing}
  BY WhatAStepBrings
<1>2. NoFill(bar) \/ Refuse(bar, chain) \/ Fill(bar, chain)
  BY DEF WorkOrder
<1>3. order \in Tickets /\ setup \in Setups
  BY DEF Recorded
<1>4. order.filled \in order.filled..order.quantity
  BY <1>3, TicketFacts
<1>5. \A o : [order EXCEPT !.open = o] = [order EXCEPT !.filled = order.filled, !.open = o, !.stop = order.stop]
  BY <1>3 DEF Tickets
<1>6. \A o, s : [order EXCEPT !.open = o, !.stop = s] = [order EXCEPT !.filled = order.filled, !.open = o, !.stop = s]
  BY <1>3 DEF Tickets
<1> HIDE DEF bar, chain
<1>7. CASE NoFill(bar)
  <2> DEFINE s == IF bar = Nothing THEN order.stop ELSE Ratchet(bar)
             o == ~IsOneShot
  <2>1. fills' = fills /\ setup' = setup /\ order' = MovedTo(order.filled, o, s)
    BY <1>6, <1>7 DEF NoFill, MovedTo
  <2>2. s = order.stop \/ (bar # Nothing /\ s = Ratchet(bar))
    OBVIOUS
  <2>3. o \in BOOLEAN
    OBVIOUS
  <2> HIDE DEF s, o
  <2>4. order' \in Tickets /\ SameTicket(order', order) /\ order'.filled = order.filled /\ order'.stop = s
    BY <1>1, <1>3, <1>4, <2>1, <2>2, <2>3, Moved
  <2>. QED
    BY <1>1, <1>7, <2>1, <2>2, <2>4 DEF bar, chain
<1>8. CASE Refuse(bar, chain)
  <2> DEFINE o == FALSE
  <2>1. fills' = fills /\ setup' = setup /\ order' = MovedTo(order.filled, o, order.stop)
    BY <1>5, <1>8 DEF Refuse, MovedTo
  <2>0. o \in BOOLEAN
    OBVIOUS
  <2> HIDE DEF o
  <2>2. order' \in Tickets /\ SameTicket(order', order) /\ order'.filled = order.filled /\ order'.stop = order.stop
    BY <1>1, <1>3, <1>4, <2>1, <2>0, Moved
  <2>. QED
    BY <1>1, <1>8, <2>1, <2>2 DEF bar, chain
<1>9. CASE Fill(bar, chain)
  <2> DEFINE filled == order.filled + t.quantity
             open == Remaining > t.quantity /\ ~IsOneShot /\ setup.carry
             s    == IF open THEN Ratchet(bar) ELSE order.stop
  <2>1. /\ t.quantity > 0 /\ fills' = Append(fills, f) /\ setup' = setup
        /\ order' = MovedTo(filled, open, s)
    BY <1>9 DEF Fill, MovedTo
  <2>2. bar \in Bars /\ t.quantity \in 1..Remaining
    BY <1>1, <1>3, <2>1, Built
  <2>3. bar # Nothing
    <3> SUFFICES ASSUME bar = Nothing PROVE FALSE
      OBVIOUS
    <3>1. Reference(order, bar, setup.timing, setup.gapImprovement) = Nothing
      BY DEF Reference
    <3>2. t.quantity = 0
      BY <3>1 DEF Trade
    <3>. QED
      BY <2>1, <3>2
  <2>4. s = order.stop \/ (bar # Nothing /\ s = Ratchet(bar))
    BY <2>3
  <2>5. filled \in order.filled..order.quantity
    BY <1>3, <2>2, TicketFacts DEF Remaining
  <2>6. open \in BOOLEAN /\ (open => t.quantity < Remaining)
    BY <1>3, <2>2, TicketFacts DEF Remaining
  <2>8. open \in BOOLEAN
    OBVIOUS
  <2> DEFINE o == MovedTo(filled, open, s)
  <2>9. order' = o
    BY <2>1
  <2> HIDE DEF s, open, filled, t, f
  <2>10. o \in Tickets /\ SameTicket(o, order) /\ o.filled = filled /\ o.open = open /\ o.stop = s
    BY <1>1, <1>3, <2>4, <2>5, <2>8, Moved
  <2> HIDE DEF o
  <2>7. /\ order' \in Tickets /\ SameTicket(order', order) /\ order'.filled = filled
        /\ order'.open = open /\ order'.stop = s
    BY <2>9, <2>10
  <2>. QED
    BY <1>1, <1>9, <2>1, <2>4, <2>6, <2>7 DEF bar, chain, t, f, filled
<1>. QED
  BY <1>2, <1>7, <1>8, <1>9 DEF bar, chain

LEMMA SeenGrows ==
  ASSUME Recorded, NEW snapshot \in Snapshots, WorkOrder(snapshot)
  PROVE  /\ seen' \in Seq(Bars \cup {Nothing}) /\ Now \in Nat /\ Now' = Now + 1
         /\ \A i \in 1..Now : seen'[i] = seen[i]
         /\ seen'[Now + 1] = MarketBar(snapshot)
<1> DEFINE bar == MarketBar(snapshot)
           S   == Bars \cup {Nothing}
<1>1. bar \in S
  BY WhatAStepBrings
<1>2. seen' = Append(seen, bar) /\ seen \in Seq(S)
  BY DEF WorkOrder, Recorded
<1> HIDE DEF bar, S
<1>3. /\ seen' \in Seq(S) /\ Len(seen) \in Nat /\ Len(seen') = Len(seen) + 1
      /\ \A i \in 1..Len(seen) : seen'[i] = seen[i]
      /\ seen'[Len(seen) + 1] = bar
  BY <1>1, <1>2
<1>. QED
  BY <1>3 DEF S, bar, Now

(* After a step a fill is an old one, with the bar it was made on, or the   *)
(* one just built.                                                          *)
OldFill(i) ==
  /\ i \in DOMAIN fills /\ fills'[i] = fills[i]
  /\ fills[i].at \in 1..Now /\ BarOf(fills[i]) \in Bars
  /\ seen'[fills[i].at] = BarOf(fills[i])
NewFill(i, snapshot) ==
  LET bar == MarketBar(snapshot)
      t   == Trade(bar)
      f   == BuildFill(bar, OptionQuote(snapshot), t.level, t.quantity)
  IN /\ i = Len(fills) + 1 /\ t.quantity > 0 /\ fills'[i] = f
     /\ f.at = Now + 1 /\ seen'[f.at] = bar /\ bar \in Bars

LEMMA FillsAfter ==
  ASSUME Recorded, NEW snapshot \in Snapshots, WorkOrder(snapshot)
  PROVE  /\ \A i \in DOMAIN fills' : OldFill(i) \/ NewFill(i, snapshot)
         /\ fills' \in Seq({fills'[i] : i \in DOMAIN fills'})
<1> DEFINE bar   == MarketBar(snapshot)
           chain == OptionQuote(snapshot)
           t     == Trade(bar)
           f     == BuildFill(bar, chain, t.level, t.quantity)
<1>1. /\ bar \in Bars \cup {Nothing} /\ chain \in Chains \cup {Nothing}
      /\ fills' = fills \/ (fills' = Append(fills, f) /\ t.quantity > 0)
  BY OneStep
<1>2. /\ Now \in Nat /\ \A i \in 1..Now : seen'[i] = seen[i]
      /\ seen'[Now + 1] = bar
  BY SeenGrows
<1>3. t.quantity > 0 => f.at = Now + 1 /\ bar \in Bars
  <2>1. setup \in Setups /\ order \in Tickets
    BY DEF Recorded
  <2>. QED
    BY <1>1, <2>1, Built
<1> HIDE DEF bar, chain, t, f
<1>4. \A i \in DOMAIN fills : fills'[i] = fills[i] => OldFill(i)
  BY <1>2 DEF OldFill, Recorded, BarOf
<1>5. fills \in Seq({fills[i] : i \in DOMAIN fills})
  BY DEF Recorded
<1>6. CASE fills' = fills
  BY <1>4, <1>5, <1>6
<1>7. CASE fills' = Append(fills, f) /\ t.quantity > 0
  <2> DEFINE u == Append(fills, f)
  <2>1. /\ u \in Seq({u[i] : i \in DOMAIN u})
        /\ DOMAIN fills = 1..Len(fills) /\ DOMAIN u = 1..Len(fills) + 1 /\ Len(fills) \in Nat
        /\ \A i \in 1..Len(fills) : u[i] = fills[i]
        /\ u[Len(fills) + 1] = f
    BY <1>5, AppendedTo
  <2>2. fills' = u
    BY <1>7
  <2> HIDE DEF u
  <2>3. fills' \in Seq({fills'[i] : i \in DOMAIN fills'})
    BY <2>1, <2>2
  <2>4. \A i \in 1..Len(fills) : OldFill(i)
    BY <1>4, <2>1, <2>2
  <2>5. NewFill(Len(fills) + 1, snapshot)
    BY <1>2, <1>3, <1>7, <2>1, <2>2 DEF NewFill, bar, chain, t, f
  <2>6. DOMAIN fills' = 1..Len(fills) \cup {Len(fills) + 1}
    BY <2>1, <2>2
  <2>. QED
    BY <2>3, <2>4, <2>5, <2>6
<1>. QED
  BY <1>1, <1>6, <1>7

LEMMA RecordedStep ==
  ASSUME Recorded, NEW snapshot \in Snapshots, WorkOrder(snapshot)
  PROVE  Recorded'
<1>1. setup' = setup /\ order' \in Tickets
  BY OneStep
<1>2. /\ seen' \in Seq(Bars \cup {Nothing}) /\ Now \in Nat /\ Now' = Now + 1
  BY SeenGrows
<1>3. counts' \in [synthetic : Nat, uncosted : Nat, partial : Nat]
  <2>1. counts \in [synthetic : Nat, uncosted : Nat, partial : Nat]
    BY DEF Recorded
  <2>2. \A q, p : Counted(q, p) \in [synthetic : Nat, uncosted : Nat, partial : Nat]
    BY <2>1 DEF Counted
  <2>4. \A bar : NoFill(bar) => counts' = counts
    BY DEF NoFill
  <2>5. \A bar, chain : Refuse(bar, chain) => \E q, p : counts' = Counted(q, p)
    BY DEF Refuse
  <2>6. \A bar, chain : Fill(bar, chain) => \E q, p : counts' = Counted(q, p)
    BY DEF Fill
  <2>3. counts' = counts \/ \E q, p : counts' = Counted(q, p)
    BY <2>4, <2>5, <2>6 DEF WorkOrder
  <2>. QED
    BY <2>1, <2>2, <2>3
<1>4. \A i \in DOMAIN fills' : fills'[i].at \in 1..Now + 1 /\ seen'[fills'[i].at] \in Bars
  <2> SUFFICES ASSUME NEW i \in DOMAIN fills'
               PROVE  fills'[i].at \in 1..Now + 1 /\ seen'[fills'[i].at] \in Bars
    OBVIOUS
  <2>1. CASE OldFill(i)
    BY <1>2, <2>1 DEF OldFill
  <2>2. CASE NewFill(i, snapshot)
    BY <1>2, <2>2 DEF NewFill
  <2>. QED
    BY <2>1, <2>2, FillsAfter
<1>5. fills' \in Seq({fills'[i] : i \in DOMAIN fills'})
  BY FillsAfter
<1>6. period' \in [month : Nat, volume : Nat]
  <2> DEFINE bar == MarketBar(snapshot)
             chain == OptionQuote(snapshot)
             t == Trade(bar)
  <2>1. period \in [month : Nat, volume : Nat] /\ setup \in Setups /\ order \in Tickets
    BY DEF Recorded
  <2>2. PeriodVolume \in Nat
    BY <2>1 DEF PeriodVolume
  <2>3. Month(Now) \in Nat
    <3>1. BarsPerMonth \in Nat \ {0}
      BY FillPricingAssumption
    <3>. QED
      BY <1>2, <3>1 DEF Month
  <2>4. bar \in Bars \cup {Nothing} /\ chain \in Chains \cup {Nothing}
    BY WhatAStepBrings
  <2>5. NoFill(bar) \/ Refuse(bar, chain) \/ Fill(bar, chain)
    BY DEF WorkOrder
  <2> HIDE DEF bar, chain, t
  <2>6. CASE NoFill(bar) \/ Refuse(bar, chain)
    BY <2>1, <2>6 DEF NoFill, Refuse
  <2>7. CASE Fill(bar, chain)
    <3>1. period' = [month |-> Month(Now), volume |-> PeriodVolume + t.quantity] /\ t.quantity > 0
      BY <2>7 DEF Fill, t
    <3>2. t.quantity \in 1..Remaining
      BY <2>1, <2>4, <3>1, Built DEF t
    <3>3. PeriodVolume + t.quantity \in Nat
      BY <2>2, <3>2
    <3>. QED
      BY <2>3, <3>1, <3>3
  <2>. QED
    BY <2>5, <2>6, <2>7
<1>. QED
  BY <1>1, <1>2, <1>3, <1>4, <1>5, <1>6 DEF Recorded, BarOf

LEMMA TypedStep ==
  ASSUME Recorded, NEW snapshot \in Snapshots, WorkOrder(snapshot), TypeOK
  PROVE  TypeOK'
<1>1. setup \in Setups /\ order \in Tickets
  BY DEF Recorded
<1>2. order' \in Tickets
  BY OneStep
<1>3. order'.filled \in 0..order'.quantity /\ order'.open \in BOOLEAN /\ order'.stop \in Nat \cup {Nothing}
  <2>1. order'.open \in BOOLEAN
    BY <1>2 DEF Tickets
  <2>. QED
    BY <1>2, <2>1, TicketFacts
<1>4. period'.month \in Nat /\ period'.volume \in Nat
  BY RecordedStep DEF Recorded
<1>5. ASSUME NEW i \in DOMAIN fills'
      PROVE  /\ fills'[i].price \in Nat /\ fills'[i].quantity \in Nat \ {0}
             /\ fills'[i].slippage \in Nat
  <2>1. CASE OldFill(i)
    BY <2>1 DEF OldFill, TypeOK
  <2>2. CASE NewFill(i, snapshot)
    <3> DEFINE bar == MarketBar(snapshot)
               t   == Trade(bar)
               f   == BuildFill(bar, OptionQuote(snapshot), t.level, t.quantity)
    <3>1. bar \in Bars \cup {Nothing} /\ OptionQuote(snapshot) \in Chains \cup {Nothing}
      BY WhatAStepBrings
    <3>2. t.quantity > 0 /\ fills'[i] = f
      BY <2>2 DEF NewFill
    <3>3. f.price \in Nat /\ f.quantity = t.quantity /\ t.quantity \in 1..Remaining /\ f.slippage \in Nat
      BY <1>1, <3>1, <3>2, Built
    <3>4. Remaining \in Int
      BY <1>1, TicketFacts DEF Remaining
    <3> HIDE DEF f, t, bar
    <3>5. t.quantity \in Nat \ {0}
      BY <3>3, <3>4
    <3>. QED
      BY <3>2, <3>3, <3>5
  <2>. QED
    BY <2>1, <2>2, FillsAfter
<1>. QED
  BY <1>3, <1>4, <1>5 DEF TypeOK

(* The conjuncts about one fill: what Built says of the new one, and the   *)
(* terms of the order that stay what they were for the others.             *)
LEMMA PricedStep ==
  ASSUME Recorded, NEW snapshot \in Snapshots, WorkOrder(snapshot),
         ReferenceTraded, NeverBeyondTheMarket, NoFreeMoney
  PROVE  ReferenceTraded' /\ NeverBeyondTheMarket' /\ NoFreeMoney'
<1>1. setup' = setup /\ SameTicket(order', order)
  BY OneStep
<1>2. /\ IsBuy(order') = IsBuy(order) /\ order'.limit = order.limit
      /\ \A p : AcceptsPrice(order', p) = AcceptsPrice(order, p)
  BY <1>1 DEF SameTicket, IsBuy, AcceptsPrice
<1>3. setup \in Setups /\ order \in Tickets
  BY DEF Recorded
<1> SUFFICES ASSUME NEW i \in DOMAIN fills'
             PROVE  LET f    == fills'[i]
                        bar  == seen'[f.at]
                        half == HalfOf(f.quote)
                    IN /\ StartedFrom(f, bar)
                       /\ bar.high > bar.low => IF IsBuy(order) THEN f.price <= bar.high + half
                                                                ELSE f.price >= bar.low - half
                       /\ AcceptsPrice(order, f.price)
                       /\ OnGrid(f.price) \/ f.price = order.limit
                       /\ setup.selection # "BEST" => NoBetter(f, BaseOn(f, bar))
  <2>1. ReferenceTraded'
    BY <1>1, <1>2 DEF ReferenceTraded, Quoted, StartedFrom, BarOf
  <2>2. NeverBeyondTheMarket'
    BY <1>1, <1>2 DEF NeverBeyondTheMarket, BarOf, HalfOf
  <2>3. NoFreeMoney'
    BY <1>1, <1>2 DEF NoFreeMoney, Base, BaseOn, NoBetter, WithinLimit, BarOf
  <2>. QED
    BY <2>1, <2>2, <2>3
<1>4. CASE OldFill(i)
  <2> DEFINE f == fills[i]
  <2>1. i \in DOMAIN fills /\ fills'[i] = f /\ seen'[f.at] = BarOf(f)
    BY <1>4 DEF OldFill
  <2>2. StartedFrom(f, BarOf(f))
    BY <2>1 DEF ReferenceTraded, Quoted, StartedFrom
  <2>3. setup.selection # "BEST" => NoBetter(f, BaseOn(f, BarOf(f)))
    BY <2>1 DEF NoFreeMoney, Base, BaseOn, NoBetter
  <2>4. LET half == HalfOf(f.quote)
            bar  == BarOf(f)
        IN /\ bar.high > bar.low => IF IsBuy(order) THEN f.price <= bar.high + half
                                                    ELSE f.price >= bar.low - half
           /\ AcceptsPrice(order, f.price)
           /\ OnGrid(f.price) \/ f.price = order.limit
    BY <2>1 DEF NeverBeyondTheMarket, HalfOf
  <2> HIDE DEF f
  <2>. QED
    BY <2>1, <2>2, <2>3, <2>4
<1>5. CASE NewFill(i, snapshot)
  <2>1. MarketBar(snapshot) \in Bars \cup {Nothing} /\ OptionQuote(snapshot) \in Chains \cup {Nothing}
    BY WhatAStepBrings
  <2> DEFINE bar == MarketBar(snapshot)
             t   == Trade(bar)
             f   == BuildFill(bar, OptionQuote(snapshot), t.level, t.quantity)
  <2>2. t.quantity > 0 /\ fills'[i] = f /\ seen'[f.at] = bar
    BY <1>5 DEF NewFill
  <2>3. LET half == HalfOf(f.quote)
        IN /\ StartedFrom(f, bar)
           /\ bar.high > bar.low => IF IsBuy(order) THEN f.price <= bar.high + half
                                                    ELSE f.price >= bar.low - half
           /\ AcceptsPrice(order, f.price)
           /\ OnGrid(f.price) \/ f.price = order.limit
           /\ setup.selection # "BEST" => NoBetter(f, BaseOn(f, bar))
    BY <1>3, <2>1, <2>2, Built
  <2> HIDE DEF f, bar
  <2>. QED
    BY <2>2, <2>3
<1>. QED
  BY <1>4, <1>5, FillsAfter

LEMMA CapStep ==
  ASSUME Recorded, NEW snapshot \in Snapshots, WorkOrder(snapshot), FirstLook, CapRespected
  PROVE  FirstLook' /\ CapRespected'
<1> DEFINE bar == MarketBar(snapshot)
           t   == Trade(bar)
           atOnce == order.tif = "FOK" \/ ~setup.partials
<1>1. setup' = setup /\ SameTicket(order', order) /\ order' \in Tickets
  BY OneStep
<1>2. setup \in Setups /\ order \in Tickets /\ order.open
  BY DEF Recorded, WorkOrder
<1>3. order.filled \in Nat /\ order.quantity \in Nat
  BY <1>2, TicketFacts
<1>4. bar \in Bars \cup {Nothing} /\ OptionQuote(snapshot) \in Chains \cup {Nothing}
  BY WhatAStepBrings
<1>5. t.quantity > 0 =>
        /\ bar \in Bars /\ t.quantity \in 1..Remaining
        /\ setup.slippage.kind = "volume_share" => 100 * t.quantity <= setup.slippage.share * bar.volume
        /\ t.quantity < Remaining => t.quantity % Lot = 0
        /\ atOnce => t.quantity = Remaining
  <2> SUFFICES ASSUME t.quantity > 0
               PROVE  /\ bar \in Bars /\ t.quantity \in 1..Remaining
                      /\ setup.slippage.kind = "volume_share" =>
                           100 * t.quantity <= setup.slippage.share * bar.volume
                      /\ t.quantity < Remaining => t.quantity % Lot = 0
                      /\ atOnce => t.quantity = Remaining
    OBVIOUS
  <2>1. bar \in Bars /\ t.quantity = Fillable(bar) /\ t.quantity \in 1..Remaining
    BY <1>2, <1>4, Built
  <2> HIDE DEF bar, t
  <2>2. /\ setup.slippage.kind = "volume_share" => 100 * t.quantity <= setup.slippage.share * bar.volume
        /\ t.quantity < Remaining => t.quantity % Lot = 0
        /\ atOnce => t.quantity \in {0, Remaining}
    BY <1>2, <2>1, Absorbed
  <2>. QED
    BY <2>1, <2>2
<1> HIDE DEF atOnce
<1>6. FirstLook'
  <2>1. atOnce => order.filled = 0
    BY <1>2 DEF FirstLook, atOnce
  <2>2. atOnce => order'.filled = 0 \/ ~order'.open
    <3>1. CASE order'.filled = order.filled
      BY <2>1, <3>1
    <3>2. CASE t.quantity > 0 /\ (order'.open => t.quantity < Remaining)
      <4>1. atOnce => ~(t.quantity < Remaining)
        BY <1>5, <3>2
      <4>. QED
        BY <4>1, <3>2
    <3>3. \/ order'.filled = order.filled
          \/ t.quantity > 0 /\ (order'.open => t.quantity < Remaining)
      BY OneStep
    <3>. QED
      BY <3>1, <3>2, <3>3
  <2>. QED
    BY <1>1, <2>2 DEF FirstLook, atOnce, SameTicket
<1>7. CapRespected'
  <2> SUFFICES ASSUME NEW i \in DOMAIN fills'
               PROVE  LET f == fills'[i] IN
                      /\ setup.slippage.kind = "volume_share" =>
                           100 * f.quantity <= setup.slippage.share * seen'[f.at].volume
                      /\ f.quantity < order.quantity - f.context.before => f.quantity % Lot = 0
                      /\ order.tif = "FOK" \/ ~setup.partials => f.quantity = order.quantity
    BY <1>1 DEF CapRespected, BarOf, SameTicket
  <2>1. CASE OldFill(i)
    BY <2>1 DEF OldFill, CapRespected, BarOf
  <2>2. CASE NewFill(i, snapshot)
    <3> DEFINE f == fills'[i]
    <3>1. /\ t.quantity > 0 /\ seen'[f.at] = bar
          /\ f.quantity = t.quantity /\ f.context.before = order.filled
      <4>1. t.quantity > 0
        BY <2>2 DEF NewFill
      <4>2. LET g == BuildFill(bar, OptionQuote(snapshot), t.level, t.quantity)
            IN g.quantity = t.quantity /\ g.context.before = order.filled
        BY <1>2, <1>4, <4>1, Built
      <4>. QED
        BY <2>2, <4>1, <4>2 DEF NewFill
    <3> HIDE DEF f, bar, t
    <3>2. /\ setup.slippage.kind = "volume_share" =>
                           100 * f.quantity <= setup.slippage.share * seen'[f.at].volume
          /\ f.quantity < order.quantity - f.context.before => f.quantity % Lot = 0
      BY <1>5, <3>1 DEF Remaining
    <3>3. atOnce => f.quantity = order.quantity
      <4>1. atOnce => order.filled = 0
        BY <1>2 DEF FirstLook, atOnce
      <4>2. atOnce => f.quantity = order.quantity - order.filled
        BY <1>5, <3>1 DEF Remaining
      <4>. QED
        BY <1>3, <4>1, <4>2
    <3>. QED
      BY <3>2, <3>3 DEF f, atOnce
  <2>. QED
    BY <2>1, <2>2, FillsAfter
<1>. QED
  BY <1>6, <1>7

(* Every fill on a side of the book is counted once: as priced off a real   *)
(* one, off a made-up one, or off none.                                     *)
LEMMA CountedStep ==
  ASSUME Recorded, NEW snapshot \in Snapshots, WorkOrder(snapshot), AssumptionsCounted
  PROVE  AssumptionsCounted'
<1> DEFINE bar    == MarketBar(snapshot)
           chain  == OptionQuote(snapshot)
           t      == Trade(bar)
           f      == BuildFill(bar, chain, t.level, t.quantity)
           Real(q) == q # Nothing /\ q.real
           ofReal == {i \in DOMAIN fills : Real(fills[i].quote)}
           ofRealNext == {i \in DOMAIN fills' : Real(fills'[i].quote)}
<1>1. setup' = setup
  BY OneStep
<1> SUFFICES ASSUME setup.selection \in SpreadSensitive, ~setup.realOnly
             PROVE  \/ Cardinality(ofRealNext) + counts'.synthetic + counts'.uncosted = Len(fills')
                    \/ /\ setup.price.kind = "ohlc" /\ ~order'.open
                       /\ Cardinality(ofRealNext) + counts'.synthetic + counts'.uncosted = Len(fills') + 1
  BY <1>1 DEF AssumptionsCounted
<1>2. Len(fills) = Cardinality(ofReal) + counts.synthetic + counts.uncosted
  BY DEF AssumptionsCounted, WorkOrder
<1>3. /\ fills \in Seq({fills[i] : i \in DOMAIN fills})
      /\ counts.synthetic \in Nat /\ counts.uncosted \in Nat
  BY DEF Recorded
<1>4. Len(fills) \in Nat /\ DOMAIN fills = 1..Len(fills)
  BY <1>3
<1>5. IsFiniteSet(ofReal) /\ Cardinality(ofReal) \in Nat
  <2>1. ofReal \subseteq 1..Len(fills) /\ IsFiniteSet(1..Len(fills))
    BY <1>4, FS_Interval
  <2> HIDE DEF ofReal
  <2>. QED
    BY <2>1, FS_Subset, FS_CardinalityType
<1>6. CASE Refuse(bar, chain)
  <2> DEFINE quote == QuoteUsed(setup.price, bar, chain, t.level)
             n     == Cardinality(ofReal)
  <2>1. /\ setup.price.kind = "ohlc"
        /\ order' = [order EXCEPT !.open = FALSE] /\ fills' = fills
        /\ counts' = Counted(quote, FALSE)
    BY <1>6 DEF Refuse, Refuses
  <2>2. quote = Nothing
    BY <2>1 DEF QuoteUsed
  <2> HIDE DEF quote
  <2>3. counts'.synthetic = counts.synthetic + 0 /\ counts'.uncosted = counts.uncosted + 1
    BY <2>1, <2>2 DEF Counted
  <2>4. ~order'.open
    <3>1. order \in Tickets
      BY DEF Recorded
    <3>. QED
      BY <2>1, <3>1 DEF Tickets
  <2>5. ofRealNext = ofReal
    BY <2>1
  <2>6. n \in Nat /\ Len(fills) = n + counts.synthetic + counts.uncosted
    BY <1>2, <1>5
  <2> HIDE DEF ofReal, ofRealNext, n
  <2>7. n + counts'.synthetic + counts'.uncosted = Len(fills) + 1
    BY <1>3, <2>3, <2>6
  <2>. QED
    BY <2>1, <2>4, <2>5, <2>7 DEF n
<1>7. CASE NoFill(bar)
  <2>1. fills' = fills /\ counts' = counts
    BY <1>7 DEF NoFill
  <2>. QED
    BY <1>2, <2>1
<1>8. CASE Fill(bar, chain)
  <2> DEFINE u == Append(fills, f)
             Add(p) == IF p THEN 1 ELSE 0
             made == f.quote # Nothing /\ ~f.quote.real
             none == f.quote = Nothing
  <2>1. fills' = u /\ counts' = Counted(f.quote, t.quantity < Remaining)
    BY <1>8 DEF Fill
  <2>2. /\ counts'.synthetic = counts.synthetic + Add(made)
        /\ counts'.uncosted = counts.uncosted + Add(none)
    BY <2>1 DEF Counted
  <2> HIDE DEF f, t
  <2>3. /\ DOMAIN u = 1..Len(fills) + 1 /\ Len(u) = Len(fills) + 1
        /\ \A i \in 1..Len(fills) : u[i] = fills[i]
        /\ u[Len(fills) + 1] = f
    BY <1>3, AppendedTo
  <2> HIDE DEF u
  <2>4. ofRealNext = IF Real(f.quote) THEN ofReal \cup {Len(fills) + 1} ELSE ofReal
    <3>1. DOMAIN u = DOMAIN fills \cup {Len(fills) + 1} /\ Len(fills) + 1 \notin DOMAIN fills
      BY <1>4, <2>3
    <3>. QED
      BY <1>4, <2>1, <2>3, <3>1
  <2>5. Len(fills) + 1 \notin ofReal
    BY <1>4
  <2> HIDE DEF ofReal, ofRealNext, Real
  <2>6. Cardinality(ofRealNext) = Cardinality(ofReal) + Add(Real(f.quote))
    <3>1. CASE Real(f.quote)
      BY <1>5, <2>4, <2>5, <3>1, FS_AddElement
    <3>2. CASE ~Real(f.quote)
      BY <1>5, <2>4, <3>2
    <3>. QED
      BY <3>1, <3>2
  <2>7. Add(Real(f.quote)) + Add(made) + Add(none) = 1
    BY DEF Real
  <2>8. Add(Real(f.quote)) \in Nat /\ Add(made) \in Nat /\ Add(none) \in Nat
    OBVIOUS
  <2> DEFINE a == Add(Real(f.quote))
             b == Add(made)
             c == Add(none)
             n == Cardinality(ofReal)
             m == Cardinality(ofRealNext)
  <2>9. /\ a \in Nat /\ b \in Nat /\ c \in Nat /\ n \in Nat /\ a + b + c = 1 /\ m = n + a
        /\ counts'.synthetic = counts.synthetic + b /\ counts'.uncosted = counts.uncosted + c
        /\ Len(fills) = n + counts.synthetic + counts.uncosted
    BY <1>2, <1>5, <2>2, <2>6, <2>7, <2>8
  <2>10. Len(fills') = Len(fills) + 1
    BY <2>1, <2>3
  <2> HIDE DEF a, b, c, n, m
  <2>11. Len(fills') = m + counts'.synthetic + counts'.uncosted
    <3>1. \A l, s, v \in Nat : l = n + s + v => l + 1 = (n + a) + (s + b) + (v + c)
      BY <2>9
    <3>2. Len(fills) + 1 = (n + a) + (counts.synthetic + b) + (counts.uncosted + c)
      BY <1>3, <1>4, <2>9, <3>1
    <3>. QED
      BY <2>9, <2>10, <3>2
  <2>. QED
    BY <2>11 DEF m
<1>. QED
  BY <1>6, <1>7, <1>8 DEF WorkOrder

(***************************************************************************)
(* Trailing stops.                                                         *)
(***************************************************************************)
LEMMA MaxOfBounded ==
  ASSUME NEW S \in SUBSET Int, S # {}, NEW m \in Int, \A x \in S : x <= m
  PROVE  Max(S) \in S /\ \A x \in S : x <= Max(S)
<1> DEFINE gaps  == {d \in Nat : m - d \in S}
           least == Min(gaps)
<1>1. gaps \in SUBSET Nat /\ gaps # {}
  <2>1. PICK x \in S : TRUE
    OBVIOUS
  <2>2. m - x \in Nat /\ m - (m - x) = x
    BY <2>1
  <2>. QED
    BY <2>1, <2>2
<1>2. least \in gaps /\ \A d \in gaps : least <= d
  <2> HIDE DEF gaps
  <2>. QED
    BY <1>1, MinOfNaturals
<1> HIDE DEF least
<1>3. m - least \in S
  BY <1>2
<1>4. \A x \in S : x <= m - least
  <2> SUFFICES ASSUME NEW x \in S PROVE x <= m - least
    OBVIOUS
  <2>1. m - x \in gaps
    <3>1. m - x \in Nat /\ m - (m - x) = x
      OBVIOUS
    <3>. QED
      BY <3>1
  <2>2. least \in Nat /\ least <= m - x
    BY <1>2, <2>1
  <2>. QED
    BY <2>2
<1>5. \E x \in S : \A y \in S : x >= y
  BY <1>3, <1>4
<1>6. Max(S) \in S /\ \A y \in S : Max(S) >= y
  BY <1>5, Zenon DEF Max
<1>. QED
  BY <1>6

LEMMA FiniteImageIsBounded ==
  ASSUME NEW n \in Nat, NEW f \in [1..n -> Int]
  PROVE  \E m \in Int : \A i \in 1..n : f[i] <= m
<1> DEFINE Upper(k, m) == \A i \in 1..k : f[i] <= m
           S == {k \in 0..n : \E m \in Int : Upper(k, m)}
<1>1. 0 \in S
  <2>1. Upper(0, 0)
    OBVIOUS
  <2>. QED
    BY <2>1
<1>2. \A k \in 0..n - 1 : k \in S => k + 1 \in S
  <2> SUFFICES ASSUME NEW k \in 0..n - 1, \E m \in Int : Upper(k, m)
               PROVE  \E x \in Int : Upper(k + 1, x)
    <3>1. \A k \in 0..n - 1 : k + 1 \in 0..n
      OBVIOUS
    <3> HIDE DEF Upper
    <3>. QED
      BY <3>1
  <2>0. PICK m \in Int : Upper(k, m)
    OBVIOUS
  <2>1. f[k + 1] \in Int
    OBVIOUS
  <2> DEFINE x == IF f[k + 1] >= m THEN f[k + 1] ELSE m
  <2>2. x \in Int /\ m <= x /\ f[k + 1] <= x
    BY <2>1
  <2> HIDE DEF x
  <2>3. Upper(k + 1, x)
    <3> SUFFICES ASSUME NEW i \in 1..k + 1 PROVE f[i] <= x
      OBVIOUS
    <3>1. CASE i = k + 1
      BY <2>2, <3>1
    <3>2. CASE i \in 1..k
      <4>1. f[i] <= m /\ f[i] \in Int
        BY <2>0, <3>2
      <4>. QED
        BY <4>1, <2>2
    <3>. QED
      BY <3>1, <3>2
  <2>. QED
    BY <2>2, <2>3
<1>3. 0..n \subseteq S
  <2> HIDE DEF S
  <2>. QED
    BY <1>1, <1>2, InductionUpTo
<1>4. n \in S
  <2> HIDE DEF S
  <2>. QED
    BY <1>3
<1>. QED
  BY <1>4

(* StopsBefore, of any sequence of bars. *)
StopsIn(s, i) == {order.initial} \cup {Trailed(s[j]) : j \in {k \in 1..i - 1 : s[k] # Nothing}}

LEMMA TrailedLevel ==
  ASSUME order \in Tickets, order.trailing # Nothing, NEW bar \in Bars
  PROVE  Trailed(bar) \in Int /\ (IsBuy(order) => Trailed(bar) \in Nat)
<1>1. order.trailing \in Nat
  BY TicketFacts
<1>2. 100 + order.trailing \in Nat /\ 100 - order.trailing \in Int
  BY <1>1
<1>3. bar.low \in Nat /\ bar.high \in Int
  BY BarFacts
<1>4. Pct(bar.low, 100 + order.trailing) \in Nat
  BY <1>2, <1>3, PercentOfNat
<1>5. Pct(bar.high, 100 - order.trailing) \in Int
  BY <1>2, <1>3, Percent
<1>. QED
  BY <1>4, <1>5 DEF Trailed

(* The highest stop of a long, the lowest of a short: none is beyond it. *)
LEMMA OutermostStop ==
  ASSUME order \in Tickets, order.trailing # Nothing,
         NEW s \in Seq(Bars \cup {Nothing}), NEW n \in 0..Len(s), NEW stop \in StopsIn(s, n + 1)
  PROVE  LET stops == StopsIn(s, n + 1)
         IN /\ stop \in Int
            /\ IsBuy(order)  => Min(stops) \in Int /\ Min(stops) <= stop
            /\ ~IsBuy(order) => Max(stops) \in Int /\ stop <= Max(stops)
<1> DEFINE stops == StopsIn(s, n + 1)
           level(j) == IF s[j] = Nothing THEN order.initial ELSE Trailed(s[j])
           f == [j \in 1..n |-> level(j)]
<1>1. Len(s) \in Nat /\ n \in Nat /\ (n + 1) - 1 = n /\ order.initial \in Nat
  BY TicketFacts
<1>2. \A j \in 1..n : level(j) \in Int /\ (IsBuy(order) => level(j) \in Nat)
  <2> SUFFICES ASSUME NEW j \in 1..n, s[j] # Nothing
               PROVE  Trailed(s[j]) \in Int /\ (IsBuy(order) => Trailed(s[j]) \in Nat)
    BY <1>1
  <2>1. s[j] \in Bars
    <3>1. j \in 1..Len(s)
      BY <1>1
    <3>. QED
      BY <3>1
  <2>. QED
    BY <2>1, TrailedLevel
<1> HIDE DEF level
<1>3. f \in [1..n -> Int]
  BY <1>2
<1> HIDE DEF f
<1>4. PICK m \in Int : \A j \in 1..n : f[j] <= m
  BY <1>1, <1>3, FiniteImageIsBounded
<1>5. \A j \in 1..n : f[j] = level(j)
  BY DEF f
<1>6. \A x \in stops : x = order.initial \/ \E j \in 1..n : x = level(j)
  BY <1>1 DEF StopsIn, level
<1>7. \A x \in stops : x \in Int /\ (IsBuy(order) => x \in Nat)
  BY <1>1, <1>2, <1>6
<1> DEFINE top == IF order.initial >= m THEN order.initial ELSE m
<1>8. top \in Int /\ order.initial <= top /\ m <= top
  BY <1>1
<1> HIDE DEF top
<1>9. \A x \in stops : x <= top
  <2> SUFFICES ASSUME NEW x \in stops PROVE x <= top
    OBVIOUS
  <2> HIDE DEF stops
  <2>1. CASE x = order.initial
    BY <2>1, <1>8
  <2>2. ASSUME NEW j \in 1..n, x = level(j) PROVE x <= top
    <3>1. x <= m /\ x \in Int
      BY <1>2, <1>4, <1>5, <2>2
    <3>. QED
      BY <3>1, <1>8
  <2>. QED
    BY <1>6, <2>1, <2>2
<1>10. stop \in stops
  OBVIOUS
<1> HIDE DEF stops
<1>11. IsBuy(order) => Min(stops) \in Int /\ Min(stops) <= stop
  <2> SUFFICES ASSUME IsBuy(order) PROVE Min(stops) \in Int /\ Min(stops) <= stop
    OBVIOUS
  <2>1. stops \in SUBSET Nat /\ stops # {}
    BY <1>7, <1>10
  <2>2. Min(stops) \in stops /\ \A x \in stops : Min(stops) <= x
    BY <2>1, MinOfNaturals
  <2>. QED
    BY <1>7, <1>10, <2>2
<1>12. Max(stops) \in Int /\ stop <= Max(stops)
  <2>1. stops \in SUBSET Int /\ stops # {}
    BY <1>7, <1>10
  <2>2. Max(stops) \in stops /\ \A x \in stops : x <= Max(stops)
    BY <1>8, <1>9, <2>1, MaxOfBounded
  <2>. QED
    BY <1>7, <1>10, <2>2
<1>. QED
  BY <1>7, <1>10, <1>11, <1>12 DEF stops

(* TrailsFromBehind, of a fill at a level on a bar, and the stops before it. *)
Behind(bar, level, stops) ==
  IF IsBuy(order) THEN bar.high >= Min(stops) /\ level >= Min(stops)
                  ELSE bar.low <= Max(stops) /\ level <= Max(stops)

LEMMA TrailStep ==
  ASSUME Recorded, NEW snapshot \in Snapshots, WorkOrder(snapshot), StopWasSet, TrailsFromBehind
  PROVE  StopWasSet' /\ TrailsFromBehind'
<1> DEFINE bar == MarketBar(snapshot)
           t   == Trade(bar)
<1>1. SameTicket(order', order) /\ (order'.stop = order.stop \/ (bar # Nothing /\ order'.stop = Ratchet(bar)))
  BY OneStep
<1>2. setup \in Setups /\ order \in Tickets /\ seen \in Seq(Bars \cup {Nothing})
  BY DEF Recorded
<1>3. /\ Now \in Nat /\ Now' = Now + 1 /\ (\A i \in 1..Now : seen'[i] = seen[i])
      /\ seen'[Now + 1] = bar
  BY SeenGrows
<1>4. bar \in Bars \cup {Nothing} /\ OptionQuote(snapshot) \in Chains \cup {Nothing}
  BY WhatAStepBrings
<1>5. IsBuy(order') = IsBuy(order) /\ order'.initial = order.initial /\ order'.trailing = order.trailing
  BY <1>1 DEF SameTicket, IsBuy
<1> HIDE DEF bar
<1> SUFFICES ASSUME order.trailing # Nothing
             PROVE  StopWasSet' /\ TrailsFromBehind'
  BY <1>5 DEF StopWasSet, TrailsFromBehind
<1>6. order.trailing \in Nat /\ order.initial \in Nat /\ order.type = "STOP"
  BY <1>2, TicketFacts
<1>7. order.stop \in StopsIn(seen, Now + 1)
  BY DEF StopWasSet, StopsBefore, StopsIn
<1>8. StopWasSet'
  <2> DEFINE next == StopsIn(seen', (Now + 1) + 1)
  <2>1. order.stop \in next
    <3>1. StopsIn(seen, Now + 1) \subseteq StopsIn(seen', (Now + 1) + 1)
      BY <1>3 DEF StopsIn
    <3>. QED
      BY <1>7, <3>1
  <2>2. bar # Nothing => Trailed(bar) \in next
    <3>1. Now + 1 \in 1..((Now + 1) + 1) - 1
      BY <1>3
    <3>. QED
      BY <1>3, <3>1 DEF StopsIn
  <2> HIDE DEF next
  <2>3. order'.stop \in next
    <3>1. CASE order'.stop = order.stop
      BY <2>1, <3>1
    <3>2. CASE bar # Nothing /\ order'.stop = Ratchet(bar)
      <4>1. Ratchet(bar) \in {order.stop, Trailed(bar)}
        BY <1>2, <1>4, <3>2, Ratcheted
      <4>. QED
        BY <2>1, <2>2, <3>2, <4>1
    <3>. QED
      BY <1>1, <3>1, <3>2
  <2>4. StopsBefore(Now + 1)' = StopsIn(seen', (Now + 1) + 1)
    BY <1>3, <1>5 DEF StopsBefore, StopsIn, Trailed
  <2>. QED
    BY <1>5, <2>3, <2>4 DEF StopWasSet, next
<1>9. TrailsFromBehind'
  <2> SUFFICES ASSUME NEW i \in DOMAIN fills'
               PROVE  LET f == fills'[i] IN Behind(seen'[f.at], f.level, StopsIn(seen', f.at))
    <3>1. \A i \in DOMAIN fills' : StopsBefore(fills[i].at)' = StopsIn(seen', fills'[i].at)
      BY <1>5 DEF StopsBefore, StopsIn, Trailed
    <3>. QED
      BY <1>5, <3>1 DEF TrailsFromBehind, BarOf, Behind
  <2> DEFINE f == fills'[i]
  <2>1. f.at \in 1..Now + 1 => StopsIn(seen', f.at) = StopsIn(seen, f.at)
    <3> HIDE DEF f
    <3> SUFFICES ASSUME f.at \in 1..Now + 1
                 PROVE  StopsIn(seen', f.at) = StopsIn(seen, f.at)
      OBVIOUS
    <3>1. \A j \in 1..f.at - 1 : seen'[j] = seen[j]
      BY <1>3
    <3>. QED
      BY <3>1 DEF StopsIn
  <2>2. CASE OldFill(i)
    <3>1. /\ i \in DOMAIN fills /\ f = fills[i] /\ f.at \in 1..Now + 1
          /\ seen'[f.at] = seen[f.at]
      BY <1>3, <2>2 DEF OldFill, BarOf
    <3>2. Behind(seen[f.at], f.level, StopsIn(seen, f.at))
      BY <3>1 DEF TrailsFromBehind, BarOf, Behind, StopsBefore, StopsIn
    <3>. QED
      BY <2>1, <3>1, <3>2
  <2>3. CASE NewFill(i, snapshot)
    <3>1. t.quantity > 0 /\ f.at = Now + 1 /\ seen'[f.at] = bar
      BY <2>3 DEF NewFill, bar
    <3>2. StoppedOut(order, bar, f.level) /\ f.level \in Nat /\ bar \in Bars
      BY <1>2, <1>4, <1>6, <2>3, <3>1, Built DEF NewFill, bar
    <3> DEFINE stops == StopsIn(seen, Now + 1)
    <3>3. /\ order.stop \in Int
          /\ IsBuy(order)  => Min(stops) \in Int /\ Min(stops) <= order.stop
          /\ ~IsBuy(order) => Max(stops) \in Int /\ order.stop <= Max(stops)
      <4>1. Now \in 0..Len(seen)
        BY <1>3 DEF Now
      <4>. QED
        BY <1>2, <1>7, <4>1, OutermostStop
    <3> HIDE DEF stops, f
    <3>4. Behind(bar, f.level, stops)
      BY <3>2, <3>3, BarFacts DEF StoppedOut, Behind
    <3>5. f.at \in 1..Now + 1
      BY <1>3, <3>1
    <3>6. StopsIn(seen', f.at) = stops
      BY <2>1, <3>1, <3>5 DEF stops
    <3>. QED
      BY <3>1, <3>4, <3>6 DEF f
  <2>. QED
    BY <2>2, <2>3, FillsAfter
<1>. QED
  BY <1>8, <1>9

(***************************************************************************)
(* The invariant.                                                          *)
(***************************************************************************)
LEMMA PricingInit == Init => PricingInv
<1> SUFFICES ASSUME Init PROVE PricingInv
  OBVIOUS
<1>1. order \in Tickets /\ order.filled = 0 /\ order.initial = order.stop /\ setup \in Setups
  BY FillPricingAssumption DEF Init
<1>2. seen = <<>> /\ fills = <<>> /\ DOMAIN fills = {} /\ Len(fills) = 0
  BY DEF Init
<1>3. Recorded
  BY <1>1, <1>2 DEF Init, Recorded
<1>4. StopWasSet /\ FirstLook
  BY <1>1 DEF StopWasSet, StopsBefore, FirstLook
<1>5. AssumptionsCounted
  <2>1. {i \in DOMAIN fills : fills[i].quote # Nothing /\ fills[i].quote.real} = {}
    BY <1>2
  <2>2. counts.synthetic = 0 /\ counts.uncosted = 0
    BY DEF Init
  <2>. QED
    BY <1>2, <2>1, <2>2, FS_EmptySet DEF AssumptionsCounted
<1>6. CapRespected /\ ReferenceTraded /\ NeverBeyondTheMarket /\ NoFreeMoney /\ TrailsFromBehind
  BY <1>2 DEF CapRespected, ReferenceTraded, NeverBeyondTheMarket, NoFreeMoney, TrailsFromBehind
<1>7. TypeOK
  <2>1. order.filled \in 0..order.quantity
    BY <1>1, TicketFacts
  <2>2. order.open \in BOOLEAN
    BY <1>1 DEF Tickets
  <2>3. period.month = 0 /\ period.volume = 0
    BY DEF Init
  <2>. QED
    BY <1>1, <1>2, <2>1, <2>2, <2>3, TicketFacts DEF TypeOK
<1>. QED
  BY <1>3, <1>4, <1>5, <1>6, <1>7 DEF PricingInv, PricedFromTheMarket, FillsAreSound

LEMMA PricingNext == PricingInv /\ [Next]_vars => PricingInv'
<1> SUFFICES ASSUME PricingInv, [Next]_vars PROVE PricingInv'
  OBVIOUS
<1>1. CASE Next
  <2>1. PICK snapshot \in Snapshots : WorkOrder(snapshot)
    BY <1>1 DEF Next
  <2>2. /\ Recorded /\ StopWasSet /\ FirstLook /\ TypeOK /\ CapRespected /\ TrailsFromBehind
        /\ ReferenceTraded /\ NeverBeyondTheMarket /\ NoFreeMoney /\ AssumptionsCounted
    BY DEF PricingInv, PricedFromTheMarket, FillsAreSound
  <2>3. Recorded'
    BY <2>1, <2>2, RecordedStep
  <2>4. ReferenceTraded' /\ NeverBeyondTheMarket' /\ NoFreeMoney'
    BY <2>1, <2>2, PricedStep
  <2>5. FirstLook' /\ CapRespected'
    BY <2>1, <2>2, CapStep
  <2>6. AssumptionsCounted'
    BY <2>1, <2>2, CountedStep
  <2>7. StopWasSet' /\ TrailsFromBehind'
    BY <2>1, <2>2, TrailStep
  <2>8. TypeOK'
    BY <2>1, <2>2, TypedStep
  <2>. QED
    BY <2>3, <2>4, <2>5, <2>6, <2>7, <2>8 DEF PricingInv, PricedFromTheMarket, FillsAreSound
<1>2. CASE UNCHANGED vars
  <2>1. setup' = setup /\ order' = order /\ fills' = fills /\ counts' = counts /\ seen' = seen
        /\ period' = period
    BY <1>2 DEF vars
  <2>2. Recorded' /\ StopWasSet' /\ FirstLook' /\ FillsAreSound'
    BY <2>1 DEF PricingInv, FillsAreSound, TypeOK, Recorded, StopWasSet, FirstLook, CapRespected, BarOf,
       StopsBefore, Trailed, Now, IsBuy
  <2>3. ReferenceTraded' /\ NeverBeyondTheMarket' /\ NoFreeMoney' /\ AssumptionsCounted'
    BY <2>1 DEF PricingInv, PricedFromTheMarket, ReferenceTraded, NeverBeyondTheMarket, NoFreeMoney,
       AssumptionsCounted, BarOf, IsBuy, AcceptsPrice, Quoted, Base, WithinLimit
  <2>4. TrailsFromBehind'
    <3>1. \A i \in DOMAIN fills : StopsBefore(fills[i].at)' = StopsBefore(fills[i].at)
      BY <2>1 DEF StopsBefore, Trailed, IsBuy
    <3>. QED
      BY <2>1, <3>1 DEF PricingInv, TrailsFromBehind, BarOf, IsBuy
  <2>. QED
    BY <2>2, <2>3, <2>4 DEF PricingInv, PricedFromTheMarket
<1>. QED
  BY <1>1, <1>2

(* The inductive invariant of FillPricing holds in every reachable state,   *)
(* for every set of orders, bars, books, models and policies.               *)
THEOREM PricingInvariant == Spec => []PricingInv
<1>. QED
  BY PricingInit, PricingNext, PTL DEF Spec

(* Every fill starts from a level its bar traded at or, for a level of      *)
(* zero, from a price that was quoted; it pays its costs within the market  *)
(* and the limit, gains nothing by them, and is counted when its book was   *)
(* assumed (_build_fill, _settle_price).                                    *)
THEOREM AlwaysPricedFromTheMarket == Spec => []PricedFromTheMarket
<1>1. PricingInv => PricedFromTheMarket
  BY DEF PricingInv
<1>. QED
  BY <1>1, PricingInvariant, PTL

(* Prices, quantities and what is left of the order stay in range, no fill  *)
(* takes more of a bar than the participation cap, cut-short fills are      *)
(* whole lots, and an order that must fill at once does (_fillable).        *)
THEOREM FillsStaySound == Spec => []FillsAreSound
<1>1. PricingInv => FillsAreSound
  BY DEF PricingInv
<1>. QED
  BY <1>1, PricingInvariant, PTL

(* A trailing stop trades at the level the bars before put it or beyond: no *)
(* higher for a stop that sells, no lower for one that buys, on a bar that  *)
(* reached it (_ratchet_trailing_stop).                                     *)
THEOREM StopsTrailFromBehind == Spec => []TrailsFromBehind
<1>1. PricingInv => TrailsFromBehind
  BY DEF PricingInv
<1>. QED
  BY <1>1, PricingInvariant, PTL

(***************************************************************************)
(* Sums.  SumFunction adds in an order of its own, by a function over the  *)
(* subsets of the domain: it exists, and takes any element of a subset.    *)
(***************************************************************************)
Selected(s) == CHOOSE x \in s : TRUE
Partial(f) ==
  CHOOSE sum : sum = [s \in SUBSET DOMAIN f |->
                        IF s = {} THEN 0 ELSE f[Selected(s)] + sum[s \ {Selected(s)}]]

LEMMA SumIsPartial ==
  ASSUME NEW f
  PROVE  SumFunction(f) = Partial(f)[DOMAIN f]
  BY DEF SumFunction, SumFunctionOnSet, FoldFunctionOnSet, MapThenFoldSet, Partial, Selected

(* What holds of a subset whenever it holds of the subset less any one of  *)
(* its elements holds of all.                                              *)
LEMMA SubsetInduction ==
  ASSUME NEW D, IsFiniteSet(D), NEW P,
         \A s \in SUBSET D : (\A x \in s : s \ {x} \in P) => s \in P
  PROVE  SUBSET D \subseteq P
<1> SUFFICES ASSUME (SUBSET D) \ P # {}
             PROVE  FALSE
  OBVIOUS
<1> DEFINE sizes == {Cardinality(s) : s \in (SUBSET D) \ P}
           least == Min(sizes)
<1>1. \A s \in SUBSET D : IsFiniteSet(s) /\ Cardinality(s) \in Nat
  BY FS_Subset, FS_CardinalityType
<1>2. sizes \in SUBSET Nat /\ sizes # {}
  BY <1>1
<1>3. PICK s \in (SUBSET D) \ P : Cardinality(s) = least /\ \A n \in sizes : least <= n
  <2>1. least \in sizes /\ \A n \in sizes : least <= n
    <3> HIDE DEF sizes
    <3>. QED
      BY <1>2, MinOfNaturals
  <2> HIDE DEF least
  <2>. QED
    BY <2>1
<1> HIDE DEF least
<1>4. PICK x \in s : s \ {x} \notin P
  <2>1. s \in SUBSET D /\ s \notin P
    BY <1>3
  <2>. QED
    BY <2>1
<1>5. Cardinality(s \ {x}) = Cardinality(s) - 1
  BY <1>1, <1>3, <1>4, FS_RemoveElement
<1>6. s \ {x} \in (SUBSET D) \ P
  BY <1>3, <1>4
<1>7. Cardinality(s \ {x}) \in sizes
  BY <1>6
<1>8. Cardinality(s) <= Cardinality(s \ {x})
  <2> HIDE DEF sizes
  <2>. QED
    BY <1>3, <1>7
<1>. QED
  BY <1>1, <1>3, <1>5, <1>8

LEMMA PartialDef ==
  ASSUME NEW f, IsFiniteSet(DOMAIN f)
  PROVE  Partial(f) = [s \in SUBSET DOMAIN f |->
           IF s = {} THEN 0 ELSE f[Selected(s)] + Partial(f)[s \ {Selected(s)}]]
<1> DEFINE D == DOMAIN f
           Upto(k) == {s \in SUBSET D : Cardinality(s) <= k}
           Step(sum, s) == IF s = {} THEN 0 ELSE f[Selected(s)] + sum[s \ {Selected(s)}]
           IsSum(sum, k) == sum = [s \in Upto(k) |-> Step(sum, s)]
           n == Cardinality(D)
           S == {k \in 0..n : \E sum : IsSum(sum, k)}
<1>1. /\ n \in Nat
      /\ \A s \in SUBSET D : IsFiniteSet(s) /\ Cardinality(s) \in Nat /\ Cardinality(s) <= n
  BY FS_Subset, FS_CardinalityType
<1>2. \A s \in SUBSET D : s # {} => /\ Selected(s) \in s
                                    /\ Cardinality(s \ {Selected(s)}) = Cardinality(s) - 1
  <2> SUFFICES ASSUME NEW s \in SUBSET D, s # {}
               PROVE  Selected(s) \in s /\ Cardinality(s \ {Selected(s)}) = Cardinality(s) - 1
    OBVIOUS
  <2>1. Selected(s) \in s
    BY DEF Selected
  <2>. QED
    BY <1>1, <2>1, FS_RemoveElement
<1>3. 0 \in S
  <2>1. \A s \in Upto(0) : s = {}
    BY <1>1, FS_EmptySet
  <2> DEFINE sum == [s \in Upto(0) |-> 0]
  <2>2. \A s \in Upto(0) : Step(sum, s) = 0
    BY <2>1
  <2>3. IsSum(sum, 0)
    BY <2>2
  <2> HIDE DEF IsSum, sum
  <2>. QED
    BY <1>1, <2>3
<1>4. ASSUME NEW k \in 0..n - 1, k \in S
      PROVE  k + 1 \in S
  <2>1. PICK sum : IsSum(sum, k)
    BY <1>4
  <2> DEFINE next == [s \in Upto(k + 1) |-> Step(sum, s)]
  <2>2. \A s \in Upto(k) : sum[s] = Step(sum, s)
    BY <2>1
  <2>3. \A s \in Upto(k) : s \in Upto(k + 1) /\ next[s] = sum[s]
    <3>1. \A s \in Upto(k) : s \in Upto(k + 1)
      BY <1>1
    <3> HIDE DEF Step, Upto
    <3>. QED
      BY <2>2, <3>1
  <2>4. \A s \in Upto(k + 1) : s # {} => s \ {Selected(s)} \in Upto(k)
    BY <1>1, <1>2
  <2>5. \A s \in Upto(k + 1) : Step(next, s) = Step(sum, s)
    <3> HIDE DEF next, Upto
    <3>. QED
      BY <2>3, <2>4
  <2>6. next = [s \in Upto(k + 1) |-> Step(next, s)]
    <3>1. \A s \in Upto(k + 1) : next[s] = Step(next, s)
      BY <2>5
    <3>2. next = [s \in Upto(k + 1) |-> next[s]]
      OBVIOUS
    <3> HIDE DEF next, Step, Upto
    <3>. QED
      BY <3>1, <3>2
  <2>7. IsSum(next, k + 1)
    BY <2>6
  <2> HIDE DEF IsSum, next
  <2>. QED
    BY <1>1, <1>4, <2>7
<1>5. n \in S
  <2> HIDE DEF S, n
  <2>1. 0..n \subseteq S
    BY <1>1, <1>3, <1>4, InductionUpTo
  <2>. QED
    BY <1>1, <2>1
<1>6. Upto(n) = SUBSET D
  BY <1>1
<1>7. \E sum : IsSum(sum, n)
  BY <1>5
<1>8. \E sum : sum = [s \in SUBSET D |-> Step(sum, s)]
  <2> HIDE DEF Upto
  <2>. QED
    BY <1>6, <1>7
<1>. QED
  BY <1>8 DEF Partial

LEMMA PartialTakesAny ==
  ASSUME NEW f, IsFiniteSet(DOMAIN f), \A i \in DOMAIN f : f[i] \in Int
  PROVE  /\ Partial(f)[{}] = 0
         /\ \A s \in SUBSET DOMAIN f :
              /\ Partial(f)[s] \in Int
              /\ \A x \in s : Partial(f)[s] = f[x] + Partial(f)[s \ {x}]
<1> DEFINE D == DOMAIN f
           sum == Partial(f)
<1>0. IsFiniteSet(D)
  OBVIOUS
<1>1. /\ sum[{}] = 0
      /\ \A s \in SUBSET D : s # {} => /\ Selected(s) \in s
                                       /\ sum[s] = f[Selected(s)] + sum[s \ {Selected(s)}]
  <2> DEFINE Step(s) == IF s = {} THEN 0 ELSE f[Selected(s)] + sum[s \ {Selected(s)}]
  <2>1. sum = [s \in SUBSET D |-> Step(s)]
    BY PartialDef
  <2> HIDE DEF sum
  <2>2. \A s \in SUBSET D : sum[s] = Step(s)
    BY <2>1
  <2>3. \A s : s # {} => Selected(s) \in s
    BY DEF Selected
  <2>. QED
    BY <2>2, <2>3
<1> HIDE DEF sum
<1>2. \A s \in SUBSET D : sum[s] \in Int
  <2> DEFINE P == {s \in SUBSET D : sum[s] \in Int}
  <2>1. ASSUME NEW s \in SUBSET D, \A x \in s : s \ {x} \in P
        PROVE  sum[s] \in Int
    <3>1. CASE s = {}
      BY <1>1, <3>1
    <3>2. CASE s # {}
      <4>1. PICK p \in s : sum[s] = f[p] + sum[s \ {p}]
        BY <1>1, <3>2
      <4>2. sum[s \ {p}] \in Int /\ f[p] \in Int
        BY <2>1
      <4>. QED
        BY <4>1, <4>2
    <3>. QED
      BY <3>1, <3>2
  <2>3. \A s \in SUBSET D : (\A x \in s : s \ {x} \in P) => s \in P
    BY <2>1
  <2>2. SUBSET D \subseteq P
    <3> HIDE DEF P, D
    <3>. QED
      BY <1>0, <2>3, SubsetInduction
  <2>. QED
    BY <2>2
<1>3. \A s \in SUBSET D : \A x \in s : sum[s] = f[x] + sum[s \ {x}]
  <2> DEFINE P == {s \in SUBSET D : \A x \in s : sum[s] = f[x] + sum[s \ {x}]}
  <2>1. ASSUME NEW s \in SUBSET D, \A x \in s : s \ {x} \in P, NEW y \in s
        PROVE  sum[s] = f[y] + sum[s \ {y}]
    <3>1. PICK p \in s : sum[s] = f[p] + sum[s \ {p}]
      BY <1>1
    <3>2. CASE y = p
      BY <3>1, <3>2
    <3>3. CASE y # p
      <4> DEFINE both == s \ {p, y}
      <4>1. (s \ {p}) \ {y} = both /\ (s \ {y}) \ {p} = both
        OBVIOUS
      <4>2. s \ {p} \in P /\ s \ {y} \in P /\ y \in s \ {p} /\ p \in s \ {y}
        BY <2>1, <3>3
      <4>3. sum[s \ {p}] = f[y] + sum[both] /\ sum[s \ {y}] = f[p] + sum[both]
        BY <4>1, <4>2
      <4>4. f[p] \in Int /\ f[y] \in Int /\ sum[both] \in Int
        BY <1>2
      <4>. QED
        BY <3>1, <4>3, <4>4
    <3>. QED
      BY <3>2, <3>3
  <2>2. \A s \in SUBSET D : (\A x \in s : s \ {x} \in P) => s \in P
    BY <2>1
  <2>3. SUBSET D \subseteq P
    <3> HIDE DEF P, D
    <3>. QED
      BY <1>0, <2>2, SubsetInduction
  <2>. QED
    BY <2>3
<1>. QED
  BY <1>1, <1>2, <1>3 DEF sum

LEMMA PartialOfSequence ==
  ASSUME NEW n \in Nat, NEW f \in [1..n -> Int]
  PROVE  /\ Partial(f)[{}] = 0
         /\ \A s \in SUBSET (1..n) :
              /\ Partial(f)[s] \in Int
              /\ \A x \in s : Partial(f)[s] = f[x] + Partial(f)[s \ {x}]
         /\ SumFunction(f) = Partial(f)[1..n]
<1>1. IsFiniteSet(1..n)
  BY FS_Interval
<1>2. IsFiniteSet(DOMAIN f) /\ \A i \in DOMAIN f : f[i] \in Int
  BY <1>1
<1>3. /\ Partial(f)[{}] = 0
      /\ \A s \in SUBSET DOMAIN f :
           /\ Partial(f)[s] \in Int
           /\ \A x \in s : Partial(f)[s] = f[x] + Partial(f)[s \ {x}]
  BY <1>2, PartialTakesAny
<1>. QED
  BY <1>3, SumIsPartial

LEMMA IntervalInduction ==
  ASSUME NEW n \in Nat, NEW P,
         \A s \in SUBSET (1..n) : (\A x \in s : s \ {x} \in P) => s \in P
  PROVE  1..n \in P
<1> DEFINE D == 1..n
<1>1. IsFiniteSet(D)
  BY FS_Interval
<1>2. D \in SUBSET D
  OBVIOUS
<1> HIDE DEF D
<1>3. \A s \in SUBSET D : (\A x \in s : s \ {x} \in P) => s \in P
  BY DEF D
<1>4. SUBSET D \subseteq P
  BY <1>1, <1>3, SubsetInduction
<1>5. D \in P
  BY <1>2, <1>4
<1>. QED
  BY <1>5 DEF D

(* A sequence one number longer adds up to that much more. *)
LEMMA SumOfLonger ==
  ASSUME NEW n \in Nat, NEW f \in [1..n -> Int], NEW g \in [1..n + 1 -> Int],
         \A i \in 1..n : g[i] = f[i]
  PROVE  SumFunction(g) = SumFunction(f) + g[n + 1]
<1> DEFINE a == Partial(f)
           b == Partial(g)
           P == {s \in SUBSET (1..n) : a[s] = b[s]}
<1>0. n + 1 \in Nat
  OBVIOUS
<1>1. 1..n \subseteq 1..n + 1 /\ n + 1 \in 1..n + 1 /\ (1..n + 1) \ {n + 1} = 1..n
  OBVIOUS
<1>2. /\ a[{}] = 0
      /\ \A s \in SUBSET (1..n) : a[s] \in Int /\ \A x \in s : a[s] = f[x] + a[s \ {x}]
  BY PartialOfSequence
<1>3. /\ b[{}] = 0
      /\ \A s \in SUBSET (1..n + 1) : b[s] \in Int /\ \A x \in s : b[s] = g[x] + b[s \ {x}]
  BY <1>0, PartialOfSequence
<1> HIDE DEF a, b
<1>4. 1..n \in P
  <2>1. ASSUME NEW s \in SUBSET (1..n), \A x \in s : s \ {x} \in P
        PROVE  a[s] = b[s]
    <3>1. CASE s = {}
      BY <1>2, <1>3, <3>1
    <3>2. CASE s # {}
      <4>1. PICK x \in s : TRUE
        BY <3>2
      <4>2. a[s] = f[x] + a[s \ {x}] /\ b[s] = g[x] + b[s \ {x}]
        BY <1>1, <1>2, <1>3
      <4>3. a[s \ {x}] = b[s \ {x}] /\ f[x] = g[x]
        BY <2>1
      <4>. QED
        BY <4>2, <4>3
    <3>. QED
      BY <3>1, <3>2
  <2>2. \A s \in SUBSET (1..n) : (\A x \in s : s \ {x} \in P) => s \in P
    BY <2>1
  <2> HIDE DEF P
  <2>. QED
    BY <2>2, IntervalInduction
<1>5. a[1..n] = b[1..n]
  BY <1>4
<1>6. b[1..n + 1] = g[n + 1] + b[1..n] /\ b[1..n] \in Int
  <2> DEFINE all == 1..n + 1
  <2>1. all \in SUBSET (1..n + 1) /\ n + 1 \in all /\ all \ {n + 1} = 1..n
    BY <1>1
  <2> HIDE DEF all
  <2>2. b[all] = g[n + 1] + b[all \ {n + 1}]
    BY <1>3, <2>1
  <2>3. b[1..n] \in Int
    BY <1>1, <1>3
  <2>. QED
    BY <2>1, <2>2, <2>3 DEF all
<1>7. SumFunction(f) = a[1..n] /\ SumFunction(g) = b[1..n + 1]
  BY SumIsPartial DEF a, b
<1>. QED
  BY <1>5, <1>6, <1>7

(* Sums are added element by element, and are not negative if nothing is. *)
LEMMA SumOfSums ==
  ASSUME NEW n \in Nat, NEW f \in [1..n -> Int], NEW g \in [1..n -> Int], NEW h \in [1..n -> Int],
         \A i \in 1..n : f[i] = g[i] + h[i]
  PROVE  SumFunction(f) = SumFunction(g) + SumFunction(h)
<1> DEFINE a == Partial(f)
           b == Partial(g)
           c == Partial(h)
           P == {s \in SUBSET (1..n) : a[s] = b[s] + c[s]}
<1>2. /\ a[{}] = 0
      /\ \A s \in SUBSET (1..n) : a[s] \in Int /\ \A x \in s : a[s] = f[x] + a[s \ {x}]
  BY PartialOfSequence
<1>3. /\ b[{}] = 0
      /\ \A s \in SUBSET (1..n) : b[s] \in Int /\ \A x \in s : b[s] = g[x] + b[s \ {x}]
  BY PartialOfSequence
<1>4. /\ c[{}] = 0
      /\ \A s \in SUBSET (1..n) : c[s] \in Int /\ \A x \in s : c[s] = h[x] + c[s \ {x}]
  BY PartialOfSequence
<1> HIDE DEF a, b, c
<1>5. 1..n \in P
  <2>1. ASSUME NEW s \in SUBSET (1..n), \A x \in s : s \ {x} \in P
        PROVE  a[s] = b[s] + c[s]
    <3>1. CASE s = {}
      BY <1>2, <1>3, <1>4, <3>1
    <3>2. CASE s # {}
      <4>1. PICK x \in s : TRUE
        BY <3>2
      <4>2. a[s] = f[x] + a[s \ {x}] /\ b[s] = g[x] + b[s \ {x}] /\ c[s] = h[x] + c[s \ {x}]
        BY <1>2, <1>3, <1>4
      <4>3. a[s \ {x}] = b[s \ {x}] + c[s \ {x}]
        BY <2>1
      <4>4. /\ f[x] = g[x] + h[x] /\ g[x] \in Int /\ h[x] \in Int
            /\ b[s \ {x}] \in Int /\ c[s \ {x}] \in Int
        BY <1>3, <1>4
      <4>. QED
        BY <4>2, <4>3, <4>4
    <3>. QED
      BY <3>1, <3>2
  <2>2. \A s \in SUBSET (1..n) : (\A x \in s : s \ {x} \in P) => s \in P
    BY <2>1
  <2> HIDE DEF P
  <2>. QED
    BY <2>2, IntervalInduction
<1>6. a[1..n] = b[1..n] + c[1..n]
  BY <1>5
<1>7. SumFunction(f) = a[1..n] /\ SumFunction(g) = b[1..n] /\ SumFunction(h) = c[1..n]
  BY PartialOfSequence DEF a, b, c
<1>. QED
  BY <1>6, <1>7

LEMMA SumOfNats ==
  ASSUME NEW n \in Nat, NEW f \in [1..n -> Nat]
  PROVE  SumFunction(f) \in Nat
<1> DEFINE a == Partial(f)
           P == {s \in SUBSET (1..n) : a[s] \in Nat}
<1>1. f \in [1..n -> Int]
  OBVIOUS
<1>2. a[{}] = 0 /\ \A s \in SUBSET (1..n) : \A x \in s : a[s] = f[x] + a[s \ {x}]
  BY <1>1, PartialOfSequence
<1> HIDE DEF a
<1>3. 1..n \in P
  <2>1. ASSUME NEW s \in SUBSET (1..n), \A x \in s : s \ {x} \in P
        PROVE  a[s] \in Nat
    <3>1. CASE s = {}
      BY <1>2, <3>1
    <3>2. CASE s # {}
      <4>1. PICK x \in s : a[s] = f[x] + a[s \ {x}]
        BY <1>2, <3>2
      <4>2. a[s \ {x}] \in Nat /\ f[x] \in Nat
        BY <2>1
      <4>. QED
        BY <4>1, <4>2
    <3>. QED
      BY <3>1, <3>2
  <2>2. \A s \in SUBSET (1..n) : (\A x \in s : s \ {x} \in P) => s \in P
    BY <2>1
  <2> HIDE DEF P
  <2>. QED
    BY <2>2, IntervalInduction
<1>4. a[1..n] \in Nat
  BY <1>3
<1>. QED
  BY <1>1, <1>4, PartialOfSequence DEF a

(***************************************************************************)
(* What one schedule charges for the parts of an order.                    *)
(***************************************************************************)
(* next is a later part of the order that first is the earlier parts of,   *)
(* and whole is both, at the same price.                                   *)
SplitIn(whole, first, next) ==
  /\ whole \in Contexts /\ first \in Contexts /\ next \in Contexts
  /\ first.quantity > 0 /\ first.before = 0 /\ whole.before = 0
  /\ next.before = first.quantity /\ whole.quantity = first.quantity + next.quantity
  /\ whole.price = first.price /\ next.price = first.price
  /\ whole.side = first.side /\ next.side = first.side
  /\ whole.option = first.option /\ next.option = first.option
  /\ whole.closing = first.closing /\ next.closing = first.closing

(* A charge that grows with the quantity adds up over the parts. *)
LEMMA IncrementsAddUp ==
  ASSUME NEW a \in Nat, NEW b \in Nat, a <= b
  PROVE  /\ Incremental(a, 0) = a /\ Incremental(b, 0) = b
         /\ Incremental(b, a) \in Nat /\ Incremental(b, 0) = Incremental(a, 0) + Incremental(b, a)
  BY DEF Incremental, Higher

LEMMA Products ==
  ASSUME NEW k \in Nat, NEW p \in Nat, NEW q \in Nat, p <= q
  PROVE  k * p \in Nat /\ k * q \in Nat /\ k * p <= k * q
<1>1. q - p \in Nat
  OBVIOUS
<1>2. k * q = k * p + k * (q - p) /\ k * (q - p) \in Nat /\ k * p \in Nat
  BY <1>1
<1>. QED
  BY <1>2

LEMMA ValueOfAUnit ==
  ASSUME NEW c \in Contexts
  PROVE  UnitNotional(c) \in Nat
  BY DEF UnitNotional, Multiplier, Contexts

LEMMA PerShareGrows ==
  ASSUME NEW m \in CommissionModels, m.kind = "per_share", NEW c \in Contexts,
         NEW p \in Nat \ {0}, NEW q \in Nat, p <= q
  PROVE  /\ PerShare(m, c, 0) = 0
         /\ PerShare(m, c, p) \in Nat /\ PerShare(m, c, q) \in Nat
         /\ PerShare(m, c, p) <= PerShare(m, c, q)
<1>1. m.rate \in Nat /\ m.minimum \in Nat /\ m.cap \in Nat \cup {Nothing}
  BY DEF CommissionModels
<1> DEFINE u == UnitNotional(c)
<1>2. u \in Nat
  BY ValueOfAUnit
<1> HIDE DEF u
<1> DEFINE k == m.cap * u
<1>3. m.cap # Nothing => k \in Nat
  BY <1>1, <1>2
<1>4. m.rate * p \in Nat /\ m.rate * q \in Nat /\ m.rate * p <= m.rate * q
  BY <1>1, Products
<1>5. m.cap # Nothing => k * p \in Nat /\ k * q \in Nat /\ k * p <= k * q
  <2> HIDE DEF k
  <2>. QED
    BY <1>3, Products
<1> DEFINE Owed(n, rated, capped) ==
             IF m.cap # Nothing THEN Lower(Higher(rated, m.minimum), capped)
                                ELSE Higher(rated, m.minimum)
<1>6. PerShare(m, c, 0) = 0
  BY DEF PerShare
<1>7. /\ PerShare(m, c, p) = Owed(p, m.rate * p, k * p)
      /\ PerShare(m, c, q) = Owed(q, m.rate * q, k * q)
  BY DEF PerShare, u
<1> HIDE DEF k
<1>8. ASSUME NEW a \in Nat, NEW b \in Nat, NEW e, NEW f, a <= b,
             m.cap # Nothing => e \in Nat /\ f \in Nat /\ e <= f
      PROVE  Owed(p, a, e) \in Nat /\ Owed(q, b, f) \in Nat /\ Owed(p, a, e) <= Owed(q, b, f)
  BY <1>1, <1>8 DEF Lower, Higher
<1> HIDE DEF Owed
<1>. QED
  BY <1>4, <1>5, <1>6, <1>7, <1>8

LEMMA PercentValueGrows ==
  ASSUME NEW m \in CommissionModels, m.kind = "percent_value", NEW c \in Contexts,
         NEW p \in Nat \ {0}, NEW q \in Nat, p <= q
  PROVE  /\ PercentValue(m, c, 0) = 0
         /\ PercentValue(m, c, p) \in Nat /\ PercentValue(m, c, q) \in Nat
         /\ PercentValue(m, c, p) <= PercentValue(m, c, q)
<1>1. m.rate \in Nat /\ m.minimum \in Nat
  BY DEF CommissionModels
<1> DEFINE u == UnitNotional(c)
<1>2. u \in Nat
  BY ValueOfAUnit
<1> HIDE DEF u
<1> DEFINE k == m.rate * u
<1>3. k \in Nat
  BY <1>1, <1>2
<1>4. /\ PercentValue(m, c, 0) = 0
      /\ PercentValue(m, c, p) = Higher(k * p, m.minimum)
      /\ PercentValue(m, c, q) = Higher(k * q, m.minimum)
  BY DEF PercentValue, u
<1> HIDE DEF k
<1>5. k * p \in Nat /\ k * q \in Nat /\ k * p <= k * q
  BY <1>3, Products
<1>. QED
  BY <1>1, <1>4, <1>5 DEF Higher

(* A tier is found: the highest one reached, and the first if none is. *)
LEMMA RateOfATier ==
  ASSUME NEW m \in CommissionModels, m.kind = "tiered", NEW volume
  PROVE  TierRate(m, volume) \in Nat
<1> DEFINE Reached == {i \in DOMAIN m.tiers : \A j \in 1..i : volume >= m.tiers[j].threshold}
           n == Len(m.tiers)
           chosen == CHOOSE i \in Reached : \A j \in Reached : j <= i
           at == IF Reached = {} THEN 1 ELSE chosen
<1>1. m.tiers \in Seq([threshold : Nat, rate : Nat]) /\ m.tiers # <<>>
  BY DEF CommissionModels
<1>2. n \in Nat \ {0} /\ DOMAIN m.tiers = 1..n /\ \A i \in 1..n : m.tiers[i].rate \in Nat
  <2>1. n \in Nat /\ DOMAIN m.tiers = 1..n /\ n # 0
    BY <1>1, EmptySeq
  <2>2. \A i \in 1..n : m.tiers[i] \in [threshold : Nat, rate : Nat]
    BY <1>1, ElementOfSeq
  <2>. QED
    BY <2>1, <2>2
<1>3. Reached # {} => chosen \in Reached
  <2> SUFFICES ASSUME Reached # {} PROVE chosen \in Reached
    OBVIOUS
  <2>1. Reached \in SUBSET Int /\ n \in Int /\ \A i \in Reached : i <= n
    BY <1>2
  <2> HIDE DEF Reached
  <2>2. Max(Reached) \in Reached /\ \A x \in Reached : x <= Max(Reached)
    BY <2>1, MaxOfBounded
  <2>. QED
    BY <2>2
<1>4. at \in 1..n
  BY <1>2, <1>3
<1>5. TierRate(m, volume) = m.tiers[at].rate
  BY DEF TierRate
<1> HIDE DEF at
<1>. QED
  BY <1>2, <1>4, <1>5

LEMMA TieredGrows ==
  ASSUME NEW m \in CommissionModels, m.kind = "tiered", NEW c, NEW p \in Nat \ {0}, NEW q \in Nat, p <= q
  PROVE  /\ Tiered(m, c, 0) = 0
         /\ Tiered(m, c, p) \in Nat /\ Tiered(m, c, q) \in Nat
         /\ Tiered(m, c, p) <= Tiered(m, c, q)
<1> DEFINE k == TierRate(m, c.period)
<1>1. k \in Nat
  BY RateOfATier
<1>2. m.minimum \in Nat
  BY DEF CommissionModels
<1>3. /\ Tiered(m, c, 0) = 0
      /\ Tiered(m, c, p) = Higher(k * p, m.minimum)
      /\ Tiered(m, c, q) = Higher(k * q, m.minimum)
  BY DEF Tiered
<1> HIDE DEF k
<1>4. k * p \in Nat /\ k * q \in Nat /\ k * p <= k * q
  BY <1>1, Products
<1>. QED
  BY <1>2, <1>3, <1>4 DEF Higher

LEMMA CommissionAddsUp ==
  ASSUME NEW m \in CommissionModels, NEW whole, NEW first, NEW next, SplitIn(whole, first, next),
         m.kind = "tiered" =>
           /\ TierRate(m, next.period) = TierRate(m, first.period)
           /\ TierRate(m, whole.period) = TierRate(m, first.period)
  PROVE  /\ Commission(m, first) \in Nat /\ Commission(m, next) \in Nat
         /\ Commission(m, whole) = Commission(m, first) + Commission(m, next)
<1> DEFINE p == first.quantity
           q == first.quantity + next.quantity
<1>1. /\ p \in Nat \ {0} /\ next.quantity \in Nat /\ q \in Nat /\ p <= q /\ p \in Nat
      /\ first.before = 0 /\ whole.before = 0 /\ next.before = p /\ whole.quantity = q
      /\ first.before + first.quantity = p /\ whole.before + whole.quantity = q
      /\ next.before + next.quantity = q
  BY DEF SplitIn, Contexts
<1>2. whole \in Contexts /\ first \in Contexts /\ next \in Contexts
  BY DEF SplitIn
<1>3. UnitNotional(whole) = UnitNotional(first) /\ UnitNotional(next) = UnitNotional(first)
  BY DEF SplitIn, UnitNotional, Multiplier
<1> HIDE DEF q, p
<1>4. ASSUME NEW none, NEW part, NEW all, none = 0, part \in Nat, all \in Nat, part <= all
      PROVE  /\ Incremental(part, none) \in Nat /\ Incremental(all, part) \in Nat
             /\ Incremental(all, none) = Incremental(part, none) + Incremental(all, part)
  BY <1>4, IncrementsAddUp
<1>5. CASE m.kind = "per_share"
  <2>1. \A n : PerShare(m, whole, n) = PerShare(m, first, n) /\ PerShare(m, next, n) = PerShare(m, first, n)
    BY <1>3 DEF PerShare
  <2> DEFINE none == PerShare(m, first, 0)
             part == PerShare(m, first, p)
             all  == PerShare(m, first, q)
  <2>2. none = 0 /\ part \in Nat /\ all \in Nat /\ part <= all
    BY <1>1, <1>2, <1>5, PerShareGrows
  <2>3. /\ Commission(m, first) = Incremental(part, none) /\ Commission(m, next) = Incremental(all, part)
        /\ Commission(m, whole) = Incremental(all, none)
    BY <1>1, <1>5, <2>1 DEF Commission
  <2> HIDE DEF none, part, all
  <2>. QED
    BY <1>4, <2>2, <2>3
<1>6. CASE m.kind = "percent_value"
  <2>1. \A n : /\ PercentValue(m, whole, n) = PercentValue(m, first, n)
               /\ PercentValue(m, next, n) = PercentValue(m, first, n)
    BY <1>3 DEF PercentValue
  <2> DEFINE none == PercentValue(m, first, 0)
             part == PercentValue(m, first, p)
             all  == PercentValue(m, first, q)
  <2>2. none = 0 /\ part \in Nat /\ all \in Nat /\ part <= all
    BY <1>1, <1>2, <1>6, PercentValueGrows
  <2>3. /\ Commission(m, first) = Incremental(part, none) /\ Commission(m, next) = Incremental(all, part)
        /\ Commission(m, whole) = Incremental(all, none)
    BY <1>1, <1>6, <2>1 DEF Commission
  <2> HIDE DEF none, part, all
  <2>. QED
    BY <1>4, <2>2, <2>3
<1>7. CASE m.kind = "tiered"
  <2>1. \A n : Tiered(m, whole, n) = Tiered(m, first, n) /\ Tiered(m, next, n) = Tiered(m, first, n)
    BY <1>7 DEF Tiered
  <2> DEFINE none == Tiered(m, first, 0)
             part == Tiered(m, first, p)
             all  == Tiered(m, first, q)
  <2>2. none = 0 /\ part \in Nat /\ all \in Nat /\ part <= all
    BY <1>1, <1>7, TieredGrows
  <2>3. /\ Commission(m, first) = Incremental(part, none) /\ Commission(m, next) = Incremental(all, part)
        /\ Commission(m, whole) = Incremental(all, none)
    BY <1>1, <1>7, <2>1 DEF Commission
  <2> HIDE DEF none, part, all
  <2>. QED
    BY <1>4, <2>2, <2>3
<1>8. CASE m.kind = "per_trade"
  <2>1. m.fee \in Nat
    BY <1>8 DEF CommissionModels
  <2>2. Commission(m, first) = m.fee /\ Commission(m, whole) = m.fee /\ Commission(m, next) = 0
    BY <1>1, <1>8 DEF Commission, IsFirstFill
  <2>. QED
    BY <2>1, <2>2
<1>9. CASE m.kind = "per_contract"
  <2>1. m.perContract \in Nat /\ m.perOrder \in Nat
    BY <1>9 DEF CommissionModels
  <2> DEFINE waived == m.waiveBelow # Nothing /\ first.closing /\ first.price < m.waiveBelow
             charge(n) == m.perContract * n
  <2>2. /\ Commission(m, first) = IF waived THEN 0 ELSE charge(p) + m.perOrder
        /\ Commission(m, whole) = IF waived THEN 0 ELSE charge(q) + m.perOrder
        /\ Commission(m, next) = IF waived THEN 0 ELSE charge(next.quantity) + 0
    BY <1>1, <1>9 DEF Commission, IsFirstFill, SplitIn, p, q
  <2>3. /\ charge(p) \in Nat /\ charge(next.quantity) \in Nat
        /\ charge(q) = charge(p) + charge(next.quantity)
    BY <1>1, <2>1 DEF q, p
  <2> HIDE DEF waived, charge
  <2>. QED
    BY <2>1, <2>2, <2>3
<1>10. CASE m.kind \in {"regulatory", "zero"}
  BY <1>10 DEF Commission
<1>11. m.kind \in {"per_share", "per_trade", "percent_value", "per_contract", "regulatory", "tiered", "zero"}
  BY DEF CommissionModels
<1>. QED
  BY <1>5, <1>6, <1>7, <1>8, <1>9, <1>10, <1>11

LEMMA FeesAddUp ==
  ASSUME NEW m \in CommissionModels, NEW whole, NEW first, NEW next, SplitIn(whole, first, next)
  PROVE  /\ Fees(m, first) \in Nat /\ Fees(m, next) \in Nat
         /\ Fees(m, whole) = Fees(m, first) + Fees(m, next)
<1> DEFINE p == first.quantity
           n == next.quantity
           q == p + n
           u == UnitNotional(first)
<1>1. /\ p \in Nat \ {0} /\ n \in Nat /\ q \in Nat /\ p <= q /\ p \in Nat
      /\ first.before = 0 /\ whole.before = 0 /\ next.before = p /\ whole.quantity = q
      /\ first.before + first.quantity = p /\ whole.before + whole.quantity = q
      /\ next.before + next.quantity = q
  BY DEF SplitIn, Contexts
<1>2. u \in Nat
  BY ValueOfAUnit DEF SplitIn
<1>3. UnitNotional(whole) = u /\ UnitNotional(next) = u
  BY DEF SplitIn, UnitNotional, Multiplier
<1>4. CASE m.kind # "regulatory"
  BY <1>4 DEF Fees
<1>5. CASE m.kind = "regulatory"
  <2>1. m.sec \in Nat /\ m.taf \in Nat /\ m.tafCap \in Nat /\ m.orf \in Nat
    BY <1>5 DEF CommissionModels
  <2> DEFINE taf(x) == Lower(m.taf * x, m.tafCap)
             rate == m.sec * u
             sec(x) == rate * x
             orf(x) == m.orf * x
             sells == first.side = "SELL"
  <2>2. rate \in Nat
    BY <1>2, <2>1
  <2>3. /\ sec(p) \in Nat /\ sec(n) \in Nat /\ sec(q) = sec(p) + sec(n)
        /\ orf(p) \in Nat /\ orf(n) \in Nat /\ orf(q) = orf(p) + orf(n)
    <3>1. \A k, a, b \in Nat : k * a \in Nat /\ k * b \in Nat /\ k * (a + b) = k * a + k * b
      OBVIOUS
    <3> HIDE DEF rate, p, n
    <3>. QED
      BY <1>1, <2>1, <2>2, <3>1
  <2>4. taf(0) = 0 /\ taf(p) \in Nat /\ taf(q) \in Nat /\ taf(p) <= taf(q)
    <3>1. m.taf * p \in Nat /\ m.taf * q \in Nat /\ m.taf * p <= m.taf * q /\ m.taf * 0 = 0
      <4> HIDE DEF p, q
      <4>. QED
        BY <1>1, <2>1, Products
    <3>. QED
      BY <2>1, <3>1 DEF Lower
  <2>5. /\ Fees(m, first) = IF first.option THEN orf(p) + (IF sells THEN sec(p) ELSE 0)
                            ELSE IF ~sells THEN 0 ELSE sec(p) + Incremental(taf(p), taf(0))
        /\ Fees(m, next) = IF first.option THEN orf(n) + (IF sells THEN sec(n) ELSE 0)
                           ELSE IF ~sells THEN 0 ELSE sec(n) + Incremental(taf(q), taf(p))
        /\ Fees(m, whole) = IF first.option THEN orf(q) + (IF sells THEN sec(q) ELSE 0)
                            ELSE IF ~sells THEN 0 ELSE sec(q) + Incremental(taf(q), taf(0))
    <3>1. /\ first.option \in BOOLEAN /\ first.side \in {"BUY", "SELL"}
          /\ next.option = first.option /\ whole.option = first.option
          /\ next.side = first.side /\ whole.side = first.side
      BY DEF SplitIn, Contexts
    <3>. QED
      BY <1>1, <1>3, <1>5, <3>1 DEF Fees
  <2> HIDE DEF taf, sec, orf, sells
  <2>6. /\ Incremental(taf(p), taf(0)) \in Nat /\ Incremental(taf(q), taf(p)) \in Nat
        /\ Incremental(taf(q), taf(0)) = Incremental(taf(p), taf(0)) + Incremental(taf(q), taf(p))
    BY <2>4, IncrementsAddUp
  <2>. QED
    BY <2>3, <2>5, <2>6
<1>. QED
  BY <1>4, <1>5

(* A charge is never negative. *)
LEMMA ChargeIsACost ==
  ASSUME NEW m \in CommissionModels, NEW c \in Contexts
  PROVE  Commission(m, c) \in Nat /\ Fees(m, c) \in Nat
<1> DEFINE before == c.before
           after == c.before + c.quantity
<1>1. before \in Nat /\ after \in Nat /\ c.quantity \in Nat
  BY DEF Contexts
<1>2. \A a, b \in Int : Incremental(a, b) \in Nat
  BY DEF Incremental, Higher
<1>3. ASSUME NEW n \in Nat
      PROVE  /\ m.kind = "per_share" => PerShare(m, c, n) \in Int
             /\ m.kind = "percent_value" => PercentValue(m, c, n) \in Int
             /\ m.kind = "tiered" => Tiered(m, c, n) \in Int
  <2>1. CASE n = 0
    BY <2>1 DEF PerShare, PercentValue, Tiered
  <2>2. CASE n # 0
    <3>1. n \in Nat \ {0} /\ n <= n
      BY <2>2
    <3>. QED
      BY <3>1, PerShareGrows, PercentValueGrows, TieredGrows
  <2>. QED
    BY <2>1, <2>2
<1>4. CASE m.kind \in {"per_share", "percent_value", "tiered"}
  <2>1. Fees(m, c) = 0
    BY <1>4 DEF Fees
  <2>2. Commission(m, c) =
          CASE m.kind = "per_share" -> Incremental(PerShare(m, c, after), PerShare(m, c, before))
            [] m.kind = "percent_value" ->
                 Incremental(PercentValue(m, c, after), PercentValue(m, c, before))
            [] m.kind = "tiered" -> Incremental(Tiered(m, c, after), Tiered(m, c, before))
    BY <1>4 DEF Commission
  <2> HIDE DEF before, after
  <2>. QED
    BY <1>1, <1>2, <1>3, <1>4, <2>1, <2>2
<1>5. CASE m.kind = "per_trade"
  BY <1>5 DEF CommissionModels, Commission, Fees
<1>6. CASE m.kind = "per_contract"
  <2>1. m.perContract \in Nat /\ m.perOrder \in Nat
    BY <1>6 DEF CommissionModels
  <2>2. m.perContract * c.quantity \in Nat
    BY <1>1, <2>1
  <2>. QED
    BY <1>6, <2>1, <2>2 DEF Commission, Fees
<1>7. CASE m.kind = "regulatory"
  <2>1. m.sec \in Nat /\ m.taf \in Nat /\ m.tafCap \in Nat /\ m.orf \in Nat
    BY <1>7 DEF CommissionModels
  <2> DEFINE taf(x) == Lower(m.taf * x, m.tafCap)
             u == UnitNotional(c)
             sec == m.sec * u * c.quantity
             orf == m.orf * c.quantity
  <2>2. u \in Nat
    BY ValueOfAUnit
  <2>3. sec \in Nat /\ orf \in Nat
    <3> HIDE DEF u
    <3>1. m.sec * u \in Nat
      BY <2>1, <2>2
    <3>. QED
      BY <1>1, <2>1, <3>1
  <2>4. \A x \in Nat : taf(x) \in Int
    BY <2>1 DEF Lower
  <2>5. Commission(m, c) = 0
    BY <1>7 DEF Commission
  <2>6. Fees(m, c) \in {orf + sec, orf + 0, 0, sec + Incremental(taf(after), taf(before))}
    BY <1>7 DEF Fees
  <2> HIDE DEF taf, sec, orf, before, after
  <2>7. Incremental(taf(after), taf(before)) \in Nat
    BY <1>1, <1>2, <2>4
  <2>. QED
    BY <2>3, <2>5, <2>6, <2>7
<1>8. CASE m.kind = "zero"
  BY <1>8 DEF Commission, Fees
<1>9. m.kind \in {"per_share", "per_trade", "percent_value", "per_contract", "regulatory", "tiered", "zero"}
  BY DEF CommissionModels
<1>. QED
  BY <1>4, <1>5, <1>6, <1>7, <1>8, <1>9

LEMMA TotalIsACost ==
  ASSUME NEW models \in Seq(CommissionModels), NEW c \in Contexts
  PROVE  TotalCommission(models, c) \in Nat /\ TotalFees(models, c) \in Nat
<1> DEFINE n == Len(models)
           f == [i \in 1..n |-> Commission(models[i], c)]
           g == [i \in 1..n |-> Fees(models[i], c)]
<1>1. n \in Nat /\ DOMAIN models = 1..n /\ \A i \in 1..n : models[i] \in CommissionModels
  BY ElementOfSeq, LenProperties
<1>2. f \in [1..n -> Nat] /\ g \in [1..n -> Nat]
  BY <1>1, ChargeIsACost
<1>3. TotalCommission(models, c) = SumFunction(f) /\ TotalFees(models, c) = SumFunction(g)
  BY <1>1 DEF TotalCommission, TotalFees
<1> HIDE DEF f, g, n
<1>. QED
  BY <1>1, <1>2, <1>3, SumOfNats

LEMMA TotalAddsUp ==
  ASSUME NEW models \in Seq(CommissionModels), NEW whole, NEW first, NEW next,
         SplitIn(whole, first, next),
         \A i \in DOMAIN models : models[i].kind = "tiered" =>
           /\ TierRate(models[i], next.period) = TierRate(models[i], first.period)
           /\ TierRate(models[i], whole.period) = TierRate(models[i], first.period)
  PROVE  /\ TotalCommission(models, whole) = TotalCommission(models, first) + TotalCommission(models, next)
         /\ TotalFees(models, whole) = TotalFees(models, first) + TotalFees(models, next)
<1> DEFINE n == Len(models)
           f(c) == [i \in 1..n |-> Commission(models[i], c)]
           g(c) == [i \in 1..n |-> Fees(models[i], c)]
<1>1. n \in Nat /\ DOMAIN models = 1..n /\ \A i \in 1..n : models[i] \in CommissionModels
  BY ElementOfSeq, LenProperties
<1>2. ASSUME NEW i \in 1..n
      PROVE  /\ Commission(models[i], first) \in Nat /\ Commission(models[i], next) \in Nat
             /\ Commission(models[i], whole) = Commission(models[i], first) + Commission(models[i], next)
             /\ Fees(models[i], first) \in Nat /\ Fees(models[i], next) \in Nat
             /\ Fees(models[i], whole) = Fees(models[i], first) + Fees(models[i], next)
  <2> DEFINE m == models[i]
  <2>1. m \in CommissionModels
    BY <1>1
  <2>2. m.kind = "tiered" => /\ TierRate(m, next.period) = TierRate(m, first.period)
                             /\ TierRate(m, whole.period) = TierRate(m, first.period)
    BY <1>1
  <2> HIDE DEF m
  <2>3. /\ Commission(m, first) \in Nat /\ Commission(m, next) \in Nat
        /\ Commission(m, whole) = Commission(m, first) + Commission(m, next)
    BY <2>1, <2>2, CommissionAddsUp
  <2>4. /\ Fees(m, first) \in Nat /\ Fees(m, next) \in Nat
        /\ Fees(m, whole) = Fees(m, first) + Fees(m, next)
    BY <2>1, FeesAddUp
  <2>. QED
    BY <2>3, <2>4 DEF m
<1>3. /\ f(whole) \in [1..n -> Int] /\ f(first) \in [1..n -> Int] /\ f(next) \in [1..n -> Int]
      /\ \A i \in 1..n : f(whole)[i] = f(first)[i] + f(next)[i]
  BY <1>2
<1>4. /\ g(whole) \in [1..n -> Int] /\ g(first) \in [1..n -> Int] /\ g(next) \in [1..n -> Int]
      /\ \A i \in 1..n : g(whole)[i] = g(first)[i] + g(next)[i]
  BY <1>2
<1>5. \A c : TotalCommission(models, c) = SumFunction(f(c)) /\ TotalFees(models, c) = SumFunction(g(c))
  BY <1>1 DEF TotalCommission, TotalFees
<1> HIDE DEF f, g, n
<1>6. SumFunction(f(whole)) = SumFunction(f(first)) + SumFunction(f(next))
  BY <1>1, <1>3, SumOfSums
<1>7. SumFunction(g(whole)) = SumFunction(g(first)) + SumFunction(g(next))
  BY <1>1, <1>4, SumOfSums
<1>. QED
  BY <1>5, <1>6, <1>7

(* What a fill is charged for, and what it is charged. *)
LEMMA Charged ==
  ASSUME PricingInv, NEW bar \in Bars \cup {Nothing}, NEW chain \in Chains \cup {Nothing},
         Trade(bar).quantity > 0
  PROVE  LET t == Trade(bar)
             f == BuildFill(bar, chain, t.level, t.quantity)
         IN /\ f.context \in Contexts
            /\ f.context.side = order.side /\ f.context.option = order.option
            /\ f.context.closing = order.reduceOnly /\ f.context.price = f.price
            /\ f.context.before = order.filled /\ f.context.quantity = t.quantity
            /\ f.commission = TotalCommission(setup.commission, f.context)
            /\ f.fees = TotalFees(setup.commission, f.context)
            /\ f.commission \in Nat /\ f.fees \in Nat
<1> DEFINE t == Trade(bar)
           f == BuildFill(bar, chain, t.level, t.quantity)
           c == [side |-> order.side, option |-> order.option, quantity |-> t.quantity,
                 price |-> f.price, before |-> order.filled, period |-> PeriodVolume,
                 closing |-> order.reduceOnly]
<1>1. setup \in Setups /\ order \in Tickets /\ period \in [month : Nat, volume : Nat]
  BY DEF PricingInv, Recorded
<1>2. f.context = c /\ f.commission = TotalCommission(setup.commission, c) /\ f.fees = TotalFees(setup.commission, c)
  BY DEF BuildFill
<1>3. f.price \in Nat /\ t.quantity \in 1..Remaining /\ Remaining \in Int
  BY <1>1, Built, TicketFacts DEF Remaining
<1>4. order.filled \in Nat
  BY <1>1, TicketFacts
<1>5. PeriodVolume \in Nat
  BY <1>1 DEF PeriodVolume
<1>6. order.side \in {"BUY", "SELL"} /\ order.option \in BOOLEAN /\ order.reduceOnly \in BOOLEAN
  BY <1>1 DEF Tickets
<1> HIDE DEF t, f
<1>7. c \in Contexts
  BY <1>3, <1>4, <1>5, <1>6 DEF Contexts
<1>8. setup.commission \in Seq(CommissionModels)
  BY <1>1, FillPricingAssumption
<1>9. TotalCommission(setup.commission, c) \in Nat /\ TotalFees(setup.commission, c) \in Nat
  BY <1>7, <1>8, TotalIsACost
<1>. QED
  BY <1>2, <1>7, <1>9 DEF t, f

(* What was paid, after a fill. *)
LEMMA PaidAfter ==
  ASSUME NEW s, s \in Seq({s[i] : i \in DOMAIN s}), NEW x,
         \A i \in DOMAIN s : s[i].commission \in Nat /\ s[i].fees \in Nat,
         x.commission \in Nat, x.fees \in Nat
  PROVE  LET t == Append(s, x)
         IN /\ SumFunction([i \in DOMAIN t |-> t[i].commission]) =
                  SumFunction([i \in DOMAIN s |-> s[i].commission]) + x.commission
            /\ SumFunction([i \in DOMAIN t |-> t[i].fees]) =
                  SumFunction([i \in DOMAIN s |-> s[i].fees]) + x.fees
<1> DEFINE t == Append(s, x)
           n == Len(s)
           a == [i \in 1..n |-> s[i].commission]
           b == [i \in 1..n + 1 |-> t[i].commission]
           c == [i \in 1..n |-> s[i].fees]
           d == [i \in 1..n + 1 |-> t[i].fees]
<1>1. /\ n \in Nat /\ DOMAIN s = 1..n /\ DOMAIN t = 1..n + 1
      /\ \A i \in 1..n : t[i] = s[i]
      /\ t[n + 1] = x
  BY AppendedTo
<1> HIDE DEF t, n
<1>2. \A i \in 1..n + 1 : i \in 1..n \/ i = n + 1
  BY <1>1
<1>3. /\ a \in [1..n -> Int] /\ b \in [1..n + 1 -> Int] /\ \A i \in 1..n : b[i] = a[i]
      /\ b[n + 1] = x.commission
  BY <1>1, <1>2
<1>4. /\ c \in [1..n -> Int] /\ d \in [1..n + 1 -> Int] /\ \A i \in 1..n : d[i] = c[i]
      /\ d[n + 1] = x.fees
  BY <1>1, <1>2
<1>5. /\ a = [i \in DOMAIN s |-> s[i].commission] /\ b = [i \in DOMAIN t |-> t[i].commission]
      /\ c = [i \in DOMAIN s |-> s[i].fees] /\ d = [i \in DOMAIN t |-> t[i].fees]
  BY <1>1
<1> HIDE DEF a, b, c, d
<1>6. SumFunction(b) = SumFunction(a) + b[n + 1]
  BY <1>1, <1>3, SumOfLonger
<1>7. SumFunction(d) = SumFunction(c) + d[n + 1]
  BY <1>1, <1>4, SumOfLonger
<1>. QED
  BY <1>3, <1>4, <1>5, <1>6, <1>7 DEF t

LEMMA NothingPaid ==
  ASSUME NEW f, DOMAIN f = {}
  PROVE  SumFunction(f) = 0
<1>1. IsFiniteSet(DOMAIN f) /\ \A i \in DOMAIN f : f[i] \in Int
  BY FS_EmptySet
<1>2. Partial(f)[{}] = 0
  BY <1>1, PartialTakesAny
<1>. QED
  BY <1>2, SumIsPartial

LEMMA SplitStep ==
  ASSUME PricingInv, PricingInv', SplitInv, NEW snapshot \in Snapshots, WorkOrder(snapshot)
  PROVE  SplitInv'
<1> DEFINE bar   == MarketBar(snapshot)
           chain == OptionQuote(snapshot)
           t     == Trade(bar)
           f     == BuildFill(bar, chain, t.level, t.quantity)
           n     == Len(fills)
<1>1. Recorded /\ Recorded'
  BY DEF PricingInv
<1>2. /\ bar \in Bars \cup {Nothing} /\ chain \in Chains \cup {Nothing}
      /\ setup' = setup /\ SameTicket(order', order)
      /\ \/ fills' = fills /\ order'.filled = order.filled
         \/ /\ fills' = Append(fills, f) /\ t.quantity > 0 /\ order'.filled = order.filled + t.quantity
  BY <1>1, OneStep
<1>3. order'.side = order.side /\ order'.option = order.option /\ order'.reduceOnly = order.reduceOnly
  BY <1>2 DEF SameTicket
<1>4. CASE fills' = fills /\ order'.filled = order.filled
  BY <1>2, <1>3, <1>4 DEF SplitInv, ChargedFor, SplitCostsAsOne, ChargesAreCosts, SameTerms,
     CommissionPaid, FeesPaid
<1>5. CASE fills' = Append(fills, f) /\ t.quantity > 0 /\ order'.filled = order.filled + t.quantity
  <2>1. /\ f.context \in Contexts
        /\ f.context.side = order.side /\ f.context.option = order.option
        /\ f.context.closing = order.reduceOnly /\ f.context.price = f.price
        /\ f.context.before = order.filled /\ f.context.quantity = t.quantity
        /\ f.commission = TotalCommission(setup.commission, f.context)
        /\ f.fees = TotalFees(setup.commission, f.context)
        /\ f.commission \in Nat /\ f.fees \in Nat
    BY <1>2, <1>5, Charged
  <2>2. setup.commission \in Seq(CommissionModels) /\ order \in Tickets
    BY <1>1, FillPricingAssumption DEF Recorded
  <2>3. order.filled \in Nat /\ t.quantity \in Nat /\ t.quantity > 0
    <3>1. f.context.quantity \in Nat
      BY <2>1 DEF Contexts
    <3>. QED
      BY <1>5, <2>1, <2>2, <3>1, TicketFacts
  <2> HIDE DEF f, t
  <2>4. fills \in Seq({fills[i] : i \in DOMAIN fills})
    BY <1>1 DEF Recorded
  <2>5. /\ n \in Nat /\ DOMAIN fills = 1..n /\ DOMAIN fills' = 1..n + 1
        /\ \A i \in 1..n : fills'[i] = fills[i]
        /\ fills'[n + 1] = f
    BY <1>5, <2>4, AppendedTo
  <2>6. n = 0 <=> fills = <<>>
    BY <2>4, EmptySeq
  <2> HIDE DEF n
  <2>7. fills' # <<>> /\ order'.filled # 0
    <3>1. 1 \in DOMAIN fills'
      BY <2>5
    <3>. QED
      BY <1>5, <2>3, <3>1
  <2>8. ChargesAreCosts /\ ChargesAreCosts'
    <3>1. ChargesAreCosts
      BY DEF SplitInv, SplitCostsAsOne
    <3>2. \A i \in 1..n + 1 : i \in 1..n \/ i = n + 1
      BY <2>5
    <3>. QED
      BY <2>1, <2>5, <3>1, <3>2 DEF ChargesAreCosts
  <2>9. /\ CommissionPaid' = CommissionPaid + f.commission
        /\ FeesPaid' = FeesPaid + f.fees
    <3>1. \A i \in DOMAIN fills : fills[i].commission \in Nat /\ fills[i].fees \in Nat
      BY <2>8 DEF ChargesAreCosts
    <3> DEFINE u == Append(fills, f)
    <3>2. /\ SumFunction([i \in DOMAIN u |-> u[i].commission]) =
                SumFunction([i \in DOMAIN fills |-> fills[i].commission]) + f.commission
          /\ SumFunction([i \in DOMAIN u |-> u[i].fees]) =
                SumFunction([i \in DOMAIN fills |-> fills[i].fees]) + f.fees
      BY <2>1, <2>4, <3>1, PaidAfter
    <3>3. fills' = u
      BY <1>5
    <3> HIDE DEF u
    <3>. QED
      BY <3>2, <3>3 DEF CommissionPaid, FeesPaid
  <2>10. CASE fills = <<>>
    <3>1. n = 0 /\ order.filled = 0 /\ DOMAIN fills = {}
      BY <2>5, <2>6, <2>10 DEF SplitInv
    <3>2. fills'[1] = f
      BY <2>5, <3>1
    <3>3. ChargedFor(fills[1].context)'
      <4>1. f.context.before = 0 /\ f.context.quantity > 0
        BY <2>1, <2>3, <3>1
      <4>2. fills'[1].context = f.context
        BY <3>2
      <4>. QED
        BY <1>3, <2>1, <3>2, <4>1, <4>2 DEF ChargedFor
    <3>4. [f.context EXCEPT !.quantity = order'.filled] = f.context
      <4>1. order'.filled = f.context.quantity
        BY <1>5, <2>1, <2>3, <3>1
      <4>. QED
        BY <2>1, <4>1 DEF Contexts
    <3>5. CommissionPaid = 0 /\ FeesPaid = 0
      BY <3>1, NothingPaid DEF CommissionPaid, FeesPaid
    <3>6. CommissionPaid' = f.commission /\ FeesPaid' = f.fees
      BY <2>1, <2>9, <3>5
    <3>. QED
      BY <1>2, <2>1, <2>7, <2>8, <3>2, <3>3, <3>4, <3>6 DEF SplitInv, SplitCostsAsOne
  <2>11. CASE fills # <<>>
    <3> DEFINE c == fills[1].context
               whole == [c EXCEPT !.quantity = order'.filled]
               first == [c EXCEPT !.quantity = order.filled]
    <3>1. /\ n \in Nat \ {0} /\ 1 \in 1..n /\ n + 1 \in 1..n + 1 /\ 1 \in 1..n + 1
          /\ fills'[1] = fills[1] /\ order.filled > 0 /\ ChargedFor(c)
      BY <2>3, <2>5, <2>6, <2>11 DEF SplitInv
    <3>2. ChargedFor(c)' /\ c' = c
      BY <1>3, <3>1 DEF ChargedFor
    <3> HIDE DEF c
    <3>3. ASSUME SameTerms'
          PROVE  /\ CommissionPaid' = TotalCommission(setup.commission, whole)
                 /\ FeesPaid' = TotalFees(setup.commission, whole)
      <4>1. SameTerms
        BY <1>2, <2>5, <3>1, <3>3 DEF SameTerms
      <4>2. f.price = fills[1].price
        BY <2>5, <3>1, <3>3 DEF SameTerms
      <4>3. \A j \in DOMAIN setup.commission : setup.commission[j].kind = "tiered" =>
              TierRate(setup.commission[j], f.context.period) = TierRate(setup.commission[j], c.period)
        BY <1>2, <2>5, <3>1, <3>3 DEF SameTerms, c
      <4>4. /\ CommissionPaid = TotalCommission(setup.commission, first)
            /\ FeesPaid = TotalFees(setup.commission, first)
        BY <2>11, <4>1 DEF SplitInv, SplitCostsAsOne, c
      <4>5. SplitIn(whole, first, f.context)
        <5>1. c \in Contexts /\ c.before = 0 /\ c.price = fills[1].price
              /\ c.side = order.side /\ c.option = order.option /\ c.closing = order.reduceOnly
          BY <3>1 DEF ChargedFor
        <5>2. order'.filled \in Nat /\ order'.filled = order.filled + t.quantity
          BY <1>5, <2>3
        <5>. QED
          BY <2>1, <2>3, <3>1, <4>2, <5>1, <5>2 DEF SplitIn, Contexts
      <4>6. whole.period = c.period /\ first.period = c.period
        BY <3>1 DEF ChargedFor, Contexts
      <4> HIDE DEF whole, first
      <4>7. /\ TotalCommission(setup.commission, whole) =
                  TotalCommission(setup.commission, first) + TotalCommission(setup.commission, f.context)
            /\ TotalFees(setup.commission, whole) =
                  TotalFees(setup.commission, first) + TotalFees(setup.commission, f.context)
        BY <2>2, <4>3, <4>5, <4>6, TotalAddsUp
      <4>. QED
        BY <2>1, <2>9, <4>4, <4>7
    <3>. QED
      BY <1>2, <2>7, <2>8, <3>1, <3>2, <3>3 DEF SplitInv, SplitCostsAsOne, c
  <2>. QED
    BY <2>10, <2>11
<1>. QED
  BY <1>2, <1>4, <1>5

(* An order that a thin market splits into several prints pays, at one      *)
(* price and in one volume band, what it would in one print: every floor,   *)
(* cap, flat fee and waiver of every schedule included (_incremental).      *)
THEOREM SplitCostsTheSame == Spec => []SplitCostsAsOne
<1>1. Init => SplitInv
  <2> SUFFICES ASSUME Init PROVE SplitInv
    OBVIOUS
  <2>1. order.filled = 0 /\ fills = <<>>
    BY FillPricingAssumption DEF Init
  <2>. QED
    BY <2>1 DEF SplitInv, SplitCostsAsOne, ChargesAreCosts
<1>2. PricingInv /\ PricingInv' /\ SplitInv /\ [Next]_vars => SplitInv'
  <2> SUFFICES ASSUME PricingInv, PricingInv', SplitInv, [Next]_vars PROVE SplitInv'
    OBVIOUS
  <2>1. CASE Next
    BY <2>1, SplitStep DEF Next
  <2>2. CASE UNCHANGED vars
    BY <2>2 DEF vars, SplitInv, ChargedFor, SplitCostsAsOne, ChargesAreCosts, SameTerms,
       CommissionPaid, FeesPaid
  <2>. QED
    BY <2>1, <2>2
<1>3. SplitInv => SplitCostsAsOne
  BY DEF SplitInv
<1>. QED
  BY <1>1, <1>2, <1>3, PricingInvariant, PTL DEF Spec
=============================================================================
