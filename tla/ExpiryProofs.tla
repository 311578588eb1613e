----------------------------- MODULE ExpiryProofs -----------------------------
(***************************************************************************)
(* Whatever contracts, prices and policies there are: every settlement     *)
(* moves what it says and is worth what the option was, is struck at the   *)
(* last price the position saw, and nothing outlives its expiry.           *)
(***************************************************************************)
EXTENDS ExpiryProperties, SequenceTheorems, TLAPS

-----------------------------------------------------------------------------
(* Sums of one number and of two, however SumFunction picks them.          *)

LEMMA SumOfOne ==
  ASSUME NEW f, DOMAIN f = {1}, f[1] \in Int
  PROVE  SumFunction(f) = f[1]
<1> DEFINE S == {1}
           Pick(s) == CHOOSE x \in s : TRUE
           Def(g) == g = [s \in SUBSET S |-> IF s = {} THEN 0 ELSE f[Pick(s)] + g[s \ {Pick(s)}]]
           iter == CHOOSE g : Def(g)
           h == [s \in SUBSET S |-> IF s = {} THEN 0 ELSE f[1]]
<1>1. SumFunction(f) = iter[S]
  BY DEF SumFunction, SumFunctionOnSet, FoldFunctionOnSet, MapThenFoldSet
<1>2. Pick(S) = 1 /\ S \ {1} = {} /\ S # {} /\ \A s \in SUBSET S : s = {} \/ s = S
  OBVIOUS
<1> HIDE DEF Pick
<1>3. Def(h)
  <2>1. h[{}] = 0 /\ h[S] = f[1] + h[{}] /\ h = [s \in SUBSET S |-> h[s]]
    BY <1>2
  <2>2. h[S] = f[Pick(S)] + h[S \ {Pick(S)}]
    BY <1>2, <2>1
  <2> HIDE DEF h, S
  <2>3. \A s \in SUBSET S : h[s] = IF s = {} THEN 0 ELSE f[Pick(s)] + h[s \ {Pick(s)}]
    BY <1>2, <2>1, <2>2
  <2>. QED
    BY <2>1, <2>3
<1> HIDE DEF h, Def
<1>4. Def(iter)
  BY <1>3
<1>5. \A s \in SUBSET S : iter[s] = IF s = {} THEN 0 ELSE f[Pick(s)] + iter[s \ {Pick(s)}]
  BY <1>4 DEF Def
<1> HIDE DEF iter
<1>6. iter[S] = f[Pick(S)] + iter[S \ {Pick(S)}] /\ iter[{}] = 0
  BY <1>2, <1>5
<1>. QED
  BY <1>1, <1>2, <1>6

LEMMA SumOfTwo ==
  ASSUME NEW f, DOMAIN f = {1, 2}, f[1] \in Int, f[2] \in Int
  PROVE  SumFunction(f) = f[1] + f[2]
<1> DEFINE S == {1, 2}
           Pick(s) == CHOOSE x \in s : TRUE
           Def(g) == g = [s \in SUBSET S |-> IF s = {} THEN 0 ELSE f[Pick(s)] + g[s \ {Pick(s)}]]
           iter == CHOOSE g : Def(g)
           h == [s \in SUBSET S |-> IF s = {} THEN 0 ELSE IF s = {1} THEN f[1]
                                    ELSE IF s = {2} THEN f[2] ELSE f[1] + f[2]]
<1>1. SumFunction(f) = iter[S]
  BY DEF SumFunction, SumFunctionOnSet, FoldFunctionOnSet, MapThenFoldSet
<1>2. \A s \in SUBSET S : s \in {{}, {1}, {2}, S}
  OBVIOUS
<1>3. Pick({1}) = 1 /\ Pick({2}) = 2 /\ Pick(S) \in S
  OBVIOUS
<1> HIDE DEF Pick
<1>4. /\ S \ {1} = {2} /\ S \ {2} = {1} /\ {1} \ {1} = {} /\ {2} \ {2} = {}
      /\ {1} # S /\ {2} # S /\ {1} # {2} /\ S # {} /\ {1} # {} /\ {2} # {}
  OBVIOUS
<1>5. \A s \in SUBSET S : h[s] = IF s = {} THEN 0 ELSE f[Pick(s)] + h[s \ {Pick(s)}]
  <2>1. h[{}] = 0 /\ h[{1}] = f[1] /\ h[{2}] = f[2] /\ h[S] = f[1] + f[2]
    BY <1>4
  <2> HIDE DEF h
  <2>2. h[{1}] = f[1] + h[{}] /\ h[{2}] = f[2] + h[{}]
        /\ h[S] = f[1] + h[{2}] /\ h[S] = f[2] + h[{1}]
    BY <2>1
  <2>3. h[S] = f[Pick(S)] + h[S \ {Pick(S)}]
    BY <1>3, <1>4, <2>2
  <2>4. /\ h[{1}] = f[Pick({1})] + h[{1} \ {Pick({1})}]
        /\ h[{2}] = f[Pick({2})] + h[{2} \ {Pick({2})}]
    BY <1>3, <1>4, <2>2
  <2> HIDE DEF S
  <2>. QED
    BY <1>2, <1>4, <2>1, <2>3, <2>4
<1>6. Def(h)
  <2>1. h = [s \in SUBSET S |-> h[s]]
    OBVIOUS
  <2> HIDE DEF h
  <2>. QED
    BY <1>5, <2>1
<1> HIDE DEF h, Def
<1>7. Def(iter)
  BY <1>6
<1>8. \A s \in SUBSET S : iter[s] = IF s = {} THEN 0 ELSE f[Pick(s)] + iter[s \ {Pick(s)}]
  BY <1>7 DEF Def
<1> HIDE DEF iter
<1>9. iter[{1}] = f[1] + iter[{}] /\ iter[{2}] = f[2] + iter[{}] /\ iter[{}] = 0
  <2>1. /\ iter[{1}] = f[Pick({1})] + iter[{1} \ {Pick({1})}]
        /\ iter[{2}] = f[Pick({2})] + iter[{2} \ {Pick({2})}]
        /\ iter[{}] = 0
    BY <1>4, <1>8
  <2>. QED
    BY <1>3, <1>4, <2>1
<1>10. iter[S] = f[1] + iter[{2}] \/ iter[S] = f[2] + iter[{1}]
  <2>1. iter[S] = f[Pick(S)] + iter[S \ {Pick(S)}]
    BY <1>4, <1>8
  <2>2. Pick(S) = 1 \/ Pick(S) = 2
    BY <1>3
  <2>. QED
    BY <1>4, <2>1, <2>2
<1>. QED
  BY <1>1, <1>9, <1>10

(* An outcome is added to the outcomes. *)
LEMMA OutcomeAdded ==
  ASSUME NEW s, s \in Seq(Range(s)), NEW o
  PROVE  /\ Append(s, o) \in Seq(Range(Append(s, o)))
         /\ \A i \in DOMAIN Append(s, o) : Append(s, o)[i] = o \/ \E j \in DOMAIN s : Append(s, o)[i] = s[j]
<1> DEFINE T == Range(s) \cup {o}
           more == Append(s, o)
<1>1. s \in Seq(T) /\ o \in T
  BY SeqMonotonic
<1>2. /\ more \in Seq(T) /\ Len(more) = Len(s) + 1 /\ Len(s) \in Nat
      /\ \A i \in 1..Len(s) : more[i] = s[i]
      /\ more[Len(s) + 1] = o /\ DOMAIN more = 1..Len(more) /\ DOMAIN s = 1..Len(s)
  BY <1>1, AppendProperties, LenProperties
<1> HIDE DEF more
<1>3. \A i \in DOMAIN more : more[i] = o \/ \E j \in DOMAIN s : more[i] = s[j]
  BY <1>2
<1>4. more \in Seq(Range(more))
  BY <1>2 DEF Range
<1>. QED
  BY <1>3, <1>4 DEF more

-----------------------------------------------------------------------------
(* What resolving a position makes of it. *)

LEMMA OutcomeIsFull ==
  ASSUME NEW c \in Contracts, held[c] \in Int, NEW price \in Int, NEW closePrice \in Int,
         NEW delta \in Int, NEW fees \in Int, NEW reason
  PROVE  LET o == Outcome(c, reason, price, closePrice, delta, fees) IN
         /\ MovesWhatItSays(o)
         /\ o.contract = c /\ o.quantity = held[c] /\ o.reason = reason /\ o.price = price
         /\ o.delta = delta /\ o.fees = fees
         /\ o.cash = held[c] * closePrice * c.multiplier - delta * c.strike - fees
<1> DEFINE o == Outcome(c, reason, price, closePrice, delta, fees)
           h == held[c]
           m == c.multiplier
           close == FillOf("contract", -h, closePrice, m, IF delta = 0 THEN fees ELSE 0)
           delivery == FillOf("underlying", delta, c.strike, 1, fees)
<1>1. h \in Int /\ m \in Int /\ c.strike \in Int
  BY ExpiryAssumption
<1>2. /\ o.contract = c /\ o.quantity = h /\ o.reason = reason /\ o.price = price
      /\ o.delta = delta /\ o.fees = fees
      /\ o.cash = h * closePrice * m - delta * c.strike - fees
      /\ delta = 0 => o.fills = <<close>>
      /\ delta # 0 => o.fills = <<close, delivery>>
  BY DEF Outcome
<1>3. /\ close.instrument = "contract" /\ close.size = -h /\ delivery.size = delta
      /\ delivery.instrument = "underlying"
      /\ CashOf(close) = h * closePrice * m - (IF delta = 0 THEN fees ELSE 0)
      /\ CashOf(delivery) = -(delta * c.strike) - fees
  BY <1>1 DEF FillOf, CashOf
<1> HIDE DEF o, h, m, close, delivery
<1>4. /\ h * closePrice * m \in Int /\ delta * c.strike \in Int
  BY <1>1
<1>5. CASE delta = 0
  <2> DEFINE f == [i \in DOMAIN o.fills |-> CashOf(o.fills[i])]
             g(thing) == [i \in DOMAIN o.fills |->
                            IF o.fills[i].instrument = thing THEN o.fills[i].size ELSE 0]
  <2>1. DOMAIN o.fills = {1} /\ o.fills[1] = close
    BY <1>2, <1>5
  <2>2. /\ DOMAIN f = {1} /\ f[1] = CashOf(close) /\ DOMAIN g("contract") = {1}
        /\ DOMAIN g("underlying") = {1} /\ g("contract")[1] = -h /\ g("underlying")[1] = 0
    BY <1>3, <2>1
  <2> HIDE DEF f, g
  <2>3. CashOf(close) = o.cash /\ CashOf(close) \in Int
    BY <1>1, <1>2, <1>3, <1>4, <1>5
  <2>4. SumFunction(f) = o.cash
    BY <2>2, <2>3, SumOfOne
  <2>5. SumFunction(g("contract")) = -h /\ SumFunction(g("underlying")) = 0
    BY <1>1, <2>2, SumOfOne
  <2>6. MovesWhatItSays(o)
    BY <1>2, <1>5, <2>4, <2>5 DEF MovesWhatItSays, Moved, f, g
  <2>. QED
    BY <1>2, <2>6 DEF o, h, m
<1>6. CASE delta # 0
  <2> DEFINE f == [i \in DOMAIN o.fills |-> CashOf(o.fills[i])]
             g(thing) == [i \in DOMAIN o.fills |->
                            IF o.fills[i].instrument = thing THEN o.fills[i].size ELSE 0]
  <2>1. DOMAIN o.fills = {1, 2} /\ o.fills[1] = close /\ o.fills[2] = delivery
    BY <1>2, <1>6
  <2>2. /\ DOMAIN f = {1, 2} /\ f[1] = CashOf(close) /\ f[2] = CashOf(delivery)
        /\ DOMAIN g("contract") = {1, 2} /\ g("contract")[1] = -h /\ g("contract")[2] = 0
        /\ DOMAIN g("underlying") = {1, 2} /\ g("underlying")[1] = 0 /\ g("underlying")[2] = delta
    BY <1>3, <2>1
  <2> HIDE DEF f, g
  <2>3. /\ CashOf(close) \in Int /\ CashOf(delivery) \in Int
        /\ CashOf(close) + CashOf(delivery) = o.cash
    BY <1>1, <1>2, <1>3, <1>4, <1>6
  <2>4. SumFunction(f) = o.cash
    BY <2>2, <2>3, SumOfTwo
  <2>5. SumFunction(g("contract")) = -h + 0 /\ SumFunction(g("underlying")) = 0 + delta
    BY <1>1, <2>2, SumOfTwo
  <2>6. MovesWhatItSays(o)
    BY <1>1, <1>2, <2>4, <2>5 DEF MovesWhatItSays, Moved, f, g
  <2>. QED
    BY <1>2, <2>6 DEF o, h, m
<1>. QED
  BY <1>5, <1>6

LEMMA Intrinsic ==
  ASSUME NEW c \in Contracts, NEW price \in Nat
  PROVE  /\ IntrinsicValue(c, price) \in Nat
         /\ IntrinsicValue(c, price) > 0 =>
              IntrinsicValue(c, price) = IF c.right = "CALL" THEN price - c.strike ELSE c.strike - price
BY ExpiryAssumption DEF IntrinsicValue

(* Exercised, assigned or worthless, in cash or in shares: worth what the  *)
(* option was.                                                             *)
LEMMA ResolvedIsFull ==
  ASSUME NEW c \in Contracts, held[c] \in Int \ {0}, policy \in Policies, NEW price \in Nat,
         NEW assigned \in BOOLEAN, assigned => held[c] < 0 /\ IntrinsicValue(c, price) > 0
  PROVE  LET o == ResolveAt(c, price, assigned) IN
         /\ MovesWhatItSays(o) /\ WorthIntrinsic(o) /\ o.contract = c /\ o.price = price
<1> DEFINE value == IntrinsicValue(c, price)
           reason == IF held[c] > 0 THEN "EXERCISE" ELSE "ASSIGNMENT"
           fees == policy.fee * Abs(held[c])
           exercised == held[c] > 0 /\ value >= policy.threshold
           physical == c.settlement = "PHYSICAL" /\ policy.physical
           h == held[c]
           m == c.multiplier
           d == Delivery(c)
<1>1. /\ h \in Int \ {0} /\ m \in Nat \ {0} /\ c.strike \in Int /\ value \in Nat /\ fees \in Int
      /\ value > 0 => value = IF c.right = "CALL" THEN price - c.strike ELSE c.strike - price
      /\ reason # "WORTHLESS"
      /\ exercised \/ assigned => value > 0
  BY ExpiryAssumption, Intrinsic DEF Abs
<1>2. d \in Int /\ d = IF c.right = "CALL" THEN h * m ELSE -(h * m)
  BY <1>1 DEF Delivery, Abs
<1> HIDE DEF h, m, d, value, fees, reason
<1>3. CASE ~exercised /\ ~assigned
  <2>1. ResolveAt(c, price, assigned) = Outcome(c, "WORTHLESS", price, 0, 0, 0)
    BY <1>3 DEF ResolveAt, value
  <2> DEFINE o == Outcome(c, "WORTHLESS", price, 0, 0, 0)
  <2>2. /\ MovesWhatItSays(o) /\ o.contract = c /\ o.price = price /\ o.reason = "WORTHLESS"
        /\ o.delta = 0 /\ o.fees = 0 /\ o.cash = h * 0 * m - 0 * c.strike - 0
    BY <1>1, OutcomeIsFull DEF h, m
  <2> HIDE DEF o
  <2>3. o.cash = 0
    BY <1>1, <2>2
  <2>4. WorthIntrinsic(o)
    BY <2>2, <2>3 DEF WorthIntrinsic
  <2>. QED
    BY <2>1, <2>2, <2>4 DEF o
<1>4. CASE (exercised \/ assigned) /\ physical
  <2>1. ResolveAt(c, price, assigned) = Outcome(c, reason, price, 0, d, fees)
    BY <1>4 DEF ResolveAt, value, reason, fees, d
  <2> DEFINE o == Outcome(c, reason, price, 0, d, fees)
  <2>2. /\ MovesWhatItSays(o) /\ o.contract = c /\ o.price = price /\ o.reason = reason
        /\ o.delta = d /\ o.fees = fees /\ o.quantity = h
        /\ o.cash = h * 0 * m - d * c.strike - fees
    BY <1>1, <1>2, OutcomeIsFull DEF h, m
  <2> HIDE DEF o
  <2>3. o.cash + o.fees + o.delta * o.price = d * (price - c.strike)
    <3>1. h * 0 * m = 0 /\ d * c.strike \in Int /\ d * price \in Int
      BY <1>1, <1>2
    <3>2. d * (price - c.strike) = d * price - d * c.strike
      BY <1>1, <1>2
    <3>. QED
      BY <1>1, <2>2, <3>1, <3>2
  <2>4. d * (price - c.strike) = h * m * value
    <3>1. value = IF c.right = "CALL" THEN price - c.strike ELSE c.strike - price
      BY <1>1, <1>4
    <3>2. h * m \in Int
      BY <1>1
    <3>. QED
      BY <1>1, <1>2, <3>1, <3>2
  <2>5. WorthIntrinsic(o)
    BY <1>1, <2>2, <2>3, <2>4 DEF WorthIntrinsic, value, m
  <2>. QED
    BY <2>1, <2>2, <2>5 DEF o
<1>5. CASE (exercised \/ assigned) /\ ~physical
  <2>1. ResolveAt(c, price, assigned) = Outcome(c, reason, price, value, 0, fees)
    BY <1>5 DEF ResolveAt, value, reason, fees
  <2> DEFINE o == Outcome(c, reason, price, value, 0, fees)
  <2>2. /\ MovesWhatItSays(o) /\ o.contract = c /\ o.price = price /\ o.reason = reason
        /\ o.delta = 0 /\ o.fees = fees /\ o.quantity = h
        /\ o.cash = h * value * m - 0 * c.strike - fees
    BY <1>1, OutcomeIsFull DEF h, m
  <2> HIDE DEF o
  <2>3. h * value * m = h * m * value /\ h * value * m \in Int
    BY <1>1
  <2>4. o.cash + o.fees + o.delta * o.price = h * m * value
    BY <1>1, <2>2, <2>3
  <2>5. WorthIntrinsic(o)
    BY <1>1, <2>2, <2>4 DEF WorthIntrinsic, value, m
  <2>. QED
    BY <2>1, <2>2, <2>5 DEF o
<1>. QED
  BY <1>3, <1>4, <1>5

-----------------------------------------------------------------------------
(* The steps. *)

(* What holds of every outcome that is recorded. *)
Recorded(o) == MovesWhatItSays(o.of) /\ WorthIntrinsic(o.of) /\ AtLastPrice(o) /\ Flattened(o)

LEMMA EveryOutcome ==
  ExpiryInv => \A i \in DOMAIN outcomes : Recorded(outcomes[i])
BY DEF ExpiryInv, Recorded, SettlesInFull, SettlesAtLastPrice, ClosedInTime, FlattenedBeforeExpiry

LEMMA NoNewOutcome ==
  ASSUME ExpiryInv, UNCHANGED <<outcomes, policy>>
  PROVE  outcomes' \in Seq(Range(outcomes')) /\ SettlesInFull' /\ SettlesAtLastPrice'
         /\ FlattenedBeforeExpiry'
BY DEF ExpiryInv, HistoryTypeOK, SettlesInFull, SettlesAtLastPrice, ClosedInTime,
       FlattenedBeforeExpiry, MovesWhatItSays, WorthIntrinsic, AtLastPrice, Flattened, TooLate

(* A position that is settled on the bar it is due, or assigned early, at  *)
(* the price of its underlying.                                            *)
LEMMA OutcomeStep ==
  ASSUME ExpiryInv, policy' = policy, NEW c \in Contracts, NEW price \in Nat,
         NEW assigned \in BOOLEAN, assigned => held[c] < 0 /\ IntrinsicValue(c, price) > 0,
         IsOpen(c), phase \in {"early", "resolve"},
         Price(c) # Nothing => price = Price(c),
         Price(c) = Nothing => phase = "resolve" /\ price = source[c.underlying],
         Settle(ResolveAt(c, price, assigned))
  PROVE  /\ outcomes' \in Seq(Range(outcomes')) /\ SettlesInFull' /\ SettlesAtLastPrice'
         /\ FlattenedBeforeExpiry'
         /\ held' = [held EXCEPT ![c] = 0]
<1> DEFINE of == ResolveAt(c, price, assigned)
           o == [of |-> of, on |-> snapshot, last |-> trail.last[c], days |-> trail.days[c]]
<1>1. /\ held[c] \in Int \ {0} /\ policy \in Policies
      /\ outcomes \in Seq(Range(outcomes))
      /\ snapshot \in [day : Nat, close : BOOLEAN, price : [Underlyings -> Prices \cup {Nothing}]]
  BY DEF ExpiryInv, ClosedInTime, TypeOK, HistoryTypeOK, IsOpen
<1>2. MovesWhatItSays(of) /\ WorthIntrinsic(of) /\ of.contract = c /\ of.price = price
  BY <1>1, ResolvedIsFull
<1>3. outcomes' = Append(outcomes, o) /\ held' = [held EXCEPT ![c] = 0]
  BY <1>2 DEF Settle
<1> HIDE DEF of
<1>4. AtLastPrice(o)
  <2>1. trail.last[c] # Nothing /\ Price(c) = Nothing => price = trail.last[c]
    BY DEF ExpiryInv, SourceIsLast, OpenContracts
  <2>. QED
    BY <1>2, <2>1 DEF AtLastPrice, Price
<1>5. Flattened(o)
  <2> SUFFICES ASSUME NEW k \in DOMAIN trail.days[c], k < Len(trail.days[c])
               PROVE  ~TooLate(c, trail.days[c][k])
    BY <1>2 DEF Flattened
  <2>1. trail.days[c] \in Seq(Nat)
    BY DEF ExpiryInv, HistoryTypeOK
  <2>2. k # Len(trail.days[c])
    BY <2>1, LenProperties
  <2>. QED
    BY <2>2 DEF ExpiryInv, SeenLateOnce, OpenContracts
<1> HIDE DEF o
<1>6. /\ outcomes' \in Seq(Range(outcomes'))
      /\ \A i \in DOMAIN outcomes' : outcomes'[i] = o \/ \E j \in DOMAIN outcomes : outcomes'[i] = outcomes[j]
  BY <1>1, <1>3, OutcomeAdded
<1>7. Recorded(o)
  BY <1>2, <1>4, <1>5 DEF Recorded, o
<1>8. \A i \in DOMAIN outcomes' : Recorded(outcomes'[i])
  BY <1>6, <1>7, EveryOutcome
<1>9. /\ SettlesInFull' /\ SettlesAtLastPrice'
  BY <1>8 DEF Recorded, SettlesInFull, SettlesAtLastPrice, MovesWhatItSays, WorthIntrinsic, AtLastPrice
<1>10. FlattenedBeforeExpiry'
  BY <1>8 DEF Recorded, FlattenedBeforeExpiry, Flattened, TooLate
<1>. QED
  BY <1>3, <1>6, <1>9, <1>10

LEMMA Typed ==
  ASSUME ExpiryInv
  PROVE  /\ TypeOK /\ HistoryTypeOK
         /\ held \in [Contracts -> Int] /\ source \in [Underlyings -> OptionalPrices]
         /\ todo \subseteq OpenContracts /\ snapshot.day \in Nat
         /\ \A c \in Contracts : c.underlying \in Underlyings
         /\ \A c \in Contracts : Price(c) \in OptionalPrices
         /\ \A u \in Underlyings : snapshot.price[u] \in OptionalPrices
BY ExpiryAssumption
   DEF ExpiryInv, ClosedInTime, TypeOK, HistoryTypeOK, OptionalPrices, Price

LEMMA CheckEarlyStep ==
  ASSUME ExpiryInv, NEW c \in Contracts, CheckEarlyAssignment(c)
  PROVE  ExpiryInv'
<1>1. /\ phase = "early" /\ c \in todo /\ todo' = todo \ {c}
      /\ UNCHANGED <<policy, snapshot, phase, closing, failed, trail>>
      /\ source' = IF Assignable(c) THEN Observe(c) ELSE source
  BY DEF CheckEarlyAssignment
<1>2. IsOpen(c)
  BY <1>1, Typed DEF OpenContracts
<1>3. \/ UNCHANGED <<held, outcomes>>
      \/ /\ Price(c) # Nothing /\ held[c] < 0 /\ IntrinsicValue(c, Price(c)) > 0
         /\ Settle(ResolveAt(c, Price(c), TRUE))
  <2>1. PICK assigned \in DrawnEarly(c) :
          IF assigned THEN Settle(ResolveAt(c, Price(c), TRUE)) ELSE UNCHANGED <<held, outcomes>>
    BY DEF CheckEarlyAssignment
  <2>. QED
    BY <2>1 DEF DrawnEarly, Assignable
<1>4. /\ outcomes' \in Seq(Range(outcomes')) /\ SettlesInFull' /\ SettlesAtLastPrice'
      /\ FlattenedBeforeExpiry'
      /\ held' = held \/ held' = [held EXCEPT ![c] = 0]
  <2>1. CASE UNCHANGED <<held, outcomes>>
    BY <1>1, <2>1, NoNewOutcome
  <2>2. CASE /\ Price(c) # Nothing /\ held[c] < 0 /\ IntrinsicValue(c, Price(c)) > 0
             /\ Settle(ResolveAt(c, Price(c), TRUE))
    <3>1. Price(c) \in Nat
      BY <2>2, Typed DEF OptionalPrices
    <3>. QED
      BY <1>1, <1>2, <2>2, <3>1, OutcomeStep
  <2>. QED
    BY <1>3, <2>1, <2>2
<1>5. /\ source' \in [Underlyings -> OptionalPrices]
      /\ \A d \in Contracts : \/ source'[d.underlying] = source[d.underlying]
                              \/ Price(d) # Nothing /\ source'[d.underlying] = Price(d)
  BY <1>1, Typed DEF Observe, Price
<1>6. OpenContracts' \subseteq OpenContracts /\ todo' \subseteq OpenContracts'
      /\ held' \in [Contracts -> Int]
  BY <1>1, <1>4, Typed DEF OpenContracts, IsOpen
<1>7. TypeOK' /\ HistoryTypeOK'
  BY <1>1, <1>4, <1>5, <1>6, Typed DEF TypeOK, HistoryTypeOK
<1>8. SourceIsLast'
  BY <1>1, <1>5, <1>6, Typed DEF ExpiryInv, SourceIsLast, Price, OpenContracts
<1>9. DueIsVisited' /\ NothingOutlivesExpiry' /\ SourceIsRefreshed'
  BY <1>1 DEF DueIsVisited, NothingOutlivesExpiry, SourceIsRefreshed
<1>10. SeenLateOnce'
  BY <1>1, <1>6 DEF ExpiryInv, SeenLateOnce, TooLate
<1>. QED
  BY <1>4, <1>7, <1>8, <1>9, <1>10 DEF ExpiryInv, ClosedInTime

LEMMA SelectStep ==
  ASSUME ExpiryInv, SelectExpiring
  PROVE  ExpiryInv'
<1>1. /\ phase = "early" /\ phase' = "resolve" /\ todo' = Expiring /\ source' = Refresh
      /\ UNCHANGED <<policy, snapshot, held, closing, failed, outcomes>>
      /\ trail' = [trail EXCEPT
           !.last = [c \in Contracts |-> IF IsOpen(c) /\ Price(c) # Nothing THEN Price(c) ELSE trail.last[c]],
           !.days = [c \in Contracts |-> IF IsOpen(c) THEN Append(trail.days[c], snapshot.day)
                                                      ELSE trail.days[c]]]
  BY DEF SelectExpiring
<1>2. /\ trail'.last = [c \in Contracts |-> IF IsOpen(c) /\ Price(c) # Nothing THEN Price(c) ELSE trail.last[c]]
      /\ trail'.days = [c \in Contracts |-> IF IsOpen(c) THEN Append(trail.days[c], snapshot.day)
                                                         ELSE trail.days[c]]
      /\ trail'.bars = trail.bars /\ trail'.opened = trail.opened
  BY <1>1, Typed DEF HistoryTypeOK
<1>3. \A c \in Contracts : /\ trail.days[c] \in Seq(Nat)
                           /\ Append(trail.days[c], snapshot.day) \in Seq(Nat)
                           /\ trail.last[c] \in OptionalPrices
  BY Typed, AppendProperties DEF HistoryTypeOK
<1>4. HistoryTypeOK'
  <2>1. /\ trail'.last \in [Contracts -> OptionalPrices] /\ trail'.days \in [Contracts -> Seq(Nat)]
    BY <1>2, <1>3, Typed
  <2>2. trail' \in [bars : Nat, opened : Nat, last : [Contracts -> OptionalPrices],
                    days : [Contracts -> Seq(Nat)]]
    <3> DEFINE Lasts == [Contracts -> OptionalPrices]
               Days == [Contracts -> Seq(Nat)]
               last == [c \in Contracts |-> IF IsOpen(c) /\ Price(c) # Nothing THEN Price(c) ELSE trail.last[c]]
               days == [c \in Contracts |-> IF IsOpen(c) THEN Append(trail.days[c], snapshot.day)
                                                         ELSE trail.days[c]]
    <3>1. last \in Lasts /\ days \in Days
      BY <1>2, <2>1
    <3>2. trail \in [bars : Nat, opened : Nat, last : Lasts, days : Days]
      BY Typed DEF HistoryTypeOK
    <3>3. trail' = [trail EXCEPT !.last = last, !.days = days]
      BY <1>1
    <3> HIDE DEF Lasts, Days, last, days
    <3>4. trail' \in [bars : Nat, opened : Nat, last : Lasts, days : Days]
      BY <3>1, <3>2, <3>3
    <3>. QED
      BY <3>4 DEF Lasts, Days
  <2>. QED
    BY <1>1, <2>2, Typed DEF HistoryTypeOK
<1>5. TypeOK'
  <2>1. Refresh \in [Underlyings -> OptionalPrices]
    BY Typed DEF Refresh
  <2>2. Expiring \subseteq OpenContracts
    BY DEF Expiring, OpenContracts
  <2>. QED
    BY <1>1, <2>1, <2>2, Typed DEF TypeOK, OpenContracts, IsOpen
<1>6. SettlesInFull' /\ SettlesAtLastPrice' /\ FlattenedBeforeExpiry'
  BY <1>1, NoNewOutcome
<1>7. SourceIsLast'
  <2> SUFFICES ASSUME NEW c \in Contracts, IsOpen(c), trail'.last[c] # Nothing
               PROVE  source'[c.underlying] = trail'.last[c]
    BY <1>1 DEF SourceIsLast, OpenContracts, IsOpen
  <2>1. trail'.last[c] = IF Price(c) # Nothing THEN Price(c) ELSE trail.last[c]
    BY <1>2
  <2>2. source'[c.underlying] = IF Price(c) # Nothing THEN Price(c) ELSE source[c.underlying]
    BY <1>1, Typed DEF Refresh, Price
  <2>. QED
    BY <2>1, <2>2 DEF ExpiryInv, SourceIsLast, OpenContracts
<1>8. DueIsVisited' /\ NothingOutlivesExpiry' /\ SourceIsRefreshed'
  <2>1. SourceIsRefreshed'
    BY <1>1, Typed DEF SourceIsRefreshed, Refresh, OpenContracts, IsOpen, Price
  <2>. QED
    BY <1>1, <2>1 DEF DueIsVisited, NothingOutlivesExpiry, Expiring, OpenContracts, IsOpen
<1>9. SeenLateOnce'
  <2> SUFFICES ASSUME NEW c \in Contracts, IsOpen(c), NEW k \in DOMAIN trail'.days[c],
                      TooLate(c, trail'.days[c][k])
               PROVE  k = Len(trail'.days[c]) /\ trail'.days[c][k] = snapshot.day
    BY <1>1 DEF SeenLateOnce, OpenContracts, IsOpen, TooLate
  <2> DEFINE days == trail.days[c]
  <2>1. trail'.days[c] = Append(days, snapshot.day)
    BY <1>2
  <2>2. \A j \in DOMAIN days : ~TooLate(c, days[j])
    BY <1>1 DEF ExpiryInv, SeenLateOnce, OpenContracts
  <2>3. /\ Len(Append(days, snapshot.day)) = Len(days) + 1 /\ Len(days) \in Nat
        /\ \A i \in 1..Len(days) : Append(days, snapshot.day)[i] = days[i]
        /\ Append(days, snapshot.day)[Len(days) + 1] = snapshot.day
        /\ DOMAIN Append(days, snapshot.day) = 1..Len(days) + 1 /\ DOMAIN days = 1..Len(days)
    BY <1>3, Typed, AppendProperties, LenProperties
  <2> HIDE DEF days
  <2>. QED
    BY <2>1, <2>2, <2>3
<1>. QED
  BY <1>4, <1>5, <1>6, <1>7, <1>8, <1>9 DEF ExpiryInv, ClosedInTime

LEMMA ResolveStep ==
  ASSUME ExpiryInv, NEW c \in Contracts, Resolve(c)
  PROVE  ExpiryInv'
<1> DEFINE price == source'[c.underlying]
<1>1. /\ phase = "resolve" /\ c \in todo /\ todo' = todo \ {c} /\ source' = Observe(c)
      /\ UNCHANGED <<policy, snapshot, phase, closing, trail>>
  BY DEF Resolve
<1>2. IsOpen(c) /\ held[c] \in Int
  BY <1>1, Typed DEF OpenContracts
<1>3. source' = source /\ (Price(c) # Nothing => price = Price(c))
  BY <1>1, <1>2, Typed DEF Observe, ExpiryInv, SourceIsRefreshed, OpenContracts
<1>4. \/ UNCHANGED <<held, outcomes>> /\ failed'
      \/ /\ price # Nothing /\ failed' = failed
         /\ \E assigned \in DrawnAtExpiry(c, price) : Settle(ResolveAt(c, price, assigned))
  BY DEF Resolve
<1>5. /\ outcomes' \in Seq(Range(outcomes')) /\ SettlesInFull' /\ SettlesAtLastPrice'
      /\ FlattenedBeforeExpiry'
      /\ (held' = held /\ failed') \/ (held' = [held EXCEPT ![c] = 0] /\ failed' = failed)
  <2>1. CASE UNCHANGED <<held, outcomes>> /\ failed'
    BY <1>1, <2>1, NoNewOutcome
  <2>2. CASE /\ price # Nothing /\ failed' = failed
             /\ \E assigned \in DrawnAtExpiry(c, price) : Settle(ResolveAt(c, price, assigned))
    <3>1. PICK assigned \in BOOLEAN :
            /\ assigned => held[c] < 0 /\ IntrinsicValue(c, price) > 0
            /\ Settle(ResolveAt(c, price, assigned))
      BY <2>2 DEF DrawnAtExpiry
    <3>2. price \in Nat /\ (Price(c) = Nothing => price = source[c.underlying])
      BY <1>3, <2>2, Typed DEF OptionalPrices
    <3>. QED
      BY <1>1, <1>2, <1>3, <2>2, <3>1, <3>2, OutcomeStep
  <2>. QED
    BY <1>4, <2>1, <2>2
<1>6. OpenContracts' \subseteq OpenContracts /\ todo' \subseteq OpenContracts'
      /\ held' \in [Contracts -> Int] /\ failed' \in BOOLEAN
  <2>1. failed' \in BOOLEAN
    BY Typed DEF Resolve, TypeOK
  <2>. QED
    BY <1>1, <1>5, <2>1, Typed DEF OpenContracts, IsOpen
<1>7. TypeOK' /\ HistoryTypeOK'
  BY <1>1, <1>3, <1>5, <1>6, Typed DEF TypeOK, HistoryTypeOK
<1>8. SourceIsLast' /\ SourceIsRefreshed'
  BY <1>1, <1>3, <1>6, Typed DEF ExpiryInv, SourceIsLast, SourceIsRefreshed, Price, OpenContracts
<1>9. DueIsVisited' /\ NothingOutlivesExpiry'
  BY <1>1, <1>5, <1>6, Typed
     DEF ExpiryInv, DueIsVisited, NothingOutlivesExpiry, OpenContracts, IsOpen
<1>10. SeenLateOnce'
  BY <1>1, <1>6 DEF ExpiryInv, SeenLateOnce, TooLate
<1>. QED
  BY <1>5, <1>7, <1>8, <1>9, <1>10 DEF ExpiryInv, ClosedInTime

LEMMA CloseEarlyStep ==
  ASSUME ExpiryInv, ~failed, CloseEarly
  PROVE  ExpiryInv'
<1>1. /\ phase = "resolve" /\ todo = {} /\ phase' = "done" /\ closing' = ClosedEarly
      /\ UNCHANGED <<policy, snapshot, held, source, todo, failed, outcomes, trail>>
  BY DEF CloseEarly
<1>2. TypeOK' /\ HistoryTypeOK'
  BY <1>1, Typed, NoNewOutcome DEF TypeOK, HistoryTypeOK, ClosedEarly, OpenContracts, IsOpen
<1>3. SettlesInFull' /\ SettlesAtLastPrice' /\ FlattenedBeforeExpiry'
  BY <1>1, NoNewOutcome
<1>4. SourceIsLast' /\ SourceIsRefreshed' /\ DueIsVisited'
  BY <1>1 DEF ExpiryInv, SourceIsLast, SourceIsRefreshed, DueIsVisited, OpenContracts, IsOpen
<1>5. NothingOutlivesExpiry'
  <2> SUFFICES ASSUME snapshot.close, NEW c \in Contracts, IsOpen(c)
               PROVE  c.expiry > snapshot.day
    BY <1>1 DEF NothingOutlivesExpiry, OpenContracts, IsOpen
  <2>1. ~(snapshot.day >= c.expiry)
    BY <1>1 DEF ExpiryInv, DueIsVisited, OpenContracts
  <2>. QED
    BY <2>1, Typed, ExpiryAssumption
<1>6. SeenLateOnce'
  <2> SUFFICES ASSUME NEW c \in Contracts, IsOpen(c), NEW k \in DOMAIN trail.days[c],
                      TooLate(c, trail.days[c][k])
               PROVE  c \in ClosedEarly
    BY <1>1 DEF SeenLateOnce, OpenContracts, IsOpen, TooLate
  <2>1. trail.days[c][k] = snapshot.day
    BY <1>1 DEF ExpiryInv, SeenLateOnce, OpenContracts
  <2>. QED
    BY <2>1 DEF ClosedEarly, TooLate, DaysToExpiry
<1>. QED
  BY <1>2, <1>3, <1>4, <1>5, <1>6 DEF ExpiryInv, ClosedInTime

LEMMA OpenStep ==
  ASSUME ExpiryInv, NEW c \in Contracts, NEW size \in Sizes, OpenPosition(c, size)
  PROVE  ExpiryInv'
<1>1. /\ phase = "done" /\ held[c] = 0 /\ (snapshot.close => c.expiry > snapshot.day)
      /\ held' = [held EXCEPT ![c] = size]
      /\ trail' = [trail EXCEPT !.opened = @ + 1, !.last[c] = Nothing, !.days[c] = <<>>]
      /\ UNCHANGED <<policy, snapshot, phase, source, todo, closing, failed, outcomes>>
  BY Typed, ExpiryAssumption DEF OpenPosition, Trades, TypeOK
<1>2. /\ held' \in [Contracts -> Int]
      /\ \A d \in Contracts : IsOpen(d)' => IsOpen(d) \/ d = c
      /\ \A d \in Contracts : IsOpen(d) => IsOpen(d)' /\ d # c
  BY <1>1, Typed, ExpiryAssumption DEF IsOpen
<1>3. /\ trail'.last = [trail.last EXCEPT ![c] = Nothing]
      /\ trail'.days = [trail.days EXCEPT ![c] = <<>>]
      /\ trail'.bars = trail.bars /\ trail'.opened = trail.opened + 1
      /\ HistoryTypeOK'
  <2> DEFINE Lasts == [Contracts -> OptionalPrices]
             Days == [Contracts -> Seq(Nat)]
             last == [trail.last EXCEPT ![c] = Nothing]
             days == [trail.days EXCEPT ![c] = <<>>]
  <2>1. trail \in [bars : Nat, opened : Nat, last : Lasts, days : Days]
    BY Typed DEF HistoryTypeOK
  <2>2. last \in Lasts /\ days \in Days
    BY <2>1 DEF OptionalPrices
  <2> DEFINE more == trail.opened + 1
  <2>3. trail' = [trail EXCEPT !.opened = more, !.last = last, !.days = days] /\ more \in Nat
    BY <1>1, <2>1
  <2> HIDE DEF Lasts, Days, last, days, more
  <2>4. trail' \in [bars : Nat, opened : Nat, last : Lasts, days : Days]
        /\ trail'.last = last /\ trail'.days = days
        /\ trail'.bars = trail.bars /\ trail'.opened = more
    BY <2>1, <2>2, <2>3
  <2>. QED
    BY <1>1, <2>4, Typed DEF HistoryTypeOK, Lasts, Days, last, days, more
<1>4. TypeOK'
  BY <1>1, <1>2, Typed DEF TypeOK, OpenContracts
<1>5. SettlesInFull' /\ SettlesAtLastPrice' /\ FlattenedBeforeExpiry'
  BY <1>1, NoNewOutcome
<1>6. /\ \A d \in Contracts \ {c} : trail'.last[d] = trail.last[d] /\ trail'.days[d] = trail.days[d]
      /\ trail'.last[c] = Nothing /\ DOMAIN trail'.days[c] = {}
  BY <1>3, Typed DEF HistoryTypeOK
<1>7. SourceIsLast' /\ SourceIsRefreshed' /\ DueIsVisited'
  BY <1>1, <1>2, <1>6 DEF ExpiryInv, SourceIsLast, SourceIsRefreshed, DueIsVisited, OpenContracts, Price
<1>8. NothingOutlivesExpiry'
  BY <1>1, <1>2, Typed, ExpiryAssumption
     DEF ExpiryInv, ClosedInTime, NothingOutlivesExpiry, OpenContracts
<1>9. SeenLateOnce'
  BY <1>1, <1>2, <1>6 DEF ExpiryInv, SeenLateOnce, OpenContracts, TooLate
<1>. QED
  BY <1>3, <1>4, <1>5, <1>7, <1>8, <1>9 DEF ExpiryInv, ClosedInTime

LEMMA NextBarStep ==
  ASSUME ExpiryInv, NEW day \in 1..LastDay, NEW close \in BOOLEAN,
         NEW price \in [Underlyings -> Prices], NextBar(day, close, price)
  PROVE  ExpiryInv'
<1>1. /\ phase = "done" /\ phase' = "early" /\ closing' = {}
      /\ snapshot' = [day |-> day, close |-> close, price |-> price]
      /\ held' = [c \in Contracts |-> IF c \in closing THEN 0 ELSE held[c]]
      /\ todo' = {c \in Contracts : held'[c] < 0}
      /\ trail' = [trail EXCEPT !.bars = @ + 1]
      /\ UNCHANGED <<policy, source, failed, outcomes>>
  BY DEF NextBar
<1>2. /\ held' \in [Contracts -> Int] /\ todo' \subseteq OpenContracts'
      /\ \A c \in Contracts : IsOpen(c)' => IsOpen(c) /\ c \notin closing
  BY <1>1, Typed DEF OpenContracts, IsOpen
<1>3. /\ trail'.last = trail.last /\ trail'.days = trail.days /\ HistoryTypeOK'
  <2>1. /\ trail'.last = trail.last /\ trail'.days = trail.days
        /\ trail' \in [bars : Nat, opened : Nat, last : [Contracts -> OptionalPrices],
                       days : [Contracts -> Seq(Nat)]]
    <3> DEFINE Lasts == [Contracts -> OptionalPrices]
               Days == [Contracts -> Seq(Nat)]
    <3>1. trail \in [bars : Nat, opened : Nat, last : Lasts, days : Days]
      BY Typed DEF HistoryTypeOK
    <3> HIDE DEF Lasts, Days
    <3>2. /\ trail'.last = trail.last /\ trail'.days = trail.days
          /\ trail' \in [bars : Nat, opened : Nat, last : Lasts, days : Days]
      BY <1>1, <3>1
    <3>. QED
      BY <3>2 DEF Lasts, Days
  <2>2. snapshot' \in [day : Nat, close : BOOLEAN, price : [Underlyings -> Prices \cup {Nothing}]]
    BY <1>1, ExpiryAssumption
  <2>. QED
    BY <1>1, <2>1, <2>2, Typed DEF HistoryTypeOK
<1>4. TypeOK'
  BY <1>1, <1>2, Typed, ExpiryAssumption DEF TypeOK
<1>5. SettlesInFull' /\ SettlesAtLastPrice' /\ FlattenedBeforeExpiry'
  BY <1>1, NoNewOutcome
<1>6. SourceIsLast' /\ SourceIsRefreshed' /\ DueIsVisited' /\ NothingOutlivesExpiry'
  BY <1>1, <1>2, <1>3
     DEF ExpiryInv, SourceIsLast, SourceIsRefreshed, DueIsVisited, NothingOutlivesExpiry, OpenContracts
<1>7. SeenLateOnce'
  BY <1>1, <1>2, <1>3 DEF ExpiryInv, SeenLateOnce, OpenContracts, TooLate
<1>. QED
  BY <1>3, <1>4, <1>5, <1>6, <1>7 DEF ExpiryInv, ClosedInTime

LEMMA InitialExpiry == Init => ExpiryInv
<1> SUFFICES ASSUME Init PROVE ExpiryInv
  OBVIOUS
<1> USE DEF Init
<1>1. TypeOK /\ OpenContracts = {}
  <2>1. OpenContracts = {}
    BY DEF OpenContracts, IsOpen
  <2>2. snapshot.day \in 0..LastDay /\ snapshot.close \in BOOLEAN
    BY ExpiryAssumption
  <2>3. held \in [Contracts -> Int] /\ policy \in Policies
    OBVIOUS
  <2>4. source \in [Underlyings -> OptionalPrices]
    BY DEF OptionalPrices
  <2>5. /\ phase \in {"early", "resolve", "done"} /\ failed \in BOOLEAN
        /\ todo \subseteq OpenContracts /\ closing \subseteq Contracts
    OBVIOUS
  <2>. QED
    BY <2>1, <2>2, <2>3, <2>4, <2>5 DEF TypeOK
<1>2. HistoryTypeOK
  BY DEF HistoryTypeOK, OptionalPrices, Range
<1>3. DOMAIN outcomes = {}
  OBVIOUS
<1>4. SettlesInFull /\ SettlesAtLastPrice /\ FlattenedBeforeExpiry
  BY <1>3 DEF SettlesInFull, SettlesAtLastPrice, FlattenedBeforeExpiry
<1>5. NothingOutlivesExpiry /\ SourceIsLast /\ SourceIsRefreshed /\ DueIsVisited /\ SeenLateOnce
  BY <1>1 DEF NothingOutlivesExpiry, SourceIsLast, SourceIsRefreshed, DueIsVisited, SeenLateOnce
<1>. QED
  BY <1>1, <1>2, <1>4, <1>5 DEF ExpiryInv, ClosedInTime

-----------------------------------------------------------------------------
(* The inductive invariant: what the engine remembers of prices and of the *)
(* contracts still to be settled is enough to settle each rightly.         *)
THEOREM ExpiryInvariant == Spec => []ExpiryInv
<1>1. Init => ExpiryInv
  BY InitialExpiry
<1>2. ExpiryInv /\ [Next]_vars => ExpiryInv'
  <2> SUFFICES ASSUME ExpiryInv, [Next]_vars
               PROVE  ExpiryInv'
    OBVIOUS
  <2>1. CASE UNCHANGED vars
    <3>1. /\ TypeOK' /\ HistoryTypeOK' /\ SourceIsLast' /\ SourceIsRefreshed' /\ DueIsVisited'
          /\ SeenLateOnce' /\ NothingOutlivesExpiry'
      BY <2>1 DEF vars, ExpiryInv, ClosedInTime, TypeOK, HistoryTypeOK, SourceIsLast,
                  SourceIsRefreshed, DueIsVisited, SeenLateOnce, NothingOutlivesExpiry,
                  OpenContracts, IsOpen, Price, TooLate
    <3>2. SettlesInFull' /\ SettlesAtLastPrice' /\ FlattenedBeforeExpiry'
      BY <2>1, NoNewOutcome DEF vars
    <3>. QED
      BY <3>1, <3>2 DEF ExpiryInv, ClosedInTime
  <2>. QED
    BY <2>1, CheckEarlyStep, ResolveStep, SelectStep, CloseEarlyStep, OpenStep, NextBarStep DEF Next
<1>. QED
  BY <1>1, <1>2, PTL DEF Spec

(* Every outcome moves the cash, contracts and shares it says it moves,    *)
(* and is worth the intrinsic value of what was held                       *)
(* (StandardExpiryEngine._resolve_at, _outcome).                           *)
THEOREM SettledInFull == Spec => []SettlesInFull
<1>1. ExpiryInv => SettlesInFull
  BY DEF ExpiryInv
<1>. QED
  BY <1>1, ExpiryInvariant, PTL

(* Settlement is struck at the last price since the position was opened    *)
(* (_settlement_price, _settlement_source).                                *)
THEOREM SettledAtLastPrice == Spec => []SettlesAtLastPrice
<1>1. ExpiryInv => SettlesAtLastPrice
  BY DEF ExpiryInv
<1>. QED
  BY <1>1, ExpiryInvariant, PTL

(* No position outlives its expiry, nor the policy's horizon               *)
(* (expiring_positions, positions_to_close_early).                         *)
THEOREM AlwaysClosedInTime == Spec => []ClosedInTime
<1>1. ExpiryInv => ClosedInTime
  BY DEF ExpiryInv
<1>. QED
  BY <1>1, ExpiryInvariant, PTL
=============================================================================
