----------------------------- MODULE Commissions -----------------------------
(***************************************************************************)
(* What a fill costs on top of its price: the schedules of                 *)
(* sigmaloop/execution/commission.py.  Charges are in hundredths of the    *)
(* unit of price, so that a per cent of a value is exact.                  *)
(***************************************************************************)
EXTENDS Pricing, Sequences, Functions

(* CommissionContext: before is what the order had filled already, period  *)
(* what was traded this month.                                             *)
Contexts ==
  [side : {"BUY", "SELL"}, option : BOOLEAN, quantity : Nat, price : Nat, before : Nat,
   period : Nat, closing : BOOLEAN]

(* The schedules, as their constructors accept them: no parameter is       *)
(* negative (_require_non_negative), and tiers are not empty.              *)
CommissionModels ==
  [kind : {"per_share"}, rate : Nat, minimum : Nat, cap : Nat \cup {Nothing}]
    \cup [kind : {"per_trade"}, fee : Nat]
    \cup [kind : {"percent_value"}, rate : Nat, minimum : Nat]
    \cup [kind : {"per_contract"}, perContract : Nat, perOrder : Nat, waiveBelow : Nat \cup {Nothing}]
    \cup [kind : {"regulatory"}, sec : Nat, taf : Nat, tafCap : Nat, orf : Nat]
    \cup [kind : {"tiered"}, tiers : Seq([threshold : Nat, rate : Nat]) \ {<<>>}, minimum : Nat]
    \cup [kind : {"zero"}]

(* The units of one contract; notional is the price times it. *)
Multiplier(c)   == IF c.option THEN 100 ELSE 1
UnitNotional(c) == c.price * Multiplier(c)

(* _incremental: the share of this fill in what the order owes so far. *)
Incremental(after, before) == Higher(after - before, 0)

(* PerShareCommissionModel._cumulative: the floor, then the cap. *)
PerShare(m, c, q) ==
  LET floored == Higher(m.rate * q, m.minimum)
  IN CASE q = 0 -> 0
       [] q > 0 /\ m.cap # Nothing -> Lower(floored, m.cap * UnitNotional(c) * q)
       [] OTHER -> floored
PercentValue(m, c, q) == IF q = 0 THEN 0 ELSE Higher(m.rate * UnitNotional(c) * q, m.minimum)

(* The rate of the highest tier the month's volume has reached, else the lowest. *)
TierRate(m, period) ==
  LET reached == {i \in DOMAIN m.tiers : \A j \in 1..i : period >= m.tiers[j].threshold}
  IN m.tiers[IF reached = {} THEN 1 ELSE CHOOSE i \in reached : \A j \in reached : j <= i].rate
Tiered(m, c, q) == IF q = 0 THEN 0 ELSE Higher(TierRate(m, c.period) * q, m.minimum)

(* Planted bug: flat fees are charged on every print. *)
IsFirstFillAlways(c) == TRUE
IsFirstFill(c) == c.before = 0

(* commission of each model. *)
Commission(m, c) ==
  LET after == c.before + c.quantity
  IN CASE m.kind = "per_share" -> Incremental(PerShare(m, c, after), PerShare(m, c, c.before))
       [] m.kind = "percent_value" ->
            Incremental(PercentValue(m, c, after), PercentValue(m, c, c.before))
       [] m.kind = "tiered" -> Incremental(Tiered(m, c, after), Tiered(m, c, c.before))
       [] m.kind = "per_trade" -> IF IsFirstFill(c) THEN m.fee ELSE 0
       [] m.kind = "per_contract" ->
            IF m.waiveBelow # Nothing /\ c.closing /\ c.price < m.waiveBelow THEN 0
            ELSE m.perContract * c.quantity + (IF IsFirstFill(c) THEN m.perOrder ELSE 0)
       [] OTHER -> 0   \* zero, and the regulatory model

(* fees: only the regulatory model has any; the TAF cap is per order. *)
Fees(m, c) ==
  LET taf(q) == Lower(m.taf * q, m.tafCap)
      sec    == m.sec * UnitNotional(c) * c.quantity
  IN CASE m.kind # "regulatory" -> 0
       [] m.kind = "regulatory" /\ c.option ->
            m.orf * c.quantity + (IF c.side = "SELL" THEN sec ELSE 0)
       [] m.kind = "regulatory" /\ ~c.option /\ c.side = "BUY" -> 0
       [] OTHER -> sec + Incremental(taf(c.before + c.quantity), taf(c.before))

(* CompositeCommissionModel: the children's sums. *)
TotalCommission(models, c) == SumFunction([i \in DOMAIN models |-> Commission(models[i], c)])
TotalFees(models, c)       == SumFunction([i \in DOMAIN models |-> Fees(models[i], c)])
=============================================================================
