------------------------------ MODULE MCBroker ------------------------------
(* Small instances of Broker for TLC. *)
EXTENDS BrokerProperties

CONSTANTS i1, i2, i3, e1, e2

Raise(i, side, type, tif, quantity, expires, reduceOnly, legs) ==
  [instrument |-> i, side |-> side, type |-> type, tif |-> tif,
   quantity |-> quantity, expires |-> expires, reduceOnly |-> reduceOnly,
   legs |-> legs]

(* i1 trades in single lots and i2 and i3 in pairs; i1 and i3 are delisted *)
(* on the last day, and i2 cannot be sold short.                           *)
SmallLots     == [i \in Instruments |-> IF i = i1 THEN 1 ELSE 2]
LateDelisting == [i \in Instruments |-> IF i = i2 THEN 0 ELSE 2]

-----------------------------------------------------------------------------
(* Entries with brackets, in every shape the bracket logic tells apart: a  *)
(* market entry is worked after its stop leg and before its target leg, a  *)
(* stop entry before both.                                                 *)
BracketTickets ==
  { Raise(i1, "BUY",  "MARKET", "GTC", 3, 0, FALSE, {"SL", "TP"}),
    Raise(i1, "SELL", "STOP",   "DAY", 3, 0, FALSE, {"SL", "TP"}),
    Raise(i1, "BUY",  "LIMIT",  "IOC", 2, 0, FALSE, {"SL", "TP"}),
    Raise(i1, "BUY",  "LIMIT",  "GTC", 2, 0, FALSE, {"SL"}),
    Raise(i1, "BUY",  "LIMIT",  "GTC", 2, 0, FALSE, {"TP"}) }

(* Two books, every time in force, and orders each refusal of intake bites. *)
BookTickets ==
  { Raise(i2, "BUY",  "MARKET",          "IOC", 2, 0, FALSE, {}),
    Raise(i2, "BUY",  "LIMIT",           "FOK", 3, 0, FALSE, {}),
    Raise(i2, "BUY",  "STOP_LIMIT",      "DAY", 3, 0, FALSE, {}),
    Raise(i2, "SELL", "LIMIT",           "GTD", 2, 3, TRUE,  {}),
    Raise(i2, "SELL", "MARKET",          "GTC", 2, 0, FALSE, {}),
    Raise(i2, "BUY",  "LIMIT",           "GTC", 1, 0, FALSE, {}),
    Raise(i3, "BUY",  "MARKET_ON_CLOSE", "DAY", 4, 0, FALSE, {}) }

SmallTickets  == BracketTickets \cup BookTickets
SmallPolicies ==
  [timing : Timings, carryUnfilledRemainder : BOOLEAN, allowPartialFills : {TRUE}]
  \cup [timing : {"NEXT_BAR_OPEN"}, carryUnfilledRemainder : BOOLEAN, allowPartialFills : {FALSE}]

(* Bounds: four bars of one entry, or three of two without brackets, the   *)
(* first named first, where remainders are carried; brackets where partial *)
(* fills are allowed, and where the two timings differ most.               *)
OneDesk ==
  /\ IsKnown(EntryId(e2)) =>
       /\ now <= 3 /\ policy.carryUnfilledRemainder
       /\ IsKnown(EntryId(e1)) /\ \A e \in {e1, e2} : Entry(e).legs = {}
  /\ Entry(e1).legs # {} => policy.allowPartialFills /\ policy.timing # "NEXT_BAR_CLOSE"
=============================================================================
