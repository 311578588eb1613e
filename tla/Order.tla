------------------------------- MODULE Order -------------------------------
(***************************************************************************)
(* The broker-visible order of sigmaloop/domain/order.py: its record, the  *)
(* status lattice of types.py and the mutations Order allows itself.       *)
(* Prices, VWAP, commission and metadata are left out: no property of the  *)
(* order book tells two prices apart (FillPricing models them).            *)
(*                                                                         *)
(* Quantities are whole numbers of the smallest tradable unit, so the      *)
(* float tolerance of the code never decides a comparison here.  Instants  *)
(* are naturals, and 0 stands for the code's None.                         *)
(*                                                                         *)
(* In this and every module, a definition headed "Planted bug" is no part  *)
(* of the model: it is a faulty version of the definition after it, which  *)
(* the model must be able to tell from the right one.                      *)
(***************************************************************************)
EXTENDS Integers

(* OrderStatus; "absent" is an id the broker has never seen.  PENDING_NEW  *)
(* does not appear: submit resolves it before it returns.                  *)
OpenStatuses     == {"ACCEPTED", "PARTIALLY_FILLED"}
TerminalStatuses == {"FILLED", "CANCELLED", "REJECTED", "EXPIRED"}
Statuses         == OpenStatuses \cup TerminalStatuses \cup {"absent"}

OrderTypes    == {"MARKET", "MARKET_ON_OPEN", "MARKET_ON_CLOSE", "LIMIT", "STOP",
                  "STOP_LIMIT"}
TimesInForce  == {"DAY", "GTC", "GTD", "IOC", "FOK"}
Sides         == {"BUY", "SELL"}
OppositeOf(s) == IF s = "BUY" THEN "SELL" ELSE "BUY"

(* What a caller decides: the fields that never change but for quantity,   *)
(* which the broker rewrites on a protective leg.                          *)
Ticket(Instruments) ==
  [instrument : Instruments, side : Sides, type : OrderTypes,
   tif : TimesInForce, quantity : Nat, expires : Nat, reduceOnly : BOOLEAN,
   legs : SUBSET {"SL", "TP"}]

(* "entered" is the position at which the order joined the insertion-      *)
(* ordered book; "legs" is the shape of the BracketSpec in its metadata.   *)
OrderRecord(Instruments) ==
  [instrument : Instruments, side : Sides, type : OrderTypes,
   tif : TimesInForce, quantity : Nat, expires : Nat, reduceOnly : BOOLEAN,
   legs : SUBSET {"SL", "TP"}, status : Statuses, filled : Nat,
   submitted : Nat, activated : Nat, entered : Nat]

(* _validate_price_fields: an expiry lies after the moment of raising, and *)
(* GTD needs one.                                                          *)
WellFormed(ticket, at) ==
  /\ ticket.tif = "GTD" => ticket.expires # 0
  /\ ticket.expires # 0 => ticket.expires > at

Raised(ticket, status, at, entered) ==
  [instrument |-> ticket.instrument, side |-> ticket.side,
   type |-> ticket.type, tif |-> ticket.tif, quantity |-> ticket.quantity,
   expires |-> ticket.expires, reduceOnly |-> ticket.reduceOnly,
   legs |-> ticket.legs, status |-> status, filled |-> 0,
   submitted |-> at, activated |-> 0, entered |-> entered]

IsOpen(order)    == order.status \in OpenStatuses
IsOneShot(order) == order.tif \in {"IOC", "FOK"}

Remaining(order) ==
  IF order.quantity > order.filled THEN order.quantity - order.filled ELSE 0

ApplyFill(order, quantity) ==
  LET filled == order.filled + quantity IN
  IF filled >= order.quantity
  THEN [order EXCEPT !.filled = order.quantity, !.status = "FILLED"]
  ELSE [order EXCEPT !.filled = filled, !.status = "PARTIALLY_FILLED"]

Cancelled(order)        == [order EXCEPT !.status = "CANCELLED"]
Expired(order)          == [order EXCEPT !.status = "EXPIRED"]
Activated(order, at)    == [order EXCEPT !.activated = IF @ = 0 THEN at ELSE @]
Resized(order, quantity) == [order EXCEPT !.quantity = quantity]

=============================================================================
