--------------------------- MODULE OrderContract ---------------------------
(***************************************************************************)
(* What the lifecycle of one order promises whoever holds it, whatever     *)
(* broker works it (the Lifecycle section of Order's docstring and the     *)
(* guards of apply_fill, reject and cancel in sigmaloop/domain/order.py).  *)
(* Every step moves each order by at most one Lifecycle transition.        *)
(***************************************************************************)
EXTENDS Integers

CONSTANT Ids

VARIABLE account   \* [Ids -> [status, quantity, filled]]

Live == {"ACCEPTED", "PARTIALLY_FILLED"}

(* Intake decides once, and starts from nothing filled. *)
Intake(a, b) ==
  /\ a.status = "absent"
  /\ b.status \in {"ACCEPTED", "REJECTED"}
  /\ b.filled = 0

(* A fill only adds, never beyond the quantity ordered, and FILLED means   *)
(* exactly that quantity; a remainder may be withdrawn with the same fill. *)
Execution(a, b) ==
  /\ a.status \in Live
  /\ b.quantity = a.quantity
  /\ a.filled < b.filled /\ b.filled <= b.quantity
  /\ IF b.filled = b.quantity THEN b.status = "FILLED"
                              ELSE b.status \in {"PARTIALLY_FILLED", "CANCELLED"}

Withdrawal(a, b) ==
  /\ a.status \in Live
  /\ b.status \in {"CANCELLED", "EXPIRED"}
  /\ b.quantity = a.quantity /\ b.filled = a.filled

(* Only an order nothing has printed against changes size. *)
Resizing(a, b) ==
  /\ a.status = "ACCEPTED" /\ b.status = "ACCEPTED"
  /\ a.filled = 0 /\ b.filled = 0
  /\ b.quantity > a.quantity

Lifecycle(a, b) ==
  \/ a = b
  \/ Intake(a, b)
  \/ Execution(a, b)
  \/ Withdrawal(a, b)
  \/ Resizing(a, b)

Init == \A o \in Ids : account[o].status = "absent"

Next == \A o \in Ids : Lifecycle(account[o], account'[o])

Spec == Init /\ [][Next]_account

=============================================================================
