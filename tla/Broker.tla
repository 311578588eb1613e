------------------------------- MODULE Broker -------------------------------
(***************************************************************************)
(* SimulatedBroker (sigmaloop/execution/broker.py): order intake, the      *)
(* working book, the matching loop of process_bar, bracket activation and  *)
(* one-cancels-other settlement.                                           *)
(*                                                                         *)
(* The engine calls submit, cancel and cancel_all between bars and         *)
(* process_bar once per bar.  process_bar is a loop over instruments and,  *)
(* inside it, over a sorted snapshot of the instrument's book; each        *)
(* iteration is one action here (OpenBook, then one of Pass, Lapse, Miss,  *)
(* Fill, DuplicateChild per order, then CloseBook), forced by cur and todo *)
(* in the order the code runs them.  No call can come between them.        *)
(*                                                                         *)
(* A dict kept in insertion order is a set of ids plus the order's entered *)
(* number; _oco always maps a leg to the other leg of its parent, so the   *)
(* set of its keys carries it.                                             *)
(***************************************************************************)
EXTENDS ExecutionModel, SequencesExt

CONSTANTS
  Entries,       \* names under which the caller submits orders
  Instruments,   \* instruments orders may name
  NoInstrument,  \* between two books of one bar
  Tradeable,     \* registered and is_tradeable
  Shortable,     \* is_shortable
  DelistedOn,    \* [Instruments -> Nat]: date trading ends, 0 for never
  LotSize,       \* [Instruments -> Nat \ {0}]
  Tickets,       \* orders a caller may raise
  Caps,          \* quantities one bar may absorb from one order
  Policies,      \* constructor arguments
  MaxTime        \* bound: bars processed in a behaviour

VARIABLES
  now,                \* timestamp of the last snapshot processed
  policy,             \* execution timing and the two keyword flags
  orders,             \* _orders
  arrivals,           \* highest entered number given out
  book,               \* ids in _by_instrument
  brackets,           \* keys of _brackets
  oco,                \* keys of _oco
  pendingRejections,  \* _pending_rejections
  result,             \* the BrokerResult being built
  phase,              \* "idle", inside process_bar ("bar"), or "crashed"
  left,               \* instruments process_bar has yet to visit
  cur,                \* instrument being visited
  cap,                \* its bar: NoBar, or what it absorbs from one order
  todo                \* snapshot of its book still to be worked

bookVars == <<orders, arrivals, book, brackets, oco, pendingRejections>>
loopVars == <<phase, left, cur, cap, todo>>
vars     == <<now, policy, bookVars, result, loopVars>>

(* A caller's order and the two children whose ids derive from it.         *)
Ids       == Entries \X {"E", "SL", "TP"}
EntryId(e)    == <<e, "E">>
ChildrenOf(o) == {<<o[1], "SL">>, <<o[1], "TP">>}
Sibling(o)    == CASE o[2] = "SL" -> <<o[1], "TP">>
                   [] o[2] = "TP" -> <<o[1], "SL">>
                   [] OTHER       -> o

Policy == [timing : Timings, carryUnfilledRemainder : BOOLEAN,
           allowPartialFills : BOOLEAN]

ASSUME BrokerAssumption ==
  /\ Instruments # {}
  /\ Policies \subseteq Policy
  /\ Tickets \subseteq Ticket(Instruments)
  /\ Tradeable \subseteq Instruments
  /\ Shortable \subseteq Instruments
  /\ DelistedOn \in [Instruments -> Nat]
  /\ LotSize \in [Instruments -> Nat \ {0}]
  /\ Caps \subseteq Nat
  /\ NoBar \notin Nat
  /\ NoInstrument \notin Instruments
  /\ MaxTime \in Nat

NoTicket(i) == [instrument |-> i, side |-> "BUY", type |-> "MARKET",
                tif |-> "GTC", quantity |-> 0, expires |-> 0,
                reduceOnly |-> FALSE, legs |-> {}]
Unknown == Raised(NoTicket(CHOOSE i \in Instruments : TRUE), "absent", 0, 0)

NoResult == [fills |-> <<>>, rejections |-> <<>>, expirations |-> <<>>,
             cancellations |-> <<>>]

IsKnown(o) == orders[o].status # "absent"
Working    == {o \in Ids : IsOpen(orders[o])}

-----------------------------------------------------------------------------
(* round_quantity: floor to a whole number of lots. *)
RoundLot(i, quantity) == quantity - (quantity % LotSize[i])

IsDelisted(i, at) == DelistedOn[i] # 0 /\ Date(at) >= DelistedOn[i]

(* The structural refusals of submit.  The reason is data the strategy     *)
(* reads, so only whether there is one is kept.                            *)
IsRefused(ticket, at) ==
  \/ ticket.instrument \notin Tradeable
  \/ IsDelisted(ticket.instrument, at)
  \/ RoundLot(ticket.instrument, ticket.quantity) = 0
  \/ ticket.side = "SELL" /\ ticket.instrument \notin Shortable /\ ~ticket.reduceOnly

(* Planted bug: fill-or-kill takes what the bar absorbs. *)
FillableKillingNothing(order) ==
  LET wanted == Remaining(order) IN
  IF cap = NoBar \/ cap >= wanted THEN wanted
  ELSE IF ~policy.allowPartialFills THEN 0
  ELSE RoundLot(order.instrument, cap)

(* _fillable: what the bar absorbs of the order; a truncated quantity is   *)
(* cut to whole lots and may be refused outright.                          *)
Fillable(order) ==
  LET wanted == Remaining(order) IN
  IF cap = NoBar \/ cap >= wanted THEN wanted
  ELSE IF ~policy.allowPartialFills \/ order.tif = "FOK" THEN 0
  ELSE RoundLot(order.instrument, cap)

(* _child_order: a reduce-only GTC leg on the other side, sized to what    *)
(* the parent has filled and stamped with the fill's timestamp.            *)
ChildTicket(parent, suffix) ==
  [instrument |-> parent.instrument, side |-> OppositeOf(parent.side),
   type |-> IF suffix = "SL" THEN "STOP" ELSE "LIMIT", tif |-> "GTC",
   quantity |-> parent.filled, expires |-> 0, reduceOnly |-> TRUE, legs |-> {}]

(* Planted bug: a leg that has begun filling is resized too. *)
ExistingChildrenTraded(o) == {c \in ChildrenOf(o) : IsOpen(orders[c])}

(* _existing_children: legs still open and unfilled. *)
ExistingChildren(o) ==
  {c \in ChildrenOf(o) : IsOpen(orders[c]) /\ orders[c].filled = 0}

(* _matching_priority, then insertion order: sorted() is stable. *)
Priority(order) == IF order.type \in {"STOP", "STOP_LIMIT"} THEN 0 ELSE 1

WorkedBefore(o, p) ==
  \/ Priority(orders[o]) < Priority(orders[p])
  \/ /\ Priority(orders[o]) = Priority(orders[p])
     /\ orders[o].entered < orders[p].entered

(* _forget applied to every order of S: index, bracket spec, and both ends *)
(* of an OCO link.                                                         *)
Linked(S, links) == (S \cap links) \cup {Sibling(o) : o \in S \cap links}

Forget(S) ==
  /\ book'     = book \ S
  /\ brackets' = brackets \ S
  /\ oco'      = oco \ Linked(S, oco)

(* A list after x has been appended to it, if it is. *)
Noted(list, x, isAppended) == IF isAppended THEN Append(list, x) ELSE list

Report(field, x) == result' = [result EXCEPT ![field] = Append(@, x)]

-----------------------------------------------------------------------------
Init ==
  /\ now = 0
  /\ policy \in Policies
  /\ orders = [o \in Ids |-> Unknown]
  /\ arrivals = 0
  /\ book = {} /\ brackets = {} /\ oco = {}
  /\ pendingRejections = <<>>
  /\ result = NoResult
  /\ phase = "idle"
  /\ left = {} /\ cur = NoInstrument /\ cap = NoBar /\ todo = {}

(* submit, called between bars.  The order carries the timestamp of the    *)
(* bar just processed, or of the coming one when it is raised before the   *)
(* broker is handed that bar.                                              *)
Submit(e, ticket, at) ==
  LET o == EntryId(e)
      refused == IsRefused(ticket, at) IN
  /\ phase = "idle"
  /\ ~IsKnown(o)
  /\ WellFormed(ticket, at)
  /\ IF refused
     THEN /\ orders' = [orders EXCEPT ![o] = Raised(ticket, "REJECTED", at, 0)]
          /\ pendingRejections' = Append(pendingRejections, o)
          /\ UNCHANGED <<arrivals, book, brackets>>
     ELSE /\ orders' = [orders EXCEPT ![o] = Raised(ticket, "ACCEPTED", at, arrivals + 1)]
          /\ arrivals' = arrivals + 1
          /\ book' = book \cup {o}
          /\ brackets' = IF ticket.legs # {} THEN brackets \cup {o} ELSE brackets
          /\ UNCHANGED pendingRejections
  /\ UNCHANGED <<now, policy, oco, result, loopVars>>

(* cancel refuses an unknown or closed order; cancel_all is cancel applied *)
(* to every working order, of one instrument or of the whole book.         *)
CancelOrders(S) ==
  /\ phase = "idle"
  /\ S # {}
  /\ orders' = [o \in Ids |-> IF o \in S THEN Cancelled(orders[o]) ELSE orders[o]]
  /\ Forget(S)
  /\ UNCHANGED <<now, policy, arrivals, pendingRejections, result, loopVars>>

Cancel(o) == o \in Working /\ CancelOrders({o})

CancelAll(I) == CancelOrders({o \in Working : orders[o].instrument \in I})

-----------------------------------------------------------------------------
(* process_bar. *)

BeginBar ==
  /\ phase = "idle"
  /\ now < MaxTime
  /\ now' = now + 1
  /\ phase' = "bar"
  /\ result' = [NoResult EXCEPT !.rejections = pendingRejections]
  /\ pendingRejections' = <<>>
  /\ left' = {orders[o].instrument : o \in book}
  /\ UNCHANGED <<policy, orders, arrivals, book, brackets, oco, cur, cap, todo>>

(* Planted bug: the walk follows the live index, not a copy of it. *)
OpenBookLive(i, bar) ==
  /\ phase = "bar" /\ cur = NoInstrument /\ i \in left
  /\ left' = {orders[o].instrument : o \in book}
  /\ cur' = i
  /\ cap' = bar
  /\ todo' = {o \in book : orders[o].instrument = i}
  /\ UNCHANGED <<now, policy, bookVars, result, phase>>

(* The book is copied before it is walked, so a child submitted during the *)
(* walk waits for the next bar.                                            *)
OpenBook(i, bar) ==
  /\ phase = "bar" /\ cur = NoInstrument /\ i \in left
  /\ left' = left \ {i}
  /\ cur' = i
  /\ cap' = bar
  /\ todo' = {o \in book : orders[o].instrument = i}
  /\ UNCHANGED <<now, policy, bookVars, result, phase>>

(* o is the next order of the snapshot. *)
Take(o) ==
  /\ phase = "bar"
  /\ o \in todo
  /\ \A p \in todo \ {o} : WorkedBefore(o, p)
  /\ todo' = todo \ {o}
  /\ UNCHANGED <<now, policy, left, cur, cap>>

IsWorkable(o) ==
  ~ShouldExpire(orders[o], now) /\ IsEligible(orders[o], policy.timing, now)

(* Closed earlier in this walk, or not yet eligible. *)
Pass(o) ==
  /\ Take(o)
  /\ ~ShouldExpire(orders[o], now)
  /\ ~IsEligible(orders[o], policy.timing, now)
  /\ UNCHANGED <<bookVars, result, phase>>

(* Planted bug: an expiry is not reported. *)
LapseInSilence(o) ==
  /\ Take(o)
  /\ ShouldExpire(orders[o], now)
  /\ orders' = [orders EXCEPT ![o] = Expired(@)]
  /\ Forget({o})
  /\ UNCHANGED <<arrivals, pendingRejections, result, phase>>

Lapse(o) ==
  /\ Take(o)
  /\ ShouldExpire(orders[o], now)
  /\ orders' = [orders EXCEPT ![o] = Expired(@)]
  /\ Forget({o})
  /\ Report("expirations", o)
  /\ UNCHANGED <<arrivals, pendingRejections, phase>>

(* No trigger, or nothing the bar absorbs: IOC and FOK are retired. *)
Miss(o) ==
  /\ Take(o)
  /\ IsWorkable(o)
  /\ \E triggers \in TriggerOutcomes(orders[o], policy.timing, cap, now) :
       ~triggers \/ Fillable(orders[o]) = 0
  /\ IF IsOneShot(orders[o])
     THEN /\ orders' = [orders EXCEPT ![o] = Expired(Activated(@, now))]
          /\ Forget({o})
          /\ Report("expirations", o)
     ELSE /\ orders' = [orders EXCEPT ![o] = Activated(@, now)]
          /\ UNCHANGED <<book, brackets, oco, result>>
  /\ UNCHANGED <<arrivals, pendingRejections, phase>>

(* The order trades, and so do the conditions both outcomes of a fill need. *)
Trades(o) ==
  /\ Take(o)
  /\ IsWorkable(o)
  /\ TRUE \in TriggerOutcomes(orders[o], policy.timing, cap, now)
  /\ Fillable(orders[o]) # 0

Traded(o) == ApplyFill(Activated(orders[o], now), Fillable(orders[o]))

(* Planted bugs: legs keep their first size; both legs are raised whatever *)
(* the spec asks for.                                                      *)
ResizedByNothing(o) == {}
CreatedByBothLegs(o) ==
  IF o \in brackets /\ ExistingChildren(o) = {} THEN ChildrenOf(o) ELSE {}

(* _activate_brackets: children to submit, when no leg is there to resize. *)
ResizedBy(o) == IF o \in brackets THEN ExistingChildren(o) ELSE {}
CreatedBy(o) ==
  IF o \in brackets /\ ExistingChildren(o) = {}
  THEN {c \in ChildrenOf(o) : c[2] \in orders[o].legs} ELSE {}

FillRecord(o) == [id |-> o, quantity |-> Fillable(orders[o])]

(* Re-creating a leg whose id is taken: submit raises out of process_bar,  *)
(* after the fill has been applied and before the result is returned.      *)
DuplicateChild(o) ==
  /\ Trades(o)
  /\ \E c \in CreatedBy(o) : IsKnown(c)
  /\ orders' = [orders EXCEPT ![o] = Traded(o)]
  /\ Report("fills", FillRecord(o))
  /\ phase' = "crashed"
  /\ UNCHANGED <<arrivals, book, brackets, oco, pendingRejections>>

(* Children that intake accepts, and those it refuses, in the order they   *)
(* are submitted; a pair is linked whatever became of it.                  *)
AcceptedBy(o) == {c \in CreatedBy(o) : ~IsRefused(ChildTicket(Traded(o), c[2]), now)}
QueuedWith(o) ==
  LET stop   == <<o[1], "SL">>
      target == <<o[1], "TP">>
      isRefused(c) == c \in CreatedBy(o) \ AcceptedBy(o) IN
  Noted(Noted(pendingRejections, stop, isRefused(stop)), target, isRefused(target))
LinksWith(o)  == IF CreatedBy(o) = ChildrenOf(o) THEN oco \cup CreatedBy(o) ELSE oco

(* What the fill cancels: the OCO sibling of an order it completes, or the *)
(* remainder of an order that may not carry one (_cancel_remainder).       *)
Settles(o)   == Traded(o).status = "FILLED"
DroppedBy(o) ==
  IF Settles(o) THEN {c \in {Sibling(o)} : o \in LinksWith(o) /\ IsOpen(orders[c])}
  ELSE IF IsOneShot(orders[o]) \/ ~policy.carryUnfilledRemainder THEN {o}
  ELSE {}
DroppedId(o) == IF Settles(o) THEN Sibling(o) ELSE o

Child(o, c) ==
  Raised(ChildTicket(Traded(o), c[2]),
         IF c \in AcceptedBy(o) THEN "ACCEPTED" ELSE "REJECTED", now,
         arrivals + (IF c[2] = "SL" THEN 1 ELSE 2))

AfterFill(o, x) ==
  CASE x = o /\ x \in DroppedBy(o)    -> Cancelled(Traded(o))
    [] x = o /\ x \notin DroppedBy(o) -> Traded(o)
    [] x # o /\ x \in DroppedBy(o)    -> Cancelled(orders[x])
    [] x # o /\ x \in ResizedBy(o) \ DroppedBy(o) -> Resized(orders[x], Traded(o).filled)
    [] x # o /\ x \in CreatedBy(o)    -> Child(o, x)
    [] OTHER                          -> orders[x]

(* One fill: the order itself, its bracket legs, then either its OCO       *)
(* sibling (when it completed) or its own remainder.                       *)
Fill(o) ==
  /\ Trades(o)
  /\ \A c \in CreatedBy(o) : ~IsKnown(c)
  /\ orders' = [x \in Ids |-> AfterFill(o, x)]
  /\ arrivals' = IF CreatedBy(o) = {} THEN arrivals ELSE arrivals + 2
  /\ pendingRejections' = QueuedWith(o)
  /\ book' = (book \cup AcceptedBy(o)) \ DroppedBy(o)
  /\ brackets' = brackets \ DroppedBy(o)
  /\ oco' = IF Settles(o) \/ o \in DroppedBy(o)
            THEN LinksWith(o) \ Linked({o}, LinksWith(o)) ELSE LinksWith(o)
  /\ result' = [result EXCEPT !.fills = Append(@, FillRecord(o)),
                   !.cancellations = Noted(@, DroppedId(o), DroppedBy(o) # {})]
  /\ UNCHANGED phase

(* _prune: filled orders leave the book, and their bracket specs with them. *)
CloseBook ==
  LET settled == {o \in book : orders[o].instrument = cur /\ ~IsOpen(orders[o])} IN
  /\ phase = "bar" /\ cur # NoInstrument /\ todo = {}
  /\ book' = book \ settled
  /\ brackets' = brackets \ settled
  /\ cur' = NoInstrument
  /\ cap' = NoBar
  /\ UNCHANGED <<now, policy, orders, arrivals, oco, pendingRejections, result,
                 phase, left, todo>>

(* process_bar returns its BrokerResult. *)
EndBar ==
  /\ phase = "bar" /\ cur = NoInstrument /\ left = {}
  /\ phase' = "idle"
  /\ result' = NoResult
  /\ UNCHANGED <<now, policy, bookVars, left, cur, cap, todo>>

Work(o) == Pass(o) \/ Lapse(o) \/ Miss(o) \/ Fill(o) \/ DuplicateChild(o)

Visit == \E i \in left, bar \in Caps \cup {NoBar} : OpenBook(i, bar)

ProcessBar == Visit \/ (\E o \in todo : Work(o)) \/ CloseBook \/ EndBar

Next ==
  \/ \E e \in Entries, ticket \in Tickets, at \in {now, now + 1} : Submit(e, ticket, at)
  \/ \E o \in Ids : Cancel(o)
  \/ \E I \in {{i} : i \in Instruments} \cup {Instruments} : CancelAll(I)
  \/ BeginBar
  \/ ProcessBar

Spec == Init /\ [][Next]_vars

(* One thread runs process_bar to completion once the engine has called it. *)
FairSpec == Spec /\ WF_vars(ProcessBar)

=============================================================================
