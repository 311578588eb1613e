---------------------------- MODULE BrokerProofs ----------------------------
(***************************************************************************)
(* Machine-checked proofs about Broker, for every set of entries,          *)
(* instruments, tickets, bar capacities and policies.                      *)
(***************************************************************************)
EXTENDS BrokerProperties, TLAPS

USE BrokerAssumption, BarsPerDayAssumption

-----------------------------------------------------------------------------
(* Helpers: ids, records and quantities. *)

LEMMA IdShape ==
  ASSUME NEW o \in Ids
  PROVE  /\ o = <<o[1], o[2]>>
         /\ o[1] \in Entries /\ o[2] \in {"E", "SL", "TP"}
         /\ ChildrenOf(o) \subseteq Ids /\ Sibling(o) \in Ids
         /\ Sibling(o)[1] = o[1]
         /\ Sibling(Sibling(o)) = o
BY DEF Ids, ChildrenOf, Sibling

LEMMA LegPair ==
  ASSUME NEW e \in Entries
  PROVE  /\ EntryId(e) \in Ids /\ StopLeg(e) \in Ids /\ TargetLeg(e) \in Ids
         /\ Sibling(StopLeg(e)) = TargetLeg(e) /\ Sibling(TargetLeg(e)) = StopLeg(e)
         /\ ChildrenOf(EntryId(e)) = LegIds(e) /\ LegIds(e) = {StopLeg(e), TargetLeg(e)}
         /\ IsLeg(StopLeg(e)) /\ IsLeg(TargetLeg(e)) /\ ~IsLeg(EntryId(e))
         /\ StopLeg(e) # TargetLeg(e)
         /\ StopLeg(e)[1] = e /\ TargetLeg(e)[1] = e /\ EntryId(e)[1] = e
         /\ StopLeg(e)[2] = "SL" /\ TargetLeg(e)[2] = "TP" /\ EntryId(e)[2] = "E"
BY DEF EntryId, StopLeg, TargetLeg, LegIds, IsLeg, Ids, Sibling, ChildrenOf

(* What a list holds: what has been appended to it. *)
LEMMA Listed ==
  ASSUME NEW S, NEW s \in Seq(S), NEW x \in S
  PROVE  /\ ToSet(s) \subseteq S
         /\ ToSet(Append(s, x)) = ToSet(s) \cup {x}
<1>1. /\ Len(s) \in Nat /\ DOMAIN s = 1..Len(s) /\ Len(Append(s, x)) = Len(s) + 1
      /\ DOMAIN Append(s, x) = 1..(Len(s) + 1)
      /\ Append(s, x)[Len(s) + 1] = x
      /\ \A i \in 1..Len(s) : s[i] \in S /\ Append(s, x)[i] = s[i]
  OBVIOUS
<1>2. 1..(Len(s) + 1) = (1..Len(s)) \cup {Len(s) + 1}
  BY <1>1
<1>. QED
  BY <1>1, <1>2 DEF ToSet

LEMMA ListedIn ==
  ASSUME NEW S, NEW s \in Seq(S)
  PROVE  ToSet(s) \subseteq S
<1>1. DOMAIN s = 1..Len(s) /\ \A i \in 1..Len(s) : s[i] \in S
  OBVIOUS
<1>. QED
  BY <1>1 DEF ToSet

LEMMA NothingListed == ToSet(<<>>) = {}
BY DEF ToSet

LEMMA Appended ==
  ASSUME NEW S, NEW s \in Seq(S), NEW x \in S, NEW yes
  PROVE  /\ Append(s, x) \in Seq(S) /\ <<>> \in Seq(S)
         /\ Noted(s, x, yes) \in Seq(S)
BY DEF Noted

(* A record of four lists, whatever their types. *)
LEMMA FourLists ==
  ASSUME NEW A, NEW B, NEW C, NEW D,
         NEW res \in [fills : A, rejections : B, expirations : C, cancellations : D]
  PROVE  /\ res.fills \in A /\ res.rejections \in B
         /\ res.expirations \in C /\ res.cancellations \in D
         /\ DOMAIN res = {"fills", "rejections", "expirations", "cancellations"}
         /\ \A x \in C : [res EXCEPT !.expirations = x]
                           \in [fills : A, rejections : B, expirations : C, cancellations : D]
         /\ \A x \in B : [res EXCEPT !.rejections = x]
                           \in [fills : A, rejections : B, expirations : C, cancellations : D]
         /\ \A x \in A, y \in D : /\ [res EXCEPT !.fills = x]
                                     \in [fills : A, rejections : B, expirations : C, cancellations : D]
                                   /\ [res EXCEPT !.fills = x, !.cancellations = y]
                                     \in [fills : A, rejections : B, expirations : C, cancellations : D]
OBVIOUS

(* What TypeOK says of the lists, and what it says of the rest. *)
LEMMA ListTypes ==
  ASSUME TypeOK
  PROVE  /\ result.fills \in Seq([id : Ids, quantity : Nat]) /\ result.rejections \in Seq(Ids)
         /\ result.expirations \in Seq(Ids) /\ result.cancellations \in Seq(Ids)
         /\ pendingRejections \in Seq(Ids)
         /\ DOMAIN result = {"fills", "rejections", "expirations", "cancellations"}
         /\ \A f \in ToSet(result.fills) : f.id \in Ids
<1>1. /\ result.fills \in Seq([id : Ids, quantity : Nat]) /\ result.rejections \in Seq(Ids)
      /\ result.expirations \in Seq(Ids) /\ result.cancellations \in Seq(Ids)
      /\ pendingRejections \in Seq(Ids)
      /\ DOMAIN result = {"fills", "rejections", "expirations", "cancellations"}
  BY FourLists, Zenon DEF TypeOK
<1>2. ToSet(result.fills) \subseteq [id : Ids, quantity : Nat]
  BY <1>1, ListedIn, Zenon
<1>3. \A f \in [id : Ids, quantity : Nat] : f.id \in Ids
  OBVIOUS
<1>. QED
  BY <1>1, <1>2, <1>3, Zenon

BookTypes ==
  /\ now \in Nat
  /\ policy \in Policy
  /\ orders \in [Ids -> OrderRecord(Instruments)]
  /\ arrivals \in Nat
  /\ book \subseteq Ids /\ brackets \subseteq Ids /\ oco \subseteq Ids
  /\ phase \in {"idle", "bar", "crashed"}
  /\ left \subseteq Instruments
  /\ cur \in Instruments \cup {NoInstrument}
  /\ cap \in Nat \cup {NoBar}
  /\ todo \subseteq Ids
ResultType == [fills : Seq([id : Ids, quantity : Nat]), rejections : Seq(Ids),
               expirations : Seq(Ids), cancellations : Seq(Ids)]

LEMMA TypeParts ==
  /\ TypeOK <=> BookTypes /\ result \in ResultType /\ pendingRejections \in Seq(Ids)
  /\ TypeOK' <=> BookTypes' /\ result' \in ResultType /\ pendingRejections' \in Seq(Ids)
BY DEF TypeOK, BookTypes, ResultType

LEMMA ResultParts ==
  ASSUME NEW res \in ResultType
  PROVE  /\ res.fills \in Seq([id : Ids, quantity : Nat]) /\ res.rejections \in Seq(Ids)
         /\ res.expirations \in Seq(Ids) /\ res.cancellations \in Seq(Ids)
         /\ \A x \in Seq(Ids) : [res EXCEPT !.expirations = x] \in ResultType
         /\ \A x \in Seq(Ids) : [res EXCEPT !.rejections = x] \in ResultType
         /\ \A x \in Seq([id : Ids, quantity : Nat]), y \in Seq(Ids) :
              /\ [res EXCEPT !.fills = x] \in ResultType
              /\ [res EXCEPT !.fills = x, !.cancellations = y] \in ResultType
BY FourLists, Zenon DEF ResultType

LEMMA EmptyResult == NoResult \in ResultType /\ <<>> \in Seq(Ids)
BY DEF ResultType, NoResult

LEMMA ResultOps ==
  ASSUME NEW res \in ResultType, NEW o \in Ids, NEW f \in [id : Ids, quantity : Nat],
         NEW q \in Seq(Ids), NEW d \in Seq(Ids)
  PROVE  /\ [res EXCEPT !.expirations = Append(@, o)] \in ResultType
         /\ [res EXCEPT !.fills = Append(@, f)] \in ResultType
         /\ [res EXCEPT !.fills = Append(@, f), !.cancellations = d] \in ResultType
         /\ NoResult \in ResultType /\ [NoResult EXCEPT !.rejections = q] \in ResultType
<1>1. Append(res.fills, f) \in Seq([id : Ids, quantity : Nat]) /\ Append(res.expirations, o) \in Seq(Ids)
  BY ResultParts, Appended, Zenon
<1>2. <<>> \in Seq([id : Ids, quantity : Nat]) /\ <<>> \in Seq(Ids)
  OBVIOUS
<1>3. NoResult \in ResultType
  BY <1>2 DEF ResultType, NoResult
<1>4. [res EXCEPT !.expirations = Append(@, o)] \in ResultType
  BY <1>1, ResultParts, Zenon
<1>5. /\ [res EXCEPT !.fills = Append(@, f)] \in ResultType
      /\ [res EXCEPT !.fills = Append(@, f), !.cancellations = d] \in ResultType
  <2> DEFINE x == Append(res.fills, f)
  <2>1. x \in Seq([id : Ids, quantity : Nat])
    BY <1>1
  <2> HIDE DEF x
  <2>2. [res EXCEPT !.fills = x] \in ResultType /\ [res EXCEPT !.fills = x, !.cancellations = d] \in ResultType
    BY <2>1, ResultParts, Zenon
  <2>. QED
    BY <2>2 DEF x
<1>6. [NoResult EXCEPT !.rejections = q] \in ResultType
  BY <1>3, ResultParts, Zenon
<1>. QED
  BY <1>3, <1>4, <1>5, <1>6

(* A fill in the list of the bar. *)
LEMMA FillListed ==
  ASSUME TypeOK, NEW o \in Ids, FillRecord(o) \in [id : Ids, quantity : Nat],
         result'.fills = Append(result.fills, FillRecord(o))
  PROVE  /\ ToSet(result'.fills) = ToSet(result.fills) \cup {FillRecord(o)}
         /\ FillRecord(o).id = o
<1>1. result.fills \in Seq([id : Ids, quantity : Nat])
  BY ListTypes
<1>2. ToSet(Append(result.fills, FillRecord(o))) = ToSet(result.fills) \cup {FillRecord(o)}
  <2> DEFINE S == [id : Ids, quantity : Nat]
             s == result.fills
             x == FillRecord(o)
  <2>1. s \in Seq(S) /\ x \in S
    BY <1>1
  <2> HIDE DEF S, s, x
  <2>2. ToSet(Append(s, x)) = ToSet(s) \cup {x}
    BY <2>1, Listed
  <2>. QED
    BY <2>2 DEF s, x
<1>. QED
  BY <1>2 DEF FillRecord

LEMMA RecordOps ==
  ASSUME NEW order \in OrderRecord(Instruments), NEW n \in Nat
  PROVE  /\ Remaining(order) \in Nat
         /\ ApplyFill(order, n) \in OrderRecord(Instruments)
         /\ Cancelled(order) \in OrderRecord(Instruments)
         /\ Expired(order) \in OrderRecord(Instruments)
         /\ Activated(order, n) \in OrderRecord(Instruments)
         /\ Resized(order, n) \in OrderRecord(Instruments)
<1>1. Remaining(order) \in Nat
  BY DEF OrderRecord, Remaining
<1>2. ApplyFill(order, n) \in OrderRecord(Instruments)
  <2>1. order.filled + n \in Nat /\ order.quantity \in Nat
    BY DEF OrderRecord
  <2>. QED
    BY <2>1 DEF OrderRecord, ApplyFill, Statuses, OpenStatuses, TerminalStatuses
<1>3. /\ Cancelled(order) \in OrderRecord(Instruments)
      /\ Expired(order) \in OrderRecord(Instruments)
  BY DEF OrderRecord, Cancelled, Expired, Statuses, TerminalStatuses
<1>4. Activated(order, n) \in OrderRecord(Instruments)
  BY DEF OrderRecord, Activated
<1>5. Resized(order, n) \in OrderRecord(Instruments)
  BY DEF OrderRecord, Resized
<1>. QED
  BY <1>1, <1>2, <1>3, <1>4, <1>5

LEMMA RaisedType ==
  ASSUME NEW ticket \in Ticket(Instruments), NEW status \in Statuses,
         NEW at \in Nat, NEW n \in Nat
  PROVE  Raised(ticket, status, at, n) \in OrderRecord(Instruments)
BY DEF Ticket, Raised, OrderRecord

LEMMA ChildTicketType ==
  ASSUME NEW order \in OrderRecord(Instruments), NEW suffix
  PROVE  ChildTicket(order, suffix) \in Ticket(Instruments)
BY DEF OrderRecord, Ticket, ChildTicket, OppositeOf, Sides, OrderTypes, TimesInForce

LEMMA UnknownType == Unknown \in OrderRecord(Instruments)
<1> DEFINE i == CHOOSE i \in Instruments : TRUE
<1>1. i \in Instruments
  OBVIOUS
<1>2. NoTicket(i) \in Ticket(Instruments)
  BY <1>1 DEF NoTicket, Ticket, Sides, OrderTypes, TimesInForce
<1>. QED
  BY <1>2, RaisedType DEF Unknown, Statuses

(* A lot is never larger than the quantity it is cut from. *)
LEMMA RoundLotBound ==
  ASSUME NEW i \in Instruments, NEW n \in Nat
  PROVE  RoundLot(i, n) \in Nat /\ RoundLot(i, n) <= n
<1>1. LotSize[i] \in Nat \ {0}
  OBVIOUS
<1>. QED
  BY <1>1, SMT DEF RoundLot

(* What a bar may fill of an order never exceeds what remains of it. *)
LEMMA FillableBound ==
  ASSUME TypeOK, NEW o \in Ids
  PROVE  /\ Fillable(orders[o]) \in Nat
         /\ Fillable(orders[o]) <= Remaining(orders[o])
<1>1. orders[o] \in OrderRecord(Instruments) /\ orders[o].instrument \in Instruments
  BY DEF TypeOK, OrderRecord
<1>2. Remaining(orders[o]) \in Nat
  BY <1>1 DEF OrderRecord, Remaining
<1>3. CASE cap = NoBar \/ cap >= Remaining(orders[o])
  BY <1>2, <1>3 DEF Fillable
<1>4. CASE ~(cap = NoBar \/ cap >= Remaining(orders[o]))
  <2>1. cap \in Nat /\ cap < Remaining(orders[o])
    BY <1>2, <1>4 DEF TypeOK
  <2>2. RoundLot(orders[o].instrument, cap) \in Nat /\ RoundLot(orders[o].instrument, cap) <= cap
    BY <1>1, <2>1, RoundLotBound
  <2>. QED
    BY <1>2, <1>4, <2>1, <2>2 DEF Fillable
<1>. QED
  BY <1>3, <1>4

LEMMA TradedType ==
  ASSUME TypeOK, NEW o \in Ids
  PROVE  Traded(o) \in OrderRecord(Instruments)
<1>1. orders[o] \in OrderRecord(Instruments) /\ now \in Nat
  BY DEF TypeOK
<1>. QED
  BY <1>1, RecordOps, FillableBound DEF Traded

-----------------------------------------------------------------------------
(* Type correctness. *)

LEMMA TypeInit == Init => TypeOK
BY UnknownType DEF Init, TypeOK, NoResult, Ids, Policy

LEMMA TypeTake ==
  ASSUME TypeOK, NEW o \in Ids, Take(o)
  PROVE  /\ now' \in Nat /\ policy' \in Policy /\ left' \subseteq Instruments
         /\ cur' \in Instruments \cup {NoInstrument} /\ cap' \in Nat \cup {NoBar}
         /\ todo' \subseteq Ids
BY DEF TypeOK, Take

LEMMA FillSets ==
  ASSUME NEW o \in Ids
  PROVE  /\ CreatedBy(o) \subseteq Ids /\ AcceptedBy(o) \subseteq CreatedBy(o)
         /\ ResizedBy(o) \subseteq Ids /\ DroppedBy(o) \subseteq Ids
BY IdShape DEF CreatedBy, AcceptedBy, ResizedBy, DroppedBy, ExistingChildren

LEMMA FillRecordType ==
  ASSUME TypeOK, NEW o \in Ids
  PROVE  FillRecord(o) \in [id : Ids, quantity : Nat]
BY FillableBound DEF FillRecord

LEMMA QueueType ==
  ASSUME TypeOK, NEW o \in Ids
  PROVE  QueuedWith(o) \in Seq(Ids)
<1> DEFINE sl == <<o[1], "SL">>
           tp == <<o[1], "TP">>
           R  == CreatedBy(o) \ AcceptedBy(o)
<1>1. sl \in Ids /\ tp \in Ids
  BY IdShape DEF ChildrenOf
<1>2. Noted(pendingRejections, sl, sl \in R) \in Seq(Ids)
  BY <1>1, ListTypes, Appended, Zenon
<1>3. Noted(Noted(pendingRejections, sl, sl \in R), tp, tp \in R) \in Seq(Ids)
  BY <1>1, <1>2, Appended, Zenon
<1>. QED
  BY <1>3 DEF QueuedWith

LEMMA TypeFill ==
  ASSUME TypeOK, NEW o \in Ids, Fill(o)
  PROVE  TypeOK'
<1>1. orders' \in [Ids -> OrderRecord(Instruments)]
  <2>. SUFFICES ASSUME NEW x \in Ids PROVE AfterFill(o, x) \in OrderRecord(Instruments)
    BY DEF Fill
  <2>1. orders[x] \in OrderRecord(Instruments) /\ Traded(o) \in OrderRecord(Instruments)
    BY TradedType DEF TypeOK
  <2>2. Traded(o).filled \in Nat /\ now \in Nat /\ arrivals \in Nat
    BY <2>1 DEF OrderRecord, TypeOK
  <2>3. Child(o, x) \in OrderRecord(Instruments)
    BY <2>1, <2>2, ChildTicketType, RaisedType DEF Child, Statuses, OpenStatuses, TerminalStatuses
  <2>. QED
    BY <2>1, <2>2, <2>3, RecordOps DEF AfterFill
<1>2. result' \in ResultType
  <2>1. result \in ResultType /\ FillRecord(o) \in [id : Ids, quantity : Nat] /\ DroppedId(o) \in Ids
    BY TypeParts, FillRecordType, IdShape DEF DroppedId
  <2>2. Noted(result.cancellations, DroppedId(o), DroppedBy(o) # {}) \in Seq(Ids)
    BY <2>1, ListTypes, Appended, Zenon
  <2>3. result' = [result EXCEPT !.fills = Append(@, FillRecord(o)),
                   !.cancellations = Noted(@, DroppedId(o), DroppedBy(o) # {})]
    BY DEF Fill
  <2>. QED
    BY <2>1, <2>2, <2>3, ResultOps, Zenon
<1>3. /\ arrivals' \in Nat /\ book' \subseteq Ids /\ brackets' \subseteq Ids
      /\ oco' \subseteq Ids
  BY FillSets, IdShape, TypeParts DEF Fill, BookTypes, LinksWith
<1>5. pendingRejections' \in Seq(Ids)
  BY QueueType DEF Fill
<1>4. phase' = phase /\ Take(o)
  BY DEF Fill, Trades
<1>. QED
  BY <1>1, <1>2, <1>3, <1>4, <1>5, TypeTake, TypeParts DEF BookTypes

LEMMA TypeForget ==
  ASSUME TypeOK, NEW S \in SUBSET Ids, Forget(S)
  PROVE  book' \subseteq Ids /\ brackets' \subseteq Ids /\ oco' \subseteq Ids
BY DEF TypeOK, Forget

LEMMA TypeReport ==
  ASSUME TypeOK, NEW o \in Ids, Report("expirations", o)
  PROVE  result' \in ResultType
<1>1. result \in ResultType /\ result' = [result EXCEPT !.expirations = Append(@, o)]
  BY TypeParts DEF Report
<1>2. Append(result.expirations, o) \in Seq(Ids)
  BY ListTypes, Appended, Zenon
<1>. QED
  BY <1>1, <1>2, ResultParts, Zenon

LEMMA TypeNext == TypeOK /\ [Next]_vars => TypeOK'
<1> SUFFICES ASSUME TypeOK, [Next]_vars PROVE TypeOK'
  OBVIOUS
<1>1. ASSUME NEW e \in Entries, NEW ticket \in Tickets, NEW at \in {now, now + 1},
             Submit(e, ticket, at)
      PROVE TypeOK'
  <2>1. EntryId(e) \in Ids /\ at \in Nat /\ arrivals + 1 \in Nat /\ ticket \in Ticket(Instruments)
    BY DEF EntryId, Ids, TypeOK
  <2>2. /\ Raised(ticket, "REJECTED", at, 0) \in OrderRecord(Instruments)
        /\ Raised(ticket, "ACCEPTED", at, arrivals + 1) \in OrderRecord(Instruments)
    BY <2>1, RaisedType DEF Statuses, OpenStatuses, TerminalStatuses
  <2>. QED
    <3>1. pendingRejections' \in Seq(Ids) /\ result' \in ResultType
      <4>1. /\ result' = result
            /\ pendingRejections' \in {pendingRejections, Append(pendingRejections, EntryId(e))}
        BY <1>1 DEF Submit
      <4>2. Append(pendingRejections, EntryId(e)) \in Seq(Ids)
        BY <2>1, ListTypes, Appended, Zenon
      <4>. QED
        BY <4>1, <4>2, TypeParts
    <3>2. BookTypes'
      BY <1>1, <2>1, <2>2, TypeParts DEF Submit, BookTypes, loopVars
    <3>. QED
      BY <3>1, <3>2, TypeParts
<1>2. ASSUME NEW S \in SUBSET Ids, CancelOrders(S)
      PROVE TypeOK'
  <2>1. orders' \in [Ids -> OrderRecord(Instruments)]
    BY <1>2, RecordOps DEF CancelOrders, TypeOK
  <2>. QED
    BY <1>2, <2>1, TypeForget DEF CancelOrders, TypeOK, loopVars
<1>3. CASE BeginBar
  <2>1. BookTypes'
    BY <1>3, TypeParts DEF BeginBar, BookTypes, OrderRecord
  <2>2. result' \in ResultType /\ pendingRejections' \in Seq(Ids)
    <3>1. /\ NoResult \in ResultType /\ pendingRejections \in Seq(Ids)
          /\ result' = [NoResult EXCEPT !.rejections = pendingRejections]
          /\ pendingRejections' = <<>>
      BY <1>3, EmptyResult, TypeParts DEF BeginBar
    <3>2. result' \in ResultType
      BY <3>1, ResultParts, Zenon
    <3>. QED
      BY <3>1, <3>2
  <2>. QED
    BY <2>1, <2>2, TypeParts
<1>4. ASSUME NEW i \in left, NEW bar \in Caps \cup {NoBar}, OpenBook(i, bar)
      PROVE TypeOK'
  BY <1>4 DEF OpenBook, TypeOK, bookVars
<1>5. ASSUME NEW o \in todo, Pass(o)
      PROVE TypeOK'
  BY <1>5, TypeTake DEF Pass, TypeOK, bookVars
<1>6. ASSUME NEW o \in todo, Lapse(o)
      PROVE TypeOK'
  <2>1. o \in Ids /\ {o} \in SUBSET Ids /\ Expired(orders[o]) \in OrderRecord(Instruments)
    BY RecordOps DEF TypeOK
  <2>. QED
    BY <1>6, <2>1, TypeTake, TypeForget, TypeReport, TypeParts DEF Lapse, BookTypes
<1>7. ASSUME NEW o \in todo, Miss(o)
      PROVE TypeOK'
  <2>1. /\ o \in Ids /\ {o} \in SUBSET Ids
        /\ Activated(orders[o], now) \in OrderRecord(Instruments)
        /\ Expired(Activated(orders[o], now)) \in OrderRecord(Instruments)
    BY RecordOps DEF TypeOK
  <2>. QED
    BY <1>7, <2>1, TypeTake, TypeForget, TypeReport, TypeParts DEF Miss, BookTypes
<1>8. ASSUME NEW o \in todo, Fill(o)
      PROVE TypeOK'
  BY <1>8, TypeFill DEF TypeOK
<1>9. ASSUME NEW o \in todo, DuplicateChild(o)
      PROVE TypeOK'
  <2>1. o \in Ids /\ Traded(o) \in OrderRecord(Instruments)
    BY TradedType DEF TypeOK
  <2>2. result' \in ResultType
    <3>1. /\ result \in ResultType /\ FillRecord(o) \in [id : Ids, quantity : Nat]
          /\ result' = [result EXCEPT !.fills = Append(@, FillRecord(o))]
      BY <1>9, <2>1, FillRecordType, TypeParts DEF DuplicateChild, Report
    <3>2. Append(result.fills, FillRecord(o)) \in Seq([id : Ids, quantity : Nat])
      BY <3>1, ListTypes, Appended, Zenon
    <3>. QED
      BY <3>1, <3>2, ResultParts, EmptyResult, Zenon
  <2>. QED
    BY <1>9, <2>1, <2>2, TypeTake, TypeParts DEF DuplicateChild, Trades, BookTypes
<1>10. CASE CloseBook
  BY <1>10 DEF CloseBook, TypeOK
<1>11. CASE EndBar
  BY <1>11, TypeParts, EmptyResult DEF EndBar, BookTypes, bookVars
<1>12. CASE UNCHANGED vars
  BY <1>12 DEF vars, bookVars, loopVars, TypeOK
<1>. QED
  BY <1>1, <1>2, <1>3, <1>4, <1>5, <1>6, <1>7, <1>8, <1>9, <1>10, <1>11, <1>12
     DEF Next, Cancel, CancelAll, ProcessBar, Visit, Work, Working

(* Every variable keeps its type, whatever the constants. *)
THEOREM TypeCorrect == Spec => []TypeOK
BY TypeInit, TypeNext, PTL DEF Spec

-----------------------------------------------------------------------------
(* The inductive invariant, one action or group of actions at a time. *)

SameTerms(a, b) ==
  /\ b.instrument = a.instrument /\ b.type = a.type /\ b.legs = a.legs
  /\ b.submitted = a.submitted

LEMMA FillAdds ==
  ASSUME TypeOK, NEW o \in todo, Fill(o)
  PROVE  /\ ToSet(result'.fills) = ToSet(result.fills) \cup {FillRecord(o)}
         /\ FillRecord(o).id = o
<1>1. o \in Ids /\ result'.fills = Append(result.fills, FillRecord(o))
  BY ListTypes, TypeParts DEF Fill, BookTypes
<1>. QED
  BY <1>1, FillListed, FillRecordType

(* Cancel, Pass, Lapse and Miss fill nothing: the orders of S close and    *)
(* are forgotten, the others keep their status.                            *)
Withdraws(S) ==
  /\ \A x \in Ids :
       /\ SameTerms(orders[x], orders'[x])
       /\ orders'[x].filled = orders[x].filled
       /\ orders'[x].quantity = orders[x].quantity
       /\ IF x \in S THEN orders'[x].status \in {"CANCELLED", "EXPIRED"}
                     ELSE orders'[x].status = orders[x].status
  /\ Forget(S)
  /\ ToSet(result'.fills) = ToSet(result.fills)
  /\ todo' \subseteq todo
  /\ phase = "idle" => UNCHANGED <<todo, result>>
  /\ UNCHANGED <<now, policy, phase, left, cur>>

(* The transitions of OrderContract, read off the orders themselves.       *)
Moves(a, b) ==
  \/ a.status = b.status /\ a.quantity = b.quantity /\ a.filled = b.filled
  \/ Contract!Intake(a, b)
  \/ Contract!Execution(a, b)
  \/ Contract!Withdrawal(a, b)
  \/ Contract!Resizing(a, b)

(* What every action keeps: the invariant, and the contract of each order. *)
Keeps == BrokerInv' /\ \A x \in Ids : Moves(orders[x], orders'[x])

LEMMA InvInit == Init => BrokerInv
<1> SUFFICES ASSUME Init PROVE BrokerInv
  OBVIOUS
<1>1. \A o \in Ids : /\ orders[o].status = "absent" /\ orders[o].filled = 0
                     /\ ~IsOpen(orders[o]) /\ ~IsKnown(o)
  BY DEF Init, Unknown, Raised, IsOpen, OpenStatuses, IsKnown
<1>2. \A e \in Entries : EntryId(e) \in Ids /\ LegIds(e) \subseteq Ids
  BY DEF EntryId, LegIds, StopLeg, TargetLeg, Ids
<1>3. Working = {} /\ ToSet(result.fills) = {}
  BY <1>1, NothingListed DEF Working, Init, NoResult
<1>. QED
  BY <1>1, <1>2, <1>3 DEF Init, BrokerInv, LoopInv, OrderInv, LegInv, BracketInv, BookIsIndex,
     SpecsAreLive, LinksPairOpenLegs, StopBeatsTarget, EntriesAreProtected, NoLookahead,
     TradedThisBar, Entry, LegIds

LEMMA InvWithdraw ==
  ASSUME TypeOK, BrokerInv, NEW S \in SUBSET Working, Withdraws(S)
  PROVE  Keeps
<1> USE DEF Withdraws, SameTerms
<1>1. \A x \in Ids : /\ IsOpen(orders'[x]) <=> IsOpen(orders[x]) /\ x \notin S
                     /\ IsKnown(x)' <=> IsKnown(x)
                     /\ orders'[x].status = "FILLED" <=> orders[x].status = "FILLED"
                     /\ orders'[x].status = "REJECTED" <=> orders[x].status = "REJECTED"
  BY DEF IsOpen, IsKnown, OpenStatuses, Working
<1>2. Working' = Working \ S
  BY <1>1 DEF Working
<1>3. \A e \in Entries : EntryId(e) \in Ids /\ LegIds(e) \subseteq Ids
                        /\ StopLeg(e) \in Ids /\ TargetLeg(e) \in Ids
  BY DEF EntryId, LegIds, StopLeg, TargetLeg, Ids
<1>4. book \subseteq Ids /\ todo \subseteq Ids /\ brackets \subseteq Ids
      /\ \A f \in ToSet(result.fills) : f.id \in Ids
  BY ListTypes, TypeParts DEF BookTypes
<1>5. LoopInv'
  BY <1>1, <1>4 DEF BrokerInv, LoopInv
<1>6. OrderInv'
  BY <1>1 DEF BrokerInv, OrderInv, IsOpen, OpenStatuses, Working
<1>7. LegInv'
  BY <1>1, <1>3, <1>4, IdShape DEF BrokerInv, LegInv, Entry, Forget
<1>8. BracketInv'
  BY <1>1, <1>3 DEF BrokerInv, BracketInv, Entry, TradedThisBar, Forget
<1>9. BookIsIndex'
  BY <1>1, <1>2, <1>4 DEF BrokerInv, BookIsIndex, Forget
<1>10. SpecsAreLive'
  BY <1>1, <1>2, <1>4 DEF BrokerInv, SpecsAreLive, Forget, IsLeg
<1>11. LinksPairOpenLegs'
  <2>1. oco' = oco \ Linked(S, oco)
    BY DEF Forget
  <2>2. ASSUME NEW e \in Entries
        PROVE  (StopLeg(e) \in Linked(S, oco) \/ TargetLeg(e) \in Linked(S, oco)) =>
                 /\ StopLeg(e) \in Linked(S, oco) \/ StopLeg(e) \notin oco
                 /\ TargetLeg(e) \in Linked(S, oco) \/ TargetLeg(e) \notin oco
                 /\ StopLeg(e) \in S \/ TargetLeg(e) \in S
    BY LegPair, IdShape, <1>4 DEF Linked, TypeOK
  <2>3. ASSUME NEW e \in Entries
        PROVE  (StopLeg(e) \in S \/ TargetLeg(e) \in S) /\ LegIds(e) \subseteq oco
                 => StopLeg(e) \in Linked(S, oco)
    BY LegPair DEF Linked, LegIds
  <2>. QED
    BY <1>1, <1>2, <1>3, <2>1, <2>2, <2>3 DEF BrokerInv, LinksPairOpenLegs, LegIds
<1>12. StopBeatsTarget'
  BY <1>1, <1>3 DEF BrokerInv, StopBeatsTarget, TradedThisBar
<1>13. EntriesAreProtected'
  BY <1>1, <1>3 DEF BrokerInv, EntriesAreProtected, Entry
<1>14. NoLookahead'
  BY <1>4 DEF BrokerInv, NoLookahead, IsLeg
<1>15. \A x \in Ids : Moves(orders[x], orders'[x])
  <2>. SUFFICES ASSUME NEW x \in Ids PROVE Moves(orders[x], orders'[x])
    OBVIOUS
  <2>1. CASE x \in S
    BY <2>1 DEF Moves, Contract!Withdrawal, Contract!Live, Working, IsOpen, OpenStatuses
  <2>2. CASE x \notin S
    BY <2>2 DEF Moves
  <2>. QED
    BY <2>1, <2>2
<1>. QED
  BY <1>5, <1>6, <1>7, <1>8, <1>9, <1>10, <1>11, <1>12, <1>13, <1>14, <1>15 DEF BrokerInv, Keeps

LEMMA InvCancel ==
  ASSUME TypeOK, BrokerInv, NEW S \in SUBSET Working, CancelOrders(S)
  PROVE  Keeps
<1>1. \A x \in Ids : orders'[x] = IF x \in S THEN Cancelled(orders[x]) ELSE orders[x]
  BY DEF CancelOrders
<1>2. \A x \in Ids : orders[x] \in OrderRecord(Instruments)
  BY DEF TypeOK
<1>3. Withdraws(S)
  BY <1>1, <1>2 DEF Withdraws, CancelOrders, loopVars, SameTerms, Cancelled, OrderRecord
<1>. QED
  BY <1>3, InvWithdraw

LEMMA InvPass ==
  ASSUME TypeOK, BrokerInv, NEW o \in todo, Pass(o)
  PROVE  Keeps
<1>1. Withdraws({})
  BY DEF Pass, Take, Withdraws, bookVars, SameTerms, Forget, Linked
<1>. QED
  BY <1>1, InvWithdraw

LEMMA InvLapse ==
  ASSUME TypeOK, BrokerInv, NEW o \in todo, Lapse(o)
  PROVE  Keeps
<1>1. o \in Ids /\ o \in Working
  BY DEF TypeOK, Lapse, ShouldExpire, Working
<1>2. \A x \in Ids : orders'[x] = IF x = o THEN Expired(orders[x]) ELSE orders[x]
  BY DEF Lapse, TypeOK
<1>3. \A x \in Ids : orders[x] \in OrderRecord(Instruments)
  BY DEF TypeOK
<1>4. ToSet(result'.fills) = ToSet(result.fills)
  BY DEF Lapse, Report, TypeOK
<1>5. Withdraws({o})
  BY <1>2, <1>3, <1>4 DEF Withdraws, Lapse, Take, SameTerms, Expired, OrderRecord
<1>. QED
  BY <1>1, <1>5, InvWithdraw

LEMMA ClosedTerms ==
  ASSUME NEW order \in OrderRecord(Instruments), NEW at \in Nat
  PROVE  /\ SameTerms(order, Activated(order, at))
         /\ Activated(order, at).filled = order.filled
         /\ Activated(order, at).quantity = order.quantity
         /\ Activated(order, at).status = order.status
         /\ SameTerms(order, Expired(order)) /\ Expired(order).filled = order.filled
         /\ Expired(order).quantity = order.quantity /\ Expired(order).status = "EXPIRED"
BY DEF SameTerms, Expired, Activated, OrderRecord

LEMMA InvMiss ==
  ASSUME TypeOK, BrokerInv, NEW o \in todo, Miss(o)
  PROVE  Keeps
<1>1. o \in Ids /\ o \in Working
  BY DEF TypeOK, Miss, IsWorkable, IsEligible, Working
<1>2. \A x \in Ids : /\ orders[x] \in OrderRecord(Instruments) /\ now \in Nat
                     /\ Activated(orders[x], now) \in OrderRecord(Instruments)
  BY RecordOps DEF TypeOK
<1>3. CASE IsOneShot(orders[o])
  <2>1. \A x \in Ids : orders'[x] = IF x = o THEN Expired(Activated(orders[x], now)) ELSE orders[x]
    BY <1>3 DEF Miss, TypeOK
  <2>2. ToSet(result'.fills) = ToSet(result.fills)
    BY <1>3 DEF Miss, Report, TypeOK
  <2>3. /\ UNCHANGED <<now, policy, phase, left, cur>> /\ Forget({o})
        /\ todo' \subseteq todo /\ phase = "bar"
    BY <1>3 DEF Miss, Take
  <2>4. \A x \in Ids : /\ SameTerms(orders[x], orders'[x])
                       /\ orders'[x].filled = orders[x].filled
                       /\ orders'[x].quantity = orders[x].quantity
                       /\ orders'[x].status = IF x = o THEN "EXPIRED" ELSE orders[x].status
    BY <1>2, <2>1, ClosedTerms DEF SameTerms
  <2>5. Withdraws({o})
    BY <2>2, <2>3, <2>4 DEF Withdraws
  <2>. QED
    BY <1>1, <2>5, InvWithdraw
<1>4. CASE ~IsOneShot(orders[o])
  <2>1. \A x \in Ids : orders'[x] = IF x = o THEN Activated(orders[x], now) ELSE orders[x]
    BY <1>4 DEF Miss, TypeOK
  <2>2. /\ UNCHANGED <<book, brackets, oco, result, now, policy, phase, left, cur>>
        /\ todo' \subseteq todo /\ phase = "bar"
    BY <1>4 DEF Miss, Take
  <2>3. Forget({})
    BY <2>2 DEF Forget, Linked
  <2>4. \A x \in Ids : /\ SameTerms(orders[x], orders'[x])
                       /\ orders'[x].filled = orders[x].filled
                       /\ orders'[x].quantity = orders[x].quantity
                       /\ orders'[x].status = orders[x].status
    BY <1>2, <2>1, ClosedTerms DEF SameTerms
  <2>5. Withdraws({})
    BY <2>2, <2>3, <2>4 DEF Withdraws
  <2>. QED
    BY <2>5, InvWithdraw
<1>. QED
  BY <1>3, <1>4

(* BeginBar and EndBar touch no order; a new instant is past every leg.    *)
LEMMA InvBeginBar ==
  ASSUME TypeOK, BrokerInv, BeginBar
  PROVE  Keeps
<1> USE DEF BeginBar
<1>1. ToSet(result'.fills) = {} /\ ToSet(result.fills) = {} /\ left' \subseteq Instruments /\ cur = NoInstrument /\ todo = {}
  <2>1. /\ result' = [NoResult EXCEPT !.rejections = pendingRejections] /\ result = NoResult
        /\ cur = NoInstrument /\ todo = {} /\ BookTypes
        /\ left' = {orders[o].instrument : o \in book}
    BY TypeParts DEF BrokerInv, LoopInv
  <2>2. result'.fills = <<>> /\ result.fills = <<>>
    BY <2>1 DEF NoResult
  <2>3. left' \subseteq Instruments
    BY <2>1 DEF BookTypes, OrderRecord
  <2>. QED
    BY <2>1, <2>2, <2>3, NothingListed
<1>2. UNCHANGED <<orders, book, brackets, oco, todo, cur>> /\ now' = now + 1 /\ now \in Nat
      /\ phase = "idle" /\ phase' = "bar"
  BY DEF TypeOK
<1>3. LoopInv'
  BY <1>1, <1>2 DEF BrokerInv, LoopInv
<1>4. OrderInv'
  BY <1>2 DEF BrokerInv, OrderInv
<1>5. LegInv'
  <2>1. \A x \in Ids : orders[x].submitted \in Nat
    BY DEF TypeOK, OrderRecord
  <2> HIDE DEF BeginBar
  <2>. QED
    BY <1>1, <1>2, <2>1, LegPair DEF BrokerInv, LegInv, Entry, IsKnown
<1>6. BracketInv'
  BY <1>1, <1>2 DEF BrokerInv, BracketInv, Entry, TradedThisBar
<1>7. BookIsIndex'
  BY <1>2 DEF BrokerInv, BookIsIndex, Working
<1>8. SpecsAreLive' /\ LinksPairOpenLegs' /\ EntriesAreProtected'
  BY <1>2 DEF BrokerInv, SpecsAreLive, LinksPairOpenLegs, Working, EntriesAreProtected, Entry, IsKnown
<1>9. StopBeatsTarget' /\ NoLookahead'
  BY <1>1, <1>2 DEF BrokerInv, StopBeatsTarget, TradedThisBar, NoLookahead
<1>. QED
  BY <1>2, <1>3, <1>4, <1>5, <1>6, <1>7, <1>8, <1>9 DEF BrokerInv, Keeps, Moves

LEMMA InvOpenBook ==
  ASSUME TypeOK, BrokerInv, NEW i \in left, NEW bar \in Caps \cup {NoBar}, OpenBook(i, bar)
  PROVE  Keeps
<1>1. /\ UNCHANGED <<orders, book, brackets, oco, result, now, policy, phase>>
      /\ left' = left \ {i} /\ cur' = i /\ cur = NoInstrument /\ i \in left /\ phase = "bar"
      /\ todo' = {o \in book : orders[o].instrument = i}
  BY DEF OpenBook, bookVars
<1>2. book = Working
  <2>1. \A o \in book : orders[o].instrument # NoInstrument
    BY DEF TypeOK, OrderRecord
  <2>. QED
    BY <1>1, <2>1 DEF BrokerInv, BookIsIndex
<1>3. LoopInv'
  BY <1>1, <1>2 DEF BrokerInv, LoopInv, Working, IsKnown, IsOpen, OpenStatuses
<1>4. LegInv'
  BY <1>1, LegPair DEF BrokerInv, LegInv, Entry, IsKnown
<1>5. BracketInv'
  <2>1. ASSUME NEW e \in Entries, TradedThisBar(TargetLeg(e)), StopLeg(e) \in todo'
        PROVE  FALSE
    <3>1. IsKnown(TargetLeg(e)) /\ orders[TargetLeg(e)].instrument \notin left
      BY <2>1 DEF BrokerInv, LoopInv, TradedThisBar
    <3>2. IsKnown(StopLeg(e)) /\ orders[StopLeg(e)].instrument = i
      BY <1>1, <1>2, <2>1 DEF Working, IsKnown, IsOpen, OpenStatuses
    <3>. QED
      BY <1>1, <3>1, <3>2, LegPair DEF BrokerInv, LegInv
  <2>. QED
    BY <1>1, <2>1 DEF BrokerInv, BracketInv, Entry, TradedThisBar
<1>6. BookIsIndex'
  BY <1>1, <1>2 DEF BrokerInv, BookIsIndex, Working
<1>7. OrderInv' /\ SpecsAreLive' /\ LinksPairOpenLegs' /\ EntriesAreProtected'
  BY <1>1 DEF BrokerInv, OrderInv, SpecsAreLive, LinksPairOpenLegs, Working, EntriesAreProtected, Entry, IsKnown
<1>8. StopBeatsTarget' /\ NoLookahead'
  BY <1>1 DEF BrokerInv, StopBeatsTarget, TradedThisBar, NoLookahead
<1>. QED
  BY <1>1, <1>3, <1>4, <1>5, <1>6, <1>7, <1>8 DEF BrokerInv, Keeps, Moves

LEMMA InvCloseBook ==
  ASSUME TypeOK, BrokerInv, CloseBook
  PROVE  Keeps
<1>1. /\ UNCHANGED <<orders, oco, result, now, policy, phase, left, todo>>
      /\ cur' = NoInstrument /\ cur # NoInstrument /\ todo = {} /\ phase = "bar"
      /\ book' = Working
      /\ \A o \in brackets : o \in brackets' <=> IsOpen(orders[o])
      /\ brackets' \subseteq brackets
  <2>1. \A o \in book : orders[o].instrument = cur \/ IsOpen(orders[o])
    BY DEF BrokerInv, BookIsIndex, TypeOK, Working
  <2>2. \A o \in brackets : o \in book
    BY DEF BrokerInv, SpecsAreLive
  <2>3. Working \subseteq book /\ book \subseteq Ids
    BY DEF BrokerInv, BookIsIndex, TypeOK
  <2>. QED
    BY <2>1, <2>2, <2>3 DEF CloseBook, Working
<1>2. LoopInv'
  BY <1>1 DEF BrokerInv, LoopInv, IsKnown, TypeOK
<1>3. LegInv'
  BY <1>1, LegPair DEF BrokerInv, LegInv, Entry, IsKnown, BookIsIndex
<1>4. BracketInv'
  BY <1>1 DEF BrokerInv, BracketInv, Entry, TradedThisBar
<1>5. BookIsIndex'
  BY <1>1 DEF BookIsIndex, Working
<1>6. OrderInv' /\ SpecsAreLive' /\ LinksPairOpenLegs' /\ EntriesAreProtected'
  BY <1>1 DEF BrokerInv, OrderInv, SpecsAreLive, LinksPairOpenLegs, Working, EntriesAreProtected,
     Entry, IsKnown, TypeOK
<1>7. StopBeatsTarget' /\ NoLookahead'
  BY <1>1 DEF BrokerInv, StopBeatsTarget, TradedThisBar, NoLookahead
<1>. QED
  BY <1>1, <1>2, <1>3, <1>4, <1>5, <1>6, <1>7 DEF BrokerInv, Keeps, Moves

LEMMA InvEndBar ==
  ASSUME TypeOK, BrokerInv, EndBar
  PROVE  Keeps
<1>1. /\ UNCHANGED <<orders, book, brackets, oco, now, policy, left, cur, todo>>
      /\ left = {} /\ cur = NoInstrument /\ result' = NoResult /\ ToSet(NoResult.fills) = {}
      /\ phase' = "idle"
  BY NothingListed DEF EndBar, bookVars, NoResult
<1>2. todo = {} /\ book = Working
  <2>1. \A o \in Ids : orders[o].instrument # NoInstrument
    BY DEF TypeOK, OrderRecord
  <2>. QED
    BY <1>1, <2>1 DEF BrokerInv, LoopInv, BookIsIndex, TypeOK
<1>3. LoopInv'
  BY <1>1, <1>2 DEF LoopInv
<1>4. LegInv'
  BY <1>1, LegPair DEF BrokerInv, LegInv, Entry, IsKnown
<1>5. BracketInv'
  BY <1>1, <1>2 DEF BrokerInv, BracketInv, Entry
<1>6. BookIsIndex'
  BY <1>1, <1>2 DEF BookIsIndex, Working
<1>7. OrderInv' /\ SpecsAreLive' /\ LinksPairOpenLegs' /\ EntriesAreProtected'
  BY <1>1 DEF BrokerInv, OrderInv, SpecsAreLive, LinksPairOpenLegs, Working, EntriesAreProtected, Entry, IsKnown
<1>8. StopBeatsTarget' /\ NoLookahead'
  BY <1>1 DEF BrokerInv, StopBeatsTarget, TradedThisBar, NoLookahead
<1>. QED
  BY <1>1, <1>3, <1>4, <1>5, <1>6, <1>7, <1>8 DEF BrokerInv, Keeps, Moves

(* A new entry has no leg yet, and its quantity is positive. *)
LEMMA InvSubmit ==
  ASSUME TypeOK, BrokerInv, NEW e \in Entries, NEW ticket \in Tickets,
         NEW at \in {now, now + 1}, Submit(e, ticket, at)
  PROVE  Keeps
<1> DEFINE o == EntryId(e)
<1>1. /\ o \in Ids /\ ~IsKnown(o) /\ orders[o].filled = 0 /\ phase = "idle"
      /\ UNCHANGED <<now, policy, oco, result, phase, left, cur, todo>>
      /\ ToSet(result.fills) = {} /\ todo = {} /\ left = {}
  BY LegPair, NothingListed DEF Submit, loopVars, BrokerInv, OrderInv, LoopInv, IsKnown, NoResult
<1>2. \A x \in Ids \ {o} : orders'[x] = orders[x]
  BY <1>1 DEF Submit, TypeOK
<1>3. /\ orders'[o].filled = 0 /\ orders'[o].instrument = ticket.instrument
      /\ orders'[o].legs = ticket.legs /\ orders'[o].quantity = ticket.quantity
      /\ ticket.quantity \in Nat
  BY <1>1, TypeParts DEF Submit, BookTypes, Raised, Ticket
<1>4. \/ /\ orders'[o].status = "REJECTED"
         /\ UNCHANGED <<book, brackets>>
      \/ /\ orders'[o].status = "ACCEPTED" /\ ticket.quantity > 0
         /\ book' = book \cup {o}
         /\ brackets' = IF ticket.legs # {} THEN brackets \cup {o} ELSE brackets
  <2>1. CASE IsRefused(ticket, at)
    BY <1>1, <2>1 DEF Submit, TypeOK, Raised
  <2>2. CASE ~IsRefused(ticket, at)
    <3>1. ticket.instrument \in Instruments /\ ticket.quantity \in Nat
      BY DEF Ticket
    <3>2. ticket.quantity > 0
      BY <2>2, <3>1, RoundLotBound DEF IsRefused
    <3>. QED
      BY <1>1, <2>2, <3>2 DEF Submit, TypeOK, Raised
  <2>. QED
    BY <2>1, <2>2
<1>5. \A c \in LegIds(e) : ~IsKnown(c) /\ c \in Ids \ {o}
  <2>1. Entry(e).filled = 0
    BY <1>1 DEF Entry
  <2>. QED
    BY <2>1, LegPair DEF BrokerInv, LegInv
<1>6. \A d \in Entries : LegIds(d) \subseteq Ids \ {o} /\ (d # e => EntryId(d) \in Ids \ {o})
  BY LegPair
<1>7. \A x \in Ids \ {o} : (IsKnown(x)' <=> IsKnown(x)) /\ (x \in Working' <=> x \in Working)
                           /\ (x \in book' <=> x \in book) /\ (x \in brackets' <=> x \in brackets)
  BY <1>2, <1>4 DEF IsKnown, Working
<1>8. IsOpen(orders'[o]) <=> orders'[o].status = "ACCEPTED"
  BY <1>4 DEF IsOpen, OpenStatuses
<1>9. LoopInv'
  BY <1>1 DEF BrokerInv, LoopInv
<1>10. OrderInv'
  BY <1>1, <1>2, <1>3, <1>4 DEF BrokerInv, OrderInv, IsOpen, OpenStatuses
<1>11. LegInv'
  <2>. SUFFICES ASSUME NEW d \in Entries, NEW c \in LegIds(d), IsKnown(c)'
                PROVE  /\ IsKnown(c) /\ d # e
                       /\ UNCHANGED <<Entry(d), orders[c], orders[Sibling(c)], todo, left>>
                       /\ c \in book' <=> c \in book
    BY <1>1 DEF BrokerInv, LegInv
  <2>1. c \in Ids \ {o} /\ IsKnown(c) /\ d # e
    BY <1>5, <1>6, <1>7
  <2>2. EntryId(d) \in Ids \ {o} /\ Sibling(c) \in Ids \ {o}
    BY <1>6, <2>1, LegPair
  <2>. QED
    BY <1>1, <1>2, <1>7, <2>1, <2>2 DEF Entry
<1>12. BracketInv'
  BY <1>1, <1>2, <1>3, <1>4, <1>6, <1>7 DEF BrokerInv, BracketInv, Entry, TradedThisBar, IsOpen, OpenStatuses
<1>13. BookIsIndex'
  <2>1. book = Working
    BY <1>1 DEF BrokerInv, BookIsIndex
  <2>2. o \in Working' <=> o \in book'
    BY <1>1, <1>4, <1>8, <2>1 DEF Working, IsKnown, IsOpen, OpenStatuses
  <2>3. book' = Working'
    BY <1>4, <1>7, <2>1, <2>2 DEF Working, TypeOK
  <2>. QED
    BY <2>3 DEF BookIsIndex
<1>14. SpecsAreLive'
  <2>1. o \notin brackets /\ brackets \subseteq Ids
    BY <1>1 DEF BrokerInv, SpecsAreLive, BookIsIndex, Working, IsKnown, IsOpen, OpenStatuses, TypeOK
  <2>2. ASSUME NEW x \in brackets'
        PROVE  x \in book' /\ ~IsLeg(x) /\ orders'[x].legs # {}
    <3>1. CASE x = o
      BY <1>3, <1>4, <2>1, <2>2, <3>1, LegPair
    <3>2. CASE x # o
      BY <1>2, <1>4, <2>1, <2>2, <3>2 DEF BrokerInv, SpecsAreLive
    <3>. QED
      BY <3>1, <3>2
  <2>. QED
    BY <2>2 DEF SpecsAreLive
<1>15. LinksPairOpenLegs'
  BY <1>1, <1>2, <1>6, <1>7 DEF BrokerInv, LinksPairOpenLegs
<1>16. StopBeatsTarget'
  BY <1>1, <1>2, <1>6, LegPair DEF BrokerInv, StopBeatsTarget, TradedThisBar
<1>17. EntriesAreProtected'
  <2>. SUFFICES ASSUME NEW d \in Entries, Entry(d)'.filled > 0
                PROVE  /\ UNCHANGED Entry(d)
                       /\ \A c \in LegIds(d) : UNCHANGED orders[c]
    BY DEF BrokerInv, EntriesAreProtected, IsKnown
  <2>. QED
    BY <1>2, <1>3, <1>6 DEF Entry
<1>18. NoLookahead'
  BY <1>1 DEF NoLookahead
<1>19. \A x \in Ids : Moves(orders[x], orders'[x])
  BY <1>1, <1>2, <1>3, <1>4 DEF Moves, Contract!Intake, IsKnown
<1>. QED
  BY <1>9, <1>10, <1>11, <1>12, <1>13, <1>14, <1>15, <1>16, <1>17, <1>18, <1>19 DEF BrokerInv, Keeps

(* What a fill does to the order it fills. *)
LEMMA TradedFacts ==
  ASSUME TypeOK, BrokerInv, NEW o \in todo, Trades(o)
  PROVE  /\ o \in Ids /\ IsOpen(orders[o]) /\ orders[o].instrument = cur /\ phase = "bar"
         /\ SameTerms(orders[o], Traded(o)) /\ Traded(o).quantity = orders[o].quantity
         /\ Traded(o).filled \in Nat /\ Traded(o).filled > orders[o].filled
         /\ Traded(o).filled <= Traded(o).quantity
         /\ Traded(o).status = IF Traded(o).filled = Traded(o).quantity THEN "FILLED"
                                                                     ELSE "PARTIALLY_FILLED"
         /\ todo' = todo \ {o}
         /\ UNCHANGED <<now, policy, left, cur>>
<1>1. o \in Ids /\ IsOpen(orders[o]) /\ phase = "bar" /\ orders[o] \in OrderRecord(Instruments)
      /\ orders[o].instrument = cur
  BY DEF TypeOK, Trades, Take, IsWorkable, IsEligible, BrokerInv, LoopInv
<1> DEFINE q == Fillable(orders[o])
           a == Activated(orders[o], now)
<1>2. q \in Nat /\ q # 0 /\ q <= Remaining(orders[o])
  BY <1>1, FillableBound DEF Trades
<1>3. /\ a.filled = orders[o].filled /\ a.quantity = orders[o].quantity
      /\ a.filled \in Nat /\ a.quantity \in Nat /\ SameTerms(orders[o], a)
      /\ a \in OrderRecord(Instruments)
  BY <1>1, RecordOps DEF Activated, OrderRecord, SameTerms, TypeOK
<1>4. a.filled + q <= a.quantity
  BY <1>2, <1>3 DEF Remaining
<1> HIDE DEF q, a
<1>5. /\ ApplyFill(a, q).filled = a.filled + q /\ ApplyFill(a, q).quantity = a.quantity
      /\ SameTerms(a, ApplyFill(a, q))
      /\ ApplyFill(a, q).status = IF a.filled + q = a.quantity THEN "FILLED" ELSE "PARTIALLY_FILLED"
  BY <1>2, <1>3, <1>4 DEF ApplyFill, SameTerms, OrderRecord
<1>6. Traded(o) = ApplyFill(a, q)
  BY DEF Traded, a, q
<1>7. SameTerms(orders[o], Traded(o))
  BY <1>3, <1>5, <1>6 DEF SameTerms
<1>8. /\ todo' = todo \ {o}
      /\ UNCHANGED <<now, policy, left, cur>>
  BY DEF Trades, Take
<1>. QED
  BY <1>1, <1>2, <1>3, <1>4, <1>5, <1>6, <1>7, <1>8

(* The exception leaves every index as it was, and only the entry changed. *)
LEMMA InvDuplicateChild ==
  ASSUME TypeOK, BrokerInv, NEW o \in todo, DuplicateChild(o)
  PROVE  Keeps
<1> DEFINE t == Traded(o)
<1>1. Trades(o) /\ phase' = "crashed" /\ UNCHANGED <<book, brackets, oco>>
  BY DEF DuplicateChild
<1>2. /\ o \in brackets /\ ExistingChildren(o) = {} /\ ~IsLeg(o)
      /\ \E c \in ChildrenOf(o) : IsKnown(c)
  BY DEF DuplicateChild, CreatedBy, BrokerInv, SpecsAreLive
<1>3. /\ o \in Ids /\ o[1] \in Entries /\ o = EntryId(o[1])
      /\ ChildrenOf(o) = LegIds(o[1])
  <2>1. o \in Ids
    BY DEF TypeOK
  <2>. QED
    BY <1>2, <2>1, IdShape, LegPair DEF IsLeg, EntryId
<1>4. \A x \in Ids : orders'[x] = IF x = o THEN t ELSE orders[x]
  BY <1>3 DEF DuplicateChild, TypeOK
<1>5. orders[o].filled > 0
  BY <1>2, <1>3 DEF BrokerInv, LegInv, Entry
<1>6. ToSet(result'.fills) = ToSet(result.fills) \cup {FillRecord(o)} /\ FillRecord(o).id = o
  <2>1. result'.fills = Append(result.fills, FillRecord(o))
    BY ListTypes DEF DuplicateChild, Report
  <2>. QED
    BY <1>3, <2>1, FillListed, FillRecordType
<1>7. \A c \in LegIds(o[1]) : ~(IsOpen(orders[c]) /\ orders[c].filled = 0)
  BY <1>2, <1>3 DEF ExistingChildren
<1>8. /\ IsOpen(orders[o]) /\ orders[o].instrument = cur /\ phase = "bar" /\ SameTerms(orders[o], t)
      /\ t.quantity \in Nat /\ t.filled \in Nat /\ t.filled > 0 /\ t.filled <= t.quantity
      /\ t.status = IF t.filled = t.quantity THEN "FILLED" ELSE "PARTIALLY_FILLED"
      /\ todo' = todo \ {o} /\ UNCHANGED <<now, policy, left, cur>>
  <2>1. orders[o].filled \in Nat /\ orders[o].quantity \in Nat
    BY <1>3 DEF TypeOK, OrderRecord
  <2>. QED
    BY <1>1, <2>1, TradedFacts
<1> HIDE DEF t
<1>9. \A x \in Ids : /\ IsKnown(x)' <=> IsKnown(x)
                     /\ x # o => (x \in Working' <=> x \in Working)
                     /\ SameTerms(orders[x], orders'[x])
  BY <1>3, <1>4, <1>8 DEF IsKnown, Working, IsOpen, OpenStatuses, SameTerms
<1>10. ASSUME NEW d \in Entries
       PROVE  /\ EntryId(d) \in Ids /\ StopLeg(d) \in Ids \ {o} /\ TargetLeg(d) \in Ids \ {o}
              /\ orders'[StopLeg(d)] = orders[StopLeg(d)] /\ orders'[TargetLeg(d)] = orders[TargetLeg(d)]
              /\ \A c \in LegIds(d) : orders'[c] = orders[c] /\ c \in Ids \ {o}
              /\ SameTerms(Entry(d), Entry(d)')
              /\ IF d = o[1] THEN EntryId(d) = o /\ Entry(d)' = t /\ Entry(d) = orders[o]
                             ELSE Entry(d)' = Entry(d)
  BY <1>2, <1>3, <1>4, <1>9, LegPair DEF Entry
<1>11. LoopInv'
  <2>9. /\ \A f \in ToSet(result.fills) : f.id \in Ids
        /\ book \subseteq Ids /\ todo \subseteq Ids /\ left \subseteq Instruments
        /\ now \in Nat /\ orders \in [Ids -> OrderRecord(Instruments)]
    BY ListTypes, TypeParts DEF BookTypes
  <2>. QED
    BY <1>1, <1>3, <1>6, <1>8, <1>9, <2>9 DEF BrokerInv, LoopInv, SameTerms
<1>12. OrderInv'
  BY <1>4, <1>8 DEF BrokerInv, OrderInv, IsOpen, OpenStatuses
<1>13. LegInv'
  BY <1>1, <1>3, <1>4, <1>8, <1>9, <1>10, LegPair DEF BrokerInv, LegInv, Entry, SameTerms
<1>14. BracketInv'
  BY <1>1, <1>2, <1>6, <1>8, <1>10 DEF BrokerInv, BracketInv, TradedThisBar
<1>15. BookIsIndex'
  <2>1. \A x \in book : x \in Ids
    BY DEF TypeOK
  <2>2. o \in book
    BY <1>3, <1>8 DEF BrokerInv, BookIsIndex, Working
  <2>3. o \in Working' \/ orders'[o].status = "FILLED"
    BY <1>3, <1>4, <1>8 DEF Working, IsOpen, OpenStatuses
  <2>. QED
    BY <1>1, <1>3, <1>4, <1>8, <1>9, <2>1, <2>2, <2>3 DEF BrokerInv, BookIsIndex, SameTerms, Working
<1>16. SpecsAreLive'
  BY <1>1, <1>9 DEF BrokerInv, SpecsAreLive, SameTerms, TypeOK
<1>17. LinksPairOpenLegs'
  <2>1. \A d \in Entries : /\ StopLeg(d) \in Working' <=> StopLeg(d) \in Working
                           /\ TargetLeg(d) \in Working' <=> TargetLeg(d) \in Working
    BY <1>9, <1>10
  <2>2. \A d \in Entries : LegIds(d) \subseteq Working' <=> LegIds(d) \subseteq Working
    BY <2>1 DEF LegIds
  <2>3. oco' = oco /\ \A d \in Entries : \A c \in LegIds(d) : orders'[c] = orders[c]
    BY <1>1, <1>10
  <2>. QED
    BY <2>2, <2>3 DEF BrokerInv, LinksPairOpenLegs
<1>18. StopBeatsTarget'
  BY <1>6, <1>10 DEF BrokerInv, StopBeatsTarget, TradedThisBar
<1>19. EntriesAreProtected'
  <2>. SUFFICES ASSUME NEW d \in Entries, Entry(d)'.filled > 0, NEW c \in LegIds(d), c[2] \in Entry(d)'.legs
                PROVE  /\ IsKnown(c)'
                       /\ IsOpen(orders'[c]) /\ orders'[c].filled = 0 => orders'[c].quantity = Entry(d)'.filled
    BY DEF EntriesAreProtected
  <2>1. orders'[c] = orders[c] /\ Entry(d).filled > 0 /\ Entry(d)'.legs = Entry(d).legs
    BY <1>5, <1>10 DEF SameTerms
  <2>2. IsKnown(c) /\ (IsOpen(orders[c]) /\ orders[c].filled = 0 => orders[c].quantity = Entry(d).filled)
    BY <2>1 DEF BrokerInv, EntriesAreProtected
  <2>3. CASE d = o[1]
    BY <1>7, <1>9, <1>10, <2>1, <2>2, <2>3
  <2>4. CASE d # o[1]
    BY <1>9, <1>10, <2>1, <2>2, <2>4
  <2>. QED
    BY <2>3, <2>4
<1>20. NoLookahead'
  <2>1. policy.timing # "SAME_BAR_CLOSE" => orders[o].submitted < now
    <3>1. orders[o].submitted \in Nat /\ now \in Nat
      BY <1>3 DEF TypeOK, OrderRecord
    <3>. QED
      BY <1>1, <3>1 DEF Trades, IsWorkable, IsEligible
  <2>9. /\ \A f \in ToSet(result.fills) : f.id \in Ids
        /\ book \subseteq Ids /\ todo \subseteq Ids /\ left \subseteq Instruments
        /\ now \in Nat /\ orders \in [Ids -> OrderRecord(Instruments)]
    BY ListTypes, TypeParts DEF BookTypes
  <2>. QED
    BY <1>2, <1>3, <1>6, <1>8, <1>9, <2>1, <2>9 DEF BrokerInv, NoLookahead, SameTerms
<1>21. \A x \in Ids : Moves(orders[x], orders'[x])
  BY <1>1, <1>4, <1>8, TradedFacts DEF Moves, Contract!Execution, Contract!Live, IsOpen, OpenStatuses, t
<1>. QED
  BY <1>11, <1>12, <1>13, <1>14, <1>15, <1>16, <1>17, <1>18, <1>19, <1>20, <1>21 DEF BrokerInv, Keeps

(* A fill of a protective leg: it completes and takes an open sibling out, *)
(* or keeps (or drops) its own remainder.                                  *)
LEMMA FillLegFacts ==
  ASSUME TypeOK, BrokerInv, NEW o \in todo, Fill(o), IsLeg(o)
  PROVE  /\ o[1] \in Entries /\ o \in LegIds(o[1]) /\ Sibling(o) \in LegIds(o[1])
         /\ Sibling(o) # o /\ Sibling(o) \in Ids
         /\ CreatedBy(o) = {} /\ AcceptedBy(o) = {} /\ ResizedBy(o) = {} /\ LinksWith(o) = oco
         /\ o \in oco <=> IsOpen(orders[Sibling(o)])
         /\ Settles(o) => DroppedBy(o) = {Sibling(o)} \cap Working
         /\ ~Settles(o) => DroppedBy(o) = {} \/ DroppedBy(o) = {o}
<1>1. o \in Ids /\ IsOpen(orders[o])
  BY TradedFacts DEF Fill
<1>2. /\ o[1] \in Entries /\ o \in LegIds(o[1]) /\ Sibling(o) \in LegIds(o[1])
      /\ Sibling(o) # o /\ Sibling(o) \in Ids
  <2>1. o[1] \in Entries /\ (o = StopLeg(o[1]) \/ o = TargetLeg(o[1]))
    BY <1>1, IdShape DEF IsLeg, StopLeg, TargetLeg
  <2>. QED
    BY <2>1, LegPair
<1>3. CreatedBy(o) = {} /\ AcceptedBy(o) = {} /\ ResizedBy(o) = {} /\ LinksWith(o) = oco
  <2>1. o \notin brackets
    BY DEF BrokerInv, SpecsAreLive
  <2>2. CreatedBy(o) = {} /\ ResizedBy(o) = {}
    BY <2>1 DEF CreatedBy, ResizedBy
  <2>. QED
    BY <2>2 DEF AcceptedBy, LinksWith, ChildrenOf
<1>4. o \in oco <=> IsOpen(orders[Sibling(o)])
  <2>1. /\ StopLeg(o[1]) \in oco <=> TargetLeg(o[1]) \in oco
        /\ LegIds(o[1]) \subseteq Working => LegIds(o[1]) \subseteq oco
        /\ LegIds(o[1]) \subseteq oco =>
             \/ LegIds(o[1]) \subseteq Working
             \/ \A c \in LegIds(o[1]) : orders[c].status = "REJECTED"
    BY <1>2 DEF BrokerInv, LinksPairOpenLegs
  <2>2. LegIds(o[1]) = {o, Sibling(o)}
    BY <1>2, LegPair
  <2>3. o \in Working /\ (Sibling(o) \in Working <=> IsOpen(orders[Sibling(o)]))
    BY <1>1, <1>2 DEF Working
  <2>4. orders[o].status # "REJECTED"
    BY <1>1 DEF IsOpen, OpenStatuses
  <2>. QED
    BY <1>2, <2>1, <2>2, <2>3, <2>4 DEF LegIds
<1>5. Settles(o) => DroppedBy(o) = {Sibling(o)} \cap Working
  BY <1>2, <1>3, <1>4 DEF DroppedBy, Working
<1>6. ~Settles(o) => DroppedBy(o) = {} \/ DroppedBy(o) = {o}
  BY DEF DroppedBy
<1>. QED
  BY <1>2, <1>3, <1>4, <1>5, <1>6

LEMMA InvFillLeg ==
  ASSUME TypeOK, BrokerInv, NEW o \in todo, Fill(o), IsLeg(o)
  PROVE  Keeps
<1> DEFINE t == Traded(o)
           s == Sibling(o)
           e == o[1]
<1>1. /\ Trades(o) /\ UNCHANGED phase
      /\ ToSet(result'.fills) = ToSet(result.fills) \cup {FillRecord(o)} /\ FillRecord(o).id = o
  BY FillAdds DEF Fill
<1>2. /\ o \in Ids /\ IsOpen(orders[o]) /\ orders[o].instrument = cur /\ phase = "bar"
      /\ SameTerms(orders[o], t) /\ t.quantity = orders[o].quantity
      /\ t.quantity \in Nat /\ t.filled \in Nat /\ t.filled > 0 /\ t.filled <= t.quantity
      /\ t.status = IF t.filled = t.quantity THEN "FILLED" ELSE "PARTIALLY_FILLED"
      /\ todo' = todo \ {o} /\ UNCHANGED <<now, policy, left, cur>>
  <2>1. o \in Ids /\ orders[o].filled \in Nat /\ orders[o].quantity \in Nat
    BY DEF TypeOK, OrderRecord
  <2>. QED
    BY <1>1, <2>1, TradedFacts
<1>3. /\ e \in Entries /\ o \in LegIds(e) /\ s \in LegIds(e) /\ s # o /\ s \in Ids
      /\ CreatedBy(o) = {} /\ AcceptedBy(o) = {} /\ ResizedBy(o) = {} /\ LinksWith(o) = oco
      /\ o \in oco <=> IsOpen(orders[s])
      /\ t.status = "FILLED" => DroppedBy(o) = {s} \cap Working
      /\ t.status # "FILLED" => DroppedBy(o) = {} \/ DroppedBy(o) = {o}
  BY FillLegFacts DEF Settles
<1>4. /\ book' = book \ DroppedBy(o) /\ brackets' = brackets \ DroppedBy(o)
      /\ oco' = IF t.status = "FILLED" \/ o \in DroppedBy(o)
                THEN oco \ Linked({o}, oco) ELSE oco
  BY <1>3 DEF Fill, Settles
<1>5. \A x \in Ids : orders'[x] = IF x = o
                                  THEN IF o \in DroppedBy(o) THEN Cancelled(t) ELSE t
                                  ELSE IF x \in DroppedBy(o) THEN Cancelled(orders[x]) ELSE orders[x]
  BY <1>3 DEF Fill, AfterFill
<1>6. \A x \in Ids : x # o => /\ x \in DroppedBy(o) => x = s /\ x \in Working
                              /\ x \notin DroppedBy(o) => orders'[x] = orders[x]
  BY <1>3, <1>5
<1>7. t \in OrderRecord(Instruments) /\ \A x \in Ids : orders[x] \in OrderRecord(Instruments)
  BY <1>2, TradedType DEF TypeOK
<1>8. /\ SameTerms(orders[o], orders'[o]) /\ orders'[o].quantity = t.quantity
      /\ orders'[o].filled = t.filled
      /\ orders'[o].status = IF o \in DroppedBy(o) THEN "CANCELLED" ELSE t.status
  <2>1. /\ SameTerms(t, Cancelled(t)) /\ Cancelled(t).quantity = t.quantity
        /\ Cancelled(t).filled = t.filled /\ Cancelled(t).status = "CANCELLED"
    <3> HIDE DEF t
    <3>. QED
      BY <1>7 DEF Cancelled, SameTerms, OrderRecord
  <2>2. orders'[o] = IF o \in DroppedBy(o) THEN Cancelled(t) ELSE t
    BY <1>2, <1>5
  <2> HIDE DEF t
  <2>. QED
    BY <1>2, <2>1, <2>2 DEF SameTerms
<1>9. \A x \in DroppedBy(o) : x # o =>
        /\ SameTerms(orders[x], orders'[x]) /\ orders'[x].status = "CANCELLED"
        /\ orders'[x].filled = orders[x].filled /\ orders'[x].quantity = orders[x].quantity
  <2>. SUFFICES ASSUME NEW x \in Ids, x \in DroppedBy(o), x # o
                PROVE  /\ SameTerms(orders[x], Cancelled(orders[x]))
                       /\ Cancelled(orders[x]).status = "CANCELLED"
                       /\ Cancelled(orders[x]).filled = orders[x].filled
                       /\ Cancelled(orders[x]).quantity = orders[x].quantity
    BY <1>2, <1>5, FillSets
  <2>. QED
    BY <1>7 DEF Cancelled, SameTerms, OrderRecord
<1> HIDE DEF t, s
<1>10. \A x \in Ids : /\ SameTerms(orders[x], orders'[x])
                      /\ IsKnown(x)' <=> IsKnown(x)
                      /\ x # o /\ orders'[x].status # "CANCELLED" => orders'[x] = orders[x]
                      /\ x # o /\ orders'[x] # orders[x] => x = s /\ x \in DroppedBy(o) /\ orders'[x].status = "CANCELLED"
  BY <1>2, <1>6, <1>8, <1>9 DEF IsKnown, SameTerms, IsOpen, OpenStatuses, Working
<1>11. \A x \in Ids : x \in Working' => x \in Working /\ x \notin DroppedBy(o)
  BY <1>2, <1>6, <1>8, <1>9 DEF Working, IsOpen, OpenStatuses
<1>12. ASSUME NEW d \in Entries
       PROVE  /\ EntryId(d) \in Ids \ {o, s} /\ StopLeg(d) \in Ids /\ TargetLeg(d) \in Ids
              /\ Entry(d)' = Entry(d)
              /\ LegIds(d) = {StopLeg(d), TargetLeg(d)}
              /\ d # e => StopLeg(d) \notin {o, s} /\ TargetLeg(d) \notin {o, s}
              /\ d = e => LegIds(d) = {o, s}
  <2>1. EntryId(d) \in Ids \ {o, s}
    BY <1>3, LegPair DEF IsLeg
  <2>2. Entry(d)' = Entry(d)
    BY <1>10, <2>1 DEF Entry
  <2>3. d # e => StopLeg(d) \notin {o, s} /\ TargetLeg(d) \notin {o, s}
    BY <1>3, LegPair
  <2>. QED
    BY <1>3, <2>1, <2>2, <2>3, LegPair
<1>13. \A x \in DroppedBy(o) : x \in LegIds(e) /\ IsLeg(x)
  <2>1. \A x \in LegIds(e) : IsLeg(x)
    BY <1>3, LegPair
  <2> HIDE DEF e
  <2>2. DroppedBy(o) \subseteq {o, s}
    BY <1>3
  <2>. QED
    BY <1>3, <2>1, <2>2
<1>14. LoopInv'
  <2>9. /\ \A f \in ToSet(result.fills) : f.id \in Ids
        /\ book \subseteq Ids /\ todo \subseteq Ids /\ left \subseteq Instruments
        /\ now \in Nat /\ orders \in [Ids -> OrderRecord(Instruments)]
    BY ListTypes, TypeParts DEF BookTypes
  <2>. QED
    BY <1>1, <1>2, <1>10, <2>9 DEF BrokerInv, LoopInv, SameTerms
<1>15. OrderInv'
  BY <1>2, <1>8, <1>10 DEF BrokerInv, OrderInv, IsOpen, OpenStatuses
<1>16. LegInv'
  <2>. SUFFICES ASSUME NEW d \in Entries, NEW c \in LegIds(d), IsKnown(c)'
                PROVE  /\ IsKnown(c) /\ c \in Ids
                       /\ SameTerms(orders[c], orders'[c]) /\ Entry(d)' = Entry(d)
                       /\ UNCHANGED now
                       /\ c \in todo' \/ (c \in book' /\ orders[c].instrument \in left')
                            => c \in todo \/ (c \in book /\ orders[c].instrument \in left)
                       /\ orders'[c].status = "FILLED" => ~IsOpen(orders'[Sibling(c)])
    BY DEF BrokerInv, LegInv, SameTerms
  <2>1. c \in Ids /\ Sibling(c) \in LegIds(d) /\ Sibling(c) \in Ids /\ Sibling(Sibling(c)) = c
    BY LegPair
  <2>2. IsKnown(c) /\ SameTerms(orders[c], orders'[c]) /\ Entry(d)' = Entry(d)
    BY <1>10, <1>12, <2>1
  <2>3. ASSUME orders'[c].status = "FILLED", IsOpen(orders'[Sibling(c)])
        PROVE  FALSE
    <3>1. Sibling(c) \in Working /\ Sibling(c) \notin DroppedBy(o)
      BY <1>11, <2>1, <2>3 DEF Working
    <3>2. CASE c = o
      BY <1>3, <1>8, <2>3, <3>1, <3>2 DEF s
    <3>3. CASE c # o
      <4>1. orders[c].status = "FILLED"
        BY <1>10, <2>1, <2>3, <3>3
      <4>. QED
        BY <2>2, <3>1, <4>1 DEF BrokerInv, LegInv, Working
    <3>. QED
      BY <3>2, <3>3
  <2>. QED
    BY <1>2, <1>4, <2>1, <2>2, <2>3
<1>17. BracketInv'
  <2>1. ASSUME NEW d \in Entries, TradedThisBar(TargetLeg(d))'
        PROVE  StopLeg(d) \notin todo'
    <3>1. CASE TargetLeg(d) = o
      <4>1. ASSUME StopLeg(d) \in todo'
            PROVE  FALSE
        <5>1. StopLeg(d) \in todo \ {o} /\ IsKnown(StopLeg(d)) /\ IsKnown(o)
          BY <1>2, <4>1 DEF BrokerInv, LoopInv
        <5>2. orders[StopLeg(d)].type = "STOP" /\ orders[o].type = "LIMIT"
          BY <3>1, <5>1, LegPair DEF BrokerInv, LegInv
        <5>3. WorkedBefore(o, StopLeg(d))
          BY <1>1, <5>1 DEF Trades, Take
        <5>. QED
          BY <5>2, <5>3 DEF WorkedBefore, Priority
      <4>. QED
        BY <4>1
    <3>2. CASE TargetLeg(d) # o
      BY <1>1, <1>2, <2>1, <3>2 DEF BrokerInv, BracketInv, TradedThisBar
    <3>. QED
      BY <3>1, <3>2
  <2>2. \A d \in Entries : EntryId(d) \in brackets => EntryId(d) \in brackets'
    BY <1>4, <1>13, LegPair
  <2>. QED
    BY <1>12, <2>1, <2>2 DEF BrokerInv, BracketInv
<1>18. BookIsIndex'
  <2>1. book \subseteq Ids /\ Working \subseteq book /\ Working' \subseteq Ids
    BY DEF BrokerInv, BookIsIndex, TypeOK, Working
  <2>2. Working' \subseteq book'
    BY <1>4, <1>11, <2>1
  <2>3. ASSUME NEW x \in book' \ Working'
        PROVE  orders'[x].status = "FILLED" /\ orders'[x].instrument = cur'
    <3>1. x \in book /\ x \in Ids /\ x \notin DroppedBy(o)
      BY <1>4, <2>1
    <3>2. CASE x = o
      <4>1. orders'[o].status = t.status /\ orders'[o].instrument = cur
        BY <1>2, <1>8, <3>1, <3>2 DEF SameTerms
      <4>2. t.status = "FILLED"
        BY <1>2, <2>3, <3>2, <4>1 DEF Working, IsOpen, OpenStatuses
      <4>. QED
        BY <1>2, <3>2, <4>1, <4>2
    <3>3. CASE x # o
      <4>1. orders'[x] = orders[x]
        BY <1>6, <3>1, <3>3
      <4>2. x \notin Working
        BY <2>3, <3>1, <4>1 DEF Working
      <4>. QED
        BY <1>2, <3>1, <4>1, <4>2 DEF BrokerInv, BookIsIndex
    <3>. QED
      BY <3>2, <3>3
  <2>. QED
    BY <1>1, <1>2, <2>2, <2>3 DEF BookIsIndex
<1>19. SpecsAreLive'
  <2>1. brackets \subseteq Ids
    BY DEF TypeOK
  <2>. QED
    BY <1>4, <1>10, <1>13, <2>1 DEF BrokerInv, SpecsAreLive, SameTerms
<1>20. LinksPairOpenLegs'
  <2>1. Linked({o}, oco) = {o, s} \cap oco
    <3>1. o \in oco <=> s \in oco
      BY <1>3, LegPair DEF BrokerInv, LinksPairOpenLegs
    <3>. QED
      BY <3>1 DEF Linked, s
  <2>2. ASSUME NEW d \in Entries, d # e
        PROVE  /\ StopLeg(d) \in oco' <=> StopLeg(d) \in oco
               /\ TargetLeg(d) \in oco' <=> TargetLeg(d) \in oco
               /\ orders'[StopLeg(d)] = orders[StopLeg(d)]
               /\ orders'[TargetLeg(d)] = orders[TargetLeg(d)]
               /\ StopLeg(d) \in Working' <=> StopLeg(d) \in Working
               /\ TargetLeg(d) \in Working' <=> TargetLeg(d) \in Working
    <3>1. StopLeg(d) \notin {o, s} /\ TargetLeg(d) \notin {o, s} /\ StopLeg(d) \in Ids /\ TargetLeg(d) \in Ids
      BY <1>12, <2>2
    <3>2. orders'[StopLeg(d)] = orders[StopLeg(d)] /\ orders'[TargetLeg(d)] = orders[TargetLeg(d)]
      BY <1>10, <3>1
    <3>. QED
      BY <1>4, <2>1, <3>1, <3>2 DEF Working
  <2>3. CASE t.status = "FILLED" \/ o \in DroppedBy(o)
    <3>1. o \notin oco' /\ s \notin oco'
      BY <1>4, <2>1, <2>3
    <3>2. o \notin Working'
      BY <1>8, <2>3 DEF Working, IsOpen, OpenStatuses
    <3>3. ~(LegIds(e) \subseteq Working') /\ ~(LegIds(e) \subseteq oco')
      BY <1>3, <3>1, <3>2
    <3>4. StopLeg(e) \in {o, s} /\ TargetLeg(e) \in {o, s}
      BY <1>3, <1>12
    <3>5. \A d \in Entries : EntryId(d) \notin oco'
      BY <1>4, LegPair DEF BrokerInv, LinksPairOpenLegs
    <3>. QED
      BY <2>2, <3>1, <3>3, <3>4, <3>5 DEF BrokerInv, LinksPairOpenLegs, LegIds
  <2>4. CASE ~(t.status = "FILLED" \/ o \in DroppedBy(o))
    <3>1. oco' = oco /\ DroppedBy(o) = {} /\ t.status = "PARTIALLY_FILLED"
      BY <1>2, <1>3, <1>4, <2>4
    <3>2. \A x \in Ids : (x \in Working' <=> x \in Working) /\ (x # o => orders'[x] = orders[x])
                         /\ (orders'[x].status = "REJECTED" <=> orders[x].status = "REJECTED")
      BY <1>2, <1>6, <1>8, <3>1 DEF Working, IsOpen, OpenStatuses
    <3>3. \A d \in Entries : /\ StopLeg(d) \in Ids /\ TargetLeg(d) \in Ids
                             /\ LegIds(d) \subseteq Working' <=> LegIds(d) \subseteq Working
      BY <3>2, LegPair
    <3>. QED
      BY <3>1, <3>2, <3>3 DEF BrokerInv, LinksPairOpenLegs, LegIds
  <2>. QED
    BY <2>3, <2>4
<1>21. StopBeatsTarget'
  <2>1. ASSUME NEW d \in Entries, NEW c \in LegIds(d), orders'[c].status = "FILLED", c # o
        PROVE  orders[c].status = "FILLED" /\ Sibling(c) # o
    <3>1. c \in Ids /\ Sibling(c) \in Ids /\ orders[c].status = "FILLED"
      BY <1>10, <2>1, LegPair
    <3>2. ~IsOpen(orders[Sibling(c)])
      BY <2>1, <3>1 DEF BrokerInv, LegInv, IsKnown
    <3>. QED
      BY <1>2, <3>1, <3>2
  <2>2. ASSUME NEW d \in Entries, \A c \in LegIds(d) : orders'[c].status = "FILLED"
        PROVE  FALSE
    <3>1. \A c \in LegIds(d) : c # o
      BY <2>1, <2>2, LegPair
    <3>. QED
      BY <2>1, <2>2, <3>1 DEF BrokerInv, StopBeatsTarget
  <2>3. ASSUME NEW d \in Entries, orders'[StopLeg(d)].status = "FILLED", TradedThisBar(StopLeg(d))'
        PROVE  ~TradedThisBar(TargetLeg(d))'
    <3>1. CASE StopLeg(d) = o
      <4>1. ~TradedThisBar(TargetLeg(d))
        BY <3>1 DEF BrokerInv, BracketInv
      <4>. QED
        BY <1>1, <3>1, <4>1, LegPair DEF TradedThisBar
    <3>2. CASE StopLeg(d) # o
      <4>1. orders[StopLeg(d)].status = "FILLED" /\ TargetLeg(d) # o
        BY <2>1, <2>3, <3>2, LegPair
      <4>2. TradedThisBar(StopLeg(d))
        BY <1>1, <2>3, <3>2 DEF TradedThisBar
      <4>. QED
        BY <1>1, <4>1, <4>2 DEF BrokerInv, StopBeatsTarget, TradedThisBar
    <3>. QED
      BY <3>1, <3>2
  <2>. QED
    BY <2>2, <2>3 DEF StopBeatsTarget
<1>22. EntriesAreProtected'
  <2>. SUFFICES ASSUME NEW d \in Entries, Entry(d)'.filled > 0, NEW c \in LegIds(d), c[2] \in Entry(d)'.legs
                PROVE  /\ IsKnown(c)'
                       /\ IsOpen(orders'[c]) /\ orders'[c].filled = 0 => orders'[c].quantity = Entry(d)'.filled
    BY DEF EntriesAreProtected
  <2>1. c \in Ids /\ Entry(d)' = Entry(d) /\ (IsKnown(c)' <=> IsKnown(c))
    BY <1>10, <1>12, LegPair
  <2>2. IsKnown(c) /\ (IsOpen(orders[c]) /\ orders[c].filled = 0 => orders[c].quantity = Entry(d).filled)
    BY <2>1 DEF BrokerInv, EntriesAreProtected
  <2>3. CASE c = o
    BY <1>2, <1>8, <2>1, <2>2, <2>3
  <2>4. CASE c # o
    BY <1>10, <2>1, <2>2, <2>4 DEF IsOpen, OpenStatuses
  <2>. QED
    BY <2>3, <2>4
<1>23. NoLookahead'
  <2>1. orders[o].submitted < now
    BY <1>2, <1>3 DEF BrokerInv, LegInv, IsKnown, IsOpen, OpenStatuses
  <2>9. /\ \A f \in ToSet(result.fills) : f.id \in Ids
        /\ book \subseteq Ids /\ todo \subseteq Ids /\ left \subseteq Instruments
        /\ now \in Nat /\ orders \in [Ids -> OrderRecord(Instruments)]
    BY ListTypes, TypeParts DEF BookTypes
  <2>. QED
    BY <1>1, <1>2, <1>10, <2>1, <2>9 DEF BrokerInv, NoLookahead, SameTerms
<1>24. \A x \in Ids : Moves(orders[x], orders'[x])
  <2>. SUFFICES ASSUME NEW x \in Ids PROVE Moves(orders[x], orders'[x])
    OBVIOUS
  <2>1. CASE x = o
    <3>1. t.filled > orders[o].filled
      BY <1>1, TradedFacts DEF t
    <3>. QED
      BY <1>2, <1>8, <1>3, <2>1, <3>1 DEF Moves, Contract!Execution, Contract!Live, IsOpen, OpenStatuses
  <2>2. CASE x # o /\ x \in DroppedBy(o)
    BY <1>6, <1>9, <2>2 DEF Moves, Contract!Withdrawal, Contract!Live, Working, IsOpen, OpenStatuses
  <2>3. CASE x # o /\ x \notin DroppedBy(o)
    BY <1>6, <2>3 DEF Moves
  <2>. QED
    BY <2>1, <2>2, <2>3
<1>. QED
  BY <1>14, <1>15, <1>16, <1>17, <1>18, <1>19, <1>20, <1>21, <1>22, <1>23, <1>24 DEF BrokerInv, Keeps

(* A fill of an entry: its legs are created together, resized, or were     *)
(* never asked for, and it keeps or drops its own remainder.               *)
LEMMA FillEntryFacts ==
  ASSUME TypeOK, BrokerInv, NEW o \in todo, Fill(o), ~IsLeg(o)
  PROVE  /\ o[1] \in Entries /\ o = EntryId(o[1]) /\ ChildrenOf(o) = LegIds(o[1])
         /\ \/ /\ orders[o].legs = {} /\ CreatedBy(o) = {} /\ ResizedBy(o) = {}
            \/ /\ CreatedBy(o) = {c \in LegIds(o[1]) : c[2] \in orders[o].legs}
               /\ CreatedBy(o) # {} /\ ResizedBy(o) = {}
               /\ \A c \in LegIds(o[1]) : ~IsKnown(c)
            \/ /\ CreatedBy(o) = {} /\ orders[o].filled > 0
               /\ ResizedBy(o) = {c \in LegIds(o[1]) : IsOpen(orders[c]) /\ orders[c].filled = 0}
         /\ AcceptedBy(o) = CreatedBy(o) \/ AcceptedBy(o) = {}
         /\ LinksWith(o) = IF CreatedBy(o) = LegIds(o[1]) THEN oco \cup LegIds(o[1]) ELSE oco
         /\ oco' = LinksWith(o)
         /\ DroppedBy(o) = {} \/ (DroppedBy(o) = {o} /\ ~Settles(o))
<1> DEFINE e == o[1]
<1>1. o \in Ids /\ IsOpen(orders[o])
  BY TradedFacts DEF Fill
<1>2. e \in Entries /\ o = EntryId(e)
  BY <1>1, IdShape DEF IsLeg, EntryId
<1>3. ChildrenOf(o) = LegIds(e) /\ o \notin LegIds(e)
  BY <1>2, LegPair
<1>4. orders[o].legs \subseteq {"SL", "TP"}
  BY <1>1 DEF TypeOK, OrderRecord
<1>5. \A c \in LegIds(e) : IsKnown(c) => orders[o].filled > 0 /\ c[2] \in orders[o].legs
  BY <1>2 DEF BrokerInv, LegInv, Entry
<1> HIDE DEF e
<1>6. ASSUME o \notin brackets
      PROVE  orders[o].legs = {} /\ CreatedBy(o) = {} /\ ResizedBy(o) = {}
  <2>1. orders[o].legs = {}
    BY <1>1, <1>2, <1>6 DEF BrokerInv, BracketInv, Entry
  <2>. QED
    BY <1>6, <2>1 DEF CreatedBy, ResizedBy
<1>7. ASSUME o \in brackets, ExistingChildren(o) = {}
      PROVE  /\ CreatedBy(o) = {c \in LegIds(e) : c[2] \in orders[o].legs}
             /\ CreatedBy(o) # {} /\ ResizedBy(o) = {}
             /\ \A c \in LegIds(e) : ~IsKnown(c)
  <2>1. CreatedBy(o) = {c \in LegIds(e) : c[2] \in orders[o].legs} /\ ResizedBy(o) = {}
    BY <1>3, <1>7 DEF CreatedBy, ResizedBy
  <2>2. orders[o].legs # {}
    BY <1>7 DEF BrokerInv, SpecsAreLive
  <2>3. CreatedBy(o) # {}
    BY <1>2, <1>4, <2>1, <2>2, LegPair
  <2>4. \A c \in CreatedBy(o) : ~IsKnown(c)
    BY DEF Fill
  <2>. QED
    BY <1>5, <2>1, <2>3, <2>4
<1>8. ASSUME o \in brackets, ExistingChildren(o) # {}
      PROVE  /\ CreatedBy(o) = {} /\ orders[o].filled > 0
             /\ ResizedBy(o) = {c \in LegIds(e) : IsOpen(orders[c]) /\ orders[c].filled = 0}
  <2>1. \E c \in LegIds(e) : IsKnown(c)
    BY <1>3, <1>8 DEF ExistingChildren, IsKnown, IsOpen, OpenStatuses
  <2>. QED
    BY <1>3, <1>5, <1>8, <2>1 DEF CreatedBy, ResizedBy, ExistingChildren
<1>9. AcceptedBy(o) = CreatedBy(o) \/ AcceptedBy(o) = {}
  <2>1. IsRefused(ChildTicket(Traded(o), "SL"), now) <=> IsRefused(ChildTicket(Traded(o), "TP"), now)
    BY DEF IsRefused, ChildTicket
  <2>2. \A c \in CreatedBy(o) : c[2] = "SL" \/ c[2] = "TP"
    BY <1>2, <1>3, LegPair DEF CreatedBy
  <2>. QED
    BY <2>1, <2>2 DEF AcceptedBy
<1>10. LinksWith(o) = IF CreatedBy(o) = LegIds(e) THEN oco \cup LegIds(e) ELSE oco
  BY <1>3 DEF LinksWith
<1>11. o \notin LinksWith(o)
  BY <1>2, <1>3, <1>10 DEF BrokerInv, LinksPairOpenLegs
<1>12. oco' = LinksWith(o)
  BY <1>11 DEF Fill, Linked
<1>13. DroppedBy(o) = {} \/ (DroppedBy(o) = {o} /\ ~Settles(o))
  BY <1>11 DEF DroppedBy
<1>. QED
  BY <1>2, <1>3, <1>6, <1>7, <1>8, <1>9, <1>10, <1>12, <1>13 DEF e

LEMMA ChildFacts ==
  ASSUME TypeOK, BrokerInv, NEW o \in todo, Trades(o), NEW c \in Ids
  PROVE  /\ Child(o, c).instrument = orders[o].instrument /\ Child(o, c).legs = {}
         /\ Child(o, c).type = (IF c[2] = "SL" THEN "STOP" ELSE "LIMIT")
         /\ Child(o, c).submitted = now /\ Child(o, c).filled = 0
         /\ Child(o, c).quantity = Traded(o).filled
         /\ Child(o, c).status = IF c \in AcceptedBy(o) THEN "ACCEPTED" ELSE "REJECTED"
<1>1. Traded(o).instrument = orders[o].instrument
  BY TradedFacts DEF SameTerms
<1>. QED
  BY <1>1 DEF Child, Raised, ChildTicket

LEMMA InvFillEntry ==
  ASSUME TypeOK, BrokerInv, NEW o \in todo, Fill(o), ~IsLeg(o)
  PROVE  Keeps
<1> DEFINE t == Traded(o)
           e == o[1]
           C == CreatedBy(o)
           A == AcceptedBy(o)
           R == ResizedBy(o)
           D == DroppedBy(o)
<1>1. /\ Trades(o) /\ UNCHANGED phase
      /\ ToSet(result'.fills) = ToSet(result.fills) \cup {FillRecord(o)} /\ FillRecord(o).id = o
      /\ book' = (book \cup A) \ D /\ brackets' = brackets \ D
  BY FillAdds DEF Fill
<1>2. /\ o \in Ids /\ IsOpen(orders[o]) /\ orders[o].instrument = cur /\ phase = "bar"
      /\ SameTerms(orders[o], t) /\ t.quantity = orders[o].quantity
      /\ t.quantity \in Nat /\ t.filled \in Nat /\ t.filled > 0 /\ t.filled <= t.quantity
      /\ t.status = IF t.filled = t.quantity THEN "FILLED" ELSE "PARTIALLY_FILLED"
      /\ todo' = todo \ {o} /\ UNCHANGED <<now, policy, left, cur>>
      /\ now \in Nat
  <2>1. o \in Ids /\ orders[o].filled \in Nat /\ orders[o].quantity \in Nat /\ now \in Nat
    BY DEF TypeOK, OrderRecord
  <2>. QED
    BY <1>1, <2>1, TradedFacts
<1>3. /\ e \in Entries /\ o = EntryId(e)
      /\ \/ orders[o].legs = {} /\ C = {} /\ R = {}
         \/ /\ C = {c \in LegIds(e) : c[2] \in orders[o].legs}
            /\ C # {} /\ R = {}
            /\ \A c \in LegIds(e) : ~IsKnown(c)
         \/ /\ C = {} /\ orders[o].filled > 0
            /\ R = {c \in LegIds(e) : IsOpen(orders[c]) /\ orders[c].filled = 0}
      /\ A = C \/ A = {}
      /\ oco' = IF C = LegIds(e) THEN oco \cup LegIds(e) ELSE oco
      /\ D = {} \/ (D = {o} /\ t.status # "FILLED")
  BY FillEntryFacts DEF Settles
<1>4. /\ C \subseteq LegIds(e) /\ R \subseteq LegIds(e) /\ A \subseteq C
      /\ \A c \in C : ~IsKnown(c)
      /\ \A c \in R : IsOpen(orders[c]) /\ orders[c].filled = 0
      /\ o \notin LegIds(e) /\ LegIds(e) \subseteq Ids
  BY <1>3, LegPair
<1>5. \A x \in Ids : orders'[x] = AfterFill(o, x)
  BY DEF Fill
<1>6. t \in OrderRecord(Instruments) /\ \A x \in Ids : orders[x] \in OrderRecord(Instruments)
  BY <1>2, TradedType DEF TypeOK
<1>7. /\ SameTerms(orders[o], orders'[o]) /\ orders'[o].quantity = t.quantity
      /\ orders'[o].filled = t.filled
      /\ orders'[o].status = IF o \in D THEN "CANCELLED" ELSE t.status
  <2>1. /\ SameTerms(t, Cancelled(t)) /\ Cancelled(t).quantity = t.quantity
        /\ Cancelled(t).filled = t.filled /\ Cancelled(t).status = "CANCELLED"
    <3> HIDE DEF t
    <3>. QED
      BY <1>6 DEF Cancelled, SameTerms, OrderRecord
  <2>2. orders'[o] = IF o \in D THEN Cancelled(t) ELSE t
    BY <1>2, <1>5 DEF AfterFill
  <2> HIDE DEF t, D
  <2>. QED
    BY <1>2, <2>1, <2>2 DEF SameTerms
<1>8. ASSUME NEW c \in C
      PROVE  /\ orders'[c].instrument = orders[o].instrument /\ orders'[c].legs = {}
             /\ orders'[c].type = (IF c[2] = "SL" THEN "STOP" ELSE "LIMIT")
             /\ orders'[c].submitted = now /\ orders'[c].filled = 0
             /\ orders'[c].quantity = t.filled
             /\ orders'[c].status = IF c \in A THEN "ACCEPTED" ELSE "REJECTED"
  <2>1. c \in Ids /\ c # o /\ c \notin R /\ c \notin D
    BY <1>3, <1>4
  <2>2. orders'[c] = Child(o, c)
    BY <1>5, <2>1 DEF AfterFill
  <2>. QED
    BY <1>1, <2>1, <2>2, ChildFacts
<1>9. ASSUME NEW c \in R
      PROVE  /\ SameTerms(orders[c], orders'[c]) /\ orders'[c].status = orders[c].status
             /\ orders'[c].filled = 0 /\ orders'[c].quantity = t.filled
  <2>1. c \in Ids /\ c # o /\ c \notin D /\ c \notin C
    BY <1>3, <1>4 DEF IsKnown, IsOpen, OpenStatuses
  <2>2. orders'[c] = Resized(orders[c], t.filled)
    BY <1>5, <2>1 DEF AfterFill
  <2> HIDE DEF t
  <2>. QED
    BY <1>4, <1>6, <2>1, <2>2 DEF Resized, SameTerms, OrderRecord
<1>10. ASSUME NEW x \in Ids, x # o, x \notin C, x \notin R
       PROVE  orders'[x] = orders[x]
  BY <1>3, <1>5, <1>10 DEF AfterFill
<1> HIDE DEF t, C, A, R, D
<1>11. \A x \in Ids : /\ IsKnown(x) => IsKnown(x)' /\ x \notin C
                      /\ x \notin C => /\ SameTerms(orders[x], orders'[x]) /\ (IsKnown(x)' <=> IsKnown(x))
                      /\ x \notin C /\ x # o => orders'[x].status = orders[x].status /\ orders'[x].filled = orders[x].filled
  BY <1>2, <1>4, <1>7, <1>9, <1>10 DEF IsKnown, SameTerms, IsOpen, OpenStatuses
<1>12. ASSUME NEW d \in Entries
       PROVE  /\ EntryId(d) \in Ids /\ StopLeg(d) \in Ids /\ TargetLeg(d) \in Ids
              /\ LegIds(d) = {StopLeg(d), TargetLeg(d)} /\ o \notin LegIds(d)
              /\ EntryId(d) \notin C
              /\ d = e => Entry(d) = orders[o] /\ Entry(d)' = orders'[o]
              /\ d # e => /\ Entry(d)' = Entry(d)
                          /\ \A c \in LegIds(d) : c \notin C /\ c \notin R /\ orders'[c] = orders[c]
  <2>1. /\ EntryId(d) \in Ids /\ LegIds(d) \subseteq Ids
        /\ LegIds(d) = {StopLeg(d), TargetLeg(d)} /\ o \notin LegIds(d)
        /\ EntryId(d) \notin LegIds(e)
        /\ d # e => LegIds(d) \cap LegIds(e) = {} /\ EntryId(d) # o
    BY <1>3, LegPair
  <2>2. d = e => Entry(d) = orders[o] /\ Entry(d)' = orders'[o]
    BY <1>3 DEF Entry
  <2>3. d # e => Entry(d)' = Entry(d)
    BY <1>4, <1>10, <2>1 DEF Entry
  <2>4. d # e => \A c \in LegIds(d) : c \notin C /\ c \notin R /\ orders'[c] = orders[c]
    BY <1>4, <1>10, <2>1
  <2>. QED
    BY <1>4, <2>1, <2>2, <2>3, <2>4
<1>13. \A x \in Ids : x # o => (x \in Working' <=> x \in Working \/ x \in A)
  <2>1. \A x \in C : (x \in Working' <=> x \in A) /\ x \notin Working
    BY <1>4, <1>8 DEF Working, IsKnown, IsOpen, OpenStatuses
  <2>2. \A x \in Ids : x # o /\ x \notin C => (x \in Working' <=> x \in Working) /\ x \notin A
    BY <1>4, <1>11 DEF Working, IsOpen
  <2>. QED
    BY <2>1, <2>2
<1>14. LoopInv'
  <2>9. /\ \A f \in ToSet(result.fills) : f.id \in Ids
        /\ book \subseteq Ids /\ todo \subseteq Ids /\ left \subseteq Instruments
        /\ now \in Nat /\ orders \in [Ids -> OrderRecord(Instruments)]
    BY ListTypes, TypeParts DEF BookTypes
  <2>. QED
    BY <1>1, <1>2, <1>11, <2>9 DEF BrokerInv, LoopInv, SameTerms, IsKnown, IsOpen, OpenStatuses
<1>15. OrderInv'
  <2>1. ASSUME NEW x \in Ids, x = o \/ x \in C \/ x \in R
        PROVE  LET order == orders'[x] IN
               /\ order.status \in {"absent", "REJECTED", "ACCEPTED"} => order.filled = 0
               /\ order.status = "PARTIALLY_FILLED" => order.filled > 0
               /\ IsOpen(order) => order.filled < order.quantity
               /\ order.status = "FILLED" => order.filled = order.quantity /\ order.filled > 0
    <3>1. CASE x = o
      BY <1>2, <1>7, <3>1 DEF IsOpen, OpenStatuses
    <3>2. CASE x \in C
      BY <1>2, <1>8, <3>2 DEF IsOpen, OpenStatuses
    <3>3. CASE x \in R
      BY <1>2, <1>4, <1>9, <3>3 DEF IsOpen, OpenStatuses, BrokerInv, OrderInv
    <3>. QED
      BY <2>1, <3>1, <3>2, <3>3
  <2>2. ASSUME NEW x \in Ids, x # o, x \notin C, x \notin R
        PROVE  orders'[x] = orders[x]
    BY <1>10, <2>2
  <2>. QED
    BY <2>1, <2>2 DEF BrokerInv, OrderInv
<1>16. LegInv'
  <2>1. ASSUME NEW d \in Entries, NEW c \in LegIds(d), IsKnown(c)', c \in C
        PROVE  /\ Entry(d)'.filled > 0
               /\ c[2] \in Entry(d)'.legs
               /\ orders'[c].instrument = Entry(d)'.instrument
               /\ orders'[c].legs = {}
               /\ orders'[c].type = (IF c[2] = "SL" THEN "STOP" ELSE "LIMIT")
               /\ orders'[c].submitted <= now'
               /\ ~(c \in todo' \/ (c \in book' /\ orders'[c].instrument \in left'))
               /\ orders'[c].status # "FILLED"
    <3>1. d = e /\ Entry(d)' = orders'[o]
      BY <1>12, <2>1
    <3>2. c \notin todo
      BY <1>11, <2>1, LegPair DEF BrokerInv, LoopInv, TypeOK
    <3>3. cur \notin left
      BY DEF BrokerInv, LoopInv
    <3>4. c[2] \in orders[o].legs
      BY <1>3, <2>1
    <3>. QED
      BY <1>2, <1>7, <1>8, <2>1, <3>1, <3>2, <3>3, <3>4 DEF SameTerms
  <2>2. ASSUME NEW d \in Entries, NEW c \in LegIds(d), IsKnown(c)', c \notin C
        PROVE  /\ IsKnown(c) /\ SameTerms(orders[c], orders'[c]) /\ SameTerms(Entry(d), Entry(d)')
               /\ Entry(d).filled > 0 => Entry(d)'.filled > 0
               /\ c \in todo' => c \in todo
               /\ c \in book' => c \in book
               /\ orders'[c].status = "FILLED" => ~IsOpen(orders'[Sibling(c)])
    <3>1. c \in Ids /\ Sibling(c) \in LegIds(d) /\ Sibling(c) \in Ids /\ Sibling(Sibling(c)) = c
      BY LegPair
    <3>2. IsKnown(c) /\ SameTerms(orders[c], orders'[c]) /\ c # o /\ c \notin A
      BY <1>4, <1>11, <1>12, <2>2, <3>1
    <3>3. SameTerms(Entry(d), Entry(d)') /\ (Entry(d).filled > 0 => Entry(d)'.filled > 0)
      BY <1>2, <1>7, <1>12 DEF SameTerms
    <3>4. ASSUME orders'[c].status = "FILLED"
          PROVE  ~IsOpen(orders'[Sibling(c)])
      <4>1. orders[c].status = "FILLED"
        BY <1>11, <2>2, <3>1, <3>2, <3>4
      <4>2. ~IsOpen(orders[Sibling(c)])
        BY <3>2, <4>1 DEF BrokerInv, LegInv
      <4>3. Sibling(c) \notin C /\ Sibling(c) # o
        BY <1>3, <1>12, <3>1, <3>2
      <4>. QED
        BY <1>11, <3>1, <4>2, <4>3 DEF IsOpen
    <3>. QED
      BY <1>1, <1>2, <3>2, <3>3, <3>4
  <2>. QED
    BY <1>2, <2>1, <2>2 DEF BrokerInv, LegInv, SameTerms
<1>17. BracketInv'
  <2>1. \A d \in Entries : TradedThisBar(TargetLeg(d))' <=> TradedThisBar(TargetLeg(d))
    BY <1>1, <1>12 DEF TradedThisBar
  <2>2. ASSUME NEW d \in Entries, IsOpen(Entry(d)'), Entry(d)'.legs # {}
        PROVE  EntryId(d) \in brackets'
    <3>1. CASE d = e
      <4>1. o \notin D
        BY <1>7, <1>12, <2>2, <3>1 DEF IsOpen, OpenStatuses
      <4>2. o \in brackets
        BY <1>2, <1>3, <1>7, <1>12, <2>2, <3>1 DEF BrokerInv, BracketInv, SameTerms
      <4>. QED
        BY <1>1, <1>3, <3>1, <4>1, <4>2
    <3>2. CASE d # e
      <4>1. EntryId(d) \in brackets /\ EntryId(d) # o
        BY <1>3, <1>12, <2>2, <3>2, LegPair DEF BrokerInv, BracketInv
      <4>. QED
        BY <1>1, <1>3, <4>1
    <3>. QED
      BY <3>1, <3>2
  <2>. QED
    BY <1>2, <2>1, <2>2 DEF BrokerInv, BracketInv
<1>18. BookIsIndex'
  <2>1. book \subseteq Ids /\ Working \subseteq book /\ Working' \subseteq Ids /\ o \in Working
    BY <1>2 DEF BrokerInv, BookIsIndex, TypeOK, Working
  <2>2. o \in Working' <=> orders'[o].status # "CANCELLED" /\ t.status # "FILLED"
    BY <1>2, <1>7 DEF Working, IsOpen, OpenStatuses
  <2>3. Working' \subseteq book'
    BY <1>1, <1>3, <1>7, <1>13, <2>1, <2>2
  <2>4. ASSUME NEW x \in book' \ Working'
        PROVE  orders'[x].status = "FILLED" /\ orders'[x].instrument = cur'
    <3>1. CASE x = o
      <4>1. o \notin D /\ orders'[o].status = t.status
        BY <1>1, <1>7, <2>4, <3>1
      <4>2. t.status = "FILLED"
        BY <1>2, <2>2, <2>4, <3>1, <4>1
      <4>. QED
        BY <1>2, <1>7, <3>1, <4>1, <4>2 DEF SameTerms
    <3>2. CASE x # o
      <4>1. x \in book /\ x \in Ids /\ x \notin Working
        BY <1>1, <1>4, <1>13, <2>1, <2>4, <3>2
      <4>2. orders[x].status = "FILLED" /\ orders[x].instrument = cur
        BY <4>1 DEF BrokerInv, BookIsIndex
      <4>3. x \notin C
        BY <1>11, <4>1, <4>2 DEF IsKnown
      <4>. QED
        BY <1>2, <1>11, <3>2, <4>1, <4>2, <4>3 DEF SameTerms
    <3>. QED
      BY <3>1, <3>2
  <2>. QED
    BY <1>1, <1>2, <2>3, <2>4 DEF BookIsIndex
<1>19. SpecsAreLive'
  <2>1. brackets \subseteq Ids /\ \A x \in LegIds(e) : IsLeg(x)
    <3>1. brackets \subseteq Ids
      BY TypeParts DEF BookTypes
    <3>. QED
      BY <1>3, <3>1, LegPair
  <2>. QED
    BY <1>1, <1>4, <1>11, <2>1 DEF BrokerInv, SpecsAreLive, SameTerms
<1>20. LinksPairOpenLegs'
  <2>1. ASSUME NEW d \in Entries, d # e
        PROVE  /\ StopLeg(d) \in oco' <=> StopLeg(d) \in oco
               /\ TargetLeg(d) \in oco' <=> TargetLeg(d) \in oco
               /\ orders'[StopLeg(d)] = orders[StopLeg(d)]
               /\ orders'[TargetLeg(d)] = orders[TargetLeg(d)]
               /\ StopLeg(d) \in Working' <=> StopLeg(d) \in Working
               /\ TargetLeg(d) \in Working' <=> TargetLeg(d) \in Working
    <3>1. /\ orders'[StopLeg(d)] = orders[StopLeg(d)]
          /\ orders'[TargetLeg(d)] = orders[TargetLeg(d)]
      BY <1>12, <2>1
    <3>2. StopLeg(d) \notin LegIds(e) /\ TargetLeg(d) \notin LegIds(e)
      BY <1>3, <2>1, LegPair
    <3>. QED
      BY <1>3, <1>12, <3>1, <3>2 DEF Working
  <2>2. \A d \in Entries : EntryId(d) \notin oco'
    <3>1. \A d \in Entries : EntryId(d) \notin LegIds(e)
      BY <1>3, LegPair
    <3>. QED
      BY <1>3, <3>1 DEF BrokerInv, LinksPairOpenLegs
  <2>3. /\ StopLeg(e) \in oco' <=> TargetLeg(e) \in oco'
        /\ LegIds(e) \subseteq Working' => LegIds(e) \subseteq oco'
        /\ LegIds(e) \subseteq oco' =>
             \/ LegIds(e) \subseteq Working'
             \/ \A c \in LegIds(e) : orders'[c].status = "REJECTED"
    <3>1. /\ StopLeg(e) \in LegIds(e) /\ TargetLeg(e) \in LegIds(e)
          /\ StopLeg(e) \in Ids \ {o} /\ TargetLeg(e) \in Ids \ {o}
          /\ LegIds(e) = {StopLeg(e), TargetLeg(e)}
      BY <1>3, <1>4, LegPair
    <3>2. /\ StopLeg(e) \in oco <=> TargetLeg(e) \in oco
          /\ LegIds(e) \subseteq Working => LegIds(e) \subseteq oco
          /\ LegIds(e) \subseteq oco =>
               \/ LegIds(e) \subseteq Working
               \/ \A c \in LegIds(e) : orders[c].status = "REJECTED"
      BY <1>3 DEF BrokerInv, LinksPairOpenLegs
    <3>3. CASE C = LegIds(e)
      <4>1. oco' = oco \cup LegIds(e)
        BY <1>3, <3>3
      <4>2. CASE A = C
        BY <1>13, <3>1, <3>3, <4>1, <4>2
      <4>3. CASE A = {}
        BY <1>8, <3>1, <3>3, <4>1, <4>3
      <4>. QED
        BY <1>3, <4>2, <4>3
    <3>4. CASE C # LegIds(e) /\ C # {}
      <4>1. \A c \in LegIds(e) : ~IsKnown(c)
        BY <1>3, <3>4
      <4>2. StopLeg(e) \notin oco /\ TargetLeg(e) \notin oco
        BY <3>1, <3>2, <4>1 DEF Working, IsKnown, IsOpen, OpenStatuses
      <4>3. \A c \in LegIds(e) : c \notin Working
        BY <4>1 DEF Working, IsKnown, IsOpen, OpenStatuses
      <4>4. ~(LegIds(e) \subseteq Working')
        BY <1>4, <1>13, <3>1, <3>4, <4>3
      <4>. QED
        BY <1>3, <3>1, <3>4, <4>2, <4>4
    <3>5. CASE C = {}
      <4>1. oco' = oco /\ A = {}
        BY <1>3, <3>1, <3>5
      <4>2. \A c \in LegIds(e) : (c \in Working' <=> c \in Working) /\ orders'[c].status = orders[c].status
        BY <1>4, <1>11, <1>13, <3>5, <4>1
      <4>. QED
        BY <3>1, <3>2, <4>1, <4>2
    <3>. QED
      BY <3>3, <3>4, <3>5
  <2>4. ASSUME NEW d \in Entries, d # e
        PROVE  /\ LegIds(d) \subseteq Working' <=> LegIds(d) \subseteq Working
               /\ LegIds(d) \subseteq oco' <=> LegIds(d) \subseteq oco
               /\ \A c \in LegIds(d) : orders'[c] = orders[c]
    BY <1>12, <2>1, <2>4
  <2>. QED
    BY <2>1, <2>2, <2>3, <2>4 DEF BrokerInv, LinksPairOpenLegs
<1>21. StopBeatsTarget'
  <2>1. ASSUME NEW d \in Entries, NEW c \in LegIds(d)
        PROVE  /\ orders'[c].status = "FILLED" => orders[c].status = "FILLED"
               /\ TradedThisBar(c)' <=> TradedThisBar(c)
    <3>1. c # o /\ c \in Ids
      BY <1>12, LegPair
    <3>2. c \in C => orders'[c].status # "FILLED"
      BY <1>8
    <3>. QED
      BY <1>1, <1>11, <3>1, <3>2 DEF TradedThisBar
  <2>. QED
    BY <2>1, LegPair DEF BrokerInv, StopBeatsTarget
<1>22. EntriesAreProtected'
  <2>. SUFFICES ASSUME NEW d \in Entries, Entry(d)'.filled > 0, NEW c \in LegIds(d), c[2] \in Entry(d)'.legs
                PROVE  /\ IsKnown(c)'
                       /\ IsOpen(orders'[c]) /\ orders'[c].filled = 0 => orders'[c].quantity = Entry(d)'.filled
    BY DEF EntriesAreProtected
  <2>1. CASE d # e
    <3>1. Entry(d)' = Entry(d) /\ orders'[c] = orders[c]
      BY <1>12, <2>1
    <3>. QED
      BY <3>1 DEF BrokerInv, EntriesAreProtected, IsKnown
  <2>2. CASE d = e
    <3>1. /\ Entry(d)'.filled = t.filled /\ Entry(d) = orders[o] /\ c \in Ids /\ c # o
          /\ c[2] \in orders[o].legs
      BY <1>4, <1>7, <1>12, <2>2 DEF SameTerms
    <3>2. CASE c \in C
      BY <1>8, <3>1, <3>2 DEF IsKnown
    <3>3. CASE c \in R
      <4>1. IsKnown(c)
        BY <1>4, <3>3 DEF IsKnown, IsOpen, OpenStatuses
      <4>. QED
        BY <1>9, <1>11, <3>1, <3>3, <4>1
    <3>4. CASE c \notin C /\ c \notin R
      <4>1. orders[o].filled > 0 /\ R = {x \in LegIds(e) : IsOpen(orders[x]) /\ orders[x].filled = 0}
        BY <1>3, <2>2, <3>1, <3>4
      <4>2. IsKnown(c)
        BY <3>1, <4>1 DEF BrokerInv, EntriesAreProtected
      <4>3. orders'[c] = orders[c]
        BY <1>10, <3>1, <3>4
      <4>. QED
        BY <2>2, <3>4, <4>1, <4>2, <4>3 DEF IsKnown
    <3>. QED
      BY <3>2, <3>3, <3>4
  <2>. QED
    BY <2>1, <2>2
<1>23. NoLookahead'
  <2>1. policy.timing # "SAME_BAR_CLOSE" => orders[o].submitted < now
    <3>1. orders[o].submitted \in Nat /\ now \in Nat
      BY <1>2 DEF TypeOK, OrderRecord
    <3>. QED
      BY <1>1, <3>1 DEF Trades, IsWorkable, IsEligible
  <2>2. \A f \in ToSet(result.fills) : f.id \in Ids /\ f.id \notin C
    BY <1>4, ListTypes DEF BrokerInv, LoopInv
  <2>. QED
    BY <1>1, <1>2, <1>7, <1>11, <2>1, <2>2 DEF BrokerInv, NoLookahead, SameTerms
<1>24. \A x \in Ids : Moves(orders[x], orders'[x])
  <2>. SUFFICES ASSUME NEW x \in Ids PROVE Moves(orders[x], orders'[x])
    OBVIOUS
  <2>1. t.filled > orders[o].filled
    BY <1>1, TradedFacts DEF t
  <2>2. CASE x = o
    BY <1>2, <1>3, <1>7, <2>1, <2>2 DEF Moves, Contract!Execution, Contract!Live, IsOpen, OpenStatuses
  <2>3. CASE x \in C
    BY <1>4, <1>8, <2>3 DEF Moves, Contract!Intake, IsKnown
  <2>4. CASE x \in R
    <3>1. /\ orders[x].status = "ACCEPTED" /\ orders[x].filled = 0
      BY <1>4, <2>4 DEF IsOpen, OpenStatuses, BrokerInv, OrderInv
    <3>2. x[2] \in orders[o].legs /\ Entry(e) = orders[o] /\ orders[o].filled > 0
      BY <1>3, <1>4, <1>12, <2>4 DEF BrokerInv, LegInv, IsKnown, IsOpen, OpenStatuses
    <3>3. orders[x].quantity = orders[o].filled
      BY <1>3, <1>4, <2>4, <3>2 DEF BrokerInv, EntriesAreProtected
    <3>. QED
      BY <1>9, <2>1, <2>4, <3>1, <3>3 DEF Moves, Contract!Resizing
  <2>5. CASE x # o /\ x \notin C /\ x \notin R
    BY <1>10, <2>5 DEF Moves
  <2>. QED
    BY <2>2, <2>3, <2>4, <2>5
<1>. QED
  BY <1>14, <1>15, <1>16, <1>17, <1>18, <1>19, <1>20, <1>21, <1>22, <1>23, <1>24 DEF BrokerInv, Keeps

LEMMA InvNext == TypeOK /\ BrokerInv /\ [Next]_vars => Keeps
<1> SUFFICES ASSUME TypeOK, BrokerInv, [Next]_vars PROVE Keeps
  OBVIOUS
<1>1. ASSUME NEW o \in todo, Fill(o)
      PROVE  Keeps
  <2>1. CASE IsLeg(o)
    BY <1>1, <2>1, InvFillLeg
  <2>2. CASE ~IsLeg(o)
    BY <1>1, <2>2, InvFillEntry
  <2>. QED
    BY <2>1, <2>2
<1>2. ASSUME NEW o \in todo, Work(o)
      PROVE  Keeps
  BY <1>1, <1>2, InvPass, InvLapse, InvMiss, InvDuplicateChild DEF Work
<1>3. ASSUME NEW o \in Ids, Cancel(o)
      PROVE  Keeps
  BY <1>3, InvCancel DEF Cancel
<1>4. ASSUME NEW I, CancelAll(I)
      PROVE  Keeps
  <2>1. {o \in Working : orders[o].instrument \in I} \in SUBSET Working
    OBVIOUS
  <2>. QED
    BY <1>4, <2>1, InvCancel DEF CancelAll
<1>5. CASE UNCHANGED vars
  <2>1. UNCHANGED <<now, policy, orders, book, brackets, oco, result, phase, left, cur, todo>>
    BY <1>5 DEF vars, bookVars, loopVars
  <2>2. UNCHANGED Working
    BY <2>1 DEF Working
  <2>. QED
    BY <2>1, <2>2 DEF Keeps, Moves, BrokerInv, LoopInv, OrderInv, LegInv, BracketInv, BookIsIndex, SpecsAreLive,
       LinksPairOpenLegs, StopBeatsTarget, EntriesAreProtected, NoLookahead, Entry, IsKnown, TradedThisBar
<1>6. ASSUME NEW i \in left, NEW bar \in Caps \cup {NoBar}, OpenBook(i, bar)
      PROVE  Keeps
  BY <1>6, InvOpenBook
<1>. QED
  BY <1>2, <1>3, <1>4, <1>5, <1>6, InvSubmit, InvBeginBar, InvCloseBook, InvEndBar DEF Next, ProcessBar, Visit

-----------------------------------------------------------------------------
(* The results. *)

(* The inductive invariant holds of every reachable state of the broker,   *)
(* on every interleaving of caller's calls and bars.                       *)
THEOREM BrokerCorrect == Spec => []BrokerInv
<1>1. TypeOK /\ BrokerInv /\ [Next]_vars => BrokerInv'
  BY InvNext DEF Keeps
<1>. QED
  BY <1>1, InvInit, TypeCorrect, PTL DEF Spec

(* The per-instrument index never loses an open order nor, between bars,   *)
(* keeps a closed one (submit, _forget and _prune together).               *)
THEOREM BookCorrect == Spec => []BookIsIndex
<1>1. BrokerInv => BookIsIndex
  BY DEF BrokerInv
<1>. QED
  BY <1>1, BrokerCorrect, PTL

(* Every path that closes an entry forgets its bracket spec.               *)
THEOREM SpecsCorrect == Spec => []SpecsAreLive
<1>1. BrokerInv => SpecsAreLive
  BY DEF BrokerInv
<1>. QED
  BY <1>1, BrokerCorrect, PTL

(* Every path that closes a leg removes both ends of its OCO link.         *)
THEOREM LinksCorrect == Spec => []LinksPairOpenLegs
<1>1. BrokerInv => LinksPairOpenLegs
  BY DEF BrokerInv
<1>. QED
  BY <1>1, BrokerCorrect, PTL

(* The legs of a bracket never both complete, and a bar that completes the *)
(* stop leaves the target untraded, whatever the bars absorb.              *)
THEOREM StopFirst == Spec => []StopBeatsTarget
<1>1. BrokerInv => StopBeatsTarget
  BY DEF BrokerInv
<1>. QED
  BY <1>1, BrokerCorrect, PTL

(* A filled entry has the legs it asked for, sized to what it holds until  *)
(* they trade.                                                             *)
THEOREM Protection == Spec => []EntriesAreProtected
<1>1. BrokerInv => EntriesAreProtected
  BY DEF BrokerInv
<1>. QED
  BY <1>1, BrokerCorrect, PTL

(* No order of a next-bar model, and no protective leg of any model, fills *)
(* on the bar that raised it.                                              *)
THEOREM Firewall == Spec => []NoLookahead
<1>1. BrokerInv => NoLookahead
  BY DEF BrokerInv
<1>. QED
  BY <1>1, BrokerCorrect, PTL

LEMMA ContractInit == Init => Contract!Init
BY DEF Init, Contract!Init, Account, Unknown, Raised

LEMMA ContractStep == (\A x \in Ids : Moves(orders[x], orders'[x])) => Contract!Next
<1> SUFFICES ASSUME \A x \in Ids : Moves(orders[x], orders'[x]), NEW x \in Ids
             PROVE  Contract!Lifecycle(Account[x], Account'[x])
  BY DEF Contract!Next
<1>1. /\ Account[x] = [status |-> orders[x].status, quantity |-> orders[x].quantity,
                       filled |-> orders[x].filled]
      /\ Account'[x] = [status |-> orders'[x].status, quantity |-> orders'[x].quantity,
                        filled |-> orders'[x].filled]
  BY DEF Account
<1>2. Moves(orders[x], orders'[x])
  OBVIOUS
<1>. QED
  BY <1>1, <1>2 DEF Moves, Contract!Lifecycle, Contract!Intake, Contract!Execution,
     Contract!Withdrawal, Contract!Resizing

(* The broker implements the contract of a single order: whatever it does  *)
(* to its book, each order only ever moves along its documented lifecycle. *)
THEOREM ImplementsContract == Spec => KeepsOrderContract
<1>1. TypeOK /\ BrokerInv /\ [Next]_vars => [Contract!Next]_Account
  BY InvNext, ContractStep DEF Keeps
<1>. QED
  BY <1>1, ContractInit, TypeCorrect, BrokerCorrect, PTL DEF Spec, KeepsOrderContract, Contract!Spec

-----------------------------------------------------------------------------
(* Time in force, and the account a bar gives of itself: what an action    *)
(* does to the fields and lists the invariant above does not mention.      *)

(* The terms of an order a bar may not touch, and the activation it may.   *)
SameLife(a, b) == b.tif = a.tif /\ b.expires = a.expires
Ages(a, b)     == b.activated = a.activated \/ (a.activated = 0 /\ b.activated = now)

LEMMA ClosedLife ==
  ASSUME NEW order \in OrderRecord(Instruments), NEW n \in Nat
  PROVE  /\ SameLife(order, Cancelled(order)) /\ Cancelled(order).activated = order.activated
         /\ SameLife(order, Expired(order)) /\ Expired(order).activated = order.activated
         /\ SameLife(order, Resized(order, n)) /\ Resized(order, n).activated = order.activated
         /\ SameLife(order, Activated(order, n))
         /\ Activated(order, n).activated = IF order.activated = 0 THEN n ELSE order.activated
         /\ Cancelled(order).status = "CANCELLED" /\ Expired(order).status = "EXPIRED"
         /\ Cancelled(order).filled = order.filled /\ Cancelled(order).quantity = order.quantity
         /\ Expired(order).filled = order.filled /\ Expired(order).quantity = order.quantity
         /\ Resized(order, n).filled = order.filled /\ Resized(order, n).status = order.status
BY DEF SameLife, OrderRecord, Cancelled, Expired, Resized, Activated

LEMMA AppliedLife ==
  ASSUME NEW order \in OrderRecord(Instruments), NEW n \in Nat
  PROVE  /\ SameLife(order, ApplyFill(order, n))
         /\ ApplyFill(order, n).activated = order.activated
         /\ order.filled + n <= order.quantity => ApplyFill(order, n).filled = order.filled + n
<1>1. order.filled \in Nat /\ order.quantity \in Nat
  BY DEF OrderRecord
<1>2. CASE order.filled + n >= order.quantity
  <2>1. ApplyFill(order, n) = [order EXCEPT !.filled = order.quantity, !.status = "FILLED"]
    BY <1>2 DEF ApplyFill
  <2>2. SameLife(order, ApplyFill(order, n)) /\ ApplyFill(order, n).activated = order.activated
        /\ ApplyFill(order, n).filled = order.quantity
    BY <2>1 DEF SameLife, OrderRecord
  <2>. QED
    BY <1>1, <1>2, <2>2
<1>3. CASE ~(order.filled + n >= order.quantity)
  BY <1>3 DEF SameLife, OrderRecord, ApplyFill
<1>. QED
  BY <1>2, <1>3

(* A fill adds what the bar absorbed; a fill-or-kill order only ever takes *)
(* all it wants; an order trades in its session and before its expiry.     *)
LEMMA TradedLife ==
  ASSUME TypeOK, BrokerInv, NEW o \in todo, Trades(o)
  PROVE  /\ Traded(o).filled = orders[o].filled + Fillable(orders[o])
         /\ Fillable(orders[o]) \in Nat \ {0}
         /\ SameLife(orders[o], Traded(o))
         /\ Traded(o).activated = IF orders[o].activated = 0 THEN now ELSE orders[o].activated
         /\ orders[o].tif = "FOK" /\ orders[o].filled = 0 => Traded(o).filled = Traded(o).quantity
         /\ orders[o].expires # 0 => now < orders[o].expires
         /\ orders[o].tif = "DAY" /\ orders[o].activated # 0
              => ~(Date(now) > Date(orders[o].activated))
<1>1. /\ o \in Ids /\ orders[o] \in OrderRecord(Instruments) /\ now \in Nat
      /\ Activated(orders[o], now) \in OrderRecord(Instruments)
  BY RecordOps DEF TypeOK
<1> DEFINE q == Fillable(orders[o])
           a == Activated(orders[o], now)
<1>2. q \in Nat /\ q # 0 /\ q <= Remaining(orders[o])
  BY <1>1, FillableBound DEF Trades
<1>3. orders[o].filled \in Nat /\ orders[o].quantity \in Nat /\ orders[o].expires \in Nat
  BY <1>1 DEF OrderRecord
<1>4. a.filled = orders[o].filled /\ a.quantity = orders[o].quantity
  BY <1>1, ClosedTerms
<1>5. SameLife(orders[o], a) /\ a.activated = IF orders[o].activated = 0 THEN now ELSE orders[o].activated
  BY <1>1, ClosedLife
<1>6. a.filled + q <= a.quantity
  BY <1>2, <1>3, <1>4 DEF Remaining
<1>7. Traded(o) = ApplyFill(a, q) /\ a \in OrderRecord(Instruments)
  BY <1>1 DEF Traded
<1>8. orders[o].tif = "FOK" => q = Remaining(orders[o])
  BY <1>2 DEF Fillable
<1> HIDE DEF q, a
<1>9. /\ SameLife(a, Traded(o)) /\ Traded(o).activated = a.activated
      /\ Traded(o).filled = a.filled + q
  BY <1>2, <1>6, <1>7, AppliedLife
<1>10. Traded(o).quantity = orders[o].quantity
  BY TradedFacts
<1>11. IsOpen(orders[o]) /\ ~ShouldExpire(orders[o], now)
  BY DEF Trades, IsWorkable, IsEligible
<1>12. SameLife(orders[o], Traded(o))
  BY <1>5, <1>9 DEF SameLife
<1>13. orders[o].tif = "FOK" /\ orders[o].filled = 0 => Traded(o).filled = Traded(o).quantity
  BY <1>3, <1>4, <1>8, <1>2, <1>9, <1>10 DEF Remaining
<1>14. /\ orders[o].expires # 0 => now < orders[o].expires
       /\ orders[o].tif = "DAY" /\ orders[o].activated # 0
            => ~(Date(now) > Date(orders[o].activated))
  BY <1>1, <1>3, <1>11 DEF ShouldExpire
<1>. QED
  BY <1>2, <1>4, <1>5, <1>9, <1>12, <1>13, <1>14 DEF q

(* What a fill does to any order of the broker. *)
LEMMA FillEffect ==
  ASSUME TypeOK, BrokerInv, NEW o \in todo, Fill(o), NEW x \in Ids
  PROVE  \/ /\ x = o
            /\ orders'[x] = IF x \in DroppedBy(o) THEN Cancelled(Traded(o)) ELSE Traded(o)
         \/ /\ x # o /\ x \in DroppedBy(o) /\ x \notin CreatedBy(o) /\ IsOpen(orders[x])
            /\ orders'[x] = Cancelled(orders[x])
         \/ /\ x # o /\ x \notin DroppedBy(o) /\ x \notin CreatedBy(o)
            /\ IsOpen(orders[x]) /\ orders[x].filled = 0
            /\ orders'[x] = Resized(orders[x], Traded(o).filled)
         \/ /\ x # o /\ x \notin DroppedBy(o) /\ x \in CreatedBy(o) /\ ~IsKnown(x)
            /\ orders'[x] = Child(o, x)
         \/ /\ x # o /\ x \notin DroppedBy(o) /\ x \notin CreatedBy(o)
            /\ orders'[x] = orders[x]
<1>1. orders'[x] = AfterFill(o, x)
  BY DEF Fill
<1>2. x \in CreatedBy(o) => ~IsKnown(x) /\ x \notin ResizedBy(o)
  BY DEF Fill, CreatedBy, ResizedBy
<1>3. x \in DroppedBy(o) /\ x # o => IsOpen(orders[x])
  BY DEF DroppedBy
<1>4. IsOpen(orders[x]) => IsKnown(x)
  BY DEF IsOpen, IsKnown, OpenStatuses
<1>5. x \in ResizedBy(o) => IsOpen(orders[x]) /\ orders[x].filled = 0
  BY DEF ResizedBy, ExistingChildren
<1>6. CASE x = o
  BY <1>1, <1>6 DEF AfterFill
<1>7. CASE x # o /\ x \in DroppedBy(o)
  BY <1>1, <1>2, <1>3, <1>4, <1>7 DEF AfterFill
<1>8. CASE x # o /\ x \notin DroppedBy(o) /\ x \in ResizedBy(o)
  BY <1>1, <1>2, <1>5, <1>8 DEF AfterFill
<1>9. CASE x # o /\ x \notin DroppedBy(o) /\ x \notin ResizedBy(o) /\ x \in CreatedBy(o)
  BY <1>1, <1>2, <1>9 DEF AfterFill
<1>10. CASE x # o /\ x \notin DroppedBy(o) /\ x \notin ResizedBy(o) /\ x \notin CreatedBy(o)
  BY <1>1, <1>10 DEF AfterFill
<1>. QED
  BY <1>6, <1>7, <1>8, <1>9, <1>10

-----------------------------------------------------------------------------
(* Time in force. *)

(* What every step but the two that open and close a bar does to an order. *)
Lives(a, b) ==
  /\ \/ a.status = "absent" /\ b.activated = 0
     \/ SameLife(a, b) /\ Ages(a, b)
  /\ b.tif = "FOK" => b.filled \in {0, b.quantity}
  /\ phase' # "crashed" /\ IsOpen(b) /\ IsOneShot(b) => b.activated = 0

(* What a step may add to the fills of the bar. *)
FillsInTime ==
  \A f \in ToSet(result'.fills) \ ToSet(result.fills) :
    /\ f.id \in Ids
    /\ orders'[f.id].activated # 0
    /\ orders'[f.id].tif = "DAY" => Date(orders'[f.id].activated) = Date(now)
    /\ orders'[f.id].expires # 0 => now < orders'[f.id].expires

LEMMA TifKept ==
  ASSUME TypeOK, BrokerInv, TimeInForceInv, UNCHANGED now,
         \A x \in Ids : Lives(orders[x], orders'[x]), FillsInTime,
         phase' = "bar" => phase = "bar"
  PROVE  TimeInForceInv'
<1>1. FillOrKillIsWhole'
  BY DEF Lives, FillOrKillIsWhole
<1>2. phase' # "crashed" => \A o \in Working' : IsOneShot(orders'[o]) => orders'[o].activated = 0
  BY DEF Lives, Working
<1>3. \A x \in Ids : orders'[x].activated <= now'
  <2>1. \A x \in Ids : orders[x].activated <= now /\ now \in Nat
    BY DEF TimeInForceInv, TypeOK
  <2>. QED
    BY <2>1 DEF Lives, Ages
<1>4. ASSUME NEW f \in ToSet(result.fills)
      PROVE  /\ orders'[f.id].activated = orders[f.id].activated
             /\ orders'[f.id].activated # 0 /\ SameLife(orders[f.id], orders'[f.id])
  <2>1. f.id \in Ids /\ orders[f.id].status # "absent" /\ orders[f.id].activated # 0
    BY ListTypes DEF BrokerInv, LoopInv, IsKnown, TimeInForceInv
  <2>2. Lives(orders[f.id], orders'[f.id])
    BY <2>1
  <2>. QED
    BY <2>1, <2>2 DEF Lives, Ages
<1>5. \A f \in ToSet(result'.fills) : orders'[f.id].activated # 0
  BY <1>4 DEF FillsInTime
<1>6. FillsRespectExpiry'
  <2>. SUFFICES ASSUME NEW f \in ToSet(result'.fills)
                PROVE  /\ orders'[f.id].tif = "DAY" => Date(orders'[f.id].activated) = Date(now)
                       /\ orders'[f.id].expires # 0 => now < orders'[f.id].expires
    BY DEF FillsRespectExpiry, Date
  <2>1. CASE f \in ToSet(result.fills)
    BY <1>4, <2>1 DEF TimeInForceInv, FillsRespectExpiry, SameLife
  <2>2. CASE f \notin ToSet(result.fills)
    BY <2>2 DEF FillsInTime
  <2>. QED
    BY <2>1, <2>2
<1>7. phase' = "bar" => now' > 0
  BY DEF TimeInForceInv
<1>. QED
  BY <1>1, <1>2, <1>3, <1>5, <1>6, <1>7 DEF TimeInForceInv

(* An order a step leaves alone, or only closes. *)
LEMMA LivesOn ==
  ASSUME TypeOK, TimeInForceInv, phase # "crashed", NEW x \in Ids, NEW b,
         \/ b = orders[x]
         \/ b = Cancelled(orders[x])
         \/ b = Expired(orders[x])
  PROVE  Lives(orders[x], b)
<1>1. orders[x] \in OrderRecord(Instruments) /\ now \in Nat
  BY DEF TypeOK
<1>2. /\ SameLife(orders[x], b) /\ b.activated = orders[x].activated
      /\ b.filled = orders[x].filled /\ b.quantity = orders[x].quantity
      /\ b = orders[x] \/ b.status \in {"CANCELLED", "EXPIRED"}
  BY <1>1, ClosedLife DEF SameLife
<1>3. IsOpen(b) => b = orders[x] /\ x \in Working
  BY <1>2 DEF IsOpen, OpenStatuses, Working
<1>. QED
  BY <1>1, <1>2, <1>3 DEF Lives, Ages, TimeInForceInv, FillOrKillIsWhole, SameLife

(* A day never runs backwards. *)
LEMMA DateMonotone ==
  ASSUME NEW s \in Nat, NEW t \in Nat, s <= t
  PROVE  Date(s) <= Date(t) /\ Date(s) \in Nat /\ Date(t) \in Nat
<1>1. BarsPerDay \in Nat \ {0}
  BY BarsPerDayAssumption
<1>. QED
  BY <1>1, SMT DEF Date

LEMMA TifFill ==
  ASSUME TypeOK, BrokerInv, TimeInForceInv, NEW o \in todo, Trades(o)
  PROVE  /\ Traded(o).activated # 0
         /\ Traded(o).tif = "DAY" => Date(Traded(o).activated) = Date(now)
         /\ Traded(o).expires # 0 => now < Traded(o).expires
         /\ SameLife(orders[o], Traded(o)) /\ Ages(orders[o], Traded(o))
         /\ Traded(o).tif = "FOK" => Traded(o).filled = Traded(o).quantity
<1>1. o \in Ids /\ IsOpen(orders[o]) /\ phase = "bar" /\ orders[o].filled < orders[o].quantity
  BY TradedFacts DEF BrokerInv, OrderInv
<1>2. orders[o].activated \in Nat /\ now \in Nat /\ now > 0 /\ orders[o].activated <= now
  BY <1>1 DEF TypeOK, OrderRecord, TimeInForceInv
<1>3. orders[o].tif = "FOK" => orders[o].filled = 0
  <2>1. orders[o].filled \in Nat /\ orders[o].quantity \in Nat
    BY <1>1 DEF TypeOK, OrderRecord
  <2>. QED
    BY <1>1, <2>1 DEF TimeInForceInv, FillOrKillIsWhole
<1>4. orders[o].activated # 0 => Date(orders[o].activated) <= Date(now)
        /\ Date(orders[o].activated) \in Nat /\ Date(now) \in Nat
  BY <1>2, DateMonotone
<1>. QED
  BY <1>2, <1>3, <1>4, TradedLife DEF SameLife, Ages

LEMMA TifNext == TypeOK /\ BrokerInv /\ TimeInForceInv /\ [Next]_vars => TimeInForceInv'
<1> SUFFICES ASSUME TypeOK, BrokerInv, TimeInForceInv, [Next]_vars PROVE TimeInForceInv'
  OBVIOUS
<1>1. ASSUME NEW e \in Entries, NEW ticket \in Tickets, NEW at \in {now, now + 1},
             Submit(e, ticket, at)
      PROVE  TimeInForceInv'
  <2>1. EntryId(e) \in Ids /\ phase = "idle" /\ orders[EntryId(e)].status = "absent"
    BY <1>1, LegPair DEF Submit, IsKnown
  <2>2. /\ orders'[EntryId(e)].activated = 0 /\ orders'[EntryId(e)].filled = 0
        /\ \A x \in Ids \ {EntryId(e)} : orders'[x] = orders[x]
    BY <1>1, <2>1 DEF Submit, Raised, TypeOK
  <2>3. ASSUME NEW x \in Ids
        PROVE  Lives(orders[x], orders'[x])
    BY <2>1, <2>2, LivesOn DEF Lives
  <2>4. FillsInTime /\ UNCHANGED <<now, phase>>
    BY <1>1 DEF FillsInTime, Submit, loopVars
  <2>. QED
    BY <2>3, <2>4, TifKept
<1>2. ASSUME NEW S, CancelOrders(S)
      PROVE  TimeInForceInv'
  <2>1. /\ \A x \in Ids : orders'[x] = IF x \in S THEN Cancelled(orders[x]) ELSE orders[x]
        /\ FillsInTime /\ UNCHANGED <<now, phase>> /\ phase = "idle"
    BY <1>2 DEF FillsInTime, CancelOrders, loopVars
  <2>2. \A x \in Ids : Lives(orders[x], orders'[x])
    BY <2>1, LivesOn
  <2>. QED
    BY <2>1, <2>2, TifKept
<1>3. CASE BeginBar
  <2>1. /\ ToSet(result'.fills) = {} /\ UNCHANGED orders /\ now' = now + 1 /\ now \in Nat
        /\ phase = "idle" /\ Working' = Working
    BY <1>3, NothingListed, TypeParts DEF BeginBar, NoResult, BookTypes, Working
  <2>2. \A x \in Ids : orders[x].activated \in Nat
    BY DEF TypeOK, OrderRecord
  <2>. QED
    BY <2>1, <2>2 DEF TimeInForceInv, FillOrKillIsWhole, FillsRespectExpiry
<1>4. CASE EndBar
  <2>1. /\ ToSet(result'.fills) = {} /\ UNCHANGED <<orders, now>> /\ phase = "bar" /\ phase' = "idle"
        /\ Working' = Working
    BY <1>4, NothingListed DEF EndBar, NoResult, bookVars, Working
  <2>. QED
    BY <2>1 DEF TimeInForceInv, FillOrKillIsWhole, FillsRespectExpiry
<1>5. ASSUME UNCHANGED <<orders, result, now, phase>>
      PROVE  TimeInForceInv'
  <2>1. Working' = Working
    BY <1>5 DEF Working
  <2>. QED
    BY <1>5, <2>1 DEF TimeInForceInv, FillOrKillIsWhole, FillsRespectExpiry, Date
<1>6. ASSUME NEW o \in todo, Lapse(o)
      PROVE  TimeInForceInv'
  <2>1. /\ \A x \in Ids : orders'[x] = IF x = o THEN Expired(orders[x]) ELSE orders[x]
        /\ UNCHANGED <<now, phase>> /\ phase = "bar" /\ ToSet(result'.fills) = ToSet(result.fills)
    BY <1>6 DEF Lapse, Take, Report, TypeOK
  <2>2. \A x \in Ids : Lives(orders[x], orders'[x])
    BY <2>1, LivesOn
  <2>. QED
    BY <2>1, <2>2, TifKept DEF FillsInTime
<1>7. ASSUME NEW o \in todo, Miss(o)
      PROVE  TimeInForceInv'
  <2>1. /\ o \in Ids /\ orders[o] \in OrderRecord(Instruments) /\ now \in Nat
        /\ Activated(orders[o], now) \in OrderRecord(Instruments)
    BY RecordOps DEF TypeOK
  <2>2. /\ \A x \in Ids \ {o} : orders'[x] = orders[x]
        /\ orders'[o] = IF IsOneShot(orders[o]) THEN Expired(Activated(orders[o], now))
                                                ELSE Activated(orders[o], now)
        /\ UNCHANGED <<now, phase>> /\ phase = "bar" /\ ToSet(result'.fills) = ToSet(result.fills)
    BY <1>7, <2>1 DEF Miss, Take, Report, TypeOK
  <2>3. Lives(orders[o], orders'[o])
    <3>1. /\ SameLife(orders[o], orders'[o]) /\ Ages(orders[o], orders'[o])
          /\ orders'[o].filled = orders[o].filled /\ orders'[o].quantity = orders[o].quantity
          /\ IsOneShot(orders[o]) => orders'[o].status = "EXPIRED"
      BY <2>1, <2>2, ClosedLife, ClosedTerms DEF SameLife, Ages
    <3>. QED
      BY <2>1, <3>1 DEF Lives, SameLife, IsOneShot, IsOpen, OpenStatuses, TimeInForceInv, FillOrKillIsWhole
  <2>4. \A x \in Ids : Lives(orders[x], orders'[x])
    BY <2>2, <2>3, LivesOn
  <2>. QED
    BY <2>2, <2>4, TifKept DEF FillsInTime
<1>8. ASSUME NEW o \in todo, DuplicateChild(o)
      PROVE  TimeInForceInv'
  <2>1. /\ Trades(o) /\ o \in Ids /\ phase = "bar" /\ phase' = "crashed" /\ now' = now
        /\ orders'[o] = Traded(o) /\ \A x \in Ids \ {o} : orders'[x] = orders[x]
        /\ ToSet(result'.fills) = ToSet(result.fills) \cup {FillRecord(o)} /\ FillRecord(o).id = o
    <3>1. /\ o \in Ids /\ result'.fills = Append(result.fills, FillRecord(o))
          /\ DOMAIN orders = Ids
      BY <1>8, ListTypes, TypeParts DEF DuplicateChild, Report, BookTypes
    <3>. QED
      BY <1>8, <3>1, FillListed, FillRecordType DEF DuplicateChild, Trades, Take
  <2>2. Lives(orders[o], orders'[o]) /\ FillsInTime
    BY <2>1, TifFill DEF Lives, FillsInTime
  <2>3. \A x \in Ids : Lives(orders[x], orders'[x])
    BY <2>1, <2>2, LivesOn
  <2>. QED
    BY <2>1, <2>2, <2>3, TifKept
<1>9. ASSUME NEW o \in todo, Fill(o)
      PROVE  TimeInForceInv'
  <2>1. /\ Trades(o) /\ o \in Ids /\ phase = "bar" /\ phase' = phase /\ now' = now
        /\ ToSet(result'.fills) = ToSet(result.fills) \cup {FillRecord(o)} /\ FillRecord(o).id = o
        /\ Traded(o) \in OrderRecord(Instruments)
    <3>1. o \in Ids
      BY DEF TypeOK
    <3>. QED
      BY <1>9, <3>1, TradedType, FillAdds DEF Fill, Trades, Take
  <2>2. /\ orders'[o] = IF o \in DroppedBy(o) THEN Cancelled(Traded(o)) ELSE Traded(o)
    BY <1>9, <2>1, FillEffect
  <2>3. /\ SameLife(Traded(o), orders'[o]) /\ orders'[o].activated = Traded(o).activated
        /\ orders'[o].filled = Traded(o).filled /\ orders'[o].quantity = Traded(o).quantity
        /\ IsOpen(orders'[o]) => ~IsOneShot(orders[o])
    <3>1. CASE o \in DroppedBy(o)
      BY <2>1, <2>2, <3>1, ClosedLife DEF IsOpen, OpenStatuses
    <3>2. CASE o \notin DroppedBy(o)
      <4>1. IsOneShot(orders[o]) => Traded(o).status = "FILLED"
        BY <3>2 DEF DroppedBy, Settles
      <4>. QED
        BY <2>2, <3>2, <4>1 DEF SameLife, IsOpen, OpenStatuses
    <3>. QED
      BY <3>1, <3>2
  <2>4. Lives(orders[o], orders'[o]) /\ FillsInTime
    BY <2>1, <2>3, TifFill DEF Lives, FillsInTime, SameLife, Ages, IsOneShot
  <2>5. ASSUME NEW x \in Ids, x # o
        PROVE  Lives(orders[x], orders'[x])
    <3>1. orders[x] \in OrderRecord(Instruments) /\ Traded(o).filled \in Nat
      BY <2>1 DEF TypeOK, OrderRecord
    <3>2. CASE orders'[x] = Cancelled(orders[x]) \/ orders'[x] = orders[x]
      BY <2>1, <3>2, LivesOn
    <3>3. CASE ~IsKnown(x) /\ orders'[x] = Child(o, x)
      BY <3>3 DEF Lives, Child, Raised, IsKnown
    <3>4. CASE IsOpen(orders[x]) /\ orders[x].filled = 0 /\ orders'[x] = Resized(orders[x], Traded(o).filled)
      <4>1. /\ SameLife(orders[x], orders'[x]) /\ orders'[x].activated = orders[x].activated
            /\ orders'[x].filled = 0 /\ orders'[x].status = orders[x].status
        BY <3>1, <3>4, ClosedLife
      <4>. QED
        BY <2>1, <3>4, <4>1 DEF Lives, Ages, SameLife, IsOneShot, TimeInForceInv, Working, IsOpen
    <3>. QED
      BY <1>9, <2>5, <3>2, <3>3, <3>4, FillEffect
  <2>6. \A x \in Ids : Lives(orders[x], orders'[x])
    BY <2>4, <2>5
  <2>. QED
    BY <2>1, <2>4, <2>6, TifKept
<1>10. ASSUME NEW i \in left, NEW bar \in Caps \cup {NoBar}, OpenBook(i, bar)
       PROVE  TimeInForceInv'
  BY <1>5, <1>10 DEF OpenBook, bookVars
<1>11. ASSUME NEW o \in todo, Pass(o)
       PROVE  TimeInForceInv'
  BY <1>5, <1>11 DEF Pass, Take, bookVars
<1>12. CASE CloseBook \/ UNCHANGED vars
  BY <1>5, <1>12 DEF CloseBook, vars, bookVars, loopVars
<1>. QED
  BY <1>1, <1>2, <1>3, <1>4, <1>6, <1>7, <1>8, <1>9, <1>10, <1>11, <1>12
     DEF Next, Cancel, CancelAll, ProcessBar, Visit, Work

LEMMA TifInit == Init => TimeInForceInv
<1> SUFFICES ASSUME Init PROVE TimeInForceInv
  OBVIOUS
<1>1. \A o \in Ids : /\ orders[o].status = "absent" /\ orders[o].filled = 0
                     /\ orders[o].activated = 0
  BY DEF Init, Unknown, Raised
<1>2. ToSet(result.fills) = {} /\ now = 0 /\ phase = "idle"
  BY NothingListed DEF Init, NoResult
<1>. QED
  BY <1>1, <1>2 DEF TimeInForceInv, FillOrKillIsWhole, FillsRespectExpiry, Working

LEMMA TifCorrect == Spec => []TimeInForceInv
BY TifInit, TifNext, TypeCorrect, BrokerCorrect, PTL DEF Spec

(* FOK trades whole or not at all, IOC and FOK orders do not outlive the   *)
(* first bar that sees them, and no order trades outside its session or    *)
(* past its expiry.                                                        *)
THEOREM TimeInForceKept == Spec => []TimeInForceHonoured
<1>1. TimeInForceInv => TimeInForceHonoured
  BY DEF TimeInForceInv, TimeInForceHonoured, OneShotsAreRetired
<1>. QED
  BY <1>1, TifCorrect, PTL

-----------------------------------------------------------------------------
(* The account of a bar. *)

(* A step that queues the refusals of R, expires the orders of E, cancels  *)
(* those of D, and changes the status of no other order to or from one of  *)
(* these.                                                                  *)
Withdrawn == {"EXPIRED", "CANCELLED", "REJECTED"}

Closings(E, D, R) ==
  \A x \in Ids :
    /\ x \in E => IsOpen(orders[x]) /\ orders'[x].status = "EXPIRED"
    /\ x \in D => IsOpen(orders[x]) /\ orders'[x].status = "CANCELLED"
    /\ x \in R => ~IsKnown(x) /\ orders'[x].status = "REJECTED"
    /\ x \notin E /\ x \notin D /\ x \notin R =>
         orders'[x].status = orders[x].status \/
           (orders'[x].status \notin Withdrawn /\ orders[x].status \notin Withdrawn)

(* What the action properties say of one step. *)
BarIsReported ==
  phase = "bar" /\ phase' # "idle" =>
    /\ Gains(result.fills, result'.fills, Trading)
    /\ Gains(result.expirations, result'.expirations, Closing("EXPIRED"))
    /\ Gains(result.cancellations, result'.cancellations, Closing("CANCELLED"))
    /\ result'.rejections = result.rejections
RefusalsAreQueued ==
  \/ /\ Gains(pendingRejections, pendingRejections', Closing("REJECTED"))
     /\ result'.rejections \in {result.rejections, <<>>}
  \/ /\ pendingRejections' = <<>> /\ Closing("REJECTED") = {}
     /\ result' = [NoResult EXCEPT !.rejections = pendingRejections]
StepReports == BarIsReported /\ RefusalsAreQueued

(* Lists that grow: by nothing, by one entry, by one if a condition holds. *)
LEMMA GainsNothing ==
  ASSUME NEW S, NEW s \in Seq(S)
  PROVE  Gains(s, s, {})
<1>1. Len(s) \in Nat /\ (Len(s) + 1)..Len(s) = {}
  OBVIOUS
<1>. QED
  BY <1>1 DEF Gains

LEMMA GainsOne ==
  ASSUME NEW S, NEW s \in Seq(S), NEW x \in S
  PROVE  Gains(s, Append(s, x), {x})
<1>1. /\ Len(s) \in Nat /\ Len(Append(s, x)) = Len(s) + 1 /\ DOMAIN s = 1..Len(s)
      /\ Append(s, x)[Len(s) + 1] = x
      /\ \A i \in 1..Len(s) : Append(s, x)[i] = s[i]
  OBVIOUS
<1>2. (Len(s) + 1)..(Len(s) + 1) = {Len(s) + 1}
  BY <1>1
<1>. QED
  BY <1>1, <1>2 DEF Gains

LEMMA GainsNoted ==
  ASSUME NEW S, NEW s \in Seq(S), NEW x \in S, NEW yes
  PROVE  /\ Gains(s, Noted(s, x, yes), IF yes THEN {x} ELSE {})
         /\ Noted(s, x, yes) \in Seq(S)
BY GainsNothing, GainsOne DEF Noted

LEMMA GainsMore ==
  ASSUME NEW S, NEW s \in Seq(S), NEW t \in Seq(S), NEW u \in Seq(S), NEW A, NEW B,
         Gains(s, t, A), Gains(t, u, B), A \cap B = {}
  PROVE  Gains(s, u, A \cup B)
<1> DEFINE n == Len(s)
           m == Len(t)
           k == Len(u)
<1>1. /\ n \in Nat /\ m \in Nat /\ k \in Nat /\ n <= m /\ m <= k
      /\ DOMAIN s = 1..n /\ DOMAIN t = 1..m
      /\ \A i \in 1..n : t[i] = s[i]
      /\ \A i \in 1..m : u[i] = t[i]
  BY DEF Gains
<1>2. /\ (n + 1)..k = ((n + 1)..m) \cup ((m + 1)..k)
      /\ \A i \in (n + 1)..m : u[i] = t[i]
  BY <1>1
<1>3. /\ {t[i] : i \in (n + 1)..m} = A /\ {u[i] : i \in (m + 1)..k} = B
      /\ \A i, j \in (n + 1)..m : t[i] = t[j] => i = j
      /\ \A i, j \in (m + 1)..k : u[i] = u[j] => i = j
  BY DEF Gains
<1>4. /\ \A i \in (n + 1)..m : u[i] \in A
      /\ \A i \in (m + 1)..k : u[i] \in B
  BY <1>2, <1>3
<1>5. {u[i] : i \in (n + 1)..k} = A \cup B
  <2>1. \A x \in A : \E i \in (n + 1)..k : x = u[i]
    <3>1. \A x \in A : \E i \in (n + 1)..m : x = t[i]
      BY <1>3
    <3>. QED
      BY <1>2, <3>1
  <2>2. \A x \in B : \E i \in (n + 1)..k : x = u[i]
    BY <1>2, <1>3
  <2>. QED
    BY <1>2, <1>4, <2>1, <2>2
<1>6. \A i, j \in (n + 1)..k : u[i] = u[j] => i = j
  BY <1>2, <1>3, <1>4
<1>7. n <= k /\ \A i \in 1..n : u[i] = s[i]
  BY <1>1
<1>. QED
  BY <1>1, <1>5, <1>6, <1>7 DEF Gains

LEMMA GainsHeld ==
  ASSUME NEW S, NEW s \in Seq(S), NEW t \in Seq(S), NEW A, Gains(s, t, A)
  PROVE  /\ ToSet(t) = ToSet(s) \cup A
         /\ Distinct(s) /\ ToSet(s) \cap A = {} => Distinct(t)
<1>1. /\ Len(s) \in Nat /\ Len(t) \in Nat /\ DOMAIN s = 1..Len(s) /\ DOMAIN t = 1..Len(t)
      /\ Len(s) <= Len(t) /\ \A i \in 1..Len(s) : t[i] = s[i]
      /\ {t[i] : i \in (Len(s) + 1)..Len(t)} = A
      /\ \A i, j \in (Len(s) + 1)..Len(t) : t[i] = t[j] => i = j
  BY DEF Gains
<1>2. 1..Len(t) = (1..Len(s)) \cup ((Len(s) + 1)..Len(t))
  BY <1>1
<1>3. /\ \A i \in 1..Len(s) : t[i] \in ToSet(s)
      /\ \A i \in (Len(s) + 1)..Len(t) : t[i] \in A
  BY <1>1 DEF ToSet
<1>4. ToSet(t) = ToSet(s) \cup A
  BY <1>1, <1>2 DEF ToSet
<1>5. ASSUME Distinct(s), ToSet(s) \cap A = {}
      PROVE  Distinct(t)
  BY <1>1, <1>2, <1>3, <1>5 DEF Distinct
<1>. QED
  BY <1>4, <1>5

(* A step of process_bar between its first and its last: F is the order it *)
(* fills, if any.                                                          *)
Accounts(F, E, D, R) ==
  /\ F \subseteq todo /\ E \subseteq Ids /\ D \subseteq Ids /\ R \subseteq Ids
  /\ Closings(E, D, R)
  /\ \A x \in Ids \ F : orders'[x].filled = orders[x].filled
  /\ \A x \in F : /\ orders'[x].filled = orders[x].filled + Fillable(orders[x])
                  /\ Fillable(orders[x]) # 0
  /\ Gains(result.fills, result'.fills, {FillRecord(x) : x \in F})
  /\ Gains(result.expirations, result'.expirations, E)
  /\ Gains(result.cancellations, result'.cancellations, D)
  /\ result'.rejections = result.rejections
  /\ Gains(pendingRejections, pendingRejections', R)
  /\ todo' \subseteq todo \ F

LEMMA ClosedStay ==
  ASSUME TypeOK, ReportInv, NEW E, NEW D, NEW R, Closings(E, D, R)
  PROVE  /\ \A x \in ToSet(result.expirations) : x \notin E /\ orders'[x].status = "EXPIRED"
         /\ \A x \in ToSet(result.cancellations) : x \notin D /\ orders'[x].status = "CANCELLED"
         /\ \A x \in ToSet(pendingRejections) : x \notin R /\ orders'[x].status = "REJECTED"
<1>1. /\ ToSet(result.expirations) \subseteq Ids /\ ToSet(result.cancellations) \subseteq Ids
      /\ ToSet(pendingRejections) \subseteq Ids
  BY DEF TypeOK, ToSet
<1>. QED
  BY <1>1 DEF ReportInv, Closings, Withdrawn, IsOpen, OpenStatuses, IsKnown

(* The fills of a bar name an order once, since one that has traded is not *)
(* worked again.                                                           *)
LEMMA FilledOnce ==
  ASSUME TypeOK, TypeOK', ReportInv, NEW F, F \subseteq todo,
         Gains(result.fills, result'.fills, {FillRecord(x) : x \in F})
  PROVE  \A i, j \in DOMAIN result'.fills : result'.fills[i].id = result'.fills[j].id => i = j
<1> DEFINE s == result.fills
           t == result'.fills
<1>1. /\ s \in Seq([id : Ids, quantity : Nat]) /\ t \in Seq([id : Ids, quantity : Nat])
  BY DEF TypeOK
<1> HIDE DEF s, t
<1>2. /\ Len(s) \in Nat /\ Len(t) \in Nat /\ DOMAIN s = 1..Len(s) /\ DOMAIN t = 1..Len(t)
  BY <1>1
<1>3. /\ Len(s) <= Len(t) /\ \A i \in 1..Len(s) : t[i] = s[i]
      /\ {t[i] : i \in (Len(s) + 1)..Len(t)} = {FillRecord(x) : x \in F}
      /\ \A i, j \in (Len(s) + 1)..Len(t) : t[i] = t[j] => i = j
  BY <1>2 DEF Gains, s, t
<1>4. 1..Len(t) = (1..Len(s)) \cup ((Len(s) + 1)..Len(t))
  BY <1>2, <1>3
<1>5. \A i \in (Len(s) + 1)..Len(t) : t[i].id \in todo /\ t[i] = FillRecord(t[i].id)
  <2>1. \A i \in (Len(s) + 1)..Len(t) : \E x \in F : t[i] = FillRecord(x)
    <3>1. \A i \in (Len(s) + 1)..Len(t) : t[i] \in {FillRecord(x) : x \in F}
      BY <1>3
    <3>. QED
      BY <3>1
  <2>2. \A x : FillRecord(x).id = x
    BY DEF FillRecord
  <2>. QED
    BY <2>1, <2>2
<1>6. /\ \A i \in 1..Len(s) : t[i].id \notin todo
      /\ \A i, j \in 1..Len(s) : t[i].id = t[j].id => i = j
  <2>1. /\ \A i \in 1..Len(s) : s[i].id \notin todo
        /\ \A i, j \in 1..Len(s) : s[i].id = s[j].id => i = j
    BY <1>2 DEF ReportInv, NamedOnce, ToSet, s
  <2>. QED
    BY <1>3, <2>1
<1>7. \A i, j \in (Len(s) + 1)..Len(t) : t[i].id = t[j].id => i = j
  BY <1>3, <1>5
<1>. QED
  BY <1>2, <1>4, <1>5, <1>6, <1>7 DEF t

LEMMA AccountsReported ==
  ASSUME TypeOK, TypeOK', BrokerInv, ReportInv, NEW F, NEW E, NEW D, NEW R,
         Accounts(F, E, D, R)
  PROVE  ReportInv' /\ StepReports
<1>1. Closings(E, D, R)
  BY DEF Accounts
<1>2. /\ result.fills \in Seq([id : Ids, quantity : Nat])
      /\ result'.fills \in Seq([id : Ids, quantity : Nat])
      /\ result.expirations \in Seq(Ids) /\ result'.expirations \in Seq(Ids)
      /\ result.cancellations \in Seq(Ids) /\ result'.cancellations \in Seq(Ids)
      /\ pendingRejections \in Seq(Ids) /\ pendingRejections' \in Seq(Ids)
  BY DEF TypeOK
<1>3. /\ ToSet(result'.fills) = ToSet(result.fills) \cup {FillRecord(x) : x \in F}
      /\ ToSet(result'.expirations) = ToSet(result.expirations) \cup E
      /\ ToSet(result'.cancellations) = ToSet(result.cancellations) \cup D
      /\ ToSet(pendingRejections') = ToSet(pendingRejections) \cup R
  BY <1>2, GainsHeld DEF Accounts
<1>4. ReportInv'
  <2>1. \A f \in ToSet(result'.fills) : f.id \notin todo'
    BY <1>3 DEF Accounts, ReportInv, FillRecord
  <2>2. /\ \A o \in ToSet(result'.expirations) : orders'[o].status = "EXPIRED"
        /\ \A o \in ToSet(result'.cancellations) : orders'[o].status = "CANCELLED"
        /\ \A o \in ToSet(pendingRejections') : orders'[o].status = "REJECTED"
    <3>1. /\ \A x \in E : orders'[x].status = "EXPIRED"
          /\ \A x \in D : orders'[x].status = "CANCELLED"
          /\ \A x \in R : orders'[x].status = "REJECTED"
      BY DEF Accounts, Closings
    <3>. QED
      BY <1>1, <1>3, <3>1, ClosedStay
  <2>3. /\ Distinct(result'.expirations) /\ Distinct(result'.cancellations)
        /\ Distinct(pendingRejections') /\ Distinct(result'.rejections)
    <3>1. /\ ToSet(result.expirations) \cap E = {} /\ ToSet(result.cancellations) \cap D = {}
          /\ ToSet(pendingRejections) \cap R = {}
      BY <1>1, ClosedStay
    <3>2. /\ Distinct(result.expirations) /\ Distinct(result.cancellations)
          /\ Distinct(pendingRejections) /\ Distinct(result.rejections)
      BY DEF ReportInv, NamedOnce
    <3>. QED
      BY <1>2, <3>1, <3>2, GainsHeld DEF Accounts
  <2>4. \A i, j \in DOMAIN result'.fills : result'.fills[i].id = result'.fills[j].id => i = j
    BY FilledOnce DEF Accounts
  <2>. QED
    BY <2>1, <2>2, <2>3, <2>4 DEF ReportInv, NamedOnce
<1>5. Closing("EXPIRED") = E /\ Closing("CANCELLED") = D /\ Closing("REJECTED") = R
  <2>1. ASSUME NEW o \in Ids
        PROVE  /\ o \in Closing("EXPIRED") <=> o \in E
               /\ o \in Closing("CANCELLED") <=> o \in D
               /\ o \in Closing("REJECTED") <=> o \in R
    BY <1>1 DEF Closings, Closing, Withdrawn, IsOpen, OpenStatuses, IsKnown
  <2>. QED
    BY <2>1 DEF Accounts, Closing
<1>6. Trading = {FillRecord(x) : x \in F}
  <2>1. F \subseteq Ids
    BY DEF Accounts, TypeOK
  <2>2. ASSUME NEW o \in Ids
        PROVE  /\ orders'[o].filled # orders[o].filled <=> o \in F
               /\ o \in F => orders'[o].filled - orders[o].filled = Fillable(orders[o])
    <3>1. orders[o].filled \in Nat /\ Fillable(orders[o]) \in Nat
      BY FillableBound DEF TypeOK, OrderRecord
    <3>. QED
      BY <3>1 DEF Accounts
  <2>. QED
    BY <2>1, <2>2 DEF Trading, FillRecord
<1>. QED
  BY <1>4, <1>5, <1>6 DEF StepReports, BarIsReported, RefusalsAreQueued, Accounts

(* A step that touches no order, fills nothing and reports nothing. *)
LEMMA AccountsIdle ==
  ASSUME TypeOK, UNCHANGED <<orders, result, pendingRejections>>, todo' \subseteq todo
  PROVE  Accounts({}, {}, {}, {})
<1>1. /\ Gains(result.fills, result.fills, {}) /\ Gains(result.expirations, result.expirations, {})
      /\ Gains(result.cancellations, result.cancellations, {})
      /\ Gains(pendingRejections, pendingRejections, {})
  BY GainsNothing DEF TypeOK
<1>. QED
  BY <1>1 DEF Accounts, Closings

(* A step that expires o. *)
LEMMA AccountsExpiry ==
  ASSUME TypeOK, NEW o \in Ids, IsOpen(orders[o]), orders'[o].status = "EXPIRED",
         orders'[o].filled = orders[o].filled,
         \A x \in Ids \ {o} : orders'[x] = orders[x],
         result' = [result EXCEPT !.expirations = Append(@, o)],
         UNCHANGED pendingRejections, todo' \subseteq todo
  PROVE  Accounts({}, {o}, {}, {})
<1>1. /\ result'.fills = result.fills /\ result'.expirations = Append(result.expirations, o)
      /\ result'.cancellations = result.cancellations /\ result'.rejections = result.rejections
  BY DEF TypeOK
<1>2. /\ Gains(result.fills, result.fills, {})
      /\ Gains(result.expirations, Append(result.expirations, o), {o})
      /\ Gains(result.cancellations, result.cancellations, {})
      /\ Gains(pendingRejections, pendingRejections, {})
  BY GainsNothing, GainsOne DEF TypeOK
<1>. QED
  BY <1>1, <1>2 DEF Accounts, Closings

(* Refused children are queued once each. *)
LEMMA QueueGrows ==
  ASSUME TypeOK, NEW o \in Ids
  PROVE  /\ Gains(pendingRejections, QueuedWith(o), CreatedBy(o) \ AcceptedBy(o))
         /\ QueuedWith(o) \in Seq(Ids)
<1> DEFINE sl == <<o[1], "SL">>
           tp == <<o[1], "TP">>
           R  == CreatedBy(o) \ AcceptedBy(o)
           q1 == Noted(pendingRejections, sl, sl \in R)
           q2 == Noted(q1, tp, tp \in R)
           R1 == IF sl \in R THEN {sl} ELSE {}
           R2 == IF tp \in R THEN {tp} ELSE {}
<1>1. sl \in Ids /\ tp \in Ids /\ sl # tp /\ R \subseteq {sl, tp}
  BY IdShape DEF ChildrenOf, CreatedBy
<1>2. R1 \cup R2 = R /\ R1 \cap R2 = {}
  BY <1>1
<1>3. QueuedWith(o) = q2
  BY DEF QueuedWith
<1>4. pendingRejections \in Seq(Ids) /\ (sl \in R) \in BOOLEAN /\ (tp \in R) \in BOOLEAN
  BY DEF TypeOK
<1>5. Gains(pendingRejections, q1, R1) /\ q1 \in Seq(Ids)
  <2> HIDE DEF R, sl
  <2>. QED
    BY <1>1, <1>4, GainsNoted
<1>6. Gains(q1, q2, R2) /\ q2 \in Seq(Ids)
  <2> HIDE DEF R, tp, q1
  <2>. QED
    BY <1>1, <1>4, <1>5, GainsNoted
<1> HIDE DEF R, sl, tp, q1, q2, R1, R2
<1>7. Gains(pendingRejections, q2, R1 \cup R2)
  BY <1>2, <1>4, <1>5, <1>6, GainsMore
<1>. QED
  BY <1>2, <1>3, <1>6, <1>7 DEF R

LEMMA AccountsFill ==
  ASSUME TypeOK, BrokerInv, NEW o \in todo, Fill(o)
  PROVE  Accounts({o}, {}, DroppedBy(o), CreatedBy(o) \ AcceptedBy(o))
<1>1. /\ Trades(o) /\ o \in Ids /\ orders[o] \in OrderRecord(Instruments)
      /\ Traded(o) \in OrderRecord(Instruments)
      /\ result' = [result EXCEPT !.fills = Append(@, FillRecord(o)),
                    !.cancellations = Noted(@, DroppedId(o), DroppedBy(o) # {})]
      /\ pendingRejections' = QueuedWith(o)
      /\ todo' = todo \ {o}
  BY TradedType DEF Fill, Trades, Take, TypeOK
<1>2. /\ result'.fills = Append(result.fills, FillRecord(o))
      /\ result'.expirations = result.expirations
      /\ result'.cancellations = Noted(result.cancellations, DroppedId(o), DroppedBy(o) # {})
      /\ result'.rejections = result.rejections
  BY <1>1 DEF TypeOK
<1>3. /\ IsOpen(orders[o]) /\ Traded(o).status \in {"FILLED", "PARTIALLY_FILLED"}
      /\ Traded(o).filled = orders[o].filled + Fillable(orders[o])
  BY <1>1, TradedFacts, TradedLife
<1>4. o \notin CreatedBy(o)
  BY <1>3 DEF Fill, IsKnown, IsOpen, OpenStatuses
<1>5. ASSUME NEW x \in Ids
      PROVE  /\ x \in DroppedBy(o) => IsOpen(orders[x]) /\ orders'[x].status = "CANCELLED"
             /\ x \in CreatedBy(o) \ AcceptedBy(o) => ~IsKnown(x) /\ orders'[x].status = "REJECTED"
             /\ x \notin DroppedBy(o) /\ x \notin CreatedBy(o) \ AcceptedBy(o) =>
                  orders'[x].status = orders[x].status \/
                    (orders'[x].status \notin Withdrawn /\ orders[x].status \notin Withdrawn)
             /\ orders'[x].filled = IF x = o THEN Traded(o).filled ELSE orders[x].filled
  <2>1. orders[x] \in OrderRecord(Instruments) /\ Traded(o).filled \in Nat
    BY <1>1 DEF TypeOK, OrderRecord
  <2>2. CASE x = o /\ orders'[x] = IF x \in DroppedBy(o) THEN Cancelled(Traded(o)) ELSE Traded(o)
    <3>1. /\ orders'[x].status = IF x \in DroppedBy(o) THEN "CANCELLED" ELSE Traded(o).status
          /\ orders'[x].filled = Traded(o).filled
      BY <1>1, <2>2, ClosedLife
    <3>. QED
      BY <1>3, <1>4, <2>2, <3>1 DEF Withdrawn, IsOpen, OpenStatuses
  <2>3. CASE /\ x # o /\ x \in DroppedBy(o) /\ x \notin CreatedBy(o) /\ IsOpen(orders[x])
             /\ orders'[x] = Cancelled(orders[x])
    <3>1. orders'[x].status = "CANCELLED" /\ orders'[x].filled = orders[x].filled
      BY <2>1, <2>3, ClosedLife
    <3>. QED
      BY <2>3, <3>1
  <2>4. CASE /\ x # o /\ x \notin DroppedBy(o) /\ x \notin CreatedBy(o)
             /\ orders'[x] = Resized(orders[x], Traded(o).filled)
    <3>1. orders'[x].status = orders[x].status /\ orders'[x].filled = orders[x].filled
      BY <2>1, <2>4, ClosedLife
    <3>. QED
      BY <2>4, <3>1
  <2>5. CASE /\ x # o /\ x \notin DroppedBy(o) /\ x \in CreatedBy(o) /\ ~IsKnown(x)
             /\ orders'[x] = Child(o, x)
    <3>1. /\ orders'[x].status = IF x \in AcceptedBy(o) THEN "ACCEPTED" ELSE "REJECTED"
          /\ orders'[x].filled = 0
      BY <1>1, <2>5, ChildFacts
    <3>2. orders[x].filled = 0 /\ orders[x].status = "absent"
      BY <2>5 DEF IsKnown, BrokerInv, OrderInv
    <3>. QED
      BY <2>5, <3>1, <3>2 DEF Withdrawn
  <2>6. CASE /\ x # o /\ x \notin DroppedBy(o) /\ x \notin CreatedBy(o)
             /\ orders'[x] = orders[x]
    BY <2>6
  <2>. QED
    BY <2>2, <2>3, <2>4, <2>5, <2>6, FillEffect
<1>6. DroppedBy(o) \subseteq Ids /\ CreatedBy(o) \subseteq Ids
  BY <1>1, FillSets
<1>7. /\ Gains(result.fills, result'.fills, {FillRecord(x) : x \in {o}})
      /\ Gains(result.expirations, result'.expirations, {})
      /\ Gains(result.cancellations, result'.cancellations, DroppedBy(o))
  <2>1. /\ DroppedId(o) \in Ids /\ FillRecord(o) \in [id : Ids, quantity : Nat]
        /\ DroppedBy(o) = IF DroppedBy(o) # {} THEN {DroppedId(o)} ELSE {}
    BY <1>1, IdShape, FillRecordType DEF DroppedBy, DroppedId
  <2>2. {FillRecord(x) : x \in {o}} = {FillRecord(o)}
    OBVIOUS
  <2>. QED
    <3>1. Gains(result.fills, Append(result.fills, FillRecord(o)), {FillRecord(o)})
      BY <2>1, ListTypes, GainsOne, Zenon
    <3>2. Gains(result.expirations, result.expirations, {})
      BY ListTypes, GainsNothing, Zenon
    <3>3. Gains(result.cancellations, Noted(result.cancellations, DroppedId(o), DroppedBy(o) # {}),
                IF DroppedBy(o) # {} THEN {DroppedId(o)} ELSE {})
      BY <2>1, ListTypes, GainsNoted, Zenon
    <3>. QED
      BY <1>2, <2>1, <2>2, <3>1, <3>2, <3>3, Zenon
<1>8. Gains(pendingRejections, pendingRejections', CreatedBy(o) \ AcceptedBy(o))
  BY <1>1, QueueGrows
<1>9. Fillable(orders[o]) # 0
  BY <1>1 DEF Trades
<1>. QED
  BY <1>1, <1>2, <1>3, <1>5, <1>6, <1>7, <1>8, <1>9 DEF Accounts, Closings

LEMMA ReportNext ==
  TypeOK /\ TypeOK' /\ BrokerInv /\ ReportInv /\ [Next]_vars => ReportInv' /\ StepReports
<1> SUFFICES ASSUME TypeOK, TypeOK', BrokerInv, ReportInv, [Next]_vars
             PROVE  ReportInv' /\ StepReports
  OBVIOUS
<1>1. ASSUME NEW e \in Entries, NEW ticket \in Tickets, NEW at \in {now, now + 1},
             Submit(e, ticket, at)
      PROVE  ReportInv' /\ StepReports
  <2>1. /\ EntryId(e) \in Ids /\ orders[EntryId(e)].status = "absent" /\ ~IsKnown(EntryId(e))
        /\ orders[EntryId(e)].filled = 0
        /\ UNCHANGED <<result, todo>> /\ phase = "idle"
    BY <1>1, LegPair DEF Submit, IsKnown, BrokerInv, OrderInv, loopVars
  <2>2. /\ orders'[EntryId(e)].status = (IF IsRefused(ticket, at) THEN "REJECTED" ELSE "ACCEPTED")
        /\ orders'[EntryId(e)].filled = 0
        /\ \A x \in Ids \ {EntryId(e)} : orders'[x] = orders[x]
        /\ pendingRejections' = IF IsRefused(ticket, at)
                                THEN Append(pendingRejections, EntryId(e))
                                ELSE pendingRejections
    BY <1>1, <2>1 DEF Submit, Raised, TypeOK
  <2>3. /\ Gains(result.fills, result.fills, {})
        /\ Gains(result.expirations, result.expirations, {})
        /\ Gains(result.cancellations, result.cancellations, {})
        /\ Gains(pendingRejections, pendingRejections',
                 IF IsRefused(ticket, at) THEN {EntryId(e)} ELSE {})
    BY <2>1, <2>2, GainsNothing, GainsOne DEF TypeOK
  <2>4. {FillRecord(x) : x \in {}} = {}
    OBVIOUS
  <2>5. Accounts({}, {}, {}, IF IsRefused(ticket, at) THEN {EntryId(e)} ELSE {})
    BY <2>1, <2>2, <2>3, <2>4 DEF Accounts, Closings, Withdrawn
  <2>. QED
    BY <2>5, AccountsReported
<1>2. ASSUME NEW S \in SUBSET Working, CancelOrders(S)
      PROVE  ReportInv' /\ StepReports
  <2>1. /\ \A x \in Ids : orders'[x] = IF x \in S THEN Cancelled(orders[x]) ELSE orders[x]
        /\ UNCHANGED <<result, todo, pendingRejections, phase>> /\ phase = "idle"
        /\ S \subseteq Ids /\ \A x \in S : IsOpen(orders[x])
    BY <1>2 DEF CancelOrders, loopVars, Working
  <2>2. ASSUME NEW x \in S
        PROVE  orders'[x].status = "CANCELLED"
    <3>1. orders[x] \in OrderRecord(Instruments) /\ orders'[x] = Cancelled(orders[x])
      BY <2>1 DEF TypeOK
    <3>. QED
      BY <3>1, ClosedLife
  <2>3. Closings({}, S, {})
    BY <2>1, <2>2 DEF Closings
  <2>4. /\ ToSet(result.expirations) = {} /\ ToSet(result.cancellations) = {}
        /\ ToSet(result.fills) = {}
    BY <2>1, NothingListed DEF BrokerInv, LoopInv, NoResult
  <2>5. ReportInv'
    BY <2>1, <2>3, <2>4, ClosedStay DEF ReportInv, NamedOnce
  <2>6. Closing("REJECTED") = {}
    BY <2>3 DEF Closings, Closing, Withdrawn
  <2>7. Gains(pendingRejections, pendingRejections', {})
    BY <2>1, GainsNothing DEF TypeOK
  <2>. QED
    BY <2>1, <2>5, <2>6, <2>7 DEF StepReports, BarIsReported, RefusalsAreQueued
<1>3. CASE BeginBar
  <2>1. /\ UNCHANGED <<orders, todo>> /\ phase = "idle" /\ pendingRejections' = <<>>
        /\ result' = [NoResult EXCEPT !.rejections = pendingRejections]
    BY <1>3 DEF BeginBar
  <2>2. /\ result'.rejections = pendingRejections /\ result'.fills = <<>>
        /\ result'.expirations = <<>> /\ result'.cancellations = <<>>
    BY <2>1 DEF NoResult
  <2>3. Closing("REJECTED") = {}
    BY <2>1 DEF Closing
  <2>4. ReportInv'
    BY <2>1, <2>2, NothingListed DEF ReportInv, NamedOnce, Distinct
  <2>. QED
    BY <2>1, <2>3, <2>4 DEF StepReports, BarIsReported, RefusalsAreQueued
<1>4. CASE EndBar
  <2>1. /\ UNCHANGED <<orders, todo, pendingRejections>> /\ phase' = "idle" /\ result' = NoResult
    BY <1>4 DEF EndBar, bookVars
  <2>2. /\ result'.rejections = <<>> /\ result'.fills = <<>>
        /\ result'.expirations = <<>> /\ result'.cancellations = <<>>
    BY <2>1 DEF NoResult
  <2>3. Closing("REJECTED") = {}
    BY <2>1 DEF Closing
  <2>4. ReportInv'
    BY <2>1, <2>2, NothingListed DEF ReportInv, NamedOnce, Distinct
  <2>5. Gains(pendingRejections, pendingRejections', {})
    BY <2>1, GainsNothing DEF TypeOK
  <2>. QED
    BY <2>1, <2>2, <2>3, <2>4, <2>5 DEF StepReports, BarIsReported, RefusalsAreQueued
<1>5. ASSUME NEW i \in left, NEW bar \in Caps \cup {NoBar}, OpenBook(i, bar)
      PROVE  ReportInv' /\ StepReports
  <2>1. /\ UNCHANGED <<orders, result, pendingRejections, phase>> /\ phase = "bar"
        /\ todo' = {o \in book : orders[o].instrument = i}
    BY <1>5 DEF OpenBook, bookVars
  <2>2. \A f \in ToSet(result.fills) : orders[f.id].instrument # i
    BY DEF BrokerInv, LoopInv
  <2>3. ReportInv'
    BY <2>1, <2>2 DEF ReportInv, NamedOnce
  <2>4. Closing("REJECTED") = {} /\ Closing("EXPIRED") = {} /\ Closing("CANCELLED") = {} /\ Trading = {}
    BY <2>1 DEF Closing, Trading
  <2>5. /\ Gains(result.fills, result.fills, {}) /\ Gains(result.expirations, result.expirations, {})
        /\ Gains(result.cancellations, result.cancellations, {})
        /\ Gains(pendingRejections, pendingRejections, {})
    BY GainsNothing DEF TypeOK
  <2>. QED
    BY <2>1, <2>3, <2>4, <2>5 DEF StepReports, BarIsReported, RefusalsAreQueued
<1>6. ASSUME NEW o \in todo, Pass(o)
      PROVE  ReportInv' /\ StepReports
  BY <1>6, AccountsIdle, AccountsReported DEF Pass, Take, bookVars
<1>7. ASSUME NEW o \in todo, Lapse(o)
      PROVE  ReportInv' /\ StepReports
  <2>1. o \in Ids /\ orders[o] \in OrderRecord(Instruments) /\ IsOpen(orders[o])
    BY <1>7 DEF TypeOK, Lapse, ShouldExpire
  <2>2. /\ orders'[o] = Expired(orders[o]) /\ \A x \in Ids \ {o} : orders'[x] = orders[x]
        /\ result' = [result EXCEPT !.expirations = Append(@, o)]
        /\ UNCHANGED pendingRejections /\ todo' \subseteq todo
    BY <1>7, <2>1 DEF Lapse, Take, Report, TypeOK
  <2>3. orders'[o].status = "EXPIRED" /\ orders'[o].filled = orders[o].filled
    BY <2>1, <2>2, ClosedLife
  <2>4. Accounts({}, {o}, {}, {})
    BY <2>1, <2>2, <2>3, AccountsExpiry
  <2>. QED
    BY <2>4, AccountsReported
<1>8. ASSUME NEW o \in todo, Miss(o)
      PROVE  ReportInv' /\ StepReports
  <2>1. /\ o \in Ids /\ orders[o] \in OrderRecord(Instruments) /\ IsOpen(orders[o]) /\ now \in Nat
        /\ Activated(orders[o], now) \in OrderRecord(Instruments)
    BY <1>8, RecordOps DEF TypeOK, Miss, IsWorkable, IsEligible
  <2>2. /\ \A x \in Ids \ {o} : orders'[x] = orders[x]
        /\ UNCHANGED pendingRejections /\ todo' \subseteq todo
        /\ IsOneShot(orders[o]) => /\ orders'[o] = Expired(Activated(orders[o], now))
                                   /\ result' = [result EXCEPT !.expirations = Append(@, o)]
        /\ ~IsOneShot(orders[o]) => orders'[o] = Activated(orders[o], now) /\ result' = result
    BY <1>8, <2>1 DEF Miss, Take, Report, TypeOK
  <2>3. CASE IsOneShot(orders[o])
    <3>1. orders'[o].status = "EXPIRED" /\ orders'[o].filled = orders[o].filled
      BY <2>1, <2>2, <2>3, ClosedTerms
    <3>2. Accounts({}, {o}, {}, {})
      BY <2>1, <2>2, <2>3, <3>1, AccountsExpiry
    <3>. QED
      BY <3>2, AccountsReported
  <2>4. CASE ~IsOneShot(orders[o])
    <3>1. orders'[o].status = orders[o].status /\ orders'[o].filled = orders[o].filled
      BY <2>1, <2>2, <2>4, ClosedTerms
    <3>2. /\ Gains(result.fills, result.fills, {})
          /\ Gains(result.expirations, result.expirations, {})
          /\ Gains(result.cancellations, result.cancellations, {})
          /\ Gains(pendingRejections, pendingRejections, {})
          /\ {FillRecord(x) : x \in {}} = {}
      BY GainsNothing DEF TypeOK
    <3>3. Accounts({}, {}, {}, {})
      BY <2>1, <2>2, <2>4, <3>1, <3>2 DEF Accounts, Closings
    <3>. QED
      BY <3>3, AccountsReported
  <2>. QED
    BY <2>3, <2>4
<1>9. ASSUME NEW o \in todo, Fill(o)
      PROVE  ReportInv' /\ StepReports
  BY <1>9, AccountsFill, AccountsReported
<1>10. ASSUME NEW o \in todo, DuplicateChild(o)
       PROVE  ReportInv' /\ StepReports
  <2>1. /\ Trades(o) /\ o \in Ids /\ orders'[o] = Traded(o)
        /\ \A x \in Ids \ {o} : orders'[x] = orders[x]
        /\ result' = [result EXCEPT !.fills = Append(@, FillRecord(o))]
        /\ UNCHANGED pendingRejections /\ todo' = todo \ {o}
    BY <1>10 DEF DuplicateChild, Trades, Take, Report, TypeOK
  <2>2. /\ result'.fills = Append(result.fills, FillRecord(o))
        /\ result'.expirations = result.expirations
        /\ result'.cancellations = result.cancellations /\ result'.rejections = result.rejections
    BY <2>1 DEF TypeOK
  <2>3. /\ IsOpen(orders[o]) /\ Traded(o).status \in {"FILLED", "PARTIALLY_FILLED"}
        /\ Traded(o).filled = orders[o].filled + Fillable(orders[o])
    BY <2>1, TradedFacts, TradedLife
  <2>4. /\ Gains(result.fills, result'.fills, {FillRecord(x) : x \in {o}})
        /\ Gains(result.expirations, result'.expirations, {})
        /\ Gains(result.cancellations, result'.cancellations, {})
        /\ Gains(pendingRejections, pendingRejections', {})
    <3>1. /\ {FillRecord(x) : x \in {o}} = {FillRecord(o)}
          /\ FillRecord(o) \in [id : Ids, quantity : Nat]
      BY <2>1, FillRecordType
    <3>. QED
      <4>1. Gains(result.fills, Append(result.fills, FillRecord(o)), {FillRecord(o)})
        BY <3>1, ListTypes, GainsOne, Zenon
      <4>2. /\ Gains(result.expirations, result.expirations, {})
            /\ Gains(result.cancellations, result.cancellations, {})
            /\ Gains(pendingRejections, pendingRejections, {})
        BY ListTypes, GainsNothing, Zenon
      <4>. QED
        BY <2>1, <2>2, <3>1, <4>1, <4>2, Zenon
  <2>5. Fillable(orders[o]) # 0
    BY <2>1 DEF Trades
  <2>6. Accounts({o}, {}, {}, {})
    BY <2>1, <2>2, <2>3, <2>4, <2>5 DEF Accounts, Closings, Withdrawn, IsOpen, OpenStatuses
  <2>. QED
    BY <2>6, AccountsReported
<1>11. CASE CloseBook \/ UNCHANGED vars
  <2>1. UNCHANGED <<orders, result, pendingRejections, todo>>
    BY <1>11 DEF CloseBook, vars, bookVars, loopVars
  <2>. QED
    BY <2>1, AccountsIdle, AccountsReported
<1>12. ASSUME NEW o \in Ids, Cancel(o)
       PROVE  ReportInv' /\ StepReports
  BY <1>2, <1>12 DEF Cancel
<1>13. ASSUME NEW I, CancelAll(I)
       PROVE  ReportInv' /\ StepReports
  <2>1. {o \in Working : orders[o].instrument \in I} \in SUBSET Working
    OBVIOUS
  <2>. QED
    BY <1>2, <1>13, <2>1 DEF CancelAll
<1>. QED
  BY <1>1, <1>3, <1>4, <1>5, <1>6, <1>7, <1>8, <1>9, <1>10, <1>11, <1>12, <1>13
     DEF Next, ProcessBar, Visit, Work

LEMMA ReportInit == Init => ReportInv
BY NothingListed DEF Init, ReportInv, NoResult, NamedOnce, Distinct

(* Every fill, expiry and cancellation of a bar is appended to that bar's  *)
(* result once, by the step that does it and with the quantity the order   *)
(* gained, and nothing else ever is; every refusal is queued once by the   *)
(* step that refuses it, and the queue is handed whole to one result.      *)
THEOREM ReportedOnce == Spec => OutcomesReportedOnce
<1>1. TypeOK /\ TypeOK' /\ BrokerInv /\ ReportInv /\ [Next]_vars => ReportInv'
  BY ReportNext
<1>2. TypeOK /\ TypeOK' /\ BrokerInv /\ ReportInv /\ [Next]_vars => [BarIsReported]_vars
  BY ReportNext DEF StepReports
<1>3. TypeOK /\ TypeOK' /\ BrokerInv /\ ReportInv /\ [Next]_vars => [RefusalsAreQueued]_vars
  BY ReportNext DEF StepReports
<1>4. Spec => []ReportInv
  BY <1>1, ReportInit, TypeCorrect, BrokerCorrect, PTL DEF Spec
<1>5. Spec => EveryOutcomeReported
  BY <1>2, <1>4, TypeCorrect, BrokerCorrect, PTL DEF Spec, EveryOutcomeReported, BarIsReported
<1>6. Spec => RejectionsSurfaceOnce
  BY <1>3, <1>4, TypeCorrect, BrokerCorrect, PTL
     DEF Spec, RejectionsSurfaceOnce, RefusalsAreQueued
<1>7. ReportInv => NamedOnce
  BY DEF ReportInv
<1>. QED
  BY <1>4, <1>5, <1>6, <1>7, PTL DEF OutcomesReportedOnce

=============================================================================
