-------------------------- MODULE BrokerProperties --------------------------
(***************************************************************************)
(* What SimulatedBroker promises about the orders it works.                *)
(***************************************************************************)
EXTENDS Broker

TypeOK ==
  /\ now \in Nat
  /\ policy \in Policy
  /\ orders \in [Ids -> OrderRecord(Instruments)]
  /\ arrivals \in Nat
  /\ book \subseteq Ids /\ brackets \subseteq Ids /\ oco \subseteq Ids
  /\ pendingRejections \in Seq(Ids)
  /\ result \in [fills : Seq([id : Ids, quantity : Nat]), rejections : Seq(Ids),
                 expirations : Seq(Ids), cancellations : Seq(Ids)]
  /\ phase \in {"idle", "bar", "crashed"}
  /\ left \subseteq Instruments
  /\ cur \in Instruments \cup {NoInstrument}
  /\ cap \in Nat \cup {NoBar}
  /\ todo \subseteq Ids

Entry(e)     == orders[EntryId(e)]
StopLeg(e)   == <<e, "SL">>
TargetLeg(e) == <<e, "TP">>
LegIds(e)    == {StopLeg(e), TargetLeg(e)}
IsLeg(o)     == o[2] # "E"

TradedThisBar(o) == \E f \in ToSet(result.fills) : f.id = o

-----------------------------------------------------------------------------
(* The per-instrument index and the order table agree: between bars the    *)
(* index holds exactly the open orders, and during a bar it still holds    *)
(* every open order, plus the filled ones of the book being walked that    *)
(* _prune has yet to remove.                                               *)
BookIsIndex ==
  /\ Working \subseteq book
  /\ phase = "idle" => book = Working
  /\ \A o \in book \ Working : orders[o].status = "FILLED" /\ orders[o].instrument = cur

(* No bracket spec outlives its entry order, on any of the paths by which  *)
(* an order closes (fill, cancel, expiry, dropped remainder).              *)
SpecsAreLive ==
  \A o \in brackets : o \in book /\ ~IsLeg(o) /\ orders[o].legs # {}

(* The OCO table is symmetric and holds just the pairs of legs that are    *)
(* both open (or that intake refused together): a leg that closes takes    *)
(* its sibling's link with it.                                             *)
LinksPairOpenLegs ==
  \A e \in Entries :
    /\ StopLeg(e) \in oco <=> TargetLeg(e) \in oco
    /\ LegIds(e) \subseteq Working => LegIds(e) \subseteq oco
    /\ LegIds(e) \subseteq oco =>
         \/ LegIds(e) \subseteq Working
         \/ \A c \in LegIds(e) : orders[c].status = "REJECTED"
    /\ EntryId(e) \notin oco

(* One-cancels-other: the two legs of a bracket never both complete, and a *)
(* bar that completes the stop leaves the target untraded, because stops   *)
(* are worked first.                                                       *)
StopBeatsTarget ==
  \A e \in Entries :
    /\ ~ \A c \in LegIds(e) : orders[c].status = "FILLED"
    /\ orders[StopLeg(e)].status = "FILLED" /\ TradedThisBar(StopLeg(e))
         => ~TradedThisBar(TargetLeg(e))

(* An entry that holds anything has had its protective legs raised, and a  *)
(* leg nothing has printed against is sized to all of what the entry holds. *)
EntriesAreProtected ==
  \A e \in Entries :
    Entry(e).filled > 0 =>
      \A c \in {x \in LegIds(e) : x[2] \in Entry(e).legs} :
        /\ IsKnown(c)
        /\ IsOpen(orders[c]) /\ orders[c].filled = 0
             => orders[c].quantity = Entry(e).filled

(* The lookahead firewall: under the next-bar models no order trades at or *)
(* before the instant that raised it, and a protective leg never does,     *)
(* whatever the model.                                                     *)
NoLookahead ==
  \A f \in ToSet(result.fills) :
    IsLeg(f.id) \/ policy.timing # "SAME_BAR_CLOSE" => orders[f.id].submitted < now

(* Time in force: FOK trades whole or not at all; an IOC or FOK order that *)
(* a bar has seen is closed before the bar ends; a DAY order trades only   *)
(* in the session that activated it; nothing trades at or past its expiry. *)
FillOrKillIsWhole ==
  \A o \in Ids : orders[o].tif = "FOK" => orders[o].filled \in {0, orders[o].quantity}
OneShotsAreRetired ==
  phase = "idle" => \A o \in Working : IsOneShot(orders[o]) => orders[o].activated = 0
FillsRespectExpiry ==
  \A f \in ToSet(result.fills) :
    LET order == orders[f.id] IN
    /\ order.tif = "DAY" => Date(order.activated) = Date(now)
    /\ order.expires # 0 => now < order.expires
TimeInForceHonoured == FillOrKillIsWhole /\ OneShotsAreRetired /\ FillsRespectExpiry

(* after is before, extended by the members of S, each of them once. *)
Gains(before, after, S) ==
  LET added == (Len(before) + 1)..Len(after) IN
  /\ Len(before) <= Len(after)
  /\ \A i \in DOMAIN before : after[i] = before[i]
  /\ {after[i] : i \in added} = S
  /\ \A i, j \in added : after[i] = after[j] => i = j

Closing(status) == {o \in Ids : orders[o].status # status /\ orders'[o].status = status}
Trading ==
  {[id |-> o, quantity |-> orders'[o].filled - orders[o].filled] :
     o \in {x \in Ids : orders'[x].filled # orders[x].filled}}

(* A bar's BrokerResult is an exact account of what the bar did: a step    *)
(* that trades, expires or cancels orders appends each of them once to the *)
(* matching list, with the quantity its record gained, appends nothing     *)
(* else, and nothing appended is lost before process_bar returns.          *)
EveryOutcomeReported ==
  [][phase = "bar" /\ phase' # "idle" =>
       /\ Gains(result.fills, result'.fills, Trading)
       /\ Gains(result.expirations, result'.expirations, Closing("EXPIRED"))
       /\ Gains(result.cancellations, result'.cancellations, Closing("CANCELLED"))
       /\ result'.rejections = result.rejections]_vars

(* An order is queued as refused once, by the step that refuses it, and no *)
(* other is; the queue is handed whole to one BrokerResult, so the         *)
(* strategy hears of each refusal once, though a leg refused during a bar  *)
(* is heard of only after the next.                                        *)
RejectionsSurfaceOnce ==
  [][\/ /\ Gains(pendingRejections, pendingRejections', Closing("REJECTED"))
        /\ result'.rejections \in {result.rejections, <<>>}
     \/ /\ pendingRejections' = <<>> /\ Closing("REJECTED") = {}
        /\ result' = [NoResult EXCEPT !.rejections = pendingRejections]]_vars

(* A result names an order at most once in each of its lists, over all the *)
(* steps of a bar, and the queue of refusals names none twice.             *)
Distinct(list) == \A i, j \in DOMAIN list : list[i] = list[j] => i = j
NamedOnce ==
  /\ \A i, j \in DOMAIN result.fills : result.fills[i].id = result.fills[j].id => i = j
  /\ Distinct(result.expirations) /\ Distinct(result.cancellations)
  /\ Distinct(result.rejections) /\ Distinct(pendingRejections)

(* The account a BrokerResult gives is complete, exact, and given once:    *)
(* outcomes of a bar in its own result, refusals in the next (process_bar, *)
(* _reject).                                                               *)
OutcomesReportedOnce == []NamedOnce /\ EveryOutcomeReported /\ RejectionsSurfaceOnce

(* The orders of the broker keep the contract of a single order. *)
Account == [o \in Ids |-> [status |-> orders[o].status, quantity |-> orders[o].quantity,
                           filled |-> orders[o].filled]]
Contract == INSTANCE OrderContract WITH account <- Account
KeepsOrderContract == Contract!Spec

(* process_bar returns (or raises): activating brackets never lengthens    *)
(* the walk it is called from.                                             *)
BarCompletes == phase = "bar" ~> phase # "bar"

-----------------------------------------------------------------------------
(* The inductive invariant behind the theorems of BrokerProofs: the        *)
(* promises above, and the facts they rest on.                             *)

(* Between bars the loop variables are at rest; during one, the walk has   *)
(* left the visited instruments, its snapshot names known orders of the    *)
(* instrument being visited, and only visited instruments have traded.     *)
LoopInv ==
  /\ phase = "idle" => left = {} /\ cur = NoInstrument /\ todo = {} /\ result = NoResult
  /\ cur \notin left
  /\ \A o \in todo : IsKnown(o) /\ orders[o].instrument = cur
  /\ \A f \in ToSet(result.fills) : IsKnown(f.id) /\ orders[f.id].instrument \notin left

(* The status of an order says how much of it has filled. *)
OrderInv ==
  \A o \in Ids :
    LET order == orders[o] IN
    /\ order.status \in {"absent", "REJECTED", "ACCEPTED"} => order.filled = 0
    /\ order.status = "PARTIALLY_FILLED" => order.filled > 0
    /\ IsOpen(order) => order.filled < order.quantity
    /\ order.status = "FILLED" => order.filled = order.quantity /\ order.filled > 0

(* A protective leg exists only for an entry that has filled and asked for *)
(* it, is what _child_order made it, and is not worked on the bar that     *)
(* raised it.  Once one leg has completed, neither is open.                *)
LegInv ==
  \A e \in Entries : \A c \in LegIds(e) :
    IsKnown(c) =>
      /\ Entry(e).filled > 0
      /\ c[2] \in Entry(e).legs
      /\ orders[c].instrument = Entry(e).instrument
      /\ orders[c].legs = {}
      /\ orders[c].type = (IF c[2] = "SL" THEN "STOP" ELSE "LIMIT")
      /\ orders[c].submitted <= now
      /\ c \in todo \/ (c \in book /\ orders[c].instrument \in left)
           => orders[c].submitted < now
      /\ orders[c].status = "FILLED" => ~IsOpen(orders[Sibling(c)])

(* An entry still open has its bracket spec; in a bar, a target leg that   *)
(* has traded was worked after its stop leg.                               *)
BracketInv ==
  /\ \A e \in Entries : IsOpen(Entry(e)) /\ Entry(e).legs # {} => EntryId(e) \in brackets
  /\ \A e \in Entries : TradedThisBar(TargetLeg(e)) => StopLeg(e) \notin todo

BrokerInv ==
  /\ LoopInv /\ OrderInv /\ LegInv /\ BracketInv
  /\ BookIsIndex /\ SpecsAreLive /\ LinksPairOpenLegs
  /\ StopBeatsTarget /\ EntriesAreProtected /\ NoLookahead

(* What makes the time in force inductive: an order is activated by a bar  *)
(* it was worked on, never later than now, and a one-shot order that a bar *)
(* has seen is closed at once, unless the bar raised.                      *)
TimeInForceInv ==
  /\ FillOrKillIsWhole
  /\ phase # "crashed" => \A o \in Working : IsOneShot(orders[o]) => orders[o].activated = 0
  /\ \A o \in Ids : orders[o].activated <= now
  /\ FillsRespectExpiry
  /\ \A f \in ToSet(result.fills) : orders[f.id].activated # 0
  /\ phase = "bar" => now > 0

(* What makes an outcome reported once: an order that traded is worked no  *)
(* more in this bar, and the other lists name orders closed that way.      *)
ReportInv ==
  /\ NamedOnce
  /\ \A f \in ToSet(result.fills) : f.id \notin todo
  /\ \A o \in ToSet(result.expirations) : orders[o].status = "EXPIRED"
  /\ \A o \in ToSet(result.cancellations) : orders[o].status = "CANCELLED"
  /\ \A o \in ToSet(pendingRejections) : orders[o].status = "REJECTED"

-----------------------------------------------------------------------------
(* A statement of the repository the code does not keep.                   *)

(* _activate_brackets: legs are "resized as more of it fills", so another  *)
(* partial fill of an entry never stops the bar.                           *)
NeverRaises == phase # "crashed"
=============================================================================
