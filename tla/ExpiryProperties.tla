--------------------------- MODULE ExpiryProperties ---------------------------
(* What the settlement of option positions owes the ledger. *)
EXTENDS Expiry

OptionalPrices == Nat \cup {Nothing}
OpenContracts  == {c \in Contracts : IsOpen(c)}

(* The variables hold what the code's fields hold; a contract is visited   *)
(* only while the position is there to be settled.                         *)
TypeOK ==
  /\ policy \in Policies
  /\ snapshot.day \in 0..LastDay /\ snapshot.close \in BOOLEAN
  /\ phase \in {"early", "resolve", "done"}
  /\ held \in [Contracts -> Int]
  /\ source \in [Underlyings -> OptionalPrices]
  /\ todo \subseteq OpenContracts
  /\ closing \subseteq Contracts
  /\ failed \in BOOLEAN

(* ExpiryOutcome.cash_impact "restates the same movement as a single       *)
(* number" as the fills: together they move the cash it says, and the      *)
(* contract and the shares by what it says, the fee in it once.            *)
CashOf(fill)        == -fill.size * fill.price * fill.multiplier - fill.fees
Moved(fills, thing) ==
  SumFunction([i \in DOMAIN fills |-> IF fills[i].instrument = thing THEN fills[i].size ELSE 0])
MovesWhatItSays(o) ==
  /\ SumFunction([i \in DOMAIN o.fills |-> CashOf(o.fills[i])]) = o.cash
  /\ Moved(o.fills, "contract") = -o.quantity
  /\ Moved(o.fills, "underlying") = o.delta

(* Settlement is worth the intrinsic value of what was held, whether it is *)
(* paid in cash or in shares at the strike, and nothing when the contract  *)
(* is left to expire: neither counted twice nor lost.                      *)
WorthIntrinsic(o) ==
  LET value == o.cash + o.fees + o.delta * o.price
  IN value = IF o.reason = "WORTHLESS" THEN 0
             ELSE o.quantity * o.contract.multiplier * IntrinsicValue(o.contract, o.price)

(* An outcome moves what it says it moves, and that is what it was worth   *)
(* (StandardExpiryEngine._outcome).                                        *)
SettlesInFull ==
  \A i \in DOMAIN outcomes : MovesWhatItSays(outcomes[i].of) /\ WorthIntrinsic(outcomes[i].of)

(* Settlement is struck at the last price of the underlying since the      *)
(* position was opened (_settlement_source), whether the expiry bar        *)
(* carries it or not.                                                      *)
AtLastPrice(o) ==
  LET printed == o.on.price[o.of.contract.underlying]
  IN /\ printed # Nothing => o.of.price = printed
     /\ printed = Nothing /\ o.last # Nothing => o.of.price = o.last
SettlesAtLastPrice == \A i \in DOMAIN outcomes : AtLastPrice(outcomes[i])

(* When the bar that closes the session on or after the expiry date has    *)
(* been dealt with, nothing of the contract is left in the book.           *)
NothingOutlivesExpiry ==
  phase = "done" /\ snapshot.close => \A c \in OpenContracts : c.expiry > snapshot.day

(* ExpiryPolicy.close_before_expiry_bars closes positions "instead of      *)
(* letting them expire": what settles at expiry was seen on no bar before  *)
(* its last one with so few days left.                                     *)
TooLate(c, day) ==
  policy.closeBefore # Nothing /\ c.expiry - day >= 0 /\ c.expiry - day <= policy.closeBefore
Flattened(o) ==
  o.on.close /\ o.on.day >= o.of.contract.expiry
    => \A k \in DOMAIN o.days : k < Len(o.days) => ~TooLate(o.of.contract, o.days[k])
FlattenedBeforeExpiry == \A i \in DOMAIN outcomes : Flattened(outcomes[i])

(* A position is closed in time, by policy before its expiry or else on it. *)
ClosedInTime == TypeOK /\ NothingOutlivesExpiry /\ FlattenedBeforeExpiry
-----------------------------------------------------------------------------
(* The inductive invariant behind the theorems of ExpiryProofs.            *)

HistoryTypeOK ==
  /\ snapshot \in [day : Nat, close : BOOLEAN, price : [Underlyings -> Prices \cup {Nothing}]]
  /\ outcomes \in Seq(Range(outcomes))
  /\ trail \in [bars : Nat, opened : Nat, last : [Contracts -> OptionalPrices],
                days : [Contracts -> Seq(Nat)]]

(* The settlement price of an open contract's underlying is the last print *)
(* the position was there for, or while its bar is being looked at the     *)
(* print of that bar.                                                      *)
SourceIsLast ==
  \A c \in OpenContracts : trail.last[c] # Nothing =>
    \/ source[c.underlying] = trail.last[c]
    \/ phase = "early" /\ Price(c) # Nothing /\ source[c.underlying] = Price(c)

(* Before anything is settled every print of the bar has been taken in. *)
SourceIsRefreshed ==
  phase = "resolve" => \A c \in OpenContracts : Price(c) # Nothing => source[c.underlying] = Price(c)

(* What has to be settled on this bar is still to be visited. *)
DueIsVisited ==
  phase = "resolve" /\ snapshot.close /\ ~failed =>
    \A c \in OpenContracts : snapshot.day >= c.expiry => c \in todo

(* A position seen with too few days left was seen so on this bar only,    *)
(* and is flattened at the next.                                           *)
SeenLateOnce ==
  \A c \in OpenContracts : \A k \in DOMAIN trail.days[c] : TooLate(c, trail.days[c][k]) =>
    \/ phase = "resolve" /\ k = Len(trail.days[c]) /\ trail.days[c][k] = snapshot.day
    \/ phase = "done" /\ c \in closing

ExpiryInv ==
  /\ HistoryTypeOK /\ SettlesInFull /\ SettlesAtLastPrice /\ ClosedInTime
  /\ SourceIsLast /\ SourceIsRefreshed /\ DueIsVisited /\ SeenLateOnce
===============================================================================
