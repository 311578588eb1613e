---------------------------- MODULE DomainProofs ----------------------------
(***************************************************************************)
(* Machine-checked proofs about the two stateful records of the domain.    *)
(*                                                                         *)
(* Position, for any sizes, prices and costs, of a position that is built  *)
(* from fills: that its books balance, that unit by unit it is the ledger  *)
(* of LotLedger, and that its excursions are those of the open round trip. *)
(* What the lots come to is reasoned about through the list of their       *)
(* units, UnitPrices, of which a fill removes a prefix and to which it     *)
(* appends one price.                                                      *)
(*                                                                         *)
(* BarSeries, for any series, buffers and bars: that the windows of a      *)
(* shared buffer keep out of each other's way and are cut where they were  *)
(* asked for, and that every series is a sequence of its own.              *)
(***************************************************************************)
EXTENDS PositionProperties, BarSeries, FiniteSetTheorems, SequenceTheorems,
        WellFoundedInduction, TLAPS

-----------------------------------------------------------------------------
(* The least of a set of naturals, and induction about a set. *)
LEMMA Least ==
  ASSUME NEW S \in SUBSET Nat, S # {}
  PROVE  \E x \in S : \A y \in S : x <= y
<1> DEFINE Less == OpToRel(<, Nat)
<1>1. PICK x \in S : \A y \in S : <<y, x>> \notin Less
  <2>1. IsWellFoundedOn(Less, Nat)
    BY NatLessThanWellFounded
  <2> HIDE DEF Less
  <2> QED BY <2>1, WFMin, Zenon
<1>2. ASSUME NEW y \in S, ~(x <= y)
      PROVE  FALSE
  <2>1. <<y, x>> \in Less
    BY <1>2 DEF OpToRel
  <2> QED BY <1>1, <2>1
<1> QED
  BY <1>1, <1>2

LEMMA InductionUpTo ==
  ASSUME NEW n \in Nat, NEW S, 0 \in S, \A i \in 0..n - 1 : i \in S => i + 1 \in S
  PROVE  0..n \subseteq S
<1> DEFINE out == 0..n \ S
<1> SUFFICES ASSUME out # {}
             PROVE  FALSE
  OBVIOUS
<1>1. PICK x \in out : \A y \in out : x <= y
  <2>1. out \in SUBSET Nat
    OBVIOUS
  <2> HIDE DEF out
  <2> QED BY <2>1, Least
<1>2. x - 1 \in 0..n - 1 /\ x - 1 \in S
  BY <1>1
<1> QED
  BY <1>1, <1>2

-----------------------------------------------------------------------------
(* A function on 1..n is a sequence. *)
LEMMA FunctionIsSequence ==
  ASSUME NEW S, NEW n \in Nat, NEW f, f = [i \in 1..n |-> f[i]], \A i \in 1..n : f[i] \in S
  PROVE  f \in Seq(S) /\ Len(f) = n
<1>1. f \in [1..n -> S]
  OBVIOUS
<1>2. f \in Seq(S)
  BY <1>1, SeqDef, Zenon
<1>3. DOMAIN f = 1..n
  BY <1>1
<1>4. DOMAIN f = 1..Len(f) /\ Len(f) \in Nat
  BY <1>2
<1> QED
  BY <1>2, <1>3, <1>4

-----------------------------------------------------------------------------
(* Running sums. *)
RunsOver(f, n, a) == f = [i \in 0..n |-> IF i = 0 THEN 0 ELSE f[i - 1] + a[i]]

LEMMA RunningSumExists ==
  ASSUME NEW n \in Nat, NEW a
  PROVE  \E f : RunsOver(f, n, a)
<1> DEFINE S == {m \in 0..n : \E f : RunsOver(f, m, a)}
<1>1. 0 \in S
  <2>1. RunsOver([i \in 0..0 |-> 0], 0, a)
    BY DEF RunsOver
  <2> QED BY <2>1
<1>2. ASSUME NEW m \in 0..n - 1, m \in S
      PROVE  m + 1 \in S
  <2>1. PICK f : RunsOver(f, m, a)
    BY <1>2
  <2> DEFINE g == [i \in 0..m + 1 |-> IF i = m + 1 THEN f[m] + a[m + 1] ELSE f[i]]
  <2>2. \A i \in 0..m : f[i] = IF i = 0 THEN 0 ELSE f[i - 1] + a[i]
    BY <2>1 DEF RunsOver
  <2>3. ASSUME NEW i \in 0..m + 1
        PROVE  g[i] = IF i = 0 THEN 0 ELSE g[i - 1] + a[i]
    <3>1. CASE i = m + 1
      BY <1>2, <3>1
    <3>2. CASE i # m + 1
      BY <1>2, <2>2, <3>2
    <3> QED BY <3>1, <3>2
  <2>4. RunsOver(g, m + 1, a)
    <3> DEFINE h == [i \in 0..m + 1 |-> IF i = 0 THEN 0 ELSE g[i - 1] + a[i]]
    <3>1. g = [i \in 0..m + 1 |-> g[i]]
      OBVIOUS
    <3> HIDE DEF g
    <3> QED BY <2>3, <3>1 DEF RunsOver
  <2> HIDE DEF g
  <2> QED BY <1>2, <2>4
<1>3. n \in S
  <2> HIDE DEF S
  <2>1. 0..n \subseteq S
    BY <1>1, <1>2, InductionUpTo
  <2> QED BY <2>1
<1> QED
  BY <1>3

LEMMA SumsDef ==
  ASSUME NEW a \in Seq(Int)
  PROVE  /\ Sums(a)[0] = 0
         /\ \A i \in 1..Len(a) : Sums(a)[i] = Sums(a)[i - 1] + a[i]
         /\ \A i \in 0..Len(a) : Sums(a)[i] \in Int
<1> DEFINE f == Sums(a)
           n == Len(a)
           S == {i \in 0..n : f[i] \in Int}
<1>1. n \in Nat /\ \A i \in 1..n : a[i] \in Int
  OBVIOUS
<1>2. RunsOver(f, n, a)
  <2>1. \E g : RunsOver(g, n, a)
    BY <1>1, RunningSumExists
  <2>2. f = CHOOSE g : RunsOver(g, n, a)
    BY DEF Sums, RunsOver
  <2> HIDE DEF f
  <2> QED BY <2>1, <2>2
<1> HIDE DEF f
<1>3. f[0] = 0 /\ \A i \in 1..n : f[i] = f[i - 1] + a[i]
  BY <1>1, <1>2 DEF RunsOver
<1>4. 0 \in S /\ \A i \in 0..n - 1 : i \in S => i + 1 \in S
  <2>1. ASSUME NEW i \in 0..n - 1, i \in S
        PROVE  i + 1 \in S
    <3>1. i + 1 \in 1..n /\ (i + 1) - 1 = i
      BY <1>1
    <3>2. f[i + 1] = f[i] + a[i + 1] /\ a[i + 1] \in Int /\ f[i] \in Int
      BY <1>1, <1>3, <2>1, <3>1
    <3> QED BY <1>1, <3>1, <3>2
  <2> QED BY <1>1, <1>3, <2>1
<1>5. 0..n \subseteq S
  <2> HIDE DEF S, n
  <2> QED BY <1>1, <1>4, InductionUpTo
<1> QED
  BY <1>3, <1>5 DEF f

(* What starts and grows as the sums do is the sums. *)
LEMMA SumsUnique ==
  ASSUME NEW a \in Seq(Int), NEW n \in 0..Len(a), NEW f, f[0] = 0,
         \A i \in 1..n : f[i] = f[i - 1] + a[i]
  PROVE  \A i \in 0..n : Sums(a)[i] = f[i]
<1> DEFINE s == Sums(a)
           S == {i \in 0..n : s[i] = f[i]}
<1>1. s[0] = 0 /\ \A i \in 1..Len(a) : s[i] = s[i - 1] + a[i]
  BY SumsDef
<1> HIDE DEF s
<1>2. 0 \in S /\ \A i \in 0..n - 1 : i \in S => i + 1 \in S
  <2>1. 0 \in S
    BY <1>1
  <2>2. ASSUME NEW i \in 0..n - 1, i \in S
        PROVE  i + 1 \in S
    <3>1. i + 1 \in 1..n /\ i + 1 \in 1..Len(a) /\ (i + 1) - 1 = i
      OBVIOUS
    <3>2. s[i + 1] = s[i] + a[i + 1] /\ f[i + 1] = f[i] + a[i + 1]
      BY <1>1, <3>1
    <3> QED BY <2>2, <3>1, <3>2
  <2> QED BY <2>1, <2>2
<1>3. 0..n \subseteq S
  <2> HIDE DEF S
  <2>1. n \in Nat
    OBVIOUS
  <2> QED BY <1>2, <2>1, InductionUpTo
<1> QED
  BY <1>3 DEF s

LEMMA SumsPrefix ==
  ASSUME NEW a \in Seq(Int), NEW b \in Seq(Int), NEW n \in 0..Len(a), n <= Len(b),
         \A i \in 1..n : a[i] = b[i]
  PROVE  \A i \in 0..n : Sums(a)[i] = Sums(b)[i]
<1> DEFINE f == Sums(b)
<1>1. f[0] = 0 /\ \A i \in 1..Len(b) : f[i] = f[i - 1] + b[i]
  BY SumsDef
<1> HIDE DEF f
<1>2. \A i \in 1..n : f[i] = f[i - 1] + a[i]
  BY <1>1
<1>3. \A i \in 0..n : Sums(a)[i] = f[i]
  BY <1>1, <1>2, SumsUnique
<1> QED
  BY <1>3 DEF f

LEMMA SumsShift ==
  ASSUME NEW a \in Seq(Int), NEW b \in Seq(Int), NEW k \in 0..Len(a),
         Len(b) = Len(a) - k, \A j \in 1..Len(b) : b[j] = a[k + j]
  PROVE  \A j \in 0..Len(b) : Sums(b)[j] = Sums(a)[k + j] - Sums(a)[k]
<1> DEFINE s == Sums(a)
           f == [j \in 0..Len(b) |-> s[k + j] - s[k]]
           n == Len(b)
<1>1. /\ \A i \in 1..Len(a) : s[i] = s[i - 1] + a[i]
      /\ \A i \in 0..Len(a) : s[i] \in Int
  BY SumsDef
<1> HIDE DEF s
<1>2. f[0] = 0
  BY <1>1
<1>3. ASSUME NEW j \in 1..n
      PROVE  f[j] = f[j - 1] + b[j]
  <2>1. k + j \in 1..Len(a) /\ k + j \in 0..Len(a) /\ (k + j) - 1 = k + (j - 1) /\ k \in 0..Len(a)
        /\ k + (j - 1) \in 0..Len(a) /\ j - 1 \in 0..n /\ j \in 0..n
    OBVIOUS
  <2>2. s[k + j] = s[k + (j - 1)] + b[j]
    BY <1>1, <2>1
  <2>3. f[j] = s[k + j] - s[k] /\ f[j - 1] = s[k + (j - 1)] - s[k]
    BY <2>1
  <2>4. b[j] \in Int /\ s[k + j] \in Int /\ s[k + (j - 1)] \in Int /\ s[k] \in Int
    BY <1>1, <2>1
  <2> DEFINE x == s[k + j]
             y == s[k + (j - 1)]
             z == s[k]
             w == b[j]
  <2> HIDE DEF f, x, y, z, w
  <2>5. x = y + w /\ x \in Int /\ y \in Int /\ z \in Int /\ w \in Int
    BY <2>2, <2>4 DEF x, y, z, w
  <2>6. x - z = (y - z) + w
    BY <2>5
  <2> QED BY <2>3, <2>6 DEF x, y, z, w
<1>4. n \in 0..Len(b)
  OBVIOUS
<1>5. \A j \in 0..n : f[j] = s[k + j] - s[k]
  OBVIOUS
<1>6. \A j \in 0..n : Sums(b)[j] = f[j]
  <2> HIDE DEF f, n
  <2> QED BY <1>2, <1>3, <1>4, SumsUnique
<1> HIDE DEF f
<1> QED
  BY <1>5, <1>6 DEF s

LEMMA SumsStretch ==
  ASSUME NEW a \in Seq(Int), NEW lo \in Nat, NEW hi \in Nat, lo <= hi, hi <= Len(a),
         NEW p \in Int, \A u \in lo + 1..hi : a[u] = p
  PROVE  Sums(a)[hi] = Sums(a)[lo] + (hi - lo) * p
<1> DEFINE s == Sums(a)
           S == {m \in 0..hi - lo : s[lo + m] = s[lo] + m * p}
<1>1. /\ \A i \in 1..Len(a) : s[i] = s[i - 1] + a[i]
      /\ \A i \in 0..Len(a) : s[i] \in Int
  BY SumsDef
<1> HIDE DEF s
<1>2. 0 \in S
  <2>1. lo \in 0..Len(a) /\ lo + 0 = lo
    OBVIOUS
  <2> QED BY <1>1, <2>1
<1>3. ASSUME NEW m \in 0..(hi - lo) - 1, m \in S
      PROVE  m + 1 \in S
  <2>1. /\ lo + (m + 1) \in 1..Len(a) /\ (lo + (m + 1)) - 1 = lo + m
        /\ lo + (m + 1) \in lo + 1..hi /\ m + 1 \in 0..hi - lo /\ lo \in 0..Len(a)
    OBVIOUS
  <2>2. s[lo + (m + 1)] = s[lo + m] + p /\ s[lo + m] = s[lo] + m * p /\ s[lo] \in Int
    BY <1>1, <1>3, <2>1
  <2>3. \A x \in Int : (x + m * p) + p = x + (m + 1) * p
    OBVIOUS
  <2> QED BY <2>1, <2>2, <2>3
<1>4. hi - lo \in S
  <2>1. hi - lo \in Nat
    OBVIOUS
  <2> HIDE DEF S
  <2>2. 0..hi - lo \subseteq S
    BY <1>2, <1>3, <2>1, InductionUpTo
  <2> QED BY <2>1, <2>2
<1>5. lo + (hi - lo) = hi
  OBVIOUS
<1> QED
  BY <1>4, <1>5 DEF s

LEMMA SumsMonotone ==
  ASSUME NEW a \in Seq(Nat)
  PROVE  \A j \in 0..Len(a) : \A i \in 0..j : Sums(a)[i] \in Nat /\ Sums(a)[i] <= Sums(a)[j]
<1> DEFINE s == Sums(a)
           S == {j \in 0..Len(a) : \A i \in 0..j : s[i] \in Nat /\ s[i] <= s[j]}
<1>1. s[0] = 0 /\ \A i \in 1..Len(a) : s[i] = s[i - 1] + a[i]
  <2>1. a \in Seq(Int)
    OBVIOUS
  <2> QED BY <2>1, SumsDef
<1> HIDE DEF s
<1>2. 0 \in S
  BY <1>1
<1>3. ASSUME NEW j \in 0..Len(a) - 1, j \in S
      PROVE  j + 1 \in S
  <2>1. j + 1 \in 1..Len(a) /\ (j + 1) - 1 = j /\ a[j + 1] \in Nat
    OBVIOUS
  <2>2. s[j + 1] = s[j] + a[j + 1] /\ s[j] \in Nat
    BY <1>1, <1>3, <2>1
  <2>3. ASSUME NEW i \in 0..j + 1
        PROVE  s[i] \in Nat /\ s[i] <= s[j + 1]
    <3>1. CASE i = j + 1
      BY <2>1, <2>2, <3>1
    <3>2. CASE i # j + 1
      <4>1. i \in 0..j
        BY <3>2
      <4> QED BY <1>3, <2>1, <2>2, <4>1
    <3> QED BY <3>1, <3>2
  <2> QED BY <2>1, <2>3
<1>4. 0..Len(a) \subseteq S
  <2>1. Len(a) \in Nat
    OBVIOUS
  <2> HIDE DEF S
  <2> QED BY <1>2, <1>3, <2>1, InductionUpTo
<1> QED
  BY <1>4 DEF s

-----------------------------------------------------------------------------
(* The lots, and the units they are made of. *)
LEMMA LotsFacts ==
  ASSUME NEW lots \in Seq(Lots)
  PROVE  /\ Len(lots) \in Nat /\ DOMAIN lots = 1..Len(lots)
         /\ Units(lots) \in Seq(Nat) /\ Len(Units(lots)) = Len(lots)
         /\ Costs(lots) \in Seq(Nat) /\ Len(Costs(lots)) = Len(lots)
         /\ \A i \in 1..Len(lots) :
              /\ lots[i].quantity \in Int \ {0} /\ lots[i].price \in Nat
              /\ Units(lots)[i] = Abs(lots[i].quantity)
              /\ Units(lots)[i] \in Nat \ {0}
              /\ Costs(lots)[i] = Units(lots)[i] * lots[i].price
<1>1. Len(lots) \in Nat /\ DOMAIN lots = 1..Len(lots)
  OBVIOUS
<1>2. ASSUME NEW i \in 1..Len(lots)
      PROVE  /\ lots[i].quantity \in Int \ {0} /\ lots[i].price \in Nat
             /\ Abs(lots[i].quantity) \in Nat \ {0}
             /\ Abs(lots[i].quantity) * lots[i].price \in Nat
  <2>1. lots[i] \in Lots
    OBVIOUS
  <2>2. lots[i].quantity \in Int \ {0} /\ lots[i].price \in Nat
    BY <2>1 DEF Lots
  <2>3. Abs(lots[i].quantity) \in Nat \ {0}
    BY <2>2 DEF Abs
  <2>4. \A x, y \in Nat : x * y \in Nat
    OBVIOUS
  <2> QED BY <2>2, <2>3, <2>4
<1>3. Units(lots) \in Seq(Nat) /\ Len(Units(lots)) = Len(lots)
  <2>1. /\ Units(lots) = [i \in 1..Len(lots) |-> Units(lots)[i]]
        /\ \A i \in 1..Len(lots) : Units(lots)[i] \in Nat
    BY <1>1, <1>2 DEF Units
  <2> QED BY <1>1, <2>1, FunctionIsSequence
<1>4. Costs(lots) \in Seq(Nat) /\ Len(Costs(lots)) = Len(lots)
  <2>1. /\ Costs(lots) = [i \in 1..Len(lots) |-> Costs(lots)[i]]
        /\ \A i \in 1..Len(lots) : Costs(lots)[i] \in Nat
    BY <1>1, <1>2 DEF Costs
  <2> QED BY <1>1, <2>1, FunctionIsSequence
<1>5. \A i \in 1..Len(lots) :
         /\ Units(lots)[i] = Abs(lots[i].quantity)
         /\ Costs(lots)[i] = Abs(lots[i].quantity) * lots[i].price
  BY <1>1 DEF Units, Costs
<1> QED
  BY <1>1, <1>2, <1>3, <1>4, <1>5

LEMMA HeldFacts ==
  ASSUME NEW lots \in Seq(Lots)
  PROVE  LET held == Sums(Units(lots)) IN
         /\ held[0] = 0
         /\ \A i \in 0..Len(lots) : held[i] \in Nat
         /\ \A i \in 1..Len(lots) : /\ held[i] = held[i - 1] + Units(lots)[i]
                                    /\ held[i - 1] < held[i]
         /\ \A j \in 0..Len(lots) : \A i \in 0..j : held[i] <= held[j]
         /\ Total(Units(lots)) = held[Len(lots)]
<1> DEFINE held == Sums(Units(lots))
<1>1. Units(lots) \in Seq(Nat) /\ Len(Units(lots)) = Len(lots) /\ Len(lots) \in Nat
      /\ Units(lots) \in Seq(Int)
  BY LotsFacts
<1>2. \A i \in 1..Len(lots) : Units(lots)[i] \in Nat \ {0}
  BY LotsFacts
<1>3. held[0] = 0 /\ \A i \in 1..Len(lots) : held[i] = held[i - 1] + Units(lots)[i]
  BY <1>1, SumsDef
<1>4. \A j \in 0..Len(lots) : \A i \in 0..j : held[i] \in Nat /\ held[i] <= held[j]
  BY <1>1, SumsMonotone
<1>5. Total(Units(lots)) = held[Len(lots)]
  BY <1>1 DEF Total
<1> HIDE DEF held
<1>6. \A i \in 0..Len(lots) : held[i] \in Nat
  BY <1>1, <1>4
<1>7. ASSUME NEW i \in 1..Len(lots)
      PROVE  held[i - 1] < held[i]
  <2>1. i - 1 \in 0..Len(lots)
    BY <1>1
  <2> QED BY <1>2, <1>3, <1>6, <2>1
<1> QED
  BY <1>3, <1>4, <1>5, <1>6, <1>7 DEF held

(* Unit u belongs to lot i. *)
Within(lots, u, i) == Sums(Units(lots))[i - 1] < u /\ u <= Sums(Units(lots))[i]

LEMMA UnitPricesFacts ==
  ASSUME NEW lots \in Seq(Lots)
  PROVE  /\ UnitPrices(lots) \in Seq(Nat)
         /\ Len(UnitPrices(lots)) = Total(Units(lots))
         /\ \A u \in 1..Total(Units(lots)) : \E i \in 1..Len(lots) : Within(lots, u, i)
         /\ \A i \in 1..Len(lots) : \A u \in Nat : Within(lots, u, i) =>
              u \in 1..Total(Units(lots)) /\ UnitPrices(lots)[u] = lots[i].price
<1> DEFINE held == Sums(Units(lots))
           n == Len(lots)
           total == Total(Units(lots))
           lotOf(u) == CHOOSE i \in 1..n : Within(lots, u, i)
<1>1. /\ held[0] = 0
      /\ \A i \in 0..n : held[i] \in Nat
      /\ \A j \in 0..n : \A i \in 0..j : held[i] <= held[j]
      /\ total = held[n]
  BY HeldFacts
<1>2. /\ n \in Nat /\ DOMAIN lots = 1..n
      /\ \A i \in 1..n : lots[i].price \in Nat
  BY LotsFacts
<1>w. \A u, i : Within(lots, u, i) <=> held[i - 1] < u /\ u <= held[i]
  BY DEF Within
<1>p. UnitPrices(lots) = [u \in 1..total |-> lots[lotOf(u)].price]
  BY <1>2 DEF UnitPrices, Within
<1> HIDE DEF held, n, total
<1>n. total \in Nat
  BY <1>1, <1>2
<1>3. ASSUME NEW u \in 1..total
      PROVE  \E i \in 1..n : Within(lots, u, i)
  <2> DEFINE S == {i \in 0..n : u <= held[i]}
  <2>1. n \in S /\ S \in SUBSET Nat
    BY <1>1, <1>2
  <2>2. PICK i \in S : \A j \in S : i <= j
    <3> HIDE DEF S
    <3> QED BY <2>1, Least
  <2>3. i # 0
    BY <1>1, <1>n, <2>2
  <2>4. i \in 1..n /\ i - 1 \in 0..n /\ i - 1 \notin S
    BY <1>2, <2>2, <2>3
  <2>5. held[i - 1] \in Nat /\ ~(u <= held[i - 1]) /\ u <= held[i]
    BY <1>1, <2>2, <2>4
  <2> QED BY <1>n, <1>w, <2>4, <2>5
<1>4. ASSUME NEW i \in 1..n, NEW j \in 1..n, NEW u \in Nat, Within(lots, u, i), Within(lots, u, j)
      PROVE  i = j
  <2>1. ASSUME NEW x \in 1..n, NEW y \in 1..n, Within(lots, u, x), Within(lots, u, y), x < y
        PROVE  FALSE
    <3>1. x \in 0..y - 1 /\ y - 1 \in 0..n
      BY <1>2, <2>1
    <3>2. held[x] <= held[y - 1] /\ held[x] \in Nat /\ held[y - 1] \in Nat
      BY <1>1, <1>2, <3>1
    <3> QED BY <1>w, <2>1, <3>2
  <2>2. ~(i < j) /\ ~(j < i)
    BY <1>4, <2>1
  <2> QED BY <1>2, <2>2
<1>5. ASSUME NEW i \in 1..n, NEW u \in Nat, Within(lots, u, i)
      PROVE  u \in 1..total /\ lotOf(u) = i
  <2>1. held[i - 1] < u /\ u <= held[i] /\ held[i] <= total /\ held[i - 1] \in Nat /\ held[i] \in Nat
    <3>1. i - 1 \in 0..n /\ i \in 0..n /\ n \in 0..n
      BY <1>2
    <3> QED BY <1>1, <1>5, <1>w, <1>2, <3>1
  <2>2. u \in 1..total
    BY <1>n, <2>1
  <2>3. lotOf(u) \in 1..n /\ Within(lots, u, lotOf(u))
    BY <1>5
  <2> HIDE DEF lotOf
  <2> QED BY <1>4, <1>5, <2>2, <2>3
<1>6. ASSUME NEW u \in 1..total
      PROVE  lots[lotOf(u)].price \in Nat
  <2>1. lotOf(u) \in 1..n
    BY <1>3
  <2> HIDE DEF lotOf
  <2> QED BY <1>2, <2>1
<1> HIDE DEF lotOf
<1>7. UnitPrices(lots) \in Seq(Nat) /\ Len(UnitPrices(lots)) = total
  <2>1. /\ UnitPrices(lots) = [u \in 1..total |-> UnitPrices(lots)[u]]
        /\ \A u \in 1..total : UnitPrices(lots)[u] \in Nat
    BY <1>6, <1>p
  <2> QED BY <1>n, <2>1, FunctionIsSequence
<1> QED
  BY <1>3, <1>5, <1>7, <1>p DEF n, total

(* What the oldest n units cost. *)
CostOf(lots, n) == Sums(UnitPrices(lots))[n]

LEMMA CostWithinLot ==
  ASSUME NEW lots \in Seq(Lots), NEW i \in 1..Len(lots), NEW lo \in Nat, NEW hi \in Nat,
         Sums(Units(lots))[i - 1] <= lo, lo <= hi, hi <= Sums(Units(lots))[i]
  PROVE  CostOf(lots, hi) = CostOf(lots, lo) + (hi - lo) * lots[i].price
<1> DEFINE a == UnitPrices(lots)
           held == Sums(Units(lots))
           p == lots[i].price
<1>1. a \in Seq(Nat) /\ Len(a) = Total(Units(lots))
  BY UnitPricesFacts
<1>2. /\ held[i - 1] \in Nat /\ held[i] \in Nat /\ held[i] <= Total(Units(lots))
      /\ Total(Units(lots)) \in Nat
  <2>1. Len(lots) \in Nat
    BY LotsFacts
  <2>2. i - 1 \in 0..Len(lots) /\ i \in 0..Len(lots) /\ Len(lots) \in 0..Len(lots)
    BY <2>1
  <2> QED BY <2>2, HeldFacts
<1>3. ASSUME NEW u \in lo + 1..hi
      PROVE  a[u] = p
  <2>1. u \in Nat /\ held[i - 1] < u /\ u <= held[i]
    BY <1>2
  <2>2. Within(lots, u, i)
    BY <2>1 DEF Within
  <2> HIDE DEF held
  <2> QED BY <2>1, <2>2, UnitPricesFacts
<1>4. p \in Int
  BY LotsFacts
<1>5. a \in Seq(Int) /\ hi <= Len(a)
  BY <1>1, <1>2
<1> HIDE DEF a, p, held
<1>6. Sums(a)[hi] = Sums(a)[lo] + (hi - lo) * p
  BY <1>3, <1>4, <1>5, SumsStretch
<1> QED
  BY <1>6 DEF CostOf, a, p

LEMMA CostFacts ==
  ASSUME NEW lots \in Seq(Lots)
  PROVE  /\ CostOf(lots, 0) = 0
         /\ \A n \in 0..Total(Units(lots)) : CostOf(lots, n) \in Nat
         /\ \A i \in 0..Len(lots) :
              Sums(Costs(lots))[i] = CostOf(lots, Sums(Units(lots))[i])
         /\ Total(Costs(lots)) = CostOf(lots, Total(Units(lots)))
<1> DEFINE held == Sums(Units(lots))
           cost(m) == CostOf(lots, m)
           n == Len(lots)
           total == Total(Units(lots))
           f == [i \in 0..n |-> cost(held[i])]
<1>1. /\ n \in Nat /\ Costs(lots) \in Seq(Int) /\ Len(Costs(lots)) = n
      /\ \A i \in 1..n : Costs(lots)[i] = Units(lots)[i] * lots[i].price
  BY LotsFacts
<1>2. /\ held[0] = 0
      /\ \A i \in 0..n : held[i] \in Nat
      /\ \A i \in 1..n : held[i] = held[i - 1] + Units(lots)[i] /\ held[i - 1] < held[i]
      /\ total = held[n]
  BY HeldFacts
<1>3. cost(0) = 0 /\ \A m \in 0..total : cost(m) \in Nat
  <2>1. /\ UnitPrices(lots) \in Seq(Nat) /\ UnitPrices(lots) \in Seq(Int)
        /\ Len(UnitPrices(lots)) = total
    BY UnitPricesFacts
  <2>2. cost(0) = 0
    BY <2>1, SumsDef DEF CostOf
  <2>3. \A m \in 0..total : cost(m) \in Nat
    <3>1. total \in 0..total
      BY <1>1, <1>2
    <3> QED BY <2>1, <3>1, SumsMonotone DEF CostOf
  <2> QED BY <2>2, <2>3
<1>4. ASSUME NEW i \in 1..n
      PROVE  f[i] = f[i - 1] + Costs(lots)[i]
  <2>1. /\ held[i - 1] \in Nat /\ held[i] \in Nat /\ held[i - 1] <= held[i]
        /\ held[i] - held[i - 1] = Units(lots)[i]
    <3>1. i - 1 \in 0..n /\ i \in 0..n /\ Units(lots)[i] \in Nat
      BY <1>1, LotsFacts
    <3> QED BY <1>2, <3>1
  <2>2. cost(held[i]) = cost(held[i - 1]) + (held[i] - held[i - 1]) * lots[i].price
    <3> HIDE DEF cost
    <3>1. \A x, y \in Nat : held[i - 1] <= x /\ x <= y /\ y <= held[i] =>
            cost(y) = cost(x) + (y - x) * lots[i].price
      BY CostWithinLot DEF cost
    <3> HIDE DEF held
    <3> QED BY <2>1, <3>1
  <2>3. f[i] = cost(held[i]) /\ f[i - 1] = cost(held[i - 1])
    BY <1>1
  <2> HIDE DEF f, held, cost
  <2> QED BY <1>1, <2>1, <2>2, <2>3
<1>5. f[0] = 0
  BY <1>1, <1>2, <1>3
<1>6. \A i \in 0..n : f[i] = cost(held[i])
  OBVIOUS
<1> HIDE DEF f, cost, held, total
<1>7. \A i \in 0..n : Sums(Costs(lots))[i] = f[i]
  <2>1. n \in 0..Len(Costs(lots))
    BY <1>1
  <2> HIDE DEF n
  <2> QED BY <1>1, <1>4, <1>5, <2>1, SumsUnique
<1>8. Total(Costs(lots)) = cost(total)
  BY <1>1, <1>2, <1>6, <1>7 DEF Total
<1> QED
  BY <1>3, <1>6, <1>7, <1>8 DEF cost, held, total

-----------------------------------------------------------------------------
(* A lot that joins. *)
LEMMA LotJoins ==
  ASSUME NEW lots \in Seq(Lots), NEW lot \in Lots
  PROVE  LET joined == Append(lots, lot)
             size   == Abs(lot.quantity)
             total  == Total(Units(lots))
         IN /\ joined \in Seq(Lots)
            /\ Total(Units(joined)) = total + size
            /\ UnitPrices(joined) = [u \in 1..total + size |->
                 IF u <= total THEN UnitPrices(lots)[u] ELSE lot.price]
            /\ Total(Costs(joined)) = Total(Costs(lots)) + size * lot.price
<1> DEFINE joined == Append(lots, lot)
           size == Abs(lot.quantity)
           held == Sums(Units(lots))
           after == Sums(Units(joined))
           n == Len(lots)
           total == Total(Units(lots))
<1>1. /\ joined \in Seq(Lots) /\ Len(joined) = n + 1 /\ n \in Nat
      /\ \A i \in 1..n : joined[i] = lots[i]
      /\ joined[n + 1] = lot
  OBVIOUS
<1>2. /\ Units(lots) \in Seq(Int) /\ Len(Units(lots)) = n
      /\ Costs(lots) \in Seq(Int) /\ Len(Costs(lots)) = n
      /\ \A i \in 1..n : /\ Units(lots)[i] = Abs(lots[i].quantity)
                         /\ Costs(lots)[i] = Units(lots)[i] * lots[i].price
  BY LotsFacts
<1> HIDE DEF joined
<1>3. /\ Units(joined) \in Seq(Int) /\ Len(Units(joined)) = n + 1
      /\ Costs(joined) \in Seq(Int) /\ Len(Costs(joined)) = n + 1
      /\ \A i \in 1..n + 1 : /\ Units(joined)[i] = Abs(joined[i].quantity)
                             /\ Units(joined)[i] \in Nat \ {0}
                             /\ Costs(joined)[i] = Units(joined)[i] * joined[i].price
  BY <1>1, LotsFacts
<1> HIDE DEF n
<1>4. \A i \in 1..n : Units(lots)[i] = Units(joined)[i] /\ Costs(lots)[i] = Costs(joined)[i]
  <2> SUFFICES ASSUME NEW i \in 1..n
               PROVE  Units(lots)[i] = Units(joined)[i] /\ Costs(lots)[i] = Costs(joined)[i]
    OBVIOUS
  <2>1. joined[i] = lots[i] /\ i \in 1..n + 1
    BY <1>1
  <2> QED BY <1>2, <1>3, <2>1
<1>5. /\ \A i \in 0..n : held[i] = after[i]
      /\ \A i \in 0..n : Sums(Costs(lots))[i] = Sums(Costs(joined))[i]
  <2>1. n \in 0..Len(Units(lots)) /\ n <= Len(Units(joined))
        /\ n \in 0..Len(Costs(lots)) /\ n <= Len(Costs(joined))
    BY <1>1, <1>2, <1>3
  <2>2. \A i \in 0..n : held[i] = after[i]
    BY <1>2, <1>3, <1>4, <2>1, SumsPrefix
  <2>3. \A i \in 0..n : Sums(Costs(lots))[i] = Sums(Costs(joined))[i]
    BY <1>2, <1>3, <1>4, <2>1, SumsPrefix
  <2> QED BY <2>2, <2>3
<1>6. /\ after[n + 1] = after[n] + size
      /\ Sums(Costs(joined))[n + 1] = Sums(Costs(joined))[n] + size * lot.price
      /\ size \in Nat \ {0}
  <2>1. n + 1 \in 1..n + 1 /\ (n + 1) - 1 = n
    BY <1>1
  <2>2. Units(joined)[n + 1] = size
        /\ Costs(joined)[n + 1] = size * lot.price /\ size \in Nat \ {0}
    BY <1>1, <1>3, <2>1
  <2>3. after[n + 1] = after[n] + Units(joined)[n + 1]
    BY <1>3, <2>1, SumsDef
  <2>4. Sums(Costs(joined))[n + 1] = Sums(Costs(joined))[n] + Costs(joined)[n + 1]
    BY <1>3, <2>1, SumsDef
  <2> QED BY <2>2, <2>3, <2>4
<1>7. total = held[n] /\ total \in Nat /\ held[n] \in Nat
  <2>1. n \in 0..n
    BY <1>1
  <2> QED BY <2>1, HeldFacts DEF n
<1>8. Total(Units(joined)) = total + size
  BY <1>1, <1>3, <1>5, <1>6, <1>7 DEF Total
<1>9. Total(Costs(joined)) = Total(Costs(lots)) + size * lot.price
  BY <1>1, <1>2, <1>3, <1>5, <1>6 DEF Total
<1>10. ASSUME NEW u \in 1..total + size
       PROVE  UnitPrices(joined)[u] = IF u <= total THEN UnitPrices(lots)[u] ELSE lot.price
  <2>1. CASE u <= total
    <3>0. u \in 1..total /\ u \in Nat
      BY <1>6, <1>7, <2>1
    <3>1. PICK i \in 1..n : Within(lots, u, i)
      BY <3>0, UnitPricesFacts DEF n
    <3>2. UnitPrices(lots)[u] = lots[i].price
      BY <3>0, <3>1, UnitPricesFacts DEF n
    <3>3. i \in 0..n /\ i - 1 \in 0..n /\ i \in 1..n + 1
      BY <1>1
    <3>4. Within(joined, u, i)
      BY <1>5, <3>1, <3>3 DEF Within
    <3>5. UnitPrices(joined)[u] = joined[i].price
      BY <1>1, <3>0, <3>3, <3>4, UnitPricesFacts
    <3> QED BY <1>1, <2>1, <3>2, <3>5
  <2>2. CASE ~(u <= total)
    <3>1. u \in Nat /\ n + 1 \in 1..n + 1 /\ (n + 1) - 1 = n /\ n \in 0..n
      BY <1>1, <1>6, <1>7
    <3>2. after[n] = total /\ after[n + 1] = total + size
      BY <1>5, <1>6, <1>7, <3>1
    <3>3. after[(n + 1) - 1] < u /\ u <= after[n + 1]
      BY <1>6, <1>7, <2>2, <3>1, <3>2
    <3>4. Within(joined, u, n + 1)
      BY <3>3 DEF Within
    <3>5. UnitPrices(joined)[u] = joined[n + 1].price
      BY <1>1, <3>1, <3>4, UnitPricesFacts
    <3> QED BY <1>1, <2>2, <3>5
  <2> QED BY <2>1, <2>2
<1>11. UnitPrices(joined) = [u \in 1..total + size |-> UnitPrices(joined)[u]]
  <2>1. UnitPrices(joined) \in Seq(Nat) /\ Len(UnitPrices(joined)) = total + size
    BY <1>1, <1>8, UnitPricesFacts
  <2> QED BY <2>1
<1> HIDE DEF total, size
<1>12. UnitPrices(joined) = [u \in 1..total + size |->
                 IF u <= total THEN UnitPrices(lots)[u] ELSE lot.price]
  BY <1>10, <1>11
<1> QED
  BY <1>1, <1>8, <1>9, <1>12 DEF joined, size, total

-----------------------------------------------------------------------------
(* The oldest units that leave. *)
LEMMA MaxOfPair ==
  ASSUME NEW a \in Int, NEW b \in Int
  PROVE  Max({a, b}) = IF a >= b THEN a ELSE b
<1>1. \E x \in {a, b} : \A y \in {a, b} : x >= y
  OBVIOUS
<1>2. Max({a, b}) \in {a, b} /\ \A y \in {a, b} : Max({a, b}) >= y
  BY <1>1, Zenon DEF Max
<1> QED
  BY <1>2

LEMMA MinOfPair ==
  ASSUME NEW a \in Int, NEW b \in Int
  PROVE  Min({a, b}) = IF a <= b THEN a ELSE b
<1>1. \E x \in {a, b} : \A y \in {a, b} : x =< y
  OBVIOUS
<1>2. Min({a, b}) \in {a, b} /\ \A y \in {a, b} : Min({a, b}) =< y
  BY <1>1, Zenon DEF Min
<1> QED
  BY <1>2

AtMost(n, bound) == IF n <= bound THEN n ELSE bound

(* Lot i gives what the first n units have of it. *)
LEMMA TakenIs ==
  ASSUME NEW lots \in Seq(Lots), NEW closing \in Nat, NEW i \in 1..Len(lots)
  PROVE  LET held == Sums(Units(lots)) IN
         Taken(lots, closing, i) = AtMost(held[i], closing) - AtMost(held[i - 1], closing)
<1> DEFINE held == Sums(Units(lots))
           size == Units(lots)[i]
           rest == closing - held[i - 1]
<1>1. /\ held[i - 1] \in Nat /\ held[i] \in Nat /\ size \in Nat
      /\ held[i] = held[i - 1] + size /\ size = Abs(lots[i].quantity)
  <2>1. i - 1 \in 0..Len(lots) /\ i \in 0..Len(lots)
    BY LotsFacts
  <2> QED BY <2>1, LotsFacts, HeldFacts
<1>2. Taken(lots, closing, i) = Max({0, Min({size, rest})})
  BY <1>1 DEF Taken
<1> HIDE DEF held, size
<1>3. rest \in Int /\ rest = closing - held[i - 1]
  BY <1>1
<1> HIDE DEF rest
<1>4. Min({size, rest}) = IF size <= rest THEN size ELSE rest
  BY <1>1, <1>3, MinOfPair
<1>5. Min({size, rest}) \in Int
  BY <1>1, <1>3, <1>4
<1>6. Max({0, Min({size, rest})}) = IF 0 >= Min({size, rest}) THEN 0 ELSE Min({size, rest})
  <2> DEFINE m == Min({size, rest})
  <2>1. m \in Int
    BY <1>5
  <2> HIDE DEF m
  <2>2. Max({0, m}) = IF 0 >= m THEN 0 ELSE m
    BY <2>1, MaxOfPair
  <2> QED BY <2>2 DEF m
<1> QED
  BY <1>1, <1>2, <1>3, <1>4, <1>6 DEF AtMost, held

LEMMA SpentIs ==
  ASSUME NEW lots \in Seq(Lots), NEW closing \in Nat
  PROVE  LET held  == Sums(Units(lots))
             spent == Spent(lots, closing)
         IN /\ spent \in 0..Len(lots)
            /\ held[spent] <= closing
            /\ spent < Len(lots) => closing < held[spent + 1]
<1> DEFINE held == Sums(Units(lots))
           n == Len(lots)
           S == {i \in 0..n : closing < held[i]}
           IsSpent(m) == held[m] <= closing /\ (m < n => closing < held[m + 1])
<1>1. n \in Nat /\ held[0] = 0 /\ \A i \in 0..n : held[i] \in Nat
  BY LotsFacts, HeldFacts
<1>2. Spent(lots, closing) = CHOOSE m \in 0..n : IsSpent(m)
  BY DEF Spent
<1> HIDE DEF held, n
<1>3. \E m \in 0..n : IsSpent(m)
  <2>1. CASE S = {}
    <3>1. n \in 0..n /\ ~(closing < held[n]) /\ held[n] \in Nat
      BY <1>1, <2>1
    <3>2. IsSpent(n)
      BY <1>1, <3>1
    <3> QED BY <3>1, <3>2
  <2>2. CASE S # {}
    <3>1. S \in SUBSET Nat
      BY <1>1
    <3>2. PICK i \in S : \A j \in S : i <= j
      <4> HIDE DEF S
      <4> QED BY <2>2, <3>1, Least
    <3>3. i \in 1..n /\ i - 1 \in 0..n /\ i - 1 \notin S /\ (i - 1) + 1 = i
      BY <1>1, <3>2
    <3>4. ~(closing < held[i - 1]) /\ held[i - 1] \in Nat /\ closing < held[i]
      BY <1>1, <3>2, <3>3
    <3>5. IsSpent(i - 1)
      BY <1>1, <3>3, <3>4
    <3> QED BY <3>3, <3>5
  <2> QED BY <2>1, <2>2
<1>4. Spent(lots, closing) \in 0..n /\ IsSpent(Spent(lots, closing))
  <2> HIDE DEF IsSpent
  <2> QED BY <1>2, <1>3
<1> QED
  BY <1>4 DEF n, held

(* What is left of the lots: the units but the oldest, lot by lot. *)
LEMMA LotsAfterAre ==
  ASSUME NEW lots \in Seq(Lots), NEW closing \in 0..Total(Units(lots))
  PROVE  LET after == LotsAfter(lots, closing)
             spent == Spent(lots, closing)
             held  == Sums(Units(lots))
         IN /\ after \in Seq(Lots) /\ Len(after) = Len(lots) - spent
            /\ \A j \in 1..Len(after) :
                 /\ spent + j \in 1..Len(lots)
                 /\ Sign(after[j].quantity) = Sign(lots[spent + j].quantity)
                 /\ after[j].price = lots[spent + j].price
            /\ \A j \in 0..Len(after) :
                 Sums(Units(after))[j] = IF j = 0 THEN 0 ELSE held[spent + j] - closing
<1> DEFINE after == LotsAfter(lots, closing)
           spent == Spent(lots, closing)
           held == Sums(Units(lots))
           n == Len(lots)
           taken(i) == Taken(lots, closing, i)
<1>0. closing \in Nat
  <2>1. Total(Units(lots)) \in Nat
    <3>1. Len(lots) \in 0..Len(lots)
      BY LotsFacts
    <3> QED BY <3>1, HeldFacts
  <2> QED BY <2>1
<1>1. /\ n \in Nat
      /\ held[0] = 0
      /\ \A i \in 0..n : held[i] \in Nat
      /\ \A j \in 0..n : \A i \in 0..j : held[i] <= held[j]
      /\ \A i \in 1..n : held[i] = held[i - 1] + Units(lots)[i]
  BY LotsFacts, HeldFacts
<1>2. \A i \in 1..n : /\ lots[i] \in Lots
                      /\ lots[i].quantity \in Int \ {0} /\ lots[i].price \in Nat
                      /\ Units(lots)[i] = Abs(lots[i].quantity)
                      /\ Units(lots)[i] \in Nat \ {0}
  BY LotsFacts, ElementOfSeq
<1>3. spent \in 0..n /\ held[spent] <= closing /\ (spent < n => closing < held[spent + 1])
  BY <1>0, SpentIs
<1>4. \A i \in 1..n : taken(i) = AtMost(held[i], closing) - AtMost(held[i - 1], closing)
  BY <1>0, TakenIs
<1>5. after = [j \in 1..n - spent |->
                 [lots[spent + j] EXCEPT !.quantity = @ - Sign(@) * taken(spent + j)]]
  BY DEF LotsAfter
<1> HIDE DEF spent, held, n, taken
<1>6. ASSUME NEW j \in 1..n - spent
      PROVE  /\ spent + j \in 1..n /\ held[spent + j] \in Nat /\ held[spent + j] > closing
             /\ taken(spent + j) = IF j = 1 THEN closing - held[spent] ELSE 0
             /\ taken(spent + j) \in Nat /\ taken(spent + j) < Units(lots)[spent + j]
  <2>1. spent + j \in 1..n /\ spent + j \in 0..n /\ (spent + j) - 1 \in 0..n /\ spent < n
        /\ spent + 1 \in 0..spent + j /\ spent + 1 \in 0..n
    BY <1>1, <1>3
  <2>2. held[spent + 1] <= held[spent + j] /\ held[spent + 1] > closing
        /\ held[spent + j] \in Nat /\ held[spent + 1] \in Nat
    BY <1>1, <1>3, <2>1
  <2>3. held[spent + j] > closing
    BY <1>0, <2>2
  <2>4. held[spent + j] = held[(spent + j) - 1] + Units(lots)[spent + j]
        /\ held[(spent + j) - 1] \in Nat /\ Units(lots)[spent + j] \in Nat \ {0}
    BY <1>1, <1>2, <2>1
  <2>5. taken(spent + j) = AtMost(held[spent + j], closing) - AtMost(held[(spent + j) - 1], closing)
    BY <1>4, <2>1
  <2>6. AtMost(held[spent + j], closing) = closing
    BY <1>0, <2>2, <2>3 DEF AtMost
  <2>7. CASE j = 1
    <3>1. (spent + j) - 1 = spent /\ held[spent] \in Nat
      BY <1>1, <1>3, <2>7
    <3>2. AtMost(held[spent], closing) = held[spent]
      BY <1>3, <3>1 DEF AtMost
    <3>3. taken(spent + j) = closing - held[spent]
      BY <2>5, <2>6, <3>1, <3>2
    <3> QED BY <1>0, <1>3, <2>1, <2>2, <2>3, <2>4, <2>7, <3>1, <3>3
  <2>8. CASE j # 1
    <3>1. spent + 1 \in 0..(spent + j) - 1
      BY <1>3, <2>8
    <3>2. held[spent + 1] <= held[(spent + j) - 1]
      BY <1>1, <2>1, <3>1
    <3>3. AtMost(held[(spent + j) - 1], closing) = closing
      BY <1>0, <2>2, <2>4, <3>2 DEF AtMost
    <3>4. taken(spent + j) = 0
      BY <1>0, <2>5, <2>6, <3>3
    <3> QED BY <2>1, <2>2, <2>3, <2>4, <2>8, <3>4
  <2> QED BY <2>7, <2>8
<1>7. ASSUME NEW j \in 1..n - spent
      PROVE  /\ after[j] \in Lots
             /\ Sign(after[j].quantity) = Sign(lots[spent + j].quantity)
             /\ after[j].price = lots[spent + j].price
             /\ Abs(after[j].quantity) = Units(lots)[spent + j] - taken(spent + j)
  <2> DEFINE l == lots[spent + j]
             t == taken(spent + j)
  <2>1. l \in Lots /\ l.quantity \in Int \ {0} /\ l.price \in Nat
        /\ Units(lots)[spent + j] = Abs(l.quantity)
        /\ t \in Nat /\ t < Abs(l.quantity)
    BY <1>2, <1>6
  <2>2. after[j] = [l EXCEPT !.quantity = @ - Sign(@) * t]
    BY <1>5
  <2> HIDE DEF l, t
  <2>3. after[j] = [quantity |-> l.quantity - Sign(l.quantity) * t, price |-> l.price]
    BY <2>1, <2>2 DEF Lots
  <2>4. /\ l.quantity - Sign(l.quantity) * t \in Int \ {0}
        /\ Sign(l.quantity - Sign(l.quantity) * t) = Sign(l.quantity)
        /\ Abs(l.quantity - Sign(l.quantity) * t) = Abs(l.quantity) - t
    <3> DEFINE q == l.quantity
    <3>1. q \in Int \ {0} /\ t \in Nat /\ t < Abs(q)
      BY <2>1
    <3> HIDE DEF q
    <3>2. CASE q > 0
      <4>1. Sign(q) = 1 /\ Sign(q) * t = t /\ Abs(q) = q
        BY <3>1, <3>2 DEF Sign, Abs
      <4> QED BY <3>1, <3>2, <4>1 DEF Sign, Abs, q
    <3>3. CASE q < 0
      <4>1. Sign(q) = -1 /\ Sign(q) * t = -t /\ Abs(q) = -q
        BY <3>1, <3>3 DEF Sign, Abs
      <4> QED BY <3>1, <3>3, <4>1 DEF Sign, Abs, q
    <3> QED BY <3>1, <3>2, <3>3
  <2>5. after[j].quantity = l.quantity - Sign(l.quantity) * t /\ after[j].price = l.price
    BY <2>3
  <2>6. after[j] \in Lots
    BY <2>1, <2>3, <2>4 DEF Lots
  <2> QED BY <2>1, <2>4, <2>5, <2>6 DEF l, t
<1>8. after \in Seq(Lots) /\ Len(after) = n - spent
  <2>1. n - spent \in Nat
    BY <1>1, <1>3
  <2>2. after = [j \in 1..n - spent |-> after[j]]
    BY <1>5
  <2> HIDE DEF after
  <2> QED BY <1>7, <2>1, <2>2, FunctionIsSequence
<1> DEFINE f == [j \in 0..n - spent |-> IF j = 0 THEN 0 ELSE held[spent + j] - closing]
<1> HIDE DEF after
<1>9. ASSUME NEW j \in 1..n - spent
      PROVE  f[j] = f[j - 1] + Units(after)[j]
  <2>1. Units(after)[j] = Units(lots)[spent + j] - taken(spent + j)
    BY <1>7, <1>8, LotsFacts
  <2>2. /\ held[spent + j] = held[(spent + j) - 1] + Units(lots)[spent + j]
        /\ held[(spent + j) - 1] \in Nat /\ Units(lots)[spent + j] \in Nat
        /\ held[spent + j] \in Nat
    <3>1. spent + j \in 1..n /\ (spent + j) - 1 \in 0..n /\ spent + j \in 0..n
      BY <1>1, <1>3
    <3> QED BY <1>1, <1>2, <3>1
  <2>3. f[j] = held[spent + j] - closing
    OBVIOUS
  <2>4. CASE j = 1
    <3>1. (spent + j) - 1 = spent /\ f[j - 1] = 0 /\ taken(spent + j) = closing - held[spent]
      BY <1>1, <1>3, <1>6, <2>4
    <3> HIDE DEF f
    <3> QED BY <1>0, <1>1, <1>3, <2>1, <2>2, <2>3, <3>1
  <2>5. CASE j # 1
    <3>1. j - 1 \in 1..n - spent /\ spent + (j - 1) = (spent + j) - 1 /\ j - 1 # 0
          /\ j - 1 \in 0..n - spent
      BY <1>1, <1>3, <2>5
    <3>2. f[j - 1] = held[(spent + j) - 1] - closing /\ taken(spent + j) = 0
      BY <1>6, <2>5, <3>1
    <3> HIDE DEF f
    <3> QED BY <1>0, <2>1, <2>2, <2>3, <3>2
  <2> QED BY <2>4, <2>5
<1>10. \A j \in 0..n - spent : Sums(Units(after))[j] = f[j]
  <2>1. /\ Units(after) \in Seq(Int) /\ Len(Units(after)) = n - spent /\ n - spent \in Nat
    BY <1>1, <1>3, <1>8, LotsFacts
  <2>2. n - spent \in 0..Len(Units(after))
    BY <2>1
  <2>3. f[0] = 0
    BY <2>1
  <2> HIDE DEF f
  <2> QED BY <1>9, <2>1, <2>2, <2>3, SumsUnique
<1>11. \A j \in 0..n - spent : f[j] = IF j = 0 THEN 0 ELSE held[spent + j] - closing
  OBVIOUS
<1> HIDE DEF f
<1> QED
  BY <1>6, <1>7, <1>8, <1>10, <1>11 DEF after, spent, held, n

LEMMA UnitsLeave ==
  ASSUME NEW lots \in Seq(Lots), NEW closing \in 0..Total(Units(lots))
  PROVE  LET after == LotsAfter(lots, closing)
             total == Total(Units(lots))
         IN /\ Total(Units(after)) = total - closing
            /\ UnitPrices(after) = [u \in 1..total - closing |-> UnitPrices(lots)[closing + u]]
            /\ Total(Costs(after)) = Total(Costs(lots)) - CostOf(lots, closing)
<1> DEFINE after == LotsAfter(lots, closing)
           total == Total(Units(lots))
           spent == Spent(lots, closing)
           held == Sums(Units(lots))
           n == Len(lots)
           left == Sums(Units(after))
<1>1. /\ after \in Seq(Lots) /\ Len(after) = n - spent
      /\ \A j \in 1..Len(after) :
           spent + j \in 1..n /\ after[j].price = lots[spent + j].price
      /\ \A j \in 0..Len(after) : left[j] = IF j = 0 THEN 0 ELSE held[spent + j] - closing
  BY LotsAfterAre
<1>2. /\ n \in Nat /\ \A i \in 0..n : held[i] \in Nat
      /\ total = held[n]
      /\ total \in Nat
  <2>1. n \in Nat /\ \A i \in 0..n : held[i] \in Nat
    BY LotsFacts, HeldFacts
  <2>2. total = held[n]
    BY HeldFacts
  <2> QED BY <2>1, <2>2
<1>3. closing \in Nat /\ closing <= total
  BY <1>2
<1>4. spent \in 0..n /\ held[spent] <= closing
  BY <1>3, SpentIs
<1> HIDE DEF after, total, spent, held, n, left
<1>5. Total(Units(after)) = total - closing
  <2>1. Total(Units(after)) = left[n - spent] /\ n - spent \in 0..Len(after)
    <3>1. Total(Units(after)) = left[Len(after)]
      BY <1>1, HeldFacts DEF left
    <3> QED BY <1>1, <1>2, <1>4, <3>1
  <2>2. CASE spent = n
    BY <1>1, <1>2, <1>3, <1>4, <2>1, <2>2
  <2>3. CASE spent # n
    <3>1. n - spent # 0 /\ spent + (n - spent) = n
      BY <1>2, <1>4, <2>3
    <3> QED BY <1>1, <1>2, <2>1, <3>1
  <2> QED BY <2>2, <2>3
<1>6. UnitPrices(after) \in Seq(Nat) /\ Len(UnitPrices(after)) = total - closing
  BY <1>1, <1>5, UnitPricesFacts
<1>u. UnitPrices(lots) \in Seq(Nat) /\ Len(UnitPrices(lots)) = total
  BY UnitPricesFacts DEF total
<1>7. ASSUME NEW u \in 1..total - closing
      PROVE  UnitPrices(after)[u] = UnitPrices(lots)[closing + u]
  <2>0. u \in Nat /\ closing + u \in Nat /\ total - closing \in Nat
    BY <1>2, <1>3
  <2>1. PICK j \in 1..Len(after) : Within(after, u, j)
    BY <1>1, <1>5, UnitPricesFacts
  <2>2. UnitPrices(after)[u] = after[j].price
    BY <1>1, <2>0, <2>1, UnitPricesFacts
  <2>3. left[j - 1] < u /\ u <= left[j]
    BY <2>1 DEF Within, left
  <2>4. /\ j \in 0..Len(after) /\ j - 1 \in 0..Len(after) /\ spent + j \in 1..n
        /\ (spent + j) - 1 \in 0..n /\ spent + j \in 0..n /\ spent + (j - 1) = (spent + j) - 1
        /\ j # 0
    <3>1. spent + j \in 1..n /\ spent \in 0..n /\ n \in Nat
      BY <1>1, <1>2, <1>4
    <3>2. Len(after) \in Nat
      BY <1>1
    <3> QED BY <3>1, <3>2
  <2>5. held[(spent + j) - 1] < closing + u /\ closing + u <= held[spent + j]
    <3>1. left[j] = held[spent + j] - closing /\ held[spent + j] \in Nat
          /\ held[(spent + j) - 1] \in Nat
      BY <1>1, <1>2, <2>4
    <3>2. closing + u <= held[spent + j]
      BY <1>3, <2>0, <2>3, <3>1
    <3>3. CASE j = 1
      <4>1. (spent + j) - 1 = spent
        BY <1>4, <3>3
      <4> QED BY <1>2, <1>3, <1>4, <2>0, <3>1, <3>2, <4>1
    <3>4. CASE j # 1
      <4>1. left[j - 1] = held[(spent + j) - 1] - closing
        BY <1>1, <2>4, <3>4
      <4> QED BY <1>3, <2>0, <2>3, <3>1, <3>2, <4>1
    <3> QED BY <3>3, <3>4
  <2>6. Within(lots, closing + u, spent + j)
    BY <2>5 DEF Within, held
  <2>7. UnitPrices(lots)[closing + u] = lots[spent + j].price
    BY <2>0, <2>4, <2>6, UnitPricesFacts DEF n
  <2> QED BY <1>1, <2>2, <2>7
<1>8. UnitPrices(after) = [u \in 1..total - closing |-> UnitPrices(lots)[closing + u]]
  BY <1>6, <1>7
<1>9. Total(Costs(after)) = Total(Costs(lots)) - CostOf(lots, closing)
  <2> DEFINE a == UnitPrices(lots)
             b == UnitPrices(after)
  <2>1. Total(Costs(after)) = Sums(b)[total - closing]
        /\ Total(Costs(lots)) = Sums(a)[total] /\ CostOf(lots, closing) = Sums(a)[closing]
    BY <1>1, <1>5, CostFacts DEF CostOf, total
  <2>2. a \in Seq(Int) /\ b \in Seq(Int) /\ Len(b) = Len(a) - closing /\ Len(a) = total
        /\ Len(b) = total - closing
    BY <1>6, <1>u
  <2>3. closing \in 0..Len(a) /\ total - closing \in 0..Len(b) /\ closing + (total - closing) = total
    BY <1>2, <1>3, <2>2
  <2>4. \A j \in 1..Len(b) : b[j] = a[closing + j]
    BY <1>7, <2>2
  <2> HIDE DEF a, b
  <2>5. \A j \in 0..Len(b) : Sums(b)[j] = Sums(a)[closing + j] - Sums(a)[closing]
    BY <2>2, <2>3, <2>4, SumsShift
  <2> QED BY <2>1, <2>3, <2>5
<1> QED
  BY <1>5, <1>8, <1>9 DEF after, total

(* What the lots earn is what the oldest units earn. *)
LEMMA LotsEarn ==
  ASSUME NEW lots \in Seq(Lots), NEW closing \in 0..Total(Units(lots)), NEW exit \in Nat,
         NEW side \in {-1, 1}, \A i \in 1..Len(lots) : Sign(lots[i].quantity) = side
  PROVE  Total([i \in DOMAIN lots |-> (exit - lots[i].price) * Sign(lots[i].quantity)
                                        * Taken(lots, closing, i)])
           = side * (exit * closing - CostOf(lots, closing))
<1> DEFINE held == Sums(Units(lots))
           n == Len(lots)
           total == Total(Units(lots))
           cost(m) == CostOf(lots, m)
           first(i) == AtMost(held[i], closing)
           f == [i \in 0..n |-> side * (exit * first(i) - cost(first(i)))]
           perLot == [i \in DOMAIN lots |-> (exit - lots[i].price) * Sign(lots[i].quantity)
                                        * Taken(lots, closing, i)]
<1>1. /\ n \in Nat /\ DOMAIN lots = 1..n
      /\ \A i \in 1..n : lots[i].price \in Nat
  BY LotsFacts
<1>2. /\ held[0] = 0 /\ \A i \in 0..n : held[i] \in Nat
      /\ \A i \in 1..n : held[i - 1] < held[i]
      /\ total = held[n]
      /\ \A j \in 0..n : \A i \in 0..j : held[i] <= held[j]
  BY HeldFacts
<1>3. total \in Nat /\ closing \in Nat /\ closing <= total
  BY <1>1, <1>2
<1>4. cost(0) = 0 /\ \A m \in 0..total : cost(m) \in Nat
  BY CostFacts
<1>5. \A i \in 1..n : Taken(lots, closing, i) = first(i) - first(i - 1)
  BY <1>3, TakenIs
<1>6. \A i \in 1..n : \A x, y \in Nat : held[i - 1] <= x /\ x <= y /\ y <= held[i] =>
        cost(y) = cost(x) + (y - x) * lots[i].price
  BY CostWithinLot
<1>7. \A i \in 0..n : first(i) \in 0..total
  <2> SUFFICES ASSUME NEW i \in 0..n
               PROVE  first(i) \in 0..total
    OBVIOUS
  <2>1. held[i] \in Nat
    BY <1>2
  <2> HIDE DEF held, n, total
  <2> QED BY <1>3, <2>1 DEF AtMost
<1>p. \A i \in 1..n : perLot[i] = (exit - lots[i].price) * side * (first(i) - first(i - 1))
  BY <1>1, <1>5
<1>d. DOMAIN perLot = 1..n
  BY <1>1
<1>s. perLot = [i \in 1..n |-> perLot[i]]
  BY <1>1
<1> HIDE DEF held, total, cost, perLot, n
<1>8. ASSUME NEW i \in 1..n
      PROVE  f[i] = f[i - 1] + perLot[i] /\ perLot[i] \in Int
  <2>1. /\ i - 1 \in 0..n /\ i \in 0..n
        /\ held[i - 1] \in Nat /\ held[i] \in Nat /\ held[i - 1] < held[i]
    BY <1>1, <1>2
  <2> DEFINE a == first(i - 1)
             b == first(i)
             p == lots[i].price
  <2>2. a \in Nat /\ b \in Nat /\ a \in 0..total /\ b \in 0..total /\ p \in Nat
    BY <1>1, <1>3, <1>7, <2>1
  <2>3. cost(b) = cost(a) + (b - a) * p
    <3>1. CASE held[i - 1] <= closing
      <4>1. a = held[i - 1] /\ a <= b /\ b <= held[i]
        BY <1>3, <2>1, <3>1 DEF AtMost
      <4> HIDE DEF a, b, p
      <4>2. held[i - 1] <= a
        BY <2>2, <4>1
      <4> QED BY <1>6, <2>2, <4>1, <4>2 DEF p
    <3>2. CASE ~(held[i - 1] <= closing)
      <4>1. a = b
        BY <1>3, <2>1, <3>2 DEF AtMost
      <4> HIDE DEF a, b, p
      <4>2. (b - a) * p = 0 /\ cost(b) \in Nat
        BY <1>4, <2>2, <4>1
      <4> QED BY <2>2, <4>1, <4>2
    <3> QED BY <3>1, <3>2
  <2>4. f[i] = side * (exit * b - cost(b)) /\ f[i - 1] = side * (exit * a - cost(a))
    BY <2>1
  <2>5. perLot[i] = (exit - p) * side * (b - a)
    BY <1>p
  <2> HIDE DEF f, a, b, p
  <2>6. \A x, y \in Int : x = y + (b - a) * p =>
          side * (exit * b - x) = side * (exit * a - y) + (exit - p) * side * (b - a)
    BY <2>2
  <2>7. cost(a) \in Int /\ cost(b) \in Int
    BY <1>4, <2>2
  <2>8. (exit - p) * side * (b - a) \in Int
    <3>1. exit - p \in Int /\ b - a \in Int
      BY <2>2
    <3> QED BY <3>1
  <2> QED BY <2>3, <2>4, <2>5, <2>6, <2>7, <2>8
<1>9. f[0] = 0
  <2>1. first(0) = 0 /\ 0 \in 0..n
    BY <1>1, <1>2, <1>3 DEF AtMost
  <2> QED BY <1>4, <2>1
<1>10. f[n] = side * (exit * closing - cost(closing))
  <2>1. first(n) = closing /\ n \in 0..n
    BY <1>1, <1>2, <1>3 DEF AtMost
  <2> QED BY <2>1
<1> HIDE DEF f
<1>11. perLot \in Seq(Int) /\ Len(perLot) = n
  BY <1>1, <1>8, <1>s, FunctionIsSequence
<1>12. n \in 0..Len(perLot) /\ n \in 0..n
  BY <1>1, <1>11
<1>13. \A i \in 0..n : Sums(perLot)[i] = f[i]
  BY <1>8, <1>9, <1>11, <1>12, SumsUnique
<1>14. Total(perLot) = f[n]
  BY <1>11, <1>12, <1>13 DEF Total
<1> QED
  BY <1>10, <1>14 DEF perLot, cost

-----------------------------------------------------------------------------
(* The lots are the position, whatever the average is. *)
LotsAreHeld ==
  /\ \A i \in 1..Len(entry.lots) : Sign(entry.lots[i].quantity) = Sign(quantity)
  /\ Total(Units(entry.lots)) = Abs(quantity)

(* No profit or loss is invented or lost, at what the lots cost.           *)
CashIsAccounted ==
  cash = realizedPnl - Sign(quantity) * Total(Costs(entry.lots)) * Multiplier
         - costsPaid - borrowCostPaid

HoldingInv == TypeOK /\ LotsAreHeld /\ CashIsAccounted

(* Of a fill of this size against the position, the units it pays out.     *)
PaidOut(size) ==
  IF Sign(size) # -Sign(quantity) THEN 0
  ELSE IF Abs(size) <= Abs(quantity) THEN Abs(size) ELSE Abs(quantity)

(* What every fill comes to, unit by unit. *)
EntryAfter(e, size, price) ==
  LET lots  == entry.lots
      paid  == PaidOut(size)
      held  == quantity + size
      stays == Abs(quantity) - paid
      joins == Abs(size) - paid
  IN /\ e \in Entries
     /\ \A i \in 1..Len(e.lots) : Sign(e.lots[i].quantity) = Sign(held)
     /\ Total(Units(e.lots)) = Abs(held)
     /\ UnitPrices(e.lots) = [u \in 1..stays + joins |->
          IF u <= stays THEN UnitPrices(lots)[paid + u] ELSE price]
     /\ Total(Costs(e.lots)) = Total(Costs(lots)) - CostOf(lots, paid) + joins * price
     /\ \A i \in 1..Len(e.lots) :
          e.lots[i].price = price \/ \E j \in 1..Len(lots) : e.lots[i].price = lots[j].price
     /\ entry.avgPrice * Abs(quantity) = Total(Costs(lots)) =>
          e.avgPrice = IF held = 0 THEN 0 ELSE Total(Costs(e.lots)) \div Abs(held)

Earned(size, price) ==
  Multiplier * (Sign(quantity) * (price * PaidOut(size) - CostOf(entry.lots, PaidOut(size))))

FillIs(size, price) ==
  \E e : /\ EntryAfter(e, size, price)
         /\ Booked(size, price, quantity + size, e, Earned(size, price))

LEMMA NoLots ==
  /\ <<>> \in Seq(Lots)
  /\ Total(Units(<<>>)) = 0 /\ Total(Costs(<<>>)) = 0
  /\ UnitPrices(<<>>) = [u \in 1..0 |-> 0]
<1>1. <<>> \in Seq(Lots) /\ Len(<<>>) = 0
  OBVIOUS
<1> DEFINE none == <<>>
<1> HIDE DEF none
<1>2. none \in Seq(Lots) /\ Len(none) = 0
  BY <1>1 DEF none
<1>3. Total(Units(none)) = 0
  BY <1>2, HeldFacts
<1>4. Total(Costs(none)) = 0
  BY <1>2, <1>3, CostFacts
<1>5. UnitPrices(none) \in Seq(Nat) /\ Len(UnitPrices(none)) = 0
  BY <1>2, <1>3, UnitPricesFacts
<1>6. UnitPrices(none) = [u \in 1..0 |-> 0]
  BY <1>5
<1> QED
  BY <1>1, <1>3, <1>4, <1>6 DEF none

(* A fill that only adds, to lots that are held or to none. *)
LEMMA JoiningEntry ==
  ASSUME NEW e \in Entries, NEW held \in Int, NEW delta \in Int \ {0}, NEW price \in Nat,
         now \in Nat
  PROVE  LET o == OpenOrIncrease(e, held, delta, price) IN
         /\ o \in Entries
         /\ o.lots = Append(e.lots, [quantity |-> delta, price |-> price])
         /\ o.avgPrice = (e.avgPrice * Abs(held) + price * Abs(delta)) \div (Abs(held) + Abs(delta))
<1> DEFINE o == OpenOrIncrease(e, held, delta, price)
           x == e.avgPrice * Abs(held) + price * Abs(delta)
           y == Abs(held) + Abs(delta)
<1>1. /\ e.avgPrice \in Nat /\ e.openedAt \in Nat /\ e.lots \in Seq(Lots)
      /\ e.maxFavorable \in Nat /\ e.maxAdverse \in Nat
  BY DEF Entries
<1>2. Abs(held) \in Nat /\ Abs(delta) \in Nat \ {0}
  BY DEF Abs
<1>3. x \in Nat /\ y \in Nat \ {0}
  <2>1. \A p, q \in Nat : p * q \in Nat
    OBVIOUS
  <2>2. e.avgPrice * Abs(held) \in Nat /\ price * Abs(delta) \in Nat
    BY <1>1, <1>2, <2>1
  <2> QED BY <1>2, <2>2
<1>4. x \div y \in Nat
  <2> HIDE DEF x, y
  <2> QED BY <1>3
<1>5. [quantity |-> delta, price |-> price] \in Lots
  BY DEF Lots
<1>6. Append(e.lots, [quantity |-> delta, price |-> price]) \in Seq(Lots)
  BY <1>1, <1>5
<1>7. o = [avgPrice     |-> x \div y,
           openedAt     |-> IF e.openedAt = 0 THEN now + 1 ELSE e.openedAt,
           lots         |-> Append(e.lots, [quantity |-> delta, price |-> price]),
           maxFavorable |-> IF e.openedAt = 0 THEN price ELSE e.maxFavorable,
           maxAdverse   |-> IF e.openedAt = 0 THEN price ELSE e.maxAdverse]
  BY DEF OpenOrIncrease
<1> HIDE DEF o, x, y
<1> QED
  BY <1>1, <1>4, <1>6, <1>7 DEF Entries, o, x, y

(* A single lot, as a fill leaves it that opens or flips. *)
LEMMA FreshEntry ==
  ASSUME NEW delta \in Int \ {0}, NEW price \in Nat, now \in Nat
  PROVE  LET o == OpenOrIncrease(NoEntry, 0, delta, price) IN
         /\ o \in Entries
         /\ \A i \in 1..Len(o.lots) :
              Sign(o.lots[i].quantity) = Sign(delta) /\ o.lots[i].price = price
         /\ Total(Units(o.lots)) = Abs(delta)
         /\ UnitPrices(o.lots) = [u \in 1..Abs(delta) |-> price]
         /\ Total(Costs(o.lots)) = Abs(delta) * price
         /\ o.avgPrice = Total(Costs(o.lots)) \div Abs(delta)
<1> DEFINE o == OpenOrIncrease(NoEntry, 0, delta, price)
           lot == [quantity |-> delta, price |-> price]
           size == Abs(delta)
<1>1. NoEntry \in Entries /\ NoEntry.lots = <<>> /\ NoEntry.avgPrice = 0
  BY DEF NoEntry, Entries
<1>2. size \in Nat \ {0} /\ Abs(0) = 0 /\ size * price \in Nat /\ price * size = size * price
  <2>1. size \in Nat \ {0}
    BY DEF Abs
  <2>2. \A p, q \in Nat : p * q \in Nat /\ p * q = q * p
    OBVIOUS
  <2> HIDE DEF size
  <2> QED BY <2>1, <2>2 DEF Abs
<1>3. /\ o \in Entries
      /\ o.lots = Append(NoEntry.lots, lot)
      /\ o.avgPrice = (NoEntry.avgPrice * Abs(0) + price * size) \div (Abs(0) + size)
  <2> DEFINE none == NoEntry
             zero == 0
  <2>1. none \in Entries /\ zero \in Int
    BY <1>1
  <2> HIDE DEF none, zero
  <2>2. LET p == OpenOrIncrease(none, zero, delta, price) IN
        /\ p \in Entries
        /\ p.lots = Append(none.lots, [quantity |-> delta, price |-> price])
        /\ p.avgPrice = (none.avgPrice * Abs(zero) + price * Abs(delta))
                          \div (Abs(zero) + Abs(delta))
    BY <2>1, JoiningEntry
  <2> QED BY <2>2 DEF none, zero
<1>4. lot \in Lots /\ lot.quantity = delta /\ lot.price = price
  BY DEF Lots
<1> HIDE DEF o, lot, size
<1>5. o.lots = Append(<<>>, lot) /\ o.avgPrice = (size * price) \div size
  BY <1>1, <1>2, <1>3
<1>6. Abs(lot.quantity) = size
  BY <1>4 DEF size
<1>7. /\ Total(Units(o.lots)) = 0 + size
      /\ UnitPrices(o.lots) = [u \in 1..0 + size |->
           IF u <= 0 THEN UnitPrices(<<>>)[u] ELSE lot.price]
      /\ Total(Costs(o.lots)) = 0 + size * lot.price
  <2> DEFINE none == <<>>
  <2>1. /\ none \in Seq(Lots) /\ Total(Units(none)) = 0 /\ Total(Costs(none)) = 0
        /\ o.lots = Append(none, lot)
    BY <1>5, NoLots
  <2> HIDE DEF none
  <2>2. /\ Total(Units(Append(none, lot))) = Total(Units(none)) + Abs(lot.quantity)
        /\ UnitPrices(Append(none, lot)) = [u \in 1..Total(Units(none)) + Abs(lot.quantity) |->
             IF u <= Total(Units(none)) THEN UnitPrices(none)[u] ELSE lot.price]
        /\ Total(Costs(Append(none, lot))) = Total(Costs(none)) + Abs(lot.quantity) * lot.price
    BY <1>4, <2>1, LotJoins
  <2> QED BY <1>6, <2>1, <2>2 DEF none
<1>8. UnitPrices(o.lots) = [u \in 1..size |-> price]
  BY <1>2, <1>4, <1>7
<1>9. \A i \in 1..Len(o.lots) : o.lots[i] = lot
  BY <1>5
<1> QED
  BY <1>2, <1>3, <1>4, <1>5, <1>7, <1>8, <1>9 DEF o, size

LEMMA HeldNow ==
  ASSUME HoldingInv
  PROVE  /\ entry \in Entries /\ entry.lots \in Seq(Lots) /\ entry.avgPrice \in Nat
         /\ quantity \in Int /\ now \in Nat
         /\ Total(Units(entry.lots)) = Abs(quantity) /\ Abs(quantity) \in Nat
         /\ Total(Costs(entry.lots)) = CostOf(entry.lots, Abs(quantity))
         /\ \A n \in 0..Abs(quantity) : CostOf(entry.lots, n) \in Nat
         /\ CostOf(entry.lots, 0) = 0
<1>1. /\ entry \in Entries /\ entry.lots \in Seq(Lots) /\ entry.avgPrice \in Nat
      /\ quantity \in Int /\ now \in Nat
  BY DEF HoldingInv, TypeOK, Entries
<1>2. Total(Units(entry.lots)) = Abs(quantity) /\ Abs(quantity) \in Nat
  BY <1>1 DEF HoldingInv, LotsAreHeld, Abs
<1> QED
  BY <1>1, <1>2, CostFacts

LEMMA OpenFill ==
  ASSUME HoldingInv, NEW size \in Int \ {0}, NEW price \in Nat, Open(size, price)
  PROVE  FillIs(size, price)
<1> DEFINE e == OpenOrIncrease(NoEntry, 0, size, price)
<1>1. /\ quantity = 0 /\ Booked(size, price, size, e, 0)
  BY DEF Open, IsOpen, ResetEntry
<1>2. /\ Sign(quantity) = 0 /\ Abs(quantity) = 0 /\ Sign(size) # 0 /\ PaidOut(size) = 0
      /\ Abs(size) \in Nat \ {0} /\ quantity + size = size
  BY <1>1 DEF Sign, Abs, PaidOut
<1>3. /\ e \in Entries
      /\ \A i \in 1..Len(e.lots) : Sign(e.lots[i].quantity) = Sign(size) /\ e.lots[i].price = price
      /\ Total(Units(e.lots)) = Abs(size)
      /\ UnitPrices(e.lots) = [u \in 1..Abs(size) |-> price]
      /\ Total(Costs(e.lots)) = Abs(size) * price
      /\ e.avgPrice = Total(Costs(e.lots)) \div Abs(size)
  BY HeldNow, FreshEntry
<1> HIDE DEF e
<1>4. CostOf(entry.lots, 0) = 0 /\ Total(Costs(entry.lots)) = 0
  BY <1>2, HeldNow
<1>5. EntryAfter(e, size, price)
  <2>1. UnitPrices(e.lots) = [u \in 1..0 - 0 + (Abs(size) - 0) |->
          IF u <= 0 - 0 THEN UnitPrices(entry.lots)[0 + u] ELSE price]
    BY <1>2, <1>3
  <2>2. Total(Costs(e.lots)) = 0 - 0 + (Abs(size) - 0) * price
    <3>1. \A x \in Nat : 0 - 0 + (x - 0) * price = x * price
      OBVIOUS
    <3> QED BY <1>2, <1>3, <3>1
  <2> QED BY <1>2, <1>3, <1>4, <2>1, <2>2 DEF EntryAfter
<1>6. Earned(size, price) = 0
  BY <1>2, <1>4, PositionAssumption DEF Earned, PositionAssumption
<1> QED
  BY <1>1, <1>2, <1>5, <1>6 DEF FillIs

LEMMA IncreaseFill ==
  ASSUME HoldingInv, NEW size \in Int \ {0}, NEW price \in Nat, Increase(size, price)
  PROVE  FillIs(size, price)
<1> DEFINE e == OpenOrIncrease(entry, quantity, size, price)
           lots == entry.lots
           lot == [quantity |-> size, price |-> price]
           held == Abs(quantity)
           joins == Abs(size)
<1>1. /\ quantity \in Int \ {0} /\ Sign(size) = Sign(quantity)
      /\ Booked(size, price, quantity + size, e, 0)
  BY HeldNow DEF Increase, IsOpen
<1>2. /\ PaidOut(size) = 0 /\ Sign(quantity + size) = Sign(quantity)
      /\ Abs(quantity + size) = held + joins /\ quantity + size # 0
      /\ held \in Nat /\ joins \in Nat \ {0}
  BY <1>1 DEF Sign, Abs, PaidOut
<1>3. /\ e \in Entries
      /\ e.lots = Append(lots, lot)
      /\ e.avgPrice = (entry.avgPrice * held + price * joins) \div (held + joins)
  BY HeldNow, JoiningEntry
<1>4. lot \in Lots /\ lot.quantity = size /\ lot.price = price
  BY DEF Lots
<1>h. /\ lots \in Seq(Lots) /\ Total(Units(lots)) = held
      /\ Total(Costs(lots)) \in Nat /\ CostOf(lots, 0) = 0
      /\ \A i \in 1..Len(lots) : Sign(lots[i].quantity) = Sign(quantity)
  <2>1. held \in 0..held
    BY <1>2
  <2> QED BY <2>1, HeldNow DEF HoldingInv, LotsAreHeld
<1> HIDE DEF e, lot, lots, held
<1>5. /\ Total(Units(e.lots)) = held + joins
      /\ UnitPrices(e.lots) = [u \in 1..held + joins |->
           IF u <= held THEN UnitPrices(lots)[u] ELSE lot.price]
      /\ Total(Costs(e.lots)) = Total(Costs(lots)) + joins * lot.price
  BY <1>3, <1>4, <1>h, LotJoins
<1>6. \A i \in 1..Len(e.lots) : e.lots[i] = lot \/ \E j \in 1..Len(lots) : e.lots[i] = lots[j]
  BY <1>3, <1>h
<1> HIDE DEF joins
<1>7. EntryAfter(e, size, price)
  <2>1. UnitPrices(e.lots) = [u \in 1..held - 0 + (joins - 0) |->
          IF u <= held - 0 THEN UnitPrices(lots)[0 + u] ELSE price]
    BY <1>2, <1>4, <1>5
  <2>2. joins * price \in Nat /\ price * joins = joins * price
    <3>1. \A p, q \in Nat : p * q \in Nat /\ p * q = q * p
      OBVIOUS
    <3> QED BY <1>2, <3>1
  <2>3. Total(Costs(e.lots)) = Total(Costs(lots)) - 0 + (joins - 0) * price
    <3>1. joins - 0 = joins
      BY <1>2
    <3> QED BY <1>4, <1>5, <1>h, <2>2, <3>1
  <2>4. entry.avgPrice * held = Total(Costs(lots)) =>
          e.avgPrice = Total(Costs(e.lots)) \div (held + joins)
    BY <1>3, <1>4, <1>5, <1>h, <2>2
  <2>5. \A i \in 1..Len(e.lots) : Sign(e.lots[i].quantity) = Sign(quantity)
    BY <1>1, <1>4, <1>6, <1>h
  <2>6. \A i \in 1..Len(e.lots) :
          e.lots[i].price = price \/ \E j \in 1..Len(lots) : e.lots[i].price = lots[j].price
    BY <1>4, <1>6
  <2> QED BY <1>2, <1>3, <1>5, <1>h, <2>1, <2>3, <2>4, <2>5, <2>6
          DEF EntryAfter, lots, held, joins
<1>8. Earned(size, price) = 0
  <2>1. Sign(quantity) \in Int /\ price * 0 - 0 = 0
    BY DEF Sign
  <2> QED BY <1>2, <1>h, <2>1, PositionAssumption DEF Earned, PositionAssumption, lots
<1> QED
  BY <1>1, <1>7, <1>8 DEF FillIs

LEMMA RealisedIs ==
  ASSUME HoldingInv, quantity # 0, NEW closing \in 0..Abs(quantity), NEW exit \in Nat
  PROVE  Realised(closing, exit) =
           Multiplier * (Sign(quantity) * (exit * closing - CostOf(entry.lots, closing)))
<1> DEFINE lots == entry.lots
           perLot == [i \in DOMAIN lots |-> (exit - lots[i].price) * Sign(lots[i].quantity)
                                              * Taken(lots, closing, i)]
           gain == Sign(quantity) * (exit * closing - CostOf(lots, closing))
<1>1. /\ lots \in Seq(Lots) /\ Total(Units(lots)) = Abs(quantity) /\ entry.avgPrice \in Nat
      /\ Abs(quantity) \in Nat /\ CostOf(lots, closing) \in Nat /\ quantity \in Int
  BY HeldNow
<1>2. Sign(quantity) \in {-1, 1} /\ Sign(quantity) \in Int
  BY <1>1 DEF Sign
<1>3. \A i \in 1..Len(lots) : Sign(lots[i].quantity) = Sign(quantity)
  BY DEF HoldingInv, LotsAreHeld
<1>4. Total(perLot) = gain
  <2> DEFINE side == Sign(quantity)
  <2> HIDE DEF lots, side
  <2>1. closing \in 0..Total(Units(lots)) /\ side \in {-1, 1}
        /\ \A i \in 1..Len(lots) : Sign(lots[i].quantity) = side
    BY <1>1, <1>2, <1>3 DEF side
  <2>2. Total(perLot) = side * (exit * closing - CostOf(lots, closing))
    BY <1>1, <2>1, LotsEarn
  <2> QED BY <2>2 DEF side
<1>5. Min({closing, Total(Units(lots))}) = closing
  <2>1. closing \in Int /\ Abs(quantity) \in Int
    BY <1>1
  <2>2. Min({closing, Abs(quantity)}) = IF closing <= Abs(quantity) THEN closing ELSE Abs(quantity)
    BY <2>1, MinOfPair
  <2> QED BY <1>1, <2>2
<1>6. (exit - entry.avgPrice) * Sign(quantity) * (closing - closing) = 0
  <2>1. \A x \in Int : x * (closing - closing) = 0
    OBVIOUS
  <2>2. (exit - entry.avgPrice) * Sign(quantity) \in Int
    BY <1>1, <1>2
  <2> QED BY <2>1, <2>2
<1>7. gain \in Int
  <2>1. exit * closing - CostOf(lots, closing) \in Int
    BY <1>1
  <2> HIDE DEF lots
  <2> QED BY <1>2, <2>1
<1>8. Realised(closing, exit) =
        Multiplier * (Total(perLot)
          + (exit - entry.avgPrice) * Sign(quantity)
            * (closing - Min({closing, Total(Units(lots))})))
  BY DEF Realised
<1> HIDE DEF perLot, gain
<1>9. Realised(closing, exit) = Multiplier * gain
  BY <1>4, <1>5, <1>6, <1>7, <1>8
<1> QED
  BY <1>9 DEF gain, lots

LEMMA ReduceFill ==
  ASSUME HoldingInv, NEW size \in Int \ {0}, NEW price \in Nat, Reduce(size, price)
  PROVE  FillIs(size, price)
<1> DEFINE lots == entry.lots
           held == Abs(quantity)
           paid == Abs(size)
           left == LotsAfter(lots, paid)
           average == RemainingAvgPrice(left)
           e == [entry EXCEPT !.lots = left, !.avgPrice = average]
<1>1. /\ quantity \in Int \ {0} /\ Sign(size) # Sign(quantity) /\ paid < held
      /\ Booked(size, price, quantity + size, e, Realised(paid, price))
  BY HeldNow DEF Reduce, IsOpen
<1>2. /\ PaidOut(size) = paid /\ Sign(quantity + size) = Sign(quantity)
      /\ Abs(quantity + size) = held - paid /\ quantity + size # 0
      /\ held \in Nat /\ paid \in Nat \ {0} /\ held - paid \in Nat \ {0}
  BY <1>1 DEF Sign, Abs, PaidOut
<1>h. /\ lots \in Seq(Lots) /\ Total(Units(lots)) = held
      /\ \A i \in 1..Len(lots) : Sign(lots[i].quantity) = Sign(quantity)
      /\ Total(Costs(lots)) \in Int /\ CostOf(lots, paid) \in Int
  <2>1. held \in 0..held /\ paid \in 0..held
    BY <1>1, <1>2
  <2> QED BY <2>1, HeldNow DEF HoldingInv, LotsAreHeld
<1>g. Realised(paid, price) = Earned(size, price)
  <2>1. paid \in 0..Abs(quantity)
    BY <1>1, <1>2
  <2> HIDE DEF paid
  <2> QED BY <1>1, <1>2, <2>1, RealisedIs DEF Earned
<1> HIDE DEF lots, held, paid, left, average
<1>3. paid \in 0..Total(Units(lots))
  BY <1>1, <1>2, <1>h
<1>4. /\ left \in Seq(Lots)
      /\ \A j \in 1..Len(left) : \E i \in 1..Len(lots) :
           Sign(left[j].quantity) = Sign(lots[i].quantity) /\ left[j].price = lots[i].price
  BY <1>3, <1>h, LotsAfterAre DEF left
<1>5. /\ Total(Units(left)) = held - paid
      /\ UnitPrices(left) = [u \in 1..held - paid |-> UnitPrices(lots)[paid + u]]
      /\ Total(Costs(left)) = Total(Costs(lots)) - CostOf(lots, paid)
  BY <1>3, <1>h, UnitsLeave DEF left
<1>6. average = Total(Costs(left)) \div (held - paid) /\ average \in Nat
  <2>1. Total(Costs(left)) \in Nat
    <3>1. held - paid \in 0..Total(Units(left))
      BY <1>2, <1>5
    <3> QED BY <1>4, <1>5, <3>1, CostFacts
  <2>2. average = Total(Costs(left)) \div (held - paid)
    BY <1>2, <1>5 DEF average, RemainingAvgPrice
  <2> QED BY <1>2, <2>1, <2>2
<1>7. e \in Entries /\ e.lots = left /\ e.avgPrice = average
  <2>1. entry \in Entries
    BY HeldNow
  <2> QED BY <1>4, <1>6, <2>1 DEF Entries
<1> HIDE DEF e
<1>8. EntryAfter(e, size, price)
  <2>1. UnitPrices(left) = [u \in 1..held - paid + (paid - paid) |->
          IF u <= held - paid THEN UnitPrices(lots)[paid + u] ELSE price]
    BY <1>2, <1>5
  <2>2. Total(Costs(left)) = Total(Costs(lots)) - CostOf(lots, paid) + (paid - paid) * price
    <3>1. (paid - paid) * price = 0
      BY <1>2
    <3> QED BY <1>5, <1>h, <3>1
  <2>3. \A i \in 1..Len(left) : Sign(left[i].quantity) = Sign(quantity)
    BY <1>4, <1>h
  <2> QED BY <1>2, <1>4, <1>5, <1>6, <1>7, <2>1, <2>2, <2>3
          DEF EntryAfter, lots, held, paid
<1> QED
  BY <1>1, <1>8, <1>g DEF FillIs

(* A fill that closes everything leaves what it has over, or nothing.      *)
LEMMA CloseFill ==
  ASSUME HoldingInv, NEW size \in Int \ {0}, NEW price \in Nat, Close(size, price)
  PROVE  FillIs(size, price)
<1> DEFINE lots == entry.lots
           held == Abs(quantity)
           e == NoEntry
<1>1. /\ quantity \in Int \ {0} /\ size = -quantity
      /\ Booked(size, price, 0, e, Realised(held, price))
  BY HeldNow DEF Close, IsOpen, ResetEntry
<1>2. /\ PaidOut(size) = held /\ Abs(size) = held /\ quantity + size = 0
      /\ Sign(0) = 0 /\ Abs(0) = 0 /\ held \in Nat
  BY <1>1 DEF Sign, Abs, PaidOut
<1>3. e \in Entries /\ e.lots = <<>> /\ e.avgPrice = 0
  BY DEF NoEntry, Entries
<1>4. Total(Costs(lots)) = CostOf(lots, held) /\ CostOf(lots, held) \in Nat
  <2>1. held \in 0..held
    BY <1>2
  <2> QED BY <2>1, HeldNow
<1>g. Realised(held, price) = Earned(size, price)
  <2>1. held \in 0..Abs(quantity)
    BY <1>2
  <2> HIDE DEF held
  <2> QED BY <1>1, <1>2, <2>1, RealisedIs DEF Earned
<1> HIDE DEF lots, held, e
<1>5. EntryAfter(e, size, price)
  <2>1. UnitPrices(e.lots) = [u \in 1..held - held + (held - held) |->
          IF u <= held - held THEN UnitPrices(lots)[held + u] ELSE price]
    <3>1. 1..held - held + (held - held) = 1..0
      BY <1>2
    <3>2. \A u \in 1..0 : FALSE
      OBVIOUS
    <3> QED BY <1>3, <3>1, <3>2, NoLots
  <2>2. Total(Costs(e.lots)) = Total(Costs(lots)) - CostOf(lots, held) + (held - held) * price
    <3>1. (held - held) * price = 0
      BY <1>2
    <3> QED BY <1>3, <1>4, <3>1, NoLots
  <2>3. Len(e.lots) = 0 /\ Total(Units(e.lots)) = 0
    BY <1>3, NoLots
  <2> QED BY <1>2, <1>3, <2>1, <2>2, <2>3 DEF EntryAfter, lots, held
<1> QED
  BY <1>1, <1>2, <1>5, <1>g DEF FillIs

LEMMA FlipFill ==
  ASSUME HoldingInv, NEW size \in Int \ {0}, NEW price \in Nat, Flip(size, price)
  PROVE  FillIs(size, price)
<1> DEFINE lots == entry.lots
           held == Abs(quantity)
           over == quantity + size
           e == OpenOrIncrease(NoEntry, 0, over, price)
<1>1. /\ quantity \in Int \ {0} /\ Sign(size) # Sign(quantity) /\ Abs(size) > held
      /\ Booked(size, price, over, e, Realised(held, price))
  BY HeldNow DEF Flip, IsOpen, ResetEntry
<1>2. /\ PaidOut(size) = held /\ Abs(over) = Abs(size) - held /\ over \in Int \ {0}
      /\ Abs(size) \in Nat /\ held \in Nat
  BY <1>1 DEF Sign, Abs, PaidOut
<1>3. /\ e \in Entries
      /\ \A i \in 1..Len(e.lots) : Sign(e.lots[i].quantity) = Sign(over) /\ e.lots[i].price = price
      /\ Total(Units(e.lots)) = Abs(over)
      /\ UnitPrices(e.lots) = [u \in 1..Abs(over) |-> price]
      /\ Total(Costs(e.lots)) = Abs(over) * price
      /\ e.avgPrice = Total(Costs(e.lots)) \div Abs(over)
  <2> HIDE DEF over
  <2> QED BY <1>2, HeldNow, FreshEntry
<1>4. Total(Costs(lots)) = CostOf(lots, held) /\ CostOf(lots, held) \in Nat
  <2>1. held \in 0..held
    BY <1>2
  <2> QED BY <2>1, HeldNow
<1>g. Realised(held, price) = Earned(size, price)
  <2>1. held \in 0..Abs(quantity)
    BY <1>2
  <2> HIDE DEF held
  <2> QED BY <1>1, <1>2, <2>1, RealisedIs DEF Earned
<1> HIDE DEF lots, held, e
<1>5. EntryAfter(e, size, price)
  <2> DEFINE joins == Abs(size) - held
  <2>0. joins \in Nat /\ Abs(over) = joins /\ joins = Abs(size) - held
    BY <1>1, <1>2
  <2> HIDE DEF joins, over
  <2>1. UnitPrices(e.lots) = [u \in 1..held - held + joins |->
          IF u <= held - held THEN UnitPrices(lots)[held + u] ELSE price]
    BY <1>2, <1>3, <2>0
  <2>2. Total(Costs(e.lots)) = Total(Costs(lots)) - CostOf(lots, held) + joins * price
    <3>1. joins * price \in Nat
      BY <2>0
    <3> QED BY <1>3, <1>4, <2>0, <3>1
  <2> QED BY <1>2, <1>3, <2>0, <2>1, <2>2 DEF EntryAfter, lots, held, over
<1> QED
  BY <1>1, <1>5, <1>g DEF FillIs

-----------------------------------------------------------------------------
(* Every step keeps the holding. *)
LEMMA TrackType ==
  ASSUME NEW e \in Entries, NEW held, NEW price \in Nat
  PROVE  /\ TrackExcursion(e, held, price) \in Entries
         /\ TrackExcursion(e, held, price).lots = e.lots
         /\ TrackExcursion(e, held, price).avgPrice = e.avgPrice
<1>1. e.maxFavorable \in Nat /\ e.maxAdverse \in Nat
  BY DEF Entries
<1>2. /\ Max({e.maxFavorable, price}) \in Nat /\ Min({e.maxFavorable, price}) \in Nat
      /\ Max({e.maxAdverse, price}) \in Nat /\ Min({e.maxAdverse, price}) \in Nat
  BY <1>1, MaxOfPair, MinOfPair
<1> QED
  BY <1>2 DEF TrackExcursion, Entries

LEMMA BookedType ==
  ASSUME TypeOK, NEW size \in Int, NEW price \in Nat, NEW held \in Int,
         NEW e \in Entries, NEW realized \in Int, Booked(size, price, held, e, realized)
  PROVE  TypeOK' /\ entry'.lots = e.lots /\ entry'.avgPrice = e.avgPrice
<1>1. entry' \in Entries /\ entry'.lots = e.lots /\ entry'.avgPrice = e.avgPrice
  BY TrackType DEF Booked
<1>2. /\ quantity' = held /\ realizedPnl' = realizedPnl + realized
      /\ costsPaid' = costsPaid + FillCost /\ markPrice' = price
      /\ borrowCostPaid' = borrowCostPaid
      /\ now' = now + 1 /\ now < MaxEvents
  BY DEF Booked
<1>3. cash' \in Int
  <2>1. size * price * Multiplier \in Int
    BY PositionAssumption DEF PositionAssumption
  <2>2. cash' = cash - size * price * Multiplier - FillCost
    BY DEF Booked
  <2> QED BY <2>1, <2>2, PositionAssumption DEF TypeOK, PositionAssumption
<1>4. trip' \in [since : Nat, prints : SUBSET Nat]
  <2>1. trip' = IF held = 0 THEN NoTrip
                ELSE IF Sign(held) = Sign(quantity)
                THEN [trip EXCEPT !.prints = @ \cup {price}]
                ELSE [since |-> now + 1, prints |-> {price}]
    BY DEF Booked
  <2>2. trip \in [since : Nat, prints : SUBSET Nat] /\ now \in Nat
    BY PositionAssumption DEF TypeOK, PositionAssumption
  <2> QED BY <2>1, <2>2 DEF NoTrip
<1> QED
  BY <1>1, <1>2, <1>3, <1>4, PositionAssumption DEF TypeOK, PositionAssumption

(* What a fill changes in the books, but for the cash: what the paid units *)
(* earn, less what the units then held cost on their side.                 *)
BooksMove(s, price, cost, part) ==
  Multiplier * (Sign(quantity) * (price * PaidOut(s) - part))
  - Sign(quantity + s) * (cost - part + (Abs(s) - PaidOut(s)) * price) * Multiplier

LEMMA FillsAreAccounted ==
  ASSUME quantity \in Int, NEW s \in Int \ {0}, NEW price \in Nat,
         NEW cost \in Int, NEW part \in Int,
         PaidOut(s) = 0 => part = 0, PaidOut(s) = Abs(quantity) => part = cost
  PROVE  BooksMove(s, price, cost, part)
           = - Sign(quantity) * cost * Multiplier - s * price * Multiplier
<1> DEFINE q == quantity
           m == Multiplier
           paid == PaidOut(s)
<1>0. /\ q \in Int /\ m \in Nat /\ paid \in Nat
      /\ paid = IF Sign(s) # -Sign(q) THEN 0 ELSE IF Abs(s) <= Abs(q) THEN Abs(s) ELSE Abs(q)
      /\ paid = 0 => part = 0
      /\ paid = Abs(q) => part = cost
  BY PositionAssumption DEF PositionAssumption, PaidOut, Abs
<1>b. BooksMove(s, price, cost, part)
        = m * (Sign(q) * (price * paid - part))
          - Sign(q + s) * (cost - part + (Abs(s) - paid) * price) * m
  BY DEF BooksMove
<1> HIDE DEF q, m, paid
<1> DEFINE joins == Abs(s) - paid
           D == Sign(q) * (price * paid - part) - Sign(q + s) * (cost - part + joins * price)
                + Sign(q) * cost + s * price
<1>1. Sign(q) \in Int /\ Sign(q + s) \in Int /\ joins \in Int
  BY <1>0 DEF Sign, Abs
<1>2. D = 0
  <2>s. /\ Sign(q) = IF q > 0 THEN 1 ELSE IF q < 0 THEN -1 ELSE 0
        /\ Sign(s) = IF s > 0 THEN 1 ELSE -1
        /\ Sign(q + s) = IF q + s > 0 THEN 1 ELSE IF q + s < 0 THEN -1 ELSE 0
        /\ Abs(q) = IF q > 0 THEN q ELSE -q
        /\ Abs(s) = IF s > 0 THEN s ELSE -s
    BY <1>0 DEF Sign, Abs
  <2>d. ASSUME NEW a \in Int, NEW b \in Int, NEW j \in Int,
               Sign(q) = a, Sign(q + s) = b, joins = j,
               a * (price * paid - part) - b * (cost - part + j * price) + a * cost + s * price = 0
        PROVE  D = 0
    BY <1>0, <2>d
  <2> HIDE DEF D
  <2>1. CASE q = 0
    <3>1. paid = 0 /\ part = 0 /\ cost = 0
      BY <1>0, <2>1, <2>s
    <3>2. CASE s > 0
      <4>1. Sign(q) = 0 /\ Sign(q + s) = 1 /\ joins = s
        BY <2>1, <2>s, <3>1, <3>2
      <4>2. 0 * (price * paid - part) - 1 * (cost - part + s * price) + 0 * cost + s * price = 0
        BY <1>0, <3>1
      <4> QED BY <1>0, <2>d, <4>1, <4>2
    <3>3. CASE s < 0
      <4>1. Sign(q) = 0 /\ Sign(q + s) = -1 /\ joins = -s /\ -s \in Int
        BY <2>1, <2>s, <3>1, <3>3
      <4>2. 0 * (price * paid - part) - (-1) * (cost - part + (-s) * price) + 0 * cost + s * price = 0
        BY <1>0, <3>1
      <4> QED BY <1>0, <2>d, <4>1, <4>2
    <3> QED BY <3>2, <3>3
  <2>2. CASE q > 0
    <3>1. CASE s > 0
      <4>1. paid = 0
        BY <1>0, <2>s, <2>2, <3>1
      <4>2. Sign(q) = 1 /\ Sign(q + s) = 1 /\ joins = s /\ part = 0
        BY <1>0, <2>s, <2>2, <3>1, <4>1
      <4>3. (1) * (price * paid - part) - (1) * (cost - part + (s) * price)
              + (1) * cost + s * price = 0
        BY <1>0, <4>1, <4>2
      <4> QED BY <1>0, <2>d, <4>2, <4>3
    <3>2. CASE s < 0 /\ -s < q
      <4>1. paid = -s
        BY <1>0, <2>s, <2>2, <3>2
      <4>2. Sign(q) = 1 /\ Sign(q + s) = 1 /\ joins = 0
        BY <1>0, <2>s, <2>2, <3>2, <4>1
      <4>3. (1) * (price * paid - part) - (1) * (cost - part + (0) * price)
              + (1) * cost + s * price = 0
        BY <1>0, <4>1, <4>2
      <4> QED BY <1>0, <2>d, <4>2, <4>3
    <3>3. CASE s < 0 /\ -s = q
      <4>1. paid = q
        BY <1>0, <2>s, <2>2, <3>3
      <4>2. Sign(q) = 1 /\ Sign(q + s) = 0 /\ joins = 0 /\ part = cost /\ s = -q
        BY <1>0, <2>s, <2>2, <3>3, <4>1
      <4>3. (1) * (price * paid - part) - (0) * (cost - part + (0) * price)
              + (1) * cost + s * price = 0
        BY <1>0, <4>1, <4>2
      <4> QED BY <1>0, <2>d, <4>2, <4>3
    <3>4. CASE s < 0 /\ -s > q
      <4>1. paid = q
        BY <1>0, <2>s, <2>2, <3>4
      <4>2. Sign(q) = 1 /\ Sign(q + s) = -1 /\ joins = -s - q /\ part = cost
        BY <1>0, <2>s, <2>2, <3>4, <4>1
      <4>3. (1) * (price * paid - part) - (-1) * (cost - part + (-s - q) * price)
              + (1) * cost + s * price = 0
        BY <1>0, <4>1, <4>2
      <4> QED BY <1>0, <2>d, <4>2, <4>3
    <3> QED BY <1>0, <2>s, <2>2, <3>1, <3>2, <3>3, <3>4
  <2>3. CASE q < 0
    <3>1. CASE s < 0
      <4>1. paid = 0
        BY <1>0, <2>s, <2>3, <3>1
      <4>2. Sign(q) = -1 /\ Sign(q + s) = -1 /\ joins = -s /\ part = 0
        BY <1>0, <2>s, <2>3, <3>1, <4>1
      <4>3. (-1) * (price * paid - part) - (-1) * (cost - part + (-s) * price)
              + (-1) * cost + s * price = 0
        BY <1>0, <4>1, <4>2
      <4> QED BY <1>0, <2>d, <4>2, <4>3
    <3>2. CASE s > 0 /\ s < -q
      <4>1. paid = s
        <5>1. Sign(q) = -1 /\ Sign(s) = 1 /\ Abs(q) = -q /\ Abs(s) = s
          BY <1>0, <2>s, <2>3, <3>2
        <5>2. Sign(s) = -Sign(q)
          <6>1. \A x \in Int : x + 1 = 0 => -x = 1
            OBVIOUS
          <6>2. Sign(q) + 1 = 0
            BY <5>1
          <6>3. -Sign(q) = 1
            BY <1>1, <6>1, <6>2
          <6> QED BY <5>1, <6>3
        <5>3. paid = IF s <= -q THEN s ELSE -q
          BY <1>0, <5>1, <5>2
        <5> QED BY <1>0, <5>3, <3>2
      <4>2. Sign(q) = -1 /\ Sign(q + s) = -1 /\ joins = 0
        BY <1>0, <2>s, <2>3, <3>2, <4>1
      <4>3. (-1) * (price * paid - part) - (-1) * (cost - part + (0) * price)
              + (-1) * cost + s * price = 0
        BY <1>0, <4>1, <4>2
      <4> QED BY <1>0, <2>d, <4>2, <4>3
    <3>3. CASE s > 0 /\ s = -q
      <4>1. paid = s
        <5>1. Sign(q) = -1 /\ Sign(s) = 1 /\ Abs(q) = -q /\ Abs(s) = s
          BY <1>0, <2>s, <2>3, <3>3
        <5>2. Sign(s) = -Sign(q)
          <6>1. \A x \in Int : x + 1 = 0 => -x = 1
            OBVIOUS
          <6>2. Sign(q) + 1 = 0
            BY <5>1
          <6>3. -Sign(q) = 1
            BY <1>1, <6>1, <6>2
          <6> QED BY <5>1, <6>3
        <5>3. paid = IF s <= -q THEN s ELSE -q
          BY <1>0, <5>1, <5>2
        <5> QED BY <1>0, <5>3, <3>3
      <4>2. Sign(q) = -1 /\ Sign(q + s) = 0 /\ joins = 0 /\ part = cost
        BY <1>0, <2>s, <2>3, <3>3, <4>1
      <4>3. (-1) * (price * paid - part) - (0) * (cost - part + (0) * price)
              + (-1) * cost + s * price = 0
        BY <1>0, <4>1, <4>2
      <4> QED BY <1>0, <2>d, <4>2, <4>3
    <3>4. CASE s > 0 /\ s > -q
      <4>1. paid = -q
        <5>1. Sign(q) = -1 /\ Sign(s) = 1 /\ Abs(q) = -q /\ Abs(s) = s
          BY <1>0, <2>s, <2>3, <3>4
        <5>2. Sign(s) = -Sign(q)
          <6>1. \A x \in Int : x + 1 = 0 => -x = 1
            OBVIOUS
          <6>2. Sign(q) + 1 = 0
            BY <5>1
          <6>3. -Sign(q) = 1
            BY <1>1, <6>1, <6>2
          <6> QED BY <5>1, <6>3
        <5>3. paid = IF s <= -q THEN s ELSE -q
          BY <1>0, <5>1, <5>2
        <5> QED BY <1>0, <5>3, <3>4
      <4>2. Sign(q) = -1 /\ Sign(q + s) = 1 /\ joins = s + q /\ part = cost
        BY <1>0, <2>s, <2>3, <3>4, <4>1
      <4>3. (-1) * (price * paid - part) - (1) * (cost - part + (s + q) * price)
              + (-1) * cost + s * price = 0
        BY <1>0, <4>1, <4>2
      <4> QED BY <1>0, <2>d, <4>2, <4>3
    <3> QED BY <1>0, <2>s, <2>3, <3>1, <3>2, <3>3, <3>4
  <2> QED BY <1>0, <2>1, <2>2, <2>3
<1>3. \A a, b, x, y, z \in Int : a * x - b * y + a * cost + z = 0 =>
        m * (a * x) - b * y * m = - a * cost * m - z * m
  <2> SUFFICES ASSUME NEW a \in Int, NEW b \in Int, NEW x \in Int, NEW y \in Int, NEW z \in Int,
                      a * x - b * y + a * cost + z = 0
               PROVE  m * (a * x) - b * y * m = - a * cost * m - z * m
    OBVIOUS
  <2>1. m * (a * x - b * y + a * cost + z) = 0
    BY <1>0
  <2>2. m * (a * x - b * y + a * cost + z) = m * (a * x) - b * y * m + a * cost * m + z * m
    BY <1>0
  <2> QED BY <1>0, <2>1, <2>2
<1> DEFINE x == price * paid - part
           y == cost - part + joins * price
           z == s * price
<1>4. x \in Int /\ y \in Int /\ z \in Int
  BY <1>0, <1>1
<1> HIDE DEF joins
<1>5. m * (Sign(q) * x) - Sign(q + s) * y * m = - Sign(q) * cost * m - z * m
  <2>1. Sign(q) * x - Sign(q + s) * y + Sign(q) * cost + z = 0
    BY <1>2
  <2> DEFINE a == Sign(q)
             b == Sign(q + s)
  <2>2. a \in Int /\ b \in Int
    BY <1>1
  <2> HIDE DEF x, y, z, D, a, b
  <2>3. a * x - b * y + a * cost + z = 0
    BY <2>1 DEF a, b
  <2>4. m * (a * x) - b * y * m = - a * cost * m - z * m
    BY <1>0, <1>3, <1>4, <2>2, <2>3
  <2> QED BY <2>4 DEF a, b
<1> QED
  BY <1>b, <1>5 DEF joins, q, m

LEMMA SignTypes ==
  ASSUME NEW n \in Int
  PROVE  Sign(n) \in Int /\ Abs(n) \in Nat /\ n = Sign(n) * Abs(n)
BY DEF Sign, Abs

LEMMA FillIsOne ==
  ASSUME HoldingInv, NEW size \in Int \ {0}, NEW price \in Nat, ApplyFill(size, price)
  PROVE  FillIs(size, price)
BY OpenFill, IncreaseFill, ReduceFill, CloseFill, FlipFill DEF ApplyFill

(* The entry after a fill, as the state has it. *)
LEMMA FillStep ==
  ASSUME HoldingInv, NEW size \in Int \ {0}, NEW price \in Nat, FillIs(size, price)
  PROVE  /\ TypeOK'
         /\ EntryAfter(entry', size, price)
         /\ quantity' = quantity + size
         /\ realizedPnl' = realizedPnl + Earned(size, price) /\ Earned(size, price) \in Int
         /\ costsPaid' = costsPaid + FillCost
         /\ borrowCostPaid' = borrowCostPaid
         /\ cash' = cash - size * price * Multiplier - FillCost
         /\ PaidOut(size) \in 0..Abs(quantity) /\ PaidOut(size) <= Abs(size)
         /\ now' = now + 1
<1>1. PICK e : /\ EntryAfter(e, size, price)
               /\ Booked(size, price, quantity + size, e, Earned(size, price))
  BY DEF FillIs
<1>2. quantity \in Int /\ quantity + size \in Int /\ Abs(quantity) \in Nat /\ Abs(size) \in Nat
  BY HeldNow, SignTypes
<1>3. PaidOut(size) \in 0..Abs(quantity) /\ PaidOut(size) <= Abs(size)
  BY <1>2 DEF PaidOut
<1>4. Earned(size, price) \in Int
  <2>1. CostOf(entry.lots, PaidOut(size)) \in Nat
    BY <1>3, HeldNow
  <2>2. price * PaidOut(size) - CostOf(entry.lots, PaidOut(size)) \in Int
    BY <1>2, <1>3, <2>1
  <2>3. Sign(quantity) * (price * PaidOut(size) - CostOf(entry.lots, PaidOut(size))) \in Int
    BY <1>2, <2>2, SignTypes
  <2> QED BY <2>3, PositionAssumption DEF Earned, PositionAssumption
<1>5. e \in Entries
  BY <1>1 DEF EntryAfter
<1> DEFINE held == quantity + size
           realized == Earned(size, price)
<1>b. Booked(size, price, held, e, realized) /\ held \in Int /\ realized \in Int
  BY <1>1, <1>2, <1>4
<1> HIDE DEF held, realized
<1>6. TypeOK' /\ entry'.lots = e.lots /\ entry'.avgPrice = e.avgPrice
  <2>1. TypeOK
    BY DEF HoldingInv
  <2> QED BY <1>5, <1>b, <2>1, BookedType
<1>7. entry' \in Entries
  BY <1>6 DEF TypeOK
<1>8. EntryAfter(entry', size, price)
  BY <1>1, <1>6, <1>7 DEF EntryAfter
<1> QED
  BY <1>1, <1>3, <1>4, <1>6, <1>8 DEF Booked

LEMMA FillKeepsHolding ==
  ASSUME HoldingInv, NEW size \in Int \ {0}, NEW price \in Nat, FillIs(size, price)
  PROVE  HoldingInv'
<1> DEFINE lots == entry.lots
           paid == PaidOut(size)
           cost == Total(Costs(lots))
           part == CostOf(lots, paid)
           joins == Abs(size) - paid
           held == quantity + size
           now_ == Total(Costs(entry'.lots))
<1>1. /\ TypeOK'
      /\ EntryAfter(entry', size, price)
      /\ quantity' = held
      /\ realizedPnl' = realizedPnl + Multiplier * (Sign(quantity) * (price * paid - part))
      /\ costsPaid' = costsPaid + FillCost
      /\ borrowCostPaid' = borrowCostPaid
      /\ cash' = cash - size * price * Multiplier - FillCost
      /\ paid \in 0..Abs(quantity)
      /\ Multiplier * (Sign(quantity) * (price * paid - part)) \in Int
  BY FillStep DEF Earned
<1>2. /\ \A i \in 1..Len(entry'.lots) : Sign(entry'.lots[i].quantity) = Sign(held)
      /\ Total(Units(entry'.lots)) = Abs(held)
      /\ now_ = cost - part + joins * price
  BY <1>1 DEF EntryAfter
<1>3. LotsAreHeld'
  BY <1>1, <1>2 DEF LotsAreHeld
<1>4. /\ quantity \in Int /\ cost \in Nat /\ part \in Nat /\ paid \in Nat
      /\ paid = 0 => part = 0
      /\ paid = Abs(quantity) => part = cost
  <2>1. /\ quantity \in Int /\ Abs(quantity) \in Nat /\ cost = CostOf(lots, Abs(quantity))
        /\ \A n \in 0..Abs(quantity) : CostOf(lots, n) \in Nat
        /\ CostOf(lots, 0) = 0
    BY HeldNow
  <2>2. paid \in 0..Abs(quantity)
    BY <1>1
  <2> HIDE DEF lots, paid, cost
  <2>3. Abs(quantity) \in 0..Abs(quantity)
    BY <2>1
  <2>4. cost \in Nat /\ part \in Nat
    BY <2>1, <2>2, <2>3
  <2> QED BY <2>1, <2>2, <2>4
<1>6. Multiplier \in Nat /\ FillCost \in Nat
  BY PositionAssumption DEF PositionAssumption
<1>7. cash = realizedPnl - Sign(quantity) * cost * Multiplier - costsPaid - borrowCostPaid
  BY DEF HoldingInv, CashIsAccounted
<1>t. cash \in Int /\ realizedPnl \in Int /\ costsPaid \in Int /\ borrowCostPaid \in Int
  BY DEF HoldingInv, TypeOK
<1> HIDE DEF lots, paid, cost, part, now_
<1>8. Multiplier * (Sign(quantity) * (price * paid - part))
        - Sign(held) * (cost - part + joins * price) * Multiplier
        = - Sign(quantity) * cost * Multiplier - size * price * Multiplier
  <2>1. /\ size \in Int \ {0} /\ price \in Nat /\ cost \in Int /\ part \in Int
        /\ quantity \in Int /\ Multiplier \in Nat /\ paid \in Nat
        /\ paid = 0 => part = 0
        /\ paid = Abs(quantity) => part = cost
    BY <1>4, <1>6
  <2>2. BooksMove(size, price, cost, part)
          = - Sign(quantity) * cost * Multiplier - size * price * Multiplier
    BY <2>1, FillsAreAccounted DEF paid
  <2> QED BY <2>2 DEF BooksMove, paid
<1> DEFINE gain == Multiplier * (Sign(quantity) * (price * paid - part))
           worth == Sign(held) * (cost - part + joins * price) * Multiplier
           was == Sign(quantity) * cost * Multiplier
           spent == size * price * Multiplier
<1>9. gain \in Int /\ worth \in Int /\ was \in Int /\ spent \in Int
      /\ - Sign(quantity) * cost * Multiplier = 0 - was
  <2>1. Sign(quantity) \in Int /\ Sign(held) \in Int /\ Abs(size) \in Int
    BY <1>4, SignTypes
  <2>2. cost - part + joins * price \in Int
    BY <1>4, <2>1
  <2>3. \A x, y, z \in Int : x * y * z \in Int /\ - x * y * z = 0 - x * y * z
    OBVIOUS
  <2> QED BY <1>1, <1>4, <1>6, <2>1, <2>2, <2>3
<1>10. CashIsAccounted'
  <2>1. gain - worth = (0 - was) - spent
    BY <1>8, <1>9
  <2>2. /\ realizedPnl' = realizedPnl + gain /\ costsPaid' = costsPaid + FillCost
        /\ borrowCostPaid' = borrowCostPaid /\ cash' = cash - spent - FillCost
        /\ cash = realizedPnl - was - costsPaid - borrowCostPaid
    BY <1>1, <1>7
  <2>3. Sign(quantity') * Total(Costs(entry'.lots)) * Multiplier = worth
    BY <1>1, <1>2 DEF now_
  <2> HIDE DEF gain, worth, was, spent
  <2>4. cash' = realizedPnl' - worth - costsPaid' - borrowCostPaid'
    BY <1>6, <1>9, <1>t, <2>1, <2>2
  <2> QED BY <2>3, <2>4 DEF CashIsAccounted
<1> QED
  BY <1>1, <1>3, <1>10 DEF HoldingInv

LEMMA HoldingStart ==
  ASSUME Restored = {}, Init
  PROVE  HoldingInv
<1>1. TypeOK
  <2>1. NoEntry \in Entries
    BY DEF NoEntry, Entries
  <2>2. NoTrip \in [since : Nat, prints : SUBSET Nat]
    BY DEF NoTrip
  <2>3. quantity = 0 /\ entry = NoEntry /\ markPrice = 0 /\ cash = 0 /\ now = 0
        /\ realizedPnl = 0 /\ costsPaid = 0 /\ borrowCostPaid = 0 /\ trip = NoTrip
    BY DEF Init
  <2> QED BY <2>1, <2>2, <2>3, PositionAssumption DEF TypeOK, PositionAssumption
<1>2. entry.lots = <<>> /\ quantity = 0 /\ cash = 0 /\ realizedPnl = 0
      /\ costsPaid = 0 /\ borrowCostPaid = 0
  BY DEF Init, NoEntry
<1>3. Total(Units(entry.lots)) = 0 /\ Total(Costs(entry.lots)) = 0 /\ Len(entry.lots) = 0
  BY <1>2, NoLots
<1>4. Abs(0) = 0 /\ Sign(0) = 0
  BY DEF Abs, Sign
<1> QED
  BY <1>1, <1>2, <1>3, <1>4, PositionAssumption
  DEF HoldingInv, LotsAreHeld, CashIsAccounted, PositionAssumption

LEMMA MarkKeepsHolding ==
  ASSUME HoldingInv, NEW price \in Nat, Mark(price)
  PROVE  /\ HoldingInv' /\ quantity' = quantity /\ realizedPnl' = realizedPnl
         /\ entry'.lots = entry.lots /\ entry'.avgPrice = entry.avgPrice /\ now' = now + 1
<1>1. entry \in Entries /\ now \in Nat
  BY HeldNow
<1>2. entry' \in Entries /\ entry'.lots = entry.lots /\ entry'.avgPrice = entry.avgPrice
  <2>1. CASE ~IsOpen
    BY <1>1, <2>1 DEF Mark
  <2>2. CASE IsOpen /\ entry.openedAt = 0
    <3>1. entry' = [entry EXCEPT !.openedAt = now + 1, !.maxFavorable = price,
                                 !.maxAdverse = price]
      BY <2>2 DEF Mark
    <3>2. entry = [avgPrice |-> entry.avgPrice, openedAt |-> entry.openedAt,
                   lots |-> entry.lots, maxFavorable |-> entry.maxFavorable,
                   maxAdverse |-> entry.maxAdverse]
          /\ entry.avgPrice \in Nat /\ entry.lots \in Seq(Lots)
      BY <1>1 DEF Entries
    <3>3. entry' = [avgPrice |-> entry.avgPrice, openedAt |-> now + 1, lots |-> entry.lots,
                    maxFavorable |-> price, maxAdverse |-> price]
      BY <3>1, <3>2
    <3> QED BY <1>1, <3>2, <3>3 DEF Entries
  <2>3. CASE IsOpen /\ entry.openedAt # 0
    BY <1>1, <2>3, TrackType DEF Mark
  <2> QED BY <2>1, <2>2, <2>3
<1>3. /\ quantity' = quantity /\ realizedPnl' = realizedPnl /\ costsPaid' = costsPaid
      /\ borrowCostPaid' = borrowCostPaid /\ cash' = cash /\ markPrice' = price
      /\ now' = now + 1 /\ now < MaxEvents
  BY DEF Mark
<1>4. trip' \in [since : Nat, prints : SUBSET Nat]
  BY DEF Mark, HoldingInv, TypeOK
<1>5. TypeOK'
  BY <1>2, <1>3, <1>4, PositionAssumption DEF HoldingInv, TypeOK, PositionAssumption
<1>6. LotsAreHeld' /\ CashIsAccounted'
  BY <1>2, <1>3 DEF HoldingInv, LotsAreHeld, CashIsAccounted
<1> QED
  BY <1>2, <1>3, <1>5, <1>6 DEF HoldingInv

LEMMA AccrualKeepsHolding ==
  ASSUME HoldingInv, AccrueBorrow
  PROVE  /\ HoldingInv' /\ quantity' = quantity /\ realizedPnl' = realizedPnl
         /\ entry' = entry /\ now' = now + 1
<1>1. /\ quantity' = quantity /\ entry' = entry /\ realizedPnl' = realizedPnl
      /\ costsPaid' = costsPaid /\ markPrice' = markPrice /\ trip' = trip
      /\ now' = now + 1 /\ now < MaxEvents
      /\ borrowCostPaid' = borrowCostPaid + BorrowCharge
      /\ cash' = cash - BorrowCharge
  BY DEF AccrueBorrow
<1>2. BorrowCharge \in Nat
  <2>1. quantity \in Int /\ markPrice \in Nat /\ Multiplier \in Nat /\ BorrowRate \in Nat
    BY PositionAssumption DEF PositionAssumption, HoldingInv, TypeOK
  <2>2. quantity * markPrice * Multiplier \in Int
    BY <2>1
  <2>3. Abs(MarketValue) \in Nat
    BY <2>2, SignTypes DEF MarketValue
  <2>4. \A x, y \in Nat : x * y \in Nat
    OBVIOUS
  <2> QED BY <2>1, <2>3, <2>4 DEF BorrowCharge
<1>3. TypeOK'
  BY <1>1, <1>2, PositionAssumption DEF HoldingInv, TypeOK, PositionAssumption
<1>4. LotsAreHeld'
  BY <1>1 DEF HoldingInv, LotsAreHeld
<1>5. CashIsAccounted'
  <2> DEFINE was == Sign(quantity) * Total(Costs(entry.lots)) * Multiplier
             charge == BorrowCharge
  <2>1. cash = realizedPnl - was - costsPaid - borrowCostPaid
    BY DEF HoldingInv, CashIsAccounted
  <2>2. was \in Int
    <3>1. Total(Costs(entry.lots)) \in Int /\ Sign(quantity) \in Int /\ Multiplier \in Int
      <4>1. Abs(quantity) \in 0..Abs(quantity)
        BY HeldNow
      <4> QED BY <4>1, HeldNow, SignTypes, PositionAssumption DEF PositionAssumption
    <3> QED BY <3>1
  <2>3. cash \in Int /\ realizedPnl \in Int /\ costsPaid \in Int /\ borrowCostPaid \in Int
    BY DEF HoldingInv, TypeOK
  <2> HIDE DEF was, charge
  <2>4. cash' = realizedPnl' - was - costsPaid' - borrowCostPaid'
    BY <1>1, <1>2, <2>1, <2>2, <2>3 DEF charge
  <2>5. (Sign(quantity) * Total(Costs(entry.lots)) * Multiplier)' = was
    BY <1>1 DEF was
  <2> QED BY <2>4, <2>5 DEF CashIsAccounted
<1> QED
  BY <1>1, <1>3, <1>4, <1>5 DEF HoldingInv

-----------------------------------------------------------------------------
(* Where the price unit divides, the average is that of the lots.          *)
LEMMA CostsDivide ==
  ASSUME NEW lots \in Seq(Lots), NEW n \in Nat \ {0},
         \A i \in 1..Len(lots) : lots[i].price % n = 0
  PROVE  (Total(Costs(lots)) \div n) * n = Total(Costs(lots))
<1> DEFINE len == Len(lots)
           cost == Sums(Costs(lots))
           S == {i \in 0..len : \E k \in Int : cost[i] = k * n}
<1>1. /\ len \in Nat /\ Costs(lots) \in Seq(Int) /\ Len(Costs(lots)) = len
      /\ \A i \in 1..len : /\ lots[i].price \in Nat /\ Units(lots)[i] \in Nat
                           /\ Costs(lots)[i] = Units(lots)[i] * lots[i].price
  <2>1. len \in Nat /\ Costs(lots) \in Seq(Nat) /\ Len(Costs(lots)) = len
    BY LotsFacts
  <2>2. Costs(lots) \in Seq(Int)
    BY <2>1
  <2>3. \A i \in 1..len : /\ lots[i].price \in Nat /\ Units(lots)[i] \in Nat
                         /\ Costs(lots)[i] = Units(lots)[i] * lots[i].price
    BY LotsFacts
  <2> QED BY <2>1, <2>2, <2>3
<1>2. cost[0] = 0 /\ \A i \in 1..len : cost[i] = cost[i - 1] + Costs(lots)[i]
  BY <1>1, SumsDef
<1>3. Total(Costs(lots)) = cost[len]
  BY <1>1 DEF Total
<1> HIDE DEF len, cost
<1>4. 0 \in S
  BY <1>1, <1>2
<1>5. ASSUME NEW i \in 0..len - 1, i \in S
      PROVE  i + 1 \in S
  <2>1. PICK k \in Int : cost[i] = k * n
    BY <1>5
  <2>2. i + 1 \in 1..len /\ (i + 1) - 1 = i /\ i + 1 \in 0..len
    BY <1>1
  <2> DEFINE u == Units(lots)[i + 1]
             p == lots[i + 1].price
             d == p \div n
  <2>3. u \in Nat /\ p \in Nat /\ p % n = 0 /\ cost[i + 1] = cost[i] + u * p
    BY <1>1, <1>2, <2>2 DEF len
  <2> HIDE DEF u, p
  <2>4. p = d * n /\ d \in Int
    BY <2>3
  <2> HIDE DEF d
  <2>5. cost[i + 1] = (k + u * d) * n
    <3>1. u * (d * n) = (u * d) * n
      BY <2>3, <2>4
    <3>2. k * n + (u * d) * n = (k + u * d) * n
      BY <2>3, <2>4
    <3> QED BY <2>1, <2>3, <2>4, <3>1, <3>2
  <2>6. k + u * d \in Int
    BY <2>3, <2>4
  <2> QED BY <2>2, <2>5, <2>6
<1>6. len \in S
  <2> HIDE DEF S
  <2>1. 0..len \subseteq S
    BY <1>1, <1>4, <1>5, InductionUpTo
  <2> QED BY <1>1, <2>1
<1>7. PICK k \in Int : cost[len] = k * n
  BY <1>6
<1>8. (k * n) \div n = k
  OBVIOUS
<1> QED
  BY <1>3, <1>7, <1>8

AverageInv(largest) ==
  /\ Abs(quantity) <= now * largest
  /\ \A i \in 1..Len(entry.lots) : entry.lots[i].price \in Prices
  /\ entry.avgPrice * Abs(quantity) = Total(Costs(entry.lots))

LEMMA FillKeepsAverage ==
  ASSUME NEW largest \in Nat, WholeAverages(largest), HoldingInv, AverageInv(largest),
         NEW size \in Int \ {0}, NEW price \in Prices, Abs(size) <= largest,
         now < MaxEvents, FillIs(size, price)
  PROVE  AverageInv(largest)'
<1> DEFINE lots == entry.lots
           held == quantity + size
           left == entry'.lots
<1>p. price \in Nat /\ MaxEvents \in Nat
  BY PositionAssumption DEF PositionAssumption
<1>1. EntryAfter(entry', size, price) /\ quantity' = held /\ now' = now + 1
  BY <1>p, FillStep
<1>2. /\ left \in Seq(Lots) /\ Total(Units(left)) = Abs(held)
      /\ \A i \in 1..Len(left) :
           left[i].price = price \/ \E j \in 1..Len(lots) : left[i].price = lots[j].price
      /\ entry'.avgPrice = IF held = 0 THEN 0 ELSE Total(Costs(left)) \div Abs(held)
  <2>1. entry.avgPrice * Abs(quantity) = Total(Costs(lots))
    BY DEF AverageInv
  <2> QED BY <1>1, <2>1 DEF EntryAfter, Entries
<1>3. \A i \in 1..Len(left) : left[i].price \in Prices
  BY <1>2 DEF AverageInv
<1>4. quantity \in Int /\ now \in Nat /\ held \in Int /\ Abs(held) \in Nat
      /\ Abs(held) <= Abs(quantity) + Abs(size)
      /\ Abs(quantity) \in Nat /\ Abs(size) \in Nat
  BY HeldNow DEF Abs
<1>5. Abs(held) <= (now + 1) * largest
  <2>1. (now + 1) * largest = now * largest + largest /\ now * largest \in Nat
    BY <1>4
  <2> QED BY <1>4, <2>1 DEF AverageInv
<1> HIDE DEF held, left
<1>6. entry'.avgPrice * Abs(held) = Total(Costs(left))
  <2>1. CASE held = 0
    <3>1. Abs(held) = 0 /\ Total(Costs(left)) = CostOf(left, Total(Units(left)))
          /\ CostOf(left, 0) = 0
      BY <1>2, <2>1, CostFacts DEF Abs
    <3> QED BY <1>2, <2>1, <3>1
  <2>2. CASE held # 0
    <3>1. Abs(held) \in Nat \ {0}
      BY <1>4, <2>2 DEF Abs
    <3>2. Abs(held) \in 1..MaxEvents * largest
      <4>1. (now + 1) * largest <= MaxEvents * largest
        <5>1. \A x, y, z \in Nat : x <= y => x * z <= y * z
          OBVIOUS
        <5>2. now + 1 \in Nat /\ now + 1 <= MaxEvents
          BY <1>4, <1>p
        <5> QED BY <1>p, <5>1, <5>2
      <4>2. (now + 1) * largest \in Nat /\ MaxEvents * largest \in Nat
        BY <1>4, <1>p
      <4> QED BY <1>5, <3>1, <4>1, <4>2
    <3>3. \A i \in 1..Len(left) : left[i].price % Abs(held) = 0
      BY <1>3, <3>2 DEF WholeAverages
    <3> DEFINE n == Abs(held)
    <3>4. (Total(Costs(left)) \div n) * n = Total(Costs(left))
      <4> HIDE DEF n
      <4> QED BY <1>2, <3>1, <3>3, CostsDivide DEF n
    <3> QED BY <1>2, <2>2, <3>4
  <2> QED BY <2>1, <2>2
<1> QED
  BY <1>1, <1>3, <1>5, <1>6 DEF AverageInv, left

LEMMA NextKeepsHolding ==
  ASSUME HoldingInv, [Next]_vars
  PROVE  HoldingInv'
<1>1. CASE \E size \in Sizes, price \in Prices :
             ApplyFill(size, price) \/ ApplyFill(-size, price)
  <2>1. PICK size \in Sizes, price \in Prices :
          ApplyFill(size, price) \/ ApplyFill(-size, price)
    BY <1>1
  <2>2. size \in Int \ {0} /\ -size \in Int \ {0} /\ price \in Nat
    BY PositionAssumption DEF PositionAssumption
  <2> QED
    BY <2>1, <2>2, FillIsOne, FillKeepsHolding
<1>2. CASE \E price \in Prices : Mark(price)
  BY <1>2, MarkKeepsHolding, PositionAssumption DEF PositionAssumption
<1>3. CASE AccrueBorrow
  BY <1>3, AccrualKeepsHolding
<1>4. CASE UNCHANGED vars
  BY <1>4 DEF vars, state, HoldingInv, TypeOK, LotsAreHeld, CashIsAccounted
<1> QED
  BY <1>1, <1>2, <1>3, <1>4 DEF Next

LEMMA NextKeepsAverage ==
  ASSUME NEW largest \in Nat, WholeAverages(largest), HoldingInv, AverageInv(largest),
         [Next]_vars
  PROVE  AverageInv(largest)'
<1>1. CASE \E size \in Sizes, price \in Prices :
             ApplyFill(size, price) \/ ApplyFill(-size, price)
  <2>1. PICK size \in Sizes, price \in Prices :
          ApplyFill(size, price) \/ ApplyFill(-size, price)
    BY <1>1
  <2>2. /\ size \in Int \ {0} /\ -size \in Int \ {0} /\ price \in Nat
        /\ Abs(size) <= largest /\ Abs(-size) <= largest
    BY PositionAssumption DEF PositionAssumption, WholeAverages, Abs
  <2>3. now < MaxEvents
    BY <2>1 DEF ApplyFill, Open, Increase, Reduce, Close, Flip, Booked
  <2> QED
    BY <2>1, <2>2, <2>3, FillIsOne, FillKeepsAverage
<1>a. ASSUME quantity' = quantity, entry'.lots = entry.lots, entry'.avgPrice = entry.avgPrice,
             now' = now \/ now' = now + 1
      PROVE  AverageInv(largest)'
  <2>1. now * largest <= (now + 1) * largest /\ now * largest \in Int /\ (now + 1) * largest \in Int
        /\ Abs(quantity) \in Int
    <3>1. now \in Nat /\ Abs(quantity) \in Nat
      BY HeldNow
    <3>2. (now + 1) * largest = now * largest + largest /\ now * largest \in Nat
      BY <3>1
    <3> QED BY <3>1, <3>2
  <2>2. Abs(quantity) <= now' * largest
    BY <1>a, <2>1 DEF AverageInv
  <2> QED BY <1>a, <2>2 DEF AverageInv
<1>2. CASE \E price \in Prices : Mark(price)
  <2>1. PICK price \in Prices : Mark(price)
    BY <1>2
  <2>2. price \in Nat
    BY PositionAssumption DEF PositionAssumption
  <2> QED BY <1>a, <2>1, <2>2, MarkKeepsHolding
<1>3. CASE AccrueBorrow
  BY <1>3, <1>a, AccrualKeepsHolding
<1>4. CASE UNCHANGED vars
  BY <1>4, <1>a DEF vars, state
<1> QED
  BY <1>1, <1>2, <1>3, <1>4 DEF Next

LEMMA BooksFollow ==
  ASSUME NEW largest \in Nat, HoldingInv, AverageInv(largest)
  PROVE  BooksBalance
<1> DEFINE q == quantity
           avg == entry.avgPrice
           m == Multiplier
           cost == Total(Costs(entry.lots))
<1>1. LotsAreThePosition
  <2>1. DOMAIN entry.lots = 1..Len(entry.lots)
    BY HeldNow, LotsFacts
  <2> QED BY <2>1 DEF HoldingInv, LotsAreHeld, AverageInv, LotsAreThePosition
<1>2. /\ q \in Int /\ avg \in Nat /\ m \in Nat /\ markPrice \in Nat /\ cash \in Int
      /\ realizedPnl \in Int /\ costsPaid \in Int /\ borrowCostPaid \in Int
  BY HeldNow, PositionAssumption DEF HoldingInv, TypeOK, PositionAssumption
<1>3. /\ cash = realizedPnl - Sign(q) * cost * m - costsPaid - borrowCostPaid
      /\ cost = avg * Abs(q)
  BY DEF HoldingInv, CashIsAccounted, AverageInv
<1>4. /\ TotalPnl = realizedPnl + (markPrice - avg) * q * m - costsPaid - borrowCostPaid
      /\ MarketValue = q * markPrice * m
  BY DEF TotalPnl, UnrealizedPnl, MarketValue
<1>5. Sign(q) \in Int /\ Abs(q) \in Nat /\ q = Sign(q) * Abs(q)
  BY <1>2, SignTypes
<1> HIDE DEF q, avg, m, cost
<1> DEFINE worth == q * markPrice * m
           paid == avg * q * m
<1>6. worth \in Int /\ paid \in Int
  BY <1>2
<1>7. Sign(q) * cost * m = paid
  <2> DEFINE s == Sign(q)
             n == Abs(q)
  <2>1. s \in Int /\ n \in Nat /\ q = s * n /\ cost = avg * n
    BY <1>3, <1>5
  <2> HIDE DEF s, n, paid
  <2>2. s * (avg * n) * m = avg * (s * n) * m
    BY <1>2, <2>1
  <2> QED BY <2>1, <2>2 DEF paid, s
<1>8. (markPrice - avg) * q * m = worth - paid
  BY <1>2
<1>9. /\ TotalPnl = realizedPnl + (worth - paid) - costsPaid - borrowCostPaid
      /\ MarketValue = worth
      /\ cash = realizedPnl - paid - costsPaid - borrowCostPaid
  BY <1>3, <1>4, <1>7, <1>8
<1> HIDE DEF worth, paid
<1>10. PnlIsConserved
  BY <1>2, <1>6, <1>9 DEF PnlIsConserved
<1> QED
  BY <1>1, <1>10 DEF BooksBalance, HoldingInv

(* From fills alone, and in a price unit that the sizes divide, the books  *)
(* balance after every fill, mark and borrow charge: the lots are the      *)
(* position, the average is theirs, and total_pnl is the cash received     *)
(* plus what is held (apply_fill, total_pnl).                              *)
THEOREM BooksCorrect ==
  ASSUME Restored = {}, NEW largest \in Nat, WholeAverages(largest)
  PROVE  Spec => []BooksBalance
<1> DEFINE IInv == HoldingInv /\ AverageInv(largest)
<1>1. Init => IInv
  <2> SUFFICES ASSUME Init
               PROVE  IInv
    OBVIOUS
  <2>1. HoldingInv
    BY HoldingStart
  <2>2. AverageInv(largest)
    <3>1. quantity = 0 /\ entry.lots = <<>> /\ entry.avgPrice = 0 /\ now = 0
      BY DEF Init, NoEntry
    <3>2. Abs(0) = 0 /\ 0 * largest = 0
      BY DEF Abs
    <3> QED BY <3>1, <3>2, NoLots DEF AverageInv
  <2> QED BY <2>1, <2>2
<1>2. IInv /\ [Next]_vars => IInv'
  BY NextKeepsHolding, NextKeepsAverage
<1>3. IInv => BooksBalance
  BY BooksFollow
<1> HIDE DEF IInv
<1> QED
  BY <1>1, <1>2, <1>3, PTL DEF Spec

-----------------------------------------------------------------------------
(* Unit by unit, a fill is a trade of the ledger. *)
Gains(paid, price, n) ==
  CHOOSE g : g = [i \in 0..n |-> IF i = 0 THEN 0 ELSE g[i - 1] + (price - paid[i])]

LEMMA GainIs ==
  ASSUME NEW paid \in Seq(Int), NEW price \in Int, NEW n \in Nat, Len(paid) = n
  PROVE  Gains(paid, price, n)[n] = price * n - Sums(paid)[n]
<1> DEFINE gained == Gains(paid, price, n)
           a == [i \in 1..n |-> price - paid[i]]
           f == [i \in 0..n |-> price * i - gained[i]]
<1>1. PICK g : RunsOver(g, n, a)
  BY RunningSumExists
<1>2. g = [i \in 0..n |-> IF i = 0 THEN 0 ELSE g[i - 1] + (price - paid[i])]
  <2>1. \A i \in 0..n : (IF i = 0 THEN 0 ELSE g[i - 1] + a[i])
                        = (IF i = 0 THEN 0 ELSE g[i - 1] + (price - paid[i]))
    OBVIOUS
  <2> HIDE DEF a
  <2> QED BY <1>1, <2>1 DEF RunsOver
<1>3. gained = [i \in 0..n |-> IF i = 0 THEN 0 ELSE gained[i - 1] + (price - paid[i])]
  BY <1>2 DEF Gains
<1> HIDE DEF gained
<1>4. gained[0] = 0 /\ \A i \in 1..n : gained[i] = gained[i - 1] + (price - paid[i])
  BY <1>3
<1>5. \A i \in 1..n : paid[i] \in Int
  OBVIOUS
<1> DEFINE S == {i \in 0..n : gained[i] \in Int}
<1>6. 0..n \subseteq S
  <2>1. 0 \in S
    BY <1>4
  <2>2. ASSUME NEW i \in 0..n - 1, i \in S
        PROVE  i + 1 \in S
    <3>1. i + 1 \in 1..n /\ (i + 1) - 1 = i /\ i + 1 \in 0..n
      OBVIOUS
    <3>2. gained[i + 1] = gained[i] + (price - paid[i + 1]) /\ paid[i + 1] \in Int
          /\ gained[i] \in Int
      BY <1>4, <1>5, <2>2, <3>1
    <3> QED BY <3>1, <3>2
  <2> HIDE DEF S
  <2> QED BY <2>1, <2>2, InductionUpTo
<1>7. ASSUME NEW i \in 1..n
      PROVE  f[i] = f[i - 1] + paid[i]
  <2>1. i - 1 \in 0..n /\ i \in 0..n
    OBVIOUS
  <2>2. f[i] = price * i - gained[i] /\ f[i - 1] = price * (i - 1) - gained[i - 1]
    BY <2>1
  <2>3. gained[i] = gained[i - 1] + (price - paid[i]) /\ gained[i - 1] \in Int /\ paid[i] \in Int
    BY <1>4, <1>5, <1>6, <2>1
  <2>4. price * i = price * (i - 1) + price /\ price * (i - 1) \in Int
    OBVIOUS
  <2> DEFINE x == price * i
             y == price * (i - 1)
  <2> HIDE DEF f, x, y
  <2> QED BY <2>2, <2>3, <2>4 DEF x, y
<1>8. f[0] = 0 /\ f[n] = price * n - gained[n] /\ n \in 0..n /\ gained[n] \in Int
  BY <1>4, <1>6
<1> HIDE DEF f
<1>9. n \in 0..Len(paid)
  OBVIOUS
<1>10. \A i \in 0..n : Sums(paid)[i] = f[i]
  BY <1>7, <1>8, <1>9, SumsUnique
<1> QED
  BY <1>8, <1>10 DEF gained

LEMMA FillIsTrade ==
  ASSUME HoldingInv, NEW size \in Int \ {0}, NEW price \in Nat, FillIs(size, price)
  PROVE  Ledger!Trade(Sign(size), Abs(size), price)
<1> DEFINE lots == entry.lots
           U == UnitPrices(lots)
           side == Sign(quantity)
           held == Len(U)
           sz == Abs(size)
           c == IF Sign(size) # -side THEN 0 ELSE IF sz <= held THEN sz ELSE held
           paid == SubSeq(U, 1, c)
           kept == SubSeq(U, c + 1, held)
           joining == [i \in 1..(sz - c) |-> price]
           gained == Gains(paid, price, c)
<1>2. /\ U \in Seq(Nat) /\ held = Abs(quantity) /\ held \in Nat /\ sz \in Nat \ {0}
      /\ quantity \in Int /\ Sign(size) \in {-1, 1} /\ side \in {-1, 0, 1}
  <2>1. quantity \in Int /\ lots \in Seq(Lots) /\ Total(Units(lots)) = Abs(quantity)
        /\ Abs(quantity) \in Nat
    BY HeldNow
  <2>2. U \in Seq(Nat) /\ held = Abs(quantity)
    BY <2>1, UnitPricesFacts
  <2> QED BY <2>1, <2>2 DEF Sign, Abs
<1>3. c = PaidOut(size)
  BY <1>2 DEF PaidOut
<1>1. /\ EntryAfter(entry', size, price)
      /\ quantity' = quantity + size
      /\ realizedPnl' = realizedPnl + Multiplier * (side * (price * c - CostOf(lots, c)))
      /\ c \in 0..held /\ c <= sz
  BY <1>2, <1>3, FillStep DEF Earned
<1>4. Sign(quantity') = IF sz > c   THEN Sign(size)
                        ELSE IF held > sz THEN side
                        ELSE 0
  BY <1>1, <1>2, <1>3 DEF PaidOut, Sign, Abs
<1> HIDE DEF c
<1>5. realizedPnl' = realizedPnl + Multiplier * side * gained[c]
  <2>1. paid \in Seq(Int) /\ Len(paid) = c /\ \A i \in 1..c : paid[i] = U[i]
    <3>1. U \in Seq(Nat) /\ c \in Nat /\ c <= Len(U)
      BY <1>1, <1>2
    <3> HIDE DEF U, c
    <3> QED BY <3>1
  <2>2. Sums(paid)[c] = Sums(U)[c]
    <3>1. U \in Seq(Int) /\ c \in 0..Len(paid) /\ c <= Len(U) /\ c \in 0..c
      BY <1>1, <1>2, <2>1
    <3> HIDE DEF paid, U, c
    <3> QED BY <2>1, <3>1, SumsPrefix
  <2>3. gained[c] = price * c - Sums(paid)[c]
    <3>1. c \in Nat /\ price \in Int
      BY <1>1
    <3> DEFINE p == paid
               n == c
    <3>3. p \in Seq(Int) /\ Len(p) = n /\ n \in Nat
      BY <2>1, <3>1
    <3> HIDE DEF p, n
    <3>4. Gains(p, price, n)[n] = price * n - Sums(p)[n]
      BY <3>1, <3>3, GainIs
    <3> QED BY <3>4 DEF p, n
  <2>4. gained[c] = price * c - CostOf(lots, c)
    BY <2>2, <2>3 DEF CostOf
  <2>5. CostOf(lots, c) \in Nat
    BY <1>1, <1>2, HeldNow
  <2> DEFINE x == price * c - CostOf(lots, c)
  <2>6. x \in Int /\ Multiplier \in Int /\ side \in Int
    BY <1>1, <1>2, <2>5, PositionAssumption DEF PositionAssumption
  <2>7. \A y \in Int : Multiplier * (side * y) = Multiplier * side * y
    BY <2>6
  <2> HIDE DEF x, gained, side
  <2>8. Multiplier * (side * x) = Multiplier * side * gained[c]
    BY <2>4, <2>6, <2>7 DEF x
  <2> QED BY <1>1, <2>8 DEF x, side
<1>6. UnitPrices(entry'.lots) = kept \o joining
  <2> DEFINE stays == held - c
             joins == sz - c
  <2>1. UnitPrices(entry'.lots) = [u \in 1..stays + joins |->
          IF u <= stays THEN U[c + u] ELSE price]
    BY <1>1, <1>2, <1>3 DEF EntryAfter
  <2>2. stays \in Nat /\ joins \in Nat
    BY <1>1, <1>2
  <2>3. kept \in Seq(Nat) /\ Len(kept) = stays /\ \A u \in 1..stays : kept[u] = U[c + u]
    <3>1. U \in Seq(Nat) /\ c \in Nat /\ held \in Nat /\ c <= held /\ Len(U) = held
      BY <1>1, <1>2
    <3> HIDE DEF U, c, held
    <3>2. held \in Int /\ c + 1 \in Int /\ \A u \in c + 1..held : U[u] \in Nat
      BY <3>1
    <3>3. /\ kept \in Seq(Nat)
          /\ Len(kept) = IF c + 1 <= held THEN held - (c + 1) + 1 ELSE 0
          /\ \A i \in 1..held - (c + 1) + 1 : kept[i] = U[c + 1 + i - 1]
      BY <3>2, SubSeqProperties
    <3> HIDE DEF kept
    <3>4. stays \in Nat /\ Len(kept) = stays /\ held - (c + 1) + 1 = stays
      BY <3>1, <3>3
    <3>5. \A u \in 1..stays : c + 1 + u - 1 = c + u
      BY <3>1
    <3> QED BY <3>3, <3>4, <3>5
  <2>4. joining \in Seq(Nat) /\ Len(joining) = joins /\ \A u \in 1..joins : joining[u] = price
    <3>1. \A n \in Nat : /\ [i \in 1..n |-> price] \in Seq(Nat)
                         /\ Len([i \in 1..n |-> price]) = n
                         /\ \A u \in 1..n : [i \in 1..n |-> price][u] = price
      OBVIOUS
    <3>2. joining = [i \in 1..joins |-> price]
      OBVIOUS
    <3> HIDE DEF joins, joining
    <3> QED BY <2>2, <3>1, <3>2
  <2> HIDE DEF stays, joins, kept, joining
  <2>5. kept \o joining \in Seq(Nat) /\ Len(kept \o joining) = stays + joins
        /\ \A u \in 1..stays + joins :
             (kept \o joining)[u] = IF u <= stays THEN U[c + u] ELSE price
    <3>1. /\ kept \o joining \in Seq(Nat)
          /\ Len(kept \o joining) = Len(kept) + Len(joining)
          /\ \A i \in 1..Len(kept) + Len(joining) : (kept \o joining)[i] =
               IF i <= Len(kept) THEN kept[i] ELSE joining[i - Len(kept)]
      BY <2>3, <2>4, ConcatProperties
    <3> HIDE DEF U, c
    <3> QED BY <2>2, <2>3, <2>4, <3>1
  <2> DEFINE all == kept \o joining
  <2>6. /\ all \in Seq(Nat) /\ Len(all) = stays + joins
        /\ \A u \in 1..stays + joins : all[u] = IF u <= stays THEN U[c + u] ELSE price
    BY <2>5
  <2> HIDE DEF all, U, c
  <2>7. all = [u \in 1..stays + joins |-> IF u <= stays THEN U[c + u] ELSE price]
    <3>1. all = [u \in 1..stays + joins |-> all[u]]
      BY <2>6
    <3> QED BY <2>6, <3>1
  <2> QED BY <2>1, <2>7 DEF all
<1> QED
  BY <1>4, <1>5, <1>6 DEF Ledger!Trade, Gains, c

LEMMA StepRefines ==
  ASSUME HoldingInv, [Next]_vars
  PROVE  [Ledger!LedgerNext]_(Ledger!LedgerVars)
<1>u. ASSUME quantity' = quantity, entry'.lots = entry.lots, realizedPnl' = realizedPnl
      PROVE  [Ledger!LedgerNext]_(Ledger!LedgerVars)
  BY <1>u DEF Ledger!LedgerVars
<1>1. CASE \E size \in Sizes, price \in Prices :
             ApplyFill(size, price) \/ ApplyFill(-size, price)
  <2>1. PICK n \in Sizes, price \in Prices : ApplyFill(n, price) \/ ApplyFill(-n, price)
    BY <1>1
  <2>2. /\ n \in Int \ {0} /\ -n \in Int \ {0} /\ price \in Nat
        /\ Abs(n) = n /\ Abs(-n) = n /\ Sign(n) \in {-1, 1} /\ Sign(-n) \in {-1, 1}
    BY PositionAssumption DEF PositionAssumption, Abs, Sign
  <2>3. \/ Ledger!Trade(Sign(n), n, price)
        \/ Ledger!Trade(Sign(-n), n, price)
    <3>1. CASE ApplyFill(n, price)
      <4>1. Ledger!Trade(Sign(n), Abs(n), price)
        BY <2>2, <3>1, FillIsOne, FillIsTrade
      <4> QED BY <2>2, <4>1
    <3>2. CASE ApplyFill(-n, price)
      <4> DEFINE m == -n
      <4>1. m \in Int \ {0} /\ ApplyFill(m, price) /\ Abs(m) = n
        BY <2>2, <3>2
      <4> HIDE DEF m
      <4>2. Ledger!Trade(Sign(m), Abs(m), price)
        BY <2>2, <4>1, FillIsOne, FillIsTrade
      <4> QED BY <4>1, <4>2 DEF m
    <3> QED BY <2>1, <3>1, <3>2
  <2> QED BY <2>2, <2>3 DEF Ledger!LedgerNext
<1>2. CASE \E price \in Prices : Mark(price)
  BY <1>2, <1>u, MarkKeepsHolding, PositionAssumption DEF PositionAssumption
<1>3. CASE AccrueBorrow
  BY <1>3, <1>u, AccrualKeepsHolding
<1>4. CASE UNCHANGED vars
  BY <1>4, <1>u DEF vars, state
<1> QED
  BY <1>1, <1>2, <1>3, <1>4 DEF Next

(* From fills alone, matching lots first in first out is paying out the    *)
(* oldest units one by one: every step of the position is a trade of the   *)
(* ledger or leaves it alone, whatever the averages are (_realise).        *)
THEOREM LedgerImplemented ==
  ASSUME Restored = {}
  PROVE  Spec => ImplementsLedger
<1>1. Init => HoldingInv
  BY HoldingStart
<1>2. HoldingInv /\ [Next]_vars => HoldingInv'
  BY NextKeepsHolding
<1>3. Init => Ledger!LedgerInit
  <2> SUFFICES ASSUME Init
               PROVE  Ledger!LedgerInit
    OBVIOUS
  <2>1. quantity = 0 /\ realizedPnl = 0 /\ entry.lots = <<>> /\ Sign(0) = 0
    BY DEF Init, NoEntry, Sign
  <2>2. UnitPrices(<<>>) = <<>>
    BY NoLots
  <2> QED BY <2>1, <2>2 DEF Ledger!LedgerInit
<1>4. HoldingInv /\ [Next]_vars => [Ledger!LedgerNext]_(Ledger!LedgerVars)
  BY StepRefines
<1> QED
  BY <1>1, <1>2, <1>3, <1>4, PTL DEF Spec, ImplementsLedger, Ledger!LedgerSpec

-----------------------------------------------------------------------------
(* The excursions. *)

(* Of the entry only the shape and the fields the extremes rest on: what   *)
(* the lots and the average come to takes an induction over the lots.      *)
IsEntry(e) ==
  /\ e = [avgPrice |-> e.avgPrice, openedAt |-> e.openedAt, lots |-> e.lots,
          maxFavorable |-> e.maxFavorable, maxAdverse |-> e.maxAdverse]
  /\ e.openedAt \in Nat /\ e.maxFavorable \in Nat /\ e.maxAdverse \in Nat

IsTrip(t) ==
  /\ t = [since |-> t.since, prints |-> t.prints]
  /\ t.since \in Nat /\ t.prints \in SUBSET Nat

ExcursionInv ==
  /\ quantity \in Int /\ now \in Nat
  /\ IsEntry(entry) /\ IsTrip(trip)
  /\ ~IsOpen => entry.openedAt = 0
  /\ IsOpen  => entry.openedAt # 0
  /\ ExcursionsAreOfThisTrip

(* Folding one more print in keeps the extremes those of the prints.       *)
LEMMA TrackKeeps ==
  ASSUME NEW e, IsEntry(e), NEW held \in Int \ {0}, NEW price \in Nat,
         NEW prints \in SUBSET Nat, Brackets(e, held, prints)
  PROVE  LET t == TrackExcursion(e, held, price) IN
         /\ IsEntry(t) /\ t.openedAt = e.openedAt
         /\ Brackets(t, held, prints \cup {price})
<1> DEFINE t == TrackExcursion(e, held, price)
<1>1. /\ Max({e.maxFavorable, price}) =
           IF e.maxFavorable >= price THEN e.maxFavorable ELSE price
      /\ Min({e.maxFavorable, price}) =
           IF e.maxFavorable <= price THEN e.maxFavorable ELSE price
      /\ Max({e.maxAdverse, price}) =
           IF e.maxAdverse >= price THEN e.maxAdverse ELSE price
      /\ Min({e.maxAdverse, price}) =
           IF e.maxAdverse <= price THEN e.maxAdverse ELSE price
  BY MaxOfPair, MinOfPair DEF IsEntry
<1>2. t = [avgPrice |-> e.avgPrice, openedAt |-> e.openedAt, lots |-> e.lots,
           maxFavorable |-> IF held < 0 THEN Min({e.maxFavorable, price})
                                        ELSE Max({e.maxFavorable, price}),
           maxAdverse   |-> IF held < 0 THEN Max({e.maxAdverse, price})
                                        ELSE Min({e.maxAdverse, price})]
  BY DEF TrackExcursion, IsEntry
<1>3. IsEntry(t) /\ t.openedAt = e.openedAt
  BY <1>1, <1>2 DEF IsEntry
<1>4. Brackets(t, held, prints \cup {price})
  <2>1. CASE held > 0
    BY <1>1, <1>2, <2>1 DEF Brackets, IsEntry
  <2>2. CASE held < 0
    BY <1>1, <1>2, <2>2 DEF Brackets, IsEntry
  <2> QED
    BY <2>1, <2>2
<1> QED
  BY <1>3, <1>4

(* An entry that opens starts its trip; one that increases stays in it.    *)
LEMMA OpenOrIncreaseKeeps ==
  ASSUME NEW e, IsEntry(e), NEW held, NEW delta, NEW price \in Nat, now \in Nat
  PROVE  LET o == OpenOrIncrease(e, held, delta, price) IN
         /\ IsEntry(o)
         /\ e.openedAt = 0 => /\ o.openedAt = now + 1
                              /\ o.maxFavorable = price /\ o.maxAdverse = price
         /\ e.openedAt # 0 => /\ o.openedAt = e.openedAt
                              /\ o.maxFavorable = e.maxFavorable
                              /\ o.maxAdverse = e.maxAdverse
BY DEF OpenOrIncrease, IsEntry

(* New lots and a new average leave the rest of an entry alone.            *)
WithLots(e, lots, average) == [e EXCEPT !.lots = lots, !.avgPrice = average]

LEMMA WithLotsKeeps ==
  ASSUME NEW e, IsEntry(e), NEW lots, NEW average
  PROVE  /\ IsEntry(WithLots(e, lots, average))
         /\ WithLots(e, lots, average).openedAt = e.openedAt
         /\ WithLots(e, lots, average).maxFavorable = e.maxFavorable
         /\ WithLots(e, lots, average).maxAdverse = e.maxAdverse
<1> DEFINE w == WithLots(e, lots, average)
           r == [avgPrice |-> average, openedAt |-> e.openedAt, lots |-> lots,
                 maxFavorable |-> e.maxFavorable, maxAdverse |-> e.maxAdverse]
<1>1. DOMAIN e = {"avgPrice", "openedAt", "lots", "maxFavorable", "maxAdverse"}
  BY DEF IsEntry
<1>2. /\ w = [i \in DOMAIN e |-> w[i]]
      /\ w.lots = lots /\ w.avgPrice = average
      /\ w.openedAt = e.openedAt
      /\ w.maxFavorable = e.maxFavorable /\ w.maxAdverse = e.maxAdverse
  BY <1>1 DEF WithLots
<1> HIDE DEF w
<1>3. w = r
  BY <1>1, <1>2
<1> USE DEF w
<1> QED
  BY <1>2, <1>3 DEF IsEntry

(* A booking that leaves the position on its side stays in the trip, one   *)
(* that ends it flat has none, one that changes the side starts a new one. *)
LEMMA BookedInTrip ==
  ASSUME ExcursionInv, NEW size, NEW price \in Nat, NEW held \in Int, NEW e,
         NEW realized, Booked(size, price, held, e, realized),
         held # 0, Sign(held) = Sign(quantity),
         IsEntry(e), e.openedAt = entry.openedAt,
         e.maxFavorable = entry.maxFavorable, e.maxAdverse = entry.maxAdverse
  PROVE  ExcursionInv'
<1>1. IsOpen /\ (held > 0 <=> quantity > 0)
  BY DEF ExcursionInv, Sign, IsOpen
<1>2. Brackets(e, held, trip.prints)
  BY <1>1 DEF ExcursionInv, ExcursionsAreOfThisTrip, Brackets
<1>3. /\ IsEntry(TrackExcursion(e, held, price))
      /\ TrackExcursion(e, held, price).openedAt = e.openedAt
      /\ Brackets(TrackExcursion(e, held, price), held, trip.prints \cup {price})
  BY <1>2, TrackKeeps DEF ExcursionInv, IsTrip
<1>4. /\ quantity' = held /\ now' = now + 1
      /\ entry' = TrackExcursion(e, held, price)
  BY DEF Booked
<1>5. trip' = [trip EXCEPT !.prints = @ \cup {price}]
  BY DEF Booked
<1>6. IsTrip(trip)' /\ trip.since' = trip.since /\ trip.prints' = trip.prints \cup {price}
  BY <1>5 DEF ExcursionInv, IsTrip
<1> QED
  <2>1. IsEntry(entry)' /\ entry'.openedAt = entry.openedAt
    BY <1>3, <1>4
  <2>2. Brackets(entry, quantity, trip.prints)'
    BY <1>3, <1>4, <1>6 DEF Brackets
  <2> QED
    BY <1>1, <1>4, <1>6, <2>1, <2>2 DEF ExcursionInv, ExcursionsAreOfThisTrip, IsOpen

LEMMA BookedFlat ==
  ASSUME ExcursionInv, NEW size, NEW price, NEW realized,
         Booked(size, price, 0, NoEntry, realized)
  PROVE  ExcursionInv'
<1>1. quantity' = 0 /\ now' = now + 1 /\ entry' = NoEntry /\ trip' = NoTrip
  BY DEF Booked
<1> QED
  BY <1>1 DEF ExcursionInv, ExcursionsAreOfThisTrip, IsOpen, IsEntry, IsTrip, NoEntry, NoTrip

LEMMA BookedNewTrip ==
  ASSUME ExcursionInv, NEW size, NEW price \in Nat, NEW held \in Int, NEW realized,
         Booked(size, price, held, OpenOrIncrease(NoEntry, 0, held, price), realized),
         held # 0, Sign(held) # Sign(quantity)
  PROVE  ExcursionInv'
<1> DEFINE e == OpenOrIncrease(NoEntry, 0, held, price)
<1>1. now \in Nat /\ IsEntry(NoEntry) /\ NoEntry.openedAt = 0
  BY DEF ExcursionInv, IsEntry, NoEntry
<1>2. /\ IsEntry(e) /\ e.openedAt = now + 1
      /\ e.maxFavorable = price /\ e.maxAdverse = price
  BY <1>1, OpenOrIncreaseKeeps
<1>3. Brackets(e, held, {price})
  BY <1>2 DEF Brackets
<1> HIDE DEF e
<1>4. /\ IsEntry(TrackExcursion(e, held, price))
      /\ TrackExcursion(e, held, price).openedAt = e.openedAt
      /\ Brackets(TrackExcursion(e, held, price), held, {price} \cup {price})
  BY <1>2, <1>3, TrackKeeps
<1>5. /\ quantity' = held /\ now' = now + 1
      /\ entry' = TrackExcursion(e, held, price)
      /\ trip' = [since |-> now + 1, prints |-> {price}]
  BY DEF Booked, e
<1>6. {price} \cup {price} = {price}
  OBVIOUS
<1> QED
  BY <1>1, <1>2, <1>4, <1>5, <1>6
  DEF ExcursionInv, ExcursionsAreOfThisTrip, IsOpen, IsTrip, IsEntry, Brackets

-----------------------------------------------------------------------------
LEMMA InitExcursions == Restored = {} /\ Init => ExcursionInv
BY DEF Init, ExcursionInv, ExcursionsAreOfThisTrip, IsOpen, IsEntry, IsTrip, NoEntry, NoTrip

LEMMA FillKeeps ==
  ASSUME ExcursionInv, NEW size \in Int \ {0}, NEW price \in Nat,
         ApplyFill(size, price)
  PROVE  ExcursionInv'
<1>1. CASE Open(size, price)
  <2>1. Sign(size) # Sign(quantity)
    BY <1>1 DEF Open, IsOpen, Sign, ExcursionInv
  <2> QED
    BY <1>1, <2>1, BookedNewTrip DEF Open, ResetEntry
<1>2. CASE Increase(size, price)
  <2> DEFINE e == OpenOrIncrease(entry, quantity, size, price)
  <2>1. /\ quantity + size \in Int \ {0}
        /\ Sign(quantity + size) = Sign(quantity)
    BY <1>2 DEF Increase, IsOpen, Sign, ExcursionInv
  <2>2. /\ IsEntry(e) /\ e.openedAt = entry.openedAt
        /\ e.maxFavorable = entry.maxFavorable /\ e.maxAdverse = entry.maxAdverse
    BY <1>2, OpenOrIncreaseKeeps DEF Increase, ExcursionInv
  <2> HIDE DEF e
  <2>3. Booked(size, price, quantity + size, e, 0)
    BY <1>2 DEF Increase, e
  <2> QED
    BY <2>1, <2>2, <2>3, BookedInTrip
<1>3. CASE Reduce(size, price)
  <2> DEFINE lots    == LotsAfter(entry.lots, Abs(size))
             average == RemainingAvgPrice(lots)
             e       == WithLots(entry, lots, average)
             gain    == Realised(Abs(size), price)
  <2>1. /\ quantity + size \in Int \ {0}
        /\ Sign(quantity + size) = Sign(quantity)
    BY <1>3 DEF Reduce, IsOpen, Sign, Abs, ExcursionInv
  <2>2. Booked(size, price, quantity + size, e, gain)
    BY <1>3 DEF Reduce, WithLots
  <2> HIDE DEF lots, average, gain
  <2>3. IsEntry(entry)
    BY DEF ExcursionInv
  <2>4. /\ IsEntry(e) /\ e.openedAt = entry.openedAt
        /\ e.maxFavorable = entry.maxFavorable /\ e.maxAdverse = entry.maxAdverse
    BY <2>3, WithLotsKeeps
  <2> HIDE DEF e
  <2> QED
    BY <2>1, <2>2, <2>4, BookedInTrip
<1>4. CASE Close(size, price)
  BY <1>4, BookedFlat DEF Close, ResetEntry
<1>5. CASE Flip(size, price)
  <2>1. /\ quantity + size \in Int \ {0}
        /\ Sign(quantity + size) # Sign(quantity)
    BY <1>5 DEF Flip, IsOpen, Sign, Abs, ExcursionInv
  <2> QED
    BY <1>5, <2>1, BookedNewTrip DEF Flip, ResetEntry
<1> QED
  BY <1>1, <1>2, <1>3, <1>4, <1>5 DEF ApplyFill

LEMMA MarkKeeps ==
  ASSUME ExcursionInv, NEW price \in Nat, Mark(price)
  PROVE  ExcursionInv'
<1>1. quantity' = quantity /\ now' = now + 1
  BY DEF Mark
<1>2. CASE ~IsOpen
  BY <1>1, <1>2 DEF Mark, ExcursionInv, ExcursionsAreOfThisTrip, IsOpen, IsEntry, IsTrip
<1>3. CASE IsOpen
  <2>1. /\ IsEntry(TrackExcursion(entry, quantity, price))
        /\ TrackExcursion(entry, quantity, price).openedAt = entry.openedAt
        /\ Brackets(TrackExcursion(entry, quantity, price), quantity,
                    trip.prints \cup {price})
    BY <1>3, TrackKeeps DEF ExcursionInv, ExcursionsAreOfThisTrip, IsOpen, IsTrip
  <2>2. entry' = TrackExcursion(entry, quantity, price)
    BY <1>3 DEF Mark, ExcursionInv
  <2>3. IsTrip(trip)' /\ trip.since' = trip.since /\ trip.prints' = trip.prints \cup {price}
    BY <1>3 DEF Mark, ExcursionInv, IsTrip
  <2> QED
    BY <1>1, <1>3, <2>1, <2>2, <2>3 DEF ExcursionInv, ExcursionsAreOfThisTrip, IsOpen
<1> QED
  BY <1>2, <1>3

LEMMA NextKeeps ==
  ASSUME ExcursionInv, [Next]_vars
  PROVE  ExcursionInv'
<1> USE PositionAssumption
<1>1. CASE \E size \in Sizes, price \in Prices :
             ApplyFill(size, price) \/ ApplyFill(-size, price)
  <2>1. PICK size \in Sizes, price \in Prices :
          ApplyFill(size, price) \/ ApplyFill(-size, price)
    BY <1>1
  <2>2. size \in Int \ {0} /\ -size \in Int \ {0} /\ price \in Nat
    BY DEF PositionAssumption
  <2> QED
    BY <2>1, <2>2, FillKeeps
<1>2. CASE \E price \in Prices : Mark(price)
  BY <1>2, MarkKeeps DEF PositionAssumption
<1>3. CASE AccrueBorrow
  BY <1>3 DEF AccrueBorrow, ExcursionInv, ExcursionsAreOfThisTrip, IsOpen, IsEntry, IsTrip
<1>4. CASE UNCHANGED vars
  BY <1>4 DEF vars, state, ExcursionInv, ExcursionsAreOfThisTrip, IsOpen, IsEntry, IsTrip
<1> QED
  BY <1>1, <1>2, <1>3, <1>4 DEF Next

(* From fills alone, the entry instant and the extremes of an open         *)
(* position are always those of its own round trip, whatever it was        *)
(* before (position.py:254-268, 324-337).                                  *)
THEOREM ExcursionsCorrect ==
  ASSUME Restored = {}
  PROVE  Spec => []ExcursionsAreOfThisTrip
<1>1. Init => ExcursionInv
  BY InitExcursions
<1>2. ExcursionInv /\ [Next]_vars => ExcursionInv'
  BY NextKeeps
<1>3. ExcursionInv => ExcursionsAreOfThisTrip
  BY DEF ExcursionInv
<1> QED
  BY <1>1, <1>2, <1>3, PTL DEF Spec

(***************************************************************************)
(*                            THE BAR SERIES                               *)
(***************************************************************************)

(***************************************************************************)
(* Windows, over any memory.                                               *)
(***************************************************************************)
RowsIn(m, w) == [i \in 1..w.size |-> m[w.buf][w.lo + i]]

\* What a window shows, it shows in either memory.
SameRows(m, n, w) ==
  /\ Len(m[w.buf]) <= Len(n[w.buf])
  /\ \A i \in 1..w.size : n[w.buf][w.lo + i] = m[w.buf][w.lo + i]

\* A view: no room, and behind the bars of the window it was cut from.
ViewOf(v, w) ==
  /\ v \in Windows /\ v.buf = w.buf /\ v.size = v.capacity
  /\ w.lo <= v.lo /\ v.lo + v.size <= w.lo + w.size

LEMMA WindowFacts ==
  ASSUME NEW w \in Windows
  PROVE  w.buf \in Buffers /\ w.lo \in Nat /\ w.size \in Nat /\ w.capacity \in Nat
  BY DEF Windows

LEMMA RowsStay ==
  ASSUME NEW m \in [Buffers -> Seq(Nat)], NEW n \in [Buffers -> Seq(Nat)], NEW w, Whole(m, w), SameRows(m, n, w)
  PROVE  Whole(n, w) /\ RowsIn(n, w) = RowsIn(m, w)
<1>1. w \in Windows /\ Len(m[w.buf]) \in Nat /\ Len(n[w.buf]) \in Nat
  BY LenProperties, WindowFacts DEF Whole
<1>2. Whole(n, w)
  <2>1. w.size <= w.capacity /\ w.lo + w.capacity <= Len(n[w.buf])
    BY <1>1, WindowFacts DEF Whole, SameRows
  <2>2. \A i \in 1..w.size : n[w.buf][w.lo + i] \in Time
    BY DEF Whole, SameRows
  <2>3. \A i, j \in 1..w.size : i < j => n[w.buf][w.lo + i] <= n[w.buf][w.lo + j]
    BY Zenon DEF Whole, SameRows
  <2>. QED
    BY <1>1, <2>1, <2>2, <2>3 DEF Whole
<1>3. RowsIn(n, w) = RowsIn(m, w)
  BY DEF RowsIn, SameRows
<1>. QED
  BY <1>2, <1>3

LEMMA ViewIsWhole ==
  ASSUME NEW m \in [Buffers -> Seq(Nat)], NEW w, Whole(m, w), NEW v, ViewOf(v, w)
  PROVE  /\ Whole(m, v)
         /\ \A n : SameRows(m, n, w) => SameRows(m, n, v)
<1>1. w \in Windows /\ v \in Windows /\ v.buf = w.buf /\ Len(m[w.buf]) \in Nat
  BY LenProperties, WindowFacts DEF Whole, ViewOf
<1> DEFINE off == v.lo - w.lo
<1>2. off \in Nat /\ v.lo = w.lo + off /\ off + v.size <= w.size
  BY <1>1, WindowFacts DEF ViewOf
<1>3. v.size = v.capacity /\ v.lo + v.capacity <= Len(m[v.buf])
  BY <1>1, WindowFacts DEF ViewOf, Whole
<1> HIDE DEF off
<1>4. \A i \in 1..v.size : /\ off + i \in 1..w.size
                           /\ v.lo + i = w.lo + (off + i)
  BY <1>1, <1>2, WindowFacts
<1>5. \A i \in 1..v.size : m[v.buf][v.lo + i] \in Time
  BY <1>1, <1>4 DEF Whole
<1>6. \A i, j \in 1..v.size : i < j => m[v.buf][v.lo + i] <= m[v.buf][v.lo + j]
  <2> SUFFICES ASSUME NEW i \in 1..v.size, NEW j \in 1..v.size, i < j
               PROVE  m[v.buf][v.lo + i] <= m[v.buf][v.lo + j]
    OBVIOUS
  <2>1. off + i \in 1..w.size /\ off + j \in 1..w.size /\ off + i < off + j
    BY <1>2, <1>4, <1>1, WindowFacts
  <2>2. m[w.buf][w.lo + (off + i)] <= m[w.buf][w.lo + (off + j)]
    BY <2>1 DEF Whole
  <2>. QED
    BY <1>1, <1>4, <2>2
<1>7. ASSUME NEW n, SameRows(m, n, w)
      PROVE  SameRows(m, n, v)
  <2>1. \A i \in 1..v.size : n[w.buf][w.lo + (off + i)] = m[w.buf][w.lo + (off + i)]
    BY <1>4, <1>7 DEF SameRows
  <2>. QED
    BY <1>1, <1>4, <1>7, <2>1 DEF SameRows
<1>. QED
  BY <1>1, <1>3, <1>5, <1>6, <1>7, WindowFacts DEF Whole

(***************************************************************************)
(* Cutting.                                                                *)
(***************************************************************************)
LEMMA DownwardClosed ==
  ASSUME NEW n \in Nat, NEW A \in SUBSET (1..n), \A i \in A : \A j \in 1..i : j \in A
  PROVE  Cardinality(A) \in 0..n /\ A = 1..Cardinality(A)
<1> DEFINE out == {i \in Nat : i + 1 \notin A}
<1>1. out \in SUBSET Nat /\ n \in out
  OBVIOUS
<1>2. PICK k \in out : \A i \in out : k <= i
  BY <1>1, Least
<1>3. k \in 0..n /\ A = 1..k
  <2>1. k <= n
    BY <1>1, <1>2
  <2>2. \A i \in 1..k : i \in A
    <3> SUFFICES ASSUME NEW i \in 1..k PROVE i \in A
      OBVIOUS
    <3>1. i - 1 \in Nat /\ ~(k <= i - 1) /\ (i - 1) + 1 = i
      BY <1>2
    <3>. QED
      BY <1>2, <3>1
  <2>3. \A i \in A : i <= k
    <3> SUFFICES ASSUME NEW i \in A, ~(i <= k) PROVE FALSE
      OBVIOUS
    <3>1. k + 1 \in 1..i
      BY <1>2
    <3>. QED
      BY <1>2, <3>1
  <2>4. k \in Nat /\ \A i \in A : i \in Nat /\ i >= 1
    BY <1>1, <1>2
  <2>5. k \in 0..n
    BY <2>1, <2>4
  <2>6. \A i : i \in A <=> i \in 1..k
    <3> SUFFICES ASSUME NEW i PROVE i \in A <=> i \in 1..k
      OBVIOUS
    <3>1. i \in A => i \in Int /\ 1 <= i /\ i <= k
      BY <2>3, <2>4
    <3>. QED
      BY <2>2, <2>4, <3>1
  <2>. QED
    BY <2>5, <2>6
<1>4. Cardinality(1..k) = k
  BY <1>3, FS_Interval
<1>. QED
  BY <1>3, <1>4

\* Where the search stops: the bars before from, and those up to to.
LEMMA Found ==
  ASSUME NEW w, Whole(memory, w), memory \in [Buffers -> Seq(Nat)], NEW t \in Nat, Time \subseteq Nat
  PROVE  /\ FoundLeft(w, t) \in 0..w.size /\ FoundRight(w, t) \in 0..w.size
         /\ \A i \in 1..w.size : (Row(w, i) < t <=> i <= FoundLeft(w, t))
                                 /\ (Row(w, i) <= t <=> i <= FoundRight(w, t))
<1> DEFINE A == {i \in 1..w.size : Row(w, i) < t}
           B == {i \in 1..w.size : Row(w, i) <= t}
<1>1. w.size \in Nat
  BY WindowFacts DEF Whole
<1>2. /\ \A i \in 1..w.size : Row(w, i) \in Nat
      /\ \A i, j \in 1..w.size : i < j => Row(w, i) <= Row(w, j)
  BY DEF Whole, Row
<1>3. \A i \in 1..w.size : \A j \in 1..i : j \in 1..w.size /\ Row(w, j) <= Row(w, i)
  <2> SUFFICES ASSUME NEW i \in 1..w.size, NEW j \in 1..i
               PROVE  j \in 1..w.size /\ Row(w, j) <= Row(w, i)
    OBVIOUS
  <2>1. j \in 1..w.size /\ (j = i \/ j < i)
    BY <1>1
  <2>. QED
    BY <1>2, <2>1
<1>4. \A i \in A : \A j \in 1..i : j \in A
  BY <1>2, <1>3
<1>5. \A i \in B : \A j \in 1..i : j \in B
  BY <1>2, <1>3
<1>6. A \in SUBSET (1..w.size) /\ B \in SUBSET (1..w.size)
  OBVIOUS
<1>7. FoundLeft(w, t) = Cardinality(A) /\ FoundRight(w, t) = Cardinality(B)
  BY DEF FoundLeft, FoundRight
<1>8. /\ Cardinality(A) \in 0..w.size /\ A = 1..Cardinality(A)
      /\ Cardinality(B) \in 0..w.size /\ B = 1..Cardinality(B)
  <2> HIDE DEF A, B
  <2>. QED
    BY <1>1, <1>4, <1>5, <1>6, DownwardClosed
<1>9. \A i \in 1..w.size : /\ i \in A <=> i <= Cardinality(A)
                           /\ i \in B <=> i <= Cardinality(B)
  <2> HIDE DEF A, B
  <2>. QED
    BY <1>1, <1>8
<1>10. \A i \in 1..w.size : (Row(w, i) < t <=> i \in A) /\ (Row(w, i) <= t <=> i \in B)
  OBVIOUS
<1> HIDE DEF A, B
<1>. QED
  BY <1>7, <1>8, <1>9, <1>10

(***************************************************************************)
(* What a window shows is a sequence of bars; of a view, a stretch of it.  *)
(***************************************************************************)
LEMMA RowsAreBars ==
  ASSUME NEW m, NEW w, Whole(m, w)
  PROVE  /\ RowsIn(m, w) \in Seq(Nat) /\ Len(RowsIn(m, w)) = w.size
         /\ \A i \in 1..w.size : RowsIn(m, w)[i] = m[w.buf][w.lo + i]
         /\ RowsIn(m, w) # NoSeries
<1>1. w.size \in Nat
  BY WindowFacts DEF Whole
<1>2. \A i \in 1..w.size : m[w.buf][w.lo + i] \in Nat
  BY BarSeriesAssumption DEF Whole
<1>3. RowsIn(m, w) \in [1..w.size -> Nat]
  BY <1>2 DEF RowsIn
<1>4. RowsIn(m, w) \in Seq(Nat) /\ Len(RowsIn(m, w)) = w.size
  BY <1>1, <1>3
<1>5. \A i \in 1..w.size : RowsIn(m, w)[i] = m[w.buf][w.lo + i]
  BY DEF RowsIn
<1>6. NoSeries \notin Seq(Nat)
  BY BarSeriesAssumption
<1>. QED
  BY <1>4, <1>5, <1>6

LEMMA WindowIsView ==
  ASSUME NEW m \in [Buffers -> Seq(Nat)], NEW w, Whole(m, w),
         NEW lo \in 0..w.size, NEW hi \in 0..w.size
  PROVE  ViewOf(Window(w, lo, hi), w)
<1>1. /\ w \in Windows /\ w.buf \in Buffers /\ w.lo \in Nat /\ w.size \in Nat
  BY WindowFacts DEF Whole
<1> DEFINE size == IF hi < lo THEN 0 ELSE hi - lo
<1>2. size \in Nat /\ lo + size <= w.size /\ w.lo + lo \in Nat
  BY <1>1
<1>3. Window(w, lo, hi) = [buf |-> w.buf, lo |-> w.lo + lo, size |-> size, capacity |-> size]
  BY DEF Window, Adopt
<1> HIDE DEF size
<1>4. Window(w, lo, hi) \in Windows
  BY <1>1, <1>2, <1>3 DEF Windows
<1>. QED
  BY <1>1, <1>2, <1>3, <1>4 DEF ViewOf

LEMMA WindowIsStretch ==
  ASSUME NEW m \in [Buffers -> Seq(Nat)], NEW w, Whole(m, w),
         NEW lo \in 0..w.size, NEW hi \in 0..w.size
  PROVE  RowsIn(m, Window(w, lo, hi)) = SubSeq(RowsIn(m, w), lo + 1, hi)
<1> DEFINE v == Window(w, lo, hi)
           size == IF hi < lo THEN 0 ELSE hi - lo
           r == RowsIn(m, w)
           cut == SubSeq(r, lo + 1, hi)
<1>1. /\ w \in Windows /\ w.buf \in Buffers /\ w.lo \in Nat /\ w.size \in Nat
  BY WindowFacts DEF Whole
<1>2. v.buf = w.buf /\ v.lo = w.lo + lo /\ v.size = size
  BY DEF Window, Adopt
<1>3. r \in Seq(Nat) /\ Len(r) = w.size /\ \A i \in 1..w.size : r[i] = m[w.buf][w.lo + i]
  BY RowsAreBars
<1>4. lo + 1 \in 1..Len(r) + 1 /\ hi \in 0..Len(r)
  BY <1>1, <1>3
<1>5. /\ cut \in Seq(Nat) /\ Len(cut) = IF lo + 1 <= hi THEN hi - (lo + 1) + 1 ELSE 0
      /\ \A i \in 1..hi - (lo + 1) + 1 : cut[i] = r[lo + 1 + i - 1]
  <2> HIDE DEF r
  <2>1. lo + 1 \in Int /\ hi \in Int /\ \A i \in (lo + 1)..hi : i \in 1..Len(r)
    BY <1>1, <1>3
  <2>2. \A i \in (lo + 1)..hi : r[i] \in Nat
    BY <1>3, <2>1, ElementOfSeq
  <2>. QED
    BY <2>1, <2>2, SubSeqProperties
<1>6. ViewOf(v, w)
  BY WindowIsView
<1>7. Whole(m, v)
  <2> HIDE DEF v
  <2>. QED
    BY <1>6, ViewIsWhole
<1>8. /\ RowsIn(m, v) \in Seq(Nat) /\ Len(RowsIn(m, v)) = size
      /\ \A i \in 1..size : RowsIn(m, v)[i] = m[w.buf][w.lo + lo + i]
  <2> HIDE DEF v, size
  <2>1. /\ RowsIn(m, v) \in Seq(Nat) /\ Len(RowsIn(m, v)) = v.size
        /\ \A i \in 1..v.size : RowsIn(m, v)[i] = m[v.buf][v.lo + i]
    BY <1>7, RowsAreBars
  <2>2. RowsIn(m, v) \in Seq(Nat) /\ Len(RowsIn(m, v)) = size
    BY <1>2, <2>1
  <2>3. \A i \in 1..size : RowsIn(m, v)[i] = m[w.buf][w.lo + lo + i]
    BY <1>2, <2>1, Zenon
  <2>. QED
    BY <2>2, <2>3
<1>9. Len(cut) = size
  BY <1>1, <1>5
<1>10. \A i \in 1..size : cut[i] = m[w.buf][w.lo + lo + i]
  <2> SUFFICES ASSUME NEW i \in 1..size PROVE cut[i] = m[w.buf][w.lo + lo + i]
    OBVIOUS
  <2>1. /\ i \in 1..hi - (lo + 1) + 1 /\ lo + i \in 1..w.size /\ lo + 1 + i - 1 = lo + i
        /\ w.lo + (lo + i) = w.lo + lo + i
    BY <1>1
  <2> HIDE DEF cut, r, size
  <2>. QED
    BY <1>3, <1>5, <2>1
<1> HIDE DEF cut, size, r, v
<1>11. RowsIn(m, v) = cut
  <2> DEFINE q == RowsIn(m, v)
  <2>1. size = Len(q) /\ size = Len(cut) /\ q \in Seq(Nat) /\ cut \in Seq(Nat)
    BY <1>5, <1>8, <1>9
  <2>2. \A i \in 1..size : q[i] = cut[i]
    BY <1>8, <1>10
  <2> HIDE DEF q
  <2>3. Len(q) = Len(cut) /\ \A i \in 1..Len(q) : q[i] = cut[i]
    BY <2>1, <2>2
  <2>4. q = cut
    BY <2>1, <2>3, SeqEqual
  <2>. QED
    BY <2>4 DEF q
<1>. QED
  BY <1>11 DEF cut, r, v

LEMMA TailFrom ==
  ASSUME NEW w, w.size \in Nat, NEW n \in Int
  PROVE  \E lo \in 0..w.size :
            TailOf(w, n) = Window(w, lo, w.size) /\ (n \in 0..w.size => lo = w.size - n)
<1> DEFINE lo == Larger(w.size - Larger(n, 0), 0)
<1>1. lo \in 0..w.size /\ (n \in 0..w.size => lo = w.size - n)
  BY DEF Larger
<1>2. TailOf(w, n) = Window(w, lo, w.size)
  BY DEF TailOf
<1> HIDE DEF lo
<1>. QED
  BY <1>1, <1>2

\* A tail is a view, and its bars are the last.
LEMMA TailIsLast ==
  ASSUME memory \in [Buffers -> Seq(Nat)], NEW w, Whole(memory, w), NEW n \in Int
  PROVE  /\ ViewOf(TailOf(w, n), w)
         /\ \E k \in 0..w.size :
              /\ RowsIn(memory, TailOf(w, n)) = SubSeq(RowsIn(memory, w), w.size - k + 1, w.size)
              /\ n \in 0..w.size => k = n
<1>1. w.size \in Nat
  BY WindowFacts DEF Whole
<1>2. PICK lo \in 0..w.size : TailOf(w, n) = Window(w, lo, w.size) /\ (n \in 0..w.size => lo = w.size - n)
  BY <1>1, TailFrom
<1>3. w.size \in 0..w.size
  BY <1>1
<1>4. ViewOf(Window(w, lo, w.size), w)
  BY <1>3, WindowIsView
<1>5. RowsIn(memory, Window(w, lo, w.size)) = SubSeq(RowsIn(memory, w), lo + 1, w.size)
  BY <1>3, WindowIsStretch
<1> DEFINE k == w.size - lo
<1>6. k \in 0..w.size /\ w.size - k + 1 = lo + 1 /\ (n \in 0..w.size => k = n)
  BY <1>1, <1>2
<1>7. RowsIn(memory, TailOf(w, n)) = SubSeq(RowsIn(memory, w), w.size - k + 1, w.size)
  BY <1>2, <1>5, <1>6
<1> HIDE DEF k
<1>8. \E kk \in 0..w.size :
        /\ RowsIn(memory, TailOf(w, n)) = SubSeq(RowsIn(memory, w), w.size - kk + 1, w.size)
        /\ n \in 0..w.size => kk = n
  BY <1>6, <1>7
<1>. QED
  BY <1>2, <1>4, <1>8

\* A slice is a view, and its bars are those of the closed interval.
LEMMA SliceIsCut ==
  ASSUME memory \in [Buffers -> Seq(Nat)], NEW w, Whole(memory, w),
         NEW from \in Time, NEW to \in Time
  PROVE  /\ ViewOf(Slice(w, from, to), w)
         /\ RowsIn(memory, Slice(w, from, to)) \in Values!Cuts(RowsIn(memory, w), from, to)
<1> DEFINE L == FoundLeft(w, from)
           H == FoundRight(w, to)
           v == RowsIn(memory, w)
           inside == {i \in 1..Len(v) : from <= v[i] /\ v[i] <= to}
           ends == {e \in (1..Len(v) + 1) \X (0..Len(v)) : e[1]..e[2] = inside}
<1>1. w.size \in Nat
  BY WindowFacts DEF Whole
<1>2. Time \subseteq Nat /\ from \in Nat /\ to \in Nat
  BY BarSeriesAssumption
<1>3. /\ L \in 0..w.size /\ H \in 0..w.size
      /\ \A i \in 1..w.size : (Row(w, i) < from <=> i <= L) /\ (Row(w, i) <= to <=> i <= H)
  <2>1. /\ L \in 0..w.size
        /\ \A i \in 1..w.size : Row(w, i) < from <=> i <= L
    BY <1>2, Found
  <2>2. /\ H \in 0..w.size
        /\ \A i \in 1..w.size : Row(w, i) <= to <=> i <= H
    BY <1>2, Found
  <2> HIDE DEF L, H
  <2>. QED
    BY <2>1, <2>2
<1>4. Len(v) = w.size /\ \A i \in 1..w.size : v[i] = Row(w, i) /\ v[i] \in Nat
  <2>1. v \in Seq(Nat) /\ Len(v) = w.size /\ \A i \in 1..w.size : v[i] = memory[w.buf][w.lo + i]
    BY RowsAreBars
  <2> HIDE DEF v
  <2>. QED
    BY <2>1 DEF Row
<1>5. Slice(w, from, to) = Window(w, L, H)
  BY DEF Slice
<1> HIDE DEF L, H
<1>6. ViewOf(Window(w, L, H), w)
  BY <1>3, WindowIsView
<1>7. RowsIn(memory, Window(w, L, H)) = SubSeq(v, L + 1, H)
  BY <1>3, WindowIsStretch, Zenon
<1> HIDE DEF v
<1>8. \A i \in 1..w.size : (from <= v[i] /\ v[i] <= to) <=> i \in (L + 1)..H
  <2> SUFFICES ASSUME NEW i \in 1..w.size
               PROVE  (from <= v[i] /\ v[i] <= to) <=> i \in (L + 1)..H
    OBVIOUS
  <2>1. (v[i] < from <=> i <= L) /\ (v[i] <= to <=> i <= H)
    BY <1>3, <1>4
  <2>2. v[i] \in Nat
    BY <1>4
  <2>. QED
    BY <1>1, <1>2, <1>3, <2>1, <2>2
<1>9. (L + 1)..H = inside
  <2>1. \A i \in (L + 1)..H : i \in 1..w.size
    BY <1>1, <1>3
  <2>. QED
    BY <1>4, <1>8, <2>1
<1>10. <<L + 1, H>> \in ends
  <2>1. L + 1 \in 1..Len(v) + 1 /\ H \in 0..Len(v)
    BY <1>1, <1>3, <1>4
  <2> HIDE DEF inside
  <2>. QED
    BY <1>9, <2>1
<1>11. SubSeq(v, L + 1, H) \in {SubSeq(v, e[1], e[2]) : e \in ends}
  <2> DEFINE cut == <<L + 1, H>>
  <2>1. cut \in ends /\ cut[1] = L + 1 /\ cut[2] = H
    BY <1>10
  <2> HIDE DEF ends, cut
  <2>2. SubSeq(v, cut[1], cut[2]) \in {SubSeq(v, e[1], e[2]) : e \in ends}
    BY <2>1, Zenon
  <2>. QED
    BY <2>1, <2>2
<1>12. {SubSeq(v, e[1], e[2]) : e \in ends} = Values!Cuts(v, from, to)
  BY DEF Values!Cuts
<1>. QED
  BY <1>5, <1>6, <1>7, <1>11, <1>12 DEF v

LEMMA ShownIsRows == \A w : Rows(w) = RowsIn(memory, w)
  BY DEF Rows, Row, RowsIn

LEMMA InvIsSound ==
  ASSUME SeriesInv
  PROVE  ViewsAreSound
<1>1. memory \in [Buffers -> Seq(Nat)] /\ series \in [Series -> Windows \cup {NoSeries}]
  BY DEF SeriesInv, Typed
<1>2. \A s \in Live : Whole(memory, series[s])
  BY DEF SeriesInv
<1>3. ASSUME NEW w, Whole(memory, w) PROVE IsWindow(w)
  <2>1. /\ w.buf \in Buffers /\ w.lo \in Nat /\ w.size \in Nat /\ w.capacity \in Nat
        /\ w.size <= w.capacity /\ w.lo + w.capacity <= Len(memory[w.buf])
    BY <1>3, WindowFacts DEF Whole
  <2>2. \A i \in 1..w.size : Row(w, i) \in Time
    BY <1>3 DEF Whole, Row
  <2>3. w.size > 0 => BarAt(w, -1) = Row(w, w.size)
    <3> SUFFICES ASSUME w.size > 0 PROVE BarAt(w, -1) = Row(w, w.size)
      OBVIOUS
    <3>1. -1 < 0 /\ 0 <= -1 + w.size /\ -1 + w.size < w.size /\ -1 + w.size + 1 = w.size
      BY <2>1
    <3>. QED
      BY <3>1 DEF BarAt
  <2>. QED
    BY <2>1, <2>2, <2>3 DEF IsWindow
<1>4. SeriesTypeOK
  BY <1>2, <1>3 DEF SeriesTypeOK, SeriesInv
<1>5. OneWriter
  <2> SUFFICES ASSUME NEW s \in Live, series[s].size < series[s].capacity,
                      NEW v \in BesideIt(s), Shows(v, series[s].buf, series[s].lo + series[s].size + 1)
               PROVE  FALSE
    BY DEF OneWriter
  <2>1. EndsBefore(v, series[s])
    BY DEF SeriesInv, OthersEndBefore, HasRoom
  <2>2. series[s] \in Windows /\ v \in Windows
    <3>1. \A r \in Live : series[r] \in Windows
      BY <1>2 DEF Whole
    <3>. QED
      BY <3>1 DEF BesideIt, SeriesInv, Whole
  <2>3. /\ series[s].lo \in Nat /\ series[s].size \in Nat
        /\ v.lo \in Nat /\ v.capacity \in Nat
    BY <2>2, WindowFacts
  <2>. QED
    BY <2>1, <2>3 DEF Shows, EndsBefore
<1>6. CutWhereAsked
  <2> SUFFICES ASSUME NEW s \in Live
               PROVE  /\ \A from, to \in Time :
                            Rows(Slice(series[s], from, to)) \in Values!Cuts(Rows(series[s]), from, to)
                      /\ \A n \in 0..series[s].size :
                            Rows(TailOf(series[s], n))
                              = SubSeq(Rows(series[s]), series[s].size - n + 1, series[s].size)
    BY DEF CutWhereAsked
  <2> DEFINE w == series[s]
  <2>1. Whole(memory, w)
    BY <1>2
  <2> HIDE DEF w
  <2>2. \A from, to \in Time : Rows(Slice(w, from, to)) \in Values!Cuts(Rows(w), from, to)
    BY <1>1, <2>1, SliceIsCut, ShownIsRows
  <2>3. ASSUME NEW n \in 0..w.size
        PROVE  Rows(TailOf(w, n)) = SubSeq(Rows(w), w.size - n + 1, w.size)
    <3>1. n \in Int
      BY <2>1
    <3>2. PICK k \in 0..w.size :
            /\ RowsIn(memory, TailOf(w, n)) = SubSeq(RowsIn(memory, w), w.size - k + 1, w.size)
            /\ n \in 0..w.size => k = n
      BY <1>1, <2>1, <3>1, TailIsLast
    <3>. QED
      BY <3>2, ShownIsRows
  <2>. QED
    BY <2>2, <2>3 DEF w
<1>. QED
  BY <1>4, <1>5, <1>6 DEF ViewsAreSound, BuffersAreShared

(***************************************************************************)
(* One series moves to another window, or away, while the memory becomes   *)
(* rows.                                                                   *)
(***************************************************************************)
ValueOf(m, x) == IF x = NoSeries THEN NoSeries ELSE RowsIn(m, x)

ValuesNow == [s \in Series |-> IF series[s] = NoSeries THEN NoSeries ELSE Rows(series[s])]

ColumnsNow == IF columns = NoSeries THEN NoSeries ELSE Rows(columns)

LEMMA NoSeriesIsNone == NoSeries \notin Windows /\ NoSeries \notin Seq(Nat)
  BY BarSeriesAssumption DEF Windows

LEMMA BesideFacts ==
  ASSUME SeriesInv, NEW s \in Series
  PROVE  /\ \A v \in BesideIt(s) : v # NoSeries /\ Whole(memory, v) /\ v.buf \in Referred
         /\ \A r \in Live \ {s} : series[r] \in BesideIt(s)
         /\ columns # NoSeries => columns \in BesideIt(s)
<1>1. \A r \in Live : Whole(memory, series[r]) /\ series[r].buf \in Referred
  BY DEF SeriesInv, Referred
<1>2. columns # NoSeries => Whole(memory, columns) /\ columns.buf \in Referred
  BY DEF SeriesInv, Referred
<1>3. \A v : Whole(memory, v) => v # NoSeries
  BY NoSeriesIsNone DEF Whole
<1>4. \A v \in BesideIt(s) : \/ \E r \in Live \ {s} : v = series[r]
                             \/ columns # NoSeries /\ v = columns
  BY DEF BesideIt
<1>5. \A v \in BesideIt(s) : Whole(memory, v) /\ v.buf \in Referred
  BY <1>1, <1>2, <1>4
<1>6. \A r \in Live \ {s} : series[r] \in BesideIt(s)
  BY DEF BesideIt
<1>7. columns # NoSeries => columns \in BesideIt(s)
  BY DEF BesideIt
<1>. QED
  BY <1>3, <1>5, <1>6, <1>7

\* The name s came to stand for the value v, and nothing else changed.
Stands(s, v) ==
  SeriesInv' /\ ValuesNow' = [ValuesNow EXCEPT ![s] = v] /\ ColumnsNow' = ColumnsNow

LEMMA Moves ==
  ASSUME SeriesInv, NEW s \in Series, NEW w \in Windows \cup {NoSeries},
         NEW rows \in [Buffers -> Seq(Nat)], Become(s, w), Store(rows),
         \A v \in BesideIt(s) : SameRows(memory, rows, v),
         w # NoSeries => /\ Whole(rows, w)
                         /\ HasRoom(w) => \A v \in BesideIt(s) : EndsBefore(v, w)
                         /\ \A r \in Live \ {s} : HasRoom(series[r]) => EndsBefore(w, series[r])
  PROVE  Stands(s, ValueOf(rows, w))
<1>1. /\ memory \in [Buffers -> Seq(Nat)] /\ series \in [Series -> Windows \cup {NoSeries}]
      /\ columns \in Windows \cup {NoSeries}
  BY DEF SeriesInv, Typed
<1>2. /\ columns' = columns /\ series' \in [Series -> Windows \cup {NoSeries}]
      /\ series'[s] = w /\ \A r \in Series \ {s} : series'[r] = series[r]
  BY <1>1 DEF Become
<1>3. /\ memory' \in [Buffers -> Seq(Nat)]
      /\ \A b \in Buffers : b \in Referred' => memory'[b] = rows[b]
  <2>1. <<>> \in Seq(Nat)
    BY EmptySeq
  <2>. QED
    BY <2>1 DEF Store
<1>4. /\ \A r \in Series : r \in Live' <=> series'[r] # NoSeries
      /\ \A r \in Live' : r \in Series
      /\ \A r \in Series : r \in Live <=> series[r] # NoSeries
      /\ \A r \in Live : r \in Series
  BY DEF Live
<1>5. /\ s \in Live' <=> w # NoSeries
      /\ \A r \in Series \ {s} : r \in Live' <=> r \in Live
  BY <1>2, <1>4
<1>6. \A v \in BesideIt(s) : v.buf \in Referred' /\ v.buf \in Buffers
  <2>1. \A r \in Live \ {s} : series[r].buf \in Referred'
    <3>1. \A r \in Live \ {s} : r \in Live' /\ series'[r] = series[r]
      BY <1>2, <1>4, <1>5
    <3>. QED
      BY <3>1 DEF Referred
  <2>2. columns # NoSeries => columns.buf \in Referred'
    BY <1>2 DEF Referred
  <2>3. \A v \in BesideIt(s) : v.buf \in Buffers
    BY BesideFacts, WindowFacts DEF Whole
  <2>. QED
    BY <2>1, <2>2, <2>3 DEF BesideIt
<1>7. \A v \in BesideIt(s) : /\ Whole(memory', v)
                             /\ RowsIn(memory', v) = RowsIn(memory, v)
  <2> SUFFICES ASSUME NEW v \in BesideIt(s)
               PROVE  Whole(memory', v) /\ RowsIn(memory', v) = RowsIn(memory, v)
    OBVIOUS
  <2>1. SameRows(memory, memory', v)
    <3>1. memory'[v.buf] = rows[v.buf]
      BY <1>3, <1>6
    <3>. QED
      BY <3>1 DEF SameRows
  <2>2. Whole(memory, v)
    BY BesideFacts
  <2>. QED
    BY <1>1, <1>3, <2>1, <2>2, RowsStay
<1>8. w # NoSeries => Whole(memory', w) /\ RowsIn(memory', w) = RowsIn(rows, w)
  <2> SUFFICES ASSUME w # NoSeries
               PROVE  Whole(memory', w) /\ RowsIn(memory', w) = RowsIn(rows, w)
    OBVIOUS
  <2>1. w.buf \in Buffers /\ w.buf \in Referred'
    <3>1. s \in Live' /\ series'[s].buf = w.buf
      BY <1>2, <1>5
    <3>2. w.buf \in Referred'
      BY <3>1 DEF Referred
    <3>. QED
      BY <3>2, WindowFacts
  <2>2. memory'[w.buf] = rows[w.buf]
    BY <1>3, <2>1
  <2>3. Len(rows[w.buf]) <= Len(memory'[w.buf])
    <3>1. Len(rows[w.buf]) \in Nat
      BY <2>1, LenProperties
    <3>. QED
      BY <2>2, <3>1
  <2>4. SameRows(rows, memory', w)
    BY <2>2, <2>3 DEF SameRows
  <2>. QED
    BY <1>3, <2>4, RowsStay
<1>9. Typed'
  BY <1>1, <1>2, <1>3 DEF Typed
<1>10. \A r \in Live' : Whole(memory', series'[r])
  BY <1>2, <1>4, <1>5, <1>7, <1>8, BesideFacts
<1>11. columns' # NoSeries => Whole(memory', columns')
  BY <1>2, <1>7, BesideFacts
<1>12. OthersEndBefore'
  <2> SUFFICES ASSUME NEW r \in Live', HasRoom(series'[r]), NEW v, v \in BesideIt(r)'
               PROVE  EndsBefore(v, series'[r])
    BY DEF OthersEndBefore, HasRoom
  <2>1. \/ \E q \in Live' \ {r} : v = series'[q]
        \/ columns # NoSeries /\ v = columns
    BY <1>2 DEF BesideIt
  <2>2. r \in Series /\ \A q \in Live' : q \in Series
    BY <1>4
  <2>3. CASE r = s
    <3>1. w # NoSeries /\ series'[r] = w
      BY <1>2, <1>5, <2>3
    <3>2. v \in BesideIt(s)
      BY <1>2, <1>5, <2>1, <2>2, <2>3, BesideFacts
    <3>. QED
      BY <3>1, <3>2
  <2>4. CASE r # s
    <3>1. r \in Live \ {s} /\ series'[r] = series[r]
      BY <1>2, <1>5, <2>2, <2>4
    <3>2. CASE v \in BesideIt(r)
      BY <3>1, <3>2 DEF SeriesInv, OthersEndBefore
    <3>3. CASE s \in Live' /\ v = series'[s]
      BY <1>2, <1>5, <3>1, <3>3
    <3>4. v \in BesideIt(r) \/ (s \in Live' /\ v = series'[s])
      <4>1. CASE columns # NoSeries /\ v = columns
        BY <2>2, <4>1, BesideFacts
      <4>2. ASSUME NEW q \in Live' \ {r}, v = series'[q], q # s
            PROVE  v \in BesideIt(r)
        <5>1. q \in Live \ {r} /\ v = series[q]
          BY <1>2, <1>5, <2>2, <4>2
        <5>. QED
          BY <2>2, <5>1, BesideFacts
      <4>. QED
        BY <2>1, <4>1, <4>2
    <3>. QED
      BY <3>2, <3>3, <3>4
  <2>. QED
    BY <2>3, <2>4
<1>13. ValuesNow' = [ValuesNow EXCEPT ![s] = ValueOf(rows, w)]
  <2>1. \A r \in Series \ {s} :
          (IF series'[r] = NoSeries THEN NoSeries ELSE RowsIn(memory', series'[r]))
            = (IF series[r] = NoSeries THEN NoSeries ELSE RowsIn(memory, series[r]))
    BY <1>2, <1>4, <1>7, BesideFacts
  <2>2. (IF series'[s] = NoSeries THEN NoSeries ELSE RowsIn(memory', series'[s])) = ValueOf(rows, w)
    BY <1>2, <1>8 DEF ValueOf
  <2>3. ValuesNow = [r \in Series |-> IF series[r] = NoSeries THEN NoSeries ELSE RowsIn(memory, series[r])]
    BY DEF ValuesNow, Rows, Row, RowsIn
  <2>4. ValuesNow' = [r \in Series |-> IF series'[r] = NoSeries THEN NoSeries ELSE RowsIn(memory', series'[r])]
    BY DEF ValuesNow, Rows, Row, RowsIn
  <2>. QED
    BY <2>1, <2>2, <2>3, <2>4, Zenon
<1>14. ColumnsNow' = ColumnsNow
  <2>1. columns # NoSeries => RowsIn(memory', columns) = RowsIn(memory, columns)
    BY <1>7, BesideFacts
  <2>2. /\ ColumnsNow = IF columns = NoSeries THEN NoSeries ELSE RowsIn(memory, columns)
        /\ ColumnsNow' = IF columns' = NoSeries THEN NoSeries ELSE RowsIn(memory', columns')
    BY DEF ColumnsNow, Rows, Row, RowsIn
  <2>. QED
    BY <1>2, <2>1, <2>2
<1>. QED
  BY <1>9, <1>10, <1>11, <1>12, <1>13, <1>14 DEF SeriesInv, Stands

LEMMA Unwritten ==
  ASSUME SeriesInv, NEW s \in Series,
         NEW rows \in [Buffers -> Seq(Nat)], \A b \in Referred : rows[b] = memory[b]
  PROVE  \A v \in BesideIt(s) : SameRows(memory, rows, v)
<1> SUFFICES ASSUME NEW v \in BesideIt(s) PROVE SameRows(memory, rows, v)
  OBVIOUS
<1>1. rows[v.buf] = memory[v.buf] /\ v.buf \in Buffers
  BY BesideFacts, WindowFacts DEF Whole
<1>2. Len(memory[v.buf]) \in Nat
  BY <1>1, LenProperties DEF SeriesInv, Typed
<1>. QED
  BY <1>1, <1>2 DEF SameRows

\* A window of an array of its own.
LEMMA FreshMoves ==
  ASSUME SeriesInv, NEW s \in Series, NEW buf \in Free, NEW x \in Seq(Nat), NEW w,
         w.buf = buf, Whole([memory EXCEPT ![buf] = x], w), Become(s, w), Allocate(buf, x)
  PROVE  Stands(s, RowsIn([memory EXCEPT ![buf] = x], w))
<1> DEFINE rows == [memory EXCEPT ![buf] = x]
<1>1. memory \in [Buffers -> Seq(Nat)] /\ buf \in Buffers /\ buf \notin Referred
  BY DEF SeriesInv, Typed, Free
<1>2. rows \in [Buffers -> Seq(Nat)] /\ \A b \in Referred : rows[b] = memory[b]
  <2>1. rows \in [Buffers -> Seq(Nat)]
    BY <1>1
  <2>2. \A b \in Buffers \ {buf} : rows[b] = memory[b]
    BY <1>1
  <2>3. Referred \subseteq Buffers
    <3>1. \A r \in Live : series[r].buf \in Buffers
      BY WindowFacts DEF SeriesInv, Whole
    <3>2. columns # NoSeries => columns.buf \in Buffers
      BY WindowFacts DEF SeriesInv, Whole
    <3>. QED
      BY <3>1, <3>2 DEF Referred
  <2>. QED
    BY <1>1, <2>1, <2>2, <2>3
<1>3. w \in Windows /\ w # NoSeries
  BY NoSeriesIsNone DEF Whole
<1>4. Store(rows)
  BY DEF Allocate
<1>5. \A v \in BesideIt(s) : v.buf # w.buf
  BY <1>1, BesideFacts
<1>6. \A r \in Live \ {s} : series[r].buf # w.buf
  BY <1>5, BesideFacts
<1> HIDE DEF rows
<1>7. \A v \in BesideIt(s) : SameRows(memory, rows, v)
  BY <1>2, Unwritten
<1>8. Whole(rows, w)
  BY DEF rows
<1>9. Stands(s, ValueOf(rows, w))
  BY <1>2, <1>3, <1>4, <1>5, <1>6, <1>7, <1>8, Moves DEF EndsBefore
<1>. QED
  BY <1>3, <1>9 DEF ValueOf, rows

LEMMA ViewEndsBefore ==
  ASSUME SeriesInv, NEW x, Whole(memory, x), NEW v, ViewOf(v, x),
         NEW r \in Live, HasRoom(series[r]), x = series[r] \/ x \in BesideIt(r)
  PROVE  EndsBefore(v, series[r])
<1> SUFFICES ASSUME v.buf = series[r].buf
             PROVE  v.lo + v.capacity <= series[r].lo + series[r].size
  BY DEF EndsBefore
<1>1. series[r] \in Windows /\ x \in Windows /\ v \in Windows
  BY DEF SeriesInv, Whole, ViewOf
<1>2. CASE x = series[r]
  BY <1>1, <1>2, WindowFacts DEF ViewOf
<1>3. CASE x \in BesideIt(r)
  <2>1. x.lo + x.capacity <= series[r].lo + series[r].size
    BY <1>3 DEF SeriesInv, OthersEndBefore, EndsBefore, ViewOf
  <2>2. v.lo + v.capacity <= x.lo + x.size /\ x.size <= x.capacity
    BY DEF ViewOf, Whole
  <2>3. /\ x.lo \in Nat /\ x.size \in Nat /\ x.capacity \in Nat /\ v.lo \in Nat /\ v.capacity \in Nat
        /\ series[r].lo \in Nat /\ series[r].size \in Nat
    BY <1>1, WindowFacts
  <2>. QED
    BY <2>1, <2>2, <2>3
<1>. QED
  BY <1>2, <1>3

\* A view of a window that is shown.
LEMMA ViewMoves ==
  ASSUME SeriesInv, NEW s \in Series, s \notin Live, NEW x, x \in BesideIt(s), NEW v, ViewOf(v, x),
         Become(s, v), Store(memory)
  PROVE  Stands(s, RowsIn(memory, v))
<1>1. memory \in [Buffers -> Seq(Nat)] /\ \A b \in Referred : memory[b] = memory[b]
  BY DEF SeriesInv, Typed
<1>2. Whole(memory, x) /\ x \in Windows
  BY BesideFacts DEF Whole
<1>3. Whole(memory, v) /\ v \in Windows /\ v # NoSeries
  BY <1>1, <1>2, ViewIsWhole, NoSeriesIsNone DEF ViewOf
<1>4. \A u \in BesideIt(s) : SameRows(memory, memory, u)
  BY <1>1, Unwritten
<1>5. ~HasRoom(v)
  BY <1>3, WindowFacts DEF ViewOf, HasRoom
<1>6. \A r \in Live \ {s} : HasRoom(series[r]) => EndsBefore(v, series[r])
  <2>1. \A r \in Live \ {s} : x = series[r] \/ x \in BesideIt(r)
    BY DEF BesideIt
  <2>. QED
    BY <1>2, <2>1, ViewEndsBefore
<1>7. Stands(s, ValueOf(memory, v))
  BY <1>1, <1>3, <1>4, <1>5, <1>6, Moves
<1>. QED
  BY <1>3, <1>7 DEF ValueOf

(***************************************************************************)
(* The operations.                                                         *)
(***************************************************************************)
LEMMA EmptyStands ==
  ASSUME SeriesInv, NEW s \in Series, Empty(s)
  PROVE  s \notin Live /\ Stands(s, <<>>)
<1>1. PICK buf \in Free, asked \in Capacities :
        LET capacity == IF asked < 1 THEN 1 ELSE asked IN
        /\ Name(s, [buf |-> buf, lo |-> 0, size |-> 0, capacity |-> capacity])
        /\ Allocate(buf, [i \in 1..capacity |-> Garbage])
  BY DEF Empty
<1> DEFINE capacity == IF asked < 1 THEN 1 ELSE asked
           w == [buf |-> buf, lo |-> 0, size |-> 0, capacity |-> capacity]
           x == [i \in 1..capacity |-> Garbage]
<1>2. capacity \in Nat
  BY BarSeriesAssumption
<1> HIDE DEF capacity
<1>3. buf \in Buffers /\ memory \in [Buffers -> Seq(Nat)]
  BY DEF Free, SeriesInv, Typed
<1>4. x \in Seq(Nat) /\ Len(x) = capacity
  BY <1>2 DEF Garbage
<1>5. s \notin Live /\ Become(s, w) /\ Allocate(buf, x)
  BY <1>1 DEF Name, capacity
<1>6. /\ w \in Windows /\ w.buf = buf /\ w.lo = 0 /\ w.size = 0 /\ w.capacity = capacity
  BY <1>2, <1>3 DEF Windows
<1> HIDE DEF w, x
<1> DEFINE rows == [memory EXCEPT ![buf] = x]
<1>7. rows[w.buf] = x
  BY <1>3, <1>6
<1> HIDE DEF rows
<1>8. Whole(rows, w)
  BY <1>2, <1>4, <1>6, <1>7 DEF Whole
<1>9. RowsIn(rows, w) = <<>>
  BY <1>6 DEF RowsIn
<1>10. Stands(s, RowsIn(rows, w))
  BY <1>4, <1>5, <1>6, <1>8, FreshMoves DEF rows
<1>. QED
  BY <1>5, <1>9, <1>10

LEMMA FromBarsStands ==
  ASSUME SeriesInv, NEW s \in Series, FromBars(s)
  PROVE  s \notin Live /\ \E v \in {<<t>> : t \in Time} \cup (Time \X Time) : Stands(s, v)
<1>1. PICK buf \in Free, x \in {<<t>> : t \in Time} \cup (Time \X Time) :
        Ordered(x) /\ Name(s, Adopt(buf, 0, Len(x))) /\ Allocate(buf, x)
  BY DEF FromBars
<1> DEFINE w == Adopt(buf, 0, Len(x))
           rows == [memory EXCEPT ![buf] = x]
<1>2. buf \in Buffers /\ memory \in [Buffers -> Seq(Nat)]
  BY DEF Free, SeriesInv, Typed
<1>3. Time \subseteq Nat
  BY BarSeriesAssumption
<1>4. x \in Seq(Nat) /\ Len(x) \in Nat /\ \A i \in 1..Len(x) : x[i] \in Time
  <2>1. CASE x \in {<<t>> : t \in Time}
    <3>1. PICK t \in Time : x = <<t>>
      BY <2>1
    <3>. QED
      BY <1>3, <3>1
  <2>2. CASE x \in Time \X Time
    <3>1. PICK t \in Time, u \in Time : x = <<t, u>>
      BY <2>2
    <3>. QED
      BY <1>3, <3>1
  <2>. QED
    BY <1>1, <2>1, <2>2
<1>5. \A i, j \in 1..Len(x) : i < j => x[i] <= x[j]
  BY <1>1 DEF Ordered
<1>6. w \in Windows /\ w.buf = buf /\ w.lo = 0 /\ w.size = Len(x) /\ w.capacity = Len(x)
  BY <1>2, <1>4 DEF Windows, Adopt
<1>7. s \notin Live /\ Become(s, w) /\ Allocate(buf, x)
  BY <1>1 DEF Name
<1> HIDE DEF w
<1>8. rows[w.buf] = x
  BY <1>2, <1>6
<1> HIDE DEF rows
<1>9. \A i \in 1..w.size : w.lo + i = i
  BY <1>4, <1>6
<1>10. Whole(rows, w)
  <2>1. w.size <= w.capacity /\ w.lo + w.capacity <= Len(rows[w.buf])
    BY <1>4, <1>6, <1>8
  <2>2. \A i \in 1..w.size : rows[w.buf][w.lo + i] \in Time
    BY <1>4, <1>6, <1>8, <1>9
  <2>3. \A i, j \in 1..w.size : i < j => rows[w.buf][w.lo + i] <= rows[w.buf][w.lo + j]
    BY <1>5, <1>6, <1>8, <1>9
  <2>. QED
    BY <1>6, <2>1, <2>2, <2>3 DEF Whole
<1>11. RowsIn(rows, w) = x
  <2> DEFINE q == RowsIn(rows, w)
  <2>1. q \in Seq(Nat) /\ Len(q) = w.size /\ \A i \in 1..w.size : q[i] = rows[w.buf][w.lo + i]
    BY <1>10, RowsAreBars
  <2> HIDE DEF q
  <2>2. Len(q) = Len(x) /\ \A i \in 1..Len(q) : q[i] = x[i]
    BY <1>6, <1>8, <1>9, <2>1
  <2>3. q = x
    BY <1>4, <2>1, <2>2, SeqEqual
  <2>. QED
    BY <2>3 DEF q
<1>12. Stands(s, RowsIn(rows, w))
  BY <1>4, <1>6, <1>7, <1>10, FreshMoves DEF rows
<1>. QED
  BY <1>1, <1>7, <1>11, <1>12

LEMMA WholeWindow ==
  ASSUME NEW m \in [Buffers -> Seq(Nat)], NEW w, Whole(m, w)
  PROVE  /\ ViewOf(Adopt(w.buf, w.lo, w.size), w)
         /\ RowsIn(m, Adopt(w.buf, w.lo, w.size)) = RowsIn(m, w)
         /\ Window(w, 0, w.size) = Adopt(w.buf, w.lo, w.size)
<1>1. /\ w \in Windows /\ w.buf \in Buffers /\ w.lo \in Nat /\ w.size \in Nat
  BY WindowFacts DEF Whole
<1>2. Window(w, 0, w.size) = Adopt(w.buf, w.lo, w.size)
  BY <1>1 DEF Window
<1>3. 0 \in 0..w.size /\ w.size \in 0..w.size
  BY <1>1
<1>4. ViewOf(Window(w, 0, w.size), w)
  BY <1>3, WindowIsView
<1>5. RowsIn(m, Adopt(w.buf, w.lo, w.size)) = RowsIn(m, w)
  BY DEF RowsIn, Adopt
<1>. QED
  BY <1>2, <1>4, <1>5

LEMMA FromArraysStands ==
  ASSUME SeriesInv, NEW s \in Series, FromArrays(s)
  PROVE  s \notin Live /\ columns # NoSeries /\ Stands(s, Rows(columns))
<1> DEFINE v == Adopt(columns.buf, columns.lo, columns.size)
<1>1. /\ columns # NoSeries /\ s \notin Live /\ Become(s, v) /\ Store(memory)
      /\ memory \in [Buffers -> Seq(Nat)]
  BY DEF FromArrays, Name, SeriesInv, Typed
<1>2. columns \in BesideIt(s) /\ Whole(memory, columns)
  BY <1>1, BesideFacts
<1>3. ViewOf(v, columns) /\ RowsIn(memory, v) = RowsIn(memory, columns)
  BY <1>1, <1>2, WholeWindow
<1> HIDE DEF v
<1>4. Stands(s, RowsIn(memory, v))
  BY <1>1, <1>2, <1>3, ViewMoves
<1>. QED
  BY <1>1, <1>3, <1>4, ShownIsRows

LEMMA DropStands ==
  ASSUME SeriesInv, NEW s \in Series, Drop(s)
  PROVE  Stands(s, NoSeries)
<1>1. memory \in [Buffers -> Seq(Nat)] /\ \A b \in Referred : memory[b] = memory[b]
  BY DEF SeriesInv, Typed
<1>2. \A u \in BesideIt(s) : SameRows(memory, memory, u)
  BY <1>1, Unwritten
<1>3. Become(s, NoSeries) /\ Store(memory)
  BY DEF Drop
<1>4. Stands(s, ValueOf(memory, NoSeries))
  BY <1>1, <1>2, <1>3, Moves
<1>. QED
  BY <1>4 DEF ValueOf

LEMMA TailViewStands ==
  ASSUME SeriesInv, NEW s \in Series, TailView(s)
  PROVE  s \notin Live /\ \E r \in Live : \E k \in 0..Len(Rows(series[r])) :
            Stands(s, SubSeq(Rows(series[r]), Len(Rows(series[r])) - k + 1, Len(Rows(series[r]))))
<1>1. PICK r \in Live, n \in -1..MaxRows + 1 : Name(s, TailOf(series[r], n)) /\ Store(memory)
  BY DEF TailView
<1> DEFINE w == series[r]
           v == TailOf(w, n)
<1>2. s \notin Live /\ Become(s, v) /\ Store(memory) /\ memory \in [Buffers -> Seq(Nat)]
  BY <1>1 DEF Name, SeriesInv, Typed
<1>3. w \in BesideIt(s) /\ Whole(memory, w)
  BY <1>2, BesideFacts
<1>4. n \in Int
  BY BarSeriesAssumption
<1> HIDE DEF w
<1>5. Len(Rows(w)) = w.size
  BY <1>3, RowsAreBars, ShownIsRows
<1>6. ViewOf(v, w)
  BY <1>2, <1>3, <1>4, TailIsLast
<1>7. PICK k \in 0..w.size : RowsIn(memory, v) = SubSeq(RowsIn(memory, w), w.size - k + 1, w.size)
  BY <1>2, <1>3, <1>4, TailIsLast
<1> HIDE DEF v
<1>8. Stands(s, RowsIn(memory, v))
  BY <1>2, <1>3, <1>6, ViewMoves
<1>9. Stands(s, SubSeq(Rows(w), Len(Rows(w)) - k + 1, Len(Rows(w))))
  BY <1>5, <1>7, <1>8, ShownIsRows
<1>. QED
  BY <1>2, <1>5, <1>9 DEF w

LEMMA SliceViewStands ==
  ASSUME SeriesInv, NEW s \in Series, SliceView(s)
  PROVE  s \notin Live /\ \E r \in Live : \E from, to \in Time :
            \E v \in Values!Cuts(Rows(series[r]), from, to) : Stands(s, v)
<1>1. PICK r \in Live, from \in Time, to \in Time :
        Name(s, Slice(series[r], from, to)) /\ Store(memory)
  BY DEF SliceView
<1> DEFINE w == series[r]
           v == Slice(w, from, to)
<1>2. s \notin Live /\ Become(s, v) /\ Store(memory) /\ memory \in [Buffers -> Seq(Nat)]
  BY <1>1 DEF Name, SeriesInv, Typed
<1>3. w \in BesideIt(s) /\ Whole(memory, w)
  BY <1>2, BesideFacts
<1> HIDE DEF w
<1>4. ViewOf(v, w) /\ RowsIn(memory, v) \in Values!Cuts(RowsIn(memory, w), from, to)
  BY <1>2, <1>3, SliceIsCut
<1> HIDE DEF v
<1>5. Stands(s, RowsIn(memory, v))
  BY <1>2, <1>3, <1>4, ViewMoves
<1>6. RowsIn(memory, v) \in Values!Cuts(Rows(w), from, to)
  BY <1>4, ShownIsRows
<1>. QED
  BY <1>2, <1>5, <1>6 DEF w

\* One bar more behind those a window showed, wherever they are now.
LEMMA OneMore ==
  ASSUME NEW m \in [Buffers -> Seq(Nat)], NEW w, Whole(m, w),
         NEW n \in [Buffers -> Seq(Nat)], NEW v \in Windows, NEW t \in Time,
         v.size = w.size + 1, v.size <= v.capacity, v.lo + v.capacity <= Len(n[v.buf]),
         \A i \in 1..w.size : n[v.buf][v.lo + i] = m[w.buf][w.lo + i],
         n[v.buf][v.lo + v.size] = t,
         w.size > 0 => m[w.buf][w.lo + w.size] <= t
  PROVE  Whole(n, v) /\ RowsIn(n, v) = Append(RowsIn(m, w), t)
<1> DEFINE old(i) == m[w.buf][w.lo + i]
           new(i) == n[v.buf][v.lo + i]
<1>1. w.size \in Nat /\ v.size \in Nat /\ Time \subseteq Nat
  BY WindowFacts, BarSeriesAssumption DEF Whole
<1>2. /\ \A i \in 1..w.size : old(i) \in Time
      /\ \A i, j \in 1..w.size : i < j => old(i) <= old(j)
  BY DEF Whole
<1>3. \A i \in 1..v.size : \/ i \in 1..w.size /\ new(i) = old(i)
                           \/ i = v.size /\ new(i) = t
  <2>1. \A i \in 1..v.size : i \in 1..w.size \/ i = v.size
    BY <1>1
  <2>. QED
    BY <2>1
<1>4. w.size > 0 => old(w.size) <= t
  OBVIOUS
<1>5. \A i \in 1..w.size : new(i) = old(i)
  OBVIOUS
<1>6. new(v.size) = t
  OBVIOUS
<1>7. \A i \in 1..v.size : new(i) = n[v.buf][v.lo + i]
  OBVIOUS
<1>8. \A i \in 1..w.size : old(i) = m[w.buf][w.lo + i]
  OBVIOUS
<1> HIDE DEF old, new
<1>9. \A i \in 1..w.size : old(i) <= t
  <2> SUFFICES ASSUME NEW i \in 1..w.size PROVE old(i) <= t
    OBVIOUS
  <2>1. w.size \in 1..w.size /\ w.size > 0 /\ (i = w.size \/ i < w.size)
    BY <1>1
  <2>2. old(i) \in Nat /\ old(w.size) \in Nat /\ t \in Nat
    BY <1>1, <1>2, <2>1
  <2>3. old(w.size) <= t /\ (i = w.size \/ old(i) <= old(w.size))
    BY <1>2, <1>4, <2>1
  <2>. QED
    BY <2>2, <2>3
<1>10. \A i \in 1..v.size : new(i) \in Time
  BY <1>2, <1>3
<1>11. \A i, j \in 1..v.size : i < j => new(i) <= new(j)
  <2> SUFFICES ASSUME NEW i \in 1..v.size, NEW j \in 1..v.size, i < j
               PROVE  new(i) <= new(j)
    OBVIOUS
  <2>1. i \in 1..w.size /\ new(i) = old(i)
    BY <1>1, <1>3
  <2>2. CASE j \in 1..w.size
    BY <1>2, <1>5, <2>1, <2>2
  <2>3. CASE j = v.size
    BY <1>6, <1>9, <2>1, <2>3
  <2>. QED
    BY <1>3, <2>2, <2>3
<1>12. Whole(n, v)
  BY <1>7, <1>10, <1>11 DEF Whole
<1>13. RowsIn(n, v) = Append(RowsIn(m, w), t)
  <2> DEFINE q == RowsIn(n, v)
             r == RowsIn(m, w)
             a == Append(r, t)
  <2>1. q \in Seq(Nat) /\ Len(q) = v.size /\ \A i \in 1..v.size : q[i] = new(i)
    <3>1. q \in Seq(Nat) /\ Len(q) = v.size /\ \A i \in 1..v.size : q[i] = n[v.buf][v.lo + i]
      BY <1>12, RowsAreBars
    <3> HIDE DEF q
    <3>. QED
      BY <1>7, <3>1, Zenon
  <2>2. r \in Seq(Nat) /\ Len(r) = w.size /\ \A i \in 1..w.size : r[i] = old(i)
    <3>1. r \in Seq(Nat) /\ Len(r) = w.size /\ \A i \in 1..w.size : r[i] = m[w.buf][w.lo + i]
      BY RowsAreBars
    <3> HIDE DEF r
    <3>. QED
      BY <1>8, <3>1, Zenon
  <2> HIDE DEF q, r
  <2>3. /\ a \in Seq(Nat) /\ Len(a) = w.size + 1
        /\ \A i \in 1..w.size : a[i] = r[i]
        /\ a[w.size + 1] = t
    <3>1. t \in Nat
      BY <1>1
    <3>. QED
      BY <2>2, <3>1, AppendProperties
  <2> HIDE DEF a
  <2>4. Len(q) = Len(a) /\ \A i \in 1..Len(q) : q[i] = a[i]
    BY <1>3, <2>1, <2>2, <2>3
  <2>5. q = a
    BY <2>1, <2>3, <2>4, SeqEqual
  <2>. QED
    BY <2>5 DEF q, a, r
<1>. QED
  BY <1>12, <1>13

LEMMA PutFacts ==
  ASSUME NEW w \in Windows
  PROVE  /\ Put(w) \in Windows /\ Put(w).buf = w.buf /\ Put(w).lo = w.lo
         /\ Put(w).size = w.size + 1 /\ Put(w).capacity = w.capacity
  BY DEF Put, Windows

LEMMA InPlaceStands ==
  ASSUME SeriesInv, NEW s \in Live, NEW t \in Time, InPlace(s, t),
         series[s].size > 0 => Row(series[s], series[s].size) <= t
  PROVE  Stands(s, Append(Rows(series[s]), t))
<1> DEFINE w == series[s]
           k == w.lo + w.size + 1
           rows == [memory EXCEPT ![w.buf][k] = t]
<1>1. w.size < w.capacity /\ Become(s, Put(w)) /\ Store(rows)
  BY DEF InPlace
<1>2. s \in Series /\ Whole(memory, w) /\ memory \in [Buffers -> Seq(Nat)] /\ t \in Nat
  BY BarSeriesAssumption DEF SeriesInv, Typed, Live
<1>3. w.size > 0 => memory[w.buf][w.lo + w.size] <= t
  BY DEF Row
<1>4. \A r \in Live \ {s} : HasRoom(series[r]) => EndsBefore(w, series[r])
  <2>1. \A r \in Live \ {s} : w \in BesideIt(r)
    BY DEF BesideIt
  <2>. QED
    BY <2>1 DEF SeriesInv, OthersEndBefore
<1>5. \A u \in BesideIt(s) : EndsBefore(u, w)
  BY <1>1 DEF SeriesInv, OthersEndBefore, HasRoom
<1> HIDE DEF w
<1>6. /\ w \in Windows /\ w.buf \in Buffers /\ w.lo \in Nat /\ w.size \in Nat /\ w.capacity \in Nat
      /\ w.lo + w.capacity <= Len(memory[w.buf]) /\ Len(memory[w.buf]) \in Nat
      /\ memory[w.buf] \in Seq(Nat)
  BY <1>2, WindowFacts, LenProperties DEF Whole
<1>7. k \in 1..Len(memory[w.buf])
  BY <1>1, <1>6
<1>8. /\ rows \in [Buffers -> Seq(Nat)]
      /\ \A b \in Buffers \ {w.buf} : rows[b] = memory[b]
      /\ Len(rows[w.buf]) = Len(memory[w.buf]) /\ rows[w.buf][k] = t
      /\ \A j \in 1..Len(memory[w.buf]) : j # k => rows[w.buf][j] = memory[w.buf][j]
  <2> DEFINE x == [memory[w.buf] EXCEPT ![k] = t]
  <2>1. /\ x \in Seq(Nat) /\ Len(x) = Len(memory[w.buf]) /\ x[k] = t
        /\ \A j \in 1..Len(memory[w.buf]) : j # k => x[j] = memory[w.buf][j]
    BY <1>2, <1>6, <1>7, ExceptSeq
  <2>2. rows = [memory EXCEPT ![w.buf] = x]
    BY <1>2
  <2> HIDE DEF x, rows
  <2>3. rows[w.buf] = x /\ \A b \in Buffers \ {w.buf} : rows[b] = memory[b]
    BY <1>2, <1>6, <2>2
  <2>4. rows \in [Buffers -> Seq(Nat)]
    BY <1>2, <2>1, <2>2
  <2>. QED
    BY <2>1, <2>3, <2>4
<1> HIDE DEF rows
<1>9. \A u \in BesideIt(s) : SameRows(memory, rows, u)
  <2> SUFFICES ASSUME NEW u \in BesideIt(s) PROVE SameRows(memory, rows, u)
    OBVIOUS
  <2>1. Whole(memory, u) /\ u \in Windows
    BY <1>2, BesideFacts DEF Whole
  <2>2. /\ u.buf \in Buffers /\ u.lo \in Nat /\ u.size \in Nat /\ u.capacity \in Nat
        /\ u.size <= u.capacity /\ u.lo + u.capacity <= Len(memory[u.buf])
        /\ Len(memory[u.buf]) \in Nat
    BY <1>2, <2>1, WindowFacts, LenProperties DEF Whole
  <2>3. CASE u.buf # w.buf
    <3>1. rows[u.buf] = memory[u.buf]
      BY <1>8, <2>2, <2>3
    <3>. QED
      BY <2>2, <3>1 DEF SameRows
  <2>4. CASE u.buf = w.buf
    <3>1. u.lo + u.capacity <= w.lo + w.size
      BY <1>5, <2>4 DEF EndsBefore
    <3>2. \A i \in 1..u.size : u.lo + i \in 1..Len(memory[w.buf]) /\ u.lo + i # k
      <4> DEFINE len == Len(memory[w.buf])
      <4>1. u.lo + u.capacity <= len /\ len \in Nat
        BY <2>2, <2>4
      <4>2. u.lo \in Nat /\ u.size \in Nat /\ u.capacity \in Nat /\ u.size <= u.capacity
        BY <2>2
      <4>3. w.lo \in Nat /\ w.size \in Nat
        BY <1>6
      <4> HIDE DEF len
      <4>4. \A i \in 1..u.size : u.lo + i \in 1..len /\ u.lo + i # k
        BY <3>1, <4>1, <4>2, <4>3
      <4>. QED
        BY <4>4 DEF len
    <3>3. \A i \in 1..u.size : rows[w.buf][u.lo + i] = memory[w.buf][u.lo + i]
      BY <1>8, <3>2
    <3>4. Len(memory[u.buf]) <= Len(rows[u.buf])
      BY <1>8, <2>2, <2>4
    <3>. QED
      BY <2>4, <3>3, <3>4 DEF SameRows
  <2>. QED
    BY <2>3, <2>4
<1> DEFINE v == Put(w)
<1>10. /\ v \in Windows /\ v.buf = w.buf /\ v.lo = w.lo /\ v.size = w.size + 1 /\ v.capacity = w.capacity
  BY <1>6, PutFacts
<1> HIDE DEF v
<1>11. Whole(rows, v) /\ RowsIn(rows, v) = Append(RowsIn(memory, w), t)
  <2>1. v.size <= v.capacity /\ v.lo + v.capacity <= Len(rows[v.buf])
    BY <1>1, <1>6, <1>8, <1>10
  <2>2. \A i \in 1..w.size : w.lo + i \in 1..Len(memory[w.buf]) /\ w.lo + i # k
    <3>1. w.size < w.capacity
      BY <1>1
    <3> DEFINE len == Len(memory[w.buf])
    <3>2. len \in Nat /\ w.lo + w.capacity <= len
      BY <1>6
    <3> HIDE DEF len
    <3>3. w.lo \in Nat /\ w.size \in Nat /\ w.capacity \in Nat
      BY <1>6
    <3> HIDE DEF rows
    <3>4. ASSUME NEW i \in 1..w.size PROVE w.lo + i \in 1..len /\ w.lo + i # k
      BY <3>1, <3>2, <3>3
    <3>. QED
      BY <3>4 DEF len
  <2>3. \A i \in 1..w.size : rows[v.buf][v.lo + i] = memory[w.buf][w.lo + i]
    BY <1>8, <1>10, <2>2
  <2>4. v.lo + v.size = k
    BY <1>6, <1>10
  <2>5. rows[v.buf][v.lo + v.size] = t
    BY <1>8, <1>10, <2>4
  <2> HIDE DEF k
  <2>. QED
    BY <1>2, <1>3, <1>8, <1>10, <2>1, <2>3, <2>5, OneMore
<1>12. v # NoSeries
  BY <1>10, NoSeriesIsNone
<1>13. \A u \in BesideIt(s) : EndsBefore(u, v)
  <2> SUFFICES ASSUME NEW u \in BesideIt(s), u.buf = w.buf
               PROVE  u.lo + u.capacity <= v.lo + v.size
    BY <1>10 DEF EndsBefore
  <2>1. u.lo \in Nat /\ u.capacity \in Nat
    BY <1>2, BesideFacts, WindowFacts DEF Whole
  <2>2. u.lo + u.capacity <= w.lo + w.size
    BY <1>5 DEF EndsBefore
  <2>. QED
    BY <1>6, <1>10, <2>1, <2>2
<1>14. \A r \in Live \ {s} : HasRoom(series[r]) => EndsBefore(v, series[r])
  BY <1>4, <1>10 DEF EndsBefore
<1>15. Become(s, v) /\ Store(rows)
  BY <1>1 DEF v, rows
<1>16. Stands(s, ValueOf(rows, v))
  BY <1>2, <1>8, <1>9, <1>10, <1>11, <1>12, <1>13, <1>14, <1>15, Moves
<1>. QED
  BY <1>11, <1>12, <1>16, ShownIsRows DEF ValueOf, w

LEMMA ModBelow ==
  ASSUME NEW n \in Nat \ {0}, NEW i \in Nat
  PROVE  i % n \in 0..n - 1 /\ (i < n => i % n = i)
  OBVIOUS

LEMMA GrownStands ==
  ASSUME SeriesInv, NEW s \in Live, NEW t \in Time, Grown(s, t),
         series[s].size > 0 => Row(series[s], series[s].size) <= t
  PROVE  Stands(s, Append(Rows(series[s]), t))
<1> DEFINE w == series[s]
           capacity == IF w.capacity = 0 THEN 1 ELSE 2 * w.capacity
           moved(buf) == [w EXCEPT !.buf = buf, !.lo = 0, !.capacity = capacity]
           old == Resized(w, capacity)
           k == w.size + 1
           x == [old EXCEPT ![k] = t]
<1>1. PICK buf \in Free : Become(s, Put(moved(buf))) /\ Allocate(buf, x)
  BY DEF Grown
<1>2. w.size = w.capacity
  BY DEF Grown
<1>3. s \in Series /\ Whole(memory, w) /\ memory \in [Buffers -> Seq(Nat)] /\ t \in Nat /\ buf \in Buffers
  BY BarSeriesAssumption DEF SeriesInv, Typed, Live, Free
<1>4. w.size > 0 => memory[w.buf][w.lo + w.size] <= t
  BY DEF Row
<1> HIDE DEF w
<1>5. /\ w \in Windows /\ w.buf \in Buffers /\ w.lo \in Nat /\ w.size \in Nat /\ w.capacity \in Nat
      /\ w.lo + w.capacity <= Len(memory[w.buf]) /\ Len(memory[w.buf]) \in Nat
      /\ memory[w.buf] \in Seq(Nat)
  BY <1>3, WindowFacts, LenProperties DEF Whole
<1>6. capacity \in Nat /\ w.size < capacity
  BY <1>2, <1>5
<1>7. /\ old \in Seq(Nat) /\ Len(old) = capacity
      /\ \A i \in 1..w.size : old[i] = memory[w.buf][w.lo + i]
  <2> HIDE DEF capacity
  <2>1. old = [i \in 1..capacity |-> IF w.capacity = 0 THEN Garbage ELSE Row(w, ((i - 1) % w.capacity) + 1)]
    BY DEF Resized
  <2> HIDE DEF old
  <2>2. \A i \in 1..capacity : w.capacity # 0 => ((i - 1) % w.capacity) + 1 \in 1..w.capacity
    <3> SUFFICES ASSUME NEW i \in 1..capacity, w.capacity # 0
                 PROVE  ((i - 1) % w.capacity) + 1 \in 1..w.capacity
      OBVIOUS
    <3> DEFINE j == i - 1
               n == w.capacity
    <3>1. j \in Nat /\ n \in Nat \ {0}
      BY <1>5, <1>6
    <3>2. j % n \in 0..n - 1
      <4> HIDE DEF j, n
      <4>. QED
        BY <3>1, ModBelow
    <3>. QED
      BY <1>5, <3>2
  <2>3. \A j \in 1..w.capacity : Row(w, j) \in Nat
    <3> SUFFICES ASSUME NEW j \in 1..w.capacity PROVE Row(w, j) \in Nat
      OBVIOUS
    <3>1. w.lo + j \in 1..Len(memory[w.buf])
      BY <1>5
    <3>. QED
      BY <1>5, <3>1, ElementOfSeq DEF Row
  <2>4. old \in [1..capacity -> Nat]
    BY <2>1, <2>2, <2>3 DEF Garbage
  <2>5. old \in Seq(Nat) /\ Len(old) = capacity
    BY <1>6, <2>4
  <2>6. ASSUME NEW i \in 1..w.size PROVE old[i] = memory[w.buf][w.lo + i]
    <3>1. i - 1 \in Nat /\ i - 1 < w.capacity /\ w.capacity \in Nat \ {0} /\ i \in 1..capacity
      BY <1>2, <1>5, <1>6
    <3>2. (i - 1) % w.capacity = i - 1
      BY <3>1, ModBelow
    <3>3. old[i] = Row(w, i - 1 + 1)
      BY <2>1, <3>1, <3>2
    <3>4. i - 1 + 1 = i
      BY <3>1
    <3>. QED
      BY <3>3, <3>4 DEF Row
  <2>. QED
    BY <2>5, <2>6
<1>8. w.size + 1 \in 1..Len(old)
  BY <1>5, <1>6, <1>7
<1> HIDE DEF old
<1>9. /\ x \in Seq(Nat) /\ Len(x) = capacity /\ x[w.size + 1] = t
      /\ \A i \in 1..w.size : x[i] = memory[w.buf][w.lo + i]
  <2>1. /\ x \in Seq(Nat) /\ Len(x) = Len(old)
        /\ \A j \in 1..Len(old) : x[j] = IF j = k THEN t ELSE old[j]
    <3>1. k \in 1..Len(old)
      BY <1>8
    <3> HIDE DEF k, capacity
    <3>2. old \in Seq(Nat) /\ t \in Nat
      BY <1>3, <1>7
    <3>. QED
      BY <3>1, <3>2, ExceptSeq
  <2> HIDE DEF x, capacity
  <2>2. \A i \in 1..w.size : i \in 1..Len(old) /\ i # k
    BY <1>5, <1>6, <1>7
  <2>. QED
    BY <1>7, <1>8, <2>1, <2>2
<1> DEFINE rows == [memory EXCEPT ![buf] = x]
           v == Put(moved(buf))
<1>10. rows[buf] = x /\ rows \in [Buffers -> Seq(Nat)]
  <2> HIDE DEF x
  <2>. QED
    BY <1>3, <1>9
<1>11. /\ v \in Windows /\ v.buf = buf /\ v.lo = 0 /\ v.size = w.size + 1 /\ v.capacity = capacity
  <2>1. /\ moved(buf) \in Windows /\ moved(buf).buf = buf /\ moved(buf).lo = 0
        /\ moved(buf).size = w.size /\ moved(buf).capacity = capacity
    <3> HIDE DEF capacity
    <3>. QED
      BY <1>3, <1>5, <1>6 DEF Windows
  <2> HIDE DEF moved
  <2>. QED
    BY <2>1, PutFacts
<1>12. Become(s, v) /\ Allocate(buf, x)
  BY <1>1
<1> HIDE DEF rows, v, x, capacity
<1>13. Whole(rows, v) /\ RowsIn(rows, v) = Append(RowsIn(memory, w), t)
  <2>1. v.size <= v.capacity /\ v.lo + v.capacity <= Len(rows[v.buf])
    BY <1>5, <1>6, <1>9, <1>10, <1>11
  <2>2. \A i \in 1..w.size : rows[v.buf][v.lo + i] = memory[w.buf][w.lo + i]
    <3>1. \A i \in 1..w.size : v.lo + i = i
      BY <1>11
    <3>. QED
      BY <1>9, <1>10, <1>11, <3>1
  <2>3. v.lo + v.size = w.size + 1
    BY <1>5, <1>11
  <2>4. rows[v.buf][v.lo + v.size] = t
    BY <1>9, <1>10, <1>11, <2>3
  <2>5. v \in Windows /\ v.size = w.size + 1
    BY <1>11
  <2>. QED
    BY <1>3, <1>4, <1>10, <2>1, <2>2, <2>4, <2>5, OneMore, ZenonT(60)
<1>14. Stands(s, RowsIn(rows, v))
  BY <1>3, <1>9, <1>11, <1>12, <1>13, FreshMoves DEF rows
<1>. QED
  BY <1>13, <1>14, ShownIsRows DEF w

LEMMA AppendBarStands ==
  ASSUME SeriesInv, NEW s \in Series, AppendBar(s)
  PROVE  s \in Live /\ \E t \in Time : Stands(s, Append(Rows(series[s]), t))
<1>1. PICK t \in Time : /\ series[s].size > 0 => Row(series[s], series[s].size) <= t
                        /\ InPlace(s, t) \/ Grown(s, t)
  BY DEF AppendBar
<1>2. s \in Live
  BY DEF AppendBar
<1>3. Stands(s, Append(Rows(series[s]), t))
  BY <1>1, <1>2, InPlaceStands, GrownStands
<1>. QED
  BY <1>2, <1>3

LEMMA ReadColumnsKeeps ==
  ASSUME SeriesInv, NEW s \in Series, ReadColumns(s)
  PROVE  /\ s \in Live /\ SeriesInv'
         /\ ValuesNow' = ValuesNow /\ ColumnsNow' = Rows(series[s])
<1> DEFINE w == series[s]
           v == Window(w, 0, w.size)
<1>1. /\ s \in Live /\ columns' = v /\ series' = series /\ Store(memory)
      /\ memory \in [Buffers -> Seq(Nat)] /\ series \in [Series -> Windows \cup {NoSeries}]
  BY DEF ReadColumns, SeriesInv, Typed
<1>2. Whole(memory, w)
  BY <1>1 DEF SeriesInv
<1> HIDE DEF w
<1>3. ViewOf(v, w) /\ RowsIn(memory, v) = RowsIn(memory, w)
  BY <1>1, <1>2, WholeWindow
<1> HIDE DEF v
<1>4. Whole(memory, v) /\ v \in Windows /\ v # NoSeries /\ v.buf = w.buf
  BY <1>1, <1>2, <1>3, ViewIsWhole, NoSeriesIsNone DEF ViewOf
<1>5. Live' = Live
  BY <1>1 DEF Live
<1>6. /\ memory' \in [Buffers -> Seq(Nat)]
      /\ \A b \in Buffers : b \in Referred' => memory'[b] = memory[b]
  <2>1. <<>> \in Seq(Nat)
    BY EmptySeq
  <2>. QED
    BY <1>1, <2>1 DEF Store
<1>7. ASSUME NEW u, Whole(memory, u), u.buf \in Referred'
      PROVE  Whole(memory', u) /\ RowsIn(memory', u) = RowsIn(memory, u)
  <2>1. u.buf \in Buffers
    BY <1>7, WindowFacts DEF Whole
  <2>2. memory'[u.buf] = memory[u.buf] /\ Len(memory[u.buf]) \in Nat
    BY <1>1, <1>6, <1>7, <2>1, LenProperties
  <2>3. SameRows(memory, memory', u)
    BY <2>2 DEF SameRows
  <2>. QED
    BY <1>1, <1>6, <1>7, <2>3, RowsStay
<1>8. \A r \in Live : Whole(memory, series[r]) /\ series[r].buf \in Referred'
  <2>1. \A r \in Live : series'[r].buf \in Referred'
    BY <1>5 DEF Referred
  <2>. QED
    BY <1>1, <2>1 DEF SeriesInv
<1>9. \A r \in Live : /\ Whole(memory', series[r])
                      /\ RowsIn(memory', series[r]) = RowsIn(memory, series[r])
  BY <1>7, <1>8
<1>10. Whole(memory', v) /\ RowsIn(memory', v) = RowsIn(memory, v)
  <2>1. v.buf \in Referred'
    BY <1>1, <1>4, <1>8 DEF w
  <2>. QED
    BY <1>4, <1>7, <2>1
<1>11. Typed'
  BY <1>1, <1>4, <1>6 DEF Typed
<1>12. OthersEndBefore'
  <2> SUFFICES ASSUME NEW r \in Live, HasRoom(series[r]), NEW u, u \in BesideIt(r)'
               PROVE  EndsBefore(u, series[r])
    BY <1>1, <1>5 DEF OthersEndBefore, HasRoom
  <2>1. (\E q \in Live \ {r} : u = series[q]) \/ u = v
    BY <1>1, <1>5 DEF BesideIt
  <2>2. CASE \E q \in Live \ {r} : u = series[q]
    <3>1. u \in BesideIt(r)
      BY <2>2 DEF BesideIt
    <3>. QED
      BY <3>1 DEF SeriesInv, OthersEndBefore
  <2>3. CASE u = v
    <3>1. w = series[r] \/ w \in BesideIt(r)
      BY <1>1 DEF BesideIt, w
    <3>. QED
      BY <1>2, <1>3, <2>3, <3>1, ViewEndsBefore
  <2>. QED
    BY <2>1, <2>2, <2>3
<1>13. SeriesInv'
  BY <1>1, <1>5, <1>9, <1>10, <1>11, <1>12 DEF SeriesInv
<1>14. ValuesNow' = ValuesNow
  <2>1. /\ ValuesNow = [r \in Series |-> IF series[r] = NoSeries THEN NoSeries ELSE RowsIn(memory, series[r])]
        /\ ValuesNow' = [r \in Series |-> IF series'[r] = NoSeries THEN NoSeries ELSE RowsIn(memory', series'[r])]
    BY DEF ValuesNow, Rows, Row, RowsIn
  <2>2. \A r \in Series : series[r] # NoSeries => RowsIn(memory', series[r]) = RowsIn(memory, series[r])
    BY <1>9 DEF Live
  <2>. QED
    BY <1>1, <2>1, <2>2
<1>15. ColumnsNow' = Rows(w)
  <2>1. ColumnsNow' = IF columns' = NoSeries THEN NoSeries ELSE RowsIn(memory', columns')
    BY DEF ColumnsNow, Rows, Row, RowsIn
  <2>. QED
    BY <1>1, <1>3, <1>4, <1>10, <2>1, ShownIsRows
<1>. QED
  BY <1>1, <1>13, <1>14, <1>15 DEF w

(***************************************************************************)
(* Every step is one of the abstract series, or none.                      *)
(***************************************************************************)
LEMMA InitHolds ==
  ASSUME SeriesInit
  PROVE  SeriesInv /\ Values!Init
<1>1. <<>> \in Seq(Nat)
  BY EmptySeq
<1>2. Live = {}
  BY DEF SeriesInit, Live
<1>3. SeriesInv
  BY <1>1, <1>2 DEF SeriesInit, SeriesInv, Typed, OthersEndBefore
<1>4. Values!Init
  BY DEF SeriesInit, Values!Init
<1>. QED
  BY <1>3, <1>4

LEMMA StandsHolds ==
  ASSUME NEW s, NEW v, Stands(s, v)
  PROVE  SeriesInv' /\ Values!Holds(s, v) /\ ColumnsNow' = ColumnsNow
  BY DEF Stands, Values!Holds, ValuesNow

LEMMA ValueShown ==
  ASSUME SeriesInv
  PROVE  /\ \A r \in Live : /\ r \in Series /\ ValuesNow[r] = Rows(series[r])
                            /\ ValuesNow[r] # NoSeries
         /\ columns # NoSeries => ColumnsNow = Rows(columns) /\ ColumnsNow # NoSeries
<1>1. \A w : Whole(memory, w) => Rows(w) # NoSeries
  BY RowsAreBars, ShownIsRows
<1>2. \A r \in Live : r \in Series /\ series[r] # NoSeries /\ Whole(memory, series[r])
  BY DEF Live, SeriesInv
<1>3. \A r \in Live : ValuesNow[r] = Rows(series[r])
  BY <1>2 DEF ValuesNow
<1>4. columns # NoSeries => ColumnsNow = Rows(columns) /\ Whole(memory, columns)
  BY DEF ColumnsNow, SeriesInv
<1>. QED
  BY <1>1, <1>2, <1>3, <1>4

AbstractStep == Values!Next \/ (ValuesNow' = ValuesNow /\ ColumnsNow' = ColumnsNow)

LEMMA StepHolds ==
  ASSUME SeriesInv, [SeriesNext]_seriesVars
  PROVE  SeriesInv' /\ AbstractStep
<1>1. CASE UNCHANGED seriesVars
  <2>1. memory' = memory /\ series' = series /\ columns' = columns
    BY <1>1 DEF seriesVars
  <2>2. SeriesInv'
    BY <2>1 DEF SeriesInv, Typed, OthersEndBefore, Live, BesideIt
  <2>3. ValuesNow' = ValuesNow /\ ColumnsNow' = ColumnsNow
    BY <2>1 DEF ValuesNow, ColumnsNow, Rows, Row
  <2>. QED
    BY <2>2, <2>3 DEF AbstractStep
<1>2. ASSUME NEW s \in Series, Empty(s) \/ FromBars(s)
      PROVE  SeriesInv' /\ AbstractStep
  <2>1. \E v \in {<<>>} \cup {<<t>> : t \in Time} \cup (Time \X Time) : Stands(s, v)
    BY <1>2, EmptyStands, FromBarsStands
  <2>2. SeriesInv' /\ Values!Create(s) /\ ColumnsNow' = ColumnsNow
    BY <2>1, StandsHolds DEF Values!Create
  <2>. QED
    BY <2>2 DEF AbstractStep, Values!Next, ColumnsNow
<1>3. ASSUME NEW s \in Series, FromArrays(s)
      PROVE  SeriesInv' /\ AbstractStep
  <2>1. columns # NoSeries /\ Stands(s, ColumnsNow) /\ ColumnsNow # NoSeries
    BY <1>3, FromArraysStands, ValueShown
  <2>2. SeriesInv' /\ Values!Holds(s, ColumnsNow) /\ ColumnsNow' = ColumnsNow
    BY <2>1 DEF Stands, Values!Holds, ValuesNow
  <2>3. Values!Adopt(s)
    BY <2>1, <2>2 DEF Values!Adopt, ColumnsNow
  <2>. QED
    BY <2>2, <2>3 DEF AbstractStep, Values!Next, ColumnsNow
<1>4. ASSUME NEW s \in Series, Drop(s)
      PROVE  SeriesInv' /\ AbstractStep
  <2>1. SeriesInv' /\ Values!Holds(s, NoSeries) /\ ColumnsNow' = ColumnsNow
    BY <1>4, DropStands, StandsHolds
  <2>2. Values!Drop(s)
    BY <2>1 DEF Values!Drop
  <2>. QED
    BY <2>1, <2>2 DEF AbstractStep, Values!Next, ColumnsNow
<1>5. ASSUME NEW s \in Series, AppendBar(s)
      PROVE  SeriesInv' /\ AbstractStep
  <2>1. PICK t \in Time : s \in Live /\ Stands(s, Append(Rows(series[s]), t))
    BY <1>5, AppendBarStands
  <2>2. ValuesNow[s] = Rows(series[s]) /\ ValuesNow[s] # NoSeries
    BY <2>1, ValueShown
  <2>3. SeriesInv' /\ Values!Holds(s, Append(ValuesNow[s], t)) /\ ColumnsNow' = ColumnsNow
    <3>1. SeriesInv' /\ ColumnsNow' = ColumnsNow /\ ValuesNow' = [ValuesNow EXCEPT ![s] = Append(ValuesNow[s], t)]
      BY <2>1, <2>2 DEF Stands
    <3>2. Values!Holds(s, Append(ValuesNow[s], t))
             <=> ValuesNow' = [ValuesNow EXCEPT ![s] = Append(ValuesNow[s], t)]
      BY DEF Values!Holds, ValuesNow
    <3>. QED
      BY <3>1, <3>2
  <2>4. Values!Extend(s)
    BY <2>2, <2>3 DEF Values!Extend, ValuesNow
  <2>. QED
    BY <2>3, <2>4 DEF AbstractStep, Values!Next, ColumnsNow
<1>6. ASSUME NEW s \in Series, TailView(s)
      PROVE  SeriesInv' /\ AbstractStep
  <2>1. PICK r \in Live : \E k \in 0..Len(Rows(series[r])) :
          Stands(s, SubSeq(Rows(series[r]), Len(Rows(series[r])) - k + 1, Len(Rows(series[r]))))
    BY <1>6, TailViewStands
  <2>2. r \in Series /\ ValuesNow[r] = Rows(series[r]) /\ ValuesNow[r] # NoSeries
    BY ValueShown
  <2>3. PICK k \in 0..Len(ValuesNow[r]) :
          Stands(s, SubSeq(ValuesNow[r], Len(ValuesNow[r]) - k + 1, Len(ValuesNow[r])))
    BY <2>1, <2>2
  <2>4. /\ SeriesInv' /\ ColumnsNow' = ColumnsNow
        /\ ValuesNow' = [ValuesNow EXCEPT ![s] =
                           SubSeq(ValuesNow[r], Len(ValuesNow[r]) - k + 1, Len(ValuesNow[r]))]
    BY <2>3 DEF Stands
  <2>5. Values!TailOf(s, r)
    <3>1. Values!TailOf(s, r)
             <=> /\ ValuesNow[r] # NoSeries
                 /\ \E n \in 0..Len(ValuesNow[r]) :
                      ValuesNow' = [ValuesNow EXCEPT ![s] =
                                      SubSeq(ValuesNow[r], Len(ValuesNow[r]) - n + 1, Len(ValuesNow[r]))]
      BY DEF Values!TailOf, Values!Holds, ValuesNow
    <3>. QED
      BY <2>2, <2>4, <3>1
  <2>. QED
    BY <2>2, <2>4, <2>5 DEF AbstractStep, Values!Next, ColumnsNow
<1>7. ASSUME NEW s \in Series, SliceView(s)
      PROVE  SeriesInv' /\ AbstractStep
  <2>1. PICK r \in Live, from \in Time, to \in Time :
          \E v \in Values!Cuts(Rows(series[r]), from, to) : Stands(s, v)
    BY <1>7, SliceViewStands
  <2>2. r \in Series /\ ValuesNow[r] = Rows(series[r]) /\ ValuesNow[r] # NoSeries
    BY ValueShown
  <2>3. PICK v \in Values!Cuts(ValuesNow[r], from, to) : Stands(s, v)
    BY <2>1, <2>2
  <2>4. SeriesInv' /\ ColumnsNow' = ColumnsNow /\ Values!Holds(s, v)
    BY <2>3, StandsHolds
  <2>5. Values!SliceOf(s, r)
    BY <2>2, <2>3, <2>4 DEF Values!SliceOf, ValuesNow
  <2>. QED
    BY <2>2, <2>4, <2>5 DEF AbstractStep, Values!Next, ColumnsNow
<1>8. ASSUME NEW s \in Series, ReadColumns(s)
      PROVE  SeriesInv' /\ AbstractStep
  <2>1. s \in Live /\ SeriesInv' /\ ValuesNow' = ValuesNow /\ ColumnsNow' = Rows(series[s])
    BY <1>8, ReadColumnsKeeps
  <2>2. ValuesNow[s] # NoSeries /\ ColumnsNow' = ValuesNow[s]
    BY <2>1, ValueShown
  <2>3. Values!Read(s)
    BY <2>1, <2>2 DEF Values!Read, ValuesNow, ColumnsNow
  <2>. QED
    BY <2>1, <2>3 DEF AbstractStep, Values!Next
<1>. QED
  BY <1>1, <1>2, <1>3, <1>4, <1>5, <1>6, <1>7, <1>8 DEF SeriesNext

(* Every window lies in its buffer, on bars in time order, and whatever    *)
(* shares a buffer with a series that has room ends where that series' own *)
(* bars do (append, _grow, _window).                                       *)
THEOREM SeriesInvariant == SeriesSpec => []SeriesInv
<1>1. SeriesInit => SeriesInv
  BY InitHolds
<1>2. SeriesInv /\ [SeriesNext]_seriesVars => SeriesInv'
  BY StepHolds
<1>. QED
  BY <1>1, <1>2, PTL DEF SeriesSpec

(* No view or column covers a row that a series may still write, and tails *)
(* and slices are exactly the bars that were asked for (tail, slice).      *)
THEOREM ViewsStaySound == SeriesSpec => []ViewsAreSound
<1>1. SeriesInv => ViewsAreSound
  BY InvIsSound
<1>. QED
  BY <1>1, SeriesInvariant, PTL

(* Shared buffers or not, every series behaves as a sequence of its own,   *)
(* and columns handed out stay as they were read (BarSeries).              *)
THEOREM SeriesAreValues == SeriesSpec => ImplementsValues
<1>1. SeriesInit => Values!Init
  BY InitHolds
<1>2. SeriesInv /\ [SeriesNext]_seriesVars => AbstractStep
  BY StepHolds
<1>3. AbstractStep => [Values!Next]_<<ValuesNow, ColumnsNow>>
  BY DEF AbstractStep
<1>. QED
  BY <1>1, <1>2, <1>3, SeriesInvariant, PTL DEF SeriesSpec, ImplementsValues, Values!Spec, ValuesNow, ColumnsNow
=============================================================================
