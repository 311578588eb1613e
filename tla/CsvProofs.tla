------------------------------ MODULE CsvProofs ------------------------------
(***************************************************************************)
(* Machine-checked proofs about CsvRead, for any files and rows, any       *)
(* symbols, window, warm-up, row budget and width of a bar, dated after    *)
(* the epoch: the tables and the arithmetic of bars, slices and warm-up    *)
(* probes, then the invariant of the generator and what follows from it,   *)
(* then the quotes and the warm-up.  And about CsvConvert, for any exports *)
(* and rows: the power of ten of a stamp, the width of a bar, the table    *)
(* and its entry, then pruning, repair and lookahead.                      *)
(***************************************************************************)
EXTENDS CsvRead, CsvConvert, FiniteSetTheorems, WellFoundedInduction, TLAPS

-----------------------------------------------------------------------------
(* The least of a set of naturals, and induction about a set. *)
LEMMA Least ==
  ASSUME NEW S \in SUBSET Nat, S # {}
  PROVE  \E x \in S : \A y \in S : x <= y
<1> DEFINE Less == OpToRel(<, Nat)
<1>1. PICK x \in S : \A y \in S : <<y, x>> \notin Less
  <2>1. IsWellFoundedOn(Less, Nat)
    BY NatLessThanWellFounded
  <2> HIDE DEF Less
  <2> QED BY <2>1, WFMin, Zenon
<1>2. ASSUME NEW y \in S, ~(x <= y)
      PROVE  FALSE
  <2>1. <<y, x>> \in Less
    BY <1>2 DEF OpToRel
  <2> QED BY <1>1, <2>1
<1> QED
  BY <1>1, <1>2

LEMMA InductionUpTo ==
  ASSUME NEW n \in Nat, NEW S, 0 \in S, \A i \in 0..n - 1 : i \in S => i + 1 \in S
  PROVE  0..n \subseteq S
<1> DEFINE missing == 0..n \ S
<1> SUFFICES ASSUME missing # {}
             PROVE  FALSE
  OBVIOUS
<1>1. PICK x \in missing : \A y \in missing : x <= y
  <2>1. missing \in SUBSET Nat
    OBVIOUS
  <2> HIDE DEF missing
  <2> QED BY <2>1, Least
<1>2. x - 1 \in 0..n - 1 /\ x - 1 \in S
  BY <1>1
<1> QED
  BY <1>1, <1>2

-----------------------------------------------------------------------------
(* The least and the greatest of a finite set of integers. *)
LEMMA Extremes ==
  ASSUME NEW S \in SUBSET Int, IsFiniteSet(S), S # {}
  PROVE  /\ Min(S) \in S /\ \A y \in S : Min(S) <= y
         /\ Max(S) \in S /\ \A y \in S : y <= Max(S)
<1>1. PICK n \in Nat : ExistsSurjection(1..n, S)
  BY FS_NatSurjection
<1>2. PICK f \in [1..n -> S] : \A s \in S : \E i \in 1..n : f[i] = s
  BY <1>1 DEF ExistsSurjection, Surjection
<1> DEFINE Done == {m \in 0..n : m > 0 =>
                      \E a, b \in 1..m : \A i \in 1..m : f[a] <= f[i] /\ f[i] <= f[b]}
<1>3. ASSUME NEW m \in 0..n - 1, m \in Done
      PROVE  m + 1 \in Done
  <2>0. m + 1 \in 1..n /\ m + 1 \in 0..n /\ m \in 0..n
    OBVIOUS
  <2>1. \A i \in 1..n : f[i] \in Int
    BY <1>2
  <2>2. CASE m = 0
    <3>1. \A i \in 1..m + 1 : i = 1
      BY <2>2
    <3>2. 1 \in 1..m + 1 /\ f[1] \in Int
      BY <2>0, <2>1, <2>2
    <3>3. \A i \in 1..m + 1 : f[1] <= f[i] /\ f[i] <= f[1]
      BY <3>1, <3>2
    <3> QED BY <2>0, <3>2, <3>3
  <2>3. CASE m > 0
    <3>1. PICK a, b \in 1..m : \A i \in 1..m : f[a] <= f[i] /\ f[i] <= f[b]
      BY <1>3, <2>3
    <3> DEFINE lo == IF f[m + 1] < f[a] THEN m + 1 ELSE a
               hi == IF f[m + 1] > f[b] THEN m + 1 ELSE b
    <3>2. lo \in 1..m + 1 /\ hi \in 1..m + 1
      OBVIOUS
    <3>3. f[a] \in Int /\ f[b] \in Int /\ f[m + 1] \in Int
      BY <2>0, <2>1
    <3>4. ASSUME NEW i \in 1..m + 1
          PROVE  f[lo] <= f[i] /\ f[i] <= f[hi]
      <4>1. f[i] \in Int
        BY <2>0, <2>1
      <4>2. CASE i = m + 1
        BY <3>3, <4>1, <4>2
      <4>3. CASE i \in 1..m
        BY <3>1, <3>3, <4>1, <4>3
      <4> QED BY <4>2, <4>3
    <3> HIDE DEF lo, hi
    <3> QED BY <2>0, <3>2, <3>4
  <2> QED BY <2>0, <2>2, <2>3
<1>4. 0 \in Done
  OBVIOUS
<1>5. n \in Done /\ n > 0
  <2>1. 0..n \subseteq Done
    <3> HIDE DEF Done
    <3> QED BY <1>3, <1>4, InductionUpTo
  <2>2. PICK s \in S : TRUE
    OBVIOUS
  <2>3. PICK i \in 1..n : f[i] = s
    BY <1>2
  <2>4. n \in 0..n /\ n > 0
    BY <2>3
  <2> HIDE DEF Done
  <2> QED BY <2>1, <2>4
<1>6. PICK a, b \in 1..n : \A i \in 1..n : f[a] <= f[i] /\ f[i] <= f[b]
  BY <1>5
<1>7. f[a] \in S /\ f[b] \in S /\ \A y \in S : f[a] <= y /\ y <= f[b]
  BY <1>2, <1>6
<1>8. \E x \in S : \A y \in S : x <= y
  BY <1>7
<1>9. \E x \in S : \A y \in S : x >= y
  BY <1>7
<1>10. Max(S) \in S /\ \A y \in S : Max(S) >= y
  BY <1>9, Zenon DEF Max
<1>11. Min(S) \in S /\ \A y \in S : Min(S) <= y
  BY <1>8, Zenon DEF Min
<1> QED
  BY <1>10, <1>11

LEMMA OfTwo ==
  ASSUME NEW a \in Int, NEW b \in Int
  PROVE  /\ Min({a, b}) \in {a, b} /\ Min({a, b}) <= a /\ Min({a, b}) <= b
         /\ Max({a, b}) \in {a, b} /\ Max({a, b}) >= a /\ Max({a, b}) >= b
<1>1. IsFiniteSet({a, b}) /\ {a, b} \in SUBSET Int /\ {a, b} # {}
  <2>1. IsFiniteSet({a}) /\ IsFiniteSet({b})
    BY FS_Singleton
  <2>2. {a, b} = {a} \cup {b}
    OBVIOUS
  <2> QED BY <2>1, <2>2, FS_Union
<1>2. a \in {a, b} /\ b \in {a, b}
  OBVIOUS
<1>3. /\ Min({a, b}) \in {a, b} /\ \A y \in {a, b} : Min({a, b}) <= y
      /\ Max({a, b}) \in {a, b} /\ \A y \in {a, b} : y <= Max({a, b})
  BY <1>1, Extremes
<1> QED
  BY <1>3

(* Those greater than t: the n-th greatest has n - 1.                      *)
Above(S, t) == {u \in S : u > t}

LEMMA AboveFacts ==
  ASSUME NEW S \in SUBSET Int, IsFiniteSet(S), NEW t \in S
  PROVE  /\ IsFiniteSet(Above(S, t)) /\ Above(S, t) \in SUBSET S
         /\ Cardinality(Above(S, t)) \in Nat
         /\ \A u : u \in Above(S, t) <=> u \in S /\ u > t
         /\ t \notin Above(S, t)
<1>1. Above(S, t) \in SUBSET S /\ \A u : u \in Above(S, t) <=> u \in S /\ u > t
  BY DEF Above
<1>2. IsFiniteSet(Above(S, t)) /\ Cardinality(Above(S, t)) \in Nat
  BY <1>1, FS_Subset, FS_CardinalityType
<1>3. t \in Int
  OBVIOUS
<1> QED
  BY <1>1, <1>2, <1>3

LEMMA NthGreatest ==
  ASSUME NEW S \in SUBSET Int, IsFiniteSet(S), NEW n \in Nat \ {0}, n <= Cardinality(S)
  PROVE  \E t \in S : Cardinality(Above(S, t)) = n - 1
<1> DEFINE Done == {m \in 0..n : m > 0 => \E t \in S : Cardinality(Above(S, t)) = m - 1}
<1>1. Cardinality(S) \in Nat /\ S # {}
  BY FS_CardinalityType, FS_EmptySet
<1>2. 0 \in Done
  OBVIOUS
<1>3. ASSUME NEW m \in 0..n - 1, m \in Done
      PROVE  m + 1 \in Done
  <2>0. m + 1 \in 0..n
    OBVIOUS
  <2>1. CASE m = 0
    <3> DEFINE top == Max(S)
    <3>1. top \in S /\ \A y \in S : y <= top
      BY <1>1, Extremes
    <3> HIDE DEF top
    <3>2. Above(S, top) = {}
      <4>1. top \in Int
        BY <3>1
      <4>2. ASSUME NEW u \in Above(S, top)
            PROVE  FALSE
        <5>1. u \in S /\ u > top
          BY DEF Above
        <5>2. u \in Int /\ u <= top
          BY <3>1, <5>1
        <5> QED BY <4>1, <5>1, <5>2
      <4> QED BY <4>2
    <3>3. Cardinality(Above(S, top)) = 0
      BY <3>2, FS_EmptySet
    <3>4. \E t \in S : Cardinality(Above(S, t)) = m + 1 - 1
      BY <2>1, <3>1, <3>3
    <3> QED BY <2>0, <3>4
  <2>2. CASE m > 0
    <3>1. PICK t \in S : Cardinality(Above(S, t)) = m - 1
      BY <1>3, <2>2
    <3> DEFINE from == Above(S, t) \cup {t}
               rest == S \ from
    <3>2. IsFiniteSet(Above(S, t)) /\ Above(S, t) \in SUBSET S /\ t \notin Above(S, t)
      BY AboveFacts
    <3>3. IsFiniteSet(from) /\ Cardinality(from) = m
      <4>1. Cardinality(from) = Cardinality(Above(S, t)) + 1 /\ IsFiniteSet(from)
        BY <3>2, FS_AddElement
      <4> HIDE DEF from
      <4> QED BY <3>1, <4>1
    <3>4. rest # {} /\ IsFiniteSet(rest) /\ rest \in SUBSET Int
      <4>1. S # from
        BY <3>3
      <4>2. from \subseteq S
        BY <3>2
      <4>3. rest \in SUBSET S
        OBVIOUS
      <4>4. IsFiniteSet(rest)
        BY <4>3, FS_Subset
      <4> QED BY <4>1, <4>2, <4>3, <4>4
    <3> DEFINE next == Max(rest)
    <3>5. next \in rest /\ \A y \in rest : y <= next
      <4> HIDE DEF rest
      <4> QED BY <3>4, Extremes
    <3> HIDE DEF next
    <3>6. next \in S /\ next \in Int /\ t \in Int
      BY <3>5
    <3>7. next < t
      BY <3>5, <3>6, AboveFacts
    <3>8. \A u : u \in Above(S, next) <=> u \in from
      <4> SUFFICES ASSUME NEW u \in S
                   PROVE  u > next <=> u \in from
        BY <3>2 DEF Above
      <4>1. u \in Int /\ (u \in Above(S, t) <=> u > t)
        BY AboveFacts
      <4>2. u \in from \/ u <= next
        BY <3>5
      <4>3. u \in from <=> u > t \/ u = t
        BY <4>1
      <4> HIDE DEF from
      <4> QED BY <3>6, <3>7, <4>1, <4>2, <4>3
    <3>9. Above(S, next) = from
      BY <3>8
    <3>10. Cardinality(Above(S, next)) = m + 1 - 1
      BY <3>3, <3>9
    <3> QED BY <2>0, <3>6, <3>10
  <2> QED BY <2>1, <2>2
<1>4. n \in Done
  <2>1. 0..n \subseteq Done
    <3> HIDE DEF Done
    <3> QED BY <1>2, <1>3, InductionUpTo
  <2> QED BY <2>1
<1> QED
  BY <1>4

-----------------------------------------------------------------------------
(* What is read. *)
LEMMA ImageIsFinite ==
  ASSUME NEW S, IsFiniteSet(S), NEW T, NEW f \in [S -> T], \A t \in T : \E s \in S : f[s] = t
  PROVE  IsFiniteSet(T)
<1>1. f \in Surjection(S, T)
  BY DEF Surjection
<1> QED
  BY <1>1, FS_Surjection

Fixed == files \in Datasets /\ request \in Requests

LEMMA RequestFacts ==
  ASSUME Fixed
  PROVE  /\ request.what \in {"bars", "quotes"} /\ request.symbols \subseteq Symbols
         /\ request.start \in Int /\ request.end \in Int /\ request.start < request.end
         /\ request.warmup \in Nat /\ request.chunk \in Nat \ {0}
         /\ request.maxAge \in Int \cup {Nothing}
         /\ Width \in Nat /\ Day \in Nat \ {0} /\ Reach \in Nat \ {0}
         /\ Frame \in Nat \ {0}
BY CsvReadAssumption DEF Fixed, CsvReadAssumption, Frame

LEMMA FileFacts ==
  ASSUME Fixed, NEW f \in DOMAIN files
  PROVE  /\ IsFiniteSet(files[f].rows) /\ files[f].rows # {} /\ f \in Nat
         /\ \A k \in files[f].rows : k[1] \in Int /\ k[2] \in Symbols /\ k = <<k[1], k[2]>>
         /\ \A k \in files[f].rows : MinTs(f) <= k[1] /\ k[1] <= MaxTs(f)
         /\ MinTs(f) \in Int /\ MaxTs(f) \in Int
         /\ \E k \in files[f].rows : k[1] = MinTs(f)
         /\ \E k \in files[f].rows : k[1] = MaxTs(f)
<1> DEFINE recorded == files[f].rows
           instants == {k[1] : k \in recorded}
<1>1. recorded \subseteq Int \X Symbols /\ IsFiniteSet(recorded) /\ recorded # {} /\ f \in Nat
  BY CsvReadAssumption DEF Fixed, CsvReadAssumption
<1>2. \A k \in recorded : k[1] \in Int /\ k[2] \in Symbols /\ k = <<k[1], k[2]>>
  BY <1>1
<1>3. IsFiniteSet(instants) /\ instants # {} /\ instants \in SUBSET Int
  <2> DEFINE g == [k \in recorded |-> k[1]]
  <2>1. g \in [recorded -> instants]
    OBVIOUS
  <2>2. \A t \in instants : \E k \in recorded : g[k] = t
    OBVIOUS
  <2>3. IsFiniteSet(instants)
    <3> HIDE DEF instants, g, recorded
    <3> QED BY <1>1, <2>1, <2>2, ImageIsFinite
  <2>4. instants # {} /\ instants \in SUBSET Int
    BY <1>1, <1>2
  <2> QED BY <2>3, <2>4
<1>4. /\ MinTs(f) \in instants /\ \A y \in instants : MinTs(f) <= y
      /\ MaxTs(f) \in instants /\ \A y \in instants : y <= MaxTs(f)
  <2>1. MinTs(f) = Min(instants) /\ MaxTs(f) = Max(instants)
    BY DEF MinTs, MaxTs
  <2> HIDE DEF instants
  <2> QED BY <1>3, <2>1, Extremes
<1>5. \A k \in recorded : k[1] \in instants
  OBVIOUS
<1>6. \A t \in instants : \E k \in recorded : k[1] = t
  OBVIOUS
<1> HIDE DEF instants
<1> QED
  BY <1>1, <1>2, <1>3, <1>4, <1>5, <1>6

(* A window of a table; a slice of a selection of files is one of all the  *)
(* rows they have, the file each row is taken from included.               *)
Between(table, lo, hi) ==
  [k \in {r \in DOMAIN table : lo <= r[1] /\ r[1] <= hi} |-> table[k]]

LEMMA RowIn ==
  ASSUME NEW es, NEW k
  PROVE  k \in DOMAIN AllRows(es) <=>
           k[2] \in request.symbols /\ \E f \in es : k \in files[f].rows
BY DEF AllRows

LEMMA RowsAre ==
  ASSUME NEW es, NEW lo, NEW hi, NEW k
  PROVE  k \in Rows(es, lo, hi) <=> k \in DOMAIN AllRows(es) /\ lo <= k[1] /\ k[1] <= hi
BY RowIn DEF Rows, RowsOf

LEMMA RowTypes ==
  ASSUME Fixed, NEW es \in SUBSET DOMAIN files, NEW k \in DOMAIN AllRows(es)
  PROVE  k[1] \in Int /\ k[2] \in request.symbols /\ k = <<k[1], k[2]>>
BY RowIn, FileFacts

LEMMA GatherIsBetween ==
  ASSUME NEW es, NEW lo, NEW hi
  PROVE  Gather(es, lo, hi) = Between(AllRows(es), lo, hi)
<1>1. Rows(es, lo, hi) = {r \in DOMAIN AllRows(es) : lo <= r[1] /\ r[1] <= hi}
  BY RowsAre
<1>2. \A k \in DOMAIN AllRows(es) : AllRows(es)[k] = Taken(es, k)
  BY DEF AllRows
<1> QED
  BY <1>1, <1>2 DEF Gather, Between

LEMMA SliceIsBetween ==
  ASSUME Fixed, NEW es \in SUBSET DOMAIN files, NEW lo \in Int, NEW hi \in Int
  PROVE  Gather(Active(es, lo, hi), lo, hi) = Between(AllRows(es), lo, hi)
<1> DEFINE active == Active(es, lo, hi)
<1>1. \A k : \A f \in es : k \in files[f].rows /\ lo <= k[1] /\ k[1] <= hi => f \in active
  <2> SUFFICES ASSUME NEW f \in es, NEW k \in files[f].rows, lo <= k[1], k[1] <= hi
               PROVE  f \in active
    OBVIOUS
  <2>1. /\ MinTs(f) <= k[1] /\ k[1] <= MaxTs(f) /\ k[1] \in Int
        /\ MinTs(f) \in Int /\ MaxTs(f) \in Int
    BY FileFacts
  <2> QED BY <2>1 DEF Active, Overlaps
<1>2. active \subseteq es
  BY DEF Active
<1> HIDE DEF active
<1>3. \A k : k \in Rows(active, lo, hi) <=> k \in Rows(es, lo, hi)
  BY <1>1, <1>2, RowsAre, RowIn
<1>4. \A k \in Rows(es, lo, hi) : Taken(active, k) = Taken(es, k)
  <2> SUFFICES ASSUME NEW k \in Rows(es, lo, hi)
               PROVE  Taken(active, k) = Taken(es, k)
    OBVIOUS
  <2>1. lo <= k[1] /\ k[1] <= hi
    BY RowsAre
  <2>2. {f \in active : k \in files[f].rows} = {f \in es : k \in files[f].rows}
    BY <1>1, <1>2, <2>1
  <2> QED BY <2>2 DEF Taken
<1>5. Gather(active, lo, hi) = Gather(es, lo, hi)
  BY <1>3, <1>4 DEF Gather
<1> QED
  BY <1>5, GatherIsBetween DEF active

-----------------------------------------------------------------------------
(* Bars.  One begins at x, and then every bar is to one side of x. *)
Opens(x) == Width = 0 \/ \E q \in Int : x = q * Width + 1

LEMMA CloseFacts ==
  ASSUME NEW t \in Int
  PROVE  /\ CloseOf(t) \in Int /\ t <= CloseOf(t)
         /\ Width = 0 => CloseOf(t) = t
         /\ Width > 0 => CloseOf(t) < t + Width /\ \E q \in Int : CloseOf(t) = q * Width
<1>1. Width \in Nat
  BY CsvReadAssumption DEF CsvReadAssumption
<1>2. CASE Width = 0
  BY <1>2 DEF CloseOf
<1>3. CASE Width > 0
  <2> DEFINE q == (t - 1) \div Width
  <2>1. q \in Int /\ q * Width <= t - 1 /\ t - 1 < q * Width + Width
    BY <1>1, <1>3
  <2>2. CloseOf(t) = (q + 1) * Width
    BY <1>1, <1>3 DEF CloseOf
  <2> HIDE DEF q
  <2>3. q + 1 \in Int /\ (q + 1) * Width = q * Width + Width /\ q * Width \in Int
    BY <1>1, <2>1
  <2> QED BY <1>1, <1>3, <2>1, <2>2, <2>3
<1> QED
  BY <1>1, <1>2, <1>3

LEMMA OpensSplits ==
  ASSUME NEW x \in Int, Opens(x), NEW t \in Int
  PROVE  x <= t <=> x <= CloseOf(t)
<1>1. Width \in Nat /\ CloseOf(t) \in Int /\ t <= CloseOf(t)
  BY CloseFacts, CsvReadAssumption DEF CsvReadAssumption
<1>2. CASE Width = 0
  BY <1>2, CloseFacts
<1>3. CASE Width > 0
  <2>1. PICK q \in Int : x = q * Width + 1
    BY <1>3 DEF Opens
  <2>2. PICK p \in Int : CloseOf(t) = p * Width
    BY <1>3, CloseFacts
  <2>3. CloseOf(t) < t + Width
    BY <1>3, CloseFacts
  <2>4. ASSUME t < x, x <= CloseOf(t)
        PROVE  FALSE
    <3>1. p * Width < q * Width + Width /\ q * Width < p * Width
      BY <1>1, <2>1, <2>2, <2>3, <2>4
    <3>2. p < q + 1
      BY <1>1, <1>3, <3>1
    <3>3. q < p
      BY <1>1, <1>3, <3>1
    <3> QED BY <3>2, <3>3
  <2> QED BY <1>1, <2>4
<1> QED
  BY <1>1, <1>2, <1>3

LEMMA BarKeys ==
  ASSUME NEW table, NEW fq \in BOOLEAN, NEW k
  PROVE  k \in DOMAIN BarsOf(table, fq) <=>
           \E r \in DOMAIN table : k = IF fq THEN <<CloseOf(r[1]), r[2]>> ELSE r
BY DEF BarsOf, Fold, AsBars

(* The bars that close by the end of the window, made of the rows of a     *)
(* slice of it, are the bars of the slice made of all the rows there are:  *)
(* the slice from lo to hi, after which the next begins at next.           *)
SliceOf(es, fq, lo, hi, next) ==
  /\ es \in SUBSET DOMAIN files /\ fq \in BOOLEAN
  /\ lo \in Int /\ hi \in Int /\ next \in Int
  /\ hi < next /\ hi <= request.end
  /\ fq => Opens(lo)
  /\ hi = request.end \/ (hi = next - 1 /\ (fq => Opens(next)))
SliceIsWhole(es, fq, lo, hi, next) ==
  LET whole == BarsOf(AllRows(es), fq)
      bars  == BarsOf(Between(AllRows(es), lo, hi), fq)
  IN /\ \A k : k \in DOMAIN bars /\ k[1] <= request.end <=>
                 k \in DOMAIN whole /\ lo <= k[1] /\ k[1] < next /\ k[1] <= request.end
     /\ \A k \in DOMAIN bars : k[1] <= request.end => bars[k] = whole[k]

LEMMA SliceBars ==
  ASSUME Fixed, NEW es, NEW fq, NEW lo, NEW hi, NEW next, SliceOf(es, fq, lo, hi, next)
  PROVE  SliceIsWhole(es, fq, lo, hi, next)
<1> DEFINE all   == AllRows(es)
           table == Between(all, lo, hi)
           whole == BarsOf(all, fq)
           bars  == BarsOf(table, fq)
<1>1. /\ es \in SUBSET DOMAIN files /\ fq \in BOOLEAN
      /\ lo \in Int /\ hi \in Int /\ next \in Int /\ request.end \in Int
      /\ hi < next /\ hi <= request.end
      /\ fq => Opens(lo)
      /\ hi = request.end \/ (hi = next - 1 /\ (fq => Opens(next)))
  BY RequestFacts DEF SliceOf
<1>2. \A r : r \in DOMAIN table <=> r \in DOMAIN all /\ lo <= r[1] /\ r[1] <= hi
  BY DEF Between
<1>3. \A r \in DOMAIN table : table[r] = all[r]
  BY DEF Between
<1>4. \A r \in DOMAIN all : r[1] \in Int /\ r = <<r[1], r[2]>>
  BY <1>1, RowTypes
<1> HIDE DEF table, all
<1>5. CASE fq = FALSE
  <2>1. \A k : k \in DOMAIN bars <=> k \in DOMAIN table
    BY <1>5, BarKeys
  <2>2. \A k : k \in DOMAIN whole <=> k \in DOMAIN all
    BY <1>5, BarKeys
  <2>3. \A k \in DOMAIN table : bars[k] = whole[k]
    BY <1>2, <1>3, <1>5 DEF BarsOf, AsBars
  <2> HIDE DEF bars, whole
  <2>4. \A k \in DOMAIN all : lo <= k[1] /\ k[1] <= hi <=>
                                lo <= k[1] /\ k[1] < next /\ k[1] <= request.end
    BY <1>1, <1>4
  <2> QED BY <1>2, <2>1, <2>2, <2>3, <2>4 DEF SliceIsWhole, bars, whole, all, table
<1>6. CASE fq = TRUE
  <2>1. \A r \in DOMAIN all : CloseOf(r[1]) \in Int /\ r[1] <= CloseOf(r[1])
    BY <1>4, CloseFacts
  <2>2. \A r \in DOMAIN all : lo <= r[1] <=> lo <= CloseOf(r[1])
    BY <1>1, <1>4, <1>6, OpensSplits
  <2>3. \A r \in DOMAIN all : CloseOf(r[1]) <= request.end =>
                                (r[1] <= hi <=> CloseOf(r[1]) < next)
    <3> SUFFICES ASSUME NEW r \in DOMAIN all, CloseOf(r[1]) <= request.end
                 PROVE  r[1] <= hi <=> CloseOf(r[1]) < next
      OBVIOUS
    <3> DEFINE t == r[1]
               c == CloseOf(r[1])
    <3>1. t \in Int /\ c \in Int /\ t <= c
      BY <1>4, <2>1
    <3>2. CASE hi = request.end
      <4> HIDE DEF t, c
      <4> QED BY <1>1, <3>1, <3>2 DEF c, t
    <3>3. CASE hi = next - 1 /\ Opens(next)
      <4>1. next <= t <=> next <= c
        BY <1>1, <3>1, <3>3, OpensSplits
      <4> HIDE DEF t, c
      <4>2. t <= hi <=> c < next
        BY <1>1, <3>1, <3>3, <4>1
      <4> QED BY <4>2 DEF t, c
    <3> QED BY <1>1, <1>6, <3>2, <3>3
  <2>4. \A k : k \in DOMAIN bars <=> \E r \in DOMAIN table : k = <<CloseOf(r[1]), r[2]>>
    BY <1>6 DEF BarsOf, Fold
  <2>5. \A k : k \in DOMAIN whole <=> \E r \in DOMAIN all : k = <<CloseOf(r[1]), r[2]>>
    BY <1>6 DEF BarsOf, Fold
  <2>6. \A k \in DOMAIN bars : bars[k] = Parts(table, k)
    BY <1>6 DEF BarsOf, Fold
  <2>7. \A k \in DOMAIN whole : whole[k] = Parts(all, k)
    BY <1>6 DEF BarsOf, Fold
  <2> HIDE DEF bars, whole
  <2>8. ASSUME NEW k
        PROVE  k \in DOMAIN bars /\ k[1] <= request.end <=>
                 k \in DOMAIN whole /\ lo <= k[1] /\ k[1] < next /\ k[1] <= request.end
    <3>1. ASSUME NEW r \in DOMAIN all, k = <<CloseOf(r[1]), r[2]>>, k[1] <= request.end
          PROVE  r \in DOMAIN table <=> lo <= k[1] /\ k[1] < next
      BY <1>2, <2>2, <2>3, <3>1
    <3> QED BY <1>2, <2>4, <2>5, <3>1
  <2>9. ASSUME NEW k \in DOMAIN bars, k[1] <= request.end
        PROVE  bars[k] = whole[k]
    <3>1. k \in DOMAIN whole /\ lo <= k[1] /\ k[1] < next
      BY <2>8, <2>9
    <3>2. \A r \in DOMAIN all : CloseOf(r[1]) = k[1] => r \in DOMAIN table
      BY <1>2, <2>2, <2>3, <2>9, <3>1
    <3>3. {r \in DOMAIN table : CloseOf(r[1]) = k[1] /\ r[2] = k[2]}
            = {r \in DOMAIN all : CloseOf(r[1]) = k[1] /\ r[2] = k[2]}
      BY <1>2, <3>2
    <3>4. Parts(table, k) = Parts(all, k)
      BY <1>3, <3>3 DEF Parts
    <3> QED BY <2>6, <2>7, <3>1, <3>4
  <2> QED BY <2>8, <2>9 DEF SliceIsWhole, bars, whole, all, table
<1> QED
  BY <1>1, <1>5, <1>6

-----------------------------------------------------------------------------
(* Slices. *)
LEMMA FiniteSelection ==
  ASSUME Fixed, NEW es \in SUBSET DOMAIN files
  PROVE  /\ IsFiniteSet(es)
         /\ IsFiniteSet(UNION {files[f].rows : f \in es})
         /\ IsFiniteSet(DOMAIN AllRows(es))
<1>1. IsFiniteSet(es)
  <2>1. IsFiniteSet(DOMAIN files)
    BY CsvReadAssumption DEF Fixed, CsvReadAssumption
  <2> QED BY <2>1, FS_Subset
<1>2. IsFiniteSet(UNION {files[f].rows : f \in es})
  <2> DEFINE tables == {files[f].rows : f \in es}
             g == [f \in es |-> files[f].rows]
  <2>1. g \in [es -> tables] /\ \A t \in tables : \E f \in es : g[f] = t
    OBVIOUS
  <2>2. \A t \in tables : IsFiniteSet(t)
    BY FileFacts
  <2> HIDE DEF tables, g
  <2>3. IsFiniteSet(tables)
    BY <1>1, <2>1, ImageIsFinite
  <2>4. IsFiniteSet(UNION tables)
    BY <2>2, <2>3, FS_UNION
  <2> QED BY <2>4 DEF tables
<1>3. DOMAIN AllRows(es) \subseteq UNION {files[f].rows : f \in es}
  BY DEF AllRows
<1> QED
  BY <1>1, <1>2, <1>3, FS_Subset

LEMMA TotalIsNat ==
  ASSUME Fixed, NEW es \in SUBSET DOMAIN files
  PROVE  Total(es) \in Nat
<1> DEFINE counted == {{f} \X files[f].rows : f \in es}
           g == [f \in es |-> {f} \X files[f].rows]
<1>1. g \in [es -> counted] /\ \A t \in counted : \E f \in es : g[f] = t
  OBVIOUS
<1>2. \A t \in counted : IsFiniteSet(t)
  <2>1. ASSUME NEW f \in es
        PROVE  IsFiniteSet({f} \X files[f].rows)
    <3>1. IsFiniteSet({f}) /\ IsFiniteSet(files[f].rows)
      BY FS_Singleton, FileFacts
    <3> QED BY <3>1, FS_Product
  <2> QED BY <2>1
<1>3. Total(es) = Cardinality(UNION counted)
  BY DEF Total
<1> HIDE DEF counted, g
<1>4. IsFiniteSet(counted)
  BY <1>1, FiniteSelection, ImageIsFinite
<1> QED
  BY <1>2, <1>3, <1>4, FS_UNION, FS_CardinalityType

LEMMA FloorFacts ==
  ASSUME Fixed, NEW es \in SUBSET DOMAIN files, es # {}
  PROVE  /\ Floor(es) \in Int /\ \E f \in es : \E k \in files[f].rows : k[1] = Floor(es)
         /\ \A f \in es : \A k \in files[f].rows : Floor(es) <= k[1]
         /\ Covered(es) \in Nat \ {0}
<1> DEFINE firsts == {MinTs(f) : f \in es}
           lasts  == {MaxTs(f) : f \in es}
           g == [f \in es |-> MinTs(f)]
           h == [f \in es |-> MaxTs(f)]
<1>1. /\ g \in [es -> firsts] /\ \A t \in firsts : \E f \in es : g[f] = t
      /\ h \in [es -> lasts] /\ \A t \in lasts : \E f \in es : h[f] = t
  OBVIOUS
<1>2. /\ firsts # {} /\ firsts \in SUBSET Int
      /\ lasts # {} /\ lasts \in SUBSET Int
  BY FileFacts
<1>3. \A f \in es : MinTs(f) \in firsts
  OBVIOUS
<1>4. \A t \in firsts : \E f \in es : MinTs(f) = t
  OBVIOUS
<1>5. Floor(es) = Min(firsts) /\ Covered(es) = Max({Max(lasts) - Min(firsts), 1})
  BY DEF Floor, Covered
<1> HIDE DEF firsts, lasts, g, h
<1>6. IsFiniteSet(firsts) /\ IsFiniteSet(lasts)
  <2>1. IsFiniteSet(es)
    BY FiniteSelection
  <2>2. IsFiniteSet(firsts)
    BY <1>1, <2>1, ImageIsFinite
  <2>3. IsFiniteSet(lasts)
    BY <1>1, <2>1, ImageIsFinite
  <2> QED BY <2>2, <2>3
<1>7. /\ Min(firsts) \in firsts /\ \A y \in firsts : Min(firsts) <= y
      /\ Max(lasts) \in lasts
  BY <1>2, <1>6, Extremes
<1>8. Floor(es) \in Int /\ Min(firsts) \in Int /\ Max(lasts) \in Int
  <2>1. Min(firsts) \in Int
    BY <1>2, <1>7
  <2>2. Max(lasts) \in Int
    BY <1>2, <1>7
  <2> QED BY <1>5, <2>1, <2>2
<1>9. Covered(es) \in Nat \ {0}
  <2> DEFINE length == Max(lasts) - Min(firsts)
  <2>1. length \in Int /\ 1 \in Int
    BY <1>8
  <2>2. Covered(es) = Max({length, 1})
    BY <1>5
  <2> HIDE DEF length
  <2>3. Covered(es) \in {length, 1} /\ Covered(es) >= 1
    BY <2>1, <2>2, OfTwo, Zenon
  <2> QED BY <2>1, <2>3
<1>10. PICK f \in es : MinTs(f) = Floor(es)
  BY <1>4, <1>5, <1>7
<1>11. \E k \in files[f].rows : k[1] = Floor(es)
  BY <1>10, FileFacts
<1>12. ASSUME NEW e \in es, NEW k \in files[e].rows
       PROVE  Floor(es) <= k[1]
  <2>1. MinTs(e) <= k[1] /\ MinTs(e) \in Int /\ k[1] \in Int
    BY FileFacts
  <2>2. Floor(es) <= MinTs(e)
    BY <1>3, <1>5, <1>7
  <2> QED BY <1>8, <2>1, <2>2
<1> QED
  BY <1>8, <1>9, <1>11, <1>12

(* A slice takes the reading on, in whole bars or past the end.            *)
LEMMA StepFacts ==
  ASSUME Fixed, NEW es \in SUBSET DOMAIN files, es # {}, NEW from \in Int, NEW align \in Nat
  PROVE  /\ Step(es, from, align) \in Nat \ {0}
         /\ \/ from + Step(es, from, align) > request.end
            \/ align = 0
            \/ \E q \in Int : Step(es, from, align) = q * align
<1> DEFINE span  == request.end - from
           share == (request.chunk * Covered(es)) \div Total(es)
           width == Max({share, 1})
           count == Min({(span \div width) + 1, MaxSlices})
           step  == span \div count + 1
           bars  == Max({(step + align - 1) \div align, 1})
<1>1. /\ span \in Int /\ request.end \in Int /\ request.chunk \in Nat \ {0}
      /\ Total(es) \in Nat /\ Covered(es) \in Nat \ {0}
  BY RequestFacts, TotalIsNat, FloorFacts
<1>2. Step(es, from, align) =
        IF span <= 0 \/ Total(es) <= request.chunk THEN Max({span, 0}) + 1
        ELSE IF align = 0 THEN step ELSE bars * align
  BY DEF Step
<1>3. CASE span <= 0 \/ Total(es) <= request.chunk
  <2>1. Max({span, 0}) \in Nat /\ Max({span, 0}) >= span
    <3>1. span \in Int /\ 0 \in Int
      BY <1>1
    <3> HIDE DEF span
    <3>2. Max({span, 0}) \in {span, 0} /\ Max({span, 0}) >= span /\ Max({span, 0}) >= 0
      BY <3>1, OfTwo, Zenon
    <3> QED BY <3>1, <3>2
  <2> DEFINE m == Max({span, 0})
  <2>2. Step(es, from, align) = m + 1 /\ m \in Nat /\ m >= span
    BY <1>2, <1>3, <2>1
  <2> HIDE DEF m
  <2>3. span = request.end - from
    OBVIOUS
  <2> HIDE DEF span
  <2> QED BY <1>1, <2>2, <2>3
<1>4. CASE span > 0 /\ Total(es) > request.chunk
  <2>1. share \in Int
    <3>1. request.chunk * Covered(es) \in Int /\ Total(es) \in Nat \ {0}
      BY <1>1, <1>4
    <3> QED BY <3>1
  <2> HIDE DEF share
  <2>2. width \in Int /\ width >= 1
    <3>1. width \in {share, 1} /\ width >= 1
      <4>1. 1 \in Int
        OBVIOUS
      <4> QED BY <2>1, <4>1, OfTwo, Zenon
    <3> HIDE DEF width
    <3> QED BY <2>1, <3>1
  <2> HIDE DEF width
  <2>3. (span \div width) + 1 \in Nat \ {0}
    BY <1>1, <1>4, <2>2
  <2>4. count \in Nat \ {0}
    <3> DEFINE wanted == (span \div width) + 1
    <3>1. wanted \in Int /\ MaxSlices \in Int /\ MaxSlices > 0
      BY <2>3 DEF MaxSlices
    <3>2. count \in {wanted, MaxSlices}
      <4> HIDE DEF wanted
      <4>1. Min({wanted, MaxSlices}) \in {wanted, MaxSlices}
        BY <3>1, OfTwo, Zenon
      <4> QED BY <4>1 DEF wanted
    <3> HIDE DEF count
    <3> QED BY <2>3, <3>1, <3>2
  <2> HIDE DEF count
  <2>5. step \in Nat \ {0}
    BY <1>1, <1>4, <2>4
  <2> HIDE DEF step
  <2>6. CASE align = 0
    BY <1>1, <1>2, <1>4, <2>5, <2>6
  <2>7. CASE align > 0
    <3>1. (step + align - 1) \div align \in Int
      BY <2>5, <2>7
    <3>2. bars \in Int /\ bars >= 1
      <4> DEFINE whole == (step + align - 1) \div align
      <4>1. whole \in Int /\ 1 \in Int
        BY <3>1
      <4> HIDE DEF whole
      <4>2. Max({whole, 1}) \in {whole, 1} /\ Max({whole, 1}) >= 1
        BY <4>1, OfTwo, Zenon
      <4>3. bars = Max({whole, 1})
        BY DEF whole
      <4> QED BY <4>1, <4>2, <4>3
    <3> HIDE DEF bars
    <3>3. bars * align \in Nat \ {0}
      BY <2>7, <3>2
    <3>4. Step(es, from, align) = bars * align
      BY <1>1, <1>2, <1>4, <2>7
    <3> QED BY <3>2, <3>3, <3>4
  <2> QED BY <2>6, <2>7
<1> QED
  BY <1>1, <1>3, <1>4

-----------------------------------------------------------------------------
(* Warm-up: where the probe comes out.                                     *)
LEMMA ProbeRowsAre ==
  ASSUME Fixed, NEW es \in SUBSET DOMAIN files, NEW probe \in Int
  PROVE  /\ IsFiniteSet(ProbeRows(es, probe))
         /\ \A k : k \in ProbeRows(es, probe) <=>
                     k \in DOMAIN AllRows(es) /\ probe <= k[1] /\ k[1] < request.start
<1> DEFINE last == request.start - 1
           active == Active(es, probe, request.start)
<1>1. request.start \in Int /\ last \in Int
  BY RequestFacts
<1>2. ProbeRows(es, probe) = Rows(active, probe, last)
  BY DEF ProbeRows
<1>3. ASSUME NEW k
      PROVE  k \in Rows(active, probe, last) <=>
               k \in DOMAIN AllRows(es) /\ probe <= k[1] /\ k[1] < request.start
  <2>1. k \in Rows(active, probe, last) <=>
          k \in DOMAIN AllRows(active) /\ probe <= k[1] /\ k[1] <= last
    BY RowsAre
  <2>2. k \in DOMAIN AllRows(active) => k \in DOMAIN AllRows(es)
    BY RowIn DEF Active
  <2>3. ASSUME k \in DOMAIN AllRows(es), probe <= k[1], k[1] < request.start
        PROVE  k \in DOMAIN AllRows(active)
    <3>1. PICK f \in es : k \in files[f].rows
      BY <2>3, RowIn
    <3>2. /\ MinTs(f) <= k[1] /\ k[1] <= MaxTs(f) /\ k[1] \in Int
          /\ MinTs(f) \in Int /\ MaxTs(f) \in Int
      BY <3>1, FileFacts
    <3>3. f \in active
      BY <1>1, <2>3, <3>2 DEF Active, Overlaps
    <3> HIDE DEF active
    <3> QED BY <2>3, <3>1, <3>3, RowIn
  <2>4. k \in DOMAIN AllRows(es) => k[1] \in Int
    BY RowTypes
  <2> HIDE DEF active
  <2> QED BY <1>1, <2>1, <2>2, <2>3, <2>4
<1>4. ProbeRows(es, probe) \subseteq DOMAIN AllRows(es)
  BY <1>2, <1>3
<1> QED
  BY <1>2, <1>3, <1>4, FiniteSelection, FS_Subset

LEMMA CutFacts ==
  ASSUME Fixed, NEW es \in SUBSET DOMAIN files, NEW probe \in Int, request.warmup > 0,
         Cut(es, probe) # Nothing
  PROVE  LET recorded == ProbeRows(es, probe)
         IN /\ \E k \in recorded : k[1] = Cut(es, probe)
            /\ \A k \in recorded : \E t \in Instants(recorded, k[2]) :
                 /\ Cut(es, probe) <= t
                 /\ Cardinality(Above(Instants(recorded, k[2]), t)) = request.warmup - 1
<1> DEFINE recorded == ProbeRows(es, probe)
           symbols == {k[2] : k \in recorded}
           last(s) == WarmupthLast(Instants(recorded, s))
           lasts == {last(s) : s \in symbols}
<1>1. /\ recorded # {} /\ Cut(es, probe) = Min(lasts)
      /\ \A s \in symbols : ~(Cardinality(Instants(recorded, s)) < request.warmup)
  BY DEF Cut
<1>2. IsFiniteSet(recorded) /\ \A k \in recorded : k[1] \in Int
  BY ProbeRowsAre, RowTypes
<1>3. request.warmup \in Nat \ {0}
  BY RequestFacts
<1> HIDE DEF recorded
<1>4. \A s : /\ Instants(recorded, s) \in SUBSET Int /\ IsFiniteSet(Instants(recorded, s))
             /\ \A t \in Instants(recorded, s) : \E k \in recorded : k[1] = t
  <2> SUFFICES ASSUME NEW s
               PROVE  /\ Instants(recorded, s) \in SUBSET Int /\ IsFiniteSet(Instants(recorded, s))
                      /\ \A t \in Instants(recorded, s) : \E k \in recorded : k[1] = t
    OBVIOUS
  <2> DEFINE own == {r \in recorded : r[2] = s}
             g == [k \in own |-> k[1]]
  <2>1. own \in SUBSET recorded /\ \A t : t \in Instants(recorded, s) <=> \E k \in own : t = k[1]
    BY DEF Instants
  <2>2. IsFiniteSet(own)
    BY <1>2, <2>1, FS_Subset
  <2> HIDE DEF own
  <2>3. g \in [own -> Instants(recorded, s)] /\ \A t \in Instants(recorded, s) : \E k \in own : g[k] = t
    BY <2>1
  <2> HIDE DEF g
  <2>4. IsFiniteSet(Instants(recorded, s))
    BY <2>2, <2>3, ImageIsFinite
  <2> QED BY <1>2, <2>1, <2>4
<1>5. ASSUME NEW s \in symbols
      PROVE  /\ last(s) \in Instants(recorded, s)
             /\ Cardinality(Above(Instants(recorded, s), last(s))) = request.warmup - 1
  <2> DEFINE S == Instants(recorded, s)
             w == request.warmup
  <2>1. w \in Nat \ {0} /\ w <= Cardinality(S) /\ S \in SUBSET Int /\ IsFiniteSet(S)
    <3>1. Cardinality(S) \in Nat
      BY <1>4, FS_CardinalityType
    <3> QED BY <1>1, <1>3, <1>4, <3>1
  <2>2. last(s) = CHOOSE t \in S : Cardinality({u \in S : u > t}) = w - 1
    BY DEF WarmupthLast
  <2> HIDE DEF S, w
  <2>3. \E t \in S : Cardinality(Above(S, t)) = w - 1
    BY <2>1, NthGreatest
  <2>4. \E t \in S : Cardinality({u \in S : u > t}) = w - 1
    BY <2>3 DEF Above
  <2>5. last(s) \in S /\ Cardinality({u \in S : u > last(s)}) = w - 1
    <3> DEFINE chosen == CHOOSE t \in S : Cardinality({u \in S : u > t}) = w - 1
    <3>1. chosen \in S /\ Cardinality({u \in S : u > chosen}) = w - 1
      BY <2>4, Zenon
    <3> QED BY <2>2, <3>1
  <2> QED BY <2>5 DEF S, w, Above
<1>6. /\ Min(lasts) \in lasts /\ \A y \in lasts : Min(lasts) <= y
  <2>1. lasts # {} /\ lasts \in SUBSET Int
    BY <1>1, <1>4, <1>5
  <2> DEFINE g == [k \in recorded |-> last(k[2])]
  <2>2. g \in [recorded -> lasts] /\ \A t \in lasts : \E k \in recorded : g[k] = t
    OBVIOUS
  <2> HIDE DEF g, lasts
  <2>3. IsFiniteSet(lasts)
    BY <1>2, <2>2, ImageIsFinite
  <2> QED BY <2>1, <2>3, Extremes
<1>7. \E k \in recorded : k[1] = Cut(es, probe)
  BY <1>1, <1>4, <1>5, <1>6
<1>8. ASSUME NEW k \in recorded
      PROVE  \E t \in Instants(recorded, k[2]) :
                 /\ Cut(es, probe) <= t
                 /\ Cardinality(Above(Instants(recorded, k[2]), t)) = request.warmup - 1
  <2>1. k[2] \in symbols /\ last(k[2]) \in lasts
    OBVIOUS
  <2>2. Cut(es, probe) <= last(k[2])
    BY <1>1, <1>6, <2>1
  <2> QED BY <1>5, <2>1, <2>2
<1> QED
  BY <1>7, <1>8 DEF recorded

LEMMA WarmupStartIs ==
  ASSUME Fixed, NEW es \in SUBSET DOMAIN files, es # {}
  PROVE  /\ \A i \in 1..4 : Probe(es, i) \in Int
         /\ \/ request.warmup = 0 /\ WarmupStart(es) = request.start
            \/ request.warmup > 0 /\ WarmupStart(es) = Floor(es)
            \/ /\ request.warmup > 0
               /\ \E i \in 1..4 : /\ WarmupStart(es) = Cut(es, Probe(es, i))
                                  /\ Cut(es, Probe(es, i)) # Nothing
<1>1. Answers(es) \subseteq 1..4 /\ \A i \in Answers(es) : Cut(es, Probe(es, i)) # Nothing
  BY DEF Answers, Pads
<1>2. request.warmup \in Nat
  BY RequestFacts
<1>3. ASSUME NEW i \in 1..4
      PROVE  Probe(es, i) \in Int
  <2> DEFINE reach == request.start - Frame * request.warmup * Pads[i]
  <2>1. reach \in Int /\ Floor(es) \in Int
    <3>1. Pads[i] \in Nat
      BY DEF Pads
    <3> QED BY <3>1, RequestFacts, FloorFacts
  <2>2. Probe(es, i) = Max({Floor(es), reach})
    BY DEF Probe
  <2> HIDE DEF reach
  <2>3. Probe(es, i) \in {Floor(es), reach}
    BY <2>1, <2>2, OfTwo, Zenon
  <2> QED BY <2>1, <2>3
<1>4. Answers(es) # {} => Min(Answers(es)) \in Answers(es)
  <2>1. IsFiniteSet(1..4)
    <3>1. 1 \in Int /\ 4 \in Int
      OBVIOUS
    <3> QED BY <3>1, FS_Interval, Zenon
  <2>2. IsFiniteSet(Answers(es)) /\ Answers(es) \in SUBSET Int
    BY <1>1, <2>1, FS_Subset
  <2> QED BY <2>2, Extremes
<1> QED
  BY <1>1, <1>2, <1>3, <1>4 DEF WarmupStart

LEMMA WarmupStartAfterEpoch ==
  ASSUME Fixed, AfterTheEpoch, NEW es \in SUBSET DOMAIN files, es # {}
  PROVE  WarmupStart(es) \in Int /\ WarmupStart(es) > 0
<1>1. \A f \in es : \A k \in files[f].rows : k[1] \in Int /\ k[1] > 0
  BY FileFacts DEF AfterTheEpoch, Fixed
<1>2. request.start \in Int /\ request.start > 0
  BY RequestFacts DEF AfterTheEpoch, Fixed
<1>3. Floor(es) \in Int /\ Floor(es) > 0
  BY <1>1, FloorFacts
<1>4. ASSUME NEW i \in 1..4, request.warmup > 0, Cut(es, Probe(es, i)) # Nothing
      PROVE  Cut(es, Probe(es, i)) \in Int /\ Cut(es, Probe(es, i)) > 0
  <2>1. Probe(es, i) \in Int
    BY WarmupStartIs
  <2>2. PICK k \in ProbeRows(es, Probe(es, i)) : k[1] = Cut(es, Probe(es, i))
    BY <1>4, <2>1, CutFacts
  <2>3. k \in DOMAIN AllRows(es)
    BY <2>1, <2>2, ProbeRowsAre
  <2> QED BY <1>1, <2>2, <2>3, RowIn
<1> QED
  BY <1>2, <1>3, <1>4, WarmupStartIs

-----------------------------------------------------------------------------
(* The invariant of the generator.  What was yielded so far are the bars   *)
(* that close before the cursor, each made of all the rows it has in the   *)
(* files that were selected; and where quotes are folded, the cursor is at *)
(* the beginning of a bar.                                                 *)
Whole == BarsOf(AllRows(read.entries), read.fromQuotes)

TypesOK ==
  /\ Fixed
  /\ at \in {"asked", "streaming", "done", "failed"}
  /\ read.entries \in SUBSET DOMAIN files /\ read.fromQuotes \in BOOLEAN
  /\ read.from \in Int /\ cursor \in Int
AskedFor ==
  /\ at \in {"streaming", "done"} /\ request.what = "bars" =>
       /\ read.entries = Prepared.entries
       /\ read.fromQuotes = Prepared.fromQuotes
       /\ read.from = FromOf(Prepared)
  /\ request.what = "quotes" => read.fromQuotes = FALSE
CursorOK ==
  /\ at = "streaming" => read.entries # {} /\ read.from <= cursor
  /\ at = "streaming" /\ read.fromQuotes /\ cursor <= request.end => Opens(cursor)
  /\ at \in {"streaming", "done"} /\ read.entries # {} /\ read.fromQuotes => Opens(read.from)
  /\ at = "done" => read.entries = {} \/ cursor > request.end
  /\ at = "asked" => out = [k \in {} |-> Nothing]
Yielded ==
  at \in {"streaming", "done"} =>
    /\ \A k : k \in DOMAIN out <=>
                k \in DOMAIN Whole /\ read.from <= k[1] /\ k[1] < cursor /\ k[1] <= request.end
    /\ \A k \in DOMAIN out : out[k].bar = Whole[k]
StreamInv == TypesOK /\ AskedFor /\ CursorOK /\ Yielded

(* A slice that does not fail: the cursor's step, and what is yielded.     *)
SliceAfter(hi, next) ==
  /\ SliceOf(read.entries, read.fromQuotes, cursor, hi, next)
  /\ read.from <= cursor /\ cursor < next
  /\ read.fromQuotes /\ next <= request.end => Opens(next)

LEMMA NextSliceIs ==
  ASSUME StreamInv, at = "streaming", cursor <= request.end
  PROVE  /\ SliceAfter(SliceHi, cursor + StepNow)
         /\ SliceTable = Between(AllRows(read.entries), cursor, SliceHi)
<1> DEFINE align == IF read.fromQuotes THEN Width ELSE 0
           es == read.entries
           next == cursor + StepNow
<1>1. /\ Fixed /\ es \in SUBSET DOMAIN files /\ es # {} /\ read.fromQuotes \in BOOLEAN
      /\ read.from \in Int /\ cursor \in Int /\ request.end \in Int
      /\ read.from <= cursor
      /\ read.fromQuotes => Opens(cursor)
  BY RequestFacts DEF StreamInv, TypesOK, CursorOK
<1>2. Width \in Nat
  BY <1>1, RequestFacts
<1>3. align \in Nat
  BY <1>1, <1>2
<1>4. StepNow = Step(es, read.from, align)
  BY DEF StepNow
<1> HIDE DEF align, es
<1>5. /\ StepNow \in Nat \ {0}
      /\ \/ read.from + StepNow > request.end
         \/ align = 0
         \/ \E q \in Int : StepNow = q * align
  BY <1>1, <1>3, <1>4, StepFacts
<1>6. next \in Int /\ cursor < next
  BY <1>1, <1>5
<1>7. read.fromQuotes /\ next <= request.end => Opens(next)
  <2> SUFFICES ASSUME read.fromQuotes, next <= request.end
               PROVE  Opens(next)
    OBVIOUS
  <2>1. CASE Width = 0
    BY <2>1 DEF Opens
  <2>2. CASE Width > 0
    <3>1. align = Width
      BY DEF align
    <3>2. ~(read.from + StepNow > request.end)
      BY <1>1, <1>5
    <3>3. PICK q \in Int : StepNow = q * Width
      BY <1>5, <2>2, <3>1, <3>2
    <3>4. PICK p \in Int : cursor = p * Width + 1
      BY <1>1, <2>2 DEF Opens
    <3>5. p + q \in Int /\ (p + q) * Width = p * Width + q * Width
      BY <1>2
    <3>6. p * Width \in Int /\ q * Width \in Int
      BY <1>2
    <3>7. next = (p + q) * Width + 1
      BY <3>3, <3>4, <3>5, <3>6
    <3> QED BY <3>5, <3>7 DEF Opens
  <2> QED BY <1>2, <2>1, <2>2
<1>8. /\ SliceHi \in Int /\ SliceHi <= request.end /\ SliceHi < next
      /\ SliceHi = request.end \/ SliceHi = next - 1
  <2> DEFINE last == cursor + StepNow - 1
  <2>1. last \in Int /\ last = next - 1 /\ SliceHi = Min({last, request.end})
    BY <1>1, <1>5 DEF SliceHi, SliceEnd
  <2> HIDE DEF last
  <2>2. SliceHi \in {last, request.end} /\ SliceHi <= last /\ SliceHi <= request.end
    BY <1>1, <2>1, OfTwo, Zenon
  <2> HIDE DEF next
  <2> QED BY <1>1, <1>6, <2>1, <2>2
<1>9. SliceOf(es, read.fromQuotes, cursor, SliceHi, next)
  <2> HIDE DEF next
  <2>1. SliceHi = request.end \/ (SliceHi = next - 1 /\ (read.fromQuotes => Opens(next)))
    <3>1. CASE next <= request.end
      BY <1>7, <1>1, <1>6, <1>8, <3>1
    <3>2. CASE ~(next <= request.end)
      BY <1>1, <1>6, <1>8, <3>2
    <3> QED BY <3>1, <3>2
  <2> QED BY <1>1, <1>6, <1>8, <2>1 DEF SliceOf
<1>10. SliceTable = Between(AllRows(es), cursor, SliceHi)
  BY <1>1, <1>8, SliceIsBetween DEF SliceTable, InSlice, es
<1> QED
  BY <1>1, <1>6, <1>7, <1>9, <1>10 DEF SliceAfter, es

(* What the files and the request say does not change while they are read. *)
LEMMA SelectedOnce ==
  ASSUME files' = files, request' = request
  PROVE  /\ \A kind, from : Selected(kind, from)' = Selected(kind, from)
         /\ \A es, lo, hi : Active(es, lo, hi)' = Active(es, lo, hi)
         /\ \A es, lo, hi : Rows(es, lo, hi)' = Rows(es, lo, hi)
         /\ \A es, lo, hi : Repeated(es, lo, hi)' = Repeated(es, lo, hi)
         /\ \A es : Floor(es)' = Floor(es)
         /\ \A es : AllRows(es)' = AllRows(es)
         /\ WindowStart' = WindowStart
<1>1. \A f : MinTs(f)' = MinTs(f) /\ MaxTs(f)' = MaxTs(f)
  BY DEF MinTs, MaxTs
<1>2. \A f, lo, hi : Overlaps(f, lo, hi)' = Overlaps(f, lo, hi)
  BY <1>1 DEF Overlaps
<1>3. \A kind, from : Selected(kind, from)' = Selected(kind, from)
  BY <1>2 DEF Selected
<1>4. \A es, lo, hi : Active(es, lo, hi)' = Active(es, lo, hi)
  BY <1>2 DEF Active
<1>5. \A es, lo, hi : Rows(es, lo, hi)' = Rows(es, lo, hi)
  BY DEF Rows, RowsOf
<1>6. \A es, lo, hi : Repeated(es, lo, hi)' = Repeated(es, lo, hi)
  BY <1>5 DEF Repeated
<1>7. \A es : Floor(es)' = Floor(es)
  BY <1>1 DEF Floor
<1>8. \A es : AllRows(es)' = AllRows(es)
  BY DEF AllRows, Taken
<1>9. WindowStart' = WindowStart
  BY DEF WindowStart, Frame
<1> QED
  BY <1>3, <1>4, <1>5, <1>6, <1>7, <1>8, <1>9

LEMMA WarmupOnce ==
  ASSUME files' = files, request' = request
  PROVE  \A es : WarmupStart(es)' = WarmupStart(es) /\ WarmupFails(es)' = WarmupFails(es)
<1>1. \A es, i : Probe(es, i)' = Probe(es, i)
  BY SelectedOnce DEF Probe, Frame
<1>2. \A S : WarmupthLast(S)' = WarmupthLast(S)
  BY DEF WarmupthLast
<1>s. \A es, probe : ProbeRows(es, probe)' = ProbeRows(es, probe)
  BY SelectedOnce DEF ProbeRows
<1>3. \A es, probe : Cut(es, probe)' = Cut(es, probe)
  BY <1>2, <1>s DEF Cut, Instants
<1>4. \A es : Answers(es)' = Answers(es)
  BY <1>1, <1>3 DEF Answers, Pads
<1>5. \A es : WarmupStart(es)' = WarmupStart(es)
  BY SelectedOnce, <1>1, <1>3, <1>4 DEF WarmupStart
<1>6. \A es : WarmupFails(es)' = WarmupFails(es)
  BY SelectedOnce, <1>1, <1>4 DEF WarmupFails, Pads
<1> QED
  BY <1>5, <1>6

LEMMA PreparedOnce ==
  ASSUME files' = files, request' = request
  PROVE  Prepared' = Prepared
<1>1. \A from : BarSource(from)' = BarSource(from)
  BY SelectedOnce DEF BarSource
<1>2. \A source : SourceFails(source)' = SourceFails(source)
  BY DEF SourceFails
<1>3. \A source : Reopens(source)' = Reopens(source)
  BY SelectedOnce, WarmupOnce DEF Reopens
<1>4. \A first, second, es : Reading(first, second, es)' = Reading(first, second, es)
  BY <1>2, WarmupOnce DEF Reading
<1>5. WindowStart' = WindowStart
  BY SelectedOnce
<1> QED
  BY <1>1, <1>3, <1>4, <1>5 DEF Prepared, AllHistory, Kept

(* What a slice does, of bars or of quotes. *)
SliceYields(yields) ==
  LET bars == BarsOf(SliceTable, read.fromQuotes)
  IN /\ \A k : k \in DOMAIN yields <=> k \in DOMAIN bars /\ k[1] <= request.end
     /\ \A k \in DOMAIN yields : yields[k].bar = bars[k]
Sliced(yields, carries) ==
  /\ at = "streaming" /\ cursor <= request.end
  /\ at' \in {"streaming", "failed"}
  /\ \/ at' = "failed" /\ out' = out /\ carry' = carry
     \/ at' = "streaming" /\ DOMAIN SliceTable = {} /\ out' = out /\ carry' = carry
     \/ /\ at' = "streaming" /\ DOMAIN SliceTable # {}
        /\ out' = Followed(out, yields) /\ carry' = carries
  /\ cursor' = cursor + StepNow
  /\ UNCHANGED <<files, request, read>>

LEMMA SliceKeeps ==
  ASSUME StreamInv, NEW yields, NEW carries, Sliced(yields, carries), SliceYields(yields)
  PROVE  StreamInv'
<1> DEFINE whole == Whole
           bars == BarsOf(SliceTable, read.fromQuotes)
           next == cursor + StepNow
<1>1. /\ at = "streaming" /\ cursor <= request.end /\ at' \in {"streaming", "failed"}
      /\ cursor' = next
      /\ files' = files /\ request' = request /\ read' = read
      /\ at' = "streaming" /\ DOMAIN SliceTable = {} => out' = out
      /\ at' = "streaming" /\ DOMAIN SliceTable # {} => out' = Followed(out, yields)
  BY DEF Sliced
<1>2. SliceAfter(SliceHi, next) /\ SliceTable = Between(AllRows(read.entries), cursor, SliceHi)
  BY <1>1, NextSliceIs
<1>3. /\ next \in Int /\ read.from <= cursor /\ cursor < next
      /\ read.fromQuotes /\ next <= request.end => Opens(next)
      /\ Fixed /\ read.from \in Int /\ cursor \in Int /\ read.fromQuotes \in BOOLEAN
      /\ read.entries # {}
  BY <1>1, <1>2 DEF SliceAfter, SliceOf, StreamInv, TypesOK, CursorOK
<1>4. /\ \A k : k \in DOMAIN bars /\ k[1] <= request.end <=>
                  k \in DOMAIN whole /\ cursor <= k[1] /\ k[1] < next /\ k[1] <= request.end
      /\ \A k \in DOMAIN bars : k[1] <= request.end => bars[k] = whole[k]
  <2>1. SliceIsWhole(read.entries, read.fromQuotes, cursor, SliceHi, next)
    BY <1>2, <1>3, SliceBars DEF SliceAfter
  <2> QED BY <1>2, <2>1 DEF SliceIsWhole, Whole
<1>5. /\ \A k : k \in DOMAIN yields <=>
                  k \in DOMAIN whole /\ cursor <= k[1] /\ k[1] < next /\ k[1] <= request.end
      /\ \A k \in DOMAIN yields : yields[k].bar = whole[k]
  <2>1. /\ \A k : k \in DOMAIN yields <=> k \in DOMAIN bars /\ k[1] <= request.end
        /\ \A k \in DOMAIN yields : yields[k].bar = bars[k]
    BY DEF SliceYields
  <2> HIDE DEF bars, whole, next
  <2> QED BY <1>4, <2>1
<1>6. /\ \A k : k \in DOMAIN out <=>
                  k \in DOMAIN whole /\ read.from <= k[1] /\ k[1] < cursor /\ k[1] <= request.end
      /\ \A k \in DOMAIN out : out[k].bar = whole[k]
  BY <1>1 DEF StreamInv, Yielded
<1>7. Whole' = whole
  <2>1. AllRows(read.entries)' = AllRows(read.entries)
    BY <1>1 DEF AllRows, Taken
  <2> QED BY <1>1, <2>1 DEF Whole, BarsOf, Fold, AsBars, Parts, CloseOf
<1>8. \A k \in DOMAIN whole : k[1] \in Int
  <2>1. read.entries \in SUBSET DOMAIN files
    BY DEF StreamInv, TypesOK
  <2>2. ASSUME NEW k \in DOMAIN whole
        PROVE  k[1] \in Int
    <3>1. PICK r \in DOMAIN AllRows(read.entries) :
                 k = IF read.fromQuotes THEN <<CloseOf(r[1]), r[2]>> ELSE r
      BY <1>3, BarKeys DEF Whole
    <3>2. r[1] \in Int
      BY <1>3, <2>1, RowTypes
    <3> QED BY <3>1, <3>2, CloseFacts
  <2> QED BY <2>2
<1>9. Yielded'
  <2> SUFFICES ASSUME at' = "streaming"
               PROVE  /\ \A k : k \in DOMAIN out' <=>
                            k \in DOMAIN whole /\ read.from <= k[1] /\ k[1] < next
                              /\ k[1] <= request.end
                      /\ \A k \in DOMAIN out' : out'[k].bar = whole[k]
    BY <1>1, <1>7 DEF Yielded
  <2> HIDE DEF whole, next
  <2>1. \A k \in DOMAIN whole :
           read.from <= k[1] /\ k[1] < next <=>
             (read.from <= k[1] /\ k[1] < cursor) \/ (cursor <= k[1] /\ k[1] < next)
    BY <1>3, <1>8
  <2>2. CASE DOMAIN SliceTable # {}
    <3>1. /\ \A k : k \in DOMAIN out' <=> k \in DOMAIN yields \/ k \in DOMAIN out
          /\ \A k \in DOMAIN out' : out'[k] = IF k \in DOMAIN yields THEN yields[k] ELSE out[k]
      BY <1>1, <2>2 DEF Followed
    <3>2. \A k : k \in DOMAIN out' <=>
                   k \in DOMAIN whole /\ read.from <= k[1] /\ k[1] < next
                     /\ k[1] <= request.end
      <4> SUFFICES ASSUME NEW k
                   PROVE  k \in DOMAIN yields \/ k \in DOMAIN out <=>
                            k \in DOMAIN whole /\ read.from <= k[1] /\ k[1] < next
                              /\ k[1] <= request.end
        BY <3>1
      <4> QED BY <1>5, <1>6, <2>1
    <3>3. \A k \in DOMAIN out' : out'[k].bar = whole[k]
      BY <1>5, <1>6, <3>1
    <3> QED BY <3>2, <3>3
  <2>3. CASE DOMAIN SliceTable = {}
    <3>1. \A k : k \notin DOMAIN yields
      <4>1. \A k : k \notin DOMAIN bars
        BY <1>3, <2>3, BarKeys
      <4> HIDE DEF bars
      <4> QED BY <4>1 DEF SliceYields, bars
    <3>2. out' = out
      BY <1>1, <2>3
    <3>3. \A k \in DOMAIN whole :
             ~(cursor <= k[1] /\ k[1] < next /\ k[1] <= request.end)
      BY <1>5, <3>1
    <3>4. \A k : k \in DOMAIN out <=>
                   k \in DOMAIN whole /\ read.from <= k[1] /\ k[1] < next
                     /\ k[1] <= request.end
      <4> SUFFICES ASSUME NEW k \in DOMAIN whole, k[1] <= request.end
                   PROVE  k \in DOMAIN out <=> read.from <= k[1] /\ k[1] < next
        BY <1>6
      <4>1. k[1] \in Int
        BY <1>8
      <4>2. k \in DOMAIN out <=> read.from <= k[1] /\ k[1] < cursor
        BY <1>6
      <4> QED BY <1>3, <3>3, <4>1, <4>2
    <3> QED BY <1>6, <3>2, <3>4
  <2> QED BY <2>2, <2>3
<1>10. TypesOK'
  BY <1>1, <1>3 DEF StreamInv, TypesOK, Fixed
<1>11. CursorOK'
  <2> HIDE DEF next
  <2>1. read.fromQuotes => Opens(read.from)
    BY <1>1 DEF StreamInv, CursorOK
  <2> QED BY <1>1, <1>3, <2>1 DEF CursorOK, Opens
<1>12. AskedFor'
  <2>1. Prepared' = Prepared
    BY <1>1, PreparedOnce
  <2>2. FromOf(Prepared)' = FromOf(Prepared)
    BY <2>1 DEF FromOf, Widened
  <2> QED BY <1>1, <2>1, <2>2 DEF StreamInv, AskedFor
<1> QED
  BY <1>9, <1>10, <1>11, <1>12 DEF StreamInv

(* How the reading begins. *)
LEMMA SelectedIs ==
  ASSUME Fixed, NEW from
  PROVE  /\ BarSource(from).entries \in SUBSET DOMAIN files
         /\ BarSource(from).fromQuotes \in BOOLEAN
BY DEF BarSource, Selected

LEMMA PreparedIs ==
  ASSUME Fixed, AfterTheEpoch
  PROVE  /\ Prepared.entries \in SUBSET DOMAIN files
         /\ Prepared.fromQuotes \in BOOLEAN
         /\ Prepared.from \in Int
         /\ Prepared.entries # {} => Prepared.from > 0
<1> DEFINE first  == BarSource(WindowStart)
           second == IF Reopens(first) THEN BarSource(AllHistory) ELSE first
           es     == Kept(first, second)
<1>1. /\ Prepared.entries = es /\ Prepared.fromQuotes = second.fromQuotes
      /\ Prepared.from = IF es = {} THEN 0 ELSE WarmupStart(es)
  BY DEF Prepared, Reading
<1>2. /\ first.entries \in SUBSET DOMAIN files /\ first.fromQuotes \in BOOLEAN
      /\ second.entries \in SUBSET DOMAIN files /\ second.fromQuotes \in BOOLEAN
  <2>1. /\ BarSource(AllHistory).entries \in SUBSET DOMAIN files
        /\ BarSource(AllHistory).fromQuotes \in BOOLEAN
    BY SelectedIs
  <2>2. /\ first.entries \in SUBSET DOMAIN files /\ first.fromQuotes \in BOOLEAN
    BY SelectedIs
  <2> QED BY <2>1, <2>2
<1>3. es \in SUBSET DOMAIN files
  BY <1>2 DEF Kept
<1> HIDE DEF es, second
<1>4. es # {} => WarmupStart(es) \in Int /\ WarmupStart(es) > 0
  BY <1>3, WarmupStartAfterEpoch
<1> QED
  BY <1>1, <1>2, <1>3, <1>4

LEMMA WidenedOpens ==
  ASSUME NEW from \in Int, from > 0
  PROVE  Widened(from) \in Int /\ Widened(from) <= from /\ Opens(Widened(from))
<1>1. Width \in Nat
  BY CsvReadAssumption DEF CsvReadAssumption
<1>2. CASE Width = 0
  BY <1>2 DEF Widened, Opens
<1>3. CASE Width > 0
  <2> DEFINE q == (from - 1) \div Width
             x == q * Width + 1
  <2>1. q \in Nat /\ q * Width <= from - 1
    BY <1>1, <1>3
  <2>2. Widened(from) = Max({x, 0})
    BY <1>3 DEF Widened
  <2> HIDE DEF q
  <2>3. x \in Int /\ 0 \in Int /\ x > 0 /\ x <= from
    BY <1>1, <2>1
  <2>4. Opens(x)
    BY <2>1 DEF Opens
  <2> HIDE DEF x
  <2>5. Max({x, 0}) \in {x, 0} /\ Max({x, 0}) >= x
    BY <2>3, OfTwo, Zenon
  <2>6. Widened(from) = x
    BY <2>2, <2>3, <2>5
  <2> QED BY <2>3, <2>4, <2>6
<1> QED
  BY <1>1, <1>2, <1>3

LEMMA NothingToRead ==
  ASSUME NEW fq \in BOOLEAN, NEW k
  PROVE  k \notin DOMAIN BarsOf(AllRows({}), fq)
<1>1. \A r : r \notin DOMAIN AllRows({})
  BY RowIn
<1> QED
  BY <1>1, BarKeys

LEMMA WholeKeys ==
  ASSUME Fixed, NEW es \in SUBSET DOMAIN files, NEW fq \in BOOLEAN,
         NEW k \in DOMAIN BarsOf(AllRows(es), fq)
  PROVE  k[1] \in Int /\ k[2] \in request.symbols /\ k = <<k[1], k[2]>>
<1>1. PICK r \in DOMAIN AllRows(es) : k = IF fq THEN <<CloseOf(r[1]), r[2]>> ELSE r
  BY BarKeys
<1>2. r[1] \in Int /\ r[2] \in request.symbols /\ r = <<r[1], r[2]>>
  BY RowTypes
<1>3. CloseOf(r[1]) \in Int
  BY <1>2, CloseFacts
<1> QED
  BY <1>1, <1>2, <1>3

LEMMA WholeAfter ==
  ASSUME files' = files, request' = request
  PROVE  Whole' = BarsOf(AllRows(read'.entries), read'.fromQuotes)
<1>1. AllRows(read.entries)' = AllRows(read'.entries)
  BY DEF AllRows, Taken
<1> QED
  BY <1>1 DEF Whole, BarsOf, Fold, AsBars, Parts, CloseOf

(* An empty stream, from where it begins. *)
LEMMA BeginningIsYielded ==
  ASSUME Fixed, files' = files, request' = request,
         read'.entries \in SUBSET DOMAIN files, read'.fromQuotes \in BOOLEAN,
         read'.from \in Int, cursor' = read'.from, out' = [k \in {} |-> Nothing]
  PROVE  Yielded'
<1>1. \A k : k \notin DOMAIN out'
  OBVIOUS
<1>2. \A k \in DOMAIN Whole' : k[1] \in Int
  BY WholeKeys, WholeAfter
<1>3. \A k \in DOMAIN Whole' : ~(read'.from <= k[1] /\ k[1] < cursor')
  BY <1>2
<1> QED
  BY <1>1, <1>3 DEF Yielded

LEMMA AskKeeps ==
  ASSUME StreamInv, AfterTheEpoch, Ask
  PROVE  StreamInv'
<1> DEFINE p == Prepared
<1>1. /\ at = "asked" /\ request.what = "bars"
      /\ at' = CASE p.fails -> "failed" [] ~p.fails /\ p.entries = {} -> "done" [] OTHER -> "streaming"
      /\ cursor' = FromOf(p)
      /\ read' = [entries |-> p.entries, fromQuotes |-> p.fromQuotes, from |-> cursor']
      /\ files' = files /\ request' = request /\ carry' = carry /\ out' = out
  BY DEF Ask, Begin
<1>2. /\ Fixed /\ out = [k \in {} |-> Nothing]
  BY <1>1 DEF StreamInv, TypesOK, CursorOK
<1>3. /\ p.entries \in SUBSET DOMAIN files /\ p.fromQuotes \in BOOLEAN
      /\ p.from \in Int
      /\ p.entries # {} => p.from > 0
  BY <1>2, PreparedIs
<1>4. p' = p
  BY <1>1, PreparedOnce
<1> HIDE DEF p
<1>5. /\ at' \in {"failed", "done", "streaming"}
      /\ at' = "done" => p.entries = {}
      /\ at' = "streaming" => p.entries # {}
  <2>1. CASE p.fails
    BY <1>1, <2>1
  <2>2. CASE ~p.fails /\ p.entries = {}
    BY <1>1, <2>2
  <2>3. CASE ~p.fails /\ p.entries # {}
    BY <1>1, <2>3
  <2> QED BY <2>1, <2>2, <2>3
<1>6. /\ read'.entries = p.entries /\ read'.fromQuotes = p.fromQuotes /\ read'.from = FromOf(p)
  BY <1>1
<1>7. /\ FromOf(p) \in Int
      /\ p.entries # {} /\ p.fromQuotes => Opens(FromOf(p))
  <2>1. CASE p.from > 0
    BY <1>3, <2>1, WidenedOpens DEF FromOf
  <2>2. CASE p.entries = {}
    <3>1. Widened(p.from) \in Int
      <4>1. CASE Width = 0
        BY <1>3, <4>1 DEF Widened
      <4>2. CASE Width # 0
        <5> DEFINE x == ((p.from - 1) \div Width) * Width + 1
        <5>1. x \in Int /\ 0 \in Int
          <6>1. Width \in Nat \ {0}
            BY <1>2, <4>2, RequestFacts
          <6> QED BY <1>3, <6>1
        <5>2. Widened(p.from) = Max({x, 0})
          BY <4>2 DEF Widened
        <5> HIDE DEF x
        <5>3. Widened(p.from) \in {x, 0}
          BY <5>1, <5>2, OfTwo, Zenon
        <5> QED BY <5>1, <5>3
      <4> QED BY <4>1, <4>2
    <3> QED BY <1>3, <2>2, <3>1 DEF FromOf
  <2> QED BY <1>3, <2>1, <2>2
<1>8. TypesOK'
  BY <1>1, <1>2, <1>3, <1>5, <1>6, <1>7 DEF TypesOK, Fixed
<1>9. CursorOK'
  <2>1. at' = "streaming" => read'.entries # {} /\ read'.from <= cursor'
    BY <1>1, <1>5, <1>6, <1>7
  <2>2. read'.entries # {} /\ read'.fromQuotes => Opens(read'.from) /\ Opens(cursor')
    BY <1>1, <1>6, <1>7
  <2>3. at' = "done" => read'.entries = {}
    BY <1>5, <1>6
  <2>4. at' # "asked"
    BY <1>5
  <2> QED BY <2>1, <2>2, <2>3, <2>4 DEF CursorOK, Opens
<1>10. AskedFor'
  <2>1. FromOf(Prepared)' = FromOf(p)
    <3>1. (FromOf(Prepared))' = FromOf(Prepared')
      BY DEF FromOf, Widened
    <3> QED BY <1>4, <3>1 DEF p
  <2>2. request'.what = "bars"
    BY <1>1
  <2> QED BY <1>4, <1>6, <2>1, <2>2 DEF AskedFor, p
<1>11. Yielded'
  BY <1>1, <1>2, <1>3, <1>6, <1>7, BeginningIsYielded
<1> QED
  BY <1>8, <1>9, <1>10, <1>11 DEF StreamInv

LEMMA AskQuotesKeeps ==
  ASSUME StreamInv, AskQuotes
  PROVE  StreamInv'
<1>1. /\ at = "asked" /\ request.what = "quotes"
      /\ at' = IF QuoteEntries = {} THEN "done" ELSE "streaming"
      /\ cursor' = request.start
      /\ read'.entries = QuoteEntries /\ read'.fromQuotes = FALSE /\ read'.from = request.start
      /\ files' = files /\ request' = request /\ carry' = carry /\ out' = out
  BY DEF AskQuotes
<1>2. Fixed /\ out = [k \in {} |-> Nothing] /\ request.start \in Int
  BY <1>1, RequestFacts DEF StreamInv, TypesOK, CursorOK
<1>3. QuoteEntries \in SUBSET DOMAIN files
  BY DEF QuoteEntries, Selected
<1>4. TypesOK'
  BY <1>1, <1>2, <1>3 DEF TypesOK, Fixed
<1>5. CursorOK'
  BY <1>1, <1>2 DEF CursorOK
<1>6. AskedFor'
  BY <1>1 DEF AskedFor
<1>7. Yielded'
  BY <1>1, <1>2, <1>3, BeginningIsYielded
<1> QED
  BY <1>4, <1>5, <1>6, <1>7 DEF StreamInv

LEMMA FinishKeeps ==
  ASSUME StreamInv, Finish
  PROVE  StreamInv'
<1>1. /\ at = "streaming" /\ cursor > request.end /\ at' = "done"
      /\ files' = files /\ request' = request /\ read' = read /\ cursor' = cursor
      /\ out' = out
  BY DEF Finish
<1>2. TypesOK'
  BY <1>1 DEF StreamInv, TypesOK, Fixed
<1>3. CursorOK'
  BY <1>1 DEF StreamInv, CursorOK, Opens
<1>4. Prepared' = Prepared
  BY <1>1, PreparedOnce
<1>5. FromOf(Prepared)' = FromOf(Prepared)
  BY <1>4 DEF FromOf, Widened
<1>6. AskedFor'
  BY <1>1, <1>4, <1>5 DEF StreamInv, AskedFor
<1>7. Whole' = Whole
  BY <1>1, WholeAfter DEF Whole
<1>8. Yielded'
  BY <1>1, <1>7 DEF StreamInv, Yielded
<1> QED
  BY <1>2, <1>3, <1>6, <1>8 DEF StreamInv

(* A slice of bars, and one of quotes. *)
SliceBarsOf == BarsOf(SliceTable, read.fromQuotes)
QuoteOf(k) ==
  IF read.fromQuotes THEN ClosingQuote(SliceBarsOf[k])
  ELSE IF Joining THEN Resolve(QuoteTable(cursor, SliceHi), k) ELSE Nothing
BarYields ==
  [k \in {k \in DOMAIN SliceBarsOf : k[1] <= request.end} |->
     [bar |-> SliceBarsOf[k], quote |-> QuoteOf(k)]]
BarCarries == IF Joining THEN Carried(QuoteTable(cursor, SliceHi)) ELSE carry

LEMMA NextSliceMakes ==
  ASSUME NEW what, NEW table, NEW fails \in BOOLEAN, NEW yields, NEW carries,
         NextSlice(what, table, fails, yields, carries), table = SliceTable
  PROVE  Sliced(yields, carries) /\ request.what = what
<1>1. CASE fails
  BY <1>1 DEF NextSlice, Sliced
<1>2. CASE ~fails
  BY <1>2 DEF NextSlice, Sliced
<1> QED
  BY <1>1, <1>2

LEMMA BarSliceIs ==
  ASSUME BarSlice
  PROVE  /\ Sliced(BarYields, BarCarries) /\ request.what = "bars"
         /\ SliceYields(BarYields)
<1> DEFINE table == SliceTable
      hi     == SliceHi
      bars   == IF read.fromQuotes THEN Fold(table) ELSE AsBars(table)
      quotes == QuoteTable(cursor, hi)
      kept   == {k \in DOMAIN bars : k[1] <= request.end}
      quote(k) == IF read.fromQuotes THEN ClosingQuote(bars[k])
                  ELSE IF Joining THEN Resolve(quotes, k) ELSE Nothing
      unread == ~read.fromQuotes /\ \E f \in InSlice : files[f].kind = "quote"
      behind == cursor - Frame
      fails  == \/ Repeated(InSlice, cursor, hi)
                \/ DOMAIN table # {} /\ unread
                \/ /\ DOMAIN table # {} /\ Joining
                   /\ Repeated(Active(QuoteEntries, behind, hi), behind, hi)
      yields == [k \in kept |-> [bar |-> bars[k], quote |-> quote(k)]]
      carries == IF Joining THEN Carried(quotes) ELSE carry
<1>1. NextSlice("bars", table, fails, yields, carries)
  BY DEF BarSlice
<1>2. bars = SliceBarsOf
  BY DEF SliceBarsOf, BarsOf
<1>3. yields = BarYields
  BY <1>2 DEF BarYields, QuoteOf
<1>4. carries = BarCarries
  BY DEF BarCarries
<1>5. fails \in BOOLEAN
  OBVIOUS
<1>6. Sliced(yields, carries) /\ request.what = "bars"
  <2> HIDE DEF fails, yields, carries
  <2> QED BY <1>1, <1>5, NextSliceMakes DEF table
<1>7. SliceYields(BarYields)
  BY DEF SliceYields, BarYields, SliceBarsOf
<1> HIDE DEF yields, carries
<1> QED
  BY <1>3, <1>4, <1>6, <1>7

QuoteYields ==
  [k \in DOMAIN SliceTable |->
     [bar |-> {<<k[1], SliceTable[k]>>}, quote |-> <<k[1], SliceTable[k]>>]]

LEMMA QuoteSliceIs ==
  ASSUME StreamInv, QuoteSlice
  PROVE  /\ Sliced(QuoteYields, carry) /\ request.what = "quotes"
         /\ SliceYields(QuoteYields)
<1> DEFINE fails == Repeated(InSlice, cursor, SliceHi)
<1>1. NextSlice("quotes", SliceTable, fails, QuoteYields, carry)
  BY DEF QuoteSlice, QuoteYields
<1>2. fails \in BOOLEAN
  BY DEF Repeated
<1> HIDE DEF fails
<1>3. Sliced(QuoteYields, carry) /\ request.what = "quotes"
  BY <1>1, <1>2, NextSliceMakes
<1>4. at = "streaming" /\ cursor <= request.end
  BY <1>3 DEF Sliced
<1>5. /\ SliceTable = Between(AllRows(read.entries), cursor, SliceHi)
      /\ read.entries \in SUBSET DOMAIN files /\ SliceHi \in Int /\ SliceHi <= request.end
      /\ Fixed /\ read.fromQuotes = FALSE
  BY <1>3, <1>4, NextSliceIs DEF SliceAfter, SliceOf, StreamInv, TypesOK, AskedFor
<1>6. \A k \in DOMAIN SliceTable : k[1] <= request.end
  <2>1. \A k \in DOMAIN SliceTable : k \in DOMAIN AllRows(read.entries) /\ k[1] <= SliceHi
    BY <1>5 DEF Between
  <2>2. \A k \in DOMAIN AllRows(read.entries) : k[1] \in Int
    BY <1>5, RowTypes
  <2> QED BY <1>5, <2>1, <2>2, RequestFacts
<1>7. BarsOf(SliceTable, read.fromQuotes) = AsBars(SliceTable)
  BY <1>5 DEF BarsOf
<1>8. SliceYields(QuoteYields)
  BY <1>6, <1>7 DEF SliceYields, QuoteYields, AsBars
<1> QED
  BY <1>3, <1>8

THEOREM StreamInvariant ==
  ASSUME AfterTheEpoch
  PROVE  Spec => []StreamInv
<1>1. Init => StreamInv
  <2> SUFFICES ASSUME Init
               PROVE  StreamInv
    OBVIOUS
  <2>1. TypesOK /\ CursorOK
    BY DEF Init, TypesOK, Fixed, CursorOK
  <2>2. AskedFor /\ Yielded
    BY DEF Init, AskedFor, Yielded
  <2> QED BY <2>1, <2>2 DEF StreamInv
<1>2. StreamInv /\ [Next]_vars => StreamInv'
  <2> SUFFICES ASSUME StreamInv, [Next]_vars
               PROVE  StreamInv'
    OBVIOUS
  <2>1. CASE Ask
    BY <2>1, AskKeeps
  <2>2. CASE AskQuotes
    BY <2>2, AskQuotesKeeps
  <2>3. CASE BarSlice
    BY <2>3, BarSliceIs, SliceKeeps
  <2>4. CASE QuoteSlice
    BY <2>4, QuoteSliceIs, SliceKeeps
  <2>5. CASE Finish
    BY <2>5, FinishKeeps
  <2>6. CASE UNCHANGED vars
    <3>1. /\ files' = files /\ request' = request /\ at' = at /\ read' = read
          /\ cursor' = cursor /\ out' = out
      BY <2>6 DEF vars
    <3>2. Prepared' = Prepared /\ Whole' = Whole
      BY <3>1, PreparedOnce, WholeAfter DEF Whole
    <3>3. FromOf(Prepared)' = FromOf(Prepared)
      BY <3>2 DEF FromOf, Widened
    <3>4. TypesOK' /\ CursorOK'
      BY <3>1 DEF StreamInv, TypesOK, Fixed, CursorOK, Opens
    <3>5. AskedFor' /\ Yielded'
      BY <3>1, <3>2, <3>3 DEF StreamInv, AskedFor, Yielded
    <3> QED BY <3>4, <3>5 DEF StreamInv
  <2> QED
    BY <2>1, <2>2, <2>3, <2>4, <2>5, <2>6 DEF Next
<1> QED
  BY <1>1, <1>2, PTL DEF Spec

(* However the window is sliced, and however many rows a slice may have,   *)
(* the stream is what one read of the selected files yields: no bar lost,  *)
(* none twice, none of them folded from a part of its quotes (_stream,     *)
(* _slices).                                                               *)
THEOREM StreamIsWhole ==
  ASSUME AfterTheEpoch
  PROVE  Spec => []StreamIsOneRead
<1>1. StreamInv => StreamIsOneRead
  <2> SUFFICES ASSUME StreamInv, at = "done"
               PROVE  LET wanted == {k \in DOMAIN Whole :
                                       read.from <= k[1] /\ k[1] <= request.end}
                      IN /\ DOMAIN out = wanted
                         /\ \A k \in wanted : out[k].bar = Whole[k]
    BY DEF StreamIsOneRead, Whole, BarsOf
  <2>1. /\ \A k : k \in DOMAIN out <=>
                    k \in DOMAIN Whole /\ read.from <= k[1] /\ k[1] < cursor
                      /\ k[1] <= request.end
        /\ \A k \in DOMAIN out : out[k].bar = Whole[k]
    BY DEF StreamInv, Yielded
  <2>2. /\ Fixed /\ read.entries \in SUBSET DOMAIN files /\ read.fromQuotes \in BOOLEAN
        /\ read.entries = {} \/ cursor > request.end
        /\ cursor \in Int /\ request.end \in Int
    BY RequestFacts DEF StreamInv, TypesOK, CursorOK
  <2>3. \A k \in DOMAIN Whole : k[1] \in Int
    BY <2>2, WholeKeys DEF Whole
  <2>4. \A k : k \in DOMAIN out <=>
                 k \in DOMAIN Whole /\ read.from <= k[1] /\ k[1] <= request.end
    <3>1. CASE read.entries = {}
      BY <2>1, <2>2, <3>1, NothingToRead DEF Whole
    <3>2. CASE cursor > request.end
      BY <2>1, <2>2, <2>3, <3>2
    <3> QED BY <2>2, <3>1, <3>2
  <2> QED BY <2>1, <2>4
<1> QED
  BY <1>1, StreamInvariant, PTL

-----------------------------------------------------------------------------
(* The same window in one read. *)
LEMMA FiniteBars ==
  ASSUME Fixed, NEW es \in SUBSET DOMAIN files, NEW fq \in BOOLEAN, NEW lo, NEW hi
  PROVE  /\ IsFiniteSet(DOMAIN BarsOf(Between(AllRows(es), lo, hi), fq))
         /\ \A k \in DOMAIN BarsOf(Between(AllRows(es), lo, hi), fq) :
              k[1] \in Int /\ k[2] \in request.symbols /\ k = <<k[1], k[2]>>
<1> DEFINE table == Between(AllRows(es), lo, hi)
           bars == DOMAIN BarsOf(table, fq)
           g == [r \in DOMAIN table |-> IF fq THEN <<CloseOf(r[1]), r[2]>> ELSE r]
<1>1. DOMAIN table \subseteq DOMAIN AllRows(es)
  BY DEF Between
<1>2. IsFiniteSet(DOMAIN table)
  BY <1>1, FiniteSelection, FS_Subset
<1> HIDE DEF table
<1>3. g \in [DOMAIN table -> bars] /\ \A k \in bars : \E r \in DOMAIN table : g[r] = k
  BY BarKeys
<1>4. IsFiniteSet(bars)
  <2> HIDE DEF bars, g
  <2> QED BY <1>2, <1>3, ImageIsFinite
<1>5. \A k \in bars : k[1] \in Int /\ k[2] \in request.symbols /\ k = <<k[1], k[2]>>
  <2> SUFFICES ASSUME NEW k \in bars
               PROVE  k[1] \in Int /\ k[2] \in request.symbols /\ k = <<k[1], k[2]>>
    OBVIOUS
  <2>1. PICK r \in DOMAIN table : k = IF fq THEN <<CloseOf(r[1]), r[2]>> ELSE r
    BY BarKeys
  <2>2. r[1] \in Int /\ r[2] \in request.symbols /\ r = <<r[1], r[2]>>
    BY <1>1, RowTypes
  <2>3. CloseOf(r[1]) \in Int
    BY <2>2, CloseFacts
  <2> QED BY <2>1, <2>2, <2>3
<1> QED
  BY <1>4, <1>5 DEF table

(* At most warmup bars of a symbol have fewer than warmup after them.      *)
LEMMA TrimLeaves ==
  ASSUME Fixed, NEW bars, NEW s, IsFiniteSet(DOMAIN bars),
         \A k \in DOMAIN bars : k[1] \in Int /\ k = <<k[1], k[2]>>
  PROVE  Cardinality({k \in DOMAIN TrimWarmup(bars) : k[2] = s /\ k[1] < request.start})
           <= request.warmup
<1> DEFINE kept == {k \in DOMAIN TrimWarmup(bars) : k[2] = s /\ k[1] < request.start}
           after(k) == {j \in DOMAIN bars : j[2] = s /\ k[1] < j[1] /\ j[1] < request.start}
<1>1. request.warmup \in Nat /\ request.start \in Int
  BY RequestFacts
<1>2. \A k \in kept : /\ k \in DOMAIN bars /\ k[2] = s /\ k[1] < request.start
                      /\ Cardinality(after(k)) < request.warmup
  <2> SUFFICES ASSUME NEW k \in kept
               PROVE  /\ k \in DOMAIN bars /\ k[2] = s /\ k[1] < request.start
                      /\ Cardinality(after(k)) < request.warmup
    OBVIOUS
  <2>1. k \in UNION {Trim(bars, u) : u \in request.symbols} /\ k[2] = s /\ k[1] < request.start
    BY DEF TrimWarmup
  <2>2. PICK u \in request.symbols : k \in Trim(bars, u)
    BY <2>1
  <2>3. /\ k \in DOMAIN bars /\ k[2] = u
        /\ \/ k[1] >= request.start
           \/ Cardinality({j \in DOMAIN bars : j[2] = u /\ k[1] < j[1] /\ j[1] < request.start})
                < request.warmup
    BY <2>2 DEF Trim
  <2>4. ~(k[1] >= request.start)
    BY <1>1, <2>1, <2>3
  <2> QED BY <2>1, <2>3, <2>4
<1>3. \A k : IsFiniteSet(after(k)) /\ Cardinality(after(k)) \in Nat
             /\ after(k) \subseteq DOMAIN bars
  BY FS_Subset, FS_CardinalityType
<1>4. IsFiniteSet(kept) /\ kept \in SUBSET DOMAIN bars
  BY <1>2, FS_Subset
<1>5. \A j, k \in kept : k[1] < j[1] => j \in after(k)
  BY <1>2
<1> HIDE DEF kept, after
<1>6. CASE kept = {}
  BY <1>1, <1>6, FS_EmptySet DEF kept
<1>7. CASE kept # {}
  <2> DEFINE instants == {k[1] : k \in kept}
             g == [k \in kept |-> k[1]]
             first == Min(instants)
  <2>1. g \in [kept -> instants] /\ \A t \in instants : \E k \in kept : g[k] = t
    OBVIOUS
  <2>2. instants # {} /\ instants \in SUBSET Int
    BY <1>4, <1>7
  <2>3. \A k \in kept : k[1] \in instants
    OBVIOUS
  <2>4. \A t \in instants : \E k \in kept : k[1] = t
    OBVIOUS
  <2> HIDE DEF instants, g
  <2>5. IsFiniteSet(instants)
    BY <1>4, <2>1, ImageIsFinite
  <2>6. first \in instants /\ \A t \in instants : first <= t
    BY <2>2, <2>5, Extremes
  <2>7. PICK k \in kept : k[1] = first
    BY <2>4, <2>6
  <2>8. ASSUME NEW j \in kept, j # k
        PROVE  j \in after(k)
    <3>1. j[1] \in Int /\ k[1] \in Int /\ j = <<j[1], s>> /\ k = <<k[1], s>>
      BY <1>2
    <3>2. k[1] <= j[1] /\ k[1] # j[1]
      BY <2>3, <2>6, <2>7, <2>8, <3>1
    <3>3. k[1] < j[1]
      BY <3>1, <3>2
    <3> QED BY <1>5, <3>3
  <2>9. Cardinality(kept \ {k}) <= Cardinality(after(k))
    <3>1. kept \ {k} \in SUBSET after(k)
      BY <2>8
    <3> QED BY <1>3, <3>1, FS_Subset
  <2>10. Cardinality(kept \ {k}) = Cardinality(kept) - 1 /\ Cardinality(kept) \in Nat
    BY <1>4, FS_RemoveElement, FS_CardinalityType
  <2>11. Cardinality(after(k)) < request.warmup /\ Cardinality(after(k)) \in Nat
    BY <1>2, <1>3
  <2>12. Cardinality(kept) <= request.warmup
    BY <1>1, <2>9, <2>10, <2>11
  <2> QED BY <2>12 DEF kept
<1> QED
  BY <1>6, <1>7

(* load_series is a part of the stream: however the stream is sliced, from *)
(* the start on the two have the same bars, and load_series has warmup at  *)
(* most before it (_load_many_uncached, _trim_warmup).                     *)
THEOREM LoadIsInTheStream ==
  ASSUME AfterTheEpoch
  PROVE  Spec => []StreamAgreesWithLoad
<1>1. StreamInv /\ StreamIsOneRead => StreamAgreesWithLoad
  <2> SUFFICES ASSUME StreamInv, StreamIsOneRead, at = "done", request.what = "bars"
               PROVE  Streams(LoadMany)
    BY DEF StreamAgreesWithLoad
  <2> DEFINE es == read.entries
             fq == read.fromQuotes
             from == read.from
             load == LoadRead(Prepared)
             next == request.end + 1
  <2>1. /\ Fixed /\ es \in SUBSET DOMAIN files /\ fq \in BOOLEAN /\ from \in Int
        /\ es = Prepared.entries /\ fq = Prepared.fromQuotes /\ from = FromOf(Prepared)
        /\ request.end \in Int /\ next \in Int /\ request.end < next
        /\ es # {} /\ fq => Opens(from)
    BY RequestFacts DEF StreamInv, TypesOK, AskedFor, CursorOK
  <2>2. /\ \A k : k \in DOMAIN out <=>
                    k \in DOMAIN Whole /\ from <= k[1] /\ k[1] <= request.end
        /\ \A k \in DOMAIN out : out[k].bar = Whole[k]
    BY DEF StreamIsOneRead, Whole, BarsOf
  <2>3. /\ \A k : k \in DOMAIN load /\ k[1] <= request.end <=> k \in DOMAIN out
        /\ \A k \in DOMAIN out : load[k] = Whole[k]
        /\ IsFiniteSet(DOMAIN load)
        /\ \A k \in DOMAIN load : k[1] \in Int /\ k[2] \in request.symbols /\ k = <<k[1], k[2]>>
    <3>1. CASE es = {}
      <4>1. \A k : k \notin DOMAIN load /\ k \notin DOMAIN out
        BY <2>1, <2>2, <3>1, NothingToRead DEF LoadRead, Whole
      <4>2. DOMAIN load = {}
        BY <4>1
      <4> QED BY <4>1, <4>2, FS_EmptySet
    <3>2. CASE es # {}
      <4>1. load = BarsOf(Between(AllRows(es), from, request.end), fq)
        BY <2>1, <3>2, GatherIsBetween DEF LoadRead
      <4>2. SliceOf(es, fq, from, request.end, next)
        BY <2>1, <3>2 DEF SliceOf
      <4>3. SliceIsWhole(es, fq, from, request.end, next)
        BY <2>1, <4>2, SliceBars
      <4>4. /\ \A k : k \in DOMAIN load /\ k[1] <= request.end <=>
                        k \in DOMAIN Whole /\ from <= k[1] /\ k[1] < next /\ k[1] <= request.end
            /\ \A k \in DOMAIN load : k[1] <= request.end => load[k] = Whole[k]
        BY <4>1, <4>3 DEF SliceIsWhole, Whole
      <4>5. \A k \in DOMAIN Whole : k[1] <= request.end => k[1] < next
        BY <2>1, WholeKeys DEF Whole
      <4>6. /\ IsFiniteSet(DOMAIN load)
            /\ \A k \in DOMAIN load : /\ k[1] \in Int /\ k[2] \in request.symbols
                                      /\ k = <<k[1], k[2]>>
        BY <2>1, <4>1, FiniteBars
      <4> HIDE DEF load, es, fq, from, next
      <4> QED BY <2>2, <4>4, <4>5, <4>6
    <3> QED BY <3>1, <3>2
  <2>4. LoadMany = TrimWarmup(load)
    BY DEF LoadMany
  <2>5. request.start \in Int
    BY <2>1, RequestFacts
  <2> HIDE DEF load, es, fq, from, next
  <2>6. /\ \A k \in DOMAIN LoadMany : k \in DOMAIN load /\ LoadMany[k] = load[k]
        /\ \A k \in DOMAIN load : k[1] >= request.start => k \in DOMAIN LoadMany
    <3>1. \A k : k \in DOMAIN LoadMany <=>
                   \E s \in request.symbols : k \in Trim(load, s)
      BY <2>4 DEF TrimWarmup
    <3>2. \A k \in DOMAIN LoadMany : LoadMany[k] = load[k]
      BY <2>4 DEF TrimWarmup
    <3>3. \A s, k : k \in Trim(load, s) => k \in DOMAIN load
      BY DEF Trim
    <3>4. \A k \in DOMAIN load : k[1] >= request.start => k \in Trim(load, k[2])
      BY DEF Trim
    <3> QED BY <2>3, <3>1, <3>2, <3>3, <3>4
  <2>7. \A s \in request.symbols :
          Cardinality({k \in DOMAIN LoadMany : k[2] = s /\ k[1] < request.start})
            <= request.warmup
    <3>1. ASSUME NEW s
          PROVE  Cardinality({k \in DOMAIN TrimWarmup(load) : k[2] = s /\ k[1] < request.start})
                   <= request.warmup
      <4>1. \A k \in DOMAIN load : k[1] \in Int /\ k = <<k[1], k[2]>>
        BY <2>3
      <4> QED BY <2>1, <2>3, <4>1, TrimLeaves
    <3> QED BY <2>4, <3>1
  <2>8. \A k \in DOMAIN LoadMany : k[1] <= request.end => k \in DOMAIN out /\ out[k].bar = LoadMany[k]
    BY <2>2, <2>3, <2>6
  <2>9. \A k \in DOMAIN out : k[1] >= request.start => k \in DOMAIN LoadMany
    BY <2>3, <2>6
  <2> QED BY <2>7, <2>8, <2>9 DEF Streams
<1> QED
  BY <1>1, StreamInvariant, StreamIsWhole, PTL

-----------------------------------------------------------------------------
(* Quotes.  The newest of some rows of one symbol. *)
LEMMA NewestIs ==
  ASSUME Fixed, NEW es \in SUBSET DOMAIN files, NEW table,
         NEW ks \in SUBSET DOMAIN AllRows(es), ks # {}, \A k, l \in ks : k[2] = l[2]
  PROVE  \E j \in ks : /\ \A i \in ks : i[1] <= j[1]
                       /\ \A i \in ks : (\A h \in ks : h[1] <= i[1]) => i = j
                       /\ Newest(table, ks) = <<j[1], table[j]>>
<1> DEFINE instants == {k[1] : k \in ks}
           g == [k \in ks |-> k[1]]
           last == Max(instants)
<1>1. \A k \in ks : k[1] \in Int /\ k = <<k[1], k[2]>>
  BY RowTypes
<1>2. IsFiniteSet(ks)
  BY FiniteSelection, FS_Subset
<1>3. g \in [ks -> instants] /\ \A t \in instants : \E k \in ks : g[k] = t
  OBVIOUS
<1>4. instants # {} /\ instants \in SUBSET Int
  BY <1>1
<1>5. \A k \in ks : k[1] \in instants
  OBVIOUS
<1>6. \A t \in instants : \E k \in ks : k[1] = t
  OBVIOUS
<1> HIDE DEF instants, g
<1>7. IsFiniteSet(instants)
  BY <1>2, <1>3, ImageIsFinite
<1>8. last \in instants /\ \A t \in instants : t <= last
  BY <1>4, <1>7, Extremes
<1>9. PICK j \in ks : j[1] = last
  BY <1>6, <1>8
<1>10. \A i \in ks : i[1] <= j[1]
  BY <1>5, <1>8, <1>9
<1>11. ASSUME NEW i \in ks, \A h \in ks : h[1] <= i[1]
       PROVE  i = j
  <2>1. i[1] \in Int /\ j[1] \in Int /\ i = <<i[1], i[2]>> /\ j = <<j[1], j[2]>> /\ i[2] = j[2]
    BY <1>1
  <2>2. i[1] = j[1]
    BY <1>10, <1>11, <2>1
  <2> QED BY <2>1, <2>2
<1>12. Newest(table, ks) = <<j[1], table[j]>>
  <2> DEFINE chosen == CHOOSE k \in ks : \A i \in ks : i[1] <= k[1]
  <2>1. chosen \in ks /\ \A i \in ks : i[1] <= chosen[1]
    BY <1>10, Zenon
  <2>2. Newest(table, ks) = <<chosen[1], table[chosen]>>
    BY DEF Newest
  <2> HIDE DEF chosen
  <2>3. chosen = j
    BY <1>11, <2>1
  <2> QED BY <2>2, <2>3
<1> QED
  BY <1>10, <1>11, <1>12

(* What was carried is a quote of the reader's files, before the slice.    *)
CarryOK ==
  Joining =>
    \A s \in request.symbols : carry[s] # Nothing =>
      LET joined == AllRows(QuoteEntries)
          k      == <<carry[s][1], s>>
      IN /\ k \in DOMAIN joined /\ carry[s][2] = joined[k]
         /\ at = "streaming" => carry[s][1] < cursor
QuoteInv ==
  /\ at = "asked" => out = [k \in {} |-> Nothing] /\ carry = [s \in request.symbols |-> Nothing]
  /\ CarryOK
  /\ QuoteExisted

LEMMA QuoteTableIs ==
  ASSUME Fixed, NEW lo \in Int, NEW hi \in Int
  PROVE  /\ QuoteEntries \in SUBSET DOMAIN files
         /\ QuoteTable(lo, hi) = Between(AllRows(QuoteEntries), lo - Frame, hi)
         /\ \A r : r \in DOMAIN QuoteTable(lo, hi) <=>
                     r \in DOMAIN AllRows(QuoteEntries) /\ lo - Frame <= r[1] /\ r[1] <= hi
         /\ \A r \in DOMAIN QuoteTable(lo, hi) : QuoteTable(lo, hi)[r] = AllRows(QuoteEntries)[r]
<1>1. QuoteEntries \in SUBSET DOMAIN files
  BY DEF QuoteEntries, Selected
<1> DEFINE behind == lo - Frame
<1>2. behind \in Int
  BY RequestFacts
<1>3. QuoteTable(lo, hi) = Gather(Active(QuoteEntries, behind, hi), behind, hi)
  BY DEF QuoteTable
<1> HIDE DEF behind
<1>4. QuoteTable(lo, hi) = Between(AllRows(QuoteEntries), behind, hi)
  BY <1>1, <1>2, <1>3, SliceIsBetween
<1> QED
  BY <1>1, <1>4 DEF behind, Between

LEMMA ResolvedIsWell ==
  ASSUME StreamInv, CarryOK, at = "streaming", Joining, NEW hi \in Int,
         NEW k, k[1] \in Int, k[2] \in request.symbols, cursor <= k[1], k[1] <= hi
  PROVE  WellJoined(k, Resolve(QuoteTable(cursor, hi), k))
<1> DEFINE joined == AllRows(QuoteEntries)
           table == QuoteTable(cursor, hi)
           own == {r \in DOMAIN table : r[2] = k[2] /\ r[1] <= k[1]}
           age == IF request.maxAge = Nothing THEN Frame ELSE Min({Frame, request.maxAge})
           near == Near(k, joined, age)
           best == IF own # {} THEN Newest(table, own) ELSE carry[k[2]]
           q == Resolve(table, k)
<1>1. /\ Fixed /\ cursor \in Int /\ Frame \in Nat \ {0} /\ request.maxAge \in Int \cup {Nothing}
  BY RequestFacts DEF StreamInv, TypesOK
<1>2. /\ QuoteEntries \in SUBSET DOMAIN files
      /\ \A r : r \in DOMAIN table <=>
                  r \in DOMAIN joined /\ cursor - Frame <= r[1] /\ r[1] <= hi
      /\ \A r \in DOMAIN table : table[r] = joined[r]
  BY <1>1, QuoteTableIs
<1>3. \A r \in DOMAIN joined : r[1] \in Int /\ r = <<r[1], r[2]>>
  BY <1>1, <1>2, RowTypes
<1>4. /\ age \in Int /\ age <= Frame
      /\ request.maxAge # Nothing => age <= request.maxAge
  <2>1. CASE request.maxAge = Nothing
    BY <1>1, <2>1
  <2>2. CASE request.maxAge # Nothing
    <3>1. Frame \in Int /\ request.maxAge \in Int
      BY <1>1, <2>2
    <3>2. /\ Min({Frame, request.maxAge}) \in {Frame, request.maxAge}
          /\ Min({Frame, request.maxAge}) <= Frame
          /\ Min({Frame, request.maxAge}) <= request.maxAge
      BY <3>1, OfTwo, Zenon
    <3>3. age = Min({Frame, request.maxAge})
      BY <2>2
    <3> HIDE DEF age
    <3> QED BY <3>1, <3>2, <3>3
  <2> QED BY <2>1, <2>2
<1>5. q = IF best # Nothing /\ request.maxAge # Nothing /\ k[1] - best[1] > request.maxAge
          THEN Nothing ELSE best
  BY DEF Resolve
<1>6. \A r : r \in near <=> /\ r \in DOMAIN joined /\ r[2] = k[2] /\ r[1] <= k[1]
                            /\ k[1] - r[1] <= age
  BY DEF Near
<1>7. /\ own \in SUBSET DOMAIN joined /\ \A r \in own : r[2] = k[2]
      /\ \A r : r \in own <=> r \in DOMAIN table /\ r[2] = k[2] /\ r[1] <= k[1]
  BY <1>2
<1>8. \A r \in near : r \in own
  <2> SUFFICES ASSUME NEW r \in near
               PROVE  r \in own
    OBVIOUS
  <2>1. r \in DOMAIN joined /\ r[2] = k[2] /\ r[1] <= k[1] /\ k[1] - r[1] <= age /\ r[1] \in Int
    BY <1>3, <1>6
  <2> HIDE DEF age, near, own, table, joined
  <2>2. cursor - Frame <= r[1] /\ r[1] <= hi
    BY <1>1, <1>4, <2>1
  <2> QED BY <1>2, <1>7, <2>1, <2>2
<1> HIDE DEF age, near, own, table, joined, q
<1>9. own # {} => \E i \in own : (\A r \in own : r[1] <= i[1]) /\ best = <<i[1], joined[i]>>
  <2> SUFFICES ASSUME own # {}
               PROVE  \E i \in own : (\A r \in own : r[1] <= i[1]) /\ best = <<i[1], joined[i]>>
    OBVIOUS
  <2>0. own # {}
    OBVIOUS
  <2>1. PICK i \in own : /\ \A r \in own : r[1] <= i[1]
                         /\ Newest(table, own) = <<i[1], table[i]>>
    <3>1. own \in SUBSET DOMAIN AllRows(QuoteEntries) /\ \A r, l \in own : r[2] = l[2]
      BY <1>7 DEF joined
    <3> QED BY <1>1, <1>2, <2>0, <3>1, NewestIs
  <2>2. table[i] = joined[i]
    BY <1>2, <1>7
  <2> QED BY <2>1, <2>2
<1>10. ASSUME near # {}
       PROVE  q = Newest(joined, near)
  <2>1. PICK i \in own : (\A r \in own : r[1] <= i[1]) /\ best = <<i[1], joined[i]>>
    BY <1>8, <1>9, <1>10
  <2>2. PICK j \in near : /\ \A r \in near : r[1] <= j[1]
                          /\ \A h \in near : (\A r \in near : r[1] <= h[1]) => h = j
                          /\ Newest(joined, near) = <<j[1], joined[j]>>
    <3>1. near \in SUBSET DOMAIN AllRows(QuoteEntries) /\ \A r, l \in near : r[2] = l[2]
      BY <1>6 DEF joined
    <3> QED BY <1>1, <1>2, <1>10, <3>1, NewestIs
  <2>3. /\ i \in DOMAIN joined /\ j \in DOMAIN joined /\ i[1] \in Int /\ j[1] \in Int
        /\ i[2] = k[2] /\ i[1] <= k[1] /\ j[1] <= i[1] /\ k[1] - j[1] <= age
    BY <1>2, <1>3, <1>6, <1>7, <1>8, <2>1, <2>2
  <2>4. k[1] - i[1] <= age
    BY <1>4, <2>3
  <2>5. i \in near
    BY <1>6, <2>3, <2>4
  <2>6. i = j
    BY <1>8, <2>1, <2>2, <2>5
  <2>7. best[1] = i[1]
    BY <2>1
  <2>8. request.maxAge # Nothing => ~(k[1] - best[1] > request.maxAge)
    BY <1>1, <1>4, <2>3, <2>4, <2>7
  <2>9. q = best
    BY <1>5, <2>8
  <2> QED BY <2>1, <2>2, <2>6, <2>9
<1>11. ASSUME q # Nothing
       PROVE  /\ q[1] <= k[1]
              /\ <<q[1], k[2]>> \in DOMAIN joined /\ joined[<<q[1], k[2]>>] = q[2]
              /\ request.maxAge = Nothing \/ k[1] - q[1] <= request.maxAge
  <2>1. q = best /\ best # Nothing
    BY <1>5, <1>11
  <2>2. /\ q[1] \in Int /\ q[1] <= k[1]
        /\ <<q[1], k[2]>> \in DOMAIN joined /\ joined[<<q[1], k[2]>>] = q[2]
    <3>1. CASE own # {}
      <4>1. PICK i \in own : best = <<i[1], joined[i]>>
        BY <1>9, <3>1
      <4>2. i = <<i[1], k[2]>> /\ i[1] \in Int /\ i[1] <= k[1] /\ i \in DOMAIN joined
        BY <1>3, <1>7
      <4>3. q[1] = i[1] /\ q[2] = joined[i]
        BY <2>1, <4>1
      <4> QED BY <4>2, <4>3
    <3>2. CASE own = {}
      <4>1. best = carry[k[2]]
        BY <3>2
      <4>2. /\ <<q[1], k[2]>> \in DOMAIN joined /\ q[2] = joined[<<q[1], k[2]>>]
            /\ q[1] < cursor
        BY <2>1, <4>1 DEF CarryOK, joined
      <4>3. q[1] \in Int
        BY <1>3, <4>2
      <4> QED BY <1>1, <4>2, <4>3
    <3> QED BY <3>1, <3>2
  <2>3. request.maxAge = Nothing \/ k[1] - q[1] <= request.maxAge
    BY <1>1, <1>5, <1>11, <2>1, <2>2
  <2> QED BY <2>2, <2>3
<1> QED
  BY <1>10, <1>11 DEF WellJoined, age, near, joined, q, table

(* The rows of the bar that closes at c are those of its length before c.  *)
LEMMA SameBar ==
  ASSUME NEW t \in Int, NEW u \in Int
  PROVE  CloseOf(t) = CloseOf(u) <=>
           t <= CloseOf(u) /\ CloseOf(u) - t <= (IF Width = 0 THEN 0 ELSE Width - 1)
<1>1. /\ Width \in Nat
      /\ CloseOf(t) \in Int /\ t <= CloseOf(t) /\ CloseOf(u) \in Int
  BY CloseFacts, CsvReadAssumption DEF CsvReadAssumption
<1>2. CASE Width = 0
  BY <1>1, <1>2, CloseFacts
<1>3. CASE Width > 0
  <2>1. PICK p \in Int : CloseOf(t) = p * Width
    BY <1>3, CloseFacts
  <2>2. PICK q \in Int : CloseOf(u) = q * Width
    BY <1>3, CloseFacts
  <2>3. CloseOf(t) < t + Width
    BY <1>3, CloseFacts
  <2>4. ASSUME t <= CloseOf(u), CloseOf(u) - t <= Width - 1
        PROVE  CloseOf(t) = CloseOf(u)
    <3>1. p * Width < q * Width + Width /\ q * Width < p * Width + Width
      BY <1>1, <2>1, <2>2, <2>3, <2>4
    <3>2. p < q + 1 /\ q < p + 1
      <4>1. (q + 1) * Width = q * Width + Width /\ (p + 1) * Width = p * Width + Width
        BY <1>1
      <4> QED BY <1>1, <1>3, <3>1, <4>1
    <3> QED BY <2>1, <2>2, <3>2
  <2>5. ASSUME CloseOf(t) = CloseOf(u)
        PROVE  t <= CloseOf(u) /\ CloseOf(u) - t <= Width - 1
    BY <1>1, <2>3, <2>5
  <2> QED BY <1>3, <2>4, <2>5
<1> QED
  BY <1>1, <1>2, <1>3

LEMMA FoldedIsWell ==
  ASSUME StreamInv, at = "streaming", cursor <= request.end, read.fromQuotes,
         NEW k \in DOMAIN SliceBarsOf, k[1] <= request.end
  PROVE  ClosingQuote(SliceBarsOf[k]) = LastOfBar(k)
<1> DEFINE recorded == AllRows(read.entries)
           back == IF Width = 0 THEN 0 ELSE Width - 1
           near == Near(k, recorded, back)
           inBar == {q \in DOMAIN recorded : CloseOf(q[1]) = k[1] /\ q[2] = k[2]}
           parts == Parts(recorded, k)
<1>1. /\ SliceOf(read.entries, TRUE, cursor, SliceHi, cursor + StepNow)
      /\ SliceTable = Between(recorded, cursor, SliceHi)
      /\ Fixed /\ read.entries \in SUBSET DOMAIN files
      /\ read.fromQuotes = TRUE
  BY NextSliceIs DEF SliceAfter, StreamInv, TypesOK
<1>2. SliceBarsOf = BarsOf(Between(recorded, cursor, SliceHi), TRUE)
  BY <1>1 DEF SliceBarsOf
<1>3. SliceIsWhole(read.entries, TRUE, cursor, SliceHi, cursor + StepNow)
  BY <1>1, SliceBars
<1>4. SliceBarsOf[k] = BarsOf(recorded, TRUE)[k] /\ k \in DOMAIN BarsOf(recorded, TRUE)
  BY <1>2, <1>3 DEF SliceIsWhole
<1>5. PICK r \in DOMAIN recorded : k = <<CloseOf(r[1]), r[2]>>
  <2> HIDE DEF recorded
  <2>1. BarsOf(recorded, TRUE) = Fold(recorded)
    BY DEF BarsOf
  <2> QED BY <1>4, <2>1 DEF Fold
<1>6. SliceBarsOf[k] = parts
  <2>1. BarsOf(recorded, TRUE) = Fold(recorded)
    BY DEF BarsOf
  <2> QED BY <1>4, <2>1 DEF Fold
<1>7. \A q \in DOMAIN recorded : q[1] \in Int
  BY <1>1, RowTypes
<1>8. \A q : q \in inBar <=> q \in near
  <2> SUFFICES ASSUME NEW q \in DOMAIN recorded, q[2] = k[2]
               PROVE  CloseOf(q[1]) = k[1] <=> q[1] <= k[1] /\ k[1] - q[1] <= back
    BY DEF Near
  <2>1. q[1] \in Int /\ r[1] \in Int /\ k[1] = CloseOf(r[1])
    BY <1>5, <1>7
  <2> QED BY <2>1, SameBar
<1>9. /\ near \in SUBSET DOMAIN AllRows(read.entries) /\ near # {}
      /\ \A q, l \in near : q[2] = l[2]
  <2>1. r \in inBar
    BY <1>5
  <2> QED BY <1>8, <2>1 DEF Near
<1>10. /\ \A p \in parts : \E q \in near : p = <<q[1], recorded[q]>>
       /\ \A q \in near : <<q[1], recorded[q]>> \in parts
  BY <1>8 DEF Parts
<1>11. LastOfBar(k) = Newest(recorded, near)
  BY DEF LastOfBar
<1> DEFINE best(p) == \A other \in parts : other[1] <= p[1]
           last == CHOOSE p \in parts : best(p)
<1>12. ClosingQuote(parts) = last
  BY DEF ClosingQuote
<1> HIDE DEF near, inBar, parts, back
<1>13. PICK j \in near : /\ \A i \in near : i[1] <= j[1]
                         /\ \A i \in near : (\A h \in near : h[1] <= i[1]) => i = j
                         /\ Newest(recorded, near) = <<j[1], recorded[j]>>
  BY <1>1, <1>9, NewestIs
<1> HIDE DEF recorded
<1>14. <<j[1], recorded[j]>> \in parts /\ best(<<j[1], recorded[j]>>)
  BY <1>10, <1>13
<1>15. last \in parts /\ best(last)
  BY <1>14, Zenon
<1> HIDE DEF last
<1>16. PICK i \in near : last = <<i[1], recorded[i]>>
  BY <1>10, <1>15
<1>17. \A h \in near : h[1] <= i[1]
  BY <1>10, <1>15, <1>16
<1>18. i = j
  BY <1>13, <1>17
<1> QED
  BY <1>6, <1>11, <1>12, <1>13, <1>16, <1>18 DEF recorded

(* What a quote is held against does not change while the files are read.  *)
LEMMA QuotesOnce ==
  ASSUME files' = files, request' = request, read' = read
  PROVE  /\ Joining' = Joining
         /\ CarryOK' <=>
              (Joining =>
                \A s \in request.symbols : carry'[s] # Nothing =>
                  LET k == <<carry'[s][1], s>>
                  IN /\ k \in DOMAIN AllRows(QuoteEntries)
                     /\ carry'[s][2] = AllRows(QuoteEntries)[k]
                     /\ at' = "streaming" => carry'[s][1] < cursor')
         /\ QuoteExisted' <=>
              \A k \in DOMAIN out' :
                /\ Joining => WellJoined(k, out'[k].quote)
                /\ read.fromQuotes => out'[k].quote = LastOfBar(k)
<1>1. AllRows(read.entries)' = AllRows(read.entries)
  BY DEF AllRows, Taken
<1>2. QuoteEntries' = QuoteEntries
  BY DEF QuoteEntries, Selected, Overlaps, MinTs, MaxTs
<1>3. AllRows(QuoteEntries)' = AllRows(QuoteEntries)
  BY <1>2 DEF AllRows, Taken
<1>4. Joining' = Joining
  BY DEF Joining
<1> QED
  BY <1>1, <1>3, <1>4 DEF CarryOK, QuoteExisted, WellJoined, LastOfBar, Near, Newest

LEMMA CarriedIsOK ==
  ASSUME StreamInv, CarryOK, at = "streaming", cursor <= request.end, Joining,
         NEW s \in request.symbols
  PROVE  LET c == Carried(QuoteTable(cursor, SliceHi))[s]
         IN c # Nothing =>
              /\ <<c[1], s>> \in DOMAIN AllRows(QuoteEntries)
              /\ c[2] = AllRows(QuoteEntries)[<<c[1], s>>]
              /\ c[1] < cursor + StepNow
<1> DEFINE joined == AllRows(QuoteEntries)
           table == QuoteTable(cursor, SliceHi)
           own == {r \in DOMAIN table : r[2] = s}
           c == Carried(table)[s]
<1>1. /\ Fixed /\ cursor \in Int /\ SliceHi \in Int /\ cursor + StepNow \in Int
      /\ SliceHi < cursor + StepNow /\ cursor < cursor + StepNow
  BY NextSliceIs DEF StreamInv, TypesOK, SliceAfter, SliceOf
<1>2. /\ QuoteEntries \in SUBSET DOMAIN files
      /\ \A r \in DOMAIN table : r \in DOMAIN joined /\ r[1] <= SliceHi
      /\ \A r \in DOMAIN table : table[r] = joined[r]
  BY <1>1, QuoteTableIs
<1>3. \A r \in DOMAIN joined : r[1] \in Int /\ r = <<r[1], r[2]>>
  BY <1>1, <1>2, RowTypes
<1>4. c = IF own = {} THEN carry[s] ELSE Newest(table, own)
  BY DEF Carried
<1>5. /\ own \in SUBSET DOMAIN AllRows(QuoteEntries) /\ \A r, l \in own : r[2] = l[2]
      /\ \A r \in own : r \in DOMAIN table /\ r[2] = s
  BY <1>2
<1> DEFINE next == cursor + StepNow
<1> HIDE DEF own, table, c, next
<1>6. CASE own = {}
  <2>1. c = carry[s]
    BY <1>4, <1>6
  <2>2. c # Nothing => <<c[1], s>> \in DOMAIN joined /\ c[2] = joined[<<c[1], s>>] /\ c[1] < cursor
    BY <2>1 DEF CarryOK
  <2>3. c # Nothing => c[1] \in Int
    BY <1>3, <2>2
  <2>4. cursor \in Int /\ next \in Int /\ cursor < next
    BY <1>1 DEF next
  <2>5. c # Nothing => c[1] < next
    BY <2>2, <2>3, <2>4
  <2> QED BY <2>2, <2>5 DEF c, table, next
<1>7. CASE own # {}
  <2>1. PICK j \in own : Newest(table, own) = <<j[1], table[j]>>
    BY <1>1, <1>2, <1>5, <1>7, NewestIs
  <2>2. c[1] = j[1] /\ c[2] = table[j]
    BY <1>4, <1>7, <2>1
  <2>3. j \in DOMAIN joined /\ j = <<j[1], s>> /\ j[1] \in Int /\ j[1] <= SliceHi
        /\ table[j] = joined[j]
    BY <1>2, <1>3, <1>5
  <2>4. j[1] < next
    <3>1. next \in Int /\ SliceHi \in Int /\ SliceHi < next
      BY <1>1 DEF next
    <3> QED BY <2>3, <3>1
  <2>5. <<c[1], s>> = j
    BY <2>2, <2>3
  <2> QED BY <2>2, <2>3, <2>4, <2>5 DEF c, table, next
<1> QED
  BY <1>6, <1>7

LEMMA FollowedIs ==
  ASSUME NEW f, NEW g, NEW k \in DOMAIN Followed(f, g)
  PROVE  \/ k \in DOMAIN g /\ Followed(f, g)[k] = g[k]
         \/ k \in DOMAIN f /\ Followed(f, g)[k] = f[k]
BY DEF Followed

LEMMA BarSliceJoins ==
  ASSUME StreamInv, QuoteInv, BarSlice
  PROVE  QuoteInv'
<1>1. Sliced(BarYields, BarCarries)
  BY BarSliceIs
<1>2. /\ at = "streaming" /\ cursor <= request.end
      /\ at' # "asked" /\ files' = files /\ request' = request /\ read' = read
      /\ cursor' = cursor + StepNow
      /\ at' = "streaming" => carry' = carry \/ carry' = BarCarries
      /\ carry' = carry \/ carry' = BarCarries
      /\ out' = out \/ out' = Followed(out, BarYields)
  BY <1>1 DEF Sliced
<1>3. /\ SliceTable = Between(AllRows(read.entries), cursor, SliceHi)
      /\ SliceHi \in Int /\ cursor \in Int /\ cursor' \in Int /\ cursor < cursor'
      /\ read.entries \in SUBSET DOMAIN files /\ Fixed
  BY <1>2, NextSliceIs DEF SliceAfter, SliceOf, StreamInv, TypesOK
<1>4. ASSUME NEW k \in DOMAIN BarYields
      PROVE  /\ Joining => WellJoined(k, BarYields[k].quote)
             /\ read.fromQuotes => BarYields[k].quote = LastOfBar(k)
  <2>1. k \in DOMAIN SliceBarsOf /\ k[1] <= request.end /\ BarYields[k].quote = QuoteOf(k)
    BY DEF BarYields
  <2>2. CASE read.fromQuotes
    <3>1. QuoteOf(k) = LastOfBar(k)
      BY <1>2, <2>1, <2>2, FoldedIsWell DEF QuoteOf
    <3> QED BY <2>1, <2>2, <3>1 DEF Joining
  <2>3. CASE ~read.fromQuotes
    <3>1. ASSUME Joining
          PROVE  WellJoined(k, QuoteOf(k))
      <4>1. k \in DOMAIN SliceTable
        BY <2>1, <2>3 DEF SliceBarsOf, BarsOf, AsBars
      <4>2. k \in DOMAIN AllRows(read.entries) /\ cursor <= k[1] /\ k[1] <= SliceHi
        BY <1>3, <4>1 DEF Between
      <4>3. k[1] \in Int /\ k[2] \in request.symbols
        BY <1>3, <4>2, RowTypes
      <4>4. WellJoined(k, Resolve(QuoteTable(cursor, SliceHi), k))
        BY <1>2, <1>3, <3>1, <4>2, <4>3, ResolvedIsWell DEF QuoteInv
      <4>5. QuoteOf(k) = Resolve(QuoteTable(cursor, SliceHi), k)
        BY <2>3, <3>1 DEF QuoteOf
      <4> QED BY <4>4, <4>5
    <3> QED BY <2>1, <2>3, <3>1
  <2> QED BY <2>2, <2>3
<1>5. QuoteExisted'
  <2>1. ASSUME NEW k \in DOMAIN out'
        PROVE  /\ Joining => WellJoined(k, out'[k].quote)
               /\ read.fromQuotes => out'[k].quote = LastOfBar(k)
    <3>1. \/ k \in DOMAIN BarYields /\ out'[k] = BarYields[k]
          \/ k \in DOMAIN out /\ out'[k] = out[k]
      <4>1. CASE out' = out
        BY <2>1, <4>1
      <4>2. CASE out' = Followed(out, BarYields)
        BY <2>1, <4>2, FollowedIs
      <4> QED BY <1>2, <4>1, <4>2
    <3>2. CASE k \in DOMAIN BarYields /\ out'[k] = BarYields[k]
      BY <1>4, <3>2
    <3>3. CASE k \in DOMAIN out /\ out'[k] = out[k]
      BY <3>3 DEF QuoteInv, QuoteExisted
    <3> QED BY <3>1, <3>2, <3>3
  <2> QED BY <1>2, <2>1, QuotesOnce
<1>6. CarryOK'
  <2>1. ASSUME Joining, NEW s \in request.symbols, carry'[s] # Nothing
        PROVE  /\ <<carry'[s][1], s>> \in DOMAIN AllRows(QuoteEntries)
               /\ carry'[s][2] = AllRows(QuoteEntries)[<<carry'[s][1], s>>]
               /\ carry'[s][1] < cursor'
    <3>1. CASE carry' = carry
      <4>1. /\ <<carry[s][1], s>> \in DOMAIN AllRows(QuoteEntries)
            /\ carry[s][2] = AllRows(QuoteEntries)[<<carry[s][1], s>>]
            /\ carry[s][1] < cursor
        BY <1>2, <2>1, <3>1 DEF QuoteInv, CarryOK
      <4>2. carry[s][1] \in Int
        <5>1. QuoteEntries \in SUBSET DOMAIN files
          BY DEF QuoteEntries, Selected
        <5> QED BY <1>3, <4>1, <5>1, RowTypes
      <4> QED BY <1>3, <3>1, <4>1, <4>2
    <3>2. CASE carry' = BarCarries
      <4>1. BarCarries = Carried(QuoteTable(cursor, SliceHi))
        BY <2>1 DEF BarCarries
      <4> QED BY <1>2, <2>1, <3>2, <4>1, CarriedIsOK DEF QuoteInv
    <3> QED BY <1>2, <3>1, <3>2
  <2> QED BY <1>2, <2>1, QuotesOnce
<1> QED
  BY <1>2, <1>5, <1>6 DEF QuoteInv

LEMMA OthersKeepQuotes ==
  ASSUME StreamInv, QuoteInv, [Next]_vars, ~BarSlice
  PROVE  QuoteInv'
<1>1. CASE Ask \/ AskQuotes
  <2>1. /\ at = "asked" /\ at' # "asked" /\ out' = out /\ carry' = carry
        /\ files' = files /\ request' = request
    BY <1>1 DEF Ask, Begin, AskQuotes
  <2>2. out' = [k \in {} |-> Nothing] /\ carry' = [s \in request.symbols |-> Nothing]
    BY <2>1 DEF QuoteInv
  <2>3. QuoteExisted'
    BY <2>2 DEF QuoteExisted
  <2>4. CarryOK'
    BY <2>1, <2>2 DEF CarryOK
  <2> QED BY <2>1, <2>3, <2>4 DEF QuoteInv
<1>2. CASE QuoteSlice
  <2>1. Sliced(QuoteYields, carry) /\ request.what = "quotes"
    BY <1>2, QuoteSliceIs
  <2>2. at' # "asked" /\ files' = files /\ request' = request /\ read' = read
    BY <2>1 DEF Sliced
  <2>3. ~Joining /\ read.fromQuotes = FALSE
    BY <2>1 DEF Joining, StreamInv, AskedFor
  <2> QED BY <2>2, <2>3, QuotesOnce DEF QuoteInv
<1>3. CASE Finish \/ UNCHANGED vars
  <2>1. /\ files' = files /\ request' = request /\ read' = read
        /\ out' = out /\ carry' = carry /\ cursor' = cursor
        /\ at' = at \/ at' = "done"
    BY <1>3 DEF Finish, vars
  <2>2. QuoteExisted'
    BY <2>1, QuotesOnce DEF QuoteInv, QuoteExisted
  <2>3. CarryOK'
    BY <2>1, QuotesOnce DEF QuoteInv, CarryOK
  <2> QED BY <2>1, <2>2, <2>3 DEF QuoteInv
<1> QED
  BY <1>1, <1>2, <1>3 DEF Next

(* Whatever the slices, a bar is never yielded with a quote that did not   *)
(* exist yet or is too old, nor without one its files have (_QuoteReader,  *)
(* _closing_quotes).                                                       *)
THEOREM QuotesExisted ==
  ASSUME AfterTheEpoch
  PROVE  Spec => []QuoteExisted
<1>1. Init => QuoteInv
  <2> SUFFICES ASSUME Init
               PROVE  QuoteInv
    OBVIOUS
  <2>1. out = [k \in {} |-> Nothing] /\ carry = [s \in request.symbols |-> Nothing]
    BY DEF Init
  <2>2. QuoteExisted /\ CarryOK
    BY <2>1 DEF QuoteExisted, CarryOK
  <2> QED BY <2>1, <2>2 DEF QuoteInv
<1>2. StreamInv /\ QuoteInv /\ [Next]_vars => QuoteInv'
  BY BarSliceJoins, OthersKeepQuotes
<1>3. QuoteInv => QuoteExisted
  BY DEF QuoteInv
<1> QED
  BY <1>1, <1>2, <1>3, StreamInvariant, PTL DEF Spec

-----------------------------------------------------------------------------
(* Warm-up.  What is shortly before the window is in every selection and   *)
(* in every probe.                                                         *)
LEMMA ShortlyFacts ==
  ASSUME Fixed
  PROVE  /\ Shortly \in Int /\ WindowStart \in Int
         /\ WindowStart <= request.start - Shortly
         /\ \A i \in 1..4 : request.start - Frame * request.warmup * Pads[i]
                              <= request.start - Shortly
<1> DEFINE a == Frame * request.warmup
           m == Min({Reach, 3})
<1>1. /\ Frame \in Nat \ {0} /\ request.warmup \in Nat /\ Reach \in Nat \ {0}
      /\ request.start \in Int
  BY RequestFacts
<1>2. m \in {Reach, 3} /\ m <= Reach /\ m <= 3
  <2>1. Reach \in Int /\ 3 \in Int
    BY <1>1
  <2> QED BY <2>1, OfTwo, Zenon
<1>3. Shortly = a * m
  BY DEF Shortly, Pads
<1>4. a \in Nat
  BY <1>1
<1>5. WindowStart = request.start - a * Reach
  <2>1. request.warmup * Frame = Frame * request.warmup
    BY <1>1
  <2> QED BY <2>1 DEF WindowStart
<1> HIDE DEF a, m
<1>6. a * m <= a * Reach /\ a * m <= a * 3 /\ a * m \in Int /\ a * Reach \in Int
  <2>1. m \in Nat
    BY <1>1, <1>2
  <2> QED BY <1>1, <1>2, <1>4, <2>1
<1>7. \A i \in 1..4 : Pads[i] \in Nat /\ Pads[i] >= 3
  BY DEF Pads
<1>8. ASSUME NEW i \in 1..4
      PROVE  request.start - Frame * request.warmup * Pads[i] <= request.start - Shortly
  <2> DEFINE pad == Pads[i]
  <2>1. pad \in Nat /\ pad >= 3
    BY <1>7
  <2> HIDE DEF pad
  <2>2. a * 3 <= a * pad /\ a * pad \in Int
    BY <1>4, <2>1
  <2>3. request.start - a * pad <= request.start - Shortly
    <3> DEFINE x == a * pad
               y == a * 3
               z == a * m
    <3>1. y <= x /\ x \in Int /\ z <= y /\ z \in Int /\ y \in Int /\ Shortly = z
      BY <1>3, <1>4, <1>6, <2>2
    <3> HIDE DEF x, y, z
    <3>2. request.start - x <= request.start - Shortly
      BY <1>1, <3>1
    <3> QED BY <3>2 DEF x
  <2> QED BY <2>3 DEF a, pad
<1> QED
  BY <1>1, <1>3, <1>5, <1>6, <1>8

LEMMA HistoryHolds ==
  ASSUME Fixed, AfterTheEpoch
  PROVE  /\ \A from \in Int :
              Selected("aggregate", from) \subseteq Selected("aggregate", AllHistory)
         /\ \A from \in Int : \A f \in DOMAIN files : \A k \in files[f].rows :
              /\ files[f].kind = "aggregate" /\ k[2] \in request.symbols
              /\ from <= k[1] /\ k[1] < request.start
              => f \in Selected("aggregate", from)
         /\ \A f \in DOMAIN files : \A k \in files[f].rows :
              /\ files[f].kind = "aggregate" /\ k[2] \in request.symbols
              /\ k[1] < request.start
              => f \in Selected("aggregate", AllHistory)
<1>1. \A f \in DOMAIN files :
        /\ MinTs(f) \in Int /\ MaxTs(f) \in Int /\ MaxTs(f) > 0
        /\ \A k \in files[f].rows :
             k[1] \in Int /\ k[1] > 0 /\ MinTs(f) <= k[1] /\ k[1] <= MaxTs(f)
  <2>1. \A f \in DOMAIN files : \A k \in files[f].rows : k[1] > 0
    BY DEF AfterTheEpoch, Fixed
  <2> QED BY <2>1, FileFacts
<1>2. request.start \in Int /\ request.end \in Int /\ request.start < request.end
  BY RequestFacts
<1>3. ASSUME NEW from \in Int, NEW f \in DOMAIN files, NEW k \in files[f].rows,
             files[f].kind = "aggregate", k[2] \in request.symbols,
             from <= k[1], k[1] < request.start
      PROVE  f \in Selected("aggregate", from)
  <2>1. Overlaps(f, from, request.end)
    BY <1>1, <1>2, <1>3 DEF Overlaps
  <2> QED BY <1>3, <2>1 DEF Selected
<1>4. AllHistory \in Int /\ AllHistory = 0
  BY DEF AllHistory
<1>5. ASSUME NEW from \in Int, NEW f \in Selected("aggregate", from)
      PROVE  f \in Selected("aggregate", AllHistory)
  <2>1. f \in DOMAIN files /\ Overlaps(f, from, request.end)
    BY DEF Selected
  <2>2. Overlaps(f, 0, request.end)
    BY <1>1, <2>1 DEF Overlaps
  <2> QED BY <1>4, <2>2 DEF Selected
<1>6. ASSUME NEW f \in DOMAIN files, NEW k \in files[f].rows,
             files[f].kind = "aggregate", k[2] \in request.symbols, k[1] < request.start
      PROVE  f \in Selected("aggregate", AllHistory)
  BY <1>1, <1>3, <1>4, <1>6
<1> QED
  BY <1>3, <1>5, <1>6

(* A probe that answers finds warmup rows of each symbol that has one.     *)
LEMMA CutLeavesEnough ==
  ASSUME Fixed, NEW es \in SUBSET DOMAIN files, NEW probe \in Int, request.warmup > 0,
         Cut(es, probe) # Nothing,
         NEW row \in DOMAIN AllRows(es), probe <= row[1], row[1] < request.start,
         NEW given, IsFiniteSet(given),
         \A k \in DOMAIN AllRows(es) :
           k[2] = row[2] /\ Cut(es, probe) <= k[1] /\ k[1] < request.start => k \in given
  PROVE  request.warmup <= Cardinality(given)
<1> DEFINE recorded == ProbeRows(es, probe)
           own == Instants(recorded, row[2])
           cut == Cut(es, probe)
<1>1. /\ IsFiniteSet(recorded)
      /\ \A k : k \in recorded <=> k \in DOMAIN AllRows(es) /\ probe <= k[1] /\ k[1] < request.start
  BY ProbeRowsAre
<1>2. row \in recorded
  BY <1>1
<1>3. /\ \E k \in recorded : k[1] = cut
      /\ \E t \in own : cut <= t /\ Cardinality(Above(own, t)) = request.warmup - 1
  BY <1>2, CutFacts
<1>4. PICK t \in own : cut <= t /\ Cardinality(Above(own, t)) = request.warmup - 1
  BY <1>3
<1>5. \A k \in recorded : k[1] \in Int /\ k = <<k[1], k[2]>>
  BY <1>1, RowTypes
<1>6. \A u : u \in own <=> \E k \in recorded : k[2] = row[2] /\ u = k[1]
  BY DEF Instants
<1>7. cut \in Int
  BY <1>3, <1>5
<1>8. own \in SUBSET Int /\ IsFiniteSet(own)
  <2> DEFINE mine == {k \in recorded : k[2] = row[2]}
             g == [k \in mine |-> k[1]]
  <2>1. mine \in SUBSET recorded /\ \A k : k \in mine <=> k \in recorded /\ k[2] = row[2]
    OBVIOUS
  <2>2. IsFiniteSet(mine)
    BY <1>1, <2>1, FS_Subset
  <2> HIDE DEF mine, own, recorded
  <2>3. g \in [mine -> own] /\ \A u \in own : \E k \in mine : g[k] = u
    BY <1>6, <2>1
  <2> HIDE DEF g
  <2>4. IsFiniteSet(own)
    BY <2>2, <2>3, ImageIsFinite
  <2> QED BY <1>5, <1>6, <2>4
<1> HIDE DEF own, recorded
<1> DEFINE above == Above(own, t)
           last  == above \cup {t}
           key   == [u \in last |-> <<u, row[2]>>]
<1>9. /\ IsFiniteSet(above) /\ t \notin above /\ above \in SUBSET own
      /\ \A u \in above : u > t
  BY <1>8, AboveFacts
<1>10. Cardinality(last) = request.warmup
  <2>1. Cardinality(last) = Cardinality(above) + 1
    BY <1>9, FS_AddElement
  <2>2. request.warmup \in Nat
    BY RequestFacts
  <2> QED BY <1>4, <2>1, <2>2
<1> HIDE DEF above
<1>11. ASSUME NEW u \in last
       PROVE  <<u, row[2]>> \in given
  <2>1. u \in own /\ u \in Int /\ t \in Int /\ cut <= u
    BY <1>4, <1>7, <1>8, <1>9
  <2>2. PICK k \in recorded : k[2] = row[2] /\ u = k[1]
    BY <1>6, <2>1
  <2>3. k \in DOMAIN AllRows(es) /\ k[1] < request.start /\ k = <<u, row[2]>>
    BY <1>1, <1>5, <2>2
  <2> QED BY <2>1, <2>2, <2>3
<1>12. key \in Injection(last, given)
  <2>1. key \in [last -> given]
    BY <1>11
  <2>2. \A u, v \in last : key[u] = key[v] => u = v
    OBVIOUS
  <2> HIDE DEF key, last
  <2> QED BY <2>1, <2>2 DEF Injection, IsInjective
<1> HIDE DEF key, last
<1> QED
  BY <1>10, <1>12, FS_Injection

LEMMA ProbeReaches ==
  ASSUME Fixed, NEW es \in SUBSET DOMAIN files, NEW f \in es, NEW row \in files[f].rows,
         request.start - Shortly <= row[1], NEW i \in 1..4
  PROVE  Probe(es, i) \in Int /\ Probe(es, i) <= row[1]
<1> DEFINE reach == request.start - Frame * request.warmup * Pads[i]
<1>1. /\ Floor(es) \in Int /\ Floor(es) <= row[1] /\ row[1] \in Int
      /\ request.start \in Int /\ Shortly \in Int
  BY FloorFacts, FileFacts, RequestFacts, ShortlyFacts
<1>2. reach <= request.start - Shortly
  BY ShortlyFacts
<1>3. reach \in Int
  <2>1. Pads[i] \in Nat
    BY DEF Pads
  <2> QED BY <1>1, <2>1, RequestFacts
<1>4. Probe(es, i) = Max({Floor(es), reach})
  BY DEF Probe
<1> HIDE DEF reach
<1>5. Probe(es, i) \in {Floor(es), reach}
  BY <1>1, <1>3, <1>4, OfTwo, Zenon
<1>6. reach <= row[1]
  BY <1>1, <1>2, <1>3
<1> QED
  BY <1>1, <1>3, <1>5, <1>6

(* Which files are read when a symbol has a bar shortly before the window: *)
(* all of history, unless a probe answered from less.                      *)
LEMMA ShortlyIsRead ==
  ASSUME Fixed, AfterTheEpoch, Prepared.entries # {}, request.warmup > 0,
         NEW f \in DOMAIN files, files[f].kind = "aggregate",
         NEW row \in files[f].rows, row[2] \in request.symbols,
         row[1] < request.start, request.start - Shortly <= row[1]
  PROVE  LET es  == Prepared.entries
             all == Selected("aggregate", AllHistory)
         IN /\ f \in es /\ es \subseteq all
            /\ Prepared.from = WarmupStart(es)
            /\ es = all \/ ~(WarmupStart(es) <= Floor(es))
<1> DEFINE first  == BarSource(WindowStart)
           whole  == BarSource(AllHistory)
           second == IF Reopens(first) THEN whole ELSE first
           es     == Kept(first, second)
           all    == Selected("aggregate", AllHistory)
           near   == Selected("aggregate", WindowStart)
<1>1. /\ Prepared.entries = es
      /\ Prepared.from = IF es = {} THEN 0 ELSE WarmupStart(es)
  BY DEF Prepared, Reading
<1>2. /\ WindowStart \in Int /\ WindowStart <= row[1] /\ row[1] \in Int
  <2>1. row[1] \in Int /\ request.start \in Int
    BY FileFacts, RequestFacts
  <2> QED BY <2>1, ShortlyFacts
<1>3. f \in near /\ f \in all /\ near \subseteq all
  BY <1>2, HistoryHolds
<1>4. first = [entries |-> near, fromQuotes |-> FALSE]
  BY <1>3 DEF BarSource
<1>5. whole = [entries |-> all, fromQuotes |-> FALSE]
  BY <1>3 DEF BarSource
<1>6. IsFiniteSet(all) /\ Cardinality(all) \in Nat /\ Cardinality(near) \in Nat
  <2>1. all \in SUBSET DOMAIN files /\ near \in SUBSET DOMAIN files
    BY DEF Selected
  <2>2. IsFiniteSet(all) /\ IsFiniteSet(near)
    BY <2>1, FiniteSelection
  <2> QED BY <2>2, FS_CardinalityType
<1> HIDE DEF all, near
<1>7. CASE Reopens(first)
  <2>1. es = IF Cardinality(all) > Cardinality(near) THEN all ELSE near
    BY <1>4, <1>5, <1>7 DEF Kept
  <2>2. ~(Cardinality(all) > Cardinality(near)) => near = all
    <3>1. near \in SUBSET all
      BY <1>3
    <3>2. Cardinality(near) <= Cardinality(all) /\ (Cardinality(all) = Cardinality(near) => all = near)
      BY <1>6, <3>1, FS_Subset
    <3> QED BY <1>6, <3>2
  <2>3. es = all
    BY <2>1, <2>2
  <2> QED BY <1>1, <1>3, <2>3 DEF all
<1>8. CASE ~Reopens(first)
  <2>1. es = near
    BY <1>4, <1>8 DEF Kept
  <2>2. ~(WarmupStart(near) <= Floor(near))
    BY <1>3, <1>4, <1>8 DEF Reopens
  <2> QED BY <1>1, <1>3, <2>1, <2>2 DEF all
<1> QED
  BY <1>7, <1>8

LEMMA WarmupIsServed ==
  ASSUME StreamInv, StreamIsOneRead, AfterTheEpoch
  PROVE  WarmupServed
<1> SUFFICES ASSUME at = "done", request.what = "bars", read.entries # {}, ~read.fromQuotes,
                    NEW s \in request.symbols
             PROVE  LET all    == AllRows({f \in DOMAIN files : files[f].kind = "aggregate"})
                        before == {k \in DOMAIN all : k[2] = s /\ k[1] < request.start}
                        given  == {k \in DOMAIN out : k[2] = s /\ k[1] < request.start}
                    IN (\E k \in before : k[1] >= request.start - Shortly) =>
                         Cardinality(given) >= Min({request.warmup, Cardinality(before)})
  BY DEF WarmupServed
<1> DEFINE aggregates == {f \in DOMAIN files : files[f].kind = "aggregate"}
           all    == AllRows(aggregates)
           before == {k \in DOMAIN all : k[2] = s /\ k[1] < request.start}
           given  == {k \in DOMAIN out : k[2] = s /\ k[1] < request.start}
           es     == read.entries
           least  == Min({request.warmup, Cardinality(before)})
<1>1. SUFFICES ASSUME NEW row \in before, row[1] >= request.start - Shortly
               PROVE  Cardinality(given) >= least
  OBVIOUS
<1>2. /\ Fixed /\ es \in SUBSET DOMAIN files /\ es = Prepared.entries
      /\ read.fromQuotes = Prepared.fromQuotes /\ read.from = FromOf(Prepared)
      /\ read.fromQuotes = FALSE
  BY DEF StreamInv, TypesOK, AskedFor
<1>3. read.from = Prepared.from
  BY <1>2 DEF FromOf
<1>4. /\ request.start \in Int /\ request.end \in Int /\ request.start < request.end
      /\ request.warmup \in Nat /\ Shortly \in Int
  BY <1>2, RequestFacts, ShortlyFacts
<1>5. \A k : k \in DOMAIN out <=>
        k \in DOMAIN AllRows(es) /\ read.from <= k[1] /\ k[1] <= request.end
  BY <1>2 DEF StreamIsOneRead, AsBars
<1>6. aggregates \in SUBSET DOMAIN files
  OBVIOUS
<1> HIDE DEF es
<1>7. /\ IsFiniteSet(before) /\ Cardinality(before) \in Nat
      /\ IsFiniteSet(given) /\ Cardinality(given) \in Nat
  <2>1. before \in SUBSET DOMAIN all /\ IsFiniteSet(DOMAIN all)
    BY <1>2, <1>6, FiniteSelection
  <2>2. given \in SUBSET DOMAIN AllRows(es) /\ IsFiniteSet(DOMAIN AllRows(es))
    BY <1>2, <1>5, FiniteSelection
  <2> HIDE DEF given, before, all
  <2> QED BY <2>1, <2>2, FS_Subset, FS_CardinalityType
<1>8. least <= request.warmup /\ least <= Cardinality(before) /\ least \in Int
  <2>1. request.warmup \in Int /\ Cardinality(before) \in Int
    BY <1>4, <1>7
  <2> HIDE DEF before
  <2>2. least \in {request.warmup, Cardinality(before)}
        /\ least <= request.warmup /\ least <= Cardinality(before)
    BY <2>1, OfTwo, Zenon
  <2> QED BY <2>1, <2>2
<1>9. CASE request.warmup = 0
  <2> HIDE DEF least, given
  <2> QED BY <1>7, <1>8, <1>9
<1>10. CASE request.warmup > 0
  <2>1. PICK f \in DOMAIN files : files[f].kind = "aggregate" /\ row \in files[f].rows
    BY RowIn
  <2>2. row[2] = s /\ row[1] < request.start /\ row[1] \in Int
    BY <1>2, <1>6, RowTypes
  <2>3. /\ f \in es /\ es \subseteq Selected("aggregate", AllHistory)
        /\ read.from = WarmupStart(es)
        /\ es = Selected("aggregate", AllHistory) \/ ~(WarmupStart(es) <= Floor(es))
    <3>1. request.start - Shortly <= row[1]
      BY <1>1, <1>4, <2>2
    <3>2. Prepared.entries # {}
      BY <1>2 DEF es
    <3> QED BY <1>2, <1>3, <1>10, <2>1, <2>2, <3>1, <3>2, ShortlyIsRead
  <2>4. row \in DOMAIN AllRows(es)
    BY <2>1, <2>2, <2>3, RowIn
  <2>5. CASE WarmupStart(es) = Floor(es)
    <3>1. Floor(es) \in Int /\ \A g \in es : \A k \in files[g].rows : Floor(es) <= k[1]
      BY <1>2, <2>3, FloorFacts
    <3>2. es = Selected("aggregate", AllHistory)
      BY <2>3, <2>5, <3>1
    <3>3. ASSUME NEW k \in before
          PROVE  k \in given
      <4>1. PICK g \in DOMAIN files : files[g].kind = "aggregate" /\ k \in files[g].rows
        BY RowIn
      <4>2. k[2] = s /\ k[1] < request.start /\ k[1] \in Int
        BY <1>2, <1>6, RowTypes
      <4>3. g \in es
        BY <1>2, <3>2, <4>1, <4>2, HistoryHolds
      <4>4. k \in DOMAIN AllRows(es)
        BY <4>1, <4>2, <4>3, RowIn
      <4>5. read.from <= k[1] /\ k[1] <= request.end
        BY <1>4, <2>3, <2>5, <3>1, <4>1, <4>2, <4>3
      <4> QED BY <1>5, <4>2, <4>4, <4>5
    <3> HIDE DEF before, given, least
    <3>4. Cardinality(before) <= Cardinality(given)
      BY <1>7, <3>3, FS_Subset
    <3> QED BY <1>7, <1>8, <3>4
  <2>6. CASE \E i \in 1..4 : /\ WarmupStart(es) = Cut(es, Probe(es, i))
                             /\ Cut(es, Probe(es, i)) # Nothing
    <3>1. PICK i \in 1..4 : /\ WarmupStart(es) = Cut(es, Probe(es, i))
                            /\ Cut(es, Probe(es, i)) # Nothing
      BY <2>6
    <3>2. es # {}
      BY <2>3
    <3>3. Probe(es, i) \in Int /\ Probe(es, i) <= row[1]
      BY <1>1, <1>2, <1>4, <2>2, <2>3, <2>1, <3>2, ProbeReaches
    <3>4. \A k \in DOMAIN AllRows(es) :
            /\ k[2] = row[2] /\ Cut(es, Probe(es, i)) <= k[1] /\ k[1] < request.start
            => k \in given
      <4> SUFFICES ASSUME NEW k \in DOMAIN AllRows(es), k[2] = row[2],
                          Cut(es, Probe(es, i)) <= k[1], k[1] < request.start
                   PROVE  k \in given
        OBVIOUS
      <4>1. k[1] \in Int /\ read.from <= k[1]
        BY <1>2, <2>3, <3>1, RowTypes
      <4> QED BY <1>4, <1>5, <2>2, <4>1
    <3> HIDE DEF given, least, before
    <3>5. request.warmup <= Cardinality(given)
      BY <1>2, <1>7, <1>10, <2>2, <2>4, <3>1, <3>3, <3>4, CutLeavesEnough
    <3> QED BY <1>4, <1>7, <1>8, <3>5
  <2> QED
    BY <1>2, <1>10, <2>3, <2>5, <2>6, WarmupStartIs
<1> QED
  BY <1>4, <1>9, <1>10

(* Whichever files hold them, the warm-up bars a symbol was promised are   *)
(* read, or all it has (_warmup_start_ns, _prepare_read).                  *)
THEOREM WarmupIsKept ==
  ASSUME AfterTheEpoch
  PROVE  Spec => []WarmupServed
<1>1. StreamInv /\ StreamIsOneRead => WarmupServed
  BY WarmupIsServed
<1> QED
  BY <1>1, StreamInvariant, StreamIsWhole, PTL
-----------------------------------------------------------------------------
(* What is in a table, a bar and the carried quotes. *)
LEMMA TakenIs ==
  ASSUME Fixed, NEW es \in SUBSET DOMAIN files, NEW k \in DOMAIN AllRows(es)
  PROVE  AllRows(es)[k] \in es /\ k \in files[AllRows(es)[k]].rows
<1> DEFINE having == {f \in es : k \in files[f].rows}
<1>1. AllRows(es)[k] = IF request.onDuplicate = "keep_first" THEN Min(having) ELSE Max(having)
  BY DEF AllRows, Taken
<1>2. having # {} /\ having \in SUBSET es
  BY RowIn
<1>3. having \in SUBSET Int
  <2>1. \A f \in es : f \in Int
    BY FileFacts
  <2> QED BY <2>1
<1>4. \A f \in having : f \in es /\ k \in files[f].rows
  OBVIOUS
<1> HIDE DEF having
<1>5. IsFiniteSet(having)
  BY <1>2, FiniteSelection, FS_Subset
<1>6. Min(having) \in having /\ Max(having) \in having
  BY <1>2, <1>3, <1>5, Extremes
<1> QED
  BY <1>1, <1>4, <1>6

LEMMA BarsAre ==
  ASSUME StreamInv, at = "streaming", cursor <= request.end, NEW k \in DOMAIN SliceBarsOf
  PROVE  /\ k[1] \in Int /\ k[2] \in request.symbols
         /\ SliceBarsOf[k] # {} /\ SliceBarsOf[k] \subseteq Int \X DOMAIN files
<1>1. /\ SliceTable = Between(AllRows(read.entries), cursor, SliceHi)
      /\ Fixed /\ read.entries \in SUBSET DOMAIN files /\ read.fromQuotes \in BOOLEAN
  BY NextSliceIs DEF StreamInv, TypesOK
<1>2. \A r \in DOMAIN SliceTable : /\ r[1] \in Int /\ r[2] \in request.symbols
                                   /\ SliceTable[r] \in DOMAIN files
                                   /\ CloseOf(r[1]) \in Int
  <2> SUFFICES ASSUME NEW r \in DOMAIN SliceTable
               PROVE  /\ r[1] \in Int /\ r[2] \in request.symbols
                      /\ SliceTable[r] \in DOMAIN files
                      /\ CloseOf(r[1]) \in Int
    OBVIOUS
  <2>1. r \in DOMAIN AllRows(read.entries) /\ SliceTable[r] = AllRows(read.entries)[r]
    BY <1>1 DEF Between
  <2>2. AllRows(read.entries)[r] \in read.entries
    BY <1>1, <2>1, TakenIs
  <2>3. r[1] \in Int /\ r[2] \in request.symbols
    BY <1>1, <2>1, RowTypes
  <2> QED BY <1>1, <2>1, <2>2, <2>3, CloseFacts
<1>3. CASE read.fromQuotes
  <2>1. SliceBarsOf = Fold(SliceTable)
    BY <1>3 DEF SliceBarsOf, BarsOf
  <2>2. PICK r \in DOMAIN SliceTable : k = <<CloseOf(r[1]), r[2]>>
    BY <2>1 DEF Fold
  <2>3. SliceBarsOf[k] = Parts(SliceTable, k)
    BY <2>1 DEF Fold
  <2>4. <<r[1], SliceTable[r]>> \in Parts(SliceTable, k)
    BY <2>2 DEF Parts
  <2>5. Parts(SliceTable, k) \subseteq Int \X DOMAIN files
    BY <1>2 DEF Parts
  <2> QED BY <1>2, <2>2, <2>3, <2>4, <2>5
<1>4. CASE ~read.fromQuotes
  <2>1. SliceBarsOf = AsBars(SliceTable)
    BY <1>4 DEF SliceBarsOf, BarsOf
  <2>2. k \in DOMAIN SliceTable /\ SliceBarsOf[k] = {<<k[1], SliceTable[k]>>}
    BY <2>1 DEF AsBars
  <2> QED BY <1>2, <2>2
<1> QED
  BY <1>3, <1>4

CarryTyped == \A s \in request.symbols :
  carry[s] = Nothing \/ carry[s] \in Int \X DOMAIN files
BarsTyped == \A k \in DOMAIN out :
  /\ k[1] \in Int /\ k[2] \in request.symbols
  /\ out[k].bar # {} /\ out[k].bar \subseteq Int \X DOMAIN files

LEMMA SliceTyped ==
  ASSUME StreamInv, CarryTyped, BarsTyped, NEW yields, NEW carries,
         Sliced(yields, carries), SliceYields(yields),
         carries = carry \/ carries = Carried(QuoteTable(cursor, SliceHi))
  PROVE  CarryTyped' /\ BarsTyped'
<1>1. /\ at = "streaming" /\ cursor <= request.end
      /\ files' = files /\ request' = request
      /\ carry' = carry \/ carry' = carries
      /\ out' = out \/ out' = Followed(out, yields)
  BY DEF Sliced
<1>2. BarsTyped'
  <2>1. ASSUME NEW k \in DOMAIN yields
        PROVE  /\ k[1] \in Int /\ k[2] \in request.symbols
               /\ yields[k].bar # {} /\ yields[k].bar \subseteq Int \X DOMAIN files
    <3>1. k \in DOMAIN SliceBarsOf /\ yields[k].bar = SliceBarsOf[k]
      BY DEF SliceYields, SliceBarsOf
    <3> QED BY <1>1, <3>1, BarsAre
  <2>2. ASSUME NEW k \in DOMAIN out'
        PROVE  /\ k[1] \in Int /\ k[2] \in request.symbols
               /\ out'[k].bar # {} /\ out'[k].bar \subseteq Int \X DOMAIN files
    <3>1. \/ k \in DOMAIN yields /\ out'[k] = yields[k]
          \/ k \in DOMAIN out /\ out'[k] = out[k]
      <4>1. CASE out' = out
        BY <2>2, <4>1
      <4>2. CASE out' = Followed(out, yields)
        BY <2>2, <4>2, FollowedIs
      <4> QED BY <1>1, <4>1, <4>2
    <3>2. CASE k \in DOMAIN yields /\ out'[k] = yields[k]
      BY <2>1, <3>2
    <3>3. CASE k \in DOMAIN out /\ out'[k] = out[k]
      BY <3>3 DEF BarsTyped
    <3> QED BY <3>1, <3>2, <3>3
  <2> QED BY <1>1, <2>2 DEF BarsTyped
<1>3. CarryTyped'
  <2> DEFINE table == QuoteTable(cursor, SliceHi)
  <2>1. /\ Fixed /\ cursor \in Int /\ SliceHi \in Int
    BY <1>1, NextSliceIs DEF StreamInv, TypesOK, SliceAfter, SliceOf
  <2>2. /\ QuoteEntries \in SUBSET DOMAIN files
        /\ \A r \in DOMAIN table : /\ r \in DOMAIN AllRows(QuoteEntries)
                                   /\ table[r] = AllRows(QuoteEntries)[r]
    BY <2>1, QuoteTableIs
  <2> HIDE DEF table
  <2>3. ASSUME NEW s \in request.symbols
        PROVE  Carried(table)[s] = Nothing \/ Carried(table)[s] \in Int \X DOMAIN files
    <3> DEFINE own == {r \in DOMAIN table : r[2] = s}
    <3>1. Carried(table)[s] = IF own = {} THEN carry[s] ELSE Newest(table, own)
      BY DEF Carried
    <3>2. /\ own \in SUBSET DOMAIN AllRows(QuoteEntries) /\ \A r, l \in own : r[2] = l[2]
          /\ \A r \in own : r \in DOMAIN table
      BY <2>2
    <3> HIDE DEF own
    <3>3. CASE own = {}
      BY <3>1, <3>3 DEF CarryTyped
    <3>4. CASE own # {}
      <4>1. PICK j \in own : Newest(table, own) = <<j[1], table[j]>>
        BY <2>1, <2>2, <3>2, <3>4, NewestIs
      <4>2. j \in DOMAIN AllRows(QuoteEntries) /\ table[j] = AllRows(QuoteEntries)[j]
        BY <2>2, <3>2
      <4>3. j[1] \in Int /\ table[j] \in QuoteEntries
        BY <2>1, <2>2, <4>2, RowTypes, TakenIs
      <4> QED BY <2>2, <3>1, <3>4, <4>1, <4>3
    <3> QED BY <3>3, <3>4
  <2>4. \A s \in request.symbols : carry'[s] = Nothing \/ carry'[s] \in Int \X DOMAIN files
    BY <1>1, <2>3 DEF CarryTyped, table
  <2> QED BY <1>1, <2>4 DEF CarryTyped
<1> QED
  BY <1>2, <1>3

(* What the generator keeps has the types it should: bars of rows of its   *)
(* files, and the quote that is carried of each symbol.                    *)
THEOREM StreamTyped ==
  ASSUME AfterTheEpoch
  PROVE  Spec => []TypeOK
<1>1. Init => CarryTyped /\ BarsTyped
  BY DEF Init, CarryTyped, BarsTyped
<1>2. StreamInv /\ CarryTyped /\ BarsTyped /\ [Next]_vars => CarryTyped' /\ BarsTyped'
  <2> SUFFICES ASSUME StreamInv, CarryTyped, BarsTyped, [Next]_vars
               PROVE  CarryTyped' /\ BarsTyped'
    OBVIOUS
  <2>1. CASE BarSlice
    <3>1. BarCarries = carry \/ BarCarries = Carried(QuoteTable(cursor, SliceHi))
      BY DEF BarCarries
    <3> QED BY <2>1, <3>1, BarSliceIs, SliceTyped
  <2>2. CASE QuoteSlice
    BY <2>2, QuoteSliceIs, SliceTyped
  <2>3. CASE Ask \/ AskQuotes \/ Finish \/ UNCHANGED vars
    BY <2>3 DEF Ask, Begin, AskQuotes, Finish, vars, CarryTyped, BarsTyped
  <2> QED BY <2>1, <2>2, <2>3 DEF Next
<1>3. StreamInv /\ CarryTyped /\ BarsTyped => TypeOK
  BY DEF StreamInv, TypesOK, CarryTyped, BarsTyped, TypeOK
<1> QED
  BY <1>1, <1>2, <1>3, StreamInvariant, PTL DEF Spec

-----------------------------------------------------------------------------
(* How a file is converted: what the exports are, and their digits. *)
OnFile ==
  /\ file \in Exports /\ schema = SchemaOf(file)
  /\ rows \in Seq(Cells[file.family])

LEMMA RowFacts ==
  ASSUME OnFile
  PROVE  /\ Len(rows) \in Nat /\ DOMAIN rows = 1..Len(rows)
         /\ \A i \in DOMAIN rows : rows[i] \in Cells[file.family]
<1>1. rows \in Seq(Cells[file.family])
  BY DEF OnFile
<1> QED
  BY <1>1

LEMMA ExportFacts ==
  ASSUME OnFile
  PROVE  /\ file.width \in Nat /\ file.zone \in Int /\ file.unit \in 0..2
         /\ file.name.day = None \/ file.name.day \in Int
         /\ config.timeframe = None \/ config.timeframe \in Nat
         /\ config.epochUnit = None \/ config.epochUnit \in 0..3
         /\ config.badTimestamp \in {"strict", "drop", "repair"}
         /\ \A i \in DOMAIN rows :
              /\ rows[i].close \in Int /\ rows[i].lost \in 0..2
              /\ Label(rows[i]) \in Int
BY RowFacts, CsvConvertAssumption DEF OnFile, config, Label

LEMMA Powers == Ten(0) = 1 /\ Ten(1) = 10 /\ Ten(2) = 100 /\ Ten(3) = 1000 /\ Ten(4) = 1000
BY DEF Ten

LEMMA ShiftedDown ==
  ASSUME NEW v \in Int, NEW k \in {-3, -2, -1}
  PROVE  ApplyShift(v, k) = v \div 10 \/ ApplyShift(v, k) = v \div 100 \/ ApplyShift(v, k) = v \div 1000
<1>1. k < 0 /\ Ten(-k) \in {10, 100, 1000}
  BY Powers
<1>2. ApplyShift(v, k) = v \div Ten(-k)
  BY <1>1 DEF ApplyShift
<1> QED
  BY <1>1, <1>2

LEMMA ShiftedUp ==
  ASSUME NEW v \in Int, NEW k \in 0..3
  PROVE  \/ ApplyShift(v, k) = v \/ ApplyShift(v, k) = 10 * v \/ ApplyShift(v, k) = 100 * v
         \/ ApplyShift(v, k) = 1000 * v \/ ApplyShift(v, k) = 0
<1>1. ~(k < 0) /\ Ten(k) \in {1, 10, 100, 1000}
  BY Powers
<1>2. ApplyShift(v, k) = v * Ten(k) \/ ApplyShift(v, k) = 0
  BY <1>1 DEF ApplyShift
<1> QED
  BY <1>1, <1>2

LEMMA ApplyShiftType ==
  ASSUME NEW v \in Int, NEW k \in -3..3
  PROVE  ApplyShift(v, k) \in Int
<1>1. k \in {-3, -2, -1} \/ k \in 0..3
  OBVIOUS
<1>2. CASE k \in {-3, -2, -1}
  BY <1>2, ShiftedDown
<1>3. CASE k \in 0..3
  BY <1>3, ShiftedUp
<1> QED
  BY <1>1, <1>2, <1>3

(* The power of ten of a column, and the one of a value of its own. *)
LEMMA DecimalShiftType ==
  ASSUME NEW v
  PROVE  DecimalShift(v) \in -3..3 \cup {10}
<1> DEFINE fits == {k \in -3..3 :
                 IF k < 0 THEN Plausible(v \div Ten(-k))
                 ELSE v <= PlausibleMax \div Ten(k) /\ Plausible(v * Ten(k))}
<1>1. IsFiniteSet(fits)
  <2>1. IsFiniteSet(-3..3)
    <3>1. -3 \in Int /\ 3 \in Int
      OBVIOUS
    <3> QED BY <3>1, FS_Interval
  <2> QED BY <2>1, FS_Subset
<1>2. fits # {} => Min(fits) \in fits
  <2>1. fits \in SUBSET Int
    OBVIOUS
  <2> HIDE DEF fits
  <2> QED BY <1>1, <2>1, Extremes
<1>3. DecimalShift(v) \in {10, Min(fits)} /\ (fits = {} => DecimalShift(v) = 10)
  BY DEF DecimalShift
<1>4. fits \subseteq -3..3
  OBVIOUS
<1> HIDE DEF fits
<1> QED
  BY <1>2, <1>3, <1>4

LEMMA WantedIs ==
  ASSUME NEW v \in Int
  PROVE  /\ Wanted(v) \in 0..3
         /\ \A n \in 0..2 : /\ v >= RepairFloor \div Ten(n)
                            /\ \A k \in 0..n - 1 : v < RepairFloor \div Ten(k)
                            => Wanted(v) = n
<1> DEFINE ks == {k \in 0..3 : v >= RepairFloor \div Ten(k)} \cup {3}
<1>1. /\ Min(ks) \in ks
      /\ \A k \in ks : Min(ks) <= k
  <2>1. ks \in SUBSET (0..3) /\ ks # {} /\ ks \in SUBSET Int
    OBVIOUS
  <2>3. IsFiniteSet(0..3)
    <3>1. 0 \in Int /\ 3 \in Int
      OBVIOUS
    <3> QED BY <3>1, FS_Interval
  <2>2. IsFiniteSet(ks)
    BY <2>1, <2>3, FS_Subset
  <2> HIDE DEF ks
  <2> QED BY <2>1, <2>2, Extremes
<1>2. Wanted(v) = Min(ks)
  BY DEF Wanted
<1>3. ks \subseteq 0..3 /\ \A k \in 0..2 : k \in ks <=> v >= RepairFloor \div Ten(k)
  OBVIOUS
<1> HIDE DEF ks
<1>4. ASSUME NEW n \in 0..2, v >= RepairFloor \div Ten(n),
             \A k \in 0..n - 1 : v < RepairFloor \div Ten(k)
      PROVE  Min(ks) = n
  <2>1. n \in ks
    BY <1>3, <1>4
  <2>2. \A k \in 0..n - 1 : k \notin ks
    <3> TAKE k \in 0..n - 1
    <3>1. k \in 0..2 /\ v < RepairFloor \div Ten(k)
      BY <1>4
    <3>2. RepairFloor \div Ten(k) \in Int
      <4>1. k \in {0, 1, 2} /\ RepairFloor \in Int
        BY <3>1 DEF RepairFloor
      <4> QED BY <4>1, Powers
    <3> QED BY <1>3, <3>1, <3>2
  <2>3. Min(ks) \in 0..n
    <3>1. Min(ks) \in 0..3 /\ Min(ks) <= n
      BY <1>1, <1>3, <2>1
    <3> QED BY <3>1
  <2> QED BY <1>1, <2>2, <2>3
<1> QED
  BY <1>1, <1>2, <1>3, <1>4

(* A stamp that lacks up to two digits has one power that makes it a date. *)
LEMMA OneScale ==
  ASSUME NEW l \in Int, PlausibleMin <= 100 * l, 100 * l <= PlausibleMax,
         NEW v \in {100 * l, 10 * l, l}, NEW k \in -3..3, Plausible(ApplyShift(v, k))
  PROVE  ApplyShift(v, k) = 100 * l
<1>1. v \in Int /\ l >= 43830 /\ l <= 284892 /\ v \in {100 * l, 10 * l, l}
  BY DEF PlausibleMin, PlausibleMax
<1>2. ApplyShift(v, k) >= 4383000 /\ ApplyShift(v, k) <= 28489200
  BY DEF Plausible, PlausibleMin, PlausibleMax
<1>3. k \in {-3, -2, -1} => FALSE
  <2> SUFFICES ASSUME k \in {-3, -2, -1}
               PROVE  FALSE
    OBVIOUS
  <2>1. \/ ApplyShift(v, k) = v \div 10 \/ ApplyShift(v, k) = v \div 100
        \/ ApplyShift(v, k) = v \div 1000
    BY <1>1, ShiftedDown
  <2>2. v <= 28489200 /\ v >= 0
    BY <1>1
  <2>3. v \div 10 <= 2848920 /\ v \div 100 <= 284892 /\ v \div 1000 <= 28490
    BY <1>1, <2>2
  <2> QED BY <1>2, <2>1, <2>3
<1>4. \/ ApplyShift(v, k) = v \/ ApplyShift(v, k) = 10 * v \/ ApplyShift(v, k) = 100 * v
      \/ ApplyShift(v, k) = 1000 * v \/ ApplyShift(v, k) = 0
  <2>1. k \in 0..3
    BY <1>3
  <2> QED BY <1>1, <2>1, ShiftedUp
<1> QED
  BY <1>1, <1>2, <1>4

LEMMA OwnScale ==
  ASSUME NEW l \in Int, RepairFloor <= 100 * l, 100 * l <= PlausibleMax,
         NEW v \in {100 * l, 10 * l, l}
  PROVE  ApplyShift(v, Wanted(v)) = 100 * l
<1>1. v \in Int /\ l >= 51976 /\ l <= 284892
  BY DEF RepairFloor, PlausibleMax
<1>2. RepairFloor \div Ten(0) = 5197551 /\ RepairFloor \div Ten(1) = 519755
      /\ RepairFloor \div Ten(2) = 51975
  BY Powers DEF RepairFloor
<1>3. \/ v = 100 * l /\ Wanted(v) = 0
      \/ v = 10 * l /\ Wanted(v) = 1
      \/ v = l /\ Wanted(v) = 2
  <2>1. CASE v = 100 * l
    <3>1. v >= RepairFloor \div Ten(0) /\ \A k \in 0..0 - 1 : v < RepairFloor \div Ten(k)
      BY <1>1, <1>2, <2>1 DEF RepairFloor
    <3>2. Wanted(v) = 0
      BY <1>1, <3>1, WantedIs
    <3> QED BY <2>1, <3>2
  <2>2. CASE v = 10 * l
    <3>1. v >= RepairFloor \div Ten(1) /\ v < RepairFloor \div Ten(0)
      BY <1>1, <1>2, <2>2
    <3>2. \A k \in 0..1 - 1 : v < RepairFloor \div Ten(k)
      <4> TAKE k \in 0..1 - 1
      <4>1. k = 0
        OBVIOUS
      <4> QED BY <3>1, <4>1
    <3>3. Wanted(v) = 1
      BY <1>1, <3>1, <3>2, WantedIs
    <3> QED BY <2>2, <3>3
  <2>3. CASE v = l
    <3>1. v >= RepairFloor \div Ten(2) /\ v < RepairFloor \div Ten(0) /\ v < RepairFloor \div Ten(1)
      BY <1>1, <1>2, <2>3
    <3>2. \A k \in 0..2 - 1 : v < RepairFloor \div Ten(k)
      <4> TAKE k \in 0..2 - 1
      <4>1. k = 0 \/ k = 1
        OBVIOUS
      <4> QED BY <3>1, <4>1
    <3>3. Wanted(v) = 2
      BY <1>1, <3>1, <3>2, WantedIs
    <3> QED BY <2>3, <3>3
  <2> QED BY <2>1, <2>2, <2>3
<1>4. Int64Max \div Ten(0) = 64051191 /\ Int64Max \div Ten(1) = 6405119 /\ Int64Max \div Ten(2) = 640511
  BY Powers DEF Int64Max
<1>5. CASE v = 100 * l /\ Wanted(v) = 0
  <2>1. v <= Int64Max \div Ten(0)
    BY <1>1, <1>4, <1>5
  <2>2. ApplyShift(v, 0) = v * Ten(0)
    BY <2>1 DEF ApplyShift
  <2>3. ApplyShift(v, 0) = v
    BY <1>1, <2>2, Powers
  <2> QED BY <1>5, <2>3
<1>6. CASE v = 10 * l /\ Wanted(v) = 1
  <2>1. v <= Int64Max \div Ten(1)
    BY <1>1, <1>4, <1>6
  <2>2. ApplyShift(v, 1) = v * Ten(1)
    BY <2>1 DEF ApplyShift
  <2>3. ApplyShift(v, 1) = 100 * l
    BY <1>1, <1>6, <2>2, Powers
  <2> QED BY <1>6, <2>3
<1>7. CASE v = l /\ Wanted(v) = 2
  <2>1. v <= Int64Max \div Ten(2)
    BY <1>1, <1>4, <1>7
  <2>2. ApplyShift(v, 2) = v * Ten(2)
    BY <2>1 DEF ApplyShift
  <2>3. ApplyShift(v, 2) = 100 * l
    BY <1>1, <1>7, <2>2, Powers
  <2> QED BY <1>7, <2>3
<1> QED
  BY <1>3, <1>5, <1>6, <1>7

(* What a cell says of its label.                                          *)
LEMMA CellType ==
  ASSUME OnFile, NEW i \in DOMAIN rows
  PROVE  Cell(rows[i]) \in Int
<1>1. Label(rows[i]) \in Int /\ file.unit + rows[i].lost \in {0, 1, 2, 3, 4}
  BY ExportFacts
<1>2. Ten(file.unit + rows[i].lost) \in {1, 10, 100, 1000}
  BY <1>1, Powers
<1>3. \A n \in {1, 10, 100, 1000} : (Label(rows[i]) * 100) \div n \in Int
  BY <1>1
<1> QED
  BY <1>2, <1>3 DEF Cell

LEMMA CellIs ==
  ASSUME OnFile, KeepsToTheRange, file.stamps = "integer", NEW i \in DOMAIN rows
  PROVE  /\ PlausibleMin <= 100 * Label(rows[i]) /\ 100 * Label(rows[i]) <= PlausibleMax
         /\ rows[i].stamp # "ok" => Cell(rows[i]) = 0
         /\ rows[i].stamp = "ok" =>
              /\ Cell(rows[i]) \in {100 * Label(rows[i]), 10 * Label(rows[i]), Label(rows[i])}
              /\ Cell(rows[i]) > 0
              /\ file.unit = 0 /\ rows[i].lost = 0 => Cell(rows[i]) = 100 * Label(rows[i])
              /\ file.unit = 1 /\ rows[i].lost = 0 => Cell(rows[i]) = 10 * Label(rows[i])
              /\ file.unit = 2 /\ rows[i].lost = 0 => Cell(rows[i]) = Label(rows[i])
<1> DEFINE r == rows[i]
<1>1. /\ PlausibleMin <= 100 * (r.close - file.width) /\ 100 * r.close <= PlausibleMax
      /\ file.unit + r.lost <= 2
  BY RowFacts DEF OnFile, KeepsToTheRange
<1>2. r.close \in Int /\ file.width \in Nat /\ Label(r) \in {r.close, r.close - file.width}
  BY ExportFacts DEF Label
<1>3. PlausibleMin <= 100 * Label(r) /\ 100 * Label(r) <= PlausibleMax /\ Label(r) \in Int
  BY <1>1, <1>2 DEF PlausibleMin, PlausibleMax
<1>4. Label(r) > 0
  BY <1>3 DEF PlausibleMin
<1>5. file.unit \in 0..2 /\ r.lost \in 0..2 /\ file.unit + r.lost \in {0, 1, 2}
  BY <1>1, ExportFacts
<1>6. (Label(r) * 100) \div Ten(0) = 100 * Label(r)
  BY <1>3, Powers
<1>7. (Label(r) * 100) \div Ten(1) = 10 * Label(r)
  BY <1>3, Powers
<1>8. (Label(r) * 100) \div Ten(2) = Label(r)
  BY <1>3, Powers
<1>9. r.stamp # "ok" => Cell(r) = 0
  BY DEF Cell
<1>10. r.stamp = "ok" =>
         /\ file.unit + r.lost = 0 => Cell(r) = 100 * Label(r)
         /\ file.unit + r.lost = 1 => Cell(r) = 10 * Label(r)
         /\ file.unit + r.lost = 2 => Cell(r) = Label(r)
  BY <1>6, <1>7, <1>8 DEF Cell
<1>11. r.stamp = "ok" =>
              /\ Cell(r) \in {100 * Label(r), 10 * Label(r), Label(r)}
              /\ file.unit = 0 /\ r.lost = 0 => Cell(r) = 100 * Label(r)
              /\ file.unit = 1 /\ r.lost = 0 => Cell(r) = 10 * Label(r)
              /\ file.unit = 2 /\ r.lost = 0 => Cell(r) = Label(r)
  BY <1>5, <1>10
<1>12. r.stamp = "ok" => Cell(r) > 0
  BY <1>3, <1>4, <1>11
<1> HIDE DEF r
<1> QED
  BY <1>3, <1>9, <1>11, <1>12 DEF r

(* The instant a local reading is taken for.                               *)
LEMMA LocalisedIs ==
  ASSUME OnFile, NEW i \in DOMAIN rows
  PROVE  /\ Localised(rows[i]) \in Int
         /\ ~(Cardinality(Readings(rows[i])) > 1) => Localised(rows[i]) = Label(rows[i])
<1> DEFINE l == Label(rows[i])
           reading == Local(file.zone, l)
           S == Readings(rows[i])
<1>1. l \in Int /\ file.zone \in Int /\ ClockBack \in Nat
  BY ExportFacts, CsvConvertAssumption
<1>2. reading \in {l - file.zone, l - file.zone - 1} /\ reading \in Int
  BY <1>1 DEF Local
<1>3. l \in S
  <2>1. l \in {reading + file.zone, reading + file.zone + 1}
    BY <1>1, <1>2
  <2> QED BY <2>1 DEF Readings, InstantsOf
<1>4. S \in SUBSET Int /\ IsFiniteSet(S) /\ S # {}
  <2>1. S \subseteq {reading + file.zone} \cup {reading + file.zone + 1}
    BY DEF Readings, InstantsOf
  <2>2. IsFiniteSet({reading + file.zone} \cup {reading + file.zone + 1})
    BY FS_Singleton, FS_Union
  <2>3. S \subseteq Int
    BY <1>1, <1>2, <2>1
  <2> HIDE DEF S
  <2> QED BY <1>3, <2>1, <2>2, <2>3, FS_Subset
<1>5. Localised(rows[i]) = Max(S) \/ Localised(rows[i]) = Min(S)
  BY DEF Localised
<1> HIDE DEF S
<1>6. Max(S) \in S /\ Min(S) \in S
  BY <1>4, Extremes
<1>7. ASSUME ~(Cardinality(S) > 1)
      PROVE  S = {l}
  <2>1. Cardinality(S) \in Nat /\ Cardinality(S) # 0
    BY <1>3, <1>4, FS_CardinalityType, FS_EmptySet
  <2>2. Cardinality(S) = 1
    BY <1>7, <2>1
  <2>3. \E x : S = {x}
    BY <1>4, <2>2, FS_Singleton
  <2> QED BY <1>3, <2>3
<1> QED
  BY <1>4, <1>5, <1>6, <1>7 DEF S

(* The rows of a column of integers.                                       *)
RawCells == [i \in DOMAIN rows |-> Cell(rows[i])]

LEMMA OutliersAre ==
  ASSUME OnFile, NEW scaled \in [DOMAIN rows -> Int], Outliers(RawCells, scaled) # Failure,
         NEW i \in DOMAIN rows
  PROVE  LET n == Outliers(RawCells, scaled)[i]
             v == Cell(rows[i])
         IN  /\ n.ts \in {scaled[i], ApplyShift(v, Wanted(v))}
             /\ n.valid <=> Plausible(n.ts)
             /\ config.badTimestamp = "repair" /\ Plausible(ApplyShift(v, Wanted(v))) => n.valid
<1> DEFINE v == Cell(rows[i])
           own == ApplyShift(v, Wanted(v))
<1>1. config.badTimestamp \in {"drop", "repair"}
  BY ExportFacts DEF Outliers
<1>2. RawCells[i] = v /\ DOMAIN RawCells = DOMAIN rows
  BY DEF RawCells
<1>3. CASE config.badTimestamp = "drop"
  <2>1. Outliers(RawCells, scaled)[i] = [ts |-> scaled[i], valid |-> Plausible(scaled[i])]
    BY <1>2, <1>3 DEF Outliers
  <2> QED BY <1>3, <2>1
<1>4. CASE config.badTimestamp = "repair"
  <2> DEFINE ts == IF Plausible(scaled[i]) \/ ~Plausible(own) THEN scaled[i] ELSE own
  <2>1. Outliers(RawCells, scaled)[i] = [ts |-> ts, valid |-> Plausible(ts)]
    BY <1>2, <1>4 DEF Outliers
  <2> HIDE DEF own
  <2> QED BY <1>4, <2>1 DEF own
<1> QED
  BY <1>1, <1>3, <1>4

LEMMA ScaledIs ==
  ASSUME OnFile, ScaleIntegers(RawCells) # Failure, NEW i \in DOMAIN rows
  PROVE  LET n == ScaleIntegers(RawCells)[i]
             v == Cell(rows[i])
         IN  /\ n.ts \in Int
             /\ n.valid /\ config.epochUnit # None =>
                  v > 0 /\ n.ts = ApplyShift(v, config.epochUnit)
             /\ n.valid /\ config.epochUnit = None =>
                  Plausible(n.ts) /\ \E k \in -3..3 : n.ts = ApplyShift(v, k)
             /\ /\ config.epochUnit = None /\ config.badTimestamp = "repair"
                /\ v > 0 /\ Plausible(ApplyShift(v, Wanted(v)))
                => n.valid
<1> DEFINE v == Cell(rows[i])
           n == ScaleIntegers(RawCells)[i]
           blank == \A j \in DOMAIN RawCells : RawCells[j] <= 0
           column == DecimalShift(Median(SelectSeq(RawCells, LAMBDA x : x > 0)))
           shift == IF config.epochUnit # None THEN config.epochUnit
                    ELSE IF blank THEN 0 ELSE column
           scaled == [j \in DOMAIN RawCells |-> IF shift = 10 THEN 0 ELSE ApplyShift(RawCells[j], shift)]
<1>1. DOMAIN RawCells = DOMAIN rows /\ \A j \in DOMAIN rows : RawCells[j] = Cell(rows[j])
  BY DEF RawCells
<1>2. column \in -3..3 \cup {10}
  BY DecimalShiftType
<1>3. config.epochUnit = None \/ config.epochUnit \in 0..3
  BY ExportFacts
<1>4. ScaleIntegers(RawCells) =
        IF config.epochUnit # None \/ blank
        THEN [j \in DOMAIN RawCells |-> [ts |-> scaled[j], valid |-> RawCells[j] > 0]]
        ELSE IF shift = 10 THEN Failure
        ELSE IF \A j \in DOMAIN RawCells : Plausible(scaled[j])
             THEN [j \in DOMAIN RawCells |-> [ts |-> scaled[j], valid |-> TRUE]]
             ELSE Outliers(RawCells, scaled)
  BY DEF ScaleIntegers
<1> HIDE DEF column
<1>5. shift \in -3..3 \cup {10}
  BY <1>2, <1>3
<1> HIDE DEF shift
<1>6. \A j \in DOMAIN rows : Cell(rows[j]) \in Int /\ Wanted(Cell(rows[j])) \in -3..3
  <2> TAKE j \in DOMAIN rows
  <2>1. Cell(rows[j]) \in Int
    BY CellType
  <2>2. Wanted(Cell(rows[j])) \in 0..3
    BY <2>1, WantedIs
  <2> QED BY <2>1, <2>2
<1>7. ASSUME NEW j \in DOMAIN rows
      PROVE  /\ scaled[j] \in Int
             /\ shift # 10 => shift \in -3..3 /\ scaled[j] = ApplyShift(Cell(rows[j]), shift)
  <2>1. scaled[j] = IF shift = 10 THEN 0 ELSE ApplyShift(Cell(rows[j]), shift)
    BY <1>1
  <2> HIDE DEF scaled
  <2>2. CASE shift = 10
    BY <2>1, <2>2
  <2>3. CASE shift # 10
    <3>1. shift \in -3..3
      BY <1>5, <2>3
    <3>2. ApplyShift(Cell(rows[j]), shift) \in Int
      BY <1>6, <3>1, ApplyShiftType
    <3> QED BY <2>1, <2>3, <3>1, <3>2
  <2> QED BY <2>2, <2>3
<1>8. CASE config.epochUnit # None \/ blank
  <2>1. n.ts = scaled[i] /\ (n.valid <=> v > 0)
    <3>1. ScaleIntegers(RawCells) = [j \in DOMAIN RawCells |-> [ts |-> scaled[j], valid |-> RawCells[j] > 0]]
      BY <1>4, <1>8
    <3> HIDE DEF scaled
    <3>2. n = [ts |-> scaled[i], valid |-> v > 0]
      BY <1>1, <3>1
    <3> HIDE DEF n
    <3>3. n.ts = scaled[i]
      BY <3>2
    <3>4. n.valid <=> v > 0
      BY <3>2
    <3> QED BY <3>3, <3>4
  <2>2. config.epochUnit # None => shift = config.epochUnit /\ shift # 10
    BY <1>3 DEF shift
  <2>3. config.epochUnit = None => ~(v > 0)
    <3>1. config.epochUnit = None => Cell(rows[i]) <= 0
      BY <1>1, <1>8
    <3> QED BY <1>6, <3>1
  <2> HIDE DEF n, v, scaled
  <2>4. scaled[i] \in Int /\ (shift # 10 => scaled[i] = ApplyShift(v, shift))
    BY <1>7 DEF v
  <2> QED BY <2>1, <2>2, <2>3, <2>4 DEF n, v
<1>9. CASE config.epochUnit = None /\ ~blank
  <2>1. shift # 10
    BY <1>4, <1>9
  <2>2. CASE \A j \in DOMAIN RawCells : Plausible(scaled[j])
    <3>1. n = [ts |-> scaled[i], valid |-> TRUE]
      BY <1>1, <1>4, <1>9, <2>1, <2>2
    <3>2. Plausible(scaled[i]) /\ scaled[i] \in Int /\ shift \in -3..3
          /\ scaled[i] = ApplyShift(v, shift)
      BY <1>1, <1>7, <2>1, <2>2
    <3> HIDE DEF scaled, n, v
    <3> QED BY <1>9, <3>1, <3>2 DEF n, v
  <2>3. CASE ~\A j \in DOMAIN RawCells : Plausible(scaled[j])
    <3>1. ScaleIntegers(RawCells) = Outliers(RawCells, scaled)
      BY <1>4, <1>9, <2>1, <2>3
    <3>2. scaled \in [DOMAIN rows -> Int]
      BY <1>1, <1>7
    <3>3. scaled[i] \in Int /\ shift \in -3..3 /\ scaled[i] = ApplyShift(v, shift)
      BY <1>7, <2>1
    <3>4. ApplyShift(v, Wanted(v)) \in Int /\ Wanted(v) \in -3..3
      BY <1>6, ApplyShiftType
    <3> HIDE DEF scaled
    <3>5. /\ n.ts \in {scaled[i], ApplyShift(v, Wanted(v))}
          /\ n.valid <=> Plausible(n.ts)
          /\ config.badTimestamp = "repair" /\ Plausible(ApplyShift(v, Wanted(v))) => n.valid
      BY <3>1, <3>2, OutliersAre
    <3> HIDE DEF n, v
    <3>6. n.ts \in Int /\ \E k \in -3..3 : n.ts = ApplyShift(v, k)
      BY <3>3, <3>4, <3>5
    <3> QED BY <1>9, <3>5, <3>6 DEF n, v
  <2> QED BY <2>2, <2>3
<1> QED
  BY <1>8, <1>9

LEMMA NormalisedIs ==
  ASSUME OnFile, Normalised # Failure, NEW i \in DOMAIN rows
  PROVE  /\ Normalised[i].ts \in Int
         /\ file.stamps = "integer" =>
              Normalised = ScaleIntegers(RawCells) /\ ScaleIntegers(RawCells) # Failure
         /\ file.stamps # "integer" /\ Normalised[i].valid => Normalised[i].ts = 100 * Localised(rows[i])
<1>1. CASE file.stamps = "integer"
  <2>1. Normalised = ScaleIntegers(RawCells)
    BY <1>1 DEF Normalised, RawCells
  <2>2. ScaleIntegers(RawCells)[i].ts \in Int
    BY <2>1, ScaledIs
  <2> QED BY <1>1, <2>1, <2>2
<1>2. CASE file.stamps # "integer"
  <2>1. Normalised = FromArrowTimestamps
    BY <1>2 DEF Normalised, FromStrings
  <2>2. Normalised[i] = [ts |-> IF rows[i].stamp = "ok" THEN 100 * Localised(rows[i]) ELSE 0,
                         valid |-> rows[i].stamp = "ok"]
    BY <2>1 DEF FromArrowTimestamps
  <2>3. Localised(rows[i]) \in Int
    BY LocalisedIs
  <2>4. Normalised[i].ts = IF rows[i].stamp = "ok" THEN 100 * Localised(rows[i]) ELSE 0
    BY <2>2
  <2>5. Normalised[i].valid => rows[i].stamp = "ok"
    <3> DEFINE ok == rows[i].stamp = "ok"
    <3>1. \E t : Normalised[i] = [ts |-> t, valid |-> ok]
      BY <2>2
    <3> HIDE DEF ok
    <3>2. Normalised[i].valid = ok
      BY <3>1
    <3>3. Normalised[i].valid => ok
      BY <3>2
    <3> QED BY <3>3 DEF ok
  <2> QED BY <1>2, <2>3, <2>4, <2>5
<1> QED
  BY <1>1, <1>2

(* A valid stamp is the label of its row.                                  *)
LEMMA LabelIs ==
  ASSUME OnFile, KeepsToTheRange, Normalised # Failure,
         NEW i \in DOMAIN rows, Normalised[i].valid, ~Ambiguous(rows[i]),
         file.stamps = "integer" /\ config.epochUnit # None =>
           file.unit = config.epochUnit /\ rows[i].lost = 0
  PROVE  Normalised[i].ts = 100 * Label(rows[i])
<1> DEFINE l == Label(rows[i])
           v == Cell(rows[i])
           n == Normalised[i]
<1>1. l \in Int /\ v \in Int
  BY CellType, ExportFacts
<1>2. CASE file.stamps = "integer"
  <2>1. /\ Normalised = ScaleIntegers(RawCells) /\ ScaleIntegers(RawCells) # Failure
    BY <1>2, NormalisedIs
  <2>2. /\ config.epochUnit # None => v > 0 /\ n.ts = ApplyShift(v, config.epochUnit)
        /\ config.epochUnit = None => Plausible(n.ts) /\ \E k \in -3..3 : n.ts = ApplyShift(v, k)
    BY <2>1, ScaledIs
  <2>3. /\ PlausibleMin <= 100 * l /\ 100 * l <= PlausibleMax
        /\ rows[i].stamp # "ok" => v = 0
        /\ rows[i].stamp = "ok" =>
              /\ v \in {100 * l, 10 * l, l}
              /\ file.unit = 0 /\ rows[i].lost = 0 => v = 100 * l
              /\ file.unit = 1 /\ rows[i].lost = 0 => v = 10 * l
              /\ file.unit = 2 /\ rows[i].lost = 0 => v = l
    BY <1>2, CellIs
  <2> HIDE DEF l, v, n
  <2>4. CASE config.epochUnit = None
    <3>1. PICK k \in -3..3 : n.ts = ApplyShift(v, k)
      BY <2>2, <2>4
    <3>2. rows[i].stamp = "ok"
      <4> SUFFICES ASSUME v = 0
                   PROVE  FALSE
        BY <2>3
      <4>1. k \in {-3, -2, -1} \/ k \in 0..3
        OBVIOUS
      <4>2. ApplyShift(v, k) = 0
        <5>1. CASE k \in {-3, -2, -1}
          <6>1. \/ ApplyShift(0, k) = 0 \div 10 \/ ApplyShift(0, k) = 0 \div 100
                \/ ApplyShift(0, k) = 0 \div 1000
            BY <5>1, ShiftedDown
          <6> QED BY <6>1
        <5>2. CASE k \in 0..3
          <6>1. \/ ApplyShift(0, k) = 0 \/ ApplyShift(0, k) = 10 * 0 \/ ApplyShift(0, k) = 100 * 0
                \/ ApplyShift(0, k) = 1000 * 0
            BY <5>2, ShiftedUp
          <6> QED BY <6>1
        <5> QED BY <4>1, <5>1, <5>2
      <4> QED BY <2>2, <2>4, <3>1, <4>2 DEF Plausible, PlausibleMin
    <3>3. v \in {100 * l, 10 * l, l} /\ Plausible(ApplyShift(v, k))
      BY <2>2, <2>3, <2>4, <3>1, <3>2
    <3>4. ApplyShift(v, k) = 100 * l
      BY <1>1, <2>3, <3>3, OneScale DEF l
    <3> QED BY <3>1, <3>4 DEF l, n
  <2>5. CASE config.epochUnit # None
    <3>1. rows[i].stamp = "ok" /\ n.ts = ApplyShift(v, file.unit) /\ rows[i].lost = 0
          /\ file.unit \in 0..2
      BY <1>1, <1>2, <2>2, <2>3, <2>5, ExportFacts
    <3>2. l >= 0 /\ 100 * l <= 28489200
      BY <1>1, <2>3 DEF l, PlausibleMin, PlausibleMax
    <3>3. Int64Max \div Ten(0) = 64051191 /\ Int64Max \div Ten(1) = 6405119 /\ Int64Max \div Ten(2) = 640511
      BY Powers DEF Int64Max
    <3>4. CASE file.unit = 0
      <4>1. v = 100 * l /\ v <= Int64Max \div Ten(0) /\ l \in Int
        BY <1>1, <2>3, <3>1, <3>2, <3>3, <3>4 DEF l
      <4>2. ApplyShift(v, 0) = v * Ten(0)
        BY <4>1 DEF ApplyShift
      <4>3. ApplyShift(v, 0) = 100 * l
        BY <4>1, <4>2, Powers
      <4> QED BY <3>1, <3>4, <4>3 DEF l, n
    <3>5. CASE file.unit = 1
      <4>1. v = 10 * l /\ v <= Int64Max \div Ten(1) /\ l \in Int
        BY <1>1, <2>3, <3>1, <3>2, <3>3, <3>5 DEF l
      <4>2. ApplyShift(v, 1) = v * Ten(1)
        BY <4>1 DEF ApplyShift
      <4>3. ApplyShift(v, 1) = 100 * l
        BY <4>1, <4>2, Powers
      <4> QED BY <3>1, <3>5, <4>3 DEF l, n
    <3>6. CASE file.unit = 2
      <4>1. v = l /\ v <= Int64Max \div Ten(2) /\ l \in Int
        BY <1>1, <2>3, <3>1, <3>2, <3>3, <3>6 DEF l
      <4>2. ApplyShift(v, 2) = v * Ten(2)
        BY <4>1 DEF ApplyShift
      <4>3. ApplyShift(v, 2) = 100 * l
        BY <4>1, <4>2, Powers
      <4> QED BY <3>1, <3>6, <4>3 DEF l, n
    <3> QED BY <3>1, <3>4, <3>5, <3>6
  <2> QED BY <2>4, <2>5
<1>3. CASE file.stamps # "integer"
  <2>1. ~(Cardinality(Readings(rows[i])) > 1)
    BY <1>3 DEF Ambiguous
  <2>2. Localised(rows[i]) = l
    BY <2>1, LocalisedIs
  <2> QED BY <1>3, <2>2, NormalisedIs
<1> QED
  BY <1>2, <1>3

(* What REPAIR keeps.                                                      *)
LEMMA HealedIs ==
  ASSUME OnFile, KeepsToTheRange, Normalised # Failure, file.stamps = "integer",
         config.epochUnit = None, config.badTimestamp = "repair",
         NEW i \in DOMAIN rows, rows[i].stamp = "ok", TrueLabel(rows[i]) >= RepairFloor
  PROVE  Normalised[i].valid
<1> DEFINE l == Label(rows[i])
           v == Cell(rows[i])
<1>1. l \in Int /\ v \in Int
  BY CellType, ExportFacts
<1>2. /\ 100 * l <= PlausibleMax /\ RepairFloor <= 100 * l
      /\ v \in {100 * l, 10 * l, l} /\ v > 0 /\ PlausibleMin <= 100 * l
  BY <1>1, CellIs DEF TrueLabel, RepairFloor
<1>3. ApplyShift(v, Wanted(v)) = 100 * l
  BY <1>1, <1>2, OwnScale
<1>4. Plausible(ApplyShift(v, Wanted(v)))
  BY <1>2, <1>3 DEF Plausible
<1>5. Normalised = ScaleIntegers(RawCells) /\ ScaleIntegers(RawCells) # Failure
  BY NormalisedIs
<1> QED
  BY <1>2, <1>4, <1>5, ScaledIs

(* The commonest gap is a gap.                                             *)
LEMMA ModalSpacingIs ==
  ASSUME NEW count \in Nat, NEW stamps \in SUBSET Int, IsFiniteSet(stamps)
  PROVE  LET spacing == ModalSpacing(count, stamps)
         IN  /\ spacing = 0 \/ (spacing > 0 /\ \E t, u \in stamps : spacing = u - t)
             /\ spacing \in Int
             /\ count >= 3 /\ (\E t, u \in stamps : t # u) => spacing > 0
<1> DEFINE gaps == {d \in {u - t : t, u \in stamps} : d > 0}
           startsOf(g) == {t \in stamps : /\ t + g \in stamps
                                    /\ \A u \in stamps : u <= t \/ t + g <= u}
           times(g) == Cardinality(startsOf(g))
           best == {g \in gaps : \A other \in gaps : times(other) <= times(g)}
<1>1. ModalSpacing(count, stamps) = IF count < 3 \/ gaps = {} THEN 0 ELSE Min(best)
  BY DEF ModalSpacing
<1>2. gaps \in SUBSET Int /\ \A g \in gaps : g > 0 /\ \E t, u \in stamps : g = u - t
  OBVIOUS
<1>3. \A t, u \in stamps : t # u => gaps # {}
  <2> TAKE t, u \in stamps
  <2>1. t < u => u - t \in gaps
    OBVIOUS
  <2>2. u < t => t - u \in gaps
    OBVIOUS
  <2> HIDE DEF gaps
  <2> QED BY <2>1, <2>2
<1>4. IsFiniteSet(gaps)
  <2> DEFINE pairs == stamps \X stamps
             all == {u - t : t, u \in stamps}
             g == [p \in pairs |-> p[2] - p[1]]
  <2>1. IsFiniteSet(pairs)
    BY FS_Product
  <2>2. g \in [pairs -> all]
    OBVIOUS
  <2>3. \A d \in all : \E p \in pairs : g[p] = d
    <3> TAKE d \in all
    <3>1. PICK t \in stamps, u \in stamps : d = u - t
      OBVIOUS
    <3>2. <<t, u>> \in pairs /\ g[<<t, u>>] = d
      BY <3>1
    <3> HIDE DEF g, pairs
    <3> QED BY <3>2
  <2>4. gaps \subseteq all
    OBVIOUS
  <2> HIDE DEF g, pairs, all, gaps
  <2>5. IsFiniteSet(all)
    BY <2>1, <2>2, <2>3, ImageIsFinite
  <2> QED BY <2>4, <2>5, FS_Subset
<1>5. \A g : times(g) \in Nat
  <2> TAKE g
  <2>1. startsOf(g) \in SUBSET stamps
    OBVIOUS
  <2> HIDE DEF startsOf
  <2>2. IsFiniteSet(startsOf(g))
    BY <2>1, FS_Subset
  <2> QED BY <2>2, FS_CardinalityType
<1> HIDE DEF times, startsOf
<1>6. ASSUME gaps # {}
      PROVE  Min(best) \in gaps
  <2> DEFINE counts == {times(g) : g \in gaps}
             f == [g \in gaps |-> times(g)]
  <2>1. f \in [gaps -> counts] /\ \A n \in counts : \E g \in gaps : f[g] = n
    <3> HIDE DEF gaps
    <3> QED OBVIOUS
  <2>2. counts \in SUBSET Int /\ counts # {}
    <3> HIDE DEF gaps
    <3> QED BY <1>5, <1>6
  <2>3. \A g \in gaps : times(g) \in counts
    <3> HIDE DEF gaps
    <3> QED OBVIOUS
  <2>4. \A n \in counts : \E g \in gaps : n = times(g)
    <3> HIDE DEF gaps
    <3> QED OBVIOUS
  <2> HIDE DEF counts, f, gaps
  <2>5. IsFiniteSet(counts)
    BY <1>4, <2>1, ImageIsFinite
  <2>6. Max(counts) \in counts /\ \A n \in counts : n <= Max(counts)
    BY <2>2, <2>5, Extremes
  <2>7. best # {} /\ best \in SUBSET gaps
    BY <2>3, <2>4, <2>6
  <2> HIDE DEF best
  <2>8. IsFiniteSet(best) /\ best \in SUBSET Int
    BY <1>2, <1>4, <2>7, FS_Subset
  <2>9. Min(best) \in best
    BY <2>7, <2>8, Extremes
  <2> QED BY <2>7, <2>9
<1> DEFINE spacing == ModalSpacing(count, stamps)
<1>7. spacing = IF count < 3 \/ gaps = {} THEN 0 ELSE Min(best)
  BY <1>1
<1> HIDE DEF gaps, best, spacing
<1>8. CASE count < 3 \/ gaps = {}
  <2>1. spacing = 0
    BY <1>7, <1>8
  <2>2. ~(count >= 3 /\ \E t, u \in stamps : t # u)
    BY <1>3, <1>8
  <2> QED BY <2>1, <2>2 DEF spacing
<1>9. CASE ~(count < 3 \/ gaps = {})
  <2>1. spacing \in gaps
    BY <1>6, <1>7, <1>9
  <2>2. spacing > 0 /\ spacing \in Int /\ \E t, u \in stamps : spacing = u - t
    BY <1>2, <2>1
  <2> QED BY <2>2 DEF spacing
<1> QED
  BY <1>8, <1>9

(* The rows of a table, and by how much they are moved.                    *)
LEMMA SampleIsFinite ==
  ASSUME OnFile, Normalised # Failure, NEW S \in SUBSET (DOMAIN rows)
  PROVE  /\ IsFiniteSet(S) /\ Cardinality(S) \in Nat
         /\ {Normalised[i].ts : i \in S} \in SUBSET Int
         /\ IsFiniteSet({Normalised[i].ts : i \in S})
<1> DEFINE stamps == {Normalised[i].ts : i \in S}
           f == [i \in S |-> Normalised[i].ts]
<1>1. IsFiniteSet(S)
  <2>1. 1 \in Int /\ Len(rows) \in Int /\ DOMAIN rows = 1..Len(rows)
    BY RowFacts
  <2>2. IsFiniteSet(1..Len(rows))
    BY <2>1, FS_Interval
  <2> QED BY <2>1, <2>2, FS_Subset
<1>2. stamps \in SUBSET Int
  BY NormalisedIs
<1>3. f \in [S -> stamps] /\ \A t \in stamps : \E i \in S : f[i] = t
  OBVIOUS
<1> HIDE DEF f, stamps
<1>4. IsFiniteSet(stamps)
  BY <1>1, <1>3, ImageIsFinite
<1>5. Cardinality(S) \in Nat
  BY <1>1, FS_CardinalityType
<1> QED
  BY <1>1, <1>2, <1>4, <1>5 DEF stamps

LEMMA ShiftType ==
  ASSUME OnFile, Normalised # Failure
  PROVE  /\ Shift(Normalised, Valid(Normalised)) \in Int
         /\ Shift(Normalised, Valid(Normalised)) >= 0
<1> DEFINE S == WidthSample(Valid(Normalised))
           stamps == {Normalised[i].ts : i \in S}
           spacing == ModalSpacing(Cardinality(S), stamps)
<1>1. spacing \in Int /\ spacing >= 0
  <2>1. S \in SUBSET (DOMAIN rows)
    BY DEF WidthSample
  <2> HIDE DEF S
  <2>2. Cardinality(S) \in Nat /\ stamps \in SUBSET Int /\ IsFiniteSet(stamps)
    BY <2>1, SampleIsFinite
  <2> HIDE DEF stamps
  <2> QED BY <2>2, ModalSpacingIs
<1>2. config.timeframe = None \/ config.timeframe \in Nat
  BY ExportFacts
<1>3. \/ Shift(Normalised, Valid(Normalised)) = 0
      \/ config.timeframe # None /\ Shift(Normalised, Valid(Normalised)) = 100 * config.timeframe
      \/ Shift(Normalised, Valid(Normalised)) = spacing
  BY DEF Shift, BarWidth
<1> HIDE DEF spacing
<1> QED
  BY <1>1, <1>2, <1>3

LEMMA TableIs ==
  ASSUME OnFile, Normalised # Failure
  PROVE  LET table == TableOf(Normalised)
             shift == Shift(Normalised, Valid(Normalised))
         IN  /\ IsFiniteSet(table)
             /\ \A t \in table :
                  /\ t.row \in DOMAIN rows /\ Normalised[t.row].valid /\ Valid(Normalised)[t.row]
                  /\ \A u \in table : t.row = u.row => t = u
                  /\ t.label = Normalised[t.row].ts /\ t.ts = Normalised[t.row].ts + shift
                  /\ t.ts \in Int /\ t.symbol = SymbolOf(rows[t.row])
             /\ \A i \in DOMAIN rows : Valid(Normalised)[i] =>
                  \E t \in table : /\ t.row = i /\ t.label = Normalised[i].ts
                                   /\ t.ts = Normalised[i].ts + shift /\ t.symbol = SymbolOf(rows[i])
<1> DEFINE shift == Shift(Normalised, Valid(Normalised))
           kept == {j \in DOMAIN rows : Valid(Normalised)[j]}
           made(i) == [row |-> i, label |-> Normalised[i].ts, ts |-> Normalised[i].ts + shift,
                     symbol |-> SymbolOf(rows[i])]
           table == {made(i) : i \in kept}
<1>1. TableOf(Normalised) = table
  BY DEF TableOf
<1>2. shift \in Int
  BY ShiftType
<1>3. kept \in SUBSET (DOMAIN rows) /\ \A i \in kept : Normalised[i].valid /\ Valid(Normalised)[i]
  BY DEF Valid
<1> HIDE DEF kept, shift
<1>4. IsFiniteSet(table)
  <2> DEFINE f == [i \in kept |-> made(i)]
  <2>1. f \in [kept -> table] /\ \A t \in table : \E i \in kept : f[i] = t
    <3> HIDE DEF made
    <3> QED OBVIOUS
  <2>2. IsFiniteSet(kept)
    BY <1>3, SampleIsFinite
  <2> HIDE DEF f, table
  <2> QED BY <2>1, <2>2, ImageIsFinite
<1>5. ASSUME NEW t \in table
      PROVE  /\ t.row \in DOMAIN rows /\ Normalised[t.row].valid
             /\ Valid(Normalised)[t.row]
             /\ t.label = Normalised[t.row].ts /\ t.ts = Normalised[t.row].ts + shift
             /\ t.ts \in Int /\ t.symbol = SymbolOf(rows[t.row])
  <2>1. PICK i \in kept : t = made(i)
    BY <1>5
  <2>2. Normalised[i].ts \in Int /\ i \in DOMAIN rows
    BY <1>3, NormalisedIs
  <2>3. t.row = i /\ t.label = Normalised[i].ts /\ t.ts = Normalised[i].ts + shift
        /\ t.symbol = SymbolOf(rows[i])
    BY <2>1
  <2> HIDE DEF made, table
  <2> QED BY <1>2, <1>3, <2>2, <2>3
<1>6. ASSUME NEW i \in DOMAIN rows, Valid(Normalised)[i]
      PROVE  \E t \in table : /\ t.row = i /\ t.label = Normalised[i].ts
                              /\ t.ts = Normalised[i].ts + shift /\ t.symbol = SymbolOf(rows[i])
  <2>1. i \in kept
    BY <1>6 DEF kept
  <2>2. made(i) \in table
    BY <2>1
  <2>3. /\ made(i).row = i /\ made(i).label = Normalised[i].ts
        /\ made(i).ts = Normalised[i].ts + shift /\ made(i).symbol = SymbolOf(rows[i])
    OBVIOUS
  <2> HIDE DEF made, table
  <2> QED BY <2>2, <2>3
<1>7. \A t, u \in table : t.row = u.row => t = u
  <2> TAKE t, u \in table
  <2>1. PICK i \in kept : t = made(i)
    OBVIOUS
  <2>2. PICK j \in kept : u = made(j)
    OBVIOUS
  <2>3. t.row = i /\ u.row = j
    BY <2>1, <2>2
  <2> HIDE DEF made, table
  <2> QED BY <2>1, <2>2, <2>3
<1> HIDE DEF table
<1> QED
  BY <1>1, <1>4, <1>5, <1>6, <1>7 DEF shift

(* What an entry says of its table.                                        *)
Covers(e) ==
  /\ e.kind = Kind /\ e.symbols = {t.symbol : t \in e.table}
  /\ e.table # {} => e.minTs \in Int /\ e.maxTs \in Int
  /\ \A t \in e.table : t.ts \in Int /\ e.minTs <= t.ts /\ t.ts <= e.maxTs

LEMMA ConversionCovers ==
  ASSUME OnFile, Normalised # Failure
  PROVE  Covers(EntryOf(TableOf(Normalised)))
<1> DEFINE table == TableOf(Normalised)
           e == EntryOf(table)
           stamps == {t.ts : t \in table}
           f == [t \in table |-> t.ts]
<1>1. IsFiniteSet(table) /\ \A t \in table : t.ts \in Int
  BY TableIs
<1>2. /\ e.kind = Kind /\ e.symbols = {t.symbol : t \in table} /\ e.table = table
      /\ table # {} => e.minTs = Min(stamps) /\ e.maxTs = Max(stamps)
  BY DEF EntryOf, StampsOf
<1> HIDE DEF table, e
<1>3. f \in [table -> stamps] /\ \A n \in stamps : \E t \in table : f[t] = n
  OBVIOUS
<1>4. stamps \in SUBSET Int /\ (table # {} => stamps # {}) /\ \A t \in table : t.ts \in stamps
  BY <1>1
<1> HIDE DEF f, stamps
<1>5. IsFiniteSet(stamps)
  BY <1>1, <1>3, ImageIsFinite
<1>6. table # {} => /\ Min(stamps) \in Int /\ Max(stamps) \in Int
                    /\ \A n \in stamps : Min(stamps) <= n /\ n <= Max(stamps)
  BY <1>4, <1>5, Extremes
<1>7. \A t \in table : t.ts \in Int /\ e.minTs <= t.ts /\ t.ts <= e.maxTs
  BY <1>1, <1>2, <1>4, <1>6
<1>8. table # {} => e.minTs \in Int /\ e.maxTs \in Int
  BY <1>2, <1>6
<1> QED
  BY <1>2, <1>7, <1>8 DEF Covers, e, table

(* Nothing wanted is pruned, by an entry or by a name.                     *)
LEMMA NamesPruneNothing ==
  ASSUME OnFile, NEW i \in DOMAIN rows, NEW lo \in Int, NEW hi \in Int,
         lo <= rows[i].close, rows[i].close <= hi, NamedFor(rows[i])
  PROVE  ~HintExcludes({SymbolOf(rows[i])}, lo, hi)
<1> DEFINE c == rows[i].close
           day == file.name.day
<1>1. c \in Int /\ (day = None \/ day \in Int)
  BY ExportFacts
<1>2. file.name.symbol \in {None, SymbolOf(rows[i])}
  BY DEF NamedFor
<1>3. ASSUME day # None
      PROVE  ~((day - 1) * PerDay > hi \/ (day + 2) * PerDay < lo)
  <2>1. PICK offset \in -3..3 : (c - offset) \div PerDay = day
    BY <1>3 DEF NamedFor
  <2>2. day \in Int /\ (c - offset) \div 6 = day
    BY <1>1, <1>3, <2>1 DEF PerDay
  <2> HIDE DEF c, day
  <2>3. 6 * day <= c - offset /\ c - offset < 6 * day + 6
    BY <1>1, <2>2
  <2>4. lo <= c /\ c <= hi
    BY DEF c
  <2> QED BY <1>1, <2>2, <2>3, <2>4 DEF PerDay
<1> QED
  BY <1>2, <1>3 DEF HintExcludes

LEMMA CoversPrunesNothing ==
  ASSUME OnFile, entry # None => Covers(entry)
  PROVE  NothingWantedIsPruned
<1> SUFFICES ASSUME NEW lo \in {rows[i].close : i \in DOMAIN rows},
                    NEW hi \in {rows[i].close : i \in DOMAIN rows},
                    NEW s \in {SymbolOf(rows[i]) : i \in DOMAIN rows}
             PROVE  PrunesTheUnwanted(lo, hi, s)
  BY DEF NothingWantedIsPruned
<1> DEFINE served == {t \in Table : t.symbol = s /\ 100 * lo <= t.ts /\ t.ts <= 100 * hi}
<1>1. lo \in Int /\ hi \in Int
  BY ExportFacts
<1>2. entry # None =>
        /\ entry.kind = Kind /\ \A t \in Table : t.symbol \in entry.symbols
        /\ entry.table = Table /\ Covers(entry)
        /\ entry.table # {} => entry.minTs \in Int /\ entry.maxTs \in Int
        /\ \A t \in Table : t.ts \in Int /\ entry.minTs <= t.ts /\ t.ts <= entry.maxTs
  BY DEF Covers, Table
<1>3. entry = None => Table = {}
  BY DEF Table
<1>4. ASSUME lo <= hi, Pruned(Kind, {s}, lo, hi)
      PROVE  IF entry = None
             THEN ~\E i \in DOMAIN rows :
                     /\ SymbolOf(rows[i]) = s /\ lo <= rows[i].close
                     /\ rows[i].close <= hi /\ NamedFor(rows[i])
             ELSE served = {}
  <2>1. CASE entry = None
    <3>1. HintExcludes({s}, lo, hi)
      BY <1>4, <2>1 DEF Pruned
    <3>2. ASSUME NEW i \in DOMAIN rows, SymbolOf(rows[i]) = s, lo <= rows[i].close,
                 rows[i].close <= hi, NamedFor(rows[i])
          PROVE  FALSE
      BY <1>1, <3>1, <3>2, NamesPruneNothing
    <3> QED BY <2>1, <3>2
  <2>2. CASE entry # None
    <3> SUFFICES ASSUME NEW t \in Table, t.symbol = s, 100 * lo <= t.ts, t.ts <= 100 * hi
                 PROVE  FALSE
      BY <2>2
    <3>1. entry.table # {} /\ entry.minTs <= 100 * hi /\ entry.maxTs >= 100 * lo
      BY <1>1, <1>2, <2>2
    <3>2. {s} \intersect entry.symbols # {}
      BY <1>2, <2>2
    <3> QED BY <1>2, <1>4, <2>2, <3>1, <3>2 DEF Pruned
  <2> QED BY <2>1, <2>2
<1>5. ASSUME lo <= hi, served # {}, config.trustHints, HintExcludes({s}, lo, hi)
      PROVE  WarnsOfName
  <2>1. PICK t \in Table : t.symbol = s /\ 100 * lo <= t.ts /\ t.ts <= 100 * hi
    BY <1>5
  <2>2. entry # None /\ s \in entry.symbols /\ entry.table # {}
        /\ entry.minTs <= 100 * hi /\ entry.maxTs >= 100 * lo
        /\ entry.minTs \in Int /\ entry.maxTs \in Int
    BY <1>1, <1>2, <1>3, <2>1
  <2>3. CASE file.name.symbol # None /\ file.name.symbol \notin {s}
    BY <1>5, <2>2, <2>3 DEF WarnsOfName
  <2>4. CASE /\ file.name.day # None
             /\ (file.name.day - 1) * PerDay > hi \/ (file.name.day + 2) * PerDay < lo
    <3>1. file.name.day \in Int
      BY <2>4, ExportFacts
    <3>2. \/ entry.minTs < 100 * (file.name.day - 1) * PerDay
          \/ entry.maxTs > 100 * (file.name.day + 2) * PerDay
      BY <1>1, <2>2, <2>4, <3>1 DEF PerDay
    <3> QED BY <1>5, <2>2, <2>4, <3>2 DEF WarnsOfName
  <2> QED BY <1>5, <2>3, <2>4 DEF HintExcludes
<1>6. ASSUME NEW t \in Table, t.symbol = s
      PROVE  Coverage(s)[1] <= t.ts /\ t.ts <= Coverage(s)[2]
  <2>1. entry # None /\ s \in entry.symbols /\ entry.minTs <= t.ts /\ t.ts <= entry.maxTs
    BY <1>2, <1>3, <1>6
  <2>2. Coverage(s) = <<entry.minTs, entry.maxTs>>
    BY <2>1 DEF Coverage
  <2> QED BY <2>1, <2>2
<1> HIDE DEF served
<1> QED
  BY <1>4, <1>5, <1>6 DEF served, PrunesTheUnwanted

(* The invariant: the file is one of the exports, and an entry covers the  *)
(* table it was made with.                                                 *)
ConversionInv == OnFile /\ (entry # None => Covers(entry))

LEMMA ConversionBegins == ConversionInit => ConversionInv
BY DEF ConversionInit, ConversionInv, OnFile

LEMMA ConversionSteps ==
  ASSUME [ConversionNext]_conversionVars
  PROVE  /\ file' = file /\ schema' = schema
         /\ \/ entry' = None
            \/ /\ rows' = rows /\ ~schema.fails
               /\ Normalised # Failure /\ entry' = EntryOf(TableOf(Normalised))
            \/ rows' = rows /\ entry' = entry
BY DEF ConversionNext, conversionVars, Write, Convert, Raises

LEMMA ConversionStays ==
  ASSUME ConversionInv, [ConversionNext]_conversionVars
  PROVE  ConversionInv'
<1>1. OnFile'
  <2>1. file' \in Exports /\ schema' = SchemaOf(file')
    BY ConversionSteps DEF ConversionInv, OnFile
  <2>2. rows' \in Seq(Cells[file'.family])
    <3>1. rows \in Seq(Cells[file.family]) /\ file' = file
      BY ConversionSteps DEF ConversionInv, OnFile
    <3>2. rows' = rows \/ \E r \in Cells[file.family] : rows' = Append(rows, r)
      BY DEF ConversionNext, conversionVars, Write, Convert, Raises
    <3> QED BY <3>1, <3>2
  <2> QED BY <2>1, <2>2 DEF OnFile
<1>2. CASE entry' = None
  BY <1>1, <1>2 DEF ConversionInv
<1>3. CASE rows' = rows /\ ~schema.fails /\ Normalised # Failure
          /\ entry' = EntryOf(TableOf(Normalised))
  <2> DEFINE e == EntryOf(TableOf(Normalised))
  <2>1. Covers(e) /\ schema' = schema /\ entry' = e
    BY <1>3, ConversionCovers, ConversionSteps DEF ConversionInv
  <2> HIDE DEF e
  <2>2. Covers(entry)'
    BY <2>1 DEF Covers, Kind
  <2> QED BY <1>1, <2>2 DEF ConversionInv
<1>4. CASE rows' = rows /\ entry' = entry
  <2>1. (entry # None => Covers(entry)) /\ schema' = schema /\ entry' = entry
    BY <1>4, ConversionSteps DEF ConversionInv
  <2>2. (entry # None => Covers(entry))'
    BY <2>1 DEF Covers, Kind
  <2> QED BY <1>1, <2>2 DEF ConversionInv
<1> QED
  BY <1>2, <1>3, <1>4, ConversionSteps

(* Whatever the exporter writes, the index entry of a file covers the      *)
(* table it was made with: its kind, its tickers and its first and last    *)
(* instants (_convert).                                                    *)
THEOREM EntriesCover == ConversionSpec => [](OnFile /\ (entry # None => Covers(entry)))
<1>1. ConversionInv /\ [ConversionNext]_conversionVars => ConversionInv'
  BY ConversionStays
<1> QED
  BY ConversionBegins, <1>1, PTL DEF ConversionSpec, ConversionInv

(* A file that is passed over for a window, by its name or by its entry,   *)
(* has no row for it; a name that misleads is warned of; a ticker's        *)
(* coverage holds all its rows (_prune_files, _hint_excludes, coverage).   *)
THEOREM PruningIsConservative == ConversionSpec => []NothingWantedIsPruned
<1>1. (OnFile /\ (entry # None => Covers(entry))) => NothingWantedIsPruned
  BY CoversPrunesNothing
<1> QED
  BY <1>1, EntriesCover, PTL

(* A conversion gives no row a date it did not have.                       *)
Heals(table) ==
  file.stamps = "integer" /\ config.epochUnit = None =>
    /\ \A t \in table : t.label = TrueLabel(rows[t.row])
    /\ config.badTimestamp = "repair" =>
         \A i \in DOMAIN rows :
           /\ rows[i].stamp = "ok" /\ TrueLabel(rows[i]) >= RepairFloor
           /\ Kind = "aggregate" /\ OhlcValid(rows[i])
           => \E t \in table : t.row = i

LEMMA ConversionHeals ==
  ASSUME OnFile, KeepsToTheRange, Normalised # Failure
  PROVE  Heals(TableOf(Normalised))
<1> DEFINE table == TableOf(Normalised)
<1> SUFFICES ASSUME file.stamps = "integer", config.epochUnit = None
             PROVE  /\ \A t \in table : t.label = TrueLabel(rows[t.row])
                    /\ config.badTimestamp = "repair" =>
                         \A i \in DOMAIN rows :
                           /\ rows[i].stamp = "ok" /\ TrueLabel(rows[i]) >= RepairFloor
                           /\ Kind = "aggregate" /\ OhlcValid(rows[i])
                           => \E t \in table : t.row = i
  BY DEF Heals
<1>1. ASSUME NEW t \in table
      PROVE  t.label = TrueLabel(rows[t.row])
  <2>1. t.row \in DOMAIN rows /\ Normalised[t.row].valid /\ t.label = Normalised[t.row].ts
    BY TableIs
  <2>2. ~Ambiguous(rows[t.row])
    BY DEF Ambiguous
  <2>3. Normalised[t.row].ts = 100 * Label(rows[t.row])
    BY <2>1, <2>2, LabelIs
  <2> QED BY <2>1, <2>3 DEF TrueLabel
<1>2. ASSUME config.badTimestamp = "repair", NEW i \in DOMAIN rows,
             rows[i].stamp = "ok", TrueLabel(rows[i]) >= RepairFloor,
             Kind = "aggregate", OhlcValid(rows[i])
      PROVE  \E t \in table : t.row = i
  <2>1. Normalised[i].valid
    BY <1>2, HealedIs
  <2>2. Valid(Normalised)[i]
    BY <1>2, <2>1 DEF Valid
  <2> QED BY <2>2, TableIs
<1> HIDE DEF table
<1> QED
  BY <1>1, <1>2

LEMMA HealsStays ==
  ASSUME OnFile, KeepsToTheRange, HealsPerRow, [ConversionNext]_conversionVars
  PROVE  HealsPerRow'
<1>1. CASE entry' = None
  BY <1>1 DEF HealsPerRow
<1>2. CASE rows' = rows /\ ~schema.fails /\ Normalised # Failure
          /\ entry' = EntryOf(TableOf(Normalised))
  <2> DEFINE table == TableOf(Normalised)
  <2>1. Heals(table) /\ entry'.table = table
    BY <1>2, ConversionHeals DEF EntryOf
  <2> HIDE DEF table
  <2>2. rows' = rows /\ file' = file /\ schema' = schema
    BY <1>2, ConversionSteps
  <2> QED
    BY <2>1, <2>2
    DEF Heals, HealsPerRow, Table, config, TrueLabel, Label, Roles, Kind, OhlcValid, FloatColumn
<1>3. CASE rows' = rows /\ entry' = entry
  <2>1. rows' = rows /\ file' = file /\ schema' = schema /\ entry' = entry
    BY <1>3, ConversionSteps
  <2> QED
    BY <2>1 DEF HealsPerRow, Table, config, TrueLabel, Label, Roles, Kind, OhlcValid, FloatColumn
<1> QED
  BY <1>1, <1>2, <1>3, ConversionSteps

(* No row is given a date it did not have, and REPAIR loses none that it   *)
(* reaches, whatever digits the rows of the file lack, as long as they are *)
(* dated between 1990 and 2100 (_scale_integers, _handle_outliers).        *)
THEOREM HealedPerRow ==
  ASSUME KeepsToTheRange
  PROVE  ConversionSpec => []HealsPerRow
<1>1. ConversionInit => HealsPerRow
  BY DEF ConversionInit, HealsPerRow
<1>2. OnFile /\ HealsPerRow /\ [ConversionNext]_conversionVars => HealsPerRow'
  BY HealsStays
<1> QED
  BY <1>1, <1>2, EntriesCover, PTL DEF ConversionSpec

(* What the exporter says of its labels, of the file at hand.              *)
LEMMA SaidOfTheFile ==
  ASSUME OnFile, SaysWhatItLabels, Kind = "aggregate", ~schema.fails
  PROVE  /\ Roles["timestamp"] \in OpenColumns => schema.left
         /\ config.timeframe # None => config.timeframe >= file.width
         /\ \A i \in DOMAIN rows :
              config.epochUnit # None => file.unit = config.epochUnit /\ rows[i].lost = 0
         /\ \A i, j \in DOMAIN rows :
              rows[j].close < rows[i].close /\ SymbolOf(rows[i]) = SymbolOf(rows[j])
                => rows[i].close - rows[j].close >= file.width
<1>1. /\ file \in Exports /\ schema = SchemaOf(file)
      /\ \A i \in DOMAIN rows : rows[i] \in Cells[file.family]
  BY RowFacts DEF OnFile
<1>2. SchemaOf(file).kind = "aggregate" /\ ~SchemaOf(file).fails
  BY <1>1 DEF Kind
<1>3. /\ Roles["timestamp"] \in OpenColumns => schema.left
      /\ config.timeframe # None => config.timeframe >= file.width
      /\ \A r, q \in Cells[file.family] :
           /\ config.epochUnit # None => file.unit = config.epochUnit /\ r.lost = 0
           /\ r.close < q.close /\ ("symbol" \in DOMAIN Roles => r.symbol = q.symbol)
                => q.close - r.close >= file.width
  BY <1>1, <1>2 DEF SaysWhatItLabels, Roles, config
<1>4. ASSUME NEW i \in DOMAIN rows, NEW j \in DOMAIN rows, SymbolOf(rows[i]) = SymbolOf(rows[j])
      PROVE  "symbol" \in DOMAIN Roles => rows[j].symbol = rows[i].symbol
  BY <1>4 DEF SymbolOf
<1> QED
  BY <1>1, <1>3, <1>4

(* Two bars of a ticker are as far apart as a bar is wide.                 *)
LEMMA GapIsWide ==
  ASSUME OnFile, KeepsToTheRange, SaysWhatItLabels, Kind = "aggregate", ~schema.fails,
         Normalised # Failure, NEW i \in DOMAIN rows, NEW j \in DOMAIN rows,
         Normalised[i].valid, Normalised[j].valid, ~Ambiguous(rows[i]), ~Ambiguous(rows[j]),
         SymbolOf(rows[i]) = SymbolOf(rows[j]), Normalised[i].ts > Normalised[j].ts
  PROVE  Normalised[i].ts - Normalised[j].ts >= 100 * file.width
<1>1. Normalised[i].ts = 100 * Label(rows[i]) /\ Normalised[j].ts = 100 * Label(rows[j])
  BY SaidOfTheFile, LabelIs
<1>2. /\ rows[i].close \in Int /\ rows[j].close \in Int /\ file.width \in Nat
      /\ Label(rows[i]) - Label(rows[j]) = rows[i].close - rows[j].close
      /\ Label(rows[i]) \in Int /\ Label(rows[j]) \in Int
  BY ExportFacts DEF Label
<1>3. rows[i].close > rows[j].close
  BY <1>1, <1>2
<1>4. rows[i].close - rows[j].close >= file.width
  BY <1>2, <1>3, SaidOfTheFile
<1> QED
  BY <1>1, <1>2, <1>4

LEMMA TwoApart ==
  ASSUME NEW S, Cardinality(S) >= 2
  PROVE  \E a, b \in S : a # b
<1> SUFFICES ASSUME \A a, b \in S : a = b
             PROVE  FALSE
  OBVIOUS
<1>1. S = {} \/ \E a : S = {a}
  OBVIOUS
<1>2. Cardinality(S) = 0 \/ Cardinality(S) = 1
  BY <1>1, FS_EmptySet, FS_Singleton
<1> QED
  BY <1>2

LEMMA TableGapIsWide ==
  ASSUME OnFile, KeepsToTheRange, SaysWhatItLabels, Kind = "aggregate", ~schema.fails,
         Normalised # Failure, \A i \in DOMAIN rows : ~Ambiguous(rows[i]),
         NEW t \in TableOf(Normalised), NEW u \in TableOf(Normalised),
         t.symbol = u.symbol, t.ts - u.ts > 0
  PROVE  t.ts - u.ts >= 100 * file.width
<1> DEFINE shift == Shift(Normalised, Valid(Normalised))
<1>1. shift \in Int
  BY ShiftType
<1>2. /\ t.row \in DOMAIN rows /\ Normalised[t.row].valid
      /\ t.ts = Normalised[t.row].ts + shift /\ t.symbol = SymbolOf(rows[t.row])
  BY TableIs
<1>3. /\ u.row \in DOMAIN rows /\ Normalised[u.row].valid
      /\ u.ts = Normalised[u.row].ts + shift /\ u.symbol = SymbolOf(rows[u.row])
  BY TableIs
<1> HIDE DEF shift
<1>4. Normalised[t.row].ts \in Int /\ Normalised[u.row].ts \in Int
  BY <1>2, <1>3, NormalisedIs
<1>5. Normalised[t.row].ts > Normalised[u.row].ts
      /\ t.ts - u.ts = Normalised[t.row].ts - Normalised[u.row].ts
  BY <1>1, <1>2, <1>3, <1>4
<1>6. Normalised[t.row].ts - Normalised[u.row].ts >= 100 * file.width
  BY <1>2, <1>3, <1>5, GapIsWide
<1> QED
  BY <1>5, <1>6

(* The width that is measured, and the timeframe that is inferred.         *)
LEMMA MeasuredWidth ==
  ASSUME OnFile, KeepsToTheRange, SaysWhatItLabels, Kind = "aggregate", ~schema.fails,
         Normalised # Failure, \A i \in DOMAIN rows : ~Ambiguous(rows[i]),
         config.timeframe = None,
         NEW first, first = OfTicker(SymbolOf(rows[1]), TableOf(Normalised)),
         Cardinality(first) >= 3, Cardinality(StampsOf(first)) >= 2
  PROVE  BarWidth(Normalised, Valid(Normalised)) >= 100 * file.width
<1> DEFINE S == WidthSample(Valid(Normalised))
           stamps == {Normalised[i].ts : i \in S}
           spacing == ModalSpacing(Cardinality(S), stamps)
           shift == Shift(Normalised, Valid(Normalised))
           f == [t \in first |-> t.row]
<1>1. BarWidth(Normalised, Valid(Normalised)) = spacing
  BY DEF BarWidth
<1>2. PICK a \in first, b \in first : a.ts # b.ts
  <2> DEFINE all == {t.ts : t \in first}
  <2>1. \E x, y \in all : x # y
    <3>1. Cardinality(all) >= 2
      BY DEF StampsOf
    <3> HIDE DEF all
    <3> QED BY <3>1, TwoApart
  <2> QED BY <2>1
<1>3. \A t \in first :
        /\ t \in TableOf(Normalised) /\ t.row \in DOMAIN rows /\ Valid(Normalised)[t.row]
        /\ t.ts = Normalised[t.row].ts + shift /\ SymbolOf(rows[t.row]) = SymbolOf(rows[1])
        /\ \A u \in first : t.row = u.row => t = u
  BY TableIs DEF OfTicker
<1>4. \E j \in DOMAIN rows : Valid(Normalised)[j]
  BY <1>2, <1>3
<1>5. S = {i \in DOMAIN rows : Valid(Normalised)[i] /\ SymbolOf(rows[i]) = SymbolOf(rows[1])}
  BY <1>4 DEF WidthSample
<1> HIDE DEF S
<1>6. f \in Injection(first, S)
  <2>1. f \in [first -> S]
    BY <1>3, <1>5
  <2>2. \A t, u \in first : f[t] = f[u] => t = u
    BY <1>3
  <2> QED BY <2>1, <2>2 DEF Injection, IsInjective
<1>7. S \in SUBSET (DOMAIN rows)
  BY <1>5
<1>8. /\ IsFiniteSet(S) /\ Cardinality(S) \in Nat
      /\ stamps \in SUBSET Int /\ IsFiniteSet(stamps)
  BY <1>7, SampleIsFinite
<1> HIDE DEF f
<1>9. Cardinality(S) >= 3
  <2>1. IsFiniteSet(first) /\ Cardinality(first) <= Cardinality(S)
    BY <1>6, <1>8, FS_Injection
  <2>2. Cardinality(first) \in Nat
    BY <2>1, FS_CardinalityType
  <2> QED BY <1>8, <2>1, <2>2
<1>10. \E x, y \in stamps : x # y
  <2>1. a.row \in S /\ b.row \in S
    BY <1>3, <1>5
  <2>2. Normalised[a.row].ts # Normalised[b.row].ts
    BY <1>2, <1>3
  <2> QED BY <2>1, <2>2
<1>11. spacing > 0 /\ spacing \in Int /\ \E x, y \in stamps : spacing = y - x
  <2> HIDE DEF stamps
  <2>1. /\ spacing = 0 \/ (spacing > 0 /\ \E x, y \in stamps : spacing = y - x)
        /\ spacing \in Int
        /\ Cardinality(S) >= 3 /\ (\E x, y \in stamps : x # y) => spacing > 0
    BY <1>8, ModalSpacingIs
  <2> HIDE DEF spacing
  <2> QED BY <1>9, <1>10, <2>1
<1> HIDE DEF spacing
<1>12. PICK i \in S, j \in S : spacing = Normalised[i].ts - Normalised[j].ts
  BY <1>11
<1>13. /\ i \in DOMAIN rows /\ j \in DOMAIN rows /\ SymbolOf(rows[i]) = SymbolOf(rows[j])
       /\ Normalised[i].valid /\ Normalised[j].valid
       /\ Normalised[i].ts \in Int /\ Normalised[j].ts \in Int
  BY <1>5, <1>12, NormalisedIs DEF Valid
<1>14. Normalised[i].ts > Normalised[j].ts
  BY <1>11, <1>12, <1>13
<1>15. Normalised[i].ts - Normalised[j].ts >= 100 * file.width
  BY <1>13, <1>14, GapIsWide
<1> QED
  BY <1>1, <1>12, <1>15

LEMMA InferredWidth ==
  ASSUME OnFile, KeepsToTheRange, SaysWhatItLabels, Kind = "aggregate", ~schema.fails,
         Normalised # Failure, \A i \in DOMAIN rows : ~Ambiguous(rows[i]),
         config.timeframe = None, InferTimeframe(TableOf(Normalised)) # None
  PROVE  InferTimeframe(TableOf(Normalised)) >= file.width
<1> DEFINE table == TableOf(Normalised)
           least == Min(StampsOf(table))
           ticker == CHOOSE s \in {r.symbol : r \in table} :
                       /\ \E r \in table : r.ts = least /\ r.symbol = s
                       /\ \A r \in table : r.ts = least => s <= r.symbol
           sample == {r \in table : r.symbol = ticker}
           stamps == {r.ts : r \in sample}
           spacing == ModalSpacing(Cardinality(sample), stamps)
           f == [r \in sample |-> r.ts]
<1>1. /\ InferTimeframe(table) = spacing \div 100
      /\ \E n \in Frames : 100 * n = spacing
  BY DEF InferTimeframe, OfTicker, StampsOf
<1>2. IsFiniteSet(table) /\ \A t \in table : t.ts \in Int
  BY TableIs
<1> HIDE DEF ticker
<1>3. sample \in SUBSET table /\ stamps \in SUBSET Int
  BY <1>2
<1>4. f \in [sample -> stamps] /\ \A n \in stamps : \E r \in sample : f[r] = n
  OBVIOUS
<1> HIDE DEF f, table
<1>5. IsFiniteSet(sample) /\ Cardinality(sample) \in Nat
  BY <1>2, <1>3, FS_Subset, FS_CardinalityType
<1>6. IsFiniteSet(stamps)
  <2> HIDE DEF stamps, sample
  <2> QED BY <1>4, <1>5, ImageIsFinite
<1>7. spacing = 0 \/ (spacing > 0 /\ \E t, u \in stamps : spacing = u - t)
  <2> HIDE DEF stamps, sample
  <2> QED BY <1>3, <1>5, <1>6, ModalSpacingIs
<1> HIDE DEF spacing
<1>8. PICK n \in {1, 6, 42} : 100 * n = spacing
  BY <1>1 DEF Frames
<1>9. PICK t \in sample, u \in sample : spacing = u.ts - t.ts
  BY <1>7, <1>8
<1>10. t \in table /\ u \in table /\ t.symbol = u.symbol /\ u.ts - t.ts > 0
  BY <1>8, <1>9
<1>11. u.ts - t.ts >= 100 * file.width
  BY <1>10, TableGapIsWide DEF table
<1>12. 100 * n >= 100 * file.width /\ file.width \in Nat /\ spacing \div 100 = n
  BY <1>8, <1>9, <1>11, ExportFacts
<1>13. n >= file.width
  BY <1>12
<1> QED
  BY <1>1, <1>12, <1>13 DEF table

(* A conversion labels no bar before it has closed.                        *)
Punctual(e) ==
  LET first == OfTicker(SymbolOf(rows[1]), e.table)
      measurable == ~schema.left \/ config.timeframe # None
                      \/ (Cardinality(first) >= 3 /\ Cardinality(StampsOf(first)) >= 2)
  IN  \A t \in e.table : Kind = "aggregate" /\ measurable /\ Clear(t.row) =>
        /\ t.ts >= 100 * rows[t.row].close
        /\ e.timeframe # None => e.timeframe >= file.width

LEMMA ConversionPunctual ==
  ASSUME OnFile, KeepsToTheRange, SaysWhatItLabels, ~schema.fails, Normalised # Failure
  PROVE  Punctual(EntryOf(TableOf(Normalised)))
<1> DEFINE table == TableOf(Normalised)
           e == EntryOf(table)
           first == OfTicker(SymbolOf(rows[1]), table)
           shift == Shift(Normalised, Valid(Normalised))
           width == BarWidth(Normalised, Valid(Normalised))
<1>1. e.table = table
  BY DEF EntryOf
<1> SUFFICES ASSUME NEW t \in table, Kind = "aggregate",
                    \/ ~schema.left \/ config.timeframe # None
                    \/ Cardinality(first) >= 3 /\ Cardinality(StampsOf(first)) >= 2,
                    Clear(t.row)
             PROVE  /\ t.ts >= 100 * rows[t.row].close
                    /\ e.timeframe # None => e.timeframe >= file.width
  BY <1>1 DEF Punctual
<1>2. /\ t.row \in DOMAIN rows /\ Normalised[t.row].valid
      /\ t.ts = Normalised[t.row].ts + shift
  BY TableIs
<1>3. ~Ambiguous(rows[t.row]) /\ (config.timeframe = None => \A i \in DOMAIN rows : ~Ambiguous(rows[i]))
  BY <1>2 DEF Clear
<1>4. Normalised[t.row].ts = 100 * Label(rows[t.row])
  BY <1>2, <1>3, LabelIs, SaidOfTheFile
<1>5. /\ rows[t.row].close \in Int /\ file.width \in Nat
      /\ config.timeframe = None \/ config.timeframe \in Nat
      /\ \/ Label(rows[t.row]) = rows[t.row].close
         \/ schema.left /\ Label(rows[t.row]) = rows[t.row].close - file.width
  BY <1>2, ExportFacts, SaidOfTheFile DEF Label
<1>6. shift \in Int /\ shift >= 0
  BY ShiftType
<1> HIDE DEF first, shift, width
<1>7. schema.left => shift >= 100 * file.width
  <2> SUFFICES ASSUME schema.left
               PROVE  shift >= 100 * file.width
    OBVIOUS
  <2>1. shift = width
    <3>1. rows # <<>>
      BY <1>2
    <3> QED BY <3>1 DEF Shift, shift, width
  <2>2. CASE config.timeframe # None
    <3>1. width = 100 * config.timeframe
      BY <2>2 DEF width, BarWidth
    <3>2. config.timeframe >= file.width
      BY <2>2, SaidOfTheFile
    <3> QED BY <1>5, <2>1, <2>2, <3>1, <3>2
  <2>3. CASE config.timeframe = None
    <3>1. Cardinality(first) >= 3 /\ Cardinality(StampsOf(first)) >= 2
      BY <2>3
    <3>2. first = OfTicker(SymbolOf(rows[1]), TableOf(Normalised))
      BY DEF first
    <3>3. width >= 100 * file.width
      BY <1>3, <2>3, <3>1, <3>2, MeasuredWidth DEF width
    <3> QED BY <2>1, <3>3
  <2> QED BY <2>2, <2>3
<1>8. t.ts >= 100 * rows[t.row].close
  <2>1. Label(rows[t.row]) \in Int
    BY <1>2, ExportFacts
  <2> QED BY <1>2, <1>4, <1>5, <1>6, <1>7, <2>1
<1>9. ASSUME e.timeframe # None
      PROVE  e.timeframe >= file.width
  <2>1. e.timeframe = InferTimeframe(table)
    <3>1. table # {}
      OBVIOUS
    <3> QED BY <3>1 DEF EntryOf
  <2>2. CASE config.timeframe # None
    <3>1. InferTimeframe(table) = config.timeframe
      BY <2>2 DEF InferTimeframe
    <3> QED BY <2>1, <2>2, <3>1, SaidOfTheFile
  <2>3. CASE config.timeframe = None
    <3> HIDE DEF e
    <3> QED BY <1>3, <1>9, <2>1, <2>3, InferredWidth
  <2> QED BY <2>2, <2>3
<1> QED
  BY <1>8, <1>9

LEMMA PunctualStays ==
  ASSUME OnFile, KeepsToTheRange, SaysWhatItLabels, NeverEarly, [ConversionNext]_conversionVars
  PROVE  NeverEarly'
<1>1. CASE entry' = None
  BY <1>1 DEF NeverEarly, Table
<1>2. CASE rows' = rows /\ ~schema.fails /\ Normalised # Failure
          /\ entry' = EntryOf(TableOf(Normalised))
  <2> DEFINE e == EntryOf(TableOf(Normalised))
  <2>1. Punctual(e) /\ entry' = e
    BY <1>2, ConversionPunctual
  <2> HIDE DEF e
  <2>2. rows' = rows /\ file' = file /\ schema' = schema
    BY <1>2, ConversionSteps
  <2>3. Punctual(entry)'
    BY <2>1, <2>2
    DEF Punctual, config, Clear, Ambiguous, Readings, Label, Roles, Kind, SymbolOf, Fallback
  <2> QED
    BY <2>3 DEF NeverEarly, Punctual, Measurable, Table
<1>3. CASE rows' = rows /\ entry' = entry
  <2>1. rows' = rows /\ file' = file /\ schema' = schema /\ entry' = entry
    BY <1>3, ConversionSteps
  <2> QED
    BY <2>1
    DEF NeverEarly, Measurable, Table, config, Clear, Ambiguous, Readings, Label, Roles, Kind,
        SymbolOf, Fallback
<1> QED
  BY <1>1, <1>2, <1>3, ConversionSteps

(* No bar is served before it has closed, and no inferred timeframe is     *)
(* shorter than the bars, whatever rows are missing or damaged, for files  *)
(* whose labels are what the exporter says (_read_csv, _bar_width_ns,      *)
(* _infer_timeframe).                                                      *)
THEOREM NoBarIsEarly ==
  ASSUME KeepsToTheRange, SaysWhatItLabels
  PROVE  ConversionSpec => []NeverEarly
<1>1. ConversionInit => NeverEarly
  BY DEF ConversionInit, NeverEarly, Table
<1>2. OnFile /\ NeverEarly /\ [ConversionNext]_conversionVars => NeverEarly'
  BY PunctualStays
<1> QED
  BY <1>1, <1>2, EntriesCover, PTL DEF ConversionSpec
=============================================================================
