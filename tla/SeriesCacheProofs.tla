-------------------------- MODULE SeriesCacheProofs --------------------------
(***************************************************************************)
(* Machine-checked proofs about SeriesCache, for any number of threads and *)
(* processes, any keys, series, budget and row threshold, and any number   *)
(* of calls and kills.                                                     *)
(***************************************************************************)
EXTENDS SeriesCacheProperties, WellFoundedInduction, SequenceTheorems, FiniteSetTheorems, TLAPS

(* The least element of a set of naturals.                                 *)
LEMMA MinOfNaturals ==
  ASSUME NEW S \in SUBSET Nat, S # {}
  PROVE  Min(S) \in S /\ \A y \in S : Min(S) <= y
<1> DEFINE Less == {ss \in Nat \X Nat : ss[1] < ss[2]}
<1>1. IsWellFoundedOn(Less, Nat)
  <2>1. OpToRel(<, Nat) = Less
    BY DEF OpToRel
  <2> QED BY <2>1, NatLessThanWellFounded
<1>2. \E x \in S : \A y \in S : <<y, x>> \notin Less
  <2> HIDE DEF Less
  <2> QED BY <1>1, WFMin, Zenon
<1>3. \A x, y \in S : <<y, x>> \notin Less => x =< y
  <2> SUFFICES ASSUME NEW x \in S, NEW y \in S, ~(x =< y)
               PROVE  <<y, x>> \in Less
    OBVIOUS
  <2>1. x \in Nat /\ y \in Nat /\ y < x
    OBVIOUS
  <2> QED BY <2>1
<1>4. \E x \in S : \A y \in S : x =< y
  <2> HIDE DEF Less
  <2> QED BY <1>2, <1>3
<1> QED
  BY <1>4, Zenon DEF Min

(* Induction, about a set rather than a predicate: a set that has 0 and,   *)
(* with a number up to n, the next, has all numbers up to n.               *)
LEMMA InductionUpTo ==
  ASSUME NEW n \in Nat, NEW S, 0 \in S, \A i \in 0..n - 1 : i \in S => i + 1 \in S
  PROVE  0..n \subseteq S
<1> SUFFICES ASSUME 0..n \ S # {}
             PROVE  FALSE
  OBVIOUS
<1> DEFINE out   == 0..n \ S
           least == Min(out)
<1>1. least \in out /\ \A y \in out : least <= y
  BY MinOfNaturals
<1> HIDE DEF least
<1>2. least - 1 \in 0..n - 1 /\ least - 1 \in S
  BY <1>1
<1>. QED
  BY <1>1, <1>2

-----------------------------------------------------------------------------
(* What a stretch of entries takes. *)

Bytes(entries, i) == BytesOf[entries[i].series]

LEMMA BytesType ==
  ASSUME NEW entries \in Seq(Entry), NEW i \in 1..Len(entries)
  PROVE  entries[i] \in Entry /\ Bytes(entries, i) \in Nat
<1>1. entries[i] \in Entry
  BY ElementOfSeq
<1>. QED
  BY <1>1, CacheAssumption DEF Entry, Bytes

(* The running total exists, starts at nothing and grows by each entry. *)
LEMMA SizesDef ==
  ASSUME NEW entries \in Seq(Entry)
  PROVE  Sizes(entries) = [i \in 0..Len(entries) |->
           IF i = 0 THEN 0 ELSE Sizes(entries)[i - 1] + Bytes(entries, i)]
<1> DEFINE n == Len(entries)
           IsSum(f, m) == f = [i \in 0..m |-> IF i = 0 THEN 0 ELSE f[i - 1] + Bytes(entries, i)]
           S == {m \in 0..n : \E f : IsSum(f, m)}
<1>1. n \in Nat
  BY LenProperties
<1>2. 0 \in S
  <2>1. IsSum([i \in 0..0 |-> 0], 0)
    OBVIOUS
  <2>2. \E f : IsSum(f, 0)
    BY <2>1
  <2> HIDE DEF IsSum
  <2>. QED
    BY <1>1, <2>2
<1>3. ASSUME NEW m \in 0..n - 1, m \in S
      PROVE  m + 1 \in S
  <2>1. PICK f : IsSum(f, m)
    BY <1>3
  <2> DEFINE g == [i \in 0..m + 1 |-> IF i = m + 1 THEN f[m] + Bytes(entries, m + 1) ELSE f[i]]
  <2>2. \A i \in 0..m : f[i] = IF i = 0 THEN 0 ELSE f[i - 1] + Bytes(entries, i)
    BY <2>1
  <2>3. \A i \in 0..m + 1 : g[i] = IF i = 0 THEN 0 ELSE g[i - 1] + Bytes(entries, i)
    <3> SUFFICES ASSUME NEW i \in 0..m + 1
                 PROVE  g[i] = IF i = 0 THEN 0 ELSE g[i - 1] + Bytes(entries, i)
      OBVIOUS
    <3>1. CASE i = m + 1
      BY <1>1, <1>3, <3>1
    <3>2. CASE i # m + 1
      BY <1>1, <1>3, <2>2, <3>2
    <3>. QED
      BY <3>1, <3>2
  <2>4. g = [i \in 0..m + 1 |-> g[i]]
    OBVIOUS
  <2> HIDE DEF g
  <2>5. IsSum(g, m + 1)
    BY <2>3, <2>4
  <2> HIDE DEF IsSum
  <2>. QED
    BY <1>1, <1>3, <2>5
<1>4. n \in S
  <2> HIDE DEF S, n
  <2>1. 0..n \subseteq S
    BY <1>1, <1>2, <1>3, InductionUpTo
  <2>. QED
    BY <1>1, <2>1
<1>5. \E f : IsSum(f, n)
  BY <1>4
<1>6. Sizes(entries) = CHOOSE f : IsSum(f, n)
  BY DEF Sizes, Bytes
<1>. QED
  BY <1>5, <1>6

LEMMA SizesGrow ==
  ASSUME NEW entries \in Seq(Entry)
  PROVE  /\ Sizes(entries)[0] = 0
         /\ \A i \in 0..Len(entries) : Sizes(entries)[i] \in Nat
         /\ \A i \in 0..Len(entries) - 1 :
              Sizes(entries)[i + 1] = Sizes(entries)[i] + Bytes(entries, i + 1)
<1> DEFINE s == Sizes(entries)
           n == Len(entries)
           S == {i \in 0..n : s[i] \in Nat}
<1>1. n \in Nat
  BY LenProperties
<1>2. s = [i \in 0..n |-> IF i = 0 THEN 0 ELSE s[i - 1] + Bytes(entries, i)]
  BY SizesDef
<1> HIDE DEF s
<1>3. s[0] = 0 /\ \A i \in 0..n - 1 : s[i + 1] = s[i] + Bytes(entries, i + 1)
  BY <1>1, <1>2
<1>4. 0 \in S /\ \A i \in 0..n - 1 : i \in S => i + 1 \in S
  BY <1>1, <1>3, BytesType
<1>5. 0..n \subseteq S
  <2> HIDE DEF S
  <2>. QED
    BY <1>1, <1>4, InductionUpTo
<1>. QED
  BY <1>3, <1>5 DEF s

(* Two equal stretches, of any two sequences, take the same. *)
SameStretch(a, i, b, j, n) ==
  /\ i + n <= Len(a) /\ j + n <= Len(b)
  /\ \A m \in 1..n : a[i + m] = b[j + m]

LEMMA EqualStretches ==
  ASSUME NEW a \in Seq(Entry), NEW b \in Seq(Entry), NEW i \in Nat, NEW j \in Nat, NEW n \in Nat,
         SameStretch(a, i, b, j, n)
  PROVE  Sizes(a)[i + n] - Sizes(a)[i] = Sizes(b)[j + n] - Sizes(b)[j]
<1> USE DEF SameStretch
<1> DEFINE S == {m \in 0..n : Sizes(a)[i + m] - Sizes(a)[i] = Sizes(b)[j + m] - Sizes(b)[j]}
<1>1. Len(a) \in Nat /\ Len(b) \in Nat
  BY LenProperties
<1>t. \A x \in 0..Len(a) : Sizes(a)[x] \in Nat
  BY SizesGrow
<1>u. \A x \in 0..Len(b) : Sizes(b)[x] \in Nat
  BY SizesGrow
<1>2. 0 \in S
  <2>1. i \in 0..Len(a) /\ j \in 0..Len(b) /\ i + 0 = i /\ j + 0 = j
    BY <1>1
  <2>2. Sizes(a)[i] \in Nat /\ Sizes(b)[j] \in Nat
    BY <1>t, <1>u, <2>1
  <2>. QED
    BY <2>1, <2>2
<1>3. ASSUME NEW m \in 0..n - 1, m \in S
      PROVE  m + 1 \in S
  <2> DEFINE k == m + 1
             x == i + m
             y == j + m
  <2>1. /\ k \in 1..n /\ i + k = x + 1 /\ j + k = y + 1
        /\ x \in 0..Len(a) - 1 /\ y \in 0..Len(b) - 1
    BY <1>1, <1>3
  <2>2. Sizes(a)[x] - Sizes(a)[i] = Sizes(b)[y] - Sizes(b)[j]
    BY <1>3
  <2> HIDE DEF k, x, y
  <2>3. Sizes(a)[x + 1] = Sizes(a)[x] + Bytes(a, x + 1)
    BY <2>1, SizesGrow
  <2>4. Sizes(b)[y + 1] = Sizes(b)[y] + Bytes(b, y + 1)
    BY <2>1, SizesGrow
  <2>5. a[i + k] = b[j + k]
    BY <2>1
  <2>6. Bytes(a, x + 1) = Bytes(b, y + 1)
    BY <2>1, <2>5 DEF Bytes
  <2>7. Bytes(a, x + 1) \in Nat
    <3>1. x + 1 \in 1..Len(a)
      BY <1>1, <2>1
    <3>. QED
      BY <3>1, BytesType
  <2>8. i \in 0..Len(a) /\ j \in 0..Len(b) /\ x \in 0..Len(a) /\ y \in 0..Len(b)
    BY <1>1, <2>1
  <2>9. /\ Sizes(a)[i] \in Nat /\ Sizes(a)[x] \in Nat
        /\ Sizes(b)[j] \in Nat /\ Sizes(b)[y] \in Nat
    BY <1>t, <1>u, <2>8
  <2>10. Sizes(a)[x + 1] - Sizes(a)[i] = Sizes(b)[y + 1] - Sizes(b)[j]
    <3> DEFINE p == Sizes(a)[x]
               q == Sizes(a)[i]
               u == Sizes(b)[y]
               v == Sizes(b)[j]
               w == Bytes(a, x + 1)
    <3>1. p \in Nat /\ q \in Nat /\ u \in Nat /\ v \in Nat /\ w \in Nat /\ p - q = u - v
      BY <2>2, <2>7, <2>9
    <3>2. Sizes(a)[x + 1] = p + w /\ Sizes(b)[y + 1] = u + w
      BY <2>3, <2>4, <2>6
    <3> HIDE DEF p, q, u, v, w
    <3>3. (p + w) - q = (u + w) - v
      BY <3>1
    <3>. QED
      BY <3>2, <3>3 DEF q, v
  <2>11. Sizes(a)[i + k] - Sizes(a)[i] = Sizes(b)[j + k] - Sizes(b)[j] /\ k \in 0..n
    BY <2>1, <2>10
  <2>. QED
    BY <2>11 DEF k
<1>4. 0..n \subseteq S
  <2> HIDE DEF S
  <2>. QED
    BY <1>2, <1>3, InductionUpTo
<1>. QED
  BY <1>4

-----------------------------------------------------------------------------
(* The memory tier: what each call on it makes of its entries. *)

LEMMA SizeType ==
  ASSUME NEW entries \in Seq(Entry)
  PROVE  Size(entries) \in Nat
<1>1. Len(entries) \in 0..Len(entries)
  BY LenProperties
<1>. QED
  BY <1>1, SizesGrow DEF Size

LEMMA SizeOfNothing == Size(<<>>) = 0 /\ <<>> \in Seq(Entry) /\ Distinct(<<>>)
<1>1. <<>> \in Seq(Entry) /\ Len(<<>>) = 0
  BY EmptySeq
<1>2. Sizes(<<>>)[0] = 0
  BY <1>1, SizesGrow
<1>. QED
  BY <1>1, <1>2 DEF Size, Distinct

LEMMA SizeOfAppend ==
  ASSUME NEW entries \in Seq(Entry), NEW e \in Entry
  PROVE  /\ Append(entries, e) \in Seq(Entry)
         /\ Size(Append(entries, e)) = Size(entries) + BytesOf[e.series]
<1> DEFINE n == Len(entries)
           longer == Append(entries, e)
<1>1. /\ n \in Nat /\ longer \in Seq(Entry) /\ Len(longer) = n + 1 /\ longer[n + 1] = e
      /\ \A m \in 1..n : longer[m] = entries[m]
  BY AppendProperties, LenProperties
<1> HIDE DEF longer
<1>2. Sizes(longer)[n] = Sizes(entries)[n]
  <2>1. \A m \in 1..n : longer[0 + m] = entries[0 + m]
    BY <1>1
  <2>2. Sizes(longer)[0 + n] - Sizes(longer)[0] = Sizes(entries)[0 + n] - Sizes(entries)[0]
    <3>1. SameStretch(longer, 0, entries, 0, n)
      BY <1>1, <2>1 DEF SameStretch
    <3> HIDE DEF n
    <3>. QED
      BY <1>1, <3>1, EqualStretches
  <2>3. /\ Sizes(longer)[0] = 0 /\ Sizes(entries)[0] = 0
        /\ Sizes(longer)[n] \in Nat /\ Sizes(entries)[n] \in Nat /\ 0 + n = n
    BY <1>1, SizesGrow
  <2>. QED
    BY <2>2, <2>3
<1>3. Sizes(longer)[n + 1] = Sizes(longer)[n] + Bytes(longer, n + 1)
  BY <1>1, SizesGrow
<1>. QED
  BY <1>1, <1>2, <1>3 DEF Size, Bytes, longer

(* What is left of a sequence when its first n entries are taken away.     *)
LEMMA SizeOfRest ==
  ASSUME NEW entries \in Seq(Entry), NEW n \in 0..Len(entries)
  PROVE  LET rest == SubSeq(entries, n + 1, Len(entries)) IN
         /\ rest \in Seq(Entry) /\ Len(rest) = Len(entries) - n
         /\ \A i \in 1..Len(rest) : rest[i] = entries[n + i]
         /\ Size(rest) = Size(entries) - Sizes(entries)[n]
<1> DEFINE rest == SubSeq(entries, n + 1, Len(entries))
           l == Len(entries) - n
<1>1. Len(entries) \in Nat /\ l \in Nat /\ \A i \in 1..Len(entries) : entries[i] \in Entry
  BY LenProperties, ElementOfSeq
<1>2. rest \in Seq(Entry) /\ Len(rest) = l /\ \A i \in 1..l : rest[i] = entries[n + i]
  <2>1. n + 1 \in Int /\ Len(entries) \in Int /\ \A i \in n + 1..Len(entries) : entries[i] \in Entry
    BY <1>1
  <2>2. /\ rest \in Seq(Entry)
        /\ Len(rest) = IF n + 1 <= Len(entries) THEN Len(entries) - (n + 1) + 1 ELSE 0
        /\ \A i \in 1..Len(entries) - (n + 1) + 1 : rest[i] = entries[(n + 1) + i - 1]
    BY <2>1, SubSeqProperties
  <2>3. Len(rest) = l
    BY <1>1, <2>2
  <2>4. ASSUME NEW i \in 1..l
        PROVE  rest[i] = entries[n + i]
    <3>1. i \in 1..Len(entries) - (n + 1) + 1 /\ (n + 1) + i - 1 = n + i
      BY <1>1
    <3>. QED
      BY <2>2, <3>1
  <2>. QED
    BY <2>2, <2>3, <2>4
<1> HIDE DEF rest
<1>3. Sizes(rest)[0 + l] - Sizes(rest)[0] = Sizes(entries)[n + l] - Sizes(entries)[n]
  <2>1. \A m \in 1..l : rest[0 + m] = entries[n + m]
    BY <1>2
  <2>2. 0 + l <= Len(rest) /\ n + l <= Len(entries)
    BY <1>1, <1>2
  <2>3. SameStretch(rest, 0, entries, n, l)
    BY <2>1, <2>2 DEF SameStretch
  <2> HIDE DEF l
  <2>. QED
    BY <1>1, <1>2, <2>3, EqualStretches
<1>4. /\ 0 + l = Len(rest) /\ n + l = Len(entries) /\ n \in 0..Len(entries)
      /\ Len(entries) \in 0..Len(entries) /\ Len(rest) \in 0..Len(rest)
  BY <1>1, <1>2
<1>5. /\ Sizes(rest)[0] = 0 /\ Sizes(rest)[Len(rest)] \in Nat
      /\ Sizes(entries)[n] \in Nat /\ Sizes(entries)[Len(entries)] \in Nat
  BY <1>2, <1>4, SizesGrow
<1>6. Size(rest) = Size(entries) - Sizes(entries)[n]
  BY <1>3, <1>4, <1>5 DEF Size
<1>. QED
  BY <1>2, <1>4, <1>6 DEF rest

(* What is left of a sequence when one of its entries is taken out.        *)
LEMMA SizeOfRemoved ==
  ASSUME NEW entries \in Seq(Entry), NEW i \in 1..Len(entries)
  PROVE  LET left == RemoveAt(entries, i) IN
         /\ left \in Seq(Entry) /\ Len(left) = Len(entries) - 1
         /\ \A j \in 1..i - 1 : left[j] = entries[j]
         /\ \A j \in i..Len(left) : left[j] = entries[j + 1]
         /\ Size(left) = Size(entries) - Bytes(entries, i)
<1> DEFINE left == RemoveAt(entries, i)
           n == Len(entries)
           front == SubSeq(entries, 1, i - 1)
           back == SubSeq(entries, i + 1, n)
<1>1. n \in Nat /\ \A j \in 1..n : entries[j] \in Entry
  BY LenProperties, ElementOfSeq
<1>2. front \in Seq(Entry) /\ Len(front) = i - 1 /\ \A j \in 1..i - 1 : front[j] = entries[j]
  <2>1. 1 \in Int /\ i - 1 \in Int /\ \A j \in 1..i - 1 : entries[j] \in Entry
    BY <1>1
  <2>2. /\ front \in Seq(Entry)
        /\ Len(front) = IF 1 <= i - 1 THEN (i - 1) - 1 + 1 ELSE 0
        /\ \A j \in 1..(i - 1) - 1 + 1 : front[j] = entries[1 + j - 1]
    BY <2>1, SubSeqProperties
  <2>3. Len(front) = i - 1
    BY <1>1, <2>2
  <2>4. ASSUME NEW j \in 1..i - 1
        PROVE  front[j] = entries[j]
    <3>1. j \in 1..(i - 1) - 1 + 1 /\ 1 + j - 1 = j
      BY <1>1
    <3>. QED
      BY <2>2, <3>1
  <2>. QED
    BY <2>2, <2>3, <2>4
<1>3. /\ back \in Seq(Entry) /\ Len(back) = n - i
      /\ \A j \in 1..Len(back) : back[j] = entries[i + j]
  <2>1. i \in 0..Len(entries)
    BY <1>1
  <2>. QED
    BY <2>1, SizeOfRest
<1> HIDE DEF front, back
<1>4. left = front \o back
  BY DEF RemoveAt, front, back
<1>5. /\ left \in Seq(Entry) /\ Len(left) = n - 1
      /\ \A j \in 1..i - 1 : left[j] = entries[j]
      /\ \A j \in i..n - 1 : left[j] = entries[j + 1]
  <2>1. /\ left \in Seq(Entry) /\ Len(left) = Len(front) + Len(back)
        /\ \A j \in 1..Len(front) + Len(back) :
             left[j] = IF j <= Len(front) THEN front[j] ELSE back[j - Len(front)]
    <3>1. /\ front \o back \in Seq(Entry) /\ Len(front \o back) = Len(front) + Len(back)
          /\ \A j \in 1..Len(front) + Len(back) :
               (front \o back)[j] = IF j <= Len(front) THEN front[j] ELSE back[j - Len(front)]
      BY <1>2, <1>3, ConcatProperties
    <3> HIDE DEF left
    <3>. QED
      BY <1>4, <3>1
  <2>2. Len(front) + Len(back) = n - 1
    BY <1>1, <1>2, <1>3
  <2>3. ASSUME NEW j \in 1..i - 1
        PROVE  left[j] = entries[j]
    <3>1. j \in 1..Len(front) + Len(back) /\ j <= Len(front)
      BY <1>1, <1>2, <2>2
    <3>. QED
      BY <1>2, <2>1, <3>1
  <2>4. ASSUME NEW j \in i..n - 1
        PROVE  left[j] = entries[j + 1]
    <3>1. j \in 1..Len(front) + Len(back) /\ ~(j <= Len(front)) /\ j - Len(front) \in 1..Len(back)
      BY <1>1, <1>2, <1>3, <2>2
    <3>2. i + (j - Len(front)) = j + 1
      BY <1>1, <1>2
    <3>. QED
      BY <1>3, <2>1, <3>1, <3>2
  <2>. QED
    BY <2>1, <2>2, <2>3, <2>4
<1> HIDE DEF left
<1>6. Sizes(left)[i - 1] = Sizes(entries)[i - 1]
  <2>1. \A m \in 1..i - 1 : left[0 + m] = entries[0 + m]
    BY <1>1, <1>5
  <2>2. i - 1 \in Nat /\ 0 + (i - 1) <= Len(left) /\ 0 + (i - 1) <= Len(entries)
    BY <1>1, <1>5
  <2>3. Sizes(left)[0 + (i - 1)] - Sizes(left)[0] = Sizes(entries)[0 + (i - 1)] - Sizes(entries)[0]
    <3>1. SameStretch(left, 0, entries, 0, i - 1)
      BY <2>1, <2>2 DEF SameStretch
    <3>. QED
      BY <1>5, <2>2, <3>1, EqualStretches
  <2>4. /\ Sizes(left)[0] = 0 /\ Sizes(entries)[0] = 0 /\ 0 + (i - 1) = i - 1
        /\ Sizes(left)[i - 1] \in Nat /\ Sizes(entries)[i - 1] \in Nat
    BY <1>1, <1>5, <2>2, SizesGrow
  <2>. QED
    BY <2>3, <2>4
<1>7. Sizes(left)[n - 1] - Sizes(left)[i - 1] = Sizes(entries)[n] - Sizes(entries)[i]
  <2>1. ASSUME NEW m \in 1..n - i
        PROVE  left[(i - 1) + m] = entries[i + m]
    <3>1. (i - 1) + m \in i..n - 1 /\ ((i - 1) + m) + 1 = i + m
      BY <1>1
    <3>. QED
      BY <1>5, <3>1
  <2>2. /\ i - 1 \in Nat /\ i \in Nat /\ n - i \in Nat
        /\ (i - 1) + (n - i) = n - 1 /\ i + (n - i) = n
        /\ (i - 1) + (n - i) <= Len(left) /\ i + (n - i) <= Len(entries)
    BY <1>1, <1>5
  <2>3. Sizes(left)[(i - 1) + (n - i)] - Sizes(left)[i - 1]
          = Sizes(entries)[i + (n - i)] - Sizes(entries)[i]
    <3>1. SameStretch(left, i - 1, entries, i, n - i)
      BY <2>1, <2>2 DEF SameStretch
    <3>. QED
      BY <1>5, <2>2, <3>1, EqualStretches
  <2>. QED
    BY <2>2, <2>3
<1>8. Sizes(entries)[i] = Sizes(entries)[i - 1] + Bytes(entries, i)
  <2>1. i - 1 \in 0..n - 1 /\ (i - 1) + 1 = i
    BY <1>1
  <2>. QED
    BY <2>1, SizesGrow
<1>9. /\ Sizes(left)[i - 1] \in Nat /\ Sizes(left)[n - 1] \in Nat
      /\ Sizes(entries)[i - 1] \in Nat /\ Sizes(entries)[n] \in Nat /\ Bytes(entries, i) \in Nat
  <2>1. i - 1 \in 0..n - 1 /\ n - 1 \in 0..n - 1 /\ i - 1 \in 0..n /\ n \in 0..n
    BY <1>1
  <2>. QED
    BY <1>5, <2>1, SizesGrow, BytesType
<1>10. Size(left) = Size(entries) - Bytes(entries, i)
  <2>1. Size(left) = Sizes(left)[n - 1] /\ Size(entries) = Sizes(entries)[n]
    BY <1>5 DEF Size
  <2>. QED
    BY <1>6, <1>7, <1>8, <1>9, <2>1
<1>. QED
  BY <1>5, <1>10 DEF left

-----------------------------------------------------------------------------
(* A tier that counts its bytes rightly, within the budget or over it.     *)
Counted(m) == m \in MemoryTiers /\ m.bytes = Size(m.entries) /\ Distinct(m.entries)
Sound(m)   == Counted(m) /\ m.bytes <= MaxBytes

(* The fields of a tier, without what a sequence of entries is. *)
EntrySeqs == Seq(Entry)

LEMMA TierFields ==
  /\ MemoryTiers = [entries : EntrySeqs, bytes : Nat, counts : Counts, evictions : Nat]
  /\ \A entries : entries \in EntrySeqs <=> entries \in Seq(Entry)
BY DEF EntrySeqs, MemoryTiers

LEMMA HeldEntries ==
  ASSUME NEW m \in MemoryTiers, NEW k
  PROVE  /\ Holds(m, k) <=> \E e \in Range(m.entries) : e.key = k
         /\ Holds(m, k) => /\ Found(m, k) \in 1..Len(m.entries)
                           /\ m.entries[Found(m, k)].key = k
<1>1. m.entries \in Seq(Entry) /\ DOMAIN m.entries = 1..Len(m.entries)
  BY LenProperties DEF MemoryTiers
<1>. QED
  BY <1>1 DEF Holds, Found, Index, Range

(* An entry is taken out: the rest stay, and its key is not held any more. *)
LEMMA WithoutEntries ==
  ASSUME NEW m \in MemoryTiers, Distinct(m.entries), NEW k, Holds(m, k)
  PROVE  LET left == Without(m, k) IN
         /\ left \in Seq(Entry) /\ Distinct(left)
         /\ Range(left) \subseteq Range(m.entries)
         /\ \A e \in Range(left) : e.key # k
         /\ Size(left) = Size(m.entries) - Bytes(m.entries, Found(m, k))
<1> DEFINE entries == m.entries
           i == Found(m, k)
           left == Without(m, k)
<1>1. /\ entries \in Seq(Entry) /\ DOMAIN entries = 1..Len(entries) /\ Len(entries) \in Nat
      /\ i \in 1..Len(entries) /\ entries[i].key = k
  BY HeldEntries, LenProperties DEF MemoryTiers
<1>2. /\ left \in Seq(Entry) /\ Len(left) = Len(entries) - 1
      /\ \A j \in 1..i - 1 : left[j] = entries[j]
      /\ \A j \in i..Len(left) : left[j] = entries[j + 1]
      /\ Size(left) = Size(entries) - Bytes(entries, i)
  <2>1. left = RemoveAt(entries, i)
    BY DEF Without
  <2> HIDE DEF i, entries, left
  <2>. QED
    BY <1>1, <2>1, SizeOfRemoved
<1>3. DOMAIN left = 1..Len(left) /\ Len(left) \in Nat
  BY <1>2, LenProperties
<1> HIDE DEF left, i, entries
<1> DEFINE From(j) == IF j < i THEN j ELSE j + 1
<1>4. \A j \in DOMAIN left : From(j) \in DOMAIN entries \ {i} /\ left[j] = entries[From(j)]
  BY <1>1, <1>2, <1>3
<1>5. \A j, l \in DOMAIN left : From(j) = From(l) => j = l
  BY <1>1, <1>3
<1> HIDE DEF From
<1>6. Distinct(entries)
  BY DEF entries
<1>7. Distinct(left) /\ \A j \in DOMAIN left : left[j].key # k
  BY <1>1, <1>4, <1>5, <1>6 DEF Distinct
<1>8. Range(left) \subseteq Range(entries) /\ \A e \in Range(left) : e.key # k
  BY <1>4, <1>7 DEF Range
<1>. QED
  BY <1>2, <1>7, <1>8 DEF left, entries, i

(* An entry of a key that is not held is added. *)
LEMMA WithEntry ==
  ASSUME NEW entries \in Seq(Entry), Distinct(entries), NEW e \in Entry,
         \A other \in Range(entries) : other.key # e.key
  PROVE  LET more == Append(entries, e) IN
         /\ more \in Seq(Entry) /\ Distinct(more)
         /\ Range(more) = Range(entries) \cup {e}
         /\ Size(more) = Size(entries) + BytesOf[e.series]
<1> DEFINE more == Append(entries, e)
           n == Len(entries)
<1>1. /\ more \in Seq(Entry) /\ Len(more) = n + 1 /\ more[n + 1] = e /\ n \in Nat
      /\ \A i \in 1..n : more[i] = entries[i]
      /\ DOMAIN more = 1..n + 1 /\ DOMAIN entries = 1..n
  BY AppendProperties, LenProperties
<1>2. Size(more) = Size(entries) + BytesOf[e.series]
  BY SizeOfAppend
<1> HIDE DEF more, n
<1>3. DOMAIN more = DOMAIN entries \cup {n + 1} /\ n + 1 \notin DOMAIN entries
  BY <1>1
<1>4. Distinct(more) /\ Range(more) = Range(entries) \cup {e}
  BY <1>1, <1>3 DEF Distinct, Range
<1>. QED
  BY <1>1, <1>2, <1>4 DEF more

LEMMA LookedSound ==
  ASSUME NEW m, Sound(m), NEW k
  PROVE  /\ Sound(Looked(m, k)) /\ Range(Looked(m, k).entries) \subseteq Range(m.entries)
         /\ Holds(m, k) => /\ Looked(m, k).counts.hits = m.counts.hits + 1
                           /\ Looked(m, k).counts.misses = m.counts.misses
         /\ ~Holds(m, k) => /\ Looked(m, k).counts.hits = m.counts.hits
                            /\ Looked(m, k).counts.misses = m.counts.misses + 1
<1>1. m \in MemoryTiers /\ Distinct(m.entries) /\ m.bytes = Size(m.entries) /\ m.bytes <= MaxBytes
  BY DEF Sound, Counted
<1>2. CASE Holds(m, k)
  <2> DEFINE left == Without(m, k)
             e == m.entries[Found(m, k)]
             more == Append(left, e)
  <2>1. /\ left \in Seq(Entry) /\ Distinct(left) /\ Range(left) \subseteq Range(m.entries)
        /\ \A other \in Range(left) : other.key # k
        /\ Size(left) = Size(m.entries) - Bytes(m.entries, Found(m, k))
    BY <1>1, <1>2, WithoutEntries
  <2>2. /\ m.entries \in Seq(Entry) /\ Found(m, k) \in 1..Len(m.entries)
        /\ DOMAIN m.entries = 1..Len(m.entries) /\ e.key = k
    BY <1>1, <1>2, HeldEntries, LenProperties DEF MemoryTiers
  <2>3. e \in Entry /\ e \in Range(m.entries) /\ Bytes(m.entries, Found(m, k)) = BytesOf[e.series]
    BY <2>2, BytesType DEF Range, Bytes
  <2>4. Bytes(m.entries, Found(m, k)) \in Nat /\ Size(m.entries) \in Nat
    BY <2>2, BytesType, SizeType
  <2> HIDE DEF left, e
  <2>5. /\ more \in Seq(Entry) /\ Distinct(more) /\ Range(more) = Range(left) \cup {e}
        /\ Size(more) = Size(left) + BytesOf[e.series]
    BY <2>1, <2>2, <2>3, WithEntry
  <2> HIDE DEF more
  <2>6. Size(more) = Size(m.entries) /\ Range(more) \subseteq Range(m.entries)
    BY <2>1, <2>3, <2>4, <2>5
  <2>7. Looked(m, k) = [m EXCEPT !.entries = more, !.counts.hits = @ + 1]
    BY <1>2 DEF Looked, more, left, e
  <2>8. /\ Looked(m, k) \in MemoryTiers /\ Looked(m, k).entries = more
        /\ Looked(m, k).bytes = m.bytes
        /\ Looked(m, k).counts.hits = m.counts.hits + 1
        /\ Looked(m, k).counts.misses = m.counts.misses
    <3> DEFINE counts == [m.counts EXCEPT !.hits = @ + 1]
    <3>1. m.counts \in Counts
      BY <1>1, TierFields
    <3>2. /\ counts \in Counts /\ counts.hits = m.counts.hits + 1
          /\ counts.misses = m.counts.misses
      BY <3>1 DEF Counts
    <3>3. Looked(m, k) = [m EXCEPT !.entries = more, !.counts = counts]
      BY <1>1, <2>7, TierFields
    <3> HIDE DEF counts
    <3>. QED
      BY <1>1, <2>5, <3>2, <3>3, TierFields
  <2>. QED
    BY <1>1, <1>2, <2>5, <2>6, <2>8 DEF Sound, Counted
<1>3. CASE ~Holds(m, k)
  <2>1. Looked(m, k) = [m EXCEPT !.counts.misses = @ + 1]
    BY <1>3 DEF Looked
  <2>2. /\ Looked(m, k) \in MemoryTiers /\ Looked(m, k).entries = m.entries
        /\ Looked(m, k).bytes = m.bytes
        /\ Looked(m, k).counts.hits = m.counts.hits
        /\ Looked(m, k).counts.misses = m.counts.misses + 1
    BY <1>1, <2>1 DEF MemoryTiers, Counts
  <2>. QED
    BY <1>1, <1>3, <2>2 DEF Sound, Counted
<1>. QED
  BY <1>2, <1>3

LEMMA DroppedSound ==
  ASSUME NEW m, Sound(m), NEW k
  PROVE  /\ Sound(Dropped(m, k)) /\ Range(Dropped(m, k).entries) \subseteq Range(m.entries)
         /\ Dropped(m, k).counts = m.counts
         /\ \A e \in Range(Dropped(m, k).entries) : e.key # k
<1>1. m \in MemoryTiers /\ Distinct(m.entries) /\ m.bytes = Size(m.entries) /\ m.bytes <= MaxBytes
  BY DEF Sound, Counted
<1>2. CASE Holds(m, k)
  <2> DEFINE left == Without(m, k)
             freed == Bytes(m.entries, Found(m, k))
  <2>1. /\ left \in Seq(Entry) /\ Distinct(left) /\ Range(left) \subseteq Range(m.entries)
        /\ \A other \in Range(left) : other.key # k
        /\ Size(left) = Size(m.entries) - freed
    BY <1>1, <1>2, WithoutEntries
  <2>2. m.entries \in Seq(Entry) /\ Found(m, k) \in 1..Len(m.entries)
    BY <1>1, <1>2, HeldEntries DEF MemoryTiers
  <2>3. freed \in Nat /\ Size(m.entries) \in Nat /\ Size(left) \in Nat
    BY <2>1, <2>2, BytesType, SizeType
  <2>4. Dropped(m, k) = [m EXCEPT !.entries = left, !.bytes = m.bytes - freed]
    BY <1>2 DEF Dropped, Bytes
  <2> HIDE DEF left, freed
  <2>5. /\ Dropped(m, k) \in MemoryTiers /\ Dropped(m, k).entries = left
        /\ Dropped(m, k).bytes = Size(left) /\ Dropped(m, k).counts = m.counts
    BY <1>1, <2>1, <2>3, <2>4 DEF MemoryTiers
  <2>6. Size(left) <= MaxBytes
    BY <1>1, <2>1, <2>3, CacheAssumption
  <2>. QED
    BY <2>1, <2>5, <2>6 DEF Sound, Counted
<1>3. CASE ~Holds(m, k)
  BY <1>1, <1>3, HeldEntries DEF Dropped
<1>. QED
  BY <1>2, <1>3

(* The oldest entries go, as many as it takes and no more are there.       *)
LEMMA EvictedSound ==
  ASSUME NEW m, Counted(m)
  PROVE  /\ Sound(Evicted(m)) /\ Range(Evicted(m).entries) \subseteq Range(m.entries)
         /\ Evicted(m).counts = m.counts
<1> DEFINE entries == m.entries
           freed == Sizes(entries)
           fits == {i \in 0..Len(entries) : m.bytes - freed[i] <= MaxBytes}
           n == Min(fits \cup {Len(entries)})
           rest == SubSeq(entries, n + 1, Len(entries))
<1>1. /\ m \in MemoryTiers /\ entries \in Seq(Entry) /\ Distinct(entries)
      /\ m.bytes = Size(entries) /\ Len(entries) \in Nat /\ DOMAIN entries = 1..Len(entries)
  BY LenProperties DEF Counted, MemoryTiers
<1>2. \A i \in 0..Len(entries) : freed[i] \in Nat
  BY <1>1, SizesGrow
<1>3. Len(entries) \in fits
  <2>1. Len(entries) \in 0..Len(entries) /\ freed[Len(entries)] = m.bytes
    BY <1>1 DEF Size
  <2>2. freed[Len(entries)] \in Nat
    BY <1>2, <2>1
  <2>. QED
    BY <2>1, <2>2, CacheAssumption
<1>4. n \in 0..Len(entries) /\ n \in fits
  <2>1. fits \in SUBSET Nat /\ fits # {} /\ fits \cup {Len(entries)} = fits
    BY <1>3
  <2> HIDE DEF fits
  <2>2. Min(fits) \in fits
    BY <2>1, MinOfNaturals
  <2>3. n \in fits
    BY <2>1, <2>2
  <2>4. fits \subseteq 0..Len(entries)
    BY DEF fits
  <2>. QED
    BY <2>3, <2>4
<1>5. Evicted(m) = [m EXCEPT !.entries = rest, !.bytes = m.bytes - freed[n],
                             !.evictions = m.evictions + n]
  BY DEF Evicted
<1>6. m.bytes - freed[n] <= MaxBytes /\ freed[n] \in Nat
  BY <1>2, <1>4
<1> HIDE DEF n, fits
<1>7. /\ rest \in Seq(Entry) /\ Len(rest) = Len(entries) - n
      /\ \A i \in 1..Len(rest) : rest[i] = entries[n + i]
      /\ Size(rest) = Size(entries) - freed[n]
  BY <1>1, <1>4, SizeOfRest
<1> HIDE DEF rest, freed
<1>8. DOMAIN rest = 1..Len(rest) /\ Size(rest) \in Nat
  BY <1>7, LenProperties, SizeType
<1>9. \A i \in DOMAIN rest : n + i \in DOMAIN entries /\ rest[i] = entries[n + i] /\ i \in Nat
  BY <1>1, <1>4, <1>7, <1>8
<1>10. Range(rest) \subseteq Range(entries) /\ Distinct(rest)
  <2>1. Range(rest) \subseteq Range(entries)
    BY <1>9 DEF Range
  <2>2. ASSUME NEW i \in DOMAIN rest, NEW j \in DOMAIN rest, rest[i].key = rest[j].key
        PROVE  i = j
    <3>1. n + i = n + j
      BY <1>1, <1>9, <2>2 DEF Distinct
    <3>. QED
      BY <1>4, <1>9, <3>1
  <2>. QED
    BY <2>1, <2>2 DEF Distinct
<1>11. /\ Evicted(m) \in MemoryTiers /\ Evicted(m).entries = rest
       /\ Evicted(m).bytes = Size(rest) /\ Evicted(m).counts = m.counts
  <2>1. m.bytes - freed[n] = Size(rest) /\ m.evictions + n \in Nat
    BY <1>1, <1>4, <1>7 DEF MemoryTiers
  <2>. QED
    BY <1>1, <1>5, <1>7, <1>8, <2>1, TierFields
<1>12. Size(rest) <= MaxBytes
  BY <1>1, <1>6, <1>7
<1>. QED
  BY <1>10, <1>11, <1>12 DEF Sound, Counted

LEMMA RememberedSound ==
  ASSUME NEW m, Sound(m), NEW k \in Keys, NEW s \in Series
  PROVE  /\ Sound(Remembered(m, k, s))
         /\ Range(Remembered(m, k, s).entries) \subseteq
              {e \in Range(m.entries) : e.key # k} \cup {[key |-> k, series |-> s]}
         /\ Remembered(m, k, s).counts = m.counts
<1> DEFINE free == Dropped(m, k)
           e == [key |-> k, series |-> s]
           more == Append(free.entries, e)
           full == [free EXCEPT !.entries = more, !.bytes = @ + BytesOf[s]]
<1>1. /\ Sound(free) /\ free.counts = m.counts
      /\ Range(free.entries) \subseteq {x \in Range(m.entries) : x.key # k}
  BY DroppedSound
<1>2. CASE BytesOf[s] > MaxBytes
  BY <1>1, <1>2 DEF Remembered
<1>3. CASE ~(BytesOf[s] > MaxBytes)
  <2>1. Remembered(m, k, s) = Evicted(full)
    BY <1>3 DEF Remembered
  <2>2. /\ free \in MemoryTiers /\ free.entries \in Seq(Entry) /\ Distinct(free.entries)
        /\ free.bytes = Size(free.entries) /\ free.bytes \in Nat
    BY <1>1 DEF Sound, Counted, MemoryTiers
  <2>3. e \in Entry /\ e.key = k /\ e.series = s /\ BytesOf[s] \in Nat
    BY CacheAssumption DEF Entry
  <2> HIDE DEF e, free
  <2>4. /\ more \in Seq(Entry) /\ Distinct(more) /\ Range(more) = Range(free.entries) \cup {e}
        /\ Size(more) = Size(free.entries) + BytesOf[s]
    BY <1>1, <2>2, <2>3, WithEntry
  <2> HIDE DEF more
  <2>5. /\ full \in MemoryTiers /\ full.entries = more /\ full.bytes = free.bytes + BytesOf[s]
        /\ full.counts = free.counts
    <3>1. free.bytes + BytesOf[s] \in Nat
      BY <2>2, <2>3
    <3>. QED
      BY <2>2, <2>4, <3>1, TierFields
  <2> HIDE DEF full
  <2>6. Counted(full)
    BY <2>2, <2>4, <2>5 DEF Counted
  <2>7. /\ Sound(Evicted(full)) /\ Range(Evicted(full).entries) \subseteq Range(full.entries)
        /\ Evicted(full).counts = full.counts
    BY <2>6, EvictedSound
  <2>. QED
    BY <1>1, <2>1, <2>4, <2>5, <2>7 DEF e
<1>. QED
  BY <1>2, <1>3

LEMMA EmptySound ==
  /\ Sound(EmptyMemory) /\ Range(EmptyMemory.entries) = {}
  /\ EmptyMemory.counts = NoCounts
<1>1. /\ <<>> \in Seq(Entry) /\ Size(<<>>) = 0 /\ Distinct(<<>>) /\ Range(<<>>) = {}
      /\ MaxBytes \in Nat
  BY SizeOfNothing, CacheAssumption DEF Range
<1>. QED
  BY <1>1 DEF EmptyMemory, Sound, Counted, MemoryTiers, Counts, NoCounts

LEMMA ClearedSound ==
  ASSUME NEW m, Sound(m)
  PROVE  /\ Sound(Cleared(m)) /\ Range(Cleared(m).entries) = {}
         /\ Cleared(m).counts = m.counts
<1> DEFINE none == <<>>
<1>1. /\ none \in Seq(Entry) /\ Size(none) = 0 /\ Distinct(none) /\ Range(none) = {}
      /\ 0 <= MaxBytes
  BY SizeOfNothing, CacheAssumption DEF Range
<1>2. m \in MemoryTiers
  BY DEF Sound, Counted
<1>3. Cleared(m) = [m EXCEPT !.entries = none, !.bytes = 0]
  BY DEF Cleared
<1> HIDE DEF none
<1>4. none \in EntrySeqs /\ 0 \in Nat
  BY <1>1, TierFields
<1>5. /\ Cleared(m) \in MemoryTiers /\ Cleared(m).entries = none
      /\ Cleared(m).bytes = 0 /\ Cleared(m).counts = m.counts
  BY <1>2, <1>3, <1>4, TierFields
<1>. QED
  BY <1>1, <1>5 DEF Sound, Counted

-----------------------------------------------------------------------------
(* Names and calls. *)

LEMMA Names ==
  /\ \A k \in Keys : PathFor(k) \in Files
  /\ \A k, l \in Keys : PathFor(k) = PathFor(l) => k = l
  /\ \A t \in Threads, k \in Keys : TmpName(t, k) \in TmpNames
  /\ \A t, u \in Threads, k, l \in Keys : TmpName(t, k) = TmpName(u, l) => t = u
<1>1. \A k, l \in Keys : k.symbol = l.symbol /\ k.request = l.request => k = l
  BY CacheAssumption
<1>. QED
  BY <1>1 DEF PathFor, Files, TmpName, TmpNames

LEMMA TiersSound ==
  ASSUME CacheInv, NEW p \in Processes
  PROVE  Sound(memory[p])
BY DEF CacheInv, TypeOK, BudgetHeld, Sound, Counted

LEMMA CallTypes ==
  ASSUME TypeOK, NEW t \in Threads
  PROVE  /\ Return(t) \in [Threads -> CallRecords]
         /\ \A at \in Places : Go(t, at) \in [Threads -> CallRecords]
         /\ \A at \in Places, k \in Keys \cup {NoSeries}, s \in Series \cup {NoSeries},
               left \in SUBSET Files : Call(t, at, k, s, left) \in [Threads -> CallRecords]
<1>1. thread \in [Threads -> CallRecords] /\ thread[t] \in CallRecords /\ Idle \in CallRecords
  BY DEF TypeOK, CallRecords, Idle, Places
<1>2. ASSUME NEW at \in Places
      PROVE  Go(t, at) \in [Threads -> CallRecords]
  <2>1. [thread[t] EXCEPT !.at = at] \in CallRecords
    BY <1>1 DEF CallRecords
  <2>. QED
    BY <1>1, <2>1 DEF Go
<1>3. ASSUME NEW at \in Places, NEW k \in Keys \cup {NoSeries}, NEW s \in Series \cup {NoSeries},
             NEW left \in SUBSET Files
      PROVE  Call(t, at, k, s, left) \in [Threads -> CallRecords]
  <2>1. [Idle EXCEPT !.at = at, !.key = k, !.series = s, !.left = left] \in CallRecords
    BY DEF CallRecords, Idle
  <2>. QED
    BY <1>1, <2>1 DEF Call
<1>. QED
  BY <1>1, <1>2, <1>3 DEF Return

LEMMA CallFields ==
  ASSUME TypeOK, NEW t \in Threads
  PROVE  /\ Return(t)[t].at = "idle"
         /\ \A at : /\ Go(t, at)[t].at = at /\ Go(t, at)[t].key = thread[t].key
                    /\ Go(t, at)[t].series = thread[t].series
         /\ \A at, k, s, left : /\ Call(t, at, k, s, left)[t].at = at
                                /\ Call(t, at, k, s, left)[t].key = k
                                /\ Call(t, at, k, s, left)[t].series = s
BY DEF TypeOK, CallRecords, Return, Go, Call, Idle

LEMMA DecidedCall ==
  ASSUME TypeOK, NEW t \in Threads, NEW s \in Series \cup {NoSeries},
         NEW next \in {"idle", "promote", "discard"}
  PROVE  /\ Decided(t, s, next) \in [Threads -> CallRecords]
         /\ Decided(t, s, next)[t].at = "count" /\ Decided(t, s, next)[t].key = thread[t].key
         /\ Decided(t, s, next)[t].series = s /\ Decided(t, s, next)[t].next = next
<1> DEFINE c == [thread[t] EXCEPT !.at = "count", !.series = s, !.next = next]
<1>1. /\ c \in CallRecords /\ c.at = "count" /\ c.key = thread[t].key /\ c.series = s
      /\ c.next = next
  BY DEF TypeOK, CallRecords, Places
<1>2. Decided(t, s, next) = [thread EXCEPT ![t] = c]
  BY DEF TypeOK, Decided
<1> HIDE DEF c
<1>. QED
  BY <1>1, <1>2 DEF TypeOK

(* The two steps that count a lookup. *)
LEMMA CountedCall ==
  ASSUME TypeOK, NEW t \in Threads, ProcessOf[t] \in Processes
  PROVE  /\ LoadCount(t) => /\ thread' \in [Threads -> CallRecords]
                            /\ thread[t].at = "count" /\ thread'[t].at = "counted"
                            /\ thread'[t].key = thread[t].key
                            /\ thread'[t].series = thread[t].series
                            /\ thread'[t].next = thread[t].next
                            /\ thread'[t].count = slow[ProcessOf[t]][Counter(t)]
         /\ StoreCount(t) => /\ thread' \in [Threads -> CallRecords]
                             /\ thread[t].at = "counted" /\ thread'[t].at = thread[t].next
                             /\ thread'[t].at # "idle" => /\ thread'[t].key = thread[t].key
                                                         /\ thread'[t].series = thread[t].series
<1> DEFINE c == thread[t]
<1>1. /\ c \in CallRecords /\ thread \in [Threads -> CallRecords]
      /\ slow[ProcessOf[t]] \in Counts
  BY DEF TypeOK
<1>2. ASSUME LoadCount(t)
      PROVE  /\ thread' \in [Threads -> CallRecords] /\ c.at = "count"
             /\ thread'[t].at = "counted" /\ thread'[t].key = c.key
             /\ thread'[t].series = c.series /\ thread'[t].next = c.next
             /\ thread'[t].count = slow[ProcessOf[t]][Counter(t)]
  <2> DEFINE n == slow[ProcessOf[t]][Counter(t)]
             d == [c EXCEPT !.at = "counted", !.count = n]
  <2>1. n \in Nat
    BY <1>1 DEF Counter, Counts
  <2>2. c.at = "count" /\ thread' = [thread EXCEPT ![t].at = "counted", ![t].count = n]
    BY <1>2 DEF LoadCount, At
  <2> HIDE DEF n
  <2>3. /\ d \in CallRecords /\ d.at = "counted" /\ d.key = c.key /\ d.series = c.series
        /\ d.next = c.next /\ d.count = n
    BY <1>1, <2>1 DEF CallRecords, Places
  <2>4. thread' = [thread EXCEPT ![t] = d]
    BY <1>1, <2>2
  <2> HIDE DEF c, d
  <2>. QED
    BY <1>1, <2>2, <2>3, <2>4 DEF n
<1>3. ASSUME StoreCount(t)
      PROVE  /\ thread' \in [Threads -> CallRecords] /\ c.at = "counted"
             /\ thread'[t].at = c.next
             /\ thread'[t].at # "idle" => /\ thread'[t].key = c.key
                                         /\ thread'[t].series = c.series
  <2>1. c.at = "counted"
    BY <1>3 DEF StoreCount, At
  <2>2. CASE c.next = "idle"
    BY <1>3, <2>1, <2>2, CallTypes, CallFields DEF StoreCount
  <2>3. CASE c.next # "idle"
    <3> DEFINE d == [c EXCEPT !.at = c.next, !.next = "idle", !.count = 0]
    <3>1. d \in CallRecords /\ d.at = c.next /\ d.key = c.key /\ d.series = c.series
      BY <1>1, <2>3 DEF CallRecords, Places
    <3>2. thread' = [thread EXCEPT ![t] = d]
      BY <1>1, <1>3, <2>3 DEF StoreCount
    <3> HIDE DEF d
    <3>. QED
      BY <1>1, <2>1, <3>1, <3>2
  <2>. QED
    BY <2>2, <2>3
<1>. QED
  BY <1>2, <1>3

(* A step of a thread is one of its own call, and of its own process.      *)
LEMMA OthersKeep ==
  ASSUME CacheInv, NEW t \in Threads, Step(t)
  PROVE  /\ \A u \in Threads \ {t} : thread'[u] = thread[u]
         /\ \A p \in Processes : p # ProcessOf[t] => memory'[p] = memory[p] /\ slow'[p] = slow[p]
<1>1. TypeOK
  BY DEF CacheInv
<1>. QED
  BY <1>1 DEF TypeOK, Step, Get, Put, Invalidate, Clear, Exists, Read, LoadCount, StoreCount, Discard, Promote, Served,
              Write, Written, WriteFails, Replace, Forget, ClearOne, ClearDone, Go, Return, Call,
              Decided

(* The history of a step. *)
LEMMA HistoryStep ==
  ASSUME CacheInv, NEW t \in Threads, Step(t)
  PROVE  HistoryTypeOK' /\ \A k \in Keys : stored[k] \subseteq stored'[k]
<1>1. TypeOK /\ HistoryTypeOK /\ ThreadOK(t) /\ ProcessOf[t] \in Processes
  BY CacheAssumption DEF CacheInv, ThreadsOK
<1>2. CASE Get(t) \/ Invalidate(t) \/ Clear(t)
  BY <1>1, <1>2 DEF Get, Invalidate, Clear, Enter, HistoryTypeOK
<1>3. CASE Put(t)
  BY <1>1, <1>3 DEF Put, Enter, HistoryTypeOK
<1>4. CASE Forget(t)
  BY <1>1, <1>4 DEF Forget, At, HistoryTypeOK, ThreadOK
<1>5. CASE LoadCount(t)
  BY <1>1, <1>5 DEF LoadCount, At, HistoryTypeOK
<1>6. CASE UNCHANGED <<calls, kills, stored, quiet, gone, raced>>
  BY <1>1, <1>6 DEF HistoryTypeOK
<1>. QED
  BY <1>2, <1>3, <1>4, <1>5, <1>6
     DEF Step, Exists, Read, StoreCount, Discard, Promote, Served, Write, Written, WriteFails, Replace,
         ClearOne, ClearDone, At

(* What a step of t makes of the memory of its process: every entry was    *)
(* there, or was put under its key, of which nobody is rid.                *)
LEMMA MemoryStep ==
  ASSUME CacheInv, NEW t \in Threads, Step(t)
  PROVE  LET p == ProcessOf[t] IN
         /\ p \in Processes /\ Sound(memory'[p])
         /\ memory' = [memory EXCEPT ![p] = memory'[p]]
         /\ \A e \in Range(memory'[p].entries) :
              \/ e \in Range(memory[p].entries)
              \/ /\ e.key \in Keys /\ e.series \in stored'[e.key] /\ \A g \in gone' : g[2] # e.key
                 /\ \A u \in quiet' : thread'[u].at # "idle" => thread'[u].key # e.key
<1> DEFINE p == ProcessOf[t]
           m == memory[p]
<1>1. /\ TypeOK /\ HistoryTypeOK /\ ThreadOK(t) /\ QuietOK /\ NobodyReturnsIt /\ p \in Processes
      /\ memory \in [Processes -> MemoryTiers] /\ Sound(m) /\ thread[t] \in CallRecords
  BY CacheAssumption, TiersSound DEF CacheInv, ThreadsOK, TypeOK
<1>2. CASE memory' = memory
  BY <1>1, <1>2
<1>3. CASE Get(t)
  <2>1. PICK k \in Keys : memory' = [memory EXCEPT ![p] = Looked(m, k)]
    BY <1>3 DEF Get
  <2>2. Sound(Looked(m, k)) /\ Range(Looked(m, k).entries) \subseteq Range(m.entries)
    BY <1>1, LookedSound
  <2>. QED
    BY <1>1, <2>1, <2>2
<1>4. CASE Put(t)
  <2>1. PICK k \in Keys, s \in Series :
          /\ memory' = [memory EXCEPT ![p] = Remembered(m, k, s)]
          /\ stored' = [stored EXCEPT ![k] = @ \cup {s}]
          /\ gone' = {g \in gone : g[2] # k}
          /\ Enter(t, "put", k)
    BY <1>4 DEF Put
  <2>2. /\ Sound(Remembered(m, k, s))
        /\ Range(Remembered(m, k, s).entries) \subseteq Range(m.entries) \cup {[key |-> k, series |-> s]}
    BY <1>1, RememberedSound
  <2>3. s \in stored'[k] /\ \A g \in gone' : g[2] # k
    BY <1>1, <2>1 DEF HistoryTypeOK
  <2>4. \A u \in quiet' : u \in Threads \ {t} /\ u \notin Touching(k)
    BY <1>1, <2>1 DEF Enter, HistoryTypeOK
  <2>5. \A u \in quiet' : thread'[u].at # "idle" => thread'[u].key # k
    BY <1>4, <2>4, OthersKeep DEF Touching
  <2>6. memory'[p] = Remembered(m, k, s) /\ memory' = [memory EXCEPT ![p] = memory'[p]]
    BY <1>1, <2>1
  <2>7. \A e \in Range(memory'[p].entries) : e \in Range(m.entries) \cup {[key |-> k, series |-> s]}
    BY <2>2, <2>6
  <2>8. \A e \in Range(memory'[p].entries) : e \in Range(m.entries) \/ (e.key = k /\ e.series = s)
    BY <2>7
  <2> HIDE DEF m
  <2>. QED
    BY <1>1, <2>2, <2>3, <2>5, <2>6, <2>8 DEF m
<1>5. CASE Promote(t)
  <2> DEFINE k == thread[t].key
             s == thread[t].series
  <2>1. /\ memory' = [memory EXCEPT ![p] = Remembered(m, k, s)]
        /\ UNCHANGED <<stored, quiet, gone>> /\ thread[t].at = "promote"
    BY <1>5 DEF Promote, At
  <2>2. k \in Keys /\ s \in stored[k] /\ s \in Series
    BY <1>1, <2>1 DEF ThreadOK, Promotes, HistoryTypeOK
  <2>3. /\ Sound(Remembered(m, k, s))
        /\ Range(Remembered(m, k, s).entries) \subseteq Range(m.entries) \cup {[key |-> k, series |-> s]}
    BY <1>1, <2>2, RememberedSound
  <2>4. t \in Touching(k) /\ \A g \in gone' : g[2] # k
    BY <1>1, <2>1 DEF Touching, NobodyReturnsIt, Promotes
  <2>5. \A u \in quiet' : u \in Threads \ {t} /\ (thread[u].at # "idle" => thread[u].key # k)
    <3>1. t \notin quiet
      BY <1>1, <2>1 DEF QuietOK
    <3>2. ASSUME NEW u \in quiet, thread[u].at # "idle", thread[u].key = k
          PROVE  FALSE
      BY <1>1, <2>4, <3>1, <3>2 DEF QuietOK
    <3>. QED
      BY <1>1, <2>1, <3>1, <3>2 DEF HistoryTypeOK
  <2> HIDE DEF k, s
  <2>6. \A u \in quiet' : thread'[u].at # "idle" => thread'[u].key # k
    BY <1>5, <2>5, OthersKeep
  <2>7. memory'[p] = Remembered(m, k, s) /\ memory' = [memory EXCEPT ![p] = memory'[p]]
    BY <1>1, <2>1
  <2>8. \A e \in Range(memory'[p].entries) : e \in Range(m.entries) \cup {[key |-> k, series |-> s]}
    BY <2>3, <2>7
  <2>9. \A e \in Range(memory'[p].entries) : e \in Range(m.entries) \/ (e.key = k /\ e.series = s)
    BY <2>8
  <2> HIDE DEF m
  <2>. QED
    BY <1>1, <2>1, <2>2, <2>3, <2>4, <2>6, <2>7, <2>9 DEF m
<1>6. CASE Invalidate(t)
  <2>1. PICK k \in Keys : memory' = [memory EXCEPT ![p] = Dropped(m, k)]
    BY <1>6 DEF Invalidate
  <2>2. Sound(Dropped(m, k)) /\ Range(Dropped(m, k).entries) \subseteq Range(m.entries)
    BY <1>1, DroppedSound
  <2>. QED
    BY <1>1, <2>1, <2>2
<1>7. CASE Clear(t)
  <2>1. memory' = [memory EXCEPT ![p] = Cleared(m)]
    BY <1>7 DEF Clear
  <2>2. Sound(Cleared(m)) /\ Range(Cleared(m).entries) = {}
    BY <1>1, ClearedSound
  <2>. QED
    BY <1>1, <2>1, <2>2
<1>. QED
  BY <1>2, <1>3, <1>4, <1>5, <1>6, <1>7
     DEF Step, Exists, Read, LoadCount, StoreCount, Discard, Served, Write, Written, WriteFails, Replace, Forget,
         ClearOne, ClearDone

LEMMA TypeStep ==
  ASSUME CacheInv, NEW t \in Threads, Step(t)
  PROVE  TypeOK' /\ BudgetHeld'
<1> DEFINE c == thread[t]
<1>t. /\ TypeOK /\ HistoryTypeOK /\ ThreadOK(t) /\ ProcessOf[t] \in Processes /\ c \in CallRecords
  BY CacheAssumption DEF CacheInv, ThreadsOK, TypeOK
<1>m. memory' \in [Processes -> MemoryTiers] /\ BudgetHeld'
  <2>1. /\ memory'[ProcessOf[t]] \in MemoryTiers
        /\ memory' = [memory EXCEPT ![ProcessOf[t]] = memory'[ProcessOf[t]]]
    BY MemoryStep DEF Sound, Counted
  <2>2. memory' \in [Processes -> MemoryTiers]
    BY <1>t, <2>1 DEF TypeOK
  <2>3. \A p \in Processes : Sound(memory'[p])
    BY TiersSound, MemoryStep, OthersKeep
  <2>. QED
    BY <2>2, <2>3 DEF BudgetHeld, Sound, Counted
<1>s. slow' \in [Processes -> Counts]
  <2>1. slow[ProcessOf[t]] \in Counts
    BY <1>t DEF TypeOK
  <2>2. CASE slow' = slow
    BY <1>t, <2>2 DEF TypeOK
  <2>3. CASE StoreCount(t)
    <3>1. c.count \in Nat /\ Counter(t) \in {"hits", "misses"}
      BY <1>t DEF CallRecords, Counter
    <3>2. [slow[ProcessOf[t]] EXCEPT ![Counter(t)] = c.count + 1] \in Counts
      BY <2>1, <3>1 DEF Counts
    <3>. QED
      BY <1>t, <2>3, <3>2 DEF StoreCount, TypeOK
  <2>. QED
    BY <2>2, <2>3
       DEF Step, Get, Put, Invalidate, Clear, Exists, Read, LoadCount, Discard, Promote, Served,
           Write, Written, WriteFails, Replace, Forget, ClearOne, ClearDone
<1>k. /\ c.at \notin {"idle", "clear"} => c.key \in Keys /\ FileOf(t) \in Files
                                          /\ TmpName(t, c.key) \in TmpNames
      /\ c.at \in {"writing", "replace"} => c.series \in Series
  BY <1>t, Names DEF ThreadOK, FileOf, HistoryTypeOK
<1>d. disk' \in [Files -> Contents]
  <2>1. NoSeries \in Contents /\ \A n \in TmpNames : tmp[n] \in Contents
    BY <1>t DEF TypeOK, Contents
  <2>2. CASE disk' = disk
    BY <1>t, <2>2 DEF TypeOK
  <2>3. CASE Discard(t) \/ Forget(t)
    BY <1>t, <2>1, <2>3 DEF Discard, Forget, Unlink, TypeOK
  <2>4. CASE Replace(t)
    BY <1>t, <1>k, <2>1, <2>4 DEF Replace, At, TypeOK
  <2>5. CASE ClearOne(t)
    BY <1>t, <2>1, <2>5 DEF ClearOne, Unlink, TypeOK
  <2>. QED
    BY <2>2, <2>3, <2>4, <2>5
       DEF Step, Get, Put, Invalidate, Clear, Exists, Read, LoadCount, StoreCount, Promote, Served, Write, Written,
           WriteFails, ClearDone
<1>p. tmp' \in [TmpNames -> Contents]
  <2>1. NoSeries \in Contents /\ Partial \in Contents /\ (c.at = "writing" => c.series \in Contents)
    BY <1>k DEF Contents
  <2>2. CASE tmp' = tmp
    BY <1>t, <2>2 DEF TypeOK
  <2>3. CASE Write(t) \/ Written(t) \/ WriteFails(t) \/ Replace(t)
    BY <1>t, <2>1, <2>3 DEF Write, Written, WriteFails, Replace, At, TypeOK
  <2>. QED
    BY <2>2, <2>3
       DEF Step, Get, Put, Invalidate, Clear, Exists, Read, LoadCount, StoreCount, Discard, Promote, Served, Forget,
           ClearOne, ClearDone
<1>c. thread' \in [Threads -> CallRecords]
  <2>1. CASE Get(t)
    <3>1. PICK k \in Keys :
            thread' = IF Holds(memory[ProcessOf[t]], k)
               THEN Call(t, "served", k,
                         memory[ProcessOf[t]].entries[Found(memory[ProcessOf[t]], k)].series, {})
               ELSE Call(t, "exists", k, NoSeries, {})
      BY <2>1 DEF Get
    <3>2. CASE Holds(memory[ProcessOf[t]], k)
      <4>1. memory[ProcessOf[t]].entries[Found(memory[ProcessOf[t]], k)].series \in Series
        <5>1. /\ memory[ProcessOf[t]] \in MemoryTiers
              /\ memory[ProcessOf[t]].entries \in Seq(Entry)
              /\ Found(memory[ProcessOf[t]], k) \in 1..Len(memory[ProcessOf[t]].entries)
          BY <1>t, <3>2, HeldEntries DEF TypeOK, MemoryTiers
        <5>. QED
          BY <5>1, BytesType DEF Entry
      <4>. QED
        BY <1>t, <3>1, <3>2, <4>1, CallTypes DEF Places
    <3>3. CASE ~Holds(memory[ProcessOf[t]], k)
      BY <1>t, <3>1, <3>3, CallTypes DEF Places
    <3>. QED
      BY <3>2, <3>3
  <2>2. CASE Put(t)
    BY <1>t, <2>2, CallTypes DEF Put, Places, TypeOK
  <2>3. CASE Invalidate(t)
    <3>1. PICK k \in Keys : thread' = Call(t, "forget", k, NoSeries, {})
      BY <2>3 DEF Invalidate
    <3>. QED
      BY <1>t, <3>1, CallTypes DEF Places
  <2>4. CASE Clear(t)
    BY <1>t, <2>4, CallTypes DEF Clear, Places
  <2>5. CASE \E s \in Series \cup {NoSeries}, next \in {"idle", "promote", "discard"} :
               thread' = Decided(t, s, next)
    BY <1>t, <2>5, DecidedCall
  <2>6. CASE ClearOne(t)
    <3>1. \A f : [c EXCEPT !.left = @ \ {f}] \in CallRecords
      BY <1>t DEF CallRecords
    <3>. QED
      BY <1>t, <2>6, <3>1 DEF ClearOne, TypeOK
  <2>7. CASE \E at \in Places : thread' = Go(t, at) \/ thread' = Return(t)
    BY <1>t, <2>7, CallTypes
  <2>8. CASE LoadCount(t) \/ StoreCount(t)
    BY <1>t, <2>8, CountedCall
  <2>. QED
    BY <2>1, <2>2, <2>3, <2>4, <2>5, <2>6, <2>7, <2>8
       DEF Step, Exists, Read, Discard, Promote, Served, Write, Written, WriteFails, Replace, Forget,
           ClearDone, Places
<1>. QED
  BY <1>m, <1>s, <1>d, <1>p, <1>c DEF TypeOK

(* The lookups a process has begun are those under way and those counted:  *)
(* a step of a thread either counts one, or has to do with none of the     *)
(* counters and changes both alike.                                        *)
LEMMA LookingStep ==
  ASSUME CacheInv, NEW t \in Threads, Step(t)
  PROVE  LET p == ProcessOf[t]
             before == memory[p].counts.misses
             after == memory'[p].counts.misses
             looked == Cardinality(Looking(p))
             looks == Cardinality(Looking(p)')
         IN
         /\ before \in Nat /\ after \in Nat /\ looked \in Nat /\ looks \in Nat
         /\ LoadCount(t) => after = before /\ looks = looked
         /\ StoreCount(t) => after = before /\ looks = looked - 1
         /\ ~LoadCount(t) /\ ~StoreCount(t) =>
              /\ slow' = slow /\ raced' = raced
              /\ thread[t].at # "counted" /\ thread'[t].at # "counted"
              /\ after + looked = before + looks
<1> DEFINE p == ProcessOf[t]
           Lookups == {"exists", "read", "count", "counted"}
<1>t. TypeOK /\ TypeOK' /\ BudgetHeld /\ p \in Processes /\ Sound(memory[p])
  BY CacheAssumption, TypeStep, TiersSound DEF CacheInv
<1>n. /\ memory[p].counts.misses \in Nat /\ memory'[p].counts.misses \in Nat
      /\ IsFiniteSet(Looking(p)) /\ IsFiniteSet(Looking(p)')
      /\ Cardinality(Looking(p)) \in Nat /\ Cardinality(Looking(p)') \in Nat
  <2>1. IsFiniteSet(Looking(p)) /\ IsFiniteSet(Looking(p)')
    BY CacheAssumption, FS_Subset DEF Looking
  <2>. QED
    BY <1>t, <2>1, FS_CardinalityType DEF TypeOK, MemoryTiers, Counts
<1>l. /\ thread'[t].at \in Lookups => Looking(p)' = Looking(p) \cup {t}
      /\ thread'[t].at \notin Lookups => Looking(p)' = Looking(p) \ {t}
      /\ t \in Looking(p) <=> thread[t].at \in Lookups
  BY OthersKeep DEF Looking
<1>c. /\ Cardinality(Looking(p) \cup {t})
           = IF t \in Looking(p) THEN Cardinality(Looking(p)) ELSE Cardinality(Looking(p)) + 1
      /\ Cardinality(Looking(p) \ {t})
           = IF t \in Looking(p) THEN Cardinality(Looking(p)) - 1 ELSE Cardinality(Looking(p))
  BY <1>t, <1>n, FS_AddElement, FS_RemoveElement
<1> DEFINE fast == memory[p].counts
           looking == thread[t].at \in Lookups
           looks == thread'[t].at \in Lookups
           before == Cardinality(Looking(p))
           after == Cardinality(Looking(p)')
           Alike == /\ slow' = slow /\ raced' = raced
                    /\ thread[t].at # "counted" /\ thread'[t].at # "counted"
                    /\ memory'[p].counts.misses + before = fast.misses + after
<1>d. /\ thread[t] \in CallRecords /\ memory[p] \in MemoryTiers /\ fast \in Counts
      /\ memory' = [memory EXCEPT ![p] = memory'[p]] /\ fast.misses \in Nat
  BY <1>t, <1>n, MemoryStep DEF TypeOK, MemoryTiers
<1>g. /\ looks /\ looking => after = before
      /\ looks /\ ~looking => after = before + 1
      /\ ~looks /\ looking => after = before - 1
      /\ ~looks /\ ~looking => after = before
      /\ before \in Nat /\ after \in Nat
  BY <1>l, <1>c, <1>n
<1>h. /\ ~looking => thread[t].at # "counted"
      /\ ~looks => thread'[t].at # "counted"
  OBVIOUS
<1> HIDE DEF p, before, after, looks, looking, fast
<1>3. LoadCount(t) => memory'[p].counts.misses = fast.misses /\ after = before
  <2> SUFFICES ASSUME LoadCount(t)
               PROVE  memory'[p].counts.misses = fast.misses /\ after = before
    OBVIOUS
  <2>1. /\ memory' = memory /\ thread[t].at = "count" /\ thread'[t].at = "counted"
    BY <1>t, CountedCall DEF LoadCount, p
  <2>. QED
    BY <1>d, <1>g, <2>1 DEF looks, looking, fast
<1>s. StoreCount(t) => memory'[p].counts.misses = fast.misses /\ after = before - 1
  <2> SUFFICES ASSUME StoreCount(t)
               PROVE  memory'[p].counts.misses = fast.misses /\ after = before - 1
    OBVIOUS
  <2>1. /\ memory' = memory /\ thread[t].at = "counted"
        /\ thread'[t].at \in {"idle", "promote", "discard"}
    BY <1>t, <1>d, CountedCall DEF StoreCount, CallRecords, p
  <2>. QED
    BY <1>d, <1>g, <2>1 DEF looks, looking, fast
<1>m. SUFFICES ASSUME ~LoadCount(t), ~StoreCount(t)
             PROVE  Alike
  BY <1>3, <1>s, <1>n DEF p, before, after, fast
<1>r. ASSUME slow' = slow, raced' = raced, ~looking, ~looks,
             memory'[p].counts.misses = fast.misses
      PROVE  Alike
  BY <1>d, <1>g, <1>h, <1>r
<1>1. CASE Get(t)
  <2>1. PICK k \in Keys :
          /\ memory' = [memory EXCEPT ![p] = Looked(@, k)]
          /\ thread' = IF Holds(memory[p], k)
               THEN Call(t, "served", k, memory[p].entries[Found(memory[p], k)].series, {})
               ELSE Call(t, "exists", k, NoSeries, {})
    BY <1>1 DEF Get, p
  <2>2. slow' = slow /\ raced' = raced /\ ~looking
    BY <1>1 DEF Get, Enter, looking
  <2>3. memory'[p] = Looked(memory[p], k)
    BY <1>t, <2>1 DEF TypeOK
  <2>4. CASE Holds(memory[p], k)
    <3>1. memory'[p].counts.misses = fast.misses
      BY <1>t, <2>3, <2>4, LookedSound DEF fast
    <3>2. ~looks
      BY <1>t, <2>1, <2>4, CallFields DEF looks
    <3>. QED
      BY <1>r, <2>2, <3>1, <3>2
  <2>5. CASE ~Holds(memory[p], k)
    <3>1. memory'[p].counts.misses = fast.misses + 1
      BY <1>t, <2>3, <2>5, LookedSound DEF fast
    <3>2. thread'[t].at = "exists"
      BY <1>t, <2>1, <2>5, CallFields
    <3>3. after = before + 1
      BY <1>g, <2>2, <3>2 DEF looks
    <3>. QED
      BY <1>d, <1>g, <1>h, <2>2, <3>1, <3>2, <3>3
  <2>. QED
    BY <2>4, <2>5
<1>2. CASE Exists(t) \/ Read(t)
  <2>1. /\ memory'[p].counts.misses = fast.misses /\ looking /\ thread[t].at # "counted"
        /\ slow' = slow /\ raced' = raced
    BY <1>2 DEF Exists, Read, At, looking, fast
  <2>2. thread'[t].at \in {"read", "count"}
    <3>1. NoSeries \in Series \cup {NoSeries}
      OBVIOUS
    <3>2. CASE thread' = Go(t, "read")
      BY <1>t, <3>2, CallFields
    <3>3. CASE \E s \in Series \cup {NoSeries}, next \in {"idle", "promote", "discard"} :
                 thread' = Decided(t, s, next)
      BY <1>t, <3>3, DecidedCall
    <3>. QED
      BY <1>2, <3>1, <3>2, <3>3 DEF Exists, Read
  <2>. QED
    BY <1>d, <1>g, <2>1, <2>2 DEF looks
<1>4. CASE Put(t)
  <2>1. PICK k \in Keys, s \in Series : memory' = [memory EXCEPT ![p] = Remembered(@, k, s)]
    BY <1>4 DEF Put, p
  <2>2. memory'[p] = Remembered(memory[p], k, s) /\ memory'[p].counts.misses = fast.misses
    BY <1>t, <2>1, RememberedSound DEF TypeOK, fast
  <2>3. slow' = slow /\ raced' = raced /\ ~looking
    BY <1>4 DEF Put, Enter, looking
  <2>4. ~looks
    BY <1>4, <1>t, <2>3, CallFields DEF Put, looks, looking
  <2>. QED
    BY <1>r, <2>2, <2>3, <2>4
<1>5. CASE Promote(t)
  <2>1. /\ memory' = [memory EXCEPT ![p] = Remembered(@, thread[t].key, thread[t].series)]
        /\ slow' = slow /\ raced' = raced /\ ~looking /\ thread' = Go(t, "served")
    BY <1>5 DEF Promote, At, p, looking
  <2>2. thread[t].key \in Keys /\ thread[t].series \in Series
    BY <1>5 DEF Promote, At, ThreadOK, ThreadsOK, Promotes, CacheInv, HistoryTypeOK
  <2>3. memory'[p] = Remembered(memory[p], thread[t].key, thread[t].series)
    BY <1>t, <2>1 DEF TypeOK
  <2>4. memory'[p].counts.misses = fast.misses
    BY <1>t, <2>2, <2>3, RememberedSound DEF fast
  <2>5. ~looks
    BY <1>t, <2>1, CallFields DEF looks
  <2>. QED
    BY <1>r, <2>1, <2>4, <2>5
<1>6. CASE Invalidate(t)
  <2>1. PICK k \in Keys : /\ memory' = [memory EXCEPT ![p] = Dropped(@, k)]
                          /\ thread' = Call(t, "forget", k, NoSeries, {})
    BY <1>6 DEF Invalidate, p
  <2>2. memory'[p] = Dropped(memory[p], k) /\ memory'[p].counts.misses = fast.misses
    BY <1>t, <2>1, DroppedSound DEF TypeOK, fast
  <2>3. slow' = slow /\ raced' = raced /\ ~looking
    BY <1>6 DEF Invalidate, Enter, looking
  <2>4. ~looks
    BY <1>t, <2>1, CallFields DEF looks
  <2>. QED
    BY <1>r, <2>2, <2>3, <2>4
<1>7. CASE Clear(t)
  <2>1. /\ memory' = [memory EXCEPT ![p] = Cleared(@)] /\ slow' = slow /\ raced' = raced /\ ~looking
        /\ \E left : thread' = Call(t, "clear", NoSeries, NoSeries, left)
    BY <1>7 DEF Clear, Enter, p, looking
  <2>2. memory'[p] = Cleared(memory[p]) /\ memory'[p].counts.misses = fast.misses
    BY <1>t, <2>1, ClearedSound DEF TypeOK, fast
  <2>3. ~looks
    BY <1>t, <2>1, CallFields DEF looks
  <2>. QED
    BY <1>r, <2>1, <2>2, <2>3
<1>8. CASE ClearOne(t)
  <2>1. memory' = memory /\ slow' = slow /\ raced' = raced /\ ~looking
    BY <1>8 DEF ClearOne, At, looking
  <2>2. thread'[t].at = thread[t].at
    BY <1>8, <1>t, <1>d DEF ClearOne, TypeOK, CallRecords
  <2>. QED
    BY <1>r, <2>1, <2>2 DEF looks, looking, fast
<1>9. CASE /\ memory' = memory /\ slow' = slow /\ raced' = raced /\ ~looking
           /\ \/ thread' = Return(t)
              \/ \E at \in {"served", "writing", "replace"} : thread' = Go(t, at)
  <2>1. ~looks
    BY <1>9, <1>t, CallFields DEF looks
  <2>. QED
    BY <1>r, <1>9, <2>1 DEF fast
<1>. QED
  <2> HIDE DEF Alike
  <2>. QED
    BY <1>m, <1>1, <1>2, <1>4, <1>5, <1>6, <1>7, <1>8, <1>9
       DEF Step, Discard, Served, Write, Written, WriteFails, Replace, Forget, ClearDone, At,
           looking

(* What a thread has read of a counter never runs ahead of what has been   *)
(* counted with it.                                                        *)
LEMMA CountsBoundedStep ==
  ASSUME CacheInv, NEW t \in Threads, Step(t)
  PROVE  CountsBounded'
<1> DEFINE p == ProcessOf[t]
           Of(u, h, m) == IF Counter(u) = "hits" THEN h ELSE m
<1>t. /\ TypeOK /\ TypeOK' /\ p \in Processes /\ slow[p] \in Counts /\ thread[t] \in CallRecords
      /\ CountsBounded
  BY CacheAssumption, TypeStep DEF CacheInv, TypeOK
<1> SUFFICES ASSUME NEW q \in Processes
             PROVE  \E h, m \in Nat :
                      /\ h + m + Cardinality(Looking(q)') = memory'[q].counts.misses
                      /\ slow'[q].hits <= h /\ slow'[q].misses <= m
                      /\ \A u \in Counting(q)' : thread'[u].count <= Of(u, h, m)'
  BY DEF CountsBounded, Counting, Looking
<1>1. PICK h \in Nat, m \in Nat :
        /\ h + m + Cardinality(Looking(q)) = memory[q].counts.misses
        /\ slow[q].hits <= h /\ slow[q].misses <= m
        /\ \A u \in Counting(q) : thread[u].count <= Of(u, h, m)
  BY <1>t DEF CountsBounded
<1>2. \A u \in Threads \ {t} : thread'[u] = thread[u] /\ Counter(u)' = Counter(u)
  BY OthersKeep DEF Counter
<1>3. \A u \in Threads \ {t} : u \in Counting(q)' <=> u \in Counting(q)
  BY <1>2 DEF Counting
<1>4. CASE q # p
  <2>1. Looking(q)' = Looking(q) /\ t \notin Counting(q)'
    BY <1>2, <1>4 DEF Looking, Counting
  <2>2. memory'[q] = memory[q] /\ slow'[q] = slow[q]
    BY <1>4, OthersKeep
  <2>3. \A u \in Counting(q)' : thread'[u].count <= Of(u, h, m)'
    BY <1>1, <1>2, <1>3, <2>1 DEF Counting
  <2>. QED
    BY <1>1, <2>1, <2>2, <2>3
<1>5. CASE q = p /\ ~LoadCount(t) /\ ~StoreCount(t)
  <2>1. /\ slow' = slow /\ t \notin Counting(q)'
        /\ memory'[q].counts.misses + Cardinality(Looking(q))
              = memory[q].counts.misses + Cardinality(Looking(q)')
        /\ memory'[q].counts.misses \in Nat /\ memory[q].counts.misses \in Nat
        /\ Cardinality(Looking(q)) \in Nat /\ Cardinality(Looking(q)') \in Nat
    BY <1>5, LookingStep DEF Counting
  <2>2. \A u \in Counting(q)' : thread'[u].count <= Of(u, h, m)'
    BY <1>1, <1>2, <1>3, <2>1 DEF Counting
  <2>3. h + m + Cardinality(Looking(q)') = memory'[q].counts.misses
    BY <1>1, <2>1
  <2>. QED
    BY <1>1, <2>1, <2>2, <2>3
<1>6. CASE q = p /\ LoadCount(t)
  <2>1. /\ slow' = slow /\ memory'[q].counts.misses = memory[q].counts.misses
        /\ Cardinality(Looking(q)') = Cardinality(Looking(q))
    BY <1>6, LookingStep DEF LoadCount
  <2>2. /\ thread'[t].count = slow[p][Counter(t)] /\ Counter(t)' = Counter(t)
        /\ Counter(t) \in {"hits", "misses"}
    BY <1>6, <1>t, CountedCall DEF Counter
  <2>3. thread'[t].count <= Of(t, h, m)'
    BY <1>1, <1>6, <2>2
  <2>4. \A u \in Counting(q)' : thread'[u].count <= Of(u, h, m)'
    BY <1>1, <1>2, <1>3, <2>3 DEF Counting
  <2>. QED
    BY <1>1, <2>1, <2>4
<1>7. CASE q = p /\ StoreCount(t)
  <2> DEFINE counts == slow[p]
             n == thread[t].count + 1
             up == Counter(t) = "hits"
             h1 == IF up THEN h + 1 ELSE h
             m1 == IF up THEN m ELSE m + 1
  <2>1. /\ slow'[p] = [counts EXCEPT ![Counter(t)] = n]
        /\ Counter(t) \in {"hits", "misses"} /\ t \in Counting(q) /\ thread[t].count \in Nat
    BY <1>t, <1>7 DEF StoreCount, At, TypeOK, Counter, Counting, CallRecords
  <2>2. /\ memory'[q].counts.misses = memory[q].counts.misses
        /\ Cardinality(Looking(q)') = Cardinality(Looking(q)) - 1
        /\ Cardinality(Looking(q)) \in Nat /\ memory[q].counts.misses \in Nat
    BY <1>7, LookingStep
  <2>3. thread'[t].at # "counted"
    BY <1>7, <1>t, CountedCall DEF CallRecords
  <2>4. h1 \in Nat /\ m1 \in Nat /\ h1 >= h /\ m1 >= m /\ h1 + m1 = h + m + 1
    OBVIOUS
  <2>5. thread[t].count <= Of(t, h, m)
    BY <1>1, <2>1
  <2>6. slow'[q].hits <= h1 /\ slow'[q].misses <= m1
    <3>1. counts \in Counts /\ counts.hits <= h /\ counts.misses <= m
      BY <1>1, <1>7, <1>t
    <3>2. CASE up
      <4>1. slow'[q].hits = n /\ slow'[q].misses = counts.misses
        BY <1>7, <2>1, <3>1, <3>2 DEF Counts
      <4>. QED
        BY <2>1, <2>5, <3>1, <3>2, <4>1
    <3>3. CASE ~up
      <4>1. slow'[q].misses = n /\ slow'[q].hits = counts.hits
        BY <1>7, <2>1, <3>1, <3>3 DEF Counts
      <4>. QED
        BY <2>1, <2>5, <3>1, <3>3, <4>1
    <3>. QED
      BY <3>2, <3>3
  <2>7. ASSUME NEW u \in Counting(q)'
        PROVE  thread'[u].count <= IF Counter(u)' = "hits" THEN h1 ELSE m1
    <3>1. u \in Threads \ {t} /\ u \in Counting(q)
      BY <1>3, <2>3, <2>7 DEF Counting
    <3>2. thread'[u].count = thread[u].count /\ Counter(u)' = Counter(u)
          /\ thread[u].count <= Of(u, h, m)
      BY <1>1, <1>2, <3>1
    <3>3. thread[u].count \in Nat
      BY <1>t, <3>1 DEF TypeOK, CallRecords
    <3>. QED
      BY <2>4, <3>2, <3>3
  <2>8. h1 + m1 + Cardinality(Looking(q)') = memory'[q].counts.misses
    BY <1>1, <2>2, <2>4
  <2>9. \A u \in Counting(q)' : thread'[u].count <= IF Counter(u)' = "hits" THEN h1 ELSE m1
    BY <2>7
  <2>10. h1 \in Nat /\ m1 \in Nat
    BY <2>4
  <2> HIDE DEF h1, m1
  <2>. QED
    BY <2>6, <2>8, <2>9, <2>10
<1>. QED
  BY <1>4, <1>5, <1>6, <1>7

(* Where no two threads have had one counter in hand, nothing is lost.     *)
LEMMA CountsExactStep ==
  ASSUME CacheInv, NEW t \in Threads, Step(t)
  PROVE  CountsExact'
<1> DEFINE p == ProcessOf[t]
<1>t. /\ TypeOK /\ TypeOK' /\ p \in Processes /\ slow[p] \in Counts /\ thread[t] \in CallRecords
      /\ CountsExact /\ HistoryTypeOK
  BY CacheAssumption, TypeStep DEF CacheInv, TypeOK
<1> SUFFICES ASSUME NEW q \in Processes, q \notin raced'
             PROVE  /\ slow'[q].hits + slow'[q].misses + Cardinality(Looking(q)')
                          = memory'[q].counts.misses
                    /\ \A u \in Counting(q)' : /\ Rivals(u)' = {}
                                                /\ thread'[u].count = slow'[q][Counter(u)']
  BY DEF CountsExact, Counting, Looking, Rivals, Counter
<1>r. q \notin raced
  BY DEF Step, Get, Put, Invalidate, Clear, Enter, Exists, Read, LoadCount, StoreCount, Discard,
         Promote, Served, Write, Written, WriteFails, Replace, Forget, ClearOne, ClearDone
<1>1. /\ slow[q].hits + slow[q].misses + Cardinality(Looking(q)) = memory[q].counts.misses
      /\ \A u \in Counting(q) : Rivals(u) = {} /\ thread[u].count = slow[q][Counter(u)]
  BY <1>t, <1>r DEF CountsExact
<1>2. \A u \in Threads \ {t} : thread'[u] = thread[u] /\ Counter(u)' = Counter(u)
  BY OthersKeep DEF Counter
<1>3. \A u \in Threads \ {t} : u \in Counting(q)' <=> u \in Counting(q)
  BY <1>2 DEF Counting
<1>4. ASSUME NEW u \in Counting(q), u # t, q # p \/ thread'[t].at # "counted"
      PROVE  Rivals(u)' = {}
  BY <1>1, <1>2, <1>4 DEF Rivals, Counting
<1>5. CASE q # p
  <2>1. Looking(q)' = Looking(q) /\ t \notin Counting(q)'
    BY <1>2, <1>5 DEF Looking, Counting
  <2>2. memory'[q] = memory[q] /\ slow'[q] = slow[q]
    BY <1>5, OthersKeep
  <2>3. \A u \in Counting(q)' : u \in Counting(q) /\ u # t /\ u \in Threads
    BY <1>3, <2>1 DEF Counting
  <2>. QED
    BY <1>1, <1>2, <1>4, <1>5, <2>1, <2>2, <2>3
<1>6. CASE q = p /\ ~LoadCount(t) /\ ~StoreCount(t)
  <2>1. /\ slow' = slow /\ thread'[t].at # "counted"
        /\ memory'[q].counts.misses + Cardinality(Looking(q))
              = memory[q].counts.misses + Cardinality(Looking(q)')
        /\ memory'[q].counts.misses \in Nat /\ memory[q].counts.misses \in Nat
        /\ Cardinality(Looking(q)) \in Nat /\ Cardinality(Looking(q)') \in Nat
    BY <1>6, LookingStep
  <2>2. \A u \in Counting(q)' : u \in Counting(q) /\ u # t /\ u \in Threads
    BY <1>3, <2>1 DEF Counting
  <2>3. slow[q].hits \in Nat /\ slow[q].misses \in Nat
    BY <1>t, <1>6 DEF Counts
  <2>4. slow'[q].hits + slow'[q].misses + Cardinality(Looking(q)') = memory'[q].counts.misses
    <3> DEFINE a == slow[q].hits
               b == slow[q].misses
               c == Cardinality(Looking(q))
               d == Cardinality(Looking(q)')
               e == memory[q].counts.misses
               f == memory'[q].counts.misses
    <3>1. /\ a \in Nat /\ b \in Nat /\ c \in Nat /\ d \in Nat /\ e \in Nat /\ f \in Nat
          /\ a + b + c = e /\ f + c = e + d
      BY <1>1, <2>1, <2>3
    <3> HIDE DEF a, b, c, d, e, f
    <3>2. a + b + d = f
      BY <3>1
    <3>. QED
      BY <2>1, <3>2 DEF a, b, d, f
  <2>. QED
    BY <1>1, <1>2, <1>4, <2>1, <2>2, <2>4
<1>7. CASE q = p /\ LoadCount(t)
  <2>1. /\ slow' = slow /\ memory'[q].counts.misses = memory[q].counts.misses
        /\ Cardinality(Looking(q)') = Cardinality(Looking(q))
    BY <1>7, LookingStep DEF LoadCount
  <2>2. /\ thread'[t].count = slow[p][Counter(t)] /\ Counter(t)' = Counter(t)
        /\ Rivals(t) = {}
    BY <1>7, <1>t, CountedCall DEF Counter, LoadCount
  <2>3. ASSUME NEW u \in Counting(q)'
        PROVE  Rivals(u)' = {} /\ thread'[u].count = slow'[q][Counter(u)']
    <3>1. CASE u = t
      <4>1. Rivals(t)' = {}
        BY <1>2, <2>2 DEF Rivals
      <4>. QED
        BY <1>7, <2>1, <2>2, <3>1, <4>1
    <3>2. CASE u # t
      <4>1. u \in Counting(q) /\ u \in Threads /\ ProcessOf[u] = p /\ thread[u].at = "counted"
        BY <1>3, <1>7, <2>3, <3>2 DEF Counting
      <4>2. Counter(u) # Counter(t)
        BY <2>2, <3>2, <4>1 DEF Rivals
      <4>3. Rivals(u)' = {}
        BY <1>1, <1>2, <2>2, <3>2, <4>1, <4>2 DEF Rivals
      <4>. QED
        BY <1>1, <1>2, <2>1, <3>2, <4>1, <4>3
    <3>. QED
      BY <3>1, <3>2
  <2>. QED
    BY <1>1, <2>1, <2>3
<1>8. CASE q = p /\ StoreCount(t)
  <2> DEFINE counts == slow[p]
             n == thread[t].count + 1
  <2>1. /\ slow'[p] = [counts EXCEPT ![Counter(t)] = n]
        /\ Counter(t) \in {"hits", "misses"} /\ t \in Counting(q)
    BY <1>t, <1>8 DEF StoreCount, At, TypeOK, Counter, Counting
  <2>2. /\ memory'[q].counts.misses = memory[q].counts.misses
        /\ Cardinality(Looking(q)') = Cardinality(Looking(q)) - 1
        /\ Cardinality(Looking(q)) \in Nat /\ memory[q].counts.misses \in Nat
    BY <1>8, LookingStep
  <2>3. thread'[t].at # "counted"
    BY <1>8, <1>t, CountedCall DEF CallRecords
  <2>4. Rivals(t) = {} /\ n = counts[Counter(t)] + 1
    BY <1>1, <1>8, <2>1
  <2>5. counts \in Counts
    BY <1>t
  <2>6. slow'[q].hits + slow'[q].misses = counts.hits + counts.misses + 1
    <3>1. CASE Counter(t) = "hits"
      BY <1>8, <2>1, <2>4, <2>5, <3>1 DEF Counts
    <3>2. CASE Counter(t) = "misses"
      BY <1>8, <2>1, <2>4, <2>5, <3>2 DEF Counts
    <3>. QED
      BY <2>1, <3>1, <3>2
  <2>7. ASSUME NEW u \in Counting(q)'
        PROVE  Rivals(u)' = {} /\ thread'[u].count = slow'[q][Counter(u)']
    <3>1. /\ u \in Threads \ {t} /\ u \in Counting(q) /\ ProcessOf[u] = p
          /\ thread[u].at = "counted" /\ Rivals(u)' = {}
      BY <1>3, <1>4, <1>8, <2>3, <2>7 DEF Counting
    <3>2. Counter(u) # Counter(t) /\ Counter(u) \in {"hits", "misses"}
      BY <2>4, <3>1 DEF Rivals, Counter
    <3>3. slow'[q][Counter(u)] = slow[q][Counter(u)]
      BY <1>8, <2>1, <2>5, <3>2 DEF Counts
    <3>. QED
      BY <1>1, <1>2, <3>1, <3>3
  <2>8. slow'[q].hits + slow'[q].misses + Cardinality(Looking(q)') = memory'[q].counts.misses
    <3>1. slow[q].hits \in Nat /\ slow[q].misses \in Nat
      BY <1>8, <2>5 DEF Counts
    <3>. QED
      BY <1>1, <1>8, <2>2, <2>6, <3>1
  <2>. QED
    BY <2>7, <2>8
<1>. QED
  BY <1>5, <1>6, <1>7, <1>8

(* No lookup is counted twice, and none is lost where none was raced for.  *)
LEMMA LookupsAreCounted ==
  ASSUME TypeOK, CountsBounded, CountsExact
  PROVE  LookupsCounted
<1> SUFFICES ASSUME NEW p \in Processes
             PROVE  LET counted == Stats(p).hits + Stats(p).misses + Cardinality(Looking(p))
                        begun   == memory[p].counts.hits + memory[p].counts.misses
                    IN counted <= begun /\ (p \notin raced => counted = begun)
  BY DEF LookupsCounted
<1>1. PICK h \in Nat, m \in Nat :
        /\ h + m + Cardinality(Looking(p)) = memory[p].counts.misses
        /\ slow[p].hits <= h /\ slow[p].misses <= m
  BY DEF CountsBounded
<1>2. p \notin raced =>
        slow[p].hits + slow[p].misses + Cardinality(Looking(p)) = memory[p].counts.misses
  BY DEF CountsExact
<1>3. /\ slow[p].hits \in Nat /\ slow[p].misses \in Nat
      /\ memory[p].counts.hits \in Nat /\ memory[p].counts.misses \in Nat
  BY DEF TypeOK, MemoryTiers, Counts
<1>4. Cardinality(Looking(p)) \in Nat
  <2>1. IsFiniteSet(Looking(p))
    BY CacheAssumption, FS_Subset DEF Looking
  <2>. QED
    BY <2>1, FS_CardinalityType
<1>5. /\ Stats(p).hits = memory[p].counts.hits + slow[p].hits
      /\ Stats(p).misses = slow[p].misses
  BY DEF Stats
<1> HIDE DEF Looking
<1>. QED
  BY <1>1, <1>2, <1>3, <1>4, <1>5

(* Where a step of t takes its call: a new one is entered, or the call     *)
(* under way goes on with the key it has.                                  *)
LEMMA CallStep ==
  ASSUME CacheInv, NEW t \in Threads, Step(t)
  PROVE  /\ \/ /\ thread[t].at = "idle"
               /\ \E call, k : /\ Enter(t, call, k) /\ (call = "invalidate" <=> Invalidate(t))
                               /\ thread'[t].at # "idle" => thread'[t].key = k
            \/ /\ thread[t].at # "idle" /\ quiet' = quiet /\ ~Invalidate(t)
               /\ thread'[t].at # "idle" => thread'[t].key = thread[t].key
         /\ thread'[t].at = "write" => Put(t)
         /\ thread'[t].at = "writing" => thread[t].at = "write"
         /\ thread'[t].at = "replace" => thread[t].at = "writing"
         /\ Promotes(t)' => Promotes(t) \/ (thread[t].at = "read" /\ disk[FileOf(t)] \in Series)
         /\ thread[t].at = "forget" => thread'[t].at = "idle"
<1>t. TypeOK /\ thread \in [Threads -> CallRecords] /\ thread[t] \in CallRecords
  BY DEF CacheInv, TypeOK
<1>p. thread'[t].at \notin {"promote", "count", "counted"} => ~Promotes(t)'
  BY DEF Promotes
<1>1. CASE Get(t)
  <2>1. PICK k \in Keys :
          /\ Enter(t, "get", k)
          /\ \/ \E s : thread' = Call(t, "served", k, s, {})
             \/ thread' = Call(t, "exists", k, NoSeries, {})
    BY <1>1 DEF Get
  <2>2. thread'[t].at \in {"served", "exists"} /\ thread'[t].key = k
    BY <1>t, <2>1, CallFields
  <2>3. thread[t].at = "idle" /\ ~Invalidate(t)
    <3>1. thread[t].at = "idle"
      BY <2>1 DEF Enter
    <3>2. ASSUME NEW l, thread' = Call(t, "forget", l, NoSeries, {}) PROVE FALSE
      BY <1>t, <2>2, <3>2, CallFields
    <3>. QED
      BY <3>1, <3>2 DEF Invalidate
  <2>. QED
    BY <1>p, <2>1, <2>2, <2>3
<1>2. CASE Put(t)
  <2>1. PICK k \in Keys, s \in Series :
          Enter(t, "put", k) /\ (thread' = Call(t, "write", k, s, {}) \/ thread' = thread)
    BY <1>2 DEF Put
  <2>2. thread[t].at = "idle"
    BY <2>1 DEF Enter
  <2>3. thread'[t].at = "idle" \/ (thread'[t].at = "write" /\ thread'[t].key = k)
    BY <1>t, <2>1, <2>2, CallFields
  <2>4. ~Invalidate(t)
    <3>1. ASSUME NEW l, thread' = Call(t, "forget", l, NoSeries, {}) PROVE FALSE
      BY <1>t, <2>3, <3>1, CallFields
    <3>. QED
      BY <3>1 DEF Invalidate
  <2>. QED
    BY <1>p, <1>2, <2>1, <2>2, <2>3, <2>4
<1>3. CASE Invalidate(t)
  <2>1. PICK k \in Keys : Enter(t, "invalidate", k) /\ thread' = Call(t, "forget", k, NoSeries, {})
    BY <1>3 DEF Invalidate
  <2>2. thread[t].at = "idle" /\ thread'[t].at = "forget" /\ thread'[t].key = k
    BY <1>t, <2>1, CallFields DEF Enter
  <2>. QED
    BY <1>p, <1>3, <2>1, <2>2
<1>4. CASE Clear(t)
  <2>1. Enter(t, "clear", NoSeries) /\ \E left : thread' = Call(t, "clear", NoSeries, NoSeries, left)
    BY <1>4 DEF Clear
  <2>2. thread[t].at = "idle" /\ thread'[t].at = "clear" /\ thread'[t].key = NoSeries
    BY <1>t, <2>1, CallFields DEF Enter
  <2>3. ~Invalidate(t)
    <3>1. ASSUME NEW l, thread' = Call(t, "forget", l, NoSeries, {}) PROVE FALSE
      BY <1>t, <2>2, <3>1, CallFields
    <3>. QED
      BY <3>1 DEF Invalidate
  <2>. QED
    BY <1>p, <2>1, <2>2, <2>3
<1>5. ASSUME thread[t].at # "idle"
      PROVE  ~Invalidate(t)
  BY <1>5 DEF Invalidate, Enter
<1>6. CASE Exists(t) /\ thread' = Decided(t, NoSeries, "idle")
  <2>1. thread[t].at = "exists" /\ quiet' = quiet
    BY <1>6 DEF Exists, At
  <2>2. thread'[t].at = "count" /\ thread'[t].key = thread[t].key /\ thread'[t].next = "idle"
    BY <1>t, <1>6, DecidedCall
  <2>. QED
    BY <1>5, <2>1, <2>2 DEF Promotes
<1>r. CASE Read(t)
  <2>1. thread[t].at = "read" /\ quiet' = quiet
    BY <1>r DEF Read, At
  <2>2. CASE disk[FileOf(t)] \in Series
    <3>1. thread' = Decided(t, disk[FileOf(t)], "promote")
      BY <1>r, <2>2 DEF Read
    <3>2. thread'[t].at = "count" /\ thread'[t].key = thread[t].key
      BY <1>t, <2>2, <3>1, DecidedCall
    <3>. QED
      BY <1>5, <2>1, <2>2, <3>2
  <2>3. CASE disk[FileOf(t)] \notin Series
    <3>1. thread' = Decided(t, NoSeries, "discard")
      BY <1>r, <2>3 DEF Read
    <3>2. /\ thread'[t].at = "count" /\ thread'[t].key = thread[t].key
          /\ thread'[t].next = "discard"
      BY <1>t, <3>1, DecidedCall
    <3>. QED
      BY <1>5, <2>1, <3>2 DEF Promotes
  <2>. QED
    BY <2>2, <2>3
<1>l. CASE LoadCount(t)
  <2>1. /\ thread[t].at = "count" /\ quiet' = quiet /\ thread'[t].at = "counted"
        /\ thread'[t].key = thread[t].key /\ thread'[t].next = thread[t].next
    BY <1>l, <1>t, CacheAssumption, CountedCall DEF LoadCount, At
  <2>. QED
    BY <1>5, <2>1 DEF Promotes
<1>s. CASE StoreCount(t)
  <2>1. /\ thread[t].at = "counted" /\ quiet' = quiet /\ thread'[t].at = thread[t].next
        /\ thread'[t].at # "idle" => thread'[t].key = thread[t].key
        /\ thread[t].next \in {"idle", "promote", "discard"}
    BY <1>s, <1>t, CacheAssumption, CountedCall DEF StoreCount, At, CallRecords
  <2>. QED
    BY <1>5, <2>1 DEF Promotes
<1>7. CASE ClearOne(t)
  <2>1. /\ thread[t].at = "clear" /\ quiet' = quiet
        /\ \E f : thread' = [thread EXCEPT ![t].left = @ \ {f}]
    BY <1>7 DEF ClearOne, At
  <2>2. thread'[t].at = "clear" /\ thread'[t].key = thread[t].key
    BY <1>t, <2>1 DEF CallRecords
  <2>. QED
    BY <1>5, <1>p, <2>1, <2>2
<1>8. CASE /\ thread[t].at # "idle" /\ quiet' = quiet
           /\ thread' = Return(t)
  <2>1. thread'[t].at = "idle"
    BY <1>t, <1>8, CallFields
  <2>. QED
    BY <1>5, <1>p, <1>8, <2>1
<1>9. ASSUME NEW at, thread[t].at # "idle", quiet' = quiet, thread' = Go(t, at),
             thread[t].at # "forget",
             at \notin {"write", "promote", "count", "counted"}, at = "writing" => thread[t].at = "write",
             at = "replace" => thread[t].at = "writing"
      PROVE  /\ thread[t].at # "idle" /\ quiet' = quiet /\ ~Invalidate(t)
             /\ thread'[t].at # "idle" => thread'[t].key = thread[t].key
             /\ thread'[t].at = "write" => Put(t)
             /\ thread'[t].at = "writing" => thread[t].at = "write"
             /\ thread'[t].at = "replace" => thread[t].at = "writing"
             /\ Promotes(t)' => Promotes(t) \/ (thread[t].at = "read" /\ disk[FileOf(t)] \in Series)
             /\ thread[t].at = "forget" => thread'[t].at = "idle"
  <2>1. thread'[t].at = at /\ thread'[t].key = thread[t].key
    BY <1>t, <1>9, CallFields
  <2>. QED
    BY <1>5, <1>p, <1>9, <2>1
<1>a. CASE Exists(t) /\ thread' = Go(t, "read")
  BY <1>9, <1>a DEF Exists, At
<1>c. CASE Promote(t)
  BY <1>9, <1>c DEF Promote, At
<1>d. CASE Write(t)
  BY <1>9, <1>d DEF Write, At
<1>e. CASE Written(t)
  BY <1>9, <1>e DEF Written, At
<1>f. \/ Get(t) \/ Put(t) \/ Invalidate(t) \/ Clear(t) \/ ClearOne(t)
      \/ Promote(t) \/ Write(t) \/ Written(t) \/ Read(t) \/ LoadCount(t) \/ StoreCount(t)
      \/ Exists(t) /\ thread' = Go(t, "read")
      \/ Exists(t) /\ thread' = Decided(t, NoSeries, "idle")
      \/ thread[t].at # "idle" /\ quiet' = quiet /\ thread' = Return(t)
  BY DEF Step, Exists, Discard, Served, WriteFails, Replace, Forget, ClearDone, At
<1>. QED
  BY <1>1, <1>2, <1>3, <1>4, <1>6, <1>7, <1>8, <1>a, <1>c, <1>d, <1>e, <1>f, <1>r, <1>l, <1>s

LEMMA EntriesTyped ==
  ASSUME TypeOK, NEW p \in Processes
  PROVE  /\ Range(memory[p].entries) \subseteq Entry
         /\ \A k : Holds(memory[p], k) <=> \E e \in Range(memory[p].entries) : e.key = k
<1>1. memory[p] \in MemoryTiers
  BY DEF TypeOK
<1>2. memory[p].entries \in Seq(Entry) /\ DOMAIN memory[p].entries = 1..Len(memory[p].entries)
  BY <1>1, LenProperties DEF MemoryTiers
<1>3. Range(memory[p].entries) \subseteq Entry
  BY <1>2 DEF Range
<1>. QED
  BY <1>1, <1>3, HeldEntries

(* Whatever either tier holds or a thread carries was put under its key.   *)
LEMMA MemoryIsStoredStep ==
  ASSUME CacheInv, NEW t \in Threads, Step(t)
  PROVE  MemoryIsStored'
<1> DEFINE From(q) == \A e \in Range(memory[q].entries) : e.series \in stored[e.key]
<1>1. TypeOK /\ HistoryTypeOK /\ ProcessOf[t] \in Processes
  BY CacheAssumption DEF CacheInv
<1>2. \A q \in Processes : From(q)
  BY DEF CacheInv, MemoryIsStored, Range
<1>3. SUFFICES \A q \in Processes : From(q)'
  BY DEF MemoryIsStored, Range
<1>4. \A q \in Processes : \A e \in Range(memory[q].entries) : e.series \in stored'[e.key]
  <2>1. \A q \in Processes : \A e \in Range(memory[q].entries) : e.key \in Keys
    BY <1>1, EntriesTyped DEF Entry
  <2>. QED
    BY <1>2, <2>1, HistoryStep
<1>5. ASSUME NEW q \in Processes, q # ProcessOf[t]
      PROVE  From(q)'
  BY <1>4, <1>5, OthersKeep
<1>6. From(ProcessOf[t])'
  BY <1>1, <1>4, MemoryStep
<1>. QED
  BY <1>5, <1>6

LEMMA DiskIsStoredStep ==
  ASSUME CacheInv, NEW t \in Threads, Step(t)
  PROVE  DiskIsStored'
<1> SUFFICES ASSUME NEW k \in Keys
             PROVE  disk'[PathFor(k)] \in stored'[k] \cup {NoSeries}
  BY DEF DiskIsStored
<1>1. /\ PathFor(k) \in Files /\ disk \in [Files -> Contents] /\ ThreadOK(t)
      /\ disk[PathFor(k)] \in stored'[k] \cup {NoSeries}
  BY HistoryStep, Names DEF CacheInv, TypeOK, ThreadsOK, DiskIsStored
<1>2. CASE disk' = disk
  BY <1>1, <1>2
<1>3. CASE \E f : Unlink(f)
  BY <1>1, <1>3 DEF Unlink
<1>4. CASE Replace(t)
  <2> DEFINE l == thread[t].key
  <2>1. /\ l \in Keys /\ tmp[TmpName(t, l)] \in stored'[l]
        /\ disk' = [disk EXCEPT ![PathFor(l)] = tmp[TmpName(t, l)]]
    BY <1>1, <1>4, HistoryStep DEF Replace, At, FileOf, ThreadOK
  <2>. QED
    BY <1>1, <2>1, Names
<1>. QED
  BY <1>2, <1>3, <1>4
     DEF Step, Get, Put, Invalidate, Clear, Exists, Read, LoadCount, StoreCount, Discard, Promote, Served, Write, Written,
         WriteFails, Forget, ClearOne, ClearDone

LEMMA ThreadsOKStep ==
  ASSUME CacheInv, NEW t \in Threads, Step(t)
  PROVE  ThreadsOK'
<1> DEFINE c == thread[t]
<1>t. /\ TypeOK /\ HistoryTypeOK /\ c \in CallRecords /\ ThreadOK(t) /\ ProcessOf[t] \in Processes
      /\ tmp \in [TmpNames -> Contents] /\ thread \in [Threads -> CallRecords]
      /\ c.at \notin {"idle", "clear"} => c.key \in Keys
  BY CacheAssumption DEF CacheInv, TypeOK, ThreadsOK, ThreadOK
<1>1. ASSUME NEW u \in Threads \ {t}
      PROVE  ThreadOK(u)'
  <2>1. thread'[u] = thread[u] /\ ThreadOK(u)
    BY OthersKeep DEF CacheInv, ThreadsOK
  <2>2. ASSUME thread[u].at = "replace"
        PROVE  tmp'[TmpName(u, thread[u].key)] = tmp[TmpName(u, thread[u].key)]
    <3>1. thread[u].key \in Keys
      BY <2>1, <2>2 DEF ThreadOK, Promotes
    <3>2. TmpName(u, thread[u].key) \in TmpNames
          /\ \A k \in Keys : TmpName(u, thread[u].key) # TmpName(t, k)
      BY <3>1, Names
    <3>3. CASE tmp' = tmp
      BY <3>3
    <3>4. CASE \E x : tmp' = [tmp EXCEPT ![TmpName(t, c.key)] = x] /\ c.key \in Keys
      BY <1>t, <3>2, <3>4
    <3>. QED
      BY <1>t, <3>3, <3>4
         DEF Step, Get, Put, Invalidate, Clear, Exists, Read, LoadCount, StoreCount, Discard, Promote, Served, Write,
             Written, WriteFails, Replace, Forget, ClearOne, ClearDone, At
  <2>. QED
    BY <2>1, <2>2, HistoryStep DEF ThreadOK, Promotes
<1>2. ThreadOK(t)'
  <2>1. CASE Get(t)
    <3>1. PICK k \in Keys :
            /\ UNCHANGED stored
            /\ thread' = IF Holds(memory[ProcessOf[t]], k)
                 THEN Call(t, "served", k,
                           memory[ProcessOf[t]].entries[Found(memory[ProcessOf[t]], k)].series, {})
                 ELSE Call(t, "exists", k, NoSeries, {})
      BY <2>1 DEF Get
    <3>2. CASE Holds(memory[ProcessOf[t]], k)
      <4> DEFINE e == memory[ProcessOf[t]].entries[Found(memory[ProcessOf[t]], k)]
      <4>1. memory[ProcessOf[t]] \in MemoryTiers
        BY <1>t DEF TypeOK
      <4>2. Found(memory[ProcessOf[t]], k) \in DOMAIN memory[ProcessOf[t]].entries /\ e.key = k
        BY <3>2, <4>1, HeldEntries, LenProperties DEF MemoryTiers
      <4>3. e.series \in stored[k]
        BY <1>t, <4>2 DEF CacheInv, MemoryIsStored
      <4> HIDE DEF e
      <4>4. thread' = Call(t, "served", k, e.series, {})
        BY <3>1, <3>2 DEF e
      <4>5. thread'[t].at = "served" /\ thread'[t].key = k /\ thread'[t].series = e.series
        BY <1>t, <4>4, CallFields
      <4>. QED
        BY <3>1, <4>3, <4>5 DEF ThreadOK, Promotes
    <3>3. CASE ~Holds(memory[ProcessOf[t]], k)
      BY <1>t, <3>1, <3>3, CallFields DEF ThreadOK, Promotes
    <3>. QED
      BY <3>2, <3>3
  <2>2. CASE Put(t)
    <3>1. PICK k \in Keys, s \in Series :
            /\ stored' = [stored EXCEPT ![k] = @ \cup {s}] /\ c.at = "idle"
            /\ thread' = Call(t, "write", k, s, {}) \/ thread' = thread
      BY <2>2 DEF Put, Enter
    <3>2. s \in stored'[k]
      BY <1>t, <3>1 DEF HistoryTypeOK
    <3>. QED
      BY <1>t, <3>1, <3>2, CallFields DEF ThreadOK, Promotes
  <2>3. CASE Invalidate(t)
    <3>1. PICK k \in Keys : thread' = Call(t, "forget", k, NoSeries, {})
      BY <2>3 DEF Invalidate
    <3>. QED
      BY <1>t, <3>1, CallFields DEF ThreadOK, Promotes
  <2>4. CASE thread'[t].at \in {"idle", "clear"}
    BY <2>4 DEF ThreadOK, Promotes
  <2>5. CASE Exists(t)
    <3>1. c.at = "exists"
      BY <2>5 DEF Exists, At
    <3>2. CASE thread' = Go(t, "read")
      BY <1>t, <3>1, <3>2, CallFields DEF ThreadOK, Promotes
    <3>3. CASE thread' = Decided(t, NoSeries, "idle")
      <4>1. /\ thread'[t].at = "count" /\ thread'[t].key = c.key /\ thread'[t].next = "idle"
        BY <1>t, <3>3, DecidedCall
      <4>. QED
        BY <1>t, <3>1, <4>1 DEF ThreadOK, Promotes
    <3>. QED
      BY <2>5, <3>2, <3>3 DEF Exists
  <2>6. CASE Read(t)
    <3>1. c.at = "read" /\ stored' = stored /\ c.key \in Keys
      BY <1>t, <2>6 DEF Read, At
    <3>2. CASE disk[FileOf(t)] \in Series
      <4>1. thread' = Decided(t, disk[FileOf(t)], "promote")
        BY <2>6, <3>2 DEF Read
      <4>2. /\ thread'[t].at = "count" /\ thread'[t].key = c.key
            /\ thread'[t].series = disk[FileOf(t)]
        BY <1>t, <3>2, <4>1, DecidedCall
      <4>3. disk[FileOf(t)] \in stored[c.key]
        BY <1>t, <3>1, <3>2, CacheAssumption DEF FileOf, CacheInv, DiskIsStored
      <4>. QED
        BY <3>1, <4>2, <4>3 DEF ThreadOK, Promotes
    <3>3. CASE disk[FileOf(t)] \notin Series
      <4>1. thread' = Decided(t, NoSeries, "discard")
        BY <2>6, <3>3 DEF Read
      <4>2. /\ thread'[t].at = "count" /\ thread'[t].key = c.key /\ thread'[t].next = "discard"
        BY <1>t, <4>1, DecidedCall
      <4>. QED
        BY <3>1, <4>2 DEF ThreadOK, Promotes
    <3>. QED
      BY <3>2, <3>3
  <2>11. CASE LoadCount(t)
    <3>1. /\ c.at = "count" /\ stored' = stored /\ thread'[t].at = "counted"
          /\ thread'[t].key = c.key /\ thread'[t].series = c.series /\ thread'[t].next = c.next
      BY <1>t, <2>11, CountedCall DEF LoadCount, At
    <3>. QED
      BY <1>t, <3>1 DEF ThreadOK, Promotes
  <2>12. CASE StoreCount(t)
    <3>1. /\ c.at = "counted" /\ stored' = stored /\ thread'[t].at = c.next
          /\ thread'[t].at # "idle" => thread'[t].key = c.key /\ thread'[t].series = c.series
          /\ c.next \in {"idle", "promote", "discard"}
      BY <1>t, <2>12, CountedCall DEF StoreCount, At, CallRecords
    <3>. QED
      BY <1>t, <3>1 DEF ThreadOK, Promotes
  <2>7. CASE Promote(t) \/ Write(t)
    <3>1. /\ c.at \in {"promote", "write"} /\ stored' = stored
          /\ \E at \in {"served", "writing"} : thread' = Go(t, at)
      BY <2>7 DEF Promote, Write, At
    <3>2. /\ thread'[t].at \in {"served", "writing"} /\ thread'[t].key = c.key
          /\ thread'[t].series = c.series
      BY <1>t, <3>1, CallFields
    <3>. QED
      BY <1>t, <3>1, <3>2 DEF ThreadOK, Promotes
  <2>8. CASE Written(t)
    <3>1. /\ c.at = "writing" /\ stored' = stored /\ thread' = Go(t, "replace")
          /\ tmp' = [tmp EXCEPT ![TmpName(t, c.key)] = c.series]
      BY <2>8 DEF Written, At
    <3>2. thread'[t].at = "replace" /\ thread'[t].key = c.key /\ thread'[t].series = c.series
      BY <1>t, <3>1, CallFields
    <3>3. TmpName(t, c.key) \in TmpNames
      BY <1>t, <3>1, Names
    <3>. QED
      BY <1>t, <3>1, <3>2, <3>3 DEF ThreadOK, Promotes
  <2>9. CASE thread' = Return(t)
    BY <1>t, <2>4, <2>9, CallFields
  <2>10. CASE Clear(t) \/ ClearOne(t)
    <3>1. CASE Clear(t)
      <4>1. \E left : thread' = Call(t, "clear", NoSeries, NoSeries, left)
        BY <3>1 DEF Clear
      <4>. QED
        BY <1>t, <2>4, <4>1, CallFields
    <3>2. CASE ClearOne(t)
      BY <1>t, <2>4, <3>2 DEF ClearOne, At, CallRecords
    <3>. QED
      BY <2>10, <3>1, <3>2
  <2>. QED
    BY <2>1, <2>2, <2>3, <2>5, <2>6, <2>7, <2>8, <2>9, <2>10, <2>11, <2>12
       DEF Step, Discard, Served, WriteFails, Replace, Forget, ClearDone
<1>. QED
  BY <1>1, <1>2 DEF ThreadsOK

LEMMA InvalidationStep ==
  ASSUME CacheInv, NEW t \in Threads, Step(t)
  PROVE  InvalidationHolds'
<1> SUFFICES ASSUME NEW g \in gone'
             PROVE  ~Holds(memory'[g[1]], g[2]) /\ disk'[PathFor(g[2])] = NoSeries
  BY DEF InvalidationHolds, Holds, Index
<1>t. /\ TypeOK /\ TypeOK' /\ HistoryTypeOK' /\ ThreadOK(t) /\ ProcessOf[t] \in Processes
      /\ g[1] \in Processes /\ g[2] \in Keys /\ PathFor(g[2]) \in Files
      /\ disk \in [Files -> Contents]
  BY CacheAssumption, TypeStep, HistoryStep, Names
     DEF CacheInv, HistoryTypeOK, ThreadsOK, TypeOK
<1>1. CASE g \in gone
  <2>1. ~Holds(memory[g[1]], g[2]) /\ disk[PathFor(g[2])] = NoSeries
    BY <1>1 DEF CacheInv, InvalidationHolds
  <2>2. ~Holds(memory'[g[1]], g[2])
    <3>1. CASE g[1] # ProcessOf[t]
      BY <1>t, <2>1, <3>1, OthersKeep
    <3>2. CASE g[1] = ProcessOf[t]
      <4>1. \A e \in Range(memory[g[1]].entries) : e.key # g[2]
        BY <1>t, <2>1, EntriesTyped
      <4>2. \A e \in Range(memory'[g[1]].entries) : e.key # g[2]
        BY <3>2, <4>1, MemoryStep
      <4>3. memory'[g[1]] \in MemoryTiers
        BY <1>t DEF TypeOK
      <4>. QED
        BY <4>2, <4>3, HeldEntries
    <3>. QED
      BY <3>1, <3>2
  <2>3. disk'[PathFor(g[2])] = NoSeries
    <3>1. CASE disk' = disk \/ \E f : Unlink(f)
      BY <1>t, <2>1, <3>1 DEF Unlink
    <3>2. CASE Replace(t)
      <4>1. thread[t].at = "replace" /\ \E s : disk' = [disk EXCEPT ![FileOf(t)] = s]
        BY <3>2 DEF Replace, At
      <4>2. thread[t].key \in Keys /\ thread[t].key # g[2]
        BY <1>t, <1>1, <4>1 DEF ThreadOK, CacheInv, NobodyReturnsIt, Touching
      <4>3. FileOf(t) # PathFor(g[2])
        BY <1>t, <4>2, Names DEF FileOf
      <4>. QED
        BY <1>t, <2>1, <4>1, <4>3
    <3>. QED
      BY <3>1, <3>2
         DEF Step, Get, Put, Invalidate, Clear, Exists, Read, LoadCount, StoreCount, Discard, Promote, Served, Write,
             Written, WriteFails, Forget, ClearOne, ClearDone
  <2>. QED
    BY <2>2, <2>3
<1>2. CASE g \notin gone
  <2>1. /\ Forget(t) /\ t \in quiet /\ g = <<ProcessOf[t], thread[t].key>>
    BY <1>2 DEF Step, Get, Put, Invalidate, Clear, Exists, Read, LoadCount, StoreCount, Discard, Promote, Served, Write,
                Written, WriteFails, Replace, Forget, ClearOne, ClearDone
  <2>2. g[1] = ProcessOf[t] /\ g[2] = thread[t].key
    BY <2>1
  <2>3. memory' = memory /\ disk' = [disk EXCEPT ![PathFor(g[2])] = NoSeries] /\ thread[t].at = "forget"
    BY <2>1, <2>2 DEF Forget, Unlink, FileOf, At
  <2>4. ~Holds(memory[g[1]], g[2])
    BY <2>1, <2>2, <2>3 DEF CacheInv, QuietOK
  <2>. QED
    BY <1>t, <2>3, <2>4
<1>. QED
  BY <1>1, <1>2

LEMMA NobodyReturnsItStep ==
  ASSUME CacheInv, NEW t \in Threads, Step(t)
  PROVE  NobodyReturnsIt'
<1> DEFINE Returning(u) == thread[u].at \in {"write", "writing", "replace"} \/ Promotes(u)
<1> SUFFICES ASSUME NEW g \in gone', NEW u \in Threads, thread'[u].at # "idle",
                    thread'[u].key = g[2], Returning(u)'
             PROVE  FALSE
  BY DEF NobodyReturnsIt, Touching, Promotes
<1>t. /\ TypeOK /\ ThreadOK(t) /\ HistoryTypeOK
  BY DEF CacheInv, ThreadsOK
<1>1. CASE g \in gone
  <2>1. /\ \A v \in Threads : thread[v].at # "idle" /\ thread[v].key = g[2]
                                => ~Returning(v)
        /\ disk[PathFor(g[2])] = NoSeries
    BY <1>1 DEF CacheInv, NobodyReturnsIt, InvalidationHolds, Touching
  <2>2. u = t
    BY <2>1, OthersKeep DEF Promotes
  <2>3. ~Put(t)
    <3>1. SUFFICES ASSUME Put(t) PROVE FALSE
      OBVIOUS
    <3>2. PICK k \in Keys, s \in Series :
            /\ gone' = {x \in gone : x[2] # k} /\ thread[t].at = "idle"
            /\ thread' = Call(t, "write", k, s, {}) \/ thread' = thread
      BY <3>1 DEF Put, Enter
    <3>3. thread'[t].key = k
      BY <1>t, <2>2, <3>2, CallFields
    <3>. QED
      BY <2>2, <3>2, <3>3
  <2>4. /\ thread[t].at # "idle" /\ thread[t].key = g[2]
        /\ Returning(t) \/ disk[FileOf(t)] \in Series
    <3>1. \/ thread[t].at \in {"write", "writing"} \/ Promotes(t)
          \/ thread[t].at = "read" /\ disk[FileOf(t)] \in Series
      BY <2>2, <2>3, CallStep
    <3>2. thread[t].at # "idle"
      BY <3>1 DEF Promotes
    <3>. QED
      BY <2>2, <3>1, <3>2, CallStep
  <2>. QED
    BY <2>1, <2>4, CacheAssumption DEF FileOf
<1>2. CASE g \notin gone
  <2>1. Forget(t) /\ t \in quiet /\ g = <<ProcessOf[t], thread[t].key>>
    BY <1>2 DEF Step, Get, Put, Invalidate, Clear, Exists, Read, LoadCount, StoreCount, Discard, Promote, Served, Write,
                Written, WriteFails, Replace, Forget, ClearOne, ClearDone
  <2>2. g[2] = thread[t].key /\ thread[t].at = "forget"
    BY <2>1 DEF Forget, At
  <2>3. Touching(thread[t].key) = {t}
    BY <2>1, <2>2 DEF CacheInv, QuietOK
  <2>4. u # t
    BY <2>2, CallStep DEF Promotes
  <2>. QED
    BY <2>2, <2>3, <2>4, OthersKeep DEF Touching
<1>. QED
  BY <1>1, <1>2

LEMMA QuietStep ==
  ASSUME CacheInv, NEW t \in Threads, Step(t)
  PROVE  QuietOK'
<1> SUFFICES ASSUME NEW u \in quiet', thread'[u].at # "idle"
             PROVE  /\ thread'[u].at = "forget"
                    /\ \A v \in Threads : thread'[v].at # "idle" /\ thread'[v].key = thread'[u].key
                                            => v = u
                    /\ ~Holds(memory'[ProcessOf[u]], thread'[u].key)
  BY HistoryStep DEF QuietOK, Touching, HistoryTypeOK, Holds, Index
<1>t. /\ TypeOK /\ TypeOK' /\ u \in Threads /\ ProcessOf[u] \in Processes
      /\ \A v \in quiet : thread[v].at # "idle" =>
           /\ thread[v].at = "forget" /\ Touching(thread[v].key) = {v}
           /\ ~Holds(memory[ProcessOf[v]], thread[v].key)
  BY CacheAssumption, TypeStep, HistoryStep
     DEF CacheInv, HistoryTypeOK, QuietOK
<1>1. CASE u # t
  <2> DEFINE k == thread[u].key
  <2>1. u \in quiet /\ thread'[u] = thread[u]
    <3>1. thread'[u] = thread[u]
      BY <1>t, <1>1, OthersKeep
    <3>2. u \in quiet
      BY <1>1, CallStep DEF Enter
    <3>. QED
      BY <3>1, <3>2
  <2>2. thread[u].at = "forget" /\ Touching(k) = {u} /\ ~Holds(memory[ProcessOf[u]], k)
    BY <1>t, <2>1
  <2>3. thread'[t].at # "idle" => thread'[t].key # k
    <3>1. CASE thread[t].at = "idle"
      <4>1. PICK call, l : Enter(t, call, l) /\ (thread'[t].at # "idle" => thread'[t].key = l)
        BY <3>1, CallStep
      <4>2. u \notin Touching(l)
        BY <1>1, <4>1 DEF Enter
      <4>3. l # k
        BY <2>2, <4>2
      <4>. QED
        BY <4>1, <4>3
    <3>2. CASE thread[t].at # "idle"
      BY <1>1, <2>2, <3>2, CallStep DEF Touching
    <3>. QED
      BY <3>1, <3>2
  <2>4. \A v \in Threads : thread'[v].at # "idle" /\ thread'[v].key = k => v = u
    BY <2>2, <2>3, OthersKeep DEF Touching
  <2>5. ~Holds(memory'[ProcessOf[u]], k)
    <3>1. CASE ProcessOf[u] # ProcessOf[t]
      BY <1>t, <2>2, <3>1, OthersKeep
    <3>2. CASE ProcessOf[u] = ProcessOf[t]
      <4>1. \A e \in Range(memory[ProcessOf[u]].entries) : e.key # k
        BY <1>t, <2>2, EntriesTyped
      <4>2. \A e \in Range(memory'[ProcessOf[u]].entries) : e.key # k
        BY <2>1, <3>2, <4>1, MemoryStep
      <4>3. memory'[ProcessOf[u]] \in MemoryTiers
        BY <1>t DEF TypeOK
      <4>. QED
        BY <4>2, <4>3, HeldEntries
    <3>. QED
      BY <3>1, <3>2
  <2>. QED
    BY <2>1, <2>2, <2>4, <2>5
<1>2. CASE u = t
  <2>1. thread[t].at = "idle"
    <3>1. ASSUME thread[t].at # "idle" PROVE FALSE
      <4>1. quiet' = quiet
        BY <3>1, CallStep
      <4>2. thread[t].at = "forget"
        BY <1>t, <1>2, <3>1, <4>1
      <4>. QED
        BY <1>2, <4>2, CallStep
    <3>. QED
      BY <3>1
  <2>2. PICK call, l : /\ Enter(t, call, l) /\ (call = "invalidate" <=> Invalidate(t))
                       /\ thread'[t].at # "idle" => thread'[t].key = l
    BY <2>1, CallStep
  <2>3. Invalidate(t) /\ Touching(l) = {}
    BY <1>2, <2>2 DEF Enter
  <2>4. PICK k \in Keys : /\ memory' = [memory EXCEPT ![ProcessOf[t]] = Dropped(@, k)]
                          /\ thread' = Call(t, "forget", k, NoSeries, {})
    BY <2>3 DEF Invalidate
  <2>5. thread'[t].at = "forget" /\ thread'[t].key = k /\ k = l
    BY <1>t, <1>2, <2>2, <2>4, CallFields
  <2>6. ~Holds(memory'[ProcessOf[t]], k)
    <3>1. memory'[ProcessOf[t]] = Dropped(memory[ProcessOf[t]], k)
      BY <1>t, <1>2, <2>4 DEF TypeOK
    <3>2. \A e \in Range(memory'[ProcessOf[t]].entries) : e.key # k
      BY <1>t, <1>2, <3>1, TiersSound, DroppedSound
    <3>3. memory'[ProcessOf[t]] \in MemoryTiers
      BY <1>t, <1>2 DEF TypeOK
    <3>. QED
      BY <3>2, <3>3, HeldEntries
  <2>7. \A v \in Threads : thread'[v].at # "idle" /\ thread'[v].key = k => v = t
    BY <2>3, <2>5, OthersKeep DEF Touching
  <2>. QED
    BY <1>2, <2>5, <2>6, <2>7
<1>. QED
  BY <1>1, <1>2

-----------------------------------------------------------------------------
(* The invariant at the start, and where a process is killed. *)

LEMMA NothingHeld ==
  /\ \A k : ~Holds(EmptyMemory, k)
  /\ DOMAIN EmptyMemory.entries = {}
<1>1. DOMAIN EmptyMemory.entries = {}
  BY EmptySound DEF Range
<1>. QED
  BY <1>1 DEF Holds, Index

LEMMA InitialCache == Init => CacheInv
<1> SUFFICES ASSUME Init PROVE CacheInv
  OBVIOUS
<1> USE CacheAssumption DEF Init
<1>1. TypeOK
  <2>1. EmptyMemory \in MemoryTiers /\ NoCounts \in Counts /\ Idle \in CallRecords
    BY EmptySound DEF Sound, Counted, NoCounts, Counts, Idle, CallRecords, Places
  <2>. QED
    BY <2>1 DEF TypeOK, Contents
<1>2. BudgetHeld
  BY EmptySound DEF BudgetHeld, Sound, Counted
<1>3. CountsBounded /\ CountsExact
  <2>1. \A p \in Processes : Looking(p) = {} /\ Counting(p) = {}
    BY DEF Looking, Counting, Idle
  <2>2. \A p \in Processes : Cardinality(Looking(p)) = 0
    BY <2>1, FS_EmptySet
  <2>3. ASSUME NEW p \in Processes
        PROVE  /\ 0 + 0 + Cardinality(Looking(p)) = memory[p].counts.misses
               /\ slow[p].hits = 0 /\ slow[p].misses = 0
    BY <2>2 DEF EmptyMemory, NoCounts
  <2>4. CountsBounded
    <3> SUFFICES ASSUME NEW p \in Processes
                 PROVE  \E h, m \in Nat :
                          /\ h + m + Cardinality(Looking(p)) = memory[p].counts.misses
                          /\ slow[p].hits <= h /\ slow[p].misses <= m
                          /\ \A t \in Counting(p) :
                               thread[t].count <= IF Counter(t) = "hits" THEN h ELSE m
      BY DEF CountsBounded
    <3>. WITNESS 0 \in Nat, 0 \in Nat
    <3>. QED
      BY <2>1, <2>3
  <2>. QED
    BY <2>1, <2>3, <2>4 DEF CountsExact
<1>4. HistoryTypeOK
  BY DEF HistoryTypeOK
<1>5. MemoryIsStored
  BY NothingHeld DEF MemoryIsStored
<1>6. DiskIsStored
  BY Names DEF DiskIsStored
<1>7. ThreadsOK
  BY DEF ThreadsOK, ThreadOK, Promotes, Idle
<1>8. InvalidationHolds /\ QuietOK /\ NobodyReturnsIt
  BY DEF InvalidationHolds, QuietOK, NobodyReturnsIt
<1>. QED
  BY <1>1, <1>2, <1>3, <1>4, <1>5, <1>6, <1>7, <1>8 DEF CacheInv

LEMMA KilledCache ==
  ASSUME CacheInv, NEW p \in Processes, Kill(p)
  PROVE  CacheInv'
<1>t. /\ TypeOK /\ BudgetHeld /\ CountsBounded /\ CountsExact /\ HistoryTypeOK /\ MemoryIsStored /\ DiskIsStored
      /\ ThreadsOK /\ InvalidationHolds /\ QuietOK /\ NobodyReturnsIt
      /\ EmptyMemory \in MemoryTiers /\ NoCounts \in Counts /\ Idle \in CallRecords
  BY EmptySound DEF CacheInv, Sound, Counted, NoCounts, Counts, Idle,
                    CallRecords, Places
<1>k. /\ UNCHANGED <<disk, tmp, calls, stored, gone>>
      /\ memory'[p] = EmptyMemory /\ slow'[p] = NoCounts
      /\ \A q \in Processes \ {p} : memory'[q] = memory[q] /\ slow'[q] = slow[q]
      /\ \A t \in Threads : ProcessOf[t] = p => thread'[t] = Idle
      /\ \A t \in Threads : ProcessOf[t] # p => thread'[t] = thread[t]
      /\ raced' = raced \ {p}
      /\ \A t : t \in quiet' <=> t \in quiet /\ ~(t \in Threads /\ ProcessOf[t] = p)
  BY <1>t DEF Kill, TypeOK
<1>1. TypeOK'
  <2>1. memory' \in [Processes -> MemoryTiers] /\ slow' \in [Processes -> Counts]
    BY <1>t DEF Kill, TypeOK
  <2>2. thread' \in [Threads -> CallRecords]
    BY <1>t DEF Kill, TypeOK
  <2>. QED
    BY <1>t, <1>k, <2>1, <2>2 DEF TypeOK
<1>2. BudgetHeld'
  <2>1. EmptyMemory.bytes = Size(EmptyMemory.entries) /\ EmptyMemory.bytes <= MaxBytes
        /\ Distinct(EmptyMemory.entries)
    BY EmptySound DEF Sound, Counted
  <2>. QED
    BY <1>t, <1>k, <2>1 DEF BudgetHeld
<1>3. CountsBounded' /\ CountsExact'
  <2>1. ASSUME NEW q \in Processes \ {p}
        PROVE  /\ memory'[q] = memory[q] /\ slow'[q] = slow[q]
               /\ Looking(q)' = Looking(q) /\ Counting(q)' = Counting(q)
               /\ \A t \in Counting(q) : /\ thread'[t] = thread[t] /\ Counter(t)' = Counter(t)
                                          /\ Rivals(t)' = Rivals(t)
    <3>1. Looking(q)' = Looking(q) /\ Counting(q)' = Counting(q)
      BY <1>k DEF Looking, Counting
    <3>2. ASSUME NEW t \in Threads, ProcessOf[t] = q
          PROVE  thread'[t] = thread[t] /\ Counter(t)' = Counter(t)
      BY <1>k, <3>2 DEF Counter
    <3>3. ASSUME NEW t \in Threads, ProcessOf[t] = q
          PROVE  Rivals(t)' = Rivals(t)
      BY <3>2, <3>3 DEF Rivals
    <3>. QED
      BY <1>k, <3>1, <3>2, <3>3 DEF Counting
  <2>2. Looking(p)' = {} /\ Counting(p)' = {}
    BY <1>k DEF Looking, Counting, Idle
  <2>3. Cardinality(Looking(p)') = 0
    BY <2>2, FS_EmptySet
  <2>4. slow'[p].hits = 0 /\ slow'[p].misses = 0 /\ memory'[p].counts.misses = 0
    BY <1>k DEF EmptyMemory, NoCounts
  <2>5. CountsBounded'
    <3> SUFFICES ASSUME NEW q \in Processes
                 PROVE  \E h, m \in Nat :
                          /\ h + m + Cardinality(Looking(q)') = memory'[q].counts.misses
                          /\ slow'[q].hits <= h /\ slow'[q].misses <= m
                          /\ \A t \in Counting(q)' :
                               thread'[t].count <= IF Counter(t)' = "hits" THEN h ELSE m
      BY DEF CountsBounded, Counting, Looking, Counter
    <3>1. CASE q = p
      <4> SUFFICES /\ 0 + 0 + Cardinality(Looking(q)') = memory'[q].counts.misses
                   /\ slow'[q].hits <= 0 /\ slow'[q].misses <= 0
                   /\ Counting(q)' = {}
        OBVIOUS
      <4>. QED
        BY <2>2, <2>3, <2>4, <3>1
    <3>2. CASE q # p
      <4>1. PICK h \in Nat, m \in Nat :
              /\ h + m + Cardinality(Looking(q)) = memory[q].counts.misses
              /\ slow[q].hits <= h /\ slow[q].misses <= m
              /\ \A t \in Counting(q) :
                   thread[t].count <= IF Counter(t) = "hits" THEN h ELSE m
        BY <1>t DEF CountsBounded
      <4>. QED
        BY <2>1, <3>2, <4>1
    <3>. QED
      BY <3>1, <3>2
  <2>6. CountsExact'
    <3> SUFFICES ASSUME NEW q \in Processes, q \notin raced'
                 PROVE  /\ slow'[q].hits + slow'[q].misses + Cardinality(Looking(q)')
                              = memory'[q].counts.misses
                        /\ \A t \in Counting(q)' : /\ Rivals(t)' = {}
                                                    /\ thread'[t].count = slow'[q][Counter(t)']
      BY DEF CountsExact, Counting, Looking, Rivals, Counter
    <3>1. CASE q = p
      BY <2>2, <2>3, <2>4, <3>1
    <3>2. CASE q # p
      <4>1. /\ slow[q].hits + slow[q].misses + Cardinality(Looking(q)) = memory[q].counts.misses
            /\ \A t \in Counting(q) : Rivals(t) = {} /\ thread[t].count = slow[q][Counter(t)]
        BY <1>t, <1>k, <3>2 DEF CountsExact
      <4>. QED
        BY <2>1, <3>2, <4>1
    <3>. QED
      BY <3>1, <3>2
  <2>. QED
    BY <2>5, <2>6
<1>4. HistoryTypeOK'
  BY <1>t, <1>k DEF HistoryTypeOK, Kill
<1>5. MemoryIsStored'
  BY <1>t, <1>k, NothingHeld DEF MemoryIsStored
<1>6. DiskIsStored'
  BY <1>t, <1>k DEF DiskIsStored
<1>7. ThreadsOK'
  <2>1. \A t \in Threads : ProcessOf[t] = p => ThreadOK(t)'
    BY <1>k DEF ThreadOK, Promotes, Idle
  <2>2. \A t \in Threads : ProcessOf[t] # p => ThreadOK(t)'
    BY <1>t, <1>k DEF ThreadsOK, ThreadOK, Promotes
  <2>. QED
    BY <2>1, <2>2 DEF ThreadsOK
<1>8. InvalidationHolds'
  BY <1>t, <1>k, NothingHeld DEF InvalidationHolds, HistoryTypeOK, Holds, Index
<1>9. QuietOK'
  <2> SUFFICES ASSUME NEW t \in quiet', thread'[t].at # "idle"
               PROVE  /\ thread'[t].at = "forget"
                      /\ \A u \in Threads : thread'[u].at # "idle" /\ thread'[u].key = thread'[t].key
                                              => u = t
                      /\ ~Holds(memory'[ProcessOf[t]], thread'[t].key)
    BY <1>4 DEF QuietOK, Touching, HistoryTypeOK, Holds, Index
  <2>1. /\ t \in quiet /\ t \in Threads /\ ProcessOf[t] \in Processes \ {p}
        /\ thread'[t] = thread[t] /\ memory'[ProcessOf[t]] = memory[ProcessOf[t]]
    BY <1>t, <1>k, CacheAssumption DEF HistoryTypeOK
  <2>2. /\ thread[t].at = "forget" /\ Touching(thread[t].key) = {t}
        /\ ~Holds(memory[ProcessOf[t]], thread[t].key)
    BY <1>t, <2>1 DEF QuietOK
  <2>3. \A u \in Threads : thread'[u].at # "idle" => thread'[u] = thread[u]
    BY <1>k DEF Idle
  <2>. QED
    BY <2>1, <2>2, <2>3 DEF Touching
<1>10. NobodyReturnsIt'
  <2>1. \A u \in Threads : thread'[u].at # "idle" => thread'[u] = thread[u]
    BY <1>k DEF Idle
  <2>. QED
    BY <1>t, <1>k, <2>1 DEF NobodyReturnsIt, Touching, Promotes
<1>. QED
  BY <1>1, <1>2, <1>3, <1>4, <1>5, <1>6, <1>7, <1>8, <1>9, <1>10 DEF CacheInv

-----------------------------------------------------------------------------
(* The inductive invariant: what the tiers and the calls under way hold,   *)
(* whatever the threads interleave and whichever processes are killed.     *)
THEOREM CacheInvariant == Spec => []CacheInv
<1>1. Init => CacheInv
  BY InitialCache
<1>2. CacheInv /\ [Next]_vars => CacheInv'
  <2> SUFFICES ASSUME CacheInv, [Next]_vars
               PROVE  CacheInv'
    OBVIOUS
  <2>1. ASSUME NEW t \in Threads, Step(t)
        PROVE  CacheInv'
    BY <2>1, TypeStep, CountsBoundedStep, CountsExactStep, HistoryStep, MemoryIsStoredStep, DiskIsStoredStep,
       ThreadsOKStep, InvalidationStep, QuietStep, NobodyReturnsItStep
       DEF CacheInv
  <2>2. ASSUME NEW p \in Processes, Kill(p)
        PROVE  CacheInv'
    BY <2>2, KilledCache
  <2>3. CASE UNCHANGED vars
    <3>1. TypeOK' /\ BudgetHeld' /\ HistoryTypeOK'
      BY <2>3 DEF vars, history, CacheInv, TypeOK, BudgetHeld, HistoryTypeOK
    <3>2. MemoryIsStored' /\ DiskIsStored' /\ ThreadsOK' /\ InvalidationHolds'
      BY <2>3 DEF vars, history, CacheInv, MemoryIsStored, DiskIsStored, ThreadsOK, ThreadOK,
                  Promotes, InvalidationHolds, Holds, Index
    <3>3. QuietOK' /\ NobodyReturnsIt'
      BY <2>3 DEF vars, history, CacheInv, QuietOK, NobodyReturnsIt, Touching, Promotes, Holds,
                  Index
    <3>4. CountsBounded'
      BY <2>3 DEF vars, history, CacheInv, CountsBounded, Looking, Counting, Counter
    <3>5. CountsExact'
      BY <2>3 DEF vars, history, CacheInv, CountsExact, Looking, Counting, Rivals, Counter
    <3>. QED
      BY <3>1, <3>2, <3>3, <3>4, <3>5 DEF CacheInv
  <2>. QED
    BY <2>1, <2>2, <2>3 DEF Next
<1>. QED
  BY <1>1, <1>2, PTL DEF Spec

(* The tiers' bookkeeping stays right: the resident bytes are those of the *)
(* entries and within the budget, no lookup is counted twice, and every    *)
(* one is counted unless two threads of the process have had one counter   *)
(* in hand at the same time (MemoryDataCache, TieredDataCache.stats).      *)
THEOREM CacheStaysConsistent == Spec => []CacheConsistent
<1>1. CacheInv => CacheConsistent
  BY LookupsAreCounted DEF CacheInv, CacheConsistent
<1>. QED
  BY <1>1, CacheInvariant, PTL

(* No reader sees a partial file, and every lookup is answered with what a *)
(* caller put under its key (write_atomic, TieredDataCache.get).           *)
THEOREM WholeFilesServed == Spec => []ServesWholeFiles
<1>1. CacheInv => ServesWholeFiles
  <2> SUFFICES ASSUME CacheInv PROVE ServesWholeFiles
    OBVIOUS
  <2>1. FilesAreWhole
    BY CacheAssumption DEF CacheInv, DiskIsStored, HistoryTypeOK, FilesAreWhole, Files
  <2>2. ServesWhatWasPut
    BY DEF CacheInv, ThreadsOK, ThreadOK, ServesWhatWasPut
  <2>. QED
    BY <2>1, <2>2 DEF ServesWholeFiles
<1>. QED
  BY <1>1, CacheInvariant, PTL

(* What is invalidated with no other call on it under way stays out of     *)
(* both tiers until it is put again (TieredDataCache.invalidate).          *)
THEOREM InvalidatedStaysOut == Spec => []InvalidationHolds
<1>1. CacheInv => InvalidationHolds
  BY DEF CacheInv
<1>. QED
  BY <1>1, CacheInvariant, PTL
=============================================================================
