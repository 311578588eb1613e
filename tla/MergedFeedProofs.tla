-------------------------- MODULE MergedFeedProofs --------------------------
(* The merged feed, for any providers, plan, streams and subscriptions:    *)
(* its clock never goes back, corporate actions are collected once, what   *)
(* orderly sources hold is all shown, and the feed is a snapshot stream.   *)
(* Then the sessions its snapshots are flagged by, for any year of either  *)
(* calendar: each is opened and closed once, and trading time is counted.  *)
EXTENDS MergedFeedProperties, Schedule, WellFoundedInduction, SequenceTheorems, FiniteSetTheorems, TLAPS

(* The least element of a set of naturals.                                 *)
LEMMA MinOfNaturals ==
  ASSUME NEW S \in SUBSET Nat, S # {}
  PROVE  Min(S) \in S /\ \A y \in S : Min(S) <= y
<1> DEFINE Less == {ss \in Nat \X Nat : ss[1] < ss[2]}
<1>1. IsWellFoundedOn(Less, Nat)
  <2>1. OpToRel(<, Nat) = Less
    BY DEF OpToRel
  <2> QED BY <2>1, NatLessThanWellFounded
<1>2. \E x \in S : \A y \in S : <<y, x>> \notin Less
  <2> HIDE DEF Less
  <2> QED BY <1>1, WFMin, Zenon
<1>3. \A x, y \in S : <<y, x>> \notin Less => x =< y
  <2> SUFFICES ASSUME NEW x \in S, NEW y \in S, ~(x =< y)
               PROVE  <<y, x>> \in Less
    OBVIOUS
  <2>1. x \in Nat /\ y \in Nat /\ y < x
    OBVIOUS
  <2> QED BY <2>1
<1>4. \E x \in S : \A y \in S : x =< y
  <2> HIDE DEF Less
  <2> QED BY <1>2, <1>3
<1> QED
  BY <1>4, Zenon DEF Min

-----------------------------------------------------------------------------
(* The three tables have a slot for each source; the heap holds, of each   *)
(* source, at most the update last taken from it.                          *)
TablesOK ==
  /\ iterators \in Seq(Seq(Updates))
  /\ sourceLast \in Seq(Nat \cup {Never})
  /\ Len(sourceLast) = Len(iterators)

HeapOK ==
  /\ \A e \in heap : /\ e.update \in Updates
                     /\ e.source \in 1..Len(iterators)
                     /\ e.update.time = sourceLast[e.source]
  /\ \A e, f \in heap : e.source = f.source => e = f

(* Nothing in the heap is of an instant already shown; while an instant is *)
(* drained nothing in it is earlier, and no subscription is under way that *)
(* would measure a new stream against the snapshot before.                 *)
ClockOK ==
  /\ lastEmitted \in Nat \cup {Never} /\ current.time = lastEmitted
  /\ \A e \in heap : lastEmitted < e.update.time
  /\ phase = "draining" => /\ joining = {}
                           /\ epoch \in Nat /\ lastEmitted < epoch
                           /\ \A e \in heap : epoch <= e.update.time

FeedInv == offer \in Offers /\ TablesOK /\ HeapOK /\ ClockOK

-----------------------------------------------------------------------------
(* A stream is a finite sequence of updates, as what a provider holds is   *)
(* finite.                                                                 *)
LEMMA StreamIsASequence ==
  ASSUME offer \in Offers, NEW p \in Providers, NEW request, NEW after,
         NEW s \in Streams(p, request, after)
  PROVE  s \in Seq(Updates)
<1> DEFINE asked == Asked(p, request, after)
           n     == Cardinality(asked)
<1>1. offer.held[p] \in SUBSET Updates /\ IsFiniteSet(offer.held[p])
  BY FeedAssumption DEF FeedAssumption
<1>2. asked \in SUBSET offer.held[p]
  BY DEF Asked
<1>3. n \in Nat
  BY <1>1, <1>2, FS_Subset, FS_CardinalityType
<1>4. s \in [1..n -> asked]
  BY DEF Streams, SetToSeqs
<1>5. s \in [1..n -> Updates]
  BY <1>1, <1>2, <1>4
<1> QED
  BY <1>3, <1>5, SeqDef

(* What dropping leaves begins after the floor, in whatever order the      *)
(* stream comes.                                                           *)
LEMMA DropUntilLeaves ==
  ASSUME NEW s \in Seq(Updates), NEW floor \in Int
  PROVE  /\ DropUntil(s, floor) \in Seq(Updates)
         /\ DropUntil(s, floor) # <<>> => Head(DropUntil(s, floor)).time > floor
<1> DEFINE late == {i \in DOMAIN s : s[i].time > floor}
<1>1. CASE late = {}
  BY <1>1 DEF DropUntil
<1>2. CASE late # {}
  <2>1. Len(s) \in Nat /\ DOMAIN s = 1..Len(s)
    BY LenProperties
  <2>2. late \in SUBSET Nat
    BY <2>1
  <2> DEFINE first == Min(late)
  <2>3. first \in late
    BY <1>2, <2>2, MinOfNaturals
  <2>4. first \in 1..Len(s) /\ s[first].time > floor
    BY <2>1, <2>3
  <2>5. DropUntil(s, floor) = SubSeq(s, first, Len(s))
    BY <1>2 DEF DropUntil
  <2> HIDE DEF first
  <2>6. \A i \in first..Len(s) : s[i] \in Updates
    BY <2>1, <2>4, ElementOfSeq
  <2>7. SubSeq(s, first, Len(s)) \in Seq(Updates)
    BY <2>1, <2>4, <2>6, SubSeqProperties
  <2>8. Head(SubSeq(s, first, Len(s))) = s[first]
    BY <2>1, <2>4, HeadTailOfSubSeq
  <2> QED
    BY <2>4, <2>5, <2>7, <2>8
<1> QED
  BY <1>1, <1>2

(* The head of a sequence of updates has a time, and the tail is another.  *)
LEMMA HeadOfUpdates ==
  ASSUME NEW s \in Seq(Updates), s # <<>>
  PROVE  /\ Head(s) \in Updates /\ Head(s).time \in Nat
         /\ Tail(s) \in Seq(Updates)
<1>1. Head(s) \in Updates /\ Tail(s) \in Seq(Updates)
  BY HeadTailProperties
<1>2. \A u \in Updates : u.time \in Nat
  BY DEF Updates
<1> QED
  BY <1>1, <1>2

(* A source opened between two snapshots keeps tables, heap and clock.     *)
LEMMA OpeningKeeps ==
  ASSUME FeedInv, NEW s, s.provider \in Providers, OpenSource(s),
         UNCHANGED <<lastEmitted, current>>
  PROVE  TablesOK' /\ HeapOK' /\ \A e \in heap' : lastEmitted' < e.update.time
<1> DEFINE n == Len(iterators)
<1> USE DEF FeedInv
<1>1. PICK yields \in Streams(s.provider, s.request, s.after) :
        LET stream == DropUntil(yields, current.time)
        IN /\ iterators' = Append(iterators, IF stream = <<>> THEN <<>> ELSE Tail(stream))
           /\ sourceLast' = sourceLast \o Primed(stream)
           /\ heap' = IF stream = <<>> THEN heap
                      ELSE heap \cup {[update |-> Head(stream), source |-> n + 1]}
  BY DEF OpenSource
<1> DEFINE stream == DropUntil(yields, current.time)
           rest   == IF stream = <<>> THEN <<>> ELSE Tail(stream)
           last   == IF stream = <<>> THEN Never ELSE Head(stream).time
<1>2. stream \in Seq(Updates) /\ (stream # <<>> => Head(stream).time > lastEmitted)
  <2>1. yields \in Seq(Updates)
    BY StreamIsASequence
  <2>2. current.time \in Int /\ current.time = lastEmitted
    BY DEF ClockOK, Never
  <2> QED
    BY <2>1, <2>2, DropUntilLeaves
<1>3. /\ rest \in Seq(Updates) /\ last \in Nat \cup {Never}
      /\ stream # <<>> => Head(stream) \in Updates /\ Head(stream).time \in Nat
  <2> HIDE DEF stream
  <2> QED
    BY <1>2, HeadOfUpdates
<1>4. /\ iterators' = Append(iterators, rest)
      /\ sourceLast' = Append(sourceLast, last)
      /\ stream = <<>> => heap' = heap
      /\ stream # <<>> => heap' = heap \cup {[update |-> Head(stream), source |-> n + 1]}
  <2>1. sourceLast \o <<last>> = Append(sourceLast, last)
    BY <1>3 DEF TablesOK
  <2> QED
    BY <1>1, <2>1 DEF Primed
<1> HIDE DEF rest, stream
<1>5. /\ iterators \in Seq(Seq(Updates)) /\ n \in Nat /\ Len(sourceLast) = n
      /\ Len(iterators') = n + 1 /\ Len(sourceLast') = n + 1
      /\ \A i \in 1..n : sourceLast'[i] = sourceLast[i]
      /\ sourceLast'[n + 1] = last
  BY <1>3, <1>4 DEF TablesOK
<1>6. TablesOK'
  BY <1>3, <1>4, <1>5 DEF TablesOK
<1>7. \A e \in heap : /\ e.update \in Updates /\ e.source \in 1..n
                      /\ e.update.time = sourceLast[e.source]
                      /\ lastEmitted < e.update.time
  BY DEF HeapOK, ClockOK
<1>8. CASE stream = <<>>
  BY <1>4, <1>5, <1>6, <1>7, <1>8 DEF HeapOK
<1>9. CASE stream # <<>>
  <2> DEFINE new == [update |-> Head(stream), source |-> n + 1]
  <2>1. /\ new.update \in Updates /\ new.source = n + 1
        /\ new.update.time = last /\ lastEmitted < new.update.time
    BY <1>2, <1>3, <1>9 DEF ClockOK
  <2>2. heap' = heap \cup {new}
    BY <1>4, <1>9
  <2> HIDE DEF new, last
  <2>3. \A e \in heap : e.source # n + 1
    BY <1>5, <1>7
  <2>4. HeapOK'
    BY <1>5, <1>7, <2>1, <2>2, <2>3 DEF HeapOK
  <2> QED
    BY <1>6, <1>7, <2>1, <2>2, <2>4
<1> QED
  BY <1>8, <1>9

(* Taking the next update of the source of an entry just popped keeps all  *)
(* of it: what a source has next is refused when it is earlier than what   *)
(* it had last, so nothing older than the instant being drained comes in.  *)
LEMMA PullKeeps ==
  ASSUME FeedInv, phase = "draining", NEW e \in heap, e.update.time = epoch,
         Pull(e.source, heap \ {e}), UNCHANGED <<epoch, lastEmitted>>
  PROVE  /\ TablesOK' /\ HeapOK' /\ \A f \in heap' : epoch' <= f.update.time
         /\ phase' \in {"draining", "failed"}
<1> DEFINE src == e.source
           it  == iterators[src]
<1> USE DEF FeedInv
<1>1. /\ iterators \in Seq(Seq(Updates)) /\ Len(iterators) \in Nat
      /\ sourceLast \in Seq(Nat \cup {Never})
      /\ Len(sourceLast) = Len(iterators)
      /\ src \in 1..Len(iterators) /\ it \in Seq(Updates)
  BY ElementOfSeq DEF TablesOK, HeapOK
<1>2. \A f \in heap \ {e} : /\ f.update \in Updates /\ f.source \in 1..Len(iterators)
                            /\ f.update.time = sourceLast[f.source]
                            /\ f.source # src /\ epoch <= f.update.time
  BY DEF HeapOK, ClockOK
<1>3. sourceLast[src] = epoch /\ epoch \in Nat
  BY DEF HeapOK, ClockOK
<1>4. CASE it = <<>>
  <2>1. heap' = heap \ {e} /\ UNCHANGED <<iterators, sourceLast, phase>>
    BY <1>4 DEF Pull
  <2> QED
    BY <1>2, <2>1 DEF TablesOK, HeapOK
<1>5. CASE it # <<>> /\ IsInOrder(src)
  <2> DEFINE next == Head(it)
             new  == [update |-> next, source |-> src]
  <2>1. next \in Updates /\ Tail(it) \in Seq(Updates) /\ next.time \in Nat
    BY <1>1, <1>5, HeadOfUpdates
  <2>2. /\ heap' = (heap \ {e}) \cup {new}
        /\ sourceLast' = [sourceLast EXCEPT ![src] = next.time]
        /\ iterators' = [iterators EXCEPT ![src] = Tail(it)]
        /\ phase' = phase
    BY <1>5 DEF Pull, Advance
  <2>3. epoch <= next.time
    BY <1>3, <1>5 DEF IsInOrder
  <2> HIDE DEF next, it
  <2>4. /\ TablesOK' /\ Len(iterators') = Len(iterators)
        /\ sourceLast'[src] = next.time
        /\ \A i \in 1..Len(iterators) : i # src => sourceLast'[i] = sourceLast[i]
    BY <1>1, <2>1, <2>2 DEF TablesOK
  <2>5. new.update = next /\ new.source = src
    OBVIOUS
  <2> HIDE DEF new, src
  <2>6. HeapOK'
    BY <1>1, <1>2, <2>1, <2>2, <2>4, <2>5 DEF HeapOK
  <2> QED
    BY <1>2, <2>2, <2>3, <2>4, <2>5, <2>6
<1>6. CASE it # <<>> /\ ~IsInOrder(src)
  <2>1. Tail(it) \in Seq(Updates)
    BY <1>1, <1>6, HeadTailProperties
  <2>2. /\ heap' = heap \ {e} /\ sourceLast' = sourceLast
        /\ iterators' = [iterators EXCEPT ![src] = Tail(it)]
        /\ phase' = "failed"
    BY <1>6 DEF Pull, Advance
  <2> HIDE DEF it
  <2>3. TablesOK' /\ Len(iterators') = Len(iterators)
    BY <1>1, <2>1, <2>2 DEF TablesOK
  <2> QED
    BY <1>2, <2>2, <2>3 DEF HeapOK
<1> QED
  BY <1>4, <1>5, <1>6

-----------------------------------------------------------------------------
LEMMA FeedInvInit == Init => FeedInv
<1> SUFFICES ASSUME Init PROVE FeedInv
  OBVIOUS
<1>1. TablesOK /\ HeapOK
  BY EmptySeq DEF Init, TablesOK, HeapOK
<1>2. offer \in Offers /\ ClockOK
  BY DEF Init, ClockOK, NoSnapshot, Never
<1> QED
  BY <1>1, <1>2 DEF FeedInv

(* A step that leaves the tables, the clock and the offer alone, and does  *)
(* not begin to drain, keeps the invariant.                                *)
LEMMA QuietStep ==
  ASSUME FeedInv, UNCHANGED <<offer, merge, epoch, current, lastEmitted>>,
         phase' = "draining" => phase = "draining" /\ joining' = {}
  PROVE  FeedInv'
BY DEF FeedInv, TablesOK, HeapOK, ClockOK, merge

LEMMA FeedInvNext == FeedInv /\ [Next]_vars => FeedInv'
<1> SUFFICES ASSUME FeedInv, [Next]_vars PROVE FeedInv'
  OBVIOUS
<1>1. CASE UNCHANGED vars
  BY <1>1, QuietStep DEF vars, FeedInv, ClockOK
<1>2. CASE PrepareSource
  <2>1. PICK r \in DOMAIN Plan, p \in Providers :
          OpenSource([provider |-> p, request |-> Plan[r], after |-> Never])
    BY <1>2 DEF PrepareSource
  <2>2. phase' # "draining" /\ UNCHANGED <<offer, lastEmitted, current>>
    BY <1>2 DEF PrepareSource
  <2>3. TablesOK' /\ HeapOK' /\ \A e \in heap' : lastEmitted' < e.update.time
    BY <2>1, <2>2, OpeningKeeps
  <2> QED
    BY <2>2, <2>3 DEF FeedInv, ClockOK
<1>3. CASE JoinSource
  <2>1. PICK key \in Instruments, p \in Providers :
          /\ <<key, p>> \in joining
          /\ OpenSource([provider |-> p, request |-> [Template(key) EXCEPT !.keys = {key}],
                         after |-> current.time])
    BY <1>3 DEF JoinSource
  <2>2. phase' # "draining" /\ UNCHANGED <<offer, lastEmitted, current>>
    BY <1>3, <2>1 DEF JoinSource, FeedInv, ClockOK
  <2>3. TablesOK' /\ HeapOK' /\ \A e \in heap' : lastEmitted' < e.update.time
    BY <2>1, <2>2, OpeningKeeps
  <2> QED
    BY <2>2, <2>3 DEF FeedInv, ClockOK
<1>4. CASE PrepareFails \/ PrepareEnds
  BY <1>4, QuietStep DEF PrepareFails, PrepareEnds, merge
<1>5. CASE Close
  <2>1. TablesOK' /\ HeapOK'
    BY <1>5, EmptySeq DEF Close, TablesOK, HeapOK
  <2>2. offer' \in Offers /\ ClockOK'
    BY <1>5 DEF Close, CurrentAfterClose, FeedInv, ClockOK, NoSnapshot, Never
  <2> QED
    BY <2>1, <2>2 DEF FeedInv
<1>6. CASE \E key \in Instruments : AddInstrument(key) \/ AddKnown(key)
  BY <1>6, QuietStep DEF AddInstrument, AddKnown, IsIdle, merge
<1>7. CASE JoinFails
  BY <1>7, QuietStep DEF JoinFails, merge
<1>8. CASE StartSnapshot
  <2> DEFINE times == {e.update.time : e \in heap}
  <2>1. times \in SUBSET Nat /\ times # {}
    BY <1>8 DEF StartSnapshot, FeedInv, HeapOK, Updates
  <2>2. epoch' \in times /\ \A t \in times : epoch' <= t
    BY <1>8, <2>1, MinOfNaturals DEF StartSnapshot
  <2>3. /\ UNCHANGED <<offer, merge, current, lastEmitted>>
        /\ joining' = {}
    BY <1>8 DEF StartSnapshot
  <2>4. epoch' \in Nat /\ lastEmitted < epoch'
    BY <2>1, <2>2 DEF FeedInv, ClockOK
  <2>5. \A e \in heap : epoch' <= e.update.time
    BY <2>2
  <2> QED
    BY <2>3, <2>4, <2>5 DEF FeedInv, TablesOK, HeapOK, ClockOK, merge
<1>9. CASE PopEntry
  <2>1. PICK e \in heap : e.update.time = epoch /\ Pull(e.source, heap \ {e})
    BY <1>9 DEF PopEntry
  <2>2. phase = "draining" /\ UNCHANGED <<joining, offer, epoch, current, lastEmitted>>
    BY <1>9 DEF PopEntry
  <2>3. TablesOK' /\ HeapOK' /\ \A f \in heap' : epoch' <= f.update.time
    BY <2>1, <2>2, PullKeeps
  <2>4. /\ lastEmitted \in Nat \cup {Never} /\ current.time = lastEmitted
        /\ joining = {} /\ epoch \in Nat /\ lastEmitted < epoch
    BY <2>2 DEF FeedInv, ClockOK
  <2>5. \A f \in heap' : f.update.time \in Nat
    BY <2>3 DEF HeapOK, Updates
  <2>6. \A f \in heap' : lastEmitted < f.update.time
    BY <2>2, <2>3, <2>4, <2>5 DEF Never
  <2> QED
    BY <2>2, <2>3, <2>4, <2>6 DEF FeedInv, ClockOK
<1>10. CASE Yield
  <2>1. /\ phase = "draining" /\ phase' = "ready"
        /\ \A e \in heap : e.update.time # epoch
        /\ lastEmitted' = epoch /\ current'.time = epoch
        /\ UNCHANGED <<offer, merge>>
    BY <1>10 DEF Yield, IsDrained
  <2>2. epoch \in Nat /\ \A e \in heap : e.update.time \in Nat /\ epoch <= e.update.time
    BY <2>1 DEF FeedInv, ClockOK, HeapOK, Updates
  <2>3. \A e \in heap : epoch < e.update.time
    BY <2>1, <2>2
  <2> QED
    BY <2>1, <2>2, <2>3 DEF FeedInv, TablesOK, HeapOK, ClockOK, merge
<1> QED
  BY <1>1, <1>2, <1>3, <1>4, <1>5, <1>6, <1>7, <1>8, <1>9, <1>10 DEF Next, Drain

THEOREM FeedInvariant == Spec => []FeedInv
BY FeedInvInit, FeedInvNext, PTL DEF Spec

(* Whatever the providers hold and in whatever order they yield it, the    *)
(* exception for a clock that does not advance cannot be raised.           *)
THEOREM ClockAdvances == Spec => []ClockNeverRefuses
<1>1. FeedInv => ClockNeverRefuses
  BY DEF FeedInv, ClockOK, ClockNeverRefuses, IsDrained
<1> QED
  BY <1>1, FeedInvariant, PTL

(* The heap holds at most the last update taken from each source, and none *)
(* of an instant the reader has been shown, late subscriptions included.   *)
THEOREM HeapStaysAhead == Spec => []HeapIsAhead
<1>1. FeedInv => HeapIsAhead
  <2> SUFFICES ASSUME FeedInv PROVE HeapIsAhead
    OBVIOUS
  <2>1. DOMAIN sourceLast = 1..Len(iterators)
    BY DEF FeedInv, TablesOK
  <2> QED
    BY <2>1 DEF FeedInv, HeapOK, ClockOK, HeapIsAhead
<1> QED
  BY <1>1, FeedInvariant, PTL

-----------------------------------------------------------------------------
(* Corporate actions: the list has no repetition, and once the sources of  *)
(* a request are open it has what their providers reported.                *)
ActionsOK ==
  /\ actions \in Seq(UNION {Reported[p] : p \in Providers})
  /\ IsInjective(actions)
  /\ \A x \in prepared : x[1] \in BarRequests => Reported[x[2]] \subseteq ToSet(actions)
  /\ phase # "closed" => prepared = PlanSources

(* The sequence of a finite set has each of its elements, once.            *)
LEMMA SequenceOfSet ==
  ASSUME NEW S, IsFiniteSet(S)
  PROVE  /\ SetToSeq(S) \in Seq(S) /\ IsInjective(SetToSeq(S))
         /\ ToSet(SetToSeq(S)) = S
<1> DEFINE n == Cardinality(S)
<1>1. n \in Nat /\ \E f \in [1..n -> S] : IsInjective(f)
  BY FS_CardinalityType DEF ExistsBijection, Bijection, Injection
<1>2. SetToSeq(S) \in [1..n -> S] /\ IsInjective(SetToSeq(S))
  BY <1>1, Zenon DEF SetToSeq
<1>3. SetToSeq(S) \in Injection(1..n, S)
  BY <1>2 DEF Injection
<1>4. Cardinality(1..n) = n
  BY <1>1, FS_Interval
<1>5. SetToSeq(S) \in Surjection(1..n, S)
  BY <1>3, <1>4, FS_Injection
<1>6. ToSet(SetToSeq(S)) = S
  BY <1>2, <1>5 DEF Surjection, ToSet
<1> QED
  BY <1>1, <1>2, <1>6, SeqDef

(* Two lists without repetition, and with nothing in common, are one.      *)
LEMMA InjectiveConcat ==
  ASSUME NEW T, NEW s \in Seq(T), NEW t \in Seq(T), IsInjective(s), IsInjective(t),
         ToSet(s) \cap ToSet(t) = {}
  PROVE  IsInjective(s \o t) /\ ToSet(s \o t) = ToSet(s) \cup ToSet(t)
<1>1. /\ s \o t \in Seq(T) /\ Len(s \o t) = Len(s) + Len(t)
      /\ Len(s) \in Nat /\ Len(t) \in Nat
      /\ DOMAIN s = 1..Len(s) /\ DOMAIN t = 1..Len(t) /\ DOMAIN (s \o t) = 1..Len(s) + Len(t)
  BY ConcatProperties, LenProperties
<1>2. \A i \in 1..Len(s) + Len(t) :
        (s \o t)[i] = IF i <= Len(s) THEN s[i] ELSE t[i - Len(s)]
  BY ConcatProperties
<1>3. ASSUME NEW a \in DOMAIN (s \o t), NEW b \in DOMAIN (s \o t), (s \o t)[a] = (s \o t)[b]
      PROVE  a = b
  <2>1. CASE a <= Len(s) /\ b <= Len(s)
    BY <1>1, <1>2, <1>3, <2>1 DEF IsInjective
  <2>2. CASE a > Len(s) /\ b > Len(s)
    <3>1. a - Len(s) \in DOMAIN t /\ b - Len(s) \in DOMAIN t
      BY <1>1, <2>2
    <3>2. t[a - Len(s)] = t[b - Len(s)]
      BY <1>1, <1>2, <1>3, <2>2
    <3>3. a - Len(s) = b - Len(s)
      BY <3>1, <3>2, Zenon DEF IsInjective
    <3> QED
      BY <1>1, <3>3
  <2>3. \A x, y \in DOMAIN (s \o t) : x <= Len(s) /\ y > Len(s) => (s \o t)[x] # (s \o t)[y]
    <3> SUFFICES ASSUME NEW x \in DOMAIN (s \o t), NEW y \in DOMAIN (s \o t),
                        x <= Len(s), y > Len(s)
                 PROVE  (s \o t)[x] # (s \o t)[y]
      OBVIOUS
    <3>1. x \in DOMAIN s /\ y - Len(s) \in DOMAIN t
      BY <1>1
    <3>2. (s \o t)[x] = s[x] /\ (s \o t)[y] = t[y - Len(s)]
      BY <1>1, <1>2
    <3>3. s[x] \in ToSet(s) /\ t[y - Len(s)] \in ToSet(t)
      BY <3>1 DEF ToSet
    <3> QED
      BY <3>2, <3>3
  <2> QED
    BY <1>1, <1>3, <2>1, <2>2, <2>3
<1>4. ASSUME NEW i \in DOMAIN t
      PROVE  t[i] \in ToSet(s \o t)
  <2>1. i + Len(s) \in DOMAIN (s \o t) /\ ~(i + Len(s) <= Len(s)) /\ i + Len(s) - Len(s) = i
    BY <1>1
  <2>2. (s \o t)[i + Len(s)] = t[i]
    BY <1>1, <1>2, <2>1
  <2> QED
    BY <2>1, <2>2 DEF ToSet
<1>5. ASSUME NEW i \in DOMAIN s
      PROVE  s[i] \in ToSet(s \o t)
  BY <1>1, <1>2 DEF ToSet
<1>6. ASSUME NEW i \in DOMAIN (s \o t)
      PROVE  (s \o t)[i] \in ToSet(s) \cup ToSet(t)
  <2>1. CASE i <= Len(s)
    BY <1>1, <1>2, <2>1 DEF ToSet
  <2>2. CASE ~(i <= Len(s))
    <3>1. i - Len(s) \in DOMAIN t /\ (s \o t)[i] = t[i - Len(s)]
      BY <1>1, <1>2, <2>2
    <3> QED
      BY <3>1 DEF ToSet
  <2> QED
    BY <2>1, <2>2
<1>7. ToSet(s \o t) = ToSet(s) \cup ToSet(t)
  BY <1>4, <1>5, <1>6 DEF ToSet
<1> QED
  BY <1>3, <1>7 DEF IsInjective

(* Collecting a report keeps the list without repetition, and complete.    *)
LEMMA CollectedOnce ==
  ASSUME NEW r \in DOMAIN Plan, NEW p \in Providers,
         actions \in Seq(UNION {Reported[q] : q \in Providers}), IsInjective(actions)
  PROVE  /\ Collected(r, p) \in Seq(UNION {Reported[q] : q \in Providers})
         /\ IsInjective(Collected(r, p))
         /\ ToSet(actions) \subseteq ToSet(Collected(r, p))
         /\ r \in BarRequests => Reported[p] \subseteq ToSet(Collected(r, p))
<1> DEFINE all == UNION {Reported[q] : q \in Providers}
           new == IF Plan[r].kind = "chain" THEN {} ELSE Reported[p] \ ToSet(actions)
           s   == SetToSeq(new)
<1>1. IsFiniteSet(new)
  BY FeedAssumption, FS_EmptySet, FS_Subset DEF FeedAssumption
<1>2. new \subseteq all /\ new \cap ToSet(actions) = {}
  OBVIOUS
<1>3. r \in BarRequests => Reported[p] \subseteq new \cup ToSet(actions)
  BY DEF BarRequests
<1> HIDE DEF new
<1>4. s \in Seq(new) /\ IsInjective(s) /\ ToSet(s) = new
  BY <1>1, SequenceOfSet
<1> HIDE DEF s, all
<1>5. s \in Seq(all)
  BY <1>2, <1>4, SeqMonotonic
<1>6. /\ actions \o s \in Seq(all) /\ IsInjective(actions \o s)
      /\ ToSet(actions \o s) = ToSet(actions) \cup new
  BY <1>2, <1>4, <1>5, InjectiveConcat, ConcatProperties DEF all
<1>7. Collected(r, p) = actions \o s
  BY DEF Collected, s, new
<1> QED
  BY <1>3, <1>6, <1>7 DEF all

LEMMA ActionsInit == Init => ActionsOK
<1> SUFFICES ASSUME Init PROVE ActionsOK
  OBVIOUS
<1>1. actions = <<>> /\ prepared = {} /\ phase = "closed"
  BY DEF Init
<1>2. actions \in Seq(UNION {Reported[p] : p \in Providers}) /\ IsInjective(actions)
  BY <1>1 DEF IsInjective
<1> QED
  BY <1>1, <1>2 DEF ActionsOK

LEMMA ActionsNext == ActionsOK /\ [Next]_vars => ActionsOK'
<1> SUFFICES ASSUME ActionsOK, [Next]_vars PROVE ActionsOK'
  OBVIOUS
<1>1. CASE PrepareSource
  <2>1. PICK r \in DOMAIN Plan, p \in Providers :
          actions' = Collected(r, p) /\ prepared' = prepared \cup {<<r, p>>}
    BY <1>1 DEF PrepareSource, Registered
  <2>2. phase' = "closed"
    BY <1>1 DEF PrepareSource
  <2>3. /\ actions' \in Seq(UNION {Reported[q] : q \in Providers})
        /\ IsInjective(actions') /\ ToSet(actions) \subseteq ToSet(actions')
        /\ r \in BarRequests => Reported[p] \subseteq ToSet(actions')
    BY <2>1, CollectedOnce DEF ActionsOK
  <2>4. \A x \in prepared' : x[1] \in BarRequests => Reported[x[2]] \subseteq ToSet(actions')
    BY <2>1, <2>3 DEF ActionsOK
  <2> QED
    BY <2>2, <2>3, <2>4 DEF ActionsOK, BarRequests
<1>2. CASE PrepareFails
  <2>1. prepared' = {} /\ phase' = "closed"
    BY <1>2 DEF PrepareFails
  <2>2. PICK r \in DOMAIN Plan, p \in Providers :
          actions' = Collected(r, p) \/ actions' = actions
    BY <1>2 DEF PrepareFails, Registered
  <2>3. actions' \in Seq(UNION {Reported[q] : q \in Providers}) /\ IsInjective(actions')
    BY <2>2, CollectedOnce DEF ActionsOK
  <2> QED
    BY <2>1, <2>3 DEF ActionsOK
<1>3. CASE PrepareEnds
  BY <1>3 DEF PrepareEnds, ActionsOK, BarRequests, PlanSources, Capable
<1>4. CASE Close
  <2>1. actions' = <<>> /\ prepared' = {} /\ phase' = "closed"
    BY <1>4 DEF Close
  <2>2. actions' \in Seq(UNION {Reported[p] : p \in Providers}) /\ IsInjective(actions')
    BY <2>1 DEF IsInjective
  <2> QED
    BY <2>1, <2>2 DEF ActionsOK
<1>5. CASE UNCHANGED <<actions, prepared>> /\ (phase' # "closed" => phase # "closed")
  BY <1>5 DEF ActionsOK, BarRequests, PlanSources, Capable
<1>6. \/ PrepareSource \/ PrepareFails \/ PrepareEnds \/ Close
      \/ UNCHANGED <<actions, prepared>> /\ (phase' # "closed" => phase # "closed")
  BY DEF Next, vars, Drain, PopEntry, Yield, IsDrained, StartSnapshot, JoinFails, JoinSource,
         AddInstrument, AddKnown, Pull
<1> QED
  BY <1>1, <1>2, <1>3, <1>4, <1>5, <1>6

(* Duplicate reports, a preparation that is tried again and a feed that is *)
(* read again never make an action apply twice, whatever is reported; and  *)
(* a prepared feed has every action of its plan (_collect_actions, close). *)
THEOREM ActionsApplyOnce == Spec => []ActionsOnce
<1>1. ActionsOK => ActionsOnce
  BY DEF ActionsOK, ActionsOnce
<1> QED
  BY <1>1, ActionsInit, ActionsNext, PTL DEF Spec

-----------------------------------------------------------------------------
(* What the stream of snapshots rests on.                                  *)
Source == [provider : Providers, request : Requests, after : Nat \cup {Never}]

(* A source has a slot in each table; what has been drained is of one      *)
(* instant, and an instant is drained only when there is something of it.  *)
SourcesOK ==
  /\ sources \in Seq(Source) /\ Len(sources) = Len(iterators)
  /\ heap \subseteq Entries /\ bars \subseteq Entries
  /\ \A b \in bars : b.update.time = epoch
  /\ phase = "draining" => bars # {} \/ \E e \in heap : e.update.time = epoch
  /\ phase = "closed" => current = NoSnapshot
  /\ \A e \in current.entries : e.update.time = current.time

(* A source is opened after that of every provider before its own that can *)
(* serve the request, so where two sources want an update, the provider    *)
(* listed first has one that was opened before the other's: in prepare, in *)
(* a preparation that was tried again, and in a subscription.              *)
CapableOf(s) == Capable(s.request.kind, s.request.class)
Opened(s)    == \E k \in DOMAIN sources : sources[k] = s
Joins(key, p) ==
  [provider |-> p, request |-> [Template(key) EXCEPT !.keys = {key}], after |-> current.time]

Fits(s) ==
  /\ s.provider \in CapableOf(s)
  /\ s.request.kind = "bar" =>
       \A key \in s.request.keys : BarRequests # {} /\ s.request.class = Template(key).class
IsBefore(i, s, opened) == \E k \in DOMAIN opened : k < i /\ opened[k] = s

RanksOK ==
  \A i \in DOMAIN sources :
    /\ Fits(sources[i])
    /\ \A p \in CapableOf(sources[i]) : p < sources[i].provider =>
         IsBefore(i, [sources[i] EXCEPT !.provider = p], sources)

PreparingOK ==
  /\ prepared \subseteq PlanSources
  /\ \A x \in prepared :
       Opened([provider |-> x[2], request |-> Plan[x[1]], after |-> Never])

JoiningOK ==
  /\ \A x, y \in joining : x[1] = y[1]
  /\ \A x \in joining :
       /\ x \in Instruments \X Providers /\ BarRequests # {}
       /\ x[2] \in Capable("bar", Template(x[1]).class)
       /\ \A p \in Capable("bar", Template(x[1]).class) :
            <<x[1], p>> \in joining \/ Opened(Joins(x[1], p))

RoutedOK == RanksOK /\ PreparingOK /\ JoiningOK

(* A source that keeps its order has all it is to show still ahead of it,  *)
(* in order, except what the instant being drained has taken from it.      *)
Held(i, u) ==
  u \in offer.held[sources[i].provider] /\ Wants(sources[i], u) /\ sources[i].after < u.time
Waiting(i, u) == [update |-> u, source |-> i] \in heap \/ u \in ToSet(iterators[i])
Drained(u) == phase = "draining" /\ \E b \in bars : b.update = u

SourceOK(i) ==
  /\ \A u \in ToSet(iterators[i]) : Held(i, u)
  /\ \A m, n \in DOMAIN iterators[i] : m < n => YieldsBefore(iterators[i][m], iterators[i][n])
  /\ \A e \in heap : e.source = i =>
       Held(i, e.update) /\ \A u \in ToSet(iterators[i]) : YieldsBefore(e.update, u)
  /\ iterators[i] # <<>> => \E e \in heap : e.source = i
  /\ \A u \in offer.held[sources[i].provider] :
       Wants(sources[i], u) /\ lastEmitted < u.time => Waiting(i, u) \/ Drained(u)

StreamsOK == IsOrderly => phase # "failed" /\ \A i \in DOMAIN sources : SourceOK(i)

(* No source of a provider listed before holds what the entry shows. *)
Unbeaten(e) ==
  /\ e.source \in DOMAIN sources
  /\ \A s \in ToSet(sources) :
       s.provider < sources[e.source].provider /\ s.after < e.update.time /\ Wants(s, e.update) =>
         e.update \notin offer.held[s.provider]

WinnersOK == offer.order = "keyed" => \A e \in current.entries \cup Draining : Unbeaten(e)

StreamInv == SourcesOK /\ RoutedOK /\ StreamsOK /\ WinnersOK

-----------------------------------------------------------------------------
(* A stream has each update that was asked for, in the order it promises.  *)
LEMMA StreamHasAll ==
  ASSUME offer \in Offers, NEW p \in Providers, NEW request, NEW after,
         NEW s \in Streams(p, request, after)
  PROVE  /\ ToSet(s) = Asked(p, request, after)
         /\ \A i, j \in DOMAIN s : i < j => YieldsBefore(s[i], s[j])
<1> DEFINE asked == Asked(p, request, after)
           n     == Cardinality(asked)
<1>1. IsFiniteSet(asked)
  BY FeedAssumption, FS_Subset DEF FeedAssumption, Asked
<1>2. n \in Nat /\ Cardinality(1..n) = n
  BY <1>1, FS_CardinalityType, FS_Interval
<1>3. s \in [1..n -> asked] /\ \A i, j \in 1..n : i # j => s[i] # s[j]
  BY DEF Streams, SetToSeqs
<1>4. s \in Injection(1..n, asked)
  BY <1>3 DEF Injection, IsInjective
<1> HIDE DEF asked
<1>5. s \in Surjection(1..n, asked)
  BY <1>1, <1>2, <1>4, FS_Injection DEF n
<1>6. ToSet(s) = asked
  BY <1>3, <1>5 DEF Surjection, ToSet
<1> QED
  BY <1>6 DEF Streams, asked

(* Dropping takes a prefix, and none of what is later than the floor.      *)
LEMMA DropUntilShifts ==
  ASSUME NEW s \in Seq(Updates), NEW floor \in Int
  PROVE  \E k \in Nat :
           /\ \A i \in DOMAIN DropUntil(s, floor) :
                k + i \in DOMAIN s /\ DropUntil(s, floor)[i] = s[k + i]
           /\ \A j \in DOMAIN s : s[j].time > floor =>
                \E i \in DOMAIN DropUntil(s, floor) : j = k + i
<1> DEFINE late == {i \in DOMAIN s : s[i].time > floor}
<1>1. CASE late = {}
  <2>1. DropUntil(s, floor) = <<>>
    BY <1>1 DEF DropUntil
  <2> WITNESS 0 \in Nat
  <2> QED
    BY <1>1, <2>1
<1>2. CASE late # {}
  <2>1. Len(s) \in Nat /\ DOMAIN s = 1..Len(s)
    BY LenProperties
  <2>2. late \in SUBSET Nat
    BY <2>1
  <2> DEFINE first == Min(late)
  <2>3. first \in late /\ \A j \in late : first <= j
    BY <1>2, <2>2, MinOfNaturals
  <2>4. DropUntil(s, floor) = SubSeq(s, first, Len(s))
    BY <1>2 DEF DropUntil
  <2>5. first \in 1..Len(s) /\ \A j \in DOMAIN s : s[j].time > floor => first <= j
    BY <2>1, <2>3
  <2> HIDE DEF first
  <2> DEFINE d == SubSeq(s, first, Len(s))
  <2>6. d = [i \in 1..(Len(s) - first + 1) |-> s[first + i - 1]]
    BY <2>1, <2>5
  <2> DEFINE k == first - 1
  <2>7. k \in Nat
    BY <2>1, <2>5
  <2>8. \A i \in DOMAIN d : k + i \in DOMAIN s /\ d[i] = s[k + i]
    <3> SUFFICES ASSUME NEW i \in 1..(Len(s) - first + 1)
                 PROVE  k + i \in DOMAIN s /\ d[i] = s[k + i]
      BY <2>6
    <3>1. first + i - 1 = k + i /\ k + i \in DOMAIN s
      BY <2>1, <2>5
    <3> QED
      BY <2>6, <3>1
  <2>9. \A j \in DOMAIN s : s[j].time > floor => \E i \in DOMAIN d : j = k + i
    <3> SUFFICES ASSUME NEW j \in DOMAIN s, s[j].time > floor
                 PROVE  \E i \in DOMAIN d : j = k + i
      OBVIOUS
    <3>1. first <= j
      BY <2>5
    <3>2. j - k \in 1..(Len(s) - first + 1) /\ j = k + (j - k)
      BY <2>1, <2>5, <3>1
    <3> QED
      BY <2>6, <3>2
  <2> QED
    BY <2>4, <2>7, <2>8, <2>9
<1> QED
  BY <1>1, <1>2

(* A stream that keeps its order is in the order of time.                  *)
LEMMA OrderIsOfTime ==
  ASSUME offer \in Offers, NEW u \in Updates, NEW v \in Updates, YieldsBefore(u, v)
  PROVE  /\ u.time \in Nat /\ v.time \in Nat
         /\ IsOrderly => u.time <= v.time
         /\ offer.order = "keyed" /\ u.time = v.time => u.key <= v.key
<1>1. u.time \in Nat /\ v.time \in Nat
  BY DEF Updates
<1>2. offer.order \in {"keyed", "sorted", "arbitrary"}
  BY FeedAssumption DEF FeedAssumption
<1>3. CASE offer.order = "arbitrary"
  BY <1>1, <1>3 DEF IsOrderly
<1>4. CASE offer.order = "sorted"
  BY <1>1, <1>4 DEF YieldsBefore
<1>5. CASE offer.order = "keyed"
  BY <1>1, <1>5 DEF YieldsBefore
<1> QED
  BY <1>2, <1>3, <1>4, <1>5

(* So what is left is a stream in the same order, has all that is later    *)
(* than the floor, and, when the stream is in the order of time, no more.  *)
LEMMA DropUntilKeepsOrder ==
  ASSUME offer \in Offers, NEW s \in Seq(Updates), NEW floor \in Int,
         \A i, j \in DOMAIN s : i < j => YieldsBefore(s[i], s[j])
  PROVE  LET d == DropUntil(s, floor) IN
         /\ ToSet(d) \subseteq ToSet(s)
         /\ \A u \in ToSet(s) : u.time > floor => u \in ToSet(d)
         /\ \A i, j \in DOMAIN d : i < j => YieldsBefore(d[i], d[j])
         /\ IsOrderly => \A u \in ToSet(d) : u.time > floor
<1> DEFINE d == DropUntil(s, floor)
<1>1. PICK k \in Nat :
        /\ \A i \in DOMAIN d : k + i \in DOMAIN s /\ d[i] = s[k + i]
        /\ \A j \in DOMAIN s : s[j].time > floor => \E i \in DOMAIN d : j = k + i
  BY DropUntilShifts
<1>2. d \in Seq(Updates) /\ (d # <<>> => Head(d).time > floor)
  BY DropUntilLeaves
<1> HIDE DEF d
<1>3. Len(d) \in Nat /\ DOMAIN d = 1..Len(d) /\ (d # <<>> => Head(d) = d[1])
  BY <1>2, LenProperties, HeadTailProperties
<1>4. ToSet(d) \subseteq ToSet(s)
  BY <1>1 DEF ToSet
<1>5. \A u \in ToSet(s) : u.time > floor => u \in ToSet(d)
  BY <1>1 DEF ToSet
<1>6. \A i, j \in DOMAIN d : i < j => YieldsBefore(d[i], d[j])
  <2> SUFFICES ASSUME NEW i \in DOMAIN d, NEW j \in DOMAIN d, i < j
               PROVE  YieldsBefore(d[i], d[j])
    OBVIOUS
  <2>1. k + i < k + j
    BY <1>3
  <2>2. YieldsBefore(s[k + i], s[k + j])
    BY <1>1, <2>1
  <2> QED
    BY <1>1, <2>2
<1>7. ASSUME IsOrderly, NEW u \in ToSet(d)
      PROVE  u.time > floor
  <2>1. PICK i \in DOMAIN d : u = d[i]
    BY DEF ToSet
  <2>2. CASE i = 1
    BY <1>2, <1>3, <2>1, <2>2
  <2>3. CASE i # 1
    <3>1. 1 \in DOMAIN d /\ 1 < i /\ d # <<>>
      BY <1>3, <2>3
    <3>2. YieldsBefore(d[1], d[i])
      BY <1>6, <3>1
    <3>3. d[1] \in Updates /\ d[i] \in Updates
      BY <1>2, <1>3, <3>1, ElementOfSeq
    <3>4. /\ d[1].time \in Nat /\ d[i].time \in Nat
          /\ d[1].time <= d[i].time
      BY <1>7, <3>2, <3>3, OrderIsOfTime
    <3> QED
      BY <1>2, <1>3, <2>1, <3>1, <3>4
  <2> QED
    BY <2>2, <2>3
<1> QED
  BY <1>4, <1>5, <1>6, <1>7 DEF d

-----------------------------------------------------------------------------
(* What a step does to the merge: it opens one source, begins, goes on     *)
(* with or ends an instant, closes the feed, or leaves the merge alone.    *)
Rests ==
  /\ UNCHANGED <<offer, merge, bars, epoch, current, lastEmitted>>
  /\ phase' = phase \/ (phase = "closed" /\ phase' = "ready")

Opens(s) ==
  /\ OpenSource(s)
  /\ phase # "draining"
  /\ UNCHANGED <<phase, offer, bars, epoch, current, lastEmitted>>
  /\ s.after <= current.time
  /\ current.entries = {} \/ s.after = current.time

LEMMA TemplateIsInPlan ==
  ASSUME BarRequests # {}, NEW key
  PROVE  /\ Template(key) \in Requests /\ Template(key).kind = "bar"
         /\ \A r \in BarRequests : Plan[r].class = ClassOf[key] => Template(key).class = ClassOf[key]
<1> DEFINE ofClass == {r \in BarRequests : Plan[r].class = ClassOf[key]}
           r       == IF ofClass # {} THEN Min(ofClass) ELSE Min(BarRequests)
<1>1. BarRequests \in SUBSET Nat /\ ofClass \in SUBSET Nat
  BY FeedAssumption DEF FeedAssumption, BarRequests
<1>2. ofClass # {} => Min(ofClass) \in ofClass
  BY <1>1, MinOfNaturals
<1>3. Min(BarRequests) \in BarRequests
  BY <1>1, MinOfNaturals
<1>4. r \in BarRequests /\ (ofClass # {} => r \in ofClass)
  BY <1>2, <1>3
<1>5. Template(key) = Plan[r]
  BY DEF Template
<1> HIDE DEF r
<1>6. r \in DOMAIN Plan /\ Plan[r] \in Requests /\ Plan[r].kind = "bar"
  BY <1>4, FeedAssumption, ElementOfSeq DEF FeedAssumption, BarRequests
<1> QED
  BY <1>4, <1>5, <1>6

LEMMA OpensOne ==
  ASSUME FeedInv, SourcesOK, RoutedOK
  PROVE  /\ PrepareSource => \E r \in DOMAIN Plan, p \in Providers :
              LET s == [provider |-> p, request |-> Plan[r], after |-> Never] IN
              /\ s \in Source /\ Opens(s)
              /\ IsNextInPlan(r, p) /\ prepared' = prepared \cup {<<r, p>>}
         /\ JoinSource => \E key \in Instruments, p \in Providers :
              /\ Joins(key, p) \in Source /\ Opens(Joins(key, p))
              /\ <<key, p>> \in joining /\ joining' = joining \ {<<key, p>>}
              /\ \A other \in joining : p <= other[2]
<1>1. ASSUME PrepareSource
      PROVE  \E r \in DOMAIN Plan, p \in Providers :
               LET s == [provider |-> p, request |-> Plan[r], after |-> Never] IN
               /\ s \in Source /\ Opens(s)
               /\ IsNextInPlan(r, p) /\ prepared' = prepared \cup {<<r, p>>}
  <2>1. PICK r \in DOMAIN Plan, p \in Providers :
          /\ IsNextInPlan(r, p) /\ prepared' = prepared \cup {<<r, p>>}
          /\ OpenSource([provider |-> p, request |-> Plan[r], after |-> Never])
    BY <1>1 DEF PrepareSource
  <2>2. Plan[r] \in Requests
    BY FeedAssumption, ElementOfSeq DEF FeedAssumption
  <2>3. current = NoSnapshot /\ phase = "closed"
        /\ UNCHANGED <<phase, offer, bars, epoch, current, lastEmitted>>
    BY <1>1 DEF PrepareSource, SourcesOK
  <2>4. [provider |-> p, request |-> Plan[r], after |-> Never] \in Source
    BY <2>2 DEF Source
  <2>5. Opens([provider |-> p, request |-> Plan[r], after |-> Never])
    BY <2>1, <2>3 DEF Opens, NoSnapshot, Never
  <2> QED
    BY <2>1, <2>4, <2>5
<1>2. ASSUME JoinSource
      PROVE  \E key \in Instruments, p \in Providers :
               /\ Joins(key, p) \in Source /\ Opens(Joins(key, p))
               /\ <<key, p>> \in joining /\ joining' = joining \ {<<key, p>>}
               /\ \A other \in joining : p <= other[2]
  <2>1. PICK key \in Instruments, p \in Providers :
          /\ <<key, p>> \in joining /\ joining' = joining \ {<<key, p>>}
          /\ \A other \in joining : p <= other[2]
          /\ OpenSource(Joins(key, p))
    BY <1>2 DEF JoinSource, Joins
  <2>2. BarRequests # {}
    BY <2>1 DEF RoutedOK, JoiningOK
  <2>3. [Template(key) EXCEPT !.keys = {key}] \in Requests
    BY <2>2, TemplateIsInPlan DEF Requests
  <2>4. current.time \in Nat \cup {Never}
    BY DEF FeedInv, ClockOK
  <2>5. Joins(key, p) \in Source /\ Joins(key, p).after = current.time
    BY <2>3, <2>4 DEF Source, Joins
  <2>6. phase # "draining" /\ UNCHANGED <<phase, offer, bars, epoch, current, lastEmitted>>
    BY <1>2, <2>1 DEF JoinSource, FeedInv, ClockOK
  <2>7. Opens(Joins(key, p))
    BY <2>1, <2>4, <2>5, <2>6 DEF Opens, Never
  <2> QED
    BY <2>1, <2>5, <2>7
<1> QED
  BY <1>1, <1>2

LEMMA MergeSteps ==
  ASSUME FeedInv, SourcesOK, RoutedOK, [Next]_vars
  PROVE  (\E s \in Source : Opens(s)) \/ StartSnapshot \/ PopEntry \/ Yield \/ Close \/ Rests
<1>1. CASE PrepareSource \/ JoinSource
  BY <1>1, OpensOne
<1>2. CASE PrepareFails \/ PrepareEnds
  BY <1>2 DEF PrepareFails, PrepareEnds, Rests
<1>3. CASE \E key \in Instruments : AddInstrument(key) \/ AddKnown(key)
  BY <1>3 DEF AddInstrument, AddKnown, Rests
<1>4. CASE JoinFails \/ UNCHANGED vars
  BY <1>4 DEF JoinFails, vars, Rests
<1> QED
  BY <1>1, <1>2, <1>3, <1>4 DEF Next, Drain

(* The source that is opened has all its provider holds for it from the    *)
(* current instant on, in order; the others stay as they are.              *)
LEMMA OpenedStream ==
  ASSUME FeedInv, SourcesOK, NEW s \in Source, Opens(s)
  PROVE  \E d \in Seq(Updates) :
           /\ sources' = Append(sources, s)
           /\ iterators' = Append(iterators, IF d = <<>> THEN <<>> ELSE Tail(d))
           /\ heap' = IF d = <<>> THEN heap
                      ELSE heap \cup {[update |-> d[1], source |-> Len(sources) + 1]}
           /\ ToSet(d) \subseteq Asked(s.provider, s.request, s.after)
           /\ \A u \in Asked(s.provider, s.request, s.after) :
                u.time > current.time => u \in ToSet(d)
           /\ \A i, j \in DOMAIN d : i < j => YieldsBefore(d[i], d[j])
           /\ IsOrderly => \A u \in ToSet(d) : u.time > current.time
<1>1. PICK yields \in Streams(s.provider, s.request, s.after) :
        LET d == DropUntil(yields, current.time)
        IN /\ sources' = Append(sources, s)
           /\ iterators' = Append(iterators, IF d = <<>> THEN <<>> ELSE Tail(d))
           /\ heap' = IF d = <<>> THEN heap
                      ELSE heap \cup {[update |-> Head(d), source |-> Len(iterators) + 1]}
  BY DEF Opens, OpenSource
<1> DEFINE d == DropUntil(yields, current.time)
<1>2. s.provider \in Providers /\ offer \in Offers /\ current.time \in Int
  BY DEF Source, FeedInv, ClockOK, Never
<1>3. yields \in Seq(Updates)
  BY <1>2, StreamIsASequence
<1>4. /\ ToSet(yields) = Asked(s.provider, s.request, s.after)
      /\ \A i, j \in DOMAIN yields : i < j => YieldsBefore(yields[i], yields[j])
  BY <1>2, StreamHasAll
<1>5. d \in Seq(Updates)
  BY <1>2, <1>3, DropUntilLeaves
<1>6. /\ ToSet(d) \subseteq ToSet(yields)
      /\ \A u \in ToSet(yields) : u.time > current.time => u \in ToSet(d)
      /\ \A i, j \in DOMAIN d : i < j => YieldsBefore(d[i], d[j])
      /\ IsOrderly => \A u \in ToSet(d) : u.time > current.time
  BY <1>2, <1>3, <1>4, DropUntilKeepsOrder
<1>7. d # <<>> => Head(d) = d[1]
  BY <1>5, HeadTailProperties
<1>8. Len(iterators) = Len(sources)
  BY DEF SourcesOK
<1> HIDE DEF d
<1> QED
  BY <1>1, <1>4, <1>5, <1>6, <1>7, <1>8 DEF d

(* What popping an entry does: the entry is absorbed, and when its source  *)
(* has more, in order, the next of it takes the place in the heap.         *)
LEMMA PoppedEntry ==
  ASSUME FeedInv, SourcesOK, PopEntry
  PROVE  \E e \in heap :
           /\ phase = "draining" /\ e.update.time = epoch
           /\ \A f \in heap : f.update.time = epoch => HeapBefore(e, f)
           /\ bars' = Absorbed(e)
           /\ UNCHANGED <<joining, offer, sources, epoch, current, lastEmitted>>
           /\ e.source \in DOMAIN iterators /\ iterators[e.source] \in Seq(Updates)
           /\ iterators[e.source] = <<>> =>
                heap' = heap \ {e} /\ iterators' = iterators /\ phase' = phase
           /\ iterators[e.source] # <<>> =>
                /\ iterators' = [iterators EXCEPT ![e.source] = Tail(@)]
                /\ Head(iterators[e.source]).time >= epoch =>
                     /\ heap' = (heap \ {e}) \cup
                          {[update |-> Head(iterators[e.source]), source |-> e.source]}
                     /\ phase' = phase
                /\ ~(Head(iterators[e.source]).time >= epoch) =>
                     heap' = heap \ {e} /\ phase' = "failed"
<1>1. PICK e \in heap :
        /\ e.update.time = epoch /\ \A f \in heap : f.update.time = epoch => HeapBefore(e, f)
        /\ bars' = Absorbed(e) /\ Pull(e.source, heap \ {e})
  BY DEF PopEntry
<1>2. phase = "draining" /\ UNCHANGED <<joining, offer, sources, epoch, current, lastEmitted>>
  BY DEF PopEntry
<1>3. /\ e.source \in 1..Len(iterators) /\ sourceLast[e.source] = epoch
      /\ iterators \in Seq(Seq(Updates))
  BY <1>1 DEF FeedInv, HeapOK, TablesOK
<1>4. e.source \in DOMAIN iterators /\ iterators[e.source] \in Seq(Updates)
  BY <1>3, LenProperties, ElementOfSeq
<1>5. iterators[e.source] = <<>> => heap' = heap \ {e} /\ iterators' = iterators /\ phase' = phase
  BY <1>1 DEF Pull
<1>6. iterators[e.source] # <<>> =>
        /\ iterators' = [iterators EXCEPT ![e.source] = Tail(@)]
        /\ Head(iterators[e.source]).time >= epoch =>
             /\ heap' = (heap \ {e}) \cup
                  {[update |-> Head(iterators[e.source]), source |-> e.source]}
             /\ phase' = phase
        /\ ~(Head(iterators[e.source]).time >= epoch) =>
             heap' = heap \ {e} /\ phase' = "failed"
  BY <1>1, <1>3 DEF Pull, IsInOrder, Advance
<1> QED
  BY <1>1, <1>2, <1>4, <1>5, <1>6

LEMMA AbsorbedIsOne ==
  ASSUME NEW e
  PROVE  /\ Absorbed(e) \subseteq bars \cup {e} /\ bars \subseteq Absorbed(e)
         /\ Absorbed(e) # {}
         /\ \E b \in Absorbed(e) : SameSlot(b, e)
         /\ e \in Absorbed(e) => e \in bars \/ \A b \in bars : ~SameSlot(b, e)
BY DEF Absorbed, SameSlot

LEMMA SourcesInit == Init => SourcesOK
BY EmptySeq DEF Init, SourcesOK, NoSnapshot

LEMMA SourcesNext ==
  ASSUME FeedInv, FeedInv', SourcesOK, RoutedOK, [Next]_vars
  PROVE  SourcesOK'
<1>1. CASE \E s \in Source : Opens(s)
  <2>1. PICK s \in Source : Opens(s)
    BY <1>1
  <2>2. PICK d \in Seq(Updates) :
          /\ sources' = Append(sources, s)
          /\ iterators' = Append(iterators, IF d = <<>> THEN <<>> ELSE Tail(d))
          /\ heap' = IF d = <<>> THEN heap
                     ELSE heap \cup {[update |-> d[1], source |-> Len(sources) + 1]}
    BY <2>1, OpenedStream
  <2>3. sources \in Seq(Source) /\ Len(sources) = Len(iterators) /\ iterators \in Seq(Seq(Updates))
    BY DEF SourcesOK, FeedInv, TablesOK
  <2>4. sources' \in Seq(Source) /\ Len(sources') = Len(iterators')
    <3>1. Len(sources') = Len(sources) + 1 /\ sources' \in Seq(Source)
      BY <2>2, <2>3, AppendProperties
    <3>2. iterators' \in Seq(Seq(Updates))
      BY DEF FeedInv, TablesOK
    <3>3. Len(iterators') = Len(iterators) + 1
      BY <2>2, <2>3, <3>2
    <3> QED
      BY <2>3, <3>1, <3>3
  <2>5. heap' \subseteq Entries
    <3>1. d # <<>> => d[1] \in Updates
      BY ElementOfSeq, LenProperties, HeadTailProperties
    <3>2. Len(sources) + 1 \in Nat \ {0}
      BY <2>3, LenProperties
    <3>3. d # <<>> => [update |-> d[1], source |-> Len(sources) + 1] \in Entries
      BY <3>1, <3>2 DEF Entries
    <3> QED
      BY <2>2, <3>3 DEF SourcesOK
  <2> QED
    BY <2>1, <2>4, <2>5 DEF SourcesOK, Opens
<1>2. CASE StartSnapshot
  <2> DEFINE times == {e.update.time : e \in heap}
  <2>1. times \in SUBSET Nat /\ times # {} /\ epoch' = Min(times)
    BY <1>2 DEF StartSnapshot, SourcesOK, Entries, Updates
  <2>2. epoch' \in times
    BY <2>1, MinOfNaturals
  <2> QED
    BY <1>2, <2>2 DEF StartSnapshot, SourcesOK, merge
<1>3. CASE PopEntry
  <2>1. PICK e \in heap :
          /\ phase = "draining" /\ e.update.time = epoch /\ bars' = Absorbed(e)
          /\ UNCHANGED <<sources, epoch, current>>
          /\ e.source \in DOMAIN iterators /\ iterators[e.source] \in Seq(Updates)
          /\ iterators[e.source] = <<>> => heap' = heap \ {e} /\ iterators' = iterators
          /\ iterators[e.source] # <<>> =>
               /\ iterators' = [iterators EXCEPT ![e.source] = Tail(@)]
               /\ heap' = heap \ {e} \/
                  heap' = (heap \ {e}) \cup
                    {[update |-> Head(iterators[e.source]), source |-> e.source]}
    BY <1>3, PoppedEntry
  <2>2. heap' \subseteq Entries
    <3>1. iterators[e.source] # <<>> =>
            [update |-> Head(iterators[e.source]), source |-> e.source] \in Entries
      BY <2>1, HeadOfUpdates DEF SourcesOK, Entries
    <3> QED
      BY <2>1, <3>1 DEF SourcesOK
  <2>3. Len(iterators') = Len(iterators)
    BY <2>1 DEF FeedInv, TablesOK
  <2>4. bars' \subseteq Entries /\ bars' # {} /\ \A b \in bars' : b.update.time = epoch
    BY <2>1, AbsorbedIsOne DEF SourcesOK
  <2>5. phase' # "closed"
    BY <1>3 DEF PopEntry, Pull
  <2> QED
    BY <2>1, <2>2, <2>3, <2>4, <2>5 DEF SourcesOK
<1>4. CASE Yield
  BY <1>4 DEF Yield, IsDrained, SourcesOK, merge
<1>5. CASE Close
  <2>1. sources' = <<>> /\ iterators' = <<>> /\ heap' = {} /\ current' = NoSnapshot
        /\ phase' = "closed" /\ UNCHANGED <<bars, epoch>>
    BY <1>5 DEF Close, CurrentAfterClose
  <2> QED
    BY <2>1, EmptySeq DEF SourcesOK, NoSnapshot
<1>6. CASE Rests
  BY <1>6 DEF Rests, SourcesOK, merge
<1> QED
  BY <1>1, <1>2, <1>3, <1>4, <1>5, <1>6, MergeSteps

-----------------------------------------------------------------------------
LEMMA AppendedSource ==
  ASSUME SourcesOK, NEW s \in Source, sources' = Append(sources, s)
  PROVE  /\ Len(sources) \in Nat /\ DOMAIN sources = 1..Len(sources)
         /\ DOMAIN sources' = 1..Len(sources) + 1
         /\ \A i \in 1..Len(sources) : sources'[i] = sources[i]
         /\ sources'[Len(sources) + 1] = s
         /\ ToSet(sources') = ToSet(sources) \cup {s}
         /\ \A x : Opened(x) => Opened(x)'
         /\ Opened(s)'
<1>1. /\ sources \in Seq(Source) /\ Len(sources) \in Nat /\ DOMAIN sources = 1..Len(sources)
      /\ DOMAIN sources' = 1..Len(sources) + 1
      /\ \A i \in 1..Len(sources) : sources'[i] = sources[i]
      /\ sources'[Len(sources) + 1] = s
  BY DEF SourcesOK
<1>2. Len(sources) + 1 \in DOMAIN sources' /\ DOMAIN sources \subseteq DOMAIN sources'
  BY <1>1
<1>3. ToSet(sources') = ToSet(sources) \cup {s}
  BY <1>1, <1>2 DEF ToSet
<1>4. \A x : Opened(x) => Opened(x)'
  BY <1>1, <1>2 DEF Opened
<1>5. Opened(s)'
  BY <1>1, <1>2 DEF Opened
<1> QED
  BY <1>1, <1>3, <1>4, <1>5

(* A new source keeps the ranks when those of the providers before its own *)
(* are there.                                                              *)
LEMMA RankedSource ==
  ASSUME SourcesOK, RanksOK, NEW s \in Source, sources' = Append(sources, s), Fits(s),
         \A p \in CapableOf(s) : p < s.provider => Opened([s EXCEPT !.provider = p])
  PROVE  RanksOK'
<1> DEFINE n == Len(sources)
<1>1. /\ n \in Nat /\ DOMAIN sources = 1..n /\ DOMAIN sources' = 1..n + 1
      /\ \A i \in 1..n : sources'[i] = sources[i]
      /\ sources'[n + 1] = s
  BY AppendedSource
<1> HIDE DEF n
<1>2. ASSUME NEW i \in 1..n, NEW x, IsBefore(i, x, sources)
      PROVE  IsBefore(i, x, sources')
  <2>1. PICK k \in 1..n : k < i /\ sources[k] = x
    BY <1>1, <1>2 DEF IsBefore
  <2>2. k \in DOMAIN sources' /\ sources'[k] = x
    BY <1>1, <2>1
  <2> QED
    BY <2>1, <2>2 DEF IsBefore
<1>3. ASSUME NEW x, Opened(x)
      PROVE  IsBefore(n + 1, x, sources')
  <2>1. PICK k \in 1..n : sources[k] = x
    BY <1>1, <1>3 DEF Opened
  <2>2. k \in DOMAIN sources' /\ sources'[k] = x /\ k < n + 1
    BY <1>1, <2>1
  <2> QED
    BY <2>2 DEF IsBefore
<1>4. ASSUME NEW i \in 1..n + 1
      PROVE  /\ Fits(sources'[i])
             /\ \A p \in CapableOf(sources'[i]) : p < sources'[i].provider =>
                  IsBefore(i, [sources'[i] EXCEPT !.provider = p], sources')
  <2>1. CASE i \in 1..n
    <3>1. sources'[i] = sources[i]
      BY <1>1, <2>1
    <3>2. /\ Fits(sources[i])
          /\ \A p \in CapableOf(sources[i]) : p < sources[i].provider =>
               IsBefore(i, [sources[i] EXCEPT !.provider = p], sources)
      BY <1>1, <2>1 DEF RanksOK
    <3> QED
      BY <1>2, <2>1, <3>1, <3>2
  <2>2. CASE i = n + 1
    <3>1. sources'[i] = s
      BY <1>1, <2>2
    <3> QED
      BY <1>3, <2>2, <3>1
  <2>3. i \in 1..n \/ i = n + 1
    BY <1>1
  <2> QED
    BY <2>1, <2>2, <2>3
<1> QED
  BY <1>1, <1>4 DEF RanksOK, CapableOf, Capable, Fits, BarRequests, Template

LEMMA RoutedInit == Init => RoutedOK
<1> SUFFICES ASSUME Init PROVE RoutedOK
  OBVIOUS
<1>1. sources = <<>> /\ DOMAIN sources = {} /\ prepared = {} /\ joining = {}
  BY DEF Init
<1> QED
  BY <1>1 DEF RoutedOK, RanksOK, PreparingOK, JoiningOK

LEMMA RoutedPrepare ==
  ASSUME FeedInv, SourcesOK, RoutedOK, PrepareSource
  PROVE  RoutedOK'
<1>1. PICK r \in DOMAIN Plan, p \in Providers :
        LET s == [provider |-> p, request |-> Plan[r], after |-> Never] IN
        /\ s \in Source /\ Opens(s)
        /\ IsNextInPlan(r, p) /\ prepared' = prepared \cup {<<r, p>>}
  BY OpensOne
<1> DEFINE s == [provider |-> p, request |-> Plan[r], after |-> Never]
<1>2. /\ s \in Source /\ sources' = Append(sources, s)
      /\ joining = {} /\ joining' = {}
  BY <1>1 DEF Opens, OpenSource, PrepareSource
<1>3. <<r, p>> \in PlanSources /\ p \in CapableOf(s)
  BY <1>1 DEF IsNextInPlan, PlanSources, CapableOf
<1>4. ASSUME NEW q \in CapableOf(s), q < p
      PROVE  Opened([s EXCEPT !.provider = q])
  <2>1. <<r, q>> \in PlanSources
    BY <1>4 DEF PlanSources, CapableOf
  <2>2. r \in Nat /\ p \in Nat /\ q \in Nat
    BY <1>4, FeedAssumption DEF FeedAssumption, CapableOf, Capable
  <2>3. <<r, q>> \in prepared
    BY <1>1, <1>4, <2>1, <2>2 DEF IsNextInPlan
  <2>4. Opened([provider |-> q, request |-> Plan[r], after |-> Never])
    BY <2>3 DEF RoutedOK, PreparingOK
  <2> QED
    BY <2>4
<1>5. ASSUME s.request.kind = "bar", NEW key \in s.request.keys
      PROVE  BarRequests # {} /\ s.request.class = Template(key).class
  <2>1. r \in BarRequests
    BY <1>5 DEF BarRequests
  <2>2. ClassOf[key] = Plan[r].class
    BY <1>5, RoutingAssumption DEF RoutingAssumption
  <2> QED
    BY <2>1, <2>2, TemplateIsInPlan
<1>6. RanksOK'
  <2>1. s.provider = p
    OBVIOUS
  <2>2. Fits(s)
    BY <1>3, <1>5, <2>1 DEF Fits
  <2> HIDE DEF s
  <2> QED
    BY <1>2, <1>4, <2>1, <2>2, RankedSource DEF RoutedOK
<1>7. PreparingOK'
  <2>1. (\A x : Opened(x) => Opened(x)') /\ Opened(s)'
    BY <1>2, AppendedSource
  <2>2. prepared' \subseteq PlanSources
    BY <1>1, <1>3 DEF RoutedOK, PreparingOK
  <2>3. ASSUME NEW x \in prepared'
        PROVE  Opened([provider |-> x[2], request |-> Plan[x[1]], after |-> Never])'
    <3>1. CASE x \in prepared
      BY <2>1, <3>1 DEF RoutedOK, PreparingOK
    <3>2. CASE x = <<r, p>>
      BY <2>1, <3>2
    <3> QED
      BY <1>1, <3>1, <3>2
  <2> QED
    BY <2>2, <2>3 DEF PreparingOK, PlanSources, Capable
<1>8. JoiningOK'
  BY <1>2 DEF JoiningOK
<1> QED
  BY <1>6, <1>7, <1>8 DEF RoutedOK

LEMMA RoutedJoin ==
  ASSUME FeedInv, SourcesOK, RoutedOK, JoinSource
  PROVE  RoutedOK'
<1>1. PICK key \in Instruments, p \in Providers :
        /\ Joins(key, p) \in Source /\ Opens(Joins(key, p))
        /\ <<key, p>> \in joining /\ joining' = joining \ {<<key, p>>}
        /\ \A other \in joining : p <= other[2]
  BY OpensOne
<1> DEFINE able == Capable("bar", Template(key).class)
<1>0. PICK s \in Source : s = Joins(key, p)
  BY <1>1
<1>2. /\ sources' = Append(sources, s)
      /\ UNCHANGED <<prepared, current>>
  BY <1>0, <1>1 DEF Opens, OpenSource, JoinSource
<1>3. /\ BarRequests # {} /\ p \in able
      /\ \A q \in able : <<key, q>> \in joining \/ Opened(Joins(key, q))
  BY <1>1 DEF RoutedOK, JoiningOK
<1>4. /\ s.provider = p /\ s.request.kind = "bar" /\ s.request.keys = {key}
      /\ s.request.class = Template(key).class
      /\ \A q : [s EXCEPT !.provider = q] = Joins(key, q)
  <2>1. Template(key) \in Requests /\ Template(key).kind = "bar"
    BY <1>3, TemplateIsInPlan
  <2>2. ASSUME NEW t \in Requests, t.kind = "bar"
        PROVE  /\ [t EXCEPT !.keys = {key}].kind = "bar" /\ [t EXCEPT !.keys = {key}].keys = {key}
               /\ [t EXCEPT !.keys = {key}].class = t.class
    BY <2>2 DEF Requests
  <2>3. ASSUME NEW request, NEW q
        PROVE  [[provider |-> p, request |-> request, after |-> current.time] EXCEPT !.provider = q]
                 = [provider |-> q, request |-> request, after |-> current.time]
    OBVIOUS
  <2>4. \A q : [s EXCEPT !.provider = q] = Joins(key, q)
    BY <1>0, <2>3 DEF Joins
  <2>5. s.provider = p /\ s.request = [Template(key) EXCEPT !.keys = {key}]
    BY <1>0 DEF Joins
  <2> QED
    BY <2>1, <2>2, <2>4, <2>5
<1>5. CapableOf(s) = able
  BY <1>4 DEF CapableOf
<1>6. Fits(s)
  BY <1>3, <1>4, <1>5 DEF Fits
<1>7. ASSUME NEW q \in CapableOf(s), q < s.provider
      PROVE  Opened([s EXCEPT !.provider = q])
  <2>1. p \in Nat /\ q \in Nat /\ q < p
    BY <1>4, <1>5, <1>7, FeedAssumption DEF FeedAssumption, Capable
  <2>2. <<key, q>> \notin joining
    BY <1>1, <2>1
  <2> QED
    BY <1>3, <1>4, <1>5, <1>7, <2>2
<1>8. (\A x : Opened(x) => Opened(x)') /\ Opened(s)'
  BY <1>2, AppendedSource
<1>9. RanksOK'
  BY <1>2, <1>6, <1>7, RankedSource DEF RoutedOK
<1>10. PreparingOK'
  BY <1>2, <1>8 DEF RoutedOK, PreparingOK, PlanSources, Capable
<1>11. JoiningOK'
  <2>1. ASSUME NEW x \in joining, NEW q \in Capable("bar", Template(x[1]).class)
        PROVE  <<x[1], q>> \in joining' \/ Opened(Joins(x[1], q))'
    <3>1. x[1] = key
      BY <1>1 DEF RoutedOK, JoiningOK
    <3>2. CASE q = p
      <4>1. Joins(key, q)' = s
        BY <1>0, <1>2, <3>2 DEF Joins
      <4> QED
        BY <1>8, <3>1, <4>1 DEF Opened
    <3>3. CASE q # p
      <4>1. <<key, q>> \in joining \/ Opened(Joins(key, q))
        BY <1>3, <2>1, <3>1
      <4>2. Joins(key, q)' = Joins(key, q)
        BY <1>2 DEF Joins, Template, BarRequests
      <4>3. CASE Opened(Joins(key, q))
        <5>0. PICK joinsQ : joinsQ = Joins(key, q)
          OBVIOUS
        <5>1. Opened(joinsQ)
          BY <4>3, <5>0
        <5>2. \E k \in DOMAIN sources' : sources'[k] = joinsQ
          BY <1>8, <5>1 DEF Opened
        <5> QED
          BY <3>1, <4>2, <5>0, <5>2 DEF Opened
      <4> QED
        BY <1>1, <3>1, <3>3, <4>1, <4>3
    <3> QED
      BY <3>2, <3>3
  <2> QED
    BY <1>1, <2>1 DEF RoutedOK, JoiningOK, Capable, Template, BarRequests
<1> QED
  BY <1>9, <1>10, <1>11 DEF RoutedOK

LEMMA RoutedNext ==
  ASSUME FeedInv, SourcesOK, RoutedOK, [Next]_vars
  PROVE  RoutedOK'
<1>1. CASE PrepareSource \/ JoinSource
  BY <1>1, RoutedPrepare, RoutedJoin
<1>2. CASE Close
  <2>1. DOMAIN sources' = {} /\ prepared' = {} /\ joining' = {}
    BY <1>2 DEF Close, IsIdle
  <2> QED
    BY <2>1 DEF RoutedOK, RanksOK, PreparingOK, JoiningOK
<1>3. CASE \E key \in Instruments : AddInstrument(key)
  <2>1. PICK key \in Instruments : AddInstrument(key)
    BY <1>3
  <2>2. /\ UNCHANGED <<prepared, sources, current>>
        /\ joining' = {} \/ (CanJoin(key) /\ joining' = {key} \X Capable("bar", Template(key).class))
    BY <2>1 DEF AddInstrument, IsIdle, merge
  <2>3. RanksOK' /\ PreparingOK'
    BY <2>2 DEF RoutedOK, RanksOK, PreparingOK, Opened, CapableOf, Capable, Fits, BarRequests, Template,
                PlanSources
  <2>4. CASE joining' = {}
    BY <2>3, <2>4 DEF RoutedOK, JoiningOK
  <2>5. CASE CanJoin(key) /\ joining' = {key} \X Capable("bar", Template(key).class)
    <3>1. BarRequests # {} /\ Capable("bar", Template(key).class) \subseteq Providers
      BY <2>5 DEF CanJoin, Capable
    <3>2. \A x \in joining' :
            /\ x[1] = key /\ x \in Instruments \X Providers
            /\ x[2] \in Capable("bar", Template(x[1]).class)
            /\ \A p \in Capable("bar", Template(x[1]).class) : <<x[1], p>> \in joining'
      BY <2>5, <3>1
    <3>3. JoiningOK'
      BY <3>1, <3>2 DEF JoiningOK
    <3> QED
      BY <2>3, <3>3 DEF RoutedOK
  <2> QED
    BY <2>2, <2>4, <2>5
<1>4. CASE /\ UNCHANGED sources
           /\ prepared' = prepared \/ prepared' = {}
           /\ joining' = {} \/ UNCHANGED <<joining, current>>
  <2>1. RanksOK' /\ PreparingOK'
    BY <1>4 DEF RoutedOK, RanksOK, PreparingOK, Opened, CapableOf, Capable, Fits, BarRequests, Template,
                PlanSources
  <2>2. JoiningOK'
    BY <1>4 DEF RoutedOK, JoiningOK, Opened, Joins
  <2> QED
    BY <2>1, <2>2 DEF RoutedOK
<1>5. \/ PrepareSource \/ JoinSource \/ Close
      \/ \E key \in Instruments : AddInstrument(key)
      \/ /\ UNCHANGED sources
         /\ prepared' = prepared \/ prepared' = {}
         /\ joining' = {} \/ UNCHANGED <<joining, current>>
  <2>1. phase = "draining" => joining = {}
    BY DEF FeedInv, ClockOK
  <2>2. StartSnapshot \/ PopEntry \/ Yield =>
          UNCHANGED <<sources, prepared>> /\ joining' = {}
    BY <2>1 DEF StartSnapshot, PopEntry, Yield, IsDrained, merge
  <2>3. PrepareFails \/ PrepareEnds \/ JoinFails \/ (\E key \in Instruments : AddKnown(key)) \/ UNCHANGED vars =>
          /\ UNCHANGED sources
          /\ prepared' = prepared \/ prepared' = {}
          /\ joining' = {} \/ UNCHANGED <<joining, current>>
    BY DEF PrepareFails, PrepareEnds, JoinFails, AddKnown, vars, merge
  <2> QED
    BY <2>2, <2>3 DEF Next, Drain
<1> QED
  BY <1>1, <1>2, <1>3, <1>4, <1>5

-----------------------------------------------------------------------------
(* The head of a stream comes before the rest of it.                       *)
LEMMA TailOfStream ==
  ASSUME NEW d \in Seq(Updates), d # <<>>,
         \A i, j \in DOMAIN d : i < j => YieldsBefore(d[i], d[j])
  PROVE  /\ d[1] \in Updates /\ Head(d) = d[1]
         /\ ToSet(d) = {d[1]} \cup ToSet(Tail(d))
         /\ \A i, j \in DOMAIN Tail(d) : i < j => YieldsBefore(Tail(d)[i], Tail(d)[j])
         /\ \A u \in ToSet(Tail(d)) : YieldsBefore(d[1], u)
<1>1. /\ Len(d) \in Nat /\ DOMAIN d = 1..Len(d) /\ 1 \in DOMAIN d
      /\ DOMAIN Tail(d) = 1..Len(d) - 1 /\ \A i \in 1..Len(d) - 1 : Tail(d)[i] = d[i + 1]
      /\ Head(d) = d[1] /\ d[1] \in Updates
  BY LenProperties, HeadTailProperties
<1>2. \A i \in DOMAIN Tail(d) : i + 1 \in DOMAIN d /\ 1 < i + 1 /\ Tail(d)[i] = d[i + 1]
  BY <1>1
<1>3. ASSUME NEW i \in DOMAIN d, i # 1
      PROVE  i - 1 \in DOMAIN Tail(d) /\ Tail(d)[i - 1] = d[i]
  <2>1. i - 1 \in 1..Len(d) - 1 /\ i - 1 + 1 = i
    BY <1>1, <1>3
  <2> QED
    BY <1>1, <2>1
<1>4. ToSet(d) = {d[1]} \cup ToSet(Tail(d))
  <2>1. \A u \in ToSet(d) : u = d[1] \/ u \in ToSet(Tail(d))
    BY <1>3 DEF ToSet
  <2>2. \A u \in ToSet(Tail(d)) : u \in ToSet(d)
    BY <1>2 DEF ToSet
  <2> QED
    BY <1>1, <2>1, <2>2 DEF ToSet
<1>5. \A i, j \in DOMAIN Tail(d) : i < j => YieldsBefore(Tail(d)[i], Tail(d)[j])
  <2> SUFFICES ASSUME NEW i \in DOMAIN Tail(d), NEW j \in DOMAIN Tail(d), i < j
               PROVE  YieldsBefore(Tail(d)[i], Tail(d)[j])
    OBVIOUS
  <2>1. i + 1 < j + 1
    BY <1>1
  <2> QED
    BY <1>2, <2>1
<1>6. \A u \in ToSet(Tail(d)) : YieldsBefore(d[1], u)
  BY <1>1, <1>2 DEF ToSet
<1> QED
  BY <1>1, <1>4, <1>5, <1>6

LEMMA HeldUpdates ==
  ASSUME offer \in Offers, NEW p \in Providers
  PROVE  offer.held[p] \subseteq Updates /\ \A u \in offer.held[p] : u.time \in Nat
BY FeedAssumption DEF FeedAssumption, Updates

(* A step that leaves a source alone keeps what holds of it.               *)
LEMMA SourceStays ==
  ASSUME FeedInv, SourcesOK, NEW i \in DOMAIN sources, SourceOK(i),
         sources'[i] = sources[i], iterators'[i] = iterators[i], offer' = offer,
         \A e \in heap : e.source = i => e \in heap',
         \A e \in heap' : e.source = i => e \in heap,
         \A u \in Updates : lastEmitted' < u.time =>
           lastEmitted < u.time /\ (Drained(u) => Drained(u)')
  PROVE  SourceOK(i)'
<1>1. sources[i].provider \in Providers
  <2>1. sources[i] \in Source
    BY DEF SourcesOK
  <2> QED
    BY <2>1 DEF Source
<1>2. \A u : Held(i, u)' = Held(i, u)
  BY DEF Held, Wants
<1>3. \A u, v : YieldsBefore(u, v)' = YieldsBefore(u, v)
  BY DEF YieldsBefore
<1>4. \A u : Waiting(i, u) => Waiting(i, u)'
  BY DEF Waiting
<1>5. ASSUME NEW u \in offer.held[sources[i].provider], Wants(sources[i], u), lastEmitted' < u.time
      PROVE  Waiting(i, u)' \/ Drained(u)'
  <2>1. u \in Updates
    BY <1>1, HeldUpdates DEF FeedInv
  <2>2. lastEmitted < u.time /\ (Drained(u) => Drained(u)')
    BY <1>5, <2>1
  <2> QED
    BY <1>4, <1>5, <2>2 DEF SourceOK
<1>6. \A u \in ToSet(iterators'[i]) : Held(i, u)'
  BY <1>2 DEF SourceOK
<1>7. \A m, n \in DOMAIN iterators'[i] :
        m < n => YieldsBefore(iterators'[i][m], iterators'[i][n])
  BY DEF SourceOK
<1>8. \A e \in heap' : e.source = i =>
        Held(i, e.update)' /\ \A u \in ToSet(iterators'[i]) : YieldsBefore(e.update, u)
  BY <1>2 DEF SourceOK
<1>9. iterators'[i] # <<>> => \E e \in heap' : e.source = i
  BY DEF SourceOK
<1> QED
  BY <1>3, <1>5, <1>6, <1>7, <1>8, <1>9 DEF SourceOK, YieldsBefore, Wants

(* The source just opened has all it is to show ahead of it.               *)
LEMMA OpenedSourceOK ==
  ASSUME FeedInv, SourcesOK, NEW s \in Source, Opens(s), IsOrderly,
         NEW n \in Nat, n = Len(sources) + 1
  PROVE  SourceOK(n)'
<1>1. PICK d \in Seq(Updates) :
        /\ sources' = Append(sources, s)
        /\ iterators' = Append(iterators, IF d = <<>> THEN <<>> ELSE Tail(d))
        /\ heap' = IF d = <<>> THEN heap ELSE heap \cup {[update |-> d[1], source |-> n]}
        /\ ToSet(d) \subseteq Asked(s.provider, s.request, s.after)
        /\ \A u \in Asked(s.provider, s.request, s.after) : u.time > current.time => u \in ToSet(d)
        /\ \A i, j \in DOMAIN d : i < j => YieldsBefore(d[i], d[j])
        /\ \A u \in ToSet(d) : u.time > current.time
  BY OpenedStream
<1>2. /\ sources'[n] = s /\ UNCHANGED <<offer, lastEmitted>> /\ current.time = lastEmitted
      /\ s.after <= lastEmitted /\ s.provider \in Providers /\ s.after \in Int /\ lastEmitted \in Int
  BY <1>1, AppendedSource DEF Opens, FeedInv, ClockOK, Source, Never
<1>3. iterators'[n] = IF d = <<>> THEN <<>> ELSE Tail(d)
  BY <1>1 DEF SourcesOK, FeedInv, TablesOK
<1>4. \A e \in heap : e.source # n
  BY DEF FeedInv, HeapOK, SourcesOK
<1>5. \A u \in Asked(s.provider, s.request, s.after) :
        u \in offer.held[s.provider] /\ Wants(s, u) /\ u.time \in Nat
  BY <1>2, HeldUpdates DEF Asked, Wants, FeedInv
<1>6. \A u \in ToSet(d) : Held(n, u)'
  BY <1>1, <1>2, <1>5 DEF Held, Wants
<1>7. ASSUME NEW u \in offer'.held[sources'[n].provider],
             Wants(sources'[n], u), lastEmitted' < u.time
      PROVE  u \in ToSet(d)
  <2>1. u.time \in Nat
    BY <1>2, <1>7, HeldUpdates DEF FeedInv
  <2>2. u \in Asked(s.provider, s.request, s.after)
    BY <1>2, <1>7, <2>1 DEF Asked, Wants
  <2> QED
    BY <1>1, <1>2, <1>7, <2>2
<1>8. CASE d = <<>>
  <2>1. ToSet(d) = {} /\ iterators'[n] = <<>> /\ heap' = heap
    <3>1. ToSet(<<>>) = {}
      BY DEF ToSet
    <3> QED
      BY <1>1, <1>3, <1>8, <3>1
  <2>2. ToSet(iterators'[n]) = {} /\ DOMAIN iterators'[n] = {}
    BY <2>1 DEF ToSet
  <2> QED
    BY <1>4, <1>7, <2>1, <2>2 DEF SourceOK, Wants
<1>9. CASE d # <<>>
  <2> DEFINE new == [update |-> d[1], source |-> n]
  <2>1. /\ d[1] \in Updates /\ ToSet(d) = {d[1]} \cup ToSet(Tail(d))
        /\ \A i, j \in DOMAIN Tail(d) : i < j => YieldsBefore(Tail(d)[i], Tail(d)[j])
        /\ \A u \in ToSet(Tail(d)) : YieldsBefore(d[1], u)
    BY <1>1, <1>9, TailOfStream
  <2>2. iterators'[n] = Tail(d) /\ heap' = heap \cup {new}
    BY <1>1, <1>3, <1>9
  <2>3. \A e \in heap' : e.source = n => e.update = d[1]
    BY <1>4, <2>2
  <2>4. new \in heap' /\ new.source = n
    BY <2>2
  <2>5. \A u \in ToSet(d) : Waiting(n, u)'
    BY <2>1, <2>2, <2>4 DEF Waiting
  <2>6. \A u, v : YieldsBefore(u, v)' = YieldsBefore(u, v)
    BY <1>2 DEF YieldsBefore
  <2>7. \A u \in ToSet(iterators'[n]) : Held(n, u)'
    BY <1>6, <2>1, <2>2
  <2>8. \A e \in heap' : e.source = n =>
          Held(n, e.update)' /\ \A u \in ToSet(iterators'[n]) : YieldsBefore(e.update, u)'
    BY <1>6, <2>1, <2>2, <2>3, <2>6
  <2> HIDE DEF new
  <2> QED
    BY <1>7, <2>1, <2>2, <2>4, <2>5, <2>6, <2>7, <2>8 DEF SourceOK, Wants
<1> QED
  BY <1>8, <1>9

(* An update taken into the snapshot is in it, as its own entry or as that *)
(* of a source absorbed before.                                            *)
LEMMA AbsorbedUpdate ==
  ASSUME SourcesOK, NEW e \in heap, e.update.time = epoch, bars' = Absorbed(e)
  PROVE  \E b \in bars' : b.update = e.update
<1>1. PICK b \in bars' : SameSlot(b, e)
  BY AbsorbedIsOne
<1>2. b.update.time = epoch /\ b.update \in Updates /\ e.update \in Updates
  BY AbsorbedIsOne DEF SourcesOK, Entries
<1>3. \A u, v \in Updates : u.time = v.time /\ u.key = v.key /\ u.kind = v.kind => u = v
  BY DEF Updates
<1> QED
  BY <1>1, <1>2, <1>3 DEF SameSlot

LEMMA PoppedSourceOK ==
  ASSUME FeedInv, SourcesOK, StreamsOK, IsOrderly, PopEntry
  PROVE  phase' # "failed" /\ \A i \in DOMAIN sources : SourceOK(i)'
<1>1. PICK e \in heap :
        /\ phase = "draining" /\ e.update.time = epoch
        /\ bars' = Absorbed(e)
        /\ UNCHANGED <<offer, sources, epoch, lastEmitted>>
        /\ e.source \in DOMAIN iterators /\ iterators[e.source] \in Seq(Updates)
        /\ iterators[e.source] = <<>> =>
             heap' = heap \ {e} /\ iterators' = iterators /\ phase' = phase
        /\ iterators[e.source] # <<>> =>
             /\ iterators' = [iterators EXCEPT ![e.source] = Tail(@)]
             /\ Head(iterators[e.source]).time >= epoch =>
                  /\ heap' = (heap \ {e}) \cup
                       {[update |-> Head(iterators[e.source]), source |-> e.source]}
                  /\ phase' = phase
  BY PoppedEntry
<1> DEFINE src == e.source
           it  == iterators[src]
<1>2. /\ e.update \in Updates /\ epoch \in Nat /\ iterators \in Seq(Seq(Updates))
      /\ DOMAIN sources = DOMAIN iterators
      /\ \A f \in heap : f.source = src => f = e
  BY <1>1, LenProperties DEF FeedInv, HeapOK, ClockOK, TablesOK, SourcesOK
<1>3. SourceOK(src)
  BY <1>1, <1>2 DEF StreamsOK
<1>4. it # <<>> =>
        /\ Head(it) = it[1] /\ it[1] \in Updates /\ it[1] \in ToSet(it)
        /\ ToSet(it) = {it[1]} \cup ToSet(Tail(it))
        /\ \A i, j \in DOMAIN Tail(it) : i < j => YieldsBefore(Tail(it)[i], Tail(it)[j])
        /\ \A u \in ToSet(Tail(it)) : YieldsBefore(it[1], u)
  <2>1. \A i, j \in DOMAIN it : i < j => YieldsBefore(it[i], it[j])
    BY <1>3 DEF SourceOK
  <2> HIDE DEF it
  <2> QED
    BY <1>1, <2>1, TailOfStream DEF it
<1>5. it # <<>> => it[1].time >= epoch
  <2>1. it # <<>> => YieldsBefore(e.update, it[1])
    BY <1>3, <1>4 DEF SourceOK
  <2> QED
    BY <1>1, <1>2, <1>4, <2>1, OrderIsOfTime DEF FeedInv
<1> DEFINE new == [update |-> it[1], source |-> src]
<1>6. it # <<>> =>
        /\ iterators' = [iterators EXCEPT ![src] = Tail(it)]
        /\ heap' = (heap \ {e}) \cup {new}
  BY <1>1, <1>4, <1>5
<1>7. phase' = "draining"
  BY <1>1, <1>4, <1>5
<1>8. /\ bars \subseteq bars' /\ \E b \in bars' : b.update = e.update
      /\ \A u : Drained(u) => Drained(u)'
  <2>1. bars \subseteq bars' /\ \E b \in bars' : b.update = e.update
    BY <1>1, AbsorbedIsOne, AbsorbedUpdate
  <2> QED
    BY <1>7, <2>1 DEF Drained
<1>9. ASSUME NEW i \in DOMAIN sources, i # src
      PROVE  SourceOK(i)'
  <2>1. SourceOK(i)
    BY DEF StreamsOK
  <2>2. iterators'[i] = iterators[i] /\ \A f : f.source = i => (f \in heap <=> f \in heap')
    <3>1. new.source = src
      OBVIOUS
    <3> HIDE DEF new
    <3>2. CASE it = <<>>
      BY <1>1, <1>9, <3>2
    <3>3. CASE it # <<>>
      BY <1>1, <1>2, <1>6, <1>9, <3>1, <3>3
    <3> QED
      BY <3>2, <3>3
  <2>3. sources'[i] = sources[i] /\ offer' = offer /\ lastEmitted' = lastEmitted
    BY <1>1
  <2> QED
    BY <1>8, <2>1, <2>2, <2>3, SourceStays
<1>10. SourceOK(src)'
  <2>1. \A u : Held(src, u)' = Held(src, u)
    BY <1>1 DEF Held, Wants
  <2>2. \A u, v : YieldsBefore(u, v)' = YieldsBefore(u, v)
    BY <1>1 DEF YieldsBefore
  <2>3. ASSUME NEW u \in offer'.held[sources'[src].provider],
               Wants(sources'[src], u), lastEmitted' < u.time
        PROVE  Waiting(src, u) \/ Drained(u)
    BY <1>1, <1>3, <2>3 DEF SourceOK
  <2>4. ASSUME NEW u, [update |-> u, source |-> src] \in heap
        PROVE  Drained(u)'
    <3>1. [update |-> u, source |-> src] = e
      BY <1>2, <2>4
    <3> QED
      BY <1>7, <1>8, <3>1 DEF Drained
  <2>5. src \in DOMAIN iterators'
    BY <1>1
  <2>6. CASE it = <<>>
    <3>1. ToSet(it) = {} /\ DOMAIN it = {}
      BY <2>6 DEF ToSet
    <3>2. iterators'[src] = it /\ \A f \in heap' : f.source # src
      BY <1>1, <1>2, <2>6
    <3>3. \A u : Waiting(src, u) => Drained(u)'
      BY <2>4, <3>1 DEF Waiting
    <3> HIDE DEF it
    <3> QED
      BY <1>8, <2>3, <2>6, <3>1, <3>2, <3>3 DEF SourceOK, Wants
  <2>7. CASE it # <<>>
    <3> DEFINE t == Tail(it)
    <3>1. iterators'[src] = t /\ heap' = (heap \ {e}) \cup {new}
      BY <1>1, <1>6, <2>7
    <3>2. \A f \in heap' : f.source = src => f.update = it[1]
      BY <1>2, <3>1
    <3>3. new \in heap' /\ new.source = src
      BY <3>1
    <3>4. \A u \in ToSet(it) : Waiting(src, u)'
      BY <1>4, <2>7, <3>1, <3>3 DEF Waiting
    <3>5. \A u : Waiting(src, u) => Waiting(src, u)' \/ Drained(u)'
      BY <2>4, <3>4 DEF Waiting
    <3>6. \A u \in ToSet(it) : Held(src, u)'
      BY <1>3, <2>1 DEF SourceOK
    <3>7. \A f \in heap' : f.source = src =>
            Held(src, f.update)' /\ \A u \in ToSet(t) : YieldsBefore(f.update, u)
      BY <1>4, <2>7, <3>2, <3>6
    <3>8. /\ \A u \in ToSet(t) : Held(src, u)'
          /\ \A m, n \in DOMAIN t : m < n => YieldsBefore(t[m], t[n])
      BY <1>4, <2>7, <3>6
    <3>9. \E f \in heap' : f.source = src
      BY <3>3
    <3> HIDE DEF it, t, new
    <3> QED
      <4>1. \A m, n \in DOMAIN iterators'[src] :
              m < n => YieldsBefore(iterators'[src][m], iterators'[src][n])
        BY <3>1, <3>8
      <4>2. \A f \in heap' : f.source = src =>
              Held(src, f.update)' /\ \A u \in ToSet(iterators'[src]) : YieldsBefore(f.update, u)
        BY <3>1, <3>7
      <4>3. \A u \in offer'.held[sources'[src].provider] :
              Wants(sources'[src], u) /\ lastEmitted' < u.time => Waiting(src, u)' \/ Drained(u)'
        BY <1>8, <2>3, <3>5
      <4>4. offer' = offer
        BY <1>1
      <4>5. \A u \in ToSet(iterators'[src]) : Held(src, u)'
        BY <3>1, <3>8
      <4> QED
        BY <3>9, <4>1, <4>2, <4>3, <4>4, <4>5 DEF SourceOK, YieldsBefore, Wants
  <2> QED
    BY <2>6, <2>7
<1> QED
  BY <1>1, <1>7, <1>9, <1>10

LEMMA StreamsInit == Init => StreamsOK /\ WinnersOK
<1> SUFFICES ASSUME Init PROVE StreamsOK /\ WinnersOK
  OBVIOUS
<1>1. DOMAIN sources = {} /\ phase = "closed" /\ current.entries = {}
  BY DEF Init, NoSnapshot
<1> QED
  BY <1>1 DEF StreamsOK, WinnersOK, Draining

LEMMA StreamsNext ==
  ASSUME FeedInv, SourcesOK, RoutedOK, StreamsOK, [Next]_vars
  PROVE  StreamsOK'
<1> SUFFICES ASSUME IsOrderly'
             PROVE  phase' # "failed" /\ \A i \in DOMAIN sources' : SourceOK(i)'
  BY DEF StreamsOK
<1>1. offer' = offer
  BY DEF Next, vars, PrepareSource, PrepareFails, PrepareEnds, Close, AddInstrument, AddKnown,
         JoinSource, JoinFails, StartSnapshot, Drain, PopEntry, Yield
<1>2. IsOrderly /\ phase # "failed" /\ \A i \in DOMAIN sources : SourceOK(i)
  BY <1>1 DEF IsOrderly, StreamsOK
<1>3. CASE \E s \in Source : Opens(s)
  <2>1. PICK s \in Source : Opens(s)
    BY <1>3
  <2> DEFINE n == Len(sources)
  <2>2. sources' = Append(sources, s) /\ n \in Nat
    BY <2>1 DEF Opens, OpenSource, SourcesOK
  <2>3. PICK m \in Nat : m = n + 1
    BY <2>2
  <2>4. SourceOK(m)'
    BY <1>2, <2>1, <2>3, OpenedSourceOK
  <2>5. /\ DOMAIN sources = 1..n /\ DOMAIN sources' = 1..n + 1
        /\ \A i \in 1..n : sources'[i] = sources[i]
    BY <2>2, AppendedSource
  <2>6. PICK d \in Seq(Updates) :
          /\ iterators' = Append(iterators, IF d = <<>> THEN <<>> ELSE Tail(d))
          /\ heap' = IF d = <<>> THEN heap ELSE heap \cup {[update |-> d[1], source |-> n + 1]}
    BY <2>1, OpenedStream
  <2>7. ASSUME NEW i \in 1..n
        PROVE  SourceOK(i)'
    <3>1. i # n + 1 /\ i \in DOMAIN sources
      BY <2>2, <2>5
    <3>2. iterators'[i] = iterators[i]
      BY <2>6 DEF SourcesOK, FeedInv, TablesOK
    <3>3. \A e : e.source = i => (e \in heap <=> e \in heap')
      BY <2>6, <3>1
    <3>4. \A u : Drained(u) => Drained(u)'
      BY <2>1 DEF Opens, Drained
    <3>5. lastEmitted' = lastEmitted
      BY <2>1 DEF Opens
    <3> QED
      BY <1>1, <1>2, <2>5, <3>1, <3>2, <3>3, <3>4, <3>5, SourceStays
  <2>8. \A i \in DOMAIN sources' : i \in 1..n \/ i = m
    BY <2>2, <2>3, <2>5
  <2>9. phase' # "failed"
    BY <1>2, <2>1 DEF Opens
  <2> QED
    BY <2>4, <2>7, <2>8, <2>9
<1>4. CASE PopEntry
  <2>1. sources' = sources
    BY <1>4 DEF PopEntry
  <2> QED
    BY <1>2, <1>4, <2>1, PoppedSourceOK
<1>5. CASE UNCHANGED <<sources, iterators, heap>> /\ phase' # "failed"
           /\ \A u \in Updates : lastEmitted' < u.time =>
                lastEmitted < u.time /\ (Drained(u) => Drained(u)')
  BY <1>1, <1>2, <1>5, SourceStays
<1>6. CASE StartSnapshot \/ Rests
  <2>1. UNCHANGED <<sources, iterators, heap, lastEmitted>> /\ phase' # "failed"
    BY <1>2, <1>6 DEF StartSnapshot, Rests, merge
  <2>2. \A u : Drained(u) => Drained(u)'
    BY <1>6 DEF StartSnapshot, Rests, Drained
  <2> QED
    BY <1>5, <2>1, <2>2
<1>7. CASE Yield
  <2>1. /\ UNCHANGED <<sources, iterators, heap>> /\ phase' # "failed"
        /\ phase = "draining" /\ lastEmitted' = epoch
    BY <1>7 DEF Yield, IsDrained, merge
  <2>2. epoch \in Nat /\ lastEmitted < epoch /\ lastEmitted \in Int
    BY <2>1 DEF FeedInv, ClockOK, Never
  <2>3. \A u \in Updates : u.time \in Nat
    BY DEF Updates
  <2>4. \A u : Drained(u) => u.time = epoch
    BY DEF Drained, SourcesOK
  <2>5. \A u \in Updates : lastEmitted' < u.time =>
          lastEmitted < u.time /\ (Drained(u) => Drained(u)')
    BY <2>1, <2>2, <2>3, <2>4
  <2> QED
    BY <1>5, <2>1, <2>5
<1>8. CASE Close
  BY <1>8 DEF Close
<1> QED
  BY <1>3, <1>4, <1>6, <1>7, <1>8, MergeSteps

-----------------------------------------------------------------------------
(* Where ties go by instrument, an entry is taken into the snapshot before *)
(* any other of its instrument only when no provider listed before holds   *)
(* the same: that one's source was opened earlier, so what it has of the   *)
(* instant is in the heap, and comes first.                                *)
LEMMA FirstToArrive ==
  ASSUME FeedInv, SourcesOK, RoutedOK, StreamsOK, phase = "draining", offer.order = "keyed",
         NEW e \in heap, e.update.time = epoch,
         \A f \in heap : f.update.time = epoch => HeapBefore(e, f),
         \A b \in bars : ~SameSlot(b, e)
  PROVE  Unbeaten(e)
<1> DEFINE j == e.source
           u == e.update
<1>1. IsOrderly /\ offer \in Offers /\ epoch \in Nat /\ lastEmitted < epoch
  BY DEF IsOrderly, FeedInv, ClockOK
<1>2. /\ DOMAIN sources = DOMAIN iterators /\ j \in DOMAIN sources
      /\ DOMAIN sources \subseteq Nat /\ iterators \in Seq(Seq(Updates))
      /\ u \in Updates /\ u.time = epoch /\ u.key \in Nat
  <2>1. iterators \in Seq(Seq(Updates)) /\ sources \in Seq(Source) /\ Len(sources) = Len(iterators)
    BY DEF FeedInv, TablesOK, SourcesOK
  <2>2. u \in Updates /\ u.time = epoch /\ j \in 1..Len(iterators)
    BY DEF FeedInv, HeapOK
  <2>3. u.key \in Nat
    BY <2>2, FeedAssumption DEF Updates, FeedAssumption
  <2> QED
    BY <2>1, <2>2, <2>3
<1>3. Held(j, u) /\ Fits(sources[j])
  BY <1>1, <1>2 DEF StreamsOK, SourceOK, RoutedOK, RanksOK
<1>4. SUFFICES ASSUME NEW s \in ToSet(sources), s.provider < sources[j].provider,
                      s.after < u.time, Wants(s, u), u \in offer.held[s.provider]
               PROVE  FALSE
  BY <1>2 DEF Unbeaten
<1>5. Fits(s) /\ s \in Source /\ sources[j] \in Source
  BY <1>2 DEF RoutedOK, RanksOK, ToSet, SourcesOK
<1>6. CapableOf(s) = CapableOf(sources[j])
  <2>1. /\ s.request.kind = u.kind /\ sources[j].request.kind = u.kind
        /\ u.key \in s.request.keys /\ u.key \in sources[j].request.keys
    BY <1>3, <1>4 DEF Held, Wants
  <2>2. CASE u.kind = "bar"
    <3>1. s.request.class = sources[j].request.class
      BY <1>3, <1>5, <2>1, <2>2 DEF Fits
    <3> QED
      BY <2>1, <3>1 DEF CapableOf
  <2>3. CASE u.kind = "chain"
    <3>1. s.request.class \in DOMAIN Serves["bar"] /\ sources[j].request.class \in DOMAIN Serves["bar"]
      BY <1>5 DEF Source, Requests
    <3>2. Serves["chain"][s.request.class] = Serves["chain"][sources[j].request.class]
      BY <3>1, RoutingAssumption DEF RoutingAssumption
    <3> QED
      BY <2>1, <2>3, <3>2 DEF CapableOf, Capable
  <2> QED
    BY <1>2, <2>2, <2>3 DEF Updates
<1>7. s.provider \in CapableOf(sources[j])
  BY <1>5, <1>6 DEF Fits
<1>8. PICK k \in DOMAIN sources : k < j /\ sources[k] = [sources[j] EXCEPT !.provider = s.provider]
  BY <1>2, <1>4, <1>7 DEF RoutedOK, RanksOK, IsBefore
<1>9. sources[k].provider = s.provider /\ sources[k].request = sources[j].request
  BY <1>5, <1>8 DEF Source
<1>10. Wants(sources[k], u) /\ u \in offer.held[sources[k].provider] /\ lastEmitted < u.time
  BY <1>1, <1>2, <1>3, <1>4, <1>9 DEF Held, Wants
<1>11. ~Drained(u)
  BY DEF Drained, SameSlot
<1>12. SourceOK(k)
  BY <1>1 DEF StreamsOK
<1>13. Waiting(k, u)
  BY <1>10, <1>11, <1>12 DEF SourceOK
<1>14. CASE [update |-> u, source |-> k] \in heap
  <2> DEFINE f == [update |-> u, source |-> k]
  <2>1. HeapBefore(e, f)
    BY <1>2, <1>14
  <2> QED
    BY <1>2, <1>8, <2>1 DEF HeapBefore
<1>15. CASE u \in ToSet(iterators[k])
  <2>1. iterators[k] # <<>>
    BY <1>15 DEF ToSet
  <2>2. PICK f \in heap : f.source = k
    BY <1>12, <2>1 DEF SourceOK
  <2>3. YieldsBefore(f.update, u) /\ f.update \in Updates /\ epoch <= f.update.time
    BY <1>12, <1>15, <2>2 DEF SourceOK, FeedInv, HeapOK, ClockOK
  <2>4. f.update.time \in Nat /\ f.update.time <= epoch
    BY <1>1, <1>2, <2>3, OrderIsOfTime
  <2>5. f.update.time = epoch
    BY <1>1, <2>3, <2>4
  <2>6. f.update.key <= u.key /\ f.update.key \in Nat
    BY <1>1, <1>2, <2>3, <2>5, OrderIsOfTime, FeedAssumption DEF Updates, FeedAssumption
  <2>7. HeapBefore(e, f)
    BY <2>5
  <2> QED
    BY <1>2, <1>8, <2>2, <2>6, <2>7 DEF HeapBefore
<1> QED
  BY <1>13, <1>14, <1>15 DEF Waiting

LEMMA WinnersNext ==
  ASSUME FeedInv, SourcesOK, RoutedOK, StreamsOK, WinnersOK, [Next]_vars
  PROVE  WinnersOK'
<1> SUFFICES ASSUME offer'.order = "keyed"
             PROVE  \A e \in current'.entries \cup Draining' : Unbeaten(e)'
  BY DEF WinnersOK
<1>1. offer' = offer
  BY DEF Next, vars, PrepareSource, PrepareFails, PrepareEnds, Close, AddInstrument, AddKnown,
         JoinSource, JoinFails, StartSnapshot, Drain, PopEntry, Yield
<1>2. \A e \in current.entries \cup Draining : Unbeaten(e)
  BY <1>1 DEF WinnersOK
<1>3. UNCHANGED sources => \A e : Unbeaten(e) => Unbeaten(e)'
  BY <1>1 DEF Unbeaten, Wants
<1>4. CASE \E s \in Source : Opens(s)
  <2>1. PICK s \in Source : Opens(s)
    BY <1>4
  <2>2. Draining' = {} /\ current' = current
    BY <2>1 DEF Opens, Draining
  <2>3. /\ DOMAIN sources = 1..Len(sources) /\ DOMAIN sources' = 1..Len(sources) + 1
        /\ Len(sources) \in Nat
        /\ \A i \in 1..Len(sources) : sources'[i] = sources[i]
        /\ ToSet(sources') = ToSet(sources) \cup {s}
    BY <2>1, AppendedSource DEF Opens, OpenSource
  <2>4. ASSUME NEW e \in current.entries
        PROVE  Unbeaten(e)'
    <3>1. Unbeaten(e) /\ s.after = current.time /\ e.update.time = current.time
      BY <1>2, <2>1 DEF Opens, SourcesOK
    <3>2. e.source \in DOMAIN sources' /\ sources'[e.source] = sources[e.source]
      BY <2>3, <3>1 DEF Unbeaten
    <3>3. ~(s.after < e.update.time)
      BY <3>1 DEF FeedInv, ClockOK, Never
    <3> QED
      BY <1>1, <2>3, <3>1, <3>2, <3>3 DEF Unbeaten, Wants
  <2> QED
    BY <2>2, <2>4
<1>5. CASE PopEntry
  <2>1. PICK e \in heap :
          /\ phase = "draining" /\ e.update.time = epoch
          /\ \A f \in heap : f.update.time = epoch => HeapBefore(e, f)
          /\ bars' = Absorbed(e) /\ UNCHANGED <<sources, current>>
    BY <1>5, PoppedEntry
  <2>2. Draining' \subseteq bars' /\ Draining = bars
    BY <2>1 DEF Draining
  <2>3. ASSUME NEW b \in bars'
        PROVE  Unbeaten(b)
    <3>1. CASE b \in bars
      BY <1>2, <2>2, <3>1
    <3>2. CASE b \notin bars
      <4>1. b = e /\ \A c \in bars : ~SameSlot(c, e)
        BY <2>1, <3>2, AbsorbedIsOne
      <4> QED
        BY <1>1, <2>1, <4>1, FirstToArrive
    <3> QED
      BY <3>1, <3>2
  <2> QED
    BY <1>2, <1>3, <2>1, <2>2, <2>3
<1>6. CASE Yield
  <2>1. Draining = bars /\ Draining' = {} /\ current'.entries = bars /\ UNCHANGED sources
    BY <1>6 DEF Yield, IsDrained, Draining, merge
  <2> QED
    BY <1>2, <1>3, <2>1
<1>7. CASE StartSnapshot \/ Rests
  <2>1. Draining' \subseteq Draining /\ UNCHANGED <<sources, current>>
    BY <1>7 DEF StartSnapshot, Rests, Draining, merge
  <2> QED
    BY <1>2, <1>3, <2>1
<1>8. CASE Close
  <2>1. Draining' = {} /\ current'.entries = {}
    BY <1>8 DEF Close, CurrentAfterClose, NoSnapshot, Draining
  <2> QED
    BY <2>1
<1> QED
  BY <1>4, <1>5, <1>6, <1>7, <1>8, MergeSteps

LEMMA StreamInvNext == FeedInv /\ StreamInv /\ [Next]_vars => StreamInv'
BY FeedInvNext, SourcesNext, RoutedNext, StreamsNext, WinnersNext DEF StreamInv

THEOREM StreamInvariant == Spec => []StreamInv
<1>1. Init => StreamInv
  BY SourcesInit, RoutedInit, StreamsInit DEF StreamInv
<1> QED
  BY <1>1, StreamInvNext, FeedInvariant, PTL DEF Spec

(* Of sources that keep the order of time nothing is lost, however late,   *)
(* and in whichever preparation or reading, they are opened; and where     *)
(* ties go by instrument the provider listed first is the one that is      *)
(* shown, for any plan, providers and subscriptions (_open_source, _pull,  *)
(* _absorb, close).                                                        *)
THEOREM AllShownAsSent == Spec => []ShownAsSent
<1>1. ASSUME FeedInv, StreamInv
      PROVE  NothingIsMissed
  BY <1>1 DEF StreamInv, StreamsOK, SourceOK, Waiting, Drained, NothingIsMissed
<1>2. ASSUME StreamInv
      PROVE  FirstProviderWins
  BY <1>2 DEF StreamInv, WinnersOK, Unbeaten, FirstProviderWins
<1>3. FeedInv /\ StreamInv => ShownAsSent
  BY <1>1, <1>2 DEF ShownAsSent
<1> QED
  BY <1>3, FeedInvariant, StreamInvariant, PTL

-----------------------------------------------------------------------------
(* The feed implements the snapshot stream.                                *)
Pending ==
  {e.update : e \in heap \cup Draining} \cup UNION {ToSet(s) : s \in ToSet(iterators)}

InHeap(u) == \E e \in heap : e.update = u
InTail(u) == \E i \in DOMAIN iterators : u \in ToSet(iterators[i])

LEMMA PendingIs ==
  /\ \A u : u \in Pending <=> InHeap(u) \/ Drained(u) \/ InTail(u)
  /\ \A u : u \in Pending' <=> InHeap(u)' \/ Drained(u)' \/ InTail(u)'
<1>1. \A u : u \in Pending <=> InHeap(u) \/ Drained(u) \/ InTail(u)
  BY DEF Pending, InHeap, InTail, Drained, Draining, ToSet
<1>2. \A u : u \in Pending' <=> InHeap(u)' \/ Drained(u)' \/ InTail(u)'
  BY DEF Pending, InHeap, InTail, Drained, Draining, ToSet
<1> QED
  BY <1>1, <1>2

(* A subscription adds updates after the clock; nothing is taken away.     *)
LEMMA OpensSubscribes ==
  ASSUME FeedInv, SourcesOK, NEW s \in Source, Opens(s)
  PROVE  /\ Pending \subseteq Pending'
         /\ \A u \in Pending' \ Pending : u \in Updates /\ (IsOrderly => lastEmitted < u.time)
<1>1. PICK d \in Seq(Updates) :
        /\ iterators' = Append(iterators, IF d = <<>> THEN <<>> ELSE Tail(d))
        /\ heap' = IF d = <<>> THEN heap
                   ELSE heap \cup {[update |-> d[1], source |-> Len(sources) + 1]}
        /\ \A i, j \in DOMAIN d : i < j => YieldsBefore(d[i], d[j])
        /\ IsOrderly => \A u \in ToSet(d) : u.time > current.time
  BY OpenedStream
<1> DEFINE n    == Len(iterators)
           rest == IF d = <<>> THEN <<>> ELSE Tail(d)
<1>2. /\ n \in Nat /\ DOMAIN iterators = 1..n /\ DOMAIN iterators' = 1..n + 1
      /\ \A i \in 1..n : iterators'[i] = iterators[i]
      /\ iterators'[n + 1] = rest
  BY <1>1 DEF FeedInv, TablesOK
<1>3. /\ ToSet(rest) \subseteq ToSet(d) /\ ToSet(d) \subseteq Updates
      /\ d # <<>> => d[1] \in ToSet(d)
  <2>1. ToSet(d) \subseteq Updates /\ ToSet(<<>>) = {}
    BY DEF ToSet
  <2>2. d # <<>> => ToSet(d) = {d[1]} \cup ToSet(Tail(d))
    BY <1>1, TailOfStream
  <2> QED
    BY <2>1, <2>2
<1>4. \A u : InTail(u)' => InTail(u) \/ u \in ToSet(d)
  <2>1. \A i \in 1..n + 1 : i \in 1..n \/ i = n + 1
    BY <1>2
  <2> HIDE DEF n, rest
  <2> QED
    BY <1>2, <1>3, <2>1 DEF InTail
<1>5. \A u : InTail(u) => InTail(u)'
  <2>1. \A i \in 1..n : i \in 1..n + 1
    BY <1>2
  <2> HIDE DEF n
  <2> QED
    BY <1>2, <2>1 DEF InTail
<1>6. \A u : InHeap(u) => InHeap(u)'
  BY <1>1 DEF InHeap
<1>7. \A u : InHeap(u)' => InHeap(u) \/ u \in ToSet(d)
  BY <1>1, <1>3 DEF InHeap
<1>8. \A u : ~Drained(u) /\ ~Drained(u)'
  BY DEF Opens, Drained
<1>9. current.time = lastEmitted /\ lastEmitted \in Int
  BY DEF FeedInv, ClockOK, Never
<1>10. \A u \in ToSet(d) : u \in Updates /\ u.time \in Nat /\ (IsOrderly => lastEmitted < u.time)
  BY <1>1, <1>3, <1>9 DEF Updates
<1> QED
  BY <1>4, <1>5, <1>6, <1>7, <1>8, <1>10, PendingIs

(* Taking an entry loses nothing of sources that keep their order, and     *)
(* never adds anything.                                                    *)
LEMMA PopKeepsPending ==
  ASSUME FeedInv, SourcesOK, StreamsOK, PopEntry
  PROVE  Pending' \subseteq Pending /\ (IsOrderly => Pending' = Pending)
<1>1. PICK e \in heap :
        /\ phase = "draining" /\ e.update.time = epoch
        /\ bars' = Absorbed(e)
        /\ UNCHANGED offer
        /\ e.source \in DOMAIN iterators /\ iterators[e.source] \in Seq(Updates)
        /\ iterators[e.source] = <<>> =>
             heap' = heap \ {e} /\ iterators' = iterators /\ phase' = phase
        /\ iterators[e.source] # <<>> =>
             /\ iterators' = [iterators EXCEPT ![e.source] = Tail(@)]
             /\ Head(iterators[e.source]).time >= epoch =>
                  /\ heap' = (heap \ {e}) \cup
                       {[update |-> Head(iterators[e.source]), source |-> e.source]}
                  /\ phase' = phase
             /\ ~(Head(iterators[e.source]).time >= epoch) =>
                  heap' = heap \ {e} /\ phase' = "failed"
  BY PoppedEntry
<1> DEFINE src == e.source
           it  == iterators[src]
<1>2. it # <<>> =>
        /\ \A u \in ToSet(Tail(it)) : u \in ToSet(it)
        /\ Head(it) \in ToSet(it)
        /\ \A u \in ToSet(it) : u = Head(it) \/ u \in ToSet(Tail(it))
  <2> SUFFICES ASSUME NEW d \in Seq(Updates), d # <<>>
               PROVE  /\ \A u \in ToSet(Tail(d)) : u \in ToSet(d)
                      /\ Head(d) \in ToSet(d)
                      /\ \A u \in ToSet(d) : u = Head(d) \/ u \in ToSet(Tail(d))
    BY <1>1
  <2>1. /\ Len(d) \in Nat /\ DOMAIN d = 1..Len(d) /\ 1 \in DOMAIN d
        /\ DOMAIN Tail(d) = 1..Len(d) - 1 /\ \A i \in 1..Len(d) - 1 : Tail(d)[i] = d[i + 1]
        /\ Head(d) = d[1]
    BY LenProperties, HeadTailProperties
  <2>2. \A i \in DOMAIN Tail(d) : i + 1 \in DOMAIN d /\ Tail(d)[i] = d[i + 1]
    BY <2>1
  <2>3. ASSUME NEW i \in DOMAIN d, i # 1
        PROVE  i - 1 \in DOMAIN Tail(d) /\ Tail(d)[i - 1] = d[i]
    <3>1. i - 1 \in 1..Len(d) - 1 /\ i - 1 + 1 = i
      BY <2>1, <2>3
    <3> QED
      BY <2>1, <3>1
  <2>4. \A u \in ToSet(d) : u = Head(d) \/ u \in ToSet(Tail(d))
    BY <2>1, <2>3 DEF ToSet
  <2> QED
    BY <2>1, <2>2, <2>4 DEF ToSet
<1>3. \A u : Drained(u)' => Drained(u) \/ InHeap(u)
  BY <1>1, AbsorbedIsOne DEF Drained, InHeap
<1>4. \A u : InTail(u)' => InTail(u)
  <2>1. CASE it = <<>>
    BY <1>1, <2>1 DEF InTail
  <2>2. CASE it # <<>>
    <3>1. DOMAIN iterators' = DOMAIN iterators /\ iterators'[src] = Tail(it)
          /\ \A i \in DOMAIN iterators : i # src => iterators'[i] = iterators[i]
      BY <1>1, <2>2
    <3> QED
      BY <1>1, <1>2, <2>2, <3>1 DEF InTail
  <2> QED
    BY <2>1, <2>2
<1>5. \A u : InHeap(u)' => InHeap(u) \/ InTail(u)
  BY <1>1, <1>2 DEF InHeap, InTail
<1>6. Pending' \subseteq Pending
  BY <1>3, <1>4, <1>5, PendingIs
<1>7. ASSUME IsOrderly
      PROVE  Pending \subseteq Pending'
  <2>1. phase' = "draining"
    BY <1>1, <1>7, PoppedSourceOK
  <2>2. /\ \A u : Drained(u) => Drained(u)'
        /\ Drained(e.update)'
    BY <1>1, <2>1, AbsorbedIsOne, AbsorbedUpdate DEF Drained
  <2>3. \A u : InHeap(u) => InHeap(u)' \/ Drained(u)'
    BY <1>1, <2>2 DEF InHeap
  <2>4. \A u : InTail(u) => InTail(u)' \/ InHeap(u)'
    <3>1. CASE it = <<>>
      BY <1>1, <3>1 DEF InTail
    <3>2. CASE it # <<>>
      <4>1. DOMAIN iterators' = DOMAIN iterators /\ iterators'[src] = Tail(it)
            /\ \A i \in DOMAIN iterators : i # src => iterators'[i] = iterators[i]
        BY <1>1, <3>2
      <4>2. \A u : u = Head(it) => InHeap(u)'
        <5>1. heap' = (heap \ {e}) \cup {[update |-> Head(it), source |-> src]}
          BY <1>1, <2>1, <3>2
        <5>2. [update |-> Head(it), source |-> src].update = Head(it)
          OBVIOUS
        <5> HIDE DEF it
        <5> QED
          BY <5>1, <5>2 DEF InHeap
      <4>3. ASSUME NEW u, NEW i \in DOMAIN iterators, u \in ToSet(iterators[i])
            PROVE  InTail(u)' \/ u = Head(it)
        <5>1. i \in DOMAIN iterators'
          BY <4>1
        <5>2. u \in ToSet(iterators'[i]) \/ u = Head(it)
          BY <1>2, <3>2, <4>1, <4>3
        <5> QED
          BY <5>1, <5>2 DEF InTail
      <4> QED
        BY <4>2, <4>3 DEF InTail
    <3> QED
      BY <3>1, <3>2
  <2> QED
    BY <2>2, <2>3, <2>4, PendingIs
<1> QED
  BY <1>6, <1>7

(* The snapshot has, of sources that keep their order, all there is of its *)
(* instant, and nothing earlier is left.                                   *)
LEMMA YieldShows ==
  ASSUME FeedInv, SourcesOK, StreamsOK, Yield
  PROVE  /\ lastEmitted < epoch /\ lastEmitted' = epoch
         /\ \E u \in Pending : u.time = epoch
         /\ LET now == {e.update : e \in current'.entries} IN
            /\ now # {} /\ now \subseteq {u \in Pending : u.time = epoch}
            /\ Pending' \subseteq Pending
            /\ IsOrderly => /\ \A u \in Pending : epoch <= u.time
                            /\ now = {u \in Pending : u.time = epoch}
                            /\ Pending' = Pending \ now
<1> DEFINE now == {e.update : e \in current'.entries}
<1>1. /\ phase = "draining" /\ phase' = "ready"
      /\ \A e \in heap : e.update.time # epoch
      /\ lastEmitted' = epoch /\ current'.entries = bars
      /\ UNCHANGED <<iterators, heap>>
  BY DEF Yield, IsDrained, merge
<1>2. lastEmitted < epoch /\ epoch \in Nat
  BY <1>1 DEF FeedInv, ClockOK
<1>3. /\ \A u : u \in now <=> Drained(u)
      /\ \A u : Drained(u) => u.time = epoch
  BY <1>1 DEF Drained, SourcesOK
<1>4. bars # {}
  BY <1>1 DEF SourcesOK
<1>5. now # {}
  BY <1>1, <1>4
<1>6. \A u : /\ InHeap(u)' <=> InHeap(u)
             /\ InTail(u)' <=> InTail(u)
             /\ ~Drained(u)'
  BY <1>1 DEF InHeap, InTail, Drained
<1>7. \A u : u \in Pending' <=> InHeap(u) \/ InTail(u)
  BY <1>6, PendingIs
<1> HIDE DEF now
<1>8. now \subseteq {u \in Pending : u.time = epoch} /\ Pending' \subseteq Pending
  BY <1>3, <1>7, PendingIs
<1>9. \A u : InHeap(u) => u.time \in Nat /\ epoch < u.time
  <2>1. \A e \in heap : e.update.time \in Nat /\ epoch <= e.update.time /\ e.update.time # epoch
    BY <1>1 DEF FeedInv, HeapOK, ClockOK, Updates
  <2>2. \A e \in heap : epoch < e.update.time
    BY <1>2, <2>1
  <2> QED
    BY <2>1, <2>2 DEF InHeap
<1>10. ASSUME IsOrderly, NEW u, InTail(u)
       PROVE  u.time \in Nat /\ epoch < u.time
  <2>1. PICK i \in DOMAIN iterators : u \in ToSet(iterators[i])
    BY <1>10 DEF InTail
  <2>2. i \in DOMAIN sources /\ iterators[i] \in Seq(Updates)
    BY LenProperties DEF SourcesOK, FeedInv, TablesOK
  <2>3. SourceOK(i) /\ u \in Updates /\ iterators[i] # <<>>
    <3>1. SourceOK(i)
      BY <1>10, <2>2 DEF StreamsOK
    <3>2. u \in Updates
      BY <2>1, <2>2 DEF ToSet
    <3>3. iterators[i] # <<>>
      BY <2>1 DEF ToSet
    <3> QED
      BY <3>1, <3>2, <3>3
  <2>4. PICK e \in heap : e.source = i
    BY <2>3 DEF SourceOK
  <2>5. YieldsBefore(e.update, u) /\ e.update \in Updates
    BY <2>1, <2>3, <2>4 DEF SourceOK, FeedInv, HeapOK
  <2>6. e.update.time \in Nat /\ u.time \in Nat /\ e.update.time <= u.time
    BY <1>10, <2>3, <2>5, OrderIsOfTime DEF FeedInv
  <2>7. epoch < e.update.time
    BY <1>9 DEF InHeap
  <2> QED
    BY <1>2, <2>6, <2>7
<1>11. ASSUME IsOrderly
       PROVE  /\ \A u \in Pending : epoch <= u.time
              /\ now = {u \in Pending : u.time = epoch}
              /\ Pending' = Pending \ now
  <2>1. \A u : InHeap(u) \/ InTail(u) => u.time \in Nat /\ epoch < u.time
    BY <1>9, <1>10, <1>11
  <2>2. \A u \in Pending : epoch <= u.time
    BY <1>2, <1>3, <2>1, PendingIs
  <2>3. \A u \in Pending : u.time = epoch => u \in now
    BY <1>2, <1>3, <2>1, PendingIs
  <2>4. \A u : InHeap(u) \/ InTail(u) => u \notin now
    BY <1>2, <1>3, <2>1
  <2>5. Pending' = Pending \ now
    BY <1>3, <1>7, <2>4, PendingIs
  <2> QED
    BY <1>8, <2>2, <2>3, <2>5
<1> QED
  BY <1>1, <1>2, <1>5, <1>8, <1>11 DEF now

LEMMA StreamStep ==
  ASSUME FeedInv, FeedInv', StreamInv, [Next]_vars
  PROVE  [Stream!StreamNext]_(Stream!StreamVars)
<1> DEFINE shown == {e.update : e \in current.entries}
<1> USE DEF StreamInv
<1>1. offer' = offer
  BY DEF Next, vars, PrepareSource, PrepareFails, PrepareEnds, Close, AddInstrument, AddKnown,
         JoinSource, JoinFails, StartSnapshot, Drain, PopEntry, Yield
<1>2. IsOrderly' = IsOrderly /\ IsOrderly \in BOOLEAN
  BY <1>1 DEF IsOrderly
<1>3. CASE \E s \in Source : Opens(s)
  <2>1. PICK s \in Source : Opens(s)
    BY <1>3
  <2>2. /\ Pending \subseteq Pending'
        /\ \A u \in Pending' \ Pending : u \in Updates /\ (IsOrderly => lastEmitted < u.time)
    BY <2>1, OpensSubscribes
  <2>3. UNCHANGED <<lastEmitted, current>>
    BY <2>1 DEF Opens
  <2>4. Stream!Subscribe
    BY <1>2, <2>2, <2>3 DEF Stream!Subscribe, Pending
  <2> QED
    BY <2>4 DEF Stream!StreamNext
<1>4. CASE PopEntry
  <2>1. Pending' \subseteq Pending /\ (IsOrderly => Pending' = Pending)
    BY <1>4, PopKeepsPending
  <2>2. UNCHANGED <<lastEmitted, current>>
    BY <1>4 DEF PopEntry
  <2>3. CASE IsOrderly
    BY <1>2, <2>1, <2>2, <2>3 DEF Stream!StreamVars, Pending
  <2>4. CASE ~IsOrderly
    <3>1. Stream!Lose
      BY <1>2, <2>1, <2>2, <2>4 DEF Stream!Lose, Pending
    <3> QED
      BY <3>1 DEF Stream!StreamNext
  <2> QED
    BY <2>3, <2>4
<1>5. CASE Yield
  <2>1. /\ lastEmitted < epoch /\ lastEmitted' = epoch
        /\ \E u \in Pending : u.time = epoch
        /\ shown' # {} /\ shown' \subseteq {u \in Pending : u.time = epoch}
        /\ Pending' \subseteq Pending
        /\ IsOrderly => /\ \A u \in Pending : epoch <= u.time
                        /\ shown' = {u \in Pending : u.time = epoch}
                        /\ Pending' = Pending \ shown'
    BY <1>5, YieldShows
  <2>2. epoch \in {u.time : u \in Pending}
    BY <2>1
  <2> HIDE DEF shown
  <2>3. CASE IsOrderly
    <3>1. Stream!Show
      BY <1>2, <2>1, <2>2, <2>3 DEF Stream!Show, Pending, shown
    <3> QED
      BY <3>1 DEF Stream!StreamNext
  <2>4. CASE ~IsOrderly
    <3>1. Stream!ShowSome
      BY <1>2, <2>1, <2>2, <2>4 DEF Stream!ShowSome, Pending, shown
    <3> QED
      BY <3>1 DEF Stream!StreamNext
  <2> QED
    BY <2>3, <2>4
<1>6. CASE StartSnapshot \/ Rests
  <2>1. UNCHANGED <<heap, iterators, lastEmitted, current>> /\ Draining' = Draining
    BY <1>6 DEF StartSnapshot, Rests, Draining, merge
  <2>2. Pending' = Pending
    BY <2>1 DEF Pending
  <2> QED
    BY <1>2, <2>1, <2>2 DEF Stream!StreamVars, Pending
<1>7. CASE Close
  <2>1. iterators' = <<>> /\ heap' = {} /\ Draining' = {}
        /\ lastEmitted' = Never /\ current'.entries = {}
    BY <1>7 DEF Close, CurrentAfterClose, NoSnapshot, Draining
  <2>2. Pending' = {}
    BY <2>1 DEF Pending, ToSet
  <2>3. Stream!Reopen
    BY <1>2, <2>1, <2>2 DEF Stream!Reopen, Pending
  <2> QED
    BY <2>3 DEF Stream!StreamNext
<1> QED
  BY <1>3, <1>4, <1>5, <1>6, <1>7, MergeSteps

LEMMA StreamStarts == Init => Stream!StreamInit
<1> SUFFICES ASSUME Init PROVE Stream!StreamInit
  OBVIOUS
<1>1. iterators = <<>> /\ heap = {} /\ Draining = {} /\ lastEmitted = Never /\ current.entries = {}
  BY DEF Init, NoSnapshot, Draining
<1>2. Pending = {}
  BY <1>1 DEF Pending, ToSet
<1> QED
  BY <1>1, <1>2 DEF Stream!StreamInit, Pending, IsOrderly

(* The merged feed is a stream of snapshots: each update shown once, in    *)
(* the order of time and with all of its instant while sources keep their  *)
(* order; when one does not, time still only goes forward and only what    *)
(* was held is shown.  For any providers, plan and subscriptions.          *)
THEOREM FeedIsAStream == Spec => ImplementsStream
<1>1. FeedInv /\ FeedInv' /\ StreamInv /\ [Next]_vars => [Stream!StreamNext]_(Stream!StreamVars)
  BY StreamStep
<1> QED
  BY <1>1, StreamStarts, FeedInvariant, StreamInvariant, PTL
     DEF Spec, ImplementsStream, Stream!StreamSpec

-----------------------------------------------------------------------------
(* Schedule: the dates of a year.                                          *)

(* A year of the calendar has 365 days or 366. *)
LEMMA YearLength ==
  ASSUME NEW y \in Nat
  PROVE  LET days == Date(y + 1, 1, 1) - Date(y, 1, 1)
         IN  Date(y, 1, 1) \in Int /\ days \in Int /\ 365 <= days /\ days <= 366
<1>1. DaysBefore(y, 1) = 0 /\ DaysBefore(y + 1, 1) = 0
  BY DEF DaysBefore
<1>2. /\ Date(y, 1, 1) = 365 * (y - 1) + (y - 1) \div 4 - (y - 1) \div 100 + (y - 1) \div 400 + 1
      /\ Date(y + 1, 1, 1) = 365 * y + y \div 4 - y \div 100 + y \div 400 + 1
  BY <1>1 DEF Date
<1>3. y \div 4 - (y - 1) \div 4 \in {0, 1}
  OBVIOUS
<1>4. y \div 100 - (y - 1) \div 100 \in {0, 1}
  OBVIOUS
<1>5. y \div 400 - (y - 1) \div 400 \in {0, 1}
  OBVIOUS
<1>6. y \div 100 - (y - 1) \div 100 = 1 => y \div 4 - (y - 1) \div 4 = 1
  OBVIOUS
<1>7. y \div 400 - (y - 1) \div 400 = 1 => y \div 100 - (y - 1) \div 100 = 1
  OBVIOUS
<1>8. /\ (y - 1) \div 4 \in Int /\ (y - 1) \div 100 \in Int /\ (y - 1) \div 400 \in Int
      /\ y \div 4 \in Int /\ y \div 100 \in Int /\ y \div 400 \in Int
  OBVIOUS
<1> QED BY <1>2, <1>3, <1>4, <1>5, <1>6, <1>7, <1>8

(* date.year: the year whose days a date lies between. *)
LEMMA YearOfItsDays ==
  ASSUME NEW y \in Nat \ {0}, NEW d \in Date(y, 1, 1)..(Date(y + 1, 1, 1) - 1)
  PROVE  YearOf(d) = y
<1> DEFINE q == (d * 400) \div 146097 + 1
<1>0. Date(y, 1, 1) \in Int /\ Date(y + 1, 1, 1) \in Int /\ d \in Int
      /\ Date(y - 1, 1, 1) < Date(y, 1, 1) /\ Date(y, 1, 1) < Date(y + 1, 1, 1)
      /\ Date(y + 1, 1, 1) < Date(y + 2, 1, 1) /\ Date(y + 2, 1, 1) \in Int
  <2>1. y - 1 \in Nat /\ y \in Nat /\ y + 1 \in Nat /\ y + 2 \in Nat /\ (y - 1) + 1 = y /\ (y + 1) + 1 = y + 2
    OBVIOUS
  <2> QED BY <2>1, YearLength
<1>1. /\ Date(y, 1, 1) = 365 * (y - 1) + (y - 1) \div 4 - (y - 1) \div 100 + (y - 1) \div 400 + 1
      /\ Date(y + 1, 1, 1) = 365 * y + y \div 4 - y \div 100 + y \div 400 + 1
  BY DEF Date, DaysBefore
<1>2. q \in {y - 1, y, y + 1}
  <2>1. \A p \in Nat : LET whole == 365 * p + p \div 4 - p \div 100 + p \div 400
                       IN  whole \in Int /\ 400 * whole >= 146097 * p - 800 /\ 400 * whole <= 146097 * p + 400
    <3> TAKE p \in Nat
    <3>1. /\ p \div 4 \in Int /\ p \div 100 \in Int /\ p \div 400 \in Int
          /\ 4 * (p \div 4) <= p /\ p <= 4 * (p \div 4) + 3
          /\ 100 * (p \div 100) <= p /\ p <= 100 * (p \div 100) + 99
          /\ 400 * (p \div 400) <= p /\ p <= 400 * (p \div 400) + 399
      OBVIOUS
    <3> QED BY <3>1
  <2>2. 400 * d >= 146097 * (y - 1) - 400 /\ 400 * d <= 146097 * y + 400
    BY <2>1, <1>0, <1>1, y - 1 \in Nat, y \in Nat
  <2>3. d * 400 = 400 * d
    BY <1>0
  <2>4. q - 1 \in Int /\ 146097 * (q - 1) <= 400 * d /\ 400 * d < 146097 * (q - 1) + 146097
    BY <1>0, <2>3
  <2> QED BY <2>2, <2>4, <1>0
<1> HIDE DEF q
<1>3. YearOf(d) = CASE Date(q, 1, 1) > d      -> q - 1
                    [] Date(q + 1, 1, 1) <= d -> q + 1
                    [] OTHER                  -> q
  BY DEF YearOf, q
<1>4. CASE q = y
  <2>1. ~(Date(q, 1, 1) > d) /\ ~(Date(q + 1, 1, 1) <= d)
    BY <1>0, <1>4
  <2> QED BY <1>3, <1>4, <2>1
<1>5. CASE q = y - 1
  <2>1. q + 1 = y
    BY <1>5
  <2>2. ~(Date(q, 1, 1) > d) /\ Date(q + 1, 1, 1) <= d
    <3>1. Date(q, 1, 1) < Date(y, 1, 1) /\ Date(q, 1, 1) \in Int
      BY <1>0, <1>5, YearLength, y - 1 \in Nat
    <3> QED BY <1>0, <2>1, <3>1
  <2>3. YearOf(d) = q + 1
    BY <1>3, <2>2
  <2> QED BY <2>1, <2>3
<1>6. CASE q = y + 1
  <2>1. q - 1 = y
    BY <1>6
  <2>2. Date(q, 1, 1) > d /\ ~(Date(q + 1, 1, 1) <= d)
    <3>1. q + 1 = y + 2
      BY <1>6
    <3> QED BY <1>0, <1>6, <3>1
  <2>3. YearOf(d) = q - 1
    BY <1>3, <2>2
  <2> QED BY <2>1, <2>3
<1> QED BY <1>2, <1>4, <1>5, <1>6

(* The days of a year before each month, with the leap day or without.     *)
LEMMA DaysBeforeMonths ==
  ASSUME NEW y \in Nat
  PROVE  \E leap \in {0, 1} :
           /\ DaysBefore(y, 1) = 0 /\ DaysBefore(y, 2) = 31 /\ DaysBefore(y, 3) = 59 + leap
           /\ DaysBefore(y, 4) = 90 + leap /\ DaysBefore(y, 5) = 120 + leap
           /\ DaysBefore(y, 6) = 151 + leap /\ DaysBefore(y, 7) = 181 + leap
           /\ DaysBefore(y, 8) = 212 + leap /\ DaysBefore(y, 9) = 243 + leap
           /\ DaysBefore(y, 10) = 273 + leap /\ DaysBefore(y, 11) = 304 + leap
           /\ DaysBefore(y, 12) = 334 + leap
<1> DEFINE leap == y % 4 = 0 /\ (y % 100 # 0 \/ y % 400 = 0)
<1>1. CASE leap
  <2> WITNESS 1 \in {0, 1}
  <2> QED BY <1>1 DEF DaysBefore
<1>2. CASE ~leap
  <2> WITNESS 0 \in {0, 1}
  <2> QED BY <1>2 DEF DaysBefore
<1> QED BY <1>1, <1>2

LEMMA DaysOfYear ==
  ASSUME NEW y \in Nat, NEW m \in 1..12, NEW d \in Int
  PROVE  /\ DaysBefore(y, m) \in Int /\ Date(y, 1, 1) \in Int
         /\ Date(y, m, d) = Date(y, 1, 1) - 1 + DaysBefore(y, m) + d
         /\ Date(y, m, d) \in Int
<1>1. DaysBefore(y, m) \in Int /\ DaysBefore(y, 1) = 0
  BY DEF DaysBefore
<1>2. PICK w \in Int : \A n \in 1..12, e \in Int : Date(y, n, e) = w + DaysBefore(y, n) + e
  BY DEF Date
<1>3. /\ Date(y, m, d) = w + DaysBefore(y, m) + d
      /\ Date(y, 1, 1) = w + 1
  BY <1>1, <1>2
<1> QED BY <1>1, <1>3

LEMMA DayOfMonth ==
  ASSUME NEW y \in Nat, NEW m \in 1..12, NEW d \in Int
  PROVE  /\ Date(y, m, d) = Date(y, m, 1) + d - 1
         /\ Date(y, m, d) \in Int /\ Date(y, m, 1) \in Int
<1>1. /\ Date(y, m, d) = Date(y, 1, 1) - 1 + DaysBefore(y, m) + d
      /\ Date(y, m, d) \in Int /\ Date(y, 1, 1) \in Int /\ DaysBefore(y, m) \in Int
  BY DaysOfYear
<1>2. Date(y, m, 1) = Date(y, 1, 1) - 1 + DaysBefore(y, m) + 1
  BY DaysOfYear, 1 \in Int
<1> QED BY <1>1, <1>2

LEMMA FirstsOfMonths ==
  ASSUME NEW y \in Nat
  PROVE  \E leap \in {0, 1}, first \in Int :
           /\ Date(y, 1, 1) = first /\ Date(y, 2, 1) = first + 31
           /\ Date(y, 3, 1) = first + 59 + leap /\ Date(y, 4, 1) = first + 90 + leap
           /\ Date(y, 5, 1) = first + 120 + leap /\ Date(y, 6, 1) = first + 151 + leap
           /\ Date(y, 7, 1) = first + 181 + leap /\ Date(y, 8, 1) = first + 212 + leap
           /\ Date(y, 9, 1) = first + 243 + leap /\ Date(y, 10, 1) = first + 273 + leap
           /\ Date(y, 11, 1) = first + 304 + leap /\ Date(y, 12, 1) = first + 334 + leap
<1>1. PICK leap \in {0, 1} :
        /\ DaysBefore(y, 1) = 0 /\ DaysBefore(y, 2) = 31 /\ DaysBefore(y, 3) = 59 + leap
        /\ DaysBefore(y, 4) = 90 + leap /\ DaysBefore(y, 5) = 120 + leap
        /\ DaysBefore(y, 6) = 151 + leap /\ DaysBefore(y, 7) = 181 + leap
        /\ DaysBefore(y, 8) = 212 + leap /\ DaysBefore(y, 9) = 243 + leap
        /\ DaysBefore(y, 10) = 273 + leap /\ DaysBefore(y, 11) = 304 + leap
        /\ DaysBefore(y, 12) = 334 + leap
  BY DaysBeforeMonths
<1>2. \A m \in 1..12 : /\ Date(y, m, 1) = Date(y, 1, 1) - 1 + DaysBefore(y, m) + 1
                       /\ Date(y, 1, 1) \in Int
  BY DaysOfYear, 1 \in Int
<1>3. Date(y, 1, 1) \in Int
  BY <1>2, 1 \in 1..12
<1> WITNESS leap \in {0, 1}, Date(y, 1, 1) \in Int
<1> QED BY <1>1, <1>2, <1>3

-----------------------------------------------------------------------------
(* The first week of August holds no holiday.                              *)

LEMMA NthWeekdayWithin ==
  ASSUME NEW y \in Nat \ {0}, NEW m \in 1..12, NEW weekday \in 0..6, NEW n \in 1..4
  PROVE  /\ NthWeekday(y, m, weekday, n) \in Int
         /\ Date(y, m, 1) <= NthWeekday(y, m, weekday, n)
         /\ NthWeekday(y, m, weekday, n) <= Date(y, m, 1) + 27
<1>1. Date(y, m, 1) \in Int
  BY DaysOfYear, y \in Nat, 1 \in Int
<1>2. (weekday - Weekday(Date(y, m, 1))) % 7 \in 0..6
  BY <1>1 DEF Weekday
<1> QED BY <1>1, <1>2 DEF NthWeekday

LEMMA ObservedNear ==
  ASSUME NEW d \in Int
  PROVE  Observed(d) \in Int /\ d - 1 <= Observed(d) /\ Observed(d) <= d + 1
<1>1. Weekday(d) \in Int
  BY DEF Weekday
<1> QED BY <1>1 DEF Observed

LEMMA EasterInSpring ==
  ASSUME NEW y \in Nat \ {0}
  PROVE  /\ Easter(y) \in Int
         /\ Date(y, 3, 1) <= Easter(y) /\ Easter(y) <= Date(y, 4, 1) + 30
<1> DEFINE a   == y % 19
           b   == y \div 100
           c   == y % 100
           g   == (b - (b + 8) \div 25 + 1) \div 3
           h   == (19 * a + b - b \div 4 - g + 15) % 30
           lam == (32 + 2 * (b % 4) + 2 * (c \div 4) - h - (c % 4)) % 7
           m   == (a + 11 * h + 22 * lam) \div 451
           n   == h + lam - 7 * m + 114
<1>1. Easter(y) = Date(y, n \div 31, (n % 31) + 1)
  BY Zenon DEF Easter
<1>2. a \in 0..18 /\ b \in Nat /\ c \in 0..99 /\ g \in Int
  OBVIOUS
<1> HIDE DEF a, b, c, g
<1>3. h \in 0..29
  BY <1>2
<1> HIDE DEF h
<1>4. lam \in 0..6
  BY <1>2, <1>3
<1> HIDE DEF lam
<1>5. m \in {0, 1}
  BY <1>2, <1>3, <1>4
<1> HIDE DEF m
<1>6. n \in 107..149
  BY <1>3, <1>4, <1>5
<1> HIDE DEF n
<1>7. n \div 31 \in {3, 4} /\ (n % 31) + 1 \in 1..31
  BY <1>6
<1>8. PICK leap \in {0, 1}, first \in Int :
        Date(y, 3, 1) = first + 59 + leap /\ Date(y, 4, 1) = first + 90 + leap
  BY FirstsOfMonths, y \in Nat
<1>9. PICK k \in {3, 4}, e \in 1..31 : Easter(y) = Date(y, k, e)
  BY <1>1, <1>7
<1>10. Date(y, k, e) = Date(y, k, 1) + e - 1
  <2>1. k \in 1..12 /\ e \in Int /\ y \in Nat
    OBVIOUS
  <2> QED BY <2>1, DayOfMonth
<1>11. CASE k = 3
  BY <1>8, <1>9, <1>10, <1>11
<1>12. CASE k = 4
  BY <1>8, <1>9, <1>10, <1>12
<1> QED BY <1>11, <1>12

(* A date of a month is in its year; no month's last is asked about here.  *)
LEMMA YearOfDate ==
  ASSUME NEW y \in Nat \ {0}, NEW m \in 1..12, NEW d \in 1..30
  PROVE  /\ YearOf(Date(y, m, d)) = y /\ Date(y, m, d) \in Int
         /\ Date(y, 1, 1) <= Date(y, m, d) /\ Date(y, m, d) < Date(y + 1, 1, 1)
<1>1. /\ Date(y, m, d) = Date(y, 1, 1) - 1 + DaysBefore(y, m) + d
      /\ Date(y, m, d) \in Int /\ Date(y, 1, 1) \in Int /\ DaysBefore(y, m) \in Int
  BY DaysOfYear, y \in Nat, d \in Int
<1>2. DaysBefore(y, m) >= 0 /\ DaysBefore(y, m) <= 335
  <2>1. PICK leap \in {0, 1} :
           /\ DaysBefore(y, 1) = 0 /\ DaysBefore(y, 2) = 31 /\ DaysBefore(y, 3) = 59 + leap
           /\ DaysBefore(y, 4) = 90 + leap /\ DaysBefore(y, 5) = 120 + leap
           /\ DaysBefore(y, 6) = 151 + leap /\ DaysBefore(y, 7) = 181 + leap
           /\ DaysBefore(y, 8) = 212 + leap /\ DaysBefore(y, 9) = 243 + leap
           /\ DaysBefore(y, 10) = 273 + leap /\ DaysBefore(y, 11) = 304 + leap
           /\ DaysBefore(y, 12) = 334 + leap
    BY DaysBeforeMonths, y \in Nat
  <2> QED BY <2>1
<1>3. 365 <= Date(y + 1, 1, 1) - Date(y, 1, 1) /\ Date(y + 1, 1, 1) \in Int
  BY YearLength, y \in Nat, y + 1 \in Nat
<1>4. Date(y, 1, 1) <= Date(y, m, d) /\ Date(y, m, d) < Date(y + 1, 1, 1)
  BY <1>1, <1>2, <1>3
<1>5. Date(y, m, d) \in Date(y, 1, 1)..(Date(y + 1, 1, 1) - 1)
  BY <1>1, <1>3, <1>4
<1> QED BY <1>1, <1>4, <1>5, YearOfItsDays

LEMMA UnscheduledOutsideAugust ==
  ASSUME NEW y \in Nat \ {0}, NEW d \in UnscheduledClosures, YearOf(d) = y
  PROVE  d \in Int /\ (d < Date(y, 8, 1) \/ d > Date(y, 8, 7))
<1>1. \E z \in Nat \ {0}, m \in 1..12, e \in 1..30 : d = Date(z, m, e) /\ m # 8
  <2>1. CASE d \in {Date(2001, 9, e) : e \in 11..14}
    <3>1. PICK e \in 11..14 : d = Date(2001, 9, e)
      BY <2>1
    <3>2. e \in 1..30
      BY <3>1
    <3> QED BY <3>1, <3>2
  <2>2. CASE d \in {Date(2004, 6, 11), Date(2007, 1, 2), Date(2018, 12, 5),
                    Date(2012, 10, 29), Date(2012, 10, 30), Date(2025, 1, 9)}
    BY <2>2
  <2>3. \/ d \in {Date(2001, 9, e) : e \in 11..14}
        \/ d \in {Date(2004, 6, 11), Date(2007, 1, 2), Date(2018, 12, 5),
                 Date(2012, 10, 29), Date(2012, 10, 30), Date(2025, 1, 9)}
    BY DEF UnscheduledClosures
  <2> QED BY <2>1, <2>2, <2>3
<1>2. PICK z \in Nat \ {0}, m \in 1..12, e \in 1..30 : d = Date(z, m, e) /\ m # 8
  BY <1>1
<1>3. z = y
  <2>1. z \in Nat \ {0} /\ m \in 1..12 /\ e \in 1..30
    OBVIOUS
  <2>2. YearOf(Date(z, m, e)) = z
    BY <2>1, YearOfDate
  <2>3. YearOf(Date(z, m, e)) = y
    BY <1>2
  <2> QED BY <2>2, <2>3
<1>4. d = Date(y, m, 1) + e - 1 /\ d \in Int
  <2>1. y \in Nat /\ m \in 1..12 /\ e \in Int
    OBVIOUS
  <2>2. Date(y, m, e) = Date(y, m, 1) + e - 1 /\ Date(y, m, e) \in Int
    BY <2>1, DayOfMonth
  <2> QED BY <1>2, <1>3, <2>2
<1>5. Date(y, 8, 7) = Date(y, 8, 1) + 6
  BY DayOfMonth, y \in Nat, 8 \in 1..12, 7 \in Int
<1> QED BY <1>2, <1>4, <1>5, FirstsOfMonths, y \in Nat

LEMMA HolidaysOutsideAugust ==
  ASSUME NEW y \in Nat \ {0}, NEW d \in Holidays(y)
  PROVE  d < Date(y, 8, 1) \/ d > Date(y, 8, 7)
<1>0. y \in Nat
  OBVIOUS
<1>1. PICK leap \in {0, 1}, first \in Int :
        /\ Date(y, 1, 1) = first /\ Date(y, 2, 1) = first + 31
        /\ Date(y, 3, 1) = first + 59 + leap /\ Date(y, 4, 1) = first + 90 + leap
        /\ Date(y, 5, 1) = first + 120 + leap /\ Date(y, 6, 1) = first + 151 + leap
        /\ Date(y, 7, 1) = first + 181 + leap /\ Date(y, 8, 1) = first + 212 + leap
        /\ Date(y, 9, 1) = first + 243 + leap /\ Date(y, 10, 1) = first + 273 + leap
        /\ Date(y, 11, 1) = first + 304 + leap /\ Date(y, 12, 1) = first + 334 + leap
  BY FirstsOfMonths, <1>0
<1>2. Date(y, 8, 7) = first + 218 + leap
  <2>1. Date(y, 8, 7) = Date(y, 8, 1) + 7 - 1
    BY DayOfMonth, <1>0, 8 \in 1..12, 7 \in Int
  <2> QED BY <1>1, <2>1
<1>3. d \in {NthWeekday(y, 2, 0, 3), Easter(y) - 2, LastWeekday(y, 5, 0), Observed(Date(y, 7, 4)),
             NthWeekday(y, 9, 0, 1), NthWeekday(y, 11, 3, 4), Observed(Date(y, 12, 25)),
             Observed(Date(y, 1, 1)), NthWeekday(y, 1, 0, 3), Observed(Date(y, 6, 19))}
            \cup {c \in UnscheduledClosures : YearOf(c) = y}
  <2> DEFINE A == {NthWeekday(y, 2, 0, 3), Easter(y) - 2, LastWeekday(y, 5, 0), Observed(Date(y, 7, 4)),
                   NthWeekday(y, 9, 0, 1), NthWeekday(y, 11, 3, 4), Observed(Date(y, 12, 25))}
             B == IF Weekday(Date(y, 1, 1)) # 5 THEN {Observed(Date(y, 1, 1))} ELSE {}
             C == IF y >= 1998 THEN {NthWeekday(y, 1, 0, 3)} ELSE {}
             D == IF y >= 2022 THEN {Observed(Date(y, 6, 19))} ELSE {}
             E == {c \in UnscheduledClosures : YearOf(c) = y}
  <2>1. d \in A \cup B \cup C \cup D \cup E
    BY Zenon DEF Holidays
  <2>2. /\ B \subseteq {Observed(Date(y, 1, 1))} /\ C \subseteq {NthWeekday(y, 1, 0, 3)}
        /\ D \subseteq {Observed(Date(y, 6, 19))}
    OBVIOUS
  <2> HIDE DEF B, C, D, E
  <2> QED BY <2>1, <2>2 DEF E
<1>4. \/ \E m \in {1, 2, 9, 11}, w \in {0, 3}, n \in {1, 3, 4} : d = NthWeekday(y, m, w, n)
      \/ d = Easter(y) - 2
      \/ d = LastWeekday(y, 5, 0)
      \/ \E m \in {1, 6, 7, 12}, e \in {1, 4, 19, 25} :
            d = Observed(Date(y, m, e)) /\ (m = 7 => e = 4) /\ (m = 12 => e = 25)
      \/ d \in UnscheduledClosures /\ YearOf(d) = y
  BY <1>3
<1>5. CASE \E m \in {1, 2, 9, 11}, w \in {0, 3}, n \in {1, 3, 4} : d = NthWeekday(y, m, w, n)
  <2>1. PICK m \in {1, 2, 9, 11}, w \in {0, 3}, n \in {1, 3, 4} : d = NthWeekday(y, m, w, n)
    BY <1>5
  <2>2. m \in 1..12 /\ w \in 0..6 /\ n \in 1..4
    OBVIOUS
  <2>3. d \in Int /\ Date(y, m, 1) <= d /\ d <= Date(y, m, 1) + 27
    BY <2>1, <2>2, NthWeekdayWithin
  <2> QED BY <1>1, <1>2, <2>3
<1>6. CASE d = Easter(y) - 2
  <2>1. Easter(y) \in Int /\ Easter(y) <= Date(y, 4, 1) + 30
    BY EasterInSpring
  <2> QED BY <1>1, <1>6, <2>1
<1>7. CASE d = LastWeekday(y, 5, 0)
  <2>1. Date(y + 5 \div 12, (5 % 12) + 1, 1) = Date(y, 6, 1)
    <3>1. y + 5 \div 12 = y /\ (5 % 12) + 1 = 6
      OBVIOUS
    <3> QED BY <3>1
  <2>2. Date(y, 6, 1) \in Int
    BY <1>1
  <2>3. d <= Date(y, 6, 1) - 1 /\ d \in Int
    BY <1>7, <2>1, <2>2 DEF LastWeekday, Weekday
  <2> QED BY <1>1, <2>3
<1>8. CASE \E m \in {1, 6, 7, 12}, e \in {1, 4, 19, 25} :
             d = Observed(Date(y, m, e)) /\ (m = 7 => e = 4) /\ (m = 12 => e = 25)
  <2>1. PICK m \in {1, 6, 7, 12}, e \in {1, 4, 19, 25} :
               d = Observed(Date(y, m, e)) /\ (m = 7 => e = 4) /\ (m = 12 => e = 25)
    BY <1>8
  <2>2. Date(y, m, e) = Date(y, m, 1) + e - 1 /\ Date(y, m, e) \in Int
    <3>1. m \in 1..12 /\ e \in Int
      OBVIOUS
    <3> QED BY <1>0, <3>1, DayOfMonth
  <2>3. d \in Int /\ Date(y, m, e) - 1 <= d /\ d <= Date(y, m, e) + 1
    BY <2>1, <2>2, ObservedNear
  <2> QED BY <1>1, <1>2, <2>1, <2>2, <2>3
<1>9. CASE d \in UnscheduledClosures /\ YearOf(d) = y
  BY <1>9, UnscheduledOutsideAugust
<1> QED BY <1>4, <1>5, <1>6, <1>7, <1>8, <1>9

(* However the holidays fall, the exchange opens in every year.            *)
LEMMA EveryYearHasASession ==
  ASSUME NEW y \in Years \ {0}, Years \subseteq Nat
  PROVE  \E d \in Date(y, 1, 1)..(Date(y + 1, 1, 1) - 1) : IsSession("nyse", d)
<1>1. y \in Nat \ {0} /\ y \in Nat
  OBVIOUS
<1>2. Date(y, 8, 1) \in Int /\ Date(y, 8, 7) = Date(y, 8, 1) + 6
  <2>1. /\ Date(y, 8, 1) = Date(y, 1, 1) - 1 + DaysBefore(y, 8) + 1 /\ Date(y, 8, 1) \in Int
        /\ Date(y, 1, 1) \in Int /\ DaysBefore(y, 8) \in Int
    BY DaysOfYear, <1>1, 8 \in 1..12, 1 \in Int
  <2>2. Date(y, 8, 7) = Date(y, 1, 1) - 1 + DaysBefore(y, 8) + 7
    BY DaysOfYear, <1>1, 8 \in 1..12, 7 \in Int
  <2> QED BY <2>1, <2>2
<1>3. PICK d \in Date(y, 8, 1)..Date(y, 8, 7) : Weekday(d) = 0
  <2>1. \A x \in Int : \E e \in 0..6 : (x + e + 6) % 7 = 0
    <3> TAKE x \in Int
    <3> DEFINE r == (x + 6) % 7
    <3>1. r \in 0..6 /\ x + 6 = 7 * ((x + 6) \div 7) + r
      OBVIOUS
    <3>2. CASE r = 0
      BY <3>2, x + 0 + 6 = x + 6, 0 \in 0..6
    <3>3. CASE r # 0
      <4>1. 7 - r \in 0..6
        BY <3>1, <3>3
      <4>2. x + (7 - r) + 6 = 7 * ((x + 6) \div 7 + 1)
        BY <3>1
      <4>3. (7 * ((x + 6) \div 7 + 1)) % 7 = 0
        OBVIOUS
      <4> QED BY <4>1, <4>2, <4>3
    <3> QED BY <3>2, <3>3
  <2>2. PICK e \in 0..6 : (Date(y, 8, 1) + e + 6) % 7 = 0
    BY <1>2, <2>1
  <2>3. Date(y, 8, 1) + e \in Date(y, 8, 1)..Date(y, 8, 7)
    BY <1>2
  <2> QED BY <2>2, <2>3 DEF Weekday
<1>4. /\ Date(y, 1, 1) <= Date(y, 8, 1) /\ Date(y, 8, 7) < Date(y + 1, 1, 1)
      /\ Date(y, 1, 1) \in Int /\ Date(y + 1, 1, 1) \in Int
  <2>1. /\ Date(y, 1, 1) <= Date(y, 8, 1) /\ Date(y, 8, 7) < Date(y + 1, 1, 1)
    BY <1>1, YearOfDate, 8 \in 1..12, 1 \in 1..30, 7 \in 1..30
  <2>2. Date(y, 1, 1) \in Int /\ Date(y + 1, 1, 1) \in Int
    BY <1>1, YearLength, y + 1 \in Nat
  <2> QED BY <2>1, <2>2
<1>5. d \in Date(y, 1, 1)..(Date(y + 1, 1, 1) - 1)
  BY <1>2, <1>3, <1>4
<1>6. YearOf(d) = y
  BY <1>1, <1>5, YearOfItsDays
<1>7. d \notin Holidays(y)
  BY <1>1, <1>2, <1>3, HolidaysOutsideAugust
<1>8. IsSession("nyse", d)
  <2>1. HolidaysIn[YearOf(d)] = Holidays(y)
    BY <1>6 DEF HolidaysIn
  <2> QED BY <1>3, <1>7, <2>1 DEF IsSession
<1> QED BY <1>5, <1>8

-----------------------------------------------------------------------------
(* Sessions: where they lie, and the one a bar is of.                      *)

Markets == {"nyse", "continuous"}

LEMMA SessionShape ==
  ASSUME NEW c \in Markets, NEW d \in Int, IsSession(c, d)
  PROVE  LET s == SessionOn(c, d)
         IN  /\ s = [date |-> d, open |-> s.open, close |-> s.close]
             /\ s.open \in Int /\ s.close \in Int /\ s.open < s.close
             /\ d * 48 <= s.open /\ s.close <= d * 48 + 48
             /\ c = "nyse" => /\ Offset(c, d) \in {8, 10}
                              /\ s.open = d * 48 + 19 + Offset(c, d)
                              /\ s.close <= d * 48 + 32 + Offset(c, d)
             /\ c = "continuous" => s.open = d * 48 /\ s.close = d * 48 + 48
<1> DEFINE s == SessionOn(c, d)
<1>1. s = BuildSession(c, d, OpenTime(c), CloseTime(c, d))
  BY DEF SessionOn
<1>2. CASE c = "nyse"
  <2>1. Offset(c, d) \in {8, 10} /\ OpenTime(c) = 19 /\ CloseTime(c, d) \in {26, 32}
    BY <1>2 DEF Offset, OpenTime, CloseTime, RegularHours, NyseHours, NyseEarlyClose
  <2>2. s = [date |-> d, open |-> d * 48 + 19 + Offset(c, d),
             close |-> d * 48 + CloseTime(c, d) + Offset(c, d)]
    BY <1>1, <2>1 DEF BuildSession, Utc, Units
  <2>3. d * 48 \in Int /\ s.date = d /\ s.open = d * 48 + 19 + Offset(c, d)
        /\ s.close = d * 48 + CloseTime(c, d) + Offset(c, d)
    BY <2>2
  <2>4. s = [date |-> d, open |-> s.open, close |-> s.close]
    BY <2>2, <2>3, Zenon
  <2> QED BY <1>2, <2>1, <2>3, <2>4
<1>3. CASE c = "continuous"
  <2>1. Offset(c, d) = 0 /\ Offset(c, d + 1) = 0 /\ OpenTime(c) = 0 /\ CloseTime(c, d) = 0
    BY <1>3 DEF Offset, OpenTime, CloseTime, RegularHours, ContinuousHours, IsHalfDay
  <2>2. s = [date |-> d, open |-> d * 48, close |-> d * 48 + 48]
    BY <1>1, <2>1 DEF BuildSession, Utc, Units
  <2>3. d * 48 \in Int /\ s.date = d /\ s.open = d * 48 /\ s.close = d * 48 + 48
    BY <2>2
  <2>4. s = [date |-> d, open |-> s.open, close |-> s.close]
    BY <2>2, <2>3, Zenon
  <2> QED BY <1>3, <2>3, <2>4
<1> QED BY <1>2, <1>3 DEF Markets

LEMMA SessionOrNone ==
  ASSUME NEW c \in Markets, NEW d \in Int
  PROVE  SessionOn(c, d) # NoSession <=> IsSession(c, d)
<1>1. CASE IsSession(c, d)
  <2>1. SessionOn(c, d).open < SessionOn(c, d).close
    BY <1>1, SessionShape
  <2> QED BY <1>1, <2>1 DEF NoSession
<1>2. CASE ~IsSession(c, d)
  BY <1>2 DEF SessionOn
<1> QED BY <1>1, <1>2

LEMMA SessionsBetweenAre ==
  ASSUME NEW c \in Markets, NEW from \in Int, NEW to \in Int
  PROVE  SessionsBetween(c, from, to) = {SessionOn(c, d) : d \in {e \in from..to : IsSession(c, e)}}
<1>1. \A d \in from..to : SessionOn(c, d) # NoSession <=> IsSession(c, d)
  BY SessionOrNone
<1> QED BY <1>1 DEF SessionsBetween

(* No session begins before the one of an earlier day has closed. *)
LEMMA SessionsApart ==
  ASSUME NEW c \in Markets, NEW d \in Int, NEW e \in Int, d < e, IsSession(c, d), IsSession(c, e)
  PROVE  SessionOn(c, d).close <= SessionOn(c, e).open
<1>1. SessionOn(c, d).close <= d * 48 + 48 /\ SessionOn(c, d).close \in Int
  BY SessionShape
<1>2. e * 48 <= SessionOn(c, e).open /\ SessionOn(c, e).open \in Int
  BY SessionShape
<1>3. d * 48 + 48 <= e * 48
  OBVIOUS
<1> QED BY <1>1, <1>2, <1>3

LEMMA LatestOfOne ==
  /\ Latest({}) = NoSession
  /\ \A s : s.date <= s.date => Latest({s}) = s
<1>1. Latest({}) = NoSession
  BY DEF Latest
<1>2. ASSUME NEW s, s.date <= s.date
      PROVE  Latest({s}) = s
  <2>1. Latest({s}) = CHOOSE r \in {s} : \A t \in {s} : t.date <= r.date
    BY Zenon DEF Latest
  <2>2. \E r \in {s} : \A t \in {s} : t.date <= r.date
    BY <1>2
  <2> QED BY <2>1, <2>2, Zenon
<1> QED BY <1>1, <1>2

(* The local date of a moment in or shortly before a session. *)
LEMMA LocalDateOf ==
  ASSUME NEW c \in Markets, NEW d \in Int, NEW m \in Int,
         c = "nyse" => d * 48 + Offset(c, d) <= m /\ m <= d * 48 + 47 /\ Offset(c, d) \in {8, 10},
         c = "continuous" => d * 48 <= m /\ m <= d * 48 + 47
  PROVE  LocalDate(c, m) = d
<1>1. CASE c = "nyse"
  <2>1. m \div 48 = d
    BY <1>1
  <2>2. (m - Offset(c, d)) \div 48 = d
    BY <1>1
  <2> QED BY <2>1, <2>2 DEF LocalDate, Units
<1>2. CASE c = "continuous"
  <2>1. m \div 48 = d
    BY <1>2
  <2>2. LocalDate(c, m) = (m - 0) \div 48
    BY <1>2 DEF LocalDate, Offset, Units
  <2> QED BY <2>1, <2>2
<1> QED BY <1>1, <1>2 DEF Markets

(* A bar is of the session it closes within, or at the end of. *)
LEMMA BarCloseSession ==
  ASSUME NEW c \in Markets, NEW d \in Int, IsSession(c, d), NEW m \in Int,
         SessionOn(c, d).open < m, m <= SessionOn(c, d).close
  PROVE  /\ SessionForBarClose(c, m) = SessionOn(c, d)
         /\ c = "nyse" => SessionFor(c, m) = SessionOn(c, d)
<1> DEFINE s == SessionOn(c, d)
           near == SessionsBetween(c, LocalDate(c, m) - 1, LocalDate(c, m))
<1>1. /\ s = [date |-> d, open |-> s.open, close |-> s.close]
      /\ s.open \in Int /\ s.close \in Int /\ s.open < s.close
      /\ d * 48 <= s.open /\ s.close <= d * 48 + 48
      /\ c = "nyse" => /\ Offset(c, d) \in {8, 10}
                       /\ s.open = d * 48 + 19 + Offset(c, d)
                       /\ s.close <= d * 48 + 32 + Offset(c, d)
      /\ c = "continuous" => s.open = d * 48 /\ s.close = d * 48 + 48
  BY SessionShape
<1>2. s.date = d /\ s.date <= s.date
  BY <1>1
<1>3. /\ LocalDate(c, m) \in {d, d + 1}
      /\ c = "nyse" => LocalDate(c, m) = d
  <2>1. CASE c = "nyse"
    <3>1. d * 48 + Offset(c, d) <= m /\ m <= d * 48 + 47
      BY <1>1, <2>1
    <3>2. c # "continuous"
      BY <2>1
    <3> QED BY <1>1, <2>1, <3>1, <3>2, LocalDateOf
  <2>2. CASE c = "continuous" /\ m < d * 48 + 48
    <3>1. d * 48 <= m /\ m <= d * 48 + 47 /\ c # "nyse"
      BY <1>1, <2>2
    <3> QED BY <3>1, LocalDateOf
  <2>3. CASE c = "continuous" /\ m >= d * 48 + 48
    <3>1. (d + 1) * 48 <= m /\ m <= (d + 1) * 48 + 47 /\ c # "nyse" /\ d + 1 \in Int
      BY <1>1, <2>3
    <3> QED BY <3>1, LocalDateOf
  <2> QED BY <1>1, <2>1, <2>2, <2>3 DEF Markets
<1>4. {r \in near : r.open < m /\ m <= r.close} = {s}
  <2>1. near = {SessionOn(c, e) : e \in {e \in (LocalDate(c, m) - 1)..LocalDate(c, m) : IsSession(c, e)}}
    BY <1>3, SessionsBetweenAre
  <2>2. s \in near
    <3>1. d \in (LocalDate(c, m) - 1)..LocalDate(c, m)
      BY <1>3
    <3> QED BY <2>1, <3>1
  <2>3. ASSUME NEW r \in near, r.open < m, m <= r.close
        PROVE  r = s
    <3>1. PICK e \in (LocalDate(c, m) - 1)..LocalDate(c, m) : IsSession(c, e) /\ r = SessionOn(c, e)
      BY <2>1
    <3>2. e \in Int
      BY <1>3
    <3>3. r.open \in Int /\ r.close \in Int
      BY <3>1, <3>2, SessionShape
    <3>4. CASE e < d
      <4>1. r.close <= s.open
        BY <3>1, <3>2, <3>4, SessionsApart
      <4> QED BY <1>1, <2>3, <3>3, <4>1
    <3>5. CASE d < e
      <4>1. s.close <= r.open
        BY <3>1, <3>2, <3>5, SessionsApart
      <4> QED BY <1>1, <2>3, <3>3, <4>1
    <3>6. CASE e = d
      BY <3>1, <3>6
    <3> QED BY <3>2, <3>4, <3>5, <3>6
  <2> HIDE DEF near, s
  <2> QED BY <2>2, <2>3 DEF s
<1>5. SessionForBarClose(c, m) = Latest({r \in near : r.open < m /\ m <= r.close})
  BY Zenon DEF SessionForBarClose
<1>6. SessionForBarClose(c, m) = s
  BY <1>2, <1>4, <1>5, LatestOfOne, Zenon
<1>7. ASSUME c = "nyse"
      PROVE  SessionFor(c, m) = s
  <2>1. SessionAt(c, m) = s
    BY <1>3, <1>7 DEF SessionAt
  <2>2. s # NoSession /\ m \in s.open..s.close
    BY <1>1, SessionOrNone
  <2>3. {r \in {s} : r # NoSession /\ m \in r.open..r.close} = {s}
    BY <2>2, Zenon
  <2> QED BY <1>2, <2>1, <2>3, LatestOfOne, Zenon DEF SessionFor
<1> QED BY <1>6, <1>7

(* A bar that closes by the bell has no session yet: the one before closed  *)
(* the evening before.                                                     *)
LEMMA BarBeforeTheBell ==
  ASSUME NEW d \in Int, IsSession("nyse", d), NEW w \in {0, 1, 2, 8}
  PROVE  SessionForBarClose("nyse", SessionOn("nyse", d).open - w) = NoSession
<1> DEFINE c == "nyse"
           s == SessionOn(c, d)
           m == s.open - w
           near == SessionsBetween(c, LocalDate(c, m) - 1, LocalDate(c, m))
<1>0. c \in Markets
  BY DEF Markets
<1>1. /\ s.open \in Int /\ Offset(c, d) \in {8, 10}
      /\ s.open = d * 48 + 19 + Offset(c, d)
  BY <1>0, SessionShape
<1>2. m \in Int /\ d * 48 + Offset(c, d) <= m /\ m <= d * 48 + 47 /\ d * 48 < m
  BY <1>1
<1>3. LocalDate(c, m) = d
  BY <1>0, <1>1, <1>2, c # "continuous", LocalDateOf
<1>4. {r \in near : r.open < m /\ m <= r.close} = {}
  <2>1. near = {SessionOn(c, e) : e \in {e \in (d - 1)..d : IsSession(c, e)}}
    BY <1>0, <1>3, SessionsBetweenAre
  <2>2. ASSUME NEW r \in near
        PROVE  ~(r.open < m /\ m <= r.close)
    <3>1. PICK e \in (d - 1)..d : IsSession(c, e) /\ r = SessionOn(c, e)
      BY <2>1
    <3>2. CASE e = d
      BY <1>1, <3>1, <3>2
    <3>3. CASE e = d - 1
      <4>1. r.close <= e * 48 + 48 /\ r.close \in Int
        BY <1>0, <3>1, SessionShape, e \in Int
      <4> QED BY <1>2, <3>3, <4>1
    <3> QED BY <3>2, <3>3
  <2> QED BY <2>2
<1>5. SessionForBarClose(c, m) = Latest({r \in near : r.open < m /\ m <= r.close})
  BY Zenon DEF SessionForBarClose
<1> QED BY <1>4, <1>5, LatestOfOne

(* The bars of a regular session: after the bell, the last at the close,   *)
(* the first a width after the bell or, of a session shorter than that,    *)
(* the only one.                                                           *)
LEMMA BarsOfSession ==
  ASSUME NEW s, s.open \in Int, s.close \in Int, s.open < s.close, NEW w \in {1, 2, 8, 48}
  PROVE  LET times == TimesOf(s, w)
         IN  /\ times \subseteq Int /\ s.close \in times /\ \E m \in times : \A n \in times : m <= n
             /\ \A m \in times : s.open < m /\ m <= s.close
             /\ \A m \in times : (m <= s.open + w \/ w = 48) => \A n \in times : m <= n
             /\ \A m \in times : (\A n \in times : m <= n) => (m <= s.open + w \/ w = 48)
<1> DEFINE times == TimesOf(s, w)
           inner == {m \in (s.open + w)..(s.close - 1) : (m - s.open) % w = 0}
<1>1. CASE w = 48
  <2>1. times = {s.close}
    BY <1>1 DEF TimesOf, IsIntraday, Units
  <2> HIDE DEF times
  <2> QED BY <1>1, <2>1 DEF times
<1>2. CASE w < 48
  <2>1. times = {s.close} \cup inner
    BY <1>2 DEF TimesOf, IsIntraday, Units
  <2>2. \A m \in inner : m \in Int /\ s.open + w <= m /\ m < s.close
    OBVIOUS
  <2>3. s.open + w < s.close => s.open + w \in inner
    <3>1. (s.open + w) - s.open = w /\ w % w = 0
      OBVIOUS
    <3>2. s.open + w < s.close => s.open + w \in (s.open + w)..(s.close - 1)
      OBVIOUS
    <3> QED BY <3>1, <3>2
  <2> HIDE DEF times, inner
  <2> QED BY <1>2, <2>1, <2>2, <2>3 DEF times
<1> QED BY <1>1, <1>2

(* What the assumption says of the run that is walked. *)
LEMMA RunTyped ==
  ASSUME ScheduleAssumption, run \in Runs
  PROVE  /\ run.calendar \in Markets /\ run.width \in {1, 2, 8, 48}
         /\ run.hours \in {"regular", "early"} /\ run.given \in BOOLEAN
         /\ run.hours = "early" => run.calendar = "nyse"
         /\ run.year \in Years \ {0} /\ run.year \in Nat /\ run.year + 1 \in Nat /\ Years \subseteq Nat
         /\ Date(run.year, 1, 1) \in Int /\ Date(run.year + 1, 1, 1) \in Int
         /\ NewYear = Date(run.year, 1, 1)
<1>1. /\ Years \subseteq Nat
      /\ run.calendar \in {"nyse", "continuous"} /\ run.width \in {1, 2, 8, 48}
      /\ run.hours \in {"regular", "early"} /\ run.given \in BOOLEAN
      /\ run.hours = "early" => run.calendar = "nyse"
      /\ run.year - 1 \in Years /\ run.year \in Years /\ run.year + 1 \in Years
  BY DEF ScheduleAssumption, Units
<1>2. run.year \in Nat /\ run.year + 1 \in Nat /\ run.year # 0
  <2>1. run.year - 1 \in Nat /\ run.year \in Nat
    BY <1>1
  <2> QED BY <2>1
<1>3. Date(run.year, 1, 1) \in Int /\ Date(run.year + 1, 1, 1) \in Int
  BY <1>2, YearLength, run.year + 1 \in Nat
<1> QED BY <1>1, <1>2, <1>3 DEF Markets, NewYear

(* The bars of a day: none without a session; within its session, or at    *)
(* the bell and a width before it.                                         *)
LEMMA BarsOfDay ==
  ASSUME ScheduleAssumption, run \in Runs, NEW d \in Int
  PROVE  /\ ~IsSession(run.calendar, d) => BarsOf(d) = {}
         /\ IsSession(run.calendar, d) =>
              LET s == SessionOn(run.calendar, d)
              IN  /\ run.hours = "regular" => BarsOf(d) = TimesOf(s, run.width)
                  /\ run.hours = "early" => BarsOf(d) = {s.open - run.width, s.open}
         /\ BarsOf(d) \subseteq Int
<1> DEFINE c == run.calendar
           s == SessionOn(c, d)
<1>0. c \in Markets /\ run.width \in {1, 2, 8, 48} /\ run.hours \in {"regular", "early"}
  BY RunTyped
<1>1. SessionsBetween(c, d, d) = {SessionOn(c, e) : e \in {e \in d..d : IsSession(c, e)}}
  BY <1>0, SessionsBetweenAre
<1>2. d..d = {d}
  OBVIOUS
<1>3. ASSUME ~IsSession(c, d)
      PROVE  BarsOf(d) = {}
  <2>1. SessionsBetween(c, d, d) = {}
    BY <1>1, <1>2, <1>3
  <2> QED BY <2>1 DEF BarsOf, BarTimes
<1>4. ASSUME IsSession(c, d)
      PROVE  /\ run.hours = "regular" => BarsOf(d) = TimesOf(s, run.width)
             /\ run.hours = "early" => BarsOf(d) = {s.open - run.width, s.open}
  <2>1. SessionsBetween(c, d, d) = {s}
    <3>1. {e \in d..d : IsSession(c, e)} = {d}
      BY <1>2, <1>4, Zenon
    <3> QED BY <1>1, <3>1, Zenon
  <2>2. UNION {TimesOf(r, run.width) : r \in {s}} = TimesOf(s, run.width)
    BY Zenon
  <2>3. UNION {{r.open - run.width, r.open} : r \in {s}} = {s.open - run.width, s.open}
    BY Zenon
  <2> QED BY <2>1, <2>2, <2>3 DEF BarsOf, BarTimes
<1>5. ASSUME IsSession(c, d)
      PROVE  BarsOf(d) \subseteq Int
  <2>1. s.open \in Int /\ s.close \in Int /\ s.open < s.close
    BY <1>0, <1>5, SessionShape
  <2>2. TimesOf(s, run.width) \subseteq Int
    BY <1>0, <2>1, BarsOfSession
  <2>3. {s.open - run.width, s.open} \subseteq Int
    BY <1>0, <2>1
  <2> QED BY <1>0, <1>4, <1>5, <2>2, <2>3
<1> QED BY <1>3, <1>4, <1>5

LEMMA LeastAbove ==
  ASSUME NEW S \in SUBSET Int, S # {}, NEW b \in Int, \A x \in S : x > b
  PROVE  \E x \in S : \A y \in S : x <= y
<1> DEFINE P == {x - b : x \in S}
<1>1. P \in SUBSET Nat /\ P # {}
  <2>1. \A x \in S : x - b \in Nat
    OBVIOUS
  <2>2. PICK x \in S : TRUE
    OBVIOUS
  <2>3. x - b \in P
    OBVIOUS
  <2> QED BY <2>1, <2>3
<1> HIDE DEF P
<1>2. PICK p \in P : \A q \in P : p <= q
  BY <1>1, MinOfNaturals
<1> USE DEF P
<1>3. PICK x \in S : p = x - b
  OBVIOUS
<1>4. ASSUME NEW y \in S
      PROVE  x <= y
  <2>1. y - b \in P
    OBVIOUS
  <2>2. x - b <= y - b
    BY <1>2, <1>3, <2>1, Zenon
  <2> QED BY <2>2
<1> QED BY <1>4

(* Of two bars or more, the next is the least of what is left. *)
LEMMA NextIsLeast ==
  ASSUME ScheduleAssumption, run \in Runs, day \in Int, bar \in Int, Left # {}
  PROVE  Min(Left) \in BarsOf(day) /\ Min(Left) > bar /\ Min(Left) \in Int
         /\ IsSession(run.calendar, day)
<1>1. IsSession(run.calendar, day)
  BY BarsOfDay DEF Left
<1> DEFINE s == SessionOn(run.calendar, day)
<1>2. BarsOf(day) \subseteq Int
  BY BarsOfDay
<1>3. \E x \in Left : \A y \in Left : x <= y
  BY <1>2, LeastAbove DEF Left
<1>4. Min(Left) \in Left
  BY <1>3, Zenon DEF Min
<1> QED BY <1>1, <1>2, <1>4 DEF Left

-----------------------------------------------------------------------------
(* The walk keeps its invariant.                                           *)

LEMMA ScheduleInvInit ==
  ASSUME ScheduleAssumption, ScheduleInit
  PROVE  ScheduleInv
<1>1. /\ run \in Runs /\ day = NewYear /\ bar = day * 48 /\ steps = 0 /\ closes = 0
  BY DEF ScheduleInit, NewYear, Units
<1>2. NewYear \in Int /\ run.calendar \in Markets
  BY <1>1, RunTyped
<1>3. NewYear..(day - 1) = {}
  BY <1>1, <1>2
<1>4. {s \in SessionsBetween(run.calendar, NewYear, day) : s.close <= bar} = {}
  <2>1. SessionsBetween(run.calendar, NewYear, day)
          = {SessionOn(run.calendar, d) : d \in {e \in NewYear..day : IsSession(run.calendar, e)}}
    BY <1>1, <1>2, SessionsBetweenAre
  <2>2. ASSUME NEW s \in SessionsBetween(run.calendar, NewYear, day), s.close <= bar
        PROVE  FALSE
    <3>1. s = SessionOn(run.calendar, day) /\ IsSession(run.calendar, day)
      <4>1. NewYear..day = {day}
        BY <1>1, <1>2
      <4> QED BY <2>1, <4>1
    <3>2. day * 48 <= s.open /\ s.open < s.close /\ s.open \in Int /\ s.close \in Int
      BY <1>1, <1>2, <3>1, SessionShape
    <3> QED BY <1>1, <1>2, <2>2, <3>2
  <2> QED BY <2>2
<1>5. Cardinality({}) = 0
  BY FS_EmptySet
<1>6. /\ day \in Int /\ bar \in Int /\ bar = NewYear * Units /\ bar <= (day + 1) * Units
      /\ NewYear <= day /\ steps \in Nat /\ closes \in Nat /\ ~(steps > 0)
  BY <1>1, <1>2 DEF Units
<1>7. closes = Cardinality({s \in SessionsBetween(run.calendar, NewYear, day) : s.close <= bar})
  BY <1>1, <1>4, <1>5
<1>8. closes = IF IsIntraday(run.width) THEN 0 ELSE steps
  BY <1>1
<1> QED BY <1>1, <1>3, <1>6, <1>7, <1>8 DEF ScheduleInv

(* What is behind of a regular run before its next bar or day. *)
LEMMA SessionsBehind ==
  ASSUME ScheduleAssumption, ScheduleInv, run.hours = "regular"
  PROVE  LET c == run.calendar
             behind == {SessionOn(c, d) : d \in {e \in NewYear..(day - 1) : IsSession(c, e)}}
         IN  /\ IsFiniteSet(behind)
             /\ \A s \in behind : s.date < day
             /\ {s \in SessionsBetween(c, NewYear, day) : s.close <= bar}
                  = behind \cup (IF IsSession(c, day) /\ SessionOn(c, day).close <= bar
                                 THEN {SessionOn(c, day)} ELSE {})
<1> DEFINE c == run.calendar
           earlier == {e \in NewYear..(day - 1) : IsSession(c, e)}
           behind == {SessionOn(c, d) : d \in earlier}
<1>1. c \in Markets /\ NewYear \in Int /\ day \in Int /\ bar \in Int /\ NewYear <= day
      /\ \A d \in NewYear..(day - 1) : IsSession(c, d) => SessionOn(c, d).close <= bar
  BY RunTyped DEF ScheduleInv
<1>2. IsFiniteSet(behind)
  <2>1. IsFiniteSet(NewYear..(day - 1))
    BY <1>1, FS_Interval
  <2>2. IsFiniteSet(earlier)
    BY <2>1, FS_Subset
  <2> DEFINE f == [d \in earlier |-> SessionOn(c, d)]
  <2>3. f \in [earlier -> behind] /\ \A s \in behind : \E d \in earlier : f[d] = s
    OBVIOUS
  <2> HIDE DEF earlier, behind, f
  <2>4. f \in Surjection(earlier, behind)
    BY <2>3 DEF Surjection
  <2> QED BY <2>2, <2>4, FS_Surjection
<1>3. ASSUME NEW s \in behind
      PROVE  s.date < day
  <2>1. PICK d \in earlier : s = SessionOn(c, d)
    OBVIOUS
  <2>2. d \in Int /\ d < day
    BY <1>1
  <2>3. s.date = d
    <3>1. s = [date |-> d, open |-> s.open, close |-> s.close]
      BY <1>1, <2>1, <2>2, SessionShape
    <3> QED BY <3>1
  <2> QED BY <2>2, <2>3
<1>4. SessionsBetween(c, NewYear, day) = {SessionOn(c, d) : d \in {e \in NewYear..day : IsSession(c, e)}}
  BY <1>1, SessionsBetweenAre
<1>5. NewYear..day = NewYear..(day - 1) \cup {day}
  BY <1>1
<1>6. {s \in SessionsBetween(c, NewYear, day) : s.close <= bar}
        = behind \cup (IF IsSession(c, day) /\ SessionOn(c, day).close <= bar
                       THEN {SessionOn(c, day)} ELSE {})
  BY <1>1, <1>4, <1>5
<1> QED BY <1>2, <1>3, <1>6

LEMMA NextBarKeeps ==
  ASSUME ScheduleAssumption, ScheduleInv, NextBar
  PROVE  ScheduleInv'
<1> DEFINE c == run.calendar
           s == SessionOn(c, day)
           behind == {SessionOn(c, d) : d \in {e \in NewYear..(day - 1) : IsSession(c, e)}}
<1>1. /\ run \in Runs /\ day \in Int /\ bar \in Int /\ steps \in Nat /\ closes \in Nat
      /\ NewYear <= day
  BY DEF ScheduleInv
<1>2. /\ c \in Markets /\ run.width \in {1, 2, 8, 48} /\ run.hours \in {"regular", "early"}
      /\ run.given \in BOOLEAN /\ NewYear \in Int
      /\ run.hours = "early" => c = "nyse"
  BY <1>1, RunTyped
<1>3. /\ run' = run /\ day' = day /\ NewYear' = NewYear /\ steps' = steps + 1
      /\ bar' = Min(Left) /\ flags' = Snapshot(bar') /\ Left # {}
      /\ closes' = IF Snapshot(bar').closes THEN closes + 1 ELSE closes
  BY DEF NextBar, NewYear
<1>4. bar' \in BarsOf(day) /\ bar' > bar /\ bar' \in Int /\ IsSession(c, day)
  BY <1>1, <1>3, NextIsLeast
<1>5. /\ s = [date |-> day, open |-> s.open, close |-> s.close]
      /\ s.open \in Int /\ s.close \in Int /\ s.open < s.close
      /\ day * 48 <= s.open /\ s.close <= day * 48 + 48
  BY <1>1, <1>2, <1>4, SessionShape
<1>6. closes' \in Nat /\ steps' \in Nat /\ steps' > 0
  BY <1>1, <1>3
<1>7. Snapshot(bar)' = Snapshot(bar')
  BY <1>3 DEF Snapshot
<1>8. \E d \in NewYear..day : IsSession(c, d)
  <2>1. day \in NewYear..day
    BY <1>1, <1>2
  <2> QED BY <1>4, <2>1
<1>9. ASSUME run.hours = "regular"
      PROVE  /\ bar' <= (day + 1) * 48
             /\ \A d \in NewYear..(day - 1) : IsSession(c, d) => SessionOn(c, d).close <= bar'
             /\ run.given =>
                  closes' = Cardinality({r \in SessionsBetween(c, NewYear, day) : r.close <= bar'})
  <2>1. BarsOf(day) = TimesOf(s, run.width)
    BY <1>1, <1>4, <1>9, BarsOfDay
  <2>2. s.open < bar' /\ bar' <= s.close
    BY <1>2, <1>4, <1>5, <2>1, BarsOfSession
  <2>3. bar' <= (day + 1) * 48
    BY <1>1, <1>4, <1>5, <2>2
  <2>4. \A d \in NewYear..(day - 1) : IsSession(c, d) =>
          SessionOn(c, d).close <= bar /\ SessionOn(c, d).close \in Int
    BY <1>1, <1>2, <1>9, SessionShape DEF ScheduleInv
  <2>5. \A d \in NewYear..(day - 1) : IsSession(c, d) => SessionOn(c, d).close <= bar'
    BY <1>1, <1>4, <2>4
  <2>6. ASSUME run.given
        PROVE  closes' = Cardinality({r \in SessionsBetween(c, NewYear, day) : r.close <= bar'})
    <3>1. Snapshot(bar').closes <=> bar' = s.close
      <4>1. Snapshot(bar').closes <=> IsSessionClose(c, bar', run.width)
        BY <2>6 DEF Snapshot
      <4>2. SessionForBarClose(c, bar') = s
        BY <1>1, <1>2, <1>4, <2>2, BarCloseSession
      <4>3. s # NoSession
        BY <1>1, <1>2, <1>4, SessionOrNone
      <4>4. CASE IsIntraday(run.width)
        BY <1>4, <1>5, <2>2, <4>1, <4>2, <4>3, <4>4 DEF IsSessionClose, ReachesClose
      <4>5. CASE ~IsIntraday(run.width)
        <5>1. bar' = s.close
          BY <1>4, <2>1, <4>5 DEF TimesOf
        <5> QED BY <4>1, <4>5, <5>1 DEF IsSessionClose
      <4> QED BY <4>4, <4>5
    <3>2. /\ IsFiniteSet(behind) /\ \A r \in behind : r.date < day
          /\ closes = Cardinality({r \in SessionsBetween(c, NewYear, day) : r.close <= bar})
          /\ {r \in SessionsBetween(c, NewYear, day) : r.close <= bar}
               = behind \cup (IF IsSession(c, day) /\ s.close <= bar THEN {s} ELSE {})
      BY <1>9, <2>6, SessionsBehind DEF ScheduleInv
    <3>3. {r \in SessionsBetween(c, NewYear, day) : r.close <= bar} = behind
      <4>1. ~(s.close <= bar)
        BY <1>1, <1>4, <1>5, <2>2
      <4> QED BY <3>2, <4>1
    <3>4. {r \in SessionsBetween(c, NewYear, day) : r.close <= bar'}
            = behind \cup (IF bar' = s.close THEN {s} ELSE {})
      <4>1. SessionsBetween(c, NewYear, day)
              = {SessionOn(c, d) : d \in {e \in NewYear..day : IsSession(c, e)}}
        <5>1. c \in Markets /\ NewYear \in Int /\ day \in Int
          BY <1>1, <1>2
        <5> HIDE DEF c
        <5> QED BY <5>1, SessionsBetweenAre, Zenon
      <4>2. NewYear..day = NewYear..(day - 1) \cup {day}
        BY <1>1, <1>2
      <4>3. s.close <= bar' <=> bar' = s.close
        BY <1>4, <1>5, <2>2
      <4> HIDE DEF c
      <4> QED BY <1>4, <2>5, <4>1, <4>2, <4>3
    <3>5. s \notin behind
      BY <1>1, <1>5, <3>2
    <3> HIDE DEF behind, s
    <3>6. Cardinality(behind \cup {s}) = Cardinality(behind) + 1
      BY <3>2, <3>5, FS_AddElement
    <3> QED BY <1>3, <3>1, <3>2, <3>3, <3>4, <3>6
  <2> QED BY <2>3, <2>5, <2>6
<1>10. ASSUME run.hours = "early", run.given
       PROVE  closes' = IF IsIntraday(run.width) THEN 0 ELSE steps'
  <2>1. c = "nyse" /\ BarsOf(day) = {s.open - run.width, s.open}
    BY <1>1, <1>2, <1>4, <1>10, BarsOfDay
  <2>2. closes = IF IsIntraday(run.width) THEN 0 ELSE steps
    BY <1>10 DEF ScheduleInv
  <2>3. Snapshot(bar').closes <=> IsSessionClose(c, bar', run.width)
    BY <1>10 DEF Snapshot
  <2>4. CASE IsIntraday(run.width)
    <3>1. run.width \in {1, 2, 8}
      BY <1>2, <2>4 DEF IsIntraday, Units
    <3>2. \E w \in {0, 1, 2, 8} : bar' = s.open - w
      BY <1>4, <1>5, <2>1, <3>1
    <3>3. SessionForBarClose(c, bar') = NoSession
      BY <1>1, <1>4, <2>1, <3>2, BarBeforeTheBell
    <3>4. ~IsSessionClose(c, bar', run.width)
      BY <2>4, <3>3 DEF IsSessionClose, ReachesClose
    <3> QED BY <1>3, <2>2, <2>3, <2>4, <3>4
  <2>5. CASE ~IsIntraday(run.width)
    <3>1. IsSessionClose(c, bar', run.width)
      BY <2>5 DEF IsSessionClose
    <3> QED BY <1>3, <2>2, <2>3, <2>5, <3>1
  <2> QED BY <2>4, <2>5
<1> HIDE DEF s, behind
<1> QED BY <1>1, <1>3, <1>4, <1>6, <1>7, <1>8, <1>9, <1>10 DEF ScheduleInv, Units

LEMMA NextDayKeeps ==
  ASSUME ScheduleAssumption, ScheduleInv, NextDay
  PROVE  ScheduleInv'
<1> DEFINE c == run.calendar
<1>1. /\ run \in Runs /\ day \in Int /\ bar \in Int /\ steps \in Nat /\ closes \in Nat
      /\ NewYear <= day
  BY DEF ScheduleInv
<1>2. /\ c \in Markets /\ run.width \in {1, 2, 8, 48} /\ run.hours \in {"regular", "early"}
      /\ run.given \in BOOLEAN /\ NewYear \in Int
      /\ run.hours = "early" => c = "nyse"
  BY <1>1, RunTyped
<1>3. /\ run' = run /\ day' = day + 1 /\ NewYear' = NewYear /\ steps' = steps /\ bar' = bar
      /\ flags' = flags /\ closes' = closes /\ Left = {}
  BY DEF NextDay, NewYear, feed
<1>4. \A m \in BarsOf(day) : m <= bar
  <2>1. BarsOf(day) \subseteq Int
    BY <1>1, BarsOfDay
  <2> QED BY <1>1, <1>3, <2>1 DEF Left
<1>5. NewYear..((day + 1) - 1) = NewYear..(day - 1) \cup {day}
  BY <1>1, <1>2
<1>6. steps = 0 => ~IsSession(c, day)
  <2> SUFFICES ASSUME steps = 0, IsSession(c, day)
               PROVE  FALSE
    OBVIOUS
  <2> DEFINE s == SessionOn(c, day)
  <2>1. bar = NewYear * 48 /\ bar <= day * 48
    BY <1>1, <1>2 DEF ScheduleInv, Units
  <2>2. s.open \in Int /\ s.close \in Int /\ s.open < s.close
    BY <1>1, <1>2, SessionShape
  <2>5. /\ day * 48 <= s.open
        /\ c = "nyse" => s.open = day * 48 + 19 + Offset(c, day) /\ Offset(c, day) \in {8, 10}
    BY <1>1, <1>2, SessionShape
  <2>3. CASE run.hours = "regular"
    <3>1. s.close \in BarsOf(day)
      BY <1>1, <1>2, <2>2, <2>3, BarsOfDay, BarsOfSession
    <3> QED BY <1>1, <1>4, <2>1, <2>2, <2>5, <3>1
  <2>4. CASE run.hours = "early"
    <3>1. s.open \in BarsOf(day)
      BY <1>1, <2>4, BarsOfDay
    <3> QED BY <1>1, <1>2, <1>4, <2>1, <2>2, <2>4, <2>5, <3>1
  <2> QED BY <1>2, <2>3, <2>4
<1>7. steps = 0 => /\ bar = NewYear * 48
                   /\ \A d \in NewYear..((day + 1) - 1) : ~IsSession(c, d)
  BY <1>5, <1>6 DEF ScheduleInv, Units
<1>8. steps > 0 => /\ flags = Snapshot(bar)
                   /\ \E d \in NewYear..(day + 1) : IsSession(c, d)
  <2>1. NewYear..day \subseteq NewYear..(day + 1)
    BY <1>1, <1>2
  <2> QED BY <2>1 DEF ScheduleInv
<1>9. Snapshot(bar)' = Snapshot(bar)
  BY <1>3 DEF Snapshot
<1>10. ASSUME run.hours = "regular"
       PROVE  /\ bar <= (day + 2) * 48
              /\ \A d \in NewYear..((day + 1) - 1) : IsSession(c, d) => SessionOn(c, d).close <= bar
              /\ run.given => closes =
                   Cardinality({s \in SessionsBetween(c, NewYear, day + 1) : s.close <= bar})
  <2>1. bar <= (day + 1) * 48
    BY <1>10 DEF ScheduleInv, Units
  <2>2. IsSession(c, day) => SessionOn(c, day).close <= bar
    <3> SUFFICES ASSUME IsSession(c, day)
                 PROVE  SessionOn(c, day).close <= bar
      OBVIOUS
    <3>1. SessionOn(c, day).close \in BarsOf(day)
      BY <1>1, <1>2, <1>10, BarsOfDay, BarsOfSession, SessionShape
    <3> QED BY <1>4, <3>1
  <2>3. \A d \in NewYear..((day + 1) - 1) : IsSession(c, d) => SessionOn(c, d).close <= bar
    BY <1>5, <1>10, <2>2 DEF ScheduleInv
  <2>4. {s \in SessionsBetween(c, NewYear, day + 1) : s.close <= bar}
          = {s \in SessionsBetween(c, NewYear, day) : s.close <= bar}
    <3>1. /\ SessionsBetween(c, NewYear, day + 1)
               = {SessionOn(c, d) : d \in {e \in NewYear..(day + 1) : IsSession(c, e)}}
          /\ SessionsBetween(c, NewYear, day)
               = {SessionOn(c, d) : d \in {e \in NewYear..day : IsSession(c, e)}}
      <4>1. c \in Markets /\ NewYear \in Int /\ day \in Int /\ day + 1 \in Int
        BY <1>1, <1>2
      <4> HIDE DEF c
      <4> QED BY <4>1, SessionsBetweenAre, Zenon
    <3>2. NewYear..(day + 1) = NewYear..day \cup {day + 1}
      BY <1>1, <1>2
    <3>3. IsSession(c, day + 1) => ~(SessionOn(c, day + 1).close <= bar)
      <4> SUFFICES ASSUME IsSession(c, day + 1)
                   PROVE  ~(SessionOn(c, day + 1).close <= bar)
        OBVIOUS
      <4>1. LET s == SessionOn(c, day + 1)
            IN  s.open \in Int /\ s.close \in Int /\ s.open < s.close /\ (day + 1) * 48 <= s.open
        BY <1>1, <1>2, SessionShape, day + 1 \in Int
      <4> QED BY <1>1, <2>1, <4>1
    <3> HIDE DEF c
    <3> QED BY <1>1, <1>2, <3>1, <3>2, <3>3
  <2>5. run.given =>
          closes = Cardinality({s \in SessionsBetween(c, NewYear, day) : s.close <= bar})
    BY <1>10 DEF ScheduleInv
  <2>6. bar <= (day + 2) * 48
    BY <1>1, <2>1
  <2> HIDE DEF c
  <2> QED BY <2>3, <2>4, <2>5, <2>6
<1> QED BY <1>1, <1>2, <1>3, <1>7, <1>8, <1>9, <1>10 DEF ScheduleInv, Units

-----------------------------------------------------------------------------
(* What the invariant means for the flags.                                 *)

(* A regular bar of the day's session has been walked to. *)
LEMMA RegularBar ==
  ASSUME ScheduleAssumption, ScheduleInv, OnABar, run.hours = "regular"
  PROVE  LET s == SessionOn(run.calendar, day)
         IN  /\ IsSession(run.calendar, day) /\ BarsOf(day) = TimesOf(s, run.width)
             /\ s.open \in Int /\ s.close \in Int /\ s.open < s.close /\ s.date = day
             /\ s.open < bar /\ bar <= s.close /\ s # NoSession
             /\ SessionForBarClose(run.calendar, bar) = s
             /\ run.calendar = "nyse" => SessionFor(run.calendar, bar) = s
             /\ flags = Snapshot(bar)
<1> DEFINE c == run.calendar
           s == SessionOn(c, day)
<1>1. /\ run \in Runs /\ day \in Int /\ bar \in Int /\ steps \in Nat /\ NewYear <= day
      /\ steps = 0 => bar = NewYear * 48
      /\ steps > 0 => flags = Snapshot(bar)
  BY DEF ScheduleInv, Units
<1>2. c \in Markets /\ run.width \in {1, 2, 8, 48} /\ NewYear \in Int
  BY <1>1, RunTyped
<1>3. IsSession(c, day) /\ BarsOf(day) = TimesOf(s, run.width)
  BY <1>1, BarsOfDay DEF OnABar
<1>4. /\ s = [date |-> day, open |-> s.open, close |-> s.close]
      /\ s.open \in Int /\ s.close \in Int /\ s.open < s.close /\ day * 48 <= s.open
  BY <1>1, <1>2, <1>3, SessionShape
<1>5. s.open < bar /\ bar <= s.close
  BY <1>2, <1>3, <1>4, BarsOfSession DEF OnABar
<1>6. /\ SessionForBarClose(c, bar) = s
      /\ c = "nyse" => SessionFor(c, bar) = s
  BY <1>1, <1>2, <1>3, <1>5, BarCloseSession
<1>7. steps # 0
  BY <1>1, <1>2, <1>4, <1>5
<1>8. s # NoSession /\ s.date = day
  <2>1. s.date = day
    BY <1>4
  <2> QED BY <1>1, <1>2, <1>3, <2>1, SessionOrNone
<1> QED BY <1>1, <1>3, <1>4, <1>5, <1>6, <1>7, <1>8

LEMMA FlagsOncePerSession ==
  ASSUME ScheduleAssumption, ScheduleInv
  PROVE  OneOpenOneClose
<1> SUFFICES ASSUME OnABar, run.given, run.hours = "regular"
             PROVE  /\ flags.opens <=> bar = Min(BarsOf(day))
                    /\ flags.closes <=> bar = Max(BarsOf(day))
  BY DEF OneOpenOneClose
<1> DEFINE c == run.calendar
           s == SessionOn(c, day)
           times == BarsOf(day)
<1>1. /\ times = TimesOf(s, run.width) /\ s # NoSession
      /\ s.open \in Int /\ s.close \in Int /\ s.open < s.close
      /\ s.open < bar /\ bar <= s.close
      /\ SessionForBarClose(c, bar) = s /\ flags = Snapshot(bar)
  BY RegularBar
<1>2. run \in Runs /\ bar \in Int /\ bar \in times
  BY DEF ScheduleInv, OnABar
<1>3. run.width \in {1, 2, 8, 48}
  BY <1>2, RunTyped
<1>4. IsIntraday(run.width) <=> run.width # 48
  BY <1>3 DEF IsIntraday, Units
<1>5. flags.opens <=> (bar <= s.open + run.width \/ run.width = 48)
  BY <1>1, <1>4 DEF Snapshot, IsSessionOpen, LeavesOpen
<1>6. flags.closes <=> (bar = s.close \/ run.width = 48)
  <2>1. ReachesClose(s, bar, run.width) <=> bar = s.close
    BY <1>1, <1>2 DEF ReachesClose
  <2>2. flags.closes <=> IsSessionClose(c, bar, run.width)
    BY <1>1 DEF Snapshot
  <2> QED BY <1>1, <1>4, <2>1, <2>2 DEF IsSessionClose
<1>7. /\ times \subseteq Int /\ s.close \in times /\ \E m \in times : \A n \in times : m <= n
      /\ \A m \in times : s.open < m /\ m <= s.close
      /\ \A m \in times : (m <= s.open + run.width \/ run.width = 48) => \A n \in times : m <= n
      /\ \A m \in times : (\A n \in times : m <= n) => (m <= s.open + run.width \/ run.width = 48)
  BY <1>1, <1>3, BarsOfSession
<1> HIDE DEF times, s
<1>8. Min(times) \in times /\ \A n \in times : Min(times) <= n
  BY <1>7, Zenon DEF Min
<1>9. Max(times) = s.close
  <2>1. \E m \in times : \A n \in times : m >= n
    BY <1>7
  <2>2. Max(times) \in times /\ \A n \in times : Max(times) >= n
    BY <2>1, Zenon DEF Max
  <2>3. Max(times) \in Int /\ Max(times) >= s.close /\ Max(times) <= s.close
    BY <1>7, <2>2
  <2> QED BY <1>1, <2>3
<1>10. bar = Min(times) <=> \A n \in times : bar <= n
  <2>1. Min(times) \in Int
    BY <1>7, <1>8
  <2>2. (\A n \in times : bar <= n) => bar <= Min(times) /\ Min(times) <= bar
    BY <1>2, <1>8
  <2> QED BY <1>2, <1>8, <2>1, <2>2
<1>11. run.width = 48 => bar = s.close
  <2>1. run.width = 48 => times = {s.close}
    BY <1>1, <1>4 DEF TimesOf
  <2> QED BY <1>2, <2>1
<1> QED BY <1>2, <1>5, <1>6, <1>7, <1>9, <1>10, <1>11 DEF times

LEMMA BarsStayInTheirSessions ==
  ASSUME ScheduleAssumption, ScheduleInv
  PROVE  BarInItsSession
<1> SUFFICES ASSUME OnABar, run.hours = "regular"
             PROVE  /\ SessionForBarClose(run.calendar, bar).date = day
                    /\ run.calendar = "nyse" => SessionFor(run.calendar, bar).date = day
  BY DEF BarInItsSession
<1> QED BY RegularBar

LEMMA ClosesCountSessions ==
  ASSUME ScheduleAssumption, ScheduleInv
  PROVE  EverySessionCloses
<1> SUFFICES ASSUME Ended, run.given
             PROVE  /\ run.hours = "regular" =>
                         closes = Cardinality(SessionsBetween(run.calendar, NewYear, day))
                    /\ WarnsNeverClosed <=> run.hours = "early" /\ IsIntraday(run.width)
  BY DEF EverySessionCloses
<1> DEFINE c == run.calendar
           walked == SessionsBetween(c, NewYear, day)
<1>1. /\ run \in Runs /\ day \in Int /\ bar \in Int /\ steps \in Nat /\ closes \in Nat
      /\ NewYear <= day
  BY DEF ScheduleInv
<1>2. /\ c \in Markets /\ run.width \in {1, 2, 8, 48} /\ run.hours \in {"regular", "early"}
      /\ NewYear \in Int /\ run.year \in Years \ {0} /\ Years \subseteq Nat
      /\ NewYear = Date(run.year, 1, 1) /\ Date(run.year + 1, 1, 1) \in Int
  BY <1>1, RunTyped
<1>3. run.hours = "early" => c = "nyse"
  BY <1>1, RunTyped
<1>4. walked = {SessionOn(c, d) : d \in {e \in NewYear..day : IsSession(c, e)}}
  BY <1>1, <1>2, SessionsBetweenAre
<1>5. \A m \in BarsOf(day) : m <= bar
  <2>1. BarsOf(day) \subseteq Int
    BY <1>1, BarsOfDay
  <2> QED BY <1>1, <2>1 DEF Ended, Left
<1>6. ASSUME run.hours = "regular"
      PROVE  closes = Cardinality(walked)
  <2>1. \A s \in walked : s.close <= bar
    <3> SUFFICES ASSUME NEW d \in NewYear..day, IsSession(c, d)
                 PROVE  SessionOn(c, d).close <= bar
      BY <1>4
    <3>1. CASE d = day
      <4>1. SessionOn(c, day).close \in BarsOf(day)
        BY <1>1, <1>2, <1>6, <3>1, BarsOfDay, BarsOfSession, SessionShape
      <4> QED BY <1>5, <3>1, <4>1
    <3>2. CASE d # day
      <4>1. d \in NewYear..(day - 1)
        BY <1>1, <1>2, <3>2
      <4> QED BY <1>6, <4>1 DEF ScheduleInv
    <3> QED BY <3>1, <3>2
  <2>2. {s \in walked : s.close <= bar} = walked
    BY <2>1
  <2>3. closes = Cardinality({s \in walked : s.close <= bar})
    BY <1>6 DEF ScheduleInv
  <2> QED BY <2>2, <2>3
<1>7. steps > 0 \/ \A d \in NewYear..day : ~IsSession(c, d)
  <2> SUFFICES ASSUME steps = 0
               PROVE  \A d \in NewYear..day : ~IsSession(c, d)
    BY <1>1
  <2>1. bar = NewYear * 48 /\ \A d \in NewYear..(day - 1) : ~IsSession(c, d)
    BY DEF ScheduleInv, Units
  <2>2. NewYear..day = NewYear..(day - 1) \cup {day}
    BY <1>1, <1>2
  <2>3. ~IsSession(c, day)
    <3> SUFFICES ASSUME IsSession(c, day)
                 PROVE  FALSE
      OBVIOUS
    <3> DEFINE s == SessionOn(c, day)
    <3>1. s.open \in Int /\ s.close \in Int /\ s.open < s.close
      BY <1>1, <1>2, SessionShape
    <3>2. /\ day * 48 <= s.open
          /\ c = "nyse" => s.open = day * 48 + 19 + Offset(c, day) /\ Offset(c, day) \in {8, 10}
      BY <1>1, <1>2, SessionShape
    <3>3. CASE run.hours = "regular"
      <4>1. s.close \in BarsOf(day)
        BY <1>1, <1>2, <3>1, <3>3, BarsOfDay, BarsOfSession
      <4> QED BY <1>1, <1>2, <1>5, <2>1, <3>1, <3>2, <4>1
    <3>4. CASE run.hours = "early"
      <4>1. s.open \in BarsOf(day)
        BY <1>1, <3>4, BarsOfDay
      <4> QED BY <1>1, <1>2, <1>3, <1>5, <2>1, <3>1, <3>2, <3>4, <4>1
    <3> QED BY <1>2, <3>3, <3>4
  <2> QED BY <2>1, <2>2, <2>3
<1>8. ASSUME run.hours = "early", IsIntraday(run.width)
      PROVE  WarnsNeverClosed
  <2>1. closes = 0
    BY <1>8 DEF ScheduleInv
  <2>2. PICK d \in Date(run.year, 1, 1)..(Date(run.year + 1, 1, 1) - 1) : IsSession("nyse", d)
    BY <1>2, EveryYearHasASession
  <2>3. day >= Date(run.year + 1, 1, 1) - 1
    <3> SUFFICES ASSUME day < Date(run.year + 1, 1, 1) - 1
                 PROVE  FALSE
      BY <1>1, <1>2
    <3>1. day + 1 \in Date(run.year, 1, 1)..(Date(run.year + 1, 1, 1) - 1)
      BY <1>1, <1>2
    <3>2. run.year \in Nat \ {0}
      BY <1>2
    <3>3. YearOf(day + 1) = run.year
      BY <3>1, <3>2, YearOfItsDays
    <3> QED BY <3>3 DEF Ended
  <2>4. d \in NewYear..day
    BY <1>1, <1>2, <2>3
  <2>5. steps > 0
    BY <1>3, <1>7, <1>8, <2>2, <2>4
  <2> QED BY <2>1, <2>5 DEF WarnsNeverClosed
<1>9. ASSUME WarnsNeverClosed
      PROVE  run.hours = "early" /\ IsIntraday(run.width)
  <2>1. steps > 0 /\ closes = 0
    BY <1>9 DEF WarnsNeverClosed
  <2>2. CASE run.hours = "regular"
    <3>1. PICK d \in NewYear..day : IsSession(c, d)
      BY <2>1 DEF ScheduleInv
    <3>2. SessionOn(c, d) \in walked
      BY <1>4, <3>1
    <3>3. IsFiniteSet(walked)
      <4> DEFINE open == {e \in NewYear..day : IsSession(c, e)}
                 f == [e \in open |-> SessionOn(c, e)]
      <4>1. IsFiniteSet(open)
        BY <1>1, <1>2, FS_Interval, FS_Subset
      <4>2. f \in [open -> walked] /\ \A s \in walked : \E e \in open : f[e] = s
        BY <1>4
      <4> HIDE DEF open, walked, f
      <4>3. f \in Surjection(open, walked)
        BY <4>2 DEF Surjection
      <4> QED BY <4>1, <4>3, FS_Surjection
    <3>4. Cardinality(walked) = 0
      BY <1>6, <2>1, <2>2
    <3> HIDE DEF walked
    <3> QED BY <3>2, <3>3, <3>4, FS_EmptySet
  <2>3. CASE run.hours = "early"
    <3>1. closes = IF IsIntraday(run.width) THEN 0 ELSE steps
      BY <2>3 DEF ScheduleInv
    <3> QED BY <2>1, <2>3, <3>1
  <2> QED BY <1>2, <2>2, <2>3
<1> QED BY <1>6, <1>8, <1>9

(* However long the years, whatever their holidays: the walk keeps its     *)
(* invariant from its first bar to its last (bar_times, _snapshot).        *)
THEOREM WalkInvariant == ScheduleSpec => []ScheduleInv
<1>1. ScheduleInit => ScheduleInv
  BY ScheduleAssumption, ScheduleInvInit
<1>2. ScheduleInv /\ [ScheduleNext]_scheduleVars => ScheduleInv'
  <2> SUFFICES ASSUME ScheduleInv, [ScheduleNext]_scheduleVars
               PROVE  ScheduleInv'
    OBVIOUS
  <2>1. CASE NextBar
    BY <2>1, ScheduleAssumption, NextBarKeeps
  <2>2. CASE NextDay
    BY <2>2, ScheduleAssumption, NextDayKeeps
  <2>3. CASE UNCHANGED scheduleVars
    BY <2>3 DEF ScheduleInv, scheduleVars, feed, NewYear, Snapshot
  <2> QED BY <2>1, <2>2, <2>3 DEF ScheduleNext
<1> QED BY <1>1, <1>2, PTL DEF ScheduleSpec

(* In every year a session is opened and closed by bars of its own, once;  *)
(* no close is missed unseen, however the timeframe divides the session    *)
(* (is_session_open, is_session_close, _warn_if_never_closed).             *)
THEOREM SessionsOpenAndClose == ScheduleSpec => []SessionFlags
<1>1. ScheduleInv => SessionFlags
  BY ScheduleAssumption, FlagsOncePerSession, BarsStayInTheirSessions, ClosesCountSessions
     DEF SessionFlags
<1> QED BY <1>1, WalkInvariant, PTL

-----------------------------------------------------------------------------
(* Trading time is a count: of each session as many cells as it is worth.  *)

Cells(S, p, K) == {q \in S \X (1..K) : q[2] <= p[q[1]]}

LEMMA CellsAreFinite ==
  ASSUME NEW S, IsFiniteSet(S), NEW K \in Nat, NEW p \in [S -> 0..K], NEW U \in SUBSET S
  PROVE  IsFiniteSet(Cells(U, p, K)) /\ Cardinality(Cells(U, p, K)) \in Nat
<1>1. IsFiniteSet(U) /\ IsFiniteSet(1..K)
  BY FS_Subset, FS_Interval, 1 \in Int, K \in Int
<1>2. IsFiniteSet(U \X (1..K))
  BY <1>1, FS_Product
<1>3. Cells(U, p, K) \subseteq U \X (1..K)
  BY DEF Cells
<1>4. IsFiniteSet(Cells(U, p, K))
  BY <1>2, <1>3, FS_Subset
<1> QED BY <1>4, FS_CardinalityType

LEMMA CellsOfOne ==
  ASSUME NEW S, IsFiniteSet(S), NEW K \in Nat, NEW p \in [S -> 0..K], NEW x \in S, NEW T \in SUBSET S, x \in T
  PROVE  /\ IsFiniteSet(Cells(T, p, K)) /\ Cardinality(Cells(T, p, K)) \in Nat
         /\ Cardinality(Cells(T, p, K)) = p[x] + Cardinality(Cells(T \ {x}, p, K))
         /\ Cardinality(Cells({}, p, K)) = 0
<1> DEFINE of == {q \in {x} \X (1..K) : q[2] <= p[x]}
<1>1. \A U \in SUBSET S : IsFiniteSet(Cells(U, p, K)) /\ Cardinality(Cells(U, p, K)) \in Nat
  BY CellsAreFinite
<1>2. Cells(T, p, K) = Cells(T \ {x}, p, K) \cup of /\ Cells(T \ {x}, p, K) \cap of = {}
  BY DEF Cells
<1>3. IsFiniteSet(of) /\ Cardinality(of) = p[x]
  <2>1. p[x] \in 0..K
    OBVIOUS
  <2> DEFINE n == p[x]
             f == [i \in 1..n |-> <<x, i>>]
  <2>4. n \in Nat /\ n \in Int /\ n <= K
    BY <2>1
  <2>5. of = {<<x, i>> : i \in 1..n}
    <3>1. \A i \in 1..K : i <= n <=> i \in 1..n
      BY <2>4
    <3>2. 1..n \subseteq 1..K
      BY <2>4
    <3> HIDE DEF n
    <3>3. of = {q \in {x} \X (1..K) : q[2] <= n}
      BY DEF n
    <3> HIDE DEF of
    <3> QED BY <3>1, <3>2, <3>3
  <2> HIDE DEF of, n
  <2>2. f \in Bijection(1..n, of)
    <3>1. f \in [1..n -> of]
      BY <2>5
    <3>2. \A i, j \in 1..n : f[i] = f[j] => i = j
      OBVIOUS
    <3>3. \A q \in of : \E i \in 1..n : f[i] = q
      BY <2>5
    <3> HIDE DEF f
    <3> QED BY <3>1, <3>2, <3>3 DEF Bijection, Injection, Surjection, IsInjective
  <2>3. IsFiniteSet(1..n) /\ Cardinality(1..n) = n
    <3>1. IsFiniteSet(1..n) /\ Cardinality(1..n) = IF 1 > n THEN 0 ELSE n - 1 + 1
      <4>1. 1 \in Int /\ n \in Int
        BY <2>4
      <4> QED BY <4>1, FS_Interval, Zenon
    <3> QED BY <2>4, <3>1
  <2> HIDE DEF f
  <2>6. IsFiniteSet(of) /\ Cardinality(of) = Cardinality(1..n)
    <3>1. ExistsBijection(1..n, of)
      BY <2>2 DEF ExistsBijection
    <3> QED BY <2>3, <3>1, FS_Bijection
  <2> QED BY <2>3, <2>6 DEF n
<1>4. IsFiniteSet(Cells(T \ {x}, p, K)) /\ Cardinality(Cells(T \ {x}, p, K)) \in Nat
  BY <1>1, T \ {x} \in SUBSET S
<1>5. Cardinality(Cells(T, p, K)) = Cardinality(Cells(T \ {x}, p, K)) + Cardinality(of)
  <2> HIDE DEF of
  <2>1. Cardinality({}) = 0
    BY FS_EmptySet
  <2>2. Cardinality(Cells(T \ {x}, p, K) \cup of)
          = Cardinality(Cells(T \ {x}, p, K)) + Cardinality(of) - Cardinality(Cells(T \ {x}, p, K) \cap of)
    <3>1. IsFiniteSet(of) /\ IsFiniteSet(Cells(T \ {x}, p, K))
      BY <1>3, <1>4
    <3> QED BY <3>1, FS_Union
  <2>3. Cardinality(of) \in Nat
    <3>1. IsFiniteSet(of)
      BY <1>3
    <3> QED BY <3>1, FS_CardinalityType
  <2>4. Cardinality(Cells(T, p, K))
          = Cardinality(Cells(T \ {x}, p, K)) + Cardinality(of) - Cardinality({})
    BY <1>2, <2>2
  <2>5. Cardinality(Cells(T \ {x}, p, K)) \in Nat
    BY <1>4
  <2> QED BY <2>1, <2>3, <2>4, <2>5
<1>6. Cells({}, p, K) = {}
  BY DEF Cells
<1>7. Cardinality({}) = 0
  BY FS_EmptySet
<1> HIDE DEF of
<1>8. p[x] \in Nat
  <2>1. p[x] \in 0..K
    OBVIOUS
  <2> QED BY <2>1
<1> QED BY <1>1, <1>3, <1>4, <1>5, <1>6, <1>7, <1>8

Chosen(s) == CHOOSE x \in s : TRUE
(* A sum over the subsets of S, an element at a time. *)
SumsUp(g, S, p) ==
  g = [s \in SUBSET S |-> IF s = {} THEN 0 ELSE p[Chosen(s)] + g[s \ {Chosen(s)}]]

(* A sum taken in any order counts the cells. *)
LEMMA SumCountsCells ==
  ASSUME NEW S, IsFiniteSet(S), NEW K \in Nat, NEW p \in [S -> 0..K], NEW g, SumsUp(g, S, p)
  PROVE  g[S] = Cardinality(Cells(S, p, K))
<1> DEFINE wrong == {T \in SUBSET S : g[T] # Cardinality(Cells(T, p, K))}
           sizes == {Cardinality(T) : T \in wrong}
<1>1. \A T \in SUBSET S : IsFiniteSet(T) /\ Cardinality(T) \in Nat
  BY FS_Subset, FS_CardinalityType
<1>4. g[{}] = 0 /\ \A T \in SUBSET S : T # {} => g[T] = p[Chosen(T)] + g[T \ {Chosen(T)}]
  BY DEF SumsUp
<1>5. \A T : T # {} => Chosen(T) \in T
  BY DEF Chosen
<1>2. ASSUME NEW T \in wrong, \A U \in wrong : Cardinality(T) <= Cardinality(U)
      PROVE  FALSE
  <2>1. CASE T = {}
    <3>1. g[T] = 0
      BY <1>4, <2>1
    <3>2. Cells(T, p, K) = {} /\ Cardinality({}) = 0
      BY <2>1, FS_EmptySet DEF Cells
    <3> QED BY <2>1, <3>1, <3>2
  <2>2. CASE T # {}
    <3> DEFINE x == Chosen(T)
    <3>1. x \in T /\ x \in S /\ T \ {x} \in SUBSET S
      BY <1>5, <2>2
    <3>2. g[T] = p[x] + g[T \ {x}]
      BY <1>4, <2>2
    <3> HIDE DEF x
    <3>3. Cardinality(T \ {x}) = Cardinality(T) - 1
      <4>1. IsFiniteSet(T)
        BY <1>1
      <4> QED BY <3>1, <4>1, FS_RemoveElement
    <3>4. T \ {x} \notin wrong
      <4>1. Cardinality(T) \in Nat
        BY <1>1
      <4>2. ~(Cardinality(T) <= Cardinality(T \ {x}))
        BY <3>3, <4>1
      <4> HIDE DEF wrong
      <4> QED BY <1>2, <4>2
    <3>5. g[T \ {x}] = Cardinality(Cells(T \ {x}, p, K))
      BY <3>1, <3>4
    <3>6. Cardinality(Cells(T, p, K)) = p[x] + Cardinality(Cells(T \ {x}, p, K))
      BY <3>1, CellsOfOne
    <3> QED BY <3>2, <3>5, <3>6
  <2> QED BY <2>1, <2>2
<1>3. wrong = {}
  <2> SUFFICES ASSUME wrong # {}
               PROVE  FALSE
    OBVIOUS
  <2>1. sizes \in SUBSET Nat /\ sizes # {}
    <3>1. \A T \in wrong : Cardinality(T) \in Nat
      BY <1>1
    <3> HIDE DEF wrong
    <3> QED BY <3>1
  <2> HIDE DEF sizes
  <2>2. Min(sizes) \in sizes /\ \A n \in sizes : Min(sizes) <= n
    BY <2>1, MinOfNaturals
  <2> HIDE DEF wrong
  <2>3. PICK T \in wrong : Cardinality(T) = Min(sizes)
    BY <2>2 DEF sizes
  <2>4. \A U \in wrong : Cardinality(T) <= Cardinality(U)
    <3>1. \A U \in wrong : Cardinality(U) \in sizes
      BY DEF sizes
    <3> QED BY <2>2, <2>3, <3>1
  <2> QED BY <1>2, <2>3, <2>4
<1> QED BY <1>3

Whole == 4368   \* what a session is worth

(* What a session has seen of a span of time. *)
Part(s, from, to) ==
  LET covered == Min({s.close, to}) - Max({s.open, from})
  IN  IF covered <= 0 THEN 0 ELSE (covered * 4368) \div (s.close - s.open)
Parts(S, from, to) == [s \in S |-> Part(s, from, to)]

LEMMA MinMaxOfTwo ==
  ASSUME NEW a \in Int, NEW b \in Int
  PROVE  /\ Min({a, b}) = (IF a <= b THEN a ELSE b)
         /\ Max({a, b}) = (IF a <= b THEN b ELSE a)
<1>1. Min({a, b}) \in {a, b} /\ \A y \in {a, b} : Min({a, b}) <= y
  <2>1. \E x \in {a, b} : \A y \in {a, b} : x <= y
    OBVIOUS
  <2> QED BY <2>1, Zenon DEF Min
<1>2. Max({a, b}) \in {a, b} /\ \A y \in {a, b} : Max({a, b}) >= y
  <2>1. \E x \in {a, b} : \A y \in {a, b} : x >= y
    OBVIOUS
  <2> QED BY <2>1, Zenon DEF Max
<1> QED BY <1>1, <1>2

LEMMA PartBounded ==
  ASSUME NEW s, s.open \in Int, s.close \in Int, s.close - s.open \in {7, 13, 48},
         NEW from \in Int, NEW to \in Int
  PROVE  /\ Part(s, from, to) \in 0..4368
         /\ to <= s.open \/ s.close <= from => Part(s, from, to) = 0
         /\ from <= s.open /\ s.close <= to => Part(s, from, to) = 4368
         /\ from <= s.open /\ s.open <= to /\ to <= s.close =>
              Part(s, from, to) * (s.close - s.open) = (to - s.open) * 4368
<1> DEFINE covered == Min({s.close, to}) - Max({s.open, from})
           len == s.close - s.open
<1>1. /\ Min({s.close, to}) = (IF s.close <= to THEN s.close ELSE to)
      /\ Max({s.open, from}) = (IF s.open <= from THEN from ELSE s.open)
  BY MinMaxOfTwo
<1>2. /\ covered \in Int /\ covered <= len
      /\ to <= s.open \/ s.close <= from => covered <= 0
      /\ from <= s.open /\ s.close <= to => covered = len
      /\ from <= s.open /\ s.open <= to /\ to <= s.close => covered = to - s.open
  BY <1>1
<1>3. Part(s, from, to) = IF covered <= 0 THEN 0 ELSE (covered * 4368) \div len
  BY DEF Part
<1> HIDE DEF covered
<1>4. len \in {7, 13, 48} /\ len \in Int /\ len > 0
  OBVIOUS
<1> HIDE DEF len
<1>5. /\ len = 7 => (covered * 4368) \div len = 624 * covered
      /\ len = 13 => (covered * 4368) \div len = 336 * covered
      /\ len = 48 => (covered * 4368) \div len = 91 * covered
  BY <1>2
<1>6. \/ len = 7 /\ Part(s, from, to) = IF covered <= 0 THEN 0 ELSE 624 * covered
      \/ len = 13 /\ Part(s, from, to) = IF covered <= 0 THEN 0 ELSE 336 * covered
      \/ len = 48 /\ Part(s, from, to) = IF covered <= 0 THEN 0 ELSE 91 * covered
  BY <1>3, <1>4, <1>5
<1>7. Part(s, from, to) \in 0..4368
  BY <1>2, <1>6
<1>8. to <= s.open \/ s.close <= from => Part(s, from, to) = 0
  BY <1>2, <1>6
<1>9. from <= s.open /\ s.close <= to => Part(s, from, to) = 4368
  BY <1>2, <1>4, <1>6
<1>10. from <= s.open /\ s.open <= to /\ to <= s.close => Part(s, from, to) * len = (to - s.open) * 4368
  <2> SUFFICES ASSUME from <= s.open, s.open <= to, to <= s.close
               PROVE  Part(s, from, to) * len = (to - s.open) * 4368
    OBVIOUS
  <2>1. covered = to - s.open /\ covered >= 0
    BY <1>2
  <2> QED BY <1>2, <1>6, <2>1
<1> QED BY <1>7, <1>8, <1>9, <1>10 DEF len

LEMMA PartOfThePast ==
  ASSUME NEW s, s.open \in Int, s.close \in Int, NEW from \in Int, NEW b \in Int, NEW m \in Int,
         s.close <= b, b < m
  PROVE  Part(s, from, m) = Part(s, from, b)
<1>1. Min({s.close, m}) = s.close /\ Min({s.close, b}) = s.close
  <2>1. Min({s.close, m}) = IF s.close <= m THEN s.close ELSE m
    BY MinMaxOfTwo
  <2>2. Min({s.close, b}) = IF s.close <= b THEN s.close ELSE b
    BY MinMaxOfTwo
  <2> QED BY <2>1, <2>2
<1> QED BY <1>1 DEF Part

LEMMA PartOfNothing ==
  ASSUME NEW s, s.open \in Int, s.close \in Int, NEW from \in Int
  PROVE  Part(s, from, from) = 0
<1>1. /\ Min({s.close, from}) = (IF s.close <= from THEN s.close ELSE from)
      /\ Max({s.open, from}) = (IF s.open <= from THEN from ELSE s.open)
  BY MinMaxOfTwo
<1>2. Min({s.close, from}) - Max({s.open, from}) <= 0
  BY <1>1
<1> QED BY <1>2 DEF Part

LEMMA PartIsANumber ==
  ASSUME NEW s, s.open \in Int, s.close \in Int, s.close - s.open \in {7, 13, 48},
         NEW from \in Int, NEW to \in Int
  PROVE  Part(s, from, to) \in Int
<1> DEFINE p == Part(s, from, to)
<1>1. p \in 0..4368
  BY PartBounded
<1> HIDE DEF p
<1>2. p \in Int
  BY <1>1
<1> QED BY <1>2 DEF p

LEMMA SessionLength ==
  ASSUME NEW c \in Markets, NEW d \in Int, IsSession(c, d)
  PROVE  SessionOn(c, d).close - SessionOn(c, d).open \in {7, 13, 48}
<1> DEFINE s == SessionOn(c, d)
<1>1. s = BuildSession(c, d, OpenTime(c), CloseTime(c, d))
  BY DEF SessionOn
<1>2. CASE c = "nyse"
  <2>1. Offset(c, d) \in {8, 10} /\ OpenTime(c) = 19 /\ CloseTime(c, d) \in {26, 32}
    BY <1>2 DEF Offset, OpenTime, CloseTime, RegularHours, NyseHours, NyseEarlyClose
  <2>2. s = [date |-> d, open |-> d * 48 + 19 + Offset(c, d),
             close |-> d * 48 + CloseTime(c, d) + Offset(c, d)]
    BY <1>1, <2>1 DEF BuildSession, Utc, Units
  <2> QED BY <2>1, <2>2
<1>3. CASE c = "continuous"
  <2>1. SessionOn(c, d).open = d * 48 /\ SessionOn(c, d).close = d * 48 + 48
    BY <1>3, SessionShape
  <2> QED BY <2>1
<1> QED BY <1>2, <1>3 DEF Markets

LEMMA ElapsedCounts ==
  ASSUME NEW c \in Markets, NEW from \in Int, NEW to \in Int, from < to,
         LocalDate(c, from) \in Int, LocalDate(c, to) \in Int
  PROVE  LET S == SessionsBetween(c, LocalDate(c, from), LocalDate(c, to))
         IN  /\ IsFiniteSet(S) /\ Parts(S, from, to) \in [S -> 0..Whole]
             /\ Elapsed(c, from, to) = Cardinality(Cells(S, Parts(S, from, to), Whole))
<1> DEFINE S == SessionsBetween(c, LocalDate(c, from), LocalDate(c, to))
           p == Parts(S, from, to)
           days == {e \in LocalDate(c, from)..LocalDate(c, to) : IsSession(c, e)}
           f == [e \in days |-> SessionOn(c, e)]
<1>1. S = {SessionOn(c, d) : d \in days}
  BY SessionsBetweenAre
<1>2. IsFiniteSet(S)
  <2>1. IsFiniteSet(LocalDate(c, from)..LocalDate(c, to))
    BY FS_Interval
  <2>2. IsFiniteSet(days)
    BY <2>1, FS_Subset
  <2>3. f \in [days -> S] /\ \A s \in S : \E e \in days : f[e] = s
    BY <1>1
  <2> HIDE DEF S, days, f
  <2>4. f \in Surjection(days, S)
    BY <2>3 DEF Surjection
  <2> QED BY <2>2, <2>4, FS_Surjection
<1>3. p \in [S -> 0..Whole]
  <2>1. ASSUME NEW s \in S
        PROVE  Part(s, from, to) \in 0..4368
    <3>1. PICK d \in days : s = SessionOn(c, d)
      BY <1>1
    <3>2. d \in Int /\ IsSession(c, d)
      OBVIOUS
    <3>3. s.open \in Int /\ s.close \in Int /\ s.close - s.open \in {7, 13, 48}
      BY <3>1, <3>2, SessionShape, SessionLength
    <3> QED BY <3>3, PartBounded
  <2> HIDE DEF S
  <2> QED BY <2>1 DEF Parts, Whole
<1>4. Elapsed(c, from, to) = Cardinality(Cells(S, p, Whole))
  <2> DEFINE Def(g) == g = [s \in SUBSET S |-> IF s = {} THEN 0
                                               ELSE Part(Chosen(s), from, to) + g[s \ {Chosen(s)}]]
             iter == CHOOSE g : Def(g)
             h == [s \in SUBSET S |-> Cardinality(Cells(s, p, Whole))]
  <2>1. Elapsed(c, from, to) = iter[S]
    <3>1. ~(to <= from)
      OBVIOUS
    <3> QED BY <3>1 DEF Elapsed, MapThenSumSet, MapThenFoldSet, Chosen, Part
  <2>2. \A s \in SUBSET S : s # {} => Chosen(s) \in s /\ Part(Chosen(s), from, to) = p[Chosen(s)]
    <3>1. \A s : s # {} => Chosen(s) \in s
      BY DEF Chosen
    <3> HIDE DEF S
    <3> QED BY <3>1 DEF Parts
  <2>3. Whole \in Nat
    BY DEF Whole
  <2> HIDE DEF S, p
  <2>4. \A g : Def(g) <=> SumsUp(g, S, p)
    <3> TAKE g
    <3>1. [s \in SUBSET S |-> IF s = {} THEN 0 ELSE Part(Chosen(s), from, to) + g[s \ {Chosen(s)}]]
            = [s \in SUBSET S |-> IF s = {} THEN 0 ELSE p[Chosen(s)] + g[s \ {Chosen(s)}]]
      BY <2>2
    <3> QED BY <3>1 DEF SumsUp
  <2>5. SumsUp(h, S, p)
    <3>1. \A s \in SUBSET S : h[s] = IF s = {} THEN 0 ELSE p[Chosen(s)] + h[s \ {Chosen(s)}]
      <4> TAKE s \in SUBSET S
      <4>1. CASE s = {}
        <5>1. Cells(s, p, Whole) = {} /\ Cardinality({}) = 0
          BY <4>1, FS_EmptySet DEF Cells
        <5> QED BY <4>1, <5>1
      <4>2. CASE s # {}
        <5>1. Chosen(s) \in s /\ Chosen(s) \in S /\ s \ {Chosen(s)} \in SUBSET S
          BY <2>2, <4>2
        <5>2. Cardinality(Cells(s, p, Whole))
                = p[Chosen(s)] + Cardinality(Cells(s \ {Chosen(s)}, p, Whole))
          BY <1>2, <1>3, <2>3, <5>1, CellsOfOne
        <5> QED BY <4>2, <5>1, <5>2
      <4> QED BY <4>1, <4>2
    <3>2. h = [s \in SUBSET S |-> h[s]]
      OBVIOUS
    <3> HIDE DEF h
    <3> QED BY <3>1, <3>2 DEF SumsUp
  <2> HIDE DEF Def, h
  <2>6. SumsUp(iter, S, p)
    <3>1. \E g : Def(g)
      BY <2>4, <2>5
    <3>2. Def(iter)
      BY <3>1, Zenon
    <3> QED BY <2>4, <3>2
  <2> HIDE DEF iter
  <2> QED BY <1>2, <1>3, <2>1, <2>3, <2>6, SumCountsCells
<1> QED BY <1>2, <1>3, <1>4

LEMMA LocalDateBounds ==
  ASSUME NEW c \in Markets, NEW m \in Int
  PROVE  /\ LocalDate(c, m) \in Int
         /\ \A e \in Int : m = e * 48 => LocalDate(c, m) <= e
         /\ \A e \in Int : IsSession(c, e) /\ SessionOn(c, e).open < m => e <= LocalDate(c, m)
<1> DEFINE off == Offset(c, m \div 48)
<1>1. LocalDate(c, m) = (m - off) \div 48 /\ off \in {0, 8, 10} /\ (c = "continuous" => off = 0)
  BY DEF LocalDate, Offset, Units
<1>2. ASSUME NEW e \in Int, m = e * 48
      PROVE  LocalDate(c, m) <= e
  <2> HIDE DEF off
  <2> QED BY <1>1, <1>2
<1>3. ASSUME NEW e \in Int, IsSession(c, e), SessionOn(c, e).open < m
      PROVE  e <= LocalDate(c, m)
  <2>1. SessionOn(c, e).open \in Int
    BY <1>3, SessionShape
  <2>2. CASE c = "nyse"
    <3>1. SessionOn(c, e).open = e * 48 + 19 + Offset(c, e) /\ Offset(c, e) \in {8, 10}
      BY <1>3, <2>2, SessionShape
    <3>2. m \div 48 \in Int /\ e <= m \div 48 /\ 48 * (m \div 48) <= m
      BY <1>3, <2>1, <3>1
    <3>3. CASE m \div 48 = e
      <4>1. off = Offset(c, e)
        BY <3>3
      <4> HIDE DEF off
      <4> QED BY <1>1, <1>3, <3>1, <4>1
    <3>4. CASE e + 1 <= m \div 48
      <4>1. (e + 1) * 48 <= m
        BY <3>2, <3>4
      <4> HIDE DEF off
      <4> QED BY <1>1, <4>1
    <3> QED BY <3>2, <3>3, <3>4
  <2>3. CASE c = "continuous"
    <3>1. SessionOn(c, e).open = e * 48
      BY <1>3, <2>3, SessionShape
    <3> HIDE DEF off
    <3> QED BY <1>1, <1>3, <2>3, <3>1
  <2> QED BY <2>2, <2>3 DEF Markets
<1>4. LocalDate(c, m) \in Int
  <2> HIDE DEF off
  <2> QED BY <1>1
<1> QED BY <1>2, <1>3, <1>4

(* A date is not after a session that has not ended by then. *)
LEMMA LocalDateBefore ==
  ASSUME NEW c \in Markets, NEW m \in Int, NEW e \in Int, IsSession(c, e), m < SessionOn(c, e).close
  PROVE  LocalDate(c, m) <= e
<1> DEFINE off == Offset(c, m \div 48)
<1>1. LocalDate(c, m) = (m - off) \div 48 /\ off \in {0, 8, 10}
  BY DEF LocalDate, Offset, Units
<1>2. SessionOn(c, e).close \in Int /\ SessionOn(c, e).close <= e * 48 + 48
  BY SessionShape
<1>3. m < (e + 1) * 48
  BY <1>2
<1> HIDE DEF off
<1> QED BY <1>1, <1>3

(* Trading time after some of the session of a day: what it was before,    *)
(* and what that session has seen since.  Wherever it is counted from, and *)
(* whatever sessions were cut or whole before.                             *)
LEMMA ElapsedGrows ==
  ASSUME NEW c \in Markets, NEW d \in Int, IsSession(c, d),
         NEW a \in Int, NEW b \in Int, NEW m \in Int, a <= b, b < m,
         SessionOn(c, d).open < m, m <= SessionOn(c, d).close,
         \A e \in Int : e < d /\ IsSession(c, e) => SessionOn(c, e).close <= b
  PROVE  LET s == SessionOn(c, d)
             n == Elapsed(c, a, b) - Part(s, a, b)
         IN  /\ Elapsed(c, a, b) \in Nat /\ n \in Int
             /\ Elapsed(c, a, m) = Part(s, a, m) + n
<1> DEFINE s == SessionOn(c, d)
           SB == SessionsBetween(c, LocalDate(c, a), LocalDate(c, b))
           SM == SessionsBetween(c, LocalDate(c, a), LocalDate(c, m))
           pb == Parts(SB, a, b)
           pm == Parts(SM, a, m)
           rest == Cells(SM \ {s}, pm, Whole)
<1>1. /\ LocalDate(c, a) \in Int /\ LocalDate(c, b) \in Int /\ LocalDate(c, m) \in Int
      /\ a < m /\ Whole \in Nat
  BY LocalDateBounds DEF Whole
<1>2. \A e \in Int : IsSession(c, e) =>
        LET r == SessionOn(c, e)
        IN  r.open \in Int /\ r.close \in Int /\ r.open < r.close /\ r.close - r.open \in {7, 13, 48}
  BY SessionShape, SessionLength
<1>3. /\ SB = {SessionOn(c, e) : e \in {e \in LocalDate(c, a)..LocalDate(c, b) : IsSession(c, e)}}
      /\ SM = {SessionOn(c, e) : e \in {e \in LocalDate(c, a)..LocalDate(c, m) : IsSession(c, e)}}
  BY <1>1, SessionsBetweenAre
<1>4. /\ IsFiniteSet(SM) /\ pm \in [SM -> 0..Whole]
      /\ Elapsed(c, a, m) = Cardinality(Cells(SM, pm, Whole))
  BY <1>1, ElapsedCounts
<1>5. s \in SM
  <2>1. d <= LocalDate(c, m)
    BY LocalDateBounds
  <2>2. LocalDate(c, a) <= d
    <3>1. a < s.close
      BY <1>1, <1>2
    <3> QED BY <3>1, LocalDateBefore
  <2> QED BY <1>1, <1>3, <2>1, <2>2
<1>6. Part(s, a, b) \in Int /\ Part(s, a, m) \in Int
  <2>1. s.open \in Int /\ s.close \in Int /\ s.close - s.open \in {7, 13, 48}
    BY <1>2
  <2> HIDE DEF s
  <2> QED BY <2>1, PartIsANumber
<1>7. Elapsed(c, a, m) = Part(s, a, m) + Cardinality(rest) /\ Cardinality(rest) \in Nat
  <2>1. pm[s] = Part(s, a, m)
    <3> HIDE DEF SM
    <3> QED BY <1>5 DEF Parts
  <2>2. /\ Cardinality(Cells(SM, pm, Whole)) = pm[s] + Cardinality(rest)
    <3> HIDE DEF SM, pm, s
    <3> QED BY <1>1, <1>4, <1>5, CellsOfOne
  <2>3. Cardinality(rest) \in Nat
    <3>1. SM \ {s} \in SUBSET SM
      OBVIOUS
    <3> HIDE DEF SM, pm, s
    <3> QED BY <1>1, <1>4, <1>5, <3>1, CellsAreFinite
  <2> QED BY <1>4, <2>1, <2>2, <2>3
<1>8. ASSUME NEW e \in Int, IsSession(c, e), e # d
      PROVE  /\ Part(SessionOn(c, e), a, m) = Part(SessionOn(c, e), a, b)
             /\ SessionOn(c, e).open >= b => Part(SessionOn(c, e), a, b) = 0
             /\ a = b => Part(SessionOn(c, e), a, b) = 0
  <2> DEFINE r == SessionOn(c, e)
  <2>1. r.open \in Int /\ r.close \in Int /\ r.open < r.close /\ r.close - r.open \in {7, 13, 48}
    BY <1>2, <1>8
  <2>2. r.close <= b \/ m <= r.open
    <3>1. CASE e < d
      BY <1>8, <3>1
    <3>2. CASE e > d
      <4>1. s.close <= r.open
        BY <1>8, <3>2, SessionsApart
      <4> QED BY <1>2, <2>1, <4>1
    <3> QED BY <1>8, <3>1, <3>2
  <2> HIDE DEF r
  <2>3. r.close <= b => Part(r, a, m) = Part(r, a, b)
    BY <2>1, PartOfThePast
  <2>4. m <= r.open => Part(r, a, m) = 0 /\ Part(r, a, b) = 0
    BY <2>1, PartBounded
  <2>5. r.open >= b => Part(r, a, b) = 0
    BY <2>1, PartBounded
  <2>6. a = b => Part(r, a, b) = 0
    BY <2>1, <2>2, <2>4, PartBounded
  <2> QED BY <2>2, <2>3, <2>4, <2>5, <2>6 DEF r
<1>9. CASE a = b
  <2>1. Elapsed(c, a, b) = 0
    BY <1>9 DEF Elapsed
  <2>2. Part(s, a, b) = 0
    <3>1. s.open \in Int /\ s.close \in Int /\ s.close - s.open \in {7, 13, 48}
      BY <1>2
    <3> HIDE DEF s
    <3> QED BY <1>9, <3>1, PartOfNothing
  <2>3. rest = {}
    <3>1. \A r \in SM \ {s} : Part(r, a, m) = 0
      <4> SUFFICES ASSUME NEW e \in LocalDate(c, a)..LocalDate(c, m), IsSession(c, e),
                          SessionOn(c, e) # s
                   PROVE  Part(SessionOn(c, e), a, m) = 0
        BY <1>3
      <4> QED BY <1>1, <1>8, <1>9
    <3>2. \A r \in SM : pm[r] = Part(r, a, m)
      <4> HIDE DEF SM
      <4> QED BY DEF Parts
    <3>3. \A i \in 1..Whole : ~(i <= 0)
      BY <1>1
    <3> HIDE DEF SM, pm, s
    <3> QED BY <3>1, <3>2, <3>3 DEF Cells
  <2>4. Cardinality(rest) = 0
    BY <2>3, FS_EmptySet
  <2> HIDE DEF rest
  <2> QED BY <1>6, <1>7, <2>1, <2>2, <2>4
<1>10. CASE a < b
  <2>1. /\ IsFiniteSet(SB) /\ pb \in [SB -> 0..Whole]
        /\ Elapsed(c, a, b) = Cardinality(Cells(SB, pb, Whole))
    BY <1>1, <1>10, ElapsedCounts
  <2>2. Cells(SB \ {s}, pb, Whole) = rest
    <3>1. \A r \in SB \ {s} : (r \in SM /\ Part(r, a, m) = Part(r, a, b)) \/ Part(r, a, b) = 0
      <4> SUFFICES ASSUME NEW e \in LocalDate(c, a)..LocalDate(c, b), IsSession(c, e),
                          SessionOn(c, e) # s, SessionOn(c, e).open < b
                   PROVE  /\ SessionOn(c, e) \in SM
                          /\ Part(SessionOn(c, e), a, m) = Part(SessionOn(c, e), a, b)
        <5>1. \A e \in LocalDate(c, a)..LocalDate(c, b) : IsSession(c, e) /\ SessionOn(c, e) # s =>
                \/ SessionOn(c, e).open < b
                \/ Part(SessionOn(c, e), a, b) = 0
          <6> SUFFICES ASSUME NEW e \in LocalDate(c, a)..LocalDate(c, b), IsSession(c, e),
                              SessionOn(c, e) # s, ~(SessionOn(c, e).open < b)
                       PROVE  Part(SessionOn(c, e), a, b) = 0
            OBVIOUS
          <6>1. e \in Int /\ e # d /\ SessionOn(c, e).open \in Int
            BY <1>1, <1>2
          <6> QED BY <1>8, <6>1
        <5> QED BY <1>3, <5>1
      <4>1. e \in Int /\ e # d /\ SessionOn(c, e).open \in Int
        BY <1>1, <1>2
      <4>2. e <= LocalDate(c, m)
        <5>1. SessionOn(c, e).open < m
          BY <4>1
        <5> QED BY <4>1, <5>1, LocalDateBounds
      <4> QED BY <1>1, <1>3, <1>8, <4>1, <4>2
    <3>2. \A r \in SM \ {s} : Part(r, a, m) = 0 \/ (r \in SB /\ Part(r, a, m) = Part(r, a, b))
      <4> SUFFICES ASSUME NEW e \in LocalDate(c, a)..LocalDate(c, m), IsSession(c, e),
                          SessionOn(c, e) # s
                   PROVE  LET r == SessionOn(c, e)
                          IN  Part(r, a, m) = 0 \/ (r \in SB /\ Part(r, a, m) = Part(r, a, b))
        BY <1>3
      <4>1. e \in Int /\ e # d /\ SessionOn(c, e).open \in Int
        BY <1>1, <1>2
      <4>2. CASE SessionOn(c, e).open < b
        <5>1. e <= LocalDate(c, b)
          BY <4>1, <4>2, LocalDateBounds
        <5> QED BY <1>1, <1>3, <1>8, <4>1, <5>1
      <4>3. CASE ~(SessionOn(c, e).open < b)
        BY <1>8, <4>1, <4>3
      <4> QED BY <4>2, <4>3
    <3>3. (\A r \in SM : pm[r] = Part(r, a, m)) /\ (\A r \in SB : pb[r] = Part(r, a, b))
      <4> HIDE DEF SM, SB
      <4> QED BY DEF Parts
    <3>4. \A i \in 1..Whole : ~(i <= 0)
      BY <1>1
    <3> HIDE DEF SM, SB, pm, pb, s
    <3> QED BY <3>1, <3>2, <3>3, <3>4 DEF Cells
  <2>3. CASE s \in SB
    <3>1. pb[s] = Part(s, a, b)
      <4> HIDE DEF SB
      <4> QED BY <2>3 DEF Parts
    <3>2. Cardinality(Cells(SB, pb, Whole)) = pb[s] + Cardinality(rest)
      <4>1. Cardinality(Cells(SB, pb, Whole)) = pb[s] + Cardinality(Cells(SB \ {s}, pb, Whole))
        <5> HIDE DEF SB, pb, s
        <5> QED BY <1>1, <2>1, <2>3, CellsOfOne
      <4> QED BY <2>2, <4>1
    <3>3. pb[s] \in Nat
      <4> HIDE DEF SB, pb, s
      <4>1. pb[s] \in 0..Whole
        BY <2>1, <2>3
      <4> QED BY <4>1
    <3>4. Elapsed(c, a, b) = Part(s, a, b) + Cardinality(rest) /\ Part(s, a, b) \in Nat
      BY <2>1, <3>1, <3>2, <3>3
    <3> HIDE DEF rest
    <3> QED BY <1>6, <1>7, <3>4
  <2>4. CASE s \notin SB
    <3>1. ~(s.open < b)
      <4> SUFFICES ASSUME s.open < b
                   PROVE  FALSE
        OBVIOUS
      <4>1. d <= LocalDate(c, b)
        BY LocalDateBounds
      <4>2. LocalDate(c, a) <= d
        <5>1. a < s.close
          BY <1>1, <1>2
        <5> QED BY <5>1, LocalDateBefore
      <4> QED BY <1>1, <1>3, <2>4, <4>1, <4>2
    <3>2. Part(s, a, b) = 0
      <4>1. s.open \in Int /\ s.close \in Int /\ s.close - s.open \in {7, 13, 48} /\ b <= s.open
        BY <1>2, <3>1
      <4> HIDE DEF s
      <4> QED BY <4>1, PartBounded
    <3>3. SB \ {s} = SB
      BY <2>4
    <3>4. Elapsed(c, a, b) = Cardinality(rest)
      <4> HIDE DEF SB, rest
      <4> QED BY <2>1, <2>2, <3>3
    <3> HIDE DEF rest
    <3> QED BY <1>6, <1>7, <3>2, <3>4
  <2> QED BY <2>3, <2>4
<1> QED BY <1>9, <1>10

LEMMA ShareFromTheOpen ==
  ASSUME NEW s, NEW x, NEW y, NEW m, Max({x, s.open}) = s.open, Max({y, s.open}) = s.open
  PROVE  Share(s, x, m) = Share(s, y, m)
<1> DEFINE worthOf(f) == (Max({m - f, 0}) * 4368) \div (s.close - s.open)
<1>1. /\ Share(s, x, m) = worthOf(Max({x, s.open}))
      /\ Share(s, y, m) = worthOf(Max({y, s.open}))
  BY DEF Share
<1> HIDE DEF worthOf
<1> QED BY <1>1

(* What a bar adds to the trading time is what it covers of its session. *)
LEMMA PartGrows ==
  ASSUME NEW s, s.open \in Int, s.close \in Int, s.close - s.open \in {7, 13, 48},
         NEW a \in Int, NEW b \in Int, NEW m \in Int,
         a <= b, b < m, s.open < m, m <= s.close
  PROVE  /\ Share(s, b, m) \in Nat /\ Part(s, a, b) \in Int
         /\ Part(s, a, m) = Part(s, a, b) + Share(s, b, m)
<1> DEFINE len == s.close - s.open
           from == IF b <= s.open THEN s.open ELSE b
           base == IF s.open <= a THEN a ELSE s.open
<1>1. len \in {7, 13, 48} /\ len \in Int
  OBVIOUS
<1>2. /\ Max({b, s.open}) = from /\ Max({s.open, a}) = base
      /\ Min({s.close, b}) = b /\ Min({s.close, m}) = m
  <2>1. Max({b, s.open}) = from
    BY MinMaxOfTwo
  <2>2. Max({s.open, a}) = base
    BY MinMaxOfTwo
  <2>3. Min({s.close, b}) = b
    <3>1. Min({s.close, b}) = IF s.close <= b THEN s.close ELSE b
      BY MinMaxOfTwo
    <3> QED BY <3>1
  <2>4. Min({s.close, m}) = m
    <3>1. Min({s.close, m}) = IF s.close <= m THEN s.close ELSE m
      BY MinMaxOfTwo
    <3> QED BY <3>1
  <2> QED BY <2>1, <2>2, <2>3, <2>4
<1>3. m - from \in Int /\ m - from > 0 /\ Max({m - Max({b, s.open}), 0}) = m - from
  <2>1. m - from \in Int /\ m - from > 0
    OBVIOUS
  <2>2. Max({m - from, 0}) = m - from
    <3> DEFINE x == m - from
    <3>1. x \in Int /\ x > 0
      BY <2>1
    <3> HIDE DEF x
    <3>2. Max({x, 0}) = IF x <= 0 THEN 0 ELSE x
      BY <3>1, MinMaxOfTwo, 0 \in Int
    <3>3. Max({x, 0}) = x
      BY <3>1, <3>2
    <3> QED BY <3>3 DEF x
  <2> HIDE DEF from
  <2> QED BY <1>2, <2>1, <2>2
<1>4. m - base \in Int /\ m - base > 0 /\ b - base \in Int
  OBVIOUS
<1>5. /\ Share(s, b, m) = ((m - from) * 4368) \div len
      /\ Part(s, a, m) = ((m - base) * 4368) \div len
      /\ Part(s, a, b) = IF b - base <= 0 THEN 0 ELSE ((b - base) * 4368) \div len
  <2> HIDE DEF base, from
  <2> QED BY <1>2, <1>3, <1>4 DEF Share, Part
<1>6. \A k \in Int : /\ len = 7 => (k * 4368) \div len = 624 * k
                     /\ len = 13 => (k * 4368) \div len = 336 * k
                     /\ len = 48 => (k * 4368) \div len = 91 * k
  OBVIOUS
<1>7. /\ b - base <= 0 => m - from = m - base
      /\ b - base > 0 => m - from = (m - base) - (b - base)
  OBVIOUS
<1> HIDE DEF len, from, base
<1>8. PICK k \in {624, 336, 91} :
        /\ Share(s, b, m) = k * (m - from)
        /\ Part(s, a, m) = k * (m - base)
        /\ Part(s, a, b) = IF b - base <= 0 THEN 0 ELSE k * (b - base)
  BY <1>1, <1>3, <1>4, <1>5, <1>6
<1>9. Share(s, b, m) \in Nat /\ Part(s, a, b) \in Int
  BY <1>3, <1>4, <1>8
<1>10. Part(s, a, m) = Part(s, a, b) + Share(s, b, m)
  BY <1>3, <1>4, <1>7, <1>8
<1> QED BY <1>9, <1>10

-----------------------------------------------------------------------------
(* The trading time of a regular run is what its bars have covered since   *)
(* the anchor, which is a bar of the walk or a midnight right after one.   *)

WorthInv ==
  run.hours = "regular" =>
    /\ worth \in Nat
    /\ anchor \in Int /\ NewYear * Units <= bar
    /\ anchor <= bar \/ anchor <= day * Units
    /\ Elapsed(run.calendar, anchor, bar) = worth

LEMMA WorthInit ==
  ASSUME ScheduleAssumption, ScheduleInit
  PROVE  WorthInv
<1>1. /\ run \in Runs /\ day = NewYear /\ bar = day * Units /\ anchor = bar /\ worth = 0
  BY DEF ScheduleInit, NewYear
<1>2. NewYear \in Int
  BY <1>1, RunTyped
<1>3. bar \in Int /\ bar <= anchor /\ NewYear * Units <= bar
  BY <1>1, <1>2 DEF Units
<1>4. Elapsed(run.calendar, anchor, bar) = 0
  BY <1>3 DEF Elapsed
<1> QED BY <1>1, <1>3, <1>4 DEF WorthInv

LEMMA WorthNextBar ==
  ASSUME ScheduleAssumption, ScheduleInv, WorthInv, NextBar
  PROVE  WorthInv'
<1> SUFFICES ASSUME run.hours = "regular"
             PROVE  /\ worth' \in Nat
                    /\ anchor' \in Int /\ NewYear * Units <= bar'
                    /\ anchor' <= bar' \/ anchor' <= day * Units
                    /\ Elapsed(run.calendar, anchor', bar') = worth'
  BY DEF WorthInv, NextBar, NewYear
<1> DEFINE c == run.calendar
           s == SessionOn(c, day)
<1>1. /\ run \in Runs /\ day \in Int /\ bar \in Int /\ NewYear <= day /\ Left # {}
      /\ bar' = Min(Left)
      /\ worth \in Nat /\ anchor \in Int /\ NewYear * 48 <= bar
      /\ anchor <= bar \/ anchor <= day * 48
      /\ Elapsed(c, anchor, bar) = worth
  BY DEF ScheduleInv, WorthInv, NextBar, Units
<1>2. c \in Markets /\ run.width \in {1, 2, 8, 48} /\ NewYear \in Int
  BY <1>1, RunTyped
<1>3. bar' \in BarsOf(day) /\ bar' > bar /\ bar' \in Int /\ IsSession(c, day)
  BY <1>1, NextIsLeast
<1>4. NewYear * 48 <= bar'
  BY <1>1, <1>2, <1>3
<1>5. CASE Restarts(bar')
  <2>1. anchor' = bar' /\ worth' = 0
    BY <1>5 DEF NextBar
  <2>2. Elapsed(c, anchor', bar') = 0
    <3>1. bar' <= anchor'
      BY <1>3, <2>1
    <3> QED BY <3>1 DEF Elapsed
  <2> QED BY <1>3, <1>4, <2>1, <2>2 DEF Units
<1>6. CASE ~Restarts(bar')
  <2>1. anchor' = anchor /\ worth' = worth + Share(s, bar, bar')
    BY <1>6 DEF NextBar, Today
  <2>2. /\ s.open \in Int /\ s.close \in Int /\ s.open < s.close /\ day * 48 <= s.open
        /\ s.close - s.open \in {7, 13, 48}
    BY <1>1, <1>2, <1>3, SessionShape, SessionLength
  <2>3. s.open < bar' /\ bar' <= s.close
    BY <1>1, <1>2, <1>3, <2>2, BarsOfDay, BarsOfSession
  <2>4. \A e \in Int : e < day /\ IsSession(c, e) => SessionOn(c, e).close <= bar
    <3> SUFFICES ASSUME NEW e \in Int, e < day, IsSession(c, e)
                 PROVE  SessionOn(c, e).close <= bar
      OBVIOUS
    <3>1. CASE e < NewYear
      <4>1. SessionOn(c, e).close \in Int /\ SessionOn(c, e).close <= e * 48 + 48
        BY <1>2, SessionShape
      <4>2. e * 48 + 48 <= NewYear * 48
        BY <1>2, <3>1
      <4> QED BY <1>1, <1>2, <4>1, <4>2
    <3>2. CASE NewYear <= e
      <4>1. e \in NewYear..(day - 1)
        BY <1>1, <1>2, <3>2
      <4> QED BY <4>1 DEF ScheduleInv
    <3> QED BY <1>2, <3>1, <3>2
  (* From where the bar's part is counted: no earlier than the anchor. *)
  <2> DEFINE b == IF anchor <= bar THEN bar ELSE anchor
             n == Elapsed(c, anchor, b) - Part(s, anchor, b)
  <2>5. /\ b \in Int /\ anchor <= b /\ bar <= b /\ b < bar'
        /\ b # bar => b <= s.open
    BY <1>1, <1>3, <2>2, <2>3
  <2>6. Elapsed(c, anchor, b) = worth
    <3>1. CASE anchor <= bar
      BY <1>1, <3>1
    <3>2. CASE ~(anchor <= bar)
      <4>1. Elapsed(c, anchor, bar) = 0 /\ Elapsed(c, anchor, b) = 0
        <5>1. bar <= anchor /\ b <= anchor
          BY <1>1, <3>2
        <5> QED BY <5>1 DEF Elapsed
      <4> QED BY <1>1, <4>1
    <3> QED BY <3>1, <3>2
  <2>7. Share(s, b, bar') = Share(s, bar, bar')
    <3>1. CASE b = bar
      BY <3>1
    <3>2. CASE b # bar
      <4>1. Max({b, s.open}) = s.open /\ Max({bar, s.open}) = s.open
        <5>1. /\ Max({b, s.open}) = (IF b <= s.open THEN s.open ELSE b)
              /\ Max({bar, s.open}) = (IF bar <= s.open THEN s.open ELSE bar)
          <6> HIDE DEF b, s
          <6> QED BY <1>1, <2>2, <2>5, MinMaxOfTwo
        <5>2. b <= s.open /\ bar <= s.open
          BY <1>1, <2>2, <2>5, <3>2
        <5> QED BY <5>1, <5>2
      <4> HIDE DEF b, s
      <4> QED BY <1>1, <1>3, <2>2, <2>5, <4>1, ShareFromTheOpen
    <3> QED BY <3>1, <3>2
  <2> HIDE DEF b
  <2>8. \A e \in Int : e < day /\ IsSession(c, e) => SessionOn(c, e).close <= b
    <3> SUFFICES ASSUME NEW e \in Int, e < day, IsSession(c, e)
                 PROVE  SessionOn(c, e).close <= b
      OBVIOUS
    <3>1. SessionOn(c, e).close \in Int
      BY <1>2, SessionShape
    <3> QED BY <1>1, <2>4, <2>5, <3>1
  <2>9. Elapsed(c, anchor, bar') = Part(s, anchor, bar') + n /\ n \in Int
    <3> HIDE DEF c
    <3> QED BY <1>1, <1>2, <1>3, <2>3, <2>5, <2>8, ElapsedGrows
  <2>10. /\ Share(s, b, bar') \in Nat /\ Part(s, anchor, b) \in Int
         /\ Part(s, anchor, bar') = Part(s, anchor, b) + Share(s, b, bar')
    <3> HIDE DEF s
    <3> QED BY <1>1, <1>3, <2>2, <2>3, <2>5, PartGrows
  <2> HIDE DEF s, c
  <2>11. Elapsed(c, anchor, bar') = worth' /\ worth' \in Nat
    BY <1>1, <2>1, <2>6, <2>7, <2>9, <2>10
  <2>12. anchor' <= bar' \/ anchor' <= day * 48
    BY <1>1, <1>3, <2>1
  <2> QED BY <1>1, <1>4, <2>1, <2>11, <2>12 DEF c, Units
<1> QED BY <1>5, <1>6

LEMMA WorthNextDay ==
  ASSUME ScheduleAssumption, ScheduleInv, WorthInv, NextDay
  PROVE  WorthInv'
<1> SUFFICES ASSUME run.hours = "regular"
             PROVE  /\ worth' \in Nat
                    /\ anchor' \in Int /\ NewYear * Units <= bar
                    /\ anchor' <= bar \/ anchor' <= (day + 1) * Units
                    /\ Elapsed(run.calendar, anchor', bar) = worth'
  BY DEF WorthInv, NextDay, NewYear
<1>1. /\ run \in Runs /\ day \in Int /\ bar \in Int /\ bar <= (day + 1) * Units
  BY DEF ScheduleInv
<1>2. CASE Weekday(day') = 0
  <2>1. anchor' = (day + 1) * Units /\ worth' = 0
    BY <1>2 DEF NextDay
  <2>2. Elapsed(run.calendar, anchor', bar) = 0
    BY <1>1, <2>1 DEF Elapsed
  <2>3. anchor' \in Int
    BY <1>1, <2>1 DEF Units
  <2>4. NewYear * Units <= bar
    BY DEF WorthInv
  <2> QED BY <2>1, <2>2, <2>3, <2>4
<1>3. CASE Weekday(day') # 0
  <2>1. anchor' = anchor /\ worth' = worth
    BY <1>3 DEF NextDay
  <2>2. /\ worth \in Nat /\ anchor \in Int /\ NewYear * Units <= bar
        /\ anchor <= bar \/ anchor <= day * Units
        /\ Elapsed(run.calendar, anchor, bar) = worth
    BY DEF WorthInv
  <2>3. day * Units <= (day + 1) * Units /\ day * Units \in Int
    BY <1>1 DEF Units
  <2>4. anchor <= bar \/ anchor <= (day + 1) * Units
    BY <1>1, <2>2, <2>3 DEF Units
  <2> QED BY <2>1, <2>2, <2>4
<1> QED BY <1>2, <1>3

(* In every year, and from every Monday of it or the middle of its session, *)
(* the year fraction of a bar is the trading time of the bars since:       *)
(* nights, weekends and holidays count for nothing, an early close for a   *)
(* whole session (year_fraction).                                          *)
THEOREM TradingTimeIsCounted == ScheduleSpec => []CountsTradingTime
<1>1. ScheduleInit => WorthInv
  BY ScheduleAssumption, WorthInit
<1>2. ScheduleInv /\ WorthInv /\ [ScheduleNext]_scheduleVars => WorthInv'
  <2> SUFFICES ASSUME ScheduleInv, WorthInv, [ScheduleNext]_scheduleVars
               PROVE  WorthInv'
    OBVIOUS
  <2>1. CASE NextBar
    BY <2>1, ScheduleAssumption, WorthNextBar
  <2>2. CASE NextDay
    BY <2>2, ScheduleAssumption, WorthNextDay
  <2>3. CASE UNCHANGED scheduleVars
    BY <2>3 DEF WorthInv, scheduleVars, NewYear
  <2> QED BY <2>1, <2>2, <2>3 DEF ScheduleNext
<1>3. WorthInv => CountsTradingTime
  BY DEF WorthInv, CountsTradingTime
<1> QED BY <1>1, <1>2, <1>3, WalkInvariant, PTL DEF ScheduleSpec
=============================================================================
