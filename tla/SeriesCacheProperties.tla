----------------------- MODULE SeriesCacheProperties -----------------------
(* What makes the series cache correct, whatever its threads interleave. *)
EXTENDS SeriesCache

Places == {"idle", "exists", "read", "count", "counted", "discard", "promote", "served",
           "write", "writing", "replace", "forget", "clear"}

Counts      == [hits : Nat, misses : Nat]
MemoryTiers == [entries : Seq(Entry), bytes : Nat, counts : Counts, evictions : Nat]
CallRecords == [at : Places, key : Keys \cup {NoSeries}, series : Series \cup {NoSeries},
                left : SUBSET Files, next : {"idle", "promote", "discard"}, count : Nat]

(* Every field keeps its type; in particular the resident bytes of the     *)
(* memory tier never go below zero (cache.py:172-231).                     *)
TypeOK ==
  /\ memory \in [Processes -> MemoryTiers]
  /\ disk \in [Files -> Contents]
  /\ tmp \in [TmpNames -> Contents]
  /\ slow \in [Processes -> Counts]
  /\ thread \in [Threads -> CallRecords]

Distinct(entries) == \A i, j \in DOMAIN entries : entries[i].key = entries[j].key => i = j

(* The memory tier knows what it holds: its byte count is that of its      *)
(* entries, within the budget, and no key is held twice, whatever was      *)
(* replaced, refused, evicted, promoted and invalidated (cache.py:197-227). *)
BudgetHeld == \A p \in Processes :
  LET m == memory[p] IN
  m.bytes = Size(m.entries) /\ m.bytes <= MaxBytes /\ Distinct(m.entries)

(* "Readers never observe a partial file": what has a final name was       *)
(* written to its end, whoever wrote, was killed or failed in between      *)
(* (write_atomic, cache.py:322-349).                                       *)
FilesAreWhole == \A f \in Files : disk[f] # Partial

(* A lookup is answered with a series some caller put under that very key, *)
(* from either tier, in this run or an earlier one (get, path_for, digest). *)
ServesWhatWasPut == \A t \in Threads :
  thread[t].at = "served" => thread[t].series \in stored[thread[t].key]

(* A key invalidated while no other call on it was under way is in neither *)
(* tier of that process until somebody puts it again: in particular the    *)
(* disk cannot promote it back (TieredDataCache.invalidate).               *)
InvalidationHolds == \A g \in gone :
  ~Holds(memory[g[1]], g[2]) /\ disk[PathFor(g[2])] = NoSeries

(* No lookup is counted twice, in whatever order the threads of a process  *)
(* read and write the unlocked counters of its disk tier (cache.py:258,    *)
(* 263, 266), and every lookup is counted, as a hit of one of the tiers or *)
(* as a miss of both, unless two threads of the process have had one       *)
(* counter in hand at the same time (TieredDataCache.stats).               *)
Looking(p) == {t \in Threads : /\ ProcessOf[t] = p
                               /\ thread[t].at \in {"exists", "read", "count", "counted"}}
LookupsCounted == \A p \in Processes :
  LET counted == Stats(p).hits + Stats(p).misses + Cardinality(Looking(p))
      begun   == memory[p].counts.hits + memory[p].counts.misses
  IN counted <= begun /\ (p \notin raced => counted = begun)

(* The tiers' own bookkeeping stays right under every interleaving.        *)
CacheConsistent == TypeOK /\ BudgetHeld /\ LookupsCounted

(* What is served is whole, and is what was stored under its key.          *)
ServesWholeFiles == FilesAreWhole /\ ServesWhatWasPut
-----------------------------------------------------------------------------
(* The inductive invariant behind the theorems of SeriesCacheProofs.       *)

HistoryTypeOK ==
  /\ calls \in Nat /\ kills \in Nat
  /\ stored \in [Keys -> SUBSET Series]
  /\ quiet \subseteq Threads /\ gone \subseteq Processes \X Keys
  /\ raced \subseteq Processes

(* Whatever either tier holds was put under its key, and so was whatever a *)
(* thread takes from one to the other.                                     *)
MemoryIsStored == \A p \in Processes : \A i \in DOMAIN memory[p].entries :
  memory[p].entries[i].series \in stored[memory[p].entries[i].key]
DiskIsStored == \A k \in Keys : disk[PathFor(k)] \in stored[k] \cup {NoSeries}
(* The thread is past the point where its lookup found a series. *)
Promotes(t) ==
  \/ thread[t].at = "promote"
  \/ thread[t].at \in {"count", "counted"} /\ thread[t].next = "promote"
ThreadOK(t) ==
  LET c == thread[t] IN
  /\ c.at \notin {"idle", "clear"} => c.key \in Keys
  /\ Promotes(t) \/ c.at \in {"served", "write", "writing", "replace"} =>
       c.series \in stored[c.key]
  /\ c.at = "replace" => tmp[TmpName(t, c.key)] = c.series
ThreadsOK == \A t \in Threads : ThreadOK(t)

(* A thread whose invalidate nothing overlaps is alone with its key, which *)
(* has left its memory; nobody brings a key that is gone back.             *)
QuietOK == \A t \in quiet : thread[t].at # "idle" =>
  /\ thread[t].at = "forget" /\ Touching(thread[t].key) = {t}
  /\ ~Holds(memory[ProcessOf[t]], thread[t].key)
NobodyReturnsIt == \A g \in gone : \A t \in Touching(g[2]) :
  thread[t].at \notin {"write", "writing", "replace"} /\ ~Promotes(t)

(* What a thread has read of a counter is no more than the lookups that    *)
(* have been counted with it, h hits and m misses, and is what the counter *)
(* still holds if no two threads have raced for it.                        *)
Counting(p) == {t \in Threads : ProcessOf[t] = p /\ thread[t].at = "counted"}
CountsBounded == \A p \in Processes : \E h, m \in Nat :
  /\ h + m + Cardinality(Looking(p)) = memory[p].counts.misses
  /\ slow[p].hits <= h /\ slow[p].misses <= m
  /\ \A t \in Counting(p) : thread[t].count <= IF Counter(t) = "hits" THEN h ELSE m
CountsExact == \A p \in Processes \ raced :
  /\ slow[p].hits + slow[p].misses + Cardinality(Looking(p)) = memory[p].counts.misses
  /\ \A t \in Counting(p) : Rivals(t) = {} /\ thread[t].count = slow[p][Counter(t)]

CacheInv ==
  /\ TypeOK /\ BudgetHeld /\ HistoryTypeOK
  /\ MemoryIsStored /\ DiskIsStored /\ ThreadsOK
  /\ InvalidationHolds /\ QuietOK /\ NobodyReturnsIt
  /\ CountsBounded /\ CountsExact
=============================================================================
