---------------------------- MODULE SeriesCache ----------------------------
(***************************************************************************)
(* The series cache of sigmaloop/data/cache.py: a MemoryDataCache per      *)
(* process in front of a ParquetDataCache directory that every process and *)
(* every later run shares, combined by TieredDataCache.                    *)
(*                                                                         *)
(* The memory tier does each call under its lock, so a call of it is one   *)
(* step.  The disk tier takes no lock: between any two of its file system  *)
(* calls another thread may run, so a call of the tiered cache is a        *)
(* sequence of steps of its thread, and a process may be killed between    *)
(* any two of them.                                                        *)
(***************************************************************************)
EXTENDS SequencesExt, FiniteSetsExt, Integers

CONSTANTS
  Threads,
  Processes,
  ProcessOf,     \* [Threads -> Processes]
  Keys,          \* CacheKeys: a symbol, and the rest of the request
  SafeSymbol,    \* the symbol with what a file name cannot hold replaced
  Series,        \* the bar series callers store
  BytesOf,       \* [Series -> Nat \ {0}], _series_bytes
  RowsOf,        \* [Series -> Nat]
  MaxBytes,      \* budget of the memory tier
  MinSlowRows,   \* shorter series stay in memory
  NoSeries,      \* None
  Partial,       \* a file that is not written to its end
  MaxCalls,      \* bound: calls begun in a behaviour
  MaxKills       \* bound: processes killed in a behaviour

ASSUME CacheAssumption ==
  /\ ProcessOf \in [Threads -> Processes]
  /\ BytesOf \in [Series -> Nat \ {0}]
  /\ RowsOf \in [Series -> Nat]
  /\ MaxBytes \in Nat /\ MinSlowRows \in Nat
  /\ MaxCalls \in Nat /\ MaxKills \in Nat
  /\ NoSeries \notin Series \cup {Partial} /\ Partial \notin Series
  /\ IsFiniteSet(Threads)
  /\ Keys \subseteq [symbol : DOMAIN SafeSymbol, request : {k.request : k \in Keys}]

VARIABLES
  memory,   \* per process: _entries, oldest first, bytes_resident and stats
  disk,     \* per file name: what the file holds
  tmp,      \* per temporary name: what has been written of it
  slow,     \* per process: the counters of its ParquetDataCache
  thread,   \* per thread: where its call stands, and the call's arguments
  calls, kills,
  stored,   \* history: what callers have put under each key
  quiet,    \* history: threads whose invalidate no call on its key overlaps
  gone,     \* history: <<process, key>> so invalidated and not put since
  raced     \* history: processes two of whose threads had one counter in hand

history == <<stored, quiet, gone, raced>>
vars    == <<memory, disk, tmp, slow, thread, calls, kills, history>>

Contents == Series \cup {NoSeries, Partial}
Entry    == [key : Keys, series : Series]
Idle     == [at |-> "idle", key |-> NoSeries, series |-> NoSeries, left |-> {},
             next |-> "idle", count |-> 0]
NoCounts == [hits |-> 0, misses |-> 0]

(* CacheKey.digest covers every field, so the name path_for gives the file *)
(* of a key is its own even when another symbol is spelt alike.            *)
PathFor(k)         == <<SafeSymbol[k.symbol], <<k.symbol, k.request>>>>
Files              == {PathFor(k) : k \in Keys}

(* Planted bug: the temporary name carries the process only. *)
TmpNameOfProcess(t, k) == <<PathFor(k), ProcessOf[t]>>
(* The name write_atomic gives its temporary file: the final name, and the *)
(* process and thread that write it.                                       *)
TmpName(t, k)          == <<PathFor(k), t>>
TmpNames               == {TmpName(t, k) : t \in Threads, k \in Keys}

(***************************************************************************)
(* MemoryDataCache, one locked call each.                                  *)
(***************************************************************************)
EmptyMemory == [entries |-> <<>>, bytes |-> 0, counts |-> NoCounts, evictions |-> 0]

Index(entries, k) == {i \in DOMAIN entries : entries[i].key = k}
Holds(m, k)       == Index(m.entries, k) # {}
Found(m, k)       == CHOOSE i \in Index(m.entries, k) : TRUE
Without(m, k)     == RemoveAt(m.entries, Found(m, k))

(* What the first i entries take, for every i. *)
Sizes(entries) ==
  LET sum[i \in 0..Len(entries)] ==
        IF i = 0 THEN 0 ELSE sum[i - 1] + BytesOf[entries[i].series]
  IN sum
Size(entries) == Sizes(entries)[Len(entries)]

(* get: a hit becomes the most recently used entry. *)
Looked(m, k) ==
  IF Holds(m, k)
  THEN [m EXCEPT !.entries = Append(Without(m, k), @[Found(m, k)]),
                 !.counts.hits = @ + 1]
  ELSE [m EXCEPT !.counts.misses = @ + 1]

(* The loop that pops the oldest entry while the budget is exceeded. *)
Evicted(m) ==
  LET freed == Sizes(m.entries)
      fits  == {i \in 0..Len(m.entries) : m.bytes - freed[i] <= MaxBytes}
      n     == Min(fits \cup {Len(m.entries)})
  IN [m EXCEPT !.entries = SubSeq(@, n + 1, Len(@)),
               !.bytes = @ - freed[n],
               !.evictions = @ + n]

Dropped(m, k) ==
  IF Holds(m, k)
  THEN [m EXCEPT !.entries = Without(m, k),
                 !.bytes = @ - BytesOf[m.entries[Found(m, k)].series]]
  ELSE m

(* Planted bug: put does not give back the bytes of what it replaces. *)
RememberedAsNew(m, k, s) ==
  IF BytesOf[s] > MaxBytes THEN Dropped(m, k)
  ELSE Evicted([m EXCEPT !.entries = Append(Dropped(m, k).entries, [key |-> k, series |-> s]),
                         !.bytes = @ + BytesOf[s]])
(* put: whatever the key held goes, also when the new series is refused. *)
Remembered(m, k, s) ==
  LET free == Dropped(m, k)
  IN IF BytesOf[s] > MaxBytes THEN free
     ELSE Evicted([free EXCEPT !.entries = Append(@, [key |-> k, series |-> s]),
                               !.bytes = @ + BytesOf[s]])

Cleared(m) == [m EXCEPT !.entries = <<>>, !.bytes = 0]

(***************************************************************************)
(* TieredDataCache: the calls a thread may begin.                          *)
(***************************************************************************)
Touching(k) == {t \in Threads : thread[t].at # "idle" /\ thread[t].key = k}

(* Thread t enters a call; the calls on the same key now overlap it. *)
Enter(t, call, k) ==
  /\ thread[t].at = "idle"
  /\ calls < MaxCalls
  /\ calls' = calls + 1
  /\ quiet' = (quiet \ (Touching(k) \cup {t}))
              \cup (IF call = "invalidate" /\ Touching(k) = {} THEN {t} ELSE {})
  /\ UNCHANGED <<kills, raced>>

Go(t, at) == [thread EXCEPT ![t].at = at]
Return(t) == [thread EXCEPT ![t] = Idle]
Call(t, at, k, s, left) ==
  [thread EXCEPT ![t] = [Idle EXCEPT !.at = at, !.key = k, !.series = s, !.left = left]]

Get(t) == \E k \in Keys :
  LET p == ProcessOf[t] IN
  /\ Enter(t, "get", k)
  /\ memory' = [memory EXCEPT ![p] = Looked(@, k)]
  /\ thread' = IF Holds(memory[p], k)
               THEN Call(t, "served", k, memory[p].entries[Found(memory[p], k)].series, {})
               ELSE Call(t, "exists", k, NoSeries, {})
  /\ UNCHANGED <<disk, tmp, slow, stored, gone>>

Put(t) == \E k \in Keys, s \in Series :
  LET p == ProcessOf[t] IN
  /\ Enter(t, "put", k)
  /\ memory' = [memory EXCEPT ![p] = Remembered(@, k, s)]
  /\ thread' = IF RowsOf[s] >= MinSlowRows THEN Call(t, "write", k, s, {}) ELSE thread
  /\ stored' = [stored EXCEPT ![k] = @ \cup {s}]
  /\ gone' = {g \in gone : g[2] # k}
  /\ UNCHANGED <<disk, tmp, slow>>

Invalidate(t) == \E k \in Keys :
  /\ Enter(t, "invalidate", k)
  /\ memory' = [memory EXCEPT ![ProcessOf[t]] = Dropped(@, k)]
  /\ thread' = Call(t, "forget", k, NoSeries, {})
  /\ UNCHANGED <<disk, tmp, slow, stored, gone>>

Clear(t) ==
  /\ Enter(t, "clear", NoSeries)
  /\ memory' = [memory EXCEPT ![ProcessOf[t]] = Cleared(@)]
  /\ thread' = Call(t, "clear", NoSeries, NoSeries, {f \in Files : disk[f] # NoSeries})
  /\ UNCHANGED <<disk, tmp, slow, stored, gone>>

(***************************************************************************)
(* ParquetDataCache, one file system call per step.                        *)
(***************************************************************************)
At(t, at)  == thread[t].at = at /\ UNCHANGED <<calls, kills, stored, quiet>>
FileOf(t)  == PathFor(thread[t].key)
Unlink(f)  == disk' = [disk EXCEPT ![f] = NoSeries]

(* The lookup is decided; it has yet to be counted, and then goes to next. *)
Decided(t, s, next) ==
  [thread EXCEPT ![t].at = "count", ![t].series = s, ![t].next = next]

(* path.exists() *)
Exists(t) ==
  /\ At(t, "exists")
  /\ \/ disk[FileOf(t)] = NoSeries /\ thread' = Decided(t, NoSeries, "idle")
     \/ disk[FileOf(t)] # NoSeries /\ thread' = Go(t, "read")
  /\ UNCHANGED <<memory, disk, tmp, slow, gone, raced>>

(* read_table: a file that has vanished or does not parse is a miss. *)
Read(t) ==
  LET found == disk[FileOf(t)] IN
  /\ At(t, "read")
  /\ \/ found \in Series /\ thread' = Decided(t, found, "promote")
     \/ found \notin Series /\ thread' = Decided(t, NoSeries, "discard")
  /\ UNCHANGED <<memory, disk, tmp, slow, gone, raced>>

(* _stats.hits += 1, or misses, takes no lock: the counter is read, and    *)
(* written, with the other threads of the process in between.              *)
Counter(t)     == IF thread[t].next = "promote" THEN "hits" ELSE "misses"
Rivals(t)      == {u \in Threads \ {t} : /\ ProcessOf[u] = ProcessOf[t] /\ Counter(u) = Counter(t)
                                         /\ thread[u].at = "counted"}

LoadCount(t) ==
  /\ At(t, "count")
  /\ thread' = [thread EXCEPT ![t].at = "counted",
                              ![t].count = slow[ProcessOf[t]][Counter(t)]]
  /\ raced' = IF Rivals(t) # {} THEN raced \cup {ProcessOf[t]} ELSE raced
  /\ UNCHANGED <<memory, disk, tmp, slow, gone>>

StoreCount(t) ==
  /\ At(t, "counted")
  /\ slow' = [slow EXCEPT ![ProcessOf[t]][Counter(t)] = thread[t].count + 1]
  /\ thread' = IF thread[t].next = "idle" THEN Return(t)
               ELSE [thread EXCEPT ![t].at = thread[t].next, ![t].next = "idle", ![t].count = 0]
  /\ UNCHANGED <<memory, disk, tmp, gone, raced>>

(* The unlink that follows removes whatever has the name by then. *)
Discard(t) ==
  /\ At(t, "discard")
  /\ Unlink(FileOf(t))
  /\ thread' = Return(t)
  /\ UNCHANGED <<memory, tmp, slow, gone, raced>>

(* TieredDataCache.get stores what the disk served in memory. *)
Promote(t) ==
  /\ At(t, "promote")
  /\ memory' = [memory EXCEPT ![ProcessOf[t]] =
                  Remembered(@, thread[t].key, thread[t].series)]
  /\ thread' = Go(t, "served")
  /\ UNCHANGED <<disk, tmp, slow, gone, raced>>

(* The caller takes what get returned. *)
Served(t) ==
  /\ At(t, "served")
  /\ thread' = Return(t)
  /\ UNCHANGED <<memory, disk, tmp, slow, gone, raced>>

(* write_atomic opens its temporary file, *)
Write(t) ==
  /\ At(t, "write")
  /\ tmp' = [tmp EXCEPT ![TmpName(t, thread[t].key)] = Partial]
  /\ thread' = Go(t, "writing")
  /\ UNCHANGED <<memory, disk, slow, gone, raced>>

(* completes it, *)
Written(t) ==
  /\ At(t, "writing")
  /\ tmp' = [tmp EXCEPT ![TmpName(t, thread[t].key)] = thread[t].series]
  /\ thread' = Go(t, "replace")
  /\ UNCHANGED <<memory, disk, slow, gone, raced>>

(* or fails to: the file is removed, and the exception leaves put. *)
WriteFails(t) ==
  /\ At(t, "writing")
  /\ tmp' = [tmp EXCEPT ![TmpName(t, thread[t].key)] = NoSeries]
  /\ thread' = Return(t)
  /\ UNCHANGED <<memory, disk, slow, gone, raced>>

(* os.replace *)
Replace(t) ==
  LET name == TmpName(t, thread[t].key) IN
  /\ At(t, "replace")
  /\ disk' = [disk EXCEPT ![FileOf(t)] = tmp[name]]
  /\ tmp' = [tmp EXCEPT ![name] = NoSeries]
  /\ thread' = Return(t)
  /\ UNCHANGED <<memory, slow, gone, raced>>

(* Planted bug: invalidate stops at the memory tier. *)
ForgetNot(t) ==
  /\ At(t, "forget")
  /\ thread' = Return(t)
  /\ gone' = IF t \in quiet THEN gone \cup {<<ProcessOf[t], thread[t].key>>} ELSE gone
  /\ UNCHANGED <<memory, disk, tmp, slow, raced>>
(* The second half of invalidate: the file goes too. *)
Forget(t) ==
  /\ At(t, "forget")
  /\ Unlink(FileOf(t))
  /\ thread' = Return(t)
  /\ gone' = IF t \in quiet THEN gone \cup {<<ProcessOf[t], thread[t].key>>} ELSE gone
  /\ UNCHANGED <<memory, tmp, slow, raced>>

(* The second half of clear: the files found are unlinked one by one. *)
ClearOne(t) == \E f \in thread[t].left :
  /\ At(t, "clear")
  /\ Unlink(f)
  /\ thread' = [thread EXCEPT ![t].left = @ \ {f}]
  /\ UNCHANGED <<memory, tmp, slow, gone, raced>>

ClearDone(t) ==
  /\ At(t, "clear")
  /\ thread[t].left = {}
  /\ thread' = Return(t)
  /\ UNCHANGED <<memory, disk, tmp, slow, gone, raced>>

(* A process is killed and started again: its memory, its counters and its *)
(* calls are gone, the files are not.                                      *)
Kill(p) ==
  LET own == {t \in Threads : ProcessOf[t] = p} IN
  /\ kills < MaxKills
  /\ kills' = kills + 1
  /\ memory' = [memory EXCEPT ![p] = EmptyMemory]
  /\ slow' = [slow EXCEPT ![p] = NoCounts]
  /\ thread' = [t \in Threads |-> IF t \in own THEN Idle ELSE thread[t]]
  /\ quiet' = quiet \ own /\ raced' = raced \ {p}
  /\ UNCHANGED <<disk, tmp, calls, stored, gone>>

(* TieredDataCache.stats: a lookup the disk serves is a hit overall. *)
Stats(p) == [hits   |-> memory[p].counts.hits + slow[p].hits,
             misses |-> slow[p].misses]

Init ==
  /\ memory = [p \in Processes |-> EmptyMemory]
  /\ disk   = [f \in Files |-> NoSeries]
  /\ tmp    = [n \in TmpNames |-> NoSeries]
  /\ slow   = [p \in Processes |-> NoCounts]
  /\ thread = [t \in Threads |-> Idle]
  /\ calls = 0 /\ kills = 0
  /\ stored = [k \in Keys |-> {}]
  /\ quiet = {} /\ gone = {} /\ raced = {}

Step(t) ==
  \/ Get(t) \/ Put(t) \/ Invalidate(t) \/ Clear(t)
  \/ Exists(t) \/ Read(t) \/ LoadCount(t) \/ StoreCount(t)
  \/ Discard(t) \/ Promote(t) \/ Served(t)
  \/ Write(t) \/ Written(t) \/ WriteFails(t) \/ Replace(t)
  \/ Forget(t) \/ ClearOne(t) \/ ClearDone(t)

Next == (\E t \in Threads : Step(t)) \/ (\E p \in Processes : Kill(p))
Spec == Init /\ [][Next]_vars
=============================================================================
