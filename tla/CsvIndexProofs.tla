--------------------------- MODULE CsvIndexProofs ---------------------------
(***************************************************************************)
(* Machine-checked proofs about CsvIndex, for any number of providers,     *)
(* processes, settings and files, and for any number of loads, edits and   *)
(* faults, as long as no file is edited while it is being converted.       *)
(***************************************************************************)
EXTENDS CsvIndexProperties, TLAPS

-----------------------------------------------------------------------------
(* Types: what the operators return, and that every step keeps them. *)

LEMMA Bounds == MaxLoads \in Nat /\ MaxEdits \in Nat /\ MaxFaults \in Nat /\ Nothing \notin Files
BY CsvIndexAssumption

USE Bounds

LEMMA NamesAndFingerprints ==
  ASSUME NEW p \in Providers, NEW f \in Files
  PROVE  /\ ProcessOf[p] \in Processes /\ Fingerprint(p) \in Fingerprints
         /\ ParquetName(p, f) \in ParquetNames
         /\ ParquetName(p, f) = <<f, Fingerprint(p)>>
         /\ ParquetName(p, f) # Nothing
BY CsvIndexAssumption DEF Processes, Fingerprint, Fingerprints, ParquetName, ParquetNames

(* What a load converts is a table, and not nothing. *)
LEMMA TableType ==
  ASSUME NEW p \in Providers, NEW n \in Revisions
  PROVE  /\ [revision |-> n, parse |-> Fingerprint(p)] \in Tables
         /\ [revision |-> n, parse |-> Fingerprint(p)] # Nothing
BY CsvIndexAssumption DEF Tables, Fingerprint, Fingerprints, Revisions

LEMMA EntryIsSomething ==
  ASSUME NEW p \in Providers, NEW n \in Revisions, NEW f \in Files,
         NEW name \in {ParquetName(p, f), Nothing}
  PROVE  [revision |-> n, fingerprint |-> Fingerprint(p), parquet |-> name] # Nothing
BY CsvIndexAssumption DEF Fingerprint, Revisions, ParquetName

LEMMA NoEntriesType == NoEntries \in Entries /\ NoEntries \in [Files -> Tables \cup {Nothing}]
BY DEF NoEntries, Entries

LEMMA LoadedType ==
  ASSUME TypeOK, NEW p \in Providers
  PROVE  Loaded(p) \in IndexRecords /\ Loaded(p).loaded
<1>1. CASE index[p].loaded
  BY <1>1 DEF TypeOK, Loaded
<1>2. CASE ~index[p].loaded
  <2>1. (IF indexFile \in {Nothing, Partial} THEN NoEntries ELSE indexFile) \in Entries
    BY NoEntriesType DEF TypeOK
  <2>. QED
    BY <1>2, <2>1 DEF Loaded, IndexRecords
<1>. QED
  BY <1>1, <1>2

LEMMA EmptyRecords == NoLoad \in LoadRecords /\ Cold \in IndexRecords
BY NoEntriesType DEF NoLoad, LoadRecords, Steps, Cold, IndexRecords

(* A step of a load changes its place and at most one field more. *)
LEMMA LoadFields ==
  ASSUME NEW l \in LoadRecords, NEW at \in Steps
  PROVE  /\ [l EXCEPT !.at = at] \in LoadRecords
         /\ [l EXCEPT !.at = at, !.again = TRUE] \in LoadRecords
         /\ \A n \in Revisions : [l EXCEPT !.at = at, !.read = n] \in LoadRecords
         /\ \A n \in Revisions : [l EXCEPT !.at = at, !.stat = n] \in LoadRecords
         /\ \A got \in ServedSeries : [l EXCEPT !.at = at, !.got = got] \in LoadRecords
BY DEF LoadRecords

LEMMA GoType ==
  ASSUME TypeOK, NEW p \in Providers, NEW at \in Steps, Go(p, at)
  PROVE  load' \in [Providers -> LoadRecords]
<1>1. load[p] \in LoadRecords
  BY DEF TypeOK
<1>2. [load[p] EXCEPT !.at = at] \in LoadRecords
  BY <1>1, LoadFields
<1>. QED
  BY <1>2 DEF TypeOK, Go

LEMMA FinishType ==
  ASSUME TypeOK, NEW p \in Providers, Finish(p)
  PROVE  load' \in [Providers -> LoadRecords]
BY EmptyRecords DEF TypeOK, Finish

(* What is entered in an index. *)
LEMMA IndexFields ==
  ASSUME TypeOK, NEW p \in Providers, NEW f \in Files, NEW b \in BOOLEAN,
         NEW r \in Revisions, NEW n \in ParquetNames \cup {Nothing}
  PROVE  /\ [index EXCEPT ![p].dirty = b] \in [Providers -> IndexRecords]
         /\ [index EXCEPT ![p].entries[f] = Nothing, ![p].dirty = b] \in [Providers -> IndexRecords]
         /\ LET e == [revision |-> r, fingerprint |-> Fingerprint(p), parquet |-> n]
            IN [index EXCEPT ![p].entries[f] = e, ![p].dirty = b] \in [Providers -> IndexRecords]
<1>1. index[p] \in IndexRecords /\ index[p].entries \in Entries
  BY DEF TypeOK, IndexRecords
<1>2. [index[p] EXCEPT !.dirty = b] \in IndexRecords
  BY <1>1 DEF IndexRecords
<1> DEFINE e == [revision |-> r, fingerprint |-> Fingerprint(p), parquet |-> n]
<1>3. /\ [index[p].entries EXCEPT ![f] = Nothing] \in Entries
      /\ [index[p].entries EXCEPT ![f] = e] \in Entries
  BY <1>1, NamesAndFingerprints DEF Entries
<1> HIDE DEF e
<1>4. /\ [index[p] EXCEPT !.entries[f] = Nothing, !.dirty = b] \in IndexRecords
      /\ [index[p] EXCEPT !.entries[f] = e, !.dirty = b] \in IndexRecords
  BY <1>1, <1>3 DEF IndexRecords
<1>. QED
  BY <1>2, <1>4 DEF TypeOK, e

(* The file of a load under way, and what its index and its cache say.     *)
Busy == {"select", "parse", "stat", "store", "record", "reopen", "open", "put", "served"}

LEMMA FileOfLoad ==
  ASSUME IndexInv, NEW p \in Providers, load[p].at \in Busy
  PROVE  /\ File(p) \in Files /\ File(p) # Nothing
         /\ ParquetName(p, File(p)) \in ParquetNames
         /\ source[File(p)] \in Revisions
<1>1. load[p] \in LoadRecords /\ LoadOK(p)
  BY DEF IndexInv, TypeOK, LoadsOK
<1>2. File(p) \in Files /\ File(p) # Nothing
  BY <1>1 DEF LoadRecords, LoadOK, Busy, File
<1>. QED
  BY <1>2, NamesAndFingerprints DEF IndexInv, TypeOK

LEMMA GatheredType ==
  ASSUME NEW p \in Providers, File(p) \in Files, NEW table \in Tables
  PROVE  /\ Gathered(p, table) \in ServedSeries
         /\ Gathered(p, table).file = File(p)
         /\ Gathered(p, table).revision = table.revision
         /\ Gathered(p, table).parse = table.parse
BY DEF Gathered, ServedSeries, Tables

LEMMA TakeType ==
  ASSUME TypeOK, NEW p \in Providers, File(p) \in Files, NEW table \in Tables, Take(p, table)
  PROVE  load' \in [Providers -> LoadRecords]
<1>1. load[p] \in LoadRecords
  BY DEF TypeOK
<1>2. [load[p] EXCEPT !.at = "put", !.got = Gathered(p, table)] \in LoadRecords
  BY <1>1, LoadFields, GatheredType DEF Steps
<1>. QED
  BY <1>2 DEF TypeOK, Take

LEMMA KeyType ==
  ASSUME TypeOK, NEW p \in Providers, NEW f \in Files
  PROVE  /\ Key(p, f) \in SeriesKeys
         /\ Key(p, f).file = f /\ Key(p, f).parse = Fingerprint(p)
         /\ Key(p, f).revisions[f] = source[f]
BY NamesAndFingerprints DEF TypeOK, Key, SeriesKeys, CacheOf

(* A Parquet file the index of p names holds a table. *)
LEMMA EntryType ==
  ASSUME TypeOK, NEW p \in Providers, NEW f \in Files, index[p].entries[f] # Nothing
  PROVE  LET e == index[p].entries[f] IN
         /\ e.revision \in Revisions /\ e.parquet \in ParquetNames \cup {Nothing}
         /\ e.fingerprint \in Fingerprints
         /\ e.parquet # Nothing => parquet[e.parquet] \in Tables \cup {Nothing}
BY DEF TypeOK, IndexRecords, Entries

-----------------------------------------------------------------------------
(* What each step of a load leaves alone. *)

(* A load of p touches the memory and the load of no other provider. *)
LEMMA OthersKeep ==
  ASSUME TypeOK, NEW p \in Providers, Step(p)
  PROVE  /\ \A q \in Providers \ {p} :
              index'[q] = index[q] /\ tables'[q] = tables[q] /\ load'[q] = load[q]
         /\ source' = source /\ edits' = edits
BY DEF TypeOK, Step, Load, Select, Parse, Stat, Store, Record, FlushOpen, FlushWrite, FlushSwap,
       Recheck, Open, OpenTable, Reopen, Put, Serve, Close, Go, Finish, Take, disk, memory, counters

LEMMA TypeStep ==
  ASSUME IndexInv, NEW p \in Providers, Step(p)
  PROVE  TypeOK'
<1> DEFINE f == File(p)
<1>t. TypeOK /\ load[p] \in LoadRecords /\ index[p] \in IndexRecords
  BY DEF IndexInv, TypeOK
<1>l. LoadOK(p) /\ ParquetOK
  BY DEF IndexInv, LoadsOK
<1>1. CASE Load(p)
  <2>1. PICK g \in Files : LET key == Key(p, g) IN
          load' = [load EXCEPT ![p] =
            [NoLoad EXCEPT !.at = IF key \in DOMAIN series THEN "served" ELSE "select",
                           !.file = g, !.asked = source[g], !.key = key,
                           !.got = IF key \in DOMAIN series THEN series[key] ELSE Nothing]]
    BY <1>1 DEF Load
  <2>2. Key(p, g) \in SeriesKeys /\ source[g] \in Revisions
    BY <1>t, KeyType DEF TypeOK
  <2>3. \A at \in Steps, key \in SeriesKeys, got \in ServedSeries \cup {Nothing} :
          [NoLoad EXCEPT !.at = at, !.file = g, !.asked = source[g], !.key = key, !.got = got]
            \in LoadRecords
    BY <2>2 DEF NoLoad, LoadRecords
  <2>4. CASE Key(p, g) \in DOMAIN series
    BY <1>1, <1>t, <2>1, <2>2, <2>3, <2>4 DEF Load, TypeOK, disk, memory, Steps
  <2>5. CASE Key(p, g) \notin DOMAIN series
    BY <1>1, <1>t, <2>1, <2>2, <2>3, <2>5 DEF Load, TypeOK, disk, memory, Steps
  <2>. QED
    BY <2>4, <2>5
<1>2. CASE Select(p)
  BY <1>2, <1>t, LoadedType, GoType DEF Select, TypeOK, disk, counters, Steps
<1>3. CASE Parse(p)
  <2>1. f \in Files /\ source[f] \in Revisions
    BY <1>3, FileOfLoad DEF Parse, At, Busy
  <2>2. [load[p] EXCEPT !.at = "stat", !.read = source[f]] \in LoadRecords
    BY <1>t, <2>1, LoadFields DEF Steps
  <2>. QED
    BY <1>3, <1>t, <2>1, <2>2 DEF Parse, TypeOK, disk, memory, counters
<1>4. CASE Stat(p)
  <2>1. f \in Files /\ source[f] \in Revisions
    BY <1>4, FileOfLoad DEF Stat, At, Busy
  <2>2. [load[p] EXCEPT !.at = "store", !.stat = source[f]] \in LoadRecords
    BY <1>t, <2>1, LoadFields DEF Steps
  <2>. QED
    BY <1>4, <1>t, <2>2 DEF Stat, TypeOK, disk, memory, counters
<1>5. CASE Store(p)
  <2>1. f \in Files /\ ParquetName(p, f) \in ParquetNames /\ load[p].read \in Revisions
    BY <1>5, <1>l, FileOfLoad DEF Store, At, Busy, LoadOK, File
  <2>2. [revision |-> load[p].read, parse |-> Fingerprint(p)] \in Tables
    BY <2>1, TableType
  <2>3. load' \in [Providers -> LoadRecords]
    BY <1>5, <1>t, GoType DEF Store, Steps
  <2> DEFINE table == [revision |-> load[p].read, parse |-> Fingerprint(p)]
  <2>4. \/ parquet' = [parquet EXCEPT ![ParquetName(p, f)] = table] /\ UNCHANGED tables
        \/ tables' = [tables EXCEPT ![p][f] = table] /\ UNCHANGED parquet
    BY <1>5 DEF Store
  <2>5. table \in Tables
    BY <2>2
  <2> HIDE DEF table
  <2>6. [tables[p] EXCEPT ![f] = table] \in [Files -> Tables \cup {Nothing}]
    BY <1>t, <2>1, <2>5 DEF TypeOK
  <2>7. /\ parquet' \in [ParquetNames -> Tables \cup {Nothing}]
        /\ tables' \in [Providers -> [Files -> Tables \cup {Nothing}]]
    <3>1. CASE parquet' = [parquet EXCEPT ![ParquetName(p, f)] = table] /\ UNCHANGED tables
      BY <1>t, <2>1, <2>5, <3>1 DEF TypeOK
    <3>2. CASE tables' = [tables EXCEPT ![p][f] = table] /\ UNCHANGED parquet
      BY <1>t, <2>6, <3>2 DEF TypeOK
    <3>. QED
      BY <2>4, <3>1, <3>2
  <2>. QED
    BY <1>5, <1>t, <2>3, <2>7 DEF Store, TypeOK, counters
<1>6. CASE Record(p)
  <2>1. f \in Files /\ ParquetName(p, f) \in ParquetNames /\ load[p].stat \in Revisions
    BY <1>6, <1>l, FileOfLoad DEF Record, At, Busy, LoadOK, File
  <2>2. load' \in [Providers -> LoadRecords]
    BY <1>6, <1>t, GoType DEF Record, Steps
  <2>3. index' \in [Providers -> IndexRecords]
    BY <1>6, <1>t, <2>1, IndexFields DEF Record
  <2>. QED
    BY <1>6, <1>t, <2>2, <2>3 DEF Record, TypeOK, disk, counters
<1>7. CASE FlushOpen(p)
  <2>1. load' \in [Providers -> LoadRecords]
    BY <1>7, <1>t, GoType DEF FlushOpen, Steps
  <2>2. index' \in [Providers -> IndexRecords]
    <3>1. [index[p] EXCEPT !.dirty = FALSE] \in IndexRecords
      BY <1>t DEF IndexRecords
    <3>. QED
      BY <1>7, <1>t, <3>1 DEF FlushOpen, TypeOK
  <2>3. indexTmp' \in [Processes -> Entries \cup {Nothing, Partial}]
    BY <1>7, <1>t DEF FlushOpen, TypeOK
  <2>. QED
    BY <1>7, <1>t, <2>1, <2>2, <2>3 DEF FlushOpen, TypeOK, counters
<1>8. CASE FlushWrite(p)
  <2>1. load' \in [Providers -> LoadRecords]
    BY <1>8, <1>t, GoType DEF FlushWrite, Steps
  <2>2. indexTmp' \in [Processes -> Entries \cup {Nothing, Partial}]
    BY <1>8, <1>t DEF FlushWrite, TypeOK, IndexRecords
  <2>. QED
    BY <1>8, <1>t, <2>1, <2>2 DEF FlushWrite, TypeOK, memory, counters
<1>9. CASE FlushSwap(p)
  <2>1. load' \in [Providers -> LoadRecords]
    BY <1>9, <1>t, GoType DEF FlushSwap, Steps
  <2>2. index' \in [Providers -> IndexRecords]
    BY <1>9, <1>t DEF FlushSwap, IndexRecords, TypeOK
  <2>3. /\ indexTmp' \in [Processes -> Entries \cup {Nothing, Partial}]
        /\ indexFile' \in Entries \cup {Nothing, Partial}
    BY <1>9, <1>t, ProcessOf[p] \in Processes DEF FlushSwap, TypeOK, Processes
  <2>. QED
    BY <1>9, <1>t, <2>1, <2>2, <2>3 DEF FlushSwap, TypeOK, counters
<1>10. CASE Recheck(p)
  BY <1>10, <1>t, GoType, FinishType DEF Recheck, TypeOK, disk, memory, counters, Steps
<1>11. CASE Open(p)
  <2>1. f \in Files /\ index[p].entries[f] # Nothing
    BY <1>11, <1>l, FileOfLoad DEF Open, At, Busy, LoadOK, File
  <2>2. parquet[index[p].entries[f].parquet] \in Tables \cup {Nothing}
    BY <1>11, <1>t, <2>1, EntryType DEF Open
  <2>3. [load[p] EXCEPT !.at = "parse", !.again = TRUE] \in LoadRecords
    BY <1>t, LoadFields DEF Steps
  <2>4. load' \in [Providers -> LoadRecords]
    BY <1>11, <1>t, <2>1, <2>2, <2>3, TakeType DEF Open, TypeOK
  <2>5. [index EXCEPT ![p].entries[f] = Nothing, ![p].dirty = TRUE] \in [Providers -> IndexRecords]
    BY <1>t, <2>1 DEF TypeOK, IndexRecords, Entries
  <2>. QED
    BY <1>11, <1>t, <2>4, <2>5 DEF Open, TypeOK, disk, counters
<1>12. CASE OpenTable(p)
  <2>1. f \in Files /\ source[f] \in Revisions
    BY <1>12, FileOfLoad DEF OpenTable, At, Busy
  <2> DEFINE table == IF tables[p][f] # Nothing THEN tables[p][f]
                      ELSE [revision |-> source[f], parse |-> Fingerprint(p)]
  <2>2. table \in Tables
    BY <1>t, <2>1, TableType DEF TypeOK
  <2>3. Take(p, table) /\ tables' = [tables EXCEPT ![p][f] = table]
    BY <1>12 DEF OpenTable
  <2> HIDE DEF table
  <2>. QED
    BY <1>12, <1>t, <2>1, <2>2, <2>3, TakeType DEF OpenTable, TypeOK, disk, counters
<1>13. CASE Reopen(p)
  <2>1. f \in Files
    BY <1>13, FileOfLoad DEF Reopen, At, Busy
  <2>2. CASE Fresh(index[p], p, f) /\ index[p].entries[f].parquet # Nothing
    <3>1. parquet[index[p].entries[f].parquet] \in Tables
      BY <1>t, <2>1, <2>2, EntryType DEF Fresh
    <3>. QED
      BY <1>13, <1>t, <2>1, <2>2, <3>1, TakeType DEF Reopen, TypeOK, disk, memory, counters
  <2>3. CASE ~(Fresh(index[p], p, f) /\ index[p].entries[f].parquet # Nothing)
    BY <1>13, <1>t, <2>3, FinishType DEF Reopen, TypeOK, disk, memory, counters
  <2>. QED
    BY <2>2, <2>3
<1>14. CASE Put(p)
  <2>1. load' \in [Providers -> LoadRecords]
    BY <1>14, <1>t, GoType DEF Put, Steps
  <2>2. load[p].key \in SeriesKeys /\ load[p].got \in ServedSeries
    BY <1>14, <1>l DEF Put, At, LoadOK
  <2>3. /\ DOMAIN series' \subseteq SeriesKeys
        /\ \A k \in DOMAIN series' : series'[k] \in ServedSeries
    BY <1>14, <1>t, <2>2 DEF Put, TypeOK
  <2>. QED
    BY <1>14, <1>t, <2>1, <2>3 DEF Put, TypeOK, memory, counters
<1>15. CASE Serve(p)
  BY <1>15, <1>t, FinishType DEF Serve, TypeOK, disk, memory, counters
<1>16. CASE Close(p)
  <2>1. load' \in [Providers -> LoadRecords]
    BY <1>16, <1>t, GoType DEF Close, Steps
  <2>. QED
    BY <1>16, <1>t, <2>1, NoEntriesType DEF Close, TypeOK, disk
<1>. QED
  BY <1>1, <1>2, <1>3, <1>4, <1>5, <1>6, <1>7, <1>8, <1>9, <1>10, <1>11, <1>12, <1>13, <1>14,
     <1>15, <1>16 DEF Step

-----------------------------------------------------------------------------
(* The converted files: what a step may do to them, and what entries that  *)
(* were right keep saying of them.                                         *)

(* A conversion is replaced by one of the file as it now is, or is lost.   *)
DiskMoves ==
  /\ \A f \in Files : source'[f] \in Revisions /\ source[f] <= source'[f]
  /\ \A n \in ParquetNames :
       \/ parquet'[n] = parquet[n]
       \/ parquet'[n] = Nothing
       \/ parquet'[n] = [revision |-> source[n[1]], parse |-> n[2]]

LEMMA StepMovesDisk ==
  ASSUME IndexInv, NEW p \in Providers, Step(p)
  PROVE  DiskMoves
<1>1. source' = source /\ source \in [Files -> Revisions]
  BY OthersKeep DEF IndexInv, TypeOK
<1>2. CASE Store(p)
  <2>1. File(p) \in Files /\ load[p].read = source[File(p)]
    BY <1>2, FileOfLoad DEF Store, At, Busy, IndexInv, LoadsOK, LoadOK, File
  <2>2. ParquetName(p, File(p))[1] = File(p) /\ ParquetName(p, File(p))[2] = Fingerprint(p)
    BY DEF ParquetName
  <2>3. parquet \in [ParquetNames -> Tables \cup {Nothing}]
    BY DEF IndexInv, TypeOK
  <2>. QED
    BY <1>1, <1>2, <2>1, <2>2, <2>3 DEF Store, DiskMoves, Revisions
<1>3. CASE ~Store(p)
  <2>1. parquet' = parquet
    BY <1>3 DEF Step, Load, Select, Parse, Stat, Record, FlushOpen, FlushWrite, FlushSwap,
                Recheck, Open, OpenTable, Reopen, Put, Serve, Close, disk
  <2>. QED
    BY <1>1, <2>1 DEF DiskMoves, Revisions
<1>. QED
  BY <1>2, <1>3

LEMMA ParquetStays ==
  ASSUME IndexInv, DiskMoves
  PROVE  ParquetOK'
<1>1. \A n \in ParquetNames : n[1] \in Files
  BY DEF ParquetNames, ParquetName
<1>2. /\ source \in [Files -> Revisions]
      /\ \A n \in ParquetNames : parquet[n] # Nothing =>
           parquet[n].parse = n[2] /\ parquet[n].revision <= source[n[1]] /\ parquet[n] \in Tables
  BY DEF IndexInv, TypeOK, ParquetOK
<1>3. ASSUME NEW n \in ParquetNames, parquet'[n] # Nothing
      PROVE  parquet'[n].parse = n[2] /\ parquet'[n].revision <= source'[n[1]]
  <2>1. /\ n[1] \in Files /\ source[n[1]] \in Nat /\ source'[n[1]] \in Nat
        /\ source[n[1]] <= source'[n[1]]
    BY <1>1, <1>2 DEF DiskMoves, Revisions
  <2>2. CASE parquet'[n] = parquet[n]
    BY <1>2, <1>3, <2>1, <2>2 DEF Tables, Revisions
  <2>3. CASE parquet'[n] = [revision |-> source[n[1]], parse |-> n[2]]
    BY <2>1, <2>3
  <2>. QED
    BY <1>3, <2>2, <2>3 DEF DiskMoves
<1>. QED
  BY <1>3 DEF ParquetOK

LEMMA EntriesStay ==
  ASSUME IndexInv, DiskMoves, NEW entries \in Entries, EntriesAgree(entries, source, parquet)
  PROVE  EntriesAgree(entries, source', parquet')
<1> SUFFICES ASSUME NEW f \in Files, entries[f] # Nothing
             PROVE  LET e == entries[f] IN
                    /\ e.revision <= source'[f]
                    /\ e.parquet # Nothing =>
                         /\ e.parquet = <<f, e.fingerprint>>
                         /\ parquet'[e.parquet] # Nothing => e.revision <= parquet'[e.parquet].revision
  BY DEF EntriesAgree
<1> DEFINE e == entries[f]
<1>1. /\ e.revision \in Nat /\ e.parquet \in ParquetNames \cup {Nothing}
      /\ source[f] \in Nat /\ source'[f] \in Nat /\ source[f] <= source'[f]
  BY DEF Entries, Revisions, IndexInv, TypeOK, DiskMoves
<1>2. /\ e.revision <= source[f]
      /\ e.parquet # Nothing =>
           /\ e.parquet = <<f, e.fingerprint>>
           /\ parquet[e.parquet] # Nothing => e.revision <= parquet[e.parquet].revision
  BY DEF EntriesAgree
<1>3. ASSUME e.parquet # Nothing, parquet'[e.parquet] # Nothing
      PROVE  e.revision <= parquet'[e.parquet].revision
  <2>1. e.parquet \in ParquetNames /\ e.parquet[1] = f
    BY <1>1, <1>2, <1>3
  <2> DEFINE n == e.parquet
  <2>2. \/ parquet'[n] = parquet[n]
        \/ parquet'[n] = [revision |-> source[f], parse |-> n[2]]
    BY <1>3, <2>1 DEF DiskMoves
  <2> HIDE DEF n
  <2>3. parquet'[n] = [revision |-> source[f], parse |-> n[2]] => parquet'[n].revision = source[f]
    OBVIOUS
  <2>. QED
    BY <1>2, <1>3, <2>2, <2>3 DEF n
<1>. QED
  BY <1>1, <1>2, <1>3

(* An index whose entries are right once one of them is taken out, or is   *)
(* replaced by one that agrees with what is there.                         *)
LEMMA EntriesChange ==
  ASSUME NEW entries \in Entries, NEW g \in Files, NEW e, NEW revisions, NEW converted,
         EntriesAgree(entries, revisions, converted),
         e # Nothing =>
           /\ e.revision <= revisions[g]
           /\ e.parquet # Nothing =>
                /\ e.parquet = <<g, e.fingerprint>>
                /\ converted[e.parquet] # Nothing => e.revision <= converted[e.parquet].revision
  PROVE  EntriesAgree([entries EXCEPT ![g] = e], revisions, converted)
BY DEF EntriesAgree, Entries

LEMMA NoEntriesAgree ==
  \A revisions, converted : EntriesAgree(NoEntries, revisions, converted)
BY DEF EntriesAgree, NoEntries

LEMMA LoadedAgrees ==
  ASSUME IndexInv, NEW p \in Providers
  PROVE  EntriesAgree(Loaded(p).entries, source, parquet)
BY NoEntriesAgree DEF IndexInv, IndexesOK, Loaded

LEMMA IndexesStep ==
  ASSUME IndexInv, NEW p \in Providers, Step(p)
  PROVE  IndexesOK'
<1> DEFINE f == File(p)
           Good(entries) == EntriesAgree(entries, source', parquet')
<1>d. DiskMoves
  BY StepMovesDisk
<1>t. TypeOK /\ LoadOK(p) /\ IndexesOK /\ index[p] \in IndexRecords
  BY DEF IndexInv, TypeOK, LoadsOK
(* What was right before the step is right after it. *)
<1>s. \A entries \in Entries : EntriesAgree(entries, source, parquet) => Good(entries)
  BY <1>d, EntriesStay
<1>e. /\ \A q \in Providers : index[q].entries \in Entries /\ Good(index[q].entries)
      /\ \A q \in Processes : indexTmp[q] \notin {Nothing, Partial} => Good(indexTmp[q])
      /\ indexFile \notin {Nothing, Partial} => Good(indexFile)
      /\ Good(Loaded(p).entries)
  BY <1>t, <1>s, LoadedAgrees, LoadedType DEF IndexesOK, TypeOK, IndexRecords
<1>o. /\ \A q \in Providers \ {p} : index'[q] = index[q]
      /\ \A q \in Providers : q # p => Good(index'[q].entries)
  BY <1>t, <1>e, OthersKeep
<1> HIDE DEF Good
<1>1. CASE UNCHANGED <<index, indexFile, indexTmp>>
  BY <1>1, <1>e DEF IndexesOK, Good
<1>2. CASE Select(p)
  <2>1. index'[p] = Loaded(p)
    BY <1>2, <1>t DEF Select, TypeOK
  <2>. QED
    BY <1>2, <1>e, <1>o, <2>1 DEF Select, disk, IndexesOK, Good
<1>3. CASE Record(p)
  <2> DEFINE e == [revision |-> load[p].stat, fingerprint |-> Fingerprint(p),
                   parquet |-> IF p \in UsesParquet THEN ParquetName(p, f) ELSE Nothing]
  <2>1. f \in Files /\ source'[f] = load[p].stat /\ load[p].stat \in Nat /\ parquet' = parquet
    BY <1>3, <1>t, FileOfLoad DEF Record, At, Busy, disk, LoadOK, File, Revisions
  <2>2. /\ e.revision = load[p].stat /\ e.fingerprint = Fingerprint(p)
        /\ e.parquet # Nothing => e.parquet = <<f, Fingerprint(p)>> /\ p \in UsesParquet
    BY DEF ParquetName
  <2>3. e.parquet # Nothing /\ parquet'[e.parquet] # Nothing =>
          parquet'[e.parquet].revision = load[p].stat
    BY <1>3, <1>t, <2>1, <2>2 DEF Record, At, LoadOK, File, ParquetName
  <2>4. index'[p].entries = [index[p].entries EXCEPT ![f] = e]
    BY <1>3, <1>t DEF Record, TypeOK, IndexRecords
  <2> HIDE DEF e
  <2>5. EntriesAgree([index[p].entries EXCEPT ![f] = e], source', parquet')
    <3>1. index[p].entries \in Entries /\ EntriesAgree(index[p].entries, source', parquet')
      BY <1>e DEF Good
    <3>2. e # Nothing =>
            /\ e.revision <= source'[f]
            /\ e.parquet # Nothing =>
                 /\ e.parquet = <<f, e.fingerprint>>
                 /\ parquet'[e.parquet] # Nothing => e.revision <= parquet'[e.parquet].revision
      BY <2>1, <2>2, <2>3
    <3>. QED
      BY <2>1, <3>1, <3>2, EntriesChange
  <2>. QED
    BY <1>3, <1>e, <1>o, <2>4, <2>5 DEF Record, disk, IndexesOK, Good
<1>4. CASE FlushOpen(p)
  <2>1. index'[p].entries = index[p].entries
    BY <1>4, <1>t DEF FlushOpen, TypeOK, IndexRecords
  <2>2. indexFile' = indexFile /\ \A q \in Processes : indexTmp'[q] \in {indexTmp[q], Partial}
    BY <1>4, <1>t DEF FlushOpen, TypeOK
  <2>. QED
    BY <1>e, <1>o, <2>1, <2>2 DEF IndexesOK, Good
<1>5. CASE FlushWrite(p)
  <2>1. \A q \in Processes : indexTmp'[q] \in {indexTmp[q], index[p].entries}
    BY <1>5, <1>t DEF FlushWrite, TypeOK
  <2>. QED
    BY <1>5, <1>e, <2>1 DEF FlushWrite, memory, IndexesOK, Good
<1>6. CASE FlushSwap(p)
  <2>1. index'[p].entries = index[p].entries
    BY <1>6, <1>t DEF FlushSwap, TypeOK, IndexRecords
  <2>2. /\ \A q \in Processes : indexTmp'[q] \in {indexTmp[q], Nothing}
        /\ indexFile' \in {indexFile, indexTmp[ProcessOf[p]]}
    BY <1>6, <1>t DEF FlushSwap, TypeOK
  <2>3. ProcessOf[p] \in Processes
    BY DEF Processes
  <2>. QED
    BY <1>e, <1>o, <2>1, <2>2, <2>3 DEF IndexesOK, Good
<1>7. CASE Open(p)
  <2>1. f \in Files
    BY <1>7, FileOfLoad DEF Open, At, Busy
  <2>2. index'[p].entries \in {index[p].entries, [index[p].entries EXCEPT ![f] = Nothing]}
    BY <1>7, <1>t DEF Open, TypeOK, IndexRecords
  <2>3. Good(index'[p].entries)
    <3>1. index[p].entries \in Entries /\ EntriesAgree(index[p].entries, source', parquet')
      BY <1>e DEF Good
    <3>2. EntriesAgree([index[p].entries EXCEPT ![f] = Nothing], source', parquet')
      BY <2>1, <3>1, EntriesChange
    <3>. QED
      BY <2>2, <3>1, <3>2 DEF Good
  <2>. QED
    BY <1>7, <1>e, <1>o, <2>3 DEF Open, disk, IndexesOK, Good
<1>. QED
  BY <1>1, <1>2, <1>3, <1>4, <1>5, <1>6, <1>7
     DEF Step, Load, Parse, Stat, Store, Recheck, OpenTable, Reopen, Put, Serve, Close, disk, memory

(* An entry that is right is of no later revision than the file. *)
LEMMA EntryIsOld ==
  ASSUME IndexInv, NEW p \in Providers, NEW f \in Files, index[p].entries[f] # Nothing
  PROVE  /\ index[p].entries[f].revision \in Nat /\ source[f] \in Nat
         /\ index[p].entries[f].revision <= source[f]
BY EntryType DEF IndexInv, TypeOK, IndexesOK, EntriesAgree, Revisions

LEMMA TablesStep ==
  ASSUME IndexInv, NEW p \in Providers, Step(p)
  PROVE  TablesOK'
<1> DEFINE f == File(p)
           Good(g) ==
             tables'[p][g] # Nothing =>
               /\ index'[p].loaded
               /\ tables'[p][g].parse = Fingerprint(p)
               /\ index'[p].entries[g] # Nothing /\ index'[p].entries[g].parquet = Nothing =>
                    index'[p].entries[g].revision <= tables'[p][g].revision
<1>t. TypeOK /\ LoadOK(p) /\ index[p] \in IndexRecords /\ \A g \in Files : TableOK(p, g)
  BY DEF IndexInv, TypeOK, LoadsOK, TablesOK
<1> SUFFICES ASSUME NEW g \in Files
             PROVE  Good(g)
  BY OthersKeep DEF IndexInv, TablesOK, TableOK, Fingerprint
<1>1. CASE UNCHANGED <<index, tables>>
  BY <1>1, <1>t DEF TableOK
<1>2. CASE Select(p)
  BY <1>2, <1>t DEF Select, TypeOK, TableOK, Loaded
<1>3. CASE Store(p)
  <2> DEFINE table == [revision |-> load[p].read, parse |-> Fingerprint(p)]
  <2>1. /\ f \in Files /\ load[p].read = source[f] /\ index[p].loaded
    BY <1>3, <1>t, FileOfLoad DEF Store, At, Busy, LoadOK, File
  <2>2. tables'[p][g] = tables[p][g] \/ (g = f /\ tables'[p][g] = table)
    BY <1>3, <1>t DEF Store, TypeOK
  <2>. QED
    BY <1>3, <1>t, <2>1, <2>2, EntryIsOld DEF Store, TableOK
<1>4. CASE Record(p)
  <2>1. f \in Files /\ load[p].stat \in Nat /\ index[p].loaded
    BY <1>4, <1>t, FileOfLoad DEF Record, At, Busy, LoadOK, File, TypeOK, Revisions
  <2>2. tables' = tables /\ index'[p].loaded = index[p].loaded
    BY <1>4, <1>t DEF Record, TypeOK, IndexRecords
  <2>3. CASE g # f
    BY <1>4, <1>t, <2>2, <2>3 DEF Record, TypeOK, IndexRecords, Entries, TableOK
  <2>4. CASE g = f
    <3>1. index'[p].entries[f] = [revision |-> load[p].stat, fingerprint |-> Fingerprint(p),
             parquet |-> IF p \in UsesParquet THEN ParquetName(p, f) ELSE Nothing]
      BY <1>4, <1>t, <2>1 DEF Record, TypeOK, IndexRecords, Entries
    <3>2. p \notin UsesParquet => tables[p][f].revision = load[p].stat
      BY <1>4, <1>t DEF Record, At, LoadOK, File
    <3>. QED
      BY <1>t, <2>1, <2>2, <2>4, <3>1, <3>2, NamesAndFingerprints DEF TableOK
  <2>. QED
    BY <2>3, <2>4
<1>5. CASE FlushOpen(p) \/ FlushSwap(p)
  <2>1. /\ tables' = tables
        /\ index'[p].entries = index[p].entries /\ index'[p].loaded = index[p].loaded
    BY <1>5, <1>t DEF FlushOpen, FlushSwap, TypeOK, IndexRecords
  <2>. QED
    BY <1>t, <2>1 DEF TableOK
<1>6. CASE Open(p)
  <2>1. /\ tables' = tables /\ index'[p].loaded = index[p].loaded
        /\ index'[p].entries[g] \in {index[p].entries[g], Nothing}
    BY <1>6, <1>t DEF Open, TypeOK, IndexRecords, Entries
  <2>. QED
    BY <1>t, <2>1 DEF TableOK
<1>7. CASE OpenTable(p)
  <2>1. f \in Files /\ index[p].loaded
    BY <1>7, <1>t, FileOfLoad DEF OpenTable, At, Busy, LoadOK, File
  <2>2. \/ tables'[p][g] = tables[p][g]
        \/ g = f /\ tables'[p][g] = [revision |-> source[f], parse |-> Fingerprint(p)]
    BY <1>7, <1>t, <2>1 DEF OpenTable, TypeOK
  <2>. QED
    BY <1>7, <1>t, <2>1, <2>2, EntryIsOld DEF OpenTable, TableOK
<1>8. CASE Close(p)
  <2>1. tables'[p][g] = Nothing
    BY <1>8, <1>t DEF Close, TypeOK, NoEntries
  <2>. QED
    BY <2>1
<1>. QED
  BY <1>1, <1>2, <1>3, <1>4, <1>5, <1>6, <1>7, <1>8
     DEF Step, Load, Parse, Stat, FlushWrite, Recheck, Reopen, Put, Serve, memory

LEMMA SeriesStep ==
  ASSUME IndexInv, NEW p \in Providers, Step(p)
  PROVE  SeriesOK'
<1>1. CASE Put(p)
  <2>1. /\ load[p].key.file = load[p].file /\ load[p].key.parse = Fingerprint(p)
        /\ load[p].key.revisions[load[p].file] = load[p].asked
        /\ load[p].got.file = load[p].file /\ load[p].got.parse = Fingerprint(p)
        /\ load[p].asked <= load[p].got.revision
    BY <1>1 DEF IndexInv, LoadsOK, LoadOK, Put, At
  <2>. QED
    BY <1>1, <2>1 DEF Put, IndexInv, SeriesOK
<1>2. CASE ~Put(p)
  <2>1. series' = series
    BY <1>2 DEF Step, Load, Select, Parse, Stat, Store, Record, FlushOpen, FlushWrite, FlushSwap,
                Recheck, Open, OpenTable, Reopen, Serve, Close, disk
  <2>. QED
    BY <2>1 DEF IndexInv, SeriesOK
<1>. QED
  BY <1>1, <1>2

-----------------------------------------------------------------------------
(* The loads. *)

(* Two loads that differ in their place only. *)
Alike(l, m) == /\ l.file = m.file /\ l.asked = m.asked /\ l.key = m.key
               /\ l.read = m.read /\ l.stat = m.stat /\ l.got = m.got

LEMMA GoFields ==
  ASSUME TypeOK, NEW p \in Providers, NEW at \in Steps, Go(p, at)
  PROVE  load'[p].at = at /\ Alike(load'[p], load[p])
BY DEF TypeOK, Go, LoadRecords, Alike

LEMMA FinishFields ==
  ASSUME TypeOK, NEW p \in Providers, Finish(p)
  PROVE  load'[p] = NoLoad
BY DEF TypeOK, Finish

LEMMA TakeFields ==
  ASSUME TypeOK, NEW p \in Providers, NEW table, Take(p, table)
  PROVE  /\ load'[p].at = "put" /\ load'[p].got = Gathered(p, table)
         /\ load'[p].file = load[p].file /\ load'[p].asked = load[p].asked
         /\ load'[p].key = load[p].key
BY DEF TypeOK, Take, LoadRecords

LEMMA NoLoadOK ==
  ASSUME NEW p \in Providers, load'[p] = NoLoad
  PROVE  LoadOK(p)'
BY DEF LoadOK, NoLoad

(* A load that has found a table of its own file, parsed its own way and   *)
(* no older than what was asked for, may serve it.                         *)
LEMMA TakeOK ==
  ASSUME IndexInv, NEW p \in Providers, NEW table \in Tables, Take(p, table),
         load[p].at \in Busy, source' = source,
         table.parse = Fingerprint(p), load[p].asked <= table.revision
  PROVE  LoadOK(p)'
<1>1. TypeOK /\ LoadOK(p) /\ File(p) \in Files /\ load[p].file # Nothing
  BY FileOfLoad DEF IndexInv, LoadsOK, File
<1>2. /\ Gathered(p, table) \in ServedSeries /\ Gathered(p, table).file = load[p].file
      /\ Gathered(p, table).revision = table.revision
      /\ Gathered(p, table).parse = Fingerprint(p)
  BY <1>1, GatheredType DEF File
<1>3. /\ load'[p].at = "put" /\ load'[p].got = Gathered(p, table)
      /\ load'[p].file = load[p].file /\ load'[p].asked = load[p].asked
      /\ load'[p].key = load[p].key
  BY <1>1, TakeFields
<1>. QED
  BY <1>1, <1>2, <1>3 DEF LoadOK, Fingerprint

(* The load of another provider does not notice. *)
LEMMA OtherLoadStays ==
  ASSUME IndexInv, NEW p \in Providers, Step(p), NEW q \in Providers \ {p}
  PROVE  LoadOK(q)'
<1>1. /\ load'[q] = load[q] /\ index'[q] = index[q] /\ tables'[q] = tables[q]
      /\ source' = source
  BY OthersKeep DEF IndexInv
<1>2. LoadOK(q) /\ load[q] \in LoadRecords
  BY DEF IndexInv, LoadsOK, TypeOK
<1> DEFINE n == ParquetName(q, load[q].file)
<1>3. ASSUME load[q].at = "record", q \in UsesParquet, parquet'[n] # Nothing
      PROVE  parquet'[n].revision = load[q].stat
  <2>1. load[q].file \in Files /\ load[q].stat = source[load[q].file]
    BY <1>2, <1>3 DEF LoadOK, LoadRecords
  <2>2. n \in ParquetNames /\ n[1] = load[q].file
    BY <2>1, NamesAndFingerprints DEF ParquetName
  <2>3. parquet[n] # Nothing => parquet[n].revision = load[q].stat
    BY <1>2, <1>3 DEF LoadOK
  <2> HIDE DEF n
  <2>4. parquet'[n] # parquet[n] => parquet'[n] = [revision |-> source[load[q].file], parse |-> n[2]]
    BY <1>3, <2>2, StepMovesDisk DEF DiskMoves
  <2>. QED
    BY <1>3, <2>1, <2>3, <2>4
<1>4. ParquetName(q, load[q].file)' = n
  BY <1>1 DEF ParquetName, Fingerprint
<1> HIDE DEF n
<1>. QED
  BY <1>1, <1>2, <1>3, <1>4 DEF LoadOK, Fingerprint

LEMMA OwnLoadStays ==
  ASSUME IndexInv, NEW p \in Providers, Step(p)
  PROVE  LoadOK(p)'
<1> DEFINE f == load[p].file
<1>t. TypeOK /\ LoadOK(p) /\ load[p] \in LoadRecords /\ index[p] \in IndexRecords
  BY DEF IndexInv, TypeOK, LoadsOK
<1>b. load[p].at \in Busy => f \in Files /\ f # Nothing /\ source[f] \in Revisions
  BY FileOfLoad DEF File
<1>1. CASE Load(p)
  <2>1. PICK g \in Files : LET key == Key(p, g) IN
          load' = [load EXCEPT ![p] =
            [NoLoad EXCEPT !.at = IF key \in DOMAIN series THEN "served" ELSE "select",
                           !.file = g, !.asked = source[g], !.key = key,
                           !.got = IF key \in DOMAIN series THEN series[key] ELSE Nothing]]
    BY <1>1 DEF Load
  <2> DEFINE key == Key(p, g)
  <2>2. /\ key \in SeriesKeys /\ key.file = g /\ key.parse = Fingerprint(p)
        /\ key.revisions[g] = source[g] /\ source[g] \in Revisions
    BY <1>t, KeyType DEF TypeOK
  <2>3. key \in DOMAIN series =>
          /\ series[key] \in ServedSeries /\ series[key].file = g
          /\ series[key].parse = Fingerprint(p) /\ source[g] <= series[key].revision
    BY <1>t, <2>2 DEF IndexInv, SeriesOK, TypeOK
  <2> HIDE DEF key
  <2>4. /\ load'[p].at = (IF key \in DOMAIN series THEN "served" ELSE "select")
        /\ load'[p].file = g /\ load'[p].asked = source[g] /\ load'[p].key = key
        /\ key \in DOMAIN series => load'[p].got = series[key]
    BY <1>t, <2>1 DEF key, NoLoad, TypeOK
  <2>5. source' = source
    BY <1>1 DEF Load
  <2>. QED
    BY <2>2, <2>3, <2>4, <2>5 DEF LoadOK, Fingerprint, Revisions
<1>2. CASE Select(p)
  <2>1. /\ load'[p].at \in {"open", "parse"} /\ Alike(load'[p], load[p])
        /\ load'[p].at = "open" => Fresh(Loaded(p), p, f)
    BY <1>2, <1>t, GoFields DEF Select, Steps, File
  <2>2. index'[p] = Loaded(p) /\ source' = source /\ Loaded(p).loaded /\ load[p].at = "select"
    BY <1>2, <1>t, LoadedType DEF Select, At, TypeOK
  <2>. QED
    BY <1>t, <1>b, <2>1, <2>2 DEF LoadOK, Alike, Fresh, Busy, Fingerprint
<1>3. CASE Parse(p)
  BY <1>3, <1>t, <1>b DEF Parse, At, LoadOK, File, TypeOK, LoadRecords, Busy, disk, memory, Fingerprint
<1>4. CASE Stat(p)
  BY <1>4, <1>t, <1>b DEF Stat, At, LoadOK, File, TypeOK, LoadRecords, Busy, disk, memory, Fingerprint
<1>5. CASE Store(p)
  <2> DEFINE n == ParquetName(p, f)
             table == [revision |-> load[p].read, parse |-> Fingerprint(p)]
  <2>1. /\ load'[p].at = "record" /\ Alike(load'[p], load[p])
        /\ load[p].at = "store" /\ source' = source /\ index' = index
    BY <1>5, <1>t, GoFields DEF Store, Steps, At
  <2>2. /\ f \in Files /\ n \in ParquetNames /\ load[p].read = source[f] /\ load[p].stat = source[f]
        /\ table # Nothing
    BY <1>t, <1>b, <2>1, NamesAndFingerprints, TableType DEF Busy, LoadOK
  <2>3. IF p \in UsesParquet THEN parquet'[n] = table ELSE tables'[p][f] = table
    BY <1>5, <1>t, <2>2 DEF Store, TypeOK, File
  <2>4. ParquetName(p, load[p].file)' = n
    BY <2>1 DEF ParquetName, Fingerprint, Alike
  <2> HIDE DEF n
  <2>. QED
    BY <1>t, <1>b, <2>1, <2>2, <2>3, <2>4 DEF LoadOK, Alike, Busy, Fingerprint
<1>6. CASE Record(p)
  <2>1. /\ load'[p].at \in {"reopen", "flush"} /\ Alike(load'[p], load[p])
        /\ load[p].at = "record" /\ source' = source /\ index'[p].loaded = index[p].loaded
    BY <1>6, <1>t, GoFields DEF Record, Steps, At, TypeOK, IndexRecords
  <2>. QED
    BY <1>t, <1>b, <2>1 DEF LoadOK, Alike, Busy, Fingerprint
<1>7. CASE FlushOpen(p) \/ FlushWrite(p) \/ FlushSwap(p) \/ Close(p)
  <2>1. /\ load'[p].at \in {"flush", "flushing", "swap", "recheck"} /\ Alike(load'[p], load[p])
        /\ load[p].at \in {"idle", "flush", "flushing", "swap"}
        /\ source' = source /\ index'[p].loaded = index[p].loaded
    BY <1>7, <1>t, GoFields
       DEF FlushOpen, FlushWrite, FlushSwap, Close, Steps, At, TypeOK, IndexRecords, memory
  <2>2. load[p].at = "idle" => load[p].file = Nothing
    BY <1>t DEF LoadOK, NoLoad
  <2>. QED
    BY <1>t, <2>1, <2>2 DEF LoadOK, Alike, Fingerprint
<1>8. CASE Recheck(p)
  <2>1. CASE f # Nothing /\ Fresh(index[p], p, f)
    <3>1. /\ load'[p].at = "open" /\ Alike(load'[p], load[p]) /\ load[p].at = "recheck"
          /\ source' = source /\ index' = index
      BY <1>8, <1>t, <2>1, GoFields DEF Recheck, Steps, At, File, memory
    <3>. QED
      BY <1>t, <2>1, <3>1 DEF LoadOK, Alike, Fingerprint, Fresh
  <2>2. CASE ~(f # Nothing /\ Fresh(index[p], p, f))
    BY <1>8, <1>t, <2>2, FinishFields, NoLoadOK DEF Recheck, File
  <2>. QED
    BY <2>1, <2>2
<1>9. CASE Open(p)
  <2> DEFINE e == index[p].entries[f]
  <2>1. /\ f \in Files /\ e # Nothing /\ e.fingerprint = Fingerprint(p) /\ load[p].asked <= e.revision
        /\ e.parquet # Nothing /\ load[p].at = "open" /\ index[p].loaded
    BY <1>9, <1>t, <1>b DEF Open, At, Busy, LoadOK, File
  <2>2. source' = source
    BY <1>9 DEF Open
  <2>3. CASE parquet[e.parquet] # Nothing
    <3>1. /\ e.revision \in Nat /\ e.parquet \in ParquetNames /\ e.parquet = <<f, e.fingerprint>>
          /\ parquet[e.parquet] \in Tables /\ e.revision <= parquet[e.parquet].revision
      <4>1. /\ e.revision \in Nat /\ e.parquet \in ParquetNames
            /\ parquet[e.parquet] \in Tables
        BY <1>t, <2>1, <2>3, EntryType DEF Revisions
      <4>2. EntriesAgree(index[p].entries, source, parquet)
        BY DEF IndexInv, IndexesOK
      <4>. QED
        BY <2>1, <2>3, <4>1, <4>2 DEF EntriesAgree
    <3>2. parquet[e.parquet].parse = Fingerprint(p)
      BY <2>1, <2>3, <3>1 DEF IndexInv, ParquetOK
    <3>3. Take(p, parquet[e.parquet]) /\ index' = index
      BY <1>9, <2>3 DEF Open, File
    <3>4. load[p].asked <= parquet[e.parquet].revision
      BY <1>b, <1>t, <2>1, <3>1 DEF LoadOK, Revisions, Tables, Busy
    <3>. QED
      BY <2>1, <2>2, <3>1, <3>2, <3>3, <3>4, TakeOK DEF Busy
  <2>4. CASE parquet[e.parquet] = Nothing
    <3>1. /\ load'[p].at = "parse" /\ Alike(load'[p], load[p])
          /\ index'[p].loaded = index[p].loaded
      BY <1>9, <1>t, <2>4 DEF Open, File, TypeOK, LoadRecords, IndexRecords, Alike
    <3>. QED
      BY <1>t, <1>b, <2>1, <2>2, <3>1 DEF LoadOK, Alike, Fingerprint
  <2>. QED
    BY <2>3, <2>4
<1>10. CASE OpenTable(p)
  <2> DEFINE e == index[p].entries[f]
             table == IF tables[p][f] # Nothing THEN tables[p][f]
                      ELSE [revision |-> source[f], parse |-> Fingerprint(p)]
  <2>1. /\ f \in Files /\ e # Nothing /\ e.parquet = Nothing /\ load[p].asked <= e.revision
        /\ load[p].at = "open" /\ index[p].loaded /\ load[p].asked \in Nat
        /\ load[p].asked <= source[f]
    BY <1>10, <1>t, <1>b DEF OpenTable, At, Busy, LoadOK, File, Revisions
  <2>2. e.revision \in Nat /\ tables[p][f] \in Tables \cup {Nothing} /\ TableOK(p, f)
    BY <1>t, <2>1, EntryType DEF IndexInv, TablesOK, TypeOK, Revisions
  <2>3. table \in Tables /\ table.parse = Fingerprint(p) /\ load[p].asked <= table.revision
    BY <1>b, <2>1, <2>2, TableType DEF TableOK, Tables, Revisions, Busy
  <2>4. Take(p, table) /\ source' = source /\ index' = index
    BY <1>10 DEF OpenTable, File
  <2> HIDE DEF table
  <2>. QED
    BY <2>1, <2>3, <2>4, TakeOK DEF Busy
<1>11. CASE Reopen(p)
  <2> DEFINE e == index[p].entries[f]
  <2>1. source' = source /\ index' = index /\ load[p].at = "reopen" /\ f \in Files
    BY <1>11, <1>b DEF Reopen, At, memory, Busy
  <2>2. CASE Fresh(index[p], p, f) /\ e.parquet # Nothing
    <3>1. /\ e.revision = source[f] /\ e.parquet = <<f, Fingerprint(p)>> /\ e # Nothing
          /\ e.parquet \in ParquetNames /\ parquet[e.parquet] \in Tables
          /\ parquet[e.parquet] # Nothing
          /\ e.revision <= parquet[e.parquet].revision
      <4>1. /\ e.revision = source[f] /\ e.fingerprint = Fingerprint(p) /\ e # Nothing
            /\ parquet[e.parquet] # Nothing
        BY <2>2 DEF Fresh
      <4>2. e.parquet \in ParquetNames /\ parquet[e.parquet] \in Tables
        BY <1>t, <2>1, <2>2, <4>1, EntryType
      <4>3. EntriesAgree(index[p].entries, source, parquet)
        BY DEF IndexInv, IndexesOK
      <4>. QED
        BY <2>1, <2>2, <4>1, <4>2, <4>3 DEF EntriesAgree
    <3>2. parquet[e.parquet].parse = Fingerprint(p)
      BY <3>1 DEF IndexInv, ParquetOK
    <3>3. Take(p, parquet[e.parquet])
      BY <1>11, <2>2 DEF Reopen, File
    <3>4. load[p].asked <= parquet[e.parquet].revision
      <4>1. load[p].asked \in Nat /\ source[f] \in Nat /\ load[p].asked <= source[f]
        BY <1>b, <1>t, <2>1 DEF LoadOK, Revisions, Busy
      <4>2. parquet[e.parquet].revision \in Nat
        BY <3>1 DEF Tables, Revisions
      <4>. QED
        BY <3>1, <4>1, <4>2
    <3>. QED
      BY <2>1, <3>1, <3>2, <3>3, <3>4, TakeOK DEF Busy
  <2>3. CASE ~(Fresh(index[p], p, f) /\ e.parquet # Nothing)
    BY <1>11, <1>t, <2>3, FinishFields, NoLoadOK DEF Reopen, File
  <2>. QED
    BY <2>2, <2>3
<1>12. CASE Put(p)
  <2>1. /\ load'[p].at = "served" /\ Alike(load'[p], load[p]) /\ load[p].at = "put"
        /\ source' = source
    BY <1>12, <1>t, GoFields DEF Put, Steps, At
  <2>. QED
    BY <1>t, <2>1 DEF LoadOK, Alike, Fingerprint
<1>13. CASE Serve(p)
  BY <1>13, <1>t, FinishFields, NoLoadOK DEF Serve
<1>. QED
  BY <1>1, <1>2, <1>3, <1>4, <1>5, <1>6, <1>7, <1>8, <1>9, <1>10, <1>11, <1>12, <1>13 DEF Step

-----------------------------------------------------------------------------
(* What has been converted. *)

(* No load takes a converted file away. *)
LEMMA ParquetGrows ==
  ASSUME IndexInv, NEW p \in Providers, Step(p), NEW n, parquet[n] # Nothing
  PROVE  parquet'[n] # Nothing
<1>1. CASE Store(p)
  <2>1. /\ load[p].read \in Revisions /\ parquet \in [ParquetNames -> Tables \cup {Nothing}]
        /\ File(p) \in Files
    BY <1>1, FileOfLoad DEF Store, At, Busy, IndexInv, LoadsOK, LoadOK, File, TypeOK
  <2>2. [revision |-> load[p].read, parse |-> Fingerprint(p)] # Nothing
    BY <2>1, TableType
  <2> DEFINE name == ParquetName(p, File(p))
             table == [revision |-> load[p].read, parse |-> Fingerprint(p)]
  <2>3. parquet' \in {parquet, [parquet EXCEPT ![name] = table]} /\ name \in ParquetNames
    BY <1>1, <2>1, NamesAndFingerprints DEF Store
  <2> HIDE DEF name, table
  <2>4. table # Nothing
    BY <2>2 DEF table
  <2>5. CASE parquet' = [parquet EXCEPT ![name] = table]
    <3>1. CASE n = name
      BY <2>1, <2>3, <2>4, <2>5, <3>1
    <3>2. CASE n # name
      BY <2>1, <2>5, <3>2
    <3>. QED
      BY <3>1, <3>2
  <2>. QED
    BY <2>3, <2>5
<1>2. CASE ~Store(p)
  BY <1>2 DEF Step, Load, Select, Parse, Stat, Record, FlushOpen, FlushWrite, FlushSwap,
              Recheck, Open, OpenTable, Reopen, Put, Serve, Close, disk
<1>. QED
  BY <1>1, <1>2

(* What is fresh stays so while its entry and its file are left alone. *)
LEMMA FreshStays ==
  ASSUME IndexInv, NEW p \in Providers, Step(p), NEW q \in Providers, NEW g \in Files,
         Fresh(index[q], q, g), index'[q].entries[g] = index[q].entries[g]
  PROVE  Fresh(index[q], q, g)'
<1>1. source' = source
  BY OthersKeep DEF IndexInv
<1>. QED
  BY <1>1, ParquetGrows DEF Fresh, Fingerprint

LEMMA OtherKept ==
  ASSUME IndexInv, NEW p \in Providers, Step(p), NEW q \in Providers \ {p}, NEW g \in Files,
         Kept(q, g)
  PROVE  Kept(q, g)'
<1>1. load'[q] = load[q] /\ index'[q] = index[q]
  BY OthersKeep DEF IndexInv
<1>2. Fresh(index[q], q, g) => Fresh(index[q], q, g)'
  BY <1>1, FreshStays
<1>3. ParquetName(q, g)' = ParquetName(q, g)
  BY DEF ParquetName, Fingerprint
<1>. QED
  BY <1>1, <1>2, <1>3, ParquetGrows DEF Kept, Converting

(* An index that has been read is not read again. *)
LEMMA LoadedStays ==
  ASSUME TypeOK, NEW p \in Providers, Step(p), index[p].loaded
  PROVE  index'[p].loaded
<1>1. index[p] \in IndexRecords
  BY DEF TypeOK
<1>2. CASE Select(p)
  BY <1>2, LoadedType DEF Select, TypeOK
<1>3. CASE Record(p)
  BY <1>1, <1>3 DEF Record, TypeOK, IndexRecords
<1>4. CASE FlushOpen(p) \/ FlushSwap(p)
  BY <1>1, <1>4 DEF FlushOpen, FlushSwap, TypeOK, IndexRecords
<1>5. CASE Open(p)
  BY <1>1, <1>5 DEF Open, TypeOK, IndexRecords
<1>. QED
  BY <1>2, <1>3, <1>4, <1>5 DEF Step, Load, Parse, Stat, Store, FlushWrite, Recheck, OpenTable,
     Reopen, Put, Serve, Close, memory

(* The file that provider p has converted as it is, it does not convert    *)
(* again.                                                                  *)
LEMMA OwnKept ==
  ASSUME IndexInv, NEW p \in Providers, Step(p), ~Parse(p), NEW g \in Files,
         index[p].loaded, Kept(p, g), ~(At(p, "parse") /\ load[p].file = g)
  PROVE  /\ index'[p].loaded
         /\ Kept(p, g)'
         /\ ~(At(p, "parse") /\ load[p].file = g)'
<1> DEFINE f == load[p].file
<1>t. TypeOK /\ LoadOK(p) /\ load[p] \in LoadRecords /\ index[p] \in IndexRecords
  BY DEF IndexInv, TypeOK, LoadsOK
<1>b. load[p].at \in Busy => f \in Files /\ source[f] \in Revisions
  BY FileOfLoad DEF File
<1>s. source' = source /\ (Fresh(index[p], p, g) /\ index'[p].entries[g] = index[p].entries[g]
                             => Fresh(index[p], p, g)')
  BY OthersKeep, FreshStays DEF IndexInv
(* Steps that neither convert nor change an entry. *)
<1>1. ASSUME load[p].at \notin {"stat", "store", "record"}, index'[p].loaded,
             index'[p].entries = index[p].entries,
             load'[p].at \notin {"parse", "stat", "store", "record"}
      PROVE  /\ index'[p].loaded /\ Kept(p, g)' /\ ~(At(p, "parse") /\ load[p].file = g)'
  BY <1>1, <1>s DEF Kept, Converting, At
<1>2. CASE Load(p) \/ FlushOpen(p) \/ FlushWrite(p) \/ FlushSwap(p) \/ Recheck(p) \/ OpenTable(p)
             \/ Reopen(p) \/ Put(p) \/ Serve(p) \/ Close(p)
  <2>1. load[p].at \notin {"stat", "store", "record"}
    BY <1>2 DEF Load, FlushOpen, FlushWrite, FlushSwap, Recheck, OpenTable, Reopen, Put, Serve,
                Close, At
  <2>2. index' = index \/ index' = [index EXCEPT ![p].dirty = FALSE]
    BY <1>2 DEF Load, FlushOpen, FlushWrite, FlushSwap, Recheck, OpenTable, Reopen, Put, Serve,
                Close, memory
  <2>3. index'[p].loaded /\ index'[p].entries = index[p].entries
    BY <1>t, <2>2 DEF TypeOK, IndexRecords
  <2>4. load'[p].at \in {"select", "served", "flush", "flushing", "swap", "recheck", "idle",
                         "open", "put"}
    <3>1. CASE Load(p)
      BY <1>t, <3>1 DEF Load, NoLoad, TypeOK
    <3>2. CASE Recheck(p) \/ Reopen(p) \/ Serve(p)
      BY <1>t, <3>2 DEF Recheck, Reopen, Serve, Go, Finish, Take, NoLoad, TypeOK, LoadRecords
    <3>3. CASE FlushOpen(p) \/ FlushWrite(p) \/ FlushSwap(p) \/ OpenTable(p) \/ Put(p) \/ Close(p)
      BY <1>t, <3>3 DEF FlushOpen, FlushWrite, FlushSwap, OpenTable, Put, Close, Go, Take,
                        TypeOK, LoadRecords
    <3>. QED
      BY <1>2, <3>1, <3>2, <3>3
  <2>. QED
    BY <1>1, <2>1, <2>3, <2>4
<1>3. CASE Select(p)
  <2>1. Loaded(p) = index[p] /\ index'[p] = index[p] /\ load[p].at = "select"
    BY <1>3, <1>t DEF Select, Loaded, TypeOK, At
  <2>2. Fresh(index[p], p, g)
    BY <2>1 DEF Kept, Converting
  <2>3. /\ load'[p].at \in {"open", "parse"} /\ Alike(load'[p], load[p])
        /\ f = g => load'[p].at = "open"
    BY <1>3, <1>t, <2>1, <2>2, GoFields DEF Select, Steps, File
  <2>. QED
    BY <1>s, <2>1, <2>2, <2>3 DEF Kept, Converting, At, Alike
<1>4. CASE Stat(p)
  <2>1. load[p].at = "stat" /\ index' = index /\ load'[p].at = "store" /\ load'[p].file = f
    BY <1>4, <1>t DEF Stat, At, memory, TypeOK, LoadRecords
  <2>. QED
    BY <1>s, <2>1 DEF Kept, Converting, At
<1>5. CASE Store(p)
  <2>1. load[p].at = "store" /\ index' = index /\ load'[p].at = "record" /\ load'[p].file = f
    BY <1>5, <1>t, GoFields DEF Store, At, Steps, Alike
  <2>2. f \in Files /\ load[p].read \in Revisions
    BY <1>b, <1>t, <2>1 DEF Busy, LoadOK
  <2>3. p \in UsesParquet => parquet'[ParquetName(p, f)] # Nothing
    BY <1>5, <1>t, <2>2, NamesAndFingerprints, TableType DEF Store, File, TypeOK
  <2>4. ParquetName(p, g)' = ParquetName(p, g)
    BY DEF ParquetName, Fingerprint
  <2>. QED
    BY <1>s, <2>1, <2>3, <2>4 DEF Kept, Converting, At
<1>6. CASE Record(p)
  <2>1. /\ load[p].at = "record" /\ load'[p].at \in {"reopen", "flush"} /\ parquet' = parquet
        /\ f \in Files /\ load[p].stat = source[f]
    BY <1>6, <1>t, <1>b, GoFields DEF Record, At, Steps, disk, Busy, LoadOK
  <2> DEFINE e == [revision |-> load[p].stat, fingerprint |-> Fingerprint(p),
                   parquet |-> IF p \in UsesParquet THEN ParquetName(p, f) ELSE Nothing]
  <2>2. index'[p].loaded /\ index'[p].entries = [index[p].entries EXCEPT ![f] = e]
    BY <1>6, <1>t DEF Record, TypeOK, IndexRecords, File
  <2>3. CASE g = f
    <3>1. p \in UsesParquet => parquet[ParquetName(p, f)] # Nothing
      BY <2>1, <2>3 DEF Kept, Converting
    <3>2. index'[p].entries[g] = e
      BY <1>t, <2>1, <2>2, <2>3 DEF IndexRecords, Entries
    <3>3. e # Nothing /\ e.fingerprint = Fingerprint(p) /\ e.revision = source[f]
      BY <1>t, <2>1, EntryIsSomething DEF TypeOK
    <3>. QED
      BY <1>s, <2>1, <2>2, <2>3, <3>1, <3>2, <3>3 DEF Fresh, Kept, Converting, At, Fingerprint
  <2>4. CASE g # f
    <3>1. index'[p].entries[g] = index[p].entries[g]
      BY <1>t, <2>2, <2>4 DEF IndexRecords, Entries
    <3>. QED
      BY <1>s, <2>1, <2>2, <2>4, <3>1 DEF Kept, Converting, At
  <2>. QED
    BY <2>3, <2>4
<1>7. CASE Open(p)
  <2>1. load[p].at = "open" /\ Fresh(index[p], p, g)
    BY <1>7 DEF Open, At, Kept, Converting
  <2>2. CASE parquet[index[p].entries[f].parquet] # Nothing
    <3>1. index' = index /\ load'[p].at = "put"
      BY <1>7, <1>t, <2>2, TakeFields DEF Open, File
    <3>. QED
      BY <1>1, <2>1, <3>1
  <2>3. CASE parquet[index[p].entries[f].parquet] = Nothing
    <3>1. g # f
      BY <1>7, <2>1, <2>3 DEF Open, File, Fresh
    <3>2. /\ index'[p].loaded /\ index'[p].entries[g] = index[p].entries[g]
          /\ load'[p].at = "parse" /\ load'[p].file = f
      <4>1. /\ index' = [index EXCEPT ![p].entries[f] = Nothing, ![p].dirty = TRUE]
            /\ load' = [load EXCEPT ![p].at = "parse", ![p].again = TRUE]
        BY <1>7, <2>3 DEF Open, File
      <4>2. load'[p].at = "parse" /\ load'[p].file = f
        BY <1>t, <4>1 DEF TypeOK, LoadRecords
      <4>. QED
        BY <1>t, <3>1, <4>1, <4>2 DEF TypeOK, IndexRecords, Entries
    <3>. QED
      BY <1>s, <2>1, <3>1, <3>2 DEF Kept, Converting, At
  <2>. QED
    BY <2>2, <2>3
<1>. QED
  BY <1>2, <1>3, <1>4, <1>5, <1>6, <1>7 DEF Step
LEMMA ParsedStep ==
  ASSUME IndexInv, NEW p \in Providers, Step(p)
  PROVE  ParsedOK'
<1>t. TypeOK /\ ParsedOK /\ LoadOK(p) /\ load[p] \in LoadRecords
  BY DEF IndexInv, TypeOK, LoadsOK
<1>1. /\ source' = source
      /\ \A q \in Providers \ {p} : index'[q] = index[q] /\ load'[q] = load[q]
  BY <1>t, OthersKeep
<1>2. ASSUME NEW c \in parsed, ~Parse(p)
      PROVE  /\ index'[c[1]].loaded /\ c[3] <= source'[c[2]]
             /\ c[3] = source'[c[2]] => /\ Kept(c[1], c[2])'
                                        /\ ~(At(c[1], "parse") /\ load[c[1]].file = c[2])'
  <2>1. c[1] \in Providers /\ c[2] \in Files
    BY <1>t, <1>2 DEF TypeOK
  <2>2. /\ index[c[1]].loaded /\ c[3] <= source[c[2]]
        /\ c[3] = source[c[2]] => /\ Kept(c[1], c[2])
                                  /\ ~(At(c[1], "parse") /\ load[c[1]].file = c[2])
    BY <1>t, <1>2 DEF ParsedOK
  <2>3. CASE c[1] = p
    <3>1. index'[p].loaded
      BY <1>t, <2>2, <2>3, LoadedStays
    <3>. QED
      BY <1>1, <1>2, <2>1, <2>2, <2>3, <3>1, OwnKept
  <2>4. CASE c[1] # p
    BY <1>1, <2>1, <2>2, <2>4, OtherKept DEF At
  <2>. QED
    BY <2>3, <2>4
<1>3. CASE ~Parse(p)
  <2>1. parsed' = parsed
    BY <1>3 DEF Step, Load, Select, Stat, Store, Record, FlushOpen, FlushWrite, FlushSwap,
                Recheck, Open, OpenTable, Reopen, Put, Serve, Close
  <2>. QED
    BY <1>2, <1>3, <2>1 DEF ParsedOK
<1>4. CASE Parse(p)
  <2> DEFINE f == load[p].file
  <2>1. /\ f \in Files /\ source[f] \in Revisions /\ load[p].at = "parse" /\ index[p].loaded
        /\ f # Nothing
    BY <1>4, <1>t, FileOfLoad DEF Parse, At, Busy, LoadOK, File
  <2>2. /\ index' = index /\ load'[p].at = "stat" /\ load'[p].file = f
        /\ parsed' = parsed \cup {<<p, f, source[f]>>}
    BY <1>4, <1>t DEF Parse, memory, TypeOK, LoadRecords, File
  <2>3. \A g \in Files : Kept(p, g) /\ g # f => Kept(p, g)'
    <3> SUFFICES ASSUME NEW g \in Files, Kept(p, g), g # f
                 PROVE  Kept(p, g)'
      OBVIOUS
    <3>1. Fresh(index[p], p, g)
      BY <2>1 DEF Kept, Converting
    <3>2. Fresh(index[p], p, g)'
      BY <2>2, <3>1, FreshStays
    <3>. QED
      BY <2>2, <3>2 DEF Kept, Converting
  <2>4. Kept(p, f)'
    BY <2>2 DEF Kept, Converting
  <2>5. ASSUME NEW c \in parsed
        PROVE  /\ index'[c[1]].loaded /\ c[3] <= source'[c[2]]
               /\ c[3] = source'[c[2]] => /\ Kept(c[1], c[2])'
                                          /\ ~(At(c[1], "parse") /\ load[c[1]].file = c[2])'
    <3>1. c[1] \in Providers /\ c[2] \in Files
      BY <1>t, <2>5 DEF TypeOK
    <3>2. /\ index[c[1]].loaded /\ c[3] <= source[c[2]]
          /\ c[3] = source[c[2]] => /\ Kept(c[1], c[2])
                                    /\ ~(At(c[1], "parse") /\ load[c[1]].file = c[2])
      BY <1>t, <2>5 DEF ParsedOK
    <3>3. CASE c[1] = p
      BY <1>1, <2>1, <2>2, <2>3, <3>1, <3>2, <3>3 DEF At
    <3>4. CASE c[1] # p
      BY <1>1, <3>1, <3>2, <3>4, OtherKept DEF At
    <3>. QED
      BY <3>3, <3>4
  <2>6. /\ index'[p].loaded /\ source[f] <= source'[f] /\ ~At(p, "parse")'
    BY <1>1, <2>1, <2>2 DEF At, Revisions
  <2>. QED
    BY <2>2, <2>4, <2>5, <2>6 DEF ParsedOK
<1>. QED
  BY <1>3, <1>4

LEMMA StepKeeps ==
  ASSUME IndexInv, NEW p \in Providers, Step(p)
  PROVE  IndexInv'
<1>1. EditsOK'
  BY OthersKeep DEF IndexInv, EditsOK
<1>2. ParquetOK'
  BY StepMovesDisk, ParquetStays
<1>3. LoadsOK'
  BY OwnLoadStays, OtherLoadStays DEF LoadsOK
<1>. QED
  BY <1>1, <1>2, <1>3, TypeStep, IndexesStep, TablesStep, SeriesStep, ParsedStep DEF IndexInv

-----------------------------------------------------------------------------
(* The world outside. *)

LEMMA EditMovesDisk ==
  ASSUME IndexInv, NEW f \in Files, Edit(f)
  PROVE  DiskMoves /\ source' \in [Files -> Revisions] /\ EditsOK'
<1>1. source \in [Files -> Revisions] /\ edits \in 0..MaxEdits /\ \A g \in Files : source[g] <= edits + 1
  BY DEF IndexInv, TypeOK, EditsOK
<1>2. source' = [source EXCEPT ![f] = @ + 1] /\ parquet' = parquet /\ edits' = edits + 1 /\ edits < MaxEdits
  BY DEF Edit, disk
<1>3. \A g \in Files : source'[g] \in Revisions /\ source[g] <= source'[g] /\ source'[g] <= edits' + 1
  BY <1>1, <1>2 DEF Revisions
<1>. QED
  BY <1>1, <1>2, <1>3 DEF DiskMoves, EditsOK

(* A file that is edited while nobody converts it is stale wherever it is  *)
(* kept; nothing else is.                                                  *)
LEMMA EditKeeps ==
  ASSUME IndexInv, EditsAnyTime = FALSE, NEW f \in Files, Edit(f)
  PROVE  IndexInv'
<1>t. /\ TypeOK /\ IndexesOK /\ TablesOK /\ SeriesOK /\ LoadsOK /\ ParsedOK
      /\ DiskMoves /\ source' \in [Files -> Revisions] /\ EditsOK'
  BY EditMovesDisk DEF IndexInv
<1>u. UNCHANGED <<disk, memory, load, loads, faults, parsed>>
  BY DEF Edit
<1>c. \A p \in Providers : load[p].at \notin {"stat", "store", "record"}
  BY DEF Edit, Converting
<1>1. TypeOK'
  BY <1>t, <1>u DEF TypeOK, disk, memory
<1>2. IndexesOK'
  <2>1. /\ \A p \in Providers : index[p].entries \in Entries
        /\ indexFile \notin {Nothing, Partial} => indexFile \in Entries
        /\ \A q \in Processes : indexTmp[q] \notin {Nothing, Partial} => indexTmp[q] \in Entries
    BY <1>t DEF TypeOK, IndexRecords
  <2>2. \A entries \in Entries : EntriesAgree(entries, source, parquet) =>
          EntriesAgree(entries, source', parquet')
    BY <1>t, EntriesStay
  <2>. QED
    BY <1>t, <1>u, <2>1, <2>2 DEF IndexesOK, disk, memory
<1>3. ParquetOK'
  BY <1>t, ParquetStays
<1>4. TablesOK' /\ SeriesOK'
  BY <1>t, <1>u DEF TablesOK, TableOK, SeriesOK, Fingerprint, disk, memory
<1>5. ASSUME NEW p \in Providers
      PROVE  LoadOK(p)'
  <2>1. LoadOK(p) /\ load[p] \in LoadRecords
    BY <1>t DEF LoadsOK, TypeOK
  <2>2. load[p].file # Nothing => load[p].asked <= source'[load[p].file]
    <3>1. load[p].file # Nothing =>
            /\ load[p].file \in Files /\ load[p].asked \in Nat
            /\ source[load[p].file] \in Nat /\ source'[load[p].file] \in Nat
      BY <1>t, <2>1 DEF LoadOK, LoadRecords, Revisions, TypeOK
    <3>. QED
      BY <1>t, <2>1, <3>1 DEF LoadOK, DiskMoves
  <2>. QED
    BY <1>c, <1>u, <2>1, <2>2 DEF LoadOK, Fingerprint, disk, memory
<1>6. ASSUME NEW c \in parsed
      PROVE  /\ index'[c[1]].loaded /\ c[3] <= source'[c[2]]
             /\ c[3] = source'[c[2]] => /\ Kept(c[1], c[2])'
                                        /\ ~(At(c[1], "parse") /\ load[c[1]].file = c[2])'
  <2>1. c[1] \in Providers /\ c[2] \in Files /\ c[3] \in Nat /\ source[c[2]] \in Nat
    BY <1>t, <1>6 DEF TypeOK, Revisions
  <2>2. /\ index[c[1]].loaded /\ c[3] <= source[c[2]]
        /\ c[3] = source[c[2]] => /\ Kept(c[1], c[2])
                                  /\ ~(At(c[1], "parse") /\ load[c[1]].file = c[2])
    BY <1>t, <1>6 DEF ParsedOK
  <2>3. CASE c[2] = f
    <3>1. source'[f] = source[f] + 1
      BY <1>t DEF Edit, TypeOK
    <3>. QED
      BY <1>u, <2>1, <2>2, <2>3, <3>1 DEF memory
  <2>4. CASE c[2] # f
    <3>1. source'[c[2]] = source[c[2]]
      BY <1>t, <2>1, <2>4 DEF Edit, TypeOK
    <3>. QED
      BY <1>u, <2>1, <2>2, <3>1
         DEF Kept, Converting, Fresh, Fingerprint, ParquetName, At, disk, memory
  <2>. QED
    BY <2>3, <2>4
<1>. QED
  BY <1>t, <1>u, <1>1, <1>2, <1>3, <1>4, <1>5, <1>6 DEF IndexInv, LoadsOK, ParsedOK

(* The providers of a killed process begin again, with nothing.            *)
LEMMA KillKeeps ==
  ASSUME IndexInv, NEW q \in Processes, Kill(q)
  PROVE  IndexInv'
<1>t. /\ TypeOK /\ EditsOK /\ IndexesOK /\ ParquetOK /\ TablesOK /\ SeriesOK /\ LoadsOK /\ ParsedOK
  BY DEF IndexInv
<1>u. UNCHANGED <<source, parquet, indexFile, indexTmp, loads, edits>>
  BY DEF Kill
<1>m. /\ \A p \in Of(q) : index'[p] = Cold /\ tables'[p] = NoEntries /\ load'[p] = NoLoad
      /\ \A p \in Providers \ Of(q) :
           index'[p] = index[p] /\ tables'[p] = tables[p] /\ load'[p] = load[p]
      /\ index' \in [Providers -> IndexRecords] /\ load' \in [Providers -> LoadRecords]
      /\ tables' \in [Providers -> [Files -> Tables \cup {Nothing}]]
  BY <1>t, EmptyRecords, NoEntriesType DEF Kill, Of, TypeOK
<1>s. DOMAIN series' \subseteq DOMAIN series /\ \A k \in DOMAIN series' : series'[k] = series[k]
  BY DEF Kill, Keep
<1>p. parsed' \subseteq parsed /\ \A c \in parsed' : c[1] \notin Of(q)
  BY DEF Kill
<1>1. TypeOK'
  BY <1>t, <1>u, <1>m, <1>s, <1>p DEF TypeOK
<1>2. IndexesOK'
  BY <1>t, <1>u, <1>m, NoEntriesAgree DEF IndexesOK, Cold
<1>3. EditsOK' /\ ParquetOK' /\ SeriesOK'
  BY <1>t, <1>u, <1>s DEF EditsOK, ParquetOK, SeriesOK
<1>4. ASSUME NEW p \in Providers
      PROVE  LoadOK(p)' /\ \A f \in Files : TableOK(p, f)'
  <2>1. CASE p \in Of(q)
    BY <1>m, <2>1, NoLoadOK DEF TableOK, NoEntries
  <2>2. CASE p \notin Of(q)
    <3>1. LoadOK(p) /\ \A f \in Files : TableOK(p, f)
      BY <1>t DEF LoadsOK, TablesOK
    <3>2. index'[p] = index[p] /\ tables'[p] = tables[p] /\ load'[p] = load[p]
      BY <1>m, <2>2
    <3>. QED
      BY <1>u, <3>1, <3>2 DEF LoadOK, TableOK, Fingerprint, ParquetName
  <2>. QED
    BY <2>1, <2>2
<1>5. ASSUME NEW c \in parsed'
      PROVE  /\ index'[c[1]].loaded /\ c[3] <= source'[c[2]]
             /\ c[3] = source'[c[2]] => /\ Kept(c[1], c[2])'
                                        /\ ~(At(c[1], "parse") /\ load[c[1]].file = c[2])'
  <2>1. c \in parsed /\ c[1] \in Providers \ Of(q)
    BY <1>t, <1>p, <1>5 DEF TypeOK
  <2>2. index'[c[1]] = index[c[1]] /\ load'[c[1]] = load[c[1]]
    BY <1>m, <2>1
  <2>. QED
    BY <1>t, <1>u, <2>1, <2>2 DEF ParsedOK, Kept, Converting, Fresh, Fingerprint, ParquetName, At
<1>. QED
  BY <1>1, <1>2, <1>3, <1>4, <1>5 DEF IndexInv, LoadsOK, TablesOK, ParsedOK

(* A converted file that is gone makes its entries stale.                  *)
LEMMA LoseKeeps ==
  ASSUME IndexInv, NEW n \in ParquetNames, Lose(n)
  PROVE  IndexInv'
<1>t. /\ TypeOK /\ EditsOK /\ IndexesOK /\ ParquetOK /\ TablesOK /\ SeriesOK /\ LoadsOK /\ ParsedOK
  BY DEF IndexInv
<1>u. UNCHANGED <<source, indexFile, indexTmp, series, memory, load, loads, edits>>
  BY DEF Lose
<1>m. /\ parquet' \in [ParquetNames -> Tables \cup {Nothing}]
      /\ \A m \in ParquetNames : parquet'[m] \in {parquet[m], Nothing}
      /\ \A m \in ParquetNames \ {n} : parquet'[m] = parquet[m]
  BY <1>t DEF Lose, TypeOK
<1>p. parsed' \subseteq parsed /\ \A c \in parsed' : c[2] # n[1]
  BY DEF Lose
<1>d. DiskMoves
  BY <1>t, <1>u, <1>m DEF DiskMoves, TypeOK, Revisions
<1>1. TypeOK'
  BY <1>t, <1>u, <1>m, <1>p DEF TypeOK, memory
<1>2. IndexesOK'
  <2>1. /\ \A p \in Providers : index[p].entries \in Entries
        /\ indexFile \notin {Nothing, Partial} => indexFile \in Entries
        /\ \A q \in Processes : indexTmp[q] \notin {Nothing, Partial} => indexTmp[q] \in Entries
    BY <1>t DEF TypeOK, IndexRecords
  <2>2. \A entries \in Entries : EntriesAgree(entries, source, parquet) =>
          EntriesAgree(entries, source', parquet')
    BY <1>d, EntriesStay
  <2>. QED
    BY <1>t, <1>u, <2>1, <2>2 DEF IndexesOK, memory
<1>3. ParquetOK'
  BY <1>d, ParquetStays
<1>4. EditsOK' /\ TablesOK' /\ SeriesOK'
  BY <1>t, <1>u DEF EditsOK, TablesOK, TableOK, SeriesOK, Fingerprint, memory
<1>5. ASSUME NEW p \in Providers
      PROVE  LoadOK(p)'
  <2>1. LoadOK(p) /\ load[p] \in LoadRecords
    BY <1>t DEF LoadsOK, TypeOK
  <2> DEFINE name == ParquetName(p, load[p].file)
  <2>2. name' = name
    BY <1>u DEF ParquetName, Fingerprint
  <2>3. load[p].at = "record" => parquet'[name] \in {parquet[name], Nothing}
    <3>1. load[p].at = "record" => load[p].file \in Files
      BY <2>1 DEF LoadOK, LoadRecords
    <3>. QED
      BY <1>m, <3>1, NamesAndFingerprints
  <2> HIDE DEF name
  <2>4. load[p].at = "record" /\ p \in UsesParquet /\ parquet'[name] # Nothing =>
          parquet'[name].revision = load[p].stat
    BY <2>1, <2>3 DEF LoadOK, name
  <2>. QED
    BY <1>u, <2>1, <2>2, <2>4 DEF LoadOK, Fingerprint, memory, name
<1>6. ASSUME NEW p \in Providers, NEW g \in Files, g # n[1], Kept(p, g)
      PROVE  Kept(p, g)'
  <2>1. parquet'[ParquetName(p, g)] = parquet[ParquetName(p, g)]
    BY <1>6, <1>m, NamesAndFingerprints DEF ParquetName
  <2>2. Fresh(index[p], p, g) => Fresh(index[p], p, g)'
    <3> SUFFICES ASSUME Fresh(index[p], p, g)
                 PROVE  Fresh(index[p], p, g)'
      OBVIOUS
    <3> DEFINE e == index[p].entries[g]
    <3>1. e # Nothing /\ (e.parquet # Nothing => e.parquet = <<g, e.fingerprint>>)
      BY <1>t DEF Fresh, IndexesOK, EntriesAgree
    <3>2. e.parquet # Nothing => e.parquet \in ParquetNames \ {n}
      BY <1>t, <1>6, <3>1, EntryType
    <3>. QED
      BY <1>u, <1>m, <3>2 DEF Fresh, Fingerprint, memory
  <2>. QED
    BY <1>6, <1>u, <2>1, <2>2 DEF Kept, Converting, ParquetName, Fingerprint, memory
<1>7. ASSUME NEW c \in parsed'
      PROVE  /\ index'[c[1]].loaded /\ c[3] <= source'[c[2]]
             /\ c[3] = source'[c[2]] => /\ Kept(c[1], c[2])'
                                        /\ ~(At(c[1], "parse") /\ load[c[1]].file = c[2])'
  <2>1. c \in parsed /\ c[1] \in Providers /\ c[2] \in Files /\ c[2] # n[1]
    BY <1>t, <1>p, <1>7 DEF TypeOK
  <2>. QED
    BY <1>t, <1>u, <1>6, <2>1 DEF ParsedOK, At, memory
<1>. QED
  BY <1>1, <1>2, <1>3, <1>4, <1>5, <1>7 DEF IndexInv, LoadsOK, ParsedOK

-----------------------------------------------------------------------------
(* The theorems. *)

LEMMA InitKeeps == Init => IndexInv
<1> SUFFICES ASSUME Init
             PROVE  IndexInv
  OBVIOUS
<1>1. TypeOK
  BY EmptyRecords, NoEntriesType DEF Init, TypeOK, Revisions
<1>2. IndexesOK
  BY NoEntriesAgree DEF Init, IndexesOK, Cold
<1>3. LoadsOK
  BY DEF Init, LoadsOK, LoadOK, NoLoad
<1>4. EditsOK
  BY DEF Init, EditsOK
<1>5. ParquetOK /\ TablesOK /\ SeriesOK /\ ParsedOK
  BY DEF Init, ParquetOK, TablesOK, TableOK, NoEntries, SeriesOK, ParsedOK
<1>. QED
  BY <1>1, <1>2, <1>3, <1>4, <1>5 DEF IndexInv

LEMMA NextKeeps ==
  ASSUME EditsAnyTime = FALSE, IndexInv, [Next]_vars
  PROVE  IndexInv'
<1>1. CASE UNCHANGED vars
  <2>1. UNCHANGED <<source, parquet, indexFile, indexTmp, series, index, tables, load, edits, parsed>>
    BY <1>1 DEF vars, disk, memory, counters
  <2>2. TypeOK' /\ EditsOK' /\ IndexesOK' /\ ParquetOK' /\ SeriesOK'
    BY <2>1 DEF IndexInv, TypeOK, EditsOK, IndexesOK, ParquetOK, SeriesOK
  <2>3. TablesOK' /\ LoadsOK'
    BY <2>1 DEF IndexInv, TablesOK, TableOK, LoadsOK, LoadOK, Fingerprint, ParquetName
  <2>4. ParsedOK'
    BY <2>1 DEF IndexInv, ParsedOK, Kept, Converting, Fresh, Fingerprint, ParquetName, At
  <2>. QED
    BY <2>2, <2>3, <2>4 DEF IndexInv
<1>2. CASE \E p \in Providers : Step(p)
  BY <1>2, StepKeeps
<1>3. CASE \E f \in Files : Edit(f)
  BY <1>3, EditKeeps
<1>4. CASE \E q \in Processes : Kill(q)
  BY <1>4, KillKeeps
<1>5. CASE \E n \in ParquetNames : Lose(n)
  BY <1>5, LoseKeeps
<1>. QED
  BY <1>1, <1>2, <1>3, <1>4, <1>5 DEF Next

(* What every step keeps.                                                  *)
THEOREM IndexInvariant ==
  ASSUME EditsAnyTime = FALSE
  PROVE  Spec => []IndexInv
<1>1. Init => IndexInv
  BY InitKeeps
<1>2. IndexInv /\ [Next]_vars => IndexInv'
  BY NextKeeps
<1>. QED
  BY <1>1, <1>2, PTL DEF Spec

(* An entry of the file as it is names a Parquet file that holds no older  *)
(* revision, and none is later.                                            *)
LEMMA FreshIsCurrentNow ==
  ASSUME IndexInv
  PROVE  FreshIsCurrent
<1> SUFFICES ASSUME NEW p \in Providers, NEW f \in Files,
                    Fresh(Loaded(p), p, f), Loaded(p).entries[f].parquet # Nothing
             PROVE  parquet[Loaded(p).entries[f].parquet]
                      = [revision |-> source[f], parse |-> Fingerprint(p)]
  BY DEF FreshIsCurrent
<1> DEFINE e == Loaded(p).entries[f]
           t == parquet[e.parquet]
<1>1. Loaded(p).entries \in Entries /\ TypeOK
  BY LoadedType DEF IndexInv, IndexRecords
<1>2. e # Nothing /\ e.fingerprint = Fingerprint(p) /\ e.revision = source[f] /\ t # Nothing
  BY DEF Fresh
<1>3. e.parquet = <<f, Fingerprint(p)>> /\ e.revision <= t.revision
  BY <1>2, LoadedAgrees DEF EntriesAgree
<1>4. e.parquet \in ParquetNames /\ t \in Tables
  BY <1>1, <1>2, <1>3 DEF TypeOK, Entries
<1>5. t.parse = Fingerprint(p) /\ t.revision <= source[f]
  BY <1>2, <1>3, <1>4 DEF IndexInv, ParquetOK
<1> HIDE DEF e, t
<1>6. t.revision = source[f]
  <2>1. source[f] \in Nat
    BY <1>1 DEF TypeOK, Revisions
  <2>2. t.revision \in Nat
    BY <1>4 DEF Tables, Revisions
  <2>. QED
    BY <1>2, <1>3, <1>5, <2>1, <2>2
<1>. QED
  BY <1>4, <1>5, <1>6 DEF Tables, e, t

LEMMA ServesCurrentNow ==
  ASSUME IndexInv
  PROVE  ServesCurrent
<1> SUFFICES ASSUME NEW p \in Providers, At(p, "served")
             PROVE  /\ load[p].got.file = File(p)
                    /\ load[p].got.parse = Fingerprint(p)
                    /\ load[p].got.revision >= load[p].asked
  BY DEF ServesCurrent
<1>1. /\ load[p].got \in ServedSeries /\ load[p].file # Nothing /\ load[p].got.file = load[p].file
      /\ load[p].got.parse = Fingerprint(p) /\ load[p].asked <= load[p].got.revision
      /\ load[p].asked \in Revisions
  BY DEF IndexInv, LoadsOK, LoadOK, At
<1>. QED
  BY <1>1 DEF ServedSeries, Revisions, File

(* The index is sound (_fresh_entry, _convert, _load_file_table,           *)
(* load_series): what it calls fresh is the conversion of the file as it   *)
(* is, and no load serves an older revision than it was asked for, for any *)
(* number of providers and processes, kills and lost files, when files are *)
(* not edited while they are being converted.                              *)
THEOREM IndexSound ==
  ASSUME EditsAnyTime = FALSE
  PROVE  Spec => []IndexIsSound
<1>1. IndexInv => IndexIsSound
  BY FreshIsCurrentNow, ServesCurrentNow DEF IndexIsSound, IndexInv
<1>. QED
  BY <1>1, IndexInvariant, PTL

(* A provider converts one revision of a file once for as long as it lives *)
(* and its conversions are left alone (_ensure_indexed, _convert).         *)
THEOREM ConvertedOnce ==
  ASSUME EditsAnyTime = FALSE
  PROVE  Spec => ConvertsOnce
<1>1. IndexInv => \A p \in Providers : At(p, "parse") => <<p, File(p), source[File(p)]>> \notin parsed
  BY DEF IndexInv, ParsedOK, File
<1>2. IndexInv /\ [Next]_vars =>
        [\A p \in Providers :
           At(p, "parse") /\ load'[p].at = "stat" => <<p, File(p), source[File(p)]>> \notin parsed]_vars
  BY <1>1
<1>. QED
  BY <1>2, IndexInvariant, PTL DEF Spec, ConvertsOnce
=============================================================================
