------------------------------ MODULE CsvIndex ------------------------------
(***************************************************************************)
(* How CsvDataProvider (sigmaloop/data/providers/csv_provider.py) keeps    *)
(* what it has parsed: the conversion of a source file into a Parquet      *)
(* file, the index that says which conversions are current, the index file *)
(* that outlives the run, and the series cache in front of them.           *)
(*                                                                         *)
(* Several providers, in one process or several, work over one cache       *)
(* directory while the source files are edited.  A provider serves one     *)
(* load at a time; every file system call of the load is a step, and a     *)
(* process may be killed between any two.                                  *)
(*                                                                         *)
(* The contents of a file are its revision, which is also what stat tells  *)
(* (size and mtime_ns).  Parsing is the pair of the revision and of the    *)
(* settings that _fingerprint hashes; a series also depends on the         *)
(* duplicate policy, which _gather applies when it reads.                  *)
(***************************************************************************)
EXTENDS Naturals

CONSTANTS
  Providers,
  ProcessOf,       \* the process a provider lives in
  ConfigOf,        \* its [parse, duplicates] settings
  UsesParquet,     \* providers with use_parquet_cache
  Files,
  Nothing,         \* None, and a file that is not there
  Partial,         \* a file that is not written to its end
  EditsAnyTime,    \* may files be edited while they are being converted?
  MaxLoads,        \* bound: loads and closes begun in a behaviour
  MaxEdits,        \* bound: edits of source files
  MaxFaults        \* bound: kills and lost Parquet files

ASSUME CsvIndexAssumption ==
  /\ UsesParquet \subseteq Providers
  /\ EditsAnyTime \in BOOLEAN
  /\ MaxLoads \in Nat /\ MaxEdits \in Nat /\ MaxFaults \in Nat
  /\ LET revisions == 1..MaxEdits + 1
         parses    == {ConfigOf[p].parse : p \in Providers}
         names     == Files \X parses
     IN Nothing \notin Files \cup names \cup [revision : revisions, parse : parses]
          \cup [revision : revisions, fingerprint : parses, parquet : names \cup {Nothing}]

VARIABLES
  source,     \* per file: its revision
  parquet,    \* per name: what the converted file holds
  indexFile,  \* the entries of index-v1.json
  indexTmp,   \* per process: the file _flush_index writes first
  series,     \* the series cache, per key
  index,      \* per provider: _index, _index_loaded, _index_dirty
  tables,     \* per provider: _tables
  load,       \* per provider: the load under way
  loads, edits, faults,
  parsed      \* history: <<provider, file, revision>> it keeps a conversion of

disk     == <<parquet, indexFile, indexTmp, series>>
memory   == <<index, tables>>
counters == <<loads, edits, faults>>
vars     == <<source, disk, memory, load, counters, parsed>>

Processes == {ProcessOf[p] : p \in Providers}

(* _fingerprint; the duplicate policy is not in it. *)
Fingerprint(p) == ConfigOf[p].parse

(* The Parquet name: the source file and the fingerprint, not the revision. *)
ParquetName(p, f) == <<f, Fingerprint(p)>>
ParquetNames      == {ParquetName(p, f) : p \in Providers, f \in Files}

NoEntries == [f \in Files |-> Nothing]
NoLoad    == [at |-> "idle", file |-> Nothing, asked |-> Nothing, key |-> Nothing,
              read |-> Nothing, stat |-> Nothing, again |-> FALSE, got |-> Nothing]
Cold      == [entries |-> NoEntries, loaded |-> FALSE, dirty |-> FALSE]

(* The series cache of p: with Parquet the directory every provider shares *)
(* (the series are long enough for it), otherwise the memory of p alone.   *)
CacheOf(p) == IF p \in UsesParquet THEN Nothing ELSE p

(* CacheKey.from_request with _source_digest: the request, the fingerprint *)
(* and, of every discovered file, the revision.                            *)
Key(p, f) == [cache |-> CacheOf(p), file |-> f, parse |-> Fingerprint(p),
              revisions |-> source]

(***************************************************************************)
(* The index.                                                              *)
(***************************************************************************)
(* _load_index reads the file once; one that cannot be read is ignored.    *)
Loaded(p) ==
  IF index[p].loaded THEN index[p]
  ELSE [entries |-> IF indexFile \in {Nothing, Partial} THEN NoEntries ELSE indexFile,
        loaded |-> TRUE, dirty |-> FALSE]

(* Planted bug: the revision on disk is not compared. *)
FreshByName(i, p, f) ==
  LET e == i.entries[f] IN
  /\ e # Nothing
  /\ e.fingerprint = Fingerprint(p)
  /\ e.parquet # Nothing => parquet[e.parquet] # Nothing
(* _fresh_entry, of index i: is its entry still that of the file on disk?  *)
Fresh(i, p, f) ==
  LET e == i.entries[f] IN
  /\ e # Nothing
  /\ e.fingerprint = Fingerprint(p)
  /\ e.revision = source[f]
  /\ e.parquet # Nothing => parquet[e.parquet] # Nothing

(***************************************************************************)
(* A load: load_series, one file system call per step.                     *)
(***************************************************************************)
At(p, at)   == load[p].at = at
Go(p, at)   == load' = [load EXCEPT ![p].at = at]
Finish(p)   == load' = [load EXCEPT ![p] = NoLoad]
File(p)     == load[p].file

(* The digest is taken and the series cache asked; what it has is served.  *)
Load(p) == \E f \in Files :
  LET key == Key(p, f) IN
  /\ At(p, "idle")
  /\ loads < MaxLoads
  /\ loads' = loads + 1
  /\ load' = [load EXCEPT ![p] =
       [NoLoad EXCEPT !.at = IF key \in DOMAIN series THEN "served" ELSE "select",
                      !.file = f, !.asked = source[f], !.key = key,
                      !.got = IF key \in DOMAIN series THEN series[key] ELSE Nothing]]
  /\ UNCHANGED <<source, disk, memory, edits, faults, parsed>>

(* _prune_files and _ensure_indexed: a file without a fresh entry is cold. *)
Select(p) ==
  /\ At(p, "select")
  /\ index' = [index EXCEPT ![p] = Loaded(p)]
  /\ Go(p, IF Fresh(Loaded(p), p, File(p)) THEN "open" ELSE "parse")
  /\ UNCHANGED <<source, disk, tables, counters, parsed>>

(* _convert: _read_csv reads the file to its end, *)
Parse(p) ==
  /\ At(p, "parse")
  /\ load' = [load EXCEPT ![p].at = "stat", ![p].read = source[File(p)]]
  /\ parsed' = parsed \cup {<<p, File(p), source[File(p)]>>}
  /\ UNCHANGED <<source, disk, memory, counters>>

(* Planted bug: the revision recorded is the one the call began with. *)
StatOfCall(p) ==
  /\ At(p, "stat")
  /\ load' = [load EXCEPT ![p].at = "store", ![p].stat = load[p].asked]
  /\ UNCHANGED <<source, disk, memory, counters, parsed>>
(* then stats it, *)
Stat(p) ==
  /\ At(p, "stat")
  /\ load' = [load EXCEPT ![p].at = "store", ![p].stat = source[File(p)]]
  /\ UNCHANGED <<source, disk, memory, counters, parsed>>

(* then writes the conversion, atomically, or keeps it in memory, *)
Store(p) ==
  LET table == [revision |-> load[p].read, parse |-> Fingerprint(p)] IN
  /\ At(p, "store")
  /\ IF p \in UsesParquet
     THEN parquet' = [parquet EXCEPT ![ParquetName(p, File(p))] = table] /\ UNCHANGED tables
     ELSE tables' = [tables EXCEPT ![p][File(p)] = table] /\ UNCHANGED parquet
  /\ Go(p, "record")
  /\ UNCHANGED <<source, indexFile, indexTmp, series, index, counters, parsed>>

(* and enters it in the index.  _ensure_indexed then flushes the index; a  *)
(* conversion that replaces an unusable Parquet file leaves it dirty.      *)
Record(p) ==
  LET entry == [revision |-> load[p].stat, fingerprint |-> Fingerprint(p),
                parquet |-> IF p \in UsesParquet THEN ParquetName(p, File(p)) ELSE Nothing]
  IN
  /\ At(p, "record")
  /\ index' = [index EXCEPT ![p].entries[File(p)] = entry, ![p].dirty = TRUE]
  /\ Go(p, IF load[p].again THEN "reopen" ELSE "flush")
  /\ UNCHANGED <<source, disk, tables, counters, parsed>>

(* _flush_index: the temporary name has the process only. *)
FlushOpen(p) ==
  /\ At(p, "flush")
  /\ IF index[p].dirty /\ p \in UsesParquet
     THEN /\ indexTmp' = [indexTmp EXCEPT ![ProcessOf[p]] = Partial]
          /\ Go(p, "flushing") /\ UNCHANGED index
     ELSE /\ index' = [index EXCEPT ![p].dirty = FALSE]
          /\ Go(p, "recheck") /\ UNCHANGED indexTmp
  /\ UNCHANGED <<source, parquet, indexFile, series, tables, counters, parsed>>

FlushWrite(p) ==
  /\ At(p, "flushing")
  /\ indexTmp' = [indexTmp EXCEPT ![ProcessOf[p]] = index[p].entries]
  /\ Go(p, "swap")
  /\ UNCHANGED <<source, parquet, indexFile, series, memory, counters, parsed>>

(* os.replace; it fails when another thread has taken the file, and the    *)
(* failure is only logged.                                                 *)
FlushSwap(p) ==
  LET written == indexTmp[ProcessOf[p]] IN
  /\ At(p, "swap")
  /\ indexFile' = IF written = Nothing THEN indexFile ELSE written
  /\ indexTmp' = [indexTmp EXCEPT ![ProcessOf[p]] = Nothing]
  /\ index' = [index EXCEPT ![p].dirty = FALSE]
  /\ Go(p, "recheck")
  /\ UNCHANGED <<source, parquet, series, tables, counters, parsed>>

(* _ensure_indexed returns the entries that are fresh by now; without one  *)
(* the load ends in DataNotAvailableError.                                 *)
Recheck(p) ==
  /\ At(p, "recheck")
  /\ IF File(p) # Nothing /\ Fresh(index[p], p, File(p)) THEN Go(p, "open") ELSE Finish(p)
  /\ UNCHANGED <<source, disk, memory, counters, parsed>>

(* What _gather makes of a table. *)
Gathered(p, table) == [file |-> File(p), revision |-> table.revision,
                       parse |-> table.parse, duplicates |-> ConfigOf[p].duplicates]
Take(p, table) ==
  load' = [load EXCEPT ![p].at = "put", ![p].got = Gathered(p, table)]

(* _load_file_table: an unusable Parquet file is invalidated and converted *)
(* again, once.                                                            *)
Open(p) ==
  LET table == parquet[index[p].entries[File(p)].parquet] IN
  /\ At(p, "open")
  /\ index[p].entries[File(p)].parquet # Nothing
  /\ IF table # Nothing
     THEN Take(p, table) /\ UNCHANGED index
     ELSE /\ index' = [index EXCEPT ![p].entries[File(p)] = Nothing, ![p].dirty = TRUE]
          /\ load' = [load EXCEPT ![p].at = "parse", ![p].again = TRUE]
  /\ UNCHANGED <<source, disk, tables, counters, parsed>>

(* Without a disk cache the table is in memory, or is read again.          *)
OpenTable(p) ==
  LET kept  == tables[p][File(p)]
      table == IF kept # Nothing THEN kept
               ELSE [revision |-> source[File(p)], parse |-> Fingerprint(p)]
  IN
  /\ At(p, "open")
  /\ index[p].entries[File(p)].parquet = Nothing
  /\ Take(p, table)
  /\ tables' = [tables EXCEPT ![p][File(p)] = table]
  /\ UNCHANGED <<source, disk, index, counters, parsed>>

(* A second failure leaves the load, and so does an entry without Parquet: *)
(* a provider that keeps nothing on disk has read another's index.         *)
Reopen(p) ==
  LET entry == index[p].entries[File(p)] IN
  /\ At(p, "reopen")
  /\ IF Fresh(index[p], p, File(p)) /\ entry.parquet # Nothing
     THEN Take(p, parquet[entry.parquet])
     ELSE Finish(p)
  /\ UNCHANGED <<source, disk, memory, counters, parsed>>

(* The series cache keeps the series under the key the load began with. *)
Put(p) ==
  /\ At(p, "put")
  /\ series' = [k \in DOMAIN series \cup {load[p].key} |->
                  IF k = load[p].key THEN load[p].got ELSE series[k]]
  /\ Go(p, "served")
  /\ UNCHANGED <<source, parquet, indexFile, indexTmp, memory, counters, parsed>>

Serve(p) ==
  /\ At(p, "served")
  /\ Finish(p)
  /\ UNCHANGED <<source, disk, memory, counters, parsed>>

(* close flushes the index and drops the tables; the provider may be read  *)
(* again afterwards.                                                       *)
Close(p) ==
  /\ At(p, "idle")
  /\ loads < MaxLoads
  /\ loads' = loads + 1
  /\ tables' = [tables EXCEPT ![p] = NoEntries]
  /\ Go(p, "flush")
  /\ UNCHANGED <<source, disk, index, edits, faults, parsed>>

(***************************************************************************)
(* The world outside.  Unless EditsAnyTime, no file is edited on the way   *)
(* from its parsing to its entry in the index.                             *)
(***************************************************************************)
Converting(p) == load[p].at \in {"stat", "store", "record"}
Edit(f) ==
  /\ edits < MaxEdits
  /\ EditsAnyTime \/ \A p \in Providers : ~Converting(p)
  /\ edits' = edits + 1
  /\ source' = [source EXCEPT ![f] = @ + 1]
  /\ UNCHANGED <<disk, memory, load, loads, faults, parsed>>

Keep(keys) == [k \in keys |-> series[k]]
Of(q) == {p \in Providers : ProcessOf[p] = q}

(* Process q is killed, and its providers are made anew. *)
Kill(q) ==
  /\ faults < MaxFaults
  /\ faults' = faults + 1
  /\ index'  = [p \in Providers |-> IF p \in Of(q) THEN Cold ELSE index[p]]
  /\ tables' = [p \in Providers |-> IF p \in Of(q) THEN NoEntries ELSE tables[p]]
  /\ load'   = [p \in Providers |-> IF p \in Of(q) THEN NoLoad ELSE load[p]]
  /\ parsed' = {c \in parsed : c[1] \notin Of(q)}
  /\ series' = Keep({k \in DOMAIN series : k.cache \notin Of(q)})
  /\ UNCHANGED <<source, parquet, indexFile, indexTmp, loads, edits>>

(* Someone tidies a converted file away. *)
Lose(n) ==
  /\ faults < MaxFaults
  /\ parquet[n] # Nothing
  /\ faults' = faults + 1
  /\ parquet' = [parquet EXCEPT ![n] = Nothing]
  /\ parsed' = {c \in parsed : c[2] # n[1]}
  /\ UNCHANGED <<source, indexFile, indexTmp, series, memory, load, loads, edits>>

Init ==
  /\ source = [f \in Files |-> 1]
  /\ parquet = [n \in ParquetNames |-> Nothing]
  /\ indexFile = Nothing
  /\ indexTmp = [q \in Processes |-> Nothing]
  /\ series = [k \in {} |-> Nothing]
  /\ index = [p \in Providers |-> Cold]
  /\ tables = [p \in Providers |-> NoEntries]
  /\ load = [p \in Providers |-> NoLoad]
  /\ loads = 0 /\ edits = 0 /\ faults = 0
  /\ parsed = {}

Step(p) ==
  \/ Load(p) \/ Select(p) \/ Parse(p) \/ Stat(p) \/ Store(p) \/ Record(p)
  \/ FlushOpen(p) \/ FlushWrite(p) \/ FlushSwap(p) \/ Recheck(p)
  \/ Open(p) \/ OpenTable(p) \/ Reopen(p) \/ Put(p) \/ Serve(p) \/ Close(p)

Next ==
  \/ \E p \in Providers : Step(p)
  \/ \E f \in Files : Edit(f)
  \/ \E q \in Processes : Kill(q)
  \/ \E n \in ParquetNames : Lose(n)
Spec == Init /\ [][Next]_vars
=============================================================================
