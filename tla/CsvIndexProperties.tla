------------------------- MODULE CsvIndexProperties -------------------------
(* What a reader of the CSV provider may rely on. *)
EXTENDS CsvIndex

Steps == {"idle", "select", "parse", "stat", "store", "record", "reopen", "flush",
          "flushing", "swap", "recheck", "open", "put", "served"}
Revisions    == 1..MaxEdits + 1
Fingerprints == {Fingerprint(p) : p \in Providers}
Tables       == [revision : Revisions, parse : Fingerprints]
Entries      == [Files -> [revision : Revisions, parquet : ParquetNames \cup {Nothing},
                           fingerprint : Fingerprints] \cup {Nothing}]
IndexRecords == [entries : Entries, loaded : BOOLEAN, dirty : BOOLEAN]
SeriesKeys   == [cache : Providers \cup {Nothing}, file : Files, parse : Fingerprints,
                 revisions : [Files -> Revisions]]
ServedSeries == [file : Files, revision : Revisions, parse : Fingerprints,
                 duplicates : {ConfigOf[p].duplicates : p \in Providers}]
LoadRecords  == [at : Steps, file : Files \cup {Nothing}, asked : Revisions \cup {Nothing},
                 key : SeriesKeys \cup {Nothing}, read : Revisions \cup {Nothing},
                 stat : Revisions \cup {Nothing}, again : BOOLEAN,
                 got : ServedSeries \cup {Nothing}]

(* Every field keeps its type; in particular what has the name of the      *)
(* index is a whole index or nothing a reader can parse (_flush_index).    *)
TypeOK ==
  /\ source \in [Files -> Revisions]
  /\ parquet \in [ParquetNames -> Tables \cup {Nothing}]
  /\ indexFile \in Entries \cup {Nothing, Partial}
  /\ indexTmp \in [Processes -> Entries \cup {Nothing, Partial}]
  /\ DOMAIN series \subseteq SeriesKeys
  /\ \A k \in DOMAIN series : series[k] \in ServedSeries
  /\ index \in [Providers -> IndexRecords]
  /\ tables \in [Providers -> [Files -> Tables \cup {Nothing}]]
  /\ load \in [Providers -> LoadRecords]
  /\ parsed \subseteq Providers \X Files \X Revisions

(* What the index calls fresh is the conversion of the file as it now is,  *)
(* under the provider's own settings, through kills, lost files and other  *)
(* providers' conversions and index writes (_fresh_entry: "Index entry for *)
(* path if it still matches the file on disk", csv_provider.py:949).       *)
FreshIsCurrent == \A p \in Providers, f \in Files :
  LET i == Loaded(p)
      e == i.entries[f]
  IN Fresh(i, p, f) /\ e.parquet # Nothing =>
       parquet[e.parquet] = [revision |-> source[f], parse |-> Fingerprint(p)]

(* A load serves the file it was asked for, parsed as its provider parses, *)
(* and no older than the file was when the load began, whichever of the    *)
(* caches it comes from (load_series, _source_digest).                     *)
ServesCurrent == \A p \in Providers :
  At(p, "served") =>
    /\ load[p].got.file = File(p)
    /\ load[p].got.parse = Fingerprint(p)
    /\ load[p].got.revision >= load[p].asked

(* Whichever way a series comes, from the series cache, the Parquet file,  *)
(* a table in memory or the source, it is of the source as it is.          *)
IndexIsSound == TypeOK /\ FreshIsCurrent /\ ServesCurrent

(* A provider converts one revision of a file once for as long as it lives *)
(* and its conversions are left alone (_ensure_indexed, _convert).         *)
ConvertsOnce ==
  [][\A p \in Providers :
       At(p, "parse") /\ load'[p].at = "stat" => <<p, File(p), source[File(p)]>> \notin parsed]_vars

-----------------------------------------------------------------------------
(* The inductive invariant behind the theorems of CsvIndexProofs.  It is   *)
(* about files that are not edited while they are converted.               *)

(* Revisions are counted by the edits.                                     *)
EditsOK == edits \in 0..MaxEdits /\ \A f \in Files : source[f] <= edits + 1

(* An entry is of a revision that was there; its Parquet file is the one   *)
(* named for it, which holds that revision or a later one.                 *)
EntriesAgree(entries, revisions, converted) ==
  \A f \in Files : entries[f] # Nothing =>
    LET e == entries[f] IN
    /\ e.revision <= revisions[f]
    /\ e.parquet # Nothing =>
         /\ e.parquet = <<f, e.fingerprint>>
         /\ converted[e.parquet] # Nothing => e.revision <= converted[e.parquet].revision

(* So it is of the entries in memory, in the index file, and on their way  *)
(* to it.                                                                  *)
IndexesOK ==
  /\ \A p \in Providers : EntriesAgree(index[p].entries, source, parquet)
  /\ indexFile \notin {Nothing, Partial} => EntriesAgree(indexFile, source, parquet)
  /\ \A q \in Processes :
       indexTmp[q] \notin {Nothing, Partial} => EntriesAgree(indexTmp[q], source, parquet)

(* Conversions and series are of revisions that were there, and a table in *)
(* memory is no older than the entry that stands for it.                   *)
ParquetOK == \A n \in ParquetNames : parquet[n] # Nothing =>
  parquet[n].parse = n[2] /\ parquet[n].revision <= source[n[1]]
TableOK(p, f) == tables[p][f] # Nothing =>
  LET e == index[p].entries[f] IN
  /\ index[p].loaded
  /\ tables[p][f].parse = Fingerprint(p)
  /\ e # Nothing /\ e.parquet = Nothing => e.revision <= tables[p][f].revision
TablesOK == \A p \in Providers, f \in Files : TableOK(p, f)
SeriesOK == \A k \in DOMAIN series :
  series[k].file = k.file /\ series[k].parse = k.parse /\ k.revisions[k.file] <= series[k].revision

(* Where a load stands, and what it has found out so far.                  *)
LoadOK(p) ==
  LET l == load[p]
      e == index[p].entries[l.file]
  IN /\ l.at = "idle" => l = NoLoad
     /\ l.at \notin {"idle", "flush", "flushing", "swap", "recheck"} => l.file # Nothing
     /\ l.file # Nothing =>
          /\ l.asked \in Revisions /\ l.asked <= source[l.file]
          /\ l.key \in SeriesKeys /\ l.key.file = l.file /\ l.key.parse = Fingerprint(p)
          /\ l.key.revisions[l.file] = l.asked
          /\ l.at \notin {"select", "served", "put"} => index[p].loaded
     /\ l.at \in {"stat", "store", "record"} => l.read = source[l.file]
     /\ l.at \in {"store", "record"} => l.stat = source[l.file]
     /\ l.at = "record" =>
          IF p \in UsesParquet
          THEN parquet[ParquetName(p, l.file)] # Nothing =>
                 parquet[ParquetName(p, l.file)].revision = l.stat
          ELSE tables[p][l.file] # Nothing /\ tables[p][l.file].revision = l.stat
     /\ l.at = "open" => e # Nothing /\ e.fingerprint = Fingerprint(p) /\ l.asked <= e.revision
     /\ l.at \in {"put", "served"} =>
          l.got \in ServedSeries /\ l.got.file = l.file /\ l.got.parse = Fingerprint(p)
            /\ l.asked <= l.got.revision
LoadsOK == \A p \in Providers : LoadOK(p)

(* What a provider has converted of the file as it is, its index calls     *)
(* fresh, or is about to.                                                  *)
Kept(p, f) ==
  IF Converting(p) /\ load[p].file = f
  THEN load[p].at = "record" /\ p \in UsesParquet => parquet[ParquetName(p, f)] # Nothing
  ELSE Fresh(index[p], p, f)
ParsedOK == \A c \in parsed :
  /\ index[c[1]].loaded
  /\ c[3] <= source[c[2]]
  /\ c[3] = source[c[2]] => Kept(c[1], c[2]) /\ ~(At(c[1], "parse") /\ load[c[1]].file = c[2])

IndexInv ==
  /\ TypeOK /\ EditsOK /\ IndexesOK /\ ParquetOK /\ TablesOK /\ SeriesOK
  /\ LoadsOK /\ ParsedOK
=============================================================================
