----------------------------- MODULE MCCsvIndex -----------------------------
(* Small instances of CsvIndex for TLC. *)
EXTENDS CsvIndexProperties

(* Providers 1 and 2 share a process and the directory but parse the files *)
(* differently; 3 parses like 1, in another process, and writes nothing.   *)
SmallProcessOf == [p \in Providers |-> IF p = 3 THEN "B" ELSE "A"]
SmallConfigOf  == [p \in Providers |->
                     [parse |-> IF p = 2 THEN "utc" ELSE "local", duplicates |-> "keep_last"]]
=============================================================================
