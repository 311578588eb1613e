------------------------------ MODULE MCCsvRead ------------------------------
(* Small directories and requests for CsvRead: a bar is two units long.    *)
EXTENDS CsvRead, Sequences

File(kind, rows)  == [kind |-> kind, rows |-> rows]
Directory(f)      == SelectSeq(f, LAMBDA x : x.rows # {})

(* Two sessions of bars, the second restating a row of the first, and two  *)
(* of quotes; every subset of their rows that keeps the last bar.          *)
EarlyBars   == SUBSET {<<1, 1>>, <<7, 1>>, <<8, 2>>}
LateBars    == {S \cup {<<12, 1>>} : S \in SUBSET {<<7, 1>>, <<9, 1>>, <<10, 2>>}}
EarlyQuotes == SUBSET {<<3, 1>>, <<7, 1>>}
LateQuotes  == {S \cup {<<11, 1>>} : S \in SUBSET {<<8, 1>>, <<10, 1>>}}

Barred == {Directory(<<File("aggregate", a), File("quote", p), File("aggregate", b), File("quote", q)>>) :
             a \in EarlyBars, b \in LateBars, p \in EarlyQuotes, q \in LateQuotes \cup {{}}}
Quoted == {Directory(<<File("quote", p), File("quote", q)>>) :
             p \in SUBSET {<<3, 1>>, <<6, 1>>, <<7, 2>>},
             q \in {S \cup {<<11, 1>>} : S \in SUBSET {<<7, 1>>, <<8, 1>>, <<9, 2>>, <<13, 1>>}}}
SmallDatasets == Barred \cup Quoted

Ask1(what, start, warmup, chunk) ==
  [what |-> what, symbols |-> {1, 2}, start |-> start, end |-> 12, warmup |-> warmup,
   chunk |-> chunk, quotes |-> TRUE, derives |-> TRUE, onDuplicate |-> "keep_last",
   maxAge |-> Nothing]
Sliced == {Ask1("bars", 10, w, c) : w \in {0, 1, 2}, c \in {1, 3}} \cup {Ask1("bars", 8, 1, 1)}
SmallRequests ==
  Sliced \cup
  {[Ask1("bars", 10, 1, 100) EXCEPT !.maxAge = 1, !.onDuplicate = "keep_first"],
   [Ask1("bars", 8, 1, 2) EXCEPT !.onDuplicate = "error"],
   [Ask1("bars", 8, 1, 2) EXCEPT !.derives = FALSE, !.quotes = FALSE, !.symbols = {1}],
   Ask1("quotes", 7, 0, 1)}

(* What the theorems of CsvProofs suppose. *)
ASSUME LaterThanEpoch == AfterTheEpoch
=============================================================================
