----------------------------- MODULE BarSeries ------------------------------
(***************************************************************************)
(* The columnar history of domain/bar.py.  A series is a window onto a     *)
(* numpy buffer: which buffer, where the window starts, how many rows are  *)
(* live and how many it may write before it has to grow.  Tails, slices    *)
(* and columns share the buffer of the series they were taken from, and    *)
(* append writes in place while there is room, so everything rests on who  *)
(* may write which row.                                                    *)
(*                                                                         *)
(* The six columns are grown, cut and written together: one buffer stands  *)
(* for all six, and a row for the timestamp it carries.  A bar is appended *)
(* in time order, as every provider delivers it.                           *)
(***************************************************************************)
EXTENDS Integers, Sequences, FiniteSets

CONSTANTS
    Series,         \* the names a program holds series by
    Buffers,        \* numpy arrays; one nobody refers to is free again
    Time,           \* timestamps; 0 is not one: it is what np.resize fills with
    Capacities,     \* preallocations asked of __init__
    MaxRows,        \* bound: rows of a series
    NoSeries

ASSUME BarSeriesAssumption ==
    /\ Time \subseteq Nat \ {0} /\ Capacities \subseteq Nat /\ MaxRows \in Nat
    /\ NoSeries \notin [buf : Buffers, lo : Nat, size : Nat, capacity : Nat] \cup Seq(Nat)

VARIABLES
    memory,         \* buffer -> its rows
    series,         \* name -> window, or NoSeries
    columns         \* a column view some indicator keeps, or NoSeries

seriesVars == <<memory, series, columns>>

Garbage == 0

Live == {s \in Series : series[s] # NoSeries}

Row(w, i) == memory[w.buf][w.lo + i]

\* The rows a window shows: the view [: self._size] of its column.
Rows(w) == [i \in 1..w.size |-> Row(w, i)]

Referred ==
    {series[s].buf : s \in Live} \cup (IF columns = NoSeries THEN {} ELSE {columns.buf})

Free == Buffers \ Referred

-----------------------------------------------------------------------------
(* Construction.                                                           *)

\* _adopt: the columns as they are, full to the brim.
Adopt(buf, lo, size) == [buf |-> buf, lo |-> lo, size |-> size, capacity |-> size]

\* The memory after a step: what was written, and an array nobody refers to
\* any more is gone.
Store(rows) == memory' = [b \in Buffers |-> IF b \in Referred' THEN rows[b] ELSE <<>>]

Allocate(buf, rows) == Store([memory EXCEPT ![buf] = rows])

Become(s, w) == series' = [series EXCEPT ![s] = w] /\ UNCHANGED columns

\* A new series under a name that is not in use.
Name(s, w) == s \notin Live /\ Become(s, w)

Ordered(rows) == \A i, j \in 1..Len(rows) : i < j => rows[i] <= rows[j]

Empty(s) ==
    \E buf \in Free, asked \in Capacities :
        LET capacity == IF asked < 1 THEN 1 ELSE asked IN
        /\ Name(s, [buf |-> buf, lo |-> 0, size |-> 0, capacity |-> capacity])
        /\ Allocate(buf, [i \in 1..capacity |-> Garbage])

\* from_bars copies rows into arrays of exactly their number; no bars, no series.
FromBars(s) ==
    \E buf \in Free, rows \in {<<t>> : t \in Time} \cup (Time \X Time) :
        /\ Ordered(rows)
        /\ Name(s, Adopt(buf, 0, Len(rows)))
        /\ Allocate(buf, rows)

\* from_arrays adopts columns it is given, those of another series included.
FromArrays(s) ==
    /\ columns # NoSeries
    /\ Name(s, Adopt(columns.buf, columns.lo, columns.size))
    /\ Store(memory)

Drop(s) == s \in Live /\ Become(s, NoSeries) /\ Store(memory)

-----------------------------------------------------------------------------
(* append and _grow.                                                       *)

\* np.resize: the old rows over and over, or zeros when there are none.
Resized(w, capacity) ==
    [i \in 1..capacity |->
        IF w.capacity = 0 THEN Garbage ELSE Row(w, ((i - 1) % w.capacity) + 1)]

Put(w) == [w EXCEPT !.size = @ + 1]

InPlace(s, t) ==
    LET w == series[s] IN
    /\ w.size < w.capacity
    /\ Become(s, Put(w))
    /\ Store([memory EXCEPT ![w.buf][w.lo + w.size + 1] = t])

Grown(s, t) ==
    LET w == series[s]
        capacity == IF w.capacity = 0 THEN 1 ELSE 2 * w.capacity
    IN  /\ w.size = w.capacity
        /\ \E buf \in Free :
             /\ Become(s, Put([w EXCEPT !.buf = buf, !.lo = 0, !.capacity = capacity]))
             /\ Allocate(buf, [Resized(w, capacity) EXCEPT ![w.size + 1] = t])

AppendBar(s) ==
    /\ s \in Live
    /\ series[s].size < MaxRows
    /\ \E t \in Time :
         /\ series[s].size > 0 => Row(series[s], series[s].size) <= t
         /\ (InPlace(s, t) \/ Grown(s, t))

-----------------------------------------------------------------------------
(* Views.                                                                  *)

\* Planted bug: a view takes the room behind it along, and appends into it.
WindowWithRoom(w, lo, hi) ==
    [Adopt(w.buf, w.lo + lo, IF hi < lo THEN 0 ELSE hi - lo) EXCEPT
        !.capacity = IF w.capacity < lo THEN 0 ELSE w.capacity - lo]

\* Rows lo+1..hi; numpy's [lo:hi] of hi below lo is empty.
Window(w, lo, hi) == Adopt(w.buf, w.lo + lo, IF hi < lo THEN 0 ELSE hi - lo)

Larger(a, b) == IF a < b THEN b ELSE a

TailOf(w, n) == Window(w, Larger(w.size - Larger(n, 0), 0), w.size)

\* searchsorted over the live timestamps, side="left".
FoundLeft(w, t) == Cardinality({i \in 1..w.size : Row(w, i) < t})

\* Planted bug: side="left" for both ends loses the bar that closes on the end.
FoundRightAsLeft(w, t) == FoundLeft(w, t)

\* searchsorted over the live timestamps, side="right".
FoundRight(w, t) == Cardinality({i \in 1..w.size : Row(w, i) <= t})

Slice(w, from, to) == Window(w, FoundLeft(w, from), FoundRight(w, to))

TailView(s) ==
    \E r \in Live : \E n \in -1..MaxRows + 1 :
        Name(s, TailOf(series[r], n)) /\ Store(memory)

SliceView(s) ==
    \E r \in Live : \E from, to \in Time :
        Name(s, Slice(series[r], from, to)) /\ Store(memory)

\* The column properties: a view of the live rows, kept by whoever asked.
ReadColumns(s) ==
    /\ s \in Live
    /\ columns' = Window(series[s], 0, series[s].size)
    /\ UNCHANGED series
    /\ Store(memory)

\* bar_at: the row a Python index names, or Garbage for IndexError.
BarAt(w, index) ==
    LET i == IF index < 0 THEN index + w.size ELSE index IN
    IF 0 <= i /\ i < w.size THEN Row(w, i + 1) ELSE Garbage

-----------------------------------------------------------------------------
SeriesInit ==
    /\ memory = [b \in Buffers |-> <<>>]
    /\ series = [s \in Series |-> NoSeries]
    /\ columns = NoSeries

SeriesNext ==
    \E s \in Series :
        \/ Empty(s) \/ FromBars(s) \/ FromArrays(s) \/ Drop(s)
        \/ AppendBar(s)
        \/ TailView(s) \/ SliceView(s) \/ ReadColumns(s)

SeriesSpec == SeriesInit /\ [][SeriesNext]_seriesVars

-----------------------------------------------------------------------------
(* What the sharing of buffers in domain/bar.py must not be noticed by.     *)

\* A window lies inside its buffer and shows bars, never what np.empty or
\* np.resize left behind; and bar_at(-1) is the bar appended last.
IsWindow(w) ==
    /\ w.buf \in Buffers /\ w.lo >= 0 /\ w.size >= 0 /\ w.size <= w.capacity
    /\ w.lo + w.capacity <= Len(memory[w.buf])
    /\ \A i \in 1..w.size : Row(w, i) \in Time
    /\ w.size > 0 => BarAt(w, -1) = Row(w, w.size)

\* Every series is a window of its buffer (bar.py 459-505).
SeriesTypeOK ==
    /\ \A s \in Live : IsWindow(series[s])
    /\ columns # NoSeries => IsWindow(columns)

\* The row a series would append to is covered by no other series and no
\* column view: of all that share a buffer, one may write, and only behind
\* everything the others show (append 552-563 against _window 616-628).
Shows(w, buf, row) == w.buf = buf /\ w.lo < row /\ row <= w.lo + w.capacity

BesideIt(s) ==
    {series[r] : r \in Live \ {s}} \cup (IF columns = NoSeries THEN {} ELSE {columns})

OneWriter ==
    \A s \in Live :
        LET w == series[s] IN
        w.size < w.capacity => \A v \in BesideIt(s) : ~Shows(v, w.buf, w.lo + w.size + 1)

\* The windows of a buffer keep out of each other's way.
BuffersAreShared == SeriesTypeOK /\ OneWriter

\* What every series is by itself.
Values ==
    INSTANCE SeriesValues WITH
        value <- [s \in Series |-> IF series[s] = NoSeries THEN NoSeries ELSE Rows(series[s])],
        columns <- IF columns = NoSeries THEN NoSeries ELSE Rows(columns)

\* A slice is exactly the bars stamped inside its closed interval, however many
\* share a timestamp, and a tail is the last of them (bar.py 604-614).
CutWhereAsked ==
    \A s \in Live :
        LET w == series[s] IN
        /\ \A from, to \in Time :
              Rows(Slice(w, from, to)) \in Values!Cuts(Rows(w), from, to)
        /\ \A n \in 0..w.size : Rows(TailOf(w, n)) = SubSeq(Rows(w), w.size - n + 1, w.size)

\* What a view of a series is trusted for (bar.py 604-628): it holds the bars
\* that were asked for, inside a buffer that no other series may write under it.
ViewsAreSound == BuffersAreShared /\ CutWhereAsked

\* Shared buffers or not, every series behaves as a sequence of its own, a
\* slice is the bars of its closed interval, and columns handed out stay as
\* they were read (bar.py 435-628).
ImplementsValues == Values!Spec

-----------------------------------------------------------------------------
(* What makes this inductive: windows and memory are of their types, bars   *)
(* lie in time order, and all that share a buffer with a series that has    *)
(* room end where its own bars do.                                          *)

Windows == [buf : Buffers, lo : Nat, size : Nat, capacity : Nat]

Typed ==
    /\ memory \in [Buffers -> Seq(Nat)]
    /\ series \in [Series -> Windows \cup {NoSeries}]
    /\ columns \in Windows \cup {NoSeries}

(* A window as it should be over the memory m. *)
Whole(m, w) ==
    /\ w \in Windows /\ w.size <= w.capacity /\ w.lo + w.capacity <= Len(m[w.buf])
    /\ \A i \in 1..w.size : m[w.buf][w.lo + i] \in Time
    /\ \A i, j \in 1..w.size : i < j => m[w.buf][w.lo + i] <= m[w.buf][w.lo + j]

HasRoom(w) == w.size < w.capacity

EndsBefore(v, w) == v.buf = w.buf => v.lo + v.capacity <= w.lo + w.size

OthersEndBefore ==
    \A s \in Live : HasRoom(series[s]) => \A v \in BesideIt(s) : EndsBefore(v, series[s])

SeriesInv ==
    /\ Typed
    /\ \A s \in Live : Whole(memory, series[s])
    /\ columns # NoSeries => Whole(memory, columns)
    /\ OthersEndBefore
=============================================================================
