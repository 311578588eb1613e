---------------------------- MODULE SeriesValues ----------------------------
(***************************************************************************)
(* What domain/bar.py's BarSeries promises its users: each series is a     *)
(* sequence of bars of its own.  Appending to one changes that one and no  *)
(* other, whatever they were cut from; a tail or a slice is a value taken  *)
(* at the moment of the call; and columns once handed out never change.    *)
(***************************************************************************)
EXTENDS Integers, Sequences

CONSTANTS Series, Time, NoSeries

VARIABLES value, columns

(* The stretch of v that is the bars of the closed interval, if they are one. *)
Cuts(v, from, to) ==
    LET inside == {i \in 1..Len(v) : from <= v[i] /\ v[i] <= to}
        ends   == {e \in (1..Len(v) + 1) \X (0..Len(v)) : e[1]..e[2] = inside}
    IN {SubSeq(v, e[1], e[2]) : e \in ends}

Holds(s, v) == value' = [value EXCEPT ![s] = v]

Init == value = [s \in Series |-> NoSeries] /\ columns = NoSeries

Create(s) == \E v \in {<<>>} \cup {<<t>> : t \in Time} \cup (Time \X Time) : Holds(s, v)

Adopt(s) == columns # NoSeries /\ Holds(s, columns)

Drop(s) == Holds(s, NoSeries)

Extend(s) == value[s] # NoSeries /\ \E t \in Time : Holds(s, Append(value[s], t))

TailOf(s, r) ==
    /\ value[r] # NoSeries
    /\ \E n \in 0..Len(value[r]) :
         Holds(s, SubSeq(value[r], Len(value[r]) - n + 1, Len(value[r])))

SliceOf(s, r) ==
    /\ value[r] # NoSeries
    /\ \E from, to \in Time : \E v \in Cuts(value[r], from, to) : Holds(s, v)

Read(s) == value[s] # NoSeries /\ columns' = value[s] /\ UNCHANGED value

Next ==
    \E s \in Series :
        \/ (Create(s) \/ Adopt(s) \/ Drop(s) \/ Extend(s)
               \/ \E r \in Series : TailOf(s, r) \/ SliceOf(s, r)) /\ UNCHANGED columns
        \/ Read(s)

Spec == Init /\ [][Next]_<<value, columns>>
=============================================================================
