---------------------------- MODULE MCMergedFeed ----------------------------
(* Small instances of MergedFeed for TLC. *)
EXTENDS MergedFeedProperties

Bar(key, time)   == [time |-> time, key |-> key, kind |-> "bar"]
Chain(key, time) == [time |-> time, key |-> key, kind |-> "chain"]

(* Two equities in the plan and the chains of the first; instrument 3 is   *)
(* an option contract, which only a subscription can bring in.             *)
SmallPlan == << [kind |-> "bar",   class |-> "equity", keys |-> {1, 2}, end |-> 3],
                [kind |-> "chain", class |-> "equity", keys |-> {1},    end |-> 3] >>
SmallClassOf == [k \in Instruments |-> IF k = 3 THEN "option" ELSE "equity"]
SmallServes  == [bar   |-> [equity |-> {1, 2}, option |-> {2}],
                 chain |-> [equity |-> {2},    option |-> {2}]]
SmallReported == [p \in Providers |-> IF p = 1 THEN {"split"} ELSE {"split", "dividend"}]

Listed   == {Bar(1, 1), Bar(2, 1), Chain(1, 2), Bar(2, 3)}
Relisted == {Bar(1, 1), Bar(1, 2), Chain(1, 1), Bar(3, 2)}

(* Ties in the order of instruments, ties in any order, and, with fewer    *)
(* updates, streams in any order at all.                                   *)
SmallOffers ==
  { [order |-> "keyed",     held |-> <<Listed, Relisted>>],
    [order |-> "sorted",    held |-> <<Listed, Relisted>>],
    [order |-> "arbitrary", held |-> << {Bar(1, 1), Bar(1, 2)}, {Bar(2, 1), Bar(3, 2)} >>] }
=============================================================================
