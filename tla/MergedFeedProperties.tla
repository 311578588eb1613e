----------------------- MODULE MergedFeedProperties -----------------------
(* What makes the merged feed correct. *)
EXTENDS MergedFeed

Entries == [update : Updates, source : Nat \ {0}]

(* Every variable keeps its type, and every source has its slot in each of *)
(* the three tables (feed.py:375-405).                                     *)
TypeOK ==
  /\ phase \in {"closed", "ready", "draining", "failed"}
  /\ prepared \subseteq PlanSources
  /\ joining \subseteq Instruments \X Providers
  /\ offer \in Offers
  /\ iterators \in Seq(Seq(Updates))
  /\ sourceLast \in Seq(Nat \cup {Never})
  /\ Len(sources) = Len(iterators) /\ Len(sourceLast) = Len(iterators)
  /\ heap \subseteq Entries /\ bars \subseteq Entries
  /\ epoch \in Nat \cup {Never} /\ lastEmitted \in Nat \cup {Never}
  /\ current.time \in Nat \cup {Never} /\ current.entries \subseteq Entries
  /\ registry \subseteq Instruments /\ subscribed \subseteq Instruments
  /\ readings \in 0..MaxReadings

(* The exception for a snapshot that is not later than the last one is     *)
(* unreachable, as the code claims, whatever order the providers yield in, *)
(* also after one of them was caught breaking its order (feed.py:298-305). *)
ClockNeverRefuses == IsDrained => lastEmitted < epoch

(* At rest the heap holds at most one update of each source, that source's *)
(* last, and none the reader has already seen the instant of: what a late  *)
(* subscription adds included (_open_source, _pull, add_instrument).       *)
HeapIsAhead ==
  /\ \A e, f \in heap : e.source = f.source => e = f
  /\ \A e \in heap : /\ e.source \in DOMAIN sourceLast
                     /\ e.update.time = sourceLast[e.source]
                     /\ lastEmitted < e.update.time

(* Two providers that report the same corporate action, a preparation that *)
(* is tried again and a feed that is read again never make it apply twice, *)
(* and a prepared feed knows every action of its plan (_collect_actions).  *)
ActionsOnce ==
  /\ IsInjective(actions)
  /\ phase # "closed" =>
       \A r \in BarRequests, p \in Providers :
         <<r, p>> \in PlanSources => Reported[p] \subseteq ToSet(actions)

(* A source is to show an update of what it was asked for. *)
Wants(s, u) ==
  s.request.kind = u.kind /\ u.key \in s.request.keys /\ u.time <= s.request.end

(* A provider keeps to its contract when it yields in the order of time. *)
IsOrderly == offer.order # "arbitrary"

(* What a provider holds for a source and the reader is not past yet is    *)
(* still to come, for sources opened late, in a second preparation or in a *)
(* second reading as well (_open_source, close).                           *)
NothingIsMissed ==
  IsOrderly /\ phase # "draining" =>
    \A i \in DOMAIN sources : \A u \in offer.held[sources[i].provider] :
      Wants(sources[i], u) /\ lastEmitted < u.time =>
        [update |-> u, source |-> i] \in heap \/ u \in ToSet(iterators[i])

(* feed.py:169-171: "the first provider in the list wins when two of them  *)
(* return the same instrument at the same instant"; it does when providers *)
(* break ties by instrument, as CsvDataProvider's streams do.              *)
FirstProviderWins ==
  offer.order = "keyed" =>
    \A e \in current.entries, s \in ToSet(sources) :
      s.provider < sources[e.source].provider /\ s.after < e.update.time /\ Wants(s, e.update) =>
        e.update \notin offer.held[s.provider]

(* What providers hold is shown as they sent it: all of it, and of two     *)
(* that hold the same the first one's (_absorb, _open_source).             *)
ShownAsSent == NothingIsMissed /\ FirstProviderWins

(* The feed is the snapshot stream: while its providers keep their order   *)
(* nothing a source holds is lost or shown twice, a snapshot has all of    *)
(* its instant, and a retried preparation or a duplicate changes nothing;  *)
(* when one breaks it, time still moves forward only and nothing is shown  *)
(* that was not held.                                                      *)
Draining == IF phase = "draining" THEN bars ELSE {}
Stream == INSTANCE SnapshotStream WITH
  orderly <- IsOrderly,
  clock   <- lastEmitted,
  shown   <- {e.update : e \in current.entries},
  pending <- {e.update : e \in heap \cup Draining} \cup UNION {ToSet(s) : s \in ToSet(iterators)}

ImplementsStream == Stream!StreamSpec

(* Once a snapshot is begun it is yielded, though draining an instant      *)
(* refills the heap with updates of that same instant (feed.py:290-297).   *)
SnapshotCompletes == phase = "draining" ~> phase # "draining"
=============================================================================
