----------------------------- MODULE MergedFeed -----------------------------
(***************************************************************************)
(* MergedDataFeed of data/feed.py: a heap merge of provider streams into   *)
(* one snapshot per instant, with subscriptions made while it is read.     *)
(*                                                                         *)
(* Providers are code outside the feed and appear as what they offer and   *)
(* the order in which a stream yields it.  Instruments are numbered in the *)
(* order of their ids, which is how the heap breaks ties.  An update is a  *)
(* bar or an option chain; its contents never matter to the merge.  Every  *)
(* error a provider raises while a feed is prepared or subscribes is one   *)
(* outcome here; a request that no provider can serve never gets further.  *)
(***************************************************************************)
EXTENDS Integers, SequencesExt

CONSTANTS Providers,   \* numbers, in the order of the constructor's list
          Instruments, \* numbers
          ClassOf,     \* the asset class of an instrument
          Plan,        \* the requests, bars first: [kind, class, keys, end]
          Serves,      \* Serves[kind][class]: the providers that can serve it
          Offers,      \* what the providers may hold, and in which order they
                       \* yield it: [order, held], held[provider] a set
          Reported,    \* provider |-> the corporate actions it reports
          MaxSources,  \* bounds the streams opened in one reading
          MaxReadings  \* bounds the number of times the feed is closed

Never   == -1
Updates == [time : Nat, key : Instruments, kind : {"bar", "chain"}]
Requests == [kind : {"bar", "chain"}, class : DOMAIN Serves["bar"],
             keys : SUBSET Instruments, end : Nat]

ASSUME FeedAssumption ==
  /\ Providers \subseteq Nat /\ IsFiniteSet(Providers)
  /\ Instruments \subseteq Nat
  /\ Plan \in Seq(Requests)
  /\ \A r \in DOMAIN Plan : Serves[Plan[r].kind][Plan[r].class] # {}
  /\ ClassOf \in [Instruments -> DOMAIN Serves["bar"]]
  /\ \A kind \in {"bar", "chain"}, class \in DOMAIN Serves["bar"] :
       Serves[kind][class] \subseteq Providers
  /\ Offers \subseteq [order : {"keyed", "sorted", "arbitrary"},
                       held : [Providers -> SUBSET Updates]]
  /\ \A o \in Offers, p \in Providers : IsFiniteSet(o.held[p])
  /\ \A p \in Providers : IsFiniteSet(Reported[p])
  /\ MaxSources \in Nat /\ MaxReadings \in Nat

(* The bars a request names are of the asset class it is for, which their  *)
(* ids begin with; and every provider of chains is asked for all of them   *)
(* (_chain_providers_for).                                                 *)
ASSUME RoutingAssumption ==
  /\ \A r \in DOMAIN Plan : Plan[r].kind = "bar" =>
       \A key \in Plan[r].keys : ClassOf[key] = Plan[r].class
  /\ \A c, d \in DOMAIN Serves["bar"] : Serves["chain"][c] = Serves["chain"][d]

VARIABLES phase,       \* closed, ready, draining, or failed by an exception
          prepared,    \* the sources of the plan that prepare has opened
          joining,     \* the sources add_instrument is still to open
          offer,       \* what the providers hold and its order; never changes
          sources,     \* history: what each opened source was asked for
          iterators,   \* _iterators: what each source has yet to yield
          sourceLast,  \* _source_last
          heap,        \* _heap: entries [update, source]
          bars,        \* the snapshot under construction, as entries
          epoch,       \* the instant being drained
          current,     \* _current: the instant and entries last yielded
          lastEmitted, \* _last_emitted_ns
          registry,    \* the keys of _registry
          subscribed,  \* history: keys add_instrument returned normally for
          actions,     \* _actions, as one list
          readings     \* how often the feed was closed

merge == <<sources, iterators, sourceLast, heap>>
vars  == <<phase, prepared, joining, offer, merge, bars, epoch, current, lastEmitted,
           registry, subscribed, actions, readings>>

NoSnapshot == [time |-> Never, entries |-> {}]

-----------------------------------------------------------------------------
(* A provider's stream: each update it holds for the request, once.  The   *)
(* contract is "sorted", with ties in any order; CsvDataProvider's streams *)
(* are "keyed"; "arbitrary" is a provider that breaks the contract.        *)
YieldsBefore(u, v) ==
  CASE offer.order = "arbitrary" -> TRUE
    [] offer.order = "sorted"    -> u.time <= v.time
    [] offer.order = "keyed"     -> u.time < v.time \/ (u.time = v.time /\ u.key <= v.key)

Asked(provider, request, after) ==
  {u \in offer.held[provider] : /\ u.kind = request.kind /\ u.key \in request.keys
                           /\ after <= u.time /\ u.time <= request.end}

Streams(provider, request, after) ==
  {s \in SetToSeqs(Asked(provider, request, after)) :
     \A i, j \in DOMAIN s : i < j => YieldsBefore(s[i], s[j])}

(* Planted bug: the bar of the current instant is kept. *)
DropUntilKeepingCurrent(s, floor) ==
  LET late == {i \in DOMAIN s : s[i].time >= floor}
  IN IF late = {} THEN <<>> ELSE SubSeq(s, Min(late), Len(s))

(* dropwhile in _open_source: the leading updates not after the floor go. *)
DropUntil(s, floor) ==
  LET late == {i \in DOMAIN s : s[i].time > floor}
  IN IF late = {} THEN <<>> ELSE SubSeq(s, Min(late), Len(s))

Primed(stream) == IF stream = <<>> THEN <<Never>> ELSE <<Head(stream).time>>

(* _open_source: a slot in each table, primed with the head of the stream. *)
OpenSource(s) ==
  \E yields \in Streams(s.provider, s.request, s.after) :
    LET n      == Len(iterators) + 1
        stream == DropUntil(yields, current.time)
    IN /\ n <= MaxSources
       /\ sources' = Append(sources, s)
       /\ iterators' = Append(iterators, IF stream = <<>> THEN <<>> ELSE Tail(stream))
       /\ sourceLast' = sourceLast \o Primed(stream)
       /\ heap' = IF stream = <<>> THEN heap
                  ELSE heap \cup {[update |-> Head(stream), source |-> n]}

-----------------------------------------------------------------------------
(* prepare opens a source for each request and provider able to serve it,  *)
(* the requests in the order of the plan.                                  *)
Capable(kind, class) == {p \in Providers : p \in Serves[kind][class]}

PlanSources == UNION {{<<r, p>> : p \in Capable(Plan[r].kind, Plan[r].class)} :
                        r \in DOMAIN Plan}

IsNextInPlan(r, p) ==
  /\ <<r, p>> \in PlanSources \ prepared
  /\ \A rest \in PlanSources \ prepared :
       r < rest[1] \/ (r = rest[1] /\ p <= rest[2])

(* Planted bug: every report appended, as if no provider repeated another. *)
CollectedBlindly(r, p) ==
  actions \o SetToSeq(IF Plan[r].kind = "chain" THEN {} ELSE Reported[p])

(* _collect_actions: a report equal to one already held is dropped. *)
Collected(r, p) ==
  actions \o SetToSeq(IF Plan[r].kind = "chain" THEN {}
                      ELSE Reported[p] \ ToSet(actions))

(* _register_instruments, of the symbols the provider resolves, and the    *)
(* actions: before the source is opened.                                   *)
Registered(r, p) ==
  /\ registry' = registry \cup
       IF Plan[r].kind = "chain" THEN {} ELSE Plan[r].keys \cap {u.key : u \in offer.held[p]}
  /\ actions' = Collected(r, p)

(* prepare and add_instrument run to their end before the caller goes on. *)
IsIdle ==
  /\ phase \in {"closed", "ready", "failed"} /\ joining = {}
  /\ phase = "closed" => prepared = {}

PrepareSource ==
  /\ phase = "closed" /\ joining = {}
  /\ \E r \in DOMAIN Plan, p \in Providers :
       /\ IsNextInPlan(r, p)
       /\ Registered(r, p)
       /\ OpenSource([provider |-> p, request |-> Plan[r], after |-> Never])
       /\ prepared' = prepared \cup {<<r, p>>}
  /\ UNCHANGED <<phase, joining, offer, bars, epoch, current, lastEmitted, subscribed,
                 readings>>

(* An exception out of prepare: what it opened stays, and the next call    *)
(* starts at the beginning of the plan.                                    *)
PrepareFails ==
  /\ phase = "closed" /\ joining = {}
  /\ \E r \in DOMAIN Plan, p \in Providers :
       /\ IsNextInPlan(r, p)
       /\ Registered(r, p) \/ UNCHANGED <<registry, actions>>
  /\ prepared' = {}
  /\ UNCHANGED <<phase, joining, offer, merge, bars, epoch, current, lastEmitted,
                 subscribed, readings>>

PrepareEnds ==
  /\ phase = "closed" /\ joining = {}
  /\ prepared = PlanSources
  /\ phase' = "ready"
  /\ UNCHANGED <<prepared, joining, offer, merge, bars, epoch, current, lastEmitted,
                 registry, subscribed, actions, readings>>

CurrentAfterClose == NoSnapshot

Close ==
  /\ IsIdle
  /\ readings < MaxReadings
  /\ phase' = "closed" /\ prepared' = {}
  /\ sources' = <<>> /\ iterators' = <<>> /\ sourceLast' = <<>> /\ heap' = {}
  /\ current' = CurrentAfterClose /\ lastEmitted' = Never
  /\ registry' = {} /\ subscribed' = {} /\ actions' = <<>>
  /\ readings' = readings + 1
  /\ UNCHANGED <<joining, offer, bars, epoch>>

-----------------------------------------------------------------------------
(* add_instrument, between two snapshots or before the first.              *)
BarRequests == {r \in DOMAIN Plan : Plan[r].kind = "bar"}

(* _template_request: a request of the instrument's class, or the first.   *)
Template(key) ==
  LET ofClass == {r \in BarRequests : Plan[r].class = ClassOf[key]}
  IN Plan[IF ofClass # {} THEN Min(ofClass) ELSE Min(BarRequests)]

CanJoin(key) == BarRequests # {} /\ current.time < Template(key).end

Returns(key) == subscribed' = subscribed \cup {key}

(* It registers the instrument before it raises for want of a template,    *)
(* returns past the window of the plan, or goes on to open sources.        *)
AddInstrument(key) ==
  /\ IsIdle
  /\ key \notin registry
  /\ registry' = registry \cup {key}
  /\ \/ BarRequests = {} /\ UNCHANGED <<joining, subscribed>>
     \/ BarRequests # {} /\ ~CanJoin(key) /\ Returns(key) /\ UNCHANGED joining
     \/ /\ CanJoin(key) /\ UNCHANGED subscribed
        /\ joining' = {key} \X Capable("bar", Template(key).class)
  /\ UNCHANGED <<phase, prepared, offer, merge, bars, epoch, current, lastEmitted,
                 actions, readings>>

AddKnown(key) ==
  /\ IsIdle
  /\ key \in registry
  /\ Returns(key)
  /\ UNCHANGED <<phase, prepared, joining, offer, merge, bars, epoch, current,
                 lastEmitted, registry, actions, readings>>

JoinSource ==
  /\ \E key \in Instruments, p \in Providers :
       /\ <<key, p>> \in joining
       /\ \A other \in joining : p <= other[2]
       /\ OpenSource([provider |-> p, request |-> [Template(key) EXCEPT !.keys = {key}],
                      after |-> current.time])
       /\ joining' = joining \ {<<key, p>>}
       /\ IF joining' = {} THEN Returns(key) ELSE UNCHANGED subscribed
  /\ UNCHANGED <<phase, prepared, offer, bars, epoch, current, lastEmitted, registry,
                 actions, readings>>

(* A provider raises: the sources opened so far stay, as does the registry. *)
JoinFails ==
  /\ joining # {}
  /\ joining' = {}
  /\ UNCHANGED <<phase, prepared, offer, merge, bars, epoch, current, lastEmitted,
                 registry, subscribed, actions, readings>>

-----------------------------------------------------------------------------
(* The generator of __iter__, from one yield to the next.  It can go on    *)
(* after an exception, when the caller iterates again.                     *)
StartSnapshot ==
  /\ phase \in {"ready", "failed"} /\ joining = {}
  /\ heap # {}
  /\ phase' = "draining"
  /\ epoch' = Min({e.update.time : e \in heap})
  /\ bars' = {}
  /\ UNCHANGED <<prepared, joining, offer, merge, current, lastEmitted, registry,
                 subscribed, actions, readings>>

HeapBefore(e, f) ==
  \/ e.update.key < f.update.key
  \/ e.update.key = f.update.key /\ e.source <= f.source

SameSlot(e, f) == e.update.key = f.update.key /\ e.update.kind = f.update.kind

(* Planted bug: the last update of an instant wins. *)
AbsorbedLast(e) == {b \in bars : ~SameSlot(b, e)} \cup {e}

(* _absorb: the first update of an instrument and instant wins. *)
Absorbed(e) == IF \E b \in bars : SameSlot(b, e) THEN bars ELSE bars \cup {e}

(* Planted bug: the order of a source is not looked at. *)
IsInOrderUnchecked(source) == TRUE

IsInOrder(source) == Head(iterators[source]).time >= sourceLast[source]

(* Planted bug: the source is asked again without having been advanced. *)
AdvanceNot(source) == UNCHANGED iterators

Advance(source) == iterators' = [iterators EXCEPT ![source] = Tail(@)]

(* _pull, after an entry of the source left the heap. *)
Pull(source, rest) ==
  \/ /\ iterators[source] = <<>>
     /\ heap' = rest
     /\ UNCHANGED <<iterators, sourceLast, phase>>
  \/ /\ iterators[source] # <<>> /\ IsInOrder(source)
     /\ LET next == Head(iterators[source]) IN
        /\ heap' = rest \cup {[update |-> next, source |-> source]}
        /\ sourceLast' = [sourceLast EXCEPT ![source] = next.time]
     /\ Advance(source)
     /\ UNCHANGED phase
  \/ /\ iterators[source] # <<>> /\ ~IsInOrder(source)
     /\ heap' = rest
     /\ Advance(source)
     /\ phase' = "failed"
     /\ UNCHANGED sourceLast

PopEntry ==
  /\ phase = "draining"
  /\ \E e \in heap :
       /\ e.update.time = epoch
       /\ \A f \in heap : f.update.time = epoch => HeapBefore(e, f)
       /\ bars' = Absorbed(e)
       /\ Pull(e.source, heap \ {e})
  /\ UNCHANGED <<prepared, joining, offer, sources, epoch, current, lastEmitted, registry,
                 subscribed, actions, readings>>

IsDrained == phase = "draining" /\ \A e \in heap : e.update.time # epoch

(* The exception for a clock that does not advance is left out: the code   *)
(* calls it unreachable, and the properties say that it is.                *)
Yield ==
  /\ IsDrained
  /\ phase' = "ready"
  /\ lastEmitted' = epoch
  /\ current' = [time |-> epoch, entries |-> bars]
  /\ bars' = {}
  /\ UNCHANGED <<prepared, joining, offer, merge, epoch, registry, subscribed, actions,
                 readings>>

-----------------------------------------------------------------------------
Init ==
  /\ phase = "closed" /\ prepared = {} /\ joining = {}
  /\ offer \in Offers
  /\ sources = <<>> /\ iterators = <<>> /\ sourceLast = <<>> /\ heap = {}
  /\ bars = {} /\ epoch = Never
  /\ current = NoSnapshot /\ lastEmitted = Never
  /\ registry = {} /\ subscribed = {} /\ actions = <<>>
  /\ readings = 0

Drain == PopEntry \/ Yield

Next ==
  \/ PrepareSource \/ PrepareFails \/ PrepareEnds \/ Close
  \/ \E key \in Instruments : AddInstrument(key) \/ AddKnown(key)
  \/ JoinSource \/ JoinFails
  \/ StartSnapshot \/ Drain

Spec     == Init /\ [][Next]_vars
FairSpec == Spec /\ WF_vars(Drain)
=============================================================================
