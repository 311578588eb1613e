--------------------------- MODULE SnapshotStream ---------------------------
(***************************************************************************)
(* What a feed promises its reader: the updates it holds, one instant at a *)
(* time, in the order of time, each once, and everything an instant has in *)
(* one snapshot.  More updates may be subscribed to, never of an instant   *)
(* the clock has reached; and a feed may be closed and read again.  When a *)
(* source breaks the order it promised, updates may be lost, but time goes *)
(* forward all the same and only what was held is shown.                   *)
(***************************************************************************)
EXTENDS Integers

CONSTANTS Updates,   \* records with a time, and whatever tells two apart
          Never      \* the clock before the first snapshot

VARIABLES orderly,   \* whether every source keeps the order of time
          clock,     \* the instant of the last snapshot
          shown,     \* the updates in the last snapshot
          pending    \* the updates still to come

StreamVars == <<orderly, clock, shown, pending>>

StreamInit ==
  /\ orderly \in BOOLEAN
  /\ clock = Never
  /\ shown = {}
  /\ pending = {}

Show ==
  \E t \in {u.time : u \in pending} :
    /\ orderly
    /\ clock < t
    /\ \A u \in pending : t <= u.time
    /\ clock' = t
    /\ shown' = {u \in pending : u.time = t}
    /\ pending' = pending \ shown'
    /\ UNCHANGED orderly

ShowSome ==
  \E t \in {u.time : u \in pending} :
    /\ ~orderly
    /\ clock < t
    /\ clock' = t
    /\ shown' # {} /\ shown' \subseteq {u \in pending : u.time = t}
    /\ pending' \subseteq pending
    /\ UNCHANGED orderly

Lose ==
  /\ ~orderly
  /\ pending' \subseteq pending
  /\ UNCHANGED <<orderly, clock, shown>>

Subscribe ==
  /\ pending \subseteq pending'
  /\ \A u \in pending' \ pending : u \in Updates /\ (orderly => clock < u.time)
  /\ UNCHANGED <<orderly, clock, shown>>

Reopen ==
  /\ clock' = Never
  /\ shown' = {}
  /\ pending' = {}
  /\ UNCHANGED orderly

StreamNext == Show \/ ShowSome \/ Lose \/ Subscribe \/ Reopen
StreamSpec == StreamInit /\ [][StreamNext]_StreamVars
=============================================================================
