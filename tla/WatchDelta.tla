----------------------------- MODULE WatchDelta -----------------------------
(***************************************************************************)
(* One watch pushed as deltas (src/hs_py/watch.py, put together as in      *)
(* docs/guide/watch-guide.rst and tests/test_watch.py): the server filters *)
(* the current grid, computes the delta against the cache of WatchState,   *)
(* sends it and updates the cache; the client merges what arrives into a   *)
(* WatchAccumulator. Sending awaits, so entities change while a push is    *)
(* under way. The channel is one WebSocket: in order, nothing lost until   *)
(* it breaks; then both ends start afresh.                                 *)
(***************************************************************************)
EXTENDS WatchRows, Sequences, Naturals

CONSTANTS
  FilterStage,  \* what the filter is applied to: "current" or "delta"
  MaxQueue,     \* bound: deltas on the wire
  MaxChanges    \* bound: changes of the entities

ASSUME StageAssumption == FilterStage \in {"current", "delta"}
ASSUME BoundAssumption == MaxQueue \in Nat \ {0} /\ MaxChanges \in Nat

VARIABLES
  live,      \* the entities as they are
  changes,   \* how often they changed
  cache,     \* WatchState._cache
  pushing,   \* the current grid of the push under way, or None
  queue,     \* delta grids on the wire
  promised,  \* the grid each of them brings the client to
  acc,       \* WatchAccumulator._entities
  shown      \* the promised grid of the delta merged last

vars == <<live, changes, cache, pushing, queue, promised, acc, shown>>

TypeOK ==
  /\ live \in State
  /\ changes \in Nat
  /\ cache \in State
  /\ pushing = None \/ pushing \in State
  /\ queue \in Seq(Delta)
  /\ promised \in Seq(State) /\ Len(promised) = Len(queue)
  /\ acc \in State
  /\ shown \in State

Init ==
  /\ live = NoRows
  /\ changes = 0
  /\ cache = NoRows
  /\ pushing = None
  /\ queue = <<>>
  /\ promised = <<>>
  /\ acc = NoRows
  /\ shown = NoRows

\* An entity is written, created or deleted.
Change(e, d) ==
  /\ changes < MaxChanges
  /\ d # live[e]
  /\ live' = [live EXCEPT ![e] = d]
  /\ changes' = changes + 1
  /\ UNCHANGED <<cache, pushing, queue, promised, acc, shown>>

\* compute_delta and the send that follows. An empty delta grid is not sent.
FilteredCurrent == IF FilterStage = "current" THEN ApplyFilter(live) ELSE live

PushedDelta ==
  LET delta == ComputeDelta(cache, FilteredCurrent)
  IN  IF FilterStage = "current" THEN delta ELSE ApplyFilter(delta)

Push ==
  /\ pushing = None
  /\ Len(queue) < MaxQueue
  /\ pushing' = FilteredCurrent
  /\ IF PushedDelta = NoRows
     THEN UNCHANGED <<queue, promised>>
     ELSE /\ queue' = Append(queue, PushedDelta)
          /\ promised' = Append(promised, ApplyFilter(live))
  /\ UNCHANGED <<live, changes, cache, acc, shown>>

\* The send is over: update(current), with the grid the delta was computed from.
CacheFromLive == Update(cache, ApplyFilter(live))  \* mutant: reads the grid again
CacheAfterPush == Update(cache, pushing)

FinishPush ==
  /\ pushing # None
  /\ cache' = CacheAfterPush
  /\ pushing' = None
  /\ UNCHANGED <<live, changes, queue, promised, acc, shown>>

\* apply_delta on the delta that arrived.
Receive ==
  /\ queue # <<>>
  /\ acc' = ApplyDelta(acc, Head(queue))
  /\ queue' = Tail(queue)
  /\ shown' = Head(promised)
  /\ promised' = Tail(promised)
  /\ UNCHANGED <<live, changes, cache, pushing>>

\* The connection breaks: what is on the wire is lost, and the watch is set up
\* again with a new WatchState and a new WatchAccumulator.
Reconnect ==
  /\ cache' = NoRows
  /\ pushing' = None
  /\ queue' = <<>>
  /\ promised' = <<>>
  /\ acc' = NoRows
  /\ shown' = NoRows
  /\ UNCHANGED <<live, changes>>

Next ==
  \/ \E e \in Entity, d \in {None} \union Dict : Change(e, d)
  \/ Push
  \/ FinishPush
  \/ Receive
  \/ Reconnect

Spec == Init /\ [][Next]_vars

\* A server that pushes goes on pushing, the wire delivers, and the connection
\* does not break for ever.
FairSpec ==
  /\ Spec
  /\ WF_vars(Push) /\ WF_vars(FinishPush) /\ WF_vars(Receive)
  /\ <>[][~Reconnect]_vars

-----------------------------------------------------------------------------
(* Properties                                                              *)

\* Merging a delta takes the accumulator exactly to the filtered entities the
\* server saw when it computed that delta, however many pushes were sent before
\* it and whatever changed since (compute_delta, update and apply_delta).
AccumulatorIsSnapshot == acc = shown

\* When the entities stop changing, the accumulator becomes and stays equal to
\* the filtered entities.
Converges == <>[](acc = ApplyFilter(live))

-----------------------------------------------------------------------------
(* The inductive invariant of WatchDelta_proofs: the deltas on the wire are *)
(* links of a chain that leads from the accumulator, over the promised      *)
(* grids, to the grid the next delta will be computed against.              *)

Base == IF pushing = None THEN cache ELSE pushing

Before(i) == IF i = 1 THEN acc ELSE promised[i - 1]

Chain ==
  /\ \A i \in 1 .. Len(queue) : ApplyDelta(Before(i), queue[i]) = promised[i]
  /\ \A i \in 1 .. Len(queue) + 1 : i = Len(queue) + 1 => Before(i) = Base

=============================================================================
