---------------------------- MODULE MCPushes_proofs ----------------------------
(***************************************************************************)
(* Proofs about the deltas of a watch (WatchRows, WatchDelta), for every   *)
(* set of entities, tags and values, every filter and every bound, and     *)
(* about the client that reconnects, for every set of inner clients and    *)
(* callbacks and every pair of delays, as a part of the specification      *)
(* that the run "pushes" checks.                                           *)
(***************************************************************************)
EXTENDS MCPushes, SequenceTheorems, TLAPS

-----------------------------------------------------------------------------
(* The delta encoding                                                      *)

LEMMA IdOnlyIsDict == IdOnly \in Dict
BY DEF IdOnly, Dict

\* What compute_delta says of one entity brings the client's copy of the cached
\* row to the current row.
LEMMA RowRoundTrip ==
  ASSUME NEW cached \in {None} \union Dict, NEW row \in {None} \union Dict
  PROVE  /\ ApplyRow(cached, DeltaRowFor(cached, row)) = row
         /\ DeltaRowFor(cached, row) = None => cached = row
         /\ DeltaRowFor(cached, row) \in {None, RemovedRow} \union DeltaRow
<1> USE MarkersAreDistinct
<1>0. Dict \subseteq DeltaRow
  BY DEF Dict, DeltaRow
<1>1. CASE row = None
  BY <1>0, <1>1 DEF DeltaRowFor, ApplyRow
<1>2. CASE row # None /\ cached = None
  <2>1. row \in Dict /\ row # RemovedRow
    BY <1>0, <1>2
  <2>2. MergeTags(IdOnly, row) = row
    BY <2>1 DEF MergeTags, IdOnly, Dict
  <2>3. DeltaRowFor(cached, row) = row
    BY <1>2 DEF DeltaRowFor
  <2>4. ApplyRow(cached, row) = MergeTags(IdOnly, row)
    BY <1>2, <2>1 DEF ApplyRow
  <2>5. QED
    BY <1>0, <1>2, <2>1, <2>2, <2>3, <2>4
<1>3. CASE row # None /\ cached # None
  <2>1. row \in Dict /\ cached \in Dict
    BY <1>3
  <2>2. TagDiff(cached, row) \in DeltaRow
    BY <2>1 DEF TagDiff, Dict, DeltaRow
  <2>3. MergeTags(cached, TagDiff(cached, row)) = row
    <3>1. \A t \in Tag : MergeTags(cached, TagDiff(cached, row))[t] = row[t]
      BY <2>1 DEF MergeTags, TagDiff, Dict
    <3>2. MergeTags(cached, TagDiff(cached, row)) \in [Tag -> Val \union {Absent, REMOVE}]
      BY <2>1 DEF MergeTags, TagDiff, Dict
    <3>3. QED
      BY <2>1, <3>1, <3>2 DEF Dict
  <2>4. CASE TagDiff(cached, row) = IdOnly
    <3>1. \A t \in Tag : row[t] = cached[t]
      BY <2>1, <2>4 DEF TagDiff, IdOnly, Dict
    <3>2. row = cached
      BY <2>1, <3>1 DEF Dict
    <3>3. DeltaRowFor(cached, row) = None
      BY <1>3, <2>4 DEF DeltaRowFor
    <3>4. QED
      BY <3>2, <3>3 DEF ApplyRow
  <2>5. CASE TagDiff(cached, row) # IdOnly
    <3>1. DeltaRowFor(cached, row) = TagDiff(cached, row)
      BY <1>3, <2>5 DEF DeltaRowFor
    <3>2. TagDiff(cached, row) # None /\ TagDiff(cached, row) # RemovedRow
      BY <2>2
    <3>3. ApplyRow(cached, TagDiff(cached, row)) = MergeTags(cached, TagDiff(cached, row))
      BY <1>3, <3>2 DEF ApplyRow
    <3>4. QED
      BY <2>2, <2>3, <3>1, <3>2, <3>3
  <2>6. QED
    BY <2>4, <2>5
<1>4. QED
  BY <1>1, <1>2, <1>3

\* Merging the delta computed from two grids into the first gives the second,
\* and a delta without rows means that nothing changed (compute_delta and
\* apply_delta).
THEOREM DeltaRoundTrip ==
  ASSUME NEW cached \in State, NEW current \in State
  PROVE  /\ ComputeDelta(cached, current) \in Delta
         /\ ApplyDelta(cached, ComputeDelta(cached, current)) = current
         /\ ComputeDelta(cached, current) = NoRows => cached = current
<1> DEFINE delta == ComputeDelta(cached, current)
<1>1. \A e \in Entity : /\ cached[e] \in {None} \union Dict
                        /\ current[e] \in {None} \union Dict
  BY DEF State
<1>2. \A e \in Entity : delta[e] = DeltaRowFor(cached[e], current[e])
  BY DEF ComputeDelta
<1>3. delta \in Delta
  BY <1>1, RowRoundTrip DEF ComputeDelta, Delta
<1>4. ApplyDelta(cached, delta) = current
  <2>1. ASSUME NEW e \in Entity PROVE ApplyRow(cached[e], delta[e]) = current[e]
    <3> HIDE DEF delta
    <3>1. cached[e] \in {None} \union Dict /\ current[e] \in {None} \union Dict
      BY <1>1
    <3>2. ApplyRow(cached[e], DeltaRowFor(cached[e], current[e])) = current[e]
      BY <3>1, RowRoundTrip
    <3>3. QED
      BY <1>2, <3>2
  <2>2. ApplyDelta(cached, delta) = [e \in Entity |-> current[e]]
    BY <2>1 DEF ApplyDelta
  <2>3. QED
    BY <2>2 DEF State
<1>5. ASSUME delta = NoRows PROVE cached = current
  <2>1. ASSUME NEW e \in Entity PROVE cached[e] = current[e]
    <3> HIDE DEF delta
    <3>1. cached[e] \in {None} \union Dict /\ current[e] \in {None} \union Dict
      BY <1>1
    <3>2. DeltaRowFor(cached[e], current[e]) = None
      BY <1>2, <1>5 DEF NoRows
    <3>3. QED
      BY <3>1, <3>2, RowRoundTrip
  <2>2. QED
    BY <2>1 DEF State
<1>6. QED
  BY <1>3, <1>4, <1>5

\* update leaves the current grid in the cache.
LEMMA UpdateIsCopy ==
  ASSUME NEW cached, NEW current \in State
  PROVE  Update(cached, current) = current
BY DEF Update, State

LEMMA FilterKeepsState ==
  ASSUME NEW grid \in State
  PROVE  ApplyFilter(grid) \in State
BY DEF ApplyFilter, State

LEMMA ApplyDeltaKeepsState ==
  ASSUME NEW accumulated \in State, NEW delta \in Delta
  PROVE  ApplyDelta(accumulated, delta) \in State
<1> USE MarkersAreDistinct
<1>1. ASSUME NEW e \in Entity
      PROVE  ApplyRow(accumulated[e], delta[e]) \in {None} \union Dict
  <2>1. accumulated[e] \in {None} \union Dict /\ delta[e] \in {None, RemovedRow} \union DeltaRow
    BY DEF State, Delta
  <2>2. \A entity \in Dict, row \in DeltaRow : MergeTags(entity, row) \in Dict
    BY DEF MergeTags, Dict, DeltaRow
  <2>3. QED
    BY <2>1, <2>2, IdOnlyIsDict DEF ApplyRow
<1>2. QED
  BY <1>1 DEF ApplyDelta, State

LEMMA FilterKeepsDelta ==
  ASSUME NEW grid \in Delta
  PROVE  ApplyFilter(grid) \in Delta
BY DEF ApplyFilter, Delta

-----------------------------------------------------------------------------
(* The protocol                                                            *)

LEMMA NoRowsIsState == NoRows \in State
BY DEF NoRows, State

LEMMA FilteredCurrentIsState == live \in State => FilteredCurrent \in State
BY FilterKeepsState DEF FilteredCurrent

LEMMA PushedDeltaIsDelta ==
  live \in State /\ cache \in State => PushedDelta \in Delta
BY FilteredCurrentIsState, DeltaRoundTrip, FilterKeepsDelta DEF PushedDelta

\* The variables of WatchDelta keep their types.
THEOREM TypeCorrect == Spec => []TypeOK
<1>1. Init => TypeOK
  BY NoRowsIsState DEF Init, TypeOK
<1>2. TypeOK /\ [Next]_vars => TypeOK'
  <2> SUFFICES ASSUME TypeOK, [Next]_vars PROVE TypeOK'
    OBVIOUS
  <2> USE DEF TypeOK
  <2>1. ASSUME NEW e \in Entity, NEW d \in {None} \union Dict, Change(e, d) PROVE TypeOK'
    BY <2>1 DEF Change, State
  <2>2. CASE Push
    <3>1. /\ queue' \in Seq(Delta)
          /\ promised' \in Seq(State)
          /\ Len(promised') = Len(queue')
      <4>1. PushedDelta \in Delta /\ ApplyFilter(live) \in State
        BY PushedDeltaIsDelta, FilterKeepsState
      <4>2. CASE PushedDelta = NoRows
        BY <2>2, <4>2 DEF Push
      <4>3. CASE PushedDelta # NoRows
        BY <2>2, <4>1, <4>3 DEF Push
      <4>4. QED
        BY <4>2, <4>3
    <3>2. pushing' \in State /\ UNCHANGED <<live, changes, cache, acc, shown>>
      BY <2>2, FilteredCurrentIsState DEF Push
    <3>3. QED
      BY <3>1, <3>2
  <2>3. CASE FinishPush
    <3>1. pushing \in State
      BY <2>3 DEF FinishPush
    <3>2. QED
      BY <2>3, <3>1, UpdateIsCopy DEF FinishPush, CacheAfterPush
  <2>4. CASE Receive
    <3>1. promised # <<>>
      BY <2>4 DEF Receive
    <3>2. /\ Head(queue) \in Delta /\ Tail(queue) \in Seq(Delta)
          /\ Head(promised) \in State /\ Tail(promised) \in Seq(State)
          /\ Len(Tail(promised)) = Len(Tail(queue))
      BY <2>4, <3>1 DEF Receive
    <3>3. QED
      BY <2>4, <3>2, ApplyDeltaKeepsState DEF Receive
  <2>5. CASE Reconnect
    BY <2>5, NoRowsIsState DEF Reconnect
  <2>6. CASE UNCHANGED vars
    BY <2>6 DEF vars
  <2>7. QED
    BY <2>1, <2>2, <2>3, <2>4, <2>5, <2>6 DEF Next
<1>3. QED
  BY <1>1, <1>2, PTL DEF Spec

\* The chain survives each step, when the filter is applied to the current grid.
LEMMA ChainIsInductive ==
  ASSUME FilterStage = "current", TypeOK, TypeOK', acc = shown, Chain, [Next]_vars
  PROVE  (acc = shown)' /\ Chain'
<1> USE DEF TypeOK
<1>1. ASSUME NEW e \in Entity, NEW d \in {None} \union Dict, Change(e, d)
      PROVE  (acc = shown)' /\ Chain'
  BY <1>1 DEF Change, Chain, Base, Before
<1>2. CASE Push
  <2>1. /\ PushedDelta = ComputeDelta(cache, FilteredCurrent)
        /\ FilteredCurrent = ApplyFilter(live)
        /\ FilteredCurrent \in State
    BY FilteredCurrentIsState DEF PushedDelta, FilteredCurrent
  <2>2. /\ ApplyDelta(cache, PushedDelta) = FilteredCurrent
        /\ PushedDelta = NoRows => cache = FilteredCurrent
    BY <2>1, DeltaRoundTrip
  <2>3. Base = cache /\ Base' = FilteredCurrent
    <3>1. FilteredCurrent # None
      BY <2>1, MarkersAreDistinct
    <3>2. QED
      BY <1>2, <3>1 DEF Push, Base
  <2>4. CASE PushedDelta = NoRows
    BY <1>2, <2>2, <2>3, <2>4 DEF Push, Chain, Before
  <2>5. CASE PushedDelta # NoRows
    <3>1. /\ queue' = Append(queue, PushedDelta)
          /\ promised' = Append(promised, FilteredCurrent)
          /\ UNCHANGED <<acc, shown>>
      BY <1>2, <2>1, <2>5 DEF Push
    <3>2. Len(queue') = Len(queue) + 1
      BY <3>1
    <3>3. ASSUME NEW i \in 1 .. Len(queue) + 1
          PROVE  /\ Before(i)' = Before(i)
                 /\ i # Len(queue) + 1 => queue'[i] = queue[i] /\ promised'[i] = promised[i]
                 /\ i = Len(queue) + 1 => queue'[i] = PushedDelta /\ promised'[i] = FilteredCurrent
      BY <3>1 DEF Before
    <3>4. ASSUME NEW i \in 1 .. Len(queue')
          PROVE  ApplyDelta(Before(i), queue[i])' = promised'[i]
      <4>1. CASE i # Len(queue) + 1
        BY <3>2, <3>3, <4>1 DEF Chain
      <4>2. CASE i = Len(queue) + 1
        <5>1. Before(i) = cache
          BY <2>3, <4>2 DEF Chain
        <5>2. Before(i)' = cache /\ queue'[i] = PushedDelta /\ promised'[i] = FilteredCurrent
          BY <3>2, <3>3, <3>4, <5>1, <4>2
        <5>3. QED
          BY ONLY <2>2, <5>2
      <4>3. QED
        BY <4>1, <4>2
    <3>5. ASSUME NEW i \in 1 .. Len(queue') + 1, i = Len(queue') + 1
          PROVE  Before(i)' = Base'
      <4>1. i - 1 = Len(queue) + 1 /\ i - 1 \in 1 .. Len(queue) + 1 /\ i # 1
        BY <3>2, <3>5
      <4>2. promised'[i - 1] = FilteredCurrent
        BY <3>3, <4>1
      <4>3. QED
        BY <2>3, <4>1, <4>2 DEF Before
    <3>6. QED
      BY <3>1, <3>4, <3>5 DEF Chain
  <2>6. QED
    BY <2>4, <2>5
<1>3. CASE FinishPush
  <2>1. Base' = Base
    <3>1. pushing \in State
      BY <1>3 DEF FinishPush
    <3>2. QED
      BY <1>3, <3>1, UpdateIsCopy DEF FinishPush, CacheAfterPush, Base
  <2>2. QED
    BY <1>3, <2>1 DEF FinishPush, Chain, Before
<1>4. CASE Receive
  <2>1. /\ queue # <<>> /\ promised # <<>>
        /\ acc' = ApplyDelta(acc, queue[1]) /\ shown' = promised[1]
        /\ queue' = Tail(queue) /\ promised' = Tail(promised)
        /\ Base' = Base
    BY <1>4 DEF Receive, Base
  <2>2. acc' = promised[1] /\ shown' = promised[1]
    BY <2>1 DEF Chain, Before
  <2>3. /\ Len(queue') = Len(queue) - 1
        /\ \A i \in 1 .. Len(queue') : queue'[i] = queue[i + 1] /\ promised'[i] = promised[i + 1]
    BY <2>1
  <2>4. ASSUME NEW i \in 1 .. Len(queue)
        PROVE  Before(i)' = Before(i + 1)
    BY <2>1, <2>2, <2>3 DEF Before
  <2>5. ASSUME NEW i \in 1 .. Len(queue')
        PROVE  ApplyDelta(Before(i), queue[i])' = promised'[i]
    <3>1. i \in 1 .. Len(queue) /\ i + 1 \in 1 .. Len(queue)
      BY <2>1, <2>3
    <3>2. ApplyDelta(Before(i + 1), queue[i + 1]) = promised[i + 1]
      BY <3>1 DEF Chain
    <3>3. Before(i)' = Before(i + 1)
      BY <2>4, <3>1
    <3>4. queue'[i] = queue[i + 1] /\ promised'[i] = promised[i + 1]
      BY <2>3
    <3>5. QED
      BY <3>2, <3>3, <3>4
  <2>6. ASSUME NEW i \in 1 .. Len(queue') + 1, i = Len(queue') + 1
        PROVE  Before(i)' = Base'
    <3>1. i = Len(queue) /\ i \in 1 .. Len(queue) /\ i + 1 \in 1 .. Len(queue) + 1
      BY <2>1, <2>3, <2>6
    <3>2. Before(i)' = Before(i + 1)
      BY <2>4, <3>1
    <3>3. Before(i + 1) = Base
      BY <3>1 DEF Chain
    <3>4. QED
      BY <2>1, <3>2, <3>3
  <2>7. QED
    BY <2>2, <2>5, <2>6 DEF Chain
<1>5. CASE Reconnect
  BY <1>5 DEF Reconnect, Chain, Before, Base
<1>6. CASE UNCHANGED vars
  BY <1>6 DEF vars, Chain, Before, Base
<1>7. QED
  BY <1>1, <1>2, <1>3, <1>4, <1>5, <1>6 DEF Next

\* When the filter is applied to the current grid, as the tests do, every delta
\* takes the accumulator exactly to the grid the server computed it from.
THEOREM SnapshotCorrect ==
  ASSUME FilterStage = "current"
  PROVE  Spec => []AccumulatorIsSnapshot
<1>1. Init => acc = shown /\ Chain
  BY DEF Init, Chain, Before, Base
<1>2. TypeOK /\ TypeOK' /\ acc = shown /\ Chain /\ [Next]_vars => (acc = shown)' /\ Chain'
  BY ChainIsInductive
<1>3. QED
  BY <1>1, <1>2, TypeCorrect, PTL DEF Spec, AccumulatorIsSnapshot

-----------------------------------------------------------------------------
(* The client that reconnects                                              *)

\* Where the task of the loop has a connection of its own, and where it has none.
Holding == {"onConnect", "recv", "close"}
Apart == {"connect", "onDisconnect", "sleep"}

\* What the wait of the loop says of its client and of _inner: outside of a
\* connection nothing receives but what on_connect left behind.
LoopInv ==
  /\ pc \in Reconnecting!Wait
  /\ receiving \in SUBSET Client
  /\ pc \in Holding => inner = client /\ receiving \ raised \subseteq {client}
  /\ pc \in Apart => inner = None
  /\ pc \notin Holding => receiving \subseteq raised

\* How far stop() is: until the loop is over it is cancelled, or it closes its
\* client; _inner outlives the loop only while stop() is there to close it.
StopInv ==
  /\ stopper \in {"none", "cancel", "join", "close"}
  /\ stopper # "none" => stopping
  /\ stopping =>
       /\ ~ connected
       /\ \/ pc = "none" \/ stopper = "cancel"
          \/ stopper = "join" /\ pc \in {"close", "onDisconnect"}
  /\ stopper = "cancel" => pc # "none"
  /\ stopper = "close" => pc = "none"
  /\ pc = "none" /\ stopper = "none" => inner = None

ClientInv == LoopInv /\ StopInv

\* The actions as one disjunction, for the proofs by cases below.
LEMMA ClientNextCases ==
  ASSUME [Reconnecting!Next]_clientVars
  PROVE  \/ Reconnecting!Start \/ Reconnecting!Stop
         \/ \E cb \in Callback : Reconnecting!OnWatchPush(cb)
         \/ \E c \in Client : Reconnecting!Drops(c)
         \/ \E c \in Client : Reconnecting!Connects(c)
         \/ Reconnecting!Refused \/ Reconnecting!OnConnectReturns \/ Reconnecting!OnConnectRaises \/ Reconnecting!RecvEnds \/ Reconnecting!Closes
         \/ Reconnecting!OnDisconnectEnds \/ Reconnecting!Sleeps
         \/ Reconnecting!CancelledInTry \/ Reconnecting!CancelledReceiver \/ Reconnecting!CancelledOutside \/ Reconnecting!Joined \/ Reconnecting!StopCloses
         \/ UNCHANGED clientVars
BY DEF Reconnecting!Next

LEMMA ClientInitInv == Reconnecting!Init => ClientInv
BY DEF Reconnecting!Init, ClientInv, LoopInv, StopInv, Reconnecting!Wait, Holding, Apart

\* A step of the user or of the network.
LEMMA UserSteps ==
  ASSUME ClientInv,
         \/ Reconnecting!Start \/ Reconnecting!Stop \/ \E cb \in Callback : Reconnecting!OnWatchPush(cb)
         \/ UNCHANGED clientVars \/ \E c \in Client : Reconnecting!Drops(c)
  PROVE  ClientInv'
<1> USE DEF ClientInv, LoopInv, StopInv, Reconnecting!Wait, Holding, Apart
<1>1. CASE Reconnecting!Start
  BY <1>1 DEF Reconnecting!Start, Reconnecting!user
<1>2. CASE Reconnecting!Stop
  BY <1>2 DEF Reconnecting!Stop, Reconnecting!user
<1>3. CASE \E cb \in Callback : Reconnecting!OnWatchPush(cb)
  BY <1>3 DEF Reconnecting!OnWatchPush
<1>4. ASSUME NEW c \in Client, Reconnecting!Drops(c) PROVE ClientInv'
  BY <1>4 DEF Reconnecting!Drops, Reconnecting!user
<1>5. CASE UNCHANGED clientVars
  BY <1>5 DEF clientVars
<1>6. QED
  BY <1>1, <1>2, <1>3, <1>4, <1>5

\* A step of the loop that no cancellation meets.
LEMMA LoopSteps ==
  ASSUME ClientInv,
         \/ \E c \in Client : Reconnecting!Connects(c)
         \/ Reconnecting!Refused \/ Reconnecting!OnConnectReturns \/ Reconnecting!OnConnectRaises \/ Reconnecting!RecvEnds \/ Reconnecting!Closes
         \/ Reconnecting!OnDisconnectEnds \/ Reconnecting!Sleeps
  PROVE  ClientInv'
<1> USE DEF ClientInv, LoopInv, StopInv, Reconnecting!Wait, Holding, Apart, Reconnecting!Waits
\* With a cancellation out of the way, a loop that runs on is not stopping.
<1>1. pc \in {"connect", "onConnect", "recv", "sleep"} /\ stopper # "cancel" => ~ stopping
  OBVIOUS
<1>2. ASSUME NEW c \in Client, Reconnecting!Connects(c) PROVE ClientInv'
  BY <1>1, <1>2 DEF Reconnecting!Connects
<1>3. CASE Reconnecting!Refused
  BY <1>1, <1>3 DEF Reconnecting!Refused, Reconnecting!Disconnected, Reconnecting!user
<1>4. CASE Reconnecting!OnConnectReturns
  BY <1>1, <1>4 DEF Reconnecting!OnConnectReturns, Reconnecting!user
<1>5. CASE Reconnecting!OnConnectRaises
  BY <1>1, <1>5 DEF Reconnecting!OnConnectRaises, Reconnecting!Disconnected, Reconnecting!user
<1>6. CASE Reconnecting!RecvEnds
  BY <1>1, <1>6 DEF Reconnecting!RecvEnds, Reconnecting!ConnectionLost, Reconnecting!Disconnected, Reconnecting!user
<1>7. CASE Reconnecting!Closes
  BY <1>7 DEF Reconnecting!Closes, Reconnecting!Disconnected, Reconnecting!user
<1>8. CASE Reconnecting!OnDisconnectEnds
  BY <1>8 DEF Reconnecting!OnDisconnectEnds, Reconnecting!AfterDisconnect, Reconnecting!user
<1>9. CASE Reconnecting!Sleeps
  BY <1>1, <1>9 DEF Reconnecting!Sleeps, Reconnecting!user
<1>10. QED
  BY <1>2, <1>3, <1>4, <1>5, <1>6, <1>7, <1>8, <1>9

\* A step of stop(), or a cancellation that finds the loop.
LEMMA StopSteps ==
  ASSUME ClientInv,
         Reconnecting!CancelledInTry \/ Reconnecting!CancelledReceiver \/ Reconnecting!CancelledOutside \/ Reconnecting!Joined \/ Reconnecting!StopCloses
  PROVE  ClientInv'
<1> USE DEF ClientInv, LoopInv, StopInv, Reconnecting!Wait, Holding, Apart
<1>1. CASE Reconnecting!CancelledInTry
  BY <1>1 DEF Reconnecting!CancelledInTry, Reconnecting!user
<1>2. CASE Reconnecting!CancelledReceiver
  BY <1>2 DEF Reconnecting!CancelledReceiver, Reconnecting!user
<1>3. CASE Reconnecting!CancelledOutside
  BY <1>3 DEF Reconnecting!CancelledOutside, Reconnecting!user
<1>4. CASE Reconnecting!Joined
  BY <1>4 DEF Reconnecting!Joined, Reconnecting!LoopOver, Reconnecting!user
<1>5. CASE Reconnecting!StopCloses
  BY <1>5 DEF Reconnecting!StopCloses, Reconnecting!user
<1>6. QED
  BY <1>1, <1>2, <1>3, <1>4, <1>5

LEMMA ClientNextInv == ClientInv /\ [Reconnecting!Next]_clientVars => ClientInv'
<1> SUFFICES ASSUME ClientInv, [Reconnecting!Next]_clientVars PROVE ClientInv'
  OBVIOUS
<1>1. CASE \/ Reconnecting!Start \/ Reconnecting!Stop \/ \E cb \in Callback : Reconnecting!OnWatchPush(cb)
           \/ UNCHANGED clientVars \/ \E c \in Client : Reconnecting!Drops(c)
  BY <1>1, UserSteps
<1>2. CASE \/ \E c \in Client : Reconnecting!Connects(c)
           \/ Reconnecting!Refused \/ Reconnecting!OnConnectReturns \/ Reconnecting!OnConnectRaises \/ Reconnecting!RecvEnds \/ Reconnecting!Closes
           \/ Reconnecting!OnDisconnectEnds \/ Reconnecting!Sleeps
  BY <1>2, LoopSteps
<1>3. CASE Reconnecting!CancelledInTry \/ Reconnecting!CancelledReceiver \/ Reconnecting!CancelledOutside \/ Reconnecting!Joined \/ Reconnecting!StopCloses
  BY <1>3, StopSteps
<1>4. QED
  BY ClientNextCases, <1>1, <1>2, <1>3

LEMMA ClientInvAlways == PushesSpec => []ClientInv
<1>1. PushesInit => ClientInv
  BY ClientInitInv DEF PushesInit
<1>2. ClientInv /\ [PushesNext]_allVars => ClientInv'
  <2>1. ASSUME [PushesNext]_allVars PROVE [Reconnecting!Next]_clientVars
    BY <2>1 DEF PushesNext, OfDeltas, allVars
  <2>2. QED
    BY <2>1, ClientNextInv
<1>3. QED
  BY <1>1, <1>2, PTL DEF PushesSpec

-----------------------------------------------------------------------------
\* Pushes come in over one connection at a time, but for what on_connect left
\* behind (_connect_loop).
THEOREM ReceiverCorrect == PushesSpec => []OneReceiver
<1>1. ClientInv => OneReceiver
  BY DEF ClientInv, LoopInv, OneReceiver, Reconnecting!OneReceiver
<1>2. QED
  BY ClientInvAlways, <1>1, PTL

\* Once stop() has returned the loop is over and nothing is left of the client,
\* but for what on_connect left behind (stop).
THEOREM StopCorrect == PushesSpec => []StopEndsAll
<1>1. ClientInv => StopEndsAll
  BY DEF ClientInv, LoopInv, StopInv, StopEndsAll, Reconnecting!StopEndsAll, Holding
<1>2. QED
  BY ClientInvAlways, <1>1, PTL

=============================================================================
