\* Two entities, three changes, two deltas on the wire, the filter "t1 > v1" applied
\* to the current grid, as in tests/test_watch.py; three inner clients, so that two
\* may be left behind, and a delay that reaches its limit after three attempts; one
\* push and one answer at a time, of two or three chunks, on two keys, with a wire
\* that takes one frame.  No symmetry, since liveness is checked.
CONSTANTS
  v1 = v1
  v2 = v2
  Entity = {e1, e2}
  Tag = {t1, t2}
  Val = {v1, v2}
  Absent = Absent
  REMOVE = REMOVE
  None = None
  RemovedRow = RemovedRow
  FilterTag = t1
  FilterVals <- GreaterThan
  FilterStage = "current"
  MaxQueue = 2
  MaxChanges = 3
  Client = {c1, c2, c3}
  Callback = {cb1, cb2}
  MinDelay = 1
  MaxDelay = 6
  Pusher = {p1}
  Key = {k0, k1}
  PushKey = k0
  Total = {2, 3}
  Ttl = 1
  Period = 0
  MaxWire = 1
  MaxTransfers = 3
SPECIFICATION PushesSpec
INVARIANTS AccumulatorIsSnapshot OneReceiver StopEndsAll
PROPERTIES Converges StopReturns Reconnects Arrives
CHECK_DEADLOCK FALSE
