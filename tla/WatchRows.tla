------------------------------ MODULE WatchRows ------------------------------
(***************************************************************************)
(* The delta encoding of src/hs_py/watch.py as operators: how WatchState   *)
(* computes a delta grid, how WatchAccumulator merges one, how a filter    *)
(* thins a grid out.                                                       *)
(*                                                                         *)
(* A grid is a function from entities to rows, None where the entity has   *)
(* no row; a row is a function from tags to values, Absent where the row   *)
(* does not have the tag. The id of a row is the entity it belongs to.     *)
(***************************************************************************)
CONSTANTS
  Entity,      \* Ref.val of the entities
  Tag,         \* tag names other than "id" and "_removed"
  Val,         \* values of tags
  Absent,      \* the row does not have the tag
  REMOVE,      \* kinds.REMOVE
  None,        \* no such entity, no such row
  RemovedRow,  \* the row {"id": ..., "_removed": MARKER}
  FilterTag,   \* the tag the filter tests
  FilterVals   \* the values of it that the filter accepts

Dict == [Tag -> Val \union {Absent}]
DeltaRow == [Tag -> Val \union {Absent, REMOVE}]

State == [Entity -> {None} \union Dict]
Delta == [Entity -> {None, RemovedRow} \union DeltaRow]

ASSUME MarkersAreDistinct ==
  /\ Absent \notin Val
  /\ REMOVE \notin Val \union {Absent}
  /\ None # RemovedRow
  /\ \A row \in DeltaRow : row # None /\ row # RemovedRow
  /\ \A grid \in State : grid # None

ASSUME FilterAssumption ==
  FilterTag \in Tag /\ FilterVals \subseteq Val \union {Absent, REMOVE}

IdOnly == [t \in Tag |-> Absent]
NoRows == [e \in Entity |-> None]

\* compute_delta, the loops over the tags of one entity.
TagDiffNoRemove(cached, row) ==  \* mutant: only tags of the row are compared
  [t \in Tag |-> IF row[t] = cached[t] THEN Absent ELSE row[t]]

TagDiff(cached, row) ==
  [t \in Tag |-> IF row[t] = cached[t] THEN Absent
                 ELSE IF row[t] = Absent THEN REMOVE ELSE row[t]]

\* compute_delta, one entity: new entities in full, changed ones by tag, no
\* row where nothing changed, a removed row where the entity is gone.
DeltaRowFor(cached, row) ==
  IF row = None THEN IF cached = None THEN None ELSE RemovedRow
  ELSE IF cached = None THEN row
  ELSE IF TagDiff(cached, row) = IdOnly THEN None ELSE TagDiff(cached, row)

ComputeDelta(cache, current) ==
  [e \in Entity |-> DeltaRowFor(cache[e], current[e])]

\* WatchState.update: the cache becomes a copy of the current grid.
Update(cache, current) ==
  [e \in Entity |-> IF current[e] # None THEN current[e] ELSE None]

\* apply_delta, the loop over the tags of one row.

MergeTags(entity, row) ==
  [t \in Tag |-> IF row[t] = REMOVE THEN Absent
                 ELSE IF row[t] = Absent THEN entity[t] ELSE row[t]]

\* apply_delta, one row.
ApplyRow(entity, row) ==
  IF row = None THEN entity
  ELSE IF row = RemovedRow THEN None
  ELSE MergeTags(IF entity = None THEN IdOnly ELSE entity, row)

ApplyDelta(accumulated, delta) ==
  [e \in Entity |-> ApplyRow(accumulated[e], delta[e])]

\* apply_filter. A removed row has none of the tags a filter tests.
Matches(row) ==
  IF row = RemovedRow THEN Absent \in FilterVals ELSE row[FilterTag] \in FilterVals

ApplyFilter(grid) ==
  [e \in Entity |-> IF grid[e] # None /\ Matches(grid[e]) THEN grid[e] ELSE None]

=============================================================================
