--------------------------- MODULE WatchPollClient ---------------------------
(***************************************************************************)
(* The WebSocket workflow of docs/guide/watch-guide.rst:243-263: the       *)
(* holder of a watch of the in-memory adapter merges the rows that         *)
(* watch_sub and watch_poll return into a WatchAccumulator                 *)
(* (src/hs_py/watch.py). The adapter returns whole entity dicts, while     *)
(* apply_delta merges tag by tag and deletes only the tags a row names     *)
(* with REMOVE, which a stored dict never does.                            *)
(***************************************************************************)
EXTENDS InMemoryAdapter

VARIABLE acc  \* WatchAccumulator._entities of the holder of each watch

pvars == <<vars, acc>>

Nothing == [e \in Entity |-> None]

PInit == Init /\ acc = [w \in WatchId |-> Nothing]

\* apply_delta of rows that are whole dicts: the row of an entity not known
\* yet is taken over, that of a known one is merged into it.
RowsSetOnce(accumulated, es) ==  \* mutant: a known entity is left as it is
  [e \in Entity |-> IF e \in es /\ accumulated[e] = None THEN entities[e]
                    ELSE accumulated[e]]

ApplyRows(accumulated, es) ==
  [e \in Entity |->
     IF e \notin es THEN accumulated[e]
     ELSE IF accumulated[e] = None THEN entities[e] ELSE accumulated[e] \union entities[e]]

\* The rows of an answer are those of the entities that exist.
Merge(w, es) == acc' = [acc EXCEPT ![w] = ApplyRows(@, es \intersect Known)]

\* The holder of a new watch starts from an empty accumulator.
Subscribe(w, es) ==
  \/ /\ NewWatch(w, es)
     /\ acc' = [acc EXCEPT ![w] = ApplyRows(Nothing, es \intersect Known)]
  \/ ExtendWatch(w, es) /\ Merge(w, ids'[w])

PNext ==
  \/ \E w \in WatchId, es \in SUBSET Entity : Subscribe(w, es)
  \/ \E w \in WatchId, refresh \in BOOLEAN : WatchPoll(w, refresh) /\ Merge(w, Polled(w, refresh))
  \/ Other /\ UNCHANGED acc

PSpec == PInit /\ [][PNext]_pvars

\* The embedder marks what it loads, and a holder that keeps its watch polls it.
PFairSpec ==
  /\ PSpec
  /\ \A e \in Entity : WF_pvars(e \in unmarked /\ MarkDirty(e) /\ UNCHANGED acc)
  /\ \A w \in WatchId :
       WF_pvars(WatchPoll(w, FALSE) /\ Merge(w, Polled(w, FALSE)))

-----------------------------------------------------------------------------
\* An entity that no change is pending for.
Settled(w, e) == w \in watches /\ e \in ids[w] /\ e \notin dirty[w] \union unmarked

\* A settled entity that exists is in the accumulator with every tag it now
\* has, whatever was loaded, polled, dropped and subscribed to again before
\* (watch_sub, watch_poll and apply_delta together).
NoTagMissing ==
  \A w \in WatchId, e \in Entity :
    Settled(w, e) /\ entities[e] # None =>
      acc[w][e] # None /\ entities[e] \subseteq acc[w][e]

=============================================================================
