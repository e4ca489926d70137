--------------------------- MODULE InMemoryAdapter ---------------------------
(***************************************************************************)
(* Entities, tag index, column cache and watches of                        *)
(* src/hs_py/storage/memory.py. Every method runs to its end without an    *)
(* await, so each is one step. An entity dict is told apart by the set of  *)
(* tags it has: a changed value is a changed dict.                         *)
(*                                                                         *)
(* unmarked and view belong to the embedding program: load_entities does   *)
(* not touch the watches, so the embedder calls mark_dirty for what it     *)
(* loaded, and the holder of a watch keeps the rows the adapter returned.  *)
(***************************************************************************)
EXTENDS FiniteSets

CONSTANTS
  Entity,    \* Ref.val of the entities
  Tag,       \* tag names
  WatchId,   \* values of "w-" + secrets.token_hex(4)
  None       \* Python's None

ASSUME NoneAssumption == \A d \in SUBSET Tag : d # None

VARIABLES
  entities,  \* _entities: the dict of each entity, or None
  tagIndex,  \* _tag_index: tag name -> set of Ref.val
  colNames,  \* _all_col_names: cached union of the tags, or None
  watches,   \* keys of _watches
  ids,       \* _WatchState.ids of each watch
  dirty,     \* _WatchState.dirty of each watch
  answer,    \* ids of the rows last returned by watch_poll
  view,      \* the dict last returned for an entity under a watch
  unmarked   \* loaded, and mark_dirty not called yet

store == <<entities, tagIndex, colNames>>
vars == <<entities, tagIndex, colNames, watches, ids, dirty, answer, view, unmarked>>

Dict == SUBSET Tag
Known == {e \in Entity : entities[e] # None}

TypeOK ==
  /\ entities \in [Entity -> {None} \union Dict]
  /\ tagIndex \in [Tag -> SUBSET Entity]
  /\ colNames \in {None} \union Dict
  /\ watches \in SUBSET WatchId
  /\ ids \in [WatchId -> SUBSET Entity]
  /\ dirty \in [WatchId -> SUBSET Entity]
  /\ answer \in [WatchId -> SUBSET Entity]
  /\ view \in [WatchId -> [Entity -> {None} \union Dict]]
  /\ unmarked \in SUBSET Entity

Init ==
  /\ entities = [e \in Entity |-> None]
  /\ tagIndex = [t \in Tag |-> {}]
  /\ colNames = None
  /\ watches = {}
  /\ ids = [w \in WatchId |-> {}]
  /\ dirty = [w \in WatchId |-> {}]
  /\ answer = [w \in WatchId |-> {}]
  /\ view = [w \in WatchId |-> [e \in Entity |-> None]]
  /\ unmarked = {}

-----------------------------------------------------------------------------
(* Bulk load and reads                                                     *)

\* load_entities, for one entity of the list: the dict is replaced, the index
\* only ever gains ids, and the column cache is dropped.
IndexSkipsReload(e, d) ==  \* mutant: only a new entity is indexed
  [t \in Tag |-> IF t \in d /\ entities[e] = None THEN tagIndex[t] \union {e} ELSE tagIndex[t]]

IndexAfterLoad(e, d) ==
  [t \in Tag |-> IF t \in d THEN tagIndex[t] \union {e} ELSE tagIndex[t]]

ColNamesAfterLoad == None

LoadEntity(e, d) ==
  /\ entities' = [entities EXCEPT ![e] = d]
  /\ tagIndex' = IndexAfterLoad(e, d)
  /\ colNames' = ColNamesAfterLoad
  /\ unmarked' = unmarked \union {e}
  /\ UNCHANGED <<watches, ids, dirty, answer, view>>

\* The property all_col_names: computed on first use, then served as it is.
AllColNames == UNION {entities[e] : e \in Known}

ReadColNames ==
  /\ colNames' = IF colNames = None THEN AllColNames ELSE colNames
  /\ UNCHANGED <<entities, tagIndex, watches, ids, dirty, answer, view, unmarked>>

\* read_by_filter for Has(tag): the fast path takes the tag index's word, the
\* general path evaluates the filter against every entity.
HasByIndex(t) == {e \in tagIndex[t] : entities[e] # None}
HasByEvaluation(t) == {e \in Known : t \in entities[e]}

-----------------------------------------------------------------------------
(* Watches                                                                 *)

\* Rows the holder of w receives for the entities es.
Returned(w, es) ==
  view' = [view EXCEPT ![w] = [e \in Entity |->
             IF e \in es \intersect Known THEN entities[e] ELSE @[e]]]

\* watch_sub: None or an id that is not there creates a watch under a new id;
\* all entities of the watch are returned, the new ones and the earlier ones.
NewWatch(w, es) ==
  /\ w \notin watches
  /\ watches' = watches \union {w}
  /\ ids' = [ids EXCEPT ![w] = es]
  /\ Returned(w, es)
  /\ UNCHANGED <<store, dirty, answer, unmarked>>

ExtendWatch(w, es) ==
  /\ w \in watches
  /\ ids' = [ids EXCEPT ![w] = @ \union es]
  /\ Returned(w, ids'[w])
  /\ UNCHANGED <<store, watches, dirty, answer, unmarked>>

\* watch_unsub(close=False): drops the ids and what was dirty of them.
DirtyAfterUnsub(w, es) == [dirty EXCEPT ![w] = @ \ es]

WatchUnsub(w, es) ==
  /\ w \in watches
  /\ ids' = [ids EXCEPT ![w] = @ \ es]
  /\ dirty' = DirtyAfterUnsub(w, es)
  /\ view' = [view EXCEPT ![w] = [e \in Entity |-> IF e \in es THEN None ELSE @[e]]]
  /\ UNCHANGED <<store, watches, answer, unmarked>>

\* watch_unsub(close=True)
WatchClose(w) ==
  /\ w \in watches
  /\ watches' = watches \ {w}
  /\ ids' = [ids EXCEPT ![w] = {}]
  /\ dirty' = [dirty EXCEPT ![w] = {}]
  /\ view' = [view EXCEPT ![w] = [e \in Entity |-> None]]
  /\ UNCHANGED <<store, answer, unmarked>>

\* watch_poll: the dirty ids, or every id when refresh is asked; the dirty set
\* is cleared either way.
DirtyNotCleared(w) == dirty  \* mutant: clears nothing
DirtyAfterPoll(w) == [dirty EXCEPT ![w] = {}]

PolledAlways(w, refresh) == {}  \* mutant: answers nothing, clears all the same
Polled(w, refresh) == IF refresh THEN ids[w] ELSE dirty[w] \intersect ids[w]

WatchPoll(w, refresh) ==
  /\ w \in watches
  /\ Returned(w, Polled(w, refresh))
  /\ answer' = [answer EXCEPT ![w] = Polled(w, refresh) \intersect Known]
  /\ dirty' = DirtyAfterPoll(w)
  /\ UNCHANGED <<store, watches, ids, unmarked>>

\* mark_dirty, called by the embedder.
MarkNone(e) == dirty  \* mutant: nothing is marked
DirtyAfterMark(e) ==
  [w \in WatchId |-> IF w \in watches /\ e \in ids[w]
                     THEN dirty[w] \union {e} ELSE dirty[w]]

MarkDirty(e) ==
  /\ dirty' = DirtyAfterMark(e)
  /\ unmarked' = unmarked \ {e}
  /\ UNCHANGED <<store, watches, ids, answer, view>>

\* What does not answer the holder of a watch.
Other ==
  \/ \E e \in Entity, d \in Dict : LoadEntity(e, d)
  \/ ReadColNames
  \/ \E w \in WatchId, es \in SUBSET Entity : WatchUnsub(w, es)
  \/ \E w \in WatchId : WatchClose(w)
  \/ \E e \in Entity : MarkDirty(e)

Next ==
  \/ Other
  \/ \E w \in WatchId, es \in SUBSET Entity : NewWatch(w, es) \/ ExtendWatch(w, es)
  \/ \E w \in WatchId, refresh \in BOOLEAN : WatchPoll(w, refresh)

Spec == Init /\ [][Next]_vars

\* The embedder marks what it loads, and a holder that keeps its watch polls it.
Fairness ==
  /\ \A e \in Entity : WF_vars(e \in unmarked /\ MarkDirty(e))
  /\ \A w \in WatchId : WF_vars(WatchPoll(w, FALSE))

FairSpec == Spec /\ Fairness

-----------------------------------------------------------------------------
(* Properties                                                              *)

\* No change is missed: whatever the order of loads, marks, subscriptions and
\* polls, an entity of an open watch whose current dict differs from the one
\* last returned is dirty, or the embedder has yet to mark it
\* (watch_sub, watch_unsub, watch_poll and mark_dirty together).
NoChangeMissed ==
  \A w \in watches : \A e \in ids[w] :
    \/ view[w][e] = entities[e]
    \/ e \in dirty[w]
    \/ e \in unmarked

\* A watch that is gone leaves nothing behind, and only subscribed entities
\* are dirty (watch_unsub with and without close, mark_dirty).
DirtyIsSubscribed ==
  /\ \A w \in WatchId : dirty[w] \subseteq ids[w]
  /\ \A w \in WatchId \ watches : ids[w] = {}

\* The tag index never misses an entity that has the tag, so the fast path of
\* read_by_filter returns every row the general path returns.
IndexMissesNothing ==
  \A t \in Tag : HasByEvaluation(t) \subseteq HasByIndex(t)

\* The cached column names are those of the entities now stored (all_col_names
\* is invalidated by every load).
ColumnsAreFresh == colNames # None => colNames = AllColNames

\* A change of a watched entity reaches the holder of the watch, unless the
\* entity is dropped from it.
ChangeReachesHolder ==
  \A w \in WatchId, e \in Entity :
    (e \in ids[w] /\ view[w][e] # entities[e])
      ~> (e \notin ids[w] \/ view[w][e] = entities[e])

\* The adapter keeps the promise of WatchContract.
Contract == INSTANCE WatchContract WITH
  known <- Known, open <- watches, subs <- ids, pending <- dirty

ContractSpec == Contract!Spec

=============================================================================
