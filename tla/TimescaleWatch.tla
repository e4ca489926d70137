--------------------------- MODULE TimescaleWatch ----------------------------
(***************************************************************************)
(* The watches of src/hs_py/storage/timescale.py on PostgreSQL. A session  *)
(* is one pooled connection serving one request; several servers may use   *)
(* the same database. Transactions are READ COMMITTED: a statement sees    *)
(* what was committed when it starts, an uncommitted row blocks whoever    *)
(* writes the same row, and a row of hs_watch_entities holds its parent in *)
(* hs_watches (foreign key, ON DELETE CASCADE).                            *)
(*                                                                         *)
(* Nothing under src/ sets dirty = true except watch_sub: the embedding    *)
(* program updates the flag after it stored an entity. A COMMIT that ran   *)
(* and its answer to the holder are two steps: the connection, the request *)
(* or the client may be gone in between.                                   *)
(***************************************************************************)
EXTENDS Integers

CONSTANTS Entity, WatchId, Session, None

VARIABLES
  entities,  \* hs_entities: the version of each row, 0 for none
  watches,   \* hs_watches
  flag,      \* hs_watch_entities: "none" without a row, "clean", "dirty"
  txn,       \* the open transaction of each session
  view,      \* newest version told to the holder of a watch
  unmarked,  \* stored, and not flagged yet
  passed,    \* flagged while a poll had read the flags and not cleared them
  untold     \* told by the committed poll of a watch whose answer got lost

vars == <<entities, watches, flag, txn, view, unmarked, passed, untold>>

Flag == {"none", "clean", "dirty"}
Txn == [op : {"sub", "poll", "refresh"}, w : WatchId, step : {"insert", "select", "update", "commit", "answer"},
        parent : BOOLEAN, added : SUBSET Entity, locked : SUBSET Entity,
        told : SUBSET Entity, rows : [Entity -> Nat]]

NoneAssumption == None \notin Txn

TypeOK ==
  /\ entities \in [Entity -> Nat]
  /\ watches \in SUBSET WatchId
  /\ flag \in [WatchId -> [Entity -> Flag]]
  /\ txn \in [Session -> {None} \union Txn]
  /\ view \in [WatchId -> [Entity -> Nat]]
  /\ unmarked \in SUBSET Entity
  /\ passed \in [WatchId -> SUBSET Entity]
  /\ untold \in [WatchId -> SUBSET Entity]

NoRows == [e \in Entity |-> 0]

Init ==
  /\ entities = NoRows
  /\ watches = {}
  /\ flag = [w \in WatchId |-> [e \in Entity |-> "none"]]
  /\ txn = [s \in Session |-> None]
  /\ view = [w \in WatchId |-> NoRows]
  /\ unmarked = {}
  /\ passed = [w \in WatchId |-> {}]
  /\ untold = [w \in WatchId |-> {}]

At(s, op, step) == txn[s] # None /\ txn[s].op \in op /\ txn[s].step = step
Open(w) == {s \in Session : txn[s] # None /\ txn[s].w = w}

Subscribed(w) == {e \in Entity : flag[w][e] # "none"}
Dirty(w) == {e \in Entity : flag[w][e] = "dirty"}

\* Rows and parents that an open transaction keeps others from writing.
Locked(w, e) == \E s \in Open(w) : e \in txn[s].locked
Adding(w, e) == \E s \in Open(w) : e \in txn[s].added
ParentHeld(w) == \E s \in Open(w) : txn[s].parent \/ txn[s].added # {}

Begin(s, op, w, parent, es, step) ==
  /\ txn[s] = None
  /\ txn' = [txn EXCEPT ![s] = [op |-> op, w |-> w, step |-> step, parent |-> parent,
                                added |-> {}, locked |-> {}, told |-> es, rows |-> NoRows]]

-----------------------------------------------------------------------------
(* The embedding program                                                   *)

Change(e) ==
  /\ entities' = [entities EXCEPT ![e] = @ + 1]
  /\ unmarked' = unmarked \union {e}
  /\ UNCHANGED <<watches, flag, txn, view, passed, untold>>

\* A poll of w that has read the flags and not cleared them.
Between(w) == \E s \in Open(w) : At(s, {"poll", "refresh"}, "update")

\* UPDATE hs_watch_entities SET dirty = true WHERE entity_id = e
MarkDirty(e) ==
  /\ e \in unmarked
  /\ \A w \in WatchId : e \in Subscribed(w) => ~ Locked(w, e)
  /\ flag' = [w \in WatchId |-> IF e \in Subscribed(w)
                                THEN [flag[w] EXCEPT ![e] = "dirty"] ELSE flag[w]]
  /\ passed' = [w \in WatchId |-> IF e \in Subscribed(w) /\ Between(w)
                                  THEN passed[w] \union {e} ELSE passed[w]]
  /\ unmarked' = unmarked \ {e}
  /\ UNCHANGED <<entities, watches, txn, view, untold>>

-----------------------------------------------------------------------------
(* watch_sub: one transaction                                              *)

\* INSERT INTO hs_watches ... ON CONFLICT DO NOTHING. A given id that is not
\* there is created as it is; an uncommitted one is waited for.
SubBegins(s, w, es) ==
  /\ \A r \in Open(w) : ~ txn[r].parent
  /\ Begin(s, "sub", w, w \notin watches, es, "insert")
  /\ UNCHANGED <<entities, watches, flag, view, unmarked, passed, untold>>

ParentThere(s) == txn[s].parent \/ txn[s].w \in watches

\* INSERT INTO hs_watch_entities ... ON CONFLICT DO NOTHING: the new rows need
\* their parent.
SubInserts(s) ==
  /\ At(s, {"sub"}, "insert")
  /\ \A e \in txn[s].told : ~ Locked(txn[s].w, e) /\ ~ Adding(txn[s].w, e)
  /\ txn[s].told \subseteq Subscribed(txn[s].w) \/ ParentThere(s)
  /\ txn' = [txn EXCEPT ![s].added = txn[s].told \ Subscribed(txn[s].w), ![s].step = "select"]
  /\ UNCHANGED <<entities, watches, flag, view, unmarked, passed, untold>>

\* The watch was closed in between: ForeignKeyViolationError, and rollback.
SubOrphaned(s) ==
  /\ At(s, {"sub"}, "insert")
  /\ ~ (txn[s].told \subseteq Subscribed(txn[s].w)) /\ ~ ParentThere(s)
  /\ txn' = [txn EXCEPT ![s] = None]
  /\ UNCHANGED <<entities, watches, flag, view, unmarked, passed, untold>>

-----------------------------------------------------------------------------
(* watch_poll: one transaction, of two statements                          *)

PollBegins(s, op, w) ==
  /\ Begin(s, op, w, FALSE, {}, "select")
  /\ UNCHANGED <<entities, watches, flag, view, unmarked, passed, untold>>

\* SELECT: the entities of the watch, its own new rows included, or the dirty
\* ones, that are stored.
Stored(es) == {e \in es : entities[e] # 0}

Selected(s) ==
  IF txn[s].op = "poll" THEN Stored(Dirty(txn[s].w))
  ELSE Stored(Subscribed(txn[s].w) \union txn[s].added)

Selects(s) ==
  /\ txn[s] # None /\ txn[s].step = "select"
  /\ txn' = [txn EXCEPT
       ![s].rows = [e \in Entity |-> IF e \in Selected(s) THEN entities[e] ELSE 0],
       ![s].told = Selected(s),
       ![s].step = IF txn[s].op = "sub" THEN "commit" ELSE "update"]
  /\ UNCHANGED <<entities, watches, flag, view, unmarked, passed, untold>>

\* UPDATE ... SET dirty = false WHERE watch_id = w: the rows committed by now,
\* whatever the SELECT saw.
PollUpdates(s) ==
  /\ At(s, {"poll", "refresh"}, "update")
  /\ \A e \in Subscribed(txn[s].w) : ~ Locked(txn[s].w, e)
  /\ txn' = [txn EXCEPT ![s].locked = Subscribed(txn[s].w), ![s].step = "commit"]
  /\ UNCHANGED <<entities, watches, flag, view, unmarked, passed, untold>>

-----------------------------------------------------------------------------
(* Ends                                                                    *)

AddedClean(s) ==                                                            \* mutant
  [e \in Entity |-> IF e \in txn[s].added \union txn[s].locked THEN "clean" ELSE flag[txn[s].w][e]]
FlagAfterCommit(s) ==
  [e \in Entity |-> CASE e \in txn[s].added -> "dirty"
                      [] e \in txn[s].locked -> "clean"
                      [] OTHER -> flag[txn[s].w][e]]

\* COMMIT runs: the rows are there for all, and their locks are gone.
Commits(s) ==
  /\ txn[s] # None /\ txn[s].step = "commit"
  /\ watches' = IF txn[s].parent THEN watches \union {txn[s].w} ELSE watches
  /\ flag' = [flag EXCEPT ![txn[s].w] = FlagAfterCommit(s)]
  /\ passed' = IF Between(txn[s].w) THEN [passed EXCEPT ![txn[s].w] = @ \union txn[s].added] ELSE passed
  /\ txn' = [txn EXCEPT ![s].step = "answer", ![s].parent = FALSE, ![s].added = {}, ![s].locked = {}]
  /\ UNCHANGED <<entities, view, unmarked, untold>>

\* Entities whose current version the answer of the transaction has.
Current(s) == {e \in txn[s].told : txn[s].rows[e] = entities[e]}

Answers(s) ==
  /\ txn[s] # None /\ txn[s].step = "answer"
  /\ view' = [view EXCEPT ![txn[s].w] =
                [e \in Entity |-> IF txn[s].rows[e] > @[e] THEN txn[s].rows[e] ELSE @[e]]]
  /\ passed' = [passed EXCEPT ![txn[s].w] = @ \ Current(s)]
  /\ untold' = [untold EXCEPT ![txn[s].w] = @ \ Current(s)]
  /\ txn' = [txn EXCEPT ![s] = None]
  /\ UNCHANGED <<entities, watches, flag, unmarked>>

\* The answer to COMMIT does not arrive, the request is cancelled after it, or
\* the holder does not get the answer. What a watch_sub added stays flagged.
AnswerIsLost(s) ==
  /\ txn[s] # None /\ txn[s].step = "answer"
  /\ untold' = IF txn[s].op = "sub" THEN untold
                ELSE [untold EXCEPT ![txn[s].w] = @ \union Current(s)]
  /\ txn' = [txn EXCEPT ![s] = None]
  /\ UNCHANGED <<entities, watches, flag, view, unmarked, passed>>

\* A statement fails, or the connection breaks or the request is cancelled
\* before COMMIT ran.
RollsBack(s) ==
  /\ txn[s] # None /\ txn[s].step # "answer"
  /\ txn' = [txn EXCEPT ![s] = None]
  /\ UNCHANGED <<entities, watches, flag, view, unmarked, passed, untold>>

-----------------------------------------------------------------------------
(* watch_unsub: one statement                                              *)

NoRowsLeft(w, es) == [flag EXCEPT ![w] = [e \in Entity |-> IF e \in es THEN "none" ELSE @[e]]]
Forgotten(w, es) == [view EXCEPT ![w] = [e \in Entity |-> IF e \in es THEN 0 ELSE @[e]]]

Unsub(w, es) ==
  /\ \A e \in es \intersect Subscribed(w) : ~ Locked(w, e)
  /\ flag' = NoRowsLeft(w, es)
  /\ view' = Forgotten(w, es)
  /\ UNCHANGED <<entities, watches, txn, unmarked, passed, untold>>

\* ON DELETE CASCADE
FlagAfterClose(w) == NoRowsLeft(w, Entity)

Close(w) ==
  /\ w \in watches /\ ~ ParentHeld(w)
  /\ \A e \in Subscribed(w) : ~ Locked(w, e)
  /\ watches' = watches \ {w}
  /\ flag' = FlagAfterClose(w)
  /\ view' = Forgotten(w, Entity)
  /\ UNCHANGED <<entities, txn, unmarked, passed, untold>>

Next ==
  \/ \E e \in Entity : Change(e) \/ MarkDirty(e)
  \/ \E s \in Session, w \in WatchId, es \in SUBSET Entity \ {{}} : SubBegins(s, w, es)
  \/ \E s \in Session, w \in WatchId, op \in {"poll", "refresh"} : PollBegins(s, op, w)
  \/ \E s \in Session : \/ SubInserts(s) \/ SubOrphaned(s) \/ Selects(s) \/ PollUpdates(s)
                        \/ Commits(s) \/ Answers(s) \/ AnswerIsLost(s) \/ RollsBack(s)
  \/ \E w \in WatchId, es \in SUBSET Entity \ {{}} : Unsub(w, es)
  \/ \E w \in WatchId : Close(w)

Spec == Init /\ [][Next]_vars

-----------------------------------------------------------------------------
(* Properties                                                              *)

\* The committed poll of w has the current version of e for its holder.
Coming(w, e) == \E s \in Open(w) : At(s, {"poll", "refresh"}, "answer") /\ e \in Current(s)

\* A notification is lost only in the window between the two statements of
\* watch_poll, or with the answer of a poll that was committed: whatever fails
\* or interleaves, an entity whose current version the holder was not told is
\* dirty, unmarked, on its way, was flagged in that window or was in an answer
\* that got lost.
LostOnlyBetween ==
  \A w \in watches : \A e \in Subscribed(w) :
    \/ view[w][e] = entities[e] \/ Coming(w, e)
    \/ e \in Dirty(w) \union unmarked \union untold[w] \union passed[w]

\* "Uses a transaction to atomically fetch and clear dirty flags, preventing
\* lost notifications from concurrent writers." (storage/timescale.py:747):
\* without the window, then; an answer may get lost without a writer.
NoNotificationLost ==
  \A w \in watches : \A e \in Subscribed(w) :
    view[w][e] = entities[e] \/ Coming(w, e) \/ e \in Dirty(w) \union unmarked \union untold[w]

=============================================================================
